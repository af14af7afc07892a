------------------------- MODULE WebhookSenderProofs -------------------------
(***************************************************************************)
(* WebhookSender for every queue size, number of attempts and breaker      *)
(* threshold: its types, the order of delivery, and what an open breaker   *)
(* allows.  The three rest on one inductive invariant.                     *)
(***************************************************************************)
EXTENDS WebhookSender, TLAPS

Delivering == phase \in {"posting", "backoff"}

\* The oldest number an event still to be queued can have.
Coming == IF offered = 0 THEN nextEv ELSE offered

\* Nothing younger than what is being delivered has reached Odoo, nothing being
\* delivered is younger than what waits in the queue, the queue is in order,
\* and whatever comes is not older than any of them.
OrderInv ==
    /\ last <= Coming /\ cur <= Coming /\ Coming <= nextEv
    /\ Delivering => last <= cur
    /\ \A i \in 1 .. Len(queue) :
          /\ last <= queue[i] /\ cur <= queue[i] /\ queue[i] <= Coming
          /\ \A j \in i .. Len(queue) : queue[i] <= queue[j]

\* A delivery has the budget the breaker gave it when it began, and a backoff
\* has an attempt left to wait for.
BudgetInv ==
    Delivering =>
        /\ cur # 0
        /\ budget = IF Degraded THEN 1 ELSE Attempts
        /\ attempt \in 1 .. budget
        /\ phase = "backoff" => attempt < budget

IInv == TypeOK /\ OrderInv /\ BudgetInv

\* Taking the head off a queue leaves the same elements one place further on.
LEMMA TailFacts ==
    ASSUME NEW S, NEW q \in Seq(S), q # <<>>
    PROVE  /\ Tail(q) \in Seq(S) /\ Head(q) \in S /\ Head(q) = q[1]
           /\ Len(q) \in Nat \ {0} /\ Len(Tail(q)) = Len(q) - 1
           /\ \A i \in 1 .. Len(q) - 1 : Tail(q)[i] = q[i + 1]
OBVIOUS

LEMMA AppendFacts ==
    ASSUME NEW S, NEW q \in Seq(S), NEW e \in S
    PROVE  /\ Append(q, e) \in Seq(S)
           /\ Len(q) \in Nat /\ Len(Append(q, e)) = Len(q) + 1
           /\ \A i \in 1 .. Len(q) : Append(q, e)[i] = q[i]
           /\ Append(q, e)[Len(q) + 1] = e
OBVIOUS


LEMMA InitInvariant == Init => IInv
<1> SUFFICES ASSUME Init PROVE IInv
  OBVIOUS
<1>1. TypeOK
  <2>1. queue \in Seq(1 .. MaxEvents)
    BY DEF Init
  <2>2. Len(queue) <= QueueSize
    BY ConstantsAssumption DEF Init
  <2>3. /\ healthy \in BOOLEAN /\ target \in BOOLEAN
        /\ nextEv \in 1 .. MaxEvents /\ offered \in 0 .. MaxEvents
        /\ phase = "idle" /\ cur \in 0 .. MaxEvents
        /\ attempt \in 0 .. Attempts /\ budget \in 0 .. Attempts
        /\ fails \in 0 .. BreakerAfter /\ cool = TRUE
        /\ stopped = FALSE /\ done = FALSE /\ last \in 0 .. MaxEvents
    BY ConstantsAssumption DEF Init
  <2> QED
    BY <2>1, <2>2, <2>3 DEF TypeOK
<1>2. OrderInv
  <2>1. Len(queue) = 0
    BY DEF Init
  <2> QED
    BY <2>1 DEF Init, OrderInv, Coming, Delivering
<1>3. BudgetInv
  BY DEF Init, BudgetInv, Delivering
<1> QED
  BY <1>1, <1>2, <1>3 DEF IInv

----------------------------------------------------------------------------
(* The steps *)

LEMMA TypeStep == IInv /\ [Next]_vars => TypeOK'
<1> SUFFICES ASSUME IInv, [Next]_vars PROVE TypeOK'
  OBVIOUS
<1> USE ConstantsAssumption DEF IInv, TypeOK
<1>1. CASE HealthChanges \/ TargetChanges \/ Cools \/ EnqueueLook
  <2>1. CASE HealthChanges \/ TargetChanges
    BY <2>1 DEF HealthChanges, TargetChanges, inVars, jobVars, stopVars
  <2>2. CASE Cools
    BY <2>2 DEF Cools, envVars, inVars, jobVars, stopVars
  <2>3. CASE EnqueueLook
    BY <2>3 DEF EnqueueLook, envVars, jobVars, stopVars
  <2> QED
    BY <1>1, <2>1, <2>2, <2>3
<1>2. CASE EnqueuePut
  <2>1. CASE Len(queue) < QueueSize
    <3>1. offered \in 1 .. MaxEvents
      BY <1>2 DEF EnqueuePut
    <3>2. queue' \in Seq(1 .. MaxEvents) /\ Len(queue') = Len(queue) + 1 /\ Len(queue) \in Nat
      BY <1>2, <2>1, <3>1, AppendFacts DEF EnqueuePut
    <3> QED
      BY <1>2, <2>1, <3>2 DEF EnqueuePut, envVars, jobVars, stopVars
  <2> QED
    BY <1>2, <2>1 DEF EnqueuePut, envVars, jobVars, stopVars
<1>3. CASE TakeNoTarget \/ TakeBadTarget \/ TakeTooSoon \/ TakePost
  <2>a. queue # <<>> /\ queue' = Tail(queue)
    BY <1>3 DEF TakeNoTarget, TakeBadTarget, TakeTooSoon, TakePost
  <2>b. /\ queue' \in Seq(1 .. MaxEvents) /\ Head(queue) \in 1 .. MaxEvents
        /\ Len(queue) \in Nat /\ Len(queue') = Len(queue) - 1
    BY <2>a, TailFacts
  <2>1. /\ queue' \in Seq(1 .. MaxEvents) /\ Len(queue') <= QueueSize
        /\ Head(queue) \in 1 .. MaxEvents
    BY <2>b
  <2>2. CASE TakeNoTarget
    BY <2>1, <2>2 DEF TakeNoTarget, Failure, Degraded, envVars, inVars, jobVars, stopVars
  <2>5. CASE TakeBadTarget
    <3>1. fails' \in 0 .. BreakerAfter /\ cool' = FALSE
      BY <2>5 DEF TakeBadTarget, Failure, Degraded
    <3>2. UNCHANGED <<healthy, target, nextEv, offered, phase, cur, attempt, budget, stopped, done, last>>
      BY <2>5 DEF TakeBadTarget, envVars, inVars, jobVars, stopVars
    <3> QED
      BY <2>1, <3>1, <3>2
  <2>3. CASE TakeTooSoon
    BY <2>1, <2>3 DEF TakeTooSoon, envVars, inVars, jobVars, stopVars
  <2>4. CASE TakePost
    <3>1. /\ cur' \in 1 .. MaxEvents /\ phase' = "posting" /\ cool' = FALSE
          /\ attempt' \in 0 .. Attempts /\ budget' \in 0 .. Attempts
      BY <2>1, <2>4 DEF TakePost
    <3>2. UNCHANGED <<healthy, target, nextEv, offered, fails, stopped, done, last>>
      BY <2>4 DEF TakePost, envVars, inVars, stopVars
    <3>3. cur' \in 0 .. MaxEvents /\ phase' \in {"idle", "posting", "backoff", "exited"}
      BY <3>1
    <3>4. /\ healthy' \in BOOLEAN /\ target' \in BOOLEAN /\ cool' \in BOOLEAN
          /\ stopped' \in BOOLEAN /\ done' \in BOOLEAN
          /\ nextEv' \in 1 .. MaxEvents /\ offered' \in 0 .. MaxEvents
          /\ fails' \in 0 .. BreakerAfter /\ last' \in 0 .. MaxEvents
      BY <3>1, <3>2, Zenon
    <3> QED
      BY <2>1, <3>1, <3>3, <3>4
  <2> QED
    BY <1>3, <2>2, <2>3, <2>4, <2>5
<1>4. CASE Succeed \/ FailAndRetry \/ FailAndGiveUp
  <2>1. CASE Succeed
    BY <2>1 DEF Succeed, JobOver, envVars, inVars, stopVars
  <2>2. CASE FailAndRetry
    BY <2>2 DEF FailAndRetry, PerhapsReceived, envVars, inVars, jobVars, stopVars
  <2>3. CASE FailAndGiveUp
    BY <2>3 DEF FailAndGiveUp, PerhapsReceived, Failure, Degraded, JobOver, envVars, inVars,
                stopVars
  <2> QED
    BY <1>4, <2>1, <2>2, <2>3
<1>5. CASE BackoffEnds
  BY <1>5 DEF BackoffEnds, BudgetInv, Delivering, Degraded, envVars, inVars, stopVars
<1>6. CASE BackoffStopped \/ Exit \/ Stop \/ CloseDone
  <2>1. CASE BackoffStopped
    BY <2>1 DEF BackoffStopped, JobOver, envVars, inVars, stopVars
  <2>2. CASE Exit
    BY <2>2 DEF Exit, envVars, inVars, jobVars, stopVars
  <2>3. CASE Stop \/ CloseDone
    BY <2>3 DEF Stop, CloseDone, envVars, inVars, jobVars
  <2> QED
    BY <1>6, <2>1, <2>2, <2>3
<1>7. CASE UNCHANGED vars
  BY <1>7 DEF vars
<1> QED
  BY <1>1, <1>2, <1>3, <1>4, <1>5, <1>6, <1>7 DEF Next, Deliver

LEMMA BudgetStep == IInv /\ [Next]_vars => BudgetInv'
<1> SUFFICES ASSUME IInv, [Next]_vars PROVE BudgetInv'
  OBVIOUS
<1> USE ConstantsAssumption DEF IInv, TypeOK, BudgetInv, Delivering, Degraded
<1>1. CASE HealthChanges \/ TargetChanges \/ Cools \/ EnqueueLook \/ EnqueuePut
  BY <1>1 DEF HealthChanges, TargetChanges, Cools, EnqueueLook, EnqueuePut, jobVars
<1>2. CASE TakeNoTarget \/ TakeBadTarget \/ TakeTooSoon
  BY <1>2 DEF TakeNoTarget, TakeBadTarget, TakeTooSoon
<1>3. CASE TakePost
  <2>1. Head(queue) \in 1 .. MaxEvents
    BY <1>3, TailFacts DEF TakePost
  <2> QED
    BY <1>3, <2>1 DEF TakePost
<1>4. CASE Succeed \/ FailAndGiveUp \/ BackoffStopped
  BY <1>4 DEF Succeed, FailAndGiveUp, BackoffStopped, JobOver
<1>5. CASE FailAndRetry \/ BackoffEnds
  BY <1>5 DEF FailAndRetry, BackoffEnds, jobVars
<1>6. CASE Exit \/ Stop \/ CloseDone
  BY <1>6 DEF Exit, Stop, CloseDone, jobVars
<1>7. CASE UNCHANGED vars
  BY <1>7 DEF vars
<1> QED
  BY <1>1, <1>2, <1>3, <1>4, <1>5, <1>6, <1>7 DEF Next, Deliver

LEMMA OrderStep == IInv /\ [Next]_vars => OrderInv'
<1> SUFFICES ASSUME IInv, [Next]_vars PROVE OrderInv'
  OBVIOUS
<1> USE ConstantsAssumption DEF IInv, TypeOK, OrderInv, Coming, Delivering
<1>1. CASE \/ HealthChanges \/ TargetChanges \/ Cools \/ Exit \/ Stop \/ CloseDone
           \/ BackoffEnds \/ UNCHANGED vars
  BY <1>1 DEF HealthChanges, TargetChanges, Cools, Exit, Stop, CloseDone, BackoffEnds, inVars,
              jobVars, vars
<1>2. CASE EnqueueLook
  BY <1>2 DEF EnqueueLook, jobVars
<1>3. CASE EnqueuePut
  <2>1. CASE Len(queue) < QueueSize
    <3>1. offered \in 1 .. MaxEvents
      BY <1>3 DEF EnqueuePut
    <3>2. /\ Len(queue) \in Nat /\ Len(queue') = Len(queue) + 1
          /\ \A i \in 1 .. Len(queue) : queue'[i] = queue[i]
          /\ queue'[Len(queue) + 1] = offered
      BY <1>3, <2>1, <3>1, AppendFacts DEF EnqueuePut
    <3>3. \A i \in 1 .. Len(queue') :
             \/ i \in 1 .. Len(queue) /\ queue'[i] = queue[i] /\ queue[i] \in 1 .. MaxEvents
             \/ i = Len(queue') /\ queue'[i] = offered
      BY <3>2
    <3>4. /\ offered' = 0 /\ last' = last /\ cur' = cur /\ phase' = phase /\ nextEv' = nextEv
          /\ Coming = offered
      BY <1>3 DEF EnqueuePut, jobVars
    <3>5. \A i \in 1 .. Len(queue') :
             last' <= queue'[i] /\ cur' <= queue'[i] /\ queue'[i] <= Coming'
      BY <3>1, <3>3, <3>4
    <3>6. \A i \in 1 .. Len(queue') : \A j \in i .. Len(queue') : queue'[i] <= queue'[j]
      <4> SUFFICES ASSUME NEW i \in 1 .. Len(queue'), NEW j \in i .. Len(queue')
                   PROVE  queue'[i] <= queue'[j]
        OBVIOUS
      <4>1. CASE j \in 1 .. Len(queue)
        <5>1. i \in 1 .. Len(queue) /\ j \in i .. Len(queue)
          BY <3>2, <4>1
        <5>2. queue'[i] = queue[i] /\ queue'[j] = queue[j]
          BY <3>2, <5>1
        <5> QED
          BY <5>1, <5>2
      <4>2. CASE j = Len(queue) + 1
        BY <3>1, <3>2, <3>3, <3>4, <4>2
      <4> QED
        BY <3>2, <4>1, <4>2
    <3>7. last' <= Coming' /\ cur' <= Coming' /\ Coming' <= nextEv'
      BY <3>1, <3>4
    <3> QED
      BY <3>4, <3>5, <3>6, <3>7
  <2> QED
    BY <1>3, <2>1 DEF EnqueuePut, jobVars
<1>4. CASE TakeNoTarget \/ TakeBadTarget \/ TakeTooSoon \/ TakePost
  <2>1. /\ Head(queue) = queue[1] /\ Head(queue) \in 1 .. MaxEvents
        /\ Len(queue) \in Nat \ {0} /\ Len(queue') = Len(queue) - 1
        /\ \A i \in 1 .. Len(queue') : queue'[i] = queue[i + 1]
        /\ last' = last /\ nextEv' = nextEv /\ offered' = offered
    BY <1>4, TailFacts DEF TakeNoTarget, TakeBadTarget, TakeTooSoon, TakePost, inVars
  <2>2. \A i \in 1 .. Len(queue) : queue[i] \in 1 .. MaxEvents
    OBVIOUS
  <2>3. CASE TakePost
    <3>1. cur' = queue[1] /\ phase' = "posting"
      BY <2>1, <2>3 DEF TakePost
    <3>2. \A i \in 1 .. Len(queue') :
             /\ i + 1 \in 1 .. Len(queue) /\ queue'[i] = queue[i + 1]
             /\ \A j \in i .. Len(queue') :
                   j + 1 \in i + 1 .. Len(queue) /\ queue'[j] = queue[j + 1]
      BY <2>1
    <3>3. 1 \in 1 .. Len(queue)
      BY <2>1
    <3> QED
      BY <2>1, <2>2, <3>1, <3>2, <3>3
  <2>4. CASE TakeNoTarget \/ TakeBadTarget \/ TakeTooSoon
    <3>1. cur' = cur /\ phase' = phase
      BY <2>4 DEF TakeNoTarget, TakeBadTarget, TakeTooSoon, jobVars
    <3>2. \A i \in 1 .. Len(queue') :
             /\ i + 1 \in 1 .. Len(queue) /\ queue'[i] = queue[i + 1]
             /\ \A j \in i .. Len(queue') :
                   j + 1 \in i + 1 .. Len(queue) /\ queue'[j] = queue[j + 1]
      BY <2>1
    <3> QED
      BY <2>1, <3>1, <3>2
  <2> QED
    BY <1>4, <2>3, <2>4
<1>5. CASE Succeed \/ FailAndRetry \/ FailAndGiveUp \/ BackoffStopped
  <2>1. \A i \in 1 .. Len(queue) : queue[i] \in 1 .. MaxEvents
    OBVIOUS
  <2>2. queue' = queue /\ nextEv' = nextEv /\ offered' = offered /\ Delivering
    BY <1>5 DEF Succeed, FailAndRetry, FailAndGiveUp, BackoffStopped, inVars
  <2>3. last' \in {last, cur}
    BY <1>5 DEF Succeed, FailAndRetry, FailAndGiveUp, BackoffStopped, PerhapsReceived
  <2>4. \/ cur' = 0 /\ phase' = "idle"
        \/ cur' = cur
    BY <1>5 DEF Succeed, FailAndRetry, FailAndGiveUp, BackoffStopped, JobOver, jobVars
  <2> QED
    BY <2>1, <2>2, <2>3, <2>4
<1> QED
  BY <1>1, <1>2, <1>3, <1>4, <1>5 DEF Next, Deliver

LEMMA Invariance == Spec => []IInv
<1>1. IInv /\ [Next]_vars => IInv'
  BY TypeStep, BudgetStep, OrderStep DEF IInv
<1> QED
  BY <1>1, InitInvariant, PTL DEF Spec

----------------------------------------------------------------------------
(* The theorems *)

\* Every variable of the sender keeps its type, and the queue its bound: the
\* queue of enqueue and run for every size.
THEOREM TypeCorrect == Spec => []TypeOK
BY Invariance, PTL DEF IInv

\* While the breaker is open a delivery makes one attempt and never waits for
\* another (deliver, gateway/webhook.go:158-175), for every threshold and every
\* number of attempts.
THEOREM BreakerLimits == Spec => []BreakerLimitsAttempts
<1>1. IInv => BreakerLimitsAttempts
  BY DEF IInv, BudgetInv, BreakerLimitsAttempts, Delivering
<1> QED
  BY <1>1, Invariance, PTL

\* No event is posted to Odoo after a later one, whatever is dropped, repeated or
\* given up on the way (enqueue, run and deliver).
THEOREM InOrder == Spec => DeliveredInOrder
<1>1. IInv /\ [Next]_vars => [last' >= last]_last
  <2> SUFFICES ASSUME IInv, Next, last' # last PROVE last' >= last
    BY DEF vars
  <2>1. Succeed \/ FailAndRetry \/ FailAndGiveUp
    BY DEF Next, Deliver, HealthChanges, TargetChanges, Cools, EnqueueLook, EnqueuePut,
           TakeNoTarget, TakeBadTarget, TakeTooSoon, TakePost, BackoffEnds, BackoffStopped, Exit, Stop, CloseDone
  <2>2. last' = cur /\ phase = "posting"
    BY <2>1 DEF Succeed, FailAndRetry, FailAndGiveUp, PerhapsReceived
  <2> QED
    BY <2>2 DEF IInv, OrderInv, Delivering, TypeOK
<1> QED
  BY <1>1, Invariance, PTL DEF Spec, DeliveredInOrder
=============================================================================
