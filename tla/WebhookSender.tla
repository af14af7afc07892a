---------------------------- MODULE WebhookSender ----------------------------
(***************************************************************************)
(* The gateway's delivery of one session's events to its Odoo: a bounded   *)
(* queue filled by whatsmeow's event handler and one goroutine that posts  *)
(* the events one at a time, with retries, a circuit breaker for an Odoo   *)
(* that is down, and a stop that may come at any moment.                   *)
(*                                                                         *)
(* Events are numbered in the order WhatsApp handed them over; from        *)
(* MaxEvents on they share the last number, so that traffic never ends in  *)
(* a finite model.                                                         *)
(***************************************************************************)
EXTENDS Naturals, Sequences

CONSTANTS QueueSize,     \* webhookQueueSize
          Attempts,      \* webhookAttempts
          BreakerAfter,  \* webhookBreakerAfter
          MaxEvents      \* bound: event numbers

ASSUME ConstantsAssumption ==
    /\ QueueSize \in Nat \ {0} /\ Attempts \in Nat \ {0}
    /\ BreakerAfter \in Nat \ {0} /\ MaxEvents \in Nat \ {0}

VARIABLES healthy,  \* does Odoo take a POST and answer it with a 2xx in time?
          target,   \* is a webhook URL registered that a request can be made of?
          nextEv,   \* the number of the next event
          offered,  \* the event enqueue is holding after its look at stopped, or 0
          queue,    \* w.queue
          phase,    \* where the delivery goroutine is
          cur,      \* the event it is delivering, or 0
          attempt,  \* the attempt it is making
          budget,   \* the attempts this event may take
          fails,    \* consecutive give-ups, counted as far as BreakerAfter
          cool,     \* has webhookProbeEvery passed since lastAttempt?
          stopped,  \* w.stopped
          done,     \* is the done channel closed?
          last      \* the number of the last event that reached Odoo

envVars  == <<healthy, target>>
inVars   == <<nextEv, offered>>
jobVars  == <<cur, attempt, budget>>
stopVars == <<stopped, done>>
vars == <<healthy, target, nextEv, offered, queue, phase, cur, attempt, budget,
          fails, cool, stopped, done, last>>

Degraded == fails >= BreakerAfter
Failure  == fails' = IF Degraded THEN fails ELSE fails + 1    \* noteFailure

----------------------------------------------------------------------------
(* Odoo and its registration *)

HealthChanges ==
    /\ healthy' = ~healthy
    /\ UNCHANGED <<target, queue, phase, fails, cool, last>>
    /\ UNCHANGED inVars /\ UNCHANGED jobVars /\ UNCHANGED stopVars

TargetChanges ==
    /\ target' = ~target
    /\ UNCHANGED <<healthy, queue, phase, fails, cool, last>>
    /\ UNCHANGED inVars /\ UNCHANGED jobVars /\ UNCHANGED stopVars

\* webhookProbeEvery passes without an attempt having begun.
Cools ==
    /\ ~cool
    /\ cool' = TRUE
    /\ UNCHANGED <<queue, phase, fails, last>>
    /\ UNCHANGED envVars /\ UNCHANGED inVars /\ UNCHANGED jobVars /\ UNCHANGED stopVars

----------------------------------------------------------------------------
(* The event handler: enqueue *)

\* The look at w.stopped, under the mutex and apart from the channel send.
EnqueueLook ==
    /\ offered = 0
    /\ ~stopped
    /\ offered' = nextEv
    /\ nextEv' = IF nextEv < MaxEvents THEN nextEv + 1 ELSE nextEv
    /\ UNCHANGED <<queue, phase, fails, cool, last>>
    /\ UNCHANGED envVars /\ UNCHANGED jobVars /\ UNCHANGED stopVars

\* Mutation: the select's default case is gone, and the queue has no limit.
PutUnbounded ==
    /\ offered # 0
    /\ queue' = Append(queue, offered)
    /\ offered' = 0
    /\ UNCHANGED <<nextEv, phase, fails, cool, last>>
    /\ UNCHANGED envVars /\ UNCHANGED jobVars /\ UNCHANGED stopVars

\* The non-blocking send: a full queue drops the event.
EnqueuePut ==
    /\ offered # 0
    /\ queue' = IF Len(queue) < QueueSize THEN Append(queue, offered) ELSE queue
    /\ offered' = 0
    /\ UNCHANGED <<nextEv, phase, fails, cool, last>>
    /\ UNCHANGED envVars /\ UNCHANGED jobVars /\ UNCHANGED stopVars

----------------------------------------------------------------------------
(* The delivery goroutine: run and deliver *)

\* The job is taken and given up at once: nowhere to post it.
TakeNoTarget ==
    /\ phase = "idle" /\ queue # <<>>
    /\ ~target
    /\ queue' = Tail(queue)
    /\ Failure
    /\ UNCHANGED <<phase, cool, last>>
    /\ UNCHANGED envVars /\ UNCHANGED inVars /\ UNCHANGED jobVars /\ UNCHANGED stopVars

\* The job is taken and given up at once: its request cannot be built from the
\* URL, which counts as an attempt.
TakeBadTarget ==
    /\ phase = "idle" /\ queue # <<>>
    /\ ~target /\ (Degraded => cool)
    /\ queue' = Tail(queue)
    /\ Failure
    /\ cool' = FALSE
    /\ UNCHANGED <<phase, last>>
    /\ UNCHANGED envVars /\ UNCHANGED inVars /\ UNCHANGED jobVars /\ UNCHANGED stopVars

\* The job is taken and dropped: the target is down and was tried just now, be
\* its URL of use or not.
TakeTooSoon ==
    /\ phase = "idle" /\ queue # <<>>
    /\ Degraded /\ ~cool
    /\ queue' = Tail(queue)
    /\ UNCHANGED <<phase, fails, cool, last>>
    /\ UNCHANGED envVars /\ UNCHANGED inVars /\ UNCHANGED jobVars /\ UNCHANGED stopVars

\* Mutation: a probe of a target that is down gets every attempt.
TakeFullBudget ==
    /\ phase = "idle" /\ queue # <<>>
    /\ target /\ (Degraded => cool)
    /\ queue' = Tail(queue)
    /\ phase' = "posting" /\ cur' = Head(queue) /\ attempt' = 1 /\ budget' = Attempts
    /\ cool' = FALSE
    /\ UNCHANGED <<fails, last>>
    /\ UNCHANGED envVars /\ UNCHANGED inVars /\ UNCHANGED stopVars

\* The job is taken and its first attempt begins.
TakePost ==
    /\ phase = "idle" /\ queue # <<>>
    /\ target /\ (Degraded => cool)
    /\ queue' = Tail(queue)
    /\ phase' = "posting" /\ cur' = Head(queue) /\ attempt' = 1
    /\ budget' = IF Degraded THEN 1 ELSE Attempts
    /\ cool' = FALSE
    /\ UNCHANGED <<fails, last>>
    /\ UNCHANGED envVars /\ UNCHANGED inVars /\ UNCHANGED stopVars

JobOver == phase' = "idle" /\ cur' = 0 /\ attempt' = 0 /\ budget' = 0

\* Mutation: a success does not end the streak of failures.
SucceedNoReset ==
    /\ phase = "posting" /\ healthy
    /\ last' = cur
    /\ JobOver
    /\ UNCHANGED <<queue, fails, cool>>
    /\ UNCHANGED envVars /\ UNCHANGED inVars /\ UNCHANGED stopVars

\* A 2xx: noteSuccess.
Succeed ==
    /\ phase = "posting" /\ healthy
    /\ last' = cur
    /\ fails' = 0
    /\ JobOver
    /\ UNCHANGED <<queue, cool>>
    /\ UNCHANGED envVars /\ UNCHANGED inVars /\ UNCHANGED stopVars

\* A POST that counts as failed may have reached Odoo: the answer timed out, or
\* something between the two lost it.
PerhapsReceived == last' \in {last, cur}

\* Mutation: a failed event goes to the back of the queue for its next attempt.
RetryLater ==
    /\ phase = "posting" /\ ~healthy
    /\ PerhapsReceived
    /\ attempt < budget /\ Len(queue) < QueueSize
    /\ queue' = Append(queue, cur)
    /\ JobOver
    /\ UNCHANGED <<cool, fails>>
    /\ UNCHANGED envVars /\ UNCHANGED inVars /\ UNCHANGED stopVars

\* Anything but a 2xx, with attempts left.
FailAndRetry ==
    /\ phase = "posting" /\ ~healthy
    /\ PerhapsReceived
    /\ attempt < budget
    /\ phase' = "backoff"
    /\ UNCHANGED <<queue, cool, fails>> /\ UNCHANGED jobVars
    /\ UNCHANGED envVars /\ UNCHANGED inVars /\ UNCHANGED stopVars

\* The last attempt failed: the event is given up.
FailAndGiveUp ==
    /\ phase = "posting" /\ ~healthy
    /\ PerhapsReceived
    /\ attempt = budget
    /\ Failure
    /\ JobOver
    /\ UNCHANGED <<queue, cool>>
    /\ UNCHANGED envVars /\ UNCHANGED inVars /\ UNCHANGED stopVars

\* Mutation: the attempts are not counted.
RetryForever ==
    /\ phase = "backoff"
    /\ phase' = "posting"
    /\ UNCHANGED <<queue, fails, cool, last>> /\ UNCHANGED jobVars
    /\ UNCHANGED envVars /\ UNCHANGED inVars /\ UNCHANGED stopVars

\* The backoff is over and the next attempt begins.
BackoffEnds ==
    /\ phase = "backoff"
    /\ phase' = "posting" /\ attempt' = attempt + 1
    /\ UNCHANGED <<queue, fails, cool, last, cur, budget>>
    /\ UNCHANGED envVars /\ UNCHANGED inVars /\ UNCHANGED stopVars

\* deliver returns from its backoff without a verdict on the event.
BackoffStopped ==
    /\ phase = "backoff" /\ done
    /\ JobOver
    /\ UNCHANGED <<queue, fails, cool, last>>
    /\ UNCHANGED envVars /\ UNCHANGED inVars /\ UNCHANGED stopVars

\* run's select takes the done branch, whether or not jobs are waiting.
Exit ==
    /\ phase = "idle" /\ done
    /\ phase' = "exited"
    /\ UNCHANGED <<queue, fails, cool, last>>
    /\ UNCHANGED envVars /\ UNCHANGED inVars /\ UNCHANGED jobVars /\ UNCHANGED stopVars

----------------------------------------------------------------------------
(* stop: the flag under the mutex, then the channel *)

Stop ==
    /\ ~stopped
    /\ stopped' = TRUE
    /\ UNCHANGED <<queue, phase, fails, cool, last, done>>
    /\ UNCHANGED envVars /\ UNCHANGED inVars /\ UNCHANGED jobVars

\* Mutation: the flag alone is set, which the goroutine never looks at.
NothingToClose == FALSE /\ UNCHANGED vars

CloseDone ==
    /\ stopped /\ ~done
    /\ done' = TRUE
    /\ UNCHANGED <<queue, phase, fails, cool, last, stopped>>
    /\ UNCHANGED envVars /\ UNCHANGED inVars /\ UNCHANGED jobVars

----------------------------------------------------------------------------
Init ==
    /\ healthy \in BOOLEAN /\ target \in BOOLEAN
    /\ nextEv = 1 /\ offered = 0 /\ queue = <<>>
    /\ phase = "idle" /\ cur = 0 /\ attempt = 0 /\ budget = 0
    /\ fails = 0 /\ cool = TRUE
    /\ stopped = FALSE /\ done = FALSE /\ last = 0

Deliver ==
    \/ TakeNoTarget \/ TakeBadTarget \/ TakeTooSoon \/ TakePost
    \/ Succeed \/ FailAndRetry \/ FailAndGiveUp \/ BackoffEnds \/ BackoffStopped

Next ==
    \/ HealthChanges \/ TargetChanges \/ Cools
    \/ EnqueueLook \/ EnqueuePut
    \/ Deliver \/ Exit
    \/ Stop \/ CloseDone

Spec == Init /\ [][Next]_vars

\* Time passes, goroutines are scheduled, an HTTP attempt ends within its
\* timeout, and Go's select takes a branch that is ready over and over again.
\* Nothing obliges WhatsApp to send, Odoo to be up, or anyone to stop.
FairSpec ==
    /\ Spec
    /\ WF_vars(Cools)
    /\ WF_vars(EnqueuePut)
    /\ WF_vars(Deliver)
    /\ WF_vars(CloseDone)
    /\ SF_vars(Exit)

----------------------------------------------------------------------------
(* Properties *)

Queued == {queue[i] : i \in DOMAIN queue}

TypeOK ==
    /\ healthy \in BOOLEAN /\ target \in BOOLEAN
    /\ nextEv \in 1 .. MaxEvents /\ offered \in 0 .. MaxEvents
    /\ queue \in Seq(1 .. MaxEvents) /\ Len(queue) <= QueueSize
    /\ phase \in {"idle", "posting", "backoff", "exited"}
    /\ cur \in 0 .. MaxEvents /\ attempt \in 0 .. Attempts /\ budget \in 0 .. Attempts
    /\ fails \in 0 .. BreakerAfter /\ cool \in BOOLEAN
    /\ stopped \in BOOLEAN /\ done \in BOOLEAN
    /\ last \in 0 .. MaxEvents

\* Retries, lost answers and drops may repeat an event or leave one out, but no
\* event is posted to Odoo after a later one: deliver keeps the goroutine on an
\* event until it is settled, so a retry cannot be overtaken.  (What Odoo does
\* with a POST the gateway stopped waiting for may still take its time.)
DeliveredInOrder == [][last' >= last]_last

\* A target that is down costs one attempt per event, never the full backoff:
\* what opened the breaker cannot change under a delivery in progress.
BreakerLimitsAttempts ==
    Degraded /\ phase \in {"posting", "backoff"} => phase = "posting" /\ budget = 1

\* However long Odoo was down and however much was dropped meanwhile, once it
\* stays up the breaker closes for good as long as events keep coming.
ClosesOnceHealthy ==
    <>[](healthy /\ target) /\ []<><<EnqueuePut>>_vars
        => <>[]~Degraded \/ <>stopped

\* Every event that entered the queue is delivered, given up or dropped: none
\* is held for ever, whatever Odoo does.
EveryEventSettles ==
    \A e \in 1 .. MaxEvents - 1 :
        (e \in Queued \/ cur = e) ~> (e \notin Queued /\ cur # e) \/ phase = "exited"

\* A stop reaches the goroutine in whatever it is doing, backlog or not.
StopEndsDelivery == stopped ~> phase = "exited"
=============================================================================
