------------------------- MODULE OutgoingQueueProofs -------------------------
(***************************************************************************)
(* Theorems about OutgoingQueue, for every number of sessions, messages    *)
(* and events, and every pacing, cap and threshold: its types, the failure *)
(* pause, the spacing of recorded sends, the opt-outs a run respects, and  *)
(* the caps.                                                               *)
(***************************************************************************)
EXTENDS OutgoingQueue, FiniteSetTheorems, TLAPS

PCs     == {"idle", "round", "sleep", "turns", "sending"}
Results == {"skip", "bad", "ok", "fail"}

RunType == [pc : PCs, left : 0 .. Budget, timer : 0 .. MaxDelay,
            queue : [Sessions -> SUBSET Msgs], due : SUBSET Sessions, msg : 0 .. MaxMsgs,
            res : Results, barred : SUBSET Msgs]
Last == [age : 0 .. MaxDelay, kept : BOOLEAN]

TypeInv ==
    /\ clock \in 0 .. Day - 1
    /\ row \in [Msgs -> Row]
    /\ ses \in [Sessions -> Ses]
    /\ optout \in SUBSET Msgs
    /\ run \in RunType
    /\ snap = NoSnap \/ snap \in SnapType
    /\ wire \in SUBSET Msgs
    /\ last \in [Sessions -> Last]
    /\ streak \in [Sessions -> Nat]
    /\ events \in 0 .. MaxEvents

\* What holds of a run between two of its steps.
RunInv ==
    /\ Idle => run = NoRun /\ snap = NoSnap
    /\ run.due # {} => run.pc \in {"turns", "sending"}
    /\ run.pc = "sending" => run.msg \in Msgs /\ SessionOf[run.msg] \notin run.due
    /\ \A s \in Sessions : \A m \in run.queue[s] : SessionOf[m] = s
    /\ \A s \in run.due : run.queue[s] # {}

----------------------------------------------------------------------------
(* The constants, the records and the snapshot *)

LEMMA Constants ==
    /\ MaxMsgs \in Nat /\ Day \in Nat /\ Day > 0 /\ Hour \in Nat /\ Budget \in Nat
    /\ MinDelay \in Nat /\ MaxDelay \in Nat /\ MinDelay <= MaxDelay
    /\ CapDays \in Nat /\ PauseAfter \in Nat /\ MaxEvents \in Nat /\ Old \in Nat
    /\ Delays \subseteq 0 .. MaxDelay /\ \A d \in Delays : d \in Nat /\ d >= MinDelay
    /\ SessionOf \in [Msgs -> Sessions] /\ 0 \notin Msgs /\ Msgs \subseteq 0 .. MaxMsgs
  BY QueueAssumption DEF QueueAssumption, Old, Delays, Msgs

LEMMA LessType == \A n \in Nat : Less(n) \in Nat /\ Less(n) <= n /\ (n > 0 => Less(n) = n - 1)
  BY DEF Less

LEMMA LessRange == ASSUME NEW top \in Nat, NEW n \in 0 .. top PROVE Less(n) \in 0 .. top
  BY DEF Less

LEMMA SnapOn == ASSUME snap = NoSnap \/ snap \in SnapType
                PROVE  /\ snap = NoSnap <=> ~snap.on
                       /\ snap.on \in BOOLEAN
                       /\ snap.on => snap \in SnapType
<1>1. NoSnap.on = FALSE
  BY DEF NoSnap
<1>2. ASSUME snap \in SnapType PROVE snap.on = TRUE
  BY <1>2 DEF SnapType
<1> QED BY <1>1, <1>2

\* What a run reads is the snapshot it has, or the rows as they are.
LEMMA ViewType ==
    ASSUME TypeInv
    PROVE  /\ View \in SnapType
           /\ snap.on => View = snap
           /\ ~snap.on => View.row = row /\ View.ses = ses /\ View.optout = optout
<1>1. CASE snap.on
  BY <1>1, SnapOn DEF TypeInv, View
<1>2. CASE ~snap.on
  <2>1. View = [on |-> TRUE, row |-> row, ses |-> ses, optout |-> optout, stale |-> {}, moved |-> {}]
    BY <1>2 DEF View
  <2> QED BY <1>2, <2>1 DEF TypeInv, SnapType
<1> QED BY <1>1, <1>2, SnapOn DEF TypeInv

LEMMA SesFields ==
    ASSUME NEW rec \in Ses
    PROVE  /\ rec.next \in 0 .. MaxDelay /\ rec.fails \in 0 .. PauseAfter
           /\ rec.paused \in BOOLEAN /\ rec.dead \in BOOLEAN /\ rec.started \in BOOLEAN
           /\ rec.days \in 0 .. CapDays
  BY DEF Ses

LEMMA NoRunType == NoRun \in RunType /\ NoSnap.on = FALSE
  BY Constants DEF NoRun, NoSnap, RunType, PCs, Results

LEMMA PopType ==
    ASSUME run \in RunType, NEW m \in Msgs, NEW res \in Results, Pop(m, res)
    PROVE  /\ run' \in RunType
           /\ run'.pc = "sending" /\ run'.msg = m /\ run'.res = res
           /\ run'.due = run.due \ {SessionOf[m]}
           /\ run'.queue = [run.queue EXCEPT ![SessionOf[m]] = @ \ {m}]
           /\ run'.barred = run.barred
  BY Constants DEF Pop, RunType, PCs, Results

LEMMA AfterType ==
    ASSUME run \in RunType
    PROVE  /\ AfterSend \in RunType
           /\ AfterSend.pc = (IF run.due = {} THEN "round" ELSE "turns")
           /\ AfterSend.due = run.due /\ AfterSend.queue = run.queue
           /\ AfterSend.barred = run.barred /\ AfterSend.msg = run.msg
  BY DEF AfterSend, RunType, PCs

\* What a send makes of a session's row.
LEMMA AfterSes ==
    ASSUME NEW rec \in Ses, NEW res
    PROVE  /\ SessionAfter(rec, res) \in Ses
           /\ SessionAfter(rec, res).next = rec.next
           /\ res = "ok" => SessionAfter(rec, res).fails = 0
           /\ res # "ok" => SessionAfter(rec, res).fails >= rec.fails
           /\ res = "fail" /\ rec.fails < PauseAfter => SessionAfter(rec, res).fails = rec.fails + 1
           /\ res # "ok" /\ rec.paused => SessionAfter(rec, res).paused
           /\ (rec.fails >= PauseAfter => rec.paused) /\ PauseAfter # 0
                 => (SessionAfter(rec, res).fails >= PauseAfter => SessionAfter(rec, res).paused)
<1> DEFINE more == IF rec.fails < PauseAfter THEN rec.fails + 1 ELSE rec.fails
           stop == rec.paused \/ (PauseAfter # 0 /\ more >= PauseAfter)
<1>1. more \in 0 .. PauseAfter /\ more >= rec.fails
  BY Constants, SesFields
<1>2. CASE res = "ok"
  <2>1. SessionAfter(rec, res) = [rec EXCEPT !.started = TRUE, !.fails = 0]
    BY <1>2 DEF SessionAfter, NoteSend
  <2>2. 0 \in 0 .. PauseAfter
    BY Constants
  <2>3. SessionAfter(rec, res) \in Ses /\ SessionAfter(rec, res).next = rec.next
        /\ SessionAfter(rec, res).fails = 0 /\ SessionAfter(rec, res).paused = rec.paused
    BY <2>1, <2>2 DEF Ses
  <2> QED BY <1>2, <2>3, SesFields, Constants
<1>3. CASE res = "fail"
  <2>1. SessionAfter(rec, res) = [rec EXCEPT !.fails = more, !.paused = stop]
    BY <1>3 DEF SessionAfter, NoteFailure
  <2>2. stop \in BOOLEAN
    BY SesFields
  <2>3. SessionAfter(rec, res) \in Ses /\ SessionAfter(rec, res).next = rec.next
        /\ SessionAfter(rec, res).fails = more /\ SessionAfter(rec, res).paused = stop
    <3> HIDE DEF more, stop
    <3> QED BY <1>1, <2>1, <2>2 DEF Ses
  <2> QED BY <1>1, <1>3, <2>3, SesFields, Constants
<1>4. CASE res \notin {"ok", "fail"}
  <2>1. SessionAfter(rec, res) = rec
    BY <1>4 DEF SessionAfter
  <2> QED BY <1>4, <2>1, SesFields, Constants
<1> QED BY <1>2, <1>3, <1>4

LEMMA AfterRow ==
    ASSUME NEW rec \in Row, NEW res, NEW by \in {"queue", "hand"}
    PROVE  RowAfter(rec, res, by) \in Row
<1>1. CASE res = "ok"
  BY <1>1, Constants DEF RowAfter, Row
<1>2. CASE res \in {"fail", "bad"}
  BY <1>2 DEF RowAfter, Row
<1>3. CASE res \notin {"ok", "fail", "bad"}
  BY <1>3 DEF RowAfter
<1> QED BY <1>1, <1>2, <1>3

LEMMA AgedRows == ASSUME NEW rows \in [Msgs -> Row] PROVE AgedRow(rows) \in [Msgs -> Row]
<1> SUFFICES ASSUME NEW m \in Msgs
             PROVE  (IF rows[m].age < Old THEN [rows[m] EXCEPT !.age = @ + 1] ELSE rows[m]) \in Row
  BY DEF AgedRow
<1>1. rows[m].age \in 0 .. Old /\ rows[m] \in Row
  BY DEF Row
<1>2. rows[m].age < Old => rows[m].age + 1 \in 0 .. Old
  BY <1>1, Constants
<1> QED BY <1>1, <1>2 DEF Row

LEMMA AgedSes ==
    ASSUME NEW recs \in [Sessions -> Ses]
    PROVE  /\ AgedSession(recs) \in [Sessions -> Ses]
           /\ \A s \in Sessions : /\ AgedSession(recs)[s].next = Less(recs[s].next)
                                  /\ AgedSession(recs)[s].fails = recs[s].fails
                                  /\ AgedSession(recs)[s].paused = recs[s].paused
<1> SUFFICES ASSUME NEW s \in Sessions
             PROVE  /\ AgedSession(recs)[s] \in Ses
                    /\ AgedSession(recs)[s].next = Less(recs[s].next)
                    /\ AgedSession(recs)[s].fails = recs[s].fails
                    /\ AgedSession(recs)[s].paused = recs[s].paused
  BY DEF AgedSession
<1> DEFINE rec  == recs[s]
           wait == Less(rec.next)
           days == IF LocalTime(s) = Day - 1 /\ rec.started /\ rec.days < CapDays
                   THEN rec.days + 1 ELSE rec.days
<1>1. rec \in Ses
  OBVIOUS
<1>2. wait \in 0 .. MaxDelay
  BY <1>1, SesFields, Constants, LessRange
<1>3. days \in 0 .. CapDays
  BY <1>1, SesFields, Constants
<1>4. AgedSession(recs)[s] = [rec EXCEPT !.next = wait, !.days = days]
  BY DEF AgedSession
<1> HIDE DEF rec, wait, days
<1>5. /\ AgedSession(recs)[s] \in Ses /\ AgedSession(recs)[s].next = wait
      /\ AgedSession(recs)[s].fails = rec.fails /\ AgedSession(recs)[s].paused = rec.paused
  BY <1>1, <1>2, <1>3, <1>4 DEF Ses
<1> QED BY <1>5 DEF rec, wait

LEMMA ClockType == ASSUME clock \in 0 .. Day - 1 PROVE (clock + 1) % Day \in 0 .. Day - 1
  BY Constants

----------------------------------------------------------------------------
(* Types *)

LEMMA TypeInit == Init => TypeInv
<1> SUFFICES ASSUME Init PROVE TypeInv
  OBVIOUS
<1>1. row \in [Msgs -> Row]
  BY Constants DEF Init, Row
<1>2. ses \in [Sessions -> Ses]
  BY Constants DEF Init, Ses
<1>3. last \in [Sessions -> Last]
  BY Constants DEF Init, Last
<1>4. clock \in 0 .. Day - 1 /\ events \in 0 .. MaxEvents
  BY Constants DEF Init
<1>5. streak \in [Sessions -> Nat] /\ optout \in SUBSET Msgs /\ wire \in SUBSET Msgs
  BY DEF Init
<1>6. run \in RunType /\ snap = NoSnap
  BY NoRunType DEF Init
<1> QED BY <1>1, <1>2, <1>3, <1>4, <1>5, <1>6 DEF TypeInv

LEMMA ClosedView == ASSUME TypeInv, NEW s \in Takers(View)
                    PROVE  s \in Sessions /\ View.ses[s] \in Ses
  BY ViewType DEF Takers, SnapType

LEMMA StreakType == ASSUME NEW f \in [Sessions -> Nat], NEW s
                    PROVE  [f EXCEPT ![s] = @ + 1] \in [Sessions -> Nat]
<1>1. CASE s \in Sessions
  <2>1. f[s] + 1 \in Nat
    BY <1>1
  <2> QED BY <2>1
<1>2. CASE s \notin Sessions
  BY <1>2
<1> QED BY <1>1, <1>2

LEMMA CronType ==
    ASSUME TypeInv, Cron
    PROVE  TypeInv'
<1> USE ViewType
<1>1. CASE StartRun
  <2> DEFINE first == [s \in Sessions |-> {m \in Oldest({n \in Msgs : View.row[n].state = "outgoing"}, Limit) : SessionOf[m] = s}]
  <2>1. run' = [NoRun EXCEPT !.pc = "round", !.left = Budget, !.barred = optout, !.queue = first]
    BY <1>1 DEF StartRun
  <2>2. first \in [Sessions -> SUBSET Msgs] /\ optout \in SUBSET Msgs
    BY DEF TypeInv, Oldest
  <2>3. run' \in RunType
    <3> HIDE DEF first
    <3>1. Budget \in 0 .. Budget
      BY Constants
    <3>2. NoRun \in RunType
      BY NoRunType
    <3> QED BY <2>1, <2>2, <3>1, <3>2 DEF RunType, PCs
  <2> QED BY <1>1, <2>3 DEF StartRun, TypeInv
<1>2. CASE EndRun
  BY <1>2, NoRunType DEF EndRun, TypeInv
<1>3. CASE Sleep
  <2>1. PICK s \in Takers(View) :
           run' = [run EXCEPT !.pc = "sleep", !.timer = View.ses[s].next, !.queue = Keep(Takers(View))]
    BY <1>3 DEF Sleep
  <2>2. View.ses[s].next \in 0 .. MaxDelay
    BY ClosedView, SesFields
  <2>3. Keep(Takers(View)) \in [Sessions -> SUBSET Msgs]
    BY DEF Keep, TypeInv, RunType
  <2>4. run' \in RunType
    BY <2>1, <2>2, <2>3 DEF RunType, PCs, TypeInv
  <2> QED BY <1>3, <2>4 DEF Sleep, TypeInv
<1>4. CASE Wake
  <2>1. run' \in RunType
    BY <1>4 DEF Wake, RunType, PCs, TypeInv
  <2> QED BY <1>4, <2>1 DEF Wake, TypeInv
<1>5. CASE TakeTurns
  <2>1. Keep(Takers(View)) \in [Sessions -> SUBSET Msgs] /\ Due(View) \in SUBSET Sessions
    BY DEF Keep, TypeInv, RunType, Due, Takers
  <2>2. run' \in RunType
    BY <1>5, <2>1 DEF TakeTurns, RunType, PCs, TypeInv
  <2> QED BY <1>5, <2>2 DEF TakeTurns, TypeInv
<1>6. CASE Record
  <2> DEFINE s == SessionOf[run.msg]
  <2>1. PICK delay \in Delays :
           ses' = [ses EXCEPT ![s] = ScheduleNextSend(SessionAfter(@, run.res), delay)]
    BY <1>6 DEF Record
  <2>2. ses' \in [Sessions -> Ses]
    <3>1. CASE s \in Sessions
      <4>1. SessionAfter(ses[s], run.res) \in Ses
        BY <3>1, AfterSes DEF TypeInv
      <4>2. ScheduleNextSend(SessionAfter(ses[s], run.res), delay) \in Ses
        BY <4>1, Constants DEF ScheduleNextSend, Ses
      <4> QED BY <2>1, <3>1, <4>2 DEF TypeInv
    <3>2. CASE s \notin Sessions
      BY <2>1, <3>2 DEF TypeInv
    <3> QED BY <3>1, <3>2
  <2>3. row' \in [Msgs -> Row]
    BY <1>6, AfterRow DEF Record, TypeInv
  <2>4. last' \in [Sessions -> Last]
    BY <1>6 DEF Record, TypeInv, Last
  <2>5. streak' \in [Sessions -> Nat]
    <3>1. streak' = Streak(s, run.res)
      BY <1>6 DEF Record
    <3>2. [streak EXCEPT ![s] = 0] \in [Sessions -> Nat]
      BY DEF TypeInv
    <3>3. [streak EXCEPT ![s] = @ + 1] \in [Sessions -> Nat]
      BY StreakType DEF TypeInv
    <3> HIDE DEF s
    <3> QED BY <3>1, <3>2, <3>3 DEF Streak, TypeInv
  <2> QED BY <1>6, <2>2, <2>3, <2>4, <2>5, AfterType, NoRunType DEF Record, TypeInv
<1>7. CASE Conflict
  BY <1>7, AfterType DEF Conflict, TypeInv
<1>8. ASSUME NEW m \in Msgs, SendNothing(m)
      PROVE  TypeInv'
  <2>1. run' \in RunType
    BY <1>8, PopType DEF SendNothing, TypeInv, Results
  <2> QED BY <1>8, <2>1 DEF SendNothing, TypeInv
<1>9. ASSUME NEW m \in Msgs, NEW reached \in BOOLEAN, NEW res \in {"ok", "fail"}, Post(m, reached, res)
      PROVE  TypeInv'
  <2>1. run' \in RunType
    BY <1>9, PopType DEF Post, TypeInv, Results
  <2>2. last' \in [Sessions -> Last]
    BY <1>9, Constants DEF Post, TypeInv, Last
  <2>3. wire' \in SUBSET Msgs
    BY <1>9 DEF Post, TypeInv
  <2> QED BY <1>9, <2>1, <2>2, <2>3 DEF Post, TypeInv
<1> QED BY <1>1, <1>2, <1>3, <1>4, <1>5, <1>6, <1>7, <1>8, <1>9 DEF Cron, Send

LEMMA Marked ==
    ASSUME snap = NoSnap \/ snap \in SnapType, NEW S \in SUBSET Sessions, NEW M \in SUBSET Msgs
    PROVE  /\ snap.on => [snap EXCEPT !.stale = @ \union S] \in SnapType
           /\ snap.on => [snap EXCEPT !.moved = @ \union M, !.stale = @ \union S] \in SnapType
           /\ snap.on => [snap EXCEPT !.moved = @ \union M, !.stale = @] \in SnapType
  BY SnapOn DEF SnapType

LEMMA OthersType ==
    ASSUME TypeInv, Others
    PROVE  TypeInv'
<1>1. events' \in 0 .. MaxEvents
  BY Constants DEF Others, TypeInv
<1>2. ASSUME NEW m \in Msgs, OptOut(m)
      PROVE  TypeInv'
  BY <1>1, <1>2 DEF OptOut, TypeInv
<1>3. ASSUME NEW m \in Msgs, NEW reached \in BOOLEAN, NEW res \in {"ok", "fail"},
             HandSend(m, reached, res)
      PROVE  TypeInv'
  <2> DEFINE s == SessionOf[m]
  <2>1. s \in Sessions
    BY Constants
  <2>2. ses' \in [Sessions -> Ses]
    BY <1>3, <2>1, AfterSes DEF HandSend, TypeInv
  <2>3. row' \in [Msgs -> Row]
    BY <1>3, AfterRow DEF HandSend, TypeInv
  <2>4. wire' \in SUBSET Msgs /\ streak' \in [Sessions -> Nat]
    BY <1>3 DEF HandSend, TypeInv
  <2>5. snap' = NoSnap \/ snap' \in SnapType
    <3>1. CASE ~snap.on
      BY <1>3, <3>1, SnapOn DEF HandSend, TypeInv
    <3>2. CASE snap.on
      <4>1. \/ snap' = [snap EXCEPT !.moved = @ \union {m}, !.stale = @ \union {s}]
            \/ snap' = [snap EXCEPT !.moved = @ \union {m}, !.stale = @]
        BY <1>3, <3>2 DEF HandSend
      <4>2. {s} \in SUBSET Sessions /\ {m} \in SUBSET Msgs /\ (snap = NoSnap \/ snap \in SnapType)
        BY <2>1 DEF TypeInv
      <4>3. /\ [snap EXCEPT !.moved = @ \union {m}, !.stale = @ \union {s}] \in SnapType
            /\ [snap EXCEPT !.moved = @ \union {m}, !.stale = @] \in SnapType
        BY <3>2, <4>2, Marked
      <4> QED BY <4>1, <4>3
    <3> QED BY <3>1, <3>2
  <2> QED BY <1>1, <1>3, <2>2, <2>3, <2>4, <2>5 DEF HandSend, TypeInv
<1>4. ASSUME NEW s \in Sessions, NEW dead \in BOOLEAN, Status(s, dead)
      PROVE  TypeInv'
  <2>1. ses' \in [Sessions -> Ses]
    BY <1>4 DEF Status, TypeInv, Ses
  <2>2. snap' = NoSnap \/ snap' \in SnapType
    BY <1>4, Marked, SnapOn DEF Status, MarkStale, TypeInv
  <2> QED BY <1>1, <1>4, <2>1, <2>2 DEF Status, TypeInv
<1>5. ASSUME NEW s \in Sessions, ResumeQueue(s)
      PROVE  TypeInv'
  <2>0. [ses[s] EXCEPT !.paused = FALSE, !.fails = 0] \in Ses
    <3>1. ses[s] \in Ses /\ 0 \in 0 .. PauseAfter
      BY Constants DEF TypeInv
    <3> QED BY <3>1 DEF Ses
  <2>1. ses' \in [Sessions -> Ses]
    <3>1. ses' = [ses EXCEPT ![s] = [ses[s] EXCEPT !.paused = FALSE, !.fails = 0]]
      BY <1>5 DEF ResumeQueue, TypeInv, Ses
    <3> QED BY <2>0, <3>1 DEF TypeInv
  <2>2. snap' = NoSnap \/ snap' \in SnapType
    BY <1>5, Marked, SnapOn DEF ResumeQueue, MarkStale, TypeInv
  <2>3. streak' \in [Sessions -> Nat]
    BY <1>5 DEF ResumeQueue, TypeInv
  <2> QED BY <1>1, <1>5, <2>1, <2>2, <2>3 DEF ResumeQueue, TypeInv
<1>6. CASE Kill
  BY <1>1, <1>6, NoRunType DEF Kill, TypeInv
<1> QED BY <1>2, <1>3, <1>4, <1>5, <1>6 DEF Others

LEMMA TickType ==
    ASSUME TypeInv, Tick
    PROVE  TypeInv'
<1>1. clock' \in 0 .. Day - 1
  BY ClockType DEF Tick, TypeInv
<1>2. row' \in [Msgs -> Row] /\ ses' \in [Sessions -> Ses]
  BY AgedRows, AgedSes DEF Tick, TypeInv
<1>3. snap' = NoSnap \/ snap' \in SnapType
  <2>1. CASE ~snap.on
    BY <2>1, SnapOn DEF Tick, TypeInv
  <2>2. CASE snap.on
    <3>1. snap \in SnapType
      BY <2>2, SnapOn DEF TypeInv
    <3>2. snap' = [snap EXCEPT !.row = AgedRow(snap.row), !.ses = AgedSession(snap.ses)]
      BY <2>2 DEF Tick
    <3>3. AgedRow(snap.row) \in [Msgs -> Row] /\ AgedSession(snap.ses) \in [Sessions -> Ses]
      BY <3>1, AgedRows, AgedSes DEF SnapType
    <3> QED BY <3>1, <3>2, <3>3 DEF SnapType
  <2> QED BY <2>1, <2>2
<1>4. run' \in RunType
  <2>1. run.left \in 0 .. Budget /\ run.timer \in 0 .. MaxDelay
    BY DEF TypeInv, RunType
  <2>2. Less(run.left) \in 0 .. Budget /\ Less(run.timer) \in 0 .. MaxDelay
    BY <2>1, Constants, LessRange
  <2>3. run' = [run EXCEPT !.left = Less(run.left), !.timer = Less(run.timer)]
    BY DEF Tick
  <2> QED BY <2>2, <2>3 DEF TypeInv, RunType
<1>5. last' \in [Sessions -> Last]
  <2> SUFFICES ASSUME NEW s \in Sessions
               PROVE  (IF last[s].age < MaxDelay THEN [last[s] EXCEPT !.age = @ + 1] ELSE last[s]) \in Last
    BY DEF Tick
  <2>1. last[s] \in Last /\ last[s].age \in 0 .. MaxDelay
    BY DEF TypeInv, Last
  <2>2. last[s].age < MaxDelay => last[s].age + 1 \in 0 .. MaxDelay
    BY <2>1, Constants
  <2> QED BY <2>1, <2>2 DEF Last
<1> QED BY <1>1, <1>2, <1>3, <1>4, <1>5 DEF Tick, TypeInv

LEMMA TypeStep ==
    ASSUME TypeInv, [Next]_vars
    PROVE  TypeInv'
<1>1. CASE UNCHANGED vars
  BY <1>1 DEF vars, TypeInv
<1> QED BY <1>1, CronType, OthersType, TickType DEF Next

----------------------------------------------------------------------------
(* A run between its steps *)

\* What happens beside a run ends it or leaves it and what it has read alone.
LEMMA OthersLeave ==
    ASSUME TypeInv, Others
    PROVE  /\ last' = last /\ optout \subseteq optout'
           /\ \/ run' = NoRun /\ snap' = NoSnap
              \/ /\ run' = run
                 /\ snap = NoSnap => snap' = NoSnap
                 /\ snap'.on => snap.on /\ snap'.ses = snap.ses /\ snap'.optout = snap.optout
<1> DEFINE Goal == /\ last' = last /\ optout \subseteq optout'
                   /\ \/ run' = NoRun /\ snap' = NoSnap
                      \/ /\ run' = run
                         /\ snap = NoSnap => snap' = NoSnap
                         /\ snap'.on => /\ snap.on /\ snap'.ses = snap.ses
                                        /\ snap'.optout = snap.optout
<1>0. snap = NoSnap <=> ~snap.on
  BY SnapOn DEF TypeInv
<1>1. ASSUME NEW M, NEW S,
             \/ snap' = [snap EXCEPT !.moved = M, !.stale = S]
             \/ snap' = [snap EXCEPT !.stale = S]
      PROVE  snap.on => snap'.ses = snap.ses /\ snap'.optout = snap.optout
  <2>1. snap.on => snap \in SnapType
    BY SnapOn DEF TypeInv
  <2> QED BY <1>1, <2>1 DEF SnapType
<1>2. ASSUME NEW m \in Msgs, OptOut(m) PROVE Goal
  <2>1. run' = run /\ snap' = snap /\ last' = last /\ optout \subseteq optout'
    BY <1>2 DEF OptOut
  <2> QED BY <2>1
<1>3. ASSUME NEW m \in Msgs, NEW reached \in BOOLEAN, NEW res \in {"ok", "fail"},
             HandSend(m, reached, res)
      PROVE  Goal
  <2>1. run' = run /\ last' = last /\ optout' = optout
    BY <1>3 DEF HandSend
  <2>2. CASE ~snap.on
    BY <1>0, <1>3, <2>1, <2>2 DEF HandSend
  <2>3. CASE snap.on
    <3>1. \/ snap' = [snap EXCEPT !.moved = @ \union {m}, !.stale = @ \union {SessionOf[m]}]
          \/ snap' = [snap EXCEPT !.moved = @ \union {m}, !.stale = @]
      BY <1>3, <2>3 DEF HandSend
    <3>2. snap'.ses = snap.ses /\ snap'.optout = snap.optout
      BY <1>1, <2>3, <3>1
    <3> QED BY <1>0, <2>1, <2>3, <3>2
  <2> QED BY <2>2, <2>3
<1>4. ASSUME NEW s \in Sessions, snap' = MarkStale(s), run' = run, last' = last, optout' = optout
      PROVE  Goal
  <2>1. CASE ~snap.on
    BY <1>0, <1>4, <2>1 DEF MarkStale
  <2>2. CASE snap.on
    <3>1. snap' = [snap EXCEPT !.stale = @ \union {s}]
      BY <1>4, <2>2 DEF MarkStale
    <3>2. snap'.ses = snap.ses /\ snap'.optout = snap.optout
      BY <1>1, <2>2, <3>1
    <3> QED BY <1>0, <1>4, <2>2, <3>2
  <2> QED BY <2>1, <2>2
<1>5. ASSUME NEW s \in Sessions, NEW dead \in BOOLEAN, Status(s, dead) PROVE Goal
  BY <1>4, <1>5 DEF Status
<1>6. ASSUME NEW s \in Sessions, ResumeQueue(s) PROVE Goal
  BY <1>4, <1>6 DEF ResumeQueue
<1>7. CASE Kill
  BY <1>7 DEF Kill
<1> QED BY <1>2, <1>3, <1>5, <1>6, <1>7 DEF Others

\* Time changes no more of a run than what it has left and its timer.
LEMMA TickLeaves ==
    ASSUME TypeInv, Tick
    PROVE  /\ run'.pc = run.pc /\ run'.due = run.due /\ run'.msg = run.msg
           /\ run'.queue = run.queue /\ run'.barred = run.barred
           /\ run = NoRun => run' = NoRun
           /\ snap = NoSnap => snap' = NoSnap
           /\ snap'.on => /\ snap.on /\ snap'.ses = AgedSession(snap.ses)
                          /\ snap'.optout = snap.optout
<1>1. run' = [run EXCEPT !.left = Less(run.left), !.timer = Less(run.timer)]
  BY DEF Tick
<1>2. /\ run'.pc = run.pc /\ run'.due = run.due /\ run'.msg = run.msg
      /\ run'.queue = run.queue /\ run'.barred = run.barred
  BY <1>1 DEF TypeInv, RunType
<1>3. run = NoRun => run' = NoRun
  <2>1. ASSUME run = NoRun PROVE run' = NoRun
    <3>1. Less(run.left) = 0 /\ Less(run.timer) = 0
      BY <2>1 DEF NoRun, Less
    <3>2. run' = [NoRun EXCEPT !.left = 0, !.timer = 0]
      BY <1>1, <2>1, <3>1
    <3> QED BY <3>2 DEF NoRun
  <2> QED BY <2>1
<1>4. snap = NoSnap <=> ~snap.on
  BY SnapOn DEF TypeInv
<1>5. CASE snap.on
  <2>1. snap \in SnapType
    BY <1>5, SnapOn DEF TypeInv
  <2>2. snap' = [snap EXCEPT !.row = AgedRow(snap.row), !.ses = AgedSession(snap.ses)]
    BY <1>5 DEF Tick
  <2>3. snap'.ses = AgedSession(snap.ses) /\ snap'.optout = snap.optout
    BY <2>1, <2>2 DEF SnapType
  <2> QED BY <1>2, <1>3, <1>4, <1>5, <2>3
<1>6. CASE ~snap.on
  <2>1. snap' = snap
    BY <1>6 DEF Tick
  <2> QED BY <1>2, <1>3, <1>4, <1>6, <2>1
<1> QED BY <1>5, <1>6

\* The sessions whose turn it is are those whose window has opened.
LEMMA TakerTurns ==
    ASSUME TypeInv, RunInv, TakeTurns
    PROVE  /\ run'.pc = "turns" /\ run'.due = Due(View) /\ run'.barred = run.barred
           /\ run'.queue = Keep(Takers(View)) /\ snap' = View
           /\ Due(View) \subseteq Sessions
           /\ \A s \in Due(View) : View.ses[s].next = 0 /\ ~View.ses[s].paused /\ run.queue[s] # {}
<1>1. /\ run'.pc = "turns" /\ run'.due = Due(View) /\ run'.barred = run.barred
      /\ run'.queue = Keep(Takers(View)) /\ snap' = View
  BY DEF TakeTurns, TypeInv, RunType
<1> QED BY <1>1 DEF Due, Takers, Closed

LEMMA RunStep ==
    ASSUME TypeInv, RunInv, [Next]_vars
    PROVE  RunInv'
<1>1. CASE StartRun
  <2> DEFINE first == [s \in Sessions |-> {m \in Oldest({n \in Msgs : View.row[n].state = "outgoing"}, Limit) : SessionOf[m] = s}]
  <2>1. run' = [NoRun EXCEPT !.pc = "round", !.left = Budget, !.barred = optout, !.queue = first]
    BY <1>1 DEF StartRun
  <2>2. run'.pc = "round" /\ run'.due = {} /\ run'.queue = first
    <3> HIDE DEF first
    <3> QED BY <2>1 DEF NoRun
  <2> QED BY <2>2 DEF RunInv, Idle
<1>2. CASE EndRun \/ Kill
  BY <1>2 DEF EndRun, Kill, RunInv, Idle, NoRun
<1>3. CASE Sleep
  <2>1. run'.pc = "sleep" /\ run'.due = run.due /\ run'.queue = Keep(Takers(View)) /\ run.pc = "round"
    BY <1>3 DEF Sleep, TypeInv, RunType
  <2> QED BY <2>1 DEF RunInv, Idle, Keep
<1>4. CASE Wake
  <2>1. run'.pc = "round" /\ run'.due = run.due /\ run'.queue = run.queue /\ run.pc = "sleep"
    BY <1>4 DEF Wake, TypeInv, RunType
  <2> QED BY <2>1 DEF RunInv, Idle
<1>5. CASE TakeTurns
  <2>1. \A s \in run'.due : s \in Takers(View)
    BY <1>5, TakerTurns DEF Due
  <2>2. \A s \in Sessions : \A m \in run'.queue[s] : SessionOf[m] = s
    BY <1>5, TakerTurns DEF RunInv, Keep
  <2>3. \A s \in run'.due : run'.queue[s] # {}
    BY <1>5, <2>1, TakerTurns DEF Keep
  <2> QED BY <1>5, <2>2, <2>3, TakerTurns DEF RunInv, Idle
<1>6. CASE Record \/ Conflict
  <2>1. run' = AfterSend
    BY <1>6 DEF Record, Conflict
  <2>2. /\ run'.pc = (IF run.due = {} THEN "round" ELSE "turns")
        /\ run'.due = run.due /\ run'.queue = run.queue
    BY <2>1, AfterType DEF TypeInv
  <2> QED BY <2>2 DEF RunInv, Idle
<1>7. ASSUME NEW m \in Msgs, NEW res \in Results, Turn(m), Pop(m, res)
      PROVE  RunInv'
  <2> DEFINE s == SessionOf[m]
  <2>1. /\ run'.pc = "sending" /\ run'.msg = m /\ run'.due = run.due \ {s}
        /\ run'.queue = [run.queue EXCEPT ![s] = @ \ {m}]
    BY <1>7, PopType DEF TypeInv
  <2>2. s \in Sessions /\ run.queue \in [Sessions -> SUBSET Msgs] /\ run.due \subseteq Sessions
    BY Constants DEF TypeInv, RunType
  <2>3. \A t \in Sessions : /\ run'.queue[t] \subseteq run.queue[t]
                            /\ t # s => run'.queue[t] = run.queue[t]
    BY <2>1, <2>2
  <2>4. \A t \in Sessions : \A n \in run'.queue[t] : SessionOf[n] = t
    BY <2>3 DEF RunInv
  <2>5. \A t \in run'.due : run'.queue[t] # {}
    BY <2>1, <2>2, <2>3 DEF RunInv
  <2> QED BY <2>1, <2>4, <2>5 DEF RunInv, Idle
<1>8. ASSUME NEW m \in Msgs, Send(m)
      PROVE  RunInv'
  BY <1>7, <1>8 DEF Send, SendNothing, Post, Results
<1>9. CASE Others
  <2>1. CASE run' = NoRun /\ snap' = NoSnap
    BY <2>1 DEF RunInv, Idle, NoRun
  <2>2. CASE run' = run /\ (snap = NoSnap => snap' = NoSnap)
    BY <2>2 DEF RunInv, Idle
  <2> QED BY <1>9, <2>1, <2>2, OthersLeave
<1>10. CASE Tick
  BY <1>10, TickLeaves DEF RunInv, Idle
<1>11. CASE UNCHANGED vars
  BY <1>11 DEF vars, RunInv, Idle
<1> QED BY <1>1, <1>2, <1>3, <1>4, <1>5, <1>6, <1>8, <1>9, <1>10, <1>11 DEF Next, Cron

LEMMA RunInit == Init => RunInv
  BY DEF Init, RunInv, Idle, NoRun

LEMMA Invariant == Spec => [](TypeInv /\ RunInv)
<1>1. Init => TypeInv /\ RunInv
  BY TypeInit, RunInit
<1>2. (TypeInv /\ RunInv) /\ [Next]_vars => (TypeInv /\ RunInv)'
  BY TypeStep, RunStep
<1> QED BY <1>1, <1>2, PTL DEF Spec

\* Every variable of the queue holds what it should, for any number of sessions,
\* messages and events; the rows a run works on are rows of the database, a
\* session that has its turn has a message, and a run that ends holds nothing.
THEOREM TypeCorrect == Spec => []TypeOK
<1>1. TypeInv /\ RunInv => TypeOK
  <2> SUFFICES ASSUME TypeInv, RunInv PROVE TypeOK
    OBVIOUS
  <2>1. /\ run.pc \in {"idle", "round", "sleep", "turns", "sending"}
        /\ run.left \in 0 .. Budget /\ run.timer \in 0 .. MaxDelay
        /\ run.res \in {"skip", "bad", "ok", "fail"}
        /\ run.due \in SUBSET Sessions /\ run.msg \in 0 .. MaxMsgs
        /\ run.barred \in SUBSET Msgs /\ run.queue \in [Sessions -> SUBSET Msgs]
    BY DEF TypeInv, RunType, PCs, Results
  <2>2. \A s \in Sessions : \A m \in run.queue[s] : m \in Msgs /\ SessionOf[m] = s
    BY <2>1 DEF RunInv
  <2> QED BY <2>1, <2>2 DEF TypeInv, RunInv, TypeOK, Last
<1> QED BY <1>1, Invariant, PTL

\* Only a POST of the cron brings a message of the queue to WhatsApp, on its turn
\* and when the run sees no opt-out.
LEMMA Reaching ==
    ASSUME [Next]_vars, NEW m \in Msgs, QueueReaches(m)
    PROVE  Turn(m) /\ m \notin View.optout
<1>1. wire' # wire /\ run' # run
  BY DEF QueueReaches
<1>2. PICK n \in Msgs, reached \in BOOLEAN, res \in {"ok", "fail"} : Post(n, reached, res)
  BY <1>1 DEF Next, vars, Cron, StartRun, EndRun, Sleep, Wake, TakeTurns, Record, Conflict, Send,
              SendNothing, Others, OptOut, HandSend, Status, ResumeQueue, Kill, Tick
<1>3. m = n
  BY <1>2 DEF Post, QueueReaches
<1> QED BY <1>2, <1>3 DEF Post, OptedOut

----------------------------------------------------------------------------
(* The opt-outs a run respects *)

\* The run, and the snapshot it works on, know every opt-out that was committed
\* when it began.
BarredInv ==
    /\ run.barred \subseteq optout
    /\ snap.on => run.barred \subseteq snap.optout

LEMMA BarredView == ASSUME TypeInv, BarredInv PROVE run.barred \subseteq View.optout
  BY ViewType DEF BarredInv

LEMMA BarredStep ==
    ASSUME TypeInv, RunInv, BarredInv, [Next]_vars
    PROVE  BarredInv'
<1>0. NoSnap.on = FALSE /\ NoRun.barred = {}
  BY DEF NoSnap, NoRun
<1>1. CASE StartRun
  <2>1. run'.barred = optout
    BY <1>1 DEF StartRun, NoRun
  <2>2. snap = NoSnap
    BY <1>1 DEF StartRun, RunInv
  <2>3. View.optout = optout
    BY <1>0, <2>2, ViewType
  <2> QED BY <1>1, <2>1, <2>3 DEF StartRun, BarredInv
<1>2. ASSUME run'.barred = run.barred, optout' = optout,
             snap' = View \/ snap' = snap \/ snap' = NoSnap
      PROVE  BarredInv'
  BY <1>0, <1>2, BarredView DEF BarredInv
<1>3. CASE EndRun
  BY <1>0, <1>3 DEF EndRun, BarredInv
<1>4. CASE Sleep \/ Wake \/ TakeTurns
  <2>1. run'.barred = run.barred
    BY <1>4 DEF Sleep, Wake, TakeTurns, TypeInv, RunType
  <2> QED BY <1>2, <1>4, <2>1 DEF Sleep, Wake, TakeTurns
<1>5. CASE Record \/ Conflict
  <2>1. run'.barred = run.barred
    BY <1>5, AfterType DEF Record, Conflict, TypeInv
  <2> QED BY <1>2, <1>5, <2>1 DEF Record, Conflict
<1>6. ASSUME NEW m \in Msgs, Send(m)
      PROVE  BarredInv'
  <2>1. run'.barred = run.barred
    BY <1>6, PopType DEF Send, SendNothing, Post, TypeInv, Results
  <2> QED BY <1>2, <1>6, <2>1 DEF Send, SendNothing, Post
<1>7. CASE Others
  BY <1>0, <1>7, OthersLeave DEF BarredInv
<1>8. CASE Tick
  BY <1>8, TickLeaves DEF Tick, BarredInv
<1>9. CASE UNCHANGED vars
  BY <1>9 DEF vars, BarredInv
<1> QED BY <1>1, <1>3, <1>4, <1>5, <1>6, <1>7, <1>8, <1>9 DEF Next, Cron

\* A contact whose opt-out was committed before a run began is sent nothing by
\* that run, however long it sleeps and whatever snapshot it sends from
\* (cron_process_outgoing, _optout_block_reason).
THEOREM OptOutsRespected == Spec => OptOutBeforeRun
<1>1. Init => BarredInv
  BY DEF Init, BarredInv, NoRun, NoSnap
<1>2. TypeInv /\ RunInv /\ BarredInv /\ [Next]_vars => BarredInv'
  BY BarredStep
<1>3. TypeInv /\ BarredInv /\ [Next]_vars
         => [\A m \in Msgs : QueueReaches(m) => m \notin run.barred]_vars
  BY Reaching, BarredView
<1> QED BY <1>1, <1>2, <1>3, Invariant, PTL DEF Spec, OptOutBeforeRun

----------------------------------------------------------------------------
(* The spacing of recorded sends *)

\* A kept send's age and what is left of its window make up the shortest delay;
\* the snapshot has the same windows; a turn is held only after its window.
PaceInv ==
    /\ \A s \in Sessions : last[s].kept => last[s].age + ses[s].next >= MinDelay
    /\ snap.on => \A s \in Sessions : snap.ses[s].next = ses[s].next
    /\ \A s \in run.due : ses[s].next = 0

LEMMA PaceView ==
    ASSUME TypeInv, PaceInv
    PROVE  \A s \in Sessions : View.ses[s].next = ses[s].next
  BY ViewType DEF PaceInv

\* Nobody beside the run writes a session's window.
LEMMA OthersPace ==
    ASSUME TypeInv, Others
    PROVE  \A s \in Sessions : ses'[s].next = ses[s].next
<1> DEFINE Goal == \A s \in Sessions : ses'[s].next = ses[s].next
<1>1. ASSUME NEW m \in Msgs, NEW reached \in BOOLEAN, NEW res \in {"ok", "fail"},
             HandSend(m, reached, res)
      PROVE  Goal
  <2>1. ses' = [ses EXCEPT ![SessionOf[m]] = SessionAfter(ses[SessionOf[m]], res)]
    BY <1>1 DEF HandSend
  <2>2. SessionAfter(ses[SessionOf[m]], res).next = ses[SessionOf[m]].next
    BY Constants, AfterSes DEF TypeInv
  <2> QED BY <2>1, <2>2 DEF TypeInv
<1>2. ASSUME NEW t \in Sessions, NEW dead \in BOOLEAN, Status(t, dead) PROVE Goal
  BY <1>2 DEF Status, TypeInv, Ses
<1>3. ASSUME NEW t \in Sessions, ResumeQueue(t) PROVE Goal
  <2>1. ses' = [ses EXCEPT ![t] = [ses[t] EXCEPT !.paused = FALSE, !.fails = 0]]
    BY <1>3 DEF ResumeQueue, TypeInv, Ses
  <2>2. [ses[t] EXCEPT !.paused = FALSE, !.fails = 0].next = ses[t].next
    BY DEF TypeInv, Ses
  <2> QED BY <2>1, <2>2 DEF TypeInv
<1>4. ASSUME NEW m \in Msgs, OptOut(m) PROVE Goal
  BY <1>4 DEF OptOut
<1>5. CASE Kill
  BY <1>5 DEF Kill
<1> QED BY <1>1, <1>2, <1>3, <1>4, <1>5 DEF Others

\* A recorded send closes the window for at least the shortest delay.
LEMMA RecordPace ==
    ASSUME TypeInv, RunInv, Record
    PROVE  LET s == SessionOf[run.msg] IN
           /\ s \in Sessions
           /\ ses'[s].next >= MinDelay /\ ses'[s].next \in Nat /\ last'[s].age = last[s].age
           /\ \A t \in Sessions \ {s} : ses'[t] = ses[t] /\ last'[t] = last[t]
<1> DEFINE s == SessionOf[run.msg]
<1>1. s \in Sessions
  BY Constants DEF Record, RunInv
<1>2. PICK delay \in Delays :
         ses' = [ses EXCEPT ![s] = ScheduleNextSend(SessionAfter(ses[s], run.res), delay)]
  BY DEF Record
<1>3. SessionAfter(ses[s], run.res) \in Ses
  BY <1>1, AfterSes DEF TypeInv
<1>4. ScheduleNextSend(SessionAfter(ses[s], run.res), delay).next = delay
  BY <1>3 DEF ScheduleNextSend, Ses
<1>5. ses'[s].next = delay /\ \A t \in Sessions \ {s} : ses'[t] = ses[t]
  BY <1>1, <1>2, <1>4 DEF TypeInv
<1>6. last' = [last EXCEPT ![s].kept = TRUE]
  BY DEF Record
<1>7. last'[s].age = last[s].age /\ \A t \in Sessions \ {s} : last'[t] = last[t]
  BY <1>1, <1>6 DEF TypeInv, Last
<1> QED BY <1>1, <1>5, <1>7, Constants

LEMMA TickPace ==
    ASSUME TypeInv, PaceInv, Tick
    PROVE  PaceInv'
<1>1. \A s \in Sessions : ses'[s].next = Less(ses[s].next)
  BY AgedSes DEF Tick, TypeInv
<1>2. ASSUME NEW s \in Sessions, last'[s].kept
      PROVE  last'[s].age + ses'[s].next >= MinDelay
  <2>1. last[s].age \in 0 .. MaxDelay /\ ses[s].next \in 0 .. MaxDelay /\ last[s] \in Last
    BY SesFields DEF TypeInv, Last
  <2>2. last'[s] = IF last[s].age < MaxDelay THEN [last[s] EXCEPT !.age = @ + 1] ELSE last[s]
    BY DEF Tick
  <2>3. last[s].kept /\ last'[s].age = (IF last[s].age < MaxDelay THEN last[s].age + 1 ELSE last[s].age)
    BY <1>2, <2>1, <2>2 DEF Last
  <2>4. last[s].age + ses[s].next >= MinDelay
    BY <2>3 DEF PaceInv
  <2> QED BY <1>1, <2>1, <2>3, <2>4, Constants DEF Less
<1>3. ASSUME snap'.on, NEW s \in Sessions
      PROVE  snap'.ses[s].next = ses'[s].next
  <2>1. snap.on /\ snap'.ses = AgedSession(snap.ses)
    BY <1>3, TickLeaves
  <2>2. snap.ses \in [Sessions -> Ses]
    BY <2>1, SnapOn DEF TypeInv, SnapType
  <2>3. snap'.ses[s].next = Less(snap.ses[s].next)
    BY <2>1, <2>2, AgedSes
  <2> QED BY <1>1, <2>1, <2>3 DEF PaceInv
<1>4. \A s \in run'.due : ses'[s].next = 0
  BY <1>1, TickLeaves DEF PaceInv, Less, TypeInv, RunType
<1> QED BY <1>2, <1>3, <1>4 DEF PaceInv

LEMMA PaceStep ==
    ASSUME TypeInv, RunInv, PaceInv, [Next]_vars
    PROVE  PaceInv'
<1>0. NoSnap.on = FALSE /\ NoRun.due = {}
  BY DEF NoSnap, NoRun
<1>1. ASSUME ses' = ses, \A s \in Sessions : last'[s].kept => last'[s] = last[s],
             run'.due \subseteq run.due, snap' = View \/ snap' = snap \/ snap' = NoSnap
      PROVE  PaceInv'
  BY <1>0, <1>1, PaceView DEF PaceInv
<1>2. CASE StartRun \/ EndRun \/ Sleep \/ Wake \/ Conflict
  <2>1. run'.due \subseteq run.due
    BY <1>0, <1>2, AfterType DEF StartRun, EndRun, Sleep, Wake, Conflict, TypeInv, RunType, NoRun
  <2>2. ses' = ses /\ last' = last /\ (snap' = View \/ snap' = snap \/ snap' = NoSnap)
    BY <1>2 DEF StartRun, EndRun, Sleep, Wake, Conflict
  <2> QED BY <1>1, <2>1, <2>2
<1>3. CASE TakeTurns
  <2>1. run'.due = Due(View) /\ snap' = View /\ ses' = ses /\ last' = last
    BY <1>3, TakerTurns DEF TakeTurns
  <2>2. \A s \in Due(View) : s \in Sessions /\ View.ses[s].next = 0
    BY <1>3, TakerTurns
  <2> QED BY <2>1, <2>2, PaceView DEF PaceInv
<1>4. CASE Record
  <2> DEFINE s == SessionOf[run.msg]
  <2>1. run'.due = run.due /\ s \notin run.due /\ run.due \subseteq Sessions /\ snap' = NoSnap
    BY <1>4, AfterType DEF Record, RunInv, TypeInv, RunType
  <2>2. \A t \in run'.due : ses'[t].next = 0
    BY <1>4, <2>1, RecordPace DEF PaceInv
  <2>3. last[s].age \in Nat
    BY <1>4, RecordPace DEF TypeInv, Last
  <2>4. last'[s].age + ses'[s].next >= MinDelay
    BY <1>4, <2>3, RecordPace, Constants
  <2>5. \A t \in Sessions : last'[t].kept => last'[t].age + ses'[t].next >= MinDelay
    BY <1>4, <2>4, RecordPace DEF PaceInv
  <2> QED BY <1>0, <2>1, <2>2, <2>5 DEF PaceInv
<1>5. ASSUME NEW m \in Msgs, Send(m)
      PROVE  PaceInv'
  <2>1. run'.due \subseteq run.due
    BY <1>5, PopType DEF Send, SendNothing, Post, TypeInv, Results
  <2>2. \A s \in Sessions : last'[s].kept => last'[s] = last[s]
    BY <1>5 DEF Send, SendNothing, Post, TypeInv
  <2> QED BY <1>1, <1>5, <2>1, <2>2 DEF Send, SendNothing, Post
<1>6. CASE Others
  BY <1>0, <1>6, OthersLeave, OthersPace DEF PaceInv, TypeInv, RunType
<1>7. CASE Tick
  BY <1>7, TickPace
<1>8. CASE UNCHANGED vars
  BY <1>8 DEF vars, PaceInv
<1> QED BY <1>2, <1>3, <1>4, <1>5, <1>6, <1>7, <1>8 DEF Next, Cron

\* A recorded send closes the window of its number for whatever run comes next:
\* the queue's next message from it reaches WhatsApp MinDelay later or more, for
\* any pacing, and through kills and concurrent writes of the session's row
\* (_schedule_next_send, _seconds_until_sendable).
THEOREM RecordedSendsArePaced == Spec => PacedUnlessLost
<1>1. Init => PaceInv
  <2> SUFFICES ASSUME Init PROVE PaceInv
    OBVIOUS
  <2>1. \A s \in Sessions : last[s].age = MaxDelay /\ ses[s].next = 0
    BY DEF Init
  <2> QED BY <2>1, Constants DEF Init, PaceInv, NoRun, NoSnap
<1>2. TypeInv /\ RunInv /\ PaceInv /\ [Next]_vars => PaceInv'
  BY PaceStep
<1>3. TypeInv /\ PaceInv /\ [Next]_vars
         => [\A m \in Msgs : QueueReaches(m) /\ last[SessionOf[m]].kept
                => last[SessionOf[m]].age >= MinDelay]_vars
  <2> SUFFICES ASSUME TypeInv, PaceInv, [Next]_vars, NEW m \in Msgs, QueueReaches(m),
                      last[SessionOf[m]].kept
               PROVE  last[SessionOf[m]].age >= MinDelay
    OBVIOUS
  <2>1. SessionOf[m] \in Sessions /\ ses[SessionOf[m]].next = 0
    BY Reaching, Constants DEF Turn, PaceInv
  <2>2. last[SessionOf[m]].age + 0 >= MinDelay /\ last[SessionOf[m]].age \in Nat
    BY <2>1 DEF PaceInv, TypeInv, Last
  <2> QED BY <2>2
<1> QED BY <1>1, <1>2, <1>3, Invariant, PTL DEF Spec, PacedUnlessLost

----------------------------------------------------------------------------
(* The failure pause *)

\* The streak never runs ahead of the failures the session's row counts, nor a
\* session that may still send in this run, has a turn or is sending, has failed
\* as often as pauses it.
PauseInv ==
    /\ \A s \in Sessions : /\ streak[s] <= ses[s].fails
                           /\ ses[s].fails >= PauseAfter => ses[s].paused
    /\ snap.on => \A s \in Sessions : ~snap.ses[s].paused => streak[s] < PauseAfter
    /\ \A s \in run.due : streak[s] < PauseAfter
    /\ run.pc = "sending" => streak[SessionOf[run.msg]] < PauseAfter

LEMMA PauseView ==
    ASSUME TypeInv, PauseInv
    PROVE  \A s \in Sessions : ~View.ses[s].paused => streak[s] < PauseAfter
<1> SUFFICES ASSUME NEW s \in Sessions, ~View.ses[s].paused PROVE streak[s] < PauseAfter
  OBVIOUS
<1>1. CASE snap.on
  BY <1>1, ViewType DEF PauseInv
<1>2. CASE ~snap.on
  <2>1. streak[s] <= ses[s].fails /\ ~(ses[s].fails >= PauseAfter)
    BY <1>2, ViewType DEF PauseInv
  <2>2. streak[s] \in Nat /\ ses[s].fails \in Nat
    BY SesFields DEF TypeInv
  <2> QED BY <2>1, <2>2, Constants
<1> QED BY <1>1, <1>2

\* The step of a run that leaves the counts alone.
LEMMA PauseKept ==
    ASSUME TypeInv, PauseInv, ses' = ses, streak' = streak,
           snap' = View \/ snap' = snap \/ snap' = NoSnap,
           \A s \in run'.due : streak[s] < PauseAfter,
           run'.pc = "sending" => streak[SessionOf[run'.msg]] < PauseAfter
    PROVE  PauseInv'
<1>1. NoSnap.on = FALSE
  BY DEF NoSnap
<1> QED BY <1>1, PauseView DEF PauseInv

LEMMA RecordPause ==
    ASSUME TypeInv, RunInv, PauseInv, PauseAfter # 0, Record
    PROVE  PauseInv'
<1> DEFINE s == SessionOf[run.msg]
           after == SessionAfter(ses[s], run.res)
<1>1. /\ s \in Sessions /\ ses[s] \in Ses /\ streak[s] \in Nat /\ s \notin run.due
      /\ run.due \subseteq Sessions /\ run.res \in Results
  BY Constants DEF Record, RunInv, TypeInv, RunType
<1>2. PICK delay \in Delays : ses' = [ses EXCEPT ![s] = ScheduleNextSend(after, delay)]
  BY DEF Record
<1>3. /\ ses'[s].fails = after.fails /\ ses'[s].paused = after.paused
      /\ \A t \in Sessions \ {s} : ses'[t] = ses[t]
  <2>1. after \in Ses
    BY <1>1, AfterSes
  <2>2. ScheduleNextSend(after, delay).fails = after.fails
        /\ ScheduleNextSend(after, delay).paused = after.paused
    <3> HIDE DEF after
    <3> QED BY <2>1 DEF ScheduleNextSend, Ses
  <2> QED BY <1>1, <1>2, <2>2 DEF TypeInv
<1>4. streak' = Streak(s, run.res)
  BY DEF Record
<1>5. /\ \A t \in Sessions \ {s} : streak'[t] = streak[t]
      /\ run.res = "ok" => streak'[s] = 0
      /\ run.res = "fail" => streak'[s] = streak[s] + 1
      /\ run.res \in {"skip", "bad"} => streak'[s] = streak[s]
  <2> HIDE DEF s
  <2> QED BY <1>1, <1>4 DEF Streak, TypeInv
<1>6. streak[s] < PauseAfter /\ streak[s] <= ses[s].fails
      /\ (ses[s].fails >= PauseAfter => ses[s].paused)
  BY <1>1 DEF Record, PauseInv
<1>7. /\ after.fails \in Nat /\ ses[s].fails \in 0 .. PauseAfter
      /\ run.res = "ok" => after.fails = 0
      /\ run.res # "ok" => after.fails >= ses[s].fails
      /\ run.res = "fail" /\ ses[s].fails < PauseAfter => after.fails = ses[s].fails + 1
      /\ after.fails >= PauseAfter => after.paused
  BY <1>1, <1>6, AfterSes, SesFields, Constants
<1>8. streak'[s] <= after.fails
  <2>1. CASE run.res = "ok"
    BY <1>5, <1>7, <2>1
  <2>2. CASE run.res = "fail"
    <3> HIDE DEF after, s
    <3> QED BY <1>1, <1>5, <1>6, <1>7, <2>2, Constants
  <2>3. CASE run.res \in {"skip", "bad"}
    <3> HIDE DEF after, s
    <3> QED BY <1>1, <1>5, <1>6, <1>7, <2>3, Constants
  <2> QED BY <1>1, <2>1, <2>2, <2>3 DEF Results
<1>9. \A t \in Sessions : /\ streak'[t] <= ses'[t].fails
                          /\ ses'[t].fails >= PauseAfter => ses'[t].paused
  <2> SUFFICES ASSUME NEW t \in Sessions
               PROVE  /\ streak'[t] <= ses'[t].fails
                      /\ ses'[t].fails >= PauseAfter => ses'[t].paused
    OBVIOUS
  <2>1. CASE t = s
    BY <1>3, <1>7, <1>8, <2>1
  <2>2. CASE t # s
    BY <1>3, <1>5, <2>2 DEF PauseInv
  <2> QED BY <2>1, <2>2
<1>10. run'.due = run.due /\ run'.pc # "sending"
  BY AfterType DEF Record, TypeInv
<1>11. \A t \in run'.due : streak'[t] < PauseAfter
  BY <1>1, <1>5, <1>10 DEF PauseInv
<1>12. ~snap'.on
  BY DEF Record, NoSnap
<1> QED BY <1>9, <1>10, <1>11, <1>12 DEF PauseInv

\* What happens beside a run sets a streak to 0 or leaves it, and then leaves the
\* failures or adds to them.
LEMMA OthersPause ==
    ASSUME TypeInv, PauseInv, PauseAfter # 0, Others
    PROVE  \A s \in Sessions : /\ streak'[s] <= streak[s]
                               /\ streak'[s] <= ses'[s].fails
                               /\ ses'[s].fails >= PauseAfter => ses'[s].paused
<1> DEFINE Goal == \A s \in Sessions : /\ streak'[s] <= streak[s]
                                       /\ streak'[s] <= ses'[s].fails
                                       /\ ses'[s].fails >= PauseAfter => ses'[s].paused
<1>0. \A s \in Sessions : /\ streak[s] \in Nat /\ ses[s] \in Ses /\ ses[s].fails \in Nat
                          /\ streak[s] <= ses[s].fails
                          /\ ses[s].fails >= PauseAfter => ses[s].paused
  BY SesFields DEF TypeInv, PauseInv
<1>1. ASSUME NEW m \in Msgs, NEW reached \in BOOLEAN, NEW res \in {"ok", "fail"},
             HandSend(m, reached, res)
      PROVE  Goal
  <2> DEFINE t == SessionOf[m]
             after == SessionAfter(ses[t], res)
  <2>1. t \in Sessions
    BY Constants
  <2>2. /\ after.fails \in Nat
        /\ res = "ok" => after.fails = 0
        /\ res # "ok" => after.fails >= ses[t].fails
        /\ after.fails >= PauseAfter => after.paused
    BY <1>0, <2>1, AfterSes, SesFields, Constants
  <2>3. ses'[t] = after /\ \A s \in Sessions \ {t} : ses'[s] = ses[s]
    BY <1>1, <2>1 DEF HandSend, TypeInv
  <2>4. /\ \A s \in Sessions \ {t} : streak'[s] = streak[s]
        /\ streak'[t] = IF res = "ok" THEN 0 ELSE streak[t]
    BY <1>1, <2>1 DEF HandSend, TypeInv
  <2> HIDE DEF after, t
  <2>5. /\ streak'[t] <= streak[t] /\ streak'[t] <= after.fails
        /\ after.fails >= PauseAfter => after.paused
    BY <1>0, <2>1, <2>2, <2>4
  <2> QED BY <1>0, <2>3, <2>4, <2>5
<1>2. ASSUME NEW t \in Sessions, NEW dead \in BOOLEAN, Status(t, dead) PROVE Goal
  <2>1. \A s \in Sessions : ses'[s].fails = ses[s].fails /\ ses'[s].paused = ses[s].paused
    BY <1>2 DEF Status, TypeInv, Ses
  <2> QED BY <1>0, <1>2, <2>1 DEF Status
<1>3. ASSUME NEW t \in Sessions, ResumeQueue(t) PROVE Goal
  <2>1. ses' = [ses EXCEPT ![t] = [ses[t] EXCEPT !.paused = FALSE, !.fails = 0]]
    BY <1>3 DEF ResumeQueue, TypeInv, Ses
  <2>2. ses'[t].fails = 0 /\ \A s \in Sessions \ {t} : ses'[s] = ses[s]
    BY <2>1 DEF TypeInv, Ses
  <2>3. streak'[t] = 0 /\ \A s \in Sessions \ {t} : streak'[s] = streak[s]
    BY <1>3 DEF ResumeQueue, TypeInv
  <2> QED BY <1>0, <2>2, <2>3, Constants
<1>4. ASSUME ses' = ses, streak' = streak PROVE Goal
  BY <1>0, <1>4
<1> QED BY <1>1, <1>2, <1>3, <1>4 DEF Others, OptOut, Kill

LEMMA PauseStep ==
    ASSUME TypeInv, RunInv, PauseInv, PauseAfter # 0, [Next]_vars
    PROVE  PauseInv'
<1>0. NoSnap.on = FALSE /\ NoRun.due = {} /\ NoRun.pc = "idle"
  BY DEF NoSnap, NoRun
<1>1. CASE StartRun \/ EndRun \/ Sleep \/ Wake \/ Conflict
  <2>1. run'.due \subseteq run.due /\ run'.pc # "sending"
    BY <1>0, <1>1, AfterType DEF StartRun, EndRun, Sleep, Wake, Conflict, TypeInv, RunType, NoRun
  <2>2. ses' = ses /\ streak' = streak /\ (snap' = View \/ snap' = snap \/ snap' = NoSnap)
    BY <1>1 DEF StartRun, EndRun, Sleep, Wake, Conflict
  <2>3. \A s \in run'.due : streak[s] < PauseAfter
    BY <2>1 DEF PauseInv
  <2> QED BY <2>1, <2>2, <2>3, PauseKept
<1>2. CASE TakeTurns
  <2>1. run'.due = Due(View) /\ run'.pc = "turns" /\ snap' = View /\ ses' = ses /\ streak' = streak
    BY <1>2, TakerTurns DEF TakeTurns
  <2>2. \A s \in run'.due : streak[s] < PauseAfter
    BY <1>2, <2>1, TakerTurns, PauseView
  <2> QED BY <2>1, <2>2, PauseKept
<1>3. CASE Record
  BY <1>3, RecordPause
<1>4. ASSUME NEW m \in Msgs, Send(m)
      PROVE  PauseInv'
  <2>1. run'.due \subseteq run.due /\ run'.msg = m /\ SessionOf[m] \in run.due
    BY <1>4, PopType DEF Send, SendNothing, Post, Turn, TypeInv, Results
  <2>2. ses' = ses /\ streak' = streak /\ snap' = View
    BY <1>4 DEF Send, SendNothing, Post
  <2>3. (\A s \in run'.due : streak[s] < PauseAfter) /\ streak[SessionOf[run'.msg]] < PauseAfter
    BY <2>1 DEF PauseInv
  <2> QED BY <2>2, <2>3, PauseKept
<1>5. CASE Others
  <2>1. \A s \in Sessions : streak[s] < PauseAfter => streak'[s] < PauseAfter
    <3>1. \A s \in Sessions : streak[s] \in Nat /\ streak'[s] \in Nat /\ streak'[s] <= streak[s]
      BY <1>5, OthersPause, OthersType DEF TypeInv
    <3> QED BY <3>1, Constants
  <2>2. CASE run' = NoRun /\ snap' = NoSnap
    BY <1>0, <1>5, <2>2, OthersPause DEF PauseInv
  <2>3. CASE run' = run /\ (snap'.on => snap.on /\ snap'.ses = snap.ses)
    <3>1. run.due \subseteq Sessions
      BY DEF TypeInv, RunType
    <3>2. \A s \in run'.due : streak'[s] < PauseAfter
      BY <2>1, <2>3, <3>1 DEF PauseInv
    <3>3. run'.pc = "sending" => streak'[SessionOf[run'.msg]] < PauseAfter
      BY <2>1, <2>3, Constants DEF PauseInv, RunInv
    <3>4. snap'.on => \A s \in Sessions : ~snap'.ses[s].paused => streak'[s] < PauseAfter
      BY <2>1, <2>3 DEF PauseInv
    <3> QED BY <1>5, <3>2, <3>3, <3>4, OthersPause DEF PauseInv
  <2> QED BY <1>5, <2>2, <2>3, OthersLeave
<1>6. CASE Tick
  <2>1. /\ streak' = streak
        /\ \A s \in Sessions : ses'[s].fails = ses[s].fails /\ ses'[s].paused = ses[s].paused
    BY <1>6, AgedSes DEF Tick, TypeInv
  <2>2. ASSUME snap'.on, NEW s \in Sessions, ~snap'.ses[s].paused
        PROVE  streak[s] < PauseAfter
    <3>1. snap.on /\ snap'.ses = AgedSession(snap.ses)
      BY <1>6, <2>2, TickLeaves
    <3>2. snap.ses \in [Sessions -> Ses]
      BY <3>1, SnapOn DEF TypeInv, SnapType
    <3> QED BY <2>2, <3>1, <3>2, AgedSes DEF PauseInv
  <2> QED BY <1>6, <2>1, <2>2, TickLeaves DEF PauseInv
<1>7. CASE UNCHANGED vars
  BY <1>7 DEF vars, PauseInv
<1> QED BY <1>1, <1>2, <1>3, <1>4, <1>5, <1>6, <1>7 DEF Next, Cron

\* For every threshold but 0, the queue never records more failures in a row from
\* one number than pause it, whoever sends beside it, resumes it or writes its
\* row between the snapshot and the commit (_note_send_failure).
THEOREM FailuresDoPause == Spec => []FailuresPause
<1>1. CASE PauseAfter = 0
  <2>1. FailuresPause
    BY <1>1 DEF FailuresPause
  <2> QED BY <2>1, PTL
<1>2. CASE PauseAfter # 0
  <2>1. Init => PauseInv
    BY <1>2, Constants DEF Init, PauseInv, NoRun, NoSnap
  <2>2. TypeInv /\ RunInv /\ PauseInv /\ [Next]_vars => PauseInv'
    BY <1>2, PauseStep
  <2>3. TypeInv /\ PauseInv => FailuresPause
    <3> SUFFICES ASSUME TypeInv, PauseInv, NEW s \in Sessions PROVE streak[s] <= PauseAfter
      BY DEF FailuresPause
    <3>1. streak[s] <= ses[s].fails /\ streak[s] \in Nat /\ ses[s].fails \in 0 .. PauseAfter
      BY SesFields DEF TypeInv, PauseInv
    <3> QED BY <3>1, Constants
  <2> QED BY <2>1, <2>2, <2>3, Invariant, PTL DEF Spec
<1> QED BY <1>1, <1>2

----------------------------------------------------------------------------
(* The caps *)

\* What the queue has sent from s since age, a count.
Sent(rows, s, age) ==
    Cardinality({m \in Msgs : SessionOf[m] = s /\ rows[m].by = "queue" /\ rows[m].age <= age})

\* n more messages are within the caps of rec, t ticks into its day.
Fits(rows, s, rec, t, n) ==
    DailyCap(rec) # 0 =>
        /\ Sent(rows, s, t) + n <= DailyCap(rec)
        /\ HourlyCap(rec) # 0 => Sent(rows, s, Hour) + n <= HourlyCap(rec)

\* A part of a set of messages counts less, one message more at most one more.
LEMMA Counting ==
    ASSUME NEW A, NEW B, A \subseteq B, B \subseteq Msgs
    PROVE  /\ Cardinality(A) \in Nat /\ Cardinality(B) \in Nat /\ Cardinality(A) <= Cardinality(B)
           /\ \A m : Cardinality(A \union {m}) <= Cardinality(A) + 1
<1>1. IsFiniteSet(Msgs)
  BY Constants, FS_Interval DEF Msgs
<1>2. IsFiniteSet(B)
  BY <1>1, FS_Subset
<1>3. IsFiniteSet(A) /\ Cardinality(A) <= Cardinality(B)
  BY <1>2, FS_Subset
<1>4. Cardinality(A) \in Nat /\ Cardinality(B) \in Nat
  BY <1>2, <1>3, FS_CardinalityType
<1>5. ASSUME NEW m PROVE Cardinality(A \union {m}) <= Cardinality(A) + 1
  <2>1. CASE m \in A
    <3>1. A \union {m} = A
      BY <2>1
    <3>2. Cardinality(A \union {m}) = Cardinality(A)
      BY <3>1
    <3> QED BY <1>4, <3>2
  <2>2. CASE m \notin A
    BY <1>3, <1>4, <2>2, FS_AddElement
  <2> QED BY <2>1, <2>2
<1> QED BY <1>3, <1>4, <1>5

\* Rows that age, or are not the queue's any more, leave less sent.
LEMMA SentLess ==
    ASSUME NEW rows, NEW next, NEW s, NEW a, NEW b,
           \A m \in Msgs : SessionOf[m] = s /\ next[m].by = "queue" /\ next[m].age <= b
                             => rows[m].by = "queue" /\ rows[m].age <= a
    PROVE  Sent(next, s, b) \in Nat /\ Sent(rows, s, a) \in Nat /\ Sent(next, s, b) <= Sent(rows, s, a)
<1> DEFINE B == {m \in Msgs : SessionOf[m] = s /\ rows[m].by = "queue" /\ rows[m].age <= a}
           A == {m \in Msgs : SessionOf[m] = s /\ next[m].by = "queue" /\ next[m].age <= b}
<1>1. A \subseteq B /\ B \subseteq Msgs
  OBVIOUS
<1>2. Sent(next, s, b) = Cardinality(A) /\ Sent(rows, s, a) = Cardinality(B)
  BY DEF Sent
<1> HIDE DEF A, B
<1> QED BY <1>1, <1>2, Counting

\* The daily cap never falls while the ramp lasts, nor does a cap turn into none.
LEMMA CapsGrow ==
    ASSUME NEW a \in Ses, NEW b \in Ses, a.days <= b.days
    PROVE  /\ DailyCap(a) \in Nat /\ DailyCap(a) <= DailyCap(b) /\ DailyCap(b) \in Nat
           /\ DailyCap(b) # 0 => DailyCap(a) # 0
<1>1. a.days \in 0 .. CapDays /\ b.days \in 0 .. CapDays
  BY SesFields
<1>2. Ramp[a.days] <= Ramp[b.days] /\ (Ramp[a.days] = 0 => Ramp[b.days] = 0)
      /\ Ramp[a.days] \in Nat /\ Ramp[b.days] \in Nat /\ CapMax \in Nat
  BY <1>1, QueueAssumption
<1> QED BY <1>2 DEF DailyCap

\* A quotient rounded up grows with what is divided.
LEMMA Division ==
    ASSUME NEW k \in Nat \ {0}, NEW x \in Nat, NEW y \in Nat, x <= y, y # 0 => x # 0
    PROVE  LET up(n) == (n + k - 1) \div k IN
           up(x) \in Nat /\ up(y) \in Nat /\ up(x) <= up(y) /\ (x # 0 => up(x) # 0)
  OBVIOUS

\* Neither does the hourly one, given or derived.
LEMMA HoursGrow ==
    ASSUME NEW a \in Ses, NEW b \in Ses, a.days <= b.days, DailyCap(b) # 0
    PROVE  /\ HourlyCap(a) \in Nat /\ HourlyCap(b) \in Nat /\ HourlyCap(a) <= HourlyCap(b)
           /\ HourlyCap(a) # 0
<1>1. HourCap \in Nat /\ Spread \in Nat \ {0}
  BY QueueAssumption
<1> QED BY <1>1, CapsGrow, Division DEF HourlyCap

\* The remainder of a sum of two times of day.
LEMMA Modulo ==
    ASSUME NEW k \in Nat \ {0}, NEW x \in Nat, x < k + k
    PROVE  x % k = (IF x < k THEN x ELSE x - k)
<1>1. CASE x < k
  BY <1>1
<1>2. CASE x >= k
  <2> DEFINE q == x \div k  r == x % k
  <2>1. q \in Int /\ r \in 0 .. k - 1 /\ x = k * q + r
    OBVIOUS
  <2> HIDE DEF q, r
  <2>2. CASE q <= 0
    <3>1. k * q <= 0
      BY <2>1, <2>2
    <3> QED BY <1>2, <2>1, <3>1
  <2>3. CASE q >= 2
    <3>1. k * q >= k + k
      BY <2>1, <2>3
    <3> QED BY <1>2, <2>1, <3>1
  <2>4. CASE q = 1
    BY <1>2, <2>1, <2>4 DEF r
  <2> QED BY <2>1, <2>2, <2>3, <2>4
<1> QED BY <1>1, <1>2

\* A session's clock goes on by one, or to midnight.
LEMMA LocalTicks ==
    ASSUME TypeInv, Tick, NEW s \in Sessions
    PROVE  /\ LocalTime(s) \in 0 .. Day - 1 /\ LocalTime(s)' \in 0 .. Day - 1
           /\ LocalTime(s)' \in {LocalTime(s) + 1, 0}
<1>1. clock \in 0 .. Day - 1 /\ Zone[s] \in 0 .. Day - 1 /\ Day \in Nat \ {0}
  BY QueueAssumption DEF TypeInv
<1>2. clock' = (clock + 1) % Day /\ Zone' = Zone
  BY DEF Tick
<1> DEFINE next == (clock + 1) % Day
<1>3. LocalTime(s) = (clock + Zone[s]) % Day /\ LocalTime(s)' = (next + Zone[s]) % Day
  BY <1>2 DEF LocalTime
<1>4. next = (IF clock + 1 < Day THEN clock + 1 ELSE 0) /\ next \in 0 .. Day - 1
  <2> DEFINE x == clock + 1
  <2>1. x \in Nat /\ x <= Day /\ x < Day + Day
    BY <1>1
  <2> HIDE DEF x
  <2>2. x % Day = (IF x < Day THEN x ELSE x - Day)
    BY <1>1, <2>1, Modulo
  <2> QED BY <1>1, <2>1, <2>2 DEF x
<1> HIDE DEF next
<1>5. (clock + Zone[s]) % Day = (IF clock + Zone[s] < Day THEN clock + Zone[s] ELSE clock + Zone[s] - Day)
  BY <1>1, Modulo
<1> DEFINE x == next + Zone[s]
<1>6. x \in Nat /\ x < Day + Day
  BY <1>1, <1>4
<1>7. LocalTime(s)' = x % Day /\ x = next + Zone[s]
  BY <1>3
<1> HIDE DEF x
<1>8. x % Day = (IF x < Day THEN x ELSE x - Day)
  BY <1>1, <1>6, Modulo
<1>9. LocalTime(s)' = (IF x < Day THEN x ELSE x - Day)
  BY <1>7, <1>8
<1> DEFINE now == LocalTime(s)
           later == LocalTime(s)'
<1>10. now = (IF clock + Zone[s] < Day THEN clock + Zone[s] ELSE clock + Zone[s] - Day)
  BY <1>3, <1>5
<1> HIDE DEF now, later
<1>11. now \in 0 .. Day - 1 /\ later \in 0 .. Day - 1 /\ later \in {now + 1, 0}
  BY <1>1, <1>4, <1>7, <1>9, <1>10 DEF later
<1> QED BY <1>11 DEF now, later

\* Less sent, under caps that grew: what fitted fits.
LEMMA FitsStill ==
    ASSUME NEW rows, NEW next, NEW s, NEW a, NEW b, NEW rec \in Ses, NEW new \in Ses, rec.days <= new.days,
           \A m \in Msgs : SessionOf[m] = s /\ next[m].by = "queue" /\ next[m].age <= b
                             => rows[m].by = "queue" /\ rows[m].age <= a,
           \A m \in Msgs : SessionOf[m] = s /\ next[m].by = "queue" /\ next[m].age <= Hour
                             => rows[m].by = "queue" /\ rows[m].age <= Hour,
           NEW n \in Nat, Fits(rows, s, rec, a, n)
    PROVE  Fits(next, s, new, b, n)
<1>1. /\ Sent(next, s, b) \in Nat /\ Sent(rows, s, a) \in Nat /\ Sent(next, s, b) <= Sent(rows, s, a)
      /\ Sent(next, s, Hour) \in Nat /\ Sent(rows, s, Hour) \in Nat
      /\ Sent(next, s, Hour) <= Sent(rows, s, Hour)
  BY SentLess
<1>2. ASSUME DailyCap(new) # 0 PROVE Fits(next, s, new, b, n)
  <2>1. /\ DailyCap(rec) # 0 /\ DailyCap(rec) <= DailyCap(new)
        /\ DailyCap(rec) \in Nat /\ DailyCap(new) \in Nat
    BY <1>2, CapsGrow
  <2>2. /\ HourlyCap(rec) # 0 /\ HourlyCap(rec) <= HourlyCap(new)
        /\ HourlyCap(rec) \in Nat /\ HourlyCap(new) \in Nat
    BY <1>2, HoursGrow
  <2>3. Sent(rows, s, a) + n <= DailyCap(rec) /\ Sent(rows, s, Hour) + n <= HourlyCap(rec)
    BY <2>1, <2>2 DEF Fits
  <2>4. Sent(next, s, b) + n <= DailyCap(new) /\ Sent(next, s, Hour) + n <= HourlyCap(new)
    BY <1>1, <2>1, <2>2, <2>3
  <2> QED BY <2>4 DEF Fits
<1> QED BY <1>2 DEF Fits

\* The turn that there was room for.
LEMMA FitsOneMore ==
    ASSUME NEW rows, NEW next, NEW s, NEW a, NEW rec \in Ses, NEW new \in Ses, rec.days = new.days,
           NEW n \in Msgs, \A m \in Msgs \ {n} : next[m] = rows[m],
           Fits(rows, s, rec, a, 1)
    PROVE  Fits(next, s, new, a, 0)
<1>1. ASSUME NEW age
      PROVE  /\ Sent(next, s, age) \in Nat /\ Sent(rows, s, age) \in Nat
             /\ Sent(next, s, age) <= Sent(rows, s, age) + 1
  <2> DEFINE A == {m \in Msgs : SessionOf[m] = s /\ rows[m].by = "queue" /\ rows[m].age <= age}
             B == {m \in Msgs : SessionOf[m] = s /\ next[m].by = "queue" /\ next[m].age <= age}
  <2>1. B \subseteq A \union {n} /\ A \subseteq A \union {n} /\ A \union {n} \subseteq Msgs
    OBVIOUS
  <2>2. Sent(rows, s, age) = Cardinality(A) /\ Sent(next, s, age) = Cardinality(B)
    BY DEF Sent
  <2> HIDE DEF A, B
  <2>3. /\ Cardinality(A) \in Nat /\ Cardinality(B) \in Nat /\ Cardinality(A \union {n}) \in Nat
        /\ Cardinality(B) <= Cardinality(A \union {n})
        /\ Cardinality(A \union {n}) <= Cardinality(A) + 1
    BY <2>1, Counting
  <2> QED BY <2>2, <2>3
<1>2. DailyCap(rec) = DailyCap(new) /\ HourlyCap(rec) = HourlyCap(new)
  BY DEF DailyCap, HourlyCap
<1>7. new.days <= new.days
  BY SesFields, Constants
<1>3. DailyCap(new) \in Nat
  BY <1>7, CapsGrow
<1>4. DailyCap(new) # 0 => HourlyCap(new) \in Nat
  BY <1>7, HoursGrow
<1> HIDE DEF Fits
<1>5. ASSUME DailyCap(new) # 0
      PROVE  Sent(next, s, a) <= DailyCap(new) /\ (HourlyCap(new) # 0 => Sent(next, s, Hour) <= HourlyCap(new))
  <2>1. Sent(rows, s, a) + 1 <= DailyCap(new) /\ (HourlyCap(new) # 0 => Sent(rows, s, Hour) + 1 <= HourlyCap(new))
    BY <1>2, <1>5 DEF Fits
  <2> QED BY <1>1, <1>3, <1>4, <1>5, <2>1
<1>6. Sent(next, s, a) \in Nat /\ Sent(next, s, Hour) \in Nat
  BY <1>1
<1> QED BY <1>5, <1>6 DEF Fits

----------------------------------------------------------------------------
\* The sessions that have a turn, and the one that is taking it.
Holders == run.due \union {s \in Sessions : run.pc = "sending" /\ s = SessionOf[run.msg]}

\* The queue's rows are final and in every snapshot, whose ramp is never ahead;
\* a row the queue has sent is not posted again; and whoever has a turn has room
\* for a message, everybody else for what was sent.
CapInv ==
    /\ \A m \in Msgs : row[m].by = "queue" => row[m].state = "sent"
    /\ snap.on => \A m \in Msgs : row[m].by = "queue" => snap.row[m] = row[m]
    /\ snap.on => \A s \in Sessions : snap.ses[s].days <= ses[s].days
    /\ snap.on => \A s \in Sessions : snap.ses[s].started => ses[s].started
    /\ \A s \in Holders : Fits(row, s, ses[s], LocalTime(s), 1)
    /\ run.pc = "sending" /\ run.res # "skip" => row[run.msg].by # "queue"
    /\ \A s \in Sessions : Fits(row, s, ses[s], LocalTime(s), 0)

\* What a run reads of what the queue has sent, and of the ramp.
LEMMA CapView ==
    ASSUME TypeInv, CapInv
    PROVE  /\ \A m \in Msgs : row[m].by = "queue" => View.row[m] = row[m] /\ View.row[m].state = "sent"
           /\ \A s \in Sessions : View.ses[s].days <= ses[s].days
           /\ \A s \in Sessions : View.ses[s].started => ses[s].started
<1>1. CASE snap.on
  BY <1>1, ViewType DEF CapInv
<1>2. CASE ~snap.on
  <2>1. \A s \in Sessions : ses[s].days \in Nat
    BY SesFields, Constants DEF TypeInv
  <2> QED BY <1>2, <2>1, ViewType DEF CapInv
<1> QED BY <1>1, <1>2

\* Caps that a snapshot shows as unspent have room for one message now.
LEMMA ViewFits ==
    ASSUME TypeInv, CapInv, NEW s \in Sessions, ~CapsSpent(View, s)
    PROVE  Fits(row, s, ses[s], LocalTime(s), 1)
<1> DEFINE v == View
           rec == v.ses[s]
           t == LocalTime(s)
<1>1. rec \in Ses /\ ses[s] \in Ses /\ rec.days <= ses[s].days
  <2>1. View \in SnapType /\ ses \in [Sessions -> Ses]
    BY ViewType DEF TypeInv
  <2>2. View.ses[s] \in Ses /\ ses[s] \in Ses
    BY <2>1 DEF SnapType
  <2>3. View.ses[s].days <= ses[s].days
    <3>1. CASE snap.on
      BY <3>1, ViewType DEF CapInv
    <3>2. CASE ~snap.on
      BY <2>2, <3>2, ViewType, SesFields, Constants
    <3> QED BY <3>1, <3>2
  <2> QED BY <2>2, <2>3
<1>2. ASSUME NEW age PROVE /\ Sent(row, s, age) \in Nat /\ SentSince(v.row, s, age) \in Nat
                           /\ Sent(row, s, age) <= SentSince(v.row, s, age)
  <2> DEFINE A == {m \in Msgs : SessionOf[m] = s /\ row[m].by = "queue" /\ row[m].age <= age}
             B == {m \in Msgs : SessionOf[m] = s /\ v.row[m].state = "sent" /\ v.row[m].age <= age}
  <2>1. A \subseteq B /\ B \subseteq Msgs
    BY CapView
  <2>2. Sent(row, s, age) = Cardinality(A) /\ SentSince(v.row, s, age) = Cardinality(B)
    BY DEF Sent, SentSince
  <2> HIDE DEF A, B
  <2> QED BY <2>1, <2>2, Counting
<1>3. ~(DailyCap(rec) # 0 /\ (\/ SentSince(v.row, s, t) >= DailyCap(rec)
                              \/ HourlyCap(rec) # 0 /\ SentSince(v.row, s, Hour) >= HourlyCap(rec)))
  BY DEF CapsSpent
<1>4. /\ Sent(row, s, t) \in Nat /\ SentSince(v.row, s, t) \in Nat
      /\ Sent(row, s, t) <= SentSince(v.row, s, t)
      /\ Sent(row, s, Hour) \in Nat /\ SentSince(v.row, s, Hour) \in Nat
      /\ Sent(row, s, Hour) <= SentSince(v.row, s, Hour)
  BY <1>2
<1>5. ASSUME DailyCap(rec) # 0
      PROVE  Fits(row, s, rec, t, 1)
  <2>1. DailyCap(rec) \in Nat /\ HourlyCap(rec) \in Nat
    BY <1>1, <1>5, CapsGrow, HoursGrow
  <2> HIDE DEF v, rec, t
  <2> QED BY <1>3, <1>4, <1>5, <2>1 DEF Fits
<1>6. Fits(row, s, rec, t, 1)
  <2> HIDE DEF rec, t
  <2> QED BY <1>5 DEF Fits
<1> HIDE DEF v, rec, t
<1>7. Fits(row, s, ses[s], t, 1)
  BY <1>1, <1>6, FitsStill
<1> QED BY <1>7 DEF t

\* What a step has to keep that leaves the clock alone.
LEMMA CapKept ==
    ASSUME TypeInv, TypeInv', CapInv, clock' = clock,
           \A m \in Msgs : row'[m].by = "queue" => row'[m] = row[m],
           \A s \in Sessions : ses'[s].days = ses[s].days,
           \A s \in Sessions : ses[s].started => ses'[s].started,
           snap'.on => \/ snap' = View
                       \/ snap.on /\ snap'.row = snap.row /\ snap'.ses = snap.ses,
           \A s \in Holders' : Fits(row, s, ses[s], LocalTime(s), 1),
           run'.pc = "sending" /\ run'.res # "skip" => row'[run'.msg].by # "queue"
    PROVE  CapInv'
<1>1. \A s \in Sessions : LocalTime(s)' = LocalTime(s)
  BY DEF LocalTime
<1>2. ASSUME NEW s \in Sessions, NEW n \in {0, 1}, Fits(row, s, ses[s], LocalTime(s), n)
      PROVE  Fits(row', s, ses'[s], LocalTime(s), n)
  <2> DEFINE t == LocalTime(s)
  <2>1. ses[s] \in Ses /\ ses'[s] \in Ses /\ ses[s].days <= ses'[s].days
    <3>1. ses[s] \in Ses /\ ses'[s] \in Ses
      BY DEF TypeInv
    <3> QED BY <3>1, SesFields, Constants
  <2> HIDE DEF t
  <2>2. Fits(row, s, ses[s], t, n)
    BY <1>2 DEF t
  <2>3. Fits(row', s, ses'[s], t, n)
    BY <2>1, <2>2, FitsStill
  <2> QED BY <2>3 DEF t
<1>3. \A m \in Msgs : row'[m].by = "queue" => row'[m].state = "sent"
  BY DEF CapInv
<1>4. /\ snap'.on => \A m \in Msgs : row'[m].by = "queue" => snap'.row[m] = row'[m]
      /\ snap'.on => \A s \in Sessions : snap'.ses[s].days <= ses'[s].days
      /\ snap'.on => \A s \in Sessions : snap'.ses[s].started => ses'[s].started
  <2>1. CASE snap' = View
    <3>1. \A m \in Msgs : row'[m].by = "queue" => snap'.row[m] = row'[m]
      BY <2>1, CapView
    <3>2. \A s \in Sessions : snap'.ses[s].days <= ses'[s].days
      BY <2>1, CapView
    <3>3. \A s \in Sessions : snap'.ses[s].started => ses'[s].started
      BY <2>1, CapView
    <3> QED BY <3>1, <3>2, <3>3
  <2>2. CASE snap.on /\ snap'.row = snap.row /\ snap'.ses = snap.ses
    BY <2>2 DEF CapInv
  <2> QED BY <2>1, <2>2
<1>5. Holders' \subseteq Sessions
  BY DEF TypeInv, RunType, Holders
<1>6. \A s \in Holders' : Fits(row', s, ses'[s], LocalTime(s)', 1)
  BY <1>1, <1>2, <1>5
<1>7. \A s \in Sessions : Fits(row', s, ses'[s], LocalTime(s)', 0)
  BY <1>1, <1>2 DEF CapInv
<1> QED BY <1>3, <1>4, <1>6, <1>7 DEF CapInv

\* A send starts the ramp, and never takes it back.
LEMMA AfterRamp ==
    ASSUME NEW rec \in Ses, NEW res
    PROVE  /\ SessionAfter(rec, res) \in Ses
           /\ SessionAfter(rec, res).days = rec.days
           /\ rec.started => SessionAfter(rec, res).started
<1>1. CASE res = "ok"
  BY <1>1, AfterSes DEF SessionAfter, NoteSend, Ses
<1>2. CASE res = "fail"
  BY <1>2, AfterSes DEF SessionAfter, NoteFailure, Ses
<1>3. CASE res \notin {"ok", "fail"}
  BY <1>3 DEF SessionAfter
<1> QED BY <1>1, <1>2, <1>3

\* What happens beside a run does not touch what the queue has sent, nor the ramp.
LEMMA OthersSpare ==
    ASSUME TypeInv, CapInv, Others
    PROVE  /\ clock' = clock
           /\ \A m \in Msgs : row'[m].by = "queue" => row'[m] = row[m]
           /\ \A s \in Sessions : ses'[s].days = ses[s].days
           /\ \A s \in Sessions : ses[s].started => ses'[s].started
           /\ run' = NoRun \/ run' = run
           /\ snap'.on => snap.on /\ snap'.row = snap.row /\ snap'.ses = snap.ses
<1> DEFINE Spared == /\ \A m \in Msgs : row'[m].by = "queue" => row'[m] = row[m]
                     /\ \A s \in Sessions : ses'[s].days = ses[s].days
                     /\ \A s \in Sessions : ses[s].started => ses'[s].started
                     /\ run' = NoRun \/ run' = run
                     /\ clock' = clock /\ (snap'.on => snap'.row = snap.row)
<1>1. ASSUME NEW M, NEW S, snap.on,
             \/ snap' = [snap EXCEPT !.moved = M, !.stale = S]
             \/ snap' = [snap EXCEPT !.stale = S]
      PROVE  snap'.row = snap.row
  <2>1. snap \in SnapType
    BY <1>1, SnapOn DEF TypeInv
  <2> QED BY <1>1, <2>1 DEF SnapType
<1>2. ASSUME NEW s \in Sessions, NEW rec \in Ses, ses' = [ses EXCEPT ![s] = rec],
             rec.days = ses[s].days, ses[s].started => rec.started
      PROVE  (\A t \in Sessions : ses'[t].days = ses[t].days) /\ \A t \in Sessions : ses[t].started => ses'[t].started
  BY <1>2 DEF TypeInv
<1>3. ASSUME NEW s \in Sessions, snap' = MarkStale(s) PROVE snap'.on => snap'.row = snap.row
  <2>1. CASE snap.on
    <3>1. snap' = [snap EXCEPT !.stale = @ \union {s}]
      BY <1>3, <2>1 DEF MarkStale
    <3> QED BY <1>1, <2>1, <3>1
  <2>2. CASE ~snap.on
    BY <1>3, <2>2 DEF MarkStale
  <2> QED BY <2>1, <2>2
<1>4. ASSUME NEW m \in Msgs, OptOut(m) PROVE Spared
  BY <1>4 DEF OptOut
<1>5. ASSUME NEW m \in Msgs, NEW reached \in BOOLEAN, NEW res \in {"ok", "fail"},
             HandSend(m, reached, res)
      PROVE  Spared
  <2> DEFINE s == SessionOf[m]
             after == SessionAfter(ses[s], res)
  <2>1. s \in Sessions /\ ses[s] \in Ses
    BY Constants DEF TypeInv
  <2>2. after \in Ses /\ after.days = ses[s].days /\ (ses[s].started => after.started)
    BY <2>1, AfterRamp
  <2>3. ses' = [ses EXCEPT ![s] = after] /\ run' = run /\ clock' = clock
    BY <1>5 DEF HandSend
  <2>4. (\A t \in Sessions : ses'[t].days = ses[t].days) /\ \A t \in Sessions : ses[t].started => ses'[t].started
    <3> HIDE DEF s, after
    <3> QED BY <1>2, <2>1, <2>2, <2>3
  <2>5. \A n \in Msgs : row'[n].by = "queue" => row'[n] = row[n]
    <3>1. row[m].by # "queue" /\ row[m] \in Row
      BY <1>5 DEF HandSend, CapInv, TypeInv
    <3>2. RowAfter(row[m], res, "hand").by # "queue"
      BY <1>5, <3>1 DEF RowAfter, Row
    <3>3. row' = [row EXCEPT ![m] = RowAfter(row[m], res, "hand")]
      BY <1>5 DEF HandSend
    <3> QED BY <3>1, <3>2, <3>3 DEF TypeInv
  <2>6. snap'.on => snap'.row = snap.row
    <3>1. CASE snap.on
      <4>1. \/ snap' = [snap EXCEPT !.moved = @ \union {m}, !.stale = @ \union {s}]
            \/ snap' = [snap EXCEPT !.moved = @ \union {m}, !.stale = @]
        BY <1>5, <3>1 DEF HandSend
      <4> QED BY <1>1, <3>1, <4>1
    <3>2. CASE ~snap.on
      BY <1>5, <3>2 DEF HandSend
    <3> QED BY <3>1, <3>2
  <2> QED BY <2>3, <2>4, <2>5, <2>6
<1>6. ASSUME NEW s \in Sessions, NEW dead \in BOOLEAN, Status(s, dead) PROVE Spared
  <2>1. (\A t \in Sessions : ses'[t].days = ses[t].days) /\ \A t \in Sessions : ses[t].started => ses'[t].started
    BY <1>6 DEF Status, TypeInv, Ses
  <2> QED BY <1>3, <1>6, <2>1 DEF Status
<1>7. ASSUME NEW s \in Sessions, ResumeQueue(s) PROVE Spared
  <2>1. (\A t \in Sessions : ses'[t].days = ses[t].days) /\ \A t \in Sessions : ses[t].started => ses'[t].started
    BY <1>7 DEF ResumeQueue, TypeInv, Ses
  <2> QED BY <1>3, <1>7, <2>1 DEF ResumeQueue
<1>8. CASE Kill
  BY <1>8 DEF Kill, NoSnap
<1>9. Spared
  BY <1>4, <1>5, <1>6, <1>7, <1>8 DEF Others
<1>10. snap'.on => snap.on /\ snap'.ses = snap.ses
  BY OthersLeave DEF NoSnap
<1> QED BY <1>9, <1>10

\* A turn is one message of one session.
LEMMA RecordCap ==
    ASSUME TypeInv, TypeInv', RunInv, CapInv, Record
    PROVE  CapInv'
<1> DEFINE s == SessionOf[run.msg]
           m == run.msg
           after == SessionAfter(ses[s], run.res)
<1>1. /\ m \in Msgs /\ s \in Sessions /\ s \notin run.due /\ ses[s] \in Ses /\ row[m] \in Row
      /\ run.res \in Results /\ run.due \subseteq Sessions /\ run.pc = "sending"
  BY Constants DEF Record, RunInv, TypeInv, RunType
<1>2. /\ row' = [row EXCEPT ![m] = RowAfter(row[m], run.res, "queue")]
      /\ clock' = clock /\ run' = AfterSend /\ ~snap'.on
  BY DEF Record, NoSnap
<1>3. PICK delay \in Delays : ses' = [ses EXCEPT ![s] = ScheduleNextSend(after, delay)]
  BY DEF Record
<1>4. ses'[s].days = ses[s].days /\ \A t \in Sessions \ {s} : ses'[t] = ses[t]
  <2>1. after \in Ses /\ after.days = ses[s].days
    BY <1>1, AfterRamp
  <2>2. ScheduleNextSend(after, delay).days = after.days
    <3> HIDE DEF after
    <3> QED BY <2>1 DEF ScheduleNextSend, Ses
  <2> HIDE DEF s, after
  <2> QED BY <1>1, <1>3, <2>1, <2>2 DEF TypeInv
<1>5. \A t \in Sessions : LocalTime(t)' = LocalTime(t)
  BY <1>2 DEF LocalTime
<1>6. \A n \in Msgs \ {m} : row'[n] = row[n]
  BY <1>1, <1>2 DEF TypeInv
<1>7. row'[m].by = "queue" => row'[m].state = "sent"
  <2>1. row'[m] = RowAfter(row[m], run.res, "queue")
    BY <1>1, <1>2 DEF TypeInv
  <2>2. CASE run.res = "ok"
    BY <2>1, <2>2 DEF RowAfter
  <2>3. CASE run.res \in {"fail", "bad"}
    <3>1. row[m].by # "queue"
      BY <1>1, <2>3 DEF CapInv
    <3>2. row'[m] = [row[m] EXCEPT !.state = "error"]
      BY <2>1, <2>3 DEF RowAfter
    <3> QED BY <1>1, <3>1, <3>2 DEF Row
  <2>4. CASE run.res = "skip"
    BY <1>1, <2>1, <2>4 DEF RowAfter, CapInv
  <2> QED BY <1>1, <2>2, <2>3, <2>4 DEF Results
<1>8. \A t \in Sessions : ses[t] \in Ses /\ ses'[t] \in Ses /\ ses[t].days \in Nat
  <2>1. \A t \in Sessions : ses[t] \in Ses /\ ses'[t] \in Ses
    BY DEF TypeInv
  <2> QED BY <2>1, SesFields, Constants
<1>9. Fits(row', s, ses'[s], LocalTime(s), 0)
  <2>1. Fits(row, s, ses[s], LocalTime(s), 1)
    BY <1>1 DEF CapInv, Holders
  <2> DEFINE t == LocalTime(s)
  <2> HIDE DEF s, t, m
  <2>2. Fits(row, s, ses[s], t, 1)
    BY <2>1 DEF t
  <2>3. Fits(row', s, ses'[s], t, 0)
    BY <1>1, <1>4, <1>6, <1>8, <2>2, FitsOneMore
  <2> QED BY <2>3 DEF t
<1>10. ASSUME NEW t \in Sessions \ {s}, NEW n \in {0, 1}, Fits(row, t, ses[t], LocalTime(t), n)
       PROVE  Fits(row', t, ses'[t], LocalTime(t), n)
  <2> DEFINE h == LocalTime(t)
  <2>1. \A q \in Msgs : SessionOf[q] = t => row'[q] = row[q]
    BY <1>6
  <2>2. ses'[t] = ses[t] /\ ses[t].days <= ses'[t].days
    BY <1>4, <1>8
  <2> HIDE DEF s, h, m
  <2>3. Fits(row, t, ses[t], h, n)
    BY <1>10 DEF h
  <2>4. Fits(row', t, ses'[t], h, n)
    BY <1>8, <2>1, <2>2, <2>3, FitsStill
  <2> QED BY <2>4 DEF h
<1>11. run'.pc # "sending" /\ Holders' = run.due /\ run.due \subseteq Sessions \ {s}
  <2>1. run'.pc # "sending" /\ run'.due = run.due
    BY <1>2, AfterType DEF TypeInv
  <2> QED BY <1>1, <2>1 DEF Holders
<1>12. \A t \in Holders' : Fits(row', t, ses'[t], LocalTime(t)', 1)
  BY <1>5, <1>10, <1>11 DEF CapInv, Holders
<1>13. \A t \in Sessions : Fits(row', t, ses'[t], LocalTime(t)', 0)
  <2> SUFFICES ASSUME NEW t \in Sessions PROVE Fits(row', t, ses'[t], LocalTime(t), 0)
    BY <1>5
  <2>1. CASE t = s
    BY <1>9, <2>1
  <2>2. CASE t # s
    BY <1>10, <2>2 DEF CapInv
  <2> QED BY <2>1, <2>2
<1>14. \A n \in Msgs : row'[n].by = "queue" => row'[n].state = "sent"
  BY <1>6, <1>7 DEF CapInv
<1> QED BY <1>2, <1>11, <1>12, <1>13, <1>14 DEF CapInv

\* The day of a number that sends never comes later than in an older reading.
LEMMA AgedRamp ==
    ASSUME NEW a \in [Sessions -> Ses], NEW b \in [Sessions -> Ses], NEW s \in Sessions,
           a[s].days <= b[s].days, a[s].started => b[s].started
    PROVE  /\ AgedSession(a)[s].days <= AgedSession(b)[s].days
           /\ AgedSession(a)[s].started => AgedSession(b)[s].started
           /\ b[s].days <= AgedSession(b)[s].days
<1> DEFINE day(rec) == IF LocalTime(s) = Day - 1 /\ rec.started /\ rec.days < CapDays
                       THEN rec.days + 1 ELSE rec.days
<1>1. ASSUME NEW recs \in [Sessions -> Ses]
      PROVE  /\ AgedSession(recs)[s].days = day(recs[s])
             /\ AgedSession(recs)[s].started = recs[s].started
             /\ recs[s].days \in 0 .. CapDays
  <2>1. PICK d, w : AgedSession(recs)[s] = [recs[s] EXCEPT !.next = w, !.days = d] /\ d = day(recs[s])
    BY DEF AgedSession
  <2> HIDE DEF day
  <2> QED BY <2>1 DEF Ses
<1>2. /\ AgedSession(a)[s].days = day(a[s]) /\ AgedSession(b)[s].days = day(b[s])
      /\ a[s].days \in 0 .. CapDays /\ b[s].days \in 0 .. CapDays
  BY <1>1
<1>3. AgedSession(a)[s].started => AgedSession(b)[s].started
  BY <1>1
<1>4. day(a[s]) <= day(b[s]) /\ b[s].days <= day(b[s])
  BY <1>2, Constants
<1> QED BY <1>2, <1>3, <1>4

\* Time takes rows out of the hour; midnight takes all of them out of the day.
LEMMA TickCap ==
    ASSUME TypeInv, TypeInv', RunInv, CapInv, Tick
    PROVE  CapInv'
<1>1. /\ row' = AgedRow(row) /\ ses' = AgedSession(ses)
      /\ row \in [Msgs -> Row] /\ ses \in [Sessions -> Ses]
  BY DEF Tick, TypeInv
<1>2. ASSUME NEW m \in Msgs
      PROVE  /\ row'[m].by = row[m].by /\ row'[m].state = row[m].state
             /\ row[m].age \in 0 .. Old
             /\ row'[m].age = (IF row[m].age < Old THEN row[m].age + 1 ELSE row[m].age)
  <2>1. row'[m] = (IF row[m].age < Old THEN [row[m] EXCEPT !.age = row[m].age + 1] ELSE row[m])
    BY <1>1 DEF AgedRow
  <2>2. row[m] \in Row
    BY <1>1
  <2> QED BY <2>1, <2>2 DEF Row
<1>3. Hour \in Nat /\ Day \in Nat /\ Old > Hour /\ Old >= Day /\ Old \in Nat
  BY Constants DEF Old
<1>4. ASSUME NEW s \in Sessions, NEW n \in {0, 1}, Fits(row, s, ses[s], LocalTime(s), n)
      PROVE  Fits(row', s, ses'[s], LocalTime(s)', n)
  <2> DEFINE now == LocalTime(s)
             later == LocalTime(s)'
  <2>1. now \in 0 .. Day - 1 /\ later \in {now + 1, 0}
    BY LocalTicks
  <2>2. later = 0 \/ later = now + 1
    BY <2>1
  <2>3. later < Old
    <3>1. later \in 0 .. Day - 1
      BY LocalTicks
    <3> QED BY <1>3, <3>1
  <2>4. Fits(row, s, ses[s], now, n)
    BY <1>4
  <2> HIDE DEF now, later
  <2>5. \A m \in Msgs : row'[m].age <= later => row[m].age <= now
    BY <1>2, <1>3, <2>1, <2>2, <2>3
  <2>6. \A m \in Msgs : row'[m].age <= Hour => row[m].age <= Hour
    BY <1>2, <1>3
  <2>7. ses[s] \in Ses /\ ses'[s] \in Ses /\ ses[s].days <= ses'[s].days
    <3>1. ses[s] \in Ses /\ ses'[s] \in Ses
      BY DEF TypeInv
    <3>2. ses[s].days <= ses[s].days
      BY <3>1, SesFields, Constants
    <3> QED BY <1>1, <3>1, <3>2, AgedRamp
  <2>8. Fits(row', s, ses'[s], later, n)
    BY <1>2, <2>4, <2>5, <2>6, <2>7, FitsStill
  <2> QED BY <2>8 DEF later
<1>5. \A m \in Msgs : row'[m].by = "queue" => row'[m].state = "sent"
  BY <1>2 DEF CapInv
<1>6. /\ run'.pc = run.pc /\ run'.due = run.due /\ run'.msg = run.msg /\ run'.res = run.res
  BY DEF Tick, TypeInv, RunType
<1>7. Holders' = Holders /\ Holders \subseteq Sessions
  BY <1>6 DEF Holders, TypeInv, RunType
<1>8. \A s \in Holders' : Fits(row', s, ses'[s], LocalTime(s)', 1)
  BY <1>4, <1>7 DEF CapInv
<1>9. \A s \in Sessions : Fits(row', s, ses'[s], LocalTime(s)', 0)
  BY <1>4 DEF CapInv
<1>10. run'.pc = "sending" /\ run'.res # "skip" => row'[run'.msg].by # "queue"
  <2> SUFFICES ASSUME run.pc = "sending", run.res # "skip" PROVE row'[run.msg].by # "queue"
    BY <1>6
  <2>1. run.msg \in Msgs
    BY DEF RunInv
  <2> QED BY <1>2, <2>1 DEF CapInv
<1>11. ASSUME snap'.on
       PROVE  /\ snap.on /\ snap \in SnapType
              /\ snap'.row = AgedRow(snap.row) /\ snap'.ses = AgedSession(snap.ses)
  <2>1. CASE snap.on
    <3>1. snap' = [snap EXCEPT !.row = AgedRow(snap.row), !.ses = AgedSession(snap.ses)]
      BY <2>1 DEF Tick
    <3>2. snap \in SnapType
      BY <2>1, SnapOn DEF TypeInv
    <3> QED BY <2>1, <3>1, <3>2 DEF SnapType
  <2>2. CASE ~snap.on
    BY <1>11, <2>2 DEF Tick
  <2> QED BY <2>1, <2>2
<1>12. snap'.on => \A m \in Msgs : row'[m].by = "queue" => snap'.row[m] = row'[m]
  <2> SUFFICES ASSUME snap'.on, NEW m \in Msgs, row'[m].by = "queue" PROVE snap'.row[m] = row'[m]
    OBVIOUS
  <2>1. snap.row[m] = row[m]
    BY <1>2, <1>11 DEF CapInv
  <2>2. AgedRow(snap.row)[m] = AgedRow(row)[m]
    BY <2>1 DEF AgedRow
  <2> QED BY <1>1, <1>11, <2>2
<1>13. ASSUME snap'.on, NEW s \in Sessions
       PROVE  snap'.ses[s].days <= ses'[s].days /\ (snap'.ses[s].started => ses'[s].started)
  <2>1. snap.ses \in [Sessions -> Ses]
    BY <1>11, <1>13 DEF SnapType
  <2>2. snap.ses[s].days <= ses[s].days /\ (snap.ses[s].started => ses[s].started)
    BY <1>11, <1>13 DEF CapInv
  <2>3. /\ AgedSession(snap.ses)[s].days <= AgedSession(ses)[s].days
        /\ AgedSession(snap.ses)[s].started => AgedSession(ses)[s].started
    BY <1>1, <2>1, <2>2, AgedRamp
  <2> QED BY <1>1, <1>11, <1>13, <2>3
<1> QED BY <1>5, <1>8, <1>9, <1>10, <1>12, <1>13 DEF CapInv

LEMMA CapStep ==
    ASSUME TypeInv, TypeInv', RunInv, CapInv, [Next]_vars
    PROVE  CapInv'
<1>1. CASE StartRun \/ EndRun \/ Sleep \/ Wake
  <2>1. /\ UNCHANGED <<clock, row, ses>> /\ (snap' = View \/ snap' = NoSnap \/ snap' = snap)
    BY <1>1 DEF StartRun, EndRun, Sleep, Wake
  <2>2. run'.pc # "sending" /\ run'.due \subseteq run.due
    <3>1. CASE StartRun
      <4> DEFINE first == [s \in Sessions |-> {m \in Oldest({n \in Msgs : View.row[n].state = "outgoing"}, Limit) : SessionOf[m] = s}]
      <4>1. run' = [NoRun EXCEPT !.pc = "round", !.left = Budget, !.barred = optout, !.queue = first]
        BY <3>1 DEF StartRun
      <4> HIDE DEF first
      <4> QED BY <4>1 DEF NoRun
    <3>2. CASE EndRun
      BY <3>2 DEF EndRun, NoRun
    <3>3. CASE Sleep
      BY <3>3 DEF Sleep, TypeInv, RunType
    <3>4. CASE Wake
      BY <3>4 DEF Wake, TypeInv, RunType
    <3> QED BY <1>1, <3>1, <3>2, <3>3, <3>4
  <2>3. \A s \in Holders' : Fits(row, s, ses[s], LocalTime(s), 1)
    BY <2>2 DEF Holders, CapInv
  <2>4. snap'.on => snap' = View \/ (snap.on /\ snap'.row = snap.row /\ snap'.ses = snap.ses)
    BY <2>1 DEF NoSnap
  <2> QED BY <2>1, <2>2, <2>3, <2>4, CapKept
<1>2. CASE TakeTurns
  <2>1. /\ run'.pc = "turns" /\ run'.due = Due(View) /\ snap' = View /\ UNCHANGED <<clock, row, ses>>
    BY <1>2, TakerTurns DEF TakeTurns
  <2>2. \A s \in Holders' : s \in Sessions /\ ~CapsSpent(View, s)
    BY <2>1 DEF Holders, Due, Takers, Closed
  <2>3. \A s \in Holders' : Fits(row, s, ses[s], LocalTime(s), 1)
    BY <2>2, ViewFits
  <2> QED BY <2>1, <2>3, CapKept
<1>3. ASSUME NEW m \in Msgs, Send(m)
      PROVE  CapInv'
  <2>1. PICK res \in Results :
           /\ Turn(m) /\ Pop(m, res) /\ snap' = View /\ UNCHANGED <<clock, row, ses>>
           /\ res # "skip" => View.row[m].state \in {"outgoing", "error"}
    BY <1>3 DEF Send, SendNothing, Post, Results
  <2>2. /\ run'.pc = "sending" /\ run'.msg = m /\ run'.res = res
        /\ run'.due = run.due \ {SessionOf[m]} /\ SessionOf[m] \in run.due
    BY <2>1, PopType DEF Turn, TypeInv
  <2>3. \A s \in Holders' : Fits(row, s, ses[s], LocalTime(s), 1)
    BY <2>2 DEF Holders, CapInv
  <2>4. res # "skip" => row[m].by # "queue"
    BY <2>1, CapView
  <2> QED BY <2>1, <2>2, <2>3, <2>4, CapKept
<1>4. CASE Conflict
  <2>1. run' = AfterSend /\ UNCHANGED <<clock, row, ses, snap>>
    BY <1>4 DEF Conflict
  <2>2. run'.pc # "sending" /\ run'.due = run.due
    BY <2>1, AfterType DEF TypeInv
  <2>3. \A s \in Holders' : Fits(row, s, ses[s], LocalTime(s), 1)
    BY <2>2 DEF Holders, CapInv
  <2> QED BY <2>1, <2>2, <2>3, CapKept
<1>5. CASE Others
  <2>1. Holders' \subseteq Holders
    <3>1. CASE run' = run
      BY <3>1 DEF Holders
    <3>2. CASE run' = NoRun
      BY <3>2 DEF Holders, NoRun
    <3> QED BY <1>5, <3>1, <3>2, OthersSpare
  <2>2. \A s \in Holders' : Fits(row, s, ses[s], LocalTime(s), 1)
    BY <2>1 DEF CapInv
  <2>3. run'.pc = "sending" /\ run'.res # "skip" => row'[run'.msg].by # "queue"
    <3>1. CASE run' = run
      BY <1>5, <3>1, OthersSpare DEF CapInv, RunInv
    <3>2. CASE run' = NoRun
      BY <3>2 DEF NoRun
    <3> QED BY <1>5, <3>1, <3>2, OthersSpare
  <2> QED BY <1>5, <2>2, <2>3, OthersSpare, CapKept
<1>6. CASE UNCHANGED vars
  <2>1. UNCHANGED <<clock, row, ses, snap, run>>
    BY <1>6 DEF vars
  <2>2. Holders' = Holders
    BY <2>1 DEF Holders
  <2> QED BY <2>1, <2>2, CapKept DEF CapInv
<1> QED BY <1>1, <1>2, <1>3, <1>4, <1>5, <1>6, RecordCap, TickCap DEF Next, Cron

LEMMA CapInit == Init => CapInv
<1> SUFFICES ASSUME Init PROVE CapInv
  OBVIOUS
<1>1. \A s \in Sessions, age \in Nat : Sent(row, s, age) = 0
  <2> SUFFICES ASSUME NEW s \in Sessions, NEW age \in Nat PROVE Sent(row, s, age) = 0
    OBVIOUS
  <2>1. {m \in Msgs : SessionOf[m] = s /\ row[m].by = "queue" /\ row[m].age <= age} = {}
    BY DEF Init
  <2> QED BY <2>1, FS_EmptySet DEF Sent
<1>2. \A s \in Sessions : LocalTime(s) \in Nat /\ ses[s] \in Ses
  <2>1. TypeInv
    BY TypeInit
  <2> QED BY <2>1, QueueAssumption DEF TypeInv, LocalTime
<1>3. \A s \in Sessions : Fits(row, s, ses[s], LocalTime(s), 0)
  <2> SUFFICES ASSUME NEW s \in Sessions, DailyCap(ses[s]) # 0
               PROVE  /\ Sent(row, s, LocalTime(s)) + 0 <= DailyCap(ses[s])
                      /\ HourlyCap(ses[s]) # 0 => Sent(row, s, Hour) + 0 <= HourlyCap(ses[s])
    BY DEF Fits
  <2>1. Sent(row, s, LocalTime(s)) = 0 /\ Sent(row, s, Hour) = 0
    BY <1>1, <1>2, Constants
  <2>2. ses[s] \in Ses /\ ses[s].days <= ses[s].days
    BY <1>2, SesFields, Constants
  <2>3. DailyCap(ses[s]) \in Nat /\ HourlyCap(ses[s]) \in Nat
    BY <2>2, CapsGrow, HoursGrow
  <2> QED BY <2>1, <2>3
<1>4. run.due = {} /\ run.pc = "idle" /\ ~snap.on /\ \A m \in Msgs : row[m].by # "queue"
  BY DEF Init, NoRun, NoSnap
<1> QED BY <1>3, <1>4 DEF CapInv, Holders

\* However many numbers, messages and people's sends there are, over midnights,
\* kills and commits that come between the count and its use (_daily_cap and
\* _hourly_cap are read before the turns): what the queue has recorded as sent
\* stays within the caps.
THEOREM CapsAreKept == Spec => []WithinCaps
<1>1. TypeInv /\ CapInv => WithinCaps
  <2> SUFFICES ASSUME TypeInv, CapInv, NEW s \in Sessions, DailyCap(ses[s]) # 0
               PROVE  /\ QueueSent(s, LocalTime(s)) <= DailyCap(ses[s])
                      /\ HourlyCap(ses[s]) # 0 => QueueSent(s, Hour) <= HourlyCap(ses[s])
    BY DEF WithinCaps
  <2>1. \A age : QueueSent(s, age) = Sent(row, s, age)
    BY DEF QueueSent, Sent
  <2>2. \A age : Sent(row, s, age) \in Nat
    BY SentLess
  <2>3. Fits(row, s, ses[s], LocalTime(s), 0)
    BY DEF CapInv
  <2> QED BY <2>1, <2>2, <2>3 DEF Fits
<1>2. Init => CapInv
  BY CapInit
<1>3. TypeInv /\ TypeInv' /\ RunInv /\ CapInv /\ [Next]_vars => CapInv'
  BY CapStep
<1> QED BY <1>1, <1>2, <1>3, Invariant, PTL DEF Spec

=============================================================================
