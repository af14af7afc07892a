---------------------------- MODULE OutgoingQueue ----------------------------
(***************************************************************************)
(* The outgoing queue of the Odoo side: the cron that drains it session by *)
(* session (cron_process_outgoing), the pacing, caps, sending hours and    *)
(* failure pause of a session, and what may happen beside a run: a person  *)
(* sends from the form, a status event or the refresh cron writes the      *)
(* session's row, a contact opts out, the worker is killed.                *)
(*                                                                         *)
(* A run is one transaction after another: it works on a snapshot from its *)
(* first read until it commits, which it does after every send it could    *)
(* record.  Time is relative: a date is kept as its age or as the wait     *)
(* until it, so that it passes for ever in finitely many states.  Below    *)
(* the POST lies SendPipeline; here a key is sent at most once.            *)
(***************************************************************************)
EXTENDS Naturals, FiniteSets

CONSTANTS Sessions,
          MaxMsgs,     \* messages are 1 .. MaxMsgs, in the order of create_date
          SessionOf,   \* the session of a message; its contact is its own
          Zone,        \* Zone[s]: how far the clock of s is ahead
          Day, Hour,   \* lengths, in ticks
          Spread,      \* a derived hourly cap is the Spread-th part of a day's
          Limit,       \* CRON_MAX_MESSAGES
          Budget,      \* CRON_BUDGET_SECONDS
          MinDelay, MaxDelay,   \* send_delay_min, send_delay_max
          Opens, Closes,               \* sending hours; equal: no restriction
          CapDays,     \* bound: days after which the ramp has reached CapMax
          Ramp,        \* Ramp[d]: ceil(daily_cap_base * daily_cap_growth ** d)
          CapMax,      \* where the ramp ends; 0 is no cap
          HourCap,     \* 0 derives it
          PauseAfter,  \* failure_pause_threshold; 0 never pauses
          MaxEvents    \* bound: what happens beside the runs

Msgs == 1 .. MaxMsgs
Less(n) == IF n = 0 THEN 0 ELSE n - 1
Delays == MinDelay .. MaxDelay                 \* what random.uniform may draw
Old == (IF Day > Hour THEN Day ELSE Hour + 1)   \* an age that matters no more

ASSUME QueueAssumption ==
    /\ MaxMsgs \in Nat /\ SessionOf \in [Msgs -> Sessions]
    /\ Day \in Nat \ {0} /\ Hour \in Nat /\ Spread \in Nat \ {0}
    /\ Zone \in [Sessions -> 0 .. Day - 1]
    /\ Limit \in Nat \ {0}
    /\ Budget \in Nat /\ MinDelay \in Nat /\ MaxDelay \in Nat /\ MinDelay <= MaxDelay
    /\ Opens \in 0 .. Day - 1 /\ Closes \in 0 .. Day - 1
    /\ CapMax \in Nat /\ CapDays \in Nat /\ Ramp \in [0 .. CapDays -> Nat]
    /\ \A d, e \in 0 .. CapDays : d <= e =>     \* _check_caps: the growth is 1.0 at least
          Ramp[d] <= Ramp[e] /\ (Ramp[d] = 0 => Ramp[e] = 0)
    /\ HourCap \in Nat /\ PauseAfter \in Nat /\ MaxEvents \in Nat

VARIABLES clock,   \* the time of day, 0 .. Day - 1, in UTC
          row,     \* row[m]: the message's committed record
          ses,     \* ses[s]: the session's committed record
          optout,  \* messages whose contact may not be written to
          run,     \* the cron's run
          snap,    \* the run's snapshot, when its transaction has read anything
          wire,    \* messages that have reached WhatsApp
          last,    \* last[s]: the queue's last message from s to reach WhatsApp
          streak,  \* streak[s]: failures the queue recorded in a row
          events   \* what has happened beside the runs, a count

vars == <<clock, row, ses, optout, run, snap, wire, last, streak, events>>

NoRun == [pc |-> "idle", left |-> 0, timer |-> 0, queue |-> [s \in Sessions |-> {}],
          due |-> {}, msg |-> 0, res |-> "skip", barred |-> {}]
NoSnap == [on |-> FALSE]

----------------------------------------------------------------------------
(* What the cron sees of a session *)

View == IF snap.on THEN snap ELSE [on |-> TRUE, row |-> row, ses |-> ses, optout |-> optout,
                                   stale |-> {}, moved |-> {}]

LocalTime(s) == (clock + Zone[s]) % Day

\* Mutation: a window past midnight never opens.
WindowSameDay(s) == Opens = Closes \/ (Opens <= LocalTime(s) /\ LocalTime(s) < Closes)

WithinSendWindow(s) ==
    LET h == LocalTime(s) IN
    \/ Opens = Closes
    \/ Opens < Closes /\ Opens <= h /\ h < Closes
    \/ Opens > Closes /\ (h >= Opens \/ h < Closes)

DailyCap(rec) ==
    IF Ramp[rec.days] < CapMax THEN Ramp[rec.days] ELSE CapMax

HourlyCap(rec) ==
    LET daily == DailyCap(rec)
    IN  IF HourCap # 0 THEN HourCap ELSE (daily + Spread - 1) \div Spread

\* A query over the rows, by whomever they were sent.
SentSince(rows, s, age) ==
    Cardinality({m \in Msgs : SessionOf[m] = s /\ rows[m].state = "sent" /\ rows[m].age <= age})

\* Mutation: the day's count is compared only after the cap was reached.
CapsLate(v, s) ==
    LET daily == DailyCap(v.ses[s])
    IN  /\ daily # 0
        /\ \/ SentSince(v.row, s, LocalTime(s)) > daily
           \/ HourlyCap(v.ses[s]) # 0 /\ SentSince(v.row, s, Hour) > HourlyCap(v.ses[s])

CapsSpent(v, s) ==
    LET daily == DailyCap(v.ses[s])
    IN  /\ daily # 0
        /\ \/ SentSince(v.row, s, LocalTime(s)) >= daily
           \/ HourlyCap(v.ses[s]) # 0 /\ SentSince(v.row, s, Hour) >= HourlyCap(v.ses[s])

\* _seconds_until_sendable answers None.
Closed(v, s) == v.ses[s].dead \/ v.ses[s].paused \/ ~WithinSendWindow(s) \/ CapsSpent(v, s)

----------------------------------------------------------------------------
(* The run *)

Idle == run.pc = "idle"

Oldest(S, n) == {m \in S : Cardinality({q \in S : q < m}) < n}

\* The search, which opens the transaction: the oldest messages of all sessions
\* together, and one queue per session of those it returned.
StartRun ==
    LET v == View
        waiting == {m \in Msgs : v.row[m].state = "outgoing"}
        found   == Oldest(waiting, Limit)
    IN
    /\ Idle /\ waiting # {}
    /\ snap' = v
    /\ run' = [NoRun EXCEPT !.pc = "round", !.left = Budget, !.barred = optout,
                            !.queue = [s \in Sessions |-> {m \in found : SessionOf[m] = s}]]
    /\ UNCHANGED <<clock, row, ses, optout, wire, last, streak, events>>

\* The sessions that still have messages and may send today.
Takers(v) == {s \in Sessions : run.queue[s] # {} /\ ~Closed(v, s)}
Due(v)    == {s \in Takers(v) : v.ses[s].next = 0}

\* The budget is spent, nobody can send today, or not before the run must end.
EndRun ==
    /\ run.pc = "round"
    /\ \A s \in Takers(View) : View.ses[s].next >= run.left
    /\ run' = NoRun /\ snap' = NoSnap
    /\ UNCHANGED <<clock, row, ses, optout, wire, last, streak, events>>

Keep(S) == [s \in Sessions |-> IF s \in S THEN run.queue[s] ELSE {}]

\* Nobody's window is open yet; the transaction is left open meanwhile.
Sleep ==
    LET v == View IN
    /\ run.pc = "round" /\ Due(v) = {}
    /\ \E s \in Takers(v) :
          /\ v.ses[s].next < run.left /\ \A t \in Takers(v) : v.ses[s].next <= v.ses[t].next
          /\ run' = [run EXCEPT !.pc = "sleep", !.timer = v.ses[s].next, !.queue = Keep(Takers(v))]
    /\ snap' = v
    /\ UNCHANGED <<clock, row, ses, optout, wire, last, streak, events>>

Wake ==
    /\ run.pc = "sleep" /\ run.timer = 0
    /\ run' = [run EXCEPT !.pc = "round"]
    /\ UNCHANGED <<clock, row, ses, optout, snap, wire, last, streak, events>>

TakeTurns ==
    LET v == View IN
    /\ run.pc = "round" /\ run.left > 0
    /\ Due(v) # {}
    /\ run' = [run EXCEPT !.pc = "turns", !.due = Due(v), !.queue = Keep(Takers(v))]
    /\ snap' = v
    /\ UNCHANGED <<clock, row, ses, optout, wire, last, streak, events>>

\* The oldest message of a session that has its turn.
Turn(m) == LET queue == run.queue[SessionOf[m]] IN
           /\ run.pc = "turns" /\ SessionOf[m] \in run.due
           /\ m \in queue /\ \A q \in queue : m <= q

\* Mutation: a session keeps its turn until its messages are gone.
PopKeepsTurn(m, res) ==
    run' = [run EXCEPT !.pc = "sending", !.msg = m, !.res = res, !.queue[SessionOf[m]] = @ \ {m}]

Pop(m, res) ==
    run' = [run EXCEPT !.pc = "sending", !.msg = m, !.res = res,
                       !.due = @ \ {SessionOf[m]}, !.queue[SessionOf[m]] = @ \ {m}]

\* action_send finds nothing to send, a contact not to be written to, or a row
\* whose payload cannot be built.
SendNothing(m) ==
    LET v == View IN
    /\ Turn(m)
    /\ \/ v.row[m].state \notin {"outgoing", "error"} /\ Pop(m, "skip")
       \/ v.row[m].state \in {"outgoing", "error"} /\ Pop(m, "bad")
    /\ snap' = v
    /\ UNCHANGED <<clock, row, ses, optout, wire, last, streak, events>>

\* Mutation: an opt-out stops only what was tried before.
OptedOutLate(v, m) == m \in v.optout /\ v.row[m].state = "error"

\* _optout_block_reason, as the transaction sees it.
OptedOut(v, m) == m \in v.optout

\* The POST: it reaches WhatsApp or not, and is answered "ok" only if it did.
\* A message that had reached it before is not sent again, but answered.
Post(m, reached, res) ==
    LET v == View IN
    /\ Turn(m)
    /\ v.row[m].state \in {"outgoing", "error"} /\ ~OptedOut(v, m)
    /\ res = "ok" => reached
    /\ Pop(m, res)
    /\ snap' = v
    /\ wire' = IF reached THEN wire \union {m} ELSE wire
    /\ last' = IF reached /\ m \notin wire THEN [last EXCEPT ![SessionOf[m]] = [age |-> 0, kept |-> FALSE]] ELSE last
    /\ UNCHANGED <<clock, row, ses, optout, streak, events>>

----------------------------------------------------------------------------
(* What a send leaves on the rows *)

\* Mutation: the streak is never closed by the threshold.
NoteFailureNoPause(rec) == [rec EXCEPT !.fails = IF @ < PauseAfter THEN @ + 1 ELSE @]

\* _note_send_failure; beyond the threshold the count changes nothing.
NoteFailure(rec) ==
    LET fails == IF rec.fails < PauseAfter THEN rec.fails + 1 ELSE rec.fails
    IN  [rec EXCEPT !.fails = fails,
                    !.paused = @ \/ (PauseAfter # 0 /\ fails >= PauseAfter)]

\* _note_send: the ramp starts with the first message.
NoteSend(rec) == [rec EXCEPT !.started = TRUE, !.fails = 0]

SessionAfter(rec, res) ==
    CASE res = "ok"   -> NoteSend(rec)
      [] res = "fail" -> NoteFailure(rec)
      [] OTHER        -> rec

RowAfter(rec, res, by) ==
    CASE res = "ok" -> [state |-> "sent", age |-> 0, by |-> by]
      [] res \in {"fail", "bad"} -> [rec EXCEPT !.state = "error"]
      [] OTHER      -> rec

Streak(s, res) ==
    CASE res = "ok"   -> [streak EXCEPT ![s] = 0]
      [] res = "fail" -> [streak EXCEPT ![s] = @ + 1]
      [] OTHER        -> streak

AfterSend == IF run.due = {} THEN [run EXCEPT !.pc = "round"] ELSE [run EXCEPT !.pc = "turns"]

\* No row the send writes has been written by others since the snapshot.
Writable == /\ SessionOf[run.msg] \notin snap.stale
            /\ run.msg \notin snap.moved \/ run.res = "skip"

\* Mutation: the tick of the send counts.
ScheduleEarly(rec, delay) == [rec EXCEPT !.next = Less(delay)]

ScheduleNextSend(rec, delay) == [rec EXCEPT !.next = delay]

\* The savepoint ends, the window is closed for a random spell, and the send is
\* committed; the next read opens a new snapshot.
Record ==
    LET m == run.msg  s == SessionOf[run.msg] IN
    /\ run.pc = "sending"
    /\ Writable
    /\ row' = [row EXCEPT ![m] = RowAfter(@, run.res, "queue")]
    /\ \E delay \in Delays :
          ses' = [ses EXCEPT ![s] = ScheduleNextSend(SessionAfter(@, run.res), delay)]
    /\ streak' = Streak(s, run.res)
    /\ last' = [last EXCEPT ![s].kept = TRUE]
    /\ run' = AfterSend /\ snap' = NoSnap
    /\ UNCHANGED <<clock, optout, wire, events>>

\* Somebody else has written the session's row or the message's since the
\* snapshot: the savepoint is rolled back, with the pacing, and nothing is
\* committed, so the snapshot stays.
Conflict ==
    /\ run.pc = "sending" /\ ~Writable
    /\ run' = AfterSend
    /\ UNCHANGED <<clock, row, ses, optout, snap, wire, last, streak, events>>

----------------------------------------------------------------------------
(* Beside the run *)

MarkStale(s) == IF snap.on THEN [snap EXCEPT !.stale = @ \union {s}] ELSE snap
MarkMoved(m) == IF snap.on THEN [snap EXCEPT !.moved = @ \union {m}] ELSE snap

\* The Send button: no pacing and no cap, and an opt-out raises.  A session row
\* is written only when the send changes it.
HandSend(m, reached, res) ==
    LET s == SessionOf[m]  rec == SessionAfter(ses[SessionOf[m]], res) IN
    /\ row[m].state \in {"outgoing", "error"} /\ m \notin optout
    /\ res = "ok" => reached
    /\ row' = [row EXCEPT ![m] = RowAfter(@, res, "hand")]
    /\ ses' = [ses EXCEPT ![s] = rec]
    /\ wire' = IF reached THEN wire \union {m} ELSE wire
    /\ streak' = IF res = "ok" THEN [streak EXCEPT ![s] = 0] ELSE streak
    /\ snap' = IF ~snap.on THEN snap
               ELSE [snap EXCEPT !.moved = @ \union {m},
                                 !.stale = IF rec # ses[s] \/ res = "fail" THEN @ \union {s} ELSE @]
    /\ UNCHANGED <<clock, optout, run, last>>

\* An opt-out keyword, or the flag set by hand.
OptOut(m) ==
    /\ optout' = optout \union {m} /\ m \notin optout
    /\ UNCHANGED <<clock, row, ses, run, snap, wire, last, streak>>

\* A status event or a refresh writes the session's row.
Status(s, dead) ==
    /\ ses[s].dead # dead
    /\ ses' = [ses EXCEPT ![s].dead = dead]
    /\ snap' = MarkStale(s)
    /\ UNCHANGED <<clock, row, optout, run, wire, last, streak>>

ResumeQueue(s) ==
    /\ ses[s].paused
    /\ ses' = [ses EXCEPT ![s].paused = FALSE, ![s].fails = 0]
    /\ streak' = [streak EXCEPT ![s] = 0]
    /\ snap' = MarkStale(s)
    /\ UNCHANGED <<clock, row, optout, run, wire, last>>

\* The worker is killed: what it has not committed is lost.
Kill ==
    /\ ~Idle
    /\ run' = NoRun /\ snap' = NoSnap
    /\ UNCHANGED <<clock, row, ses, optout, wire, last, streak>>

----------------------------------------------------------------------------
(* Time *)

AgedRow(rows) == [m \in Msgs |-> IF rows[m].age < Old THEN [rows[m] EXCEPT !.age = @ + 1] ELSE rows[m]]

\* A tick of s's own midnight is a new day of its ramp.
AgedSession(recs) ==
    [s \in Sessions |->
        [recs[s] EXCEPT !.next = Less(@),
                        !.days = IF LocalTime(s) = Day - 1 /\ recs[s].started /\ @ < CapDays
                                 THEN @ + 1 ELSE @]]

\* The cron's own computing takes no time: time passes between runs, in a POST
\* and in a sleep, which ends on time.
Tick ==
    /\ run.pc \in {"idle", "sending"} \/ (run.pc = "sleep" /\ run.timer > 0)
    /\ clock' = (clock + 1) % Day
    /\ row' = AgedRow(row) /\ ses' = AgedSession(ses)
    /\ snap' = IF snap.on THEN [snap EXCEPT !.row = AgedRow(@), !.ses = AgedSession(@)] ELSE snap
    /\ run' = [run EXCEPT !.left = Less(@), !.timer = Less(@)]
    /\ last' = [s \in Sessions |-> IF last[s].age < MaxDelay THEN [last[s] EXCEPT !.age = @ + 1] ELSE last[s]]
    /\ UNCHANGED <<optout, wire, streak, events>>

----------------------------------------------------------------------------
Init ==
    /\ clock = 0
    /\ row = [m \in Msgs |-> [state |-> "outgoing", age |-> Old, by |-> "nobody"]]
    /\ ses = [s \in Sessions |-> [next |-> 0, fails |-> 0, paused |-> FALSE, dead |-> FALSE,
                                  started |-> FALSE, days |-> 0]]
    /\ optout = {} /\ run = NoRun /\ snap = NoSnap
    /\ wire = {}
    /\ last = [s \in Sessions |-> [age |-> MaxDelay, kept |-> TRUE]]
    /\ streak = [s \in Sessions |-> 0]
    /\ events = 0

Send(m) ==
    \/ SendNothing(m)
    \/ \E reached \in BOOLEAN, res \in {"ok", "fail"} : Post(m, reached, res)

Cron == StartRun \/ EndRun \/ Sleep \/ Wake \/ TakeTurns \/ Record \/ Conflict
        \/ \E m \in Msgs : Send(m)

Others ==
    /\ events < MaxEvents /\ events' = events + 1
    /\ \/ \E m \in Msgs : OptOut(m)
       \/ \E m \in Msgs, reached \in BOOLEAN, res \in {"ok", "fail"} : HandSend(m, reached, res)
       \/ \E s \in Sessions, dead \in BOOLEAN : Status(s, dead)
       \/ \E s \in Sessions : ResumeQueue(s)
       \/ Kill

Next == Cron \/ Others \/ Tick

Ready(s) == /\ ~Closed(View, s) /\ ses[s].next = 0
            /\ \E m \in Msgs : SessionOf[m] = s /\ row[m].state = "outgoing"

\* Time passes, a run goes on, and one starts every minute, which is more often
\* than a session's hours, caps and pacing open and close; nobody else is
\* obliged to anything.
Fairness ==
    /\ WF_vars(Cron) /\ SF_vars(Tick)
    /\ \A s \in Sessions : SF_vars(StartRun /\ Ready(s))

Spec == Init /\ [][Next]_vars /\ Fairness

----------------------------------------------------------------------------
(* Properties *)

Row == [state : {"outgoing", "sent", "error"}, age : 0 .. Old,
        by : {"nobody", "queue", "hand"}]
Ses == [next : 0 .. MaxDelay, fails : 0 .. PauseAfter, paused : BOOLEAN, dead : BOOLEAN,
        started : BOOLEAN, days : 0 .. CapDays]
SnapType == [on : {TRUE}, row : [Msgs -> Row], ses : [Sessions -> Ses], optout : SUBSET Msgs,
             stale : SUBSET Sessions, moved : SUBSET Msgs]

\* Every variable holds what it should; a session's queue holds its messages,
\* and a run that is over holds nothing.
TypeOK ==
    /\ clock \in 0 .. Day - 1
    /\ row \in [Msgs -> Row] /\ ses \in [Sessions -> Ses]
    /\ optout \in SUBSET Msgs /\ wire \in SUBSET Msgs
    /\ run.pc \in {"idle", "round", "sleep", "turns", "sending"}
    /\ run.left \in 0 .. Budget /\ run.timer \in 0 .. MaxDelay
    /\ run.res \in {"skip", "bad", "ok", "fail"}
    /\ run.due \in SUBSET Sessions /\ run.msg \in 0 .. MaxMsgs
    /\ \A s \in Sessions : \A m \in run.queue[s] : m \in Msgs /\ SessionOf[m] = s
    /\ \A s \in run.due : run.queue[s] # {}
    /\ run.barred \in SUBSET Msgs
    /\ Idle => run = NoRun /\ snap = NoSnap
    /\ snap = NoSnap \/ snap \in SnapType
    /\ last \in [Sessions -> [age : 0 .. MaxDelay, kept : BOOLEAN]]
    /\ streak \in [Sessions -> Nat] /\ events \in 0 .. MaxEvents

QueueSent(s, age) ==
    Cardinality({m \in Msgs : SessionOf[m] = s /\ row[m].by = "queue" /\ row[m].age <= age})

\* What the queue recorded as sent stays within the session's allowance of its
\* own day, and within the hourly one in any hour, whatever people send beside
\* it: the counts are read before the turns and used after, over midnights and
\* commits of other sessions' sends.
WithinCaps ==
    \A s \in Sessions : DailyCap(ses[s]) # 0 =>
        /\ QueueSent(s, LocalTime(s)) <= DailyCap(ses[s])
        /\ HourlyCap(ses[s]) # 0 => QueueSent(s, Hour) <= HourlyCap(ses[s])

\* The queue's POST of a message that has not reached WhatsApp before.
QueueReaches(m) == run' # run /\ m \notin wire /\ m \in wire'

\* A send that was recorded closes the window: whatever the queue sends next from
\* that number, in this run, after a kill or in a later one, is MinDelay later.
PacedUnlessLost ==
    [][\A m \in Msgs : QueueReaches(m) /\ last[SessionOf[m]].kept
            => last[SessionOf[m]].age >= MinDelay]_vars

\* The documented promise (whatsmeow_message.py:651): each session may only send
\* once its own window has opened.
PacedApart ==
    [][\A m \in Msgs : QueueReaches(m) => last[SessionOf[m]].age >= MinDelay]_vars

\* A contact who had opted out before the run began is sent nothing by it; one
\* who opts out during the run may be, since the snapshot does not show it.
OptOutBeforeRun ==
    [][\A m \in Msgs : QueueReaches(m) => m \notin run.barred]_vars

\* The queue never records more failures in a row from one number than pause it,
\* though people's own sends count and reset the same failures.
FailuresPause == PauseAfter # 0 => \A s \in Sessions : streak[s] <= PauseAfter

Stuck(s)   == ses[s].dead \/ ses[s].paused
Waiting(m) == row[m].state = "outgoing"

\* Messages that are older than m and that no run can send.
StuckAhead(m) == {q \in Msgs : q < m /\ Waiting(q) /\ Stuck(SessionOf[q])}

\* A message of a number that stays usable does not wait for ever, whatever
\* backlog, closed hours and spent caps other numbers have, as long as the rows
\* of logged-out and paused numbers leave it a place in the run's one search.
QueueDrains ==
    \A m \in Msgs :
        <>[](~Stuck(SessionOf[m]) /\ Cardinality(StuckAhead(m)) < Limit)
            => (Waiting(m) ~> ~Waiting(m))
=============================================================================
