----------------------------- MODULE NumberChecks -----------------------------
(***************************************************************************)
(* Which numbers are on WhatsApp: the cron that asks before the queue      *)
(* sends (cron_check_numbers, _check_numbers), the gateway's cache and     *)
(* hourly budget of lookups (checkCache, handleCheck), the answers kept on *)
(* contacts, and the sends they block (_optout_block_reason).              *)
(*                                                                         *)
(* A pass is one transaction per session: it works on what it read when it *)
(* began, and contacts others have written since cannot be written by it.  *)
(* Time is relative, in ticks of which a pass takes none.                  *)
(***************************************************************************)
EXTENDS Naturals, FiniteSets

CONSTANTS Sessions, Contacts, Numbers,
          Silent,      \* numbers WhatsApp gives no answer about
          MaxMsgs,     \* messages are 1 .. MaxMsgs, in the order of create_date
          SessionOf, ContactOf,
          AddressOf,   \* the number a message was addressed to, or NoNumber
          NumberAtFirst,       \* a contact's number
          NoNumber,
          TTL,         \* REGISTRATION_TTL_DAYS
          CheckTTL,    \* WMG_CHECK_TTL_DAYS
          Hour, PerHour,
          Limit,       \* CRON_MAX_MESSAGES
          AskLimit,    \* CHECK_CRON_LIMIT
          BatchSize,   \* CHECK_BATCH_SIZE
          MaxEvents    \* bound: what happens beside the passes

Msgs == 1 .. MaxMsgs
Old  == TTL + CheckTTL + 1    \* an age that matters no more

ASSUME ChecksAssumption ==
    /\ NoNumber \notin Numbers /\ Silent \subseteq Numbers
    /\ MaxMsgs \in Nat /\ SessionOf \in [Msgs -> Sessions] /\ ContactOf \in [Msgs -> Contacts]
    /\ AddressOf \in [Msgs -> Numbers \union {NoNumber}]
    /\ NumberAtFirst \in [Contacts -> Numbers \union {NoNumber}]
    /\ TTL \in Nat /\ CheckTTL \in Nat /\ Hour \in Nat \ {0} /\ PerHour \in Nat
    /\ Limit \in Nat \ {0} /\ AskLimit \in Nat \ {0} /\ BatchSize \in Nat \ {0}
    /\ MaxEvents \in Nat

VARIABLES onWhatsApp,  \* the numbers that are registered; of silent ones it is never seen
          noSaid,      \* noSaid[n]: how long ago WhatsApp last said that n is not
          connected,   \* the sessions the gateway has a connected client for
          cache,       \* cache[n]: the gateway's answer and its age
          spent,       \* spent[s]: the session's window and what it has spent in it
          contact,     \* contact[c]: its number, opt-out, answer and the answer's age
          row,         \* row[m]: the state of the message
          run,         \* the cron's pass
          events       \* what has happened beside the passes, a count

gateway == <<cache, spent>>
world   == <<onWhatsApp, noSaid, connected>>
vars    == <<world, gateway, contact, row, run, events>>

NoAnswer == [known |-> FALSE]
NoWindow == [open |-> FALSE]
NoRun    == [pc |-> "idle"]

----------------------------------------------------------------------------
(* The answers *)

Kept(c) == contact[c].answer # "none" /\ contact[c].age <= TTL

\* _optout_block_reason.
Blocked(c) == contact[c].optout \/ (contact[c].answer = "no" /\ Kept(c))

\* lookup.
Cached(n) == cache[n].known /\ cache[n].age <= CheckTTL

\* The session's window, a new one when an hour has passed.
Window(s) == IF spent[s].open /\ spent[s].age < Hour
             THEN spent[s] ELSE [open |-> TRUE, count |-> 0, age |-> 0]

\* How many of the lookups a request wants the budget allows.
Grant(s, want) == LET free == PerHour - Window(s).count
                  IN  IF Window(s).count >= PerHour THEN 0
                      ELSE IF want > free THEN free ELSE want

----------------------------------------------------------------------------
(* A pass *)

Idle == run.pc = "idle"

\* The number a message goes to: its own, or its contact's.
NumberOf(m) == IF AddressOf[m] # NoNumber THEN AddressOf[m] ELSE contact[ContactOf[m]].number

\* Messages that wait and are older than m.
Ahead(m) == {q \in Msgs : q < m /\ row[q] = "outgoing"}

\* The one search, over all sessions and before anything is filtered out.
Found == {m \in Msgs : row[m] = "outgoing" /\ Cardinality(Ahead(m)) < Limit}

Unanswered == {m \in Found : /\ NumberOf(m) # NoNumber
                             /\ ~contact[ContactOf[m]].optout /\ ~Kept(ContactOf[m])}

\* One question per number and session, from the oldest message to it.
Question(m) == [at |-> m, number |-> NumberOf(m), of |-> ContactOf[m]]
Wanted == {m \in Unanswered : \A q \in Unanswered :
              SessionOf[q] = SessionOf[m] /\ NumberOf(q) = NumberOf(m) => m <= q}

\* The first so many, by the age of their messages.
First(questions, count) ==
    {q \in questions : Cardinality({r \in questions : r.at < q.at}) < count}

\* The pass goes on with the session of the oldest question left, if any, and
\* with no more of its questions than one pass may ask.
Onward(questions, read, moved) ==
    IF questions = {} THEN NoRun
    ELSE LET first == CHOOSE q \in questions : \A r \in questions : q.at <= r.at
             its   == {q \in questions : SessionOf[q.at] = SessionOf[first.at]}
             now   == First(its, AskLimit)
         IN  [pc |-> "batch", ses |-> SessionOf[first.at], asked |-> now, left |-> now,
              rest |-> questions \ its, ask |-> {}, got |-> {}, short |-> FALSE,
              read |-> read, moved |-> moved]

StartChecks ==
    /\ Idle /\ Wanted # {}
    /\ run' = Onward({Question(m) : m \in Wanted}, TRUE, {})
    /\ UNCHANGED <<world, gateway, contact, row, events>>

Batch  == First(run.left, BatchSize)
Misses == {q \in Batch : ~Cached(q.number)}

FromCache == {[number |-> q.number, yes |-> cache[q.number].yes] : q \in Batch \ Misses}

\* A gateway that answers short ends the session's questions for this pass.
AfterBatch(got, short) ==
    LET left == run.left \ Batch IN
    [run EXCEPT !.pc = IF short \/ left = {} THEN "write" ELSE "batch",
                !.left = left, !.ask = {}, !.got = got, !.short = short, !.read = TRUE]

\* Mutation: the pass ends with the first session that cannot be asked.
SkipAll == NoRun

\* The session is skipped, with the answers of its earlier batches.
SkipSession == Onward(run.rest, TRUE, run.moved)

\* The request: what is cached costs nothing; the rest is asked as far as the
\* budget goes, by a session that is connected.
Post ==
    LET s       == run.ses
        granted == Grant(s, Cardinality(Misses))
        short   == granted < Cardinality(Misses)
    IN
    /\ run.pc = "batch"
    /\ \/ /\ Misses = {}
          /\ run' = AfterBatch(run.got \union FromCache, FALSE)
          /\ UNCHANGED gateway
       \/ /\ Misses # {} /\ s \notin connected
          /\ run' = SkipSession
          /\ UNCHANGED gateway
       \/ /\ Misses # {} /\ s \in connected
          /\ spent' = [spent EXCEPT ![s] = [Window(s) EXCEPT !.count = @ + granted]]
          /\ run' = IF granted = 0 THEN AfterBatch(run.got \union FromCache, TRUE)
                    ELSE [run EXCEPT !.pc = "asking", !.ask = First(Misses, granted), !.read = TRUE,
                                     !.got = @ \union FromCache, !.short = short]
          /\ UNCHANGED cache
    /\ UNCHANGED <<world, contact, row, events>>

Answering(numbers) == numbers \ Silent

\* Mutation: silence is cached as a no.
SayAboutAll(numbers) ==
    /\ cache' = [n \in Numbers |-> IF n \in numbers
                    THEN [known |-> TRUE, yes |-> n \in onWhatsApp /\ n \notin Silent, age |-> 0]
                    ELSE cache[n]]
    /\ noSaid' = [n \in Numbers |-> IF n \in Answering(numbers) \ onWhatsApp THEN 0 ELSE noSaid[n]]

\* IsOnWhatsApp answers, and the gateway stores what it was answered.
Say(numbers) ==
    /\ cache' = [n \in Numbers |-> IF n \in Answering(numbers)
                    THEN [known |-> TRUE, yes |-> n \in onWhatsApp, age |-> 0] ELSE cache[n]]
    /\ noSaid' = [n \in Numbers |-> IF n \in Answering(numbers) \ onWhatsApp THEN 0 ELSE noSaid[n]]

Asked == {q.number : q \in run.ask}

Answer ==
    /\ run.pc = "asking"
    /\ Say(Asked)
    /\ run' = AfterBatch(run.got \union {[number |-> n, yes |-> n \in onWhatsApp] : n \in Answering(Asked)},
                         run.short \/ Asked \intersect Silent # {})
    /\ UNCHANGED <<onWhatsApp, connected, spent, contact, row, events>>

Told(q) == {a \in run.got : a.number = q.number}

\* What the answers make of a contact: the last one written stays.
Written(c) ==
    {[contact[c] EXCEPT !.answer = IF a.yes THEN "yes" ELSE "no", !.age = 0, !.about = a.number] :
        a \in UNION {Told(q) : q \in {r \in run.asked : r.of = c}}}

\* The answers are written to the contacts the questions came from, and the
\* session's part is committed.
Write ==
    LET hit == {c \in Contacts : Written(c) # {}} IN
    /\ run.pc = "write"
    /\ hit \intersect run.moved = {}
    /\ contact' \in {f \in [Contacts -> UNION {Written(c) \union {contact[c]} : c \in Contacts}] :
                        \A c \in Contacts : IF c \in hit THEN f[c] \in Written(c) ELSE f[c] = contact[c]}
    /\ run' = Onward(run.rest, FALSE, {})
    /\ UNCHANGED <<world, gateway, row, events>>

\* A contact was written by others since it was read: the commit fails, and the
\* pass with it.
Abort ==
    /\ run.pc = "write"
    /\ \E c \in run.moved : Written(c) # {}
    /\ run' = NoRun
    /\ UNCHANGED <<world, gateway, contact, row, events>>

----------------------------------------------------------------------------
(* The messages, and what happens beside the passes *)

\* The queue marks what is blocked; a person may send what is not.
Send(m) ==
    /\ \/ row[m] = "outgoing" /\ Blocked(ContactOf[m]) /\ row' = [row EXCEPT ![m] = "error"]
       \/ row[m] \in {"outgoing", "error"} /\ ~Blocked(ContactOf[m])
          /\ row' = [row EXCEPT ![m] = "sent"]
    /\ UNCHANGED <<world, gateway, contact, run, events>>

Moved(c) == run' = IF ~Idle /\ run.read THEN [run EXCEPT !.moved = @ \union {c}] ELSE run

\* A new number is a new question (res.partner write).
NewNumber(c, n) ==
    contact' = [contact EXCEPT ![c].number = n, ![c].answer = "none", ![c].age = 0, ![c].about = NoNumber]

ChangeNumber(c, n) ==
    /\ n # contact[c].number
    /\ NewNumber(c, n) /\ Moved(c)
    /\ UNCHANGED <<world, gateway, row>>

OptOut(c) ==
    /\ ~contact[c].optout /\ contact' = [contact EXCEPT ![c].optout = TRUE]
    /\ Moved(c)
    /\ UNCHANGED <<world, gateway, row>>

\* A number joins WhatsApp or leaves it; a client connects or drops.
Registration(n) ==
    /\ onWhatsApp' = (onWhatsApp \ {n}) \union ({n} \ onWhatsApp)
    /\ UNCHANGED <<noSaid, connected, gateway, contact, row, run>>

Connection(s) ==
    /\ connected' = (connected \ {s}) \union ({s} \ connected)
    /\ UNCHANGED <<onWhatsApp, noSaid, gateway, contact, row, run>>

\* Another Odoo asks about a number: the answers are shared, the budget is not.
OtherClient(n) ==
    /\ ~Cached(n) /\ Say({n})
    /\ UNCHANGED <<onWhatsApp, connected, spent, contact, row, run>>

\* The request fails, after WhatsApp answered or before: the session is skipped.
Fail ==
    /\ run.pc = "asking" /\ run' = SkipSession
    /\ \/ Say(Asked)
       \/ UNCHANGED <<cache, noSaid>>
    /\ UNCHANGED <<onWhatsApp, connected, spent, contact, row>>

\* What the gateway knows of numbers is in memory only.
Restart ==
    /\ cache' = [n \in Numbers |-> NoAnswer] /\ spent' = [s \in Sessions |-> NoWindow]
    /\ run' = IF run.pc = "asking" THEN SkipSession ELSE run
    /\ UNCHANGED <<world, contact, row>>

Capped(n, top) == IF n < top THEN n + 1 ELSE n

Tick ==
    /\ Idle
    /\ cache' = [n \in Numbers |-> IF cache[n].known THEN [cache[n] EXCEPT !.age = Capped(@, CheckTTL + 1)] ELSE cache[n]]
    /\ spent' = [s \in Sessions |-> IF spent[s].open THEN [spent[s] EXCEPT !.age = Capped(@, Hour)] ELSE spent[s]]
    /\ contact' = [c \in Contacts |-> IF contact[c].answer = "none" THEN contact[c]
                                      ELSE [contact[c] EXCEPT !.age = Capped(@, TTL + 1)]]
    /\ noSaid' = [n \in Numbers |-> Capped(noSaid[n], Old)]
    /\ UNCHANGED <<onWhatsApp, connected, row, run, events>>

----------------------------------------------------------------------------
Init ==
    /\ onWhatsApp \in SUBSET (Numbers \ Silent) /\ noSaid = [n \in Numbers |-> Old]
    /\ connected = Sessions
    /\ cache = [n \in Numbers |-> NoAnswer] /\ spent = [s \in Sessions |-> NoWindow]
    /\ contact = [c \in Contacts |-> [number |-> NumberAtFirst[c], optout |-> FALSE,
                                      answer |-> "none", age |-> 0, about |-> NoNumber]]
    /\ row = [m \in Msgs |-> "outgoing"]
    /\ run = NoRun /\ events = 0

Pass == StartChecks \/ Post \/ Answer \/ Write \/ Abort

Others ==
    /\ events < MaxEvents /\ events' = events + 1
    /\ \/ \E c \in Contacts : OptOut(c) \/ \E n \in Numbers : ChangeNumber(c, n)
       \/ \E n \in Numbers \ Silent : Registration(n) \/ OtherClient(n)
       \/ \E s \in Sessions : Connection(s)
       \/ Fail \/ Restart

Next == Pass \/ (\E m \in Msgs : Send(m)) \/ Others \/ Tick

\* A pass goes on and time passes; a pass comes every quarter of an hour, which
\* is more often than answers expire, so whatever is wanted for ever or again and
\* again is met by one.  Nobody is obliged to send.
Fairness ==
    /\ WF_vars(Pass) /\ SF_vars(Tick)
    /\ \A m \in Msgs : SF_vars(StartChecks /\ m \in Wanted)

Spec == Init /\ [][Next]_vars /\ Fairness

----------------------------------------------------------------------------
(* Properties *)

\* A contact is taken to be off WhatsApp only if WhatsApp said so of the number
\* that was asked, and not longer ago than both memories of it last: silence,
\* a spent budget, a failed request or a lost reply never becomes a no.
NoWasSaid ==
    \A c \in Contacts : contact[c].answer = "no" /\ Kept(c) => noSaid[contact[c].about] <= TTL + CheckTTL

\* The pass has its answer, or has nothing to ask.
Settled(m) == \/ row[m] # "outgoing" \/ contact[ContactOf[m]].answer # "none"
              \/ contact[ContactOf[m]].optout
              \/ NumberOf(m) \in Silent \union {NoNumber}

\* Numbers WhatsApp is silent about, asked before m in every pass of m's session.
SilentAhead(m) == {q \in Wanted : q < m /\ SessionOf[q] = SessionOf[m] /\ NumberOf(q) \in Silent}

\* The pass sees m, and the silence before it leaves a place in the batch, in the
\* pass and in the hour.
InReach(m) ==
    /\ SessionOf[m] \in connected
    /\ Cardinality(Ahead(m)) < Limit
    /\ \A bound \in {BatchSize, AskLimit, PerHour} : Cardinality(SilentAhead(m)) < bound

\* A number that waits in the queue of a connected session, and that WhatsApp has
\* an answer about, is asked about in the end, through failed requests, spent
\* budgets, restarts and expiring answers, as long as it stays in reach: the
\* search and the batches have bounds, and what fills them is asked again first.
EveryNumberAsked == \A m \in Msgs : []<>(InReach(m) => Settled(m))
=============================================================================
