------------------------------- MODULE Marketing -------------------------------
(***************************************************************************)
(* Campaigns of one number (whatsmeow_marketing): an audience resolved     *)
(* into a ledger of traces, which a cron turns into messages a slice at a  *)
(* time; the outgoing queue that sends them; the stop and start keywords   *)
(* and the replies that come back; the conversion of a broadcast contact.  *)
(*                                                                         *)
(* A request or a batch of the cron is one step: two of them that touch    *)
(* the same traces or the same campaign cannot both commit.  A send is     *)
(* three, for its POST lies between: it works on the snapshot it opened    *)
(* with, and is recorded only if nobody has deleted its row meanwhile.     *)
(* What the gateway remembers of a message's key, and forgets, is in short *)
(* what SendPipeline has.                                                  *)
(***************************************************************************)
EXTENDS Naturals, FiniteSets

CONSTANTS MaxRecord,     \* recipients are 1 .. MaxRecord, in the order they are found
          Partners,      \* those that are contacts of Odoo; the others are of broadcast lists
          Unborn,        \* the partners that nobody has created yet
          Number,          \* Number[r]: the last ten digits of the number; "" is none
          Stopped,       \* those that have opted out before
          Unregistered,  \* partners known not to be on WhatsApp
          Refused,       \* recipients a constraint of the message refuses
          Broken,        \* Broken[c]: those for whom the text of c cannot be rendered
          MaxCamp,       \* campaigns are 1 .. MaxCamp, in the order of create_date
          Listed,        \* campaigns aimed at broadcast lists
          Aim,           \* Aim[c]: the lists' contacts, or what the filter matches
          Window,        \* reply_window_days; 0 is no limit
          MaxAge,        \* bound: an age in days that no window reaches
          Operators,     \* Operators[c]: who attends its replies, {} leaves the routing alone
          Fallback,      \* the session's own routing
          Batch, Share, Cap,   \* MARKETING_BATCH, marketing_daily_share, the daily cap
          PauseAfter,    \* failure_pause_threshold; 0 never pauses
          MaxCancels,    \* bound: cancellations
          MaxEvents      \* bound: replies, kills and what else people do

Records   == 1 .. MaxRecord
Campaigns == 1 .. MaxCamp
Numbers   == {Number[r] : r \in Partners} \ {""}   \* numbers that write to us
MinOf(S)  == CHOOSE x \in S : \A y \in S : x <= y

ASSUME MarketingAssumption ==
    /\ MaxRecord \in Nat /\ MaxCamp \in Nat /\ MaxEvents \in Nat /\ MaxCancels \in Nat /\ MaxAge \in Nat \ {0}
    /\ Unborn \subseteq Partners /\ Partners \subseteq Records
    /\ Unregistered \subseteq Partners /\ Stopped \subseteq Records /\ Refused \subseteq Records
    /\ Aim \in [Campaigns -> SUBSET Records] /\ Listed \subseteq Campaigns
    /\ Window \in [Campaigns -> Nat] /\ \A c \in Campaigns : Window[c] < MaxAge
    /\ Broken \in [Campaigns -> SUBSET Records]
    /\ Batch \in Nat \ {0} /\ Share \in 0 .. 100 /\ Cap \in Nat /\ PauseAfter \in Nat

VARIABLES camp,    \* camp[c]: the campaign's state
          trace,   \* trace[c][r]: the ledger's row, with the message it became
          people,  \* partners that exist
          link,    \* link[r]: the partner a broadcast contact was converted into
          out,     \* records flagged as opted out of marketing
          pass,    \* the marketing cron's pass
          send,    \* the queue's send
          line,    \* the number: can it send, its failures in a row, is it paused
          other,   \* messages of no campaign sent today
          wire,    \* wire[c][t]: copies of c that reached t, 2 for more
          deleted, \* <<c, t>>: the row of a copy that had left or was leaving was deleted
          forgot,  \* <<c, t>>: the gateway forgot a copy before its row said sent
          asked,   \* records of people whose last word was stop
          unheard, \* those of them whom that very word made a contact
          chan,    \* chan[t]: members of the conversation, {} if there is none
          events   \* the cancellations, and the replies, kills and what people did

ledger   == <<camp, trace, pass>>
contacts == <<people, link, out, asked, unheard>>
reached  == <<wire, deleted, forgot>>
vars == <<ledger, contacts, reached, send, line, other, chan, events>>

\* known: the gateway remembers the key of the row's message as sent.
NoTrace == [is |-> FALSE, skip |-> "none", msg |-> "none", known |-> FALSE, age |-> 0,
            partner |-> 0, replied |-> FALSE]
NoPass == [on |-> FALSE, todo |-> {}, left |-> 0, slice |-> 0]
NoSend == [pc |-> "idle"]

\* _compute_state: the ledger follows the message.
State(tr) ==
    CASE tr.skip = "cancelled" -> "cancelled"
      [] tr.skip \notin {"none", "cancelled"} -> "skipped"
      [] tr.skip = "none" /\ tr.msg = "none" -> "pending"
      [] tr.skip = "none" /\ tr.msg = "outgoing" -> "queued"
      [] tr.skip = "none" /\ tr.msg = "sent" -> "sent"
      [] OTHER -> "failed"

In(c, states) == {r \in Records : trace[c][r].is /\ State(trace[c][r]) \in states}
Ledger(c)     == {r \in Records : trace[c][r].is}

----------------------------------------------------------------------------
(* Who is to be messaged *)

\* _find_partner: the first active partner with that tail.
FindPartner(t, born) ==
    LET hits == {r \in born : Number[r] = t} IN IF hits = {} THEN 0 ELSE MinOf(hits)

PartnerOf(r) == IF r \in Partners THEN r ELSE link[r]

SkipReason(r, p) ==
    CASE r \in out \/ p \in out -> "optout"
      [] r \notin out /\ p \notin out /\ p \in Unregistered -> "not_registered"
      [] OTHER -> "none"

\* A list gives only those that may be messaged; a filter all that match.
Audience(c) ==
    {r \in Aim[c] : /\ r \in Partners => r \in people
                    /\ c \in Listed => r \notin out /\ Number[r] # ""}

\* Mutation: the numbers a previous run has reached are forgotten.
AlreadyNone(c) == {}

\* Numbers an earlier run of this campaign has on its ledger.
Already(c) == {Number[r] : r \in {q \in Ledger(c) : trace[c][q].skip = "none"}}

\* Mutation: a number met twice in the audience is messaged twice.
SeenBeforeNever(c, r) == FALSE

SeenBefore(c, r) ==
    \E q \in Audience(c) : q < r /\ Number[q] = Number[r] /\ SkipReason(q, PartnerOf(q)) = "none"

Verdict(c, r) ==
    LET reason == SkipReason(r, PartnerOf(r)) IN
    CASE Number[r] = "" -> "no_phone"
      [] Number[r] # "" /\ reason # "none" -> reason
      [] Number[r] # "" /\ reason = "none" /\ SeenBefore(c, r) -> "duplicate"
      [] OTHER -> "none"

\* _resolve_recipients: one row per recipient, sendable or not.
Resolved(c) ==
    [r \in Records |->
        IF r \in Audience(c) /\ Number[r] \notin Already(c)
        THEN [NoTrace EXCEPT !.is = TRUE, !.skip = Verdict(c, r), !.partner = PartnerOf(r)]
        ELSE trace[c][r]]

----------------------------------------------------------------------------
(* Pacing *)

Sent(c)   == {r \in Records : trace[c][r].msg = "sent" /\ trace[c][r].age = 0}
Queued(c) == {r \in Records : trace[c][r].msg = "outgoing"}
Total(S(_)) == Cardinality(UNION {{c} \X S(c) : c \in Campaigns})

Less(m, n) == IF n <= m THEN m - n ELSE 0
Least(m, n) == IF m <= n THEN m ELSE n
Allowance == (Cap * Share) \div 100

SessionHeadroom ==
    LET batch == Less(Batch, Total(Queued))
        today == Total(Sent)
    IN  IF Cap = 0 THEN batch
        ELSE Least(batch, Least(Less(Allowance, today), Less(Cap, today + other)))

\* Mutation: a slice may be nothing.
SliceNone(headroom, n) == headroom \div n

Slice(headroom, n) == IF headroom \div n = 0 THEN 1 ELSE headroom \div n

\* The first n waiting traces, which a batch takes up.
Taken(rows, n) ==
    LET waiting == {r \in Records : rows[r].is /\ State(rows[r]) = "pending"}
    IN  {r \in waiting : Cardinality({q \in waiting : q <= r}) <= n}

\* The batch's one rendering raises: somebody it is for has no text.
Breaks(c, rows, n) ==
    \E r \in Taken(rows, n) : r \in Broken[c] /\ SkipReason(r, rows[r].partner) = "none"

\* _materialise: the traces taken up become messages, unless their recipient has
\* opted out since or their message cannot be created.
Materialise(c, rows, n) ==
    LET After(r) == CASE SkipReason(r, rows[r].partner) # "none" -> [rows[r] EXCEPT !.skip = "optout"]
                      [] SkipReason(r, rows[r].partner) = "none" /\ Breaks(c, rows, n) -> rows[r]
                      [] SkipReason(r, rows[r].partner) = "none" /\ ~Breaks(c, rows, n) /\ r \in Refused ->
                            [rows[r] EXCEPT !.skip = "no_phone"]
                      [] OTHER -> [rows[r] EXCEPT !.msg = "outgoing", !.known = FALSE, !.age = 0]
    IN  [r \in Records |-> IF r \in Taken(rows, n) THEN After(r) ELSE rows[r]]

\* Mutation: what is queued is taken for done.
DoneEarly(rows) == \A r \in Records : rows[r].is => State(rows[r]) # "pending"

\* _check_done: nothing waits and nothing is queued.
Done(rows) == \A r \in Records : rows[r].is => State(rows[r]) \notin {"pending", "queued"}

----------------------------------------------------------------------------
(* Campaigns *)

\* action_send, by hand or by the cron when its date has come: the audience is
\* resolved, and a first batch queued, unless nobody can be messaged or the
\* batch cannot be rendered.
Start(c) ==
    /\ camp[c] = "draft"
    /\ LET rows == Resolved(c)
           next == Materialise(c, rows, SessionHeadroom)
       IN  /\ \E r \in Records : rows[r].is /\ rows[r].skip = "none"
           /\ ~Breaks(c, rows, SessionHeadroom)
           /\ trace' = [trace EXCEPT ![c] = next]
           /\ camp' = [camp EXCEPT ![c] = IF Done(next) THEN "sent" ELSE "sending"]
    /\ UNCHANGED <<contacts, reached, pass, send, line, other, chan, events>>

\* The queue's transaction sees this row waiting, or has posted it.
InFlight(c, r) ==
    \/ send.pc = "posted" /\ send.at = <<c, r>>
    \/ send.pc = "open" /\ send.row[c][r].msg = "outgoing"

\* Rows deleted although their copy has left or is leaving.
Losing(c, rs) == {<<c, Number[r]>> : r \in {q \in rs : trace[c][q].known \/ InFlight(c, q)}}

\* What the open send holds of rows that are deleted under it is of messages
\* that no trace has any more.
Gone(was, tr) ==
    IF was.msg # "none" /\ ~was.gone THEN [was EXCEPT !.gone = TRUE, !.known = tr.known] ELSE was
SendWithout(c, rs) ==
    CASE send.pc = "open" ->
            [send EXCEPT !.row[c] = [r \in Records |-> IF r \in rs THEN Gone(@[r], trace[c][r]) ELSE @[r]]]
      [] send.pc = "posted" /\ send.at \in {c} \X rs ->
            [send EXCEPT !.was = Gone(@, trace[c][send.at[2]])]
      [] OTHER -> send

\* action_cancel: what has not left is undone, and its message deleted.
Cancel(c) ==
    LET stopped == In(c, {"pending", "queued"}) IN
    /\ camp[c] \in {"draft", "sending"}
    /\ camp' = [camp EXCEPT ![c] = "cancelled"]
    /\ trace' = [trace EXCEPT ![c] = [r \in Records |->
                    IF r \in stopped THEN [@[r] EXCEPT !.skip = "cancelled", !.msg = "none", !.known = FALSE]
                    ELSE @[r]]]
    /\ deleted' = deleted \union Losing(c, stopped)
    /\ send' = SendWithout(c, Queued(c))
    /\ events.cancel < MaxCancels /\ events' = [events EXCEPT !.cancel = @ + 1]
    /\ UNCHANGED <<contacts, pass, line, other, wire, forgot, chan>>

\* action_reset_draft: the rows of those not messaged go, the others stay.
ResetDraft(c) ==
    /\ camp[c] = "cancelled"
    /\ camp' = [camp EXCEPT ![c] = "draft"]
    /\ trace' = [trace EXCEPT ![c] = [r \in Records |->
                    IF r \in In(c, {"skipped", "cancelled"}) THEN NoTrace ELSE @[r]]]
    /\ UNCHANGED <<contacts, reached, pass, send, line, other, chan, events>>

\* cron_process_marketing reads the headroom once and slices it.
CronStart ==
    LET sending == {c \in Campaigns : camp[c] = "sending"}
        room    == SessionHeadroom
    IN  /\ ~pass.on /\ sending # {} /\ room > 0
        /\ pass' = [on |-> TRUE, todo |-> sending, left |-> room,
                    slice |-> Slice(room, Cardinality(sending))]
        /\ UNCHANGED <<camp, trace, contacts, reached, send, line, other, chan, events>>

\* One campaign's batch, committed before the next.  A batch that cannot be
\* rendered queues nothing, takes nothing of the headroom and comes again.
CronBatch ==
    /\ pass.on
    /\ \E c \in {MinOf(pass.todo)} :
       \E rows \in {IF camp[c] = "sending"
                    THEN Materialise(c, trace[c], Least(pass.slice, pass.left)) ELSE trace[c]} :
       \E left \in {pass.left - Cardinality({r \in Records : rows[r].msg # trace[c][r].msg})} :
          /\ trace' = [trace EXCEPT ![c] = rows]
          /\ camp' = [camp EXCEPT ![c] = IF @ = "sending" /\ Done(rows) THEN "sent" ELSE @]
          /\ pass' = IF left = 0 \/ pass.todo = {c} THEN NoPass
                     ELSE [pass EXCEPT !.todo = @ \ {c}, !.left = left]
    /\ UNCHANGED <<contacts, reached, send, line, other, chan, events>>

----------------------------------------------------------------------------
(* The queue's send, in short: OutgoingQueue has the whole of it *)

SentToday == Total(Sent) + other

\* What a send reads of a row: one that might be sent.
Seen(tr) == [msg |-> IF tr.msg \in {"outgoing", "error"} THEN tr.msg ELSE "none",
             partner |-> tr.partner, gone |-> FALSE, known |-> FALSE]

Sendable(by) == IF by = "queue" THEN {"outgoing"} ELSE {"outgoing", "error"}

\* The transaction of a send.  The queue opens one when the number can be used:
\* OutgoingQueue says when a number is up and what the queue's search reaches; a
\* person who presses Send asks for none of it.
Open(by) ==
    /\ send = NoSend
    /\ \E c \in Campaigns, r \in Records : trace[c][r].msg \in Sendable(by)
    /\ by = "queue" => line.up /\ ~line.paused /\ (Cap = 0 \/ SentToday < Cap)
    /\ send' = [pc |-> "open", by |-> by, people |-> people, out |-> out,
                asked |-> asked, unheard |-> unheard,
                row |-> [c \in Campaigns |-> [r \in Records |-> Seen(trace[c][r])]]]
    /\ UNCHANGED <<ledger, contacts, reached, line, other, chan>>

\* _optout_block_reason of a campaign's message, as the transaction sees it.
Blocked(v, c, r) ==
    LET p == IF v.row[c][r].partner # 0 THEN v.row[c][r].partner ELSE FindPartner(Number[r], v.people)
    IN  (r \notin Partners /\ r \in v.out) \/ p \in v.out \/ p \in Unregistered

\* The gateway remembers the key of the message the send has read.
Known(c, r) == IF send.row[c][r].gone THEN send.row[c][r].known ELSE trace[c][r].known

Posted(c, r, res) == [pc |-> "posted", by |-> send.by, at |-> <<c, r>>, res |-> res, was |-> send.row[c][r]]

\* The POST.  A key the gateway remembers is answered and not sent again; one it
\* does not is sent, or not, and remembered unless the answer is an error: an
\* error may come although the copy has left, and then nobody knows of it.
Post(c, r) ==
    /\ send.pc = "open" /\ send.row[c][r].msg \in Sendable(send.by)
    /\ \/ /\ Blocked(send, c, r)
          /\ send' = Posted(c, r, "blocked")
          /\ UNCHANGED <<trace, wire, forgot>>
       \/ /\ ~Blocked(send, c, r) /\ Known(c, r)
          /\ \E res \in {"sent", "error"} : send' = Posted(c, r, res)
          /\ UNCHANGED <<trace, wire, forgot>>
       \/ /\ ~Blocked(send, c, r) /\ ~Known(c, r)
          /\ \E res \in {"sent", "error"}, left, kept \in BOOLEAN :
                /\ (res = "sent" => kept) /\ (kept => left)
                /\ send' = Posted(c, r, res)
                /\ wire' = IF left THEN [wire EXCEPT ![c][Number[r]] = Least(2, @ + 1)] ELSE wire
                /\ trace' = IF kept /\ ~send.row[c][r].gone
                            THEN [trace EXCEPT ![c][r].known = TRUE] ELSE trace
                /\ forgot' = IF left /\ ~kept THEN forgot \union {<<c, Number[r]>>} ELSE forgot
    /\ UNCHANGED <<camp, pass, contacts, line, other, deleted, chan, events>>

NoteSend(l) == [l EXCEPT !.fails = 0]

\* Beyond the threshold the count changes nothing.
NoteFailure(l) ==
    LET fails == IF l.fails < PauseAfter THEN l.fails + 1 ELSE l.fails
    IN  [l EXCEPT !.fails = fails, !.paused = @ \/ (PauseAfter # 0 /\ fails >= PauseAfter)]

\* What a gateway's answer makes of the number; a blocked row says nothing of it.
Noted(res) == CASE res = "sent"  -> NoteSend(line)
                [] res = "error" -> NoteFailure(line)
                [] OTHER         -> line

\* Recorded, unless the row was deleted meanwhile, or a person was told that it
\* must not be sent.
Record ==
    /\ send.pc = "posted" /\ send' = NoSend
    /\ IF ~send.was.gone /\ ~(send.by = "hand" /\ send.res = "blocked")
       THEN /\ trace' = [trace EXCEPT ![send.at[1]][send.at[2]].msg = IF send.res = "sent" THEN "sent" ELSE "error",
                                      ![send.at[1]][send.at[2]].age = 0]
            /\ line' = Noted(send.res)
       ELSE UNCHANGED <<trace, line>>
    /\ UNCHANGED <<camp, pass, contacts, reached, other, chan, events>>

\* The gateway restarts, or sweeps one key of old.
Forget(keys) ==
    LET losing == {k \in keys : trace[k[1]][k[2]].known} IN
    /\ losing # {}
    /\ trace' = [c \in Campaigns |-> [r \in Records |->
                    IF <<c, r>> \in keys THEN [trace[c][r] EXCEPT !.known = FALSE] ELSE trace[c][r]]]
    /\ send' = IF send.pc = "open"
               THEN [send EXCEPT !.row = [c \in Campaigns |-> [r \in Records |->
                        IF <<c, r>> \in keys THEN [@[c][r] EXCEPT !.known = FALSE] ELSE @[c][r]]]]
               ELSE send
    /\ forgot' = forgot \union {<<k[1], Number[k[2]]>> : k \in {l \in losing : trace[l[1]][l[2]].msg # "sent"}}
    /\ UNCHANGED <<camp, pass, contacts, line, other, wire, deleted, chan>>

----------------------------------------------------------------------------
(* What comes back, and what people do *)

\* Mutation: only the sender's contact is flagged.
TargetsPartner(t, p) == {p} \ {0}

\* _marketing_targets: the partner, and every broadcast contact of that number.
Targets(t, p) ==
    ({p} \ {0}) \union {r \in Records \ Partners : Number[r] = t \/ (p # 0 /\ link[r] = p)}

\* _marketing_keyword, before the delivery makes a contact of a stranger: it
\* speaks for everyone with the number, but flags those it finds.
Keyword(t, word, made) ==
    LET p == FindPartner(t, people)
        who == {r \in Records : Number[r] = t /\ (r \in Partners => r \in people \union made)}
    IN  CASE word = "stop"  -> /\ out' = out \union Targets(t, p) /\ asked' = asked \union who
                               /\ unheard' = (unheard \ who) \union made
          [] word = "start" -> /\ out' = out \ Targets(t, p) /\ asked' = asked \ who
                               /\ unheard' = unheard \ who
          [] OTHER -> UNCHANGED <<out, asked, unheard>>

\* _find_for_reply: the newest copy of this sender within its own window.
Answered(t, p) ==
    LET copies == {w \in Campaigns \X Records :
                      LET tr == trace[w[1]][w[2]] IN
                      /\ tr.is /\ tr.msg = "sent" /\ (Number[w[2]] = t \/ (p # 0 /\ tr.partner = p))
                      /\ Window[w[1]] = 0 \/ tr.age <= Window[w[1]]}
    IN  {w \in copies : \A v \in copies : trace[w[1]][w[2]].age <= trace[v[1]][v[2]].age}

\* _route_users of a new conversation: the campaign's operators, or the rules'.
RouteUsers(ops) == IF ops = {} THEN Fallback ELSE ops

\* Mutation: the conversation is attended before the message is delivered.
AttendEarly(ops, members) == IF members = {} THEN RouteUsers({}) ELSE members

\* The delivery opens the conversation or finds it; then it is attended.
Attend(ops, members) == IF members = {} THEN RouteUsers(ops) \union ops ELSE members \union ops

\* A message from t: the keyword, the credit, the conversation, which makes a
\* contact of a stranger.
Reply(t, word) ==
    LET p == FindPartner(t, people)  hits == Answered(t, p)
        made == IF chan[t] = {} /\ p = 0 THEN {MinOf({r \in Partners : Number[r] = t})} ELSE {}
    IN
    /\ Keyword(t, word, made)
    /\ \/ /\ hits = {} /\ chan' = [chan EXCEPT ![t] = Attend({}, @)] /\ UNCHANGED trace
       \/ \E w \in hits :
             /\ trace' = [trace EXCEPT ![w[1]][w[2]].replied = TRUE]
             /\ chan' = [chan EXCEPT ![t] = Attend(Operators[w[1]], @)]
    /\ people' = people \union made
    /\ UNCHANGED <<camp, link, pass, send, line, other, reached>>

\* action_convert_to_partner: link before create; an opt-out goes along.
Convert(r) ==
    LET p == FindPartner(Number[r], people)
        q == IF p # 0 THEN p ELSE MinOf({s \in Partners : Number[s] = Number[r]})
    IN  /\ r \notin Partners /\ link[r] = 0 /\ Number[r] \in Numbers
        /\ link' = [link EXCEPT ![r] = q] /\ people' = people \union {q}
        /\ IF r \in out THEN out' = out \union {q} /\ unheard' = unheard \ {q}
           ELSE UNCHANGED <<out, unheard>>
        /\ asked' = IF r \in asked THEN asked \union {q} ELSE asked
        /\ UNCHANGED <<ledger, reached, send, line, other, chan>>

\* Somebody sends a message of no campaign, or a test of one; it may fail.
SendOther ==
    /\ \/ other < Cap /\ other' = other + 1 /\ line' = NoteSend(line)
       \/ line' = NoteFailure(line) /\ UNCHANGED other
    /\ UNCHANGED <<ledger, contacts, reached, send, chan>>

\* The number is logged out or in again, its hours open or close, or older rows
\* of other numbers fill the queue's search; a person lifts its pause.
Line ==
    /\ \/ line' = [line EXCEPT !.up = ~@]
       \/ line.paused /\ line' = [line EXCEPT !.paused = FALSE, !.fails = 0]
    /\ UNCHANGED <<ledger, contacts, reached, send, other, chan, events>>

\* A manager deletes a message: its trace waits again.
DeleteMessage(c, r) ==
    /\ trace[c][r].msg # "none"
    /\ trace' = [trace EXCEPT ![c][r].msg = "none", ![c][r].known = FALSE]
    /\ deleted' = deleted \union {<<c, Number[r]>>}
    /\ send' = SendWithout(c, {r})
    /\ UNCHANGED <<camp, contacts, pass, line, other, wire, forgot, chan>>

\* The worker of the queue or of the marketing cron is killed.
Kill ==
    /\ \/ send # NoSend /\ send' = NoSend /\ UNCHANGED pass
       \/ pass.on /\ pass' = NoPass /\ UNCHANGED send
    /\ UNCHANGED <<camp, trace, contacts, reached, line, other, chan>>

NewDay ==
    /\ other' = 0
    /\ trace' = [c \in Campaigns |-> [r \in Records |->
                    IF trace[c][r].msg = "sent" /\ trace[c][r].age < MaxAge
                    THEN [trace[c][r] EXCEPT !.age = @ + 1] ELSE trace[c][r]]]
    /\ UNCHANGED <<camp, contacts, reached, pass, send, line, chan, events>>

----------------------------------------------------------------------------
Init ==
    /\ camp = [c \in Campaigns |-> "draft"]
    /\ trace = [c \in Campaigns |-> [r \in Records |-> NoTrace]]
    /\ people = Partners \ Unborn /\ link = [r \in Records |-> 0] /\ out = Stopped
    /\ pass = NoPass /\ send = NoSend /\ other = 0
    /\ line = [up |-> TRUE, fails |-> 0, paused |-> FALSE]
    /\ wire = [c \in Campaigns |-> [t \in {Number[r] : r \in Records} |-> 0]]
    /\ deleted = {} /\ forgot = {} /\ asked = Stopped /\ unheard = {} /\ chan = [t \in Numbers |-> {}]
    /\ events = [cancel |-> 0, other |-> 0]

OpenQueue == Open("queue") /\ UNCHANGED events
Posts == Record \/ \E c \in Campaigns, r \in Records : Post(c, r)
Keys  == Campaigns \X Records

Others ==
    /\ events.other < MaxEvents /\ events' = [events EXCEPT !.other = @ + 1]
    /\ \/ \E t \in Numbers, word \in {"stop", "start", "hello"} : Reply(t, word)
       \/ \E r \in Records : Convert(r)
       \/ \E c \in Campaigns, r \in Records : DeleteMessage(c, r)
       \/ Open("hand")
       \/ Forget(Keys) \/ \E k \in Keys : Forget({k})
       \/ SendOther
       \/ Kill

Next == \/ \E c \in Campaigns : Start(c) \/ Cancel(c) \/ ResetDraft(c)
        \/ CronStart \/ CronBatch \/ OpenQueue \/ Posts \/ Line \/ NewDay \/ Others

\* The crons run on and the days pass; the queue's comes every minute, more often
\* than a number goes up and down.  Nobody else has to do anything.
Spec == Init /\ [][Next]_vars
        /\ WF_vars(CronStart \/ CronBatch) /\ WF_vars(Posts) /\ SF_vars(OpenQueue) /\ WF_vars(NewDay)

----------------------------------------------------------------------------
(* Properties *)

\* Every variable holds what it should, and the unique index of the ledger never
\* has to refuse a row: one row of a number that is not skipped per campaign.
TypeOK ==
    /\ camp \in [Campaigns -> {"draft", "sending", "sent", "cancelled"}]
    /\ \A c \in Campaigns, r \in Records :
          LET tr == trace[c][r] IN
          /\ tr.msg \in {"none", "outgoing", "sent", "error"}
          /\ tr.skip \in {"none", "no_phone", "optout", "not_registered", "duplicate", "cancelled"}
          /\ tr.skip # "none" => tr.msg = "none"
          /\ tr.age \in 0 .. MaxAge /\ tr.partner \in 0 .. MaxRecord
          /\ \A q \in Records \ {r} :
                tr.is /\ trace[c][q].is /\ Number[q] = Number[r] => {tr.skip, trace[c][q].skip} # {"none"}
    /\ people \subseteq Partners /\ link \in [Records -> 0 .. MaxRecord] /\ out \subseteq Records
    /\ pass.on <=> pass.todo # {} /\ pass.left > 0
    /\ other \in 0 .. Cap /\ events.cancel \in 0 .. MaxCancels /\ events.other \in 0 .. MaxEvents
    /\ asked \subseteq Records /\ unheard \subseteq Partners
    /\ line \in [up : BOOLEAN, fails : 0 .. PauseAfter, paused : BOOLEAN]

\* Whatever is cancelled, relaunched, sent again or killed on the way, a number
\* receives one copy of a campaign, unless the row of a copy that had left, or
\* was leaving, was deleted, or the gateway forgot that copy before its row said
\* sent: by an error after WhatsApp took it, a restart or a sweep.
NobodyTwice ==
    \A c \in Campaigns : \A t \in DOMAIN wire[c] :
        <<c, t>> \notin deleted \union forgot => wire[c][t] <= 1

\* The documented promise (whatsmeow_marketing_campaign.py:411): a relaunch must
\* not message the same person twice, for what was sent is kept and what was
\* deleted WhatsApp never saw (:394).
RelaunchSendsOnce ==
    \A c \in Campaigns : \A t \in DOMAIN wire[c] : wire[c][t] <= 1

\* Contacts with the number of an older contact, whom _find_partner finds instead.
Shadowed == {p \in Partners : \E q \in Partners : q < p /\ Number[q] = Number[p]}

\* The records the campaign's message is for, in the step that sends it.
SentTo == {send'.at[2], send'.was.partner}

\* A recipient whose last word was stop is sent no campaign by a transaction that
\* begins after it, as whichever record the campaign found him, converted or not,
\* unless that is a contact with the number of an older one, or one whom that
\* very word, his first, made a contact.
StopHonoured ==
    [][\A c \in Campaigns, t \in Numbers : wire'[c][t] # wire[c][t] =>
            SentTo \cap send.asked \subseteq Shadowed \union send.unheard]_vars

\* A campaign that says it is finished has nothing waiting or queued, but for a
\* message somebody has deleted.
FinishedIsDone ==
    \A c \in Campaigns : camp[c] = "sent" =>
        \A r \in In(c, {"pending", "queued"}) : <<c, Number[r]>> \in deleted

\* The operators of a campaign attend the conversation of everyone whose reply it
\* is credited with, old conversation or new.
CreditIsAttended ==
    \A c \in Campaigns, r \in Records :
        trace[c][r].replied => Operators[c] \subseteq chan[Number[r]]

\* Somebody waits for whom the text cannot be rendered.
Unrenderable(c) == In(c, {"pending"}) \cap Broken[c] # {}

\* A small campaign behind a large one or behind one that cannot be rendered, a
\* slice rounded to nothing, a share spent for the day, a send that fails: no
\* campaign that can be rendered goes on sending for ever, as long as the number
\* is up again and again and its failures do not leave it paused.
CampaignEnds ==
    \A c \in Campaigns :
        []<>line.up /\ <>[](~line.paused /\ ~Unrenderable(c)) => []<>(camp[c] # "sending")
=============================================================================
