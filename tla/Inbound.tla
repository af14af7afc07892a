------------------------------- MODULE Inbound -------------------------------
(***************************************************************************)
(* What Odoo does with the messages the gateway reports: the webhook that  *)
(* stores them, the inbound filter and the opt-out rules, the merge of     *)
(* WhatsApp's empty first copy with the real one, the collection of files, *)
(* and the delivery of a message to its contact's chatter or to a Discuss  *)
(* conversation, which it may have to open.                                *)
(*                                                                         *)
(* Every call works in a transaction of its own on a snapshot taken when   *)
(* it begins, and its writes appear when it commits (repeatable read).     *)
(* A write to a row that another call has changed since then is refused    *)
(* and the call begins again; a unique index refuses a second insert even  *)
(* when the snapshot shows no first one.                                   *)
(***************************************************************************)
EXTENDS Naturals, Sequences, FiniteSets, SequencesExt

CONSTANTS Ids,              \* WhatsApp messages, all received by one number
          Kind, Word,       \* Kind[i] is "text" or a file's; Word[i] is what it says
          Sender, Chat,     \* its author and its conversation
          Twice,            \* messages whose first copy is empty
          Titled,           \* messages that carry their author's push name
          People, Phoned,   \* Phoned: those whose number WhatsApp tells
          Known,            \* people who are contacts from the start
          Chats, Groups,    \* Groups: conversations of more than two
          Routed,           \* chats of a number that routes to Discuss
          Rules, Default,   \* the number's inbound rules and inbound_default
          Routes, Fallback, \* its routing rules and default operators
          Calls,            \* requests and cron jobs served at a time
          MaxTries,         \* bound: deliveries of the copies of a message
          MaxEvents         \* bound: kills, collections and what people do

ASSUME InboundAssumption ==
    /\ Kind \in [Ids -> {"text", "image"}]
    /\ Sender \in [Ids -> People] /\ Chat \in [Ids -> Chats]
    /\ Twice \subseteq Ids /\ Titled \subseteq Ids
    /\ Phoned \subseteq People /\ Known \subseteq Phoned
    /\ Groups \subseteq Chats /\ Routed \subseteq Chats
    /\ \A i, j \in Ids :                           \* a private chat is one person's
          Chat[i] = Chat[j] /\ Chat[i] \notin Groups => Sender[i] = Sender[j]
    /\ Default \in {"accept", "reject"} /\ MaxTries \in [Ids -> Nat] /\ MaxEvents \in Nat

VARIABLES db,      \* the committed rows: messages, contacts, conversations
          tx,      \* tx[t]: the call t is serving, with its snapshot
          tries,   \* tries[i]: deliveries begun of the empty and the real copy
          ticks,   \* read receipts sent to WhatsApp
          files,   \* messages whose file the gateway still holds
          events   \* kills, collections and people's changes so far

vars == <<db, tx, tries, ticks, files, events>>

Free == [what |-> "nothing"]

----------------------------------------------------------------------------
(* The inbound filter *)

Facts(i, copy, known) ==
    [chat   |-> IF Chat[i] \in Groups THEN "group" ELSE "private",
     kind   |-> IF copy = "stub" THEN "text" ELSE Kind[i],
     sender |-> IF known THEN "existing" ELSE "new",
     who    |-> Sender[i],
     word   |-> Word[i],
     stub   |-> copy = "stub"]

\* Every set criterion must hold; a keyword is not judged on an empty copy.
Matches(rule, f) ==
    /\ rule.chat \in {"any", f.chat}
    /\ rule.kind \in {"any", f.kind}
    /\ rule.sender \in {"any", f.sender}
    /\ rule.who = {} \/ f.who \in rule.who
    /\ rule.word = "any" \/ (~f.stub /\ rule.word = f.word)

\* The first rule that matches; an opt-out rule never decides.
Decision(f) ==
    LET hits == SelectSeq(Rules, LAMBDA r : r.act # "optout" /\ Matches(r, f))
    IN  IF hits = <<>> THEN Default ELSE Head(hits).act

OptsOut(f) == \E r \in Range(Rules) : r.act = "optout" /\ Matches(r, f)

RouteUsers(f) ==
    LET hits == SelectSeq(Routes, LAMBDA r : Matches(r, f))
    IN  IF hits = <<>> THEN Fallback ELSE Head(hits).users

\* _inbound_optout flags the contact, when there is one, and only once.
InboundOptout(v, i, f, linked) ==
    IF linked /\ OptsOut(f) THEN [v EXCEPT !.contact[Sender[i]].out = TRUE] ELSE v

----------------------------------------------------------------------------
(* Delivery.  v is what the call has read and written so far, now what is   *)
(* committed at that moment.                                                *)

\* _find_partner: the contact with that number, which a bare LID has not.
FindPartner(v, p) == p \in Phoned /\ v.contact[p].is

Bubble(v, i) ==
    [v EXCEPT !.row[i].shown = Append(@, IF v.row[i].is = "stub" THEN "empty" ELSE "full")]

HasName(v, i) == i \in Titled \/ (v.row[i].linked /\ v.contact[Sender[i]].named)

\* _wa_refresh_channel_identity: an upgrade, over a generated name only.
Refresh(v, i) ==
    IF Chat[i] \in Groups THEN v
    ELSE [v EXCEPT !.chan[Chat[i]].partner = @ \/ v.row[i].linked,
                   !.chan[Chat[i]].name = IF HasName(v, i) /\ @ = "number" THEN "label" ELSE @]

\* _wa_correspondent_partner: an unknown private sender becomes a contact, and
\* "from" remembers the conversation it was created from.
Correspondent(v, i) ==
    LET p == Sender[i] IN
    IF Chat[i] \notin Groups /\ ~v.row[i].linked /\ p \in Phoned
    THEN [v EXCEPT !.row[i].linked = TRUE,
                   !.contact[p] = IF v.contact[p].is THEN @
                                  ELSE [is |-> TRUE, out |-> FALSE, from |-> {Chat[i]},
                                        named |-> i \in Titled]]
    ELSE v

NewChannel(v, i, seen) ==
    [v EXCEPT !.chan[Chat[i]] =
        [on |-> TRUE, partner |-> v.row[i].linked /\ Chat[i] \notin Groups,
         name |-> IF HasName(v, i) \/ Chat[i] \in Groups THEN "label" ELSE "number",
         seen |-> seen, members |-> RouteUsers([Facts(i, v.row[i].is, FALSE) EXCEPT !.sender = seen])]]

\* Mutation: the correspondent is resolved before the routes are read.
OpenChannelLate(v, now, i) ==
    LET w == Correspondent(v, i)
    IN  IF now.chan[Chat[i]].on THEN w
        ELSE Bubble(NewChannel(w, i, IF w.row[i].linked THEN "existing" ELSE "new"), i)

\* The first message of a conversation: route it as it arrived, then make sure
\* of the contact, then create the channel.  When another call has won the
\* unique index, its channel is looked for in a snapshot that does not show it.
OpenChannel(v, now, i) ==
    LET seen == IF v.row[i].linked THEN "existing" ELSE "new"
        w    == Correspondent(v, i)
    IN  IF now.chan[Chat[i]].on THEN w ELSE Bubble(NewChannel(w, i, seen), i)

\* _deliver_inbound: the chatter needs a contact, a Discuss conversation none.
Deliver(v, now, i) ==
    IF Chat[i] \notin Routed THEN (IF v.row[i].linked THEN Bubble(v, i) ELSE v)
    ELSE IF v.chan[Chat[i]].on THEN Bubble(Refresh(v, i), i)
    ELSE OpenChannel(v, now, i)

----------------------------------------------------------------------------
(* The webhook *)

\* Mutation: every message waits for a file.
PendingAlways(i) == "pending"

Pending(i) == IF Kind[i] # "text" THEN "pending" ELSE "none"

Same(v) == [db |-> v, tick |-> FALSE]

\* Mutation: the keyword of the real copy is not read again.
MergeUnread(v, now, i, copy) ==
    IF v.row[i].is = "real" \/ copy = "stub" THEN Same(v)
    ELSE LET w == [v EXCEPT !.row[i].is = "real", !.row[i].media = Pending(i)]
         IN  Same(IF Kind[i] = "text" THEN Deliver(w, now, i) ELSE w)

\* Mutation: every further copy is taken for the real one.
MergeAgain(v, now, i, copy) ==
    LET w == [v EXCEPT !.row[i].is = "real", !.row[i].media = Pending(i)]
    IN  Same(IF Kind[i] = "text" THEN Deliver(w, now, i) ELSE w)

\* Mutation: a file's message is delivered without waiting for the file.
MergeAtOnce(v, now, i, copy) ==
    IF v.row[i].is = "real" \/ copy = "stub" THEN Same(v)
    ELSE LET w == [v EXCEPT !.row[i].is = "real", !.row[i].media = Pending(i)]
         IN  Same(Deliver(w, now, i))

\* Only the real copy of a stand-in changes anything: it replaces it, its
\* keyword may opt the contact out, and it is delivered, or fetched first.
MergeDuplicate(v, now, i, copy) ==
    IF v.row[i].is = "real" \/ copy = "stub" THEN Same(v)
    ELSE LET linked == v.row[i].linked
             w == InboundOptout([v EXCEPT !.row[i].is = "real", !.row[i].media = Pending(i)],
                                i, Facts(i, "real", linked), linked)
         IN  Same(IF Kind[i] = "text" THEN Deliver(w, now, i) ELSE w)

\* A new message: opt-outs first, then the filter, the directory of groups, the
\* insert and its read receipt, the delivery.  The loser of two inserts looks
\* for the winner's row in its own snapshot, finds none and gives up.
OnNew(v, now, i, copy) ==
    LET linked == FindPartner(v, Sender[i])
        f == Facts(i, copy, linked)
        w == InboundOptout(v, i, f, linked)
        g == IF Chat[i] \in Groups THEN [w EXCEPT !.group[Chat[i]] = TRUE] ELSE w
        media == IF copy = "real" THEN Pending(i) ELSE "none"
        r == [g EXCEPT !.row[i] = [is |-> copy, media |-> media, linked |-> linked, shown |-> <<>>]]
    IN  IF Decision(f) = "reject" THEN Same(w)
        ELSE IF now.row[i].is # "none" THEN Same(g)
        ELSE [db |-> IF media = "pending" THEN r ELSE Deliver(r, now, i), tick |-> TRUE]

OnMessage(v, now, i, copy) ==
    IF v.row[i].is # "none" THEN MergeDuplicate(v, now, i, copy) ELSE OnNew(v, now, i, copy)

----------------------------------------------------------------------------
(* action_fetch_media *)

FetchMedia(v, now, i) ==
    IF v.row[i].media # "pending" THEN Same(v)
    ELSE IF i \in files THEN Same(Deliver([v EXCEPT !.row[i].media = "fetched"], now, i))
    ELSE Same([v EXCEPT !.row[i].media = "error"])

----------------------------------------------------------------------------
(* Transactions *)

Result(t) ==
    LET c == tx[t]
    IN  IF c.what = "fetch" THEN FetchMedia(c.snap, db, c.id)
        ELSE OnMessage(c.snap, db, c.id, c.copy)

Tables == {"row", "contact", "chan", "group"}

\* An insert cannot meet an update: rows, groups and channels have unique
\* indexes, and a second contact of one person counts as the first.
Created(old, table, k) == table = "group" \/ (table = "contact" /\ ~old.contact[k].is)

Changes(t, r) == {w \in UNION {{table} \X DOMAIN db[table] : table \in Tables} :
                      r.db[w[1]][w[2]] # tx[t].snap[w[1]][w[2]]}

Changed(t, w) == db[w[1]][w[2]] # tx[t].snap[w[1]][w[2]]

Conflict(t, r) == \E w \in Changes(t, r) : Changed(t, w) /\ ~Created(tx[t].snap, w[1], w[2])

\* The rows as they are, but for what the call has written.
Merged(t, r) ==
    LET mine == {w \in Changes(t, r) : ~Changed(t, w)} IN
    [table \in Tables |-> [k \in DOMAIN db[table] |->
        IF <<table, k>> \in mine THEN r.db[table][k] ELSE db[table][k]]]

\* What a call has done outside the database by the time it ends.
Effects(t, r) ==
    /\ ticks' = IF r.tick THEN [ticks EXCEPT ![tx[t].id] = @ + 1] ELSE ticks
    /\ files' = IF tx[t].what = "fetch" THEN files \ {tx[t].id} ELSE files

\* The gateway reports a copy, once more if it had no answer in time.
Receive(t, i, copy) ==
    /\ tx[t] = Free /\ tries[i].stub + tries[i].real < MaxTries[i]
    /\ copy = "stub" => i \in Twice
    /\ copy = "real" /\ i \in Twice => tries[i]["stub"] > 0
    /\ tries' = [tries EXCEPT ![i][copy] = @ + 1]
    /\ tx' = [tx EXCEPT ![t] = [what |-> "message", id |-> i, copy |-> copy, snap |-> db]]
    /\ UNCHANGED <<db, ticks, files, events>>

\* cron_fetch_media, or the button.
StartFetch(t, i) ==
    /\ tx[t] = Free /\ db.row[i].media = "pending"
    /\ tx' = [tx EXCEPT ![t] = [what |-> "fetch", id |-> i, copy |-> "real", snap |-> db]]
    /\ UNCHANGED <<db, tries, ticks, files, events>>

Commit(t) ==
    /\ tx[t] # Free
    /\ LET r == Result(t) IN
          ~Conflict(t, r) /\ db' = Merged(t, r) /\ Effects(t, r)
    /\ tx' = [tx EXCEPT ![t] = Free]
    /\ UNCHANGED <<tries, events>>

\* A request begins again; the cron goes on and finds the file another time.
Retry(t) ==
    /\ tx[t] # Free
    /\ LET r == Result(t) IN
          Conflict(t, r) /\ (Effects(t, r) \/ UNCHANGED <<ticks, files>>)
    /\ tx' = [tx EXCEPT ![t] = IF tx[t].what = "fetch" THEN Free ELSE [@ EXCEPT !.snap = db]]
    /\ UNCHANGED <<db, tries, events>>

\* The worker dies, or the delivery raises, before or after the outside world
\* has seen the call.
Kill(t) ==
    /\ tx[t] # Free
    /\ tx' = [tx EXCEPT ![t] = Free]
    /\ Effects(t, Result(t)) \/ UNCHANGED <<ticks, files>>
    /\ UNCHANGED <<db, tries>>

\* The gateway's own collection of old files.
Collect(i) == files' = files \ {i} /\ i \in files /\ UNCHANGED <<db, tx, tries, ticks>>

AddContact(p) ==
    /\ ~db.contact[p].is
    /\ db' = [db EXCEPT !.contact[p] = [is |-> TRUE, out |-> FALSE, from |-> {}, named |-> TRUE]]
    /\ UNCHANGED <<tx, tries, ticks, files>>

Rename(c) ==
    /\ db.chan[c].on /\ db.chan[c].name # "hand"
    /\ db' = [db EXCEPT !.chan[c].name = "hand"]
    /\ UNCHANGED <<tx, tries, ticks, files>>

Others ==
    /\ events < MaxEvents /\ events' = events + 1
    /\ \/ \E t \in Calls : Kill(t)
       \/ \E i \in Ids : Collect(i)
       \/ \E p \in People : AddContact(p)
       \/ \E c \in Chats : Rename(c)

NoRow == [is |-> "none", media |-> "none", linked |-> FALSE, shown |-> <<>>]
NoChannel == [on |-> FALSE, partner |-> FALSE, name |-> "number", seen |-> "new", members |-> {}]

Init ==
    /\ db = [row     |-> [i \in Ids |-> NoRow],
             contact |-> [p \in People |-> [is |-> p \in Known, out |-> FALSE, from |-> {},
                                            named |-> p \in Known]],
             chan    |-> [c \in Chats |-> NoChannel],
             group   |-> [c \in Chats |-> FALSE]]
    /\ tx = [t \in Calls |-> Free]
    /\ tries = [i \in Ids |-> [stub |-> 0, real |-> 0]]
    /\ ticks = [i \in Ids |-> 0]
    /\ files = {i \in Ids : Kind[i] # "text"}
    /\ events = 0

Next ==
    \/ \E t \in Calls, i \in Ids, copy \in {"stub", "real"} : Receive(t, i, copy)
    \/ \E t \in Calls : Commit(t) \/ Retry(t) \/ \E i \in Ids : StartFetch(t, i)
    \/ Others

Spec == Init /\ [][Next]_vars

----------------------------------------------------------------------------
(* Properties *)

Shown(i, how) == how \in Range(db.row[i].shown)

\* Every variable holds what it should; what is stored was delivered, a file that
\* waits belongs to a real copy, and only the collection or a call takes a file
\* from the gateway.
TypeOK ==
    /\ \A i \in Ids :
          /\ db.row[i].is \in {"none", "stub", "real"}
          /\ db.row[i].media \in {"none", "pending", "fetched", "error"}
          /\ db.row[i].media # "none" <=> Kind[i] # "text" /\ db.row[i].is = "real"
          /\ db.row[i].is = "none" => db.row[i] = NoRow
          /\ db.row[i].shown \in Seq({"empty", "full"})
    /\ \A p \in People : db.contact[p].out => db.contact[p].is
    /\ \A c \in Chats : db.chan[c].name \in {"number", "label", "hand"}
    /\ \A i \in Ids : tries[i].stub + tries[i].real <= MaxTries[i]
    /\ ticks \in [Ids -> Nat] /\ files \subseteq Ids /\ events \in 0 .. MaxEvents

\* However often and however concurrently its copies arrive and its file is
\* fetched, a message's content appears once, and its stand-in once.
ShownOnce == \A i \in Ids : IsInjective(db.row[i].shown)

\* Content is shown only of a message that is stored whole, its file included.
ShownWhole ==
    \A i \in Ids : Shown(i, "full") =>
        db.row[i].is = "real" /\ (Kind[i] = "text" \/ db.row[i].media = "fetched")

\* Who asked to stop is opted out once his words are stored, whichever copy
\* brought them, if he was a contact when he wrote.
StopHeard ==
    \A i \in Ids : db.row[i].is = "real" /\ Sender[i] \in Known
                   /\ OptsOut(Facts(i, "real", TRUE)) => db.contact[Sender[i]].out

\* A conversation is routed by what its sender was when he wrote: the contact that
\* opening it creates does not make him a known one.
RoutedAsArrived ==
    \A i \in Ids : LET c == Chat[i]  p == Sender[i] IN
        c \notin Groups /\ db.chan[c].on /\ db.chan[c].seen = "existing"
            => db.contact[p].is /\ c \notin db.contact[p].from
=============================================================================
