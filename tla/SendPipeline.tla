---------------------------- MODULE SendPipeline ----------------------------
(***************************************************************************)
(* One outgoing message from the Odoo record to WhatsApp: the Odoo         *)
(* transactions that run action_send (the queue cron and people pressing   *)
(* Send), the gateway handler each of their POSTs starts (handleSend and   *)
(* handleSendMedia), and the send guard that makes a retry replay the      *)
(* first result.  Odoo runs at snapshot isolation, so a transaction sees   *)
(* the row as it was when it began and is rolled back when it writes a row *)
(* somebody else changed since.                                            *)
(*                                                                         *)
(* A message stands for its idempotency key: sendKey is the session's UID  *)
(* joined to the database and record id, so it is the same in every        *)
(* attempt and shared by no other message.                                 *)
(***************************************************************************)
EXTENDS Naturals, FiniteSets

CONSTANTS Workers,       \* Odoo workers, each running one transaction at a time
          Cron,          \* the worker that runs cron_process_outgoing
          Msgs,          \* outgoing messages
          None,          \* no worker
          AckMayBeLost,  \* may SendMessage fail after WhatsApp got the message?
          MaxRestarts,   \* bound: gateway restarts
          MaxSends,      \* bound: messages put on the wire
          MaxCommits     \* bound: commits of one row

ASSUME NoneAssumption == None \notin Workers
ASSUME CronAssumption == Cron \in Workers
ASSUME BoundAssumption ==
    /\ MaxRestarts \in Nat /\ MaxSends \in Nat /\ MaxCommits \in Nat
    /\ AckMayBeLost \in BOOLEAN

VARIABLES row,     \* row[m]: the committed record
          lock,    \* lock[m]: the transaction that has written the row, if any
          tx,      \* tx[w]: worker w's transaction
          hnd,     \* hnd[w]: the gateway handler serving w's POST
          guard,   \* guard[m]: the send guard's entry, sendCache.byKey
          wire,    \* wire[m]: what WhatsApp got for m
          life,    \* how many times the gateway has restarted
          swept    \* messages whose entry the daily sweep removed in this life

odooVars    == <<row, lock, tx>>
gatewayVars == <<hnd, guard, wire, life, swept>>
vars        == <<row, lock, tx, hnd, guard, wire, life, swept>>

Failed == 0               \* an answer is a WhatsApp id, or Failed
Ids    == 1 .. MaxSends   \* WhatsApp ids, each given out once

\* The states of a message that has left; receipts move it among them.
Gone == {"sent", "delivered", "read"}

Absent == [st |-> "absent", by |-> None, id |-> Failed]

WireIds(m) == {s.id : s \in wire[m]}
FreshIds   == Ids \ UNION {WireIds(m) : m \in Msgs}
NextId     == CHOOSE i \in FreshIds : TRUE

----------------------------------------------------------------------------
(* Odoo: action_send inside a transaction *)

Ended(w) == [tx EXCEPT ![w].pc = "idle", ![w].ver = 0, ![w].ans = Failed]

\* The transaction opens on the committed row.  The queue takes only outgoing
\* rows; a person may also press Send on one in error.
Begin(w, m) ==
    /\ tx[w].pc = "idle"
    /\ row[m].ver < MaxCommits
    /\ \/ row[m].state = "outgoing"
       \/ row[m].state = "error" /\ w # Cron
    /\ tx' = [tx EXCEPT ![w] = [pc |-> "begun", msg |-> m,
                                ver |-> row[m].ver, ans |-> Failed]]
    /\ UNCHANGED <<row, lock>> /\ UNCHANGED gatewayVars

\* The payload cannot be built, or the gateway does not answer the connection.
NoPost(w) ==
    /\ tx[w].pc = "begun"
    /\ tx' = [tx EXCEPT ![w].pc = "answered"]
    /\ UNCHANGED <<row, lock>> /\ UNCHANGED gatewayVars

Post(w) ==
    /\ tx[w].pc = "begun"
    /\ hnd[w].pc = "none"
    /\ tx' = [tx EXCEPT ![w].pc = "posting"]
    /\ hnd' = [hnd EXCEPT ![w] = [pc |-> "arrived", msg |-> tx[w].msg,
                                  on |-> None, ans |-> Failed]]
    /\ UNCHANGED <<row, lock, guard, wire, life, swept>>

\* requests times out or the connection breaks: _call raises, and action_send
\* takes it for a failed send.  The handler may still be running.
GiveUp(w) ==
    /\ tx[w].pc = "posting"
    /\ tx' = [tx EXCEPT ![w].pc = "answered"]
    /\ UNCHANGED <<row, lock>> /\ UNCHANGED gatewayVars

\* Mutation: the row is written whatever happened to it since the snapshot.
WriteBlind(w) ==
    LET m == tx[w].msg IN
    /\ tx[w].pc = "answered"
    /\ lock[m] = None
    /\ lock' = [lock EXCEPT ![m] = w]
    /\ tx' = [tx EXCEPT ![w].pc = "written"]
    /\ UNCHANGED row /\ UNCHANGED gatewayVars

\* rec.write: blocks while another transaction holds the row, and is rolled
\* back when the row changed after this transaction's snapshot.
Write(w) ==
    LET m == tx[w].msg IN
    /\ tx[w].pc = "answered"
    /\ lock[m] = None
    /\ \/ /\ row[m].ver = tx[w].ver
          /\ lock' = [lock EXCEPT ![m] = w]
          /\ tx' = [tx EXCEPT ![w].pc = "written"]
       \/ /\ row[m].ver # tx[w].ver
          /\ tx' = Ended(w)
          /\ UNCHANGED lock
    /\ UNCHANGED row /\ UNCHANGED gatewayVars

\* Mutation: the answer's error is not looked at before the row is marked sent.
CommitUnchecked(w) ==
    LET m == tx[w].msg IN
    /\ tx[w].pc = "written"
    /\ row' = [row EXCEPT ![m] = [state |-> "sent", wa |-> tx[w].ans, ver |-> @.ver + 1]]
    /\ lock' = [lock EXCEPT ![m] = None]
    /\ tx' = Ended(w)
    /\ UNCHANGED gatewayVars

\* What the transaction wrote becomes the record: sent with WhatsApp's id, or
\* error.
Commit(w) ==
    LET m == tx[w].msg IN
    /\ tx[w].pc = "written"
    /\ row' = [row EXCEPT ![m] =
                  [state |-> IF tx[w].ans = Failed THEN "error" ELSE "sent",
                   wa |-> tx[w].ans, ver |-> @.ver + 1]]
    /\ lock' = [lock EXCEPT ![m] = None]
    /\ tx' = Ended(w)
    /\ UNCHANGED gatewayVars

\* A crash, a killed worker, a serialisation failure on another row of the same
\* transaction: nothing it wrote survives, and the POST is already gone.
Rollback(w) ==
    /\ tx[w].pc # "idle"
    /\ tx' = Ended(w)
    /\ lock' = [m \in Msgs |-> IF lock[m] = w THEN None ELSE lock[m]]
    /\ UNCHANGED row /\ UNCHANGED gatewayVars

\* _on_receipt: WhatsApp reports on an id the row carries, in any order and as
\* often as it likes; the write waits for whoever holds the row.
Receipt(m) ==
    /\ row[m].wa # Failed
    /\ row[m].ver < MaxCommits
    /\ lock[m] = None
    /\ \E state \in {"delivered", "read"} :
          row' = [row EXCEPT ![m].state = state, ![m].ver = @ + 1]
    /\ UNCHANGED <<lock, tx>> /\ UNCHANGED gatewayVars

----------------------------------------------------------------------------
(* The gateway: one handler goroutine per POST *)

\* 400, 404 or 409, before the guard is consulted.
Refuse(w) ==
    /\ hnd[w].pc = "arrived"
    /\ hnd' = [hnd EXCEPT ![w].pc = "reply"]
    /\ UNCHANGED odooVars /\ UNCHANGED <<guard, wire, life, swept>>

\* Mutation: the key is looked up and claimed in two critical sections, so a
\* concurrent attempt is not noticed.
ClaimOpen(w) ==
    LET m == hnd[w].msg IN
    /\ hnd[w].pc = "arrived"
    /\ guard[m].st \in {"absent", "open"}
    /\ guard' = [guard EXCEPT ![m] = [st |-> "open", by |-> w, id |-> Failed]]
    /\ hnd' = [hnd EXCEPT ![w].pc = "claimed"]
    /\ UNCHANGED odooVars /\ UNCHANGED <<wire, life, swept>>

\* Mutation: only an attempt still in flight counts as a duplicate.
ClaimResolved(w) ==
    LET m == hnd[w].msg IN
    /\ hnd[w].pc = "arrived"
    /\ guard[m].st \in {"absent", "ok"}
    /\ guard' = [guard EXCEPT ![m] = [st |-> "open", by |-> w, id |-> Failed]]
    /\ hnd' = [hnd EXCEPT ![w].pc = "claimed"]
    /\ UNCHANGED odooVars /\ UNCHANGED <<wire, life, swept>>

\* sendCache.begin, the key not seen: claim it.
Claim(w) ==
    LET m == hnd[w].msg IN
    /\ hnd[w].pc = "arrived"
    /\ guard[m].st = "absent"
    /\ guard' = [guard EXCEPT ![m] = [st |-> "open", by |-> w, id |-> Failed]]
    /\ hnd' = [hnd EXCEPT ![w].pc = "claimed"]
    /\ UNCHANGED odooVars /\ UNCHANGED <<wire, life, swept>>

\* Mutation: a waiter takes the map's entry without looking whether there is one.
WaitUnchecked(w) ==
    LET m == hnd[w].msg IN
    /\ hnd[w].pc = "arrived"
    /\ guard[m].st \in {"absent", "open"}
    /\ hnd' = [hnd EXCEPT ![w].pc = "waiting", ![w].on = guard[m].by]
    /\ UNCHANGED odooVars /\ UNCHANGED <<guard, wire, life, swept>>

\* sendCache.begin, the key claimed by an attempt still in flight: wait on it.
Wait(w) ==
    LET m == hnd[w].msg IN
    /\ hnd[w].pc = "arrived"
    /\ guard[m].st = "open"
    /\ hnd' = [hnd EXCEPT ![w].pc = "waiting", ![w].on = guard[m].by]
    /\ UNCHANGED odooVars /\ UNCHANGED <<guard, wire, life, swept>>

\* sendCache.begin, the key resolved: answer with the stored result.
Replay(w) ==
    LET m == hnd[w].msg IN
    /\ hnd[w].pc = "arrived"
    /\ guard[m].st \in {"ok", "err"}
    /\ hnd' = [hnd EXCEPT ![w].pc = "reply", ![w].ans = guard[m].id]
    /\ UNCHANGED odooVars /\ UNCHANGED <<guard, wire, life, swept>>

\* Mutation: no deferred resolve, so a panic leaves the key claimed.
PanicUnresolved(w) ==
    /\ hnd[w].pc = "claimed"
    /\ hnd' = [hnd EXCEPT ![w].pc = "reply"]
    /\ UNCHANGED odooVars /\ UNCHANGED <<guard, wire, life, swept>>

\* The upload, the message building or SendMessage fails, or the handler panics
\* and its deferred resolve runs, with nothing on the wire.
FailBeforeWire(w) ==
    /\ hnd[w].pc = "claimed"
    /\ hnd' = [hnd EXCEPT ![w].pc = "resolving"]
    /\ UNCHANGED odooVars /\ UNCHANGED <<guard, wire, life, swept>>

\* SendMessage: WhatsApp has the message, and the handler an id, or an error
\* because the acknowledgement never came.
WireSend(w) ==
    LET m == hnd[w].msg IN
    /\ hnd[w].pc = "claimed"
    /\ FreshIds # {}
    /\ \E acked \in BOOLEAN :
          /\ acked \/ AckMayBeLost
          /\ wire' = [wire EXCEPT ![m] = @ \union
                         {[id |-> NextId, life |-> life, acked |-> acked]}]
          /\ hnd' = [hnd EXCEPT ![w].pc = "resolving",
                                ![w].ans = IF acked THEN NextId ELSE Failed]
    /\ UNCHANGED odooVars /\ UNCHANGED <<guard, life, swept>>

\* What close(done) does to every handler waiting on w's outcome.
Released(w) ==
    [v \in Workers |->
        IF hnd[v].pc = "waiting" /\ hnd[v].on = w
        THEN [hnd[v] EXCEPT !.pc = "reply", !.on = None, !.ans = hnd[w].ans]
        ELSE hnd[v]]

\* Mutation: a success is forgotten like a failure.
ResolveForgets(w) ==
    LET m == hnd[w].msg IN
    /\ hnd[w].pc = "resolving"
    /\ guard' = [guard EXCEPT ![m] = [st |-> "err", by |-> w, id |-> hnd[w].ans]]
    /\ hnd' = [Released(w) EXCEPT ![w].pc = "deleting"]
    /\ UNCHANGED odooVars /\ UNCHANGED <<wire, life, swept>>

\* sendCache.resolve, as far as close(out.done).
Resolve(w) ==
    LET m == hnd[w].msg IN
    /\ hnd[w].pc = "resolving"
    /\ \/ /\ hnd[w].ans # Failed
          /\ guard' = [guard EXCEPT ![m] = [st |-> "ok", by |-> None, id |-> hnd[w].ans]]
          /\ hnd' = [Released(w) EXCEPT ![w].pc = "reply"]
       \/ /\ hnd[w].ans = Failed
          /\ guard' = [guard EXCEPT ![m] = [st |-> "err", by |-> w, id |-> Failed]]
          /\ hnd' = [Released(w) EXCEPT ![w].pc = "deleting"]
    /\ UNCHANGED odooVars /\ UNCHANGED <<wire, life, swept>>

\* sendCache.resolve, the delete under the mutex: whatever the key holds goes.
DeleteKey(w) ==
    /\ hnd[w].pc = "deleting"
    /\ guard' = [guard EXCEPT ![hnd[w].msg] = Absent]
    /\ hnd' = [hnd EXCEPT ![w].pc = "reply"]
    /\ UNCHANGED odooVars /\ UNCHANGED <<wire, life, swept>>

\* writeJSON or writeReplay: the answer reaches the transaction unless it has
\* stopped listening.
Reply(w) ==
    /\ hnd[w].pc = "reply"
    /\ hnd' = [hnd EXCEPT ![w].pc = "none", ![w].ans = Failed]
    /\ \/ /\ tx[w].pc = "posting"
          /\ tx' = [tx EXCEPT ![w].pc = "answered", ![w].ans = hnd[w].ans]
       \/ tx[w].pc # "posting" /\ UNCHANGED tx
    /\ UNCHANGED <<row, lock, guard, wire, life, swept>>

\* The hourly sweep removes a resolved entry older than a day.
Sweep(m) ==
    /\ guard[m].st = "ok"
    /\ guard' = [guard EXCEPT ![m] = Absent]
    /\ swept' = swept \union {m}
    /\ UNCHANGED odooVars /\ UNCHANGED <<hnd, wire, life>>

\* The process dies and starts again: the guard was only ever in memory.
Restart ==
    /\ life < MaxRestarts
    /\ life' = life + 1
    /\ guard' = [m \in Msgs |-> Absent]
    /\ hnd' = [w \in Workers |-> [pc |-> "none", msg |-> hnd[w].msg, on |-> None,
                                  ans |-> Failed]]
    /\ swept' = {}
    /\ UNCHANGED odooVars /\ UNCHANGED wire

----------------------------------------------------------------------------
Init ==
    /\ row = [m \in Msgs |-> [state |-> "outgoing", wa |-> Failed, ver |-> 0]]
    /\ lock = [m \in Msgs |-> None]
    /\ \E m \in Msgs :
          /\ tx = [w \in Workers |-> [pc |-> "idle", msg |-> m, ver |-> 0, ans |-> Failed]]
          /\ hnd = [w \in Workers |-> [pc |-> "none", msg |-> m, on |-> None, ans |-> Failed]]
    /\ guard = [m \in Msgs |-> Absent]
    /\ wire = [m \in Msgs |-> {}]
    /\ life = 0
    /\ swept = {}

Transaction(w) ==
    \/ \E m \in Msgs : Begin(w, m)
    \/ NoPost(w) \/ Post(w) \/ GiveUp(w) \/ Write(w) \/ Commit(w) \/ Rollback(w)

Handler(w) ==
    \/ Refuse(w) \/ Claim(w) \/ Wait(w) \/ Replay(w) \/ FailBeforeWire(w)
    \/ WireSend(w) \/ Resolve(w) \/ DeleteKey(w) \/ Reply(w)

Next ==
    \/ \E w \in Workers : Transaction(w) \/ Handler(w)
    \/ \E m \in Msgs : Receipt(m) \/ Sweep(m)
    \/ Restart

Spec == Init /\ [][Next]_vars

\* Goroutines are scheduled and every call a handler makes returns: the upload
\* and SendMessage end with the request's context at the latest.
FairSpec == Spec /\ \A w \in Workers : WF_vars(Handler(w))

----------------------------------------------------------------------------
(* Properties *)

\* Every variable holds what it should, and a waiter holds an outcome.
TypeOK ==
    /\ row \in [Msgs -> [state : {"outgoing", "error"} \union Gone,
                         wa : 0 .. MaxSends, ver : Nat]]
    /\ lock \in [Msgs -> Workers \union {None}]
    /\ tx \in [Workers -> [pc : {"idle", "begun", "posting", "answered", "written"},
                           msg : Msgs, ver : Nat, ans : 0 .. MaxSends]]
    /\ hnd \in [Workers -> [pc : {"none", "arrived", "waiting", "claimed", "resolving",
                                  "deleting", "reply"},
                            msg : Msgs, on : Workers \union {None}, ans : 0 .. MaxSends]]
    /\ guard \in [Msgs -> [st : {"absent", "open", "ok", "err"},
                           by : Workers \union {None}, id : 0 .. MaxSends]]
    /\ wire \in [Msgs -> SUBSET [id : Ids, life : 0 .. MaxRestarts, acked : BOOLEAN]]
    /\ life \in 0 .. MaxRestarts
    /\ swept \in SUBSET Msgs
    /\ \A w \in Workers : hnd[w].pc = "waiting" => hnd[w].on # None

\* The handlers that may put m on the wire, or are about to publish that they did.
Senders(m) == {w \in Workers : hnd[w].msg = m /\ hnd[w].pc \in {"claimed", "resolving"}}

\* However many transactions, retries and abandoned requests carry the same
\* key, one handler at a time sends it, and none while a success is stored.
OneSenderPerKey ==
    \A m \in Msgs :
        /\ \A v, w \in Senders(m) : v = w
        /\ guard[m].st \in {"ok", "err"} => Senders(m) = {}

\* The id the gateway will answer with for m: stored, or about to be.
Remembered(m) ==
    LET done == {w \in Senders(m) : hnd[w].pc = "resolving" /\ hnd[w].ans # Failed}
    IN  IF done = {} THEN guard[m].id ELSE hnd[CHOOSE w \in done : TRUE].ans

\* While the process lives and the day has not passed, an acknowledged message
\* is the one every later attempt is answered with: no attempt can be told of
\* another one, so no attempt can have made another one.
AckedIsRemembered ==
    \A m \in Msgs : \A s \in wire[m] :
        s.acked /\ s.life = life /\ m \notin swept => s.id = Remembered(m)

\* A row that says sent, delivered or read names a message WhatsApp acknowledged
\* for that very row.
SentRowOnWire ==
    \A m \in Msgs : row[m].state \in Gone =>
        \E s \in wire[m] : s.acked /\ s.id = row[m].wa

\* Two transactions race over one row, one of them timed out or was refused: once
\* sent has been committed, nobody's error replaces it, it is not sent again, and
\* the id receipts are matched on stays.
SentIsFinal ==
    [][\A m \in Msgs : row[m].state \in Gone =>
          row'[m].state \in Gone /\ row'[m].wa = row[m].wa]_vars

\* A handler waiting for a concurrent attempt is answered whatever becomes of
\* that attempt: the deferred resolve leaves no key claimed for ever.
WaitersReleased ==
    \A w \in Workers : hnd[w].pc = "waiting" ~> hnd[w].pc # "waiting"

\* The documented promise (README.md:101, addons/whatsmeow/README.md:34): the
\* key makes sure no message reaches WhatsApp twice.
NeverSentTwice == \A m \in Msgs : \A s, t \in wire[m] : s = t

\* The guard implements the abstract "at most one delivery per memory", and
\* nothing but the sweep and a restart makes it forget.
Once == INSTANCE SendOnce WITH
            Callers   <- Workers,
            memory    <- [m \in Msgs |-> Remembered(m)],
            expired   <- swept,
            era       <- life,
            delivered <- [m \in Msgs |-> WireIds(m)],
            told      <- [w \in Workers |->
                             IF tx[w].pc \in {"answered", "written"} THEN tx[w].ans ELSE Failed]

ImplementsSendOnce == Once!OnceSpec
=============================================================================
