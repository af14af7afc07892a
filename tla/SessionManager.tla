--------------------------- MODULE SessionManager ---------------------------
(***************************************************************************)
(* The gateway's sessions: the registry (in memory and in registry.json),  *)
(* the manager's map of running sessions, their WhatsApp clients and       *)
(* webhook senders, and the HTTP requests that start, re-point, log out    *)
(* and forget them, running concurrently on the handlers' goroutines.      *)
(*                                                                         *)
(* One client (one Odoo) is modelled: the client is half of the registry's *)
(* key, so the names of two clients are simply different names.  A webhook *)
(* URL counts only as registered or not; WebhookSender says what is done   *)
(* with it.  A session's status counts only as one StartSession leaves     *)
(* alone (connected, qr, starting) or one it replaces.                     *)
(***************************************************************************)
EXTENDS Naturals, FiniteSets

CONSTANTS Names,       \* session names the client uses
          NoName,      \* no name
          Procs,       \* concurrent HTTP requests
          Webhooks,    \* what a request may say of a webhook: TRUE, it names one
          Cap,         \* maxSessionsPerClient; 0 means no cap
          MaxUids,     \* bound: UIDs minted
          MaxObjects,  \* bound: session objects built in one life of the process
          MaxCrashes   \* bound: ends of the process

ASSUME BoundsAssumption ==
    /\ Cap \in Nat /\ MaxUids \in Nat /\ MaxObjects \in Nat /\ MaxCrashes \in Nat
ASSUME NamesAssumption == IsFiniteSet(Names) /\ NoName \notin Names
ASSUME WebhooksAssumption == Webhooks \in SUBSET BOOLEAN
ASSUME ProcsAssumption == IsFiniteSet(Procs) /\ Procs # {}

VARIABLES reg,      \* reg[n]: the registry entry, in memory
          disk,     \* disk[n]: the entry registry.json holds
          minted,   \* how many UIDs newUID has handed out
          store,    \* UIDs whose WhatsApp store file exists
          mgr,      \* mgr[u]: the object manager.sessions holds, or 0
          objs,     \* objs[i]: the i-th Session object of this life
          built,    \* how many there are
          running,  \* senders whose goroutine runs; the i-th was made for object i
          req,      \* req[p]: the request p is serving
          booting,  \* names restoreExisting has still to look at
          crashes,  \* how often the process has ended
          promise,  \* promise[n]: what registrations of n saved since its last forget
          raced     \* UIDs forgotten while a start of theirs was under way

regVars  == <<reg, disk, minted, promise>>
mgrVars  == <<store, mgr, objs, built, running, raced>>
bootVars == <<booting, crashes>>
vars == <<reg, disk, minted, store, mgr, objs, built, running, req, booting,
          crashes, promise, raced>>

Uids     == 1 .. MaxUids
Objects  == 1 .. MaxObjects
NoEntry  == [uid |-> 0, url |-> FALSE]
NoObject == [uid |-> 0, hooks |-> 0, alive |-> FALSE, conn |-> FALSE]
Idle     == [pc |-> "idle", name |-> NoName, uid |-> 0, url |-> FALSE, prev |-> 0, obj |-> 0]

Registered == {n \in Names : reg[n].uid # 0}
Serving    == booting = {}     \* the server listens only once restoreExisting is done
InStart(p)  == req[p].pc \in {"look", "build", "publish", "connect", "mark"}
InForget(p) == req[p].pc \in {"drop", "stop", "cut", "files"}

\* saveLocked: the file is replaced whole, or not at all.
Save(entries, saved) ==
    /\ reg' = entries
    /\ disk' = IF saved THEN entries ELSE disk

Finish(p) ==
    /\ req' = [req EXCEPT ![p] = Idle]
    /\ booting' = booting \ {req[p].name}
    /\ UNCHANGED crashes

----------------------------------------------------------------------------
(* handleStart *)

\* Mutation: no cap.
AcceptStart(p, n, url) ==
    /\ Serving /\ req[p] = Idle
    /\ req' = [req EXCEPT ![p] = [Idle EXCEPT !.pc = "claim", !.name = n, !.url = url]]
    /\ UNCHANGED regVars /\ UNCHANGED mgrVars /\ UNCHANGED bootVars

\* The cap, read apart from the claim it guards.
CheckCap(p, n, url) ==
    /\ Serving /\ req[p] = Idle
    /\ n \notin Registered /\ Cap > 0 => Cardinality(Registered) < Cap
    /\ req' = [req EXCEPT ![p] = [Idle EXCEPT !.pc = "claim", !.name = n, !.url = url]]
    /\ UNCHANGED regVars /\ UNCHANGED mgrVars /\ UNCHANGED bootVars

\* Mutation: every claim mints a UID.
ClaimMints(p) ==
    LET n == req[p].name
        e == [uid |-> minted + 1, url |-> reg[n].url \/ req[p].url]
    IN
    /\ req[p].pc = "claim"
    /\ minted < MaxUids
    /\ minted' = minted + 1
    /\ \E saved \in BOOLEAN :
          /\ Save([reg EXCEPT ![n] = e], saved)
          /\ IF saved
             THEN /\ promise' = [promise EXCEPT ![n] = [uid |-> IF @.uid = 0 THEN e.uid ELSE @.uid,
                                                        url |-> e.url]]
                  /\ req' = [req EXCEPT ![p].pc = "look", ![p].uid = e.uid]
             ELSE /\ req' = [req EXCEPT ![p] = Idle]
                  /\ UNCHANGED promise
    /\ UNCHANGED mgrVars /\ UNCHANGED bootVars

\* registry.claim: the entry is made or updated, and saved; when saving fails
\* the request is answered 500 but the entry stays in memory.
Claim(p) ==
    LET n == req[p].name
        e == [uid |-> IF reg[n].uid = 0 THEN minted + 1 ELSE reg[n].uid,
              url |-> reg[n].url \/ req[p].url]
    IN
    /\ req[p].pc = "claim"
    /\ e.uid \in Uids
    /\ minted' = IF reg[n].uid = 0 THEN minted + 1 ELSE minted
    /\ \E saved \in BOOLEAN :
          /\ Save([reg EXCEPT ![n] = e], saved)
          /\ IF saved
             THEN /\ promise' = [promise EXCEPT ![n] = [uid |-> IF @.uid = 0 THEN e.uid ELSE @.uid,
                                                        url |-> e.url]]
                  /\ req' = [req EXCEPT ![p].pc = "look", ![p].uid = e.uid]
             ELSE /\ req' = [req EXCEPT ![p] = Idle]
                  /\ UNCHANGED promise
    /\ UNCHANGED mgrVars /\ UNCHANGED bootVars

----------------------------------------------------------------------------
(* Manager.StartSession, called by handleStart and by restoreExisting *)

\* The look at the map: a session that is up is returned as it is, a dead one
\* is going to be replaced.
LookAlive(p) ==
    LET i == mgr[req[p].uid] IN
    /\ req[p].pc = "look"
    /\ i # 0 /\ objs[i].alive
    /\ Finish(p)
    /\ UNCHANGED regVars /\ UNCHANGED mgrVars

LookDead(p) ==
    LET i == mgr[req[p].uid] IN
    /\ req[p].pc = "look"
    /\ i # 0 => ~objs[i].alive
    /\ req' = [req EXCEPT ![p].pc = "build", ![p].prev = i]
    /\ UNCHANGED regVars /\ UNCHANGED mgrVars /\ UNCHANGED bootVars

\* The store cannot be opened, or holds no device that can be read.
BuildFails(p) ==
    /\ req[p].pc = "build"
    /\ store' \in {store, store \union {req[p].uid}}
    /\ Finish(p)
    /\ UNCHANGED regVars /\ UNCHANGED <<mgr, objs, built, running, raced>>

\* Mutation: a sender is only inherited.
BuildInherits(p) ==
    LET i == built + 1
        j == req[p].prev
    IN
    /\ req[p].pc = "build"
    /\ i \in Objects
    /\ built' = i
    /\ store' = store \union {req[p].uid}
    /\ running' = running \union {i}
    /\ objs' = [objs EXCEPT ![i] = [uid |-> req[p].uid, hooks |-> IF j = 0 THEN 0 ELSE objs[j].hooks,
                                    alive |-> TRUE, conn |-> FALSE]]
    /\ req' = [req EXCEPT ![p].pc = "publish", ![p].obj = i]
    /\ UNCHANGED <<mgr, raced>> /\ UNCHANGED regVars /\ UNCHANGED bootVars

\* The store, the client and the session object; a sender is started every
\* time, and the previous session's takes its place when there was one.
Build(p) ==
    LET i == built + 1
        j == req[p].prev
    IN
    /\ req[p].pc = "build"
    /\ i \in Objects
    /\ built' = i
    /\ store' = store \union {req[p].uid}
    /\ running' = running \union {i}
    /\ objs' = [objs EXCEPT ![i] = [uid |-> req[p].uid, hooks |-> IF j = 0 THEN i ELSE objs[j].hooks,
                                    alive |-> TRUE, conn |-> FALSE]]
    /\ req' = [req EXCEPT ![p].pc = "publish", ![p].obj = i]
    /\ UNCHANGED <<mgr, raced>> /\ UNCHANGED regVars /\ UNCHANGED bootVars

\* Mutation: the replaced session's sender is stopped, though it is still used.
PublishStopsPrev(p) ==
    /\ req[p].pc = "publish"
    /\ mgr' = [mgr EXCEPT ![req[p].uid] = req[p].obj]
    /\ running' = IF req[p].prev = 0 THEN running ELSE running \ {objs[req[p].prev].hooks}
    /\ req' = [req EXCEPT ![p].pc = "connect"]
    /\ UNCHANGED <<store, objs, built, raced>> /\ UNCHANGED regVars /\ UNCHANGED bootVars

Publish(p) ==
    /\ req[p].pc = "publish"
    /\ mgr' = [mgr EXCEPT ![req[p].uid] = req[p].obj]
    /\ req' = [req EXCEPT ![p].pc = "connect"]
    /\ UNCHANGED <<store, objs, built, running, raced>> /\ UNCHANGED regVars
    /\ UNCHANGED bootVars

ConnectFails(p) ==
    /\ req[p].pc = "connect"
    /\ objs' = [objs EXCEPT ![req[p].obj].alive = FALSE]
    /\ Finish(p)
    /\ UNCHANGED <<store, mgr, built, running, raced>> /\ UNCHANGED regVars

\* The client connects; from here on its events arrive.
Connect(p) ==
    /\ req[p].pc = "connect"
    /\ objs' = [objs EXCEPT ![req[p].obj].conn = TRUE]
    /\ req' = [req EXCEPT ![p].pc = "mark"]
    /\ UNCHANGED <<store, mgr, built, running, raced>> /\ UNCHANGED regVars
    /\ UNCHANGED bootVars

\* A paired session is marked connected, whatever events came meanwhile; an
\* unpaired one is left to its QR loop.
Mark(p) ==
    /\ req[p].pc = "mark"
    /\ \/ objs' = [objs EXCEPT ![req[p].obj].alive = TRUE]
       \/ UNCHANGED objs
    /\ Finish(p)
    /\ UNCHANGED <<store, mgr, built, running, raced>> /\ UNCHANGED regVars

----------------------------------------------------------------------------
(* The clients' own events, and handleLogout *)

\* Connected, or a fresh QR code.
ClientUp(i) ==
    /\ objs[i].conn
    /\ objs' = [objs EXCEPT ![i].alive = TRUE]
    /\ UNCHANGED <<store, mgr, built, running, raced, req>> /\ UNCHANGED regVars
    /\ UNCHANGED bootVars

\* Disconnected (the client goes on trying), a QR timeout, a logout from the
\* phone or through handleLogout (it does not).
ClientDown(i) ==
    /\ objs[i].conn
    /\ \E c \in BOOLEAN :
          objs' = [objs EXCEPT ![i].alive = FALSE, ![i].conn = c]
    /\ UNCHANGED <<store, mgr, built, running, raced, req>> /\ UNCHANGED regVars
    /\ UNCHANGED bootVars

----------------------------------------------------------------------------
(* handleSetWebhook and handleForget *)

\* registry.setWebhook: one critical section, and like claim it keeps in memory
\* what it could not save.
SetWebhook(p, n) ==
    /\ Serving /\ req[p] = Idle
    /\ TRUE \in Webhooks
    /\ n \in Registered
    /\ \E saved \in BOOLEAN :
          /\ Save([reg EXCEPT ![n].url = TRUE], saved)
          /\ promise' = IF saved
                        THEN [promise EXCEPT ![n] = [uid |-> reg[n].uid, url |-> TRUE]]
                        ELSE promise
    /\ UNCHANGED <<minted, req>> /\ UNCHANGED mgrVars /\ UNCHANGED bootVars

\* registry.remove: a save that fails is only logged.
ForgetRemove(p, n) ==
    /\ Serving /\ req[p] = Idle
    /\ n \in Registered
    /\ \E saved \in BOOLEAN : Save([reg EXCEPT ![n] = NoEntry], saved)
    /\ promise' = [promise EXCEPT ![n] = NoEntry]
    /\ req' = [req EXCEPT ![p] = [Idle EXCEPT !.pc = "drop", !.name = n, !.uid = reg[n].uid]]
    /\ UNCHANGED minted /\ UNCHANGED mgrVars /\ UNCHANGED bootVars

RacesWithStart(u) == \E q \in Procs : InStart(q) /\ req[q].uid = u

\* Manager.forget: the session leaves the map; a request that found none there
\* has nothing to stop.
ForgetDrop(p) ==
    LET u == req[p].uid  i == mgr[req[p].uid] IN
    /\ req[p].pc = "drop"
    /\ mgr' = [mgr EXCEPT ![u] = 0]
    /\ raced' = IF RacesWithStart(u) THEN raced \union {u} ELSE raced
    /\ req' = [req EXCEPT ![p].pc = IF i = 0 THEN "files" ELSE "stop", ![p].obj = i]
    /\ UNCHANGED <<store, objs, built, running>> /\ UNCHANGED regVars /\ UNCHANGED bootVars

\* Outside the mutex: its sender is stopped, then its client disconnected.
ForgetStop(p) ==
    /\ req[p].pc = "stop"
    /\ running' = running \ {objs[req[p].obj].hooks}
    /\ req' = [req EXCEPT ![p].pc = "cut"]
    /\ UNCHANGED <<store, mgr, objs, built, raced>> /\ UNCHANGED regVars /\ UNCHANGED bootVars

\* Mutation: the client is left connected.
ForgetCutNothing(p) ==
    /\ req[p].pc = "cut"
    /\ req' = [req EXCEPT ![p].pc = "files"]
    /\ UNCHANGED mgrVars /\ UNCHANGED regVars /\ UNCHANGED bootVars

ForgetCut(p) ==
    /\ req[p].pc = "cut"
    /\ objs' = [objs EXCEPT ![req[p].obj].conn = FALSE]
    /\ req' = [req EXCEPT ![p].pc = "files"]
    /\ UNCHANGED <<store, mgr, built, running, raced>> /\ UNCHANGED regVars /\ UNCHANGED bootVars

ForgetFiles(p) ==
    /\ req[p].pc = "files"
    /\ store' = store \ {req[p].uid}
    /\ Finish(p)
    /\ UNCHANGED <<mgr, objs, built, running, raced>> /\ UNCHANGED regVars

----------------------------------------------------------------------------
(* The process ends, and main starts it again *)

\* The registry is loaded from its file; everything else in memory is gone.
Crash ==
    /\ crashes < MaxCrashes
    /\ crashes' = crashes + 1
    /\ reg' = disk
    /\ mgr' = [u \in Uids |-> 0]
    /\ objs' = [i \in Objects |-> NoObject]
    /\ built' = 0 /\ running' = {}
    /\ req' = [p \in Procs |-> Idle]
    /\ booting' = {n \in Names : disk[n].uid # 0}
    /\ raced' = {}
    /\ UNCHANGED <<disk, minted, store, promise>>

\* restoreExisting, one entry at a time: a store file that is not there is
\* skipped.
RestoreSkips(n) ==
    /\ n \in booting /\ \A p \in Procs : req[p] = Idle
    /\ reg[n].uid \notin store
    /\ booting' = booting \ {n}
    /\ UNCHANGED <<crashes, req>> /\ UNCHANGED regVars /\ UNCHANGED mgrVars

Restore(p, n) ==
    /\ n \in booting /\ \A q \in Procs : req[q] = Idle
    /\ reg[n].uid \in store
    /\ req' = [req EXCEPT ![p] = [Idle EXCEPT !.pc = "look", !.name = n, !.uid = reg[n].uid]]
    /\ UNCHANGED regVars /\ UNCHANGED mgrVars /\ UNCHANGED bootVars

----------------------------------------------------------------------------
Init ==
    /\ reg = [n \in Names |-> NoEntry] /\ disk = reg /\ promise = reg
    /\ minted = 0 /\ store = {}
    /\ mgr = [u \in Uids |-> 0]
    /\ objs = [i \in Objects |-> NoObject] /\ built = 0 /\ running = {}
    /\ req = [p \in Procs |-> Idle]
    /\ booting = {} /\ crashes = 0 /\ raced = {}

StartSession(p) ==
    \/ LookAlive(p) \/ LookDead(p) \/ BuildFails(p) \/ Build(p) \/ Publish(p)
    \/ ConnectFails(p) \/ Connect(p) \/ Mark(p)

Request(p) ==
    \/ \E n \in Names, url \in Webhooks : CheckCap(p, n, url)
    \/ Claim(p)
    \/ StartSession(p)
    \/ \E n \in Names : SetWebhook(p, n) \/ ForgetRemove(p, n) \/ Restore(p, n)
    \/ ForgetDrop(p) \/ ForgetStop(p) \/ ForgetCut(p) \/ ForgetFiles(p)

Next ==
    \/ \E p \in Procs : Request(p)
    \/ \E i \in Objects : ClientUp(i) \/ ClientDown(i)
    \/ \E n \in Names : RestoreSkips(n)
    \/ Crash

Spec == Init /\ [][Next]_vars

----------------------------------------------------------------------------
(* Properties *)

Entry == [uid : 0 .. MaxUids, url : BOOLEAN]

\* Every variable holds what it should, and every session object built has a
\* sender: its own or an older object's.
TypeOK ==
    /\ reg \in [Names -> Entry] /\ disk \in [Names -> Entry] /\ promise \in [Names -> Entry]
    /\ minted \in 0 .. MaxUids /\ store \in SUBSET Uids
    /\ mgr \in [Uids -> 0 .. MaxObjects]
    /\ objs \in [Objects -> [uid : 0 .. MaxUids, hooks : 0 .. MaxObjects,
                             alive : BOOLEAN, conn : BOOLEAN]]
    /\ \A i \in 1 .. built : objs[i].hooks \in 1 .. i
    /\ built \in 0 .. MaxObjects /\ running \in SUBSET Objects
    /\ req \in [Procs -> [pc : {"idle", "claim", "look", "build", "publish", "connect",
                                "mark", "drop", "stop", "cut", "files"},
                          name : Names \union {NoName}, uid : 0 .. MaxUids, url : BOOLEAN,
                          prev : 0 .. MaxObjects, obj : 0 .. MaxObjects]]
    /\ booting \in SUBSET Names /\ crashes \in 0 .. MaxCrashes
    /\ raced \in SUBSET Uids

\* The cap is checked and used apart, so requests racing each other can exceed
\* it; they never exceed it by more than the other requests in flight.
CapBound ==
    Cap > 0 => Cardinality(Registered) <= Cap + Cardinality(Procs) - 1

BeingForgotten(u) == \E p \in Procs : InForget(p) /\ req[p].uid = u

\* A session in the map can receive and be forgotten: it is registered, so it
\* has a webhook target to look up, its store exists, and the sender it queues
\* its events on is running - also after restarts that took over the sender of
\* a session that died.
PublishedIsWhole ==
    \A u \in Uids \ raced : mgr[u] # 0 /\ ~BeingForgotten(u) =>
        /\ \E n \in Names : reg[n].uid = u
        /\ u \in store
        /\ objs[mgr[u]].hooks \in running

BeingCut(i) == \E p \in Procs : req[p].pc \in {"stop", "cut"} /\ req[p].obj = i

\* Nothing goes on receiving for a session that is not in the map: a client that
\* is the only one built for its UID is connected only while the session is in
\* the map, or the request that took it out is about to disconnect it, or when
\* it was forgotten in the middle of a start.
ClientsAreManaged ==
    \A i \in Objects :
        LET u == objs[i].uid IN
        objs[i].conn /\ u \notin raced /\ (\A j \in Objects \ {i} : objs[j].uid # u)
            => mgr[u] # 0 \/ BeingCut(i)

\* What a registration saved survives failed saves, restarts and crashes until
\* the session is forgotten: its UID, under which the paired device is filed,
\* and that it has a webhook target.
PromiseKept ==
    \A n \in Names : promise[n].uid # 0 =>
        /\ reg[n].uid = promise[n].uid /\ disk[n].uid = promise[n].uid
        /\ promise[n].url => reg[n].url /\ disk[n].url
=============================================================================
