------------------------ MODULE SessionManagerProofs ------------------------
(***************************************************************************)
(* SessionManager for every set of names and requests, every cap and every *)
(* bound: its types, what a saved registration promised, the cap, what the *)
(* map publishes and what is connected.                                    *)
(***************************************************************************)
EXTENDS SessionManager, FiniteSetTheorems, TLAPS

\* What TypeOK says of each variable's members.
Object == [uid : 0 .. MaxUids, hooks : 0 .. MaxObjects, alive : BOOLEAN, conn : BOOLEAN]
Req    == [pc : {"idle", "claim", "look", "build", "publish", "connect", "mark", "drop", "stop", "cut",
                 "files"},
           name : Names \union {NoName}, uid : 0 .. MaxUids, url : BOOLEAN,
           prev : 0 .. MaxObjects, obj : 0 .. MaxObjects]

RegTypes == /\ reg \in [Names -> Entry] /\ disk \in [Names -> Entry]
            /\ promise \in [Names -> Entry]

\* A request that is being served has a name; past the claim it has a UID, and
\* the objects it holds have been built.
ReqInv ==
    /\ req \in [Procs -> Req]
    /\ \A p \in Procs :
          /\ req[p].pc # "idle" => req[p].name \in Names
          /\ req[p].pc \notin {"idle", "claim"} => req[p].uid \in Uids
          /\ req[p].prev <= built
          /\ req[p].pc \in {"publish", "connect", "mark", "stop", "cut"} => req[p].obj \in 1 .. built

MgrInv ==
    /\ built \in 0 .. MaxObjects
    /\ mgr \in [Uids -> 0 .. MaxObjects]
    /\ \A u \in Uids : mgr[u] <= built
    /\ objs \in [Objects -> Object]
    /\ \A i \in 1 .. built : objs[i].hooks \in 1 .. i

RestTypes ==
    /\ minted \in 0 .. MaxUids /\ store \in SUBSET Uids
    /\ running \in SUBSET Objects
    /\ booting \in SUBSET Names /\ crashes \in 0 .. MaxCrashes
    /\ raced \in SUBSET Uids

SInv == RegTypes /\ ReqInv /\ MgrInv /\ RestTypes

----------------------------------------------------------------------------
(* The registry *)

LEMMA UidFacts == 0 \in 0 .. MaxUids /\ \A u : u \in Uids => u \in 0 .. MaxUids /\ u # 0
BY BoundsAssumption DEF Uids

LEMMA NoEntryIsEntry == NoEntry \in Entry
BY UidFacts DEF NoEntry, Entry

\* What a claim makes of the name it claims.
LEMMA ClaimFacts ==
    ASSUME RegTypes, ReqInv, NEW p \in Procs, Claim(p)
    PROVE  \E n \in Names, e \in Entry, saved \in BOOLEAN :
              /\ n = req[p].name /\ req[p].pc = "claim"
              /\ e.uid \in Uids
              /\ reg[n].uid # 0 => e.uid = reg[n].uid
              /\ reg[n].url => e.url
              /\ reg' = [reg EXCEPT ![n] = e]
              /\ disk' = IF saved THEN reg' ELSE disk
              /\ promise' = IF saved
                            THEN [promise EXCEPT ![n] =
                                     [uid |-> IF @.uid = 0 THEN e.uid ELSE @.uid, url |-> e.url]]
                            ELSE promise
              /\ req' = IF saved
                        THEN [req EXCEPT ![p].pc = "look", ![p].uid = e.uid]
                        ELSE [req EXCEPT ![p] = Idle]
<1> DEFINE n == req[p].name
           e == [uid |-> IF reg[n].uid = 0 THEN minted + 1 ELSE reg[n].uid,
                 url |-> reg[n].url \/ req[p].url]
<1>1. n \in Names /\ req[p].pc = "claim"
  BY DEF ReqInv, Claim
<1>2. e.uid \in Uids
  BY DEF Claim
<1>3. PICK saved \in BOOLEAN :
         /\ Save([reg EXCEPT ![n] = e], saved)
         /\ IF saved
            THEN /\ promise' = [promise EXCEPT ![n] = [uid |-> IF @.uid = 0 THEN e.uid ELSE @.uid,
                                                       url |-> e.url]]
                 /\ req' = [req EXCEPT ![p].pc = "look", ![p].uid = e.uid]
            ELSE /\ req' = [req EXCEPT ![p] = Idle]
                 /\ UNCHANGED promise
  BY DEF Claim
<1>4. e.url \in BOOLEAN
  OBVIOUS
<1>5. e \in Entry
  BY <1>2, <1>4, UidFacts DEF Entry
<1>6. /\ reg[n].uid # 0 => e.uid = reg[n].uid
      /\ reg[n].url => e.url
  OBVIOUS
<1> HIDE DEF e
<1> QED
  BY <1>1, <1>2, <1>3, <1>5, <1>6 DEF Save

LEMMA RegStep == SInv /\ [Next]_vars => RegTypes'
<1> SUFFICES ASSUME SInv, [Next]_vars PROVE RegTypes'
  OBVIOUS
<1>0. RegTypes /\ ReqInv
  BY DEF SInv
<1>1. ASSUME NEW p \in Procs, Claim(p) PROVE RegTypes'
  <2>1. PICK n \in Names, e \in Entry, saved \in BOOLEAN :
              /\ e.uid \in Uids
              /\ reg' = [reg EXCEPT ![n] = e]
              /\ disk' = IF saved THEN reg' ELSE disk
              /\ promise' = IF saved
                            THEN [promise EXCEPT ![n] =
                                     [uid |-> IF @.uid = 0 THEN e.uid ELSE @.uid, url |-> e.url]]
                            ELSE promise
    BY <1>0, <1>1, ClaimFacts
  <2>2. [uid |-> IF promise[n].uid = 0 THEN e.uid ELSE promise[n].uid, url |-> e.url] \in Entry
    BY <1>0, UidFacts DEF RegTypes, Entry
  <2>3. promise' \in [Names -> Entry]
    BY <1>0, <2>1, <2>2 DEF RegTypes
  <2> QED
    BY <1>0, <2>1, <2>3 DEF RegTypes
<1>2. ASSUME NEW p \in Procs, NEW n \in Names, SetWebhook(p, n) PROVE RegTypes'
  <2>1. PICK saved \in BOOLEAN :
           /\ Save([reg EXCEPT ![n].url = TRUE], saved)
           /\ promise' = IF saved THEN [promise EXCEPT ![n] = [uid |-> reg[n].uid, url |-> TRUE]]
                         ELSE promise
    BY <1>2 DEF SetWebhook
  <2>2. [reg EXCEPT ![n].url = TRUE] \in [Names -> Entry]
    BY <1>0 DEF RegTypes, Entry
  <2>3. [uid |-> reg[n].uid, url |-> TRUE] \in Entry
    BY <1>0 DEF RegTypes, Entry
  <2> QED
    BY <1>0, <2>1, <2>2, <2>3 DEF RegTypes, Save
<1>3. ASSUME NEW p \in Procs, NEW n \in Names, ForgetRemove(p, n) PROVE RegTypes'
  BY <1>0, <1>3, NoEntryIsEntry DEF RegTypes, ForgetRemove, Save
<1>4. CASE Crash
  BY <1>0, <1>4 DEF RegTypes, Crash
<1>5. CASE UNCHANGED <<reg, disk, promise>>
  BY <1>0, <1>5 DEF RegTypes
<1> QED
  BY <1>1, <1>2, <1>3, <1>4, <1>5
  DEF Next, Request, StartSession, CheckCap, LookAlive, LookDead, BuildFails, Build, Publish,
      ConnectFails, Connect, Mark, Restore, ForgetDrop, ForgetStop, ForgetCut, ForgetFiles,
      ClientUp, ClientDown, RestoreSkips, vars, regVars

\* Every save writes the whole registry, so what a failed one left in memory is
\* never less than what the file holds of a promised entry.
LEMMA PromiseStep == SInv /\ PromiseKept /\ [Next]_vars => PromiseKept'
<1> SUFFICES ASSUME SInv, PromiseKept, [Next]_vars PROVE PromiseKept'
  OBVIOUS
<1>0. RegTypes /\ ReqInv
  BY DEF SInv
<1>1. ASSUME NEW p \in Procs, Claim(p) PROVE PromiseKept'
  <2>1. PICK n \in Names, e \in Entry, saved \in BOOLEAN :
              /\ e.uid \in Uids
              /\ reg[n].uid # 0 => e.uid = reg[n].uid
              /\ reg[n].url => e.url
              /\ reg' = [reg EXCEPT ![n] = e]
              /\ disk' = IF saved THEN reg' ELSE disk
              /\ promise' = IF saved
                            THEN [promise EXCEPT ![n] =
                                     [uid |-> IF @.uid = 0 THEN e.uid ELSE @.uid, url |-> e.url]]
                            ELSE promise
    BY <1>0, <1>1, ClaimFacts
  <2>2. reg'[n] = e /\ \A m \in Names \ {n} : reg'[m] = reg[m] /\ promise'[m] = promise[m]
    BY <1>0, <2>1 DEF RegTypes
  <2>3. CASE saved
    <3>1. /\ promise'[n].uid = IF promise[n].uid = 0 THEN e.uid ELSE promise[n].uid
          /\ promise'[n].url = e.url
      BY <1>0, <2>1, <2>3 DEF RegTypes
    <3>2. promise'[n].uid = e.uid
      BY <2>1, <3>1, UidFacts DEF PromiseKept
    <3> QED
      BY <2>1, <2>2, <2>3, <3>1, <3>2 DEF PromiseKept
  <2>4. CASE ~saved
    BY <2>1, <2>2, <2>4 DEF PromiseKept
  <2> QED
    BY <2>3, <2>4
<1>2. ASSUME NEW p \in Procs, NEW n \in Names, SetWebhook(p, n) PROVE PromiseKept'
  <2>1. PICK saved \in BOOLEAN :
           /\ reg' = [reg EXCEPT ![n].url = TRUE]
           /\ disk' = IF saved THEN reg' ELSE disk
           /\ promise' = IF saved THEN [promise EXCEPT ![n] = [uid |-> reg[n].uid, url |-> TRUE]]
                         ELSE promise
    BY <1>2 DEF SetWebhook, Save
  <2>2. reg'[n].uid = reg[n].uid /\ reg'[n].url
        /\ \A m \in Names \ {n} : reg'[m] = reg[m] /\ promise'[m] = promise[m]
    BY <1>0, <2>1 DEF RegTypes, Entry
  <2>3. CASE saved
    <3>1. promise'[n].uid = reg[n].uid
      BY <1>0, <2>1, <2>3 DEF RegTypes
    <3> QED
      BY <2>1, <2>2, <2>3, <3>1 DEF PromiseKept
  <2>4. CASE ~saved
    BY <2>1, <2>2, <2>4 DEF PromiseKept
  <2> QED
    BY <2>3, <2>4
<1>3. ASSUME NEW p \in Procs, NEW n \in Names, ForgetRemove(p, n) PROVE PromiseKept'
  <2>1. PICK saved \in BOOLEAN :
           /\ reg' = [reg EXCEPT ![n] = NoEntry]
           /\ disk' = IF saved THEN reg' ELSE disk
           /\ promise' = [promise EXCEPT ![n] = NoEntry]
    BY <1>3 DEF ForgetRemove, Save
  <2>2. promise'[n].uid = 0
        /\ \A m \in Names \ {n} : reg'[m] = reg[m] /\ promise'[m] = promise[m]
    BY <1>0, <2>1 DEF RegTypes, NoEntry
  <2> QED
    BY <2>1, <2>2 DEF PromiseKept
<1>4. CASE Crash
  BY <1>4 DEF PromiseKept, Crash
<1>5. CASE UNCHANGED <<reg, disk, promise>>
  BY <1>5 DEF PromiseKept
<1> QED
  BY <1>1, <1>2, <1>3, <1>4, <1>5
  DEF Next, Request, StartSession, CheckCap, LookAlive, LookDead, BuildFails, Build, Publish,
      ConnectFails, Connect, Mark, Restore, ForgetDrop, ForgetStop, ForgetCut, ForgetFiles,
      ClientUp, ClientDown, RestoreSkips, vars, regVars

----------------------------------------------------------------------------
(* The manager *)

LEMMA MgrStep == SInv /\ [Next]_vars => MgrInv'
<1> SUFFICES ASSUME SInv, [Next]_vars PROVE MgrInv'
  OBVIOUS
<1>0. /\ RegTypes /\ ReqInv /\ MgrInv
      /\ MaxUids \in Nat /\ MaxObjects \in Nat
  BY BoundsAssumption DEF SInv
<1>1. ASSUME NEW p \in Procs, Build(p) PROVE MgrInv'
  <2> DEFINE i == built + 1
             h == IF req[p].prev = 0 THEN i ELSE objs[req[p].prev].hooks
             o == [uid |-> req[p].uid, hooks |-> h, alive |-> TRUE, conn |-> FALSE]
  <2>1. built' = i /\ i \in Objects /\ objs' = [objs EXCEPT ![i] = o] /\ mgr' = mgr
    BY <1>1 DEF Build
  <2>2. i \in 1 .. MaxObjects /\ built \in 0 .. MaxObjects
    BY <1>0, <2>1 DEF MgrInv, Objects
  <2>3. h \in 1 .. i
    BY <1>0, <2>2 DEF ReqInv, Req, MgrInv
  <2>4. o \in Object
    BY <1>0, <2>2, <2>3 DEF ReqInv, Req, Object
  <2> HIDE DEF o, h
  <2>5. objs' \in [Objects -> Object]
    BY <1>0, <2>1, <2>4 DEF MgrInv
  <2>6. objs'[i].hooks \in 1 .. i
    BY <1>0, <2>1, <2>3 DEF MgrInv, o
  <2>7. \A j \in 1 .. built : objs'[j].hooks \in 1 .. j
    BY <1>0, <2>1, <2>2 DEF MgrInv, Objects
  <2> QED
    BY <1>0, <2>1, <2>2, <2>5, <2>6, <2>7 DEF MgrInv
<1>2. ASSUME NEW p \in Procs, Publish(p) PROVE MgrInv'
  <2>1. /\ mgr' = [mgr EXCEPT ![req[p].uid] = req[p].obj] /\ UNCHANGED <<objs, built>>
        /\ req[p].uid \in Uids /\ req[p].obj \in 1 .. built
    BY <1>0, <1>2 DEF Publish, ReqInv
  <2> QED
    BY <1>0, <2>1 DEF MgrInv
<1>3. ASSUME NEW p \in Procs, ConnectFails(p) \/ Connect(p) \/ Mark(p) \/ ForgetCut(p) PROVE MgrInv'
  <2>1. UNCHANGED <<mgr, built>>
    BY <1>3 DEF ConnectFails, Connect, Mark, ForgetCut
  <2>2. PICK a, c \in BOOLEAN :
           \/ objs' = [objs EXCEPT ![req[p].obj].alive = a]
           \/ objs' = [objs EXCEPT ![req[p].obj].conn = c]
           \/ objs' = objs
    BY <1>3 DEF ConnectFails, Connect, Mark, ForgetCut
  <2>3. objs' \in [Objects -> Object] /\ \A i \in Objects : objs'[i].hooks = objs[i].hooks
    BY <1>0, <2>2 DEF MgrInv, Object
  <2>4. \A i \in 1 .. built : i \in Objects
    BY <1>0 DEF MgrInv, Objects
  <2> QED
    BY <1>0, <2>1, <2>3, <2>4 DEF MgrInv
<1>4. ASSUME NEW j \in Objects, ClientUp(j) \/ ClientDown(j) PROVE MgrInv'
  <2>1. UNCHANGED <<mgr, built>>
    BY <1>4 DEF ClientUp, ClientDown
  <2>2. PICK o \in Object : objs' = [objs EXCEPT ![j] = o] /\ o.hooks = objs[j].hooks
    <3>1. CASE ClientUp(j)
      <4> DEFINE o == [objs[j] EXCEPT !.alive = TRUE]
      <4>1. objs' = [objs EXCEPT ![j] = o] /\ o \in Object /\ o.hooks = objs[j].hooks
        BY <1>0, <3>1 DEF ClientUp, MgrInv, Object
      <4> QED
        BY <4>1
    <3>2. CASE ClientDown(j)
      <4>1. PICK c \in BOOLEAN : objs' = [objs EXCEPT ![j].alive = FALSE, ![j].conn = c]
        BY <3>2 DEF ClientDown
      <4> DEFINE o == [objs[j] EXCEPT !.alive = FALSE, !.conn = c]
      <4>2. objs' = [objs EXCEPT ![j] = o]
        BY <1>0, <4>1 DEF MgrInv, Object
      <4>3. o \in Object /\ o.hooks = objs[j].hooks
        BY <1>0 DEF MgrInv, Object
      <4> QED
        BY <4>2, <4>3
    <3> QED
      BY <1>4, <3>1, <3>2
  <2>3. objs' \in [Objects -> Object] /\ \A i \in Objects : objs'[i].hooks = objs[i].hooks
    BY <1>0, <2>2 DEF MgrInv
  <2>4. \A i \in 1 .. built : i \in Objects
    BY <1>0 DEF MgrInv, Objects
  <2> QED
    BY <1>0, <2>1, <2>3, <2>4 DEF MgrInv
<1>5. ASSUME NEW p \in Procs, ForgetDrop(p) PROVE MgrInv'
  <2>1. UNCHANGED <<objs, built>> /\ mgr' = [mgr EXCEPT ![req[p].uid] = 0]
    BY <1>5 DEF ForgetDrop
  <2>2. 0 \in 0 .. MaxObjects /\ 0 <= built
    BY <1>0 DEF MgrInv
  <2> QED
    BY <1>0, <2>1, <2>2 DEF MgrInv
<1>6. CASE Crash
  <2>1. NoObject \in Object
    BY <1>0 DEF NoObject, Object
  <2> QED
    BY <1>0, <1>6, <2>1 DEF Crash, MgrInv
<1>7. CASE UNCHANGED <<mgr, objs, built>>
  BY <1>0, <1>7 DEF MgrInv
<1> QED
  BY <1>1, <1>2, <1>3, <1>4, <1>5, <1>6, <1>7
  DEF Next, Request, StartSession, CheckCap, Claim, LookAlive, LookDead, BuildFails, SetWebhook,
      ForgetRemove, Restore, ForgetStop, ForgetFiles, RestoreSkips, vars, mgrVars

LEMMA ReqStep == SInv /\ [Next]_vars => ReqInv'
<1> SUFFICES ASSUME SInv, [Next]_vars PROVE ReqInv'
  OBVIOUS
<1>0. /\ RegTypes /\ ReqInv /\ MgrInv /\ RestTypes
      /\ MaxUids \in Nat /\ MaxObjects \in Nat /\ built \in 0 .. MaxObjects
  BY BoundsAssumption DEF SInv, MgrInv
<1> DEFINE Good(r, b) ==
              /\ r \in Req
              /\ r.pc # "idle" => r.name \in Names
              /\ r.pc \notin {"idle", "claim"} => r.uid \in Uids
              /\ r.prev <= b
              /\ r.pc \in {"publish", "connect", "mark", "stop", "cut"} => r.obj \in 1 .. b
<1>1. \A p \in Procs : Good(req[p], built)
  BY <1>0 DEF ReqInv
<1>2. Good(Idle, built)
  BY <1>0 DEF Idle, Req
<1>3. ASSUME NEW p \in Procs, NEW r, req' = [req EXCEPT ![p] = r], built' = built, Good(r, built)
      PROVE  ReqInv'
  BY <1>0, <1>1, <1>3 DEF ReqInv
<1>4. ASSUME UNCHANGED <<req, built>> PROVE ReqInv'
  BY <1>0, <1>4 DEF ReqInv
<1> HIDE DEF Good
<1>5. ASSUME NEW p \in Procs, Finish(p), built' = built PROVE ReqInv'
  BY <1>2, <1>3, <1>5 DEF Finish
<1>6. ASSUME NEW p \in Procs, NEW n \in Names, NEW url \in Webhooks, CheckCap(p, n, url)
      PROVE  ReqInv'
  <2> DEFINE r == [Idle EXCEPT !.pc = "claim", !.name = n, !.url = url]
  <2>1. req' = [req EXCEPT ![p] = r] /\ built' = built
    BY <1>6 DEF CheckCap, mgrVars
  <2>2. url \in BOOLEAN
    BY WebhooksAssumption
  <2>3. Good(r, built)
    BY <1>0, <1>2, <2>2 DEF Req, Good
  <2> QED
    BY <1>3, <2>1, <2>3
<1>7. ASSUME NEW p \in Procs, Claim(p) PROVE ReqInv'
  <2>1. built' = built
    BY <1>7 DEF Claim, mgrVars
  <2>2. PICK e \in Entry, saved \in BOOLEAN :
           /\ e.uid \in Uids /\ req[p].pc = "claim"
           /\ req' = IF saved
                     THEN [req EXCEPT ![p].pc = "look", ![p].uid = e.uid]
                     ELSE [req EXCEPT ![p] = Idle]
    BY <1>0, <1>7, ClaimFacts
  <2>3. CASE saved
    <3> DEFINE r == [req[p] EXCEPT !.pc = "look", !.uid = e.uid]
    <3>1. req' = [req EXCEPT ![p] = r]
      BY <1>0, <2>2, <2>3 DEF ReqInv
    <3>2. Good(r, built)
      BY <1>0, <1>1, <2>2, UidFacts DEF Good, Req
    <3> QED
      BY <1>3, <2>1, <3>1, <3>2
  <2>4. CASE ~saved
    BY <1>2, <1>3, <2>1, <2>2, <2>4
  <2> QED
    BY <2>3, <2>4
<1>8. ASSUME NEW p \in Procs, LookDead(p) PROVE ReqInv'
  <2> DEFINE r == [req[p] EXCEPT !.pc = "build", !.prev = mgr[req[p].uid]]
  <2>1. req' = [req EXCEPT ![p] = r] /\ built' = built /\ req[p].pc = "look"
    BY <1>0, <1>8 DEF LookDead, mgrVars, ReqInv
  <2>2. mgr[req[p].uid] \in 0 .. MaxObjects /\ mgr[req[p].uid] <= built
    BY <1>0, <2>1 DEF MgrInv, ReqInv
  <2>3. Good(r, built)
    BY <1>0, <1>1, <2>1, <2>2 DEF Good, Req
  <2> QED
    BY <1>3, <2>1, <2>3
<1>9. ASSUME NEW p \in Procs, Build(p) PROVE ReqInv'
  <2>k. PICK k \in 1 .. MaxObjects : k = built + 1
    BY <1>9 DEF Build, Objects
  <2> DEFINE r == [req[p] EXCEPT !.pc = "publish", !.obj = k]
  <2>1. /\ req' = [req EXCEPT ![p] = r] /\ built' = k
        /\ req[p].pc = "build"
    BY <1>0, <1>9, <2>k DEF Build, ReqInv
  <2>2. \A q \in Procs : Good(req[q], k)
    <3>1. \A j : j \in 1 .. built => j \in 1 .. k
      BY <1>0, <2>k
    <3>2. ASSUME NEW q \in Procs PROVE req[q].prev <= k
      <4>1. req[q].prev \in 0 .. MaxObjects /\ req[q].prev <= built
        BY <1>0 DEF ReqInv, Req
      <4> QED
        BY <1>0, <2>k, <4>1
    <3> QED
      BY <1>1, <3>1, <3>2 DEF Good
  <2>3. Good(r, k)
    <3>1. Good(req[p], k) /\ k \in 1 .. k /\ k \in 0 .. MaxObjects
      BY <1>0, <2>2
    <3> QED
      BY <2>1, <3>1 DEF Good, Req
  <2>4. \A q \in Procs : Good(req'[q], k)
    BY <1>0, <2>1, <2>2, <2>3 DEF ReqInv
  <2>5. req' \in [Procs -> Req]
    BY <1>0, <2>1, <2>3 DEF ReqInv, Good
  <2> QED
    BY <2>1, <2>4, <2>5 DEF Good, ReqInv
<1>10. ASSUME NEW p \in Procs, Publish(p) \/ Connect(p) PROVE ReqInv'
  <2>1. PICK pc \in {"connect", "mark"} :
           req' = [req EXCEPT ![p].pc = pc] /\ req[p].pc \in {"publish", "connect"}
    BY <1>10 DEF Publish, Connect
  <2> DEFINE r == [req[p] EXCEPT !.pc = pc]
  <2>2. req' = [req EXCEPT ![p] = r] /\ built' = built
    BY <1>0, <1>10, <2>1 DEF Publish, Connect, ReqInv
  <2>3. Good(r, built)
    BY <1>0, <1>1, <2>1 DEF Good, Req
  <2> QED
    BY <1>3, <2>2, <2>3
<1>11. ASSUME NEW p \in Procs, NEW n \in Names, ForgetRemove(p, n) \/ Restore(p, n)
       PROVE  ReqInv'
  <2>1. PICK pc \in {"drop", "look"} :
           /\ req' = [req EXCEPT ![p] = [Idle EXCEPT !.pc = pc, !.name = n, !.uid = reg[n].uid]]
           /\ built' = built
    BY <1>11 DEF ForgetRemove, Restore, mgrVars
  <2>2. reg[n].uid \in Uids /\ reg[n].uid \in 0 .. MaxUids
    <3>1. reg[n].uid \in 0 .. MaxUids
      BY <1>0 DEF RegTypes, Entry
    <3>2. CASE ForgetRemove(p, n)
      BY <3>1, <3>2 DEF ForgetRemove, Registered, Uids
    <3>3. CASE Restore(p, n)
      BY <1>0, <3>1, <3>3 DEF Restore, RestTypes
    <3> QED
      BY <1>11, <3>1, <3>2, <3>3
  <2> DEFINE r == [Idle EXCEPT !.pc = pc, !.name = n, !.uid = reg[n].uid]
  <2>3. Good(r, built)
    BY <1>0, <1>2, <2>2 DEF Req, Good
  <2> QED
    BY <1>3, <2>1, <2>3
<1>12. ASSUME NEW p \in Procs, ForgetDrop(p) PROVE ReqInv'
  <2> DEFINE k == mgr[req[p].uid]
             r == [req[p] EXCEPT !.pc = IF k = 0 THEN "files" ELSE "stop", !.obj = k]
  <2>1. req' = [req EXCEPT ![p] = r] /\ built' = built /\ req[p].pc = "drop"
    BY <1>0, <1>12 DEF ForgetDrop, ReqInv
  <2>2. k \in 0 .. MaxObjects /\ k <= built
    BY <1>0, <2>1 DEF MgrInv, ReqInv
  <2>3. Good(req[p], built)
    BY <1>0 DEF ReqInv, Good
  <2> HIDE DEF k
  <2>4. ASSUME k = 0 PROVE Good(r, built)
    BY <2>1, <2>2, <2>3, <2>4 DEF Good, Req
  <2>5. ASSUME k # 0 PROVE Good(r, built)
    <3>1. k \in 1 .. built /\ k \in 0 .. MaxObjects
      BY <1>0, <2>2, <2>5 DEF MgrInv
    <3>2. r = [req[p] EXCEPT !.pc = "stop", !.obj = k]
      BY <2>5
    <3> QED
      BY <2>1, <2>3, <3>1, <3>2 DEF Good, Req
  <2> QED
    BY <1>3, <2>1, <2>4, <2>5
<1>15. ASSUME NEW p \in Procs, ForgetStop(p) \/ ForgetCut(p) PROVE ReqInv'
  <2>1. PICK pc \in {"cut", "files"} :
           /\ req' = [req EXCEPT ![p].pc = pc] /\ built' = built
           /\ req[p].pc \in {"stop", "cut"}
    BY <1>15 DEF ForgetStop, ForgetCut
  <2> DEFINE r == [req[p] EXCEPT !.pc = pc]
  <2>2. req' = [req EXCEPT ![p] = r]
    BY <1>0, <2>1 DEF ReqInv
  <2>3. Good(r, built)
    BY <1>0, <1>1, <2>1 DEF Good, Req
  <2> QED
    BY <1>3, <2>1, <2>2, <2>3
<1>13. CASE Crash
  <2>1. req' = [p \in Procs |-> Idle] /\ built' = 0
    BY <1>13 DEF Crash
  <2>2. Good(Idle, 0)
    BY <1>0 DEF Good, Idle, Req
  <2> QED
    BY <2>1, <2>2 DEF Good, ReqInv
<1>14. ASSUME NEW p \in Procs, LookAlive(p) \/ BuildFails(p) \/ ConnectFails(p) \/ Mark(p) \/ ForgetFiles(p)
       PROVE  ReqInv'
  BY <1>5, <1>14 DEF LookAlive, BuildFails, ConnectFails, Mark, ForgetFiles, mgrVars
<1> QED
  BY <1>4, <1>6, <1>7, <1>8, <1>9, <1>10, <1>11, <1>12, <1>13, <1>14, <1>15
  DEF Next, Request, StartSession, SetWebhook, ClientUp, ClientDown, RestoreSkips, vars, mgrVars

LEMMA RestStep == SInv /\ [Next]_vars => RestTypes'
<1> SUFFICES ASSUME SInv, [Next]_vars PROVE RestTypes'
  OBVIOUS
<1>0. /\ RegTypes /\ ReqInv /\ MgrInv /\ RestTypes
      /\ MaxUids \in Nat /\ MaxObjects \in Nat /\ MaxCrashes \in Nat
  BY BoundsAssumption DEF SInv
<1> USE <1>0 DEF RestTypes
<1>1. ASSUME NEW p \in Procs, Claim(p) PROVE RestTypes'
  <2>1. minted' \in 0 .. MaxUids
    BY <1>1 DEF Claim, Uids
  <2> QED
    BY <1>1, <2>1 DEF Claim, mgrVars, bootVars
<1>2. ASSUME NEW p \in Procs, BuildFails(p) \/ Build(p) PROVE RestTypes'
  <2>1. req[p].uid \in Uids
    BY <1>2 DEF BuildFails, Build, ReqInv
  <2> QED
    BY <1>2, <2>1 DEF BuildFails, Build, Finish, regVars, bootVars
<1>3. ASSUME NEW p \in Procs, ForgetDrop(p) \/ ForgetStop(p) \/ ForgetCut(p) PROVE RestTypes'
  <2>1. raced' \in SUBSET Uids
    BY <1>3 DEF ForgetDrop, ForgetStop, ForgetCut, ReqInv
  <2>2. running' \in SUBSET Objects
    BY <1>3 DEF ForgetDrop, ForgetStop, ForgetCut
  <2> QED
    BY <1>3, <2>1, <2>2 DEF ForgetDrop, ForgetStop, ForgetCut, regVars, bootVars
<1>4. ASSUME NEW p \in Procs, ForgetFiles(p) PROVE RestTypes'
  BY <1>4 DEF ForgetFiles, Finish, regVars
<1>5. ASSUME NEW p \in Procs, LookAlive(p) \/ ConnectFails(p) \/ Mark(p) PROVE RestTypes'
  BY <1>5 DEF LookAlive, ConnectFails, Mark, Finish, regVars, mgrVars
<1>6. ASSUME NEW n \in Names, RestoreSkips(n) PROVE RestTypes'
  BY <1>6 DEF RestoreSkips, regVars, mgrVars
<1>7. CASE Crash
  BY <1>7 DEF Crash
<1>8. CASE UNCHANGED <<minted, store, running, booting, crashes, raced>>
  BY <1>8
<1> QED
  BY <1>1, <1>2, <1>3, <1>4, <1>5, <1>6, <1>7, <1>8
  DEF Next, Request, StartSession, CheckCap, LookDead, Publish, Connect, SetWebhook,
      ForgetRemove, Restore, ClientUp, ClientDown, vars, regVars, mgrVars, bootVars

LEMMA InitManager == Init => SInv /\ PromiseKept
<1> SUFFICES ASSUME Init PROVE SInv /\ PromiseKept
  OBVIOUS
<1> USE BoundsAssumption
<1>1. RegTypes /\ PromiseKept
  BY NoEntryIsEntry DEF Init, RegTypes, PromiseKept, NoEntry
<1>2. ReqInv
  BY DEF Init, ReqInv, Idle, Req
<1>3. MgrInv
  BY DEF Init, MgrInv, NoObject, Object
<1>4. RestTypes
  BY DEF Init, RestTypes
<1> QED
  BY <1>1, <1>2, <1>3, <1>4 DEF SInv

LEMMA ManagerInvariance == Spec => [](SInv /\ PromiseKept)
<1>1. SInv /\ PromiseKept /\ [Next]_vars => (SInv /\ PromiseKept)'
  BY RegStep, ReqStep, MgrStep, RestStep, PromiseStep DEF SInv
<1> QED
  BY <1>1, InitManager, PTL DEF Spec

----------------------------------------------------------------------------
(* The cap *)

Claimers == {p \in Procs : req[p].pc = "claim"}
Claimed  == {n \in Names : \E p \in Claimers : req[p].name = n}
Wanted   == Registered \union Claimed
Kept     == {n \in Names : disk[n].uid # 0}
Limit    == Cap + Cardinality(Procs) - 1

\* The names registered and those past the check of the cap, counted together,
\* and the names that a crash would bring back.
CapInv == Cap > 0 => Cardinality(Wanted) <= Limit /\ Cardinality(Kept) <= Limit

LEMMA CardinalityOrder ==
    \A S, T \in SUBSET Names :
        /\ IsFiniteSet(S) /\ Cardinality(S) \in Nat
        /\ S \subseteq T => Cardinality(S) <= Cardinality(T)
<1> SUFFICES ASSUME NEW S \in SUBSET Names, NEW T \in SUBSET Names
             PROVE  /\ IsFiniteSet(S) /\ Cardinality(S) \in Nat
                    /\ S \subseteq T => Cardinality(S) <= Cardinality(T)
  OBVIOUS
<1>1. IsFiniteSet(S) /\ IsFiniteSet(T)
  BY NamesAssumption, FS_Subset
<1> QED
  BY <1>1, FS_Subset, FS_CardinalityType

LEMMA LimitFacts == Cardinality(Procs) \in Nat /\ Cardinality(Procs) # 0 /\ Cap \in Nat
BY ProcsAssumption, BoundsAssumption, FS_CardinalityType, FS_EmptySet

\* There are no more names being claimed than requests.
LEMMA ClaimedFew == ReqInv => Cardinality(Claimed) <= Cardinality(Procs)
<1> SUFFICES ASSUME ReqInv PROVE Cardinality(Claimed) <= Cardinality(Procs)
  OBVIOUS
<1> DEFINE f == [p \in Claimers |-> req[p].name]
<1>1. Claimers \in SUBSET Procs /\ \A p \in Claimers : req[p].name \in Claimed
  BY DEF Claimers, Claimed, ReqInv
<1>2. f \in Surjection(Claimers, Claimed)
  BY <1>1 DEF Surjection, Claimed
<1>3. /\ IsFiniteSet(Claimers) /\ Cardinality(Claimers) <= Cardinality(Procs)
      /\ Cardinality(Claimers) \in Nat /\ Cardinality(Procs) \in Nat
  BY <1>1, ProcsAssumption, FS_Subset, FS_CardinalityType
<1>4. Cardinality(Claimed) <= Cardinality(Claimers)
  BY <1>2, <1>3, FS_Surjection
<1>5. Cardinality(Claimed) \in Nat
  BY CardinalityOrder DEF Claimed
<1> QED
  BY <1>3, <1>4, <1>5

LEMMA ClaimedFewNext == ASSUME ReqInv' PROVE Cardinality(Claimed') <= Cardinality(Procs)
<1>1. (ReqInv => Cardinality(Claimed) <= Cardinality(Procs))'
  BY ClaimedFew, PTL
<1> QED
  BY <1>1

\* A step that adds no name, and writes to the file nothing but the registry.
LEMMA CapShrinks ==
    ASSUME CapInv, Wanted' \subseteq Wanted, Kept' = Kept \/ Kept' \subseteq Wanted
    PROVE  CapInv'
<1>1. /\ Wanted \in SUBSET Names /\ Wanted' \in SUBSET Names
      /\ Kept \in SUBSET Names /\ Kept' \in SUBSET Names
  BY DEF Wanted, Registered, Claimed, Kept
<1>2. Cap > 0 => Cardinality(Wanted') <= Limit /\ Cardinality(Kept') <= Limit
  <2>1. Limit \in Int
    BY LimitFacts DEF Limit
  <2>2. /\ Cardinality(Wanted) \in Nat /\ Cardinality(Wanted') \in Nat
        /\ Cardinality(Kept) \in Nat /\ Cardinality(Kept') \in Nat
        /\ Cardinality(Wanted') <= Cardinality(Wanted)
        /\ Kept' = Kept \/ Cardinality(Kept') <= Cardinality(Wanted)
    BY <1>1, CardinalityOrder
  <2> QED
    BY <2>1, <2>2 DEF CapInv
<1>3. Cardinality(Wanted)' = Cardinality(Wanted') /\ Cardinality(Kept)' = Cardinality(Kept') /\ Limit' = Limit
  BY DEF Limit
<1> QED
  BY <1>2, <1>3 DEF CapInv

LEMMA CapStep == SInv /\ SInv' /\ CapInv /\ [Next]_vars => CapInv'
<1> SUFFICES ASSUME SInv, SInv', CapInv, [Next]_vars PROVE CapInv'
  OBVIOUS
<1>0. /\ RegTypes /\ ReqInv /\ RegTypes' /\ ReqInv'
  BY DEF SInv
<1>1. ASSUME NEW p \in Procs, NEW n \in Names, NEW url \in Webhooks, CheckCap(p, n, url)
      PROVE  CapInv'
  <2> DEFINE r == [Idle EXCEPT !.pc = "claim", !.name = n, !.url = url]
  <2>1. /\ req[p] = Idle /\ req' = [req EXCEPT ![p] = r]
        /\ UNCHANGED <<reg, disk>>
        /\ n \notin Registered /\ Cap > 0 => Cardinality(Registered) < Cap
    BY <1>1 DEF CheckCap, regVars
  <2>2. Registered' = Registered /\ Kept' = Kept
    BY <2>1 DEF Registered, Kept
  <2>3. \A q \in Procs : req'[q] = req[q] \/ req'[q].name = n
    BY <1>0, <2>1 DEF ReqInv, Idle
  <2>4. Claimed' \subseteq Claimed \union {n}
    BY <2>3 DEF Claimed, Claimers
  <2>5. CASE n \in Registered
    BY <2>2, <2>4, <2>5, CapShrinks DEF Wanted
  <2>6. CASE n \notin Registered
    <3>1. Cardinality(Claimed') <= Cardinality(Procs)
      BY <1>0, ClaimedFewNext
    <3>2. /\ Registered \in SUBSET Names /\ Claimed' \in SUBSET Names
          /\ Wanted' = Registered \union Claimed' /\ Wanted' \in SUBSET Names
      BY <2>2 DEF Registered, Claimed, Wanted
    <3>3. /\ IsFiniteSet(Registered) /\ IsFiniteSet(Claimed')
          /\ Cardinality(Registered) \in Nat /\ Cardinality(Claimed') \in Nat
          /\ Cardinality(Wanted') \in Nat
          /\ Cardinality(Registered \intersect Claimed') \in Nat
      <4>1. Registered \intersect Claimed' \in SUBSET Names
        BY <3>2
      <4> QED
        BY <3>2, <4>1, CardinalityOrder
    <3>4. Cardinality(Wanted') <= Cardinality(Registered) + Cardinality(Claimed')
      <4>1. Cardinality(Registered \union Claimed') =
               Cardinality(Registered) + Cardinality(Claimed')
                 - Cardinality(Registered \intersect Claimed')
        BY <3>3, FS_Union
      <4> QED
        BY <3>2, <3>3, <4>1
    <3>5. Cap > 0 => Cardinality(Wanted') <= Limit /\ Cardinality(Kept') <= Limit
      <4>1. ASSUME Cap > 0 PROVE Cardinality(Wanted') <= Cap + Cardinality(Procs) - 1
        <5>1. Cardinality(Registered) < Cap
          BY <2>1, <2>6, <4>1
        <5> QED
          BY <3>1, <3>3, <3>4, <5>1, LimitFacts
      <4>2. Cap > 0 => Cardinality(Kept') <= Limit
        BY <2>2 DEF CapInv
      <4> QED
        BY <4>1, <4>2 DEF Limit
    <3>6. Cardinality(Wanted)' = Cardinality(Wanted') /\ Cardinality(Kept)' = Cardinality(Kept') /\ Limit' = Limit
      BY DEF Limit
    <3> QED
      BY <3>5, <3>6 DEF CapInv
  <2> QED
    BY <2>5, <2>6
<1>2. ASSUME NEW p \in Procs, Claim(p) PROVE CapInv'
  <2>1. PICK n \in Names, e \in Entry, saved \in BOOLEAN :
              /\ n = req[p].name /\ req[p].pc = "claim"
              /\ reg' = [reg EXCEPT ![n] = e]
              /\ disk' = IF saved THEN reg' ELSE disk
              /\ req' = IF saved
                        THEN [req EXCEPT ![p].pc = "look", ![p].uid = e.uid]
                        ELSE [req EXCEPT ![p] = Idle]
    BY <1>0, <1>2, ClaimFacts
  <2>2. Registered' \subseteq Registered \union {n} /\ n \in Claimed
    BY <1>0, <2>1 DEF RegTypes, Registered, Claimed, Claimers
  <2>3. req'[p].pc # "claim" /\ \A q \in Procs \ {p} : req'[q] = req[q]
    BY <1>0, <2>1 DEF ReqInv, Req, Idle
  <2>4. Claimed' \subseteq Claimed
    BY <2>3 DEF Claimed, Claimers
  <2>5. Kept' = Kept \/ Kept' = Registered'
    BY <2>1 DEF Kept, Registered
  <2> QED
    BY <2>2, <2>4, <2>5, CapShrinks DEF Wanted
<1>3. ASSUME NEW p \in Procs, NEW n \in Names, SetWebhook(p, n) \/ ForgetRemove(p, n)
      PROVE  CapInv'
  <2>1. Registered' \subseteq Registered /\ (Kept' = Kept \/ Kept' = Registered')
    BY <1>0, <1>3 DEF SetWebhook, ForgetRemove, Save, RegTypes, Entry, NoEntry, Registered, Kept
  <2>2. Claimed' \subseteq Claimed
    <3>1. req' = req \/ req' = [req EXCEPT ![p] = [Idle EXCEPT !.pc = "drop", !.name = n, !.uid = reg[n].uid]]
      BY <1>3 DEF SetWebhook, ForgetRemove
    <3>2. \A q \in Procs : req'[q] = req[q] \/ req'[q].pc # "claim"
      BY <1>0, <3>1 DEF ReqInv, Idle
    <3> QED
      BY <3>2 DEF Claimed, Claimers
  <2> QED
    BY <2>1, <2>2, CapShrinks DEF Wanted
<1>4. CASE Crash
  <2>1. Registered' = Kept /\ Kept' = Kept /\ Claimed' = {}
    BY <1>4 DEF Crash, Registered, Kept, Claimed, Claimers, Idle
  <2>2. Wanted' = Kept
    BY <2>1 DEF Wanted
  <2>3. Cap > 0 => Cardinality(Wanted') <= Limit /\ Cardinality(Kept') <= Limit
    BY <2>1, <2>2 DEF CapInv
  <2>4. Cardinality(Wanted)' = Cardinality(Wanted') /\ Cardinality(Kept)' = Cardinality(Kept') /\ Limit' = Limit
    BY DEF Limit
  <2> QED
    BY <2>3, <2>4 DEF CapInv
<1>5. ASSUME UNCHANGED <<reg, disk>>, \A q \in Procs : req'[q] = req[q] \/ req'[q].pc # "claim"
      PROVE  CapInv'
  <2>1. Registered' = Registered /\ Kept' = Kept /\ Claimed' \subseteq Claimed
    BY <1>5 DEF Registered, Kept, Claimed, Claimers
  <2> QED
    BY <2>1, CapShrinks DEF Wanted
<1>6. ASSUME NEW p \in Procs, UNCHANGED regVars, Finish(p) PROVE CapInv'
  <2>1. \A q \in Procs : req'[q] = req[q] \/ req'[q].pc # "claim"
    BY <1>0, <1>6 DEF Finish, ReqInv, Idle
  <2> QED
    BY <1>5, <1>6, <2>1 DEF regVars
<1>7. ASSUME NEW p \in Procs,
             \/ LookDead(p) \/ Build(p) \/ Publish(p) \/ Connect(p)
             \/ ForgetDrop(p) \/ ForgetStop(p) \/ ForgetCut(p)
      PROVE  CapInv'
  <2>1. UNCHANGED <<reg, disk>> /\ \A q \in Procs \ {p} : req'[q] = req[q]
    BY <1>0, <1>7 DEF LookDead, Build, Publish, Connect, ForgetDrop, ForgetStop, ForgetCut,
                        regVars, ReqInv
  <2>2. req'[p].pc # "claim"
    BY <1>0, <1>7 DEF LookDead, Build, Publish, Connect, ForgetDrop, ForgetStop, ForgetCut,
                        ReqInv, Req
  <2> QED
    BY <1>5, <2>1, <2>2
<1>8. ASSUME NEW p \in Procs, NEW n \in Names, Restore(p, n) PROVE CapInv'
  <2>1. \A q \in Procs : req'[q] = req[q] \/ req'[q].pc # "claim"
    BY <1>0, <1>8 DEF Restore, ReqInv, Idle
  <2> QED
    BY <1>5, <1>8, <2>1 DEF Restore, regVars
<1>9. ASSUME NEW p \in Procs,
             LookAlive(p) \/ BuildFails(p) \/ ConnectFails(p) \/ Mark(p) \/ ForgetFiles(p)
      PROVE  CapInv'
  BY <1>6, <1>9 DEF LookAlive, BuildFails, ConnectFails, Mark, ForgetFiles
<1>10. CASE UNCHANGED <<reg, disk, req>>
  BY <1>5, <1>10
<1> QED
  BY <1>1, <1>2, <1>3, <1>4, <1>7, <1>8, <1>9, <1>10
  DEF Next, Request, StartSession, ClientUp, ClientDown, RestoreSkips, vars, regVars

LEMMA InitCap == Init => CapInv
<1> SUFFICES ASSUME Init PROVE CapInv
  OBVIOUS
<1>1. Wanted = {} /\ Kept = {}
  BY DEF Init, Wanted, Registered, Claimed, Claimers, Kept, NoEntry, Idle
<1>2. Cardinality({}) = 0
  BY FS_EmptySet
<1>3. Cap > 0 => 0 <= Limit
  BY LimitFacts DEF Limit
<1> QED
  BY <1>1, <1>2, <1>3 DEF CapInv

LEMMA CapInvariance == Spec => []CapInv
<1>1. SInv /\ SInv' /\ CapInv /\ [Next]_vars => CapInv'
  BY CapStep
<1> QED
  BY <1>1, InitCap, ManagerInvariance, PTL DEF Spec

----------------------------------------------------------------------------
(* The theorems *)

\* Every variable keeps its type, and every session object built has a sender:
\* its own or an older object's.
THEOREM TypeCorrect == Spec => []TypeOK
<1>1. SInv => TypeOK
  BY DEF SInv, RegTypes, ReqInv, MgrInv, RestTypes, TypeOK, Req, Object
<1> QED
  BY <1>1, ManagerInvariance, PTL

\* A registration that was answered 200 survives failed saves, other requests
\* and crashes until it is forgotten (registry.claim, setWebhook and remove,
\* gateway/registry.go:322-397).
THEOREM PromisesKept == Spec => []PromiseKept
BY ManagerInvariance, PTL

\* Requests racing each other past the check of the session cap exceed it by no
\* more than one for each other request in flight, and a crash gives back no
\* more (handleStart, gateway/main.go:1391-1435, and registry.claim).
THEOREM CapHolds == Spec => []CapBound
<1>1. CapInv => CapBound
  <2>1. Registered \in SUBSET Names /\ Wanted \in SUBSET Names /\ Registered \subseteq Wanted
    BY DEF Registered, Wanted, Claimed
  <2>2. /\ Cardinality(Registered) \in Nat /\ Cardinality(Wanted) \in Nat
        /\ Cardinality(Registered) <= Cardinality(Wanted)
    BY <2>1, CardinalityOrder
  <2> QED
    BY <2>2, LimitFacts DEF CapInv, CapBound, Limit
<1> QED
  BY <1>1, CapInvariance, PTL

----------------------------------------------------------------------------
(* What the map publishes is whole, and what is connected is in the map *)

HasName(u)  == \E n \in Names : reg[n].uid = u
Dropping(u) == \E p \in Procs : req[p].pc = "drop" /\ req[p].uid = u

\* A UID is one name's for ever, in memory and in the file.
RegInv ==
    /\ \A n \in Names : reg[n].uid <= minted /\ disk[n].uid <= minted
    /\ \A m, n \in Names : reg[m].uid = reg[n].uid /\ reg[n].uid # 0 => m = n
    /\ \A m, n \in Names : disk[m].uid = disk[n].uid /\ disk[n].uid # 0 => m = n

\* What is forgotten is not registered, never will be again, and is forgotten once.
ForgetInv ==
    \A p \in Procs : InForget(p) =>
        /\ req[p].uid <= minted
        /\ ~HasName(req[p].uid)
        /\ \A q \in Procs \ {p} : InForget(q) => req[q].uid # req[p].uid

\* Objects are of the session they were built for, and so are their senders.
ObjInv ==
    /\ \A i \in Objects : i > built => objs[i].uid = 0 /\ ~objs[i].conn
    /\ \A i \in 1 .. built : objs[i].uid \in Uids /\ objs[objs[i].hooks].uid = objs[i].uid
    /\ \A u \in Uids : mgr[u] # 0 => objs[mgr[u]].uid = u
    /\ \A p \in Procs :
          /\ req[p].pc \notin {"build", "publish", "connect", "mark"} => req[p].prev = 0
          /\ req[p].pc = "build" /\ req[p].prev # 0 => objs[req[p].prev].uid = req[p].uid
          /\ req[p].pc \in {"publish", "connect", "mark", "stop", "cut"} =>
                objs[req[p].obj].uid = req[p].uid

\* What runs or starts is registered, or about to be dropped.
StartInv ==
    \A u \in Uids \ raced : mgr[u] # 0 \/ RacesWithStart(u) => HasName(u) \/ Dropping(u)

\* What is in the map, and what a start has at hand, is whole.
WholeInv ==
    /\ \A u \in Uids \ raced : mgr[u] # 0 => u \in store /\ objs[mgr[u]].hooks \in running
    /\ \A p \in Procs : req[p].uid \notin raced =>
          /\ req[p].pc = "build" /\ req[p].prev # 0 => objs[req[p].prev].hooks \in running
          /\ req[p].pc \in {"publish", "connect", "mark"} =>
                req[p].uid \in store /\ objs[req[p].obj].hooks \in running
          /\ req[p].pc \in {"connect", "mark"} => mgr[req[p].uid] # 0

\* A connected client is of a session in the map, if it is its only one, or about
\* to be disconnected.
ClientInv ==
    \A i \in 1 .. built :
        /\ objs[i].conn /\ objs[i].uid \notin raced
        /\ \A j \in Objects \ {i} : objs[j].uid # objs[i].uid
        => mgr[objs[i].uid] # 0 \/ BeingCut(i)

Safe == RegInv /\ ForgetInv /\ ObjInv /\ StartInv /\ WholeInv /\ ClientInv

----------------------------------------------------------------------------
\* What the types say, as the steps below use it.
LEMMA Shapes ==
    ASSUME SInv
    PROVE  /\ reg \in [Names -> Entry] /\ disk \in [Names -> Entry] /\ req \in [Procs -> Req]
           /\ mgr \in [Uids -> 0 .. MaxObjects] /\ objs \in [Objects -> Object]
           /\ built \in 0 .. MaxObjects /\ \A u \in Uids : mgr[u] <= built
           /\ \A i \in 1 .. built : i \in Objects /\ objs[i].hooks \in 1 .. i
           /\ \A p \in Procs :
                 /\ req[p].pc \notin {"idle", "claim"} => req[p].uid \in Uids
                 /\ req[p].prev \in 0 .. built
                 /\ req[p].pc \in {"publish", "connect", "mark", "stop", "cut"} => req[p].obj \in 1 .. built
           /\ MaxObjects \in Nat /\ MaxUids \in Nat /\ minted \in 0 .. MaxUids
  BY BoundsAssumption DEF SInv, RegTypes, ReqInv, MgrInv, RestTypes, Req, Objects

\* A step that ends requests other than a forget's, begins starts that are not
\* past the check, changes the clients' luck or adds a store file.
LEMMA Settle ==
    ASSUME SInv, SInv', Safe,
           UNCHANGED <<reg, disk, minted, mgr, built, running, raced>>,
           store \subseteq store',
           \A i \in Objects : /\ objs'[i].uid = objs[i].uid /\ objs'[i].hooks = objs[i].hooks
                              /\ objs'[i].conn => objs[i].conn,
           \A q \in Procs : \/ req'[q] = req[q]
                            \/ /\ req[q].pc \notin {"drop", "stop", "cut"}
                               /\ req'[q].pc \in {"idle", "claim"} /\ req'[q].prev = 0
    PROVE  Safe'
<1> USE Shapes DEF Safe
<1>1. RegInv'
  BY DEF RegInv
<1>2. ForgetInv'
  BY DEF ForgetInv, InForget, HasName
<1>3. ObjInv'
  BY DEF ObjInv
<1>4. StartInv'
  BY DEF StartInv, RacesWithStart, InStart, HasName, Dropping
<1>5. WholeInv'
  BY DEF WholeInv
<1>6. ClientInv'
  BY DEF ClientInv, BeingCut
<1> QED BY <1>1, <1>2, <1>3, <1>4, <1>5, <1>6

LEMMA LookDeadSafe == ASSUME SInv, SInv', Safe, NEW p \in Procs, LookDead(p) PROVE Safe'
<1> USE Shapes DEF Safe
<1>1. UNCHANGED <<reg, disk, minted, mgr, built, running, raced, store, objs>>
  BY DEF LookDead, regVars, mgrVars
<1>2. /\ req[p].pc = "look" /\ req[p].uid \in Uids
      /\ \A q \in Procs \ {p} : req'[q] = req[q]
  BY DEF LookDead
<1>3. req'[p].pc = "build" /\ req'[p].uid = req[p].uid /\ req'[p].prev = mgr[req[p].uid]
  BY DEF LookDead, Req
<1>4. RegInv'
  BY <1>1 DEF RegInv
<1>5. ForgetInv'
  BY <1>1, <1>2, <1>3 DEF ForgetInv, InForget, HasName
<1>6. ObjInv'
  BY <1>1, <1>2, <1>3 DEF ObjInv
<1>7. StartInv'
  BY <1>1, <1>2, <1>3 DEF StartInv, RacesWithStart, InStart, HasName, Dropping
<1>8. WholeInv'
  BY <1>1, <1>2, <1>3 DEF WholeInv
<1>9. ClientInv'
  BY <1>1, <1>2, <1>3 DEF ClientInv, BeingCut
<1> QED BY <1>4, <1>5, <1>6, <1>7, <1>8, <1>9

\* A new object is of the session it is built for; its sender runs, or is the
\* previous object's.
LEMMA BuildSafe == ASSUME SInv, SInv', Safe, NEW p \in Procs, Build(p) PROVE Safe'
<1> USE Shapes DEF Safe
<1> DEFINE i == built + 1
           o == [uid |-> req[p].uid, hooks |-> IF req[p].prev = 0 THEN i ELSE objs[req[p].prev].hooks,
                 alive |-> TRUE, conn |-> FALSE]
<1>1. /\ UNCHANGED <<reg, disk, minted, mgr, raced>>
      /\ i \in Objects /\ built' = i
      /\ store' = store \union {req[p].uid} /\ running' = running \union {i}
  BY DEF Build, regVars
<1>2. /\ objs'[i] = o
      /\ \A j \in Objects \ {i} : objs'[j] = objs[j]
  BY DEF Build
<1>3. /\ o.uid = req[p].uid /\ ~o.conn
      /\ o.hooks = IF req[p].prev = 0 THEN i ELSE objs[req[p].prev].hooks
  OBVIOUS
<1> HIDE DEF o
<1>4. /\ req[p].pc = "build" /\ req[p].uid \in Uids
      /\ \A q \in Procs \ {p} : req'[q] = req[q]
  BY DEF Build
<1>5. /\ req'[p].pc = "publish" /\ req'[p].uid = req[p].uid
      /\ req'[p].prev = req[p].prev /\ req'[p].obj = i
  BY DEF Build, Req
<1>6. i \in Nat /\ i \notin 1 .. built /\ 1 .. i = (1 .. built) \union {i} /\ \A j \in 1 .. built : j \in Objects \ {i}
  OBVIOUS
<1>7. /\ req[p].prev # 0 => /\ req[p].prev \in 1 .. built
                            /\ objs[req[p].prev].uid = req[p].uid
                            /\ objs[req[p].prev].hooks \in 1 .. built
      /\ req[p].prev # 0 => objs[objs[req[p].prev].hooks].uid = req[p].uid
  <2>1. ASSUME req[p].prev # 0
        PROVE  /\ req[p].prev \in 1 .. built
               /\ objs[req[p].prev].uid = req[p].uid
    BY <1>4, <2>1 DEF ObjInv
  <2>2. ASSUME req[p].prev # 0 PROVE objs[req[p].prev].hooks \in 1 .. built
    BY <2>1, <2>2
  <2> QED BY <2>1, <2>2 DEF ObjInv
<1>8. RegInv'
  BY <1>1 DEF RegInv
<1>9. ForgetInv'
  BY <1>1, <1>4, <1>5 DEF ForgetInv, InForget, HasName
<1>10. ObjInv'
  <2>1. \A j \in Objects : j > built' => objs'[j].uid = 0 /\ ~objs'[j].conn
    BY <1>1, <1>2, <1>6 DEF ObjInv, Objects
  <2>2. \A j \in 1 .. built' : objs'[j].uid \in Uids /\ objs'[objs'[j].hooks].uid = objs'[j].uid
    <3>1. ASSUME NEW j \in 1 .. built
          PROVE  objs'[j].uid \in Uids /\ objs'[objs'[j].hooks].uid = objs'[j].uid
      <4>1. objs'[j] = objs[j] /\ objs[j].hooks \in 1 .. built
        BY <1>2, <1>6
      <4>2. objs'[objs[j].hooks] = objs[objs[j].hooks]
        BY <1>2, <1>6, <4>1
      <4> QED BY <4>1, <4>2 DEF ObjInv
    <3>2. objs'[i].uid \in Uids /\ objs'[objs'[i].hooks].uid = objs'[i].uid
      <4>1. CASE req[p].prev = 0
        BY <1>2, <1>3, <1>4, <4>1
      <4>2. CASE req[p].prev # 0
        <5>1. objs'[objs[req[p].prev].hooks] = objs[objs[req[p].prev].hooks]
          BY <1>2, <1>6, <1>7, <4>2
        <5> QED BY <1>2, <1>3, <1>4, <1>7, <4>2, <5>1
      <4> QED BY <4>1, <4>2
    <3> QED BY <1>1, <1>6, <3>1, <3>2
  <2>3. \A u \in Uids : mgr'[u] # 0 => objs'[mgr'[u]].uid = u
    <3>1. \A u \in Uids : mgr[u] # 0 => mgr[u] \in 1 .. built
      OBVIOUS
    <3> QED BY <1>1, <1>2, <1>6, <3>1 DEF ObjInv
  <2>4. \A q \in Procs :
          /\ req'[q].pc \notin {"build", "publish", "connect", "mark"} => req'[q].prev = 0
          /\ req'[q].pc = "build" /\ req'[q].prev # 0 => objs'[req'[q].prev].uid = req'[q].uid
          /\ req'[q].pc \in {"publish", "connect", "mark", "stop", "cut"} =>
                objs'[req'[q].obj].uid = req'[q].uid
    <3>1. \A q \in Procs : req[q].prev # 0 => req[q].prev \in 1 .. built
      OBVIOUS
    <3> QED BY <1>2, <1>3, <1>4, <1>5, <1>6, <3>1 DEF ObjInv
  <2> QED BY <2>1, <2>2, <2>3, <2>4 DEF ObjInv
<1>11. StartInv'
  BY <1>1, <1>4, <1>5 DEF StartInv, RacesWithStart, InStart, HasName, Dropping
<1>12. WholeInv'
  <2>1. \A u \in Uids \ raced : mgr[u] # 0 => u \in store' /\ objs'[mgr[u]].hooks \in running'
    <3>1. \A u \in Uids : mgr[u] # 0 => mgr[u] \in 1 .. built
      OBVIOUS
    <3> QED BY <1>1, <1>2, <1>6, <3>1 DEF WholeInv
  <2>2. ASSUME NEW q \in Procs \ {p}, req'[q].uid \notin raced
        PROVE  /\ req'[q].pc = "build" /\ req'[q].prev # 0 => objs'[req'[q].prev].hooks \in running'
               /\ req'[q].pc \in {"publish", "connect", "mark"} =>
                     req'[q].uid \in store' /\ objs'[req'[q].obj].hooks \in running'
               /\ req'[q].pc \in {"connect", "mark"} => mgr'[req'[q].uid] # 0
    <3>1. req[q].prev # 0 => req[q].prev \in 1 .. built
      OBVIOUS
    <3> QED BY <1>1, <1>2, <1>4, <1>6, <2>2, <3>1 DEF WholeInv
  <2>3. ASSUME req'[p].uid \notin raced
        PROVE  req'[p].uid \in store' /\ objs'[req'[p].obj].hooks \in running'
    BY <1>1, <1>2, <1>3, <1>4, <1>5, <2>3 DEF WholeInv
  <2> QED BY <1>1, <1>5, <2>1, <2>2, <2>3 DEF WholeInv
<1>13. ClientInv'
  <2> SUFFICES ASSUME NEW j \in 1 .. built', objs'[j].conn, objs'[j].uid \notin raced',
                      \A k \in Objects \ {j} : objs'[k].uid # objs'[j].uid
               PROVE  mgr'[objs'[j].uid] # 0 \/ BeingCut(j)'
    BY DEF ClientInv
  <2>1. j \in 1 .. built /\ objs'[j] = objs[j]
    BY <1>1, <1>2, <1>3, <1>6
  <2>2. \A k \in Objects \ {j} : objs[k].uid # objs[j].uid
    <3>1. objs[j].uid \in Uids /\ objs[i].uid = 0
      BY <1>1, <1>6, <2>1 DEF ObjInv
    <3>2. objs[i].uid # objs[j].uid
      BY <3>1 DEF Uids
    <3> QED BY <1>2, <2>1, <3>2
  <2>3. mgr[objs[j].uid] # 0 \/ BeingCut(j)
    BY <1>1, <2>1, <2>2 DEF ClientInv
  <2> QED BY <1>1, <1>4, <2>1, <2>3 DEF BeingCut
<1> QED BY <1>8, <1>9, <1>10, <1>11, <1>12, <1>13

LEMMA PublishSafe == ASSUME SInv, SInv', Safe, NEW p \in Procs, Publish(p) PROVE Safe'
<1> USE Shapes DEF Safe
<1>1. UNCHANGED <<reg, disk, minted, built, running, raced, store, objs>>
  BY DEF Publish, regVars
<1>2. /\ req[p].pc = "publish" /\ req[p].uid \in Uids /\ req[p].obj \in 1 .. built
      /\ \A q \in Procs \ {p} : req'[q] = req[q]
      /\ mgr'[req[p].uid] = req[p].obj
      /\ \A u \in Uids \ {req[p].uid} : mgr'[u] = mgr[u]
  BY DEF Publish
<1>3. /\ req'[p].pc = "connect" /\ req'[p].uid = req[p].uid
      /\ req'[p].prev = req[p].prev /\ req'[p].obj = req[p].obj
  BY DEF Publish, Req
<1>4. RegInv'
  BY <1>1 DEF RegInv
<1>5. ForgetInv'
  BY <1>1, <1>2, <1>3 DEF ForgetInv, InForget, HasName
<1>6. ObjInv'
  BY <1>1, <1>2, <1>3 DEF ObjInv
<1>7. StartInv'
  BY <1>1, <1>2, <1>3 DEF StartInv, RacesWithStart, InStart, HasName, Dropping
<1>8. WholeInv'
  <2>1. ASSUME NEW q \in Procs, req[q].pc \in {"connect", "mark"}, req[q].uid \notin raced
        PROVE  mgr'[req[q].uid] # 0
    BY <1>2, <2>1 DEF WholeInv
  <2> QED BY <1>1, <1>2, <1>3, <2>1 DEF WholeInv
<1>9. ClientInv'
  BY <1>1, <1>2 DEF ClientInv, ObjInv, BeingCut
<1> QED BY <1>4, <1>5, <1>6, <1>7, <1>8, <1>9

LEMMA ConnectSafe == ASSUME SInv, SInv', Safe, NEW p \in Procs, Connect(p) PROVE Safe'
<1> USE Shapes DEF Safe
<1>1. UNCHANGED <<reg, disk, minted, mgr, built, running, raced, store>>
  BY DEF Connect, regVars
<1>2. /\ req[p].pc = "connect" /\ req[p].uid \in Uids /\ req[p].obj \in 1 .. built
      /\ \A q \in Procs \ {p} : req'[q] = req[q]
  BY DEF Connect
<1>3. /\ req'[p].pc = "mark" /\ req'[p].uid = req[p].uid
      /\ req'[p].prev = req[p].prev /\ req'[p].obj = req[p].obj
  BY DEF Connect, Req
<1>4. /\ \A j \in Objects : objs'[j].uid = objs[j].uid /\ objs'[j].hooks = objs[j].hooks
      /\ \A j \in Objects \ {req[p].obj} : objs'[j].conn = objs[j].conn
  BY DEF Connect, Object
<1>5. RegInv'
  BY <1>1 DEF RegInv
<1>6. ForgetInv'
  BY <1>1, <1>2, <1>3 DEF ForgetInv, InForget, HasName
<1>7. ObjInv'
  <2>1. \A j \in Objects : j > built => j # req[p].obj
    BY <1>2
  <2> QED BY <1>1, <1>2, <1>3, <1>4, <2>1 DEF ObjInv
<1>8. StartInv'
  BY <1>1, <1>2, <1>3 DEF StartInv, RacesWithStart, InStart, HasName, Dropping
<1>9. WholeInv'
  BY <1>1, <1>2, <1>3, <1>4 DEF WholeInv
<1>10. ClientInv'
  <2>1. objs[req[p].obj].uid = req[p].uid /\ (req[p].uid \notin raced => mgr[req[p].uid] # 0)
    BY <1>2 DEF ObjInv, WholeInv
  <2> QED BY <1>1, <1>2, <1>4, <2>1 DEF ClientInv, BeingCut
<1> QED BY <1>5, <1>6, <1>7, <1>8, <1>9, <1>10
LEMMA RestoreSafe ==
    ASSUME SInv, SInv', Safe, NEW p \in Procs, NEW n \in Names, Restore(p, n) PROVE Safe'
<1> USE Shapes DEF Safe
<1>1. UNCHANGED <<reg, disk, minted, mgr, built, running, raced, store, objs>>
  BY DEF Restore, regVars, mgrVars
<1>2. /\ req[p] = Idle /\ req'[p].pc = "look" /\ req'[p].uid = reg[n].uid /\ req'[p].prev = 0
      /\ \A q \in Procs \ {p} : req'[q] = req[q]
  BY DEF Restore, Idle
<1>3. req[p].pc = "idle"
  BY <1>2 DEF Idle
<1>4. RegInv'
  BY <1>1 DEF RegInv
<1>5. ForgetInv'
  BY <1>1, <1>2, <1>3 DEF ForgetInv, InForget, HasName
<1>6. ObjInv'
  BY <1>1, <1>2, <1>3 DEF ObjInv
<1>7. StartInv'
  BY <1>1, <1>2, <1>3 DEF StartInv, RacesWithStart, InStart, HasName, Dropping
<1>8. WholeInv'
  BY <1>1, <1>2, <1>3 DEF WholeInv
<1>9. ClientInv'
  BY <1>1, <1>2, <1>3 DEF ClientInv, BeingCut
<1> QED BY <1>4, <1>5, <1>6, <1>7, <1>8, <1>9

\* What a claim makes of the UIDs: the name keeps its own, or gets a new one.
LEMMA ClaimSafe == ASSUME SInv, SInv', Safe, NEW p \in Procs, Claim(p) PROVE Safe'
<1> USE Shapes DEF Safe
<1>1. UNCHANGED <<mgr, built, running, raced, store, objs>>
  BY DEF Claim, mgrVars
<1>2. PICK n \in Names, e \in Entry, saved \in BOOLEAN :
         /\ n = req[p].name /\ req[p].pc = "claim"
         /\ e.uid \in Uids
         /\ reg[n].uid # 0 => e.uid = reg[n].uid
         /\ reg' = [reg EXCEPT ![n] = e]
         /\ disk' = IF saved THEN reg' ELSE disk
         /\ req' = IF saved THEN [req EXCEPT ![p].pc = "look", ![p].uid = e.uid]
                   ELSE [req EXCEPT ![p] = Idle]
  <2>1. RegTypes /\ ReqInv
    BY DEF SInv
  <2> QED BY <2>1, ClaimFacts
<1>3. /\ reg'[n].uid = e.uid /\ \A m \in Names \ {n} : reg'[m] = reg[m]
      /\ disk' = disk \/ disk' = reg'
  BY <1>2
<1>4. /\ req[p].pc = "claim" /\ req[p].prev = 0
      /\ \A q \in Procs \ {p} : req'[q] = req[q]
      /\ req'[p].prev = 0
      /\ \/ req'[p].pc = "look" /\ req'[p].uid = e.uid
         \/ req'[p].pc = "idle"
  <2>1. req[p].prev = 0
    BY <1>2 DEF ObjInv
  <2>2. CASE saved
    BY <1>2, <2>1, <2>2 DEF Req
  <2>3. CASE ~saved
    BY <1>2, <2>1, <2>3 DEF Idle
  <2> QED BY <1>2, <2>1, <2>2, <2>3
<1>5. /\ minted' >= minted /\ minted \in Nat /\ minted' \in Nat
      /\ e.uid <= minted' /\ e.uid # 0 /\ e.uid \in Nat
      /\ e.uid = reg[n].uid \/ e.uid > minted
  <2>1. CASE reg[n].uid = 0
    <3>1. minted' = minted + 1 /\ e.uid = minted + 1
      <4>1. /\ minted' = minted + 1
            /\ \E s \in BOOLEAN :
                  Save([reg EXCEPT ![req[p].name] = [uid |-> minted + 1,
                                                     url |-> reg[req[p].name].url \/ req[p].url]], s)
        BY <1>2, <2>1 DEF Claim
      <4>2. reg'[n] = [uid |-> minted + 1, url |-> reg[n].url \/ req[p].url]
        BY <1>2, <4>1 DEF Save
      <4> QED BY <1>3, <4>1, <4>2
    <3> QED BY <3>1
  <2>2. CASE reg[n].uid # 0
    <3>1. minted' = minted /\ e.uid = reg[n].uid
      BY <1>2, <2>2 DEF Claim
    <3>2. reg[n].uid <= minted
      BY DEF RegInv
    <3> QED BY <1>2, <2>2, <3>1, <3>2 DEF Uids
  <2> QED BY <2>1, <2>2
<1>6. \A m \in Names : reg[m].uid \in Nat /\ disk[m].uid \in Nat
  BY DEF Entry
<1> HIDE <1>2
<1>7. RegInv'
  <2>1. \A m \in Names : reg'[m].uid <= minted'
    BY <1>3, <1>5, <1>6 DEF RegInv
  <2>2. \A m \in Names : disk[m].uid <= minted'
    BY <1>5, <1>6 DEF RegInv
  <2>3. ASSUME NEW k \in Names, NEW m \in Names, reg'[k].uid = reg'[m].uid, reg'[m].uid # 0
        PROVE  k = m
    BY <1>3, <1>5, <1>6, <2>3 DEF RegInv
  <2> QED BY <1>3, <2>1, <2>2, <2>3 DEF RegInv
<1>8. ForgetInv'
  <2>1. ASSUME NEW q \in Procs, InForget(q)' PROVE InForget(q) /\ req'[q] = req[q]
    BY <1>4, <2>1 DEF InForget
  <2>2. ASSUME NEW q \in Procs, InForget(q) PROVE req[q].uid <= minted' /\ ~HasName(req[q].uid)'
    <3>1. /\ req[q].uid <= minted /\ ~HasName(req[q].uid) /\ req[q].uid \in Nat
          /\ req'[q] = req[q]
      BY <1>4, <2>2 DEF ForgetInv, InForget, Uids
    <3>2. e.uid # req[q].uid
      BY <1>5, <3>1 DEF HasName
    <3> QED BY <1>3, <1>5, <3>1, <3>2 DEF HasName
  <2> QED BY <2>1, <2>2 DEF ForgetInv, HasName
<1>9. ObjInv'
  BY <1>1, <1>4 DEF ObjInv
<1>10. StartInv'
  <2>1. \A u \in Uids : HasName(u) => HasName(u)'
    BY <1>3, <1>2 DEF HasName, Uids
  <2>2. HasName(e.uid)'
    BY <1>3 DEF HasName
  <2>3. \A u \in Uids : Dropping(u) => Dropping(u)'
    BY <1>4 DEF Dropping
  <2>4. \A u \in Uids : RacesWithStart(u)' => RacesWithStart(u) \/ u = e.uid
    BY <1>4 DEF RacesWithStart, InStart
  <2> QED BY <1>1, <2>1, <2>2, <2>3, <2>4 DEF StartInv
<1>11. WholeInv'
  BY <1>1, <1>4 DEF WholeInv
<1>12. ClientInv'
  BY <1>1, <1>4 DEF ClientInv, BeingCut
<1> QED BY <1>7, <1>8, <1>9, <1>10, <1>11, <1>12

LEMMA SetWebhookSafe ==
    ASSUME SInv, SInv', Safe, NEW p \in Procs, NEW n \in Names, SetWebhook(p, n) PROVE Safe'
<1> USE Shapes DEF Safe
<1>1. UNCHANGED <<minted, mgr, built, running, raced, store, objs, req>>
  BY DEF SetWebhook, mgrVars
<1>2. /\ \A m \in Names : reg'[m].uid = reg[m].uid
      /\ disk' = disk \/ disk' = reg'
  BY DEF SetWebhook, Save, Entry
<1>3. RegInv'
  BY <1>1, <1>2 DEF RegInv
<1>4. ForgetInv'
  BY <1>1, <1>2 DEF ForgetInv, InForget, HasName
<1>5. ObjInv'
  BY <1>1 DEF ObjInv
<1>6. StartInv'
  BY <1>1, <1>2 DEF StartInv, RacesWithStart, InStart, HasName, Dropping
<1>7. WholeInv'
  BY <1>1 DEF WholeInv
<1>8. ClientInv'
  BY <1>1 DEF ClientInv, BeingCut
<1> QED BY <1>3, <1>4, <1>5, <1>6, <1>7, <1>8

\* The name goes, and nobody else has its UID.
LEMMA ForgetRemoveSafe ==
    ASSUME SInv, SInv', Safe, NEW p \in Procs, NEW n \in Names, ForgetRemove(p, n) PROVE Safe'
<1> USE Shapes DEF Safe
<1>0. PICK u \in Nat : u = reg[n].uid
  BY DEF Entry
<1>1. UNCHANGED <<minted, mgr, built, running, raced, store, objs>>
  BY DEF ForgetRemove, mgrVars
<1>2. /\ reg'[n].uid = 0 /\ \A m \in Names \ {n} : reg'[m] = reg[m]
      /\ disk' = disk \/ disk' = reg'
      /\ reg[n].uid # 0
  BY DEF ForgetRemove, Save, NoEntry, Registered
<1>3. /\ req[p].pc = "idle" /\ req'[p].pc = "drop" /\ req'[p].uid = reg[n].uid /\ req'[p].prev = 0
      /\ \A q \in Procs \ {p} : req'[q] = req[q]
  BY DEF ForgetRemove, Idle
<1>4. \A m \in Names : reg[m].uid \in Nat /\ disk[m].uid \in Nat
  BY DEF Entry
<1>5. RegInv'
  BY <1>1, <1>2, <1>4 DEF RegInv
<1>6. ForgetInv'
  <2>1. ~HasName(u)' /\ u <= minted
    BY <1>0, <1>2, <1>4 DEF HasName, RegInv
  <2>2. \A q \in Procs \ {p} : InForget(q) =>
           req[q].uid # u /\ ~HasName(req[q].uid) /\ req[q].uid \in Uids
    BY <1>0 DEF ForgetInv, HasName, InForget
  <2>3. \A v \in Uids : ~HasName(v) => ~HasName(v)'
    BY <1>2 DEF HasName, Uids
  <2>4. \A q \in Procs \ {p} : InForget(q)' <=> InForget(q)
    BY <1>3 DEF InForget
  <2> QED BY <1>0, <1>1, <1>3, <2>1, <2>2, <2>3, <2>4 DEF ForgetInv, HasName
<1>7. ObjInv'
  BY <1>1, <1>3 DEF ObjInv
<1>8. StartInv'
  <2>1. \A v \in Uids : HasName(v) => HasName(v)' \/ v = u
    BY <1>0, <1>2 DEF HasName
  <2>2. Dropping(u)'
    BY <1>0, <1>3 DEF Dropping
  <2>3. \A v \in Uids : Dropping(v) => Dropping(v)'
    BY <1>3 DEF Dropping
  <2>4. \A v \in Uids : RacesWithStart(v)' => RacesWithStart(v)
    BY <1>3 DEF RacesWithStart, InStart
  <2> QED BY <1>1, <2>1, <2>2, <2>3, <2>4 DEF StartInv
<1>9. WholeInv'
  BY <1>1, <1>3 DEF WholeInv
<1>10. ClientInv'
  BY <1>1, <1>3 DEF ClientInv, BeingCut
<1> QED BY <1>5, <1>6, <1>7, <1>8, <1>9, <1>10

\* The session leaves the map, and a start of it that is under way is raced.
LEMMA ForgetDropSafe == ASSUME SInv, SInv', Safe, NEW p \in Procs, ForgetDrop(p) PROVE Safe'
<1> USE Shapes DEF Safe
<1> DEFINE u == req[p].uid
<1>1. UNCHANGED <<reg, disk, minted, built, store, objs, running>>
  BY DEF ForgetDrop, regVars
<1>2. /\ req[p].pc = "drop" /\ u \in Uids
      /\ \A q \in Procs \ {p} : req'[q] = req[q]
  BY DEF ForgetDrop
<1>3. /\ req'[p].pc = IF mgr[u] = 0 THEN "files" ELSE "stop"
      /\ req'[p].uid = u /\ req'[p].prev = req[p].prev /\ req'[p].obj = mgr[u]
  BY DEF ForgetDrop, Req
<1>4. mgr'[u] = 0 /\ \A v \in Uids \ {u} : mgr'[v] = mgr[v]
  BY <1>2 DEF ForgetDrop
<1>5. raced' = IF RacesWithStart(u) THEN raced \union {u} ELSE raced
  BY DEF ForgetDrop
<1> HIDE DEF u
<1>6. RegInv'
  BY <1>1 DEF RegInv
<1>7. ForgetInv'
  BY <1>1, <1>2, <1>3 DEF ForgetInv, InForget, HasName, u
<1>8. ObjInv'
  <2>1. \A v \in Uids : mgr'[v] # 0 => objs'[mgr'[v]].uid = v
    BY <1>1, <1>4 DEF ObjInv
  <2>2. \A q \in Procs :
          /\ req'[q].pc \notin {"build", "publish", "connect", "mark"} => req'[q].prev = 0
          /\ req'[q].pc = "build" /\ req'[q].prev # 0 => objs'[req'[q].prev].uid = req'[q].uid
          /\ req'[q].pc \in {"publish", "connect", "mark", "stop", "cut"} =>
                objs'[req'[q].obj].uid = req'[q].uid
    BY <1>1, <1>2, <1>3 DEF ObjInv
  <2> QED BY <1>1, <2>1, <2>2 DEF ObjInv
<1>9. \A v \in Uids : RacesWithStart(v)' <=> RacesWithStart(v)
  BY <1>2, <1>3 DEF RacesWithStart, InStart
<1>10. StartInv'
  <2>1. \A v \in Uids : HasName(v)' <=> HasName(v)
    BY <1>1 DEF HasName
  <2>2. \A v \in Uids : Dropping(v) => Dropping(v)' \/ v = u
    BY <1>2 DEF Dropping, u
  <2> QED BY <1>4, <1>5, <1>9, <2>1, <2>2 DEF StartInv
<1>11. WholeInv'
  <2>1. \A v \in Uids \ raced' : mgr'[v] # 0 => v \notin raced /\ mgr'[v] = mgr[v]
    BY <1>4, <1>5
  <2>2. ASSUME NEW q \in Procs, req'[q].uid \notin raced', req[q].pc \in {"build", "publish", "connect", "mark"}
        PROVE  req'[q] = req[q] /\ req[q].uid \notin raced /\ mgr'[req[q].uid] = mgr[req[q].uid]
    <3>1. req'[q] = req[q] /\ req[q].uid \notin raced /\ InStart(q) /\ req[q].uid \in Uids
      BY <1>2, <1>5, <2>2 DEF InStart
    <3>2. req[q].uid # u
      BY <1>5, <2>2, <3>1 DEF RacesWithStart
    <3> QED BY <1>4, <3>1, <3>2
  <2>3. \A q \in Procs : req'[q].pc \in {"build", "publish", "connect", "mark"} =>
           req[q].pc \in {"build", "publish", "connect", "mark"}
    BY <1>2, <1>3
  <2> QED BY <1>1, <2>1, <2>2, <2>3 DEF WholeInv
<1>12. ClientInv'
  <2> SUFFICES ASSUME NEW i \in 1 .. built', objs'[i].conn, objs'[i].uid \notin raced',
                      \A j \in Objects \ {i} : objs'[j].uid # objs'[i].uid
               PROVE  mgr'[objs'[i].uid] # 0 \/ BeingCut(i)'
    BY DEF ClientInv
  <2>1. /\ objs[i].uid \in Uids /\ objs[i].uid \notin raced
        /\ \A j \in Objects \ {i} : objs[j].uid # objs[i].uid
    BY <1>1, <1>5 DEF ObjInv
  <2>2. mgr[objs[i].uid] # 0 \/ BeingCut(i)
    BY <1>1, <2>1 DEF ClientInv
  <2>3. BeingCut(i) => BeingCut(i)'
    BY <1>2 DEF BeingCut
  <2>4. CASE objs[i].uid = u /\ mgr[u] # 0
    <3>1. mgr[u] \in Objects /\ objs[mgr[u]].uid = u
      BY <1>2, <2>4 DEF ObjInv
    <3>2. mgr[u] = i
      BY <2>1, <2>4, <3>1
    <3> QED BY <1>3, <2>4, <3>2 DEF BeingCut
  <2>5. CASE objs[i].uid # u
    BY <1>1, <1>4, <2>1, <2>2, <2>3, <2>5
  <2> QED BY <1>1, <2>2, <2>3, <2>4, <2>5
<1> QED BY <1>6, <1>7, <1>8, <1>10, <1>11, <1>12

\* What is being forgotten is, unless it was raced, neither in the map nor started.
LEMMA ForgottenIsOut ==
    ASSUME SInv, Safe, NEW p \in Procs, req[p].pc \in {"stop", "cut", "files"}, req[p].uid \notin raced
    PROVE  mgr[req[p].uid] = 0 /\ ~RacesWithStart(req[p].uid)
<1> USE Shapes DEF Safe
<1>1. ~HasName(req[p].uid) /\ req[p].uid \in Uids
  BY DEF ForgetInv, InForget
<1>2. ~Dropping(req[p].uid)
  BY DEF ForgetInv, InForget, Dropping
<1> QED BY <1>1, <1>2 DEF StartInv

\* The sender that stops is of this session's objects only.
LEMMA ForgetStopSafe == ASSUME SInv, SInv', Safe, NEW p \in Procs, ForgetStop(p) PROVE Safe'
<1> USE Shapes DEF Safe
<1> DEFINE u == req[p].uid  k == req[p].obj
<1>1. UNCHANGED <<reg, disk, minted, built, store, mgr, objs, raced>>
  BY DEF ForgetStop, regVars
<1>2. /\ req[p].pc = "stop" /\ u \in Uids /\ k \in 1 .. built /\ objs[k].uid = u
      /\ running' = running \ {objs[k].hooks}
      /\ \A q \in Procs \ {p} : req'[q] = req[q]
  BY DEF ForgetStop, ObjInv
<1>3. req'[p].pc = "cut" /\ req'[p].uid = u /\ req'[p].prev = req[p].prev /\ req'[p].obj = k
  BY DEF ForgetStop, Req
<1>4. u \notin raced => mgr[u] = 0 /\ ~RacesWithStart(u)
  BY <1>2, ForgottenIsOut
<1> HIDE DEF u, k
<1>5. ASSUME NEW i \in 1 .. built, objs[i].hooks \in running, objs[i].uid # u
      PROVE  objs[i].hooks \in running'
  <2>1. objs[objs[k].hooks].uid = u /\ objs[objs[i].hooks].uid = objs[i].uid
    BY <1>2 DEF ObjInv
  <2> QED BY <1>2, <1>5, <2>1
<1>6. RegInv'
  BY <1>1 DEF RegInv
<1>7. ForgetInv'
  BY <1>1, <1>2, <1>3 DEF ForgetInv, InForget, HasName, u
<1>8. ObjInv'
  BY <1>1, <1>2, <1>3 DEF ObjInv
<1>9. StartInv'
  BY <1>1, <1>2, <1>3 DEF StartInv, RacesWithStart, InStart, HasName, Dropping
<1>10. WholeInv'
  <2>1. ASSUME NEW v \in Uids \ raced, mgr[v] # 0 PROVE v \in store /\ objs[mgr[v]].hooks \in running'
    <3>1. v # u
      BY <1>4, <2>1
    <3>2. v \in store /\ objs[mgr[v]].hooks \in running /\ objs[mgr[v]].uid = v /\ mgr[v] \in 1 .. built
      BY <2>1 DEF WholeInv, ObjInv
    <3> QED BY <1>5, <3>1, <3>2
  <2>2. ASSUME NEW q \in Procs, req[q].uid \notin raced, req[q].pc \in {"build", "publish", "connect", "mark"}
        PROVE  /\ req[q].pc = "build" /\ req[q].prev # 0 => objs[req[q].prev].hooks \in running'
               /\ req[q].pc # "build" => objs[req[q].obj].hooks \in running'
    <3>1. req[q].uid # u
      BY <1>4, <2>2 DEF RacesWithStart, InStart
    <3>2. /\ req[q].pc = "build" /\ req[q].prev # 0 =>
                req[q].prev \in 1 .. built /\ objs[req[q].prev].uid = req[q].uid
          /\ req[q].pc # "build" => req[q].obj \in 1 .. built /\ objs[req[q].obj].uid = req[q].uid
      BY <2>2 DEF ObjInv
    <3>3. /\ req[q].pc = "build" /\ req[q].prev # 0 => objs[req[q].prev].hooks \in running
          /\ req[q].pc # "build" => objs[req[q].obj].hooks \in running
      BY <2>2 DEF WholeInv
    <3> QED BY <1>5, <3>1, <3>2, <3>3
  <2> QED BY <1>1, <1>2, <1>3, <2>1, <2>2 DEF WholeInv
<1>11. ClientInv'
  BY <1>1, <1>2, <1>3 DEF ClientInv, BeingCut, k
<1> QED BY <1>6, <1>7, <1>8, <1>9, <1>10, <1>11

LEMMA ForgetCutSafe == ASSUME SInv, SInv', Safe, NEW p \in Procs, ForgetCut(p) PROVE Safe'
<1> USE Shapes DEF Safe
<1> DEFINE k == req[p].obj
<1>1. UNCHANGED <<reg, disk, minted, built, store, mgr, running, raced>>
  BY DEF ForgetCut, regVars
<1>2. /\ req[p].pc = "cut" /\ k \in 1 .. built /\ k \in Objects
      /\ req'[p].pc = "files" /\ req'[p].uid = req[p].uid /\ req'[p].prev = req[p].prev
      /\ \A q \in Procs \ {p} : req'[q] = req[q]
  BY DEF ForgetCut, Req
<1>3. /\ \A j \in Objects : /\ objs'[j].uid = objs[j].uid /\ objs'[j].hooks = objs[j].hooks
                            /\ objs'[j].conn => objs[j].conn
      /\ ~objs'[k].conn
  BY <1>2 DEF ForgetCut, Object
<1> HIDE DEF k
<1>4. RegInv'
  BY <1>1 DEF RegInv
<1>5. ForgetInv'
  BY <1>1, <1>2 DEF ForgetInv, InForget, HasName
<1>6. ObjInv'
  BY <1>1, <1>2, <1>3 DEF ObjInv
<1>7. StartInv'
  BY <1>1, <1>2 DEF StartInv, RacesWithStart, InStart, HasName, Dropping
<1>8. WholeInv'
  BY <1>1, <1>2, <1>3 DEF WholeInv
<1>9. ClientInv'
  <2>1. \A i \in 1 .. built : i # k => (BeingCut(i) => BeingCut(i)')
    BY <1>2 DEF BeingCut, k
  <2> QED BY <1>1, <1>3, <2>1 DEF ClientInv
<1> QED BY <1>4, <1>5, <1>6, <1>7, <1>8, <1>9

\* What is deleted is not registered and, unless it was raced, neither in the map
\* nor being started.
LEMMA ForgetFilesSafe == ASSUME SInv, SInv', Safe, NEW p \in Procs, ForgetFiles(p) PROVE Safe'
<1> USE Shapes DEF Safe
<1> DEFINE u == req[p].uid
<1>1. UNCHANGED <<reg, disk, minted, mgr, objs, built, running, raced>>
  BY DEF ForgetFiles, regVars
<1>2. /\ req[p].pc = "files" /\ u \in Uids /\ store' = store \ {u}
      /\ req'[p].pc = "idle" /\ req'[p].prev = 0
      /\ \A q \in Procs \ {p} : req'[q] = req[q]
  BY DEF ForgetFiles, Finish, Idle
<1>3. u \notin raced => mgr[u] = 0 /\ ~RacesWithStart(u)
  BY <1>2, ForgottenIsOut
<1> HIDE DEF u
<1>4. RegInv'
  BY <1>1 DEF RegInv
<1>5. ForgetInv'
  BY <1>1, <1>2 DEF ForgetInv, InForget, HasName
<1>6. ObjInv'
  BY <1>1, <1>2 DEF ObjInv
<1>7. StartInv'
  BY <1>1, <1>2 DEF StartInv, RacesWithStart, InStart, HasName, Dropping
<1>8. WholeInv'
  <2>1. \A q \in Procs \ {p} : req[q].uid \notin raced /\ req[q].pc \in {"publish", "connect", "mark"}
           => req[q].uid # u
    BY <1>3 DEF RacesWithStart, InStart
  <2>2. \A v \in Uids \ raced : mgr[v] # 0 => v # u
    BY <1>3
  <2> QED BY <1>1, <1>2, <2>1, <2>2 DEF WholeInv
<1>9. ClientInv'
  BY <1>1, <1>2 DEF ClientInv, BeingCut
<1> QED BY <1>4, <1>5, <1>6, <1>7, <1>8, <1>9

LEMMA CrashSafe == ASSUME SInv, SInv', Safe, Crash PROVE Safe'
<1> USE Shapes DEF Safe
<1>1. /\ reg' = disk /\ disk' = disk /\ minted' = minted /\ raced' = {} /\ built' = 0
      /\ \A u \in Uids : mgr'[u] = 0
      /\ \A i \in Objects : objs'[i].uid = 0 /\ ~objs'[i].conn
      /\ \A p \in Procs : req'[p].pc = "idle" /\ req'[p].prev = 0
  BY DEF Crash, NoObject, Idle
<1>2. RegInv'
  BY <1>1 DEF RegInv
<1>3. ForgetInv'
  BY <1>1 DEF ForgetInv, InForget
<1>4. ObjInv'
  BY <1>1 DEF ObjInv
<1>5. StartInv'
  BY <1>1 DEF StartInv, RacesWithStart, InStart
<1>6. WholeInv'
  BY <1>1 DEF WholeInv
<1>7. ClientInv'
  BY <1>1 DEF ClientInv
<1> QED BY <1>2, <1>3, <1>4, <1>5, <1>6, <1>7

----------------------------------------------------------------------------
LEMMA InitSafe == Init => Safe
<1> SUFFICES ASSUME Init PROVE Safe
  OBVIOUS
<1>1. /\ \A n \in Names : reg[n].uid = 0 /\ disk[n].uid = 0
      /\ minted = 0 /\ built = 0 /\ \A u \in Uids : mgr[u] = 0
      /\ \A i \in Objects : objs[i].uid = 0 /\ ~objs[i].conn
      /\ \A p \in Procs : req[p].pc = "idle" /\ req[p].prev = 0
  BY DEF Init, NoEntry, NoObject, Idle
<1>2. RegInv
  BY <1>1 DEF RegInv
<1>3. ForgetInv
  BY <1>1 DEF ForgetInv, InForget
<1>4. ObjInv
  BY <1>1 DEF ObjInv
<1>5. StartInv /\ WholeInv /\ ClientInv
  BY <1>1 DEF StartInv, RacesWithStart, InStart, WholeInv, ClientInv
<1> QED BY <1>2, <1>3, <1>4, <1>5 DEF Safe

\* The steps that end a request, begin one, or are the clients' own.
LEMMA OthersSettle ==
    ASSUME SInv, SInv', Safe,
           \/ \E p \in Procs : \/ \E n \in Names, url \in Webhooks : CheckCap(p, n, url)
                              \/ LookAlive(p) \/ BuildFails(p) \/ ConnectFails(p) \/ Mark(p)
           \/ \E i \in Objects : ClientUp(i) \/ ClientDown(i)
           \/ \E n \in Names : RestoreSkips(n)
           \/ UNCHANGED vars
    PROVE  Safe'
<1> USE Shapes
<1>1. CASE \E p \in Procs, n \in Names, url \in Webhooks : CheckCap(p, n, url)
  <2>1. PICK p \in Procs, n \in Names, url \in Webhooks : CheckCap(p, n, url)
    BY <1>1
  <2>2. /\ UNCHANGED <<reg, disk, minted, mgr, built, running, raced, store, objs>>
        /\ req[p].pc = "idle"
        /\ req'[p].pc = "claim" /\ req'[p].prev = 0
        /\ \A q \in Procs \ {p} : req'[q] = req[q]
    <3>1. UNCHANGED <<reg, disk, minted, mgr, built, running, raced, store, objs>>
      BY <2>1 DEF CheckCap, regVars, mgrVars
    <3> DEFINE r == [Idle EXCEPT !.pc = "claim", !.name = n, !.url = url]
    <3>2. req[p] = Idle /\ req' = [req EXCEPT ![p] = r]
      BY <2>1 DEF CheckCap
    <3>3. r.pc = "claim" /\ r.prev = 0
      BY DEF Idle
    <3> HIDE DEF r
    <3> QED BY <3>1, <3>2, <3>3 DEF Idle
  <2> QED BY <2>2, Settle
<1>2. CASE \E p \in Procs : LookAlive(p) \/ BuildFails(p)
  <2>1. PICK p \in Procs : LookAlive(p) \/ BuildFails(p)
    BY <1>2
  <2>2. /\ UNCHANGED <<reg, disk, minted, mgr, built, running, raced, objs>>
        /\ store \subseteq store'
        /\ req[p].pc \notin {"drop", "stop", "cut"}
        /\ req'[p].pc = "idle" /\ req'[p].prev = 0
        /\ \A q \in Procs \ {p} : req'[q] = req[q]
    BY <2>1 DEF LookAlive, BuildFails, Finish, regVars, mgrVars, Idle
  <2> QED BY <2>2, Settle
<1>3. CASE \E p \in Procs : ConnectFails(p) \/ Mark(p)
  <2>1. PICK p \in Procs : ConnectFails(p) \/ Mark(p)
    BY <1>3
  <2>2. /\ UNCHANGED <<reg, disk, minted, mgr, built, running, raced, store>>
        /\ req[p].pc \notin {"drop", "stop", "cut"}
        /\ req'[p].pc = "idle" /\ req'[p].prev = 0
        /\ \A q \in Procs \ {p} : req'[q] = req[q]
    BY <2>1 DEF ConnectFails, Mark, Finish, regVars, Idle
  <2>3. \A i \in Objects : /\ objs'[i].uid = objs[i].uid /\ objs'[i].hooks = objs[i].hooks
                           /\ objs'[i].conn = objs[i].conn
    BY <2>1 DEF ConnectFails, Mark, Object
  <2> QED BY <2>2, <2>3, Settle
<1>4. CASE \E i \in Objects : ClientUp(i) \/ ClientDown(i)
  <2>1. PICK i \in Objects : ClientUp(i) \/ ClientDown(i)
    BY <1>4
  <2>2. UNCHANGED <<reg, disk, minted, mgr, built, running, raced, store, req>>
    BY <2>1 DEF ClientUp, ClientDown, regVars
  <2>3. objs[i].conn
    BY <2>1 DEF ClientUp, ClientDown
  <2>4. /\ \A j \in Objects : objs'[j].uid = objs[j].uid /\ objs'[j].hooks = objs[j].hooks
        /\ \A j \in Objects \ {i} : objs'[j] = objs[j]
    BY <2>1 DEF ClientUp, ClientDown, Object
  <2>5. \A j \in Objects : objs'[j].conn => objs[j].conn
    BY <2>3, <2>4
  <2> QED BY <2>2, <2>4, <2>5, Settle
<1>5. CASE UNCHANGED vars \/ \E n \in Names : RestoreSkips(n)
  <2>1. UNCHANGED <<reg, disk, minted, mgr, built, running, raced, store, objs, req>>
    BY <1>5 DEF vars, RestoreSkips, regVars, mgrVars
  <2> QED BY <2>1, Settle
<1> QED BY <1>1, <1>2, <1>3, <1>4, <1>5

LEMMA StepSafe == ASSUME SInv, SInv', Safe, [Next]_vars PROVE Safe'
BY OthersSettle, ClaimSafe, LookDeadSafe, BuildSafe, PublishSafe, ConnectSafe, SetWebhookSafe,
   ForgetRemoveSafe, RestoreSafe, ForgetDropSafe, ForgetStopSafe, ForgetCutSafe, ForgetFilesSafe, CrashSafe
DEF Next, Request, StartSession

LEMMA SafeInvariance == Spec => [](SInv /\ Safe)
<1>1. SInv /\ PromiseKept => SInv
  OBVIOUS
<1>2. SInv /\ SInv' /\ Safe /\ [Next]_vars => Safe'
  BY StepSafe
<1> QED BY <1>1, <1>2, InitSafe, ManagerInvariance, PTL DEF Spec

\* A session in the map that is not being forgotten is registered, has its store
\* and a sender that runs, for any number of names, requests, restarts and
\* crashes: what StartSession (gateway/main.go:197) and forget (gateway/main.go:174)
\* keep between them, outside the races of a forget with a start.
THEOREM WholeSessions == Spec => []PublishedIsWhole
<1>1. SInv /\ Safe => PublishedIsWhole
  BY DEF Safe, StartInv, WholeInv, HasName, Dropping, PublishedIsWhole, BeingForgotten, InForget
<1> QED BY <1>1, SafeInvariance, PTL

\* A client that is the only one of its session and connected is of a session in
\* the map: Manager.forget (gateway/main.go:174) and StartSession
\* (gateway/main.go:197) leave none behind that nothing can stop.
THEOREM ManagedClients == Spec => []ClientsAreManaged
<1>1. ASSUME SInv, Safe PROVE ClientsAreManaged
  <2>1. \A i \in Objects : objs[i].conn => i \in 1 .. built
    BY <1>1, Shapes DEF Safe, ObjInv, Objects
  <2> QED BY <1>1, <2>1 DEF Safe, ClientInv, ClientsAreManaged
<1> QED BY <1>1, SafeInvariance, PTL
=============================================================================
