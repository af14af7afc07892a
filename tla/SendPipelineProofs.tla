------------------------- MODULE SendPipelineProofs -------------------------
(***************************************************************************)
(* SendPipeline for every set of workers and messages and every bound: its *)
(* types, that a key has one sender at a time, that a row once sent never  *)
(* changes, that it names a message WhatsApp acknowledged, that the        *)
(* gateway remembers what was acknowledged, and that it implements         *)
(* SendOnce.                                                               *)
(***************************************************************************)
EXTENDS SendPipeline, TLAPS

\* What TypeOK says of each variable's members.
Row   == [state : {"outgoing", "error"} \union Gone, wa : 0 .. MaxSends, ver : Nat]
Tx    == [pc : {"idle", "begun", "posting", "answered", "written"},
          msg : Msgs, ver : Nat, ans : 0 .. MaxSends]
Hnd   == [pc : {"none", "arrived", "waiting", "claimed", "resolving", "deleting", "reply"},
          msg : Msgs, on : Workers \union {None}, ans : 0 .. MaxSends]
Guard == [st : {"absent", "open", "ok", "err"}, by : Workers \union {None},
          id : 0 .. MaxSends]
Sent  == [id : Ids, life : 0 .. MaxRestarts, acked : BOOLEAN]

\* The guard and the handlers agree: an open key is being sent by the handler
\* that claimed it and by no other, a key in error is about to be deleted by
\* the handler that failed.
GuardInv ==
    /\ \A m \in Msgs : guard[m].st = "open" =>
          /\ guard[m].by \in Workers
          /\ hnd[guard[m].by].pc \in {"claimed", "resolving"}
          /\ hnd[guard[m].by].msg = m
    /\ \A w \in Workers :
          /\ hnd[w].pc \in {"claimed", "resolving"} =>
                guard[hnd[w].msg].st = "open" /\ guard[hnd[w].msg].by = w
          /\ hnd[w].pc = "deleting" =>
                guard[hnd[w].msg].st = "err" /\ guard[hnd[w].msg].by = w
          /\ hnd[w].pc = "waiting" =>
                guard[hnd[w].msg].st = "open" /\ guard[hnd[w].msg].by = hnd[w].on

\* A transaction that has written a row holds its lock and saw its latest
\* version; one whose snapshot is the latest version saw a row not yet sent.
RowInv ==
    \A w \in Workers :
        LET m == tx[w].msg IN
        /\ tx[w].pc = "written" => lock[m] = w /\ tx[w].ver = row[m].ver
        /\ tx[w].pc # "idle" =>
              /\ tx[w].ver <= row[m].ver
              /\ tx[w].ver = row[m].ver => row[m].state \notin Gone

IInv == TypeOK /\ GuardInv /\ RowInv

----------------------------------------------------------------------------
(* Types *)

LEMMA NextIdIsFresh == FreshIds # {} => NextId \in Ids
BY DEF FreshIds, NextId

LEMMA InitInvariant == Init => IInv
<1> SUFFICES ASSUME Init PROVE IInv
  OBVIOUS
<1>1. TypeOK
  BY NoneAssumption, BoundAssumption DEF Init, TypeOK, Absent, Failed, Ids
<1>2. GuardInv
  BY DEF Init, GuardInv, Absent
<1>3. RowInv
  BY DEF Init, RowInv, Gone
<1> QED
  BY <1>1, <1>2, <1>3 DEF IInv

LEMMA TxStep == TypeOK /\ [Next]_vars => tx' \in [Workers -> Tx]
<1> SUFFICES ASSUME TypeOK, [Next]_vars PROVE tx' \in [Workers -> Tx]
  OBVIOUS
<1>1. /\ tx \in [Workers -> Tx] /\ row \in [Msgs -> Row]
      /\ hnd \in [Workers -> Hnd]
  BY DEF TypeOK, Tx, Row, Hnd
<1> USE <1>1, BoundAssumption DEF Tx, Failed
<1>2. ASSUME NEW w \in Workers, NEW m \in Msgs, Begin(w, m) PROVE tx' \in [Workers -> Tx]
  BY <1>2 DEF Begin, Row
<1>3. ASSUME NEW w \in Workers, NoPost(w) \/ Post(w) \/ GiveUp(w) PROVE tx' \in [Workers -> Tx]
  BY <1>3 DEF NoPost, Post, GiveUp
<1>4. ASSUME NEW w \in Workers, Write(w) \/ Commit(w) \/ Rollback(w)
      PROVE  tx' \in [Workers -> Tx]
  BY <1>4 DEF Write, Commit, Rollback, Ended
<1>5. ASSUME NEW w \in Workers, Reply(w) PROVE tx' \in [Workers -> Tx]
  BY <1>5 DEF Reply, Hnd
<1>6. CASE UNCHANGED tx
  BY <1>6
<1> QED
  BY <1>2, <1>3, <1>4, <1>5, <1>6
  DEF Next, Transaction, Handler, Receipt, Refuse, Claim, Wait, Replay, FailBeforeWire, WireSend,
      Resolve, DeleteKey, Sweep, Restart, vars, odooVars

LEMMA RowLockStep ==
    TypeOK /\ [Next]_vars => row' \in [Msgs -> Row] /\ lock' \in [Msgs -> Workers \union {None}]
<1> SUFFICES ASSUME TypeOK, [Next]_vars
             PROVE  row' \in [Msgs -> Row] /\ lock' \in [Msgs -> Workers \union {None}]
  OBVIOUS
<1>1. /\ tx \in [Workers -> Tx] /\ row \in [Msgs -> Row]
      /\ lock \in [Msgs -> Workers \union {None}]
  BY DEF TypeOK, Tx, Row
<1> USE <1>1 DEF Row, Tx, Failed
<1>2. ASSUME NEW w \in Workers, Write(w) \/ Commit(w) \/ Rollback(w)
      PROVE  row' \in [Msgs -> Row] /\ lock' \in [Msgs -> Workers \union {None}]
  <2>1. CASE Commit(w)
    <3>1. row' \in [Msgs -> Row]
      BY <2>1 DEF Commit, Gone
    <3> QED
      BY <2>1, <3>1 DEF Commit
  <2> QED
    BY <1>2, <2>1 DEF Write, Rollback, Ended
<1>3. ASSUME NEW m \in Msgs, Receipt(m)
      PROVE  row' \in [Msgs -> Row] /\ lock' \in [Msgs -> Workers \union {None}]
  BY <1>3 DEF Receipt, Gone
<1>4. CASE UNCHANGED <<row, lock>>
  BY <1>4
<1> QED
  BY <1>2, <1>3, <1>4
  DEF Next, Transaction, Handler, Begin, NoPost, Post, GiveUp, Refuse, Claim, Wait, Replay,
      FailBeforeWire, WireSend, Resolve, DeleteKey, Reply, Sweep, Restart, vars, odooVars

LEMMA GuardTypeStep == TypeOK /\ [Next]_vars => guard' \in [Msgs -> Guard]
<1> SUFFICES ASSUME TypeOK, [Next]_vars PROVE guard' \in [Msgs -> Guard]
  OBVIOUS
<1>1. guard \in [Msgs -> Guard] /\ hnd \in [Workers -> Hnd]
  BY DEF TypeOK, Guard, Hnd
<1> USE <1>1, BoundAssumption DEF Guard, Hnd, Failed, Absent
<1>2. ASSUME NEW w \in Workers, Claim(w) \/ Resolve(w) \/ DeleteKey(w)
      PROVE  guard' \in [Msgs -> Guard]
  BY <1>2 DEF Claim, Resolve, DeleteKey
<1>3. ASSUME NEW m \in Msgs, Sweep(m) PROVE guard' \in [Msgs -> Guard]
  BY <1>3 DEF Sweep
<1>4. CASE Restart
  BY <1>4 DEF Restart
<1>5. CASE UNCHANGED guard
  BY <1>5
<1> QED
  BY <1>2, <1>3, <1>4, <1>5
  DEF Next, Transaction, Handler, Begin, NoPost, Post, GiveUp, Write, Commit, Rollback, Receipt,
      Refuse, Wait, Replay, FailBeforeWire, WireSend, Reply, vars, gatewayVars

LEMMA HndStep == TypeOK /\ GuardInv /\ [Next]_vars => hnd' \in [Workers -> Hnd]
<1> SUFFICES ASSUME TypeOK, GuardInv, [Next]_vars PROVE hnd' \in [Workers -> Hnd]
  OBVIOUS
<1>1. /\ tx \in [Workers -> Tx] /\ guard \in [Msgs -> Guard]
      /\ hnd \in [Workers -> Hnd]
  BY DEF TypeOK, Tx, Guard, Hnd
<1>0. Failed \in 0 .. MaxSends
  BY BoundAssumption DEF Failed
<1> USE <1>0, <1>1 DEF Hnd
<1>2. ASSUME NEW w \in Workers, Post(w) PROVE hnd' \in [Workers -> Hnd]
  BY <1>2 DEF Post, Tx
<1>3. ASSUME NEW w \in Workers, Refuse(w) \/ Claim(w) \/ FailBeforeWire(w) \/ DeleteKey(w)
      PROVE  hnd' \in [Workers -> Hnd]
  BY <1>3 DEF Refuse, Claim, FailBeforeWire, DeleteKey
<1>4. ASSUME NEW w \in Workers, Wait(w) \/ Replay(w) PROVE hnd' \in [Workers -> Hnd]
  BY <1>4 DEF Wait, Replay, Guard
<1>5. ASSUME NEW w \in Workers, WireSend(w) PROVE hnd' \in [Workers -> Hnd]
  <2>1. PICK ans \in 0 .. MaxSends :
           hnd' = [hnd EXCEPT ![w].pc = "resolving", ![w].ans = ans]
    <3>1. NextId \in 0 .. MaxSends
      BY <1>5, NextIdIsFresh, BoundAssumption DEF WireSend, Ids
    <3> QED
      BY <1>5, <3>1 DEF WireSend
  <2> QED
    BY <2>1
<1>6. ASSUME NEW w \in Workers, Resolve(w) PROVE hnd' \in [Workers -> Hnd]
  <2>1. Released(w) \in [Workers -> Hnd]
    BY DEF Released
  <2> QED
    BY <1>6, <2>1 DEF Resolve
<1>7. ASSUME NEW w \in Workers, Reply(w) PROVE hnd' \in [Workers -> Hnd]
  <2>1. hnd' = [hnd EXCEPT ![w].pc = "none", ![w].ans = Failed]
    BY <1>7 DEF Reply
  <2> QED
    BY <2>1
<1>8. CASE Restart
  BY <1>8 DEF Restart
<1>9. CASE UNCHANGED hnd
  BY <1>9
<1> QED
  BY <1>2, <1>3, <1>4, <1>5, <1>6, <1>7, <1>8, <1>9
  DEF Next, Transaction, Handler, Begin, NoPost, GiveUp, Write, Commit, Rollback,
      Receipt, Sweep, vars, gatewayVars

LEMMA WireStep ==
    TypeOK /\ [Next]_vars =>
        /\ wire' \in [Msgs -> SUBSET Sent]
        /\ life' \in 0 .. MaxRestarts /\ swept' \in SUBSET Msgs
<1> SUFFICES ASSUME TypeOK, [Next]_vars
             PROVE  /\ wire' \in [Msgs -> SUBSET Sent]
                    /\ life' \in 0 .. MaxRestarts /\ swept' \in SUBSET Msgs
  OBVIOUS
<1>1. /\ wire \in [Msgs -> SUBSET Sent] /\ hnd \in [Workers -> Hnd]
      /\ life \in 0 .. MaxRestarts /\ swept \in SUBSET Msgs
  BY DEF TypeOK, Sent, Hnd
<1>2. ASSUME NEW w \in Workers, WireSend(w)
      PROVE  wire' \in [Msgs -> SUBSET Sent] /\ UNCHANGED <<life, swept>>
  <2>1. PICK acked \in BOOLEAN :
           wire' = [wire EXCEPT ![hnd[w].msg] = @ \union
                       {[id |-> NextId, life |-> life, acked |-> acked]}]
    BY <1>2 DEF WireSend
  <2>2. [id |-> NextId, life |-> life, acked |-> acked] \in Sent
    BY <1>1, <1>2, NextIdIsFresh DEF WireSend, Sent
  <2>3. hnd[w].msg \in Msgs
    BY <1>1 DEF Hnd
  <2> QED
    BY <1>1, <1>2, <2>1, <2>2, <2>3 DEF WireSend
<1>3. ASSUME NEW m \in Msgs, Sweep(m) PROVE UNCHANGED <<wire, life>> /\ swept' \in SUBSET Msgs
  BY <1>1, <1>3 DEF Sweep
<1>4. CASE Restart
  BY <1>1, <1>4, BoundAssumption DEF Restart
<1>5. CASE UNCHANGED <<wire, life, swept>>
  BY <1>1, <1>5
<1> QED
  BY <1>1, <1>2, <1>3, <1>4, <1>5
  DEF Next, Transaction, Handler, Begin, NoPost, Post, GiveUp, Write, Commit, Rollback, Receipt,
      Refuse, Claim, Wait, Replay, FailBeforeWire, Resolve, DeleteKey, Reply, vars, gatewayVars

\* A waiter holds an outcome because the key it found open names a worker.
LEMMA TypeStep == TypeOK /\ GuardInv /\ GuardInv' /\ [Next]_vars => TypeOK'
<1> SUFFICES ASSUME TypeOK, GuardInv, GuardInv', [Next]_vars PROVE TypeOK'
  OBVIOUS
<1>1. tx' \in [Workers -> Tx]
  BY TxStep
<1>2. row' \in [Msgs -> Row] /\ lock' \in [Msgs -> Workers \union {None}]
  BY RowLockStep
<1>3. guard' \in [Msgs -> Guard] /\ hnd' \in [Workers -> Hnd]
  BY GuardTypeStep, HndStep
<1>4. wire' \in [Msgs -> SUBSET Sent] /\ life' \in 0 .. MaxRestarts /\ swept' \in SUBSET Msgs
  BY WireStep
<1>5. \A w \in Workers : hnd'[w].pc = "waiting" => hnd'[w].on # None
  BY <1>3, NoneAssumption DEF GuardInv, Hnd
<1> QED
  BY <1>1, <1>2, <1>3, <1>4, <1>5 DEF TypeOK, Tx, Row, Guard, Hnd, Sent

\* What Resolve does to the handlers: w leaves the critical section, those
\* waiting on it are answered, the others go on.
LEMMA ResolveFacts ==
    ASSUME NEW w \in Workers, hnd \in [Workers -> Hnd], Resolve(w)
    PROVE  /\ hnd[w].pc = "resolving"
           /\ hnd'[w].pc = IF hnd[w].ans = Failed THEN "deleting" ELSE "reply"
           /\ \A v \in Workers :
                 /\ hnd'[v].msg = hnd[v].msg
                 /\ hnd[v].pc = "waiting" /\ hnd[v].on = w => hnd'[v].pc = "reply"
                 /\ v # w /\ ~(hnd[v].pc = "waiting" /\ hnd[v].on = w) => hnd'[v] = hnd[v]
<1> DEFINE R == Released(w)
<1>1. /\ R \in [Workers -> Hnd]
      /\ \A v \in Workers :
            /\ R[v].msg = hnd[v].msg
            /\ hnd[v].pc = "waiting" /\ hnd[v].on = w => R[v].pc = "reply"
            /\ ~(hnd[v].pc = "waiting" /\ hnd[v].on = w) => R[v] = hnd[v]
  BY DEF Released, Hnd
<1>2. /\ hnd[w].pc = "resolving"
      /\ \/ hnd[w].ans # Failed /\ hnd' = [R EXCEPT ![w].pc = "reply"]
         \/ hnd[w].ans = Failed /\ hnd' = [R EXCEPT ![w].pc = "deleting"]
  BY DEF Resolve
<1> HIDE DEF R
<1> QED
  BY <1>1, <1>2 DEF Hnd

LEMMA ResolveGuard ==
    ASSUME TypeOK, GuardInv, NEW w \in Workers, Resolve(w) PROVE GuardInv'
<1>1. hnd \in [Workers -> Hnd] /\ guard \in [Msgs -> Guard]
  BY DEF TypeOK, Hnd, Guard
<1> DEFINE k == hnd[w].msg
<1>2. k \in Msgs /\ hnd'[w].msg = k
  BY <1>1, ResolveFacts DEF Hnd
<1>3. /\ \A n \in Msgs \ {k} : guard'[n] = guard[n]
      /\ hnd[w].ans # Failed => guard'[k].st = "ok"
      /\ hnd[w].ans = Failed => guard'[k].st = "err" /\ guard'[k].by = w
  BY <1>1, <1>2 DEF Resolve, Guard
<1>4. guard[k].st = "open" /\ guard[k].by = w
  BY <1>1, ResolveFacts DEF GuardInv
<1>5. ASSUME NEW v \in Workers \ {w}, hnd[v].pc \in {"claimed", "resolving", "deleting"}
      PROVE  hnd'[v] = hnd[v] /\ hnd[v].msg # k
  BY <1>1, <1>4, <1>5, ResolveFacts DEF GuardInv
<1>6. ASSUME NEW n \in Msgs, guard'[n].st = "open"
      PROVE  /\ guard'[n].by \in Workers
             /\ hnd'[guard'[n].by].pc \in {"claimed", "resolving"}
             /\ hnd'[guard'[n].by].msg = n
  <2>1. n # k /\ guard[n].st = "open" /\ guard'[n].by = guard[n].by
    BY <1>3, <1>6
  <2>2. guard[n].by \in Workers \ {w}
    BY <1>1, <2>1 DEF GuardInv
  <2> QED
    BY <1>5, <2>1, <2>2 DEF GuardInv
<1>7. ASSUME NEW v \in Workers
      PROVE  /\ hnd'[v].pc \in {"claimed", "resolving"} =>
                   guard'[hnd'[v].msg].st = "open" /\ guard'[hnd'[v].msg].by = v
             /\ hnd'[v].pc = "deleting" =>
                   guard'[hnd'[v].msg].st = "err" /\ guard'[hnd'[v].msg].by = v
             /\ hnd'[v].pc = "waiting" =>
                   guard'[hnd'[v].msg].st = "open" /\ guard'[hnd'[v].msg].by = hnd'[v].on
  <2>1. CASE v = w
    BY <1>1, <1>2, <1>3, <2>1, ResolveFacts
  <2>2. CASE v # w /\ hnd[v].pc = "waiting" /\ hnd[v].on = w
    BY <1>1, <2>2, ResolveFacts
  <2>3. CASE v # w /\ ~(hnd[v].pc = "waiting" /\ hnd[v].on = w)
    <3>1. hnd'[v] = hnd[v] /\ hnd[v].msg \in Msgs
      BY <1>1, <2>3, ResolveFacts DEF Hnd
    <3>2. hnd[v].pc = "waiting" => hnd[v].msg # k
      BY <1>4, <2>3 DEF GuardInv
    <3> QED
      BY <1>3, <1>5, <2>3, <3>1, <3>2 DEF GuardInv
  <2> QED
    BY <2>1, <2>2, <2>3
<1> QED
  BY <1>6, <1>7 DEF GuardInv

LEMMA GuardStep == TypeOK /\ GuardInv /\ [Next]_vars => GuardInv'
<1> SUFFICES ASSUME TypeOK, GuardInv, [Next]_vars PROVE GuardInv'
  OBVIOUS
<1> USE NoneAssumption DEF TypeOK, GuardInv, odooVars, gatewayVars
<1>1. ASSUME UNCHANGED <<hnd, guard>> PROVE GuardInv'
  BY <1>1
<1>2. ASSUME NEW w \in Workers, Post(w) PROVE GuardInv'
  BY <1>2 DEF Post
<1>3. ASSUME NEW w \in Workers, Refuse(w) PROVE GuardInv'
  BY <1>3 DEF Refuse
<1>4. ASSUME NEW w \in Workers, Claim(w) PROVE GuardInv'
  BY <1>4 DEF Claim
<1>5. ASSUME NEW w \in Workers, Wait(w) PROVE GuardInv'
  BY <1>5 DEF Wait
<1>6. ASSUME NEW w \in Workers, Replay(w) PROVE GuardInv'
  BY <1>6 DEF Replay
<1>7. ASSUME NEW w \in Workers, FailBeforeWire(w) PROVE GuardInv'
  BY <1>7 DEF FailBeforeWire
<1>8. ASSUME NEW w \in Workers, WireSend(w) PROVE GuardInv'
  BY <1>8 DEF WireSend
<1>9. ASSUME NEW w \in Workers, Resolve(w) PROVE GuardInv'
  BY <1>9, ResolveGuard
<1>10. ASSUME NEW w \in Workers, DeleteKey(w) PROVE GuardInv'
  BY <1>10 DEF DeleteKey, Absent
<1>11. ASSUME NEW w \in Workers, Reply(w) PROVE GuardInv'
  BY <1>11 DEF Reply
<1>12. ASSUME NEW m \in Msgs, Sweep(m) PROVE GuardInv'
  BY <1>12 DEF Sweep, Absent
<1>13. CASE Restart
  BY <1>13 DEF Restart, Absent
<1> QED
  BY <1>1, <1>2, <1>3, <1>4, <1>5, <1>6, <1>7, <1>8, <1>9, <1>10, <1>11, <1>12, <1>13
  DEF Next, Transaction, Handler, Begin, NoPost, GiveUp, Write, Commit, Rollback, Receipt, vars

LEMMA RowStep == TypeOK /\ RowInv /\ [Next]_vars => RowInv'
<1> SUFFICES ASSUME TypeOK, RowInv, [Next]_vars PROVE RowInv'
  OBVIOUS
<1>0. tx \in [Workers -> Tx]
  BY DEF TypeOK, Tx
<1> USE NoneAssumption DEF RowInv, odooVars, gatewayVars
<1>1. ASSUME UNCHANGED <<row, lock, tx>> PROVE RowInv'
  BY <1>1
<1>2. ASSUME NEW w \in Workers, NEW m \in Msgs, Begin(w, m) PROVE RowInv'
  BY <1>2 DEF Begin, TypeOK, Gone
<1>3. ASSUME NEW w \in Workers, NoPost(w) \/ Post(w) \/ GiveUp(w) PROVE RowInv'
  <2>1. UNCHANGED <<row, lock>>
    BY <1>3 DEF NoPost, Post, GiveUp
  <2>2. \A v \in Workers :
           /\ tx'[v].msg = tx[v].msg /\ tx'[v].ver = tx[v].ver
           /\ tx'[v].pc = tx[v].pc \/ (tx[v].pc # "idle" /\ tx'[v].pc # "written")
    <3>1. PICK pc \in {"posting", "answered"} : tx' = [tx EXCEPT ![w].pc = pc]
      BY <1>3 DEF NoPost, Post, GiveUp
    <3>2. tx[w].pc # "idle"
      BY <1>3 DEF NoPost, Post, GiveUp
    <3> QED
      BY <1>0, <3>1, <3>2 DEF Tx
  <2> QED
    BY <2>1, <2>2
<1>4. ASSUME NEW w \in Workers, Write(w) PROVE RowInv'
  <2>1. row' = row /\ tx[w].pc = "answered" /\ lock[tx[w].msg] = None
    BY <1>4 DEF Write
  <2>2. CASE row[tx[w].msg].ver = tx[w].ver
    <3>1. /\ lock' = [lock EXCEPT ![tx[w].msg] = w]
          /\ tx' = [tx EXCEPT ![w].pc = "written"]
      BY <1>4, <2>2 DEF Write
    <3> QED
      BY <2>1, <2>2, <3>1 DEF TypeOK
  <2>3. CASE row[tx[w].msg].ver # tx[w].ver
    <3>1. lock' = lock /\ tx' = Ended(w)
      BY <1>4, <2>3 DEF Write
    <3>2. tx'[w].pc = "idle" /\ \A v \in Workers \ {w} : tx'[v] = tx[v]
      BY <1>0, <3>1 DEF Ended, Tx
    <3> QED
      BY <1>0, <2>1, <3>1, <3>2 DEF Tx
  <2> QED
    BY <2>2, <2>3
<1>5. ASSUME NEW w \in Workers, Commit(w) PROVE RowInv'
  BY <1>5 DEF Commit, Ended, TypeOK
<1>6. ASSUME NEW w \in Workers, Rollback(w) PROVE RowInv'
  BY <1>6 DEF Rollback, Ended, TypeOK
<1>7. ASSUME NEW w \in Workers, Reply(w) PROVE RowInv'
  <2>1. UNCHANGED <<row, lock>>
    BY <1>7 DEF Reply
  <2>2. \A v \in Workers :
           /\ tx'[v].msg = tx[v].msg /\ tx'[v].ver = tx[v].ver
           /\ tx'[v].pc = tx[v].pc \/ (tx[v].pc # "idle" /\ tx'[v].pc # "written")
    <3>1. CASE tx[w].pc = "posting"
      <4>1. tx' = [tx EXCEPT ![w].pc = "answered", ![w].ans = hnd[w].ans]
        BY <1>7, <3>1 DEF Reply
      <4> QED
        BY <1>0, <3>1, <4>1 DEF Tx
    <3>2. CASE tx[w].pc # "posting"
      BY <1>7, <3>2 DEF Reply
    <3> QED
      BY <3>1, <3>2
  <2> QED
    BY <2>1, <2>2
<1>8. ASSUME NEW m \in Msgs, Receipt(m) PROVE RowInv'
  BY <1>8 DEF Receipt, TypeOK
<1> QED
  BY <1>1, <1>2, <1>3, <1>4, <1>5, <1>6, <1>7, <1>8
  DEF Next, Transaction, Handler, Refuse, Claim, Wait, Replay, FailBeforeWire, WireSend,
      Resolve, DeleteKey, Sweep, Restart, vars

LEMMA Invariance == Spec => []IInv
<1>1. IInv /\ [Next]_vars => IInv'
  BY TypeStep, GuardStep, RowStep DEF IInv
<1> QED
  BY <1>1, InitInvariant, PTL DEF Spec

----------------------------------------------------------------------------
(* The theorems *)

\* Every variable keeps its type, and a waiting handler waits on somebody.
THEOREM TypeCorrect == Spec => []TypeOK
BY Invariance, PTL DEF IInv

\* However many attempts at one message are under way, at most one of them is
\* past the send guard, and none while a result is stored (sendCache.begin,
\* gateway/main.go:1009-1023).
THEOREM OneSender == Spec => []OneSenderPerKey
<1>1. IInv => OneSenderPerKey
  <2> SUFFICES ASSUME IInv, NEW m \in Msgs
               PROVE  /\ \A v, w \in Senders(m) : v = w
                      /\ guard[m].st \in {"ok", "err"} => Senders(m) = {}
    BY DEF OneSenderPerKey
  <2>1. \A w \in Senders(m) : guard[m].st = "open" /\ guard[m].by = w
    BY DEF IInv, GuardInv, Senders
  <2> QED
    BY <2>1
<1> QED
  BY <1>1, Invariance, PTL

\* Once the record says sent, no transaction that read it earlier, and no
\* receipt, makes it unsent or changes its WhatsApp id (action_send under
\* snapshot isolation, addons/whatsmeow/models/whatsmeow_message.py:598-645).
THEOREM SentStays == Spec => SentIsFinal
<1> DEFINE Kept == \A m \in Msgs : row[m].state \in Gone =>
                      row'[m].state \in Gone /\ row'[m].wa = row[m].wa
<1>1. IInv /\ [Next]_vars => [Kept]_vars
  <2> SUFFICES ASSUME IInv, Next, NEW m \in Msgs, row[m].state \in Gone
               PROVE  row'[m].state \in Gone /\ row'[m].wa = row[m].wa
    OBVIOUS
  <2>1. ASSUME NEW w \in Workers, Commit(w) PROVE row'[m] = row[m]
    <3>1. tx[w].msg # m
      BY <2>1 DEF IInv, TypeOK, RowInv, Commit
    <3> QED
      BY <2>1, <3>1 DEF IInv, TypeOK, Commit
  <2>2. ASSUME NEW n \in Msgs, Receipt(n)
        PROVE  row'[m].state \in Gone /\ row'[m].wa = row[m].wa
    BY <2>2 DEF IInv, TypeOK, Receipt, Gone
  <2> QED
    BY <2>1, <2>2
    DEF Next, Transaction, Handler, Begin, NoPost, Post, GiveUp, Write, Rollback, Refuse, Claim,
        Wait, Replay, FailBeforeWire, WireSend, Resolve, DeleteKey, Reply, Sweep, Restart,
        odooVars, gatewayVars
<1> QED
  BY <1>1, Invariance, PTL DEF Spec, SentIsFinal

----------------------------------------------------------------------------
(* What WhatsApp received against what the two programs believe *)

\* WhatsApp acknowledged id for m.
Acked(m, id) == \E s \in wire[m] : s.acked /\ s.id = id

\* The same after the step.
AckedNext(m, id) == \E s \in wire'[m] : s.acked /\ s.id = id

\* Every id on the Odoo side was acknowledged, and a transaction that waits for
\* an answer waits for a handler of its own message.
OdooIds ==
    /\ \A m \in Msgs : row[m].wa # Failed => Acked(m, row[m].wa)
    /\ \A m \in Msgs : row[m].state \in Gone => row[m].wa # Failed
    /\ \A w \in Workers :
          /\ tx[w].ans # Failed => Acked(tx[w].msg, tx[w].ans)
          /\ tx[w].ans # Failed => tx[w].pc \in {"answered", "written"}
          /\ tx[w].pc = "posting" => hnd[w].msg = tx[w].msg

\* Every id on the gateway's side was acknowledged.
GatewayIds ==
    /\ \A w \in Workers : hnd[w].ans # Failed => Acked(hnd[w].msg, hnd[w].ans)
    /\ \A w \in Workers : hnd[w].ans # Failed => hnd[w].pc \in {"resolving", "reply"}
    /\ \A m \in Msgs : guard[m].id # Failed => Acked(m, guard[m].id)
    /\ \A m \in Msgs : guard[m].id # Failed <=> guard[m].st = "ok"

\* The id of m is stored, or its sender is about to store it.
Held(m, id) ==
    \/ guard[m].st = "ok" /\ guard[m].id = id
    \/ /\ guard[m].st = "open"
       /\ hnd[guard[m].by].pc = "resolving" /\ hnd[guard[m].by].ans = id

\* What this life of the process was acknowledged and no sweep removed is held.
MemoryInv ==
    \A m \in Msgs : \A s \in wire[m] :
        /\ s.life <= life
        /\ s.acked /\ s.life = life /\ m \notin swept => Held(m, s.id)

WInv == IInv /\ OdooIds /\ GatewayIds /\ MemoryInv

----------------------------------------------------------------------------
(* Steps *)

LEMMA InitWire == Init => WInv
<1> SUFFICES ASSUME Init PROVE WInv
  OBVIOUS
<1>1. IInv
  BY InitInvariant
<1>2. OdooIds
  BY DEF Init, OdooIds, Gone
<1>3. GatewayIds
  BY DEF Init, GatewayIds, Absent
<1>4. MemoryInv
  BY DEF Init, MemoryInv
<1> QED
  BY <1>1, <1>2, <1>3, <1>4 DEF WInv

\* The wire only grows, and grows by WireSend alone.
LEMMA WireSendFacts ==
    ASSUME TypeOK, NEW w \in Workers, WireSend(w)
    PROVE  \E acked \in BOOLEAN, i \in Ids :
              /\ i \in FreshIds
              /\ hnd[w].pc = "claimed"
              /\ wire' = [wire EXCEPT ![hnd[w].msg] = @ \union
                             {[id |-> i, life |-> life, acked |-> acked]}]
              /\ hnd' = [hnd EXCEPT ![w].pc = "resolving",
                                    ![w].ans = IF acked THEN i ELSE Failed]
<1>1. NextId \in FreshIds /\ NextId \in Ids
  BY DEF WireSend, NextId, FreshIds
<1> QED
  BY <1>1 DEF WireSend

LEMMA WireGrows ==
    ASSUME TypeOK, [Next]_vars
    PROVE  \A m \in Msgs, id \in Ids : Acked(m, id) => AckedNext(m, id)
<1>1. ASSUME NEW w \in Workers, WireSend(w)
      PROVE  \A m \in Msgs, id \in Ids : Acked(m, id) => AckedNext(m, id)
  <2>1. PICK x : wire' = [wire EXCEPT ![hnd[w].msg] = @ \union {x}]
    BY <1>1, WireSendFacts
  <2>2. \A m \in Msgs : wire[m] \subseteq wire'[m]
    BY <2>1 DEF TypeOK
  <2> QED
    BY <2>2 DEF Acked, AckedNext
<1>2. CASE UNCHANGED wire
  BY <1>2 DEF Acked, AckedNext
<1> QED
  BY <1>1, <1>2
  DEF Next, Transaction, Handler, Begin, NoPost, Post, GiveUp, Write, Commit, Rollback, Receipt,
      Refuse, Claim, Wait, Replay, FailBeforeWire, Resolve, DeleteKey, Reply, Sweep, Restart,
      vars, gatewayVars

LEMMA AnswersAreIds ==
    ASSUME TypeOK
    PROVE  /\ \A m \in Msgs : row[m].wa # Failed => row[m].wa \in Ids
           /\ \A w \in Workers : tx[w].ans # Failed => tx[w].ans \in Ids
           /\ \A w \in Workers : hnd[w].ans # Failed => hnd[w].ans \in Ids
           /\ \A m \in Msgs : guard[m].id # Failed => guard[m].id \in Ids
           /\ Failed \notin Ids
<1>1. \A i \in 0 .. MaxSends : i # Failed => i \in Ids
  BY BoundAssumption DEF Failed, Ids
<1>2. Failed \notin Ids
  BY DEF Failed, Ids
<1> QED
  BY <1>1, <1>2 DEF TypeOK

\* A handler keeps its message until its worker posts another.
LEMMA HandlerMessage ==
    ASSUME TypeOK, [Next]_vars, NEW v \in Workers, hnd'[v].msg # hnd[v].msg
    PROVE  Post(v)
<1>0. hnd \in [Workers -> Hnd]
  BY DEF TypeOK, Hnd
<1>1. ASSUME NEW w \in Workers, Post(w), w # v PROVE hnd'[v] = hnd[v]
  BY <1>0, <1>1 DEF Post
<1>2. ASSUME NEW w \in Workers, Refuse(w) \/ Claim(w) \/ FailBeforeWire(w) \/ DeleteKey(w)
      PROVE  hnd'[v].msg = hnd[v].msg
  BY <1>0, <1>2 DEF Refuse, Claim, FailBeforeWire, DeleteKey, Hnd
<1>3. ASSUME NEW w \in Workers, Wait(w) \/ Replay(w) \/ Reply(w)
      PROVE  hnd'[v].msg = hnd[v].msg
  BY <1>0, <1>3 DEF Wait, Replay, Reply, Hnd
<1>4. ASSUME NEW w \in Workers, WireSend(w) PROVE hnd'[v].msg = hnd[v].msg
  BY <1>0, <1>4 DEF WireSend, Hnd
<1>5. ASSUME NEW w \in Workers, Resolve(w) PROVE hnd'[v].msg = hnd[v].msg
  BY <1>0, <1>5, ResolveFacts
<1>6. CASE Restart
  BY <1>6 DEF Restart
<1>7. CASE UNCHANGED hnd
  BY <1>7
<1> QED
  BY <1>1, <1>2, <1>3, <1>4, <1>5, <1>6, <1>7
  DEF Next, Transaction, Handler, Begin, NoPost, GiveUp, Write, Commit, Rollback,
      Receipt, Sweep, vars, gatewayVars

\* What was acknowledged stays acknowledged, whoever holds its id.
LEMMA HeldIdsStay ==
    ASSUME TypeOK, OdooIds, GatewayIds, [Next]_vars
    PROVE  /\ \A m \in Msgs : row[m].wa # Failed => AckedNext(m, row[m].wa)
           /\ \A v \in Workers : tx[v].ans # Failed => AckedNext(tx[v].msg, tx[v].ans)
           /\ \A v \in Workers : hnd[v].ans # Failed => AckedNext(hnd[v].msg, hnd[v].ans)
           /\ \A m \in Msgs : guard[m].id # Failed => AckedNext(m, guard[m].id)
<1>1. tx \in [Workers -> Tx] /\ hnd \in [Workers -> Hnd]
  BY DEF TypeOK, Tx, Hnd
<1> QED
  BY <1>1, WireGrows, AnswersAreIds DEF OdooIds, GatewayIds, Tx, Hnd

LEMMA OdooStep ==
    ASSUME TypeOK, OdooIds, GatewayIds, [Next]_vars
    PROVE  OdooIds'
<1>0. /\ tx \in [Workers -> Tx] /\ row \in [Msgs -> Row] /\ hnd \in [Workers -> Hnd]
  BY DEF TypeOK, Tx, Row, Hnd
<1> DEFINE TxOK(v) ==
              /\ tx'[v].ans # Failed => AckedNext(tx'[v].msg, tx'[v].ans)
              /\ tx'[v].ans # Failed => tx'[v].pc \in {"answered", "written"}
              /\ tx'[v].pc = "posting" => hnd'[v].msg = tx'[v].msg
           RowOK(m) ==
              /\ row'[m].wa # Failed => AckedNext(m, row'[m].wa)
              /\ row'[m].state \in Gone => row'[m].wa # Failed
<1> SUFFICES (\A v \in Workers : TxOK(v)) /\ (\A m \in Msgs : RowOK(m))
  BY DEF OdooIds, Acked, AckedNext
<1>1. ASSUME NEW v \in Workers, tx'[v] = tx[v], ~Post(v) PROVE TxOK(v)
  BY <1>1, HeldIdsStay, HandlerMessage DEF OdooIds
<1>2. ASSUME NEW v \in Workers, tx'[v].ans = Failed, tx'[v].pc # "posting" PROVE TxOK(v)
  BY <1>2
<1>3. ASSUME NEW m \in Msgs, row'[m] = row[m] PROVE RowOK(m)
  BY <1>3, HeldIdsStay DEF OdooIds
<1> HIDE DEF TxOK, RowOK
<1> DEFINE Goal == (\A v \in Workers : TxOK(v)) /\ (\A m \in Msgs : RowOK(m))
<1>4. ASSUME NEW w \in Workers, NEW m \in Msgs, Begin(w, m) PROVE Goal
  <2>1. /\ row' = row /\ tx'[w].ans = Failed /\ tx'[w].pc # "posting"
        /\ \A v \in Workers \ {w} : tx'[v] = tx[v]
        /\ UNCHANGED hnd
    BY <1>0, <1>4 DEF Begin, gatewayVars
  <2>2. \A v \in Workers : ~Post(v)
    BY <1>0, <2>1 DEF Post, Hnd
  <2> QED
    BY <1>1, <1>2, <1>3, <2>1, <2>2
<1>5. ASSUME NEW w \in Workers, NoPost(w) \/ Post(w) \/ GiveUp(w) PROVE Goal
  <2>1. /\ row' = row
        /\ tx'[w].msg = tx[w].msg /\ tx'[w].ans = tx[w].ans
        /\ \A v \in Workers \ {w} : tx'[v] = tx[v]
        /\ tx[w].pc \in {"begun", "posting"}
    <3>1. PICK pc \in {"posting", "answered"} : tx' = [tx EXCEPT ![w].pc = pc]
      BY <1>5 DEF NoPost, Post, GiveUp
    <3> QED
      BY <1>0, <1>5, <3>1 DEF NoPost, Post, GiveUp, Tx
  <2>2. TxOK(w)
    <3>1. tx'[w].ans = Failed
      BY <2>1 DEF OdooIds
    <3>2. tx'[w].pc = "posting" => hnd'[w].msg = tx'[w].msg
      BY <1>0, <1>5, <2>1 DEF NoPost, Post, GiveUp, Tx, Hnd
    <3> QED
      BY <3>1, <3>2 DEF TxOK
  <2>3. \A v \in Workers \ {w} : TxOK(v)
    <3>1. ASSUME NEW v \in Workers \ {w} PROVE ~Post(v) \/ hnd'[v] = hnd[v]
      BY <1>0, <1>5, <3>1 DEF NoPost, Post, GiveUp, gatewayVars
    <3>2. ASSUME NEW v \in Workers \ {w}, Post(v), hnd'[v] = hnd[v] PROVE FALSE
      BY <1>0, <3>2 DEF Post, Hnd
    <3> QED
      BY <1>1, <2>1, <3>1, <3>2
  <2> QED
    BY <1>3, <2>1, <2>2, <2>3
<1>6. ASSUME NEW w \in Workers, Write(w) \/ Rollback(w) PROVE Goal
  <2>1. row' = row /\ UNCHANGED hnd /\ tx[w].pc # "idle"
    BY <1>6 DEF Write, Rollback, gatewayVars
  <2>2. CASE tx' = Ended(w)
    <3>1. tx'[w].ans = Failed /\ tx'[w].pc # "posting" /\ \A v \in Workers \ {w} : tx'[v] = tx[v]
      BY <1>0, <2>2 DEF Ended, Tx
    <3>2. \A v \in Workers : ~Post(v)
      BY <1>0, <2>1 DEF Post, Hnd
    <3> QED
      BY <1>1, <1>2, <1>3, <2>1, <3>1, <3>2
  <2>3. CASE Write(w) /\ tx' = [tx EXCEPT ![w].pc = "written"]
    <3>1. /\ tx'[w].msg = tx[w].msg /\ tx'[w].ans = tx[w].ans /\ tx'[w].pc = "written"
          /\ \A v \in Workers \ {w} : tx'[v] = tx[v]
      BY <1>0, <2>3 DEF Tx
    <3>2. \A v \in Workers : ~Post(v)
      BY <1>0, <2>1 DEF Post, Hnd
    <3>3. TxOK(w)
      BY <3>1, HeldIdsStay DEF TxOK
    <3> QED
      BY <1>1, <1>3, <2>1, <3>1, <3>2, <3>3
  <2> QED
    BY <1>6, <2>2, <2>3 DEF Write, Rollback
<1>7. ASSUME NEW w \in Workers, Commit(w) PROVE Goal
  <2>1. /\ tx'[w].ans = Failed /\ tx'[w].pc # "posting"
        /\ \A v \in Workers \ {w} : tx'[v] = tx[v]
        /\ UNCHANGED hnd
    BY <1>0, <1>7 DEF Commit, Ended, Tx, gatewayVars
  <2>2. \A v \in Workers : ~Post(v)
    BY <1>0, <2>1 DEF Post, Hnd
  <2> DEFINE k == tx[w].msg
  <2>3. /\ k \in Msgs
        /\ row'[k].wa = tx[w].ans
        /\ row'[k].state \in Gone => tx[w].ans # Failed
        /\ \A m \in Msgs \ {k} : row'[m] = row[m]
    BY <1>0, <1>7 DEF Commit, Tx, Row, Gone
  <2>4. RowOK(k)
    BY <2>3, HeldIdsStay DEF RowOK
  <2> QED
    BY <1>1, <1>2, <1>3, <2>1, <2>2, <2>3, <2>4
<1>8. ASSUME NEW n \in Msgs, Receipt(n) PROVE Goal
  <2>1. /\ UNCHANGED <<tx, hnd>> /\ row'[n].wa = row[n].wa /\ row[n].wa # Failed
        /\ \A m \in Msgs \ {n} : row'[m] = row[m]
    BY <1>0, <1>8 DEF Receipt, Row, gatewayVars
  <2>2. \A v \in Workers : ~Post(v)
    BY <1>0, <2>1 DEF Post, Hnd
  <2>3. RowOK(n)
    BY <2>1, HeldIdsStay DEF RowOK
  <2> QED
    BY <1>1, <1>3, <2>1, <2>2, <2>3
<1>9. ASSUME NEW w \in Workers, Reply(w) PROVE Goal
  <2>1. /\ row' = row
        /\ \A v \in Workers \ {w} : tx'[v] = tx[v]
        /\ \A v \in Workers : ~Post(v)
    BY <1>0, <1>9 DEF Reply, Post, Tx, Hnd
  <2>2. CASE tx[w].pc = "posting"
    <3>1. tx' = [tx EXCEPT ![w].pc = "answered", ![w].ans = hnd[w].ans]
      BY <1>9, <2>2 DEF Reply
    <3>2. tx'[w].msg = hnd[w].msg /\ tx'[w].ans = hnd[w].ans /\ tx'[w].pc = "answered"
      BY <1>0, <2>2, <3>1 DEF OdooIds, Tx
    <3>3. TxOK(w)
      BY <3>2, HeldIdsStay DEF TxOK
    <3> QED
      BY <1>1, <1>3, <2>1, <3>3
  <2>3. CASE tx[w].pc # "posting"
    <3>1. tx' = tx
      BY <1>9, <2>3 DEF Reply
    <3> QED
      BY <1>1, <1>3, <2>1, <3>1
  <2> QED
    BY <2>2, <2>3
<1>10. CASE UNCHANGED <<row, tx>>
  <2>1. \A v \in Workers : ~Post(v)
    BY <1>0, <1>10 DEF Post, Tx
  <2> QED
    BY <1>1, <1>3, <1>10, <2>1
<1> QED
  BY <1>4, <1>5, <1>6, <1>7, <1>8, <1>9, <1>10
  DEF Next, Transaction, Handler, Refuse, Claim, Wait, Replay, FailBeforeWire, WireSend,
      Resolve, DeleteKey, Sweep, Restart, vars, odooVars

\* Resolve hands its answer to itself and to those waiting on it.
LEMMA ResolveAnswers ==
    ASSUME NEW w \in Workers, hnd \in [Workers -> Hnd], Resolve(w)
    PROVE  /\ hnd'[w].ans = hnd[w].ans
           /\ \A v \in Workers \ {w} :
                 hnd[v].pc = "waiting" /\ hnd[v].on = w => hnd'[v].ans = hnd[w].ans
<1> DEFINE R == Released(w)
<1>1. /\ R \in [Workers -> Hnd]
      /\ \A v \in Workers :
            hnd[v].pc = "waiting" /\ hnd[v].on = w => R[v].ans = hnd[w].ans
      /\ hnd[w].pc # "waiting" => R[w].ans = hnd[w].ans
  BY DEF Released, Hnd
<1>2. /\ hnd[w].pc = "resolving"
      /\ \/ hnd' = [R EXCEPT ![w].pc = "reply"]
         \/ hnd' = [R EXCEPT ![w].pc = "deleting"]
  BY DEF Resolve
<1> HIDE DEF R
<1> QED
  BY <1>1, <1>2 DEF Hnd

LEMMA GatewayStep ==
    ASSUME TypeOK, GuardInv, OdooIds, GatewayIds, [Next]_vars
    PROVE  GatewayIds'
<1>0. hnd \in [Workers -> Hnd] /\ guard \in [Msgs -> Guard]
  BY DEF TypeOK, Hnd, Guard
<1> DEFINE HndOK(v) ==
              /\ hnd'[v].ans # Failed => AckedNext(hnd'[v].msg, hnd'[v].ans)
              /\ hnd'[v].ans # Failed => hnd'[v].pc \in {"resolving", "reply"}
           KeyOK(m) ==
              /\ guard'[m].id # Failed => AckedNext(m, guard'[m].id)
              /\ guard'[m].id # Failed <=> guard'[m].st = "ok"
<1> SUFFICES (\A v \in Workers : HndOK(v)) /\ (\A m \in Msgs : KeyOK(m))
  BY DEF GatewayIds, Acked, AckedNext
<1>1. ASSUME NEW v \in Workers, hnd'[v] = hnd[v] PROVE HndOK(v)
  BY <1>1, HeldIdsStay DEF GatewayIds
<1>2. ASSUME NEW v \in Workers, hnd'[v].ans = Failed PROVE HndOK(v)
  BY <1>2
<1>3. ASSUME NEW m \in Msgs, guard'[m] = guard[m] PROVE KeyOK(m)
  BY <1>3, HeldIdsStay DEF GatewayIds
<1>4. ASSUME NEW m \in Msgs, guard'[m].id = Failed, guard'[m].st # "ok" PROVE KeyOK(m)
  BY <1>4
<1> HIDE DEF HndOK, KeyOK
<1> DEFINE Goal == (\A v \in Workers : HndOK(v)) /\ (\A m \in Msgs : KeyOK(m))
<1>5. ASSUME NEW w \in Workers, Post(w) PROVE Goal
  <2>1. /\ guard' = guard /\ hnd'[w].ans = Failed
        /\ \A v \in Workers \ {w} : hnd'[v] = hnd[v]
    BY <1>0, <1>5 DEF Post
  <2> QED
    BY <1>1, <1>2, <1>3, <2>1
<1>6. ASSUME NEW w \in Workers, Refuse(w) \/ Wait(w) \/ FailBeforeWire(w) PROVE Goal
  <2>1. /\ guard' = guard /\ hnd'[w].ans = hnd[w].ans /\ hnd[w].pc \in {"arrived", "claimed"}
        /\ \A v \in Workers \ {w} : hnd'[v] = hnd[v]
    BY <1>0, <1>6 DEF Refuse, Wait, FailBeforeWire, Hnd
  <2>2. hnd'[w].ans = Failed
    BY <2>1 DEF GatewayIds
  <2> QED
    BY <1>1, <1>2, <1>3, <2>1, <2>2
<1>7. ASSUME NEW w \in Workers, Claim(w) \/ DeleteKey(w) PROVE Goal
  <2> DEFINE k == hnd[w].msg
  <2>1. /\ hnd'[w].ans = hnd[w].ans /\ hnd[w].pc \in {"arrived", "deleting"}
        /\ \A v \in Workers \ {w} : hnd'[v] = hnd[v]
    BY <1>0, <1>7 DEF Claim, DeleteKey, Hnd
  <2>2. k \in Msgs /\ guard'[k].id = Failed /\ guard'[k].st # "ok"
        /\ \A m \in Msgs \ {k} : guard'[m] = guard[m]
    BY <1>0, <1>7 DEF Claim, DeleteKey, Absent, Hnd
  <2>3. hnd'[w].ans = Failed
    BY <2>1 DEF GatewayIds
  <2> QED
    BY <1>1, <1>2, <1>3, <1>4, <2>1, <2>2, <2>3
<1>8. ASSUME NEW w \in Workers, Replay(w) PROVE Goal
  <2>1. /\ guard' = guard
        /\ hnd'[w].ans = guard[hnd[w].msg].id /\ hnd'[w].msg = hnd[w].msg
        /\ hnd'[w].pc = "reply" /\ hnd[w].msg \in Msgs
        /\ \A v \in Workers \ {w} : hnd'[v] = hnd[v]
    BY <1>0, <1>8 DEF Replay, Hnd
  <2>2. HndOK(w)
    BY <2>1, HeldIdsStay DEF HndOK
  <2> QED
    BY <1>1, <1>3, <2>1, <2>2
<1>9. ASSUME NEW w \in Workers, WireSend(w) PROVE Goal
  <2>1. PICK acked \in BOOLEAN, i \in Ids :
           /\ wire' = [wire EXCEPT ![hnd[w].msg] = @ \union
                          {[id |-> i, life |-> life, acked |-> acked]}]
           /\ hnd' = [hnd EXCEPT ![w].pc = "resolving",
                                 ![w].ans = IF acked THEN i ELSE Failed]
    BY <1>9, WireSendFacts
  <2>2. /\ hnd'[w].msg = hnd[w].msg /\ hnd'[w].pc = "resolving"
        /\ hnd'[w].ans = IF acked THEN i ELSE Failed
        /\ hnd[w].msg \in Msgs
        /\ \A v \in Workers \ {w} : hnd'[v] = hnd[v]
    BY <1>0, <2>1 DEF Hnd
  <2>3. [id |-> i, life |-> life, acked |-> acked] \in wire'[hnd[w].msg]
    BY <2>1, <2>2 DEF TypeOK
  <2>4. acked => AckedNext(hnd[w].msg, i)
    BY <2>3 DEF AckedNext
  <2>5. HndOK(w)
    BY <2>2, <2>4 DEF HndOK
  <2>6. guard' = guard
    BY <1>9 DEF WireSend
  <2> QED
    BY <1>1, <1>3, <2>2, <2>5, <2>6
<1>10. ASSUME NEW w \in Workers, Resolve(w) PROVE Goal
  <2> DEFINE k == hnd[w].msg
  <2>1. k \in Msgs /\ hnd[w].pc = "resolving"
    BY <1>0, <1>10 DEF Resolve, Hnd
  <2>2. HndOK(w)
    BY <1>0, <1>10, HeldIdsStay, ResolveFacts, ResolveAnswers DEF HndOK
  <2>3. ASSUME NEW v \in Workers \ {w}, hnd[v].pc = "waiting", hnd[v].on = w PROVE HndOK(v)
    <3>1. hnd[v].msg = k
      BY <1>0, <2>3, <2>1 DEF GuardInv, Hnd
    <3>2. hnd'[v].msg = k /\ hnd'[v].ans = hnd[w].ans /\ hnd'[v].pc = "reply"
      BY <1>0, <1>10, <2>3, <3>1, ResolveFacts, ResolveAnswers
    <3> QED
      BY <3>2, HeldIdsStay DEF HndOK
  <2>4. ASSUME NEW v \in Workers \ {w}, ~(hnd[v].pc = "waiting" /\ hnd[v].on = w)
        PROVE  HndOK(v)
    BY <1>0, <1>1, <1>10, <2>4, ResolveFacts
  <2>5. /\ \A m \in Msgs \ {k} : guard'[m] = guard[m]
        /\ hnd[w].ans # Failed => guard'[k].st = "ok"
        /\ hnd[w].ans = Failed => guard'[k].st = "err"
        /\ guard'[k].id = hnd[w].ans
    BY <1>0, <1>10, <2>1 DEF Resolve, Guard
  <2>6. KeyOK(k)
    BY <2>5, HeldIdsStay DEF KeyOK
  <2> QED
    BY <1>3, <2>2, <2>3, <2>4, <2>5, <2>6
<1>11. ASSUME NEW w \in Workers, Reply(w) PROVE Goal
  <2>1. /\ guard' = guard /\ hnd'[w].ans = Failed
        /\ \A v \in Workers \ {w} : hnd'[v] = hnd[v]
    BY <1>0, <1>11 DEF Reply, Hnd
  <2> QED
    BY <1>1, <1>2, <1>3, <2>1
<1>12. ASSUME NEW n \in Msgs, Sweep(n) PROVE Goal
  <2>1. /\ hnd' = hnd /\ guard'[n].id = Failed /\ guard'[n].st # "ok"
        /\ \A m \in Msgs \ {n} : guard'[m] = guard[m]
    BY <1>0, <1>12 DEF Sweep, Absent
  <2> QED
    BY <1>1, <1>3, <1>4, <2>1
<1>13. CASE Restart
  <2>1. /\ \A v \in Workers : hnd'[v].ans = Failed
        /\ \A m \in Msgs : guard'[m].id = Failed /\ guard'[m].st # "ok"
    BY <1>13 DEF Restart, Absent
  <2> QED
    BY <1>2, <1>4, <2>1
<1>14. CASE UNCHANGED <<hnd, guard>>
  BY <1>1, <1>3, <1>14
<1> QED
  BY <1>5, <1>6, <1>7, <1>8, <1>9, <1>10, <1>11, <1>12, <1>13, <1>14
  DEF Next, Transaction, Handler, Begin, NoPost, GiveUp, Write, Commit, Rollback,
      Receipt, vars, gatewayVars

\* What the gateway holds stays held, but for the sweep and a restart.
LEMMA HeldStays ==
    ASSUME TypeOK, GuardInv, GatewayIds, [Next]_vars, ~Restart,
           NEW m \in Msgs, NEW id \in Ids, Held(m, id)
    PROVE  \/ guard'[m].st = "ok" /\ guard'[m].id = id
           \/ /\ guard'[m].st = "open"
              /\ hnd'[guard'[m].by].pc = "resolving" /\ hnd'[guard'[m].by].ans = id
           \/ m \in swept'
<1> DEFINE b == guard[m].by
           HeldNext == \/ guard'[m].st = "ok" /\ guard'[m].id = id
                       \/ /\ guard'[m].st = "open"
                          /\ hnd'[guard'[m].by].pc = "resolving"
                          /\ hnd'[guard'[m].by].ans = id
<1> SUFFICES HeldNext \/ m \in swept'
  OBVIOUS
<1>0. /\ hnd \in [Workers -> Hnd] /\ guard \in [Msgs -> Guard] /\ swept \in SUBSET Msgs
      /\ Failed \notin Ids
  BY AnswersAreIds DEF TypeOK, Hnd, Guard
<1>1. \/ guard[m].st = "ok" /\ guard[m].id = id
      \/ /\ guard[m].st = "open" /\ b \in Workers
         /\ hnd[b].pc = "resolving" /\ hnd[b].ans = id /\ hnd[b].msg = m
  BY DEF Held, GuardInv
<1>2. ASSUME guard'[m] = guard[m], b \in Workers /\ hnd[b].pc = "resolving" => hnd'[b] = hnd[b]
      PROVE  HeldNext
  BY <1>1, <1>2
<1>3. ASSUME NEW w \in Workers, hnd[w].pc \notin {"claimed", "resolving"},
             \A v \in Workers \ {w} : hnd'[v] = hnd[v], guard'[m] = guard[m]
      PROVE  HeldNext
  BY <1>1, <1>2, <1>3
<1>4. ASSUME NEW w \in Workers, Post(w) \/ Refuse(w) \/ Wait(w) \/ Replay(w) \/ Reply(w)
      PROVE  HeldNext
  <2>1. /\ hnd[w].pc \notin {"claimed", "resolving"} /\ guard' = guard
        /\ \A v \in Workers \ {w} : hnd'[v] = hnd[v]
    BY <1>0, <1>4 DEF Post, Refuse, Wait, Replay, Reply
  <2> QED
    BY <1>3, <2>1
<1>5. ASSUME NEW w \in Workers, Claim(w) \/ DeleteKey(w) PROVE HeldNext
  <2>1. /\ hnd[w].pc \notin {"claimed", "resolving"}
        /\ \A v \in Workers \ {w} : hnd'[v] = hnd[v]
        /\ guard[hnd[w].msg].st \in {"absent", "err"}
    BY <1>0, <1>5 DEF Claim, DeleteKey, GuardInv
  <2>2. guard'[m] = guard[m]
    BY <1>0, <1>1, <1>5, <2>1 DEF Claim, DeleteKey
  <2> QED
    BY <1>3, <2>1, <2>2
<1>6. ASSUME NEW w \in Workers, FailBeforeWire(w) \/ WireSend(w) PROVE HeldNext
  <2>1. /\ hnd[w].pc = "claimed" /\ guard' = guard
        /\ \A v \in Workers \ {w} : hnd'[v] = hnd[v]
    BY <1>0, <1>6 DEF FailBeforeWire, WireSend
  <2> QED
    BY <1>2, <2>1
<1>7. ASSUME NEW w \in Workers, Resolve(w) PROVE HeldNext
  <2>1. hnd[w].pc = "resolving" /\ hnd[w].msg \in Msgs
    BY <1>0, <1>7 DEF Resolve, Hnd
  <2>2. CASE hnd[w].msg = m
    <3>1. guard[m].st = "open" /\ b = w
      BY <2>1, <2>2 DEF GuardInv
    <3>2. hnd[w].ans = id
      BY <1>1, <3>1
    <3>3. guard'[m].st = "ok" /\ guard'[m].id = id
      BY <1>0, <1>7, <2>2, <3>2 DEF Resolve
    <3> QED
      BY <3>3
  <2>3. CASE hnd[w].msg # m
    <3>1. guard'[m] = guard[m]
      BY <1>0, <1>7, <2>3 DEF Resolve
    <3>2. ASSUME b \in Workers, hnd[b].pc = "resolving", guard[m].st = "open" PROVE hnd'[b] = hnd[b]
      <4>1. b # w
        BY <2>3, <3>2 DEF GuardInv
      <4> QED
        BY <1>0, <1>7, <3>2, <4>1, ResolveFacts
    <3> QED
      BY <1>1, <3>1, <3>2
  <2> QED
    BY <2>2, <2>3
<1>8. ASSUME NEW n \in Msgs, Sweep(n) PROVE HeldNext \/ m \in swept'
  <2>1. n \in swept' /\ hnd' = hnd /\ guard' = [guard EXCEPT ![n] = Absent]
    BY <1>8 DEF Sweep
  <2>2. CASE n = m
    BY <2>1, <2>2
  <2>3. CASE n # m
    BY <1>0, <1>2, <2>1, <2>3
  <2> QED
    BY <2>2, <2>3
<1>9. CASE UNCHANGED <<hnd, guard>>
  BY <1>2, <1>9
<1> QED
  BY <1>4, <1>5, <1>6, <1>7, <1>8, <1>9
  DEF Next, Transaction, Handler, Begin, NoPost, GiveUp, Write, Commit, Rollback,
      Receipt, vars, gatewayVars

LEMMA MemoryStep ==
    ASSUME TypeOK, GuardInv, GatewayIds, MemoryInv, [Next]_vars
    PROVE  MemoryInv'
<1>0. /\ wire \in [Msgs -> SUBSET Sent] /\ life \in Nat
      /\ hnd \in [Workers -> Hnd] /\ guard \in [Msgs -> Guard]
  BY BoundAssumption DEF TypeOK, Sent, Hnd, Guard
<1>1. CASE Restart
  <2>1. life' = life + 1 /\ wire' = wire
    BY <1>1 DEF Restart
  <2>2. \A m \in Msgs : \A s \in wire[m] : s.life \in Nat /\ s.life <= life
    BY <1>0, BoundAssumption DEF MemoryInv, Sent
  <2>3. \A m \in Msgs : \A s \in wire'[m] : s.life <= life' /\ s.life # life'
    BY <1>0, <2>1, <2>2
  <2> QED
    BY <2>3 DEF MemoryInv
<1>2. ASSUME ~Restart PROVE life' = life /\ swept \subseteq swept'
  BY <1>2
  DEF Next, Transaction, Handler, Begin, NoPost, Post, GiveUp, Write, Commit, Rollback, Receipt,
      Refuse, Claim, Wait, Replay, FailBeforeWire, WireSend, Resolve, DeleteKey, Reply, Sweep,
      vars, gatewayVars
<1>3. ASSUME ~Restart, NEW m \in Msgs, NEW s \in wire[m]
      PROVE  /\ s.life <= life'
             /\ s.acked /\ s.life = life' /\ m \notin swept' => Held(m, s.id)'
  <2>1. s.life <= life'
    BY <1>2, <1>3 DEF MemoryInv
  <2>2. ASSUME s.acked, s.life = life', m \notin swept' PROVE Held(m, s.id)'
    <3>1. Held(m, s.id) /\ s.id \in Ids
      BY <1>0, <1>2, <1>3, <2>2 DEF MemoryInv, Sent
    <3> QED
      BY <1>3, <2>2, <3>1, HeldStays DEF Held
  <2> QED
    BY <2>1, <2>2
<1>4. ASSUME NEW w \in Workers, WireSend(w) PROVE MemoryInv'
  <2>0. ~Restart
    BY <1>0, <1>4 DEF WireSend, Restart
  <2>k. PICK k \in Msgs : k = hnd[w].msg
    BY <1>0 DEF Hnd
  <2>1. PICK acked \in BOOLEAN, i \in Ids :
           /\ hnd[w].pc = "claimed"
           /\ wire' = [wire EXCEPT ![hnd[w].msg] = @ \union
                          {[id |-> i, life |-> life, acked |-> acked]}]
           /\ hnd' = [hnd EXCEPT ![w].pc = "resolving",
                                 ![w].ans = IF acked THEN i ELSE Failed]
    BY <1>4, WireSendFacts
  <2>2. guard' = guard /\ guard[k].st = "open" /\ guard[k].by = w
    BY <1>0, <1>4, <2>k, <2>1 DEF WireSend, GuardInv, Hnd
  <2>3. hnd'[w].pc = "resolving" /\ (acked => hnd'[w].ans = i)
    BY <1>0, <2>1 DEF Hnd
  <2>4. acked => Held(k, i)'
    BY <2>k, <2>2, <2>3 DEF Held
  <2>5. /\ \A m \in Msgs \ {k} : wire'[m] = wire[m]
        /\ wire'[k] = wire[k] \union {[id |-> i, life |-> life, acked |-> acked]}
    BY <1>0, <2>k, <2>1
  <2>6. ASSUME NEW m \in Msgs, NEW s \in wire'[m]
        PROVE  /\ s.life <= life'
               /\ s.acked /\ s.life = life' /\ m \notin swept' => Held(m, s.id)'
    <3>1. CASE s \in wire[m]
      BY <1>3, <2>0, <3>1
    <3>2. CASE s \notin wire[m]
      <4>1. m = k /\ s.life = life /\ s.id = i /\ s.acked = acked
        BY <2>5, <2>6, <3>2
      <4>2. life' = life /\ life <= life
        BY <1>0, <1>2, <2>0
      <4>3. acked => Held(m, s.id)'
        BY <2>4, <4>1
      <4> QED
        BY <4>1, <4>2, <4>3
    <3> QED
      BY <3>1, <3>2
  <2> QED
    BY <2>6 DEF MemoryInv
<1>5. CASE ~Restart /\ UNCHANGED wire
  BY <1>3, <1>5 DEF MemoryInv
<1> QED
  BY <1>1, <1>4, <1>5
  DEF Next, Transaction, Handler, Begin, NoPost, Post, GiveUp, Write, Commit, Rollback, Receipt,
      Refuse, Claim, Wait, Replay, FailBeforeWire, Resolve, DeleteKey, Reply, Sweep, Restart,
      vars, gatewayVars

LEMMA WireInvariance == Spec => []WInv
<1>1. WInv /\ [Next]_vars => WInv'
  <2> SUFFICES ASSUME WInv, [Next]_vars PROVE WInv'
    OBVIOUS
  <2>1. TypeOK /\ GuardInv /\ RowInv /\ OdooIds /\ GatewayIds /\ MemoryInv
    BY DEF WInv, IInv
  <2>2. IInv'
    BY <2>1, TypeStep, GuardStep, RowStep DEF IInv
  <2> QED
    BY <2>1, <2>2, OdooStep, GatewayStep, MemoryStep DEF WInv
<1> QED
  BY <1>1, InitWire, PTL DEF Spec

----------------------------------------------------------------------------
(* The theorems *)

\* A record that says sent, delivered or read names a message that WhatsApp
\* acknowledged for that very record, whatever timed out, rolled back or raced
\* (action_send, addons/whatsmeow/models/whatsmeow_message.py:598-645).
THEOREM SentMeansSent == Spec => []SentRowOnWire
<1>1. WInv => SentRowOnWire
  BY DEF WInv, OdooIds, SentRowOnWire, Acked
<1> QED
  BY <1>1, WireInvariance, PTL

\* While the gateway lives and the daily sweep has not come, what WhatsApp
\* acknowledged is the answer every later attempt gets (sendCache,
\* gateway/main.go:977-1076).
THEOREM AckRemembered == Spec => []AckedIsRemembered
<1>1. WInv => AckedIsRemembered
  <2> SUFFICES ASSUME WInv, NEW m \in Msgs, NEW s \in wire[m],
                      s.acked, s.life = life, m \notin swept
               PROVE  s.id = Remembered(m)
    BY DEF AckedIsRemembered
  <2> DEFINE done == {w \in Senders(m) : hnd[w].pc = "resolving" /\ hnd[w].ans # Failed}
  <2>1. TypeOK /\ GuardInv /\ Held(m, s.id)
    BY DEF WInv, IInv, MemoryInv
  <2>2. s.id # Failed
    BY <2>1, AnswersAreIds DEF TypeOK
  <2>3. CASE guard[m].st = "ok" /\ guard[m].id = s.id
    <3>1. done = {}
      BY <2>1, <2>3 DEF GuardInv, Senders
    <3> QED
      BY <2>3, <3>1 DEF Remembered
  <2>4. CASE /\ guard[m].st = "open"
             /\ hnd[guard[m].by].pc = "resolving" /\ hnd[guard[m].by].ans = s.id
    <3>1. done = {guard[m].by}
      BY <2>1, <2>2, <2>4 DEF GuardInv, Senders
    <3> QED
      BY <2>4, <3>1 DEF Remembered
  <2> QED
    BY <2>1, <2>3, <2>4 DEF Held
<1> QED
  BY <1>1, WireInvariance, PTL

----------------------------------------------------------------------------
(* The refinement: whatever is claimed, waited for, replayed, rolled back  *)
(* or abandoned, each step of the two programs is a delivery of a message  *)
(* not remembered, an answer, a way of forgetting, or nothing the caller   *)
(* could tell.                                                             *)

\* Remembered without the choice: an open key has one sender.
Memory(m) == IF guard[m].st = "open" /\ hnd[guard[m].by].pc = "resolving"
             THEN hnd[guard[m].by].ans
             ELSE guard[m].id

LEMMA RememberedIsMemory ==
    ASSUME TypeOK, GuardInv, GatewayIds, NEW m \in Msgs
    PROVE  Remembered(m) = Memory(m)
<1> DEFINE done == {w \in Senders(m) : hnd[w].pc = "resolving" /\ hnd[w].ans # Failed}
           b == guard[m].by
<1>1. CASE guard[m].st = "open" /\ hnd[b].pc = "resolving" /\ hnd[b].ans # Failed
  <2>1. done = {b}
    BY <1>1 DEF GuardInv, Senders
  <2> QED
    BY <1>1, <2>1 DEF Remembered, Memory
<1>2. CASE ~(guard[m].st = "open" /\ hnd[b].pc = "resolving" /\ hnd[b].ans # Failed)
  <2>1. done = {}
    BY <1>2 DEF GuardInv, Senders
  <2>2. Remembered(m) = guard[m].id
    BY <2>1 DEF Remembered
  <2>3. guard[m].st = "open" => guard[m].id = Failed
    BY DEF GatewayIds
  <2> QED
    BY <1>2, <2>2, <2>3 DEF Memory
<1> QED
  BY <1>1, <1>2

LEMMA RememberedIsMemoryNext ==
    ASSUME NEW m \in Msgs
    PROVE  (TypeOK /\ GuardInv /\ GatewayIds => Remembered(m) = Memory(m))'
<1>1. TypeOK /\ GuardInv /\ GatewayIds => Remembered(m) = Memory(m)
  BY RememberedIsMemory
<1> QED
  BY <1>1, PTL

\* Nothing but a delivery, a sweep and a restart changes what is remembered.
LEMMA MemoryStays ==
    ASSUME TypeOK, GuardInv, GatewayIds, Next, ~Restart, NEW m \in Msgs, ~Sweep(m),
           \A w \in Workers : WireSend(w) => hnd[w].msg # m
    PROVE  Memory(m)' = Memory(m)
<1> DEFINE b == guard[m].by
<1>0. hnd \in [Workers -> Hnd] /\ guard \in [Msgs -> Guard]
  BY DEF TypeOK, Hnd, Guard
<1>1. guard[m].st = "open" => b \in Workers /\ hnd[b].pc \in {"claimed", "resolving"} /\ hnd[b].msg = m
  BY DEF GuardInv
<1>2. ASSUME guard'[m] = guard[m], guard[m].st = "open" => hnd'[b] = hnd[b]
      PROVE  Memory(m)' = Memory(m)
  BY <1>2 DEF Memory
<1>3. ASSUME NEW w \in Workers, guard'[m] = guard[m],
             \A v \in Workers \ {w} : hnd[v].pc \in {"claimed", "resolving"} => hnd'[v] = hnd[v],
             hnd[w].pc \notin {"claimed", "resolving"} \/ hnd[w].msg # m
      PROVE  Memory(m)' = Memory(m)
  BY <1>1, <1>2, <1>3
<1>4. ASSUME NEW w \in Workers, Post(w) \/ Refuse(w) \/ Wait(w) \/ Replay(w) \/ Reply(w)
      PROVE  Memory(m)' = Memory(m)
  <2>1. /\ hnd[w].pc \notin {"claimed", "resolving"} /\ guard' = guard
        /\ \A v \in Workers \ {w} : hnd'[v] = hnd[v]
    BY <1>0, <1>4 DEF Post, Refuse, Wait, Replay, Reply
  <2> QED
    BY <1>3, <2>1
<1>5. ASSUME NEW w \in Workers, Claim(w) \/ DeleteKey(w) PROVE Memory(m)' = Memory(m)
  <2>1. /\ hnd[w].pc \notin {"claimed", "resolving"} /\ hnd[w].msg \in Msgs
        /\ hnd'[w].pc \in {"claimed", "reply"}
        /\ \A v \in Workers \ {w} : hnd'[v] = hnd[v]
    BY <1>0, <1>5 DEF Claim, DeleteKey, Hnd
  <2>2. CASE hnd[w].msg # m
    <3>1. guard'[m] = guard[m]
      BY <1>0, <1>5, <2>2 DEF Claim, DeleteKey
    <3> QED
      BY <1>3, <2>1, <3>1
  <2>3. CASE hnd[w].msg = m
    <3>1. guard[m].st \in {"absent", "err"}
      BY <1>5, <2>3 DEF Claim, DeleteKey, GuardInv
    <3>2. Memory(m) = Failed
      BY <3>1 DEF Memory, GatewayIds
    <3>3. guard'[m].id = Failed /\ (guard'[m].st = "open" => guard'[m].by = w /\ hnd'[w].pc = "claimed")
      BY <1>0, <1>5, <2>3 DEF Claim, DeleteKey, Absent, Hnd
    <3> QED
      BY <3>2, <3>3 DEF Memory
  <2> QED
    BY <2>2, <2>3
<1>6. ASSUME NEW w \in Workers, FailBeforeWire(w) PROVE Memory(m)' = Memory(m)
  <2>1. /\ hnd[w].pc = "claimed" /\ guard' = guard
        /\ hnd'[w].pc = "resolving" /\ hnd'[w].ans = hnd[w].ans
        /\ \A v \in Workers \ {w} : hnd'[v] = hnd[v]
    BY <1>0, <1>6 DEF FailBeforeWire, Hnd
  <2>2. CASE hnd[w].msg # m
    BY <1>3, <2>1, <2>2
  <2>3. CASE hnd[w].msg = m
    <3>1. guard[m].st = "open" /\ b = w /\ guard[m].id = Failed /\ hnd[w].ans = Failed
      BY <2>1, <2>3 DEF GuardInv, GatewayIds
    <3> QED
      BY <2>1, <3>1 DEF Memory
  <2> QED
    BY <2>2, <2>3
<1>7. ASSUME NEW w \in Workers, WireSend(w) PROVE Memory(m)' = Memory(m)
  <2>1. guard' = guard /\ \A v \in Workers \ {w} : hnd'[v] = hnd[v]
    BY <1>0, <1>7 DEF WireSend
  <2> QED
    BY <1>3, <1>7, <2>1
<1>8. ASSUME NEW w \in Workers, Resolve(w) PROVE Memory(m)' = Memory(m)
  <2>1. /\ hnd[w].pc = "resolving" /\ hnd[w].msg \in Msgs
        /\ \A v \in Workers \ {w} : hnd[v].pc \in {"claimed", "resolving"} => hnd'[v] = hnd[v]
    BY <1>0, <1>8, ResolveFacts DEF Hnd
  <2>2. CASE hnd[w].msg # m
    <3>1. guard'[m] = guard[m]
      BY <1>0, <1>8, <2>2 DEF Resolve
    <3> QED
      BY <1>3, <2>1, <2>2, <3>1
  <2>3. CASE hnd[w].msg = m
    <3>1. Memory(m) = hnd[w].ans
      BY <2>1, <2>3 DEF Memory, GuardInv
    <3>2. guard'[m].id = hnd[w].ans /\ guard'[m].st # "open"
      BY <1>0, <1>8, <2>3 DEF Resolve
    <3> QED
      BY <3>1, <3>2 DEF Memory
  <2> QED
    BY <2>2, <2>3
<1>9. ASSUME NEW n \in Msgs, Sweep(n) PROVE Memory(m)' = Memory(m)
  <2>1. guard'[m] = guard[m] /\ hnd' = hnd
    BY <1>0, <1>9 DEF Sweep
  <2> QED
    BY <1>2, <2>1
<1>10. CASE UNCHANGED <<hnd, guard>>
  BY <1>2, <1>10
<1> QED
  BY <1>4, <1>5, <1>6, <1>7, <1>8, <1>9, <1>10
  DEF Next, Transaction, Handler, Begin, NoPost, GiveUp, Write, Commit, Rollback,
      Receipt, gatewayVars

----------------------------------------------------------------------------
(* The abstract variables *)

memory    == [m \in Msgs |-> Remembered(m)]
delivered == [m \in Msgs |-> WireIds(m)]
told      == [w \in Workers |-> IF tx[w].pc \in {"answered", "written"} THEN tx[w].ans ELSE Failed]

LEMMA MemoryFacts ==
    ASSUME WInv, WInv', Next, ~Restart
    PROVE  /\ \A m \in Msgs : memory[m] = Memory(m)
           /\ \A m \in Msgs : memory'[m] = Memory(m)'
           /\ \A m \in Msgs : \/ memory'[m] = memory[m]
                             \/ Sweep(m)
                             \/ \E w \in Workers : WireSend(w) /\ hnd[w].msg = m
<1>1. /\ TypeOK /\ GuardInv /\ GatewayIds
      /\ TypeOK' /\ GuardInv' /\ GatewayIds'
  BY DEF WInv, IInv
<1>2. ASSUME NEW m \in Msgs PROVE memory[m] = Memory(m)
  BY <1>1, RememberedIsMemory DEF memory
<1>3. ASSUME NEW m \in Msgs PROVE memory'[m] = Memory(m)'
  BY <1>1, RememberedIsMemoryNext DEF memory
<1>4. ASSUME NEW m \in Msgs,
             ~Sweep(m), \A w \in Workers : WireSend(w) => hnd[w].msg # m
      PROVE  memory'[m] = memory[m]
  BY <1>1, <1>2, <1>3, <1>4, MemoryStays
<1> QED
  BY <1>2, <1>3, <1>4

LEMMA InitOnce == Init => Once!Init
<1> SUFFICES ASSUME Init PROVE Once!Init
  OBVIOUS
<1>1. TypeOK /\ GuardInv /\ GatewayIds
  BY InitWire DEF WInv, IInv
<1>2. \A m \in Msgs : Remembered(m) = 0 /\ WireIds(m) = {}
  <2>1. \A m \in Msgs : Memory(m) = 0
    BY DEF Init, Memory, Absent, Failed
  <2> QED
    BY <1>1, <2>1, RememberedIsMemory DEF Init, WireIds
<1>3. \A w \in Workers : tx[w].pc = "idle"
  BY DEF Init
<1>4. swept = {} /\ life = 0
  BY DEF Init
<1> QED
  BY <1>2, <1>3, <1>4 DEF Once!Init, Failed

\* Steps that only Odoo's transactions see: an answer is handed over, or its
\* transaction ends.
LEMMA OdooOnce ==
    ASSUME WInv, WInv', Next, UNCHANGED <<wire, life, swept>>,
           \A m \in Msgs : memory'[m] = memory[m]
    PROVE  Once!Next \/ UNCHANGED Once!onceVars
<1>0. tx \in [Workers -> Tx] /\ TypeOK
  BY DEF WInv, IInv, TypeOK, Tx
<1>1. /\ memory' = memory /\ delivered' = delivered
      /\ swept' = swept /\ life' = life
  BY DEF memory, delivered, WireIds
<1>2. told = [v \in Workers |-> tx[v].ans]
  BY <1>0 DEF told, WInv, OdooIds
<1>3. told' = [v \in Workers |-> tx'[v].ans]
  BY DEF told, WInv, OdooIds
<1>4. ASSUME told' = told PROVE UNCHANGED Once!onceVars
  BY <1>1, <1>4 DEF Once!onceVars, memory, delivered, told
<1>5. ASSUME NEW w \in Workers, told' = [told EXCEPT ![w] = 0] PROVE Once!Next
  BY <1>1, <1>5 DEF Once!Next, Once!Leave, memory, delivered, told
<1>6. ASSUME NEW w \in Workers, NEW m \in Msgs, NEW id \in WireIds(m),
             told' = [told EXCEPT ![w] = id]
      PROVE  Once!Next
  <2>1. delivered[m] = WireIds(m)
    BY DEF delivered
  <2>2. told' \in {[told EXCEPT ![w] = i] : i \in delivered[m]}
    BY <1>6, <2>1
  <2>3. Once!Answer(w, m)
    BY <1>1, <2>2 DEF Once!Answer, memory, delivered, told
  <2> QED
    BY <2>3 DEF Once!Next
<1>7. ASSUME NEW w \in Workers, \A v \in Workers \ {w} : tx'[v] = tx[v]
      PROVE  told' = [told EXCEPT ![w] = tx'[w].ans]
  BY <1>2, <1>3, <1>7
<1>8. \A w \in Workers, m \in Msgs, id \in Ids : Acked(m, id) => id \in WireIds(m)
  BY DEF Acked, WireIds
<1>9. ASSUME NEW w \in Workers, NEW m \in Msgs, Begin(w, m) PROVE UNCHANGED Once!onceVars
  <2>1. tx[w].ans = Failed /\ tx'[w].ans = Failed /\ \A v \in Workers \ {w} : tx'[v] = tx[v]
    BY <1>0, <1>9 DEF Begin, WInv, OdooIds
  <2> QED
    BY <1>2, <1>3, <1>4, <2>1
<1>10. ASSUME NEW w \in Workers, NoPost(w) \/ Post(w) \/ GiveUp(w) PROVE UNCHANGED Once!onceVars
  <2>1. PICK pc : tx' = [tx EXCEPT ![w].pc = pc]
    BY <1>10 DEF NoPost, Post, GiveUp
  <2>2. \A v \in Workers : tx'[v].ans = tx[v].ans
    BY <1>0, <2>1 DEF Tx
  <2> QED
    BY <1>2, <1>3, <1>4, <2>2
<1>11. ASSUME NEW w \in Workers, Write(w) \/ Commit(w) \/ Rollback(w)
       PROVE  Once!Next \/ UNCHANGED Once!onceVars
  <2>1. CASE tx' = Ended(w)
    <3>1. tx'[w].ans = 0 /\ \A v \in Workers \ {w} : tx'[v] = tx[v]
      BY <1>0, <2>1 DEF Ended, Tx, Failed
    <3> QED
      BY <1>5, <1>7, <3>1
  <2>2. CASE tx' = [tx EXCEPT ![w].pc = "written"]
    <3>1. \A v \in Workers : tx'[v].ans = tx[v].ans
      BY <1>0, <2>2 DEF Tx
    <3> QED
      BY <1>2, <1>3, <1>4, <3>1
  <2> QED
    BY <1>11, <2>1, <2>2 DEF Write, Commit, Rollback
<1>12. ASSUME NEW w \in Workers, Reply(w) PROVE Once!Next \/ UNCHANGED Once!onceVars
  <2>1. CASE tx[w].pc # "posting"
    BY <1>2, <1>3, <1>4, <1>12, <2>1 DEF Reply
  <2>2. CASE tx[w].pc = "posting"
    <3>1. tx' = [tx EXCEPT ![w].pc = "answered", ![w].ans = hnd[w].ans]
      BY <1>12, <2>2 DEF Reply
    <3>2. tx'[w].ans = hnd[w].ans /\ \A v \in Workers \ {w} : tx'[v] = tx[v]
      BY <1>0, <3>1 DEF Tx
    <3>3. told' = [told EXCEPT ![w] = hnd[w].ans]
      BY <1>7, <3>2
    <3>4. CASE hnd[w].ans = Failed
      BY <1>5, <3>3, <3>4 DEF Failed
    <3>5. CASE hnd[w].ans # Failed
      <4>1. hnd[w].msg \in Msgs /\ hnd[w].ans \in WireIds(hnd[w].msg)
        BY <1>0, <3>5 DEF WInv, GatewayIds, Acked, WireIds, TypeOK
      <4> QED
        BY <1>6, <3>3, <4>1
    <3> QED
      BY <3>4, <3>5
  <2> QED
    BY <2>1, <2>2
<1>13. CASE UNCHANGED tx
  BY <1>2, <1>3, <1>4, <1>13
<1> QED
  BY <1>9, <1>10, <1>11, <1>12, <1>13
  DEF Next, Transaction, Handler, Refuse, Claim, Wait, Replay, FailBeforeWire, WireSend,
      Resolve, DeleteKey, Receipt, Sweep, Restart, odooVars

LEMMA OnceStep == WInv /\ WInv' /\ [Next]_vars => [Once!Next]_Once!onceVars
<1> SUFFICES ASSUME WInv, WInv', Next PROVE Once!Next \/ UNCHANGED Once!onceVars
  <2>1. UNCHANGED vars => UNCHANGED Once!onceVars
    BY DEF vars, Once!onceVars, Remembered, Senders, WireIds
  <2> QED
    BY <2>1
<1>0. TypeOK /\ wire \in [Msgs -> SUBSET Sent] /\ hnd \in [Workers -> Hnd]
  BY DEF WInv, IInv, TypeOK, Sent, Hnd
<1>1. ASSUME NEW w \in Workers, WireSend(w) PROVE Once!Next
  <2>k. PICK k \in Msgs : k = hnd[w].msg
    BY <1>0 DEF Hnd
  <2>1. PICK acked \in BOOLEAN, i \in Ids :
           /\ i \in FreshIds /\ hnd[w].pc = "claimed"
           /\ wire' = [wire EXCEPT ![hnd[w].msg] = @ \union
                          {[id |-> i, life |-> life, acked |-> acked]}]
           /\ hnd' = [hnd EXCEPT ![w].pc = "resolving",
                                 ![w].ans = IF acked THEN i ELSE Failed]
    BY <1>0, <1>1, WireSendFacts
  <2>2. guard' = guard /\ guard[k].st = "open" /\ guard[k].by = w /\ guard[k].id = Failed
    BY <1>0, <1>1, <2>k, <2>1 DEF WireSend, WInv, IInv, GuardInv, GatewayIds
  <2>3. ~Restart /\ \A m \in Msgs : ~Sweep(m)
    <3>1. life' = life /\ life \in Nat /\ guard \in [Msgs -> Guard]
      BY <1>0, <1>1, BoundAssumption DEF WireSend, TypeOK, Guard
    <3>2. ~Restart
      BY <3>1 DEF Restart
    <3>3. \A m \in Msgs : ~Sweep(m)
      BY <2>2, <3>1 DEF Sweep, Absent
    <3> QED
      BY <3>2, <3>3
  <2>4. ASSUME NEW v \in Workers, WireSend(v) PROVE v = w
    BY <1>0, <2>1, <2>4 DEF WireSend, Hnd
  <2>5. \A m \in Msgs \ {k} : memory'[m] = memory[m]
    BY <2>k, <2>3, <2>4, MemoryFacts
  <2>6. memory[k] = 0 /\ memory'[k] = IF acked THEN i ELSE 0
    <3>1. hnd'[w].pc = "resolving" /\ hnd'[w].ans = IF acked THEN i ELSE Failed
      BY <1>0, <2>1 DEF Hnd
    <3>2. memory[k] = Memory(k) /\ memory'[k] = Memory(k)'
      BY <2>3, MemoryFacts
    <3> QED
      BY <2>1, <2>2, <3>1, <3>2 DEF Memory, Failed
  <2>7. /\ \A n \in Msgs : i \notin delivered[n]
        /\ delivered' = [delivered EXCEPT ![k] = @ \union {i}]
    <3>1. /\ wire'[k] = wire[k] \union {[id |-> i, life |-> life, acked |-> acked]}
          /\ \A n \in Msgs \ {k} : wire'[n] = wire[n]
      BY <1>0, <2>k, <2>1
    <3>2. \A n \in Msgs : delivered[n] = WireIds(n) /\ i \notin WireIds(n)
      BY <2>1 DEF delivered, FreshIds
    <3>3. \A n \in Msgs \ {k} : WireIds(n)' = WireIds(n)
      BY <3>1 DEF WireIds
    <3>4. WireIds(k)' = WireIds(k) \union {i}
      <4> DEFINE x == [id |-> i, life |-> life, acked |-> acked]
      <4>1. x.id = i /\ wire'[k] = wire[k] \union {x}
        BY <3>1
      <4> HIDE DEF x
      <4> QED
        BY <4>1 DEF WireIds
    <3>5. delivered' = [n \in Msgs |-> WireIds(n)']
      BY DEF delivered
    <3> QED
      BY <3>2, <3>3, <3>4, <3>5 DEF delivered
  <2>8. memory' = [memory EXCEPT ![k] = i] \/ memory' = memory
    BY <2>5, <2>6 DEF memory
  <2>9. UNCHANGED <<swept, life>> /\ told' = told
    BY <1>1 DEF WireSend, odooVars, told
  <2>10. Once!Deliver(k, i)
    BY <2>6, <2>7, <2>8, <2>9 DEF Once!Deliver, memory, delivered, told
  <2> QED
    BY <2>10 DEF Once!Next
<1>2. ASSUME NEW n \in Msgs, Sweep(n) PROVE Once!Next
  <2>1. /\ guard[n].st = "ok" /\ guard'[n] = Absent
        /\ \A m \in Msgs \ {n} : guard'[m] = guard[m]
        /\ UNCHANGED <<hnd, wire, life, tx>> /\ swept' = swept \union {n}
    BY <1>0, <1>2 DEF Sweep, TypeOK, odooVars
  <2>2. ~Restart
    BY <1>0, <2>1, BoundAssumption DEF Restart, TypeOK
  <2>3. \A m \in Msgs \ {n} : memory'[m] = memory[m]
    <3>1. ASSUME NEW m \in Msgs \ {n}, Sweep(m) PROVE FALSE
      BY <1>0, <2>1, <3>1 DEF Sweep, Absent, TypeOK
    <3>2. ASSUME NEW w \in Workers, WireSend(w) PROVE FALSE
      BY <1>0, <2>1, <3>2 DEF WireSend, Absent, TypeOK
    <3> QED
      BY <2>2, <3>1, <3>2, MemoryFacts
  <2>4. memory'[n] = 0
    <3>1. memory'[n] = Memory(n)'
      BY <2>2, MemoryFacts
    <3> QED
      BY <2>1, <3>1 DEF Memory, Absent, Failed
  <2>5. memory' = [memory EXCEPT ![n] = 0]
    BY <2>3, <2>4 DEF memory
  <2>6. delivered' = delivered /\ told' = told
    BY <2>1 DEF delivered, WireIds, told
  <2>7. Once!Expire(n)
    BY <2>1, <2>5, <2>6 DEF Once!Expire, memory, delivered, told
  <2> QED
    BY <2>7 DEF Once!Next
<1>3. CASE Restart
  <2>1. /\ \A m \in Msgs : guard'[m] = Absent
        /\ life' = life + 1 /\ swept' = {} /\ UNCHANGED <<wire, tx>>
    BY <1>3 DEF Restart, odooVars
  <2>2. \A m \in Msgs : memory'[m] = 0
    <3>1. ASSUME NEW m \in Msgs PROVE Memory(m)' = 0
      BY <2>1 DEF Memory, Absent, Failed
    <3>2. ASSUME NEW m \in Msgs PROVE Remembered(m)' = Memory(m)'
      BY RememberedIsMemoryNext DEF WInv, IInv
    <3> QED
      BY <3>1, <3>2 DEF memory
  <2>3. memory' = [m \in Msgs |-> 0]
    BY <2>2 DEF memory
  <2>4. delivered' = delivered /\ told' = told
    BY <2>1 DEF delivered, WireIds, told
  <2>5. Once!ForgetAll
    BY <2>1, <2>3, <2>4 DEF Once!ForgetAll, memory, delivered, told
  <2> QED
    BY <2>5 DEF Once!Next
<1>4. ASSUME UNCHANGED <<wire, life, swept>>, ~Restart,
             \A m \in Msgs : ~Sweep(m), \A w \in Workers : ~WireSend(w)
      PROVE  Once!Next \/ UNCHANGED Once!onceVars
  BY <1>4, MemoryFacts, OdooOnce
<1>5. \/ \E n \in Msgs : Sweep(n)
      \/ Restart
      \/ \E w \in Workers : WireSend(w)
      \/ UNCHANGED <<wire, life, swept>>
  BY DEF Next, Transaction, Handler, Begin, NoPost, Post, GiveUp, Write, Commit, Rollback,
      Receipt, Refuse, Claim, Wait, Replay, FailBeforeWire, Resolve, DeleteKey, Reply,
      gatewayVars
<1> QED
  BY <1>1, <1>2, <1>3, <1>4, <1>5

----------------------------------------------------------------------------
\* For every number of transactions, retries and concurrent attempts, the
\* pipeline delivers a message only when it remembers none, answers only with
\* an id WhatsApp gave that message, and forgets only by the sweep or a restart
\* (gateway/main.go:977-1076, 1522-1574).
THEOREM Implements == Spec => ImplementsSendOnce
<1>1. Init => Once!Init
  BY InitOnce
<1>2. WInv /\ WInv' /\ [Next]_vars => [Once!Next]_Once!onceVars
  BY OnceStep
<1> QED
  BY <1>1, <1>2, WireInvariance, PTL DEF Spec, ImplementsSendOnce, Once!OnceSpec

=============================================================================
