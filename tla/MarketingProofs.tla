--------------------------- MODULE MarketingProofs ---------------------------
(***************************************************************************)
(* Theorems about Marketing, for any campaigns, recipients, numbers,       *)
(* shares, caps and windows.                                               *)
(*                                                                         *)
(* The types carry most of the argument: in every ledger at most one row   *)
(* of a number is not skipped, and the contact a row was resolved to has   *)
(* that number.  Onto them come four invariants, each about an actor that  *)
(* acts on what another one did: the queue and a cancel (Once, Snap), the  *)
(* cron and the end of a campaign (Ended), a reply and its conversation    *)
(* (Credited), a stop and the queue's snapshot (Flagged).                  *)
(***************************************************************************)
EXTENDS Marketing, Integers, FiniteSetTheorems, WellFoundedInduction, TLAPS

\* The tuples are names only.
USE DEF ledger, contacts, reached

----------------------------------------------------------------------------
(* Numbers, and sets of them *)

\* A set of naturals has a least element.
LEMMA LeastExists ==
    ASSUME NEW S, S \subseteq Nat, S # {}
    PROVE  \E m \in S : \A k \in S : m <= k
<1> DEFINE R == {ss \in Nat \X Nat : ss[1] < ss[2]}
<1>1. IsWellFoundedOn(R, Nat)
  BY NatLessThanWellFounded DEF OpToRel
<1> HIDE DEF R
<1>2. \E x \in S : \A y \in S : ~(<<y, x>> \in R)
  BY <1>1, WFMin
<1>3. PICK x \in S : \A y \in S : ~(<<y, x>> \in R)
  BY <1>2
<1>4. ASSUME NEW y \in S PROVE x <= y
  <2>1. x \in Nat /\ y \in Nat /\ <<y, x>> \notin R
    BY <1>3
  <2>2. <<y, x>> \in Nat \X Nat /\ <<y, x>>[1] = y /\ <<y, x>>[2] = x
    BY <2>1
  <2>3. y < x => <<y, x>> \in R
    BY <2>2 DEF R
  <2> QED BY <2>1, <2>3
<1> QED BY <1>4

\* MinOf picks the least.
LEMMA MinOfFacts ==
    ASSUME NEW S, S \subseteq Nat, S # {}
    PROVE  MinOf(S) \in S /\ \A k \in S : MinOf(S) <= k
  BY LeastExists DEF MinOf

\* A set of records has a last one.
LEMMA LastExists ==
    ASSUME NEW S, S \subseteq Records, S # {}
    PROVE  \E m \in S : \A k \in S : k <= m
<1> DEFINE T == {MaxRecord - k : k \in S}
<1>1. MaxRecord \in Nat /\ \A k \in S : k \in Nat /\ k <= MaxRecord
  BY MarketingAssumption DEF Records
<1>2. T \subseteq Nat /\ T # {}
  BY <1>1
<1>3. PICK m \in T : \A k \in T : m <= k
  BY <1>2, LeastExists
<1>4. PICK x \in S : m = MaxRecord - x
  BY <1>3
<1>5. ASSUME NEW k \in S PROVE k <= x
  <2>1. MaxRecord - x <= MaxRecord - k
    BY <1>3, <1>4
  <2> QED BY <1>1, <2>1
<1> QED BY <1>5

\* So every set of rows is finite.
LEMMA RecordsAreFinite ==
    /\ IsFiniteSet(Records) /\ Records \subseteq Nat
    /\ \A S : S \subseteq Records => IsFiniteSet(S) /\ Cardinality(S) \in Nat
<1>1. IsFiniteSet(Records) /\ Records \subseteq Nat
  BY MarketingAssumption, FS_Interval DEF Records
<1>2. ASSUME NEW S, S \subseteq Records PROVE IsFiniteSet(S) /\ Cardinality(S) \in Nat
  BY <1>1, <1>2, FS_Subset, FS_CardinalityType
<1> QED BY <1>1, <1>2

\* The first n of a set of records are n at most.
LEMMA FirstFew ==
    ASSUME NEW W, W \subseteq Records, NEW n \in Nat
    PROVE  Cardinality({r \in W : Cardinality({q \in W : q <= r}) <= n}) <= n
<1> DEFINE F == {r \in W : Cardinality({q \in W : q <= r}) <= n}
<1>1. CASE F = {}
  <2>1. Cardinality(F) = 0
    BY <1>1, FS_EmptySet
  <2> QED BY <2>1
<1>2. CASE F # {}
  <2>1. PICK m \in F : \A k \in F : k <= m
    BY <1>2, LastExists
  <2> DEFINE U == {q \in W : q <= m}
  <2>2. F \subseteq U /\ Cardinality(U) <= n
    BY <2>1
  <2>3. IsFiniteSet(U) /\ Cardinality(U) \in Nat /\ Cardinality(F) \in Nat
    BY RecordsAreFinite
  <2> HIDE DEF F, U
  <2>4. Cardinality(F) <= Cardinality(U)
    BY <2>2, <2>3, FS_Subset
  <2> QED BY <2>2, <2>3, <2>4 DEF F
<1> QED BY <1>1, <1>2

\* What a session may still queue is a number, never negative.
LEMMA HeadroomType == other \in Nat => SessionHeadroom \in Nat
<1>1. IsFiniteSet(Campaigns) /\ IsFiniteSet(Records)
  BY MarketingAssumption, FS_Interval, RecordsAreFinite DEF Campaigns
<1>2. \A T : T \subseteq Campaigns \X Records => Cardinality(T) \in Nat
  BY <1>1, FS_Product, FS_Subset, FS_CardinalityType
<1>3. Total(Queued) \in Nat
  BY <1>2 DEF Total, Queued
<1>4. Total(Sent) \in Nat
  BY <1>2 DEF Total, Sent
<1>5. Allowance \in Int
  BY MarketingAssumption DEF Allowance
<1> QED BY <1>3, <1>4, <1>5, MarketingAssumption DEF SessionHeadroom, Least, Less

----------------------------------------------------------------------------
(* Ledgers *)

\* What a row can be skipped for.
Skips == {"none", "no_phone", "optout", "not_registered", "duplicate", "cancelled"}
Msgs  == {"none", "outgoing", "sent", "error"}

\* A trace that is skipped has no message, and what has one is on the ledger.
IsTrace(tr) ==
    /\ DOMAIN tr = {"is", "skip", "msg", "known", "age", "partner", "replied"}
    /\ tr.skip \in Skips /\ tr.msg \in Msgs
    /\ tr.age \in 0 .. MaxAge /\ tr.partner \in 0 .. MaxRecord
    /\ tr.skip # "none" => tr.msg = "none"
    /\ tr.msg # "none" => tr.is

\* A contact is its own partner; any partner has the recipient's number.
OfRecord(r, tr) ==
    /\ tr.is /\ r \in Partners => tr.partner = r
    /\ tr.partner # 0 => Number[tr.partner] = Number[r]

\* The unique index of the ledger.
Unique(rows) ==
    \A r, q \in Records : r # q /\ rows[r].is /\ rows[q].is /\ Number[r] = Number[q]
                             => rows[r].skip # "none" \/ rows[q].skip # "none"

\* A campaign's rows: each well formed, and no two of one number to be sent.
IsLedger(rows) ==
    /\ DOMAIN rows = Records
    /\ \A r \in Records : IsTrace(rows[r]) /\ OfRecord(r, rows[r])
    /\ Unique(rows)

\* A broadcast contact is linked to a contact with its number.
Linked == /\ link \in [Records -> 0 .. MaxRecord]
          /\ \A r \in Records : link[r] # 0 => link[r] \in Partners /\ Number[link[r]] = Number[r]

\* A row that is not on the ledger yet.
LEMMA NoTraceType == IsTrace(NoTrace) /\ ~NoTrace.is /\ NoTrace.skip = "none"
  BY MarketingAssumption DEF NoTrace, IsTrace, Skips, Msgs

\* What waits has no message and is not skipped.
LEMMA StateFacts ==
    ASSUME NEW tr, IsTrace(tr)
    PROVE  /\ State(tr) = "pending" <=> tr.skip = "none" /\ tr.msg = "none"
           /\ State(tr) = "queued" <=> tr.skip = "none" /\ tr.msg = "outgoing"
           /\ State(tr) \in {"skipped", "cancelled"} <=> tr.skip # "none"
  BY DEF State, IsTrace, Skips, Msgs

\* Start adds rows to the ledger, none for a number it has, and changes no other.
LEMMA ResolvedFacts ==
    ASSUME NEW c \in Campaigns, IsLedger(trace[c]), Linked
    PROVE  LET rows == Resolved(c) IN
           /\ IsLedger(rows)
           /\ \A r \in Records : \/ rows[r] = trace[c][r]
                                 \/ /\ ~(trace[c][r].is /\ trace[c][r].skip = "none")
                                    /\ rows[r].msg = "none" /\ ~rows[r].replied
<1> USE MarketingAssumption
<1> DEFINE rows == Resolved(c)
           New(r) == r \in Audience(c) /\ Number[r] \notin Already(c)
<1>1. DOMAIN rows = Records
  BY DEF Resolved
<1>2. ASSUME NEW r \in Records, ~New(r) PROVE rows[r] = trace[c][r]
  BY <1>2 DEF Resolved
<1>3. ASSUME NEW r \in Records, New(r)
      PROVE  /\ IsTrace(rows[r]) /\ OfRecord(r, rows[r])
             /\ rows[r].skip = Verdict(c, r) /\ rows[r].msg = "none" /\ ~rows[r].replied
             /\ ~(trace[c][r].is /\ trace[c][r].skip = "none")
  <2>1. rows[r] = [NoTrace EXCEPT !.is = TRUE, !.skip = Verdict(c, r), !.partner = PartnerOf(r)]
    BY <1>3 DEF Resolved
  <2>2. Verdict(c, r) \in Skips
    BY DEF Verdict, SkipReason, Skips
  <2>3. PartnerOf(r) \in 0 .. MaxRecord /\ (r \in Partners => PartnerOf(r) = r)
        /\ (PartnerOf(r) # 0 => Number[PartnerOf(r)] = Number[r])
    BY DEF PartnerOf, Linked, Records
  <2>4. ~(trace[c][r].is /\ trace[c][r].skip = "none")
    BY <1>3 DEF Already, Ledger
  <2> QED BY <2>1, <2>2, <2>3, <2>4 DEF NoTrace, IsTrace, OfRecord, Msgs
<1> HIDE DEF rows
<1>4. ASSUME NEW r \in Records, NEW q \in Records, r # q, rows[r].is, rows[q].is,
             Number[r] = Number[q], rows[r].skip = "none", rows[q].skip = "none"
      PROVE  FALSE
  <2>1. CASE ~New(r) /\ ~New(q)
    BY <1>2, <1>4, <2>1 DEF IsLedger, Unique
  <2>2. \A x, y \in Records : ~New(x) /\ New(y) /\ rows[x].is /\ rows[x].skip = "none"
                                 => Number[x] # Number[y]
    BY <1>2 DEF Already, Ledger
  <2>3. ASSUME NEW x \in Records, NEW y \in Records, New(x), New(y), x < y, Number[x] = Number[y],
               rows[x].skip = "none"
        PROVE  rows[y].skip # "none"
    <3>1. SkipReason(x, PartnerOf(x)) = "none"
      BY <1>3, <2>3 DEF Verdict
    <3>2. SeenBefore(c, y)
      BY <2>3, <3>1 DEF SeenBefore
    <3>3. rows[y].skip = Verdict(c, y)
      BY <1>3, <2>3
    <3> QED BY <3>2, <3>3 DEF Verdict
  <2>4. r < q \/ q < r
    BY <1>4 DEF Records
  <2> QED BY <1>4, <2>1, <2>2, <2>3, <2>4
<1>5. IsLedger(rows)
  BY <1>1, <1>2, <1>3, <1>4 DEF IsLedger, Unique
<1>6. \A r \in Records : \/ rows[r] = trace[c][r]
                         \/ /\ ~(trace[c][r].is /\ trace[c][r].skip = "none")
                            /\ rows[r].msg = "none" /\ ~rows[r].replied
  BY <1>2, <1>3
<1> QED BY <1>5, <1>6 DEF rows

\* A row that waits is queued or skipped, n of them at most; the others stay.
LEMMA MaterialiseFacts ==
    ASSUME NEW c \in Campaigns, NEW rows, IsLedger(rows), NEW n \in Nat
    PROVE  LET next == Materialise(c, rows, n) IN
           /\ IsLedger(next)
           /\ \A r \in Records :
                 \/ next[r] = rows[r]
                 \/ /\ rows[r].is /\ rows[r].skip = "none" /\ rows[r].msg = "none"
                    /\ next[r].is /\ next[r].msg \in {"none", "outgoing"}
                    /\ next[r].replied = rows[r].replied
           /\ Cardinality({r \in Records : next[r].msg # rows[r].msg}) \in 0 .. n
<1> USE MarketingAssumption
<1> DEFINE next == Materialise(c, rows, n)
           waiting == {r \in Records : rows[r].is /\ State(rows[r]) = "pending"}
           first == Taken(rows, n)
           changed == {r \in Records : next[r].msg # rows[r].msg}
<1>1. ASSUME NEW r \in Records, r \notin first PROVE next[r] = rows[r]
  BY <1>1 DEF Materialise
<1>2. ASSUME NEW r \in first
      PROVE  /\ rows[r].is /\ rows[r].skip = "none" /\ rows[r].msg = "none"
             /\ IsTrace(next[r]) /\ OfRecord(r, next[r])
             /\ next[r].is /\ next[r].msg \in {"none", "outgoing"}
             /\ next[r].replied = rows[r].replied
  <2>1. /\ r \in Records /\ IsTrace(rows[r]) /\ OfRecord(r, rows[r])
        /\ rows[r].is /\ rows[r].skip = "none" /\ rows[r].msg = "none"
    BY StateFacts DEF IsLedger, Taken
  <2>2. next[r] \in {rows[r], [rows[r] EXCEPT !.skip = "optout"], [rows[r] EXCEPT !.skip = "no_phone"],
                     [rows[r] EXCEPT !.msg = "outgoing", !.known = FALSE, !.age = 0]}
    BY <2>1 DEF Materialise
  <2> HIDE DEF next
  <2>3. \/ next[r] = rows[r]
        \/ \E skip \in {"optout", "no_phone"} : next[r] = [rows[r] EXCEPT !.skip = skip]
        \/ next[r] = [rows[r] EXCEPT !.msg = "outgoing", !.known = FALSE, !.age = 0]
    BY <2>2
  <2>4. ASSUME NEW skip \in {"optout", "no_phone"}, next[r] = [rows[r] EXCEPT !.skip = skip]
        PROVE  /\ IsTrace(next[r]) /\ OfRecord(r, next[r])
               /\ next[r].is /\ next[r].msg \in {"none", "outgoing"}
               /\ next[r].replied = rows[r].replied
    BY <2>1, <2>4 DEF IsTrace, OfRecord, Skips, Msgs
  <2>5. ASSUME next[r] = [rows[r] EXCEPT !.msg = "outgoing", !.known = FALSE, !.age = 0]
        PROVE  /\ IsTrace(next[r]) /\ OfRecord(r, next[r])
               /\ next[r].is /\ next[r].msg \in {"none", "outgoing"}
               /\ next[r].replied = rows[r].replied
    BY <2>1, <2>5 DEF IsTrace, OfRecord, Skips, Msgs
  <2> QED BY <2>1, <2>3, <2>4, <2>5
<1>3. DOMAIN next = Records
  BY DEF Materialise
<1>4. waiting \subseteq Records /\ first = {r \in waiting : Cardinality({q \in waiting : q <= r}) <= n}
  BY DEF Taken
<1>5. Cardinality(first) <= n /\ first \subseteq waiting
  BY <1>4, FirstFew
<1> HIDE DEF next, waiting, first
<1>6. IsLedger(next)
  <2>1. \A r \in Records : IsTrace(next[r]) /\ OfRecord(r, next[r])
    BY <1>1, <1>2, <1>4, <1>5 DEF IsLedger
  <2>2. \A r \in Records : next[r].is /\ next[r].skip = "none" => rows[r].is /\ rows[r].skip = "none"
    BY <1>1, <1>2
  <2>3. Unique(next)
    BY <2>2 DEF IsLedger, Unique
  <2> QED BY <1>3, <2>1, <2>3 DEF IsLedger
<1>7. Cardinality(changed) \in 0 .. n
  <2>1. changed \subseteq first /\ first \subseteq Records
    BY <1>1, <1>4, <1>5
  <2> HIDE DEF changed
  <2>2. Cardinality(changed) <= Cardinality(first) /\ Cardinality(changed) \in Nat
    BY <2>1, RecordsAreFinite, FS_Subset
  <2>3. Cardinality(first) \in Nat
    BY <2>1, RecordsAreFinite
  <2> QED BY <1>5, <2>2, <2>3
<1>8. \A r \in Records :
         \/ next[r] = rows[r]
         \/ /\ rows[r].is /\ rows[r].skip = "none" /\ rows[r].msg = "none"
            /\ next[r].is /\ next[r].msg \in {"none", "outgoing"}
            /\ next[r].replied = rows[r].replied
  BY <1>1, <1>2
<1> QED BY <1>6, <1>7, <1>8 DEF next, changed

\* What the pass makes of a ledger is a ledger.
LEMMA MaterialiseLedger ==
    ASSUME NEW c \in Campaigns, NEW rows, IsLedger(rows), NEW n \in Nat
    PROVE  IsLedger(Materialise(c, rows, n))
<1> DEFINE next == Materialise(c, rows, n)
<1>1. IsLedger(next)
  <2> HIDE DEF next
  <2>1. \E x : x = Materialise(c, rows, n)
    OBVIOUS
  <2>2. PICK x : x = Materialise(c, rows, n)
    BY <2>1
  <2>3. IsLedger(x)
    BY <2>2, MaterialiseFacts
  <2> QED BY <2>2, <2>3 DEF next
<1> QED BY <1>1

----------------------------------------------------------------------------
(* Types *)

\* The marketing cron's pass has work as long as it is on.
PassOK ==
    /\ pass.on <=> pass.todo # {} /\ pass.left > 0
    /\ DOMAIN pass = {"on", "todo", "left", "slice"}
    /\ pass.todo \subseteq Campaigns /\ pass.left \in Nat /\ pass.slice \in Nat

\* What a send has read of a row.
SeenOK(r, row) ==
    /\ DOMAIN row = {"msg", "partner", "gone", "known"}
    /\ row.msg \in {"none", "outgoing", "error"}
    /\ row.msg # "none" /\ r \in Partners => row.partner = r

\* An open send holds what might be sent, and the posted one of its rows.
SendOpen ==
    /\ send.pc = "open" /\ DOMAIN send = {"pc", "by", "people", "out", "asked", "unheard", "row"}
    /\ DOMAIN send.row = Campaigns /\ \A c \in Campaigns : DOMAIN send.row[c] = Records
    /\ \A c \in Campaigns, r \in Records : SeenOK(r, send.row[c][r])

SendPosted ==
    /\ send.pc = "posted" /\ DOMAIN send = {"pc", "by", "at", "res", "was"}
    /\ send.at \in Campaigns \X Records
    /\ DOMAIN send.was = {"msg", "partner", "gone", "known"} /\ send.was.msg \in {"outgoing", "error"}

SendOK == send = NoSend \/ SendOpen \/ SendPosted

\* What a send has read of a row is still so, unless the row was deleted; and then
\* that is noted.
Snap ==
    /\ send.pc = "open" =>
          \A c \in Campaigns, r \in Records : send.row[c][r].msg # "none" =>
              /\ send.row[c][r].gone => <<c, Number[r]>> \in deleted
              /\ ~send.row[c][r].gone => trace[c][r].msg = send.row[c][r].msg
    /\ send.pc = "posted" /\ ~send.was.gone => trace[send.at[1]][send.at[2]].msg = send.was.msg

\* Every campaign has a ledger.
Ledgers == DOMAIN trace = Campaigns /\ \A c \in Campaigns : IsLedger(trace[c])

\* The counters of the model's bounds.
EventsOK == /\ DOMAIN events = {"cancel", "other"}
            /\ events.cancel \in 0 .. MaxCancels /\ events.other \in 0 .. MaxEvents

\* The number counts its failures up to the pause.
Lines == [up : BOOLEAN, fails : 0 .. PauseAfter, paused : BOOLEAN]

\* The state as the steps find it: TypeOK, and what the steps rely on beside it.
Types ==
    /\ camp \in [Campaigns -> {"draft", "sending", "sent", "cancelled"}]
    /\ Ledgers
    /\ people \subseteq Partners /\ Linked /\ out \subseteq Records /\ asked \subseteq Records
    /\ unheard \subseteq Partners
    /\ PassOK /\ SendOK
    /\ other \in 0 .. Cap /\ line \in Lines
    /\ EventsOK

\* What a send, or its failure, makes of the number.
LEMMA NoteTypes ==
    ASSUME NEW l \in Lines
    PROVE  NoteSend(l) \in Lines /\ NoteFailure(l) \in Lines
<1> USE MarketingAssumption
<1>1. NoteSend(l) \in Lines
  BY DEF NoteSend, Lines
<1>2. NoteFailure(l) \in Lines
  <2> DEFINE fails == IF l.fails < PauseAfter THEN l.fails + 1 ELSE l.fails
  <2>1. fails \in 0 .. PauseAfter
    BY DEF Lines
  <2>2. NoteFailure(l) = [l EXCEPT !.fails = fails, !.paused = @ \/ (PauseAfter # 0 /\ fails >= PauseAfter)]
    BY DEF NoteFailure
  <2> HIDE DEF fails
  <2> QED BY <2>1, <2>2 DEF Lines
<1> QED BY <1>1, <1>2

\* What deletions leave of a send: the rows it has read of the deleted are gone.
LEMMA SendWithoutFacts ==
    ASSUME SendOK, NEW c \in Campaigns, NEW rs, rs \subseteq Records, send' = SendWithout(c, rs)
    PROVE  /\ SendOK' /\ send'.pc = send.pc
           /\ send.pc = "open" =>
                 /\ send'.out = send.out /\ send'.asked = send.asked /\ send'.unheard = send.unheard
                 /\ \A d \in Campaigns, r \in Records :
                       /\ send'.row[d][r].msg = send.row[d][r].msg
                       /\ IF d = c /\ r \in rs THEN send.row[d][r].msg # "none" => send'.row[d][r].gone
                          ELSE send'.row[d][r] = send.row[d][r]
           /\ send.pc = "posted" =>
                 /\ send'.at = send.at /\ send'.was.msg = send.was.msg
                 /\ IF send.at \in {c} \X rs THEN send'.was.gone ELSE send'.was = send.was
<1>g. ASSUME NEW was, NEW tr, DOMAIN was = {"msg", "partner", "gone", "known"}
      PROVE  LET g == Gone(was, tr) IN
             /\ DOMAIN g = DOMAIN was /\ g.msg = was.msg /\ g.partner = was.partner
             /\ was.msg # "none" => g.gone
  BY <1>g DEF Gone
<1>1. CASE send = NoSend
  <2>1. send' = send
    BY <1>1 DEF SendWithout, NoSend
  <2> QED BY <1>1, <2>1 DEF SendOK, NoSend
<1>2. CASE SendOpen
  <2> DEFINE new == [r \in Records |-> IF r \in rs THEN Gone(send.row[c][r], trace[c][r]) ELSE send.row[c][r]]
  <2>1. send' = [send EXCEPT !.row[c] = new]
    BY <1>2 DEF SendWithout, SendOpen
  <2>2. \A r \in Records : new[r] = IF r \in rs THEN Gone(send.row[c][r], trace[c][r]) ELSE send.row[c][r]
    OBVIOUS
  <2>3. DOMAIN new = Records
    OBVIOUS
  <2> HIDE DEF new
  <2>4. /\ DOMAIN send' = DOMAIN send /\ send'.pc = "open" /\ send'.out = send.out
        /\ send'.asked = send.asked /\ send'.unheard = send.unheard
        /\ send'.row = [send.row EXCEPT ![c] = new]
    BY <1>2, <2>1 DEF SendOpen
  <2>5. /\ DOMAIN send'.row = Campaigns /\ \A d \in Campaigns : DOMAIN send'.row[d] = Records
        /\ \A d \in Campaigns, r \in Records :
              send'.row[d][r] = IF d = c /\ r \in rs THEN Gone(send.row[d][r], trace[d][r]) ELSE send.row[d][r]
    BY <1>2, <2>2, <2>3, <2>4 DEF SendOpen
  <2>6. ASSUME NEW d \in Campaigns, NEW r \in Records
        PROVE  /\ SeenOK(r, send'.row[d][r])
               /\ send'.row[d][r].msg = send.row[d][r].msg
               /\ IF d = c /\ r \in rs THEN send.row[d][r].msg # "none" => send'.row[d][r].gone
                  ELSE send'.row[d][r] = send.row[d][r]
    <3>1. PICK o, w : o = send.row[d][r] /\ w = send'.row[d][r]
      OBVIOUS
    <3>2. SeenOK(r, o)
      BY <1>2, <3>1 DEF SendOpen
    <3>3. w = IF d = c /\ r \in rs THEN Gone(o, trace[d][r]) ELSE o
      BY <2>5, <3>1
    <3>4. CASE d = c /\ r \in rs
      <4>1. w = Gone(o, trace[d][r])
        BY <3>3, <3>4
      <4>2. /\ DOMAIN w = DOMAIN o /\ w.msg = o.msg /\ w.partner = o.partner
            /\ o.msg # "none" => w.gone
        BY <3>2, <4>1, <1>g DEF SeenOK
      <4> QED BY <3>1, <3>2, <3>4, <4>2 DEF SeenOK
    <3>5. CASE ~(d = c /\ r \in rs)
      BY <3>1, <3>2, <3>3, <3>5
    <3> QED BY <3>4, <3>5
  <2>7. \A d \in Campaigns, r \in Records : SeenOK(r, send'.row[d][r])
    BY <2>6
  <2>8. SendOpen'
    BY <1>2, <2>4, <2>5, <2>7 DEF SendOpen
  <2> QED BY <1>2, <2>4, <2>6, <2>8 DEF SendOK, SendOpen
<1>3. CASE SendPosted
  <2>1. CASE send.at \in {c} \X rs
    <3> DEFINE new == Gone(send.was, trace[c][send.at[2]])
    <3>1. send' = [send EXCEPT !.was = new]
      BY <1>3, <2>1 DEF SendWithout, SendPosted
    <3>2. /\ DOMAIN new = DOMAIN send.was /\ new.msg = send.was.msg /\ new.gone
      BY <1>3, <1>g DEF SendPosted
    <3> HIDE DEF new
    <3>3. /\ DOMAIN send' = DOMAIN send /\ send'.pc = "posted" /\ send'.at = send.at /\ send'.was = new
      BY <1>3, <3>1 DEF SendPosted
    <3> QED BY <1>3, <2>1, <3>2, <3>3 DEF SendOK, SendPosted
  <2>2. CASE send.at \notin {c} \X rs
    <3>1. send' = send
      BY <1>3, <2>2 DEF SendWithout, SendPosted
    <3> QED BY <1>3, <2>2, <3>1 DEF SendOK, SendPosted
  <2> QED BY <2>1, <2>2
<1> QED BY <1>1, <1>2, <1>3 DEF SendOK

\* w is o after its message or its reply has changed.
Kin(o, w) ==
    IsTrace(w) /\ w.is = o.is /\ w.skip = o.skip /\ w.partner = o.partner

\* A ledger whose messages or replies change is a ledger still.
LEMMA KinLedgers ==
    ASSUME Ledgers, NEW next, DOMAIN next = Campaigns,
           \A c \in Campaigns : DOMAIN next[c] = Records,
           \A c \in Campaigns, r \in Records : next[c][r] = trace[c][r] \/ Kin(trace[c][r], next[c][r])
    PROVE  \A c \in Campaigns : IsLedger(next[c])
<1> SUFFICES ASSUME NEW c \in Campaigns PROVE IsLedger(next[c])
  OBVIOUS
<1>1. ASSUME NEW r \in Records PROVE IsTrace(next[c][r]) /\ OfRecord(r, next[c][r])
  BY DEF Ledgers, IsLedger, Kin, OfRecord
<1>2. \A r \in Records : next[c][r].is = trace[c][r].is /\ next[c][r].skip = trace[c][r].skip
  BY DEF Kin
<1>3. Unique(next[c])
  BY <1>2 DEF Ledgers, IsLedger, Unique
<1> QED BY <1>1, <1>3 DEF IsLedger

\* Records are counted from one.
LEMMA PartnersAreNumbers == Partners \subseteq Nat
  BY MarketingAssumption DEF Records

\* _find_partner finds the oldest contact with the number, if there is one.
LEMMA FindPartnerType ==
    ASSUME NEW t, NEW born, born \subseteq Partners
    PROVE  LET p == FindPartner(t, born) IN
           /\ p = 0 \/ (p \in born /\ Number[p] = t)
           /\ \A r \in born : Number[r] = t => p # 0 /\ p <= r
<1> DEFINE hits == {r \in born : Number[r] = t}
<1>1. hits \subseteq Nat
  BY PartnersAreNumbers
<1>2. hits # {} => MinOf(hits) \in hits /\ \A r \in hits : MinOf(hits) <= r
  BY <1>1, MinOfFacts
<1>3. 0 \notin hits
  BY MarketingAssumption DEF Records
<1> QED BY <1>2, <1>3 DEF FindPartner

\* The partner that writing, or a conversion, creates.
LEMMA NewPartnerType ==
    ASSUME NEW t \in Numbers
    PROVE  LET q == MinOf({r \in Partners : Number[r] = t}) IN q \in Partners /\ Number[q] = t
<1> DEFINE S == {r \in Partners : Number[r] = t}
<1>1. S \subseteq Nat /\ S # {}
  BY PartnersAreNumbers DEF Numbers
<1>2. MinOf(S) \in S
  BY <1>1, MinOfFacts
<1> QED BY <1>2

\* The types, step by step.
LEMMA InitTypes == Init => Types
<1> SUFFICES ASSUME Init PROVE Types
  OBVIOUS
<1> USE MarketingAssumption
<1>1. Ledgers
  BY NoTraceType DEF Init, Ledgers, IsLedger, Unique, OfRecord, NoTrace
<1>2. PassOK /\ SendOK /\ Linked
  BY DEF Init, PassOK, SendOK, NoPass, Linked
<1>3. camp \in [Campaigns -> {"draft", "sending", "sent", "cancelled"}]
  BY DEF Init
<1>4. people \subseteq Partners /\ out \subseteq Records /\ asked \subseteq Records /\ unheard \subseteq Partners
  BY DEF Init
<1>5. other \in 0 .. Cap /\ line \in Lines /\ EventsOK
  BY DEF Init, EventsOK, Lines
<1> QED BY <1>1, <1>2, <1>3, <1>4, <1>5 DEF Types

LEMMA StartTypes ==
    ASSUME Types, NEW c \in Campaigns, Start(c) PROVE Types'
<1> USE MarketingAssumption DEF Types
<1> DEFINE rows == Resolved(c)
           next == Materialise(c, rows, SessionHeadroom)
<1>1. /\ trace' = [trace EXCEPT ![c] = next]
      /\ camp' = [camp EXCEPT ![c] = IF Done(next) THEN "sent" ELSE "sending"]
      /\ UNCHANGED <<contacts, pass, send, line, other, events>>
  BY DEF Start
<1>2. IsLedger(next)
  <2>1. IsLedger(rows)
    BY ResolvedFacts DEF Ledgers
  <2> HIDE DEF rows
  <2>2. SessionHeadroom \in Nat
    BY HeadroomType
  <2> QED BY <2>1, <2>2, MaterialiseFacts
<1> HIDE DEF next
<1>3. Ledgers'
  BY <1>1, <1>2 DEF Ledgers
<1> QED BY <1>1, <1>3 DEF PassOK, SendOK, SendOpen, SendPosted, Linked, EventsOK

LEMMA CancelTypes ==
    ASSUME Types, NEW c \in Campaigns, Cancel(c) PROVE Types'
<1> USE MarketingAssumption DEF Types
<1> DEFINE stopped == In(c, {"pending", "queued"})
           next == [r \in Records |-> IF r \in stopped THEN [trace[c][r] EXCEPT !.skip = "cancelled", !.msg = "none",
                                                                                !.known = FALSE]
                                      ELSE trace[c][r]]
<1>1. /\ trace' = [trace EXCEPT ![c] = next] /\ camp' = [camp EXCEPT ![c] = "cancelled"]
      /\ events' = [events EXCEPT !.cancel = @ + 1] /\ events.cancel < MaxCancels
      /\ send' = SendWithout(c, Queued(c)) /\ UNCHANGED <<contacts, pass, line, other>>
  BY DEF Cancel, Ledgers
<1> HIDE DEF stopped
<1>2. IsLedger(next)
  <2>1. \A r \in Records : IsTrace(next[r]) /\ OfRecord(r, next[r])
    BY DEF Ledgers, IsLedger, IsTrace, OfRecord, Skips, Msgs
  <2>2. \A r \in Records : next[r].is /\ next[r].skip = "none"
                             => trace[c][r].is /\ trace[c][r].skip = "none"
    BY DEF Ledgers, IsLedger, IsTrace
  <2>3. Unique(next)
    BY <2>2 DEF Ledgers, IsLedger, Unique
  <2> QED BY <2>1, <2>3 DEF IsLedger
<1> HIDE DEF next
<1>3. Ledgers'
  BY <1>1, <1>2 DEF Ledgers
<1>4. SendOK'
  BY <1>1, SendWithoutFacts DEF Queued
<1> QED BY <1>1, <1>3, <1>4 DEF PassOK, Linked, EventsOK

LEMMA ResetDraftTypes ==
    ASSUME Types, NEW c \in Campaigns, ResetDraft(c) PROVE Types'
<1> USE MarketingAssumption DEF Types
<1> DEFINE gone == In(c, {"skipped", "cancelled"})
           next == [r \in Records |-> IF r \in gone THEN NoTrace ELSE trace[c][r]]
<1>1. /\ trace' = [trace EXCEPT ![c] = next] /\ camp' = [camp EXCEPT ![c] = "draft"]
      /\ UNCHANGED <<contacts, pass, send, line, other, events>>
  BY DEF ResetDraft, Ledgers
<1> HIDE DEF gone
<1>2. IsLedger(next)
  <2>1. \A r \in Records : IsTrace(next[r]) /\ OfRecord(r, next[r])
    BY NoTraceType DEF Ledgers, IsLedger, OfRecord, NoTrace
  <2>2. \A r \in Records : next[r].is => next[r] = trace[c][r]
    BY NoTraceType
  <2>3. Unique(next)
    BY <2>2 DEF Ledgers, IsLedger, Unique
  <2> QED BY <2>1, <2>3 DEF IsLedger
<1> HIDE DEF next
<1>3. Ledgers'
  BY <1>1, <1>2 DEF Ledgers
<1> QED BY <1>1, <1>3 DEF PassOK, SendOK, SendOpen, SendPosted, Linked, EventsOK

LEMMA CronStartTypes ==
    ASSUME Types, CronStart PROVE Types'
<1> USE MarketingAssumption DEF Types
<1> DEFINE sending == {c \in Campaigns : camp[c] = "sending"}
           room == SessionHeadroom
           n == Cardinality(sending)
<1>1. /\ sending # {} /\ room > 0
      /\ pass' = [on |-> TRUE, todo |-> sending, left |-> room, slice |-> Slice(room, n)]
      /\ UNCHANGED <<camp, trace, contacts, send, line, other, events>>
  BY DEF CronStart
<1>2. n \in Nat \ {0}
  <2>1. IsFiniteSet(Campaigns)
    BY FS_Interval DEF Campaigns
  <2>2. IsFiniteSet(sending)
    BY <2>1, FS_Subset
  <2> QED BY <1>1, <2>2, FS_CardinalityType, FS_EmptySet
<1>3. room \in Nat
  BY HeadroomType
<1> HIDE DEF n, room
<1>4. Slice(room, n) \in Nat
  BY <1>2, <1>3 DEF Slice
<1>5. PassOK'
  BY <1>1, <1>3, <1>4 DEF PassOK
<1> QED BY <1>1, <1>5 DEF Ledgers, SendOK, SendOpen, SendPosted, Linked, EventsOK

\* What a batch makes of the campaign it has come to.
Batched(c, rows) ==
    rows = IF camp[c] = "sending" THEN Materialise(c, trace[c], Least(pass.slice, pass.left)) ELSE trace[c]

\* A batch of the cron, whether its campaign is still sending or was cancelled.
LEMMA CronBatchFacts ==
    ASSUME Types, CronBatch
    PROVE  \E c \in Campaigns, left \in Nat : \E rows :
              /\ IsLedger(rows) /\ Batched(c, rows) /\ c \in pass.todo
              /\ trace' = [trace EXCEPT ![c] = rows]
              /\ camp' = [camp EXCEPT ![c] = IF camp[c] = "sending" /\ Done(rows) THEN "sent" ELSE camp[c]]
              /\ pass' = IF left = 0 \/ pass.todo = {c} THEN NoPass
                         ELSE [pass EXCEPT !.todo = @ \ {c}, !.left = left]
<1> USE MarketingAssumption DEF Types
<1>1. PICK c, rows, left :
      /\ c = MinOf(pass.todo) /\ Batched(c, rows)
      /\ left = pass.left - Cardinality({r \in Records : rows[r].msg # trace[c][r].msg})
      /\ trace' = [trace EXCEPT ![c] = rows]
      /\ camp' = [camp EXCEPT ![c] = IF camp[c] = "sending" /\ Done(rows) THEN "sent" ELSE camp[c]]
      /\ pass' = IF left = 0 \/ pass.todo = {c} THEN NoPass
                 ELSE [pass EXCEPT !.todo = @ \ {c}, !.left = left]
      /\ pass.on
  BY DEF CronBatch, Batched
<1> DEFINE changed == {r \in Records : rows[r].msg # trace[c][r].msg}
<1>2. c \in pass.todo /\ c \in Campaigns
  <2>1. pass.todo # {} /\ pass.todo \subseteq Nat
    BY <1>1 DEF PassOK, Campaigns
  <2> QED BY <1>1, <2>1, MinOfFacts DEF PassOK
<1>3. IsLedger(rows) /\ left \in Nat
  <2>1. CASE camp[c] = "sending"
    <3> DEFINE n == Least(pass.slice, pass.left)
    <3>1. n \in Nat /\ n <= pass.left
      BY DEF PassOK, Least
    <3> HIDE DEF n
    <3>2. IsLedger(trace[c])
      BY <1>2 DEF Ledgers
    <3>3. IsLedger(Materialise(c, trace[c], n))
          /\ Cardinality({r \in Records : Materialise(c, trace[c], n)[r].msg # trace[c][r].msg}) \in 0 .. n
      BY <1>2, <3>1, <3>2, MaterialiseFacts
    <3>4. rows = Materialise(c, trace[c], n)
      BY <1>1, <2>1 DEF Batched, n
    <3>5. IsLedger(rows) /\ Cardinality(changed) \in 0 .. n
      BY <3>3, <3>4
    <3> HIDE DEF changed
    <3>6. left = pass.left - Cardinality(changed)
      BY <1>1 DEF changed
    <3> QED BY <3>1, <3>5, <3>6 DEF PassOK
  <2>2. CASE camp[c] # "sending"
    <3>1. rows = trace[c]
      BY <1>1, <2>2 DEF Batched
    <3>2. changed = {}
      BY <3>1
    <3>3. Cardinality(changed) = 0
      BY <3>2, FS_EmptySet
    <3>4. left = pass.left - Cardinality(changed)
      BY <1>1
    <3> HIDE DEF changed
    <3> QED BY <1>2, <3>1, <3>3, <3>4 DEF PassOK, Ledgers
  <2> QED BY <2>1, <2>2
<1> QED BY <1>1, <1>2, <1>3

LEMMA CronBatchTypes ==
    ASSUME Types, CronBatch PROVE Types'
<1> USE MarketingAssumption DEF Types
<1>1. PICK c \in Campaigns, left \in Nat : \E rows :
         /\ IsLedger(rows) /\ Batched(c, rows) /\ c \in pass.todo
         /\ trace' = [trace EXCEPT ![c] = rows]
         /\ camp' = [camp EXCEPT ![c] = IF camp[c] = "sending" /\ Done(rows) THEN "sent" ELSE camp[c]]
         /\ pass' = IF left = 0 \/ pass.todo = {c} THEN NoPass
                    ELSE [pass EXCEPT !.todo = @ \ {c}, !.left = left]
  BY CronBatchFacts
<1>r. PICK rows :
         /\ IsLedger(rows) /\ Batched(c, rows) /\ c \in pass.todo
         /\ trace' = [trace EXCEPT ![c] = rows]
         /\ camp' = [camp EXCEPT ![c] = IF camp[c] = "sending" /\ Done(rows) THEN "sent" ELSE camp[c]]
         /\ pass' = IF left = 0 \/ pass.todo = {c} THEN NoPass
                    ELSE [pass EXCEPT !.todo = @ \ {c}, !.left = left]
  BY <1>1
<1>2. pass.on /\ UNCHANGED <<contacts, send, line, other, events>>
  BY DEF CronBatch
<1>3. Ledgers'
  BY <1>r DEF Ledgers
<1>4. camp' \in [Campaigns -> {"draft", "sending", "sent", "cancelled"}]
  BY <1>r
<1>5. PassOK'
  <2>1. CASE left = 0 \/ pass.todo = {c}
    BY <1>r, <2>1 DEF PassOK, NoPass
  <2>2. CASE left # 0 /\ pass.todo # {c}
    <3>1. pass' = [pass EXCEPT !.todo = pass.todo \ {c}, !.left = left]
      BY <1>r, <2>2
    <3>2. pass.todo \ {c} # {} /\ left > 0
      BY <1>r, <2>2
    <3> QED BY <1>2, <3>1, <3>2 DEF PassOK
  <2> QED BY <2>1, <2>2
<1> QED BY <1>2, <1>3, <1>4, <1>5 DEF SendOK, SendOpen, SendPosted, Linked, EventsOK

LEMMA OpenTypes ==
    ASSUME Types, NEW by, Open(by), EventsOK' PROVE Types'
<1> USE MarketingAssumption DEF Types
<1>1. /\ send' = [pc |-> "open", by |-> by, people |-> people, out |-> out,
                  asked |-> asked, unheard |-> unheard,
                  row |-> [c \in Campaigns |-> [r \in Records |-> Seen(trace[c][r])]]]
      /\ UNCHANGED <<ledger, contacts, line, other>>
  BY DEF Open
<1>2. ASSUME NEW c \in Campaigns, NEW r \in Records PROVE SeenOK(r, Seen(trace[c][r]))
  <2>1. IsTrace(trace[c][r]) /\ OfRecord(r, trace[c][r])
    BY DEF Ledgers, IsLedger
  <2> QED BY <2>1 DEF Seen, SeenOK, IsTrace, OfRecord
<1>3. SendOpen'
  BY <1>1, <1>2 DEF SendOpen
<1> QED BY <1>1, <1>3 DEF Ledgers, PassOK, SendOK, Linked

\* What the POST of a row does: nothing leaves, or a copy does that the gateway
\* remembers from then on, or forgets at once.
LEMMA PostFacts ==
    ASSUME Types, NEW c \in Campaigns, NEW r \in Records, Post(c, r)
    PROVE  /\ send.pc = "open" /\ send.row[c][r].msg \in {"outgoing", "error"}
           /\ \E res \in {"sent", "error", "blocked"} : send' = Posted(c, r, res)
           /\ \/ UNCHANGED <<trace, wire, forgot>>
              \/ /\ ~Blocked(send, c, r) /\ ~Known(c, r)
                 /\ wire' = [wire EXCEPT ![c][Number[r]] = Least(2, @ + 1)]
                 /\ \/ trace' = trace /\ send.row[c][r].gone /\ forgot' = forgot
                    \/ trace' = [trace EXCEPT ![c][r].known = TRUE] /\ forgot' = forgot
                    \/ trace' = trace /\ forgot' = forgot \union {<<c, Number[r]>>}
           /\ UNCHANGED <<camp, pass, contacts, line, other, deleted, chan, events>>
<1>1. /\ send.pc = "open" /\ send.row[c][r].msg \in {"outgoing", "error"}
      /\ UNCHANGED <<camp, pass, contacts, line, other, deleted, chan, events>>
  BY DEF Post, Sendable
<1>2. CASE Blocked(send, c, r) \/ Known(c, r)
  BY <1>1, <1>2 DEF Post
<1>3. CASE ~Blocked(send, c, r) /\ ~Known(c, r)
  <2>1. PICK res \in {"sent", "error"}, left \in BOOLEAN, kept \in BOOLEAN :
           /\ kept => left
           /\ send' = Posted(c, r, res)
           /\ wire' = IF left THEN [wire EXCEPT ![c][Number[r]] = Least(2, @ + 1)] ELSE wire
           /\ trace' = IF kept /\ ~send.row[c][r].gone
                       THEN [trace EXCEPT ![c][r].known = TRUE] ELSE trace
           /\ forgot' = IF left /\ ~kept THEN forgot \union {<<c, Number[r]>>} ELSE forgot
    BY <1>3 DEF Post
  <2> QED BY <1>1, <1>3, <2>1
<1> QED BY <1>2, <1>3

\* The fields that a send, a reply or a day write.
LEMMA FieldKin ==
    ASSUME NEW o, IsTrace(o)
    PROVE  /\ \A b \in BOOLEAN : Kin(o, [o EXCEPT !.known = b]) /\ Kin(o, [o EXCEPT !.replied = b])
           /\ \A a \in 0 .. MaxAge : Kin(o, [o EXCEPT !.age = a])
           /\ \A m \in Msgs : (m # "none" => o.msg # "none")
                                 => /\ Kin(o, [o EXCEPT !.msg = m, !.known = FALSE])
                                    /\ Kin(o, [o EXCEPT !.msg = m, !.age = 0])
  BY MarketingAssumption DEF IsTrace, Kin, Msgs

\* A ledger in which one row has become another.
LEMMA OneRow ==
    ASSUME Ledgers, NEW c \in Campaigns, NEW r \in Records, NEW w, Kin(trace[c][r], w),
           NEW next, next = [trace EXCEPT ![c] = [trace[c] EXCEPT ![r] = w]]
    PROVE  DOMAIN next = Campaigns /\ \A d \in Campaigns : IsLedger(next[d])
<1>1. PICK n : n = next
  OBVIOUS
<1>2. /\ DOMAIN n = Campaigns /\ \A d \in Campaigns : DOMAIN n[d] = Records
      /\ \A d \in Campaigns, q \in Records :
            n[d][q] = IF d = c /\ q = r THEN w ELSE trace[d][q]
  BY <1>1 DEF Ledgers, IsLedger
<1>3. \A d \in Campaigns, q \in Records : n[d][q] = trace[d][q] \/ Kin(trace[d][q], n[d][q])
  BY <1>2
<1>4. \A d \in Campaigns : IsLedger(n[d])
  BY <1>2, <1>3, KinLedgers
<1> QED BY <1>1, <1>2, <1>4

LEMMA PostTypes ==
    ASSUME Types, NEW c \in Campaigns, NEW r \in Records, Post(c, r)
    PROVE  Types'
<1> USE DEF Types
<1>1. /\ send.pc = "open" /\ send.row[c][r].msg \in {"outgoing", "error"}
      /\ \E res \in {"sent", "error", "blocked"} : send' = Posted(c, r, res)
      /\ trace' = trace \/ trace' = [trace EXCEPT ![c][r].known = TRUE]
      /\ UNCHANGED <<camp, pass, contacts, line, other, events>>
  BY PostFacts
<1>2. Ledgers'
  <2> DEFINE w == [trace[c][r] EXCEPT !.known = TRUE]
             next == [trace EXCEPT ![c] = [trace[c] EXCEPT ![r] = w]]
  <2>1. Kin(trace[c][r], w)
    BY FieldKin DEF Ledgers, IsLedger
  <2>2. DOMAIN next = Campaigns /\ \A d \in Campaigns : IsLedger(next[d])
    BY <2>1, OneRow
  <2>3. trace' = trace \/ trace' = next
    BY <1>1 DEF Ledgers
  <2> QED BY <2>2, <2>3 DEF Ledgers
<1>3. SendPosted'
  <2>1. DOMAIN send.row[c][r] = {"msg", "partner", "gone", "known"}
    BY <1>1 DEF SendOK, SendOpen, SendPosted, NoSend, SeenOK
  <2> QED BY <1>1, <2>1 DEF SendPosted, Posted
<1> QED BY <1>1, <1>2, <1>3 DEF SendOK, PassOK, Linked, EventsOK

\* What is recorded, of a row that is still there.
LEMMA RecordFacts ==
    ASSUME Types, Snap, Record
    PROVE  /\ send.pc = "posted" /\ send' = NoSend
           /\ UNCHANGED <<camp, pass, contacts, reached, other, chan, events>>
           /\ \/ UNCHANGED <<trace, line>>
              \/ \E c \in Campaigns, r \in Records, msg \in {"sent", "error"} :
                    /\ line' \in Lines /\ trace[c][r].msg \in {"outgoing", "error"}
                    /\ trace' = [trace EXCEPT ![c] = [trace[c] EXCEPT ![r] =
                                    [trace[c][r] EXCEPT !.msg = msg, !.age = 0]]]
<1> USE DEF Types
<1> DEFINE c == send.at[1]
           r == send.at[2]
           msg == IF send.res = "sent" THEN "sent" ELSE "error"
<1>1. /\ send.pc = "posted" /\ send' = NoSend
      /\ UNCHANGED <<camp, pass, contacts, reached, other, chan, events>>
  BY DEF Record
<1>2. c \in Campaigns /\ r \in Records /\ msg \in {"sent", "error"} /\ send.was.msg \in {"outgoing", "error"}
  BY <1>1 DEF SendOK, SendOpen, SendPosted, NoSend
<1>3. CASE ~send.was.gone /\ ~(send.by = "hand" /\ send.res = "blocked")
  <2>1. trace[c][r].msg \in {"outgoing", "error"}
    BY <1>1, <1>2, <1>3 DEF Snap
  <2>2. line' \in Lines
    BY <1>3, NoteTypes DEF Record, Noted
  <2>3. trace' = [trace EXCEPT ![c][r].msg = msg, ![c][r].age = 0]
    BY <1>3 DEF Record
  <2>4. trace' = [trace EXCEPT ![c] = [trace[c] EXCEPT ![r] = [trace[c][r] EXCEPT !.msg = msg, !.age = 0]]]
    BY <1>2, <2>3 DEF Ledgers, IsLedger
  <2> QED BY <1>1, <1>2, <2>1, <2>2, <2>4
<1>4. CASE ~(~send.was.gone /\ ~(send.by = "hand" /\ send.res = "blocked"))
  BY <1>1, <1>4 DEF Record
<1> QED BY <1>3, <1>4

LEMMA RecordTypes ==
    ASSUME Types, Snap, Record PROVE Types'
<1> USE DEF Types
<1>1. send' = NoSend /\ UNCHANGED <<camp, pass, contacts, other, events>>
  BY RecordFacts
<1>2. CASE UNCHANGED <<trace, line>>
  BY <1>1, <1>2 DEF Ledgers, PassOK, SendOK, Linked, EventsOK
<1>3. ASSUME NEW c \in Campaigns, NEW r \in Records, NEW msg \in {"sent", "error"},
             line' \in Lines, trace[c][r].msg \in {"outgoing", "error"},
             trace' = [trace EXCEPT ![c] = [trace[c] EXCEPT ![r] =
                            [trace[c][r] EXCEPT !.msg = msg, !.age = 0]]]
      PROVE  Types'
  <2> DEFINE w == [trace[c][r] EXCEPT !.msg = msg, !.age = 0]
  <2>1. Kin(trace[c][r], w)
    BY <1>3, FieldKin DEF Ledgers, IsLedger, Msgs
  <2> HIDE DEF w
  <2>2. trace' = [trace EXCEPT ![c] = [trace[c] EXCEPT ![r] = w]]
    BY <1>3 DEF w
  <2>3. Ledgers'
    BY <2>1, <2>2, OneRow DEF Ledgers
  <2> QED BY <1>1, <1>3, <2>3 DEF PassOK, SendOK, Linked, EventsOK
<1> QED BY <1>2, <1>3, RecordFacts

\* The gateway forgets keys: of the ledgers only what it knows changes, and of an
\* open send only what it knew of the deleted.
LEMMA ForgetFacts ==
    ASSUME Types, NEW keys, keys \subseteq Keys, Forget(keys)
    PROVE  /\ DOMAIN trace' = Campaigns /\ \A c \in Campaigns : DOMAIN trace'[c] = Records
           /\ \A c \in Campaigns, r \in Records :
                 \/ trace'[c][r] = trace[c][r]
                 \/ /\ trace'[c][r] = [trace[c][r] EXCEPT !.known = FALSE]
                    /\ trace[c][r].known /\ trace[c][r].msg # "sent" => <<c, Number[r]>> \in forgot'
           /\ forgot \subseteq forgot'
           /\ SendOK' /\ send'.pc = send.pc
           /\ send.pc = "open" =>
                 /\ send'.out = send.out /\ send'.asked = send.asked /\ send'.unheard = send.unheard
                 /\ \A c \in Campaigns, r \in Records :
                       /\ send'.row[c][r].msg = send.row[c][r].msg
                       /\ send'.row[c][r].gone = send.row[c][r].gone
           /\ send.pc # "open" => send' = send
<1> USE DEF Types
<1>1. /\ DOMAIN trace' = Campaigns /\ \A c \in Campaigns : DOMAIN trace'[c] = Records
      /\ \A c \in Campaigns, r \in Records :
            trace'[c][r] = IF <<c, r>> \in keys THEN [trace[c][r] EXCEPT !.known = FALSE] ELSE trace[c][r]
  BY DEF Forget
<1>2. /\ forgot \subseteq forgot'
      /\ \A c \in Campaigns, r \in Records :
            <<c, r>> \in keys /\ trace[c][r].known /\ trace[c][r].msg # "sent" => <<c, Number[r]>> \in forgot'
  <2> DEFINE F == {k \in keys : trace[k[1]][k[2]].known /\ trace[k[1]][k[2]].msg # "sent"}
  <2>1. forgot' = forgot \union {<<k[1], Number[k[2]]>> : k \in F}
    BY DEF Forget
  <2>2. ASSUME NEW c \in Campaigns, NEW r \in Records, <<c, r>> \in keys,
               trace[c][r].known, trace[c][r].msg # "sent"
        PROVE  <<c, Number[r]>> \in forgot'
    <3>1. <<c, r>> \in F
      BY <2>2
    <3> HIDE DEF F
    <3> QED BY <2>1, <3>1
  <2> QED BY <2>1, <2>2
<1>k. ASSUME NEW c \in Campaigns, NEW r \in Records
      PROVE  \/ trace'[c][r] = trace[c][r]
             \/ /\ trace'[c][r] = [trace[c][r] EXCEPT !.known = FALSE]
                /\ trace[c][r].known /\ trace[c][r].msg # "sent" => <<c, Number[r]>> \in forgot'
  BY <1>1, <1>2
<1>3. CASE send.pc = "open"
  <2>1. SendOpen
    BY <1>3 DEF SendOK, SendPosted, NoSend
  <2> DEFINE rows == [c \in Campaigns |-> [r \in Records |->
                        IF <<c, r>> \in keys THEN [send.row[c][r] EXCEPT !.known = FALSE] ELSE send.row[c][r]]]
  <2>2. send' = [send EXCEPT !.row = rows]
    BY <1>3, <2>1 DEF Forget, SendOpen
  <2>3. /\ DOMAIN rows = Campaigns /\ \A c \in Campaigns : DOMAIN rows[c] = Records
        /\ \A c \in Campaigns, r \in Records :
              rows[c][r] = IF <<c, r>> \in keys THEN [send.row[c][r] EXCEPT !.known = FALSE] ELSE send.row[c][r]
    OBVIOUS
  <2> HIDE DEF rows
  <2>4. /\ DOMAIN send' = DOMAIN send /\ send'.pc = "open" /\ send'.row = rows
        /\ send'.out = send.out /\ send'.asked = send.asked /\ send'.unheard = send.unheard
    BY <2>1, <2>2 DEF SendOpen
  <2>5. ASSUME NEW c \in Campaigns, NEW r \in Records
        PROVE  /\ SeenOK(r, rows[c][r]) /\ rows[c][r].msg = send.row[c][r].msg
               /\ rows[c][r].gone = send.row[c][r].gone
    <3>1. PICK o, w : o = send.row[c][r] /\ w = rows[c][r]
      OBVIOUS
    <3>2. SeenOK(r, o) /\ (w = o \/ w = [o EXCEPT !.known = FALSE])
      BY <2>1, <2>3, <3>1 DEF SendOpen
    <3> QED BY <3>1, <3>2 DEF SeenOK
  <2>6. SendOpen'
    BY <2>1, <2>3, <2>4, <2>5 DEF SendOpen
  <2> QED BY <1>1, <1>2, <1>k, <1>3, <2>4, <2>5, <2>6 DEF SendOK
<1>4. CASE send.pc # "open"
  <2>1. send' = send
    BY <1>4 DEF Forget
  <2>2. SendOK'
    BY <2>1 DEF SendOK, SendOpen, SendPosted
  <2> QED BY <1>1, <1>2, <1>k, <1>4, <2>1, <2>2
<1> QED BY <1>3, <1>4

LEMMA ForgetTypes ==
    ASSUME Types, NEW keys, keys \subseteq Keys, Forget(keys), EventsOK' PROVE Types'
<1> USE DEF Types
<1>1. UNCHANGED <<camp, pass, contacts, line, other>>
  BY DEF Forget
<1>2. ASSUME NEW c \in Campaigns, NEW r \in Records
      PROVE  trace'[c][r] = trace[c][r] \/ Kin(trace[c][r], trace'[c][r])
  <2>1. Kin(trace[c][r], [trace[c][r] EXCEPT !.known = FALSE])
    BY FieldKin DEF Ledgers, IsLedger
  <2> QED BY <2>1, ForgetFacts
<1>3. DOMAIN trace' = Campaigns /\ \A c \in Campaigns : DOMAIN trace'[c] = Records
  BY ForgetFacts
<1>4. Ledgers'
  BY <1>2, <1>3, KinLedgers DEF Ledgers
<1>5. SendOK'
  BY ForgetFacts
<1> QED BY <1>1, <1>4, <1>5 DEF PassOK, Linked

LEMMA NewDayTypes ==
    ASSUME Types, NewDay PROVE Types'
<1> USE MarketingAssumption DEF Types
<1>1. /\ other' = 0 /\ UNCHANGED <<camp, contacts, pass, send, line, events>>
      /\ DOMAIN trace' = Campaigns /\ \A c \in Campaigns : DOMAIN trace'[c] = Records
      /\ \A c \in Campaigns, r \in Records :
            \/ trace'[c][r] = trace[c][r]
            \/ /\ trace[c][r].age < MaxAge
               /\ trace'[c][r] = [trace[c][r] EXCEPT !.age = @ + 1]
  BY DEF NewDay
<1>2. ASSUME NEW c \in Campaigns, NEW r \in Records
      PROVE  trace'[c][r] = trace[c][r] \/ Kin(trace[c][r], trace'[c][r])
  <2>1. IsTrace(trace[c][r])
    BY DEF Ledgers, IsLedger
  <2>2. trace[c][r].age < MaxAge => trace[c][r].age + 1 \in 0 .. MaxAge
    BY <2>1 DEF IsTrace
  <2>3. trace[c][r].age < MaxAge
           => Kin(trace[c][r], [trace[c][r] EXCEPT !.age = trace[c][r].age + 1])
    BY <2>1, <2>2, FieldKin
  <2> QED BY <1>1, <2>3
<1>3. \A c \in Campaigns : IsLedger(trace'[c])
  BY <1>1, <1>2, KinLedgers
<1> QED BY <1>1, <1>3 DEF Ledgers, PassOK, SendOK, SendOpen, SendPosted, Linked, EventsOK

\* A keyword flags and frees records.
LEMMA KeywordTypes ==
    ASSUME Types, NEW t, NEW word, NEW made, made \subseteq Partners, Keyword(t, word, made)
    PROVE  out' \subseteq Records /\ asked' \subseteq Records /\ unheard' \subseteq Partners
<1> USE MarketingAssumption DEF Types
<1> DEFINE p == FindPartner(t, people)
<1>1. p = 0 \/ p \in people
  BY FindPartnerType
<1>2. Targets(t, p) \subseteq Records
  BY <1>1 DEF Targets
<1> HIDE DEF p
<1>3. \/ out' = out \union Targets(t, p)
      \/ out' = out \ Targets(t, p)
      \/ out' = out
  BY DEF Keyword, p
<1>4. asked' \subseteq Records /\ unheard' \subseteq Partners
  BY DEF Keyword
<1> QED BY <1>2, <1>3, <1>4

\* The ledger after a reply: the answered copy, if there is one, is credited.
LEMMA ReplyFacts ==
    ASSUME Types, NEW t \in Numbers, NEW word, Reply(t, word)
    PROVE  LET p == FindPartner(t, people) IN
           \/ trace' = trace /\ chan' = [chan EXCEPT ![t] = Attend({}, @)]
           \/ \E c \in Campaigns, r \in Records :
                 /\ trace[c][r].is /\ (Number[r] = t \/ (p # 0 /\ trace[c][r].partner = p))
                 /\ trace' = [trace EXCEPT ![c] = [trace[c] EXCEPT ![r] = [trace[c][r] EXCEPT !.replied = TRUE]]]
                 /\ chan' = [chan EXCEPT ![t] = Attend(Operators[c], @)]
<1> DEFINE p == FindPartner(t, people)
<1>1. CASE trace' = trace /\ chan' = [chan EXCEPT ![t] = Attend({}, @)]
  BY <1>1
<1>2. CASE \E w \in Answered(t, p) :
              /\ trace' = [trace EXCEPT ![w[1]][w[2]].replied = TRUE]
              /\ chan' = [chan EXCEPT ![t] = Attend(Operators[w[1]], @)]
  <2>1. PICK w \in Answered(t, p) :
              /\ trace' = [trace EXCEPT ![w[1]][w[2]].replied = TRUE]
              /\ chan' = [chan EXCEPT ![t] = Attend(Operators[w[1]], @)]
    BY <1>2
  <2>2. /\ w[1] \in Campaigns /\ w[2] \in Records /\ trace[w[1]][w[2]].is
        /\ Number[w[2]] = t \/ (p # 0 /\ trace[w[1]][w[2]].partner = p)
    BY DEF Answered
  <2> HIDE DEF p
  <2>3. trace' = [trace EXCEPT ![w[1]] = [trace[w[1]] EXCEPT ![w[2]] = [trace[w[1]][w[2]] EXCEPT !.replied = TRUE]]]
    BY <2>1, <2>2 DEF Types, Ledgers, IsLedger
  <2> QED BY <2>1, <2>2, <2>3 DEF p
<1> QED BY <1>1, <1>2 DEF Reply

LEMMA ReplyTypes ==
    ASSUME Types, NEW t \in Numbers, NEW word, Reply(t, word), EventsOK' PROVE Types'
<1> USE MarketingAssumption DEF Types
<1> DEFINE made == IF chan[t] = {} /\ FindPartner(t, people) = 0 THEN {MinOf({r \in Partners : Number[r] = t})}
                   ELSE {}
<1>1. UNCHANGED <<camp, link, pass, send, line, other>> /\ Keyword(t, word, made) /\ people' = people \union made
  BY DEF Reply
<1>2. made \subseteq Partners
  BY NewPartnerType
<1> HIDE DEF made
<1>3. /\ out' \subseteq Records /\ asked' \subseteq Records /\ unheard' \subseteq Partners
      /\ people' \subseteq Partners
  BY <1>1, <1>2, KeywordTypes
<1>4. Ledgers'
  <2>1. CASE trace' = trace
    BY <2>1 DEF Ledgers
  <2>2. CASE \E c \in Campaigns, r \in Records :
                trace' = [trace EXCEPT ![c] = [trace[c] EXCEPT ![r] = [trace[c][r] EXCEPT !.replied = TRUE]]]
    <3>1. PICK c \in Campaigns, r \in Records :
                trace' = [trace EXCEPT ![c] = [trace[c] EXCEPT ![r] = [trace[c][r] EXCEPT !.replied = TRUE]]]
      BY <2>2
    <3> DEFINE w == [trace[c][r] EXCEPT !.replied = TRUE]
               next == [trace EXCEPT ![c] = [trace[c] EXCEPT ![r] = w]]
    <3>2. Kin(trace[c][r], w)
      BY FieldKin DEF Ledgers, IsLedger
    <3>3. DOMAIN next = Campaigns /\ \A d \in Campaigns : IsLedger(next[d])
      BY <3>2, OneRow
    <3> QED BY <3>1, <3>3 DEF Ledgers
  <2> QED BY <2>1, <2>2, ReplyFacts
<1> QED BY <1>1, <1>3, <1>4 DEF PassOK, SendOK, SendOpen, SendPosted, Linked

LEMMA ConvertTypes ==
    ASSUME Types, NEW r \in Records, Convert(r), EventsOK' PROVE Types'
<1> USE MarketingAssumption DEF Types
<1> DEFINE p == FindPartner(Number[r], people)
           q == IF p # 0 THEN p ELSE MinOf({s \in Partners : Number[s] = Number[r]})
<1>1. /\ Number[r] \in Numbers
      /\ link' = [link EXCEPT ![r] = q] /\ people' = people \union {q}
      /\ out' = (IF r \in out THEN out \union {q} ELSE out) /\ unheard' \subseteq unheard
      /\ asked' = IF r \in asked THEN asked \union {q} ELSE asked
      /\ UNCHANGED <<ledger, send, line, other>>
  BY DEF Convert
<1>2. q \in Partners /\ Number[q] = Number[r]
  <2>1. p = 0 \/ (p \in people /\ Number[p] = Number[r])
    BY FindPartnerType
  <2> HIDE DEF p
  <2> QED BY <1>1, <2>1, NewPartnerType
<1> HIDE DEF q
<1>3. q \in 0 .. MaxRecord /\ q \in Records
  BY <1>2 DEF Records
<1>4. Linked'
  BY <1>1, <1>2, <1>3 DEF Linked
<1> QED BY <1>1, <1>2, <1>3, <1>4 DEF Ledgers, PassOK, SendOK, SendOpen, SendPosted

LEMMA DeleteMessageTypes ==
    ASSUME Types, NEW c \in Campaigns, NEW r \in Records, DeleteMessage(c, r), EventsOK' PROVE Types'
<1> USE DEF Types
<1> DEFINE w == [trace[c][r] EXCEPT !.msg = "none", !.known = FALSE]
           next == [trace EXCEPT ![c] = [trace[c] EXCEPT ![r] = w]]
<1>1. /\ trace' = next /\ send' = SendWithout(c, {r}) /\ UNCHANGED <<camp, contacts, pass, line, other>>
  BY DEF DeleteMessage, Ledgers, IsLedger
<1>2. Kin(trace[c][r], w)
  BY FieldKin DEF Ledgers, IsLedger, Msgs
<1>3. DOMAIN next = Campaigns /\ \A d \in Campaigns : IsLedger(next[d])
  BY <1>2, OneRow
<1> HIDE DEF next
<1>4. Ledgers'
  BY <1>1, <1>3 DEF Ledgers
<1>5. SendOK'
  BY <1>1, SendWithoutFacts
<1> QED BY <1>1, <1>4, <1>5 DEF PassOK, Linked

LEMMA LineTypes ==
    ASSUME Types, Line PROVE Types'
<1>1. UNCHANGED <<ledger, contacts, send, other, events>>
  BY DEF Line
<1>2. line' \in Lines
  <2>1. line \in Lines /\ 0 \in 0 .. PauseAfter
    BY MarketingAssumption DEF Types
  <2>2. CASE line' = [line EXCEPT !.up = ~@]
    BY <2>1, <2>2 DEF Lines
  <2>3. CASE line' = [line EXCEPT !.paused = FALSE, !.fails = 0]
    BY <2>1, <2>3 DEF Lines
  <2> QED BY <2>2, <2>3 DEF Line
<1> QED BY <1>1, <1>2 DEF Types, Ledgers, PassOK, SendOK, SendOpen, SendPosted, Linked, EventsOK

LEMMA SendOtherTypes ==
    ASSUME Types, SendOther, EventsOK' PROVE Types'
<1> USE MarketingAssumption DEF Types
<1>1. other' \in 0 .. Cap /\ line' \in Lines /\ UNCHANGED <<ledger, contacts, send>>
  BY NoteTypes DEF SendOther
<1> QED BY <1>1 DEF Ledgers, PassOK, SendOK, SendOpen, SendPosted, Linked

LEMMA NextTypes == Types /\ Snap /\ [Next]_vars => Types'
<1> SUFFICES ASSUME Types, Snap, [Next]_vars PROVE Types'
  OBVIOUS
<1>1. CASE \E c \in Campaigns : Start(c) \/ Cancel(c) \/ ResetDraft(c)
  BY <1>1, StartTypes, CancelTypes, ResetDraftTypes
<1>2. CASE CronStart \/ CronBatch
  BY <1>2, CronStartTypes, CronBatchTypes
<1>3. CASE Line \/ NewDay
  BY <1>3, LineTypes, NewDayTypes
<1>4. CASE OpenQueue
  <2>1. EventsOK'
    BY <1>4 DEF OpenQueue, Types, EventsOK
  <2> QED BY <1>4, <2>1, OpenTypes DEF OpenQueue
<1>5. CASE Posts
  BY <1>5, PostTypes, RecordTypes DEF Posts
<1>6. CASE Others
  <2>1. EventsOK'
    BY <1>6, MarketingAssumption DEF Others, Types, EventsOK
  <2>2. CASE SendOther
    BY <2>1, <2>2, SendOtherTypes
  <2>3. CASE Kill
    BY <2>1, <2>3 DEF Kill, Types, Ledgers, PassOK, SendOK, SendOpen, SendPosted, Linked, NoPass
  <2>4. CASE \E t \in Numbers, word \in {"stop", "start", "hello"} : Reply(t, word)
    BY <2>1, <2>4, ReplyTypes
  <2>5. CASE \E r \in Records : Convert(r)
    BY <2>1, <2>5, ConvertTypes
  <2>6. CASE \E c \in Campaigns, r \in Records : DeleteMessage(c, r)
    BY <2>1, <2>6, DeleteMessageTypes
  <2>7. CASE Open("hand")
    BY <2>1, <2>7, OpenTypes
  <2>8. CASE Forget(Keys) \/ \E k \in Keys : Forget({k})
    BY <2>1, <2>8, ForgetTypes
  <2> QED BY <1>6, <2>2, <2>3, <2>4, <2>5, <2>6, <2>7, <2>8 DEF Others
<1>7. CASE UNCHANGED vars
  BY <1>7 DEF vars, Types, Ledgers, PassOK, SendOK, SendOpen, SendPosted, Linked, EventsOK
<1> QED BY <1>1, <1>2, <1>3, <1>4, <1>5, <1>6, <1>7 DEF Next

----------------------------------------------------------------------------
(* One copy of a campaign to a number *)

\* The row of a copy that has left: the gateway knows the key, or it says sent.
Remembers(tr) == tr.msg # "none" /\ (tr.known \/ tr.msg = "sent")

\* A copy that has left, and whose row has not been deleted nor its key forgotten,
\* is remembered by the one row of its number.
Once ==
    /\ DOMAIN wire = Campaigns
    /\ \A c \in Campaigns : DOMAIN wire[c] = {Number[r] : r \in Records}
    /\ \A c \in Campaigns, t \in {Number[r] : r \in Records} : <<c, t>> \notin deleted \union forgot =>
          \/ wire[c][t] = 0
          \/ wire[c][t] = 1 /\ \E r \in Records : Number[r] = t /\ Remembers(trace[c][r])

\* A step that sends nothing and forgets no row unnoticed.
LEMMA OnceKept ==
    ASSUME Once, wire' = wire, deleted \subseteq deleted', forgot \subseteq forgot',
           \A c \in Campaigns, r \in Records :
              Remembers(trace[c][r]) /\ <<c, Number[r]>> \notin deleted' \union forgot'
                 => Remembers(trace'[c][r])
    PROVE  Once'
  BY DEF Once

\* A step that leaves the send alone, or ends it, and every row with a message.
LEMMA SnapKept ==
    ASSUME SendOK, Snap, deleted \subseteq deleted', send' = send \/ send' = NoSend,
           \A c \in Campaigns, r \in Records :
              trace[c][r].msg # "none" => trace'[c][r].msg = trace[c][r].msg
    PROVE  Snap'
<1>1. CASE send' = NoSend
  BY <1>1 DEF Snap, NoSend
<1>2. CASE send' = send
  <2>1. CASE send.pc = "open"
    BY <1>2, <2>1 DEF Snap
  <2>2. CASE send.pc = "posted"
    <3>1. /\ send.at[1] \in Campaigns /\ send.at[2] \in Records /\ send.was.msg # "none"
      BY <2>2 DEF SendOK, SendOpen, SendPosted, NoSend
    <3> QED BY <1>2, <2>2, <3>1 DEF Snap
  <2>3. CASE send.pc \notin {"open", "posted"}
    BY <1>2, <2>3 DEF Snap
  <2> QED BY <2>1, <2>2, <2>3
<1> QED BY <1>1, <1>2

\* A step that changes no row with a message.
LEMMA BothKept ==
    ASSUME Types, Once, Snap, UNCHANGED <<wire, deleted, forgot>>, send' = send \/ send' = NoSend,
           \A c \in Campaigns, r \in Records :
              trace[c][r].msg # "none" =>
                 trace'[c][r].msg = trace[c][r].msg /\ trace'[c][r].known = trace[c][r].known
    PROVE  Once' /\ Snap'
<1>1. Once'
  BY OnceKept DEF Remembers
<1>2. Snap'
  BY SnapKept DEF Types
<1> QED BY <1>1, <1>2

\* A step that deletes messages: those that had left, or of which a send was open,
\* are noted, and what the send has read of them is gone.
LEMMA DeletionKept ==
    ASSUME Types, Once, Snap, NEW c \in Campaigns, NEW rs, rs \subseteq Records,
           UNCHANGED <<wire, forgot>>, deleted \subseteq deleted', send' = SendWithout(c, rs),
           \A d \in Campaigns, r \in Records :
              (d # c \/ r \notin rs) /\ trace[d][r].msg # "none" => trace'[d][r] = trace[d][r],
           \A r \in rs : <<c, Number[r]>> \notin deleted' =>
              ~Remembers(trace[c][r]) /\ (send.pc = "open" => send.row[c][r].msg = "none")
    PROVE  Once' /\ Snap'
<1>1. Once'
  BY OnceKept DEF Remembers
<1>2. SendOK
  BY DEF Types
<1>3. CASE send.pc = "open"
  <2>1. /\ send'.pc = "open"
        /\ \A d \in Campaigns, r \in Records :
              /\ send'.row[d][r].msg = send.row[d][r].msg
              /\ IF d = c /\ r \in rs THEN send.row[d][r].msg # "none" => send'.row[d][r].gone
                 ELSE send'.row[d][r] = send.row[d][r]
    BY <1>2, <1>3, SendWithoutFacts
  <2>2. ASSUME NEW d \in Campaigns, NEW r \in Records, send'.row[d][r].msg # "none"
        PROVE  /\ send'.row[d][r].gone => <<d, Number[r]>> \in deleted'
               /\ ~send'.row[d][r].gone => trace'[d][r].msg = send'.row[d][r].msg
    <3>1. CASE d = c /\ r \in rs
      BY <1>3, <2>1, <2>2, <3>1
    <3>2. CASE d # c \/ r \notin rs
      <4>1. send'.row[d][r] = send.row[d][r]
        BY <2>1, <3>2
      <4>2. /\ send.row[d][r].gone => <<d, Number[r]>> \in deleted
            /\ ~send.row[d][r].gone => trace[d][r].msg = send.row[d][r].msg
        BY <1>3, <2>2, <4>1 DEF Snap
      <4> QED BY <2>2, <3>2, <4>1, <4>2
    <3> QED BY <3>1, <3>2
  <2> QED BY <1>1, <2>1, <2>2 DEF Snap
<1>4. CASE send.pc = "posted"
  <2>1. /\ send'.pc = "posted" /\ send'.at = send.at /\ send'.was.msg = send.was.msg
        /\ IF send.at \in {c} \X rs THEN send'.was.gone ELSE send'.was = send.was
    BY <1>2, <1>4, SendWithoutFacts
  <2>2. send.at \in Campaigns \X Records /\ send.was.msg # "none"
    BY <1>2, <1>4 DEF SendOK, SendOpen, SendPosted, NoSend
  <2>3. ASSUME ~send'.was.gone PROVE trace'[send.at[1]][send.at[2]].msg = send'.was.msg
    <3>1. send.at \notin {c} \X rs /\ send'.was = send.was
      BY <2>1, <2>3
    <3>2. send.at[1] # c \/ send.at[2] \notin rs
      BY <2>2, <3>1
    <3>3. trace[send.at[1]][send.at[2]].msg = send.was.msg
      BY <1>4, <2>3, <3>1 DEF Snap
    <3> QED BY <2>2, <3>1, <3>2, <3>3
  <2> QED BY <1>1, <2>1, <2>3 DEF Snap
<1>5. CASE send.pc \notin {"open", "posted"}
  <2>1. send'.pc = send.pc
    BY <1>2, SendWithoutFacts
  <2> QED BY <1>1, <1>5, <2>1 DEF Snap
<1> QED BY <1>3, <1>4, <1>5

\* The pass leaves a row with a message alone.
LEMMA MaterialisedKeeps ==
    ASSUME NEW c \in Campaigns, NEW rows, IsLedger(rows), NEW n \in Nat, NEW r \in Records,
           rows[r].msg # "none"
    PROVE  Materialise(c, rows, n)[r] = rows[r]
<1> DEFINE next == Materialise(c, rows, n)
<1>1. \A q \in Records : \/ next[q] = rows[q]
                          \/ /\ rows[q].is /\ rows[q].skip = "none" /\ rows[q].msg = "none"
                             /\ next[q].is /\ next[q].msg \in {"none", "outgoing"}
                             /\ next[q].replied = rows[q].replied
  BY MaterialiseFacts
<1> HIDE DEF next
<1>2. next[r] = rows[r]
  BY <1>1
<1> QED BY <1>2 DEF next

\* The pass credits nobody.
LEMMA MaterialisedReplied ==
    ASSUME NEW c \in Campaigns, NEW rows, IsLedger(rows), NEW n \in Nat, NEW r \in Records
    PROVE  Materialise(c, rows, n)[r].replied = rows[r].replied
<1> DEFINE next == Materialise(c, rows, n)
<1>1. \A q \in Records : \/ next[q] = rows[q]
                          \/ /\ rows[q].is /\ rows[q].skip = "none" /\ rows[q].msg = "none"
                             /\ next[q].is /\ next[q].msg \in {"none", "outgoing"}
                             /\ next[q].replied = rows[q].replied
  BY MaterialiseFacts, ZenonT(60)
<1> HIDE DEF next
<1>2. next[r].replied = rows[r].replied
  BY <1>1
<1> QED BY <1>2 DEF next

\* Once and Snap, step by step.
LEMMA StartOnce ==
    ASSUME Types, Once, Snap, NEW c \in Campaigns, Start(c) PROVE Once' /\ Snap'
<1> USE MarketingAssumption DEF Types
<1> DEFINE rows == Resolved(c)
           next == Materialise(c, rows, SessionHeadroom)
<1>1. trace' = [trace EXCEPT ![c] = next] /\ UNCHANGED <<send, reached>>
  BY DEF Start
<1>2. /\ IsLedger(rows)
      /\ \A r \in Records : \/ rows[r] = trace[c][r]
                            \/ ~(trace[c][r].is /\ trace[c][r].skip = "none")
  BY ResolvedFacts DEF Ledgers
<1> HIDE DEF rows
<1>3. \A r \in Records : next[r] = rows[r] \/ rows[r].msg = "none"
  <2>1. SessionHeadroom \in Nat
    BY HeadroomType
  <2> QED BY <1>2, <2>1, MaterialisedKeeps
<1> HIDE DEF next
<1>4. \A r \in Records : trace[c][r].msg # "none" => next[r] = trace[c][r]
  BY <1>2, <1>3 DEF Ledgers, IsLedger, IsTrace
<1>5. \A d \in Campaigns, r \in Records : trace[d][r].msg # "none" => trace'[d][r] = trace[d][r]
  BY <1>1, <1>4 DEF Ledgers
<1> QED BY <1>1, <1>5, BothKept

LEMMA CancelOnce ==
    ASSUME Types, Once, Snap, NEW c \in Campaigns, Cancel(c) PROVE Once' /\ Snap'
<1> USE DEF Types
<1> DEFINE stopped == In(c, {"pending", "queued"})
           next == [r \in Records |-> IF r \in stopped THEN [trace[c][r] EXCEPT !.skip = "cancelled", !.msg = "none",
                                                                                !.known = FALSE]
                                      ELSE trace[c][r]]
<1>1. /\ trace' = [trace EXCEPT ![c] = next] /\ deleted' = deleted \union Losing(c, stopped)
      /\ send' = SendWithout(c, Queued(c)) /\ UNCHANGED <<wire, forgot>>
  BY DEF Cancel, Ledgers
<1>2. /\ \A r \in stopped : r \in Records /\ trace[c][r].msg \in {"none", "outgoing"}
      /\ Queued(c) \subseteq stopped
  BY StateFacts DEF In, Queued, Ledgers, IsLedger, IsTrace
<1>3. \A r \in Records : r \notin stopped => next[r] = trace[c][r]
  OBVIOUS
<1> HIDE DEF stopped, next
<1>4. ASSUME NEW d \in Campaigns, NEW r \in Records, d # c \/ r \notin Queued(c), trace[d][r].msg # "none"
      PROVE  trace'[d][r] = trace[d][r]
  <2>1. d = c => r \notin stopped
    BY <1>2, <1>4 DEF Queued
  <2> QED BY <1>1, <1>3, <2>1 DEF Ledgers
<1>5. ASSUME NEW r \in Queued(c), <<c, Number[r]>> \notin deleted'
      PROVE  ~Remembers(trace[c][r]) /\ (send.pc = "open" => send.row[c][r].msg = "none")
  <2>1. r \in Records /\ r \in stopped /\ trace[c][r].msg = "outgoing"
    BY <1>2 DEF Queued
  <2>2. ~trace[c][r].known /\ ~InFlight(c, r) /\ <<c, Number[r]>> \notin deleted
    BY <1>1, <1>5, <2>1 DEF Losing
  <2>3. ASSUME send.pc = "open", send.row[c][r].msg # "none" PROVE FALSE
    <3>1. ~send.row[c][r].gone
      BY <2>1, <2>2, <2>3 DEF Snap
    <3>2. send.row[c][r].msg = "outgoing"
      BY <2>1, <2>3, <3>1 DEF Snap
    <3> QED BY <2>2, <2>3, <3>2 DEF InFlight
  <2> QED BY <2>1, <2>2, <2>3 DEF Remembers
<1>6. Queued(c) \subseteq Records /\ deleted \subseteq deleted'
  BY <1>1 DEF Queued
<1> QED BY <1>1, <1>4, <1>5, <1>6, DeletionKept

LEMMA ResetDraftOnce ==
    ASSUME Types, Once, Snap, NEW c \in Campaigns, ResetDraft(c) PROVE Once' /\ Snap'
<1> USE DEF Types
<1> DEFINE gone == In(c, {"skipped", "cancelled"})
           next == [r \in Records |-> IF r \in gone THEN NoTrace ELSE trace[c][r]]
<1>1. trace' = [trace EXCEPT ![c] = next] /\ UNCHANGED <<send, reached>>
  BY DEF ResetDraft, Ledgers
<1>2. \A r \in gone : r \in Records /\ trace[c][r].msg = "none"
  BY StateFacts DEF In, Ledgers, IsLedger, IsTrace
<1>3. \A r \in Records : r \notin gone => next[r] = trace[c][r]
  OBVIOUS
<1> HIDE DEF next, gone
<1>4. \A d \in Campaigns, r \in Records : trace[d][r].msg # "none" => trace'[d][r] = trace[d][r]
  BY <1>1, <1>2, <1>3 DEF Ledgers
<1> QED BY <1>1, <1>4, BothKept

LEMMA CronBatchOnce ==
    ASSUME Types, Once, Snap, CronBatch PROVE Once' /\ Snap'
<1> USE DEF Types
<1>1. PICK c \in Campaigns, left \in Nat : \E rows :
         Batched(c, rows) /\ trace' = [trace EXCEPT ![c] = rows]
  BY CronBatchFacts
<1>2. PICK rows : Batched(c, rows) /\ trace' = [trace EXCEPT ![c] = rows]
  BY <1>1
<1>3. UNCHANGED <<send, reached>>
  BY DEF CronBatch
<1>4. \A r \in Records : trace[c][r].msg # "none" => rows[r] = trace[c][r]
  <2> DEFINE n == Least(pass.slice, pass.left)
  <2>1. n \in Nat
    BY DEF PassOK, Least
  <2> HIDE DEF n
  <2>2. IsLedger(trace[c])
    BY DEF Ledgers
  <2>3. \A r \in Records : Materialise(c, trace[c], n)[r] = trace[c][r] \/ trace[c][r].msg = "none"
    BY <2>1, <2>2, MaterialisedKeeps
  <2>4. rows = Materialise(c, trace[c], n) \/ rows = trace[c]
    BY <1>2 DEF Batched, n
  <2> QED BY <2>3, <2>4
<1>5. \A d \in Campaigns, r \in Records : trace[d][r].msg # "none" => trace'[d][r] = trace[d][r]
  BY <1>2, <1>4 DEF Ledgers
<1> QED BY <1>3, <1>5, BothKept

LEMMA OpenOnce ==
    ASSUME Types, Once, NEW by, Open(by) PROVE Once' /\ Snap'
<1>1. /\ send'.pc = "open" /\ send'.row = [c \in Campaigns |-> [r \in Records |-> Seen(trace[c][r])]]
      /\ UNCHANGED <<ledger, reached>>
  BY DEF Open
<1>2. Once'
  BY <1>1 DEF Once
<1>3. \A c \in Campaigns, r \in Records :
          LET row == Seen(trace[c][r]) IN ~row.gone /\ (row.msg # "none" => row.msg = trace[c][r].msg)
  BY DEF Seen
<1>4. Snap'
  BY <1>1, <1>3 DEF Snap
<1> QED BY <1>2, <1>4

\* The send finds in its row what it has read there, which is not sent, if nobody
\* has deleted the row: so if the gateway does not know the key, no copy to that
\* number is remembered.
LEMMA FirstCopy ==
    ASSUME Types, Once, Snap, NEW c \in Campaigns, NEW r \in Records, send.pc = "open",
           send.row[c][r].msg \in {"outgoing", "error"}, ~Known(c, r),
           <<c, Number[r]>> \notin deleted \union forgot
    PROVE  /\ ~send.row[c][r].gone /\ trace[c][r].msg # "none" /\ wire[c][Number[r]] = 0
<1> USE DEF Types
<1>1. ~send.row[c][r].gone /\ trace[c][r].msg \in {"outgoing", "error"}
  BY DEF Snap
<1>2. ~trace[c][r].known
  BY <1>1 DEF Known
<1>3. ASSUME NEW q \in Records, Number[q] = Number[r], Remembers(trace[c][q]) PROVE FALSE
  <2>1. /\ trace[c][r].is /\ trace[c][r].skip = "none"
        /\ trace[c][q].is /\ trace[c][q].skip = "none"
    BY <1>1, <1>3 DEF Remembers, Ledgers, IsLedger, IsTrace
  <2>2. q # r
    BY <1>1, <1>2, <1>3 DEF Remembers
  <2> QED BY <1>3, <2>1, <2>2 DEF Ledgers, IsLedger, Unique
<1> QED BY <1>1, <1>3 DEF Once

LEMMA PostOnce ==
    ASSUME Types, Once, Snap, NEW c \in Campaigns, NEW r \in Records, Post(c, r)
    PROVE  Once' /\ Snap'
<1> USE DEF Types
<1> DEFINE leaves == wire' = [wire EXCEPT ![c][Number[r]] = Least(2, @ + 1)]
<1>1. /\ send.pc = "open" /\ send.row[c][r].msg \in {"outgoing", "error"} /\ deleted' = deleted
      /\ \E res \in {"sent", "error", "blocked"} : send' = Posted(c, r, res)
      /\ \/ UNCHANGED <<trace, wire, forgot>>
         \/ /\ ~Known(c, r) /\ leaves
            /\ \/ trace' = trace /\ send.row[c][r].gone /\ forgot' = forgot
               \/ trace' = [trace EXCEPT ![c][r].known = TRUE] /\ forgot' = forgot
               \/ trace' = trace /\ forgot' = forgot \union {<<c, Number[r]>>}
  BY PostFacts
<1>2. \A d \in Campaigns, q \in Records :
         /\ trace'[d][q].msg = trace[d][q].msg
         /\ trace[d][q].known => trace'[d][q].known
  BY <1>1 DEF Ledgers, IsLedger, IsTrace
<1>3. Snap'
  <2>1. send'.pc = "posted" /\ send'.at = <<c, r>> /\ send'.was = send.row[c][r]
    BY <1>1 DEF Posted
  <2>2. ~send.row[c][r].gone => trace[c][r].msg = send.row[c][r].msg
    BY <1>1 DEF Snap
  <2>3. ~send'.was.gone => trace'[send'.at[1]][send'.at[2]].msg = send'.was.msg
    BY <1>2, <2>1, <2>2
  <2>4. send'.pc # "open"
    BY <2>1
  <2> QED BY <2>3, <2>4 DEF Snap
<1>4. CASE UNCHANGED <<trace, wire, forgot>>
  <2>1. Once'
    BY <1>1, <1>4 DEF Once
  <2> QED BY <1>3, <2>1
<1>5. CASE /\ ~Known(c, r) /\ leaves
           /\ \/ trace' = trace /\ send.row[c][r].gone /\ forgot' = forgot
              \/ trace' = [trace EXCEPT ![c][r].known = TRUE] /\ forgot' = forgot
              \/ trace' = trace /\ forgot' = forgot \union {<<c, Number[r]>>}
  <2>1. ASSUME <<c, Number[r]>> \notin deleted' \union forgot'
        PROVE  Remembers(trace'[c][r]) /\ wire[c][Number[r]] = 0
    <3>1. <<c, Number[r]>> \notin deleted \union forgot
      BY <1>1, <1>5, <2>1
    <3>2. ~send.row[c][r].gone /\ trace[c][r].msg # "none" /\ wire[c][Number[r]] = 0
      BY <1>1, <1>5, <3>1, FirstCopy
    <3>3. trace' = [trace EXCEPT ![c][r].known = TRUE]
      BY <1>5, <2>1, <3>2
    <3>4. trace'[c][r].msg # "none" /\ trace'[c][r].known
      BY <3>2, <3>3 DEF Ledgers, IsLedger, IsTrace
    <3> QED BY <3>2, <3>4 DEF Remembers
  <2>2. /\ DOMAIN wire' = Campaigns
        /\ \A d \in Campaigns : DOMAIN wire'[d] = DOMAIN wire[d]
        /\ wire'[c][Number[r]] = Least(2, wire[c][Number[r]] + 1)
        /\ \A d \in Campaigns : \A t \in DOMAIN wire[d] :
              <<d, t>> # <<c, Number[r]>> => wire'[d][t] = wire[d][t]
    BY <1>5 DEF Once
  <2>3. <<c, Number[r]>> \notin deleted' \union forgot' => wire'[c][Number[r]] = 1
    BY <2>1, <2>2 DEF Least
  <2>4. \A q \in Records, d \in Campaigns : Remembers(trace[d][q]) => Remembers(trace'[d][q])
    BY <1>2 DEF Remembers
  <2>5. ASSUME NEW d \in Campaigns, NEW t \in {Number[q] : q \in Records}, <<d, t>> \notin deleted' \union forgot'
        PROVE  \/ wire'[d][t] = 0
               \/ wire'[d][t] = 1 /\ \E q \in Records : Number[q] = t /\ Remembers(trace'[d][q])
    <3>1. CASE <<d, t>> = <<c, Number[r]>>
      BY <2>1, <2>3, <2>5, <3>1
    <3>2. CASE <<d, t>> # <<c, Number[r]>>
      <4>1. wire'[d][t] = wire[d][t]
        BY <2>2, <3>2 DEF Once
      <4>2. <<d, t>> \notin deleted \union forgot
        BY <1>1, <1>5, <2>5
      <4> QED BY <2>4, <4>1, <4>2 DEF Once
    <3> QED BY <3>1, <3>2
  <2>6. DOMAIN wire' = Campaigns /\ \A d \in Campaigns : DOMAIN wire'[d] = {Number[q] : q \in Records}
    BY <2>2 DEF Once
  <2>7. Once'
    BY <2>5, <2>6 DEF Once
  <2> QED BY <1>3, <2>7
<1> QED BY <1>1, <1>4, <1>5

LEMMA RecordOnce ==
    ASSUME Types, Once, Snap, Record PROVE Once' /\ Snap'
<1> USE DEF Types
<1>1. send' = NoSend /\ UNCHANGED reached
  BY RecordFacts
<1>2. Snap'
  BY <1>1 DEF Snap, NoSend
<1>3. CASE trace' = trace
  BY <1>1, <1>2, <1>3, OnceKept
<1>4. ASSUME NEW c \in Campaigns, NEW r \in Records, NEW msg \in {"sent", "error"},
             trace[c][r].msg \in {"outgoing", "error"},
             trace' = [trace EXCEPT ![c] = [trace[c] EXCEPT ![r] =
                            [trace[c][r] EXCEPT !.msg = msg, !.age = 0]]]
      PROVE  Once'
  <2>1. \A d \in Campaigns, q \in Records : <<d, q>> # <<c, r>> => trace'[d][q] = trace[d][q]
    BY <1>4 DEF Ledgers, IsLedger
  <2>2. trace'[c][r].msg = msg /\ trace'[c][r].known = trace[c][r].known
    BY <1>4 DEF Ledgers, IsLedger, IsTrace
  <2>3. \A d \in Campaigns, q \in Records : Remembers(trace[d][q]) => Remembers(trace'[d][q])
    BY <1>4, <2>1, <2>2 DEF Remembers
  <2> QED BY <1>1, <2>3, OnceKept
<1> QED BY <1>2, <1>3, <1>4, RecordFacts

LEMMA ForgetOnce ==
    ASSUME Types, Once, Snap, NEW keys, keys \subseteq Keys, Forget(keys) PROVE Once' /\ Snap'
<1> USE DEF Types
<1>1. UNCHANGED <<wire, deleted>> /\ forgot \subseteq forgot'
  BY ForgetFacts DEF Forget
<1>2. ASSUME NEW c \in Campaigns, NEW r \in Records
      PROVE  /\ trace'[c][r].msg = trace[c][r].msg
             /\ Remembers(trace[c][r]) /\ <<c, Number[r]>> \notin forgot' => Remembers(trace'[c][r])
  <2>1. PICK o, w : o = trace[c][r] /\ w = trace'[c][r]
    OBVIOUS
  <2>2. /\ IsTrace(o)
        /\ \/ w = o
           \/ w = [o EXCEPT !.known = FALSE] /\ (o.known /\ o.msg # "sent" => <<c, Number[r]>> \in forgot')
    BY <2>1, ForgetFacts DEF Ledgers, IsLedger
  <2>3. w.msg = o.msg
    BY <2>2 DEF IsTrace
  <2> QED BY <2>1, <2>2, <2>3 DEF Remembers
<1>3. Once'
  BY <1>1, <1>2, OnceKept
<1>4. Snap'
  <2>1. CASE send.pc = "open"
    <3>1. /\ send'.pc = "open"
          /\ \A c \in Campaigns, r \in Records :
                send'.row[c][r].msg = send.row[c][r].msg /\ send'.row[c][r].gone = send.row[c][r].gone
      BY <2>1, ForgetFacts
    <3> QED BY <1>1, <1>2, <2>1, <3>1 DEF Snap
  <2>2. CASE send.pc # "open"
    <3>1. send' = send
      BY <2>2, ForgetFacts
    <3> QED BY <1>1, <1>2, <3>1, SnapKept
  <2> QED BY <2>1, <2>2
<1> QED BY <1>3, <1>4

LEMMA NewDayOnce ==
    ASSUME Types, Once, Snap, NewDay PROVE Once' /\ Snap'
<1> USE DEF Types
<1>1. UNCHANGED <<send, reached>>
  BY DEF NewDay
<1>2. \A d \in Campaigns, q \in Records : trace'[d][q].msg = trace[d][q].msg
                                          /\ trace'[d][q].known = trace[d][q].known
  BY DEF NewDay, Ledgers, IsLedger, IsTrace
<1> QED BY <1>1, <1>2, BothKept

LEMMA ReplyOnce ==
    ASSUME Types, Once, Snap, NEW t \in Numbers, NEW word, Reply(t, word) PROVE Once' /\ Snap'
<1> USE DEF Types
<1>1. UNCHANGED <<send, reached>>
  BY DEF Reply
<1>2. \A d \in Campaigns, q \in Records : trace'[d][q].msg = trace[d][q].msg
                                          /\ trace'[d][q].known = trace[d][q].known
  <2>1. CASE trace' = trace
    BY <2>1
  <2>2. CASE \E c \in Campaigns, r \in Records :
                trace' = [trace EXCEPT ![c] = [trace[c] EXCEPT ![r] = [trace[c][r] EXCEPT !.replied = TRUE]]]
    BY <2>2 DEF Ledgers, IsLedger, IsTrace
  <2> QED BY <2>1, <2>2, ReplyFacts
<1> QED BY <1>1, <1>2, BothKept

LEMMA DeleteMessageOnce ==
    ASSUME Types, Once, Snap, NEW c \in Campaigns, NEW r \in Records, DeleteMessage(c, r)
    PROVE  Once' /\ Snap'
<1> USE DEF Types
<1>1. /\ UNCHANGED <<wire, forgot>> /\ deleted' = deleted \union {<<c, Number[r]>>}
      /\ send' = SendWithout(c, {r})
  BY DEF DeleteMessage
<1>2. \A d \in Campaigns, q \in Records : d # c \/ q \notin {r} => trace'[d][q] = trace[d][q]
  BY DEF DeleteMessage, Ledgers, IsLedger
<1> QED BY <1>1, <1>2, DeletionKept

LEMMA NextOnce == Types /\ Once /\ Snap /\ [Next]_vars => Once' /\ Snap'
<1> SUFFICES ASSUME Types, Once, Snap, [Next]_vars PROVE Once' /\ Snap'
  OBVIOUS
<1>1. CASE \E c \in Campaigns : Start(c) \/ Cancel(c) \/ ResetDraft(c)
  BY <1>1, StartOnce, CancelOnce, ResetDraftOnce
<1>2. CASE CronBatch
  BY <1>2, CronBatchOnce
<1>3. CASE OpenQueue \/ Open("hand")
  BY <1>3, OpenOnce DEF OpenQueue
<1>4. CASE Posts \/ NewDay
  BY <1>4, PostOnce, RecordOnce, NewDayOnce DEF Posts
<1>5. CASE \E t \in Numbers, word \in {"stop", "start", "hello"} : Reply(t, word)
  BY <1>5, ReplyOnce
<1>6. CASE \E c \in Campaigns, r \in Records : DeleteMessage(c, r)
  BY <1>6, DeleteMessageOnce
<1>7. CASE Forget(Keys) \/ \E k \in Keys : Forget({k})
  BY <1>7, ForgetOnce
<1>8. ASSUME CronStart \/ Line \/ SendOther \/ Kill \/ (\E r \in Records : Convert(r)) \/ UNCHANGED vars
      PROVE  Once' /\ Snap'
  <2>1. UNCHANGED <<trace, reached>> /\ (send' = send \/ send' = NoSend)
    BY <1>8 DEF CronStart, Line, SendOther, Kill, Convert, vars
  <2> QED BY <2>1, BothKept
<1> QED BY <1>1, <1>2, <1>3, <1>4, <1>5, <1>6, <1>7, <1>8 DEF Next, Others

----------------------------------------------------------------------------
(* A campaign that has ended, and the credit of a reply *)

\* A row that is still to be queued or sent.
Waits(tr) == tr.is /\ tr.skip = "none" /\ tr.msg \in {"none", "outgoing"}

\* A campaign that is sent waits for rows of deleted messages only.
Ended ==
    \A c \in Campaigns, r \in Records :
        camp[c] = "sent" /\ Waits(trace[c][r]) => <<c, Number[r]>> \in deleted

\* Whoever is credited with a reply has a conversation with the operators in it.
Credited ==
    /\ DOMAIN chan = Numbers
    /\ \A c \in Campaigns, r \in Records :
          trace[c][r].replied => Number[r] \in Numbers /\ Operators[c] \subseteq chan[Number[r]]

\* A step that makes no row of an ended campaign wait, and credits no reply.
LEMMA EndedKept ==
    ASSUME Ended, Credited, deleted \subseteq deleted',
           \A c \in Campaigns, r \in Records :
              /\ camp'[c] = "sent" /\ Waits(trace'[c][r]) /\ <<c, Number[r]>> \notin deleted'
                    => camp[c] = "sent" /\ Waits(trace[c][r])
              /\ trace'[c][r].replied => trace[c][r].replied
    PROVE  Ended' /\ (chan' = chan => Credited')
<1>1. Ended'
  BY DEF Ended
<1>2. ASSUME chan' = chan PROVE Credited'
  BY <1>2 DEF Credited
<1> QED BY <1>1, <1>2

\* What the cron calls done has no row that waits.
LEMMA DoneFacts ==
    ASSUME NEW rows, IsLedger(rows), Done(rows)
    PROVE  \A r \in Records : ~Waits(rows[r])
  BY StateFacts DEF Done, Waits, IsLedger, IsTrace, Msgs

\* Ended and Credited, step by step.
LEMMA StartEnded ==
    ASSUME Types, Ended, Credited, NEW c \in Campaigns, Start(c) PROVE Ended' /\ Credited'
<1> USE MarketingAssumption DEF Types
<1> DEFINE rows == Resolved(c)
           next == Materialise(c, rows, SessionHeadroom)
<1>1. /\ trace' = [trace EXCEPT ![c] = next] /\ UNCHANGED <<reached, chan>>
      /\ camp' = [camp EXCEPT ![c] = IF Done(next) THEN "sent" ELSE "sending"]
  BY DEF Start
<1>2. IsLedger(rows) /\ \A r \in Records : rows[r].replied => trace[c][r].replied
  BY ResolvedFacts DEF Ledgers
<1> HIDE DEF rows
<1>3. SessionHeadroom \in Nat
  BY HeadroomType
<1>4. IsLedger(next) /\ \A r \in Records : next[r].replied => trace[c][r].replied
  <2>1. ASSUME NEW r \in Records
        PROVE  next[r].replied = rows[r].replied
    BY <1>2, <1>3, MaterialisedReplied
  <2>2. IsLedger(next)
    BY <1>2, <1>3, MaterialiseLedger
  <2> QED BY <1>2, <2>1, <2>2
<1> HIDE DEF next
<1>5. camp'[c] = "sent" => \A r \in Records : ~Waits(next[r])
  BY <1>1, <1>4, DoneFacts
<1>6. \A d \in Campaigns, r \in Records :
         trace'[d][r] = (IF d = c THEN next[r] ELSE trace[d][r]) /\ (d # c => camp'[d] = camp[d])
  BY <1>1 DEF Ledgers
<1> QED BY <1>1, <1>4, <1>5, <1>6, EndedKept

LEMMA CancelEnded ==
    ASSUME Types, Ended, Credited, NEW c \in Campaigns, Cancel(c) PROVE Ended' /\ Credited'
<1> USE DEF Types
<1>1. camp' = [camp EXCEPT ![c] = "cancelled"] /\ deleted \subseteq deleted' /\ chan' = chan
  BY DEF Cancel
<1>2. \A d \in Campaigns, r \in Records : d # c => trace'[d][r] = trace[d][r]
  BY DEF Cancel, Ledgers
<1>3. \A r \in Records : trace'[c][r].replied = trace[c][r].replied
  <2>1. ASSUME NEW r \in Records
        PROVE  trace'[c][r] \in {trace[c][r], [trace[c][r] EXCEPT !.skip = "cancelled", !.msg = "none",
                                                                       !.known = FALSE]}
    BY DEF Cancel, Ledgers
  <2>2. \A r \in Records : IsTrace(trace[c][r])
    BY DEF Ledgers, IsLedger
  <2> QED BY <2>1, <2>2 DEF IsTrace
<1> QED BY <1>1, <1>2, <1>3, EndedKept

LEMMA ResetDraftEnded ==
    ASSUME Types, Ended, Credited, NEW c \in Campaigns, ResetDraft(c) PROVE Ended' /\ Credited'
<1> USE DEF Types
<1>1. camp' = [camp EXCEPT ![c] = "draft"] /\ UNCHANGED <<reached, chan>>
  BY DEF ResetDraft
<1>2. \A d \in Campaigns, r \in Records :
         (d # c => trace'[d][r] = trace[d][r]) /\ (trace'[d][r].replied => trace[d][r].replied)
  BY DEF ResetDraft, Ledgers, IsLedger, NoTrace
<1> QED BY <1>1, <1>2, EndedKept

LEMMA CronBatchEnded ==
    ASSUME Types, Ended, Credited, CronBatch PROVE Ended' /\ Credited'
<1> USE DEF Types
<1>1. PICK c \in Campaigns, left \in Nat : \E rows :
         /\ IsLedger(rows) /\ Batched(c, rows) /\ trace' = [trace EXCEPT ![c] = rows]
         /\ camp' = [camp EXCEPT ![c] = IF camp[c] = "sending" /\ Done(rows) THEN "sent" ELSE camp[c]]
  BY CronBatchFacts
<1>2. PICK rows :
         /\ IsLedger(rows) /\ Batched(c, rows) /\ trace' = [trace EXCEPT ![c] = rows]
         /\ camp' = [camp EXCEPT ![c] = IF camp[c] = "sending" /\ Done(rows) THEN "sent" ELSE camp[c]]
  BY <1>1
<1>3. UNCHANGED <<reached, chan>>
  BY DEF CronBatch
<1>4. \A r \in Records : rows[r].replied = trace[c][r].replied
  <2> DEFINE n == Least(pass.slice, pass.left)
  <2>1. n \in Nat
    BY DEF PassOK, Least
  <2> HIDE DEF n
  <2>2. IsLedger(trace[c])
    BY DEF Ledgers
  <2>3. \A r \in Records : Materialise(c, trace[c], n)[r].replied = trace[c][r].replied
    BY <2>1, <2>2, MaterialisedReplied
  <2>4. rows = Materialise(c, trace[c], n) \/ rows = trace[c]
    BY <1>2 DEF Batched, n
  <2> QED BY <2>3, <2>4
<1>5. camp'[c] = "sent" => (camp[c] = "sent" /\ rows = trace[c]) \/ \A r \in Records : ~Waits(rows[r])
  BY <1>2, DoneFacts DEF Batched
<1>6. \A d \in Campaigns, r \in Records :
         trace'[d][r] = (IF d = c THEN rows[r] ELSE trace[d][r]) /\ (d # c => camp'[d] = camp[d])
  BY <1>2 DEF Ledgers
<1> QED BY <1>3, <1>4, <1>5, <1>6, EndedKept

LEMMA PostEnded ==
    ASSUME Types, Ended, Credited, NEW c \in Campaigns, NEW r \in Records, Post(c, r)
    PROVE  Ended' /\ Credited'
<1> USE DEF Types
<1>1. /\ trace' = trace \/ trace' = [trace EXCEPT ![c][r].known = TRUE]
      /\ UNCHANGED <<camp, deleted, chan>>
  BY PostFacts
<1>2. \A d \in Campaigns, q \in Records :
         /\ trace'[d][q].is = trace[d][q].is /\ trace'[d][q].skip = trace[d][q].skip
         /\ trace'[d][q].msg = trace[d][q].msg /\ trace'[d][q].replied = trace[d][q].replied
  BY <1>1 DEF Ledgers, IsLedger, IsTrace
<1> QED BY <1>1, <1>2, EndedKept DEF Waits

LEMMA RecordEnded ==
    ASSUME Types, Snap, Ended, Credited, Record PROVE Ended' /\ Credited'
<1> USE DEF Types
<1>1. UNCHANGED <<camp, deleted, chan>>
  BY RecordFacts
<1>2. CASE trace' = trace
  BY <1>1, <1>2, EndedKept
<1>3. ASSUME NEW c \in Campaigns, NEW r \in Records, NEW msg \in {"sent", "error"},
             trace' = [trace EXCEPT ![c] = [trace[c] EXCEPT ![r] =
                            [trace[c][r] EXCEPT !.msg = msg, !.age = 0]]]
      PROVE  Ended' /\ Credited'
  <2>1. \A d \in Campaigns, q \in Records :
           /\ <<d, q>> # <<c, r>> => trace'[d][q] = trace[d][q]
           /\ trace'[d][q].replied = trace[d][q].replied
    BY <1>3 DEF Ledgers, IsLedger, IsTrace
  <2>2. trace'[c][r].msg = msg
    BY <1>3 DEF Ledgers, IsLedger, IsTrace
  <2>3. \A d \in Campaigns, q \in Records : Waits(trace'[d][q]) => Waits(trace[d][q])
    BY <2>1, <2>2 DEF Waits
  <2> QED BY <1>1, <2>1, <2>3, EndedKept
<1> QED BY <1>2, <1>3, RecordFacts

LEMMA ForgetEnded ==
    ASSUME Types, Ended, Credited, NEW keys, keys \subseteq Keys, Forget(keys)
    PROVE  Ended' /\ Credited'
<1> USE DEF Types
<1>1. UNCHANGED <<camp, deleted, chan>>
  BY DEF Forget
<1>2. ASSUME NEW c \in Campaigns, NEW r \in Records
      PROVE  /\ Waits(trace'[c][r]) => Waits(trace[c][r])
             /\ trace'[c][r].replied = trace[c][r].replied
  <2>1. PICK o, w : o = trace[c][r] /\ w = trace'[c][r]
    OBVIOUS
  <2>2. IsTrace(o) /\ (w = o \/ w = [o EXCEPT !.known = FALSE])
    BY <2>1, ForgetFacts DEF Ledgers, IsLedger
  <2>3. w.is = o.is /\ w.skip = o.skip /\ w.msg = o.msg /\ w.replied = o.replied
    BY <2>2 DEF IsTrace
  <2> QED BY <2>1, <2>3 DEF Waits
<1> QED BY <1>1, <1>2, EndedKept

LEMMA NewDayEnded ==
    ASSUME Types, Ended, Credited, NewDay PROVE Ended' /\ Credited'
<1> USE DEF Types
<1>1. UNCHANGED <<camp, reached, chan>>
  BY DEF NewDay
<1>2. \A d \in Campaigns, q \in Records :
         /\ trace'[d][q].is = trace[d][q].is /\ trace'[d][q].skip = trace[d][q].skip
         /\ trace'[d][q].msg = trace[d][q].msg /\ trace'[d][q].replied = trace[d][q].replied
  BY DEF NewDay, Ledgers, IsLedger, IsTrace
<1> QED BY <1>1, <1>2, EndedKept DEF Waits

LEMMA DeleteMessageEnded ==
    ASSUME Types, Ended, Credited, NEW c \in Campaigns, NEW r \in Records, DeleteMessage(c, r)
    PROVE  Ended' /\ Credited'
<1> USE DEF Types
<1>1. UNCHANGED <<camp, chan>> /\ deleted' = deleted \union {<<c, Number[r]>>}
  BY DEF DeleteMessage
<1>2. \A d \in Campaigns, q \in Records :
         /\ <<d, q>> # <<c, r>> => trace'[d][q] = trace[d][q]
         /\ trace'[d][q].replied = trace[d][q].replied
  BY DEF DeleteMessage, Ledgers, IsLedger, IsTrace
<1> QED BY <1>1, <1>2, EndedKept

\* The copy that is credited went to the number that wrote, whichever of the two
\* ways it was found by.
LEMMA ReplyEnded ==
    ASSUME Types, Ended, Credited, NEW t \in Numbers, NEW word, Reply(t, word)
    PROVE  Ended' /\ Credited'
<1> USE DEF Types
<1> DEFINE p == FindPartner(t, people)
<1>1. UNCHANGED <<camp, reached>>
  BY DEF Reply
<1>2. p # 0 => Number[p] = t
  BY FindPartnerType
<1> HIDE DEF p
<1>3. ASSUME NEW ops, chan' = [chan EXCEPT ![t] = Attend(ops, @)]
      PROVE  /\ DOMAIN chan' = Numbers /\ ops \subseteq chan'[t]
             /\ \A u \in Numbers : chan[u] \subseteq chan'[u]
  BY <1>3 DEF Credited, Attend
<1>4. CASE trace' = trace /\ chan' = [chan EXCEPT ![t] = Attend({}, @)]
  <2>1. Ended'
    BY <1>1, <1>4 DEF Ended
  <2>2. DOMAIN chan' = Numbers /\ \A u \in Numbers : chan[u] \subseteq chan'[u]
    BY <1>3, <1>4
  <2>3. Credited'
    BY <1>4, <2>2 DEF Credited
  <2> QED BY <2>1, <2>3
<1>5. ASSUME NEW c \in Campaigns, NEW r \in Records,
             Number[r] = t \/ (p # 0 /\ trace[c][r].partner = p),
             trace' = [trace EXCEPT ![c] = [trace[c] EXCEPT ![r] = [trace[c][r] EXCEPT !.replied = TRUE]]],
             chan' = [chan EXCEPT ![t] = Attend(Operators[c], @)]
      PROVE  Ended' /\ Credited'
  <2>1. Number[r] = t
    BY <1>2, <1>5 DEF Ledgers, IsLedger, OfRecord
  <2>2. \A d \in Campaigns, q \in Records :
           /\ trace'[d][q].is = trace[d][q].is /\ trace'[d][q].skip = trace[d][q].skip
           /\ trace'[d][q].msg = trace[d][q].msg
           /\ <<d, q>> # <<c, r>> => trace'[d][q] = trace[d][q]
    BY <1>5 DEF Ledgers, IsLedger, IsTrace
  <2>3. Ended'
    BY <1>1, <2>2 DEF Ended, Waits
  <2>4. /\ DOMAIN chan' = Numbers /\ Operators[c] \subseteq chan'[t]
        /\ \A u \in Numbers : chan[u] \subseteq chan'[u]
    BY <1>3, <1>5
  <2>5. Credited'
    BY <2>1, <2>2, <2>4 DEF Credited
  <2> QED BY <2>3, <2>5
<1> QED BY <1>4, <1>5, ReplyFacts DEF p

LEMMA NextEnded == Types /\ Snap /\ Ended /\ Credited /\ [Next]_vars => Ended' /\ Credited'
<1> SUFFICES ASSUME Types, Snap, Ended, Credited, [Next]_vars PROVE Ended' /\ Credited'
  OBVIOUS
<1>1. CASE \E c \in Campaigns : Start(c) \/ Cancel(c) \/ ResetDraft(c)
  BY <1>1, StartEnded, CancelEnded, ResetDraftEnded
<1>2. CASE CronBatch
  BY <1>2, CronBatchEnded
<1>3. CASE Posts \/ NewDay
  BY <1>3, PostEnded, RecordEnded, NewDayEnded DEF Posts
<1>4. CASE Forget(Keys) \/ \E k \in Keys : Forget({k})
  BY <1>4, ForgetEnded
<1>5. CASE \E t \in Numbers, word \in {"stop", "start", "hello"} : Reply(t, word)
  BY <1>5, ReplyEnded
<1>6. CASE \E c \in Campaigns, r \in Records : DeleteMessage(c, r)
  BY <1>6, DeleteMessageEnded
<1>7. CASE UNCHANGED <<camp, trace, deleted, chan>>
  BY <1>7, EndedKept
<1>8. ASSUME \/ CronStart \/ OpenQueue \/ Open("hand") \/ SendOther \/ Kill \/ Line
             \/ (\E r \in Records : Convert(r)) \/ UNCHANGED vars
      PROVE  UNCHANGED <<camp, trace, deleted, chan>>
  BY <1>8 DEF CronStart, OpenQueue, Open, SendOther, Kill, Line, Convert, vars
<1> QED BY <1>1, <1>2, <1>3, <1>4, <1>5, <1>6, <1>7, <1>8 DEF Next, Others

----------------------------------------------------------------------------
(* Who has asked to stop *)

\* Whoever's last word was stop is flagged, now and in what a send has read, but for
\* a contact whose number is another's, and for one whom that word has made.
Flagged ==
    /\ asked \subseteq out \union Shadowed \union unheard
    /\ send.pc = "open" => send.asked \subseteq Records \cap (send.out \union Shadowed \union send.unheard)

\* A keyword flags everyone of the number but the contacts _find_partner passes over.
LEMMA KeywordFlags ==
    ASSUME Types, Flagged, NEW t, NEW word, NEW made, Keyword(t, word, made)
    PROVE  asked' \subseteq out' \union Shadowed \union unheard'
<1> USE MarketingAssumption DEF Types
<1> DEFINE p == FindPartner(t, people)
           who == {r \in Records : Number[r] = t /\ (r \in Partners => r \in people \union made)}
<1>1. /\ p = 0 \/ (p \in people /\ Number[p] = t)
      /\ \A r \in people : Number[r] = t => p # 0 /\ p <= r
  BY FindPartnerType
<1>2. \/ out' = out \union Targets(t, p) /\ asked' = asked \union who /\ unheard' = (unheard \ who) \union made
      \/ out' = out \ Targets(t, p) /\ asked' = asked \ who /\ unheard' = unheard \ who
      \/ out' = out /\ asked' = asked /\ unheard' = unheard
  BY DEF Keyword
<1> HIDE DEF p
<1>3. ASSUME NEW r \in who PROVE r \in Targets(t, p) \union Shadowed \union made
  <2>1. CASE r \notin Partners
    BY <2>1 DEF Targets
  <2>2. CASE r \in Partners /\ r = p
    BY <1>1, <2>2 DEF Targets, Records
  <2>3. CASE r \in Partners /\ r # p /\ r \notin made
    <3>1. p \in people /\ Number[p] = Number[r] /\ p <= r
      BY <1>1, <2>2, <2>3
    <3>2. p \in Nat /\ r \in Nat
      BY <2>3, <3>1, PartnersAreNumbers
    <3> QED BY <2>3, <3>1, <3>2 DEF Shadowed
  <2> QED BY <2>1, <2>2, <2>3
<1>4. ASSUME NEW r \in Targets(t, p) PROVE r \in who
  <2>1. r \in Records /\ Number[r] = t
    BY <1>1, <1>4 DEF Targets, Linked
  <2>2. r \in Partners => r \in people
    BY <1>1, <1>4 DEF Targets
  <2> QED BY <2>1, <2>2
<1> QED BY <1>2, <1>3, <1>4 DEF Flagged

\* Flagged, in every step.
LEMMA NextFlagged == Types /\ Snap /\ Flagged /\ [Next]_vars => Flagged'
<1> SUFFICES ASSUME Types, Snap, Flagged, [Next]_vars PROVE Flagged'
  OBVIOUS
<1>1. CASE UNCHANGED <<out, asked, unheard>> /\ (send' = send \/ send'.pc # "open")
  BY <1>1 DEF Flagged
<1>2. CASE OpenQueue \/ Open("hand")
  BY <1>2 DEF OpenQueue, Open, Flagged, Types
<1>3. CASE \E t \in Numbers, word \in {"stop", "start", "hello"} : Reply(t, word)
  <2>1. asked' \subseteq out' \union Shadowed \union unheard'
    BY <1>3, KeywordFlags DEF Reply
  <2>2. send' = send
    BY <1>3 DEF Reply
  <2> QED BY <2>1, <2>2 DEF Flagged
<1>4. CASE \E r \in Records : Convert(r)
  <2>c. PICK r \in Records : Convert(r)
    BY <1>4
  <2>1. PICK q :
           /\ r \notin Partners /\ send' = send
           /\ IF r \in out THEN out' = out \union {q} /\ unheard' = unheard \ {q}
              ELSE out' = out /\ unheard' = unheard
           /\ asked' = IF r \in asked THEN asked \union {q} ELSE asked
    BY <2>c DEF Convert
  <2>2. r \in asked => r \in out
    BY <2>1 DEF Flagged, Shadowed, Types
  <2>3. asked' \subseteq out' \union Shadowed \union unheard'
    BY <2>1, <2>2 DEF Flagged
  <2> QED BY <2>1, <2>3 DEF Flagged
<1>5. CASE Posts
  <2>1. CASE Record
    <3>1. UNCHANGED contacts /\ send' = NoSend
      BY <2>1, RecordFacts
    <3> QED BY <1>1, <3>1 DEF NoSend
  <2>2. CASE \E c \in Campaigns, r \in Records : Post(c, r)
    <3>1. UNCHANGED <<out, asked, unheard>> /\ send'.pc = "posted"
      BY <2>2, PostFacts DEF Posted
    <3> QED BY <1>1, <3>1
  <2> QED BY <1>5, <2>1, <2>2 DEF Posts
<1>6. CASE \/ \E c \in Campaigns : Start(c) \/ ResetDraft(c)
           \/ CronStart \/ CronBatch \/ NewDay \/ Line \/ SendOther \/ UNCHANGED vars
  <2>1. UNCHANGED <<out, asked, unheard, send>>
    BY <1>6 DEF Start, ResetDraft, CronStart, CronBatch, NewDay, Line, SendOther, vars
  <2> QED BY <1>1, <2>1
<1>7. CASE \/ \E c \in Campaigns : Cancel(c)
           \/ \E c \in Campaigns, r \in Records : DeleteMessage(c, r)
  <2>1. \E c \in Campaigns, rs \in SUBSET Records : send' = SendWithout(c, rs)
    BY <1>7 DEF Cancel, DeleteMessage, Queued
  <2>2. UNCHANGED <<out, asked, unheard>>
    BY <1>7 DEF Cancel, DeleteMessage
  <2>3. /\ send'.pc = send.pc
        /\ send.pc = "open" =>
              send'.out = send.out /\ send'.asked = send.asked /\ send'.unheard = send.unheard
    BY <2>1, SendWithoutFacts DEF Types
  <2> QED BY <2>2, <2>3 DEF Flagged
<1>8. CASE Forget(Keys) \/ \E k \in Keys : Forget({k})
  <2>1. UNCHANGED <<out, asked, unheard>>
    BY <1>8 DEF Forget
  <2>2. /\ send'.pc = send.pc
        /\ send.pc = "open" =>
              send'.out = send.out /\ send'.asked = send.asked /\ send'.unheard = send.unheard
    BY <1>8, ForgetFacts
  <2> QED BY <2>1, <2>2 DEF Flagged
<1>9. CASE Kill
  BY <1>1, <1>9 DEF Kill, NoSend
<1> QED BY <1>2, <1>3, <1>4, <1>5, <1>6, <1>7, <1>8, <1>9 DEF Next, Others

----------------------------------------------------------------------------
(* The theorems *)

\* The inductive invariant.
Inv == Types /\ Once /\ Snap /\ Ended /\ Credited /\ Flagged

\* It holds at first,
LEMMA InitInv == Init => Inv
<1> SUFFICES ASSUME Init PROVE Inv
  OBVIOUS
<1>1. Types
  BY InitTypes
<1>2. Once /\ Snap
  BY DEF Init, Once, Snap, NoSend
<1>3. Ended /\ Credited
  BY DEF Init, Ended, Credited, NoTrace
<1>4. Flagged
  BY DEF Init, Flagged, NoSend
<1> QED BY <1>1, <1>2, <1>3, <1>4 DEF Inv

\* it is kept,
LEMMA NextInv == Inv /\ [Next]_vars => Inv'
  BY NextTypes, NextOnce, NextEnded, NextFlagged DEF Inv

\* and so it holds always.
LEMMA SpecInv == Spec => []Inv
  BY InitInv, NextInv, PTL DEF Spec

\* Every variable of the campaigns holds what it should, and whatever is started,
\* cancelled, relaunched, resolved again or deleted, one row of a number per
\* campaign is not skipped: the unique index never has to refuse one.
THEOREM TypeCorrect == Spec => []TypeOK
<1>1. Inv => TypeOK
  <2> SUFFICES ASSUME Inv PROVE TypeOK
    OBVIOUS
  <2>1. ASSUME NEW c \in Campaigns, NEW r \in Records
        PROVE  LET tr == trace[c][r] IN
               /\ tr.msg \in {"none", "outgoing", "sent", "error"}
               /\ tr.skip \in {"none", "no_phone", "optout", "not_registered", "duplicate", "cancelled"}
               /\ tr.skip # "none" => tr.msg = "none"
               /\ tr.age \in 0 .. MaxAge /\ tr.partner \in 0 .. MaxRecord
               /\ \A q \in Records \ {r} :
                     tr.is /\ trace[c][q].is /\ Number[q] = Number[r]
                        => {tr.skip, trace[c][q].skip} # {"none"}
    <3>1. IsTrace(trace[c][r]) /\ Unique(trace[c])
      BY DEF Inv, Types, Ledgers, IsLedger
    <3> QED BY <3>1 DEF IsTrace, Unique, Msgs, Skips
  <2> QED BY <2>1 DEF Inv, Types, TypeOK, PassOK, Linked, EventsOK, Lines
<1> QED BY SpecInv, <1>1, PTL

\* Cancelled, relaunched, sent again or killed in any order, a campaign reaches a
\* number once, unless the row of a copy that had left, or was leaving, was deleted
\* or the gateway forgot its key before the row said sent.  Otherwise the one row of
\* that number says sent, or the gateway answers what it remembers of its key.
THEOREM OneCopyToANumber == Spec => []NobodyTwice
<1>1. Inv => NobodyTwice
  BY DEF Inv, Once, NobodyTwice
<1> QED BY SpecInv, <1>1, PTL

\* The cron marks a campaign as sent only when nothing of it waits, and no later
\* step, of the cron, the queue or a manager, lets it wait again but a deletion.
THEOREM FinishedMeansDone == Spec => []FinishedIsDone
<1>1. Inv => FinishedIsDone
  BY StateFacts DEF Inv, Types, Ledgers, IsLedger, Ended, Waits, FinishedIsDone, In
<1> QED BY SpecInv, <1>1, PTL

\* _find_for_reply credits a copy by number or by the contact it went to; either
\* way the conversation the operators are added to is the recipient's own.
THEOREM CreditMeansAttended == Spec => []CreditIsAttended
<1>1. Inv => CreditIsAttended
  BY DEF Inv, Credited, CreditIsAttended
<1> QED BY SpecInv, <1>1, PTL

\* A send is blocked for whoever its transaction sees flagged.
LEMMA PostHonours ==
    ASSUME Types, Flagged, NEW c \in Campaigns, NEW r \in Records, Post(c, r), wire' # wire
    PROVE  SentTo \cap send.asked \subseteq Shadowed \union send.unheard
<1> USE MarketingAssumption DEF Types
<1>1. /\ send.pc = "open" /\ send.row[c][r].msg \in {"outgoing", "error"}
      /\ ~Blocked(send, c, r)
      /\ \E res \in {"sent", "error", "blocked"} : send' = Posted(c, r, res)
  BY PostFacts
<1>2. send.asked \subseteq Records /\ send.asked \subseteq send.out \union Shadowed \union send.unheard
  BY <1>1 DEF Flagged
<1>3. r \in Partners => send.row[c][r].partner = r
  BY <1>1 DEF SendOK, SendOpen, SendPosted, NoSend, SeenOK
<1>4. ASSUME send.row[c][r].partner # 0 PROVE send.row[c][r].partner \notin send.out
  BY <1>1, <1>4 DEF Blocked
<1>5. r \notin Partners => r \notin send.out
  BY <1>1 DEF Blocked
<1>6. 0 \notin Records
  BY DEF Records
<1>7. SentTo = {r, send.row[c][r].partner}
  BY <1>1 DEF SentTo, Posted
<1> QED BY <1>1, <1>2, <1>3, <1>4, <1>5, <1>6, <1>7

\* Whoever's last word was stop before a send's transaction began is flagged in what
\* that transaction sees, as a contact and as each broadcast contact, and so
\* _optout_block_reason turns the message down.  Two are left out: a contact with an
\* older contact's number, and the contact a stranger becomes by the very message
\* that says stop, for _marketing_targets looks before it is created.
THEOREM StopIsHonoured == Spec => StopHonoured
<1> DEFINE Honours == \A c \in Campaigns, t \in Numbers : wire'[c][t] # wire[c][t] =>
                         SentTo \cap send.asked \subseteq Shadowed \union send.unheard
<1>1. Inv /\ [Next]_vars => Honours
  <2> SUFFICES ASSUME Inv, [Next]_vars, wire' # wire
               PROVE  SentTo \cap send.asked \subseteq Shadowed \union send.unheard
    OBVIOUS
  <2>1. \E c \in Campaigns, r \in Records : Post(c, r)
    BY DEF Next, OpenQueue, Posts, Others, Start, Cancel, ResetDraft, CronStart, CronBatch, Open, Record,
           NewDay, Reply, Convert, DeleteMessage, SendOther, Kill, Line, Forget, vars
  <2> QED BY <2>1, PostHonours DEF Inv
<1>2. [][Honours]_vars <=> StopHonoured
  BY DEF StopHonoured
<1> QED BY SpecInv, <1>1, <1>2, PTL DEF Spec
==============================================================================
