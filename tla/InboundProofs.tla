---------------------------- MODULE InboundProofs ----------------------------
(***************************************************************************)
(* Theorems about Inbound, for any messages, people, conversations, rules  *)
(* and number of concurrent calls.                                         *)
(*                                                                         *)
(* A call computes on a snapshot and is merged into rows that others have  *)
(* changed since.  The argument has three parts: what a call makes of a    *)
(* sound snapshot (Served), that the merge key by key of such a result     *)
(* with what is committed is sound again (MergeIsSound), for which         *)
(* nothing that the call relied on may have been undone (Before), and      *)
(* that both hold of every call in flight (Inv).                           *)
(***************************************************************************)
EXTENDS Inbound, TLAPS

----------------------------------------------------------------------------
(* What the parts of a delivery write *)

\* The fields of the tables; rows also have their enumerations.
IsRow(r) == /\ DOMAIN r = {"is", "media", "linked", "shown"}
            /\ r.is \in {"none", "stub", "real"}
            /\ r.media \in {"none", "pending", "fetched", "error"}
            /\ r.shown \in Seq({"empty", "full"})
IsPerson(p) == DOMAIN p = {"is", "out", "from", "named"}
IsChannel(c) == /\ DOMAIN c = {"on", "partner", "name", "seen", "members"}
                /\ c.name \in {"number", "label", "hand"}
IsDb(v) == /\ DOMAIN v = Tables
           /\ DOMAIN v.row = Ids /\ \A i \in Ids : IsRow(v.row[i])
           /\ DOMAIN v.contact = People /\ \A p \in People : IsPerson(v.contact[p])
           /\ DOMAIN v.chan = Chats /\ \A c \in Chats : IsChannel(v.chan[c])
           /\ DOMAIN v.group = Chats

\* A bubble is one more entry of its row.
LEMMA BubbleFacts ==
    ASSUME NEW v, IsDb(v), NEW i \in Ids
    PROVE  LET w == Bubble(v, i) IN
           /\ IsDb(w) /\ w.contact = v.contact /\ w.chan = v.chan /\ w.group = v.group
           /\ \A j \in Ids \ {i} : w.row[j] = v.row[j]
           /\ w.row[i].is = v.row[i].is /\ w.row[i].media = v.row[i].media
           /\ w.row[i].linked = v.row[i].linked
           /\ w.row[i].shown = Append(v.row[i].shown, IF v.row[i].is = "stub" THEN "empty" ELSE "full")
  BY DEF Bubble, IsDb, IsRow, Tables

\* A refresh never closes a conversation, nor changes how it was routed.
LEMMA RefreshFacts ==
    ASSUME NEW v, IsDb(v), NEW i \in Ids
    PROVE  LET w == Refresh(v, i) IN
           /\ IsDb(w) /\ w.contact = v.contact /\ w.row = v.row
           /\ \A c \in Chats \ {Chat[i]} : w.chan[c] = v.chan[c]
           /\ \A c \in Chats : w.chan[c].on = v.chan[c].on /\ w.chan[c].seen = v.chan[c].seen
  BY InboundAssumption DEF Refresh, IsDb, IsChannel, Tables

\* The correspondent is created where there is no contact, and only then.
LEMMA CorrespondentFacts ==
    ASSUME NEW v, IsDb(v), NEW i \in Ids
    PROVE  LET w == Correspondent(v, i)  p == Sender[i] IN
           /\ IsDb(w) /\ w.chan = v.chan
           /\ \A j \in Ids \ {i} : w.row[j] = v.row[j]
           /\ w.row[i].is = v.row[i].is /\ w.row[i].media = v.row[i].media
           /\ w.row[i].shown = v.row[i].shown
           /\ v.row[i].linked => w.row[i] = v.row[i] /\ w.contact = v.contact
           /\ w.row[i].linked => v.row[i].linked \/ w.contact[p].is
           /\ \A q \in People \ {p} : w.contact[q] = v.contact[q]
           /\ \/ w.contact[p] = v.contact[p]
              \/ ~v.contact[p].is /\ w.contact[p].is /\ w.contact[p].from = {Chat[i]}
  BY InboundAssumption DEF Correspondent, IsDb, IsRow, IsPerson, Tables

\* A new channel remembers what its sender was.
LEMMA NewChannelFacts ==
    ASSUME NEW v, IsDb(v), NEW i \in Ids, NEW seen
    PROVE  LET w == NewChannel(v, i, seen) IN
           /\ IsDb(w) /\ w.contact = v.contact /\ w.row = v.row
           /\ \A c \in Chats \ {Chat[i]} : w.chan[c] = v.chan[c]
           /\ w.chan[Chat[i]].on /\ w.chan[Chat[i]].seen = seen
  BY InboundAssumption DEF NewChannel, IsDb, IsChannel, Tables

\* An opt-out is set on the contact alone, and never taken back.
LEMMA OptoutFacts ==
    ASSUME NEW v, IsDb(v), NEW i \in Ids, NEW f, NEW linked
    PROVE  LET w == InboundOptout(v, i, f, linked)  p == Sender[i] IN
           /\ IsDb(w) /\ w.row = v.row /\ w.chan = v.chan
           /\ \A q \in People \ {p} : w.contact[q] = v.contact[q]
           /\ w.contact[p].is = v.contact[p].is /\ w.contact[p].from = v.contact[p].from
           /\ linked /\ OptsOut(f) => w.contact[p].out
           /\ v.contact[p].out => w.contact[p].out
           /\ ~linked => w.contact = v.contact
  BY InboundAssumption DEF InboundOptout, IsDb, IsPerson, Tables

\* What a delivery does to the state v it works on: one bubble at most, of the kind
\* the row calls for; a new contact only together with the channel.
Delivered(v, w, now, i) ==
    LET p == Sender[i]  c == Chat[i] IN
    /\ IsDb(w)
    /\ \A j \in Ids \ {i} : w.row[j] = v.row[j]
    /\ w.row[i].is = v.row[i].is /\ w.row[i].media = v.row[i].media
    /\ v.row[i].linked => w.row[i].linked /\ w.contact = v.contact
    /\ w.row[i].linked => v.row[i].linked \/ w.contact[p].is
    /\ w.row[i].shown \in {v.row[i].shown,
                           Append(v.row[i].shown, IF v.row[i].is = "stub" THEN "empty" ELSE "full")}
    /\ \A q \in People \ {p} : w.contact[q] = v.contact[q]
    /\ \/ w.contact[p] = v.contact[p]
       \/ /\ ~v.contact[p].is /\ w.contact[p].is /\ w.contact[p].from = {c}
          /\ now.chan[c].on \/ w.chan[c].on
    /\ \A d \in Chats \ {c} : w.chan[d] = v.chan[d]
    /\ v.chan[c].on => w.chan[c].on /\ w.chan[c].seen = v.chan[c].seen
    /\ w.chan[c].on /\ ~v.chan[c].on /\ w.chan[c].seen = "existing" => v.row[i].linked

\* The first message of a conversation, whichever call wins the channel.
LEMMA OpenFacts ==
    ASSUME NEW v, IsDb(v), NEW i \in Ids, NEW now, ~v.chan[Chat[i]].on
    PROVE  Delivered(v, OpenChannel(v, now, i), now, i)
<1> DEFINE seen == IF v.row[i].linked THEN "existing" ELSE "new"
           x == Correspondent(v, i)
           y == NewChannel(x, i, seen)
           z == Bubble(y, i)
<1>1. /\ IsDb(x) /\ x.chan = v.chan
      /\ \A j \in Ids \ {i} : x.row[j] = v.row[j]
      /\ x.row[i].is = v.row[i].is /\ x.row[i].media = v.row[i].media
      /\ x.row[i].shown = v.row[i].shown
      /\ v.row[i].linked => x.row[i] = v.row[i] /\ x.contact = v.contact
      /\ x.row[i].linked => v.row[i].linked \/ x.contact[Sender[i]].is
      /\ \A q \in People \ {Sender[i]} : x.contact[q] = v.contact[q]
      /\ \/ x.contact[Sender[i]] = v.contact[Sender[i]]
         \/ /\ ~v.contact[Sender[i]].is /\ x.contact[Sender[i]].is
            /\ x.contact[Sender[i]].from = {Chat[i]}
  BY CorrespondentFacts
<1> HIDE DEF x
<1>2. /\ IsDb(y) /\ y.contact = x.contact /\ y.row = x.row
      /\ \A c \in Chats \ {Chat[i]} : y.chan[c] = x.chan[c]
      /\ y.chan[Chat[i]].on /\ y.chan[Chat[i]].seen = seen
  BY <1>1, NewChannelFacts
<1> HIDE DEF y
<1>3. /\ IsDb(z) /\ z.contact = y.contact /\ z.chan = y.chan
      /\ \A j \in Ids \ {i} : z.row[j] = y.row[j]
      /\ z.row[i].is = y.row[i].is /\ z.row[i].media = y.row[i].media
      /\ z.row[i].linked = y.row[i].linked
      /\ z.row[i].shown = Append(y.row[i].shown, IF y.row[i].is = "stub" THEN "empty" ELSE "full")
  BY <1>2, BubbleFacts
<1> HIDE DEF z
<1>4. CASE now.chan[Chat[i]].on
  <2>1. OpenChannel(v, now, i) = x
    BY <1>4 DEF OpenChannel, x
  <2>2. Delivered(v, x, now, i)
    BY <1>1, <1>4 DEF Delivered
  <2> QED BY <2>1, <2>2
<1>5. CASE ~now.chan[Chat[i]].on
  <2>1. OpenChannel(v, now, i) = z
    BY <1>5 DEF OpenChannel, x, y, z
  <2>2. Delivered(v, z, now, i)
    BY <1>1, <1>2, <1>3 DEF Delivered
  <2> QED BY <2>1, <2>2
<1> QED BY <1>4, <1>5

\* Every way a message is delivered.
LEMMA DeliverFacts ==
    ASSUME NEW v, IsDb(v), NEW i \in Ids, NEW now
    PROVE  Delivered(v, Deliver(v, now, i), now, i)
<1>1. CASE Chat[i] \notin Routed /\ v.row[i].linked
  <2>1. Deliver(v, now, i) = Bubble(v, i)
    BY <1>1 DEF Deliver
  <2>2. Delivered(v, Bubble(v, i), now, i)
    BY BubbleFacts, InboundAssumption DEF Delivered
  <2> QED BY <2>1, <2>2
<1>2. CASE Chat[i] \notin Routed /\ ~v.row[i].linked
  <2>1. Deliver(v, now, i) = v
    BY <1>2 DEF Deliver
  <2> QED BY <2>1 DEF Delivered
<1>3. CASE Chat[i] \in Routed /\ v.chan[Chat[i]].on
  <2> DEFINE x == Refresh(v, i)
             z == Bubble(x, i)
  <2>1. /\ IsDb(x) /\ x.contact = v.contact /\ x.row = v.row
        /\ \A c \in Chats \ {Chat[i]} : x.chan[c] = v.chan[c]
        /\ \A c \in Chats : x.chan[c].on = v.chan[c].on /\ x.chan[c].seen = v.chan[c].seen
    BY RefreshFacts
  <2> HIDE DEF x
  <2>2. /\ IsDb(z) /\ z.contact = x.contact /\ z.chan = x.chan
        /\ \A j \in Ids \ {i} : z.row[j] = x.row[j]
        /\ z.row[i].is = x.row[i].is /\ z.row[i].media = x.row[i].media
        /\ z.row[i].linked = x.row[i].linked
        /\ z.row[i].shown = Append(x.row[i].shown, IF x.row[i].is = "stub" THEN "empty" ELSE "full")
    BY <2>1, BubbleFacts
  <2> HIDE DEF z
  <2>3. Deliver(v, now, i) = z
    BY <1>3 DEF Deliver, x, z
  <2>4. Delivered(v, z, now, i)
    BY <2>1, <2>2, InboundAssumption DEF Delivered
  <2> QED BY <2>3, <2>4
<1>4. CASE Chat[i] \in Routed /\ ~v.chan[Chat[i]].on
  BY <1>4, OpenFacts DEF Deliver
<1> QED BY <1>1, <1>2, <1>3, <1>4

----------------------------------------------------------------------------
(* What every committed state, and so every snapshot, keeps *)

\* A row by itself: a stand-in shows no content, and no bubble comes twice.
RowWell(i, r) ==
    /\ r.media # "none" <=> Kind[i] # "text" /\ r.is = "real"
    /\ r.is = "none" => r = NoRow
    /\ IsInjective(r.shown)
    /\ "full" \in Range(r.shown) => r.is = "real" /\ (Kind[i] = "text" \/ r.media = "fetched")

Stranger == [is |-> FALSE, out |-> FALSE, from |-> {}, named |-> FALSE]

RowsWell(v) == \A i \in Ids : RowWell(i, v.row[i])

\* A row is linked only to a contact, and to every contact who wrote as one.
PeopleWell(v) ==
    /\ \A p \in People : ~v.contact[p].is => v.contact[p] = Stranger
    /\ \A p \in Known : v.contact[p].is
    /\ \A i \in Ids : v.row[i].linked => v.contact[Sender[i]].is
    /\ \A i \in Ids : v.row[i].is # "none" /\ Sender[i] \in Known => v.row[i].linked

\* StopHeard and RoutedAsArrived of a snapshot; what makes the second inductive is
\* that a contact is created from a conversation only when that is open or opened.
HeardIn(v) ==
    \A i \in Ids : v.row[i].is = "real" /\ Sender[i] \in Known /\ OptsOut(Facts(i, "real", TRUE))
                      => v.contact[Sender[i]].out

RoutedIn(v) ==
    /\ \A i \in Ids : LET c == Chat[i]  p == Sender[i] IN
          c \notin Groups /\ v.chan[c].on /\ v.chan[c].seen = "existing"
             => v.contact[p].is /\ c \notin v.contact[p].from
    /\ \A p \in People, c \in Chats : v.contact[p].is /\ c \in v.contact[p].from => v.chan[c].on

Sound(v) == IsDb(v) /\ RowsWell(v) /\ PeopleWell(v) /\ HeardIn(v) /\ RoutedIn(v)

\* What the calls rely on is never undone: contacts and conversations stay, an
\* opt-out stays, and so does where a contact came from.
Before(a, b) ==
    /\ \A p \in People : a.contact[p].is => /\ b.contact[p].is
                                            /\ a.contact[p].out => b.contact[p].out
                                            /\ b.contact[p].from = a.contact[p].from
    /\ \A c \in Chats : a.chan[c].on => b.chan[c].on

\* What the call of message i makes, w, of its snapshot v.
Served(v, w, now, i) ==
    LET p == Sender[i]  c == Chat[i] IN
    /\ IsDb(w) /\ RowsWell(w) /\ PeopleWell(w) /\ HeardIn(w) /\ Before(v, w)
    /\ \A j \in Ids \ {i} : w.row[j] = v.row[j]
    /\ \A q \in People \ {p} : w.contact[q] = v.contact[q]
    /\ \A d \in Chats \ {c} : w.chan[d] = v.chan[d]
    /\ w.contact[p].is /\ ~v.contact[p].is => w.contact[p].from = {c} /\ (now.chan[c].on \/ w.chan[c].on)
    /\ v.chan[c].on => w.chan[c].seen = v.chan[c].seen
    /\ w.chan[c].on /\ ~v.chan[c].on /\ w.chan[c].seen = "existing" => v.contact[p].is

\* The state the call delivers from: its row and its opt-out written.
Ready(v, x, i) ==
    LET p == Sender[i]  r == x.row[i] IN
    /\ IsDb(x) /\ x.chan = v.chan
    /\ \A j \in Ids \ {i} : x.row[j] = v.row[j]
    /\ \A q \in People \ {p} : x.contact[q] = v.contact[q]
    /\ x.contact[p] = v.contact[p] \/ v.contact[p].is
    /\ x.contact[p].is = v.contact[p].is /\ x.contact[p].from = v.contact[p].from
    /\ v.contact[p].out => x.contact[p].out
    /\ RowWell(i, r)
    /\ r.linked => v.contact[p].is
    /\ r.is # "none" /\ p \in Known => r.linked
    /\ r.is = "real" /\ p \in Known /\ OptsOut(Facts(i, "real", TRUE)) => x.contact[p].out

\* A bubble of a kind not shown yet keeps the sequence without repetition.
LEMMA AppendOnce ==
    ASSUME NEW s \in Seq({"empty", "full"}), NEW e \in {"empty", "full"}, IsInjective(s), e \notin Range(s)
    PROVE  IsInjective(Append(s, e)) /\ Range(Append(s, e)) = Range(s) \union {e}
<1>1. /\ Len(s) \in Nat /\ DOMAIN s = 1 .. Len(s)
      /\ DOMAIN Append(s, e) = 1 .. (Len(s) + 1)
      /\ \A k \in 1 .. Len(s) : Append(s, e)[k] = s[k]
      /\ Append(s, e)[Len(s) + 1] = e
  OBVIOUS
<1>2. IsInjective(Append(s, e))
  BY <1>1 DEF IsInjective, Range
<1>3. Range(Append(s, e)) = Range(s) \union {e}
  BY <1>1 DEF Range
<1> QED BY <1>2, <1>3

\* A call that ends before it delivers.
LEMMA ReadyIsServed ==
    ASSUME NEW v, Sound(v), NEW i \in Ids, NEW now, NEW x, Ready(v, x, i)
    PROVE  Served(v, x, now, i)
<1> USE InboundAssumption DEF Sound
<1>1. RowsWell(x)
  BY DEF RowsWell, Ready
<1>2. PeopleWell(x)
  BY DEF PeopleWell, Ready
<1>3. HeardIn(x)
  BY DEF HeardIn, Ready
<1>4. Before(v, x)
  BY DEF Before, Ready
<1> QED BY <1>1, <1>2, <1>3, <1>4 DEF Served, Ready

\* A call that delivers a row whose content it may show and has not shown.
LEMMA DeliveredIsServed ==
    ASSUME NEW v, Sound(v), NEW i \in Ids, NEW now, NEW x, Ready(v, x, i),
           x.row[i].is # "none",
           x.row[i].is = "real" => Kind[i] = "text" \/ x.row[i].media = "fetched",
           (IF x.row[i].is = "stub" THEN "empty" ELSE "full") \notin Range(x.row[i].shown)
    PROVE  Served(v, Deliver(x, now, i), now, i)
<1> USE InboundAssumption
<1> DEFINE w == Deliver(x, now, i)
           e == IF x.row[i].is = "stub" THEN "empty" ELSE "full"
<1>1. Delivered(x, w, now, i)
  BY DeliverFacts DEF Ready
<1> HIDE DEF w
<1>2. RowWell(i, w.row[i])
  <2>1. x.row[i].shown \in Seq({"empty", "full"}) /\ IsInjective(x.row[i].shown)
    BY DEF Ready, IsDb, IsRow, RowWell
  <2>2. /\ IsInjective(Append(x.row[i].shown, e))
        /\ Range(Append(x.row[i].shown, e)) = Range(x.row[i].shown) \union {e}
    BY <2>1, AppendOnce
  <2>3. /\ w.row[i].is = x.row[i].is /\ w.row[i].media = x.row[i].media
        /\ w.row[i].shown \in {x.row[i].shown, Append(x.row[i].shown, e)}
    BY <1>1 DEF Delivered
  <2>4. x.row[i].is \in {"stub", "real"} /\ RowWell(i, x.row[i])
    BY DEF Ready, IsDb, IsRow
  <2>5. CASE w.row[i].shown = x.row[i].shown
    BY <2>3, <2>4, <2>5 DEF RowWell
  <2>6. CASE w.row[i].shown = Append(x.row[i].shown, e)
    <3>1. IsInjective(w.row[i].shown)
      BY <2>2, <2>6
    <3>2. "full" \in Range(w.row[i].shown) => x.row[i].is = "real" /\ (Kind[i] = "text" \/ x.row[i].media = "fetched")
      BY <2>2, <2>4, <2>6 DEF RowWell
    <3> QED BY <2>3, <2>4, <3>1, <3>2 DEF RowWell
  <2> QED BY <2>3, <2>5, <2>6
<1>3. RowsWell(w)
  BY <1>1, <1>2 DEF RowsWell, Delivered, Ready, Sound
<1>4. \A q \in People : \/ w.contact[q] = x.contact[q]
                        \/ q = Sender[i] /\ ~x.contact[q].is /\ w.contact[q].is
  BY <1>1 DEF Delivered
<1>5. \A q \in People : ~x.contact[q].is => x.contact[q] = Stranger
  BY DEF Ready, Sound, PeopleWell
<1>0. \A q \in People : x.contact[q].is = v.contact[q].is /\ (v.contact[q].out => x.contact[q].out)
  BY DEF Ready
<1>6. PeopleWell(w)
  <2>1. \A p \in People : ~w.contact[p].is => w.contact[p] = Stranger
    BY <1>4, <1>5
  <2>2. \A p \in People : x.contact[p].is => w.contact[p].is
    BY <1>4
  <2>3. \A p \in Known : w.contact[p].is
    BY <2>2 DEF Ready, Sound, PeopleWell
  <2>4. \A j \in Ids : w.row[j].linked => w.contact[Sender[j]].is
    <3>1. w.row[i].linked => w.contact[Sender[i]].is
      BY <1>0, <1>1, <2>2 DEF Ready, Delivered
    <3>2. ASSUME NEW j \in Ids \ {i}, w.row[j].linked PROVE w.contact[Sender[j]].is
      <4>1. v.row[j].linked
        BY <1>1, <3>2 DEF Ready, Delivered
      <4> QED BY <1>0, <2>2, <4>1 DEF Sound, PeopleWell
    <3> QED BY <3>1, <3>2
  <2>5. \A j \in Ids : w.row[j].is # "none" /\ Sender[j] \in Known => w.row[j].linked
    <3>1. w.row[i].is # "none" /\ Sender[i] \in Known => w.row[i].linked
      BY <1>1 DEF Ready, Delivered
    <3>2. \A j \in Ids \ {i} : w.row[j] = v.row[j]
      BY <1>1 DEF Ready, Delivered
    <3> QED BY <3>1, <3>2 DEF Sound, PeopleWell
  <2> QED BY <2>1, <2>3, <2>4, <2>5 DEF PeopleWell
<1>7. HeardIn(w)
  <2>1. \A p \in Known : w.contact[p] = x.contact[p]
    BY <1>4 DEF Ready, Sound, PeopleWell
  <2>2. ASSUME NEW j \in Ids, w.row[j].is = "real", Sender[j] \in Known, OptsOut(Facts(j, "real", TRUE))
        PROVE  x.contact[Sender[j]].out
    <3>1. CASE j = i
      BY <1>1, <2>2, <3>1 DEF Delivered, Ready
    <3>2. CASE j # i
      <4>1. v.row[j].is = "real"
        BY <1>1, <2>2, <3>2 DEF Delivered, Ready
      <4> QED BY <1>0, <2>2, <4>1 DEF Sound, HeardIn
    <3> QED BY <3>1, <3>2
  <2> QED BY <2>1, <2>2 DEF HeardIn
<1>8. Before(v, w)
  <2>1. \A q \in People : v.contact[q].is => /\ w.contact[q].is
                                             /\ v.contact[q].out => w.contact[q].out
                                             /\ w.contact[q].from = v.contact[q].from
    BY <1>0, <1>4 DEF Ready
  <2>2. \A c \in Chats : v.chan[c].on => w.chan[c].on
    <3>1. v.chan[Chat[i]].on => w.chan[Chat[i]].on
      BY <1>1 DEF Ready, Delivered
    <3>2. \A c \in Chats \ {Chat[i]} : w.chan[c] = v.chan[c]
      BY <1>1 DEF Ready, Delivered
    <3> QED BY <3>1, <3>2
  <2> QED BY <2>1, <2>2 DEF Before
<1>9. /\ \A j \in Ids \ {i} : w.row[j] = v.row[j]
      /\ \A q \in People \ {Sender[i]} : w.contact[q] = v.contact[q]
      /\ \A d \in Chats \ {Chat[i]} : w.chan[d] = v.chan[d]
  BY <1>1 DEF Ready, Delivered
<1>10. w.contact[Sender[i]].is /\ ~v.contact[Sender[i]].is
         => w.contact[Sender[i]].from = {Chat[i]} /\ (now.chan[Chat[i]].on \/ w.chan[Chat[i]].on)
  BY <1>1, <1>0 DEF Delivered
<1>11. /\ v.chan[Chat[i]].on => w.chan[Chat[i]].seen = v.chan[Chat[i]].seen
       /\ w.chan[Chat[i]].on /\ ~v.chan[Chat[i]].on /\ w.chan[Chat[i]].seen = "existing"
            => v.contact[Sender[i]].is
  BY <1>1 DEF Ready, Delivered
<1>12. IsDb(w)
  BY <1>1 DEF Delivered
<1> QED BY <1>3, <1>6, <1>7, <1>8, <1>9, <1>10, <1>11, <1>12, ZenonT(60) DEF Served, w

\* The keyword of a contact is judged as that of a contact.
LEMMA FactsOfKnown ==
    ASSUME NEW i, NEW linked, linked PROVE Facts(i, "real", linked) = Facts(i, "real", TRUE)
  BY DEF Facts

\* A message that its call has not seen stored.
LEMMA NewServed ==
    ASSUME NEW v, Sound(v), NEW i \in Ids, NEW now, NEW copy \in {"stub", "real"}, v.row[i].is = "none"
    PROVE  Served(v, OnNew(v, now, i, copy).db, now, i)
<1> USE InboundAssumption
<1> DEFINE p == Sender[i]
           linked == FindPartner(v, p)
           f == Facts(i, copy, linked)
           w == InboundOptout(v, i, f, linked)
           g == IF Chat[i] \in Groups THEN [w EXCEPT !.group[Chat[i]] = TRUE] ELSE w
           media == IF copy = "real" THEN Pending(i) ELSE "none"
           r == [g EXCEPT !.row[i] = [is |-> copy, media |-> media, linked |-> linked, shown |-> <<>>]]
<1>1. linked => v.contact[p].is
  BY DEF FindPartner
<1>2. p \in Known => linked
  BY DEF FindPartner, Sound, PeopleWell
<1> HIDE DEF linked
<1>3. /\ IsDb(w) /\ w.row = v.row /\ w.chan = v.chan
      /\ \A q \in People \ {p} : w.contact[q] = v.contact[q]
      /\ w.contact[p].is = v.contact[p].is /\ w.contact[p].from = v.contact[p].from
      /\ linked /\ OptsOut(f) => w.contact[p].out
      /\ v.contact[p].out => w.contact[p].out
      /\ ~linked => w.contact = v.contact
  BY OptoutFacts DEF Sound
<1> HIDE DEF w
<1>0. /\ \A q \in People \ {p} : w.contact[q] = v.contact[q]
      /\ w.contact[p] = v.contact[p] \/ v.contact[p].is
      /\ w.contact[p].is = v.contact[p].is /\ w.contact[p].from = v.contact[p].from
      /\ v.contact[p].out => w.contact[p].out
  BY <1>1, <1>3
<1>v. RowWell(i, v.row[i]) /\ ~v.row[i].linked
  BY DEF Sound, RowsWell, RowWell, NoRow
<1>4. Ready(v, w, i)
  BY <1>0, <1>3, <1>v DEF Ready
<1>5. /\ IsDb(g) /\ g.row = w.row /\ g.chan = w.chan /\ g.contact = w.contact
  BY <1>3 DEF IsDb, Tables
<1> HIDE DEF g
<1>6. Ready(v, g, i)
  BY <1>4, <1>5 DEF Ready
<1>7. /\ IsDb(r) /\ r.chan = g.chan /\ r.contact = g.contact
      /\ \A j \in Ids \ {i} : r.row[j] = g.row[j]
      /\ r.row[i].is = copy /\ r.row[i].media = media /\ r.row[i].shown = <<>>
      /\ r.row[i].linked = linked
  <2>1. media \in {"none", "pending"}
    BY DEF Pending
  <2> HIDE DEF media
  <2> QED BY <1>5, <2>1 DEF IsDb, IsRow, Tables
<1> HIDE DEF r
<1>8. Ready(v, r, i)
  <2>1. RowWell(i, r.row[i])
    BY <1>7 DEF RowWell, Pending, IsInjective, Range
  <2>2. copy = "real" /\ p \in Known /\ OptsOut(Facts(i, "real", TRUE)) => r.contact[p].out
    <3>1. copy = "real" /\ linked => f = Facts(i, "real", TRUE)
      BY FactsOfKnown
    <3> QED BY <1>2, <1>3, <1>5, <1>7, <3>1
  <2>3. /\ IsDb(r) /\ r.chan = v.chan
        /\ \A j \in Ids \ {i} : r.row[j] = v.row[j]
    BY <1>3, <1>5, <1>7
  <2>4. r.contact = w.contact
    BY <1>5, <1>7
  <2>5. /\ r.row[i].linked => v.contact[p].is
        /\ r.row[i].is # "none" /\ p \in Known => r.row[i].linked
        /\ r.row[i].is = "real" => copy = "real"
    BY <1>1, <1>2, <1>7
  <2> QED BY <1>0, <2>1, <2>2, <2>3, <2>4, <2>5 DEF Ready
<1>9. media # "pending" => Served(v, Deliver(r, now, i), now, i)
  <2>1. ASSUME media # "pending", copy = "real" PROVE Kind[i] = "text"
    BY <2>1 DEF Pending
  <2>2. "full" \notin Range(r.row[i].shown) /\ "empty" \notin Range(r.row[i].shown)
    BY <1>7 DEF Range
  <2> QED BY <1>7, <1>8, <2>1, <2>2, DeliveredIsServed
<1>10. Served(v, w, now, i) /\ Served(v, g, now, i) /\ Served(v, r, now, i)
  BY <1>4, <1>6, <1>8, ReadyIsServed
<1>11. OnNew(v, now, i, copy).db \in {w, g, r, IF media = "pending" THEN r ELSE Deliver(r, now, i)}
  BY DEF OnNew, Same, r, g, w, linked
<1> QED BY <1>9, <1>10, <1>11

\* A further copy of a stored message.
LEMMA DuplicateServed ==
    ASSUME NEW v, Sound(v), NEW i \in Ids, NEW now, NEW copy \in {"stub", "real"}, v.row[i].is # "none"
    PROVE  Served(v, MergeDuplicate(v, now, i, copy).db, now, i)
<1> USE InboundAssumption
<1>1. CASE v.row[i].is = "real" \/ copy = "stub"
  <2>1. MergeDuplicate(v, now, i, copy).db = v
    BY <1>1 DEF MergeDuplicate, Same
  <2>2. Ready(v, v, i)
    BY DEF Ready, Sound, RowsWell, PeopleWell, HeardIn
  <2> QED BY <2>1, <2>2, ReadyIsServed
<1>2. CASE v.row[i].is = "stub" /\ copy = "real"
  <2> DEFINE p == Sender[i]
             linked == v.row[i].linked
             u == [v EXCEPT !.row[i].is = "real", !.row[i].media = Pending(i)]
             f == Facts(i, "real", linked)
             w == InboundOptout(u, i, f, linked)
  <2>1. linked => v.contact[p].is
    BY DEF Sound, PeopleWell
  <2>2. p \in Known => linked
    BY <1>2 DEF Sound, PeopleWell
  <2>3. /\ IsDb(u) /\ u.chan = v.chan /\ u.contact = v.contact
        /\ \A j \in Ids \ {i} : u.row[j] = v.row[j]
        /\ u.row[i].is = "real" /\ u.row[i].media = Pending(i)
        /\ u.row[i].shown = v.row[i].shown /\ u.row[i].linked = linked
    <3>1. Pending(i) \in {"none", "pending"}
      BY DEF Pending
    <3> QED BY <3>1 DEF Sound, IsDb, IsRow, Tables
  <2> HIDE DEF u
  <2>4. /\ IsDb(w) /\ w.row = u.row /\ w.chan = u.chan
        /\ \A q \in People \ {p} : w.contact[q] = u.contact[q]
        /\ w.contact[p].is = u.contact[p].is /\ w.contact[p].from = u.contact[p].from
        /\ linked /\ OptsOut(f) => w.contact[p].out
        /\ u.contact[p].out => w.contact[p].out
        /\ ~linked => w.contact = u.contact
    BY <2>3, OptoutFacts
  <2> HIDE DEF w
  <2>5. /\ IsInjective(v.row[i].shown) /\ "full" \notin Range(v.row[i].shown)
    BY <1>2 DEF Sound, RowsWell, RowWell
  <2>6. Ready(v, w, i)
    <3>1. RowWell(i, w.row[i])
      BY <2>3, <2>4, <2>5 DEF RowWell, Pending
    <3>2. p \in Known /\ OptsOut(Facts(i, "real", TRUE)) => w.contact[p].out
      <4>1. linked => f = Facts(i, "real", TRUE)
        BY FactsOfKnown
      <4> QED BY <2>2, <2>4, <4>1
    <3>3. /\ IsDb(w) /\ w.chan = v.chan
          /\ \A j \in Ids \ {i} : w.row[j] = v.row[j]
          /\ w.row[i].linked = linked
      BY <2>3, <2>4
    <3>4. /\ \A q \in People \ {p} : w.contact[q] = v.contact[q]
          /\ w.contact[p] = v.contact[p] \/ v.contact[p].is
          /\ w.contact[p].is = v.contact[p].is /\ w.contact[p].from = v.contact[p].from
          /\ v.contact[p].out => w.contact[p].out
      BY <2>1, <2>3, <2>4
    <3> QED BY <2>1, <2>2, <3>1, <3>2, <3>3, <3>4 DEF Ready
  <2>7. Kind[i] = "text" => Served(v, Deliver(w, now, i), now, i)
    BY <2>3, <2>4, <2>5, <2>6, DeliveredIsServed
  <2>8. MergeDuplicate(v, now, i, copy).db = IF Kind[i] = "text" THEN Deliver(w, now, i) ELSE w
    BY <1>2 DEF MergeDuplicate, Same, w, u
  <2> QED BY <2>6, <2>7, <2>8, ReadyIsServed
<1>3. v.row[i].is \in {"none", "stub", "real"}
  BY DEF Sound, IsDb, IsRow
<1> QED BY <1>1, <1>2, <1>3

\* The fetch of a file.
LEMMA FetchServed ==
    ASSUME NEW v, Sound(v), NEW i \in Ids, NEW now
    PROVE  Served(v, FetchMedia(v, now, i).db, now, i)
<1> USE InboundAssumption
<1>1. CASE v.row[i].media # "pending"
  <2>1. FetchMedia(v, now, i).db = v
    BY <1>1 DEF FetchMedia, Same
  <2>2. Ready(v, v, i)
    BY DEF Ready, Sound, RowsWell, PeopleWell, HeardIn
  <2> QED BY <2>1, <2>2, ReadyIsServed
<1>2. ASSUME v.row[i].media = "pending", NEW m \in {"fetched", "error"}
      PROVE  LET x == [v EXCEPT !.row[i].media = m] IN
             /\ Ready(v, x, i) /\ x.row[i].is = "real" /\ x.row[i].media = m
             /\ "full" \notin Range(x.row[i].shown)
  <2> DEFINE x == [v EXCEPT !.row[i].media = m]
  <2>1. /\ IsDb(x) /\ x.chan = v.chan /\ x.contact = v.contact
        /\ \A j \in Ids \ {i} : x.row[j] = v.row[j]
        /\ x.row[i].is = v.row[i].is /\ x.row[i].media = m
        /\ x.row[i].shown = v.row[i].shown /\ x.row[i].linked = v.row[i].linked
    BY DEF Sound, IsDb, IsRow, Tables
  <2> HIDE DEF x
  <2>2. /\ v.row[i].is = "real" /\ Kind[i] # "text" /\ IsInjective(v.row[i].shown)
        /\ "full" \notin Range(v.row[i].shown)
    BY <1>2 DEF Sound, RowsWell, RowWell
  <2>3. RowWell(i, x.row[i])
    BY <2>1, <2>2 DEF RowWell
  <2>4. Ready(v, x, i)
    BY <2>1, <2>3 DEF Ready, Sound, PeopleWell, HeardIn
  <2>5. x.row[i].is = "real" /\ x.row[i].media = m /\ "full" \notin Range(x.row[i].shown)
    BY <2>1, <2>2
  <2> QED BY <2>4, <2>5 DEF x
<1>3. CASE v.row[i].media = "pending" /\ i \in files
  <2> DEFINE x == [v EXCEPT !.row[i].media = "fetched"]
  <2>1. /\ Ready(v, x, i) /\ x.row[i].is = "real" /\ x.row[i].media = "fetched"
        /\ "full" \notin Range(x.row[i].shown)
    BY <1>2, <1>3
  <2> HIDE DEF x
  <2>2. Served(v, Deliver(x, now, i), now, i)
    BY <2>1, DeliveredIsServed
  <2>3. FetchMedia(v, now, i).db = Deliver(x, now, i)
    BY <1>3 DEF FetchMedia, Same, x
  <2> QED BY <2>2, <2>3
<1>4. CASE v.row[i].media = "pending" /\ i \notin files
  <2>1. FetchMedia(v, now, i).db = [v EXCEPT !.row[i].media = "error"]
    BY <1>4 DEF FetchMedia, Same
  <2>2. Ready(v, [v EXCEPT !.row[i].media = "error"], i)
    BY <1>2, <1>4
  <2> QED BY <2>1, <2>2, ReadyIsServed
<1> QED BY <1>1, <1>3, <1>4

\* A report of the webhook, whichever copy it brings.
LEMMA MessageServed ==
    ASSUME NEW v, Sound(v), NEW i \in Ids, NEW now, NEW copy \in {"stub", "real"}
    PROVE  Served(v, OnMessage(v, now, i, copy).db, now, i)
<1>1. CASE v.row[i].is = "none"
  BY <1>1, NewServed DEF OnMessage
<1>2. CASE v.row[i].is # "none"
  BY <1>2, DuplicateServed DEF OnMessage
<1> QED BY <1>1, <1>2

----------------------------------------------------------------------------
(* The commit: what a call has written replaces what it has read, key by key *)

\* m is the merge of the writes of a call, from s to w, with what is committed, d.
Merges(s, d, w, m) ==
    /\ IsDb(m)
    /\ \A i \in Ids : \/ m.row[i] = d.row[i] /\ w.row[i] = s.row[i]
                      \/ m.row[i] = w.row[i] /\ d.row[i] = s.row[i]
    /\ \A c \in Chats : \/ m.chan[c] = d.chan[c] /\ w.chan[c] = s.chan[c]
                        \/ m.chan[c] = w.chan[c] /\ d.chan[c] = s.chan[c]
    /\ \A p \in People : \/ m.contact[p] = d.contact[p] /\ w.contact[p] = s.contact[p]
                         \/ m.contact[p] = d.contact[p] /\ d.contact[p] # s.contact[p] /\ ~s.contact[p].is
                         \/ m.contact[p] = w.contact[p] /\ d.contact[p] = s.contact[p]

\* A commit without a conflict: a key changed by both is a new contact's.
LEMMA MergedFacts ==
    ASSUME NEW t, NEW r, IsDb(db), IsDb(tx[t].snap), IsDb(r.db), ~Conflict(t, r)
    PROVE  Merges(tx[t].snap, db, r.db, Merged(t, r))
<1> DEFINE s == tx[t].snap
           m == Merged(t, r)
<1>1. ASSUME NEW table \in Tables, NEW k \in DOMAIN db[table]
      PROVE  /\ <<table, k>> \in Changes(t, r) <=> r.db[table][k] # s[table][k]
             /\ Changed(t, <<table, k>>) <=> db[table][k] # s[table][k]
  BY DEF Changes, Changed
<1>2. ASSUME NEW table \in Tables, NEW k \in DOMAIN db[table]
      PROVE  \/ m[table][k] = db[table][k] /\ r.db[table][k] = s[table][k]
             \/ m[table][k] = r.db[table][k] /\ db[table][k] = s[table][k]
             \/ m[table][k] = db[table][k] /\ db[table][k] # s[table][k] /\ Created(s, table, k)
  <2>1. m[table][k] = IF <<table, k>> \in Changes(t, r) /\ ~Changed(t, <<table, k>>)
                      THEN r.db[table][k] ELSE db[table][k]
    BY DEF Merged
  <2>2. r.db[table][k] = s[table][k] \/ db[table][k] = s[table][k] \/ Created(s, table, k)
    BY <1>1 DEF Conflict
  <2> HIDE DEF m
  <2> QED BY <1>1, <2>1, <2>2
<1>3. DOMAIN m = Tables /\ \A table \in Tables : DOMAIN m[table] = DOMAIN db[table]
  BY DEF Merged
<1> HIDE DEF m
<1>4. \A i \in Ids : \/ m.row[i] = db.row[i] /\ r.db.row[i] = s.row[i]
                     \/ m.row[i] = r.db.row[i] /\ db.row[i] = s.row[i]
  BY <1>2 DEF IsDb, Created, Tables
<1>5. \A c \in Chats : \/ m.chan[c] = db.chan[c] /\ r.db.chan[c] = s.chan[c]
                       \/ m.chan[c] = r.db.chan[c] /\ db.chan[c] = s.chan[c]
  BY <1>2 DEF IsDb, Created, Tables
<1>6. \A p \in People :
         \/ m.contact[p] = db.contact[p] /\ r.db.contact[p] = s.contact[p]
         \/ m.contact[p] = db.contact[p] /\ db.contact[p] # s.contact[p] /\ ~s.contact[p].is
         \/ m.contact[p] = r.db.contact[p] /\ db.contact[p] = s.contact[p]
  BY <1>2 DEF IsDb, Created, Tables
<1>7. IsDb(m)
  BY <1>3, <1>4, <1>5, <1>6 DEF IsDb, Tables
<1> QED BY <1>4, <1>5, <1>6, <1>7 DEF Merges, m

\* The merge undoes nothing that was committed.
LEMMA MergeIsAfter ==
    ASSUME NEW s, NEW d, NEW w, NEW m, NEW i, NEW now,
           Before(s, d), Served(s, w, now, i), Merges(s, d, w, m)
    PROVE  Before(d, m)
BY DEF Before, Served, Merges

\* The merge of a sound result into a sound state is sound.
LEMMA MergeIsSound ==
    ASSUME NEW s, NEW d, NEW w, NEW m, NEW i \in Ids,
           Sound(s), Sound(d), Before(s, d), Served(s, w, d, i), Merges(s, d, w, m)
    PROVE  Sound(m)
<1> USE InboundAssumption
<1>0. Before(d, m)
  BY MergeIsAfter
<1>1. IsDb(m)
  BY DEF Merges
<1>2. RowsWell(m)
  BY DEF RowsWell, Served, Sound, Merges
<1>3. PeopleWell(m)
  <2>0. PeopleWell(s) /\ PeopleWell(d) /\ PeopleWell(w)
    BY DEF Served, Sound
  <2>1. \A p \in People : ~m.contact[p].is => m.contact[p] = Stranger
    BY <2>0 DEF PeopleWell, Merges
  <2>2. \A p \in Known : m.contact[p].is
    BY <2>0, <1>0 DEF PeopleWell, Before
  <2>3. ASSUME NEW j \in Ids, m.row[j].linked PROVE m.contact[Sender[j]].is
    <3>1. CASE m.row[j] = d.row[j]
      BY <1>0, <2>0, <2>3, <3>1 DEF PeopleWell, Before
    <3>2. CASE m.row[j] = w.row[j]
      <4>1. w.contact[Sender[j]].is
        BY <2>0, <2>3, <3>2 DEF PeopleWell
      <4>2. CASE m.contact[Sender[j]] = d.contact[Sender[j]]
                 /\ w.contact[Sender[j]] = s.contact[Sender[j]]
        BY <4>1, <4>2 DEF Before
      <4>3. CASE /\ m.contact[Sender[j]] = d.contact[Sender[j]]
                 /\ d.contact[Sender[j]] # s.contact[Sender[j]] /\ ~s.contact[Sender[j]].is
        BY <2>0, <4>3 DEF PeopleWell
      <4>4. CASE m.contact[Sender[j]] = w.contact[Sender[j]]
        BY <4>1, <4>4
      <4> QED BY <4>2, <4>3, <4>4 DEF Merges
    <3> QED BY <3>1, <3>2 DEF Merges
  <2>4. \A j \in Ids : m.row[j].is # "none" /\ Sender[j] \in Known => m.row[j].linked
    BY <2>0 DEF PeopleWell, Merges
  <2> QED BY <2>1, <2>2, <2>3, <2>4 DEF PeopleWell
<1>4. HeardIn(m)
  <2> SUFFICES ASSUME NEW j \in Ids, m.row[j].is = "real", Sender[j] \in Known,
                      OptsOut(Facts(j, "real", TRUE))
               PROVE  m.contact[Sender[j]].out
    BY DEF HeardIn
  <2>1. s.contact[Sender[j]].is /\ d.contact[Sender[j]].is
    BY DEF Sound, PeopleWell
  <2>2. CASE m.row[j] = d.row[j]
    BY <1>0, <2>1, <2>2 DEF Sound, HeardIn, Before
  <2>3. CASE m.row[j] = w.row[j]
    <3>1. w.contact[Sender[j]].out
      BY <2>3 DEF Served, HeardIn
    <3> QED BY <2>1, <3>1 DEF Merges, Before
  <2> QED BY <2>2, <2>3 DEF Merges
<1>5. RoutedIn(m)
  <2>1. ASSUME NEW j \in Ids, Chat[j] \notin Groups, m.chan[Chat[j]].on, m.chan[Chat[j]].seen = "existing"
        PROVE  m.contact[Sender[j]].is /\ Chat[j] \notin m.contact[Sender[j]].from
    <3> DEFINE c == Chat[j]
               p == Sender[j]
    <3>0. \A v \in {s, d} : v.chan[c].on /\ v.chan[c].seen = "existing"
                               => v.contact[p].is /\ c \notin v.contact[p].from
      BY <2>1 DEF Sound, RoutedIn
    <3>1. CASE m.chan[c] = d.chan[c]
      BY <1>0, <2>1, <3>0, <3>1 DEF Before
    <3>2. CASE m.chan[c] = w.chan[c] /\ d.chan[c] = s.chan[c] /\ c # Chat[i]
      BY <1>0, <2>1, <3>0, <3>2 DEF Served, Before
    <3>3. CASE m.chan[c] = w.chan[c] /\ d.chan[c] = s.chan[c] /\ c = Chat[i]
      <4>1. p = Sender[i]
        BY <2>1, <3>3
      <4>2. s.contact[p].is /\ c \notin s.contact[p].from
        BY <2>1, <3>0, <3>3, <4>1 DEF Served, Sound, RoutedIn
      <4> QED BY <1>0, <4>2 DEF Before
    <3> QED BY <3>1, <3>2, <3>3 DEF Merges
  <2>2. ASSUME NEW p \in People, NEW c \in Chats, m.contact[p].is, c \in m.contact[p].from
        PROVE  m.chan[c].on
    <3>0. \A v \in {s, d} : v.contact[p].is /\ c \in v.contact[p].from => v.chan[c].on
      BY DEF Sound, RoutedIn
    <3>1. CASE m.contact[p] = d.contact[p]
      BY <1>0, <2>2, <3>0, <3>1 DEF Before
    <3>2. CASE m.contact[p] = w.contact[p] /\ s.contact[p].is
      BY <1>0, <2>2, <3>0, <3>2 DEF Served, Before
    <3>3. CASE m.contact[p] = w.contact[p] /\ ~s.contact[p].is
      <4>1. p = Sender[i]
        BY <2>2, <3>3 DEF Served
      <4>2. c = Chat[i] /\ (d.chan[c].on \/ w.chan[c].on)
        BY <2>2, <3>3, <4>1 DEF Served
      <4> QED BY <1>0, <4>2 DEF Before, Merges
    <3> QED BY <3>1, <3>2, <3>3 DEF Merges
  <2> QED BY <2>1, <2>2 DEF RoutedIn
<1> QED BY <1>1, <1>2, <1>3, <1>4, <1>5 DEF Sound

----------------------------------------------------------------------------
(* The inductive invariant *)

\* A call has read a state that was sound, and that is not undone.
Call(c) == /\ DOMAIN c = {"what", "id", "copy", "snap"}
           /\ c.what \in {"message", "fetch"} /\ c.id \in Ids /\ c.copy \in {"stub", "real"}
           /\ Sound(c.snap) /\ Before(c.snap, db)

\* The types of what lies outside the database.
Count == /\ DOMAIN tries = Ids
         /\ \A i \in Ids : /\ DOMAIN tries[i] = {"stub", "real"}
                           /\ tries[i].stub \in Nat /\ tries[i].real \in Nat
                           /\ tries[i].stub + tries[i].real <= MaxTries[i]
         /\ ticks \in [Ids -> Nat] /\ files \subseteq Ids /\ events \in 0 .. MaxEvents

Inv == /\ Sound(db)
       /\ DOMAIN tx = Calls /\ \A t \in Calls : tx[t] = Free \/ Call(tx[t])
       /\ Count

\* What a call in flight would commit now.
LEMMA ResultServed ==
    ASSUME NEW t \in Calls, Call(tx[t])
    PROVE  Served(tx[t].snap, Result(t).db, db, tx[t].id)
<1>1. CASE tx[t].what = "fetch"
  BY <1>1, FetchServed DEF Result, Call
<1>2. CASE tx[t].what = "message"
  BY <1>2, MessageServed DEF Result, Call
<1> QED BY <1>1, <1>2 DEF Call

\* Before is a preorder.
LEMMA BeforeTransitive ==
    ASSUME NEW a, NEW b, NEW c, Before(a, b), Before(b, c) PROVE Before(a, c)
  BY DEF Before

LEMMA BeforeItself == ASSUME NEW a PROVE Before(a, a)
  BY DEF Before

\* A step that only lets db go on keeps the calls.
LEMMA CallsGoOn ==
    ASSUME Inv, Sound(db)', Before(db, db'), DOMAIN tx' = Calls, Count',
           \A t \in Calls : tx'[t] \in {tx[t], Free}
    PROVE  Inv'
<1>1. ASSUME NEW t \in Calls, Call(tx[t]) PROVE Before(tx[t].snap, db')
  BY <1>1, BeforeTransitive DEF Call
<1>2. \A t \in Calls : tx'[t] = Free \/ (tx'[t] = tx[t] /\ Call(tx[t]) /\ Before(tx[t].snap, db'))
  BY <1>1 DEF Inv
<1> QED BY <1>2 DEF Inv, Call

\* An empty database with its contacts.
LEMMA InitInv == Init => Inv
<1> SUFFICES ASSUME Init PROVE Inv
  OBVIOUS
<1> USE InboundAssumption
<1>1. /\ DOMAIN db = Tables /\ db.row = [i \in Ids |-> NoRow]
      /\ db.contact = [p \in People |-> [is |-> p \in Known, out |-> FALSE, from |-> {},
                                         named |-> p \in Known]]
      /\ db.chan = [c \in Chats |-> NoChannel] /\ db.group = [c \in Chats |-> FALSE]
  BY DEF Init, Tables
<1>2. IsDb(db)
  <2>1. IsRow(NoRow) /\ IsChannel(NoChannel)
    BY DEF IsRow, IsChannel, NoRow, NoChannel
  <2>2. \A p \in People : IsPerson(db.contact[p])
    BY <1>1 DEF IsPerson
  <2> QED BY <1>1, <2>1, <2>2 DEF IsDb
<1>3. RowsWell(db)
  BY <1>1 DEF RowsWell, RowWell, NoRow, IsInjective, Range
<1>p. ASSUME NEW p \in People
      PROVE  \/ p \in Known /\ db.contact[p] = [is |-> TRUE, out |-> FALSE, from |-> {}, named |-> TRUE]
             \/ p \notin Known /\ db.contact[p] = Stranger
  <2>1. db.contact[p] = [is |-> p \in Known, out |-> FALSE, from |-> {}, named |-> p \in Known]
    BY <1>1
  <2>2. CASE p \in Known
    <3>1. (p \in Known) = TRUE
      BY <2>2
    <3> QED BY <2>1, <2>2, <3>1, Zenon
  <2>3. CASE p \notin Known
    <3>1. (p \in Known) = FALSE
      BY <2>3
    <3> QED BY <2>1, <2>3, <3>1, Zenon DEF Stranger
  <2> QED BY <2>2, <2>3
<1>4. /\ \A p \in People : /\ db.contact[p].is <=> p \in Known
                           /\ db.contact[p].from = {}
                           /\ ~db.contact[p].is => db.contact[p] = Stranger
      /\ \A i \in Ids : db.row[i].is = "none" /\ ~db.row[i].linked
      /\ \A c \in Chats : ~db.chan[c].on
  <2>1. \A i \in Ids : db.row[i].is = "none" /\ ~db.row[i].linked
    BY <1>1 DEF NoRow
  <2>2. \A c \in Chats : ~db.chan[c].on
    BY <1>1 DEF NoChannel
  <2>3. \A p \in People : (db.contact[p].is <=> p \in Known) /\ db.contact[p].from = {}
    BY <1>p DEF Stranger
  <2> QED BY <1>p, <2>1, <2>2, <2>3
<1>7. PeopleWell(db)
  BY <1>4 DEF PeopleWell
<1>8. HeardIn(db) /\ RoutedIn(db)
  BY <1>4 DEF HeardIn, RoutedIn
<1>5. Count
  BY DEF Init, Count
<1>6. DOMAIN tx = Calls /\ \A t \in Calls : tx[t] = Free
  BY DEF Init
<1> QED BY <1>2, <1>3, <1>5, <1>6, <1>7, <1>8 DEF Inv, Sound

\* Read receipts and files stay typed.
LEMMA EffectsCount ==
    ASSUME Inv, NEW t \in Calls, tx[t] # Free, Effects(t, Result(t)) \/ UNCHANGED <<ticks, files>>
    PROVE  ticks' \in [Ids -> Nat] /\ files' \subseteq Ids
<1>1. tx[t].id \in Ids
  BY DEF Inv, Call
<1> QED BY <1>1 DEF Inv, Count, Effects

\* Every step keeps the invariant.
LEMMA NextInv == Inv /\ [Next]_vars => Inv'
<1> SUFFICES ASSUME Inv, [Next]_vars PROVE Inv'
  OBVIOUS
<1> USE InboundAssumption
<1>0. Sound(db) /\ Before(db, db) /\ Count
  BY BeforeItself DEF Inv
<1>s. UNCHANGED db => Sound(db)' /\ Before(db, db')
  BY <1>0
<1>1. ASSUME NEW t \in Calls, NEW i \in Ids, NEW copy \in {"stub", "real"}, Receive(t, i, copy)
      PROVE  Inv'
  <2>1. Count'
    BY <1>0, <1>1 DEF Receive, Count
  <2>2. tx' = [tx EXCEPT ![t] = [what |-> "message", id |-> i, copy |-> copy, snap |-> db]]
        /\ db' = db
    BY <1>1 DEF Receive
  <2>3. Call(tx'[t])
    BY <1>0, <2>2 DEF Call, Inv
  <2> QED BY <1>0, <2>1, <2>2, <2>3 DEF Inv, Call
<1>2. ASSUME NEW t \in Calls, NEW i \in Ids, StartFetch(t, i)
      PROVE  Inv'
  <2>1. Count'
    BY <1>0, <1>2 DEF StartFetch, Count
  <2>2. tx' = [tx EXCEPT ![t] = [what |-> "fetch", id |-> i, copy |-> "real", snap |-> db]]
        /\ db' = db
    BY <1>2 DEF StartFetch
  <2>3. Call(tx'[t])
    BY <1>0, <2>2 DEF Call, Inv
  <2> QED BY <1>0, <2>1, <2>2, <2>3 DEF Inv, Call
<1>3. ASSUME NEW t \in Calls, Commit(t)
      PROVE  Inv'
  <2> DEFINE s == tx[t].snap
             r == Result(t)
             m == Merged(t, r)
  <2>1. /\ tx[t] # Free /\ ~Conflict(t, r) /\ db' = m /\ Effects(t, r)
        /\ tx' = [tx EXCEPT ![t] = Free] /\ UNCHANGED <<tries, events>>
    BY <1>3 DEF Commit
  <2>2. Call(tx[t])
    BY <2>1 DEF Inv
  <2>3. Served(s, r.db, db, tx[t].id)
    BY <2>2, ResultServed
  <2>4. Merges(s, db, r.db, m)
    BY <1>0, <2>1, <2>2, <2>3, MergedFacts DEF Call, Sound, Served
  <2>5. Sound(m) /\ Before(db, m)
    BY <1>0, <2>2, <2>3, <2>4, MergeIsSound, MergeIsAfter DEF Call
  <2>6. Count'
    BY <1>0, <2>1, EffectsCount DEF Count
  <2>7. DOMAIN tx' = Calls /\ \A u \in Calls : tx'[u] \in {tx[u], Free}
    BY <2>1 DEF Inv
  <2> HIDE DEF m
  <2> QED BY <2>1, <2>5, <2>6, <2>7, CallsGoOn
<1>4. ASSUME NEW t \in Calls, Retry(t)
      PROVE  Inv'
  <2>1. /\ tx[t] # Free
        /\ Effects(t, Result(t)) \/ UNCHANGED <<ticks, files>>
        /\ tx' = [tx EXCEPT ![t] = IF tx[t].what = "fetch" THEN Free ELSE [tx[t] EXCEPT !.snap = db]]
        /\ UNCHANGED <<db, tries, events>>
    BY <1>4 DEF Retry, Inv
  <2>2. Call(tx[t])
    BY <2>1, <1>4 DEF Inv, Retry
  <2>3. tx'[t] = Free \/ Call(tx'[t])
    BY <1>0, <2>1, <2>2 DEF Call, Inv
  <2>4. Count'
    BY <1>0, <1>4, <2>1, EffectsCount DEF Count, Retry
  <2> QED BY <1>0, <2>1, <2>3, <2>4 DEF Inv, Call
<1>5. ASSUME Others
      PROVE  Inv'
  <2>1. events' \in 0 .. MaxEvents
    BY <1>0, <1>5 DEF Others, Count
  <2>2. ASSUME NEW t \in Calls, Kill(t)
        PROVE  Inv'
    <3>1. Count'
      BY <1>0, <2>1, <2>2, EffectsCount DEF Kill, Count
    <3>2. DOMAIN tx' = Calls /\ (\A u \in Calls : tx'[u] \in {tx[u], Free}) /\ db' = db
      BY <2>2 DEF Kill, Inv
    <3> QED BY <1>s, <3>1, <3>2, CallsGoOn
  <2>3. ASSUME NEW i \in Ids, Collect(i)
        PROVE  Inv'
    <3>1. Count'
      BY <1>0, <2>1, <2>3 DEF Collect, Count
    <3>2. DOMAIN tx' = Calls /\ (\A u \in Calls : tx'[u] \in {tx[u], Free}) /\ db' = db
      BY <2>3 DEF Collect, Inv
    <3> QED BY <1>s, <3>1, <3>2, CallsGoOn
  <2>4. ASSUME NEW p \in People, AddContact(p)
        PROVE  Inv'
    <3> DEFINE w == [db EXCEPT !.contact[p] = [is |-> TRUE, out |-> FALSE, from |-> {}, named |-> TRUE]]
    <3>1. /\ ~db.contact[p].is /\ db' = w /\ UNCHANGED <<tx, tries, ticks, files>>
      BY <2>4 DEF AddContact
    <3>2. /\ IsDb(w) /\ w.row = db.row /\ w.chan = db.chan
          /\ \A q \in People \ {p} : w.contact[q] = db.contact[q]
          /\ w.contact[p].is /\ w.contact[p].from = {}
      BY <1>0 DEF Sound, IsDb, IsPerson, Tables
    <3> HIDE DEF w
    <3>3. db.contact[p] = Stranger
      BY <1>0, <3>1 DEF Sound, PeopleWell
    <3>4. Before(db, w)
      BY <3>1, <3>2, <3>3 DEF Before, Stranger
    <3>5. RowsWell(w) /\ PeopleWell(w)
      BY <1>0, <3>2, <3>3 DEF Sound, RowsWell, PeopleWell
    <3>6. HeardIn(w)
      BY <1>0, <3>2, <3>1 DEF Sound, PeopleWell, HeardIn
    <3>7. RoutedIn(w)
      BY <1>0, <3>2, <3>1 DEF Sound, RoutedIn
    <3>8. Count'
      BY <1>0, <2>1, <3>1 DEF Count
    <3>9. DOMAIN tx' = Calls /\ \A u \in Calls : tx'[u] \in {tx[u], Free}
      BY <3>1 DEF Inv
    <3>10. Sound(db)' /\ Before(db, db')
      BY <3>1, <3>2, <3>4, <3>5, <3>6, <3>7 DEF Sound
    <3> QED BY <3>8, <3>9, <3>10, CallsGoOn
  <2>5. ASSUME NEW c \in Chats, Rename(c)
        PROVE  Inv'
    <3> DEFINE w == [db EXCEPT !.chan[c].name = "hand"]
    <3>1. /\ db' = w /\ UNCHANGED <<tx, tries, ticks, files>>
      BY <2>5 DEF Rename
    <3>2. /\ IsDb(w) /\ w.row = db.row /\ w.contact = db.contact
          /\ \A d \in Chats : w.chan[d].on = db.chan[d].on /\ w.chan[d].seen = db.chan[d].seen
      BY <1>0 DEF Sound, IsDb, IsChannel, Tables
    <3> HIDE DEF w
    <3>3. Sound(w) /\ Before(db, w)
      BY <1>0, <3>2 DEF Before, Sound, RowsWell, PeopleWell, HeardIn, RoutedIn
    <3>4. Count'
      BY <1>0, <2>1, <3>1 DEF Count
    <3>5. DOMAIN tx' = Calls /\ \A u \in Calls : tx'[u] \in {tx[u], Free}
      BY <3>1 DEF Inv
    <3> QED BY <3>1, <3>3, <3>4, <3>5, CallsGoOn
  <2> QED BY <1>5, <2>2, <2>3, <2>4, <2>5 DEF Others
<1>6. CASE UNCHANGED vars
  <2>1. Count'
    BY <1>0, <1>6 DEF Count, vars
  <2>2. DOMAIN tx' = Calls /\ \A u \in Calls : tx'[u] \in {tx[u], Free}
    BY <1>6 DEF vars, Inv
  <2> QED BY <1>s, <1>6, <2>1, <2>2, CallsGoOn DEF vars
<1> QED BY <1>1, <1>2, <1>3, <1>4, <1>5, <1>6 DEF Next

----------------------------------------------------------------------------
(* The theorems *)

LEMMA SpecInv == Spec => []Inv
  BY InitInv, NextInv, PTL DEF Spec

\* Every row the webhook and the media fetch store is well formed: media waits
\* only on a real copy with a file, a message that is not stored has no trace,
\* and a contact that has opted out is one.
THEOREM TypeCorrect == Spec => []TypeOK
<1>1. Inv => TypeOK
  BY DEF Inv, TypeOK, Sound, IsDb, IsRow, IsChannel, RowsWell, RowWell, PeopleWell, Stranger, Count
<1> QED BY SpecInv, <1>1, PTL

\* However many copies of a message arrive, are merged and fetched by however
\* many calls at a time, _deliver_inbound shows its content at most once, and
\* the empty stand-in of it at most once.
THEOREM NeverShownTwice == Spec => []ShownOnce
<1>1. Inv => ShownOnce
  BY DEF Inv, Sound, RowsWell, RowWell, ShownOnce
<1> QED BY SpecInv, <1>1, PTL

\* Content is shown only of a stored real copy, and of one with a file only
\* after action_fetch_media has stored the file.
THEOREM NeverShownInPart == Spec => []ShownWhole
<1>1. Inv => ShownWhole
  BY DEF Inv, Sound, RowsWell, RowWell, ShownWhole, Shown
<1> QED BY SpecInv, <1>1, PTL

\* The stored words of a contact that match an opt-out rule have flagged him:
\* neither the empty first copy nor a commit of another call loses the flag.
THEOREM StopIsHeard == Spec => []StopHeard
<1>1. Inv => StopHeard
  BY DEF Inv, Sound, HeardIn, StopHeard
<1> QED BY SpecInv, <1>1, PTL

\* A conversation that was routed as a known sender's was opened by someone who
\* was a contact already: not by the contact _wa_correspondent_partner creates
\* for that conversation, in this call or in one that lost the race to open it.
THEOREM RoutedRight == Spec => []RoutedAsArrived
<1>1. Inv => RoutedAsArrived
  BY DEF Inv, Sound, RoutedIn, RoutedAsArrived
<1> QED BY SpecInv, <1>1, PTL
==============================================================================
