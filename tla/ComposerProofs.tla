--------------------------- MODULE ComposerProofs ---------------------------
(***************************************************************************)
(* Theorems about Composer, for any records, contacts, numbers, groups,    *)
(* templates, spreadsheets and bounds.                                     *)
(*                                                                         *)
(* A spreadsheet is read row by row, and what has been read of it so far   *)
(* (Progress) is kept by a row that is passed over and by one that puts a  *)
(* contact on a list; so it holds of the whole.  A wizard is read again    *)
(* long after it was opened: what is invariant is that the text on it is   *)
(* the operator's, or was rendered from the only one of its records that   *)
(* can still be sent to (Speaks), for nothing that was deleted comes back  *)
(* (Ages), and that it knows when its template is gone (Named).  With      *)
(* these, a file is in a message once and the copies are as they were      *)
(* meant.                                                                  *)
(***************************************************************************)
EXTENDS Composer, Integers, FiniteSetTheorems, WellFoundedInduction, TLAPS

----------------------------------------------------------------------------
(* The types *)

\* A list by its name; a text; an open wizard.
ListStates == {"none", "active", "archived"}

Body == [of : (Models \cup {"none", "typed"}) \X Nat, name : [says : Nat, marks : {"live", "inert"}]]

Wizard == [on : {TRUE}, model : Models, ids : SUBSET Nat, files : {<<>>, << <<"own", 0>> >>},
           groups : SUBSET Groups, tmpl : {"none", "set", "gone"}, session : Sessions,
           phone : Phones, body : Body]

\* A template is in the menu of its model while it is active, and nowhere else.
TmplType(t) ==
    \/ t = NoTmpl
    \/ \E cfg \in Configs, active \in BOOLEAN :
                     t = Template(cfg, active, IF active THEN cfg.model ELSE "none")

\* Who is not there is nobody, and the lists people are on exist.
ContactType(cs, ls) ==
    /\ cs \in [Contacts -> Person] /\ ls \in [ListNames -> ListStates]
    /\ \A i \in Contacts : ~cs[i].is => cs[i] \in {NoContact, Gone}
    /\ \A i \in Contacts : cs[i].lists \subseteq {l \in ListNames : ls[l] # "none"}

\* TypeOK, and the types of the contacts and of the wizard.
TypeInv ==
    /\ TmplType(tmpl)
    /\ groups \subseteq Groups /\ orders \subseteq Orders
    /\ ContactType(contact, lists) /\ Unique(contact)
    /\ wiz = NoWiz \/ (wiz \in Wizard /\ wiz.ids # {})
    /\ last.kind \in {"none", "send", "import"} /\ events \in 0 .. MaxEvents

\* What was on the record when the wizard was opened, and what of it is left: a
\* rendered text is that of the one record that can still be sent to.
Speaks(w) ==
    \E i \in Nat : /\ w.body.of = <<w.model, i>> /\ Surviving(w) \subseteq {i}
                   /\ w.body.name.says # 0 => w.body.name.marks = "inert"

\* Its records were there, and its text speaks for the one that is left.
WizSays(w) ==
    /\ w.model = "order" => w.ids \subseteq Orders
    /\ w.model = "contact" => \A i \in w.ids : i \in Contacts /\ contact[i] # NoContact
    /\ w.body \notin {Blank, Own} => Speaks(w)

WizInv == wiz.on => WizSays(wiz)

----------------------------------------------------------------------------
(* Constants and records *)

\* A set of naturals has a least element.
LEMMA LeastExists ==
    ASSUME NEW S, S \subseteq Nat, S # {}
    PROVE  \E m \in S : \A k \in S : m <= k
<1> DEFINE R == {ss \in Nat \X Nat : ss[1] < ss[2]}
<1>1. IsWellFoundedOn(R, Nat)
  BY NatLessThanWellFounded DEF OpToRel
<1> HIDE DEF R
<1>2. \E x \in S : \A y \in S : ~(<<y, x>> \in R)
  BY <1>1, WFMin
<1>3. PICK x \in S : \A y \in S : ~(<<y, x>> \in R)
  BY <1>2
<1>4. ASSUME NEW y \in S PROVE x <= y
  <2>1. x \in Nat /\ y \in Nat /\ <<y, x>> \notin R
    BY <1>3
  <2>2. <<y, x>> \in Nat \X Nat /\ <<y, x>>[1] = y /\ <<y, x>>[2] = x
    BY <2>1
  <2>3. y < x => <<y, x>> \in R
    BY <2>2 DEF R
  <2> QED BY <2>1, <2>3
<1> QED BY <1>4

\* MinOf picks the least.
LEMMA MinOfFacts ==
    ASSUME NEW S, S \subseteq Nat, S # {}
    PROVE  MinOf(S) \in S /\ \A k \in S : MinOf(S) <= k
  BY LeastExists DEF MinOf

\* What the assumption says of single constants.
LEMMA Counts ==
    /\ MaxContact \in Nat /\ MaxOrder \in Nat /\ MaxEvents \in Nat
    /\ Names \subseteq Nat \ {0} /\ Numeral \in Nat /\ Sessions # {}
    /\ Numbers \cup {"none", "gone"} \subseteq Phones /\ {"none", "gone"} \cap Numbers = {}
    /\ "none" \notin ListNames /\ Groups \cap (Numbers \cup {"none"}) = {}
    /\ GroupSession \in [Groups -> Sessions] /\ ActionModel \in Models /\ Typed \in Numbers
  BY ComposerAssumption

\* Ids are numbers, finitely many; a record that is not there is on no list.
LEMMA Records ==
    /\ Contacts \subseteq Nat /\ Orders \subseteq Nat
    /\ IsFiniteSet(Contacts) /\ IsFiniteSet(Orders)
    /\ NoContact \in Person /\ Gone \in Person /\ Gone # NoContact
    /\ ~NoContact.is /\ ~Gone.is /\ NoContact.lists = {} /\ Gone.lists = {}
<1>1. IsFiniteSet(Contacts) /\ IsFiniteSet(Orders) /\ Contacts \subseteq Nat /\ Orders \subseteq Nat
  <2>1. MaxContact \in Int /\ MaxOrder \in Int /\ 1 \in Int
    BY Counts
  <2>2. IsFiniteSet(1 .. MaxContact)
    BY <2>1, FS_Interval
  <2>3. IsFiniteSet(1 .. MaxOrder)
    BY <2>1, FS_Interval
  <2> QED BY <2>2, <2>3 DEF Contacts, Orders
<1>2. NoContact \in Person /\ ~NoContact.is /\ NoContact.lists = {} /\ NoContact.phone = "none"
  BY Counts DEF NoContact, Person
<1>3. Gone \in Person /\ Gone.phone = "gone" /\ ~Gone.is /\ Gone.lists = {}
  BY Counts DEF Gone, NoContact, Person
<1> QED BY <1>1, <1>2, <1>3

\* What a manager may write into a template.
LEMMA CfgTypes ==
    ASSUME NEW cfg \in Configs
    PROVE  /\ cfg.session \in Sessions \cup {"none"} /\ cfg.model \in Models /\ cfg.field \in Nat
           /\ cfg.groups \subseteq Groups /\ cfg.report \in Models \cup {"none"}
           /\ cfg.files \in Seq(Documents) /\ IsInjective(cfg.files)
<1>1. cfg \in Config
  BY ComposerAssumption
<1> QED BY <1>1, ComposerAssumption DEF Config

\* A template holds what a manager wrote, and is in the menu while it is active.
LEMMA TmplFields ==
    ASSUME TmplType(tmpl), tmpl.is
    PROVE  /\ tmpl.session \in Sessions \cup {"none"} /\ tmpl.model \in Models /\ tmpl.field \in Nat
           /\ tmpl.groups \subseteq Groups /\ tmpl.report \in Models \cup {"none"}
           /\ tmpl.files \in Seq(Documents) /\ IsInjective(tmpl.files)
           /\ tmpl.active \in BOOLEAN /\ tmpl.menu = (IF tmpl.active THEN tmpl.model ELSE "none")
<1>1. tmpl # NoTmpl
  BY DEF NoTmpl
<1>2. PICK cfg \in Configs, active \in BOOLEAN : tmpl = Template(cfg, active, IF active THEN cfg.model ELSE "none")
  BY <1>1 DEF TmplType
<1> QED BY <1>2, CfgTypes DEF Template

\* A template that does not exist is in no menu.
LEMMA NoTmplIsOff == /\ ~NoTmpl.is /\ ~NoTmpl.active /\ NoTmpl.menu = "none"
  BY DEF NoTmpl

\* The number a record has is a phone, the text rendered from it a body of its own.
LEMMA Lines ==
    ASSUME TypeInv, NEW m \in Models, NEW i, Exists(m, i)
    PROVE  /\ i \in Nat /\ Columns(m, i) \in Seq(Phones) /\ Probe(m, i) \in Phones
           /\ tmpl.is => ResolvePhone(m, i) \in Phones
           /\ NameOf(m, i) \in Nat
<1>1. i \in Nat /\ Columns(m, i) \in Seq(Phones) /\ NameOf(m, i) \in Nat
  <2>1. CASE m = "order"
    <3>1. i \in Orders
      BY <2>1 DEF Exists, TypeInv
    <3>2. OrderPhones[i] \in Seq(Phones) /\ OrderName[i] \in Nat
      BY <3>1, ComposerAssumption
    <3> QED BY <2>1, <3>1, <3>2, Records DEF Columns, NameOf
  <2>2. CASE m = "contact"
    <3>1. i \in Contacts /\ contact[i] \in Person
      BY <2>2 DEF Exists, TypeInv, ContactType
    <3>2. contact[i].phone \in Phones /\ contact[i].name \in Nat
      BY <3>1 DEF Person
    <3> QED BY <2>2, <3>1, <3>2, Records DEF Columns, NameOf
  <2> QED BY <2>1, <2>2 DEF Models
<1> DEFINE cols == Columns(m, i)
<1>2. "none" \in Phones
  BY Counts
<1>3. Probe(m, i) \in Phones
  <2> DEFINE filled == {k \in DOMAIN cols : cols[k] # "none"}
  <2>1. filled \subseteq Nat /\ \A k \in filled : cols[k] \in Phones
    BY <1>1
  <2>2. Probe(m, i) = (IF filled = {} THEN "none" ELSE cols[MinOf(filled)])
    BY DEF Probe
  <2> HIDE DEF filled, cols
  <2> QED BY <1>2, <2>1, <2>2, MinOfFacts
<1>4. ASSUME tmpl.is PROVE ResolvePhone(m, i) \in Phones
  <2>1. tmpl.field \in Nat
    BY <1>4, TmplFields DEF TypeInv
  <2>2. tmpl.field \in DOMAIN cols => cols[tmpl.field] \in Phones
    BY <1>1
  <2> QED BY <1>2, <1>3, <2>1, <2>2 DEF ResolvePhone
<1> QED BY <1>1, <1>3, <1>4

\* A rendered text names its record, and a marker in the name is inert.
LEMMA Rendered ==
    ASSUME NEW m \in Models, NEW i \in Nat, NameOf(m, i) \in Nat
    PROVE  /\ RenderBody(m, i) \in Body /\ RenderBody(m, i).of = <<m, i>>
           /\ RenderBody(m, i).name.says = NameOf(m, i)
           /\ RenderBody(m, i).name.says # 0 => RenderBody(m, i).name.marks = "inert"
           /\ RenderBody(m, i) \notin {Blank, Own}
<1>1. RenderBody(m, i).of = <<m, i>>
  BY DEF RenderBody
<1>2. RenderBody(m, i) \notin {Blank, Own}
  <2>1. Blank.of[1] = "none" /\ Own.of[1] = "typed" /\ RenderBody(m, i).of[1] = m
    BY <1>1 DEF Blank, Own
  <2> QED BY <2>1 DEF Models
<1>3. RenderBody(m, i).name = (IF NameOf(m, i) = 0 THEN Author ELSE Escape(NameOf(m, i)))
  BY DEF RenderBody
<1>4. /\ Author \in [says : Nat, marks : {"live", "inert"}] /\ Author.says = 0
      /\ Escape(NameOf(m, i)) \in [says : Nat, marks : {"live", "inert"}]
      /\ Escape(NameOf(m, i)).says = NameOf(m, i) /\ Escape(NameOf(m, i)).marks = "inert"
  BY DEF Author, Escape
<1>5. RenderBody(m, i) \in Body
  <2>1. RenderBody(m, i) = [of |-> <<m, i>>, name |-> RenderBody(m, i).name]
    BY DEF RenderBody
  <2> QED BY <1>3, <1>4, <2>1 DEF Body
<1> QED BY <1>1, <1>2, <1>3, <1>4, <1>5

\* No text, and what an operator types, are two texts.
LEMMA Words == Blank \in Body /\ Own \in Body /\ Blank # Own
<1>1. Author \in [says : Nat, marks : {"live", "inert"}]
  BY DEF Author
<1>2. Blank.of[1] = "none" /\ Own.of[1] = "typed"
  BY DEF Blank, Own
<1> QED BY <1>1, <1>2 DEF Blank, Own, Body

\* One record.
LEMMA OneRecord ==
    ASSUME NEW S, S \subseteq Contacts \/ S \subseteq Orders
    PROVE  Cardinality(S) = 1 => \E i \in S : S = {i} /\ i = CHOOSE j \in S : TRUE
<1>1. IsFiniteSet(S)
  BY Records, FS_Subset
<1>2. ASSUME Cardinality(S) = 1 PROVE \E i : S = {i}
  BY <1>1, <1>2, FS_Singleton
<1> QED BY <1>2

\* The text is rendered from the only record there is.
OnlyText(w, ids) == \E i \in ids : ids = {i} /\ w.body = RenderBody(tmpl.model, i) /\ Exists(tmpl.model, i)

\* A wizard as it is opened, by an operator, a choice of template or an automation.
Opened(w, m, ids, useTmpl) ==
    /\ w \in Wizard /\ w.on /\ w.ids = ids /\ w.model = m /\ w.tmpl = (IF useTmpl THEN "set" ELSE "none")
    /\ ids \subseteq (IF m = "order" THEN Orders ELSE Contacts)
    /\ w.body # Blank => useTmpl /\ OnlyText(w, ids)

\* The wizard opens with what the request named, and with a text only for one record.
LEMMA FreshType ==
    ASSUME TypeInv, NEW m \in Models, NEW ids \in SUBSET Nat, ids # {}, NEW useTmpl \in BOOLEAN,
           useTmpl => tmpl.is, \A i \in ids : Exists(m, i)
    PROVE  Opened(Fresh(m, ids, useTmpl), m, ids, useTmpl)
<1> DEFINE w == Fresh(m, ids, useTmpl)
           one == CHOOSE i \in ids : TRUE
<1>1. ids \subseteq (IF m = "order" THEN Orders ELSE Contacts) /\ ids \subseteq Nat
  BY Records DEF Exists, TypeInv
<1>2. one \in ids
  OBVIOUS
<1>3. w.body \in Body
  <2>1. CASE useTmpl /\ Exists(tmpl.model, one)
    <3>1. tmpl.model \in Models
      BY <2>1, TmplFields DEF TypeInv
    <3>2. RenderBody(tmpl.model, one) \in Body
      BY <2>1, <3>1, Lines, Rendered
    <3> QED BY <3>2, Words DEF Fresh
  <2>2. CASE ~(useTmpl /\ Exists(tmpl.model, one))
    BY <2>2, Words DEF Fresh
  <2> QED BY <2>1, <2>2
<1>4. w.phone \in Phones
  <2>1. Probe(m, one) \in Phones /\ "none" \in Phones /\ (useTmpl => ResolvePhone(m, one) \in Phones)
    BY <1>2, Lines, Counts
  <2> QED BY <2>1 DEF Fresh
<1>5. w.session \in Sessions
  <2>1. (CHOOSE s \in Sessions : TRUE) \in Sessions
    BY Counts
  <2>2. useTmpl => tmpl.session \in Sessions \cup {"none"}
    BY TmplFields DEF TypeInv
  <2> QED BY <2>1, <2>2 DEF Fresh
<1>6. w.groups \subseteq Groups
  BY TmplFields DEF Fresh, TypeInv
<1>7. /\ w = [on |-> TRUE, model |-> m, ids |-> ids, files |-> <<>>, groups |-> w.groups,
              tmpl |-> (IF useTmpl THEN "set" ELSE "none"), session |-> w.session, phone |-> w.phone,
              body |-> w.body]
  BY DEF Fresh
<1>8. ASSUME w.body # Blank
      PROVE  useTmpl /\ OnlyText(w, ids)
  <2>1. Cardinality(ids) = 1 /\ useTmpl /\ Exists(tmpl.model, one) /\ w.body = RenderBody(tmpl.model, one)
    BY <1>8 DEF Fresh
  <2>2. ids = {one}
    BY <1>1, <2>1, OneRecord
  <2> QED BY <1>2, <2>1, <2>2 DEF OnlyText
<1> HIDE DEF w
<1>9. w \in Wizard
  <2> DEFINE files == <<>>
             state == IF useTmpl THEN "set" ELSE "none"
  <2>1. /\ files \in {<<>>, << <<"own", 0>> >>} /\ state \in {"none", "set", "gone"}
        /\ ids \in SUBSET Nat
    BY <1>1
  <2>2. w = [on |-> TRUE, model |-> m, ids |-> ids, files |-> files, groups |-> w.groups,
             tmpl |-> state, session |-> w.session, phone |-> w.phone, body |-> w.body]
    BY <1>7
  <2> DEFINE gs == w.groups
             session == w.session
             phone == w.phone
             body == w.body
  <2>3. gs \in SUBSET Groups /\ session \in Sessions /\ phone \in Phones /\ body \in Body
    BY <1>3, <1>4, <1>5, <1>6
  <2>4. w = [on |-> TRUE, model |-> m, ids |-> ids, files |-> files, groups |-> gs,
             tmpl |-> state, session |-> session, phone |-> phone, body |-> body]
    BY <2>2
  <2> HIDE DEF files, state, gs, session, phone, body
  <2> QED BY <2>1, <2>3, <2>4 DEF Wizard
<1>10. w.ids = ids /\ w.model = m /\ w.tmpl = (IF useTmpl THEN "set" ELSE "none") /\ w.on
  BY <1>7
<1>11. Opened(w, m, ids, useTmpl)
  BY <1>1, <1>8, <1>9, <1>10 DEF Opened
<1> QED BY <1>11 DEF w

----------------------------------------------------------------------------
(* Reading a spreadsheet *)

\* The list that the rows above name.
Current(file, k) ==
    LET above == {j \in 1 .. k : file[j].list # "none"}
    IN  IF above = {} THEN "none" ELSE file[CHOOSE j \in above : \A h \in above : h <= j].list

\* How far a spreadsheet has been read.
Reads == [contact : [Contacts -> Person], lists : [ListNames -> ListStates],
          current : ListNames \cup {"none"}, seen : SUBSET Numbers, ok : BOOLEAN,
          created : Nat, updated : Nat, skipped : Nat]

\* Nothing of it yet.
Start == [contact |-> contact, lists |-> lists, current |-> "none", seen |-> {}, ok |-> TRUE,
          created |-> 0, updated |-> 0, skipped |-> 0]

\* The numbers up to a row, and the rows that bring them in.
PhonesTo(file, default, k) == {file[j].phone : j \in {h \in Usable(file, default) : h <= k}}
FirstTo(file, default, k)  == {h \in FirstRows(file, default) : h <= k}

\* A contact is as it was, or has one of the numbers that were read: his own, or
\* a new contact's.
Kept(s, i) ==
    \/ s.contact[i] = contact[i]
    \/ /\ s.contact[i].is /\ s.contact[i].phone \in s.seen
       /\ contact[i] = NoContact \/ (contact[i].is /\ contact[i].phone = s.contact[i].phone)

\* A row has done what it says.
Done(s, file, j, default, update) ==
    \E i \in Carriers(s.contact, file[j].phone) :
        /\ s.contact[i].active
        /\ s.contact[i].lists = contact[i].lists \cup {Governing(file, j, default)}
        /\ s.contact[i].out = contact[i].out
        /\ update \/ ~contact[i].is \/ s.contact[i].name = contact[i].name

\* What holds after k rows.
Progress(s, k, file, default, update) ==
    /\ s \in Reads /\ ContactType(s.contact, s.lists)
    /\ s.ok => Unique(s.contact)
    /\ \A l \in ListNames \cap {s.current, default} : s.lists[l] # "none"
    /\ s.current = Current(file, k)
    /\ s.seen = PhonesTo(file, default, k)
    /\ s.created + s.updated = Cardinality(FirstTo(file, default, k))
    /\ s.created + s.updated + s.skipped = k
    /\ \A i \in Contacts : Kept(s, i)
    /\ \A i \in Contacts : contact[i] = NoContact /\ s.contact[i].is =>
          \A n \in {s.contact[i].phone} : Carriers(contact, n) = {} /\ Carriers(s.contact, n) = {i}
    /\ \A j \in FirstRows(file, default) : j <= k => Done(s, file, j, default, update)
    /\ Cardinality(Free(s.contact)) + Cardinality({n \in s.seen : Carriers(contact, n) = {}})
         = Cardinality(Free(contact))

\* The last of the rows that name a list.
LEMMA LastExists ==
    ASSUME NEW k \in Nat, NEW S, S \subseteq 1 .. k, S # {}
    PROVE  \E m \in S : \A j \in S : j <= m
<1> DEFINE T == {k - j : j \in S}
<1>1. T \subseteq Nat /\ T # {}
  <2>1. \A j \in S : j \in Nat /\ j <= k
    OBVIOUS
  <2>2. \A j \in S : k - j \in Nat
    BY <2>1
  <2> QED BY <2>2
<1>2. PICK m \in T : \A j \in T : m <= j
  BY <1>1, LeastExists
<1>3. PICK x \in S : m = k - x
  BY <1>2
<1>4. ASSUME NEW j \in S PROVE j <= x
  <2>1. k - x <= k - j
    BY <1>2, <1>3
  <2> QED BY <2>1
<1> QED BY <1>4

\* The list that is current after a row is that of the row, or of the one above.
LEMMA CurrentStep ==
    ASSUME NEW file \in Seq(Row), NEW k \in 1 .. Len(file)
    PROVE  Current(file, k) = (IF file[k].list = "none" THEN Current(file, k - 1) ELSE file[k].list)
<1> DEFINE above(n) == {j \in 1 .. n : file[j].list # "none"}
<1>1. CASE file[k].list = "none"
  <2>1. above(k) = above(k - 1)
    BY <1>1
  <2>2. \A n : Current(file, n) = (IF above(n) = {} THEN "none"
                                 ELSE file[CHOOSE j \in above(n) : \A h \in above(n) : h <= j].list)
    BY DEF Current
  <2> HIDE DEF above
  <2> QED BY <1>1, <2>1, <2>2
<1>2. CASE file[k].list # "none"
  <2>1. k \in above(k) /\ \A j \in above(k) : j <= k
    BY <1>2
  <2>2. \A j \in above(k) : (\A h \in above(k) : h <= j) => j = k
    BY <2>1
  <2> HIDE DEF above
  <2>3. (CHOOSE j \in above(k) : \A h \in above(k) : h <= j) = k
    BY <2>1, <2>2
  <2> QED BY <1>2, <2>1, <2>3 DEF Current, above
<1> QED BY <1>1, <1>2

\* A row is governed by the list that is current, or else by the wizard's.
LEMMA CurrentIs ==
    ASSUME NEW file \in Seq(Row), NEW k \in 0 .. Len(file), NEW default
    PROVE  /\ Current(file, k) \in ListNames \cup {"none"} /\ Current(file, 0) = "none"
           /\ Governing(file, k, default) = (IF Current(file, k) = "none" THEN default ELSE Current(file, k))
<1> DEFINE above == {j \in 1 .. k : file[j].list # "none"}
           top == CHOOSE j \in above : \A h \in above : h <= j
<1>1. Current(file, 0) = "none"
  BY DEF Current
<1>2. \A j \in 1 .. k : file[j] \in Row
  OBVIOUS
<1>3. CASE above = {}
  BY <1>1, <1>3 DEF Current, Governing
<1>4. CASE above # {}
  <2>1. k \in Nat /\ above \subseteq 1 .. k
    OBVIOUS
  <2> HIDE DEF above
  <2>2. top \in above
    BY <1>4, <2>1, LastExists
  <2>3. Current(file, k) = file[top].list /\ Governing(file, k, default) = file[top].list
    BY <1>4 DEF Current, Governing, above
  <2>4. file[top].list # "none" /\ file[top].list \in ListNames \cup {"none"}
    BY <1>2, <2>1, <2>2 DEF above, Row
  <2> QED BY <1>1, <2>3, <2>4
<1> QED BY <1>3, <1>4

\* A row that is not passed over for its list or its phone.
UsableRow(file, default, k) == Governing(file, k, default) # "none" /\ file[k].phone \in Numbers

\* What a row that is read next is.
LEMMA RowIs ==
    ASSUME NEW file \in Seq(Row), NEW default \in ListNames \cup {"none"}, NEW k \in 1 .. Len(file),
           NEW seen \in SUBSET Numbers, seen = PhonesTo(file, default, k - 1)
    PROVE  /\ PhonesTo(file, default, k)
                = seen \cup (IF UsableRow(file, default, k) THEN {file[k].phone} ELSE {})
           /\ k \in FirstRows(file, default) <=> UsableRow(file, default, k) /\ file[k].phone \notin seen
           /\ FirstTo(file, default, k) = FirstTo(file, default, k - 1)
                \cup (IF UsableRow(file, default, k) /\ file[k].phone \notin seen THEN {k} ELSE {})
           /\ UsableRow(file, default, k) /\ file[k].phone \notin seen =>
                 \A j \in FirstTo(file, default, k - 1) : file[j].phone # file[k].phone
<1> DEFINE n == file[k].phone
           usable == UsableRow(file, default, k)
           U == Usable(file, default)
           F == FirstRows(file, default)
<1>1. DOMAIN file = 1 .. Len(file) /\ Len(file) \in Nat
  OBVIOUS
<1>2. k \in U <=> usable
  BY <1>1 DEF Usable, UsableRow
<1>3. F \subseteq U /\ U \subseteq 1 .. Len(file)
  BY <1>1 DEF Usable, FirstRows
<1>4. k \in F <=> k \in U /\ \A j \in U : j < k => file[j].phone # n
  BY DEF FirstRows
<1> HIDE DEF n, U, F, usable
<1>5. \A j \in U : j <= k <=> j <= k - 1 \/ j = k
  BY <1>3
<1>6. \A j \in U : j < k <=> j <= k - 1
  BY <1>3
<1>7. seen = {file[j].phone : j \in {h \in U : h <= k - 1}}
  BY DEF U, PhonesTo
<1>8. k \in F <=> usable /\ n \notin seen
  BY <1>2, <1>4, <1>6, <1>7
<1>9. {file[j].phone : j \in {h \in U : h <= k}} = seen \cup (IF usable THEN {n} ELSE {})
  BY <1>2, <1>5, <1>7 DEF n
<1>10. {h \in F : h <= k} = {h \in F : h <= k - 1} \cup (IF usable /\ n \notin seen THEN {k} ELSE {})
  BY <1>3, <1>5, <1>8
<1>11. usable /\ n \notin seen => \A j \in {h \in F : h <= k - 1} : file[j].phone # n
  BY <1>3, <1>7
<1> QED BY <1>8, <1>9, <1>10, <1>11 DEF n, usable, U, F, PhonesTo, FirstTo

\* The order of name and id has a first in every set of contacts.
LEMMA FirstExists ==
    ASSUME NEW cs \in [Contacts -> Person], NEW S, S \subseteq Contacts, S # {}
    PROVE  FirstOf(cs, S) \in S
<1> DEFINE names == {cs[i].name : i \in S}
<1>1. \A i \in S : i \in Nat /\ cs[i].name \in Nat
  BY Records DEF Person
<1>2. PICK a \in names : \A b \in names : a <= b
  <2>1. names \subseteq Nat /\ names # {}
    BY <1>1
  <2> HIDE DEF names
  <2> QED BY <2>1, LeastExists
<1> DEFINE T == {i \in S : cs[i].name = a}
<1>3. PICK x \in T : \A y \in T : x <= y
  <2>1. T \subseteq Nat /\ T # {}
    BY <1>1, <1>2
  <2> HIDE DEF T
  <2> QED BY <2>1, LeastExists
<1>4. \A j \in S : cs[x].name < cs[j].name \/ (cs[x].name = cs[j].name /\ x <= j)
  BY <1>1, <1>2, <1>3
<1> QED BY <1>3, <1>4 DEF FirstOf

\* A set of contacts is finite.
LEMMA Finite ==
    ASSUME NEW S, S \subseteq Contacts
    PROVE  IsFiniteSet(S) /\ Cardinality(S) \in Nat
  BY Records, FS_Subset, FS_CardinalityType

\* The phones of a spreadsheet are finitely many.
LEMMA PhonesFinite ==
    ASSUME NEW file \in Seq(Row)
    PROVE  IsFiniteSet({file[k].phone : k \in DOMAIN file})
<1> DEFINE P == {file[k].phone : k \in DOMAIN file}
           f == [k \in 1 .. Len(file) |-> file[k].phone]
<1>1. DOMAIN file = 1 .. Len(file) /\ Len(file) \in Int /\ 1 \in Int
  OBVIOUS
<1>2. f \in Surjection(1 .. Len(file), P)
  BY <1>1 DEF Surjection
<1>3. IsFiniteSet(1 .. Len(file))
  BY <1>1, FS_Interval
<1> HIDE DEF f, P
<1>4. IsFiniteSet(P)
  BY <1>2, <1>3, FS_Surjection
<1> QED BY <1>4 DEF P

\* The contact a row is for.
Choice(cs, n) == IF Known(cs, n) = {} THEN MinOf(Free(cs)) ELSE FirstOf(cs, Known(cs, n))

\* It is the carrier of the number, or one that is not given yet.
Finds(cs, i, n) ==
    /\ i \in Contacts
    /\ Known(cs, n) = {} => cs[i] = NoContact
    /\ Known(cs, n) # {} => cs[i].is /\ cs[i].phone = n

\* Nothing was done to it yet.
Same(cs, i) == cs[i] = contact[i]

\* A contact after a row put him on a list: his new self beside his old one.
Joins(old, c, n, target, update) ==
    /\ c \in Person /\ c.is /\ c.phone = n /\ c.active
    /\ c.lists = old.lists \cup {target} /\ c.out = old.out
    /\ update \/ ~old.is \/ c.name = old.name

\* That contact was written, and no other.
Joined(cs, ds, i, n, target, update) ==
    \E c \in Person : Joins(cs[i], c, n, target, update) /\ ds = [cs EXCEPT ![i] = c]

\* What a usable row finds: its known contact, or a free id.
LEMMA Target ==
    ASSUME TypeInv, NEW file \in Seq(Row), Fits(file), NEW default \in ListNames \cup {"none"},
           NEW update \in BOOLEAN, NEW k \in 1 .. Len(file), NEW s \in Reads,
           Progress(s, k - 1, file, default, update),
           NEW n \in Numbers, n = file[k].phone, n \notin s.seen
    PROVE  /\ Finds(s.contact, Choice(s.contact, n), n) /\ Same(s.contact, Choice(s.contact, n))
           /\ Known(s.contact, n) = Carriers(contact, n)
<1> DEFINE known == Known(s.contact, n)
<1>1. s.contact \in [Contacts -> Person] /\ contact \in [Contacts -> Person]
  BY DEF Progress, ContactType, TypeInv
<1>2. \A i \in Contacts : Kept(s, i)
  BY DEF Progress
<1>3. known = Carriers(contact, n) /\ \A i \in known : s.contact[i] = contact[i]
  BY <1>2, Records DEF Kept, Known, Carriers
<1>4. CASE known # {}
  <2>1. known \subseteq Contacts
    BY DEF Known, Carriers
  <2>2. FirstOf(s.contact, known) \in known
    <3> HIDE DEF known
    <3> QED BY <1>1, <1>4, <2>1, FirstExists
  <2>3. \A i \in known : contact[i].is /\ contact[i].phone = n
    BY <1>3 DEF Carriers
  <2>4. Choice(s.contact, n) \in known
    BY <1>4, <2>2 DEF Choice
  <2>5. Same(s.contact, Choice(s.contact, n))
    BY <1>3, <2>4 DEF Same
  <2>6. Finds(s.contact, Choice(s.contact, n), n)
    BY <1>3, <1>4, <2>1, <2>3, <2>4 DEF Finds
  <2> QED BY <1>3, <2>5, <2>6
<1>5. CASE known = {}
  <2> DEFINE new == {x \in s.seen : Carriers(contact, x) = {}}
             P == {file[j].phone : j \in DOMAIN file} \ {contact[i].phone : i \in Contacts}
             free == Free(s.contact)
  <2>1. \A i \in Contacts : contact[i].phone \notin Numbers \/ contact[i].is
    BY Counts DEF TypeInv, ContactType, NoContact, Gone
  <2>2. \A x \in Numbers : Carriers(contact, x) = {} => x \notin {contact[i].phone : i \in Contacts}
    BY <2>1 DEF Carriers
  <2>3. s.seen \subseteq Numbers /\ s.seen \subseteq {file[j].phone : j \in DOMAIN file}
    <3>1. s.seen = PhonesTo(file, default, k - 1) /\ s \in Reads
      BY DEF Progress
    <3> QED BY <3>1 DEF Usable, Reads, PhonesTo
  <2>4. new \cup {n} \subseteq P /\ n \notin new
    <3>1. k \in DOMAIN file /\ Carriers(contact, n) = {}
      BY <1>3, <1>5
    <3>2. n \in P
      BY <2>2, <3>1
    <3>3. new \subseteq P
      BY <2>2, <2>3
    <3> QED BY <3>2, <3>3
  <2>5. IsFiniteSet(P)
    <3>1. P \subseteq {file[j].phone : j \in DOMAIN file}
      OBVIOUS
    <3> HIDE DEF P
    <3> QED BY <3>1, PhonesFinite, FS_Subset
  <2>6. Cardinality(P) <= Cardinality(Free(contact))
    BY DEF Fits
  <2>7. Cardinality(free) + Cardinality(new) = Cardinality(Free(contact))
    BY DEF Progress
  <2>8. free \subseteq Contacts /\ Free(contact) \subseteq Contacts
    BY DEF Free
  <2> HIDE DEF new, P, free, known
  <2>9. IsFiniteSet(new) /\ IsFiniteSet(new \cup {n}) /\ Cardinality(new \cup {n}) <= Cardinality(P)
    BY <2>4, <2>5, FS_Subset
  <2>10. Cardinality(new \cup {n}) = Cardinality(new) + 1 /\ Cardinality(new) \in Nat /\ Cardinality(P) \in Nat
    BY <2>4, <2>5, <2>9, FS_AddElement, FS_CardinalityType
  <2>11. Cardinality(free) \in Nat /\ Cardinality(Free(contact)) \in Nat
    BY <2>8, Finite
  <2>12. Cardinality(free) # 0
    BY <2>6, <2>7, <2>9, <2>10, <2>11
  <2>13. free # {}
    BY <2>12, FS_EmptySet
  <2>14. MinOf(free) \in free
    BY <2>8, <2>13, MinOfFacts, Records
  <2>15. MinOf(free) \in Contacts /\ s.contact[MinOf(free)] = NoContact
    BY <2>14 DEF free, Free
  <2>16. contact[MinOf(free)] = NoContact
    BY <1>2, <2>15, Records DEF Kept
  <2>17. Choice(s.contact, n) = MinOf(free)
    BY <1>5 DEF Choice, free, known
  <2> QED BY <1>3, <1>5, <2>15, <2>16, <2>17 DEF known, Finds, Same
<1> QED BY <1>4, <1>5

\* The list a row names is made, and is the list of the rows below.
Listed(s, row) ==
    LET named == IF row.list = "none" THEN s.current ELSE row.list
    IN  IF named = "none" THEN s
        ELSE [s EXCEPT !.current = named, !.lists[named] = "active",
                       !.ok = @ /\ s.lists[named] # "archived"]

\* Making the list of a row disturbs nothing else.
LEMMA ListedKeeps ==
    ASSUME NEW s \in Reads, NEW row \in Row, ContactType(s.contact, s.lists),
           NEW default \in ListNames \cup {"none"},
           \A l \in ListNames \cap {s.current, default} : s.lists[l] # "none"
    PROVE  LET q == Listed(s, row)
           IN  /\ q \in Reads /\ q.contact = s.contact /\ q.seen = s.seen /\ q.created = s.created
               /\ q.updated = s.updated /\ q.skipped = s.skipped /\ (q.ok => s.ok)
               /\ q.current = (IF row.list = "none" THEN s.current ELSE row.list)
               /\ ContactType(q.contact, q.lists)
               /\ \A l \in ListNames \cap {q.current, default} : q.lists[l] # "none"
<1> DEFINE named == IF row.list = "none" THEN s.current ELSE row.list
           q == Listed(s, row)
<1>1. row.list \in ListNames \cup {"none"} /\ s.current \in ListNames \cup {"none"}
  BY DEF Row, Reads
<1>2. CASE named = "none"
  <2>1. q = s /\ s.current = "none" /\ row.list = "none"
    BY <1>1, <1>2, Counts DEF Listed
  <2> QED BY <2>1
<1>3. CASE named # "none"
  <2>1. named \in ListNames
    BY <1>1, <1>3
  <2> HIDE DEF named
  <2>2. q = [s EXCEPT !.current = named, !.lists[named] = "active",
                      !.ok = s.ok /\ s.lists[named] # "archived"]
    BY <1>3 DEF Listed, named
  <2> DEFINE ls == [s.lists EXCEPT ![named] = "active"]
             ok == s.ok /\ s.lists[named] # "archived"
  <2>3. s.lists \in [ListNames -> ListStates] /\ s.ok \in BOOLEAN
    BY DEF Reads
  <2>4. ls \in [ListNames -> ListStates] /\ ls[named] = "active" /\ \A l \in ListNames : s.lists[l] # "none" => ls[l] # "none"
    BY <2>1, <2>3 DEF ListStates
  <2>5. q = [s EXCEPT !.current = named, !.lists = ls, !.ok = ok] /\ ok \in BOOLEAN
    BY <2>2, <2>3 DEF Reads
  <2> HIDE DEF ls, q
  <2>6. q \in Reads /\ q.contact = s.contact /\ q.seen = s.seen /\ q.created = s.created
        /\ q.updated = s.updated /\ q.skipped = s.skipped /\ q.current = named /\ q.lists = ls
    <3> HIDE DEF ok
    <3> QED BY <2>1, <2>4, <2>5 DEF Reads
  <2>7. q.ok => s.ok
    <3>1. q.ok = ok
      <4> HIDE DEF ok
      <4> QED BY <2>5 DEF Reads
    <3> QED BY <3>1
  <2>8. ContactType(q.contact, q.lists)
    <3>1. \A i \in Contacts : s.contact[i].lists \subseteq {l \in ListNames : ls[l] # "none"}
      BY <2>4 DEF ContactType
    <3> QED BY <2>4, <2>6, <3>1 DEF ContactType
  <2>9. \A l \in ListNames \cap {q.current, default} : q.lists[l] # "none"
    BY <2>4, <2>6
  <2> QED BY <2>6, <2>7, <2>8, <2>9 DEF q, named
<1> QED BY <1>2, <1>3

\* A row that is passed over.
Passed(q) == [q EXCEPT !.skipped = @ + 1]

\* How a row is read.
LEMMA RowReading ==
    ASSUME NEW file \in Seq(Row), NEW default \in ListNames \cup {"none"}, NEW update \in BOOLEAN,
           NEW k \in 1 .. Len(file), NEW s \in Reads, s.current = Current(file, k - 1)
    PROVE  /\ ~UsableRow(file, default, k) \/ file[k].phone \in s.seen =>
                 ImportRow(s, file[k], default, update)
                    = Passed(Listed(s, file[k]))
           /\ UsableRow(file, default, k) /\ file[k].phone \notin s.seen =>
                 ImportRow(s, file[k], default, update)
                    = Subscribe(Listed(s, file[k]), file[k], Governing(file, k, default), update)
           /\ Current(file, k) = (IF file[k].list = "none" THEN s.current ELSE file[k].list)
<1> DEFINE row == file[k]
           named == IF row.list = "none" THEN s.current ELSE row.list
           target == IF named = "none" THEN default ELSE named
<1>1. named = Current(file, k)
  BY CurrentStep
<1>2. target = Governing(file, k, default)
  <2>1. k \in 0 .. Len(file)
    OBVIOUS
  <2> QED BY <1>1, <2>1, CurrentIs
<1>3. ImportRow(s, row, default, update) =
        (IF target = "none" \/ row.phone \notin Numbers \/ row.phone \in s.seen
         THEN Passed(Listed(s, row))
         ELSE Subscribe(Listed(s, row), row, target, update))
  BY DEF ImportRow, Listed, Passed
<1> HIDE DEF target, named, row
<1>4. ImportRow(s, row, default, update) =
        (IF Governing(file, k, default) = "none" \/ row.phone \notin Numbers \/ row.phone \in s.seen
         THEN Passed(Listed(s, row))
         ELSE Subscribe(Listed(s, row), row, Governing(file, k, default), update))
  BY <1>2, <1>3
<1>5. named = (IF row.list = "none" THEN s.current ELSE row.list)
  BY DEF named
<1> QED BY <1>1, <1>4, <1>5 DEF row, UsableRow

\* A row that is passed over is counted, and nothing else.
LEMMA PassedIs ==
    ASSUME NEW q \in Reads
    PROVE  /\ Passed(q) \in Reads
           /\ Passed(q).contact = q.contact /\ Passed(q).lists = q.lists
           /\ Passed(q).current = q.current /\ Passed(q).seen = q.seen /\ Passed(q).ok = q.ok
           /\ Passed(q).created = q.created /\ Passed(q).updated = q.updated
           /\ Passed(q).skipped = q.skipped + 1
<1>1. Passed(q) \in Reads
  BY DEF Reads, Passed
<1>2. Passed(q).contact = q.contact
  BY DEF Reads, Passed
<1>3. Passed(q).lists = q.lists
  BY DEF Reads, Passed
<1>4. Passed(q).current = q.current
  BY DEF Reads, Passed
<1>5. Passed(q).seen = q.seen
  BY DEF Reads, Passed
<1>6. Passed(q).ok = q.ok
  BY DEF Reads, Passed
<1>7. Passed(q).created = q.created
  BY DEF Reads, Passed
<1>8. Passed(q).updated = q.updated
  BY DEF Reads, Passed
<1>9. Passed(q).skipped = q.skipped + 1
  BY DEF Reads, Passed
<1> QED BY <1>1, <1>2, <1>3, <1>4, <1>5, <1>6, <1>7, <1>8, <1>9

\* A row that is passed over keeps what was read so far.
LEMMA SkipStep ==
    ASSUME TypeInv, NEW file \in Seq(Row), NEW default \in ListNames \cup {"none"},
           NEW update \in BOOLEAN, NEW k \in 1 .. Len(file), NEW s \in Reads,
           Progress(s, k - 1, file, default, update),
           ~UsableRow(file, default, k) \/ file[k].phone \in s.seen
    PROVE  Progress(ImportRow(s, file[k], default, update), k, file, default, update)
<1> DEFINE q == Listed(s, file[k])
           next == ImportRow(s, file[k], default, update)
<1>1. s \in Reads /\ s.current = Current(file, k - 1) /\ file[k] \in Row
  BY DEF Progress
<1>2. next = Passed(q) /\ Current(file, k) = (IF file[k].list = "none" THEN s.current ELSE file[k].list)
  BY <1>1, RowReading
<1> HIDE DEF next, q
<1>3. /\ q \in Reads /\ q.contact = s.contact /\ q.seen = s.seen /\ q.created = s.created
      /\ q.updated = s.updated /\ q.skipped = s.skipped /\ (q.ok => s.ok)
      /\ q.current = Current(file, k) /\ ContactType(q.contact, q.lists)
      /\ \A l \in ListNames \cap {q.current, default} : q.lists[l] # "none"
  <2>1. ContactType(s.contact, s.lists) /\ \A l \in ListNames \cap {s.current, default} : s.lists[l] # "none"
    BY DEF Progress
  <2>2. /\ q \in Reads /\ q.contact = s.contact /\ q.seen = s.seen /\ q.created = s.created
        /\ q.updated = s.updated /\ q.skipped = s.skipped /\ (q.ok => s.ok)
        /\ q.current = (IF file[k].list = "none" THEN s.current ELSE file[k].list)
        /\ ContactType(q.contact, q.lists)
        /\ \A l \in ListNames \cap {q.current, default} : q.lists[l] # "none"
    BY <1>1, <2>1, ListedKeeps DEF q
  <2> QED BY <1>2, <2>2
<1>4. /\ next \in Reads /\ next.contact = s.contact /\ next.seen = s.seen /\ next.created = s.created
      /\ next.updated = s.updated /\ next.skipped = s.skipped + 1 /\ next.ok = q.ok
      /\ next.current = q.current /\ next.lists = q.lists
  <2>1. next = Passed(q) /\ q \in Reads
    BY <1>2, <1>3
  <2> HIDE DEF Passed
  <2> QED BY <1>3, <2>1, PassedIs
<1>5. /\ s.seen = PhonesTo(file, default, k - 1)
      /\ s.created + s.updated = Cardinality(FirstTo(file, default, k - 1))
      /\ s.created + s.updated + s.skipped = k - 1
      /\ s.created \in Nat /\ s.updated \in Nat /\ s.skipped \in Nat
  BY <1>1 DEF Progress, Reads
<1>6. /\ s.seen = PhonesTo(file, default, k)
      /\ FirstTo(file, default, k) = FirstTo(file, default, k - 1)
  <2> DEFINE seen == s.seen
  <2>1. seen \in SUBSET Numbers /\ seen = PhonesTo(file, default, k - 1)
    BY <1>1, <1>5 DEF Reads
  <2>2. ~UsableRow(file, default, k) \/ file[k].phone \in seen
    OBVIOUS
  <2> HIDE DEF seen
  <2>3. /\ PhonesTo(file, default, k)
             = seen \cup (IF UsableRow(file, default, k) THEN {file[k].phone} ELSE {})
        /\ FirstTo(file, default, k) = FirstTo(file, default, k - 1)
             \cup (IF UsableRow(file, default, k) /\ file[k].phone \notin seen THEN {k} ELSE {})
    BY <2>1, RowIs
  <2>4. seen = PhonesTo(file, default, k)
    BY <2>2, <2>3
  <2> QED BY <2>2, <2>3, <2>4 DEF seen
<1>7. \A j \in FirstRows(file, default) : j <= k => Done(next, file, j, default, update)
  <2>1. \A j \in FirstRows(file, default) : j <= k - 1 => Done(s, file, j, default, update)
    BY DEF Progress
  <2>2. k \notin FirstRows(file, default) \/ k \in FirstTo(file, default, k - 1)
    BY <1>6 DEF FirstTo
  <2>3. ASSUME NEW j \in FirstRows(file, default), j <= k PROVE j <= k - 1
    <3>1. j \in FirstTo(file, default, k)
      BY <2>3 DEF FirstTo
    <3> QED BY <1>6, <3>1 DEF FirstTo
  <2>4. ASSUME NEW j \in FirstRows(file, default), j <= k PROVE Done(next, file, j, default, update)
    <3>1. Done(s, file, j, default, update)
      BY <2>1, <2>3, <2>4
    <3>2. next.contact = s.contact
      BY <1>4
    <3> HIDE DEF Progress
    <3> QED BY <3>1, <3>2 DEF Done
  <2> QED BY <2>4
<1>8. \A i \in Contacts : Kept(next, i)
  BY <1>4 DEF Kept, Progress
<1>9. next.ok => Unique(next.contact)
  BY <1>3, <1>4 DEF Progress
<1>10. \A i \in Contacts : contact[i] = NoContact /\ next.contact[i].is =>
          \A n \in {next.contact[i].phone} : Carriers(contact, n) = {} /\ Carriers(next.contact, n) = {i}
  BY <1>4 DEF Progress
<1>11. Cardinality(Free(next.contact)) + Cardinality({n \in next.seen : Carriers(contact, n) = {}})
         = Cardinality(Free(contact))
  BY <1>4 DEF Progress
<1>12. next.created + next.updated + next.skipped = k
  BY <1>4, <1>5
<1>13. next.created + next.updated = Cardinality(FirstTo(file, default, k))
  BY <1>4, <1>5, <1>6
<1>14. ContactType(next.contact, next.lists) /\ next.current = Current(file, k)
       /\ \A l \in ListNames \cap {next.current, default} : next.lists[l] # "none"
  BY <1>3, <1>4
<1> HIDE DEF Progress
<1>15. Progress(next, k, file, default, update)
  BY <1>4, <1>6, <1>7, <1>8, <1>9, <1>10, <1>11, <1>12, <1>13, <1>14 DEF Progress
<1> QED BY <1>15 DEF next

\* A usable row writes one contact, and refuses a second active one for the number.
LEMMA SubscribeIs ==
    ASSUME NEW q \in Reads, NEW row \in Row, NEW target \in ListNames, NEW update \in BOOLEAN,
           NEW i \in Contacts, i = Choice(q.contact, row.phone), row.phone \in Numbers,
           Finds(q.contact, i, row.phone)
    PROVE  LET p == Subscribe(q, row, target, update)
           IN  /\ p \in Reads
               /\ Joined(q.contact, p.contact, i, row.phone, target, update)
               /\ p.ok => Unique(p.contact)
               /\ p.lists = q.lists /\ p.current = q.current /\ p.seen = q.seen \cup {row.phone}
               /\ p.created + p.updated = q.created + q.updated + 1 /\ p.skipped = q.skipped
<1> DEFINE n == row.phone
           name == IF row.name = 0 THEN Numeral ELSE row.name
           known == Known(q.contact, n)
           old == q.contact[i]
           c == IF known = {}
                THEN [is |-> TRUE, name |-> name, phone |-> n, lists |-> {target},
                      active |-> TRUE, out |-> FALSE]
                ELSE [old EXCEPT !.active = TRUE, !.lists = @ \cup {target},
                                 !.name = IF update THEN name ELSE @]
           cs == [q.contact EXCEPT ![i] = c]
           made == IF known = {} THEN 1 ELSE 0
           changed == IF known = {} THEN 0 ELSE 1
           p == Subscribe(q, row, target, update)
<1>1. n \in Phones /\ name \in Nat /\ old \in Person /\ q.contact \in [Contacts -> Person]
  BY Counts DEF Row, Reads
<1>2. Joins(old, c, n, target, update)
  <2>1. CASE known = {}
    <3>1. old = NoContact
      BY <2>1 DEF Finds
    <3>2. old.lists = {} /\ old.out = FALSE /\ ~old.is
      BY <3>1 DEF NoContact
    <3>3. c = [is |-> TRUE, name |-> name, phone |-> n, lists |-> {target}, active |-> TRUE, out |-> FALSE]
      BY <2>1
    <3> HIDE DEF c, old, name, n
    <3> QED BY <1>1, <3>2, <3>3 DEF Joins, Person
  <2>2. CASE known # {}
    <3>1. old.is /\ old.phone = n
      BY <2>2 DEF Finds
    <3> DEFINE called == IF update THEN name ELSE old.name
               on == old.lists \cup {target}
    <3>2. c = [old EXCEPT !.active = TRUE, !.lists = on, !.name = called]
      BY <2>2
    <3>3. on \in SUBSET ListNames /\ called \in Nat /\ (update \/ called = old.name)
      BY <1>1 DEF Person
    <3>4. on = old.lists \cup {target}
      OBVIOUS
    <3> HIDE DEF c, old, name, n, on, called
    <3>5. c \in Person /\ c.is = old.is /\ c.phone = old.phone /\ c.active /\ c.lists = on
          /\ c.out = old.out /\ c.name = called
      BY <1>1, <3>2, <3>3 DEF Person
    <3> QED BY <3>1, <3>3, <3>4, <3>5 DEF Joins
  <2> QED BY <2>1, <2>2
<1>3. p = [q EXCEPT !.contact = cs, !.ok = q.ok /\ Unique(cs), !.seen = q.seen \cup {n},
                    !.created = q.created + made, !.updated = q.updated + changed]
  BY DEF Subscribe, Choice
<1> DEFINE ok == q.ok /\ Unique(cs)
           seen == q.seen \cup {n}
           created == q.created + made
           updated == q.updated + changed
<1>4. c \in Person
  BY <1>2 DEF Joins
<1>5. /\ cs \in [Contacts -> Person] /\ ok \in BOOLEAN /\ seen \in SUBSET Numbers
      /\ created \in Nat /\ updated \in Nat /\ created + updated = q.created + q.updated + 1
  <2>1. cs \in [Contacts -> Person]
    <3> HIDE DEF c
    <3> QED BY <1>1, <1>4
  <2>2. created \in Nat /\ updated \in Nat /\ created + updated = q.created + q.updated + 1
    <3>1. q.created \in Nat /\ q.updated \in Nat
      BY DEF Reads
    <3>2. made \in Nat /\ changed \in Nat /\ made + changed = 1
      OBVIOUS
    <3> HIDE DEF made, changed
    <3> QED BY <3>1, <3>2
  <2>3. ok \in BOOLEAN
    <3> HIDE DEF cs
    <3> QED BY DEF Unique
  <2>4. seen \in SUBSET Numbers
    BY DEF Reads
  <2> HIDE DEF cs, ok, seen, created, updated
  <2> QED BY <2>1, <2>2, <2>3, <2>4
<1>6. ok => Unique(cs)
  OBVIOUS
<1>7. p = [q EXCEPT !.contact = cs, !.ok = ok, !.seen = seen, !.created = created, !.updated = updated]
  BY <1>3
<1> DEFINE b == [contact |-> cs, lists |-> q.lists, current |-> q.current, seen |-> seen, ok |-> ok,
                 created |-> created, updated |-> updated, skipped |-> q.skipped]
<1>8. p = b
  <2> HIDE DEF p, cs, ok, seen, created, updated
  <2> QED BY <1>7 DEF Reads
<1>9. /\ p.contact = cs /\ p.ok = ok /\ p.seen = seen /\ p.created = created /\ p.updated = updated
      /\ p.lists = q.lists /\ p.current = q.current /\ p.skipped = q.skipped
  <2> HIDE DEF p, cs, ok, seen, created, updated
  <2> QED BY <1>8
<1>10. p \in Reads
  <2>1. q.lists \in [ListNames -> ListStates] /\ q.current \in ListNames \cup {"none"} /\ q.skipped \in Nat
    BY DEF Reads
  <2> HIDE DEF p, cs, ok, seen, created, updated
  <2> QED BY <1>5, <1>8, <2>1 DEF Reads
<1>11. seen = q.seen \cup {row.phone} /\ cs = [q.contact EXCEPT ![i] = c] /\ n = row.phone /\ old = q.contact[i]
  OBVIOUS
<1> HIDE DEF p, cs, ok, seen, created, updated, c, old, n
<1>12. Joined(q.contact, p.contact, i, row.phone, target, update)
  BY <1>2, <1>4, <1>9, <1>11 DEF Joined
<1>13. (p.ok => Unique(p.contact)) /\ p.created + p.updated = q.created + q.updated + 1
  BY <1>5, <1>6, <1>9
<1>14. p.seen = q.seen \cup {row.phone} /\ p.lists = q.lists /\ p.current = q.current /\ p.skipped = q.skipped
  BY <1>9, <1>11
<1> QED BY <1>10, <1>12, <1>13, <1>14 DEF p

\* The numbers that only new contacts have.
NewOf(seen) == {n \in seen : Carriers(contact, n) = {}}

\* Who has which number after contact i took number n.
LEMMA CarriersOf ==
    ASSUME NEW cs \in [Contacts -> Person], NEW ds \in [Contacts -> Person], NEW i \in Contacts,
           NEW n \in Numbers, NEW target \in ListNames, NEW update \in BOOLEAN,
           Finds(cs, i, n), Joined(cs, ds, i, n, target, update)
    PROVE  /\ Carriers(ds, n) = Carriers(cs, n) \cup {i}
           /\ \A m \in Phones : m # n => Carriers(ds, m) = Carriers(cs, m)
           /\ Free(ds) = Free(cs) \ {i}
<1>1. PICK c \in Person : Joins(cs[i], c, n, target, update) /\ ds = [cs EXCEPT ![i] = c]
  BY DEF Joined
<1>2. ds[i] = c /\ \A j \in Contacts : j # i => ds[j] = cs[j]
  BY <1>1
<1>3. c # NoContact /\ c.is /\ c.phone = n /\ (cs[i].is => cs[i].phone = n)
  BY <1>1, Records DEF Joins, Finds
<1>4. Free(ds) = Free(cs) \ {i}
  BY <1>2, <1>3 DEF Free
<1>5. Carriers(ds, n) = Carriers(cs, n) \cup {i}
  BY <1>2, <1>3 DEF Carriers
<1>6. ASSUME NEW m \in Phones, m # n PROVE Carriers(ds, m) = Carriers(cs, m)
  BY <1>2, <1>3, <1>6 DEF Carriers
<1> QED BY <1>4, <1>5, <1>6

\* A usable row keeps what was read so far, and does what it says.
LEMMA SubscribeStep ==
    ASSUME TypeInv, NEW file \in Seq(Row), Fits(file), NEW default \in ListNames \cup {"none"},
           NEW update \in BOOLEAN, NEW k \in 1 .. Len(file), NEW s \in Reads,
           Progress(s, k - 1, file, default, update),
           UsableRow(file, default, k), file[k].phone \notin s.seen
    PROVE  Progress(ImportRow(s, file[k], default, update), k, file, default, update)
<1> DEFINE row == file[k]
           n == row.phone
           target == Governing(file, k, default)
           q == Listed(s, row)
           i == Choice(s.contact, n)
           next == ImportRow(s, row, default, update)
<1>1. s.current = Current(file, k - 1) /\ row \in Row /\ n \in Numbers /\ n \in Phones
  BY Counts DEF Progress, UsableRow
<1>2. next = Subscribe(q, row, target, update)
      /\ Current(file, k) = (IF row.list = "none" THEN s.current ELSE row.list)
  BY <1>1, RowReading
<1>3. Finds(s.contact, i, n) /\ Same(s.contact, i) /\ Known(s.contact, n) = Carriers(contact, n) /\ i \in Contacts
  <2> DEFINE m == n
  <2>1. m \in Numbers /\ m = file[k].phone /\ m \notin s.seen
    BY <1>1
  <2> HIDE DEF m
  <2>2. /\ Finds(s.contact, Choice(s.contact, m), m) /\ Same(s.contact, Choice(s.contact, m))
        /\ Known(s.contact, m) = Carriers(contact, m)
    BY <2>1, Target
  <2> QED BY <2>2 DEF m, Finds
<1> HIDE DEF next, q, i
<1>4. /\ q \in Reads /\ q.contact = s.contact /\ q.seen = s.seen /\ q.created = s.created
      /\ q.updated = s.updated /\ q.skipped = s.skipped /\ (q.ok => s.ok)
      /\ q.current = Current(file, k) /\ ContactType(q.contact, q.lists)
      /\ \A l \in ListNames \cap {q.current, default} : q.lists[l] # "none"
  <2>1. ContactType(s.contact, s.lists) /\ \A l \in ListNames \cap {s.current, default} : s.lists[l] # "none"
    BY DEF Progress
  <2>2. /\ q \in Reads /\ q.contact = s.contact /\ q.seen = s.seen /\ q.created = s.created
        /\ q.updated = s.updated /\ q.skipped = s.skipped /\ (q.ok => s.ok)
        /\ q.current = (IF file[k].list = "none" THEN s.current ELSE file[k].list)
        /\ ContactType(q.contact, q.lists)
        /\ \A l \in ListNames \cap {q.current, default} : q.lists[l] # "none"
    BY <1>1, <2>1, ListedKeeps DEF q
  <2> QED BY <1>2, <2>2
<1>5. target \in ListNames /\ q.lists[target] # "none"
  <2>1. k \in 0 .. Len(file)
    OBVIOUS
  <2>2. /\ Current(file, k) \in ListNames \cup {"none"}
        /\ target = (IF Current(file, k) = "none" THEN default ELSE Current(file, k))
    BY <2>1, CurrentIs
  <2>3. target # "none"
    BY DEF UsableRow
  <2> HIDE DEF target
  <2> QED BY <1>4, <2>2, <2>3
<1> HIDE DEF target, n, row
<1>6. /\ next \in Reads /\ Joined(s.contact, next.contact, i, n, target, update)
      /\ next.ok => Unique(next.contact)
      /\ next.lists = q.lists /\ next.current = q.current /\ next.seen = q.seen \cup {n}
      /\ next.created + next.updated = q.created + q.updated + 1 /\ next.skipped = q.skipped
  <2> DEFINE p == Subscribe(q, row, target, update)
  <2>1. i = Choice(q.contact, n) /\ Finds(q.contact, i, n)
    BY <1>3, <1>4 DEF i
  <2> HIDE DEF p
  <2>2. p \in Reads /\ Joined(q.contact, p.contact, i, row.phone, target, update)
        /\ (p.ok => Unique(p.contact))
        /\ p.lists = q.lists /\ p.current = q.current /\ p.seen = q.seen \cup {row.phone}
        /\ p.created + p.updated = q.created + q.updated + 1 /\ p.skipped = q.skipped
    BY <1>1, <1>3, <1>4, <1>5, <2>1, SubscribeIs DEF n, p
  <2> QED BY <1>2, <1>4, <2>2 DEF n, p
<1>7. PICK c \in Person : /\ Joins(contact[i], c, n, target, update)
                          /\ next.contact = [s.contact EXCEPT ![i] = c]
  BY <1>3, <1>6 DEF Joined, Same
<1>8. c.is /\ c.phone = n /\ c.active /\ c.lists = contact[i].lists \cup {target} /\ c.out = contact[i].out
  BY <1>7 DEF Joins
<1>9. s.contact \in [Contacts -> Person] /\ next.contact \in [Contacts -> Person] /\ next.contact[i] = c
      /\ \A j \in Contacts : j # i => next.contact[j] = s.contact[j]
  BY <1>3, <1>6, <1>7 DEF Reads
<1>10. contact[i].is => contact[i].phone = n
  BY <1>3, Records DEF Finds, Same
<1>11. /\ Carriers(next.contact, n) = Carriers(s.contact, n) \cup {i}
       /\ \A m \in Phones : m # n => Carriers(next.contact, m) = Carriers(s.contact, m)
       /\ Free(next.contact) = Free(s.contact) \ {i}
  <2> DEFINE cs == s.contact
             ds == next.contact
  <2>1. cs \in [Contacts -> Person] /\ ds \in [Contacts -> Person] /\ Finds(cs, i, n)
        /\ Joined(cs, ds, i, n, target, update)
    BY <1>3, <1>6, <1>9
  <2> HIDE DEF cs, ds
  <2>2. /\ Carriers(ds, n) = Carriers(cs, n) \cup {i}
        /\ \A m \in Phones : m # n => Carriers(ds, m) = Carriers(cs, m)
        /\ Free(ds) = Free(cs) \ {i}
    BY <1>1, <1>3, <1>5, <2>1, CarriersOf
  <2> QED BY <2>2 DEF cs, ds
<1>12. /\ s.seen = PhonesTo(file, default, k - 1) /\ s.seen \in SUBSET Numbers
       /\ s.created + s.updated = Cardinality(FirstTo(file, default, k - 1))
       /\ s.created + s.updated + s.skipped = k - 1
       /\ s.created \in Nat /\ s.updated \in Nat /\ s.skipped \in Nat
  BY DEF Progress, Reads
<1>13. /\ PhonesTo(file, default, k) = s.seen \cup {n}
       /\ FirstTo(file, default, k) = FirstTo(file, default, k - 1) \cup {k}
       /\ \A j \in FirstTo(file, default, k - 1) : file[j].phone # n
  <2> DEFINE seen == s.seen
  <2>1. seen \in SUBSET Numbers /\ seen = PhonesTo(file, default, k - 1)
    BY <1>12
  <2>2. UsableRow(file, default, k) /\ file[k].phone \notin seen
    OBVIOUS
  <2> HIDE DEF seen
  <2>3. /\ PhonesTo(file, default, k) = seen \cup {file[k].phone}
        /\ FirstTo(file, default, k) = FirstTo(file, default, k - 1) \cup {k}
        /\ \A j \in FirstTo(file, default, k - 1) : file[j].phone # file[k].phone
    BY <2>1, <2>2, RowIs
  <2> QED BY <2>3 DEF seen, n, row
<1>14. ContactType(next.contact, next.lists)
  <2>1. ContactType(q.contact, q.lists) /\ next.lists = q.lists
    BY <1>4, <1>6
  <2>2. \A j \in Contacts : next.contact[j].lists \subseteq {l \in ListNames : q.lists[l] # "none"}
    <3>1. \A j \in Contacts : s.contact[j].lists \subseteq {l \in ListNames : q.lists[l] # "none"}
      BY <1>4, <2>1 DEF ContactType
    <3>2. contact[i] = s.contact[i]
      BY <1>3 DEF Same
    <3> QED BY <1>3, <1>5, <1>8, <1>9, <3>1, <3>2
  <2>3. \A j \in Contacts : ~next.contact[j].is => next.contact[j] \in {NoContact, Gone}
    <3>1. \A j \in Contacts : ~s.contact[j].is => s.contact[j] \in {NoContact, Gone}
      BY <1>4, <2>1 DEF ContactType
    <3> QED BY <1>8, <1>9, <3>1
  <2> QED BY <1>9, <2>1, <2>2, <2>3 DEF ContactType
<1>15. /\ next.created + next.updated = Cardinality(FirstTo(file, default, k))
       /\ next.created + next.updated + next.skipped = k
  <2> DEFINE F == FirstTo(file, default, k - 1)
  <2>1. F \subseteq 1 .. Len(file) /\ k \notin F /\ IsFiniteSet(1 .. Len(file))
    <3>1. Len(file) \in Nat /\ 1 \in Int /\ DOMAIN file = 1 .. Len(file) /\ k \in Nat
      OBVIOUS
    <3>2. IsFiniteSet(1 .. Len(file))
      BY <3>1, FS_Interval
    <3>3. FirstRows(file, default) \subseteq 1 .. Len(file)
      BY <3>1 DEF FirstRows, Usable
    <3> QED BY <3>1, <3>2, <3>3 DEF FirstTo
  <2>2. IsFiniteSet(F)
    BY <2>1, FS_Subset
  <2> HIDE DEF F
  <2>3. Cardinality(F \cup {k}) = Cardinality(F) + 1
    BY <2>1, <2>2, FS_AddElement
  <2>4. next.created + next.updated = Cardinality(FirstTo(file, default, k))
    BY <1>4, <1>6, <1>12, <1>13, <2>3 DEF F
  <2> QED BY <1>4, <1>6, <1>12, <2>4
<1>16. \A j \in Contacts : Kept(s, j) /\ (j # i => Kept(next, j))
  <2>1. \A j \in Contacts : Kept(s, j)
    BY DEF Progress
  <2>2. next.seen = s.seen \cup {n}
    BY <1>4, <1>6
  <2> QED BY <1>9, <2>1, <2>2 DEF Kept
<1>17. Kept(next, i)
  <2>1. contact[i] = NoContact \/ (contact[i].is /\ contact[i].phone = n)
    BY <1>3 DEF Finds, Same
  <2> QED BY <1>6, <1>8, <1>9, <2>1 DEF Kept
<1> DEFINE Taken(p) == \A j \in Contacts : contact[j] = NoContact /\ p.contact[j].is =>
          \A m \in {p.contact[j].phone} : Carriers(contact, m) = {} /\ Carriers(p.contact, m) = {j}
<1>18. Taken(next)
  <2>1. Taken(s)
    BY DEF Progress
  <2>2. ASSUME NEW j \in Contacts, contact[j] = NoContact, next.contact[j].is, NEW m, m = next.contact[j].phone
        PROVE  Carriers(contact, m) = {} /\ Carriers(next.contact, m) = {j}
    <3>1. CASE j = i
      <4>1. m = n /\ ~contact[i].is
        BY <1>8, <1>9, <2>2, <3>1, Records
      <4>2. Known(s.contact, n) = {}
        BY <1>3, <4>1 DEF Finds, Same
      <4>3. Carriers(s.contact, n) = {} /\ Carriers(contact, n) = {}
        BY <1>3, <4>2 DEF Known
      <4> QED BY <1>11, <3>1, <4>1, <4>3
    <3>2. CASE j # i
      <4>1. s.contact[j].is /\ m = s.contact[j].phone /\ m \in Phones
        BY <1>9, <2>2, <3>2 DEF Person
      <4>2. Carriers(contact, m) = {} /\ Carriers(s.contact, m) = {j}
        BY <2>1, <2>2, <4>1
      <4>3. s.contact[j] # contact[j]
        BY <2>2, <4>1, Records
      <4>4. m \in s.seen
        BY <1>16, <4>1, <4>3 DEF Kept
      <4>5. m # n
        BY <4>4 DEF n, row
      <4> QED BY <1>11, <4>1, <4>2, <4>5
    <3> QED BY <3>1, <3>2
  <2> QED BY <2>2
<1>19. ASSUME NEW j \in FirstRows(file, default), j <= k PROVE Done(next, file, j, default, update)
  <2>1. j \in FirstTo(file, default, k)
    BY <1>19 DEF FirstTo
  <2>2. CASE j = k
    <3>1. i \in Carriers(next.contact, n) /\ n = file[k].phone /\ target = Governing(file, k, default)
      BY <1>11 DEF n, row, target
    <3>2. next.contact[i].active /\ next.contact[i].lists = contact[i].lists \cup {target}
          /\ next.contact[i].out = contact[i].out
          /\ (update \/ ~contact[i].is \/ next.contact[i].name = contact[i].name)
      BY <1>7, <1>9 DEF Joins
    <3> QED BY <2>2, <3>1, <3>2 DEF Done
  <2>3. CASE j # k
    <3>1. j \in FirstTo(file, default, k - 1)
      BY <1>13, <2>1, <2>3
    <3>2. j <= k - 1 /\ file[j].phone # n
      BY <1>13, <3>1 DEF FirstTo
    <3>3. Done(s, file, j, default, update)
      BY <3>2 DEF Progress
    <3>4. PICK x \in Carriers(s.contact, file[j].phone) :
             /\ s.contact[x].active
             /\ s.contact[x].lists = contact[x].lists \cup {Governing(file, j, default)}
             /\ s.contact[x].out = contact[x].out
             /\ update \/ ~contact[x].is \/ s.contact[x].name = contact[x].name
      BY <3>3 DEF Done
    <3>5. x # i
      <4>1. s.contact[x].is /\ s.contact[x].phone = file[j].phone
        BY <3>4 DEF Carriers
      <4>2. s.contact[i].is => s.contact[i].phone = n
        BY <1>3, <1>10 DEF Same
      <4> QED BY <3>2, <4>1, <4>2
    <3>6. x \in Contacts /\ next.contact[x] = s.contact[x]
      BY <1>9, <3>4, <3>5 DEF Carriers
    <3>7. x \in Carriers(next.contact, file[j].phone)
      BY <3>4, <3>6 DEF Carriers
    <3> QED BY <3>4, <3>6, <3>7 DEF Done
  <2> QED BY <2>2, <2>3
<1>20. Cardinality(Free(next.contact)) + Cardinality(NewOf(next.seen)) = Cardinality(Free(contact))
  <2>1. Cardinality(Free(s.contact)) + Cardinality(NewOf(s.seen)) = Cardinality(Free(contact))
    BY DEF Progress, NewOf
  <2>2. next.seen = s.seen \cup {n} /\ n \notin s.seen
    BY <1>4, <1>6 DEF n, row
  <2>3. CASE Known(s.contact, n) # {}
    <3>1. s.contact[i].is
      BY <1>3, <2>3 DEF Finds
    <3>2. i \notin Free(s.contact) /\ NewOf(next.seen) = NewOf(s.seen)
      BY <1>3, <2>2, <2>3, <3>1, Records DEF Free, NewOf
    <3> QED BY <1>11, <2>1, <3>2
  <2>4. CASE Known(s.contact, n) = {}
    <3>1. i \in Free(s.contact) /\ NewOf(next.seen) = NewOf(s.seen) \cup {n} /\ n \notin NewOf(s.seen)
      BY <1>3, <2>2, <2>4 DEF Free, NewOf, Finds
    <3>2. IsFiniteSet(NewOf(s.seen)) /\ Cardinality(NewOf(s.seen)) \in Nat
      <4> DEFINE P == {file[j].phone : j \in DOMAIN file}
      <4>1. NewOf(s.seen) \subseteq P
        BY <1>12 DEF NewOf, PhonesTo, Usable
      <4>2. IsFiniteSet(P)
        BY PhonesFinite
      <4> HIDE DEF P
      <4> QED BY <4>1, <4>2, FS_Subset, FS_CardinalityType
    <3>3. Cardinality(NewOf(next.seen)) = Cardinality(NewOf(s.seen)) + 1
      BY <3>1, <3>2, FS_AddElement
    <3>4. Free(s.contact) \subseteq Contacts
      BY DEF Free
    <3>5. IsFiniteSet(Free(s.contact)) /\ Cardinality(Free(s.contact)) \in Nat
      BY <3>4, Finite
    <3>6. Cardinality(Free(s.contact) \ {i}) = Cardinality(Free(s.contact)) - 1
      BY <3>1, <3>5, FS_RemoveElement
    <3> QED BY <1>11, <2>1, <3>2, <3>3, <3>5, <3>6
  <2> QED BY <2>3, <2>4
<1>21. /\ next.current = Current(file, k) /\ next.seen = PhonesTo(file, default, k)
       /\ \A l \in ListNames \cap {next.current, default} : next.lists[l] # "none"
  BY <1>4, <1>6, <1>13
<1> HIDE DEF Progress
<1>22. Progress(next, k, file, default, update)
  BY <1>6, <1>14, <1>15, <1>16, <1>17, <1>18, <1>19, <1>20, <1>21 DEF Progress, NewOf
<1> QED BY <1>22 DEF next, row

\* Before the first row nothing has been read.
LEMMA StartIs ==
    ASSUME TypeInv, NEW file \in Seq(Row), NEW default \in ListNames \cup {"none"},
           NEW update \in BOOLEAN, default # "none" => lists[default] = "active"
    PROVE  Start \in Reads /\ Progress(Start, 0, file, default, update)
<1>1. ContactType(contact, lists) /\ Unique(contact)
  BY DEF TypeInv
<1>2. Start \in Reads
  BY <1>1 DEF Start, Reads, ContactType
<1>3. /\ Start.contact = contact /\ Start.lists = lists /\ Start.current = "none" /\ Start.seen = {}
      /\ Start.created = 0 /\ Start.updated = 0 /\ Start.skipped = 0
  BY DEF Start
<1> HIDE DEF Start
<1>4. \A j \in FirstRows(file, default) : j \in Nat /\ ~(j <= 0)
  BY DEF FirstRows, Usable
<1>5. Usable(file, default) \subseteq 1 .. Len(file)
  BY DEF Usable
<1>6. PhonesTo(file, default, 0) = {} /\ FirstTo(file, default, 0) = {}
  BY <1>4, <1>5 DEF PhonesTo, FirstTo
<1>7. Current(file, 0) = "none"
  BY DEF Current
<1>8. Cardinality(FirstTo(file, default, 0)) = 0
  BY <1>6, FS_EmptySet
<1>9. Start.created + Start.updated = Cardinality(FirstTo(file, default, 0))
      /\ Start.created + Start.updated + Start.skipped = 0
  BY <1>3, <1>8
<1>10. \A l \in ListNames \cap {Start.current, default} : Start.lists[l] # "none"
  BY <1>3, Counts
<1>11. \A i \in Contacts : contact[i] = NoContact => ~contact[i].is
  BY Records
<1>12. Cardinality(Free(Start.contact)) + Cardinality({n \in Start.seen : Carriers(contact, n) = {}})
         = Cardinality(Free(contact))
  <2>1. {n \in Start.seen : Carriers(contact, n) = {}} = {}
    BY <1>3
  <2>2. Cardinality(Free(contact)) \in Nat
    <3>1. Free(contact) \subseteq Contacts
      BY DEF Free
    <3> QED BY <3>1, Finite
  <2>3. Cardinality({n \in Start.seen : Carriers(contact, n) = {}}) = 0
    BY <2>1, FS_EmptySet
  <2> QED BY <1>3, <2>2, <2>3
<1>13. \A i \in Contacts : Kept(Start, i)
  BY <1>3 DEF Kept
<1>14. \A i \in Contacts : contact[i] = NoContact /\ Start.contact[i].is =>
          \A n \in {Start.contact[i].phone} : Carriers(contact, n) = {} /\ Carriers(Start.contact, n) = {i}
  BY <1>3, <1>11
<1>15. ContactType(Start.contact, Start.lists) /\ (Start.ok => Unique(Start.contact))
       /\ Start.current = Current(file, 0) /\ Start.seen = PhonesTo(file, default, 0)
  BY <1>1, <1>3, <1>6, <1>7
<1> QED BY <1>2, <1>4, <1>9, <1>10, <1>12, <1>13, <1>14, <1>15 DEF Progress

\* A reading of the first n rows.
Reading(g, n, file, default, update) ==
    g = [k \in 0 .. n |-> IF k = 0 THEN Start ELSE ImportRow(g[k - 1], file[k], default, update)]

\* A recursive reading exists, for there is no first row without one.
LEMMA ReadingExists ==
    ASSUME NEW file \in Seq(Row), NEW default \in ListNames \cup {"none"}, NEW update \in BOOLEAN,
           NEW m \in Nat
    PROVE  \E g : Reading(g, m, file, default, update)
<1> DEFINE Then(r, k) == ImportRow(r, file[k], default, update)
           Bad == {n \in Nat : ~\E g : Reading(g, n, file, default, update)}
<1>1. \A g, n : Reading(g, n, file, default, update)
                  <=> g = [k \in 0 .. n |-> IF k = 0 THEN Start ELSE Then(g[k - 1], k)]
  BY DEF Reading
<1> HIDE DEF Then
<1>2. SUFFICES ASSUME Bad # {} PROVE FALSE
  OBVIOUS
<1>3. PICK n \in Bad : \A k \in Bad : n <= k
  <2>1. Bad \subseteq Nat
    OBVIOUS
  <2> HIDE DEF Bad
  <2> QED BY <1>2, <2>1, LeastExists
<1>4. n # 0
  <2> DEFINE g == [k \in 0 .. 0 |-> Start]
  <2>1. g = [k \in 0 .. 0 |-> IF k = 0 THEN Start ELSE Then(g[k - 1], k)]
    <3>1. \A k \in 0 .. 0 : k = 0
      OBVIOUS
    <3> QED BY <3>1, Zenon
  <2> HIDE DEF g
  <2>2. Reading(g, 0, file, default, update)
    BY <1>1, <2>1
  <2> QED BY <1>3, <2>2
<1>5. n - 1 \in Nat /\ n - 1 \notin Bad
  BY <1>3, <1>4
<1>6. PICK g : Reading(g, n - 1, file, default, update)
  BY <1>5
<1>7. g = [k \in 0 .. n - 1 |-> IF k = 0 THEN Start ELSE Then(g[k - 1], k)]
  BY <1>1, <1>6
<1> DEFINE h == [k \in 0 .. n |-> IF k = n THEN Then(g[n - 1], n) ELSE g[k]]
<1>8. ASSUME NEW k \in 0 .. n PROVE h[k] = IF k = 0 THEN Start ELSE Then(h[k - 1], k)
  <2>1. h[k] = IF k = n THEN Then(g[n - 1], n) ELSE g[k]
    OBVIOUS
  <2>2. CASE k = n
    <3>1. k # 0 /\ k - 1 \in 0 .. n /\ k - 1 # n /\ h[k - 1] = g[k - 1]
      BY <1>3, <1>4, <2>2
    <3> QED BY <2>1, <2>2, <3>1
  <2>3. CASE k # n
    <3>1. k \in 0 .. n - 1
      BY <2>3
    <3>2. g[k] = IF k = 0 THEN Start ELSE Then(g[k - 1], k)
      BY <1>7, <3>1
    <3>3. k # 0 => k - 1 \in 0 .. n /\ k - 1 # n
      BY <3>1
    <3>4. k # 0 => h[k - 1] = g[k - 1]
      BY <3>3
    <3> QED BY <2>1, <2>3, <3>2, <3>4
  <2> QED BY <2>2, <2>3
<1>9. DOMAIN h = 0 .. n /\ h = [k \in 0 .. n |-> h[k]]
  OBVIOUS
<1> HIDE DEF h
<1>10. h = [k \in 0 .. n |-> IF k = 0 THEN Start ELSE Then(h[k - 1], k)]
  BY <1>8, <1>9, Zenon
<1>11. Reading(h, n, file, default, update)
  BY <1>1, <1>10
<1> QED BY <1>3, <1>11

\* All of a spreadsheet, row by row.
LEMMA ImportedIs ==
    ASSUME TypeInv, NEW file \in Seq(Row), Fits(file), NEW default \in ListNames \cup {"none"},
           NEW update \in BOOLEAN, default # "none" => lists[default] = "active"
    PROVE  /\ Imported(file, default, update) \in Reads
           /\ Progress(Imported(file, default, update), Len(file), file, default, update)
<1> DEFINE Then(r, k) == ImportRow(r, file[k], default, update)
           N == Len(file)
           read == CHOOSE g : g = [k \in 0 .. N |-> IF k = 0 THEN Start ELSE Then(g[k - 1], k)]
           Good(k) == read[k] \in Reads /\ Progress(read[k], k, file, default, update)
           Bad == {k \in 0 .. N : ~Good(k)}
<1>1. N \in Nat /\ Imported(file, default, update) = read[N]
  BY DEF Imported, Start
<1>2. read = [k \in 0 .. N |-> IF k = 0 THEN Start ELSE Then(read[k - 1], k)]
  <2>1. \E g : g = [k \in 0 .. N |-> IF k = 0 THEN Start ELSE Then(g[k - 1], k)]
    BY <1>1, ReadingExists DEF Reading
  <2> HIDE DEF Then, N
  <2> QED BY <2>1, Zenon
<1> HIDE DEF read, N
<1>3. read[0] = Start /\ \A k \in 1 .. N : k \in 0 .. N /\ k - 1 \in 0 .. N /\ read[k] = Then(read[k - 1], k)
  <2> HIDE DEF Then
  <2>1. 0 \in 0 .. N /\ \A k \in 1 .. N : k \in 0 .. N /\ k - 1 \in 0 .. N /\ k # 0
    BY <1>1
  <2>2. \A k \in 0 .. N : read[k] = IF k = 0 THEN Start ELSE Then(read[k - 1], k)
    BY <1>2, Zenon
  <2> QED BY <2>1, <2>2
<1>4. Good(0)
  BY <1>3, StartIs
<1>5. ASSUME NEW k \in 1 .. N, Good(k - 1) PROVE Good(k)
  <2> DEFINE s == read[k - 1]
  <2>1. s \in Reads /\ Progress(s, k - 1, file, default, update) /\ read[k] = ImportRow(s, file[k], default, update)
        /\ k \in 1 .. Len(file)
    BY <1>3, <1>5 DEF N
  <2> HIDE DEF s
  <2>2. Progress(ImportRow(s, file[k], default, update), k, file, default, update)
    BY <2>1, SkipStep, SubscribeStep
  <2> QED BY <2>1, <2>2 DEF Progress
<1> HIDE DEF Then
<1>6. Bad = {}
  <2>1. SUFFICES ASSUME Bad # {} PROVE FALSE
    OBVIOUS
  <2>2. PICK k \in Bad : \A j \in Bad : k <= j
    <3>1. Bad \subseteq Nat
      BY <1>1
    <3> HIDE DEF Bad
    <3> QED BY <2>1, <3>1, LeastExists
  <2> HIDE DEF Good
  <2>3. k # 0 /\ k \in 0 .. N
    BY <1>4, <2>2
  <2>4. k \in 1 .. N /\ k - 1 \in 0 .. N /\ ~(k <= k - 1)
    BY <1>1, <2>3
  <2>5. Good(k - 1)
    BY <2>2, <2>4
  <2> QED BY <1>5, <2>2, <2>4, <2>5
<1>7. Good(N)
  <2> HIDE DEF Good
  <2> QED BY <1>1, <1>6
<1> QED BY <1>1, <1>7 DEF N

\* An import that was accepted did what the cells say.
LEMMA ReadRight ==
    ASSUME TypeInv, NEW file \in Files, NEW default \in ListNames \cup {"none"}, NEW update \in BOOLEAN,
           Import(file, default, update), last'.ok
    PROVE  ReadCorrectly(file, default, update)
<1> DEFINE s == Imported(file, default, update)
           N == Len(file)
<1>1. file \in Seq(Row) /\ Fits(file) /\ (default # "none" => lists[default] = "active")
  BY ComposerAssumption DEF Import
<1>2. s \in Reads /\ Progress(s, N, file, default, update)
  BY <1>1, ImportedIs
<1>3. IF s.ok
      THEN /\ contact' = s.contact /\ lists' = s.lists
           /\ last' = [kind |-> "import", ok |-> TRUE, created |-> s.created,
                       updated |-> s.updated, skipped |-> s.skipped]
      ELSE last' = Refused("import") /\ UNCHANGED <<contact, lists>>
  BY DEF Import
<1> HIDE DEF s
<1>4. s.ok
  <2>1. CASE ~s.ok
    BY <1>3, <2>1 DEF Refused
  <2> QED BY <2>1
<1>5. contact' = s.contact /\ last'.created = s.created /\ last'.updated = s.updated /\ last'.skipped = s.skipped
  BY <1>3, <1>4
<1>6. N \in Nat /\ DOMAIN file = 1 .. N
  BY <1>1
<1>7. /\ s.seen = PhonesTo(file, default, N)
      /\ s.created + s.updated = Cardinality(FirstTo(file, default, N))
      /\ s.created + s.updated + s.skipped = N
      /\ \A i \in Contacts : Kept(s, i)
      /\ \A j \in FirstRows(file, default) : j <= N => Done(s, file, j, default, update)
  BY <1>2 DEF Progress
<1>8. \A i \in Contacts : contact[i] = NoContact /\ s.contact[i].is =>
          \A n \in {s.contact[i].phone} : Carriers(contact, n) = {} /\ Carriers(s.contact, n) = {i}
  BY <1>2 DEF Progress
<1>9. Usable(file, default) \subseteq 1 .. N /\ FirstRows(file, default) \subseteq 1 .. N
  BY <1>6 DEF FirstRows, Usable
<1>10. FirstTo(file, default, N) = FirstRows(file, default)
  BY <1>6, <1>9 DEF FirstTo
<1>11. \A n : Touched(file, default, n) <=> n \in s.seen
  BY <1>6, <1>7, <1>9 DEF Touched, PhonesTo
<1>12. \A j \in FirstRows(file, default) : Done(s, file, j, default, update)
  BY <1>6, <1>7, <1>9
<1>13. ASSUME NEW k \in FirstRows(file, default)
       PROVE  \E i \in Carriers(contact', file[k].phone) :
                 /\ contact'[i].active
                 /\ contact'[i].lists = contact[i].lists \cup {Governing(file, k, default)}
                 /\ contact'[i].out = contact[i].out
                 /\ update \/ ~contact[i].is \/ contact'[i].name = contact[i].name
  <2>1. Done(s, file, k, default, update)
    BY <1>12
  <2> QED BY <1>5, <2>1 DEF Done
<1> HIDE DEF N
<1>14. ASSUME NEW n \in Numbers, ~Touched(file, default, n),
              NEW i \in Carriers(contact, n) \cup Carriers(s.contact, n)
       PROVE  s.contact[i] = contact[i]
  <2>1. n \notin s.seen
    BY <1>11, <1>14
  <2>2. i \in Contacts /\ Kept(s, i)
    BY <1>7, <1>14 DEF Carriers
  <2>3. (contact[i].is /\ contact[i].phone = n) \/ (s.contact[i].is /\ s.contact[i].phone = n)
    BY <1>14 DEF Carriers
  <2> QED BY <2>1, <2>2, <2>3, Records DEF Kept
<1>15. ASSUME NEW n \in Numbers, Touched(file, default, n), Carriers(contact, n) # {}
       PROVE  Carriers(s.contact, n) = Carriers(contact, n)
  <2>1. ASSUME NEW i \in Contacts, contact[i].is, contact[i].phone = n
        PROVE  s.contact[i].is /\ s.contact[i].phone = n
    BY <1>7, <2>1, Records DEF Kept
  <2>2. ASSUME NEW i \in Contacts, s.contact[i].is, s.contact[i].phone = n
        PROVE  contact[i].is /\ contact[i].phone = n
    <3>1. contact[i] # NoContact
      BY <1>8, <1>15, <2>2
    <3>2. Kept(s, i)
      BY <1>7
    <3> QED BY <2>2, <3>1, <3>2 DEF Kept
  <2> QED BY <2>1, <2>2 DEF Carriers
<1>16. ASSUME NEW n \in Numbers, Touched(file, default, n), Carriers(contact, n) = {}
       PROVE  Cardinality(Carriers(s.contact, n)) = 1
  <2> DEFINE rows == {k \in Usable(file, default) : file[k].phone = n}
  <2>1. PICK k \in rows : \A j \in rows : k <= j
    <3>1. rows \subseteq Nat /\ rows # {}
      BY <1>6, <1>9, <1>16 DEF Touched
    <3> HIDE DEF rows
    <3> QED BY <3>1, LeastExists
  <2>2. k \in FirstRows(file, default) /\ file[k].phone = n
    <3>1. k \in Usable(file, default) /\ file[k].phone = n /\ k \in Nat
      BY <1>6, <1>9, <2>1
    <3>2. ASSUME NEW j \in Usable(file, default), j < k PROVE file[j].phone # n
      <4>1. j \in Nat
        BY <1>6, <1>9
      <4>2. file[j].phone = n => k <= j
        BY <2>1
      <4> QED BY <3>1, <3>2, <4>1, <4>2
    <3> QED BY <3>1, <3>2 DEF FirstRows
  <2>3. PICK i \in Contacts : s.contact[i].is /\ s.contact[i].phone = n
    BY <1>12, <2>2 DEF Done, Carriers
  <2>4. Kept(s, i) /\ ~(contact[i].is /\ contact[i].phone = n)
    BY <1>7, <1>16 DEF Carriers
  <2>5. contact[i] = NoContact
    BY <2>3, <2>4 DEF Kept
  <2>6. Carriers(s.contact, n) = {i}
    BY <1>8, <2>3, <2>5
  <2> QED BY <2>6, FS_Singleton
<1>17. ASSUME NEW n \in Numbers
       PROVE  LET before == Carriers(contact, n) IN
              IF Touched(file, default, n)
              THEN Cardinality(Carriers(contact', n)) = (IF before = {} THEN 1 ELSE Cardinality(before))
              ELSE \A i \in Carriers(contact, n) \cup Carriers(contact', n) : contact'[i] = contact[i]
  BY <1>5, <1>14, <1>15, <1>16
<1>18. /\ last'.created + last'.updated = Cardinality(FirstRows(file, default))
       /\ last'.created + last'.updated + last'.skipped = Len(file)
  BY <1>5, <1>7, <1>10 DEF N
<1> QED BY <1>13, <1>17, <1>18 DEF ReadCorrectly

----------------------------------------------------------------------------
(* The invariant at the outset *)

\* How the requests answer.
LEMMA Answers ==
    /\ NoLast.kind = "none" /\ \A kind \in {"send", "import"} : Refused(kind).kind = kind /\ ~Refused(kind).ok
    /\ \A w : Sent(w).kind = "send"
  BY DEF NoLast, Refused, Sent

\* The types hold at the outset.
LEMMA InitTypes == Init => TypeInv
<1> SUFFICES ASSUME Init PROVE TypeInv
  OBVIOUS
<1>1. TmplType(tmpl)
  BY DEF Init, TmplType
<1>2. groups \subseteq Groups /\ orders \subseteq Orders /\ last.kind \in {"none", "send", "import"}
      /\ events \in 0 .. MaxEvents /\ wiz = NoWiz
  BY Answers, Counts DEF Init
<1>3. lists \in [ListNames -> ListStates] /\ \A l \in ListNames : lists[l] = "none"
  BY DEF Init, ListStates
<1>4. \A i \in DOMAIN OldContacts : OldContacts[i] \in Person /\ OldContacts[i].is /\ OldContacts[i].lists = {}
  <2>1. OldContacts \in Seq(Person)
    BY ComposerAssumption
  <2>2. \A i \in DOMAIN OldContacts : OldContacts[i] \in Person
    BY <2>1
  <2> QED BY <2>2, ComposerAssumption
<1>5. \A i \in Contacts : contact[i] = IF i \in DOMAIN OldContacts THEN OldContacts[i] ELSE NoContact
  BY DEF Init
<1>6. contact \in [Contacts -> Person]
  <2>1. \A i \in Contacts : contact[i] \in Person
    BY <1>4, <1>5, Records
  <2>2. contact = [i \in Contacts |-> contact[i]]
    BY DEF Init
  <2> QED BY <2>1, <2>2
<1>7. ContactType(contact, lists)
  <2>1. \A i \in Contacts : contact[i].lists = {} /\ (~contact[i].is => contact[i] = NoContact)
    BY <1>4, <1>5, Records
  <2> QED BY <1>3, <1>6, <2>1 DEF ContactType
<1>8. Unique(contact)
  <2>1. ASSUME NEW n \in Numbers PROVE Cardinality({i \in Carriers(contact, n) : contact[i].active}) <= 1
    <3> DEFINE S == {i \in Carriers(contact, n) : contact[i].active}
    <3>1. \A i, j \in S : i = j
      <4>1. \A i \in S : i \in DOMAIN OldContacts /\ OldContacts[i].active /\ OldContacts[i].phone = n
        BY <1>5, Records DEF Carriers
      <4> QED BY <4>1, ComposerAssumption
    <3>2. S = {} \/ \E i : S = {i}
      BY <3>1
    <3> HIDE DEF S
    <3>3. Cardinality(S) \in {0, 1}
      BY <3>2, FS_EmptySet, FS_Singleton
    <3>4. Cardinality(S) <= 1
      BY <3>3
    <3> QED BY <3>4 DEF S
  <2> QED BY <2>1 DEF Unique
<1> QED BY <1>1, <1>2, <1>7, <1>8 DEF TypeInv

----------------------------------------------------------------------------
(* The records and the wizard under the requests *)

\* The fields of an open wizard.
LEMMA WizardKeeps ==
    ASSUME NEW w \in Wizard
    PROVE  /\ w.on /\ w.model \in Models /\ w.ids \subseteq Nat /\ w.groups \subseteq Groups
           /\ w.files \in {<<>>, << <<"own", 0>> >>} /\ w.tmpl \in {"none", "set", "gone"}
           /\ w.session \in Sessions /\ w.phone \in Phones /\ w.body \in Body
  BY DEF Wizard

\* An edit leaves the records, their model and the choice of a template alone.
LEMMA EditKeeps ==
    ASSUME NEW w \in Wizard, Edit, wiz = w, groups \subseteq Groups
    PROVE  /\ wiz' \in Wizard /\ wiz'.ids = w.ids /\ wiz'.model = w.model
           /\ wiz'.body \in {w.body, Blank, Own} /\ wiz'.tmpl = w.tmpl
<1>1. Typed \in Phones /\ "none" \in Phones
  BY Counts
<1>2. CASE \E p \in {"none", Typed} : wiz' = [wiz EXCEPT !.phone = p]
  <2>1. PICK p \in Phones : wiz' = [w EXCEPT !.phone = p]
    BY <1>1, <1>2
  <2> QED BY <2>1 DEF Wizard
<1>3. CASE \E b \in {Blank, Own} : wiz' = [wiz EXCEPT !.body = b]
  <2>1. PICK b \in Body : wiz' = [w EXCEPT !.body = b] /\ b \in {Blank, Own}
    BY <1>3, Words
  <2> QED BY <2>1 DEF Wizard
<1>4. CASE \E gs \in SUBSET groups : wiz' = [wiz EXCEPT !.groups = gs]
  <2>1. PICK gs \in SUBSET Groups : wiz' = [w EXCEPT !.groups = gs]
    BY <1>4
  <2> QED BY <2>1 DEF Wizard
<1>5. CASE \E s \in Sessions : wiz' = [wiz EXCEPT !.session = s]
  <2>1. PICK s \in Sessions : wiz' = [w EXCEPT !.session = s]
    BY <1>5
  <2> QED BY <2>1 DEF Wizard
<1>6. CASE wiz' = [wiz EXCEPT !.files = << <<"own", 0>> >>]
  <2> DEFINE fs == << <<"own", 0>> >>
  <2>1. fs \in {<<>>, << <<"own", 0>> >>} /\ wiz' = [w EXCEPT !.files = fs]
    BY <1>6
  <2> DEFINE Fs == {<<>>, << <<"own", 0>> >>}
  <2>2. Wizard = [on : {TRUE}, model : Models, ids : SUBSET Nat, files : Fs,
           groups : SUBSET Groups, tmpl : {"none", "set", "gone"}, session : Sessions,
           phone : Phones, body : Body]
    BY DEF Wizard
  <2> HIDE DEF fs, Fs
  <2> QED BY <2>1, <2>2 DEF Fs
<1> QED BY <1>2, <1>3, <1>4, <1>5, <1>6 DEF Edit

\* Nobody and nothing that is gone comes back.
Ages ==
    /\ orders' \subseteq orders
    /\ \A i \in Contacts : contact[i] # NoContact => contact'[i] # NoContact /\ (contact'[i].is => contact[i].is)

\* The contacts after one of them was written.
Rewritten(i, c) == contact' = [contact EXCEPT ![i] = c] /\ lists' = lists

\* Writing one contact keeps the types, unless it brings somebody back.
LEMMA OneWritten ==
    ASSUME ContactType(contact, lists), NEW i \in Contacts, NEW c \in Person, Rewritten(i, c),
           c.is \/ c = Gone, c.lists \subseteq contact[i].lists,
           contact[i] # NoContact => (c.is => contact[i].is)
    PROVE  /\ ContactType(contact', lists')
           /\ \A j \in Contacts : contact[j] # NoContact => contact'[j] # NoContact /\ (contact'[j].is => contact[j].is)
<1>1. contact \in [Contacts -> Person] /\ contact' \in [Contacts -> Person] /\ contact'[i] = c
      /\ \A j \in Contacts : j # i => contact'[j] = contact[j]
  BY DEF ContactType, Rewritten
<1>2. lists' = lists
  BY DEF Rewritten
<1>3. ContactType(contact', lists')
  <2>1. \A j \in Contacts : ~contact'[j].is => contact'[j] \in {NoContact, Gone}
    BY <1>1 DEF ContactType
  <2>2. \A j \in Contacts : contact'[j].lists \subseteq {l \in ListNames : lists[l] # "none"}
    BY <1>1 DEF ContactType
  <2> QED BY <1>1, <1>2, <2>1, <2>2 DEF ContactType
<1>4. c # NoContact
  BY Records
<1> QED BY <1>1, <1>3, <1>4

\* What people do with the contacts.
SomeContact ==
    \/ \E n \in Numbers : Stop(n) \/ \E name \in Names : MakeContact(n, name)
    \/ \E i \in Contacts : Archive(i) \/ DeleteContact(i)

\* None of it brings anybody back, or gives a number a second active contact.
LEMMA ContactActions ==
    ASSUME TypeInv
    PROVE  SomeContact =>
             /\ ContactType(contact', lists') /\ Unique(contact') /\ UNCHANGED orders
             /\ \A j \in Contacts : contact[j] # NoContact => contact'[j] # NoContact /\ (contact'[j].is => contact[j].is)
<1> DEFINE Result ==
      /\ ContactType(contact', lists') /\ Unique(contact') /\ UNCHANGED orders
      /\ \A j \in Contacts : contact[j] # NoContact => contact'[j] # NoContact /\ (contact'[j].is => contact[j].is)
<1>1. ContactType(contact, lists) /\ contact \in [Contacts -> Person]
  BY DEF TypeInv, ContactType
<1>2. ASSUME NEW cs, Write(cs) PROVE contact' = cs /\ Unique(contact') /\ UNCHANGED <<orders, lists>>
  BY <1>2 DEF Write
<1>3. ASSUME NEW n \in Numbers, NEW name \in Names, MakeContact(n, name) PROVE Result
  <2> DEFINE k == MinOf(Free(contact))
             c == [is |-> TRUE, name |-> name, phone |-> n, lists |-> {}, active |-> TRUE, out |-> FALSE]
  <2>1. k \in Contacts /\ contact[k] = NoContact
    <3>1. Free(contact) # {} /\ Free(contact) \subseteq Contacts /\ Free(contact) \subseteq Nat
      BY <1>3, Records DEF MakeContact, Free
    <3>2. k \in Free(contact)
      BY <3>1, MinOfFacts
    <3> QED BY <3>2 DEF Free
  <2>2. Unique(contact') /\ UNCHANGED orders /\ Rewritten(k, c)
    BY <1>2, <1>3 DEF MakeContact, Rewritten
  <2>3. c \in Person /\ c.is /\ c.lists = {}
    BY Counts DEF Person
  <2> HIDE DEF k, c
  <2> QED BY <1>1, <2>1, <2>2, <2>3, OneWritten
<1>4. ASSUME NEW i \in Contacts, Archive(i) PROVE Result
  <2> DEFINE c == [contact[i] EXCEPT !.active = ~@]
             old == contact[i]
  <2>1. Unique(contact') /\ UNCHANGED <<orders, lists>> /\ contact' = [contact EXCEPT ![i].active = ~@] /\ old.is
    BY <1>2, <1>4 DEF Archive
  <2>2. Rewritten(i, c)
    BY <1>1, <2>1 DEF Rewritten
  <2>3. old \in Person
    BY <1>1
  <2>4. c = [old EXCEPT !.active = ~old.active] /\ old = contact[i]
    OBVIOUS
  <2> HIDE DEF c, old
  <2>5. c \in Person /\ c.is = old.is /\ c.lists = old.lists
    BY <2>3, <2>4 DEF Person
  <2> QED BY <1>1, <2>1, <2>2, <2>4, <2>5, OneWritten
<1>5. ASSUME NEW i \in Contacts, DeleteContact(i) PROVE Result
  <2>1. Unique(contact') /\ UNCHANGED orders /\ Rewritten(i, Gone)
    BY <1>2, <1>5 DEF DeleteContact, Rewritten
  <2> QED BY <1>1, <2>1, Records, OneWritten
<1>6. ASSUME NEW n \in Numbers, Stop(n) PROVE Result
  <2> DEFINE cs == [j \in Contacts |-> IF j \in Carriers(contact, n) /\ contact[j].active
                                      THEN [contact[j] EXCEPT !.out = TRUE] ELSE contact[j]]
  <2>1. contact' = cs /\ Unique(contact') /\ UNCHANGED <<orders, lists>>
    BY <1>2, <1>6 DEF Stop
  <2>2. ASSUME NEW j \in Contacts
        PROVE  /\ cs[j] \in Person /\ cs[j].is = contact[j].is /\ cs[j].lists = contact[j].lists
               /\ (cs[j] = contact[j] \/ contact[j].is)
    <3> DEFINE old == contact[j]
               new == [old EXCEPT !.out = TRUE]
    <3>1. old \in Person /\ (cs[j] = old \/ (old.is /\ cs[j] = new))
      BY <1>1 DEF Carriers
    <3>2. old \in Person => new \in Person /\ new.is = old.is /\ new.lists = old.lists
      <4> HIDE DEF old
      <4> QED BY DEF Person
    <3> HIDE DEF cs, new
    <3> QED BY <3>1, <3>2
  <2>3. DOMAIN cs = Contacts /\ cs \in [Contacts -> Person]
    <3>1. cs = [j \in Contacts |-> cs[j]]
      OBVIOUS
    <3> HIDE DEF cs
    <3> QED BY <2>2, <3>1
  <2> HIDE DEF cs
  <2>4. ContactType(cs, lists)
    BY <1>1, <2>2, <2>3 DEF ContactType
  <2>5. \A j \in Contacts : contact[j] # NoContact => cs[j] # NoContact
    BY <2>2, Records
  <2> QED BY <2>1, <2>2, <2>4, <2>5
<1>7. SomeContact => Result
  <2> HIDE DEF Result
  <2> QED BY <1>3, <1>4, <1>5, <1>6 DEF SomeContact
<1> QED BY <1>7

\* An import keeps the types, brings nobody back, and leaves no trace when refused.
LEMMA ImportKeeps ==
    ASSUME TypeInv, NEW file \in Files, NEW default \in ListNames \cup {"none"}, NEW update \in BOOLEAN,
           Import(file, default, update)
    PROVE  /\ ContactType(contact', lists') /\ Unique(contact') /\ UNCHANGED orders
           /\ \A j \in Contacts : contact[j] # NoContact => contact'[j] # NoContact /\ (contact'[j].is => contact[j].is)
           /\ last'.kind = "import" /\ (~last'.ok => UNCHANGED <<contact, lists>>)
<1> DEFINE s == Imported(file, default, update)
           answer == [kind |-> "import", ok |-> TRUE, created |-> s.created,
                      updated |-> s.updated, skipped |-> s.skipped]
<1>1. file \in Seq(Row) /\ Fits(file) /\ (default # "none" => lists[default] = "active")
  BY ComposerAssumption DEF Import
<1>2. s \in Reads /\ Progress(s, Len(file), file, default, update)
  BY <1>1, ImportedIs
<1>3. IF s.ok THEN contact' = s.contact /\ lists' = s.lists /\ last' = answer
      ELSE last' = Refused("import") /\ UNCHANGED <<contact, lists>>
  BY DEF Import
<1>4. UNCHANGED orders /\ ContactType(contact, lists) /\ Unique(contact)
  BY DEF Import, TypeInv
<1>5. answer.kind = "import" /\ answer.ok
  OBVIOUS
<1> HIDE DEF s, answer
<1>6. CASE s.ok
  <2>1. ContactType(s.contact, s.lists) /\ Unique(s.contact)
    BY <1>2, <1>6 DEF Progress
  <2>2. ASSUME NEW j \in Contacts, contact[j] # NoContact
        PROVE  s.contact[j] # NoContact /\ (s.contact[j].is => contact[j].is)
    <3>1. Kept(s, j)
      BY <1>2 DEF Progress
    <3> QED BY <2>2, <3>1, Records DEF Kept
  <2> QED BY <1>3, <1>4, <1>5, <1>6, <2>1, <2>2
<1>7. CASE ~s.ok
  BY <1>3, <1>4, <1>7, Answers
<1> QED BY <1>6, <1>7

\* The fields of a template as a manager writes it.
LEMMA TemplateFields ==
    ASSUME NEW cfg \in Configs, NEW active \in BOOLEAN, NEW menu \in Models \cup {"none"}
    PROVE  /\ Template(cfg, active, menu).is /\ Template(cfg, active, menu).active = active
           /\ Template(cfg, active, menu).menu = menu /\ Template(cfg, active, menu).model = cfg.model
           /\ Template(cfg, active, menu).field = cfg.field
  BY DEF Template

\* The menu of a template, and what an entry of it means.
MenuOf(cfg, active) == IF active THEN cfg.model ELSE "none"

\* An entry of the menu belongs to an active template of that model.
LEMMA MenuMeans ==
    ASSUME TmplType(tmpl)
    PROVE  /\ tmpl.menu \in Models => tmpl.is /\ tmpl.model = tmpl.menu /\ tmpl.active
           /\ tmpl.active => tmpl.is
           /\ ~tmpl.is => tmpl = NoTmpl
           /\ tmpl.is => \E cfg \in Configs, active \in BOOLEAN :
                 tmpl = Template(cfg, active, MenuOf(cfg, active)) /\ MenuOf(cfg, active) \in Models \cup {"none"}
<1>1. CASE tmpl = NoTmpl
  BY <1>1, NoTmplIsOff DEF Models
<1>2. CASE tmpl # NoTmpl
  <2>1. PICK cfg \in Configs, active \in BOOLEAN : tmpl = Template(cfg, active, MenuOf(cfg, active))
    BY <1>2 DEF TmplType, MenuOf
  <2>2. MenuOf(cfg, active) \in Models \cup {"none"}
    BY CfgTypes DEF MenuOf
  <2>3. tmpl.is /\ tmpl.active = active /\ tmpl.menu = MenuOf(cfg, active) /\ tmpl.model = cfg.model
    BY <2>1, <2>2, TemplateFields
  <2>4. "none" \notin Models
    BY DEF Models
  <2> QED BY <2>1, <2>2, <2>3, <2>4 DEF MenuOf
<1> QED BY <1>1, <1>2

\* Every write of the template takes its entry along.
LEMMA TemplateKeeps ==
    ASSUME TmplType(tmpl), NEW cfg \in Configs, NEW on \in BOOLEAN
    PROVE  CreateTemplate(cfg, on) \/ WriteTemplate(cfg) \/ SetActive(on) \/ UnlinkTemplate => TmplType(tmpl')
<1>1. CASE CreateTemplate(cfg, on)
  BY <1>1 DEF CreateTemplate, TmplType
<1>2. CASE WriteTemplate(cfg)
  <2>1. tmpl.is /\ tmpl' = Template(cfg, tmpl.active, MenuFollows(tmpl.menu, cfg))
    BY <1>2 DEF WriteTemplate
  <2>2. tmpl.active \in BOOLEAN /\ tmpl.menu = (IF tmpl.active THEN tmpl.model ELSE "none") /\ tmpl.model \in Models
    BY <2>1, TmplFields
  <2>3. MenuFollows(tmpl.menu, cfg) = MenuOf(cfg, tmpl.active)
    BY <2>2 DEF MenuFollows, MenuOf, Models
  <2>4. PICK active \in BOOLEAN : active = tmpl.active
    BY <2>2
  <2>5. tmpl' = Template(cfg, active, MenuOf(cfg, active))
    BY <2>1, <2>3, <2>4
  <2> QED BY <2>5 DEF TmplType, MenuOf
<1>3. CASE SetActive(on)
  <2> DEFINE menu == CASE ~on -> "none" [] on /\ tmpl.menu = "none" -> tmpl.model [] OTHER -> tmpl.menu
  <2>1. tmpl.is /\ tmpl' = [tmpl EXCEPT !.active = on, !.menu = menu]
    BY <1>3 DEF SetActive
  <2>2. PICK cfg1 \in Configs, active \in BOOLEAN :
           tmpl = Template(cfg1, active, MenuOf(cfg1, active)) /\ MenuOf(cfg1, active) \in Models \cup {"none"}
    BY <2>1, MenuMeans
  <2>3. tmpl.menu = MenuOf(cfg1, active) /\ tmpl.model = cfg1.model /\ cfg1.model \in Models
    BY <2>2, TemplateFields, CfgTypes
  <2>4. menu = MenuOf(cfg1, on)
    BY <2>3 DEF MenuOf, Models
  <2> HIDE DEF menu
  <2>5. tmpl' = Template(cfg1, on, menu)
    BY <2>1, <2>2 DEF Template
  <2>6. tmpl' = Template(cfg1, on, MenuOf(cfg1, on))
    BY <2>4, <2>5
  <2> QED BY <2>6 DEF TmplType, MenuOf
<1>4. CASE UnlinkTemplate
  BY <1>4 DEF UnlinkTemplate, TmplType
<1> QED BY <1>1, <1>2, <1>3, <1>4

\* The wizard after its template was deleted, and after one was chosen.
Unlinked(w) == [w EXCEPT !.tmpl = "gone"]

\* A wizard that lost its template is otherwise as it was.
LEMMA UnlinkedWizard ==
    ASSUME NEW w \in Wizard
    PROVE  /\ Unlinked(w) \in Wizard /\ Unlinked(w).ids = w.ids /\ Unlinked(w).model = w.model
           /\ Unlinked(w).body = w.body
<1>1. Unlinked(w) \in Wizard
  BY DEF Wizard, Unlinked
<1>2. Unlinked(w).ids = w.ids
  BY DEF Wizard, Unlinked
<1>3. Unlinked(w).model = w.model
  BY DEF Wizard, Unlinked
<1>4. Unlinked(w).body = w.body
  BY DEF Wizard, Unlinked
<1> QED BY <1>1, <1>2, <1>3, <1>4

Picked(w, ids, files) == [w EXCEPT !.ids = ids, !.files = files]

\* A choice of template keeps the records and the files.
LEMMA PickedWizard ==
    ASSUME NEW w \in Wizard, NEW ids \in SUBSET Nat, NEW files \in {<<>>, << <<"own", 0>> >>}
    PROVE  /\ Picked(w, ids, files) \in Wizard /\ Picked(w, ids, files).ids = ids
           /\ Picked(w, ids, files).model = w.model /\ Picked(w, ids, files).body = w.body
           /\ Picked(w, ids, files).tmpl = w.tmpl
<1> DEFINE Fs == {<<>>, << <<"own", 0>> >>}
           u == [w EXCEPT !.ids = ids, !.files = files]
<1>1. Wizard = [on : {TRUE}, model : Models, ids : SUBSET Nat, files : Fs,
           groups : SUBSET Groups, tmpl : {"none", "set", "gone"}, session : Sessions,
           phone : Phones, body : Body]
  BY DEF Wizard
<1>2. files \in Fs
  OBVIOUS
<1> HIDE DEF Fs
<1>3. u \in Wizard
  BY <1>1, <1>2
<1>4. u.ids = ids /\ u.model = w.model /\ u.body = w.body /\ u.tmpl = w.tmpl
  BY <1>1
<1> QED BY <1>3, <1>4 DEF Picked

\* What is said of a wizard stays true while records only disappear.
LEMMA Aged ==
    ASSUME Ages, NEW w \in Wizard, WizSays(w)
    PROVE  WizSays(w)'
<1>1. w.model \in Models
  BY WizardKeeps
<1>2. w.model = "contact" => \A i \in w.ids : i \in Contacts /\ contact'[i] # NoContact
  BY DEF WizSays, Ages
<1>3. Surviving(w)' \subseteq Surviving(w)
  <2>1. ASSUME NEW i \in w.ids, Exists(w.model, i)' PROVE Exists(w.model, i)
    <3>1. CASE w.model = "order"
      BY <2>1, <3>1 DEF Exists, Ages
    <3>2. CASE w.model = "contact"
      BY <2>1, <3>2 DEF Exists, Ages, WizSays
    <3> QED BY <1>1, <3>1, <3>2 DEF Models
  <2> QED BY <2>1 DEF Surviving
<1>4. Speaks(w) => Speaks(w)'
  BY <1>3 DEF Speaks
<1> QED BY <1>2, <1>4 DEF WizSays

\* It also stays true of a wizard with the same records and an own text or none.
LEMMA SameWords ==
    ASSUME NEW w \in Wizard, NEW u \in Wizard, WizSays(w), u.ids = w.ids, u.model = w.model,
           u.body \in {w.body, Blank, Own}
    PROVE  WizSays(u)
<1>1. Surviving(u) = Surviving(w)
  BY DEF Surviving
<1>2. u.body \notin {Blank, Own} => Speaks(u)
  BY <1>1 DEF WizSays, Speaks
<1> QED BY <1>2 DEF WizSays

\* A text that is rendered is that of the only record.
LEMMA FreshSays ==
    ASSUME TypeInv, NEW m \in Models, NEW ids \in SUBSET Nat, ids # {}, NEW useTmpl \in BOOLEAN,
           useTmpl => tmpl.is, \A i \in ids : Exists(m, i)
    PROVE  LET w == Fresh(m, ids, useTmpl)
           IN  w.body \notin {Blank, Own} =>
                  \E i \in Nat : /\ ids = {i} /\ w.body.of = <<tmpl.model, i>> /\ useTmpl
                                 /\ w.body.name.says # 0 => w.body.name.marks = "inert"
<1> DEFINE w == Fresh(m, ids, useTmpl)
<1> HIDE DEF w
<1>1. SUFFICES ASSUME w.body \notin {Blank, Own}
               PROVE  \E i \in Nat : /\ ids = {i} /\ w.body.of = <<tmpl.model, i>> /\ useTmpl
                                     /\ w.body.name.says # 0 => w.body.name.marks = "inert"
  BY DEF w
<1>2. useTmpl /\ OnlyText(w, ids)
  <2>1. Opened(w, m, ids, useTmpl)
    BY FreshType DEF w
  <2> QED BY <1>1, <2>1 DEF Opened
<1>3. PICK i \in ids : ids = {i} /\ w.body = RenderBody(tmpl.model, i) /\ Exists(tmpl.model, i)
  BY <1>2 DEF OnlyText
<1>4. tmpl.model \in Models /\ i \in Nat
  BY <1>2, <1>3, TmplFields DEF TypeInv
<1>5. NameOf(tmpl.model, i) \in Nat
  BY <1>3, <1>4, Lines
<1>6. /\ RenderBody(tmpl.model, i).of = <<tmpl.model, i>>
      /\ RenderBody(tmpl.model, i).name.says # 0 => RenderBody(tmpl.model, i).name.marks = "inert"
  BY <1>4, <1>5, Rendered
<1> QED BY <1>2, <1>3, <1>4, <1>6

\* A wizard opens on a template of its model, with a text of its only record.
LEMMA OpenKeeps ==
    ASSUME TypeInv, NEW m \in Models, NEW ids \in SUBSET Nat, NEW useTmpl \in BOOLEAN, Open(m, ids, useTmpl)
    PROVE  wiz' \in Wizard /\ wiz'.ids # {} /\ WizSays(wiz') /\ (wiz'.tmpl = "set" => tmpl.is)
<1> DEFINE w == Fresh(m, ids, useTmpl)
<1>1. wiz' = w /\ ids # {} /\ \A i \in ids : Exists(m, i)
  BY DEF Open
<1>2. useTmpl => tmpl.is /\ tmpl.model = m
  BY MenuMeans DEF Open, TypeInv
<1>3. Opened(Fresh(m, ids, useTmpl), m, ids, useTmpl)
  BY <1>1, <1>2, FreshType
<1>4. w \in Wizard /\ w.ids = ids /\ w.model = m /\ w.tmpl = (IF useTmpl THEN "set" ELSE "none")
      /\ ids \subseteq (IF m = "order" THEN Orders ELSE Contacts)
  <2> HIDE DEF w
  <2> QED BY <1>3 DEF Opened, w
<1>5. w.body \notin {Blank, Own} =>
         \E i \in Nat : /\ ids = {i} /\ w.body.of = <<tmpl.model, i>> /\ useTmpl
                        /\ w.body.name.says # 0 => w.body.name.marks = "inert"
  BY <1>1, <1>2, FreshSays
<1> HIDE DEF w
<1>6. w.body \notin {Blank, Own} => Speaks(w)
  <2>1. Surviving(w) \subseteq ids
    BY <1>4 DEF Surviving
  <2> QED BY <1>2, <1>4, <1>5, <2>1 DEF Speaks
<1>7. m = "contact" => \A i \in ids : i \in Contacts /\ contact[i] # NoContact
  BY <1>1, <1>4, Records DEF Exists
<1>8. m = "order" => ids \subseteq Orders
  BY <1>4
<1> QED BY <1>1, <1>2, <1>4, <1>6, <1>7, <1>8 DEF WizSays

\* So does it take on a template, with the records that are left.
LEMMA PickKeeps ==
    ASSUME TypeInv, NEW w \in Wizard, w = wiz, WizSays(w), NEW useTmpl \in BOOLEAN, PickTemplate(useTmpl)
    PROVE  wiz' \in Wizard /\ wiz'.ids = w.ids /\ WizSays(wiz') /\ (wiz'.tmpl = "set" => tmpl.is)
<1> DEFINE ids == {i \in w.ids : Exists(w.model, i)}
           f == Fresh(w.model, ids, useTmpl)
           v == [f EXCEPT !.ids = w.ids, !.files = w.files]
<1>1. ids # {} /\ wiz' = v /\ \A i \in ids : Exists(w.model, i)
  BY DEF PickTemplate
<1>2. useTmpl => tmpl.is /\ tmpl.model = w.model
  BY MenuMeans DEF PickTemplate, TypeInv
<1>3. w.model \in Models /\ w.ids \in SUBSET Nat /\ ids \in SUBSET Nat /\ w.files \in {<<>>, << <<"own", 0>> >>}
  BY WizardKeeps
<1> HIDE DEF ids
<1>4. f \in Wizard /\ f.model = w.model /\ f.tmpl = (IF useTmpl THEN "set" ELSE "none")
  <2> DEFINE m == w.model
  <2>1. m \in Models /\ (useTmpl => tmpl.is) /\ \A i \in ids : Exists(m, i)
    BY <1>1, <1>2, <1>3
  <2> HIDE DEF m
  <2>2. Opened(Fresh(m, ids, useTmpl), m, ids, useTmpl)
    BY <1>1, <1>3, <2>1, FreshType
  <2> QED BY <2>2 DEF Opened, m
<1>5. f.body \notin {Blank, Own} =>
         \E i \in Nat : /\ ids = {i} /\ f.body.of = <<tmpl.model, i>> /\ useTmpl
                        /\ f.body.name.says # 0 => f.body.name.marks = "inert"
  BY <1>1, <1>2, <1>3, FreshSays
<1>6. v \in Wizard /\ v.ids = w.ids /\ v.model = f.model /\ v.body = f.body /\ v.tmpl = f.tmpl
  <2> DEFINE is == w.ids
             fs == w.files
  <2>1. is \in SUBSET Nat /\ fs \in {<<>>, << <<"own", 0>> >>} /\ v = Picked(f, is, fs) /\ is = w.ids
    BY <1>3 DEF Picked
  <2> HIDE DEF f, is, fs, v
  <2> QED BY <1>4, <2>1, PickedWizard
<1> HIDE DEF f, v
<1>7. v.body \notin {Blank, Own} => Speaks(v)
  <2>1. Surviving(v) = ids
    BY <1>4, <1>6 DEF Surviving, ids
  <2> QED BY <1>2, <1>4, <1>5, <1>6, <2>1 DEF Speaks
<1> QED BY <1>1, <1>2, <1>4, <1>6, <1>7 DEF WizSays

----------------------------------------------------------------------------
(* Every step keeps the invariant *)

\* No wizard, or one that is right.
WizOk(w) == w = NoWiz \/ (w \in Wizard /\ w.ids # {} /\ WizSays(w))

\* A wizard whose template was deleted knows it.
Named == wiz.on /\ wiz.tmpl = "set" => tmpl.is

\* The inductive invariant.
IInv == TypeInv /\ WizInv /\ Named

\* What every step leaves behind, the wizard judged by the records as they were.
ContactsOk == ContactType(contact', lists') /\ Unique(contact') /\ Ages

Post ==
    /\ TmplType(tmpl') /\ groups' \subseteq Groups /\ ContactsOk /\ WizOk(wiz')
    /\ last'.kind \in {"none", "send", "import"} /\ events' \in 0 .. MaxEvents
    /\ Named'

\* The invariant, said of the wizard as one value.
LEMMA Before == IInv => WizOk(wiz) /\ ~NoWiz.on
<1>1. ~NoWiz.on
  BY DEF NoWiz
<1>2. wiz \in Wizard => wiz.on
  BY WizardKeeps
<1> QED BY <1>1, <1>2 DEF IInv, TypeInv, WizInv, WizOk

\* The wizard judged by the old records is right by the new ones.
LEMMA After == IInv /\ Post => IInv'
<1> SUFFICES ASSUME IInv, Post PROVE IInv'
  OBVIOUS
<1>1. wiz' = NoWiz \/ (wiz' \in Wizard /\ wiz'.ids # {} /\ WizSays(wiz'))
  BY DEF Post, WizOk
<1>2. Ages /\ ContactType(contact', lists') /\ Unique(contact')
  BY DEF Post, ContactsOk
<1>3. (wiz.on => WizSays(wiz))'
  <2>1. CASE wiz' = NoWiz
    BY <2>1, Before
  <2>2. CASE wiz' # NoWiz
    <3>1. PICK w \in Wizard : w = wiz' /\ WizSays(w)
      BY <1>1, <2>2
    <3>2. WizSays(w)'
      BY <1>2, <3>1, Aged
    <3> QED BY <3>1, <3>2 DEF WizSays, Speaks, Surviving
  <2> QED BY <2>1, <2>2
<1>4. WizInv'
  BY <1>3 DEF WizInv
<1>5. orders' \subseteq Orders
  BY <1>2 DEF IInv, TypeInv, Ages
<1>6. TypeInv'
  <2>1. TmplType(tmpl)'
    BY DEF Post, TmplType
  <2>2. ContactType(contact, lists)' /\ Unique(contact)'
    BY <1>2
  <2> QED BY <1>1, <1>5, <2>1, <2>2 DEF TypeInv, Post
<1> QED BY <1>4, <1>6 DEF IInv, Post

\* Who does not touch the records keeps what is said of them.
LEMMA ContactsStay ==
    ASSUME IInv, UNCHANGED <<orders, contact, lists>>
    PROVE  ContactsOk
  BY DEF IInv, TypeInv, ContactsOk, Ages

\* The bound on events.
LEMMA Counted ==
    ASSUME events \in 0 .. MaxEvents, Event
    PROVE  events' \in 0 .. MaxEvents
  BY Counts DEF Event

\* What a manager does with the template.
LEMMA ManageTemplateStep == IInv /\ ManageTemplate => Post
<1> SUFFICES ASSUME IInv, ManageTemplate PROVE Post
  OBVIOUS
<1> USE DEF NoLast
<1>1. PICK cfg \in Configs, on \in BOOLEAN :
         CreateTemplate(cfg, on) \/ WriteTemplate(cfg) \/ SetActive(on) \/ UnlinkTemplate
  <2>1. CASE \E cfg \in Configs : WriteTemplate(cfg) \/ \E on \in BOOLEAN : CreateTemplate(cfg, on)
    BY <2>1
  <2>2. CASE \E on \in BOOLEAN : SetActive(on)
    <3>1. PICK on \in BOOLEAN : SetActive(on)
      BY <2>2
    <3>2. tmpl.is /\ TmplType(tmpl)
      BY <3>1 DEF SetActive, IInv, TypeInv
    <3>3. \E cfg \in Configs : TRUE
      BY <3>2, MenuMeans
    <3> QED BY <3>1, <3>3
  <2>3. CASE UnlinkTemplate
    <3>1. tmpl.is /\ TmplType(tmpl)
      BY <2>3 DEF UnlinkTemplate, IInv, TypeInv
    <3>2. \E cfg \in Configs : TRUE
      BY <3>1, MenuMeans
    <3> QED BY <2>3, <3>2
  <2> QED BY <2>1, <2>2, <2>3 DEF ManageTemplate
<1>2. TmplType(tmpl) /\ groups \subseteq Groups /\ events \in 0 .. MaxEvents
  BY DEF IInv, TypeInv
<1>3. TmplType(tmpl')
  BY <1>1, <1>2, TemplateKeeps
<1>4. /\ Event /\ last' = NoLast /\ UNCHANGED <<groups, orders, contact, lists>>
      /\ (wiz' = wiz \/ (wiz.on /\ wiz' = Unlinked(wiz)))
  BY <1>1 DEF CreateTemplate, WriteTemplate, SetActive, UnlinkTemplate, Unlinked
<1>5. events' \in 0 .. MaxEvents /\ ContactsOk
  BY <1>2, <1>4, Counted, ContactsStay
<1>6. WizOk(wiz')
  <2>1. WizOk(wiz)
    BY Before
  <2>2. CASE wiz' = wiz
    BY <2>1, <2>2
  <2>3. CASE wiz.on /\ wiz' = Unlinked(wiz)
    <3>1. PICK w \in Wizard : w = wiz /\ w.ids # {} /\ WizSays(w)
      BY <2>1, <2>3, Before DEF WizOk
    <3>2. /\ Unlinked(w) \in Wizard /\ Unlinked(w).ids = w.ids /\ Unlinked(w).model = w.model
          /\ Unlinked(w).body = w.body
      BY UnlinkedWizard
    <3>3. WizSays(Unlinked(w))
      BY <3>1, <3>2, SameWords
    <3> QED BY <2>3, <3>1, <3>2, <3>3 DEF WizOk
  <2> QED BY <1>4, <2>2, <2>3
<1>7. Named'
  <2>1. Named /\ (wiz.on => wiz \in Wizard) /\ ~NoWiz.on
    BY Before DEF IInv, TypeInv
  <2>2. CASE UnlinkTemplate
    <3>1. \/ wiz' = wiz /\ ~(wiz.on /\ wiz.tmpl = "set")
          \/ wiz.on /\ wiz' = Unlinked(wiz)
      BY <2>2 DEF UnlinkTemplate, Unlinked
    <3>2. wiz.on => Unlinked(wiz).tmpl = "gone"
      <4>1. ASSUME NEW w \in Wizard PROVE Unlinked(w).tmpl = "gone"
        BY DEF Wizard, Unlinked
      <4> QED BY <2>1, <4>1
    <3> QED BY <3>1, <3>2 DEF Named
  <2>3. CASE ~UnlinkTemplate
    <3>1. wiz' = wiz
      BY <1>1, <2>3 DEF CreateTemplate, WriteTemplate, SetActive
    <3>2. CASE CreateTemplate(cfg, on)
      BY <3>2 DEF CreateTemplate, Template, Named
    <3>3. CASE WriteTemplate(cfg)
      BY <3>3 DEF WriteTemplate, Template, Named
    <3>4. CASE SetActive(on)
      <4>1. tmpl.is /\ \E menu : tmpl' = [tmpl EXCEPT !.active = on, !.menu = menu]
        BY <3>4 DEF SetActive
      <4>2. PICK cfg1 \in Configs, active \in BOOLEAN : tmpl = Template(cfg1, active, MenuOf(cfg1, active))
        BY <1>2, <4>1, MenuMeans
      <4>3. tmpl'.is
        BY <4>1, <4>2 DEF Template
      <4> QED BY <4>3 DEF Named
    <3> QED BY <1>1, <2>3, <3>2, <3>3, <3>4
  <2> QED BY <2>2, <2>3
<1> QED BY <1>2, <1>3, <1>4, <1>5, <1>6, <1>7 DEF Post

\* What an operator does with the wizard, and the server action.
LEMMA ComposeStep == IInv /\ Compose => Post
<1> SUFFICES ASSUME IInv, Compose PROVE Post
  OBVIOUS
<1>1. TypeInv /\ TmplType(tmpl) /\ groups \subseteq Groups /\ events \in 0 .. MaxEvents /\ WizOk(wiz) /\ Named
  BY Before DEF IInv, TypeInv
<1> DEFINE Kinds == {"none", "send", "import"}
           Quiet == UNCHANGED <<tmpl, groups, orders, contact, lists>>
<1>2. ASSUME Quiet, WizOk(wiz'), last'.kind \in Kinds, UNCHANGED events \/ Event, wiz'.on /\ wiz'.tmpl = "set" => tmpl.is
      PROVE  Post
  <2>1. events' \in 0 .. MaxEvents
    BY <1>1, <1>2, Counted
  <2>2. ContactsOk
    BY <1>2, ContactsStay
  <2>3. Named'
    BY <1>2 DEF Named
  <2> QED BY <1>1, <1>2, <2>1, <2>2, <2>3 DEF Post
<1>3. ASSUME NEW m \in Models, NEW ids \in SUBSET Nat, NEW useTmpl \in BOOLEAN, Open(m, ids, useTmpl)
      PROVE  Post
  <2>1. WizOk(wiz') /\ (wiz'.tmpl = "set" => tmpl.is)
    BY <1>1, <1>3, OpenKeeps DEF WizOk
  <2> QED BY <1>2, <1>3, <2>1 DEF Open, NoLast
<1>4. ASSUME NEW useTmpl \in BOOLEAN, PickTemplate(useTmpl) PROVE Post
  <2>1. wiz.on
    BY <1>4 DEF PickTemplate
  <2>2. PICK w \in Wizard : w = wiz /\ w.ids # {} /\ WizSays(w)
    BY <1>1, <2>1, Before DEF WizOk
  <2>3. WizOk(wiz') /\ (wiz'.tmpl = "set" => tmpl.is)
    BY <1>1, <1>4, <2>2, PickKeeps DEF WizOk
  <2> QED BY <1>2, <1>4, <2>3 DEF PickTemplate, NoLast
<1>5. CASE Edit
  <2>1. wiz.on
    BY <1>5 DEF Edit
  <2>2. PICK w \in Wizard : w = wiz /\ w.ids # {} /\ WizSays(w)
    BY <1>1, <2>1, Before DEF WizOk
  <2>3. wiz' \in Wizard /\ wiz'.ids = w.ids /\ wiz'.model = w.model /\ wiz'.body \in {w.body, Blank, Own}
        /\ wiz'.tmpl = w.tmpl
    BY <1>1, <1>5, <2>2, EditKeeps
  <2>4. WizSays(wiz')
    BY <2>2, <2>3, SameWords
  <2>5. WizOk(wiz')
    BY <2>2, <2>3, <2>4 DEF WizOk
  <2>6. Quiet /\ last'.kind = "none" /\ Event
    BY <1>5 DEF Edit, NoLast
  <2>7. wiz'.tmpl = "set" => tmpl.is
    BY <1>1, <2>1, <2>2, <2>3 DEF Named
  <2> QED BY <1>2, <2>5, <2>6, <2>7
<1>6. CASE Cancel
  <2>1. WizOk(wiz')
    BY <1>6 DEF Cancel, WizOk
  <2> QED BY <1>2, <1>6, <2>1, Before DEF Cancel, NoLast
<1>7. CASE Send
  <2>1. WizOk(wiz')
    BY <1>1, <1>7 DEF Send, WizOk
  <2>2. last'.kind = "send"
    BY <1>7, Answers DEF Send
  <2>3. wiz'.on /\ wiz'.tmpl = "set" => tmpl.is
    BY <1>1, <1>7, Before DEF Send, Named
  <2> QED BY <1>2, <1>7, <2>1, <2>2, <2>3 DEF Send
<1>8. ASSUME NEW ids, ServerAction(ids) PROVE Post
  <2>1. last'.kind = "send"
    BY <1>8, Answers DEF ServerAction
  <2>2. WizOk(wiz')
    BY <1>1, <1>8 DEF ServerAction
  <2>3. wiz'.on /\ wiz'.tmpl = "set" => tmpl.is
    BY <1>1, <1>8 DEF ServerAction, Named
  <2> QED BY <1>2, <1>8, <2>1, <2>2, <2>3 DEF ServerAction
<1>9. "order" \in Models /\ "contact" \in Models /\ SUBSET Orders \subseteq SUBSET Nat /\ SUBSET Contacts \subseteq SUBSET Nat
  BY Records DEF Models
<1> HIDE DEF Kinds, Quiet
<1> QED BY <1>3, <1>4, <1>5, <1>6, <1>7, <1>8, <1>9 DEF Compose

\* The import of a spreadsheet.
LEMMA ImportStep == IInv /\ ImportSome => Post
<1> SUFFICES ASSUME IInv, NEW file \in Files, NEW default \in ListNames \cup {"none"}, NEW update \in BOOLEAN,
                    Import(file, default, update)
             PROVE  Post
  BY DEF ImportSome
<1>1. TypeInv /\ TmplType(tmpl) /\ groups \subseteq Groups /\ events \in 0 .. MaxEvents /\ WizOk(wiz)
  BY Before DEF IInv, TypeInv
<1>2. /\ ContactType(contact', lists') /\ Unique(contact') /\ UNCHANGED orders
      /\ \A j \in Contacts : contact[j] # NoContact => contact'[j] # NoContact /\ (contact'[j].is => contact[j].is)
      /\ last'.kind = "import"
  BY <1>1, ImportKeeps
<1>3. Event /\ UNCHANGED <<tmpl, groups, wiz>>
  BY DEF Import
<1>4. events' \in 0 .. MaxEvents
  BY <1>1, <1>3, Counted
<1>5. Named'
  BY <1>3 DEF IInv, Named
<1> QED BY <1>1, <1>2, <1>3, <1>4, <1>5 DEF Post, ContactsOk, Ages

\* What else happens to contacts, lists, orders and groups.
LEMMA OthersStep == IInv /\ Others => Post
<1> SUFFICES ASSUME IInv, Others PROVE Post
  OBVIOUS
<1>1. TypeInv /\ TmplType(tmpl) /\ groups \subseteq Groups /\ orders \subseteq Orders /\ events \in 0 .. MaxEvents
      /\ WizOk(wiz) /\ ContactType(contact, lists) /\ Unique(contact)
  BY Before DEF IInv, TypeInv
<1> DEFINE Quiet == Event /\ last' = NoLast /\ UNCHANGED <<tmpl, wiz>>
<1>2. ASSUME Quiet, ContactsOk, groups' \subseteq Groups PROVE Post
  <2>1. events' \in 0 .. MaxEvents
    BY <1>1, <1>2, Counted
  <2>2. Named'
    BY <1>2 DEF IInv, Named
  <2> QED BY <1>1, <1>2, <2>1, <2>2 DEF Post, NoLast
<1>3. CASE SomeContact
  <2>1. /\ ContactType(contact', lists') /\ Unique(contact') /\ UNCHANGED orders
        /\ \A j \in Contacts : contact[j] # NoContact => contact'[j] # NoContact /\ (contact'[j].is => contact[j].is)
    BY <1>1, <1>3, ContactActions
  <2>2. Quiet /\ UNCHANGED groups
    BY <1>3 DEF SomeContact, MakeContact, Stop, Archive, DeleteContact, Write
  <2>3. ContactsOk
    BY <2>1 DEF ContactsOk, Ages
  <2> QED BY <1>1, <1>2, <2>2, <2>3
<1>4. ASSUME NEW l \in ListNames, ArchiveList(l) PROVE Post
  <2>1. lists' = [lists EXCEPT ![l] = "archived"] /\ Quiet /\ UNCHANGED <<groups, orders, contact>>
    BY <1>4 DEF ArchiveList
  <2>2. lists \in [ListNames -> ListStates]
    BY <1>1 DEF ContactType
  <2>3. lists' \in [ListNames -> ListStates] /\ \A x \in ListNames : lists[x] # "none" => lists'[x] # "none"
    BY <2>1, <2>2 DEF ListStates
  <2>4. ContactType(contact', lists')
    BY <1>1, <2>1, <2>3 DEF ContactType
  <2>5. ContactsOk
    BY <1>1, <2>1, <2>4 DEF ContactsOk, Ages
  <2> QED BY <1>1, <1>2, <2>1, <2>5
<1>5. ASSUME NEW i \in Orders, DeleteOrder(i) PROVE Post
  <2>1. orders' \subseteq orders /\ Quiet /\ UNCHANGED <<groups, contact, lists>>
    BY <1>5 DEF DeleteOrder
  <2>2. ContactsOk
    BY <1>1, <2>1 DEF ContactsOk, Ages
  <2> QED BY <1>1, <1>2, <2>1, <2>2
<1>6. ASSUME NEW s \in Sessions, NEW listed \in SUBSET {g \in Groups : GroupSession[g] = s}, SyncGroups(s, listed)
      PROVE  Post
  <2>1. groups' \subseteq Groups /\ Quiet /\ UNCHANGED <<orders, contact, lists>>
    BY <1>1, <1>6 DEF SyncGroups
  <2>2. ContactsOk
    BY <2>1, ContactsStay
  <2> QED BY <1>2, <2>1, <2>2
<1>7. ASSUME NEW g \in Groups, GroupWrites(g) PROVE Post
  <2>1. groups' \subseteq Groups /\ Quiet /\ UNCHANGED <<orders, contact, lists>>
    BY <1>1, <1>7 DEF GroupWrites
  <2>2. ContactsOk
    BY <2>1, ContactsStay
  <2> QED BY <1>2, <2>1, <2>2
<1> HIDE DEF Quiet
<1> QED BY <1>3, <1>4, <1>5, <1>6, <1>7 DEF Others, SomeContact

\* Every step keeps the invariant.
LEMMA Inductive == IInv /\ [Next]_vars => IInv'
<1> SUFFICES ASSUME IInv, [Next]_vars PROVE IInv'
  OBVIOUS
<1>1. CASE Next
  BY <1>1, ManageTemplateStep, ComposeStep, ImportStep, OthersStep, After DEF Next
<1>2. CASE UNCHANGED vars
  <2>1. UNCHANGED <<tmpl, groups, orders, contact, lists, wiz, last, events>>
    BY <1>2 DEF vars
  <2>2. TypeInv' /\ WizInv'
    BY <2>1 DEF IInv, TypeInv, WizInv, TmplType, ContactType, Unique, Carriers, WizSays, Speaks, Surviving, Exists
  <2>3. Named'
    BY <2>1 DEF IInv, Named
  <2> QED BY <2>2, <2>3 DEF IInv
<1> QED BY <1>1, <1>2

\* The invariant holds in every reachable state.
LEMMA Invariant == Spec => []IInv
<1>1. Init => IInv
  <2>1. Init => WizInv /\ Named
    BY DEF Init, WizInv, NoWiz, Named
  <2> QED BY <2>1, InitTypes DEF IInv
<1> QED BY <1>1, Inductive, PTL DEF Spec

\* The types that the runs check are part of it.
LEMMA TypesOfInv == IInv => TypeOK
<1> SUFFICES ASSUME IInv PROVE TypeOK
  OBVIOUS
<1>1. TmplType(tmpl)
  BY DEF IInv, TypeInv
<1>2. tmpl.menu = (IF tmpl.active THEN tmpl.model ELSE "none")
  <2>1. CASE tmpl.is
    BY <1>1, <2>1, TmplFields
  <2>2. CASE ~tmpl.is
    BY <1>1, <2>2, MenuMeans, NoTmplIsOff
  <2> QED BY <2>1, <2>2
<1>3. tmpl.is => \E cfg \in Configs : tmpl = Template(cfg, tmpl.active, tmpl.menu)
  <2> SUFFICES ASSUME tmpl.is PROVE \E cfg \in Configs : tmpl = Template(cfg, tmpl.active, tmpl.menu)
    OBVIOUS
  <2>1. PICK cfg \in Configs, active \in BOOLEAN :
           tmpl = Template(cfg, active, MenuOf(cfg, active)) /\ MenuOf(cfg, active) \in Models \cup {"none"}
    BY <1>1, MenuMeans
  <2>2. tmpl.active = active /\ tmpl.menu = MenuOf(cfg, active)
    BY <2>1, TemplateFields
  <2> QED BY <2>1, <2>2
<1>4. wiz.on => wiz.ids # {} /\ wiz.session \in Sessions /\ wiz.tmpl \in {"none", "set", "gone"}
  BY Before, WizardKeeps DEF IInv, TypeInv
<1>5. /\ \A i \in Contacts : ~contact[i].is => contact[i] \in {NoContact, Gone}
      /\ \A i \in Contacts : contact[i].lists \subseteq {l \in ListNames : lists[l] # "none"}
  BY DEF IInv, TypeInv, ContactType
<1> QED BY <1>2, <1>3, <1>4, <1>5 DEF TypeOK, IInv, TypeInv

\* The types; a template is in the Action menu of its model exactly while it is
\* active, whatever is written to it in which order; and however contacts are
\* imported, made, archived and brought back, an owner has one active contact
\* for a number (WhatsmeowTemplate.create, write, unlink; _owner_phone_uniq).
THEOREM TypeCorrect == Spec => []TypeOK
  BY Invariant, TypesOfInv, PTL

\* An import does what a reader of the cells would do by hand: the first usable
\* row of a number puts its one contact, archived or not, on the list that the
\* cells above it name; the opt-out and the record stay; nobody else is touched;
\* and a refused import changes nothing (action_import, _read_rows).
THEOREM ImportsAsRead == Spec => ImportAsRead
<1> DEFINE Meant == last'.kind = "import" =>
         IF last'.ok
         THEN \A file \in Files, default \in ListNames \cup {"none"}, update \in BOOLEAN :
                 Import(file, default, update) => ReadCorrectly(file, default, update)
         ELSE UNCHANGED <<contact, lists>>
<1>1. IInv /\ [Next]_vars => [Meant]_vars
  <2> SUFFICES ASSUME IInv, Next, last'.kind = "import"
               PROVE  Meant
    BY DEF Meant
  <2>1. TypeInv
    BY DEF IInv
  <2>2. ASSUME last'.ok, NEW file \in Files, NEW default \in ListNames \cup {"none"}, NEW update \in BOOLEAN,
               Import(file, default, update)
        PROVE  ReadCorrectly(file, default, update)
    BY <2>1, <2>2, ReadRight
  <2>3. ASSUME ~last'.ok PROVE UNCHANGED <<contact, lists>>
    <3>1. ImportSome \/ Send \/ (\E ids \in SUBSET Orders : ServerAction(ids)) \/ last' = NoLast
      BY DEF Next, ManageTemplate, Compose, Others, CreateTemplate, WriteTemplate, SetActive, UnlinkTemplate,
             Open, PickTemplate, Edit, Cancel, Stop, MakeContact, Archive, DeleteContact, Write, ArchiveList,
             DeleteOrder, SyncGroups, GroupWrites
    <3>2. ImportSome
      BY <3>1, Answers DEF Send, ServerAction
    <3> QED BY <2>1, <2>3, <3>2, ImportKeeps DEF ImportSome
  <2> QED BY <2>2, <2>3
<1>2. Spec => []IInv
  BY Invariant
<1>3. Spec => [][Meant]_vars
  <2> HIDE DEF Meant
  <2> QED BY <1>1, <1>2, PTL DEF Spec
<1> QED BY <1>3 DEF ImportAsRead

----------------------------------------------------------------------------
(* What a request queues *)

\* Files of a message: the operator's own, the template's, a report.
Items == Documents \cup ({"own", "order", "contact"} \X Nat)

\* Two sequences without repetitions that share nothing make one without repetitions.
LEMMA Joint ==
    ASSUME NEW S, NEW s \in Seq(S), NEW t \in Seq(S), IsInjective(s), IsInjective(t),
           \A j \in DOMAIN s, k \in DOMAIN t : s[j] # t[k]
    PROVE  s \o t \in Seq(S) /\ IsInjective(s \o t)
           /\ \A k \in DOMAIN (s \o t) : (\E j \in DOMAIN s : (s \o t)[k] = s[j]) \/ (\E j \in DOMAIN t : (s \o t)[k] = t[j])
<1>1. Len(s) \in Nat /\ Len(t) \in Nat /\ DOMAIN s = 1 .. Len(s) /\ DOMAIN t = 1 .. Len(t)
      /\ s \o t \in Seq(S) /\ DOMAIN (s \o t) = 1 .. Len(s) + Len(t)
  OBVIOUS
<1>2. ASSUME NEW k \in 1 .. Len(s) + Len(t)
      PROVE  /\ k <= Len(s) => k \in DOMAIN s /\ (s \o t)[k] = s[k]
             /\ k > Len(s) => k - Len(s) \in DOMAIN t /\ (s \o t)[k] = t[k - Len(s)]
  BY <1>1
<1>3. ASSUME NEW j \in 1 .. Len(s) + Len(t), NEW k \in 1 .. Len(s) + Len(t), (s \o t)[j] = (s \o t)[k]
      PROVE  j = k
  <2>1. CASE j <= Len(s) /\ k <= Len(s)
    BY <1>2, <1>3, <2>1 DEF IsInjective
  <2>2. CASE j > Len(s) /\ k > Len(s)
    <3>1. j - Len(s) = k - Len(s)
      BY <1>2, <1>3, <2>2 DEF IsInjective
    <3> QED BY <1>1, <3>1
  <2>3. CASE j <= Len(s) /\ k > Len(s)
    BY <1>2, <1>3, <2>3
  <2>4. CASE j > Len(s) /\ k <= Len(s)
    BY <1>2, <1>3, <2>4
  <2> QED BY <1>1, <2>1, <2>2, <2>3, <2>4
<1>4. IsInjective(s \o t)
  BY <1>1, <1>3 DEF IsInjective
<1>5. \A k \in DOMAIN (s \o t) : (\E j \in DOMAIN s : (s \o t)[k] = s[j]) \/ (\E j \in DOMAIN t : (s \o t)[k] = t[j])
  BY <1>1, <1>2
<1> QED BY <1>1, <1>4, <1>5

\* No file is sent twice.
LEMMA Media ==
    ASSUME TypeInv, NEW w \in Wizard, NEW i \in Nat, w.tmpl # "gone", w.tmpl = "set" => tmpl.is
    PROVE  MediaItems(w, i) \in Seq(Items) /\ IsInjective(MediaItems(w, i))
<1> DEFINE own == w.files
           files == tmpl.files
           report == IF tmpl.report = "none" THEN <<>> ELSE << <<tmpl.report, i>> >>
<1>1. own \in Seq(Items) /\ IsInjective(own) /\ \A k \in DOMAIN own : own[k] = <<"own", 0>>
  <2>1. own = <<>> \/ own = << <<"own", 0>> >>
    BY WizardKeeps
  <2>2. <<"own", 0>> \in Items
    BY DEF Items
  <2> HIDE DEF own
  <2>3. CASE own = <<>>
    BY <2>3 DEF IsInjective
  <2>4. CASE own = << <<"own", 0>> >>
    BY <2>2, <2>4 DEF IsInjective
  <2> QED BY <2>1, <2>3, <2>4
<1>2. CASE w.tmpl = "none"
  BY <1>1, <1>2 DEF MediaItems
<1>3. CASE w.tmpl = "set"
  <2>1. files \in Seq(Documents) /\ IsInjective(files) /\ tmpl.report \in Models \cup {"none"}
    BY <1>3, TmplFields DEF TypeInv
  <2>2. files \in Seq(Items) /\ \A k \in DOMAIN files : files[k] \in Documents
    <3>1. Documents \subseteq Items
      BY DEF Items
    <3> HIDE DEF files
    <3> QED BY <2>1, <3>1
  <2>3. report \in Seq(Items) /\ IsInjective(report) /\ \A k \in DOMAIN report : report[k][1] \in Models
    <3>1. CASE tmpl.report = "none"
      BY <3>1 DEF IsInjective
    <3>2. CASE tmpl.report # "none"
      <4> DEFINE item == <<tmpl.report, i>>
      <4>1. item \in Items /\ item[1] \in Models
        BY <2>1, <3>2 DEF Items, Models
      <4>2. report = <<item>>
        BY <3>2
      <4> HIDE DEF item, report
      <4> QED BY <4>1, <4>2 DEF IsInjective
    <3> QED BY <3>1, <3>2
  <2>4. \A d \in Documents : d[1] \notin Models /\ d[1] # "own"
    BY ComposerAssumption
  <2>5. <<"own", 0>>[1] = "own" /\ "own" \notin Models
    BY DEF Models
  <2>6. MediaItems(w, i) = (own \o files) \o report
    BY <1>3 DEF MediaItems
  <2> HIDE DEF own, files, report
  <2> DEFINE both == own \o files
  <2>7. both \in Seq(Items) /\ IsInjective(both)
        /\ \A k \in DOMAIN both : (\E j \in DOMAIN own : both[k] = own[j]) \/ (\E j \in DOMAIN files : both[k] = files[j])
    <3>1. \A j \in DOMAIN own, k \in DOMAIN files : own[j] # files[k]
      BY <1>1, <2>2, <2>4, <2>5
    <3> QED BY <1>1, <2>1, <2>2, <3>1, Joint
  <2> HIDE DEF both
  <2>8. \A j \in DOMAIN both, k \in DOMAIN report : both[j] # report[k]
    BY <1>1, <2>2, <2>3, <2>4, <2>5, <2>7
  <2>9. both \o report \in Seq(Items) /\ IsInjective(both \o report)
    BY <2>3, <2>7, <2>8, Joint
  <2> QED BY <2>6, <2>9 DEF both
<1> QED BY <1>2, <1>3, WizardKeeps

\* The fields of a copy.
LEMMA CopyFields ==
    ASSUME NEW w, NEW i, NEW to, NEW file, NEW body
    PROVE  /\ Copy(w, i, to, file, body).source = <<w.model, i>> /\ Copy(w, i, to, file, body).to = to
           /\ Copy(w, i, to, file, body).file = file /\ Copy(w, i, to, file, body).body = body
           /\ Copy(w, i, to, file, body).session = (IF to \in Groups THEN GroupSession[to] ELSE w.session)
  BY DEF Copy

\* What is queued for one recipient of a record: each file once, and the text once.
FilesOf(w, i) == IF MediaItems(w, i) = <<>> THEN {NoFile} ELSE ToSet(MediaItems(w, i))
CountOf(w, i) == IF MediaItems(w, i) = <<>> THEN 1 ELSE Len(MediaItems(w, i))
WordsOf(w, i) == IF BodyFor(w, i) = Blank THEN 0 ELSE 1

\* The copies C of a record for one recipient.
AsMeant(w, i, to, C) ==
    /\ C # {}
    /\ \A r \in C : /\ r.source = <<w.model, i>> /\ r.to = to /\ r.body \in {BodyFor(w, i), Blank}
                    /\ r.session = (IF to \in Groups THEN GroupSession[to] ELSE w.session)
    /\ {x.file : x \in C} = FilesOf(w, i)
    /\ Cardinality(C) = CountOf(w, i)
    /\ Cardinality({x \in C : x.body # Blank}) = WordsOf(w, i)

\* The copies for one recipient are as they are meant.
LEMMA CopiesAre ==
    ASSUME TypeInv, NEW w \in Wizard, NEW i \in Nat, NEW to \in Groups \cup Numbers,
           w.tmpl # "gone", w.tmpl = "set" => tmpl.is
    PROVE  AsMeant(w, i, to, Copies(w, i, to))
<1> DEFINE C == Copies(w, i, to)
           media == MediaItems(w, i)
           body == BodyFor(w, i)
           words == IF body = Blank THEN 0 ELSE 1
           said == {x \in C : x.body # Blank}
           Part(k) == Copy(w, i, to, media[k], IF Caption(k) THEN body ELSE Blank)
<1>1. media \in Seq(Items) /\ IsInjective(media)
  BY Media
<1>2. ASSUME media = <<>> PROVE AsMeant(w, i, to, C)
  <2> DEFINE c == Copy(w, i, to, NoFile, body)
  <2>1. C = {c}
    BY <1>2 DEF Copies
  <2>2. /\ c.source = <<w.model, i>> /\ c.to = to /\ c.file = NoFile /\ c.body = body
        /\ c.session = (IF to \in Groups THEN GroupSession[to] ELSE w.session)
    BY CopyFields
  <2> HIDE DEF c, C
  <2>3. Cardinality(C) = 1 /\ {x.file : x \in C} = {NoFile}
    BY <2>1, <2>2, FS_Singleton
  <2>4. Cardinality(said) = words
    <3>1. said = (IF body = Blank THEN {} ELSE {c})
      BY <2>1, <2>2
    <3> HIDE DEF said
    <3> QED BY <3>1, FS_EmptySet, FS_Singleton
  <2> QED BY <1>2, <2>1, <2>2, <2>3, <2>4 DEF C, said, AsMeant, FilesOf, CountOf, WordsOf
<1>3. ASSUME media # <<>> PROVE AsMeant(w, i, to, C)
  <2>1. C = {Part(k) : k \in DOMAIN media}
    BY <1>3 DEF Copies
  <2>2. \A k : /\ Part(k).source = <<w.model, i>> /\ Part(k).to = to /\ Part(k).file = media[k]
               /\ Part(k).body = (IF Caption(k) THEN body ELSE Blank)
               /\ Part(k).session = (IF to \in Groups THEN GroupSession[to] ELSE w.session)
    BY CopyFields
  <2>3. Len(media) \in Nat /\ DOMAIN media = 1 .. Len(media) /\ 1 \in DOMAIN media
    BY <1>1, <1>3
  <2> HIDE DEF C, Part, media, body
  <2>4. C # {} /\ \A r \in C : /\ r.source = <<w.model, i>> /\ r.to = to /\ r.body \in {body, Blank}
                               /\ r.session = (IF to \in Groups THEN GroupSession[to] ELSE w.session)
    BY <2>1, <2>2, <2>3
  <2>5. {x.file : x \in C} = ToSet(media)
    BY <2>1, <2>2 DEF ToSet
  <2>6. Cardinality(C) = Len(media)
    <3> DEFINE f == [k \in 1 .. Len(media) |-> Part(k)]
    <3>1. f \in Bijection(1 .. Len(media), C)
      <4>1. \A j, k \in DOMAIN media : Part(j) = Part(k) => j = k
        BY <1>1, <2>2 DEF IsInjective
      <4> QED BY <2>1, <2>3, <4>1 DEF Bijection, Injection, Surjection, IsInjective
    <3>2. ExistsBijection(1 .. Len(media), C)
      BY <3>1 DEF ExistsBijection
    <3> QED BY <2>3, <3>2, FS_CountingElements
  <2>7. Cardinality(said) = words
    <3>1. \A k \in DOMAIN media : Caption(k) <=> k = 1
      BY DEF Caption
    <3>2. said = (IF body = Blank THEN {} ELSE {Part(1)})
      BY <2>1, <2>2, <2>3, <3>1
    <3> HIDE DEF said
    <3> QED BY <3>2, FS_EmptySet, FS_Singleton
  <2> QED BY <1>3, <2>4, <2>5, <2>6, <2>7 DEF C, media, body, said, AsMeant, FilesOf, CountOf, WordsOf
<1> QED BY <1>2, <1>3

\* Whom a record's message goes to: the groups, and at most one number.
LEMMA RecipientsAre ==
    ASSUME TypeInv, NEW w \in Wizard, NEW i \in Nat
    PROVE  /\ Recipients(w, i) \subseteq Groups \cup Numbers
           /\ \A g \in Groups : g \in Recipients(w, i) <=> g \in w.groups \cap groups
           /\ \A p, q \in Recipients(w, i) : {p, q} \subseteq Numbers => p = q
           /\ w.tmpl = "set" /\ tmpl.field = 0 /\ w.groups \cap groups # {} /\ w.phone = "none" =>
                 Recipients(w, i) \subseteq Groups
<1>1. PhoneFor(w, i) \in Numbers \cup {"none"}
  BY DEF PhoneFor, Digits
<1>2. groups \subseteq Groups /\ Groups \cap (Numbers \cup {"none"}) = {} /\ "none" \notin Numbers
  BY Counts DEF TypeInv
<1>3. Recipients(w, i) = (w.groups \cap groups) \cup ({PhoneFor(w, i)} \ {"none"})
  BY DEF Recipients
<1>4. ASSUME w.tmpl = "set", tmpl.field = 0, w.groups \cap groups # {}, w.phone = "none"
      PROVE  PhoneFor(w, i) = "none"
  <2>1. RecordPhone(w, i) = "none"
    BY <1>4 DEF RecordPhone, SendsToNumber
  <2> QED BY <1>2, <1>4, <2>1 DEF PhoneFor, Digits
<1> QED BY <1>1, <1>2, <1>3, <1>4

\* The words of a copy that has any, under a template that applies to the record.
LEMMA TextIs ==
    ASSUME TypeInv, NEW w \in Wizard, Sendable(w), w.tmpl = "set", tmpl.is, tmpl.model = w.model,
           w.body \notin {Blank, Own} => Speaks(w),
           NEW i \in Surviving(w), BodyFor(w, i) \notin {Blank, Own}
    PROVE  /\ BodyFor(w, i).of = <<w.model, i>>
           /\ BodyFor(w, i) # w.body => BodyFor(w, i).name.says = NameOf(w.model, i)
           /\ BodyFor(w, i).name.says # 0 => BodyFor(w, i).name.marks = "inert"
<1>1. CASE UsePreview(w)
  <2>1. BodyFor(w, i) = w.body
    BY <1>1 DEF BodyFor
  <2>2. PICK j \in Nat : /\ w.body.of = <<w.model, j>> /\ Surviving(w) \subseteq {j}
                         /\ w.body.name.says # 0 => w.body.name.marks = "inert"
    BY <2>1 DEF Speaks
  <2>3. i = j
    BY <2>2
  <2> QED BY <2>1, <2>2, <2>3
<1>2. CASE ~UsePreview(w)
  <2> DEFINE m == w.model
  <2>1. BodyFor(w, i) = RenderBody(m, i) /\ m = w.model
    BY <1>2 DEF BodyFor
  <2>2. Exists(m, i) /\ m \in Models
    BY WizardKeeps DEF Surviving
  <2> HIDE DEF m
  <2>3. i \in Nat /\ NameOf(m, i) \in Nat
    BY <2>2, Lines
  <2>4. /\ RenderBody(m, i).of = <<m, i>> /\ RenderBody(m, i).name.says = NameOf(m, i)
        /\ RenderBody(m, i).name.says # 0 => RenderBody(m, i).name.marks = "inert"
    BY <2>2, <2>3, Rendered
  <2> QED BY <2>1, <2>4
<1> QED BY <1>1, <1>2

\* All copies of a record are as they are meant, in what a request queued.
LEMMA CopiesRight ==
    ASSUME TypeInv, NEW w \in Wizard, Sendable(w), w.tmpl = "set" => tmpl.is,
           tmpl.model = w.model /\ w.body \notin {Blank, Own} => Speaks(w),
           NEW i \in Surviving(w), last'.rows = Queued(w)
    PROVE  CopiesOf(w, i)
<1> DEFINE mine == {r \in last'.rows : r.source = <<w.model, i>>}
           at(to) == {r \in mine : r.to = to}
           R == Recipients(w, i)
           here == w.groups \cap groups
<1>1. w.tmpl # "gone" /\ i \in Nat /\ Surviving(w) \subseteq Nat
  BY WizardKeeps DEF Sendable, Surviving
<1>2. \A j \in Surviving(w) : \A to \in Recipients(w, j) : AsMeant(w, j, to, Copies(w, j, to))
  BY <1>1, CopiesAre, RecipientsAre
<1>3. mine = UNION {Copies(w, i, to) : to \in R}
  <2>1. last'.rows = UNION {UNION {Copies(w, j, to) : to \in Recipients(w, j)} : j \in Surviving(w)}
    BY DEF Queued
  <2>2. \A j \in Surviving(w) : \A to \in Recipients(w, j) : \A r \in Copies(w, j, to) : r.source = <<w.model, j>>
    BY <1>2 DEF AsMeant
  <2>3. \A j : <<w.model, j>> = <<w.model, i>> => j = i
    OBVIOUS
  <2>4. ASSUME NEW r \in mine PROVE \E to \in R : r \in Copies(w, i, to)
    <3>1. PICK j \in Surviving(w) : \E to \in Recipients(w, j) : r \in Copies(w, j, to)
      BY <2>1, <2>4
    <3>2. j = i
      BY <2>2, <2>3, <2>4, <3>1
    <3> QED BY <3>1, <3>2
  <2>5. ASSUME NEW to \in R, NEW r \in Copies(w, i, to) PROVE r \in mine
    BY <2>1, <2>2, <2>5
  <2> HIDE DEF mine, R
  <2> QED BY <2>4, <2>5
<1>4. \A to \in R : at(to) = Copies(w, i, to) /\ AsMeant(w, i, to, at(to))
  <2>1. \A to \in R : \A r \in Copies(w, i, to) : r.to = to
    BY <1>2 DEF AsMeant
  <2> HIDE DEF mine, R
  <2>2. \A to \in R : at(to) = Copies(w, i, to)
    BY <1>3, <2>1
  <2> QED BY <1>2, <2>2 DEF R
<1>5. \A r \in mine : r.to \in R
  <2>1. \A to \in R : \A r \in Copies(w, i, to) : r.to = to
    BY <1>2 DEF AsMeant
  <2> HIDE DEF mine, R
  <2> QED BY <1>3, <2>1
<1>6. /\ R \subseteq Groups \cup Numbers /\ \A g \in Groups : g \in R <=> g \in here
      /\ \A p, q \in R : {p, q} \subseteq Numbers => p = q
      /\ w.tmpl = "set" /\ tmpl.field = 0 /\ here # {} /\ w.phone = "none" => R \subseteq Groups
  BY <1>1, RecipientsAre
<1>7. Groups \cap Numbers = {}
  BY Counts
<1>8. \A r \in mine : r \in at(r.to) /\ AsMeant(w, i, r.to, at(r.to))
  BY <1>4, <1>5
<1> HIDE DEF mine, R, here
<1>9. \A r \in mine : /\ {x.file : x \in at(r.to)} = FilesOf(w, i)
                      /\ Cardinality(at(r.to)) = CountOf(w, i)
                      /\ Cardinality({x \in at(r.to) : x.body # Blank}) = WordsOf(w, i)
  BY <1>8 DEF AsMeant
<1>10. ASSUME NEW g \in Groups PROVE (at(g) # {}) = (g \in here)
  <2>1. g \in R => at(g) # {}
    BY <1>4 DEF AsMeant
  <2>2. at(g) # {} => g \in R
    BY <1>5
  <2> QED BY <1>6, <1>10, <2>1, <2>2
<1>11. \A r \in mine : r.session = (IF r.to \in Groups THEN GroupSession[r.to] ELSE w.session)
                       /\ r.body \in {BodyFor(w, i), Blank}
  <2> HIDE DEF at
  <2> QED BY <1>8 DEF AsMeant
<1>12. \A r, q \in mine : {r.to, q.to} \subseteq Numbers => r.to = q.to
  BY <1>5, <1>6
<1>13. ASSUME NEW r \in mine, r.body \notin {Blank, Own}, w.tmpl = "set", tmpl.model = w.model
       PROVE  /\ r.body.of = <<w.model, i>>
              /\ r.body # w.body => r.body.name.says = NameOf(w.model, i)
              /\ r.body.name.says # 0 => r.body.name.marks = "inert"
  <2>1. r.body = BodyFor(w, i)
    BY <1>11, <1>13
  <2> QED BY <1>13, <2>1, TextIs
<1>14. ASSUME NEW r \in mine, w.tmpl = "set", tmpl.field = 0, here # {}, w.phone = "none" PROVE r.to \in Groups
  BY <1>5, <1>6, <1>14
<1>15. /\ \A r \in mine : r.to \in Groups => r.session = GroupSession[r.to]
       /\ \A r \in mine : r.to \in Numbers => r.session = w.session
  BY <1>7, <1>11
<1> HIDE DEF at
<1> DEFINE PerCopy == \A r \in mine : /\ {x.file : x \in at(r.to)} = (IF MediaItems(w, i) = <<>> THEN {NoFile} ELSE ToSet(MediaItems(w, i)))
                           /\ Cardinality(at(r.to)) = (IF MediaItems(w, i) = <<>> THEN 1 ELSE Len(MediaItems(w, i)))
                           /\ Cardinality({x \in at(r.to) : x.body # Blank}) = (IF BodyFor(w, i) = Blank THEN 0 ELSE 1)
<1>16. PerCopy
  BY <1>9 DEF FilesOf, CountOf, WordsOf
<1> QED BY <1>10, <1>12, <1>13, <1>14, <1>15, <1>16 DEF CopiesOf, mine, at, here

\* A request that was accepted queued what it could send.
LEMMA SentRows ==
    ASSUME NEW w, Sent(w).ok
    PROVE  Sendable(w) /\ Sent(w).rows = Queued(w)
  BY DEF Sent, Refused

\* The send of an open wizard.
LEMMA SendRight ==
    ASSUME IInv, Send, last'.ok, NEW i \in Surviving(wiz)
    PROVE  CopiesOf(wiz, i)
<1>1. wiz.on /\ last' = Sent(wiz) /\ TypeInv /\ Named
  BY DEF Send, IInv
<1>2. PICK w \in Wizard : w = wiz /\ WizSays(w)
  BY <1>1, Before DEF WizOk
<1>3. Sendable(w) /\ last'.rows = Queued(w)
  BY <1>1, <1>2, SentRows
<1>4. w.tmpl = "set" => tmpl.is
  BY <1>1, <1>2 DEF Named
<1>5. w.body \notin {Blank, Own} => Speaks(w)
  BY <1>2 DEF WizSays
<1>6. i \in Surviving(w)
  BY <1>2
<1>7. CopiesOf(w, i)
  BY <1>1, <1>3, <1>4, <1>5, <1>6, CopiesRight
<1> QED BY <1>2, <1>7

\* The send of an automation.
LEMMA ActionRight ==
    ASSUME IInv, NEW ids \in SUBSET Orders, ServerAction(ids), last'.ok, NEW i \in ids
    PROVE  CopiesOf(Fresh(ActionModel, ids, TRUE), i)
<1> DEFINE w == Fresh(ActionModel, ids, TRUE)
           m == ActionModel
<1>1. tmpl.is /\ last' = Sent(w) /\ TypeInv /\ ids # {} /\ \A j \in ids : Exists(m, j)
  BY DEF ServerAction, IInv
<1>2. m \in Models /\ ids \in SUBSET Nat
  BY Counts, Records
<1> HIDE DEF m
<1>3. Opened(Fresh(m, ids, TRUE), m, ids, TRUE)
  BY <1>1, <1>2, FreshType
<1>4. w.body \notin {Blank, Own} =>
         \E j \in Nat : /\ ids = {j} /\ w.body.of = <<tmpl.model, j>>
                        /\ w.body.name.says # 0 => w.body.name.marks = "inert"
  BY <1>1, <1>2, FreshSays DEF m
<1> HIDE DEF w
<1>5. w \in Wizard /\ w.ids = ids /\ w.model = m /\ w.tmpl = "set"
  BY <1>3 DEF Opened, w, m
<1>6. Surviving(w) = ids
  BY <1>1, <1>5 DEF Surviving
<1>7. tmpl.model = w.model /\ w.body \notin {Blank, Own} => Speaks(w)
  BY <1>4, <1>6 DEF Speaks
<1>8. Sendable(w) /\ last'.rows = Queued(w)
  BY <1>1, SentRows
<1>9. CopiesOf(w, i)
  BY <1>1, <1>5, <1>6, <1>7, <1>8, CopiesRight
<1> QED BY <1>9 DEF w

\* A send queues for every record that is left each file once and the text once
\* to each recipient, from a number that reaches it, in the words of the operator
\* or of that record, and to no number of its own when the template is for groups
\* only, whatever was deleted, edited or left while the wizard was open
\* (action_send, _run_action_whatsmeow_send_multi).
THEOREM CopiesMeant == Spec => CopiesAsMeant
<1> DEFINE Meant == last'.kind = "send" /\ last'.ok =>
         /\ Send => \A i \in Surviving(wiz) : CopiesOf(wiz, i)
         /\ \A ids \in SUBSET Orders :
               ServerAction(ids) => \A i \in ids : CopiesOf(Fresh(ActionModel, ids, TRUE), i)
<1>1. IInv => Meant
  BY SendRight, ActionRight
<1> HIDE DEF Meant
<1>2. Spec => [][Meant]_vars
  BY <1>1, Invariant, PTL
<1> QED BY <1>2 DEF CopiesAsMeant, Meant
=============================================================================
