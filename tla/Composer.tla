-------------------------------- MODULE Composer --------------------------------
(***************************************************************************)
(* What an operator does at the desk (whatsmeow_template and the contacts  *)
(* of whatsmeow_marketing): one template and its entry in the Action menu; *)
(* the wizard that composes a message from records and queues its copies;  *)
(* the server action that does so unattended; the directory of groups; and *)
(* the spreadsheets that build one owner's broadcast lists.                *)
(*                                                                         *)
(* A request is one step, for nothing in it waits.  A wizard is open over  *)
(* many of them: its values are those of when it was opened, while the     *)
(* template, the groups and the records are read again when it is sent.    *)
(***************************************************************************)
EXTENDS Naturals, FiniteSets, SequencesExt

CONSTANTS MaxContact,    \* contacts are 1 .. MaxContact, in the order of id
          MaxOrder,      \* records of a model with a chatter are 1 .. MaxOrder
          OrderPhones,   \* OrderPhones[i]: the phone columns, in the order they are probed
          OrderName,     \* OrderName[i]: what the placeholder gives, 0 for nothing
          Phones,        \* what a phone column may hold, "none" for nothing
          Numbers,       \* those of them that can be dialled
          Names,         \* names, as their place in the alphabet
          OldContacts,   \* the owner's contacts at the outset, by id
          Numeral,       \* the name of a contact who only has a number
          ListNames,     \* names of broadcast lists
          Files,         \* spreadsheets: sequences of [list, name, phone]
          Sessions,      \* numbers we send from
          Groups, GroupSession,   \* GroupSession[g]: the number that is in g
          Documents,     \* what a template has attached
          Configs,       \* what a manager may write into it
          ActionModel,   \* the model of the server action
          Typed,         \* the number an operator types
          MaxEvents      \* bound: what people do beside opening and sending

Contacts == 1 .. MaxContact
Orders   == 1 .. MaxOrder
Models   == {"contact", "order"}
MinOf(S) == CHOOSE x \in S : \A y \in S : x <= y

\* A row of a spreadsheet, a broadcast contact, and what a manager writes into a
\* template.
Row    == [list : ListNames \cup {"none"}, name : Nat, phone : Phones]
Person == [is : BOOLEAN, name : Nat, phone : Phones, lists : SUBSET ListNames,
           active : BOOLEAN, out : BOOLEAN]
Config == [session : Sessions \cup {"none"}, model : Models, field : Nat, groups : SUBSET Groups,
           files : Seq(Documents), report : Models \cup {"none"}]

ASSUME ComposerAssumption ==
    /\ MaxContact \in Nat /\ MaxOrder \in Nat /\ MaxEvents \in Nat
    /\ Names \subseteq Nat \ {0} /\ Numeral \in Nat \ Names
    /\ Numbers \cup {"none", "gone"} \subseteq Phones /\ {"none", "gone"} \cap Numbers = {}
    /\ "none" \notin ListNames
    /\ Sessions # {} /\ GroupSession \in [Groups -> Sessions]
    /\ Groups \cap (Numbers \cup {"none"}) = {}
    /\ Files \subseteq Seq(Row) /\ Configs \subseteq Config
    /\ \A cfg \in Configs : IsInjective(cfg.files)   \* attachment_ids is a set
    /\ \A d \in Documents : d[1] \notin Models \cup {"own", "none"}   \* not a report, nor the operator's
    /\ OldContacts \in Seq(Person) /\ Len(OldContacts) <= MaxContact
    /\ \A i \in DOMAIN OldContacts : OldContacts[i].is /\ OldContacts[i].lists = {}
    /\ \A i, j \in DOMAIN OldContacts :   \* _owner_phone_uniq
          OldContacts[i].active /\ OldContacts[j].active /\ OldContacts[i].phone = OldContacts[j].phone
             => i = j
    /\ OrderPhones \in [Orders -> Seq(Phones)] /\ OrderName \in [Orders -> Nat]
    /\ ActionModel \in Models /\ Typed \in Numbers

VARIABLES tmpl,      \* the template
          groups,    \* groups of the directory that are not archived
          orders,    \* orders that exist
          contact,   \* contact[i]: the owner's broadcast contacts
          lists,     \* lists[l]: "none", "active" or "archived"
          wiz,       \* the open wizard
          last,      \* what the last request answered
          events     \* what people have done

vars == <<tmpl, groups, orders, contact, lists, wiz, last, events>>

NoContact == [is |-> FALSE, name |-> 0, phone |-> "none", lists |-> {}, active |-> FALSE, out |-> FALSE]
Gone      == [NoContact EXCEPT !.phone = "gone"]
NoWiz     == [on |-> FALSE]
NoLast    == [kind |-> "none"]
Refused(kind) == [kind |-> kind, ok |-> FALSE]
NoFile    == <<"none", 0>>
NoTmpl    == [is |-> FALSE, active |-> FALSE, menu |-> "none"]

----------------------------------------------------------------------------
(* The template *)

Exists(m, i) == IF m = "order" THEN i \in orders ELSE i \in Contacts /\ contact[i].is

\* The phone columns a record of the model has.
Columns(m, i) == IF m = "order" THEN OrderPhones[i] ELSE <<contact[i].phone>>

\* _phone_field_error, _check_report_model and _check_groups_session.
Legal(cfg) ==
    /\ cfg.model = "contact" => cfg.field <= 1
    /\ cfg.report \in {"none", cfg.model}
    /\ cfg.session # "none" => \A g \in cfg.groups \cap groups : GroupSession[g] = cfg.session

\* _probe_phone: the first column that holds something.
Probe(m, i) ==
    LET filled == {k \in DOMAIN Columns(m, i) : Columns(m, i)[k] # "none"}
    IN  IF filled = {} THEN "none" ELSE Columns(m, i)[MinOf(filled)]

\* _resolve_phone and _traverse: the named column, or else the first that helps.
ResolvePhone(m, i) ==
    CASE tmpl.field = 0 -> Probe(m, i)
      [] tmpl.field # 0 /\ tmpl.field \in DOMAIN Columns(m, i) -> Columns(m, i)[tmpl.field]
      [] OTHER -> "none"

\* Mutation: the record's own number is always included.
AlwaysToNumber(gs) == TRUE

\* _sends_to_number: with groups the number must be asked for by name.
SendsToNumber(gs) == tmpl.field # 0 \/ gs = {}

Digits(phone) == IF phone \in Numbers THEN phone ELSE "none"

\* A value's markers are neutralised, those of the author's own words are not.
Escape(value) == [says |-> value, marks |-> "inert"]
Author        == [says |-> 0, marks |-> "live"]

Blank == [of |-> <<"none", 0>>, name |-> Author]
Own   == [of |-> <<"typed", 0>>, name |-> Author]   \* what an operator types

NameOf(m, i) == IF m = "order" THEN OrderName[i] ELSE contact[i].name

\* _render_body of "... {{ object.name ||| default }}" against a record.
RenderBody(m, i) ==
    [of |-> <<m, i>>, name |-> IF NameOf(m, i) = 0 THEN Author ELSE Escape(NameOf(m, i))]

Template(cfg, active, menu) ==
    [is |-> TRUE, active |-> active, menu |-> menu, session |-> cfg.session, model |-> cfg.model,
     field |-> cfg.field, groups |-> cfg.groups, files |-> cfg.files, report |-> cfg.report]

\* Mutation: the entry of a template that moves stays on the old model.
MenuStays(menu, cfg) == menu

\* write of model_id: the entry of the Action menu goes with the template.
MenuFollows(menu, cfg) == IF menu = "none" THEN "none" ELSE cfg.model

Event == events < MaxEvents /\ events' = events + 1

CreateTemplate(cfg, active) ==
    /\ Event /\ ~tmpl.is /\ Legal(cfg)
    /\ tmpl' = Template(cfg, active, IF active THEN cfg.model ELSE "none")
    /\ last' = NoLast
    /\ UNCHANGED <<groups, orders, contact, lists, wiz>>

WriteTemplate(cfg) ==
    /\ Event /\ tmpl.is /\ Legal(cfg)
    /\ tmpl' = Template(cfg, tmpl.active, MenuFollows(tmpl.menu, cfg))
    /\ last' = NoLast
    /\ UNCHANGED <<groups, orders, contact, lists, wiz>>

\* create_action when activated, unlink_action when archived.
SetActive(on) ==
    /\ Event /\ tmpl.is
    /\ tmpl' = [tmpl EXCEPT !.active = on,
                            !.menu = CASE ~on -> "none"
                                       [] on /\ @ = "none" -> tmpl.model
                                       [] OTHER -> @]
    /\ last' = NoLast
    /\ UNCHANGED <<groups, orders, contact, lists, wiz>>

UnlinkTemplate ==
    /\ Event /\ tmpl.is
    /\ tmpl' = NoTmpl /\ last' = NoLast
    /\ wiz' = IF wiz.on /\ wiz.tmpl = "set" THEN [wiz EXCEPT !.tmpl = "gone"] ELSE wiz
    /\ UNCHANGED <<groups, orders, contact, lists>>

----------------------------------------------------------------------------
(* The wizard *)

\* The computes of session, groups, number and text: the last two are only for
\* one record, and only the template's own groups decide about the number.
Fresh(m, ids, useTmpl) ==
    LET one  == CHOOSE i \in ids : TRUE
        line == Cardinality(ids) = 1
        own  == IF useTmpl THEN tmpl.groups \cap groups ELSE {}
    IN  [on |-> TRUE, model |-> m, ids |-> ids, files |-> <<>>, groups |-> own,
         tmpl    |-> IF useTmpl THEN "set" ELSE "none",
         session |-> IF useTmpl /\ tmpl.session # "none" THEN tmpl.session
                     ELSE CHOOSE s \in Sessions : TRUE,
         phone   |-> CASE line /\ ~useTmpl -> Probe(m, one)
                       [] line /\ useTmpl /\ SendsToNumber(own) -> ResolvePhone(m, one)
                       [] OTHER -> "none",
         body    |-> IF line /\ useTmpl /\ Exists(tmpl.model, one) THEN RenderBody(tmpl.model, one)
                     ELSE Blank]

\* From the Action menu, or from the chatter without a template.
Open(m, ids, useTmpl) ==
    /\ ~wiz.on /\ ids # {} /\ \A i \in ids : Exists(m, i)
    /\ useTmpl => tmpl.menu = m
    /\ wiz' = Fresh(m, ids, useTmpl) /\ last' = NoLast
    /\ UNCHANGED <<tmpl, groups, orders, contact, lists, events>>

\* The choice of a template computes the wizard's values again.
PickTemplate(useTmpl) ==
    /\ Event /\ wiz.on /\ wiz.tmpl = (IF useTmpl THEN "none" ELSE "set")
    /\ useTmpl => tmpl.active /\ tmpl.model = wiz.model
    /\ LET ids == {i \in wiz.ids : Exists(wiz.model, i)}
       IN  ids # {} /\ wiz' = [Fresh(wiz.model, ids, useTmpl) EXCEPT !.ids = wiz.ids, !.files = wiz.files]
    /\ last' = NoLast
    /\ UNCHANGED <<tmpl, groups, orders, contact, lists>>

\* The number and the text are hidden in a batch.
Edit ==
    /\ Event /\ wiz.on
    /\ \/ /\ Cardinality(wiz.ids) = 1
          /\ \E p \in {"none", Typed} : wiz' = [wiz EXCEPT !.phone = p]
       \/ /\ Cardinality(wiz.ids) = 1
          /\ \E b \in {Blank, Own} : wiz' = [wiz EXCEPT !.body = b]
       \/ \E gs \in SUBSET groups : wiz' = [wiz EXCEPT !.groups = gs]
       \/ \E s \in Sessions : wiz' = [wiz EXCEPT !.session = s]
       \/ wiz' = [wiz EXCEPT !.files = << <<"own", 0>> >>]
    /\ last' = NoLast
    /\ UNCHANGED <<tmpl, groups, orders, contact, lists>>

Cancel ==
    /\ wiz.on /\ wiz' = NoWiz /\ last' = NoLast
    /\ UNCHANGED <<tmpl, groups, orders, contact, lists, events>>

\* exists(): what was deleted since the wizard was opened drops out.
Surviving(w) == {i \in w.ids : Exists(w.model, i)}

\* An edited preview speaks for a single record, when it holds anything.
UsePreview(w) == Cardinality(Surviving(w)) = 1 /\ (w.phone # "none" \/ w.body # Blank)

\* _record_phone.
RecordPhone(w, i) ==
    CASE w.tmpl = "none" -> Probe(w.model, i)
      [] w.tmpl # "none" /\ SendsToNumber(w.groups \cap groups) -> ResolvePhone(w.model, i)
      [] OTHER -> "none"

PhoneFor(w, i) == Digits(IF UsePreview(w) THEN w.phone ELSE RecordPhone(w, i))

\* The template is rendered against its own model.
BodyFor(w, i) ==
    CASE UsePreview(w) -> w.body
      [] ~UsePreview(w) /\ w.tmpl # "none" -> RenderBody(tmpl.model, i)
      [] OTHER -> w.body

\* _media_items: the operator's files, the template's, and a report on the record.
MediaItems(w, i) ==
    IF w.tmpl = "none" THEN w.files
    ELSE w.files \o tmpl.files \o (IF tmpl.report = "none" THEN <<>> ELSE << <<tmpl.report, i>> >>)

\* Mutation: every file carries the text.
CaptionEach(k) == TRUE

Caption(k) == k = 1

\* _message_vals and _target_vals: one message to a recipient, or one for each
\* file.  A group's copies leave from the number that is in the group.
Copy(w, i, to, file, body) ==
    [source |-> <<w.model, i>>, to |-> to, logged |-> w.model = "order", file |-> file, body |-> body,
     session |-> IF to \in Groups THEN GroupSession[to] ELSE w.session]

Copies(w, i, to) ==
    LET media == MediaItems(w, i)
    IN  IF media = <<>> THEN {Copy(w, i, to, NoFile, BodyFor(w, i))}
        ELSE {Copy(w, i, to, media[k], IF Caption(k) THEN BodyFor(w, i) ELSE Blank) : k \in DOMAIN media}

Recipients(w, i) == (w.groups \cap groups) \cup ({PhoneFor(w, i)} \ {"none"})

\* action_send: what is queued, and logged on the records that have a chatter.
Queued(w) == UNION {UNION {Copies(w, i, to) : to \in Recipients(w, i)} : i \in Surviving(w)}

Skipped(w) == {i \in Surviving(w) : Recipients(w, i) = {}}

\* _check_content_for_outgoing: a text message needs a body.
Complete(rows) == \A r \in rows : r.file # NoFile \/ r.body # Blank

\* A template that is gone, or has moved to a model without such records,
\* refuses the request; so does a send that reaches nobody or says nothing.
Sendable(w) ==
    /\ w.tmpl # "gone" /\ Surviving(w) # {}
    /\ w.tmpl = "set" => \A i \in Surviving(w) : Exists(tmpl.model, i)
    /\ Skipped(w) # Surviving(w) /\ Complete(Queued(w))

Sent(w) ==
    IF Sendable(w) THEN [kind |-> "send", ok |-> TRUE, rows |-> Queued(w), skipped |-> Skipped(w)]
    ELSE Refused("send")

\* A wizard that was refused stays open.
Send ==
    /\ wiz.on
    /\ last' = Sent(wiz)
    /\ wiz' = IF Sendable(wiz) THEN NoWiz ELSE wiz
    /\ UNCHANGED <<tmpl, groups, orders, contact, lists, events>>

\* An automation on records of the action's model, whatever the template's is.
ServerAction(ids) ==
    /\ tmpl.is /\ ids # {} /\ \A i \in ids : Exists(ActionModel, i)
    /\ last' = Sent(Fresh(ActionModel, ids, TRUE))
    /\ UNCHANGED <<tmpl, groups, orders, contact, lists, wiz, events>>

----------------------------------------------------------------------------
(* Broadcast lists and their contacts *)

Carriers(cs, n) == {i \in Contacts : cs[i].is /\ cs[i].phone = n}

\* _owner_phone_uniq: one active contact of the owner has the number.
Unique(cs) == \A n \in Numbers : Cardinality({i \in Carriers(cs, n) : cs[i].active}) <= 1

\* The first in the order of name and id.
FirstOf(cs, S) ==
    CHOOSE i \in S : \A j \in S : cs[i].name < cs[j].name \/ (cs[i].name = cs[j].name /\ i <= j)

\* Mutation: only active contacts are looked for.
KnownActive(cs, n) == {i \in Carriers(cs, n) : cs[i].active}

\* Archived contacts too: the person must not be built a second time.
Known(cs, n) == Carriers(cs, n)

Free(cs) == {i \in Contacts : cs[i] = NoContact}   \* an id is not given twice

\* The contact of a usable row, created or completed, and put on the list.
Subscribe(s, row, target, update) ==
    LET n     == row.phone
        name  == IF row.name = 0 THEN Numeral ELSE row.name
        known == Known(s.contact, n)
        i     == IF known = {} THEN MinOf(Free(s.contact)) ELSE FirstOf(s.contact, known)
        c     == s.contact[i]
        cs    == [s.contact EXCEPT ![i] =
                    IF known = {}
                    THEN [is |-> TRUE, name |-> name, phone |-> n, lists |-> {target},
                          active |-> TRUE, out |-> FALSE]
                    ELSE [c EXCEPT !.active = TRUE, !.lists = @ \cup {target},
                                   !.name = IF update THEN name ELSE @]]
    IN  [s EXCEPT !.contact = cs, !.ok = @ /\ Unique(cs), !.seen = @ \cup {n},
                  !.created = @ + (IF known = {} THEN 1 ELSE 0),
                  !.updated = @ + (IF known = {} THEN 0 ELSE 1)]

\* One row: an empty list cell means the list of the row above.  A list that is
\* not found is created, which the unique name of an archived one refuses.
ImportRow(s, row, default, update) ==
    LET named  == IF row.list = "none" THEN s.current ELSE row.list
        target == IF named = "none" THEN default ELSE named
        listed == IF named = "none" THEN s
                  ELSE [s EXCEPT !.current = named, !.lists[named] = "active",
                                 !.ok = @ /\ s.lists[named] # "archived"]
    IN  IF target = "none" \/ row.phone \notin Numbers \/ row.phone \in s.seen
        THEN [listed EXCEPT !.skipped = @ + 1]
        ELSE Subscribe(listed, row, target, update)

\* action_import, with nothing refused yet.
Imported(file, default, update) ==
    LET start == [contact |-> contact, lists |-> lists, current |-> "none", seen |-> {}, ok |-> TRUE,
                  created |-> 0, updated |-> 0, skipped |-> 0]
        read[k \in 0 .. Len(file)] ==
            IF k = 0 THEN start ELSE ImportRow(read[k - 1], file[k], default, update)
    IN  read[Len(file)]

\* Numbers the file brings in; the bound on contacts leaves room for them.
Fits(file) ==
    Cardinality({file[k].phone : k \in DOMAIN file} \ {contact[i].phone : i \in Contacts})
        <= Cardinality(Free(contact))

\* The request is one transaction: a refusal leaves everything as it was.
Import(file, default, update) ==
    /\ Event /\ Fits(file)
    /\ default # "none" => lists[default] = "active"
    /\ \E s \in {Imported(file, default, update)} :
          IF s.ok
          THEN /\ contact' = s.contact /\ lists' = s.lists
               /\ last' = [kind |-> "import", ok |-> TRUE, created |-> s.created,
                           updated |-> s.updated, skipped |-> s.skipped]
          ELSE last' = Refused("import") /\ UNCHANGED <<contact, lists>>
    /\ UNCHANGED <<tmpl, groups, orders, wiz>>

----------------------------------------------------------------------------
(* What else happens to the records *)

Write(cs) ==
    /\ Event /\ Unique(cs)
    /\ contact' = cs /\ last' = NoLast
    /\ UNCHANGED <<tmpl, groups, orders, lists, wiz>>

MakeContact(n, name) ==
    Free(contact) # {} /\
    Write([contact EXCEPT ![MinOf(Free(contact))] =
             [is |-> TRUE, name |-> name, phone |-> n, lists |-> {}, active |-> TRUE, out |-> FALSE]])

Archive(i) == contact[i].is /\ Write([contact EXCEPT ![i].active = ~@])

DeleteContact(i) == contact[i].is /\ Write([contact EXCEPT ![i] = Gone])

\* _marketing_targets: the active contacts of the number that wrote stop.
Stop(n) ==
    Write([i \in Contacts |-> IF i \in Carriers(contact, n) /\ contact[i].active
                              THEN [contact[i] EXCEPT !.out = TRUE] ELSE contact[i]])

ArchiveList(l) ==
    /\ Event /\ lists[l] = "active"
    /\ lists' = [lists EXCEPT ![l] = "archived"] /\ last' = NoLast
    /\ UNCHANGED <<tmpl, groups, orders, contact, wiz>>

DeleteOrder(i) ==
    /\ Event /\ i \in orders
    /\ orders' = orders \ {i} /\ last' = NoLast
    /\ UNCHANGED <<tmpl, groups, contact, lists, wiz>>

\* _sync_from_gateway: the listing is the whole truth about one number's groups.
SyncGroups(s, listed) ==
    /\ Event
    /\ groups' = {g \in groups : GroupSession[g] # s} \cup listed /\ last' = NoLast
    /\ UNCHANGED <<tmpl, orders, contact, lists, wiz>>

\* _upsert_from_inbound: a group that writes is one we are in.
GroupWrites(g) ==
    /\ Event /\ g \notin groups
    /\ groups' = groups \cup {g} /\ last' = NoLast
    /\ UNCHANGED <<tmpl, orders, contact, lists, wiz>>

----------------------------------------------------------------------------
Init ==
    /\ \E cfg \in {c \in Configs : c.model = ActionModel} :
          tmpl = Template(cfg, TRUE, cfg.model)
    /\ groups = Groups /\ orders = Orders
    /\ contact = [i \in Contacts |-> IF i \in DOMAIN OldContacts THEN OldContacts[i] ELSE NoContact]
    /\ lists = [l \in ListNames |-> "none"]
    /\ wiz = NoWiz /\ last = NoLast /\ events = 0

ManageTemplate ==
    \/ \E cfg \in Configs : WriteTemplate(cfg) \/ \E on \in BOOLEAN : CreateTemplate(cfg, on)
    \/ \E on \in BOOLEAN : SetActive(on)
    \/ UnlinkTemplate

Compose ==
    \/ \E useTmpl \in BOOLEAN :
          \/ \E ids \in SUBSET Orders : Open("order", ids, useTmpl)
          \/ \E ids \in SUBSET Contacts : Open("contact", ids, useTmpl)
          \/ PickTemplate(useTmpl)
    \/ Edit \/ Cancel \/ Send
    \/ \E ids \in SUBSET Orders : ServerAction(ids)

Others ==
    \/ \E n \in Numbers : Stop(n) \/ \E name \in Names : MakeContact(n, name)
    \/ \E i \in Contacts : Archive(i) \/ DeleteContact(i)
    \/ \E l \in ListNames : ArchiveList(l)
    \/ \E i \in Orders : DeleteOrder(i)
    \/ \E s \in Sessions : \E listed \in SUBSET {g \in Groups : GroupSession[g] = s} : SyncGroups(s, listed)
    \/ \E g \in Groups : GroupWrites(g)

ImportSome ==
    \E file \in Files, default \in ListNames \cup {"none"}, update \in BOOLEAN : Import(file, default, update)

Next == ManageTemplate \/ Compose \/ ImportSome \/ Others

Spec == Init /\ [][Next]_vars

----------------------------------------------------------------------------
\* The types; and two promises that several requests keep together.  A template
\* is in the Action menu of the model it applies to exactly while it is active
\* (WhatsmeowTemplate.create, write, unlink), so no entry opens the wizard on a
\* template it does not offer; and whatever is imported, made, archived or
\* brought back, an owner has one active contact for a number.
TypeOK ==
    /\ tmpl.menu = (IF tmpl.active THEN tmpl.model ELSE "none")
    /\ tmpl.is => \E cfg \in Configs : tmpl = Template(cfg, tmpl.active, tmpl.menu)
    /\ groups \subseteq Groups /\ orders \subseteq Orders
    /\ Unique(contact)
    /\ \A i \in Contacts : ~contact[i].is => contact[i] \in {NoContact, Gone}
    /\ \A i \in Contacts : contact[i].lists \subseteq {l \in ListNames : lists[l] # "none"}
    /\ wiz.on => wiz.ids # {} /\ wiz.session \in Sessions /\ wiz.tmpl \in {"none", "set", "gone"}
    /\ last.kind \in {"none", "send", "import"} /\ events \in 0 .. MaxEvents

\* What a request queued for a record: every file once to each recipient and the
\* text once, each from a number that can reach the recipient.  The words are the
\* operator's, or those of the preview, or rendered from that record as it is now,
\* a marker in its name inert, as long as the template still applies to its model.  A template for
\* groups only never writes to a record's own number, unless the operator typed
\* one, took the groups away, or we have left them all (action_send and
\* _sends_to_number of the wizard, over everything that may change while it is
\* open or between an automation and the template it names).
CopiesOf(w, i) ==
    LET mine   == {r \in last'.rows : r.source = <<w.model, i>>}
        at(to) == {r \in mine : r.to = to}
        media  == MediaItems(w, i)
        here   == w.groups \cap groups
        words  == IF BodyFor(w, i) = Blank THEN 0 ELSE 1
    IN  /\ \A r \in mine : /\ {x.file : x \in at(r.to)} = (IF media = <<>> THEN {NoFile} ELSE ToSet(media))
                           /\ Cardinality(at(r.to)) = (IF media = <<>> THEN 1 ELSE Len(media))
                           /\ Cardinality({x \in at(r.to) : x.body # Blank}) = words
        /\ \A g \in Groups : (at(g) # {}) = (g \in here)
        /\ \A r \in mine : r.to \in Groups => r.session = GroupSession[r.to]
        /\ \A r \in mine : r.to \in Numbers => r.session = w.session
        /\ \A r, q \in mine : {r.to, q.to} \subseteq Numbers => r.to = q.to
        /\ \A r \in mine :
              r.body \notin {Blank, Own} /\ w.tmpl = "set" /\ tmpl.model = w.model =>
                 /\ r.body.of = <<w.model, i>>
                 /\ r.body # w.body => r.body.name.says = NameOf(w.model, i)
                 /\ r.body.name.says # 0 => r.body.name.marks = "inert"
        /\ \A r \in mine : w.tmpl = "set" /\ tmpl.field = 0 /\ here # {} /\ w.phone = "none" => r.to \in Groups

CopiesAsMeant ==
    [][last'.kind = "send" /\ last'.ok =>
         /\ Send => \A i \in Surviving(wiz) : CopiesOf(wiz, i)
         /\ \A ids \in SUBSET Orders :
               ServerAction(ids) => \A i \in ids : CopiesOf(Fresh(ActionModel, ids, TRUE), i)]_vars

\* A spreadsheet read cell by cell, against what action_import did with it.  The
\* first usable row of a number puts its one contact on the list the cells above
\* it name, archived or not before; a number that was known keeps its record and
\* its opt-out; nobody else is touched and nobody leaves a list.  Refused, it has
\* changed nothing.
Governing(file, k, default) ==
    LET above == {j \in 1 .. k : file[j].list # "none"}
    IN  IF above = {} THEN default ELSE file[CHOOSE j \in above : \A h \in above : h <= j].list

Usable(file, default) == {k \in DOMAIN file : Governing(file, k, default) # "none" /\ file[k].phone \in Numbers}

FirstRows(file, default) ==
    {k \in Usable(file, default) : \A j \in Usable(file, default) : j < k => file[j].phone # file[k].phone}

Touched(file, default, n) == \E k \in Usable(file, default) : file[k].phone = n

ReadCorrectly(file, default, update) ==
    /\ \A k \in FirstRows(file, default) :
          \E i \in Carriers(contact', file[k].phone) :
             /\ contact'[i].active
             /\ contact'[i].lists = contact[i].lists \cup {Governing(file, k, default)}
             /\ contact'[i].out = contact[i].out
             /\ update \/ ~contact[i].is \/ contact'[i].name = contact[i].name
    /\ \A n \in Numbers :
          LET before == Carriers(contact, n) IN
          IF Touched(file, default, n)
          THEN Cardinality(Carriers(contact', n)) = (IF before = {} THEN 1 ELSE Cardinality(before))
          ELSE \A i \in Carriers(contact, n) \cup Carriers(contact', n) : contact'[i] = contact[i]
    /\ last'.created + last'.updated = Cardinality(FirstRows(file, default))
    /\ last'.created + last'.updated + last'.skipped = Len(file)

ImportAsRead ==
    [][last'.kind = "import" =>
         IF last'.ok
         THEN \A file \in Files, default \in ListNames \cup {"none"}, update \in BOOLEAN :
                 Import(file, default, update) => ReadCorrectly(file, default, update)
         ELSE UNCHANGED <<contact, lists>>]_vars
=============================================================================
