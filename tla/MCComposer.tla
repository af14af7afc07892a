------------------------------ MODULE MCComposer ------------------------------
(***************************************************************************)
(* Composer for TLC: two orders, one without a number and without a name;  *)
(* a spreadsheet that names its lists row by row, and one that leaves the  *)
(* list to the row above, to the wizard or to nobody; templates for the    *)
(* record's number, for groups only, and for both.                         *)
(***************************************************************************)
EXTENDS Composer

CONSTANTS ours, theirs, sales, stock

MCOrderPhones  == << <<"none", "A">>, <<"n/a", "none">> >>
MCOrderName    == <<1, 0>>
MCGroupSession == sales :> ours @@ stock :> theirs

\* Somebody who wrote stop, and was archived after that.
MCOldContacts ==
    << [is |-> TRUE, name |-> 2, phone |-> "A", lists |-> {}, active |-> FALSE, out |-> TRUE] >>

Line(list, name, phone) == [list |-> list, name |-> name, phone |-> phone]

MCFiles == {<<Line("L", 1, "A"), Line("none", 0, "B"), Line("M", 2, "A")>>,
            <<Line("none", 2, "A"), Line("none", 1, "n/a"), Line("M", 1, "B")>>}

Entry(session, model, field, gs, files, report) ==
    [session |-> session, model |-> model, field |-> field, groups |-> gs, files |-> files, report |-> report]

MCDocuments == {<<"price list", 0>>}

MCConfigs == {Entry(ours, "order", 2, {sales}, << <<"price list", 0>> >>, "order"),
              Entry("none", "order", 0, {sales, stock}, <<>>, "none"),
              Entry("none", "contact", 0, {}, <<>>, "contact")}
=============================================================================
