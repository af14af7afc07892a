---------------------------- MODULE MCNumberChecks ----------------------------
(***************************************************************************)
(* NumberChecks for TLC: a silent number and one that answers wait on the  *)
(* first session, the silent one first; a contact of the second session    *)
(* has the other number too.                                               *)
(***************************************************************************)
EXTENDS NumberChecks

CONSTANTS sales, shop, mute, one, anna, bert, carl

MCSessions  == {sales, shop}
MCContacts  == {anna, bert, carl}
MCNumbers   == {mute, one}
MCSilent    == {mute}
MCSessionOf == <<sales, sales, shop>>
MCContactOf == <<anna, bert, carl>>
MCAddressOf == <<mute, one, NoNumber>>
MCFirstNumbers == [c \in MCContacts |-> IF c = anna THEN mute ELSE one]
=============================================================================
