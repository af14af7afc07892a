----------------------------- MODULE MCMarketing -----------------------------
(***************************************************************************)
(* Marketing for TLC.  The first campaign goes to contacts: one who is     *)
(* created when the broadcast contact with that number writes or is        *)
(* converted, one for whom the text cannot be rendered, and one who is not *)
(* on WhatsApp.  The second goes to broadcast lists, where one number is   *)
(* met twice and another is refused; the share of one copy a day makes it  *)
(* last two days.                                                          *)
(***************************************************************************)
EXTENDS Marketing

CONSTANTS ann, bob

MCNumber    == <<"A", "A", "A", "B", "C", "B">>
MCAim       == <<{3, 4, 6}, {1, 2, 5}>>
MCWindow    == <<0, 1>>
MCBroken    == <<{4}, {}>>
MCOperators == <<{}, {ann}>>
=============================================================================
