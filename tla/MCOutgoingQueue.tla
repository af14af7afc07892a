--------------------------- MODULE MCOutgoingQueue ---------------------------
(***************************************************************************)
(* OutgoingQueue for TLC: two messages of one number and one of another,   *)
(* whose day begins a tick earlier, hours that run past midnight for both. *)
(***************************************************************************)
EXTENDS OutgoingQueue, TLC

CONSTANTS a, b

MCSessions  == {a, b}
MCSessionOf == <<a, a, b>>
MCZone      == a :> 0 @@ b :> 1
MCRamp      == [d \in 0 .. CapDays |-> 2 ^ d]
=============================================================================
