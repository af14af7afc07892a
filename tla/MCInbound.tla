------------------------------ MODULE MCInbound ------------------------------
(***************************************************************************)
(* Inbound for TLC: a contact who asks to stop in a group, in two copies;  *)
(* a stranger who sends a picture, in two copies, and a line to a number   *)
(* that routes to Discuss and rejects that line from those it knows.       *)
(***************************************************************************)
EXTENDS Inbound, TLC

CONSTANTS x, y, z, pat, quinn, patchat, team, ann, bob, t1, t2

MCKind   == [i \in {x, y, z} |-> IF i = y THEN "image" ELSE "text"]
MCWord   == [i \in {x, y, z} |-> IF i = x THEN "stop" ELSE "hello"]
MCSender == [i \in {x, y, z} |-> IF i = x THEN quinn ELSE pat]
MCChat   == [i \in {x, y, z} |-> IF i = x THEN team ELSE patchat]
MCTries  == [i \in {x, y, z} |-> IF i = z THEN 1 ELSE 3]
MCSymmetry == Permutations({t1, t2})

AnyMessage == [act |-> "accept", chat |-> "any", kind |-> "any", sender |-> "any", who |-> {}, word |-> "any"]
MCRules  == <<[AnyMessage EXCEPT !.act = "optout", !.word = "stop"], 
              [AnyMessage EXCEPT !.act = "reject", !.sender = "existing", !.word = "hello", !.kind = "text"]>>
MCRoutes == <<[sender |-> "new", chat |-> "private", kind |-> "any", who |-> {}, word |-> "any", users |-> {ann}]>>
=============================================================================
