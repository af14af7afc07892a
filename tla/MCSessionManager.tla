-------------------------- MODULE MCSessionManager --------------------------
(***************************************************************************)
(* Small instances of SessionManager.  Names and requests are              *)
(* interchangeable and no liveness is checked, so both are symmetric.      *)
(***************************************************************************)
EXTENDS SessionManager, TLC

MCSymmetry == Permutations(Names) \union Permutations(Procs)
=============================================================================
