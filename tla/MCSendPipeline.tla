--------------------------- MODULE MCSendPipeline ---------------------------
(***************************************************************************)
(* A small instance of SendPipeline: the queue cron and a person pressing  *)
(* Send race over one record.  Keys never interact, so one message is      *)
(* enough.                                                                 *)
(***************************************************************************)
EXTENDS SendPipeline

CONSTANTS cron, alice, m1

MCWorkers == {cron, alice}
MCMsgs == {m1}
=============================================================================
