------------------------------ MODULE SendOnce ------------------------------
(***************************************************************************)
(* What the gateway's send guard promises to the Odoo that calls it, with  *)
(* no keys being claimed, no channels and no waiting.  For every message   *)
(* the gateway either remembers one delivery, whose id it hands to every   *)
(* later caller, or remembers nothing and may deliver.  It forgets in two  *)
(* ways only, a new life of the process and the daily expiry, and a        *)
(* delivery whose acknowledgement is lost is never remembered: the promise *)
(* is exactly "at most one delivery per memory", and SendPipeline          *)
(* implements it.                                                          *)
(***************************************************************************)
EXTENDS Naturals

CONSTANTS Callers,  \* the Odoo transactions that may call the gateway
          Msgs,     \* the messages, each standing for its idempotency key
          Ids       \* WhatsApp ids; 0 stands for "no id"

VARIABLES memory,     \* memory[m]: the id the gateway remembers, 0 for none
          expired,    \* messages whose memory has expired in this era
          era,        \* how often everything was forgotten
          delivered,  \* delivered[m]: every id WhatsApp got for m
          told        \* told[c]: the id the caller was last given, 0 for none

onceVars == <<memory, expired, era, delivered, told>>

Init ==
    /\ memory = [m \in Msgs |-> 0]
    /\ expired = {} /\ era = 0
    /\ delivered = [m \in Msgs |-> {}]
    /\ told = [c \in Callers |-> 0]

\* A delivery happens only for a message the gateway does not remember.
Deliver(m, id) ==
    /\ memory[m] = 0
    /\ \A n \in Msgs : id \notin delivered[n]
    /\ delivered' = [delivered EXCEPT ![m] = @ \union {id}]
    /\ \/ memory' = [memory EXCEPT ![m] = id]
       \/ UNCHANGED memory
    /\ UNCHANGED <<expired, era, told>>

\* A caller that is told "sent" is given an id WhatsApp really got for m.
Answer(c, m) ==
    /\ told' \in {[told EXCEPT ![c] = id] : id \in delivered[m]}
    /\ UNCHANGED <<memory, expired, era, delivered>>

\* The caller's transaction is over, one way or another.
Leave(c) ==
    /\ told' = [told EXCEPT ![c] = 0]
    /\ UNCHANGED <<memory, expired, era, delivered>>

\* A day later the memory of one message goes.
Expire(m) ==
    /\ memory' = [memory EXCEPT ![m] = 0]
    /\ expired' = expired \union {m}
    /\ UNCHANGED <<era, delivered, told>>

\* A new life of the process remembers nothing.
ForgetAll ==
    /\ memory' = [m \in Msgs |-> 0]
    /\ expired' = {} /\ era' = era + 1
    /\ UNCHANGED <<delivered, told>>

Next ==
    \/ \E m \in Msgs, id \in Ids : Deliver(m, id)
    \/ \E c \in Callers, m \in Msgs : Answer(c, m)
    \/ \E c \in Callers : Leave(c)
    \/ \E m \in Msgs : Expire(m)
    \/ ForgetAll

OnceSpec == Init /\ [][Next]_onceVars
=============================================================================
