--------------------------- MODULE RequestExchange --------------------------
(***************************************************************************)
(* What a request to the service is meant to be: it is asked once, the     *)
(* service serves it once, and it ends once: with an answer only after the *)
(* service served that very request, or failing only if it did not.        *)
(***************************************************************************)
CONSTANT Calls

VARIABLE stage  (* of each request *)

Stages == {"idle", "asked", "served", "answered", "refused", "failed"}

Init == stage = [c \in Calls |-> "idle"]

Move(c, from, to) == stage[c] = from /\ stage' = [stage EXCEPT ![c] = to]

Next ==
  \E c \in Calls :
    \/ Move(c, "idle", "asked")
    \/ Move(c, "asked", "served")
    \/ Move(c, "asked", "failed")
    \/ Move(c, "served", "answered")
    \/ Move(c, "served", "refused")

Spec == Init /\ [][Next]_stage
=============================================================================
