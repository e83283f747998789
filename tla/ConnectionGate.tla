--------------------------- MODULE ConnectionGate ---------------------------
(***************************************************************************)
(* What SerializeConnectOpsStage promises to the stages around it: a gate  *)
(* that one connection operation holds at a time.  An operation takes the  *)
(* free gate, gives it back before it ends, and never takes it again once  *)
(* it has ended.                                                           *)
(***************************************************************************)
CONSTANTS Ops, NoHolder
VARIABLES holder, ended

gateVars == <<holder, ended>>

Init == holder = NoHolder /\ ended = {}

Take(op) ==
  /\ holder = NoHolder /\ op \notin ended
  /\ holder' = op
  /\ UNCHANGED ended

GiveBack ==
  /\ holder # NoHolder
  /\ holder' = NoHolder
  /\ UNCHANGED ended

End(op) ==
  /\ op \notin ended /\ op # holder
  /\ ended' = ended \union {op}
  /\ UNCHANGED holder

Next == GiveBack \/ \E op \in Ops : Take(op) \/ End(op)

Spec == Init /\ [][Next]_gateVars
=============================================================================
