----------------------- MODULE MCTransportStageAlone -----------------------
(* Model values for TransportStageAlone.                                   *)
EXTENDS TransportStageAlone

MainKinds == {"connect", "reconnect", "disconnect", "publish"}
=============================================================================
