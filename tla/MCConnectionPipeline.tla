------------------------ MODULE MCConnectionPipeline ------------------------
(* Model values for ConnectionPipeline.                                    *)
EXTENDS ConnectionPipeline, TLC

AllKinds  == Kinds
MainKinds == {"connect", "disconnect", "publish", "subscribe"}
SendKinds == {"disconnect", "publish"}
ConnectionOnly == {"connect", "disconnect"}
Symmetry  == Permutations(UserOps)
=============================================================================
