------------------------------ MODULE MCClient ------------------------------
EXTENDS Client, TLC

CONSTANTS x1, x2, w1, i1, g1, mx, mz, mi, X, W, Z, I

(* x1, x2 and w1 receive requests of a named method, g1 those of all the   *)
(* others, i1 the messages of an input.                                    *)
Targets == (x1 :> X) @@ (x2 :> X) @@ (w1 :> W) @@ (i1 :> I) @@ (g1 :> "methods")
             @@ (mx :> X) @@ (mz :> Z) @@ (mi :> I)

MCTarget == [t \in Receivers \union Messages |-> Targets[t]]
=============================================================================
