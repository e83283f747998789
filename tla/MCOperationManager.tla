------------------------- MODULE MCOperationManager -------------------------
EXTENDS OperationManager, TLC

Symmetry == Permutations(Publishes) \union Permutations(Reqs \ Publishes)
=============================================================================
