-------------------------- MODULE MCPipelineThread --------------------------
EXTENDS PipelineThread, TLC

Symmetry == Permutations(Callers)
=============================================================================
