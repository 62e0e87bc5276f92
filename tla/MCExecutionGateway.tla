-------------------------- MODULE MCExecutionGateway --------------------------
EXTENDS ExecutionGateway, TLC

Symmetry == Permutations(Caller) \cup Permutations(Target) \cup Permutations(Permit)
                \cup Permutations(Content)
=============================================================================
