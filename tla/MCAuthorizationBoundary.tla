---------------------- MODULE MCAuthorizationBoundary ----------------------
EXTENDS AuthorizationBoundary, TLC

Symmetry == Permutations(Thread) \cup Permutations(Challenge) \cup Permutations(Permit)
=============================================================================
