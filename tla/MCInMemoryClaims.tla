-------------------------- MODULE MCInMemoryClaims --------------------------
EXTENDS InMemoryClaims, TLC

Symmetry == Permutations(Client) \cup Permutations(Resource)
=============================================================================
