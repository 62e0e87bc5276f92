--------------------------- MODULE MCSQLiteClaims ---------------------------
EXTENDS SQLiteClaims, TLC

Symmetry == Permutations(Client) \cup Permutations(Resource)
=============================================================================
