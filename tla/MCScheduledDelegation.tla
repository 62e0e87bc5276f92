----------------------- MODULE MCScheduledDelegation -----------------------
EXTENDS ScheduledDelegation, TLC

Symmetry == Permutations(Handler) \cup Permutations(Schedule) \cup Permutations(Grant)
            \cup Permutations(Descriptor)
=============================================================================
