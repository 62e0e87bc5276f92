------------------------- MODULE MCGovernedPipeline -------------------------
EXTENDS GovernedPipeline, TLC

CONSTANTS p1, p2, write, command

\* Two plans drafted for one task: their first steps are the same.
SameSteps == (p1 :> <<write, command>>) @@ (p2 :> <<write>>)
\* A plan that writes beside one that runs a command.
WriteAndCommand == (p1 :> <<write>>) @@ (p2 :> <<command>>)

OneEach == [p \in Plan |-> 1]
TwoEach == [p \in Plan |-> 2]
TwoAndOne == (p1 :> 2) @@ (p2 :> 1)

Symmetry == Permutations(Thread)
=============================================================================
