---------------------------- MODULE FencedClaims ----------------------------
(***************************************************************************)
(* What an ExecutionClaimStore promises to the gateway, whatever keeps the  *)
(* rows (a dictionary, a SQLite table): per resource, a growing series of   *)
(* fencing generations, of which only the newest may run a material effect, *)
(* and none is issued or withdrawn while an effect is in its sink.          *)
(* Source: the ExecutionClaimStore protocol of core/execution_claims.py.    *)
(***************************************************************************)
EXTENDS Naturals

CONSTANT Resource          \* canonical resource keys

VARIABLES
    issued,                \* [Resource -> Nat] newest fencing generation, 0 = none yet
    sealed,                \* [Resource -> BOOLEAN] the newest generation was released or expired
    running                \* [Resource -> Nat] generation whose effect is in the sink, 0 = none

vars == <<issued, sealed, running>>

TypeOK ==
    /\ issued \in [Resource -> Nat]
    /\ sealed \in [Resource -> BOOLEAN]
    /\ running \in [Resource -> Nat]

Init ==
    /\ issued = [r \in Resource |-> 0]
    /\ sealed = [r \in Resource |-> TRUE]
    /\ running = [r \in Resource |-> 0]

\* try_acquire hands out the next generation.
Issue(r) ==
    /\ running[r] = 0
    /\ issued' = [issued EXCEPT ![r] = issued[r] + 1]
    /\ sealed' = [sealed EXCEPT ![r] = FALSE]
    /\ UNCHANGED running

\* release and expire withdraw the current generation of some idle resources.
Seal(S) ==
    /\ \A r \in S : running[r] = 0
    /\ sealed' = [r \in Resource |-> r \in S \/ sealed[r]]
    /\ UNCHANGED <<issued, running>>

\* execute_if_valid admits the newest generation and nothing else.
Enter(r) ==
    /\ running[r] = 0
    /\ ~sealed[r]
    /\ running' = [running EXCEPT ![r] = issued[r]]
    /\ UNCHANGED <<issued, sealed>>

\* The effect returns, raises, or dies with its process.
Leave(r) ==
    /\ running[r] # 0
    /\ running' = [running EXCEPT ![r] = 0]
    /\ UNCHANGED <<issued, sealed>>

Next ==
    \/ \E r \in Resource : Issue(r) \/ Enter(r) \/ Leave(r)
    \/ \E S \in SUBSET Resource : Seal(S)

Spec == Init /\ [][Next]_vars
=============================================================================
