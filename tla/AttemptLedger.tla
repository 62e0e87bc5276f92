---------------------------- MODULE AttemptLedger ----------------------------
(***************************************************************************)
(* What the governed pipeline promises for every attempt at a plan's step:  *)
(* it is paid from a budget, a recoverable one is recorded durably before   *)
(* its effect, and it is called committed only when its effect took place.  *)
(* Source: the outcome states of core/governed_work_pipeline.py and the     *)
(* ExecutionOperationStore protocol of core/execution_operations.py.        *)
(***************************************************************************)
EXTENDS Naturals, FiniteSets

CONSTANTS
    Attempt,               \* every attempt there could be
    PaidBy,                \* [Envelope -> SUBSET Attempt] the attempts a budget pays for
    Envelope,              \* budgets
    Limit,                 \* [Envelope -> Nat] how many attempts a budget pays for
    Ledgered               \* the attempts the durable ledger covers

VARIABLES
    outcome,               \* [Attempt -> status] the sidecar of the plan, lost with the process
    record,                \* [Attempt -> status] the durable ledger
    materialised           \* attempts whose effect took place

vars == <<outcome, record, materialised>>

Init ==
    /\ outcome = [k \in Attempt |-> "none"]
    /\ record = [k \in Attempt |-> "none"]
    /\ materialised = {}

Attempted(e) == {k \in PaidBy[e] : outcome[k] # "none"}

Reserve(e, k) ==
    /\ k \in PaidBy[e]
    /\ outcome[k] = "none"
    /\ Cardinality(Attempted(e)) < Limit[e]
    /\ outcome' = [outcome EXCEPT ![k] = "PENDING"]
    /\ UNCHANGED <<record, materialised>>

Record(k) ==
    /\ k \in Ledgered
    /\ outcome[k] = "PENDING"
    /\ record[k] = "none"
    /\ record' = [record EXCEPT ![k] = "PENDING"]
    /\ UNCHANGED <<outcome, materialised>>

Materialise(k) ==
    /\ outcome[k] = "PENDING"
    /\ k \in Ledgered => record[k] = "PENDING"
    /\ materialised' = materialised \cup {k}
    /\ UNCHANGED <<outcome, record>>

Settle(k) ==
    /\ record[k] = "PENDING"
    /\ k \in materialised
    /\ record' = [record EXCEPT ![k] = "COMMITTED"]
    /\ UNCHANGED <<outcome, materialised>>

Commit(k) ==
    /\ outcome[k] \in {"PENDING", "OUTCOME_UNKNOWN"}
    /\ IF k \in Ledgered THEN record[k] = "COMMITTED" ELSE k \in materialised
    /\ outcome' = [outcome EXCEPT ![k] = "COMMITTED"]
    /\ UNCHANGED <<record, materialised>>

\* An attempt in flight fails or becomes unknown; only a recoverable one resumes.
Doubt(k) ==
    /\ \/ outcome[k] = "PENDING" /\ \E s \in {"FAILED", "OUTCOME_UNKNOWN"} : outcome' = [outcome EXCEPT ![k] = s]
       \/ /\ outcome[k] = "OUTCOME_UNKNOWN"
          /\ k \in Ledgered
          /\ outcome' = [outcome EXCEPT ![k] = "PENDING"]
    /\ UNCHANGED <<record, materialised>>

\* The process dies: its plans and their attempts with it.
Forget ==
    /\ outcome' = [k \in Attempt |-> "none"]
    /\ UNCHANGED <<record, materialised>>

\* Every step moves one of the three and leaves the others alone.
Next ==
    \/ /\ outcome' # outcome
       /\ \/ \E e \in Envelope : \E k \in PaidBy[e] : Reserve(e, k)
          \/ \E k \in Attempt : Commit(k) \/ Doubt(k)
          \/ Forget
    \/ record' # record /\ \E k \in Attempt : Record(k) \/ Settle(k)
    \/ materialised' # materialised /\ \E k \in Attempt : Materialise(k)

Spec == Init /\ [][Next]_vars
=============================================================================
