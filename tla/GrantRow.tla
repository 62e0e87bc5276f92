------------------------------ MODULE GrantRow ------------------------------
(***************************************************************************)
(* The mutable part of a DelegationGrant (core/delegation_grant.py) and the *)
(* judgements DelegationGrantRegistry makes of it under its lock.  The      *)
(* deadline is abstracted to whether it has passed, `lapsed'; the envelope  *)
(* (schedule, effects, target, scope, policy) never changes after issue.    *)
(***************************************************************************)
EXTENDS Naturals

CONSTANT MaxRuns           \* max_runs of every grant

ASSUME MaxRunsAssumption == MaxRuns \in Nat \ {0}

GrantState == {"none", "active", "exhausted", "expired", "revoked"}
GrantRecord == [state : GrantState, runs : Nat]

NoGrant == [state |-> "none", runs |-> 0]
IssuedGrant == [state |-> "active", runs |-> 0]

\* Faulty: the state of the grant is not looked at.
ClaimableByCount(grant, lapsed) == ~lapsed /\ grant.runs < MaxRuns

\* Faulty: the run is not written down.
SpentUnsaved(grant) == grant

\* Faulty: a state no reader of the grant knows.
RevokedUnknown(grant) == [grant EXCEPT !.state = "withdrawn"]

\* _validate_active_locked lets a child through.
Claimable(grant, lapsed) == grant.state = "active" /\ ~lapsed /\ grant.runs < MaxRuns

\* What _validate_active_locked leaves in the record of a grant it refuses.
Judged(grant, lapsed) ==
    [grant EXCEPT !.state = IF @ # "active" THEN @
                            ELSE IF lapsed THEN "expired"
                            ELSE IF grant.runs >= MaxRuns THEN "exhausted" ELSE @]

\* claim_child spends one run, and exhausts the grant with the last.
Spent(grant) ==
    [state |-> IF grant.runs + 1 >= MaxRuns THEN "exhausted" ELSE "active",
     runs |-> grant.runs + 1]

\* freshness_lease accepts the grant of a run that was already claimed.
Fresh(grant, lapsed) == grant.state \in {"active", "exhausted"} /\ ~lapsed

\* What freshness_lease leaves in the record of a grant it refuses.
Refused(grant, lapsed) ==
    [grant EXCEPT !.state = IF lapsed /\ @ \notin {"none", "revoked"} THEN "expired" ELSE @]

Revoked(grant) == [grant EXCEPT !.state = "revoked"]
=============================================================================
