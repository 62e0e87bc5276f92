------------------------------ MODULE ClaimRow ------------------------------
(***************************************************************************)
(* The claim record both local stores keep per resource.  claim_id, owner   *)
(* and operation are fixed when a generation is issued and never change, so *)
(* the generation alone identifies the claim a caller presents.             *)
(***************************************************************************)
EXTENDS Naturals

CONSTANT Lease             \* lease_seconds, in ticks of the model's clock

Status == {"NONE", "ACTIVE", "RELEASED", "EXPIRED"}
Row == [token : Nat, status : Status, until : Nat]
NoRow == [token |-> 0, status |-> "NONE", until |-> 0]

\* Faulty: a comparison that forgets the status.
MatchesAnyStatus(row, token) == row.token = token

\* The row still names this claim (_matches, _row_matches).
Matches(row, token) == row.status = "ACTIVE" /\ row.token = token

\* An unexpired lease, judged at the instant t the caller read.
Live(row, t) == row.status = "ACTIVE" /\ row.until > t

\* Faulty: a released resource starts over with the same generation.
IssuedAgain(row, now) ==
    [token |-> IF row.status = "RELEASED" THEN row.token ELSE row.token + 1,
     status |-> "ACTIVE", until |-> now + Lease]

\* Faulty: a status no reader of the row knows.
ReleasedUnknown(row) == [row EXCEPT !.status = "CLOSED"]

Issued(row, now) == [token |-> row.token + 1, status |-> "ACTIVE", until |-> now + Lease]
Renewed(row, now) == [row EXCEPT !.until = now + Lease]
Released(row) == [row EXCEPT !.status = "RELEASED"]
Expired(row) == [row EXCEPT !.status = "EXPIRED"]
=============================================================================
