---------------------------- MODULE SQLiteClaims ----------------------------
(***************************************************************************)
(* SQLiteExecutionClaimStore (core/execution_claims.py): claims kept in one *)
(* SQLite file and shared by several BAGO processes.                        *)
(*                                                                          *)
(* BEGIN IMMEDIATE .. COMMIT is exclusive over the whole database, so a     *)
(* short transaction is one action guarded by the writer being free.        *)
(* execute_if_valid holds the writer across the material callback: `writer' *)
(* names that connection.  Everything else waits for it, up to the busy     *)
(* timeout, with the clock reading it took before the wait.  A process may  *)
(* die anywhere; SQLite then rolls its transaction back and frees the       *)
(* writer, and the committed rows survive.                                  *)
(***************************************************************************)
EXTENDS ClaimRow

CONSTANTS
    Client,                \* connections, each of a process of its own
    Resource,
    None,
    MaxTime,               \* bound: last instant of the model's clock
    MaxToken               \* bound: no acquire starts at this generation

ASSUME ClaimsAssumption ==
    /\ None \notin Client
    /\ None \notin Resource
    /\ Lease \in Nat \ {0}
    /\ MaxTime \in Nat
    /\ MaxToken \in Nat

VARIABLES
    clock,
    rows,                  \* committed rows of execution_claims
    writer,                \* connection inside execute_if_valid's transaction
    op                     \* the call each connection is inside

vars == <<clock, rows, writer, op>>

Idle == [pc |-> "idle", res |-> None, token |-> 0, now |-> 0]
Waiting == {"acquire", "renew", "release", "expire", "execute"}

TypeOK ==
    /\ clock \in Nat
    /\ rows \in [Resource -> Row]
    /\ writer \in Client \cup {None}
    /\ op \in [Client -> [pc : {"idle", "preread", "effect"} \cup Waiting,
                          res : Resource \cup {None}, token : Nat, now : Nat]]

Init ==
    /\ clock = 0
    /\ rows = [r \in Resource |-> NoRow]
    /\ writer = None
    /\ op = [c \in Client |-> Idle]

-----------------------------------------------------------------------------
Tick ==
    /\ clock < MaxTime
    /\ clock' = clock + 1
    /\ UNCHANGED <<rows, writer, op>>

Begin(c, pc, r, t, now) ==
    /\ op[c].pc = "idle"
    /\ op' = [op EXCEPT ![c] = [pc |-> pc, res |-> r, token |-> t, now |-> now]]
    /\ UNCHANGED <<clock, rows, writer>>

BeginAcquire(c, r) == rows[r].token < MaxToken /\ Begin(c, "preread", r, 0, clock)
BeginRenew(c, r) == \E t \in 1 .. rows[r].token : Begin(c, "renew", r, t, clock)
BeginRelease(c, r) == \E t \in 1 .. rows[r].token : Begin(c, "release", r, t, 0)
BeginExecute(c, r) == \E t \in 1 .. rows[r].token : Begin(c, "execute", r, t, 0)
BeginExpire(c) == Begin(c, "expire", None, 0, clock)

Return(c) == op' = [op EXCEPT ![c] = Idle]

\* try_acquire's WAL read before BEGIN IMMEDIATE: a live lease refuses at once.
PreRead(c) ==
    /\ op[c].pc = "preread"
    /\ \/ Live(rows[op[c].res], op[c].now) /\ Return(c)
       \/ ~Live(rows[op[c].res], op[c].now) /\ op' = [op EXCEPT ![c].pc = "acquire"]
    /\ UNCHANGED <<clock, rows, writer>>

\* Faulty: a transaction that does not wait for the writer.
TransactionAtOnce(c, pc) ==
    /\ op[c].pc = pc
    /\ Return(c)
    /\ UNCHANGED <<clock, writer>>

\* A short BEGIN IMMEDIATE transaction of a waiting call.
Transaction(c, pc) ==
    /\ op[c].pc = pc
    /\ writer = None
    /\ Return(c)
    /\ UNCHANGED <<clock, writer>>

\* Faulty: only the read before the transaction judges the lease.
AcquireWithoutRecheck(c) ==
    /\ Transaction(c, "acquire")
    /\ rows' = [rows EXCEPT ![op[c].res] = Issued(rows[op[c].res], op[c].now)]

Acquire(c) ==
    LET r == op[c].res
    IN  /\ Transaction(c, "acquire")
        /\ \/ Live(rows[r], op[c].now) /\ UNCHANGED rows
           \/ ~Live(rows[r], op[c].now) /\ rows' = [rows EXCEPT ![r] = Issued(rows[r], op[c].now)]

Renew(c) ==
    LET r == op[c].res
        allowed == Matches(rows[r], op[c].token) /\ rows[r].until > op[c].now
    IN  /\ Transaction(c, "renew")
        /\ \/ ~allowed /\ UNCHANGED rows
           \/ allowed /\ rows' = [rows EXCEPT ![r] = Renewed(rows[r], op[c].now)]

Release(c) ==
    LET r == op[c].res
        ours == Matches(rows[r], op[c].token)
    IN  /\ Transaction(c, "release")
        /\ \/ ~ours /\ UNCHANGED rows
           \/ ours /\ rows' = [rows EXCEPT ![r] = Released(rows[r])]

Expire(c) ==
    /\ Transaction(c, "expire")
    /\ rows' = [r \in Resource |->
                  IF rows[r].status = "ACTIVE" /\ rows[r].until <= op[c].now
                  THEN Expired(rows[r])
                  ELSE rows[r]]

\* Faulty: execute_if_valid forgets the lease.
ValidWithoutLease(c) == Matches(rows[op[c].res], op[c].token)

Valid(c) ==
    /\ Matches(rows[op[c].res], op[c].token)
    /\ rows[op[c].res].until > clock

\* execute_if_valid: the writer is taken and kept while the callback runs.
Enter(c) ==
    /\ op[c].pc = "execute"
    /\ writer = None
    /\ Valid(c)
    /\ writer' = c
    /\ op' = [op EXCEPT ![c].pc = "effect"]
    /\ UNCHANGED <<clock, rows>>

\* execute_if_valid: rollback and ExecutionClaimError(execution_claim_stale).
Reject(c) ==
    /\ op[c].pc = "execute"
    /\ writer = None
    /\ ~Valid(c)
    /\ Return(c)
    /\ UNCHANGED <<clock, rows, writer>>

\* Faulty: an exception of the callback leaves the transaction open.
LeaveOpen(c) ==
    /\ op[c].pc = "effect"
    /\ Return(c)
    /\ UNCHANGED <<clock, rows, writer>>

\* The callback returns (commit) or raises (rollback): the row is untouched.
Leave(c) ==
    /\ op[c].pc = "effect"
    /\ writer' = None
    /\ Return(c)
    /\ UNCHANGED <<clock, rows>>

\* busy_timeout elapsed behind another connection's callback: the call raises.
BusyTimeout(c) ==
    /\ op[c].pc \in Waiting
    /\ writer # None
    /\ Return(c)
    /\ UNCHANGED <<clock, rows, writer>>

\* The process dies: its call and its open transaction vanish.
Crash(c) ==
    /\ op[c].pc # "idle"
    /\ writer' = IF writer = c THEN None ELSE writer
    /\ Return(c)
    /\ UNCHANGED <<clock, rows>>

Operate(c) ==
    \/ \E r \in Resource : BeginAcquire(c, r) \/ BeginRenew(c, r) \/ BeginRelease(c, r) \/ BeginExecute(c, r)
    \/ BeginExpire(c)
    \/ PreRead(c) \/ Acquire(c) \/ Renew(c) \/ Release(c) \/ Expire(c)
    \/ Enter(c) \/ Reject(c) \/ Leave(c) \/ BusyTimeout(c) \/ Crash(c)

Next == Tick \/ \E c \in Client : Operate(c)

Spec == Init /\ [][Next]_vars

-----------------------------------------------------------------------------
(* Properties *)

\* At most one callback runs over the whole database, its connection is the
\* writer, and the claim it runs under is still the current one.
RunningIsCurrent ==
    \A c \in Client : op[c].pc = "effect" =>
        writer = c /\ Matches(rows[op[c].res], op[c].token)

\* A writer transaction is never left open by a connection that is not inside
\* a callback, whatever raised, timed out or crashed.
WriterIsInEffect == writer # None => op[writer].pc = "effect"

\* try_acquire never takes a resource from a claim that is still live, although
\* it judged the lease with a clock reading older than the wait for the writer.
NoTheft ==
    [][\A r \in Resource : rows'[r].token # rows[r].token => ~Live(rows[r], clock)]_vars

\* A callback starts only under a lease live at that instant.
EffectsStartLive ==
    [][\A c \in Client :
          op[c].pc # "effect" /\ op'[c].pc = "effect" => Live(rows[op[c].res], clock)]_vars

\* A released or expired generation never becomes active again.
RetiredStaysRetired ==
    [][\A r \in Resource :
          rows'[r].token = rows[r].token /\ rows[r].status # "ACTIVE" => rows'[r] = rows[r]]_vars

\* The durable store implements the same fenced claims as the in-memory one.
Fenced == INSTANCE FencedClaims WITH
    issued <- [r \in Resource |-> rows[r].token],
    sealed <- [r \in Resource |-> rows[r].status # "ACTIVE"],
    running <- [r \in Resource |->
                  IF writer # None /\ op[writer].res = r THEN op[writer].token ELSE 0]
FencedSpec == Fenced!Spec
=============================================================================
