--------------------------- MODULE ExecutionGateway ---------------------------
(***************************************************************************)
(* ExecutionGateway.execute and execute_server_owned                        *)
(* (core/execution_gateway.py) with the adapters they dispatch to, over the *)
(* SQLite claim store the processes of one state root share.                *)
(*                                                                          *)
(* A call validates the world state its request was built on, consumes the  *)
(* Permit, and for the four system-install effects takes a lease on the     *)
(* target and validates the world state again inside execute_if_valid,      *)
(* which holds the database's only writer until the adapter is done.  Any   *)
(* other call that needs the writer meanwhile waits for it, and raises when *)
(* the busy timeout elapses first.  Other effects, and server-policy        *)
(* effects without a Permit, validate again but hold nothing while they run.*)
(***************************************************************************)
EXTENDS ClaimRow

CONSTANTS
    Caller,                \* processes that call the gateway
    Target,                \* install targets
    Permit,
    Content,               \* what target_state_digest tells apart, an absent target included
    None,
    MaxTime                \* bound: last instant of the model's clock

VARIABLES
    clock,
    state,                 \* [Target -> its content now]
    permit,                \* [Permit -> None or what a person approved in the caller's process]
    rows,                  \* [Target -> Row] claims of system-install:<target>
    writer,                \* the call inside execute_if_valid
    op,                    \* [Caller -> the gateway call it is inside]
    effects,               \* ghost: [Permit -> times its effect reached the target]
    overtaken,             \* ghost: installs whose target an effect without a lease changed
                           \* after their last check
    stranded               \* ghost: targets whose lease lost its holder

vars == <<clock, state, permit, rows, writer, op, effects, overtaken, stranded>>

Effect == {"install", "ordinary", "policy"}
Idle == [pc |-> "idle", effect |-> "install", permit |-> None, target |-> None,
         approved |-> None, token |-> 0, now |-> 0]
Approval == [by : Caller, effect : Effect, target : Target, approved : Content, spent : BOOLEAN]
InLease == {"validate", "dispatch", "applied"}
Leased == {"execute", "release"} \cup InLease
Pc == {"idle", "consume", "preread", "acquire", "recheck", "run"} \cup Leased
Call == [pc : Pc, effect : Effect, permit : Permit \cup {None}, target : Target \cup {None},
         approved : Content \cup {None}, token : Nat, now : Nat]

ASSUME GatewayAssumption ==
    /\ None \notin Caller \cup Permit \cup Target \cup Content \cup Approval
    /\ Lease \in Nat \ {0}
    /\ MaxTime \in Nat

TypeOK ==
    /\ clock \in 0 .. MaxTime
    /\ state \in [Target -> Content]
    /\ permit \in [Permit -> Approval \cup {None}]
    /\ rows \in [Target -> Row]
    /\ writer \in Caller \cup {None}
    /\ op \in [Caller -> Call]
    /\ effects \in [Permit -> Nat]
    /\ overtaken \subseteq Caller
    /\ stranded \subseteq Target

Init ==
    /\ clock = 0
    /\ state \in [Target -> Content]
    /\ permit = [p \in Permit |-> None]
    /\ rows = [t \in Target |-> NoRow]
    /\ writer = None
    /\ op = [c \in Caller |-> Idle]
    /\ effects = [p \in Permit |-> 0]
    /\ overtaken = {}
    /\ stranded = {}

Tick ==
    /\ clock < MaxTime
    /\ clock' = clock + 1
    /\ UNCHANGED <<state, permit, rows, writer, op, effects, overtaken, stranded>>

\* A person approves an effect on the target as it is now.
Approve(c, p) ==
    /\ permit[p] = None
    /\ \E e \in {"install", "ordinary"}, t \in Target :
          permit' = [permit EXCEPT ![p] = [by |-> c, effect |-> e, target |-> t,
                                           approved |-> state[t], spent |-> FALSE]]
    /\ UNCHANGED <<clock, state, rows, writer, op, effects, overtaken, stranded>>

-----------------------------------------------------------------------------
(* The gateway up to the lease *)

Goto(c, pc) == op' = [op EXCEPT ![c].pc = pc]
Return(c) == op' = [op EXCEPT ![c] = Idle]

\* _validate_world_state: the target has the content the request was built on.  The
\* digest is of the content alone: a target that changed and changed back is fresh.
Fresh(c) == op[c].approved = state[op[c].target]

\* execute, up to the first _validate_world_state; a stale request is refused there.
Begin(c, p) ==
    /\ op[c].pc = "idle"
    /\ permit[p] # None
    /\ LET g == permit[p]
       IN  /\ g.by = c
           /\ g.approved = state[g.target]
           /\ op' = [op EXCEPT ![c] = [Idle EXCEPT !.pc = "consume", !.effect = g.effect, !.permit = p,
                                                   !.target = g.target, !.approved = g.approved]]
    /\ UNCHANGED <<clock, state, permit, rows, writer, effects, overtaken, stranded>>

\* execute_server_owned: policy authorizes the request it was called with.
BeginServerOwned(c, t) ==
    /\ op[c].pc = "idle"
    /\ op' = [op EXCEPT ![c] = [Idle EXCEPT !.pc = "recheck", !.effect = "policy",
                                            !.target = t, !.approved = state[t]]]
    /\ UNCHANGED <<clock, state, permit, rows, writer, effects, overtaken, stranded>>

\* Faulty: the Permit is read here and marked only by whoever dispatches.
ConsumeNothing(c) ==
    /\ op[c].pc = "consume"
    /\ IF permit[op[c].permit].spent
       THEN Return(c)
       ELSE Goto(c, IF op[c].effect = "install" THEN "preread" ELSE "recheck")
    /\ UNCHANGED <<clock, state, permit, rows, writer, effects, overtaken, stranded>>

\* consume_permit: a Permit is spent before anything else happens, once.
Consume(c) ==
    /\ op[c].pc = "consume"
    /\ IF permit[op[c].permit].spent
       THEN Return(c) /\ UNCHANGED permit
       ELSE /\ permit' = [permit EXCEPT ![op[c].permit].spent = TRUE]
            /\ Goto(c, IF op[c].effect = "install" THEN "preread" ELSE "recheck")
    /\ UNCHANGED <<clock, state, rows, writer, effects, overtaken, stranded>>

\* try_acquire before its transaction: a live lease refuses, and the Permit is gone.
PreRead(c) ==
    /\ op[c].pc = "preread"
    /\ IF Live(rows[op[c].target], clock)
       THEN Return(c)
       ELSE op' = [op EXCEPT ![c].pc = "acquire", ![c].now = clock]
    /\ UNCHANGED <<clock, state, permit, rows, writer, effects, overtaken, stranded>>

\* Faulty: a lapsed lease is taken over while its holder's callback still runs.
AcquireAtOnce(c) ==
    LET t == op[c].target
    IN  /\ op[c].pc = "acquire"
        /\ IF Live(rows[t], op[c].now)
           THEN Return(c) /\ UNCHANGED <<rows, stranded>>
           ELSE /\ rows' = [rows EXCEPT ![t] = Issued(rows[t], op[c].now)]
                /\ stranded' = stranded \ {t}
                /\ op' = [op EXCEPT ![c].pc = "execute", ![c].token = rows[t].token + 1]
        /\ UNCHANGED <<clock, state, permit, writer, effects, overtaken>>

\* try_acquire's transaction.
Acquire(c) ==
    LET t == op[c].target
    IN  /\ op[c].pc = "acquire"
        /\ writer = None
        /\ IF Live(rows[t], op[c].now)
           THEN Return(c) /\ UNCHANGED <<rows, stranded>>
           ELSE /\ rows' = [rows EXCEPT ![t] = Issued(rows[t], op[c].now)]
                /\ stranded' = stranded \ {t}
                /\ op' = [op EXCEPT ![c].pc = "execute", ![c].token = rows[t].token + 1]
        /\ UNCHANGED <<clock, state, permit, writer, effects, overtaken>>

-----------------------------------------------------------------------------
(* An install under its lease *)

\* execute_if_valid takes the writer, or finds the lease lapsed or fenced.
Enter(c) ==
    LET row == rows[op[c].target]
    IN  /\ op[c].pc = "execute"
        /\ writer = None
        /\ IF Matches(row, op[c].token) /\ row.until > clock
           THEN writer' = c /\ Goto(c, "validate")
           ELSE Goto(c, "release") /\ UNCHANGED writer
        /\ UNCHANGED <<clock, state, permit, rows, effects, overtaken, stranded>>

\* Faulty: the check before the Permit was consumed is taken to be enough.
ValidateNothing(c) ==
    /\ op[c].pc = "validate"
    /\ Goto(c, "dispatch")
    /\ overtaken' = overtaken \ {c}
    /\ UNCHANGED <<clock, state, permit, rows, writer, effects, stranded>>

\* Faulty: a request found stale under its lease returns past the finally clause.
ValidateAndRaise(c) ==
    /\ op[c].pc = "validate"
    /\ IF Fresh(c) THEN Goto(c, "dispatch") /\ UNCHANGED writer
                   ELSE Return(c) /\ writer' = None
    /\ overtaken' = overtaken \ {c}
    /\ UNCHANGED <<clock, state, permit, rows, effects, stranded>>

\* _execute_after_world_state_check: stale here means rolled back and released.
Validate(c) ==
    /\ op[c].pc = "validate"
    /\ IF Fresh(c) THEN Goto(c, "dispatch") /\ UNCHANGED writer
                   ELSE Goto(c, "release") /\ writer' = None
    /\ overtaken' = overtaken \ {c}
    /\ UNCHANGED <<clock, state, permit, rows, effects, stranded>>

\* The adapter changes the target, or fails before it does.  An update, a rollback, an
\* uninstall or a repair may leave any content, one the target had before included.
Dispatch(c) ==
    /\ op[c].pc = "dispatch"
    /\ \/ /\ \E content \in Content : state' = [state EXCEPT ![op[c].target] = content]
          /\ effects' = [effects EXCEPT ![op[c].permit] = @ + 1]
          /\ Goto(c, "applied")
          /\ UNCHANGED writer
       \/ /\ writer' = None
          /\ Goto(c, "release")
          /\ UNCHANGED <<state, effects>>
    /\ UNCHANGED <<clock, permit, rows, overtaken, stranded>>

\* The adapter returns or raises, and execute_if_valid ends its transaction.
Applied(c) ==
    /\ op[c].pc = "applied"
    /\ writer' = None
    /\ Goto(c, "release")
    /\ UNCHANGED <<clock, state, permit, rows, effects, overtaken, stranded>>

\* The finally clause.
ReleaseLease(c) ==
    LET t == op[c].target
    IN  /\ op[c].pc = "release"
        /\ writer = None
        /\ rows' = IF Matches(rows[t], op[c].token) THEN [rows EXCEPT ![t] = Released(rows[t])] ELSE rows
        /\ Return(c)
        /\ UNCHANGED <<clock, state, permit, writer, effects, overtaken, stranded>>

\* busy_timeout behind another install's callback: the transaction raises.  Before
\* the lease the Permit is lost; under it the finally clause is next; in the finally
\* clause the call ends with the lease still out.
BusyTimeout(c) ==
    /\ op[c].pc \in {"acquire", "execute", "release"}
    /\ writer # None
    /\ IF op[c].pc = "execute" THEN Goto(c, "release") ELSE Return(c)
    /\ stranded' = IF op[c].pc = "release" /\ Matches(rows[op[c].target], op[c].token)
                   THEN stranded \cup {op[c].target} ELSE stranded
    /\ UNCHANGED <<clock, state, permit, rows, writer, effects, overtaken>>

-----------------------------------------------------------------------------
(* Other effects, and a crash *)

\* The second _validate_world_state, without a lease.
Recheck(c) ==
    /\ op[c].pc = "recheck"
    /\ IF Fresh(c) THEN Goto(c, "run") ELSE Return(c)
    /\ UNCHANGED <<clock, state, permit, rows, writer, effects, overtaken, stranded>>

\* adapter.execute: what it does, or its failure.
Run(c) ==
    /\ op[c].pc = "run"
    /\ \/ /\ \E content \in Content : state' = [state EXCEPT ![op[c].target] = content]
          /\ overtaken' = overtaken \cup {d \in Caller : op[d].pc = "dispatch" /\ op[d].target = op[c].target}
          /\ effects' = [p \in Permit |-> IF p = op[c].permit THEN effects[p] + 1 ELSE effects[p]]
       \/ UNCHANGED <<state, effects, overtaken>>
    /\ Return(c)
    /\ UNCHANGED <<clock, permit, rows, writer, stranded>>

\* The process dies: its call, its open transaction and its Permits vanish, the rows
\* survive.  Its installer is taken to die with it.
Crash(c) ==
    /\ op[c].pc # "idle"
    /\ writer' = IF writer = c THEN None ELSE writer
    /\ stranded' = IF op[c].pc \in Leased /\ Matches(rows[op[c].target], op[c].token)
                   THEN stranded \cup {op[c].target} ELSE stranded
    /\ permit' = [p \in Permit |-> IF permit[p] # None /\ permit[p].by = c
                                  THEN [permit[p] EXCEPT !.spent = TRUE] ELSE permit[p]]
    /\ Return(c)
    /\ UNCHANGED <<clock, state, rows, effects, overtaken>>

Operate(c) ==
    \/ \E p \in Permit : Approve(c, p) \/ Begin(c, p)
    \/ \E t \in Target : BeginServerOwned(c, t)
    \/ Consume(c) \/ PreRead(c) \/ Acquire(c) \/ Enter(c) \/ Validate(c) \/ Dispatch(c) \/ Applied(c)
    \/ ReleaseLease(c) \/ BusyTimeout(c) \/ Recheck(c) \/ Run(c) \/ Crash(c)

Next == Tick \/ \E c \in Caller : Operate(c)

Spec == Init /\ [][Next]_vars

-----------------------------------------------------------------------------
(* Properties *)

\* An effect reaches its target at most once per Permit, and never before the Permit
\* is spent, whatever was refused, timed out or crashed in between.
EffectsArePaid ==
    \A p \in Permit : effects[p] <= 1 /\ (effects[p] = 1 => permit[p].spent)

\* An install starts on the content a person approved for it, however long it waited for
\* its Permit, its lease and the writer and whatever was installed, rolled back or
\* uninstalled meanwhile, except where an effect that takes no lease changed the target
\* between the last check and the start.
InstallsSeeWhatWasApproved ==
    \A c \in Caller : op[c].pc = "dispatch" => state[op[c].target] = op[c].approved \/ c \in overtaken

\* A target is leased only while a call holds its lease, unless the holder died or
\* timed out in its finally clause.
LeaseComesBack ==
    \A t \in Target \ stranded : rows[t].status = "ACTIVE" =>
        \E c \in Caller : op[c].pc \in Leased /\ op[c].target = t /\ op[c].token = rows[t].token

\* Installs are fenced: those of the gateway implement the claims it is promised.
Fenced == INSTANCE FencedClaims WITH
    Resource <- Target,
    issued <- [t \in Target |-> rows[t].token],
    sealed <- [t \in Target |-> rows[t].status # "ACTIVE"],
    running <- [t \in Target |->
                  IF \E c \in Caller : op[c].pc \in InLease /\ op[c].target = t
                  THEN op[CHOOSE c \in Caller : op[c].pc \in InLease /\ op[c].target = t].token
                  ELSE 0]
InstallsAreFenced == Fenced!Spec
=============================================================================
