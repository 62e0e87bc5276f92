-------------------------- MODULE GovernedPipeline --------------------------
(***************************************************************************)
(* Plans run through the governed pipeline (core/governed_work_pipeline.py) *)
(* by PlanEngine.execute_plan (core/plan_engine.py): the budget and outcome *)
(* sidecar of each plan, the durable operation ledger                       *)
(* (core/execution_operations.py), the resource claims, and                 *)
(* ExecutionGateway.execute_nested (core/execution_gateway.py), with        *)
(* failures of every store, lapsing claims, retries and a crash.            *)
(*                                                                          *)
(* A step's definition is a model value; a step that writes a file is       *)
(* recoverable through the ledger, any other runs a command.  The engine is *)
(* one object per session manager: `executor' is its _executor, a closure   *)
(* named by the plan whose contract and Permit it carries, and it is what   *)
(* every thread calls, whichever plan the thread is running.  The execution *)
(* lock is one per plan.                                                    *)
(***************************************************************************)
EXTENDS Naturals, Sequences, FiniteSets

CONSTANTS
    Thread,
    Plan,
    StepsOf,               \* [Plan -> Seq(Definition)] the definition of each step
    Writes,                \* the definitions that are filesystem.write
    Budget,                \* [Plan -> Nat] budget_limit of the envelope
    Permits,               \* bound: [Plan -> Nat] how often a plan is executed
    MaxAttempt,            \* bound: the largest attempt number the refinement names
    None

Definition == UNION {{StepsOf[p][n] : n \in DOMAIN StepsOf[p]} : p \in Plan}
StepNo == UNION {DOMAIN StepsOf[p] : p \in Plan}

\* The resource key of an effect: the file, or what the command's key names.
Resource == Definition

ASSUME PipelineAssumption ==
    /\ StepsOf \in [Plan -> Seq(Definition)]
    /\ Budget \in [Plan -> Nat \ {0}]
    /\ Permits \in [Plan -> Nat]
    /\ Writes \subseteq Definition
    /\ None \notin Thread \cup Plan \cup Definition

VARIABLES
    steps,                 \* [Plan -> Seq of [status, attempt]]
    outcomes,              \* [Plan -> key :> status], contract["outcomes"]
    consumed,              \* [Plan -> Nat], contract["budget_consumed"]
    executor,              \* the engine's _executor
    current,               \* the engine's current_plan
    execLock,              \* [Plan -> Thread or None], execution_lock of each sidecar
    permits,               \* [Plan -> Nat] executions still to be authorised
    claim,                 \* [Resource -> Thread or None], the durable claim rows
    ledger,                \* <<plan, key>> :> status, the durable operation ledger
    ran,                   \* history: the <<plan, key>> whose effect took place
    op,                    \* what each thread is doing
    up                     \* the process is alive

volatile == <<steps, outcomes, consumed, executor, current, execLock, permits>>
vars == <<steps, outcomes, consumed, executor, current, execLock, permits, claim, ledger, ran, op, up>>

Key == [n : StepNo, a : Nat, d : Definition]
StepStatus == {"pending", "running", "done", "failed", "blocked"}
Outcome == {"PENDING", "COMMITTED", "FAILED", "OUTCOME_UNKNOWN"}
NoKey == [n |-> 0, a |-> 0, d |-> None]
Idle == [pc |-> "idle", plan |-> None, saved |-> None, savedPlan |-> None, n |-> 0,
         via |-> None, key |-> NoKey, recover |-> FALSE, answer |-> "none"]
PC == {"idle", "enter", "step", "lookup", "acquire", "begin", "prepare", "dispatch",
       "effect", "release", "settle", "finish"}

TypeOK ==
    /\ \A p \in Plan : \A n \in DOMAIN StepsOf[p] :
          steps[p][n].status \in StepStatus /\ steps[p][n].attempt \in Nat
    /\ \A p \in Plan : \A k \in DOMAIN outcomes[p] : k \in Key /\ outcomes[p][k] \in Outcome
    /\ consumed \in [Plan -> Nat]
    /\ {executor, current} \subseteq Plan \cup {None}
    /\ execLock \in [Plan -> Thread \cup {None}]
    /\ permits \in [Plan -> Nat]
    /\ claim \in [Resource -> Thread \cup {None}]
    /\ \A k \in DOMAIN ledger : k \in Plan \X Key /\ ledger[k] \in {"PENDING", "COMMITTED"}
    /\ ran \subseteq Plan \X Key
    /\ \A t \in Thread : op[t].pc \in PC
    /\ up \in BOOLEAN

Init ==
    /\ steps = [p \in Plan |-> [n \in DOMAIN StepsOf[p] |-> [status |-> "pending", attempt |-> 0]]]
    /\ outcomes = [p \in Plan |-> << >>]
    /\ consumed = [p \in Plan |-> 0]
    /\ executor = None
    /\ current = None
    /\ execLock = [p \in Plan |-> None]
    /\ permits = Permits
    /\ claim = [r \in Resource |-> None]
    /\ ledger = << >>
    /\ ran = {}
    /\ op = [t \in Thread |-> Idle]
    /\ up = TRUE

-----------------------------------------------------------------------------
(* What a thread is working on *)

Def(t) == StepsOf[op[t].plan][op[t].n]
Step(t) == steps[op[t].plan][op[t].n]
Recoverable(t) == Def(t) \in Writes
At(t, pc) == up /\ op[t].pc = pc
Goto(t, pc) == op' = [op EXCEPT ![t].pc = pc]

\* A table with one entry set, whether it had the key or not.
Put(table, key, status) ==
    [k \in DOMAIN table \cup {key} |-> IF k = key THEN status ELSE table[k]]

\* The operation key of the ledger: operation id of the closure's plan, then the step's key.
Operation(t) == <<op[t].via, op[t].key>>
OutcomeOf(t) == outcomes[op[t].via][op[t].key]
SetOutcome(t, s) == outcomes' = [outcomes EXCEPT ![op[t].via][op[t].key] = s]

\* A callback holds the only writer of the database the claims and the ledger share.
WriterFree == \A u \in Thread : op[u].pc # "effect"

\* Faulty: the executor's block is written into the step as it came.
AnswerUncoerced(t, status) ==
    /\ steps' = [steps EXCEPT ![op[t].plan][op[t].n].status = IF status = "blocked" THEN op[t].answer ELSE status]
    /\ op' = [op EXCEPT ![t] = [@ EXCEPT !.pc = "finish"]]

\* execute_step takes the executor's answer; execute_plan stops at a failure.
Answer(t, status) ==
    /\ steps' = [steps EXCEPT ![op[t].plan][op[t].n].status = status]
    /\ op' = [op EXCEPT ![t] = [@ EXCEPT
                  !.pc = IF status = "done" THEN "step" ELSE "finish",
                  !.n = IF status = "done" THEN op[t].n + 1 ELSE op[t].n,
                  !.via = None, !.key = NoKey, !.recover = FALSE, !.answer = "none"]]

Released(t) == [claim EXCEPT ![Def(t)] = IF @ = t THEN None ELSE @]

\* Give up before dispatch: blocked, or failed when the release itself raises and
\* leaves the claim to its lease.
Refuse(t) ==
    \/ Answer(t, "blocked") /\ claim' = Released(t)
    \/ Answer(t, "failed") /\ UNCHANGED claim

-----------------------------------------------------------------------------
(* execute_plan_through_gateway and PlanEngine.execute_plan *)

Start(t, p) ==
    /\ At(t, "idle")
    /\ permits[p] > 0
    /\ permits' = [permits EXCEPT ![p] = @ - 1]
    /\ op' = [op EXCEPT ![t] = [Idle EXCEPT !.pc = "enter", !.plan = p]]
    /\ UNCHANGED <<steps, outcomes, consumed, executor, current, execLock, claim, ledger, ran, up>>

Enter(t) ==
    LET p == op[t].plan
    IN  /\ At(t, "enter")
        /\ execLock[p] = None
        /\ execLock' = [execLock EXCEPT ![p] = t]
        /\ executor' = p
        /\ current' = p
        /\ op' = [op EXCEPT ![t] = [@ EXCEPT !.pc = "step", !.n = 1,
                                      !.saved = executor, !.savedPlan = current]]
        /\ UNCHANGED <<steps, outcomes, consumed, permits, claim, ledger, ran, up>>

\* Faulty: the plan's lock is kept.
FinishLocked(t) ==
    /\ At(t, "finish")
    /\ executor' = op[t].saved
    /\ current' = op[t].savedPlan
    /\ op' = [op EXCEPT ![t] = Idle]
    /\ UNCHANGED <<steps, outcomes, consumed, execLock, permits, claim, ledger, ran, up>>

\* The finally clause puts back what Enter found, whoever has replaced it since.
Finish(t) ==
    /\ At(t, "finish")
    /\ executor' = op[t].saved
    /\ current' = op[t].savedPlan
    /\ execLock' = [execLock EXCEPT ![op[t].plan] = None]
    /\ op' = [op EXCEPT ![t] = Idle]
    /\ UNCHANGED <<steps, outcomes, consumed, permits, claim, ledger, ran, up>>

\* Past the last step, or at one that is neither done nor pending: the loop ends.
EndOfLoop(t) ==
    /\ At(t, "step")
    /\ op[t].n <= Len(StepsOf[op[t].plan]) => Step(t).status \notin {"done", "pending"}
    /\ Goto(t, "finish")
    /\ UNCHANGED <<volatile, claim, ledger, ran, up>>

SkipDone(t) ==
    /\ At(t, "step")
    /\ op[t].n <= Len(StepsOf[op[t].plan])
    /\ Step(t).status = "done"
    /\ op' = [op EXCEPT ![t].n = @ + 1]
    /\ UNCHANGED <<volatile, claim, ledger, ran, up>>

\* execute_step calls whatever executor the engine holds at that instant.
CallExecutor(t) ==
    /\ At(t, "step")
    /\ op[t].n <= Len(StepsOf[op[t].plan])
    /\ Step(t).status = "pending"
    /\ \/ /\ executor = None
          /\ Answer(t, "blocked")
       \/ /\ executor # None
          /\ steps' = [steps EXCEPT ![op[t].plan][op[t].n].status = "running"]
          /\ op' = [op EXCEPT ![t] = [@ EXCEPT !.pc = "lookup", !.via = executor]]
    /\ UNCHANGED <<outcomes, consumed, executor, current, execLock, permits, claim, ledger, ran, up>>

-----------------------------------------------------------------------------
(* _executor *)

Unresolved(t) ==
    {k \in DOMAIN outcomes[op[t].via] :
        /\ k.n = op[t].n
        /\ k.d = Def(t)
        /\ outcomes[op[t].via][k] \in {"PENDING", "OUTCOME_UNKNOWN"}}

\* A command, or a write with nothing unfinished: the next attempt's key.
LookupFresh(t) ==
    /\ At(t, "lookup")
    /\ ~Recoverable(t) \/ Unresolved(t) = {}
    /\ op' = [op EXCEPT ![t] = [@ EXCEPT !.pc = "acquire",
                  !.key = [n |-> op[t].n, a |-> Step(t).attempt + 1, d |-> Def(t)]]]
    /\ UNCHANGED <<volatile, claim, ledger, ran, up>>

\* An unfinished write: the ledger says whether it took place.  A missing record or
\* an unreadable ledger blocks the step; a second unfinished attempt at it raises.
LookupUnresolved(t) ==
    /\ At(t, "lookup")
    /\ Recoverable(t)
    /\ \E k \in Unresolved(t) :
          LET o == <<op[t].via, k>>
              alone == Unresolved(t) = {k}
          IN  \/ /\ alone /\ o \in DOMAIN ledger
                 /\ ledger[o] = "PENDING"
                 /\ op' = [op EXCEPT ![t] = [@ EXCEPT !.pc = "acquire", !.key = k, !.recover = TRUE]]
                 /\ UNCHANGED <<steps, outcomes>>
              \/ /\ alone /\ o \in DOMAIN ledger
                 /\ ledger[o] = "COMMITTED"
                 /\ outcomes' = [outcomes EXCEPT ![op[t].via][k] = "COMMITTED"]
                 /\ Answer(t, "done")
              \/ Answer(t, IF alone THEN "blocked" ELSE "failed") /\ UNCHANGED outcomes
    /\ UNCHANGED <<consumed, executor, current, execLock, permits, claim, ledger, ran, up>>

\* try_acquire: taken, busy, or the store raises.
Acquire(t) ==
    /\ At(t, "acquire")
    /\ \/ /\ WriterFree
          /\ claim[Def(t)] = None
          /\ claim' = [claim EXCEPT ![Def(t)] = t]
          /\ Goto(t, "begin")
          /\ UNCHANGED steps
       \/ claim[Def(t)] # None /\ Answer(t, "blocked") /\ UNCHANGED claim
       \/ Answer(t, "failed") /\ UNCHANGED claim
    /\ UNCHANGED <<outcomes, consumed, executor, current, execLock, permits, ledger, ran, up>>

\* resume_unresolved.
Resume(t) ==
    /\ At(t, "begin")
    /\ op[t].recover
    /\ \/ /\ OutcomeOf(t) \in {"PENDING", "OUTCOME_UNKNOWN"}
          /\ SetOutcome(t, "PENDING")
          /\ Goto(t, "prepare")
          /\ UNCHANGED <<steps, claim>>
       \/ /\ OutcomeOf(t) \notin {"PENDING", "OUTCOME_UNKNOWN"}
          /\ Refuse(t)
          /\ UNCHANGED outcomes
    /\ UNCHANGED <<consumed, executor, current, execLock, permits, ledger, ran, up>>

\* An unknown outcome of any definition of this step number forbids another attempt.
UnknownStep(t) ==
    \E k \in DOMAIN outcomes[op[t].via] :
        k.n = op[t].n /\ outcomes[op[t].via][k] = "OUTCOME_UNKNOWN"

\* Faulty: an attempt is made past an unknown outcome.
MayReserveBlindly(t) == consumed[op[t].via] < Budget[op[t].via]

MayReserve(t) == ~UnknownStep(t) /\ consumed[op[t].via] < Budget[op[t].via]

\* Faulty: the attempt is not charged.
BeginUncharged(t) ==
    /\ At(t, "begin")
    /\ ~op[t].recover
    /\ op[t].key \notin DOMAIN outcomes[op[t].via]
    /\ MayReserve(t)
    /\ steps' = [steps EXCEPT ![op[t].plan][op[t].n].attempt = op[t].key.a]
    /\ outcomes' = [outcomes EXCEPT ![op[t].via] = Put(@, op[t].key, "PENDING")]
    /\ Goto(t, IF Recoverable(t) THEN "prepare" ELSE "dispatch")
    /\ UNCHANGED <<consumed, executor, current, execLock, permits, claim, ledger, ran, up>>

\* begin_attempt: a new attempt is charged to the closure's budget.
BeginAttempt(t) ==
    /\ At(t, "begin")
    /\ ~op[t].recover
    /\ op[t].key \notin DOMAIN outcomes[op[t].via]
    /\ MayReserve(t)
    /\ steps' = [steps EXCEPT ![op[t].plan][op[t].n].attempt = op[t].key.a]
    /\ consumed' = [consumed EXCEPT ![op[t].via] = @ + 1]
    /\ outcomes' = [outcomes EXCEPT ![op[t].via] = Put(@, op[t].key, "PENDING")]
    /\ Goto(t, IF Recoverable(t) THEN "prepare" ELSE "dispatch")
    /\ UNCHANGED <<executor, current, execLock, permits, claim, ledger, ran, up>>

\* Faulty: whatever the key recorded is reported as success.
ReplayedAsDone(t) == "done"

\* _replayed_outcome: success only of a committed attempt.
Replayed(t) == IF OutcomeOf(t) = "COMMITTED" THEN "done" ELSE "failed"

\* begin_attempt: unknown outcome, exhausted budget, or the replay of a key that exists,
\* unless releasing the claim raises.
BeginRefused(t) ==
    /\ At(t, "begin")
    /\ ~op[t].recover
    /\ \/ op[t].key \notin DOMAIN outcomes[op[t].via] /\ ~MayReserve(t) /\ Refuse(t)
       \/ /\ op[t].key \in DOMAIN outcomes[op[t].via]
          /\ \/ UnknownStep(t) /\ Refuse(t)
             \/ ~UnknownStep(t) /\ Answer(t, Replayed(t)) /\ claim' = Released(t)
             \/ ~UnknownStep(t) /\ Answer(t, "failed") /\ UNCHANGED claim
    /\ UNCHANGED <<outcomes, consumed, executor, current, execLock, permits, ledger, ran, up>>

\* Faulty: the write is dispatched without its durable record.
PrepareUnrecorded(t) ==
    /\ At(t, "prepare")
    /\ Goto(t, "dispatch")
    /\ UNCHANGED <<volatile, claim, ledger, ran, up>>

\* operation_store.prepare: recorded PENDING, already COMMITTED, or the store raises.
Prepare(t) ==
    LET known == Operation(t) \in DOMAIN ledger
    IN  /\ At(t, "prepare")
        /\ \/ /\ WriterFree
              /\ known => ledger[Operation(t)] = "PENDING"
              /\ ledger' = Put(ledger, Operation(t), "PENDING")
              /\ Goto(t, "dispatch")
              /\ UNCHANGED <<steps, outcomes, claim>>
           \/ /\ WriterFree
              /\ known /\ ledger[Operation(t)] = "COMMITTED"
              /\ SetOutcome(t, "COMMITTED")
              /\ claim' = Released(t)
              /\ Answer(t, "done")
              /\ UNCHANGED ledger
           \/ Refuse(t) /\ UNCHANGED <<outcomes, ledger>>
        /\ UNCHANGED <<consumed, executor, current, execLock, permits, ran, up>>

\* execute_nested: the child is the one the closure's parent request declared.
Declared(t) ==
    /\ op[t].n \in DOMAIN StepsOf[op[t].via]
    /\ StepsOf[op[t].via][op[t].n] = Def(t)

Dispatch(t) ==
    /\ At(t, "dispatch")
    /\ Declared(t)
    /\ WriterFree
    /\ claim[Def(t)] = t
    /\ Goto(t, "effect")
    /\ UNCHANGED <<volatile, claim, ledger, ran, up>>

\* ExecutionGatewayError before the sink: undeclared child, stale claim, revoked
\* authority, changed world state.
DispatchRefused(t) ==
    /\ At(t, "dispatch")
    /\ op' = [op EXCEPT ![t] = [@ EXCEPT !.pc = "release", !.answer = "refused"]]
    /\ UNCHANGED <<volatile, claim, ledger, ran, up>>

\* The adapter returns a receipt; or it fails, is refused or raises, before or after
\* the effect took place (an fsync that fails after the rename, a lost answer).
Effect(t) ==
    /\ At(t, "effect")
    /\ \E answer \in {"ok", "error", "refused", "raised"} :
          /\ op' = [op EXCEPT ![t] = [@ EXCEPT !.pc = "release", !.answer = answer]]
          /\ \/ ran' = ran \cup {Operation(t)}
             \/ answer # "ok" /\ UNCHANGED ran
    /\ UNCHANGED <<volatile, claim, ledger, up>>

\* claim_store.release precedes all bookkeeping; if it raises, the attempt stays PENDING.
Release(t) ==
    /\ At(t, "release")
    /\ \/ WriterFree /\ claim' = Released(t) /\ Goto(t, "settle") /\ UNCHANGED steps
       \/ Answer(t, "failed") /\ UNCHANGED claim
    /\ UNCHANGED <<outcomes, consumed, executor, current, execLock, permits, ledger, ran, up>>

\* Success of a write: ledger.commit, then state.commit.  The ledger commit is refused
\* unless the record is PENDING, and may raise: the outcome is then unknown.
SettleWrite(t) ==
    /\ At(t, "settle")
    /\ op[t].answer = "ok"
    /\ Recoverable(t)
    /\ \/ /\ WriterFree
          /\ ledger[Operation(t)] = "PENDING"
          /\ ledger' = [ledger EXCEPT ![Operation(t)] = "COMMITTED"]
          /\ op' = [op EXCEPT ![t].answer = "committed"]
          /\ UNCHANGED <<steps, outcomes>>
       \/ SetOutcome(t, "OUTCOME_UNKNOWN") /\ Answer(t, "blocked") /\ UNCHANGED ledger
    /\ UNCHANGED <<consumed, executor, current, execLock, permits, claim, ran, up>>

\* state.commit, state.fail, state.unknown, and the executor's answer.
Settle(t) ==
    /\ At(t, "settle")
    /\ \/ /\ op[t].answer \in (IF Recoverable(t) THEN {"committed"} ELSE {"ok"})
          /\ SetOutcome(t, "COMMITTED")
          /\ Answer(t, "done")
       \/ op[t].answer = "error" /\ SetOutcome(t, "FAILED") /\ Answer(t, "failed")
       \/ op[t].answer = "refused" /\ SetOutcome(t, "FAILED") /\ Answer(t, "blocked")
       \/ op[t].answer = "raised" /\ SetOutcome(t, "OUTCOME_UNKNOWN") /\ Answer(t, "blocked")
    /\ UNCHANGED <<consumed, executor, current, execLock, permits, claim, ledger, ran, up>>

-----------------------------------------------------------------------------
(* Handlers and the environment *)

\* handle_retry: the current plan's failed and blocked steps become pending.
Retry(p) ==
    /\ up
    /\ current = p
    /\ \E n \in DOMAIN steps[p] : steps[p][n].status \in {"failed", "blocked"}
    /\ steps' = [steps EXCEPT ![p] = [n \in DOMAIN @ |->
                    IF @[n].status \in {"failed", "blocked"} THEN [@[n] EXCEPT !.status = "pending"]
                    ELSE @[n]]]
    /\ UNCHANGED <<outcomes, consumed, executor, current, execLock, permits, claim, ledger, ran, op, up>>

\* handle_cancel: PlanEngine.reset.
Cancel ==
    /\ up
    /\ current # None
    /\ current' = None
    /\ UNCHANGED <<steps, outcomes, consumed, executor, execLock, permits, claim, ledger, ran, op, up>>

\* A lease runs out; the row of a callback in its sink cannot be replaced.
Lapse(r) ==
    /\ claim[r] # None
    /\ WriterFree
    /\ claim' = [claim EXCEPT ![r] = None]
    /\ UNCHANGED <<volatile, ledger, ran, op, up>>

\* The process dies: plans, sidecars and threads go, the database and the files stay.
Crash ==
    /\ up
    /\ up' = FALSE
    /\ op' = [t \in Thread |-> Idle]
    /\ steps' = [p \in Plan |-> [n \in DOMAIN StepsOf[p] |-> [status |-> "pending", attempt |-> 0]]]
    /\ outcomes' = [p \in Plan |-> << >>]
    /\ consumed' = [p \in Plan |-> 0]
    /\ executor' = None
    /\ current' = None
    /\ execLock' = [p \in Plan |-> None]
    /\ permits' = [p \in Plan |-> 0]
    /\ UNCHANGED <<claim, ledger, ran>>

Run(t) ==
    \/ Enter(t) \/ Finish(t) \/ EndOfLoop(t) \/ SkipDone(t) \/ CallExecutor(t)
    \/ LookupFresh(t) \/ LookupUnresolved(t) \/ Acquire(t)
    \/ Resume(t) \/ BeginAttempt(t) \/ BeginRefused(t) \/ Prepare(t)
    \/ Dispatch(t) \/ DispatchRefused(t) \/ Effect(t) \/ Release(t)
    \/ SettleWrite(t) \/ Settle(t)

Next ==
    \/ \E t \in Thread : Run(t) \/ \E p \in Plan : Start(t, p)
    \/ \E p \in Plan : Retry(p)
    \/ \E r \in Resource : Lapse(r)
    \/ Cancel
    \/ Crash

Spec == Init /\ [][Next]_vars

-----------------------------------------------------------------------------
(* Properties *)

\* Whoever calls an executor, the budget of its plan pays for every attempt it
\* records and never for more than its limit.
EveryAttemptIsPaid ==
    \A p \in Plan : consumed[p] = Cardinality(DOMAIN outcomes[p]) /\ consumed[p] <= Budget[p]

\* A step is done only if an effect of its own definition took place.
DoneTookPlace ==
    \A p \in Plan : \A n \in DOMAIN steps[p] : steps[p][n].status = "done" =>
        \E o \in ran : o[2].n = n /\ o[2].d = StepsOf[p][n]

HasStep(p, n, d) == n \in DOMAIN StepsOf[p] /\ StepsOf[p][n] = d

\* No two plans have this very step.
Sole(n, d) == \A p, q \in Plan : HasStep(p, n, d) /\ HasStep(q, n, d) => p = q

\* "OUTCOME_UNKNOWN no puede reintentarse automáticamente": a command is never
\* dispatched twice under one key; and one that no other plan shares is never
\* dispatched while another attempt at its step has an unknown outcome.  A shared
\* one may be: the claim is released before the outcome is recorded.
NoBlindRepeat ==
    [][\A t \in Thread : op[t].pc = "dispatch" /\ op'[t].pc = "effect" /\ ~Recoverable(t) =>
          /\ Operation(t) \notin ran
          /\ Sole(op[t].n, Def(t)) => ~UnknownStep(t)]_vars

\* A plan's execution lock is held by the thread that is running that plan and by
\* nobody else: whatever fails on the way, the plan can be executed again.
LockIsHeldInside ==
    \A p \in Plan : \A t \in Thread :
        execLock[p] = t <=> op[t].plan = p /\ op[t].pc \notin {"idle", "enter"}

\* The attempts that some plan's step can reach through some plan's closure.
Attempt ==
    {o \in Plan \X [n : StepNo, a : 1 .. MaxAttempt, d : Definition] :
        \E p \in Plan : o[2].n \in DOMAIN StepsOf[p] /\ o[2].d = StepsOf[p][o[2].n]}
PaidByPlan == [p \in Plan |-> {o \in Attempt : o[1] = p}]
WriteAttempt == {o \in Attempt : o[2].d \in Writes}
outcomeBar ==
    [o \in Attempt |-> IF o[2] \in DOMAIN outcomes[o[1]] THEN outcomes[o[1]][o[2]] ELSE "none"]
recordBar == [o \in Attempt |-> IF o \in DOMAIN ledger THEN ledger[o] ELSE "none"]
Attempts == INSTANCE AttemptLedger WITH
    Envelope <- Plan,
    PaidBy <- PaidByPlan,
    Limit <- Budget,
    Ledgered <- WriteAttempt,
    outcome <- outcomeBar,
    record <- recordBar,
    materialised <- ran \cap Attempt

\* The sidecars and the ledger together keep the promises of AttemptLedger: an
\* attempt is paid and recorded before it takes place and ends once.
AttemptsAreAccountable == Attempts!Spec
=============================================================================
