# TLA+ verification of BAGO's control plane

BAGO is a local AI control plane: a Python bridge that lets an assistant propose
effects (writing files, running processes, installing, scheduling work) and lets
only authorised effects happen. This directory holds TLA+ specifications of the
parts that decide *whether and when* an effect may run, TLC configurations that
check them on small instances, and TLAPS proofs of what matters most.

Paths below are relative to `src/backend/.bago/` unless they start with `src/`.

## 1. Inventory

| Component | State it keeps | Operations | How it interacts | Correct when |
|---|---|---|---|---|
| Execution claims (`core/execution_claims.py`) | per resource: newest generation, owner, lease, status; in a dictionary, a SQLite table or PostgreSQL | `try_acquire`, `renew`, `release`, `expire`, `validate`, `execute_if_valid` | the gateway and the pipeline run material callbacks inside `execute_if_valid` | one live owner; only the newest generation executes; nothing replaces it while its callback runs |
| Authorization boundary (`core/authorization_boundary.py`, `core/native_approval.py`) | challenges and permits of the process (`_PROCESS_AUTHORITY`), mirrored to a file that is never read back | `create_challenge`, `approve_challenge`, `approve_cli_challenge`, `issue_delegated_permit`, `consume_permit`, `consumed_authority_lease`, `revoke_permit` | HTTP handlers, the CLI, the gateway, the scheduler | strong operations need a human's yes; one answer, one permit, one use; nothing runs under revoked authority |
| Delegation grants (`core/delegation_grant.py`) | `delegation_grants.json`: state, runs spent, bounded envelope | `issue_from_authorized_request`, `validate_child`, `claim_child`, `freshness_lease`, `revoke` | written by the `schedule.delegate` adapter, spent by the boundary | runs are spent before they are used and never given back; spent, expired or revoked grants pay nothing |
| Schedules (`core/schedule_registry.py`, `api/handlers_schedule.py`, `api/bridge.py`) | `schedules.json`: enabled, status, next run, grant | `create`, `update`, `delete`, `claim`, `claim_due`, `finish` | request threads and one scheduler thread; each file has its own lock | a schedule is not authority; no overlap; a claimed run ends; the scheduler survives its jobs |
| Execution gateway (`core/execution_gateway.py`, `core/execution_adapters/`) | the leases of install targets, in the claim store | `execute`, `execute_server_owned`, `execute_nested`, `execute_nested_effect` | composes boundary, claims, world-state checks and adapters | one permit, one effect; an install sees the target it was approved for; leases come back |
| Governed pipeline (`core/governed_work_pipeline.py`, `core/plan_engine.py`, `core/execution_operations.py`) | per plan: budget, outcomes, an execution lock; per engine: executor and current plan; a durable operation ledger | `begin_attempt`, `unresolved_attempt`, `resume_unresolved`, `commit`, `fail`, `unknown`; `prepare`, `commit`, `get` of the ledger; retry and cancel handlers | claims, `execute_nested`, adapters | attempts are paid; a command of unknown outcome is not repeated; what is done took place |
| Release jobs (`src/backend/electron/release-job-manager.cjs`, `system-install-client.cjs`) | per job: an object, its file, a queue of writes; one `activeLifecycleJob`; the download controllers | `startPrepare`, `resume`, `cancel`, `deleteJob`, `install`, `rollback` | backend adapters over HTTP, native dialogs, gateway receipts | each job ends; files follow the objects; only verified bundles are installed; a rollback restores |
| Autonomous loop (`core/autonomous_loop.py`) | a run lease, an inbox file | cycle, renew, inbox add/done | claims, gateway | one loop at a time |
| Capability packages, workspace binding and patches, filesystem effects | files and receipts | import, execute, apply, undo | gateway adapters | digests checked at the sink |
| Runtime service, supervisor | child processes | start, stop, restart | process callbacks | the bridge runs |
| Sessions, context, providers, frontend, MCP, tools, scripts | conversation text, settings | — | — | outside the core of this project |

### Where it is hard

* **Locks and clocks.** Almost every operation reads the clock first and takes
  its lock afterwards. The wait may be long: a compound child keeps the
  authority lock across its materializer, and a SQLite callback keeps the only
  writer of the database. A stale reading must never widen authority.
* **Several stores, one operation.** A delegated run touches the grants file,
  the permit ledger and the schedules file, each under its own lock, none held
  across another's update. Failures fall in between.
* **Durable and volatile state side by side.** Permits die with the process,
  grants, schedules and SQLite claims survive it.
* **Humans in the middle.** A native dialog is open for as long as the user
  likes while other threads approve, expire or revoke, and while other calls of
  the desktop manager go on.
* **Effects that may have happened.** A write can take place and its answer, its
  receipt or its bookkeeping be lost; the code then has to tell what may be
  repeated from what may not.
* **Awaits.** The desktop manager has one thread and no locks: every `await` is a
  point where another call changes the same job.

Every hazard, at its line, with the property that would catch it, is in
`PROJECT.json` under `hazards`.

## 2. Modules

| Module | Models |
|---|---|
| `FencedClaims` | what any claim store promises: per resource a growing series of generations, of which only the newest runs, and none is issued or withdrawn meanwhile |
| `ClaimRow` | the claim record and the tests on it that both local stores share |
| `InMemoryClaims` | `InMemoryExecutionClaimStore`; refines `FencedClaims` |
| `SQLiteClaims` | `SQLiteExecutionClaimStore`, busy timeouts and process deaths included; refines `FencedClaims` |
| `InMemoryClaimsProofs`, `SQLiteClaimsProofs` | their theorems |
| `GrantRow` | the mutable part of a `DelegationGrant` and the registry's judgements |
| `AuthorizationBoundary` | challenges, dialog, permits, consumption, child leases, delegation |
| `AuthorizationBoundaryProofs` | its theorems |
| `ScheduledDelegation` | schedule and grant registries under handlers, scheduler and crashes |
| `ScheduledDelegationProofs` | its theorems |
| `AttemptLedger` | what the pipeline promises for each attempt at a step: paid, recorded, then done, then committed, with a process that may die |
| `GovernedPipeline` | plans run through the pipeline by several threads, with claims, ledger and crash; refines `AttemptLedger` |
| `GovernedPipelineProofs` | its theorems |
| `ExecutionGateway` | `execute` and `execute_server_owned` over the shared claim store; refines `FencedClaims` |
| `ExecutionGatewayProofs` | its theorems |
| `ReleaseJobs` | `ReleaseJobManager` of the desktop application |
| `ReleaseJobsProofs` | its theorems |
| `MC*` | symmetry sets and plan shapes for TLC |

`ScheduledDelegation` and `AuthorizationBoundary` share `GrantRow`; the claim
stores and `ExecutionGateway` share `ClaimRow` and `FencedClaims`. The permit
steps that are several actions in `AuthorizationBoundary` (read deadline, mint,
present, consume) are the two actions `Spend` and `StartEffect` (or
`RefuseEffect`) in `ScheduledDelegation`, which is about the two files instead;
in `ExecutionGateway` a permit is what a person approved and whether it is spent,
which is what `AuthorizationBoundary` establishes about it (`NoReplay`).

Definitions whose comment starts with "Faulty" are not part of any behaviour:
each is a plausible bug in the operation that follows it, and `PROJECT.json`
(`mutants`) says which property rejects it.

### How state and steps correspond to the code

**Claims.** `rows[r]` is `_claims[r]` and `_fencing[r]`, or the row of the table
`execution_claims`. `claim_id`, owner and operation never change within a
generation, so the generation stands for the claim a caller presents, and a
caller may present any generation ever issued (a late thread). `op[c]` is the
call a thread or connection is inside, with the clock reading it took on entry.
A region under `_guard`, or a short `BEGIN IMMEDIATE` transaction, is one action.
What stays held across the callback is a variable: `effectLock[r]` in memory,
`writer` in SQLite. `release` and `execute_if_valid` wait for the effect lock
as an action of its own. The weak-value dictionary of locks is not modelled: a
lock somebody holds or waits for is referenced and so never collected.

**Authority.** `challenges` and `permits` are the in-process ledger. A request is
named by its fingerprint: equality of requests is equality of session, effect,
world digest and fingerprint, which the code compares one by one. The request of
a scheduled child contains its `delegation_id` and is therefore named by its
grant. `lapsed` is the set of records whose deadline passed; `op[t].fresh` is
what the clock reading taken *before* `_LOCK` said of the record, while
`approve_challenge`'s first region, the registry's and the lease's read it inside
the lock. `authLock` and `grantLock` are held only across a compound child,
`promptLock` across the dialog. `WriteFails` is `_write_ledger` raising: the
process memory keeps the previous ledger. `Crash` clears the ledger and keeps the
grants. `confirmed` and `uses` are history variables.

**Schedules.** `schedules` and `grants` are the two files; `due` says which
`next_run_at` have passed. A handler is the sequence of the locked regions it
runs, with the snapshot it took in `op[h].grant`. `ClaimDue` claims the whole
batch in one region, as `claim_due` does, and the scheduler then works through
`op[Scheduler].jobs`. `Finish` includes the second call of `finish` in the
`except` branch of `run_due_schedules`. A descriptor (`desc`) is what
`schedule_descriptor_digest` tells apart: target and cadence. A grant is bound to the
schedule id and the descriptor it was issued for (`boundTo`), and `Bound` is the two
comparisons of `_validate_child_locked` (`core/delegation_grant.py:346-349`). An update
body is a set of fields: "on" or "off", and the snapshot's `delegation_id` ("grant") or
its target and cadence ("desc"), the only values the handler lets through; a body with
part of a descriptor counts as the whole. `ApplyUpdate` merges them into the record that
has the id by then. `NoNextRun` is `_next_run` raising for a cron that has no instant
within 366 days: it refuses an update and a run, and one such schedule among the due
ones ends the whole `claim_due`. "succeeded" and "failed" are one status, "finished",
because nothing reads the difference.

**Pipeline.** `outcomes[p]`, `consumed[p]` and `execLock[p]` are the sidecar of
plan `p`; `executor` and `current` are the engine's. A step's definition is a
model value, so a key (step number, attempt, definition) is the code's
idempotency key without the plan's operation id, which `Operation` adds for the
ledger. A thread's `op[t].via` is the plan whose closure it is inside: it calls
whatever executor the engine holds, and only the execution lock is per plan. The
claims here are one value per resource, `Lapse` their lease running out;
generations are `SQLiteClaims`' subject. A ledger or a claim store that cannot be
read or written shows as the alternative that refuses, fails or leaves an outcome
unknown at each call of it. `Effect` takes place or not and answers ok, error,
refused or raised; only "ok" implies that it took place, because a write whose
directory `fsync` fails after `os.replace` raises. The whole process dies once
(`Crash`): plans are its memory, ledger and files survive, and nothing is run
afterwards in this model, because a restarted process knows none of the plans.

**Gateway.** `state[t]` is what `target_state_digest` tells apart: the content of the
target, "absent" included. An effect may leave any content, one the target had before
too, as a rollback, an uninstall or a repair does. `Approve` records the content the
person saw, `Fresh` compares it, before the permit is consumed and again inside
the lease or, for ordinary effects, holding nothing. `overtaken` is history: the installs
whose target an effect without a lease changed after their last check. `writer` is the callback
inside `execute_if_valid`. Callers are processes; each loses its permits and its
open transaction when it dies, the rows stay. Time passes in instants of `clock`.

**Release jobs.** A call in progress is a fiber; `todo` is the rest of it, from
the await it sits at. What the code does between two awaits is one action.
`queue[j]` is the promise chain of `_serializeStorage`: a snapshot is taken when
it is queued, a log writes the job as it is when its turn comes. A rejected write
puts `thrown` in front of the fiber's rest, and `ThrownOutside`, `ThrownInside`
and `ThrownInCatch` are the code's `try`, `catch` and `finally` clauses by the
place it is thrown at. `target` is an earlier runtime, the release or nothing;
`backups[j]` is what each installation of the job set aside, in order, and what a
rollback moved back is "used"; `displaced[j]` is the names rollbacks have moved the
target to. A job has the number of its backup for `backup_path`. As in
`_restoreAtomicBackup`, a rollback takes that number (`path`) and its name (`aside`)
before it awaits a write and a dialog, and performs it on whatever is at these paths
afterwards, provided they are as the challenge saw them (`Sees`, `Unchanged`). `Helper` is the
backend's installation: it installs, fails before it does, or its answer is lost.
`RolledBack` and `Stranded` are the outcomes of `_execute_rollback`. `lost` and `dropped` are history: jobs whose last write was rejected,
and jobs left behind by a call that a rejection ended where no clause handles it
(section 5).

## 3. Runs

| Run | Question | Instance |
|---|---|---|
| `in_memory_claims` | exclusion, fencing, no leaked lock, refinement | 2 threads, 2 resources, lease 2, clock to 3, acquires up to generation 2 |
| `sqlite_claims` | the same across processes, with deaths and timeouts | 2 processes, 2 resources, same bounds |
| `authorization` | from a human's yes to a delegated child and its revocation | 2 threads, 1 challenge, 3 permits, 1 grant of 2 runs |
| `approvals` | approvals racing for a challenge | 2 threads, 2 challenges, 2 permits |
| `scheduled_delegation` | handlers and scheduler on one schedule, crashes | 2 handlers, 1 schedule, 2 descriptors, 2 grants of 1 run, the patches that turn on with the descriptor read before, and off |
| `schedule_liveness` | the scheduler always comes back, a batch of two schedules | 1 handler, 2 schedules, a daily and a leap-day descriptor, 2 grants of 1 run, the patch that pauses, `FairSpec` |
| `execution_gateway` | one effect per permit, installs see what was approved, leases, refinement | 2 processes, 2 targets, 2 permits, 2 contents, lease 1, clock to 2 |
| `governed_pipeline` | budget, truth of "done", locks, no blind repeat | 2 threads, 2 plans with the same first step (a write; the first plan adds a command), budgets of 2, 2 and 1 executions |
| `attempt_ledger` | the pipeline implements `AttemptLedger` | 2 threads, a plan that writes (2 executions, budget 2) and one that runs a command (1, 1) |
| `release_jobs` | jobs end, files follow, lifecycle comes back | 1 job, 2 fibers, 5 calls, 1 rejected write or restart |
| `release_rollback` | a statement of the tests the code does not keep (section 5) | 1 job, 1 fiber, 1 rejected write |
| `schedule_overlap` | a statement of the code's messages it does not keep (section 5) | 1 schedule, 1 handler beside the scheduler |

**Bounds.** `MaxTime` and `Lease` let a lease lapse before, during and after another's
wait and be renewed once; `MaxToken` only forbids an acquire to *start* at that
generation, so two threads may still push past it and three generations exist. Two
actors are enough for each pairwise race; the third party of a race is the environment
(clock, revocation, crash), which needs no actor. Two grants on one schedule are a
schedule deleted and created again under the same id. Every id is used once, as the
code's UUIDs are, so the number of permits bounds the length of a history; three permits
are the parent's and one per run of the grant. `Permits` of the pipeline is how often
each plan is executed: twice is a run and its retry. (Two unfinished writes of one step,
which make `LookupUnresolved` raise, need a fourth execution; they lie beyond this bound
and are covered by the proofs.) Two contents let a target change and change back, by an
install or by another effect. Two descriptors on one schedule id let it be created anew
with another target under an update that read the old one; the patch with "desc" writes
such a snapshot back. (That a patch may send the old `delegation_id` back is left to the
proofs, which are about all patches.) `MaxCalls` is the number of calls a user makes of
the desktop manager: five let a release be prepared, cancelled, resumed, installed and
rolled back, or prepared, installed in vain, resumed, installed and rolled back, or two
of these overlap at any place, with a delete for any of them. `MaxFaults` counts
rejected writes and restarts together.

Deadlock checking is off in five configurations whose systems come to rest: the
two of the pipeline (nothing left to run, or the process has died), the gateway (permits used
up and the clock at its bound) and the two of the release jobs (calls used up). Elsewhere
time, sweeps or calls on existing records always remain possible.

The declared types (`TypeOK`) are invariants of the runs of `SQLiteClaims`,
`AuthorizationBoundary` and `GovernedPipeline`, where a mutant of the code breaks
them; elsewhere `TypeOK` documents the state, and it is proved of all modules
that have a proofs module.

**Symmetry** is used over threads, fibers, resources, targets, contents, challenges,
permits, grants and descriptors, in runs of safety properties only; the liveness run uses none.

**Fairness** (`FairSpec` of `ScheduledDelegation`): weak fairness of `ClaimDue`,
because `_schedule_loop` wakes every five seconds and catches every exception of
a tick, and of each thread's `Run` steps, because a running thread goes on and an
effect returns in the end. A tick that raises claims nothing: `ClaimDue` is not enabled
while a ready schedule has no next run, and `ReadyIsClaimed` names that state (`Blocked`). Nothing is assumed of users: a handler between two
regions may stop there for ever.

**What they show.** The claim stores exclude and fence under any interleaving of late
calls, timeouts and deaths. The boundary mints one permit per answer, a permit is used
once, and a compound child never runs under authority revoked before it started.
Handlers and scheduler may bind a schedule to another's grant, but nothing runs then,
and each run is paid before it starts. An install is dispatched only on the content its
approval was for (`InstallsSeeWhatWasApproved`) although permit, lease and check are
three stores, unless an effect that takes no lease changed the target after the check;
its lease comes back on every way out but two that the property names. In the pipeline,
a budget pays exactly the attempts it recorded even when one plan's steps run through
another's closure, a step is "done" only if its own effect took place, and a command is
not dispatched twice under one key, nor past an unknown outcome of a step that only its
plan has. A release job never stays active with nobody at work, and once everything is
quiet its file is what the manager shows.

## 4. Proofs

Seven modules are proved about, for all sets of clients, resources, targets,
challenges, permits, grants, schedules, threads, plans, jobs and fibers, every lease
and every bound. The assumptions (`ClaimsAssumption`, `GatewayAssumption`,
`BoundaryAssumption`, `MaxRunsAssumption`, `ScheduledAssumption`,
`PipelineAssumption`, `ReleaseAssumption`) only ask `None` and the kinds of names to
differ from each other, the numbers to be natural, a lease to last, a plan to be a
sequence of steps and a release to have something to download; one theorem has a hypothesis of its own (`NoSharedStep`, below). Each proof has the same shape: an inductive
invariant `IInv`, `InitIInv`, a step lemma with one case per action
(`NextIInv`), and theorems that follow from it.

**`SQLiteClaimsProofs`.**

* `Typing`: `TypeOK`.
* `EffectRunsUnderCurrentClaim` (`RunningIsCurrent`) and `NoAbandonedWriter`
  (`WriterIsInEffect`).
* `RetirementIsFinal`, `NoProcessStealsALease` (`NoTheft`) and
  `ExpiredClaimsCannotExecute` (`EffectsStartLive`), action properties.
* `ImplementsFencedClaims`: `Spec => FencedSpec`, the refinement.

`IInv` is `TypeOK` with five facts, each needed: `RunningIsCurrent` and
`WriterIsInEffect` tie the writer to the one callback; `PresentsIssued` says a
caller presents a generation that was issued (at least 1), without which a running
effect could be mistaken for "none" under the refinement; `NamesResource` says a
call in progress is about a resource; `ReadsThePast` says a clock reading is never
later than the clock, which is all `NoTheft` needs: a lease live *now* was live at
any earlier reading. Only transactions change rows, they need the writer free, and
with the writer free nobody is in a callback.

**`InMemoryClaimsProofs`.**

* `Typing`; `EffectLocksComeBack` (`LockDiscipline`), `NoThreadStealsALease` (`NoTheft`),
  `ExpiredClaimsCannotExecute` (`EffectsStartLive`).
* `ImplementsFencedClaims`: the same refinement from another mechanism.

Here `_guard` does not exclude a callback, so the argument is another one: a callback
holds its resource's effect lock (`LockDiscipline`), and whoever rewrites a row
while it runs either holds that lock (`Release`), finds it taken (`Acquire`,
`Expire`) or changes neither generation nor status (`Renew`). That is
`EffectsAreCurrent`, the invariant the refinement rests on; `CallsAreFormed` and
`ReadsThePast` play the parts of `PresentsIssued` and `ReadsThePast` above.

**`ExecutionGatewayProofs`.**

* `Typing`; `OneEffectPerPermit` (`EffectsArePaid`); `NoForgottenLease`
  (`LeaseComesBack`).
* `ApprovalStillHolds` (`InstallsSeeWhatWasApproved`): permit, lease and world-state
  check together.
* `InstallsImplementFencedClaims` (`InstallsAreFenced`).

`IInv` says of a call in progress that it is well formed (`CallsAreFormed`), names a
permit of its own process which is spent once it is past `Consume`
(`CallsOwnTheirPermit`), and has its effect still ahead (`OneEffectAhead`,
`UnspentIsUnused`): without these two a second call past `Consume` with the same
permit would not be excluded. `WriterIsInLease` makes the regions of
`execute_if_valid` exclusive, so that nobody installs between a call's check and its
dispatch, and `StateSteps` says that whatever else changes the target there is noted in
`overtaken`. Nothing is assumed of the contents: they may recur, and the theorem does not
say that the target stayed as it was since the approval, only that it is so now.

**`AuthorizationBoundaryProofs`.**

* `Typing` (`TypeOK`).
* Permits: `PermitsAreNotReplayed` (`NoReplay`), `OnePermitPerAnswer`
  (`OneAnswerOnePermit`), `StrongNeedsHuman` (`StrongUseWasConfirmed`),
  `AuthorityIsSpentForGood` (`AuthorityOnlyShrinks`).
* Grants: `GrantsNeedHuman` (`GrantsComeFromHumans`), `RunsPayForPermits`
  (`RunsBoundPermits`).
* Locks: `DialogComesBack` (`PromptLockDiscipline`), `LeasesComeBack`
  (`LeaseLockDiscipline`), `ChildrenRunUnderAuthority`
  (`NoChildUnderRevokedAuthority`).

The module has some twenty actions, so the proof first says what *any* step may do to
one call, challenge, permit or grant (`CallSteps`, `ChallengeSteps`, `PermitSteps`,
`GrantSteps`); each invariant is then an argument about those few changes and not a
case per action. `Typed` adds to `TypeOK` that a call names what it is about, and is
inductive by itself. `LockInv` carries the children: nothing writes a permit while
`authLock` is held, and a child of a delegated permit holds `grantLock` as well
(`ChildPinsItsGrant`), so neither of its two authorities moves until it ends.
`PermitInv` carries the permits: an active one is unused (`ActiveIsUnused`), one that
exists has a challenge or a grant behind it (`PermitsHaveOrigin`), an approval that
did not come through the channel had a human's yes (`AnswersAreGiven`), and a
challenge has at most one permit, none before it is approved (`MintedOnce`). `RunInv`
counts: the permits of a grant and the calls between `claim_child` and the ledger
write are finite sets, a run is added before either grows, and minting moves one from
the second set to the first.

**`ScheduledDelegationProofs`.**

* `Typing` (`TypeOK`).
* `WhatRunsWasDelegated` (`OnlyTheDelegatedRuns`), `EffectsAreWithinRuns`
  (`RunsAreSpentFirst`).
* `SpentGrantsStaySpent` (`GrantsOnlyShrink`) and `ForgottenGrantsAreInert`
  (`OrphansAreInert`), action properties.

Two files, no common lock, and threads that carry snapshots: what matters is what a
step may do to one schedule, one grant, one call (`ScheduleSteps`, `GrantSteps`,
`CallSteps`). `BoundInv` is `OnlyTheDelegatedRuns` with one fact it rests on: the grant of
a thread at work was issued. What a grant is bound to is written when it is issued and
never again (`BoundSteps`), so the comparison that `claim_child` made for a thread still
holds while its effect runs, whatever became of the schedule's record. No invariant ties
a schedule's record to its grant: there is none (section 5). `RunInv` counts: the effects a grant started and the
threads that hold a permit of it (`Permitted`, a finite set) are together no more
than the runs written down, these no more than were granted. A permit moves a
thread into the set after the run is written and out of it when the effect starts.

**`GovernedPipelineProofs`.**

* `Typing` (`TypeOK`), `LocksAreHeldInside` (`LockIsHeldInside`).
* `AttemptsArePaid` (`EveryAttemptIsPaid`), `DoneStepsTookPlace` (`DoneTookPlace`).
* `CommandsAreNotRepeatedBlindly` (`NoBlindRepeat`), an action property.
* `AttemptsAreKept`: `NoSharedStep => (Spec => AttemptsAreAccountable)`, the refinement
  of `AttemptLedger` for plans of which no two have the same step.

The steps of the executor are summarised twice: what they do to the call of the thread
(`WorkSteps`: it goes on to a step whose preconditions `Follows` names) and what they
do to the tables (`KeepSteps`, `TableSteps`). `IInv` has five parts. `Typed` adds to
`TypeOK` the shape of a call, above all that the key it carries is of the step it is
at. `LockIsHeldInside` is inductive as it stands. `PaidInv` adds to
`EveryAttemptIsPaid` that the attempts are finitely many, without which their number
says nothing. `PlaceInv` is the chain behind "done": what the receipt, the ledger or
the outcome table calls committed took place. `BlindInv` is about commands: what ran
is on record while the process is up, no two threads attempt the same command under
one key, and at the dispatch the operation did not run yet. For the refinement,
`AccountInv` says what a thread in the middle of an attempt may rely on (`Account`:
its attempt is still pending, and a write's ledger record follows it), which the
others leave alone (`Spares`), because of two threads at one step only one can
hold the plan's lock.

The proofs corrected the model and its claims. `NoBlindRepeat` used to deny any
dispatch past an unknown outcome; its induction fails at a command that two plans
have in common, and the program does repeat it then (section 5). The refinement needs
`NoSharedStep` for the reason given there. Both counterexamples were confirmed
with TLC.

**`ReleaseJobsProofs`.**

* `Typing` (`TypeOK`).
* `NobodyForgetsAJob` (`NoOrphanedJob`), `LifecycleIsGivenBack` (`LifecycleComesBack`).
* `FilesFollowJobs` (`QuietMeansPersisted`).
* `OnlyVerifiedIsInstalled` (`InstalledWasVerified`), an action property.

Thirty-four operations and continuations, on any number of fibers, share one shape, and
the proof states it once. `Steps(f)` says what a step of `f` may do: take one job from one
record to another, queue at most one write of it, and leave `f` with a new rest of its
call. `EveryStep` says that every step of the manager is one of these, a write that ends
or a restart, with one lemma per operation; the invariants are then argued about three
kinds of step. `Typed` adds to `TypeOK` the shape of a rest: a log, a challenge or a
rejection may come first, and the continuation that decides comes last (`ShapedTodo`), so
that putting "thrown" in front of a rest changes nothing about what it ends in.

`NoOrphanedJob` is not inductive, because it counts any call at work on the job, a
cancel or a declined dialog too. `OwedInv` asks for one whose rest ends in a
continuation that still owes the job a terminal state (`Owing`), and a call hands that
debt on or pays it, but never drops it outside `dropped`. `ReservedInv` is the same
for the lifecycle, and the call is one on the very job that `lifecycle` names. For the files, `WaitInv` says that each write in
a queue has a waiting fiber of its own, `LastInv` that the newest one has the job as it is,
and `DiskInv` that a job without writes waiting is on disk, unless its archive has just been
written and it is about to be unlisted. `SoundInv` carries `verified` from the staging to
wherever a job record can be: memory, file, waiting writes, and the backups, which
are where a release that was installed twice comes back from. A record or a call in
progress may name a backup that holds a release (`Releases`) only if its job was
verified; that survives the steps of others because backups are added and used but
never exchanged (`Kept`), so a number taken before an await still stands for the same
backup, or a used one, after it. A fiber past the
dialog (`Trusting`) relies on it although nothing is checked again there, and it may
because no operation takes `verified` away.

**What no run checks of these.** `BoundInv`, `RunInv`, `PaidInv`, `OwedInv` and the other
strengthenings are invariants of the proofs alone.

**Left to TLC.** Liveness under fairness (`ReadyIsClaimed`) is out of the
prover's reach, and so is anything that needs `ENABLED`. The refinement of
`AttemptLedger` without `NoSharedStep` is false. Every other property that a passing run
checks is a theorem.

## 5. Where code and text disagree

Two are runs whose property TLC refutes; `PROJECT.json` (`findings`) quotes the
text and the lines.

* `schedule_overlap`: `update` resets the status of a running schedule, and a
  second run starts beside the first.
* `release_rollback`: an installation fails its validation, the automatic restore
  puts the backup back, and the write of that result is rejected. The `catch`
  offers a rollback although there is no backup any more. Performed, it moves the
  restored runtime aside and reports "rolled-back" with nothing installed.

The models contain more of them, found on the way and kept out of the runs, which
answer one question each:

* *A revoked grant's child runs.* `consume_permit` never asks the grant registry,
  so a child permit minted before the revocation is consumed after it, although
  `src/backend/docs/contracts/scheduler_delegation.v1.md:45` says a revoked grant
  fails closed. Compound children do ask (`NoChildUnderRevokedAuthority` holds).
* *"running" survives the process* and nothing resets it; `claim` and `delete`
  then refuse the schedule for ever.
* *A job of a batch deleted during its run* makes `finish` raise twice, and the
  rest of the claimed batch stays "running". The thread survives
  (`ReadyIsClaimed`).
* *A delete that raced with a delete and a re-creation* revokes the grant of a
  stale snapshot and leaves the new one active.
* *A schedule enabled with another's grant.* `handle_update` validates its snapshot
  and `ScheduleRegistry.update` merges the body into the record that has the id by then
  (`core/schedule_registry.py:239-240`). If the schedule was deleted and created anew
  meanwhile, the old target, cadence or `delegation_id` lands on the new record, which
  stays enabled with a grant issued for something else, although
  `src/backend/docs/contracts/scheduler_delegation.v1.md:46` says that such a change
  invalidates the delegation. Each of its runs fails closed, at `claim_child`
  (`OnlyTheDelegatedRuns`), and nothing pauses it.
* *A 29 February blocks every schedule.* When `0 0 29 2 *` falls due, `_next_run` finds
  no run within 366 days and raises (`core/schedule_registry.py:129`, from line 278).
  `claim_due` then writes nothing, for no schedule of the batch, at this tick and at all
  the next ones. Pausing the schedule is refused for the same reason; deleting it helps.
* *A digest recurs.* `target_state_digest` is of the content alone. An install
  followed by a rollback, an install where nothing was followed by its uninstall, or a
  repair that changes nothing brings the approved content back, and a second install approved on it is accepted. The person
  approved that content, so `InstallsSeeWhatWasApproved` holds; nothing says that the
  target was left alone in between.
* *Steps under another plan's permit.* Two plans of one engine that run at once
  share its executor: the steps of the first run through the closure of the
  second, wherever the two define the same step, and are charged to its budget.
  `governed_work_pipeline.py:627` says a plan runs "under one consumed parent
  Permit". `EveryAttemptIsPaid` and `DoneTookPlace` hold all the same.
  `AttemptsAreAccountable` does not: an attempt that one thread recorded as failed
  may be carried out by the thread that resumed it meanwhile. Its run and its theorem
  are therefore about plans with distinct steps.
* *A shared command is dispatched past an unknown outcome.* When a dispatch raises, the
  executor releases its claim (`core/governed_work_pipeline.py:803`) before it records
  the outcome (814). In between, the same step of another plan that has retried it
  before takes the claim, finds nothing unknown, reserves an attempt under a key of
  its own, and dispatches the command when the first attempt is already unknown.
* *A cancelled plan goes on.* `handle_cancel` answers "Pipeline cancelado" and
  only forgets the current plan.
* *A rejected write outside the `try`* of `install` or `rollback`, or at the log
  of the `catch`, leaves the job active and the lifecycle reserved until the
  application restarts. This is the exception (`dropped`) of `NoOrphanedJob` and
  `LifecycleComesBack`.
* *Overlapping dialogs.* `install` checks `activeLifecycleJob` before its dialog
  and not after it: of two confirmed installations of one job the gateway refuses
  the second, which then marks the first's completed job as failed. The second also
  tries to restore the first's backup, whose path it reads before its own dialog; if
  a rollback of the first uses that backup meanwhile, the second moves the restored
  runtime aside, finds the backup missing (`system_install_rollback.py:107`), and
  nothing is installed although no write was rejected (`Stranded`): with two
  fibers `RolledBackIsRestored` fails without any fault. `release_rollback` shows the
  case that needs one call at a time.

Two consequences of reading the clock before the lock are in the models and no
property forbids them: a permit that expires while `consume_permit` waits for
`_LOCK` is consumed, and a renewal that waits for the SQLite writer extends a
lease that lapsed meanwhile (its generation is still the newest).

## 6. Plan

1. *Done*: claim stores with refinement and proofs; authorization boundary with
   grants; schedules; gateway; governed pipeline with its abstract ledger; release
   jobs.
2. *Done*: proofs of the two claim stores and of the gateway over them, with their
   refinements of `FencedClaims`; proofs of the boundary.
3. *Done*: proofs of `ScheduledDelegation`, of `GovernedPipeline` with its refinement
   of `AttemptLedger`, and of `ReleaseJobs`.
4. `PostgresClaims` as a third refinement of `FencedClaims`.

## 7. Not modelled

* `PostgresExecutionClaimStore` (planned), and the functions that name resources.
* The autonomous loop. `act` passes `mutating=` to `_run_tool`
  (`core/autonomous_loop.py:506`), which takes no such argument (line 191), so
  every goal that is not skipped raises `TypeError`: no run but a dry one gets
  beyond its first action, and a model of the rest would be of code that never
  runs. Its lease is a claim of the SQLite store.
* Step checkpoints of the pipeline and the replay of the last execution's answer:
  they are written and shown, and decide nothing in the modelled functions.
* Capability packages, workspace patches and the other adapters below the
  gateway: sequences of operating-system calls within one authorised effect. The
  install adapter and its rollback are a step each, with the outcomes their
  receipts tell apart. A surviving installer process whose gateway died is outside, and so
  is an installation that fails half way and whose own restore
  (`_restore_failed_release`) fails too.
* Runtime service, supervisor: process I/O. Sessions, providers, frontend, MCP
  server, tools and scripts assemble text or present state.
* Within the modelled components: cron and time-zone arithmetic (`FallDue` is the
  environment's choice, and `Sparse` the crons that may run out of next runs), the fields of a request beyond its identity, corrupted or
  hand-edited state files, clocks that run backwards, and the projection of the
  permit ledger to disk, which is never read back.
