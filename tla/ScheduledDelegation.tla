------------------------ MODULE ScheduledDelegation ------------------------
(***************************************************************************)
(* Scheduled work under delegated authority: ScheduleRegistry               *)
(* (core/schedule_registry.py), the grants of core/delegation_grant.py, the *)
(* HTTP handlers of api/handlers_schedule.py and the one scheduler thread   *)
(* of api/bridge.py.                                                        *)
(*                                                                          *)
(* Each registry has its own lock, held for one read-modify-write of its    *)
(* file and never across the other's: one such region is one action, and a  *)
(* handler is the sequence of the regions it runs.  The scheduler claims    *)
(* every due schedule in one region and then runs them one at a time.       *)
(*                                                                          *)
(* `due' holds the schedules whose next_run_at has passed, `lapsed' the     *)
(* grants whose expires_at has.  A descriptor is what schedule_digest       *)
(* hashes, the target and the cadence.  AuthorizationBoundary.tla has the   *)
(* ledger steps that are one action (StartEffect) here.                     *)
(***************************************************************************)
EXTENDS GrantRow, FiniteSets

CONSTANTS
    Handler,               \* request threads of the bridge
    Scheduler,             \* the thread of _schedule_loop
    Schedule, Grant, Descriptor, None,
    Sparse,                \* the descriptors whose cron may have no run within a year
    Patches,               \* the bodies of update that users send, of those below
    Crashes                \* whether the process may die

Actor == Handler \cup {Scheduler}

\* The body of an update may turn the schedule on or off, and may send back the
\* delegation_id ("grant") or the target and cadence ("desc") of the snapshot; a
\* rename is the empty set.
Patch == {fields \in SUBSET {"on", "off", "grant", "desc"} : ~({"on", "off"} \subseteq fields)}

ASSUME ScheduledAssumption ==
    /\ Scheduler \notin Handler
    /\ Sparse \subseteq Descriptor
    /\ Patches \subseteq Patch
    /\ Crashes \in BOOLEAN
    /\ None \notin Schedule \cup Grant \cup Descriptor

VARIABLES
    schedules,             \* schedules.json
    due,                   \* schedules whose next_run_at has passed
    grants,                \* delegation_grants.json
    boundTo,               \* schedule_id and schedule_digest of each grant
    lapsed,                \* grants whose expires_at has passed
    op,                    \* what each thread is inside
    started                \* history: effects started under each grant

vars == <<schedules, due, grants, boundTo, lapsed, op, started>>

Absent == [status |-> "none", enabled |-> FALSE, grant |-> None, desc |-> None]
Idle == [pc |-> "idle", sched |-> None, grant |-> None, desc |-> None,
         patch |-> {}, jobs |-> {}, outcome |-> "none"]
Running == {"spending", "permitted", "effect", "finishing"}
Binding == [sched : Schedule, desc : Descriptor]
Job == [sched : Schedule, grant : Grant, desc : Descriptor \cup {None}]

TypeOK ==
    /\ schedules \in [Schedule -> [status : {"none", "scheduled", "paused", "running", "finished"},
                                   enabled : BOOLEAN, grant : Grant \cup {None}, desc : Descriptor \cup {None}]]
    /\ due \subseteq Schedule
    /\ grants \in [Grant -> GrantRecord]
    /\ boundTo \in [Grant -> Binding \cup {None}]
    /\ lapsed \subseteq Grant
    /\ op \in [Actor -> [pc : {"idle", "creating", "undoing", "validating", "updating", "deleting",
                               "revoking"} \cup Running,
                         sched : Schedule \cup {None}, grant : Grant \cup {None},
                         desc : Descriptor \cup {None}, patch : Patch, jobs : SUBSET Job,
                         outcome : {"none", "returned", "raised"}]]
    /\ started \in [Grant -> Nat]

Init ==
    /\ schedules = [s \in Schedule |-> Absent]
    /\ due = {}
    /\ grants = [g \in Grant |-> NoGrant]
    /\ boundTo = [g \in Grant |-> None]
    /\ lapsed = {}
    /\ op = [a \in Actor |-> Idle]
    /\ started = [g \in Grant |-> 0]

registries == <<schedules, due, grants, boundTo>>

Exists(s) == schedules[s].status # "none"
Set(s, record) == schedules' = [schedules EXCEPT ![s] = record]
Goto(a, pc) == op' = [op EXCEPT ![a].pc = pc]
Return(a) == op' = [op EXCEPT ![a] = Idle]
Enter(a, pc, s, g, d, patch) ==
    op' = [op EXCEPT ![a] = [Idle EXCEPT !.pc = pc, !.sched = s, !.grant = g, !.desc = d, !.patch = patch]]

\* _next_run finds no run within 366 days: the cron has just fallen due, and its
\* next instant is years away (29 February).
NoNextRun(s) == schedules[s].desc \in Sparse /\ s \in due

\* The grant was issued for the schedule and the descriptor this thread works with.
Bound(a) == boundTo[op[a].grant] = [sched |-> op[a].sched, desc |-> op[a].desc]

-----------------------------------------------------------------------------
(* handle_create *)

\* Faulty: a draft keeps the delegation_id an earlier schedule of this id had.
CreateDraftAdopting(h, s, d) ==
    /\ op[h].pc = "idle"
    /\ ~Exists(s)
    /\ \E g \in {g \in Grant : boundTo[g] = [sched |-> s, desc |-> d]} :
          Set(s, [status |-> "paused", enabled |-> FALSE, grant |-> g, desc |-> d])
    /\ due' = due \ {s}
    /\ UNCHANGED <<grants, boundTo, lapsed, op, started>>

\* A paused draft without authority goes straight to the registry.
CreateDraft(h, s, d) ==
    /\ op[h].pc = "idle"
    /\ ~Exists(s)
    /\ Set(s, [status |-> "paused", enabled |-> FALSE, grant |-> None, desc |-> d])
    /\ due' = due \ {s}
    /\ UNCHANGED <<grants, boundTo, lapsed, op, started>>

\* The gateway ran schedule.delegate: the grant is written first.
IssueGrant(h, s, g, d, patch) ==
    /\ op[h].pc = "idle"
    /\ grants[g].state = "none"
    /\ grants' = [grants EXCEPT ![g] = IssuedGrant]
    /\ boundTo' = [boundTo EXCEPT ![g] = [sched |-> s, desc |-> d]]
    /\ Enter(h, "creating", s, g, d, patch)
    /\ UNCHANGED <<schedules, due, lapsed, started>>

\* Then the schedule; a conflict, or a cron that has no next run any more, sends the
\* handler to withdraw the grant.
CreateSchedule(h) ==
    LET s == op[h].sched
        enabled == "on" \in op[h].patch
    IN  /\ op[h].pc = "creating"
        /\ \/ /\ ~Exists(s)
              /\ Set(s, [status |-> IF enabled THEN "scheduled" ELSE "paused", enabled |-> enabled,
                         grant |-> op[h].grant, desc |-> op[h].desc])
              /\ due' = due \ {s}
              /\ Return(h)
           \/ /\ Exists(s) \/ op[h].desc \in Sparse
              /\ Goto(h, "undoing")
              /\ UNCHANGED <<schedules, due>>
        /\ UNCHANGED <<grants, boundTo, lapsed, started>>

-----------------------------------------------------------------------------
(* handle_update: snapshot, validation of the snapshot, registry.update *)

Enables(patch, record) == "on" \in patch \/ ("off" \notin patch /\ record.enabled)

BeginUpdate(h, s, patch) ==
    LET enabled == Enables(patch, schedules[s])
    IN  /\ op[h].pc = "idle"
        /\ Exists(s)
        /\ ~NoNextRun(s)
        /\ enabled => schedules[s].grant # None
        /\ Enter(h, IF enabled THEN "validating" ELSE "updating",
                 s, schedules[s].grant, schedules[s].desc, patch)
        /\ UNCHANGED <<registries, lapsed, started>>

\* validate_child judges what the snapshot says.
Validate(h) ==
    LET g == op[h].grant
        allowed == Claimable(grants[g], g \in lapsed) /\ Bound(h)
    IN  /\ op[h].pc = "validating"
        /\ \/ allowed /\ Goto(h, "updating") /\ UNCHANGED grants
           \/ /\ ~allowed
              /\ grants' = [grants EXCEPT ![g] = Judged(grants[g], g \in lapsed)]
              /\ Return(h)
        /\ UNCHANGED <<schedules, due, boundTo, lapsed, started>>

\* Faulty: registry.update relies on what handle_update found in its snapshot.
ApplyUpdateUnchecked(h) ==
    LET s == op[h].sched
        enabled == Enables(op[h].patch, schedules[s])
    IN  /\ op[h].pc = "updating"
        /\ Exists(s)
        /\ Set(s, [schedules[s] EXCEPT !.enabled = enabled,
                                        !.status = IF enabled THEN "scheduled" ELSE "paused"])
        /\ due' = due \ {s}
        /\ Return(h)
        /\ UNCHANGED <<grants, boundTo, lapsed, started>>

\* registry.update merges the patch into the CURRENT record, whatever became of the
\* snapshot, and recomputes status and next_run_at, whatever the status was.
ApplyUpdate(h) ==
    LET s == op[h].sched
        enabled == Enables(op[h].patch, schedules[s])
        grant == IF "grant" \in op[h].patch THEN op[h].grant ELSE schedules[s].grant
        desc == IF "desc" \in op[h].patch THEN op[h].desc ELSE schedules[s].desc
        valid == Exists(s) /\ (enabled => grant # None)
    IN  /\ op[h].pc = "updating"
        /\ \/ /\ valid
              /\ NoNextRun(s) => desc # schedules[s].desc
              /\ Set(s, [status |-> IF enabled THEN "scheduled" ELSE "paused",
                         enabled |-> enabled, grant |-> grant, desc |-> desc])
              /\ due' = due \ {s}
           \/ (~valid \/ desc \in Sparse) /\ UNCHANGED <<schedules, due>>
        /\ Return(h)
        /\ UNCHANGED <<grants, boundTo, lapsed, started>>

-----------------------------------------------------------------------------
(* handle_delete: snapshot, registry.delete, revocation of the snapshot's grant *)

BeginDelete(h, s) ==
    /\ op[h].pc = "idle"
    /\ Exists(s)
    /\ Enter(h, "deleting", s, schedules[s].grant, schedules[s].desc, {})
    /\ UNCHANGED <<registries, lapsed, started>>

ApplyDelete(h) ==
    LET s == op[h].sched
        refused == ~Exists(s) \/ schedules[s].status = "running"
    IN  /\ op[h].pc = "deleting"
        /\ \/ /\ ~refused
              /\ Set(s, Absent)
              /\ due' = due \ {s}
              /\ IF op[h].grant = None THEN Return(h) ELSE Goto(h, "revoking")
           \/ refused /\ Return(h) /\ UNCHANGED <<schedules, due>>
        /\ UNCHANGED <<grants, boundTo, lapsed, started>>

\* DelegationGrantRegistry.revoke, by handle_delete or by a failed handle_create.
Revoke(h) ==
    LET g == op[h].grant
    IN  /\ op[h].pc \in {"undoing", "revoking"}
        /\ grants' = [grants EXCEPT ![g] = Revoked(grants[g])]
        /\ Return(h)
        /\ UNCHANGED <<schedules, due, boundTo, lapsed, started>>

-----------------------------------------------------------------------------
(* Runs: claim, spend, effect, finish *)

Claimed(S) == [s \in Schedule |-> IF s \in S THEN [schedules[s] EXCEPT !.status = "running"] ELSE schedules[s]]
JobOf(s) == [sched |-> s, grant |-> schedules[s].grant, desc |-> schedules[s].desc]
StartJob(a, job, jobs) ==
    op' = [op EXCEPT ![a] = [Idle EXCEPT !.pc = "spending", !.sched = job.sched, !.grant = job.grant,
                                         !.desc = job.desc, !.jobs = jobs \ {job}]]

\* run_schedule: the user asks for a run now.
ClaimOne(h, s) ==
    /\ op[h].pc = "idle"
    /\ schedules[s].status \notin {"none", "running"}
    /\ schedules[s].grant # None
    /\ ~(schedules[s].enabled /\ NoNextRun(s))
    /\ schedules' = Claimed({s})
    /\ due' = due \ {s}
    /\ StartJob(h, JobOf(s), {})
    /\ UNCHANGED <<grants, boundTo, lapsed, started>>

\* run_due_schedules: everything due is claimed before anything runs.  One schedule
\* whose next run cannot be computed raises before the file is written, and the
\* whole tick with it.
Ready == {s \in due : schedules[s].enabled /\ schedules[s].grant # None /\ schedules[s].status # "running"}

ClaimDue ==
    LET jobs == {JobOf(s) : s \in Ready}
    IN  /\ op[Scheduler].pc = "idle"
        /\ Ready # {}
        /\ \A s \in Ready : ~NoNextRun(s)
        /\ schedules' = Claimed(Ready)
        /\ due' = due \ Ready
        /\ \E job \in jobs : StartJob(Scheduler, job, jobs)
        /\ UNCHANGED <<grants, boundTo, lapsed, started>>

Outcome(a, outcome) == op' = [op EXCEPT ![a].pc = "finishing", ![a].outcome = outcome]

\* The child request cannot be built or has no adapter: nothing is spent.
RefuseEarly(a) ==
    /\ op[a].pc = "spending"
    /\ Outcome(a, "raised")
    /\ UNCHANGED <<registries, lapsed, started>>

\* Faulty: claim_child looks at the schedule's id and not at its digest.
SpendById(a) ==
    LET g == op[a].grant
        allowed == Claimable(grants[g], g \in lapsed) /\ boundTo[g].sched = op[a].sched
    IN  /\ op[a].pc = "spending"
        /\ \/ allowed /\ grants' = [grants EXCEPT ![g] = Spent(grants[g])] /\ Goto(a, "permitted")
           \/ /\ ~allowed
              /\ grants' = [grants EXCEPT ![g] = Judged(grants[g], g \in lapsed)]
              /\ Outcome(a, "raised")
        /\ UNCHANGED <<schedules, due, boundTo, lapsed, started>>

\* issue_delegated_permit: claim_child spends a run of the snapshot's grant.
Spend(a) ==
    LET g == op[a].grant
        allowed == Claimable(grants[g], g \in lapsed) /\ Bound(a)
    IN  /\ op[a].pc = "spending"
        /\ \/ allowed /\ grants' = [grants EXCEPT ![g] = Spent(grants[g])] /\ Goto(a, "permitted")
           \/ /\ ~allowed
              /\ grants' = [grants EXCEPT ![g] = Judged(grants[g], g \in lapsed)]
              /\ Outcome(a, "raised")
        /\ UNCHANGED <<schedules, due, boundTo, lapsed, started>>

\* gateway.execute consumed the child permit and entered the adapter.
StartEffect(a) ==
    /\ op[a].pc = "permitted"
    /\ started' = [started EXCEPT ![op[a].grant] = @ + 1]
    /\ Goto(a, "effect")
    /\ UNCHANGED <<registries, lapsed>>

\* The gateway refused (expired permit, changed world) or the ledger write failed.
RefuseEffect(a) ==
    /\ op[a].pc = "permitted"
    /\ Outcome(a, "raised")
    /\ UNCHANGED <<registries, lapsed, started>>

\* The adapter returned, with success or without, or it raised.
EndEffect(a) ==
    /\ op[a].pc = "effect"
    /\ \E outcome \in {"returned", "raised"} : Outcome(a, outcome)
    /\ UNCHANGED <<registries, lapsed, started>>

\* The next claimed schedule, if any.
NextJob(a) ==
    \/ op[a].jobs = {} /\ Return(a)
    \/ \E job \in op[a].jobs : StartJob(a, job, op[a].jobs)

\* Faulty: the second error ends the scheduler's thread.
FinishDying(a) ==
    LET s == op[a].sched
    IN  /\ op[a].pc = "finishing"
        /\ \/ /\ Exists(s)
              /\ Set(s, [schedules[s] EXCEPT !.status = "finished"])
              /\ NextJob(a)
           \/ ~Exists(s) /\ Goto(a, "dead") /\ UNCHANGED schedules
        /\ UNCHANGED <<due, grants, boundTo, lapsed, started>>

\* registry.finish on whatever record now has this id; "succeeded" and "failed" are
\* one status here, for nothing reads the difference.  On a deleted schedule it
\* raises: run_due_schedules catches that once, calls finish again, and the
\* second error leaves the loop with the remaining jobs unrun.
Finish(a) ==
    LET s == op[a].sched
    IN  /\ op[a].pc = "finishing"
        /\ \/ /\ Exists(s)
              /\ Set(s, [schedules[s] EXCEPT !.status = "finished"])
              /\ NextJob(a)
           \/ /\ ~Exists(s) /\ a = Scheduler /\ op[a].outcome # "raised"
              /\ Outcome(a, "raised")
              /\ UNCHANGED schedules
           \/ /\ ~Exists(s) /\ (a # Scheduler \/ op[a].outcome = "raised")
              /\ Return(a)
              /\ UNCHANGED schedules
        /\ UNCHANGED <<due, grants, boundTo, lapsed, started>>

-----------------------------------------------------------------------------
(* The environment *)

FallDue(s) ==
    /\ schedules[s].enabled
    /\ s \notin due
    /\ due' = due \cup {s}
    /\ UNCHANGED <<schedules, grants, boundTo, lapsed, op, started>>

Lapse(g) ==
    /\ grants[g].state # "none"
    /\ g \notin lapsed
    /\ lapsed' = lapsed \cup {g}
    /\ UNCHANGED <<registries, op, started>>

\* The process dies, or stop() gives up its join and the daemon threads go with it.
Crash ==
    /\ Crashes
    /\ \E a \in Actor : op[a].pc # "idle"
    /\ op' = [a \in Actor |-> Idle]
    /\ UNCHANGED <<registries, lapsed, started>>

Run(a) ==
    RefuseEarly(a) \/ Spend(a) \/ StartEffect(a) \/ RefuseEffect(a) \/ EndEffect(a) \/ Finish(a)

Handle(h) ==
    \/ \E s \in Schedule :
          \/ BeginDelete(h, s) \/ ClaimOne(h, s)
          \/ \E d \in Descriptor : CreateDraft(h, s, d)
          \/ \E g \in Grant, d \in Descriptor, patch \in {{"on"}, {}} : IssueGrant(h, s, g, d, patch)
          \/ \E patch \in Patches : BeginUpdate(h, s, patch)
    \/ CreateSchedule(h) \/ Validate(h) \/ ApplyUpdate(h) \/ ApplyDelete(h) \/ Revoke(h) \/ Run(h)

Next ==
    \/ \E h \in Handler : Handle(h)
    \/ ClaimDue
    \/ Run(Scheduler)
    \/ \E s \in Schedule : FallDue(s)
    \/ \E g \in Grant : Lapse(g)
    \/ Crash

Spec == Init /\ [][Next]_vars

\* The scheduler wakes every five seconds and survives any exception of a tick;
\* a thread inside a run goes on, and the effect it started returns in the end.
\* Nothing is assumed of users: a handler need not start or finish anything else.
FairSpec == Spec /\ WF_vars(ClaimDue) /\ \A a \in Actor : WF_vars(Run(a))

-----------------------------------------------------------------------------
(* Properties *)

\* "Cada run consume cardinalidad del grant antes de exponer un child Permit":
\* the effects started under a grant and the permits about to start one never
\* exceed the runs it has spent, nor the runs the user allowed.
RunsAreSpentFirst ==
    \A g \in Grant :
        started[g] + Cardinality({a \in Actor : op[a].pc = "permitted" /\ op[a].grant = g}) <= grants[g].runs
        /\ grants[g].runs <= MaxRuns

\* "SCHEDULE != AUTHORITY": a stale update may merge an old target, cadence or grant
\* into a schedule that was deleted and created anew, but a schedule is enabled only
\* with a grant, and whatever runs is what its grant was issued for (a change of
\* target, cadence or schedule binding "invalida la delegación").
OnlyTheDelegatedRuns ==
    /\ \A s \in Schedule : schedules[s].enabled => schedules[s].grant # None
    /\ \A a \in Actor : op[a].pc \in {"permitted", "effect"} => Bound(a)

\* A spent, expired or revoked grant never pays another run and never comes back.
GrantsOnlyShrink ==
    [][\A g \in Grant : grants[g].state \in {"exhausted", "expired", "revoked"} =>
          grants'[g].runs = grants[g].runs /\ grants'[g].state \in {grants[g].state, "revoked"}]_vars

\* A grant left behind by a crash or a lost race of two deletes is inert: once no
\* schedule and no thread refers to it, none ever does again and no run is spent.
Orphan(g) ==
    /\ grants[g].state # "none"
    /\ \A s \in Schedule : schedules[s].grant # g
    /\ \A a \in Actor : op[a].grant # g /\ (\A job \in op[a].jobs : job.grant # g)
OrphansAreInert ==
    [][\A g \in Grant : Orphan(g) => Orphan(g)' /\ grants'[g].runs = grants[g].runs]_vars

\* The scheduler is never lost to one of its jobs: whatever runs, fails, is edited
\* or is deleted under it, a schedule that is ready is claimed in the end, or stops
\* being ready because a user ran, paused, postponed or deleted it, unless a ready
\* schedule without a next run holds up every claim.
Blocked == \E s \in Ready : NoNextRun(s)
ReadyIsClaimed == \A s \in Schedule : s \in Ready ~> s \notin Ready \/ Blocked

\* overlap_policy is "skip" and claim refuses a schedule that "ya está en
\* ejecución": two threads never run the same schedule at once.
NoOverlap ==
    \A a, b \in Actor : op[a].pc = "effect" /\ op[b].pc = "effect" /\ op[a].sched = op[b].sched => a = b
=============================================================================
