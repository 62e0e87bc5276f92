---------------------- MODULE ScheduledDelegationProofs ----------------------
(***************************************************************************)
(* ScheduledDelegation for any number of handlers, schedules, grants and    *)
(* descriptors: what runs is what its grant was issued for, every effect is *)
(* paid by a run that was written down first, and a grant that is spent,    *)
(* withdrawn or forgotten stays so.                                         *)
(***************************************************************************)
EXTENDS ScheduledDelegation, FiniteSetTheorems, TLAPS

ScheduleRecord == [status : {"none", "scheduled", "paused", "running", "finished"},
                   enabled : BOOLEAN, grant : Grant \cup {None}, desc : Descriptor \cup {None}]
CallRecord == [pc : {"idle", "creating", "undoing", "validating", "updating", "deleting", "revoking"}
                       \cup Running,
               sched : Schedule \cup {None}, grant : Grant \cup {None},
               desc : Descriptor \cup {None}, patch : Patch, jobs : SUBSET Job,
               outcome : {"none", "returned", "raised"}]

\* A call in flight names its schedule, and a grant once its step depends on one.
Granted == {"creating", "undoing", "validating", "revoking"} \cup Running
ShapedCall == {o \in CallRecord :
    /\ o.pc # "idle" => o.sched \in Schedule
    /\ o.pc \in Granted => o.grant \in Grant
    /\ o.pc = "idle" => o.grant = None /\ o.jobs = {}}

Typed ==
    /\ schedules \in [Schedule -> ScheduleRecord]
    /\ due \subseteq Schedule
    /\ grants \in [Grant -> GrantRecord]
    /\ boundTo \in [Grant -> Binding \cup {None}]
    /\ lapsed \subseteq Grant
    /\ op \in [Actor -> ShapedCall]
    /\ started \in [Grant -> Nat]

\* Assignments to a record's fields stay within its type.
LEMMA GrantFacts ==
    ASSUME NEW g \in GrantRecord, NEW l
    PROVE  /\ Spent(g) \in GrantRecord
           /\ Judged(g, l) \in GrantRecord
           /\ Revoked(g) \in GrantRecord
           /\ IssuedGrant \in GrantRecord
  BY MaxRunsAssumption DEF GrantRecord, GrantState, Spent, Judged, Revoked, IssuedGrant

LEMMA PatchFacts == {} \in Patch /\ {"on"} \in Patch
  BY DEF Patch

LEMMA IdleFacts == Idle \in ShapedCall
  BY PatchFacts DEF ShapedCall, CallRecord, Idle, Granted, Running

LEMMA EnterFacts ==
    ASSUME NEW s \in Schedule, NEW g \in Grant \cup {None},
           NEW d \in Descriptor \cup {None}, NEW patch \in Patch,
           NEW pc \in {"creating", "validating", "updating", "deleting"},
           pc \in {"creating", "validating"} => g \in Grant
    PROVE  [Idle EXCEPT !.pc = pc, !.sched = s, !.grant = g, !.desc = d, !.patch = patch] \in ShapedCall
  BY DEF ShapedCall, CallRecord, Idle, Granted, Running

LEMMA GotoFacts ==
    ASSUME NEW o \in ShapedCall, o.pc # "idle", NEW pc \in {"undoing", "updating", "revoking", "permitted", "effect"},
           pc # "updating" => o.grant \in Grant
    PROVE  [o EXCEPT !.pc = pc] \in ShapedCall
  BY DEF ShapedCall, CallRecord, Granted, Running

LEMMA OutcomeFacts ==
    ASSUME NEW o \in ShapedCall, o.pc \in Running, NEW outcome \in {"returned", "raised"}
    PROVE  [o EXCEPT !.pc = "finishing", !.outcome = outcome] \in ShapedCall
  BY DEF ShapedCall, CallRecord, Granted, Running

LEMMA JobFacts ==
    ASSUME NEW job \in Job, NEW jobs \in SUBSET Job
    PROVE  [Idle EXCEPT !.pc = "spending", !.sched = job.sched, !.grant = job.grant,
                        !.desc = job.desc, !.jobs = jobs \ {job}] \in ShapedCall
  BY PatchFacts DEF ShapedCall, CallRecord, Idle, Granted, Running, Job

-----------------------------------------------------------------------------
(* What a step does to a call *)

\* A step of thread a: a handler's, or the scheduler's.
Work(a) == (a \in Handler /\ Handle(a)) \/ (a = Scheduler /\ (ClaimDue \/ Run(a)))

LEMMA NextCases ==
    ASSUME Next
    PROVE  \/ \E a \in Actor : Work(a)
           \/ \E s \in Schedule : FallDue(s)
           \/ \E g \in Grant : Lapse(g)
           \/ Crash
  BY DEF Next, Work, Actor

\* The grant a thread works for, and those of the jobs it has claimed and not yet
\* come to.
RefsOf(o) == {g \in Grant : g = o.grant \/ \E j \in o.jobs : j.grant = g}
Refs(a) == RefsOf(op[a])

\* A thread refers to what it referred to, to what a schedule refers to, or to a grant
\* that is being issued.
Learnt(g) == (\E s \in Schedule : schedules[s].grant = g) \/ grants[g].state = "none"
Kept(a, o) == \A g \in RefsOf(o) : g \in Refs(a) \/ Learnt(g)
Moves(a) == \E o \in ShapedCall : op' = [op EXCEPT ![a] = o] /\ Kept(a, o)

LEMMA MoveFacts ==
    ASSUME Typed, NEW a \in Actor
    PROVE  /\ UNCHANGED op => Moves(a)
           /\ Return(a) => Moves(a)
           /\ \A pc \in {"undoing", "updating", "revoking", "permitted", "effect"} :
                 /\ Goto(a, pc) /\ op[a].pc # "idle"
                 /\ pc # "updating" => op[a].grant \in Grant
                 => Moves(a)
           /\ \A outcome \in {"returned", "raised"} :
                 Outcome(a, outcome) /\ op[a].pc \in Running => Moves(a)
  <1> USE DEF Typed
  <1>0. op[a] \in ShapedCall
    OBVIOUS
  <1>1. ASSUME UNCHANGED op PROVE Moves(a)
    <2>1. op' = [op EXCEPT ![a] = op[a]] /\ Kept(a, op[a])
      BY <1>1 DEF Kept, Refs
    <2>2. QED
      BY <1>0, <2>1 DEF Moves
  <1>2. ASSUME Return(a) PROVE Moves(a)
    <2>1. Kept(a, Idle)
      BY ScheduledAssumption DEF Kept, RefsOf, Idle
    <2>2. QED
      BY <1>2, <2>1, IdleFacts DEF Moves, Return
  <1>3. ASSUME NEW pc \in {"undoing", "updating", "revoking", "permitted", "effect"},
               Goto(a, pc), op[a].pc # "idle", pc # "updating" => op[a].grant \in Grant
        PROVE  Moves(a)
    <2>1. [op[a] EXCEPT !.pc = pc] \in ShapedCall
      BY <1>0, <1>3, GotoFacts
    <2>2. Kept(a, [op[a] EXCEPT !.pc = pc])
      BY <1>0 DEF Kept, Refs, RefsOf, ShapedCall, CallRecord
    <2>3. op' = [op EXCEPT ![a] = [op[a] EXCEPT !.pc = pc]]
      BY <1>3 DEF Goto
    <2>4. QED
      BY <2>1, <2>2, <2>3 DEF Moves
  <1>4. ASSUME NEW outcome \in {"returned", "raised"}, Outcome(a, outcome), op[a].pc \in Running
        PROVE  Moves(a)
    <2>1. [op[a] EXCEPT !.pc = "finishing", !.outcome = outcome] \in ShapedCall
      BY <1>0, <1>4, OutcomeFacts
    <2>2. Kept(a, [op[a] EXCEPT !.pc = "finishing", !.outcome = outcome])
      BY <1>0 DEF Kept, Refs, RefsOf, ShapedCall, CallRecord
    <2>3. op' = [op EXCEPT ![a] = [op[a] EXCEPT !.pc = "finishing", !.outcome = outcome]]
      BY <1>4 DEF Outcome
    <2>4. QED
      BY <2>1, <2>2, <2>3 DEF Moves
  <1>5. QED
    BY <1>1, <1>2, <1>3, <1>4

LEMMA EnterMoves ==
    ASSUME Typed, NEW a \in Actor, NEW s \in Schedule, NEW g \in Grant \cup {None},
           NEW d \in Descriptor \cup {None}, NEW patch \in Patch,
           NEW pc \in {"creating", "validating", "updating", "deleting"},
           pc \in {"creating", "validating"} => g \in Grant,
           Enter(a, pc, s, g, d, patch),
           g \in Grant => Learnt(g)
    PROVE  Moves(a)
  <1> DEFINE o == [Idle EXCEPT !.pc = pc, !.sched = s, !.grant = g, !.desc = d, !.patch = patch]
  <1>1. o \in ShapedCall
    BY EnterFacts
  <1>2. o.grant = g /\ o.jobs = {}
    BY DEF Idle
  <1>3. Kept(a, o)
    BY <1>2 DEF Kept, RefsOf
  <1>4. QED
    BY <1>1, <1>3 DEF Enter, Moves

LEMMA StartMoves ==
    ASSUME Typed, NEW a \in Actor, NEW jobs \in SUBSET Job, NEW job \in jobs, StartJob(a, job, jobs),
           \A j \in jobs : j.grant \in Refs(a) \/ Learnt(j.grant)
    PROVE  Moves(a)
  <1> DEFINE o == [Idle EXCEPT !.pc = "spending", !.sched = job.sched, !.grant = job.grant,
                               !.desc = job.desc, !.jobs = jobs \ {job}]
  <1>1. o \in ShapedCall
    BY JobFacts
  <1>2. o.grant = job.grant /\ o.jobs = jobs \ {job}
    BY DEF Idle
  <1>3. Kept(a, o)
    BY <1>2 DEF Kept, RefsOf
  <1>4. QED
    BY <1>1, <1>3 DEF StartJob, Moves

LEMMA RunMoves ==
    ASSUME Typed, NEW a \in Actor, Run(a)
    PROVE  Moves(a)
  <1> USE DEF Typed
  <1>0. op[a] \in ShapedCall
    OBVIOUS
  <1>1. CASE RefuseEarly(a) \/ RefuseEffect(a) \/ EndEffect(a)
    BY <1>1, MoveFacts DEF RefuseEarly, RefuseEffect, EndEffect, Running
  <1>2. CASE Spend(a) \/ StartEffect(a)
    <2>1. op[a].grant \in Grant /\ op[a].pc \in Running
      BY <1>0, <1>2 DEF Spend, StartEffect, ShapedCall, Granted, Running
    <2>2. QED
      BY <1>2, <2>1, MoveFacts DEF Spend, StartEffect, Running
  <1>3. CASE Finish(a)
    <2>1. CASE NextJob(a)
      <3>1. ASSUME NEW job \in op[a].jobs, StartJob(a, job, op[a].jobs) PROVE Moves(a)
        <4>1. op[a].jobs \in SUBSET Job
          BY <1>0 DEF ShapedCall, CallRecord
        <4>2. \A j \in op[a].jobs : j.grant \in Refs(a)
          BY <4>1 DEF Refs, RefsOf, Job
        <4>3. QED
          BY <3>1, <4>1, <4>2, StartMoves
      <3>2. QED
        BY <2>1, <3>1, MoveFacts DEF NextJob
    <2>2. QED
      BY <1>3, <2>1, MoveFacts DEF Finish, Running
  <1>4. QED
    BY <1>1, <1>2, <1>3 DEF Run

\* Where a thread's step takes its call.
LEMMA WorkMoves ==
    ASSUME Typed, NEW a \in Actor, Work(a)
    PROVE  Moves(a)
  <1> USE DEF Typed
  <1>0. op[a] \in ShapedCall
    OBVIOUS
  <1>1. ASSUME NEW s \in Schedule, NEW d \in Descriptor, CreateDraft(a, s, d) PROVE Moves(a)
    BY <1>1, MoveFacts DEF CreateDraft
  <1>2. ASSUME NEW s \in Schedule, BeginDelete(a, s) PROVE Moves(a)
    <2>1. schedules[s].grant \in Grant \cup {None} /\ schedules[s].desc \in Descriptor \cup {None}
      BY DEF ScheduleRecord
    <2>2. QED
      BY <1>2, <2>1, PatchFacts, EnterMoves DEF BeginDelete, Learnt
  <1>3. ASSUME NEW s \in Schedule, ClaimOne(a, s) PROVE Moves(a)
    <2>1. JobOf(s) \in Job /\ Learnt(JobOf(s).grant)
      BY <1>3 DEF ClaimOne, JobOf, Job, Learnt, ScheduleRecord
    <2>2. StartJob(a, JobOf(s), {JobOf(s)})
      BY <1>3 DEF ClaimOne, StartJob
    <2>3. QED
      BY <2>1, <2>2, StartMoves
  <1>4. ASSUME NEW s \in Schedule, NEW g \in Grant, NEW d \in Descriptor, NEW patch \in {{"on"}, {}},
               IssueGrant(a, s, g, d, patch)
        PROVE  Moves(a)
    <2>1. patch \in Patch
      BY PatchFacts
    <2>2. Learnt(g)
      BY <1>4 DEF IssueGrant, Learnt
    <2>3. QED
      BY <1>4, <2>1, <2>2, EnterMoves DEF IssueGrant
  <1>5. ASSUME NEW s \in Schedule, NEW patch \in Patches, BeginUpdate(a, s, patch) PROVE Moves(a)
    <2>1. /\ schedules[s].grant \in Grant \cup {None} /\ patch \in Patch
          /\ schedules[s].desc \in Descriptor \cup {None}
      BY ScheduledAssumption DEF ScheduleRecord
    <2>2. Learnt(schedules[s].grant)
      BY DEF Learnt
    <2>3. PICK pc \in {"validating", "updating"} :
             /\ Enter(a, pc, s, schedules[s].grant, schedules[s].desc, patch)
             /\ pc = "validating" => schedules[s].grant # None
      BY <1>5 DEF BeginUpdate
    <2>4. QED
      BY <2>1, <2>2, <2>3, EnterMoves
  <1>6. CASE CreateSchedule(a) \/ Validate(a) \/ ApplyUpdate(a) \/ Revoke(a)
    <2>1. op[a].pc = "creating" => op[a].grant \in Grant
      BY <1>0 DEF ShapedCall, Granted
    <2>2. QED
      BY <1>6, <2>1, MoveFacts DEF CreateSchedule, Validate, ApplyUpdate, Revoke
  <1>7. CASE ApplyDelete(a)
    <2>1. op[a].grant \in Grant \cup {None}
      BY <1>0 DEF ShapedCall, CallRecord
    <2>2. QED
      BY <1>7, <2>1, MoveFacts DEF ApplyDelete
  <1>8. CASE Run(a)
    BY <1>8, RunMoves
  <1>9. CASE a = Scheduler /\ ClaimDue
    <2>1. PICK job \in {JobOf(s) : s \in Ready} : StartJob(Scheduler, job, {JobOf(s) : s \in Ready})
      BY <1>9 DEF ClaimDue
    <2>2. \A s \in Ready : JobOf(s) \in Job /\ Learnt(JobOf(s).grant)
      BY DEF Ready, JobOf, Job, Learnt, ScheduleRecord
    <2>3. {JobOf(s) : s \in Ready} \in SUBSET Job /\ \A j \in {JobOf(s) : s \in Ready} : Learnt(j.grant)
      BY <2>2
    <2>4. QED
      BY <1>9, <2>1, <2>3, StartMoves
  <1>10. QED
    BY <1>1, <1>2, <1>3, <1>4, <1>5, <1>6, <1>7, <1>8, <1>9 DEF Work, Handle

-----------------------------------------------------------------------------
(* Types *)

LEMMA InitTyped == Init => Typed
  BY ScheduledAssumption, IdleFacts
  DEF Init, Typed, Absent, NoGrant, ScheduleRecord, GrantRecord, GrantState

LEMMA MovesTyped ==
    ASSUME Typed, NEW a \in Actor, Moves(a)
    PROVE  /\ op' \in [Actor -> ShapedCall]
           /\ \A b \in Actor \ {a} : op'[b] = op[b]
           /\ Kept(a, op'[a])
  BY DEF Typed, Moves

LEMMA NextCalls ==
    ASSUME Typed, Next
    PROVE  op' \in [Actor -> ShapedCall]
  <1>1. ASSUME NEW a \in Actor, Work(a) PROVE op' \in [Actor -> ShapedCall]
    BY <1>1, WorkMoves, MovesTyped
  <1>2. CASE Crash
    BY <1>2, IdleFacts DEF Crash
  <1>3. QED
    BY <1>1, <1>2, NextCases DEF FallDue, Lapse, Typed

\* Steps that write schedules.json, delegation_grants.json, or neither.
Registers(a) == \/ \E s \in Schedule, d \in Descriptor : CreateDraft(a, s, d)
                \/ \E s \in Schedule : ClaimOne(a, s)
                \/ CreateSchedule(a) \/ ApplyUpdate(a) \/ ApplyDelete(a) \/ Finish(a)
                \/ a = Scheduler /\ ClaimDue
Delegates(a) == \/ \E s \in Schedule, g \in Grant, d \in Descriptor, patch \in {{"on"}, {}} :
                       IssueGrant(a, s, g, d, patch)
                \/ Validate(a) \/ Revoke(a) \/ Spend(a)
Proceeds(a) == \/ \E s \in Schedule : BeginDelete(a, s)
               \/ \E s \in Schedule, patch \in Patches : BeginUpdate(a, s, patch)
               \/ RefuseEarly(a) \/ RefuseEffect(a) \/ EndEffect(a) \/ StartEffect(a)

LEMMA WorkCases ==
    ASSUME NEW a \in Actor, Work(a)
    PROVE  Registers(a) \/ Delegates(a) \/ Proceeds(a)
  BY DEF Work, Handle, Run, Registers, Delegates, Proceeds

LEMMA RegistersOnly ==
    ASSUME NEW a \in Actor, Registers(a)
    PROVE  UNCHANGED <<grants, boundTo, lapsed, started>>
  BY DEF Registers, CreateDraft, ClaimOne, CreateSchedule, ApplyUpdate, ApplyDelete, Finish, ClaimDue

LEMMA DelegatesOnly ==
    ASSUME NEW a \in Actor, Delegates(a)
    PROVE  UNCHANGED <<schedules, due, lapsed, started>>
  BY DEF Delegates, IssueGrant, Validate, Revoke, Spend

LEMMA ProceedsOnly ==
    ASSUME NEW a \in Actor, Proceeds(a)
    PROVE  UNCHANGED <<schedules, due, grants, boundTo, lapsed>>
  BY DEF Proceeds, BeginDelete, BeginUpdate, RefuseEarly, RefuseEffect, EndEffect, StartEffect, registries

\* What registry code may make of a schedule: the enabled have a grant, and a grant
\* comes from the record itself or from the thread that writes it.
Proper(a, s, r) ==
    /\ r \in ScheduleRecord
    /\ \/ r.grant = None /\ ~r.enabled
       \/ r.grant = schedules[s].grant /\ r.enabled = schedules[s].enabled
       \/ r.grant = schedules[s].grant /\ (r.enabled => r.grant # None)
       \/ r.grant = op[a].grant /\ op[a].sched = s /\ r.grant # None

LEMMA RegisterSteps ==
    ASSUME Typed, NEW a \in Actor, Registers(a)
    PROVE  /\ schedules' \in [Schedule -> ScheduleRecord]
           /\ due' \subseteq Schedule
           /\ \A s \in Schedule : Proper(a, s, schedules'[s])
  <1> USE DEF Typed
  <1>0. op[a] \in ShapedCall
    OBVIOUS
  <1>k. \A s \in Schedule : schedules[s] \in ScheduleRecord /\ Proper(a, s, schedules[s])
    BY DEF Proper
  <1>1. ASSUME NEW s \in Schedule, NEW r, Proper(a, s, r), Set(s, r)
        PROVE  /\ schedules' \in [Schedule -> ScheduleRecord]
               /\ \A x \in Schedule : Proper(a, x, schedules'[x])
    <2>1. r \in ScheduleRecord
      BY <1>1 DEF Proper
    <2>2. \A x \in Schedule : schedules'[x] = IF x = s THEN r ELSE schedules[x]
      BY <1>1 DEF Set
    <2>3. QED
      BY <1>1, <1>k, <2>1, <2>2 DEF Set
  <1>2. ASSUME UNCHANGED schedules
        PROVE  /\ schedules' \in [Schedule -> ScheduleRecord]
               /\ \A x \in Schedule : Proper(a, x, schedules'[x])
    BY <1>2, <1>k
  <1>3. ASSUME NEW S \in SUBSET Schedule, schedules' = Claimed(S)
        PROVE  /\ schedules' \in [Schedule -> ScheduleRecord]
               /\ \A x \in Schedule : Proper(a, x, schedules'[x])
    <2>1. \A x \in Schedule :
             /\ [schedules[x] EXCEPT !.status = "running"] \in ScheduleRecord
             /\ Proper(a, x, [schedules[x] EXCEPT !.status = "running"])
      BY <1>k DEF Proper, ScheduleRecord
    <2>2. \A x \in Schedule :
             schedules'[x] = IF x \in S THEN [schedules[x] EXCEPT !.status = "running"] ELSE schedules[x]
      BY <1>3 DEF Claimed
    <2>3. QED
      BY <1>3, <1>k, <2>1, <2>2 DEF Claimed
  <1>4. ASSUME NEW s \in Schedule, NEW d \in Descriptor, CreateDraft(a, s, d)
        PROVE  /\ schedules' \in [Schedule -> ScheduleRecord]
               /\ \A x \in Schedule : Proper(a, x, schedules'[x])
    <2>1. Proper(a, s, [status |-> "paused", enabled |-> FALSE, grant |-> None, desc |-> d])
      BY DEF Proper, ScheduleRecord
    <2>2. QED
      BY <1>4, <1>1, <2>1 DEF CreateDraft
  <1>5. ASSUME NEW s \in Schedule, ClaimOne(a, s)
        PROVE  /\ schedules' \in [Schedule -> ScheduleRecord]
               /\ \A x \in Schedule : Proper(a, x, schedules'[x])
    BY <1>5, <1>3 DEF ClaimOne
  <1>d. due' \subseteq Schedule
    BY DEF Registers, CreateDraft, ClaimOne, CreateSchedule, ApplyUpdate, ApplyDelete, Finish, ClaimDue
  <1>6. CASE CreateSchedule(a)
    <2>1. op[a].sched \in Schedule /\ op[a].grant \in Grant /\ op[a].desc \in Descriptor \cup {None}
      BY <1>0, <1>6 DEF CreateSchedule, ShapedCall, CallRecord, Granted
    <2>2. \A e \in BOOLEAN : Proper(a, op[a].sched, [status |-> IF e THEN "scheduled" ELSE "paused", enabled |-> e,
                                                    grant |-> op[a].grant, desc |-> op[a].desc])
      BY <2>1, ScheduledAssumption DEF Proper, ScheduleRecord
    <2>3. CASE UNCHANGED schedules
      BY <1>2, <1>d, <2>3
    <2>4. CASE ~UNCHANGED schedules
      <3> DEFINE on == "on" \in op[a].patch
      <3>1. Set(op[a].sched, [status |-> IF on THEN "scheduled" ELSE "paused", enabled |-> on,
                              grant |-> op[a].grant, desc |-> op[a].desc])
        BY <1>6, <2>4, Zenon DEF CreateSchedule
      <3>b. on \in BOOLEAN
        OBVIOUS
      <3> HIDE DEF on
      <3>2. QED
        BY <1>1, <1>d, <2>1, <2>2, <3>1, <3>b
    <2>5. QED
      BY <2>3, <2>4
  <1>7. CASE ApplyUpdate(a)
    <2>1. op[a].sched \in Schedule /\ op[a].grant \in Grant \cup {None} /\ op[a].desc \in Descriptor \cup {None}
      BY <1>0, <1>7 DEF ApplyUpdate, ShapedCall, CallRecord
    <2>2. \A e \in BOOLEAN, g \in {op[a].grant, schedules[op[a].sched].grant},
             d \in {op[a].desc, schedules[op[a].sched].desc} : (e => g # None) =>
             Proper(a, op[a].sched, [status |-> IF e THEN "scheduled" ELSE "paused", enabled |-> e,
                                     grant |-> g, desc |-> d])
      BY <2>1, <1>k DEF Proper, ScheduleRecord
    <2>3. Enables(op[a].patch, schedules[op[a].sched]) \in BOOLEAN
      BY <1>k, <2>1 DEF Enables, ScheduleRecord
    <2>4. QED
      BY <1>7, <1>1, <1>2, <2>1, <2>2, <2>3 DEF ApplyUpdate
  <1>8. CASE ApplyDelete(a)
    <2>1. op[a].sched \in Schedule
      BY <1>0, <1>8 DEF ApplyDelete, ShapedCall
    <2>2. Proper(a, op[a].sched, Absent)
      BY DEF Proper, ScheduleRecord, Absent
    <2>3. QED
      BY <1>8, <1>1, <1>2, <2>1, <2>2 DEF ApplyDelete
  <1>9. CASE Finish(a)
    <2>1. op[a].sched \in Schedule
      BY <1>0, <1>9 DEF Finish, ShapedCall
    <2>2. Proper(a, op[a].sched, [schedules[op[a].sched] EXCEPT !.status = "finished"])
      BY <1>k, <2>1 DEF Proper, ScheduleRecord
    <2>3. QED
      BY <1>9, <1>1, <1>2, <2>1, <2>2 DEF Finish
  <1>10. CASE a = Scheduler /\ ClaimDue
    BY <1>10, <1>3 DEF ClaimDue, Ready
  <1>11. QED
    BY <1>4, <1>5, <1>6, <1>7, <1>8, <1>9, <1>10, <1>d DEF Registers

\* What DelegationGrantRegistry may make of a grant, and of whom it was issued for.
Issues(g) == grants[g].state = "none" /\ grants'[g] = IssuedGrant /\ boundTo'[g] \in Binding
Judges(g) == grants'[g] = Judged(grants[g], g \in lapsed) /\ boundTo'[g] = boundTo[g]
Pays(a, g) == /\ op[a].pc = "spending" /\ op[a].grant = g /\ Goto(a, "permitted")
              /\ Claimable(grants[g], g \in lapsed) /\ Bound(a)
              /\ grants'[g] = Spent(grants[g]) /\ boundTo'[g] = boundTo[g]
Withdraws(a, g) == /\ op[a].pc \in {"undoing", "revoking"} /\ op[a].grant = g
                   /\ grants'[g] = Revoked(grants[g]) /\ boundTo'[g] = boundTo[g]
Stands(g) == grants'[g] = grants[g] /\ boundTo'[g] = boundTo[g]

LEMMA DelegateSteps ==
    ASSUME Typed, NEW a \in Actor, Delegates(a)
    PROVE  /\ grants' \in [Grant -> GrantRecord]
           /\ boundTo' \in [Grant -> Binding \cup {None}]
           /\ \A g \in Grant : Issues(g) \/ Judges(g) \/ Pays(a, g) \/ Withdraws(a, g) \/ Stands(g)
  <1> USE DEF Typed
  <1>0. op[a] \in ShapedCall
    OBVIOUS
  <1>k. \A g \in Grant : grants[g] \in GrantRecord
    OBVIOUS
  <1>1. ASSUME NEW g \in Grant, NEW r \in GrantRecord, grants' = [grants EXCEPT ![g] = r], UNCHANGED boundTo,
               Judges(g) \/ Pays(a, g) \/ Withdraws(a, g)
        PROVE  /\ grants' \in [Grant -> GrantRecord]
               /\ boundTo' \in [Grant -> Binding \cup {None}]
               /\ \A x \in Grant : Issues(x) \/ Judges(x) \/ Pays(a, x) \/ Withdraws(a, x) \/ Stands(x)
    <2>1. \A x \in Grant : x # g => Stands(x)
      BY <1>1 DEF Stands
    <2>2. QED
      BY <1>1, <2>1
  <1>2. ASSUME NEW s \in Schedule, NEW g \in Grant, NEW d \in Descriptor, NEW patch, IssueGrant(a, s, g, d, patch)
        PROVE  /\ grants' \in [Grant -> GrantRecord]
               /\ boundTo' \in [Grant -> Binding \cup {None}]
               /\ \A x \in Grant : Issues(x) \/ Judges(x) \/ Pays(a, x) \/ Withdraws(a, x) \/ Stands(x)
    <2>1. IssuedGrant \in GrantRecord
      BY <1>k, GrantFacts
    <2>2. Issues(g) /\ \A x \in Grant : x # g => Stands(x)
      BY <1>2 DEF IssueGrant, Issues, Stands, Binding
    <2>3. grants' \in [Grant -> GrantRecord] /\ boundTo' \in [Grant -> Binding \cup {None}]
      BY <1>2, <2>1 DEF IssueGrant, Binding
    <2>4. QED
      BY <2>2, <2>3
  <1>3. CASE Validate(a)
    <2>1. op[a].grant \in Grant
      BY <1>0, <1>3 DEF Validate, ShapedCall, Granted
    <2>2. Judged(grants[op[a].grant], op[a].grant \in lapsed) \in GrantRecord
      BY <1>k, <2>1, GrantFacts
    <2>3. CASE UNCHANGED grants
      BY <1>3, <2>3 DEF Validate, Stands
    <2>4. CASE grants' = [grants EXCEPT ![op[a].grant] = Judged(grants[op[a].grant], op[a].grant \in lapsed)]
      <3>1. Judges(op[a].grant) /\ UNCHANGED boundTo
        BY <1>3, <2>1, <2>4 DEF Validate, Judges
      <3>2. QED
        BY <1>1, <2>1, <2>2, <2>4, <3>1
    <2>5. QED
      BY <1>3, <2>3, <2>4 DEF Validate
  <1>4. CASE Revoke(a)
    <2>0. CASE op[a].grant \notin Grant
      BY <1>0, <1>4, <2>0 DEF Revoke, ShapedCall, Granted
    <2>1. CASE op[a].grant \in Grant
      <3>1. Revoked(grants[op[a].grant]) \in GrantRecord
        BY <1>k, <2>1, GrantFacts
      <3>2. Withdraws(a, op[a].grant)
        BY <1>4, <2>1 DEF Revoke, Withdraws
      <3>3. QED
        BY <1>1, <1>4, <2>1, <3>1, <3>2 DEF Revoke
    <2>2. QED
      BY <2>0, <2>1
  <1>5. CASE Spend(a)
    <2>1. op[a].grant \in Grant
      BY <1>0, <1>5 DEF Spend, ShapedCall, Granted, Running
    <2>2. Judged(grants[op[a].grant], op[a].grant \in lapsed) \in GrantRecord /\ Spent(grants[op[a].grant]) \in GrantRecord
      BY <1>k, <2>1, GrantFacts
    <2>3. CASE /\ Claimable(grants[op[a].grant], op[a].grant \in lapsed) /\ Bound(a)
               /\ grants' = [grants EXCEPT ![op[a].grant] = Spent(grants[op[a].grant])]
               /\ Goto(a, "permitted")
      <3>1. Pays(a, op[a].grant) /\ UNCHANGED boundTo
        BY <1>5, <2>1, <2>3 DEF Spend, Pays
      <3>2. QED
        BY <1>1, <2>1, <2>2, <2>3, <3>1
    <2>4. CASE grants' = [grants EXCEPT ![op[a].grant] = Judged(grants[op[a].grant], op[a].grant \in lapsed)]
      <3>1. Judges(op[a].grant) /\ UNCHANGED boundTo
        BY <1>5, <2>1, <2>4 DEF Spend, Judges
      <3>2. QED
        BY <1>1, <2>1, <2>2, <2>4, <3>1
    <2>5. QED
      BY <1>5, <2>3, <2>4 DEF Spend
  <1>6. QED
    BY <1>2, <1>3, <1>4, <1>5 DEF Delegates

LEMMA NextTyped == Typed /\ [Next]_vars => Typed'
  <1> SUFFICES ASSUME Typed, [Next]_vars PROVE Typed'
    OBVIOUS
  <1> USE DEF Typed
  <1>1. ASSUME NEW a \in Actor, Work(a), Next PROVE Typed'
    <2>0. op' \in [Actor -> ShapedCall]
      BY <1>1, NextCalls
    <2>1. CASE Registers(a)
      BY <2>0, <2>1, RegisterSteps, RegistersOnly
    <2>2. CASE Delegates(a)
      BY <2>0, <2>2, DelegateSteps, DelegatesOnly
    <2>3. CASE Proceeds(a)
      <3>1. started' \in [Grant -> Nat]
        <4>1. CASE StartEffect(a)
          <5>1. op[a].grant \in Grant
            BY <4>1 DEF StartEffect, ShapedCall, Granted, Running
          <5>2. QED
            BY <4>1, <5>1 DEF StartEffect
        <4>2. QED
          BY <2>3, <4>1 DEF Proceeds, BeginDelete, BeginUpdate, RefuseEarly, RefuseEffect, EndEffect
      <3>2. QED
        BY <2>0, <2>3, <3>1, ProceedsOnly
    <2>4. QED
      BY <1>1, <2>1, <2>2, <2>3, WorkCases
  <1>2. ASSUME NEW s \in Schedule, FallDue(s) PROVE Typed'
    BY <1>2 DEF FallDue
  <1>3. ASSUME NEW g \in Grant, Lapse(g) PROVE Typed'
    BY <1>3 DEF Lapse, registries
  <1>4. CASE Crash
    BY <1>4, IdleFacts DEF Crash, registries
  <1>5. CASE UNCHANGED vars
    BY <1>5 DEF vars
  <1>6. QED
    BY <1>1, <1>2, <1>3, <1>4, <1>5, NextCases

\* Every reachable state has the declared types, and every call its shape.
LEMMA SpecTyped == Spec => []Typed
  BY InitTyped, NextTyped, PTL DEF Spec

-----------------------------------------------------------------------------
(* What any step does to a call, a schedule and a grant *)

LEMMA CallSteps ==
    ASSUME Typed, Next, NEW a \in Actor, NEW g \in Refs(a)'
    PROVE  g \in Refs(a) \/ Learnt(g)
  <1>0. Typed'
    BY NextTyped
  <1>1. ASSUME NEW b \in Actor, Work(b) PROVE g \in Refs(a) \/ Learnt(g)
    <2>1. CASE a = b
      BY <1>1, <2>1, WorkMoves, MovesTyped DEF Kept, Refs
    <2>2. CASE a # b
      <3>1. op'[a] = op[a]
        BY <1>1, <2>2, WorkMoves, MovesTyped
      <3>2. QED
        BY <3>1 DEF Refs
    <2>3. QED
      BY <2>1, <2>2
  <1>2. CASE Crash
    <2>1. op'[a] = Idle
      BY <1>2 DEF Crash
    <2>2. QED
      BY <2>1, ScheduledAssumption DEF Refs, RefsOf, Idle
  <1>3. CASE UNCHANGED op
    BY <1>3 DEF Refs
  <1>4. QED
    BY <1>1, <1>2, <1>3, NextCases DEF FallDue, Lapse

LEMMA ScheduleSteps ==
    ASSUME Typed, Next, NEW s \in Schedule
    PROVE  \E a \in Actor : Proper(a, s, schedules'[s])
  <1>0. Scheduler \in Actor
    BY DEF Actor
  <1>1. ASSUME UNCHANGED schedules PROVE \E a \in Actor : Proper(a, s, schedules'[s])
    BY <1>0, <1>1 DEF Proper, Typed
  <1>2. ASSUME NEW a \in Actor, Work(a) PROVE \E b \in Actor : Proper(b, s, schedules'[s])
    BY <1>1, <1>2, WorkCases, RegisterSteps, DelegatesOnly, ProceedsOnly
  <1>3. QED
    BY <1>1, <1>2, NextCases DEF FallDue, Lapse, Crash, registries

LEMMA GrantSteps ==
    ASSUME Typed, Next, NEW g \in Grant
    PROVE  \/ Issues(g) \/ Judges(g) \/ Stands(g)
           \/ \E a \in Actor : Pays(a, g) \/ Withdraws(a, g)
  <1>1. ASSUME NEW a \in Actor, Work(a)
        PROVE  \/ Issues(g) \/ Judges(g) \/ Stands(g)
               \/ \E b \in Actor : Pays(b, g) \/ Withdraws(b, g)
    <2>1. CASE Registers(a)
      BY <2>1, RegistersOnly DEF Stands
    <2>2. CASE Proceeds(a)
      BY <2>2, ProceedsOnly DEF Stands
    <2>3. CASE Delegates(a)
      BY <2>3, DelegateSteps
    <2>4. QED
      BY <1>1, <2>1, <2>2, <2>3, WorkCases
  <1>2. QED
    BY <1>1, NextCases DEF FallDue, Lapse, Crash, registries, Stands

-----------------------------------------------------------------------------
(* What runs and what it was delegated for *)

AtWork(a) == op[a].pc \in {"permitted", "effect"}
SameCall(a) == op'[a].sched = op[a].sched /\ op'[a].grant = op[a].grant /\ op'[a].desc = op[a].desc

\* A thread gets to work by spending a run, and goes on with the same schedule,
\* descriptor and grant.
LEMMA WorkSteps ==
    ASSUME Typed, NEW a \in Actor, Work(a), AtWork(a)'
    PROVE  SameCall(a) /\ (AtWork(a) \/ (Spend(a) /\ Goto(a, "permitted")))
  <1> USE DEF Typed, AtWork
  <1>0. op[a] \in ShapedCall /\ op'[a] \in ShapedCall
    BY WorkMoves, MovesTyped
  <1>1. ~Return(a)
    BY DEF Return, Idle
  <1>2. ASSUME NEW pc, Goto(a, pc) PROVE op'[a].pc = pc /\ SameCall(a)
    BY <1>0, <1>2 DEF Goto, SameCall, ShapedCall, CallRecord
  <1>3. ASSUME NEW outcome PROVE ~Outcome(a, outcome)
    BY <1>0 DEF Outcome, ShapedCall, CallRecord
  <1>4. ASSUME NEW s, NEW g, NEW d, NEW patch, NEW pc \in {"creating", "validating", "updating", "deleting"}
        PROVE  ~Enter(a, pc, s, g, d, patch)
    BY DEF Enter, Idle
  <1>5. ASSUME NEW job, NEW jobs PROVE ~StartJob(a, job, jobs)
    BY DEF StartJob, Idle
  <1>6. CASE UNCHANGED op
    BY <1>6 DEF SameCall
  <1>7. CASE Registers(a)
    <2>1. CASE \E s \in Schedule, d \in Descriptor : CreateDraft(a, s, d)
      BY <1>6, <2>1 DEF CreateDraft
    <2>2. ~\E s \in Schedule : ClaimOne(a, s)
      BY <1>5 DEF ClaimOne
    <2>3. ~CreateSchedule(a) /\ ~ApplyUpdate(a) /\ ~ApplyDelete(a)
      BY <1>1, <1>2 DEF CreateSchedule, ApplyUpdate, ApplyDelete
    <2>4. ~Finish(a)
      BY <1>1, <1>3, <1>5 DEF Finish, NextJob
    <2>5. ASSUME a = Scheduler, ClaimDue PROVE FALSE
      <3>1. PICK job : StartJob(Scheduler, job, {JobOf(s) : s \in Ready})
        BY <2>5 DEF ClaimDue
      <3>2. QED
        BY <1>5, <2>5, <3>1
    <2>6. QED
      BY <1>7, <2>1, <2>2, <2>3, <2>4, <2>5 DEF Registers
  <1>8. CASE Delegates(a)
    <2>1. ~\E s \in Schedule, g \in Grant, d \in Descriptor, patch \in {{"on"}, {}} : IssueGrant(a, s, g, d, patch)
      BY <1>4 DEF IssueGrant
    <2>2. ~Validate(a) /\ ~Revoke(a)
      BY <1>1, <1>2 DEF Validate, Revoke
    <2>3. CASE Spend(a)
      BY <1>2, <1>3, <2>3 DEF Spend
    <2>4. QED
      BY <1>8, <2>1, <2>2, <2>3 DEF Delegates
  <1>9. CASE Proceeds(a)
    <2>1. ~\E s \in Schedule : BeginDelete(a, s)
      BY <1>4 DEF BeginDelete
    <2>2. ~\E s \in Schedule, patch \in Patches : BeginUpdate(a, s, patch)
      BY <1>4 DEF BeginUpdate
    <2>3. ~RefuseEarly(a) /\ ~RefuseEffect(a) /\ ~EndEffect(a)
      BY <1>3 DEF RefuseEarly, RefuseEffect, EndEffect
    <2>4. CASE StartEffect(a)
      BY <1>2, <2>4 DEF StartEffect
    <2>5. QED
      BY <1>9, <2>1, <2>2, <2>3, <2>4 DEF Proceeds
  <1>10. QED
    BY <1>7, <1>8, <1>9, WorkCases

\* The property with what it rests on: boundTo is written once, when the grant is
\* issued, and a thread at work has spent a run of a grant that was.
BoundInv ==
    /\ OnlyTheDelegatedRuns
    /\ \A a \in Actor : AtWork(a) => grants[op[a].grant].state # "none"

LEMMA InitBoundInv == Init => BoundInv
  BY ScheduledAssumption DEF Init, BoundInv, OnlyTheDelegatedRuns, AtWork, Idle, Absent

\* A grant that was issued keeps what it was issued for.
LEMMA BoundSteps ==
    ASSUME Typed, Next, NEW g \in Grant, grants[g].state # "none"
    PROVE  boundTo'[g] = boundTo[g] /\ grants'[g].state # "none"
  <1>0. grants[g] \in GrantRecord
    BY DEF Typed
  <1>1. CASE Judges(g) \/ Stands(g)
    BY <1>0, <1>1 DEF Judges, Stands, Judged, GrantRecord
  <1>2. ASSUME NEW a \in Actor, Pays(a, g) \/ Withdraws(a, g)
        PROVE  boundTo'[g] = boundTo[g] /\ grants'[g].state # "none"
    BY <1>0, <1>2 DEF Pays, Withdraws, Spent, Revoked, GrantRecord
  <1>3. QED
    BY <1>1, <1>2, GrantSteps DEF Issues

LEMMA NextBoundInv ==
    ASSUME Typed, BoundInv, Next
    PROVE  BoundInv'
  <1>1. ASSUME NEW s \in Schedule PROVE schedules'[s].enabled => schedules'[s].grant # None
    BY ScheduleSteps DEF Proper, BoundInv, OnlyTheDelegatedRuns
  <1>2. ASSUME NEW a \in Actor, AtWork(a)'
        PROVE  Bound(a)' /\ grants'[op'[a].grant].state # "none"
    <2>1. SameCall(a) /\ Bound(a) /\ op[a].grant \in Grant /\ grants[op[a].grant].state # "none"
      <3>0. op[a] \in ShapedCall
        BY DEF Typed
      <3>1. CASE SameCall(a) /\ AtWork(a)
        BY <3>0, <3>1 DEF BoundInv, OnlyTheDelegatedRuns, AtWork, ShapedCall, Granted, Running
      <3>2. CASE SameCall(a) /\ Spend(a) /\ Goto(a, "permitted")
        <4>1. op[a].grant \in Grant /\ ~Outcome(a, "raised")
          BY <3>0, <3>2 DEF Spend, Goto, Outcome, Typed, ShapedCall, CallRecord, Granted, Running
        <4>2. QED
          BY <3>2, <4>1 DEF Spend, Claimable
      <3>3. ASSUME NEW b \in Actor, Work(b) PROVE SameCall(a) /\ (AtWork(a) \/ (Spend(a) /\ Goto(a, "permitted")))
        <4>1. CASE b = a
          BY <1>2, <3>3, <4>1, WorkSteps
        <4>2. CASE b # a
          <5>1. op'[a] = op[a]
            BY <3>3, <4>2, WorkMoves, MovesTyped
          <5>2. QED
            BY <1>2, <5>1 DEF SameCall, AtWork
        <4>3. QED
          BY <4>1, <4>2
      <3>4. ~Crash
        BY <1>2 DEF Crash, AtWork, Idle
      <3>5. ASSUME UNCHANGED op PROVE SameCall(a) /\ AtWork(a)
        BY <1>2, <3>5 DEF SameCall, AtWork
      <3>6. QED
        BY <3>1, <3>2, <3>3, <3>4, <3>5, NextCases DEF FallDue, Lapse
    <2>2. boundTo'[op[a].grant] = boundTo[op[a].grant] /\ grants'[op[a].grant].state # "none"
      BY <2>1, BoundSteps
    <2>3. QED
      BY <2>1, <2>2 DEF SameCall, Bound
  <1>3. QED
    BY <1>1, <1>2 DEF BoundInv, OnlyTheDelegatedRuns, AtWork

-----------------------------------------------------------------------------
(* Runs and the effects they pay *)

Permitted(g) == {a \in Actor : op[a].pc = "permitted" /\ op[a].grant = g}

\* The property with what it takes to count: finitely many threads hold a permit, and
\* a grant not yet issued has no runs.
RunInv ==
    \A g \in Grant :
        /\ IsFiniteSet(Permitted(g))
        /\ started[g] + Cardinality(Permitted(g)) <= grants[g].runs
        /\ grants[g].runs <= MaxRuns
        /\ grants[g].state = "none" => grants[g].runs = 0

LEMMA InitRunInv == Init => RunInv
  <1> SUFFICES ASSUME Init, NEW g \in Grant
               PROVE  Permitted(g) = {} /\ started[g] = 0 /\ grants[g] = NoGrant
    BY FS_EmptySet, MaxRunsAssumption DEF RunInv, NoGrant
  <1>1. QED
    BY DEF Init, Permitted, Idle

\* A run paid is a thread that holds a permit; a started effect is one less.
Starts(a, g) == /\ a \in Permitted(g)
                /\ Permitted(g)' = Permitted(g) \ {a}
                /\ started'[g] = started[g] + 1
                /\ Stands(g)
Gains(a, g) == /\ Permitted(g)' = Permitted(g) \cup {a}
               /\ started'[g] = started[g]
               /\ Pays(a, g)
Waits(g) == /\ Permitted(g)' \subseteq Permitted(g)
            /\ started'[g] = started[g]
            /\ Issues(g) \/ Judges(g) \/ Stands(g) \/ \E a \in Actor : Withdraws(a, g)

LEMMA PermitSteps ==
    ASSUME Typed, NEW a \in Actor, Work(a), NEW g \in Grant, a \in Permitted(g)', a \notin Permitted(g)
    PROVE  Spend(a) /\ Goto(a, "permitted")
  <1>1. AtWork(a)' /\ op'[a].pc = "permitted" /\ op'[a].grant = g
    BY DEF Permitted, AtWork
  <1>2. SameCall(a) /\ (AtWork(a) \/ (Spend(a) /\ Goto(a, "permitted")))
    BY <1>1, WorkSteps
  <1>3. CASE op[a].pc = "effect"
    <2>1. EndEffect(a) \/ UNCHANGED op
      BY <1>3, WorkCases
      DEF Registers, CreateDraft, ClaimOne, CreateSchedule, ApplyUpdate, ApplyDelete, Finish, ClaimDue,
          Delegates, IssueGrant, Validate, Revoke, Spend,
          Proceeds, BeginDelete, BeginUpdate, RefuseEarly, RefuseEffect, StartEffect
    <2>2. ~EndEffect(a)
      BY <1>1 DEF EndEffect, Outcome, Typed, ShapedCall, CallRecord
    <2>3. QED
      BY <1>1, <1>3, <2>1, <2>2
  <1>4. QED
    BY <1>1, <1>2, <1>3 DEF AtWork, SameCall, Permitted

\* Only the thread that works comes or goes.
LEMMA OthersKeepPermits ==
    ASSUME Typed, NEW a \in Actor, Work(a), NEW g \in Grant
    PROVE  /\ Permitted(g)' \subseteq Permitted(g) \cup {a}
           /\ Permitted(g) \ {a} \subseteq Permitted(g)'
  <1>1. \A b \in Actor \ {a} : op'[b] = op[b]
    BY WorkMoves, MovesTyped
  <1>2. QED
    BY <1>1 DEF Permitted

LEMMA RunSteps ==
    ASSUME Typed, Next, NEW g \in Grant
    PROVE  Waits(g) \/ \E a \in Actor : Gains(a, g) \/ Starts(a, g)
  <1> USE DEF Typed
  <1>1. ASSUME NEW a \in Actor, Work(a)
        PROVE  Waits(g) \/ \E b \in Actor : Gains(b, g) \/ Starts(b, g)
    <2>0. op[a] \in ShapedCall
      OBVIOUS
    <2>1. CASE Registers(a)
      <3>1. UNCHANGED started /\ Stands(g)
        BY <2>1, RegistersOnly DEF Stands
      <3>2. ~Spend(a) \/ ~Goto(a, "permitted")
        BY <2>0, <2>1
        DEF Registers, CreateDraft, ClaimOne, CreateSchedule, ApplyUpdate, ApplyDelete, Finish, ClaimDue, Spend
      <3>3. Permitted(g)' \subseteq Permitted(g)
        BY <1>1, <3>2, PermitSteps, OthersKeepPermits
      <3>4. QED
        BY <3>1, <3>3 DEF Waits
    <2>2. CASE Delegates(a)
      <3>1. UNCHANGED started
        BY <2>2, DelegatesOnly
      <3>2. Issues(g) \/ Judges(g) \/ Pays(a, g) \/ Withdraws(a, g) \/ Stands(g)
        BY <2>2, DelegateSteps
      <3>3. CASE Pays(a, g)
        <4>1. op'[a].pc = "permitted" /\ op'[a].grant = g
          BY <2>0, <3>3 DEF Pays, Goto, ShapedCall, CallRecord
        <4>2. Permitted(g)' = Permitted(g) \cup {a}
          BY <1>1, <4>1, OthersKeepPermits DEF Permitted
        <4>3. QED
          BY <3>1, <3>3, <4>2 DEF Gains
      <3>4. CASE ~Pays(a, g)
        <4>1. ASSUME Spend(a), Goto(a, "permitted"), a \in Permitted(g)' PROVE FALSE
          <5>1. op[a].grant = g
            BY <2>0, <4>1 DEF Goto, Permitted, ShapedCall, CallRecord
          <5>2. ~Outcome(a, "raised")
            BY <2>0, <4>1 DEF Outcome, Permitted, ShapedCall, CallRecord
          <5>3. QED
            BY <3>4, <4>1, <5>1, <5>2 DEF Spend, Pays
        <4>2. Permitted(g)' \subseteq Permitted(g)
          BY <1>1, <4>1, PermitSteps, OthersKeepPermits
        <4>3. QED
          BY <3>1, <3>2, <3>4, <4>2 DEF Waits
      <3>5. QED
        BY <3>3, <3>4
    <2>3. CASE Proceeds(a)
      <3>1. Stands(g)
        BY <2>3, ProceedsOnly DEF Stands
      <3>2. ~Spend(a) \/ ~Goto(a, "permitted")
        BY <2>0, <2>3
        DEF Proceeds, BeginDelete, BeginUpdate, RefuseEarly, RefuseEffect, EndEffect, StartEffect, Spend,
            Goto, Outcome, ShapedCall, CallRecord
      <3>3. Permitted(g)' \subseteq Permitted(g)
        BY <1>1, <3>2, PermitSteps, OthersKeepPermits
      <3>4. CASE StartEffect(a) /\ op[a].grant = g
        <4>1. a \in Permitted(g)
          BY <3>4 DEF StartEffect, Permitted
        <4>2. a \notin Permitted(g)'
          BY <2>0, <3>4 DEF StartEffect, Goto, Permitted, ShapedCall, CallRecord
        <4>3. Permitted(g)' = Permitted(g) \ {a}
          BY <1>1, <3>3, <4>2, OthersKeepPermits
        <4>4. started'[g] = started[g] + 1
          BY <3>4 DEF StartEffect
        <4>5. QED
          BY <3>1, <4>1, <4>3, <4>4 DEF Starts
      <3>5. CASE ~(StartEffect(a) /\ op[a].grant = g)
        <4>1. started'[g] = started[g]
          <5>1. CASE StartEffect(a)
            BY <3>5, <5>1 DEF StartEffect
          <5>2. CASE ~StartEffect(a)
            BY <2>3, <5>2 DEF Proceeds, BeginDelete, BeginUpdate, RefuseEarly, RefuseEffect, EndEffect
          <5>3. QED
            BY <5>1, <5>2
        <4>2. QED
          BY <3>1, <3>3, <4>1 DEF Waits
      <3>6. QED
        BY <3>4, <3>5
    <2>4. QED
      BY <1>1, <2>1, <2>2, <2>3, WorkCases
  <1>2. CASE Crash
    <2>1. Permitted(g)' = {}
      BY <1>2 DEF Crash, Permitted, Idle
    <2>2. QED
      BY <1>2, <2>1 DEF Crash, registries, Waits, Stands
  <1>3. ASSUME UNCHANGED <<op, grants, boundTo, started>> PROVE Waits(g)
    BY <1>3 DEF Waits, Stands, Permitted
  <1>4. QED
    BY <1>1, <1>2, <1>3, NextCases DEF FallDue, Lapse, registries

LEMMA NextRunInv ==
    ASSUME Typed, RunInv, Next
    PROVE  RunInv'
  <1> SUFFICES ASSUME NEW g \in Grant
               PROVE  /\ IsFiniteSet(Permitted(g)')
                      /\ started'[g] + Cardinality(Permitted(g)') <= grants'[g].runs
                      /\ grants'[g].runs <= MaxRuns
                      /\ grants'[g].state = "none" => grants'[g].runs = 0
    BY DEF RunInv
  <1>0. /\ grants[g] \in GrantRecord /\ started[g] \in Nat
        /\ IsFiniteSet(Permitted(g)) /\ Cardinality(Permitted(g)) \in Nat
    BY FS_CardinalityType DEF Typed, RunInv
  <1>1. /\ started[g] + Cardinality(Permitted(g)) <= grants[g].runs
        /\ grants[g].runs <= MaxRuns
        /\ grants[g].state = "none" => grants[g].runs = 0
    BY DEF RunInv
  <1>2. CASE Waits(g)
    <2>1. IsFiniteSet(Permitted(g)') /\ Cardinality(Permitted(g)') <= Cardinality(Permitted(g))
      BY <1>0, <1>2, FS_Subset DEF Waits
    <2>2. Cardinality(Permitted(g)') \in Nat
      BY <2>1, FS_CardinalityType
    <2>3. CASE Issues(g)
      BY <1>0, <1>1, <1>2, <2>1, <2>2, <2>3, MaxRunsAssumption DEF Waits, Issues, IssuedGrant
    <2>4. CASE Judges(g) \/ Stands(g) \/ \E a \in Actor : Withdraws(a, g)
      <3>1. grants'[g].runs = grants[g].runs /\ (grants'[g].state = "none" => grants[g].state = "none")
        BY <1>0, <2>4 DEF Judges, Stands, Withdraws, Judged, Revoked, GrantRecord
      <3>2. QED
        BY <1>0, <1>1, <1>2, <2>1, <2>2, <3>1, MaxRunsAssumption DEF Waits, GrantRecord
    <2>5. QED
      BY <1>2, <2>3, <2>4 DEF Waits
  <1>3. ASSUME NEW a \in Actor, Gains(a, g)
        PROVE  /\ IsFiniteSet(Permitted(g)')
               /\ started'[g] + Cardinality(Permitted(g)') <= grants'[g].runs
               /\ grants'[g].runs <= MaxRuns
               /\ grants'[g].state = "none" => grants'[g].runs = 0
    <2>1. /\ IsFiniteSet(Permitted(g)')
          /\ Cardinality(Permitted(g)') <= Cardinality(Permitted(g)) + 1
          /\ Cardinality(Permitted(g)') \in Nat
      <3>1. /\ IsFiniteSet(Permitted(g) \cup {a})
            /\ Cardinality(Permitted(g) \cup {a}) =
                 IF a \in Permitted(g) THEN Cardinality(Permitted(g)) ELSE Cardinality(Permitted(g)) + 1
        BY <1>0, FS_AddElement
      <3>2. QED
        BY <1>0, <1>3, <3>1 DEF Gains
    <2>2. grants'[g].runs = grants[g].runs + 1 /\ grants[g].runs < MaxRuns /\ grants'[g].state # "none"
      BY <1>0, <1>3 DEF Gains, Pays, Spent, Claimable, GrantRecord
    <2>3. QED
      BY <1>0, <1>1, <1>3, <2>1, <2>2, MaxRunsAssumption DEF Gains, GrantRecord
  <1>4. ASSUME NEW a \in Actor, Starts(a, g)
        PROVE  /\ IsFiniteSet(Permitted(g)')
               /\ started'[g] + Cardinality(Permitted(g)') <= grants'[g].runs
               /\ grants'[g].runs <= MaxRuns
               /\ grants'[g].state = "none" => grants'[g].runs = 0
    <2>1. IsFiniteSet(Permitted(g)') /\ Cardinality(Permitted(g)') = Cardinality(Permitted(g)) - 1
      BY <1>0, <1>4, FS_RemoveElement DEF Starts
    <2>2. QED
      BY <1>0, <1>1, <1>4, <2>1 DEF Starts, Stands, GrantRecord
  <1>5. QED
    BY <1>2, <1>3, <1>4, RunSteps

-----------------------------------------------------------------------------
(* What the schedules promise *)

IInv == Typed /\ BoundInv /\ RunInv

LEMMA InitIInv == Init => IInv
  BY InitTyped, InitBoundInv, InitRunInv DEF IInv

LEMMA NextIInv == IInv /\ [Next]_vars => IInv'
  <1> SUFFICES ASSUME IInv, [Next]_vars PROVE IInv'
    OBVIOUS
  <1>1. CASE Next
    BY <1>1, NextTyped, NextBoundInv, NextRunInv DEF IInv
  <1>2. CASE UNCHANGED vars
    <2>1. BoundInv'
      BY <1>2 DEF IInv, vars, BoundInv, OnlyTheDelegatedRuns, Bound, AtWork
    <2>2. RunInv'
      BY <1>2 DEF IInv, vars, RunInv, Permitted
    <2>3. QED
      BY <2>1, <2>2, NextTyped DEF IInv
  <1>3. QED
    BY <1>1, <1>2

LEMMA SpecIInv == Spec => []IInv
  BY InitIInv, NextIInv, PTL DEF Spec

\* Every reachable state of the registries and threads has the declared types.
THEOREM Typing == Spec => []TypeOK
  <1>1. IInv => TypeOK
    BY DEF IInv, Typed, TypeOK, ScheduleRecord, ShapedCall, CallRecord
  <1>2. QED
    BY <1>1, SpecIInv, PTL

\* "SCHEDULE != AUTHORITY": no order of create, stale update, delete and re-create gets
\* a target, a cadence or a schedule run under a grant issued for another.
THEOREM WhatRunsWasDelegated == Spec => []OnlyTheDelegatedRuns
  BY SpecIInv, PTL DEF IInv, BoundInv

\* claim_child is written down before the permit it pays can start an effect.
THEOREM EffectsAreWithinRuns == Spec => []RunsAreSpentFirst
  <1>1. RunInv => RunsAreSpentFirst
    BY DEF RunInv, RunsAreSpentFirst, Permitted
  <1>2. QED
    BY <1>1, SpecIInv, PTL DEF IInv

\* A grant that left "active" pays nothing more and does not come back.
THEOREM SpentGrantsStaySpent == Spec => GrantsOnlyShrink
  <1>1. ASSUME IInv, Next, NEW g \in Grant, grants[g].state \in {"exhausted", "expired", "revoked"}
        PROVE  grants'[g].runs = grants[g].runs /\ grants'[g].state \in {grants[g].state, "revoked"}
    <2>1. Typed /\ grants[g] \in GrantRecord
      BY <1>1 DEF IInv, Typed
    <2>2. CASE Judges(g) \/ Stands(g)
      BY <1>1, <2>1, <2>2 DEF Judges, Stands, Judged, GrantRecord
    <2>3. ASSUME NEW a \in Actor, Pays(a, g) \/ Withdraws(a, g)
          PROVE  grants'[g].runs = grants[g].runs /\ grants'[g].state \in {grants[g].state, "revoked"}
      BY <1>1, <2>1, <2>3 DEF Pays, Withdraws, Revoked, Claimable, GrantRecord
    <2>4. QED
      BY <1>1, <2>1, <2>2, <2>3, GrantSteps DEF Issues
  <1>2. IInv /\ [Next]_vars =>
          [\A g \in Grant : grants[g].state \in {"exhausted", "expired", "revoked"} =>
              grants'[g].runs = grants[g].runs /\ grants'[g].state \in {grants[g].state, "revoked"}]_vars
    BY <1>1
  <1>3. QED
    BY SpecIInv, <1>2, PTL DEF Spec, GrantsOnlyShrink

\* A grant that no schedule and no thread refers to is never found again: it can
\* neither be bound to a schedule nor pay a run.
THEOREM ForgottenGrantsAreInert == Spec => OrphansAreInert
  <1>1. ASSUME IInv, Next, NEW g \in Grant, Orphan(g)
        PROVE  Orphan(g)' /\ grants'[g].runs = grants[g].runs
    <2>0. Typed /\ Typed' /\ grants[g] \in GrantRecord
      BY <1>1, NextTyped DEF IInv, Typed
    <2>1. \A a \in Actor : op[a].grant # g /\ g \notin Refs(a)
      BY <1>1 DEF Orphan, Refs, RefsOf
    <2>2. grants'[g].state # "none" /\ grants'[g].runs = grants[g].runs
      <3>1. ~Issues(g) /\ \A a \in Actor : ~Pays(a, g) /\ ~Withdraws(a, g)
        BY <1>1, <2>1 DEF Orphan, Issues, Pays, Withdraws
      <3>2. Judges(g) \/ Stands(g)
        BY <1>1, <2>0, <3>1, GrantSteps
      <3>3. QED
        BY <1>1, <2>0, <3>2 DEF Orphan, Judges, Stands, Judged, GrantRecord
    <2>3. ASSUME NEW s \in Schedule PROVE schedules'[s].grant # g
      <3>1. PICK a \in Actor : Proper(a, s, schedules'[s])
        BY <1>1, <2>0, ScheduleSteps
      <3>2. QED
        BY <1>1, <2>1, <3>1, ScheduledAssumption DEF Proper, Orphan
    <2>4. ASSUME NEW a \in Actor PROVE g \notin Refs(a)'
      BY <1>1, <2>0, <2>1, CallSteps DEF Learnt, Orphan
    <2>5. \A a \in Actor : op'[a].grant # g /\ \A job \in op'[a].jobs : job.grant # g
      BY <2>4 DEF Refs, RefsOf
    <2>6. QED
      BY <2>2, <2>3, <2>5 DEF Orphan
  <1>2. IInv /\ [Next]_vars => [\A g \in Grant : Orphan(g) => Orphan(g)' /\ grants'[g].runs = grants[g].runs]_vars
    BY <1>1
  <1>3. QED
    BY SpecIInv, <1>2, PTL DEF Spec, OrphansAreInert
=============================================================================
