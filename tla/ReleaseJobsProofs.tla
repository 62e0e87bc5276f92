-------------------------- MODULE ReleaseJobsProofs --------------------------
(***************************************************************************)
(* ReleaseJobs for any number of jobs and fibers, calls and faults: no job  *)
(* is left active and no lifecycle reserved with nobody at work, the files  *)
(* follow the jobs, and only verified bundles are installed.                *)
(***************************************************************************)
EXTENDS ReleaseJobs, TLAPS

\* What a fiber still has to do ends in the continuation that decides; a log, the
\* digest of a challenge or a rejection may come before it.
Leading == {"log", "challenge", "thrown"}
ShapedTodo == {s \in Seq(Label) : \A i \in 1 .. Len(s) : s[i] \in Leading <=> i < Len(s)}
ShapedCall == {o \in CallRecord :
    /\ o.todo \in ShapedTodo
    /\ o.job = None => o = Idle
    /\ o.todo = << >> => o.job = None}

Typed ==
    /\ job \in [Job -> JobRecord]
    /\ listed \subseteq Job
    /\ disk \in [Job -> JobRecord \cup {None}]
    /\ queue \in [Job -> Seq(Entry)]
    /\ lifecycle \in Job \cup {None}
    /\ controller \in [Job -> Fiber \cup {None}]
    /\ target \in [Job -> Content]
    /\ backups \in [Job -> Seq(Content \cup {"used"})]
    /\ displaced \in [Job -> SUBSET Aside]
    /\ op \in [Fiber -> ShapedCall]
    /\ calls \in 0 .. MaxCalls /\ faults \in 0 .. MaxFaults
    /\ lost \subseteq Job /\ dropped \subseteq Job

\* Continuations of a call that owes its job a terminal state, that has reserved the
\* lifecycle, and that relies on a verified bundle.
Owing == {"run", "download", "network", "downloaded", "verify", "stage", "helper", "receipt", "validate",
          "complete", "recover", "restore", "settle", "request", "undo", "undone"}
Reserving == {"helper", "receipt", "validate", "complete", "completed", "recover", "restore", "settle",
              "release", "request", "undo", "undone", "rolled", "over"}
Trusting == {"dialog", "helper", "receipt"}
EndsIn(s, L) == s # << >> /\ s[Len(s)] \in L

OwedInv ==
    \A j \in Job \ dropped : job[j].state \in Active =>
        \E f \in Fiber : op[f].job = j /\ EndsIn(op[f].todo, Owing)
ReservedInv ==
    lifecycle \notin dropped \cup {None} =>
        \E f \in Fiber : op[f].job = lifecycle /\ EndsIn(op[f].todo, Reserving)

-----------------------------------------------------------------------------
(* Lists of continuations *)

LEMMA SingleTodo ==
    ASSUME NEW a \in Label \ Leading, NEW L
    PROVE  /\ <<a>> \in ShapedTodo /\ <<a>> # << >>
           /\ EndsIn(<<a>>, L) <=> a \in L
  BY DEF ShapedTodo, EndsIn

LEMMA DoubleTodo ==
    ASSUME NEW a \in Label \cap Leading, NEW b \in Label \ Leading, NEW L
    PROVE  /\ <<a, b>> \in ShapedTodo /\ <<a, b>> # << >>
           /\ EndsIn(<<a, b>>, L) <=> b \in L
  BY DEF ShapedTodo, EndsIn

LEMMA NoTodo == << >> \in ShapedTodo /\ \A L : ~EndsIn(<< >>, L)
  BY DEF ShapedTodo, EndsIn

LEMMA TailTodo ==
    ASSUME NEW s \in ShapedTodo, s # << >>, Head(s) \in Leading, NEW L
    PROVE  /\ Tail(s) \in ShapedTodo /\ Tail(s) # << >>
           /\ EndsIn(Tail(s), L) <=> EndsIn(s, L)
  <1>1. s \in Seq(Label) /\ Len(s) \in Nat /\ Len(s) >= 1 /\ Head(s) = s[1]
    BY DEF ShapedTodo
  <1>2. Len(s) > 1
    BY <1>1 DEF ShapedTodo
  <1>3. /\ Tail(s) \in Seq(Label) /\ Len(Tail(s)) = Len(s) - 1
        /\ \A i \in 1 .. Len(s) - 1 : Tail(s)[i] = s[i + 1]
    BY <1>1
  <1>4. \A i \in 1 .. Len(Tail(s)) : Tail(s)[i] \in Leading <=> i < Len(Tail(s))
    BY <1>1, <1>2, <1>3 DEF ShapedTodo
  <1>5. Tail(s)[Len(Tail(s))] = s[Len(s)] /\ Tail(s) # << >>
    BY <1>1, <1>2, <1>3
  <1>6. QED
    BY <1>1, <1>3, <1>4, <1>5 DEF ShapedTodo, EndsIn

LEMMA ThrownTodo ==
    ASSUME NEW s \in ShapedTodo, s # << >>, NEW L
    PROVE  /\ <<"thrown">> \o s \in ShapedTodo /\ <<"thrown">> \o s # << >>
           /\ EndsIn(<<"thrown">> \o s, L) <=> EndsIn(s, L)
  <1> DEFINE t == <<"thrown">> \o s
  <1>1. s \in Seq(Label) /\ Len(s) \in Nat /\ Len(s) >= 1
    BY DEF ShapedTodo
  <1>2. t \in Seq(Label) /\ Len(t) = Len(s) + 1 /\ t[1] = "thrown"
    BY <1>1 DEF Label
  <1>3. \A i \in 2 .. Len(t) : t[i] = s[i - 1]
    BY <1>1
  <1>4. \A i \in 1 .. Len(t) : t[i] \in Leading <=> i < Len(t)
    <2> SUFFICES ASSUME NEW i \in 1 .. Len(t) PROVE t[i] \in Leading <=> i < Len(t)
      OBVIOUS
    <2>1. CASE i = 1
      BY <1>1, <1>2, <2>1 DEF Leading
    <2>2. CASE i > 1
      BY <1>1, <1>2, <1>3, <2>2 DEF ShapedTodo
    <2>3. QED
      BY <1>1, <1>2, <2>1, <2>2
  <1>5. t[Len(t)] = s[Len(s)] /\ t # << >>
    BY <1>1, <1>2, <1>3
  <1>6. QED
    BY <1>1, <1>2, <1>4, <1>5 DEF ShapedTodo, EndsIn

LEMMA OnlyTodo ==
    ASSUME NEW s \in ShapedTodo, s # << >>, Head(s) \notin Leading
    PROVE  s = <<Head(s)>>
  <1>1. s \in Seq(Label) /\ Len(s) >= 1 /\ Head(s) = s[1]
    BY DEF ShapedTodo
  <1>2. PICK n \in Nat : n = Len(s) /\ n >= 1 /\ s = [i \in 1 .. n |-> s[i]]
    BY <1>1
  <1>3. ~(1 < n)
    BY <1>1, <1>2 DEF ShapedTodo
  <1>4. n = 1
    BY <1>2, <1>3
  <1>5. s = [i \in 1 .. 1 |-> s[i]]
    BY <1>2, <1>4
  <1>6. QED
    BY <1>1, <1>5

\* What stands first in a fiber's list says what is last in it.
LEMMA AtFacts ==
    ASSUME Typed, NEW f \in Fiber, NEW l \in Label \ Leading, At(f, l)
    PROVE  /\ ~op[f].waiting /\ op[f].job \in Job /\ op[f].todo = <<l>>
           /\ \A L : EndsIn(op[f].todo, L) <=> l \in L
  <1>1. /\ op[f] \in ShapedCall /\ op[f].todo \in ShapedTodo /\ op[f].todo \in Seq(Label)
        /\ op[f].todo # << >> /\ Head(op[f].todo) = l /\ ~op[f].waiting
    BY DEF Typed, At, ShapedCall, ShapedTodo
  <1>2. op[f].job # None
    BY <1>1 DEF ShapedCall, Idle
  <1>3. op[f].todo = <<l>>
    BY <1>1, OnlyTodo
  <1>4. QED
    BY <1>1, <1>2, <1>3, SingleTodo DEF ShapedCall, CallRecord

LEMMA ThrownFacts ==
    ASSUME Typed, NEW f \in Fiber, At(f, "thrown")
    PROVE  /\ ~op[f].waiting /\ op[f].job \in Job
           /\ op[f].todo # <<"unlist">>
           /\ \A L : EndsIn(op[f].todo, L) <=> Pending(f) \in L
  <1>1. /\ op[f] \in ShapedCall /\ op[f].todo # << >> /\ ~op[f].waiting
        /\ Head(op[f].todo) = "thrown"
    BY DEF Typed, At
  <1>2. op[f].job # None
    BY <1>1 DEF ShapedCall, Idle
  <1>3. QED
    BY <1>1, <1>2 DEF ShapedCall, CallRecord, EndsIn, Pending

-----------------------------------------------------------------------------
(* What a fiber's step does *)

\* The installations that set a release aside.
Releases(b) == {k \in DOMAIN b : b[k] = "new"}

\* A ready job, or one whose backup is a release, was verified.
Sound(j, r) ==
    /\ r.state = "ready" \/ r.backup \in Releases(backups[j]) => r.verified
    /\ r.state = "absent" => ~r.verified
    /\ r.backup <= Len(backups[j])

Trusted(f) ==
    op[f].job # None =>
        /\ EndsIn(op[f].todo, Trusting) \/ op[f].path \in Releases(backups[op[f].job]) => J(f).verified
        /\ op[f].path <= Len(backups[op[f].job])

\* Backups are added and used, and never exchanged for others.
Kept ==
    /\ backups' \in [Job -> Seq(Content \cup {"used"})]
    /\ \A i \in Job : /\ Len(backups[i]) <= Len(backups'[i])
                      /\ \A k \in DOMAIN backups[i] : backups'[i][k] \in {backups[i][k], "used"}

\* The step of f takes job j to r, and leaves f with s to do.
Hands(f, j, r, s) ==
    /\ r.state \in Active => r.state = job[j].state \/ EndsIn(s, Owing)
    /\ EndsIn(op[f].todo, Owing) => EndsIn(s, Owing) \/ r.state \notin Active \/ j \in dropped'
    /\ EndsIn(op[f].todo, Reserving) => EndsIn(s, Reserving) \/ lifecycle' = None \/ j \in dropped'
    /\ lifecycle' \in {lifecycle, None} \/ (lifecycle' = j /\ EndsIn(s, Reserving))
    /\ dropped \subseteq dropped'

\* It makes p the path of f's backup.
Trusts(f, j, r, s, p) ==
    Sound(j, job[j]) /\ (op[f].job = j => Trusted(f)) =>
        /\ Sound(j, r) /\ (job[j].verified => r.verified)
        /\ EndsIn(s, Trusting) \/ p \in Releases(backups'[j]) => r.verified
        /\ p <= Len(backups'[j])
        /\ \A i \in Job : target'[i] = "new" /\ target[i] # "new" => job[i].verified

Confined(f, j) ==
    /\ j \in Job /\ op[f].job \in {j, None} /\ ~op[f].waiting
    /\ lifecycle' \in Job \cup {None}
    /\ controller' \in [Job -> Fiber \cup {None}]
    /\ target' \in [Job -> Content]
    /\ displaced' \in [Job -> SUBSET Aside]
    /\ Kept
    /\ dropped' \subseteq Job
    /\ UNCHANGED <<disk, faults, lost>>

\* The fibers but f go on where they were; one may learn that its download was aborted.
Moves(f, o) ==
    /\ op' \in [Fiber -> ShapedCall] /\ op'[f] = o
    /\ \A g \in Fiber \ {f} :
          /\ op'[g].job = op[g].job /\ op'[g].todo = op[g].todo
          /\ op'[g].waiting = op[g].waiting /\ op'[g].path = op[g].path

\* Without a write of the job's file ...
Goes(f, j, o) ==
    /\ UNCHANGED <<job, queue>>
    /\ Moves(f, o) /\ ~o.waiting /\ o.job \in {j, None}
    /\ listed' \subseteq listed
    /\ op[f].todo = <<"unlist">> => listed' = listed \ {j}
    /\ Hands(f, j, job[j], o.todo) /\ Trusts(f, j, job[j], o.todo, o.path)

\* ... or with the write x, which f awaits.
Writes(f, j, o, r, x) ==
    /\ job' = [job EXCEPT ![j] = r]
    /\ queue' = [queue EXCEPT ![j] = Append(@, x)]
    /\ Moves(f, o) /\ o.waiting /\ o.job = j
    /\ x.who = f /\ x.rec \in {r, NoJob}
    /\ x.kind = "snapshot" => x.rec = r
    /\ x.kind = "archive" => o.todo = <<"unlist">>
    /\ listed \subseteq listed' /\ listed' \subseteq listed \cup {j}
    /\ op[f].todo # <<"unlist">>
    /\ Hands(f, j, r, o.todo) /\ Trusts(f, j, r, o.todo, o.path)

Steps(f) ==
    \E j \in Job, o \in ShapedCall :
        /\ Confined(f, j)
        /\ Goes(f, j, o) \/ \E r \in JobRecord, x \in Entry : Writes(f, j, o, r, x)

LEMMA IdleCall ==
    Idle \in ShapedCall /\ Idle.job = None /\ Idle.todo = << >> /\ ~Idle.waiting /\ Idle.path = 0
  BY NoTodo DEF Idle, ShapedCall, CallRecord, Aside

LEMMA NoJobRecord == NoJob \in JobRecord
  BY DEF NoJob, JobRecord

\* The first backup has number 1.
LEMMA NoPath ==
    ASSUME Typed, NEW j \in Job
    PROVE  0 <= Len(backups[j]) /\ 0 \notin Releases(backups[j]) /\ DOMAIN backups[j] = 1 .. Len(backups[j])
  <1>1. backups[j] \in Seq(Content \cup {"used"})
    BY DEF Typed
  <1>2. QED
    BY <1>1 DEF Releases

LEMMA NoPathLater ==
    ASSUME Kept, NEW j \in Job
    PROVE  0 <= Len(backups'[j]) /\ 0 \notin Releases(backups'[j])
  <1>1. backups'[j] \in Seq(Content \cup {"used"})
    BY DEF Kept
  <1>2. QED
    BY <1>1 DEF Releases

LEMMA NoJobSound ==
    ASSUME Typed, NEW j \in Job
    PROVE  Sound(j, NoJob)
  BY NoPath DEF NoJob, Sound

\* A number in use keeps its backup, or has none.
LEMMA KeptReleases ==
    ASSUME Typed, Kept, NEW j \in Job, NEW p \in Nat
    PROVE  /\ Len(backups[j]) \in Nat /\ Len(backups'[j]) \in Nat /\ Len(backups[j]) <= Len(backups'[j])
           /\ p <= Len(backups[j]) /\ p \in Releases(backups'[j]) => p \in Releases(backups[j])
  <1>1. backups[j] \in Seq(Content \cup {"used"}) /\ backups'[j] \in Seq(Content \cup {"used"})
    BY DEF Typed, Kept
  <1>2. /\ DOMAIN backups[j] = 1 .. Len(backups[j]) /\ DOMAIN backups'[j] = 1 .. Len(backups'[j])
        /\ Len(backups[j]) \in Nat /\ Len(backups'[j]) \in Nat
    BY <1>1
  <1>3. Len(backups[j]) <= Len(backups'[j])
    BY DEF Kept
  <1>4. ASSUME p <= Len(backups[j]), p \in Releases(backups'[j]) PROVE p \in Releases(backups[j])
    <2>1. p \in DOMAIN backups[j] /\ backups'[j][p] = "new"
      BY <1>2, <1>4 DEF Releases
    <2>2. backups[j][p] = "new"
      BY <2>1 DEF Kept
    <2>3. QED
      BY <2>1, <2>2 DEF Releases
  <1>5. QED
    BY <1>2, <1>3, <1>4

LEMMA AwaitSteps ==
    ASSUME Typed, NEW f \in Fiber, NEW j \in Job, NEW kind \in {"snapshot", "archive"},
           NEW r \in JobRecord, NEW s \in ShapedTodo, s # << >>,
           Await(f, j, kind, r, s), Confined(f, j), kind = "archive" => s = <<"unlist">>,
           op[f].todo # <<"unlist">>, listed \subseteq listed', listed' \subseteq listed \cup {j},
           Hands(f, j, r, s), Trusts(f, j, r, s, op[f].path)
    PROVE  Steps(f)
  <1> DEFINE o == [op[f] EXCEPT !.job = j, !.todo = s, !.waiting = TRUE]
             x == [who |-> f, kind |-> kind, rec |-> r]
  <1>1. op \in [Fiber -> ShapedCall] /\ op[f] \in ShapedCall
    BY DEF Typed
  <1>2. o \in ShapedCall /\ o.job = j /\ o.todo = s /\ o.waiting /\ o.path = op[f].path
    BY <1>1, ReleaseAssumption DEF ShapedCall, CallRecord, ShapedTodo
  <1>3. x \in Entry
    BY DEF Entry
  <1>4. Moves(f, o)
    BY <1>1, <1>2 DEF Moves, Await
  <1>5. Writes(f, j, o, r, x)
    BY <1>2, <1>4 DEF Writes, Await
  <1>6. QED
    BY <1>2, <1>3, <1>5 DEF Steps

LEMMA LogSteps ==
    ASSUME Typed, NEW f \in Fiber, NEW s \in ShapedTodo, s # << >>, LogThen(f, s),
           Confined(f, op[f].job), listed' = listed, op[f].todo # <<"unlist">>,
           Hands(f, op[f].job, J(f), s), Trusts(f, op[f].job, J(f), s, op[f].path)
    PROVE  Steps(f)
  <1> DEFINE j == op[f].job
             o == [op[f] EXCEPT !.todo = s, !.waiting = TRUE]
             x == [who |-> f, kind |-> "log", rec |-> NoJob]
  <1>0. j \in Job /\ job[j] = J(f) /\ job[j] \in JobRecord /\ job \in [Job -> JobRecord]
    BY DEF Typed, Confined, J
  <1>1. op \in [Fiber -> ShapedCall] /\ op[f] \in ShapedCall
    BY DEF Typed
  <1>2. o \in ShapedCall /\ o.job = j /\ o.todo = s /\ o.waiting /\ o.path = op[f].path
    BY <1>0, <1>1, ReleaseAssumption DEF ShapedCall, CallRecord, ShapedTodo
  <1>3. x \in Entry
    BY NoJobRecord DEF Entry
  <1>4. Moves(f, o)
    BY <1>1, <1>2 DEF Moves, LogThen
  <1>5. Writes(f, j, o, job[j], x)
    BY <1>0, <1>2, <1>4 DEF Writes, LogThen
  <1>6. QED
    BY <1>0, <1>2, <1>3, <1>5 DEF Steps

LEMMA GoSteps ==
    ASSUME Typed, NEW f \in Fiber, NEW j \in Job, NEW o \in ShapedCall, Confined(f, j),
           op' = [op EXCEPT ![f] = o], UNCHANGED <<job, queue>>, ~o.waiting, o.job \in {j, None},
           listed' \subseteq listed, op[f].todo = <<"unlist">> => listed' = listed \ {j},
           Hands(f, j, job[j], o.todo), Trusts(f, j, job[j], o.todo, o.path)
    PROVE  Steps(f)
  <1>1. Moves(f, o)
    BY DEF Typed, Moves
  <1>2. QED
    BY <1>1 DEF Goes, Steps

LEMMA DoneSteps ==
    ASSUME Typed, NEW f \in Fiber, Done(f), Confined(f, op[f].job), listed' \subseteq listed,
           op[f].todo = <<"unlist">> => listed' = listed \ {op[f].job},
           Hands(f, op[f].job, J(f), << >>), Trusts(f, op[f].job, J(f), << >>, 0)
    PROVE  Steps(f)
  BY IdleCall, GoSteps DEF Done, Confined, J

-----------------------------------------------------------------------------
(* Steps that leave the manager's other state alone *)

\* A target may lose what it had.
Emptied ==
    /\ backups' = backups
    /\ target' \in [Job -> Content] /\ displaced' \in [Job -> SUBSET Aside]
    /\ \A i \in Job : target'[i] = "new" => target[i] = "new"

Plain ==
    /\ UNCHANGED <<listed, disk, lifecycle, adapter>>
    /\ UNCHANGED site \/ Emptied
    /\ controller' \in [Job -> Fiber \cup {None}]

Free(f) == op[f].job \in Job /\ ~op[f].waiting

LEMMA InFacts ==
    ASSUME NEW j \in Job, NEW r \in JobRecord, NEW s \in Terminal \cup Active
    PROVE  /\ In(r, s) \in JobRecord /\ In(r, s).state = s /\ s # "absent"
           /\ In(r, s).backup = r.backup /\ In(r, s).verified = r.verified
           /\ In(r, s).cancel = r.cancel /\ In(r, s).rollback = r.rollback
           /\ s # "ready" /\ Sound(j, r) => Sound(j, In(r, s))
  BY DEF In, JobRecord, Sound, Terminal, Active, Downloading

LEMMA SameBackups ==
    ASSUME Typed, backups' = backups
    PROVE  Kept
  <1>1. ASSUME NEW i \in Job PROVE Len(backups[i]) <= Len(backups[i])
    <2>1. backups[i] \in Seq(Content \cup {"used"})
      BY DEF Typed
    <2>2. QED
      BY <2>1
  <1>2. QED
    BY <1>1 DEF Typed, Kept

LEMMA SameSite ==
    ASSUME Typed, UNCHANGED site
    PROVE  /\ Kept /\ Emptied /\ target' = target /\ backups' = backups /\ displaced' = displaced
           /\ target' \in [Job -> Content] /\ displaced' \in [Job -> SUBSET Aside]
  <1>1. target' = target /\ backups' = backups /\ displaced' = displaced
    BY DEF site
  <1>2. QED
    BY <1>1, SameBackups DEF Typed, Emptied

LEMMA PlainFrame ==
    ASSUME Typed, NEW f \in Fiber, Free(f), Plain
    PROVE  /\ Confined(f, op[f].job) /\ dropped' = dropped /\ lifecycle' = lifecycle
           /\ Emptied /\ listed' = listed /\ J(f) \in JobRecord /\ J(f) = job[op[f].job]
           /\ op[f].job \in Job /\ op[f].job # None
  <1>1. Emptied
    BY SameSite DEF Plain
  <1>2. QED
    BY <1>1, SameBackups, ReleaseAssumption DEF Typed, Free, Plain, Emptied, Confined, adapter, J

LEMMA PlainSave ==
    ASSUME Typed, NEW f \in Fiber, Free(f), Plain, op[f].todo # <<"unlist">>,
           NEW r \in JobRecord, NEW s \in ShapedTodo, s # << >>, Save(f, r, s),
           r.state \in Active => r.state = J(f).state \/ EndsIn(s, Owing),
           EndsIn(op[f].todo, Owing) => EndsIn(s, Owing) \/ r.state \notin Active,
           EndsIn(op[f].todo, Reserving) => EndsIn(s, Reserving),
           EndsIn(s, Trusting) => EndsIn(op[f].todo, Trusting),
           J(f).verified => r.verified,
           Sound(op[f].job, J(f)) /\ Trusted(f) => Sound(op[f].job, r)
    PROVE  Steps(f)
  <1>1. Await(f, op[f].job, "snapshot", r, s) /\ op[f].job \in Job
    BY DEF Save, Free
  <1>2. Confined(f, op[f].job) /\ dropped' = dropped /\ lifecycle' = lifecycle /\ Emptied
        /\ listed' = listed /\ J(f) = job[op[f].job] /\ op[f].job # None
    BY PlainFrame
  <1>3. Hands(f, op[f].job, r, s)
    BY <1>2 DEF Hands
  <1>4. Trusts(f, op[f].job, r, s, op[f].path)
    BY <1>2 DEF Trusts, Trusted, Emptied
  <1>5. QED
    BY <1>1, <1>2, <1>3, <1>4, AwaitSteps

LEMMA PlainLog ==
    ASSUME Typed, NEW f \in Fiber, Free(f), Plain, op[f].todo # <<"unlist">>,
           NEW s \in ShapedTodo, s # << >>, LogThen(f, s),
           EndsIn(op[f].todo, Owing) => EndsIn(s, Owing),
           EndsIn(op[f].todo, Reserving) => EndsIn(s, Reserving),
           EndsIn(s, Trusting) => EndsIn(op[f].todo, Trusting)
    PROVE  Steps(f)
  <1>1. Confined(f, op[f].job) /\ dropped' = dropped /\ lifecycle' = lifecycle /\ Emptied
        /\ listed' = listed /\ J(f) = job[op[f].job] /\ op[f].job # None
    BY PlainFrame
  <1>2. Hands(f, op[f].job, J(f), s)
    BY <1>1 DEF Hands
  <1>3. Trusts(f, op[f].job, J(f), s, op[f].path)
    BY <1>1 DEF Trusts, Trusted, Emptied
  <1>4. QED
    BY <1>1, <1>2, <1>3, LogSteps

LEMMA PlainDone ==
    ASSUME Typed, NEW f \in Fiber, Free(f), Plain, op[f].todo # <<"unlist">>, Done(f),
           EndsIn(op[f].todo, Owing) => J(f).state \notin Active,
           ~EndsIn(op[f].todo, Reserving)
    PROVE  Steps(f)
  <1>1. Confined(f, op[f].job) /\ dropped' = dropped /\ lifecycle' = lifecycle /\ Emptied
        /\ listed' = listed /\ J(f) = job[op[f].job] /\ op[f].job # None
    BY PlainFrame
  <1>2. Hands(f, op[f].job, J(f), << >>)
    BY <1>1 DEF Hands
  <1>3. Trusts(f, op[f].job, J(f), << >>, 0)
    BY <1>1, NoTodo, NoPath DEF Trusts, Confined, Emptied
  <1>4. QED
    BY <1>1, <1>2, <1>3, DoneSteps

LEMMA PlainGo ==
    ASSUME Typed, NEW f \in Fiber, Free(f), Plain, op[f].todo # <<"unlist">>,
           NEW o \in ShapedCall, op' = [op EXCEPT ![f] = o], UNCHANGED <<job, queue>>,
           ~o.waiting, o.job = op[f].job, o.path = op[f].path,
           EndsIn(op[f].todo, Owing) => EndsIn(o.todo, Owing),
           EndsIn(op[f].todo, Reserving) => EndsIn(o.todo, Reserving),
           EndsIn(o.todo, Trusting) => EndsIn(op[f].todo, Trusting)
    PROVE  Steps(f)
  <1>1. Confined(f, op[f].job) /\ dropped' = dropped /\ lifecycle' = lifecycle /\ Emptied
        /\ listed' = listed /\ J(f) = job[op[f].job] /\ op[f].job \in Job /\ op[f].job # None
    BY PlainFrame DEF Free
  <1>2. Hands(f, op[f].job, J(f), o.todo)
    BY <1>1 DEF Hands
  <1>3. Trusts(f, op[f].job, J(f), o.todo, o.path)
    BY <1>1 DEF Trusts, Trusted, Emptied
  <1>4. QED
    BY <1>1, <1>2, <1>3, GoSteps

LEMMA PlainAsk ==
    ASSUME Typed, NEW f \in Fiber, Free(f), Plain, op[f].todo # <<"unlist">>, NEW aside \in Aside,
           NEW s \in ShapedTodo, s # << >>, AskRestore(f, aside, s),
           EndsIn(s, Owing), EndsIn(s, Reserving), ~EndsIn(s, Trusting)
    PROVE  Steps(f)
  <1> DEFINE j == op[f].job
             p == IF Created(f) THEN 0 ELSE job[j].backup
             o == [op[f] EXCEPT !.todo = s, !.waiting = TRUE, !.path = p, !.aside = aside]
             x == [who |-> f, kind |-> "snapshot", rec |-> job[j]]
  <1>1. Confined(f, j) /\ dropped' = dropped /\ lifecycle' = lifecycle /\ Emptied
        /\ listed' = listed /\ job[j] \in JobRecord /\ j \in Job /\ j # None
    BY PlainFrame
  <1>2. p \in Nat
    BY <1>1 DEF JobRecord
  <1>3. o \in ShapedCall /\ o.job = j /\ o.todo = s /\ o.waiting /\ o.path = p
    <2>1. op[f] \in CallRecord /\ s \in Seq(Label)
      BY DEF Typed, ShapedCall, ShapedTodo
    <2>2. o \in CallRecord /\ o.job = j /\ o.todo = s /\ o.waiting /\ o.path = p
      BY <1>2, <2>1 DEF CallRecord
    <2>3. QED
      BY <1>1, <2>2 DEF ShapedCall
  <1>4. op' = [op EXCEPT ![f] = o] /\ job' = job /\ queue' = [queue EXCEPT ![j] = Append(@, x)]
    BY DEF AskRestore, Typed
  <1>5. Moves(f, o)
    BY <1>3, <1>4 DEF Moves, Typed
  <1>6. Hands(f, j, job[j], o.todo)
    BY <1>1, <1>3 DEF Hands
  <1>7. Trusts(f, j, job[j], o.todo, o.path)
    BY <1>1, <1>3, NoPath DEF Trusts, Sound, Emptied
  <1>8. job' = [job EXCEPT ![j] = job[j]] /\ x \in Entry
    BY <1>1, <1>4 DEF Typed, Entry
  <1>9. Writes(f, j, o, job[j], x)
    BY <1>1, <1>3, <1>4, <1>5, <1>6, <1>7, <1>8 DEF Writes
  <1>10. QED
    BY <1>1, <1>3, <1>8, <1>9 DEF Steps

\* A cancelled or failed job is terminal: who ends it so owes it nothing more.
LEMMA EndSteps ==
    ASSUME Typed, NEW f \in Fiber, Free(f), Plain, op[f].todo # <<"unlist">>,
           ~EndsIn(op[f].todo, Reserving), NEW s \in {"cancelled", "failed"},
           NEW then \in {<<"end">>, <<"log", "end">>, <<"log", "cancelled">>}, Save(f, In(J(f), s), then)
    PROVE  Steps(f)
  <1>1. J(f) \in JobRecord /\ op[f].job \in Job
    BY PlainFrame
  <1>2. s \in Terminal /\ s \notin Active /\ s # "ready"
    BY DEF Terminal, Active, Downloading
  <1>3. then \in ShapedTodo /\ then # << >> /\ ~EndsIn(then, Trusting)
    <2>1. /\ {"end", "cancelled"} \subseteq Label \ Leading /\ "log" \in Label \cap Leading
          /\ "end" \notin Trusting /\ "cancelled" \notin Trusting
      BY DEF Label, Leading, Trusting
    <2>2. CASE then = <<"end">>
      BY <2>1, <2>2, SingleTodo
    <2>3. CASE then = <<"log", "end">>
      BY <2>1, <2>3, DoubleTodo
    <2>4. CASE then = <<"log", "cancelled">>
      BY <2>1, <2>4, DoubleTodo
    <2>5. QED
      BY <2>2, <2>3, <2>4
  <1>4. QED
    BY <1>1, <1>2, <1>3, InFacts, PlainSave

LEMMA FailSteps ==
    ASSUME Typed, NEW f \in Fiber, Free(f), Plain, op[f].todo # <<"unlist">>,
           ~EndsIn(op[f].todo, Reserving), NEW cancelled, Fail(f, cancelled)
    PROVE  Steps(f)
  <1>1. CASE J(f).state = "cancelled" /\ Done(f)
    BY <1>1, PlainDone DEF Active, Downloading
  <1>2. CASE Save(f, In(J(f), "cancelled"), <<"end">>)
    BY <1>2, EndSteps
  <1>3. CASE Save(f, In(J(f), "failed"), <<"log", "end">>)
    BY <1>3, EndSteps
  <1>4. QED
    BY <1>1, <1>2, <1>3 DEF Fail

LEMMA AbortedSteps ==
    ASSUME Typed, NEW f \in Fiber, Free(f), Plain, op[f].todo # <<"unlist">>,
           ~EndsIn(op[f].todo, Reserving), Aborted(f)
    PROVE  Steps(f)
  BY EndSteps DEF Aborted

\* Unregister keeps the type of the runtime entries.
LEMMA UnregisterFacts ==
    ASSUME Typed, NEW f \in Fiber, Unregister(f)
    PROVE  controller' \in [Job -> Fiber \cup {None}]
  BY DEF Typed, Unregister

-----------------------------------------------------------------------------
(* The steps of the runner *)

LEMMA OneTodo ==
    ASSUME NEW a \in Label \ Leading
    PROVE  /\ <<a>> \in ShapedTodo /\ <<a>> # << >>
           /\ EndsIn(<<a>>, Owing) <=> a \in Owing
           /\ EndsIn(<<a>>, Reserving) <=> a \in Reserving
           /\ EndsIn(<<a>>, Trusting) <=> a \in Trusting
  BY SingleTodo

LEMMA TwoTodo ==
    ASSUME NEW a \in Leading, NEW b \in Label \ Leading
    PROVE  /\ <<a, b>> \in ShapedTodo /\ <<a, b>> # << >>
           /\ EndsIn(<<a, b>>, Owing) <=> b \in Owing
           /\ EndsIn(<<a, b>>, Reserving) <=> b \in Reserving
           /\ EndsIn(<<a, b>>, Trusting) <=> b \in Trusting
  <1>1. a \in Label \cap Leading
    BY DEF Label, Leading
  <1>2. QED
    BY <1>1, DoubleTodo

\* A fiber that is free at a place of its own.
LEMMA FreeAt ==
    ASSUME Typed, NEW f \in Fiber, NEW l \in Label \ Leading, At(f, l)
    PROVE  /\ Free(f) /\ op[f].todo = <<l>>
           /\ l # "unlist" => op[f].todo # <<"unlist">>
           /\ EndsIn(op[f].todo, Owing) <=> l \in Owing
           /\ EndsIn(op[f].todo, Reserving) <=> l \in Reserving
           /\ EndsIn(op[f].todo, Trusting) <=> l \in Trusting
           /\ J(f) \in JobRecord /\ op[f].job \in Job
  BY AtFacts DEF Free, Typed, J

LEMMA KeepsControllers == Typed /\ controller' = controller => controller' \in [Job -> Fiber \cup {None}]
  BY DEF Typed

LEMMA LogStep ==
    ASSUME Typed, NEW f \in Fiber, Log(f)
    PROVE  Steps(f)
  <1>1. op[f] \in ShapedCall /\ op[f].todo \in ShapedTodo /\ op[f].todo # << >> /\ Head(op[f].todo) = "log"
        /\ ~op[f].waiting
    BY DEF Typed, Log, At, ShapedCall
  <1>2. Free(f) /\ op[f].todo # <<"unlist">>
    BY <1>1 DEF ShapedCall, CallRecord, Idle, Free
  <1>3. Plain
    BY KeepsControllers DEF Log, Plain
  <1>4. /\ Tail(op[f].todo) \in ShapedTodo /\ Tail(op[f].todo) # << >>
        /\ \A L : EndsIn(Tail(op[f].todo), L) <=> EndsIn(op[f].todo, L)
    BY <1>1, TailTodo DEF Leading
  <1>5. QED
    BY <1>2, <1>3, <1>4, PlainLog DEF Log

LEMMA EndStep ==
    ASSUME Typed, NEW f \in Fiber, End(f)
    PROVE  Steps(f)
  <1>1. PICK l \in {"end", "staged", "closed"} : At(f, l)
    BY DEF End
  <1>2. l \in Label \ Leading /\ l \notin Owing /\ l \notin Reserving /\ l # "unlist"
    BY DEF Label, Leading, Owing, Reserving
  <1>3. Plain
    BY KeepsControllers DEF End, Plain
  <1>4. QED
    BY <1>1, <1>2, <1>3, FreeAt, PlainDone DEF End

LEMMA RunPrepareStep ==
    ASSUME Typed, NEW f \in Fiber, RunPrepare(f)
    PROVE  Steps(f)
  <1> DEFINE r == [In(J(f), Downloads[1]) EXCEPT !.cancel = FALSE]
  <1>1. Plain
    BY KeepsControllers DEF RunPrepare, Plain
  <1>2. "run" \in Label \ Leading /\ "download" \in Label \ Leading /\ "run" # "unlist"
    BY DEF Label, Leading
  <1>3. "run" \notin Reserving /\ "download" \in Owing /\ "download" \notin Trusting
    BY DEF Owing, Reserving, Trusting
  <1>4. J(f) \in JobRecord
    BY <1>2, FreeAt DEF RunPrepare
  <1>5. Downloads[1] \in Downloading
    BY ReleaseAssumption
  <1>6. r \in JobRecord /\ r.verified = J(f).verified /\ (Sound(op[f].job, J(f)) => Sound(op[f].job, r))
    BY <1>4, <1>5 DEF In, JobRecord, Sound, Active, Downloading
  <1>7. QED
    BY <1>1, <1>2, <1>3, <1>6, FreeAt, OneTodo, PlainSave DEF RunPrepare

LEMMA DownloadStep ==
    ASSUME Typed, NEW f \in Fiber, Download(f)
    PROVE  Steps(f)
  <1> DEFINE o == [op[f] EXCEPT !.todo = <<"network">>, !.phase = @ + 1, !.aborted = FALSE]
  <1>1. "download" \in Label \ Leading /\ "network" \in Label \ Leading /\ "download" # "unlist"
    BY DEF Label, Leading
  <1>2. /\ "download" \notin Reserving /\ "network" \in Owing /\ "network" \notin Trusting
        /\ "network" \notin Reserving
    BY DEF Owing, Reserving, Trusting
  <1>3. Free(f) /\ op[f] \in ShapedCall
    BY <1>1, FreeAt DEF Download, Typed
  <1>4. Plain
    BY <1>3 DEF Download, Plain, Typed, Free
  <1>5. o \in ShapedCall /\ o.todo = <<"network">> /\ ~o.waiting /\ o.job = op[f].job
        /\ o.path = op[f].path
    <2>1. <<"network">> \in ShapedTodo /\ <<"network">> \in Seq(Label) /\ <<"network">> # << >>
      BY <1>1, OneTodo DEF ShapedTodo
    <2>2. op[f] \in CallRecord /\ op[f].phase + 1 \in Nat /\ op[f].job \in Job /\ ~op[f].waiting
      BY <1>3 DEF ShapedCall, CallRecord, Free
    <2>3. o \in CallRecord /\ o.todo = <<"network">> /\ ~o.waiting /\ o.job = op[f].job
        /\ o.path = op[f].path
      BY <2>1, <2>2 DEF CallRecord
    <2>4. QED
      BY <2>1, <2>2, <2>3, ReleaseAssumption DEF ShapedCall
  <1>6. op' = [op EXCEPT ![f] = o]
    BY DEF Download, Typed
  <1>7. QED
    BY <1>1, <1>2, <1>3, <1>4, <1>5, <1>6, FreeAt, OneTodo, PlainGo DEF Download

LEMMA NetworkStep ==
    ASSUME Typed, NEW f \in Fiber, Network(f)
    PROVE  Steps(f)
  <1>1. "network" \in Label \ Leading /\ "downloaded" \in Label \ Leading /\ "network" # "unlist"
    BY DEF Label, Leading
  <1>2. "network" \notin Reserving /\ "downloaded" \in Owing /\ "downloaded" \notin Trusting
    BY DEF Owing, Reserving, Trusting
  <1>3. At(f, "network")
    BY DEF Network
  <1>4. Free(f) /\ op[f].todo # <<"unlist">> /\ ~EndsIn(op[f].todo, Reserving) /\ J(f) \in JobRecord /\ op[f].job \in Job
    BY <1>1, <1>2, <1>3, FreeAt
  <1>5. CASE Aborted(f) /\ UNCHANGED controller
    <2>1. Plain
      BY <1>5, KeepsControllers DEF Network, Plain
    <2>2. QED
      BY <1>4, <1>5, <2>1, AbortedSteps
  <1>6. CASE Save(f, J(f), <<"downloaded">>) /\ UNCHANGED controller
    <2>1. Plain
      BY <1>6, KeepsControllers DEF Network, Plain
    <2>2. QED
      BY <1>1, <1>2, <1>4, <1>6, <2>1, OneTodo, PlainSave
  <1>7. CASE Fail(f, FALSE) /\ Unregister(f)
    <2>1. Plain
      BY <1>7, UnregisterFacts DEF Network, Plain
    <2>2. QED
      BY <1>4, <1>7, <2>1, FailSteps
  <1>8. QED
    BY <1>5, <1>6, <1>7 DEF Network

LEMMA DownloadedStep ==
    ASSUME Typed, NEW f \in Fiber, Downloaded(f)
    PROVE  Steps(f)
  <1>1. /\ "downloaded" \in Label \ Leading /\ "download" \in Label \ Leading
        /\ "verify" \in Label \ Leading /\ "downloaded" # "unlist"
    BY DEF Label, Leading
  <1>2. /\ "downloaded" \notin Reserving /\ "download" \in Owing /\ "verify" \in Owing
        /\ "download" \notin Trusting /\ "verify" \notin Trusting
    BY DEF Owing, Reserving, Trusting
  <1>3. /\ Free(f) /\ op[f].todo # <<"unlist">> /\ ~EndsIn(op[f].todo, Reserving)
        /\ J(f) \in JobRecord /\ op[f].job \in Job
    BY <1>1, <1>2, FreeAt DEF Downloaded
  <1>4. Plain
    BY UnregisterFacts DEF Downloaded, Plain
  <1>5. CASE /\ op[f].phase < Len(Downloads)
             /\ Save(f, In(J(f), Downloads[op[f].phase + 1]), <<"download">>)
    <2>1. op[f].phase \in Nat
      BY DEF Typed, ShapedCall, CallRecord
    <2>2. Downloads[op[f].phase + 1] \in Downloading
      BY <1>5, <2>1, ReleaseAssumption
    <2>3. /\ Downloads[op[f].phase + 1] \in Terminal \cup Active
          /\ Downloads[op[f].phase + 1] # "ready"
      BY <2>2 DEF Active, Downloading
    <2>4. QED
      BY <1>1, <1>2, <1>3, <1>4, <1>5, <2>3, InFacts, OneTodo, PlainSave
  <1>6. CASE Fail(f, TRUE)
    BY <1>3, <1>4, <1>6, FailSteps
  <1>7. CASE Save(f, In(J(f), "verifying"), <<"verify">>)
    <2>1. "verifying" \in Terminal \cup Active /\ "verifying" # "ready"
      BY DEF Active
    <2>2. QED
      BY <1>1, <1>2, <1>3, <1>4, <1>7, <2>1, InFacts, OneTodo, PlainSave
  <1>8. CASE Fail(f, FALSE)
    BY <1>3, <1>4, <1>8, FailSteps
  <1>9. QED
    BY <1>5, <1>6, <1>7, <1>8 DEF Downloaded

LEMMA CancelledStep ==
    ASSUME Typed, NEW f \in Fiber, Cancelled(f)
    PROVE  Steps(f)
  <1>1. "cancelled" \in Label \ Leading /\ "cancelled" \notin Reserving /\ "cancelled" # "unlist"
    BY DEF Label, Leading, Reserving
  <1>2. Free(f) /\ op[f].todo # <<"unlist">> /\ ~EndsIn(op[f].todo, Reserving)
    BY <1>1, FreeAt DEF Cancelled
  <1>3. Plain
    BY UnregisterFacts DEF Cancelled, Plain
  <1>4. QED
    BY <1>2, <1>3, FailSteps DEF Cancelled

LEMMA VerifyStep ==
    ASSUME Typed, NEW f \in Fiber, Verify(f)
    PROVE  Steps(f)
  <1>1. "verify" \in Label \ Leading /\ "stage" \in Label \ Leading /\ "verify" # "unlist"
    BY DEF Label, Leading
  <1>2. "verify" \notin Reserving /\ "stage" \in Owing /\ "stage" \notin Trusting
    BY DEF Owing, Reserving, Trusting
  <1>3. /\ Free(f) /\ op[f].todo # <<"unlist">> /\ ~EndsIn(op[f].todo, Reserving)
        /\ J(f) \in JobRecord /\ op[f].job \in Job
    BY <1>1, <1>2, FreeAt DEF Verify
  <1>4. Plain
    BY KeepsControllers DEF Verify, Plain
  <1>5. CASE Save(f, In(J(f), "staging"), <<"stage">>)
    <2>1. "staging" \in Terminal \cup Active /\ "staging" # "ready"
      BY DEF Active
    <2>2. QED
      BY <1>1, <1>2, <1>3, <1>4, <1>5, <2>1, InFacts, OneTodo, PlainSave
  <1>6. CASE Fail(f, FALSE)
    BY <1>3, <1>4, <1>6, FailSteps
  <1>7. QED
    BY <1>5, <1>6 DEF Verify

LEMMA StageStep ==
    ASSUME Typed, NEW f \in Fiber, Stage(f)
    PROVE  Steps(f)
  <1> DEFINE r == [In(J(f), "ready") EXCEPT !.verified = TRUE]
  <1>1. "stage" \in Label \ Leading /\ "staged" \in Label \ Leading /\ "log" \in Leading /\ "stage" # "unlist"
    BY DEF Label, Leading
  <1>2. "stage" \notin Reserving /\ "staged" \notin Trusting
    BY DEF Reserving, Trusting
  <1>3. /\ Free(f) /\ op[f].todo # <<"unlist">> /\ ~EndsIn(op[f].todo, Reserving)
        /\ J(f) \in JobRecord /\ op[f].job \in Job
    BY <1>1, <1>2, FreeAt DEF Stage
  <1>4. Plain
    BY KeepsControllers DEF Stage, Plain
  <1>5. CASE Save(f, r, <<"log", "staged">>)
    <2>1. r \in JobRecord /\ r.verified /\ r.state = "ready" /\ (Sound(op[f].job, J(f)) => Sound(op[f].job, r))
      BY <1>3 DEF In, JobRecord, Sound, Terminal
    <2>2. r.state \notin Active
      BY <2>1 DEF Active, Downloading
    <2>3. QED
      BY <1>1, <1>2, <1>3, <1>4, <1>5, <2>1, <2>2, TwoTodo, PlainSave
  <1>6. CASE Fail(f, FALSE)
    BY <1>3, <1>4, <1>6, FailSteps
  <1>7. QED
    BY <1>5, <1>6 DEF Stage

-----------------------------------------------------------------------------
(* The calls *)

LEMMA CallFrame ==
    ASSUME Typed, NEW f \in Fiber, NEW j \in Job, op[f] = Idle,
           UNCHANGED <<disk, controller, target, backups, adapter>>, lifecycle' \in Job \cup {None},
           displaced' \in [Job -> SUBSET Aside]
    PROVE  /\ Confined(f, j) /\ dropped' = dropped /\ target' = target /\ backups' = backups
           /\ op[f].todo # <<"unlist">> /\ \A L : ~EndsIn(op[f].todo, L)
           /\ op[f].job # j /\ op[f].path = 0 /\ job[j] \in JobRecord
  <1>1. Kept
    BY SameBackups
  <1>2. QED
    BY <1>1, IdleCall, NoTodo, ReleaseAssumption DEF Typed, Confined, adapter

LEMMA CallSave ==
    ASSUME Typed, NEW f \in Fiber, NEW j \in Job, op[f] = Idle,
           UNCHANGED <<disk, controller, target, backups, adapter>>, displaced' \in [Job -> SUBSET Aside],
           listed \subseteq listed', listed' \subseteq listed \cup {j},
           NEW kind \in {"snapshot", "archive"}, NEW r \in JobRecord, NEW s \in ShapedTodo, s # << >>,
           Await(f, j, kind, r, s), kind = "archive" => s = <<"unlist">>,
           lifecycle' = lifecycle \/ (lifecycle' = j /\ EndsIn(s, Reserving)),
           r.state \in Active => r.state = job[j].state \/ EndsIn(s, Owing),
           ~EndsIn(s, Trusting), Sound(j, job[j]) => Sound(j, r) /\ (job[j].verified => r.verified)
    PROVE  Steps(f)
  <1>1. /\ Confined(f, j) /\ dropped' = dropped /\ target' = target /\ backups' = backups
        /\ op[f].todo # <<"unlist">> /\ (\A L : ~EndsIn(op[f].todo, L)) /\ op[f].path = 0
    BY CallFrame DEF Typed
  <1>2. Hands(f, j, r, s)
    BY <1>1 DEF Hands
  <1>3. Trusts(f, j, r, s, op[f].path)
    BY <1>1, NoPath DEF Trusts
  <1>4. QED
    BY <1>1, <1>2, <1>3, AwaitSteps

LEMMA StartPrepareStep ==
    ASSUME Typed, NEW f \in Fiber, NEW j \in Job, StartPrepare(f, j)
    PROVE  Steps(f)
  <1>1. "run" \in Label \ Leading /\ "log" \in Leading /\ "run" \in Owing /\ "run" \notin Trusting
    BY DEF Label, Leading, Owing, Trusting
  <1>2. In(NoJob, "queued") \in JobRecord
    BY NoJobRecord DEF In, JobRecord, Active
  <1>3. Sound(j, job[j]) => Sound(j, In(NoJob, "queued")) /\ ~job[j].verified
    BY NoPath DEF StartPrepare, Sound, In, NoJob
  <1>4. displaced' \in [Job -> SUBSET Aside]
    BY DEF StartPrepare, Typed
  <1>5. QED
    BY <1>1, <1>2, <1>3, <1>4, TwoTodo, CallSave DEF StartPrepare

LEMMA ResumeStep ==
    ASSUME Typed, NEW f \in Fiber, NEW j \in Job, Resume(f, j)
    PROVE  Steps(f)
  <1> DEFINE r == [In(job[j], "queued") EXCEPT !.cancel = FALSE]
  <1>1. /\ "run" \in Label \ Leading /\ "closed" \in Label \ Leading /\ "log" \in Leading
        /\ "run" \in Owing /\ "run" \notin Trusting /\ "closed" \notin Trusting
    BY DEF Label, Leading, Owing, Trusting
  <1>2. job[j] \in JobRecord
    BY DEF Typed
  <1>3. CASE Await(f, j, "snapshot", r, <<"log", "run">>)
    <2>1. r \in JobRecord /\ r.verified = job[j].verified /\ (Sound(j, job[j]) => Sound(j, r))
      BY <1>2 DEF In, JobRecord, Active, Sound
    <2>2. QED
      BY <1>1, <1>3, <2>1, TwoTodo, CallSave, SameSite DEF Resume, site
  <1>4. CASE Await(f, j, "snapshot", In(job[j], "failed"), <<"log", "closed">>)
    <2>1. "failed" \in Terminal \cup Active /\ "failed" \notin Active /\ "failed" # "ready"
      BY DEF Terminal, Active, Downloading
    <2>2. QED
      BY <1>1, <1>2, <1>4, <2>1, InFacts, TwoTodo, CallSave, SameSite DEF Resume, site
  <1>5. QED
    BY <1>3, <1>4 DEF Resume

LEMMA CancelStep ==
    ASSUME Typed, NEW f \in Fiber, NEW j \in Job, Cancel(f, j)
    PROVE  Steps(f)
  <1> DEFINE g == controller[j]
             o == [Idle EXCEPT !.job = j, !.todo = <<"abort">>, !.waiting = TRUE,
                        !.ref = g, !.phase = IF g = None THEN 0 ELSE op[g].phase]
             r == [job[j] EXCEPT !.cancel = TRUE]
             x == [who |-> f, kind |-> "log", rec |-> NoJob]
  <1>1. "abort" \in Label \ Leading /\ "abort" \notin Trusting
    BY DEF Label, Leading, Trusting
  <1>2. /\ Confined(f, j) /\ dropped' = dropped /\ target' = target /\ backups' = backups /\ lifecycle' = lifecycle
        /\ op[f].todo # <<"unlist">> /\ \A L : ~EndsIn(op[f].todo, L) /\ listed' = listed
        /\ op[f].job # j /\ job[j] \in JobRecord
    BY CallFrame, SameSite DEF Cancel, site, Typed
  <1>3. (IF g = None THEN 0 ELSE op[g].phase) \in Nat /\ g \in Fiber \cup {None}
    BY DEF Typed, ShapedCall, CallRecord
  <1>4. /\ <<"abort">> \in ShapedTodo /\ <<"abort">> \in Seq(Label) /\ <<"abort">> # << >>
        /\ ~EndsIn(<<"abort">>, Trusting)
    BY <1>1, OneTodo DEF ShapedTodo
  <1>5. o \in ShapedCall /\ o.job = j /\ o.todo = <<"abort">> /\ o.waiting /\ o.path = 0
    BY <1>3, <1>4, ReleaseAssumption DEF Idle, ShapedCall, CallRecord, Aside
  <1>6. r \in JobRecord /\ x \in Entry /\ r.state = job[j].state /\ r.verified = job[j].verified
        /\ (Sound(j, job[j]) => Sound(j, r))
    BY <1>2, NoJobRecord DEF JobRecord, Entry, Sound
  <1>7. job' = [job EXCEPT ![j] = r] /\ queue' = [queue EXCEPT ![j] = Append(@, x)]
        /\ op' = [op EXCEPT ![f] = o]
    BY DEF Cancel, Typed
  <1>8. Moves(f, o)
    BY <1>5, <1>7 DEF Moves, Typed
  <1>9. Hands(f, j, r, o.todo) /\ Trusts(f, j, r, o.todo, o.path)
    BY <1>2, <1>4, <1>5, <1>6, NoPath DEF Hands, Trusts
  <1>10. Writes(f, j, o, r, x)
    BY <1>2, <1>5, <1>7, <1>8, <1>9 DEF Writes
  <1>11. QED
    BY <1>2, <1>5, <1>6, <1>10 DEF Steps

LEMMA AbortStep ==
    ASSUME Typed, NEW f \in Fiber, Abort(f)
    PROVE  Steps(f)
  <1>1. /\ "abort" \in Label \ Leading /\ "abort" # "unlist"
        /\ "abort" \notin Owing /\ "abort" \notin Reserving
    BY DEF Label, Leading, Owing, Reserving
  <1>2. /\ Free(f) /\ op[f].todo # <<"unlist">> /\ ~EndsIn(op[f].todo, Owing)
        /\ ~EndsIn(op[f].todo, Reserving)
    BY <1>1, FreeAt DEF Abort
  <1>3. Plain /\ UNCHANGED <<job, queue>>
    BY KeepsControllers DEF Abort, Plain
  <1>4. /\ Confined(f, op[f].job) /\ dropped' = dropped /\ lifecycle' = lifecycle
        /\ Emptied /\ listed' = listed /\ J(f) = job[op[f].job]
    BY <1>2, <1>3, PlainFrame
  <1>5. Moves(f, Idle)
    <2>1. PICK g \in Fiber \cup {None}, hit \in BOOLEAN :
             /\ hit => g # None /\ At(g, "network")
             /\ op' = [h \in Fiber |-> IF h = f THEN Idle
                                       ELSE IF hit /\ h = g THEN [op[g] EXCEPT !.aborted = TRUE]
                                       ELSE op[h]]
      BY DEF Abort, Typed, ShapedCall, CallRecord
    <2>2. ASSUME NEW h \in Fiber, At(h, "network") PROVE [op[h] EXCEPT !.aborted = TRUE] \in ShapedCall
      <3>1. op[h] \in ShapedCall /\ op[h].job \in Job
        BY <2>2, AtFacts DEF Typed, Label, Leading
      <3>2. QED
        BY <3>1, ReleaseAssumption DEF ShapedCall, CallRecord
    <2>3. QED
      BY <2>1, <2>2, IdleCall, ReleaseAssumption DEF Moves, Typed
  <1>6. Hands(f, op[f].job, J(f), << >>) /\ Trusts(f, op[f].job, J(f), << >>, 0)
    BY <1>2, <1>4, NoTodo, NoPathLater DEF Hands, Trusts, Confined, Emptied
  <1>7. Goes(f, op[f].job, Idle)
    BY <1>2, <1>3, <1>4, <1>5, <1>6, IdleCall DEF Goes
  <1>8. QED
    BY <1>2, <1>4, <1>7, IdleCall DEF Steps, Free

LEMMA DeleteStep ==
    ASSUME Typed, NEW f \in Fiber, NEW j \in Job, Delete(f, j)
    PROVE  Steps(f)
  <1>1. "unlist" \in Label \ Leading /\ "unlist" \notin Trusting
    BY DEF Label, Leading, Trusting
  <1>2. job[j] \in JobRecord
    BY DEF Typed
  <1>3. QED
    BY <1>1, <1>2, OneTodo, CallSave, SameSite DEF Delete, site

LEMMA UnlistStep ==
    ASSUME Typed, NEW f \in Fiber, Unlist(f)
    PROVE  Steps(f)
  <1>1. "unlist" \in Label \ Leading /\ "unlist" \notin Owing /\ "unlist" \notin Reserving
    BY DEF Label, Leading, Owing, Reserving
  <1>2. /\ Free(f) /\ ~EndsIn(op[f].todo, Owing) /\ ~EndsIn(op[f].todo, Reserving)
    BY <1>1, FreeAt DEF Unlist
  <1>3. /\ Confined(f, op[f].job) /\ dropped' = dropped /\ lifecycle' = lifecycle
        /\ target' = target /\ J(f) = job[op[f].job]
    BY <1>2, UnregisterFacts, SameSite DEF Unlist, Confined, Free, J, Typed, adapter
  <1>4. Hands(f, op[f].job, J(f), << >>) /\ Trusts(f, op[f].job, J(f), << >>, 0)
    BY <1>2, <1>3, NoTodo, NoPathLater DEF Hands, Trusts, Confined
  <1>5. QED
    BY <1>3, <1>4, DoneSteps DEF Unlist

LEMMA InstallStep ==
    ASSUME Typed, NEW f \in Fiber, NEW j \in Job, Install(f, j)
    PROVE  Steps(f)
  <1>1. /\ "dialog" \in Label \ Leading /\ "closed" \in Label \ Leading /\ "log" \in Leading
        /\ "challenge" \in Leading /\ "closed" \notin Trusting
    BY DEF Label, Leading, Trusting
  <1>2. job[j] \in JobRecord
    BY DEF Typed
  <1>3. CASE /\ op' = [op EXCEPT ![f] = [Idle EXCEPT !.job = j, !.todo = <<"challenge", "dialog">>]]
             /\ UNCHANGED <<job, queue>>
    <2> DEFINE o == [Idle EXCEPT !.job = j, !.todo = <<"challenge", "dialog">>]
    <2>1. <<"challenge", "dialog">> \in ShapedTodo /\ <<"challenge", "dialog">> \in Seq(Label)
          /\ <<"challenge", "dialog">> # << >>
      BY <1>1, TwoTodo DEF ShapedTodo
    <2>2. o \in ShapedCall /\ o.job = j /\ ~o.waiting /\ o.path = 0
      BY <2>1, ReleaseAssumption DEF Idle, ShapedCall, CallRecord, Aside
    <2>3. /\ Confined(f, j) /\ dropped' = dropped /\ target' = target /\ backups' = backups /\ lifecycle' = lifecycle
          /\ op[f].todo # <<"unlist">> /\ \A L : ~EndsIn(op[f].todo, L) /\ listed' = listed
      BY CallFrame, SameSite DEF Install, site, Typed
    <2>4. Hands(f, j, job[j], o.todo)
      BY <2>3 DEF Hands
    <2>5. Trusts(f, j, job[j], o.todo, o.path)
      BY <2>2, <2>3, NoPath DEF Trusts, Install, Sound
    <2>6. QED
      BY <1>3, <2>2, <2>3, <2>4, <2>5, GoSteps
  <1>4. CASE Await(f, j, "snapshot", job[j], <<"log", "closed">>)
    BY <1>1, <1>2, <1>4, TwoTodo, CallSave, SameSite DEF Install, site
  <1>5. QED
    BY <1>3, <1>4 DEF Install

LEMMA RollbackStep ==
    ASSUME Typed, NEW f \in Fiber, NEW j \in Job, Rollback(f, j)
    PROVE  Steps(f)
  <1>1. /\ "request" \in Label \ Leading /\ "request" \in Owing /\ "request" \in Reserving
        /\ "request" \notin Trusting
    BY DEF Label, Leading, Owing, Reserving, Trusting
  <1>2. job[j] \in JobRecord /\ "rolling-back" \in Terminal \cup Active
    BY DEF Typed, Active
  <1>3. QED
    BY <1>1, <1>2, InFacts, OneTodo, CallSave, SameSite DEF Rollback, site

-----------------------------------------------------------------------------
(* The steps of an installation and of a rollback *)

\* A fiber in an installation or a rollback keeps what it has reserved.
LEMMA PlainAt ==
    ASSUME Typed, NEW f \in Fiber, NEW l \in Label \ (Leading \cup {"unlist"}), At(f, l), Plain,
           NEW s \in ShapedTodo, s # << >>, l \in Owing => EndsIn(s, Owing),
           l \in Reserving => EndsIn(s, Reserving), ~EndsIn(s, Trusting),
           \/ LogThen(f, s)
           \/ \E r \in JobRecord : /\ Save(f, r, s) /\ (r.state \in Active => r.state = J(f).state)
                                   /\ r.verified = J(f).verified /\ (Sound(op[f].job, J(f)) => Sound(op[f].job, r))
    PROVE  Steps(f)
  <1>1. /\ Free(f) /\ op[f].todo # <<"unlist">> /\ J(f) \in JobRecord
        /\ EndsIn(op[f].todo, Owing) <=> l \in Owing
        /\ EndsIn(op[f].todo, Reserving) <=> l \in Reserving
    BY FreeAt
  <1>2. CASE LogThen(f, s)
    BY <1>1, <1>2, PlainLog
  <1>3. ASSUME NEW r \in JobRecord, Save(f, r, s), r.state \in Active => r.state = J(f).state,
               r.verified = J(f).verified, Sound(op[f].job, J(f)) => Sound(op[f].job, r)
        PROVE  Steps(f)
    BY <1>1, <1>3, PlainSave
  <1>4. QED
    BY <1>2, <1>3

LEMMA SeesFacts ==
    ASSUME Typed, NEW f \in Fiber, op[f].job \in Job
    PROVE  /\ Sees(f) \in Sight
           /\ Sees(f).backup \notin {"none", "used"} => Sees(f).backup \in Content
           /\ Sees(f).backup = "new" => op[f].path \in Releases(backups[op[f].job])
  <1> DEFINE b == backups[op[f].job]
  <1>1. b \in Seq(Content \cup {"used"}) /\ target[op[f].job] \in Content
    BY DEF Typed
  <1>2. PICK n \in Nat : DOMAIN b = 1 .. n /\ \A k \in 1 .. n : b[k] \in Content \cup {"used"}
    BY <1>1
  <1>3. Backup(op[f].job, op[f].path) \in Content \cup {"used", "none"}
    BY <1>2 DEF Backup
  <1>4. Backup(op[f].job, op[f].path) = "new" => op[f].path \in Releases(b)
    BY DEF Backup, Releases
  <1>5. QED
    BY <1>1, <1>3, <1>4 DEF Sees, Sight

LEMMA ChallengeStep ==
    ASSUME Typed, NEW f \in Fiber, Challenge(f)
    PROVE  Steps(f)
  <1> DEFINE o == [op[f] EXCEPT !.todo = Tail(@), !.seen = Sees(f)]
  <1>1. op[f] \in ShapedCall /\ op[f].todo \in ShapedTodo /\ op[f].todo # << >>
        /\ Head(op[f].todo) = "challenge" /\ ~op[f].waiting
    BY DEF Typed, Challenge, At, ShapedCall
  <1>2. Free(f) /\ op[f].todo # <<"unlist">>
    BY <1>1 DEF ShapedCall, CallRecord, Idle, Free
  <1>3. Plain
    BY KeepsControllers DEF Challenge, Plain
  <1>4. /\ Tail(op[f].todo) \in ShapedTodo /\ Tail(op[f].todo) # << >>
        /\ \A L : EndsIn(Tail(op[f].todo), L) <=> EndsIn(op[f].todo, L)
    BY <1>1, TailTodo DEF Leading
  <1>5. o \in ShapedCall /\ o.todo = Tail(op[f].todo) /\ ~o.waiting /\ o.job = op[f].job
        /\ o.path = op[f].path
    <2>1. Sees(f) \in Sight
      BY <1>2, SeesFacts DEF Free
    <2>2. Tail(op[f].todo) \in Seq(Label)
      BY <1>4 DEF ShapedTodo
    <2>3. o \in CallRecord /\ o.todo = Tail(op[f].todo) /\ ~o.waiting /\ o.job = op[f].job
          /\ o.path = op[f].path
      BY <1>1, <2>1, <2>2 DEF ShapedCall, CallRecord
    <2>4. QED
      BY <1>2, <1>4, <2>3, ReleaseAssumption DEF ShapedCall, Free
  <1>6. op' = [op EXCEPT ![f] = o]
    BY DEF Challenge, Typed
  <1>7. QED
    BY <1>2, <1>3, <1>4, <1>5, <1>6, PlainGo DEF Challenge

LEMMA DialogStep ==
    ASSUME Typed, NEW f \in Fiber, Dialog(f)
    PROVE  Steps(f)
  <1> DEFINE r == [In(J(f), "installing") EXCEPT !.cancel = FALSE]
  <1>1. /\ "dialog" \in Label \ Leading /\ "helper" \in Label \ Leading /\ "log" \in Leading
        /\ "dialog" # "unlist" /\ "dialog" \notin Owing /\ "dialog" \notin Reserving
        /\ "helper" \in Owing /\ "helper" \in Reserving /\ "dialog" \in Trusting
    BY DEF Label, Leading, Owing, Reserving, Trusting
  <1>2. /\ Free(f) /\ op[f].todo # <<"unlist">> /\ J(f) \in JobRecord
        /\ ~EndsIn(op[f].todo, Owing) /\ ~EndsIn(op[f].todo, Reserving) /\ EndsIn(op[f].todo, Trusting)
    BY <1>1, FreeAt DEF Dialog
  <1>3. CASE Done(f) /\ UNCHANGED lifecycle
    <2>1. Plain
      BY <1>3, KeepsControllers DEF Dialog, Plain
    <2>2. QED
      BY <1>2, <1>3, <2>1, PlainDone
  <1>4. CASE lifecycle' = op[f].job /\ Save(f, r, <<"log", "helper">>)
    <2>1. r \in JobRecord /\ r.state = "installing" /\ r.verified = J(f).verified
          /\ (Sound(op[f].job, J(f)) => Sound(op[f].job, r))
      BY <1>2 DEF In, JobRecord, Active, Sound
    <2>2. /\ Confined(f, op[f].job) /\ dropped' = dropped /\ Emptied /\ listed' = listed
          /\ J(f) = job[op[f].job] /\ op[f].job # None
      BY <1>2, <1>4, SameSite, ReleaseAssumption DEF Dialog, Confined, Free, J, Typed, adapter
    <2>3. <<"log", "helper">> \in ShapedTodo /\ <<"log", "helper">> # << >>
          /\ EndsIn(<<"log", "helper">>, Owing) /\ EndsIn(<<"log", "helper">>, Reserving)
      BY <1>1, TwoTodo
    <2>4. Hands(f, op[f].job, r, <<"log", "helper">>)
      BY <1>2, <1>4, <2>2, <2>3 DEF Hands
    <2>5. Trusts(f, op[f].job, r, <<"log", "helper">>, op[f].path)
      BY <1>2, <2>1, <2>2 DEF Trusts, Trusted, Emptied
    <2>6. QED
      BY <1>2, <1>4, <2>1, <2>2, <2>3, <2>4, <2>5, AwaitSteps DEF Save, Free
  <1>5. QED
    BY <1>3, <1>4 DEF Dialog

LEMMA AppendBackup ==
    ASSUME NEW b \in Seq(Content \cup {"used"}), NEW c \in Content
    PROVE  /\ Append(b, c) \in Seq(Content \cup {"used"})
           /\ Len(b) \in Nat /\ Len(Append(b, c)) = Len(b) + 1 /\ DOMAIN b = 1 .. Len(b)
           /\ \A k \in 1 .. Len(b) : Append(b, c)[k] = b[k]
  OBVIOUS

\* The helper sets the target aside under the next number, and puts the release there.
LEMMA InstalledSteps ==
    ASSUME Typed, NEW f \in Fiber, NEW j \in Job, op[f].job = j, At(f, "helper"),
           NEW next \in {"receipt", "recover"},
           target' = [target EXCEPT ![j] = "new"],
           backups' = [backups EXCEPT ![j] = Append(@, target[j])],
           queue' = [queue EXCEPT ![j] = Append(@, [who |-> f, kind |-> "log", rec |-> NoJob])],
           op' = [op EXCEPT ![f].todo = <<next>>, ![f].waiting = TRUE,
                            ![f].path = Len(backups[j]) + 1],
           UNCHANGED <<job, displaced, listed, disk, lifecycle, controller, adapter>>
    PROVE  Steps(f)
  <1> DEFINE n == Len(backups[j])
             o == [op[f] EXCEPT !.todo = <<next>>, !.waiting = TRUE, !.path = n + 1]
             x == [who |-> f, kind |-> "log", rec |-> NoJob]
  <1>1. /\ "helper" \in Label \ Leading /\ next \in Label \ Leading /\ "helper" # "unlist"
        /\ "helper" \in Trusting /\ next \in Owing /\ next \in Reserving
    BY DEF Label, Leading, Owing, Reserving, Trusting
  <1>2. Free(f) /\ op[f].todo # <<"unlist">> /\ EndsIn(op[f].todo, Trusting) /\ j # None
    BY <1>1, FreeAt, ReleaseAssumption
  <1>3. /\ <<next>> \in ShapedTodo /\ <<next>> \in Seq(Label) /\ <<next>> # << >>
        /\ EndsIn(<<next>>, Owing) /\ EndsIn(<<next>>, Reserving)
    BY <1>1, OneTodo DEF ShapedTodo
  <1>4. /\ n \in Nat /\ backups'[j] \in Seq(Content \cup {"used"}) /\ Len(backups'[j]) = n + 1
        /\ DOMAIN backups[j] = 1 .. n /\ \A k \in 1 .. n : backups'[j][k] = backups[j][k]
    <2>1. backups[j] \in Seq(Content \cup {"used"}) /\ target[j] \in Content
          /\ backups'[j] = Append(backups[j], target[j])
      BY DEF Typed
    <2>2. QED
      BY <2>1, AppendBackup
  <1>5. Kept
    <2>1. backups' \in [Job -> Seq(Content \cup {"used"})]
      BY <1>4 DEF Typed
    <2>2. ASSUME NEW i \in Job
          PROVE  /\ Len(backups[i]) <= Len(backups'[i])
                 /\ \A k \in DOMAIN backups[i] : backups'[i][k] \in {backups[i][k], "used"}
      <3>1. CASE i = j
        BY <1>4, <3>1
      <3>2. CASE i # j
        <4>1. backups'[i] = backups[i] /\ backups[i] \in Seq(Content \cup {"used"})
          BY <3>2 DEF Typed
        <4>2. Len(backups[i]) \in Nat
          BY <4>1
        <4>3. QED
          BY <4>1, <4>2
      <3>3. QED
        BY <3>1, <3>2
    <2>3. QED
      BY <2>1, <2>2 DEF Kept
  <1>6. Confined(f, j) /\ dropped' = dropped /\ lifecycle' = lifecycle /\ listed' = listed
    BY <1>2, <1>5 DEF Confined, Free, Typed, adapter, Content
  <1>7. o \in ShapedCall /\ o.job = j /\ o.todo = <<next>> /\ o.waiting /\ o.path = n + 1
    <2>1. op[f] \in CallRecord /\ n + 1 \in Nat
      BY <1>4 DEF Typed, ShapedCall
    <2>2. o \in CallRecord /\ o.job = j /\ o.todo = <<next>> /\ o.waiting /\ o.path = n + 1
      BY <1>3, <2>1 DEF CallRecord
    <2>3. QED
      BY <1>2, <1>3, <2>2 DEF ShapedCall
  <1>8. Moves(f, o)
    <2>1. op' = [op EXCEPT ![f] = o]
      BY DEF Typed
    <2>2. QED
      BY <1>7, <2>1 DEF Moves, Typed
  <1>9. Hands(f, j, job[j], o.todo)
    BY <1>3, <1>6, <1>7 DEF Hands
  <1>10. \A i \in Job : target'[i] = "new" /\ target[i] # "new" => i = j
    BY DEF Typed
  <1>11. Trusts(f, j, job[j], o.todo, o.path)
    BY <1>2, <1>4, <1>7, <1>10 DEF Trusts, Trusted, J
  <1>12. x \in Entry /\ job[j] \in JobRecord /\ job' = [job EXCEPT ![j] = job[j]]
    BY NoJobRecord DEF Entry, Typed
  <1>13. Writes(f, j, o, job[j], x)
    BY <1>2, <1>6, <1>7, <1>8, <1>9, <1>11, <1>12 DEF Writes
  <1>14. QED
    BY <1>6, <1>7, <1>12, <1>13 DEF Steps

LEMMA HelperStep ==
    ASSUME Typed, NEW f \in Fiber, Helper(f)
    PROVE  Steps(f)
  <1>1. /\ "helper" \in Label \ (Leading \cup {"unlist"}) /\ "recover" \in Label \ Leading
        /\ "recover" \in Owing /\ "recover" \in Reserving /\ "recover" \notin Trusting
    BY DEF Label, Leading, Owing, Reserving, Trusting
  <1>2. At(f, "helper") /\ op[f].job \in Job
    BY <1>1, FreeAt DEF Helper
  <1>3. CASE LogThen(f, <<"recover">>) /\ UNCHANGED site
    <2>1. Plain
      BY <1>3, KeepsControllers DEF Helper, Plain
    <2>2. QED
      BY <1>1, <1>2, <1>3, <2>1, OneTodo, PlainAt
  <1>4. CASE ~(LogThen(f, <<"recover">>) /\ UNCHANGED site)
    BY <1>2, <1>4, InstalledSteps DEF Helper
  <1>5. QED
    BY <1>3, <1>4

LEMMA ReceiptStep ==
    ASSUME Typed, NEW f \in Fiber, Receipt(f)
    PROVE  Steps(f)
  <1> DEFINE r == [J(f) EXCEPT !.backup = op[f].path]
  <1>1. /\ "receipt" \in Label \ Leading /\ "validate" \in Label \ Leading /\ "receipt" # "unlist"
        /\ "validate" \in Owing /\ "validate" \in Reserving /\ "validate" \notin Trusting
        /\ "receipt" \in Trusting
    BY DEF Label, Leading, Owing, Reserving, Trusting
  <1>2. /\ Free(f) /\ op[f].todo # <<"unlist">> /\ J(f) \in JobRecord /\ EndsIn(op[f].todo, Trusting)
        /\ op[f].job # None
    BY <1>1, FreeAt, ReleaseAssumption DEF Receipt
  <1>3. Plain
    BY KeepsControllers DEF Receipt, Plain
  <1>4. op[f].path \in Nat
    BY DEF Typed, ShapedCall, CallRecord
  <1>5. r \in JobRecord /\ r.state = J(f).state /\ r.verified = J(f).verified
    BY <1>2, <1>4 DEF JobRecord
  <1>6. Sound(op[f].job, J(f)) /\ Trusted(f) => Sound(op[f].job, r)
    BY <1>2, <1>5 DEF Sound, Trusted
  <1>7. QED
    BY <1>1, <1>2, <1>3, <1>5, <1>6, OneTodo, PlainSave DEF Receipt

LEMMA ValidateStep ==
    ASSUME Typed, NEW f \in Fiber, Validate(f)
    PROVE  Steps(f)
  <1>1. /\ "validate" \in Label \ (Leading \cup {"unlist"})
        /\ {"complete", "recover"} \subseteq Label \ Leading
        /\ {"complete", "recover"} \subseteq Owing /\ {"complete", "recover"} \subseteq Reserving
        /\ {"complete", "recover"} \cap Trusting = {}
    BY DEF Label, Leading, Owing, Reserving, Trusting
  <1>2. Plain /\ J(f) \in JobRecord
    BY <1>1, KeepsControllers, FreeAt DEF Validate, Plain
  <1>3. CASE Save(f, J(f), <<"complete">>)
    BY <1>1, <1>2, <1>3, OneTodo, PlainAt DEF Validate
  <1>4. CASE LogThen(f, <<"recover">>)
    BY <1>1, <1>2, <1>4, OneTodo, PlainAt DEF Validate
  <1>5. QED
    BY <1>3, <1>4 DEF Validate

LEMMA CompleteStep ==
    ASSUME Typed, NEW f \in Fiber, Complete(f)
    PROVE  Steps(f)
  <1> DEFINE r == [In(J(f), "completed") EXCEPT !.rollback = (J(f).backup # 0)]
  <1>1. /\ "complete" \in Label \ Leading /\ "completed" \in Label \ Leading /\ "log" \in Leading
        /\ "complete" # "unlist" /\ "completed" \in Reserving /\ "completed" \notin Trusting
    BY DEF Label, Leading, Reserving, Trusting
  <1>2. Free(f) /\ op[f].todo # <<"unlist">> /\ J(f) \in JobRecord
    BY <1>1, FreeAt DEF Complete
  <1>3. Plain
    BY KeepsControllers DEF Complete, Plain
  <1>4. r \in JobRecord /\ r.state \notin Active /\ r.verified = J(f).verified
        /\ (Sound(op[f].job, J(f)) => Sound(op[f].job, r))
    BY <1>2 DEF In, JobRecord, Terminal, Active, Downloading, Sound
  <1>5. QED
    BY <1>1, <1>2, <1>3, <1>4, TwoTodo, PlainSave DEF Complete

\* The catch clause ends the job, and leaves the lifecycle to the finally clause.
LEMMA SettledSteps ==
    ASSUME Typed, NEW f \in Fiber, Free(f), Plain, op[f].todo # <<"unlist">>,
           NEW rec \in JobRecord, rec.verified = J(f).verified,
           Sound(op[f].job, J(f)) => Sound(op[f].job, rec),
           NEW recovered \in BOOLEAN, Settled(f, rec, recovered)
    PROVE  Steps(f)
  <1> DEFINE r == In(rec, IF rec.cancel /\ recovered THEN "cancelled" ELSE "failed")
  <1>1. "release" \in Label \ Leading /\ "release" \in Reserving /\ "release" \notin Trusting
    BY DEF Label, Leading, Reserving, Trusting
  <1>2. r \in JobRecord /\ r.state \notin Active /\ r.verified = J(f).verified
        /\ (Sound(op[f].job, J(f)) => Sound(op[f].job, r))
    BY DEF In, JobRecord, Terminal, Active, Downloading, Sound
  <1>3. QED
    BY <1>1, <1>2, OneTodo, PlainSave DEF Settled

LEMMA RecoverStep ==
    ASSUME Typed, NEW f \in Fiber, Recover(f)
    PROVE  Steps(f)
  <1>1. /\ "recover" \in Label \ (Leading \cup {"unlist"}) /\ "restore" \in Label \ Leading
        /\ "challenge" \in Leading
        /\ "restore" \in Owing /\ "restore" \in Reserving /\ "restore" \notin Trusting
    BY DEF Label, Leading, Owing, Reserving, Trusting
  <1>2. Plain /\ J(f) \in JobRecord /\ Free(f) /\ op[f].todo # <<"unlist">>
    BY <1>1, KeepsControllers, FreeAt DEF Recover, Plain
  <1>3. CASE AskRestore(f, "failed", <<"challenge", "restore">>)
    BY <1>1, <1>2, <1>3, TwoTodo, PlainAsk DEF Aside
  <1>4. CASE Settled(f, J(f), TRUE)
    BY <1>2, <1>4, SettledSteps
  <1>5. QED
    BY <1>3, <1>4 DEF Recover

LEMMA UseBackup ==
    ASSUME NEW b \in Seq(Content \cup {"used"}), NEW p, NEW c,
           c = [k \in DOMAIN b |-> IF k = p THEN "used" ELSE b[k]]
    PROVE  /\ c \in Seq(Content \cup {"used"}) /\ Len(b) \in Nat /\ Len(c) = Len(b)
           /\ \A k \in DOMAIN b : c[k] \in {b[k], "used"}
  <1>1. PICK n \in Nat : n = Len(b) /\ DOMAIN b = 1 .. n /\ \A k \in 1 .. n : b[k] \in Content \cup {"used"}
    OBVIOUS
  <1>2. c \in [1 .. n -> Content \cup {"used"}]
    BY <1>1
  <1>3. c \in Seq(Content \cup {"used"}) /\ Len(c) = n
    BY <1>2
  <1>4. QED
    BY <1>1, <1>3

\* What the rollback moves back to the target was verified if it is a release.
LEMMA RolledBackSteps ==
    ASSUME Typed, NEW f \in Fiber, NEW j \in Job, op[f].job = j,
           Free(f), op[f].todo # <<"unlist">>, RolledBack(f),
           UNCHANGED <<listed, disk, lifecycle, controller, adapter>>,
           NEW a \in Label \ Leading, a \in Owing, a \in Reserving, a \notin Trusting,
           Save(f, Restored(f), <<a>>)
    PROVE  Steps(f)
  <1> DEFINE r == Restored(f)
             saved == Sees(f).backup
             p == op[f].path
  <1>1. J(f) = job[j] /\ J(f) \in JobRecord /\ j # None
    BY ReleaseAssumption DEF Typed, J
  <1>2. /\ saved \notin {"none", "used"} => saved \in Content
        /\ saved = "new" => p \in Releases(backups[j])
    BY SeesFacts
  <1>3. /\ target' \in [Job -> Content]
        /\ \A i \in Job : target'[i] = "new" /\ target[i] # "new" => i = j /\ saved = "new"
    <2>1. target' = [target EXCEPT ![j] = CASE saved = "none" -> "gone" [] saved = "used" -> target[j]
                                              [] OTHER -> saved]
      BY DEF RolledBack
    <2>2. target'[j] = (IF saved = "none" THEN "gone" ELSE IF saved = "used" THEN target[j] ELSE saved)
      BY <2>1 DEF Typed
    <2>3. target'[j] \in Content /\ (target'[j] = "new" /\ target[j] # "new" => saved = "new")
      BY <1>2, <2>2 DEF Typed, Content
    <2>4. \A i \in Job \ {j} : target'[i] = target[i]
      BY <2>1 DEF Typed
    <2>5. target' \in [Job -> Content]
      BY <2>1, <2>3, <2>4 DEF Typed
    <2>6. QED
      BY <2>3, <2>4, <2>5
  <1>4. Kept
    <2>1. backups' = [backups EXCEPT ![j] = [k \in DOMAIN backups[j] |->
                                                 IF k = p THEN "used" ELSE backups[j][k]]]
      BY DEF RolledBack
    <2>2. /\ backups'[j] = [k \in DOMAIN backups[j] |-> IF k = p THEN "used" ELSE backups[j][k]]
          /\ backups[j] \in Seq(Content \cup {"used"})
      BY <2>1 DEF Typed
    <2>3. /\ backups'[j] \in Seq(Content \cup {"used"}) /\ Len(backups'[j]) = Len(backups[j])
          /\ Len(backups[j]) \in Nat
          /\ \A k \in DOMAIN backups[j] : backups'[j][k] \in {backups[j][k], "used"}
      BY <2>2, UseBackup
    <2>4. backups' \in [Job -> Seq(Content \cup {"used"})]
      BY <2>1, <2>2, <2>3 DEF Typed
    <2>5. ASSUME NEW i \in Job \ {j}
          PROVE  /\ backups'[i] = backups[i] /\ Len(backups[i]) \in Nat
      <3>1. backups'[i] = backups[i] /\ backups[i] \in Seq(Content \cup {"used"})
        BY <2>1 DEF Typed
      <3>2. QED
        BY <3>1
    <2>6. QED
      BY <2>3, <2>4, <2>5 DEF Kept
  <1>5. displaced' \in [Job -> SUBSET Aside]
    <2>1. op[f].aside \in Aside
      BY DEF Typed, ShapedCall, CallRecord
    <2>2. QED
      BY <2>1 DEF RolledBack, Typed
  <1>6. /\ Confined(f, j) /\ dropped' = dropped /\ lifecycle' = lifecycle /\ listed' = listed
    BY <1>3, <1>4, <1>5 DEF Confined, Free, Typed, adapter
  <1>7. r \in JobRecord /\ r.state = J(f).state /\ r.verified = J(f).verified
        /\ (Sound(j, J(f)) => Sound(j, r))
    BY <1>1, NoPath DEF Restored, JobRecord, Sound
  <1>8. <<a>> \in ShapedTodo /\ <<a>> # << >> /\ EndsIn(<<a>>, Owing) /\ EndsIn(<<a>>, Reserving)
        /\ ~EndsIn(<<a>>, Trusting)
    BY OneTodo
  <1>9. Hands(f, j, r, <<a>>)
    BY <1>1, <1>6, <1>7, <1>8 DEF Hands
  <1>10. /\ p \in Nat /\ Len(backups[j]) \in Nat /\ Len(backups'[j]) \in Nat
         /\ Len(backups[j]) <= Len(backups'[j])
         /\ p <= Len(backups[j]) /\ p \in Releases(backups'[j]) => p \in Releases(backups[j])
    BY <1>4, KeptReleases DEF Typed, ShapedCall, CallRecord
  <1>11. Trusts(f, j, r, <<a>>, p)
    BY <1>1, <1>2, <1>3, <1>7, <1>8, <1>10 DEF Trusts, Trusted
  <1>12. QED
    BY <1>1, <1>6, <1>7, <1>8, <1>9, <1>11, AwaitSteps DEF Save

\* A rollback whose backup is used leaves an empty target behind.
LEMMA StrandedFacts ==
    ASSUME Typed, NEW f \in Fiber, NEW j \in Job, op[f].job = j, Stranded(f)
    PROVE  Emptied
  <1>1. op[f].aside \in Aside
    BY DEF Typed, ShapedCall, CallRecord
  <1>2. displaced' \in [Job -> SUBSET Aside]
    BY <1>1 DEF Stranded, Typed
  <1>3. target' \in [Job -> Content] /\ \A i \in Job : target'[i] = "new" => target[i] = "new"
    BY DEF Stranded, Typed, Content
  <1>4. QED
    BY <1>2, <1>3 DEF Stranded, Emptied

LEMMA RestoreStep ==
    ASSUME Typed, NEW f \in Fiber, Restore(f)
    PROVE  Steps(f)
  <1>1. /\ "restore" \in Label \ (Leading \cup {"unlist"}) /\ "settle" \in Label \ Leading
        /\ "settle" \in Owing /\ "settle" \in Reserving /\ "settle" \notin Trusting
    BY DEF Label, Leading, Owing, Reserving, Trusting
  <1>2. J(f) \in JobRecord /\ Free(f) /\ op[f].todo # <<"unlist">> /\ op[f].job \in Job
    BY <1>1, FreeAt DEF Restore
  <1>3. CASE RolledBack(f) /\ Save(f, Restored(f), <<"settle">>)
    BY <1>1, <1>2, <1>3, RolledBackSteps DEF Restore
  <1>4. CASE /\ \E recovered \in BOOLEAN : Settled(f, [J(f) EXCEPT !.rollback = TRUE], recovered)
             /\ UNCHANGED site \/ Stranded(f)
    <2>1. Plain
      BY <1>2, <1>4, KeepsControllers, StrandedFacts DEF Restore, Plain
    <2>2. /\ [J(f) EXCEPT !.rollback = TRUE] \in JobRecord
          /\ [J(f) EXCEPT !.rollback = TRUE].verified = J(f).verified
          /\ Sound(op[f].job, J(f)) => Sound(op[f].job, [J(f) EXCEPT !.rollback = TRUE])
      BY <1>2 DEF JobRecord, Sound
    <2>3. QED
      BY <1>2, <1>4, <2>1, <2>2, SettledSteps
  <1>5. QED
    BY <1>3, <1>4 DEF Restore

LEMMA SettleStep ==
    ASSUME Typed, NEW f \in Fiber, Settle(f)
    PROVE  Steps(f)
  <1>1. "settle" \in Label \ (Leading \cup {"unlist"})
    BY DEF Label, Leading
  <1>2. Plain /\ J(f) \in JobRecord /\ Free(f) /\ op[f].todo # <<"unlist">>
    BY <1>1, KeepsControllers, FreeAt DEF Settle, Plain
  <1>3. QED
    BY <1>2, SettledSteps DEF Settle

LEMMA RequestStep ==
    ASSUME Typed, NEW f \in Fiber, Request(f)
    PROVE  Steps(f)
  <1>1. /\ "request" \in Label \ (Leading \cup {"unlist"}) /\ "undo" \in Label \ Leading
        /\ "challenge" \in Leading
        /\ "undo" \in Owing /\ "undo" \in Reserving /\ "undo" \notin Trusting
    BY DEF Label, Leading, Owing, Reserving, Trusting
  <1>2. Plain /\ Free(f) /\ op[f].todo # <<"unlist">>
    BY <1>1, KeepsControllers, FreeAt DEF Request, Plain
  <1>3. QED
    BY <1>1, <1>2, TwoTodo, PlainAsk DEF Request, Aside

\* A rollback ends its job in a terminal state, and leaves the lifecycle to the finally clause.
LEMMA RollbackEnds ==
    ASSUME Typed, NEW f \in Fiber, Free(f), Plain, op[f].todo # <<"unlist">>,
           NEW s \in Terminal \ {"ready"}, NEW b \in BOOLEAN,
           NEW then \in ShapedTodo, then # << >>, EndsIn(then, Reserving), ~EndsIn(then, Trusting),
           Save(f, [In(J(f), s) EXCEPT !.rollback = b], then)
    PROVE  Steps(f)
  <1> DEFINE r == [In(J(f), s) EXCEPT !.rollback = b]
  <1>1. J(f) \in JobRecord
    BY PlainFrame
  <1>2. r \in JobRecord /\ r.state \notin Active /\ r.verified = J(f).verified
        /\ (Sound(op[f].job, J(f)) => Sound(op[f].job, r))
    BY <1>1 DEF In, JobRecord, Terminal, Active, Downloading, Sound
  <1>3. QED
    BY <1>2, PlainSave

LEMMA UndoStep ==
    ASSUME Typed, NEW f \in Fiber, Undo(f)
    PROVE  Steps(f)
  <1>1. /\ "undo" \in Label \ (Leading \cup {"unlist"})
        /\ {"undone", "rolled", "over"} \subseteq Label \ Leading
        /\ {"undone", "rolled", "over"} \subseteq Reserving
        /\ {"undone", "rolled", "over"} \cap Trusting = {} /\ "undone" \in Owing
        /\ {"completed", "failed"} \subseteq Terminal \ {"ready"}
    BY DEF Label, Leading, Owing, Reserving, Trusting, Terminal
  <1>2. Free(f) /\ op[f].todo # <<"unlist">> /\ op[f].job \in Job
    BY <1>1, FreeAt DEF Undo
  <1>3. CASE RolledBack(f) /\ Save(f, Restored(f), <<"undone">>)
    BY <1>1, <1>2, <1>3, RolledBackSteps DEF Undo
  <1>4. ASSUME UNCHANGED site \/ Stranded(f) PROVE Plain
    BY <1>2, <1>4, KeepsControllers, StrandedFacts DEF Undo, Plain
  <1>5. CASE Save(f, [In(J(f), "completed") EXCEPT !.rollback = TRUE], <<"rolled">>) /\ UNCHANGED site
    BY <1>1, <1>2, <1>4, <1>5, OneTodo, RollbackEnds
  <1>6. CASE /\ Save(f, [In(J(f), "failed") EXCEPT !.rollback = TRUE], <<"over">>)
             /\ UNCHANGED site \/ Stranded(f)
    BY <1>1, <1>2, <1>4, <1>6, OneTodo, RollbackEnds
  <1>7. QED
    BY <1>3, <1>5, <1>6 DEF Undo

LEMMA UndoneStep ==
    ASSUME Typed, NEW f \in Fiber, Undone(f)
    PROVE  Steps(f)
  <1>1. /\ "undone" \in Label \ (Leading \cup {"unlist"}) /\ "rolled" \in Label \ Leading
        /\ "log" \in Leading /\ "rolled" \in Reserving /\ "rolled" \notin Trusting
        /\ "rolled-back" \in Terminal \ {"ready"}
    BY DEF Label, Leading, Reserving, Trusting, Terminal
  <1>2. Plain /\ Free(f) /\ op[f].todo # <<"unlist">>
    BY <1>1, KeepsControllers, FreeAt DEF Undone, Plain
  <1>3. QED
    BY <1>1, <1>2, TwoTodo, RollbackEnds DEF Undone

\* The finally clauses.
LEMMA FinallySteps ==
    ASSUME Typed, NEW f \in Fiber, NEW l \in Label \ (Leading \cup Owing \cup {"unlist"}), At(f, l),
           lifecycle' = None, controller' \in [Job -> Fiber \cup {None}],
           UNCHANGED <<listed, disk, site, adapter>>, Done(f)
    PROVE  Steps(f)
  <1>1. Free(f) /\ op[f].todo # <<"unlist">> /\ ~EndsIn(op[f].todo, Owing)
    BY FreeAt
  <1>2. /\ Confined(f, op[f].job) /\ dropped' = dropped /\ target' = target /\ listed' = listed
        /\ J(f) = job[op[f].job]
    BY <1>1, SameSite DEF Confined, Free, J, Typed, adapter
  <1>3. Hands(f, op[f].job, J(f), << >>) /\ Trusts(f, op[f].job, J(f), << >>, 0)
    BY <1>1, <1>2, NoTodo, NoPathLater DEF Hands, Trusts, Confined
  <1>4. QED
    BY <1>1, <1>2, <1>3, DoneSteps

LEMMA ReleaseStep ==
    ASSUME Typed, NEW f \in Fiber, Release(f)
    PROVE  Steps(f)
  <1>1. {"release", "completed"} \subseteq Label \ (Leading \cup Owing \cup {"unlist"})
    BY DEF Label, Leading, Owing
  <1>2. QED
    BY <1>1, UnregisterFacts, FinallySteps DEF Release

LEMMA OverStep ==
    ASSUME Typed, NEW f \in Fiber, Over(f)
    PROVE  Steps(f)
  <1>1. {"rolled", "over"} \subseteq Label \ (Leading \cup Owing \cup {"unlist"})
    BY DEF Label, Leading, Owing
  <1>2. QED
    BY <1>1, KeepsControllers, FinallySteps DEF Over

-----------------------------------------------------------------------------
(* The steps after a rejection *)

LEMMA FreeThrown ==
    ASSUME Typed, NEW f \in Fiber, At(f, "thrown")
    PROVE  /\ Free(f) /\ op[f].todo # <<"unlist">> /\ J(f) \in JobRecord /\ J(f) = job[op[f].job]
           /\ op[f].job \in Job
           /\ EndsIn(op[f].todo, Owing) <=> Pending(f) \in Owing
           /\ EndsIn(op[f].todo, Reserving) <=> Pending(f) \in Reserving
           /\ EndsIn(op[f].todo, Trusting) <=> Pending(f) \in Trusting
  BY ThrownFacts DEF Free, Typed, J

LEMMA ThrownOutsideStep ==
    ASSUME Typed, NEW f \in Fiber, ThrownOutside(f)
    PROVE  Steps(f)
  <1>1. /\ Free(f) /\ op[f].todo # <<"unlist">> /\ J(f) \in JobRecord /\ J(f) = job[op[f].job]
        /\ EndsIn(op[f].todo, Owing) <=> Pending(f) \in Owing
        /\ EndsIn(op[f].todo, Reserving) <=> Pending(f) \in Reserving
    BY FreeThrown DEF ThrownOutside
  <1>2. /\ Confined(f, op[f].job) /\ dropped \subseteq dropped' /\ lifecycle' = lifecycle
        /\ target' = target /\ listed' = listed
    BY <1>1, SameSite DEF ThrownOutside, Confined, Free, Typed
  <1>3. Pending(f) \in Owing \/ Pending(f) \in Reserving => op[f].job \in dropped'
    BY DEF ThrownOutside, Owing, Reserving
  <1>4. Hands(f, op[f].job, J(f), << >>) /\ Trusts(f, op[f].job, J(f), << >>, 0)
    BY <1>1, <1>2, <1>3, NoTodo, NoPathLater DEF Hands, Trusts, Confined
  <1>5. QED
    BY <1>1, <1>2, <1>4, DoneSteps DEF ThrownOutside

LEMMA ThrownInsideStep ==
    ASSUME Typed, NEW f \in Fiber, ThrownInside(f)
    PROVE  Steps(f)
  <1>1. /\ Free(f) /\ op[f].todo # <<"unlist">> /\ J(f) \in JobRecord
        /\ EndsIn(op[f].todo, Owing) <=> Pending(f) \in Owing
        /\ EndsIn(op[f].todo, Reserving) <=> Pending(f) \in Reserving
    BY FreeThrown DEF ThrownInside
  <1>2. ASSUME UNCHANGED controller \/ Unregister(f) PROVE Plain
    BY <1>2, KeepsControllers, UnregisterFacts DEF ThrownInside, Plain
  <1>3. CASE /\ Pending(f) \in {"download", "verify", "stage", "staged"}
             /\ Fail(f, FALSE) /\ UNCHANGED controller
    BY <1>1, <1>2, <1>3, FailSteps DEF Reserving
  <1>4. CASE /\ Pending(f) \in {"downloaded", "cancelled"}
             /\ Aborted(f) /\ UNCHANGED controller
    BY <1>1, <1>2, <1>4, AbortedSteps DEF Reserving
  <1>5. CASE /\ Pending(f) \in {"downloaded", "cancelled"}
             /\ Fail(f, FALSE) /\ Unregister(f)
    BY <1>1, <1>2, <1>5, FailSteps DEF Reserving
  <1>6. CASE /\ Pending(f) \in {"receipt", "validate", "complete", "completed"}
             /\ LogThen(f, <<"recover">>) /\ UNCHANGED controller
    <2>1. "recover" \in Label \ Leading /\ "recover" \in Owing /\ "recover" \in Reserving
          /\ "recover" \notin Trusting
      BY DEF Label, Leading, Owing, Reserving, Trusting
    <2>2. QED
      BY <1>1, <1>2, <1>6, <2>1, OneTodo, PlainLog
  <1>7. CASE /\ Pending(f) \in {"restore", "settle"}
             /\ Settled(f, [J(f) EXCEPT !.rollback = TRUE], FALSE) /\ UNCHANGED controller
    <2>1. /\ [J(f) EXCEPT !.rollback = TRUE] \in JobRecord
          /\ [J(f) EXCEPT !.rollback = TRUE].verified = J(f).verified
          /\ Sound(op[f].job, J(f)) => Sound(op[f].job, [J(f) EXCEPT !.rollback = TRUE])
      BY <1>1 DEF JobRecord, Sound
    <2>2. QED
      BY <1>1, <1>2, <1>7, <2>1, SettledSteps
  <1>8. CASE /\ Pending(f) \in {"undo", "undone", "rolled"}
             /\ Save(f, [In(J(f), "failed") EXCEPT !.rollback = TRUE], <<"over">>) /\ UNCHANGED controller
    <2>1. "over" \in Label \ Leading /\ "over" \in Reserving /\ "over" \notin Trusting
          /\ "failed" \in Terminal \ {"ready"}
      BY DEF Label, Leading, Reserving, Trusting, Terminal
    <2>2. QED
      BY <1>1, <1>2, <1>8, <2>1, OneTodo, RollbackEnds
  <1>9. QED
    BY <1>3, <1>4, <1>5, <1>6, <1>7, <1>8 DEF ThrownInside

LEMMA ThrownInCatchStep ==
    ASSUME Typed, NEW f \in Fiber, ThrownInCatch(f)
    PROVE  Steps(f)
  <1> DEFINE s == <<IF Pending(f) = "over" THEN "over" ELSE "release">>
             o == [op[f] EXCEPT !.todo = s]
  <1>1. /\ Free(f) /\ op[f].todo # <<"unlist">> /\ J(f) = job[op[f].job] /\ op[f].job # None
        /\ EndsIn(op[f].todo, Owing) <=> Pending(f) \in Owing
    BY FreeThrown, ReleaseAssumption DEF ThrownInCatch
  <1>2. /\ Confined(f, op[f].job) /\ dropped \subseteq dropped' /\ lifecycle' = lifecycle
        /\ target' = target /\ backups' = backups /\ listed' = listed
    BY <1>1, SameSite DEF ThrownInCatch, Confined, Free, Typed
  <1>3. Pending(f) \in Owing => op[f].job \in dropped'
    BY DEF ThrownInCatch, Owing
  <1>4. /\ {"release", "over"} \subseteq Label \ Leading /\ {"release", "over"} \subseteq Reserving
        /\ {"release", "over"} \cap Trusting = {}
    BY DEF Label, Leading, Reserving, Trusting
  <1>5. s \in ShapedTodo /\ s \in Seq(Label) /\ s # << >> /\ EndsIn(s, Reserving) /\ ~EndsIn(s, Trusting)
    BY <1>4, OneTodo DEF ShapedTodo
  <1>6. o \in ShapedCall /\ o.todo = s /\ ~o.waiting /\ o.job = op[f].job /\ o.path = op[f].path
    <2>1. op[f] \in CallRecord /\ op[f].job \in Job /\ ~op[f].waiting
      BY <1>1 DEF Typed, ShapedCall, Free
    <2>2. o \in CallRecord /\ o.todo = s /\ ~o.waiting /\ o.job = op[f].job /\ o.path = op[f].path
      BY <1>5, <2>1 DEF CallRecord
    <2>3. QED
      BY <1>5, <2>1, <2>2, ReleaseAssumption DEF ShapedCall
  <1>7. op' = [op EXCEPT ![f] = o]
    BY DEF ThrownInCatch, Typed
  <1>8. Hands(f, op[f].job, J(f), s) /\ Trusts(f, op[f].job, J(f), s, op[f].path)
    BY <1>1, <1>2, <1>3, <1>5 DEF Hands, Trusts, Trusted
  <1>9. QED
    BY <1>1, <1>2, <1>6, <1>7, <1>8, GoSteps DEF ThrownInCatch, Free

-----------------------------------------------------------------------------
(* Every step of the manager is the step of a fiber, a write or a restart *)

LEMMA EveryStep ==
    ASSUME Typed, Next
    PROVE  (\E f \in Fiber : Steps(f)) \/ (\E j \in Job : Write(j)) \/ Restart
  <1>1. ASSUME NEW f \in Fiber, NEW j \in Job, Call(f, j) PROVE Steps(f)
    BY <1>1, StartPrepareStep, ResumeStep, CancelStep, DeleteStep, InstallStep, RollbackStep DEF Call
  <1>2. ASSUME NEW f \in Fiber, Continue(f) PROVE Steps(f)
    <2>1. CASE \/ Log(f) \/ End(f) \/ ThrownOutside(f) \/ ThrownInside(f) \/ ThrownInCatch(f)
      BY <2>1, LogStep, EndStep, ThrownOutsideStep, ThrownInsideStep, ThrownInCatchStep
    <2>2. CASE \/ RunPrepare(f) \/ Download(f) \/ Network(f) \/ Downloaded(f) \/ Cancelled(f) \/ Verify(f)
               \/ Stage(f) \/ Abort(f) \/ Unlist(f)
      BY <2>2, RunPrepareStep, DownloadStep, NetworkStep, DownloadedStep, CancelledStep, VerifyStep,
         StageStep, AbortStep, UnlistStep
    <2>3. CASE \/ Challenge(f) \/ Dialog(f) \/ Helper(f) \/ Receipt(f) \/ Validate(f) \/ Complete(f)
      BY <2>3, ChallengeStep, DialogStep, HelperStep, ReceiptStep, ValidateStep, CompleteStep
    <2>4. CASE \/ Recover(f) \/ Restore(f) \/ Settle(f) \/ Request(f) \/ Undo(f) \/ Undone(f)
               \/ Release(f) \/ Over(f)
      BY <2>4, RecoverStep, RestoreStep, SettleStep, RequestStep, UndoStep, UndoneStep, ReleaseStep, OverStep
    <2>5. QED
      BY <1>2, <2>1, <2>2, <2>3, <2>4 DEF Continue
  <1>3. QED
    BY <1>1, <1>2 DEF Next

-----------------------------------------------------------------------------
(* The files *)

\* Whoever has a write in a job's queue awaits it, and has no other there.
WaitInv ==
    \A j \in Job : \A i \in 1 .. Len(queue[j]) :
        /\ op[queue[j][i].who].job = j /\ op[queue[j][i].who].waiting
        /\ \A k \in 1 .. Len(queue[j]) : queue[j][k].who = queue[j][i].who => k = i

\* The newest write of a job has the job as it is, or removes it.
LastInv ==
    \A j \in Job : queue[j] # << >> =>
        LET e == queue[j][Len(queue[j])]
        IN  /\ e.kind = "snapshot" => e.rec = job[j]
            /\ e.kind = "archive" => op[e.who].todo = <<"unlist">>

Unlisting(f, j) == op[f].job = j /\ op[f].todo = <<"unlist">> /\ ~op[f].waiting
DiskInv ==
    \A j \in listed \ lost : queue[j] = << >> =>
        disk[j] = job[j] \/ \E f \in Fiber : Unlisting(f, j)

SoundInv ==
    /\ \A j \in Job : Sound(j, job[j])
    /\ \A j \in Job : disk[j] # None => Sound(j, disk[j])
    /\ \A j \in Job : \A i \in 1 .. Len(queue[j]) : Sound(j, queue[j][i].rec)
    /\ \A f \in Fiber : Trusted(f)

IInv == Typed /\ OwedInv /\ ReservedInv /\ WaitInv /\ LastInv /\ DiskInv /\ SoundInv

LEMMA InitInv == Init => IInv
  <1> SUFFICES ASSUME Init PROVE IInv
    OBVIOUS
  <1>1. /\ job = [j \in Job |-> NoJob] /\ disk = [j \in Job |-> None] /\ queue = [j \in Job |-> << >>]
        /\ op = [f \in Fiber |-> Idle] /\ listed = {} /\ lifecycle = None
    BY DEF Init
  <1>2. Typed
    BY IdleCall, NoJobRecord, ReleaseAssumption DEF Init, Typed, Content
  <1>3. OwedInv /\ ReservedInv
    BY <1>1 DEF OwedInv, ReservedInv, NoJob, Active, Downloading
  <1>4. WaitInv /\ LastInv /\ DiskInv
    BY <1>1 DEF WaitInv, LastInv, DiskInv
  <1>5. SoundInv
    BY <1>1, <1>2, NoJobSound, IdleCall DEF SoundInv, Trusted
  <1>6. QED
    BY <1>2, <1>3, <1>4, <1>5 DEF IInv

\* The oldest write of job j ends, and with it the wait of g, which has o to go on from.
Effect(j, g, o) ==
    /\ queue[j] \in Seq(Entry) /\ Len(queue[j]) >= 1 /\ queue[j][1] \in Entry /\ queue[j][1].who = g
    /\ queue' = [queue EXCEPT ![j] = Tail(queue[j])]
    /\ op' = [op EXCEPT ![g] = o] /\ op[g].job = j /\ op[g].waiting
    /\ o.job = j /\ ~o.waiting
    /\ o.path = op[g].path
    /\ EndsIn(o.todo, Owing) <=> EndsIn(op[g].todo, Owing)
    /\ EndsIn(o.todo, Reserving) <=> EndsIn(op[g].todo, Reserving)
    /\ EndsIn(o.todo, Trusting) <=> EndsIn(op[g].todo, Trusting)
    /\ \/ /\ disk' = [disk EXCEPT ![j] = Written(j, queue[j][1])] /\ lost' = lost \ {j}
          /\ o.todo = op[g].todo /\ faults' = faults
       \/ disk' = disk /\ lost' = lost \cup {j} /\ faults < MaxFaults /\ faults' = faults + 1
    /\ UNCHANGED <<job, listed, lifecycle, controller, site, dropped>>

LEMMA WriteFacts ==
    ASSUME Typed, WaitInv, NEW j \in Job, Write(j)
    PROVE  \E g \in Fiber, o \in ShapedCall : Effect(j, g, o)
  <1> DEFINE e == queue[j][1]
             g == e.who
             o1 == [op[g] EXCEPT !.waiting = FALSE]
             o2 == [op[g] EXCEPT !.waiting = FALSE, !.todo = <<"thrown">> \o op[g].todo]
  <1>1. queue[j] \in Seq(Entry) /\ queue[j] # << >> /\ Len(queue[j]) >= 1 /\ Head(queue[j]) = e /\ e \in Entry
    BY DEF Write, Typed
  <1>2. g \in Fiber
    BY <1>1 DEF Entry
  <1>3. op[g].job = j /\ op[g].waiting /\ op[g] \in ShapedCall /\ op[g] \in CallRecord
        /\ op[g].todo \in ShapedTodo /\ op[g].todo # << >>
    BY <1>1, <1>2, ReleaseAssumption DEF WaitInv, Typed, ShapedCall
  <1>4. o1 \in ShapedCall /\ o1.job = j /\ ~o1.waiting /\ o1.todo = op[g].todo /\ o1.path = op[g].path
    BY <1>3, ReleaseAssumption DEF ShapedCall, CallRecord
  <1>5. /\ <<"thrown">> \o op[g].todo \in ShapedTodo /\ <<"thrown">> \o op[g].todo \in Seq(Label)
        /\ <<"thrown">> \o op[g].todo # << >>
        /\ EndsIn(<<"thrown">> \o op[g].todo, Owing) <=> EndsIn(op[g].todo, Owing)
        /\ EndsIn(<<"thrown">> \o op[g].todo, Reserving) <=> EndsIn(op[g].todo, Reserving)
        /\ EndsIn(<<"thrown">> \o op[g].todo, Trusting) <=> EndsIn(op[g].todo, Trusting)
    BY <1>3, ThrownTodo DEF ShapedTodo
  <1>6. o2 \in ShapedCall /\ o2.job = j /\ ~o2.waiting /\ o2.todo = <<"thrown">> \o op[g].todo
        /\ o2.path = op[g].path
    <2>1. o2 \in CallRecord /\ o2.job = j /\ ~o2.waiting /\ o2.todo = <<"thrown">> \o op[g].todo
          /\ o2.path = op[g].path
      BY <1>3, <1>5 DEF CallRecord
    <2>2. QED
      BY <1>5, <2>1, ReleaseAssumption DEF ShapedCall
  <1>7. queue' = [queue EXCEPT ![j] = Tail(queue[j])]
        /\ UNCHANGED <<job, listed, lifecycle, controller, site, dropped>>
    BY DEF Write
  <1>8. CASE /\ disk' = [disk EXCEPT ![j] = Written(j, e)] /\ lost' = lost \ {j} /\ faults' = faults
             /\ op' = [op EXCEPT ![g].waiting = FALSE]
    <2>1. op' = [op EXCEPT ![g] = o1]
      BY <1>8
    <2>2. Effect(j, g, o1)
      BY <1>1, <1>3, <1>4, <1>7, <1>8, <2>1 DEF Effect
    <2>3. QED
      BY <1>2, <1>4, <2>2
  <1>9. CASE /\ disk' = disk /\ lost' = lost \cup {j} /\ faults < MaxFaults /\ faults' = faults + 1
             /\ op' = [op EXCEPT ![g].waiting = FALSE, ![g].todo = <<"thrown">> \o @]
    <2>1. op' = [op EXCEPT ![g] = o2]
      BY <1>2, <1>9 DEF Typed
    <2>2. Effect(j, g, o2)
      BY <1>1, <1>3, <1>5, <1>6, <1>7, <1>9, <2>1 DEF Effect
    <2>3. QED
      BY <1>2, <1>6, <2>2
  <1>10. QED
    BY <1>1, <1>8, <1>9 DEF Write

LEMMA RecoveredFacts ==
    ASSUME NEW j \in Job, NEW r \in JobRecord
    PROVE  /\ Recovered(r) \in JobRecord /\ Recovered(r).state \notin Active
           /\ Sound(j, r) => Sound(j, Recovered(r))
  BY DEF Recovered, In, JobRecord, Terminal, Active, Downloading, Sound

-----------------------------------------------------------------------------
(* Each part of the invariant under the step of a fiber *)

Turns(f, j, o, r) ==
    /\ Confined(f, j) /\ Moves(f, o) /\ o.job \in {j, None}
    /\ job' = [job EXCEPT ![j] = r]
    /\ Hands(f, j, r, o.todo) /\ Trusts(f, j, r, o.todo, o.path)

LEMMA StepTurns ==
    ASSUME Typed, NEW f \in Fiber, NEW j \in Job, NEW o \in ShapedCall, Confined(f, j),
           Goes(f, j, o) \/ \E r \in JobRecord, x \in Entry : Writes(f, j, o, r, x)
    PROVE  \E r \in JobRecord : Turns(f, j, o, r)
  <1>1. CASE Goes(f, j, o)
    <2>1. job[j] \in JobRecord /\ job' = [job EXCEPT ![j] = job[j]]
      BY <1>1 DEF Goes, Typed
    <2>2. Turns(f, j, o, job[j])
      BY <1>1, <2>1 DEF Goes, Turns
    <2>3. QED
      BY <2>1, <2>2
  <1>2. ASSUME NEW r \in JobRecord, NEW x \in Entry, Writes(f, j, o, r, x)
        PROVE  Turns(f, j, o, r)
    BY <1>2 DEF Writes, Turns
  <1>3. QED
    BY <1>1, <1>2

LEMMA StepTyped ==
    ASSUME Typed, NEW f \in Fiber, Steps(f), calls' \in 0 .. MaxCalls
    PROVE  Typed'
  <1>1. PICK j \in Job, o \in ShapedCall :
           /\ Confined(f, j)
           /\ Goes(f, j, o) \/ \E r \in JobRecord, x \in Entry : Writes(f, j, o, r, x)
    BY DEF Steps
  <1>2. PICK r \in JobRecord : Turns(f, j, o, r)
    BY <1>1, StepTurns
  <1>3. job' \in [Job -> JobRecord] /\ op' \in [Fiber -> ShapedCall]
    BY <1>2 DEF Typed, Turns, Moves
  <1>4. queue' \in [Job -> Seq(Entry)] /\ listed' \subseteq Job
    <2>1. CASE Goes(f, j, o)
      BY <2>1 DEF Goes, Typed
    <2>2. ASSUME NEW q \in JobRecord, NEW x \in Entry, Writes(f, j, o, q, x)
          PROVE  queue' \in [Job -> Seq(Entry)] /\ listed' \subseteq Job
      <3>1. Append(queue[j], x) \in Seq(Entry)
        BY DEF Typed
      <3>2. QED
        BY <2>2, <3>1 DEF Writes, Typed
    <2>3. QED
      BY <1>1, <2>1, <2>2
  <1>5. QED
    BY <1>1, <1>3, <1>4 DEF Confined, Kept, Typed

LEMMA StepOwed ==
    ASSUME Typed, OwedInv, ReservedInv, NEW f \in Fiber, Steps(f)
    PROVE  OwedInv' /\ ReservedInv'
  <1>1. PICK j \in Job, o \in ShapedCall, r \in JobRecord : Turns(f, j, o, r)
    BY StepTurns DEF Steps
  <1>2. /\ op'[f] = o /\ op[f].job \in {j, None} /\ dropped \subseteq dropped'
        /\ \A h \in Fiber \ {f} : op'[h].job = op[h].job /\ op'[h].todo = op[h].todo
    BY <1>1 DEF Turns, Moves, Confined, Hands
  <1>3. ASSUME NEW L, EndsIn(o.todo, L) PROVE o.job = j
    BY <1>1, <1>3, IdleCall DEF Turns, ShapedCall, EndsIn
  <1>4. OwedInv'
    <2> SUFFICES ASSUME NEW i \in Job \ dropped', job'[i].state \in Active
                 PROVE  \E h \in Fiber : op'[h].job = i /\ EndsIn(op'[h].todo, Owing)
      BY DEF OwedInv, EndsIn
    <2>1. CASE i # j
      <3>1. job'[i] = job[i] /\ i \notin dropped
        BY <1>1, <1>2, <2>1 DEF Turns, Typed
      <3>2. PICK h \in Fiber : op[h].job = i /\ EndsIn(op[h].todo, Owing)
        BY <3>1 DEF OwedInv
      <3>3. h # f
        BY <1>2, <2>1, <3>2, ReleaseAssumption
      <3>4. QED
        BY <1>2, <3>2, <3>3
    <2>2. CASE i = j /\ EndsIn(o.todo, Owing)
      BY <1>2, <1>3, <2>2
    <2>3. CASE i = j /\ ~EndsIn(o.todo, Owing)
      <3>1. job'[j] = r /\ r.state = job[j].state /\ ~EndsIn(op[f].todo, Owing)
        BY <1>1, <2>3 DEF Turns, Typed, Hands
      <3>2. PICK h \in Fiber : op[h].job = j /\ EndsIn(op[h].todo, Owing)
        BY <1>2, <2>3, <3>1 DEF OwedInv
      <3>3. QED
        BY <1>2, <2>3, <3>1, <3>2
    <2>4. QED
      BY <2>1, <2>2, <2>3
  <1>5. ReservedInv'
    <2> SUFFICES ASSUME lifecycle' \notin dropped' \cup {None}
                 PROVE  \E h \in Fiber : op'[h].job = lifecycle' /\ EndsIn(op'[h].todo, Reserving)
      BY DEF ReservedInv, EndsIn
    <2>1. CASE lifecycle' = j /\ EndsIn(o.todo, Reserving)
      BY <1>2, <1>3, <2>1
    <2>2. CASE lifecycle' = lifecycle /\ ~(lifecycle' = j /\ EndsIn(o.todo, Reserving))
      <3>1. PICK h \in Fiber : op[h].job = lifecycle /\ EndsIn(op[h].todo, Reserving)
        BY <1>2, <2>2 DEF ReservedInv
      <3>2. h # f
        BY <1>1, <1>2, <2>2, <3>1 DEF Turns, Hands
      <3>3. QED
        BY <1>2, <2>2, <3>1, <3>2
    <2>3. QED
      BY <1>1, <2>1, <2>2 DEF Turns, Hands
  <1>6. QED
    BY <1>4, <1>5

\* The fibers that wait for a write are not the one that steps.
LEMMA WaiterStays ==
    ASSUME Typed, WaitInv, NEW f \in Fiber, ~op[f].waiting, NEW i \in Job, NEW k \in 1 .. Len(queue[i])
    PROVE  queue[i][k] \in Entry /\ queue[i][k].who \in Fiber \ {f}
  <1>1. queue[i] \in Seq(Entry)
    BY DEF Typed
  <1>2. queue[i][k] \in Entry /\ queue[i][k].who \in Fiber
    <2>1. queue[i][k] \in Entry
      BY <1>1
    <2>2. QED
      BY <2>1 DEF Entry
  <1>3. op[queue[i][k].who].waiting
    BY DEF WaitInv
  <1>4. QED
    BY <1>2, <1>3

LEMMA LastEntry ==
    ASSUME NEW q \in Seq(Entry), q # << >>
    PROVE  Len(q) \in 1 .. Len(q) /\ Len(q) \in Nat
  OBVIOUS

LEMMA AppendEntry ==
    ASSUME NEW q \in Seq(Entry), NEW x \in Entry
    PROVE  \E n \in Nat : /\ n = Len(q) /\ Len(Append(q, x)) = n + 1 /\ Append(q, x)[n + 1] = x
                         /\ \A k \in 1 .. n : Append(q, x)[k] = q[k]
  OBVIOUS

LEMMA StepQueues ==
    ASSUME Typed, WaitInv, LastInv, NEW f \in Fiber, Steps(f)
    PROVE  WaitInv' /\ LastInv'
  <1>1. PICK j \in Job, o \in ShapedCall :
           /\ Confined(f, j)
           /\ Goes(f, j, o) \/ \E r \in JobRecord, x \in Entry : Writes(f, j, o, r, x)
    BY DEF Steps
  <1>2. ~op[f].waiting
    BY <1>1 DEF Confined
  <1>3. ASSUME Moves(f, o), NEW i \in Job, NEW k \in 1 .. Len(queue[i])
        PROVE  /\ op'[queue[i][k].who].job = i /\ op'[queue[i][k].who].waiting
               /\ op'[queue[i][k].who].todo = op[queue[i][k].who].todo
    BY <1>2, <1>3, WaiterStays DEF Moves, WaitInv
  <1>4. CASE Goes(f, j, o)
    <2>1. job' = job /\ queue' = queue /\ Moves(f, o)
      BY <1>4 DEF Goes
    <2>2. WaitInv'
      BY <1>3, <2>1 DEF WaitInv
    <2>3. LastInv'
      <3> SUFFICES ASSUME NEW i \in Job, queue[i] # << >>
                   PROVE  LET e == queue[i][Len(queue[i])]
                          IN  /\ e.kind = "snapshot" => e.rec = job[i]
                              /\ e.kind = "archive" => op'[e.who].todo = <<"unlist">>
        BY <2>1 DEF LastInv
      <3>1. PICK n \in 1 .. Len(queue[i]) : n = Len(queue[i])
        BY LastEntry DEF Typed
      <3>2. op'[queue[i][n].who].todo = op[queue[i][n].who].todo
        BY <1>3, <2>1
      <3>3. QED
        BY <3>1, <3>2 DEF LastInv
    <2>4. QED
      BY <2>2, <2>3
  <1>5. ASSUME NEW r \in JobRecord, NEW x \in Entry, Writes(f, j, o, r, x)
        PROVE  WaitInv' /\ LastInv'
    <2>1. /\ Moves(f, o) /\ op'[f] = o /\ o.waiting /\ o.job = j /\ x.who = f
          /\ x.kind = "snapshot" => x.rec = r
          /\ x.kind = "archive" => o.todo = <<"unlist">>
          /\ job'[j] = r /\ \A i \in Job \ {j} : job'[i] = job[i] /\ queue'[i] = queue[i]
      BY <1>5 DEF Writes, Moves, Typed
    <2>2. PICK n \in Nat : /\ n = Len(queue[j]) /\ Len(queue'[j]) = n + 1 /\ queue'[j][n + 1] = x
                           /\ \A k \in 1 .. n : queue'[j][k] = queue[j][k]
      <3>1. queue[j] \in Seq(Entry) /\ queue'[j] = Append(queue[j], x)
        BY <1>5 DEF Writes, Typed
      <3>2. QED
        BY <3>1, AppendEntry
    <2>3. WaitInv'
      <3> SUFFICES ASSUME NEW i \in Job, NEW k \in 1 .. Len(queue'[i])
                   PROVE  /\ op'[queue'[i][k].who].job = i /\ op'[queue'[i][k].who].waiting
                          /\ \A l \in 1 .. Len(queue'[i]) : queue'[i][l].who = queue'[i][k].who => l = k
        BY DEF WaitInv
      <3>1. CASE i # j
        BY <1>3, <2>1, <3>1 DEF WaitInv
      <3>2. CASE i = j
        <4>1. ASSUME NEW l \in 1 .. n PROVE queue'[j][l].who # f
          BY <1>2, <2>2, WaiterStays
        <4>2. CASE k = n + 1
          BY <2>1, <2>2, <3>2, <4>1, <4>2
        <4>3. CASE k \in 1 .. n
          <5>1. op'[queue[j][k].who].job = j /\ op'[queue[j][k].who].waiting
            BY <1>3, <2>1, <2>2, <4>3
          <5>2. \A l \in 1 .. n : queue[j][l].who = queue[j][k].who => l = k
            BY <2>2, <4>3 DEF WaitInv
          <5>3. queue'[j][k] = queue[j][k] /\ queue[j][k].who # f
            BY <1>2, <2>2, <4>3, WaiterStays
          <5>4. \A l \in 1 .. n + 1 : queue'[j][l].who = queue[j][k].who => l = k
            <6> SUFFICES ASSUME NEW l \in 1 .. n + 1, queue'[j][l].who = queue[j][k].who PROVE l = k
              OBVIOUS
            <6>1. l # n + 1
              BY <2>1, <2>2, <5>3
            <6>2. l \in 1 .. n
              BY <6>1, <2>2
            <6>3. QED
              BY <2>2, <5>2, <6>2
          <5>5. QED
            BY <2>2, <3>2, <5>1, <5>3, <5>4
        <4>4. QED
          BY <2>2, <3>2, <4>2, <4>3
      <3>3. QED
        BY <3>1, <3>2
    <2>4. LastInv'
      <3> SUFFICES ASSUME NEW i \in Job, queue'[i] # << >>
                   PROVE  LET e == queue'[i][Len(queue'[i])]
                          IN  /\ e.kind = "snapshot" => e.rec = job'[i]
                              /\ e.kind = "archive" => op'[e.who].todo = <<"unlist">>
        BY DEF LastInv
      <3>1. CASE i = j
        BY <2>1, <2>2, <3>1
      <3>2. CASE i # j
        <4>1. queue'[i] = queue[i] /\ job'[i] = job[i]
          BY <2>1, <3>2
        <4>2. PICK m \in 1 .. Len(queue[i]) : m = Len(queue[i])
          BY <4>1, LastEntry DEF Typed
        <4>3. op'[queue[i][m].who].todo = op[queue[i][m].who].todo
          BY <1>3, <2>1
        <4>4. QED
          BY <4>1, <4>2, <4>3 DEF LastInv
      <3>3. QED
        BY <3>1, <3>2
    <2>5. QED
      BY <2>3, <2>4
  <1>6. QED
    BY <1>1, <1>4, <1>5

LEMMA StepDisk ==
    ASSUME Typed, DiskInv, NEW f \in Fiber, Steps(f)
    PROVE  DiskInv'
  <1>1. PICK j \in Job, o \in ShapedCall :
           /\ Confined(f, j)
           /\ Goes(f, j, o) \/ \E r \in JobRecord, x \in Entry : Writes(f, j, o, r, x)
    BY DEF Steps
  <1>2. disk' = disk /\ lost' = lost /\ op[f].job \in {j, None} /\ ~op[f].waiting
    BY <1>1 DEF Confined
  <1>3. ASSUME Moves(f, o), NEW i \in listed \ lost, queue[i] = << >>,
               i = j => op[f].todo # <<"unlist">>
        PROVE  disk[i] = job[i] \/ \E h \in Fiber : Unlisting(h, i)'
    <2>1. CASE disk[i] = job[i]
      BY <2>1
    <2>2. CASE disk[i] # job[i]
      <3>1. PICK h \in Fiber : Unlisting(h, i)
        BY <1>3, <2>2 DEF DiskInv
      <3>2. h # f
        BY <1>2, <1>3, <3>1, ReleaseAssumption DEF Unlisting, Typed
      <3>3. Unlisting(h, i)'
        BY <1>3, <3>1, <3>2 DEF Moves, Unlisting
      <3>4. QED
        BY <3>3
    <2>3. QED
      BY <2>1, <2>2
  <1>4. CASE Goes(f, j, o)
    <2> SUFFICES ASSUME NEW i \in listed' \ lost', queue'[i] = << >>
                 PROVE  disk'[i] = job'[i] \/ \E h \in Fiber : Unlisting(h, i)'
      BY DEF DiskInv
    <2>1. /\ Moves(f, o) /\ job' = job /\ queue' = queue /\ i \in listed \ lost
          /\ i = j => op[f].todo # <<"unlist">>
      BY <1>2, <1>4 DEF Goes
    <2>2. QED
      BY <1>2, <1>3, <2>1
  <1>5. ASSUME NEW r \in JobRecord, NEW x \in Entry, Writes(f, j, o, r, x)
        PROVE  DiskInv'
    <2> SUFFICES ASSUME NEW i \in listed' \ lost', queue'[i] = << >>
                 PROVE  disk'[i] = job'[i] \/ \E h \in Fiber : Unlisting(h, i)'
      BY DEF DiskInv
    <2>1. queue[j] \in Seq(Entry) /\ queue'[j] = Append(queue[j], x)
      BY <1>5 DEF Writes, Typed
    <2>2. i # j
      <3>1. PICK n \in Nat : Len(queue'[j]) = n + 1
        BY <2>1, AppendEntry
      <3>2. QED
        BY <3>1
    <2>3. /\ Moves(f, o) /\ job'[i] = job[i] /\ queue'[i] = queue[i] /\ i \in listed \ lost
      BY <1>2, <1>5, <2>2 DEF Writes, Typed
    <2>4. QED
      BY <1>2, <1>3, <2>2, <2>3
  <1>6. QED
    BY <1>1, <1>4, <1>5

\* What is sound stays so.
LEMMA KeptSound ==
    ASSUME Typed, Kept, NEW i \in Job, NEW r \in JobRecord, Sound(i, r)
    PROVE  /\ r.state = "ready" \/ r.backup \in Releases(backups'[i]) => r.verified
           /\ r.state = "absent" => ~r.verified
           /\ r.backup <= Len(backups'[i])
  <1>1. r.backup \in Nat /\ r.backup <= Len(backups[i])
    BY DEF JobRecord, Sound
  <1>2. /\ Len(backups[i]) \in Nat /\ Len(backups'[i]) \in Nat /\ Len(backups[i]) <= Len(backups'[i])
        /\ r.backup \in Releases(backups'[i]) => r.backup \in Releases(backups[i])
    BY <1>1, KeptReleases
  <1>3. QED
    BY <1>1, <1>2 DEF Sound

LEMMA StepSound ==
    ASSUME Typed, SoundInv, NEW f \in Fiber, Steps(f)
    PROVE  /\ SoundInv'
           /\ \A i \in Job : target'[i] = "new" /\ target[i] # "new" => job[i].verified
  <1>1. PICK j \in Job, o \in ShapedCall :
           /\ Confined(f, j)
           /\ Goes(f, j, o) \/ \E r \in JobRecord, x \in Entry : Writes(f, j, o, r, x)
    BY DEF Steps
  <1>2. disk' = disk /\ Kept /\ Sound(j, job[j]) /\ Trusted(f)
    BY <1>1 DEF Confined, SoundInv
  <1>3. ASSUME NEW r \in JobRecord, Turns(f, j, o, r)
        PROVE  /\ Sound(j, r) /\ \A i \in Job : Sound(i, job[i])'
               /\ \A h \in Fiber : Trusted(h)'
               /\ \A i \in Job : target'[i] = "new" /\ target[i] # "new" => job[i].verified
    <2>1. /\ Sound(j, r) /\ (job[j].verified => r.verified)
          /\ EndsIn(o.todo, Trusting) \/ o.path \in Releases(backups'[j]) => r.verified
          /\ o.path <= Len(backups'[j])
          /\ \A i \in Job : target'[i] = "new" /\ target[i] # "new" => job[i].verified
      BY <1>2, <1>3 DEF Turns, Trusts
    <2>2. job'[j] = r /\ \A i \in Job \ {j} : job'[i] = job[i]
      BY <1>3 DEF Turns, Typed
    <2>3. \A i \in Job : Sound(i, job[i])'
      <3> SUFFICES ASSUME NEW i \in Job PROVE Sound(i, job[i])'
        OBVIOUS
      <3>1. job'[i] \in JobRecord /\ Sound(i, job'[i])
        BY <2>1, <2>2 DEF SoundInv, Typed
      <3>2. QED
        BY <1>2, <3>1, KeptSound DEF Sound
    <2>4. ASSUME NEW h \in Fiber, op'[h].job # None
          PROVE  /\ EndsIn(op'[h].todo, Trusting) \/ op'[h].path \in Releases(backups'[op'[h].job])
                    => job'[op'[h].job].verified
                 /\ op'[h].path <= Len(backups'[op'[h].job])
      <3>1. CASE h = f
        <4>1. op'[h] = o /\ o.job = j
          BY <1>3, <2>4, <3>1 DEF Turns, Moves
        <4>2. QED
          BY <2>1, <2>2, <4>1
      <3>2. CASE h # f
        <4>1. op'[h].job = op[h].job /\ op'[h].todo = op[h].todo /\ op'[h].path = op[h].path
          BY <1>3, <3>2 DEF Turns, Moves
        <4>2. op[h].job \in Job /\ op[h].job # None /\ op[h].path \in Nat
          BY <2>4, <4>1 DEF Typed, ShapedCall, CallRecord
        <4>3. /\ EndsIn(op[h].todo, Trusting) \/ op[h].path \in Releases(backups[op[h].job])
                 => job[op[h].job].verified
              /\ op[h].path <= Len(backups[op[h].job])
          BY <4>2 DEF SoundInv, Trusted, J
        <4>4. /\ Len(backups[op[h].job]) \in Nat /\ Len(backups'[op[h].job]) \in Nat
              /\ Len(backups[op[h].job]) <= Len(backups'[op[h].job])
              /\ op[h].path \in Releases(backups'[op[h].job]) => op[h].path \in Releases(backups[op[h].job])
          BY <1>2, <4>2, <4>3, KeptReleases
        <4>5. job[op[h].job].verified => job'[op[h].job].verified
          BY <2>1, <2>2, <4>2
        <4>6. QED
          BY <4>1, <4>2, <4>3, <4>4, <4>5
      <3>3. QED
        BY <3>1, <3>2
    <2>5. \A h \in Fiber : Trusted(h)'
      BY <2>4 DEF Trusted, EndsIn, J
    <2>6. QED
      BY <2>1, <2>3, <2>5
  <1>4. ASSUME NEW i \in Job, disk[i] # None PROVE Sound(i, disk[i])'
    <2>1. disk[i] \in JobRecord /\ Sound(i, disk[i])
      BY <1>4 DEF SoundInv, Typed
    <2>2. QED
      BY <1>2, <2>1, KeptSound DEF Sound
  <1>5. ASSUME NEW i \in Job, NEW k \in 1 .. Len(queue[i]), queue'[i][k] = queue[i][k]
        PROVE  Sound(i, queue[i][k].rec)'
    <2>1. queue[i] \in Seq(Entry)
      BY DEF Typed
    <2>2. queue[i][k] \in Entry
      BY <2>1
    <2>3. queue[i][k].rec \in JobRecord /\ Sound(i, queue[i][k].rec)
      BY <2>2 DEF SoundInv, Entry
    <2>4. QED
      BY <1>2, <1>5, <2>3, KeptSound DEF Sound
  <1>6. CASE Goes(f, j, o)
    <2>1. PICK r \in JobRecord : Turns(f, j, o, r)
      BY <1>1, StepTurns
    <2>2. queue' = queue
      BY <1>6 DEF Goes
    <2>3. \A i \in Job : disk'[i] # None => Sound(i, disk[i])'
      BY <1>2, <1>4
    <2>4. \A i \in Job : \A k \in 1 .. Len(queue'[i]) : Sound(i, queue[i][k].rec)'
      BY <1>5, <2>2
    <2>5. QED
      BY <1>3, <2>1, <2>3, <2>4 DEF SoundInv
  <1>7. ASSUME NEW r \in JobRecord, NEW x \in Entry, Writes(f, j, o, r, x)
        PROVE  /\ SoundInv'
               /\ \A i \in Job : target'[i] = "new" /\ target[i] # "new" => job[i].verified
    <2>1. Turns(f, j, o, r)
      BY <1>1, <1>7 DEF Writes, Turns
    <2>2. Sound(j, x.rec)'
      <3>1. x.rec \in JobRecord /\ Sound(j, x.rec)
        BY <1>3, <1>7, <2>1, NoJobRecord, NoJobSound DEF Writes
      <3>2. QED
        BY <1>2, <3>1, KeptSound DEF Sound
    <2>3. ASSUME NEW i \in Job, NEW k \in 1 .. Len(queue'[i]) PROVE Sound(i, queue[i][k].rec)'
      <3>1. CASE i # j
        <4>1. queue'[i] = queue[i]
          BY <1>7, <3>1 DEF Writes, Typed
        <4>2. QED
          BY <1>5, <4>1
      <3>2. CASE i = j
        <4>1. queue[j] \in Seq(Entry) /\ queue'[j] = Append(queue[j], x)
          BY <1>7 DEF Writes, Typed
        <4>2. PICK n \in Nat : /\ n = Len(queue[j]) /\ Len(queue'[j]) = n + 1 /\ queue'[j][n + 1] = x
                               /\ \A l \in 1 .. n : queue'[j][l] = queue[j][l]
          BY <4>1, AppendEntry
        <4>3. CASE k = n + 1
          BY <2>2, <3>2, <4>2, <4>3 DEF Sound
        <4>4. CASE k \in 1 .. n
          BY <1>5, <3>2, <4>2, <4>4
        <4>5. QED
          BY <3>2, <4>2, <4>3, <4>4
      <3>3. QED
        BY <3>1, <3>2
    <2>4. \A i \in Job : disk'[i] # None => Sound(i, disk[i])'
      BY <1>2, <1>4
    <2>5. QED
      BY <1>3, <2>1, <2>3, <2>4 DEF SoundInv
  <1>8. QED
    BY <1>1, <1>6, <1>7

-----------------------------------------------------------------------------
(* The invariant under a write and under a restart *)

LEMMA TailEntry ==
    ASSUME NEW q \in Seq(Entry), Len(q) >= 1
    PROVE  \E n \in Nat : /\ Len(q) = n + 1 /\ Len(Tail(q)) = n
                         /\ \A k \in 1 .. n : Tail(q)[k] = q[k + 1]
  <1>1. PICK n \in Nat : Len(q) = n + 1
    <2>1. Len(q) \in Nat
      OBVIOUS
    <2>2. Len(q) - 1 \in Nat /\ Len(q) = (Len(q) - 1) + 1
      BY <2>1
    <2>3. QED
      BY <2>2
  <1>2. Len(Tail(q)) = n /\ \A k \in 1 .. n : Tail(q)[k] = q[k + 1]
    BY <1>1
  <1>3. QED
    BY <1>1, <1>2

LEMMA WriteStep ==
    ASSUME IInv, NEW j \in Job, Write(j), calls' \in 0 .. MaxCalls
    PROVE  IInv'
  <1>1. Typed /\ OwedInv /\ ReservedInv /\ WaitInv /\ LastInv /\ DiskInv /\ SoundInv
    BY DEF IInv
  <1>2. PICK g \in Fiber, o \in ShapedCall : Effect(j, g, o)
    BY <1>1, WriteFacts
  <1>3. /\ queue[j] \in Seq(Entry) /\ Len(queue[j]) >= 1 /\ queue[j][1] \in Entry /\ queue[j][1].who = g
        /\ queue'[j] = Tail(queue[j]) /\ \A i \in Job \ {j} : queue'[i] = queue[i]
        /\ op[g].job = j /\ op'[g] = o /\ o.job = j /\ ~o.waiting
        /\ \A h \in Fiber \ {g} : op'[h] = op[h]
        /\ job' = job /\ listed' = listed /\ lifecycle' = lifecycle /\ dropped' = dropped
    BY <1>1, <1>2 DEF Effect, Typed
  <1>4. /\ o.path = op[g].path
        /\ EndsIn(o.todo, Owing) <=> EndsIn(op[g].todo, Owing)
        /\ EndsIn(o.todo, Reserving) <=> EndsIn(op[g].todo, Reserving)
        /\ EndsIn(o.todo, Trusting) <=> EndsIn(op[g].todo, Trusting)
    BY <1>2 DEF Effect
  <1>5. PICK n \in Nat : /\ Len(queue[j]) = n + 1 /\ Len(queue'[j]) = n
                         /\ \A k \in 1 .. n : queue'[j][k] = queue[j][k + 1]
    BY <1>3, TailEntry
  <1>6. Written(j, queue[j][1]) \in JobRecord \cup {None}
    <2>1. queue[j][1].kind \in {"snapshot", "log", "archive"} /\ queue[j][1].rec \in JobRecord
          /\ job[j] \in JobRecord
      BY <1>1, <1>3 DEF Entry, Typed
    <2>2. QED
      BY <2>1 DEF Written
  <1>7. Typed'
    <2>1. queue' \in [Job -> Seq(Entry)]
      <3>1. Tail(queue[j]) \in Seq(Entry)
        BY <1>3
      <3>2. QED
        BY <1>1, <1>2, <3>1 DEF Effect, Typed
    <2>2. disk' \in [Job -> JobRecord \cup {None}] /\ lost' \subseteq Job
      <3>1. CASE disk' = [disk EXCEPT ![j] = Written(j, queue[j][1])] /\ lost' = lost \ {j}
        BY <1>1, <1>6, <3>1 DEF Typed
      <3>2. CASE disk' = disk /\ lost' = lost \cup {j}
        BY <1>1, <3>2 DEF Typed
      <3>3. QED
        BY <1>2, <3>1, <3>2 DEF Effect
    <2>3. faults' \in 0 .. MaxFaults
      BY <1>1, <1>2, ReleaseAssumption DEF Effect, Typed
    <2>4. op' \in [Fiber -> ShapedCall]
      BY <1>1, <1>2 DEF Effect, Typed
    <2>5. QED
      BY <1>1, <1>2, <2>1, <2>2, <2>3, <2>4 DEF Effect, Typed, site
  \* The jobs and what the calls still have to do are as they were.
  <1>8. OwedInv'
    <2> SUFFICES ASSUME NEW i \in Job \ dropped', job'[i].state \in Active
                 PROVE  \E h \in Fiber : op'[h].job = i /\ EndsIn(op'[h].todo, Owing)
      BY DEF OwedInv, EndsIn
    <2>1. PICK h \in Fiber : op[h].job = i /\ EndsIn(op[h].todo, Owing)
      BY <1>1, <1>3 DEF OwedInv
    <2>2. QED
      BY <1>3, <1>4, <2>1
  <1>9. ReservedInv'
    <2> SUFFICES ASSUME lifecycle' \notin dropped' \cup {None}
                 PROVE  \E h \in Fiber : op'[h].job = lifecycle' /\ EndsIn(op'[h].todo, Reserving)
      BY DEF ReservedInv, EndsIn
    <2>1. PICK h \in Fiber : op[h].job = lifecycle /\ EndsIn(op[h].todo, Reserving)
      BY <1>1, <1>3 DEF ReservedInv
    <2>2. QED
      BY <1>3, <1>4, <2>1
  \* The writes that wait behind it are of other fibers.
  <1>10. ASSUME NEW k \in 1 .. n PROVE queue[j][k + 1].who # g
    <2>1. k + 1 \in 1 .. Len(queue[j]) /\ 1 \in 1 .. Len(queue[j]) /\ k + 1 # 1
      BY <1>5
    <2>2. QED
      BY <1>1, <1>3, <2>1 DEF WaitInv
  <1>11. ASSUME NEW i \in Job, NEW k \in 1 .. Len(queue'[i])
         PROVE  /\ op'[queue'[i][k].who] = op[queue'[i][k].who]
                /\ op[queue'[i][k].who].job = i /\ op[queue'[i][k].who].waiting
    <2>0. op' = [op EXCEPT ![g] = o]
      BY <1>2 DEF Effect
    <2>1. CASE i = j
      <3>1. k \in 1 .. n /\ queue'[i][k] = queue[j][k + 1] /\ k + 1 \in 1 .. Len(queue[j])
        BY <1>5, <2>1
      <3>2. queue[j][k + 1].who \in Fiber
        <4>1. queue[j][k + 1] \in Entry
          BY <1>3, <3>1
        <4>2. QED
          BY <4>1 DEF Entry
      <3>3. QED
        BY <1>1, <1>3, <1>10, <2>1, <3>1, <3>2 DEF WaitInv
    <2>2. CASE i # j
      <3>1. queue'[i] = queue[i] /\ queue[i] \in Seq(Entry)
        BY <1>1, <1>3, <2>2 DEF Typed
      <3>2. queue[i][k].who \in Fiber
        <4>1. queue[i][k] \in Entry
          BY <3>1
        <4>2. QED
          BY <4>1 DEF Entry
      <3>3. op[queue[i][k].who].job = i /\ op[queue[i][k].who].waiting
        BY <1>1, <3>1 DEF WaitInv
      <3>4. queue[i][k].who # g
        BY <1>3, <2>2, <3>3
      <3>5. QED
        BY <1>3, <3>1, <3>2, <3>3, <3>4
    <2>3. QED
      BY <2>1, <2>2
  <1>12. WaitInv'
    <2> SUFFICES ASSUME NEW i \in Job, NEW k \in 1 .. Len(queue'[i])
                 PROVE  /\ op'[queue'[i][k].who].job = i /\ op'[queue'[i][k].who].waiting
                        /\ \A l \in 1 .. Len(queue'[i]) : queue'[i][l].who = queue'[i][k].who => l = k
      BY DEF WaitInv
    <2>1. \A l \in 1 .. Len(queue'[i]) : queue'[i][l].who = queue'[i][k].who => l = k
      <3>1. CASE i # j
        BY <1>1, <1>3, <3>1 DEF WaitInv
      <3>2. CASE i = j
        <4> SUFFICES ASSUME NEW l \in 1 .. n, queue'[j][l].who = queue'[j][k].who PROVE l = k
          BY <1>5, <3>2
        <4>1. k \in 1 .. n /\ k + 1 \in 1 .. Len(queue[j]) /\ l + 1 \in 1 .. Len(queue[j])
          BY <1>5, <3>2
        <4>2. queue[j][l + 1].who = queue[j][k + 1].who
          BY <1>5, <4>1
        <4>3. l + 1 = k + 1
          BY <1>1, <4>1, <4>2 DEF WaitInv
        <4>4. QED
          BY <4>1, <4>3
      <3>3. QED
        BY <3>1, <3>2
    <2>2. QED
      BY <1>11, <2>1
  <1>13. LastInv'
    <2> SUFFICES ASSUME NEW i \in Job, queue'[i] # << >>
                 PROVE  LET e == queue'[i][Len(queue'[i])]
                        IN  /\ e.kind = "snapshot" => e.rec = job'[i]
                            /\ e.kind = "archive" => op'[e.who].todo = <<"unlist">>
      BY DEF LastInv
    <2>1. PICK m \in 1 .. Len(queue'[i]) : m = Len(queue'[i])
      BY <1>7, LastEntry DEF Typed
    <2>2. op'[queue'[i][m].who] = op[queue'[i][m].who]
      BY <1>11
    <2>3. queue[i] # << >> /\ queue'[i][m] = queue[i][Len(queue[i])]
      <3>1. CASE i # j
        BY <1>3, <2>1, <3>1
      <3>2. CASE i = j
        <4>1. m = n /\ m \in 1 .. n
          BY <1>5, <2>1, <3>2
        <4>2. queue'[j][n] = queue[j][n + 1] /\ Len(queue[j]) = n + 1
          BY <1>5, <4>1
        <4>3. queue[j] # << >>
          BY <1>3
        <4>4. QED
          BY <3>2, <4>1, <4>2, <4>3
      <3>3. QED
        BY <3>1, <3>2
    <2>4. QED
      BY <1>1, <1>3, <2>1, <2>2, <2>3 DEF LastInv
  \* The last write of a job to land leaves the file as the job is.
  <1>14. DiskInv'
    <2> SUFFICES ASSUME NEW i \in listed' \ lost', queue'[i] = << >>
                 PROVE  disk'[i] = job'[i] \/ \E h \in Fiber : Unlisting(h, i)'
      BY DEF DiskInv
    <2>0. i \in Job /\ i \in listed
      BY <1>1, <1>3 DEF Typed
    <2>1. CASE i # j
      <3>1. queue[i] = << >> /\ disk'[i] = disk[i] /\ i \in listed \ lost
        BY <1>1, <1>2, <1>3, <2>0, <2>1 DEF Effect, Typed
      <3>2. CASE disk[i] = job[i]
        BY <1>3, <3>1, <3>2
      <3>3. ASSUME NEW h \in Fiber, Unlisting(h, i) PROVE Unlisting(h, i)'
        BY <1>3, <2>1, <3>3 DEF Unlisting
      <3>4. QED
        BY <1>1, <3>1, <3>2, <3>3 DEF DiskInv
    <2>2. CASE i = j
      <3>1. Len(queue[j]) = 1 /\ queue[j] # << >>
        <4>1. Len(queue'[j]) = 0
          BY <2>2
        <4>2. n = 0 /\ Len(queue[j]) = 1
          BY <1>5, <4>1
        <4>3. queue[j] # << >>
          BY <1>3
        <4>4. QED
          BY <4>2, <4>3
      <3>2. disk'[j] = Written(j, queue[j][1]) /\ o.todo = op[g].todo
        BY <1>1, <1>2, <2>2 DEF Effect, Typed
      <3>3. /\ queue[j][1].kind = "snapshot" => queue[j][1].rec = job[j]
            /\ queue[j][1].kind = "archive" => op[g].todo = <<"unlist">>
        BY <1>1, <1>3, <3>1 DEF LastInv
      <3>4. queue[j][1].kind \in {"snapshot", "log", "archive"}
        BY <1>3 DEF Entry
      <3>5. CASE queue[j][1].kind = "snapshot"
        BY <1>3, <2>2, <3>2, <3>3, <3>5 DEF Written
      <3>6. CASE queue[j][1].kind = "log"
        BY <1>3, <2>2, <3>2, <3>6 DEF Written
      <3>7. CASE queue[j][1].kind = "archive"
        <4>1. Unlisting(g, j)'
          BY <1>3, <3>2, <3>3, <3>7 DEF Unlisting
        <4>2. QED
          BY <2>2, <4>1
      <3>8. QED
        BY <3>4, <3>5, <3>6, <3>7
    <2>3. QED
      BY <2>1, <2>2
  <1>15. SoundInv'
    <2>0. backups' = backups
      BY <1>2 DEF Effect, site
    <2>1. \A i \in Job : Sound(i, job[i])'
      BY <1>1, <1>3, <2>0 DEF SoundInv, Sound
    <2>2. ASSUME NEW i \in Job, disk'[i] # None PROVE Sound(i, disk[i])'
      <3>1. Sound(j, queue[j][1].rec) /\ Sound(j, job[j])
        BY <1>1, <1>3 DEF SoundInv, Sound
      <3>2. queue[j][1].kind \in {"snapshot", "log", "archive"}
        BY <1>3 DEF Entry
      <3>3. Written(j, queue[j][1]) = None \/ Sound(j, Written(j, queue[j][1]))
        BY <3>1, <3>2 DEF Written
      <3>4. disk'[i] = disk[i] \/ (i = j /\ disk'[i] = Written(j, queue[j][1]))
        BY <1>1, <1>2 DEF Effect, Typed
      <3>5. QED
        BY <1>1, <2>0, <2>2, <3>3, <3>4 DEF SoundInv, Sound
    <2>3. ASSUME NEW i \in Job, NEW k \in 1 .. Len(queue'[i]) PROVE Sound(i, queue[i][k].rec)'
      <3>1. CASE i # j
        BY <1>1, <1>3, <2>0, <3>1 DEF SoundInv, Sound
      <3>2. CASE i = j
        <4>1. k + 1 \in 1 .. Len(queue[j]) /\ queue'[i][k] = queue[j][k + 1]
          BY <1>5, <3>2
        <4>2. QED
          BY <1>1, <2>0, <3>2, <4>1 DEF SoundInv, Sound
      <3>3. QED
        BY <3>1, <3>2
    <2>4. ASSUME NEW h \in Fiber, op'[h].job # None
          PROVE  /\ EndsIn(op'[h].todo, Trusting) \/ op'[h].path \in Releases(backups'[op'[h].job])
                    => job'[op'[h].job].verified
                 /\ op'[h].path <= Len(backups'[op'[h].job])
      <3>1. /\ op'[h].job = op[h].job /\ op'[h].path = op[h].path
            /\ EndsIn(op'[h].todo, Trusting) <=> EndsIn(op[h].todo, Trusting)
        BY <1>3, <1>4
      <3>2. QED
        BY <1>1, <1>3, <2>0, <2>4, <3>1 DEF SoundInv, Trusted, J
    <2>5. \A h \in Fiber : Trusted(h)'
      BY <2>4 DEF Trusted, EndsIn, J
    <2>6. QED
      BY <2>1, <2>2, <2>3, <2>5 DEF SoundInv, Sound
  <1>16. QED
    BY <1>7, <1>8, <1>9, <1>12, <1>13, <1>14, <1>15 DEF IInv

\* A restart takes every job up from its file, with nothing waiting and nobody at work.
LEMMA RestartStep ==
    ASSUME IInv, Restart, calls' \in 0 .. MaxCalls
    PROVE  IInv'
  <1>1. Typed /\ SoundInv
    BY DEF IInv
  <1>2. /\ queue' = [i \in Job |-> << >>] /\ op' = [f \in Fiber |-> Idle] /\ lifecycle' = None
        /\ listed' = {i \in Job : disk[i] # None}
        /\ job' = [i \in Job |-> IF disk[i] = None THEN NoJob ELSE Recovered(disk[i])]
        /\ disk' = [i \in Job |-> IF disk[i] = None THEN None ELSE Recovered(disk[i])]
    BY DEF Restart
  <1>3. ASSUME NEW i \in Job
        PROVE  /\ disk[i] # None => disk[i] \in JobRecord
               /\ disk[i] # None => Sound(i, disk[i])
    BY <1>1 DEF Typed, SoundInv
  <1>4. ASSUME NEW i \in Job
        PROVE  job'[i] \in JobRecord /\ Sound(i, job'[i]) /\ job'[i].state \notin Active
    <2>1. CASE disk[i] = None
      BY <1>2, <2>1, NoJobRecord, NoJobSound, <1>1 DEF NoJob, Active, Downloading
    <2>2. CASE disk[i] # None
      BY <1>2, <1>3, <2>2, RecoveredFacts
    <2>3. QED
      BY <2>1, <2>2
  <1>5. ASSUME NEW i \in Job
        PROVE  /\ disk'[i] \in JobRecord \cup {None}
               /\ disk'[i] # None => Sound(i, disk'[i])
    BY <1>2, <1>3, RecoveredFacts
  <1>6. Typed'
    <2>1. faults' \in 0 .. MaxFaults
      BY <1>1, ReleaseAssumption DEF Restart, Typed
    <2>2. job' \in [Job -> JobRecord] /\ disk' \in [Job -> JobRecord \cup {None}]
      BY <1>2, <1>4, <1>5
    <2>3. op' \in [Fiber -> ShapedCall] /\ queue' \in [Job -> Seq(Entry)] /\ listed' \subseteq Job
      BY <1>2, IdleCall
    <2>4. QED
      BY <1>1, <2>1, <2>2, <2>3 DEF Restart, Typed, site
  <1>7. OwedInv' /\ ReservedInv'
    BY <1>2, <1>4 DEF OwedInv, ReservedInv
  <1>8. WaitInv' /\ LastInv'
    BY <1>2 DEF WaitInv, LastInv
  <1>9. DiskInv'
    BY <1>2 DEF DiskInv
  <1>10. SoundInv'
    <2>1. backups' = backups
      BY DEF Restart, site
    <2>2. \A f \in Fiber : Trusted(f)'
      BY <1>2, IdleCall DEF Trusted
    <2>3. \A i \in Job : Sound(i, job[i])' /\ (disk'[i] # None => Sound(i, disk[i])')
      BY <1>4, <1>5, <2>1 DEF Sound
    <2>4. \A i \in Job : Len(queue'[i]) = 0
      BY <1>2
    <2>5. QED
      BY <2>2, <2>3, <2>4 DEF SoundInv
  <1>11. QED
    BY <1>6, <1>7, <1>8, <1>9, <1>10 DEF IInv

LEMMA NextInv == IInv /\ [Next]_vars => IInv'
  <1> SUFFICES ASSUME IInv, [Next]_vars PROVE IInv'
    OBVIOUS
  <1>1. Typed /\ OwedInv /\ ReservedInv /\ WaitInv /\ LastInv /\ DiskInv /\ SoundInv
    BY DEF IInv
  <1>2. CASE UNCHANGED vars
    <2>1. /\ UNCHANGED <<calls, job, listed, disk, queue, lifecycle, controller, op>>
          /\ UNCHANGED <<target, backups, displaced, faults, lost, dropped>>
      BY <1>2 DEF vars, site, adapter
    <2>2. Typed' /\ OwedInv' /\ ReservedInv'
      BY <1>1, <2>1 DEF Typed, OwedInv, ReservedInv
    <2>3. WaitInv' /\ LastInv' /\ DiskInv'
      BY <1>1, <2>1 DEF WaitInv, LastInv, DiskInv, Unlisting
    <2>4. SoundInv'
      BY <1>1, <2>1 DEF SoundInv, Sound, Trusted, J
    <2>5. QED
      BY <2>2, <2>3, <2>4 DEF IInv
  <1>3. CASE Next
    <2>1. calls' \in 0 .. MaxCalls
      BY <1>1, <1>3, ReleaseAssumption DEF Next, Typed
    <2>2. ASSUME NEW f \in Fiber, Steps(f) PROVE IInv'
      BY <1>1, <2>1, <2>2, StepTyped, StepOwed, StepQueues, StepDisk, StepSound DEF IInv
    <2>3. QED
      BY <1>1, <1>3, <2>1, <2>2, EveryStep, WriteStep, RestartStep
  <1>4. QED
    BY <1>2, <1>3

LEMMA Invariance == Spec => []IInv
  BY InitInv, NextInv, PTL DEF Spec

-----------------------------------------------------------------------------
(* Theorems *)

\* Every job, file, queue and call has its type, whatever interleaves and whatever fails.
THEOREM Typing == Spec => []TypeOK
  <1>1. IInv => TypeOK
    BY DEF IInv, Typed, TypeOK, ShapedCall
  <1>2. QED
    BY <1>1, Invariance, PTL

\* A job in an active state has a call at work on it, except where a rejected write
\* ended the call outside its try or at the log of its catch.
THEOREM NobodyForgetsAJob == Spec => []NoOrphanedJob
  <1>1. IInv => NoOrphanedJob
    BY DEF IInv, OwedInv, NoOrphanedJob, Working
  <1>2. QED
    BY <1>1, Invariance, PTL

\* While the lifecycle is reserved for a job, an installation or a rollback of that job is
\* going on, with the same exception.
THEOREM LifecycleIsGivenBack == Spec => []LifecycleComesBack
  <1>1. ASSUME IInv, lifecycle \notin dropped \cup {None}
         PROVE  \E f \in Fiber : op[f].job = lifecycle /\ InLifecycle(f)
    <2>1. PICK f \in Fiber : op[f].job = lifecycle /\ EndsIn(op[f].todo, Reserving)
      BY <1>1 DEF IInv, ReservedInv
    <2>2. op[f].todo \in Seq(Label)
      BY <1>1 DEF IInv, Typed, ShapedCall, ShapedTodo
    <2>3. PICK n \in Nat : n = Len(op[f].todo) /\ n \in DOMAIN op[f].todo
      BY <2>1, <2>2 DEF EndsIn
    <2>4. op[f].todo[n] \in Range(op[f].todo) /\ op[f].todo[n] \in Reserving
      BY <2>1, <2>3 DEF EndsIn, Range
    <2>5. InLifecycle(f)
      BY <2>4 DEF InLifecycle, Reserving
    <2>6. QED
      BY <2>1, <2>5
  <1>2. IInv => LifecycleComesBack
    BY <1>1 DEF LifecycleComesBack
  <1>3. QED
    BY <1>2, Invariance, PTL

\* Once the writes of a listed job have landed and no call is at work on it, its file is
\* what the manager shows, unless the last write was rejected.
THEOREM FilesFollowJobs == Spec => []QuietMeansPersisted
  <1>1. ASSUME IInv, NEW j \in listed \ lost, ~Working(j) PROVE disk[j] = job[j]
    <2>1. j \in Job /\ queue[j] \in Seq(Entry)
      BY <1>1 DEF IInv, Typed
    <2>2. queue[j] = << >>
      <3> SUFFICES ASSUME queue[j] # << >> PROVE FALSE
        OBVIOUS
      <3>1. PICK n \in 1 .. Len(queue[j]) : n = Len(queue[j])
        BY <2>1, LastEntry
      <3>2. queue[j][n] \in Entry
        BY <2>1
      <3>3. queue[j][n].who \in Fiber /\ op[queue[j][n].who].job = j
        BY <1>1, <2>1, <3>2 DEF Entry, IInv, WaitInv
      <3>4. QED
        BY <1>1, <3>3 DEF Working
    <2>3. QED
      BY <1>1, <2>2 DEF IInv, DiskInv, Unlisting, Working
  <1>2. IInv => QuietMeansPersisted
    BY <1>1 DEF QuietMeansPersisted
  <1>3. QED
    BY <1>2, Invariance, PTL

\* A release comes to the target, by an installation or from a backup, only for a job
\* whose bundle was verified and staged.
THEOREM OnlyVerifiedIsInstalled == Spec => InstalledWasVerified
  <1> DEFINE A == \A j \in Job : target'[j] = "new" /\ target[j] # "new" => job[j].verified
  <1>1. IInv /\ [Next]_vars => [A]_vars
    <2> SUFFICES ASSUME IInv, Next PROVE A
      OBVIOUS
    <2>1. Typed /\ SoundInv
      BY DEF IInv
    <2>2. CASE \E f \in Fiber : Steps(f)
      BY <2>1, <2>2, StepSound
    <2>3. CASE (\E j \in Job : Write(j)) \/ Restart
      BY <2>3 DEF Write, Restart, site
    <2>4. QED
      BY <2>1, <2>2, <2>3, EveryStep
  <1>2. QED
    BY <1>1, Invariance, PTL DEF Spec, InstalledWasVerified
=============================================================================
