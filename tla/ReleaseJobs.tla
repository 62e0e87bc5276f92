----------------------------- MODULE ReleaseJobs -----------------------------
(***************************************************************************)
(* ReleaseJobManager of the desktop application                             *)
(* (src/backend/electron/release-job-manager.cjs): download, verify, stage, *)
(* install and roll back a release, each as a job with a file of its own.   *)
(*                                                                          *)
(* One JavaScript thread runs every call, so what happens between two       *)
(* awaits is one action, and the calls interleave at their awaits.  A call  *)
(* in progress is a fiber; `todo' holds the continuations that follow the   *)
(* await it sits at.  Every change of a job is followed by an await of its  *)
(* file: snapshots queue up per job (_serializeStorage) and are written in  *)
(* order.  Downloads, verification, staging and dialogs are awaits that the  *)
(* environment ends, well or badly.  So are the installation and its        *)
(* rollback, which the gateway refuses when the target is no longer what it *)
(* was at the challenge the person answered.                                *)
(***************************************************************************)
EXTENDS Naturals, Sequences, SequencesExt

CONSTANTS
    Job,
    Fiber,
    Downloads,             \* the downloading states of a release, in order
    MaxCalls,              \* bound: calls made
    MaxFaults,             \* bound: writes the adapter rejects and restarts of the application, together
    None

Terminal == {"ready", "completed", "cancelled", "failed", "rolled-back"}
Downloading == {"downloading-checksum", "downloading-signature", "downloading"}
Active == Downloading \cup {"queued", "verifying", "staging", "installing", "rolling-back"}

ASSUME ReleaseAssumption ==
    /\ Downloads \in Seq(Downloading) /\ Downloads # << >>
    /\ MaxCalls \in Nat /\ MaxFaults \in Nat
    /\ None \notin Job \cup Fiber

VARIABLES
    job,                   \* [Job -> record] the job object in memory
    listed,                \* the jobs in the manager's map
    disk,                  \* [Job -> record or None] the job's file
    queue,                 \* [Job -> Seq] storageQueues: writes waiting, oldest first
    lifecycle,             \* activeLifecycleJob
    controller,            \* [Job -> Fiber or None] whose download the runtime entry can abort
    target,                \* [Job -> Content] what is installed at the target
    backups,               \* [Job -> Seq] what each installation of the job set aside
    displaced,             \* [Job -> set of names] where rollbacks moved the target to
    op,                    \* [Fiber -> the call it is inside]
    calls, faults,
    lost,                  \* ghost: jobs whose last write was rejected
    dropped                \* ghost: jobs left by a call that a rejection ended outside its try, or in its catch

adapter == <<faults, lost, dropped>>
site == <<target, backups, displaced>>
vars == <<calls, job, listed, disk, queue, lifecycle, controller, site, op, adapter>>

\* The earlier runtime, the release, or nothing.
Content == {"old", "new", "gone"}
Aside == {"none", "failed", "replaced"}

\* What is at the backup of the k-th installation.  It set nothing aside ("gone") if it
\* created the target (created_target); "used" is a backup that was moved back.
Backup(j, k) == IF k \in DOMAIN backups[j] THEN backups[j][k] ELSE "none"

NoJob == [state |-> "absent", cancel |-> FALSE, backup |-> 0, rollback |-> FALSE, verified |-> FALSE]
Idle == [job |-> None, todo |-> << >>, waiting |-> FALSE, phase |-> 0, aborted |-> FALSE, ref |-> None,
         path |-> 0, aside |-> "none", seen |-> None]
Label == {"log", "run", "download", "network", "downloaded", "cancelled", "verify", "stage", "staged", "end",
          "challenge", "dialog", "helper", "receipt", "validate", "complete", "completed", "recover",
          "restore", "settle", "release", "request", "undo", "undone", "rolled", "over",
          "abort", "unlist", "closed", "thrown"}

JobRecord ==
    [state : Terminal \cup Active \cup {"absent"}, cancel : BOOLEAN, backup : Nat,
     rollback : BOOLEAN, verified : BOOLEAN]
Sight == [runtime : Content, backup : Content \cup {"used", "none"}, taken : BOOLEAN]
CallRecord ==
    [job : Job \cup {None}, todo : Seq(Label), waiting : BOOLEAN, phase : Nat, aborted : BOOLEAN,
     ref : Fiber \cup {None}, path : Nat, aside : Aside, seen : Sight \cup {None}]
Entry == [who : Fiber, kind : {"snapshot", "log", "archive"}, rec : JobRecord]

TypeOK ==
    /\ job \in [Job -> JobRecord]
    /\ listed \subseteq Job
    /\ disk \in [Job -> JobRecord \cup {None}]
    /\ queue \in [Job -> Seq(Entry)]
    /\ lifecycle \in Job \cup {None}
    /\ controller \in [Job -> Fiber \cup {None}]
    /\ target \in [Job -> Content]
    /\ backups \in [Job -> Seq(Content \cup {"used"})]
    /\ displaced \in [Job -> SUBSET Aside]
    /\ op \in [Fiber -> CallRecord]
    /\ calls \in 0 .. MaxCalls /\ faults \in 0 .. MaxFaults
    /\ lost \subseteq Job /\ dropped \subseteq Job

Init ==
    /\ job = [j \in Job |-> NoJob]
    /\ listed = {}
    /\ disk = [j \in Job |-> None]
    /\ queue = [j \in Job |-> << >>]
    /\ lifecycle = None
    /\ controller = [j \in Job |-> None]
    /\ target = [j \in Job |-> "old"]
    /\ backups = [j \in Job |-> << >>]
    /\ displaced = [j \in Job |-> {}]
    /\ op = [f \in Fiber |-> Idle]
    /\ calls = 0 /\ faults = 0
    /\ lost = {} /\ dropped = {}

-----------------------------------------------------------------------------
(* Fibers and the job's file *)

At(f, label) == ~op[f].waiting /\ op[f].todo # << >> /\ Head(op[f].todo) = label
J(f) == job[op[f].job]
In(rec, s) == [rec EXCEPT !.state = s]

\* The fiber changes its job, queues a write of it and awaits that write.
Await(f, j, kind, rec, then) ==
    /\ job' = [job EXCEPT ![j] = rec]
    /\ queue' = [queue EXCEPT ![j] = Append(@, [who |-> f, kind |-> kind, rec |-> rec])]
    /\ op' = [op EXCEPT ![f] = [@ EXCEPT !.job = j, !.todo = then, !.waiting = TRUE]]

\* _update and _emit.
Save(f, rec, then) == Await(f, op[f].job, "snapshot", rec, then)

\* _log: its snapshot is taken when its turn comes.
LogThen(f, then) ==
    LET j == op[f].job
    IN  /\ queue' = [queue EXCEPT ![j] = Append(@, [who |-> f, kind |-> "log", rec |-> NoJob])]
        /\ op' = [op EXCEPT ![f] = [@ EXCEPT !.todo = then, !.waiting = TRUE]]
        /\ UNCHANGED job

Done(f) == op' = [op EXCEPT ![f] = Idle] /\ UNCHANGED <<job, queue>>

Log(f) ==
    /\ At(f, "log")
    /\ LogThen(f, Tail(op[f].todo))
    /\ UNCHANGED <<listed, disk, lifecycle, controller, site, adapter>>

Written(j, entry) ==
    CASE entry.kind = "snapshot" -> entry.rec
      [] entry.kind = "log" -> job[j]
      [] entry.kind = "archive" -> None

\* Faulty: each write starts at once, so any of the waiting ones may land last.
WriteUnordered(j) ==
    /\ \E i \in DOMAIN queue[j] :
          LET entry == queue[j][i]
          IN  /\ queue' = [queue EXCEPT ![j] = RemoveAt(@, i)]
              /\ disk' = [disk EXCEPT ![j] = Written(j, entry)]
              /\ op' = [op EXCEPT ![entry.who].waiting = FALSE]
    /\ lost' = lost \ {j}
    /\ UNCHANGED <<job, listed, lifecycle, controller, site, faults, dropped>>

\* _serializeStorage: the oldest write of the job lands, or the adapter rejects it.
Write(j) ==
    /\ queue[j] # << >>
    /\ queue' = [queue EXCEPT ![j] = Tail(@)]
    /\ LET entry == Head(queue[j])
       IN  \/ /\ disk' = [disk EXCEPT ![j] = Written(j, entry)]
              /\ op' = [op EXCEPT ![entry.who].waiting = FALSE]
              /\ lost' = lost \ {j}
              /\ UNCHANGED faults
           \/ /\ faults < MaxFaults
              /\ faults' = faults + 1
              /\ op' = [op EXCEPT ![entry.who].waiting = FALSE,
                                   ![entry.who].todo = <<"thrown">> \o @]
              /\ lost' = lost \cup {j}
              /\ UNCHANGED disk
    /\ UNCHANGED <<job, listed, lifecycle, controller, site, dropped>>

\* _fail: the runner's last word, unless the job is already cancelled.
Fail(f, cancelled) ==
    IF J(f).state = "cancelled" THEN Done(f)
    ELSE IF cancelled \/ J(f).cancel THEN Save(f, In(J(f), "cancelled"), <<"end">>)
    ELSE Save(f, In(J(f), "failed"), <<"log", "end">>)

End(f) ==
    /\ At(f, "end") \/ At(f, "staged") \/ At(f, "closed")
    /\ Done(f)
    /\ UNCHANGED <<listed, disk, lifecycle, controller, site, adapter>>

-----------------------------------------------------------------------------
(* startPrepare, resume, and the runner *)

\* A new job has a name of its own, and so have the paths its rollbacks move to.
StartPrepare(f, j) ==
    /\ op[f] = Idle
    /\ job[j].state = "absent"
    /\ listed' = listed \cup {j}
    /\ Await(f, j, "snapshot", In(NoJob, "queued"), <<"log", "run">>)
    /\ displaced' = [displaced EXCEPT ![j] = {}]
    /\ UNCHANGED <<disk, lifecycle, controller, target, backups, adapter>>

Resumable(j) == job[j].state \in {"cancelled", "failed"}

\* The preflight lets the job in the queue again, or fails it.
Resume(f, j) ==
    /\ op[f] = Idle
    /\ j \in listed
    /\ Resumable(j)
    /\ \/ Await(f, j, "snapshot", [In(job[j], "queued") EXCEPT !.cancel = FALSE], <<"log", "run">>)
       \/ Await(f, j, "snapshot", In(job[j], "failed"), <<"log", "closed">>)
    /\ UNCHANGED <<listed, disk, lifecycle, controller, site, adapter>>

RunPrepare(f) ==
    /\ At(f, "run")
    /\ Save(f, [In(J(f), Downloads[1]) EXCEPT !.cancel = FALSE], <<"download">>)
    /\ UNCHANGED <<listed, disk, lifecycle, controller, site, adapter>>

\* _download registers its controller in the runtime entry, over any other.
Download(f) ==
    /\ At(f, "download")
    /\ controller' = [controller EXCEPT ![op[f].job] = f]
    /\ op' = [op EXCEPT ![f].todo = <<"network">>, ![f].phase = @ + 1, ![f].aborted = FALSE]
    /\ UNCHANGED <<job, listed, disk, queue, lifecycle, site, adapter>>

\* The finally clause clears the runtime entry, whoever registered in it.
Unregister(f) == controller' = [controller EXCEPT ![op[f].job] = None]

\* The catch clause of _download.
Aborted(f) == Save(f, In(J(f), "cancelled"), <<"log", "cancelled">>)

\* The asset arrives, or the transfer fails or is aborted.
Network(f) ==
    /\ At(f, "network")
    /\ \/ /\ J(f).cancel \/ op[f].aborted
          /\ Aborted(f)
          /\ UNCHANGED controller
       \/ /\ ~J(f).cancel
          /\ Save(f, J(f), <<"downloaded">>)
          /\ UNCHANGED controller
       \/ /\ ~op[f].aborted /\ ~J(f).cancel
          /\ Fail(f, FALSE)
          /\ Unregister(f)
    /\ UNCHANGED <<listed, disk, lifecycle, site, adapter>>

\* The next asset, or the verification once all are there; the checksum file, which
\* comes first, may turn out to be no checksum.
Downloaded(f) ==
    /\ At(f, "downloaded")
    /\ Unregister(f)
    /\ \/ /\ op[f].phase < Len(Downloads)
          /\ Save(f, In(J(f), Downloads[op[f].phase + 1]), <<"download">>)
       \/ op[f].phase = 1 /\ op[f].phase < Len(Downloads) /\ Fail(f, FALSE)
       \/ op[f].phase >= Len(Downloads) /\ J(f).cancel /\ Fail(f, TRUE)
       \/ /\ op[f].phase >= Len(Downloads) /\ ~J(f).cancel
          /\ Save(f, In(J(f), "verifying"), <<"verify">>)
    /\ UNCHANGED <<listed, disk, lifecycle, site, adapter>>

Cancelled(f) ==
    /\ At(f, "cancelled")
    /\ Unregister(f)
    /\ Fail(f, TRUE)
    /\ UNCHANGED <<listed, disk, lifecycle, site, adapter>>

\* Checksum, ZIP header and signature hold, or one of them does not.
Verify(f) ==
    /\ At(f, "verify")
    /\ Save(f, In(J(f), "staging"), <<"stage">>) \/ Fail(f, FALSE)
    /\ UNCHANGED <<listed, disk, lifecycle, controller, site, adapter>>

Stage(f) ==
    /\ At(f, "stage")
    /\ \/ Save(f, [In(J(f), "ready") EXCEPT !.verified = TRUE], <<"log", "staged">>)
       \/ Fail(f, FALSE)
    /\ UNCHANGED <<listed, disk, lifecycle, controller, site, adapter>>

-----------------------------------------------------------------------------
(* cancel and deleteJob *)

\* The runtime entry is read before the log is awaited: `phase' and `ref' name the
\* download it could abort then; another download may have replaced or cleared it.
Cancel(f, j) ==
    /\ op[f] = Idle
    /\ j \in listed
    /\ job[j].state \notin Terminal \cup {"installing"}
    /\ LET g == controller[j]
       IN  /\ job' = [job EXCEPT ![j].cancel = TRUE]
           /\ queue' = [queue EXCEPT ![j] = Append(@, [who |-> f, kind |-> "log", rec |-> NoJob])]
           /\ op' = [op EXCEPT ![f] = [Idle EXCEPT !.job = j, !.todo = <<"abort">>, !.waiting = TRUE,
                        !.ref = g, !.phase = IF g = None THEN 0 ELSE op[g].phase]]
    /\ UNCHANGED <<listed, disk, lifecycle, controller, site, adapter>>

Abort(f) ==
    LET g == op[f].ref
        transferring == g # None /\ At(g, "network") /\ op[g].phase = op[f].phase
    IN  /\ At(f, "abort")
        /\ \E hit \in BOOLEAN :
              /\ hit => transferring
              /\ transferring /\ controller[op[f].job] = g => hit
              /\ op' = [h \in Fiber |-> IF h = f THEN Idle
                                        ELSE IF hit /\ h = g THEN [op[g] EXCEPT !.aborted = TRUE]
                                        ELSE op[h]]
        /\ UNCHANGED <<job, listed, disk, queue, lifecycle, controller, site, adapter>>

Delete(f, j) ==
    /\ op[f] = Idle
    /\ j \in listed
    /\ job[j].state \in Terminal
    /\ Await(f, j, "archive", job[j], <<"unlist">>)
    /\ UNCHANGED <<listed, disk, lifecycle, controller, site, adapter>>

Unlist(f) ==
    /\ At(f, "unlist")
    /\ listed' = listed \ {op[f].job}
    /\ Unregister(f)
    /\ Done(f)
    /\ UNCHANGED <<disk, lifecycle, site, adapter>>

-----------------------------------------------------------------------------
(* install and rollback *)

\* Faulty: a job that failed can be installed without preparing it again.
InstallTerminal(f, j) ==
    /\ op[f] = Idle
    /\ j \in listed
    /\ job[j].state \in Terminal
    /\ lifecycle = None
    /\ op' = [op EXCEPT ![f] = [Idle EXCEPT !.job = j, !.todo = <<"challenge", "dialog">>]]
    /\ UNCHANGED <<job, queue, listed, disk, lifecycle, controller, site, adapter>>

\* Up to prepareInstall.  A failed preflight keeps the job ready.
Install(f, j) ==
    /\ op[f] = Idle
    /\ j \in listed
    /\ job[j].state = "ready"
    /\ lifecycle = None
    /\ \/ /\ op' = [op EXCEPT ![f] = [Idle EXCEPT !.job = j, !.todo = <<"challenge", "dialog">>]]
          /\ UNCHANGED <<job, queue>>
       \/ Await(f, j, "snapshot", job[j], <<"log", "closed">>)
    /\ UNCHANGED <<listed, disk, lifecycle, controller, site, adapter>>

Sees(f) ==
    [runtime |-> target[op[f].job], backup |-> Backup(op[f].job, op[f].path),
     taken |-> op[f].aside \in displaced[op[f].job]]

\* The backend digests the target, and the paths of a rollback, for the challenge that
\* the dialog is about.
Challenge(f) ==
    /\ At(f, "challenge")
    /\ op' = [op EXCEPT ![f].todo = Tail(@), ![f].seen = Sees(f)]
    /\ UNCHANGED <<job, listed, disk, queue, lifecycle, controller, site, adapter>>

Unchanged(f) == Sees(f) = op[f].seen

\* Nothing of what the call checked before the dialog is checked after it.
Dialog(f) ==
    /\ At(f, "dialog")
    /\ \/ Done(f) /\ UNCHANGED lifecycle
       \/ /\ lifecycle' = op[f].job
          /\ Save(f, [In(J(f), "installing") EXCEPT !.cancel = FALSE], <<"log", "helper">>)
    /\ UNCHANGED <<listed, disk, controller, site, adapter>>

\* _runInstaller: the gateway's receipt, or a refusal or failure that left the target alone.
\* The receipt names the backup of what was there; its answer may be lost.
Helper(f) ==
    LET j == op[f].job
    IN  /\ At(f, "helper")
        /\ \/ /\ Unchanged(f)
              /\ target' = [target EXCEPT ![j] = "new"]
              /\ backups' = [backups EXCEPT ![j] = Append(@, target[j])]
              /\ queue' = [queue EXCEPT ![j] = Append(@, [who |-> f, kind |-> "log", rec |-> NoJob])]
              /\ \E next \in {"receipt", "recover"} :
                    op' = [op EXCEPT ![f].todo = <<next>>, ![f].waiting = TRUE,
                                     ![f].path = Len(backups[j]) + 1]
              /\ UNCHANGED <<job, displaced>>
           \/ LogThen(f, <<"recover">>) /\ UNCHANGED site
        /\ UNCHANGED <<listed, disk, lifecycle, controller, adapter>>

Receipt(f) ==
    /\ At(f, "receipt")
    /\ Save(f, [J(f) EXCEPT !.backup = op[f].path], <<"validate">>)
    /\ UNCHANGED <<listed, disk, lifecycle, controller, site, adapter>>

\* _validateInstalled.
Validate(f) ==
    /\ At(f, "validate")
    /\ Save(f, J(f), <<"complete">>) \/ LogThen(f, <<"recover">>)
    /\ UNCHANGED <<listed, disk, lifecycle, controller, site, adapter>>

Complete(f) ==
    /\ At(f, "complete")
    /\ Save(f, [In(J(f), "completed") EXCEPT !.rollback = (J(f).backup # 0)], <<"log", "completed">>)
    /\ UNCHANGED <<listed, disk, lifecycle, controller, site, adapter>>

\* The catch clause: cancelled or failed, after what could be undone was undone.
Settled(f, rec, recovered) ==
    Save(f, In(rec, IF rec.cancel /\ recovered THEN "cancelled" ELSE "failed"), <<"release">>)

Created(f) == Backup(op[f].job, J(f).backup) = "gone"

\* _restoreAtomicBackup reads the backup's path and chooses the name that the target is
\* moved to, and then awaits a write of the job and the person's answer.
AskRestore(f, aside, then) ==
    LET j == op[f].job
    IN  /\ queue' = [queue EXCEPT ![j] = Append(@, [who |-> f, kind |-> "snapshot", rec |-> job[j]])]
        /\ op' = [op EXCEPT ![f].todo = then, ![f].waiting = TRUE,
                            ![f].path = IF Created(f) THEN 0 ELSE job[j].backup, ![f].aside = aside]
        /\ UNCHANGED job

Recover(f) ==
    /\ At(f, "recover")
    /\ IF J(f).backup # 0 THEN AskRestore(f, "failed", <<"challenge", "restore">>)
       ELSE Settled(f, J(f), TRUE)
    /\ UNCHANGED <<listed, disk, lifecycle, controller, site, adapter>>

\* created_target is not reset.
Restored(f) == [J(f) EXCEPT !.backup = IF Created(f) THEN @ ELSE 0, !.rollback = FALSE]

\* _execute_rollback.  The target makes room for the backup; without one it just goes.
\* What is done already is not done again.
RolledBack(f) ==
    LET j == op[f].job
        saved == Sees(f).backup
        there == target[j] # "gone"
        taken == Sees(f).taken
    IN  /\ Unchanged(f)
        /\ \/ there /\ ~taken /\ saved # "used"
           \/ ~there /\ saved \notin {"none", "used"}
           \/ taken /\ saved = IF there THEN "used" ELSE "none"
        /\ target' = [target EXCEPT ![j] = CASE saved = "none" -> "gone" [] saved = "used" -> @
                                              [] OTHER -> saved]
        /\ backups' = [backups EXCEPT ![j] = [k \in DOMAIN @ |-> IF k = op[f].path THEN "used" ELSE @[k]]]
        /\ displaced' = [displaced EXCEPT ![j] = IF there THEN @ \cup {op[f].aside} ELSE @]

\* ... and it has gone when the backup turns out to be used: that is an error.
Stranded(f) ==
    LET j == op[f].job
    IN  /\ Unchanged(f)
        /\ target[j] # "gone" /\ ~Sees(f).taken /\ Sees(f).backup = "used"
        /\ target' = [target EXCEPT ![j] = "gone"]
        /\ displaced' = [displaced EXCEPT ![j] = @ \cup {op[f].aside}]
        /\ UNCHANGED backups

\* _restoreAtomicBackup(job, true): restored, declined in its dialog, or failed.
Restore(f) ==
    /\ At(f, "restore")
    /\ \/ RolledBack(f) /\ Save(f, Restored(f), <<"settle">>)
       \/ UNCHANGED site /\ Settled(f, [J(f) EXCEPT !.rollback = TRUE], TRUE)
       \/ (UNCHANGED site \/ Stranded(f)) /\ Settled(f, [J(f) EXCEPT !.rollback = TRUE], FALSE)
    /\ UNCHANGED <<listed, disk, lifecycle, controller, adapter>>

Settle(f) ==
    /\ At(f, "settle")
    /\ Settled(f, J(f), TRUE)
    /\ UNCHANGED <<listed, disk, lifecycle, controller, site, adapter>>

Rollback(f, j) ==
    /\ op[f] = Idle
    /\ j \in listed
    /\ job[j].rollback
    /\ lifecycle = None
    /\ lifecycle' = j
    /\ Await(f, j, "snapshot", In(job[j], "rolling-back"), <<"request">>)
    /\ UNCHANGED <<listed, disk, controller, site, adapter>>

Request(f) ==
    /\ At(f, "request")
    /\ AskRestore(f, IF Created(f) THEN "failed" ELSE "replaced", <<"challenge", "undo">>)
    /\ UNCHANGED <<listed, disk, lifecycle, controller, site, adapter>>

\* _restoreAtomicBackup(job, false): restored, declined in its dialog, or failed.
Undo(f) ==
    /\ At(f, "undo")
    /\ \/ RolledBack(f) /\ Save(f, Restored(f), <<"undone">>)
       \/ UNCHANGED site /\ Save(f, [In(J(f), "completed") EXCEPT !.rollback = TRUE], <<"rolled">>)
       \/ (UNCHANGED site \/ Stranded(f)) /\ Save(f, [In(J(f), "failed") EXCEPT !.rollback = TRUE], <<"over">>)
    /\ UNCHANGED <<listed, disk, lifecycle, controller, adapter>>

Undone(f) ==
    /\ At(f, "undone")
    /\ Save(f, [In(J(f), "rolled-back") EXCEPT !.rollback = FALSE], <<"log", "rolled">>)
    /\ UNCHANGED <<listed, disk, lifecycle, controller, site, adapter>>

\* Faulty: an installation declined or failed early keeps the lifecycle.
ReleaseCompletedOnly(f) ==
    /\ At(f, "release") \/ At(f, "completed")
    /\ lifecycle' = IF J(f).state = "completed" THEN None ELSE lifecycle
    /\ Unregister(f)
    /\ Done(f)
    /\ UNCHANGED <<listed, disk, site, adapter>>

\* The finally clause of install.
Release(f) ==
    /\ At(f, "release") \/ At(f, "completed")
    /\ lifecycle' = None
    /\ Unregister(f)
    /\ Done(f)
    /\ UNCHANGED <<listed, disk, site, adapter>>

\* The finally clause of rollback.
Over(f) ==
    /\ At(f, "rolled") \/ At(f, "over")
    /\ lifecycle' = None
    /\ Done(f)
    /\ UNCHANGED <<listed, disk, controller, site, adapter>>

-----------------------------------------------------------------------------
(* A rejected write, and a restart *)

Pending(f) == op[f].todo[Len(op[f].todo)]

\* Outside every clause of its call: the call just ends.
ThrownOutside(f) ==
    /\ At(f, "thrown")
    /\ Pending(f) \in {"run", "helper", "request", "end", "closed", "abort", "unlist"}
    /\ dropped' = IF Pending(f) \in {"run", "helper", "request"} THEN dropped \cup {op[f].job} ELSE dropped
    /\ Done(f)
    /\ UNCHANGED <<listed, disk, lifecycle, controller, site, faults, lost>>

\* To the runner's _fail, to the catch clause, or to the finally clause.
ThrownInside(f) ==
    /\ At(f, "thrown")
    /\ \/ /\ Pending(f) \in {"download", "verify", "stage", "staged"}
          /\ Fail(f, FALSE)
          /\ UNCHANGED controller
       \/ /\ Pending(f) \in {"downloaded", "cancelled"}
          /\ IF Pending(f) = "downloaded" /\ J(f).cancel
             THEN Aborted(f) /\ UNCHANGED controller
             ELSE Fail(f, FALSE) /\ Unregister(f)
       \/ /\ Pending(f) \in {"receipt", "validate", "complete", "completed"}
          /\ LogThen(f, <<"recover">>)
          /\ UNCHANGED controller
       \/ /\ Pending(f) \in {"restore", "settle"}
          /\ Settled(f, [J(f) EXCEPT !.rollback = TRUE], FALSE)
          /\ UNCHANGED controller
       \/ /\ Pending(f) \in {"undo", "undone", "rolled"}
          /\ Save(f, [In(J(f), "failed") EXCEPT !.rollback = TRUE], <<"over">>)
          /\ UNCHANGED controller
    /\ UNCHANGED <<listed, disk, lifecycle, site, adapter>>

\* From the catch clause itself, at its log or its last update: to the finally clause.
ThrownInCatch(f) ==
    /\ At(f, "thrown")
    /\ Pending(f) \in {"recover", "release", "over"}
    /\ dropped' = IF Pending(f) = "recover" THEN dropped \cup {op[f].job} ELSE dropped
    /\ op' = [op EXCEPT ![f].todo = <<IF Pending(f) = "over" THEN "over" ELSE "release">>]
    /\ UNCHANGED <<job, listed, disk, queue, lifecycle, controller, site, faults, lost>>

\* Faulty: a job is taken up as its file has it.
RecoveredAsIs(rec) == rec

\* _init: an interrupted job is taken up as cancelled.
Recovered(rec) == IF rec.state \in Active THEN In(rec, "cancelled") ELSE rec

\* The application dies and comes back; initialize writes what _init recovered.
Restart ==
    /\ faults < MaxFaults
    /\ faults' = faults + 1
    /\ lost' = {} /\ dropped' = {}
    /\ listed' = {j \in Job : disk[j] # None}
    /\ job' = [j \in Job |-> IF disk[j] = None THEN NoJob ELSE Recovered(disk[j])]
    /\ disk' = [j \in Job |-> IF disk[j] = None THEN None ELSE Recovered(disk[j])]
    /\ queue' = [j \in Job |-> << >>]
    /\ lifecycle' = None
    /\ controller' = [j \in Job |-> None]
    /\ op' = [f \in Fiber |-> Idle]
    /\ UNCHANGED site

Call(f, j) ==
    \/ StartPrepare(f, j) \/ Resume(f, j) \/ Cancel(f, j) \/ Delete(f, j)
    \/ Install(f, j) \/ Rollback(f, j)

Continue(f) ==
    \/ Log(f) \/ End(f) \/ ThrownOutside(f) \/ ThrownInside(f) \/ ThrownInCatch(f)
    \/ RunPrepare(f) \/ Download(f) \/ Network(f) \/ Downloaded(f) \/ Cancelled(f) \/ Verify(f) \/ Stage(f)
    \/ Abort(f) \/ Unlist(f)
    \/ Challenge(f) \/ Dialog(f) \/ Helper(f) \/ Receipt(f) \/ Validate(f) \/ Complete(f)
    \/ Recover(f) \/ Restore(f) \/ Settle(f) \/ Request(f) \/ Undo(f) \/ Undone(f)
    \/ Release(f) \/ Over(f)

Next ==
    \/ calls < MaxCalls /\ calls' = calls + 1 /\ \E f \in Fiber, j \in Job : Call(f, j)
    \/ (\E f \in Fiber : Continue(f)) /\ UNCHANGED calls
    \/ (\E j \in Job : Write(j)) /\ UNCHANGED calls
    \/ Restart /\ UNCHANGED calls

Spec == Init /\ [][Next]_vars

-----------------------------------------------------------------------------
(* Properties *)

Working(j) == \E f \in Fiber : op[f].job = j
InLifecycle(f) ==
    Range(op[f].todo) \cap {"helper", "receipt", "validate", "complete", "completed", "recover",
                            "restore", "settle", "release", "request", "undo", "undone", "rolled", "over"} # {}

\* A job in an active state has a call at work on it: none is left "downloading" or
\* "installing" with nobody to end it, when it could be neither resumed nor deleted.
\* Excepted are calls that a rejected write ended before their try, or at the log of its catch.
NoOrphanedJob == \A j \in Job \ dropped : job[j].state \in Active => Working(j)

\* The lifecycle is reserved for a job only while an installation or a rollback of that
\* job is going on, with the same exception: overlapping calls leave it to nobody else.
LifecycleComesBack ==
    lifecycle \notin dropped \cup {None} => \E f \in Fiber : op[f].job = lifecycle /\ InLifecycle(f)

\* Once all writes have landed and no call is at work, the file of a listed job is
\* what the manager shows, although snapshots were taken at different times and
\* earlier ones may have been rejected.
QuietMeansPersisted ==
    \A j \in listed \ lost : ~Working(j) => disk[j] = job[j]

\* The helper is run only on a bundle that was verified and staged.
InstalledWasVerified ==
    [][\A j \in Job : target'[j] = "new" /\ target[j] # "new" => job[j].verified]_vars

\* The rollback of an installation over an earlier runtime brings that runtime back:
\* a job that is "rolled-back" does not leave its target empty.
RolledBackIsRestored == \A j \in Job : job[j].state = "rolled-back" => target[j] # "gone"
=============================================================================
