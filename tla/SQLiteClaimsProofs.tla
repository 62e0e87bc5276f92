------------------------- MODULE SQLiteClaimsProofs -------------------------
(***************************************************************************)
(* SQLiteClaims for any number of processes, resources and generations: the *)
(* claim of a running callback is current, and the store implements         *)
(* FencedClaims.                                                            *)
(***************************************************************************)
EXTENDS SQLiteClaims, TLAPS

\* A call that presents a claim presents one that was really issued.
PresentsIssued ==
    \A c \in Client : op[c].pc \in {"renew", "release", "execute", "effect"} =>
        op[c].res \in Resource /\ op[c].token > 0

\* A call that names a resource has one.
NamesResource ==
    \A c \in Client : op[c].pc \in {"preread", "acquire"} => op[c].res \in Resource

\* No call uses a clock reading from the future: it may be stale, never early.
ReadsThePast == \A c \in Client : op[c].now <= clock

\* The inductive invariant: typing, what the calls in flight present, and the
\* writer being exactly the connection that is inside a callback.
IInv ==
    /\ TypeOK
    /\ PresentsIssued
    /\ NamesResource
    /\ ReadsThePast
    /\ RunningIsCurrent
    /\ WriterIsInEffect

LEMMA RowFacts ==
    ASSUME NEW row \in Row, NEW now \in Nat
    PROVE  /\ Issued(row, now) \in Row
           /\ Renewed(row, now) \in Row
           /\ Released(row) \in Row
           /\ Expired(row) \in Row
  BY ClaimsAssumption DEF Row, Status, Issued, Renewed, Released, Expired

LEMMA InitIInv == Init => IInv
  BY ClaimsAssumption
  DEF Init, IInv, TypeOK, PresentsIssued, NamesResource, ReadsThePast, RunningIsCurrent, WriterIsInEffect,
      Idle, Row, Status, NoRow, Waiting

\* Opening a call changes only the caller's own, idle, record.
LEMMA BeginIInv ==
    ASSUME IInv, NEW c \in Client, NEW pc \in {"preread", "renew", "release", "execute", "expire"},
           NEW r \in Resource \cup {None}, NEW t \in Nat, NEW now \in 0 .. clock,
           Begin(c, pc, r, t, now),
           pc # "expire" => r \in Resource,
           pc \in {"renew", "release", "execute"} => t > 0
    PROVE  IInv'
  <1>1. TypeOK'
    BY DEF IInv, TypeOK, Begin, Waiting
  <1>2. PresentsIssued' /\ NamesResource' /\ ReadsThePast'
    BY DEF IInv, TypeOK, PresentsIssued, NamesResource, ReadsThePast, Begin
  <1>3. RunningIsCurrent' /\ WriterIsInEffect'
    BY ClaimsAssumption DEF IInv, TypeOK, RunningIsCurrent, WriterIsInEffect, Begin
  <1>4. QED
    BY <1>1, <1>2, <1>3 DEF IInv

\* A short transaction runs while no callback does, so it disturbs none.
LEMMA TransactionIInv ==
    ASSUME IInv, NEW c \in Client, NEW pc \in Waiting, Transaction(c, pc),
           rows' \in [Resource -> Row]
    PROVE  IInv'
  <1>1. TypeOK'
    BY DEF IInv, TypeOK, Transaction, Return, Idle
  <1>2. PresentsIssued' /\ NamesResource' /\ ReadsThePast'
    BY DEF IInv, TypeOK, PresentsIssued, NamesResource, ReadsThePast, Transaction, Return, Idle
  <1>3. \A d \in Client : op[d].pc # "effect"
    BY ClaimsAssumption DEF IInv, RunningIsCurrent, Transaction
  <1>4. RunningIsCurrent' /\ WriterIsInEffect'
    BY <1>3 DEF IInv, TypeOK, RunningIsCurrent, WriterIsInEffect, Transaction, Return, Idle
  <1>5. QED
    BY <1>1, <1>2, <1>4 DEF IInv

LEMMA NextIInv == IInv /\ [Next]_vars => IInv'
  <1> SUFFICES ASSUME IInv, [Next]_vars PROVE IInv'
    OBVIOUS
  <1> USE DEF IInv
  <1>1. CASE Tick
    BY <1>1 DEF Tick, TypeOK, PresentsIssued, NamesResource, ReadsThePast, RunningIsCurrent, WriterIsInEffect
  <1>2. ASSUME NEW c \in Client, Operate(c) PROVE IInv'
    <2>1. ASSUME NEW r \in Resource, BeginAcquire(c, r) PROVE IInv'
      BY <2>1, BeginIInv DEF BeginAcquire, TypeOK
    <2>2. ASSUME NEW r \in Resource, BeginRenew(c, r) \/ BeginRelease(c, r) \/ BeginExecute(c, r)
          PROVE  IInv'
      <3>1. PICK t \in 1 .. rows[r].token :
              \/ Begin(c, "renew", r, t, clock)
              \/ Begin(c, "release", r, t, 0)
              \/ Begin(c, "execute", r, t, 0)
        BY <2>2 DEF BeginRenew, BeginRelease, BeginExecute
      <3>2. t \in Nat /\ t > 0 /\ clock \in 0 .. clock /\ 0 \in 0 .. clock
        BY <3>1 DEF TypeOK, Row
      <3>3. QED
        BY <3>1, <3>2, BeginIInv
    <2>3. CASE BeginExpire(c)
      <3>1. clock \in 0 .. clock /\ 0 \in Nat
        BY DEF TypeOK
      <3>2. QED
        BY <2>3, <3>1, BeginIInv DEF BeginExpire
    <2>4. CASE PreRead(c)
      BY <2>4, ClaimsAssumption
      DEF PreRead, Return, Idle, Waiting, TypeOK, PresentsIssued, NamesResource, ReadsThePast, RunningIsCurrent, WriterIsInEffect
    <2>5. CASE Acquire(c)
      <3>1. op[c].res \in Resource /\ op[c].now \in Nat
        BY <2>5 DEF Acquire, Transaction, TypeOK, NamesResource
      <3>2. Issued(rows[op[c].res], op[c].now) \in Row
        BY <3>1, RowFacts DEF TypeOK
      <3>3. rows' \in [Resource -> Row]
        BY <2>5, <3>1, <3>2 DEF Acquire, TypeOK
      <3>4. QED
        BY <2>5, <3>3, TransactionIInv DEF Acquire, Waiting
    <2>6. CASE Renew(c)
      <3>1. op[c].res \in Resource /\ op[c].now \in Nat
        BY <2>6 DEF Renew, Transaction, TypeOK, PresentsIssued
      <3>2. Renewed(rows[op[c].res], op[c].now) \in Row
        BY <3>1, RowFacts DEF TypeOK
      <3>3. rows' \in [Resource -> Row]
        BY <2>6, <3>1, <3>2 DEF Renew, TypeOK
      <3>4. QED
        BY <2>6, <3>3, TransactionIInv DEF Renew, Waiting
    <2>7. CASE Release(c)
      <3>1. op[c].res \in Resource /\ op[c].now \in Nat
        BY <2>7 DEF Release, Transaction, TypeOK, PresentsIssued
      <3>2. rows' \in [Resource -> Row]
        BY <2>7, <3>1, RowFacts DEF Release, TypeOK
      <3>3. QED
        BY <2>7, <3>2, TransactionIInv DEF Release, Waiting
    <2>8. CASE Expire(c)
      <3>1. rows' \in [Resource -> Row]
        BY <2>8, RowFacts, ClaimsAssumption DEF Expire, TypeOK
      <3>2. QED
        BY <2>8, <3>1, TransactionIInv DEF Expire, Waiting
    <2>9. CASE Enter(c)
      BY <2>9, ClaimsAssumption
      DEF Enter, Valid, Matches, TypeOK, Waiting, PresentsIssued, NamesResource, ReadsThePast, RunningIsCurrent, WriterIsInEffect
    <2>10. CASE Reject(c) \/ Leave(c) \/ BusyTimeout(c)
      BY <2>10, ClaimsAssumption
      DEF Reject, Leave, BusyTimeout, Return, Idle, Waiting, TypeOK, PresentsIssued, NamesResource,
          ReadsThePast, RunningIsCurrent, WriterIsInEffect
    <2>11. CASE Crash(c)
      BY <2>11, ClaimsAssumption
      DEF Crash, Return, Idle, Waiting, TypeOK, PresentsIssued, NamesResource, ReadsThePast, RunningIsCurrent, WriterIsInEffect
    <2>12. QED
      BY <1>2, <2>1, <2>2, <2>3, <2>4, <2>5, <2>6, <2>7, <2>8, <2>9, <2>10, <2>11 DEF Operate
  <1>3. CASE UNCHANGED vars
    BY <1>3 DEF vars, TypeOK, PresentsIssued, NamesResource, ReadsThePast, RunningIsCurrent, WriterIsInEffect
  <1>4. QED
    BY <1>1, <1>2, <1>3 DEF Next

LEMMA SpecIInv == Spec => []IInv
  BY InitIInv, NextIInv, PTL DEF Spec

-----------------------------------------------------------------------------
\* The committed rows, the writer and every call in flight keep their shape.
THEOREM Typing == Spec => []TypeOK
  BY SpecIInv, PTL DEF IInv

\* While a callback runs, its claim is the current one of its resource and no
\* other connection runs a callback: nobody commits under an effect.
THEOREM EffectRunsUnderCurrentClaim == Spec => []RunningIsCurrent
  BY SpecIInv, PTL DEF IInv

\* A transaction left open always belongs to a running callback.
THEOREM NoAbandonedWriter == Spec => []WriterIsInEffect
  BY SpecIInv, PTL DEF IInv

\* Which rows a step may rewrite: none, or those of a short transaction that
\* found the writer free; and the generation only grows, by Acquire.
LEMMA RowSteps ==
    ASSUME IInv, Next, NEW r \in Resource, rows'[r] # rows[r]
    PROVE  \E c \in Client :
             \/ /\ Acquire(c)
                /\ r = op[c].res
                /\ ~Live(rows[r], op[c].now)
                /\ rows'[r] = Issued(rows[r], op[c].now)
             \/ /\ Renew(c)
                /\ r = op[c].res
                /\ Matches(rows[r], op[c].token)
                /\ rows'[r] = Renewed(rows[r], op[c].now)
             \/ /\ Release(c)
                /\ r = op[c].res
                /\ Matches(rows[r], op[c].token)
                /\ rows'[r] = Released(rows[r])
             \/ /\ Expire(c)
                /\ rows[r].status = "ACTIVE"
                /\ rows'[r] = Expired(rows[r])
  <1>1. ~Tick
    BY DEF Tick
  <1>2. PICK c \in Client : Operate(c)
    BY <1>1 DEF Next
  <1>3. Acquire(c) \/ Renew(c) \/ Release(c) \/ Expire(c)
    BY <1>2
    DEF Operate, BeginAcquire, BeginRenew, BeginRelease, BeginExecute, BeginExpire, Begin,
        PreRead, Enter, Reject, Leave, BusyTimeout, Crash
  <1>4. CASE Acquire(c)
    BY <1>4 DEF Acquire, IInv, TypeOK
  <1>5. CASE Renew(c)
    BY <1>5 DEF Renew, IInv, TypeOK
  <1>6. CASE Release(c)
    BY <1>6 DEF Release, IInv, TypeOK
  <1>7. CASE Expire(c)
    BY <1>7 DEF Expire, IInv, TypeOK
  <1>8. QED
    BY <1>3, <1>4, <1>5, <1>6, <1>7

\* Released and expired generations are final: no late call of any process
\* revives one.
THEOREM RetirementIsFinal == Spec => RetiredStaysRetired
  <1>1. ASSUME IInv, [Next]_vars, NEW r \in Resource,
               rows'[r].token = rows[r].token, rows[r].status # "ACTIVE"
        PROVE  rows'[r] = rows[r]
    <2>1. CASE UNCHANGED vars
      BY <2>1 DEF vars
    <2>2. CASE Next
      <3> SUFFICES ASSUME rows'[r] # rows[r] PROVE FALSE
        OBVIOUS
      <3>1. rows[r] \in Row
        BY <1>1 DEF IInv, TypeOK
      <3>2. \E now : rows'[r] = Issued(rows[r], now)
        BY <1>1, <2>2, RowSteps DEF Matches
      <3>3. rows'[r].token = rows[r].token + 1
        BY <3>2 DEF Issued
      <3>4. QED
        BY <1>1, <3>1, <3>3 DEF Row
    <2>3. QED
      BY <1>1, <2>1, <2>2
  <1>2. IInv /\ [Next]_vars => [\A r \in Resource :
          rows'[r].token = rows[r].token /\ rows[r].status # "ACTIVE" => rows'[r] = rows[r]]_vars
    BY <1>1
  <1>3. QED
    BY SpecIInv, <1>2, PTL DEF Spec, RetiredStaysRetired

\* No process takes a resource from a live claim, although it judged the lease
\* with a clock reading older than its wait for the writer.
THEOREM NoProcessStealsALease == Spec => NoTheft
  <1>1. ASSUME IInv, Next, NEW r \in Resource, rows'[r].token # rows[r].token
        PROVE  ~Live(rows[r], clock)
    <2>1. rows[r] \in Row
      BY <1>1 DEF IInv, TypeOK
    <2>2. PICK c \in Client : ~Live(rows[r], op[c].now)
      BY <1>1, <2>1, RowSteps DEF Renewed, Released, Expired, Row
    <2>3. op[c].now <= clock /\ op[c].now \in Nat /\ clock \in Nat
      BY <1>1 DEF IInv, TypeOK, ReadsThePast
    <2>4. QED
      BY <2>1, <2>2, <2>3 DEF Live, Row
  <1>2. IInv /\ [Next]_vars =>
          [\A r \in Resource : rows'[r].token # rows[r].token => ~Live(rows[r], clock)]_vars
    BY <1>1
  <1>3. QED
    BY SpecIInv, <1>2, PTL DEF Spec, NoTheft

\* A callback starts only under a lease that is live at that instant.
THEOREM ExpiredClaimsCannotExecute == Spec => EffectsStartLive
  <1>1. ASSUME IInv, Next, NEW c \in Client, op[c].pc # "effect", op'[c].pc = "effect"
        PROVE  Live(rows[op[c].res], clock)
    <2>1. PICK d \in Client : Operate(d)
      BY <1>1 DEF Next, Tick
    <2>2. Enter(d) /\ d = c
      BY <1>1, <2>1
      DEF IInv, TypeOK, Operate, BeginAcquire, BeginRenew, BeginRelease, BeginExecute, BeginExpire, Begin,
          PreRead, Acquire, Renew, Release, Expire, Transaction, Return, Idle,
          Enter, Reject, Leave, BusyTimeout, Crash
    <2>3. QED
      BY <2>2 DEF Enter, Valid, Matches, Live
  <1>2. IInv /\ [Next]_vars =>
          [\A c \in Client :
             op[c].pc # "effect" /\ op'[c].pc = "effect" => Live(rows[op[c].res], clock)]_vars
    BY <1>1
  <1>3. QED
    BY SpecIInv, <1>2, PTL DEF Spec, EffectsStartLive

-----------------------------------------------------------------------------
(* Refinement: the detailed store implements FencedClaims. *)

runningBar == [r \in Resource |->
    IF writer # None /\ op[writer].res = r THEN op[writer].token ELSE 0]

\* The abstract store stutters while the rows and the running callback stand.
LEMMA Stutter ==
    ASSUME UNCHANGED rows, runningBar' = runningBar
    PROVE  UNCHANGED Fenced!vars
  BY DEF runningBar, Fenced!vars

LEMMA FencedInit == Init => Fenced!Init
  <1> SUFFICES ASSUME Init PROVE Fenced!Init
    OBVIOUS
  <1>1. \A r \in Resource : rows[r].token = 0 /\ rows[r].status = "NONE"
    BY DEF Init, NoRow
  <1>2. [r \in Resource |-> rows[r].token] = [r \in Resource |-> 0]
    BY <1>1
  <1>3. [r \in Resource |-> rows[r].status # "ACTIVE"] = [r \in Resource |-> TRUE]
    BY <1>1
  <1>4. QED
    BY <1>2, <1>3 DEF Init, Fenced!Init

LEMMA FencedStep == IInv /\ [Next]_vars => [Fenced!Next]_(Fenced!vars)
  <1> SUFFICES ASSUME IInv, [Next]_vars PROVE [Fenced!Next]_(Fenced!vars)
    OBVIOUS
  <1>1. CASE Tick \/ UNCHANGED vars
    BY <1>1, Stutter DEF Tick, vars, runningBar
  <1>2. ASSUME NEW c \in Client, Operate(c) PROVE [Fenced!Next]_(Fenced!vars)
    <2>1. ASSUME op[c].pc # "effect", UNCHANGED <<rows, writer>>,
                 \A d \in Client \ {c} : op'[d] = op[d]
          PROVE  UNCHANGED Fenced!vars
      <3>1. writer # c
        BY <2>1, ClaimsAssumption DEF IInv, WriterIsInEffect
      <3>2. runningBar' = runningBar
        BY <2>1, <3>1 DEF runningBar, IInv, TypeOK
      <3>3. QED
        BY <2>1, <3>2, Stutter
    <2>2. CASE \/ \E r \in Resource : BeginAcquire(c, r) \/ BeginRenew(c, r)
                                       \/ BeginRelease(c, r) \/ BeginExecute(c, r)
               \/ BeginExpire(c) \/ PreRead(c) \/ Reject(c) \/ BusyTimeout(c)
      BY <2>2, <2>1
      DEF IInv, TypeOK, BeginAcquire, BeginRenew, BeginRelease, BeginExecute, BeginExpire, Begin,
          PreRead, Reject, BusyTimeout, Return, Waiting
    <2>3. CASE Acquire(c) /\ ~UNCHANGED rows
      <3>1. PICK r \in Resource : r = op[c].res
        BY <2>3 DEF Acquire, Transaction, IInv, NamesResource
      <3>2. /\ writer = None /\ writer' = None
            /\ rows' = [rows EXCEPT ![r] = Issued(rows[r], op[c].now)]
        BY <2>3, <3>1 DEF Acquire, Transaction
      <3>3. Fenced!Issue(r)
        BY <3>1, <3>2 DEF Fenced!Issue, IInv, TypeOK, Issued
      <3>4. QED
        BY <3>3 DEF Fenced!Next
    <2>4. CASE Acquire(c) /\ UNCHANGED rows
      BY <2>4, Stutter DEF Acquire, Transaction, runningBar
    <2>5. CASE Renew(c)
      <3>1. op[c].res \in Resource /\ op[c].now \in Nat
        BY <2>5 DEF Renew, Transaction, IInv, TypeOK, PresentsIssued
      <3>2. writer = None /\ writer' = None
        BY <2>5 DEF Renew, Transaction
      <3>3. \A r \in Resource : rows'[r].token = rows[r].token /\ rows'[r].status = rows[r].status
        BY <2>5, <3>1 DEF Renew, Renewed, IInv, TypeOK, Row
      <3>4. QED
        BY <3>2, <3>3 DEF Fenced!vars
    <2>6. CASE Release(c) \/ Expire(c)
      <3>1. PICK S \in SUBSET Resource :
                S = {r \in Resource : rows'[r].status # "ACTIVE"}
        OBVIOUS
      <3>2. writer = None /\ writer' = None
        BY <2>6 DEF Release, Expire, Transaction
      <3>3. CASE UNCHANGED rows
        BY <3>2, <3>3, Stutter DEF runningBar
      <3>4. CASE Release(c) /\ ~UNCHANGED rows
        <4>1. PICK q \in Resource : q = op[c].res
          BY <3>4 DEF Release, Transaction, IInv, PresentsIssued
        <4>2. rows' = [rows EXCEPT ![q] = Released(rows[q])]
          BY <3>4, <4>1 DEF Release
        <4>3. \A r \in Resource : /\ rows'[r].token = rows[r].token
                                  /\ rows[r].status # "ACTIVE" => rows'[r].status # "ACTIVE"
          BY <4>2 DEF Released, IInv, TypeOK, Row, Status
        <4>4. QED
          BY <3>1, <3>2, <4>3 DEF Fenced!Seal, Fenced!Next
      <3>5. CASE Expire(c)
        <4>1. \A r \in Resource : /\ rows'[r].token = rows[r].token
                                  /\ rows[r].status # "ACTIVE" => rows'[r].status # "ACTIVE"
          BY <3>5 DEF Expire, Expired, IInv, TypeOK, Row, Status
        <4>2. QED
          BY <3>1, <3>2, <4>1 DEF Fenced!Seal, Fenced!Next
      <3>6. QED
        BY <2>6, <3>3, <3>4, <3>5
    <2>7. CASE Enter(c)
      <3>1. PICK r \in Resource : r = op[c].res
        BY <2>7 DEF Enter, IInv, PresentsIssued
      <3>2. Fenced!Enter(r)
        BY <2>7, <3>1, ClaimsAssumption
        DEF Fenced!Enter, Enter, Valid, Matches, IInv, TypeOK
      <3>3. QED
        BY <3>2 DEF Fenced!Next
    <2>8. CASE writer = c /\ writer' = None /\ UNCHANGED rows
      <3>1. /\ op[c].res \in Resource
            /\ op[c].token > 0
            /\ op[c].token \in Nat
        BY <2>8, ClaimsAssumption DEF IInv, TypeOK, PresentsIssued, WriterIsInEffect
      <3>2. PICK r \in Resource : r = op[c].res
        BY <3>1
      <3>3. Fenced!Leave(r)
        BY <2>8, <3>1, <3>2, ClaimsAssumption DEF Fenced!Leave, IInv, TypeOK
      <3>4. QED
        BY <3>3 DEF Fenced!Next
    <2>9. CASE Leave(c)
      BY <2>8, <2>9 DEF Leave, IInv, RunningIsCurrent
    <2>10. CASE Crash(c)
      <3>1. CASE writer = c
        BY <2>8, <2>10, <3>1 DEF Crash
      <3>2. CASE writer # c
        <4>1. op[c].pc # "effect"
          BY <3>2 DEF IInv, RunningIsCurrent
        <4>2. QED
          BY <2>1, <2>10, <3>2, <4>1 DEF Crash, Return, IInv, TypeOK
      <3>3. QED
        BY <3>1, <3>2
    <2>11. QED
      BY <1>2, <2>2, <2>3, <2>4, <2>5, <2>6, <2>7, <2>9, <2>10 DEF Operate
  <1>3. QED
    BY <1>1, <1>2 DEF Next

\* The SQLite store implements the fenced claims that the gateway relies on.
THEOREM ImplementsFencedClaims == Spec => FencedSpec
  BY SpecIInv, FencedInit, FencedStep, PTL DEF Spec, FencedSpec, Fenced!Spec
=============================================================================
