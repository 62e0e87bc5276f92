------------------------- MODULE InMemoryClaimsProofs -------------------------
(***************************************************************************)
(* InMemoryClaims for any number of threads, resources and generations: the *)
(* effect locks come back, leases are never taken early, and the store      *)
(* implements FencedClaims.                                                 *)
(***************************************************************************)
EXTENDS InMemoryClaims, TLAPS

\* A call that presents a claim presents one that was really issued, and every
\* call but a sweep is about a resource.
CallsAreFormed ==
    \A c \in Client :
        /\ op[c].pc \notin {"idle", "expire"} => op[c].res \in Resource
        /\ op[c].pc \notin {"idle", "expire", "acquire"} => op[c].token > 0

\* No call uses a clock reading from the future: it may be stale, never early.
ReadsThePast == \A c \in Client : op[c].now <= clock

\* The claim whose effect is in the sink is still the resource's current one.
EffectsAreCurrent ==
    \A c \in Client : op[c].pc = "effect" => Matches(rows[op[c].res], op[c].token)

IInv ==
    /\ TypeOK
    /\ CallsAreFormed
    /\ ReadsThePast
    /\ LockDiscipline
    /\ EffectsAreCurrent

LEMMA RowFacts ==
    ASSUME NEW row \in Row, NEW now \in Nat
    PROVE  /\ Issued(row, now) \in Row
           /\ Renewed(row, now) \in Row
           /\ Released(row) \in Row
           /\ Expired(row) \in Row
  BY ClaimsAssumption DEF Row, Status, Issued, Renewed, Released, Expired

LEMMA InitIInv == Init => IInv
  BY ClaimsAssumption
  DEF Init, IInv, TypeOK, CallsAreFormed, ReadsThePast, LockDiscipline, EffectsAreCurrent,
      Idle, Row, Status, NoRow, Waiting, Holding

\* Opening a call changes only the caller's own, idle, record.
LEMMA BeginIInv ==
    ASSUME IInv, NEW c \in Client, NEW pc \in {"acquire", "renew", "release", "execute", "expire"},
           NEW r \in Resource \cup {None}, NEW t \in Nat, NEW now \in 0 .. clock,
           Begin(c, pc, r, t, now),
           pc # "expire" => r \in Resource,
           pc \notin {"expire", "acquire"} => t > 0
    PROVE  IInv'
  <1>1. TypeOK'
    BY DEF IInv, TypeOK, Begin, Waiting
  <1>2. CallsAreFormed' /\ ReadsThePast'
    BY DEF IInv, TypeOK, CallsAreFormed, ReadsThePast, Begin
  <1>3. LockDiscipline' /\ EffectsAreCurrent'
    BY DEF IInv, TypeOK, LockDiscipline, EffectsAreCurrent, Begin, Holding
  <1>4. QED
    BY <1>1, <1>2, <1>3 DEF IInv

\* The end of a call that holds no effect lock, whatever it did to rows that are
\* not in an effect.
LEMMA ReturnIInv ==
    ASSUME IInv, NEW c \in Client, op[c].pc \notin Holding,
           op' = [op EXCEPT ![c] = Idle], UNCHANGED <<clock, effectLock>>,
           rows' \in [Resource -> Row],
           \A d \in Client : op[d].pc = "effect" => Matches(rows'[op[d].res], op[d].token)
    PROVE  IInv'
  <1> USE ClaimsAssumption DEF IInv
  <1>1. TypeOK'
    BY DEF TypeOK, Idle
  <1>2. CallsAreFormed' /\ ReadsThePast'
    BY DEF TypeOK, CallsAreFormed, ReadsThePast, Idle
  <1>3. LockDiscipline'
    BY DEF TypeOK, LockDiscipline, Idle, Holding
  <1>4. EffectsAreCurrent'
    BY DEF TypeOK, EffectsAreCurrent, Idle
  <1>5. QED
    BY <1>1, <1>2, <1>3, <1>4

\* A claim whose effect is in the sink has its resource's lock.
LEMMA EffectHoldsLock ==
    ASSUME IInv, NEW d \in Client, op[d].pc = "effect"
    PROVE  op[d].res \in Resource /\ effectLock[op[d].res] = d /\ effectLock[op[d].res] # None
  BY ClaimsAssumption DEF IInv, CallsAreFormed, LockDiscipline, Holding

LEMMA NextIInv == IInv /\ [Next]_vars => IInv'
  <1> SUFFICES ASSUME IInv, [Next]_vars PROVE IInv'
    OBVIOUS
  <1> USE DEF IInv
  <1>1. CASE Tick
    BY <1>1 DEF Tick, TypeOK, CallsAreFormed, ReadsThePast, LockDiscipline, EffectsAreCurrent
  <1>2. ASSUME NEW c \in Client, Operate(c) PROVE IInv'
    <2>1. ASSUME NEW r \in Resource, BeginAcquire(c, r) PROVE IInv'
      <3>1. clock \in 0 .. clock
        BY DEF TypeOK
      <3>2. QED
        BY <2>1, <3>1, BeginIInv DEF BeginAcquire
    <2>2. ASSUME NEW r \in Resource, BeginRenew(c, r) \/ BeginRelease(c, r) \/ BeginExecute(c, r)
          PROVE  IInv'
      <3>1. PICK t \in 1 .. rows[r].token :
              \/ Begin(c, "renew", r, t, clock)
              \/ Begin(c, "release", r, t, 0)
              \/ Begin(c, "execute", r, t, 0)
        BY <2>2 DEF BeginRenew, BeginRelease, BeginExecute
      <3>2. t \in Nat /\ t > 0 /\ clock \in 0 .. clock /\ 0 \in 0 .. clock
        BY <3>1 DEF TypeOK, Row
      <3>3. QED
        BY <3>1, <3>2, BeginIInv
    <2>3. CASE BeginExpire(c)
      <3>1. clock \in 0 .. clock
        BY DEF TypeOK
      <3>2. QED
        BY <2>3, <3>1, BeginIInv DEF BeginExpire
    <2>4. CASE Acquire(c)
      <3>1. op[c].res \in Resource /\ op[c].now \in Nat
        BY <2>4 DEF Acquire, TypeOK, CallsAreFormed
      <3>2. Issued(rows[op[c].res], op[c].now) \in Row
        BY <3>1, RowFacts DEF TypeOK
      <3>3. rows' \in [Resource -> Row]
        BY <2>4, <3>1, <3>2 DEF Acquire, TypeOK
      <3>4. ASSUME NEW d \in Client, op[d].pc = "effect" PROVE Matches(rows'[op[d].res], op[d].token)
        <4>1. Matches(rows[op[d].res], op[d].token)
          BY <3>4 DEF EffectsAreCurrent
        <4>2. rows'[op[d].res] = rows[op[d].res]
          BY <2>4, <3>4, <4>1, EffectHoldsLock DEF Acquire, TypeOK, Matches
        <4>3. QED
          BY <4>1, <4>2
      <3>5. QED
        BY <2>4, <3>3, <3>4, ReturnIInv DEF Acquire, Holding
    <2>5. CASE Renew(c)
      <3>1. op[c].res \in Resource /\ op[c].now \in Nat
        BY <2>5 DEF Renew, TypeOK, CallsAreFormed
      <3>2. Renewed(rows[op[c].res], op[c].now) \in Row
        BY <3>1, RowFacts DEF TypeOK
      <3>3. rows' \in [Resource -> Row]
        BY <2>5, <3>1, <3>2 DEF Renew, TypeOK
      <3>4. \A r \in Resource : rows'[r].token = rows[r].token /\ rows'[r].status = rows[r].status
        BY <2>5, <3>1 DEF Renew, Renewed, TypeOK, Row
      <3>5. ASSUME NEW d \in Client, op[d].pc = "effect" PROVE Matches(rows'[op[d].res], op[d].token)
        BY <3>4, <3>5, EffectHoldsLock DEF EffectsAreCurrent, Matches
      <3>6. QED
        BY <2>5, <3>3, <3>5, ReturnIInv DEF Renew, Holding
    <2>6. CASE Expire(c)
      <3>1. rows' \in [Resource -> Row]
        BY <2>6, RowFacts, ClaimsAssumption DEF Expire, TypeOK
      <3>2. ASSUME NEW d \in Client, op[d].pc = "effect" PROVE Matches(rows'[op[d].res], op[d].token)
        BY <2>6, <3>2, EffectHoldsLock DEF Expire, EffectsAreCurrent
      <3>3. QED
        BY <2>6, <3>1, <3>2, ReturnIInv DEF Expire, Holding
    <2>7. CASE TakeEffectLock(c)
      <3>1. op[c].res \in Resource
        BY <2>7 DEF TakeEffectLock, CallsAreFormed
      <3>2. TypeOK' /\ CallsAreFormed' /\ ReadsThePast'
        BY <2>7, <3>1 DEF TakeEffectLock, TypeOK, CallsAreFormed, ReadsThePast, Waiting, Holding
      <3>3. LockDiscipline'
        BY <2>7, <3>1, ClaimsAssumption DEF TakeEffectLock, TypeOK, LockDiscipline, Holding
      <3>4. EffectsAreCurrent'
        BY <2>7 DEF TakeEffectLock, TypeOK, EffectsAreCurrent
      <3>5. QED
        BY <3>2, <3>3, <3>4
    <2>8. CASE Enter(c)
      <3>1. TypeOK' /\ CallsAreFormed' /\ ReadsThePast'
        BY <2>8 DEF Enter, TypeOK, CallsAreFormed, ReadsThePast, Waiting, Holding
      <3>2. LockDiscipline'
        BY <2>8 DEF Enter, TypeOK, LockDiscipline, Holding
      <3>3. EffectsAreCurrent'
        BY <2>8 DEF Enter, Valid, TypeOK, EffectsAreCurrent
      <3>4. QED
        BY <3>1, <3>2, <3>3
    <2>9. CASE Release(c) \/ Reject(c) \/ Leave(c)
      <3>1. op[c].pc \in Holding /\ op[c].res \in Resource /\ effectLock[op[c].res] = c
        BY <2>9 DEF Release, Reject, Leave, Holding, CallsAreFormed, LockDiscipline
      <3>2. rows' \in [Resource -> Row] /\ DropEffectLock(c) /\ clock' = clock
        BY <2>9, <3>1, RowFacts DEF Release, Reject, Leave, TypeOK
      <3>3. TypeOK' /\ CallsAreFormed' /\ ReadsThePast'
        BY <3>1, <3>2, ClaimsAssumption DEF DropEffectLock, TypeOK, CallsAreFormed, ReadsThePast, Idle
      <3>4. LockDiscipline'
        BY <3>1, <3>2, ClaimsAssumption DEF DropEffectLock, TypeOK, LockDiscipline, Idle, Holding
      <3>5. ASSUME NEW d \in Client, op'[d].pc = "effect" PROVE Matches(rows'[op'[d].res], op'[d].token)
        <4>1. d # c /\ op'[d] = op[d]
          BY <3>2, <3>5 DEF DropEffectLock, TypeOK, Idle
        <4>2. rows'[op[d].res] = rows[op[d].res]
          BY <2>9, <3>1, <3>5, <4>1, EffectHoldsLock DEF Release, Reject, Leave, TypeOK
        <4>3. QED
          BY <3>5, <4>1, <4>2 DEF EffectsAreCurrent
      <3>6. QED
        BY <3>3, <3>4, <3>5 DEF EffectsAreCurrent
    <2>10. QED
      BY <1>2, <2>1, <2>2, <2>3, <2>4, <2>5, <2>6, <2>7, <2>8, <2>9 DEF Operate
  <1>3. CASE UNCHANGED vars
    BY <1>3 DEF vars, TypeOK, CallsAreFormed, ReadsThePast, LockDiscipline, EffectsAreCurrent
  <1>4. QED
    BY <1>1, <1>2, <1>3 DEF Next

LEMMA SpecIInv == Spec => []IInv
  BY InitIInv, NextIInv, PTL DEF Spec

-----------------------------------------------------------------------------
\* Every reachable state of the in-process store has the declared types.
THEOREM Typing == Spec => []TypeOK
  BY SpecIInv, PTL DEF IInv

\* No path of release or execute_if_valid leaves an effect lock behind.
THEOREM EffectLocksComeBack == Spec => []LockDiscipline
  BY SpecIInv, PTL DEF IInv

\* Which rows a step may rewrite, and that none of them is in an effect but by renewal.
LEMMA RowSteps ==
    ASSUME IInv, Next, NEW r \in Resource, rows'[r] # rows[r]
    PROVE  \E c \in Client :
             \/ /\ Acquire(c)
                /\ r = op[c].res
                /\ ~Live(rows[r], op[c].now)
                /\ rows[r].status = "ACTIVE" => effectLock[r] = None
                /\ rows'[r] = Issued(rows[r], op[c].now)
             \/ /\ Renew(c)
                /\ r = op[c].res
                /\ rows'[r] = Renewed(rows[r], op[c].now)
             \/ /\ Release(c)
                /\ r = op[c].res
                /\ rows'[r] = Released(rows[r])
             \/ /\ Expire(c)
                /\ effectLock[r] = None
                /\ rows'[r] = Expired(rows[r])
  <1>1. PICK c \in Client : Operate(c)
    BY DEF Next, Tick
  <1>2. Acquire(c) \/ Renew(c) \/ Release(c) \/ Expire(c)
    BY <1>1
    DEF Operate, BeginAcquire, BeginRenew, BeginRelease, BeginExecute, BeginExpire, Begin,
        TakeEffectLock, Enter, Reject, Leave
  <1>3. CASE Acquire(c)
    BY <1>3 DEF Acquire, IInv, TypeOK
  <1>4. CASE Renew(c)
    BY <1>4 DEF Renew, IInv, TypeOK
  <1>5. CASE Release(c)
    BY <1>5 DEF Release, IInv, TypeOK
  <1>6. CASE Expire(c)
    BY <1>6 DEF Expire, IInv, TypeOK
  <1>7. QED
    BY <1>2, <1>3, <1>4, <1>5, <1>6

\* No thread takes a resource from a live claim, although it judged the lease with
\* a clock reading older than its wait for the guard.
THEOREM NoThreadStealsALease == Spec => NoTheft
  <1>1. ASSUME IInv, Next, NEW r \in Resource, rows'[r].token # rows[r].token
        PROVE  ~Live(rows[r], clock)
    <2>1. rows[r] \in Row
      BY <1>1 DEF IInv, TypeOK
    <2>2. PICK c \in Client : ~Live(rows[r], op[c].now)
      BY <1>1, <2>1, RowSteps DEF Renewed, Released, Expired, Row
    <2>3. op[c].now <= clock /\ op[c].now \in Nat /\ clock \in Nat
      BY <1>1 DEF IInv, TypeOK, ReadsThePast
    <2>4. QED
      BY <2>1, <2>2, <2>3 DEF Live, Row
  <1>2. IInv /\ [Next]_vars =>
          [\A r \in Resource : rows'[r].token # rows[r].token => ~Live(rows[r], clock)]_vars
    BY <1>1
  <1>3. QED
    BY SpecIInv, <1>2, PTL DEF Spec, NoTheft

\* A callback starts only under a lease that is live at that instant.
THEOREM ExpiredClaimsCannotExecute == Spec => EffectsStartLive
  <1>1. ASSUME IInv, Next, NEW c \in Client, op[c].pc # "effect", op'[c].pc = "effect"
        PROVE  Live(rows[op[c].res], clock)
    <2>1. PICK d \in Client : Operate(d)
      BY <1>1 DEF Next, Tick
    <2>2. Enter(d) /\ d = c
      BY <1>1, <2>1
      DEF IInv, TypeOK, Operate, BeginAcquire, BeginRenew, BeginRelease, BeginExecute, BeginExpire, Begin,
          Acquire, Renew, TakeEffectLock, DropEffectLock, Release, Expire, Idle, Enter, Reject, Leave
    <2>3. QED
      BY <2>2 DEF Enter, Valid, Matches, Live
  <1>2. IInv /\ [Next]_vars =>
          [\A c \in Client :
             op[c].pc # "effect" /\ op'[c].pc = "effect" => Live(rows[op[c].res], clock)]_vars
    BY <1>1
  <1>3. QED
    BY SpecIInv, <1>2, PTL DEF Spec, EffectsStartLive

-----------------------------------------------------------------------------
(* Refinement: the in-process store implements FencedClaims. *)

runningBar == [r \in Resource |->
    IF effectLock[r] # None /\ op[effectLock[r]].pc = "effect"
    THEN op[effectLock[r]].token ELSE 0]

\* A step of a client that neither enters nor leaves a callback leaves the
\* running generations alone, whatever lock it takes or drops for itself.
LEMMA RunningStands ==
    ASSUME IInv, NEW c \in Client, op[c].pc # "effect", op'[c].pc # "effect",
           \A d \in Client \ {c} : op'[d] = op[d],
           \A r \in Resource : \/ effectLock'[r] = effectLock[r]
                              \/ {effectLock[r], effectLock'[r]} \subseteq {c, None}
    PROVE  runningBar' = runningBar
  <1>1. ASSUME NEW r \in Resource PROVE runningBar'[r] = runningBar[r]
    <2>1. CASE effectLock[r] \in {c, None}
      <3>1. effectLock'[r] \in {c, None}
        BY <2>1
      <3>2. QED
        BY <2>1, <3>1 DEF runningBar
    <2>2. CASE effectLock[r] \in Client \ {c}
      <3>1. effectLock'[r] = effectLock[r]
        BY <2>2, ClaimsAssumption
      <3>2. QED
        BY <2>2, <3>1 DEF runningBar
    <2>3. QED
      BY <2>1, <2>2 DEF IInv, TypeOK
  <1>2. QED
    BY <1>1 DEF runningBar

\* The abstract store stutters while no row changes its generation or its status.
LEMMA Stutter ==
    ASSUME \A r \in Resource : rows'[r].token = rows[r].token /\ rows'[r].status = rows[r].status,
           runningBar' = runningBar
    PROVE  UNCHANGED Fenced!vars
  BY DEF runningBar, Fenced!vars

\* A row whose effect lock is free runs no effect; nor does one that is not active.
LEMMA NotRunning ==
    ASSUME IInv, NEW r \in Resource, effectLock[r] = None \/ rows[r].status # "ACTIVE"
    PROVE  runningBar[r] = 0
  <1>1. CASE effectLock[r] = None
    BY <1>1 DEF runningBar
  <1>2. CASE effectLock[r] # None /\ rows[r].status # "ACTIVE"
    <2>1. PICK d \in Client : d = effectLock[r]
      BY <1>2 DEF IInv, TypeOK
    <2>2. op[d].res = r
      BY <2>1 DEF IInv, LockDiscipline
    <2>3. op[d].pc # "effect"
      BY <1>2, <2>2 DEF IInv, EffectsAreCurrent, Matches
    <2>4. QED
      BY <2>1, <2>3 DEF runningBar
  <1>3. QED
    BY <1>1, <1>2

\* Withdrawing rows that run no effect is one abstract step.
LEMMA SealStep ==
    ASSUME IInv, rows' \in [Resource -> Row], runningBar' = runningBar,
           \A r \in Resource :
              \/ rows'[r] = rows[r]
              \/ /\ rows'[r].token = rows[r].token
                 /\ rows'[r].status # "ACTIVE"
                 /\ runningBar[r] = 0
    PROVE  [Fenced!Next]_(Fenced!vars)
  <1>0. PICK changed \in SUBSET Resource : changed = {r \in Resource : rows'[r] # rows[r]}
    OBVIOUS
  <1>1. \A r \in changed : runningBar[r] = 0
    BY <1>0
  <1>2. [r \in Resource |-> rows'[r].status # "ACTIVE"]
          = [r \in Resource |-> r \in changed \/ [q \in Resource |-> rows[q].status # "ACTIVE"][r]]
    BY <1>0
  <1>3. [r \in Resource |-> rows'[r].token] = [r \in Resource |-> rows[r].token]
    BY <1>0
  <1>4. Fenced!Seal(changed)
    BY <1>1, <1>2, <1>3 DEF Fenced!Seal, runningBar
  <1>5. QED
    BY <1>4 DEF Fenced!Next

LEMMA FencedInit == Init => Fenced!Init
  <1> SUFFICES ASSUME Init PROVE Fenced!Init
    OBVIOUS
  <1>1. [r \in Resource |-> rows[r].token] = [r \in Resource |-> 0]
    BY DEF Init, NoRow
  <1>2. [r \in Resource |-> rows[r].status # "ACTIVE"] = [r \in Resource |-> TRUE]
    BY DEF Init, NoRow
  <1>3. runningBar = [r \in Resource |-> 0]
    BY DEF Init, runningBar
  <1>4. QED
    BY <1>1, <1>2, <1>3 DEF Fenced!Init, runningBar

LEMMA FencedStep == IInv /\ [Next]_vars => [Fenced!Next]_(Fenced!vars)
  <1> SUFFICES ASSUME IInv, [Next]_vars PROVE [Fenced!Next]_(Fenced!vars)
    OBVIOUS
  <1>0. rows' \in [Resource -> Row]
    BY NextIInv DEF IInv, TypeOK
  <1>1. CASE Tick \/ UNCHANGED vars
    BY <1>1, Stutter DEF Tick, vars, runningBar
  <1>2. ASSUME NEW c \in Client, Operate(c) PROVE [Fenced!Next]_(Fenced!vars)
    <2>1. CASE \/ \E r \in Resource : BeginAcquire(c, r) \/ BeginRenew(c, r)
                                       \/ BeginRelease(c, r) \/ BeginExecute(c, r)
               \/ BeginExpire(c)
      <3>1. runningBar' = runningBar
        BY <2>1, RunningStands
        DEF BeginAcquire, BeginRenew, BeginRelease, BeginExecute, BeginExpire, Begin, IInv, TypeOK
      <3>2. UNCHANGED rows
        BY <2>1 DEF BeginAcquire, BeginRenew, BeginRelease, BeginExecute, BeginExpire, Begin
      <3>3. QED
        BY <3>1, <3>2, Stutter
    <2>2. CASE TakeEffectLock(c)
      <3>1. op[c].pc # "effect" /\ op'[c].pc # "effect"
        BY <2>2 DEF TakeEffectLock, IInv, TypeOK
      <3>2. \A d \in Client \ {c} : op'[d] = op[d]
        BY <2>2 DEF TakeEffectLock, IInv, TypeOK
      <3>3. \A r \in Resource : \/ effectLock'[r] = effectLock[r]
                               \/ {effectLock[r], effectLock'[r]} \subseteq {c, None}
        BY <2>2 DEF TakeEffectLock, IInv, TypeOK
      <3>4. QED
        BY <2>2, <3>1, <3>2, <3>3, RunningStands, Stutter DEF TakeEffectLock
    <2>3. CASE Acquire(c) \/ Renew(c) \/ Expire(c) \/ Release(c) \/ Reject(c)
      <3>1. runningBar' = runningBar
        <4>1. op[c].pc # "effect" /\ op'[c].pc # "effect"
          BY <2>3 DEF Acquire, Renew, Expire, Release, Reject, DropEffectLock, Idle, IInv, TypeOK
        <4>2. \A d \in Client \ {c} : op'[d] = op[d]
          BY <2>3 DEF Acquire, Renew, Expire, Release, Reject, DropEffectLock, Idle, IInv, TypeOK
        <4>3. CASE Acquire(c) \/ Renew(c) \/ Expire(c)
          BY <4>1, <4>2, <4>3, RunningStands DEF Acquire, Renew, Expire
        <4>4. CASE Release(c) \/ Reject(c)
          <5>1. op[c].res \in Resource /\ effectLock[op[c].res] = c
            BY <4>4 DEF Release, Reject, IInv, CallsAreFormed, LockDiscipline, Holding
          <5>2. \A r \in Resource : \/ effectLock'[r] = effectLock[r]
                                   \/ {effectLock[r], effectLock'[r]} \subseteq {c, None}
            BY <4>4, <5>1 DEF Release, Reject, DropEffectLock, IInv, TypeOK
          <5>3. QED
            BY <4>1, <4>2, <5>2, RunningStands
        <4>5. QED
          BY <2>3, <4>3, <4>4
      <3>2. CASE Acquire(c) /\ ~UNCHANGED rows
        <4>1. PICK r \in Resource : r = op[c].res
          BY <3>2 DEF Acquire, IInv, CallsAreFormed
        <4>2. /\ rows' = [rows EXCEPT ![r] = Issued(rows[r], op[c].now)]
              /\ rows[r].status = "ACTIVE" => effectLock[r] = None
          BY <3>2, <4>1 DEF Acquire
        <4>3. runningBar[r] = 0
          BY <4>2, NotRunning
        <4>4. [q \in Resource |-> rows'[q].token]
                = [[q \in Resource |-> rows[q].token] EXCEPT ![r] = rows[r].token + 1]
          BY <4>2 DEF Issued, IInv, TypeOK
        <4>5. [q \in Resource |-> rows'[q].status # "ACTIVE"]
                = [[q \in Resource |-> rows[q].status # "ACTIVE"] EXCEPT ![r] = FALSE]
          BY <4>2 DEF Issued, IInv, TypeOK
        <4>6. Fenced!Issue(r)
          BY <3>1, <4>3, <4>4, <4>5 DEF Fenced!Issue, runningBar
        <4>7. QED
          BY <4>6 DEF Fenced!Next
      <3>3. CASE Renew(c)
        <4>1. \A r \in Resource : rows'[r].token = rows[r].token /\ rows'[r].status = rows[r].status
          BY <3>3 DEF Renew, Renewed, IInv, TypeOK, CallsAreFormed, Row
        <4>2. QED
          BY <3>1, <4>1, Stutter
      <3>4. CASE Expire(c)
        <4>1. ASSUME NEW r \in Resource, rows'[r] # rows[r]
              PROVE  /\ rows'[r].token = rows[r].token
                     /\ rows'[r].status # "ACTIVE"
                     /\ runningBar[r] = 0
          BY <3>4, <4>1, NotRunning DEF Expire, Expired, IInv, TypeOK, Row
        <4>2. QED
          BY <1>0, <3>1, <4>1, SealStep
      <3>5. CASE Release(c)
        <4>1. PICK q \in Resource : q = op[c].res /\ effectLock[q] = c
          BY <3>5 DEF Release, IInv, CallsAreFormed, LockDiscipline, Holding
        <4>2. runningBar[q] = 0
          BY <3>5, <4>1 DEF Release, runningBar
        <4>3. ASSUME NEW r \in Resource, rows'[r] # rows[r]
              PROVE  /\ rows'[r].token = rows[r].token
                     /\ rows'[r].status # "ACTIVE"
                     /\ runningBar[r] = 0
          BY <3>5, <4>1, <4>2, <4>3 DEF Release, Released, IInv, TypeOK, Row
        <4>4. QED
          BY <1>0, <3>1, <4>3, SealStep
      <3>6. CASE Reject(c) \/ UNCHANGED rows
        BY <3>1, <3>6, Stutter DEF Reject
      <3>7. QED
        BY <2>3, <3>2, <3>3, <3>4, <3>5, <3>6
    <2>4. CASE Enter(c)
      <3>1. PICK r \in Resource : r = op[c].res /\ effectLock[r] = c
        BY <2>4 DEF Enter, IInv, CallsAreFormed, LockDiscipline, Holding
      <3>2. \A q \in Resource \ {r} : effectLock[q] # c
        BY <3>1 DEF IInv, LockDiscipline
      <3>3. runningBar[r] = 0
        BY <2>4, <3>1 DEF Enter, runningBar
      <3>4. /\ \A q \in Resource \ {r} : runningBar'[q] = runningBar[q]
            /\ runningBar'[r] = op[c].token
        BY <2>4, <3>1, <3>2, ClaimsAssumption DEF Enter, runningBar, IInv, TypeOK
      <3>5. rows[r].status = "ACTIVE" /\ rows[r].token = op[c].token
        BY <2>4, <3>1 DEF Enter, Valid, Matches
      <3>6. runningBar' = [runningBar EXCEPT ![r] = rows[r].token]
        BY <3>4, <3>5 DEF runningBar
      <3>7. UNCHANGED rows
        BY <2>4 DEF Enter
      <3>8. Fenced!Enter(r)
        BY <3>3, <3>5, <3>6, <3>7 DEF Fenced!Enter, runningBar
      <3>9. QED
        BY <3>8 DEF Fenced!Next
    <2>5. CASE Leave(c)
      <3>1. PICK r \in Resource : r = op[c].res /\ effectLock[r] = c
        BY <2>5 DEF Leave, IInv, CallsAreFormed, LockDiscipline, Holding
      <3>2. \A q \in Resource \ {r} : effectLock[q] # c
        BY <3>1 DEF IInv, LockDiscipline
      <3>3. runningBar[r] # 0
        BY <2>5, <3>1, ClaimsAssumption DEF Leave, runningBar, IInv, CallsAreFormed, TypeOK
      <3>4. /\ \A q \in Resource \ {r} : runningBar'[q] = runningBar[q]
            /\ runningBar'[r] = 0
        BY <2>5, <3>1, <3>2, ClaimsAssumption DEF Leave, DropEffectLock, runningBar, IInv, TypeOK
      <3>5. runningBar' = [runningBar EXCEPT ![r] = 0]
        BY <3>4 DEF runningBar
      <3>6. UNCHANGED rows
        BY <2>5 DEF Leave
      <3>7. Fenced!Leave(r)
        BY <3>3, <3>5, <3>6 DEF Fenced!Leave, runningBar
      <3>8. QED
        BY <3>7 DEF Fenced!Next
    <2>6. QED
      BY <1>2, <2>1, <2>2, <2>3, <2>4, <2>5 DEF Operate
  <1>3. QED
    BY <1>1, <1>2 DEF Next

\* The in-process store implements the fenced claims that the gateway relies on,
\* for any number of threads and resources.
THEOREM ImplementsFencedClaims == Spec => FencedSpec
  BY SpecIInv, FencedInit, FencedStep, PTL DEF Spec, FencedSpec, Fenced!Spec
=============================================================================
