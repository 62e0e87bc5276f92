--------------------------- MODULE InMemoryClaims ---------------------------
(***************************************************************************)
(* InMemoryExecutionClaimStore (core/execution_claims.py): the claims of    *)
(* one BAGO process, shared by its threads.                                 *)
(*                                                                          *)
(* _guard is an RLock held for a few statements and released before any     *)
(* wait, so a region under _guard is one action.  The per-resource effect   *)
(* lock is held across a material callback, so it is a variable.  Every     *)
(* public operation reads the clock BEFORE it takes _guard: the reading is  *)
(* kept in op[c].now and may be stale when the region runs.  validate, used *)
(* inside execute_if_valid, reads the clock under the guard.                *)
(*                                                                          *)
(* A caller may present any claim that was ever issued: the store cannot    *)
(* know whether the thread that holds the record is late.                   *)
(***************************************************************************)
EXTENDS ClaimRow

CONSTANTS
    Client,                \* threads of the process
    Resource,              \* canonical resource keys
    None,                  \* no client, no resource
    MaxTime,               \* bound: last instant of the model's clock
    MaxToken               \* bound: no acquire starts at this generation

ASSUME ClaimsAssumption ==
    /\ None \notin Client
    /\ None \notin Resource
    /\ Lease \in Nat \ {0}
    /\ MaxTime \in Nat
    /\ MaxToken \in Nat

VARIABLES
    clock,                 \* time.time(), in ticks
    rows,                  \* _claims and _fencing: the current row of each resource
    effectLock,            \* _effect_locks: which client holds the lock of a resource
    op                     \* the call each client is inside

vars == <<clock, rows, effectLock, op>>

Idle == [pc |-> "idle", res |-> None, token |-> 0, now |-> 0]
Holding == {"releasing", "validating", "effect"}
Waiting == {"acquire", "renew", "release", "execute"}

TypeOK ==
    /\ clock \in Nat
    /\ rows \in [Resource -> Row]
    /\ effectLock \in [Resource -> Client \cup {None}]
    /\ op \in [Client -> [pc : {"idle", "expire"} \cup Waiting \cup Holding,
                          res : Resource \cup {None}, token : Nat, now : Nat]]

Init ==
    /\ clock = 0
    /\ rows = [r \in Resource |-> NoRow]
    /\ effectLock = [r \in Resource |-> None]
    /\ op = [c \in Client |-> Idle]

-----------------------------------------------------------------------------
Tick ==
    /\ clock < MaxTime
    /\ clock' = clock + 1
    /\ UNCHANGED <<rows, effectLock, op>>

\* Entering an operation: arguments bound, clock read where the code reads it.
Begin(c, pc, r, t, now) ==
    /\ op[c].pc = "idle"
    /\ op' = [op EXCEPT ![c] = [pc |-> pc, res |-> r, token |-> t, now |-> now]]
    /\ UNCHANGED <<clock, rows, effectLock>>

BeginAcquire(c, r) == rows[r].token < MaxToken /\ Begin(c, "acquire", r, 0, clock)
BeginRenew(c, r) == \E t \in 1 .. rows[r].token : Begin(c, "renew", r, t, clock)
BeginRelease(c, r) == \E t \in 1 .. rows[r].token : Begin(c, "release", r, t, 0)
BeginExecute(c, r) == \E t \in 1 .. rows[r].token : Begin(c, "execute", r, t, 0)
BeginExpire(c) == Begin(c, "expire", None, 0, clock)

\* Faulty: the lease is compared with the end of the tick.
AcquireOneEarly(c) ==
    LET r == op[c].res
        refused == \/ Live(rows[r], op[c].now + 1)
                   \/ rows[r].status = "ACTIVE" /\ effectLock[r] # None
    IN  /\ op[c].pc = "acquire"
        /\ op' = [op EXCEPT ![c] = Idle]
        /\ \/ refused /\ UNCHANGED rows
           \/ ~refused /\ rows' = [rows EXCEPT ![r] = Issued(rows[r], op[c].now)]
        /\ UNCHANGED <<clock, effectLock>>

\* try_acquire under _guard: a live lease excludes; an expired one is not
\* transferred while its effect lock is held; otherwise a new generation.
Acquire(c) ==
    LET r == op[c].res
        refused == \/ Live(rows[r], op[c].now)
                   \/ rows[r].status = "ACTIVE" /\ effectLock[r] # None
    IN  /\ op[c].pc = "acquire"
        /\ op' = [op EXCEPT ![c] = Idle]
        /\ \/ refused /\ UNCHANGED rows
           \/ ~refused /\ rows' = [rows EXCEPT ![r] = Issued(rows[r], op[c].now)]
        /\ UNCHANGED <<clock, effectLock>>

Renew(c) ==
    LET r == op[c].res
        allowed == Matches(rows[r], op[c].token) /\ rows[r].until > op[c].now
    IN  /\ op[c].pc = "renew"
        /\ op' = [op EXCEPT ![c] = Idle]
        /\ \/ ~allowed /\ UNCHANGED rows
           \/ allowed /\ rows' = [rows EXCEPT ![r] = Renewed(rows[r], op[c].now)]
        /\ UNCHANGED <<clock, effectLock>>

\* release and execute_if_valid first wait for the effect lock of the resource.
TakeEffectLock(c) ==
    LET r == op[c].res
    IN  /\ op[c].pc \in {"release", "execute"}
        /\ effectLock[r] = None
        /\ effectLock' = [effectLock EXCEPT ![r] = c]
        /\ op' = [op EXCEPT ![c].pc = IF op[c].pc = "release" THEN "releasing" ELSE "validating"]
        /\ UNCHANGED <<clock, rows>>

DropEffectLock(c) ==
    /\ effectLock' = [effectLock EXCEPT ![op[c].res] = None]
    /\ op' = [op EXCEPT ![c] = Idle]

Release(c) ==
    LET r == op[c].res
        ours == Matches(rows[r], op[c].token)
    IN  /\ op[c].pc = "releasing"
        /\ \/ ~ours /\ UNCHANGED rows
           \/ ours /\ rows' = [rows EXCEPT ![r] = Released(rows[r])]
        /\ DropEffectLock(c)
        /\ UNCHANGED clock

\* Faulty: execute_if_valid forgets the lease.
ValidWithoutLease(c) == Matches(rows[op[c].res], op[c].token)

Valid(c) ==
    /\ Matches(rows[op[c].res], op[c].token)
    /\ rows[op[c].res].until > clock

\* execute_if_valid: validate, then run the callback under the effect lock.
Enter(c) ==
    /\ op[c].pc = "validating"
    /\ Valid(c)
    /\ op' = [op EXCEPT ![c].pc = "effect"]
    /\ UNCHANGED <<clock, rows, effectLock>>

\* Faulty: the lock is not in a with block.
RejectKeepingLock(c) ==
    /\ op[c].pc = "validating"
    /\ ~Valid(c)
    /\ op' = [op EXCEPT ![c] = Idle]
    /\ UNCHANGED <<clock, rows, effectLock>>

\* execute_if_valid: ExecutionClaimError(execution_claim_stale).
Reject(c) ==
    /\ op[c].pc = "validating"
    /\ ~Valid(c)
    /\ DropEffectLock(c)
    /\ UNCHANGED <<clock, rows>>

\* The callback returns or raises.
Leave(c) ==
    /\ op[c].pc = "effect"
    /\ DropEffectLock(c)
    /\ UNCHANGED <<clock, rows>>

\* Faulty: the sweep does not look at the effect locks.
ExpireUnderEffect(c) ==
    /\ op[c].pc = "expire"
    /\ rows' = [r \in Resource |->
                  IF rows[r].status = "ACTIVE" /\ rows[r].until <= op[c].now
                  THEN Expired(rows[r]) ELSE rows[r]]
    /\ op' = [op EXCEPT ![c] = Idle]
    /\ UNCHANGED <<clock, effectLock>>

\* expire sweeps every lapsed row whose effect lock is free.
Expire(c) ==
    /\ op[c].pc = "expire"
    /\ rows' = [r \in Resource |->
                  IF rows[r].status = "ACTIVE" /\ rows[r].until <= op[c].now /\ effectLock[r] = None
                  THEN Expired(rows[r])
                  ELSE rows[r]]
    /\ op' = [op EXCEPT ![c] = Idle]
    /\ UNCHANGED <<clock, effectLock>>

Operate(c) ==
    \/ \E r \in Resource : BeginAcquire(c, r) \/ BeginRenew(c, r) \/ BeginRelease(c, r) \/ BeginExecute(c, r)
    \/ BeginExpire(c)
    \/ Acquire(c) \/ Renew(c) \/ TakeEffectLock(c) \/ Release(c)
    \/ Enter(c) \/ Reject(c) \/ Leave(c) \/ Expire(c)

Next == Tick \/ \E c \in Client : Operate(c)

Spec == Init /\ [][Next]_vars

-----------------------------------------------------------------------------
(* Properties *)

\* A client is in a region guarded by an effect lock exactly when it holds it:
\* no path of release or execute_if_valid leaves the lock behind.
LockDiscipline ==
    \A c \in Client, r \in Resource :
        effectLock[r] = c <=> (op[c].pc \in Holding /\ op[c].res = r)

\* try_acquire never takes a resource from a claim that is still live.
NoTheft ==
    [][\A r \in Resource : rows'[r].token # rows[r].token => ~Live(rows[r], clock)]_vars

\* "Expired claims cannot execute": a callback starts only under a lease that is
\* live at that very instant, although the caller waited for the effect lock.
EffectsStartLive ==
    [][\A c \in Client :
          op[c].pc # "effect" /\ op'[c].pc = "effect" => Live(rows[op[c].res], clock)]_vars

\* The store implements the fenced claims the gateway relies on.
Fenced == INSTANCE FencedClaims WITH
    issued <- [r \in Resource |-> rows[r].token],
    sealed <- [r \in Resource |-> rows[r].status # "ACTIVE"],
    running <- [r \in Resource |->
                  IF effectLock[r] # None /\ op[effectLock[r]].pc = "effect"
                  THEN op[effectLock[r]].token ELSE 0]
FencedSpec == Fenced!Spec
=============================================================================
