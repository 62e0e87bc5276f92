----------------------- MODULE AuthorizationBoundary -----------------------
(***************************************************************************)
(* AuthorizationBoundary (core/authorization_boundary.py) with the grants   *)
(* of DelegationGrantRegistry it mints child Permits from and pins while a  *)
(* compound child runs: challenge, native dialog, Permit, consumption,      *)
(* child leases, delegation, revocation.                                    *)
(*                                                                          *)
(* The threads of one BAGO process share the in-process ledger under _LOCK  *)
(* (authLock) and the grants file under the registry's _LOCK (grantLock). A *)
(* region that takes a lock and waits for nothing is one action guarded by  *)
(* the lock being free; consumed_authority_lease keeps both locks across a  *)
(* child's materializer, and a strong approval keeps                        *)
(* _NATIVE_CONFIRMATION_LOCK (promptLock) across the human's answer.        *)
(*                                                                          *)
(* Time is the set `lapsed' of records whose deadline has passed.  Approval *)
(* and consumption read the clock BEFORE they wait for _LOCK: op.fresh      *)
(* keeps what that reading said of the record.                              *)
(*                                                                          *)
(* A challenge carries its request as a fingerprint.  The request of a      *)
(* scheduled child is named by its grant (it contains delegation_id).       *)
(***************************************************************************)
EXTENDS GrantRow, FiniteSets

CONSTANTS
    Thread,                \* threads of the bridge: handlers and the scheduler
    Challenge, Permit,     \* fresh ids (uuid4), each used once
    Grant,                 \* grant ids
    UserRequest,           \* operations a user may be challenged for
    DelegateRequest,       \* the schedule.delegate operation among them
    StrongRequest,         \* operations that need native confirmation
    None

Request == UserRequest \cup Grant

ASSUME BoundaryAssumption ==
    /\ DelegateRequest \in UserRequest \cap StrongRequest
    /\ StrongRequest \subseteq Request
    /\ Challenge \cap Permit = {} /\ Challenge \cap Grant = {} /\ Permit \cap Grant = {}
    /\ UserRequest \cap Grant = {}
    /\ None \notin Thread \cup Challenge \cup Permit \cup Request

VARIABLES
    challenges, permits,   \* _PROCESS_AUTHORITY, the live ledger
    grants,                \* delegation_grants.json
    lapsed,                \* ids whose expires_at has passed
    authLock, grantLock,   \* holder of each lock across a child's materializer
    promptLock,            \* holder of _NATIVE_CONFIRMATION_LOCK
    op,                    \* the call each thread is inside
    confirmed,             \* history: challenges a human said yes to, in a dialog or at a TTY
    uses                   \* history: how often each permit was consumed

ledger == <<challenges, permits>>
locks == <<authLock, grantLock, promptLock>>
history == <<confirmed, uses>>
vars == <<challenges, permits, grants, lapsed, authLock, grantLock, promptLock, op, confirmed, uses>>

NoChallenge == [state |-> "none", req |-> None, nonce |-> None]
NoPermit == [state |-> "unused", req |-> None, source |-> None, verified |-> FALSE]
Idle == [pc |-> "idle", ch |-> None, via |-> "none", permit |-> None, req |-> None, fresh |-> FALSE]

ChallengeState == {"none", "pending", "confirming", "approved", "denied", "expired", "lost"}
PermitState == {"unused", "active", "consumed", "expired", "revoked", "lost"}

PC == {"idle", "dialog", "denying", "answered", "minting", "claimed", "delegating",
       "consuming", "executing", "child"}

ChallengeRecord == [state : ChallengeState, req : UserRequest \cup {None}, nonce : Thread \cup {None}]
PermitRecord == [state : PermitState, req : Request \cup {None},
                 source : Challenge \cup Grant \cup {None}, verified : BOOLEAN]
CallRecord == [pc : PC, ch : Challenge \cup {None}, via : {"none", "channel", "dialog", "tty"},
               permit : Permit \cup {None}, req : Request \cup {None}, fresh : BOOLEAN]

TypeOK ==
    /\ challenges \in [Challenge -> ChallengeRecord]
    /\ permits \in [Permit -> PermitRecord]
    /\ grants \in [Grant -> GrantRecord]
    /\ lapsed \subseteq Challenge \cup Permit \cup Grant
    /\ authLock \in Thread \cup {None}
    /\ grantLock \in Thread \cup {None}
    /\ promptLock \in Thread \cup {None}
    /\ op \in [Thread -> CallRecord]
    /\ confirmed \subseteq Challenge
    /\ uses \in [Permit -> Nat]

Init ==
    /\ challenges = [c \in Challenge |-> NoChallenge]
    /\ permits = [p \in Permit |-> NoPermit]
    /\ grants = [g \in Grant |-> NoGrant]
    /\ lapsed = {}
    /\ authLock = None /\ grantLock = None /\ promptLock = None
    /\ op = [t \in Thread |-> Idle]
    /\ confirmed = {}
    /\ uses = [p \in Permit |-> 0]

\* Faulty: an effect is missing from the strong ones.
StrongForgetful(r) == r \in StrongRequest \ {DelegateRequest}

\* _requires_native_confirmation
Strong(r) == r \in StrongRequest

Call(t, pc, c, via) == op' = [op EXCEPT ![t] =
    [pc |-> pc, ch |-> c, via |-> via, permit |-> None, req |-> None, fresh |-> FALSE]]
Goto(t, pc) == op' = [op EXCEPT ![t] = [@ EXCEPT !.pc = pc]]
Return(t) == op' = [op EXCEPT ![t] = Idle]
Resolve(c, state) == challenges' = [challenges EXCEPT ![c] = [@ EXCEPT !.state = state, !.nonce = None]]
FreePrompt(t) == promptLock' = IF promptLock = t THEN None ELSE promptLock

-----------------------------------------------------------------------------
(* Challenges and their approval *)

CreateChallenge(c, r) ==
    /\ authLock = None
    /\ challenges[c].state = "none"
    /\ challenges' = [challenges EXCEPT ![c] = [state |-> "pending", req |-> r, nonce |-> None]]
    /\ UNCHANGED <<permits, grants, lapsed, locks, op, history>>

\* approve_challenge, first region: the clock is read inside the lock.  A strong
\* operation needs the one dialog; "busy" refuses without touching the record.
Approve(t, c) ==
    LET strong == Strong(challenges[c].req)
    IN  /\ op[t].pc = "idle"
        /\ authLock = None
        /\ challenges[c].state = "pending"
        /\ \/ /\ c \in lapsed
              /\ Resolve(c, "expired")
              /\ UNCHANGED <<op, promptLock>>
           \/ /\ c \notin lapsed /\ ~strong
              /\ Call(t, "answered", c, "channel")
              /\ UNCHANGED <<challenges, promptLock>>
           \/ /\ c \notin lapsed /\ strong
              /\ promptLock = None
              /\ promptLock' = t
              /\ challenges' = [challenges EXCEPT ![c] = [@ EXCEPT !.state = "confirming", !.nonce = t]]
              /\ Call(t, "dialog", c, "dialog")
        /\ UNCHANGED <<permits, grants, lapsed, authLock, grantLock, history>>

\* Faulty: the answer of the dialog is ignored.
DialogIgnored(t) ==
    /\ op[t].pc = "dialog"
    /\ Goto(t, "answered")
    /\ UNCHANGED <<ledger, grants, lapsed, locks, history>>

\* confirm_strong_challenge answered: no lock but the dialog's is held meanwhile.
DialogYes(t) ==
    /\ op[t].pc = "dialog"
    /\ Goto(t, "answered")
    /\ confirmed' = confirmed \cup {op[t].ch}
    /\ UNCHANGED <<ledger, grants, lapsed, locks, uses>>

DialogNo(t) ==
    /\ op[t].pc = "dialog"
    /\ Goto(t, "denying")
    /\ UNCHANGED <<ledger, grants, lapsed, locks, history>>

Deny(t) ==
    LET c == op[t].ch
        ours == challenges[c].state = "confirming" /\ challenges[c].nonce = t
    IN  /\ op[t].pc = "denying"
        /\ authLock = None
        /\ \/ ours /\ Resolve(c, "denied")
           \/ ~ours /\ UNCHANGED challenges
        /\ FreePrompt(t)
        /\ Return(t)
        /\ UNCHANGED <<permits, grants, lapsed, authLock, grantLock, history>>

\* approve_cli_challenge: a human confirmed at an interactive terminal.
ApproveCli(t, c) ==
    /\ op[t].pc = "idle"
    /\ challenges[c].state # "none"
    /\ Call(t, "answered", c, "tty")
    /\ confirmed' = confirmed \cup {c}
    /\ UNCHANGED <<ledger, grants, lapsed, locks, uses>>

\* _approve_challenge_record reads the clock, then waits for _LOCK.
ReadClock(t) ==
    /\ op[t].pc = "answered"
    /\ op' = [op EXCEPT ![t] = [@ EXCEPT !.pc = "minting", !.fresh = op[t].ch \notin lapsed]]
    /\ UNCHANGED <<ledger, grants, lapsed, locks, history>>

Issue(p, r, source, verified) ==
    /\ permits[p].state = "unused"
    /\ permits' = [permits EXCEPT ![p] =
          [state |-> "active", req |-> r, source |-> source, verified |-> verified]]

\* Faulty: the challenge is not looked at again under the lock.
MintUnchecked(t) ==
    LET c == op[t].ch
    IN  /\ op[t].pc = "minting"
        /\ authLock = None
        /\ Resolve(c, "approved")
        /\ \E p \in Permit : Issue(p, challenges[c].req, c, op[t].via # "channel")
        /\ FreePrompt(t)
        /\ Return(t)
        /\ UNCHANGED <<grants, lapsed, authLock, grantLock, history>>

\* _approve_challenge_record under _LOCK; approve_challenge then frees the dialog.
Mint(t) ==
    LET c == op[t].ch
        expected == IF op[t].via = "dialog" THEN "confirming" ELSE "pending"
        nonce == IF op[t].via = "dialog" THEN t ELSE None
    IN  /\ op[t].pc = "minting"
        /\ authLock = None
        /\ \/ challenges[c].state # expected /\ UNCHANGED ledger
           \/ challenges[c].state = expected /\ ~op[t].fresh /\ Resolve(c, "expired") /\ UNCHANGED permits
           \/ challenges[c].state = expected /\ op[t].fresh /\ challenges[c].nonce # nonce /\ UNCHANGED ledger
           \/ /\ challenges[c].state = expected /\ op[t].fresh /\ challenges[c].nonce = nonce
              /\ Resolve(c, "approved")
              \* verified_by server_native_dialog or interactive_tty; a channel only declares.
              /\ \E p \in Permit : Issue(p, challenges[c].req, c, op[t].via # "channel")
        /\ FreePrompt(t)
        /\ Return(t)
        /\ UNCHANGED <<grants, lapsed, authLock, grantLock, history>>

-----------------------------------------------------------------------------
(* Permits of a scheduled child: spend a run, read the clock, mint *)

\* issue_delegated_permit, claim_child: the registry's clock is read in its lock.
ClaimChild(t, g) ==
    /\ op[t].pc = "idle"
    /\ grantLock = None
    /\ grants[g].state # "none"
    /\ \/ /\ Claimable(grants[g], g \in lapsed)
          /\ grants' = [grants EXCEPT ![g] = Spent(grants[g])]
          /\ op' = [op EXCEPT ![t] = [pc |-> "claimed", ch |-> None, via |-> "none", permit |-> None,
                                   req |-> g, fresh |-> FALSE]]
       \/ /\ ~Claimable(grants[g], g \in lapsed)
          /\ grants' = [grants EXCEPT ![g] = Judged(grants[g], g \in lapsed)]
          /\ UNCHANGED op
    /\ UNCHANGED <<ledger, lapsed, locks, history>>

\* permit_deadline = min(now + ttl, grant deadline): a lapsed grant ends it here.
ReadDeadline(t) ==
    /\ op[t].pc = "claimed"
    /\ \/ op[t].req \in lapsed /\ Return(t)
       \/ op[t].req \notin lapsed /\ Goto(t, "delegating")
    /\ UNCHANGED <<ledger, grants, lapsed, locks, history>>

MintDelegated(t) ==
    LET g == op[t].req
    IN  /\ op[t].pc = "delegating"
        /\ authLock = None
        /\ \E p \in Permit :
              /\ Issue(p, g, g, FALSE)
              /\ lapsed' = IF g \in lapsed THEN lapsed \cup {p} ELSE lapsed
        /\ Return(t)
        /\ UNCHANGED <<challenges, grants, locks, history>>

-----------------------------------------------------------------------------
(* Consumption, children, revocation *)

\* _has_verified_strong_provenance
Verified(p) == permits[p].source \in Grant \/ permits[p].verified

\* Faulty: the new state is never written to the ledger.
MoveUnsaved(p, state) == UNCHANGED permits

Move(p, state) == permits' = [permits EXCEPT ![p] = [@ EXCEPT !.state = state]]

\* The gateway presents a permit for a request: the clock is read, _LOCK awaited.
Present(t, p, r) ==
    /\ op[t].pc = "idle"
    /\ permits[p].state # "unused"
    /\ op' = [op EXCEPT ![t] = [pc |-> "consuming", ch |-> None, via |-> "none", permit |-> p,
                                req |-> r, fresh |-> p \notin lapsed]]
    /\ UNCHANGED <<ledger, grants, lapsed, locks, history>>

\* consume_permit under _LOCK: consumed before the effect, or refused.
Consume(t) ==
    LET p == op[t].permit
        bound == permits[p].state = "active" /\ permits[p].req = op[t].req
        admitted == bound /\ op[t].fresh /\ (Strong(op[t].req) => Verified(p))
    IN  /\ op[t].pc = "consuming"
        /\ authLock = None
        /\ \/ /\ admitted
              /\ Move(p, "consumed")
              /\ uses' = [uses EXCEPT ![p] = @ + 1]
              /\ Goto(t, "executing")
           \/ /\ bound /\ ~op[t].fresh
              /\ Move(p, "expired")
              /\ Return(t)
              /\ UNCHANGED uses
           \/ /\ ~admitted /\ (bound => op[t].fresh)
              /\ Return(t)
              /\ UNCHANGED <<permits, uses>>
        /\ UNCHANGED <<challenges, grants, lapsed, locks, confirmed>>

\* consumed_authority_lease admits a compound child: the clock is read in the lock.
Admits(t) ==
    LET p == op[t].permit
    IN  permits[p].state = "consumed" /\ p \notin lapsed /\ (Strong(op[t].req) => Verified(p))

\* Both locks are kept until the child's materializer returns.
BeginChild(t) ==
    LET g == permits[op[t].permit].source
    IN  /\ op[t].pc = "executing"
        /\ authLock = None
        /\ Admits(t)
        /\ \/ g \notin Grant /\ UNCHANGED grantLock
           \/ g \in Grant /\ grantLock = None /\ Fresh(grants[g], g \in lapsed) /\ grantLock' = t
        /\ authLock' = t
        /\ Goto(t, "child")
        /\ UNCHANGED <<ledger, grants, lapsed, promptLock, history>>

\* The lease is refused and the compound effect stops.
RefuseChild(t) ==
    LET g == permits[op[t].permit].source
        stale == g \in Grant /\ ~Fresh(grants[g], g \in lapsed)
    IN  /\ op[t].pc = "executing"
        /\ authLock = None
        /\ \/ ~Admits(t) /\ UNCHANGED grants
           \/ /\ Admits(t) /\ stale
              /\ grantLock = None
              /\ grants' = [grants EXCEPT ![g] = Refused(grants[g], g \in lapsed)]
        /\ Return(t)
        /\ UNCHANGED <<ledger, lapsed, locks, history>>

\* Faulty: the grant's lock outlives the child.
EndChildKeepingGrant(t) ==
    /\ op[t].pc = "child"
    /\ authLock' = None
    /\ Goto(t, "executing")
    /\ UNCHANGED <<ledger, grants, lapsed, grantLock, promptLock, history>>

EndChild(t) ==
    /\ op[t].pc = "child"
    /\ authLock' = None
    /\ grantLock' = IF grantLock = t THEN None ELSE grantLock
    /\ Goto(t, "executing")
    /\ UNCHANGED <<ledger, grants, lapsed, promptLock, history>>

\* The schedule.delegate adapter: issue_from_authorized_request writes the grant.
IssueGrant(t, g) ==
    /\ op[t].pc = "executing"
    /\ op[t].req = DelegateRequest
    /\ grantLock = None
    /\ grants[g].state = "none"
    /\ grants' = [grants EXCEPT ![g] = IssuedGrant]
    /\ Return(t)
    /\ UNCHANGED <<ledger, lapsed, locks, history>>

\* Faulty: an effect that failed gives its permit back.
FinishRefunding(t) ==
    /\ op[t].pc = "executing"
    /\ Move(op[t].permit, "active")
    /\ Return(t)
    /\ UNCHANGED <<challenges, grants, lapsed, locks, history>>

\* The effect returned, raised, or (delegation_conflict) wrote nothing.
Finish(t) ==
    /\ op[t].pc = "executing"
    /\ Return(t)
    /\ UNCHANGED <<ledger, grants, lapsed, locks, history>>

\* revoke_permit: any issued permit, consumed or not.
RevokePermit(p) ==
    /\ authLock = None
    /\ permits[p].state \notin {"unused", "revoked", "lost"}
    /\ Move(p, "revoked")
    /\ UNCHANGED <<challenges, grants, lapsed, locks, op, history>>

\* Faulty: the revocation does not wait for the child.
RevokeGrantAtOnce(g) ==
    /\ grants[g].state \notin {"none", "revoked"}
    /\ grants' = [grants EXCEPT ![g] = Revoked(grants[g])]
    /\ UNCHANGED <<ledger, lapsed, locks, op, history>>

\* DelegationGrantRegistry.revoke
RevokeGrant(g) ==
    /\ grantLock = None
    /\ grants[g].state \notin {"none", "revoked"}
    /\ grants' = [grants EXCEPT ![g] = Revoked(grants[g])]
    /\ UNCHANGED <<ledger, lapsed, locks, op, history>>

-----------------------------------------------------------------------------
(* The environment *)

\* A deadline passes; a delegated permit never outlives its grant.
Lapse ==
    /\ \/ \E c \in Challenge \ lapsed : challenges[c].state \in {"pending", "confirming"}
                                         /\ lapsed' = lapsed \cup {c}
       \/ \E p \in Permit \ lapsed : permits[p].state \in {"active", "consumed"}
                                      /\ lapsed' = lapsed \cup {p}
       \/ \E g \in Grant \ lapsed : grants[g].state # "none"
                                     /\ lapsed' = lapsed \cup {g} \cup {p \in Permit : permits[p].source = g}
    /\ UNCHANGED <<ledger, grants, locks, op, history>>

\* Faulty: no finally block frees the dialog.
WriteFailsKeepingPrompt(t) ==
    /\ op[t].pc \in {"denying", "minting", "delegating", "consuming"}
    /\ authLock = None
    /\ Return(t)
    /\ UNCHANGED <<ledger, grants, lapsed, locks, history>>

\* _write_ledger or the registry's write raises: the process memory keeps the old
\* ledger, the call ends with the error, the finally block frees the dialog.
WriteFails(t) ==
    /\ op[t].pc \in {"denying", "minting", "delegating", "consuming"}
    /\ authLock = None
    /\ FreePrompt(t)
    /\ Return(t)
    /\ UNCHANGED <<ledger, grants, lapsed, authLock, grantLock, history>>

\* The process dies and starts again: the ledger was its memory, the projection
\* file is never read back; the grants file survives.
Crash ==
    /\ \E t \in Thread : op[t].pc # "idle"
    /\ challenges' = [c \in Challenge |->
          IF challenges[c].state = "none" THEN challenges[c]
          ELSE [challenges[c] EXCEPT !.state = "lost", !.nonce = None]]
    /\ permits' = [p \in Permit |->
          IF permits[p].state = "unused" THEN permits[p] ELSE [permits[p] EXCEPT !.state = "lost"]]
    /\ authLock' = None /\ grantLock' = None /\ promptLock' = None
    /\ op' = [t \in Thread |-> Idle]
    /\ UNCHANGED <<grants, lapsed, history>>

Operate(t) ==
    \/ \E c \in Challenge : Approve(t, c) \/ ApproveCli(t, c)
    \/ DialogYes(t) \/ DialogNo(t) \/ Deny(t) \/ ReadClock(t) \/ Mint(t)
    \/ \E g \in Grant : ClaimChild(t, g) \/ IssueGrant(t, g)
    \/ ReadDeadline(t) \/ MintDelegated(t)
    \/ \E p \in Permit, r \in Request : Present(t, p, r)
    \/ Consume(t) \/ BeginChild(t) \/ RefuseChild(t) \/ EndChild(t) \/ Finish(t) \/ WriteFails(t)

Next ==
    \/ \E c \in Challenge, r \in UserRequest : CreateChallenge(c, r)
    \/ \E t \in Thread : Operate(t)
    \/ \E p \in Permit : RevokePermit(p)
    \/ \E g \in Grant : RevokeGrant(g)
    \/ Lapse
    \/ Crash

Spec == Init /\ [][Next]_vars

-----------------------------------------------------------------------------
(* Properties *)

Minted(x) == {p \in Permit : permits[p].source = x}

\* "Un Permit se consume antes de la ejecución material y no admite replay": no
\* permit is ever consumed twice, however the presentations interleave, across
\* revocations, failed writes and restarts.
NoReplay == \A p \in Permit : uses[p] <= 1

\* A challenge mints at most one permit, whichever of dialog, terminal and
\* channel approvals race for it; a refused or expired one mints none.
OneAnswerOnePermit ==
    \A c \in Challenge :
        /\ Cardinality(Minted(c)) <= 1
        /\ challenges[c].state \notin {"approved", "lost"} => Minted(c) = {}

\* A strong operation runs only from a human's yes in the dialog or terminal to a
\* challenge for that very operation, or from a grant that came from such a yes.
StrongUseWasConfirmed ==
    \A p \in Permit : uses[p] > 0 /\ permits[p].req \in StrongRequest =>
        \/ /\ permits[p].source \in confirmed
           /\ challenges[permits[p].source].req = permits[p].req
        \/ permits[p].source \in Grant /\ permits[p].source = permits[p].req

\* Every grant goes back to a consumed schedule.delegate permit that a human
\* confirmed.
GrantsComeFromHumans ==
    (\E g \in Grant : grants[g].state # "none") =>
        \E p \in Permit : /\ uses[p] > 0
                          /\ permits[p].req = DelegateRequest
                          /\ permits[p].source \in confirmed

\* "authority is lost rather than duplicated": a grant never yields more permits
\* than runs it has spent, nor more runs than the user allowed, whatever fails
\* between claim_child and the ledger write.
RunsBoundPermits ==
    \A g \in Grant :
        Cardinality(Minted(g)) + Cardinality({t \in Thread : op[t].pc \in {"claimed", "delegating"}
                                                             /\ op[t].req = g})
            <= grants[g].runs /\ grants[g].runs <= MaxRuns

\* "revoke_permit() linearizes either before the child (zero effect) or after it
\* completes": while a child's materializer runs, its permit is consumed and not
\* revoked, and the grant it derives from is neither revoked nor expired.
NoChildUnderRevokedAuthority ==
    \A t \in Thread : op[t].pc = "child" =>
        LET p == op[t].permit
        IN  /\ permits[p].state = "consumed"
            /\ permits[p].source \in Grant => grants[permits[p].source].state \in {"active", "exhausted"}

\* One dialog at a time, and no path of approve_challenge (an answer, an expiry, a
\* lost race, a failed write) leaves _NATIVE_CONFIRMATION_LOCK behind.
PromptLockDiscipline ==
    \A t \in Thread : promptLock = t <=> op[t].via = "dialog"

\* A compound child holds the authority lock, and only a child keeps a lock.
LeaseLockDiscipline ==
    /\ \A t \in Thread : authLock = t <=> op[t].pc = "child"
    /\ grantLock # None => authLock = grantLock

\* A permit leaves "active" for good, and a revoked one is never anything else.
AuthorityOnlyShrinks ==
    [][\A p \in Permit :
          /\ permits[p].state \notin {"unused", "active"} => permits'[p].state # "active"
          /\ permits[p].state = "revoked" => permits'[p].state \in {"revoked", "lost"}]_vars
=============================================================================
