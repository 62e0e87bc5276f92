-------------------- MODULE AuthorizationBoundaryProofs --------------------
(***************************************************************************)
(* AuthorizationBoundary for any number of threads, challenges, permits and *)
(* grants: no replay, one permit per answer, strong operations and grants   *)
(* that go back to a human's yes, locks that come back, and no compound     *)
(* child under revoked authority.                                           *)
(***************************************************************************)
EXTENDS AuthorizationBoundary, FiniteSetTheorems, TLAPS

Approving == {"dialog", "denying", "answered", "minting"}
Delegating == {"claimed", "delegating"}
Presenting == {"consuming", "executing", "child"}

\* A call in flight names what it is about, and only an approval has a channel.
ShapedCall == {o \in CallRecord :
    /\ o.pc \in Approving => o.ch \in Challenge
    /\ o.pc \in {"dialog", "denying"} => o.via = "dialog"
    /\ o.pc \in Delegating => o.req \in Grant
    /\ o.pc \in Presenting => o.permit \in Permit
    /\ o.pc \notin Approving => o.via = "none"}

Typed == TypeOK /\ op \in [Thread -> ShapedCall]

\* Assignments to a record's fields stay within its type.
LEMMA GrantFacts ==
    ASSUME NEW g \in GrantRecord, NEW l
    PROVE  /\ Spent(g) \in GrantRecord
           /\ Judged(g, l) \in GrantRecord
           /\ Refused(g, l) \in GrantRecord
           /\ Revoked(g) \in GrantRecord
           /\ IssuedGrant \in GrantRecord
  BY MaxRunsAssumption
  DEF GrantRecord, GrantState, Spent, Judged, Refused, Revoked, IssuedGrant

LEMMA LedgerFacts ==
    /\ \A r \in ChallengeRecord, s \in ChallengeState, n \in Thread \cup {None} :
          /\ [r EXCEPT !.state = s, !.nonce = n] \in ChallengeRecord
          /\ [state |-> s, req |-> r.req, nonce |-> n] \in ChallengeRecord
    /\ \A r \in PermitRecord, s \in PermitState : [r EXCEPT !.state = s] \in PermitRecord
  BY DEF ChallengeRecord, PermitRecord

LEMMA CallFacts ==
    /\ Idle \in ShapedCall
    /\ \A c \in Challenge, b \in BOOLEAN :
          /\ \A via \in {"channel", "dialog", "tty"}, pc \in {"answered", "minting"} :
                [pc |-> pc, ch |-> c, via |-> via, permit |-> None, req |-> None, fresh |-> b] \in ShapedCall
          /\ [pc |-> "dialog", ch |-> c, via |-> "dialog", permit |-> None, req |-> None, fresh |-> b]
                \in ShapedCall
    /\ \A g \in Grant :
          [pc |-> "claimed", ch |-> None, via |-> "none", permit |-> None, req |-> g, fresh |-> FALSE]
             \in ShapedCall
    /\ \A p \in Permit, r \in Request, b \in BOOLEAN :
          [pc |-> "consuming", ch |-> None, via |-> "none", permit |-> p, req |-> r, fresh |-> b] \in ShapedCall
  BY DEF ShapedCall, CallRecord, PC, Idle, Approving, Delegating, Presenting, Request

LEMMA MoveFacts ==
    ASSUME NEW o \in ShapedCall
    PROVE  /\ o.pc = "dialog" => /\ [o EXCEPT !.pc = "answered"] \in ShapedCall
                                 /\ [o EXCEPT !.pc = "denying"] \in ShapedCall
           /\ o.pc = "answered" =>
                \A b \in BOOLEAN : [o EXCEPT !.pc = "minting", !.fresh = b] \in ShapedCall
           /\ o.pc = "claimed" => [o EXCEPT !.pc = "delegating"] \in ShapedCall
           /\ o.pc \in Presenting => /\ [o EXCEPT !.pc = "executing"] \in ShapedCall
                                     /\ [o EXCEPT !.pc = "child"] \in ShapedCall
  BY DEF ShapedCall, CallRecord, PC, Approving, Delegating, Presenting

LEMMA InitTyped == Init => Typed
  BY BoundaryAssumption, CallFacts
  DEF Init, Typed, TypeOK, NoChallenge, NoPermit, NoGrant, ChallengeRecord, ChallengeState,
      PermitRecord, PermitState, GrantRecord, GrantState, ShapedCall

\* What a thread's step leaves of its call is a call.
LEMMA StepCall ==
    ASSUME Typed, NEW t \in Thread, Operate(t)
    PROVE  /\ op' \in [Thread -> ShapedCall]
           /\ \A d \in Thread \ {t} : op'[d] = op[d]
  <1> USE DEF Typed
  <1>0. op[t] \in ShapedCall
    OBVIOUS
  <1>1. \/ UNCHANGED op
        \/ \E o \in ShapedCall : op' = [op EXCEPT ![t] = o]
    <2>1. ASSUME NEW c \in Challenge, Approve(t, c) \/ ApproveCli(t, c)
          PROVE  UNCHANGED op \/ \E o \in ShapedCall : op' = [op EXCEPT ![t] = o]
      BY <2>1, CallFacts DEF Approve, ApproveCli, Call
    <2>2. CASE DialogYes(t) \/ DialogNo(t) \/ ReadClock(t)
      BY <1>0, <2>2, MoveFacts DEF DialogYes, DialogNo, ReadClock, Goto
    <2>3. CASE Deny(t) \/ Mint(t) \/ MintDelegated(t) \/ RefuseChild(t) \/ Finish(t) \/ WriteFails(t)
      BY <2>3, CallFacts DEF Deny, Mint, MintDelegated, RefuseChild, Finish, WriteFails, Return
    <2>4. ASSUME NEW g \in Grant, ClaimChild(t, g) \/ IssueGrant(t, g)
          PROVE  UNCHANGED op \/ \E o \in ShapedCall : op' = [op EXCEPT ![t] = o]
      BY <2>4, CallFacts DEF ClaimChild, IssueGrant, Return
    <2>5. CASE ReadDeadline(t)
      BY <1>0, <2>5, CallFacts, MoveFacts DEF ReadDeadline, Goto, Return
    <2>6. ASSUME NEW p \in Permit, NEW r \in Request, Present(t, p, r)
          PROVE  UNCHANGED op \/ \E o \in ShapedCall : op' = [op EXCEPT ![t] = o]
      BY <2>6, CallFacts DEF Present
    <2>7. CASE Consume(t) \/ BeginChild(t) \/ EndChild(t)
      BY <1>0, <2>7, CallFacts, MoveFacts DEF Consume, BeginChild, EndChild, Goto, Return, Presenting
    <2>8. QED
      BY <2>1, <2>2, <2>3, <2>4, <2>5, <2>6, <2>7 DEF Operate
  <1>2. QED
    BY <1>1

LEMMA NextTyped == Typed /\ [Next]_vars => Typed'
  <1> SUFFICES ASSUME Typed, [Next]_vars PROVE Typed'
    OBVIOUS
  <1> USE DEF Typed, TypeOK, ledger, locks, history
  <1>0. /\ {"pending", "confirming", "approved", "denied", "expired", "lost"} \subseteq ChallengeState
        /\ {"active", "consumed", "expired", "revoked", "lost"} \subseteq PermitState
        /\ None \in Thread \cup {None}
    BY DEF ChallengeState, PermitState
  <1>1. ASSUME NEW t \in Thread, Operate(t) PROVE Typed'
    <2>0. op' \in [Thread -> ShapedCall] /\ op' \in [Thread -> CallRecord]
      BY <1>1, StepCall DEF ShapedCall
    <2>1. ASSUME NEW c \in Challenge, Approve(t, c) PROVE Typed'
      <3>1. /\ [challenges[c] EXCEPT !.state = "expired", !.nonce = None] \in ChallengeRecord
            /\ [challenges[c] EXCEPT !.state = "confirming", !.nonce = t] \in ChallengeRecord
        BY <1>0, LedgerFacts
      <3>2. challenges' \in [Challenge -> ChallengeRecord]
        BY <2>1, <3>1 DEF Approve, Resolve
      <3>3. promptLock' \in Thread \cup {None}
        BY <2>1 DEF Approve
      <3>4. QED
        BY <2>0, <2>1, <3>2, <3>3 DEF Approve
    <2>2. ASSUME NEW c \in Challenge, ApproveCli(t, c) PROVE Typed'
      BY <2>0, <2>2 DEF ApproveCli
    <2>3. CASE DialogYes(t)
      <3>1. op[t].ch \in Challenge
        BY <2>3 DEF DialogYes, ShapedCall, Approving
      <3>2. QED
        BY <2>0, <2>3, <3>1 DEF DialogYes
    <2>4. CASE DialogNo(t) \/ ReadClock(t) \/ ReadDeadline(t) \/ EndChild(t) \/ BeginChild(t) \/ Finish(t)
                \/ WriteFails(t)
      BY <2>0, <2>4
      DEF DialogNo, ReadClock, ReadDeadline, EndChild, BeginChild, Finish, WriteFails, FreePrompt
    <2>5. CASE Deny(t)
      <3>1. op[t].ch \in Challenge
        BY <2>5 DEF Deny, ShapedCall, Approving
      <3>2. [challenges[op[t].ch] EXCEPT !.state = "denied", !.nonce = None] \in ChallengeRecord
        BY <1>0, <3>1, LedgerFacts
      <3>3. challenges' \in [Challenge -> ChallengeRecord]
        BY <2>5, <3>2 DEF Deny, Resolve
      <3>4. QED
        BY <2>0, <2>5, <3>3 DEF Deny, FreePrompt
    <2>6. CASE Mint(t)
      <3>1. op[t].ch \in Challenge
        BY <2>6 DEF Mint, ShapedCall, Approving
      <3>2. \A s \in {"approved", "expired"} :
               [challenges[op[t].ch] EXCEPT !.state = s, !.nonce = None] \in ChallengeRecord
        BY <1>0, <3>1, LedgerFacts
      <3>3. challenges' \in [Challenge -> ChallengeRecord]
        BY <2>6, <3>2 DEF Mint, Resolve
      <3>4. [state |-> "active", req |-> challenges[op[t].ch].req, source |-> op[t].ch,
             verified |-> op[t].via # "channel"] \in PermitRecord
        BY <1>0, <3>1 DEF PermitRecord, ChallengeRecord, Request
      <3>5. permits' \in [Permit -> PermitRecord]
        BY <2>6, <3>4 DEF Mint, Issue
      <3>6. QED
        BY <2>0, <2>6, <3>3, <3>5 DEF Mint, FreePrompt
    <2>7. ASSUME NEW g \in Grant, ClaimChild(t, g) \/ IssueGrant(t, g) PROVE Typed'
      <3>1. Spent(grants[g]) \in GrantRecord /\ Judged(grants[g], g \in lapsed) \in GrantRecord
            /\ IssuedGrant \in GrantRecord
        BY GrantFacts
      <3>2. grants' \in [Grant -> GrantRecord]
        BY <2>7, <3>1 DEF ClaimChild, IssueGrant
      <3>3. QED
        BY <2>0, <2>7, <3>2 DEF ClaimChild, IssueGrant
    <2>8. CASE MintDelegated(t)
      <3>1. op[t].req \in Grant
        BY <2>8 DEF MintDelegated, ShapedCall, Delegating
      <3>2. [state |-> "active", req |-> op[t].req, source |-> op[t].req, verified |-> FALSE] \in PermitRecord
        BY <1>0, <3>1 DEF PermitRecord, Request
      <3>3. permits' \in [Permit -> PermitRecord]
        BY <2>8, <3>2 DEF MintDelegated, Issue
      <3>4. lapsed' \subseteq Challenge \cup Permit \cup Grant
        BY <2>8 DEF MintDelegated
      <3>5. QED
        BY <2>0, <2>8, <3>3, <3>4 DEF MintDelegated
    <2>9. ASSUME NEW p \in Permit, NEW r \in Request, Present(t, p, r) PROVE Typed'
      BY <2>0, <2>9 DEF Present
    <2>10. CASE Consume(t)
      <3>1. op[t].permit \in Permit
        BY <2>10 DEF Consume, ShapedCall, Presenting
      <3>2. \A s \in {"consumed", "expired"} : [permits[op[t].permit] EXCEPT !.state = s] \in PermitRecord
        BY <1>0, <3>1, LedgerFacts
      <3>3. permits' \in [Permit -> PermitRecord]
        BY <2>10, <3>2 DEF Consume, Move
      <3>4. uses' \in [Permit -> Nat]
        BY <2>10, <3>1 DEF Consume
      <3>5. QED
        BY <2>0, <2>10, <3>3, <3>4 DEF Consume
    <2>11. CASE RefuseChild(t)
      <3>1. grants' \in [Grant -> GrantRecord]
        <4>1. \A g \in Grant : Refused(grants[g], g \in lapsed) \in GrantRecord
          BY GrantFacts
        <4>2. QED
          BY <2>11, <4>1 DEF RefuseChild
      <3>2. QED
        BY <2>0, <2>11, <3>1 DEF RefuseChild
    <2>12. QED
      BY <1>1, <2>1, <2>2, <2>3, <2>4, <2>5, <2>6, <2>7, <2>8, <2>9, <2>10, <2>11 DEF Operate
  <1>2. ASSUME NEW c \in Challenge, NEW r \in UserRequest, CreateChallenge(c, r) PROVE Typed'
    <2>1. [state |-> "pending", req |-> r, nonce |-> None] \in ChallengeRecord
      BY <1>0 DEF ChallengeRecord
    <2>2. QED
      BY <1>2, <2>1 DEF CreateChallenge
  <1>3. ASSUME NEW p \in Permit, RevokePermit(p) PROVE Typed'
    <2>1. [permits[p] EXCEPT !.state = "revoked"] \in PermitRecord
      BY <1>0, LedgerFacts
    <2>2. QED
      BY <1>3, <2>1 DEF RevokePermit, Move
  <1>4. ASSUME NEW g \in Grant, RevokeGrant(g) PROVE Typed'
    <2>1. Revoked(grants[g]) \in GrantRecord
      BY GrantFacts
    <2>2. QED
      BY <1>4, <2>1 DEF RevokeGrant
  <1>5. CASE Lapse
    <2>1. lapsed' \subseteq Challenge \cup Permit \cup Grant
      BY <1>5 DEF Lapse
    <2>2. QED
      BY <1>5, <2>1 DEF Lapse
  <1>6. CASE Crash
    <2>1. challenges' \in [Challenge -> ChallengeRecord]
      <3>1. \A c \in Challenge :
              [challenges[c] EXCEPT !.state = "lost", !.nonce = None] \in ChallengeRecord
        BY <1>0, LedgerFacts
      <3>2. QED
        BY <1>6, <3>1 DEF Crash
    <2>2. permits' \in [Permit -> PermitRecord]
      <3>1. \A p \in Permit : [permits[p] EXCEPT !.state = "lost"] \in PermitRecord
        BY <1>0, LedgerFacts
      <3>2. QED
        BY <1>6, <3>1 DEF Crash
    <2>3. op' \in [Thread -> ShapedCall] /\ op' \in [Thread -> CallRecord]
      BY <1>6, CallFacts DEF Crash, ShapedCall
    <2>4. QED
      BY <1>6, <2>1, <2>2, <2>3 DEF Crash
  <1>7. CASE UNCHANGED vars
    BY <1>7 DEF vars
  <1>8. QED
    BY <1>1, <1>2, <1>3, <1>4, <1>5, <1>6, <1>7 DEF Next

\* Every reachable state has the declared types, and every call its shape.
LEMMA SpecTyped == Spec => []Typed
  BY InitTyped, NextTyped, PTL DEF Spec

-----------------------------------------------------------------------------
(* What a step may do to a call, a challenge, a permit, a grant *)

LEMMA CallSteps ==
    ASSUME Typed, Next, NEW t \in Thread, op'[t] # op[t]
    PROVE  Operate(t) \/ Crash
  <1>1. ASSUME NEW c \in Challenge, NEW r \in UserRequest, CreateChallenge(c, r) PROVE FALSE
    BY <1>1 DEF CreateChallenge
  <1>2. ASSUME NEW d \in Thread, Operate(d), d # t PROVE FALSE
    BY <1>2, StepCall
  <1>3. QED
    BY <1>1, <1>2 DEF Next, RevokePermit, RevokeGrant, Lapse

\* Resolving changes one challenge, and not what it is about.
LEMMA ResolveFacts ==
    ASSUME Typed, NEW c \in Challenge, NEW d, NEW s, Resolve(d, s), challenges'[c] # challenges[c]
    PROVE  c = d /\ challenges'[c].state = s /\ challenges'[c].req = challenges[c].req
  <1>1. challenges[c] \in ChallengeRecord
    BY DEF Typed, TypeOK
  <1>2. c = d
    BY DEF Resolve, Typed, TypeOK
  <1>3. challenges'[c] = [challenges[c] EXCEPT !.state = s, !.nonce = None]
    BY <1>2 DEF Resolve, Typed, TypeOK
  <1>4. QED
    BY <1>1, <1>2, <1>3 DEF ChallengeRecord

\* A challenge is created once; then its request stands, and a final state is final.
LEMMA ChallengeSteps ==
    ASSUME Typed, Next, NEW c \in Challenge, challenges'[c] # challenges[c]
    PROVE  \/ challenges[c].state = "none"
           \/ /\ challenges[c].state # "none" /\ challenges'[c].state # "none"
              /\ challenges'[c].req = challenges[c].req
              /\ challenges[c].state \in {"approved", "lost"} => challenges'[c].state \in {"approved", "lost"}
  <1> USE DEF Typed, TypeOK
  <1>0. challenges[c] \in ChallengeRecord
    OBVIOUS
  <1>1. ASSUME NEW d \in Challenge, NEW r \in UserRequest, CreateChallenge(d, r)
        PROVE  challenges[c].state = "none"
    BY <1>1 DEF CreateChallenge
  <1>2. ASSUME NEW t \in Thread, Operate(t)
        PROVE  /\ challenges[c].state \notin {"none", "approved", "lost"} /\ challenges'[c].state # "none"
               /\ challenges'[c].req = challenges[c].req
    <2>1. \/ \E d \in Challenge : Approve(t, d)
          \/ Deny(t)
          \/ Mint(t)
      BY <1>2
      DEF Operate, ApproveCli, DialogYes, DialogNo, ReadClock, ClaimChild, IssueGrant, ReadDeadline,
          MintDelegated, Present, Consume, BeginChild, RefuseChild, EndChild, Finish, WriteFails, ledger
    <2>2. ASSUME NEW d \in Challenge, Approve(t, d)
          PROVE  /\ challenges[c].state = "pending" /\ challenges'[c].state \in {"expired", "confirming"}
                 /\ challenges'[c].req = challenges[c].req
      <3>1. d = c /\ challenges[c].state = "pending"
        BY <2>2 DEF Approve, Resolve
      <3>2. \/ Resolve(c, "expired")
            \/ challenges'[c] = [challenges[c] EXCEPT !.state = "confirming", !.nonce = t]
        BY <2>2, <3>1 DEF Approve
      <3>3. QED
        BY <1>0, <3>1, <3>2, ResolveFacts DEF ChallengeRecord
    <2>3. CASE Deny(t)
      <3>1. Resolve(op[t].ch, "denied") /\ challenges[op[t].ch].state = "confirming"
        BY <2>3 DEF Deny
      <3>2. QED
        BY <3>1, ResolveFacts
    <2>4. CASE Mint(t)
      <3>1. /\ Resolve(op[t].ch, "approved") \/ Resolve(op[t].ch, "expired")
            /\ challenges[op[t].ch].state \in {"pending", "confirming"}
        BY <2>4 DEF Mint, ledger
      <3>2. QED
        BY <3>1, ResolveFacts
    <2>5. QED
      BY <2>1, <2>2, <2>3, <2>4
  <1>3. CASE Crash
    BY <1>0, <1>3 DEF Crash, ChallengeRecord
  <1>4. QED
    BY <1>1, <1>2, <1>3 DEF Next, RevokePermit, RevokeGrant, Lapse, ledger

\* The four ways a permit changes: minted from an answer or from a grant, consumed,
\* or moved to a state it is never consumed in.
MintsAnswer(t, p) ==
    LET c == op[t].ch
    IN  /\ op[t].pc = "minting"
        /\ c \in Challenge
        /\ challenges[c].state \in {"pending", "confirming"}
        /\ challenges'[c].state = "approved" /\ challenges'[c].req = challenges[c].req
        /\ permits' = [permits EXCEPT ![p] = [state |-> "active", req |-> challenges[c].req, source |-> c,
                                              verified |-> op[t].via # "channel"]]

MintsRun(t, p) ==
    /\ MintDelegated(t)
    /\ op[t].req \in Grant
    /\ permits' = [permits EXCEPT ![p] = [state |-> "active", req |-> op[t].req, source |-> op[t].req,
                                          verified |-> FALSE]]

Consumes(t, p) ==
    /\ op[t].permit = p
    /\ permits[p].state = "active"
    /\ permits[p].req = op[t].req
    /\ Strong(permits[p].req) => Verified(p)
    /\ permits'[p] = [permits[p] EXCEPT !.state = "consumed"]
    /\ uses'[p] = uses[p] + 1

Moves(p) ==
    /\ permits[p].state # "unused"
    /\ \E s \in {"expired", "revoked", "lost"} :
          /\ permits'[p] = [permits[p] EXCEPT !.state = s]
          /\ s = "expired" => permits[p].state = "active"
    /\ UNCHANGED uses

LEMMA PermitSteps ==
    ASSUME Typed, Next, NEW p \in Permit
    PROVE  \/ permits'[p] = permits[p] /\ uses'[p] = uses[p]
           \/ /\ permits[p].state = "unused"
              /\ UNCHANGED uses
              /\ \E t \in Thread : MintsAnswer(t, p) \/ MintsRun(t, p)
           \/ \E t \in Thread : Consumes(t, p)
           \/ Moves(p)
  <1> USE DEF Typed, TypeOK
  <1>0. permits[p] \in PermitRecord /\ uses[p] \in Nat
    OBVIOUS
  <1> DEFINE Goal == \/ permits'[p] = permits[p] /\ uses'[p] = uses[p]
                     \/ /\ permits[p].state = "unused"
                        /\ UNCHANGED uses
                        /\ \E t \in Thread : MintsAnswer(t, p) \/ MintsRun(t, p)
                     \/ \E t \in Thread : Consumes(t, p)
                     \/ Moves(p)
  <1>1. ASSUME UNCHANGED <<permits, uses>> PROVE Goal
    BY <1>1
  <1>2. ASSUME NEW t \in Thread, Operate(t) PROVE Goal
    <2>1. \/ UNCHANGED <<permits, uses>>
          \/ Mint(t) \/ MintDelegated(t) \/ Consume(t)
      BY <1>2
      DEF Operate, Approve, ApproveCli, DialogYes, DialogNo, Deny, ReadClock, ClaimChild, IssueGrant,
          ReadDeadline, Present, BeginChild, RefuseChild, EndChild, Finish, WriteFails, ledger, history
    <2>2. CASE Mint(t) /\ permits'[p] # permits[p]
      <3>1. op[t].ch \in Challenge
        BY <2>2 DEF Mint, ShapedCall, Approving
      <3>2. /\ challenges[op[t].ch].state \in {"pending", "confirming"}
            /\ Resolve(op[t].ch, "approved")
            /\ \E q \in Permit : Issue(q, challenges[op[t].ch].req, op[t].ch, op[t].via # "channel")
        BY <2>2 DEF Mint, ledger
      <3>3. challenges'[op[t].ch].state = "approved"
            /\ challenges'[op[t].ch].req = challenges[op[t].ch].req
        BY <3>1, <3>2 DEF Resolve, ChallengeRecord
      <3>4. Issue(p, challenges[op[t].ch].req, op[t].ch, op[t].via # "channel")
        BY <2>2, <3>2 DEF Issue
      <3>5. MintsAnswer(t, p) /\ permits[p].state = "unused"
        BY <2>2, <3>1, <3>2, <3>3, <3>4 DEF Mint, MintsAnswer, Issue
      <3>6. UNCHANGED uses
        BY <2>2 DEF Mint, history
      <3>7. QED
        BY <3>5, <3>6
    <2>3. CASE Mint(t) /\ permits'[p] = permits[p]
      BY <2>3 DEF Mint, history
    <2>4. CASE MintDelegated(t) /\ permits'[p] # permits[p]
      <3>1. op[t].req \in Grant
        BY <2>4 DEF MintDelegated, ShapedCall, Delegating
      <3>2. Issue(p, op[t].req, op[t].req, FALSE)
        BY <2>4 DEF MintDelegated, Issue
      <3>3. MintsRun(t, p) /\ permits[p].state = "unused"
        BY <2>4, <3>1, <3>2 DEF MintsRun, Issue
      <3>4. QED
        BY <2>4, <3>3 DEF MintDelegated, history
    <2>5. CASE MintDelegated(t) /\ permits'[p] = permits[p]
      BY <2>5 DEF MintDelegated, history
    <2>6. CASE Consume(t)
      <3>1. CASE op[t].permit # p
        BY <2>6, <3>1 DEF Consume, Move
      <3>2. CASE op[t].permit = p
        BY <1>0, <2>6, <3>2 DEF Consume, Move, Consumes, Moves, PermitRecord
      <3>3. QED
        BY <3>1, <3>2
    <2>7. QED
      BY <1>1, <2>1, <2>2, <2>3, <2>4, <2>5, <2>6
  <1>3. ASSUME NEW q \in Permit, RevokePermit(q) PROVE Goal
    BY <1>0, <1>3 DEF RevokePermit, Move, Moves, history
  <1>4. CASE Crash
    BY <1>0, <1>4 DEF Crash, Moves, history
  <1>5. ASSUME NEW c \in Challenge, NEW r \in UserRequest, CreateChallenge(c, r) PROVE Goal
    BY <1>5 DEF CreateChallenge, history
  <1>6. CASE Lapse \/ \E g \in Grant : RevokeGrant(g)
    BY <1>6 DEF Lapse, RevokeGrant, ledger, history
  <1>7. QED
    BY <1>2, <1>3, <1>4, <1>5, <1>6 DEF Next

\* Only an authorized adapter creates a grant, and nobody touches one under its lock.
LEMMA GrantSteps ==
    ASSUME Typed, Next, NEW g \in Grant, grants'[g] # grants[g]
    PROVE  /\ grantLock = None
           /\ grants[g].state = "none" =>
                \E t \in Thread : op[t].pc = "executing" /\ op[t].req = DelegateRequest
  <1> USE DEF Typed, TypeOK
  <1>0. grants[g] \in GrantRecord
    OBVIOUS
  <1>1. ASSUME NEW t \in Thread, Operate(t)
        PROVE  /\ grantLock = None
               /\ grants[g].state = "none" => op[t].pc = "executing" /\ op[t].req = DelegateRequest
    <2>1. \/ \E h \in Grant : ClaimChild(t, h) \/ IssueGrant(t, h)
          \/ RefuseChild(t)
      BY <1>1
      DEF Operate, Approve, ApproveCli, DialogYes, DialogNo, Deny, ReadClock, Mint, MintDelegated,
          ReadDeadline, Present, Consume, BeginChild, EndChild, Finish, WriteFails
    <2>2. ASSUME NEW h \in Grant, ClaimChild(t, h)
          PROVE  grantLock = None /\ grants[g].state # "none"
      BY <2>2 DEF ClaimChild
    <2>3. ASSUME NEW h \in Grant, IssueGrant(t, h)
          PROVE  grantLock = None /\ op[t].pc = "executing" /\ op[t].req = DelegateRequest
      BY <2>3 DEF IssueGrant
    <2>4. CASE RefuseChild(t)
      <3>1. grantLock = None
        BY <2>4 DEF RefuseChild
      <3>2. grants[g].state # "none"
        <4>1. grants'[g] = Refused(grants[g], g \in lapsed)
          BY <2>4 DEF RefuseChild
        <4>2. QED
          BY <1>0, <4>1 DEF Refused, GrantRecord
      <3>3. QED
        BY <3>1, <3>2
    <2>5. QED
      BY <2>1, <2>2, <2>3, <2>4
  <1>2. ASSUME NEW h \in Grant, RevokeGrant(h) PROVE grantLock = None /\ grants[g].state # "none"
    BY <1>2 DEF RevokeGrant
  <1>3. QED
    BY <1>1, <1>2 DEF Next, CreateChallenge, RevokePermit, Lapse, Crash

-----------------------------------------------------------------------------
(* The inductive invariant *)

\* A child of a delegated permit keeps its grant's registry locked, so the grant
\* its permit derives from stands as long as it runs.
ChildPinsItsGrant ==
    \A t \in Thread : op[t].pc = "child" /\ permits[op[t].permit].source \in Grant => grantLock = t

\* A permit that may still be consumed never was.
ActiveIsUnused ==
    \A p \in Permit : uses[p] <= 1 /\ (uses[p] > 0 => permits[p].state \notin {"unused", "active"})

\* A permit is for what its challenge asked or for a run of its grant, and one that
\* counts as verified goes back to a human's yes.
PermitsHaveOrigin ==
    \A p \in Permit : permits[p].state # "unused" =>
        \/ /\ permits[p].source \in Challenge
           /\ challenges[permits[p].source].state # "none"
           /\ challenges[permits[p].source].req = permits[p].req
           /\ permits[p].verified => permits[p].source \in confirmed
        \/ permits[p].source \in Grant /\ permits[p].source = permits[p].req

\* An approval past the human's answer is one the human gave, unless by a channel.
AnswersAreGiven ==
    \A t \in Thread : op[t].pc \in {"answered", "minting"} /\ op[t].via # "channel" =>
        op[t].ch \in confirmed

UsesAreVerified ==
    \A p \in Permit : uses[p] > 0 /\ Strong(permits[p].req) => Verified(p)

\* An effect runs for the permit it consumed and the request it was consumed for.
EffectsArePaid ==
    \A t \in Thread : op[t].pc \in {"executing", "child"} =>
        uses[op[t].permit] > 0 /\ permits[op[t].permit].req = op[t].req

\* A challenge's permits are one, and there is none before it is approved.
MintedOnce ==
    \A c \in Challenge :
        /\ \A p, q \in Minted(c) : p = q
        /\ challenges[c].state \notin {"approved", "lost"} => Minted(c) = {}

LockInv ==
    /\ LeaseLockDiscipline
    /\ ChildPinsItsGrant
    /\ NoChildUnderRevokedAuthority
    /\ PromptLockDiscipline

PermitInv ==
    /\ ActiveIsUnused
    /\ PermitsHaveOrigin
    /\ AnswersAreGiven
    /\ UsesAreVerified
    /\ EffectsArePaid
    /\ GrantsComeFromHumans
    /\ MintedOnce

IInv == Typed /\ LockInv /\ PermitInv

LEMMA InitIInv == Init => IInv
  <1> SUFFICES ASSUME Init PROVE IInv
    OBVIOUS
  <1> USE BoundaryAssumption DEF Init, Idle, NoPermit, NoGrant
  <1>1. LockInv
    BY DEF LockInv, LeaseLockDiscipline, ChildPinsItsGrant, NoChildUnderRevokedAuthority, PromptLockDiscipline
  <1>2. \A c \in Challenge : Minted(c) = {}
    BY DEF Minted
  <1>3. PermitInv
    BY <1>2 DEF PermitInv, ActiveIsUnused, PermitsHaveOrigin, AnswersAreGiven, UsesAreVerified,
        EffectsArePaid, GrantsComeFromHumans, MintedOnce
  <1>4. QED
    BY <1>1, <1>3, InitTyped DEF IInv

-----------------------------------------------------------------------------
(* The locks *)

\* A call that moves on keeps everything but its place.
LEMMA GotoFacts ==
    ASSUME Typed, NEW t \in Thread, NEW pc, Goto(t, pc)
    PROVE  /\ op'[t].pc = pc
           /\ op'[t].via = op[t].via /\ op'[t].ch = op[t].ch
           /\ op'[t].permit = op[t].permit /\ op'[t].req = op[t].req
  <1>1. op[t] \in CallRecord /\ op'[t] = [op[t] EXCEPT !.pc = pc]
    BY DEF Typed, TypeOK, Goto
  <1>2. QED
    BY <1>1 DEF CallRecord

LEMMA ReturnFacts ==
    ASSUME Typed, NEW t \in Thread, Return(t)
    PROVE  op'[t] = Idle /\ op'[t].pc = "idle" /\ op'[t].via = "none"
  BY DEF Typed, TypeOK, Return, Idle

LEMMA ReadClockFacts ==
    ASSUME Typed, NEW t \in Thread, ReadClock(t)
    PROVE  op'[t].pc = "minting" /\ op'[t].via = op[t].via /\ op'[t].ch = op[t].ch
  <1>1. /\ op[t] \in CallRecord
        /\ op'[t] = [op[t] EXCEPT !.pc = "minting", !.fresh = op[t].ch \notin lapsed]
    BY DEF Typed, TypeOK, ReadClock
  <1>2. QED
    BY <1>1 DEF CallRecord

\* Only a child takes or gives back the locks of the ledger and of the registry.
LEMMA LeaseSteps ==
    ASSUME Typed, Next, ~Crash
    PROVE  \/ \E t \in Thread : BeginChild(t) \/ EndChild(t)
           \/ /\ UNCHANGED <<authLock, grantLock>>
              /\ \A t \in Thread : /\ op[t].pc = "child" => op'[t] = op[t]
                                   /\ op'[t].pc = "child" => op[t].pc = "child"
  <1> USE DEF Typed, TypeOK
  <1>1. ASSUME NEW t \in Thread, Operate(t), ~BeginChild(t), ~EndChild(t)
        PROVE  UNCHANGED <<authLock, grantLock>> /\ op[t].pc # "child" /\ op'[t].pc # "child"
    <2>1. UNCHANGED <<authLock, grantLock>>
      BY <1>1
      DEF Operate, Approve, ApproveCli, DialogYes, DialogNo, Deny, ReadClock, Mint, ClaimChild, IssueGrant,
          ReadDeadline, MintDelegated, Present, Consume, RefuseChild, Finish, WriteFails, locks
    <2>2. op[t].pc # "child"
      BY <1>1
      DEF Operate, Approve, ApproveCli, DialogYes, DialogNo, Deny, ReadClock, Mint, ClaimChild, IssueGrant,
          ReadDeadline, MintDelegated, Present, Consume, RefuseChild, Finish, WriteFails
    <2>3. op'[t].pc # "child"
      <3>1. CASE \/ DialogYes(t) \/ DialogNo(t) \/ ReadClock(t) \/ ReadDeadline(t) \/ Consume(t)
        BY <3>1, GotoFacts, ReadClockFacts
        DEF DialogYes, DialogNo, ReadDeadline, Consume, Return, Idle
      <3>2. CASE Deny(t) \/ Mint(t) \/ MintDelegated(t) \/ RefuseChild(t) \/ Finish(t) \/ WriteFails(t)
        <4>1. Return(t)
          BY <3>2 DEF Deny, Mint, MintDelegated, RefuseChild, Finish, WriteFails
        <4>2. QED
          BY <4>1, ReturnFacts
      <3>3. ASSUME NEW c \in Challenge, Approve(t, c) \/ ApproveCli(t, c) PROVE op'[t].pc # "child"
        BY <2>2, <3>3 DEF Approve, ApproveCli, Call
      <3>4. ASSUME NEW g \in Grant, ClaimChild(t, g) \/ IssueGrant(t, g) PROVE op'[t].pc # "child"
        BY <2>2, <3>4 DEF ClaimChild, IssueGrant, Return, Idle
      <3>5. ASSUME NEW p \in Permit, NEW r \in Request, Present(t, p, r) PROVE op'[t].pc # "child"
        BY <3>5 DEF Present
      <3>6. QED
        BY <1>1, <3>1, <3>2, <3>3, <3>4, <3>5 DEF Operate
    <2>4. QED
      BY <2>1, <2>2, <2>3
  <1>2. ASSUME NEW t \in Thread, Operate(t), ~BeginChild(t), ~EndChild(t)
        PROVE  /\ UNCHANGED <<authLock, grantLock>>
               /\ \A d \in Thread : /\ op[d].pc = "child" => op'[d] = op[d]
                                    /\ op'[d].pc = "child" => op[d].pc = "child"
    BY <1>1, <1>2, StepCall
  <1>3. CASE UNCHANGED <<authLock, grantLock, op>>
    BY <1>3
  <1>4. QED
    BY <1>2, <1>3 DEF Next, CreateChallenge, RevokePermit, RevokeGrant, Lapse, locks

\* Nothing writes the permits while a child holds the authority lock.
LEMMA PermitsStand ==
    ASSUME Typed, Next, ~Crash, authLock # None
    PROVE  UNCHANGED permits
  BY DEF Next, CreateChallenge, RevokePermit, RevokeGrant, Lapse, Operate, Approve, ApproveCli, DialogYes,
         DialogNo, Deny, ReadClock, Mint, ClaimChild, IssueGrant, ReadDeadline, MintDelegated, Present,
         Consume, BeginChild, EndChild, RefuseChild, Finish, WriteFails, ledger

\* Every approval by dialog, and nothing else, holds the dialog.
LEMMA PromptSteps ==
    ASSUME Typed, PromptLockDiscipline, Next
    PROVE  PromptLockDiscipline'
  <1> USE BoundaryAssumption DEF Typed, TypeOK
  <1>1. ASSUME NEW t \in Thread, Operate(t) PROVE PromptLockDiscipline'
    <2>1. \/ /\ promptLock' = promptLock
             /\ op'[t].via = "dialog" <=> op[t].via = "dialog"
          \/ /\ promptLock = None /\ promptLock' = t
             /\ op'[t].via = "dialog"
          \/ /\ FreePrompt(t)
             /\ op'[t].via # "dialog"
      <3>0. op[t] \in ShapedCall
        OBVIOUS
      <3>1. ASSUME NEW c \in Challenge, Approve(t, c) \/ ApproveCli(t, c)
            PROVE  \/ promptLock' = promptLock /\ (op'[t].via = "dialog" <=> op[t].via = "dialog")
                   \/ promptLock = None /\ promptLock' = t /\ op'[t].via = "dialog"
        BY <3>0, <3>1 DEF Approve, ApproveCli, Call, ShapedCall, Approving, locks
      <3>2. CASE Deny(t) \/ Mint(t) \/ WriteFails(t)
        BY <3>2 DEF Deny, Mint, WriteFails, Return, Idle
      <3>3. CASE DialogYes(t) \/ DialogNo(t) \/ ReadClock(t) \/ BeginChild(t) \/ EndChild(t)
        BY <3>3, GotoFacts, ReadClockFacts DEF DialogYes, DialogNo, ReadClock, BeginChild, EndChild, locks
      <3>4. CASE MintDelegated(t) \/ RefuseChild(t) \/ Finish(t) \/ ReadDeadline(t)
        <4>1. promptLock' = promptLock /\ op[t].via = "none"
          BY <3>0, <3>4
          DEF MintDelegated, RefuseChild, Finish, ReadDeadline, locks, ShapedCall, Approving
        <4>2. Return(t) \/ Goto(t, "delegating")
          BY <3>4 DEF MintDelegated, RefuseChild, Finish, ReadDeadline
        <4>3. op'[t].via = "none"
          BY <4>1, <4>2, GotoFacts, ReturnFacts
        <4>4. QED
          BY <4>1, <4>3
      <3>5. CASE Consume(t)
        BY <3>0, <3>5, GotoFacts DEF Consume, Return, Idle, locks, ShapedCall, Approving
      <3>6. ASSUME NEW g \in Grant, ClaimChild(t, g) \/ IssueGrant(t, g)
            PROVE  promptLock' = promptLock /\ op'[t].via # "dialog" /\ op[t].via # "dialog"
        BY <3>0, <3>6 DEF ClaimChild, IssueGrant, Return, Idle, locks, ShapedCall, Approving
      <3>7. ASSUME NEW p \in Permit, NEW r \in Request, Present(t, p, r)
            PROVE  promptLock' = promptLock /\ op'[t].via # "dialog" /\ op[t].via # "dialog"
        BY <3>0, <3>7 DEF Present, locks, ShapedCall, Approving
      <3>8. QED
        BY <1>1, <3>1, <3>2, <3>3, <3>4, <3>5, <3>6, <3>7 DEF Operate
    <2>2. QED
      BY <1>1, <2>1, StepCall DEF PromptLockDiscipline, FreePrompt
  <1>2. CASE Crash
    BY <1>2 DEF Crash, PromptLockDiscipline, Idle
  <1>3. CASE UNCHANGED <<promptLock, op>>
    BY <1>3 DEF PromptLockDiscipline
  <1>4. QED
    BY <1>1, <1>2, <1>3 DEF Next, CreateChallenge, RevokePermit, RevokeGrant, Lapse, locks

LEMMA NextLockInv ==
    ASSUME Typed, LockInv, Next
    PROVE  LockInv'
  <1> USE BoundaryAssumption DEF LockInv
  <1>1. PromptLockDiscipline'
    BY PromptSteps
  <1>2. LeaseLockDiscipline' /\ ChildPinsItsGrant' /\ NoChildUnderRevokedAuthority'
    <2>1. CASE Crash
      BY <2>1
      DEF Crash, Idle, LeaseLockDiscipline, ChildPinsItsGrant, NoChildUnderRevokedAuthority
    <2>2. ASSUME ~Crash, NEW t \in Thread, BeginChild(t)
          PROVE  LeaseLockDiscipline' /\ ChildPinsItsGrant' /\ NoChildUnderRevokedAuthority'
      <3>1. /\ op[t].pc = "executing" /\ authLock = None /\ authLock' = t
            /\ UNCHANGED <<permits, grants>>
            /\ op' = [op EXCEPT ![t] = [@ EXCEPT !.pc = "child"]]
            /\ permits[op[t].permit].state = "consumed"
        BY <2>2 DEF BeginChild, Admits, Goto, ledger
      <3>2. /\ permits[op[t].permit].source \notin Grant => grantLock' = grantLock
            /\ permits[op[t].permit].source \in Grant =>
                 /\ grantLock' = t
                 /\ grants[permits[op[t].permit].source].state \in {"active", "exhausted"}
        BY <2>2 DEF BeginChild, Fresh
      <3>3. \A d \in Thread : op[d].pc # "child"
        BY <3>1 DEF LeaseLockDiscipline
      <3>4. /\ op'[t].pc = "child" /\ op'[t].permit = op[t].permit
            /\ \A d \in Thread \ {t} : op'[d].pc # "child"
        BY <3>1, <3>3 DEF Typed, TypeOK, CallRecord
      <3>5. LeaseLockDiscipline'
        BY <3>1, <3>2, <3>4 DEF LeaseLockDiscipline, Typed, TypeOK
      <3>6. ChildPinsItsGrant' /\ NoChildUnderRevokedAuthority'
        BY <3>1, <3>2, <3>4 DEF ChildPinsItsGrant, NoChildUnderRevokedAuthority
      <3>7. QED
        BY <3>5, <3>6
    <2>3. ASSUME ~Crash, NEW t \in Thread, EndChild(t)
          PROVE  LeaseLockDiscipline' /\ ChildPinsItsGrant' /\ NoChildUnderRevokedAuthority'
      <3>1. \A d \in Thread : op'[d].pc # "child"
        BY <2>3 DEF EndChild, Goto, LeaseLockDiscipline, Typed, TypeOK
      <3>2. authLock' = None /\ grantLock' = None
        BY <2>3 DEF EndChild, LeaseLockDiscipline
      <3>3. QED
        BY <3>1, <3>2 DEF LeaseLockDiscipline, ChildPinsItsGrant, NoChildUnderRevokedAuthority
    <2>4. CASE /\ ~Crash
               /\ UNCHANGED <<authLock, grantLock>>
               /\ \A t \in Thread : /\ op[t].pc = "child" => op'[t] = op[t]
                                    /\ op'[t].pc = "child" => op[t].pc = "child"
      <3>1. LeaseLockDiscipline'
        BY <2>4 DEF LeaseLockDiscipline
      <3>2. ASSUME NEW t \in Thread, op'[t].pc = "child"
            PROVE  /\ op[t].pc = "child" /\ op'[t] = op[t]
                   /\ UNCHANGED permits
        BY <2>4, <3>2, PermitsStand DEF LeaseLockDiscipline
      <3>3. ChildPinsItsGrant'
        BY <2>4, <3>2 DEF ChildPinsItsGrant
      <3>4. ASSUME NEW t \in Thread, op'[t].pc = "child", NEW g \in Grant,
                   g = permits[op[t].permit].source
            PROVE  grants'[g] = grants[g]
        BY <3>2, <3>4, GrantSteps DEF ChildPinsItsGrant
      <3>5. NoChildUnderRevokedAuthority'
        BY <3>2, <3>4 DEF NoChildUnderRevokedAuthority
      <3>6. QED
        BY <3>1, <3>3, <3>5
    <2>5. QED
      BY <2>1, <2>2, <2>3, <2>4, LeaseSteps
  <1>3. QED
    BY <1>1, <1>2

-----------------------------------------------------------------------------
(* Permits and what they go back to *)

\* What a human confirmed and what a permit or a challenge is about never change.
LEMMA OriginStands ==
    ASSUME Typed, Next
    PROVE  /\ confirmed \subseteq confirmed'
           /\ \A c \in Challenge : challenges[c].state # "none" =>
                 challenges'[c].state # "none" /\ challenges'[c].req = challenges[c].req
           /\ \A p \in Permit : permits[p].state # "unused" =>
                 /\ permits'[p].state # "unused"
                 /\ permits'[p].source = permits[p].source
                 /\ permits'[p].req = permits[p].req
                 /\ permits'[p].verified = permits[p].verified
                 /\ uses'[p] >= uses[p]
  <1>1. confirmed \subseteq confirmed'
    BY DEF Next, CreateChallenge, RevokePermit, RevokeGrant, Lapse, Crash, Operate, Approve, ApproveCli,
        DialogYes, DialogNo, Deny, ReadClock, Mint, ClaimChild, IssueGrant, ReadDeadline, MintDelegated,
        Present, Consume, BeginChild, EndChild, RefuseChild, Finish, WriteFails, history
  <1>2. ASSUME NEW c \in Challenge, challenges[c].state # "none"
        PROVE  challenges'[c].state # "none" /\ challenges'[c].req = challenges[c].req
    BY <1>2, ChallengeSteps
  <1>3. ASSUME NEW p \in Permit, permits[p].state # "unused"
        PROVE  /\ permits'[p].state # "unused"
               /\ permits'[p].source = permits[p].source
               /\ permits'[p].req = permits[p].req
               /\ permits'[p].verified = permits[p].verified
               /\ uses'[p] >= uses[p]
    <2>1. permits[p] \in PermitRecord /\ uses[p] \in Nat
      BY DEF Typed, TypeOK
    <2>2. CASE permits'[p] = permits[p] /\ uses'[p] = uses[p]
      BY <1>3, <2>1, <2>2
    <2>3. CASE \E t \in Thread : Consumes(t, p)
      BY <2>1, <2>3 DEF Consumes, PermitRecord
    <2>4. CASE Moves(p)
      BY <2>1, <2>4 DEF Moves, PermitRecord
    <2>5. QED
      BY <1>3, <2>2, <2>3, <2>4, PermitSteps
  <1>4. QED
    BY <1>1, <1>2, <1>3

\* The permit of an answer is new, and so is its challenge's approval.
LEMMA MintedFrom ==
    ASSUME Typed, Next, NEW c \in Challenge, NEW p \in Permit, permits'[p].source = c
    PROVE  \/ permits[p].source = c
           \/ \E t \in Thread : MintsAnswer(t, p) /\ op[t].ch = c
  <1>1. permits[p] \in PermitRecord
    BY DEF Typed, TypeOK
  <1>2. CASE permits[p].state # "unused"
    BY <1>2, OriginStands
  <1>3. CASE permits[p].state = "unused"
    <2>1. \/ permits'[p] = permits[p]
          \/ \E t \in Thread : MintsAnswer(t, p) \/ MintsRun(t, p)
      BY <1>3, PermitSteps DEF Consumes, Moves
    <2>2. ASSUME NEW t \in Thread, MintsAnswer(t, p) PROVE op[t].ch = c
      BY <2>2 DEF MintsAnswer, Typed, TypeOK
    <2>3. ASSUME NEW t \in Thread, MintsRun(t, p) PROVE FALSE
      BY <2>3, BoundaryAssumption DEF MintsRun, Typed, TypeOK
    <2>4. QED
      BY <2>1, <2>2, <2>3
  <1>4. QED
    BY <1>2, <1>3

\* The permit of a run is new too, and ends the call that spent the run.
LEMMA MintedRun ==
    ASSUME Typed, Next, NEW g \in Grant, NEW p \in Permit, permits'[p].source = g, permits[p].source # g
    PROVE  \E t \in Thread : MintDelegated(t) /\ MintsRun(t, p) /\ op[t].req = g
  <1>1. permits[p] \in PermitRecord
    BY DEF Typed, TypeOK
  <1>2. permits[p].state = "unused"
    BY OriginStands
  <1>3. PICK t \in Thread : MintsAnswer(t, p) \/ MintsRun(t, p)
    BY <1>2, PermitSteps DEF Consumes, Moves
  <1>4. ~MintsAnswer(t, p)
    BY BoundaryAssumption DEF MintsAnswer, Typed, TypeOK
  <1>5. op[t].req = g
    BY <1>3, <1>4 DEF MintsRun, Typed, TypeOK
  <1>6. QED
    BY <1>3, <1>4, <1>5 DEF MintsRun

\* A human's answer comes before any approval that counts as verified.
LEMMA NextAnswersAreGiven ==
    ASSUME Typed, AnswersAreGiven, Next
    PROVE  AnswersAreGiven'
  <1> SUFFICES ASSUME NEW t \in Thread, op'[t].pc \in {"answered", "minting"}, op'[t].via # "channel"
               PROVE  op'[t].ch \in confirmed'
    BY DEF AnswersAreGiven
  <1>1. CASE op'[t] = op[t]
    BY <1>1, OriginStands DEF AnswersAreGiven
  <1>2. CASE Crash
    BY <1>2 DEF Crash, Idle
  <1>3. CASE Operate(t)
    <2>1. ASSUME Return(t) PROVE FALSE
      BY <2>1, ReturnFacts
    <2>2. \/ \E c \in Challenge : Approve(t, c) \/ ApproveCli(t, c)
          \/ DialogYes(t) \/ DialogNo(t) \/ ReadClock(t)
          \/ \E g \in Grant : ClaimChild(t, g)
          \/ ReadDeadline(t) \/ Consume(t) \/ BeginChild(t) \/ EndChild(t)
          \/ \E p \in Permit, r \in Request : Present(t, p, r)
      BY <1>3, <2>1
      DEF Operate, Deny, Mint, IssueGrant, MintDelegated, RefuseChild, Finish, WriteFails
    <2>3. CASE DialogYes(t)
      BY <2>3, GotoFacts DEF DialogYes
    <2>4. CASE ReadClock(t)
      <3>1. op[t].pc = "answered" /\ op'[t].via = op[t].via /\ op'[t].ch = op[t].ch
        BY <2>4, ReadClockFacts DEF ReadClock
      <3>2. QED
        BY <3>1, OriginStands DEF AnswersAreGiven
    <2>5. ASSUME NEW c \in Challenge, Approve(t, c), op'[t] # op[t] PROVE FALSE
      BY <2>5 DEF Approve, Call, Typed, TypeOK
    <2>6. ASSUME NEW c \in Challenge, ApproveCli(t, c) PROVE op'[t].ch \in confirmed'
      BY <2>6 DEF ApproveCli, Call, Typed, TypeOK
    <2>7. CASE DialogNo(t) \/ ReadDeadline(t) \/ Consume(t) \/ BeginChild(t) \/ EndChild(t)
      BY <2>1, <2>7, GotoFacts DEF DialogNo, ReadDeadline, Consume, BeginChild, EndChild
    <2>8. ASSUME NEW g \in Grant, ClaimChild(t, g), op'[t] # op[t] PROVE FALSE
      BY <2>8 DEF ClaimChild, Typed, TypeOK
    <2>9. ASSUME NEW p \in Permit, NEW r \in Request, Present(t, p, r) PROVE FALSE
      BY <2>9 DEF Present, Typed, TypeOK
    <2>10. QED
      BY <1>1, <2>2, <2>3, <2>4, <2>5, <2>6, <2>7, <2>8, <2>9
  <1>4. QED
    BY <1>1, <1>2, <1>3, CallSteps

\* An effect in progress stays paid, and a new one was just paid.
LEMMA NextEffectsArePaid ==
    ASSUME Typed, ActiveIsUnused, EffectsArePaid, Next
    PROVE  EffectsArePaid'
  <1> SUFFICES ASSUME NEW t \in Thread, op'[t].pc \in {"executing", "child"}
               PROVE  uses'[op'[t].permit] > 0 /\ permits'[op'[t].permit].req = op'[t].req
    BY DEF EffectsArePaid
  <1> DEFINE p == op[t].permit
  <1>0. op[t] \in ShapedCall
    BY DEF Typed
  <1>1. ASSUME op[t].pc \in {"executing", "child"}, op'[t].permit = p, op'[t].req = op[t].req
        PROVE  uses'[op'[t].permit] > 0 /\ permits'[op'[t].permit].req = op'[t].req
    <2>1. p \in Permit /\ uses[p] \in Nat /\ uses'[p] \in Nat
      BY <1>0, <1>1, NextTyped DEF ShapedCall, Presenting, Typed, TypeOK
    <2>2. uses[p] > 0 /\ permits[p].state # "unused" /\ permits[p].req = op[t].req
      BY <1>1, <2>1 DEF EffectsArePaid, ActiveIsUnused
    <2>3. uses'[p] >= uses[p] /\ permits'[p].req = permits[p].req
      BY <2>1, <2>2, OriginStands
    <2>4. QED
      BY <1>1, <2>1, <2>2, <2>3
  <1>2. CASE op'[t] = op[t]
    BY <1>1, <1>2
  <1>3. CASE Crash
    BY <1>3 DEF Crash, Idle
  <1>4. CASE Operate(t) /\ op'[t] # op[t]
    <2>1. ASSUME Return(t) PROVE FALSE
      BY <2>1, ReturnFacts
    <2>2. CASE BeginChild(t) \/ EndChild(t)
      <3>1. op[t].pc \in {"executing", "child"}
        BY <2>2 DEF BeginChild, EndChild
      <3>2. op'[t].permit = p /\ op'[t].req = op[t].req
        BY <2>2, GotoFacts DEF BeginChild, EndChild
      <3>3. QED
        BY <1>1, <3>1, <3>2
    <2>3. CASE Consume(t)
      <3>1. p \in Permit
        BY <1>0, <2>3 DEF Consume, ShapedCall, Presenting
      <3>2. /\ permits[p].req = op[t].req
            /\ permits[p].state = "active"
            /\ uses' = [uses EXCEPT ![p] = @ + 1]
            /\ Goto(t, "executing")
        BY <2>1, <2>3 DEF Consume
      <3>3. uses'[p] > 0
        BY <3>1, <3>2 DEF Typed, TypeOK
      <3>4. permits'[p].req = op[t].req
        BY <3>1, <3>2, OriginStands
      <3>5. QED
        BY <3>2, <3>3, <3>4, GotoFacts
    <2>4. CASE DialogYes(t) \/ DialogNo(t) \/ ReadClock(t) \/ ReadDeadline(t)
      BY <2>1, <2>4, GotoFacts, ReadClockFacts DEF DialogYes, DialogNo, ReadDeadline
    <2>5. CASE Deny(t) \/ Mint(t) \/ MintDelegated(t) \/ RefuseChild(t) \/ Finish(t) \/ WriteFails(t)
      BY <2>1, <2>5 DEF Deny, Mint, MintDelegated, RefuseChild, Finish, WriteFails
    <2>6. ASSUME NEW c \in Challenge, Approve(t, c) \/ ApproveCli(t, c) PROVE FALSE
      BY <1>4, <2>6 DEF Approve, ApproveCli, Call, Typed, TypeOK
    <2>7. ASSUME NEW g \in Grant, ClaimChild(t, g) \/ IssueGrant(t, g) PROVE FALSE
      BY <1>4, <2>1, <2>7 DEF ClaimChild, IssueGrant, Typed, TypeOK
    <2>8. ASSUME NEW q \in Permit, NEW r \in Request, Present(t, q, r) PROVE FALSE
      BY <2>8 DEF Present, Typed, TypeOK
    <2>9. QED
      BY <1>4, <2>2, <2>3, <2>4, <2>5, <2>6, <2>7, <2>8 DEF Operate
  <1>5. QED
    BY <1>2, <1>3, <1>4, CallSteps

LEMMA NextMintedOnce ==
    ASSUME Typed, MintedOnce, Next
    PROVE  MintedOnce'
  <1> SUFFICES ASSUME NEW c \in Challenge
               PROVE  /\ \A p, q \in Minted(c)' : p = q
                      /\ challenges'[c].state \notin {"approved", "lost"} => Minted(c)' = {}
    BY DEF MintedOnce
  <1>1. CASE Minted(c)' \subseteq Minted(c)
    <2>1. challenges'[c].state \notin {"approved", "lost"} => challenges[c].state \notin {"approved", "lost"}
      BY ChallengeSteps
    <2>2. QED
      BY <1>1, <2>1 DEF MintedOnce
  <1>2. ASSUME NEW p \in Permit, p \in Minted(c)', p \notin Minted(c)
        PROVE  /\ \A q \in Minted(c)' : q = p
               /\ challenges'[c].state = "approved"
    <2>1. PICK t \in Thread : MintsAnswer(t, p) /\ op[t].ch = c
      BY <1>2, MintedFrom DEF Minted
    <2>2. Minted(c) = {} /\ challenges'[c].state = "approved"
      BY <2>1 DEF MintsAnswer, MintedOnce
    <2>3. ASSUME NEW q \in Permit, q \in Minted(c)', q # p PROVE FALSE
      <3>1. permits'[q].source = permits[q].source
        BY <2>1, <2>3 DEF MintsAnswer, Typed, TypeOK
      <3>2. QED
        BY <2>2, <2>3, <3>1 DEF Minted
    <2>4. QED
      BY <2>2, <2>3 DEF Minted
  <1>3. Minted(c)' \subseteq Permit
    BY DEF Minted
  <1>4. QED
    BY <1>1, <1>2, <1>3

LEMMA NextPermitInv ==
    ASSUME Typed, PermitInv, Next
    PROVE  PermitInv'
  <1> USE DEF PermitInv
  <1>1. ActiveIsUnused'
    <2> SUFFICES ASSUME NEW p \in Permit
                 PROVE  uses'[p] <= 1 /\ (uses'[p] > 0 => permits'[p].state \notin {"unused", "active"})
      BY DEF ActiveIsUnused
    <2>1. permits[p] \in PermitRecord /\ uses[p] \in Nat /\ uses[p] <= 1
      BY DEF Typed, TypeOK, ActiveIsUnused
    <2>2. CASE permits'[p] = permits[p] /\ uses'[p] = uses[p]
      BY <2>2 DEF ActiveIsUnused
    <2>3. CASE permits[p].state = "unused" /\ UNCHANGED uses
      BY <2>1, <2>3 DEF ActiveIsUnused
    <2>4. CASE \E t \in Thread : Consumes(t, p)
      BY <2>1, <2>4 DEF ActiveIsUnused, Consumes, PermitRecord
    <2>5. CASE Moves(p)
      BY <2>1, <2>5 DEF ActiveIsUnused, Moves, PermitRecord
    <2>6. QED
      BY <2>2, <2>3, <2>4, <2>5, PermitSteps
  <1>2. PermitsHaveOrigin'
    <2> SUFFICES ASSUME NEW p \in Permit, permits'[p].state # "unused"
                 PROVE  \/ /\ permits'[p].source \in Challenge
                           /\ challenges'[permits'[p].source].state # "none"
                           /\ challenges'[permits'[p].source].req = permits'[p].req
                           /\ permits'[p].verified => permits'[p].source \in confirmed'
                        \/ permits'[p].source \in Grant /\ permits'[p].source = permits'[p].req
      BY DEF PermitsHaveOrigin
    <2>1. CASE permits[p].state # "unused"
      BY <2>1, OriginStands DEF PermitsHaveOrigin
    <2>2. CASE permits[p].state = "unused"
      <3>1. PICK t \in Thread : MintsAnswer(t, p) \/ MintsRun(t, p)
        BY <2>2, PermitSteps DEF Consumes, Moves
      <3>2. CASE MintsAnswer(t, p)
        <4>1. /\ permits'[p].source = op[t].ch
              /\ permits'[p].req = challenges[op[t].ch].req
              /\ permits'[p].verified = (op[t].via # "channel")
          BY <3>2 DEF MintsAnswer, Typed, TypeOK
        <4>2. op[t].via # "channel" => op[t].ch \in confirmed'
          BY <3>2, OriginStands DEF MintsAnswer, AnswersAreGiven
        <4>3. QED
          BY <3>2, <4>1, <4>2 DEF MintsAnswer
      <3>3. CASE MintsRun(t, p)
        BY <3>3 DEF MintsRun, Typed, TypeOK
      <3>4. QED
        BY <3>1, <3>2, <3>3
    <2>3. QED
      BY <2>1, <2>2
  <1>3. UsesAreVerified'
    <2> SUFFICES ASSUME NEW p \in Permit, uses'[p] > 0, Strong(permits'[p].req) PROVE Verified(p)'
      BY DEF UsesAreVerified, Strong
    <2>1. permits[p].state # "unused"
      BY PermitSteps DEF ActiveIsUnused, Consumes, Moves
    <2>2. /\ permits'[p].req = permits[p].req
          /\ Verified(p) => Verified(p)'
      BY <2>1, OriginStands DEF Verified
    <2>3. CASE uses'[p] = uses[p]
      BY <2>2, <2>3 DEF UsesAreVerified
    <2>4. CASE \E t \in Thread : Consumes(t, p)
      BY <2>2, <2>4 DEF Consumes
    <2>5. QED
      BY <2>3, <2>4, PermitSteps DEF Moves
  <1>4. GrantsComeFromHumans'
    <2>1. SUFFICES ASSUME NEW g \in Grant, grants'[g].state # "none"
                   PROVE  \E p \in Permit : /\ uses[p] > 0
                                            /\ permits[p].req = DelegateRequest
                                            /\ permits[p].source \in confirmed
      <3>1. ASSUME NEW p \in Permit, uses[p] > 0, permits[p].req = DelegateRequest,
                   permits[p].source \in confirmed
            PROVE  /\ uses'[p] > 0
                   /\ permits'[p].req = DelegateRequest
                   /\ permits'[p].source \in confirmed'
        <4>1. permits[p].state # "unused" /\ uses[p] \in Nat /\ uses'[p] \in Nat
          BY <3>1, NextTyped DEF ActiveIsUnused, Typed, TypeOK
        <4>2. QED
          BY <3>1, <4>1, OriginStands
      <3>2. QED
        BY <2>1, <3>1 DEF GrantsComeFromHumans
    <2>2. CASE grants[g].state # "none"
      BY <2>2 DEF GrantsComeFromHumans
    <2>3. CASE grants[g].state = "none"
      <3>1. PICK t \in Thread : op[t].pc = "executing" /\ op[t].req = DelegateRequest
        BY <2>1, <2>3, GrantSteps
      <3>2. PICK p \in Permit : p = op[t].permit
        BY <3>1 DEF Typed, ShapedCall, Presenting
      <3>3. uses[p] > 0 /\ permits[p].req = DelegateRequest
        BY <3>1, <3>2 DEF EffectsArePaid
      <3>4. permits[p].source \notin Grant
        BY <3>3, BoundaryAssumption DEF ActiveIsUnused, PermitsHaveOrigin
      <3>5. permits[p].verified
        BY <3>3, <3>4, BoundaryAssumption DEF UsesAreVerified, Strong, Verified
      <3>6. permits[p].source \in confirmed
        BY <3>3, <3>4, <3>5 DEF ActiveIsUnused, PermitsHaveOrigin
      <3>7. QED
        BY <3>3, <3>6
    <2>4. QED
      BY <2>2, <2>3
  <1>5. AnswersAreGiven' /\ EffectsArePaid' /\ MintedOnce'
    BY NextAnswersAreGiven, NextEffectsArePaid, NextMintedOnce
  <1>6. QED
    BY <1>1, <1>2, <1>3, <1>4, <1>5

LEMMA NextIInv == IInv /\ [Next]_vars => IInv'
  <1> SUFFICES ASSUME IInv, [Next]_vars PROVE IInv'
    OBVIOUS
  <1>1. Typed'
    BY NextTyped DEF IInv
  <1>2. CASE Next
    BY <1>1, <1>2, NextLockInv, NextPermitInv DEF IInv
  <1>3. CASE UNCHANGED vars
    <2>1. LockInv'
      BY <1>3 DEF vars, IInv, LockInv, LeaseLockDiscipline, ChildPinsItsGrant,
          NoChildUnderRevokedAuthority, PromptLockDiscipline
    <2>2. PermitInv'
      BY <1>3 DEF vars, IInv, PermitInv, ActiveIsUnused, PermitsHaveOrigin, AnswersAreGiven,
          UsesAreVerified, Verified, Strong, EffectsArePaid, GrantsComeFromHumans, MintedOnce, Minted
    <2>3. QED
      BY <1>1, <2>1, <2>2 DEF IInv
  <1>4. QED
    BY <1>2, <1>3

LEMMA SpecIInv == Spec => []IInv
  BY InitIInv, NextIInv, PTL DEF Spec

-----------------------------------------------------------------------------
(* Runs and the permits they pay *)

Claimed(g) == {t \in Thread : op[t].pc \in Delegating /\ op[t].req = g}

\* The property with what it takes to count: both sets are finite, and a grant not
\* yet issued has no runs.
RunInv ==
    \A g \in Grant :
        /\ IsFiniteSet(Minted(g)) /\ IsFiniteSet(Claimed(g))
        /\ Cardinality(Minted(g)) + Cardinality(Claimed(g)) <= grants[g].runs
        /\ grants[g].runs <= MaxRuns
        /\ grants[g].state = "none" => grants[g].runs = 0

LEMMA InitRunInv == Init => RunInv
  <1> SUFFICES ASSUME Init, NEW g \in Grant
               PROVE  Minted(g) = {} /\ Claimed(g) = {} /\ grants[g] = NoGrant
    BY FS_EmptySet, MaxRunsAssumption DEF RunInv, NoGrant
  <1>1. QED
    BY BoundaryAssumption DEF Init, Minted, Claimed, NoPermit, Idle, Delegating, Request

\* Runs are counted by claim_child alone.
LEMMA RunSteps ==
    ASSUME Typed, RunInv, Next, NEW g \in Grant
    PROVE  /\ grants'[g].state = "none" => grants[g].state = "none"
           /\ \/ grants'[g].runs = grants[g].runs
              \/ /\ \E t \in Thread : ClaimChild(t, g)
                 /\ grants[g].runs < MaxRuns
                 /\ grants'[g].runs = grants[g].runs + 1
  <1> USE DEF Typed, TypeOK
  <1>0. grants[g] \in GrantRecord
    OBVIOUS
  <1> DEFINE Kept == /\ grants'[g].runs = grants[g].runs
                     /\ grants'[g].state = "none" => grants[g].state = "none"
  <1>1. CASE grants'[g] = grants[g]
    BY <1>1
  <1>2. ASSUME NEW t \in Thread, ClaimChild(t, g) \/ IssueGrant(t, g) \/ RefuseChild(t),
               grants'[g] # grants[g]
        PROVE  Kept \/ /\ ClaimChild(t, g)
                       /\ grants[g].runs < MaxRuns
                       /\ grants'[g].runs = grants[g].runs + 1
                       /\ grants'[g].state # "none"
    <2>1. CASE ClaimChild(t, g)
      BY <1>0, <2>1 DEF ClaimChild, Claimable, Spent, Judged, GrantRecord
    <2>2. CASE IssueGrant(t, g)
      BY <1>0, <2>2 DEF IssueGrant, IssuedGrant, RunInv, GrantRecord
    <2>3. CASE RefuseChild(t)
      <3>1. grants'[g] = Refused(grants[g], g \in lapsed)
        BY <1>2, <2>3 DEF RefuseChild
      <3>2. QED
        BY <1>0, <3>1 DEF Refused, GrantRecord
    <2>4. QED
      BY <1>2, <2>1, <2>2, <2>3
  <1>3. CASE RevokeGrant(g)
    BY <1>0, <1>3 DEF RevokeGrant, Revoked, GrantRecord
  <1>4. \/ grants'[g] = grants[g]
        \/ RevokeGrant(g)
        \/ \E t \in Thread : ClaimChild(t, g) \/ IssueGrant(t, g) \/ RefuseChild(t)
    <2>1. ASSUME NEW t \in Thread, Operate(t)
          PROVE  \/ UNCHANGED grants \/ RefuseChild(t)
                 \/ \E h \in Grant : ClaimChild(t, h) \/ IssueGrant(t, h)
      BY <2>1
      DEF Operate, Approve, ApproveCli, DialogYes, DialogNo, Deny, ReadClock, Mint, ReadDeadline,
          MintDelegated, Present, Consume, BeginChild, EndChild, Finish, WriteFails
    <2>2. ASSUME NEW h \in Grant, h # g, NEW t \in Thread, ClaimChild(t, h) \/ IssueGrant(t, h)
          PROVE  grants'[g] = grants[g]
      BY <2>2 DEF ClaimChild, IssueGrant
    <2>3. ASSUME NEW h \in Grant, h # g, RevokeGrant(h) PROVE grants'[g] = grants[g]
      BY <2>3 DEF RevokeGrant
    <2>4. QED
      BY <2>1, <2>2, <2>3 DEF Next, CreateChallenge, RevokePermit, Lapse, Crash
  <1>5. QED
    BY <1>1, <1>2, <1>3, <1>4

\* A call is about a run only from claim_child on.
LEMMA ClaimSteps ==
    ASSUME Typed, Next, NEW g \in Grant, NEW t \in Thread,
           op'[t].pc \in Delegating, op'[t].req = g
    PROVE  t \in Claimed(g) \/ (ClaimChild(t, g) /\ grants' = [grants EXCEPT ![g] = Spent(grants[g])])
  <1>1. CASE op'[t] = op[t]
    BY <1>1 DEF Claimed
  <1>2. CASE Crash
    BY <1>2 DEF Crash, Idle, Delegating
  <1>3. CASE Operate(t) /\ op'[t] # op[t]
    <2>1. ASSUME Return(t) PROVE FALSE
      BY <2>1, ReturnFacts DEF Delegating
    <2>2. CASE ReadDeadline(t)
      BY <2>1, <2>2, GotoFacts DEF ReadDeadline, Claimed, Delegating
    <2>3. CASE DialogYes(t) \/ DialogNo(t) \/ ReadClock(t) \/ Consume(t) \/ BeginChild(t) \/ EndChild(t)
      BY <2>1, <2>3, GotoFacts, ReadClockFacts
      DEF DialogYes, DialogNo, Consume, BeginChild, EndChild, Delegating
    <2>4. CASE Deny(t) \/ Mint(t) \/ MintDelegated(t) \/ RefuseChild(t) \/ Finish(t) \/ WriteFails(t)
      BY <2>1, <2>4 DEF Deny, Mint, MintDelegated, RefuseChild, Finish, WriteFails
    <2>5. ASSUME NEW c \in Challenge, Approve(t, c) \/ ApproveCli(t, c) PROVE FALSE
      BY <1>3, <2>5 DEF Approve, ApproveCli, Call, Delegating, Typed, TypeOK
    <2>6. ASSUME NEW h \in Grant, IssueGrant(t, h) PROVE FALSE
      BY <2>1, <2>6 DEF IssueGrant
    <2>7. ASSUME NEW h \in Grant, ClaimChild(t, h)
          PROVE  ClaimChild(t, g) /\ grants' = [grants EXCEPT ![g] = Spent(grants[g])]
      BY <1>3, <2>7 DEF ClaimChild, Typed, TypeOK
    <2>8. ASSUME NEW p \in Permit, NEW r \in Request, Present(t, p, r) PROVE FALSE
      BY <2>8 DEF Present, Delegating, Typed, TypeOK
    <2>9. QED
      BY <1>3, <2>2, <2>3, <2>4, <2>5, <2>6, <2>7, <2>8 DEF Operate
  <1>4. QED
    BY <1>1, <1>2, <1>3, CallSteps

LEMMA NextRunInv ==
    ASSUME Typed, RunInv, Next
    PROVE  RunInv'
  <1> SUFFICES ASSUME NEW g \in Grant
               PROVE  /\ IsFiniteSet(Minted(g)') /\ IsFiniteSet(Claimed(g)')
                      /\ Cardinality(Minted(g)') + Cardinality(Claimed(g)') <= grants'[g].runs
                      /\ grants'[g].runs <= MaxRuns
                      /\ grants'[g].state = "none" => grants'[g].runs = 0
    BY DEF RunInv
  <1>0. /\ IsFiniteSet(Minted(g)) /\ IsFiniteSet(Claimed(g))
        /\ Cardinality(Minted(g)) \in Nat /\ Cardinality(Claimed(g)) \in Nat
        /\ Cardinality(Minted(g)) + Cardinality(Claimed(g)) <= grants[g].runs
        /\ grants[g].runs \in Nat /\ grants'[g].runs \in Nat /\ MaxRuns \in Nat
    BY FS_CardinalityType, NextTyped, MaxRunsAssumption DEF RunInv, Typed, TypeOK, GrantRecord
  <1>1. grants'[g].runs <= MaxRuns
    BY <1>0, RunSteps DEF RunInv
  <1>2. grants'[g].state = "none" => grants'[g].runs = 0
    BY RunSteps DEF RunInv, ClaimChild, Claimable, Spent, Typed, TypeOK
  <1>3. CASE Minted(g)' \subseteq Minted(g) /\ Claimed(g)' \subseteq Claimed(g)
    <2>1. /\ IsFiniteSet(Minted(g)') /\ IsFiniteSet(Claimed(g)')
          /\ Cardinality(Minted(g)') <= Cardinality(Minted(g))
          /\ Cardinality(Claimed(g)') <= Cardinality(Claimed(g))
      BY <1>0, <1>3, FS_Subset
    <2>2. Cardinality(Minted(g)') \in Nat /\ Cardinality(Claimed(g)') \in Nat
      BY <2>1, FS_CardinalityType
    <2>3. grants'[g].runs >= grants[g].runs
      BY <1>0, RunSteps
    <2>4. QED
      BY <1>0, <1>1, <1>2, <2>1, <2>2, <2>3
  <1>4. CASE ~(Claimed(g)' \subseteq Claimed(g))
    <2>1. PICK t \in Thread : /\ ClaimChild(t, g)
                              /\ grants' = [grants EXCEPT ![g] = Spent(grants[g])]
      BY <1>4, ClaimSteps DEF Claimed
    <2>2. \A d \in Thread \ {t} : op'[d] = op[d]
      BY <2>1, StepCall DEF Operate
    <2>3. Claimed(g)' \subseteq Claimed(g) \cup {t}
      BY <2>2 DEF Claimed
    <2>4. Minted(g)' = Minted(g)
      BY <2>1 DEF ClaimChild, Minted, ledger
    <2>5. grants'[g].runs = grants[g].runs + 1
      BY <2>1 DEF Spent, Typed, TypeOK
    <2>6. /\ IsFiniteSet(Claimed(g) \cup {t})
          /\ Cardinality(Claimed(g) \cup {t}) <= Cardinality(Claimed(g)) + 1
          /\ Cardinality(Claimed(g) \cup {t}) \in Nat
      <3>1. /\ IsFiniteSet(Claimed(g) \cup {t})
            /\ Cardinality(Claimed(g) \cup {t})
                 = IF t \in Claimed(g) THEN Cardinality(Claimed(g)) ELSE Cardinality(Claimed(g)) + 1
        BY <1>0, FS_AddElement
      <3>2. QED
        BY <1>0, <3>1
    <2>7. /\ IsFiniteSet(Claimed(g)')
          /\ Cardinality(Claimed(g)') <= Cardinality(Claimed(g) \cup {t})
          /\ Cardinality(Claimed(g)') \in Nat
      BY <2>3, <2>6, FS_Subset, FS_CardinalityType
    <2>8. QED
      BY <1>0, <1>1, <1>2, <2>4, <2>5, <2>6, <2>7
  <1>5. ASSUME NEW p \in Permit, p \in Minted(g)', p \notin Minted(g)
        PROVE  /\ IsFiniteSet(Minted(g)') /\ IsFiniteSet(Claimed(g)')
               /\ Cardinality(Minted(g)') + Cardinality(Claimed(g)') <= grants'[g].runs
    <2>1. PICK t \in Thread : MintDelegated(t) /\ MintsRun(t, p) /\ op[t].req = g
      BY <1>5, MintedRun DEF Minted
    <2>2. Minted(g)' \subseteq Minted(g) \cup {p}
      BY <2>1 DEF MintsRun, Minted, Typed, TypeOK
    <2>3. t \in Claimed(g)
      BY <2>1 DEF MintDelegated, Claimed, Delegating
    <2>4. Claimed(g)' \subseteq Claimed(g) \ {t}
      <3>1. op'[t].pc = "idle"
        BY <2>1, ReturnFacts DEF MintDelegated
      <3>2. \A d \in Thread \ {t} : op'[d] = op[d]
        BY <2>1, StepCall DEF Operate
      <3>3. QED
        BY <3>1, <3>2 DEF Claimed, Delegating
    <2>5. UNCHANGED grants
      BY <2>1 DEF MintDelegated
    <2>6. /\ IsFiniteSet(Minted(g) \cup {p})
          /\ Cardinality(Minted(g) \cup {p}) <= Cardinality(Minted(g)) + 1
          /\ Cardinality(Minted(g) \cup {p}) \in Nat
      <3>1. /\ IsFiniteSet(Minted(g) \cup {p})
            /\ Cardinality(Minted(g) \cup {p})
                 = IF p \in Minted(g) THEN Cardinality(Minted(g)) ELSE Cardinality(Minted(g)) + 1
        BY <1>0, FS_AddElement
      <3>2. QED
        BY <1>0, <3>1
    <2>7. /\ IsFiniteSet(Minted(g)')
          /\ Cardinality(Minted(g)') <= Cardinality(Minted(g) \cup {p})
          /\ Cardinality(Minted(g)') \in Nat
      BY <2>2, <2>6, FS_Subset, FS_CardinalityType
    <2>8. /\ IsFiniteSet(Claimed(g) \ {t})
          /\ Cardinality(Claimed(g) \ {t}) = Cardinality(Claimed(g)) - 1
          /\ Cardinality(Claimed(g) \ {t}) \in Nat
      BY <1>0, <2>3, FS_RemoveElement, FS_CardinalityType
    <2>9. /\ IsFiniteSet(Claimed(g)')
          /\ Cardinality(Claimed(g)') <= Cardinality(Claimed(g) \ {t})
          /\ Cardinality(Claimed(g)') \in Nat
      BY <2>4, <2>8, FS_Subset, FS_CardinalityType
    <2>10. QED
      BY <1>0, <2>5, <2>6, <2>7, <2>8, <2>9
  <1>6. CASE ~(Minted(g)' \subseteq Minted(g))
    <2>1. PICK p \in Permit : p \in Minted(g)' /\ p \notin Minted(g)
      BY <1>6 DEF Minted
    <2>2. QED
      BY <1>1, <1>2, <1>5, <2>1
  <1>7. QED
    BY <1>3, <1>4, <1>6

LEMMA SpecRunInv == Spec => []RunInv
  <1>1. Typed /\ RunInv /\ [Next]_vars => RunInv'
    <2>1. UNCHANGED vars /\ RunInv => RunInv'
      BY DEF vars, RunInv, Minted, Claimed
    <2>2. QED
      BY <2>1, NextRunInv
  <1>2. QED
    BY <1>1, InitRunInv, SpecTyped, PTL DEF Spec

-----------------------------------------------------------------------------
(* What the boundary promises *)

\* Every reachable state of the boundary has the declared types.
THEOREM Typing == Spec => []TypeOK
  BY SpecIInv, PTL DEF IInv, Typed

\* consume_permit admits no permit twice.
THEOREM PermitsAreNotReplayed == Spec => []NoReplay
  <1>1. IInv => NoReplay
    BY DEF IInv, PermitInv, ActiveIsUnused, NoReplay
  <1>2. QED
    BY <1>1, SpecIInv, PTL

\* However many approvals race for a challenge, one of them mints, and none of a
\* challenge that was refused.
THEOREM OnePermitPerAnswer == Spec => []OneAnswerOnePermit
  <1>1. ASSUME IInv, NEW c \in Challenge PROVE Cardinality(Minted(c)) <= 1
    <2>1. CASE Minted(c) = {}
      BY <2>1, FS_EmptySet
    <2>2. ASSUME NEW p \in Minted(c) PROVE Cardinality(Minted(c)) <= 1
      <3>1. Minted(c) = {p}
        BY <1>1, <2>2 DEF IInv, PermitInv, MintedOnce
      <3>2. QED
        BY <3>1, FS_Singleton
    <2>3. QED
      BY <2>1, <2>2
  <1>2. IInv => OneAnswerOnePermit
    BY <1>1 DEF IInv, PermitInv, MintedOnce, OneAnswerOnePermit
  <1>3. QED
    BY <1>2, SpecIInv, PTL

\* A strong operation that ran goes back to a human's yes to that operation, or to a
\* grant.
THEOREM StrongNeedsHuman == Spec => []StrongUseWasConfirmed
  <1>1. ASSUME IInv, NEW p \in Permit, uses[p] > 0, permits[p].req \in StrongRequest
        PROVE  \/ /\ permits[p].source \in confirmed
                  /\ challenges[permits[p].source].req = permits[p].req
               \/ permits[p].source \in Grant /\ permits[p].source = permits[p].req
    <2>1. permits[p].state # "unused"
      BY <1>1 DEF IInv, PermitInv, ActiveIsUnused
    <2>2. permits[p].source \in Grant \/ permits[p].verified
      BY <1>1 DEF IInv, PermitInv, UsesAreVerified, Strong, Verified
    <2>3. QED
      BY <1>1, <2>1, <2>2, BoundaryAssumption DEF IInv, PermitInv, PermitsHaveOrigin
  <1>2. IInv => StrongUseWasConfirmed
    BY <1>1 DEF StrongUseWasConfirmed
  <1>3. QED
    BY <1>2, SpecIInv, PTL

\* Grants exist only after a human confirmed a schedule.delegate that ran.
THEOREM GrantsNeedHuman == Spec => []GrantsComeFromHumans
  BY SpecIInv, PTL DEF IInv, PermitInv

\* Every permit of a grant, minted or about to be, is paid by a run of it.
THEOREM RunsPayForPermits == Spec => []RunsBoundPermits
  <1>1. RunInv => RunsBoundPermits
    BY DEF RunInv, RunsBoundPermits, Claimed, Delegating
  <1>2. QED
    BY <1>1, SpecRunInv, PTL

\* No path of approve_challenge leaves the dialog's lock behind.
THEOREM DialogComesBack == Spec => []PromptLockDiscipline
  BY SpecIInv, PTL DEF IInv, LockInv

\* Only a child in its materializer keeps the ledger or the registry locked.
THEOREM LeasesComeBack == Spec => []LeaseLockDiscipline
  BY SpecIInv, PTL DEF IInv, LockInv

\* A revocation linearizes before a child or after it.
THEOREM ChildrenRunUnderAuthority == Spec => []NoChildUnderRevokedAuthority
  BY SpecIInv, PTL DEF IInv, LockInv

\* A permit that left "active" never comes back, across revocations and restarts.
THEOREM AuthorityIsSpentForGood == Spec => AuthorityOnlyShrinks
  <1>1. ASSUME IInv, Next, NEW p \in Permit
        PROVE  /\ permits[p].state \notin {"unused", "active"} => permits'[p].state # "active"
               /\ permits[p].state = "revoked" => permits'[p].state \in {"revoked", "lost"}
    <2>1. permits[p] \in PermitRecord
      BY <1>1 DEF IInv, Typed, TypeOK
    <2>2. Typed
      BY <1>1 DEF IInv
    <2>3. QED
      BY <1>1, <2>1, <2>2, PermitSteps DEF Consumes, Moves, PermitRecord
  <1>2. IInv /\ [Next]_vars =>
          [\A p \in Permit :
             /\ permits[p].state \notin {"unused", "active"} => permits'[p].state # "active"
             /\ permits[p].state = "revoked" => permits'[p].state \in {"revoked", "lost"}]_vars
    BY <1>1
  <1>3. QED
    BY SpecIInv, <1>2, PTL DEF Spec, AuthorityOnlyShrinks
=============================================================================
