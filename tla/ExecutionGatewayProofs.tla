----------------------- MODULE ExecutionGatewayProofs -----------------------
(***************************************************************************)
(* ExecutionGateway for any number of processes, targets and Permits: one   *)
(* effect per Permit, no install on a content it was not approved for but   *)
(* for effects that take no lease, no forgotten lease, and installs that    *)
(* implement FencedClaims.                                                  *)
(***************************************************************************)
EXTENDS ExecutionGateway, TLAPS

\* A call in progress knows its target and what it was approved for; the calls on
\* the way to a lease or under it are installs, and a lease has a generation.
CallsAreFormed ==
    \A c \in Caller :
        /\ op[c].pc # "idle" => op[c].target \in Target /\ op[c].approved \in Content
        /\ op[c].pc \in {"consume", "preread", "acquire"} \cup Leased => op[c].effect # "policy"
        /\ op[c].pc \in Leased => op[c].token > 0

\* A person approves installs and ordinary effects; policy effects need no one.
ApprovalsArePersonal ==
    \A p \in Permit : permit[p] # None => permit[p].effect # "policy"

\* A call names a Permit of its own process, or is authorized by policy and names
\* none; past its consumption the Permit is spent.
CallsOwnTheirPermit ==
    \A c \in Caller : op[c].pc # "idle" =>
        IF op[c].effect = "policy" THEN op[c].permit = None
        ELSE /\ op[c].permit \in Permit
             /\ permit[op[c].permit] # None
             /\ permit[op[c].permit].by = c
             /\ op[c].pc # "consume" => permit[op[c].permit].spent

\* The effect of a Permit that was spent is either still to come, or took place once.
AheadOfEffect == {"preread", "acquire", "execute", "validate", "dispatch", "recheck", "run"}
OneEffectAhead ==
    \A c \in Caller : op[c].pc \in AheadOfEffect /\ op[c].permit \in Permit =>
        effects[op[c].permit] = 0

UnspentIsUnused ==
    \A p \in Permit : effects[p] <= 1 /\ (effects[p] = 1 => permit[p] # None /\ permit[p].spent)

\* The writer is the call under the lease.
WriterIsInLease == \A c \in Caller : op[c].pc \in InLease <=> writer = c

IInv ==
    /\ TypeOK
    /\ ApprovalsArePersonal
    /\ CallsAreFormed
    /\ CallsOwnTheirPermit
    /\ OneEffectAhead
    /\ UnspentIsUnused
    /\ WriterIsInLease
    /\ InstallsSeeWhatWasApproved
    /\ LeaseComesBack

LEMMA RowFacts ==
    ASSUME NEW row \in Row, NEW now \in Nat
    PROVE  Issued(row, now) \in Row /\ Released(row) \in Row
  BY GatewayAssumption DEF Row, Status, Issued, Released

LEMMA InitIInv == Init => IInv
  BY GatewayAssumption
  DEF Init, IInv, TypeOK, ApprovalsArePersonal, CallsAreFormed, CallsOwnTheirPermit, OneEffectAhead, UnspentIsUnused,
      WriterIsInLease, InstallsSeeWhatWasApproved, LeaseComesBack,
      Idle, Call, Pc, Leased, InLease, AheadOfEffect, Effect, Row, Status, NoRow

\* A call that moves on, and one that ends, keep the shape of the calls.
LEMMA CallFacts ==
    ASSUME op \in [Caller -> Call], NEW c \in Caller
    PROVE  /\ \A pc \in Pc : [op EXCEPT ![c].pc = pc] \in [Caller -> Call]
           /\ [op EXCEPT ![c] = Idle] \in [Caller -> Call]
  BY DEF Call, Idle, Pc, Effect

LEMMA LeasingFacts ==
    ASSUME op \in [Caller -> Call], NEW c \in Caller, NEW pc \in Pc, NEW n \in Nat
    PROVE  /\ [op EXCEPT ![c].pc = pc, ![c].token = n] \in [Caller -> Call]
           /\ [op EXCEPT ![c].pc = pc, ![c].now = n] \in [Caller -> Call]
  <1>1. op[c] \in Call
    OBVIOUS
  <1>2. [[op[c] EXCEPT !.pc = pc] EXCEPT !.token = n] \in Call
    BY <1>1 DEF Call
  <1>3. [[op[c] EXCEPT !.pc = pc] EXCEPT !.now = n] \in Call
    BY <1>1 DEF Call
  <1>4. QED
    BY <1>2, <1>3

LEMMA NextTypeOK == IInv /\ [Next]_vars => TypeOK'
  <1> SUFFICES ASSUME IInv, [Next]_vars PROVE TypeOK'
    OBVIOUS
  <1> USE GatewayAssumption DEF IInv, TypeOK
  <1>1. CASE Tick
    BY <1>1 DEF Tick
  <1>2. ASSUME NEW c \in Caller, Operate(c) PROVE TypeOK'
    <2>0. /\ op[c] \in Call
          /\ \A pc \in Pc : [op EXCEPT ![c].pc = pc] \in [Caller -> Call]
          /\ [op EXCEPT ![c] = Idle] \in [Caller -> Call]
      BY CallFacts
    <2>1. ASSUME NEW p \in Permit, Approve(c, p) PROVE TypeOK'
      BY <2>1 DEF Approve, Approval, Effect
    <2>2. ASSUME NEW p \in Permit, Begin(c, p) PROVE TypeOK'
      <3>1. permit[p] \in Approval
        BY <2>2 DEF Begin
      <3>2. [Idle EXCEPT !.pc = "consume", !.effect = permit[p].effect, !.permit = p,
                         !.target = permit[p].target, !.approved = permit[p].approved] \in Call
        BY <3>1 DEF Approval, Call, Idle, Pc
      <3>3. QED
        BY <2>2, <3>2 DEF Begin
    <2>3. ASSUME NEW t \in Target, BeginServerOwned(c, t) PROVE TypeOK'
      <3>1. [Idle EXCEPT !.pc = "recheck", !.effect = "policy",
                         !.target = t, !.approved = state[t]] \in Call
        BY DEF Call, Idle, Pc, Effect
      <3>2. QED
        BY <2>3, <3>1 DEF BeginServerOwned
    <2>4. CASE Consume(c)
      <3>1. op[c].permit \in Permit /\ permit[op[c].permit] \in Approval
        BY <2>4 DEF Consume, CallsAreFormed, CallsOwnTheirPermit
      <3>2. [permit[op[c].permit] EXCEPT !.spent = TRUE] \in Approval
        BY <3>1 DEF Approval
      <3>3. QED
        BY <2>0, <2>4, <3>1, <3>2 DEF Consume, Goto, Return, Pc
    <2>5. CASE PreRead(c)
      <3>1. clock \in Nat /\ "acquire" \in Pc
        BY DEF Pc
      <3>2. [op EXCEPT ![c].pc = "acquire", ![c].now = clock] \in [Caller -> Call]
        BY <3>1, LeasingFacts
      <3>3. QED
        BY <2>0, <2>5, <3>2 DEF PreRead, Return
    <2>6. CASE Acquire(c)
      <3>1. op[c].target \in Target /\ op[c].now \in Nat
        BY <2>0, <2>6 DEF Acquire, CallsAreFormed, Call
      <3>2. rows[op[c].target] \in Row /\ rows[op[c].target].token + 1 \in Nat
        BY <3>1 DEF Row
      <3>3. Issued(rows[op[c].target], op[c].now) \in Row
        BY <3>1, <3>2, RowFacts
      <3>4. [op EXCEPT ![c].pc = "execute", ![c].token = rows[op[c].target].token + 1] \in [Caller -> Call]
        BY <3>2, LeasingFacts DEF Pc, Leased
      <3>5. CASE Live(rows[op[c].target], op[c].now)
        BY <2>0, <2>6, <3>5 DEF Acquire, Return
      <3>6. CASE ~Live(rows[op[c].target], op[c].now)
        <4>1. /\ op' = [op EXCEPT ![c].pc = "execute", ![c].token = rows[op[c].target].token + 1]
              /\ rows' = [rows EXCEPT ![op[c].target] = Issued(rows[op[c].target], op[c].now)]
              /\ stranded' = stranded \ {op[c].target}
              /\ UNCHANGED <<clock, state, permit, writer, effects, overtaken>>
          BY <2>6, <3>6 DEF Acquire
        <4>2. rows' \in [Target -> Row] /\ op' \in [Caller -> Call]
          BY <3>1, <3>3, <3>4, <4>1
        <4>3. QED
          BY <4>1, <4>2
      <3>7. QED
        BY <3>5, <3>6
    <2>7. CASE Enter(c) \/ Validate(c) \/ Applied(c) \/ BusyTimeout(c) \/ Recheck(c)
      <3>1. op' \in [Caller -> Call]
        BY <2>0, <2>7 DEF Enter, Validate, Applied, BusyTimeout, Recheck, Goto, Return, Pc, Leased, InLease
      <3>2. stranded' \subseteq Target
        BY <2>7 DEF Enter, Validate, Applied, BusyTimeout, Recheck, CallsAreFormed
      <3>3. QED
        BY <2>7, <3>1, <3>2 DEF Enter, Validate, Applied, BusyTimeout, Recheck
    <2>8. CASE Dispatch(c)
      <3>1. op[c].target \in Target /\ op[c].permit \in Permit
        BY <2>8 DEF Dispatch, CallsAreFormed, CallsOwnTheirPermit, Leased, InLease
      <3>2. state' \in [Target -> Content]
        BY <2>8, <3>1 DEF Dispatch
      <3>3. QED
        BY <2>0, <2>8, <3>1, <3>2 DEF Dispatch, Goto, Pc, Leased, InLease
    <2>9. CASE ReleaseLease(c)
      <3>1. op[c].target \in Target /\ Released(rows[op[c].target]) \in Row
        BY <2>9, RowFacts DEF ReleaseLease, CallsAreFormed
      <3>2. QED
        BY <2>0, <2>9, <3>1 DEF ReleaseLease, Return
    <2>10. CASE Run(c)
      <3>1. op[c].target \in Target
        BY <2>10 DEF Run, CallsAreFormed
      <3>2. state' \in [Target -> Content] /\ overtaken' \subseteq Caller
        BY <2>10, <3>1 DEF Run
      <3>3. effects' \in [Permit -> Nat]
        BY <2>10 DEF Run
      <3>4. QED
        BY <2>0, <2>10, <3>2, <3>3 DEF Run, Return
    <2>11. CASE Crash(c)
      <3>1. \A p \in Permit : permit[p] # None => [permit[p] EXCEPT !.spent = TRUE] \in Approval
        BY DEF Approval
      <3>2. stranded' \subseteq Target
        BY <2>11 DEF Crash, CallsAreFormed, Leased
      <3>3. QED
        BY <2>0, <2>11, <3>1, <3>2 DEF Crash, Return
    <2>12. QED
      BY <1>2, <2>1, <2>2, <2>3, <2>4, <2>5, <2>6, <2>7, <2>8, <2>9, <2>10, <2>11 DEF Operate
  <1>3. CASE UNCHANGED vars
    BY <1>3 DEF vars
  <1>4. QED
    BY <1>1, <1>2, <1>3 DEF Next

\* A call changes its own record and no other.
LEMMA OthersStand ==
    ASSUME TypeOK, NEW c \in Caller, Operate(c), NEW d \in Caller, d # c
    PROVE  op'[d] = op[d]
  BY DEF TypeOK, Operate, Approve, Begin, BeginServerOwned, Consume, PreRead, Acquire, Enter, Validate,
         Dispatch, Applied, ReleaseLease, BusyTimeout, Recheck, Run, Crash, Goto, Return

\* A call begins at the consumption of its Permit, or past it without a Permit.
LEMMA BeginFacts ==
    ASSUME TypeOK, NEW c \in Caller,
           (\E p \in Permit : Begin(c, p)) \/ (\E t \in Target : BeginServerOwned(c, t))
    PROVE  /\ op[c].pc = "idle"
           /\ op'[c].pc = "consume" \/ (op'[c].pc = "recheck" /\ op'[c].permit = None)
           /\ UNCHANGED <<clock, state, permit, rows, writer, effects, overtaken, stranded>>
  <1>1. ASSUME NEW p \in Permit, Begin(c, p) PROVE op'[c].pc = "consume"
    BY <1>1 DEF Begin, Idle, TypeOK
  <1>2. ASSUME NEW t \in Target, BeginServerOwned(c, t) PROVE op'[c].pc = "recheck" /\ op'[c].permit = None
    BY <1>2 DEF BeginServerOwned, Idle, TypeOK
  <1>3. QED
    BY <1>1, <1>2 DEF Begin, BeginServerOwned

LEMMA NextCallsAreFormed == IInv /\ [Next]_vars => CallsAreFormed'
  <1> SUFFICES ASSUME IInv, [Next]_vars PROVE CallsAreFormed'
    OBVIOUS
  <1> USE GatewayAssumption DEF IInv, CallsAreFormed
  <1>1. ASSUME NEW c \in Caller, Operate(c) PROVE CallsAreFormed'
    <2> DEFINE Formed(call) ==
          /\ call.pc # "idle" => call.target \in Target /\ call.approved \in Content
          /\ call.pc \in {"consume", "preread", "acquire"} \cup Leased => call.effect # "policy"
          /\ call.pc \in Leased => call.token > 0
    <2>1. op[c] \in Call /\ Formed(op[c])
      BY DEF TypeOK
    <2>2. Formed(Idle)
      BY DEF Idle, Leased, InLease
    <2>3. ASSUME NEW p \in Permit, Approve(c, p) PROVE Formed(op'[c])
      BY <2>1, <2>3 DEF Approve
    <2>4. ASSUME NEW p \in Permit, Begin(c, p) PROVE Formed(op'[c])
      <3>1. permit[p] \in Approval /\ permit[p].effect # "policy"
        BY <2>4 DEF Begin, TypeOK, ApprovalsArePersonal
      <3>2. QED
        BY <2>4, <3>1 DEF Begin, Idle, Approval, TypeOK, Leased, InLease
    <2>5. ASSUME NEW t \in Target, BeginServerOwned(c, t) PROVE Formed(op'[c])
      BY <2>5 DEF BeginServerOwned, Idle, TypeOK, Leased, InLease
    <2>6. CASE Acquire(c)
      <3>1. op[c].target \in Target /\ rows[op[c].target].token + 1 > 0
        BY <2>1, <2>6 DEF Acquire, TypeOK, Row
      <3>2. QED
        BY <2>1, <2>2, <2>6, <3>1 DEF Acquire, Return, TypeOK, Call
    <2>7. CASE Consume(c) \/ PreRead(c) \/ Enter(c) \/ Validate(c) \/ Dispatch(c) \/ Applied(c)
               \/ ReleaseLease(c) \/ BusyTimeout(c) \/ Recheck(c) \/ Run(c) \/ Crash(c)
      BY <2>1, <2>2, <2>7
      DEF Consume, PreRead, Enter, Validate, Dispatch, Applied, ReleaseLease, BusyTimeout, Recheck, Run, Crash,
          Goto, Return, TypeOK, Call, Leased, InLease
    <2>8. Formed(op'[c])
      BY <1>1, <2>3, <2>4, <2>5, <2>6, <2>7 DEF Operate
    <2>9. QED
      BY <1>1, <2>8, OthersStand
  <1>2. CASE Tick \/ UNCHANGED vars
    BY <1>2 DEF Tick, vars
  <1>3. QED
    BY <1>1, <1>2 DEF Next

\* A Permit that was given is never withdrawn, given to another process or unspent.
LEMMA PermitsOnlySpend ==
    ASSUME IInv, NEW c \in Caller, Operate(c), NEW p \in Permit, permit[p] # None
    PROVE  /\ permit'[p] # None
           /\ permit'[p].by = permit[p].by
           /\ permit'[p].effect = permit[p].effect
           /\ permit[p].spent => permit'[p].spent
  <1> USE GatewayAssumption DEF IInv, TypeOK
  <1>1. permit[p] \in Approval /\ [permit[p] EXCEPT !.spent = TRUE] \in Approval
    BY DEF Approval
  <1>2. ASSUME NEW q \in Permit, Approve(c, q) PROVE permit'[p] = permit[p]
    BY <1>2 DEF Approve
  <1>3. CASE Consume(c)
    <2>1. CASE permit' = [permit EXCEPT ![op[c].permit].spent = TRUE] /\ p = op[c].permit
      <3>1. permit'[p] = [permit[p] EXCEPT !.spent = TRUE]
        BY <2>1
      <3>2. QED
        BY <1>1, <3>1 DEF Approval
    <2>2. QED
      BY <1>3, <2>1 DEF Consume
  <1>4. CASE Crash(c)
    BY <1>1, <1>4 DEF Crash, Approval
  <1>5. CASE permit' = permit
    BY <1>5
  <1>6. QED
    BY <1>1, <1>2, <1>3, <1>4, <1>5
    DEF Operate, Begin, BeginServerOwned, PreRead, Acquire, Enter, Validate, Dispatch, Applied,
        ReleaseLease, BusyTimeout, Recheck, Run

LEMMA NextPermits == IInv /\ [Next]_vars => ApprovalsArePersonal' /\ CallsOwnTheirPermit'
  <1> SUFFICES ASSUME IInv, [Next]_vars PROVE ApprovalsArePersonal' /\ CallsOwnTheirPermit'
    OBVIOUS
  <1> USE GatewayAssumption DEF IInv
  <1>1. ASSUME NEW c \in Caller, Operate(c) PROVE ApprovalsArePersonal' /\ CallsOwnTheirPermit'
    <2>1. ApprovalsArePersonal'
      <3>1. ASSUME NEW p \in Permit, permit[p] = None, permit'[p] # None PROVE permit'[p].effect # "policy"
        <4>1. ~Consume(c)
          <5>1. Consume(c) => permit[op[c].permit] # None
            BY DEF Consume, CallsAreFormed, CallsOwnTheirPermit
          <5>2. QED
            BY <3>1, <5>1 DEF Consume, TypeOK
        <4>2. ~Crash(c)
          BY <3>1 DEF Crash
        <4>3. PICK q \in Permit : Approve(c, q)
          BY <1>1, <3>1, <4>1, <4>2
          DEF Operate, Begin, BeginServerOwned, PreRead, Acquire, Enter, Validate, Dispatch, Applied,
              ReleaseLease, BusyTimeout, Recheck, Run
        <4>4. QED
          BY <3>1, <4>3 DEF Approve, TypeOK
      <3>2. QED
        BY <1>1, <3>1, PermitsOnlySpend DEF ApprovalsArePersonal
    <2>2. ASSUME NEW d \in Caller, d # c, op'[d].pc # "idle" 
          PROVE  IF op'[d].effect = "policy" THEN op'[d].permit = None
                 ELSE /\ op'[d].permit \in Permit
                      /\ permit'[op'[d].permit] # None
                      /\ permit'[op'[d].permit].by = d
                      /\ op'[d].pc # "consume" => permit'[op'[d].permit].spent
      BY <1>1, <2>2, OthersStand, PermitsOnlySpend DEF CallsOwnTheirPermit
    <2>3. ASSUME op'[c].pc # "idle"
          PROVE  IF op'[c].effect = "policy" THEN op'[c].permit = None
                 ELSE /\ op'[c].permit \in Permit
                      /\ permit'[op'[c].permit] # None
                      /\ permit'[op'[c].permit].by = c
                      /\ op'[c].pc # "consume" => permit'[op'[c].permit].spent
      <3>1. CASE op[c].pc = "idle"
        <4>1. CASE \E p \in Permit : Begin(c, p)
          <5>1. PICK p \in Permit : Begin(c, p)
            BY <4>1
          <5>2. permit[p] \in Approval /\ permit[p].effect # "policy" /\ permit'[p] = permit[p]
            BY <5>1 DEF Begin, TypeOK, ApprovalsArePersonal
          <5>3. QED
            BY <5>1, <5>2 DEF Begin, Idle, TypeOK
        <4>2. CASE \E t \in Target : BeginServerOwned(c, t)
          BY <4>2 DEF BeginServerOwned, Idle, TypeOK
        <4>3. QED
          BY <1>1, <2>3, <3>1, <4>1, <4>2
          DEF Operate, Approve, Consume, PreRead, Acquire, Enter, Validate, Dispatch, Applied, ReleaseLease,
              BusyTimeout, Recheck, Run, Crash, Leased, InLease
      <3>2. CASE op[c].pc = "consume"
        <4>1. CASE Consume(c)
          <5>1. /\ op[c].permit \in Permit
                /\ permit[op[c].permit] \in Approval
                /\ permit[op[c].permit].by = c
                /\ op[c].effect # "policy"
            BY <3>2 DEF TypeOK, CallsAreFormed, CallsOwnTheirPermit
          <5>2. ~permit[op[c].permit].spent
            BY <2>3, <4>1 DEF Consume, Return, Idle, TypeOK
          <5>3. permit' = [permit EXCEPT ![op[c].permit].spent = TRUE]
            BY <4>1, <5>2 DEF Consume
          <5>4. op'[c].permit = op[c].permit /\ op'[c].effect = op[c].effect
            BY <4>1, <5>2 DEF Consume, Goto, TypeOK, Call
          <5>5. permit'[op[c].permit] \in Approval
            BY <5>1, <5>3 DEF TypeOK, Approval
          <5>6. QED
            BY <5>1, <5>3, <5>4, <5>5 DEF TypeOK, Approval
        <4>2. CASE \E p \in Permit : Approve(c, p)
          BY <1>1, <3>2, <4>2, PermitsOnlySpend DEF Approve, CallsAreFormed, CallsOwnTheirPermit
        <4>3. QED
          BY <1>1, <2>3, <3>2, <4>1, <4>2
          DEF Operate, Begin, BeginServerOwned, PreRead, Acquire, Enter, Validate, Dispatch, Applied,
              ReleaseLease, BusyTimeout, Recheck, Run, Crash, Return, Idle, TypeOK
      <3>3. CASE op[c].pc \notin {"idle", "consume"}
        <4>1. op'[c].permit = op[c].permit /\ op'[c].effect = op[c].effect
          <5>1. op[c] \in Call /\ op \in [Caller -> Call]
            BY DEF TypeOK
          <5>2. CASE PreRead(c) \/ Acquire(c)
            BY <2>3, <5>1, <5>2 DEF PreRead, Acquire, Return, Idle, Call
          <5>3. CASE (\E p \in Permit : Approve(c, p)) \/ Enter(c) \/ Validate(c) \/ Dispatch(c) \/ Applied(c)
            BY <5>1, <5>3 DEF Approve, Enter, Validate, Dispatch, Applied, Goto, Call
          <5>4. CASE ReleaseLease(c) \/ BusyTimeout(c) \/ Recheck(c) \/ Run(c) \/ Crash(c)
            BY <2>3, <5>1, <5>4 DEF ReleaseLease, BusyTimeout, Recheck, Run, Crash, Goto, Return, Idle, Call
          <5>5. QED
            BY <1>1, <3>3, <5>2, <5>3, <5>4 DEF Operate, Begin, BeginServerOwned, Consume
        <4>2. QED
          BY <1>1, <3>3, <4>1, PermitsOnlySpend DEF CallsOwnTheirPermit
      <3>4. QED
        BY <3>1, <3>2, <3>3
    <2>4. QED
      BY <2>1, <2>2, <2>3 DEF CallsOwnTheirPermit
  <1>2. CASE Tick \/ UNCHANGED vars
    BY <1>2 DEF Tick, vars, ApprovalsArePersonal, CallsOwnTheirPermit
  <1>3. QED
    BY <1>1, <1>2 DEF Next

\* Where the effects of a step can come from: the Permit of the call that makes it.
LEMMA EffectSteps ==
    ASSUME IInv, NEW c \in Caller, Operate(c), NEW p \in Permit, effects'[p] # effects[p]
    PROVE  /\ Dispatch(c) \/ Run(c)
           /\ p = op[c].permit
           /\ effects'[p] = effects[p] + 1
           /\ op[c].pc \in {"dispatch", "run"}
           /\ op'[c].pc \in {"applied", "idle"}
  <1>1. Dispatch(c) \/ Run(c)
    BY DEF Operate, Approve, Begin, BeginServerOwned, Consume, PreRead, Acquire, Enter, Validate, Applied,
           ReleaseLease, BusyTimeout, Recheck, Crash
  <1>2. CASE Dispatch(c)
    BY <1>2 DEF Dispatch, Goto, IInv, TypeOK, Call
  <1>3. CASE Run(c)
    BY <1>3 DEF Run, Return, Idle, IInv, TypeOK
  <1>4. QED
    BY <1>1, <1>2, <1>3

LEMMA NextEffects == IInv /\ [Next]_vars => OneEffectAhead' /\ UnspentIsUnused'
  <1> SUFFICES ASSUME IInv, [Next]_vars PROVE OneEffectAhead' /\ UnspentIsUnused'
    OBVIOUS
  <1> USE GatewayAssumption DEF IInv
  <1>1. ASSUME NEW c \in Caller, Operate(c) PROVE OneEffectAhead' /\ UnspentIsUnused'
    <2>1. ASSUME NEW d \in Caller, d # c, op'[d].pc \in AheadOfEffect, op'[d].permit \in Permit
          PROVE  effects'[op'[d].permit] = 0
      <3>1. op'[d] = op[d]
        BY <1>1, <2>1, OthersStand
      <3>2. effects[op[d].permit] = 0 /\ permit[op[d].permit].by = d
        BY <2>1, <3>1 DEF OneEffectAhead, CallsOwnTheirPermit, AheadOfEffect
      <3>3. op[d].permit = op[c].permit /\ op[c].pc # "idle" => permit[op[d].permit].by = c
        BY <2>1, <3>1 DEF CallsOwnTheirPermit
      <3>4. QED
        BY <1>1, <2>1, <3>1, <3>2, <3>3, EffectSteps
    <2>2. ASSUME op'[c].pc \in AheadOfEffect, op'[c].permit \in Permit
          PROVE  effects'[op'[c].permit] = 0
      <3>1. effects'[op'[c].permit] = effects[op'[c].permit]
        BY <1>1, <2>2, EffectSteps DEF AheadOfEffect
      <3>2. CASE Consume(c)
        <4>1. ~permit[op[c].permit].spent /\ op'[c].permit = op[c].permit
          BY <2>2, <3>2 DEF AheadOfEffect, Consume, Goto, Return, Idle, TypeOK, Call
        <4>2. op[c].permit \in Permit /\ effects[op[c].permit] = 0
          BY <2>2, <4>1 DEF UnspentIsUnused, TypeOK
        <4>3. QED
          BY <3>1, <4>1, <4>2
      <3>3. CASE ~Consume(c)
        <4>1. op[c].pc \in AheadOfEffect /\ op'[c].permit = op[c].permit
          <5>1. op[c] \in Call /\ op \in [Caller -> Call]
            BY DEF TypeOK
          <5>2. CASE PreRead(c) \/ Acquire(c)
            BY <2>2, <5>1, <5>2 DEF AheadOfEffect, PreRead, Acquire, Return, Idle, Call
          <5>3. CASE (\E p \in Permit : Approve(c, p)) \/ Enter(c) \/ Validate(c) \/ Dispatch(c) \/ Applied(c)
            BY <2>2, <5>1, <5>3 DEF AheadOfEffect, Approve, Enter, Validate, Dispatch, Applied, Goto, Call
          <5>4. CASE ReleaseLease(c) \/ BusyTimeout(c) \/ Recheck(c) \/ Run(c) \/ Crash(c)
            BY <2>2, <5>1, <5>4
            DEF AheadOfEffect, ReleaseLease, BusyTimeout, Recheck, Run, Crash, Goto, Return, Idle, Call
          <5>5. CASE (\E p \in Permit : Begin(c, p)) \/ (\E t \in Target : BeginServerOwned(c, t))
            BY <2>2, <5>5, BeginFacts DEF AheadOfEffect
          <5>6. QED
            BY <1>1, <3>3, <5>2, <5>3, <5>4, <5>5 DEF Operate
        <4>2. QED
          BY <2>2, <3>1, <4>1 DEF OneEffectAhead
      <3>4. QED
        BY <3>2, <3>3
    <2>3. ASSUME NEW p \in Permit
          PROVE  effects'[p] <= 1 /\ (effects'[p] = 1 => permit'[p] # None /\ permit'[p].spent)
      <3>1. CASE effects'[p] = effects[p]
        BY <1>1, <3>1, PermitsOnlySpend DEF UnspentIsUnused
      <3>2. CASE effects'[p] # effects[p]
        <4>1. p = op[c].permit /\ effects'[p] = effects[p] + 1 /\ op[c].pc \in {"dispatch", "run"}
          BY <1>1, <3>2, EffectSteps
        <4>2. effects[p] = 0 /\ permit[p] # None /\ permit[p].spent
          BY <4>1 DEF OneEffectAhead, AheadOfEffect, CallsOwnTheirPermit
        <4>3. QED
          BY <1>1, <4>1, <4>2, PermitsOnlySpend
      <3>3. QED
        BY <3>1, <3>2
    <2>4. QED
      BY <2>1, <2>2, <2>3 DEF OneEffectAhead, UnspentIsUnused
  <1>2. CASE Tick \/ UNCHANGED vars
    BY <1>2 DEF Tick, vars, OneEffectAhead, UnspentIsUnused
  <1>3. QED
    BY <1>1, <1>2 DEF Next

LEMMA NextWriter == IInv /\ [Next]_vars => WriterIsInLease'
  <1> SUFFICES ASSUME IInv, [Next]_vars PROVE WriterIsInLease'
    OBVIOUS
  <1> USE GatewayAssumption DEF IInv, TypeOK, WriterIsInLease, InLease
  <1>1. ASSUME NEW c \in Caller, Operate(c) PROVE WriterIsInLease'
    <2>1. CASE Enter(c) \/ Validate(c) \/ Dispatch(c) \/ Applied(c)
      BY <2>1 DEF Enter, Validate, Dispatch, Applied, Goto, Call
    <2>2. CASE PreRead(c) \/ Acquire(c)
      BY <2>2 DEF PreRead, Acquire, Return, Idle, Call
    <2>3. CASE (\E p \in Permit : Begin(c, p)) \/ (\E t \in Target : BeginServerOwned(c, t))
      BY <1>1, <2>3, BeginFacts, OthersStand
    <2>4. CASE (\E p \in Permit : Approve(c, p)) \/ Consume(c) \/ ReleaseLease(c) \/ BusyTimeout(c)
      BY <2>4 DEF Approve, Consume, ReleaseLease, BusyTimeout, Goto, Return, Idle, Call
    <2>5. CASE Recheck(c) \/ Run(c) \/ Crash(c)
      BY <2>5 DEF Recheck, Run, Crash, Goto, Return, Idle, Call
    <2>6. QED
      BY <1>1, <2>1, <2>2, <2>3, <2>4, <2>5 DEF Operate
  <1>2. CASE Tick \/ UNCHANGED vars
    BY <1>2 DEF Tick, vars
  <1>3. QED
    BY <1>1, <1>2 DEF Next

\* A target changes under the lease of the call that installs on it, or by an effect
\* without a lease, which is then noted against every install about to start there; and
\* nothing but a call's own check takes such a note away.
LEMMA StateSteps ==
    ASSUME IInv, NEW c \in Caller, Operate(c)
    PROVE  /\ \A t \in Target : state'[t] # state[t] =>
                 \/ Dispatch(c)
                 \/ \A d \in Caller : op[d].pc = "dispatch" /\ op[d].target = t => d \in overtaken'
           /\ overtaken \ {c} \subseteq overtaken'
  <1> USE DEF IInv, TypeOK
  <1>1. CASE Run(c)
    <2>1. overtaken \subseteq overtaken'
      BY <1>1 DEF Run
    <2>2. \A t \in Target : state'[t] # state[t] =>
             \A d \in Caller : op[d].pc = "dispatch" /\ op[d].target = t => d \in overtaken'
      BY <1>1 DEF Run
    <2>3. QED
      BY <2>1, <2>2
  <1>2. CASE Validate(c)
    BY <1>2 DEF Validate
  <1>3. CASE Dispatch(c)
    BY <1>3 DEF Dispatch
  <1>4. CASE state' = state /\ overtaken' = overtaken
    BY <1>4
  <1>5. QED
    BY <1>1, <1>2, <1>3, <1>4
    DEF Operate, Approve, Begin, BeginServerOwned, Consume, PreRead, Acquire, Enter, Applied,
        ReleaseLease, BusyTimeout, Recheck, Crash

LEMMA NextInstallsSee == IInv /\ [Next]_vars => InstallsSeeWhatWasApproved'
  <1> SUFFICES ASSUME IInv, [Next]_vars PROVE InstallsSeeWhatWasApproved'
    OBVIOUS
  <1> USE GatewayAssumption DEF IInv
  <1>1. ASSUME NEW c \in Caller, Operate(c), NEW d \in Caller, op'[d].pc = "dispatch"
        PROVE  state'[op'[d].target] = op'[d].approved \/ d \in overtaken'
    <2>1. CASE d # c
      <3>1. op'[d] = op[d] /\ op[d].target \in Target
        BY <1>1, <2>1, OthersStand DEF CallsAreFormed
      <3>2. ~Dispatch(c)
        BY <1>1, <2>1, <3>1 DEF Dispatch, WriterIsInLease, InLease
      <3>3. state[op[d].target] = op[d].approved \/ d \in overtaken
        BY <1>1, <3>1 DEF InstallsSeeWhatWasApproved
      <3>4. QED
        BY <1>1, <2>1, <3>1, <3>2, <3>3, StateSteps
    <2>2. CASE d = c
      <3>1. CASE Validate(c)
        BY <1>1, <2>2, <3>1 DEF Validate, Fresh, Goto, TypeOK, Call
      <3>2. CASE \E p \in Permit : Approve(c, p)
        BY <1>1, <2>2, <3>2 DEF Approve, InstallsSeeWhatWasApproved
      <3>3. CASE PreRead(c) \/ Acquire(c) \/ Enter(c) \/ Dispatch(c) \/ Applied(c) \/ Consume(c)
        BY <1>1, <2>2, <3>3 DEF PreRead, Acquire, Enter, Dispatch, Applied, Consume, Goto, Return, Idle, TypeOK, Call
      <3>4. CASE ReleaseLease(c) \/ BusyTimeout(c) \/ Recheck(c) \/ Run(c) \/ Crash(c)
        BY <1>1, <2>2, <3>4 DEF ReleaseLease, BusyTimeout, Recheck, Run, Crash, Goto, Return, Idle, TypeOK, Call
      <3>5. QED
        BY <1>1, <2>2, <3>1, <3>2, <3>3, <3>4, BeginFacts DEF Operate
    <2>3. QED
      BY <2>1, <2>2
  <1>2. CASE Tick \/ UNCHANGED vars
    BY <1>2 DEF Tick, vars, InstallsSeeWhatWasApproved
  <1>3. QED
    BY <1>1, <1>2 DEF Next, InstallsSeeWhatWasApproved

\* Which rows a step may rewrite: none, the one it leases, or the one it gives back.
LEMMA RowSteps ==
    ASSUME IInv, NEW c \in Caller, Operate(c), NEW t \in Target, rows'[t] # rows[t]
    PROVE  /\ t = op[c].target
           /\ writer = None /\ writer' = None
           /\ \/ /\ op'[c].pc = "execute"
                 /\ op'[c].target = t
                 /\ op'[c].token = rows'[t].token
                 /\ rows'[t].token = rows[t].token + 1
                 /\ rows'[t].status = "ACTIVE"
              \/ /\ rows'[t] = Released(rows[t])
                 /\ rows'[t].token = rows[t].token
                 /\ rows'[t].status # "ACTIVE"
  <1> USE DEF IInv, TypeOK
  <1>1. Acquire(c) \/ ReleaseLease(c)
    BY DEF Operate, Approve, Begin, BeginServerOwned, Consume, PreRead, Enter, Validate, Dispatch, Applied,
           BusyTimeout, Recheck, Run, Crash
  <1>2. CASE Acquire(c)
    BY <1>2 DEF Acquire, Issued, Call, CallsAreFormed
  <1>3. CASE ReleaseLease(c)
    BY <1>3 DEF ReleaseLease, Released, Row
  <1>4. QED
    BY <1>1, <1>2, <1>3

LEMMA NextLeaseComesBack == IInv /\ [Next]_vars => LeaseComesBack'
  <1> SUFFICES ASSUME IInv, [Next]_vars PROVE LeaseComesBack'
    OBVIOUS
  <1> USE GatewayAssumption DEF IInv
  <1>1. ASSUME NEW c \in Caller, Operate(c), NEW t \in Target \ stranded', rows'[t].status = "ACTIVE"
        PROVE  \E d \in Caller : op'[d].pc \in Leased /\ op'[d].target = t /\ op'[d].token = rows'[t].token
    <2>1. CASE rows'[t] # rows[t]
      BY <1>1, <2>1, RowSteps DEF Leased
    <2>2. CASE rows'[t] = rows[t]
      <3>1. t \notin stranded
        <4>1. CASE Acquire(c)
          BY <1>1, <2>2, <4>1 DEF Acquire, Issued, TypeOK, Row
        <4>2. QED
          BY <1>1, <4>1
          DEF Operate, Approve, Begin, BeginServerOwned, Consume, PreRead, Enter, Validate, Dispatch, Applied,
              ReleaseLease, BusyTimeout, Recheck, Run, Crash
      <3>2. PICK d \in Caller : op[d].pc \in Leased /\ op[d].target = t /\ op[d].token = rows[t].token
        BY <1>1, <2>2, <3>1 DEF LeaseComesBack
      <3>3. CASE d # c
        BY <1>1, <2>2, <3>2, <3>3, OthersStand
      <3>4. CASE d = c
        <4>1. Matches(rows[t], op[c].token)
          BY <1>1, <2>2, <3>2, <3>4 DEF Matches
        <4>2. ~Crash(c)
          BY <1>1, <3>2, <3>4, <4>1 DEF Crash
        <4>3. ~ReleaseLease(c)
          BY <1>1, <2>2, <3>2, <3>4, <4>1 DEF ReleaseLease, Released, TypeOK, Row, Status
        <4>4. CASE BusyTimeout(c)
          <5>1. op[c].pc = "execute"
            BY <1>1, <3>2, <3>4, <4>1, <4>4 DEF BusyTimeout, Leased, InLease
          <5>2. op'[c] = [op[c] EXCEPT !.pc = "release"] /\ op[c] \in Call
            BY <4>4, <5>1 DEF BusyTimeout, Goto, TypeOK
          <5>3. QED
            BY <2>2, <3>2, <3>4, <5>2 DEF Call, Leased
        <4>5. CASE (\E p \in Permit : Approve(c, p)) \/ Enter(c) \/ Validate(c) \/ Dispatch(c) \/ Applied(c)
          BY <2>2, <3>2, <3>4, <4>5
          DEF Approve, Enter, Validate, Dispatch, Applied, Goto, TypeOK, Call, Leased, InLease
        <4>6. QED
          BY <1>1, <3>2, <3>4, <4>2, <4>3, <4>4, <4>5
          DEF Operate, Begin, BeginServerOwned, Consume, PreRead, Acquire, Recheck, Run, Leased, InLease
      <3>5. QED
        BY <3>3, <3>4
    <2>3. QED
      BY <2>1, <2>2
  <1>2. CASE Tick \/ UNCHANGED vars
    BY <1>2 DEF Tick, vars, LeaseComesBack
  <1>3. QED
    BY <1>1, <1>2 DEF Next, LeaseComesBack

LEMMA NextIInv == IInv /\ [Next]_vars => IInv'
  BY NextTypeOK, NextPermits, NextCallsAreFormed, NextEffects, NextWriter, NextInstallsSee,
     NextLeaseComesBack DEF IInv

LEMMA SpecIInv == Spec => []IInv
  BY InitIInv, NextIInv, PTL DEF Spec

-----------------------------------------------------------------------------
\* Every reachable state of the gateway has the declared types.
THEOREM Typing == Spec => []TypeOK
  BY SpecIInv, PTL DEF IInv

\* A Permit pays for one effect and is spent before it, for any number of processes,
\* Permits and deaths.
THEOREM OneEffectPerPermit == Spec => []EffectsArePaid
  <1>1. IInv => EffectsArePaid
    BY DEF IInv, UnspentIsUnused, EffectsArePaid
  <1>2. QED
    BY SpecIInv, <1>1, PTL

\* No lease is left behind but by a death or by a timeout in the finally clause.
THEOREM NoForgottenLease == Spec => []LeaseComesBack
  BY SpecIInv, PTL DEF IInv

\* For any number of processes, targets and contents, which may recur: an install starts
\* on the content it was approved for, or an effect that takes no lease changed the target
\* after the check under the lease.
THEOREM ApprovalStillHolds == Spec => []InstallsSeeWhatWasApproved
  BY SpecIInv, PTL DEF IInv

-----------------------------------------------------------------------------
(* Refinement: the installs of the gateway implement FencedClaims. *)

runningBar == [t \in Target |->
    IF \E c \in Caller : op[c].pc \in InLease /\ op[c].target = t
    THEN op[CHOOSE c \in Caller : op[c].pc \in InLease /\ op[c].target = t].token
    ELSE 0]

writerBar == [t \in Target |->
    IF writer # None /\ op[writer].target = t THEN op[writer].token ELSE 0]

\* The call that runs on a target is the writer, and there is no other.
LEMMA RunningIsWriter == IInv => runningBar = writerBar
  <1> SUFFICES ASSUME IInv, NEW t \in Target PROVE runningBar[t] = writerBar[t]
    BY DEF runningBar, writerBar
  <1> DEFINE Runs(c) == op[c].pc \in InLease /\ op[c].target = t
  <1>1. CASE \E c \in Caller : Runs(c)
    <2>1. (CHOOSE c \in Caller : Runs(c)) \in Caller /\ Runs(CHOOSE c \in Caller : Runs(c))
      BY <1>1
    <2>2. (CHOOSE c \in Caller : Runs(c)) = writer
      BY <2>1 DEF IInv, WriterIsInLease
    <2>3. writer # None
      BY <2>1, <2>2, GatewayAssumption
    <2>4. QED
      BY <1>1, <2>1, <2>2, <2>3 DEF runningBar, writerBar
  <1>2. CASE ~\E c \in Caller : Runs(c)
    <2>1. ~(writer # None /\ op[writer].target = t)
      BY <1>2 DEF IInv, TypeOK, WriterIsInLease
    <2>2. QED
      BY <1>2, <2>1 DEF runningBar, writerBar
  <1>3. QED
    BY <1>1, <1>2

LEMMA RunningIsWriterNext == IInv' => runningBar' = writerBar'
  <1> DEFINE OnlyWriterRuns == runningBar = writerBar
  <1>1. IInv => OnlyWriterRuns
    BY RunningIsWriter
  <1> HIDE DEF OnlyWriterRuns
  <1>2. IInv' => OnlyWriterRuns'
    BY <1>1, PTL
  <1>3. QED
    BY <1>2 DEF OnlyWriterRuns

LEMMA Stutter ==
    ASSUME UNCHANGED rows, runningBar' = runningBar
    PROVE  UNCHANGED Fenced!vars
  BY DEF runningBar, Fenced!vars

LEMMA FencedInit == Init => Fenced!Init
  <1> SUFFICES ASSUME Init PROVE Fenced!Init
    OBVIOUS
  <1>1. \A t \in Target : rows[t].token = 0 /\ rows[t].status # "ACTIVE"
    BY DEF Init, NoRow
  <1>2. \A c \in Caller : op[c].pc \notin InLease
    BY DEF Init, Idle, InLease
  <1>3. QED
    BY <1>1, <1>2 DEF Fenced!Init
LEMMA FencedStep == IInv /\ [Next]_vars => [Fenced!Next]_(Fenced!vars)
  <1> SUFFICES ASSUME IInv, [Next]_vars PROVE [Fenced!Next]_(Fenced!vars)
    OBVIOUS
  <1>0. IInv' /\ runningBar = writerBar /\ runningBar' = writerBar'
    BY NextIInv, RunningIsWriter, RunningIsWriterNext
  <1>1. CASE Tick \/ UNCHANGED vars
    BY <1>1, Stutter DEF Tick, vars, runningBar
  <1>2. ASSUME NEW c \in Caller, Operate(c) PROVE [Fenced!Next]_(Fenced!vars)
    <2>1. CASE \E t \in Target : rows'[t] # rows[t]
      <3>1. PICK t \in Target : rows'[t] # rows[t]
        BY <2>1
      <3>2. /\ t = op[c].target
            /\ writer = None /\ writer' = None
            /\ \/ rows'[t].token = rows[t].token + 1 /\ rows'[t].status = "ACTIVE"
               \/ rows'[t].token = rows[t].token /\ rows'[t].status # "ACTIVE"
        BY <1>2, <3>1, RowSteps
      <3>3. \A u \in Target \ {t} : rows'[u] = rows[u]
        BY <1>2, <3>2, RowSteps
      <3>4. runningBar = [u \in Target |-> 0] /\ runningBar' = [u \in Target |-> 0]
        BY <1>0, <3>2 DEF writerBar
      <3>5. CASE rows'[t].token = rows[t].token + 1 /\ rows'[t].status = "ACTIVE"
        <4>1. [u \in Target |-> rows'[u].token] = [[u \in Target |-> rows[u].token] EXCEPT ![t] = rows[t].token + 1]
          BY <3>3, <3>5
        <4>2. [u \in Target |-> rows'[u].status # "ACTIVE"]
                 = [[u \in Target |-> rows[u].status # "ACTIVE"] EXCEPT ![t] = FALSE]
          BY <3>3, <3>5
        <4>3. Fenced!Issue(t)
          BY <3>4, <4>1, <4>2 DEF Fenced!Issue, runningBar
        <4>4. QED
          BY <4>3 DEF Fenced!Next
      <3>6. CASE rows'[t].token = rows[t].token /\ rows'[t].status # "ACTIVE"
        <4>1. [u \in Target |-> rows'[u].token] = [u \in Target |-> rows[u].token]
          BY <3>3, <3>6
        <4>2. [u \in Target |-> rows'[u].status # "ACTIVE"]
                 = [u \in Target |-> u \in {t} \/ [v \in Target |-> rows[v].status # "ACTIVE"][u]]
          BY <3>3, <3>6
        <4>3. Fenced!Seal({t})
          BY <3>4, <4>1, <4>2 DEF Fenced!Seal, runningBar
        <4>4. QED
          BY <4>3 DEF Fenced!Next
      <3>7. QED
        BY <3>2, <3>5, <3>6
    <2>2. CASE rows' = rows /\ writer' # writer /\ writer' # None
      <3>1. /\ Enter(c) /\ writer = None /\ writer' = c
            /\ Matches(rows[op[c].target], op[c].token)
            /\ op[c].target \in Target
        BY <1>2, <2>2
        DEF IInv, CallsAreFormed, Operate, Approve, Begin, BeginServerOwned, Consume, PreRead, Acquire, Enter,
            Validate, Dispatch, Applied, ReleaseLease, BusyTimeout, Recheck, Run, Crash
      <3>2. op'[c].target = op[c].target /\ op'[c].token = op[c].token
        BY <3>1 DEF Enter, Goto, IInv, TypeOK, Call
      <3>3. PICK t \in Target : t = op[c].target
        BY <3>1
      <3>4. runningBar[t] = 0 /\ runningBar' = [runningBar EXCEPT ![t] = rows[t].token]
        BY <1>0, <3>1, <3>2, <3>3, GatewayAssumption DEF writerBar, Matches
      <3>5. Fenced!Enter(t)
        BY <2>2, <3>1, <3>3, <3>4 DEF Fenced!Enter, Matches, runningBar
      <3>6. QED
        BY <3>5 DEF Fenced!Next
    <2>3. CASE rows' = rows /\ writer' # writer /\ writer' = None
      <3>1. writer = c
        BY <1>2, <2>3
        DEF IInv, WriterIsInLease, InLease, Operate, Approve, Begin, BeginServerOwned, Consume, PreRead, Acquire,
            Enter, Validate, Dispatch, Applied, ReleaseLease, BusyTimeout, Recheck, Run, Crash
      <3>2. op[c].target \in Target /\ op[c].token \in Nat /\ op[c].token > 0
        BY <3>1 DEF IInv, TypeOK, Call, CallsAreFormed, WriterIsInLease, Leased, InLease
      <3>3. PICK t \in Target : t = op[c].target
        BY <3>2
      <3>4. runningBar[t] # 0 /\ runningBar' = [runningBar EXCEPT ![t] = 0]
        BY <1>0, <2>3, <3>1, <3>2, <3>3, GatewayAssumption DEF writerBar
      <3>5. Fenced!Leave(t)
        BY <2>3, <3>4 DEF Fenced!Leave, runningBar
      <3>6. QED
        BY <3>5 DEF Fenced!Next
    <2>4. CASE rows' = rows /\ writer' = writer
      <3>1. ASSUME writer = c PROVE op'[c].target = op[c].target /\ op'[c].token = op[c].token
        <4>1. op[c].pc \in InLease /\ op[c].pc \in {"validate", "dispatch", "applied"} /\ writer # None
          BY <3>1, GatewayAssumption DEF IInv, WriterIsInLease, InLease
        <4>2. CASE (\E p \in Permit : Approve(c, p)) \/ Validate(c) \/ Dispatch(c)
          BY <2>4, <4>1, <4>2 DEF Approve, Validate, Dispatch, Goto, IInv, TypeOK, Call
        <4>3. QED
          BY <1>2, <2>4, <3>1, <4>1, <4>2
          DEF Operate, Begin, BeginServerOwned, Consume, PreRead, Acquire, Enter, Applied, ReleaseLease,
              BusyTimeout, Recheck, Run, Crash
      <3>2. writer # None => op'[writer].target = op[writer].target /\ op'[writer].token = op[writer].token
        BY <1>2, <3>1, OthersStand DEF IInv, TypeOK
      <3>3. runningBar' = runningBar
        BY <1>0, <2>4, <3>2 DEF writerBar
      <3>4. QED
        BY <2>4, <3>3, Stutter
    <2>5. rows' = rows \/ \E t \in Target : rows'[t] # rows[t]
      BY <1>0 DEF IInv, TypeOK
    <2>6. QED
      BY <2>1, <2>2, <2>3, <2>4, <2>5
  <1>3. QED
    BY <1>1, <1>2 DEF Next

\* The installs of the gateway keep the promises of fenced claims.
THEOREM InstallsImplementFencedClaims == Spec => InstallsAreFenced
  BY SpecIInv, FencedInit, FencedStep, PTL DEF Spec, InstallsAreFenced, Fenced!Spec
=============================================================================
