----------------------- MODULE GovernedPipelineProofs -----------------------
(***************************************************************************)
(* GovernedPipeline for any number of threads, plans and steps: the lock of *)
(* a plan is held by the thread that runs it, the budget of a plan pays for *)
(* every attempt recorded under it, a step is done only if its effect took  *)
(* place, and a command is not repeated blindly.  Plans that share no step  *)
(* implement the attempts of AttemptLedger.                                 *)
(***************************************************************************)
EXTENDS GovernedPipeline, FiniteSetTheorems, TLAPS

StepRecord == [status : StepStatus, attempt : Nat]
OutcomeTable == UNION {[K -> Outcome] : K \in SUBSET Key}
LedgerTable == UNION {[O -> {"PENDING", "COMMITTED"}] : O \in SUBSET (Plan \X Key)}

CallRecord == [pc : PC, plan : Plan \cup {None}, saved : Plan \cup {None},
               savedPlan : Plan \cup {None}, n : Nat, via : Plan \cup {None},
               key : Key \cup {NoKey}, recover : BOOLEAN,
               answer : {"none", "ok", "error", "refused", "raised", "committed"}]

\* An executor at work knows its closure's plan and its step; from the claim on it has a key.
Keyed == {"acquire", "begin", "prepare", "dispatch", "effect", "release", "settle"}
Working == Keyed \cup {"lookup"}
ShapedCall == {o \in CallRecord :
    /\ o.pc # "idle" => o.plan \in Plan
    /\ o.pc = "step" => o.n > 0
    /\ o.pc \in Working => o.via \in Plan /\ o.n \in DOMAIN StepsOf[o.plan]
    /\ o.pc \in Keyed => o.key \in Key /\ o.key.n = o.n /\ o.key.d = StepsOf[o.plan][o.n]
    /\ o.pc = "prepare" => StepsOf[o.plan][o.n] \in Writes
    /\ o.recover => o.pc \in Keyed /\ StepsOf[o.plan][o.n] \in Writes
    /\ o.answer # "none" => o.pc \in {"release", "settle"}}

TypedSteps ==
    /\ steps = [p \in Plan |-> steps[p]]
    /\ \A p \in Plan : steps[p] \in [DOMAIN StepsOf[p] -> StepRecord]

Typed ==
    /\ TypedSteps
    /\ outcomes \in [Plan -> OutcomeTable]
    /\ consumed \in [Plan -> Nat]
    /\ executor \in Plan \cup {None}
    /\ current \in Plan \cup {None}
    /\ execLock \in [Plan -> Thread \cup {None}]
    /\ permits \in [Plan -> Nat]
    /\ claim \in [Resource -> Thread \cup {None}]
    /\ ledger \in LedgerTable
    /\ ran \subseteq Plan \X Key
    /\ op \in [Thread -> ShapedCall]
    /\ up \in BOOLEAN

-----------------------------------------------------------------------------
(* The steps of a plan, and the tables *)

LEMMA StepFacts ==
    ASSUME NEW p \in Plan
    PROVE  /\ DOMAIN StepsOf[p] = 1 .. Len(StepsOf[p])
           /\ Len(StepsOf[p]) \in Nat
           /\ \A n \in DOMAIN StepsOf[p] :
                 n \in StepNo /\ n \in Nat /\ n > 0 /\ StepsOf[p][n] \in Definition
  <1>1. StepsOf[p] \in Seq(Definition)
    BY PipelineAssumption
  <1>2. DOMAIN StepsOf[p] = 1 .. Len(StepsOf[p]) /\ Len(StepsOf[p]) \in Nat
    BY <1>1
  <1>3. ASSUME NEW n \in DOMAIN StepsOf[p] PROVE n \in StepNo /\ StepsOf[p][n] \in Definition
    BY DEF StepNo, Definition
  <1>4. QED
    BY <1>2, <1>3

LEMMA TableFacts ==
    ASSUME NEW table \in OutcomeTable
    PROVE  /\ DOMAIN table \subseteq Key
           /\ \A k \in DOMAIN table : table[k] \in Outcome
           /\ \A k : \A s \in Outcome : [table EXCEPT ![k] = s] \in OutcomeTable
           /\ \A k \in Key, s \in Outcome : Put(table, k, s) \in OutcomeTable
  <1>1. PICK K \in SUBSET Key : table \in [K -> Outcome]
    BY DEF OutcomeTable
  <1>2. ASSUME NEW k, NEW s \in Outcome PROVE [table EXCEPT ![k] = s] \in OutcomeTable
    <2>1. [table EXCEPT ![k] = s] \in [K -> Outcome]
      BY <1>1
    <2>2. QED
      BY <2>1 DEF OutcomeTable
  <1>3. ASSUME NEW k \in Key, NEW s \in Outcome PROVE Put(table, k, s) \in OutcomeTable
    <2>1. Put(table, k, s) \in [K \cup {k} -> Outcome] /\ K \cup {k} \in SUBSET Key
      BY <1>1 DEF Put
    <2>2. QED
      BY <2>1 DEF OutcomeTable
  <1>4. QED
    BY <1>1, <1>2, <1>3

LEMMA LedgerFacts ==
    ASSUME NEW table \in LedgerTable
    PROVE  /\ DOMAIN table \subseteq Plan \X Key
           /\ \A o \in DOMAIN table : table[o] \in {"PENDING", "COMMITTED"}
           /\ \A o : [table EXCEPT ![o] = "COMMITTED"] \in LedgerTable
           /\ \A o \in Plan \X Key : Put(table, o, "PENDING") \in LedgerTable
  <1> DEFINE Status == {"PENDING", "COMMITTED"}
  <1>1. PICK O \in SUBSET (Plan \X Key) : table \in [O -> Status]
    BY DEF LedgerTable
  <1>2. ASSUME NEW o PROVE [table EXCEPT ![o] = "COMMITTED"] \in LedgerTable
    <2>1. [table EXCEPT ![o] = "COMMITTED"] \in [O -> Status]
      BY <1>1
    <2>2. QED
      BY <2>1 DEF LedgerTable
  <1>3. ASSUME NEW o \in Plan \X Key PROVE Put(table, o, "PENDING") \in LedgerTable
    <2>1. Put(table, o, "PENDING") \in [O \cup {o} -> Status] /\ O \cup {o} \in SUBSET (Plan \X Key)
      BY <1>1 DEF Put
    <2>2. QED
      BY <2>1 DEF LedgerTable
  <1>4. QED
    BY <1>1, <1>2, <1>3

-----------------------------------------------------------------------------
(* What a step makes of a call *)

\* The call after the engine has taken the executor's answer.
Answered(o, status) ==
    [o EXCEPT !.pc = IF status = "done" THEN "step" ELSE "finish",
              !.n = IF status = "done" THEN o.n + 1 ELSE o.n,
              !.via = None, !.key = NoKey, !.recover = FALSE, !.answer = "none"]

LEMMA AnsweredFacts ==
    ASSUME NEW o \in ShapedCall, o.pc \in Working \cup {"step"}, NEW status
    PROVE  /\ Answered(o, status) \in ShapedCall
           /\ Answered(o, status).plan = o.plan
           /\ Answered(o, status).pc \in {"step", "finish"}
           /\ Answered(o, status).answer = "none"
  <1> DEFINE a == Answered(o, status)
  <1>1. o \in CallRecord /\ o.plan \in Plan /\ o.n \in Nat
    BY DEF ShapedCall, CallRecord, Working, Keyed
  <1>2. a.plan = o.plan /\ a.pc \in {"step", "finish"} /\ a.answer = "none" /\ a.recover = FALSE
    BY <1>1 DEF CallRecord, Answered
  <1>3. a.n \in Nat /\ (a.pc = "step" => a.n > 0)
    BY <1>1 DEF CallRecord, Answered
  <1>4. a \in CallRecord
    BY <1>1, <1>2, <1>3 DEF CallRecord, PC, Answered
  <1>5. QED
    BY <1>1, <1>2, <1>3, <1>4 DEF ShapedCall, Working, Keyed

LEMMA IdleFacts == Idle \in ShapedCall
  BY DEF ShapedCall, CallRecord, Idle, NoKey, PC, Working, Keyed

LEMMA StartFacts ==
    ASSUME NEW p \in Plan
    PROVE  [Idle EXCEPT !.pc = "enter", !.plan = p] \in ShapedCall
  BY DEF ShapedCall, CallRecord, Idle, NoKey, PC, Working, Keyed

LEMMA EnterFacts ==
    ASSUME NEW o \in ShapedCall, o.pc = "enter", NEW x \in Plan \cup {None}, NEW y \in Plan \cup {None}
    PROVE  [o EXCEPT !.pc = "step", !.n = 1, !.saved = x, !.savedPlan = y] \in ShapedCall
  <1> DEFINE e == [o EXCEPT !.pc = "step", !.n = 1, !.saved = x, !.savedPlan = y]
  <1>1. o \in CallRecord /\ o.plan \in Plan /\ o.answer = "none" /\ o.recover = FALSE
    BY DEF ShapedCall, CallRecord, Keyed
  <1>2. e \in CallRecord
    BY <1>1 DEF CallRecord, PC
  <1>3. e.pc = "step" /\ e.plan = o.plan /\ e.n > 0 /\ e.answer = "none" /\ e.recover = FALSE
    BY <1>1 DEF CallRecord
  <1>4. QED
    BY <1>1, <1>2, <1>3 DEF ShapedCall, Working, Keyed

LEMMA LoopFacts ==
    ASSUME NEW o \in ShapedCall, o.pc = "step"
    PROVE  /\ [o EXCEPT !.pc = "finish"] \in ShapedCall
           /\ [o EXCEPT !.n = @ + 1] \in ShapedCall
           /\ \A v \in Plan : o.n <= Len(StepsOf[o.plan]) =>
                 [o EXCEPT !.pc = "lookup", !.via = v] \in ShapedCall
  <1>1. o.plan \in Plan /\ o.n \in Nat /\ o.n > 0
    BY DEF ShapedCall, CallRecord
  <1>2. o.n <= Len(StepsOf[o.plan]) => o.n \in DOMAIN StepsOf[o.plan]
    BY <1>1, StepFacts
  <1>3. [o EXCEPT !.pc = "finish"] \in ShapedCall
    BY DEF ShapedCall, CallRecord, PC, Working, Keyed
  <1>4. [o EXCEPT !.n = @ + 1] \in ShapedCall
    BY <1>1 DEF ShapedCall, CallRecord, PC, Working, Keyed
  <1>5. ASSUME NEW v \in Plan, o.n <= Len(StepsOf[o.plan])
        PROVE  [o EXCEPT !.pc = "lookup", !.via = v] \in ShapedCall
    BY <1>1, <1>2, <1>5 DEF ShapedCall, CallRecord, PC, Working, Keyed
  <1>6. QED
    BY <1>3, <1>4, <1>5

LEMMA LookupFacts ==
    ASSUME NEW o \in ShapedCall, o.pc = "lookup",
           NEW k \in Key, k.n = o.n, k.d = StepsOf[o.plan][o.n]
    PROVE  /\ [o EXCEPT !.pc = "acquire", !.key = k] \in ShapedCall
           /\ StepsOf[o.plan][o.n] \in Writes =>
                 [o EXCEPT !.pc = "acquire", !.key = k, !.recover = TRUE] \in ShapedCall
  <1> DEFINE f == [o EXCEPT !.pc = "acquire", !.key = k]
             r == [o EXCEPT !.pc = "acquire", !.key = k, !.recover = TRUE]
  <1>1. /\ o \in CallRecord /\ o.plan \in Plan /\ o.via \in Plan /\ o.answer = "none" /\ o.recover = FALSE
        /\ o.n \in DOMAIN StepsOf[o.plan]
    BY DEF ShapedCall, CallRecord, Working, Keyed
  <1>2. f \in CallRecord /\ r \in CallRecord
    BY <1>1 DEF CallRecord, PC
  <1>3. /\ f.pc = "acquire" /\ f.plan = o.plan /\ f.n = o.n /\ f.via = o.via /\ f.key = k
        /\ f.answer = "none" /\ f.recover = FALSE
    BY <1>1 DEF CallRecord
  <1>4. /\ r.pc = "acquire" /\ r.plan = o.plan /\ r.n = o.n /\ r.via = o.via /\ r.key = k
        /\ r.answer = "none" /\ r.recover = TRUE
    BY <1>1 DEF CallRecord
  <1>5. f \in ShapedCall
    BY <1>1, <1>2, <1>3 DEF ShapedCall, Working, Keyed
  <1>6. StepsOf[o.plan][o.n] \in Writes => r \in ShapedCall
    BY <1>1, <1>2, <1>4 DEF ShapedCall, Working, Keyed
  <1>7. QED
    BY <1>5, <1>6

\* The steps of an executor that keep its step and its key.
LEMMA GotoFacts ==
    ASSUME NEW o \in ShapedCall, o.pc \in Keyed, NEW pc \in Keyed, o.answer = "none" \/ pc = "settle",
           pc = "prepare" => StepsOf[o.plan][o.n] \in Writes
    PROVE  [o EXCEPT !.pc = pc] \in ShapedCall
  <1>1. [o EXCEPT !.pc = pc] \in CallRecord
    BY DEF ShapedCall, CallRecord, PC, Keyed
  <1>2. QED
    BY <1>1 DEF ShapedCall, CallRecord, Working, Keyed

LEMMA ReplyFacts ==
    ASSUME NEW o \in ShapedCall, o.pc \in Keyed, NEW pc \in {"release", "settle"},
           NEW answer \in {"ok", "error", "refused", "raised", "committed"}
    PROVE  [o EXCEPT !.pc = pc, !.answer = answer] \in ShapedCall
  <1>1. [o EXCEPT !.pc = pc, !.answer = answer] \in CallRecord
    BY DEF ShapedCall, CallRecord, PC, Keyed
  <1>2. QED
    BY <1>1 DEF ShapedCall, CallRecord, Working, Keyed

-----------------------------------------------------------------------------
(* What a step makes of a plan's steps *)

\* A step is done only on the strength of a committed record, a committed outcome, or
\* a receipt.
Witnessed(t) ==
    \/ op[t].answer \in {"ok", "committed"}
    \/ op[t].pc \in Keyed /\ op[t].key \in DOMAIN outcomes[op[t].via] /\ OutcomeOf(t) = "COMMITTED"
    \/ op[t].pc \in Keyed /\ Operation(t) \in DOMAIN ledger /\ ledger[Operation(t)] = "COMMITTED"
    \/ op[t].pc = "lookup" /\ \E k \in Unresolved(t) :
          <<op[t].via, k>> \in DOMAIN ledger /\ ledger[<<op[t].via, k>>] = "COMMITTED"

Marks(t) ==
    /\ TypedSteps'
    /\ \A p \in Plan : \A n \in DOMAIN StepsOf[p] :
          steps'[p][n].status = "done" =>
             \/ steps[p][n].status = "done"
             \/ p = op[t].plan /\ n = op[t].n /\ op[t].pc \in Working /\ Witnessed(t)

LEMMA SameSteps ==
    ASSUME TypedSteps, UNCHANGED steps, NEW t
    PROVE  Marks(t)
  BY DEF TypedSteps, Marks

LEMMA StatusFacts ==
    ASSUME TypedSteps, NEW p \in Plan, NEW n \in DOMAIN StepsOf[p], NEW s \in StepStatus, NEW a \in Nat
    PROVE  /\ steps' = [steps EXCEPT ![p][n].status = s] =>
                 /\ TypedSteps'
                 /\ \A q \in Plan : \A m \in DOMAIN StepsOf[q] :
                       steps'[q][m].status = IF q = p /\ m = n THEN s ELSE steps[q][m].status
           /\ steps' = [steps EXCEPT ![p][n].attempt = a] =>
                 /\ TypedSteps'
                 /\ \A q \in Plan : \A m \in DOMAIN StepsOf[q] :
                       steps'[q][m].status = steps[q][m].status
  <1>0. DOMAIN steps = Plan /\ steps[p] \in [DOMAIN StepsOf[p] -> StepRecord]
    BY DEF TypedSteps
  <1>1. [steps[p][n] EXCEPT !.status = s] \in StepRecord /\ [steps[p][n] EXCEPT !.attempt = a] \in StepRecord
    BY <1>0 DEF StepRecord
  <1>2. ASSUME NEW r \in StepRecord, steps' = [steps EXCEPT ![p][n] = r]
        PROVE  /\ TypedSteps'
               /\ \A q \in Plan : \A m \in DOMAIN StepsOf[q] :
                     steps'[q][m] = IF q = p /\ m = n THEN r ELSE steps[q][m]
    <2>1. steps'[p] = [steps[p] EXCEPT ![n] = r] /\ \A q \in Plan \ {p} : steps'[q] = steps[q]
      BY <1>0, <1>2
    <2>2. steps'[p] \in [DOMAIN StepsOf[p] -> StepRecord]
      BY <1>0, <2>1
    <2>3. steps' = [q \in Plan |-> steps'[q]]
      BY <1>0, <1>2
    <2>4. TypedSteps'
      BY <2>1, <2>2, <2>3 DEF TypedSteps
    <2>5. QED
      BY <1>0, <2>1, <2>4 DEF TypedSteps
  <1>3. ASSUME steps' = [steps EXCEPT ![p][n].status = s]
        PROVE  /\ TypedSteps'
               /\ \A q \in Plan : \A m \in DOMAIN StepsOf[q] :
                     steps'[q][m].status = IF q = p /\ m = n THEN s ELSE steps[q][m].status
    <2>1. steps' = [steps EXCEPT ![p][n] = [steps[p][n] EXCEPT !.status = s]]
      BY <1>3
    <2>2. [steps[p][n] EXCEPT !.status = s].status = s
      BY <1>0 DEF StepRecord
    <2>3. /\ TypedSteps'
          /\ \A q \in Plan : \A m \in DOMAIN StepsOf[q] :
                steps'[q][m] = IF q = p /\ m = n THEN [steps[p][n] EXCEPT !.status = s] ELSE steps[q][m]
      BY <1>1, <1>2, <2>1
    <2>4. QED
      BY <2>2, <2>3
  <1>4. ASSUME steps' = [steps EXCEPT ![p][n].attempt = a]
        PROVE  /\ TypedSteps'
               /\ \A q \in Plan : \A m \in DOMAIN StepsOf[q] : steps'[q][m].status = steps[q][m].status
    <2>1. steps' = [steps EXCEPT ![p][n] = [steps[p][n] EXCEPT !.attempt = a]]
      BY <1>4
    <2>2. [steps[p][n] EXCEPT !.attempt = a].status = steps[p][n].status
      BY <1>0 DEF StepRecord
    <2>3. /\ TypedSteps'
          /\ \A q \in Plan : \A m \in DOMAIN StepsOf[q] :
                steps'[q][m] = IF q = p /\ m = n THEN [steps[p][n] EXCEPT !.attempt = a] ELSE steps[q][m]
      BY <1>1, <1>2, <2>1
    <2>4. QED
      BY <2>2, <2>3
  <1>5. QED
    BY <1>3, <1>4

LEMMA RetryFacts ==
    ASSUME TypedSteps, NEW p \in Plan, Retry(p)
    PROVE  /\ TypedSteps'
           /\ \A q \in Plan : \A n \in DOMAIN StepsOf[q] :
                 steps'[q][n].status = "done" => steps[q][n].status = "done"
  <1>1. steps[p] \in [DOMAIN StepsOf[p] -> StepRecord] /\ DOMAIN steps = Plan
    BY DEF TypedSteps
  <1> DEFINE Reset(n) == IF steps[p][n].status \in {"failed", "blocked"}
                         THEN [steps[p][n] EXCEPT !.status = "pending"] ELSE steps[p][n]
             reset == [n \in DOMAIN StepsOf[p] |-> Reset(n)]
  <1>2. steps' = [steps EXCEPT ![p] = reset]
    BY <1>1 DEF Retry
  <1>3. ASSUME NEW n \in DOMAIN StepsOf[p]
        PROVE  Reset(n) \in StepRecord /\ (Reset(n).status = "done" => steps[p][n].status = "done")
    <2>1. steps[p][n] \in StepRecord
      BY <1>1
    <2>2. [steps[p][n] EXCEPT !.status = "pending"] \in StepRecord
          /\ [steps[p][n] EXCEPT !.status = "pending"].status = "pending"
      BY <2>1 DEF StepRecord, StepStatus
    <2>3. QED
      BY <2>1, <2>2
  <1>4. steps'[p] \in [DOMAIN StepsOf[p] -> StepRecord]
        /\ \A n \in DOMAIN StepsOf[p] : steps'[p][n].status = "done" => steps[p][n].status = "done"
    <2>1. steps'[p] = reset
      BY <1>1, <1>2
    <2>2. reset \in [DOMAIN StepsOf[p] -> StepRecord] /\ \A n \in DOMAIN StepsOf[p] : reset[n] = Reset(n)
      BY <1>3
    <2>3. QED
      BY <1>3, <2>1, <2>2
  <1>5. \A q \in Plan \ {p} : steps'[q] = steps[q]
    BY <1>1, <1>2
  <1>6. TypedSteps'
    <2>1. steps' = [q \in Plan |-> steps'[q]]
      BY <1>1, <1>2
    <2>2. QED
      BY <1>4, <1>5, <2>1 DEF TypedSteps
  <1>7. QED
    BY <1>4, <1>5, <1>6

LEMMA FreshSteps ==
    ASSUME NEW q, q = [p \in Plan |-> [n \in DOMAIN StepsOf[p] |-> [status |-> "pending", attempt |-> 0]]]
    PROVE  /\ q = [p \in Plan |-> q[p]]
           /\ \A p \in Plan : q[p] \in [DOMAIN StepsOf[p] -> StepRecord]
           /\ \A p \in Plan : \A n \in DOMAIN StepsOf[p] : q[p][n].status = "pending"
  BY DEF StepRecord, StepStatus

-----------------------------------------------------------------------------
(* What a step of an executor makes of its call *)

Attempting == {"prepare", "dispatch", "effect", "release", "settle"}
Receipts == {"ok", "error", "raised", "committed"}

\* A new attempt is recorded and charged.
Reserves(t) ==
    /\ op[t].key \notin DOMAIN outcomes[op[t].via]
    /\ MayReserve(t)
    /\ outcomes' = [outcomes EXCEPT ![op[t].via] = Put(@, op[t].key, "PENDING")]
    /\ consumed' = [consumed EXCEPT ![op[t].via] = @ + 1]

\* An attempt is made under the key its thread took, after a reservation or for the sake
\* of an unfinished write; it takes effect only if it was declared, and what it answers
\* comes from its effect.
Follows(t, o) ==
    /\ o.plan = op[t].plan
    /\ op[t].pc \notin {"idle", "enter"} /\ o.pc \notin {"idle", "enter"}
    /\ o.pc \in Attempting =>
          op[t].pc \in Attempting \cup {"begin"} /\ o.via = op[t].via /\ o.key = op[t].key
    /\ o.pc \in {"prepare", "dispatch"} => op[t].pc \in {"begin", "prepare"}
    /\ op[t].pc = "begin" /\ o.pc \in Attempting => op[t].recover \/ Reserves(t)
    /\ o.pc = "effect" => op[t].pc = "dispatch" /\ Declared(t)
    /\ o.answer \in Receipts => op[t].pc = "effect" \/ op[t].answer \in Receipts
    /\ o.answer \in {"ok", "committed"} => op[t].answer \in {"ok", "committed"} \/ Operation(t) \in ran'
Works(t) == \E o \in ShapedCall : op' = [op EXCEPT ![t] = o] /\ Follows(t, o)

LEMMA AnswerSteps ==
    ASSUME Typed, NEW t \in Thread, op[t].pc \in Working \cup {"step"}, op[t].n \in DOMAIN StepsOf[op[t].plan],
           NEW status \in {"done", "failed", "blocked"}, Answer(t, status),
           status = "done" => op[t].pc \in Working /\ Witnessed(t)
    PROVE  Works(t) /\ Marks(t)
  <1>1. op[t] \in ShapedCall /\ op[t].plan \in Plan
    BY DEF Typed, ShapedCall, Working, Keyed
  <1>2. op' = [op EXCEPT ![t] = Answered(op[t], status)]
    BY DEF Answer, Answered
  <1>3. steps' = [steps EXCEPT ![op[t].plan][op[t].n].status = status]
    BY DEF Answer
  <1>4. Marks(t)
    <2>1. TypedSteps /\ status \in StepStatus /\ 0 \in Nat
      BY DEF Typed, StepStatus
    <2>2. /\ TypedSteps'
          /\ \A q \in Plan : \A m \in DOMAIN StepsOf[q] :
                steps'[q][m].status = IF q = op[t].plan /\ m = op[t].n THEN status ELSE steps[q][m].status
      BY <1>1, <1>3, <2>1, StatusFacts
    <2>3. QED
      BY <2>2 DEF Marks
  <1>5. Follows(t, Answered(op[t], status))
    BY <1>1, AnsweredFacts DEF Follows, Working, Keyed, Attempting, Receipts
  <1>6. QED
    BY <1>1, <1>2, <1>4, <1>5, AnsweredFacts DEF Works

\* The executor goes on to its next step under the same key.
LEMMA GotoSteps ==
    ASSUME Typed, NEW t \in Thread, op[t].pc \in Keyed, NEW pc \in Keyed, Goto(t, pc),
           op[t].pc \in Attempting \/ op[t].answer = "none",
           op[t].answer = "none" \/ pc = "settle",
           pc = "prepare" => Recoverable(t),
           pc \in Attempting => op[t].pc \in Attempting \cup {"begin"},
           pc \in {"prepare", "dispatch"} => op[t].pc \in {"begin", "prepare"},
           op[t].pc = "begin" /\ pc \in Attempting => op[t].recover \/ Reserves(t),
           pc = "effect" => op[t].pc = "dispatch" /\ Declared(t)
    PROVE  Works(t)
  <1> DEFINE o == [op[t] EXCEPT !.pc = pc]
  <1>1. op[t] \in ShapedCall
    BY DEF Typed
  <1>2. op' = [op EXCEPT ![t] = o] /\ o \in ShapedCall
    BY <1>1, GotoFacts DEF Goto, Recoverable, Def
  <1>3. o.pc = pc /\ o.plan = op[t].plan /\ o.via = op[t].via /\ o.key = op[t].key /\ o.answer = op[t].answer
    BY <1>1 DEF ShapedCall, CallRecord
  <1>4. Follows(t, o)
    BY <1>3 DEF Follows, Keyed, Attempting, Receipts
  <1>5. QED
    BY <1>2, <1>4 DEF Works

LEMMA ReplySteps ==
    ASSUME Typed, NEW t \in Thread, op[t].pc \in {"dispatch", "effect", "settle"},
           NEW pc \in {"release", "settle"}, NEW answer \in {"ok", "error", "refused", "raised", "committed"},
           op' = [op EXCEPT ![t] = [@ EXCEPT !.pc = pc, !.answer = answer]],
           answer \in Receipts => op[t].pc = "effect" \/ op[t].answer \in Receipts,
           answer \in {"ok", "committed"} => op[t].answer \in {"ok", "committed"} \/ Operation(t) \in ran'
    PROVE  Works(t)
  <1> DEFINE o == [op[t] EXCEPT !.pc = pc, !.answer = answer]
  <1>1. op[t] \in ShapedCall
    BY DEF Typed
  <1>2. op' = [op EXCEPT ![t] = o] /\ o \in ShapedCall
    BY <1>1, ReplyFacts DEF Keyed
  <1>3. o.pc = pc /\ o.plan = op[t].plan /\ o.via = op[t].via /\ o.key = op[t].key /\ o.answer = answer
    BY <1>1 DEF ShapedCall, CallRecord
  <1>4. Follows(t, o)
    BY <1>3 DEF Follows, Attempting
  <1>5. QED
    BY <1>2, <1>4 DEF Works

\* The steps of a thread that has entered its plan and does not leave it.
Work(t) ==
    \/ EndOfLoop(t) \/ SkipDone(t) \/ CallExecutor(t)
    \/ LookupFresh(t) \/ LookupUnresolved(t) \/ Acquire(t)
    \/ Resume(t) \/ BeginAttempt(t) \/ BeginRefused(t) \/ Prepare(t)
    \/ Dispatch(t) \/ DispatchRefused(t) \/ Effect(t) \/ Release(t)
    \/ SettleWrite(t) \/ Settle(t)

LEMMA NextCases ==
    ASSUME Next
    PROVE  \/ \E t \in Thread : Work(t) \/ Enter(t) \/ Finish(t) \/ \E p \in Plan : Start(t, p)
           \/ \E p \in Plan : Retry(p)
           \/ \E r \in Resource : Lapse(r)
           \/ Cancel
           \/ Crash
  BY DEF Next, Run, Work

\* What the shape of a call says at each place.
LEMMA CallFacts ==
    ASSUME Typed, NEW t \in Thread
    PROVE  /\ op[t].pc \in PC
           /\ op[t].n \in Nat
           /\ op[t].pc # "idle" => op[t].plan \in Plan
           /\ op[t].pc = "step" => op[t].n > 0
           /\ op[t].pc \in Working => op[t].via \in Plan /\ op[t].n \in DOMAIN StepsOf[op[t].plan]
           /\ op[t].pc \in Keyed =>
                 /\ op[t].key \in Key /\ op[t].key.n = op[t].n /\ op[t].key.d = Def(t)
                 /\ Operation(t) \in Plan \X Key
           /\ op[t].pc = "prepare" \/ op[t].recover => Recoverable(t)
           /\ op[t].answer # "none" => op[t].pc \in {"release", "settle"}
  BY DEF Typed, ShapedCall, CallRecord, Def, Recoverable, Operation, Working

LEMMA WorkSteps ==
    ASSUME Typed, NEW t \in Thread, Work(t)
    PROVE  Works(t) /\ Marks(t)
  <1> DEFINE Done == Works(t) /\ Marks(t)
  <1>0. TypedSteps /\ op[t] \in ShapedCall
    BY DEF Typed
  <1>s. UNCHANGED steps => Marks(t)
    BY <1>0, SameSteps
  <1>1. CASE EndOfLoop(t)
    <2>1. /\ op' = [op EXCEPT ![t] = [op[t] EXCEPT !.pc = "finish"]]
          /\ op[t].pc = "step" /\ UNCHANGED steps
      BY <1>1 DEF EndOfLoop, At, Goto, volatile
    <2>2. Follows(t, [op[t] EXCEPT !.pc = "finish"])
      BY <1>0, <2>1 DEF Follows, ShapedCall, CallRecord, Attempting, Receipts
    <2>3. QED
      BY <1>0, <1>s, <2>1, <2>2, LoopFacts DEF Works
  <1>2. CASE SkipDone(t)
    <2>1. /\ op' = [op EXCEPT ![t] = [op[t] EXCEPT !.n = @ + 1]]
          /\ op[t].pc = "step" /\ UNCHANGED steps
      BY <1>2 DEF SkipDone, At, volatile
    <2>2. Follows(t, [op[t] EXCEPT !.n = @ + 1])
      BY <1>0, <2>1 DEF Follows, ShapedCall, CallRecord, Attempting, Receipts
    <2>3. QED
      BY <1>0, <1>s, <2>1, <2>2, LoopFacts DEF Works
  <1>3. CASE CallExecutor(t)
    <2>0. op[t].pc = "step" /\ op[t].n <= Len(StepsOf[op[t].plan])
      BY <1>3 DEF CallExecutor, At
    <2>1. op[t].plan \in Plan /\ op[t].n \in DOMAIN StepsOf[op[t].plan]
      BY <2>0, CallFacts, StepFacts
    <2>2. CASE Answer(t, "blocked")
      BY <2>0, <2>1, <2>2, AnswerSteps
    <2>3. CASE /\ executor # None
               /\ steps' = [steps EXCEPT ![op[t].plan][op[t].n].status = "running"]
               /\ op' = [op EXCEPT ![t] = [@ EXCEPT !.pc = "lookup", !.via = executor]]
      <3> DEFINE o == [op[t] EXCEPT !.pc = "lookup", !.via = executor]
      <3>1. executor \in Plan
        BY <2>3 DEF Typed
      <3>2. o \in ShapedCall /\ op' = [op EXCEPT ![t] = o]
        BY <1>0, <2>0, <2>3, <3>1, LoopFacts
      <3>3. Follows(t, o)
        BY <1>0, <2>0 DEF Follows, ShapedCall, CallRecord, Attempting, Receipts
      <3>4. Marks(t)
        <4>1. "running" \in StepStatus /\ 0 \in Nat
          BY DEF StepStatus
        <4>2. /\ TypedSteps'
              /\ \A q \in Plan : \A m \in DOMAIN StepsOf[q] :
                    steps'[q][m].status = IF q = op[t].plan /\ m = op[t].n THEN "running" ELSE steps[q][m].status
          BY <1>0, <2>1, <2>3, <4>1, StatusFacts
        <4>3. QED
          BY <4>2 DEF Marks
      <3>5. QED
        BY <3>2, <3>3, <3>4 DEF Works
    <2>4. QED
      BY <1>3, <2>2, <2>3 DEF CallExecutor
  <1>4. CASE LookupFresh(t)
    <2> DEFINE k == [n |-> op[t].n, a |-> Step(t).attempt + 1, d |-> Def(t)]
               o == [op[t] EXCEPT !.pc = "acquire", !.key = k]
    <2>1. op[t].pc = "lookup" /\ op' = [op EXCEPT ![t] = o] /\ UNCHANGED steps
      BY <1>4 DEF LookupFresh, At, volatile
    <2>2. op[t].plan \in Plan /\ op[t].n \in DOMAIN StepsOf[op[t].plan]
      BY <2>1, CallFacts DEF Working
    <2>3. k \in Key /\ k.n = op[t].n /\ k.d = StepsOf[op[t].plan][op[t].n]
      <3>1. Step(t).attempt \in Nat
        BY <1>0, <2>2 DEF Step, TypedSteps, StepRecord
      <3>2. op[t].n \in StepNo /\ Def(t) \in Definition
        BY <2>2, StepFacts DEF Def
      <3>3. QED
        BY <3>1, <3>2 DEF Key, Def
    <2>4. o \in ShapedCall
      BY <1>0, <2>1, <2>3, LookupFacts
    <2>5. Follows(t, o)
      BY <1>0, <2>1 DEF Follows, ShapedCall, CallRecord, Attempting, Receipts
    <2>6. QED
      BY <1>s, <2>1, <2>4, <2>5 DEF Works
  <1>5. CASE LookupUnresolved(t)
    <2>0. op[t].pc = "lookup" /\ Recoverable(t)
      BY <1>5 DEF LookupUnresolved, At
    <2>1. op[t].via \in Plan /\ op[t].plan \in Plan /\ op[t].n \in DOMAIN StepsOf[op[t].plan]
      BY <2>0, CallFacts DEF Working
    <2>2. PICK k \in Unresolved(t) :
             LET o == <<op[t].via, k>>
             IN  \/ /\ op' = [op EXCEPT ![t] = [@ EXCEPT !.pc = "acquire", !.key = k, !.recover = TRUE]]
                    /\ UNCHANGED steps
                 \/ /\ o \in DOMAIN ledger
                    /\ ledger[o] = "COMMITTED"
                    /\ Answer(t, "done")
                 \/ \E s \in {"blocked", "failed"} : Answer(t, s)
      BY <1>5 DEF LookupUnresolved
    <2>3. k \in Key /\ k.n = op[t].n /\ k.d = StepsOf[op[t].plan][op[t].n]
      <3>1. outcomes[op[t].via] \in OutcomeTable
        BY <2>1 DEF Typed
      <3>2. QED
        BY <3>1, TableFacts DEF Unresolved, Def
    <2>4. ASSUME op' = [op EXCEPT ![t] = [@ EXCEPT !.pc = "acquire", !.key = k, !.recover = TRUE]], UNCHANGED steps
          PROVE  Done
      <3> DEFINE o == [op[t] EXCEPT !.pc = "acquire", !.key = k, !.recover = TRUE]
      <3>1. o \in ShapedCall /\ op' = [op EXCEPT ![t] = o]
        BY <1>0, <2>0, <2>3, <2>4, LookupFacts DEF Recoverable, Def
      <3>2. Follows(t, o)
        BY <1>0, <2>0 DEF Follows, ShapedCall, CallRecord, Attempting, Receipts
      <3>3. QED
        BY <1>s, <2>4, <3>1, <3>2 DEF Works
    <2>5. ASSUME <<op[t].via, k>> \in DOMAIN ledger, ledger[<<op[t].via, k>>] = "COMMITTED", Answer(t, "done")
          PROVE  Done
      <3>1. op[t].pc \in Working /\ Witnessed(t)
        BY <2>0, <2>5 DEF Witnessed, Working
      <3>2. QED
        BY <2>1, <2>5, <3>1, AnswerSteps
    <2>6. ASSUME NEW s \in {"blocked", "failed"}, Answer(t, s) PROVE Done
      BY <2>0, <2>1, <2>6, AnswerSteps DEF Working
    <2>7. QED
      BY <2>2, <2>4, <2>5, <2>6
  <1>r. ASSUME op[t].pc = "begin", Refuse(t) PROVE Done
    <2>1. op[t].n \in DOMAIN StepsOf[op[t].plan] /\ op[t].pc \in Working
      BY <1>r, CallFacts DEF Working, Keyed
    <2>2. QED
      BY <1>r, <2>1, AnswerSteps DEF Refuse
  <1>6. CASE Acquire(t)
    <2>1. op[t].pc = "acquire" /\ op[t].pc \in Keyed /\ op[t].pc \in Working /\ op[t].answer = "none"
          /\ op[t].n \in DOMAIN StepsOf[op[t].plan]
      BY <1>6, CallFacts DEF Acquire, At, Working, Keyed
    <2>2. ASSUME Goto(t, "begin"), UNCHANGED steps PROVE Done
      BY <1>s, <2>1, <2>2, GotoSteps DEF Keyed, Attempting
    <2>3. ASSUME NEW s \in {"blocked", "failed"}, Answer(t, s) PROVE Done
      BY <2>1, <2>3, AnswerSteps
    <2>4. QED
      BY <1>6, <2>2, <2>3 DEF Acquire
  <1>7. CASE Resume(t)
    <2>1. op[t].pc = "begin" /\ op[t].recover /\ op[t].pc \in Keyed /\ op[t].answer = "none" /\ Recoverable(t)
      BY <1>7, CallFacts DEF Resume, At, Keyed
    <2>2. ASSUME Goto(t, "prepare"), UNCHANGED steps PROVE Done
      BY <1>s, <2>1, <2>2, GotoSteps DEF Keyed, Attempting
    <2>3. QED
      BY <1>7, <1>r, <2>1, <2>2 DEF Resume
  <1>8. CASE BeginAttempt(t)
    <2>1. /\ op[t].pc = "begin" /\ op[t].pc \in Keyed /\ op[t].answer = "none" /\ Reserves(t)
          /\ steps' = [steps EXCEPT ![op[t].plan][op[t].n].attempt = op[t].key.a]
      BY <1>8, CallFacts DEF BeginAttempt, At, Keyed, Reserves
    <2>2. ASSUME Recoverable(t) PROVE Works(t)
      <3>1. Goto(t, "prepare")
        BY <1>8, <2>2 DEF BeginAttempt
      <3>2. QED
        BY <2>1, <2>2, <3>1, GotoSteps DEF Keyed, Attempting
    <2>3. ASSUME ~Recoverable(t) PROVE Works(t)
      <3>1. Goto(t, "dispatch")
        BY <1>8, <2>3 DEF BeginAttempt
      <3>2. QED
        BY <2>1, <3>1, GotoSteps DEF Keyed, Attempting
    <2>4. Marks(t)
      <3>1. op[t].plan \in Plan /\ op[t].n \in DOMAIN StepsOf[op[t].plan] /\ op[t].key.a \in Nat
        BY <2>1, CallFacts DEF Keyed, Working, Key
      <3>2. "done" \in StepStatus
        BY DEF StepStatus
      <3>3. /\ TypedSteps'
            /\ \A q \in Plan : \A m \in DOMAIN StepsOf[q] : steps'[q][m].status = steps[q][m].status
        BY <1>0, <2>1, <3>1, <3>2, StatusFacts
      <3>4. QED
        BY <3>3 DEF Marks
    <2>5. Works(t)
      BY <2>2, <2>3
    <2>6. QED
      BY <2>4, <2>5
  <1>9. CASE BeginRefused(t)
    <2>1. op[t].pc = "begin" /\ op[t].pc \in Keyed /\ op[t].pc \in Working /\ op[t].n \in DOMAIN StepsOf[op[t].plan]
      BY <1>9, CallFacts DEF BeginRefused, At, Keyed, Working
    <2>2. ASSUME op[t].key \in DOMAIN outcomes[op[t].via], Answer(t, Replayed(t)) PROVE Done
      <3>1. Replayed(t) \in {"done", "failed"} /\ (Replayed(t) = "done" => Witnessed(t))
        BY <2>1, <2>2 DEF Replayed, Witnessed
      <3>2. QED
        BY <2>1, <2>2, <3>1, AnswerSteps
    <2>3. CASE Answer(t, "failed") /\ UNCHANGED claim
      BY <1>r, <2>1, <2>3 DEF Refuse
    <2>4. QED
      BY <1>9, <1>r, <2>1, <2>2, <2>3 DEF BeginRefused
  <1>10. CASE Prepare(t)
    <2>1. /\ op[t].pc = "prepare" /\ op[t].pc \in Keyed /\ op[t].pc \in Working /\ op[t].answer = "none"
          /\ op[t].n \in DOMAIN StepsOf[op[t].plan] /\ Recoverable(t)
      BY <1>10, CallFacts DEF Prepare, At, Keyed, Working
    <2>2. ASSUME Goto(t, "dispatch"), UNCHANGED steps PROVE Done
      BY <1>s, <2>1, <2>2, GotoSteps DEF Keyed, Attempting
    <2>3. ASSUME Operation(t) \in DOMAIN ledger, ledger[Operation(t)] = "COMMITTED", Answer(t, "done") PROVE Done
      <3>1. Witnessed(t)
        BY <2>1, <2>3 DEF Witnessed
      <3>2. QED
        BY <2>1, <2>3, <3>1, AnswerSteps
    <2>4. ASSUME NEW s \in {"blocked", "failed"}, Answer(t, s) PROVE Done
      BY <2>1, <2>4, AnswerSteps
    <2>5. QED
      BY <1>10, <2>2, <2>3, <2>4 DEF Prepare, Refuse
  <1>11. CASE Dispatch(t)
    <2>1. /\ op[t].pc = "dispatch" /\ op[t].pc \in Keyed /\ op[t].answer = "none"
          /\ Declared(t) /\ Goto(t, "effect") /\ UNCHANGED steps
      BY <1>11, CallFacts DEF Dispatch, At, Keyed, volatile
    <2>2. QED
      BY <1>s, <2>1, GotoSteps DEF Keyed, Attempting
  <1>12. CASE DispatchRefused(t)
    <2>1. /\ op[t].pc = "dispatch" /\ UNCHANGED steps
          /\ op' = [op EXCEPT ![t] = [@ EXCEPT !.pc = "release", !.answer = "refused"]]
      BY <1>12 DEF DispatchRefused, At, volatile
    <2>2. QED
      BY <1>s, <2>1, ReplySteps DEF Receipts
  <1>13. CASE Effect(t)
    <2>1. op[t].pc = "effect" /\ UNCHANGED steps
      BY <1>13 DEF Effect, At, volatile
    <2>2. PICK answer \in {"ok", "error", "refused", "raised"} :
             /\ op' = [op EXCEPT ![t] = [@ EXCEPT !.pc = "release", !.answer = answer]]
             /\ answer = "ok" => ran' = ran \cup {Operation(t)}
      BY <1>13 DEF Effect
    <2>3. Works(t)
      BY <2>1, <2>2, ReplySteps
    <2>4. QED
      BY <1>s, <2>1, <2>3
  <1>14. CASE Release(t)
    <2>1. op[t].pc = "release" /\ op[t].pc \in Keyed /\ op[t].pc \in Working /\ op[t].n \in DOMAIN StepsOf[op[t].plan]
      BY <1>14, CallFacts DEF Release, At, Keyed, Working
    <2>2. ASSUME Goto(t, "settle"), UNCHANGED steps PROVE Done
      BY <1>s, <2>1, <2>2, GotoSteps DEF Keyed, Attempting
    <2>3. ASSUME Answer(t, "failed") PROVE Done
      BY <2>1, <2>3, AnswerSteps
    <2>4. QED
      BY <1>14, <2>2, <2>3 DEF Release
  <1>15. CASE SettleWrite(t)
    <2>1. /\ op[t].pc = "settle" /\ op[t].pc \in Working /\ op[t].n \in DOMAIN StepsOf[op[t].plan]
          /\ op[t].answer = "ok"
      BY <1>15, CallFacts DEF SettleWrite, At, Keyed, Working
    <2>2. ASSUME op' = [op EXCEPT ![t].answer = "committed"], UNCHANGED steps PROVE Done
      <3>0. [op[t] EXCEPT !.answer = "committed"] = [op[t] EXCEPT !.pc = "settle", !.answer = "committed"]
        BY <1>0, <2>1 DEF ShapedCall, CallRecord
      <3>1. op' = [op EXCEPT ![t] = [@ EXCEPT !.pc = "settle", !.answer = "committed"]]
        BY <2>2, <3>0
      <3>2. Works(t)
        BY <2>1, <3>1, ReplySteps DEF Receipts
      <3>3. QED
        BY <1>s, <2>2, <3>2
    <2>3. ASSUME Answer(t, "blocked") PROVE Done
      BY <2>1, <2>3, AnswerSteps
    <2>4. QED
      BY <1>15, <2>2, <2>3 DEF SettleWrite
  <1>16. CASE Settle(t)
    <2>1. op[t].pc = "settle" /\ op[t].pc \in Working /\ op[t].n \in DOMAIN StepsOf[op[t].plan]
      BY <1>16, CallFacts DEF Settle, At, Keyed, Working
    <2>2. ASSUME NEW s \in {"blocked", "failed"}, Answer(t, s) PROVE Done
      BY <2>1, <2>2, AnswerSteps
    <2>3. ASSUME op[t].answer \in {"ok", "committed"}, Answer(t, "done") PROVE Done
      <3>1. Witnessed(t)
        BY <2>3 DEF Witnessed
      <3>2. QED
        BY <2>1, <2>3, <3>1, AnswerSteps
    <2>4. QED
      BY <1>16, <2>2, <2>3 DEF Settle
  <1>17. QED
    BY <1>1, <1>2, <1>3, <1>4, <1>5, <1>6, <1>7, <1>8, <1>9, <1>10, <1>11, <1>12, <1>13,
       <1>14, <1>15, <1>16 DEF Work

-----------------------------------------------------------------------------
(* What a step of an executor makes of the records *)

\* An outcome is set: committed on the word of the ledger or of a receipt, unknown
\* only when a dispatched effect is settled.
Records(v, k, s) ==
    /\ outcomes' = [outcomes EXCEPT ![v][k] = s]
    /\ s = "COMMITTED" =>
          \/ <<v, k>> \in DOMAIN ledger /\ ledger[<<v, k>>] = "COMMITTED"
          \/ \E t \in Thread : op[t].answer \in {"ok", "committed"} /\ Operation(t) = <<v, k>>
    /\ s = "OUTCOME_UNKNOWN" =>
          \E t \in Thread : op[t].pc = "settle" /\ op[t].answer \in {"ok", "raised"} /\ Operation(t) = <<v, k>>

Keeps(t) ==
    /\ \/ UNCHANGED <<outcomes, consumed>>
       \/ op[t].pc = "begin" /\ Reserves(t)
       \/ \E v \in Plan, k \in Key, s \in Outcome : Records(v, k, s) /\ UNCHANGED consumed
    /\ \/ UNCHANGED ledger
       \/ op[t].pc \in Keyed /\ ledger' = Put(ledger, Operation(t), "PENDING")
       \/ op[t].answer = "ok" /\ ledger' = [ledger EXCEPT ![Operation(t)] = "COMMITTED"]
    /\ \/ UNCHANGED ran
       \/ op[t].pc = "effect" /\ ran' = ran \cup {Operation(t)}
    /\ claim' \in [Resource -> Thread \cup {None}]
    /\ up
    /\ UNCHANGED <<executor, current, execLock, permits, up>>

LEMMA KeepSteps ==
    ASSUME Typed, NEW t \in Thread, Work(t)
    PROVE  Keeps(t)
  <1>0. claim \in [Resource -> Thread \cup {None}]
    BY DEF Typed
  <1>1. claim' = Released(t) => claim' \in [Resource -> Thread \cup {None}]
    BY <1>0 DEF Released
  <1>2. CASE EndOfLoop(t) \/ SkipDone(t) \/ LookupFresh(t) \/ Dispatch(t) \/ DispatchRefused(t)
    BY <1>0, <1>2 DEF EndOfLoop, SkipDone, LookupFresh, Dispatch, DispatchRefused, At, volatile, Keeps
  <1>3. CASE CallExecutor(t)
    BY <1>0, <1>3 DEF CallExecutor, At, Keeps
  <1>4. CASE LookupUnresolved(t)
    <2>1. op[t].pc = "lookup" /\ up
      BY <1>4 DEF LookupUnresolved, At
    <2>2. PICK k \in Unresolved(t) :
             \/ UNCHANGED outcomes
             \/ /\ <<op[t].via, k>> \in DOMAIN ledger /\ ledger[<<op[t].via, k>>] = "COMMITTED"
                /\ outcomes' = [outcomes EXCEPT ![op[t].via][k] = "COMMITTED"]
      BY <1>4 DEF LookupUnresolved
    <2>3. op[t].via \in Plan /\ k \in Key /\ "COMMITTED" \in Outcome
      <3>1. op[t].via \in Plan
        BY <2>1, CallFacts DEF Working
      <3>2. outcomes[op[t].via] \in OutcomeTable
        BY <3>1 DEF Typed
      <3>3. QED
        BY <3>1, <3>2, TableFacts DEF Unresolved, Outcome
    <2>4. UNCHANGED <<consumed, executor, current, execLock, permits, claim, ledger, ran, up>>
      BY <1>4 DEF LookupUnresolved
    <2>5. UNCHANGED outcomes \/ \E v \in Plan, k2 \in Key, s \in Outcome : Records(v, k2, s)
      <3>1. ASSUME <<op[t].via, k>> \in DOMAIN ledger, ledger[<<op[t].via, k>>] = "COMMITTED",
                   outcomes' = [outcomes EXCEPT ![op[t].via][k] = "COMMITTED"]
            PROVE  Records(op[t].via, k, "COMMITTED")
        BY <3>1 DEF Records
      <3>2. QED
        BY <2>2, <2>3, <3>1
    <2>6. QED
      BY <1>0, <2>1, <2>4, <2>5 DEF Keeps
  <1>5. CASE Acquire(t)
    BY <1>0, <1>5 DEF Acquire, At, Keeps
  <1>6. CASE Resume(t)
    <2>1. op[t].pc = "begin" /\ up
      BY <1>6 DEF Resume, At
    <2>2. op[t].via \in Plan /\ op[t].key \in Key /\ "PENDING" \in Outcome
      BY <2>1, CallFacts DEF Keyed, Working, Outcome
    <2>3. SetOutcome(t, "PENDING") => Records(op[t].via, op[t].key, "PENDING")
      BY DEF SetOutcome, Records
    <2>4. UNCHANGED outcomes \/ \E v \in Plan, k \in Key, s \in Outcome : Records(v, k, s)
      BY <1>6, <2>2, <2>3 DEF Resume
    <2>5. claim' \in [Resource -> Thread \cup {None}]
      BY <1>0, <1>1, <1>6 DEF Resume, Refuse
    <2>6. UNCHANGED <<consumed, executor, current, execLock, permits, ledger, ran, up>>
      BY <1>6 DEF Resume
    <2>7. QED
      BY <2>1, <2>4, <2>5, <2>6 DEF Keeps
  <1>7. CASE BeginAttempt(t)
    BY <1>0, <1>7 DEF BeginAttempt, At, Reserves, Keeps
  <1>8. CASE BeginRefused(t)
    <2>1. claim' \in [Resource -> Thread \cup {None}]
      BY <1>0, <1>1, <1>8 DEF BeginRefused, Refuse
    <2>2. QED
      BY <1>8, <2>1 DEF BeginRefused, At, Keeps
  <1>9. CASE Prepare(t)
    <2>1. op[t].pc = "prepare" /\ up
      BY <1>9 DEF Prepare, At
    <2>2. op[t].via \in Plan /\ op[t].key \in Key /\ "COMMITTED" \in Outcome /\ op[t].pc \in Keyed
      BY <2>1, CallFacts DEF Keyed, Working, Outcome
    <2>3. \/ UNCHANGED outcomes
          \/ /\ Operation(t) \in DOMAIN ledger /\ ledger[Operation(t)] = "COMMITTED"
             /\ SetOutcome(t, "COMMITTED")
      BY <1>9 DEF Prepare
    <2>4. UNCHANGED outcomes \/ \E v \in Plan, k \in Key, s \in Outcome : Records(v, k, s)
      <3>1. ASSUME Operation(t) \in DOMAIN ledger, ledger[Operation(t)] = "COMMITTED", SetOutcome(t, "COMMITTED")
            PROVE  Records(op[t].via, op[t].key, "COMMITTED")
        BY <3>1 DEF Records, SetOutcome, Operation
      <3>2. QED
        BY <2>2, <2>3, <3>1
    <2>5. claim' \in [Resource -> Thread \cup {None}]
      BY <1>0, <1>1, <1>9 DEF Prepare, Refuse
    <2>6. UNCHANGED ledger \/ ledger' = Put(ledger, Operation(t), "PENDING")
      BY <1>9 DEF Prepare
    <2>7. UNCHANGED <<consumed, executor, current, execLock, permits, ran, up>>
      BY <1>9 DEF Prepare
    <2>8. QED
      BY <2>1, <2>2, <2>4, <2>5, <2>6, <2>7 DEF Keeps
  <1>10. CASE Effect(t)
    <2>1. op[t].pc = "effect" /\ up /\ (UNCHANGED ran \/ ran' = ran \cup {Operation(t)})
      BY <1>10 DEF Effect, At
    <2>2. UNCHANGED <<outcomes, consumed, executor, current, execLock, permits, claim, ledger, up>>
      BY <1>10 DEF Effect, volatile
    <2>3. QED
      BY <1>0, <2>1, <2>2 DEF Keeps
  <1>11. CASE Release(t)
    <2>1. claim' \in [Resource -> Thread \cup {None}]
      BY <1>0, <1>1, <1>11 DEF Release
    <2>2. QED
      BY <1>11, <2>1 DEF Release, At, Keeps
  <1>12. CASE SettleWrite(t)
    <2>1. op[t].pc = "settle" /\ op[t].answer = "ok" /\ up
      BY <1>12 DEF SettleWrite, At
    <2>2. op[t].via \in Plan /\ op[t].key \in Key /\ "OUTCOME_UNKNOWN" \in Outcome
      BY <2>1, CallFacts DEF Keyed, Working, Outcome
    <2>3. SetOutcome(t, "OUTCOME_UNKNOWN") => Records(op[t].via, op[t].key, "OUTCOME_UNKNOWN")
      BY <2>1 DEF SetOutcome, Records, Operation
    <2>4. UNCHANGED outcomes \/ \E v \in Plan, k \in Key, s \in Outcome : Records(v, k, s)
      BY <1>12, <2>2, <2>3 DEF SettleWrite
    <2>5. UNCHANGED ledger \/ ledger' = [ledger EXCEPT ![Operation(t)] = "COMMITTED"]
      BY <1>12 DEF SettleWrite
    <2>6. UNCHANGED <<consumed, executor, current, execLock, permits, claim, ran, up>>
      BY <1>12 DEF SettleWrite
    <2>7. QED
      BY <1>0, <2>1, <2>4, <2>5, <2>6 DEF Keeps
  <1>13. CASE Settle(t)
    <2>1. op[t].pc = "settle" /\ up
      BY <1>13 DEF Settle, At
    <2>2. op[t].via \in Plan /\ op[t].key \in Key
      BY <2>1, CallFacts DEF Keyed, Working
    <2>3. \E s \in Outcome : Records(op[t].via, op[t].key, s)
      <3>1. ASSUME op[t].answer \in {"ok", "committed"}, SetOutcome(t, "COMMITTED")
            PROVE  Records(op[t].via, op[t].key, "COMMITTED")
        BY <3>1 DEF Records, SetOutcome, Operation
      <3>2. ASSUME op[t].answer = "raised", SetOutcome(t, "OUTCOME_UNKNOWN")
            PROVE  Records(op[t].via, op[t].key, "OUTCOME_UNKNOWN")
        BY <2>1, <3>2 DEF Records, SetOutcome, Operation
      <3>3. ASSUME SetOutcome(t, "FAILED") PROVE Records(op[t].via, op[t].key, "FAILED")
        BY <3>3 DEF Records, SetOutcome
      <3>4. \/ op[t].answer \in {"ok", "committed"} /\ SetOutcome(t, "COMMITTED")
            \/ op[t].answer = "raised" /\ SetOutcome(t, "OUTCOME_UNKNOWN")
            \/ SetOutcome(t, "FAILED")
        BY <1>13 DEF Settle
      <3>5. QED
        BY <3>1, <3>2, <3>3, <3>4 DEF Outcome
    <2>4. UNCHANGED <<consumed, executor, current, execLock, permits, claim, ledger, ran, up>>
      BY <1>13 DEF Settle
    <2>5. QED
      BY <1>0, <2>1, <2>2, <2>3, <2>4 DEF Keeps
  <1>14. QED
    BY <1>2, <1>3, <1>4, <1>5, <1>6, <1>7, <1>8, <1>9, <1>10, <1>11, <1>12, <1>13 DEF Work

-----------------------------------------------------------------------------
(* Types *)

LEMMA TableSteps ==
    ASSUME Typed, NEW t \in Thread, Keeps(t)
    PROVE  /\ outcomes' \in [Plan -> OutcomeTable]
           /\ consumed' \in [Plan -> Nat]
           /\ ledger' \in LedgerTable
           /\ ran' \subseteq Plan \X Key
  <1>1. outcomes \in [Plan -> OutcomeTable] /\ consumed \in [Plan -> Nat] /\ ledger \in LedgerTable
        /\ ran \subseteq Plan \X Key
    BY DEF Typed
  <1>2. outcomes' \in [Plan -> OutcomeTable] /\ consumed' \in [Plan -> Nat]
    <2>1. ASSUME op[t].pc = "begin", Reserves(t)
          PROVE  outcomes' \in [Plan -> OutcomeTable] /\ consumed' \in [Plan -> Nat]
      <3>1. op[t].via \in Plan /\ op[t].key \in Key /\ "PENDING" \in Outcome
        BY <2>1, CallFacts DEF Working, Keyed, Outcome
      <3>2. Put(outcomes[op[t].via], op[t].key, "PENDING") \in OutcomeTable
        BY <1>1, <3>1, TableFacts
      <3>3. QED
        BY <1>1, <2>1, <3>1, <3>2 DEF Reserves
    <2>2. ASSUME NEW v \in Plan, NEW k \in Key, NEW s \in Outcome, Records(v, k, s)
          PROVE  outcomes' \in [Plan -> OutcomeTable]
      <3>1. [outcomes[v] EXCEPT ![k] = s] \in OutcomeTable
        BY <1>1, TableFacts
      <3>2. QED
        BY <1>1, <2>2, <3>1 DEF Records
    <2>3. QED
      BY <1>1, <2>1, <2>2 DEF Keeps
  <1>3. ledger' \in LedgerTable
    <2>1. op[t].pc \in Keyed => Put(ledger, Operation(t), "PENDING") \in LedgerTable
      BY <1>1, LedgerFacts, CallFacts
    <2>2. [ledger EXCEPT ![Operation(t)] = "COMMITTED"] \in LedgerTable
      BY <1>1, LedgerFacts
    <2>3. QED
      BY <1>1, <2>1, <2>2 DEF Keeps
  <1>4. ran' \subseteq Plan \X Key
    BY <1>1, CallFacts DEF Keeps, Keyed
  <1>5. QED
    BY <1>2, <1>3, <1>4

LEMMA TypedInit == Init => Typed
  <1> SUFFICES ASSUME Init PROVE Typed
    OBVIOUS
  <1>1. TypedSteps
    BY FreshSteps DEF Init, TypedSteps
  <1>2. << >> \in OutcomeTable /\ << >> \in LedgerTable
    <2>1. << >> \in [{} -> Outcome] /\ << >> \in [{} -> {"PENDING", "COMMITTED"}]
      OBVIOUS
    <2>2. QED
      BY <2>1 DEF OutcomeTable, LedgerTable
  <1>3. op \in [Thread -> ShapedCall]
    BY IdleFacts DEF Init
  <1>4. QED
    BY <1>1, <1>2, <1>3, PipelineAssumption DEF Init, Typed

LEMMA TypedStep ==
    ASSUME Typed, [Next]_vars
    PROVE  Typed'
  <1>0. TypedSteps /\ op \in [Thread -> ShapedCall]
    BY DEF Typed
  <1>1. ASSUME NEW t \in Thread, Work(t) PROVE Typed'
    <2>1. Works(t) /\ Marks(t) /\ Keeps(t)
      BY <1>1, WorkSteps, KeepSteps
    <2>2. op' \in [Thread -> ShapedCall]
      BY <1>0, <2>1 DEF Works
    <2>3. TypedSteps'
      BY <2>1 DEF Marks
    <2>4. QED
      BY <2>1, <2>2, <2>3, TableSteps DEF Typed, Keeps
  <1>2. ASSUME NEW t \in Thread, Enter(t) PROVE Typed'
    <2>1. op[t] \in ShapedCall /\ op[t].pc = "enter"
      BY <1>0, <1>2 DEF Enter, At
    <2>2. op[t].plan \in Plan
      BY <2>1, CallFacts
    <2>3. [op[t] EXCEPT !.pc = "step", !.n = 1, !.saved = executor, !.savedPlan = current] \in ShapedCall
      BY <2>1, EnterFacts DEF Typed
    <2>4. op' \in [Thread -> ShapedCall]
      BY <1>0, <1>2, <2>3 DEF Enter
    <2>5. TypedSteps'
      BY <1>0, <1>2 DEF Enter, TypedSteps
    <2>6. QED
      BY <1>2, <2>2, <2>4, <2>5 DEF Typed, Enter
  <1>3. ASSUME NEW t \in Thread, Finish(t) PROVE Typed'
    <2>1. op[t].plan \in Plan
      BY <1>3, CallFacts DEF Finish, At
    <2>2. op[t].saved \in Plan \cup {None} /\ op[t].savedPlan \in Plan \cup {None}
      BY <1>0 DEF ShapedCall, CallRecord
    <2>3. op' \in [Thread -> ShapedCall]
      BY <1>0, <1>3, IdleFacts DEF Finish
    <2>4. TypedSteps'
      BY <1>0, <1>3 DEF Finish, TypedSteps
    <2>5. QED
      BY <1>3, <2>1, <2>2, <2>3, <2>4 DEF Typed, Finish
  <1>4. ASSUME NEW t \in Thread, NEW p \in Plan, Start(t, p) PROVE Typed'
    <2>1. op' \in [Thread -> ShapedCall]
      BY <1>0, <1>4, StartFacts DEF Start
    <2>2. permits' \in [Plan -> Nat]
      BY <1>4 DEF Typed, Start
    <2>3. TypedSteps'
      BY <1>0, <1>4 DEF Start, TypedSteps
    <2>4. QED
      BY <1>4, <2>1, <2>2, <2>3 DEF Typed, Start
  <1>5. ASSUME NEW p \in Plan, Retry(p) PROVE Typed'
    <2>1. TypedSteps'
      BY <1>0, <1>5, RetryFacts
    <2>2. QED
      BY <1>5, <2>1 DEF Typed, Retry
  <1>6. ASSUME NEW r \in Resource, Lapse(r) PROVE Typed'
    BY <1>6 DEF Typed, TypedSteps, Lapse, volatile
  <1>7. CASE Cancel
    BY <1>7 DEF Typed, TypedSteps, Cancel
  <1>8. CASE Crash
    <2>1. TypedSteps'
      BY <1>8, FreshSteps DEF Crash, TypedSteps
    <2>2. << >> \in OutcomeTable
      <3>1. << >> \in [{} -> Outcome]
        OBVIOUS
      <3>2. QED
        BY <3>1 DEF OutcomeTable
    <2>3. op' \in [Thread -> ShapedCall]
      BY <1>8, IdleFacts DEF Crash
    <2>4. QED
      BY <1>8, <2>1, <2>2, <2>3 DEF Typed, Crash
  <1>9. CASE UNCHANGED vars
    BY <1>9 DEF Typed, TypedSteps, vars
  <1>10. QED
    BY <1>1, <1>2, <1>3, <1>4, <1>5, <1>6, <1>7, <1>8, <1>9, NextCases

LEMMA TypedOK == Typed => TypeOK
  <1> SUFFICES ASSUME Typed PROVE TypeOK
    OBVIOUS
  <1>1. \A p \in Plan : \A n \in DOMAIN StepsOf[p] :
           steps[p][n].status \in StepStatus /\ steps[p][n].attempt \in Nat
    BY DEF Typed, TypedSteps, StepRecord
  <1>2. \A p \in Plan : \A k \in DOMAIN outcomes[p] : k \in Key /\ outcomes[p][k] \in Outcome
    BY TableFacts DEF Typed
  <1>3. \A o \in DOMAIN ledger : o \in Plan \X Key /\ ledger[o] \in {"PENDING", "COMMITTED"}
    BY LedgerFacts DEF Typed
  <1>4. \A t \in Thread : op[t].pc \in PC
    BY CallFacts
  <1>5. QED
    BY <1>1, <1>2, <1>3, <1>4 DEF Typed, TypeOK

-----------------------------------------------------------------------------
(* The execution lock of a plan *)

LEMMA LockInit == Init => LockIsHeldInside
  BY PipelineAssumption DEF Init, LockIsHeldInside, Idle

LEMMA LockStep ==
    ASSUME Typed, LockIsHeldInside, [Next]_vars
    PROVE  LockIsHeldInside'
  <1>0. op \in [Thread -> ShapedCall] /\ execLock \in [Plan -> Thread \cup {None}] /\ None \notin Thread
    BY PipelineAssumption DEF Typed
  <1>1. ASSUME NEW t \in Thread, Work(t) PROVE LockIsHeldInside'
    <2>1. PICK o \in ShapedCall : op' = [op EXCEPT ![t] = o] /\ Follows(t, o)
      BY <1>1, WorkSteps DEF Works
    <2>2. UNCHANGED execLock
      BY <1>1, KeepSteps DEF Keeps
    <2>3. ASSUME NEW p \in Plan, NEW u \in Thread
          PROVE  execLock'[p] = u <=> op'[u].plan = p /\ op'[u].pc \notin {"idle", "enter"}
      BY <1>0, <2>1, <2>2 DEF LockIsHeldInside, Follows
    <2>4. QED
      BY <2>3 DEF LockIsHeldInside
  <1>2. ASSUME NEW t \in Thread, Enter(t) PROVE LockIsHeldInside'
    <2>1. op[t].pc = "enter" /\ op[t].plan \in Plan /\ execLock[op[t].plan] = None
      BY <1>2, CallFacts DEF Enter, At
    <2>2. op'[t].pc = "step" /\ op'[t].plan = op[t].plan /\ \A u \in Thread \ {t} : op'[u] = op[u]
      BY <1>0, <1>2 DEF Enter, ShapedCall, CallRecord
    <2>3. execLock' = [execLock EXCEPT ![op[t].plan] = t]
      BY <1>2 DEF Enter
    <2>4. ASSUME NEW p \in Plan, NEW u \in Thread
          PROVE  execLock'[p] = u <=> op'[u].plan = p /\ op'[u].pc \notin {"idle", "enter"}
      BY <1>0, <2>1, <2>2, <2>3 DEF LockIsHeldInside
    <2>5. QED
      BY <2>4 DEF LockIsHeldInside
  <1>3. ASSUME NEW t \in Thread, Finish(t) PROVE LockIsHeldInside'
    <2>1. op[t].pc = "finish" /\ op[t].plan \in Plan
      BY <1>3, CallFacts DEF Finish, At
    <2>2. op'[t] = Idle /\ \A u \in Thread \ {t} : op'[u] = op[u]
      BY <1>0, <1>3 DEF Finish
    <2>3. execLock' = [execLock EXCEPT ![op[t].plan] = None]
      BY <1>3 DEF Finish
    <2>4. ASSUME NEW p \in Plan, NEW u \in Thread
          PROVE  execLock'[p] = u <=> op'[u].plan = p /\ op'[u].pc \notin {"idle", "enter"}
      BY <1>0, <2>1, <2>2, <2>3 DEF LockIsHeldInside, Idle
    <2>5. QED
      BY <2>4 DEF LockIsHeldInside
  <1>4. ASSUME NEW t \in Thread, NEW p \in Plan, Start(t, p) PROVE LockIsHeldInside'
    BY <1>0, <1>4 DEF Start, At, Idle, LockIsHeldInside
  <1>5. CASE Crash
    BY <1>0, <1>5 DEF Crash, Idle, LockIsHeldInside
  <1>6. CASE (\E p \in Plan : Retry(p)) \/ (\E r \in Resource : Lapse(r)) \/ Cancel \/ UNCHANGED vars
    BY <1>6 DEF Retry, Lapse, Cancel, volatile, vars, LockIsHeldInside
  <1>7. QED
    BY <1>1, <1>2, <1>3, <1>4, <1>5, <1>6, NextCases

-----------------------------------------------------------------------------
(* The budget *)

PaidInv ==
    /\ \A p \in Plan : IsFiniteSet(DOMAIN outcomes[p])
    /\ EveryAttemptIsPaid

LEMMA PaidInit == Init => PaidInv
  <1> SUFFICES ASSUME Init PROVE PaidInv
    OBVIOUS
  <1>1. DOMAIN << >> = {}
    OBVIOUS
  <1>2. \A p \in Plan : DOMAIN outcomes[p] = {} /\ consumed[p] = 0 /\ Budget[p] \in Nat
    BY <1>1, PipelineAssumption DEF Init
  <1>3. QED
    BY <1>2, FS_EmptySet DEF PaidInv, EveryAttemptIsPaid

LEMMA PaidStep ==
    ASSUME Typed, PaidInv, [Next]_vars
    PROVE  PaidInv'
  <1>0. outcomes \in [Plan -> OutcomeTable] /\ consumed \in [Plan -> Nat] /\ Budget \in [Plan -> Nat \ {0}]
    BY PipelineAssumption DEF Typed
  <1>s. ASSUME \A p \in Plan : DOMAIN outcomes'[p] = DOMAIN outcomes[p], UNCHANGED consumed PROVE PaidInv'
    BY <1>s DEF PaidInv, EveryAttemptIsPaid
  <1>1. ASSUME NEW t \in Thread, Work(t) PROVE PaidInv'
    <2>1. ASSUME op[t].pc = "begin", Reserves(t) PROVE PaidInv'
      <3> DEFINE v == op[t].via
                 k == op[t].key
      <3>1. v \in Plan /\ k \notin DOMAIN outcomes[v] /\ consumed[v] < Budget[v]
        BY <2>1, CallFacts DEF Working, Keyed, Reserves, MayReserve
      <3>2. /\ DOMAIN outcomes'[v] = DOMAIN outcomes[v] \cup {k}
            /\ \A p \in Plan \ {v} : outcomes'[p] = outcomes[p]
        BY <1>0, <2>1, <3>1 DEF Reserves, Put
      <3>3. consumed'[v] = consumed[v] + 1 /\ \A p \in Plan \ {v} : consumed'[p] = consumed[p]
        BY <1>0, <2>1, <3>1 DEF Reserves
      <3>4. /\ IsFiniteSet(DOMAIN outcomes[v] \cup {k})
            /\ Cardinality(DOMAIN outcomes[v] \cup {k}) = Cardinality(DOMAIN outcomes[v]) + 1
        BY <3>1, FS_AddElement DEF PaidInv
      <3>5. ASSUME NEW p \in Plan
            PROVE  /\ IsFiniteSet(DOMAIN outcomes'[p])
                   /\ consumed'[p] = Cardinality(DOMAIN outcomes'[p]) /\ consumed'[p] <= Budget[p]
        <4>1. CASE p = v
          <5>1. consumed[v] + 1 <= Budget[v]
            BY <1>0, <3>1
          <5>2. QED
            BY <3>2, <3>3, <3>4, <4>1, <5>1 DEF PaidInv, EveryAttemptIsPaid
        <4>2. CASE p # v
          BY <3>2, <3>3, <4>2 DEF PaidInv, EveryAttemptIsPaid
        <4>3. QED
          BY <4>1, <4>2
      <3>6. QED
        BY <3>5 DEF PaidInv, EveryAttemptIsPaid
    <2>2. ASSUME NEW v \in Plan, NEW k \in Key, NEW s \in Outcome, Records(v, k, s), UNCHANGED consumed
          PROVE  PaidInv'
      <3>1. \A p \in Plan : DOMAIN outcomes'[p] = DOMAIN outcomes[p]
        BY <1>0, <2>2 DEF Records
      <3>2. QED
        BY <1>s, <2>2, <3>1
    <2>3. QED
      BY <1>1, <1>s, <2>1, <2>2, KeepSteps DEF Keeps
  <1>2. CASE Crash
    <2>1. DOMAIN << >> = {}
      OBVIOUS
    <2>2. \A p \in Plan : DOMAIN outcomes'[p] = {} /\ consumed'[p] = 0 /\ Budget[p] \in Nat
      BY <1>0, <1>2, <2>1 DEF Crash
    <2>3. IsFiniteSet({}) /\ Cardinality({}) = 0
      BY FS_EmptySet
    <2>4. \A p \in Plan : /\ IsFiniteSet(DOMAIN outcomes'[p])
                          /\ consumed'[p] = Cardinality(DOMAIN outcomes'[p]) /\ consumed'[p] <= Budget[p]
      BY <2>2, <2>3
    <2>5. QED
      BY <2>4 DEF PaidInv, EveryAttemptIsPaid
  <1>3. ASSUME UNCHANGED <<outcomes, consumed>> PROVE PaidInv'
    BY <1>s, <1>3
  <1>4. QED
    BY <1>1, <1>2, <1>3, NextCases DEF Enter, Finish, Start, Retry, Lapse, Cancel, volatile, vars

-----------------------------------------------------------------------------
(* What becomes of an outcome, a record and an operation *)

LEMMA OutcomeSteps ==
    ASSUME Typed, NEW t \in Thread, Keeps(t), NEW v \in Plan
    PROVE  /\ DOMAIN outcomes[v] \subseteq DOMAIN outcomes'[v]
           /\ \A k \in DOMAIN outcomes'[v] :
                 /\ outcomes'[v][k] = "COMMITTED" =>
                       \/ k \in DOMAIN outcomes[v] /\ outcomes[v][k] = "COMMITTED"
                       \/ <<v, k>> \in DOMAIN ledger /\ ledger[<<v, k>>] = "COMMITTED"
                       \/ \E u \in Thread : op[u].answer \in {"ok", "committed"} /\ Operation(u) = <<v, k>>
                 /\ outcomes'[v][k] = "OUTCOME_UNKNOWN" =>
                       \/ k \in DOMAIN outcomes[v] /\ outcomes[v][k] = "OUTCOME_UNKNOWN"
                       \/ \E u \in Thread : /\ op[u].pc = "settle" /\ op[u].answer \in {"ok", "raised"}
                                            /\ Operation(u) = <<v, k>>
  <1>0. outcomes \in [Plan -> OutcomeTable]
    BY DEF Typed
  <1>1. CASE UNCHANGED outcomes
    BY <1>1
  <1>2. CASE op[t].pc = "begin" /\ Reserves(t)
    <2>1. outcomes'[v] = IF v = op[t].via THEN Put(outcomes[v], op[t].key, "PENDING") ELSE outcomes[v]
      BY <1>0, <1>2 DEF Reserves
    <2>2. QED
      BY <2>1 DEF Put
  <1>3. ASSUME NEW w \in Plan, NEW l \in Key, NEW s \in Outcome, Records(w, l, s)
        PROVE  /\ DOMAIN outcomes[v] = DOMAIN outcomes'[v]
               /\ \A k \in DOMAIN outcomes'[v] : outcomes'[v][k] = outcomes[v][k] \/ (v = w /\ k = l /\ outcomes'[v][k] = s)
    <2>1. outcomes'[v] = IF v = w THEN [outcomes[v] EXCEPT ![l] = s] ELSE outcomes[v]
      BY <1>0, <1>3 DEF Records
    <2>2. QED
      BY <2>1
  <1>4. ASSUME NEW w \in Plan, NEW l \in Key, NEW s \in Outcome, Records(w, l, s)
        PROVE  /\ s = "COMMITTED" =>
                       \/ <<w, l>> \in DOMAIN ledger /\ ledger[<<w, l>>] = "COMMITTED"
                       \/ \E u \in Thread : op[u].answer \in {"ok", "committed"} /\ Operation(u) = <<w, l>>
               /\ s = "OUTCOME_UNKNOWN" =>
                       \E u \in Thread : /\ op[u].pc = "settle" /\ op[u].answer \in {"ok", "raised"}
                                         /\ Operation(u) = <<w, l>>
    BY <1>4 DEF Records
  <1>5. CASE \E w \in Plan, l \in Key, s \in Outcome : Records(w, l, s)
    BY <1>3, <1>4, <1>5
  <1>6. QED
    BY <1>1, <1>2, <1>5 DEF Keeps

\* An attempt keeps its key, its step and its plan.
LEMMA AttemptSteps ==
    ASSUME Typed, Typed', NEW t \in Thread, NEW o \in ShapedCall,
           op' = [op EXCEPT ![t] = o], Follows(t, o), o.pc \in Attempting
    PROVE  /\ op[t].pc \in Attempting \cup {"begin"}
           /\ op'[t].via = op[t].via /\ op'[t].n = op[t].n /\ op'[t].plan = op[t].plan
           /\ op'[t].key = op[t].key
           /\ Operation(t)' = Operation(t)
           /\ Def(t)' = Def(t)
           /\ Declared(t)' <=> Declared(t)
           /\ Recoverable(t)' <=> Recoverable(t)
  <1>1. op'[t] = o /\ op[t] \in ShapedCall
    BY DEF Typed
  <1>2. o.via = op[t].via /\ o.key = op[t].key /\ o.plan = op[t].plan /\ op[t].pc \in Attempting \cup {"begin"}
    BY DEF Follows
  <1>3. o.n = o.key.n /\ op[t].n = op[t].key.n
    BY <1>1, <1>2 DEF ShapedCall, Keyed, Attempting
  <1>4. o.n = op[t].n
    BY <1>2, <1>3
  <1>5. QED
    BY <1>1, <1>2, <1>4 DEF Operation, Def, Declared, Recoverable

-----------------------------------------------------------------------------
(* What is done took place *)

PlaceInv ==
    /\ \A v \in Plan : \A k \in DOMAIN outcomes[v] : outcomes[v][k] = "COMMITTED" => <<v, k>> \in ran
    /\ \A o \in DOMAIN ledger : ledger[o] = "COMMITTED" => o \in ran
    /\ \A t \in Thread : op[t].answer \in {"ok", "committed"} => Operation(t) \in ran
    /\ DoneTookPlace

LEMMA PlaceInit == Init => PlaceInv
  <1> SUFFICES ASSUME Init PROVE PlaceInv
    OBVIOUS
  <1>1. DOMAIN << >> = {}
    OBVIOUS
  <1>2. \A p \in Plan : DOMAIN outcomes[p] = {}
    BY <1>1 DEF Init
  <1>3. \A p \in Plan : \A n \in DOMAIN steps[p] : steps[p][n].status = "pending"
    BY DEF Init
  <1>4. \A t \in Thread : op[t].answer = "none"
    BY DEF Init, Idle
  <1>5. DOMAIN ledger = {}
    BY <1>1 DEF Init
  <1>6. QED
    BY <1>2, <1>3, <1>4, <1>5 DEF PlaceInv, DoneTookPlace

LEMMA WitnessFacts ==
    ASSUME Typed, PlaceInv, NEW t \in Thread, op[t].pc \in Working, Witnessed(t)
    PROVE  \E o \in ran : o[2].n = op[t].n /\ o[2].d = Def(t)
  <1>1. op[t].via \in Plan /\ outcomes[op[t].via] \in OutcomeTable
    BY CallFacts DEF Typed
  <1>2. CASE op[t].pc = "lookup"
    <2>1. PICK k \in Unresolved(t) :
             <<op[t].via, k>> \in DOMAIN ledger /\ ledger[<<op[t].via, k>>] = "COMMITTED"
      BY <1>2, CallFacts DEF Witnessed, Keyed
    <2>2. <<op[t].via, k>> \in ran /\ k.n = op[t].n /\ k.d = Def(t)
      BY <2>1 DEF PlaceInv, Unresolved
    <2>3. QED
      BY <2>2
  <1>3. CASE op[t].pc \in Keyed
    <2>1. Operation(t) \in ran
      BY <1>1, <1>3 DEF Witnessed, PlaceInv, OutcomeOf, Operation, Keyed
    <2>2. Operation(t)[2] = op[t].key /\ op[t].key.n = op[t].n /\ op[t].key.d = Def(t)
      BY <1>3, CallFacts DEF Operation
    <2>3. QED
      BY <2>1, <2>2
  <1>4. QED
    BY <1>2, <1>3 DEF Working

LEMMA PlaceStep ==
    ASSUME Typed, PlaceInv, [Next]_vars
    PROVE  PlaceInv'
  <1>0. Typed' /\ op \in [Thread -> ShapedCall]
    BY TypedStep DEF Typed
  <1>d. \A p \in Plan : DOMAIN steps[p] = DOMAIN StepsOf[p] /\ DOMAIN steps'[p] = DOMAIN StepsOf[p]
    BY <1>0 DEF Typed, TypedSteps
  <1>1. ASSUME NEW t \in Thread, Work(t) PROVE PlaceInv'
    <2>0. Works(t) /\ Marks(t) /\ Keeps(t)
      BY <1>1, WorkSteps, KeepSteps
    <2>1. PICK o \in ShapedCall : op' = [op EXCEPT ![t] = o] /\ Follows(t, o)
      BY <2>0 DEF Works
    <2>2. ran \subseteq ran'
      BY <2>0 DEF Keeps
    <2>3. ASSUME NEW v \in Plan, NEW k \in DOMAIN outcomes'[v], outcomes'[v][k] = "COMMITTED"
          PROVE  <<v, k>> \in ran'
      <3>1. \/ k \in DOMAIN outcomes[v] /\ outcomes[v][k] = "COMMITTED"
            \/ <<v, k>> \in DOMAIN ledger /\ ledger[<<v, k>>] = "COMMITTED"
            \/ \E u \in Thread : op[u].answer \in {"ok", "committed"} /\ Operation(u) = <<v, k>>
        BY <2>0, <2>3, OutcomeSteps
      <3>2. <<v, k>> \in ran
        BY <3>1 DEF PlaceInv
      <3>3. QED
        BY <2>2, <3>2
    <2>4. ASSUME NEW e \in DOMAIN ledger', ledger'[e] = "COMMITTED"
          PROVE  e \in ran'
      <3>1. CASE UNCHANGED ledger
        BY <2>2, <2>4, <3>1 DEF PlaceInv
      <3>2. CASE ledger' = Put(ledger, Operation(t), "PENDING")
        BY <2>2, <2>4, <3>2 DEF PlaceInv, Put
      <3>3. CASE op[t].answer = "ok" /\ ledger' = [ledger EXCEPT ![Operation(t)] = "COMMITTED"]
        BY <2>2, <2>4, <3>3 DEF PlaceInv
      <3>4. QED
        BY <2>0, <3>1, <3>2, <3>3 DEF Keeps
    <2>5. ASSUME NEW u \in Thread, op'[u].answer \in {"ok", "committed"}
          PROVE  Operation(u)' \in ran'
      <3>1. CASE u # t
        <4>1. op'[u] = op[u]
          BY <1>0, <2>1, <3>1
        <4>2. QED
          BY <2>2, <2>5, <4>1 DEF PlaceInv, Operation
      <3>2. CASE u = t
        <4>1. op'[t] = o /\ o.answer \in {"ok", "committed"} /\ o.pc \in {"release", "settle"}
          BY <1>0, <2>1, <2>5, <3>2 DEF ShapedCall
        <4>2. Operation(t)' = Operation(t)
          BY <1>0, <2>1, <4>1, AttemptSteps DEF Attempting
        <4>3. Operation(t) \in ran'
          BY <2>1, <2>2, <4>1 DEF Follows, PlaceInv
        <4>4. QED
          BY <3>2, <4>2, <4>3
      <3>3. QED
        BY <3>1, <3>2
    <2>6. ASSUME NEW p \in Plan, NEW n \in DOMAIN StepsOf[p], steps'[p][n].status = "done"
          PROVE  \E e \in ran' : e[2].n = n /\ e[2].d = StepsOf[p][n]
      <3>1. CASE steps[p][n].status = "done"
        BY <1>d, <2>2, <3>1 DEF PlaceInv, DoneTookPlace
      <3>2. CASE p = op[t].plan /\ n = op[t].n /\ op[t].pc \in Working /\ Witnessed(t)
        BY <2>2, <3>2, WitnessFacts DEF Def
      <3>3. QED
        BY <2>0, <2>6, <3>1, <3>2 DEF Marks
    <2>7. QED
      BY <1>d, <2>3, <2>4, <2>5, <2>6 DEF PlaceInv, DoneTookPlace
  <1>2. ASSUME UNCHANGED <<outcomes, ledger, ran>>, \A t \in Thread : op'[t].answer = "none" \/ op'[t] = op[t],
               \A p \in Plan : \A n \in DOMAIN StepsOf[p] : steps'[p][n].status = "done" => steps[p][n].status = "done"
        PROVE  PlaceInv'
    BY <1>d, <1>2 DEF PlaceInv, DoneTookPlace, Operation
  <1>3. ASSUME NEW t \in Thread, Enter(t) PROVE PlaceInv'
    <2>1. op[t].answer = "none" /\ op[t] \in ShapedCall
      BY <1>0, <1>3, CallFacts DEF Enter, At
    <2>2. op'[t].answer = "none" /\ \A u \in Thread \ {t} : op'[u] = op[u]
      BY <1>0, <1>3, <2>1 DEF Enter, ShapedCall, CallRecord
    <2>3. QED
      BY <1>2, <1>3, <2>2 DEF Enter
  <1>4. ASSUME NEW t \in Thread, Finish(t) PROVE PlaceInv'
    <2>1. op'[t].answer = "none" /\ \A u \in Thread \ {t} : op'[u] = op[u]
      BY <1>0, <1>4 DEF Finish, Idle
    <2>2. QED
      BY <1>2, <1>4, <2>1 DEF Finish
  <1>5. ASSUME NEW t \in Thread, NEW p \in Plan, Start(t, p) PROVE PlaceInv'
    <2>1. op'[t].answer = "none" /\ \A u \in Thread \ {t} : op'[u] = op[u]
      BY <1>0, <1>5 DEF Start, Idle
    <2>2. QED
      BY <1>2, <1>5, <2>1 DEF Start
  <1>6. ASSUME NEW p \in Plan, Retry(p) PROVE PlaceInv'
    <2>1. \A q \in Plan : \A n \in DOMAIN StepsOf[q] :
             steps'[q][n].status = "done" => steps[q][n].status = "done"
      BY <1>6, RetryFacts DEF Typed
    <2>2. QED
      BY <1>2, <1>6, <2>1 DEF Retry
  <1>7. CASE Crash
    <2>1. DOMAIN << >> = {}
      OBVIOUS
    <2>2. \A p \in Plan : DOMAIN outcomes'[p] = {}
      BY <1>7, <2>1 DEF Crash
    <2>3. \A p \in Plan : \A n \in DOMAIN StepsOf[p] : steps'[p][n].status = "pending"
      BY <1>7 DEF Crash
    <2>4. \A t \in Thread : op'[t].answer = "none"
      BY <1>7 DEF Crash, Idle
    <2>5. UNCHANGED <<ledger, ran>>
      BY <1>7 DEF Crash
    <2>6. QED
      BY <1>d, <2>2, <2>3, <2>4, <2>5 DEF PlaceInv, DoneTookPlace
  <1>8. CASE (\E r \in Resource : Lapse(r)) \/ Cancel \/ UNCHANGED vars
    BY <1>2, <1>8 DEF Lapse, Cancel, volatile, vars
  <1>9. QED
    BY <1>1, <1>3, <1>4, <1>5, <1>6, <1>7, <1>8, NextCases

-----------------------------------------------------------------------------
(* No blind repeat *)

\* A thread whose command has been recorded and not yet answered for.
Commands(t) == op[t].pc \in Attempting /\ ~Recoverable(t)

BlindInv ==
    \* An outcome is unknown only of a step its own plan declares.
    /\ \A v \in Plan : \A k \in DOMAIN outcomes[v] :
          outcomes[v][k] = "OUTCOME_UNKNOWN" => k.n \in DOMAIN StepsOf[v] /\ StepsOf[v][k.n] = k.d
    /\ \A t \in Thread : op[t].pc = "effect" \/ op[t].answer \in Receipts => Declared(t)
    \* While the process lives, a command that took place is on record.
    /\ up => \A e \in ran : e[2].d \notin Writes => e[2] \in DOMAIN outcomes[e[1]]
    \* A command being attempted is on record, and nobody else attempts it.
    /\ \A t \in Thread : Commands(t) => op[t].key \in DOMAIN outcomes[op[t].via]
    /\ \A t, u \in Thread : Commands(t) /\ Commands(u) /\ Operation(t) = Operation(u) => t = u
    \* A command about to be dispatched has not taken place, and nothing is unknown of
    \* a step that is its plan's alone.
    /\ \A t \in Thread : op[t].pc = "dispatch" /\ ~Recoverable(t) =>
          /\ Operation(t) \notin ran
          /\ Declared(t) /\ Sole(op[t].n, Def(t)) => ~UnknownStep(t)

LEMMA BlindInit == Init => BlindInv
  <1> SUFFICES ASSUME Init PROVE BlindInv
    OBVIOUS
  <1>1. DOMAIN << >> = {}
    OBVIOUS
  <1>2. \A p \in Plan : DOMAIN outcomes[p] = {}
    BY <1>1 DEF Init
  <1>3. \A t \in Thread : op[t].pc = "idle" /\ op[t].answer = "none"
    BY DEF Init, Idle
  <1>4. ran = {}
    BY DEF Init
  <1>5. QED
    BY <1>2, <1>3, <1>4 DEF BlindInv, Commands, Attempting, Receipts

\* A thread at a declared step that no other plan has is the only one that can settle it.
LEMMA OnlyItself ==
    ASSUME Typed, LockIsHeldInside, NEW t \in Thread, NEW u \in Thread,
           op[t].pc \in Keyed, op[u].pc \in Keyed, Declared(t), Declared(u),
           op[u].via = op[t].via, op[u].n = op[t].n, Sole(op[t].n, Def(t))
    PROVE  t = u
  <1>1. /\ op[t].plan \in Plan /\ op[u].plan \in Plan
        /\ op[t].n \in DOMAIN StepsOf[op[t].plan] /\ op[u].n \in DOMAIN StepsOf[op[u].plan]
        /\ op[t].pc \notin {"idle", "enter"} /\ op[u].pc \notin {"idle", "enter"}
    BY CallFacts DEF Keyed, Working
  <1>2. Def(u) = Def(t)
    BY DEF Declared
  <1>3. op[u].plan = op[t].plan
    BY <1>1, <1>2 DEF Sole, HasStep, Def
  <1>4. execLock[op[t].plan] = t /\ execLock[op[t].plan] = u
    BY <1>1, <1>3 DEF LockIsHeldInside
  <1>5. QED
    BY <1>4

\* A step that reserves nothing and records nothing leaves all this to whoever stays.
LEMMA BlindIdle ==
    ASSUME Typed, BlindInv, UNCHANGED <<outcomes, ran, up>>,
           \A t \in Thread : op'[t] = op[t] \/ (op'[t].pc \in {"idle", "enter", "step"} /\ op'[t].answer = "none")
    PROVE  BlindInv'
  <1> DEFINE Stays(t) == op'[t] = op[t]
  <1>1. ASSUME NEW t \in Thread, op'[t].pc \in Attempting \/ op'[t].answer \in Receipts
        PROVE  /\ Stays(t) /\ Operation(t)' = Operation(t) /\ Def(t)' = Def(t)
               /\ Declared(t)' = Declared(t) /\ Recoverable(t)' = Recoverable(t)
               /\ UnknownStep(t)' = UnknownStep(t) /\ Commands(t)' = Commands(t)
    <2>1. Stays(t)
      BY <1>1 DEF Attempting, Receipts
    <2>2. QED
      BY <2>1 DEF Operation, Def, Declared, Recoverable, UnknownStep, Commands
  <1>2. \A t \in Thread : Commands(t)' => Commands(t) /\ Stays(t) /\ Operation(t)' = Operation(t)
    BY <1>1 DEF Commands
  <1>3. QED
    BY <1>1, <1>2 DEF BlindInv, Attempting, Commands, Sole, HasStep

LEMMA BlindStep ==
    ASSUME Typed, LockIsHeldInside, BlindInv, [Next]_vars
    PROVE  BlindInv'
  <1>0. Typed' /\ op \in [Thread -> ShapedCall] /\ ran \subseteq Plan \X Key /\ outcomes \in [Plan -> OutcomeTable]
    BY TypedStep DEF Typed
  <1>1. ASSUME NEW t \in Thread, Work(t) PROVE BlindInv'
    <2>0. Works(t) /\ Keeps(t)
      BY <1>1, WorkSteps, KeepSteps
    <2>1. PICK o \in ShapedCall : op' = [op EXCEPT ![t] = o] /\ Follows(t, o)
      BY <2>0 DEF Works
    <2>2. op'[t] = o /\ (\A u \in Thread \ {t} : op'[u] = op[u]) /\ up
      BY <1>0, <2>0, <2>1 DEF Keeps
    <2>3. \A v \in Plan : DOMAIN outcomes[v] \subseteq DOMAIN outcomes'[v]
      BY <2>0, OutcomeSteps
    \* Whoever attempts after the step did so before it, or has just reserved.
    <2>4. ASSUME NEW u \in Thread, op'[u].pc \in Attempting
          PROVE  /\ op[u].pc \in Attempting \/ (u = t /\ op[t].pc = "begin")
                 /\ op'[u].via = op[u].via /\ op'[u].n = op[u].n /\ op'[u].plan = op[u].plan
                 /\ op'[u].key = op[u].key
                 /\ Operation(u)' = Operation(u) /\ Def(u)' = Def(u)
                 /\ (Declared(u)' <=> Declared(u)) /\ (Recoverable(u)' <=> Recoverable(u))
      <3>1. CASE u # t
        <4>1. op'[u] = op[u]
          BY <2>2, <3>1
        <4>2. QED
          BY <2>4, <4>1 DEF Operation, Def, Declared, Recoverable
      <3>2. CASE u = t
        BY <1>0, <2>1, <2>2, <2>4, <3>2, AttemptSteps
      <3>3. QED
        BY <3>1, <3>2
    <2>5. ASSUME op'[t].pc \in Attempting, op[t].pc = "begin", ~Recoverable(t)
          PROVE  /\ Reserves(t) /\ op[t].via \in Plan
                 /\ op[t].key \notin DOMAIN outcomes[op[t].via]
                 /\ op[t].key \in DOMAIN outcomes'[op[t].via]
      <3>1. Reserves(t) /\ op[t].via \in Plan
        BY <2>1, <2>2, <2>5, CallFacts DEF Follows, Keyed, Working
      <3>2. QED
        BY <1>0, <3>1 DEF Reserves, Put
    <2>6. ASSUME NEW v \in Plan, NEW k \in DOMAIN outcomes'[v], outcomes'[v][k] = "OUTCOME_UNKNOWN"
          PROVE  \/ k \in DOMAIN outcomes[v] /\ outcomes[v][k] = "OUTCOME_UNKNOWN"
                 \/ \E u \in Thread : op[u].pc = "settle" /\ Declared(u) /\ op[u].via = v /\ op[u].key = k
                                      /\ op[u].n = k.n /\ Def(u) = k.d
      <3>1. \/ k \in DOMAIN outcomes[v] /\ outcomes[v][k] = "OUTCOME_UNKNOWN"
            \/ \E u \in Thread : /\ op[u].pc = "settle" /\ op[u].answer \in {"ok", "raised"}
                                 /\ Operation(u) = <<v, k>>
        BY <2>0, <2>6, OutcomeSteps
      <3>2. ASSUME NEW u \in Thread, op[u].pc = "settle", op[u].answer \in {"ok", "raised"}, Operation(u) = <<v, k>>
            PROVE  Declared(u) /\ op[u].via = v /\ op[u].key = k /\ op[u].n = k.n /\ Def(u) = k.d
        BY <3>2, CallFacts DEF BlindInv, Operation, Receipts, Keyed
      <3>3. QED
        BY <3>1, <3>2
    <2>b1. \A v \in Plan : \A k \in DOMAIN outcomes'[v] :
             outcomes'[v][k] = "OUTCOME_UNKNOWN" => k.n \in DOMAIN StepsOf[v] /\ StepsOf[v][k.n] = k.d
      BY <2>6 DEF BlindInv, Declared
    <2>b2. ASSUME NEW u \in Thread, op'[u].pc = "effect" \/ op'[u].answer \in Receipts
           PROVE  Declared(u)'
      <3>1. op'[u].pc \in Attempting
        BY <1>0, <2>b2 DEF Attempting, Receipts, Typed, ShapedCall
      <3>2. CASE u # t
        <4>1. op'[u] = op[u]
          BY <2>2, <3>2
        <4>2. QED
          BY <2>b2, <2>4, <3>1, <4>1 DEF BlindInv
      <3>3. CASE u = t
        <4>1. Declared(t)
          BY <2>1, <2>2, <2>b2, <3>3 DEF BlindInv, Follows
        <4>2. QED
          BY <2>4, <3>1, <3>3, <4>1
      <3>4. QED
        BY <3>2, <3>3
    <2>b4. ASSUME NEW u \in Thread, Commands(u)'
           PROVE  /\ op'[u].key \in DOMAIN outcomes'[op'[u].via]
                  /\ Operation(u)' = Operation(u)
                  /\ Commands(u) \/ (u = t /\ op[t].pc = "begin" /\ Reserves(t) /\ op[t].key \notin DOMAIN outcomes[op[t].via])
      <3>1. op'[u].pc \in Attempting /\ ~Recoverable(u)
        BY <2>4, <2>b4 DEF Commands
      <3>2. CASE op[u].pc \in Attempting
        <4>1. op[u].via \in Plan /\ Commands(u)
          BY <3>1, <3>2, CallFacts DEF Commands, Attempting, Working, Keyed
        <4>2. op[u].key \in DOMAIN outcomes[op[u].via]
          BY <4>1 DEF BlindInv
        <4>3. QED
          BY <2>3, <2>4, <3>1, <4>1, <4>2
      <3>3. CASE u = t /\ op[t].pc = "begin"
        BY <2>4, <2>5, <3>1, <3>3
      <3>4. QED
        BY <2>4, <3>1, <3>2, <3>3
    <2>b5. ASSUME NEW u \in Thread, NEW w \in Thread, Commands(u)', Commands(w)', Operation(u)' = Operation(w)'
           PROVE  u = w
      <3>1. Operation(u) = Operation(w) /\ op[u].via = op[w].via /\ op[u].key = op[w].key
        BY <2>b4, <2>b5 DEF Operation
      <3>2. CASE Commands(u) /\ Commands(w)
        BY <3>1, <3>2 DEF BlindInv
      <3>3. CASE ~(Commands(u) /\ Commands(w))
        BY <2>b4, <2>b5, <3>1, <3>3 DEF BlindInv
      <3>4. QED
        BY <3>2, <3>3
    <2>b3. ASSUME NEW e \in ran', e[2].d \notin Writes
           PROVE  e[2] \in DOMAIN outcomes'[e[1]]
      <3>1. CASE e \in ran
        BY <1>0, <2>2, <2>3, <2>b3, <3>1 DEF BlindInv
      <3>2. CASE op[t].pc = "effect" /\ e = Operation(t)
        <4>1. e[1] = op[t].via /\ e[2] = op[t].key /\ op[t].key.d = Def(t) /\ op[t].via \in Plan
          BY <3>2, CallFacts DEF Operation, Keyed, Working
        <4>2. Commands(t)
          BY <2>b3, <3>2, <4>1 DEF Commands, Recoverable, Attempting
        <4>3. QED
          BY <2>3, <4>1, <4>2 DEF BlindInv
      <3>3. QED
        BY <2>0, <3>1, <3>2 DEF Keeps
    <2>b6. ASSUME NEW u \in Thread, op'[u].pc = "dispatch", ~Recoverable(u)'
           PROVE  Operation(u)' \notin ran'
      <3>1. Commands(u)' /\ Operation(u)' = Operation(u) /\ ~Recoverable(u) /\ op'[u].pc \in Attempting
        BY <2>4, <2>b4, <2>b6 DEF Commands, Attempting
      <3>2. Operation(u) \notin ran
        <4>1. CASE op[u].pc = "dispatch"
          BY <3>1, <4>1 DEF BlindInv
        <4>2. CASE op[u].pc # "dispatch"
          <5>1. u = t /\ op[t].pc \in {"begin", "prepare"}
            BY <2>1, <2>2, <2>b6, <4>2 DEF Follows
          <5>2. op[t].pc = "begin"
            BY <3>1, <5>1, CallFacts
          <5>3. op[t].key \notin DOMAIN outcomes[op[t].via] /\ op[t].key.d \notin Writes
            BY <2>5, <3>1, <5>1, <5>2, CallFacts DEF Recoverable, Keyed
          <5>4. QED
            BY <2>2, <5>1, <5>3 DEF BlindInv, Operation
        <4>3. QED
          BY <4>1, <4>2
      <3>3. ASSUME op[t].pc = "effect", Operation(u) = Operation(t) PROVE FALSE
        <4>1. op[t].key.d = Def(t) /\ u # t
          BY <2>1, <2>2, <2>b6, <3>3, CallFacts DEF Keyed, Follows
        <4>2. op[u].pc \in Keyed /\ op[u].key.d = Def(u) /\ op[u].key = op[t].key
          <5>1. op[u].pc \in Keyed
            BY <2>4, <3>1 DEF Attempting, Keyed
          <5>2. QED
            BY <3>3, <5>1, CallFacts DEF Operation
        <4>3. Commands(t) /\ Commands(u)
          BY <2>b4, <3>1, <3>3, <4>1, <4>2 DEF Commands, Recoverable, Attempting
        <4>4. QED
          BY <3>3, <4>1, <4>3 DEF BlindInv
      <3>4. QED
        BY <2>0, <3>1, <3>2, <3>3 DEF Keeps
    <2>b7. ASSUME NEW u \in Thread, op'[u].pc = "dispatch", ~Recoverable(u)', Declared(u)', Sole(op[u].n, Def(u)),
                  UnknownStep(u)'
           PROVE  FALSE
      <3>1. /\ op'[u].pc \in Attempting /\ ~Recoverable(u) /\ Declared(u)
            /\ op'[u].via = op[u].via /\ op'[u].n = op[u].n
        BY <2>4, <2>b7 DEF Attempting
      <3>2. op[u].pc \in Keyed /\ op[u].via \in Plan
        BY <2>4, <3>1, CallFacts DEF Attempting, Keyed, Working
      <3>3. PICK k \in DOMAIN outcomes'[op[u].via] : k.n = op[u].n /\ outcomes'[op[u].via][k] = "OUTCOME_UNKNOWN"
        BY <2>b7, <3>1 DEF UnknownStep
      <3>4. ~UnknownStep(u)
        <4>1. CASE op[u].pc = "dispatch"
          BY <2>b7, <3>1, <4>1 DEF BlindInv
        <4>2. CASE op[u].pc # "dispatch"
          <5>1. u = t /\ op[t].pc \in {"begin", "prepare"}
            BY <2>1, <2>2, <2>b7, <4>2 DEF Follows
          <5>2. op[t].pc = "begin"
            BY <3>1, <5>1, CallFacts
          <5>3. QED
            BY <2>5, <3>1, <5>1, <5>2 DEF Reserves, MayReserve
        <4>3. QED
          BY <4>1, <4>2
      <3>5. PICK w \in Thread : op[w].pc = "settle" /\ Declared(w) /\ op[w].via = op[u].via /\ op[w].n = op[u].n
        BY <2>6, <3>2, <3>3, <3>4 DEF UnknownStep
      <3>6. w = u
        BY <2>b7, <3>1, <3>2, <3>5, OnlyItself DEF Keyed
      <3>7. QED
        BY <2>1, <2>2, <2>b7, <3>5, <3>6 DEF Follows
    <2>7. ASSUME NEW u \in Thread, op'[u].pc = "dispatch", ~Recoverable(u)'
          PROVE  Declared(u)' /\ Sole(op[u].n, Def(u))' => ~UnknownStep(u)'
      <3>1. Sole(op[u].n, Def(u))' => Sole(op[u].n, Def(u))
        BY <2>4, <2>7 DEF Attempting, Sole, HasStep
      <3>2. QED
        BY <2>7, <2>b7, <3>1
    <2>8. QED
      BY <2>b1, <2>b2, <2>b3, <2>b4, <2>b5, <2>b6, <2>7 DEF BlindInv
  <1>2. ASSUME NEW t \in Thread, Enter(t) PROVE BlindInv'
    <2>1. op[t].answer = "none" /\ op[t] \in ShapedCall
      BY <1>0, <1>2, CallFacts DEF Enter, At
    <2>2. op'[t].answer = "none" /\ op'[t].pc = "step" /\ \A u \in Thread \ {t} : op'[u] = op[u]
      BY <1>0, <1>2, <2>1 DEF Enter, ShapedCall, CallRecord
    <2>3. QED
      BY <1>2, <2>2, BlindIdle DEF Enter
  <1>3. ASSUME NEW t \in Thread, Finish(t) PROVE BlindInv'
    <2>1. op'[t].answer = "none" /\ op'[t].pc = "idle" /\ \A u \in Thread \ {t} : op'[u] = op[u]
      BY <1>0, <1>3 DEF Finish, Idle
    <2>2. QED
      BY <1>3, <2>1, BlindIdle DEF Finish
  <1>4. ASSUME NEW t \in Thread, NEW p \in Plan, Start(t, p) PROVE BlindInv'
    <2>1. op'[t].answer = "none" /\ op'[t].pc = "enter" /\ \A u \in Thread \ {t} : op'[u] = op[u]
      BY <1>0, <1>4 DEF Start, Idle
    <2>2. QED
      BY <1>4, <2>1, BlindIdle DEF Start
  <1>5. CASE Crash
    <2>1. DOMAIN << >> = {}
      OBVIOUS
    <2>2. \A p \in Plan : DOMAIN outcomes'[p] = {}
      BY <1>5, <2>1 DEF Crash
    <2>3. \A t \in Thread : op'[t].pc = "idle" /\ op'[t].answer = "none"
      BY <1>5 DEF Crash, Idle
    <2>4. up' = FALSE
      BY <1>5 DEF Crash
    <2>5. QED
      BY <2>2, <2>3, <2>4 DEF BlindInv, Commands, Attempting, Receipts
  <1>6. CASE (\E p \in Plan : Retry(p)) \/ (\E r \in Resource : Lapse(r)) \/ Cancel \/ UNCHANGED vars
    <2>1. UNCHANGED <<outcomes, ran, up, op>>
      BY <1>6 DEF Retry, Lapse, Cancel, volatile, vars
    <2>2. QED
      BY <2>1, BlindIdle
  <1>7. QED
    BY <1>1, <1>2, <1>3, <1>4, <1>5, <1>6, NextCases

-----------------------------------------------------------------------------
(* Plans that share no step keep the promises of AttemptLedger *)

\* The same step is not in two plans: what two plans of one engine share is the reason why
\* a write can be carried out after its attempt was recorded as failed.
NoSharedStep == \A p \in Plan : \A n \in DOMAIN StepsOf[p] : Sole(n, StepsOf[p][n])

Accountable == [Attempts!Next]_(Attempts!vars)

LEMMA AttemptFacts ==
    ASSUME NEW v \in Plan, NEW k, <<v, k>> \in Attempt
    PROVE  /\ <<v, k>> \in PaidByPlan[v]
           /\ <<v, k>> \in WriteAttempt <=> k.d \in Writes
  BY DEF PaidByPlan, WriteAttempt, Attempt

\* The cardinality the instance speaks of is the same one.
LEMMA SameCardinality ==
    ASSUME NEW S
    PROVE  Attempts!Cardinality(S) = Cardinality(S)
  BY DEF Attempts!Cardinality, Cardinality

LEMMA BarStutter ==
    ASSUME UNCHANGED <<outcomes, ledger, ran>>
    PROVE  Accountable
  BY DEF outcomeBar, recordBar, Accountable, Attempts!vars

\* Setting an outcome moves the abstract one, if the attempt has a name at all.
LEMMA OutcomeBar ==
    ASSUME Typed, NEW v \in Plan, NEW k, NEW s,
           \/ k \in DOMAIN outcomes[v] /\ outcomes' = [outcomes EXCEPT ![v][k] = s]
           \/ outcomes' = [outcomes EXCEPT ![v] = Put(@, k, s)],
           UNCHANGED <<ledger, ran>>
    PROVE  /\ UNCHANGED recordBar /\ UNCHANGED (ran \cap Attempt)
           /\ \/ UNCHANGED outcomeBar
              \/ /\ <<v, k>> \in Attempt
                 /\ outcomeBar' = [outcomeBar EXCEPT ![<<v, k>>] = s]
                 /\ outcomeBar[<<v, k>>] = IF k \in DOMAIN outcomes[v] THEN outcomes[v][k] ELSE "none"
                 /\ outcomeBar' # outcomeBar
  <1>0. outcomes \in [Plan -> OutcomeTable]
    BY DEF Typed
  <1>1. outcomes'[v] = Put(outcomes[v], k, s) \/ outcomes'[v] = [outcomes[v] EXCEPT ![k] = s]
    BY <1>0
  <1>2. /\ DOMAIN outcomes'[v] = DOMAIN outcomes[v] \cup {k} /\ outcomes'[v][k] = s
        /\ \A l \in DOMAIN outcomes[v] : l # k => outcomes'[v][l] = outcomes[v][l]
        /\ \A w \in Plan \ {v} : outcomes'[w] = outcomes[w]
    BY <1>0, <1>1 DEF Put
  <1>3. \A e \in Attempt : e = <<e[1], e[2]>> /\ e[1] \in Plan
    BY DEF Attempt
  <1>4. \A e \in Attempt : outcomeBar'[e] = IF e = <<v, k>> THEN s ELSE outcomeBar[e]
    BY <1>2, <1>3 DEF outcomeBar
  <1>5. /\ outcomeBar = [e \in Attempt |-> outcomeBar[e]]
        /\ outcomeBar' = [e \in Attempt |-> outcomeBar'[e]]
    BY DEF outcomeBar
  <1>6. outcomeBar' = [outcomeBar EXCEPT ![<<v, k>>] = s]
    BY <1>4, <1>5
  <1>7. <<v, k>> \notin Attempt => UNCHANGED outcomeBar
    BY <1>4, <1>5
  <1>8. <<v, k>> \in Attempt => outcomeBar[<<v, k>>] = IF k \in DOMAIN outcomes[v] THEN outcomes[v][k] ELSE "none"
    BY DEF outcomeBar
  <1>9. UNCHANGED recordBar /\ UNCHANGED (ran \cap Attempt)
    BY DEF recordBar
  <1>10. QED
    BY <1>6, <1>7, <1>8, <1>9

LEMMA RecordBar ==
    ASSUME Typed, NEW v \in Plan, NEW k, NEW s,
           \/ <<v, k>> \in DOMAIN ledger /\ ledger' = [ledger EXCEPT ![<<v, k>>] = s]
           \/ ledger' = Put(ledger, <<v, k>>, s),
           UNCHANGED <<outcomes, ran>>
    PROVE  /\ UNCHANGED outcomeBar /\ UNCHANGED (ran \cap Attempt)
           /\ \/ UNCHANGED recordBar
              \/ /\ <<v, k>> \in Attempt
                 /\ recordBar' = [recordBar EXCEPT ![<<v, k>>] = s]
                 /\ recordBar[<<v, k>>] = IF <<v, k>> \in DOMAIN ledger THEN ledger[<<v, k>>] ELSE "none"
                 /\ recordBar' # recordBar
  <1>0. ledger \in LedgerTable
    BY DEF Typed
  <1>1. /\ DOMAIN ledger' = DOMAIN ledger \cup {<<v, k>>} /\ ledger'[<<v, k>>] = s
        /\ \A l \in DOMAIN ledger : l # <<v, k>> => ledger'[l] = ledger[l]
    BY <1>0, LedgerFacts DEF Put
  <1>2. \A e \in Attempt : recordBar'[e] = IF e = <<v, k>> THEN s ELSE recordBar[e]
    BY <1>1 DEF recordBar
  <1>3. /\ recordBar = [e \in Attempt |-> recordBar[e]]
        /\ recordBar' = [e \in Attempt |-> recordBar'[e]]
    BY DEF recordBar
  <1>4. recordBar' = [recordBar EXCEPT ![<<v, k>>] = s]
    BY <1>2, <1>3
  <1>5. <<v, k>> \notin Attempt => UNCHANGED recordBar
    BY <1>2, <1>3
  <1>6. <<v, k>> \in Attempt => recordBar[<<v, k>>] = IF <<v, k>> \in DOMAIN ledger THEN ledger[<<v, k>>] ELSE "none"
    BY DEF recordBar
  <1>7. UNCHANGED outcomeBar /\ UNCHANGED (ran \cap Attempt)
    BY DEF outcomeBar
  <1>8. QED
    BY <1>4, <1>5, <1>6, <1>7

\* The budget that pays for an attempt has room for it in the abstract as well.
LEMMA ReserveBar ==
    ASSUME Typed, PaidInv, NEW v \in Plan, NEW k \in Key, k \notin DOMAIN outcomes[v], consumed[v] < Budget[v],
           outcomes' = [outcomes EXCEPT ![v] = Put(@, k, "PENDING")], UNCHANGED <<ledger, ran>>
    PROVE  Accountable
  <1> DEFINE A == Attempts!Attempted(v)
  <1>1. Cardinality(A) < Budget[v]
    <2> DEFINE f == [e \in A |-> e[2]]
    <2>1. \A e \in A : e = <<v, e[2]>> /\ e[2] \in DOMAIN outcomes[v]
      BY DEF Attempts!Attempted, PaidByPlan, Attempt, outcomeBar
    <2>2. f \in Injection(A, DOMAIN outcomes[v])
      <3>1. f \in [A -> DOMAIN outcomes[v]]
        BY <2>1
      <3>2. \A d, e \in A : f[d] = f[e] => d = e
        BY <2>1
      <3>3. QED
        BY <3>1, <3>2 DEF Injection, IsInjective
    <2>3. IsFiniteSet(DOMAIN outcomes[v]) /\ Cardinality(DOMAIN outcomes[v]) = consumed[v]
      BY DEF PaidInv, EveryAttemptIsPaid
    <2>4. IsFiniteSet(A) /\ Cardinality(A) <= consumed[v]
      BY <2>2, <2>3, FS_Injection
    <2>5. Cardinality(A) \in Nat /\ consumed[v] \in Nat /\ Budget[v] \in Nat
      BY <2>4, FS_CardinalityType, PipelineAssumption DEF Typed
    <2>6. QED
      BY <2>4, <2>5
  <1>2. /\ UNCHANGED recordBar /\ UNCHANGED (ran \cap Attempt)
        /\ \/ UNCHANGED outcomeBar
           \/ /\ <<v, k>> \in Attempt
              /\ outcomeBar' = [outcomeBar EXCEPT ![<<v, k>>] = "PENDING"]
              /\ outcomeBar[<<v, k>>] = "none"
              /\ outcomeBar' # outcomeBar
    BY OutcomeBar
  <1>3. CASE UNCHANGED outcomeBar
    BY <1>2, <1>3 DEF Accountable, Attempts!vars
  <1>4. CASE <<v, k>> \in Attempt /\ outcomeBar' = [outcomeBar EXCEPT ![<<v, k>>] = "PENDING"]
             /\ outcomeBar[<<v, k>>] = "none" /\ outcomeBar' # outcomeBar
    <2>1. <<v, k>> \in PaidByPlan[v]
      BY <1>4, AttemptFacts
    <2>2. Attempts!Reserve(v, <<v, k>>)
      BY <1>1, <1>2, <1>4, <2>1, SameCardinality DEF Attempts!Reserve
    <2>3. QED
      BY <1>4, <2>1, <2>2 DEF Accountable, Attempts!Next
  <1>5. QED
    BY <1>2, <1>3, <1>4

\* An outcome that is set as the ledger or the receipt allows.
LEMMA SettleBar ==
    ASSUME Typed, NEW v \in Plan, NEW k, k \in DOMAIN outcomes[v], NEW s,
           outcomes' = [outcomes EXCEPT ![v][k] = s], UNCHANGED <<ledger, ran>>,
           \/ /\ s = "COMMITTED" /\ outcomes[v][k] \in {"PENDING", "OUTCOME_UNKNOWN"}
              /\ IF k.d \in Writes THEN <<v, k>> \in DOMAIN ledger /\ ledger[<<v, k>>] = "COMMITTED"
                                   ELSE <<v, k>> \in ran
           \/ s \in {"FAILED", "OUTCOME_UNKNOWN"} /\ outcomes[v][k] = "PENDING"
           \/ s = "PENDING" /\ outcomes[v][k] \in {"PENDING", "OUTCOME_UNKNOWN"} /\ k.d \in Writes
    PROVE  Accountable
  <1>1. /\ UNCHANGED recordBar /\ UNCHANGED (ran \cap Attempt)
        /\ \/ UNCHANGED outcomeBar
           \/ /\ <<v, k>> \in Attempt
              /\ outcomeBar' = [outcomeBar EXCEPT ![<<v, k>>] = s]
              /\ outcomeBar[<<v, k>>] = outcomes[v][k]
              /\ outcomeBar' # outcomeBar
    BY OutcomeBar
  <1>2. CASE UNCHANGED outcomeBar
    BY <1>1, <1>2 DEF Accountable, Attempts!vars
  <1>3. CASE /\ <<v, k>> \in Attempt
             /\ outcomeBar' = [outcomeBar EXCEPT ![<<v, k>>] = s]
             /\ outcomeBar[<<v, k>>] = outcomes[v][k]
             /\ outcomeBar' # outcomeBar
    <2>1. <<v, k>> \in WriteAttempt <=> k.d \in Writes
      BY <1>3, AttemptFacts
    <2>2. recordBar[<<v, k>>] = IF <<v, k>> \in DOMAIN ledger THEN ledger[<<v, k>>] ELSE "none"
      BY <1>3 DEF recordBar
    <2>3. Attempts!Commit(<<v, k>>) \/ Attempts!Doubt(<<v, k>>)
      <3>1. CASE s = "COMMITTED"
        BY <1>1, <1>3, <2>1, <2>2, <3>1 DEF Attempts!Commit
      <3>2. CASE s \in {"FAILED", "OUTCOME_UNKNOWN"}
        BY <1>1, <1>3, <3>2 DEF Attempts!Doubt
      <3>3. CASE s = "PENDING"
        <4>1. outcomes[v][k] = "OUTCOME_UNKNOWN"
          <5>1. ASSUME outcomes[v][k] = "PENDING" PROVE FALSE
            <6>1. outcomeBar = [e \in Attempt |-> outcomeBar[e]]
              BY DEF outcomeBar
            <6>2. QED
              BY <1>3, <3>3, <5>1, <6>1
          <5>2. QED
            BY <3>3, <5>1
        <4>2. QED
          BY <1>1, <1>3, <2>1, <3>3, <4>1 DEF Attempts!Doubt
      <3>4. QED
        BY <3>1, <3>2, <3>3
    <2>4. QED
      BY <1>3, <2>3 DEF Accountable, Attempts!Next
  <1>4. QED
    BY <1>1, <1>2, <1>3

LEMMA LedgerBar ==
    ASSUME Typed, NEW v \in Plan, NEW k, k \in DOMAIN outcomes[v], k.d \in Writes, UNCHANGED <<outcomes, ran>>,
           \/ /\ outcomes[v][k] = "PENDING"
              /\ <<v, k>> \in DOMAIN ledger => ledger[<<v, k>>] = "PENDING"
              /\ ledger' = Put(ledger, <<v, k>>, "PENDING")
           \/ /\ <<v, k>> \in DOMAIN ledger /\ ledger[<<v, k>>] = "PENDING" /\ <<v, k>> \in ran
              /\ ledger' = [ledger EXCEPT ![<<v, k>>] = "COMMITTED"]
    PROVE  Accountable
  <1>1. CASE /\ outcomes[v][k] = "PENDING"
             /\ <<v, k>> \in DOMAIN ledger => ledger[<<v, k>>] = "PENDING"
             /\ ledger' = Put(ledger, <<v, k>>, "PENDING")
    <2>1. /\ UNCHANGED outcomeBar /\ UNCHANGED (ran \cap Attempt)
          /\ \/ UNCHANGED recordBar
             \/ /\ <<v, k>> \in Attempt
                /\ recordBar' = [recordBar EXCEPT ![<<v, k>>] = "PENDING"]
                /\ recordBar[<<v, k>>] = IF <<v, k>> \in DOMAIN ledger THEN ledger[<<v, k>>] ELSE "none"
                /\ recordBar' # recordBar
      BY <1>1, RecordBar
    <2>2. CASE UNCHANGED recordBar
      BY <2>1, <2>2 DEF Accountable, Attempts!vars
    <2>3. CASE /\ <<v, k>> \in Attempt
               /\ recordBar' = [recordBar EXCEPT ![<<v, k>>] = "PENDING"]
               /\ recordBar[<<v, k>>] = IF <<v, k>> \in DOMAIN ledger THEN ledger[<<v, k>>] ELSE "none"
               /\ recordBar' # recordBar
      <3>1. <<v, k>> \in WriteAttempt /\ outcomeBar[<<v, k>>] = "PENDING"
        BY <1>1, <2>3, AttemptFacts DEF outcomeBar
      <3>2. recordBar[<<v, k>>] = "none"
        <4>1. ASSUME recordBar[<<v, k>>] = "PENDING" PROVE FALSE
          <5>1. recordBar = [e \in Attempt |-> recordBar[e]]
            BY DEF recordBar
          <5>2. QED
            BY <2>3, <4>1, <5>1
        <4>2. QED
          BY <1>1, <2>3, <4>1
      <3>3. Attempts!Record(<<v, k>>)
        BY <2>1, <2>3, <3>1, <3>2 DEF Attempts!Record
      <3>4. QED
        BY <2>3, <3>3 DEF Accountable, Attempts!Next
    <2>4. QED
      BY <2>1, <2>2, <2>3
  <1>2. CASE /\ <<v, k>> \in DOMAIN ledger /\ ledger[<<v, k>>] = "PENDING" /\ <<v, k>> \in ran
             /\ ledger' = [ledger EXCEPT ![<<v, k>>] = "COMMITTED"]
    <2>1. /\ UNCHANGED outcomeBar /\ UNCHANGED (ran \cap Attempt)
          /\ \/ UNCHANGED recordBar
             \/ /\ <<v, k>> \in Attempt
                /\ recordBar' = [recordBar EXCEPT ![<<v, k>>] = "COMMITTED"]
                /\ recordBar[<<v, k>>] = "PENDING"
                /\ recordBar' # recordBar
      BY <1>2, RecordBar
    <2>2. CASE UNCHANGED recordBar
      BY <2>1, <2>2 DEF Accountable, Attempts!vars
    <2>3. CASE /\ <<v, k>> \in Attempt
               /\ recordBar' = [recordBar EXCEPT ![<<v, k>>] = "COMMITTED"]
               /\ recordBar[<<v, k>>] = "PENDING"
               /\ recordBar' # recordBar
      <3>1. Attempts!Settle(<<v, k>>)
        BY <1>2, <2>1, <2>3 DEF Attempts!Settle
      <3>2. QED
        BY <2>3, <3>1 DEF Accountable, Attempts!Next
    <2>4. QED
      BY <2>1, <2>2, <2>3
  <1>3. QED
    BY <1>1, <1>2

LEMMA EffectBar ==
    ASSUME Typed, NEW v \in Plan, NEW k, k \in DOMAIN outcomes[v], outcomes[v][k] = "PENDING",
           k.d \in Writes => <<v, k>> \in DOMAIN ledger /\ ledger[<<v, k>>] = "PENDING",
           ran' = ran \cup {<<v, k>>}, UNCHANGED <<outcomes, ledger>>
    PROVE  Accountable
  <1>1. UNCHANGED <<outcomeBar, recordBar>>
    BY DEF outcomeBar, recordBar
  <1>2. CASE UNCHANGED (ran \cap Attempt)
    BY <1>1, <1>2 DEF Accountable, Attempts!vars
  <1>3. CASE (ran \cap Attempt)' # ran \cap Attempt
    <2>1. <<v, k>> \in Attempt /\ (ran \cap Attempt)' = (ran \cap Attempt) \cup {<<v, k>>}
      BY <1>3
    <2>2. outcomeBar[<<v, k>>] = "PENDING"
      BY <2>1 DEF outcomeBar
    <2>3. <<v, k>> \in WriteAttempt => recordBar[<<v, k>>] = "PENDING"
      BY <2>1, AttemptFacts DEF recordBar
    <2>4. Attempts!Materialise(<<v, k>>)
      BY <1>1, <2>1, <2>2, <2>3 DEF Attempts!Materialise
    <2>5. QED
      BY <1>3, <2>1, <2>4 DEF Accountable, Attempts!Next
  <1>4. QED
    BY <1>2, <1>3

Recorded(t, status) == Operation(t) \in DOMAIN ledger /\ ledger[Operation(t)] = status

\* While it is made, an attempt is pending, and a write's record follows it.
Account(t) ==
    /\ op[t].recover /\ op[t].pc \in {"acquire", "begin"} => op[t].key \in DOMAIN outcomes[op[t].via]
    /\ op[t].pc \in Attempting => op[t].key \in DOMAIN outcomes[op[t].via] /\ OutcomeOf(t) = "PENDING"
    /\ Recoverable(t) /\ (op[t].pc \in {"dispatch", "effect"} \/ op[t].answer = "ok") => Recorded(t, "PENDING")
    /\ op[t].answer = "committed" => Recoverable(t) /\ Recorded(t, "COMMITTED")
AccountInv == \A t \in Thread : Account(t)

\* A thread at work touches only the attempts at the step it is at.
Owns(t, k) == op[t].pc \in Working /\ k.n = op[t].n /\ k.d = Def(t)
Spares(t) ==
    \A v \in Plan : \A k \in Key : ~Owns(t, k) =>
        /\ k \in DOMAIN outcomes[v] => k \in DOMAIN outcomes'[v] /\ outcomes'[v][k] = outcomes[v][k]
        /\ <<v, k>> \in DOMAIN ledger => <<v, k>> \in DOMAIN ledger' /\ ledger'[<<v, k>>] = ledger[<<v, k>>]

\* When no step is shared, two threads never work at the same step.
LEMMA OneOwner ==
    ASSUME NoSharedStep, Typed, LockIsHeldInside, NEW t \in Thread, NEW u \in Thread,
           op[u].pc \in Working, Owns(t, [n |-> op[u].n, a |-> 0, d |-> Def(u)])
    PROVE  t = u
  <1>1. /\ op[t].plan \in Plan /\ op[u].plan \in Plan
        /\ op[t].n \in DOMAIN StepsOf[op[t].plan] /\ op[u].n \in DOMAIN StepsOf[op[u].plan]
        /\ op[t].pc \notin {"idle", "enter"} /\ op[u].pc \notin {"idle", "enter"}
        /\ op[t].n = op[u].n /\ Def(t) = Def(u)
    BY CallFacts DEF Keyed, Working, Owns
  <1>2. op[u].plan = op[t].plan
    BY <1>1 DEF NoSharedStep, Sole, HasStep, Def
  <1>3. execLock[op[t].plan] = t /\ execLock[op[t].plan] = u
    BY <1>1, <1>2 DEF LockIsHeldInside
  <1>4. QED
    BY <1>3

LEMMA OthersAccount ==
    ASSUME NoSharedStep, Typed, LockIsHeldInside, AccountInv, NEW t \in Thread, Spares(t),
           NEW u \in Thread, u # t, op'[u] = op[u]
    PROVE  Account(u)'
  <1>1. Operation(u)' = Operation(u) /\ Recoverable(u)' = Recoverable(u) /\ Account(u)
    BY DEF Operation, Recoverable, Def, AccountInv
  <1>2. CASE op[u].pc \in Keyed
    <2>1. op[u].via \in Plan /\ op[u].key \in Key /\ op[u].key.n = op[u].n /\ op[u].key.d = Def(u) /\ op[u].pc \in Working
      BY <1>2, CallFacts DEF Working
    <2>2. ~Owns(t, op[u].key)
      BY <2>1, OneOwner DEF Owns
    <2>3. /\ op[u].key \in DOMAIN outcomes[op[u].via] =>
                op[u].key \in DOMAIN outcomes'[op[u].via] /\ OutcomeOf(u)' = OutcomeOf(u)
          /\ \A s : Recorded(u, s) => Recorded(u, s)'
      BY <1>1, <2>1, <2>2 DEF Spares, OutcomeOf, Recorded, Operation
    <2>4. QED
      BY <1>1, <2>3 DEF Account
  <1>3. CASE op[u].pc \notin Keyed
    BY <1>3, CallFacts DEF Account, Keyed, Attempting
  <1>4. QED
    BY <1>2, <1>3

\* An executor that leaves the records alone and goes on.
LEMMA GoesOn ==
    ASSUME Typed, Typed', AccountInv, NEW t \in Thread, Works(t), UNCHANGED <<outcomes, ledger>>,
           op[t].pc \notin {"begin", "effect"}, op'[t].pc = "dispatch" => op[t].pc = "dispatch",
           op'[t].recover => op[t].recover /\ op'[t].key = op[t].key /\ op'[t].via = op[t].via,
           op'[t].recover /\ op'[t].pc \in {"acquire", "begin"} => op[t].pc \in {"acquire", "begin"},
           op'[t].answer \in {"ok", "committed"} => op'[t].answer = op[t].answer
    PROVE  Account(t)' /\ Spares(t)
  <1>1. PICK o \in ShapedCall : op' = [op EXCEPT ![t] = o] /\ Follows(t, o)
    BY DEF Works
  <1>2. op'[t] = o /\ Account(t)
    BY <1>1 DEF Typed, AccountInv
  <1>3. Spares(t)
    BY DEF Spares
  <1>4. CASE o.pc \in Attempting
    <2>1. /\ op[t].pc \in Attempting
          /\ op'[t].via = op[t].via /\ op'[t].key = op[t].key /\ Operation(t)' = Operation(t)
          /\ (Recoverable(t)' <=> Recoverable(t))
      BY <1>1, <1>4, AttemptSteps
    <2>2. OutcomeOf(t)' = OutcomeOf(t) /\ \A s : Recorded(t, s) => Recorded(t, s)'
      BY <2>1 DEF OutcomeOf, Recorded
    <2>3. op'[t].pc = "effect" => op[t].pc = "dispatch"
      BY <1>1, <1>2 DEF Follows
    <2>4. op'[t].pc \notin {"acquire", "begin"}
      BY <1>2, <1>4 DEF Attempting
    <2>5. QED
      BY <1>2, <1>3, <1>4, <2>1, <2>2, <2>3, <2>4 DEF Account
  <1>5. CASE o.pc \notin Attempting
    <2>1. op'[t].pc \notin {"dispatch", "effect", "release", "settle"} /\ op'[t].answer = "none"
      BY <1>2, <1>5 DEF Attempting, ShapedCall
    <2>2. QED
      BY <1>2, <1>3, <1>5, <2>1 DEF Account, Attempting
  <1>6. QED
    BY <1>4, <1>5

\* An executor that has its answer has nothing left to account for.
LEMMA AnswerAccounts ==
    ASSUME Typed, NEW t \in Thread, NEW status, Answer(t, status)
    PROVE  Account(t)'
  <1>1. /\ op'[t].pc \in {"step", "finish"} /\ op'[t].answer = "none"
    BY DEF Answer, Typed, ShapedCall, CallRecord
  <1>2. QED
    BY <1>1 DEF Account, Attempting

LEMMA SpareOutcome ==
    ASSUME Typed, NEW t \in Thread, NEW v \in Plan, NEW k, NEW s, Owns(t, k),
           outcomes' = [outcomes EXCEPT ![v][k] = s] \/ outcomes' = [outcomes EXCEPT ![v] = Put(@, k, s)],
           UNCHANGED ledger
    PROVE  Spares(t)
  <1>0. outcomes \in [Plan -> OutcomeTable]
    BY DEF Typed
  <1>1. ASSUME NEW w \in Plan, NEW l \in Key, ~Owns(t, l), l \in DOMAIN outcomes[w]
        PROVE  l \in DOMAIN outcomes'[w] /\ outcomes'[w][l] = outcomes[w][l]
    <2>1. l # k
      BY <1>1
    <2>2. CASE w = v
      <3>1. outcomes'[v] = [outcomes[v] EXCEPT ![k] = s] \/ outcomes'[v] = Put(outcomes[v], k, s)
        BY <1>0
      <3>2. QED
        BY <1>1, <2>1, <2>2, <3>1 DEF Put
    <2>3. CASE w # v
      BY <1>0, <1>1, <2>3
    <2>4. QED
      BY <2>2, <2>3
  <1>2. QED
    BY <1>1 DEF Spares

LEMMA SpareRecord ==
    ASSUME Typed, NEW t \in Thread, op[t].pc \in Keyed,
           \/ ledger' = Put(ledger, Operation(t), "PENDING")
           \/ ledger' = [ledger EXCEPT ![Operation(t)] = "COMMITTED"],
           UNCHANGED outcomes
    PROVE  Spares(t)
  <1>1. Owns(t, op[t].key)
    BY CallFacts DEF Owns, Working
  <1>2. ASSUME NEW w \in Plan, NEW l \in Key, ~Owns(t, l), <<w, l>> \in DOMAIN ledger
        PROVE  <<w, l>> \in DOMAIN ledger' /\ ledger'[<<w, l>>] = ledger[<<w, l>>]
    <2>1. <<w, l>> # Operation(t)
      BY <1>1, <1>2 DEF Operation
    <2>2. QED
      BY <1>2, <2>1 DEF Put
  <1>3. QED
    BY <1>2 DEF Spares

LEMMA WorkAccounts ==
    ASSUME NoSharedStep, Typed, Typed', PaidInv, PlaceInv, AccountInv, NEW t \in Thread, Work(t)
    PROVE  Accountable /\ Spares(t) /\ Account(t)'
  <1> DEFINE Done == Accountable /\ Spares(t) /\ Account(t)'
  <1>0. /\ op[t] \in ShapedCall /\ op \in [Thread -> ShapedCall] /\ Account(t) /\ Works(t)
        /\ outcomes \in [Plan -> OutcomeTable]
    BY WorkSteps DEF Typed, AccountInv
  <1>g. ASSUME UNCHANGED <<outcomes, ledger, ran>>, op[t].pc \notin {"begin", "effect"},
               op'[t].pc = "dispatch" => op[t].pc = "dispatch",
               op'[t].recover => op[t].recover /\ op'[t].key = op[t].key /\ op'[t].via = op[t].via,
               op'[t].recover /\ op'[t].pc \in {"acquire", "begin"} => op[t].pc \in {"acquire", "begin"},
               op'[t].answer \in {"ok", "committed"} => op'[t].answer = op[t].answer
        PROVE  Done
    BY <1>0, <1>g, GoesOn, BarStutter
  <1>a. ASSUME NEW s, Answer(t, s), UNCHANGED <<outcomes, ledger, ran>> PROVE Done
    BY <1>a, AnswerAccounts, BarStutter DEF Spares
  <1>1. CASE EndOfLoop(t) \/ SkipDone(t)
    <2>1. op[t].pc = "step" /\ op[t].recover = FALSE /\ op[t].answer = "none" /\ UNCHANGED <<outcomes, ledger, ran>>
      BY <1>0, <1>1 DEF EndOfLoop, SkipDone, At, volatile, ShapedCall, CallRecord, Keyed
    <2>2. op'[t].pc \in {"step", "finish"} /\ op'[t].recover = FALSE /\ op'[t].answer = "none"
      BY <1>0, <1>1, <2>1 DEF EndOfLoop, SkipDone, Goto, ShapedCall, CallRecord
    <2>3. QED
      BY <1>g, <2>1, <2>2
  <1>2. CASE CallExecutor(t)
    <2>1. op[t].pc = "step" /\ op[t].recover = FALSE /\ op[t].answer = "none" /\ UNCHANGED <<outcomes, ledger, ran>>
      BY <1>0, <1>2 DEF CallExecutor, At, ShapedCall, CallRecord, Keyed
    <2>2. ASSUME op' = [op EXCEPT ![t] = [@ EXCEPT !.pc = "lookup", !.via = executor]] PROVE Done
      <3>1. op'[t].pc = "lookup" /\ op'[t].recover = FALSE /\ op'[t].answer = "none"
        BY <1>0, <2>1, <2>2 DEF ShapedCall, CallRecord
      <3>2. QED
        BY <1>g, <2>1, <3>1
    <2>3. QED
      BY <1>2, <1>a, <2>1, <2>2 DEF CallExecutor
  <1>3. CASE LookupFresh(t)
    <2>1. op[t].pc = "lookup" /\ op[t].recover = FALSE /\ op[t].answer = "none" /\ UNCHANGED <<outcomes, ledger, ran>>
      BY <1>0, <1>3 DEF LookupFresh, At, volatile, ShapedCall, CallRecord, Keyed
    <2>2. op'[t].pc = "acquire" /\ op'[t].recover = FALSE /\ op'[t].answer = "none"
      BY <1>0, <1>3, <2>1 DEF LookupFresh, ShapedCall, CallRecord
    <2>3. QED
      BY <1>g, <2>1, <2>2
  <1>4. CASE LookupUnresolved(t)
    <2>0. op[t].pc = "lookup" /\ Recoverable(t) /\ op[t].via \in Plan /\ UNCHANGED <<ledger, ran>> /\ op[t].answer = "none"
      BY <1>0, <1>4, CallFacts DEF LookupUnresolved, At, Working
    <2>1. PICK k \in Unresolved(t) :
             \/ /\ op' = [op EXCEPT ![t] = [@ EXCEPT !.pc = "acquire", !.key = k, !.recover = TRUE]]
                /\ UNCHANGED outcomes
             \/ /\ <<op[t].via, k>> \in DOMAIN ledger /\ ledger[<<op[t].via, k>>] = "COMMITTED"
                /\ outcomes' = [outcomes EXCEPT ![op[t].via][k] = "COMMITTED"]
                /\ Answer(t, "done")
             \/ (\E s \in {"blocked", "failed"} : Answer(t, s)) /\ UNCHANGED outcomes
      BY <1>4 DEF LookupUnresolved
    <2>2. k \in DOMAIN outcomes[op[t].via] /\ k.d \in Writes /\ Owns(t, k)
          /\ outcomes[op[t].via][k] \in {"PENDING", "OUTCOME_UNKNOWN"}
      BY <2>0 DEF Unresolved, Recoverable, Owns, Working
    <2>3. CASE /\ op' = [op EXCEPT ![t] = [@ EXCEPT !.pc = "acquire", !.key = k, !.recover = TRUE]]
               /\ UNCHANGED outcomes
      <3>1. op'[t].pc = "acquire" /\ op'[t].key = k /\ op'[t].via = op[t].via /\ op'[t].answer = "none"
        BY <1>0, <2>0, <2>3 DEF ShapedCall, CallRecord
      <3>2. Account(t)'
        BY <2>2, <2>3, <3>1 DEF Account, Attempting
      <3>3. QED
        BY <2>0, <2>3, <3>2, BarStutter DEF Spares
    <2>4. CASE /\ <<op[t].via, k>> \in DOMAIN ledger /\ ledger[<<op[t].via, k>>] = "COMMITTED"
               /\ outcomes' = [outcomes EXCEPT ![op[t].via][k] = "COMMITTED"]
               /\ Answer(t, "done")
      BY <2>0, <2>2, <2>4, AnswerAccounts, SpareOutcome, SettleBar
    <2>5. QED
      BY <1>a, <2>0, <2>1, <2>3, <2>4
  <1>5. CASE Acquire(t)
    <2>1. op[t].pc = "acquire" /\ op[t].answer = "none" /\ UNCHANGED <<outcomes, ledger, ran>>
      BY <1>0, <1>5, CallFacts DEF Acquire, At
    <2>2. ASSUME Goto(t, "begin") PROVE Done
      <3>1. /\ op'[t].pc = "begin" /\ op'[t].recover = op[t].recover /\ op'[t].answer = "none"
            /\ op'[t].key = op[t].key /\ op'[t].via = op[t].via
        BY <1>0, <2>1, <2>2 DEF Goto, ShapedCall, CallRecord
      <3>2. QED
        BY <1>g, <2>1, <3>1
    <2>3. QED
      BY <1>5, <1>a, <2>1, <2>2 DEF Acquire
  <1>k. op[t].pc \in Keyed => /\ op[t].via \in Plan /\ Owns(t, op[t].key) /\ op[t].key.d = Def(t)
                              /\ Operation(t) = <<op[t].via, op[t].key>>
    BY CallFacts DEF Owns, Working, Operation
  <1>6. CASE Resume(t)
    <2>1. op[t].pc = "begin" /\ op[t].recover /\ Recoverable(t) /\ UNCHANGED <<ledger, ran>>
          /\ op[t].pc \in Keyed /\ op[t].answer = "none"
      BY <1>6, CallFacts DEF Resume, At, Keyed
    <2>2. op[t].key \in DOMAIN outcomes[op[t].via] /\ op[t].key.d \in Writes
      BY <1>0, <1>k, <2>1 DEF Account, Recoverable
    <2>3. ASSUME OutcomeOf(t) \in {"PENDING", "OUTCOME_UNKNOWN"}, SetOutcome(t, "PENDING"), Goto(t, "prepare")
          PROVE  Done
      <3>1. outcomes' = [outcomes EXCEPT ![op[t].via][op[t].key] = "PENDING"]
        BY <2>3 DEF SetOutcome
      <3>2. /\ op'[t].pc = "prepare" /\ op'[t].answer = "none" /\ op'[t].key = op[t].key /\ op'[t].via = op[t].via
        BY <1>0, <2>1, <2>3 DEF Goto, ShapedCall, CallRecord
      <3>3. op[t].key \in DOMAIN outcomes'[op[t].via] /\ outcomes'[op[t].via][op[t].key] = "PENDING"
        BY <1>0, <1>k, <2>1, <2>2, <3>1
      <3>4. Account(t)'
        BY <3>2, <3>3 DEF Account, OutcomeOf
      <3>5. QED
        BY <1>k, <2>1, <2>2, <2>3, <3>1, <3>4, SpareOutcome, SettleBar DEF OutcomeOf
    <2>4. QED
      BY <1>6, <1>a, <2>1, <2>3 DEF Resume, Refuse
  <1>7. CASE BeginAttempt(t)
    <2>1. op[t].pc = "begin" /\ op[t].pc \in Keyed /\ op[t].answer = "none" /\ op[t].key \in Key
      BY <1>7, CallFacts DEF BeginAttempt, At, Keyed
    <2>2. /\ op[t].key \notin DOMAIN outcomes[op[t].via] /\ consumed[op[t].via] < Budget[op[t].via]
          /\ outcomes' = [outcomes EXCEPT ![op[t].via] = Put(@, op[t].key, "PENDING")]
          /\ UNCHANGED <<ledger, ran>>
      BY <1>7 DEF BeginAttempt, MayReserve
    <2>3. PICK pc \in {"prepare", "dispatch"} : Goto(t, pc) /\ (pc = "dispatch" => ~Recoverable(t))
      BY <1>7 DEF BeginAttempt
    <2>4. /\ op'[t].pc = pc /\ op'[t].answer = "none" /\ op'[t].key = op[t].key /\ op'[t].via = op[t].via
          /\ Recoverable(t)' = Recoverable(t)
      BY <1>0, <2>1, <2>3 DEF Goto, ShapedCall, CallRecord, Recoverable, Def
    <2>5. op[t].key \in DOMAIN outcomes'[op[t].via] /\ outcomes'[op[t].via][op[t].key] = "PENDING"
      BY <1>0, <1>k, <2>1, <2>2 DEF Put
    <2>6. Account(t)'
      BY <2>3, <2>4, <2>5 DEF Account, OutcomeOf
    <2>7. QED
      BY <1>k, <2>1, <2>2, <2>6, SpareOutcome, ReserveBar
  <1>8. CASE BeginRefused(t)
    BY <1>8, <1>a DEF BeginRefused, Refuse
  <1>9. CASE Prepare(t)
    <2>1. op[t].pc = "prepare" /\ Recoverable(t) /\ op[t].pc \in Keyed /\ op[t].answer = "none" /\ UNCHANGED ran
      BY <1>9, CallFacts DEF Prepare, At, Keyed
    <2>2. op[t].key \in DOMAIN outcomes[op[t].via] /\ OutcomeOf(t) = "PENDING" /\ op[t].key.d \in Writes
      BY <1>0, <1>k, <2>1 DEF Account, Recoverable, Attempting
    <2>3. ASSUME Operation(t) \in DOMAIN ledger => ledger[Operation(t)] = "PENDING",
                 ledger' = Put(ledger, Operation(t), "PENDING"), Goto(t, "dispatch"), UNCHANGED outcomes
          PROVE  Done
      <3>1. /\ op'[t].pc = "dispatch" /\ op'[t].answer = "none" /\ op'[t].key = op[t].key /\ op'[t].via = op[t].via
        BY <1>0, <2>1, <2>3 DEF Goto, ShapedCall, CallRecord
      <3>2. Operation(t)' = Operation(t) /\ Recorded(t, "PENDING")'
        BY <2>3, <3>1 DEF Operation, Recorded, Put
      <3>3. Account(t)'
        BY <2>2, <2>3, <3>1, <3>2 DEF Account, OutcomeOf
      <3>4. QED
        BY <1>k, <2>1, <2>2, <2>3, <3>3, SpareRecord, LedgerBar DEF OutcomeOf
    <2>4. ASSUME Operation(t) \in DOMAIN ledger, ledger[Operation(t)] = "COMMITTED", SetOutcome(t, "COMMITTED"),
                 Answer(t, "done"), UNCHANGED ledger
          PROVE  Done
      <3>1. outcomes' = [outcomes EXCEPT ![op[t].via][op[t].key] = "COMMITTED"]
        BY <2>4 DEF SetOutcome
      <3>2. QED
        BY <1>k, <2>1, <2>2, <2>4, <3>1, AnswerAccounts, SpareOutcome, SettleBar DEF OutcomeOf
    <2>5. QED
      BY <1>9, <1>a, <2>1, <2>3, <2>4 DEF Prepare, Refuse
  <1>10. CASE Dispatch(t)
    <2>1. op[t].pc = "dispatch" /\ op[t].answer = "none" /\ UNCHANGED <<outcomes, ledger, ran>>
      BY <1>10, CallFacts DEF Dispatch, At, volatile
    <2>2. /\ op'[t].pc = "effect" /\ op'[t].recover = op[t].recover /\ op'[t].answer = "none"
          /\ op'[t].key = op[t].key /\ op'[t].via = op[t].via
      BY <1>0, <1>10, <2>1 DEF Dispatch, Goto, ShapedCall, CallRecord
    <2>3. QED
      BY <1>g, <2>1, <2>2
  <1>11. CASE DispatchRefused(t)
    <2>1. op[t].pc = "dispatch" /\ UNCHANGED <<outcomes, ledger, ran>>
      BY <1>11 DEF DispatchRefused, At, volatile
    <2>2. /\ op'[t].pc = "release" /\ op'[t].recover = op[t].recover /\ op'[t].answer = "refused"
          /\ op'[t].key = op[t].key /\ op'[t].via = op[t].via
      BY <1>0, <1>11, <2>1 DEF DispatchRefused, ShapedCall, CallRecord
    <2>3. QED
      BY <1>g, <2>1, <2>2
  <1>12. CASE Effect(t)
    <2>1. op[t].pc = "effect" /\ op[t].pc \in Keyed /\ UNCHANGED <<outcomes, ledger>>
      BY <1>12 DEF Effect, At, volatile, Keyed
    <2>2. PICK answer \in {"ok", "error", "refused", "raised"} :
             /\ op' = [op EXCEPT ![t] = [@ EXCEPT !.pc = "release", !.answer = answer]]
             /\ ran' = ran \cup {Operation(t)} \/ UNCHANGED ran
      BY <1>12 DEF Effect
    <2>3. /\ op[t].key \in DOMAIN outcomes[op[t].via] /\ OutcomeOf(t) = "PENDING"
          /\ Recoverable(t) => Recorded(t, "PENDING")
      BY <1>0, <2>1 DEF Account, Attempting
    <2>4. /\ op'[t].pc = "release" /\ op'[t].answer = answer /\ op'[t].key = op[t].key /\ op'[t].via = op[t].via
          /\ Recoverable(t)' = Recoverable(t)
      BY <1>0, <2>2 DEF ShapedCall, CallRecord, Recoverable, Def
    <2>5. Account(t)'
      BY <2>1, <2>2, <2>3, <2>4 DEF Account, OutcomeOf, Recorded, Operation
    <2>6. Accountable
      <3>1. CASE UNCHANGED ran
        BY <2>1, <3>1, BarStutter
      <3>2. CASE ran' = ran \cup {Operation(t)}
        BY <1>k, <2>1, <2>3, <3>2, EffectBar DEF OutcomeOf, Recorded, Recoverable
      <3>3. QED
        BY <2>2, <3>1, <3>2
    <2>7. QED
      BY <2>1, <2>5, <2>6 DEF Spares
  <1>13. CASE Release(t)
    <2>1. op[t].pc = "release" /\ UNCHANGED <<outcomes, ledger, ran>>
      BY <1>13 DEF Release, At
    <2>2. ASSUME Goto(t, "settle") PROVE Done
      <3>1. /\ op'[t].pc = "settle" /\ op'[t].recover = op[t].recover /\ op'[t].answer = op[t].answer
            /\ op'[t].key = op[t].key /\ op'[t].via = op[t].via
        BY <1>0, <2>2 DEF Goto, ShapedCall, CallRecord
      <3>2. QED
        BY <1>g, <2>1, <3>1
    <2>3. QED
      BY <1>13, <1>a, <2>1, <2>2 DEF Release
  <1>14. CASE SettleWrite(t)
    <2>1. op[t].pc = "settle" /\ op[t].pc \in Keyed /\ op[t].answer = "ok" /\ Recoverable(t) /\ UNCHANGED ran
      BY <1>14 DEF SettleWrite, At, Keyed
    <2>2. /\ op[t].key \in DOMAIN outcomes[op[t].via] /\ OutcomeOf(t) = "PENDING" /\ op[t].key.d \in Writes
          /\ Recorded(t, "PENDING") /\ Operation(t) \in ran
      BY <1>0, <1>k, <2>1 DEF Account, Attempting, Recoverable, PlaceInv
    <2>3. ASSUME ledger' = [ledger EXCEPT ![Operation(t)] = "COMMITTED"],
                 op' = [op EXCEPT ![t].answer = "committed"], UNCHANGED outcomes
          PROVE  Done
      <3>1. /\ op'[t].pc = "settle" /\ op'[t].answer = "committed" /\ op'[t].key = op[t].key /\ op'[t].via = op[t].via
            /\ Recoverable(t)' = Recoverable(t)
        BY <1>0, <2>1, <2>3 DEF ShapedCall, CallRecord, Recoverable, Def
      <3>2. Recorded(t, "COMMITTED")' /\ OutcomeOf(t)' = OutcomeOf(t)
        BY <2>2, <2>3, <3>1 DEF Recorded, Operation, OutcomeOf
      <3>3. Account(t)'
        BY <2>1, <2>2, <2>3, <3>1, <3>2 DEF Account
      <3>4. QED
        BY <1>k, <2>1, <2>2, <2>3, <3>3, SpareRecord, LedgerBar DEF Recorded
    <2>4. ASSUME SetOutcome(t, "OUTCOME_UNKNOWN"), Answer(t, "blocked"), UNCHANGED ledger
          PROVE  Done
      <3>1. outcomes' = [outcomes EXCEPT ![op[t].via][op[t].key] = "OUTCOME_UNKNOWN"]
        BY <2>4 DEF SetOutcome
      <3>2. QED
        BY <1>k, <2>1, <2>2, <2>4, <3>1, AnswerAccounts, SpareOutcome, SettleBar DEF OutcomeOf
    <2>5. QED
      BY <1>14, <2>1, <2>3, <2>4 DEF SettleWrite
  <1>15. CASE Settle(t)
    <2>1. op[t].pc = "settle" /\ op[t].pc \in Keyed /\ UNCHANGED <<ledger, ran>>
      BY <1>15 DEF Settle, At, Keyed
    <2>2. op[t].key \in DOMAIN outcomes[op[t].via] /\ OutcomeOf(t) = "PENDING"
      BY <1>0, <2>1 DEF Account, Attempting
    <2>3. ASSUME NEW s \in {"FAILED", "OUTCOME_UNKNOWN", "COMMITTED"}, NEW status, SetOutcome(t, s), Answer(t, status),
                 s = "COMMITTED" => op[t].answer \in (IF Recoverable(t) THEN {"committed"} ELSE {"ok"})
          PROVE  Done
      <3>1. outcomes' = [outcomes EXCEPT ![op[t].via][op[t].key] = s]
        BY <2>3 DEF SetOutcome
      <3>2. s = "COMMITTED" =>
               IF op[t].key.d \in Writes THEN Operation(t) \in DOMAIN ledger /\ ledger[Operation(t)] = "COMMITTED"
                                         ELSE Operation(t) \in ran
        BY <1>0, <1>k, <2>1, <2>3 DEF Account, Recorded, Recoverable, PlaceInv
      <3>3. Accountable
        BY <1>k, <2>1, <2>2, <2>3, <3>1, <3>2, SettleBar DEF OutcomeOf
      <3>4. QED
        BY <1>k, <2>1, <2>3, <3>1, <3>3, AnswerAccounts, SpareOutcome
    <2>4. QED
      BY <1>15, <2>3 DEF Settle
  <1>16. QED
    BY <1>1, <1>2, <1>3, <1>4, <1>5, <1>6, <1>7, <1>8, <1>9, <1>10, <1>11, <1>12, <1>13, <1>14, <1>15 DEF Work

LEMMA AccountInit == Init => AccountInv
  BY DEF Init, Idle, AccountInv, Account, Attempting

LEMMA AccountIdle ==
    ASSUME AccountInv, UNCHANGED <<outcomes, ledger>>,
           \A t \in Thread : op'[t] = op[t] \/ (op'[t].pc \in {"idle", "enter", "step"} /\ op'[t].answer = "none")
    PROVE  AccountInv'
  <1> SUFFICES ASSUME NEW t \in Thread PROVE Account(t)'
    BY DEF AccountInv
  <1>1. CASE op'[t] = op[t]
    BY <1>1 DEF AccountInv, Account, Recorded, Recoverable, Def, Operation, OutcomeOf
  <1>2. CASE op'[t].pc \in {"idle", "enter", "step"} /\ op'[t].answer = "none"
    BY <1>2 DEF Account, Attempting
  <1>3. QED
    BY <1>1, <1>2

LEMMA AccountStep ==
    ASSUME NoSharedStep, Typed, LockIsHeldInside, PaidInv, PlaceInv, AccountInv, [Next]_vars
    PROVE  AccountInv' /\ Accountable
  <1>0. Typed' /\ op \in [Thread -> ShapedCall]
    BY TypedStep DEF Typed
  <1>1. ASSUME NEW t \in Thread, Work(t) PROVE AccountInv' /\ Accountable
    <2>1. Accountable /\ Spares(t) /\ Account(t)'
      BY <1>0, <1>1, WorkAccounts
    <2>2. \A u \in Thread \ {t} : op'[u] = op[u]
      BY <1>0, <1>1, WorkSteps DEF Works
    <2>3. \A u \in Thread \ {t} : Account(u)'
      BY <2>1, <2>2, OthersAccount
    <2>4. QED
      BY <2>1, <2>3 DEF AccountInv
  <1>2. ASSUME NEW t \in Thread, Enter(t) PROVE AccountInv' /\ Accountable
    <2>1. op[t].answer = "none" /\ op[t] \in ShapedCall /\ UNCHANGED <<outcomes, ledger, ran>>
      BY <1>0, <1>2, CallFacts DEF Enter, At
    <2>2. op'[t].answer = "none" /\ op'[t].pc = "step" /\ \A u \in Thread \ {t} : op'[u] = op[u]
      BY <1>0, <1>2, <2>1 DEF Enter, ShapedCall, CallRecord
    <2>3. QED
      BY <2>1, <2>2, AccountIdle, BarStutter
  <1>3. ASSUME NEW t \in Thread, Finish(t) PROVE AccountInv' /\ Accountable
    <2>1. op'[t].answer = "none" /\ op'[t].pc = "idle" /\ \A u \in Thread \ {t} : op'[u] = op[u]
      BY <1>0, <1>3 DEF Finish, Idle
    <2>2. UNCHANGED <<outcomes, ledger, ran>>
      BY <1>3 DEF Finish
    <2>3. QED
      BY <2>1, <2>2, AccountIdle, BarStutter
  <1>4. ASSUME NEW t \in Thread, NEW p \in Plan, Start(t, p) PROVE AccountInv' /\ Accountable
    <2>1. op'[t].answer = "none" /\ op'[t].pc = "enter" /\ \A u \in Thread \ {t} : op'[u] = op[u]
      BY <1>0, <1>4 DEF Start, Idle
    <2>2. UNCHANGED <<outcomes, ledger, ran>>
      BY <1>4 DEF Start
    <2>3. QED
      BY <2>1, <2>2, AccountIdle, BarStutter
  <1>5. CASE Crash
    <2>1. DOMAIN << >> = {}
      OBVIOUS
    <2>2. outcomeBar' = [o \in Attempt |-> "none"]
      <3>1. \A o \in Attempt : o[1] \in Plan
        BY DEF Attempt
      <3>2. \A o \in Attempt : o[2] \notin DOMAIN outcomes'[o[1]]
        BY <1>5, <2>1, <3>1 DEF Crash
      <3>3. QED
        BY <3>2 DEF outcomeBar
    <2>3. UNCHANGED recordBar /\ UNCHANGED (ran \cap Attempt)
      BY <1>5 DEF Crash, recordBar
    <2>4. Accountable
      <3>1. CASE UNCHANGED outcomeBar
        BY <2>3, <3>1 DEF Accountable, Attempts!vars
      <3>2. CASE outcomeBar' # outcomeBar
        <4>1. Attempts!Forget
          BY <2>2, <2>3 DEF Attempts!Forget
        <4>2. QED
          BY <3>2, <4>1 DEF Accountable, Attempts!Next
      <3>3. QED
        BY <3>1, <3>2
    <2>5. \A t \in Thread : op'[t].pc = "idle" /\ op'[t].answer = "none"
      BY <1>5 DEF Crash, Idle
    <2>6. AccountInv'
      BY <2>5 DEF AccountInv, Account, Attempting
    <2>7. QED
      BY <2>4, <2>6
  <1>6. CASE (\E p \in Plan : Retry(p)) \/ (\E r \in Resource : Lapse(r)) \/ Cancel \/ UNCHANGED vars
    <2>1. UNCHANGED <<outcomes, ledger, ran, op>>
      BY <1>6 DEF Retry, Lapse, Cancel, volatile, vars
    <2>2. QED
      BY <2>1, AccountIdle, BarStutter
  <1>7. QED
    BY <1>1, <1>2, <1>3, <1>4, <1>5, <1>6, NextCases

LEMMA AccountableInit == Init => Attempts!Init
  <1> SUFFICES ASSUME Init PROVE Attempts!Init
    OBVIOUS
  <1>1. DOMAIN << >> = {}
    OBVIOUS
  <1>2. \A o \in Attempt : o[1] \in Plan
    BY DEF Attempt
  <1>3. outcomeBar = [o \in Attempt |-> "none"]
    <2>1. \A o \in Attempt : o[2] \notin DOMAIN outcomes[o[1]]
      BY <1>1, <1>2 DEF Init
    <2>2. QED
      BY <2>1 DEF outcomeBar
  <1>4. recordBar = [o \in Attempt |-> "none"]
    <2>1. \A o \in Attempt : o \notin DOMAIN ledger
      BY <1>1 DEF Init
    <2>2. QED
      BY <2>1 DEF recordBar
  <1>5. ran \cap Attempt = {}
    BY DEF Init
  <1>6. QED
    BY <1>3, <1>4, <1>5 DEF Attempts!Init

-----------------------------------------------------------------------------
(* Theorems *)

IInv == Typed /\ LockIsHeldInside /\ PaidInv /\ PlaceInv /\ BlindInv

LEMMA SpecIInv == Spec => []IInv
  <1>1. Init => IInv
    BY TypedInit, LockInit, PaidInit, PlaceInit, BlindInit DEF IInv
  <1>2. IInv /\ [Next]_vars => IInv'
    <2> SUFFICES ASSUME IInv, [Next]_vars PROVE IInv'
      OBVIOUS
    <2>1. Typed /\ LockIsHeldInside /\ PaidInv /\ PlaceInv /\ BlindInv
      BY DEF IInv
    <2>2. QED
      BY <2>1, TypedStep, LockStep, PaidStep, PlaceStep, BlindStep DEF IInv
  <1>3. QED
    BY <1>1, <1>2, PTL DEF Spec

\* Every table holds what the code may write there.
THEOREM Typing == Spec => []TypeOK
  <1>1. IInv => TypeOK
    BY TypedOK DEF IInv
  <1>2. QED
    BY SpecIInv, <1>1, PTL

\* A plan's execution lock is held by the thread that runs it, and by nobody else.
THEOREM LocksAreHeldInside == Spec => []LockIsHeldInside
  <1>1. IInv => LockIsHeldInside
    BY DEF IInv
  <1>2. QED
    BY SpecIInv, <1>1, PTL

\* The budget of a plan pays for every attempt recorded under it, whoever makes it.
THEOREM AttemptsArePaid == Spec => []EveryAttemptIsPaid
  <1>1. IInv => EveryAttemptIsPaid
    BY DEF IInv, PaidInv
  <1>2. QED
    BY SpecIInv, <1>1, PTL

\* A step is done only if an effect of its own definition took place.
THEOREM DoneStepsTookPlace == Spec => []DoneTookPlace
  <1>1. IInv => DoneTookPlace
    BY DEF IInv, PlaceInv
  <1>2. QED
    BY SpecIInv, <1>1, PTL

\* Only a dispatch whose child is declared reaches the sink.
LEMMA DispatchSteps ==
    ASSUME Typed, [Next]_vars, NEW t \in Thread, op[t].pc = "dispatch", op'[t].pc = "effect"
    PROVE  Declared(t)
  <1>0. op \in [Thread -> ShapedCall]
    BY DEF Typed
  <1>1. ASSUME NEW u \in Thread, Work(u) PROVE Declared(t)
    <2>1. PICK o \in ShapedCall : op' = [op EXCEPT ![u] = o] /\ Follows(u, o)
      BY <1>1, WorkSteps DEF Works
    <2>2. u = t /\ o.pc = "effect"
      BY <1>0, <2>1
    <2>3. QED
      BY <2>1, <2>2 DEF Follows
  <1>2. ASSUME NEW u \in Thread, Enter(u) \/ Finish(u) \/ \E p \in Plan : Start(u, p) PROVE FALSE
    <2>1. op[u].pc # "dispatch" /\ \A w \in Thread \ {u} : op'[w] = op[w]
      BY <1>0, <1>2 DEF Enter, Finish, Start, At
    <2>2. QED
      BY <2>1
  <1>3. ASSUME Crash PROVE FALSE
    BY <1>3 DEF Crash, Idle
  <1>4. ASSUME (\E p \in Plan : Retry(p)) \/ (\E r \in Resource : Lapse(r)) \/ Cancel \/ UNCHANGED vars
        PROVE  FALSE
    BY <1>4 DEF Retry, Lapse, Cancel, volatile, vars
  <1>5. QED
    BY <1>1, <1>2, <1>3, <1>4, NextCases

\* A command is not dispatched again under its key, nor past an unknown outcome of a step
\* that no other plan has.
THEOREM CommandsAreNotRepeatedBlindly == Spec => NoBlindRepeat
  <1>1. IInv /\ [Next]_vars =>
           [\A t \in Thread : op[t].pc = "dispatch" /\ op'[t].pc = "effect" /\ ~Recoverable(t) =>
               /\ Operation(t) \notin ran
               /\ Sole(op[t].n, Def(t)) => ~UnknownStep(t)]_vars
    <2> SUFFICES ASSUME IInv, [Next]_vars, NEW t \in Thread,
                        op[t].pc = "dispatch", op'[t].pc = "effect", ~Recoverable(t)
                 PROVE  Operation(t) \notin ran /\ (Sole(op[t].n, Def(t)) => ~UnknownStep(t))
      OBVIOUS
    <2>1. Typed /\ BlindInv
      BY DEF IInv
    <2>2. Declared(t)
      BY <2>1, DispatchSteps
    <2>3. QED
      BY <2>1, <2>2 DEF BlindInv
  <1>2. QED
    BY SpecIInv, <1>1, PTL DEF Spec, NoBlindRepeat

\* When no two plans have the same step, the sidecars and the ledger implement the
\* attempts of AttemptLedger.
THEOREM AttemptsAreKept == NoSharedStep => (Spec => AttemptsAreAccountable)
  <1> SUFFICES ASSUME NoSharedStep PROVE Spec => AttemptsAreAccountable
    OBVIOUS
  <1>1. Init => IInv /\ AccountInv /\ Attempts!Init
    BY TypedInit, LockInit, PaidInit, PlaceInit, BlindInit, AccountInit, AccountableInit DEF IInv
  <1>2. (IInv /\ AccountInv) /\ [Next]_vars => AccountInv' /\ [Attempts!Next]_(Attempts!vars)
    <2> SUFFICES ASSUME IInv, AccountInv, [Next]_vars PROVE AccountInv' /\ [Attempts!Next]_(Attempts!vars)
      OBVIOUS
    <2>1. Typed /\ LockIsHeldInside /\ PaidInv /\ PlaceInv
      BY DEF IInv
    <2>2. AccountInv' /\ Accountable
      BY <2>1, AccountStep
    <2>3. QED
      BY <2>2 DEF Accountable
  <1>3. QED
    BY SpecIInv, <1>1, <1>2, PTL DEF Spec, AttemptsAreAccountable, Attempts!Spec
=============================================================================
