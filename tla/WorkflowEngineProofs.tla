------------------------ MODULE WorkflowEngineProofs ------------------------
(* What the engine guarantees for every definition of a workflow and every  *)
(* number of processes, crashes, retries and cancellations.                 *)
EXTENDS WorkflowEngine, FiniteSetTheorems, TLAPS

-----------------------------------------------------------------------------
(* The operators of instance.ts return instances.                           *)

LEMMA FreshTyped ==
  ASSUME NEW barrier \in Step \cup {Nil}
  PROVE  Fresh(barrier) \in Token
BY DEF Fresh, Token

LEMMA WithTokenTyped ==
  ASSUME NEW i \in Instance, NEW s, NEW token \in Token
  PROVE  WithToken(i, s, token) \in Instance
BY DEF Instance, WithToken

LEMMA WithoutTokenTyped ==
  ASSUME NEW i \in Instance, NEW s
  PROVE  WithoutToken(i, s) \in Instance
BY DEF Instance, WithoutToken

LEMMA AppendHistoryTyped ==
  ASSUME NEW i \in Instance, NEW s \in Step, NEW outcome \in Outcome
  PROVE  AppendHistory(i, s, outcome) \in Instance
<1> DEFINE Entry == [step : Step, outcome : Outcome]
           entry == [step |-> s, outcome |-> outcome]
           longer == Append(i.history, entry)
<1>1. longer \in Seq(Entry)
  <2>1. entry \in Entry /\ i.history \in Seq(Entry)
    BY DEF Instance
  <2> HIDE DEF Entry, entry
  <2> QED BY <2>1
<1>2. [i EXCEPT !.history = longer] \in Instance
  <2> HIDE DEF longer
  <2> QED BY <1>1 DEF Instance
<1> QED
  BY <1>2 DEF AppendHistory

LEMMA ArriveTyped ==
  ASSUME NEW i \in Instance, NEW b \in Step
  PROVE  ArriveAtBarrier(i, b) \in Instance
<1> DEFINE arrived == i.barriers[b].arrived + 1
<1>1. CASE i.barriers[b] = NoBarrier
  BY <1>1 DEF ArriveAtBarrier
<1>2. CASE i.barriers[b] # NoBarrier
  <2>1. i.barriers[b] \in Barrier
    BY <1>2 DEF Instance
  <2>2. arrived \in Nat /\ i.barriers[b].parent \in Step \cup {Nil}
    BY <2>1 DEF Barrier
  <2>3. [i EXCEPT !.barriers[b].arrived = arrived] \in Instance
    BY <2>1, <2>2 DEF Instance, Barrier
  <2>4. [i EXCEPT !.barriers[b] = NoBarrier] \in Instance
    BY DEF Instance
  <2>5. WithToken([i EXCEPT !.barriers[b] = NoBarrier],
                  After[b], Fresh(i.barriers[b].parent)) \in Instance
    BY <2>2, <2>4, FreshTyped, WithTokenTyped
  <2> QED
    BY <1>2, <2>3, <2>5 DEF ArriveAtBarrier
<1> QED
  BY <1>1, <1>2

LEMMA AdvanceTyped ==
  ASSUME NEW i \in Instance, NEW s \in Live(i), NEW next \in Step \cup {Nil}
  PROVE  AdvanceTo(i, s, next) \in Instance
<1> DEFINE done == AppendHistory(WithoutToken(i, s), s, "succeeded")
<1>1. s \in Step /\ i.tokens[s] \in Token
  BY DEF Live, Instance
<1>2. i.tokens[s].barrier \in Step \cup {Nil}
  BY <1>1 DEF Token
<1>3. done \in Instance
  BY <1>1, WithoutTokenTyped, AppendHistoryTyped DEF Outcome
<1>4. WithToken(done, next, Fresh(i.tokens[s].barrier)) \in Instance
  BY <1>2, <1>3, FreshTyped, WithTokenTyped
<1>5. i.tokens[s].barrier # Nil => ArriveAtBarrier(done, i.tokens[s].barrier) \in Instance
  BY <1>2, <1>3, ArriveTyped
<1> QED
  BY <1>3, <1>4, <1>5 DEF AdvanceTo

LEMMA NextInQueueTyped ==
  ASSUME NEW i \in Instance
  PROVE  NextInQueue(i) \in Instance
BY FreshTyped, WithTokenTyped DEF NextInQueue

LEMMA ClearPathsTyped ==
  ASSUME NEW i \in Instance
  PROVE  ClearPaths(i) \in Instance
BY DEF ClearPaths, Instance

LEMMA QueueTyped ==
  ASSUME NEW i \in Instance, NEW queue \in SUBSET Step
  PROVE  [i EXCEPT !.queue = queue] \in Instance
BY DEF Instance

LEMMA UnwindTyped ==
  ASSUME NEW i \in Instance
  PROVE  BeginUnwind(i) \in Instance
<1>1. CompensationQueue(i) \in SUBSET Step
  BY DefinitionAssumption DEF CompensationQueue
<1> QED
  BY <1>1, ClearPathsTyped, QueueTyped, NextInQueueTyped DEF BeginUnwind

LEMMA ForwardOfTyped ==
  ASSUME NEW s \in Step, Kind[s] = "compensation"
  PROVE  ForwardOf(s) \in Step /\ Undo[ForwardOf(s)] = s
BY DefinitionAssumption DEF ForwardOf

LEMMA CompensationTyped ==
  ASSUME NEW i \in Instance, NEW s \in Step, Kind[s] = "compensation"
  PROVE  CompleteCompensation(i, s) \in Instance
<1> DEFINE undone == AppendHistory(AppendHistory(WithoutToken(i, s), s, "succeeded"),
                                   ForwardOf(s), "compensated")
<1>1. undone \in Instance
  BY ForwardOfTyped, WithoutTokenTyped, AppendHistoryTyped DEF Outcome
<1>2. undone.queue \ {s} \in SUBSET Step
  BY <1>1 DEF Instance
<1>3. [undone EXCEPT !.queue = undone.queue \ {s}] \in Instance
  BY <1>1, <1>2, QueueTyped
<1> QED
  BY <1>3, NextInQueueTyped DEF CompleteCompensation

LEMMA SettleTyped ==
  ASSUME NEW i \in Instance, NEW s \in Step, NEW verdict \in {"failed", "denied"}
  PROVE  Settle(i, s, verdict) \in Instance
<1> DEFINE logged == AppendHistory(WithoutToken(i, s), s, verdict)
<1> DEFINE noted == [logged EXCEPT !.verdict = verdict]
<1>1. logged \in Instance
  BY WithoutTokenTyped, AppendHistoryTyped DEF Outcome
<1>2. noted \in Instance
  BY <1>1 DEF Instance
<1>3. [ClearPaths(noted) EXCEPT !.queue = {}] \in Instance
  BY <1>2, ClearPathsTyped, QueueTyped
<1>4. BeginUnwind(noted) \in Instance
  BY <1>2, UnwindTyped
<1> QED
  BY <1>3, <1>4 DEF Settle

LEMMA FanOutTyped ==
  ASSUME NEW i \in Instance, NEW s \in Live(i)
  PROVE  FanOut(i, s) \in Instance
<1> DEFINE begun == AppendHistory(WithoutToken(i, s), s, "succeeded")
           barrier == [arrived |-> 0, parent |-> i.tokens[s].barrier]
           tokens == [t \in Step |-> IF t \in Heads[s] THEN Fresh(s) ELSE begun.tokens[t]]
<1>1. s \in Step /\ i.tokens[s].barrier \in Step \cup {Nil}
  BY DEF Live, Instance, Token
<1>2. begun \in Instance
  BY <1>1, WithoutTokenTyped, AppendHistoryTyped DEF Outcome
<1>3. barrier \in Barrier
  BY <1>1 DEF Barrier
<1>4. Fresh(s) \in Token
  BY <1>1, FreshTyped
<1>5. tokens \in [Step -> Token \cup {NoToken}]
  BY <1>2, <1>4 DEF Instance
<1>6. [begun EXCEPT !.barriers[s] = barrier, !.tokens = tokens] \in Instance
  <2> HIDE DEF begun, barrier, tokens
  <2> QED BY <1>2, <1>3, <1>5 DEF Instance
<1> QED
  BY <1>6 DEF FanOut

-----------------------------------------------------------------------------
(* Type correctness.                                                        *)

LEMMA WorkingTyped ==
  ASSUME TypeOK, NEW p \in Process, proc[p].pc \notin {"idle", "looping", "ended", "unclosed", "closed"}
  PROVE  proc[p] \in Working
BY DEF TypeOK, Between, Idle

LEMMA GotoTyped ==
  ASSUME TypeOK, NEW p \in Process, proc[p] \in Working,
         NEW pc \in {"picked", "claimed", "checked", "recorded", "permitted", "landed",
                     "succeeded", "skipping", "routing", "retrying", "failed", "denied"},
         Goto(p, pc)
  PROVE  proc' \in [Process -> Working \cup Between \cup {Idle}]
<1>1. [proc[p] EXCEPT !.pc = pc] \in Working
  BY DEF Working
<1>2. proc' = [proc EXCEPT ![p] = [proc[p] EXCEPT !.pc = pc]]
  BY DEF Goto
<1> QED
  BY <1>1, <1>2 DEF TypeOK

LEMMA BecomeTyped ==
  ASSUME TypeOK, NEW p \in Process,
         NEW state \in Working \cup Between \cup {Idle}, Become(p, state)
  PROVE  proc' \in [Process -> Working \cup Between \cup {Idle}]
BY DEF TypeOK, Become

LEMMA EndStepTyped ==
  ASSUME TypeOK, NEW p \in Process, EndStep(p)
  PROVE  proc' \in [Process -> Working \cup Between \cup {Idle}]
<1>1. [pc |-> "looping"] \in Between
  BY DEF Between
<1> QED
  BY <1>1, BecomeTyped DEF EndStep

LEMMA MishapTyped ==
  ASSUME TypeOK, Mishap \/ UNCHANGED mishaps
  PROVE  mishaps' \in 0..MaxMishaps
BY DefinitionAssumption DEF TypeOK, Mishap

LEMMA LeaveTyped ==
  ASSUME TypeOK, NEW p \in Process, proc[p] \in Working, Leave(p)
  PROVE  /\ proc' \in [Process -> Working \cup Between \cup {Idle}]
         /\ mishaps' \in 0..MaxMishaps
BY EndStepTyped, GotoTyped, MishapTyped DEF Leave

LEMMA PatchTyped ==
  ASSUME TypeOK, NEW p \in Process, proc[p] \in Working,
         NEW status \in {"running", "succeeded", "failed", "denied"}, PatchRow(p, status)
  PROVE  rows' \in [Step -> Seq({"running", "succeeded", "failed", "denied"})]
<1> DEFINE s == proc[p].step
           n == proc[p].row
<1>1. s \in Step /\ rows[s] \in Seq({"running", "succeeded", "failed", "denied"})
  BY DEF TypeOK, Working
<1>2. [rows[s] EXCEPT ![n] = status] \in Seq({"running", "succeeded", "failed", "denied"})
  <2> DEFINE Status == {"running", "succeeded", "failed", "denied"}
  <2>1. status \in Status /\ rows[s] \in Seq(Status)
    BY <1>1
  <2> HIDE DEF Status, s, n
  <2>2. rows[s] \in [1..Len(rows[s]) -> Status] /\ Len(rows[s]) \in Nat
    BY <2>1
  <2>3. [rows[s] EXCEPT ![n] = status] \in [1..Len(rows[s]) -> Status]
    BY <2>1, <2>2
  <2>4. [rows[s] EXCEPT ![n] = status] \in Seq(Status)
    BY <2>2, <2>3
  <2> QED
    BY <2>4 DEF Status
<1>3. rows' = [rows EXCEPT ![s] = [rows[s] EXCEPT ![n] = status]]
  BY DEF PatchRow
<1> QED
  BY <1>1, <1>2, <1>3 DEF TypeOK

LEMMA AppendRowTyped ==
  ASSUME TypeOK, NEW s \in Step, NEW status \in {"running", "succeeded", "failed", "denied"},
         rows' = [rows EXCEPT ![s] = Append(rows[s], status)]
  PROVE  rows' \in [Step -> Seq({"running", "succeeded", "failed", "denied"})]
<1>1. Append(rows[s], status) \in Seq({"running", "succeeded", "failed", "denied"})
  BY DEF TypeOK
<1> QED
  BY <1>1 DEF TypeOK

LEMMA InitTyped == Init => TypeOK
<1> SUFFICES ASSUME Init PROVE TypeOK
  OBVIOUS
<1>1. Fresh(Nil) \in Token
  BY FreshTyped
<1>2. inst \in Instance
  BY <1>1 DEF Init, Instance
<1>3. proc \in [Process -> Working \cup Between \cup {Idle}]
  BY DEF Init
<1>4. rows \in [Step -> Seq({"running", "succeeded", "failed", "denied"})]
  BY DEF Init
<1>5. /\ landed \in [Step -> Nat]
      /\ run \in [ended : BOOLEAN, entries : Nat]
      /\ mishaps \in 0..MaxMishaps
      /\ cancels \in 0..MaxCancels
  BY DefinitionAssumption DEF Init
<1> QED
  BY <1>2, <1>3, <1>4, <1>5 DEF TypeOK

LEMMA TypeStep == TypeOK /\ [Next]_vars => TypeOK'
<1> DEFINE Procs == [Process -> Working \cup Between \cup {Idle}]
           Rows == [Step -> Seq({"running", "succeeded", "failed", "denied"})]
<1> SUFFICES ASSUME TypeOK, [Next]_vars PROVE TypeOK'
  OBVIOUS
<1> SUFFICES /\ inst' \in Instance
             /\ proc' \in Procs
             /\ rows' \in Rows
             /\ landed' \in [Step -> Nat]
             /\ run' \in [ended : BOOLEAN, entries : Nat]
             /\ mishaps' \in 0..MaxMishaps
             /\ cancels' \in 0..MaxCancels
  BY DEF TypeOK
<1>t. /\ inst \in Instance
      /\ proc \in Procs
      /\ rows \in Rows
      /\ landed \in [Step -> Nat]
      /\ run \in [ended : BOOLEAN, entries : Nat]
      /\ mishaps \in 0..MaxMishaps
      /\ cancels \in 0..MaxCancels
  BY DEF TypeOK
<1>i. Idle \in {Idle} /\ \A pc \in {"looping", "ended", "unclosed", "closed"} : [pc |-> pc] \in Between
  BY DEF Between
<1>s. \A s \in Live(inst) : s \in Step /\ inst.tokens[s] \in Token
  BY <1>t DEF Live, Instance
<1>1. ASSUME NEW p \in Process, Sweep(p) PROVE TypeOK'
  <2> HIDE DEF Procs, Rows
  <2>1. proc' \in [Process -> Working \cup Between \cup {Idle}]
    BY <1>1, EndStepTyped DEF Sweep
  <2> QED
    BY <1>1, <1>t, <2>1 DEF Sweep, TypeOK
<1>2. ASSUME NEW p \in Process, Pick(p) PROVE TypeOK'
  <2>1. proc' \in Procs
    <3>1. CASE Ended(inst)
      BY <1>2, <1>i, <3>1, BecomeTyped DEF Pick
    <3>2. CASE ~Ended(inst) /\ ~(\E s \in Step : Actionable(s))
      BY <1>2, <1>i, <3>2, BecomeTyped DEF Pick
    <3>3. CASE ~Ended(inst) /\ (\E s \in Step : Actionable(s))
      <4> PICK s \in Step :
            /\ Actionable(s)
            /\ Become(p, [pc |-> "picked", step |-> s, attempt |-> inst.tokens[s].attempt,
                          state |-> inst.tokens[s].state,
                          inFlight |-> inst.tokens[s].inFlight, row |-> inst.tokens[s].row])
        BY <1>2, <3>3 DEF Pick
      <4>1. inst.tokens[s] \in Token
        BY <1>t DEF Instance, NoToken, Actionable
      <4>2. [pc |-> "picked", step |-> s, attempt |-> inst.tokens[s].attempt,
             state |-> inst.tokens[s].state,
             inFlight |-> inst.tokens[s].inFlight, row |-> inst.tokens[s].row] \in Working
        BY <4>1 DEF Token, Working
      <4> QED
        BY <4>2, BecomeTyped
    <3> QED
      BY <3>1, <3>2, <3>3
  <2> QED
    BY <1>2, <1>t, <2>1 DEF Pick, TypeOK
<1>3. ASSUME NEW p \in Process, Claim(p) PROVE TypeOK'
  <2>1. proc[p] \in Working
    BY <1>3, WorkingTyped DEF Claim, At
  <2>2. proc' \in Procs
    BY <1>3, <1>i, <2>1, GotoTyped, BecomeTyped DEF Claim
  <2>3. inst' \in Instance
    <3>1. CASE Claimable(p)
      <4> DEFINE s == proc[p].step
      <4>1. inst.tokens[s] \in Token
        BY <1>t, <2>1, <3>1 DEF Claimable, Instance, Working
      <4>2. Claimed(inst.tokens[s]) \in Token
        BY <4>1 DEF Claimed, Token
      <4>3. inst' = WithToken(inst, s, Claimed(inst.tokens[s]))
        BY <1>3, <3>1 DEF Claim
      <4> QED
        BY <1>t, <4>2, <4>3, WithTokenTyped
    <3>2. CASE ~Claimable(p)
      BY <1>3, <1>t, <3>2 DEF Claim
    <3> QED
      BY <3>1, <3>2
  <2> QED
    BY <1>3, <1>t, <2>2, <2>3 DEF Claim, TypeOK
<1>4. ASSUME NEW p \in Process, Contain(p) \/ Lookup(p) \/ Permit(p) \/ ThrowRetryable(p)
                                \/ RefuseAfter(p) \/ StoreFails(p)
      PROVE TypeOK'
  <2>1. proc[p] \in Working
    BY <1>4, WorkingTyped DEF Contain, Lookup, Permit, ThrowRetryable, RefuseAfter, StoreFails, At
  <2>2. LookupVerdict(p) \in {"skipping", "failed", "checked"}
    BY DEF LookupVerdict
  <2>3. \E pc \in {"denied", "skipping", "failed", "checked", "permitted", "retrying"} : Goto(p, pc)
    BY <1>4, <2>2 DEF Contain, Lookup, Permit, ThrowRetryable, RefuseAfter, StoreFails
  <2>4. proc' \in Procs
    BY <2>1, <2>3, GotoTyped
  <2>5. mishaps' \in 0..MaxMishaps
    BY <1>4, MishapTyped DEF Contain, Lookup, Permit, ThrowRetryable, RefuseAfter, StoreFails
  <2> QED
    BY <1>4, <1>t, <2>4, <2>5
    DEF Contain, Lookup, Permit, ThrowRetryable, RefuseAfter, StoreFails, TypeOK
<1>5. ASSUME NEW p \in Process, RecordRunning(p) PROVE TypeOK'
  <2> DEFINE s == proc[p].step
  <2>1. proc[p] \in Working
    BY <1>5, WorkingTyped DEF RecordRunning, At
  <2>2. CASE proc[p].row = 0
    <3> DEFINE opened == [pc |-> "recorded", step |-> s, attempt |-> proc[p].attempt,
                          state |-> proc[p].state, inFlight |-> proc[p].inFlight,
                          row |-> Len(rows[s]) + 1]
    <3>0. s \in Step
      BY <2>1 DEF Working
    <3>1. Len(rows[s]) + 1 \in Nat
      <4>1. rows[s] \in Seq({"running", "succeeded", "failed", "denied"})
        BY <1>t, <3>0
      <4> QED
        BY <4>1
    <3>2. opened \in Working
      BY <2>1, <3>1 DEF Working
    <3>3. proc' \in Procs
      BY <1>5, <2>2, <3>2, BecomeTyped DEF RecordRunning
    <3>4. rows' \in Rows
      BY <1>5, <2>2, <3>0, AppendRowTyped DEF RecordRunning
    <3> QED
      BY <1>5, <1>t, <3>3, <3>4 DEF RecordRunning, TypeOK
  <2>3. CASE proc[p].row # 0
    <3>1. proc' \in Procs
      BY <1>5, <2>1, <2>3, GotoTyped DEF RecordRunning
    <3> QED
      BY <1>5, <1>t, <2>3, <3>1 DEF RecordRunning, TypeOK
  <2> QED
    BY <2>2, <2>3
<1>6. ASSUME NEW p \in Process,
             Refuse(p) \/ ThrowDenied(p) \/ ThrowFatal(p) \/ RecordSucceeded(p)
      PROVE TypeOK'
  <2>1. proc[p] \in Working
    BY <1>6, WorkingTyped DEF Refuse, ThrowDenied, ThrowFatal, RecordSucceeded, At
  <2>2. \E pc \in {"denied", "failed", "succeeded"} : Goto(p, pc)
    BY <1>6 DEF Refuse, ThrowDenied, ThrowFatal, RecordSucceeded
  <2>3. proc' \in Procs
    BY <2>1, <2>2, GotoTyped
  <2>4. rows' = rows \/ \E status \in {"running", "succeeded", "failed", "denied"} : PatchRow(p, status)
    BY <1>6 DEF Refuse, ThrowDenied, ThrowFatal, RecordSucceeded
  <2>5. rows' \in Rows
    BY <1>t, <2>1, <2>4, PatchTyped
  <2> QED
    BY <1>6, <1>t, <2>3, <2>5 DEF Refuse, ThrowDenied, ThrowFatal, RecordSucceeded, TypeOK
<1>7. ASSUME NEW p \in Process, Land(p) PROVE TypeOK'
  <2>1. proc[p] \in Working
    BY <1>7, WorkingTyped DEF Land, At
  <2>2. proc' \in Procs
    BY <1>7, <2>1, GotoTyped DEF Land
  <2>3. landed' \in [Step -> Nat]
    <3>1. proc[p].step \in Step
      BY <2>1 DEF Working
    <3>2. landed' = [landed EXCEPT ![proc[p].step] = landed[proc[p].step] + 1]
      BY <1>7 DEF Land
    <3> QED
      BY <1>t, <3>1, <3>2
  <2> QED
    BY <1>7, <1>t, <2>2, <2>3 DEF Land, TypeOK
<1>8. ASSUME NEW p \in Process, Retry(p) PROVE TypeOK'
  <2> DEFINE s == proc[p].step
  <2>1. proc[p] \in Working
    BY <1>8, WorkingTyped DEF Retry, At
  <2>2. proc' \in Procs /\ mishaps' \in 0..MaxMishaps
    BY <1>8, <2>1, LeaveTyped DEF Retry
  <2>3. s \in Live(inst) => Retried(inst.tokens[s], proc[p].row) \in Token
    BY <1>s, <2>1 DEF Token, Retried, Working
  <2>4. inst' \in Instance
    BY <1>8, <1>t, <2>3, WithTokenTyped DEF Retry
  <2> QED
    BY <1>8, <1>t, <2>2, <2>4 DEF Retry, TypeOK
<1>9. ASSUME NEW p \in Process, Advance(p) PROVE TypeOK'
  <2> DEFINE s == proc[p].step
  <2>1. proc' \in Procs /\ mishaps' \in 0..MaxMishaps
    BY <1>9, WorkingTyped, LeaveTyped DEF Advance
  <2>2. s \in Live(inst) => After[s] \in Step \cup {Nil}
    BY <1>s, DefinitionAssumption
  <2>3. inst' \in Instance
    <3>1. CASE s \notin Live(inst)
      BY <1>9, <1>t, <3>1 DEF Advance
    <3>2. CASE s \in Live(inst) /\ Kind[s] = "compensation"
      BY <1>9, <1>t, <1>s, <3>2, CompensationTyped DEF Advance
    <3>3. CASE s \in Live(inst) /\ Kind[s] # "compensation"
      BY <1>9, <1>t, <2>2, <3>3, AdvanceTyped DEF Advance
    <3> QED
      BY <3>1, <3>2, <3>3
  <2> QED
    BY <1>9, <1>t, <2>1, <2>3 DEF Advance, TypeOK
<1>10. ASSUME NEW p \in Process, Route(p) PROVE TypeOK'
  <2>1. proc[p] \in Working
    BY <1>10, WorkingTyped DEF Route, At
  <2>2. proc' \in Procs
    BY <1>10, <2>1, GotoTyped DEF Route
  <2>3. rows' \in Rows
    BY <1>10, <2>1, AppendRowTyped DEF Route, Working
  <2> QED
    BY <1>10, <1>t, <2>2, <2>3 DEF Route, TypeOK
<1>11. ASSUME NEW p \in Process, NEW target \in Step, RunBranch(p, target) PROVE TypeOK'
  <2>1. proc' \in Procs /\ mishaps' \in 0..MaxMishaps
    BY <1>11, WorkingTyped, LeaveTyped DEF RunBranch, At
  <2>2. inst' \in Instance
    BY <1>11, <1>t, AdvanceTyped DEF RunBranch
  <2> QED
    BY <1>11, <1>t, <2>1, <2>2 DEF RunBranch, TypeOK
<1>12. ASSUME NEW p \in Process, RunParallel(p) PROVE TypeOK'
  <2>1. proc' \in Procs /\ mishaps' \in 0..MaxMishaps
    BY <1>12, WorkingTyped, LeaveTyped DEF RunParallel, At
  <2>2. inst' \in Instance
    BY <1>12, <1>t, FanOutTyped DEF RunParallel
  <2> QED
    BY <1>12, <1>t, <2>1, <2>2 DEF RunParallel, TypeOK
<1>13. ASSUME NEW p \in Process, SettleStep(p) PROVE TypeOK'
  <2>1. proc' \in Procs /\ mishaps' \in 0..MaxMishaps
    BY <1>13, WorkingTyped, EndStepTyped, LeaveTyped, MishapTyped DEF SettleStep
  <2>2. proc[p].pc \in {"failed", "denied"} /\ proc[p].step \in Step
    BY <1>13, WorkingTyped DEF SettleStep, Working
  <2>3. inst' \in Instance
    BY <1>13, <1>t, <2>2, SettleTyped DEF SettleStep
  <2> QED
    BY <1>13, <1>t, <2>1, <2>3 DEF SettleStep, TypeOK
<1>14. ASSUME NEW p \in Process, ReadRun(p) \/ CloseRun(p) \/ AuditEnd(p) PROVE TypeOK'
  <2>1. \E state \in {Idle, [pc |-> "unclosed"], [pc |-> "closed"]} : Become(p, state)
    BY <1>14 DEF ReadRun, CloseRun, AuditEnd
  <2>2. proc' \in Procs
    BY <1>i, <2>1, BecomeTyped
  <2>3. run' \in [ended : BOOLEAN, entries : Nat]
    <3>1. [run EXCEPT !.ended = TRUE] \in [ended : BOOLEAN, entries : Nat]
      BY <1>t
    <3>2. run.entries + 1 \in Nat
      BY <1>t
    <3>3. [run EXCEPT !.entries = run.entries + 1] \in [ended : BOOLEAN, entries : Nat]
      <4> DEFINE more == run.entries + 1
      <4> HIDE DEF more
      <4> QED BY <1>t, <3>2 DEF more
    <3> QED
      BY <1>14, <1>t, <3>1, <3>3 DEF ReadRun, CloseRun, AuditEnd
  <2> QED
    BY <1>14, <1>t, <2>2, <2>3 DEF ReadRun, CloseRun, AuditEnd, TypeOK
<1>15. ASSUME NEW p \in Process, Cancel(p) PROVE TypeOK'
  <2>1. \E state \in {Idle, [pc |-> "ended"]} : Become(p, state)
    BY <1>15 DEF Cancel
  <2>2. proc' \in Procs
    BY <1>i, <2>1, BecomeTyped
  <2>3. [inst EXCEPT !.verdict = "cancelled"] \in Instance
    BY <1>t DEF Instance
  <2>4. inst' \in Instance
    BY <1>15, <2>3, UnwindTyped DEF Cancel
  <2>5. cancels' \in 0..MaxCancels
    BY <1>15, <1>t, DefinitionAssumption DEF Cancel
  <2> QED
    BY <1>15, <1>t, <2>2, <2>4, <2>5 DEF Cancel, TypeOK
<1>16. ASSUME NEW p \in Process, Crash(p) PROVE TypeOK'
  <2>1. proc' \in Procs
    BY <1>16, <1>i, BecomeTyped DEF Crash
  <2>2. mishaps' \in 0..MaxMishaps
    BY <1>16, MishapTyped DEF Crash
  <2> QED
    BY <1>16, <1>t, <2>1, <2>2 DEF Crash, TypeOK
<1>17. ASSUME NEW s \in Step, Elapse(s) PROVE TypeOK'
  <2>1. inst.tokens[s] \in Token
    BY <1>17, <1>t DEF Elapse, Instance, NoToken
  <2>2. [inst.tokens[s] EXCEPT !.ripe = TRUE] \in Token
    BY <2>1 DEF Token
  <2>3. inst' = [inst EXCEPT !.tokens = [inst.tokens EXCEPT ![s] =
                   [inst.tokens[s] EXCEPT !.ripe = TRUE]]]
    BY <1>17 DEF Elapse
  <2>4. inst' \in Instance
    <3> DEFINE token == [inst.tokens[s] EXCEPT !.ripe = TRUE]
    <3> HIDE DEF token
    <3> QED BY <1>t, <2>2, <2>3 DEF Instance, token
  <2> QED
    BY <1>17, <1>t, <2>4 DEF Elapse, TypeOK
<1>18. ASSUME UNCHANGED vars PROVE TypeOK'
  BY <1>18, <1>t DEF vars, TypeOK
<1> QED
  BY <1>1, <1>2, <1>3, <1>4, <1>5, <1>6, <1>7, <1>8, <1>9, <1>10, <1>11, <1>12,
     <1>13, <1>14, <1>15, <1>16, <1>17, <1>18
  DEF Next, Engine, Perform, TypeOK

\* Type correctness of the engine's stores and processes.
THEOREM TypeCorrect == Spec => []TypeOK
<1>1. Init => TypeOK
  BY InitTyped
<1>2. TypeOK /\ [Next]_vars => TypeOK'
  BY TypeStep
<1> QED
  BY <1>1, <1>2, PTL DEF Spec

-----------------------------------------------------------------------------
(* An ended instance stays as it is.                                        *)

LEMMA EndedStep == TypeOK /\ [Next]_vars => (Ended(inst) => inst' = inst)
<1> SUFFICES ASSUME TypeOK, [Next]_vars, Ended(inst) PROVE inst' = inst
  OBVIOUS
<1>1. \A s \in Step : s \notin Live(inst) /\ inst.tokens[s] = NoToken
  BY DEF Ended, Live
<1>2. ASSUME NEW p \in Process, Claim(p) PROVE inst' = inst
  <2>1. proc[p] \in Working
    BY <1>2, WorkingTyped DEF Claim, At
  <2>2. ~Claimable(p)
    BY <1>1, <2>1 DEF Claimable, Working
  <2> QED
    BY <1>2, <2>2 DEF Claim
<1>3. ASSUME NEW p \in Process, Retry(p) \/ Advance(p) \/ RunParallel(p)
                                \/ \E target \in Step : RunBranch(p, target)
      PROVE inst' = inst
  <2>1. proc[p].step \notin Live(inst)
    BY <1>1 DEF Live
  <2> QED
    BY <1>3, <2>1 DEF Retry, Advance, RunBranch, RunParallel
<1>4. ASSUME NEW p \in Process, SettleStep(p) \/ Cancel(p) PROVE inst' = inst
  BY <1>4 DEF SettleStep, MaySettle, Cancel
<1>5. ASSUME NEW s \in Step, Elapse(s) PROVE inst' = inst
  BY <1>1, <1>5 DEF Elapse, NoToken
<1> QED
  BY <1>2, <1>3, <1>4, <1>5
  DEF Next, vars, Engine, Perform, Sweep, Pick, Contain, Lookup, RecordRunning, Permit,
      Refuse, Land, ThrowDenied, ThrowFatal, ThrowRetryable, RecordSucceeded, RefuseAfter,
      StoreFails, Route, ReadRun, CloseRun, AuditEnd, Crash

\* A process that was still working on an ended instance, and an operator who
\* cancels it, leave it as it is.
THEOREM EndedIsFinal == Spec => EndedNeverReopens
<1>1. TypeOK /\ [Next]_vars => [Ended(inst) => inst' = inst]_inst
  BY EndedStep
<1> QED
  BY <1>1, TypeCorrect, PTL DEF Spec, EndedNeverReopens

-----------------------------------------------------------------------------
(* What the history says after a step of the instance.                      *)

LEMMA SaysAppended ==
  ASSUME NEW i \in Instance, NEW s \in Step, NEW outcome \in Outcome, NEW t, NEW said
  PROVE  Says(AppendHistory(i, s, outcome), t, said)
           <=> Says(i, t, said) \/ (t = s /\ said = outcome)
<1> DEFINE Entry == [step : Step, outcome : Outcome]
           entry == [step |-> s, outcome |-> outcome]
           sought == [step |-> t, outcome |-> said]
           h == i.history
<1>1. h \in Seq(Entry) /\ entry \in Entry
  BY DEF Instance
<1>2. AppendHistory(i, s, outcome).history = Append(h, entry)
  BY DEF AppendHistory, Instance
<1>3. (\E n \in DOMAIN Append(h, entry) : Append(h, entry)[n] = sought)
        <=> (\E n \in DOMAIN h : h[n] = sought) \/ entry = sought
  <2> HIDE DEF Entry, entry, sought, h
  <2>1. /\ Len(h) \in Nat
        /\ DOMAIN h = 1..Len(h)
        /\ DOMAIN Append(h, entry) = 1..(Len(h) + 1)
        /\ \A n \in 1..Len(h) : Append(h, entry)[n] = h[n]
        /\ Append(h, entry)[Len(h) + 1] = entry
    BY <1>1
  <2>2. 1..(Len(h) + 1) = (1..Len(h)) \cup {Len(h) + 1}
    BY <2>1
  <2> QED
    BY <2>1, <2>2
<1>4. (entry = sought) <=> (t = s /\ said = outcome)
  OBVIOUS
<1> QED
  BY <1>2, <1>3, <1>4 DEF Says

LEMMA SaysKept ==
  ASSUME NEW i \in Instance, NEW j, j.history = i.history, NEW t, NEW said
  PROVE  Says(j, t, said) <=> Says(i, t, said)
BY DEF Says

LEMMA HistoryKept ==
  ASSUME NEW i \in Instance, NEW s, NEW token, NEW b, NEW queue
  PROVE  /\ WithToken(i, s, token).history = i.history
         /\ WithoutToken(i, s).history = i.history
         /\ ClearPaths(i).history = i.history
         /\ NextInQueue(i).history = i.history
         /\ ArriveAtBarrier(i, b).history = i.history
         /\ BeginUnwind(i).history = i.history
         /\ [i EXCEPT !.queue = queue].history = i.history
BY DEF Instance, WithToken, WithoutToken, ClearPaths, NextInQueue, ArriveAtBarrier, BeginUnwind

LEMMA SaysAdvanced ==
  ASSUME NEW i \in Instance, NEW s \in Live(i), NEW next \in Step \cup {Nil}, NEW t, NEW said
  PROVE  Says(AdvanceTo(i, s, next), t, said)
           <=> Says(i, t, said) \/ (t = s /\ said = "succeeded")
<1> DEFINE bare == WithoutToken(i, s)
           done == AppendHistory(bare, s, "succeeded")
<1>1. s \in Step
  BY DEF Live
<1>2. bare \in Instance /\ bare.history = i.history
  BY WithoutTokenTyped, HistoryKept
<1>3. done \in Instance
  BY <1>1, <1>2, AppendHistoryTyped DEF Outcome
<1>4. Says(done, t, said) <=> Says(i, t, said) \/ (t = s /\ said = "succeeded")
  <2>1. Says(done, t, said) <=> Says(bare, t, said) \/ (t = s /\ said = "succeeded")
    BY <1>1, <1>2, SaysAppended DEF Outcome
  <2> QED
    BY <1>2, <2>1, SaysKept
<1>5. AdvanceTo(i, s, next).history = done.history
  <2> HIDE DEF done
  <2>1. \A token : WithToken(done, next, token).history = done.history
    BY <1>3, HistoryKept
  <2>2. \A b : ArriveAtBarrier(done, b).history = done.history
    BY <1>3, HistoryKept
  <2> QED
    BY <2>1, <2>2 DEF AdvanceTo, done
<1> QED
  BY <1>3, <1>4, <1>5, SaysKept

LEMMA SaysCompensated ==
  ASSUME NEW i \in Instance, NEW s \in Step, Kind[s] = "compensation", NEW t, NEW said
  PROVE  Says(CompleteCompensation(i, s), t, said)
           <=> \/ Says(i, t, said)
               \/ t = s /\ said = "succeeded"
               \/ t = ForwardOf(s) /\ said = "compensated"
<1> DEFINE bare == WithoutToken(i, s)
           done == AppendHistory(bare, s, "succeeded")
           undone == AppendHistory(done, ForwardOf(s), "compensated")
           shorter == [undone EXCEPT !.queue = undone.queue \ {s}]
<1>0. bare \in Instance /\ bare.history = i.history
  BY WithoutTokenTyped, HistoryKept
<1>1. done \in Instance
  BY <1>0, AppendHistoryTyped DEF Outcome
<1>2. undone \in Instance
  BY <1>1, ForwardOfTyped, AppendHistoryTyped DEF Outcome
<1>3. Says(bare, t, said) <=> Says(i, t, said)
  BY <1>0, SaysKept
<1>4. Says(done, t, said) <=> Says(bare, t, said) \/ (t = s /\ said = "succeeded")
  BY <1>0, SaysAppended DEF Outcome
<1>5. Says(undone, t, said) <=> Says(done, t, said) \/ (t = ForwardOf(s) /\ said = "compensated")
  BY <1>1, ForwardOfTyped, SaysAppended DEF Outcome
<1>6. shorter \in Instance /\ shorter.history = undone.history
  <2>1. undone.queue \ {s} \in SUBSET Step
    BY <1>2 DEF Instance
  <2> HIDE DEF undone
  <2> QED
    BY <1>2, <2>1, QueueTyped, HistoryKept
<1>7. CompleteCompensation(i, s).history = undone.history
  <2>1. CompleteCompensation(i, s) = NextInQueue(shorter)
    BY DEF CompleteCompensation
  <2> HIDE DEF shorter, undone
  <2> QED
    BY <1>6, <2>1, HistoryKept
<1>8. Says(CompleteCompensation(i, s), t, said) <=> Says(undone, t, said)
  <2> HIDE DEF undone
  <2> QED BY <1>2, <1>7, SaysKept
<1> QED
  BY <1>3, <1>4, <1>5, <1>8

LEMMA SaysSettled ==
  ASSUME NEW i \in Instance, NEW s \in Step, NEW verdict \in {"failed", "denied"},
         NEW t, NEW said \in {"succeeded", "compensated"}
  PROVE  Says(Settle(i, s, verdict), t, said) <=> Says(i, t, said)
<1> DEFINE bare == WithoutToken(i, s)
           logged == AppendHistory(bare, s, verdict)
           noted == [logged EXCEPT !.verdict = verdict]
<1>0. bare \in Instance /\ bare.history = i.history
  BY WithoutTokenTyped, HistoryKept
<1>1. logged \in Instance
  BY <1>0, AppendHistoryTyped DEF Outcome
<1>2. Says(logged, t, said) <=> Says(i, t, said)
  <2>1. Says(logged, t, said) <=> Says(bare, t, said) \/ (t = s /\ said = verdict)
    BY <1>0, SaysAppended DEF Outcome
  <2> QED
    BY <1>0, <2>1, SaysKept
<1>3. noted \in Instance /\ noted.history = logged.history
  <2> HIDE DEF logged
  <2> QED BY <1>1 DEF Instance
<1>4. Settle(i, s, verdict).history = logged.history
  <2>1. Settle(i, s, verdict) \in {[ClearPaths(noted) EXCEPT !.queue = {}], BeginUnwind(noted)}
    BY DEF Settle
  <2> HIDE DEF noted, logged
  <2>2. ClearPaths(noted) \in Instance /\ ClearPaths(noted).history = noted.history
    BY <1>3, ClearPathsTyped, HistoryKept
  <2>3. [ClearPaths(noted) EXCEPT !.queue = {}].history = ClearPaths(noted).history
    BY <2>2, HistoryKept
  <2>4. BeginUnwind(noted).history = noted.history
    BY <1>3, HistoryKept
  <2> QED
    BY <1>3, <2>1, <2>2, <2>3, <2>4
<1> QED
  <2> HIDE DEF logged
  <2> QED BY <1>1, <1>2, <1>4, SaysKept

LEMMA SaysFannedOut ==
  ASSUME NEW i \in Instance, NEW s \in Live(i), NEW t, NEW said
  PROVE  Says(FanOut(i, s), t, said) <=> Says(i, t, said) \/ (t = s /\ said = "succeeded")
<1> DEFINE bare == WithoutToken(i, s)
           begun == AppendHistory(bare, s, "succeeded")
<1>1. s \in Step
  BY DEF Live
<1>2. bare \in Instance /\ bare.history = i.history
  BY WithoutTokenTyped, HistoryKept
<1>3. begun \in Instance
  BY <1>1, <1>2, AppendHistoryTyped DEF Outcome
<1>4. Says(begun, t, said) <=> Says(bare, t, said) \/ (t = s /\ said = "succeeded")
  BY <1>1, <1>2, SaysAppended DEF Outcome
<1>5. FanOut(i, s).history = begun.history
  <2> DEFINE barrier == [arrived |-> 0, parent |-> i.tokens[s].barrier]
             tokens == [u \in Step |-> IF u \in Heads[s] THEN Fresh(s) ELSE begun.tokens[u]]
  <2>1. FanOut(i, s) = [begun EXCEPT !.barriers[s] = barrier, !.tokens = tokens]
    BY DEF FanOut
  <2> HIDE DEF begun, barrier, tokens
  <2> QED
    BY <1>3, <2>1 DEF Instance
<1> QED
  BY <1>2, <1>3, <1>4, <1>5, SaysKept

-----------------------------------------------------------------------------
(* The record tells the truth.                                              *)

\* Strengthening: a process that is about to write that its step succeeded holds
\* a step whose effect has landed.
Truth ==
  /\ RecordTellsTheTruth
  /\ \A p \in Process :
       proc[p].pc \in {"landed", "succeeded", "skipping"} => landed[proc[p].step] > 0

LEMMA TruthInit == Init => Truth
<1> SUFFICES ASSUME Init PROVE Truth
  OBVIOUS
<1>1. \A s \in Step, said \in Outcome : ~Says(inst, s, said)
  BY DEF Init, Says
<1>2. \A s \in Step : rows[s] = <<>>
  BY DEF Init
<1>3. RecordTellsTheTruth
  BY <1>1, <1>2 DEF RecordTellsTheTruth, Succeeded, Compensated, Outcome
<1>4. \A p \in Process : proc[p].pc = "idle"
  BY DEF Init, Idle
<1> QED
  BY <1>3, <1>4 DEF Truth

\* A step that leaves the history's claims, the rows and the effects alone, and
\* sends no process to a place where it would write that a step succeeded.
LEMMA TruthUndisturbed ==
  ASSUME TypeOK, Truth, NEW p \in Process,
         rows' = rows, landed' = landed,
         \A s \in Step, said \in {"succeeded", "compensated"} :
           Says(inst', s, said) => Says(inst, s, said),
         \A q \in Process \ {p} : proc'[q] = proc[q],
         proc'[p].pc \notin {"landed", "succeeded", "skipping"}
  PROVE  Truth'
<1>1. RecordTellsTheTruth'
  BY DEF Truth, RecordTellsTheTruth, Succeeded, Compensated
<1> QED
  BY <1>1 DEF Truth

LEMMA GotoMoves ==
  ASSUME TypeOK, NEW p \in Process, proc[p] \in Working, NEW pc, Goto(p, pc)
  PROVE  /\ \A q \in Process \ {p} : proc'[q] = proc[q]
         /\ proc'[p].pc = pc
         /\ proc'[p].step = proc[p].step
BY DEF TypeOK, Goto, Working

LEMMA BecomeMoves ==
  ASSUME TypeOK, NEW p \in Process, NEW state, Become(p, state)
  PROVE  /\ \A q \in Process \ {p} : proc'[q] = proc[q]
         /\ proc'[p] = state
BY DEF TypeOK, Become

LEMMA LeaveMoves ==
  ASSUME TypeOK, NEW p \in Process, proc[p] \in Working, Leave(p)
  PROVE  /\ \A q \in Process \ {p} : proc'[q] = proc[q]
         /\ proc'[p].pc \in {"looping", "denied"}
<1>1. CASE EndStep(p)
  BY <1>1, BecomeMoves DEF EndStep
<1>2. CASE Goto(p, "denied")
  BY <1>2, GotoMoves
<1> QED
  BY <1>1, <1>2 DEF Leave

\* What happened stays happened, so a step that only adds true claims, none of
\* them on the rows, preserves the truth.
LEMMA TruthAdvanced ==
  ASSUME TypeOK, Truth, NEW p \in Process, proc[p] \in Working, Leave(p),
         rows' = rows, landed' = landed,
         \A s \in Step : Kind[s] \in Effecting /\ Says(inst', s, "succeeded") => landed[s] > 0,
         \A s \in Step : Kind[s] \in Effecting /\ Undo[s] # Nil /\ Says(inst', s, "compensated")
                         => landed[Undo[s]] > 0
  PROVE  Truth'
<1>1. RecordTellsTheTruth'
  BY DEF Truth, RecordTellsTheTruth, Succeeded, Compensated
<1>2. (\A q \in Process \ {p} : proc'[q] = proc[q]) /\ proc'[p].pc \in {"looping", "denied"}
  BY LeaveMoves
<1> QED
  BY <1>1, <1>2 DEF Truth

LEMMA TruthStep == TypeOK /\ Truth /\ [Next]_vars => Truth'
<1> SUFFICES ASSUME TypeOK, Truth, [Next]_vars PROVE Truth'
  OBVIOUS
<1>t. inst \in Instance
  BY DEF TypeOK
<1>1. ASSUME NEW p \in Process, Sweep(p) \/ Pick(p) \/ ReadRun(p) \/ CloseRun(p)
                                \/ AuditEnd(p) \/ Crash(p)
      PROVE Truth'
  <2>1. \E state : Become(p, state) /\ state.pc \notin {"landed", "succeeded", "skipping"}
    <3>1. Idle.pc \notin {"landed", "succeeded", "skipping"}
      BY DEF Idle
    <3>2. ASSUME Pick(p)
          PROVE  \E state : Become(p, state) /\ state.pc \notin {"landed", "succeeded", "skipping"}
      <4>1. \/ Become(p, [pc |-> "ended"])
            \/ Become(p, Idle)
            \/ \E s \in Step :
                 Become(p, [pc |-> "picked", step |-> s, attempt |-> inst.tokens[s].attempt,
                            state |-> inst.tokens[s].state,
                            inFlight |-> inst.tokens[s].inFlight, row |-> inst.tokens[s].row])
        BY <3>2 DEF Pick
      <4>2. ASSUME NEW s \in Step
            PROVE  [pc |-> "picked", step |-> s, attempt |-> inst.tokens[s].attempt,
                    state |-> inst.tokens[s].state,
                    inFlight |-> inst.tokens[s].inFlight,
                    row |-> inst.tokens[s].row].pc = "picked"
        OBVIOUS
      <4>3. [pc |-> "ended"].pc = "ended"
        OBVIOUS
      <4> QED
        BY <3>1, <4>1, <4>2, <4>3 DEF Become
    <3> QED
      BY <1>1, <3>1, <3>2 DEF Sweep, EndStep, ReadRun, CloseRun, AuditEnd, Crash
  <2>2. inst' = inst /\ rows' = rows /\ landed' = landed
    BY <1>1 DEF Sweep, Pick, ReadRun, CloseRun, AuditEnd, Crash
  <2> QED
    BY <2>1, <2>2, BecomeMoves, TruthUndisturbed
<1>2. ASSUME NEW p \in Process, Claim(p) PROVE Truth'
  <2>1. proc[p] \in Working
    BY <1>2, WorkingTyped DEF Claim, At
  <2>2. /\ \A q \in Process \ {p} : proc'[q] = proc[q]
        /\ proc'[p].pc \notin {"landed", "succeeded", "skipping"}
    BY <1>2, <2>1, GotoMoves, BecomeMoves DEF Claim, Idle
  <2>3. inst'.history = inst.history
    BY <1>2, <1>t, HistoryKept DEF Claim
  <2>4. rows' = rows /\ landed' = landed
    BY <1>2 DEF Claim
  <2> QED
    BY <1>t, <2>2, <2>3, <2>4, SaysKept, TruthUndisturbed
<1>3. ASSUME NEW p \in Process, Contain(p) \/ Permit(p) \/ ThrowRetryable(p) \/ RefuseAfter(p)
                                \/ StoreFails(p)
      PROVE Truth'
  <2>1. proc[p] \in Working
    BY <1>3, WorkingTyped DEF Contain, Permit, ThrowRetryable, RefuseAfter, StoreFails, At
  <2>2. \E pc \in {"denied", "permitted", "retrying", "failed"} : Goto(p, pc)
    BY <1>3 DEF Contain, Permit, ThrowRetryable, RefuseAfter, StoreFails
  <2>3. inst' = inst /\ rows' = rows /\ landed' = landed
    BY <1>3 DEF Contain, Permit, ThrowRetryable, RefuseAfter, StoreFails
  <2> QED
    BY <2>1, <2>2, <2>3, GotoMoves, TruthUndisturbed
<1>4. ASSUME NEW p \in Process, Lookup(p) PROVE Truth'
  <2> DEFINE s == proc[p].step
  <2>1. proc[p] \in Working
    BY <1>4, WorkingTyped DEF Lookup, At
  <2>2. s \in Step /\ Kind[s] \in Effecting
    BY <1>4, <2>1 DEF Lookup, Working
  <2>3. inst' = inst /\ rows' = rows /\ landed' = landed
    BY <1>4 DEF Lookup
  <2>4. CASE LookupVerdict(p) = "skipping"
    <3>1. rows[s] # <<>> /\ rows[s][1] = "succeeded"
      BY <2>4 DEF LookupVerdict
    <3>2. 1 \in DOMAIN rows[s]
      BY <2>2, <3>1 DEF TypeOK
    <3>3. landed[s] > 0
      BY <2>2, <3>1, <3>2 DEF Truth, RecordTellsTheTruth
    <3>4. /\ \A q \in Process \ {p} : proc'[q] = proc[q]
          /\ proc'[p].step = s
      BY <1>4, <2>1, GotoMoves DEF Lookup
    <3>5. RecordTellsTheTruth'
      BY <2>3 DEF Truth, RecordTellsTheTruth, Succeeded, Compensated
    <3> QED
      BY <2>3, <3>3, <3>4, <3>5 DEF Truth
  <2>5. CASE LookupVerdict(p) # "skipping"
    <3>1. LookupVerdict(p) \in {"failed", "checked"}
      BY <2>5 DEF LookupVerdict
    <3> QED
      BY <1>4, <2>1, <2>3, <3>1, GotoMoves, TruthUndisturbed DEF Lookup
  <2> QED
    BY <2>4, <2>5
<1>5. ASSUME NEW p \in Process, RecordRunning(p) \/ Route(p) PROVE Truth'
  <2> DEFINE s == proc[p].step
  <2>1. proc[p] \in Working
    BY <1>5, WorkingTyped DEF RecordRunning, Route, At
  <2>2. s \in Step
    BY <2>1 DEF Working
  <2>3. inst' = inst /\ landed' = landed
    BY <1>5 DEF RecordRunning, Route
  <2>4. \/ rows' = rows
        \/ rows' = [rows EXCEPT ![s] = Append(rows[s], "running")]
        \/ Kind[s] \notin Effecting /\ rows' = [rows EXCEPT ![s] = Append(rows[s], "succeeded")]
    BY <1>5 DEF RecordRunning, Route
  <2>5. ASSUME NEW t \in Step, Kind[t] \in Effecting, NEW n \in DOMAIN rows'[t],
               rows'[t][n] = "succeeded"
        PROVE  landed[t] > 0
    <3>1. CASE rows'[t] = rows[t]
      BY <2>5, <3>1 DEF Truth, RecordTellsTheTruth
    <3>2. CASE t = s /\ rows'[t] = Append(rows[t], "running")
      <4>1. rows[t] \in Seq({"running", "succeeded", "failed", "denied"})
        BY DEF TypeOK
      <4>2. n \in DOMAIN rows[t] /\ rows[t][n] = "succeeded"
        BY <2>5, <3>2, <4>1
      <4> QED
        BY <2>5, <4>2 DEF Truth, RecordTellsTheTruth
    <3> QED
      BY <2>2, <2>4, <2>5, <3>1, <3>2 DEF TypeOK
  <2>6. RecordTellsTheTruth'
    BY <2>3, <2>5 DEF Truth, RecordTellsTheTruth, Succeeded, Compensated
  <2>7. /\ \A q \in Process \ {p} : proc'[q] = proc[q]
        /\ proc'[p].pc \in {"recorded", "routing"}
    <3>1. CASE \E pc \in {"recorded", "routing"} : Goto(p, pc)
      BY <2>1, <3>1, GotoMoves
    <3>2. CASE \E state : Become(p, state) /\ state.pc = "recorded"
      BY <3>2, BecomeMoves
    <3> QED
      BY <1>5, <3>1, <3>2 DEF RecordRunning, Route
  <2> QED
    BY <2>3, <2>6, <2>7 DEF Truth
<1>6. ASSUME NEW p \in Process,
             Refuse(p) \/ ThrowDenied(p) \/ ThrowFatal(p) \/ RecordSucceeded(p)
      PROVE Truth'
  <2> DEFINE s == proc[p].step
  <2>1. proc[p] \in Working
    BY <1>6, WorkingTyped DEF Refuse, ThrowDenied, ThrowFatal, RecordSucceeded, At
  <2>2. s \in Step
    BY <2>1 DEF Working
  <2>3. inst' = inst /\ landed' = landed
    BY <1>6 DEF Refuse, ThrowDenied, ThrowFatal, RecordSucceeded
  <2>4. \/ rows' = rows
        \/ \E status \in {"denied", "failed"} : PatchRow(p, status)
        \/ PatchRow(p, "succeeded") /\ landed[s] > 0
    BY <1>6 DEF Refuse, ThrowDenied, ThrowFatal, RecordSucceeded, At, Truth
  <2>5. \E status \in {"denied", "failed", "succeeded"} :
          /\ rows' = rows \/ rows' = [rows EXCEPT ![s][proc[p].row] = status]
          /\ status = "succeeded" => landed[s] > 0
    BY <2>4 DEF PatchRow
  <2>6. ASSUME NEW t \in Step, Kind[t] \in Effecting, NEW n \in DOMAIN rows'[t],
               rows'[t][n] = "succeeded"
        PROVE  landed[t] > 0
    <3> PICK status \in {"denied", "failed", "succeeded"} :
          /\ rows' = rows \/ rows' = [rows EXCEPT ![s][proc[p].row] = status]
          /\ status = "succeeded" => landed[s] > 0
      BY <2>5
    <3>0. rows \in [Step -> Seq({"running", "succeeded", "failed", "denied"})]
      BY DEF TypeOK
    <3>1. CASE rows' = rows \/ t # s
      <4>1. rows'[t] = rows[t]
        BY <2>2, <3>0, <3>1
      <4> QED
        BY <2>6, <4>1 DEF Truth, RecordTellsTheTruth
    <3>2. CASE rows' # rows /\ t = s
      <4>1. rows'[s] = [rows[s] EXCEPT ![proc[p].row] = status]
        BY <2>2, <3>0, <3>2
      <4>2. n \in DOMAIN rows[s] /\ (rows[s][n] = "succeeded" \/ status = "succeeded")
        BY <2>6, <3>2, <4>1
      <4> QED
        BY <2>2, <2>6, <3>2, <4>2 DEF Truth, RecordTellsTheTruth
    <3> QED
      BY <3>1, <3>2
  <2>7. RecordTellsTheTruth'
    BY <2>3, <2>6 DEF Truth, RecordTellsTheTruth, Succeeded, Compensated
  <2>8. \E pc \in {"denied", "failed", "succeeded"} :
          Goto(p, pc) /\ (pc = "succeeded" => landed[s] > 0)
    BY <1>6 DEF Refuse, ThrowDenied, ThrowFatal, RecordSucceeded, At, Truth
  <2>9. /\ \A q \in Process \ {p} : proc'[q] = proc[q]
        /\ proc'[p].step = s
        /\ proc'[p].pc \in {"denied", "failed", "succeeded"}
        /\ proc'[p].pc = "succeeded" => landed[s] > 0
    BY <2>1, <2>8, GotoMoves
  <2> QED
    BY <2>3, <2>7, <2>9 DEF Truth
<1>7. ASSUME NEW p \in Process, Land(p) PROVE Truth'
  <2> DEFINE s == proc[p].step
  <2>1. proc[p] \in Working
    BY <1>7, WorkingTyped DEF Land, At
  <2>2. inst' = inst /\ rows' = rows
    BY <1>7 DEF Land
  <2>3. s \in Step /\ landed' = [landed EXCEPT ![s] = landed[s] + 1]
    BY <1>7, <2>1 DEF Land, Working
  <2>4. landed'[s] > 0 /\ \A t \in Step : landed[t] > 0 => landed'[t] > 0
    BY <2>3 DEF TypeOK
  <2>5. RecordTellsTheTruth'
    <3>1. \A t \in Step : Undo[t] # Nil => Undo[t] \in Step
      BY DefinitionAssumption
    <3> QED
      BY <2>2, <2>4, <3>1 DEF Truth, RecordTellsTheTruth, Succeeded, Compensated
  <2>6. /\ \A q \in Process \ {p} : proc'[q] = proc[q]
        /\ proc'[p].step = s
    BY <1>7, <2>1, GotoMoves DEF Land
  <2>7. \A q \in Process : proc[q].pc \in {"landed", "succeeded", "skipping"} => proc[q].step \in Step
    BY WorkingTyped DEF Working
  <2> QED
    BY <2>4, <2>5, <2>6, <2>7 DEF Truth
<1>8. ASSUME NEW p \in Process, Retry(p) \/ SettleStep(p) PROVE Truth'
  <2> DEFINE s == proc[p].step
  <2>1. s \in Step /\ proc[p] \in Working
    BY <1>8, WorkingTyped DEF Retry, SettleStep, At, Working
  <2>2. ASSUME NEW t \in Step, NEW said \in {"succeeded", "compensated"}
        PROVE  Says(inst', t, said) => Says(inst, t, said)
    <3>1. CASE inst' = inst
      BY <3>1
    <3>2. CASE \E verdict \in {"failed", "denied"} : inst' = Settle(inst, s, verdict)
      BY <1>t, <2>1, <3>2, SaysSettled
    <3>3. CASE \E token : inst' = WithToken(inst, s, token)
      BY <1>t, <3>3, HistoryKept, SaysKept
    <3> QED
      BY <1>8, <3>1, <3>2, <3>3 DEF Retry, SettleStep
  <2>3. rows' = rows /\ landed' = landed /\ Leave(p)
    BY <1>8 DEF Retry, SettleStep, Leave
  <2>4. /\ \A q \in Process \ {p} : proc'[q] = proc[q]
        /\ proc'[p].pc \notin {"landed", "succeeded", "skipping"}
    BY <2>1, <2>3, LeaveMoves
  <2> QED
    BY <2>2, <2>3, <2>4, TruthUndisturbed
<1>9. ASSUME NEW p \in Process, Advance(p) PROVE Truth'
  <2> DEFINE s == proc[p].step
  <2>1. s \in Step /\ landed[s] > 0 /\ proc[p] \in Working
    BY <1>9, WorkingTyped DEF Advance, Truth, Working
  <2>2. s \in Live(inst) /\ Kind[s] # "compensation" => After[s] \in Step \cup {Nil}
    BY <2>1, DefinitionAssumption
  <2>3. ASSUME NEW t \in Step, Says(inst', t, "succeeded")
        PROVE  Says(inst, t, "succeeded") \/ t = s
    BY <1>9, <1>t, <2>1, <2>2, <2>3, SaysCompensated, SaysAdvanced DEF Advance
  <2>4. ASSUME NEW t \in Step, Says(inst', t, "compensated")
        PROVE  Says(inst, t, "compensated") \/ Undo[t] = s
    BY <1>9, <1>t, <2>1, <2>2, <2>4, SaysCompensated, SaysAdvanced, ForwardOfTyped DEF Advance
  <2>5. rows' = rows /\ landed' = landed /\ Leave(p)
    BY <1>9 DEF Advance
  <2> QED
    BY <2>1, <2>3, <2>4, <2>5, TruthAdvanced DEF Truth, RecordTellsTheTruth, Succeeded, Compensated
<1>10. ASSUME NEW p \in Process, RunParallel(p) \/ \E target \in Step : RunBranch(p, target)
       PROVE Truth'
  <2> DEFINE s == proc[p].step
  <2>1. Kind[s] \notin Effecting
    BY <1>10 DEF RunParallel, RunBranch, Effecting
  <2>2. ASSUME NEW t \in Step, NEW said, Says(inst', t, said)
        PROVE  Says(inst, t, said) \/ (t = s /\ said = "succeeded")
    BY <1>10, <1>t, <2>2, SaysFannedOut, SaysAdvanced DEF RunParallel, RunBranch
  <2>3. rows' = rows /\ landed' = landed /\ Leave(p) /\ proc[p] \in Working
    BY <1>10, WorkingTyped DEF RunParallel, RunBranch, At
  <2> QED
    BY <2>1, <2>2, <2>3, TruthAdvanced DEF Truth, RecordTellsTheTruth, Succeeded, Compensated
<1>11. ASSUME NEW p \in Process, Cancel(p) PROVE Truth'
  <2> DEFINE marked == [inst EXCEPT !.verdict = "cancelled"]
  <2>1. marked \in Instance /\ marked.history = inst.history
    BY <1>t DEF Instance
  <2>2. inst'.history = inst.history
    <3>1. inst' = BeginUnwind(marked)
      BY <1>11 DEF Cancel
    <3> HIDE DEF marked
    <3> QED
      BY <2>1, <3>1, HistoryKept
  <2>3. \A t \in Step, said \in {"succeeded", "compensated"} :
          Says(inst', t, said) => Says(inst, t, said)
    BY <1>t, <2>2, SaysKept
  <2>4. \E state \in {Idle, [pc |-> "ended"]} : Become(p, state)
    BY <1>11 DEF Cancel
  <2>5. /\ \A q \in Process \ {p} : proc'[q] = proc[q]
        /\ proc'[p].pc \notin {"landed", "succeeded", "skipping"}
    BY <2>4, BecomeMoves DEF Idle
  <2>6. rows' = rows /\ landed' = landed
    BY <1>11 DEF Cancel
  <2> QED
    BY <2>3, <2>5, <2>6, TruthUndisturbed
<1>12. ASSUME NEW s \in Step, Elapse(s) PROVE Truth'
  <2>1. inst'.history = inst.history
    BY <1>12, <1>t DEF Elapse, Instance
  <2>2. proc' = proc /\ rows' = rows /\ landed' = landed
    BY <1>12 DEF Elapse
  <2> QED
    BY <2>1, <2>2 DEF Truth, RecordTellsTheTruth, Succeeded, Compensated, Says
<1>13. CASE UNCHANGED vars
  BY <1>13 DEF vars, Truth, RecordTellsTheTruth, Succeeded, Compensated, Says
<1> QED
  BY <1>1, <1>2, <1>3, <1>4, <1>5, <1>6, <1>7, <1>8, <1>9, <1>10, <1>11, <1>12, <1>13
  DEF Next, Engine, Perform

\* The operating record and the history claim no effect that did not happen.
THEOREM RecordIsTrue == Spec => []RecordTellsTheTruth
<1>1. Init => Truth
  BY TruthInit
<1>2. TypeOK /\ Truth /\ [Next]_vars => Truth'
  BY TruthStep
<1>3. Truth => RecordTellsTheTruth
  BY DEF Truth
<1> QED
  BY <1>1, <1>2, <1>3, TypeCorrect, PTL DEF Spec

-----------------------------------------------------------------------------
(* Where paths lead.                                                        *)

LEMMA LeadsTyped ==
  ASSUME NEW s \in Step
  PROVE  Leads(s) \subseteq Step
BY DefinitionAssumption DEF Leads, Effecting

LEMMA AheadTyped ==
  ASSUME NEW s \in Step
  PROVE  s \in Ahead[s] /\ Ahead[s] \subseteq Step
BY DEF Ahead

\* What runs from a step's successor on runs from the step on.
LEMMA AheadOfLead ==
  ASSUME NEW s \in Step, NEW t \in Leads(s)
  PROVE  t \in Step /\ Ahead[t] \subseteq Ahead[s] /\ t # s
<1>1. t \in Step
  BY LeadsTyped
<1>2. ASSUME NEW u \in Ahead[t] PROVE u \in Ahead[s]
  <2>1. u \in Step
    BY <1>1, <1>2, AheadTyped
  <2>2. ASSUME NEW S \in SUBSET Step, s \in S, \A r \in S : Leads(r) \subseteq S PROVE u \in S
    <3>1. t \in S
      BY <2>2
    <3> QED
      BY <1>1, <1>2, <2>2, <3>1 DEF Ahead
  <2> QED
    BY <2>1, <2>2 DEF Ahead
<1>3. s \notin Ahead[t]
  BY DefinitionAssumption
<1> QED
  BY <1>1, <1>2, <1>3, AheadTyped

\* A path has no compensation on it.
LEMMA LeadsForward ==
  ASSUME NEW s \in Step, Kind[s] # "compensation", NEW t \in Leads(s)
  PROVE  Kind[t] # "compensation"
<1>1. s \in Ahead[First] /\ t \in Step /\ First \in Step
  BY LeadsTyped, DefinitionAssumption
<1>2. ASSUME NEW S \in SUBSET Step, First \in S, \A r \in S : Leads(r) \subseteq S PROVE t \in S
  <2>1. s \in S
    BY <1>1, <1>2 DEF Ahead
  <2> QED
    BY <1>2, <2>1
<1>3. t \in Ahead[First]
  BY <1>1, <1>2 DEF Ahead
<1> QED
  BY <1>1, <1>3, DefinitionAssumption

LEMMA StrictSubset ==
  ASSUME NEW S, NEW A \in SUBSET S, NEW B \in SUBSET S, A \subseteq B, A # B
  PROVE  <<A, B>> \in StrictSubsetOrdering(S)
BY DEF StrictSubsetOrdering

\* A finite set of numbers has a greatest.
LEMMA LatestExists ==
  ASSUME NEW n \in Nat, NEW M \in SUBSET (1..n), M # {}
  PROVE  \E m \in M : \A k \in M : k <= m
<1> DEFINE Above(m) == {k \in M : k > m}
           T == {Above(m) : m \in M}
<1>0. 1 \in Int /\ n \in Int /\ M \subseteq 1..n
  OBVIOUS
<1>1. IsFiniteSet(M)
  <2>1. IsFiniteSet(1..n)
    BY <1>0, FS_Interval
  <2> QED
    BY <1>0, <2>1, FS_Subset
<1>2. T \subseteq FiniteSubsetsOf(M)
  <2>1. T \subseteq SUBSET M
    OBVIOUS
  <2> HIDE DEF T
  <2> QED
    BY <1>1, <2>1, FS_FiniteSubsetsOfFinite
<1>3. PICK x \in T : \A y \in T : <<y, x>> \notin StrictSubsetOrdering(M)
  <2>1. T # {}
    OBVIOUS
  <2> HIDE DEF T
  <2> QED
    BY <1>2, <2>1, WFMin, FS_StrictSubsetOrderingWellFounded
<1>4. PICK m \in M : x = Above(m)
  BY <1>3
<1>5. ASSUME NEW k \in M, ~(k <= m) PROVE FALSE
  <2>1. k \in Int /\ m \in Int /\ k > m
    BY <1>5
  <2>2. Above(k) \subseteq Above(m) /\ k \in Above(m) /\ k \notin Above(k)
    <3>1. \A l \in Above(k) : l \in Int /\ l > k /\ l \in M
      OBVIOUS
    <3>2. ASSUME NEW l \in Above(k) PROVE l \in Above(m)
      <4>1. l \in Int /\ l > k /\ l \in M
        BY <3>1
      <4>2. l > m
        BY <2>1, <4>1
      <4> QED
        BY <4>1, <4>2
    <3>3. k \in Above(m) /\ k \notin Above(k)
      BY <2>1
    <3> QED
      BY <3>2, <3>3
  <2>3. Above(k) \in T /\ Above(k) \in SUBSET M /\ Above(m) \in SUBSET M
    OBVIOUS
  <2> HIDE DEF Above, T
  <2>4. <<Above(k), x>> \in StrictSubsetOrdering(M)
    BY <1>4, <2>2, <2>3, StrictSubset
  <2> QED
    BY <1>3, <2>3, <2>4
<1> QED
  BY <1>4, <1>5

-----------------------------------------------------------------------------
(* What the operators of instance.ts change.                                *)

Open(i) == {b \in Step : i.barriers[b] # NoBarrier}

LEMMA TokenChanged ==
  ASSUME NEW i \in Instance, NEW s \in Step, NEW token
  PROVE  /\ WithToken(i, s, token).tokens = [i.tokens EXCEPT ![s] = token]
         /\ WithToken(i, s, token).barriers = i.barriers
         /\ WithToken(i, s, token).queue = i.queue
         /\ WithToken(i, s, token).history = i.history
BY DEF Instance, WithToken

LEMMA TokenGone ==
  ASSUME NEW i \in Instance, NEW s \in Step
  PROVE  /\ WithoutToken(i, s).tokens = [i.tokens EXCEPT ![s] = NoToken]
         /\ WithoutToken(i, s).barriers = i.barriers
         /\ WithoutToken(i, s).queue = i.queue
         /\ WithoutToken(i, s).history = i.history
BY DEF Instance, WithoutToken

LEMMA HistoryAppended ==
  ASSUME NEW i \in Instance, NEW s, NEW outcome
  PROVE  /\ AppendHistory(i, s, outcome).tokens = i.tokens
         /\ AppendHistory(i, s, outcome).barriers = i.barriers
         /\ AppendHistory(i, s, outcome).queue = i.queue
         /\ AppendHistory(i, s, outcome).history =
              Append(i.history, [step |-> s, outcome |-> outcome])
BY DEF Instance, AppendHistory

\* A token removed and its step noted.
LEMMA StepNoted ==
  ASSUME NEW i \in Instance, NEW s \in Step, NEW outcome \in Outcome
  PROVE  LET j == AppendHistory(WithoutToken(i, s), s, outcome)
         IN  /\ j \in Instance
             /\ j.tokens = [i.tokens EXCEPT ![s] = NoToken]
             /\ j.barriers = i.barriers
             /\ j.queue = i.queue
             /\ j.history = Append(i.history, [step |-> s, outcome |-> outcome])
<1> DEFINE bare == WithoutToken(i, s)
           j == AppendHistory(bare, s, outcome)
<1>1. bare \in Instance
  BY WithoutTokenTyped
<1>2. /\ bare.tokens = [i.tokens EXCEPT ![s] = NoToken]
      /\ bare.barriers = i.barriers /\ bare.queue = i.queue /\ bare.history = i.history
  BY TokenGone
<1> HIDE DEF bare
<1>3. j \in Instance
  BY <1>1, AppendHistoryTyped
<1>4. /\ j.tokens = bare.tokens /\ j.barriers = bare.barriers /\ j.queue = bare.queue
      /\ j.history = Append(bare.history, [step |-> s, outcome |-> outcome])
  BY <1>1, HistoryAppended
<1> USE DEF bare
<1> QED
  BY <1>2, <1>3, <1>4

\* Live tokens, put and removed.
LEMMA LivePut ==
  ASSUME NEW i \in Instance, NEW s \in Step, NEW token, token # NoToken, NEW j,
         j.tokens = [i.tokens EXCEPT ![s] = token]
  PROVE  Live(j) = Live(i) \cup {s}
BY DEF Live, Instance

LEMMA LiveTaken ==
  ASSUME NEW i \in Instance, NEW s \in Step, NEW j,
         j.tokens = [i.tokens EXCEPT ![s] = NoToken]
  PROVE  Live(j) = Live(i) \ {s}
BY DEF Live, Instance

LEMMA FreshIsToken ==
  ASSUME NEW barrier
  PROVE  Fresh(barrier) # NoToken
BY DEF Fresh, NoToken

\* A path has reported to its barrier: it is gone or waits, or its join starts.
Arrived(i, b, j) ==
  /\ j.queue = i.queue /\ j.history = i.history
  /\ \/ j = i /\ b \notin Open(i)
     \/ /\ b \in Open(i) /\ i.barriers[b].arrived + 1 < Cardinality(Heads[b])
        /\ j.tokens = i.tokens
        /\ j.barriers = [i.barriers EXCEPT ![b] =
                           [i.barriers[b] EXCEPT !.arrived = i.barriers[b].arrived + 1]]
     \/ /\ b \in Open(i) /\ ~(i.barriers[b].arrived + 1 < Cardinality(Heads[b]))
        /\ j.tokens = [i.tokens EXCEPT ![After[b]] = Fresh(i.barriers[b].parent)]
        /\ j.barriers = [i.barriers EXCEPT ![b] = NoBarrier]

LEMMA Arrives ==
  ASSUME NEW i \in Instance, NEW b \in Step
  PROVE  Arrived(i, b, ArriveAtBarrier(i, b))
<1> DEFINE j == ArriveAtBarrier(i, b)
           bar == i.barriers[b]
<1> SUFFICES Arrived(i, b, j)
  OBVIOUS
<1>1. CASE bar = NoBarrier
  BY <1>1 DEF Arrived, ArriveAtBarrier, Open
<1>2. CASE bar # NoBarrier
  <2>1. bar \in Barrier /\ b \in Open(i)
    BY <1>2 DEF Instance, Open
  <2>2. CASE bar.arrived + 1 < Cardinality(Heads[b])
    <3>1. j = [i EXCEPT !.barriers[b].arrived = bar.arrived + 1]
      BY <1>2, <2>2 DEF ArriveAtBarrier
    <3> HIDE DEF j
    <3>2. j = [i EXCEPT !.barriers = 
             [i.barriers EXCEPT ![b] = [i.barriers[b] EXCEPT !.arrived = i.barriers[b].arrived + 1]]]
      BY <3>1, <2>1 DEF Instance, Barrier
    <3>3. /\ j.queue = i.queue /\ j.history = i.history /\ j.tokens = i.tokens
          /\ j.barriers = [i.barriers EXCEPT ![b] =
                             [i.barriers[b] EXCEPT !.arrived = i.barriers[b].arrived + 1]]
      BY <3>2 DEF Instance
    <3> QED
      BY <2>1, <2>2, <3>3 DEF Arrived
  <2>3. CASE ~(bar.arrived + 1 < Cardinality(Heads[b]))
    <3> DEFINE closed == [i EXCEPT !.barriers[b] = NoBarrier]
    <3>1. j = WithToken(closed, After[b], Fresh(bar.parent))
      BY <1>2, <2>3 DEF ArriveAtBarrier
    <3>2. /\ closed.tokens = i.tokens /\ closed.queue = i.queue /\ closed.history = i.history
          /\ closed.barriers = [i.barriers EXCEPT ![b] = NoBarrier]
          /\ closed \in Instance
      BY DEF Instance
    <3> HIDE DEF closed, j
    <3>3. /\ j.tokens = [i.tokens EXCEPT ![After[b]] = Fresh(bar.parent)]
          /\ j.barriers = closed.barriers /\ j.queue = closed.queue /\ j.history = closed.history
      BY <3>1, <3>2 DEF WithToken, Instance
    <3> QED
      BY <2>1, <2>3, <3>2, <3>3 DEF Arrived
  <2> QED
    BY <2>2, <2>3
<1> QED
  BY <1>1, <1>2

\* A step has completed: its successor starts, or its path ends.
AdvancedTo(i, s, next, b, j) ==
  /\ j.queue = i.queue
  /\ j.history = Append(i.history, [step |-> s, outcome |-> "succeeded"])
  /\ \/ /\ next # Nil
        /\ j.tokens = [[i.tokens EXCEPT ![s] = NoToken] EXCEPT ![next] = Fresh(b)]
        /\ j.barriers = i.barriers
     \/ /\ next = Nil /\ b \notin Open(i)
        /\ j.tokens = [i.tokens EXCEPT ![s] = NoToken]
        /\ j.barriers = i.barriers
     \/ /\ next = Nil /\ b \in Open(i)
        /\ i.barriers[b].arrived + 1 < Cardinality(Heads[b])
        /\ j.tokens = [i.tokens EXCEPT ![s] = NoToken]
        /\ j.barriers = [i.barriers EXCEPT ![b] =
                           [i.barriers[b] EXCEPT !.arrived = i.barriers[b].arrived + 1]]
     \/ /\ next = Nil /\ b \in Open(i)
        /\ ~(i.barriers[b].arrived + 1 < Cardinality(Heads[b]))
        /\ j.tokens = [[i.tokens EXCEPT ![s] = NoToken]
                         EXCEPT ![After[b]] = Fresh(i.barriers[b].parent)]
        /\ j.barriers = [i.barriers EXCEPT ![b] = NoBarrier]

LEMMA Advances ==
  ASSUME NEW i \in Instance, NEW s \in Live(i), NEW next \in Step \cup {Nil}
  PROVE  /\ s \in Step /\ i.tokens[s].barrier \in Step \cup {Nil}
         /\ AdvancedTo(i, s, next, i.tokens[s].barrier, AdvanceTo(i, s, next))
<1> DEFINE b == i.tokens[s].barrier
           j == AdvanceTo(i, s, next)
           done == AppendHistory(WithoutToken(i, s), s, "succeeded")
<1>1. s \in Step /\ b \in Step \cup {Nil}
  BY DEF Live, Instance, Token, NoToken
<1>2. /\ done \in Instance
      /\ done.tokens = [i.tokens EXCEPT ![s] = NoToken]
      /\ done.barriers = i.barriers /\ done.queue = i.queue
      /\ done.history = Append(i.history, [step |-> s, outcome |-> "succeeded"])
  BY <1>1, StepNoted DEF Outcome
<1>3. j = CASE next # Nil -> WithToken(done, next, Fresh(b))
            [] next = Nil /\ b # Nil -> ArriveAtBarrier(done, b)
            [] OTHER -> done
  BY DEF AdvanceTo
<1> SUFFICES AdvancedTo(i, s, next, b, j)
  BY <1>1
<1> HIDE DEF done, j, b
<1>4. CASE next # Nil
  <2>1. j = WithToken(done, next, Fresh(b)) /\ next \in Step
    BY <1>3, <1>4
  <2>2. /\ j.tokens = [done.tokens EXCEPT ![next] = Fresh(b)]
        /\ j.barriers = done.barriers /\ j.queue = done.queue /\ j.history = done.history
    BY <1>2, <2>1 DEF WithToken, Instance
  <2> QED
    BY <1>1, <1>2, <1>4, <2>2 DEF AdvancedTo
<1>5. CASE next = Nil /\ b # Nil
  <2>1. j = ArriveAtBarrier(done, b) /\ b \in Step
    BY <1>1, <1>3, <1>5
  <2>2. b \in Open(done) <=> b \in Open(i)
    BY <1>2 DEF Open
  <2>3. Arrived(done, b, j)
    BY <1>2, <2>1, Arrives
  <2>4. CASE j = done /\ b \notin Open(done)
    BY <1>1, <1>2, <1>5, <2>2, <2>4 DEF AdvancedTo
  <2>5. CASE b \in Open(done) /\ done.barriers[b].arrived + 1 < Cardinality(Heads[b])
    <3>1. /\ j.tokens = done.tokens
          /\ j.barriers = [done.barriers EXCEPT ![b] =
                [done.barriers[b] EXCEPT !.arrived = done.barriers[b].arrived + 1]]
      BY <2>3, <2>5 DEF Arrived
    <3> QED
      BY <1>1, <1>2, <1>5, <2>2, <2>3, <2>5, <3>1 DEF AdvancedTo, Arrived
  <2>6. CASE b \in Open(done) /\ ~(done.barriers[b].arrived + 1 < Cardinality(Heads[b]))
    <3>1. /\ j.tokens = [done.tokens EXCEPT ![After[b]] = Fresh(done.barriers[b].parent)]
          /\ j.barriers = [done.barriers EXCEPT ![b] = NoBarrier]
      BY <2>3, <2>6 DEF Arrived
    <3> QED
      BY <1>1, <1>2, <1>5, <2>2, <2>3, <2>6, <3>1 DEF AdvancedTo, Arrived
  <2> QED
    BY <2>3, <2>4, <2>5, <2>6 DEF Arrived
<1>6. CASE next = Nil /\ b = Nil
  <2>1. j = done
    BY <1>3, <1>6
  <2>2. b \notin Open(i)
    BY <1>6, DefinitionAssumption DEF Open
  <2> QED
    BY <1>1, <1>2, <1>6, <2>1, <2>2 DEF AdvancedTo
<1> QED
  BY <1>4, <1>5, <1>6

\* A parallel step has completed: a token on the head of each path, and a barrier.
FannedOut(i, s, j) ==
  /\ j.queue = i.queue
  /\ j.history = Append(i.history, [step |-> s, outcome |-> "succeeded"])
  /\ j.tokens = [t \in Step |-> IF t \in Heads[s] THEN Fresh(s)
                                ELSE IF t = s THEN NoToken ELSE i.tokens[t]]
  /\ j.barriers = [i.barriers EXCEPT ![s] = [arrived |-> 0, parent |-> i.tokens[s].barrier]]

LEMMA FansOut ==
  ASSUME NEW i \in Instance, NEW s \in Live(i)
  PROVE  s \in Step /\ FannedOut(i, s, FanOut(i, s))
<1> DEFINE j == FanOut(i, s)
           begun == AppendHistory(WithoutToken(i, s), s, "succeeded")
           barrier == [arrived |-> 0, parent |-> i.tokens[s].barrier]
           tokens == [t \in Step |-> IF t \in Heads[s] THEN Fresh(s) ELSE begun.tokens[t]]
<1>1. s \in Step
  BY DEF Live
<1>2. /\ begun \in Instance
      /\ begun.tokens = [i.tokens EXCEPT ![s] = NoToken]
      /\ begun.barriers = i.barriers /\ begun.queue = i.queue
      /\ begun.history = Append(i.history, [step |-> s, outcome |-> "succeeded"])
  BY <1>1, StepNoted DEF Outcome
<1>3. j = [begun EXCEPT !.barriers[s] = barrier, !.tokens = tokens]
  BY DEF FanOut
<1>4. tokens = [t \in Step |-> IF t \in Heads[s] THEN Fresh(s)
                               ELSE IF t = s THEN NoToken ELSE i.tokens[t]]
  BY <1>1, <1>2 DEF Instance
<1>5. /\ j.queue = begun.queue /\ j.history = begun.history
      /\ j.tokens = tokens /\ j.barriers = [begun.barriers EXCEPT ![s] = barrier]
  <2> HIDE DEF begun, barrier, tokens
  <2> QED
    BY <1>2, <1>3 DEF Instance
<1> QED
  BY <1>1, <1>2, <1>4, <1>5 DEF FannedOut

\* The head of the queue is well defined: of steps that completed, one did so last.
LEMMA HeadExists ==
  ASSUME NEW i \in Instance, i.queue # {},
         \A u \in i.queue : Kind[u] = "compensation" /\ Says(i, ForwardOf(u), "succeeded")
  PROVE  /\ HeadOf(i) \in i.queue
         /\ \A v \in i.queue \ {HeadOf(i)} :
              CompletedAfter(i, ForwardOf(HeadOf(i)), ForwardOf(v))
<1> DEFINE done(u) == [step |-> ForwardOf(u), outcome |-> "succeeded"]
           h == i.history
           n == Len(h)
           M == {m \in 1..n : \E u \in i.queue : h[m] = done(u)}
<1>1. n \in Nat /\ DOMAIN h = 1..n /\ i.queue \subseteq Step
  BY DEF Instance
<1>2. M # {}
  <2>1. PICK u \in i.queue : TRUE
    OBVIOUS
  <2>2. PICK m \in DOMAIN h : h[m] = done(u)
    BY <2>1 DEF Says
  <2> QED
    BY <1>1, <2>1, <2>2
<1>3. PICK m \in M : \A k \in M : k <= m
  <2>1. M \in SUBSET (1..n)
    OBVIOUS
  <2> HIDE DEF M, n
  <2> QED
    BY <1>1, <1>2, <2>1, LatestExists
<1>4. PICK u \in i.queue : h[m] = done(u)
  BY <1>3
<1>5. ASSUME NEW v \in i.queue \ {u}
      PROVE  CompletedAfter(i, ForwardOf(u), ForwardOf(v))
  <2>1. ForwardOf(u) # ForwardOf(v)
    BY <1>1, ForwardOfTyped
  <2>2. ASSUME NEW k \in DOMAIN h, h[k] = [step |-> ForwardOf(v), outcome |-> "succeeded"]
        PROVE k < m
    <3>1. k \in M
      BY <1>1, <2>2
    <3>2. k # m
      BY <1>4, <2>1, <2>2
    <3> QED
      BY <1>1, <1>3, <3>1, <3>2
  <2>3. m \in DOMAIN h
    BY <1>1, <1>3
  <2> QED
    BY <1>4, <2>2, <2>3 DEF CompletedAfter
<1>6. \E w \in i.queue : \A v \in i.queue \ {w} : CompletedAfter(i, ForwardOf(w), ForwardOf(v))
  BY <1>4, <1>5
<1> QED
  BY <1>6 DEF HeadOf

\* Which steps completed after which does not change by what is noted of others.
LEMMA CompletedAfterAppended ==
  ASSUME NEW i \in Instance, NEW x \in Step, NEW outcome \in Outcome, NEW j,
         j.history = Append(i.history, [step |-> x, outcome |-> outcome]),
         NEW s, NEW t, outcome # "succeeded" \/ (s # x /\ t # x)
  PROVE  CompletedAfter(j, s, t) <=> CompletedAfter(i, s, t)
<1> DEFINE Entry == [step : Step, outcome : Outcome]
           entry == [step |-> x, outcome |-> outcome]
           ds == [step |-> s, outcome |-> "succeeded"]
           dt == [step |-> t, outcome |-> "succeeded"]
           h == i.history
           g == j.history
<1>1. h \in Seq(Entry) /\ entry \in Entry /\ g = Append(h, entry)
  BY DEF Instance
<1>2. entry # ds /\ entry # dt
  OBVIOUS
<1>3. (\E m \in DOMAIN g : g[m] = ds /\ \A n \in DOMAIN g : g[n] = dt => n < m)
        <=> (\E m \in DOMAIN h : h[m] = ds /\ \A n \in DOMAIN h : h[n] = dt => n < m)
  <2> HIDE DEF Entry, entry, ds, dt, h, g
  <2>1. /\ Len(h) \in Nat
        /\ DOMAIN h = 1..Len(h)
        /\ DOMAIN g = 1..(Len(h) + 1)
        /\ \A n \in 1..Len(h) : g[n] = h[n]
        /\ g[Len(h) + 1] = entry
    BY <1>1
  <2>2. 1..(Len(h) + 1) = (1..Len(h)) \cup {Len(h) + 1}
    BY <2>1
  <2> QED
    BY <1>2, <2>1, <2>2
<1> QED
  BY <1>3 DEF CompletedAfter

-----------------------------------------------------------------------------
(* The moves of the instance, whoever makes them.                           *)

\* Only the steps with an effect are looked up, recorded, performed and retried.
Placed ==
  \A p \in Process :
    proc[p].pc \in {"checked", "recorded", "permitted", "landed", "succeeded", "skipping", "retrying"}
      => Kind[proc[p].step] \in Effecting

LEMMA PlacedStep == TypeOK /\ Placed /\ [Next]_vars => Placed'
<1> DEFINE Places == {"checked", "recorded", "permitted", "landed", "succeeded", "skipping", "retrying"}
<1> SUFFICES ASSUME TypeOK, Placed, [Next]_vars PROVE Placed'
  OBVIOUS
<1>1. ASSUME NEW p \in Process, \A q \in Process \ {p} : proc'[q] = proc[q],
             proc'[p].pc \in Places => Kind[proc'[p].step] \in Effecting
      PROVE  Placed'
  BY <1>1 DEF Placed
<1>2. ASSUME NEW p \in Process, NEW state, Become(p, state), state.pc \notin Places PROVE Placed'
  BY <1>1, <1>2, BecomeMoves
<1>3. ASSUME NEW p \in Process, NEW pc, Goto(p, pc), proc[p] \in Working,
             pc \in Places => Kind[proc[p].step] \in Effecting
      PROVE  Placed'
  BY <1>1, <1>3, GotoMoves
<1>4. Idle.pc \notin Places
  BY DEF Idle
<1>5. ASSUME NEW p \in Process, Sweep(p) \/ ReadRun(p) \/ CloseRun(p) \/ AuditEnd(p)
                \/ Cancel(p) \/ Crash(p)
      PROVE  Placed'
  BY <1>2, <1>4, <1>5 DEF Sweep, EndStep, ReadRun, CloseRun, AuditEnd, Cancel, Crash
<1>11. ASSUME NEW p \in Process, \/ Retry(p) \/ Advance(p) \/ RunParallel(p) \/ SettleStep(p)
                                 \/ \E target \in Step : RunBranch(p, target)
       PROVE  Placed'
  <2>1. proc[p] \in Working /\ Leave(p)
    BY <1>11, WorkingTyped DEF Retry, Advance, RunParallel, SettleStep, RunBranch, At, Leave
  <2>2. (\A q \in Process \ {p} : proc'[q] = proc[q]) /\ proc'[p].pc \notin Places
    BY <2>1, LeaveMoves
  <2> QED
    BY <1>1, <2>2
<1>6. ASSUME NEW p \in Process, Pick(p) PROVE Placed'
  <2>1. CASE \E state \in {[pc |-> "ended"], Idle} : Become(p, state)
    BY <1>2, <1>4, <2>1
  <2>2. CASE \E s \in Step :
               Become(p, [pc |-> "picked", step |-> s, attempt |-> inst.tokens[s].attempt,
                          state |-> inst.tokens[s].state,
                          inFlight |-> inst.tokens[s].inFlight, row |-> inst.tokens[s].row])
    <3>1. \E state : Become(p, state) /\ state.pc = "picked"
      BY <2>2
    <3> QED
      BY <1>2, <3>1
  <2> QED
    BY <1>6, <2>1, <2>2 DEF Pick
<1>7. ASSUME NEW p \in Process,
             Claim(p) \/ Contain(p) \/ Lookup(p) \/ Route(p) \/ Permit(p) \/ Refuse(p)
             \/ Land(p) \/ ThrowDenied(p) \/ ThrowFatal(p) \/ ThrowRetryable(p)
             \/ RecordSucceeded(p) \/ RefuseAfter(p) \/ StoreFails(p)
      PROVE  Placed'
  <2>1. proc[p] \in Working
    BY <1>7, WorkingTyped DEF At, Claim, Contain, Lookup, Route, Permit, Refuse, Land, ThrowDenied,
                              ThrowFatal, ThrowRetryable, RecordSucceeded, RefuseAfter, StoreFails
  <2>2. \/ Become(p, Idle)
        \/ \E pc : Goto(p, pc) /\ (pc \notin Places \/ Kind[proc[p].step] \in Effecting)
    BY <1>7 DEF At, Claim, Contain, Lookup, Route, Permit, Refuse, Land, ThrowDenied,
                ThrowFatal, ThrowRetryable, RecordSucceeded, RefuseAfter, StoreFails, Placed
  <2> QED
    BY <1>2, <1>3, <1>4, <2>1, <2>2
<1>8. ASSUME NEW p \in Process, RecordRunning(p) PROVE Placed'
  <2>1. proc[p] \in Working /\ Kind[proc[p].step] \in Effecting
    BY <1>8, WorkingTyped DEF RecordRunning, At, Placed
  <2>2. \/ Goto(p, "recorded")
        \/ \E state : Become(p, state) /\ state.step = proc[p].step
    BY <1>8 DEF RecordRunning
  <2> QED
    BY <1>1, <1>3, <2>1, <2>2, BecomeMoves
<1>9. ASSUME NEW s \in Step, Elapse(s) PROVE Placed'
  BY <1>9 DEF Elapse, Placed
<1>10. CASE UNCHANGED vars
  BY <1>10 DEF vars, Placed
<1> QED
  BY <1>5, <1>6, <1>7, <1>8, <1>9, <1>10, <1>11 DEF Next, Engine, Perform

LEMMA PlacedInit == Init => Placed
BY DEF Init, Placed, Idle

\* Where a completed step may lead: a path that ends leads to no step.
Onward(s) == {Nil} \cup Leads(s)

Cancelled(i) == [i EXCEPT !.verdict = "cancelled"]

\* A token is claimed, made to wait for its retry, or ripens.
Holds ==
  \/ \E p \in Process : Claim(p) /\ Claimable(p)
  \/ \E p \in Process : Retry(p) /\ proc[p].step \in Live(inst)
  \/ \E s \in Step : Elapse(s)

\* Every step of the system changes the instance in one of these ways.
LEMMA Moves ==
  ASSUME TypeOK, Placed, [Next]_vars
  PROVE  \/ inst' = inst
         \/ /\ Holds
            /\ \E s \in Live(inst), token \in Token :
                 inst' = WithToken(inst, s, token) /\ token.barrier = inst.tokens[s].barrier
         \/ \E s \in Live(inst) : \E next \in Onward(s) :
              Kind[s] \in {"action", "branch"} /\ inst' = AdvanceTo(inst, s, next)
         \/ \E s \in Live(inst) : Kind[s] = "parallel" /\ inst' = FanOut(inst, s)
         \/ \E s \in Live(inst) : Kind[s] = "compensation" /\ inst' = CompleteCompensation(inst, s)
         \/ \E s \in Step, verdict \in {"failed", "denied"} : inst' = Settle(inst, s, verdict)
         \/ inst' = BeginUnwind(Cancelled(inst))
<1>t. \A s \in Live(inst) : s \in Step /\ inst.tokens[s] \in Token
  BY DEF TypeOK, Live, Instance
<1>1. ASSUME NEW p \in Process, Claim(p), Claimable(p)
      PROVE  \E s \in Live(inst), token \in Token :
               inst' = WithToken(inst, s, token) /\ token.barrier = inst.tokens[s].barrier
  <2> DEFINE s == proc[p].step
  <2>1. s \in Live(inst)
    BY <1>1, WorkingTyped DEF Claim, At, Claimable, Live, Working
  <2>2. inst.tokens[s] \in Token
    BY <1>t, <2>1
  <2>3. Claimed(inst.tokens[s]) \in Token /\ Claimed(inst.tokens[s]).barrier = inst.tokens[s].barrier
    BY <2>2 DEF Claimed, Token
  <2> QED
    BY <1>1, <2>1, <2>3 DEF Claim
<1>2. ASSUME NEW p \in Process, Retry(p), proc[p].step \in Live(inst)
      PROVE  \E s \in Live(inst), token \in Token :
               inst' = WithToken(inst, s, token) /\ token.barrier = inst.tokens[s].barrier
  <2> DEFINE s == proc[p].step
             token == Retried(inst.tokens[s], proc[p].row)
  <2>1. inst.tokens[s] \in Token /\ proc[p].row \in Nat
    BY <1>t, <1>2, WorkingTyped DEF Retry, At, Working
  <2>2. token \in Token /\ token.barrier = inst.tokens[s].barrier
    BY <2>1 DEF Retried, Token
  <2> QED
    BY <1>2, <2>2 DEF Retry
<1>3. ASSUME NEW s \in Step, Elapse(s)
      PROVE  \E t \in Live(inst), token \in Token :
               inst' = WithToken(inst, t, token) /\ token.barrier = inst.tokens[t].barrier
  <2>1. s \in Live(inst)
    BY <1>3 DEF Elapse, Live, NoToken
  <2> DEFINE token == [inst.tokens[s] EXCEPT !.ripe = TRUE]
  <2>2. inst.tokens[s] \in Token
    BY <1>t, <2>1
  <2>3. token \in Token /\ token.barrier = inst.tokens[s].barrier
    BY <2>2 DEF Token
  <2>4. inst' = WithToken(inst, s, token)
    BY <1>3 DEF Elapse, WithToken
  <2> QED
    BY <2>1, <2>3, <2>4
<1>4. ASSUME NEW p \in Process, Advance(p), proc[p].step \in Live(inst)
      PROVE  \/ \E s \in Live(inst) : \E next \in Onward(s) :
                  Kind[s] \in {"action", "branch"} /\ inst' = AdvanceTo(inst, s, next)
             \/ \E s \in Live(inst) : Kind[s] = "compensation" /\ inst' = CompleteCompensation(inst, s)
  <2> DEFINE s == proc[p].step
  <2>1. Kind[s] \in Effecting
    BY <1>4 DEF Advance, Placed
  <2>2. CASE Kind[s] = "compensation"
    BY <1>4, <2>2 DEF Advance
  <2>3. CASE Kind[s] = "action"
    <3>1. After[s] \in Onward(s)
      BY <2>3 DEF Onward, Leads
    <3> QED
      BY <1>4, <2>3, <3>1 DEF Advance
  <2> QED
    BY <2>1, <2>2, <2>3 DEF Effecting
<1>5. ASSUME NEW p \in Process, NEW target \in Step, RunBranch(p, target), proc[p].step \in Live(inst)
      PROVE  \E s \in Live(inst) : \E next \in Onward(s) :
               Kind[s] \in {"action", "branch"} /\ inst' = AdvanceTo(inst, s, next)
  BY <1>5 DEF RunBranch, Onward, Leads
<1>6. ASSUME NEW p \in Process, RunParallel(p)
      PROVE  inst' = inst \/ \E s \in Live(inst) : Kind[s] = "parallel" /\ inst' = FanOut(inst, s)
  BY <1>6 DEF RunParallel
<1>7. ASSUME NEW p \in Process, SettleStep(p)
      PROVE  inst' = inst \/ \E s \in Step, verdict \in {"failed", "denied"} : inst' = Settle(inst, s, verdict)
  BY <1>7, WorkingTyped DEF SettleStep, Working
<1>8. ASSUME NEW p \in Process, Cancel(p) PROVE inst' = BeginUnwind(Cancelled(inst))
  BY <1>8 DEF Cancel, Cancelled
<1>9. ASSUME NEW p \in Process,
             \/ Sweep(p) \/ Pick(p) \/ Contain(p) \/ Lookup(p) \/ RecordRunning(p) \/ Permit(p)
             \/ Refuse(p) \/ Land(p) \/ ThrowDenied(p) \/ ThrowFatal(p) \/ ThrowRetryable(p)
             \/ RecordSucceeded(p) \/ RefuseAfter(p) \/ StoreFails(p) \/ Route(p)
             \/ ReadRun(p) \/ CloseRun(p) \/ AuditEnd(p) \/ Crash(p)
             \/ (Claim(p) /\ ~Claimable(p))
             \/ proc[p].step \notin Live(inst) /\ (Retry(p) \/ Advance(p) \/ \E target \in Step : RunBranch(p, target))
      PROVE  inst' = inst
  BY <1>9 DEF Sweep, Pick, Contain, Lookup, RecordRunning, Permit, Refuse, Land, ThrowDenied,
              ThrowFatal, ThrowRetryable, RecordSucceeded, RefuseAfter, StoreFails, Route, ReadRun, CloseRun,
              AuditEnd, Crash, Claim, Retry, Advance, RunBranch
<1> QED
  BY <1>1, <1>2, <1>3, <1>4, <1>5, <1>6, <1>7, <1>8, <1>9 DEF Holds, Next, Engine, Perform, vars

-----------------------------------------------------------------------------
(* Unwinding: what is dropped, what is queued, what runs next.              *)

LEMMA QueueSame ==
  ASSUME NEW i, NEW j, \A t \in Step, said \in {"succeeded", "compensated"} : Says(j, t, said) <=> Says(i, t, said)
  PROVE  CompensationQueue(j) = CompensationQueue(i)
BY DEF CompensationQueue

LEMMA HeadSame ==
  ASSUME NEW i, NEW j, j.queue = i.queue, j.history = i.history
  PROVE  HeadOf(j) = HeadOf(i)
BY DEF HeadOf, CompletedAfter

\* What the queue is built from is there to be undone.
LEMMA Queued ==
  ASSUME NEW i, NEW u \in CompensationQueue(i)
  PROVE  /\ u \in Step /\ Kind[u] = "compensation"
         /\ ForwardOf(u) \in Step /\ Undo[ForwardOf(u)] = u
         /\ Says(i, ForwardOf(u), "succeeded") /\ ~Says(i, ForwardOf(u), "compensated")
<1>1. PICK f \in Step : /\ Undo[f] # Nil /\ u = Undo[f]
                        /\ Says(i, f, "succeeded") /\ ~Says(i, f, "compensated")
  BY DEF CompensationQueue
<1>2. u \in Step /\ Kind[u] = "compensation"
  BY <1>1, DefinitionAssumption
<1>3. ForwardOf(u) = f
  BY <1>1, <1>2, ForwardOfTyped, DefinitionAssumption
<1> QED
  BY <1>1, <1>2, <1>3

\* The queue's head gets a token, if there is one.
LEMMA NextUp ==
  ASSUME NEW i \in Instance
  PROVE  LET j == NextInQueue(i) IN
         /\ j.queue = i.queue /\ j.history = i.history /\ j.barriers = i.barriers
         /\ i.queue = {} => j.tokens = i.tokens
         /\ i.queue # {} => j.tokens = [i.tokens EXCEPT ![HeadOf(i)] = Fresh(Nil)]
BY DEF NextInQueue, WithToken, Instance

\* Every path and every join is dropped; nothing is left to undo, or its head runs.
Dropped(i, j) ==
  /\ Open(j) = {}
  /\ \A t \in Step, said \in {"succeeded", "compensated"} : Says(j, t, said) <=> Says(i, t, said)
  /\ \A s, t \in Step : CompletedAfter(j, s, t) <=> CompletedAfter(i, s, t)
  /\ \/ Live(j) = {} /\ j.queue = {}
     \/ /\ j.queue # {} /\ j.queue = CompensationQueue(j)
        /\ HeadOf(j) \in j.queue /\ Live(j) = {HeadOf(j)}
        /\ j.tokens[HeadOf(j)] = Fresh(Nil)

LEMMA UnwindDrops ==
  ASSUME NEW i \in Instance
  PROVE  /\ Dropped(i, BeginUnwind(i))
         /\ BeginUnwind(i).history = i.history
<1> DEFINE queue == CompensationQueue(i)
           clear == [ClearPaths(i) EXCEPT !.queue = queue]
           j == NextInQueue(clear)
<1>1. /\ clear.tokens = [s \in Step |-> NoToken] /\ clear.barriers = [s \in Step |-> NoBarrier]
      /\ clear.queue = queue /\ clear.history = i.history
  BY DEF ClearPaths, Instance
<1>2. queue \in SUBSET Step
  BY Queued
<1>3. clear \in Instance
  BY <1>2, ClearPathsTyped, QueueTyped
<1> HIDE DEF clear
<1>4. /\ j.queue = queue /\ j.history = i.history /\ j.barriers = clear.barriers
      /\ queue = {} => j.tokens = clear.tokens
      /\ queue # {} => j.tokens = [clear.tokens EXCEPT ![HeadOf(clear)] = Fresh(Nil)]
  BY <1>1, <1>3, NextUp
<1>5. HeadOf(j) = HeadOf(clear)
  BY <1>1, <1>4, HeadSame
<1>6. j \in Instance
  BY <1>3, NextInQueueTyped
<1> HIDE DEF j
<1>7. Open(j) = {}
  BY <1>1, <1>4 DEF Open
<1>8. \A t \in Step, said \in {"succeeded", "compensated"} : Says(j, t, said) <=> Says(i, t, said)
  BY <1>4 DEF Says
<1>9. \A s, t \in Step : CompletedAfter(j, s, t) <=> CompletedAfter(i, s, t)
  BY <1>4 DEF CompletedAfter
<1>10. CompensationQueue(j) = queue
  BY <1>8, QueueSame
<1>11. CASE queue = {}
  <2>1. Live(j) = {}
    BY <1>1, <1>4, <1>11 DEF Live
  <2> QED
    BY <1>4, <1>7, <1>8, <1>9, <1>11, <2>1 DEF Dropped, BeginUnwind, j, clear
<1>12. CASE queue # {}
  <2>1. \A u \in j.queue : Kind[u] = "compensation" /\ Says(j, ForwardOf(u), "succeeded")
    BY <1>4, <1>8, Queued
  <2>2. HeadOf(j) \in j.queue
    BY <1>4, <1>6, <1>12, <2>1, HeadExists
  <2>3. HeadOf(j) \in Step
    BY <1>2, <1>4, <2>2
  <2>4. Live(j) = {HeadOf(j)} /\ j.tokens[HeadOf(j)] = Fresh(Nil)
    BY <1>1, <1>4, <1>5, <1>12, <2>3, FreshIsToken DEF Live
  <2> QED
    BY <1>4, <1>7, <1>8, <1>9, <1>10, <1>12, <2>2, <2>4 DEF Dropped, BeginUnwind, j, clear
<1> QED
  BY <1>11, <1>12

LEMMA CancelDrops ==
  ASSUME NEW i \in Instance
  PROVE  Dropped(i, BeginUnwind(Cancelled(i)))
<1> DEFINE c == Cancelled(i)
<1>1. c \in Instance /\ c.history = i.history
  BY DEF Cancelled, Instance
<1> HIDE DEF c
<1>2. Dropped(c, BeginUnwind(c))
  BY <1>1, UnwindDrops
<1>3. \A t \in Step, said \in {"succeeded", "compensated"} : Says(c, t, said) <=> Says(i, t, said)
  BY <1>1 DEF Says
<1>4. \A s, t \in Step : CompletedAfter(c, s, t) <=> CompletedAfter(i, s, t)
  BY <1>1 DEF CompletedAfter
<1>5. Dropped(i, BeginUnwind(c))
  BY <1>2, <1>3, <1>4 DEF Dropped
<1> QED
  BY <1>5 DEF c

LEMMA SettleDrops ==
  ASSUME NEW i \in Instance, NEW s \in Step, NEW verdict \in {"failed", "denied"}
  PROVE  Dropped(i, Settle(i, s, verdict))
<1> DEFINE logged == AppendHistory(WithoutToken(i, s), s, verdict)
           noted == [logged EXCEPT !.verdict = verdict]
           ended == [ClearPaths(noted) EXCEPT !.queue = {}]
<1>0. verdict \in Outcome
  BY DEF Outcome
<1>1. logged \in Instance /\ logged.history = Append(i.history, [step |-> s, outcome |-> verdict])
  BY <1>0, StepNoted
<1>2. noted \in Instance /\ noted.history = logged.history
  BY <1>1 DEF Instance
<1>3. \A t \in Step, said \in {"succeeded", "compensated"} : Says(Settle(i, s, verdict), t, said) <=> Says(i, t, said)
  BY SaysSettled
<1>4. ASSUME NEW j, j.history = Append(i.history, [step |-> s, outcome |-> verdict])
      PROVE  \A t, u \in Step : CompletedAfter(j, t, u) <=> CompletedAfter(i, t, u)
  BY <1>4, CompletedAfterAppended DEF Outcome
<1>5. Settle(i, s, verdict) = IF Kind[s] = "compensation" THEN ended ELSE BeginUnwind(noted)
  BY DEF Settle
<1> HIDE DEF noted, logged
<1>6. CASE Kind[s] = "compensation"
  <2>1. /\ ended.history = noted.history /\ ended.queue = {}
        /\ ended.tokens = [t \in Step |-> NoToken] /\ ended.barriers = [t \in Step |-> NoBarrier]
    BY <1>2 DEF ClearPaths, Instance
  <2> HIDE DEF ended
  <2>2. Live(ended) = {} /\ Open(ended) = {}
    BY <2>1 DEF Live, Open
  <2>3. \A t, u \in Step : CompletedAfter(ended, t, u) <=> CompletedAfter(i, t, u)
    BY <1>1, <1>2, <1>4, <2>1
  <2> QED
    BY <1>3, <1>5, <1>6, <2>1, <2>2, <2>3 DEF Dropped
<1>7. CASE Kind[s] # "compensation"
  <2>1. Settle(i, s, verdict) = BeginUnwind(noted)
    BY <1>5, <1>7
  <2>2. Dropped(noted, BeginUnwind(noted))
    BY <1>2, UnwindDrops
  <2>3. \A t, u \in Step : CompletedAfter(noted, t, u) <=> CompletedAfter(i, t, u)
    BY <1>1, <1>2, <1>4
  <2> QED
    BY <1>3, <2>1, <2>2, <2>3 DEF Dropped
<1> QED
  BY <1>6, <1>7

\* A compensation has completed: what it undoes is marked, the next one runs.
Undid(i, s, j) ==
  /\ j.barriers = i.barriers
  /\ j.queue = i.queue \ {s}
  /\ \A t, said : Says(j, t, said)
       <=> Says(i, t, said) \/ (t = s /\ said = "succeeded") \/ (t = ForwardOf(s) /\ said = "compensated")
  /\ \A t, u \in Step \ {s} : CompletedAfter(j, t, u) <=> CompletedAfter(i, t, u)
  /\ j.queue = {} => j.tokens = [i.tokens EXCEPT ![s] = NoToken]
  /\ j.queue # {} => j.tokens = [[i.tokens EXCEPT ![s] = NoToken] EXCEPT ![HeadOf(j)] = Fresh(Nil)]

LEMMA Undoes ==
  ASSUME NEW i \in Instance, NEW s \in Step, Kind[s] = "compensation"
  PROVE  Undid(i, s, CompleteCompensation(i, s))
<1> DEFINE f == ForwardOf(s)
           done == AppendHistory(WithoutToken(i, s), s, "succeeded")
           undone == AppendHistory(done, f, "compensated")
           next == [undone EXCEPT !.queue = undone.queue \ {s}]
           j == NextInQueue(next)
<1>1. f \in Step /\ {"succeeded", "compensated"} \subseteq Outcome
  BY ForwardOfTyped DEF Outcome
<1>2. /\ done \in Instance
      /\ done.tokens = [i.tokens EXCEPT ![s] = NoToken]
      /\ done.barriers = i.barriers /\ done.queue = i.queue
      /\ done.history = Append(i.history, [step |-> s, outcome |-> "succeeded"])
  BY StepNoted DEF Outcome
<1> HIDE DEF done, f
<1>3. /\ undone \in Instance
      /\ undone.tokens = done.tokens /\ undone.barriers = done.barriers /\ undone.queue = done.queue
      /\ undone.history = Append(done.history, [step |-> f, outcome |-> "compensated"])
  <2>1. undone \in Instance
    BY <1>1, <1>2, AppendHistoryTyped
  <2> QED
    BY <1>2, <2>1 DEF AppendHistory, Instance
<1>4. j = CompleteCompensation(i, s)
  BY DEF CompleteCompensation, done, f
<1> HIDE DEF undone
<1>5. /\ next \in Instance
      /\ next.tokens = undone.tokens /\ next.barriers = undone.barriers
      /\ next.queue = undone.queue \ {s} /\ next.history = undone.history
  BY <1>3 DEF Instance
<1> HIDE DEF next
<1>6. /\ j.queue = next.queue /\ j.history = next.history /\ j.barriers = next.barriers
      /\ next.queue = {} => j.tokens = next.tokens
      /\ next.queue # {} => j.tokens = [next.tokens EXCEPT ![HeadOf(next)] = Fresh(Nil)]
  BY <1>5, NextUp
<1> HIDE DEF j
<1>7. HeadOf(j) = HeadOf(next)
  BY <1>6, HeadSame
<1>8. \A t, said : Says(j, t, said)
       <=> Says(i, t, said) \/ (t = s /\ said = "succeeded") \/ (t = f /\ said = "compensated")
  BY <1>4, SaysCompensated DEF f
<1>9. \A t, u \in Step \ {s} : CompletedAfter(done, t, u) <=> CompletedAfter(i, t, u)
  BY <1>2, CompletedAfterAppended DEF Outcome
<1>10. \A t, u \in Step \ {s} : CompletedAfter(j, t, u) <=> CompletedAfter(done, t, u)
  <2>1. j.history = Append(done.history, [step |-> f, outcome |-> "compensated"])
    BY <1>3, <1>5, <1>6
  <2> QED
    BY <1>1, <1>2, <2>1, CompletedAfterAppended
<1>11. Undid(i, s, j)
  BY <1>2, <1>3, <1>5, <1>6, <1>7, <1>8, <1>9, <1>10 DEF Undid, f
<1> QED
  BY <1>4, <1>11

-----------------------------------------------------------------------------
(* Effects are undone in reverse order of completion.                       *)

LEMMA CompletedAfterKept ==
  ASSUME NEW i, NEW j, j.history = i.history, NEW s, NEW t
  PROVE  CompletedAfter(j, s, t) <=> CompletedAfter(i, s, t)
BY DEF CompletedAfter

\* The live paths: what is not a compensation.
Paths(i) == {s \in Live(i) : Kind[s] # "compensation"}

InReverse(i) ==
  \A s, t \in Step :
    Says(i, s, "compensated") /\ Undo[t] # Nil /\ CompletedAfter(i, t, s) => Says(i, t, "compensated")

\* An unwind has no path beside it, its queue is what the history still has to undo,
\* and the one compensation that runs is the queue's head.
Undoing(i) ==
  /\ \A b \in Open(i) : Kind[b] = "parallel"
  /\ \A u \in Live(i) : Kind[u] = "compensation" => i.queue # {} /\ u = HeadOf(i)
  /\ i.queue # {} => i.queue = CompensationQueue(i)
  /\ i.queue # {} \/ (\E s \in Step : Says(i, s, "compensated")) => Paths(i) = {}
  /\ \A s \in Step : Says(i, s, "compensated") => Undo[s] # Nil
  /\ InReverse(i)

LEMMA UndoingDropped ==
  ASSUME NEW i, Undoing(i), NEW j, Dropped(i, j)
  PROVE  Undoing(j)
<1>1. \A u \in Live(j) : j.queue # {} /\ u = HeadOf(j) /\ Kind[u] = "compensation"
  BY Queued DEF Dropped
<1>2. Paths(j) = {}
  BY <1>1 DEF Paths
<1>3. InReverse(j)
  BY DEF Undoing, InReverse, Dropped
<1>4. \A s \in Step : Says(j, s, "compensated") => Undo[s] # Nil
  BY DEF Undoing, Dropped
<1> QED
  BY <1>1, <1>2, <1>3, <1>4 DEF Undoing, Dropped

\* While a path is live there is nothing queued and nothing undone.
LEMMA UndoingQuiet ==
  ASSUME NEW i, Undoing(i), Paths(i) # {}, NEW j, j.queue = i.queue,
         \A t \in Step : Says(j, t, "compensated") => Says(i, t, "compensated"),
         \A u \in Live(j) : u \in Live(i) \/ Kind[u] # "compensation",
         \A b \in Open(j) : Kind[b] = "parallel"
  PROVE  Undoing(j)
<1>1. i.queue = {} /\ j.queue = {} /\ \A t \in Step : ~Says(j, t, "compensated")
  BY DEF Undoing
<1>2. \A u \in Live(j) : Kind[u] # "compensation"
  BY <1>1 DEF Undoing
<1> QED
  BY <1>1, <1>2 DEF Undoing, InReverse

LEMMA UndoingUndone ==
  ASSUME NEW i \in Instance, Undoing(i), NEW s \in Live(i), Kind[s] = "compensation",
         NEW j, Undid(i, s, j)
  PROVE  Undoing(j)
<1> DEFINE f == ForwardOf(s)
<1>1. s \in Step /\ Undo[s] = Nil /\ i.queue # {} /\ s = HeadOf(i) /\ i.queue = CompensationQueue(i)
  BY DefinitionAssumption DEF Live, Undoing
<1>2. f \in Step /\ Undo[f] = s /\ f # s /\ \A g \in Step : Undo[g] = s => g = f
  BY <1>1, ForwardOfTyped, DefinitionAssumption
<1> HIDE DEF f
<1>3. \A t \in Step : Undo[t] # Nil => (Says(j, t, "succeeded") <=> Says(i, t, "succeeded"))
  BY <1>1 DEF Undid
<1>4. \A t \in Step : Says(j, t, "compensated") <=> Says(i, t, "compensated") \/ t = f
  BY DEF Undid, f
<1>5. j.queue = i.queue \ {s}
  BY DEF Undid
<1>6. CompensationQueue(j) = CompensationQueue(i) \ {s}
  <2> DEFINE Todo(k) == {t \in Step : Undo[t] # Nil /\ Says(k, t, "succeeded") /\ ~Says(k, t, "compensated")}
  <2>1. Todo(j) = Todo(i) \ {f}
    BY <1>3, <1>4
  <2>2. CompensationQueue(j) = {Undo[t] : t \in Todo(j)} /\ CompensationQueue(i) = {Undo[t] : t \in Todo(i)}
    BY DEF CompensationQueue
  <2>3. Todo(i) \subseteq Step
    OBVIOUS
  <2> HIDE DEF Todo
  <2> QED
    BY <1>2, <2>1, <2>2, <2>3
<1>7. \A u \in i.queue : Kind[u] = "compensation" /\ Says(i, ForwardOf(u), "succeeded") /\ u \in Step
  BY <1>1, Queued
<1>8. Live(i) = {s}
  <2>1. Paths(i) = {}
    BY <1>1 DEF Undoing
  <2> QED
    BY <1>1, <2>1 DEF Paths, Undoing
<1>9. Live(j) \subseteq (IF j.queue = {} THEN {} ELSE {HeadOf(j)})
  <2>1. CASE j.queue = {}
    BY <1>1, <1>8, <2>1, LiveTaken DEF Undid
  <2>2. CASE j.queue # {}
    <3>1. j.tokens = [[i.tokens EXCEPT ![s] = NoToken] EXCEPT ![HeadOf(j)] = Fresh(Nil)]
      BY <2>2 DEF Undid
    <3>2. \A t \in Step : t # HeadOf(j) => j.tokens[t] = NoToken
      BY <1>8, <3>1 DEF Live, Instance
    <3> QED
      BY <2>2, <3>2 DEF Live
  <2> QED
    BY <2>1, <2>2
<1>10. HeadOf(j) \in j.queue \/ j.queue = {}
  <2>1. ASSUME j.queue # {} PROVE HeadOf(j) \in j.queue
    <3> DEFINE k == [i EXCEPT !.queue = j.queue]
    <3>1. k \in Instance /\ k.queue = j.queue /\ k.history = i.history
      BY <1>5 DEF Instance
    <3> HIDE DEF k
    <3>2. \A u \in k.queue : Kind[u] = "compensation" /\ Says(k, ForwardOf(u), "succeeded")
      BY <1>5, <1>7, <3>1 DEF Says
    <3>3. /\ HeadOf(k) \in k.queue
          /\ \A v \in k.queue \ {HeadOf(k)} : CompletedAfter(k, ForwardOf(HeadOf(k)), ForwardOf(v))
      BY <2>1, <3>1, <3>2, HeadExists
    <3>4. \A u \in k.queue : ForwardOf(u) \in Step \ {s}
      BY <1>1, <1>5, <1>7, <3>1, ForwardOfTyped, DefinitionAssumption
    <3>5. \A t, u \in Step \ {s} : CompletedAfter(j, t, u) <=> CompletedAfter(k, t, u)
      <4>1. \A t, u : CompletedAfter(k, t, u) <=> CompletedAfter(i, t, u)
        BY <3>1, CompletedAfterKept
      <4> QED
        BY <4>1 DEF Undid
    <3>6. \E u \in j.queue : \A v \in j.queue \ {u} : CompletedAfter(j, ForwardOf(u), ForwardOf(v))
      BY <3>1, <3>3, <3>4, <3>5
    <3> QED
      BY <3>6 DEF HeadOf
  <2> QED
    BY <2>1
<1>11. InReverse(j)
  <2> SUFFICES ASSUME NEW x \in Step, NEW t \in Step, Says(j, x, "compensated"), Undo[t] # Nil,
                      CompletedAfter(j, t, x), ~Says(j, t, "compensated")
               PROVE  FALSE
    BY DEF InReverse
  <2>1. Undo[x] # Nil /\ x # s /\ t # s
    BY <1>1, <1>2, <1>4, DefinitionAssumption DEF Undoing
  <2>2. CompletedAfter(i, t, x)
    BY <2>1 DEF Undid
  <2>3. ~Says(i, t, "compensated") /\ t # f
    BY <1>4
  <2>4. x = f
    BY <1>4, <2>2, <2>3 DEF Undoing, InReverse
  <2>5. Says(i, t, "succeeded")
    BY <2>2 DEF CompletedAfter, Says
  <2>6. Undo[t] \in i.queue /\ Undo[t] # s
    BY <1>1, <1>2, <2>3, <2>5 DEF CompensationQueue
  <2>7. ForwardOf(Undo[t]) = t
    <3>1. Kind[Undo[t]] = "compensation" /\ Undo[t] \in Step
      BY <1>7, <2>6
    <3> QED
      BY <3>1, ForwardOfTyped, DefinitionAssumption
  <2>8. CompletedAfter(i, f, t)
    BY <1>1, <1>7, <2>6, <2>7, HeadExists DEF f
  <2>9. PICK m \in DOMAIN i.history :
          /\ i.history[m] = [step |-> f, outcome |-> "succeeded"]
          /\ \A n \in DOMAIN i.history : i.history[n] = [step |-> t, outcome |-> "succeeded"] => n < m
    BY <2>8 DEF CompletedAfter
  <2>10. PICK n \in DOMAIN i.history :
          /\ i.history[n] = [step |-> t, outcome |-> "succeeded"]
          /\ \A l \in DOMAIN i.history : i.history[l] = [step |-> f, outcome |-> "succeeded"] => l < n
    BY <2>2, <2>4 DEF CompletedAfter
  <2>11. m \in Nat /\ n \in Nat /\ n < m /\ m < n
    BY <2>9, <2>10 DEF Instance
  <2> QED
    BY <2>11
<1>12. \A u \in Live(j) : Kind[u] = "compensation" /\ j.queue # {} /\ u = HeadOf(j)
  BY <1>5, <1>7, <1>9, <1>10
<1>13. Paths(j) = {}
  BY <1>12 DEF Paths
<1>14. Open(j) = Open(i)
  BY DEF Undid, Open
<1>15. \A t \in Step : Says(j, t, "compensated") => Undo[t] # Nil
  BY <1>1, <1>2, <1>4, DefinitionAssumption DEF Undoing
<1>16. j.queue # {} => j.queue = CompensationQueue(j)
  BY <1>1, <1>5, <1>6
<1> QED
  BY <1>11, <1>12, <1>13, <1>14, <1>15, <1>16 DEF Undoing

LEMMA UndoingAdvanced ==
  ASSUME NEW i \in Instance, Undoing(i), NEW s \in Live(i), Kind[s] # "compensation",
         NEW next \in Onward(s)
  PROVE  Undoing(AdvanceTo(i, s, next))
<1> DEFINE b == i.tokens[s].barrier
           j == AdvanceTo(i, s, next)
<1>1. s \in Step /\ next \in Step \cup {Nil} /\ (next # Nil => Kind[next] # "compensation")
  BY LeadsTyped, LeadsForward DEF Live, Onward
<1>2. b \in Step \cup {Nil} /\ AdvancedTo(i, s, next, b, j)
  BY <1>1, Advances
<1>3. \A t \in Step : Says(j, t, "compensated") => Says(i, t, "compensated")
  BY <1>1, SaysAdvanced
<1> HIDE DEF b, j
<1>4. j.queue = i.queue
  BY <1>2 DEF AdvancedTo
<1>5. Open(j) \subseteq Open(i)
  BY <1>2 DEF AdvancedTo, Open, Instance
<1>6. \A c \in Open(i) : After[c] \in Step /\ Kind[After[c]] # "compensation"
  <2> TAKE c \in Open(i)
  <2>1. c \in Step /\ Kind[c] = "parallel"
    BY DEF Open, Undoing
  <2>2. After[c] \in Leads(c)
    BY <2>1 DEF Leads
  <2> QED
    BY <2>1, <2>2, LeadsTyped, LeadsForward
<1>7. \A u \in Live(j) : u \in Live(i) \/ Kind[u] # "compensation"
  <2>1. CASE next # Nil
    <3>1. j.tokens = [[i.tokens EXCEPT ![s] = NoToken] EXCEPT ![next] = Fresh(b)]
      BY <1>2, <2>1 DEF AdvancedTo
    <3> QED
      BY <1>1, <2>1, <3>1 DEF Live, Instance
  <2>2. CASE j.tokens = [i.tokens EXCEPT ![s] = NoToken]
    BY <1>1, <2>2 DEF Live, Instance
  <2>3. CASE /\ b \in Open(i)
             /\ j.tokens = [[i.tokens EXCEPT ![s] = NoToken] EXCEPT ![After[b]] = Fresh(i.barriers[b].parent)]
    BY <1>1, <1>6, <2>3 DEF Live, Instance
  <2> QED
    BY <1>2, <2>1, <2>2, <2>3 DEF AdvancedTo
<1>8. Paths(i) # {}
  BY DEF Paths
<1>9. Undoing(j)
  BY <1>3, <1>4, <1>5, <1>7, <1>8, UndoingQuiet DEF Undoing
<1> QED
  BY <1>9 DEF j

LEMMA UndoingFannedOut ==
  ASSUME NEW i \in Instance, Undoing(i), NEW s \in Live(i), Kind[s] = "parallel"
  PROVE  Undoing(FanOut(i, s))
<1> DEFINE j == FanOut(i, s)
<1>1. s \in Step /\ FannedOut(i, s, j)
  BY FansOut
<1>2. \A t \in Step : Says(j, t, "compensated") => Says(i, t, "compensated")
  BY SaysFannedOut
<1> HIDE DEF j
<1>3. Open(j) \subseteq Open(i) \cup {s}
  BY <1>1 DEF FannedOut, Open, Instance
<1>4. \A u \in Live(j) : u \in Live(i) \/ u \in Heads[s]
  BY <1>1 DEF FannedOut, Live
<1>5. \A u \in Heads[s] : Kind[u] # "compensation"
  <2>1. Heads[s] \subseteq Leads(s)
    BY DEF Leads
  <2> QED
    BY <1>1, <2>1, LeadsForward
<1>6. Paths(i) # {}
  BY DEF Paths
<1>7. j.queue = i.queue
  BY <1>1 DEF FannedOut
<1>8. Undoing(j)
  BY <1>2, <1>3, <1>4, <1>5, <1>6, <1>7, UndoingQuiet DEF Undoing
<1> QED
  BY <1>8 DEF j

LEMMA UndoingHeld ==
  ASSUME NEW i \in Instance, Undoing(i), NEW s \in Live(i), NEW token \in Token
  PROVE  Undoing(WithToken(i, s, token))
<1> DEFINE j == WithToken(i, s, token)
<1>1. s \in Step /\ token # NoToken
  BY DEF Live, Token, NoToken
<1>2. /\ j.tokens = [i.tokens EXCEPT ![s] = token]
      /\ j.barriers = i.barriers /\ j.queue = i.queue /\ j.history = i.history
  BY <1>1, TokenChanged
<1> HIDE DEF j
<1>3. Live(j) = Live(i) /\ Open(j) = Open(i)
  <2>1. Live(j) = Live(i) \cup {s}
    BY <1>1, <1>2, LivePut
  <2> QED
    BY <1>2, <2>1 DEF Open
<1>4. HeadOf(j) = HeadOf(i)
  BY <1>2, HeadSame
<1>5. \A t \in Step : \A said : Says(j, t, said) <=> Says(i, t, said)
  BY <1>2 DEF Says
<1>6. CompensationQueue(j) = CompensationQueue(i)
  BY <1>5, QueueSame
<1>7. InReverse(j)
  <2>1. \A t, u : CompletedAfter(j, t, u) <=> CompletedAfter(i, t, u)
    BY <1>2, CompletedAfterKept
  <2> QED
    BY <1>5, <2>1 DEF Undoing, InReverse
<1>8. Paths(j) = Paths(i)
  BY <1>3 DEF Paths
<1>9. Undoing(j)
  BY <1>2, <1>3, <1>4, <1>5, <1>6, <1>7, <1>8 DEF Undoing
<1> QED
  BY <1>9 DEF j

LEMMA UndoingStep ==
  ASSUME TypeOK, Placed, Undoing(inst), [Next]_vars
  PROVE  Undoing(inst')
<1> DEFINE j == inst'
<1>1. inst \in Instance
  BY DEF TypeOK
<1>2. ASSUME NEW s \in Live(inst), NEW token \in Token, j = WithToken(inst, s, token) PROVE Undoing(j)
  BY <1>1, <1>2, UndoingHeld
<1>3. ASSUME NEW s \in Live(inst), NEW next \in Onward(s), Kind[s] \in {"action", "branch"},
             j = AdvanceTo(inst, s, next)
      PROVE  Undoing(j)
  BY <1>1, <1>3, UndoingAdvanced
<1>4. ASSUME NEW s \in Live(inst), Kind[s] = "parallel", j = FanOut(inst, s) PROVE Undoing(j)
  BY <1>1, <1>4, UndoingFannedOut
<1>5. ASSUME NEW s \in Live(inst), Kind[s] = "compensation", j = CompleteCompensation(inst, s)
      PROVE  Undoing(j)
  BY <1>1, <1>5, Undoes, UndoingUndone DEF Live
<1>6. ASSUME NEW s \in Step, NEW verdict \in {"failed", "denied"}, j = Settle(inst, s, verdict)
      PROVE  Undoing(j)
  BY <1>1, <1>6, SettleDrops, UndoingDropped
<1>7. ASSUME j = BeginUnwind(Cancelled(inst)) PROVE Undoing(j)
  BY <1>1, <1>7, CancelDrops, UndoingDropped
<1> QED
  BY <1>2, <1>3, <1>4, <1>5, <1>6, <1>7, Moves

LEMMA FirstForward == First \in Step /\ Kind[First] # "compensation"
BY AheadTyped, DefinitionAssumption

LEMMA UndoingInit == Init => Undoing(inst)
<1> SUFFICES ASSUME Init PROVE Undoing(inst)
  OBVIOUS
<1>1. Open(inst) = {} /\ inst.queue = {} /\ \A t, said : ~Says(inst, t, said)
  BY DEF Init, Open, Says
<1>2. \A u \in Live(inst) : u = First
  BY DEF Init, Live
<1> QED
  BY <1>1, <1>2, FirstForward DEF Undoing, InReverse

\* Effects are undone in reverse order of completion, however often the unwind is
\* rebuilt.
THEOREM UnwindsInReverse == Spec => []UndoneInReverse
<1>1. Init => Placed /\ Undoing(inst)
  BY PlacedInit, UndoingInit
<1>2. TypeOK /\ Placed /\ Undoing(inst) /\ [Next]_vars => Placed' /\ Undoing(inst)'
  BY PlacedStep, UndoingStep
<1>3. Undoing(inst) => UndoneInReverse
  BY DEF Undoing, InReverse, UndoneInReverse, Compensated
<1> QED
  BY <1>1, <1>2, <1>3, TypeCorrect, PTL DEF Spec

-----------------------------------------------------------------------------
(* What is live and what is still to come: no two paths ever share a step.  *)

\* The steps that some path or some open join has yet to reach.
Coming(i) == (UNION {Ahead[s] \ {s} : s \in Paths(i)}) \cup (UNION {Ahead[After[b]] : b \in Open(i)})

\* What the live paths and the open joins have before them is disjoint.
Apart(i) ==
  /\ \A s, t \in Paths(i) : s # t => Ahead[s] \cap Ahead[t] = {}
  /\ \A s \in Paths(i), b \in Open(i) : Ahead[s] \cap Ahead[After[b]] = {}
  /\ \A b, c \in Open(i) : b # c => Ahead[After[b]] \cap Ahead[After[c]] = {}

\* The instance has gone on: nothing comes that was not coming, and a token is the
\* one there was, or a fresh one where a path had yet to come.
Progress(i, j) ==
  /\ Apart(j)
  /\ Coming(j) \subseteq Coming(i)
  /\ \A s \in Paths(j) : \/ s \in Paths(i) /\ j.tokens[s] = i.tokens[s]
                         \/ s \in Coming(i) /\ \E b \in Step \cup {Nil} : j.tokens[s] = Fresh(b)

LEMMA ProgressTwice ==
  ASSUME NEW i, NEW k, NEW j, Progress(i, k), Progress(k, j)
  PROVE  Progress(i, j)
BY DEF Progress

LEMMA JoinOf ==
  ASSUME NEW i, Undoing(i), NEW b \in Open(i)
  PROVE  /\ b \in Step /\ After[b] \in Leads(b) /\ After[b] \in Step
         /\ Kind[b] = "parallel" /\ Kind[After[b]] # "compensation" /\ Ahead[After[b]] \subseteq Ahead[b]
<1>1. b \in Step /\ Kind[b] = "parallel"
  BY DEF Open, Undoing
<1>2. After[b] \in Leads(b)
  BY <1>1 DEF Leads
<1> QED
  BY <1>1, <1>2, LeadsTyped, LeadsForward, AheadOfLead

LEMMA ComingTyped ==
  ASSUME NEW i, Undoing(i)
  PROVE  Coming(i) \subseteq Step
<1>1. \A s \in Paths(i) : s \in Step
  BY DEF Paths, Live
<1>2. \A b \in Open(i) : After[b] \in Step
  BY JoinOf
<1> QED
  BY <1>1, <1>2, AheadTyped DEF Coming

LEMMA PathNotComing ==
  ASSUME NEW i, Apart(i), NEW s \in Paths(i)
  PROVE  s \notin Coming(i)
BY AheadTyped DEF Apart, Coming, Paths, Live

LEMMA PathNotOpen ==
  ASSUME NEW i, Undoing(i), Apart(i), NEW s \in Paths(i)
  PROVE  s \notin Open(i)
<1>1. ASSUME s \in Open(i) PROVE FALSE
  BY <1>1, JoinOf, AheadTyped DEF Apart
<1> QED
  BY <1>1

\* A path goes on to its next step.
LEMMA Proceeds ==
  ASSUME NEW i \in Instance, Undoing(i), Apart(i), NEW s \in Paths(i), NEW next \in Leads(s),
         NEW b \in Step \cup {Nil}, NEW j,
         j.tokens = [[i.tokens EXCEPT ![s] = NoToken] EXCEPT ![next] = Fresh(b)],
         j.barriers = i.barriers
  PROVE  Progress(i, j) /\ s \notin Paths(j)
<1>1. s \in Step /\ Kind[s] # "compensation"
  BY DEF Paths, Live
<1>2. /\ next \in Step /\ next # s /\ Kind[next] # "compensation"
      /\ Ahead[next] \subseteq Ahead[s] /\ s \notin Ahead[next] /\ next \in Ahead[next]
  BY <1>1, AheadOfLead, AheadTyped, LeadsForward, DefinitionAssumption
<1>3. Paths(j) = (Paths(i) \ {s}) \cup {next} /\ j.tokens[next] = Fresh(b)
  BY <1>1, <1>2, FreshIsToken DEF Paths, Live, Instance
<1>4. Open(j) = Open(i)
  BY DEF Open
<1>5. Apart(j)
  BY <1>2, <1>3, <1>4 DEF Apart
<1>6. Coming(j) \subseteq Coming(i)
  <2> SUFFICES ASSUME NEW e \in Coming(j) PROVE e \in Coming(i)
    OBVIOUS
  <2>1. CASE e \in Ahead[next] \ {next}
    <3>1. e \in Ahead[s] \ {s}
      BY <1>2, <2>1
    <3> QED
      BY <3>1 DEF Coming
  <2> QED
    BY <1>3, <1>4, <2>1 DEF Coming
<1>7. next \in Coming(i)
  <2>1. next \in Ahead[s] \ {s}
    BY <1>2
  <2> QED
    BY <2>1 DEF Coming
<1>8. next \notin Paths(i)
  BY <1>7, PathNotComing
<1>9. \A t \in Paths(j) \ {next} : t \in Paths(i) /\ j.tokens[t] = i.tokens[t]
  BY <1>1, <1>3 DEF Paths, Live, Instance
<1> QED
  BY <1>2, <1>3, <1>5, <1>6, <1>7, <1>9 DEF Progress

\* A path ends.
LEMMA PathEnds ==
  ASSUME NEW i \in Instance, Apart(i), NEW s \in Step, NEW j,
         j.tokens = [i.tokens EXCEPT ![s] = NoToken], Open(j) = Open(i)
  PROVE  Progress(i, j) /\ s \notin Paths(j)
<1>1. Paths(j) = Paths(i) \ {s}
  BY DEF Paths, Live, Instance
<1>2. \A t \in Paths(j) : j.tokens[t] = i.tokens[t]
  BY <1>1 DEF Paths, Live, Instance
<1>3. Coming(j) \subseteq Coming(i)
  BY <1>1 DEF Coming
<1> QED
  BY <1>1, <1>2, <1>3 DEF Progress, Apart

\* The last path of a fan-out has ended, and its join starts.
LEMMA JoinStarts ==
  ASSUME NEW i \in Instance, Undoing(i), Apart(i), NEW b \in Open(i), NEW q \in Step \cup {Nil}, NEW j,
         j.tokens = [i.tokens EXCEPT ![After[b]] = Fresh(q)],
         j.barriers = [i.barriers EXCEPT ![b] = NoBarrier]
  PROVE  Progress(i, j) /\ Paths(j) = Paths(i) \cup {After[b]} /\ After[b] \in Coming(i)
<1>1. /\ b \in Step /\ After[b] \in Step /\ Kind[After[b]] # "compensation"
      /\ After[b] \in Ahead[After[b]]
  BY JoinOf, AheadTyped
<1>2. Paths(j) = Paths(i) \cup {After[b]} /\ j.tokens[After[b]] = Fresh(q)
  BY <1>1, FreshIsToken DEF Paths, Live, Instance
<1>3. Open(j) = Open(i) \ {b}
  BY <1>1 DEF Open, Instance
<1>4. Apart(j)
  BY <1>2, <1>3 DEF Apart
<1>5. Coming(j) \subseteq Coming(i)
  BY <1>2, <1>3 DEF Coming
<1>6. After[b] \in Coming(i)
  BY <1>1 DEF Coming
<1>7. \A t \in Paths(j) \ {After[b]} : t \in Paths(i) /\ j.tokens[t] = i.tokens[t]
  BY <1>1, <1>2 DEF Paths, Live, Instance
<1> QED
  BY <1>2, <1>4, <1>5, <1>6, <1>7 DEF Progress

\* A path fans out.
LEMMA PathsStart ==
  ASSUME PathsApart, NEW i \in Instance, Undoing(i), Apart(i), NEW s \in Paths(i),
         Kind[s] = "parallel", NEW j, FannedOut(i, s, j)
  PROVE  Progress(i, j) /\ s \notin Paths(j)
<1>1. s \in Step /\ i.tokens[s].barrier \in Step \cup {Nil}
  BY DEF Paths, Live, Instance, Token, NoToken
<1>2. /\ After[s] \in Leads(s) /\ After[s] \in Step /\ s \notin Ahead[After[s]]
      /\ Ahead[After[s]] \subseteq Ahead[s]
  <2>1. After[s] \in Leads(s)
    BY DEF Leads
  <2> QED
    BY <1>1, <2>1, AheadOfLead, LeadsTyped, DefinitionAssumption
<1>3. \A h \in Heads[s] : /\ h \in Step /\ h # s /\ Kind[h] # "compensation" /\ h \in Ahead[h]
                          /\ Ahead[h] \subseteq Ahead[s] /\ s \notin Ahead[h]
  <2> TAKE h \in Heads[s]
  <2>1. h \in Leads(s)
    BY DEF Leads
  <2> QED
    BY <1>1, <2>1, AheadOfLead, AheadTyped, LeadsTyped, LeadsForward, DefinitionAssumption
<1>4. /\ \A h, k \in Heads[s] : h # k => Ahead[h] \cap Ahead[k] = {}
      /\ \A h \in Heads[s] : Ahead[h] \cap Ahead[After[s]] = {}
  BY <1>1 DEF PathsApart
<1>5. \A h \in Heads[s] : h \in Coming(i)
  <2> TAKE h \in Heads[s]
  <2>1. h \in Ahead[s] \ {s}
    BY <1>3
  <2> QED
    BY <2>1 DEF Coming
<1>6. Paths(j) = (Paths(i) \ {s}) \cup Heads[s]
  <2>1. \A t \in Step : j.tokens[t] = (IF t \in Heads[s] THEN Fresh(s)
                                       ELSE IF t = s THEN NoToken ELSE i.tokens[t])
    BY DEF FannedOut
  <2> QED
    BY <1>3, <2>1, FreshIsToken DEF Paths, Live
<1>7. Open(j) = Open(i) \cup {s}
  <2>1. j.barriers = [i.barriers EXCEPT ![s] = [arrived |-> 0, parent |-> i.tokens[s].barrier]]
    BY DEF FannedOut
  <2>2. [arrived |-> 0, parent |-> i.tokens[s].barrier] # NoBarrier
    BY DEF NoBarrier
  <2> QED
    BY <1>1, <2>1, <2>2 DEF Open, Instance
<1>8. Apart(j)
  <2>1. \A x, y \in Paths(j) : x # y => Ahead[x] \cap Ahead[y] = {}
    <3> SUFFICES ASSUME NEW x \in Paths(j), NEW y \in Paths(j), x # y, NEW e \in Ahead[x], e \in Ahead[y]
                 PROVE  FALSE
      OBVIOUS
    <3>1. CASE x \in Heads[s] /\ y \in Heads[s]
      BY <1>4, <3>1
    <3>2. CASE x \notin Heads[s] /\ y \notin Heads[s]
      BY <1>6, <3>2 DEF Apart
    <3>3. CASE x \in Heads[s] /\ y \notin Heads[s]
      BY <1>3, <1>6, <3>3 DEF Apart
    <3>4. CASE x \notin Heads[s] /\ y \in Heads[s]
      BY <1>3, <1>6, <3>4 DEF Apart
    <3> QED
      BY <3>1, <3>2, <3>3, <3>4
  <2>2. \A x \in Paths(j), b \in Open(j) : Ahead[x] \cap Ahead[After[b]] = {}
    <3> SUFFICES ASSUME NEW x \in Paths(j), NEW b \in Open(j), NEW e \in Ahead[x], e \in Ahead[After[b]]
                 PROVE  FALSE
      OBVIOUS
    <3>1. CASE x \in Heads[s] /\ b = s
      BY <1>4, <3>1
    <3>2. CASE x \in Heads[s] /\ b # s
      BY <1>3, <1>7, <3>2 DEF Apart
    <3>3. CASE x \notin Heads[s] /\ b = s
      BY <1>2, <1>6, <3>3 DEF Apart
    <3>4. CASE x \notin Heads[s] /\ b # s
      BY <1>6, <1>7, <3>4 DEF Apart
    <3> QED
      BY <3>1, <3>2, <3>3, <3>4
  <2>3. \A b, c \in Open(j) : b # c => Ahead[After[b]] \cap Ahead[After[c]] = {}
    BY <1>2, <1>7 DEF Apart
  <2> QED
    BY <2>1, <2>2, <2>3 DEF Apart
<1>9. Coming(j) \subseteq Coming(i)
  <2> SUFFICES ASSUME NEW e \in Coming(j) PROVE e \in Coming(i)
    OBVIOUS
  <2>1. CASE e \in Ahead[s] \ {s}
    BY <2>1 DEF Coming
  <2>2. CASE \E h \in Heads[s] : e \in Ahead[h]
    BY <1>3, <2>1, <2>2
  <2>3. CASE e \in Ahead[After[s]]
    BY <1>2, <2>1, <2>3
  <2> QED
    BY <1>6, <1>7, <2>2, <2>3 DEF Coming
<1>10. \A t \in Paths(j) : IF t \in Heads[s] THEN j.tokens[t] = Fresh(s) ELSE j.tokens[t] = i.tokens[t]
  BY <1>3, <1>6 DEF FannedOut, Paths, Live
<1>11. s \notin Paths(j)
  BY <1>3, <1>6
<1> QED
  BY <1>1, <1>5, <1>6, <1>8, <1>9, <1>10, <1>11 DEF Progress

LEMMA ProgressAdvanced ==
  ASSUME NEW i \in Instance, Undoing(i), Apart(i), NEW s \in Paths(i), NEW next \in Onward(s),
         NEW b \in Step \cup {Nil}, NEW j, AdvancedTo(i, s, next, b, j)
  PROVE  Progress(i, j) /\ s \notin Paths(j)
<1>1. s \in Step
  BY DEF Paths, Live
<1>2. CASE next # Nil
  <2>1. next \in Leads(s)
    BY <1>2 DEF Onward
  <2>2. /\ j.tokens = [[i.tokens EXCEPT ![s] = NoToken] EXCEPT ![next] = Fresh(b)]
        /\ j.barriers = i.barriers
    BY <1>2 DEF AdvancedTo
  <2> QED
    BY <2>1, <2>2, Proceeds
<1>3. CASE next = Nil /\ b \notin Open(i)
  <2>1. j.tokens = [i.tokens EXCEPT ![s] = NoToken] /\ j.barriers = i.barriers
    BY <1>3 DEF AdvancedTo
  <2>2. Open(j) = Open(i)
    BY <2>1 DEF Open
  <2> QED
    BY <1>1, <2>1, <2>2, PathEnds
<1>4. CASE next = Nil /\ b \in Open(i) /\ i.barriers[b].arrived + 1 < Cardinality(Heads[b])
  <2> DEFINE more == [i.barriers[b] EXCEPT !.arrived = i.barriers[b].arrived + 1]
  <2>1. j.tokens = [i.tokens EXCEPT ![s] = NoToken] /\ j.barriers = [i.barriers EXCEPT ![b] = more]
    BY <1>4 DEF AdvancedTo
  <2>2. i.barriers[b] \in Barrier
    BY <1>4 DEF Open, Instance
  <2>3. more # NoBarrier
    BY <2>2 DEF NoBarrier, Barrier
  <2> HIDE DEF more
  <2>4. Open(j) = Open(i)
    BY <1>4, <2>1, <2>3 DEF Open, Instance
  <2> QED
    BY <1>1, <2>1, <2>4, PathEnds
<1>5. CASE next = Nil /\ b \in Open(i) /\ ~(i.barriers[b].arrived + 1 < Cardinality(Heads[b]))
  <2> DEFINE tokens == [i.tokens EXCEPT ![s] = NoToken]
             k == [i EXCEPT !.tokens = tokens]
  <2>1. tokens \in [Step -> Token \cup {NoToken}]
    BY DEF Instance
  <2>2. /\ k \in Instance /\ k.tokens = tokens /\ k.barriers = i.barriers
        /\ k.queue = i.queue /\ k.history = i.history
    <3> HIDE DEF tokens
    <3> QED
      BY <2>1 DEF Instance
  <2> HIDE DEF k
  <2>3. Open(k) = Open(i)
    BY <2>2 DEF Open
  <2>4. Progress(i, k) /\ s \notin Paths(k)
    BY <1>1, <2>2, <2>3, PathEnds
  <2>5. Undoing(k)
    <3>1. \A u \in Live(k) : u \in Live(i)
      BY <2>2 DEF Live, Instance
    <3>2. Paths(i) # {}
      OBVIOUS
    <3> QED
      BY <2>2, <2>3, <3>1, <3>2, UndoingQuiet DEF Says, Undoing
  <2>6. i.barriers[b].parent \in Step \cup {Nil}
    BY <1>5 DEF Open, Instance, Barrier
  <2>7. /\ j.tokens = [k.tokens EXCEPT ![After[b]] = Fresh(i.barriers[b].parent)]
        /\ j.barriers = [k.barriers EXCEPT ![b] = NoBarrier]
    BY <1>5, <2>2 DEF AdvancedTo
  <2>8. Apart(k) /\ Coming(k) \subseteq Coming(i)
    BY <2>4 DEF Progress
  <2>9. Progress(k, j) /\ Paths(j) = Paths(k) \cup {After[b]} /\ After[b] \in Coming(k)
    BY <1>5, <2>2, <2>3, <2>5, <2>6, <2>7, <2>8, JoinStarts
  <2>10. s \notin Coming(i)
    BY PathNotComing
  <2> QED
    BY <2>4, <2>8, <2>9, <2>10, ProgressTwice
<1> QED
  BY <1>2, <1>3, <1>4, <1>5 DEF AdvancedTo

\* With no path left and no join opened, nothing can come.
LEMMA ProgressOver ==
  ASSUME NEW i, Apart(i), NEW j, Paths(j) = {}, Open(j) \subseteq Open(i)
  PROVE  Progress(i, j)
BY DEF Progress, Apart, Coming

LEMMA Held ==
  ASSUME NEW i \in Instance, NEW s \in Live(i), NEW token \in Token, NEW j, j = WithToken(i, s, token)
  PROVE  /\ Paths(j) = Paths(i) /\ Open(j) = Open(i) /\ Coming(j) = Coming(i)
         /\ Apart(j) <=> Apart(i)
         /\ Live(j) = Live(i) /\ j.history = i.history /\ j.barriers = i.barriers
         /\ s \in Step /\ j.tokens = [i.tokens EXCEPT ![s] = token] /\ j.tokens[s] = token
<1>1. s \in Step /\ token # NoToken
  BY DEF Live, Token, NoToken
<1>2. /\ j.tokens = [i.tokens EXCEPT ![s] = token] /\ j.barriers = i.barriers
      /\ j.history = i.history
  BY <1>1, TokenChanged
<1>3. Live(j) = Live(i) /\ Open(j) = Open(i) /\ j.tokens[s] = token
  BY <1>1, <1>2 DEF Live, Open, Instance
<1>4. Paths(j) = Paths(i)
  BY <1>3 DEF Paths
<1> QED
  BY <1>1, <1>2, <1>3, <1>4 DEF Apart, Coming

LEMMA Progresses ==
  ASSUME PathsApart, TypeOK, Placed, Undoing(inst), Apart(inst), [Next]_vars
  PROVE  \/ Progress(inst, inst')
         \/ /\ Holds
            /\ \E s \in Live(inst), token \in Token :
                 inst' = WithToken(inst, s, token) /\ token.barrier = inst.tokens[s].barrier
<1> DEFINE j == inst'
<1>1. inst \in Instance
  BY DEF TypeOK
<1>2. ASSUME NEW s \in Live(inst), NEW next \in Onward(s), Kind[s] \in {"action", "branch"},
             j = AdvanceTo(inst, s, next)
      PROVE  Progress(inst, j)
  <2>1. s \in Paths(inst)
    BY <1>2 DEF Paths
  <2>2. next \in Step \cup {Nil}
    BY LeadsTyped DEF Onward, Live
  <2>3. /\ inst.tokens[s].barrier \in Step \cup {Nil}
        /\ AdvancedTo(inst, s, next, inst.tokens[s].barrier, j)
    BY <1>1, <1>2, <2>2, Advances
  <2> QED
    BY <1>1, <2>1, <2>3, ProgressAdvanced
<1>3. ASSUME NEW s \in Live(inst), Kind[s] = "parallel", j = FanOut(inst, s)
      PROVE  Progress(inst, j)
  <2>1. s \in Paths(inst)
    BY <1>3 DEF Paths
  <2>2. FannedOut(inst, s, j)
    BY <1>1, <1>3, FansOut
  <2> QED
    BY <1>1, <1>3, <2>1, <2>2, PathsStart
<1>4. ASSUME NEW s \in Live(inst), Kind[s] = "compensation", j = CompleteCompensation(inst, s)
      PROVE  Progress(inst, j)
  <2>1. s \in Step /\ Undid(inst, s, j)
    BY <1>1, <1>4, Undoes DEF Live
  <2>2. Undoing(j)
    BY <1>1, <1>4, <2>1, UndoingUndone
  <2>3. Says(j, ForwardOf(s), "compensated") /\ ForwardOf(s) \in Step
    BY <1>4, <2>1, ForwardOfTyped DEF Undid
  <2>4. Paths(j) = {} /\ Open(j) = Open(inst)
    BY <2>1, <2>2, <2>3 DEF Undoing, Undid, Open
  <2> QED
    BY <2>4, ProgressOver
<1>5. ASSUME Dropped(inst, j) PROVE Progress(inst, j)
  <2>1. Undoing(j)
    BY <1>5, UndoingDropped
  <2>2. Paths(j) = {} /\ Open(j) = {}
    BY <1>5, <2>1 DEF Dropped, Undoing, Paths
  <2> QED
    BY <2>2, ProgressOver
<1>6. inst' = inst => Progress(inst, j)
  BY DEF Progress
<1> QED
  BY <1>1, <1>2, <1>3, <1>4, <1>5, <1>6, Moves, SettleDrops, CancelDrops

LEMMA ApartStep ==
  ASSUME PathsApart, TypeOK, Placed, Undoing(inst), Apart(inst), [Next]_vars
  PROVE  Apart(inst')
<1> DEFINE j == inst'
<1>1. inst \in Instance
  BY DEF TypeOK
<1>2. ASSUME NEW s \in Live(inst), NEW token \in Token, j = WithToken(inst, s, token) PROVE Apart(j)
  BY <1>1, <1>2, Held
<1>3. Progress(inst, j) => Apart(j)
  BY DEF Progress
<1> QED
  BY <1>2, <1>3, Progresses

LEMMA ApartInit == Init => Apart(inst)
<1>1. Init => Open(inst) = {} /\ \A s \in Paths(inst) : s = First
  BY DEF Init, Open, Paths, Live
<1> QED
  BY <1>1 DEF Apart

-----------------------------------------------------------------------------
(* No forward effect happens twice.                                         *)

\* On a step no path has reached yet nobody works, and nothing has happened.
Untouched ==
  \A e \in Coming(inst) : Forward(e) =>
    landed[e] = 0 /\ \A p \in Process : proc[p] \in Working => proc[p].step # e

Acting == {"checked", "recorded", "permitted", "landed", "succeeded", "retrying"}

\* The process that was the first to claim an attempt, while it is on it.
Owner(p) ==
  /\ proc[p] \in Working
  /\ Forward(proc[p].step)
  /\ proc[p].pc \in {"claimed"} \cup Acting
  /\ proc[p].inFlight # proc[p].attempt

\* A token in flight is running, and stays so once its effect has happened; who acts
\* is the attempt's one owner, and nothing has happened before it lands.
Attempts ==
  /\ \A e \in Step : Forward(e) => landed[e] <= 1
  /\ \A e \in Live(inst) : Forward(e) =>
       /\ inst.tokens[e].state = "running" <=> inst.tokens[e].inFlight = inst.tokens[e].attempt
       /\ landed[e] > 0 => inst.tokens[e].state = "running"
  /\ \A p \in Process : proc[p] \in Working /\ Forward(proc[p].step) =>
       /\ proc[p].state = "running" <=> proc[p].inFlight = proc[p].attempt
       /\ proc[p].pc \in Acting => proc[p].inFlight # proc[p].attempt
  /\ \A p \in Process : Owner(p) =>
       /\ proc[p].step \in Live(inst) => inst.tokens[proc[p].step].state = "running"
       /\ proc[p].pc \notin {"landed", "succeeded"} => landed[proc[p].step] = 0
  /\ \A p, q \in Process : Owner(p) /\ Owner(q) /\ proc[p].step = proc[q].step => p = q

Once == Attempts /\ Untouched

LEMMA LivePath ==
  ASSUME NEW i, NEW e, Forward(e)
  PROVE  e \in Live(i) <=> e \in Paths(i)
BY DEF Paths, Forward

LEMMA FreshFields ==
  ASSUME NEW b
  PROVE  Fresh(b).state = "ready" /\ Fresh(b).inFlight = 0 /\ Fresh(b).attempt = 1
BY DEF Fresh

\* A process that is refused by its store stays at its step, to settle it.
Undone(q) == proc[q] \in Working /\ proc'[q] = [proc[q] EXCEPT !.pc = "denied"]

LEMMA UndoneStays ==
  ASSUME NEW q \in Process, Undone(q)
  PROVE  /\ proc[q] \in Working /\ proc'[q].pc = "denied" /\ proc'[q].step = proc[q].step
         /\ proc'[q].state = proc[q].state /\ proc'[q].inFlight = proc[q].inFlight
         /\ proc'[q].attempt = proc[q].attempt
BY DEF Undone, Working

LEMMA LeaveUndone ==
  ASSUME TypeOK, NEW p \in Process, proc[p] \in Working, Leave(p)
  PROVE  proc'[p] \notin Working \/ Undone(p)
<1>1. CASE EndStep(p)
  <2>1. proc'[p].pc = "looping"
    BY <1>1, BecomeMoves DEF EndStep
  <2> QED
    BY <2>1 DEF Working
<1>2. CASE Goto(p, "denied")
  BY <1>2 DEF Goto, TypeOK, Undone
<1> QED
  BY <1>1, <1>2 DEF Leave

\* A process leaves its step, or is about to settle it, whatever it did to the instance.
LEMMA OnceLeft ==
  ASSUME Once, Progress(inst, inst'), NEW p \in Process, \A q \in Process \ {p} : proc'[q] = proc[q],
         proc'[p] \notin Working \/ Undone(p), landed' = landed
  PROVE  Once'
<1> DEFINE j == inst'
<1>1. /\ Coming(j) \subseteq Coming(inst)
      /\ \A s \in Paths(j) : \/ s \in Paths(inst) /\ j.tokens[s] = inst.tokens[s]
                             \/ s \in Coming(inst) /\ \E b \in Step \cup {Nil} : j.tokens[s] = Fresh(b)
  BY DEF Progress
<1> HIDE DEF j
<1>7. \A q \in Process : proc'[q] \in Working =>
        /\ proc[q] \in Working /\ proc'[q].step = proc[q].step
        /\ proc'[q].state = proc[q].state /\ proc'[q].inFlight = proc[q].inFlight
        /\ proc'[q].attempt = proc[q].attempt
        /\ IF q = p THEN proc'[q].pc = "denied" ELSE proc'[q] = proc[q]
  BY UndoneStays
<1>2. Untouched'
  BY <1>1, <1>7 DEF Once, Untouched, Forward, j
<1>3. \A q \in Process : Owner(q)' => Owner(q) /\ q # p /\ proc'[q] = proc[q]
  BY <1>7 DEF Owner, Forward, Acting
<1>8. \A q \in Process : proc'[q] \in Working /\ Forward(proc'[q].step) =>
       /\ proc'[q].state = "running" <=> proc'[q].inFlight = proc'[q].attempt
       /\ proc'[q].pc \in Acting => proc'[q].inFlight # proc'[q].attempt
  BY <1>7 DEF Once, Attempts, Acting
<1>4. \A e \in Live(j) : Forward(e) =>
        /\ j.tokens[e].state = "running" <=> j.tokens[e].inFlight = j.tokens[e].attempt
        /\ landed[e] > 0 => j.tokens[e].state = "running"
  <2> SUFFICES ASSUME NEW e \in Live(j), Forward(e)
               PROVE  /\ j.tokens[e].state = "running" <=> j.tokens[e].inFlight = j.tokens[e].attempt
                      /\ landed[e] > 0 => j.tokens[e].state = "running"
    OBVIOUS
  <2>1. e \in Paths(j)
    BY LivePath
  <2>2. CASE e \in Paths(inst) /\ j.tokens[e] = inst.tokens[e]
    BY <2>2, LivePath DEF Once, Attempts
  <2>3. CASE e \in Coming(inst) /\ \E b \in Step \cup {Nil} : j.tokens[e] = Fresh(b)
    BY <2>3, FreshFields DEF Once, Untouched
  <2> QED
    BY <1>1, <2>1, <2>2, <2>3
<1>5. \A q \in Process : Owner(q) /\ proc[q].step \in Live(j) => j.tokens[proc[q].step].state = "running"
  <2> SUFFICES ASSUME NEW q \in Process, Owner(q), proc[q].step \in Live(j)
               PROVE  j.tokens[proc[q].step].state = "running"
    OBVIOUS
  <2> DEFINE e == proc[q].step
  <2>1. Forward(e) /\ proc[q] \in Working
    BY DEF Owner
  <2>2. e \in Paths(j) /\ e \notin Coming(inst)
    BY <2>1, LivePath DEF Once, Untouched
  <2>3. e \in Live(inst) /\ j.tokens[e] = inst.tokens[e]
    BY <1>1, <2>1, <2>2, LivePath
  <2> QED
    BY <2>3 DEF Once, Attempts
<1>6. Attempts'
  BY <1>3, <1>4, <1>5, <1>8 DEF Once, Attempts, Forward, j
<1> QED
  BY <1>2, <1>6 DEF Once

\* A process goes on with its step, the instance left alone.
LEMMA OnceMoved ==
  ASSUME Once, NEW p \in Process, \A q \in Process \ {p} : proc'[q] = proc[q],
         proc[p] \in Working, inst' = inst, landed' = landed,
         proc'[p].step = proc[p].step, proc'[p].attempt = proc[p].attempt,
         proc'[p].state = proc[p].state, proc'[p].inFlight = proc[p].inFlight,
         Forward(proc[p].step) /\ proc'[p].pc \in {"claimed"} \cup Acting
           => Owner(p) /\ (proc[p].pc \in {"landed", "succeeded"} => proc'[p].pc \in {"landed", "succeeded"})
  PROVE  Once'
<1>1. \A q \in Process : Owner(q)' => Owner(q)
  BY DEF Owner, Forward
<1>2. Untouched'
  <2>1. Coming(inst)' = Coming(inst)
    OBVIOUS
  <2> QED
    BY <2>1 DEF Once, Untouched, Forward
<1>3. \A q \in Process : proc'[q] \in Working /\ Forward(proc'[q].step) =>
       /\ proc'[q].state = "running" <=> proc'[q].inFlight = proc'[q].attempt
       /\ proc'[q].pc \in Acting => proc'[q].inFlight # proc'[q].attempt
  <2> TAKE q \in Process
  <2>1. CASE q = p
    BY <2>1 DEF Once, Attempts, Owner
  <2>2. CASE q # p
    BY <2>2 DEF Once, Attempts
  <2> QED
    BY <2>1, <2>2
<1>4. \A q \in Process : Owner(q)' =>
       /\ proc'[q].step \in Live(inst) => inst.tokens[proc'[q].step].state = "running"
       /\ proc'[q].pc \notin {"landed", "succeeded"} => landed[proc'[q].step] = 0
  <2> TAKE q \in Process
  <2>1. CASE q = p
    BY <1>1, <2>1 DEF Once, Attempts, Owner, Forward
  <2>2. CASE q # p
    BY <1>1, <2>2 DEF Once, Attempts
  <2> QED
    BY <2>1, <2>2
<1>5. \A q, r \in Process : Owner(q)' /\ Owner(r)' /\ proc'[q].step = proc'[r].step => q = r
  BY <1>1 DEF Once, Attempts
<1>6. Attempts'
  BY <1>3, <1>4, <1>5 DEF Once, Attempts, Forward
<1> QED
  BY <1>2, <1>6 DEF Once

\* A process picks a token.
LEMMA OncePicked ==
  ASSUME TypeOK, Apart(inst), Once, NEW p \in Process, NEW s \in Live(inst), inst' = inst, landed' = landed,
         Become(p, [pc |-> "picked", step |-> s, attempt |-> inst.tokens[s].attempt,
                    state |-> inst.tokens[s].state,
                    inFlight |-> inst.tokens[s].inFlight, row |-> inst.tokens[s].row])
  PROVE  Once'
<1> DEFINE new == [pc |-> "picked", step |-> s, attempt |-> inst.tokens[s].attempt,
                   state |-> inst.tokens[s].state,
                   inFlight |-> inst.tokens[s].inFlight, row |-> inst.tokens[s].row]
<1>1. /\ new.pc = "picked" /\ new.step = s /\ new.attempt = inst.tokens[s].attempt
      /\ new.state = inst.tokens[s].state /\ new.inFlight = inst.tokens[s].inFlight
  OBVIOUS
<1>2. proc'[p] = new /\ \A q \in Process \ {p} : proc'[q] = proc[q]
  BY BecomeMoves
<1> HIDE DEF new
<1>3. \A q \in Process : Owner(q)' => Owner(q) /\ q # p
  BY <1>1, <1>2 DEF Owner, Acting, Forward
<1>4. Untouched'
  <2>1. Forward(s) => s \notin Coming(inst)
    BY LivePath, PathNotComing
  <2>2. Coming(inst)' = Coming(inst)
    OBVIOUS
  <2> QED
    BY <1>1, <1>2, <2>1, <2>2 DEF Once, Untouched, Forward
<1>5. \A q \in Process : proc'[q] \in Working /\ Forward(proc'[q].step) =>
       /\ proc'[q].state = "running" <=> proc'[q].inFlight = proc'[q].attempt
       /\ proc'[q].pc \in Acting => proc'[q].inFlight # proc'[q].attempt
  <2> TAKE q \in Process
  <2>1. CASE q = p
    BY <1>1, <1>2, <2>1 DEF Once, Attempts, Acting
  <2>2. CASE q # p
    BY <1>2, <2>2 DEF Once, Attempts
  <2> QED
    BY <2>1, <2>2
<1>6. Attempts'
  BY <1>2, <1>3, <1>5 DEF Once, Attempts, Forward
<1> QED
  BY <1>4, <1>6 DEF Once

\* A token held changes, and no other: what remains to show is about that token alone.
LEMMA OnceHeld ==
  ASSUME TypeOK, Once, NEW s \in Live(inst), NEW token \in Token, inst' = WithToken(inst, s, token),
         landed' = landed,
         Forward(s) => /\ token.state = "running" <=> token.inFlight = token.attempt
                       /\ landed[s] > 0 => token.state = "running",
         \A q \in Process : Owner(q)' => Owner(q),
         \A q \in Process : Owner(q)' /\ proc[q].step = s => token.state = "running",
         \A q \in Process : proc'[q] \in Working => proc'[q] = proc[q] \/ Undone(q)
  PROVE  Once'
<1> DEFINE j == inst'
<1>1. inst \in Instance
  BY DEF TypeOK
<1>2. /\ Coming(j) = Coming(inst) /\ Live(j) = Live(inst) /\ s \in Step
      /\ j.tokens = [inst.tokens EXCEPT ![s] = token] /\ j.tokens[s] = token
  BY <1>1, Held
<1>3. \A e \in Live(inst) \ {s} : j.tokens[e] = inst.tokens[e]
  BY <1>1, <1>2 DEF Live, Instance
<1> HIDE DEF j
<1>8. \A q \in Process : proc'[q] \in Working =>
        /\ proc[q] \in Working /\ proc'[q].step = proc[q].step
        /\ proc'[q].state = proc[q].state /\ proc'[q].inFlight = proc[q].inFlight
        /\ proc'[q].attempt = proc[q].attempt
        /\ proc'[q].pc = "denied" \/ proc'[q] = proc[q]
  BY UndoneStays
<1>4. Untouched'
  BY <1>2, <1>8 DEF Once, Untouched, Forward, j
<1>9. \A q \in Process : proc'[q] \in Working /\ Forward(proc'[q].step) =>
       /\ proc'[q].state = "running" <=> proc'[q].inFlight = proc'[q].attempt
       /\ proc'[q].pc \in Acting => proc'[q].inFlight # proc'[q].attempt
  BY <1>8 DEF Once, Attempts, Acting
<1>5. \A e \in Live(j) : Forward(e) =>
        /\ j.tokens[e].state = "running" <=> j.tokens[e].inFlight = j.tokens[e].attempt
        /\ landed[e] > 0 => j.tokens[e].state = "running"
  BY <1>2, <1>3 DEF Once, Attempts
<1>6. \A q \in Process : Owner(q)' =>
       /\ proc'[q] = proc[q]
       /\ proc[q].step \in Live(j) => j.tokens[proc[q].step].state = "running"
       /\ proc[q].pc \notin {"landed", "succeeded"} => landed[proc[q].step] = 0
  <2> SUFFICES ASSUME NEW q \in Process, Owner(q)'
               PROVE  /\ proc'[q] = proc[q]
                      /\ proc[q].step \in Live(j) => j.tokens[proc[q].step].state = "running"
                      /\ proc[q].pc \notin {"landed", "succeeded"} => landed[proc[q].step] = 0
    OBVIOUS
  <2>1. Owner(q) /\ proc'[q] = proc[q]
    BY <1>8 DEF Owner, Acting
  <2>2. CASE proc[q].step = s
    BY <1>2, <2>1, <2>2 DEF Once, Attempts
  <2>3. CASE proc[q].step # s
    BY <1>2, <1>3, <2>1, <2>3 DEF Once, Attempts
  <2> QED
    BY <2>1, <2>2, <2>3
<1>7. Attempts'
  BY <1>5, <1>6, <1>9 DEF Once, Attempts, Forward, j
<1> QED
  BY <1>4, <1>7 DEF Once

\* A claim: only the first on an attempt makes an owner.
LEMMA OnceClaimed ==
  ASSUME TypeOK, Once, NEW p \in Process, Claim(p), Claimable(p)
  PROVE  Once'
<1> DEFINE s == proc[p].step
           token == Claimed(inst.tokens[s])
           j == inst'
<1>1. proc[p] \in Working /\ inst \in Instance /\ proc[p].pc = "picked"
  BY WorkingTyped DEF TypeOK, Claim, At
<1>2. s \in Live(inst)
  BY <1>1 DEF Claimable, Live, Working
<1>3. inst.tokens[s] \in Token
  BY <1>1, <1>2 DEF Instance, Live
<1>4. token \in Token /\ token.state = "running" /\ token.inFlight = token.attempt
  BY <1>3 DEF Claimed, Token
<1>5. j = WithToken(inst, s, token) /\ landed' = landed /\ Goto(p, "claimed")
  BY DEF Claim
<1>6. /\ \A q \in Process \ {p} : proc'[q] = proc[q]
      /\ proc'[p].pc = "claimed" /\ proc'[p].step = s
      /\ proc'[p].attempt = proc[p].attempt /\ proc'[p].state = proc[p].state
      /\ proc'[p].inFlight = proc[p].inFlight
  <2>1. proc'[p] = [proc[p] EXCEPT !.pc = "claimed"]
    BY <1>5 DEF Goto, TypeOK
  <2> QED
    BY <1>1, <1>5, <2>1, GotoMoves DEF Working
<1>7. /\ Coming(j) = Coming(inst) /\ Live(j) = Live(inst) /\ s \in Step
      /\ j.tokens = [inst.tokens EXCEPT ![s] = token] /\ j.tokens[s] = token
  BY <1>1, <1>2, <1>4, <1>5, Held
<1>8. \A e \in Live(inst) \ {s} : j.tokens[e] = inst.tokens[e]
  BY <1>1, <1>7 DEF Live, Instance
<1>9. inst.tokens[s].state = proc[p].state
  BY DEF Claimable
<1> HIDE DEF token, j, s
<1>10. Owner(p)' => landed[s] = 0 /\ inst.tokens[s].state # "running"
                    /\ \A q \in Process : Owner(q) => proc[q].step # s
  <2> SUFFICES ASSUME Owner(p)'
               PROVE  landed[s] = 0 /\ inst.tokens[s].state # "running"
                      /\ \A q \in Process : Owner(q) => proc[q].step # s
    OBVIOUS
  <2>1. Forward(s) /\ proc[p].inFlight # proc[p].attempt
    BY <1>6 DEF Owner, Forward
  <2>2. inst.tokens[s].state # "running"
    BY <1>1, <1>9, <2>1 DEF Once, Attempts, s
  <2>3. landed[s] = 0
    BY <1>2, <1>7, <2>1, <2>2 DEF Once, Attempts, TypeOK
  <2> QED
    BY <1>2, <2>2, <2>3 DEF Once, Attempts
<1>11. \A q \in Process : Owner(q)' => q = p \/ (Owner(q) /\ proc'[q] = proc[q])
  BY <1>6 DEF Owner, Forward
<1>12. Untouched'
  BY <1>1, <1>5, <1>6, <1>7 DEF Once, Untouched, Forward, j, s
<1>13. \A e \in Live(j) : Forward(e) =>
        /\ j.tokens[e].state = "running" <=> j.tokens[e].inFlight = j.tokens[e].attempt
        /\ landed[e] > 0 => j.tokens[e].state = "running"
  BY <1>4, <1>7, <1>8 DEF Once, Attempts
<1>14. \A q \in Process : proc'[q] \in Working /\ Forward(proc'[q].step) =>
       /\ proc'[q].state = "running" <=> proc'[q].inFlight = proc'[q].attempt
       /\ proc'[q].pc \in Acting => proc'[q].inFlight # proc'[q].attempt
  <2> TAKE q \in Process
  <2>1. CASE q = p
    BY <1>1, <1>6, <2>1 DEF Once, Attempts, Acting, s
  <2>2. CASE q # p
    BY <1>6, <2>2 DEF Once, Attempts
  <2> QED
    BY <2>1, <2>2
<1>15. \A q \in Process : Owner(q)' =>
       /\ proc'[q].step \in Live(j) => j.tokens[proc'[q].step].state = "running"
       /\ proc'[q].pc \notin {"landed", "succeeded"} => landed[proc'[q].step] = 0
  <2> SUFFICES ASSUME NEW q \in Process, Owner(q)'
               PROVE  /\ proc'[q].step \in Live(j) => j.tokens[proc'[q].step].state = "running"
                      /\ proc'[q].pc \notin {"landed", "succeeded"} => landed[proc'[q].step] = 0
    OBVIOUS
  <2>1. CASE q = p
    BY <1>4, <1>6, <1>7, <1>10, <2>1
  <2>2. CASE q # p
    BY <1>4, <1>7, <1>8, <1>11, <2>2 DEF Once, Attempts
  <2> QED
    BY <2>1, <2>2
<1>16. \A q, r \in Process : Owner(q)' /\ Owner(r)' /\ proc'[q].step = proc'[r].step => q = r
  BY <1>6, <1>10, <1>11 DEF Once, Attempts
<1>17. Attempts'
  BY <1>5, <1>13, <1>14, <1>15, <1>16 DEF Once, Attempts, Forward, j
<1> QED
  BY <1>12, <1>17 DEF Once

\* The effect happens.
LEMMA OnceLanded ==
  ASSUME TypeOK, Undoing(inst), Once, NEW p \in Process, Land(p)
  PROVE  Once'
<1> DEFINE s == proc[p].step
<1>1. proc[p] \in Working /\ proc[p].pc = "permitted" /\ s \in Step
  BY WorkingTyped DEF Land, At, Working
<1>2. inst' = inst /\ landed' = [landed EXCEPT ![s] = landed[s] + 1] /\ landed \in [Step -> Nat]
  BY DEF Land, TypeOK
<1>3. /\ \A q \in Process \ {p} : proc'[q] = proc[q]
      /\ proc'[p].pc = "landed" /\ proc'[p].step = s
      /\ proc'[p].attempt = proc[p].attempt /\ proc'[p].state = proc[p].state
      /\ proc'[p].inFlight = proc[p].inFlight
  <2>1. proc'[p] = [proc[p] EXCEPT !.pc = "landed"]
    BY DEF Land, Goto, TypeOK
  <2> QED
    BY <1>1, <2>1, GotoMoves DEF Land, Working
<1>4. \A q \in Process : Owner(q)' => Owner(q)
  BY <1>1, <1>3 DEF Owner, Forward, Acting
<1>5. Forward(s) => Owner(p) /\ landed[s] = 0 /\ s \notin Coming(inst)
                    /\ (s \in Live(inst) => inst.tokens[s].state = "running")
                    /\ \A q \in Process : Owner(q) /\ proc[q].step = s => q = p
  <2> SUFFICES ASSUME Forward(s)
               PROVE  Owner(p) /\ landed[s] = 0 /\ s \notin Coming(inst)
                      /\ (s \in Live(inst) => inst.tokens[s].state = "running")
                      /\ \A q \in Process : Owner(q) /\ proc[q].step = s => q = p
    OBVIOUS
  <2>1. Owner(p)
    BY <1>1 DEF Owner, Once, Attempts, Acting
  <2>2. s \notin Coming(inst)
    BY <1>1 DEF Once, Untouched
  <2> QED
    BY <1>1, <2>1, <2>2 DEF Once, Attempts
<1>6. /\ \A e \in Step \ {s} : landed'[e] = landed[e]
      /\ landed'[s] = landed[s] + 1
  BY <1>1, <1>2
<1> HIDE DEF s
<1>7. Untouched'
  <2>1. Coming(inst)' = Coming(inst)
    BY <1>2
  <2>2. \A e \in Coming(inst) : e \in Step
    BY ComingTyped
  <2>3. ASSUME NEW e \in Coming(inst), Forward(e) PROVE landed'[e] = 0
    BY <1>5, <1>6, <2>2, <2>3 DEF Once, Untouched
  <2>4. \A e \in Coming(inst), q \in Process : Forward(e) /\ proc'[q] \in Working => proc'[q].step # e
    BY <1>1, <1>3 DEF Once, Untouched, s
  <2> QED
    BY <2>1, <2>3, <2>4 DEF Untouched, Forward
<1>8. \A e \in Step : Forward(e) => landed'[e] <= 1
  BY <1>5, <1>6 DEF Once, Attempts
<1>9. \A e \in Live(inst) : Forward(e) /\ landed'[e] > 0 => inst.tokens[e].state = "running"
  BY <1>5, <1>6 DEF Once, Attempts, Live
<1>10. \A q \in Process : proc'[q] \in Working /\ Forward(proc'[q].step) =>
       /\ proc'[q].state = "running" <=> proc'[q].inFlight = proc'[q].attempt
       /\ proc'[q].pc \in Acting => proc'[q].inFlight # proc'[q].attempt
  <2> TAKE q \in Process
  <2>1. CASE q = p
    BY <1>1, <1>3, <2>1 DEF Once, Attempts, Acting, s
  <2>2. CASE q # p
    BY <1>3, <2>2 DEF Once, Attempts
  <2> QED
    BY <2>1, <2>2
<1>11. \A q \in Process : Owner(q)' =>
       /\ proc'[q].step \in Live(inst) => inst.tokens[proc'[q].step].state = "running"
       /\ proc'[q].pc \notin {"landed", "succeeded"} => landed'[proc'[q].step] = 0
  <2> SUFFICES ASSUME NEW q \in Process, Owner(q)'
               PROVE  /\ proc'[q].step \in Live(inst) => inst.tokens[proc'[q].step].state = "running"
                      /\ proc'[q].pc \notin {"landed", "succeeded"} => landed'[proc'[q].step] = 0
    OBVIOUS
  <2>1. CASE q = p
    BY <1>3, <1>4, <2>1 DEF Once, Attempts, s
  <2>2. CASE q # p
    <3>1. Owner(q) /\ proc'[q] = proc[q] /\ Forward(proc[q].step) /\ proc[q].step \in Step
      BY <1>3, <1>4, <2>2 DEF Owner, Working
    <3>2. proc[q].step # s
      BY <1>5, <2>2, <3>1
    <3> QED
      BY <1>6, <3>1, <3>2 DEF Once, Attempts
  <2> QED
    BY <2>1, <2>2
<1>12. \A q, r \in Process : Owner(q)' /\ Owner(r)' /\ proc'[q].step = proc'[r].step => q = r
  <2>1. \A q \in Process : proc'[q].step = proc[q].step
    BY <1>3 DEF s
  <2> QED
    BY <1>4, <2>1 DEF Once, Attempts
<1>13. Attempts'
  BY <1>2, <1>8, <1>9, <1>10, <1>11, <1>12 DEF Once, Attempts, Forward
<1> QED
  BY <1>7, <1>13 DEF Once

LEMMA OnceRetried ==
  ASSUME TypeOK, Once, NEW p \in Process, Retry(p), proc[p].step \in Live(inst)
  PROVE  Once'
<1> DEFINE s == proc[p].step
           token == Retried(inst.tokens[s], proc[p].row)
<1>1. proc[p] \in Working /\ proc[p].pc = "retrying" /\ inst \in Instance
  BY WorkingTyped DEF Retry, At, TypeOK
<1>2. s \in Step /\ inst.tokens[s] \in Token /\ proc[p].row \in Nat
  BY <1>1 DEF Live, Instance, Working
<1>3. token \in Token /\ token.state = "waiting" /\ token.inFlight # token.attempt
  BY <1>2 DEF Retried, Token
<1>4. inst' = WithToken(inst, s, token) /\ landed' = landed /\ Leave(p)
  BY DEF Retry
<1>5. (\A q \in Process \ {p} : proc'[q] = proc[q]) /\ proc'[p].pc \in {"looping", "denied"}
  BY <1>1, <1>4, LeaveMoves
<1>6. proc'[p] \notin Working \/ Undone(p)
  BY <1>1, <1>4, LeaveUndone
<1>7. \A q \in Process : Owner(q)' => Owner(q) /\ q # p
  BY <1>5 DEF Owner, Forward, Acting
<1>8. Forward(s) => Owner(p) /\ landed[s] = 0
  BY <1>1 DEF Owner, Once, Attempts, Acting
<1>9. \A q \in Process : Owner(q)' => proc[q].step # s
  BY <1>7, <1>8 DEF Once, Attempts, Owner
<1>10. \A q \in Process : proc'[q] \in Working => proc'[q] = proc[q] \/ Undone(q)
  BY <1>5, <1>6
<1> HIDE DEF token, s
<1>11. s \in Live(inst)
  BY DEF s
<1> QED
  BY <1>3, <1>4, <1>7, <1>8, <1>9, <1>10, <1>11, OnceHeld

LEMMA OnceElapsed ==
  ASSUME TypeOK, Once, NEW s \in Step, Elapse(s)
  PROVE  Once'
<1> DEFINE token == [inst.tokens[s] EXCEPT !.ripe = TRUE]
<1>1. s \in Live(inst) /\ inst.tokens[s] \in Token
  BY DEF Elapse, Live, NoToken, TypeOK, Instance
<1>2. /\ token \in Token /\ token.state = inst.tokens[s].state
      /\ token.inFlight = inst.tokens[s].inFlight /\ token.attempt = inst.tokens[s].attempt
  BY <1>1 DEF Token
<1>3. inst' = WithToken(inst, s, token) /\ landed' = landed /\ proc' = proc
  BY DEF Elapse, WithToken
<1> HIDE DEF token
<1>4. \A q \in Process : Owner(q)' => Owner(q)
  BY <1>3 DEF Owner, Forward
<1>5. \A q \in Process : Owner(q)' /\ proc[q].step = s => token.state = "running"
  BY <1>1, <1>2, <1>4 DEF Once, Attempts
<1>6. Forward(s) => /\ token.state = "running" <=> token.inFlight = token.attempt
                    /\ landed[s] > 0 => token.state = "running"
  BY <1>1, <1>2 DEF Once, Attempts
<1> QED
  BY <1>1, <1>2, <1>3, <1>4, <1>5, <1>6, OnceHeld

LEMMA OnceStep ==
  ASSUME PathsApart, TypeOK, TypeOK', Placed, Undoing(inst), Apart(inst), Once, [Next]_vars
  PROVE  Once'
<1>1. CASE Holds
  BY <1>1, OnceClaimed, OnceRetried, OnceElapsed DEF Holds
<1>2. ASSUME ~Holds PROVE Progress(inst, inst')
  BY <1>2, Progresses
<1>3. ASSUME NEW p \in Process, NEW state, Become(p, state), landed' = landed, Progress(inst, inst'),
             state \in {Idle, [pc |-> "looping"], [pc |-> "ended"], [pc |-> "unclosed"], [pc |-> "closed"]}
      PROVE  Once'
  <2>1. proc'[p] = state /\ \A q \in Process \ {p} : proc'[q] = proc[q]
    BY <1>3, BecomeMoves
  <2>2. state.pc \in {"idle", "looping", "ended", "unclosed", "closed"}
    BY <1>3 DEF Idle
  <2>3. state \notin Working
    BY <2>2 DEF Working
  <2> QED
    BY <1>3, <2>1, <2>3, OnceLeft
<1>4. ASSUME NEW p \in Process, ~Holds,
             \/ Sweep(p) \/ ReadRun(p) \/ CloseRun(p) \/ AuditEnd(p) \/ Crash(p) \/ Cancel(p)
             \/ (Claim(p) /\ ~Claimable(p))
      PROVE  Once'
  <2>1. /\ landed' = landed
        /\ \E state \in {Idle, [pc |-> "looping"], [pc |-> "ended"], [pc |-> "unclosed"], [pc |-> "closed"]} :
             Become(p, state)
    BY <1>4 DEF Sweep, ReadRun, CloseRun, AuditEnd, Crash, Cancel, Claim, EndStep
  <2> QED
    BY <1>2, <1>3, <1>4, <2>1
<1>8. ASSUME NEW p \in Process, ~Holds,
             \/ Retry(p) \/ Advance(p) \/ RunParallel(p) \/ SettleStep(p)
             \/ \E target \in Step : RunBranch(p, target)
      PROVE  Once'
  <2>1. proc[p] \in Working /\ Leave(p) /\ landed' = landed
    BY <1>8, WorkingTyped DEF Retry, Advance, RunParallel, SettleStep, RunBranch, At, Leave
  <2> QED
    BY <1>2, <1>8, <2>1, LeaveMoves, LeaveUndone, OnceLeft
<1>5. ASSUME NEW p \in Process, ~Holds, Pick(p) PROVE Once'
  <2>1. CASE \E state \in {[pc |-> "ended"], Idle} : Become(p, state)
    BY <1>2, <1>3, <1>5, <2>1 DEF Pick
  <2>2. CASE \E s \in Step : Actionable(s) /\
               Become(p, [pc |-> "picked", step |-> s, attempt |-> inst.tokens[s].attempt,
                          state |-> inst.tokens[s].state,
                          inFlight |-> inst.tokens[s].inFlight, row |-> inst.tokens[s].row])
    <3>1. \A s \in Step : Actionable(s) => s \in Live(inst)
      BY DEF Actionable, Live, NoToken
    <3>2. inst' = inst /\ landed' = landed
      BY <1>5 DEF Pick
    <3> QED
      BY <2>2, <3>1, <3>2, OncePicked
  <2> QED
    BY <1>5, <2>1, <2>2 DEF Pick
<1>6. ASSUME NEW p \in Process,
             Contain(p) \/ Lookup(p) \/ Permit(p) \/ Refuse(p) \/ ThrowDenied(p) \/ ThrowFatal(p)
             \/ ThrowRetryable(p) \/ RecordSucceeded(p) \/ RefuseAfter(p) \/ Route(p)
             \/ RecordRunning(p) \/ StoreFails(p)
      PROVE  Once'
  <2>1. proc[p] \in Working /\ inst' = inst /\ landed' = landed
    BY <1>6, WorkingTyped DEF At, Contain, Lookup, Route, Permit, Refuse, ThrowDenied,
                              ThrowFatal, ThrowRetryable, RecordSucceeded, RefuseAfter, RecordRunning, StoreFails
  <2>2. Forward(proc[p].step) /\ proc[p].pc \in Acting => Owner(p)
    BY <2>1 DEF Owner, Once, Attempts
  <2>3. CASE \E pc : Goto(p, pc)
    <3> PICK pc : Goto(p, pc)
      BY <2>3
    <3>1. proc'[p] = [proc[p] EXCEPT !.pc = pc] /\ \A q \in Process \ {p} : proc'[q] = proc[q]
      BY DEF Goto, TypeOK
    <3>2. /\ proc'[p].pc = pc /\ proc'[p].step = proc[p].step /\ proc'[p].attempt = proc[p].attempt
          /\ proc'[p].state = proc[p].state /\ proc'[p].inFlight = proc[p].inFlight
      BY <2>1, <3>1 DEF Working
    <3>3. ASSUME Forward(proc[p].step), pc \in {"claimed"} \cup Acting
          PROVE  Owner(p) /\ (proc[p].pc \in {"landed", "succeeded"} => pc \in {"landed", "succeeded"})
      <4>1. CASE Lookup(p)
        <5>1. proc[p].pc = "claimed" /\ pc = LookupVerdict(p)
          BY <2>1, <3>2, <4>1, GotoMoves DEF Lookup, At
        <5>2. pc = "checked" /\ proc[p].inFlight # proc[p].attempt
          BY <3>3, <5>1 DEF LookupVerdict, Acting
        <5> QED
          BY <2>1, <3>3, <5>1, <5>2 DEF Owner
      <4>2. CASE ~Lookup(p)
        <5>1. \/ proc[p].pc \in {"checked", "recorded", "permitted"}
              \/ proc[p].pc = "landed" /\ pc = "succeeded"
          BY <1>6, <2>1, <3>2, <3>3, <4>2, GotoMoves
          DEF At, Contain, Route, Permit, Refuse, ThrowDenied, Acting,
              ThrowFatal, ThrowRetryable, RecordSucceeded, RefuseAfter, RecordRunning, StoreFails
        <5> QED
          BY <2>2, <3>3, <5>1 DEF Acting
      <4> QED
        BY <4>1, <4>2
    <3> QED
      BY <2>1, <3>1, <3>2, <3>3, OnceMoved
  <2>4. CASE RecordRunning(p) /\ proc[p].row = 0
    <3> DEFINE new == [pc |-> "recorded", step |-> proc[p].step, attempt |-> proc[p].attempt,
                       state |-> proc[p].state, inFlight |-> proc[p].inFlight,
                       row |-> Len(rows[proc[p].step]) + 1]
    <3>1. /\ new.pc = "recorded" /\ new.step = proc[p].step /\ new.attempt = proc[p].attempt
          /\ new.state = proc[p].state /\ new.inFlight = proc[p].inFlight
      OBVIOUS
    <3>2. Become(p, new) /\ proc[p].pc = "checked"
      BY <2>4 DEF RecordRunning, At
    <3> HIDE DEF new
    <3>3. proc'[p] = new /\ \A q \in Process \ {p} : proc'[q] = proc[q]
      BY <3>2, BecomeMoves
    <3> QED
      BY <2>1, <2>2, <3>1, <3>2, <3>3, OnceMoved DEF Acting
  <2> QED
    BY <1>6, <2>3, <2>4 DEF Contain, Lookup, Route, Permit, Refuse, ThrowDenied,
                            ThrowFatal, ThrowRetryable, RecordSucceeded, RefuseAfter, RecordRunning, StoreFails
<1>7. CASE UNCHANGED vars
  <2>1. /\ \A q \in Process : Owner(q)' <=> Owner(q)
        /\ inst' = inst /\ landed' = landed /\ proc' = proc
    BY <1>7 DEF vars, Owner, Forward
  <2>2. Coming(inst)' = Coming(inst) /\ Live(inst)' = Live(inst)
    BY <2>1
  <2> QED
    BY <2>1, <2>2 DEF Once, Attempts, Untouched, Forward
<1> QED
  BY <1>1, <1>4, <1>5, <1>6, <1>7, <1>8, OnceLanded DEF Holds, Next, Engine, Perform

LEMMA OnceInit == Init => Once
<1> SUFFICES ASSUME Init PROVE Once
  OBVIOUS
<1>1. \A p \in Process : proc[p] \notin Working
  BY DEF Init, Idle, Working
<1>2. \A e \in Step : landed[e] = 0
  BY DEF Init
<1>3. \A s \in Live(inst) : inst.tokens[s] = Fresh(Nil)
  BY DEF Init, Live
<1>4. Coming(inst) \subseteq Step
  BY UndoingInit, ComingTyped
<1>5. Untouched
  BY <1>1, <1>2, <1>4 DEF Untouched
<1>6. \A p \in Process : ~Owner(p)
  BY <1>1 DEF Owner
<1>7. \A s \in Live(inst) : /\ s \in Step /\ inst.tokens[s].state = "ready"
                            /\ inst.tokens[s].inFlight = 0 /\ inst.tokens[s].attempt = 1
  BY <1>3, FreshFields DEF Live
<1>8. Attempts
  BY <1>1, <1>2, <1>6, <1>7 DEF Attempts
<1> QED
  BY <1>5, <1>8 DEF Once

\* However processes crash, stall past their lease and resume, retry, or race each
\* other for a token, no forward effect happens twice.
THEOREM EffectHappensOnce ==
  ASSUME PathsApart
  PROVE  Spec => []ForwardEffectAtMostOnce
<1>1. Init => Placed /\ Undoing(inst) /\ Apart(inst) /\ Once
  BY PlacedInit, UndoingInit, ApartInit, OnceInit
<1>2. TypeOK /\ TypeOK' /\ Placed /\ Undoing(inst) /\ Apart(inst) /\ Once /\ [Next]_vars
        => Placed' /\ Undoing(inst)' /\ Apart(inst)' /\ Once'
  BY PlacedStep, UndoingStep, ApartStep, OnceStep
<1>3. TypeOK /\ Once => ForwardEffectAtMostOnce
  <2> SUFFICES ASSUME TypeOK, Once, NEW s \in Step, Forward(s),
                      NEW p \in Process, At(p, "permitted"), proc[p].step = s
               PROVE  landed[s] = 0
    BY DEF ForwardEffectAtMostOnce, Once, Attempts
  <2>1. proc[p] \in Working /\ proc[p].pc = "permitted"
    BY WorkingTyped DEF At
  <2>2. Owner(p)
    BY <2>1 DEF Owner, Once, Attempts, Acting
  <2> QED
    BY <2>1, <2>2 DEF Once, Attempts
<1> QED
  BY <1>1, <1>2, <1>3, TypeCorrect, PTL DEF Spec

-----------------------------------------------------------------------------
(* A join waits for every path of its fan-out.                              *)

LEMMA AheadTransitive ==
  ASSUME NEW s \in Step, NEW t \in Ahead[s]
  PROVE  Ahead[t] \subseteq Ahead[s]
<1>1. t \in Step
  BY AheadTyped
<1> SUFFICES ASSUME NEW u \in Ahead[t] PROVE u \in Ahead[s]
  OBVIOUS
<1>2. u \in Step
  BY <1>1, AheadTyped
<1>3. ASSUME NEW S \in SUBSET Step, s \in S, \A r \in S : Leads(r) \subseteq S PROVE u \in S
  <2>1. t \in S
    BY <1>1, <1>3 DEF Ahead
  <2> QED
    BY <1>1, <1>3, <2>1 DEF Ahead
<1> QED
  BY <1>2, <1>3 DEF Ahead

\* What runs from a step of a fan-out's path on is on that path too, and the fan-out is
\* not.
LEMMA InsideClosed ==
  ASSUME NEW b \in Step, Kind[b] = "parallel", NEW x \in Inside(b)
  PROVE  /\ x \in Step /\ x \in Ahead[b] /\ Ahead[x] \subseteq Inside(b) /\ b \notin Ahead[x]
         /\ x \in Ahead[x] /\ x # b /\ Kind[x] # "compensation"
         /\ \A t \in Leads(x) : t \in Inside(b)
<1>1. PICK h \in Heads[b] : x \in Ahead[h]
  BY DEF Inside
<1>2. h \in Leads(b) /\ h \in Step
  BY DefinitionAssumption DEF Leads
<1>3. Ahead[h] \subseteq Ahead[b] /\ b \notin Ahead[h] /\ Ahead[h] \subseteq Step
  BY <1>2, AheadOfLead, AheadTyped, DefinitionAssumption
<1>4. x \in Step /\ Ahead[x] \subseteq Ahead[h] /\ x \in Ahead[x]
  BY <1>1, <1>2, <1>3, AheadTransitive, AheadTyped
<1>5. Ahead[h] \subseteq Inside(b)
  BY DEF Inside
<1>6. \A t \in Leads(x) : t \in Ahead[x]
  BY <1>4, AheadOfLead, AheadTyped
<1>7. Kind[x] # "compensation"
  <2>1. b \in Ahead[First] /\ First \in Step
    BY DefinitionAssumption
  <2>2. x \in Ahead[First]
    BY <1>1, <1>3, <2>1, AheadTransitive
  <2> QED
    BY <1>4, <2>2, DefinitionAssumption
<1> QED
  BY <1>1, <1>3, <1>4, <1>5, <1>6, <1>7

\* The paths and joins under way, what each still has before it, the fan-out each
\* belongs to, and what belongs to a fan-out.
Item(i) == Paths(i) \cup Open(i)
Reach(i, x) == IF x \in Open(i) THEN Ahead[After[x]] ELSE Ahead[x]
Above(i, x) == IF x \in Open(i) THEN i.barriers[x].parent ELSE i.tokens[x].barrier
Under(i, b) == {x \in Item(i) : Above(i, x) = b}

\* Each item is on a path of an open fan-out or of none.
Owned(i) ==
  \A x \in Item(i) : Above(i, x) # Nil => Above(i, x) \in Open(i) /\ x \in Inside(Above(i, x))

\* An open join has counted the paths that are not there any more.
Counted(i) ==
  \A b \in Open(i) : i.barriers[b].arrived + Cardinality(Under(i, b)) = Cardinality(Heads[b])

\* Of a fan-out that ran, an item is on a path, directly or below another one, or has
\* nothing of it before it.
Sorted(i) ==
  \A b \in Step, x \in Item(i) :
    Kind[b] = "parallel" /\ Says(i, b, "succeeded") =>
      \/ Reach(i, x) \cap Inside(b) = {}
      \/ x \in Inside(b) /\ (Above(i, x) = b \/ Above(i, x) \in Inside(b))

\* What completed is not live and does not come again; a compensation that completed
\* is marked; the history notes no completion twice.
Done(i) ==
  /\ \A e \in Step : Says(i, e, "succeeded") /\ Kind[e] # "compensation" => e \notin Paths(i) \cup Coming(i)
  /\ \A u \in Step : Says(i, u, "succeeded") /\ Kind[u] = "compensation" => Says(i, ForwardOf(u), "compensated")
  /\ \A m, n \in DOMAIN i.history :
       i.history[m].outcome = "succeeded" /\ i.history[n] = i.history[m] => m = n

Nested(i) == Owned(i) /\ Counted(i) /\ Sorted(i) /\ Done(i)

\* While a path of a fan-out that ran has work, the fan-out's join is open.
LEMMA JoinOpen ==
  ASSUME NEW i, Undoing(i), Apart(i), Nested(i), NEW b \in Step, Kind[b] = "parallel",
         Says(i, b, "succeeded"), NEW s \in Paths(i), s \in Inside(b)
  PROVE  b \in Open(i)
<1> SUFFICES ASSUME b \notin Open(i) PROVE FALSE
  OBVIOUS
<1> DEFINE X == {x \in Item(i) : x \in Inside(b)}
           T == {Step \ Ahead[x] : x \in X}
<1>1. s \in X
  BY DEF Item
<1>2. PICK y \in T : \A z \in T : <<z, y>> \notin StrictSubsetOrdering(Step)
  <2>1. T # {}
    BY <1>1
  <2>2. T \subseteq FiniteSubsetsOf(Step)
    <3>1. T \subseteq SUBSET Step
      OBVIOUS
    <3> HIDE DEF T
    <3> QED
      BY <3>1, FS_FiniteSubsetsOfFinite, DefinitionAssumption
  <2> HIDE DEF T
  <2> QED
    BY <2>1, <2>2, WFMin, FS_StrictSubsetOrderingWellFounded
<1>3. PICK x \in X : y = Step \ Ahead[x]
  BY <1>2
<1>4. x \in Item(i) /\ x \in Inside(b)
  OBVIOUS
<1>5. Reach(i, x) \cap Inside(b) # {}
  <2>1. CASE x \in Open(i)
    <3>1. After[x] \in Inside(b) /\ After[x] \in Ahead[After[x]]
      BY <1>4, <2>1, JoinOf, InsideClosed, AheadTyped
    <3> QED
      BY <2>1, <3>1 DEF Reach
  <2>2. CASE x \notin Open(i)
    BY <1>4, <2>2, InsideClosed DEF Reach
  <2> QED
    BY <2>1, <2>2
<1>6. Above(i, x) = b \/ Above(i, x) \in Inside(b)
  BY <1>4, <1>5 DEF Nested, Sorted
<1> DEFINE c == Above(i, x)
<1>7. c # Nil
  BY <1>6, InsideClosed, DefinitionAssumption
<1>8. c \in Open(i) /\ x \in Inside(c) /\ c \in Inside(b)
  BY <1>4, <1>6, <1>7 DEF Nested, Owned
<1>9. c \in X
  BY <1>8 DEF Item
<1>10. c \in Step /\ Kind[c] = "parallel"
  BY <1>8, JoinOf
<1>11. x \in Ahead[c] /\ c \notin Ahead[x] /\ c \in Ahead[c]
  BY <1>8, <1>10, InsideClosed, AheadTyped
<1>12. Ahead[x] \subseteq Ahead[c]
  BY <1>10, <1>11, AheadTransitive
<1> DEFINE z == Step \ Ahead[c]
<1>13. z \in T /\ z \in SUBSET Step /\ y \in SUBSET Step /\ z \subseteq y /\ z # y
  BY <1>3, <1>9, <1>10, <1>11, <1>12
<1> HIDE DEF z, T
<1>14. <<z, y>> \in StrictSubsetOrdering(Step)
  BY <1>13, StrictSubset
<1> QED
  BY <1>2, <1>13, <1>14

LEMMA NestedJoinWaits ==
  ASSUME Undoing(inst), Apart(inst), Nested(inst)
  PROVE  JoinWaitsForEveryPath
<1>1. ASSUME NEW b \in Step, Kind[b] = "parallel", Succeeded(b), NEW s \in Live(inst), s \in Inside(b)
      PROVE  inst.tokens[After[b]] = NoToken /\ ~Succeeded(After[b])
  <2>1. s \in Paths(inst)
    BY <1>1, InsideClosed DEF Paths
  <2>2. b \in Open(inst)
    BY <1>1, <2>1, JoinOpen DEF Succeeded
  <2>3. After[b] \in Step /\ Kind[After[b]] # "compensation" /\ After[b] \in Ahead[After[b]]
    BY <2>2, JoinOf, AheadTyped
  <2>4. After[b] \notin Paths(inst)
    BY <2>2, <2>3 DEF Apart
  <2>5. After[b] \in Coming(inst)
    BY <2>2, <2>3 DEF Coming
  <2> QED
    BY <2>3, <2>4, <2>5 DEF Nested, Done, Paths, Live, Succeeded
<1> QED
  BY <1>1 DEF JoinWaitsForEveryPath, Nested, Done

-----------------------------------------------------------------------------
(* What a move does to the paths and joins under way.                       *)

Nesting(i) == Owned(i) /\ Counted(i) /\ Sorted(i)

LEMMA ItemTyped ==
  ASSUME NEW i
  PROVE  /\ Item(i) \subseteq Step
         /\ \A b : Under(i, b) \subseteq Item(i) /\ IsFiniteSet(Under(i, b))
<1>1. Item(i) \subseteq Step
  BY DEF Item, Paths, Live, Open
<1>2. ASSUME NEW b PROVE Under(i, b) \subseteq Item(i) /\ IsFiniteSet(Under(i, b))
  <2>1. Under(i, b) \subseteq Item(i)
    BY DEF Under
  <2> QED
    BY <1>1, <2>1, FS_Subset, DefinitionAssumption
<1> QED
  BY <1>1, <1>2

\* Nothing belongs to a step that is no open fan-out.
LEMMA NothingUnder ==
  ASSUME NEW i, Owned(i), NEW s \in Step \ Open(i), NEW x \in Item(i)
  PROVE  Above(i, x) # s
BY DefinitionAssumption DEF Owned

LEMMA NestingKept ==
  ASSUME NEW i, Nesting(i), NEW j, Item(j) = Item(i), Open(j) = Open(i),
         \A x \in Item(i) : Above(j, x) = Above(i, x),
         \A b \in Open(i) : j.barriers[b].arrived = i.barriers[b].arrived,
         \A b \in Step : Kind[b] = "parallel" /\ Says(j, b, "succeeded") => Says(i, b, "succeeded")
  PROVE  Nesting(j)
<1>1. \A x \in Item(i) : Reach(j, x) = Reach(i, x)
  BY DEF Reach
<1>2. \A b : Under(j, b) = Under(i, b)
  BY DEF Under
<1>3. Owned(j)
  BY DEF Nesting, Owned
<1>4. Counted(j)
  BY <1>2 DEF Nesting, Counted
<1>5. Sorted(j)
  BY <1>1 DEF Nesting, Sorted
<1> QED
  BY <1>3, <1>4, <1>5 DEF Nesting

\* One item takes another's place.
LEMMA ItemReplaced ==
  ASSUME NEW i, Undoing(i), Nesting(i), NEW a \in Item(i), NEW z \in Step \ Item(i), NEW j,
         Item(j) = (Item(i) \ {a}) \cup {z}, Open(j) = Open(i) \ {a},
         \A x \in Item(i) \ {a} : Above(j, x) = Above(i, x) /\ Above(i, x) # a,
         Above(j, z) = Above(i, a), Reach(j, z) \subseteq Reach(i, a),
         \A b \in Open(j) : j.barriers[b].arrived = i.barriers[b].arrived,
         \A b \in Step : Kind[b] = "parallel" /\ Says(j, b, "succeeded") => Says(i, b, "succeeded"),
         \A b \in Step : Kind[b] = "parallel" /\ a \in Inside(b) => z \in Inside(b)
  PROVE  Nesting(j)
<1>1. \A x \in Item(i) \ {a} : Reach(j, x) = Reach(i, x)
  BY DEF Reach
<1>2. \A b \in Open(i) : b \in Step /\ Kind[b] = "parallel"
  BY JoinOf
<1>3. Above(i, a) # Nil => Above(i, a) \in Open(i) /\ a \in Inside(Above(i, a)) /\ Above(i, a) # a
  <2>1. Above(i, a) # Nil => Above(i, a) \in Open(i) /\ a \in Inside(Above(i, a))
    BY DEF Nesting, Owned
  <2> QED
    BY <1>2, <2>1, InsideClosed
<1>4. Owned(j)
  <2> SUFFICES ASSUME NEW x \in Item(j), Above(j, x) # Nil
               PROVE  Above(j, x) \in Open(j) /\ x \in Inside(Above(j, x))
    BY DEF Owned
  <2>1. CASE x = z
    BY <1>2, <1>3, <2>1
  <2>2. CASE x # z
    BY <2>2 DEF Nesting, Owned
  <2> QED
    BY <2>1, <2>2
<1>5. Counted(j)
  <2> SUFFICES ASSUME NEW b \in Open(j)
               PROVE  j.barriers[b].arrived + Cardinality(Under(j, b)) = Cardinality(Heads[b])
    BY DEF Counted
  <2>1. i.barriers[b].arrived + Cardinality(Under(i, b)) = Cardinality(Heads[b])
    BY DEF Nesting, Counted
  <2>2. Cardinality(Under(j, b)) = Cardinality(Under(i, b))
    <3>1. CASE Above(i, a) = b
      <4>1. Under(j, b) = (Under(i, b) \ {a}) \cup {z} /\ a \in Under(i, b) /\ z \notin Under(i, b)
        BY <3>1 DEF Under
      <4>2. /\ IsFiniteSet(Under(i, b) \ {a})
            /\ Cardinality(Under(i, b) \ {a}) = Cardinality(Under(i, b)) - 1
        BY <4>1, ItemTyped, FS_RemoveElement
      <4>3. Cardinality((Under(i, b) \ {a}) \cup {z}) = Cardinality(Under(i, b) \ {a}) + 1
        BY <4>1, <4>2, FS_AddElement
      <4>4. Cardinality(Under(i, b)) \in Nat
        BY ItemTyped, FS_CardinalityType
      <4> QED
        BY <4>1, <4>2, <4>3, <4>4
    <3>2. CASE Above(i, a) # b
      <4>1. Under(j, b) = Under(i, b)
        BY <3>2 DEF Under
      <4> QED
        BY <4>1
    <3> QED
      BY <3>1, <3>2
  <2> QED
    BY <2>1, <2>2
<1>6. Sorted(j)
  <2> SUFFICES ASSUME NEW b \in Step, NEW x \in Item(j), Kind[b] = "parallel", Says(j, b, "succeeded")
               PROVE  \/ Reach(j, x) \cap Inside(b) = {}
                      \/ x \in Inside(b) /\ (Above(j, x) = b \/ Above(j, x) \in Inside(b))
    BY DEF Sorted
  <2>1. CASE x = z
    <3>1. \/ Reach(i, a) \cap Inside(b) = {}
          \/ a \in Inside(b) /\ (Above(i, a) = b \/ Above(i, a) \in Inside(b))
      BY DEF Nesting, Sorted
    <3> QED
      BY <2>1, <3>1
  <2>2. CASE x # z
    <3>1. x \in Item(i) \ {a}
      BY <2>2
    <3>2. \/ Reach(i, x) \cap Inside(b) = {}
          \/ x \in Inside(b) /\ (Above(i, x) = b \/ Above(i, x) \in Inside(b))
      BY <3>1 DEF Nesting, Sorted
    <3> QED
      BY <1>1, <3>1, <3>2
  <2> QED
    BY <2>1, <2>2
<1> QED
  BY <1>4, <1>5, <1>6 DEF Nesting

\* A path ends and its fan-out counts it.
LEMMA ItemEnded ==
  ASSUME NEW i, Nesting(i), NEW a \in Item(i), NEW j,
         Item(j) = Item(i) \ {a}, Open(j) = Open(i), a \notin Open(i),
         \A x \in Item(j) : Above(j, x) = Above(i, x),
         \A b \in Open(i) : /\ i.barriers[b].arrived \in Nat
                            /\ j.barriers[b].arrived = i.barriers[b].arrived
                                                         + (IF b = Above(i, a) THEN 1 ELSE 0),
         \A b \in Step : Kind[b] = "parallel" /\ Says(j, b, "succeeded") => Says(i, b, "succeeded")
  PROVE  Nesting(j)
<1>1. \A x \in Item(j) : Reach(j, x) = Reach(i, x)
  BY DEF Reach
<1>2. Owned(j)
  BY DEF Nesting, Owned
<1>3. Counted(j)
  <2> SUFFICES ASSUME NEW b \in Open(j)
               PROVE  j.barriers[b].arrived + Cardinality(Under(j, b)) = Cardinality(Heads[b])
    BY DEF Counted
  <2>1. i.barriers[b].arrived + Cardinality(Under(i, b)) = Cardinality(Heads[b])
    BY DEF Nesting, Counted
  <2>2. CASE Above(i, a) = b
    <3>1. Under(j, b) = Under(i, b) \ {a} /\ a \in Under(i, b)
      BY <2>2 DEF Under
    <3>2. Cardinality(Under(j, b)) = Cardinality(Under(i, b)) - 1
      <4>1. IsFiniteSet(Under(i, b))
        BY ItemTyped
      <4>2. Cardinality(Under(i, b) \ {a}) = Cardinality(Under(i, b)) - 1
        BY <3>1, <4>1, FS_RemoveElement
      <4> QED
        BY <3>1, <4>2
    <3>3. Cardinality(Under(i, b)) \in Nat
      BY ItemTyped, FS_CardinalityType
    <3>4. j.barriers[b].arrived = i.barriers[b].arrived + 1 /\ i.barriers[b].arrived \in Nat
      BY <2>2
    <3> QED
      BY <2>1, <3>2, <3>3, <3>4
  <2>3. CASE Above(i, a) # b
    <3>1. Under(j, b) = Under(i, b)
      BY <2>3 DEF Under
    <3>2. j.barriers[b].arrived = i.barriers[b].arrived
      BY <2>3
    <3> QED
      BY <2>1, <3>1, <3>2
  <2> QED
    BY <2>2, <2>3
<1>4. Sorted(j)
  BY <1>1 DEF Nesting, Sorted
<1> QED
  BY <1>2, <1>3, <1>4 DEF Nesting

\* A path fans out: it waits for its join, the heads of its paths are under it.
LEMMA ItemFanned ==
  ASSUME PathsApart, NEW i, Undoing(i), Apart(i), Nesting(i), NEW s \in Paths(i), Kind[s] = "parallel",
         NEW j, Item(j) = Item(i) \cup Heads[s], Heads[s] \cap Item(i) = {}, Open(j) = Open(i) \cup {s},
         \A x \in Item(i) : Above(j, x) = Above(i, x),
         \A h \in Heads[s] : Above(j, h) = s,
         j.barriers[s].arrived = 0,
         \A b \in Open(i) : j.barriers[b].arrived = i.barriers[b].arrived,
         \A b \in Step : Says(j, b, "succeeded") => Says(i, b, "succeeded") \/ b = s
  PROVE  Nesting(j)
<1>1. s \in Step /\ s \in Item(i) /\ s \notin Open(i) /\ s \in Item(j)
  BY PathNotOpen DEF Paths, Live, Item
<1>2. After[s] \in Leads(s) /\ Ahead[After[s]] \subseteq Ahead[s]
  <2>1. After[s] \in Leads(s)
    BY DEF Leads
  <2> QED
    BY <1>1, <2>1, AheadOfLead
<1>3. \A h \in Heads[s] : /\ h \in Step /\ h \in Inside(s) /\ h \in Leads(s)
                          /\ Ahead[h] \subseteq Ahead[s]
  <2> TAKE h \in Heads[s]
  <2>1. h \in Leads(s)
    BY DEF Leads
  <2> QED
    BY <1>1, <2>1, AheadOfLead, AheadTyped DEF Inside
<1>4. Inside(s) \subseteq Ahead[s] /\ Inside(s) \cap Ahead[After[s]] = {}
  BY <1>1, <1>3 DEF Inside, PathsApart
<1>5. \A h \in Heads[s] : Reach(j, h) = Ahead[h]
  BY <1>1 DEF Reach, Item
<1>6. \A x \in Item(i) \ {s} : Reach(j, x) = Reach(i, x)
  BY DEF Reach
<1>7. Reach(j, s) = Ahead[After[s]] /\ Reach(i, s) = Ahead[s]
  BY <1>1 DEF Reach
<1>8. \A x \in Item(i) \ {s} : Reach(i, x) \cap Ahead[s] = {}
  BY DEF Item, Reach, Apart
<1>9. \A x \in Item(i) : Above(i, x) # s
  BY <1>1, NothingUnder DEF Nesting
<1>10. Owned(j)
  <2> SUFFICES ASSUME NEW x \in Item(j), Above(j, x) # Nil
               PROVE  Above(j, x) \in Open(j) /\ x \in Inside(Above(j, x))
    BY DEF Owned
  <2>1. CASE x \in Heads[s]
    BY <1>3, <2>1
  <2>2. CASE x \in Item(i)
    BY <2>2 DEF Nesting, Owned
  <2> QED
    BY <2>1, <2>2
<1>11. Counted(j)
  <2> SUFFICES ASSUME NEW b \in Open(j)
               PROVE  j.barriers[b].arrived + Cardinality(Under(j, b)) = Cardinality(Heads[b])
    BY DEF Counted
  <2>1. CASE b = s
    <3>1. Under(j, s) = Heads[s]
      BY <1>9 DEF Under
    <3>2. Cardinality(Heads[s]) \in Nat
      BY <3>1, ItemTyped, FS_CardinalityType
    <3> QED
      BY <2>1, <3>1, <3>2
  <2>2. CASE b # s
    <3>1. Under(j, b) = Under(i, b)
      BY <2>2 DEF Under
    <3> QED
      BY <2>2, <3>1 DEF Nesting, Counted
  <2> QED
    BY <2>1, <2>2
<1>12. Sorted(j)
  <2> SUFFICES ASSUME NEW b \in Step, NEW x \in Item(j), Kind[b] = "parallel", Says(j, b, "succeeded")
               PROVE  \/ Reach(j, x) \cap Inside(b) = {}
                      \/ x \in Inside(b) /\ (Above(j, x) = b \/ Above(j, x) \in Inside(b))
    BY DEF Sorted
  <2>1. CASE b = s
    <3>1. CASE x \in Heads[s]
      BY <1>3, <2>1, <3>1
    <3>2. CASE x = s
      BY <1>4, <1>7, <2>1, <3>2
    <3>3. CASE x \in Item(i) \ {s}
      BY <1>4, <1>6, <1>8, <2>1, <3>3
    <3> QED
      BY <3>1, <3>2, <3>3
  <2>2. CASE b # s
    <3>1. \A y \in Item(i) : \/ Reach(i, y) \cap Inside(b) = {}
                             \/ y \in Inside(b) /\ (Above(i, y) = b \/ Above(i, y) \in Inside(b))
      BY <2>2 DEF Nesting, Sorted
    <3>2. CASE x \in Heads[s]
      <4>1. CASE Ahead[s] \cap Inside(b) = {}
        BY <1>3, <1>5, <3>2, <4>1
      <4>2. CASE s \in Inside(b)
        <5>1. x \in Inside(b)
          BY <1>3, <3>2, <4>2, InsideClosed
        <5> QED
          BY <3>2, <4>2, <5>1
      <4> QED
        BY <1>1, <1>7, <3>1, <4>1, <4>2
    <3>3. CASE x = s
      BY <1>1, <1>2, <1>7, <3>1, <3>3
    <3>4. CASE x \in Item(i) \ {s}
      BY <1>6, <3>1, <3>4
    <3> QED
      BY <3>2, <3>3, <3>4
  <2> QED
    BY <2>1, <2>2
<1> QED
  BY <1>10, <1>11, <1>12 DEF Nesting

-----------------------------------------------------------------------------
(* What completed does not complete again.                                  *)

Unrepeated(i) ==
  \A m, n \in DOMAIN i.history :
    i.history[m].outcome = "succeeded" /\ i.history[n] = i.history[m] => m = n

LEMMA UnrepeatedAppended ==
  ASSUME NEW i \in Instance, Unrepeated(i), NEW s \in Step, NEW outcome \in Outcome, NEW j,
         j.history = Append(i.history, [step |-> s, outcome |-> outcome]),
         outcome = "succeeded" => ~Says(i, s, "succeeded")
  PROVE  Unrepeated(j)
<1> DEFINE Entry == [step : Step, outcome : Outcome]
           entry == [step |-> s, outcome |-> outcome]
           h == i.history
           g == j.history
<1>1. h \in Seq(Entry) /\ entry \in Entry /\ g = Append(h, entry)
  BY DEF Instance
<1>2. \A n \in DOMAIN h : h[n].outcome = "succeeded" => h[n] # entry
  <2>1. ASSUME NEW n \in DOMAIN h, h[n].outcome = "succeeded", h[n] = entry PROVE FALSE
    <3>1. outcome = "succeeded"
      BY <2>1
    <3> QED
      BY <2>1, <3>1 DEF Says
  <2> QED
    BY <2>1
<1>3. \A m, n \in DOMAIN h : h[m].outcome = "succeeded" /\ h[n] = h[m] => m = n
  BY DEF Unrepeated
<1>4. \A m, n \in DOMAIN g : g[m].outcome = "succeeded" /\ g[n] = g[m] => m = n
  <2> HIDE DEF Entry, entry, h, g
  <2>1. /\ Len(h) \in Nat
        /\ DOMAIN h = 1..Len(h)
        /\ DOMAIN g = 1..(Len(h) + 1)
        /\ \A n \in 1..Len(h) : g[n] = h[n]
        /\ g[Len(h) + 1] = entry
    BY <1>1
  <2>2. 1..(Len(h) + 1) = (1..Len(h)) \cup {Len(h) + 1}
    BY <2>1
  <2>3. \A n \in 1..Len(h) : g[n].outcome = "succeeded" => g[n] # entry
    BY <1>2, <2>1
  <2>4. \A m, n \in 1..Len(h) : g[m].outcome = "succeeded" /\ g[n] = g[m] => m = n
    BY <1>3, <2>1
  <2> QED
    BY <2>1, <2>2, <2>3, <2>4
<1> QED
  BY <1>4 DEF Unrepeated

LEMMA SettledHistory ==
  ASSUME NEW i \in Instance, NEW s \in Step, NEW verdict \in {"failed", "denied"}
  PROVE  Settle(i, s, verdict).history = Append(i.history, [step |-> s, outcome |-> verdict])
<1> DEFINE logged == AppendHistory(WithoutToken(i, s), s, verdict)
           noted == [logged EXCEPT !.verdict = verdict]
<1>0. verdict \in Outcome
  BY DEF Outcome
<1>1. logged \in Instance /\ logged.history = Append(i.history, [step |-> s, outcome |-> verdict])
  BY <1>0, StepNoted
<1>2. Settle(i, s, verdict) \in {[ClearPaths(noted) EXCEPT !.queue = {}], BeginUnwind(noted)}
  BY DEF Settle
<1> HIDE DEF logged
<1>3. noted \in Instance /\ noted.history = logged.history
  BY <1>1 DEF Instance
<1> HIDE DEF noted
<1>4. ClearPaths(noted) \in Instance /\ ClearPaths(noted).history = noted.history
  BY <1>3, ClearPathsTyped, HistoryKept
<1>5. [ClearPaths(noted) EXCEPT !.queue = {}].history = ClearPaths(noted).history
  BY <1>4, HistoryKept
<1>6. BeginUnwind(noted).history = noted.history
  BY <1>3, HistoryKept
<1> QED
  BY <1>1, <1>2, <1>3, <1>4, <1>5, <1>6

LEMMA UndoneHistory ==
  ASSUME NEW i \in Instance, NEW s \in Step, Kind[s] = "compensation", Unrepeated(i),
         ~Says(i, s, "succeeded")
  PROVE  Unrepeated(CompleteCompensation(i, s))
<1> DEFINE f == ForwardOf(s)
           done == AppendHistory(WithoutToken(i, s), s, "succeeded")
           undone == AppendHistory(done, f, "compensated")
           next == [undone EXCEPT !.queue = undone.queue \ {s}]
<1>1. f \in Step
  BY ForwardOfTyped
<1>2. /\ done \in Instance
      /\ done.history = Append(i.history, [step |-> s, outcome |-> "succeeded"])
  BY StepNoted DEF Outcome
<1>3. CompleteCompensation(i, s) = NextInQueue(next)
  BY DEF CompleteCompensation
<1> HIDE DEF done, f
<1>4. /\ undone \in Instance
      /\ undone.history = Append(done.history, [step |-> f, outcome |-> "compensated"])
  <2>1. undone \in Instance
    BY <1>1, <1>2, AppendHistoryTyped DEF Outcome
  <2> QED
    BY <1>2, <2>1 DEF AppendHistory, Instance
<1> HIDE DEF undone
<1>5. next \in Instance /\ next.history = undone.history
  BY <1>4 DEF Instance
<1> HIDE DEF next
<1>6. CompleteCompensation(i, s).history = undone.history
  BY <1>3, <1>5, HistoryKept
<1>7. Unrepeated(done)
  BY <1>2, UnrepeatedAppended DEF Outcome
<1>8. Unrepeated(undone)
  BY <1>1, <1>2, <1>4, <1>7, UnrepeatedAppended DEF Outcome
<1> QED
  BY <1>6, <1>8 DEF Unrepeated

\* The steps that completed are neither live nor still to come.
LEMMA DoneKept ==
  ASSUME NEW i, Done(i), NEW j, Progress(i, j), Unrepeated(j),
         \A t \in Step, said \in {"succeeded", "compensated"} : Says(j, t, said) <=> Says(i, t, said)
  PROVE  Done(j)
<1>1. \A e \in Step : Says(j, e, "succeeded") /\ Kind[e] # "compensation" => e \notin Paths(j) \cup Coming(j)
  BY DEF Done, Progress
<1>2. \A u \in Step : Says(j, u, "succeeded") /\ Kind[u] = "compensation" => Says(j, ForwardOf(u), "compensated")
  BY ForwardOfTyped DEF Done
<1> QED
  BY <1>1, <1>2 DEF Done, Unrepeated

LEMMA DoneAdvanced ==
  ASSUME NEW i \in Instance, Apart(i), Done(i), NEW s \in Paths(i), NEW j, Progress(i, j), s \notin Paths(j),
         j.history = Append(i.history, [step |-> s, outcome |-> "succeeded"]),
         \A t, said : Says(j, t, said) <=> Says(i, t, said) \/ (t = s /\ said = "succeeded")
  PROVE  Done(j)
<1>1. s \in Step /\ Kind[s] # "compensation"
  BY DEF Paths, Live
<1>2. s \notin Coming(i)
  BY PathNotComing
<1>3. \A e \in Step : Says(j, e, "succeeded") /\ Kind[e] # "compensation" => e \notin Paths(j) \cup Coming(j)
  BY <1>2 DEF Done, Progress
<1>4. \A u \in Step : Says(j, u, "succeeded") /\ Kind[u] = "compensation" => Says(j, ForwardOf(u), "compensated")
  BY <1>1 DEF Done
<1>5. ~Says(i, s, "succeeded")
  BY <1>1 DEF Done
<1>6. Unrepeated(i)
  BY DEF Done, Unrepeated
<1>7. Unrepeated(j)
  BY <1>1, <1>5, <1>6, UnrepeatedAppended DEF Outcome
<1> QED
  BY <1>3, <1>4, <1>7 DEF Done, Unrepeated

\* A compensation that is live has not completed: it would be marked, and not queued.
LEMMA UnwindPending ==
  ASSUME NEW i \in Instance, Undoing(i), Done(i), NEW s \in Live(i), Kind[s] = "compensation"
  PROVE  s \in Step /\ ~Says(i, s, "succeeded")
<1>1. s \in Step /\ i.queue # {} /\ s = HeadOf(i) /\ i.queue = CompensationQueue(i)
  BY DEF Live, Undoing
<1>2. \A u \in i.queue : Kind[u] = "compensation" /\ Says(i, ForwardOf(u), "succeeded")
  BY <1>1, Queued
<1>3. s \in CompensationQueue(i)
  BY <1>1, <1>2, HeadExists
<1>4. ~Says(i, ForwardOf(s), "compensated")
  BY <1>3, Queued
<1> QED
  BY <1>1, <1>4 DEF Done

LEMMA DoneUndone ==
  ASSUME NEW i \in Instance, Undoing(i), Done(i), NEW s \in Live(i), Kind[s] = "compensation",
         NEW j, j = CompleteCompensation(i, s), Progress(i, j)
  PROVE  Done(j)
<1>1. s \in Step /\ ~Says(i, s, "succeeded")
  BY UnwindPending
<1>2. Undid(i, s, j)
  BY <1>1, Undoes
<1>3. Unrepeated(j)
  BY <1>1, UndoneHistory DEF Done, Unrepeated
<1>4. \A e \in Step : Says(j, e, "succeeded") /\ Kind[e] # "compensation" => e \notin Paths(j) \cup Coming(j)
  BY <1>2 DEF Undid, Done, Progress
<1>5. \A u \in Step : Says(j, u, "succeeded") /\ Kind[u] = "compensation" => Says(j, ForwardOf(u), "compensated")
  BY <1>2 DEF Undid, Done
<1> QED
  BY <1>3, <1>4, <1>5 DEF Done, Unrepeated

\* Where a path stands among the items.
LEMMA PathItem ==
  ASSUME NEW i, Undoing(i), Apart(i), Owned(i), NEW s \in Paths(i)
  PROVE  /\ s \in Step /\ s \in Item(i) /\ s \notin Open(i)
         /\ Above(i, s) = i.tokens[s].barrier /\ Reach(i, s) = Ahead[s]
         /\ \A x \in Item(i) : Above(i, x) # s
<1>1. s \in Step /\ s \in Item(i) /\ s \notin Open(i)
  BY PathNotOpen DEF Paths, Live, Item
<1> QED
  BY <1>1, NothingUnder DEF Above, Reach

LEMMA NestingProceeds ==
  ASSUME NEW i \in Instance, Undoing(i), Apart(i), Nesting(i), NEW s \in Paths(i), NEW next \in Leads(s), NEW j,
         j.tokens = [[i.tokens EXCEPT ![s] = NoToken] EXCEPT ![next] = Fresh(i.tokens[s].barrier)],
         j.barriers = i.barriers,
         \A c \in Step : Kind[c] = "parallel" /\ Says(j, c, "succeeded") => Says(i, c, "succeeded")
  PROVE  Nesting(j)
<1>1. /\ s \in Step /\ s \in Item(i) /\ s \notin Open(i)
      /\ Above(i, s) = i.tokens[s].barrier /\ Reach(i, s) = Ahead[s]
      /\ \A x \in Item(i) : Above(i, x) # s
  BY PathItem DEF Nesting
<1>2. Kind[s] # "compensation"
  BY DEF Paths
<1>3. /\ next \in Step /\ next # s /\ Kind[next] # "compensation" /\ next \in Ahead[next]
      /\ Ahead[next] \subseteq Ahead[s]
  BY <1>1, <1>2, AheadOfLead, AheadTyped, LeadsForward
<1>4. next \notin Paths(i)
  BY <1>3, AheadTyped DEF Apart
<1>5. next \notin Open(i)
  <2>1. ASSUME next \in Open(i) PROVE FALSE
    <3>1. After[next] \in Step /\ Ahead[After[next]] \subseteq Ahead[next]
      BY <2>1, JoinOf
    <3>2. After[next] \in Ahead[After[next]]
      BY <3>1, AheadTyped
    <3> QED
      BY <1>3, <2>1, <3>1, <3>2 DEF Apart
  <2> QED
    BY <2>1
<1>6. next \in Step \ Item(i)
  BY <1>3, <1>4, <1>5 DEF Item
<1>7. Open(j) = Open(i) \ {s}
  BY <1>1 DEF Open
<1>8. Paths(j) = (Paths(i) \ {s}) \cup {next} /\ j.tokens[next] = Fresh(i.tokens[s].barrier)
  BY <1>1, <1>3, FreshIsToken DEF Paths, Live, Instance
<1>9. Item(j) = (Item(i) \ {s}) \cup {next}
  BY <1>1, <1>7, <1>8 DEF Item
<1>10. \A x \in Item(i) \ {s} : Above(j, x) = Above(i, x)
  <2> TAKE x \in Item(i) \ {s}
  <2>1. x \in Step /\ x # next
    BY <1>6, ItemTyped
  <2>2. j.tokens[x] = i.tokens[x]
    BY <1>1, <1>3, <2>1 DEF Instance
  <2> QED
    BY <1>1, <1>7, <2>2 DEF Above
<1>11. Above(j, next) = Above(i, s)
  BY <1>1, <1>5, <1>7, <1>8 DEF Above, Fresh
<1>12. Reach(j, next) \subseteq Reach(i, s)
  BY <1>1, <1>3, <1>5, <1>7 DEF Reach
<1>13. \A c \in Step : Kind[c] = "parallel" /\ s \in Inside(c) => next \in Inside(c)
  BY InsideClosed
<1> QED
  BY <1>1, <1>6, <1>7, <1>9, <1>10, <1>11, <1>12, <1>13, ItemReplaced

\* A path ends; the fan-out it was on, if any, counts one more.
LEMMA NestingEnds ==
  ASSUME NEW i \in Instance, Undoing(i), Apart(i), Nesting(i), NEW s \in Paths(i), NEW j,
         j.tokens = [i.tokens EXCEPT ![s] = NoToken], Open(j) = Open(i),
         \A c \in Open(i) : /\ j.barriers[c].parent = i.barriers[c].parent
                            /\ j.barriers[c].arrived = i.barriers[c].arrived
                                                         + (IF c = i.tokens[s].barrier THEN 1 ELSE 0),
         \A c \in Step : Kind[c] = "parallel" /\ Says(j, c, "succeeded") => Says(i, c, "succeeded")
  PROVE  Nesting(j)
<1>1. /\ s \in Step /\ s \in Item(i) /\ s \notin Open(i)
      /\ Above(i, s) = i.tokens[s].barrier
  BY PathItem DEF Nesting
<1>2. Paths(j) = Paths(i) \ {s}
  BY <1>1 DEF Paths, Live, Instance
<1>3. Item(j) = Item(i) \ {s}
  BY <1>1, <1>2 DEF Item
<1>4. \A x \in Item(j) : Above(j, x) = Above(i, x)
  <2> TAKE x \in Item(j)
  <2>1. x \in Step /\ x # s
    BY <1>3, ItemTyped
  <2>2. j.tokens[x] = i.tokens[x]
    BY <1>1, <2>1 DEF Instance
  <2> QED
    BY <2>2 DEF Above
<1>5. \A c \in Open(i) : i.barriers[c].arrived \in Nat
  BY DEF Open, Instance, Barrier
<1> QED
  BY <1>1, <1>3, <1>4, <1>5, ItemEnded

\* The join of a fan-out with no path left starts.
LEMMA NestingJoins ==
  ASSUME NEW i \in Instance, Undoing(i), Apart(i), Nesting(i), NEW b \in Open(i),
         ~(i.barriers[b].arrived < Cardinality(Heads[b])), NEW j,
         j.tokens = [i.tokens EXCEPT ![After[b]] = Fresh(i.barriers[b].parent)],
         j.barriers = [i.barriers EXCEPT ![b] = NoBarrier],
         \A c \in Step : Says(j, c, "succeeded") <=> Says(i, c, "succeeded")
  PROVE  Nesting(j)
<1> DEFINE z == After[b]
<1>1. /\ b \in Step /\ Kind[b] = "parallel" /\ z \in Leads(b) /\ z \in Step /\ z # b
      /\ Kind[z] # "compensation" /\ z \in Ahead[z] /\ Ahead[z] \subseteq Ahead[b]
  BY JoinOf, AheadTyped, AheadOfLead
<1>2. z \notin Paths(i)
  BY <1>1 DEF Apart
<1>3. z \notin Open(i)
  <2>1. ASSUME z \in Open(i) PROVE FALSE
    <3>1. After[z] \in Step /\ Ahead[After[z]] \subseteq Ahead[z]
      BY <2>1, JoinOf
    <3>2. After[z] \in Ahead[After[z]]
      BY <3>1, AheadTyped
    <3> QED
      BY <1>1, <2>1, <3>1, <3>2 DEF Apart
  <2> QED
    BY <2>1
<1>4. z \in Step \ Item(i) /\ b \in Item(i)
  BY <1>1, <1>2, <1>3 DEF Item
<1>5. \A x \in Item(i) : Above(i, x) # b
  <2>1. i.barriers[b].arrived + Cardinality(Under(i, b)) = Cardinality(Heads[b])
    BY DEF Nesting, Counted
  <2>2. Cardinality(Under(i, b)) \in Nat /\ i.barriers[b].arrived \in Nat
    <3>1. Cardinality(Under(i, b)) \in Nat
      BY ItemTyped, FS_CardinalityType
    <3> QED
      BY <3>1 DEF Open, Instance, Barrier
  <2>3. Heads[b] \in SUBSET Step
    BY <1>1, DefinitionAssumption
  <2>4. Cardinality(Heads[b]) \in Nat
    BY <2>3, FS_Subset, FS_CardinalityType, DefinitionAssumption
  <2>5. Cardinality(Under(i, b)) = 0
    BY <2>1, <2>2, <2>4
  <2>6. Under(i, b) = {}
    BY <2>5, ItemTyped, FS_EmptySet
  <2> QED
    BY <2>6 DEF Under
<1>6. Open(j) = Open(i) \ {b}
  BY <1>1 DEF Open, Instance
<1>7. Paths(j) = Paths(i) \cup {z} /\ j.tokens[z] = Fresh(i.barriers[b].parent)
  BY <1>1, FreshIsToken DEF Paths, Live, Instance
<1>8. b \notin Paths(i)
  BY PathNotOpen
<1>9. Item(j) = (Item(i) \ {b}) \cup {z}
  BY <1>6, <1>7, <1>8 DEF Item
<1>10. \A x \in Item(i) \ {b} : Above(j, x) = Above(i, x)
  <2> TAKE x \in Item(i) \ {b}
  <2>1. x \in Step /\ x # z
    BY <1>4, ItemTyped
  <2>2. j.tokens[x] = i.tokens[x] /\ j.barriers[x] = i.barriers[x]
    BY <1>1, <2>1 DEF Instance
  <2> QED
    BY <1>6, <2>2 DEF Above
<1>11. Above(j, z) = Above(i, b) /\ Reach(j, z) = Reach(i, b)
  BY <1>3, <1>6, <1>7 DEF Above, Reach, Fresh
<1>12. \A c \in Open(j) : j.barriers[c].arrived = i.barriers[c].arrived
  BY <1>1, <1>6 DEF Open, Instance
<1>13. \A c \in Step : Kind[c] = "parallel" /\ b \in Inside(c) => z \in Inside(c)
  BY <1>1, InsideClosed
<1> QED
  BY <1>4, <1>5, <1>6, <1>9, <1>10, <1>11, <1>12, <1>13, ItemReplaced

LEMMA NestingAdvanced ==
  ASSUME NEW i \in Instance, Undoing(i), Apart(i), Nesting(i), NEW s \in Paths(i), NEW next \in Onward(s),
         Kind[s] # "parallel", NEW j, AdvancedTo(i, s, next, i.tokens[s].barrier, j),
         \A c \in Step : Says(j, c, "succeeded") <=> Says(i, c, "succeeded") \/ c = s
  PROVE  Nesting(j)
<1> DEFINE b == i.tokens[s].barrier
           tokens == [i.tokens EXCEPT ![s] = NoToken]
<1>1. /\ s \in Step /\ s \in Item(i) /\ s \notin Open(i) /\ Above(i, s) = b
  BY PathItem DEF Nesting
<1>2. \A c \in Step : Kind[c] = "parallel" /\ Says(j, c, "succeeded") => Says(i, c, "succeeded")
  OBVIOUS
<1>3. CASE next # Nil
  <2>1. next \in Leads(s)
    BY <1>3 DEF Onward
  <2>2. j.tokens = [tokens EXCEPT ![next] = Fresh(b)] /\ j.barriers = i.barriers
    BY <1>3 DEF AdvancedTo
  <2> QED
    BY <1>2, <2>1, <2>2, NestingProceeds
<1>4. CASE next = Nil /\ b \notin Open(i)
  <2>1. j.tokens = tokens /\ j.barriers = i.barriers
    BY <1>4 DEF AdvancedTo
  <2>2. Open(j) = Open(i)
    BY <2>1 DEF Open
  <2>3. \A c \in Open(i) : i.barriers[c].arrived = i.barriers[c].arrived + 0 /\ c # b
    BY <1>4 DEF Open, Instance, Barrier
  <2> QED
    BY <1>2, <2>1, <2>2, <2>3, NestingEnds
<1>5. CASE next = Nil /\ b \in Open(i)
  <2> DEFINE more == [i.barriers[b] EXCEPT !.arrived = i.barriers[b].arrived + 1]
             barriers == [i.barriers EXCEPT ![b] = more]
             k == [i EXCEPT !.tokens = tokens, !.barriers = barriers, !.history = j.history]
  <2>1. i.barriers[b] \in Barrier /\ b \in Step
    BY <1>5 DEF Open, Instance
  <2>2. /\ more \in Barrier /\ more.arrived = i.barriers[b].arrived + 1
        /\ more.parent = i.barriers[b].parent
    BY <2>1 DEF Barrier
  <2>3. more # NoBarrier
    BY <2>2 DEF NoBarrier, Barrier
  <2> HIDE DEF more
  <2>4. /\ barriers \in [Step -> Barrier \cup {NoBarrier}] /\ barriers[b] = more
        /\ \A c \in Step \ {b} : barriers[c] = i.barriers[c]
    BY <2>1, <2>2 DEF Instance
  <2>5. tokens \in [Step -> Token \cup {NoToken}]
    BY DEF Instance
  <2>6. j.history \in Seq([step : Step, outcome : Outcome])
    <3> DEFINE Entry == [step : Step, outcome : Outcome]
               entry == [step |-> s, outcome |-> "succeeded"]
    <3>1. entry \in Entry
      BY <1>1 DEF Outcome
    <3>2. i.history \in Seq(Entry)
      BY DEF Instance
    <3>3. j.history = Append(i.history, entry)
      BY DEF AdvancedTo
    <3> HIDE DEF Entry, entry
    <3>4. j.history \in Seq(Entry)
      BY <3>1, <3>2, <3>3
    <3> QED
      BY <3>4 DEF Entry
  <2> DEFINE bs == barriers
  <2>7. /\ k \in Instance /\ k.tokens = tokens /\ k.barriers = bs /\ k.history = j.history
        /\ k.queue = i.queue
    <3> HIDE DEF tokens, barriers
    <3> QED
      BY <2>4, <2>5, <2>6 DEF Instance
  <2> HIDE DEF k
  <2>8. Open(k) = Open(i)
    BY <1>5, <2>3, <2>4, <2>7 DEF Open
  <2>9. \A c \in Step : \A said : Says(k, c, said) <=> Says(j, c, said)
    BY <2>7 DEF Says
  <2>10. \A c \in Open(i) : /\ k.barriers[c].parent = i.barriers[c].parent
                            /\ k.barriers[c].arrived = i.barriers[c].arrived + (IF c = b THEN 1 ELSE 0)
    <3> TAKE c \in Open(i)
    <3>1. CASE c = b
      BY <2>2, <2>4, <2>7, <3>1
    <3>2. CASE c # b
      <4>1. k.barriers[c] = i.barriers[c] /\ i.barriers[c].arrived \in Nat
        BY <2>4, <2>7, <3>2 DEF Open, Instance, Barrier
      <4> QED
        BY <3>2, <4>1
    <3> QED
      BY <3>1, <3>2
  <2>11. Nesting(k)
    BY <1>2, <2>7, <2>8, <2>9, <2>10, NestingEnds
  <2>12. CASE i.barriers[b].arrived + 1 < Cardinality(Heads[b])
    <3>1. j.tokens = k.tokens /\ j.barriers = k.barriers
      BY <1>5, <2>7, <2>12 DEF AdvancedTo, more
    <3>2. Open(j) = Open(k) /\ Paths(j) = Paths(k) /\ Item(j) = Item(k)
      BY <3>1 DEF Open, Paths, Live, Item
    <3>3. \A x : Above(j, x) = Above(k, x)
      BY <3>1, <3>2 DEF Above
    <3> QED
      BY <2>9, <2>11, <3>1, <3>2, <3>3, NestingKept
  <2>13. CASE ~(i.barriers[b].arrived + 1 < Cardinality(Heads[b]))
    <3>1. /\ j.tokens = [k.tokens EXCEPT ![After[b]] = Fresh(k.barriers[b].parent)]
          /\ j.barriers = [k.barriers EXCEPT ![b] = NoBarrier]
      <4>1. [bs EXCEPT ![b] = NoBarrier] = [i.barriers EXCEPT ![b] = NoBarrier]
        BY <2>1 DEF Instance
      <4>2. /\ j.tokens = [tokens EXCEPT ![After[b]] = Fresh(i.barriers[b].parent)]
            /\ j.barriers = [i.barriers EXCEPT ![b] = NoBarrier]
        BY <1>5, <2>13 DEF AdvancedTo
      <4>3. k.barriers[b].parent = i.barriers[b].parent
        BY <2>2, <2>4, <2>7
      <4>4. k.tokens = tokens /\ k.barriers = bs
        BY <2>7
      <4> HIDE DEF tokens, barriers, bs
      <4> QED
        BY <4>1, <4>2, <4>3, <4>4
    <3>2. Apart(k)
      <4>1. k.tokens = tokens
        BY <2>7
      <4>2. Progress(i, k)
        BY <1>1, <2>8, <4>1, PathEnds
      <4> QED
        BY <4>2 DEF Progress
    <3>3. Undoing(k)
      <4>1. \A u \in Live(k) : u \in Live(i)
        BY <2>7 DEF Live, Instance
      <4>2. Paths(i) # {}
        OBVIOUS
      <4>3. \A c \in Step : Says(k, c, "compensated") => Says(i, c, "compensated")
        <5>1. j.history = Append(i.history, [step |-> s, outcome |-> "succeeded"])
          BY DEF AdvancedTo
        <5>2. AppendHistory(i, s, "succeeded").history = k.history
          BY <2>7, <5>1 DEF AppendHistory, Instance
        <5>3. \A c \in Step : Says(AppendHistory(i, s, "succeeded"), c, "compensated") => Says(i, c, "compensated")
          BY <1>1, SaysAppended DEF Outcome
        <5> QED
          BY <5>2, <5>3 DEF Says
      <4> QED
        BY <2>7, <2>8, <4>1, <4>2, <4>3, UndoingQuiet DEF Undoing
    <3>4. ~(k.barriers[b].arrived < Cardinality(Heads[b])) /\ b \in Open(k)
      BY <1>5, <2>2, <2>4, <2>7, <2>8, <2>13
    <3> QED
      BY <2>7, <2>9, <2>11, <3>1, <3>2, <3>3, <3>4, NestingJoins
  <2> QED
    BY <2>12, <2>13
<1> QED
  BY <1>3, <1>4, <1>5

LEMMA NestingFannedOut ==
  ASSUME PathsApart, NEW i \in Instance, Undoing(i), Apart(i), Nesting(i), NEW s \in Paths(i),
         Kind[s] = "parallel", NEW j, FannedOut(i, s, j),
         \A c \in Step : Says(j, c, "succeeded") <=> Says(i, c, "succeeded") \/ c = s
  PROVE  Nesting(j)
<1> DEFINE barrier == [arrived |-> 0, parent |-> i.tokens[s].barrier]
<1>1. /\ s \in Step /\ s \in Item(i) /\ s \notin Open(i)
      /\ Above(i, s) = i.tokens[s].barrier
  BY PathItem DEF Nesting
<1>2. \A h \in Heads[s] : h \in Step /\ h \in Ahead[h] /\ h \in Ahead[s] /\ h # s /\ Kind[h] # "compensation"
                          /\ Ahead[h] \subseteq Ahead[s]
  <2> TAKE h \in Heads[s]
  <2>1. h \in Leads(s) /\ Kind[s] # "compensation"
    BY DEF Leads
  <2> QED
    BY <1>1, <2>1, AheadOfLead, AheadTyped, LeadsForward
<1>3. /\ \A t \in Step : j.tokens[t] = (IF t \in Heads[s] THEN Fresh(s)
                                        ELSE IF t = s THEN NoToken ELSE i.tokens[t])
      /\ j.barriers = [i.barriers EXCEPT ![s] = barrier]
  BY DEF FannedOut
<1>4. j.barriers[s] = barrier /\ \A c \in Step \ {s} : j.barriers[c] = i.barriers[c]
  BY <1>1, <1>3 DEF Instance
<1>5. Open(j) = Open(i) \cup {s}
  <2>1. barrier # NoBarrier
    BY DEF NoBarrier
  <2> QED
    BY <1>1, <1>4, <2>1 DEF Open
<1>6. Paths(j) = (Paths(i) \ {s}) \cup Heads[s]
  BY <1>1, <1>2, <1>3, FreshIsToken DEF Paths, Live
<1>7. Item(j) = Item(i) \cup Heads[s]
  BY <1>1, <1>5, <1>6 DEF Item
<1>8. Heads[s] \cap Item(i) = {}
  <2>1. \A h \in Heads[s] : h \notin Paths(i)
    BY <1>2 DEF Apart
  <2>2. ASSUME NEW h \in Heads[s], h \in Open(i) PROVE FALSE
    <3>1. After[h] \in Step /\ Ahead[After[h]] \subseteq Ahead[h]
      BY <2>2, JoinOf
    <3>2. After[h] \in Ahead[After[h]]
      BY <3>1, AheadTyped
    <3> QED
      BY <1>2, <2>2, <3>1, <3>2 DEF Apart
  <2> QED
    BY <2>1, <2>2 DEF Item
<1>9. \A x \in Item(i) : Above(j, x) = Above(i, x)
  <2> TAKE x \in Item(i)
  <2>1. x \in Step /\ x \notin Heads[s]
    BY <1>8, ItemTyped
  <2>2. CASE x = s
    BY <1>1, <1>4, <1>5, <2>2 DEF Above
  <2>3. CASE x # s
    <3>1. j.tokens[x] = i.tokens[x] /\ j.barriers[x] = i.barriers[x]
      BY <1>3, <1>4, <2>1, <2>3
    <3> QED
      BY <1>5, <2>3, <3>1 DEF Above
  <2> QED
    BY <2>2, <2>3
<1>10. \A h \in Heads[s] : Above(j, h) = s
  BY <1>2, <1>3, <1>5, <1>8 DEF Above, Item, Fresh
<1>11. \A c \in Open(i) : j.barriers[c].arrived = i.barriers[c].arrived
  BY <1>1, <1>4 DEF Open
<1>12. j.barriers[s].arrived = 0
  BY <1>4
<1> QED
  BY <1>5, <1>7, <1>8, <1>9, <1>10, <1>11, <1>12, ItemFanned

\* With no path and no join under way nothing is nested.
LEMMA NestingOver ==
  ASSUME NEW j, Paths(j) = {}, Open(j) = {}
  PROVE  Nesting(j)
BY DEF Nesting, Owned, Counted, Sorted, Item

LEMMA NestingUndone ==
  ASSUME NEW i, Undoing(i), Nesting(i), NEW s \in Live(i), Kind[s] = "compensation", NEW j,
         Undid(i, s, j), Paths(j) = {}
  PROVE  Nesting(j)
<1>1. Paths(i) = {}
  BY DEF Undoing
<1>2. Open(j) = Open(i) /\ j.barriers = i.barriers
  BY DEF Undid, Open
<1>3. Item(j) = Item(i) /\ \A x \in Item(i) : Above(j, x) = Above(i, x)
  BY <1>1, <1>2 DEF Item, Above
<1>4. \A b \in Step : Kind[b] = "parallel" /\ Says(j, b, "succeeded") => Says(i, b, "succeeded")
  BY DEF Undid
<1> QED
  BY <1>2, <1>3, <1>4, NestingKept

LEMMA NestingHeld ==
  ASSUME NEW i \in Instance, Nesting(i), NEW s \in Live(i), NEW token \in Token,
         token.barrier = i.tokens[s].barrier, NEW j, j = WithToken(i, s, token)
  PROVE  Nesting(j)
<1>1. /\ Paths(j) = Paths(i) /\ Open(j) = Open(i) /\ j.history = i.history /\ j.barriers = i.barriers
      /\ s \in Step /\ j.tokens = [i.tokens EXCEPT ![s] = token]
  BY Held
<1>2. \A x \in Step : j.tokens[x].barrier = i.tokens[x].barrier
  BY <1>1 DEF Instance
<1>3. Item(j) = Item(i)
  BY <1>1 DEF Item
<1>4. \A x \in Item(i) : Above(j, x) = Above(i, x)
  BY <1>1, <1>2, ItemTyped DEF Above
<1>5. \A b \in Step : Says(j, b, "succeeded") => Says(i, b, "succeeded")
  BY <1>1 DEF Says
<1> QED
  BY <1>1, <1>3, <1>4, <1>5, NestingKept

LEMMA DoneHeld ==
  ASSUME NEW i \in Instance, Done(i), NEW s \in Live(i), NEW token \in Token,
         NEW j, j = WithToken(i, s, token)
  PROVE  Done(j)
<1>1. /\ Paths(j) = Paths(i) /\ Open(j) = Open(i) /\ j.history = i.history /\ j.barriers = i.barriers
      /\ s \in Step /\ j.tokens = [i.tokens EXCEPT ![s] = token]
  BY Held
<1>2. Coming(j) = Coming(i)
  BY <1>1 DEF Coming
<1> QED
  BY <1>1, <1>2 DEF Done, Says

LEMMA NestedStep ==
  ASSUME PathsApart, TypeOK, Placed, Undoing(inst), Apart(inst), Nested(inst), [Next]_vars
  PROVE  Nested(inst')
<1> DEFINE j == inst'
<1>1. inst \in Instance /\ Nesting(inst) /\ Done(inst)
  BY DEF TypeOK, Nested, Nesting
<1>2. ASSUME NEW s \in Live(inst), NEW next \in Onward(s), Kind[s] \in {"action", "branch"},
             j = AdvanceTo(inst, s, next)
      PROVE  Nested(j)
  <2>1. s \in Paths(inst) /\ Kind[s] # "parallel"
    BY <1>2 DEF Paths
  <2>2. next \in Step \cup {Nil}
    BY LeadsTyped DEF Onward, Live
  <2>3. /\ inst.tokens[s].barrier \in Step \cup {Nil}
        /\ AdvancedTo(inst, s, next, inst.tokens[s].barrier, j)
    BY <1>1, <1>2, <2>2, Advances
  <2>4. \A t, said : Says(j, t, said) <=> Says(inst, t, said) \/ (t = s /\ said = "succeeded")
    BY <1>1, <1>2, <2>2, SaysAdvanced
  <2> HIDE DEF j
  <2>5. Progress(inst, j) /\ s \notin Paths(j)
    BY <1>1, <2>1, <2>3, ProgressAdvanced
  <2>6. Nesting(j)
    BY <1>1, <2>1, <2>3, <2>4, NestingAdvanced
  <2>7. j.history = Append(inst.history, [step |-> s, outcome |-> "succeeded"])
    BY <2>3 DEF AdvancedTo
  <2>8. Done(j)
    BY <1>1, <2>1, <2>4, <2>5, <2>7, DoneAdvanced
  <2> QED
    BY <2>6, <2>8 DEF Nested, Nesting
<1>3. ASSUME NEW s \in Live(inst), Kind[s] = "parallel", j = FanOut(inst, s)
      PROVE  Nested(j)
  <2>1. s \in Paths(inst)
    BY <1>3 DEF Paths
  <2>2. FannedOut(inst, s, j)
    BY <1>1, <1>3, FansOut
  <2>3. \A t, said : Says(j, t, said) <=> Says(inst, t, said) \/ (t = s /\ said = "succeeded")
    BY <1>1, <1>3, SaysFannedOut
  <2> HIDE DEF j
  <2>4. Progress(inst, j) /\ s \notin Paths(j)
    BY <1>1, <1>3, <2>1, <2>2, PathsStart
  <2>5. Nesting(j)
    BY <1>1, <1>3, <2>1, <2>2, <2>3, NestingFannedOut
  <2>6. j.history = Append(inst.history, [step |-> s, outcome |-> "succeeded"])
    BY <2>2 DEF FannedOut
  <2>7. Done(j)
    BY <1>1, <2>1, <2>3, <2>4, <2>6, DoneAdvanced
  <2> QED
    BY <2>5, <2>7 DEF Nested, Nesting
<1>4. ASSUME NEW s \in Live(inst), Kind[s] = "compensation", j = CompleteCompensation(inst, s)
      PROVE  Nested(j)
  <2>1. s \in Step /\ Undid(inst, s, j)
    BY <1>1, <1>4, Undoes DEF Live
  <2>2. Undoing(j)
    BY <1>1, <1>4, <2>1, UndoingUndone
  <2>3. Says(j, ForwardOf(s), "compensated") /\ ForwardOf(s) \in Step
    BY <1>4, <2>1, ForwardOfTyped DEF Undid
  <2>4. Paths(j) = {} /\ Open(j) = Open(inst)
    BY <2>1, <2>2, <2>3 DEF Undoing, Undid, Open
  <2>5. Progress(inst, j)
    BY <2>4, ProgressOver
  <2>6. Nesting(j)
    BY <1>1, <1>4, <2>1, <2>4, NestingUndone
  <2>7. Done(j)
    BY <1>1, <1>4, <2>5, DoneUndone
  <2> QED
    BY <2>6, <2>7 DEF Nested, Nesting
<1>5. ASSUME Dropped(inst, j), Unrepeated(j) PROVE Nested(j)
  <2>1. Undoing(j)
    BY <1>5, UndoingDropped
  <2>2. Paths(j) = {} /\ Open(j) = {}
    BY <1>5, <2>1 DEF Dropped, Undoing, Paths
  <2>3. Progress(inst, j)
    BY <2>2, ProgressOver
  <2>4. \A t \in Step, said \in {"succeeded", "compensated"} : Says(j, t, said) <=> Says(inst, t, said)
    BY <1>5 DEF Dropped
  <2>5. Done(j)
    BY <1>1, <1>5, <2>3, <2>4, DoneKept
  <2> QED
    BY <2>2, <2>5, NestingOver DEF Nested, Nesting
<1>6. Unrepeated(inst)
  BY <1>1 DEF Done, Unrepeated
<1>7. ASSUME NEW s \in Step, NEW verdict \in {"failed", "denied"}, j = Settle(inst, s, verdict)
      PROVE  Nested(j)
  <2>1. Dropped(inst, j)
    BY <1>1, <1>7, SettleDrops
  <2>2. j.history = Append(inst.history, [step |-> s, outcome |-> verdict])
    BY <1>1, <1>7, SettledHistory
  <2>3. verdict \in Outcome /\ verdict # "succeeded"
    BY DEF Outcome
  <2>4. Unrepeated(j)
    BY <1>1, <1>6, <2>2, <2>3, UnrepeatedAppended
  <2> QED
    BY <1>5, <2>1, <2>4
<1>8. ASSUME j = BeginUnwind(Cancelled(inst)) PROVE Nested(j)
  <2>1. Dropped(inst, j)
    BY <1>1, <1>8, CancelDrops
  <2>2. Cancelled(inst) \in Instance /\ Cancelled(inst).history = inst.history
    BY <1>1 DEF Cancelled, Instance
  <2>3. j.history = inst.history
    BY <1>8, <2>2, HistoryKept
  <2> QED
    BY <1>5, <1>6, <2>1, <2>3 DEF Unrepeated
<1>9. ASSUME NEW s \in Live(inst), NEW token \in Token, token.barrier = inst.tokens[s].barrier,
             j = WithToken(inst, s, token)
      PROVE  Nested(j)
  <2>1. Nesting(j)
    BY <1>1, <1>9, NestingHeld
  <2>2. Done(j)
    BY <1>1, <1>9, DoneHeld
  <2> QED
    BY <2>1, <2>2 DEF Nested, Nesting
<1> QED
  BY <1>2, <1>3, <1>4, <1>7, <1>8, <1>9, Moves

LEMMA NestedInit == Init => Nested(inst)
<1> SUFFICES ASSUME Init PROVE Nested(inst)
  OBVIOUS
<1>1. /\ Open(inst) = {} /\ inst.history = <<>> /\ \A t, said : ~Says(inst, t, said)
      /\ inst.tokens = [s \in Step |-> IF s = First THEN Fresh(Nil) ELSE NoToken]
  BY DEF Init, Open, Says
<1>2. \A x \in Item(inst) : Above(inst, x) = Nil
  BY <1>1 DEF Item, Paths, Live, Above, Fresh
<1>3. Owned(inst) /\ Counted(inst) /\ Sorted(inst)
  BY <1>1, <1>2 DEF Owned, Counted, Sorted
<1>4. Done(inst)
  BY <1>1 DEF Done
<1> QED
  BY <1>3, <1>4 DEF Nested

\* Where a definition's paths are apart, once a fan-out has run its join starts after
\* every path has finished, and no step completes twice.
THEOREM JoinRunsOnce ==
  ASSUME PathsApart
  PROVE  Spec => []JoinWaitsForEveryPath
<1>1. Init => Placed /\ Undoing(inst) /\ Apart(inst) /\ Nested(inst)
  BY PlacedInit, UndoingInit, ApartInit, NestedInit
<1>2. TypeOK /\ Placed /\ Undoing(inst) /\ Apart(inst) /\ Nested(inst) /\ [Next]_vars
        => Placed' /\ Undoing(inst)' /\ Apart(inst)' /\ Nested(inst)'
  BY PlacedStep, UndoingStep, ApartStep, NestedStep
<1>3. Undoing(inst) /\ Apart(inst) /\ Nested(inst) => JoinWaitsForEveryPath
  BY NestedJoinWaits
<1> QED
  BY <1>1, <1>2, <1>3, TypeCorrect, PTL DEF Spec
=============================================================================
