----------------------- MODULE ExternalExecutionProofs -----------------------
(***************************************************************************)
(* Theorems about ExternalExecution for every number of commits, parked    *)
(* actions, faults, crashes and stops: its state is of its type, a         *)
(* terminal status is final, and an effect lands at most once.             *)
(***************************************************************************)
EXTENDS ExternalExecution, TLAPS

\* A row moved by the store stays a row.
LEMMA MoveTyped ==
  ASSUME TypeOK, ExecutionAssumption, NEW id \in ParkedId, NEW from \in Status, NEW to \in Status,
         Move(id, from, to)
  PROVE  action' \in [ParkedId -> Row \cup {Absent}]
<1>1. CASE ~CanMove(id, from)
  BY <1>1 DEF Move, TypeOK
<1>2. CASE CanMove(id, from)
  <2>1. action[id] \in Row
    BY <1>2 DEF TypeOK, CanMove, Status, Terminal, Absent
  <2>2. now \in Nat
    BY DEF TypeOK
  <2>3. [action[id] EXCEPT !.status = to,
                           !.committingAt = IF to = "committing" THEN now ELSE @] \in Row
    BY <2>1, <2>2 DEF Row
  <2>4. action' = [action EXCEPT ![id] =
          [action[id] EXCEPT !.status = to,
                             !.committingAt = IF to = "committing" THEN now ELSE @]]
    BY <1>2 DEF Move, TypeOK
  <2> QED
    BY <2>3, <2>4 DEF TypeOK
<1> QED
  BY <1>1, <1>2

\* What a commit's store call writes is of its type.
LEMMA WritesTyped ==
  ASSUME TypeOK, ExecutionAssumption, NEW c \in Commit, commit[c] \in Call, Writes(c)
  PROVE  /\ action' \in [ParkedId -> Row \cup {Absent}]
         /\ authority' \in [ParkedId -> Approval]
         /\ ledger' \in [used : [ParkedId -> Nat \cup {-1}], floor : Nat]
<1> DEFINE id == commit[c].id
<1>1. id \in ParkedId /\ commit[c].seen \in Status
  BY DEF Call
<1>2. action' \in [ParkedId -> Row \cup {Absent}]
  <2>1. CASE commit[c].pc = "void"
    BY <2>1, <1>1, MoveTyped DEF Writes, Status, Terminal
  <2>2. CASE commit[c].pc = "start"
    BY <2>2, <1>1, MoveTyped DEF Writes, Status, Terminal
  <2>3. CASE commit[c].pc = "settle"
    BY <2>3, <1>1, MoveTyped DEF Writes, Status, Terminal
  <2>4. CASE commit[c].pc = "back"
    BY <2>4, <1>1, MoveTyped DEF Writes, Status, Terminal
  <2>5. CASE commit[c].pc = "doubt"
    BY <2>5, <1>1, MoveTyped DEF Writes, Status, Terminal
  <2>6. CASE commit[c].pc \notin {"void", "start", "settle", "back", "doubt"}
    BY <2>6 DEF Writes, TypeOK
  <2> QED
    BY <2>1, <2>2, <2>3, <2>4, <2>5, <2>6
<1>3. authority' \in [ParkedId -> Approval]
  <2>1. [authority[id] EXCEPT !.stage = "spent"] \in Approval
    BY <1>1, SMTT(30) DEF TypeOK, Approval
  <2> QED
    BY <2>1, <1>1 DEF Writes, TypeOK
<1>4. ledger' \in [used : [ParkedId -> Nat \cup {-1}], floor : Nat]
  <2>1. [ledger EXCEPT !.used[id] = now] \in [used : [ParkedId -> Nat \cup {-1}], floor : Nat]
    BY <1>1 DEF TypeOK
  <2> QED
    BY <2>1 DEF Writes, TypeOK
<1> QED
  BY <1>2, <1>3, <1>4

LEMMA GotoTyped ==
  ASSUME TypeOK, NEW c \in Commit, commit[c] \in Call, NEW pc \in At, Goto(c, pc)
  PROVE  commit' \in [Commit -> Call \cup {Fresh}]
<1>1. [commit[c] EXCEPT !.pc = pc] \in Call
  BY DEF Call
<1>2. commit' = [commit EXCEPT ![c] = [commit[c] EXCEPT !.pc = pc]]
  BY DEF Goto, TypeOK
<1> QED
  BY <1>1, <1>2 DEF TypeOK

Answers == {"none", "completed", "already_done", "indeterminate", "denied"}

LEMMA ReplyTyped ==
  ASSUME TypeOK, NEW c \in Commit, commit[c] \in Call, NEW answer \in Answers, Reply(c, answer)
  PROVE  commit' \in [Commit -> Call \cup {Fresh}]
<1>1. [commit[c] EXCEPT !.pc = "done", !.answer = answer] \in Call
  BY DEF Call, At, Answers
<1>2. commit' = [commit EXCEPT ![c] = [commit[c] EXCEPT !.pc = "done", !.answer = answer]]
  BY DEF Reply, TypeOK
<1> QED
  BY <1>1, <1>2 DEF TypeOK

\* A commit at one of its calls is not a fresh one.
LEMMA AtCall ==
  ASSUME TypeOK, NEW c \in Commit, commit[c].pc # "idle"
  PROVE  commit[c] \in Call
BY DEF TypeOK, Fresh

LEMMA AnswerTyped == ASSUME NEW id PROVE StatusAnswer(id) \in Answers
BY DEF StatusAnswer, Answers
-----------------------------------------------------------------------------
\* Every step keeps every variable of its type.
LEMMA TypeStep ==
  ASSUME TypeOK, ExecutionAssumption, [Next]_vars
  PROVE  TypeOK'
<1>1. CASE ParkCall
  <2>1. CASE \E id \in ParkedId, agent \in Agent, payload \in Payload : Park(id, agent, payload)
    <3>1. PICK id \in ParkedId, agent \in Agent, payload \in Payload : Park(id, agent, payload)
      BY <2>1
    <3>2. [status |-> "pending", agent |-> agent, payload |-> payload, bound |-> FALSE,
           expiresAt |-> now + Ttl, committingAt |-> -1] \in Row
      BY DEF Row, Status, TypeOK, ExecutionAssumption
    <3>3. action' \in [ParkedId -> Row \cup {Absent}]
      BY <3>1, <3>2 DEF Park, TypeOK
    <3> QED
      BY <3>1, <3>3 DEF Park, TypeOK
  <2>2. ASSUME NEW id \in ParkedId, RequestApproval(id) \/ RequestFails(id)
        PROVE  TypeOK'
    <3>1. [stage |-> "open", expiresAt |-> now + Ttl] \in Approval
      BY DEF Approval, TypeOK, ExecutionAssumption
    <3>2. authority' \in [ParkedId -> Approval]
      BY <2>2, <3>1 DEF RequestApproval, RequestFails, TypeOK
    <3> QED
      BY <2>2, <3>2 DEF RequestApproval, RequestFails, TypeOK
  <2>3. ASSUME NEW id \in ParkedId, Bind(id)
        PROVE  TypeOK'
    <3>1. CASE action[id].status = "pending" /\ ~action[id].bound
      <4>1. action[id] \in Row
        BY <3>1 DEF TypeOK, Absent
      <4>2. [action[id] EXCEPT !.bound = TRUE] \in Row
        BY <4>1 DEF Row
      <4>3. action' \in [ParkedId -> Row \cup {Absent}]
        BY <2>3, <3>1, <4>2 DEF Bind, TypeOK
      <4> QED
        BY <2>3, <3>1, <4>3 DEF Bind, TypeOK
    <3>2. CASE ~(action[id].status = "pending" /\ ~action[id].bound)
      BY <2>3, <3>2 DEF Bind, TypeOK
    <3> QED
      BY <3>1, <3>2
  <2>4. ASSUME NEW id \in ParkedId, Release(id)
        PROVE  TypeOK'
    <3>1. action' \in [ParkedId -> Row \cup {Absent}]
      BY <2>4, MoveTyped DEF Release, Status, Terminal
    <3>2. parking' \in [ParkedId -> {"none", "request", "bind", "release", "unbind",
                                    "done", "refused", "unbound", "lost"}]
      BY <2>4 DEF Release, TypeOK
    <3> QED
      BY <2>4, <3>1, <3>2 DEF Release, TypeOK
  <2>5. ASSUME NEW id \in ParkedId, ParkDies(id)
        PROVE  TypeOK'
    BY <2>5 DEF ParkDies, TypeOK
  <2> QED
    BY <1>1, <2>1, <2>2, <2>3, <2>4, <2>5 DEF ParkCall
<1>2. ASSUME NEW c \in Commit, CommitCall(c)
      PROVE  TypeOK'
  <2>1. ASSUME NEW pc, Step(c, pc), pc # "idle",
               commit[c] \in Call => commit' \in [Commit -> Call \cup {Fresh}]
        PROVE  TypeOK'
    <3>1. commit[c] \in Call
      BY <2>1, AtCall DEF Step
    <3> QED
      BY <2>1, <3>1, WritesTyped DEF Step, TypeOK
  <2>2. CASE \E id \in ParkedId, agent \in Agent, payload \in Payload :
               BeginCommit(c, id, agent, payload)
    <3>1. PICK id \in ParkedId, agent \in Agent, payload \in Payload :
            BeginCommit(c, id, agent, payload)
      BY <2>2
    <3>2. action[id] \in Row
      BY <3>1 DEF BeginCommit, TypeOK
    <3>3. ASSUME NEW pc \in At, NEW answer \in Answers,
                 Receive(c, id, agent, payload, pc, answer)
          PROVE  TypeOK'
      <4>1. [pc |-> pc, id |-> id, agent |-> agent, payload |-> payload,
             seen |-> action[id].status, bound |-> action[id].bound, run |-> "none",
             answer |-> answer, landed |-> 0, under |-> stopped] \in Call
        BY <3>2 DEF Call, Row, TypeOK, Answers
      <4>2. commit' \in [Commit -> Call \cup {Fresh}]
        BY <3>3, <4>1 DEF Receive, TypeOK
      <4> QED
        BY <3>3, <4>2 DEF Receive, TypeOK
    <3>4. "done" \in At /\ "void" \in At /\ "admit" \in At /\ "denied" \in Answers /\ "none" \in Answers
      BY DEF At, Before, Answers
    <3> QED
      BY <3>1, <3>3, <3>4, AnswerTyped DEF BeginCommit
  <2>3. CASE Void(c) \/ AnswerFromStatus(c)
    <3>1. commit[c].pc \in {"void", "status"}
      BY <2>3 DEF Void, AnswerFromStatus, Step
    <3>2. commit[c] \in Call => commit' \in [Commit -> Call \cup {Fresh}]
      BY <2>3, ReplyTyped, AnswerTyped DEF Void, AnswerFromStatus, Answers
    <3> QED
      BY <2>3, <2>1, <3>2 DEF Void, AnswerFromStatus
  <2>4. CASE Admit(c) \/ CheckEnabled(c) \/ CheckClear(c) \/ ConsumeApproval(c)
    <3>1. "enabled" \in At /\ "clear" \in At /\ "ledger" \in At /\ "claim" \in At /\ "denied" \in Answers
      BY DEF At, Before, Answers
    <3>2. commit[c] \in Call => commit' \in [Commit -> Call \cup {Fresh}]
      BY <2>4, <3>1, GotoTyped, ReplyTyped
         DEF Admit, CheckEnabled, CheckClear, ConsumeApproval
    <3> QED
      BY <2>4, <2>1, <3>2 DEF Admit, CheckEnabled, CheckClear, ConsumeApproval
  <2>5. CASE CheckLedger(c) \/ ClaimApproval(c) \/ StartCommit(c) \/ SettleCommit(c)
             \/ PutBack(c) \/ MarkIndeterminate(c)
    <3>1. {"status", "consume", "start", "open", "runDone", "runLost", "runRefused", "runDoubt"}
            \subseteq At
      BY DEF At, Before, Trying, Catching
    <3>2. \E pc \in At : Goto(c, pc)
      BY <2>5, <3>1 DEF CheckLedger, ClaimApproval, StartCommit, SettleCommit, PutBack,
                       MarkIndeterminate
    <3>3. commit[c] \in Call => commit' \in [Commit -> Call \cup {Fresh}]
      BY <3>2, GotoTyped
    <3>4. \E pc : Step(c, pc) /\ pc # "idle"
      BY <2>5 DEF CheckLedger, ClaimApproval, StartCommit, SettleCommit, PutBack,
                  MarkIndeterminate
    <3> QED
      BY <2>1, <3>3, <3>4
  <2>6. CASE OpenRun(c)
    <3>1. commit[c] \in Call
      BY <2>6, AtCall DEF OpenRun, Step
    <3>2. [commit[c] EXCEPT !.pc = "perform", !.run = "running"] \in Call
      BY <3>1 DEF Call, At
    <3>3. RunAfter(c) = "running"
      BY <2>6 DEF OpenRun, Step, RunAfter, Closing
    <3>4. commit' \in [Commit -> Call \cup {Fresh}]
      BY <2>6, <3>2, <3>3 DEF OpenRun, TypeOK
    <3> QED
      BY <2>6, <2>1, <3>4 DEF OpenRun
  <2>7. CASE Perform(c)
    <3>1. commit[c] \in Call
      BY <2>7, AtCall DEF Perform, Step
    <3>2. "back" \in At /\ "settle" \in At /\ "doubt" \in At
      BY DEF At, Trying, Catching
    <3>3. \A pc \in At, n \in {0, 1} :
            [commit[c] EXCEPT !.pc = pc, !.landed = commit[c].landed + n] \in Call
      <4> TAKE pc \in At, n \in {0, 1}
      <4>1. commit[c].landed + n \in Nat
        BY <3>1 DEF Call
      <4> QED
        BY <3>1, <4>1 DEF Call
    <3>4. CASE Goto(c, "back")
      BY <2>7, <2>1, <3>1, <3>2, <3>4, GotoTyped DEF Perform
    <3>5. CASE commit' = [commit EXCEPT ![c].pc = "settle", ![c].landed = @ + 1]
      <4>1. commit' = [commit EXCEPT ![c] =
              [commit[c] EXCEPT !.pc = "settle", !.landed = commit[c].landed + 1]]
        BY <3>5 DEF TypeOK
      <4>2. commit' \in [Commit -> Call \cup {Fresh}]
        BY <4>1, <3>2, <3>3 DEF TypeOK
      <4> QED
        BY <2>7, <2>1, <4>2 DEF Perform
    <3>6. CASE \E n \in {0, 1} :
                 commit' = [commit EXCEPT ![c].pc = "doubt", ![c].landed = @ + n]
      <4>1. PICK n \in {0, 1} : commit' = [commit EXCEPT ![c].pc = "doubt", ![c].landed = @ + n]
        BY <3>6
      <4>2. commit' = [commit EXCEPT ![c] =
              [commit[c] EXCEPT !.pc = "doubt", !.landed = commit[c].landed + n]]
        BY <4>1 DEF TypeOK
      <4>3. commit' \in [Commit -> Call \cup {Fresh}]
        BY <4>2, <3>2, <3>3 DEF TypeOK
      <4> QED
        BY <2>7, <2>1, <4>3 DEF Perform
    <3> QED
      BY <2>7, <3>4, <3>5, <3>6 DEF Perform
  <2>8. CASE CloseRun(c) \/ StoreFails(c)
    <3>1. commit[c].pc # "idle"
      BY <2>8 DEF CloseRun, StoreFails, Closing, Before, Trying, Catching
    <3>2. commit[c] \in Call
      BY <3>1, AtCall
    <3>3. RunAfter(c) \in {"none", "running", "succeeded", "failed"}
      BY <3>2 DEF RunAfter, Call
    <3>4. \E pc \in At, answer \in Answers, run \in {"none", "running", "succeeded", "failed"} :
            commit' = [commit EXCEPT ![c] =
                        [commit[c] EXCEPT !.pc = pc, !.answer = answer, !.run = run]]
      <4>1. CASE CloseRun(c)
        <5> DEFINE answer == CASE commit[c].pc = "runDone" -> "completed"
                               [] commit[c].pc = "runRefused" -> "denied"
                               [] OTHER -> "indeterminate"
        <5>1. answer \in Answers /\ "done" \in At
          BY DEF Answers, At
        <5>2. commit' = [commit EXCEPT ![c].pc = "done", ![c].run = RunAfter(c),
                                       ![c].answer = answer]
          BY <4>1 DEF CloseRun
        <5> HIDE DEF answer
        <5>3. commit' = [commit EXCEPT ![c] =
                [commit[c] EXCEPT !.pc = "done", !.answer = answer, !.run = RunAfter(c)]]
          BY <5>2 DEF TypeOK, Call
        <5> QED
          BY <5>1, <5>3, <3>3
      <4>2. CASE StoreFails(c)
        <5> DEFINE pc == IF commit[c].pc \in Trying THEN "back" ELSE "done"
                   answer == IF commit[c].pc \in Trying THEN "none" ELSE "denied"
        <5>1. pc \in At /\ answer \in Answers
          BY DEF Answers, At, Catching
        <5>2. PICK run \in {commit[c].run, RunAfter(c)} :
                commit' = [commit EXCEPT ![c].pc = pc, ![c].answer = answer, ![c].run = run]
          BY <4>2 DEF StoreFails
        <5>3. run \in {"none", "running", "succeeded", "failed"}
          BY <3>2, <3>3 DEF Call
        <5>4. commit' = [commit EXCEPT ![c] =
                [commit[c] EXCEPT !.pc = pc, !.answer = answer, !.run = run]]
          BY <5>2, <3>2 DEF TypeOK, Call
        <5> HIDE DEF pc, answer
        <5> QED
          BY <5>1, <5>3, <5>4
      <4> QED
        BY <2>8, <4>1, <4>2
    <3>5. commit' \in [Commit -> Call \cup {Fresh}]
      <4>1. PICK pc \in At, answer \in Answers, run \in {"none", "running", "succeeded", "failed"} :
              commit' = [commit EXCEPT ![c] =
                          [commit[c] EXCEPT !.pc = pc, !.answer = answer, !.run = run]]
        BY <3>4
      <4>2. [commit[c] EXCEPT !.pc = pc, !.answer = answer, !.run = run] \in Call
        BY <3>2 DEF Call, Answers
      <4> QED
        BY <4>1, <4>2 DEF TypeOK
    <3>6. CASE CloseRun(c)
      BY <3>6, <2>1, <3>1, <3>5 DEF CloseRun
    <3>7. CASE StoreFails(c)
      <4>1. /\ action' \in [ParkedId -> Row \cup {Absent}]
            /\ authority' \in [ParkedId -> Approval]
            /\ ledger' \in [used : [ParkedId -> Nat \cup {-1}], floor : Nat]
        BY <3>7, <3>2, WritesTyped DEF StoreFails, TypeOK
      <4> QED
        BY <3>7, <3>5, <4>1 DEF StoreFails, TypeOK
    <3> QED
      BY <2>8, <3>6, <3>7
  <2>9. CASE CommitDies(c)
    <3>1. commit' \in [Commit -> Call \cup {Fresh}]
      BY <2>9, AtCall, GotoTyped DEF CommitDies, At
    <3> QED
      BY <2>9, <3>1 DEF CommitDies, TypeOK
  <2> QED
    BY <1>2, <2>2, <2>3, <2>4, <2>5, <2>6, <2>7, <2>8, <2>9 DEF CommitCall
<1>3. CASE Maintenance
  <2>1. CASE ListStale
    BY <2>1 DEF ListStale, TypeOK
  <2>2. ASSUME NEW id \in ParkedId, MarkStale(id)
        PROVE  TypeOK'
    <3>1. action' \in [ParkedId -> Row \cup {Absent}]
      BY <2>2, MoveTyped DEF MarkStale, Status, Terminal
    <3> QED
      BY <2>2, <3>1 DEF MarkStale, TypeOK
  <2>3. CASE ExpireParkedActions
    <3>1. ASSUME NEW id \in ParkedId, Expirable(id)
          PROVE  [action[id] EXCEPT !.status = "expired"] \in Row
      <4>1. action[id] \in Row
        BY <3>1 DEF Expirable, TypeOK, Absent
      <4> QED
        BY <4>1 DEF Row, Status
    <3> QED
      BY <2>3, <3>1 DEF ExpireParkedActions, TypeOK
  <2>4. CASE ExpireApprovals
    <3>1. \A id \in ParkedId : [authority[id] EXCEPT !.stage = "closed"] \in Approval
      BY DEF TypeOK, Approval
    <3> QED
      BY <2>4, <3>1 DEF ExpireApprovals, TypeOK
  <2>5. CASE EvictUsedApprovals
    <3>1. RaisedFloors \subseteq Nat
      BY DEF RaisedFloors, TypeOK, ExecutionAssumption, Evictable
    <3> QED
      BY <2>5, <3>1 DEF EvictUsedApprovals, TypeOK
  <2> QED
    BY <1>3, <2>1, <2>2, <2>3, <2>4, <2>5 DEF Maintenance
<1>4. ASSUME NEW id \in ParkedId, NEW stage \in {"authorised", "closed"}, Decide(id, stage)
      PROVE  TypeOK'
  <2>1. [authority[id] EXCEPT !.stage = stage] \in Approval
    BY DEF TypeOK, Approval
  <2> QED
    BY <1>4, <2>1 DEF Decide, TypeOK
<1>5. ASSUME NEW lever \in Lever, Stop(lever) \/ Resume(lever)
      PROVE  TypeOK'
  <2>1. \A c \in Commit : commit[c] # Fresh =>
          [commit[c] EXCEPT !.under = @ \ Lifted(lever)] \in Call
    BY DEF TypeOK, Call
  <2>2. Resume(lever) => commit' \in [Commit -> Call \cup {Fresh}]
    BY <2>1 DEF Resume
  <2> QED
    BY <1>5, <2>2 DEF Stop, Resume, TypeOK
<1>6. CASE Tick \/ PauseTakesEffect
  BY <1>6 DEF Tick, PauseTakesEffect, Lever, TypeOK
<1>7. CASE UNCHANGED vars
  BY <1>7 DEF vars, TypeOK
<1> QED
  BY <1>1, <1>2, <1>3, <1>4, <1>5, <1>6, <1>7 DEF Next

\* The state of the service is of its type, always.
THEOREM TypeCorrect == Spec => []TypeOK
<1>1. Init => TypeOK
  BY ExecutionAssumption DEF Init, TypeOK, Approval, Unasked
<1>2. TypeOK /\ [Next]_vars => TypeOK'
  BY TypeStep, ExecutionAssumption
<1> QED
  BY <1>1, <1>2, PTL DEF Spec

-----------------------------------------------------------------------------
(* What a step leaves of a row: whose it is, what it would do, that it was  *)
(* bound, and its status once that is terminal.                             *)

RowKept(id) ==
  action[id] # Absent =>
    /\ action'[id] # Absent
    /\ action'[id].agent = action[id].agent
    /\ action'[id].payload = action[id].payload
    /\ action[id].bound => action'[id].bound
    /\ action[id].status \in Terminal => action'[id].status = action[id].status

LEMMA MoveKeeps ==
  ASSUME TypeOK, NEW id \in ParkedId, NEW from \in Status, NEW to, Move(id, from, to),
         NEW i \in ParkedId
  PROVE  RowKept(i)
<1>1. CASE CanMove(id, from) /\ i = id
  <2>1. action[id] \in Row
    BY <1>1 DEF TypeOK, CanMove, Status, Terminal, Absent
  <2>2. action'[id] = [action[id] EXCEPT !.status = to,
                        !.committingAt = IF to = "committing" THEN now ELSE @]
    BY <1>1 DEF Move, TypeOK
  <2>3. /\ action'[id].agent = action[id].agent
        /\ action'[id].payload = action[id].payload
        /\ action'[id].bound = action[id].bound
    BY <2>1, <2>2 DEF Row
  <2>4. action'[id] # Absent
    BY <2>1, <2>2 DEF Row, Absent
  <2>5. action[id].status \notin Terminal
    BY <1>1 DEF CanMove
  <2> QED
    BY <1>1, <2>3, <2>4, <2>5 DEF RowKept
<1>2. CASE ~(CanMove(id, from) /\ i = id)
  <2>1. action'[i] = action[i]
    BY <1>2 DEF Move, TypeOK
  <2> QED
    BY <2>1 DEF RowKept
<1> QED
  BY <1>1, <1>2

\* A commit writes to the stores what Writes says, or nothing.
LEMMA CommitWrites ==
  ASSUME NEW c \in Commit, CommitCall(c)
  PROVE  \/ UNCHANGED <<action, authority, ledger>>
         \/ commit[c].pc # "idle" /\ Writes(c)
<1>1. ASSUME NEW pc, Step(c, pc), pc # "idle"
      PROVE  commit[c].pc # "idle" /\ Writes(c)
  BY <1>1 DEF Step
<1>2. CASE \E id \in ParkedId, agent \in Agent, payload \in Payload :
             BeginCommit(c, id, agent, payload)
  BY <1>2 DEF BeginCommit, Receive
<1>3. CASE \/ Void(c) \/ Admit(c) \/ CheckEnabled(c) \/ CheckClear(c) \/ CheckLedger(c)
           \/ ConsumeApproval(c) \/ ClaimApproval(c) \/ StartCommit(c)
           \/ AnswerFromStatus(c)
  BY <1>1, <1>3 DEF Void, Admit, CheckEnabled, CheckClear, CheckLedger, ConsumeApproval,
     ClaimApproval, StartCommit, AnswerFromStatus
<1>4. CASE \/ OpenRun(c) \/ Perform(c) \/ SettleCommit(c) \/ PutBack(c)
           \/ MarkIndeterminate(c) \/ CloseRun(c)
  BY <1>1, <1>4 DEF OpenRun, Perform, SettleCommit, PutBack, MarkIndeterminate, CloseRun,
     Closing
<1>5. CASE StoreFails(c)
  BY <1>5 DEF StoreFails, Before, Trying, Catching
<1>6. CASE CommitDies(c)
  BY <1>6 DEF CommitDies
<1> QED
  BY <1>2, <1>3, <1>4, <1>5, <1>6 DEF CommitCall

LEMMA RowsKept ==
  ASSUME TypeOK, [Next]_vars, NEW i \in ParkedId
  PROVE  RowKept(i)
<1>0. CASE action'[i] = action[i]
  BY <1>0 DEF RowKept
<1>1. CASE ParkCall
  <2>1. ASSUME NEW id \in ParkedId, NEW agent \in Agent, NEW payload \in Payload,
               Park(id, agent, payload)
        PROVE  RowKept(i)
    BY <2>1, <1>0 DEF Park, RowKept, TypeOK
  <2>2. ASSUME NEW id \in ParkedId, Bind(id)
        PROVE  RowKept(i)
    <3>1. CASE action[id].status = "pending" /\ i = id
      <4>1. action[id] \in Row
        BY <3>1 DEF TypeOK, Absent
      <4>2. action'[id] \in {action[id], [action[id] EXCEPT !.bound = TRUE]}
        BY <2>2 DEF Bind, TypeOK
      <4>3. /\ action'[id].agent = action[id].agent
            /\ action'[id].payload = action[id].payload
            /\ action'[id].status = action[id].status
            /\ action[id].bound => action'[id].bound
            /\ action'[id] # Absent
        BY <4>1, <4>2 DEF Row, Absent
      <4> QED
        BY <3>1, <4>3 DEF RowKept
    <3>2. CASE ~(action[id].status = "pending" /\ i = id)
      BY <2>2, <3>2, <1>0 DEF Bind, TypeOK
    <3> QED
      BY <3>1, <3>2
  <2>3. ASSUME NEW id \in ParkedId, Release(id)
        PROVE  RowKept(i)
    BY <2>3, MoveKeeps DEF Release, Status, Terminal
  <2>4. ASSUME NEW id \in ParkedId, RequestApproval(id) \/ RequestFails(id) \/ ParkDies(id)
        PROVE  RowKept(i)
    BY <2>4, <1>0 DEF RequestApproval, RequestFails, ParkDies
  <2> QED
    BY <1>1, <2>1, <2>2, <2>3, <2>4 DEF ParkCall
<1>2. ASSUME NEW c \in Commit, CommitCall(c)
      PROVE  RowKept(i)
  <2>1. CASE commit[c].pc # "idle" /\ Writes(c)
    <3>1. commit[c].id \in ParkedId /\ commit[c].seen \in Status
      BY <2>1, AtCall DEF Call
    <3>2. \/ action' = action
          \/ \E from, to \in Status : Move(commit[c].id, from, to)
      BY <2>1, <3>1 DEF Writes, Status, Terminal
    <3> QED
      BY <3>1, <3>2, <1>0, MoveKeeps
  <2> QED
    BY <1>0, <1>2, <2>1, CommitWrites
<1>3. CASE Maintenance
  <2>1. ASSUME NEW id \in ParkedId, MarkStale(id)
        PROVE  RowKept(i)
    BY <2>1, MoveKeeps DEF MarkStale, Status, Terminal
  <2>2. CASE ExpireParkedActions
    <3>1. CASE Expirable(i)
      <4>1. action[i] \in Row /\ action[i].status \notin Terminal
        BY <3>1 DEF Expirable, TypeOK, Absent, Terminal
      <4>2. action'[i] = [action[i] EXCEPT !.status = "expired"]
        BY <2>2, <3>1 DEF ExpireParkedActions
      <4> QED
        BY <4>1, <4>2 DEF RowKept, Row, Absent
    <3>2. CASE ~Expirable(i)
      BY <2>2, <3>2, <1>0 DEF ExpireParkedActions
    <3> QED
      BY <3>1, <3>2
  <2>3. CASE ListStale \/ ExpireApprovals \/ EvictUsedApprovals
    BY <2>3, <1>0 DEF ListStale, ExpireApprovals, EvictUsedApprovals
  <2> QED
    BY <1>3, <2>1, <2>2, <2>3 DEF Maintenance
<1>4. CASE \E id \in ParkedId, stage \in {"authorised", "closed"} : Decide(id, stage)
  BY <1>4, <1>0 DEF Decide
<1>5. CASE \E lever \in Lever : Stop(lever) \/ Resume(lever)
  BY <1>5, <1>0 DEF Stop, Resume
<1>6. CASE Tick \/ PauseTakesEffect \/ UNCHANGED vars
  BY <1>6, <1>0 DEF Tick, PauseTakesEffect, vars
<1> QED
  BY <1>1, <1>2, <1>3, <1>4, <1>5, <1>6 DEF Next

\* A settled action stays settled: no late call of a commit, no sweep and no
\* expiry moves a row out of a terminal status, faults and crashes included.
THEOREM TerminalNeverMoves == Spec => TerminalIsFinal
<1>1. ASSUME TypeOK, [Next]_vars
      PROVE  \A id \in ParkedId : action[id].status \in Terminal =>
               action'[id].status = action[id].status
  <2> TAKE id \in ParkedId
  <2>1. action[id].status \in Terminal => action[id] # Absent
    BY DEF Absent, Terminal
  <2> QED
    BY <1>1, <2>1, RowsKept DEF RowKept
<1>2. TypeOK /\ [Next]_vars => [\A id \in ParkedId : action[id].status \in Terminal =>
                                   action'[id].status = action[id].status]_vars
  BY <1>1
<1> QED
  BY <1>2, TypeCorrect, PTL DEF Spec, TerminalIsFinal

-----------------------------------------------------------------------------
(* Why an effect lands at most once, and only as it was approved.  A commit *)
(* holds the approval of its action from the moment it spent it; nobody    *)
(* else can spend it again, and only the holder reaches the connector.     *)

HoldingAt == {"claim", "start", "open", "perform"} \cup Trying \cup Catching

Holds(c) == commit[c] # Fresh /\ (commit[c].pc \in HoldingAt \/ commit[c].landed > 0)

\* A commit that is still going on, or has had an effect.
InHand(c) == commit[c] # Fresh /\ (commit[c].pc \notin {"void", "done"} \/ commit[c].landed > 0)

\* Its effect, once it has one, is behind it.
LandsOnce(c) ==
  commit[c] # Fresh =>
    /\ commit[c].landed \in {0, 1}
    /\ commit[c].landed > 0 => commit[c].pc \in Trying \cup Catching \cup {"done"}

\* It carries the request its row was parked for, and what it read of the binding.
CarriesRow(c) ==
  InHand(c) =>
    LET row == action[commit[c].id] IN
    /\ row # Absent
    /\ commit[c].payload = row.payload
    /\ commit[c].agent = row.agent
    /\ commit[c].bound => row.bound

\* It spends an approval only when the row is bound to it, and holds it spent.
HoldsSpent(c) ==
  /\ commit[c] # Fresh /\ commit[c].pc \in {"ledger", "consume"} => commit[c].bound
  /\ Holds(c) => commit[c].bound /\ authority[commit[c].id].stage = "spent"

\* No two hold the same one.
OneHolder ==
  \A c, d \in Commit : Holds(c) /\ Holds(d) /\ commit[c].id = commit[d].id => c = d

\* No approval is raised before its row exists, and then only once.
RaisedOnce ==
  \A id \in ParkedId :
    /\ parking[id] # "none" => action[id] # Absent
    /\ parking[id] \in {"none", "request"} => authority[id].stage = "absent"

HoldInv ==
  /\ TypeOK
  /\ RaisedOnce
  /\ OneHolder
  /\ \A c \in Commit : LandsOnce(c) /\ CarriesRow(c) /\ HoldsSpent(c)

-----------------------------------------------------------------------------
(* How a commit call changes its own record, and nothing of the others'.    *)

Becomes(c, pc, landed) ==
  /\ commit'[c] # Fresh
  /\ commit'[c].pc = pc
  /\ commit'[c].landed = landed
  /\ commit'[c].id = commit[c].id
  /\ commit'[c].agent = commit[c].agent
  /\ commit'[c].payload = commit[c].payload
  /\ commit'[c].bound = commit[c].bound
  /\ \A d \in Commit \ {c} : commit'[d] = commit[d]

LEMMA GotoBecomes ==
  ASSUME TypeOK, NEW c \in Commit, commit[c] \in Call, NEW pc \in At, Goto(c, pc)
  PROVE  Becomes(c, pc, commit[c].landed)
<1>1. commit' = [commit EXCEPT ![c] = [commit[c] EXCEPT !.pc = pc]]
  BY DEF Goto, TypeOK
<1>2. commit'[c] = [commit[c] EXCEPT !.pc = pc]
  BY <1>1 DEF TypeOK
<1>3. \A d \in Commit \ {c} : commit'[d] = commit[d]
  BY <1>1 DEF TypeOK
<1>4. pc # "idle"
  BY DEF At, Before, Trying, Catching
<1> QED
  BY <1>2, <1>3, <1>4 DEF Becomes, Call, Fresh

LEMMA ReplyBecomes ==
  ASSUME TypeOK, NEW c \in Commit, commit[c] \in Call, NEW answer, Reply(c, answer)
  PROVE  Becomes(c, "done", commit[c].landed)
<1>1. commit' = [commit EXCEPT ![c] = [commit[c] EXCEPT !.pc = "done", !.answer = answer]]
  BY DEF Reply, TypeOK
<1>2. commit'[c] = [commit[c] EXCEPT !.pc = "done", !.answer = answer]
  BY <1>1 DEF TypeOK
<1>3. \A d \in Commit \ {c} : commit'[d] = commit[d]
  BY <1>1 DEF TypeOK
<1> QED
  BY <1>2, <1>3 DEF Becomes, Call, Fresh

Landing(call, pc, landed) == [call EXCEPT !.pc = pc, !.landed = landed]

LEMMA LandFields ==
  ASSUME NEW call \in Call, NEW pc \in At, NEW landed \in Nat
  PROVE  LET next == Landing(call, pc, landed) IN
         /\ next # Fresh /\ next.pc = pc /\ next.landed = landed
         /\ next.id = call.id /\ next.agent = call.agent
         /\ next.payload = call.payload /\ next.bound = call.bound
<1> DEFINE next == Landing(call, pc, landed)
<1>1. next = [call EXCEPT !.pc = pc, !.landed = landed]
  BY DEF Landing
<1> HIDE DEF next
<1>2. next.pc = pc /\ next.landed = landed
  BY <1>1 DEF Call
<1>3. /\ next.id = call.id /\ next.agent = call.agent
      /\ next.payload = call.payload /\ next.bound = call.bound
  BY <1>1 DEF Call
<1>4. next.pc # "idle"
  BY <1>2 DEF At, Before, Trying, Catching
<1>5. next # Fresh
  BY <1>4 DEF Fresh
<1> QED
  BY <1>2, <1>3, <1>5 DEF next

LEMMA LandBecomes ==
  ASSUME TypeOK, NEW c \in Commit, commit[c] \in Call, NEW pc \in At, NEW n \in {0, 1},
         commit' = [commit EXCEPT ![c].pc = pc, ![c].landed = @ + n]
  PROVE  Becomes(c, pc, commit[c].landed + n)
<1> DEFINE landed == commit[c].landed + n
           next == commit'[c]
<1>0. commit[c] \in Call /\ pc \in At
  OBVIOUS
<1>1. landed \in Nat
  BY DEF Call
<1>2. next = Landing(commit[c], pc, landed)
  BY DEF TypeOK, Landing
<1>3. \A d \in Commit \ {c} : commit'[d] = commit[d]
  BY DEF TypeOK
<1> HIDE DEF landed, next
<1>4. /\ next # Fresh /\ next.pc = pc /\ next.landed = landed
      /\ next.id = commit[c].id /\ next.agent = commit[c].agent
      /\ next.payload = commit[c].payload /\ next.bound = commit[c].bound
  BY ONLY <1>1, <1>2, <1>0, LandFields
<1> QED
  BY <1>3, <1>4 DEF Becomes, landed, next

\* What the next call of a commit may be, and when it may have landed more.
Progress(c, pc, landed) ==
  /\ Becomes(c, pc, landed)
  /\ pc \in HoldingAt => \/ commit[c].pc \in HoldingAt
                         \/ commit[c].pc = "consume" /\ Spendable(commit[c].id) /\ Writes(c)
  /\ pc \in {"ledger", "consume"} => commit[c].bound \/ commit[c].pc = "ledger"
  /\ pc \notin {"void", "done"} => commit[c].pc \notin {"void", "done"}
  /\ \/ /\ landed = commit[c].landed
        /\ commit[c].pc \in Trying \cup Catching \cup {"done"}
             => pc \in Trying \cup Catching \cup {"done"}
     \/ /\ commit[c].pc = "perform" /\ pc \in Trying \cup Catching
        /\ landed \in {commit[c].landed, commit[c].landed + 1}

LEMMA CommitProgress ==
  ASSUME TypeOK, NEW c \in Commit, CommitCall(c), commit[c] # Fresh
  PROVE  commit[c] \in Call /\ \E pc \in At, n \in Nat : Progress(c, pc, n)
<1>0. commit[c] \in Call
  BY DEF TypeOK
<1>1. commit[c].landed \in Nat /\ commit[c].pc \in At
  BY <1>0 DEF Call
<1> USE DEF HoldingAt, At, Before, Trying, Catching
<1>2. ~\E id \in ParkedId, agent \in Agent, payload \in Payload :
         BeginCommit(c, id, agent, payload)
  BY DEF BeginCommit
<1>3. CASE Void(c) \/ AnswerFromStatus(c)
  <2>1. Becomes(c, "done", commit[c].landed)
    BY <1>3, <1>0, ReplyBecomes DEF Void, AnswerFromStatus
  <2> QED
    BY <1>0, <1>1, <2>1 DEF Progress
<1>4. CASE Admit(c) \/ CheckEnabled(c) \/ CheckClear(c)
  <2>1. \/ Becomes(c, "done", commit[c].landed)
        \/ commit[c].pc = "admit" /\ Becomes(c, "enabled", commit[c].landed)
        \/ commit[c].pc = "enabled" /\ Becomes(c, "clear", commit[c].landed)
        \/ commit[c].pc = "clear" /\ commit[c].bound /\ Becomes(c, "ledger", commit[c].landed)
    BY <1>4, <1>0, ReplyBecomes, GotoBecomes DEF Admit, CheckEnabled, CheckClear, Step
  <2> QED
    BY <1>0, <1>1, <2>1 DEF Progress
<1>5. CASE CheckLedger(c) \/ ConsumeApproval(c)
  <2>1. \/ Becomes(c, "done", commit[c].landed)
        \/ commit[c].pc = "ledger" /\ Becomes(c, "status", commit[c].landed)
        \/ commit[c].pc = "ledger" /\ Becomes(c, "consume", commit[c].landed)
        \/ /\ commit[c].pc = "consume" /\ Spendable(commit[c].id) /\ Writes(c)
           /\ Becomes(c, "claim", commit[c].landed)
    BY <1>5, <1>0, ReplyBecomes, GotoBecomes DEF CheckLedger, ConsumeApproval, Step
  <2> QED
    BY <1>0, <1>1, <2>1 DEF Progress
<1>6. CASE ClaimApproval(c) \/ StartCommit(c)
  <2>1. /\ commit[c].pc \in {"claim", "start"}
        /\ \E pc \in {"status", "start", "open"} : Becomes(c, pc, commit[c].landed)
    BY <1>6, <1>0, GotoBecomes DEF ClaimApproval, StartCommit, Step
  <2> QED
    BY <1>0, <1>1, <2>1 DEF Progress
<1>7. CASE OpenRun(c)
  <2>1. commit[c].pc = "open"
    BY <1>7 DEF OpenRun, Step
  <2>2. commit' = [commit EXCEPT ![c] = [commit[c] EXCEPT !.pc = "perform", !.run = RunAfter(c)]]
    BY <1>7 DEF OpenRun, TypeOK
  <2>3. commit'[c] = [commit[c] EXCEPT !.pc = "perform", !.run = RunAfter(c)]
    BY <2>2 DEF TypeOK
  <2>4. \A d \in Commit \ {c} : commit'[d] = commit[d]
    BY <2>2 DEF TypeOK
  <2>5. Becomes(c, "perform", commit[c].landed)
    BY <1>0, <2>3, <2>4 DEF Becomes, Call, Fresh
  <2> QED
    BY <1>0, <1>1, <2>1, <2>5 DEF Progress
<1>8. CASE Perform(c)
  <2>1. commit[c].pc = "perform"
    BY <1>8 DEF Perform, Step
  <2>2. \E pc \in {"back", "settle", "doubt"}, n \in {commit[c].landed, commit[c].landed + 1} :
          Becomes(c, pc, n)
    <3>1. {"back", "settle", "doubt"} \subseteq At
      OBVIOUS
    <3>2. CASE Goto(c, "back")
      BY <3>1, <3>2, <1>0, GotoBecomes
    <3>3. CASE commit' = [commit EXCEPT ![c].pc = "settle", ![c].landed = @ + 1]
      <4>1. Becomes(c, "settle", commit[c].landed + 1)
        BY <3>1, <3>3, <1>0, LandBecomes
      <4> QED
        BY <4>1
    <3>4. CASE \E n \in {0, 1} :
                 commit' = [commit EXCEPT ![c].pc = "doubt", ![c].landed = @ + n]
      <4>1. PICK n \in {0, 1} : commit' = [commit EXCEPT ![c].pc = "doubt", ![c].landed = @ + n]
        BY <3>4
      <4>2. Becomes(c, "doubt", commit[c].landed + n)
        BY <3>1, <4>1, <1>0, LandBecomes
      <4>3. commit[c].landed + n \in {commit[c].landed, commit[c].landed + 1}
        BY <1>1
      <4> QED
        BY <4>2, <4>3
    <3> QED
      BY <1>8, <3>2, <3>3, <3>4 DEF Perform
  <2> QED
    BY <1>0, <1>1, <2>1, <2>2 DEF Progress
<1>9. CASE SettleCommit(c) \/ PutBack(c) \/ MarkIndeterminate(c)
  <2>1. /\ commit[c].pc \in {"settle", "back", "doubt"}
        /\ \E pc \in {"runDone", "runLost", "runRefused", "runDoubt"} :
             Becomes(c, pc, commit[c].landed)
    BY <1>9, <1>0, GotoBecomes DEF SettleCommit, PutBack, MarkIndeterminate, Step
  <2> QED
    BY <1>0, <1>1, <2>1 DEF Progress
<1>10. CASE CloseRun(c)
  <2> DEFINE answer == CASE commit[c].pc = "runDone" -> "completed"
                         [] commit[c].pc = "runRefused" -> "denied"
                         [] OTHER -> "indeterminate"
  <2>1. commit' = [commit EXCEPT ![c] =
          [commit[c] EXCEPT !.pc = "done", !.run = RunAfter(c), !.answer = answer]]
    BY <1>10 DEF CloseRun, TypeOK
  <2> HIDE DEF answer
  <2>2. commit'[c] = [commit[c] EXCEPT !.pc = "done", !.run = RunAfter(c), !.answer = answer]
    BY <2>1 DEF TypeOK
  <2>3. \A d \in Commit \ {c} : commit'[d] = commit[d]
    BY <2>1 DEF TypeOK
  <2>4. Becomes(c, "done", commit[c].landed)
    BY <1>0, <2>2, <2>3 DEF Becomes, Call, Fresh
  <2> QED
    BY <1>0, <1>1, <2>4 DEF Progress
<1>11. CASE StoreFails(c)
  <2> DEFINE next == IF commit[c].pc \in Trying THEN "back" ELSE "done"
             answer == IF commit[c].pc \in Trying THEN "none" ELSE "denied"
  <2>1. PICK run \in {commit[c].run, RunAfter(c)} : commit' = [commit EXCEPT
               ![c].pc = next, ![c].answer = answer, ![c].run = run]
    BY <1>11 DEF StoreFails
  <2>2. commit' = [commit EXCEPT ![c] =
          [commit[c] EXCEPT !.pc = next, !.answer = answer, !.run = run]]
    BY <2>1 DEF TypeOK
  <2>3. \/ next = "back" /\ commit[c].pc \in Trying
        \/ next = "done"
    OBVIOUS
  <2> HIDE DEF next, answer
  <2>4. commit'[c] = [commit[c] EXCEPT !.pc = next, !.answer = answer, !.run = run]
    BY <2>2 DEF TypeOK
  <2>5. \A d \in Commit \ {c} : commit'[d] = commit[d]
    BY <2>2 DEF TypeOK
  <2>6. Becomes(c, next, commit[c].landed)
    BY <1>0, <2>3, <2>4, <2>5 DEF Becomes, Call, Fresh
  <2> QED
    BY <1>0, <1>1, <2>3, <2>6 DEF Progress
<1>12. CASE CommitDies(c)
  <2>1. Becomes(c, "done", commit[c].landed)
    BY <1>12, <1>0, GotoBecomes DEF CommitDies
  <2> QED
    BY <1>0, <1>1, <2>1 DEF Progress
<1> QED
  BY <1>0, <1>2, <1>3, <1>4, <1>5, <1>6, <1>7, <1>8, <1>9, <1>10, <1>11, <1>12 DEF CommitCall

\* An approval spent once is spent for good, and one never raised stays so until
\* its row's park call raises it.
LEMMA RaisedStep ==
  ASSUME TypeOK, RaisedOnce, [Next]_vars
  PROVE  /\ RaisedOnce'
         /\ \A id \in ParkedId : authority[id].stage = "spent" => authority'[id].stage = "spent"
<1> DEFINE Stays == \A id \in ParkedId :
             /\ authority[id].stage = "spent" => authority'[id].stage = "spent"
             /\ authority[id].stage = "absent" => authority'[id].stage = "absent"
<1>1. \A id \in ParkedId : action[id] # Absent => action'[id] # Absent
  BY RowsKept DEF RowKept
<1>2. CASE parking' = parking
  <2>1. SUFFICES Stays
    BY <2>1, <1>1, <1>2 DEF RaisedOnce
  <2>2. CASE authority' = authority
    BY <2>2
  <2>3. ASSUME NEW c \in Commit, CommitCall(c)
        PROVE  Stays
    <3>1. CASE commit[c].pc # "idle" /\ Writes(c)
      <4>1. commit[c].id \in ParkedId
        BY <3>1, AtCall DEF Call
      <4>2. \/ authority' = authority
            \/ /\ authority[commit[c].id].stage = "authorised"
               /\ authority' = [authority EXCEPT ![commit[c].id].stage = "spent"]
        BY <3>1 DEF Writes, Spendable
      <4> QED
        BY <4>1, <4>2 DEF TypeOK, Approval
    <3> QED
      BY <2>2, <2>3, <3>1, CommitWrites
  <2>4. CASE ExpireApprovals
    BY <2>4 DEF ExpireApprovals, TypeOK, Approval
  <2>5. ASSUME NEW id \in ParkedId, NEW stage \in {"authorised", "closed"}, Decide(id, stage)
        PROVE  Stays
    BY <2>5 DEF Decide, TypeOK, Approval
  <2>6. CASE ParkCall
    BY <1>2, <2>6, <2>2 DEF ParkCall, Park, RequestApproval, RequestFails, Bind, Release,
       ParkDies, TypeOK
  <2>7. CASE ListStale \/ (\E id \in ParkedId : MarkStale(id)) \/ ExpireParkedActions
             \/ EvictUsedApprovals
    BY <2>7, <2>2 DEF ListStale, MarkStale, ExpireParkedActions, EvictUsedApprovals
  <2>8. CASE (\E lever \in Lever : Stop(lever) \/ Resume(lever)) \/ Tick \/ PauseTakesEffect
             \/ UNCHANGED vars
    BY <2>8, <2>2 DEF Stop, Resume, Tick, PauseTakesEffect, vars
  <2> QED
    BY <2>3, <2>4, <2>5, <2>6, <2>7, <2>8 DEF Next, Maintenance
<1>3. CASE ParkCall
  <2>1. ASSUME NEW id \in ParkedId, NEW agent \in Agent, NEW payload \in Payload,
               Park(id, agent, payload)
        PROVE  RaisedOnce' /\ authority' = authority
    <3>1. parking[id] = "none"
      BY <2>1 DEF Park, RaisedOnce
    <3>2. action'[id] # Absent
      BY <2>1 DEF Park, TypeOK, Absent
    <3> QED
      BY <2>1, <3>1, <3>2, <1>1 DEF Park, RaisedOnce, TypeOK
  <2>2. ASSUME NEW id \in ParkedId, RequestApproval(id) \/ RequestFails(id)
        PROVE  /\ RaisedOnce'
               /\ \A i \in ParkedId : authority[i].stage = "spent" => authority'[i].stage = "spent"
    <3>1. authority[id].stage = "absent" /\ action[id] # Absent
      BY <2>2 DEF RequestApproval, RequestFails, RaisedOnce
    <3>2. \A i \in ParkedId \ {id} : authority'[i] = authority[i] /\ parking'[i] = parking[i]
      BY <2>2 DEF RequestApproval, RequestFails, TypeOK
    <3>3. parking'[id] \in {"bind", "release"}
      BY <2>2 DEF RequestApproval, RequestFails, TypeOK
    <3> QED
      BY <3>1, <3>2, <3>3, <1>1 DEF RaisedOnce
  <2>3. ASSUME NEW id \in ParkedId, Bind(id) \/ Release(id) \/ ParkDies(id)
        PROVE  RaisedOnce' /\ authority' = authority
    <3>1. authority' = authority
      BY <2>3 DEF Bind, Release, ParkDies
    <3>2. parking[id] \in {"request", "bind", "release", "unbind"}
      BY <2>3 DEF Bind, Release, ParkDies
    <3>3. \A i \in ParkedId \ {id} : parking'[i] = parking[i]
      BY <2>3 DEF Bind, Release, ParkDies, TypeOK
    <3>4. parking'[id] \in {"done", "unbind", "refused", "unbound", "lost"}
      BY <2>3 DEF Bind, Release, ParkDies, TypeOK
    <3> QED
      BY <3>1, <3>2, <3>3, <3>4, <1>1 DEF RaisedOnce
  <2> QED
    BY <1>3, <2>1, <2>2, <2>3 DEF ParkCall
<1>4. CASE ~ParkCall
  <2>1. parking' = parking
    <3>1. ASSUME NEW c \in Commit, CommitCall(c) PROVE parking' = parking
      <4>1. CASE \/ \E id \in ParkedId, agent \in Agent, payload \in Payload :
                      BeginCommit(c, id, agent, payload)
                 \/ Void(c) \/ Admit(c) \/ CheckEnabled(c) \/ CheckClear(c) \/ CheckLedger(c)
                 \/ ConsumeApproval(c) \/ ClaimApproval(c) \/ StartCommit(c)
        BY <4>1, SMTT(30) DEF BeginCommit, Receive, Void, Admit, CheckEnabled, CheckClear,
           CheckLedger, ConsumeApproval, ClaimApproval, StartCommit, Step
      <4>2. CASE \/ AnswerFromStatus(c) \/ OpenRun(c) \/ Perform(c) \/ SettleCommit(c)
                 \/ PutBack(c) \/ MarkIndeterminate(c) \/ CloseRun(c) \/ StoreFails(c)
                 \/ CommitDies(c)
        BY <4>2, SMTT(30) DEF AnswerFromStatus, OpenRun, Perform, SettleCommit, PutBack,
           MarkIndeterminate, CloseRun, StoreFails, CommitDies, Step
      <4> QED
        BY <3>1, <4>1, <4>2 DEF CommitCall
    <3>2. Maintenance => parking' = parking
      BY DEF Maintenance, ListStale, MarkStale, ExpireParkedActions, ExpireApprovals,
         EvictUsedApprovals
    <3> QED
      BY <1>4, <3>1, <3>2 DEF Next, Decide, Stop, Resume, Tick, PauseTakesEffect, vars
  <2> QED
    BY <2>1, <1>2
<1> QED
  BY <1>3, <1>4

-----------------------------------------------------------------------------
\* A commit that a step leaves alone but for the stops it is under.
Untouched(c) ==
  /\ commit'[c] = Fresh <=> commit[c] = Fresh
  /\ commit[c] # Fresh =>
       /\ commit'[c].pc = commit[c].pc
       /\ commit'[c].landed = commit[c].landed
       /\ commit'[c].id = commit[c].id
       /\ commit'[c].agent = commit[c].agent
       /\ commit'[c].payload = commit[c].payload
       /\ commit'[c].bound = commit[c].bound

CommitInv(c) == LandsOnce(c) /\ CarriesRow(c) /\ HoldsSpent(c)

LEMMA UntouchedKeeps ==
  ASSUME HoldInv, [Next]_vars, NEW c \in Commit, Untouched(c)
  PROVE  CommitInv(c)' /\ (Holds(c)' <=> Holds(c))
<1>1. CASE commit[c] = Fresh
  BY <1>1 DEF Untouched, CommitInv, LandsOnce, CarriesRow, HoldsSpent, Holds, InHand
<1>2. CASE commit[c] # Fresh
  <2>1. commit[c].id \in ParkedId
    BY <1>2 DEF HoldInv, TypeOK, Call
  <2>2. RowKept(commit[c].id)
    BY <2>1, RowsKept DEF HoldInv
  <2>3. authority[commit[c].id].stage = "spent" => authority'[commit[c].id].stage = "spent"
    BY <2>1, RaisedStep DEF HoldInv
  <2>4. LandsOnce(c)'
    BY <1>2 DEF Untouched, HoldInv, LandsOnce
  <2>5. CarriesRow(c)'
    BY <1>2, <2>2 DEF Untouched, HoldInv, CarriesRow, InHand, RowKept
  <2>6. HoldsSpent(c)'
    BY <1>2, <2>3 DEF Untouched, HoldInv, HoldsSpent, Holds
  <2> QED
    BY <1>2, <2>4, <2>5, <2>6 DEF Untouched, CommitInv, Holds
<1> QED
  BY <1>1, <1>2

\* The step of a commit that has begun.
LEMMA ProgressKeeps ==
  ASSUME HoldInv, [Next]_vars, NEW c \in Commit, commit[c] \in Call, commit[c] # Fresh,
         NEW pc \in At, NEW landed \in Nat, Progress(c, pc, landed)
  PROVE  /\ CommitInv(c)'
         /\ Holds(c)' => Holds(c) \/ authority[commit[c].id].stage = "authorised"
<1> DEFINE id == commit[c].id
<1>1. id \in ParkedId
  BY DEF Call
<1>2. RowKept(id)
  BY <1>1, RowsKept DEF HoldInv
<1>3. authority[id].stage = "spent" => authority'[id].stage = "spent"
  BY <1>1, RaisedStep DEF HoldInv
<1>4. /\ commit'[c] # Fresh /\ commit'[c].pc = pc /\ commit'[c].landed = landed
      /\ commit'[c].id = id /\ commit'[c].agent = commit[c].agent
      /\ commit'[c].payload = commit[c].payload /\ commit'[c].bound = commit[c].bound
  BY DEF Progress, Becomes
<1>5. LandsOnce(c) /\ CarriesRow(c) /\ HoldsSpent(c)
  BY DEF HoldInv
<1>6. landed > 0 => commit[c].landed > 0 \/ commit[c].pc = "perform"
  BY <1>5 DEF Progress, LandsOnce
<1>7. commit[c].pc = "perform" => commit[c].landed = 0
  BY <1>5 DEF LandsOnce, Trying, Catching
<1>8. pc \in HoldingAt \/ landed > 0 =>
        Holds(c) \/ (commit[c].pc = "consume" /\ Spendable(id) /\ Writes(c))
  BY <1>6 DEF Progress, Holds, HoldingAt
<1>9. LandsOnce(c)'
  <2>1. landed \in {0, 1}
    BY <1>5, <1>7 DEF Progress, LandsOnce
  <2>2. landed > 0 => pc \in Trying \cup Catching \cup {"done"}
    BY <1>5, <1>6, <1>7 DEF Progress, LandsOnce
  <2> QED
    BY <1>4, <2>1, <2>2 DEF LandsOnce
<1>10. CarriesRow(c)'
  <2>1. InHand(c)' => InHand(c)
    BY <1>4, <1>6 DEF InHand, Progress
  <2> QED
    BY <1>2, <1>4, <1>5, <2>1 DEF CarriesRow, RowKept
<1>11. HoldsSpent(c)'
  <2>1. pc \in {"ledger", "consume"} => commit[c].bound
    BY <1>5 DEF Progress, HoldsSpent
  <2>2. commit[c].pc = "consume" /\ Spendable(id) /\ Writes(c) => authority'[id].stage = "spent"
    BY <1>1 DEF Writes, HoldInv, TypeOK, Approval
  <2>3. pc \in HoldingAt \/ landed > 0 => commit[c].bound /\ authority'[id].stage = "spent"
    BY <1>3, <1>5, <1>8, <2>2 DEF HoldsSpent
  <2> QED
    BY <1>4, <2>1, <2>3 DEF HoldsSpent, Holds
<1> QED
  BY <1>4, <1>8, <1>9, <1>10, <1>11 DEF CommitInv, Holds, Spendable

\* HoldInv is inductive: a second holder would need an approval that is open to be
\* spent where the first holds it spent.
LEMMA HoldStep ==
  ASSUME HoldInv, [Next]_vars
  PROVE  HoldInv'
<1>1. TypeOK'
  BY TypeStep, ExecutionAssumption DEF HoldInv
<1>2. RaisedOnce'
  BY RaisedStep DEF HoldInv
<1>3. CASE \E c \in Commit : CommitCall(c)
  <2>1. PICK c \in Commit : CommitCall(c)
    BY <1>3
  <2>2. /\ CommitInv(c)'
        /\ Holds(c)' => /\ commit[c] # Fresh /\ commit'[c].id = commit[c].id
                        /\ Holds(c) \/ authority[commit[c].id].stage = "authorised"
        /\ \A d \in Commit \ {c} : commit'[d] = commit[d]
    <3>1. CASE commit[c] = Fresh
      <4>1. PICK id \in ParkedId, agent \in Agent, payload \in Payload :
              BeginCommit(c, id, agent, payload)
        <5>1. commit[c].pc = "idle"
          BY <3>1 DEF Fresh
        <5> QED
          BY <2>1, <5>1 DEF CommitCall, Void, Admit, CheckEnabled, CheckClear, CheckLedger,
             ConsumeApproval, ClaimApproval, StartCommit, AnswerFromStatus, OpenRun, Perform,
             SettleCommit, PutBack, MarkIndeterminate, CloseRun, StoreFails, CommitDies, Step,
             Closing, Before, Trying, Catching
      <4>2. PICK pc \in {"done", "void", "admit"}, answer \in Answers :
              /\ Receive(c, id, agent, payload, pc, answer)
              /\ pc = "admit" => Matches(id, agent, payload)
        BY <4>1, AnswerTyped DEF BeginCommit, Answers
      <4>3. /\ commit'[c] = [pc |-> pc, id |-> id, agent |-> agent, payload |-> payload,
                seen |-> action[id].status, bound |-> action[id].bound, run |-> "none",
                answer |-> answer, landed |-> 0, under |-> stopped]
            /\ \A d \in Commit \ {c} : commit'[d] = commit[d]
            /\ action' = action
        BY <4>2 DEF Receive, HoldInv, TypeOK
      <4>4. /\ commit'[c].pc = pc /\ commit'[c].landed = 0 /\ commit'[c].id = id
            /\ commit'[c].agent = agent /\ commit'[c].payload = payload
            /\ commit'[c].bound = action[id].bound
        BY <4>3
      <4>5. action[id] # Absent
        BY <4>1 DEF BeginCommit
      <4>6. ~Holds(c)'
        BY <4>4 DEF Holds, HoldingAt, Trying, Catching
      <4>7. CarriesRow(c)'
        BY <4>2, <4>3, <4>4, <4>5 DEF CarriesRow, InHand, Matches
      <4>8. LandsOnce(c)' /\ HoldsSpent(c)'
        BY <4>4, <4>6 DEF LandsOnce, HoldsSpent
      <4> QED
        BY <4>3, <4>6, <4>7, <4>8 DEF CommitInv
    <3>2. CASE commit[c] # Fresh
      <4>1. PICK pc \in At, n \in Nat : commit[c] \in Call /\ Progress(c, pc, n)
        BY <2>1, <3>2, CommitProgress DEF HoldInv
      <4>2. /\ CommitInv(c)'
            /\ Holds(c)' => Holds(c) \/ authority[commit[c].id].stage = "authorised"
        BY <3>2, <4>1, ProgressKeeps
      <4> QED
        BY <3>2, <4>1, <4>2 DEF Progress, Becomes
    <3> QED
      BY <3>1, <3>2
  <2>3. \A d \in Commit \ {c} : CommitInv(d)' /\ (Holds(d)' <=> Holds(d))
    BY <2>2, UntouchedKeeps DEF Untouched
  <2>4. ASSUME NEW d \in Commit \ {c}, Holds(c)', Holds(d)', commit'[c].id = commit'[d].id
        PROVE  FALSE
    <3>1. Holds(d) /\ commit'[d].id = commit[d].id /\ commit[c].id = commit[d].id
      BY <2>2, <2>3, <2>4
    <3>2. authority[commit[c].id].stage = "spent"
      BY <3>1 DEF HoldInv, HoldsSpent
    <3>3. Holds(c)
      BY <2>2, <2>4, <3>2
    <3> QED
      BY <3>1, <3>3 DEF HoldInv, OneHolder
  <2>5. OneHolder'
    <3>1. ASSUME NEW d \in Commit \ {c}, NEW e \in Commit \ {c}, Holds(d)', Holds(e)',
                 commit'[d].id = commit'[e].id
          PROVE  d = e
      BY <2>2, <2>3, <3>1 DEF HoldInv, OneHolder
    <3> QED
      BY <2>4, <3>1 DEF OneHolder
  <2> QED
    BY <1>1, <1>2, <2>2, <2>3, <2>5 DEF HoldInv, CommitInv
<1>4. CASE \A c \in Commit : Untouched(c)
  <2>1. \A c \in Commit : CommitInv(c)' /\ (Holds(c)' <=> Holds(c))
    BY <1>4, UntouchedKeeps
  <2>2. OneHolder'
    BY <1>4, <2>1 DEF HoldInv, OneHolder, Untouched, Holds
  <2> QED
    BY <1>1, <1>2, <2>1, <2>2 DEF HoldInv, CommitInv
<1>5. CASE ~\E c \in Commit : CommitCall(c)
  <2>1. CASE commit' = commit
    BY <2>1, <1>4 DEF Untouched
  <2>2. ASSUME NEW lever \in Lever, Resume(lever)
        PROVE  \A c \in Commit : Untouched(c)
    <3> TAKE c \in Commit
    <3>1. CASE commit[c] = Fresh
      BY <2>2, <3>1 DEF Resume, Untouched
    <3>2. CASE commit[c] # Fresh
      <4>1. commit[c] \in Call
        BY <3>2 DEF HoldInv, TypeOK
      <4>2. commit'[c] = [commit[c] EXCEPT !.under = @ \ Lifted(lever)]
        BY <2>2, <3>2 DEF Resume
      <4>3. commit'[c].pc # "idle"
        BY <4>1, <4>2 DEF Call, At, Before, Trying, Catching
      <4> QED
        BY <3>2, <4>1, <4>2, <4>3 DEF Untouched, Call, Fresh
    <3> QED
      BY <3>1, <3>2
  <2>3. CASE \E lever \in Lever : Resume(lever)
    BY <2>2, <2>3, <1>4
  <2>4. CASE ~\E lever \in Lever : Resume(lever)
    BY <1>5, <2>1, <2>4 DEF Next, ParkCall, Park, RequestApproval, RequestFails, Bind, Release,
       ParkDies, Maintenance, ListStale, MarkStale, ExpireParkedActions, ExpireApprovals,
       EvictUsedApprovals, Decide, Stop, Tick, PauseTakesEffect, vars
  <2> QED
    BY <2>3, <2>4
<1> QED
  BY <1>3, <1>5

\* The invariant holds of every behaviour, whatever crashes, sweeps and store
\* faults come in between, and for any number of racing commits.
LEMMA HoldAlways == Spec => []HoldInv
<1>1. Init => HoldInv
  BY ExecutionAssumption DEF Init, HoldInv, TypeOK, Approval, Unasked, RaisedOnce, OneHolder,
     Holds, LandsOnce, CarriesRow, InHand, HoldsSpent, Fresh
<1>2. HoldInv /\ [Next]_vars => HoldInv'
  BY HoldStep
<1> QED
  BY <1>1, <1>2, PTL DEF Spec

\* One approval pays for one outbound call: the effect of a parked action lands at
\* most once, however many commits race on it.
THEOREM EffectOnce == Spec => []EffectAtMostOnce
<1>1. HoldInv => EffectAtMostOnce
  BY DEF HoldInv, EffectAtMostOnce, LandsOnce, OneHolder, Holds
<1> QED
  BY <1>1, HoldAlways, PTL

\* And what lands is what a person approved, for the agent that asked for it.
THEOREM EffectApproved == Spec => []EffectAsApproved
<1>1. HoldInv => EffectAsApproved
  BY DEF HoldInv, EffectAsApproved, CarriesRow, HoldsSpent, InHand, Holds
<1> QED
  BY <1>1, HoldAlways, PTL
-----------------------------------------------------------------------------
(* What the record is worth: a lever pulled before a commit began stops it,  *)
(* the used-approval ledger never forgets, and, where no store call fails, a *)
(* row that reads untouched has had no effect and no caller is told more     *)
(* than the record holds.                                                    *)

\* A commit call whose record has become this, and nobody else's has changed.
Turns(c, pc, run, answer, landed) ==
  /\ commit'[c] # Fresh
  /\ commit'[c].pc = pc /\ commit'[c].run = run
  /\ commit'[c].answer = answer /\ commit'[c].landed = landed
  /\ commit'[c].id = commit[c].id /\ commit'[c].agent = commit[c].agent
  /\ commit'[c].seen = commit[c].seen /\ commit'[c].under = commit[c].under
  /\ \A d \in Commit \ {c} : commit'[d] = commit[d]

Turning(call, pc, run, answer, landed) ==
  [call EXCEPT !.pc = pc, !.run = run, !.answer = answer, !.landed = landed]

LEMMA TurningFields ==
  ASSUME NEW call \in Call, NEW pc \in At, NEW run, NEW answer, NEW landed
  PROVE  LET next == Turning(call, pc, run, answer, landed) IN
         /\ next # Fresh /\ next.pc = pc /\ next.run = run /\ next.answer = answer
         /\ next.landed = landed /\ next.id = call.id /\ next.agent = call.agent
         /\ next.seen = call.seen /\ next.under = call.under
<1> DEFINE next == Turning(call, pc, run, answer, landed)
<1>1. next = [call EXCEPT !.pc = pc, !.run = run, !.answer = answer, !.landed = landed]
  BY DEF Turning
<1> HIDE DEF next
<1>2. next.pc = pc /\ next.run = run /\ next.answer = answer /\ next.landed = landed
  BY <1>1 DEF Call
<1>3. /\ next.id = call.id /\ next.agent = call.agent
      /\ next.seen = call.seen /\ next.under = call.under
  BY <1>1 DEF Call
<1>4. next.pc # "idle"
  BY <1>2 DEF At, Before, Trying, Catching
<1>5. next # Fresh
  BY <1>4 DEF Fresh
<1> QED
  BY <1>2, <1>3, <1>5 DEF next

LEMMA Turn ==
  ASSUME TypeOK, NEW c \in Commit, commit[c] \in Call, NEW pc \in At,
         NEW run, NEW answer, NEW landed,
         commit' = [commit EXCEPT ![c] = Turning(commit[c], pc, run, answer, landed)]
  PROVE  Turns(c, pc, run, answer, landed)
<1>1. commit'[c] = Turning(commit[c], pc, run, answer, landed)
  BY DEF TypeOK
<1>2. \A d \in Commit \ {c} : commit'[d] = commit[d]
  BY DEF TypeOK
<1> QED
  BY <1>1, <1>2, TurningFields DEF Turns

LEMMA GotoTurns ==
  ASSUME TypeOK, NEW c \in Commit, commit[c] \in Call, NEW pc \in At, Goto(c, pc)
  PROVE  Turns(c, pc, commit[c].run, commit[c].answer, commit[c].landed)
<1>1. [commit[c] EXCEPT !.pc = pc]
        = Turning(commit[c], pc, commit[c].run, commit[c].answer, commit[c].landed)
  BY DEF Turning, Call
<1>2. commit' = [commit EXCEPT ![c] = [commit[c] EXCEPT !.pc = pc]]
  BY DEF Goto, TypeOK
<1> QED
  BY <1>1, <1>2, Turn

LEMMA ReplyTurns ==
  ASSUME TypeOK, NEW c \in Commit, commit[c] \in Call, NEW answer, Reply(c, answer)
  PROVE  Turns(c, "done", commit[c].run, answer, commit[c].landed)
<1>1. [commit[c] EXCEPT !.pc = "done", !.answer = answer]
        = Turning(commit[c], "done", commit[c].run, answer, commit[c].landed)
  BY DEF Turning, Call
<1>2. commit' = [commit EXCEPT ![c] = [commit[c] EXCEPT !.pc = "done", !.answer = answer]]
  BY DEF Reply, TypeOK
<1>3. "done" \in At
  BY DEF At
<1> QED
  BY <1>1, <1>2, <1>3, Turn

LEMMA RunTurns ==
  ASSUME TypeOK, NEW c \in Commit, commit[c] \in Call, NEW pc \in At, NEW run, NEW answer,
         commit' = [commit EXCEPT ![c].pc = pc, ![c].run = run, ![c].answer = answer]
  PROVE  Turns(c, pc, run, answer, commit[c].landed)
<1>1. [commit[c] EXCEPT !.pc = pc, !.run = run, !.answer = answer]
        = Turning(commit[c], pc, run, answer, commit[c].landed)
  BY DEF Turning, Call
<1>2. commit' = [commit EXCEPT ![c] =
                   [commit[c] EXCEPT !.pc = pc, !.run = run, !.answer = answer]]
  BY DEF TypeOK
<1> QED
  BY <1>1, <1>2, Turn

LEMMA LandTurns ==
  ASSUME TypeOK, NEW c \in Commit, commit[c] \in Call, NEW pc \in At, NEW n \in {0, 1},
         commit' = [commit EXCEPT ![c].pc = pc, ![c].landed = @ + n]
  PROVE  Turns(c, pc, commit[c].run, commit[c].answer, commit[c].landed + n)
<1> DEFINE landed == commit[c].landed + n
<1>1. commit' = [commit EXCEPT ![c] = [commit[c] EXCEPT !.pc = pc, !.landed = landed]]
  BY DEF TypeOK
<1> HIDE DEF landed
<1>2. [commit[c] EXCEPT !.pc = pc, !.landed = landed]
        = Turning(commit[c], pc, commit[c].run, commit[c].answer, landed)
  BY DEF Turning, Call
<1>3. Turns(c, pc, commit[c].run, commit[c].answer, landed)
  BY <1>1, <1>2, Turn
<1> QED
  BY <1>3 DEF landed

-----------------------------------------------------------------------------
(* What one step of a commit that has begun can be, without its wording.    *)

Begun(c) == commit[c] # Fresh

\* It goes on to another call before the run is opened, or ends there: refused, dead,
\* failing, or answered from the status.
GoesOn(c) ==
  \E pc \in At, answer \in Answers :
    /\ Turns(c, pc, commit[c].run, answer, commit[c].landed)
    /\ commit[c].pc \in Before
    /\ \/ pc \in Before \ {"void", "admit", "open"} /\ answer = commit[c].answer
          /\ commit[c].pc \notin {"void", "open"} /\ UNCHANGED action
          /\ (commit[c].pc = "admit" => Admitted(c))
       \/ pc = "open" /\ answer = commit[c].answer /\ commit[c].pc = "start" /\ Writes(c)
          /\ CanMove(commit[c].id, commit[c].seen)
       \/ pc = "done" /\ answer \in {"denied", StatusAnswer(commit[c].id)}
            /\ (answer # "denied" => commit[c].pc = "status" /\ UNCHANGED action)

Opens(c) ==
  /\ commit[c].pc = "open" /\ UNCHANGED action
  /\ Turns(c, "perform", "running", commit[c].answer, commit[c].landed)

Calls(c) ==
  /\ commit[c].pc = "perform" /\ UNCHANGED action
  /\ \/ Turns(c, "back", commit[c].run, commit[c].answer, commit[c].landed)
     \/ /\ "connector" \notin stopped
        /\ \E pc \in {"settle", "doubt"}, n \in {0, 1} :
             /\ Turns(c, pc, commit[c].run, commit[c].answer, commit[c].landed + n)
             /\ pc = "settle" => n = 1

\* It records the result, or that there is none.
Records(c) ==
  /\ Writes(c)
  /\ \/ /\ commit[c].pc = "settle" /\ CanMove(commit[c].id, "committing")
        /\ Turns(c, "runDone", commit[c].run, commit[c].answer, commit[c].landed)
     \/ /\ commit[c].pc = "settle"
        /\ Turns(c, "runLost", commit[c].run, commit[c].answer, commit[c].landed)
     \/ /\ commit[c].pc = "back"
        /\ Turns(c, "runRefused", commit[c].run, commit[c].answer, commit[c].landed)
     \/ /\ commit[c].pc = "doubt"
        /\ Turns(c, "runDoubt", commit[c].run, commit[c].answer, commit[c].landed)

Closes(c) ==
  /\ commit[c].pc \in Closing /\ UNCHANGED action
  /\ \E answer \in {"completed", "denied", "indeterminate"} :
       /\ Turns(c, "done", RunAfter(c), answer, commit[c].landed)
       /\ answer = "completed" => commit[c].pc = "runDone"
       /\ answer = "denied" => commit[c].pc = "runRefused"

Dies(c) ==
  /\ UNCHANGED action
  /\ Turns(c, "done", commit[c].run, commit[c].answer, commit[c].landed)

Fails(c) ==
  /\ budget.faults < MaxFaults
  /\ \E pc \in {"back", "done"}, answer \in Answers, run \in {commit[c].run, RunAfter(c)} :
       /\ Turns(c, pc, run, answer, commit[c].landed)
       /\ pc = "back" => commit[c].pc \in Trying

LEMMA CommitTurns ==
  ASSUME TypeOK, NEW c \in Commit, CommitCall(c), Begun(c)
  PROVE  /\ commit[c] \in Call
         /\ \/ GoesOn(c) \/ Opens(c) \/ Calls(c) \/ Records(c) \/ Closes(c) \/ Dies(c)
            \/ Fails(c)
<1>0. commit[c] \in Call
  BY DEF TypeOK, Begun
<1>1. /\ commit[c].landed \in Nat /\ commit[c].pc \in At /\ commit[c].answer \in Answers
      /\ commit[c].run \in {"none", "running", "succeeded", "failed"}
  BY <1>0 DEF Call, Answers
<1>a. At = Before \cup {"perform"} \cup Trying \cup Catching \cup {"done"}
  BY DEF At
<1>2. ~\E id \in ParkedId, agent \in Agent, payload \in Payload :
         BeginCommit(c, id, agent, payload)
  BY DEF BeginCommit, Begun
<1>3. CASE Void(c)
  <2>1. Turns(c, "done", commit[c].run, "denied", commit[c].landed) /\ commit[c].pc = "void"
    BY <1>0, <1>3, ReplyTurns DEF Void, Step
  <2> QED
    BY <1>0, <2>1 DEF GoesOn, At, Before, Answers
<1>4. CASE AnswerFromStatus(c)
  <2>1. /\ Turns(c, "done", commit[c].run, StatusAnswer(commit[c].id), commit[c].landed)
        /\ commit[c].pc = "status" /\ UNCHANGED action
    BY <1>0, <1>4, ReplyTurns DEF AnswerFromStatus, Step, Writes
  <2> QED
    BY <1>0, <2>1, AnswerTyped DEF GoesOn, At, Before
<1>5. CASE Admit(c) \/ CheckEnabled(c) \/ CheckClear(c)
  <2>0. UNCHANGED action
    BY <1>5 DEF Admit, CheckEnabled, CheckClear, Step, Writes
  <2>1. /\ commit[c].pc \in {"admit", "enabled", "clear"}
        /\ \/ Turns(c, "done", commit[c].run, "denied", commit[c].landed)
           \/ /\ commit[c].pc = "admit" => Admitted(c)
              /\ \E pc \in {"enabled", "clear", "ledger"} :
                   Turns(c, pc, commit[c].run, commit[c].answer, commit[c].landed)
    <3>1. \A pc \in {"enabled", "clear", "ledger"} : Goto(c, pc) =>
            Turns(c, pc, commit[c].run, commit[c].answer, commit[c].landed)
      BY <1>0, GotoTurns DEF At, Before
    <3>2. Reply(c, "denied") => Turns(c, "done", commit[c].run, "denied", commit[c].landed)
      BY <1>0, ReplyTurns
    <3> QED
      BY <1>5, <3>1, <3>2 DEF Admit, CheckEnabled, CheckClear, Step
  <2>2. CASE Turns(c, "done", commit[c].run, "denied", commit[c].landed)
    BY <1>0, <2>1, <2>2 DEF GoesOn, At, Before, Answers
  <2>3. CASE /\ commit[c].pc = "admit" => Admitted(c)
             /\ \E pc \in {"enabled", "clear", "ledger"} :
                  Turns(c, pc, commit[c].run, commit[c].answer, commit[c].landed)
    BY <1>0, <1>1, <2>0, <2>1, <2>3 DEF GoesOn, At, Before
  <2> QED
    BY <2>1, <2>2, <2>3
<1>6. CASE CheckLedger(c) \/ ConsumeApproval(c) \/ ClaimApproval(c)
  <2>0. UNCHANGED action
    BY <1>6 DEF CheckLedger, ConsumeApproval, ClaimApproval, Step, Writes
  <2>1. /\ commit[c].pc \in {"ledger", "consume", "claim"}
        /\ \/ Turns(c, "done", commit[c].run, "denied", commit[c].landed)
           \/ \E pc \in {"status", "consume", "claim", "start"} :
                Turns(c, pc, commit[c].run, commit[c].answer, commit[c].landed)
    <3>1. \A pc \in {"status", "consume", "claim", "start"} : Goto(c, pc) =>
            Turns(c, pc, commit[c].run, commit[c].answer, commit[c].landed)
      BY <1>0, GotoTurns DEF At, Before
    <3>2. Reply(c, "denied") => Turns(c, "done", commit[c].run, "denied", commit[c].landed)
      BY <1>0, ReplyTurns
    <3> QED
      BY <1>6, <3>1, <3>2 DEF CheckLedger, ConsumeApproval, ClaimApproval, Step
  <2>2. CASE Turns(c, "done", commit[c].run, "denied", commit[c].landed)
    BY <1>0, <2>1, <2>2 DEF GoesOn, At, Before, Answers
  <2>3. CASE \E pc \in {"status", "consume", "claim", "start"} :
                  Turns(c, pc, commit[c].run, commit[c].answer, commit[c].landed)
    BY <1>0, <1>1, <2>0, <2>1, <2>3 DEF GoesOn, At, Before
  <2> QED
    BY <2>1, <2>2, <2>3
<1>7. CASE StartCommit(c)
  <2>1. CASE CanMove(commit[c].id, commit[c].seen)
    <3>1. Turns(c, "open", commit[c].run, commit[c].answer, commit[c].landed)
          /\ commit[c].pc = "start" /\ Writes(c)
      BY <1>0, <1>7, <2>1, GotoTurns DEF StartCommit, Step, At, Before
    <3>2. "open" \in At /\ "start" \in Before
      BY DEF At, Before
    <3> QED
      BY <1>0, <1>1, <2>1, <3>1, <3>2 DEF GoesOn
  <2>2. CASE ~CanMove(commit[c].id, commit[c].seen)
    <3>1. Turns(c, "status", commit[c].run, commit[c].answer, commit[c].landed)
          /\ commit[c].pc = "start" /\ UNCHANGED action
      BY <1>0, <1>7, <2>2, GotoTurns DEF StartCommit, Step, Writes, Move, At, Before
    <3>2. /\ "status" \in At /\ "start" \in Before
          /\ "status" \in Before \ {"void", "admit", "open"}
      BY DEF At, Before
    <3> QED
      BY <1>0, <1>1, <3>1, <3>2 DEF GoesOn
  <2> QED
    BY <2>1, <2>2
<1>8. CASE OpenRun(c)
  <2>1. commit[c].pc = "open" /\ UNCHANGED action
    BY <1>8 DEF OpenRun, Step, Writes
  <2>2. RunAfter(c) = "running"
    BY <2>1 DEF RunAfter, Closing
  <2>3. [commit[c] EXCEPT !.pc = "perform", !.run = "running"]
          = Turning(commit[c], "perform", "running", commit[c].answer, commit[c].landed)
    BY <1>0 DEF Turning, Call
  <2>4. commit' = [commit EXCEPT ![c] = [commit[c] EXCEPT !.pc = "perform", !.run = "running"]]
    BY <1>8, <2>2 DEF OpenRun, TypeOK
  <2>5. "perform" \in At
    BY DEF At
  <2>6. Turns(c, "perform", "running", commit[c].answer, commit[c].landed)
    BY <1>0, <2>3, <2>4, <2>5, Turn
  <2> QED
    BY <1>0, <2>1, <2>6 DEF Opens
<1>9. CASE Perform(c)
  <2>1. commit[c].pc = "perform" /\ UNCHANGED action
    BY <1>9 DEF Perform, Step, Writes
  <2>2. {"back", "settle", "doubt"} \subseteq At
    BY DEF At, Trying, Catching
  <2>3. CASE Goto(c, "back")
    BY <1>0, <2>1, <2>2, <2>3, GotoTurns DEF Calls
  <2>4. CASE /\ "connector" \notin stopped
             /\ commit' = [commit EXCEPT ![c].pc = "settle", ![c].landed = @ + 1]
    <3>1. Turns(c, "settle", commit[c].run, commit[c].answer, commit[c].landed + 1)
      BY <1>0, <2>2, <2>4, LandTurns
    <3> QED
      BY <1>0, <2>1, <2>4, <3>1 DEF Calls
  <2>5. CASE /\ "connector" \notin stopped
             /\ \E n \in {0, 1} :
                  commit' = [commit EXCEPT ![c].pc = "doubt", ![c].landed = @ + n]
    <3>1. PICK n \in {0, 1} : commit' = [commit EXCEPT ![c].pc = "doubt", ![c].landed = @ + n]
      BY <2>5
    <3>2. Turns(c, "doubt", commit[c].run, commit[c].answer, commit[c].landed + n)
      BY <1>0, <2>2, <3>1, LandTurns
    <3> QED
      BY <1>0, <2>1, <2>5, <3>2 DEF Calls
  <2> QED
    BY <1>9, <2>3, <2>4, <2>5 DEF Perform
<1>10. CASE SettleCommit(c) \/ PutBack(c) \/ MarkIndeterminate(c)
  <2>1. \A pc \in {"runDone", "runLost", "runRefused", "runDoubt"} : Goto(c, pc) =>
          Turns(c, pc, commit[c].run, commit[c].answer, commit[c].landed)
    BY <1>0, GotoTurns DEF At, Trying, Catching
  <2> QED
    BY <1>0, <1>10, <2>1 DEF SettleCommit, PutBack, MarkIndeterminate, Step, Records
<1>11. CASE CloseRun(c)
  <2> DEFINE answer == CASE commit[c].pc = "runDone" -> "completed"
                         [] commit[c].pc = "runRefused" -> "denied"
                         [] OTHER -> "indeterminate"
  <2>1. commit[c].pc \in Closing /\ UNCHANGED action
    BY <1>11 DEF CloseRun, Step, Writes, Closing
  <2>2. Turns(c, "done", RunAfter(c), answer, commit[c].landed)
    <3>1. commit' = [commit EXCEPT ![c].pc = "done", ![c].run = RunAfter(c), ![c].answer = answer]
      BY <1>11 DEF CloseRun
    <3>2. "done" \in At
      BY DEF At
    <3> HIDE DEF answer
    <3> QED
      BY <1>0, <3>1, <3>2, RunTurns
  <2>3. /\ answer \in {"completed", "denied", "indeterminate"}
        /\ answer = "completed" => commit[c].pc = "runDone"
        /\ answer = "denied" => commit[c].pc = "runRefused"
    OBVIOUS
  <2> HIDE DEF answer
  <2> QED
    BY <1>0, <2>1, <2>2, <2>3 DEF Closes
<1>12. CASE StoreFails(c)
  <2> DEFINE next == IF commit[c].pc \in Trying THEN "back" ELSE "done"
             answer == IF commit[c].pc \in Trying THEN "none" ELSE "denied"
  <2>1. PICK run \in {commit[c].run, RunAfter(c)} : commit' = [commit EXCEPT
               ![c].pc = next, ![c].answer = answer, ![c].run = run]
    BY <1>12 DEF StoreFails
  <2>2. commit' = [commit EXCEPT ![c] =
          [commit[c] EXCEPT !.pc = next, !.answer = answer, !.run = run]]
    BY <2>1 DEF TypeOK
  <2>3. /\ next \in {"back", "done"} /\ next \in At /\ answer \in Answers
        /\ next = "back" => commit[c].pc \in Trying
    BY DEF At, Catching, Answers
  <2> HIDE DEF next, answer
  <2>4. [commit[c] EXCEPT !.pc = next, !.answer = answer, !.run = run]
          = Turning(commit[c], next, run, answer, commit[c].landed)
    BY <1>0 DEF Turning, Call
  <2>5. Turns(c, next, run, answer, commit[c].landed)
    BY <1>0, <2>2, <2>3, <2>4, Turn
  <2>6. budget.faults < MaxFaults
    BY <1>12 DEF StoreFails
  <2> QED
    BY <1>0, <2>3, <2>5, <2>6 DEF Fails
<1>13. CASE CommitDies(c)
  <2>1. Turns(c, "done", commit[c].run, commit[c].answer, commit[c].landed)
    BY <1>0, <1>13, GotoTurns DEF CommitDies, At
  <2> QED
    BY <1>0, <1>13, <2>1 DEF Dies, CommitDies
<1> QED
  BY <1>0, <1>2, <1>3, <1>4, <1>5, <1>6, <1>7, <1>8, <1>9, <1>10, <1>11, <1>12, <1>13
     DEF CommitCall

\* The start of a commit: what it has read, and where it goes.
LEMMA CommitBegins ==
  ASSUME TypeOK, NEW c \in Commit, CommitCall(c), ~Begun(c)
  PROVE  \E id \in ParkedId, pc \in {"done", "void", "admit"}, answer \in Answers :
           /\ commit'[c] # Fresh /\ commit'[c].pc = pc /\ commit'[c].id = id
           /\ commit'[c].seen = action[id].status /\ commit'[c].run = "none"
           /\ commit'[c].answer = answer /\ commit'[c].landed = 0 /\ commit'[c].under = stopped
           /\ \A d \in Commit \ {c} : commit'[d] = commit[d]
           /\ UNCHANGED action /\ action[id] # Absent
           /\ pc # "done" => answer = "none" /\ ~Settled(id)
           /\ pc = "done" => answer \in {"denied", StatusAnswer(id)}
<1>1. commit[c].pc = "idle"
  BY DEF Begun, Fresh
<1>2. PICK id \in ParkedId, agent \in Agent, payload \in Payload :
        BeginCommit(c, id, agent, payload)
  BY <1>1 DEF CommitCall, Void, Admit, CheckEnabled, CheckClear, CheckLedger,
     ConsumeApproval, ClaimApproval, StartCommit, AnswerFromStatus, OpenRun, Perform,
     SettleCommit, PutBack, MarkIndeterminate, CloseRun, StoreFails, CommitDies, Step,
     Closing, Before, Trying, Catching
<1>3. PICK pc \in {"done", "void", "admit"}, answer \in Answers :
        /\ Receive(c, id, agent, payload, pc, answer) /\ action[id] # Absent
        /\ pc # "done" => answer = "none" /\ ~Settled(id)
        /\ pc = "done" => answer \in {"denied", StatusAnswer(id)}
  BY <1>2, AnswerTyped DEF BeginCommit, Answers
<1>4. /\ commit'[c] = [pc |-> pc, id |-> id, agent |-> agent, payload |-> payload,
          seen |-> action[id].status, bound |-> action[id].bound, run |-> "none",
          answer |-> answer, landed |-> 0, under |-> stopped]
      /\ \A d \in Commit \ {c} : commit'[d] = commit[d]
      /\ action' = action
  BY <1>3 DEF Receive, TypeOK
<1>5. /\ commit'[c].pc = pc /\ commit'[c].id = id /\ commit'[c].seen = action[id].status
      /\ commit'[c].run = "none" /\ commit'[c].answer = answer
      /\ commit'[c].landed = 0 /\ commit'[c].under = stopped
  BY <1>4
<1>6. commit'[c] # Fresh
  BY <1>5 DEF Fresh
<1> QED
  BY <1>3, <1>4, <1>5, <1>6

LEMMA CommitLeavesLevers ==
  ASSUME NEW c \in Commit, CommitCall(c)
  PROVE  UNCHANGED stopped
BY SMTT(60) DEF CommitCall, BeginCommit, Receive, Void, Admit, CheckEnabled, CheckClear, CheckLedger,
   ConsumeApproval, ClaimApproval, StartCommit, AnswerFromStatus, OpenRun, Perform,
   SettleCommit, PutBack, MarkIndeterminate, CloseRun, StoreFails, CommitDies, Step

\* What a lever that is lifted changes in a commit: nothing but the levers it is under.
LEMMA ResumeChanges ==
  ASSUME TypeOK, NEW lever \in Lever, Resume(lever), NEW c \in Commit
  PROVE  /\ Begun(c)' <=> Begun(c)
         /\ Begun(c) =>
              /\ commit'[c].under = commit[c].under \ Lifted(lever)
              /\ commit'[c].pc = commit[c].pc /\ commit'[c].landed = commit[c].landed
              /\ commit'[c].id = commit[c].id /\ commit'[c].agent = commit[c].agent
              /\ commit'[c].run = commit[c].run /\ commit'[c].answer = commit[c].answer
              /\ commit'[c].seen = commit[c].seen
<1>1. CASE ~Begun(c)
  BY <1>1 DEF Resume, Begun
<1>2. CASE Begun(c)
  <2>1. commit[c] \in Call
    BY <1>2 DEF Begun, TypeOK
  <2>2. commit'[c] = [commit[c] EXCEPT !.under = @ \ Lifted(lever)]
    BY <1>2 DEF Resume, Begun
  <2>3. /\ commit'[c].under = commit[c].under \ Lifted(lever)
        /\ commit'[c].pc = commit[c].pc /\ commit'[c].landed = commit[c].landed
        /\ commit'[c].id = commit[c].id /\ commit'[c].agent = commit[c].agent
        /\ commit'[c].run = commit[c].run /\ commit'[c].answer = commit[c].answer
        /\ commit'[c].seen = commit[c].seen
    BY <2>1, <2>2 DEF Call
  <2>4. commit'[c].pc # "idle"
    BY <2>1, <2>3 DEF Call, At, Before, Trying, Catching
  <2> QED
    BY <1>2, <2>3, <2>4 DEF Begun, Fresh
<1> QED
  BY <1>1, <1>2

\* A step that is no commit's and lifts no lever leaves every commit as it is.
LEMMA OthersLeaveCommits ==
  ASSUME [Next]_vars, ~\E c \in Commit : CommitCall(c), ~\E lever \in Lever : Resume(lever)
  PROVE  commit' = commit /\ stopped \subseteq stopped'
BY DEF Next, ParkCall, Park, RequestApproval, RequestFails, Bind, Release, ParkDies,
   Maintenance, ListStale, MarkStale, ExpireParkedActions, ExpireApprovals,
   EvictUsedApprovals, Decide, Stop, Tick, PauseTakesEffect, vars

-----------------------------------------------------------------------------
(* A lever pulled before a commit began.                                    *)

Heeds(c) ==
  Begun(c) =>
    /\ commit[c].under \subseteq stopped
    /\ commit[c].pc \notin {"void", "admit", "done"} =>
         commit[c].under \cap {commit[c].agent, "platform"} = {}
    /\ commit[c].landed > 0 =>
         commit[c].under \cap {commit[c].agent, "platform", "connector"} = {}

StopInv == HoldInv /\ \A c \in Commit : Heeds(c)

LEMMA HeedsStep ==
  ASSUME StopInv, NEW c \in Commit, CommitCall(c)
  PROVE  Heeds(c)'
<1>1. TypeOK /\ LandsOnce(c) /\ Heeds(c) /\ stopped' = stopped
  BY CommitLeavesLevers DEF StopInv, HoldInv
<1>2. CASE ~Begun(c)
  <2>1. /\ commit'[c].pc \in {"done", "void", "admit"}
        /\ commit'[c].landed = 0 /\ commit'[c].under = stopped
    BY <1>1, <1>2, CommitBegins
  <2> QED
    BY <1>1, <2>1 DEF Heeds
<1>3. CASE Begun(c)
  <2>0. commit[c] \in Call /\ commit[c].landed \in Nat
    BY <1>1, <1>3, CommitTurns DEF Call
  <2>1. CASE GoesOn(c)
    <3>0. PICK pc \in At, answer \in Answers :
            /\ Turns(c, pc, commit[c].run, answer, commit[c].landed)
            /\ commit[c].pc \in Before
            /\ \/ pc \in Before \ {"void", "admit", "open"} /\ answer = commit[c].answer
                  /\ commit[c].pc \notin {"void", "open"} /\ UNCHANGED action
                  /\ (commit[c].pc = "admit" => Admitted(c))
               \/ pc = "open" /\ answer = commit[c].answer /\ commit[c].pc = "start" /\ Writes(c)
                  /\ CanMove(commit[c].id, commit[c].seen)
               \/ pc = "done" /\ answer \in {"denied", StatusAnswer(commit[c].id)}
                    /\ (answer # "denied" => commit[c].pc = "status" /\ UNCHANGED action)
      BY <2>1, Zenon DEF GoesOn
    <3>1. /\ Turns(c, pc, commit[c].run, answer, commit[c].landed)
          /\ commit[c].pc \in Before
          /\ \/ pc = "done"
             \/ commit[c].pc # "void" /\ (commit[c].pc = "admit" => Admitted(c))
      BY <3>0
    <3>2. commit[c].pc = "admit" /\ Admitted(c) =>
            commit[c].under \cap {commit[c].agent, "platform"} = {}
      BY <1>1, <1>3 DEF Heeds, Admitted
    <3>3. commit[c].pc # "done"
      BY <3>1 DEF Before
    <3> QED
      BY <1>1, <1>3, <3>1, <3>2, <3>3 DEF Heeds, Turns
  <2>2. CASE Opens(c) \/ Records(c)
    <3>1. PICK pc : /\ Turns(c, pc, commit'[c].run, commit[c].answer, commit[c].landed)
                    /\ commit[c].pc \notin {"void", "admit", "done"}
      BY <2>2 DEF Opens, Records, Turns
    <3> QED
      BY <1>1, <1>3, <3>1 DEF Heeds, Turns
  <2>3. CASE Calls(c)
    <3>1. commit[c].pc = "perform"
      BY <2>3 DEF Calls
    <3>2. commit[c].under \cap {commit[c].agent, "platform"} = {}
      BY <1>1, <1>3, <3>1 DEF Heeds
    <3>3. CASE Turns(c, "back", commit[c].run, commit[c].answer, commit[c].landed)
      BY <1>1, <1>3, <3>2, <3>3 DEF Heeds, Turns
    <3>4. CASE /\ "connector" \notin stopped
               /\ \E pc \in {"settle", "doubt"}, n \in {0, 1} :
                    /\ Turns(c, pc, commit[c].run, commit[c].answer, commit[c].landed + n)
                    /\ pc = "settle" => n = 1
      <4>1. commit[c].under \cap {commit[c].agent, "platform", "connector"} = {}
        BY <1>1, <1>3, <3>2, <3>4 DEF Heeds
      <4> QED
        BY <1>1, <1>3, <3>2, <3>4, <4>1 DEF Heeds, Turns
    <3> QED
      BY <2>3, <3>3, <3>4 DEF Calls
  <2>4. CASE Closes(c) \/ Dies(c) \/ Fails(c)
    <3>1. PICK pc, run, answer :
            /\ pc \in {"back", "done"}
            /\ Turns(c, pc, run, answer, commit[c].landed)
            /\ pc = "back" => commit[c].pc \in Trying
      BY <2>4 DEF Closes, Dies, Fails
    <3> QED
      BY <1>1, <1>3, <3>1 DEF Heeds, Turns, Trying
  <2> QED
    BY <1>1, <1>3, <2>1, <2>2, <2>3, <2>4, CommitTurns
<1> QED
  BY <1>2, <1>3

LEMMA OthersUntouched ==
  ASSUME TypeOK, NEW c \in Commit, CommitCall(c), NEW d \in Commit \ {c}
  PROVE  commit'[d] = commit[d]
<1>1. CASE ~Begun(c)
  BY <1>1, CommitBegins
<1>2. CASE Begun(c)
  <2>1. GoesOn(c) \/ Opens(c) \/ Calls(c) \/ Records(c) \/ Closes(c) \/ Dies(c) \/ Fails(c)
    BY <1>2, CommitTurns
  <2> QED
    BY <2>1 DEF GoesOn, Opens, Calls, Records, Closes, Dies, Fails, Turns
<1> QED
  BY <1>1, <1>2

LEMMA StopStep == StopInv /\ [Next]_vars => StopInv'
<1> SUFFICES ASSUME StopInv, [Next]_vars PROVE StopInv'
  OBVIOUS
<1>0. HoldInv' /\ TypeOK /\ \A d \in Commit : Heeds(d)
  BY HoldStep DEF StopInv, HoldInv
<1>1. ASSUME NEW c \in Commit, CommitCall(c) PROVE StopInv'
  <2>1. \A d \in Commit \ {c} : commit'[d] = commit[d] /\ stopped' = stopped
    BY <1>0, <1>1, OthersUntouched, CommitLeavesLevers
  <2>2. Heeds(c)'
    BY <1>1, HeedsStep
  <2>3. \A d \in Commit \ {c} : Heeds(d)'
    BY <1>0, <2>1 DEF Heeds, Begun
  <2> QED
    BY <1>0, <2>2, <2>3 DEF StopInv
<1>2. ASSUME NEW lever \in Lever, Resume(lever) PROVE StopInv'
  <2>1. stopped' = stopped \ Lifted(lever)
    BY <1>2 DEF Resume
  <2>2. ASSUME NEW c \in Commit PROVE Heeds(c)'
    BY <1>0, <1>2, <2>1, ResumeChanges DEF Heeds
  <2> QED
    BY <1>0, <2>2 DEF StopInv
<1>3. CASE ~(\E c \in Commit : CommitCall(c)) /\ ~\E lever \in Lever : Resume(lever)
  <2>1. commit' = commit /\ stopped \subseteq stopped'
    BY <1>3, OthersLeaveCommits
  <2>2. \A c \in Commit : Heeds(c)'
    BY <1>0, <2>1 DEF Heeds, Begun
  <2> QED
    BY <1>0, <2>2 DEF StopInv
<1> QED
  BY <1>1, <1>2, <1>3

\* A commit that began after a lever was in force, and while it stayed so, has no
\* effect: whatever was approved, whatever crashes and fails, for any number of agents.
THEOREM StopHolds == Spec => []StopReachesCommits
<1>1. Init => StopInv
  <2>1. Init => HoldInv
    BY ExecutionAssumption DEF Init, HoldInv, TypeOK, Approval, Unasked, RaisedOnce, OneHolder,
       Holds, LandsOnce, CarriesRow, InHand, HoldsSpent, Fresh
  <2> QED
    BY <2>1 DEF Init, StopInv, Heeds, Begun
<1>2. StopInv => StopReachesCommits
  BY DEF StopInv, StopReachesCommits, Heeds, Begun
<1> QED
  BY <1>1, <1>2, StopStep, PTL DEF Spec

-----------------------------------------------------------------------------
\* An approval once in the used-approval ledger is consumed ever after: an entry is
\* forgotten only below a floor that answers for it.
THEOREM LedgerRemembers == Spec => LedgerNeverForgets
<1>1. ASSUME TypeOK, [Next]_vars, NEW id \in ParkedId, Consumed(id)
      PROVE  Consumed(id)'
  <2>1. CASE UNCHANGED ledger
    BY <1>1, <2>1 DEF Consumed
  <2>2. ASSUME NEW c \in Commit, commit[c].pc # "idle", Writes(c)
        PROVE  Consumed(id)'
    <3>1. commit[c].id \in ParkedId /\ now \in Nat
      BY <1>1, <2>2, AtCall DEF Call, TypeOK
    <3>2. CASE ledger' = [ledger EXCEPT !.used[commit[c].id] = now]
      <4>1. /\ ledger'.floor = ledger.floor
            /\ ledger'.used = [ledger.used EXCEPT ![commit[c].id] = now]
        BY <1>1, <3>2 DEF TypeOK
      <4>2. ledger'.used[id] = now \/ ledger'.used[id] = ledger.used[id]
        BY <1>1, <3>1, <4>1 DEF TypeOK
      <4> QED
        BY <1>1, <3>1, <4>1, <4>2 DEF Consumed
    <3> QED
      BY <2>1, <2>2, <3>2 DEF Writes
  <2>3. CASE EvictUsedApprovals
    <3>1. PICK floor \in RaisedFloors :
            ledger' = [used |-> [i \in ParkedId |-> IF i \in Evictable THEN -1 ELSE ledger.used[i]],
                       floor |-> floor]
      BY <2>3 DEF EvictUsedApprovals
    <3>2. ledger'.floor = floor /\ ledger'.used[id] = IF id \in Evictable THEN -1 ELSE ledger.used[id]
      BY <3>1
    <3>3. /\ floor >= ledger.floor /\ (id \in Evictable => floor >= Rank[id])
          /\ floor \in {ledger.floor} \cup {Rank[i] : i \in Evictable}
      BY DEF RaisedFloors
    <3>4. floor \in Nat /\ ledger.floor \in Nat /\ Rank[id] \in Nat
      BY <1>1, <3>3, ExecutionAssumption DEF TypeOK, Evictable
    <3> QED
      BY <1>1, <3>2, <3>3, <3>4 DEF Consumed
  <2>4. ASSUME NEW c \in Commit, CommitCall(c)
        PROVE  Consumed(id)'
    <3>1. UNCHANGED ledger \/ (commit[c].pc # "idle" /\ Writes(c))
      BY <2>4, CommitWrites
    <3> QED
      BY <2>1, <2>2, <3>1
  <2>5. CASE ~(\E c \in Commit : CommitCall(c)) /\ ~EvictUsedApprovals
    <3>1. UNCHANGED ledger
      BY <1>1, <2>5 DEF Next, ParkCall, Park, RequestApproval, RequestFails, Bind, Release, ParkDies,
         Maintenance, ListStale, MarkStale, ExpireParkedActions, ExpireApprovals, Decide, Stop,
         Resume, Tick, PauseTakesEffect, vars
    <3> QED
      BY <2>1, <3>1
  <2> QED
    BY <2>3, <2>4, <2>5
<1>2. TypeOK /\ [Next]_vars => [\A id \in ParkedId : Consumed(id) => Consumed(id)']_vars
  BY <1>1
<1> QED
  BY <1>2, TypeCorrect, PTL DEF Spec, LedgerNeverForgets

-----------------------------------------------------------------------------
(* What the status of a row says of the commits on it, where no store call  *)
(* fails.                                                                   *)

StatusOf(c) == action[commit[c].id].status

Reads(c) ==
  Begun(c) =>
    /\ commit[c].pc \in Before => commit[c].seen \in {"pending", "expired"}
    /\ commit[c].pc # "done" => commit[c].answer = "none"
    /\ commit[c].pc \in {"open", "perform"} \/ commit[c].landed > 0 =>
         StatusOf(c) \in {"committing", "indeterminate", "committed"}
    /\ commit[c].pc \in {"back", "runRefused"} \/ commit[c].answer = "denied" =>
         commit[c].landed = 0
    /\ (\/ commit[c].pc = "runDone" \/ commit[c].run = "succeeded"
        \/ commit[c].answer \in {"completed", "already_done"}) =>
         StatusOf(c) = "committed"

ReadInv == HoldInv /\ \A c \in Commit : Reads(c)

\* A row that is not one a commit has begun to write stays what the commits on it know:
\* what is committing is at most marked.
StatusKept(i) ==
  \/ action'[i].status = action[i].status
  \/ action[i].status = "committing" /\ action'[i].status \in {"indeterminate", "committed"}
  \/ action[i].status \notin {"committing", "indeterminate", "committed"}

LEMMA MoveStatus ==
  ASSUME TypeOK, NEW id \in ParkedId, NEW from \in Status, NEW to, Move(id, from, to)
  PROVE  /\ \A i \in ParkedId \ {id} : action'[i] = action[i]
         /\ CanMove(id, from) => action[id].status = from /\ action'[id].status = to
         /\ ~CanMove(id, from) => action'[id] = action[id]
<1>1. CASE CanMove(id, from)
  <2>1. action[id] \in Row
    BY <1>1 DEF TypeOK, CanMove, Status, Terminal, Absent
  <2>2. /\ action'[id] = [action[id] EXCEPT !.status = to,
                            !.committingAt = IF to = "committing" THEN now ELSE @]
        /\ \A i \in ParkedId \ {id} : action'[i] = action[i]
    BY <1>1 DEF Move, TypeOK
  <2>3. action'[id].status = to
    BY <2>1, <2>2 DEF Row
  <2> QED
    BY <1>1, <2>2, <2>3 DEF CanMove
<1>2. CASE ~CanMove(id, from)
  BY <1>2 DEF Move
<1> QED
  BY <1>1, <1>2

\* Nothing but a commit's put-back takes a row back from committing.
LEMMA OthersKeepStatus ==
  ASSUME TypeOK, [Next]_vars, ~\E c \in Commit : CommitCall(c), NEW i \in ParkedId
  PROVE  StatusKept(i)
<1>0. CASE action'[i] = action[i]
  BY <1>0 DEF StatusKept
<1>1. ASSUME NEW id \in ParkedId, NEW agent \in Agent, NEW payload \in Payload,
             Park(id, agent, payload)
      PROVE  StatusKept(i)
  BY <1>0, <1>1 DEF Park, StatusKept, Absent, TypeOK
<1>2. ASSUME NEW id \in ParkedId, Bind(id)
      PROVE  StatusKept(i)
  BY <1>0, <1>2 DEF Bind, StatusKept, TypeOK
<1>3. ASSUME NEW id \in ParkedId, Release(id)
      PROVE  StatusKept(i)
  <2>1. "pending" \in Status
    BY DEF Status
  <2> QED
    BY <1>0, <1>3, <2>1, MoveStatus DEF Release, StatusKept
<1>4. ASSUME NEW id \in ParkedId, MarkStale(id)
      PROVE  StatusKept(i)
  <2>1. "committing" \in Status
    BY DEF Status
  <2> QED
    BY <1>0, <1>4, <2>1, MoveStatus DEF MarkStale, StatusKept
<1>5. CASE ExpireParkedActions
  BY <1>0, <1>5 DEF ExpireParkedActions, Expirable, StatusKept
<1>6. CASE ~(\E id \in ParkedId : Bind(id) \/ Release(id) \/ MarkStale(id))
           /\ ~(\E id \in ParkedId, agent \in Agent, payload \in Payload : Park(id, agent, payload))
           /\ ~ExpireParkedActions
  <2>1. action' = action
    BY <1>6 DEF Next, ParkCall, RequestApproval, RequestFails, ParkDies, Maintenance,
       ListStale, ExpireApprovals, EvictUsedApprovals, Decide, Stop, Resume, Tick,
       PauseTakesEffect, vars
  <2> QED
    BY <1>0, <2>1
<1> QED
  BY <1>1, <1>2, <1>3, <1>4, <1>5, <1>6

\* A commit left alone reads its row as before if the row has kept its status.
LEMMA ReadsKept ==
  ASSUME NEW c \in Commit, Reads(c), Begun(c)' <=> Begun(c),
         Begun(c) =>
           /\ commit'[c].pc = commit[c].pc /\ commit'[c].landed = commit[c].landed
           /\ commit'[c].id = commit[c].id /\ commit'[c].run = commit[c].run
           /\ commit'[c].answer = commit[c].answer /\ commit'[c].seen = commit[c].seen
           /\ StatusKept(commit[c].id)
  PROVE  Reads(c)'
BY DEF Reads, StatusOf, StatusKept

\* What a commit's write does to a row, to the commits on it but the one writing.
LEMMA OthersRead ==
  ASSUME ReadInv, NEW c \in Commit, CommitCall(c), NEW d \in Commit \ {c}
  PROVE  Reads(d)'
<1>1. TypeOK /\ Reads(c) /\ Reads(d) /\ OneHolder /\ commit'[d] = commit[d]
  BY OthersUntouched DEF ReadInv, HoldInv
<1> DEFINE id == commit[c].id
           mine == commit[d].id
<1>2. CASE ~Begun(d)
  BY <1>1, <1>2 DEF Reads, Begun
<1>3. CASE Begun(d) /\ UNCHANGED action
  BY <1>1, <1>3, ReadsKept DEF StatusKept, Begun
<1>4. CASE Begun(d) /\ commit[c].pc # "idle" /\ Writes(c)
  <2>0. /\ commit[c] \in Call /\ id \in ParkedId /\ commit[c].seen \in Status
        /\ commit[d] \in Call /\ mine \in ParkedId /\ Begun(c)
    BY <1>1, <1>4, AtCall DEF Call, Begun, TypeOK, Fresh
  <2>1. CASE action'[mine] = action[mine]
    BY <1>1, <1>4, <2>1, ReadsKept DEF StatusKept, Begun
  <2>2. CASE commit[c].pc \in {"void", "start"}
    <3>1. commit[c].seen \notin {"committing", "indeterminate", "committed"}
      BY <1>1, <2>0, <2>2 DEF Reads, Before
    <3>2. \E to : Move(id, commit[c].seen, to)
      BY <1>4, <2>2 DEF Writes
    <3>3. StatusKept(mine)
      BY <1>1, <2>0, <3>1, <3>2, MoveStatus DEF StatusKept
    <3> QED
      BY <1>1, <1>4, <3>3, ReadsKept DEF Begun
  <2>3. CASE commit[c].pc \in {"settle", "doubt"}
    <3>1. Move(id, "committing", "committed") \/ Move(id, "committing", "indeterminate")
      BY <1>4, <2>3 DEF Writes
    <3>2. "committing" \in Status
      BY DEF Status
    <3>3. StatusKept(mine)
      BY <1>1, <2>0, <3>1, <3>2, MoveStatus DEF StatusKept
    <3> QED
      BY <1>1, <1>4, <3>3, ReadsKept DEF Begun
  <2>4. CASE commit[c].pc = "back"
    <3>1. Move(id, "committing", "pending") /\ "committing" \in Status
      BY <1>4, <2>4 DEF Writes, Status
    <3>2. CASE mine # id
      BY <1>1, <2>0, <2>1, <3>1, <3>2, MoveStatus
    <3>3. CASE mine = id
      <4>1. ~Holds(d)
        BY <1>1, <2>0, <2>4, <3>3 DEF OneHolder, Holds, HoldingAt, Trying, Catching, Begun
      <4>2. commit[d].pc \notin {"open", "perform", "runDone"} /\ ~(commit[d].landed > 0)
        BY <1>4, <4>1 DEF Holds, HoldingAt, Trying, Catching, Begun
      <4>3. action[mine].status = "committed" => action'[mine] = action[mine]
        BY <1>1, <2>0, <3>1, <3>3, MoveStatus
      <4> QED
        BY <1>1, <1>4, <4>2, <4>3 DEF Reads, StatusOf, Begun
    <3> QED
      BY <3>2, <3>3
  <2>5. CASE commit[c].pc \notin {"void", "start", "settle", "doubt", "back"}
    BY <1>4, <2>1, <2>5 DEF Writes
  <2> QED
    BY <2>2, <2>3, <2>4, <2>5
<1> QED
  BY <1>2, <1>3, <1>4, CommitWrites

\* And to what the one writing knows.
LEMMA WriterReads ==
  ASSUME MaxFaults = 0, ReadInv, NEW c \in Commit, CommitCall(c)
  PROVE  Reads(c)'
<1>1. TypeOK /\ LandsOnce(c) /\ Reads(c)
  BY DEF ReadInv, HoldInv
<1>2. CASE ~Begun(c)
  <2>1. PICK id \in ParkedId, pc \in {"done", "void", "admit"}, answer \in Answers :
           /\ commit'[c] # Fresh /\ commit'[c].pc = pc /\ commit'[c].id = id
           /\ commit'[c].seen = action[id].status /\ commit'[c].run = "none"
           /\ commit'[c].answer = answer /\ commit'[c].landed = 0
           /\ UNCHANGED action
           /\ pc # "done" => answer = "none" /\ ~Settled(id)
           /\ pc = "done" => answer \in {"denied", StatusAnswer(id)}
    BY <1>1, <1>2, CommitBegins
  <2>2. answer \in {"completed", "already_done"} => action[id].status = "committed"
    BY <2>1 DEF StatusAnswer
  <2> QED
    BY <2>1, <2>2 DEF Reads, StatusOf, Settled, Before
<1>3. CASE Begun(c)
  <2> DEFINE id == commit[c].id
  <2>0. commit[c] \in Call /\ commit[c].landed \in Nat /\ id \in ParkedId
        /\ commit[c].seen \in Status
    BY <1>1, <1>3, CommitTurns DEF Call
  <2>9. StatusOf(c) = "committed" => action'[id].status = "committed"
    <3>1. [Next]_vars
      BY DEF Next
    <3>2. RowKept(id)
      BY <1>1, <2>0, <3>1, RowsKept
    <3> QED
      BY <3>2 DEF RowKept, StatusOf, Terminal, Absent
  <2>1. CASE GoesOn(c)
    <3>0. PICK pc \in At, answer \in Answers :
            /\ Turns(c, pc, commit[c].run, answer, commit[c].landed)
            /\ commit[c].pc \in Before
            /\ \/ pc \in Before \ {"void", "admit", "open"} /\ answer = commit[c].answer
                  /\ commit[c].pc \notin {"void", "open"} /\ UNCHANGED action
                  /\ (commit[c].pc = "admit" => Admitted(c))
               \/ pc = "open" /\ answer = commit[c].answer /\ commit[c].pc = "start" /\ Writes(c)
                  /\ CanMove(commit[c].id, commit[c].seen)
               \/ pc = "done" /\ answer \in {"denied", StatusAnswer(commit[c].id)}
                    /\ (answer # "denied" => commit[c].pc = "status" /\ UNCHANGED action)
      BY <2>1, Zenon DEF GoesOn
    <3>1. /\ Turns(c, pc, commit[c].run, answer, commit[c].landed)
          /\ commit[c].pc \in Before
          /\ \/ pc \in Before \ {"open"} /\ answer = commit[c].answer
             \/ /\ pc = "open" /\ answer = commit[c].answer /\ commit[c].pc = "start"
                /\ Writes(c) /\ CanMove(id, commit[c].seen)
             \/ /\ pc = "done" /\ answer \in {"denied", StatusAnswer(id)}
                /\ answer # "denied" => UNCHANGED action
      BY <3>0
    <3>2. commit[c].landed = 0 /\ commit[c].answer = "none"
          /\ commit[c].seen \in {"pending", "expired"} /\ commit[c].pc # "done"
      BY <1>1, <1>3, <2>0, <3>1 DEF Reads, LandsOnce, Begun, Before, Trying, Catching
    <3>3. commit[c].run = "succeeded" => StatusOf(c)' = "committed"
      BY <1>1, <1>3, <2>9, <3>1 DEF Reads, StatusOf, Turns
    <3>4. CASE pc \in Before \ {"open"} /\ answer = commit[c].answer
      BY <3>1, <3>2, <3>3, <3>4 DEF Reads, Turns, Before
    <3>5. CASE /\ pc = "open" /\ answer = commit[c].answer /\ commit[c].pc = "start"
               /\ Writes(c) /\ CanMove(id, commit[c].seen)
      <4>1. Move(id, commit[c].seen, "committing")
        BY <3>5 DEF Writes
      <4>2. action'[id].status = "committing" /\ StatusOf(c) # "committed"
        BY <1>1, <2>0, <3>2, <3>5, <4>1, MoveStatus DEF StatusOf
      <4>3. StatusOf(c)' = "committing" /\ commit[c].run # "succeeded"
        BY <1>1, <1>3, <3>1, <4>2 DEF Reads, StatusOf, Turns
      <4> QED
        BY <3>1, <3>2, <3>5, <4>3 DEF Reads, Turns, Before
    <3>6. CASE /\ pc = "done" /\ answer \in {"denied", StatusAnswer(id)}
               /\ answer # "denied" => UNCHANGED action
      <4>1. answer \in {"completed", "already_done"} => StatusOf(c)' = "committed"
        BY <3>1, <3>6 DEF StatusAnswer, StatusOf, Turns
      <4> QED
        BY <3>1, <3>2, <3>3, <3>6, <4>1 DEF Reads, Turns, Before
    <3> QED
      BY <3>1, <3>4, <3>5, <3>6
  <2>2. CASE Opens(c)
    <3>1. /\ commit[c].pc = "open" /\ UNCHANGED action
          /\ Turns(c, "perform", "running", commit[c].answer, commit[c].landed)
      BY <2>2 DEF Opens
    <3> QED
      BY <1>1, <1>3, <3>1 DEF Reads, StatusOf, Turns, Before
  <2>3. CASE Calls(c)
    <3>1. commit[c].pc = "perform" /\ UNCHANGED action
      BY <2>3 DEF Calls
    <3>2. /\ commit[c].landed = 0 /\ commit[c].answer = "none"
          /\ StatusOf(c) \in {"committing", "indeterminate", "committed"}
      BY <1>1, <1>3, <2>0, <3>1 DEF Reads, LandsOnce, Begun, Trying, Catching
    <3>3. PICK pc \in {"back", "settle", "doubt"}, n \in {0, 1} :
            /\ Turns(c, pc, commit[c].run, commit[c].answer, n)
            /\ pc = "back" => n = 0
      BY <2>3, <3>2 DEF Calls
    <3> QED
      BY <1>1, <1>3, <3>1, <3>2, <3>3 DEF Reads, StatusOf, Turns, Before
  <2>4. CASE Records(c)
    <3>0. "committing" \in Status
      BY DEF Status
    <3>1. CASE /\ commit[c].pc = "settle" /\ CanMove(id, "committing") /\ Writes(c)
               /\ Turns(c, "runDone", commit[c].run, commit[c].answer, commit[c].landed)
      <4>1. action'[id].status = "committed"
        BY <1>1, <2>0, <3>0, <3>1, MoveStatus DEF Writes
      <4>2. StatusOf(c)' = "committed"
        BY <3>1, <4>1 DEF StatusOf, Turns
      <4> QED
        BY <1>1, <1>3, <3>1, <4>2 DEF Reads, Turns, Before
    <3>2. CASE /\ commit[c].pc = "settle" /\ Writes(c)
               /\ Turns(c, "runLost", commit[c].run, commit[c].answer, commit[c].landed)
      <4>1. StatusKept(id)
        BY <1>1, <2>0, <3>0, <3>2, MoveStatus DEF Writes, StatusKept
      <4> QED
        BY <1>1, <1>3, <3>2, <4>1, <2>9 DEF Reads, StatusOf, StatusKept, Turns, Before
    <3>3. CASE /\ commit[c].pc = "back"
               /\ Turns(c, "runRefused", commit[c].run, commit[c].answer, commit[c].landed)
      BY <1>1, <1>3, <2>9, <3>3 DEF Reads, StatusOf, Turns, Before
    <3>4. CASE /\ commit[c].pc = "doubt" /\ Writes(c)
               /\ Turns(c, "runDoubt", commit[c].run, commit[c].answer, commit[c].landed)
      <4>1. StatusKept(id)
        BY <1>1, <2>0, <3>0, <3>4, MoveStatus DEF Writes, StatusKept
      <4> QED
        BY <1>1, <1>3, <3>4, <4>1, <2>9 DEF Reads, StatusOf, StatusKept, Turns, Before
    <3> QED
      BY <2>4, <3>1, <3>2, <3>3, <3>4 DEF Records
  <2>5. CASE Closes(c)
    <3>1. PICK answer \in {"completed", "denied", "indeterminate"} :
            /\ Turns(c, "done", RunAfter(c), answer, commit[c].landed)
            /\ answer = "completed" => commit[c].pc = "runDone"
            /\ answer = "denied" => commit[c].pc = "runRefused"
            /\ commit[c].pc \in Closing /\ UNCHANGED action
      BY <2>5 DEF Closes
    <3>2. RunAfter(c) = "succeeded" => commit[c].pc = "runDone" \/ commit[c].run = "succeeded"
      BY <3>1 DEF RunAfter, Closing
    <3> QED
      BY <1>1, <1>3, <3>1, <3>2 DEF Reads, StatusOf, Turns, Before
  <2>6. CASE Dies(c)
    BY <1>1, <1>3, <2>6 DEF Dies, Reads, StatusOf, Turns, Before
  <2>7. ~Fails(c)
    BY <1>1 DEF Fails, TypeOK
  <2> QED
    BY <1>1, <1>3, <2>1, <2>2, <2>3, <2>4, <2>5, <2>6, <2>7, CommitTurns
<1> QED
  BY <1>2, <1>3

LEMMA ReadStep ==
  ASSUME MaxFaults = 0, ReadInv, [Next]_vars
  PROVE  ReadInv'
<1>0. HoldInv' /\ TypeOK /\ \A d \in Commit : Reads(d)
  BY HoldStep DEF ReadInv, HoldInv
<1>1. ASSUME NEW c \in Commit, CommitCall(c) PROVE ReadInv'
  BY <1>0, <1>1, OthersRead, WriterReads DEF ReadInv
<1>2. CASE ~\E c \in Commit : CommitCall(c)
  <2>1. \A i \in ParkedId : StatusKept(i)
    BY <1>0, <1>2, OthersKeepStatus
  <2>2. \A c \in Commit : Begun(c) => commit[c].id \in ParkedId
    BY <1>0 DEF Begun, TypeOK, Call
  <2>3. ASSUME NEW lever \in Lever, Resume(lever), NEW c \in Commit PROVE Reads(c)'
    BY <1>0, <2>1, <2>2, <2>3, ResumeChanges, ReadsKept
  <2>4. CASE ~\E lever \in Lever : Resume(lever)
    <3>1. commit' = commit
      BY <1>2, <2>4, OthersLeaveCommits
    <3>2. \A c \in Commit : Reads(c)'
      BY <1>0, <2>1, <2>2, <3>1, ReadsKept DEF Begun
    <3> QED
      BY <1>0, <3>2 DEF ReadInv
  <2> QED
    BY <1>0, <2>3, <2>4 DEF ReadInv
<1> QED
  BY <1>1, <1>2

LEMMA ReadAlways == ASSUME MaxFaults = 0 PROVE Spec => []ReadInv
<1>1. Init => ReadInv
  <2>1. Init => HoldInv
    BY ExecutionAssumption DEF Init, HoldInv, TypeOK, Approval, Unasked, RaisedOnce, OneHolder,
       Holds, LandsOnce, CarriesRow, InHand, HoldsSpent, Fresh
  <2> QED
    BY <2>1 DEF Init, ReadInv, Reads, Begun
<1>2. ReadInv /\ [Next]_vars => ReadInv'
  BY ReadStep
<1> QED
  BY <1>1, <1>2, PTL DEF Spec

\* Where no store call fails, a row that reads pending, voided or expired has had no
\* effect, through any crashes, sweeps and stops.
THEOREM UntouchedIsUndone ==
  ASSUME MaxFaults = 0 PROVE Spec => []UntouchedMeansNothingDone
<1>1. ReadInv => UntouchedMeansNothingDone
  <2> SUFFICES ASSUME ReadInv, NEW id \in ParkedId,
                      action[id].status \in {"pending", "voided", "expired"},
                      NEW c \in Commit, commit[c] # Fresh, commit[c].id = id
               PROVE  commit[c].landed = 0
    BY DEF UntouchedMeansNothingDone
  <2>1. ~(commit[c].landed > 0)
    BY DEF ReadInv, Reads, StatusOf, Begun
  <2>2. commit[c].landed \in {0, 1}
    BY DEF ReadInv, HoldInv, LandsOnce
  <2> QED
    BY <2>1, <2>2
<1> QED
  BY <1>1, ReadAlways, PTL

\* And no caller is told of success but of a committed row, nor of a refusal but by a
\* commit that did nothing.
THEOREM AnswersAreTrue ==
  ASSUME MaxFaults = 0 PROVE Spec => []AnswersAgreeWithRecord
<1>1. ReadInv => AnswersAgreeWithRecord
  BY DEF ReadInv, Reads, StatusOf, Begun, AnswersAgreeWithRecord
<1> QED
  BY <1>1, ReadAlways, PTL

-----------------------------------------------------------------------------
(* That the record is a truthful one.  A row is tried once: what a commit   *)
(* has claimed and not started has never been started, and what one is      *)
(* performing is still open to its result.                                  *)

Tried(i) == action[i] # Absent /\ action[i].committingAt >= 0

TriedSpent == \A i \in ParkedId : Tried(i) => authority[i].stage = "spent"

Attempts(c) ==
  Begun(c) =>
    /\ commit[c].pc \in {"claim", "start"} => ~Tried(commit[c].id)
    /\ commit[c].pc \in {"open", "perform", "settle", "back", "doubt"} =>
         StatusOf(c) \in {"committing", "indeterminate"}
    /\ commit[c].pc = "settle" => commit[c].landed > 0

TriedInv == ReadInv /\ TriedSpent /\ \A c \in Commit : Attempts(c)

\* The statuses that say a write was begun.
Touched == {"committing", "indeterminate", "committed"}

\* A step that leaves what the record says of a row.
Quiet(i) ==
  \/ action'[i].status = action[i].status
  \/ action[i].status \notin Touched /\ action'[i].status \notin Touched

LEMMA MoveTries ==
  ASSUME TypeOK, NEW id \in ParkedId, NEW from \in Status, NEW to \in Status, Move(id, from, to)
  PROVE  /\ \A i \in ParkedId \ {id} : action'[i] = action[i]
         /\ ~CanMove(id, from) => action'[id] = action[id]
         /\ CanMove(id, from) =>
              /\ action[id].status = from /\ action'[id].status = to
              /\ to # "committing" => (Tried(id)' <=> Tried(id))
              /\ to = "committing" => Tried(id)'
<1>1. CASE CanMove(id, from)
  <2>1. action[id] \in Row
    BY <1>1 DEF TypeOK, CanMove, Status, Terminal, Absent
  <2> DEFINE at == IF to = "committing" THEN now ELSE action[id].committingAt
             next == [action[id] EXCEPT !.status = to, !.committingAt = at]
  <2>2. action'[id] = next /\ \A i \in ParkedId \ {id} : action'[i] = action[i]
    BY <1>1 DEF Move, TypeOK
  <2>3. at \in Nat \cup {-1} /\ (to = "committing" => at \in Nat)
    BY <2>1 DEF TypeOK, Row
  <2>4. to # "committing" => at = action[id].committingAt
    OBVIOUS
  <2> HIDE DEF at
  <2>5. next \in Row /\ next.status = to /\ next.committingAt = at
    BY <2>1, <2>3 DEF Row
  <2> HIDE DEF next
  <2>6. next # Absent /\ action[id] # Absent
    BY <2>1, <2>5 DEF Row, Status, Terminal, Absent
  <2> QED
    BY <1>1, <2>2, <2>3, <2>4, <2>5, <2>6 DEF CanMove, Tried
<1>2. CASE ~CanMove(id, from)
  BY <1>2 DEF Move
<1> QED
  BY <1>1, <1>2

\* Nothing but a commit begins a write, and only the sweep for stale commits gives
\* one up.
LEMMA OthersTry ==
  ASSUME TypeOK, [Next]_vars, ~\E c \in Commit : CommitCall(c)
  PROVE  /\ \A i \in ParkedId : Tried(i)' <=> Tried(i)
         /\ \/ \A i \in ParkedId : Quiet(i)
            \/ \E id \in ParkedId :
                 /\ action[id].status = "committing" /\ action'[id].status = "indeterminate"
                 /\ \A i \in ParkedId \ {id} : Quiet(i)
<1>0. {"pending", "voided", "committing", "indeterminate"} \subseteq Status
  BY DEF Status, Terminal
<1>a. ASSUME NEW i \in ParkedId, action'[i] = action[i]
      PROVE  Quiet(i) /\ (Tried(i)' <=> Tried(i))
  BY <1>a DEF Quiet, Tried
<1>1. ASSUME NEW id \in ParkedId, NEW agent \in Agent, NEW payload \in Payload,
             Park(id, agent, payload)
      PROVE  \A i \in ParkedId : Quiet(i) /\ (Tried(i)' <=> Tried(i))
  <2>1. \A i \in ParkedId \ {id} : action'[i] = action[i]
    BY <1>1 DEF Park, TypeOK
  <2>2. action[id] = Absent /\ action'[id].status = "pending" /\ action'[id].committingAt = -1
    BY <1>1 DEF Park, TypeOK
  <2>3. Quiet(id) /\ ~Tried(id) /\ ~Tried(id)'
    BY <2>2 DEF Quiet, Tried, Absent, Touched
  <2> QED
    BY <1>a, <2>1, <2>3
<1>2. ASSUME NEW id \in ParkedId, Bind(id)
      PROVE  \A i \in ParkedId : Quiet(i) /\ (Tried(i)' <=> Tried(i))
  <2>1. \A i \in ParkedId \ {id} : action'[i] = action[i]
    BY <1>2 DEF Bind, TypeOK
  <2>2. CASE UNCHANGED action
    BY <1>a, <2>2
  <2>3. CASE action[id].status = "pending" /\ action' = [action EXCEPT ![id].bound = TRUE]
    <3>1. action[id] \in Row /\ action'[id] = [action[id] EXCEPT !.bound = TRUE]
      BY <2>3 DEF TypeOK, Absent
    <3>2. /\ action'[id] \in Row /\ action'[id].status = action[id].status
          /\ action'[id].committingAt = action[id].committingAt
      BY <3>1 DEF Row
    <3>3. Quiet(id) /\ (Tried(id)' <=> Tried(id))
      BY <2>3, <3>1, <3>2 DEF Quiet, Tried, Absent, Row, Status, Terminal
    <3> QED
      BY <1>a, <2>1, <3>3
  <2> QED
    BY <1>2, <2>2, <2>3 DEF Bind
<1>3. ASSUME NEW id \in ParkedId, Release(id)
      PROVE  \A i \in ParkedId : Quiet(i) /\ (Tried(i)' <=> Tried(i))
  <2>1. Move(id, "pending", "voided")
    BY <1>3 DEF Release
  <2>2. Quiet(id) /\ (Tried(id)' <=> Tried(id))
    BY <1>0, <1>a, <2>1, MoveTries DEF Quiet, Touched
  <2> QED
    BY <1>0, <1>a, <2>1, <2>2, MoveTries
<1>4. ASSUME NEW id \in ParkedId, MarkStale(id)
      PROVE  /\ \A i \in ParkedId : Tried(i)' <=> Tried(i)
             /\ \/ \A i \in ParkedId : Quiet(i)
                \/ /\ action[id].status = "committing" /\ action'[id].status = "indeterminate"
                   /\ \A i \in ParkedId \ {id} : Quiet(i)
  <2>1. Move(id, "committing", "indeterminate")
    BY <1>4 DEF MarkStale
  <2> QED
    BY <1>0, <1>a, <2>1, MoveTries
<1>5. ASSUME ExpireParkedActions
      PROVE  \A i \in ParkedId : Quiet(i) /\ (Tried(i)' <=> Tried(i))
  <2>1. ASSUME NEW i \in ParkedId, Expirable(i)
        PROVE  Quiet(i) /\ (Tried(i)' <=> Tried(i))
    <3>1. action[i] \in Row /\ action[i].status = "pending"
          /\ action'[i] = [action[i] EXCEPT !.status = "expired"]
      BY <1>5, <2>1 DEF ExpireParkedActions, Expirable, TypeOK, Absent
    <3>2. /\ action'[i].status = "expired" /\ action'[i] \in Row
          /\ action'[i].committingAt = action[i].committingAt
      BY <3>1 DEF Row, Status
    <3> QED
      BY <3>1, <3>2 DEF Quiet, Touched, Tried, Absent, Row, Status, Terminal
  <2>2. ASSUME NEW i \in ParkedId, ~Expirable(i)
        PROVE  action'[i] = action[i]
    BY <1>5, <2>2 DEF ExpireParkedActions
  <2> QED
    BY <1>a, <2>1, <2>2
<1>6. CASE ~(\E id \in ParkedId : Bind(id) \/ Release(id) \/ MarkStale(id))
           /\ ~(\E id \in ParkedId, agent \in Agent, payload \in Payload : Park(id, agent, payload))
           /\ ~ExpireParkedActions
  <2>1. action' = action
    BY <1>6 DEF Next, ParkCall, RequestApproval, RequestFails, ParkDies, Maintenance,
       ListStale, ExpireApprovals, EvictUsedApprovals, Decide, Stop, Resume, Tick,
       PauseTakesEffect, vars
  <2> QED
    BY <1>a, <2>1
<1> QED
  BY <1>1, <1>2, <1>3, <1>4, <1>5, <1>6

\* What a commit's call does to the rows: it writes its own, from a status it read.
LEMMA CommitTries ==
  ASSUME ReadInv, NEW c \in Commit, CommitCall(c), Begun(c), NEW id \in ParkedId,
         id = commit[c].id
  PROVE  /\ \A i \in ParkedId \ {id} : action'[i] = action[i]
         /\ \/ action'[id] = action[id]
            \/ /\ commit[c].pc = "void" /\ Quiet(id) /\ (Tried(id)' <=> Tried(id))
            \/ /\ commit[c].pc = "start" /\ Tried(id)'
               /\ action[id].status \notin Touched /\ action'[id].status = "committing"
            \/ /\ action[id].status = "committing" /\ (Tried(id)' <=> Tried(id))
               /\ \/ commit[c].pc = "settle" /\ action'[id].status = "committed"
                  \/ commit[c].pc = "back" /\ action'[id].status = "pending"
                  \/ commit[c].pc = "doubt" /\ action'[id].status = "indeterminate"
<1>0. {"pending", "voided", "committing", "committed", "indeterminate"} \subseteq Status
  BY DEF Status, Terminal
<1>1. TypeOK /\ Reads(c) /\ commit[c] \in Call /\ commit[c].seen \in Status
  BY DEF ReadInv, HoldInv, TypeOK, Begun, Call
<1>2. CASE UNCHANGED action
  BY <1>2
<1>3. CASE Writes(c)
  <2>1. CASE commit[c].pc \in {"void", "start"}
    <3>1. commit[c].seen \in {"pending", "expired"}
      BY <1>1, <2>1 DEF Reads, Before
    <3>2. /\ commit[c].pc = "void" => Move(id, commit[c].seen, "voided")
          /\ commit[c].pc = "start" => Move(id, commit[c].seen, "committing")
      BY <1>3, <2>1 DEF Writes
    <3>3. CASE commit[c].pc = "void"
      BY <1>0, <1>1, <3>1, <3>2, <3>3, MoveTries DEF Quiet, Touched
    <3>4. CASE commit[c].pc = "start"
      BY <1>0, <1>1, <3>1, <3>2, <3>4, MoveTries DEF Touched
    <3> QED
      BY <2>1, <3>3, <3>4
  <2>2. CASE commit[c].pc \in {"settle", "back", "doubt"}
    <3>1. /\ commit[c].pc = "settle" => Move(id, "committing", "committed")
          /\ commit[c].pc = "back" => Move(id, "committing", "pending")
          /\ commit[c].pc = "doubt" => Move(id, "committing", "indeterminate")
      BY <1>3, <2>2 DEF Writes
    <3>2. CASE commit[c].pc = "settle"
      BY <1>0, <1>1, <3>1, <3>2, MoveTries
    <3>3. CASE commit[c].pc = "back"
      BY <1>0, <1>1, <3>1, <3>3, MoveTries
    <3>4. CASE commit[c].pc = "doubt"
      BY <1>0, <1>1, <3>1, <3>4, MoveTries
    <3> QED
      BY <2>2, <3>2, <3>3, <3>4
  <2>3. CASE commit[c].pc \notin {"void", "start", "settle", "back", "doubt"}
    BY <1>2, <1>3, <2>3 DEF Writes
  <2> QED
    BY <2>1, <2>2, <2>3
<1> QED
  BY <1>2, <1>3, CommitWrites

\* A commit that a step leaves alone stands as it did, if its row does.
LEMMA AttemptsKept ==
  ASSUME NEW c \in Commit, Attempts(c), Begun(c)' <=> Begun(c), NEW id,
         Begun(c) =>
           /\ commit'[c].pc = commit[c].pc /\ commit'[c].landed = commit[c].landed
           /\ commit'[c].id = id /\ commit[c].id = id
           /\ commit[c].pc \in {"claim", "start"} => (Tried(id)' => Tried(id))
           /\ /\ commit[c].pc \in {"open", "perform", "settle", "back", "doubt"}
              /\ action[id].status \in {"committing", "indeterminate"}
              => action'[id].status \in {"committing", "indeterminate"}
  PROVE  Attempts(c)'
BY DEF Attempts, StatusOf, Tried

\* A write that a commit's call makes to its row is not made to one another commit holds.
LEMMA OthersAttempt ==
  ASSUME TriedInv, NEW c \in Commit, CommitCall(c), NEW d \in Commit \ {c}
  PROVE  Attempts(d)'
<1>1. TypeOK /\ ReadInv /\ OneHolder /\ Attempts(d) /\ commit'[d] = commit[d]
  BY OthersUntouched DEF TriedInv, ReadInv, HoldInv
<1>2. CASE ~Begun(d)
  BY <1>1, <1>2 DEF Attempts, Begun
<1>3. CASE Begun(d) /\ ~Begun(c)
  <2>1. UNCHANGED action
    BY <1>1, <1>3, CommitBegins
  <2> QED
    BY <1>1, <1>3, <2>1 DEF Attempts, StatusOf, Tried, Begun
<1>4. CASE Begun(d) /\ Begun(c)
  <2>1. PICK mine \in ParkedId, id \in ParkedId : mine = commit[d].id /\ id = commit[c].id
    BY <1>1, <1>4 DEF TypeOK, Begun, Call
  <2>2. commit[d].pc \in {"claim", "start", "open", "perform", "settle", "back", "doubt"} => Holds(d)
    BY <1>4 DEF Holds, HoldingAt, Trying, Catching, Begun
  <2>3. commit[c].pc \in {"start", "settle", "back", "doubt"} => Holds(c)
    BY <1>4 DEF Holds, HoldingAt, Trying, Catching, Begun
  <2>4. CASE mine # id \/ action'[id] = action[id]
    <3>1. action'[mine] = action[mine]
      BY <1>1, <1>4, <2>1, <2>4, CommitTries
    <3> QED
      BY <1>1, <1>4, <2>1, <3>1, AttemptsKept DEF Tried, Begun
  <2>5. CASE mine = id /\ action'[id] # action[id]
    <3>1. \/ commit[c].pc = "void" /\ Quiet(id) /\ (Tried(id)' <=> Tried(id))
          \/ commit[c].pc \in {"start", "settle", "back", "doubt"}
      BY <1>1, <1>4, <2>1, <2>5, CommitTries
    <3>2. CASE commit[c].pc \in {"start", "settle", "back", "doubt"}
      <4>1. commit[d].pc \notin {"claim", "start", "open", "perform", "settle", "back", "doubt"}
        BY <1>1, <2>1, <2>2, <2>3, <2>5, <3>2 DEF OneHolder
      <4> QED
        BY <1>1, <4>1 DEF Attempts
    <3>3. CASE Quiet(id) /\ (Tried(id)' <=> Tried(id))
      <4>1. action[id].status \in {"committing", "indeterminate"} =>
              action'[id].status \in {"committing", "indeterminate"}
        BY <3>3 DEF Quiet, Touched
      <4> QED
        BY <1>1, <1>4, <2>1, <2>5, <3>3, <4>1, AttemptsKept DEF Begun
    <3> QED
      BY <3>1, <3>2, <3>3
  <2> QED
    BY <2>4, <2>5
<1> QED
  BY <1>2, <1>3, <1>4

\* And the one writing: what it has won was never tried, what it has started is.
LEMMA WriterAttempts ==
  ASSUME MaxFaults = 0, TriedInv, NEW c \in Commit, CommitCall(c)
  PROVE  Attempts(c)'
<1>1. /\ TypeOK /\ HoldInv /\ ReadInv /\ Attempts(c) /\ LandsOnce(c) /\ HoldsSpent(c)
      /\ TriedSpent /\ [Next]_vars
  BY DEF TriedInv, ReadInv, HoldInv, Next
<1>2. CASE ~Begun(c)
  <2>1. commit'[c].pc \in {"done", "void", "admit"}
    BY <1>1, <1>2, CommitBegins
  <2> QED
    BY <2>1 DEF Attempts
<1>3. CASE Begun(c)
  <2>0. commit[c] \in Call /\ commit[c].landed \in Nat
    BY <1>1, <1>3, CommitTurns DEF Call
  <2>1. PICK id \in ParkedId : id = commit[c].id
    BY <2>0 DEF Call
  <2>2. CASE GoesOn(c)
    <3>0. PICK pc \in At, answer \in Answers :
            /\ Turns(c, pc, commit[c].run, answer, commit[c].landed)
            /\ commit[c].pc \in Before
            /\ \/ pc \in Before \ {"void", "admit", "open"} /\ answer = commit[c].answer
                  /\ commit[c].pc \notin {"void", "open"} /\ UNCHANGED action
                  /\ (commit[c].pc = "admit" => Admitted(c))
               \/ pc = "open" /\ answer = commit[c].answer /\ commit[c].pc = "start" /\ Writes(c)
                  /\ CanMove(commit[c].id, commit[c].seen)
               \/ pc = "done" /\ answer \in {"denied", StatusAnswer(commit[c].id)}
                    /\ (answer # "denied" => commit[c].pc = "status" /\ UNCHANGED action)
      BY <2>2, Zenon DEF GoesOn
    <3>1. commit'[c].pc = pc /\ commit'[c].id = id /\ Begun(c)'
      BY <2>1, <3>0 DEF Turns, Begun
    <3>2. CASE pc \in {"claim", "start"}
      <4>1. UNCHANGED action /\ commit[c].pc \notin {"void", "open"}
        BY <3>0, <3>2
      <4>2. Holds(c)'
        BY <3>1, <3>2 DEF Holds, HoldingAt, Begun
      <4>3. Holds(c) \/ authority[id].stage = "authorised"
        <5>1. PICK at \in At, n \in Nat : Progress(c, at, n)
          BY <1>1, <1>3, CommitProgress DEF Begun
        <5> QED
          BY <1>1, <1>3, <2>0, <2>1, <4>2, <5>1, ProgressKeeps DEF Begun
      <4>4. CASE Holds(c)
        <5>1. commit[c].landed = 0
          BY <1>1, <1>3, <2>0, <3>0 DEF LandsOnce, Begun, Before, Trying, Catching
        <5>2. commit[c].pc \in {"claim", "start"}
          BY <3>0, <4>1, <4>4, <5>1 DEF Holds, HoldingAt, Before, Trying, Catching
        <5>3. ~Tried(id)
          BY <1>1, <1>3, <2>1, <5>2 DEF Attempts
        <5> QED
          BY <3>1, <3>2, <4>1, <5>3 DEF Attempts, Tried
      <4>5. CASE authority[id].stage = "authorised"
        <5>1. ~Tried(id)
          BY <1>1, <4>5 DEF TriedSpent
        <5> QED
          BY <3>1, <3>2, <4>1, <5>1 DEF Attempts, Tried
      <4> QED
        BY <4>3, <4>4, <4>5
    <3>3. CASE pc = "open"
      <4>1. commit[c].pc = "start" /\ Move(id, commit[c].seen, "committing")
            /\ CanMove(id, commit[c].seen) /\ commit[c].seen \in Status
        BY <2>0, <2>1, <3>0, <3>3 DEF Writes, Call
      <4>2. action'[id].status = "committing"
        <5>1. "committing" \in Status
          BY DEF Status
        <5> QED
          BY <1>1, <4>1, <5>1, MoveTries
      <4> QED
        BY <3>1, <3>3, <4>2 DEF Attempts, StatusOf
    <3>4. CASE pc \notin {"claim", "start", "open"}
      <4>1. pc \notin {"perform", "settle", "back", "doubt"}
        BY <3>0, <3>4 DEF Before
      <4> QED
        BY <3>1, <3>4, <4>1 DEF Attempts
    <3> QED
      BY <3>2, <3>3, <3>4
  <2>3. CASE Opens(c)
    <3>1. /\ commit[c].pc = "open" /\ UNCHANGED action
          /\ commit'[c].pc = "perform" /\ commit'[c].id = id
      BY <2>1, <2>3 DEF Opens, Turns
    <3> QED
      BY <1>1, <1>3, <2>1, <3>1 DEF Attempts, StatusOf
  <2>4. CASE Calls(c)
    <3>1. commit[c].pc = "perform" /\ UNCHANGED action /\ commit'[c].id = id
          /\ \/ commit'[c].pc \in {"back", "doubt"}
             \/ commit'[c].pc = "settle" /\ commit'[c].landed = commit[c].landed + 1
      BY <2>1, <2>4 DEF Calls, Turns
    <3>2. StatusOf(c)' \in {"committing", "indeterminate"}
      BY <1>1, <1>3, <2>1, <3>1 DEF Attempts, StatusOf
    <3> QED
      BY <2>0, <3>1, <3>2 DEF Attempts
  <2>5. CASE Records(c)
    <3>1. commit'[c].pc \in {"runDone", "runLost", "runRefused", "runDoubt"}
      BY <2>5 DEF Records, Turns
    <3> QED
      BY <3>1 DEF Attempts
  <2>6. CASE Closes(c) \/ Dies(c)
    <3>1. commit'[c].pc = "done"
      BY <2>6 DEF Closes, Dies, Turns
    <3> QED
      BY <3>1 DEF Attempts
  <2>7. ~Fails(c)
    BY <1>1 DEF Fails, TypeOK
  <2> QED
    BY <1>1, <1>3, <2>2, <2>3, <2>4, <2>5, <2>6, <2>7, CommitTurns
<1> QED
  BY <1>2, <1>3

LEMMA TriedStep ==
  ASSUME MaxFaults = 0, TriedInv, [Next]_vars
  PROVE  TriedInv'
<1>0. /\ TypeOK /\ ReadInv /\ RaisedOnce /\ TriedSpent /\ ReadInv'
      /\ \A d \in Commit : Attempts(d) /\ HoldsSpent(d)
  BY ReadStep DEF TriedInv, ReadInv, HoldInv
<1>a. \A i \in ParkedId : authority[i].stage = "spent" => authority'[i].stage = "spent"
  BY <1>0, RaisedStep
<1>1. ASSUME NEW c \in Commit, CommitCall(c) PROVE TriedInv'
  <2>1. TriedSpent'
    <3>1. CASE ~Begun(c)
      <4>1. UNCHANGED action
        BY <1>0, <1>1, <3>1, CommitBegins
      <4> QED
        BY <1>0, <1>a, <4>1 DEF TriedSpent, Tried
    <3>2. CASE Begun(c)
      <4>1. PICK id \in ParkedId : id = commit[c].id
        BY <1>0, <3>2 DEF TypeOK, Begun, Call
      <4>2. \A i \in ParkedId : Tried(i)' => Tried(i) \/ (i = id /\ commit[c].pc = "start")
        BY <1>0, <1>1, <3>2, <4>1, CommitTries DEF Tried
      <4>3. commit[c].pc = "start" => authority[id].stage = "spent"
        BY <1>0, <3>2, <4>1 DEF HoldsSpent, Holds, HoldingAt, Begun
      <4> QED
        BY <1>0, <1>a, <4>2, <4>3 DEF TriedSpent
    <3> QED
      BY <3>1, <3>2
  <2>2. \A d \in Commit : Attempts(d)'
    BY <1>1, OthersAttempt, WriterAttempts
  <2> QED
    BY <1>0, <2>1, <2>2 DEF TriedInv
<1>2. CASE ~\E c \in Commit : CommitCall(c)
  <2>1. /\ \A i \in ParkedId : Tried(i)' <=> Tried(i)
        /\ \A i \in ParkedId : action[i].status \in {"committing", "indeterminate"} =>
             action'[i].status \in {"committing", "indeterminate"}
    BY <1>0, <1>2, OthersTry DEF Quiet, Touched
  <2>2. TriedSpent'
    BY <1>0, <1>a, <2>1 DEF TriedSpent
  <2>3. \A c \in Commit : /\ Begun(c)' <=> Begun(c)
                          /\ Begun(c) => /\ commit'[c].pc = commit[c].pc
                                         /\ commit'[c].landed = commit[c].landed
                                         /\ commit'[c].id = commit[c].id
    <3>1. CASE \E lever \in Lever : Resume(lever)
      BY <1>0, <3>1, ResumeChanges
    <3>2. CASE ~\E lever \in Lever : Resume(lever)
      BY <1>2, <3>2, OthersLeaveCommits DEF Begun
    <3> QED
      BY <3>1, <3>2
  <2>4. ASSUME NEW c \in Commit PROVE Attempts(c)'
    <3>1. CASE ~Begun(c)
      BY <2>3, <3>1 DEF Attempts
    <3>2. CASE Begun(c)
      <4>1. PICK id \in ParkedId : id = commit[c].id
        BY <1>0, <3>2 DEF TypeOK, Begun, Call
      <4> QED
        BY <1>0, <2>1, <2>3, <3>2, <4>1, AttemptsKept
    <3> QED
      BY <3>1, <3>2
  <2> QED
    BY <1>0, <2>2, <2>4 DEF TriedInv
<1> QED
  BY <1>1, <1>2

LEMMA TriedAlways == ASSUME MaxFaults = 0 PROVE Spec => []TriedInv
<1>1. Init => TriedSpent /\ \A c \in Commit : Attempts(c)
  BY DEF Init, TriedSpent, Tried, Attempts, Begun, Absent
<1>2. TriedInv /\ [Next]_vars => TriedInv'
  BY TriedStep
<1>3. Init /\ ReadInv => TriedInv
  BY <1>1 DEF TriedInv
<1> QED
  BY <1>2, <1>3, ReadAlways, PTL DEF Spec

-----------------------------------------------------------------------------
(* The refinement: every step of execution is a step of the truthful        *)
(* record, or none.                                                         *)

Landed(i) == \E c \in Commit : commit[c] # Fresh /\ commit[c].id = i /\ commit[c].landed > 0

SameLanded == \A i \in ParkedId : Landed(i)' <=> Landed(i)
SameVerdicts == \A i \in ParkedId : Verdict(i)' = Verdict(i)
SameTried == \A i \in ParkedId : Tried(i)' <=> Tried(i)

LEMMA QuietVerdict ==
  ASSUME NEW i, Quiet(i)
  PROVE  Verdict(i)' = Verdict(i)
BY DEF Quiet, Touched, Verdict

LEMMA LandedKept ==
  ASSUME \A c \in Commit :
           /\ Begun(c) => /\ Begun(c)' /\ commit'[c].id = commit[c].id
                          /\ commit'[c].landed = commit[c].landed
           /\ ~Begun(c) /\ Begun(c)' => ~(commit'[c].landed > 0)
  PROVE  SameLanded
BY DEF SameLanded, Landed, Begun

LEMMA TruthStutters ==
  ASSUME SameVerdicts, SameTried, SameLanded
  PROVE  UNCHANGED Truth!vars
BY DEF SameVerdicts, SameTried, SameLanded, Tried, Landed, Truth!vars

\* The verdict of one row moves from attempting to what the step may say of it.
LEMMA TruthSettles ==
  ASSUME SameTried, SameLanded, NEW id \in ParkedId, NEW verdict,
         action[id].status = "committing", Verdict(id)' = verdict,
         \A i \in ParkedId \ {id} : Verdict(i)' = Verdict(i),
         \/ verdict = "done" /\ Landed(id)
         \/ verdict = "untouched" /\ ~Landed(id)
         \/ verdict = "unknown"
  PROVE  Truth!Next
<1>1. Verdict(id) = "attempting"
  BY DEF Verdict
<1>2. /\ [i \in ParkedId |-> Verdict(i)]' = [[i \in ParkedId |-> Verdict(i)] EXCEPT ![id] = verdict]
      /\ [i \in ParkedId |-> Verdict(i)][id] = "attempting"
  BY <1>1
<1>3. /\ {i \in ParkedId : Tried(i)}' = {i \in ParkedId : Tried(i)}
      /\ {i \in ParkedId : Landed(i)}' = {i \in ParkedId : Landed(i)}
      /\ id \in {i \in ParkedId : Landed(i)} <=> Landed(id)
  BY DEF SameTried, SameLanded
<1>4. Truth!Settle(id)
  BY <1>2, <1>3 DEF Truth!Settle, Tried, Landed
<1> QED
  BY <1>4 DEF Truth!Next

\* The one attempt begins.
LEMMA TruthBegins ==
  ASSUME SameLanded, NEW id \in ParkedId, action[id].status \notin Touched, ~Tried(id),
         action'[id].status = "committing", Tried(id)',
         \A i \in ParkedId \ {id} : Verdict(i)' = Verdict(i) /\ (Tried(i)' <=> Tried(i))
  PROVE  Truth!Next
<1>1. Verdict(id) = "untouched" /\ Verdict(id)' = "attempting"
  BY DEF Verdict, Touched
<1>2. /\ [i \in ParkedId |-> Verdict(i)]' =
           [[i \in ParkedId |-> Verdict(i)] EXCEPT ![id] = "attempting"]
      /\ [i \in ParkedId |-> Verdict(i)][id] = "untouched"
  BY <1>1
<1>3. /\ {i \in ParkedId : Tried(i)}' = {i \in ParkedId : Tried(i)} \cup {id}
      /\ {i \in ParkedId : Landed(i)}' = {i \in ParkedId : Landed(i)}
      /\ id \notin {i \in ParkedId : Tried(i)}
  BY DEF SameLanded
<1>4. Truth!Begin(id)
  BY <1>2, <1>3 DEF Truth!Begin, Tried, Landed
<1> QED
  BY <1>4 DEF Truth!Next

\* The effect lands, in the attempt.
LEMMA TruthLands ==
  ASSUME SameVerdicts, SameTried, NEW id \in ParkedId,
         action[id].status \in {"committing", "indeterminate"}, ~Landed(id), Landed(id)',
         \A i \in ParkedId \ {id} : Landed(i)' <=> Landed(i)
  PROVE  Truth!Next
<1>1. Verdict(id) \in {"attempting", "unknown"}
  BY DEF Verdict
<1>2. /\ [i \in ParkedId |-> Verdict(i)]' = [i \in ParkedId |-> Verdict(i)]
      /\ [i \in ParkedId |-> Verdict(i)][id] \in {"attempting", "unknown"}
  BY <1>1 DEF SameVerdicts
<1>3. /\ {i \in ParkedId : Tried(i)}' = {i \in ParkedId : Tried(i)}
      /\ {i \in ParkedId : Landed(i)}' = {i \in ParkedId : Landed(i)} \cup {id}
      /\ id \notin {i \in ParkedId : Landed(i)}
  BY DEF SameTried
<1>4. Truth!Land(id)
  BY <1>2, <1>3 DEF Truth!Land, Tried, Landed
<1> QED
  BY <1>4 DEF Truth!Next

\* While one commit is at its call, or about to put its row back, no other has had
\* an effect on the row.
LEMMA HolderAlone ==
  ASSUME TriedInv, NEW c \in Commit, Begun(c), commit[c].pc \in {"perform", "back"},
         NEW id \in ParkedId, id = commit[c].id
  PROVE  ~Landed(id) /\ commit[c].landed = 0
<1>1. OneHolder /\ LandsOnce(c) /\ Reads(c)
  BY DEF TriedInv, ReadInv, HoldInv
<1>2. Holds(c)
  BY DEF Holds, HoldingAt, Catching, Begun
<1>3. commit[c].landed = 0
  BY <1>1 DEF LandsOnce, Reads, Begun, Trying, Catching
<1>4. ASSUME NEW d \in Commit, commit[d] # Fresh, commit[d].id = id, commit[d].landed > 0
      PROVE  FALSE
  <2>1. Holds(d)
    BY <1>4 DEF Holds
  <2>2. d = c
    BY <1>1, <1>2, <1>4, <2>1 DEF OneHolder
  <2> QED
    BY <1>3, <1>4, <2>2
<1> QED
  BY <1>3, <1>4 DEF Landed

LEMMA TruthStep ==
  ASSUME MaxFaults = 0, TriedInv, [Next]_vars
  PROVE  [Truth!Next]_(Truth!vars)
<1>0. /\ TypeOK /\ ReadInv /\ \A d \in Commit : Attempts(d) /\ LandsOnce(d)
  BY DEF TriedInv, ReadInv, HoldInv
<1>a. ASSUME UNCHANGED action PROVE SameVerdicts /\ SameTried
  BY <1>a DEF SameVerdicts, SameTried, Verdict, Tried
<1>1. ASSUME NEW c \in Commit, CommitCall(c) PROVE [Truth!Next]_(Truth!vars)
  <2>1. CASE ~Begun(c)
    <3>1. /\ commit'[c].landed = 0 /\ UNCHANGED action
          /\ \A d \in Commit \ {c} : commit'[d] = commit[d]
      BY <1>0, <1>1, <2>1, CommitBegins
    <3>2. SameLanded
      BY <2>1, <3>1, LandedKept DEF Begun
    <3> QED
      BY <1>a, <3>1, <3>2, TruthStutters
  <2>2. CASE Begun(c)
    <3>0. PICK id \in ParkedId : id = commit[c].id
      BY <1>0, <2>2 DEF TypeOK, Begun, Call
    <3>1. /\ \A i \in ParkedId \ {id} : action'[i] = action[i]
          /\ \/ action'[id] = action[id]
             \/ /\ commit[c].pc = "void" /\ Quiet(id) /\ (Tried(id)' <=> Tried(id))
             \/ /\ commit[c].pc = "start" /\ Tried(id)'
                /\ action[id].status \notin Touched /\ action'[id].status = "committing"
             \/ /\ action[id].status = "committing" /\ (Tried(id)' <=> Tried(id))
                /\ \/ commit[c].pc = "settle" /\ action'[id].status = "committed"
                   \/ commit[c].pc = "back" /\ action'[id].status = "pending"
                   \/ commit[c].pc = "doubt" /\ action'[id].status = "indeterminate"
      BY <1>0, <1>1, <2>2, <3>0, CommitTries
    <3>2. \A i \in ParkedId \ {id} : Verdict(i)' = Verdict(i) /\ (Tried(i)' <=> Tried(i))
      BY <3>1 DEF Verdict, Tried
    <3>3. ~Fails(c)
      BY <1>0 DEF Fails, TypeOK
    <3>4. GoesOn(c) \/ Opens(c) \/ Calls(c) \/ Records(c) \/ Closes(c) \/ Dies(c)
      BY <1>0, <1>1, <2>2, <3>3, CommitTurns
    <3>5. ASSUME NEW pc, NEW run, NEW answer, Turns(c, pc, run, answer, commit[c].landed)
          PROVE  SameLanded
      BY <2>2, <3>5, LandedKept DEF Turns, Begun
    <3>6. CASE commit[c].pc # "perform"
      <4>1. SameLanded
        BY <3>4, <3>5, <3>6 DEF GoesOn, Opens, Calls, Records, Closes, Dies
      <4>2. CASE action'[id] = action[id]
        <5>1. SameVerdicts /\ SameTried
          BY <3>1, <4>2 DEF SameVerdicts, SameTried, Verdict, Tried
        <5> QED
          BY <4>1, <5>1, TruthStutters
      <4>3. CASE Quiet(id) /\ (Tried(id)' <=> Tried(id))
        <5>1. SameVerdicts /\ SameTried
          BY <3>2, <4>3, QuietVerdict DEF SameVerdicts, SameTried
        <5> QED
          BY <4>1, <5>1, TruthStutters
      <4>4. CASE /\ commit[c].pc = "start" /\ Tried(id)'
                 /\ action[id].status \notin Touched /\ action'[id].status = "committing"
        <5>1. ~Tried(id)
          BY <1>0, <2>2, <3>0, <4>4 DEF Attempts
        <5> QED
          BY <3>2, <4>1, <4>4, <5>1, TruthBegins
      <4>5. CASE /\ action[id].status = "committing" /\ (Tried(id)' <=> Tried(id))
                 /\ commit[c].pc = "settle" /\ action'[id].status = "committed"
        <5>1. Landed(id)
          BY <1>0, <2>2, <3>0, <4>5 DEF Attempts, Landed, Begun
        <5>2. Verdict(id)' = "done"
          BY <4>5 DEF Verdict
        <5>3. SameTried
          BY <3>2, <4>5 DEF SameTried
        <5> QED
          BY <3>2, <4>1, <4>5, <5>1, <5>2, <5>3, TruthSettles
      <4>6. CASE /\ action[id].status = "committing" /\ (Tried(id)' <=> Tried(id))
                 /\ commit[c].pc = "back" /\ action'[id].status = "pending"
        <5>1. ~Landed(id)
          BY <2>2, <3>0, <4>6, HolderAlone
        <5>2. Verdict(id)' = "untouched"
          BY <4>6 DEF Verdict
        <5>3. SameTried
          BY <3>2, <4>6 DEF SameTried
        <5> QED
          BY <3>2, <4>1, <4>6, <5>1, <5>2, <5>3, TruthSettles
      <4>7. CASE /\ action[id].status = "committing" /\ (Tried(id)' <=> Tried(id))
                 /\ commit[c].pc = "doubt" /\ action'[id].status = "indeterminate"
        <5>1. Verdict(id)' = "unknown"
          BY <4>7 DEF Verdict
        <5>2. SameTried
          BY <3>2, <4>7 DEF SameTried
        <5> QED
          BY <3>2, <4>1, <4>7, <5>1, <5>2, TruthSettles
      <4> QED
        BY <3>1, <4>2, <4>3, <4>4, <4>5, <4>6, <4>7
    <3>7. CASE commit[c].pc = "perform"
      <4>1. SameVerdicts /\ SameTried
        BY <3>1, <3>7 DEF SameVerdicts, SameTried, Verdict, Tried
      <4>2. CASE \E pc, run, answer : Turns(c, pc, run, answer, commit[c].landed)
        BY <3>5, <4>1, <4>2, TruthStutters
      <4>3. CASE \E pc, run, answer : Turns(c, pc, run, answer, commit[c].landed + 1)
        <5>1. ~Landed(id) /\ commit[c].landed = 0
          BY <2>2, <3>0, <3>7, HolderAlone
        <5>2. /\ commit'[c].id = id /\ commit'[c].landed = 1 /\ commit'[c] # Fresh
              /\ \A d \in Commit \ {c} : commit'[d] = commit[d]
          BY <3>0, <4>3, <5>1 DEF Turns
        <5>3. Landed(id)' /\ \A i \in ParkedId \ {id} : Landed(i)' <=> Landed(i)
          BY <3>0, <5>1, <5>2 DEF Landed
        <5>4. action[id].status \in {"committing", "indeterminate"}
          BY <1>0, <2>2, <3>0, <3>7 DEF Attempts, StatusOf
        <5> QED
          BY <4>1, <5>1, <5>3, <5>4, TruthLands
      <4>4. Calls(c) \/ Dies(c)
        BY <3>4, <3>7 DEF GoesOn, Opens, Records, Closes, Before, Closing
      <4>5. commit[c].landed + 0 = commit[c].landed
        BY <1>0, <2>2 DEF LandsOnce, Begun
      <4> QED
        BY <4>2, <4>3, <4>4, <4>5 DEF Calls, Dies
    <3> QED
      BY <3>6, <3>7
  <2> QED
    BY <2>1, <2>2
<1>2. CASE ~\E c \in Commit : CommitCall(c)
  <2>1. SameLanded
    <3>1. CASE \E lever \in Lever : Resume(lever)
      BY <1>0, <3>1, ResumeChanges, LandedKept
    <3>2. CASE ~\E lever \in Lever : Resume(lever)
      BY <1>2, <3>2, OthersLeaveCommits, LandedKept DEF Begun
    <3> QED
      BY <3>1, <3>2
  <2>2. /\ SameTried
        /\ \/ \A i \in ParkedId : Quiet(i)
           \/ \E id \in ParkedId :
                /\ action[id].status = "committing" /\ action'[id].status = "indeterminate"
                /\ \A i \in ParkedId \ {id} : Quiet(i)
    BY <1>0, <1>2, OthersTry DEF SameTried
  <2>3. CASE \A i \in ParkedId : Quiet(i)
    BY <2>1, <2>2, <2>3, QuietVerdict, TruthStutters DEF SameVerdicts
  <2>4. ASSUME NEW id \in ParkedId,
               action[id].status = "committing", action'[id].status = "indeterminate",
               \A i \in ParkedId \ {id} : Quiet(i)
        PROVE  Truth!Next
    <3>1. Verdict(id)' = "unknown"
      BY <2>4 DEF Verdict
    <3>2. \A i \in ParkedId \ {id} : Verdict(i)' = Verdict(i)
      BY <2>4, QuietVerdict
    <3> QED
      BY <2>1, <2>2, <2>4, <3>1, <3>2, TruthSettles
  <2> QED
    BY <2>2, <2>3, <2>4
<1> QED
  BY <1>1, <1>2

\* External execution implements the truthful record where no store call fails: a
\* write is attempted once, lands at most once, and is called done, untouched or
\* unknown only as it is, through any crashes, sweeps and stops.
THEOREM ImplementsTruth ==
  ASSUME MaxFaults = 0 PROVE Spec => ImplementsTruthfulWrite
<1>1. Init => Truth!Init
  <2> SUFFICES ASSUME Init PROVE Truth!Init
    OBVIOUS
  <2>1. \A i \in ParkedId : Verdict(i) = "untouched" /\ ~Tried(i) /\ ~Landed(i)
    BY DEF Init, Verdict, Tried, Landed, Absent
  <2> QED
    BY <2>1 DEF Truth!Init, Tried, Landed
<1>2. TriedInv /\ [Next]_vars => [Truth!Next]_(Truth!vars)
  BY TruthStep
<1> QED
  BY <1>1, <1>2, TriedAlways, PTL DEF Spec, ImplementsTruthfulWrite, Truth!Spec
=============================================================================
