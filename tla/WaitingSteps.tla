---------------------------- MODULE WaitingSteps ----------------------------
(***************************************************************************)
(* The steps of a workflow that wait (engine/runner.ts): human tasks,      *)
(* approval gates, external events with a timeout, and timers, over the    *)
(* instance's compare-and-swap, the operating record's step rows, the task *)
(* queue and the approval service.                                         *)
(*                                                                         *)
(* A worker is one pass of the engine's sweep over the instance.  It       *)
(* claims a step, writes the step's row, the task or the approval, and     *)
(* parks the token, each in a store call of its own.  People complete      *)
(* tasks and signals arrive in calls of their own, and race the workers    *)
(* and each other for the same row and the same token.                     *)
(***************************************************************************)
EXTENDS Integers, Sequences, FiniteSets

CONSTANTS
  Last,        \* the steps of the definition are 1..Last, in its order
  Start,       \* the steps the instance's paths begin at
  Kind,        \* what each step waits for
  NextOf,      \* the step after each, 0 at the end of a path
  OnTimeout,   \* where an event's timeout goes, 0 when nowhere is declared
  Worker,      \* processes sweeping the instance
  Completion,  \* calls of completeHumanTask
  Signal,      \* calls of signalEvent
  MaxMishaps   \* bound: lapsed leases, failing stores and processes that die

Step == 1..Last

ASSUME WaitingAssumption ==
  /\ Last \in Nat /\ Start \subseteq Step /\ MaxMishaps \in Nat
  /\ Kind \in [Step -> {"human", "gate", "event", "timer"}]
  /\ NextOf \in [Step -> 0..Last] /\ OnTimeout \in [Step -> 0..Last]

\* Where a path may go from a step, and every step it may still come to.
Leads(s) == {NextOf[s], OnTimeout[s]} \ {0}
Ahead ==
  [s \in Step |-> {t \in Step : \A S \in SUBSET Step :
                                  s \in S /\ (\A r \in S : Leads(r) \subseteq S) => t \in S}]

\* validateDefinition: no loop.
ASSUME DefinitionAssumption == \A s \in Step : \A t \in Leads(s) : s \notin Ahead[t]

\* What it says of a fan-out: its paths share no step.
PathsApart == \A s, t \in Start : s # t => Ahead[s] \cap Ahead[t] = {}

VARIABLES
  token,      \* the instance's tokens, by step
  history,    \* the outcomes the instance holds, by step
  ended,      \* the instance's terminal status
  rows,       \* the operating record's rows of each step, with their tasks
  approvals,  \* the requests raised for each gate
  worker, completion, signal,  \* calls between two store calls
  mishaps     \* used up of the bound

case == <<token, history, ended>>
record == <<rows, approvals>>
calls == <<worker, completion, signal>>
vars == <<case, record, calls, mishaps>>

Gone == [state |-> "none", lapsed |-> FALSE, due |-> FALSE, row |-> 0, approval |-> 0]
Ready == [Gone EXCEPT !.state = "ready"]
Idle == [pc |-> "idle", step |-> 0, from |-> "none", row |-> 0, approval |-> 0]
NotCalled == [pc |-> "idle", step |-> 0, row |-> 0]

Parked == {"waiting_human", "waiting_approval", "waiting_event", "waiting_timer"}
WaitsAs(s) == CASE Kind[s] = "human" -> "waiting_human"
                [] Kind[s] = "gate"  -> "waiting_approval"
                [] Kind[s] = "event" -> "waiting_event"
                [] OTHER             -> "waiting_timer"

TypeOK ==
  /\ token \in [Step -> [state : {"none", "ready", "running"} \cup Parked,
                         lapsed : BOOLEAN, due : BOOLEAN, row : Nat, approval : Nat]]
  /\ \A s \in Step : token[s].row <= Len(rows[s]) /\ token[s].approval <= Len(approvals[s])
  /\ history \in [Step -> {"none", "succeeded", "skipped", "failed", "denied"}]
  /\ ended \in {"no", "succeeded", "failed", "denied", "cancelled"}
  /\ \A s \in Step : \A r \in DOMAIN rows[s] :
       rows[s][r] \in [status : {"waiting", "succeeded", "skipped", "failed"},
                       task : {"none", "open", "completed"}, noted : Nat]
  /\ \A s \in Step : \A a \in DOMAIN approvals[s] :
       approvals[s][a] \in {"pending", "granted", "rejected", "expired"}
  /\ worker \in [Worker ->
       [pc : {"idle", "refresh", "pick", "refreshed", "run", "append", "task", "create", "ask",
              "note", "park", "skip", "timeout", "timed_out", "fire", "fired", "denied"},
        step : 0..Last, from : {"none", "ready", "running"} \cup Parked,
        row : Nat, approval : Nat]]
  /\ completion \in [Completion ->
       [pc : {"idle", "row", "task", "advance", "refused", "completed", "lost"},
        step : 0..Last, row : Nat]]
  /\ signal \in [Signal ->
       [pc : {"idle", "row", "advance", "refused", "accepted", "lost"}, step : 0..Last, row : Nat]]
  /\ mishaps \in 0..MaxMishaps

Init ==
  /\ token = [s \in Step |-> IF s \in Start THEN Ready ELSE Gone]
  /\ history = [s \in Step |-> "none"]
  /\ ended = "no"
  /\ rows = [s \in Step |-> <<>>]
  /\ approvals = [s \in Step |-> <<>>]
  /\ worker = [w \in Worker |-> Idle]
  /\ completion = [c \in Completion |-> NotCalled]
  /\ signal = [g \in Signal |-> NotCalled]
  /\ mishaps = 0

-----------------------------------------------------------------------------
\* advanceTo: the token leaves its step with an outcome and its path goes on.
\* An instance with no token left has succeeded.
AdvanceTo(s, outcome, next) ==
  LET left == [token EXCEPT ![s] = Gone]
      moved == IF next = 0 THEN left ELSE [left EXCEPT ![next] = Ready]
  IN /\ token' = moved
     /\ history' = [history EXCEPT ![s] = outcome]
     /\ ended' = IF \A t \in Step : moved[t] = Gone THEN "succeeded" ELSE "no"

MutMutate(s, states, outcome, next) == ended = "no" /\ AdvanceTo(s, outcome, next)

\* mutate with an advance: applied to the instance as it is then, and only to a
\* token still in one of the states the caller asks for.
Mutate(s, states, outcome, next) ==
  IF token[s].state \in states THEN AdvanceTo(s, outcome, next) ELSE UNCHANGED case

AnyState == {"ready", "running"} \cup Parked

\* settleDenied, settleFailed and cancel drop every token; waiting steps leave
\* nothing to undo, so the instance lands at once.
Settle(status) ==
  IF ended # "no" THEN UNCHANGED <<token, ended>>
  ELSE token' = [s \in Step |-> Gone] /\ ended' = status

SettleAt(s, status) ==
  Settle(status) /\ history' = IF ended # "no" THEN history ELSE [history EXCEPT ![s] = status]

MutOpenRow(s, r) == TRUE

\* patchStep takes a change to a row that is not finished; it throws on any
\* other, a repeat of the same patch at a later time included.
OpenRow(s, r) == rows[s][r].status = "waiting"

CloseRow(s, r, status) == rows' = [rows EXCEPT ![s][r].status = status]

Goto(w, pc) == worker' = [worker EXCEPT ![w].pc = pc]
Aborted(w) == worker' = [worker EXCEPT ![w] = Idle]

Mishap == mishaps < MaxMishaps /\ mishaps' = mishaps + 1

\* A step's pass ends with its change to the instance, on which the swap may also
\* fail though the change was saved: the error is a refusal all the same.
NextPick(w) == worker' = [worker EXCEPT ![w] = [Idle EXCEPT !.pc = "pick"]]
Leave(w) == (NextPick(w) /\ UNCHANGED mishaps) \/ (Goto(w, "denied") /\ Mishap)

-----------------------------------------------------------------------------
\* The sweep's question to the store: an instance with a token to run, or whose
\* earliest wake-up has come.
IsDue == \E s \in Step : token[s].state \in {"ready", "running"} \/ token[s].due

\* A pass over the instance begins.
TickStart(w) ==
  /\ worker[w].pc = "idle" /\ ended = "no" /\ IsDue
  /\ Goto(w, "refresh")
  /\ UNCHANGED <<case, record, completion, signal, mishaps>>

\* Gates whose approval, by the id on the token, has been decided.
Decided == {s \in Step : /\ token[s].state = "waiting_approval"
                         /\ approvals[s][token[s].approval] # "pending"}

Granted(s) == approvals[s][token[s].approval] = "granted"

\* refreshApprovals, for one gate: a grant closes the row, a rejection or an
\* expiry refuses the instance.  A row already closed throws out of the pass.
Refresh(w) ==
  /\ worker[w].pc = "refresh"
  /\ \/ /\ Decided = {} /\ Goto(w, "pick") /\ UNCHANGED <<case, rows>>
     \/ \E s \in Decided :
          LET r == token[s].row IN
          \/ /\ Granted(s) /\ OpenRow(s, r)
             /\ CloseRow(s, r, "succeeded")
             /\ worker' = [worker EXCEPT ![w].pc = "refreshed", ![w].step = s]
             /\ UNCHANGED case
          \/ /\ Granted(s) /\ ~OpenRow(s, r)
             /\ Aborted(w) /\ UNCHANGED <<case, rows>>
          \/ /\ ~Granted(s)
             /\ SettleAt(s, "denied") /\ UNCHANGED <<rows, worker>>
  /\ UNCHANGED <<approvals, completion, signal, mishaps>>

RefreshAdvance(w) ==
  /\ worker[w].pc = "refreshed"
  /\ LET s == worker[w].step IN
       Mutate(s, {"waiting_approval"}, "succeeded", NextOf[s])
  /\ worker' = [worker EXCEPT ![w] = [Idle EXCEPT !.pc = "refresh"]]
  /\ UNCHANGED <<record, completion, signal, mishaps>>

MutActionable ==
  {s \in Step : \/ token[s].state = "ready"
                \/ token[s].state \in {"waiting_timer", "waiting_event"} /\ token[s].due}

\* The tokens that can do something now, and the one the definition's order
\* puts first.
Actionable ==
  {s \in Step : \/ token[s].state = "ready"
                \/ token[s].state = "running" /\ token[s].lapsed
                \/ token[s].state \in {"waiting_timer", "waiting_event"} /\ token[s].due}

\* pickActionableToken and claim, or the end of the pass.
Claim(w) ==
  /\ worker[w].pc = "pick"
  /\ \/ /\ Actionable = {} /\ Aborted(w) /\ UNCHANGED token
     \/ \E s \in Actionable :
          /\ \A t \in Actionable : s <= t
          /\ token' = [token EXCEPT ![s].state = "running", ![s].lapsed = FALSE]
          /\ worker' = [worker EXCEPT ![w] =
                         [Idle EXCEPT !.pc = "run", !.step = s, !.from = token[s].state,
                                      !.row = token[s].row]]
  /\ UNCHANGED <<history, ended, record, completion, signal, mishaps>>

\* runStep: containment refuses, a due wait has ended, and any other step looks
\* for its row: one that succeeded is not performed again.
RunStep(w) ==
  LET s == worker[w].step IN
  /\ worker[w].pc = "run"
  /\ \/ Goto(w, "denied")
     \/ worker[w].from = "waiting_event" /\ Goto(w, "timeout")
     \/ worker[w].from = "waiting_timer" /\ Goto(w, "fire")
     \/ /\ worker[w].from \in {"ready", "running"}
        /\ worker' = [worker EXCEPT
             ![w].row = IF rows[s] = <<>> THEN 0 ELSE 1,    \* the earliest row
             ![w].pc = IF rows[s] = <<>> THEN "append"
                       ELSE IF rows[s][1].status = "succeeded" THEN "skip"
                       ELSE CASE Kind[s] = "human" -> "task" [] Kind[s] = "gate" -> "ask"
                              [] OTHER -> "park"]
  /\ UNCHANGED <<case, record, completion, signal, mishaps>>

-----------------------------------------------------------------------------
StepOf(w) == worker[w].step
RowOf(w) == worker[w].row

\* The step's row.  Two processes that both found none append one each.
AppendRow(w) ==
  LET s == StepOf(w) IN
  /\ worker[w].pc = "append"
  /\ rows' = [rows EXCEPT ![s] = Append(@, [status |-> "waiting", task |-> "none", noted |-> 0])]
  /\ worker' = [worker EXCEPT ![w].row = Len(rows[s]) + 1,
                              ![w].pc = CASE Kind[s] = "human" -> "task"
                                          [] Kind[s] = "gate" -> "ask" [] OTHER -> "park"]
  /\ UNCHANGED <<case, approvals, completion, signal, mishaps>>

\* runHumanTask: the task shares the row's id, and is created if it is not there.
FindTask(w) ==
  /\ worker[w].pc = "task"
  /\ Goto(w, IF rows[StepOf(w)][RowOf(w)].task = "none" THEN "create" ELSE "park")
  /\ UNCHANGED <<case, record, completion, signal, mishaps>>

CreateTask(w) ==
  LET s == StepOf(w) r == RowOf(w) IN
  /\ worker[w].pc = "create"
  /\ IF rows[s][r].task = "none"
     THEN rows' = [rows EXCEPT ![s][r].task = "open"] /\ Goto(w, "park")
     ELSE Aborted(w) /\ UNCHANGED rows    \* "already on a queue"
  /\ UNCHANGED <<case, approvals, completion, signal, mishaps>>

\* runApprovalGate: the approval noted on the row, while it is pending, or a new
\* request.
Ask(w) ==
  LET s == StepOf(w)
      prior == rows[s][RowOf(w)].noted IN
  /\ worker[w].pc = "ask"
  /\ IF prior # 0 /\ approvals[s][prior] = "pending"
     THEN /\ worker' = [worker EXCEPT ![w].approval = prior, ![w].pc = "park"]
          /\ UNCHANGED approvals
     ELSE /\ approvals' = [approvals EXCEPT ![s] = Append(@, "pending")]
          /\ worker' = [worker EXCEPT ![w].approval = Len(approvals[s]) + 1, ![w].pc = "note"]
  /\ UNCHANGED <<case, rows, completion, signal, mishaps>>

\* Its id goes on the row, unless the row was closed meanwhile.
Note(w) ==
  LET s == StepOf(w) r == RowOf(w) IN
  /\ worker[w].pc = "note"
  /\ IF OpenRow(s, r)
     THEN rows' = [rows EXCEPT ![s][r].noted = worker[w].approval] /\ Goto(w, "park")
     ELSE Goto(w, "denied") /\ UNCHANGED rows
  /\ UNCHANGED <<case, approvals, completion, signal, mishaps>>

\* The token waits: on its task, its approval, its event or its timer.
Park(w) ==
  LET s == StepOf(w) IN
  /\ worker[w].pc = "park"
  /\ token' = IF token[s] = Gone THEN token
              ELSE [token EXCEPT ![s] = [state |-> WaitsAs(s), lapsed |-> FALSE, due |-> FALSE,
                                         row |-> RowOf(w), approval |-> worker[w].approval]]
  /\ Leave(w)
  /\ UNCHANGED <<history, ended, record, completion, signal>>

\* skipAlreadyPerformed.
Skip(w) ==
  /\ worker[w].pc = "skip"
  /\ Mutate(StepOf(w), AnyState, "succeeded", NextOf[StepOf(w)])
  /\ Leave(w)
  /\ UNCHANGED <<record, completion, signal>>

\* runWaitForEvent on a due token: the timeout closes the row, unless a signal
\* closed it first, and then the token goes where the definition says.
Timeout(w) ==
  LET s == StepOf(w) r == RowOf(w) IN
  /\ worker[w].pc = "timeout"
  /\ IF OpenRow(s, r)
     THEN /\ CloseRow(s, r, IF OnTimeout[s] = 0 THEN "failed" ELSE "skipped")
          /\ Goto(w, "timed_out")
     ELSE Goto(w, "denied") /\ UNCHANGED rows
  /\ UNCHANGED <<case, approvals, completion, signal, mishaps>>

TimedOut(w) ==
  LET s == StepOf(w) IN
  /\ worker[w].pc = "timed_out"
  /\ IF OnTimeout[s] = 0 THEN SettleAt(s, "failed")
                         ELSE Mutate(s, AnyState, "skipped", OnTimeout[s])
  /\ Leave(w)
  /\ UNCHANGED <<record, completion, signal>>

\* runTimer on a due token.
Fire(w) ==
  LET s == StepOf(w) r == RowOf(w) IN
  /\ worker[w].pc = "fire"
  /\ IF OpenRow(s, r) THEN CloseRow(s, r, "succeeded") /\ Goto(w, "fired")
                      ELSE Goto(w, "denied") /\ UNCHANGED rows
  /\ UNCHANGED <<case, approvals, completion, signal, mishaps>>

Fired(w) ==
  /\ worker[w].pc = "fired"
  /\ Mutate(StepOf(w), AnyState, "succeeded", NextOf[StepOf(w)])
  /\ Leave(w)
  /\ UNCHANGED <<record, completion, signal>>

\* A denial thrown in runStep ends the instance.
Deny(w) ==
  /\ worker[w].pc = "denied"
  /\ SettleAt(StepOf(w), "denied")
  /\ NextPick(w)
  /\ UNCHANGED <<record, completion, signal, mishaps>>

\* A call of a store fails inside runStep before it is done: a refusal too.
StoreFails(w) ==
  /\ worker[w].pc \in {"run", "append", "task", "create", "ask", "note", "park", "skip",
                       "timeout", "timed_out", "fire", "fired"}
  /\ Goto(w, "denied") /\ Mishap
  /\ UNCHANGED <<case, record, completion, signal>>

-----------------------------------------------------------------------------
\* completeHumanTask: the task is open and its case has not ended.
Complete(c, s, r) ==
  /\ completion[c].pc = "idle"
  /\ rows[s][r].task = "open" /\ ended = "no"
  /\ completion' = [completion EXCEPT ![c] = [pc |-> "row", step |-> s, row |-> r]]
  /\ UNCHANGED <<case, record, worker, signal, mishaps>>

\* Its three writes, in the order of the code.
CompleteRow(c) ==
  LET s == completion[c].step r == completion[c].row IN
  /\ completion[c].pc = "row"
  /\ IF OpenRow(s, r)
     THEN CloseRow(s, r, "succeeded") /\ completion' = [completion EXCEPT ![c].pc = "task"]
     ELSE completion' = [completion EXCEPT ![c].pc = "refused"] /\ UNCHANGED rows
  /\ UNCHANGED <<case, approvals, worker, signal, mishaps>>

CompleteTask(c) ==
  LET s == completion[c].step r == completion[c].row IN
  /\ completion[c].pc = "task"
  /\ rows' = [rows EXCEPT ![s][r].task = "completed"]
  /\ completion' = [completion EXCEPT ![c].pc = "advance"]
  /\ UNCHANGED <<case, approvals, worker, signal, mishaps>>

CompleteAdvance(c) ==
  LET s == completion[c].step IN
  /\ completion[c].pc = "advance"
  /\ Mutate(s, {"waiting_human"}, "succeeded", NextOf[s])
  /\ completion' = [completion EXCEPT ![c].pc = "completed"]
  /\ UNCHANGED <<record, worker, signal, mishaps>>

\* signalEvent: a path waits for the event.
Deliver(g, s) ==
  /\ signal[g].pc = "idle"
  /\ token[s].state = "waiting_event"
  /\ signal' = [signal EXCEPT ![g] = [pc |-> "row", step |-> s, row |-> token[s].row]]
  /\ UNCHANGED <<case, record, worker, completion, mishaps>>

SignalRow(g) ==
  LET s == signal[g].step r == signal[g].row IN
  /\ signal[g].pc = "row"
  /\ IF OpenRow(s, r)
     THEN CloseRow(s, r, "succeeded") /\ signal' = [signal EXCEPT ![g].pc = "advance"]
     ELSE signal' = [signal EXCEPT ![g].pc = "refused"] /\ UNCHANGED rows
  /\ UNCHANGED <<case, approvals, worker, completion, mishaps>>

SignalAdvance(g) ==
  LET s == signal[g].step IN
  /\ signal[g].pc = "advance"
  /\ Mutate(s, {"waiting_event"}, "succeeded", NextOf[s])
  /\ signal' = [signal EXCEPT ![g].pc = "accepted"]
  /\ UNCHANGED <<record, worker, completion, mishaps>>

\* An operator cancels the case.
Cancel ==
  /\ ended = "no"
  /\ Settle("cancelled")
  /\ UNCHANGED <<history, record, calls, mishaps>>

\* An approver decides, or the request expires.
Decide(s, a, decision) ==
  /\ approvals[s][a] = "pending"
  /\ approvals' = [approvals EXCEPT ![s][a] = decision]
  /\ UNCHANGED <<case, rows, calls, mishaps>>

\* A wake-up time comes.
WakeUp(s) ==
  /\ token[s].state \in {"waiting_event", "waiting_timer"} /\ ~token[s].due
  /\ token' = [token EXCEPT ![s].due = TRUE]
  /\ UNCHANGED <<history, ended, record, calls, mishaps>>

\* Somebody holds the claim on the step and is at work on it.
Held(s) == \E w \in Worker : worker[w].step = s /\ worker[w].pc # "refreshed"

\* A claim's lease runs out, its holder dead or only slow.
Lapse(s) ==
  /\ token[s].state = "running" /\ ~token[s].lapsed
  /\ token' = [token EXCEPT ![s].lapsed = TRUE]
  /\ IF Held(s) THEN Mishap ELSE UNCHANGED mishaps
  /\ UNCHANGED <<history, ended, record, calls>>

\* A process dies between two store calls.
Crash ==
  /\ Mishap
  /\ \/ \E w \in Worker :
          worker[w].pc # "idle" /\ Aborted(w) /\ UNCHANGED <<completion, signal>>
     \/ \E c \in Completion :
          /\ completion[c].pc \in {"row", "task", "advance"}
          /\ completion' = [completion EXCEPT ![c].pc = "lost"] /\ UNCHANGED <<worker, signal>>
     \/ \E g \in Signal :
          /\ signal[g].pc \in {"row", "advance"}
          /\ signal' = [signal EXCEPT ![g].pc = "lost"] /\ UNCHANGED <<worker, completion>>
  /\ UNCHANGED <<case, record>>

Work(w) ==
  \/ TickStart(w) \/ Refresh(w) \/ RefreshAdvance(w) \/ Claim(w) \/ RunStep(w)
  \/ AppendRow(w) \/ FindTask(w) \/ CreateTask(w) \/ Ask(w) \/ Note(w) \/ Park(w)
  \/ Skip(w) \/ Timeout(w) \/ TimedOut(w) \/ Fire(w) \/ Fired(w) \/ Deny(w)

Next ==
  \/ \E w \in Worker : Work(w)
  \/ \E c \in Completion :
       \/ \E s \in Step : \E r \in DOMAIN rows[s] : Complete(c, s, r)
       \/ CompleteRow(c) \/ CompleteTask(c) \/ CompleteAdvance(c)
  \/ \E g \in Signal : (\E s \in Step : Deliver(g, s)) \/ SignalRow(g) \/ SignalAdvance(g)
  \/ Cancel
  \/ \E s \in Step : \E a \in DOMAIN approvals[s], decision \in {"granted", "rejected", "expired"} :
       Decide(s, a, decision)
  \/ \E s \in Step : WakeUp(s) \/ Lapse(s)
  \/ Crash \/ \E w \in Worker : StoreFails(w)

Spec == Init /\ [][Next]_vars

\* The maintenance loop sweeps for ever; the clock reaches every wake-up time, and
\* the end of a lease whose holder died.
Fairness ==
  /\ \A w \in Worker : WF_vars(Work(w))
  /\ \A s \in Step : WF_vars(WakeUp(s)) /\ WF_vars(~Held(s) /\ Lapse(s))
FairSpec == Spec /\ Fairness

-----------------------------------------------------------------------------
\* A task is completed once: of all the people who complete it, one is told so,
\* and the operating record's row, which takes one end, is what decides.
OneCompletionPerTask ==
  \A c, d \in Completion :
    /\ completion[c].pc = "completed" /\ completion[d].pc = "completed"
    /\ completion[c].step = completion[d].step /\ completion[c].row = completion[d].row
    => c = d

\* The outcome the instance holds and the rows of the operating record never
\* contradict each other: a step passed has a row that succeeded, a wait that
\* timed out has one that was skipped, whoever else raced for either.
RecordBacksHistory ==
  \A s \in Step :
    /\ history[s] = "succeeded" => \E r \in DOMAIN rows[s] : rows[s][r].status = "succeeded"
    /\ history[s] = "skipped" => \E r \in DOMAIN rows[s] : rows[s][r].status = "skipped"

\* A step is left once: its token does not come back and its outcome stands,
\* though a worker, a person, a signal and a timeout may all try to move it.
\* Only a refusal or a timeout that fails the case rewrites it, and either ends
\* the case.
LeftOnce ==
  [][\A s \in Step : history[s] \in {"succeeded", "skipped"} =>
       /\ token'[s] = Gone
       /\ history'[s] # history[s] => ended = "no" /\ ended' \in {"denied", "failed"}]_vars

\* A gate whose grant closed the row and whose process died before the token
\* moved: every later pass throws on the closed row.
Stranded(s) ==
  /\ token[s].state = "waiting_approval"
  /\ Granted(s) /\ ~OpenRow(s, token[s].row)
  /\ \A w \in Worker : ~(worker[w].pc = "refreshed" /\ worker[w].step = s)

\* A timer that is due fires, whoever dies on the way, unless its case ends or
\* another path of it is stranded at a gate.
TimersFire ==
  \A s \in Step : Kind[s] = "timer" =>
    (token[s].due ~> history[s] # "none" \/ ended # "no" \/ \E t \in Step : Stranded(t))
=============================================================================
