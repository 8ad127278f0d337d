--------------------------- MODULE WorkflowEngine ---------------------------
(***************************************************************************)
(* One workflow instance driven by the engine (engine/runner.ts,           *)
(* engine/instance.ts) over its store and the operating record.            *)
(*                                                                         *)
(* Several engine processes sweep the same stores.  Each works on one step *)
(* at a time - claim, look up, record, authorise, act, record, advance -   *)
(* and every await between two of those is a point where the others run,   *)
(* the operator cancels, the lease lapses or the process dies.  A change   *)
(* of the instance is one compare-and-swap on a fresh read (mutate), so it *)
(* is one action here.  A store that fails inside a step, or a swap that   *)
(* loses eight races in a row, is a refusal to the engine (StoreFails);    *)
(* anywhere else it ends the tick as a crash does.                         *)
(***************************************************************************)
EXTENDS Integers, Sequences, FiniteSets

CONSTANTS
  Process,      \* engine processes over one store
  Step,         \* the steps of the definition
  Nil,          \* no step
  First,        \* where the instance starts
  Kind,         \* each step's type
  Rank,         \* each step's position in the definition
  After,        \* a step's next; a parallel step's join
  Heads,        \* a parallel step's branches; a branch step's targets
  Undo,         \* a step's compensation
  MaxAttempts,  \* a step's retry policy
  Fallible,     \* bound: the steps that may be refused, throw, be unmergeable or lose the store
  MaxMishaps,   \* bound: processes that die and stores that fail
  MaxCancels    \* bound on an operator's cancellations

Effecting == {"action", "compensation"}

\* The steps that may get a token when s is left: a join is one of its fan-out's.
Leads(s) == CASE Kind[s] = "branch" -> Heads[s]
              [] Kind[s] = "parallel" -> Heads[s] \cup {After[s]}
              [] OTHER -> {After[s]} \ {Nil}

\* Every step that can run from s on, s included.
Ahead ==
  [s \in Step |-> {t \in Step : \A S \in SUBSET Step :
                                  s \in S /\ (\A r \in S : Leads(r) \subseteq S) => t \in S}]

\* What validateDefinition leaves, as far as the engine relies on it: no loop, and
\* compensations apart from the paths.
ASSUME DefinitionAssumption ==
  /\ IsFiniteSet(Step)
  /\ Nil \notin Step
  /\ First \in Step
  /\ Kind \in [Step -> Effecting \cup {"branch", "parallel"}]
  /\ Rank \in [Step -> Nat]
  /\ After \in [Step -> Step \cup {Nil}]
  /\ Heads \in [Step -> SUBSET Step]
  /\ Undo \in [Step -> Step \cup {Nil}]
  /\ MaxAttempts \in [Step -> Nat \ {0}]
  /\ \A s \in Step : Kind[s] = "parallel" => After[s] # Nil
  /\ \A s \in Step : \A t \in Leads(s) : s \notin Ahead[t]
  /\ \A s \in Step : Kind[s] = "compensation" <=> s \notin Ahead[First]
  /\ \A s \in Step : Kind[s] = "compensation" => After[s] = Nil /\ Undo[s] = Nil
  /\ \A s \in Step : Undo[s] # Nil => Kind[Undo[s]] = "compensation"
  /\ \A s \in Step : Kind[s] = "compensation" =>
       \E f \in Step : Undo[f] = s /\ \A g \in Step : Undo[g] = s => g = f
  /\ Fallible \subseteq Step
  /\ MaxMishaps \in Nat
  /\ MaxCancels \in Nat

\* What validateDefinition says of a fan-out: its paths share no step, and none of them
\* reaches the join or what follows it.
PathsApart ==
  \A s \in Step : Kind[s] = "parallel" =>
    /\ \A h, k \in Heads[s] : h # k => Ahead[h] \cap Ahead[k] = {}
    /\ \A h \in Heads[s] : Ahead[h] \cap Ahead[After[s]] = {}

VARIABLES
  inst,     \* the instance as stored
  proc,     \* what each process is in the middle of
  rows,     \* the operating record's rows under each step's idempotency key
  landed,   \* how often each step's effect has happened in the world
  run,      \* the operating record's run, and its "settled" audit entries
  mishaps,
  cancels

vars == <<inst, proc, rows, landed, run, mishaps, cancels>>

NoToken == [state |-> "none"]
NoBarrier == [arrived |-> -1]
Idle == [pc |-> "idle"]

\* A token.  inFlight is the attempt claimed and not finished (0: none); row is
\* the step row it owns (0: none); ripe says its lease or its wait has run out.
Token ==
  [state : {"ready", "running", "waiting"}, attempt : Nat, inFlight : Nat,
   row : Nat, ripe : BOOLEAN, barrier : Step \cup {Nil}]

Barrier == [arrived : Nat, parent : Step \cup {Nil}]

Outcome == {"succeeded", "failed", "denied", "compensated"}

\* The queue of compensations is kept as a set: its order is that of HeadOf.
Instance ==
  [tokens : [Step -> Token \cup {NoToken}],
   barriers : [Step -> Barrier \cup {NoBarrier}],
   history : Seq([step : Step, outcome : Outcome]),
   queue : SUBSET Step,
   verdict : {"succeeded", "failed", "denied", "cancelled"}]

\* A process at a step: the token it picked, as it was before the claim.
Working ==
  [pc : {"picked", "claimed", "checked", "recorded", "permitted", "landed",
         "succeeded", "skipping", "routing", "retrying", "failed", "denied"},
   step : Step, attempt : Nat, state : {"ready", "running", "waiting"},
   inFlight : Nat, row : Nat]

\* A process between two steps, or closing the run of an ended instance.
Between == [pc : {"looping", "ended", "unclosed", "closed"}]

TypeOK ==
  /\ inst \in Instance
  /\ proc \in [Process -> Working \cup Between \cup {Idle}]
  /\ rows \in [Step -> Seq({"running", "succeeded", "failed", "denied"})]
  /\ landed \in [Step -> Nat]
  /\ run \in [ended : BOOLEAN, entries : Nat]
  /\ mishaps \in 0..MaxMishaps
  /\ cancels \in 0..MaxCancels

-----------------------------------------------------------------------------
(* instance.ts: pure functions from an instance to the next.               *)

Fresh(barrier) ==
  [state |-> "ready", attempt |-> 1, inFlight |-> 0, row |-> 0, ripe |-> FALSE,
   barrier |-> barrier]

Live(i) == {s \in Step : i.tokens[s] # NoToken}

\* Terminal: nothing left to run and nothing left to undo.
Ended(i) == Live(i) = {} /\ i.queue = {}

WithToken(i, s, token) == [i EXCEPT !.tokens[s] = token]
WithoutToken(i, s) == [i EXCEPT !.tokens[s] = NoToken]
AppendHistory(i, s, outcome) ==
  [i EXCEPT !.history = Append(@, [step |-> s, outcome |-> outcome])]

Says(i, s, outcome) ==
  \E n \in DOMAIN i.history : i.history[n] = [step |-> s, outcome |-> outcome]

MutArriveEarly(i, b) ==
  WithToken([i EXCEPT !.barriers[b] = NoBarrier], After[b], Fresh(i.barriers[b].parent))

\* The last path of a fan-out to finish releases the join; a path that reports
\* to a barrier already gone releases nothing.
ArriveAtBarrier(i, b) ==
  LET arrived == i.barriers[b].arrived + 1 IN
  CASE i.barriers[b] = NoBarrier -> i
    [] i.barriers[b] # NoBarrier /\ arrived < Cardinality(Heads[b]) ->
         [i EXCEPT !.barriers[b].arrived = arrived]
    [] OTHER ->
         WithToken([i EXCEPT !.barriers[b] = NoBarrier],
                   After[b], Fresh(i.barriers[b].parent))

\* Past a completed step: to its successor, to its join, or to nothing.
AdvanceTo(i, s, next) ==
  LET done == AppendHistory(WithoutToken(i, s), s, "succeeded")
      barrier == i.tokens[s].barrier
  IN CASE next # Nil -> WithToken(done, next, Fresh(barrier))
       [] next = Nil /\ barrier # Nil -> ArriveAtBarrier(done, barrier)
       [] OTHER -> done

\* The step a compensation undoes: a definition has exactly one.
ForwardOf(u) == CHOOSE f \in Step : Undo[f] = u

CompletedAfter(i, s, t) ==
  \E m \in DOMAIN i.history :
    /\ i.history[m] = [step |-> s, outcome |-> "succeeded"]
    /\ \A n \in DOMAIN i.history :
         i.history[n] = [step |-> t, outcome |-> "succeeded"] => n < m

MutHeadOf(i) ==
  CHOOSE u \in i.queue : \A v \in i.queue \ {u} : CompletedAfter(i, ForwardOf(v), ForwardOf(u))

\* The head of the queue, built in reverse order of completion.
HeadOf(i) ==
  CHOOSE u \in i.queue : \A v \in i.queue \ {u} : CompletedAfter(i, ForwardOf(u), ForwardOf(v))

\* Give the head of the queue a token, if anything is left to undo.
NextInQueue(i) == IF i.queue = {} THEN i ELSE WithToken(i, HeadOf(i), Fresh(Nil))

\* What the history says succeeded, declares an undo and was not undone.
CompensationQueue(i) ==
  {Undo[s] : s \in {t \in Step : /\ Undo[t] # Nil
                                 /\ Says(i, t, "succeeded")
                                 /\ ~Says(i, t, "compensated")}}

\* Drop every live path and every join.
ClearPaths(i) ==
  [i EXCEPT !.tokens = [s \in Step |-> NoToken],
            !.barriers = [s \in Step |-> NoBarrier]]

BeginUnwind(i) ==
  NextInQueue([ClearPaths(i) EXCEPT !.queue = CompensationQueue(i)])

CompleteCompensation(i, s) ==
  LET undone == AppendHistory(AppendHistory(WithoutToken(i, s), s, "succeeded"),
                              ForwardOf(s), "compensated")
  IN NextInQueue([undone EXCEPT !.queue = @ \ {s}])

\* settleFailed and settleDenied, on an instance still open.
Settle(i, s, verdict) ==
  LET noted == [AppendHistory(WithoutToken(i, s), s, verdict) EXCEPT !.verdict = verdict]
  IN IF Kind[s] = "compensation" THEN [ClearPaths(noted) EXCEPT !.queue = {}]
     ELSE BeginUnwind(noted)

FanOut(i, s) ==
  LET begun == AppendHistory(WithoutToken(i, s), s, "succeeded")
      barrier == [arrived |-> 0, parent |-> i.tokens[s].barrier]
  IN [begun EXCEPT !.barriers[s] = barrier,
                   !.tokens = [t \in Step |-> IF t \in Heads[s] THEN Fresh(s)
                                              ELSE begun.tokens[t]]]

-----------------------------------------------------------------------------
(* runner.ts: what processes do.                                           *)

Init ==
  /\ inst = [tokens |-> [s \in Step |-> IF s = First THEN Fresh(Nil) ELSE NoToken],
             barriers |-> [s \in Step |-> NoBarrier],
             history |-> <<>>, queue |-> {}, verdict |-> "succeeded"]
  /\ proc = [p \in Process |-> Idle]
  /\ rows = [s \in Step |-> <<>>]
  /\ landed = [s \in Step |-> 0]
  /\ run = [ended |-> FALSE, entries |-> 0]
  /\ mishaps = 0
  /\ cancels = 0

At(p, pc) == proc[p].pc = pc
Goto(p, pc) == proc' = [proc EXCEPT ![p].pc = pc]
Become(p, state) == proc' = [proc EXCEPT ![p] = state]
EndStep(p) == Become(p, [pc |-> "looping"])   \* back to the loop of tick

Mishap == mishaps < MaxMishaps /\ mishaps' = mishaps + 1

\* A step that has moved the instance is over; or its swap was saved and the store
\* seemed to fail, which the engine takes for a refusal.
Leave(p) ==
  \/ EndStep(p) /\ UNCHANGED mishaps
  \/ proc[p].step \in Fallible /\ Goto(p, "denied") /\ Mishap

MutActionable(s) ==
  \/ inst.tokens[s].state = "ready"
  \/ inst.tokens[s].state = "waiting" /\ inst.tokens[s].ripe

\* A token that can do something now: ready, or its lease or wait has run out.
Actionable(s) ==
  \/ inst.tokens[s].state = "ready"
  \/ inst.tokens[s].state \in {"running", "waiting"} /\ inst.tokens[s].ripe

\* sweep: dueInstances never returns an instance that has ended.
Due == \E s \in Live(inst) : inst.tokens[s].state \in {"ready", "running"} \/ inst.tokens[s].ripe

Sweep(p) ==
  /\ proc[p] = Idle
  /\ Due
  /\ EndStep(p)
  /\ UNCHANGED <<inst, rows, landed, run, mishaps, cancels>>

\* The head of tick's loop: read the instance, pick the first actionable token
\* in the definition's order, or leave; an ended instance goes to finalise.
Pick(p) ==
  /\ At(p, "looping")
  /\ CASE Ended(inst) -> Become(p, [pc |-> "ended"])
       [] ~Ended(inst) /\ ~(\E s \in Step : Actionable(s)) -> Become(p, Idle)
       [] OTHER -> \E s \in Step :
            /\ Actionable(s)
            /\ \A t \in Step : Actionable(t) => Rank[s] <= Rank[t]
            /\ Become(p, [pc |-> "picked", step |-> s, attempt |-> inst.tokens[s].attempt,
                          state |-> inst.tokens[s].state,
                          inFlight |-> inst.tokens[s].inFlight, row |-> inst.tokens[s].row])
  /\ UNCHANGED <<inst, rows, landed, run, mishaps, cancels>>

\* Nobody moved the token since it was picked, and no live claim holds it.
Claimable(p) ==
  LET token == inst.tokens[proc[p].step] IN
  /\ token # NoToken
  /\ token.attempt = proc[p].attempt
  /\ token.state = proc[p].state
  /\ token.state = "running" => token.ripe

\* The token once claimed: its attempt is in flight and its lease starts.
Claimed(token) ==
  [token EXCEPT !.state = "running", !.inFlight = token.attempt, !.ripe = FALSE]

Claim(p) ==
  /\ At(p, "picked")
  /\ IF Claimable(p)
     THEN /\ inst' = WithToken(inst, proc[p].step, Claimed(inst.tokens[proc[p].step]))
          /\ Goto(p, "claimed")
     ELSE Become(p, Idle) /\ UNCHANGED inst
  /\ UNCHANGED <<rows, landed, run, mishaps, cancels>>

\* Containment stops a step that is not a compensation.
Contain(p) ==
  /\ At(p, "claimed")
  /\ proc[p].step \in Fallible
  /\ Kind[proc[p].step] # "compensation"
  /\ Goto(p, "denied")
  /\ UNCHANGED <<inst, rows, landed, run, mishaps, cancels>>

MutRunsAgain(p) ==
  LET existing == rows[proc[p].step] IN
  IF existing # <<>> /\ existing[1] = "succeeded" THEN "skipping" ELSE "checked"

MutSkipsAnyRow(p) ==
  CASE rows[proc[p].step] # <<>> -> "skipping"
    [] proc[p].inFlight = proc[p].attempt -> "failed"
    [] OTHER -> "checked"

\* What the operating record and the token say of the effect, in that order:
\* landed, possibly landed, recorded by someone else, or free to perform.  The
\* earliest row under a key owns the effect.
LookupVerdict(p) ==
  LET existing == rows[proc[p].step] IN
  CASE existing # <<>> /\ existing[1] = "succeeded" -> "skipping"
    [] proc[p].inFlight = proc[p].attempt -> "failed"
    [] existing # <<>> /\ proc[p].row # 1 -> "failed"
    [] OTHER -> "checked"

Lookup(p) ==
  /\ At(p, "claimed")
  /\ Kind[proc[p].step] \in Effecting
  /\ Goto(p, LookupVerdict(p))
  /\ UNCHANGED <<inst, rows, landed, run, mishaps, cancels>>

\* Append the step's row, or go on with the row of an earlier attempt.
RecordRunning(p) ==
  LET s == proc[p].step IN
  /\ At(p, "checked")
  /\ IF proc[p].row = 0
     THEN /\ rows' = [rows EXCEPT ![s] = Append(@, "running")]
          /\ Become(p, [pc |-> "recorded", step |-> s, attempt |-> proc[p].attempt,
                        state |-> proc[p].state, inFlight |-> proc[p].inFlight,
                        row |-> Len(rows[s]) + 1])
     ELSE Goto(p, "recorded") /\ UNCHANGED rows
  /\ UNCHANGED <<inst, landed, run, mishaps, cancels>>

PatchRow(p, status) == rows' = [rows EXCEPT ![proc[p].step][proc[p].row] = status]

\* The chokepoint permits the step, or refuses it (no scope, a ceiling, an
\* approval, containment) and the refusal closes the row.
Permit(p) ==
  /\ At(p, "recorded")
  /\ Goto(p, "permitted")
  /\ UNCHANGED <<inst, rows, landed, run, mishaps, cancels>>

Refuse(p) ==
  /\ At(p, "recorded")
  /\ proc[p].step \in Fallible
  /\ PatchRow(p, "denied")
  /\ Goto(p, "denied")
  /\ UNCHANGED <<inst, landed, run, mishaps, cancels>>

\* The handler returns: its effect has happened.
Land(p) ==
  /\ At(p, "permitted")
  /\ landed' = [landed EXCEPT ![proc[p].step] = @ + 1]
  /\ Goto(p, "landed")
  /\ UNCHANGED <<inst, rows, run, mishaps, cancels>>

CanRetry(p) == proc[p].attempt < MaxAttempts[proc[p].step]

\* The handler throws, having had no effect: a refusal, a failure with no retry
\* left, or one to retry; releasing the reservation may itself be refused.
ThrowDenied(p) ==
  /\ At(p, "permitted")
  /\ proc[p].step \in Fallible
  /\ PatchRow(p, "denied") \/ UNCHANGED rows
  /\ Goto(p, "denied")
  /\ UNCHANGED <<inst, landed, run, mishaps, cancels>>

ThrowFatal(p) ==
  /\ At(p, "permitted")
  /\ proc[p].step \in Fallible
  /\ PatchRow(p, "failed")
  /\ Goto(p, "failed")
  /\ UNCHANGED <<inst, landed, run, mishaps, cancels>>

ThrowRetryable(p) ==
  /\ At(p, "permitted")
  /\ proc[p].step \in Fallible
  /\ CanRetry(p)
  /\ Goto(p, "retrying")
  /\ UNCHANGED <<inst, rows, landed, run, mishaps, cancels>>

\* The token waits for its next attempt, which reuses the open row.
Retried(token, row) ==
  [state |-> "waiting", attempt |-> token.attempt + 1, inFlight |-> 0,
   row |-> row, ripe |-> FALSE, barrier |-> token.barrier]

Retry(p) ==
  LET s == proc[p].step IN
  /\ At(p, "retrying")
  /\ inst' = IF s \in Live(inst)
             THEN WithToken(inst, s, Retried(inst.tokens[s], proc[p].row)) ELSE inst
  /\ Leave(p)
  /\ UNCHANGED <<rows, landed, run, cancels>>

RecordSucceeded(p) ==
  /\ At(p, "landed")
  /\ PatchRow(p, "succeeded")
  /\ Goto(p, "succeeded")
  /\ UNCHANGED <<inst, landed, run, mishaps, cancels>>

\* With the row closed as succeeded: the audit trail or a ceiling refuses, or
\* the output cannot be merged into the context.
RefuseAfter(p) ==
  /\ At(p, "succeeded")
  /\ proc[p].step \in Fallible
  /\ Goto(p, "denied") \/ Goto(p, "failed")
  /\ UNCHANGED <<inst, rows, landed, run, mishaps, cancels>>

\* Past an effect that landed now or on an earlier attempt.  A token gone in the
\* meantime leaves nothing to advance.
Advance(p) ==
  LET s == proc[p].step IN
  /\ proc[p].pc \in {"succeeded", "skipping"}
  /\ inst' = CASE s \notin Live(inst) -> inst
               [] s \in Live(inst) /\ Kind[s] = "compensation" -> CompleteCompensation(inst, s)
               [] OTHER -> AdvanceTo(inst, s, After[s])
  /\ Leave(p)
  /\ UNCHANGED <<rows, landed, run, cancels>>

\* runBranch and runParallel: append the step's row, then move the token.
Route(p) ==
  LET s == proc[p].step IN
  /\ At(p, "claimed")
  /\ Kind[s] \notin Effecting
  /\ rows' = [rows EXCEPT ![s] = Append(@, "succeeded")]
  /\ Goto(p, "routing")
  /\ UNCHANGED <<inst, landed, run, mishaps, cancels>>

RunBranch(p, target) ==
  LET s == proc[p].step IN
  /\ At(p, "routing")
  /\ Kind[s] = "branch"
  /\ target \in Heads[s]
  /\ inst' = IF s \in Live(inst) THEN AdvanceTo(inst, s, target) ELSE inst
  /\ Leave(p)
  /\ UNCHANGED <<rows, landed, run, cancels>>

RunParallel(p) ==
  LET s == proc[p].step IN
  /\ At(p, "routing")
  /\ Kind[s] = "parallel"
  /\ inst' = IF s \in Live(inst) THEN FanOut(inst, s) ELSE inst
  /\ Leave(p)
  /\ UNCHANGED <<rows, landed, run, cancels>>

\* settleFailed and settleDenied leave an instance that has ended alone.
MaySettle == ~Ended(inst)

SettleStep(p) ==
  /\ proc[p].pc \in {"failed", "denied"}
  /\ inst' = IF MaySettle THEN Settle(inst, proc[p].step, proc[p].pc) ELSE inst
  /\ IF At(p, "failed") THEN Leave(p) ELSE EndStep(p) /\ UNCHANGED mishaps
  /\ UNCHANGED <<rows, landed, run, cancels>>

\* A read of the store, a write before it is done or a swap fails inside the step: the
\* error is a refusal, and whatever the step has done, runStep settles it as denied.
StoreFails(p) ==
  /\ proc[p].pc \in {"claimed", "checked", "recorded", "permitted", "landed", "succeeded",
                    "skipping", "routing", "retrying", "failed"}
  /\ proc[p].step \in Fallible
  /\ Goto(p, "denied") /\ Mishap
  /\ UNCHANGED <<inst, rows, landed, run, cancels>>

\* finalise: read the run; close it; write the settled audit entry.
ReadRun(p) ==
  /\ At(p, "ended")
  /\ Become(p, IF run.ended THEN Idle ELSE [pc |-> "unclosed"])
  /\ UNCHANGED <<inst, rows, landed, run, mishaps, cancels>>

CloseRun(p) ==
  /\ At(p, "unclosed")
  /\ run' = [run EXCEPT !.ended = TRUE]
  /\ Become(p, [pc |-> "closed"])
  /\ UNCHANGED <<inst, rows, landed, mishaps, cancels>>

AuditEnd(p) ==
  /\ At(p, "closed")
  /\ run' = [run EXCEPT !.entries = @ + 1]
  /\ Become(p, Idle)
  /\ UNCHANGED <<inst, rows, landed, mishaps, cancels>>

\* cancel, run by a process that then finalises what it cancelled.
Cancel(p) ==
  /\ proc[p] = Idle
  /\ ~Ended(inst)
  /\ cancels < MaxCancels    \* bound
  /\ cancels' = cancels + 1
  /\ inst' = BeginUnwind([inst EXCEPT !.verdict = "cancelled"])
  /\ Become(p, IF Ended(inst') THEN [pc |-> "ended"] ELSE Idle)
  /\ UNCHANGED <<rows, landed, run, mishaps>>

\* A process dies; what it wrote stays.
Crash(p) ==
  /\ proc[p] # Idle
  /\ Mishap
  /\ Become(p, Idle)
  /\ UNCHANGED <<inst, rows, landed, run, cancels>>

\* The clock passes a claim's lease, whether its process is dead or slow, or the
\* end of a wait.
Elapse(s) ==
  /\ inst.tokens[s].state \in {"running", "waiting"}
  /\ ~inst.tokens[s].ripe
  /\ inst' = [inst EXCEPT !.tokens[s].ripe = TRUE]
  /\ UNCHANGED <<proc, rows, landed, run, mishaps, cancels>>

Perform(p) ==
  \/ Lookup(p) \/ RecordRunning(p) \/ Permit(p) \/ Refuse(p) \/ Land(p)
  \/ ThrowDenied(p) \/ ThrowFatal(p) \/ ThrowRetryable(p) \/ Retry(p)
  \/ RecordSucceeded(p) \/ RefuseAfter(p) \/ Advance(p)

Engine(p) ==
  \/ Sweep(p) \/ Pick(p) \/ Claim(p) \/ Contain(p)
  \/ Perform(p)
  \/ Route(p) \/ (\E target \in Step : RunBranch(p, target)) \/ RunParallel(p)
  \/ SettleStep(p) \/ StoreFails(p)
  \/ ReadRun(p) \/ CloseRun(p) \/ AuditEnd(p)

Next ==
  \/ \E p \in Process : Engine(p) \/ Cancel(p) \/ Crash(p)
  \/ \E s \in Step : Elapse(s)

Spec == Init /\ [][Next]_vars

\* The maintenance loop sweeps forever, a process not dead goes on with what it
\* is doing (a handler returns or throws), and time passes.
Fairness ==
  /\ \A p \in Process : WF_vars(Engine(p))
  /\ \A s \in Step : WF_vars(Elapse(s))
FairSpec == Spec /\ Fairness

-----------------------------------------------------------------------------
Forward(s) == Kind[s] = "action"
Succeeded(s) == Says(inst, s, "succeeded")
Compensated(s) == Says(inst, s, "compensated")

\* No forward effect happens twice, whatever processes crash, stall past their
\* lease and resume, retry, or race each other for the token.
ForwardEffectAtMostOnce ==
  \A s \in Step : Forward(s) =>
    /\ landed[s] <= 1
    /\ landed[s] = 1 => \A p \in Process : ~(At(p, "permitted") /\ proc[p].step = s)

\* The record never claims an effect that did not happen: not in a step row, not
\* in the instance's history, not in a "compensated" mark.
RecordTellsTheTruth ==
  \A s \in Step : Kind[s] \in Effecting =>
    /\ \A n \in DOMAIN rows[s] : rows[s][n] = "succeeded" => landed[s] > 0
    /\ Succeeded(s) => landed[s] > 0
    /\ Undo[s] # Nil /\ Compensated(s) => landed[Undo[s]] > 0

\* Effects are undone in reverse order of completion: when a step is marked
\* compensated, everything undoable that completed after it already was.
UndoneInReverse ==
  \A s, t \in Step :
    /\ Compensated(s)
    /\ Undo[t] # Nil
    /\ CompletedAfter(inst, t, s)
    => Compensated(t)

\* The steps on the paths of a fan-out.
Inside(b) == UNION {Ahead[h] : h \in Heads[b]}

\* A join runs once, after every path of its fan-out has finished: once a fan-out has
\* run, as long as one of its paths has work its join has no token and has not run; and
\* no step completes twice.
JoinWaitsForEveryPath ==
  /\ \A b \in Step :
       /\ Kind[b] = "parallel"
       /\ Succeeded(b)
       /\ \E s \in Live(inst) : s \in Inside(b)
       => inst.tokens[After[b]] = NoToken /\ ~Succeeded(After[b])
  /\ \A m, n \in DOMAIN inst.history :
       inst.history[m].outcome = "succeeded" /\ inst.history[n] = inst.history[m] => m = n

\* An instance that has ended is never changed again, by a process that was
\* still working on one of its steps or by an operator.
EndedNeverReopens == [][Ended(inst) => inst' = inst]_inst

\* Whatever crashes, stalls and refusals happen, every instance ends.
EveryInstanceEnds == <>Ended(inst)
=============================================================================
