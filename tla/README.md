# Project-Vacation: specifications, model checks and proofs

The platform (`src/packages/platform`) runs governed work: people approve
proposals, a workflow engine performs the steps of a case, outside agents ask
for writes and get them once a person has agreed, and a record says what
happened. This directory holds TLA+ models of the parts whose correctness
depends on the order in which several processes, people and sweeps get there,
the TLC runs that check them on small instances, and TLAPS proofs of the
properties that matter most for every size.

Paths below are relative to `src/packages/platform/src/` unless they begin with
`src/`.

Contents: [1 Inventory](#1-inventory) · [2 Modules](#2-modules) ·
[3 Runs](#3-runs) · [4 Proofs](#4-proofs) · [5 What the code does
otherwise](#5-what-the-code-does-otherwise-than-it-says) ·
[6 Abstractions](#6-abstractions) · [7 Not modelled](#7-not-modelled)

To repeat everything: `tlc -workers 2 -config X.cfg M.tla` for each row of the
table of runs, and `tlapm M.tla` for each `*Proofs.tla`.

---

## 1 Inventory

### How the parts interact

One process holds all services; several processes (the API, workers, the
command line) share one store. Every store call is atomic (one statement or
transaction of `store.pg.ts`, one synchronous method of `store.memory.ts`), and
a service method is a sequence of them with an `await` between each two. So the
unit of interleaving everywhere is the store call, and every value read before
an `await` may be old after it. Locks are compare-and-set on a status or a
version; there is no transaction over two stores.

                       people ──decide──► ApprovalService ◄──consume──┐
                                             ▲                        │
    WorkflowEngine ──effecting step──► Authorizer (chokepoint) ◄──── ContactGate ──► message
      │  waiting steps                  │ containment, ceilings, approval
      │                                 ▼
      └──────► EgressClient ──► the outside world ◄── connectors ◄── ExecutionService
                 │ failure                                               ▲ commit
                 ▼                                                       │
               degradation queue              outside agents ──screen──► AdmissionService
                                                   │                     │ denials
                                                   └─start, heartbeat,   ▼
                                                     finish, report ► live runs, enrollment

`MaintenanceLoop` (`maintenance.ts`) runs a list of passes round after round,
each caught on its own: the engine's sweep, the expiry of approvals and of
parked actions, the stale-commit sweep, the reclaiming of external runs,
retention, and the eviction of nonces and used approvals. Under a pause it runs
only those marked `runsUnderContainment` (the stale-commit and reclaim passes).

### Components

| Component | State it keeps | Operations | What is hard, and what makes it correct |
|---|---|---|---|
| Approvals `guard/approvals.ts` | approval rows: status, digest, threshold, eligible people, decisions, expiry | request, decide, consume, expireDue | decide and consume write in a second store call what they computed from a first. A grant has a quorum of eligible people other than the requester; an approval is spent once, on what was approved; a rejection is final; every request leaves the queue. **Modelled** |
| Workflow engine `engine/runner.ts`, `instance.ts` | instance (tokens, joins, history, compensation queue), step rows, run | start, tick, sweep, cancel; tasks, signals, timers | claims with leases that lapse under a live process; a crash between an effect and its record; retries; fan-out and join; unwinding, rebuilt while it runs. No forward effect twice, no false record, undo in reverse, ended means ended, every case ends. **Modelled** |
| External execution `external/execute.ts` | parked actions, used-approval ledger, commit in flight | park, commit, sweepStaleCommits, expiry, eviction | a dozen store calls per commit, against other commits, two sweeps, stops, expiry, crash and store failure. The effect lands at most once and as approved; the record never says less or more than what happened; a stop reaches an approved commit. **Modelled**, except executeRead |
| Waiting steps of the engine `engine/runner.ts` | tokens parked on a task, an approval, an event or a time; step rows; tasks | park, complete a task, signal, time out, fire, refresh approvals, cancel | people, signals, timeouts and sweeps race for one row and one token, in two stores. One completion per task, a history the record backs, a step left once, timers that fire. **Modelled**, except the escalation of overdue tasks |
| Chokepoint `guard/authorize.ts` | none | authorize | the order of the checks and what each gives back when a later one refuses. An approval is spent last. **Modelled** |
| Ceilings `guard/ceilings.ts` | per process: reservations, rate window, start times | check, release, consume, run started and ended | the spend is read over two awaits before it is compared. Spend passes a ceiling by one call per caller at most; what is held is what is in progress. **Modelled** |
| Containment `guard/containment.ts` | switches, a cache of them per process | engage, release, read | a read under way when the switch is engaged fills the cache after it was dropped. An engaged switch stops every step that begins one cache lifetime later. **Modelled** |
| Model gateway `models/invoke.ts` | none that is modelled | invoke, down its chain of fallbacks | it goes to the ceilings without the chokepoint. **Modelled** in its use of them |
| Contact gate `contact/gate.ts`, `consent.ts` | consent ledger, do-not-call list, messages | clear, record consent, suppress | evidence read, an approval spent, a clearance stored, a receipt attached, each a store call. One message per key and per approval, nothing delivered without its receipt, no opt-out overlooked, no unrecorded refusal. **Modelled** |
| Egress and degradation queue `integrations/` | steps by idempotency key, queue entries, parked items, revocations | send, run under a policy, claim, complete, abandon, resolve | a lost answer, a retry, a stop between attempts, a scheduler that makes the call again. The record and the answers are true, a stop that has taken effect leaves one more request, given-up work is on a person's list. **Modelled**, except safe methods |
| External agents `external/{enrollment,admission,ratelimit,runs,report}.ts` | enrollments, seats, denials, live runs, reports, meters | enroll, contain, release, revoke, admit, start, heartbeat, finish, report, reclaim | each of a dozen operations spans several stores. Seats cover the roster, the record follows every run, an episode is charged once, containment reaches an agent at its next question (the platform's pause a cache later), silent runs end. **Modelled**, except re-enrollment |
| Audit chain `audit/` | hash-chained entries, a watermark | append, verify, prune | not modelled (section 7) |
| Roles and improvement `roles/`, `improve/` | role versions, proposals, applications | promote, apply, revert, watch | not modelled (section 7) |
| Operating record `record/` | runs, steps | append by key, patch | a patch never moves an ended run. Its rules are part of the modules that rely on them |
| Knowledge, identity, documents, discovery, screening, retention, timeline, console, API, tools | see `PROJECT.json` | | one writer, pure data, cryptography or I/O |

`PROJECT.json` lists every component with its sources, and every hazard at its
line with the properties that cover it, or why none does.

---

## 2 Modules

| Module | Stands for |
|---|---|
| `SingleUseAuthority` | what an approval promises, without calls, stores or clock |
| `Approvals` | `ApprovalService` over its store; implements `SingleUseAuthority` |
| `WorkflowEngine` | `WorkflowEngine` for one instance, over its store and the operating record |
| `TruthfulWrite` | what the record of a governed write promises |
| `ExternalExecution` | `ExecutionService`: park, commit and the passes over its stores; implements `TruthfulWrite` |
| `WaitingSteps` | the steps of `WorkflowEngine` that wait, for one instance, over its store, the record and the task queue |
| `Chokepoint` | `Authorizer`, `CeilingEnforcer` and `ContainmentController` together, with the two callers that spend |
| `Egress` | `EgressClient.send` under `DegradationHandler.run`, over the queue and the record |
| `ContactGate` | `ContactGate.clear` over the consent ledger and the outbound record |
| `ExternalAgents` | enrollment, admission, denials, live runs and reports, composed as the routes of `api/external.ts` compose them |
| `MC…` | small instances: workflow definitions, orders of ids, symmetry |
| `…Proofs` | theorems about the module of the same name |

Each detailed module has one action per store call of the service (or per
stretch of code between two `await`s), a record per call in flight for what the
code holds in local variables, and actions for the clock, the sweeps and a
crash. A store method is an operator whose guard is the method's own condition.
An operator `Mut…` before a definition is a plausible bug in it, used only to
show that the property named in `PROJECT.json` would notice.

### Approvals

`approval` holds the rows; the decision list is kept as the sets of people who
granted and rejected, one decision each being what the store takes.
`decideCall` is a `decide` between its read (`DecideRead`, which computes the
next status) and its write (`DecideRecord`, `recordApprovalDecision`);
`DecideLate` is the path that finds the request expired and sweeps it.
`consumeCall` is a `consume` that has passed its checks (`ConsumeCheck`), spent
the row by compare-and-set (`ConsumeSpend`), and written its audit entry or
failed to (`ConsumeAudit`: "performed" goes on to act, "burned" may not).
`ExpireDue` is the maintenance pass. A call that dies is a call that never takes
its next step.

`SingleUseAuthority` says: people other than the asker back a proposal, enough
of them authorise it, one holder takes it, and only that holder acts, on that
proposal. The refinement maps a row's status to a stage, its grants to the
backers, and a spent `consume` to the holder.

### WorkflowEngine

`inst` is the stored instance: a token per step, a barrier per fan-out, the
history and the compensation queue (as a set: its order is `HeadOf`, reverse
completion, as `buildCompensationQueue` computes). The pure functions of
`instance.ts` are operators from an instance to the next. A change of the
instance is `mutate` — one compare-and-swap on a fresh read, retried — so one
action. `proc` is what each process is doing between two such changes: picked,
claimed, looked the key up, recorded a running row, permitted, landed the
effect, recorded success, and so on down `runEffectingStep`. `rows` are the
record's rows under a step's idempotency key, and `landed` counts what happened
in the world: it is what the properties hold the record against.

`Elapse` lets a lease lapse under a process that is alive but slow, or a retry's
wait end; `Crash` drops a process at any point; `Cancel` is the operator. A store
that fails inside `runStep` throws a `DeniedError`, which its `catch` settles as a
refusal: `StoreFails` wherever the call was not made, `Leave` where the instance
was saved and the answer lost. The definition is a constant (kinds, successors, heads, undo, attempts) under
`DefinitionAssumption`, what `validateDefinition` leaves of it.

### ExternalExecution

`action` are the parked rows, `authority` the approval of each, `ledger` the
used-approval ledger with the floor that stands for the entries it forgot,
`parking` how far each `park` is, `listed` what the stale-commit sweep has read
and not yet marked, `stopped` the levers in force. `commit` is one record per
commit call: where it is in the code's own order — ownership, status, digest,
expiry (`BeginCommit`); admission, connector, containment, ledger, approval,
claim, compare-and-set to *committing*, run, outbound call, and the three ways
out of the `try` — and what it remembers from its one read of the row.

`StoreFails` is any store call that throws `storeUnavailable`, its write done or
not: inside the `try` the code catches it as it catches a refusal. `Perform` has
the three outcomes the code tells apart: a refusal, which asserts that nothing
was done; a success; an error, of which nobody knows whether it landed.

`TruthfulWrite` says: a write is tried once and lands at most once, after its
attempt began; the record says *done* only of what landed, *untouched* only of
what did not, and *unknown* when it cannot tell. The refinement maps the row's
status to that verdict.

### WaitingSteps

`token`, `history` and `ended` are the instance, changed by `mutate` as in
`WorkflowEngine`; `rows` are the record's rows of each step, with the task that
shares a row's id and the approval noted on it. `worker` is one pass of the
sweep (`TickStart`, `Refresh`, `Claim`, then `RunStep` and the writes of the
step's kind up to `Park`); `completion` and `signal` are calls of people and of
the outside, each three store calls that check and write the row first and move
the token last. `Lapse` takes a claim from a worker that is slow or dead.
`StoreFails` and `Leave` are a store that fails inside `runStep`, before a write
or after it: the step is settled as denied.

### Chokepoint

`call` is one call of a caller through `Stages`, the checks in their order: an
effecting step asks for containment twice (the engine's own check, then the
chokepoint's), a model call goes to the ceilings directly. The read of a switch is
three steps (`Consult`, `StoreAnswers`, `Fill`) because the operator's `Throw`
and the `Drop` of the cache can fall between any two. `ReadRun` and `ReadDay` are
the two awaits before `Reserve`, which compares and reserves in one stretch.
`Perform` is the work and its cost, which the gateway or the handler records
before `Consume`. `PermitFails`, `RecordFails`, `SpendUnread` and `SwitchUnread`
are the store calls that throw, each with what the code gives back. `RecordFails`
is also a provider that throws a refusal of its own, which the gateway passes on
without releasing what it reserved (`models/invoke.ts:306`; no provider in the
repository does). `Crash` takes a process with its caches and reservations.

### Egress

`call` is one `run` around one `send`: the lookup of its key (`Look`), its step
(`Append`), then for each attempt the switch and the rate (`Permit`), the
credential (`Credential`) and the request (`Request`, whose answer may be lost),
the closing of the step, and the policy's way out: a denial, a parked item, a
queue entry or its end. `step` is the record, `queue` and `parked` the queue's
tables by key, `landed` whether the partner performed the request. A call that
the scheduler makes is the same call with `claimed` set. The switch is asked
through `ContainmentController`, whose processes keep an answer for a second
(`guard/containment.ts:44`): `lingers` says that some process may still go by the
position the switch had before, and `Spread` that the last such answer has run out.
`Chokepoint` has the cache itself, and `SwitchStops` proves the bound for it.

### ContactGate

`call` is one `clear`: the lookup of the key (`Look`, which may adopt a clearance
its writer left without a receipt), the checks that read a store (`Consent`,
`DoNotCall`, `FrequencyCap`; quiet hours are a set of times), `Authorize`, the
insert that one of two callers under a key wins (`Record`), the audit entry
(`Seal`) and the receipt (`Attach`), or the two writes of a refusal (`Block`,
`Refuse`). `ledger` is the consent ledger in order of append; `Govern` and
`DeriveConsentState` are the fold of `consent.ts`, which reads two clocks, the
time an event takes effect and the time it was recorded. The fold takes the events in
the order of `compareConsentEvents` by taking a last one off the set until none is left
(`LastOf`); of two events level on both clocks either may be the last, as the ids that
part them in the code say nothing of either.

### ExternalAgents

`call` is one request, command or sweep, moved through the awaits of its route:
rate, agent, pause, judgement, then the work. `status` and `seats` are the
enrollment tables, `denials` the window of counted refusals, `live`, `claims` and
`record` the runs, the claimed report keys and the operating record, `ledger`
and `meter` what was recorded and what was charged. A failing creation has two
outcomes, done or not (`CreateFails`, `EnrollFails`); `Lost` is a process that
dies, or a store call that fails where nothing is left to undo, and
`PauseUnreadable` a platform switch that cannot be read, on which a heartbeat
stops its run as on an engaged one. `lost` remembers what was created while its
caller was told otherwise.

### How the modules fit

They share no variables. Where one calls another it takes the other's
promise: `ExternalExecution`, `ContactGate` and `Chokepoint` spend an approval in
one atomic step, which `Approvals` refines to; `ExternalExecution!Perform` takes
a refusal of the outbound path at its word; `WorkflowEngine!Permit` and
`Refuse` stand for `Chokepoint`; `ExternalExecution!Stop(agent)` for what
`ExternalAgents` decides.

---

## 3 Runs

Deadlock is not checked: the clock and the numbers of calls, crashes and stops
are bounded and an instance ends, so every model really stops.

| Run | Instance | Shows |
|---|---|---|
| `approvals` | 1 request, 3 people, threshold ≤ 2, 2 decisions and 2 executions at once, 2 digests, clock to 2; `FairSpec` | quorum, single use, rejection decisive, implements `SingleUseAuthority` (so what is performed is what was approved), every request settles |
| `engine_line` | 2 processes; a, b, c in a line, a and b undoable, c fallible (refusals, errors, a failing store) with one retry; 1 crash or failing store, 1 cancellation | forward effect at most once, truthful record, undo in reverse |
| `engine_fan` | 2 processes; a fan-out of a and b joining at a branch to c, b fallible as c is in the line, a undoable; 1 crash or failing store; `FairSpec` | the join waits for every path and fires once; every instance ends |
| `waiting` | 2 sweeps, an event whose timeout fails the case, a task, a gate, an event that times out into a timer; 2 completions, 1 signal, a cancellation, 1 lapse, failing store or crash; `FairSpec` | one completion per task, the record backs the history, a step is left once, timers fire |
| `chokepoint` | 1 process, 2 callers, 3 calls in one run, each costing up to twice the ceiling of 1; 1 switch, 1 approval, clock to 1, 1 lever, 1 failure | spend is bounded, headroom is held, an engaged switch stops, refusals are free |
| `chokepoint_compensation` | 1 caller, 1 call, 1 lever | *violation*: a compensation is refused under containment |
| `external` | 1 action, 2 agents, 2 payloads, 2 commits, 1 crash, 1 stop, clock to 2, no store failure | effect as approved, untouched means nothing done, answers agree with the record, a stop reaches commits, the ledger never forgets, implements `TruthfulWrite` |
| `external_faults` | 1 action, 2 commits, 1 crash, 1 stop, 1 failing store call, clock to 2; `FairSpec` | effect at most once, every commit settles |
| `external_put_back` | 1 action, 1 commit, 1 failing store call | *violation*: a row whose effect landed is put back to pending |
| `egress` | 3 calls under one key, in 2 runs of the record, 2 attempts each, 1 stop, 1 failed write or crash | record and answers are true, a stop that has taken effect leaves a call one request, given-up work is parked |
| `contact` | 2 calls, 2 keys, 2 approvals, 2 consent events, 1 listing, a cap of 1 in a window of 1, clock to 1, 1 failure | one message per key and per approval, deliverable means evidenced, opt-outs stop, refusals are recorded |
| `external_agents` | 2 callers and the sweep; one agent enrolled, which expires, one to enroll; 1 live run, 1 report; clock to 2; 3 calls, pauses and failures in all | seats cover the roster, the record follows the run, the meter follows the record, a stop reaches agents, silent runs end |

A property that a theorem proves for every instance is not always run too:
`EndedNeverReopens`, `TerminalIsFinal`, `PerformsWhatWasApproved` and most type
invariants were checked on these instances before they were proved, and are now
left to the provers.

### Bounds, and why they are enough

- **Two calls in flight.** Every race in this code is between one call's read
  and another's write. Two decisions already exceed the threshold of two together
  with the one that must be missing; two executions are the smallest number for
  a double spend; two engine processes give a lapsed claim and its successor.
  The theorems lift the counts for the properties proved.
- **Three people**: a requester and two approvers, so that a quorum of two is
  exactly reachable and self-approval is a case.
- **One crash, one cancellation, one stop, one lapse**: each may fall between any two
  store calls; a second one would only repeat what the first leaves behind.
- **The clock** is bounded by `MaxTime`. Requests are made, and commits started,
  only while the clock can still pass their expiry (`now + Ttl < MaxTime`,
  `now + StaleAfter <= MaxTime`), so no run stops just before a sweep. The expiry,
  the stale limit and the ledger's age are one tick or none, which puts every
  order of deadline, sweep and late answer in reach.
- **The line and the fan** are the smallest definitions with two compensations
  and a retry, and with two paths, an undo, a join and a branch. `Fallible` names the
  steps that may fail, to keep each run on its question, and one crash or failing
  store (`MaxMishaps`) is put at every point; the theorems have any number.
- **The ledger's order of ids** is a constant (`Rank`); the run has one id, and the
  theorem `LedgerRemembers` has any number in any order.
- **Three calls of egress under one key**: two in one run of the record, whose
  sequence numbers differ, and one in another, whose number may tie.
- **A call that costs twice the ceiling** in `chokepoint`: the smallest cost for which
  one overshoot and two tell apart from none. One process, since processes share
  only the record; the callers of one process already read it at different moments.
- **`MaxEvents`** of `external_agents` is one budget for calls, pauses, failures and
  deaths: three is enough for two operations to race and one thing to go wrong,
  or for an operation to be followed by another after a failure. The agent enrolled
  at the start expires at time 1 and calls begin up to time 2, the clock's end, so a
  call may be made before, at and after the expiry. A run is silent (`Reclaim`) once a
  tick has passed without a heartbeat. A heartbeat is dated, and a run started, only
  while the clock can still do so, or by an agent that has expired, whose
  heartbeat is not written (`Early`); so no run stops before its sweep.
- **No store failure in `external`**: with one, `UntouchedMeansNothingDone` is
  false (`external_put_back`). `external_faults` has the failures.
- **Symmetry** over processes, calls, agents, payloads and people only in runs
  without liveness, where no definition tells two of them apart.

### Fairness

- `Approvals!FairSpec`: the clock runs, and the `approvals.expire` pass is made:
  every round of the maintenance loop makes it (`runOnce`, each pass caught on
  its own) unless the platform is paused, so the property assumes that a pause
  is lifted some day. No person need ever decide.
- `WorkflowEngine!FairSpec`: each process not dead goes on with what it is doing
  (a handler returns or throws), the loop sweeps again and again (a pause is
  lifted some day, as above), and leases and waits run out. Weak fairness is
  enough: a claim that another process takes first leaves the process with its
  next round.
- `WaitingSteps!FairSpec`: each process sweeps for ever and goes on with its pass, a
  wake-up time comes, and the lease of a claim nobody works on lapses. No person
  completes a task, no approver decides and no signal need come, which is why
  the property is about timers; it excepts a case stranded at a gate (section 5).
- `ExternalAgents!Spec`: the clock runs and the reclaim pass lists, ends and closes;
  it too runs under a pause. A caller may go away at any point.
- `ExternalExecution!FairSpec`: the clock runs and the stale-commit pass lists
  and marks. It runs whether or not the platform is paused
  (`runsUnderContainment`, `maintenance.ts:129-131`), which is why
  `EveryCommitSettles` assumes nothing of the levers. No commit is assumed to
  take another step.

---

## 4 Proofs

All theorems are of `Spec`, for every value of the constants under the module's
named assumption (`ApprovalAssumption`, `DefinitionAssumption`,
`ExecutionAssumption`, `GateAssumption`, …), which TLC evaluates in the runs.

| Theorem | States |
|---|---|
| `ApprovalsProofs!TypeCorrect` | `TypeOK` |
| `ApprovalsProofs!QuorumBehindEveryGrant` | `GrantedByQuorum` |
| `ApprovalsProofs!ApprovalsAreSingleUse` | `SingleUse` |
| `ApprovalsProofs!PerformedAsApproved` | `PerformsWhatWasApproved` |
| `ApprovalsProofs!RejectionsAreDecisive` | `RejectionIsDecisive` |
| `ApprovalsProofs!ImplementsSingleUseAuthority` | `ImplementsAuthority`: the refinement of `SingleUseAuthority` |
| `WorkflowEngineProofs!TypeCorrect` | `TypeOK` |
| `WorkflowEngineProofs!EndedIsFinal` | `EndedNeverReopens` |
| `WorkflowEngineProofs!RecordIsTrue` | `RecordTellsTheTruth` |
| `WorkflowEngineProofs!UnwindsInReverse` | `UndoneInReverse` |
| `WorkflowEngineProofs!EffectHappensOnce` | `ForwardEffectAtMostOnce`, if `PathsApart` |
| `WorkflowEngineProofs!JoinRunsOnce` | `JoinWaitsForEveryPath`, if `PathsApart` |
| `ExternalExecutionProofs!TypeCorrect` | `TypeOK` |
| `ExternalExecutionProofs!TerminalNeverMoves` | `TerminalIsFinal` |
| `ExternalExecutionProofs!EffectOnce` | `EffectAtMostOnce` |
| `ExternalExecutionProofs!EffectApproved` | `EffectAsApproved` |
| `ExternalExecutionProofs!StopHolds` | `StopReachesCommits` |
| `ExternalExecutionProofs!LedgerRemembers` | `LedgerNeverForgets` |
| `ExternalExecutionProofs!UntouchedIsUndone` | `UntouchedMeansNothingDone`, if `MaxFaults = 0` |
| `ExternalExecutionProofs!AnswersAreTrue` | `AnswersAgreeWithRecord`, if `MaxFaults = 0` |
| `ExternalExecutionProofs!ImplementsTruth` | `ImplementsTruthfulWrite`: the refinement of `TruthfulWrite`, if `MaxFaults = 0` |
| `ContactGateProofs!TypeCorrect` | `TypeOK` |
| `ContactGateProofs!OneMessage` | `OneMessagePerKey` |
| `ContactGateProofs!Evidenced` | `DeliverableMeansEvidenced` |
| `ContactGateProofs!ApprovalOnce` | `ApprovalSendsOneMessage` |
| `ContactGateProofs!Recorded` | `RefusalsAreRecorded` |
| `ContactGateProofs!OptOutHeeded` | `OptOutStops` |
| `ChokepointProofs!TypeCorrect` | `TypeOK` |
| `ChokepointProofs!SpendBounded` | `SpendIsBounded` |
| `ChokepointProofs!SwitchStops` | `EngagedSwitchStops`, if `Ttl > 0` |
| `ChokepointProofs!RefusalsFree` | `RefusalsAreFree` |
| `ChokepointProofs!HeadroomHeld` | `HeadroomIsHeld` |
| `EgressProofs!TypeCorrect` | `TypeOK` |
| `EgressProofs!RecordTrue` | `RecordAndAnswersAreTrue` |
| `EgressProofs!StopReaches` | `StopReachesCalls` |
| `EgressProofs!GivenUpParked` | `GivenUpIsParked` |
| `WaitingStepsProofs!TypeCorrect` | `TypeOK` |
| `WaitingStepsProofs!CompletedOnce` | `OneCompletionPerTask` |
| `WaitingStepsProofs!RecordBacks` | `RecordBacksHistory` |
| `WaitingStepsProofs!LeavesOnce` | `LeftOnce`, if `PathsApart` |
| `ExternalAgentsProofs!TypeCorrect` | `TypeOK` |
| `ExternalAgentsProofs!StopReaches` | `StopReachesAgents`, if `Ttl > 0` |
| `ExternalAgentsProofs!SeatsCover` | `SeatsCoverRoster` |
| `ExternalAgentsProofs!RecordedAlways` | the invariant behind the next |
| `ExternalAgentsProofs!RecordFollows` | `RecordFollowsRun` |
| `ExternalAgentsProofs!MeteredAlways` | the invariant behind the next |
| `ExternalAgentsProofs!MeterFollows` | `MeterFollowsRecord` |

**Approvals.** A quorum is not preserved by a step alone: `decide` writes a
status it computed from a row it no longer holds. The inductive invariant `Inv`
says of every decision in flight what still holds when it writes
(`CallsInFlight`): its actor may decide, and *granted* was computed from a count
that, with its own grant, reaches the threshold; grants only grow
(`GrantCounts`), so the count is still enough. `RejectedStays` needs the store's
own check that the row is pending. `ChecksHold` says of an execution between its
check and its spending that the row was granted for what it presented; with
`SingleUse` inside the invariant the spending step cannot make a second winner.
The refinement of `SingleUseAuthority` is proved step by step under the same
invariant: a decision backs the proposal, the one that completes the quorum
authorises it, the spending of a row takes it, a performance acts on it, and
every other step of the code is a stutter of the abstract specification.

**Engine.** `Truth` adds to `RecordTellsTheTruth` that a process which says it has
landed an effect, recorded its success, or found a succeeded row has
`landed > 0` for its step: the record is written one store call after the effect,
and the history two. The lemmas on `Says` state what each function of
`instance.ts` adds to the history and that none takes anything away.
`EndedIsFinal` needs no strengthening but typing: every write of the instance
has a guard no ended instance meets.

The three other theorems share one list of the ways a step can change the
instance (`Moves`: a token held, a path advanced, a fan-out, a compensation
completed, everything dropped) and an invariant each. `Undoing` is for the unwind:
no path runs beside it, the queue is what the history still has to undo, and the
one live compensation is the queue's head; that the head exists is that among
finitely many completions one is the last. `Apart` is for the paths: what the live
paths and the open joins have before them (`Ahead`, the reachable steps) is
disjoint, and nothing ever comes that was not coming (`Progress`). An effect then
happens once because a step's token is never put back: before its first claim a
step has no row, no effect and no worker (`Untouched`); the only claim that may
act is one that no other attempt was in flight at (`Attempts`), and it belongs to
one process (`Owner`). `Nested` is for the joins: each path, and each fan-out that
waits for its own join, belongs to one open fan-out or to none (`Owned`), a
barrier's count and the paths still under it make up all its paths (`Counted`),
what can still run inside a fan-out that has run is under it (`Sorted`), and what
completed is neither live nor to come (`Done`). That a path's work keeps its
join shut, through any depth of nesting, is by the path's outermost fan-out with a
least counterexample in the strict-subset order on what lies ahead: induction
over finite sets is cited in that form, which needs no operator parameter.

`EffectHappensOnce` and `JoinRunsOnce` assume `PathsApart`: the paths of a fan-out
share no step and reach neither the join nor what follows it. It is what
`validateDefinition` says it ensures, and not quite what it checks (section 5);
without it both are false. `MCWorkflowEngine` assumes it of both definitions it
runs.

**External execution.** At most one effect is not inductive: what rules out a
second holder is far from the connector. `HoldInv` says that from the spending of
the approval to the end of the call a commit *holds* it (`Holds`), that what is
held is spent (`HoldsSpent`), that no two commits hold one action's approval
(`OneHolder`), that an approval is raised at most once and only after its row
(`RaisedOnce`, without which a fresh approval could reopen a spent one), that a
commit past its first check carries the row's own payload and agent
(`CarriesRow`), and that an effect is behind its call once it has happened
(`LandsOnce`). The row's status is in none of these: a stale mark, a put-back
and a failing store may all move the row under a live call, and the effect still
happens once.

**The record of an external write.** `StopInv` adds to `HoldInv`, for each commit,
that a lever that was in force when the commit began and ever since (`under`) has
not let it past the check that reads it. `ReadInv` adds what each commit may
believe of its row: a row it has moved to *committing* is still there or was
marked indeterminate, and what it remembers of a row it read in a terminal status
is still true. Both `UntouchedIsUndone` and `AnswersAreTrue` assume that no store
call fails: with one they are false, as `external_put_back` shows. Crashes and
stale sweeps are not excluded. The refinement of `TruthfulWrite` rests on `TriedInv`:
a row that was ever *committing* has a spent approval (`TriedSpent`), and a commit
that holds an approval it has not begun to use finds its row never tried, while
one past its start finds it *committing* or marked indeterminate (`Attempts`); so a
row put back to pending by a refusal cannot be begun a second time. The
hypothesis is that of the `external` run, which makes no store call fail.
`LedgerRemembers` needs only that eviction raises
the floor to whatever it evicts.

**Contact gate.** `OneMessagePerKey` is kept by the insert's own condition, but a
receipt is attached by whoever finishes a clearance: `Finishing` says that a call
about to seal or attach has a stored clearance as its target, `Unrecorded` that a call
before its own write has no row, `Itself` that until it finds someone else's clearance
it works on its own message, `Refusing` that a call on its way to a refusal has its row
blocked, and `Holding` that an approval authorized and not yet recorded is spent and in
one call's hands. `OptOutStops` has two parts. `FoldSound` says what the fold comes to
over any set of events: a revocation that none is later than, or a grant, and then some
grant of the set is later on both clocks than every latest revocation; by a least
counterexample among the subsets, since the fold is a recursive function on them.
`Heard` says that a call not refused by the consent check found consent in a ledger no
shorter than when it began, which stays true because the ledger only grows and a
receipt once attached stays (`Grown`).

**Chokepoint.** A meter is not kept under its ceiling by any one step: several
callers pass the check before one of them records a cost. What is kept is
`Bounded`: what is spent, and the largest cost for each caller that is *armed*
(let through, or holding a reading below the ceiling that it has not yet acted
on), is within the ceiling and the largest cost for every caller there is. A
caller arms itself only by reading the meter below its ceiling, and disarms as it
records. `EngagedSwitchStops` needs the dates of what is read: `Dated` says that a
cached *clear* was read no later than the switch was engaged, and `Checked` says
the same of an answer that is on its way to a cache, and of a caller part of the
way through the scopes that each one behind it was no bar to this step. The
theorem assumes `Ttl > 0`, which the code's default of 1000 ms satisfies: with a
lifetime of zero the clock need not pass between the engagement and the read. `Sparing` says that
only a step whose remaining work is its effect has spent its approval.
`HeadroomIsHeld` is inductive as it stands, with typing: what a run holds is a sum over
every caller of that caller's part (`Parts`), so a step of one call changes one
term. That its two halves stand together is what makes a release exact: an open run
holds at least the estimate given back, and the day at least what the run holds, so
neither minimum in `release` cuts anything off.

**Egress.** `Recorded` says of a call, place by place, what stands on the record: a
request is made under a step already written, and a call about to say *succeeded*
has an effect. `LastOne` gives `StopReachesCalls` its memory: once a stop has taken
effect (a revocation at once, a pause when `lingers` is over) a call that has made
its late request is at no place from which it could make another without asking
for permission or a credential again. It is no invariant of a pause as it is thrown:
while older answers linger a call may make every attempt it has. `GivenUpIsParked`
needs that a scheduler about to drop an entry has parked it.

**Waiting steps.** `Inv` says that a token which waits knows its row (`TokenOK`), that a
worker, a person or a signal about to move a token has closed the row that lets it
(`WorkerOK`, `CompletionOK`, `SignalOK`), that an approval
noted on a row was raised (`RecordOK`), and that no two people are past the
first write on one row (`Alone`). That is kept because the row takes one end and
the record only grows (`Grow`): a second person finds a row that is not waiting.
Each lemma about an action shows what it does to its own call; `Preserved`
carries the rest. `LeavesOnce` rests on `Single`: two live tokens have no step
before them in common (`Ahead`), and none has before it a step the case has an
outcome of. Every step of the system changes the case in one of three ways
(`CaseStep`): the same steps have tokens, one token moves on, or the case ends. A
token that moves on has less before it than it had, and not the step it left, because
`validateDefinition` refuses a loop (`DefinitionAssumption`). The theorem assumes of
the paths the instance starts on that they share no step (`PathsApart`), which
`validateDefinition` says of a fan-out. An outcome does not stand whatever comes:
section 5 tells how a case fails at a step that succeeded.

**Outside agents.** `Shape` is typing with what every other argument needs: which
places a call of each kind may be at (`CallsFit`), that whoever closes the books of
a live run has found it ended (`EndedFirst`), and that one call alone starts it
(`StartsAlone`). `Asked` says of a call in progress what entitles it to be told to
go on: while its agent is active it has had its chance, and once it has asked about
the agent and the pause it was made before both the expiry and the pause's coming in
sight. `StopReaches` assumes `Ttl > 0`, which the code's default of 1000 ms
satisfies: with zero a pause thrown at the very moment a call was made is in
sight of that call after it has asked. `Seating` counts: seats are the agents
enrolled and the calls between a seat and its agent, in either direction
(`Counted`), and what a command remembers of a status still names an agent that
exists (`Known`). `Recorded` is the property with its exceptions removed where it
holds without them. `Metered` is the double entry: the meter, and what each call in
progress has recorded and not charged (`Due`), sum to what the record shows; it
needs that no two calls hold the same episode's cost (`Apart`), that what is
recorded and what is left to record stay within the cost (`Billed`), that nothing
is recorded of a run that has not ended or a report nobody claimed (`Unspent`), and
that a run is finished by the agent that started it (`Owned`). Only a failure, which
drops a call with what it owes, turns the equation into an inequality, and always
the same way. The theorems suppose finitely many agents enrolled at the start, live
runs and reports, which a bounded number of calls cannot exceed.

A sum over a set is a recursive function on its subsets (`MapThenFoldSet`), so its
algebra, that a sum does not depend on the order and changes by what one
member changes, is an induction. It is proved by a least counterexample in the
strict-subset order: the lemmas on `SumOf` first show that the table of partial sums
exists and that two tables agree where the functions do. The chokepoint's proofs and
those of the outside agents each hold these lemmas, over a model of their own; both
suppose the sets they sum over finite, runs and callers, as a running system's are.

**Only model-checked.** Liveness (`EveryRequestSettles`, `EveryInstanceEnds`,
`EveryCommitSettles`, `TimersFire`, `SilentRunsEnd`): fairness and `ENABLED` are
out of the prover's reach. Every invariant and every action property the runs check has
a theorem.

---

## 5 What the code does otherwise than it says

The first two have a run that ends in a counterexample and an entry under
`findings`. The rest are behaviours the models have; the properties are stated so
as to allow them, and no run asks for what the code does not do.

1. **A landed write is put back to pending** (`external/execute.ts:582`,
   `external_put_back`). The transition to *committed* is inside the `try` whose
   `catch` takes every `DeniedError` for a refusal by the connector; a store that
   cannot serve raises one too. The row reads pending, the caller is told the
   write was refused, and the effect is in the world. It is not performed again
   (`EffectAtMostOnce` holds with failing stores): the approval is spent.
2. **A compensation is refused under containment** (`guard/authorize.ts:76`,
   `chokepoint_compensation`): the engine exempts it, the chokepoint does not.

**Approvals.** Two people who grant a request of two at once each compute the next
status from a count of one (`guard/approvals.ts:230`): the request keeps both
grants and stays pending until it expires.

**Engine.**
- A cancellation between the closing of a step's row and its advance finds no
  completed step to undo (`engine/runner.ts:626`; the comment at 615 says that what
  was done is unwound). A refusal at `consume`, or an output that cannot be
  merged, after the effect landed ends the step as denied or failed, and the
  unwind skips it (`runner.ts:1336`, `instance.ts:379`).
- An unwind rebuilt while a compensation is claimed, by `cancel` or by a step that
  fails late, gives its token afresh (`runner.ts:2149`); a second process claims
  it and both perform it, though `runner.ts:964` says the other "walks away" and
  2085 that a compensation is not queued twice.
- `validateDefinition` reports a path of a fan-out that reaches the join only where a
  step's `next` names it (`engine/definition.ts:625`), though the comment at 609 says
  that none may, which "would let the join run before every branch had finished". A branch
  step's case or `otherwise`, a wait's `onTimeout` or a head that names the join, or
  any step that names one behind the join, is accepted. With such a definition (a
  fan-out whose two paths each choose between a last step and the join) TLC finds
  the join running early, and running twice at once, both times performing its
  effect: `ForwardEffectAtMostOnce` and `JoinWaitsForEveryPath` both fail. The
  theorems and the runs therefore assume `PathsApart`.
- A case whose only token is parked at an approval gate is never due
  (`store.memory.ts:232`: neither a ready nor a running token, nor a wake-up time),
  and the sweep is the only caller of `tick`: the decision is never acted on,
  though `runner.ts:1076` speaks of an instance that would otherwise be "left parked
  forever".
- A process that dies between the row of a granted gate and its token
  (`runner.ts:1052`, 1058) leaves a case that throws at every later pass; one that
  dies after a task's row was completed (519) leaves a completed task whose case
  never advances; a timeout that closed its row and died is refused later.
- Two sweeps that both find no row for a wait, the second after the first one's claim
  lapsed, append one each (`runner.ts:1715`), and the token may carry either. If the
  wait times out on one row (`runner.ts:1674`) while a signal closes the other and moves
  the token (593), the late timeout fails the case (`settleFailed`, 2224, asks only
  whether the case has ended) at a step that has succeeded, after the sender was told
  that the event was received. `LeftOnce` says what is left: the case ends there.
- A process that ended an instance and dies before `finalise` leaves the run open
  (`runner.ts:434`), and two processes in `finalise` both write the settled audit
  entry (2266).

**Chokepoint.**
- The overshoot of a spend ceiling is not "bounded by one step's cost"
  (`guard/ceilings.ts:21`, `src/docs/admin-guide.md`): each concurrent caller may add
  one call. `SpendIsBounded` states, and its theorem proves, that bound.
- The spend is read before it is compared (`ceilings.ts:110-122`), so a call that
  ends in between lets two others claim its headroom.
- A write that fails after the work leaves the estimate held until the run ends in
  that process; if another process ends it, the daily share is held for good.
- The rate window counts checks, not the attempts a call makes; the wall clock is
  known to the process that started the run alone; a crash before the cost is
  recorded leaves spend no one counts.

**Egress.**
- The switch is checked again at every attempt "so a kill switch engaged mid-backoff
  stops the next attempt" (`integrations/egress.ts:357`). It does where it was engaged in
  the process that makes the call. Another process answers from its cache for up to
  1000 ms (`guard/containment.ts:44,55`), and the first two back-offs are shorter: a
  call may make all its attempts after the pause. On the instance of the run `egress`
  TLC finds an attempt permitted while the switch is engaged; `StopReachesCalls` counts
  from when the pause has taken effect everywhere.
- A call can be performed again though a step under its key succeeded. The lookup
  returns the earliest step under the key whatever its status
  (`record/store.memory.ts:285`, `record/store.pg.ts:442`), and the call is suppressed
  only if that one succeeded (`egress.ts:304`): behind one that failed, was denied or
  is still running, a later success is not seen. `egress.ts:300` says that repeating
  it is what the keys exist to prevent, `record/port.ts:63` that if a step is returned
  "the effect already happened and must not happen again", and a test
  (`integrations/integrations.test.ts:607`) asks for it where the first step succeeded.
  On the same instance TLC finds a call going on to its requests past a step that
  succeeded; no run asks for what the code does not do here.
- A refusal of a second attempt says the call did not happen (`egress.ts:286`), though
  the first attempt may have landed. No property covers that sentence:
  `RecordAndAnswersAreTrue` takes a denial as no claim about the effect.
- A failure that arrives late puts a completed entry back on the queue
  (`degrade.ts:193`). A claimed entry has no lease: if its scheduler dies it is never
  claimed again (`store.memory.ts:47`).

**External execution.** An approval whose binding failed stays open in the approvers'
queue (`execute.ts:331`).

**Contact gate.**
- The consent check asks that some grant carry its receipt, not that the one that
  displaces an opt-out does (`gate.ts:206`): an opt-out can be undone by a grant
  whose audit entry never landed.
- The fold over the ledger lets a later-effective revocation recorded earlier
  displace the governing one (`consent.ts:429`).
- Two calls under two keys may both count before either is stored, and pass the cap
  by one (`gate.ts:579`). A loser under one key that finds a clearance without a
  receipt writes a second audit entry (585). A crash between the approval and the
  insert burns the approval. A clearance finished by a retry rests on evidence
  read before an opt-out that came between (490).
- A do-not-call entry put again with a later registration date does not suppress
  until then (`consent.ts:485`).

**External agents.**
- A denial that reached the threshold contains the agent one await later, also after
  a release that cleared the ledger; denials recorded between the release's clear
  and its change of status survive it (`ratelimit.ts:235` says a released agent
  cannot immediately be contained again).
- `stopReasonFor` is said to be the one function that admission, heartbeat and
  reports consult (`enrollment.ts`); admission has its own check, which lets an
  agent act at the instant it expires.
- "Every stop condition is read fresh on every beat. Caching any of them would mean an
  operator's containment took effect one cache window later" (`runs.ts:269`), and the
  route says that nothing is cached (`api/external.ts:667`). The agent's own status is
  read each time; the platform's pause is asked of `ContainmentController`, which
  answers from a cache of 1000 ms (`guard/containment.ts:51-70`): a pause engaged in
  another process does take effect one cache window later. `StopReachesAgents` gives
  a pause that time (`PauseIsSeen`) and an agent's status and expiry none.
- A heartbeat's conditions are each read at a moment of its own: an agent may be told
  to go on though they never held together. `StopReachesAgents` states what does hold.
- A finish, a stop or a sweep that fails between its two stores leaves the record's run
  open (`runs.ts:405-430`, 474-486) behind a live run that has ended, which no later sweep
  lists: `SilentRunsEnd` speaks of the live run only, and `RecordFollowsRun` asks for
  the closed record only without failures; a report whose write died midway is answered as a duplicate,
  its cost in part or unmetered; a creation that failed after its commit gives a
  seat back, and a revocation whose audit entry fails keeps one.

---

## 6 Abstractions

- **Data.** A payload, digest, name or id is a model value. A digest covers what
  it is computed from, so equal digests are equal proposals. Times are ticks.
- **Store calls** are atomic and immediately consistent. `mutate` of the engine,
  which retries a lost compare-and-swap up to eight times, is one action. Losing
  eight times in a row throws `storeUnavailable` (`engine/runner.ts:951`), a
  `DeniedError` (`store/db.ts:177`), as a failing store does: inside a step `runStep`
  catches it and settles the step as denied (`runner.ts:1138`; `StoreFails`, `Leave`).
  Outside one, at the claim, in `settleDenied` itself or in `finalise`, it ends
  the tick, as `Crash` does. `WaitingSteps` has the same two, against its bound of
  mishaps; a store that fails in a person's or a signal's call is a `Crash` there.
- **Audit** is a call that may fail where the caller's control depends on it
  (`ConsumeAudit`), and left out elsewhere.
- **Engine.** One instance, published and already started (`start` creates it
  in `Init`); instances share nothing but the processes. `WorkflowEngine` has the
  steps that act and `WaitingSteps` the steps that wait; a definition that mixes
  them runs both kinds over the one `mutate`, and no module composes them.
  `Contain`, `Permit`, `Refuse` and `RefuseAfter` stand for the guard's answers.
  Branch conditions are a choice of the target. Back-off is a wait that ends.
- **Waiting steps.** A wake-up is a flag that the clock sets; a lease is a flag that
  lapses. Tasks have no assignee or data. Nothing needs to be undone, so a
  cancellation or a refusal ends the instance at once.
- **Chokepoint.** The checks that need no store are one choice (`RefuseStatic`). Costs
  and ceilings are small numbers. The clock stays inside one day; the rolling window of
  the daily ceiling is that day.
- **Egress.** One integration, its effectful methods. The cache of its switch is
  `lingers`: until `Spread`, each look may be answered by either position, in any
  process. How long that is, `Spread` leaves open; `Chokepoint` has it. Rate ceilings and the checks of
  the URL are among the refusals of `Permit`. The scheduler that re-invokes a claimed
  call is modelled from what `claimDue` says of it: it is not in the repository.
- **Contact gate.** One owner, one channel, one purpose; the policy tables are
  parameters. A blanket revocation counts as one of this channel and purpose.
- **External agents.** A request has been verified. The rules that compare it with
  its enrollment are one choice (`Judge`). An episode is a live run or a report.
- **External execution.** The approval is taken in the stages of
  `SingleUseAuthority`: its `consume` is one atomic step here because
  `Approvals` models what happens inside it. Containment of one integration is
  not told apart from the platform's; the platform's pause is the lever "pause"
  until the last cache that read it as clear has run out, then "platform", and
  a release is taken to be seen at once. The connector's switch is the
  switchboard read at call time. Automatic containment of an agent
  by its denials is `Stop(agent)` at any time. A refusal of the outbound call is
  taken at its word (nothing landed), the contract `execute.ts` states; whether
  egress keeps it is the question of `Egress` (section 5: it may not). The comparison of the agent's mode reads
  a registry fixed at start and is left out, as is `executeRead`, which keeps no
  row another actor reads.
- **Ghost state**: `landed` (engine and external), `under` (the levers in force
  ever since a commit began), `tried` in the mapping to `TruthfulWrite`, `late` and
  `landed` of egress, `began` of the chokepoint, `chance` and `lost` of the external
  agents, `upto` of a clearance.

---

## 7 Not modelled

- **Audit chain** (`audit/`): what it promises is about hashes over text, and its one
  writer holds a lock. The audit calls whose failure changes what a caller may do
  are steps of the components that make them.
- **Roles and improvement** (`roles/`, `improve/`): a promotion spends an approval
  before a compare-and-set that may lose (`roles/promotion.ts:361`), and a crash may
  fall between an installation and its record (`improve/apply.ts:193`). One
  operator at a time drives them, and the checks around them compare texts and
  statistics. They are the first candidates for a further module.
- **Credentials and identity** (`external/credentials.ts`, `identity/`): cryptography over
  text; the nonce table is an insert that one of two copies of a request wins.
- **Timeline** (`timeline/`): pure date arithmetic over rule tables, with no state and no
  concurrent actor. A model would be the code again.
- **Knowledge, documents, discovery, screening, retention**: one writer or a batch over
  data; rows past their retention are no longer acted on by a modelled component.
- **API, command line, console, demo, tools**: they parse, call one service and format.
  The routes of outside agents, whose order of calls matters, are in
  `ExternalAgents`.
- **Operations left out of modelled components**: `executeRead` (no row another actor
  reads), `reEnroll` (limits, which are constants here), escalation of overdue tasks,
  safe methods of egress, screening and templates of the model gateway, read-only
  queries.
