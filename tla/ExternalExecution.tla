-------------------------- MODULE ExternalExecution --------------------------
(***************************************************************************)
(* Governed execution for external agents (external/execute.ts): a write   *)
(* is parked behind a human approval, and performed when the agent sends   *)
(* the same request again.  Every commit call makes a dozen store calls,   *)
(* each atomic; between any two of them other commits, the expiry and      *)
(* stale-commit sweeps, the operator's stop levers, the clock and a crash  *)
(* may come in.  A store call may also fail, with its write done or not:   *)
(* the stores report that as the DeniedError a refusal is                  *)
(* (storeUnavailable).                                                     *)
(*                                                                         *)
(* The approval behind a parked action has the stages of                   *)
(* SingleUseAuthority, which Approvals implements.                         *)
(***************************************************************************)
EXTENDS Integers, FiniteSets

CONSTANTS
  ParkedId,     \* ids of parked actions, each with the approval raised for it
  Commit,       \* commit calls
  Agent,        \* enrolled agents
  Payload,      \* what a request carries; a digest tells payloads apart
  Rank,         \* the byte order of the approval ids
  Ttl,          \* how long a parked action and its approval stay open
  StaleAfter,   \* how long a commit may be in flight before it is swept
  LedgerAge,    \* how long the used-approval ledger keeps an entry
  MaxTime,      \* bound on the clock
  MaxFaults,    \* bound on store calls that fail
  MaxCrashes,   \* bound on processes that die
  MaxStops      \* bound on levers an operator pulls

ASSUME ExecutionAssumption ==
  /\ {Ttl, StaleAfter, LedgerAge, MaxTime, MaxFaults, MaxCrashes, MaxStops} \subseteq Nat
  /\ Rank \in [ParkedId -> Nat \ {0}]
  /\ \A i, j \in ParkedId : Rank[i] = Rank[j] => i = j
  /\ {"pause", "platform", "connector"} \cap Agent = {}

\* What stops external work: an agent contained or revoked, the platform paused, the
\* connector switched off.  A pause is in force ("platform") once no process is left
\* that holds the switch as it was in its cache (cacheTtlMs).
Lever == Agent \cup {"pause", "platform", "connector"}

VARIABLES
  action,     \* rows of the parked-action store
  parking,    \* how far the park call that created each row has come
  authority,  \* the approval raised for each parked action
  ledger,     \* the used-approval ledger and its floor
  commit,     \* commit calls
  listed,     \* rows the stale-commit sweep has read and not yet marked
  stopped,    \* the levers engaged
  now,        \* the clock
  budget      \* faults, crashes and stops so far

vars == <<action, parking, authority, ledger, commit, listed, stopped, now, budget>>

Absent == [status |-> "none"]   \* no row under this id

Terminal == {"committed", "voided", "indeterminate"}

Status == {"pending", "committing", "expired"} \cup Terminal

Row == [status : Status,
        agent : Agent, payload : Payload, bound : BOOLEAN,
        expiresAt : Nat, committingAt : Nat \cup {-1}]

Unasked == [stage |-> "absent", expiresAt |-> 0]

Approval == [stage : {"absent", "open", "authorised", "spent", "closed"}, expiresAt : Nat]

Fresh == [pc |-> "idle"]        \* a commit call not yet made

\* The store calls of commit in their order; "back" and "doubt" are in its catch.
Before == {"void", "admit", "enabled", "clear", "ledger", "consume", "claim",
           "start", "status", "open"}
Trying == {"settle", "runDone", "runLost"}
Catching == {"back", "doubt", "runRefused", "runDoubt"}

At == Before \cup {"perform"} \cup Trying \cup Catching \cup {"done"}

\* What a commit call knows: the row's status and binding as it read them, the run
\* it opened, what it answered; landed counts its effects, and under holds the
\* levers engaged ever since it began.
Call == [pc : At,
         id : ParkedId, agent : Agent, payload : Payload,
         seen : Status, bound : BOOLEAN,
         run : {"none", "running", "succeeded", "failed"},
         answer : {"none", "completed", "already_done", "indeterminate", "denied"},
         landed : Nat, under : SUBSET Lever]

TypeOK ==
  /\ action \in [ParkedId -> Row \cup {Absent}]
  /\ parking \in [ParkedId -> {"none", "request", "bind", "release", "unbind",
                              "done", "refused", "unbound", "lost"}]
  /\ authority \in [ParkedId -> Approval]
  /\ ledger \in [used : [ParkedId -> Nat \cup {-1}], floor : Nat]
  /\ commit \in [Commit -> Call \cup {Fresh}]
  /\ listed \subseteq ParkedId
  /\ stopped \subseteq Lever
  /\ now \in Nat
  /\ budget \in [faults : Nat, crashes : Nat, stops : Nat]

Init ==
  /\ action = [id \in ParkedId |-> Absent]
  /\ parking = [id \in ParkedId |-> "none"]
  /\ authority = [id \in ParkedId |-> Unasked]
  /\ ledger = [used |-> [id \in ParkedId |-> -1], floor |-> 0]
  /\ commit = [c \in Commit |-> Fresh]
  /\ listed = {}
  /\ stopped = {}
  /\ now = 0
  /\ budget = [faults |-> 0, crashes |-> 0, stops |-> 0]

-----------------------------------------------------------------------------
(* The stores. *)

\* transitionParkedAction: compare and set, and never out of a terminal status.
CanMove(id, from) == action[id].status = from /\ from \notin Terminal

Move(id, from, to) ==
  action' = IF CanMove(id, from)
            THEN [action EXCEPT ![id].status = to,
                                ![id].committingAt = IF to = "committing" THEN now ELSE @]
            ELSE action

\* isConsumed: in the ledger, or at or below the highest id it ever forgot.
Consumed(id) == ledger.used[id] >= 0 \/ Rank[id] <= ledger.floor

\* evictBefore, the external.evict_used_approvals pass.
Evictable == {id \in ParkedId : ledger.used[id] >= 0 /\ ledger.used[id] + LedgerAge < now}

MutRaisedFloors == {ledger.floor}

\* The floor raised to the highest id about to be forgotten.
RaisedFloors ==
  LET floors == {ledger.floor} \cup {Rank[id] : id \in Evictable}
  IN {r \in floors : \A floor \in floors : r >= floor}

EvictUsedApprovals ==
  /\ Evictable # {}
  /\ \E floor \in RaisedFloors :
       ledger' = [used |-> [id \in ParkedId |->
                             IF id \in Evictable THEN -1 ELSE ledger.used[id]],
                  floor |-> floor]
  /\ UNCHANGED <<action, parking, authority, commit, listed, stopped, now, budget>>

\* ApprovalService.consume's compare-and-set.
Spendable(id) == authority[id].stage = "authorised" /\ now <= authority[id].expiresAt

-----------------------------------------------------------------------------
(* Parking a write. *)

\* park, up to createParkedAction: the agent and the platform are clear.
Park(id, agent, payload) ==
  /\ action[id] = Absent
  /\ now + Ttl < MaxTime    \* bound: the clock can still run past its expiry
  /\ stopped \cap {agent, "platform"} = {}
  /\ action' = [action EXCEPT ![id] =
                  [status |-> "pending", agent |-> agent, payload |-> payload,
                   bound |-> FALSE, expiresAt |-> now + Ttl, committingAt |-> -1]]
  /\ parking' = [parking EXCEPT ![id] = "request"]
  /\ UNCHANGED <<authority, ledger, commit, listed, stopped, now, budget>>

RequestApproval(id) ==
  /\ parking[id] = "request"
  /\ authority' = [authority EXCEPT ![id] = [stage |-> "open", expiresAt |-> now + Ttl]]
  /\ parking' = [parking EXCEPT ![id] = "bind"]
  /\ UNCHANGED <<action, ledger, commit, listed, stopped, now, budget>>

\* The approval could not be raised, or was raised and its audit entry could not
\* be written: the row is to be voided.
RequestFails(id) ==
  /\ parking[id] = "request"
  /\ \/ UNCHANGED authority
     \/ authority' = [authority EXCEPT ![id] = [stage |-> "open", expiresAt |-> now + Ttl]]
  /\ parking' = [parking EXCEPT ![id] = "release"]
  /\ UNCHANGED <<action, ledger, commit, listed, stopped, now, budget>>

\* bindApproval: only onto a row still pending and still unbound.
Bind(id) ==
  /\ parking[id] = "bind"
  /\ IF action[id].status = "pending" /\ ~action[id].bound
     THEN /\ action' = [action EXCEPT ![id].bound = TRUE]
          /\ parking' = [parking EXCEPT ![id] = "done"]
     ELSE /\ parking' = [parking EXCEPT ![id] = "unbind"]
          /\ UNCHANGED action
  /\ UNCHANGED <<authority, ledger, commit, listed, stopped, now, budget>>

\* Voids the row whose approval could not be raised or bound.
Release(id) ==
  /\ parking[id] \in {"release", "unbind"}
  /\ Move(id, "pending", "voided")
  /\ parking' = [parking EXCEPT ![id] = IF @ = "release" THEN "refused" ELSE "unbound"]
  /\ UNCHANGED <<authority, ledger, commit, listed, stopped, now, budget>>

\* The process dies, or a store call of park fails, with its write done or not.
ParkDies(id) ==
  /\ parking[id] \in {"request", "bind", "release", "unbind"}
  /\ budget.crashes < MaxCrashes
  /\ parking' = [parking EXCEPT ![id] = "lost"]
  /\ budget' = [budget EXCEPT !.crashes = @ + 1]
  /\ UNCHANGED <<action, authority, ledger, commit, listed, stopped, now>>

\* A person decides on the approval while it is open.
Decide(id, stage) ==
  /\ authority[id].stage = "open" /\ now <= authority[id].expiresAt
  /\ authority' = [authority EXCEPT ![id].stage = stage]
  /\ UNCHANGED <<action, parking, ledger, commit, listed, stopped, now, budget>>

-----------------------------------------------------------------------------
(* Committing a parked action. *)

Goto(c, pc) == commit' = [commit EXCEPT ![c].pc = pc]
Reply(c, answer) == commit' = [commit EXCEPT ![c].pc = "done", ![c].answer = answer]

MutWrites(c) ==
  LET pc == commit[c].pc
      id == commit[c].id
  IN /\ CASE pc = "void" -> Move(id, commit[c].seen, "voided")
           [] pc = "start" -> Move(id, commit[c].seen, "committing")
           [] pc = "settle" -> Move(id, "committing", "committed")
           [] pc \in {"back", "doubt"} -> Move(id, "committing", "pending")
           [] OTHER -> UNCHANGED action
     /\ authority' = IF pc = "consume" /\ Spendable(id)
                     THEN [authority EXCEPT ![id].stage = "spent"] ELSE authority
     /\ ledger' = IF pc = "claim" /\ ~Consumed(id)
                  THEN [ledger EXCEPT !.used[id] = now] ELSE ledger

\* What the store call a commit is at writes when it goes through.
Writes(c) ==
  LET pc == commit[c].pc
      id == commit[c].id
  IN /\ CASE pc = "void" -> Move(id, commit[c].seen, "voided")
           [] pc = "start" -> Move(id, commit[c].seen, "committing")
           [] pc = "settle" -> Move(id, "committing", "committed")
           [] pc = "back" -> Move(id, "committing", "pending")
           [] pc = "doubt" -> Move(id, "committing", "indeterminate")
           [] OTHER -> UNCHANGED action
     /\ authority' = IF pc = "consume" /\ Spendable(id)
                     THEN [authority EXCEPT ![id].stage = "spent"] ELSE authority
     /\ ledger' = IF pc = "claim" /\ ~Consumed(id)
                  THEN [ledger EXCEPT !.used[id] = now] ELSE ledger

\* The run once the call a commit is at goes through: createRun opens it, and
\* patchRun closes it, unless it has ended already.
Closing == {"runDone", "runLost", "runRefused", "runDoubt"}

RunAfter(c) ==
  LET pc == commit[c].pc
      run == commit[c].run
  IN CASE pc = "open" -> "running"
       [] pc \in Closing /\ run = "running" -> IF pc = "runDone" THEN "succeeded" ELSE "failed"
       [] OTHER -> run

\* The step of a commit whose store call went through.
Step(c, pc) ==
  /\ commit[c].pc = pc
  /\ Writes(c)
  /\ UNCHANGED <<parking, listed, stopped, now, budget>>

Owns(id, agent) == action[id].agent = agent

MutMatches(id, agent, payload) == action[id].agent = agent

\* The digest of a request covers the agent and the payload.
Matches(id, agent, payload) == action[id].agent = agent /\ action[id].payload = payload

MutStatusAnswer(id) ==
  IF action[id].status \in {"committing", "indeterminate"} THEN "indeterminate" ELSE "already_done"

\* What the record's status tells a caller who may not go on.
StatusAnswer(id) ==
  CASE action[id].status = "committed" -> "already_done"
    [] action[id].status \in {"committing", "indeterminate"} -> "indeterminate"
    [] OTHER -> "denied"

\* Whether a status settles a commit before its digest is looked at.
Settled(id) == action[id].status \notin {"pending", "expired"}

\* A commit call that has read its row, and goes on at pc or answers.
Receive(c, id, agent, payload, pc, answer) ==
  /\ commit' = [commit EXCEPT ![c] =
       [pc |-> pc, id |-> id, agent |-> agent, payload |-> payload,
        seen |-> action[id].status, bound |-> action[id].bound, run |-> "none",
        answer |-> answer, landed |-> 0, under |-> stopped]]
  /\ UNCHANGED <<action, parking, authority, ledger, listed, stopped, now, budget>>

\* commit, up to its first store call after the read: ownership, then a settled
\* status, then the digest, then the expiry.
BeginCommit(c, id, agent, payload) ==
  /\ commit[c] = Fresh
  /\ action[id] # Absent
  /\ \/ /\ ~Owns(id, agent)
        /\ Receive(c, id, agent, payload, "done", "denied")
     \/ /\ Owns(id, agent) /\ Settled(id)
        /\ Receive(c, id, agent, payload, "done", StatusAnswer(id))
     \/ /\ Owns(id, agent) /\ ~Settled(id)
        /\ ~Matches(id, agent, payload)
        /\ Receive(c, id, agent, payload, "void", "none")
     \/ /\ Owns(id, agent) /\ ~Settled(id)
        /\ Matches(id, agent, payload)
        /\ now > action[id].expiresAt
        /\ Receive(c, id, agent, payload, "done", "denied")
     \/ /\ Owns(id, agent) /\ ~Settled(id)
        /\ Matches(id, agent, payload)
        /\ now <= action[id].expiresAt
        /\ Receive(c, id, agent, payload, "admit", "none")

\* A request that is not the one approved voids the action.
Void(c) == Step(c, "void") /\ Reply(c, "denied")

MutAdmitted(c) == "platform" \notin stopped

\* The admission chain again: the agent, and the platform.
Admitted(c) == stopped \cap {commit[c].agent, "platform"} = {}

Admit(c) ==
  /\ Step(c, "admit")
  /\ \/ Admitted(c) /\ Goto(c, "enabled")
     \/ ~Admitted(c) /\ Reply(c, "denied")
     \/ "pause" \in stopped /\ Reply(c, "denied")

CheckEnabled(c) ==
  /\ Step(c, "enabled")
  /\ IF "connector" \notin stopped THEN Goto(c, "clear") ELSE Reply(c, "denied")

\* The platform's containment, then that the row carried an approval.
CheckClear(c) ==
  /\ Step(c, "clear")
  /\ \/ "platform" \notin stopped /\ commit[c].bound /\ Goto(c, "ledger")
     \/ stopped \cap {"pause", "platform"} # {} /\ Reply(c, "denied")
     \/ ~commit[c].bound /\ Reply(c, "denied")

CheckLedger(c) ==
  /\ Step(c, "ledger")
  /\ Goto(c, IF Consumed(commit[c].id) THEN "status" ELSE "consume")

ConsumeApproval(c) ==
  /\ Step(c, "consume")
  /\ IF Spendable(commit[c].id) THEN Goto(c, "claim") ELSE Reply(c, "denied")

ClaimApproval(c) ==
  /\ Step(c, "claim")
  /\ Goto(c, IF Consumed(commit[c].id) THEN "status" ELSE "start")

StartCommit(c) ==
  /\ now + StaleAfter <= MaxTime    \* bound: the sweep can still find it stale
  /\ Step(c, "start")
  /\ Goto(c, IF CanMove(commit[c].id, commit[c].seen) THEN "open" ELSE "status")

AnswerFromStatus(c) == Step(c, "status") /\ Reply(c, StatusAnswer(commit[c].id))

OpenRun(c) ==
  /\ Step(c, "open")
  /\ commit' = [commit EXCEPT ![c].pc = "perform", ![c].run = RunAfter(c)]

MutPerform(c) ==
  /\ Step(c, "perform")
  /\ \/ Goto(c, "back")
     \/ /\ "connector" \notin stopped
        /\ commit' = [commit EXCEPT ![c].pc = "settle", ![c].landed = @ + 1]
     \/ /\ "connector" \notin stopped /\ commit[c].landed < 2
        /\ \E n \in {0, 1} : commit' = [commit EXCEPT ![c].landed = @ + n]

\* The outbound call.  A refusal asserts that nothing was done; a connector
\* switched off refuses at call time.  An error says nothing of the effect.
Perform(c) ==
  /\ Step(c, "perform")
  /\ \/ Goto(c, "back")
     \/ /\ "connector" \notin stopped
        /\ commit' = [commit EXCEPT ![c].pc = "settle", ![c].landed = @ + 1]
     \/ /\ "connector" \notin stopped
        /\ \E n \in {0, 1} :
             commit' = [commit EXCEPT ![c].pc = "doubt", ![c].landed = @ + n]

\* The result is recorded, unless the sweep has moved the row meanwhile.
SettleCommit(c) ==
  /\ Step(c, "settle")
  /\ Goto(c, IF CanMove(commit[c].id, "committing") THEN "runDone" ELSE "runLost")

\* A refused call leaves the action where it was before the attempt.
PutBack(c) == Step(c, "back") /\ Goto(c, "runRefused")

MarkIndeterminate(c) == Step(c, "doubt") /\ Goto(c, "runDoubt")

\* patchRun, and the answer.
CloseRun(c) ==
  /\ commit[c].pc \in Closing
  /\ Step(c, commit[c].pc)
  /\ commit' = [commit EXCEPT
       ![c].pc = "done",
       ![c].run = RunAfter(c),
       ![c].answer = CASE commit[c].pc = "runDone" -> "completed"
                       [] commit[c].pc = "runRefused" -> "denied"
                       [] OTHER -> "indeterminate"]

\* A store call throws storeUnavailable, its write done or not.  Inside the try
\* the DeniedError is caught as a refusal; anywhere else it is the answer.
StoreFails(c) ==
  /\ commit[c].pc \in Before \cup Trying \cup Catching
  /\ budget.faults < MaxFaults
  /\ commit[c].pc = "start" => now + StaleAfter <= MaxTime    \* bound: as StartCommit
  /\ budget' = [budget EXCEPT !.faults = @ + 1]
  /\ Writes(c) \/ UNCHANGED <<action, authority, ledger>>
  /\ \E run \in {commit[c].run, RunAfter(c)} :
       commit' = [commit EXCEPT
         ![c].pc = IF @ \in Trying THEN "back" ELSE "done",
         ![c].answer = IF commit[c].pc \in Trying THEN "none" ELSE "denied",
         ![c].run = run]
  /\ UNCHANGED <<parking, listed, stopped, now>>

CommitDies(c) ==
  /\ commit[c].pc \notin {"idle", "done"}
  /\ budget.crashes < MaxCrashes
  /\ Goto(c, "done")
  /\ budget' = [budget EXCEPT !.crashes = @ + 1]
  /\ UNCHANGED <<action, parking, authority, ledger, listed, stopped, now>>

-----------------------------------------------------------------------------
(* The maintenance passes, the operator and the clock. *)

Stale(id) == action[id].status = "committing" /\ action[id].committingAt + StaleAfter <= now

MutListStale ==
  /\ listed = {} /\ "platform" \notin stopped
  /\ \E id \in ParkedId : Stale(id)
  /\ listed' = {id \in ParkedId : Stale(id)}
  /\ UNCHANGED <<action, parking, authority, ledger, commit, stopped, now, budget>>

\* sweepStaleCommits: lists what is in flight for too long, then marks each.
ListStale ==
  /\ listed = {}
  /\ \E id \in ParkedId : Stale(id)
  /\ listed' = {id \in ParkedId : Stale(id)}
  /\ UNCHANGED <<action, parking, authority, ledger, commit, stopped, now, budget>>

MarkStale(id) ==
  /\ id \in listed
  /\ Move(id, "committing", "indeterminate")
  /\ listed' = listed \ {id}
  /\ UNCHANGED <<parking, authority, ledger, commit, stopped, now, budget>>

MutExpirable(id) ==
  action[id].status \in {"pending", "committing"} /\ action[id].expiresAt < now

\* expireParkedActions.
Expirable(id) == action[id].status = "pending" /\ action[id].expiresAt < now

ExpireParkedActions ==
  /\ \E id \in ParkedId : Expirable(id)
  /\ action' = [id \in ParkedId |-> IF Expirable(id)
                                    THEN [action[id] EXCEPT !.status = "expired"]
                                    ELSE action[id]]
  /\ UNCHANGED <<parking, authority, ledger, commit, listed, stopped, now, budget>>

ExpireApprovals ==
  /\ \E id \in ParkedId : authority[id].stage = "open" /\ authority[id].expiresAt < now
  /\ authority' = [id \in ParkedId |->
                     IF authority[id].stage = "open" /\ authority[id].expiresAt < now
                     THEN [authority[id] EXCEPT !.stage = "closed"] ELSE authority[id]]
  /\ UNCHANGED <<action, parking, ledger, commit, listed, stopped, now, budget>>

Stop(lever) ==
  /\ lever \notin stopped /\ lever # "platform"
  /\ budget.stops < MaxStops
  /\ stopped' = stopped \cup {lever}
  /\ budget' = [budget EXCEPT !.stops = @ + 1]
  /\ UNCHANGED <<action, parking, authority, ledger, commit, listed, now>>

\* The last cache that held the platform's switch as clear has run out.
PauseTakesEffect ==
  /\ "pause" \in stopped /\ "platform" \notin stopped
  /\ stopped' = stopped \cup {"platform"}
  /\ UNCHANGED <<action, parking, authority, ledger, commit, listed, now, budget>>

Lifted(lever) == IF lever = "pause" THEN {"pause", "platform"} ELSE {lever}

Resume(lever) ==
  /\ lever \in stopped /\ lever # "platform"
  /\ stopped' = stopped \ Lifted(lever)
  /\ commit' = [c \in Commit |->
                  IF commit[c] = Fresh THEN Fresh
                  ELSE [commit[c] EXCEPT !.under = @ \ Lifted(lever)]]
  /\ UNCHANGED <<action, parking, authority, ledger, listed, now, budget>>

Tick ==
  /\ now < MaxTime
  /\ now' = now + 1
  /\ UNCHANGED <<action, parking, authority, ledger, commit, listed, stopped, budget>>

ParkCall ==
  \/ \E id \in ParkedId, agent \in Agent, payload \in Payload : Park(id, agent, payload)
  \/ \E id \in ParkedId :
       RequestApproval(id) \/ RequestFails(id) \/ Bind(id) \/ Release(id) \/ ParkDies(id)

CommitCall(c) ==
  \/ \E id \in ParkedId, agent \in Agent, payload \in Payload :
       BeginCommit(c, id, agent, payload)
  \/ Void(c) \/ Admit(c) \/ CheckEnabled(c) \/ CheckClear(c) \/ CheckLedger(c)
  \/ ConsumeApproval(c) \/ ClaimApproval(c) \/ StartCommit(c) \/ AnswerFromStatus(c)
  \/ OpenRun(c) \/ Perform(c) \/ SettleCommit(c) \/ PutBack(c) \/ MarkIndeterminate(c)
  \/ CloseRun(c) \/ StoreFails(c) \/ CommitDies(c)

Maintenance ==
  \/ ListStale \/ (\E id \in ParkedId : MarkStale(id))
  \/ ExpireParkedActions \/ ExpireApprovals \/ EvictUsedApprovals

Next ==
  \/ ParkCall
  \/ \E c \in Commit : CommitCall(c)
  \/ Maintenance
  \/ \E id \in ParkedId, stage \in {"authorised", "closed"} : Decide(id, stage)
  \/ \E lever \in Lever : Stop(lever) \/ Resume(lever)
  \/ PauseTakesEffect
  \/ Tick

Spec == Init /\ [][Next]_vars

\* The stale-commit pass runs on every round of the maintenance loop, whether or
\* not the platform is paused (runsUnderContainment), and time passes.
Fairness ==
  /\ WF_vars(Tick)
  /\ WF_vars(ListStale)
  /\ \A id \in ParkedId : WF_vars(MarkStale(id))

FairSpec == Spec /\ Fairness

-----------------------------------------------------------------------------
\* However many commits race on one parked action, through crashes, sweeps and
\* failing stores, its effect lands at most once.
EffectAtMostOnce ==
  \A c, d \in Commit :
    /\ commit[c] # Fresh => commit[c].landed <= 1
    /\ commit[c] # Fresh /\ commit[d] # Fresh /\ commit[c].id = commit[d].id
         /\ commit[c].landed > 0 /\ commit[d].landed > 0 => c = d

\* What lands is what a human approved: the payload the agent parked, by the
\* agent that parked it, under an approval bound to that action and spent on it.
EffectAsApproved ==
  \A c \in Commit : commit[c] # Fresh /\ commit[c].landed > 0 =>
    LET row == action[commit[c].id] IN
    /\ commit[c].payload = row.payload
    /\ commit[c].agent = row.agent
    /\ row.bound
    /\ authority[commit[c].id].stage = "spent"

\* The status, of every row, that says nothing was done: a row that is back to
\* pending, voided or expired has had no effect ("Nothing happened, and the
\* caller must not be told otherwise", execute.ts:700), and a committed one has.
UntouchedMeansNothingDone ==
  \A id \in ParkedId : action[id].status \in {"pending", "voided", "expired"} =>
    \A c \in Commit : commit[c] # Fresh /\ commit[c].id = id => commit[c].landed = 0

\* No caller is told more than the record holds: "completed", "already done" and
\* a succeeded run only of a row that is committed, and a refusal only by a
\* commit that did nothing.
AnswersAgreeWithRecord ==
  \A c \in Commit : commit[c] # Fresh =>
    /\ commit[c].answer \in {"completed", "already_done"} \/ commit[c].run = "succeeded"
         => action[commit[c].id].status = "committed"
    /\ commit[c].answer = "denied" => commit[c].landed = 0

\* A human's approval does not survive the stop: a commit that began after a lever
\* was in force, and while it stayed so, has no effect.
StopReachesCommits ==
  \A c \in Commit : commit[c] # Fresh /\ commit[c].landed > 0 =>
    commit[c].under \cap {commit[c].agent, "platform", "connector"} = {}

\* A terminal status is final, whatever a late call or a sweep does next.
TerminalIsFinal ==
  [][\A id \in ParkedId : action[id].status \in Terminal =>
       action'[id].status = action[id].status]_vars

\* An approval the ledger refuses is refused ever after, its entry evicted or not.
LedgerNeverForgets == [][\A id \in ParkedId : Consumed(id) => Consumed(id)']_vars

\* A commit in flight does not stay so: it is settled, or the sweep finds it, with
\* its process dead and the platform paused.
EveryCommitSettles ==
  \A id \in ParkedId :
    action[id].status = "committing" ~> action[id].status # "committing"

-----------------------------------------------------------------------------
\* The promise of the record this service implements.
Verdict(id) ==
  CASE action[id].status = "committing" -> "attempting"
    [] action[id].status = "committed" -> "done"
    [] action[id].status = "indeterminate" -> "unknown"
    [] OTHER -> "untouched"

Truth == INSTANCE TruthfulWrite WITH
  Id <- ParkedId,
  verdict <- [id \in ParkedId |-> Verdict(id)],
  tried <- {id \in ParkedId : action[id] # Absent /\ action[id].committingAt >= 0},
  landed <- {id \in ParkedId : \E c \in Commit :
               commit[c] # Fresh /\ commit[c].id = id /\ commit[c].landed > 0}

\* The service implements the truthful record.
ImplementsTruthfulWrite == Truth!Spec
=============================================================================
