------------------------------- MODULE Egress -------------------------------
(***************************************************************************)
(* Outbound integration calls (integrations/egress.ts) made under the      *)
(* degradation handler (integrations/degrade.ts) over its queue            *)
(* (integrations/store.memory.ts, integrations/store.pg.ts).               *)
(*                                                                         *)
(* A call is one DegradationHandler.run around one EgressClient.send of an *)
(* effectful method.  It looks its idempotency key up in the operating     *)
(* record, records a step, and makes up to MaxAttempts requests; the       *)
(* partner may perform a request and its answer be lost.  A call that      *)
(* failed is queued or parked; a scheduler claims what is queued and makes *)
(* the same call again.  Calls under one key interleave at every await.    *)
(*                                                                         *)
(* The integration's switch is asked through ContainmentController, whose  *)
(* answers a process keeps for a while.  Chokepoint has the cache itself;  *)
(* here it is what the cache lets a call be told: until the last answer    *)
(* read before the switch was thrown has run out, either position of it.   *)
(***************************************************************************)
EXTENDS Integers, FiniteSets

CONSTANTS
  Call,              \* invocations, by callers and by the scheduler
  Key,               \* idempotency keys
  Run,               \* runs of the operating record
  KeyOf,             \* the key a call is made under
  RunOf,             \* the run a call's step belongs to
  MaxAttempts,       \* maxAttempts: requests one call may make
  MaxQueueAttempts,  \* maxQueueAttempts: failures before the queue gives up
  MaxStops,          \* bound: times an operator contains the integration
  MaxFaults          \* bound: store writes that fail and processes that die

ASSUME EgressAssumption ==
  /\ KeyOf \in [Call -> Key] /\ RunOf \in [Call -> Run]
  /\ MaxAttempts \in Nat \ {0} /\ MaxQueueAttempts \in Nat \ {0}
  /\ MaxStops \in Nat /\ MaxFaults \in Nat
  /\ IsFiniteSet(Call)

VARIABLES
  call,     \* where each call is, and what it holds between two awaits
  step,     \* the step each call appended to the operating record
  landed,   \* whether the partner performed a request of the call
  queue,    \* integration_queued_call, by key
  parked,   \* integration_parked_item, by reference: none, open or resolved
  paused,   \* the integration's containment switch
  lingers,  \* whether a process may still go by where the switch stood before
  revoked,  \* the credential's revocation
  stops, faults   \* used up of the bounds

store == <<step, queue, parked>>
levers == <<paused, lingers, revoked, stops>>
vars == <<call, store, landed, levers, faults>>

NotBegun == [pc |-> "idle", tries |-> 0, late |-> 0, seen |-> 0, claimed |-> FALSE,
             told |-> "none"]
NoStep == [status |-> "none", seq |-> 0]
NotQueued == [status |-> "none", attempts |-> 0]

\* Where a call waits, in the order of the code.
Place == {"idle", "look", "append", "permit", "credential", "request", "patch",
          "record_denied", "record_failed", "degrade", "enqueue", "give_up",
          "release", "complete", "done"}

\* What the caller is told: an outcome, a denial, or nothing because it died.
Told == {"none", "sent", "already", "denied", "queued", "parked", "lost"}

TypeOK ==
  /\ call \in [Call -> [pc : Place, tries : 0..MaxAttempts, late : 0..MaxAttempts,
                        seen : 0..MaxQueueAttempts, claimed : BOOLEAN, told : Told]]
  /\ step \in [Call -> [status : {"none", "running", "succeeded", "denied", "failed"}, seq : Nat]]
  /\ landed \in [Call -> BOOLEAN]
  /\ queue \in [Key -> [status : {"none", "queued", "claimed", "completed", "abandoned"},
                        attempts : 0..MaxQueueAttempts]]
  /\ parked \in [Key -> {"none", "open", "resolved"}]
  /\ paused \in BOOLEAN /\ lingers \in BOOLEAN /\ revoked \in BOOLEAN
  /\ stops \in 0..MaxStops /\ faults \in 0..MaxFaults

Init ==
  /\ call = [c \in Call |-> NotBegun]
  /\ step = [c \in Call |-> NoStep]
  /\ landed = [c \in Call |-> FALSE]
  /\ queue = [k \in Key |-> NotQueued]
  /\ parked = [k \in Key |-> "none"]
  /\ paused = FALSE /\ lingers = FALSE /\ revoked = FALSE
  /\ stops = 0 /\ faults = 0

-----------------------------------------------------------------------------
\* A stop has taken effect: a revocation at once, a pause when no process holds an
\* older answer.
Stopped == revoked \/ (paused /\ ~lingers)

To(c, pc) == call' = [call EXCEPT ![c].pc = pc]

\* A call that ends keeps what its caller was told.
Tell(c, told) == call' = [call EXCEPT ![c] = [NotBegun EXCEPT !.pc = "done", !.told = told]]

\* A call that went through; a scheduler has its entry to complete.
GoneThrough(c, told) ==
  IF call[c].claimed THEN call' = [call EXCEPT ![c].pc = "complete", ![c].told = told]
                     ELSE Tell(c, told)

\* A store write that fails or a process that dies, within the bound.
Fault == faults < MaxFaults /\ faults' = faults + 1

SameKey(c) == {d \in Call : KeyOf[d] = KeyOf[c]}
StepsUnder(c) == {d \in SameKey(c) : step[d].status # "none"}

\* What findStepByIdempotencyKey may return: a step of the least sequence
\* number.  Numbers are per run, so steps of two runs can tie.
Earliest(c) == {d \in StepsUnder(c) : \A e \in StepsUnder(c) : step[d].seq <= step[e].seq}

\* appendStep's number: the next of the step's run.
NextSeq(c) == 1 + Cardinality({d \in Call : RunOf[d] = RunOf[c] /\ step[d].status # "none"})

-----------------------------------------------------------------------------
MutPermitted(c) == ~paused \/ lingers \/ call[c].tries > 0

\* assertClear may let the call go on: the switch is clear, or was when some process
\* last looked.
Permitted(c) == ~paused \/ lingers

\* assertClear may refuse the call, which it also does when the switch cannot be read.
Contained == \/ (paused \/ lingers) /\ UNCHANGED faults
             \/ Fault

\* send, to its first await: a contained integration is refused before anything
\* is recorded.
Begin(c) ==
  /\ call[c].pc = "idle"
  /\ \/ Permitted(c) /\ To(c, "look") /\ UNCHANGED faults
     \/ Contained /\ Tell(c, "denied")
  /\ UNCHANGED <<store, landed, levers>>

\* The scheduler claims a queued call that is due and makes it again.
Claim(c) ==
  /\ call[c].pc = "idle"
  /\ queue[KeyOf[c]].status = "queued"
  /\ queue' = [queue EXCEPT ![KeyOf[c]].status = "claimed"]
  /\ \/ /\ Permitted(c) /\ UNCHANGED faults
        /\ call' = [call EXCEPT ![c].claimed = TRUE, ![c].pc = "look"]
     \/ Contained /\ Tell(c, "denied")
  /\ UNCHANGED <<step, parked, landed, levers>>

MutPerformed(d) == step[d].status \in {"running", "succeeded"}

Performed(d) == step[d].status = "succeeded"

\* Duplicate suppression: a call whose key's step succeeded is not made.
Look(c) ==
  /\ call[c].pc = "look"
  /\ \/ /\ Earliest(c) = {} /\ To(c, "append")
     \/ \E d \in Earliest(c) :
          IF Performed(d) THEN GoneThrough(c, "already") ELSE To(c, "append")
  /\ UNCHANGED <<store, landed, levers, faults>>

\* The step is recorded before the first request; a store that fails refuses.
Append(c) ==
  /\ call[c].pc = "append"
  /\ \/ /\ step' = [step EXCEPT ![c] = [status |-> "running", seq |-> NextSeq(c)]]
        /\ To(c, "permit") /\ UNCHANGED faults
     \/ Fault /\ Tell(c, "denied") /\ UNCHANGED step
  /\ UNCHANGED <<queue, parked, landed, levers>>

\* The head of an attempt: the switch asked again, then the host's rate window.  The
\* window is shared with every other call to the host, so it may be full at any look.
Permit(c) ==
  /\ call[c].pc = "permit"
  /\ \/ Permitted(c) /\ call' = [call EXCEPT ![c].pc = "credential", ![c].tries = @ + 1]
     \/ To(c, "record_denied")    \* contained, or not to be told, or the window is full
  /\ UNCHANGED <<store, landed, levers, faults>>

\* buildHeaders resolves the credential for every attempt.
Credential(c) ==
  /\ call[c].pc = "credential"
  /\ To(c, IF revoked THEN "record_denied" ELSE "request")
  /\ UNCHANGED <<store, landed, levers, faults>>

\* The last attempt of the loop.
GivesUp(c) == call[c].tries >= MaxAttempts

\* Where an attempt goes from its answer: another attempt after the backoff,
\* under the same key, unless this was the last or repeating is no use.
Answered(c, answer) ==
  CASE answer = "ok" -> "patch"
    [] answer = "retryable" /\ ~GivesUp(c) -> "permit"
    [] OTHER -> "record_failed"

\* One request.  The partner performs it or not, and answers, unless the answer
\* is lost: a timeout, a reset or a 5xx says nothing of what the partner did,
\* and a body past the ceiling is refused after it did it.
Request(c, performed, answer) ==
  /\ call[c].pc = "request"
  /\ answer = "ok" => performed
  /\ landed' = [landed EXCEPT ![c] = @ \/ performed]
  /\ call' = [call EXCEPT ![c].pc = Answered(c, answer),
                          ![c].late = IF Stopped THEN @ + 1 ELSE @]
  /\ UNCHANGED <<store, levers, faults>>

\* A 2xx: the step is closed as succeeded.  A store that fails here throws a
\* denial into the same handler as every other failure.
Patch(c) ==
  /\ call[c].pc = "patch"
  /\ \/ /\ step' = [step EXCEPT ![c].status = "succeeded"]
        /\ GoneThrough(c, "sent") /\ UNCHANGED faults
     \/ Fault /\ To(c, "record_denied") /\ UNCHANGED step
  /\ UNCHANGED <<queue, parked, landed, levers>>

\* recordFailure closes the step and swallows its own error; the failure then
\* reaches the degradation handler, and a denial passes through it.
Record(c) ==
  /\ call[c].pc \in {"record_denied", "record_failed"}
  /\ \/ /\ step' = [step EXCEPT ![c].status =
                      IF call[c].pc = "record_denied" THEN "denied" ELSE "failed"]
        /\ UNCHANGED faults
     \/ Fault /\ UNCHANGED step
  /\ IF call[c].pc = "record_denied" THEN Tell(c, "denied") ELSE To(c, "degrade")
  /\ UNCHANGED <<queue, parked, landed, levers>>

-----------------------------------------------------------------------------
\* The caller chose one of three policies before the call; nothing has read the
\* choice until now.  A scheduler's calls are queued ones.

\* refuse: the failure becomes a denial.
Refuse(c) ==
  /\ call[c].pc = "degrade" /\ ~call[c].claimed
  /\ Tell(c, "denied")
  /\ UNCHANGED <<store, landed, levers, faults>>

\* Parking again keeps the item, its resolution included.
ParkItem(c) == parked' = [parked EXCEPT ![KeyOf[c]] = IF @ = "none" THEN "open" ELSE @]

\* park_for_human.
ParkForHuman(c) ==
  /\ call[c].pc = "degrade" /\ ~call[c].claimed
  /\ \/ ParkItem(c) /\ Tell(c, "parked") /\ UNCHANGED faults
     \/ Fault /\ Tell(c, "denied") /\ UNCHANGED parked
  /\ UNCHANGED <<step, queue, landed, levers>>

\* One more failure than the queue allows.
Exhausted(c) == queue[KeyOf[c]].attempts + 1 > MaxQueueAttempts

\* queue, to its second store call: the count it read decides.
QueueRead(c) ==
  /\ call[c].pc = "degrade"
  /\ call' = [call EXCEPT ![c].pc = IF Exhausted(c) THEN "give_up" ELSE "enqueue",
                          ![c].seen = queue[KeyOf[c]].attempts]
  /\ UNCHANGED <<store, landed, levers, faults>>

\* enqueue replaces the entry under the key, whatever became of it meanwhile.
Enqueue(c) ==
  /\ call[c].pc = "enqueue"
  /\ \/ /\ queue' = [queue EXCEPT ![KeyOf[c]] =
                       [status |-> "queued", attempts |-> call[c].seen + 1]]
        /\ Tell(c, "queued") /\ UNCHANGED faults
     \/ Fault /\ Tell(c, "denied") /\ UNCHANGED queue
  /\ UNCHANGED <<step, parked, landed, levers>>

MutGiveUp(c) ==
  /\ call[c].pc = "give_up"
  /\ \/ /\ queue' = [queue EXCEPT ![KeyOf[c]].status = "abandoned"]
        /\ To(c, "release") /\ UNCHANGED <<parked, faults>>
     \/ Fault /\ Tell(c, "denied") /\ UNCHANGED <<parked, queue>>
  /\ UNCHANGED <<step, landed, levers>>

\* A queue that gives up parks first, and abandons its entry after.
GiveUp(c) ==
  /\ call[c].pc = "give_up"
  /\ \/ ParkItem(c) /\ To(c, "release") /\ UNCHANGED faults
     \/ Fault /\ Tell(c, "denied") /\ UNCHANGED parked
  /\ UNCHANGED <<step, queue, landed, levers>>

ReleaseQueued(c) ==
  /\ call[c].pc = "release"
  /\ \/ /\ queue' = [queue EXCEPT ![KeyOf[c]].status = "abandoned"]
        /\ Tell(c, "parked") /\ UNCHANGED faults
     \/ Fault /\ Tell(c, "denied") /\ UNCHANGED queue
  /\ UNCHANGED <<step, parked, landed, levers>>

\* The scheduler's completion of a claimed call that went through.
CompleteQueued(c) ==
  /\ call[c].pc = "complete"
  /\ \/ queue' = [queue EXCEPT ![KeyOf[c]].status = "completed"] /\ UNCHANGED faults
     \/ Fault /\ UNCHANGED queue
  /\ Tell(c, call[c].told)
  /\ UNCHANGED <<step, parked, landed, levers>>

-----------------------------------------------------------------------------
\* A process dies in a call; the record, the queue and the partner keep what
\* they have.
Crash(c) ==
  /\ call[c].pc \notin {"idle", "done"}
  /\ Fault
  /\ Tell(c, "lost")
  /\ UNCHANGED <<store, landed, levers>>

\* late counts a call's requests from the moment a stop takes effect.
FromHere == call' = IF Stopped THEN call ELSE [c \in Call |-> [call[c] EXCEPT !.late = 0]]

\* An operator contains the integration, or clears it.  The operator's process
\* forgets its answer; the others keep theirs.
Contain ==
  /\ ~paused /\ stops < MaxStops
  /\ paused' = TRUE /\ lingers' = TRUE /\ stops' = stops + 1
  /\ UNCHANGED <<call, store, landed, revoked, faults>>

Clear ==
  /\ paused
  /\ paused' = FALSE /\ lingers' = TRUE
  /\ UNCHANGED <<call, store, landed, revoked, stops, faults>>

\* A cache lifetime has passed since the switch was thrown: no process goes by
\* an answer read before.
Spread ==
  /\ lingers
  /\ lingers' = FALSE
  /\ FromHere
  /\ UNCHANGED <<store, landed, paused, revoked, stops, faults>>

\* A revocation stands: nothing restores the reference.
Revoke ==
  /\ ~revoked /\ stops < MaxStops
  /\ revoked' = TRUE /\ stops' = stops + 1
  /\ FromHere
  /\ UNCHANGED <<store, landed, paused, lingers, faults>>

\* A person closes a parked item.
ResolveParked(k) ==
  /\ parked[k] = "open"
  /\ parked' = [parked EXCEPT ![k] = "resolved"]
  /\ UNCHANGED <<call, step, queue, landed, levers, faults>>

Next ==
  \/ \E c \in Call :
       \/ Begin(c) \/ Claim(c) \/ Look(c) \/ Append(c) \/ Permit(c) \/ Credential(c)
       \/ \E performed \in BOOLEAN, answer \in {"ok", "retryable", "final"} :
            Request(c, performed, answer)
       \/ Patch(c) \/ Record(c)
       \/ Refuse(c) \/ ParkForHuman(c) \/ QueueRead(c) \/ Enqueue(c)
       \/ GiveUp(c) \/ ReleaseQueued(c) \/ CompleteQueued(c) \/ Crash(c)
  \/ Contain \/ Clear \/ Spread \/ Revoke
  \/ \E k \in Key : ResolveParked(k)

Spec == Init /\ [][Next]_vars

-----------------------------------------------------------------------------
\* Every effect is on the record, and the record and the answers are true: a request
\* goes out under a step already written; a step says succeeded, and a caller is told
\* that its effect happened, by its own request or by the lookup of someone else's, only
\* when the partner performed it, whatever write failed or process died in between.
RecordAndAnswersAreTrue ==
  /\ \A c \in Call : landed[c] => step[c].status # "none"
  /\ \A c \in Call : step[c].status = "succeeded" => landed[c]
  /\ \A c \in Call : call[c].told \in {"sent", "already"} => \E d \in SameKey(c) : landed[d]

\* A stop reaches calls in flight.  Once it has taken effect, a revocation at once and
\* a pause when its cache lifetime is over, a call makes one more request at most,
\* however many attempts it had left (egress.ts:357, 365; containment.ts:36).
StopReachesCalls == \A c \in Call : Stopped => call[c].late <= 1

\* Work the queue gave up is, or was, on a person's list, even if the process
\* that gave it up died between its two writes (degrade.ts:181).
GivenUpIsParked == \A k \in Key : queue[k].status = "abandoned" => parked[k] # "none"
=============================================================================
