------------------------------ MODULE Approvals ------------------------------
(***************************************************************************)
(* The approval service (guard/approvals.ts) over its store                *)
(* (guard/store.memory.ts, guard/store.pg.ts).                             *)
(*                                                                         *)
(* Each store call is atomic; a service call is not.  decide reads the     *)
(* row, computes the next status from what it read, and writes in a second *)
(* store call; consume reads the row, checks it, and spends it in a second *)
(* store call, then writes the audit entry.  A call in flight between two  *)
(* store calls is a record of decideCall or consumeCall, so that calls     *)
(* interleave with each other, with the expiry sweep and with the clock.   *)
(***************************************************************************)
EXTENDS Integers, FiniteSets

CONSTANTS
  ApprovalId,    \* ids the generator may hand out
  Actor,         \* people: requesters and approvers
  DecideCall,    \* decisions in flight at once (HTTP requests, CLI commands)
  Execution,     \* attempts to spend an approval
  Digest,        \* digests of proposals
  Action,        \* registered actions
  Unchecked,     \* consume's optional expectedAction, left out
  StepUpAction,  \* the actions whose grants need a fresh re-authentication
  MaxRequired,   \* bound on approvalsRequired
  Ttl,           \* how long a request stays open
  MaxTime        \* bound on the clock

ASSUME ApprovalAssumption ==
  /\ MaxRequired \in Nat \ {0}
  /\ Ttl \in Nat
  /\ MaxTime \in Nat
  /\ StepUpAction \subseteq Action
  /\ Unchecked \notin Action
  /\ IsFiniteSet(Actor)

VARIABLES
  approval,     \* the store's rows
  decideCall,   \* decide calls between their read and their write
  consumeCall,  \* consume calls
  now           \* the clock

vars == <<approval, decideCall, consumeCall, now>>

Idle == [pc |-> "idle"]          \* a call slot not in use
Absent == [status |-> "none"]    \* no row under this id

\* A row of the approval table.  The decisions list is kept as the set of actors
\* who granted and the set who rejected, the store taking one decision from each.
Row == [status : {"pending", "granted", "rejected", "expired", "consumed"},
        digest : Digest, action : Action, requestedBy : Actor,
        required : 1..MaxRequired, eligible : SUBSET Actor, expiresAt : Nat,
        granted : SUBSET Actor, rejected : SUBSET Actor]

\* A decide call that has read the row and not yet written its decision.
Deciding ==
  [pc : {"read"}, id : ApprovalId, actor : Actor,
   decision : {"granted", "rejected"},
   nextStatus : {"pending", "granted", "rejected"}]

\* A consume call: its checks passed, it won the row, its audit entry was
\* written (the caller goes on to act) or could not be (the caller may not).
Consuming ==
  [pc : {"checked", "spent", "performed", "burned"}, id : ApprovalId,
   digest : Digest, action : Action \cup {Unchecked}]

TypeOK ==
  /\ approval \in [ApprovalId -> Row \cup {Absent}]
  /\ decideCall \in [DecideCall -> Deciding \cup {Idle}]
  /\ consumeCall \in [Execution -> Consuming \cup {Idle}]
  /\ now \in Nat

Init ==
  /\ approval = [id \in ApprovalId |-> Absent]
  /\ decideCall = [d \in DecideCall |-> Idle]
  /\ consumeCall = [e \in Execution |-> Idle]
  /\ now = 0

-----------------------------------------------------------------------------
PastExpiry(id) == now > approval[id].expiresAt

Decided(id) == approval[id].granted \cup approval[id].rejected

MutDueUndecided(id) ==
  approval[id].status = "pending" /\ PastExpiry(id) /\ Decided(id) = {}

\* The rows expireApprovals sweeps: only pending ones, strictly past expiry.
Due(id) == approval[id].status = "pending" /\ PastExpiry(id)

ExpireApprovals ==
  approval' = [id \in ApprovalId |->
                IF Due(id) THEN [approval[id] EXCEPT !.status = "expired"]
                           ELSE approval[id]]

MutTakesRepeat(id, actor) == approval[id].status = "pending"
MutTakesClosed(id, actor) == actor \notin Decided(id)

\* recordApprovalDecision takes a decision on a row still pending, from an actor
\* who has not decided on it.
Takes(id, actor) ==
  approval[id].status = "pending" /\ actor \notin Decided(id)

\* What the store writes: the decision, and the status the caller computed.
RecordDecision(id, actor, decision, nextStatus) ==
  approval' = [approval EXCEPT
    ![id].status = nextStatus,
    ![id].granted = IF decision = "granted" THEN @ \cup {actor} ELSE @,
    ![id].rejected = IF decision = "rejected" THEN @ \cup {actor} ELSE @]

-----------------------------------------------------------------------------
\* request: park an action for a human decision.
Request(id, digest, action, requestedBy, required, eligible) ==
  /\ approval[id] = Absent
  /\ now + Ttl < MaxTime    \* bound: the clock can still run past its expiry
  /\ eligible # {}
  /\ approval' = [approval EXCEPT ![id] =
                    [status |-> "pending", digest |-> digest, action |-> action,
                     requestedBy |-> requestedBy, required |-> required,
                     eligible |-> eligible, expiresAt |-> now + Ttl,
                     granted |-> {}, rejected |-> {}]]
  /\ UNCHANGED <<decideCall, consumeCall, now>>

\* The status a decision asks the store for, computed from the row as read.
NextStatus(id, decision) ==
  IF decision = "rejected" THEN "rejected"
  ELSE IF Cardinality(approval[id].granted) + 1 >= approval[id].required
       THEN "granted" ELSE "pending"

MutMayDecide(id, actor) == actor \in approval[id].eligible

\* Segregation of duties, and a role eligible to approve.
MayDecide(id, actor) ==
  actor # approval[id].requestedBy /\ actor \in approval[id].eligible

\* decide, up to its write: every check passes on the row as read.
DecideRead(d, id, actor, decision, steppedUp) ==
  /\ decideCall[d] = Idle
  /\ approval[id].status = "pending"
  /\ ~PastExpiry(id)
  /\ MayDecide(id, actor)
  /\ decision = "granted" /\ approval[id].action \in StepUpAction => steppedUp
  /\ decideCall' = [decideCall EXCEPT ![d] =
                      [pc |-> "read", id |-> id, actor |-> actor, decision |-> decision,
                       nextStatus |-> NextStatus(id, decision)]]
  /\ UNCHANGED <<approval, consumeCall, now>>

\* decide on a row past its expiry: sweeps what is due, then refuses.
DecideLate(id) ==
  /\ approval[id].status = "pending"
  /\ PastExpiry(id)
  /\ ExpireApprovals
  /\ UNCHANGED <<decideCall, consumeCall, now>>

\* decide's write: the store takes it from an actor who has not decided, while
\* the row is pending, and refuses it otherwise.
DecideRecord(d) ==
  LET call == decideCall[d] IN
  /\ call # Idle
  /\ decideCall' = [decideCall EXCEPT ![d] = Idle]
  /\ IF Takes(call.id, call.actor)
     THEN RecordDecision(call.id, call.actor, call.decision, call.nextStatus)
     ELSE UNCHANGED approval
  /\ UNCHANGED <<consumeCall, now>>

\* The approval was raised for this proposal and, when the caller names it, for
\* this action.
Binds(id, digest, action) ==
  approval[id].digest = digest /\ action \in {approval[id].action, Unchecked}

\* consume, up to the compare-and-set: digest, action, status and expiry.
ConsumeCheck(e, id, digest, action) ==
  /\ consumeCall[e] = Idle
  /\ approval[id].status = "granted"
  /\ Binds(id, digest, action)
  /\ ~PastExpiry(id)
  /\ consumeCall' = [consumeCall EXCEPT ![e] =
                       [pc |-> "checked", id |-> id, digest |-> digest, action |-> action]]
  /\ UNCHANGED <<approval, decideCall, now>>

MutSpendable(id) == approval[id].status \in {"granted", "consumed"}

\* consumeApproval's compare-and-set: one caller finds the row granted.
Spendable(id) == approval[id].status = "granted"

ConsumeSpend(e) ==
  LET call == consumeCall[e] IN
  /\ call.pc = "checked"
  /\ IF Spendable(call.id)
     THEN /\ approval' = [approval EXCEPT ![call.id].status = "consumed"]
          /\ consumeCall' = [consumeCall EXCEPT ![e].pc = "spent"]
     ELSE /\ consumeCall' = [consumeCall EXCEPT ![e] = Idle]
          /\ UNCHANGED approval
  /\ UNCHANGED <<decideCall, now>>

\* The audit entry after the spend: without it consume throws, and the caller
\* does not act on an approval that is spent all the same.
ConsumeAudit(e) ==
  /\ consumeCall[e].pc = "spent"
  /\ \E outcome \in {"performed", "burned"} :
       consumeCall' = [consumeCall EXCEPT ![e].pc = outcome]
  /\ UNCHANGED <<approval, decideCall, now>>

\* expireDue, the approvals.expire pass of the maintenance loop.
ExpireDue ==
  /\ ExpireApprovals
  /\ UNCHANGED <<decideCall, consumeCall, now>>

\* A process dies with a call in flight; the store keeps what was written.
CrashDecide(d) ==
  /\ decideCall[d] # Idle
  /\ decideCall' = [decideCall EXCEPT ![d] = Idle]
  /\ UNCHANGED <<approval, consumeCall, now>>

CrashConsume(e) ==
  /\ consumeCall[e].pc \in {"checked", "spent"}
  /\ consumeCall' = [consumeCall EXCEPT ![e] =
                       IF @.pc = "checked" THEN Idle
                       ELSE [pc |-> "burned", id |-> @.id, digest |-> @.digest,
                             action |-> @.action]]
  /\ UNCHANGED <<approval, decideCall, now>>

Tick ==
  /\ now < MaxTime
  /\ now' = now + 1
  /\ UNCHANGED <<approval, decideCall, consumeCall>>

Next ==
  \/ \E id \in ApprovalId, digest \in Digest, action \in Action, who \in Actor,
        required \in 1..MaxRequired, eligible \in SUBSET Actor :
       Request(id, digest, action, who, required, eligible)
  \/ \E d \in DecideCall, id \in ApprovalId, actor \in Actor,
        decision \in {"granted", "rejected"}, steppedUp \in BOOLEAN :
       DecideRead(d, id, actor, decision, steppedUp)
  \/ \E id \in ApprovalId : DecideLate(id)
  \/ \E d \in DecideCall : DecideRecord(d) \/ CrashDecide(d)
  \/ \E e \in Execution, id \in ApprovalId, digest \in Digest,
        action \in Action \cup {Unchecked} :
       ConsumeCheck(e, id, digest, action)
  \/ \E e \in Execution : ConsumeSpend(e) \/ ConsumeAudit(e) \/ CrashConsume(e)
  \/ ExpireDue
  \/ Tick

Spec == Init /\ [][Next]_vars

\* The maintenance loop runs its passes forever, and time passes.
Fairness == WF_vars(ExpireDue) /\ WF_vars(Tick)
FairSpec == Spec /\ Fairness

-----------------------------------------------------------------------------
\* An execution whose compare-and-set won the approval, whatever came after.
Spent(e, id) ==
  consumeCall[e] # Idle /\ consumeCall[e].pc # "checked" /\ consumeCall[e].id = id

\* An approval that is or was granted carries at least the grants it requires,
\* all from eligible people other than its requester: decide computes the next
\* status from a row that may have changed by the time it is written.
GrantedByQuorum ==
  \A id \in ApprovalId :
    approval[id].status \in {"granted", "consumed"} =>
      /\ Cardinality(approval[id].granted) >= approval[id].required
      /\ approval[id].granted \subseteq approval[id].eligible \ {approval[id].requestedBy}

\* Single use: of all the executions that ever present an approval, at most one
\* wins it, and the row says so.
SingleUse ==
  \A id \in ApprovalId :
    /\ \A e, f \in Execution : Spent(e, id) /\ Spent(f, id) => e = f
    /\ (\E e \in Execution : Spent(e, id)) => approval[id].status = "consumed"

\* What is performed is what was approved: its digest and, when checked, its
\* action are those of an approval that a quorum granted and nobody rejected.
PerformsWhatWasApproved ==
  \A e \in Execution : consumeCall[e].pc = "performed" =>
    LET call == consumeCall[e]
        row == approval[call.id]
    IN /\ call.digest = row.digest
       /\ call.action \in {row.action, Unchecked}
       /\ row.rejected = {}
       /\ Cardinality(row.granted) >= row.required

\* One rejection is decisive: no decision written later, by a call that read the
\* row before it, reopens the request, and no execution ever holds it.
RejectionIsDecisive ==
  \A id \in ApprovalId : approval[id] # Absent /\ approval[id].rejected # {} =>
    /\ approval[id].status = "rejected"
    /\ \A e \in Execution : consumeCall[e] # Idle => consumeCall[e].id # id

\* Every request leaves the pending state: it is decided, or the maintenance
\* loop expires it, whatever decisions it has gathered and whoever crashed.
EveryRequestSettles ==
  \A id \in ApprovalId :
    approval[id].status = "pending" ~> approval[id].status # "pending"

-----------------------------------------------------------------------------
\* The abstract authority this service implements: what each approval allows,
\* who backed it, who holds it, and who has acted on it.
Stage(id) ==
  CASE approval[id].status = "none" -> "absent"
    [] approval[id].status = "pending" -> "open"
    [] approval[id].status = "granted" -> "authorised"
    [] approval[id].status = "consumed" -> "spent"
    [] OTHER -> "closed"

Terms(id) ==
  IF approval[id] = Absent THEN Absent
  ELSE [proposal |-> approval[id].digest, asker |-> approval[id].requestedBy,
        needed |-> approval[id].required]

Authority == INSTANCE SingleUseAuthority WITH
  Id <- ApprovalId, Person <- Actor, Holder <- Execution, Proposal <- Digest,
  MaxNeeded <- MaxRequired, NoTerms <- Absent,
  stage <- [id \in ApprovalId |-> Stage(id)],
  terms <- [id \in ApprovalId |-> Terms(id)],
  backers <- [id \in ApprovalId |->
               IF approval[id] = Absent THEN {} ELSE approval[id].granted],
  holders <- [id \in ApprovalId |-> {e \in Execution : Spent(e, id)}],
  acts <- {<<e, consumeCall[e].digest>> :
             e \in {f \in Execution : consumeCall[f].pc = "performed"}}

\* The service implements the abstract authority.
ImplementsAuthority == Authority!Spec
=============================================================================
