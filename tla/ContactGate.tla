----------------------------- MODULE ContactGate -----------------------------
(***************************************************************************)
(* The outbound contact gate (contact/): no message reaches an owner but   *)
(* through clear(), which reads the consent ledger, the do-not-call lists  *)
(* and the messages already sent, spends the approval of the send, stores  *)
(* the clearance, and only then writes and attaches its receipt.  Each of  *)
(* these is a call of a store; between any two of them other calls run,    *)
(* under the same key or another, the owner opts out or in, the clock      *)
(* moves, or the process dies.  Any of them may fail, with its write done  *)
(* or not.                                                                 *)
(*                                                                         *)
(* One owner, one channel and one purpose: the questions the gate asks of  *)
(* one message never look at another's.  A blanket revocation counts as    *)
(* one of this channel and purpose.                                        *)
(***************************************************************************)
EXTENDS Integers, Sequences, FiniteSetsExt, Folds

CONSTANTS
  Call,        \* calls of clear(); a message has the identity of the call that made it
  Key,         \* idempotency keys
  Approval,    \* approvals granted for this message, each single use
  Quiet,       \* the times inside quiet hours where the owner lives
  Window, Cap, \* a frequency cap: so many messages in so long
  Listing,     \* do-not-call entries that may be put: from when, until when
  MaxTime,     \* bound on the clock
  MaxEvents,   \* bound on the consent ledger
  MaxFaults    \* bound on store and audit calls that fail

ASSUME GateAssumption ==
  /\ {Window, Cap, MaxTime, MaxEvents, MaxFaults} \subseteq Nat
  /\ Quiet \subseteq Nat
  /\ Listing \subseteq Nat \X Nat

VARIABLES
  now,       \* the clock
  ledger,    \* consent events, in the order they were appended
  listing,   \* the owner's do-not-call entry
  message,   \* rows of the outbound record, by the call that made them
  passed,    \* contact.gate_passed audit entries naming each message
  spent,     \* approvals consumed
  call,      \* calls of clear()
  faults     \* store and audit calls that failed so far

vars == <<now, ledger, listing, message, passed, spent, call, faults>>

Time == 0 .. MaxTime

Event == [kind : {"granted", "revoked"}, effective : Nat, recorded : Nat, receipt : BOOLEAN]

Unlisted == [listed |-> FALSE]
Entry == [listed : {TRUE}, from : Nat, until : Nat]

\* A clearance and the evidence it was decided from: when, and how much of the ledger
\* there was.
Clearance == [status : {"cleared"}, key : Key, approval : Approval, at : Nat,
              upto : Nat, receipt : BOOLEAN]
NoMessage == [status |-> "none"]
Refusal == [status : {"blocked"}, receipt : BOOLEAN]

Fresh == [pc |-> "idle"]
Working == [pc : {"consent", "list", "count", "authorize", "record", "block", "refuse",
                  "seal", "attach"},
            key : Key, approval : Approval, at : Nat, upto : Nat,
            allowed : BOOLEAN, target : Call]
Ended == [pc : {"done"}, told : {"cleared", "replayed", "denied", "failed"}, target : Call]

\* An event may be dated back, never ahead of the moment it is recorded.
TypeOK ==
  /\ now \in Nat
  /\ ledger \in Seq(Event)
  /\ \A i \in DOMAIN ledger :
       ledger[i].effective <= ledger[i].recorded /\ ledger[i].recorded <= now
  /\ listing \in Entry \cup {Unlisted}
  /\ message \in [Call -> Clearance \cup Refusal \cup {NoMessage}]
  /\ passed \in [Call -> Nat]
  /\ spent \subseteq Approval
  /\ call \in [Call -> Working \cup Ended \cup {Fresh}]
  /\ faults \in Nat

Init ==
  /\ now = 0
  /\ ledger = <<>>
  /\ listing = Unlisted
  /\ message = [c \in Call |-> NoMessage]
  /\ passed = [c \in Call |-> 0]
  /\ spent = {}
  /\ call = [c \in Call |-> Fresh]
  /\ faults = 0

-----------------------------------------------------------------------------
(* What the checks compute. *)

\* compareConsentEvents.  Events with both times alike are told apart by their ids,
\* which say nothing of either: which of them is last is left open.
Earlier(e, f) ==
  \/ e.effective < f.effective
  \/ e.effective = f.effective /\ e.recorded < f.recorded

LaterOnBothClocks(g, r) == g.effective > r.effective /\ g.recorded > r.recorded

Nobody == [kind |-> "never_given"]

\* One step of the fold: a grant that is not later on both clocks leaves a
\* revocation governing.
Govern(governing, event) ==
  IF governing.kind = "revoked" /\ event.kind = "granted"
       /\ ~LaterOnBothClocks(event, governing)
  THEN governing
  ELSE event

MutInForce(events, t) == {i \in DOMAIN events : events[i].effective <= t /\ events[i].receipt}

InForce(events, t) == {i \in DOMAIN events : events[i].effective <= t}

LastOf(events, S) == CHOOSE i \in S : \A j \in S : ~Earlier(events[i], events[j])

\* deriveConsentState: the fold over the events in force, in their order.
DeriveConsentState(events, t) ==
  MapThenFoldSet(LAMBDA event, governing : Govern(governing, event), Nobody,
                 LAMBDA i : events[i], LAMBDA S : LastOf(events, S),
                 InForce(events, t)).kind

\* The consent and revocation checks: some grant has its receipt, and no revocation
\* governs, with its receipt or without.
ConsentPasses(events, t) ==
  /\ \E i \in DOMAIN events :
       events[i].kind = "granted" /\ events[i].effective <= t /\ events[i].receipt
  /\ DeriveConsentState(events, t) # "revoked"

\* suppressionApplies.
Bites(entry, t) == entry.listed /\ entry.from <= t /\ t < entry.until

\* assertSuppressionNotWeakened: an entry may not end sooner than it did.
NotWeakened(entry, until) == entry.listed => until >= entry.until

Cleared == {c \in Call : message[c].status = "cleared"}

\* countMessagesSince: the window includes its lower bound.
SentSince(t) == Cardinality({c \in Cleared : message[c].at >= t})

WithinCap(t) == SentSince(t - Window) < Cap

MutHolder(k) == {c \in Cleared : message[c].key = k /\ message[c].receipt}

\* The clearance stored under a key, if there is one.
Holder(k) == {c \in Cleared : message[c].key = k}

-----------------------------------------------------------------------------
Stay == UNCHANGED <<now, ledger, listing>>

Fail == faults < MaxFaults /\ faults' = faults + 1

Goto(c, pc) == call' = [call EXCEPT ![c].pc = pc]

End(c, told, target) ==
  call' = [call EXCEPT ![c] = [pc |-> "done", told |-> told, target |-> target]]

MutAdopt(c, working, d) == End(c, "replayed", d)

\* A clearance was found, by the lookup or in place of the one to be stored: with its
\* receipt it is the answer, without it is inert, and this call finishes it.
Adopt(c, working, d) ==
  IF message[d].receipt
  THEN End(c, "replayed", d)
  ELSE call' = [call EXCEPT ![c] = [working EXCEPT !.pc = "seal", !.target = d]]

\* clear(): the lookup by key, and the start of evaluate(), which reads the clock.
Look(c, k, a) ==
  LET working == [pc |-> "consent", key |-> k, approval |-> a,
                  at |-> now, upto |-> Len(ledger),
                  allowed |-> now \notin Quiet, target |-> c]
  IN
  /\ call[c] = Fresh
  /\ Stay /\ UNCHANGED <<message, passed, spent>>
  /\ \/ /\ Holder(k) = {}
        /\ call' = [call EXCEPT ![c] = working]
        /\ UNCHANGED faults
     \/ /\ \E d \in Holder(k) : Adopt(c, working, d)
        /\ UNCHANGED faults
     \/ Fail /\ End(c, "failed", c)

\* answer(): a check whose source cannot be read has not passed.
Answer(c, passes, next, otherwise) ==
  /\ Stay /\ UNCHANGED <<message, passed, spent>>
  /\ \E allowed \in BOOLEAN :
       /\ \/ allowed = (call[c].allowed /\ passes) /\ UNCHANGED faults
          \/ allowed = FALSE /\ Fail
       /\ call' = [call EXCEPT ![c].allowed = allowed,
                               ![c].pc = IF allowed THEN next ELSE otherwise]

Consent(c) ==
  /\ call[c].pc = "consent"
  /\ Answer(c, ConsentPasses(ledger, call[c].at), "list", "list")

DoNotCall(c) ==
  /\ call[c].pc = "list"
  /\ Answer(c, ~Bites(listing, call[c].at), "count", "count")

FrequencyCap(c) ==
  /\ call[c].pc = "count"
  /\ Answer(c, WithinCap(call[c].at), "authorize", "block")

MutSpendable(c) == TRUE

Spendable(c) == call[c].approval \notin spent

\* The chokepoint: it may refuse for any of its own reasons before the approval is
\* spent, and for want of its audit entry after.
Authorize(c) ==
  /\ call[c].pc = "authorize"
  /\ Stay /\ UNCHANGED <<message, passed>>
  /\ \/ /\ Spendable(c)
        /\ spent' = spent \cup {call[c].approval}
        /\ \/ Goto(c, "record") /\ UNCHANGED faults
           \/ Goto(c, "block") /\ Fail
     \/ Goto(c, "block") /\ UNCHANGED <<spent, faults>>

\* A write of the call that may fail, done or not; the caller hears an error.
Write(c, done, then, undone) ==
  \/ done /\ then /\ UNCHANGED faults
  \/ (done \/ undone) /\ Fail /\ End(c, "failed", c)

\* recordOutboundMessage: only the first clearance under a key is stored.
Record(c) ==
  LET row == [status |-> "cleared", key |-> call[c].key, approval |-> call[c].approval,
              at |-> call[c].at, upto |-> call[c].upto,
              receipt |-> FALSE]
  IN
  /\ call[c].pc = "record"
  /\ Stay /\ UNCHANGED <<passed, spent>>
  /\ \/ /\ Holder(call[c].key) = {}
        /\ Write(c, message' = [message EXCEPT ![c] = row],
                 Goto(c, "seal"),
                 UNCHANGED message)
     \/ \E d \in Holder(call[c].key) :
          Write(c, UNCHANGED message, Adopt(c, call[c], d), UNCHANGED message)

\* finalise(): the audit entry of the clearance, then its receipt on the row.
Seal(c) ==
  /\ call[c].pc = "seal"
  /\ Stay /\ UNCHANGED <<message, spent>>
  /\ Write(c, passed' = [passed EXCEPT ![call[c].target] = @ + 1],
           Goto(c, "attach"),
           UNCHANGED passed)

Attach(c) ==
  LET d == call[c].target
  IN
  /\ call[c].pc = "attach"
  /\ Stay /\ UNCHANGED <<passed, spent>>
  /\ Write(c, message' = [message EXCEPT ![d].receipt = TRUE],
           End(c, IF d = c THEN "cleared" ELSE "replayed", d),
           UNCHANGED message)

\* persistBlocked: the blocked row, then its audit entry and receipt, then the refusal.
Block(c) ==
  /\ call[c].pc = "block"
  /\ Stay /\ UNCHANGED <<passed, spent>>
  /\ Write(c, message' = [message EXCEPT ![c] = [status |-> "blocked", receipt |-> FALSE]],
           Goto(c, "refuse"),
           UNCHANGED message)

MutRefuse(c) ==
  /\ call[c].pc = "refuse"
  /\ Stay /\ UNCHANGED <<passed, spent>>
  /\ End(c, "denied", c) /\ UNCHANGED <<message, faults>>

Refuse(c) ==
  /\ call[c].pc = "refuse"
  /\ Stay /\ UNCHANGED <<passed, spent>>
  /\ Write(c, message' = [message EXCEPT ![c].receipt = TRUE],
           End(c, "denied", c),
           UNCHANGED message)

\* The process serving the call dies.
Crash(c) ==
  /\ call[c].pc \notin {"idle", "done"}
  /\ End(c, "failed", c)
  /\ Stay /\ UNCHANGED <<message, passed, spent, faults>>

-----------------------------------------------------------------------------
(* The ledger, the lists and the clock. *)

Outside == UNCHANGED <<message, passed, spent, call, faults>>

\* ConsentLedger.record: the event is appended first, dated by whoever brings it, not
\* in the future.
RecordConsent(kind, effective) ==
  /\ Len(ledger) < MaxEvents /\ effective <= now
  /\ ledger' = Append(ledger, [kind |-> kind, effective |-> effective,
                               recorded |-> now, receipt |-> FALSE])
  /\ Outside /\ UNCHANGED <<now, listing>>

\* Then its audit entry is written and its receipt attached, unless a failure or a
\* crash comes between: no step need follow.
AttachConsentReceipt(i) ==
  /\ ~ledger[i].receipt
  /\ ledger' = [ledger EXCEPT ![i].receipt = TRUE]
  /\ Outside /\ UNCHANGED <<now, listing>>

\* ConsentLedger.suppress: the entry is replaced, its first day included.
Suppress(from, until) ==
  /\ from < until /\ NotWeakened(listing, until)
  /\ listing' = [listed |-> TRUE, from |-> from, until |-> until]
  /\ Outside /\ UNCHANGED <<now, ledger>>

Tick ==
  /\ now < MaxTime
  /\ now' = now + 1
  /\ Outside /\ UNCHANGED <<ledger, listing>>

Next ==
  \/ \E c \in Call :
       \/ \E k \in Key, a \in Approval : Look(c, k, a)
       \/ Consent(c) \/ DoNotCall(c) \/ FrequencyCap(c) \/ Authorize(c) \/ Record(c)
       \/ Seal(c) \/ Attach(c) \/ Block(c) \/ Refuse(c) \/ Crash(c)
  \/ \E kind \in {"granted", "revoked"}, effective \in Time : RecordConsent(kind, effective)
  \/ \E i \in DOMAIN ledger : AttachConsentReceipt(i)
  \/ \E l \in Listing : Suppress(l[1], l[2])
  \/ Tick

Spec == Init /\ [][Next]_vars

-----------------------------------------------------------------------------
\* One owner, one message: whatever callers race or retry one key, one clearance is
\* stored under it.
OneMessagePerKey ==
  \A c, d \in Cleared : message[c].key = message[d].key => c = d

\* What a caller may deliver against is a stored clearance with its receipt, and a
\* receipt stands for an audit entry, whoever wrote them and whatever failed between;
\* and no entry names a message that was never stored (gate.ts:571).
DeliverableMeansEvidenced ==
  /\ \A c \in Call : call[c].pc = "done" /\ call[c].told \in {"cleared", "replayed"} =>
       call[c].target \in Cleared /\ message[call[c].target].receipt
  /\ \A c \in Cleared : message[c].receipt => passed[c] > 0
  /\ \A c \in Call : passed[c] > 0 => c \in Cleared

\* A supervisor's approval sends one message: each clearance has consumed its own,
\* though nothing in an approval names a key.
ApprovalSendsOneMessage ==
  /\ \A c \in Cleared : message[c].approval \in spent
  /\ \A c, d \in Cleared : message[c].approval = message[d].approval => c = d

Prefix(n) == SubSeq(ledger, 1, n)

\* The latest revocation in force at t among the first n events.
Revoked(n, t) == {i \in 1 .. n : ledger[i].kind = "revoked" /\ ledger[i].effective <= t}
LatestRevocation(n, t) ==
  {i \in Revoked(n, t) : \A j \in Revoked(n, t) : ~Earlier(ledger[i], ledger[j])}

\* A grant in force at t that no latest revocation stands against.
Consenting(n, t) ==
  {i \in 1 .. n : /\ ledger[i].kind = "granted" /\ ledger[i].effective <= t
                  /\ \A r \in LatestRevocation(n, t) : LaterOnBothClocks(ledger[i], ledger[r])}

\* An opt-out recorded before a message was evaluated stops it, with its receipt or
\* without, however it is dated and whatever grants are imported around it: only a
\* grant later than the latest revocation on both clocks lets a message through, and
\* some grant has its receipt.
OptOutStops ==
  \A c \in Cleared : \E n \in message[c].upto .. Len(ledger) :
    /\ Consenting(n, message[c].at) # {}
    /\ \E i \in 1 .. n : ledger[i].kind = "granted" /\ ledger[i].receipt

\* A refusal of a check or of the chokepoint is on the record, with its receipt, before
\* the caller hears of it (gate.ts:513).
RefusalsAreRecorded ==
  \A c \in Call : call[c].pc = "done" /\ call[c].told = "denied" =>
    message[c].status = "blocked" /\ message[c].receipt
=============================================================================
