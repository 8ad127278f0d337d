-------------------------- MODULE ContactGateProofs --------------------------
(***************************************************************************)
(* The safety of the contact gate for any number of calls, keys and        *)
(* approvals, any ledger and any failures: one message per key, nothing    *)
(* deliverable without its evidence, no refusal off the record, one        *)
(* message per approval, no opt-out overlooked.                            *)
(***************************************************************************)
EXTENDS ContactGate, FiniteSetTheorems, TLAPS

\* A call that has not written a row has none.
Unrecorded ==
  \A c \in Call :
    call[c].pc \in {"idle", "consent", "list", "count", "authorize", "record", "block"} =>
      message[c] = NoMessage

\* A call that finishes a clearance finishes one that is stored, and attaches its
\* receipt after the entry it stands for.
Finishing ==
  \A c \in Call :
    /\ call[c].pc \in {"seal", "attach"} => call[c].target \in Cleared
    /\ call[c].pc = "attach" => passed[call[c].target] > 0

\* Until a call finds someone else's clearance its message is its own.
Itself ==
  \A c \in Call :
    call[c].pc \in {"consent", "list", "count", "authorize", "record"} => call[c].target = c

Refusing == \A c \in Call : call[c].pc = "refuse" => message[c].status = "blocked"

\* A call about to store its clearance holds an approval nobody else has used.
Holding ==
  \A c \in Call : call[c].pc = "record" =>
    /\ call[c].approval \in spent
    /\ \A d \in Cleared : message[d].approval # call[c].approval
    /\ \A d \in Call : call[d].pc = "record" /\ call[d].approval = call[c].approval => d = c

Inv ==
  /\ TypeOK
  /\ Unrecorded /\ Itself /\ Finishing /\ Refusing /\ Holding
  /\ OneMessagePerKey
  /\ ApprovalSendsOneMessage
  /\ DeliverableMeansEvidenced
  /\ RefusalsAreRecorded

-----------------------------------------------------------------------------
\* A call at work moved to another step is a call at work.
LEMMA GotoTyped ==
  ASSUME TypeOK, NEW c \in Call, call[c] \in Working,
         NEW pc \in {"consent", "list", "count", "authorize", "record", "block", "refuse",
                     "seal", "attach"},
         Goto(c, pc)
  PROVE  call' \in [Call -> Working \cup Ended \cup {Fresh}]
BY DEF Goto, TypeOK, Working

LEMMA EndTyped ==
  ASSUME TypeOK, NEW c \in Call, NEW target \in Call,
         NEW told \in {"cleared", "replayed", "denied", "failed"}, End(c, told, target)
  PROVE  call' \in [Call -> Working \cup Ended \cup {Fresh}]
BY DEF End, TypeOK, Ended

LEMMA AdoptTyped ==
  ASSUME TypeOK, NEW c \in Call, NEW working \in Working, NEW d \in Call, Adopt(c, working, d)
  PROVE  call' \in [Call -> Working \cup Ended \cup {Fresh}]
<1>1. CASE message[d].receipt
  BY <1>1, EndTyped DEF Adopt
<1>2. CASE ~message[d].receipt
  <2>1. [working EXCEPT !.pc = "seal", !.target = d] \in Working
    BY DEF Working
  <2> QED
    BY <1>2, <2>1 DEF Adopt, TypeOK
<1> QED
  BY <1>1, <1>2

\* Every call at a step of clear() is at work.
LEMMA AtWork ==
  ASSUME TypeOK, NEW c \in Call, call[c].pc \notin {"idle", "done"}
  PROVE  call[c] \in Working
BY DEF TypeOK, Ended, Fresh

\* The parts of the state a step of a call leaves alone keep their types.
LEMMA StayTyped ==
  ASSUME TypeOK, Stay
  PROVE  /\ now' \in Nat
         /\ ledger' \in Seq(Event)
         /\ \A i \in DOMAIN ledger' :
              ledger'[i].effective <= ledger'[i].recorded /\ ledger'[i].recorded <= now'
         /\ listing' \in Entry \cup {Unlisted}
BY DEF TypeOK, Stay

LEMMA FaultTyped ==
  ASSUME TypeOK, Fail \/ UNCHANGED faults
  PROVE  faults' \in Nat
BY DEF TypeOK, Fail

\* Putting a row of its type into the outbound record.
LEMMA RowTyped ==
  ASSUME TypeOK, NEW c \in Call, NEW row \in Clearance \cup Refusal \cup {NoMessage},
         message' = [message EXCEPT ![c] = row]
  PROVE  message' \in [Call -> Clearance \cup Refusal \cup {NoMessage}]
BY DEF TypeOK

\* A receipt attached to a row that is there.
LEMMA ReceiptTyped ==
  ASSUME TypeOK, NEW c \in Call, message' = [message EXCEPT ![c].receipt = TRUE]
  PROVE  message' \in [Call -> Clearance \cup Refusal \cup {NoMessage}]
<1>1. CASE message[c] \in Clearance
  <2>1. [message[c] EXCEPT !.receipt = TRUE] \in Clearance
    BY <1>1 DEF Clearance
  <2> QED
    BY <2>1 DEF TypeOK
<1>2. CASE message[c] \in Refusal
  <2>1. [message[c] EXCEPT !.receipt = TRUE] \in Refusal
    BY <1>2 DEF Refusal
  <2> QED
    BY <2>1 DEF TypeOK
<1>3. CASE message[c] = NoMessage
  <2>1. [NoMessage EXCEPT !.receipt = TRUE] = NoMessage
    BY DEF NoMessage
  <2> QED
    BY <1>3, <2>1 DEF TypeOK
<1> QED
  BY <1>1, <1>2, <1>3 DEF TypeOK

\* A check answered, or not, keeps the state of its type.
LEMMA AnswerTyped ==
  ASSUME TypeOK, NEW c \in Call, call[c] \in Working, NEW passes,
         NEW next \in {"list", "count", "authorize"}, NEW otherwise \in {"list", "count", "block"},
         Answer(c, passes, next, otherwise)
  PROVE  TypeOK'
<1>1. PICK allowed \in BOOLEAN :
        call' = [call EXCEPT ![c].allowed = allowed, ![c].pc = IF allowed THEN next ELSE otherwise]
  BY DEF Answer
<1>2. call' \in [Call -> Working \cup Ended \cup {Fresh}]
  BY <1>1 DEF TypeOK, Working
<1>3. Stay /\ UNCHANGED <<message, passed, spent>> /\ (Fail \/ UNCHANGED faults)
  BY DEF Answer
<1> QED
  BY <1>2, <1>3, StayTyped, FaultTyped DEF TypeOK

\* Every step keeps the state of its type.
LEMMA TypeStep == TypeOK /\ [Next]_vars => TypeOK'
<1> SUFFICES ASSUME TypeOK, [Next]_vars PROVE TypeOK'
  OBVIOUS
<1>1. ASSUME NEW c \in Call, NEW k \in Key, NEW a \in Approval, Look(c, k, a)
      PROVE  TypeOK'
  <2> DEFINE working == [pc |-> "consent", key |-> k, approval |-> a,
                         at |-> now, upto |-> Len(ledger),
                         allowed |-> now \notin Quiet, target |-> c]
  <2>1. working \in Working
    BY DEF Working, TypeOK, Cleared
  <2>2. call' \in [Call -> Working \cup Ended \cup {Fresh}]
    <3>1. CASE call' = [call EXCEPT ![c] = working]
      BY <2>1, <3>1 DEF TypeOK
    <3>2. CASE \E d \in Holder(k) : Adopt(c, working, d)
      BY <2>1, <3>2, AdoptTyped DEF Holder, Cleared
    <3>3. CASE End(c, "failed", c)
      BY <3>3, EndTyped
    <3> QED
      BY <1>1, <3>1, <3>2, <3>3 DEF Look
  <2>3. Stay /\ UNCHANGED <<message, passed, spent>> /\ (Fail \/ UNCHANGED faults)
    BY <1>1 DEF Look
  <2> QED
    BY <2>2, <2>3, StayTyped, FaultTyped DEF TypeOK
<1>2. ASSUME NEW c \in Call, Consent(c) \/ DoNotCall(c) \/ FrequencyCap(c)
      PROVE  TypeOK'
  BY <1>2, AtWork, AnswerTyped DEF Consent, DoNotCall, FrequencyCap
<1>3. ASSUME NEW c \in Call, Authorize(c)
      PROVE  TypeOK'
  <2>1. call[c] \in Working
    BY <1>3, AtWork DEF Authorize
  <2>2. call' \in [Call -> Working \cup Ended \cup {Fresh}]
    BY <1>3, <2>1, GotoTyped DEF Authorize
  <2>3. spent' \subseteq Approval
    BY <1>3, <2>1 DEF Authorize, TypeOK, Working
  <2>4. Stay /\ UNCHANGED <<message, passed>> /\ (Fail \/ UNCHANGED faults)
    BY <1>3 DEF Authorize
  <2> QED
    BY <2>2, <2>3, <2>4, StayTyped, FaultTyped DEF TypeOK
<1>4. ASSUME NEW c \in Call, Record(c)
      PROVE  TypeOK'
  <2> DEFINE row == [status |-> "cleared", key |-> call[c].key, approval |-> call[c].approval,
                     at |-> call[c].at, upto |-> call[c].upto,
                     receipt |-> FALSE]
  <2>1. call[c] \in Working
    BY <1>4, AtWork DEF Record
  <2>2. row \in Clearance
    BY <2>1 DEF Working, Clearance
  <2>3. message' = [message EXCEPT ![c] = row] \/ UNCHANGED message
    BY <1>4 DEF Record, Write
  <2>4. message' \in [Call -> Clearance \cup Refusal \cup {NoMessage}]
    BY <2>2, <2>3 DEF TypeOK
  <2>5. \/ Goto(c, "seal") \/ End(c, "failed", c)
        \/ \E d \in Holder(call[c].key) : Adopt(c, call[c], d)
    BY <1>4 DEF Record, Write
  <2>6. call' \in [Call -> Working \cup Ended \cup {Fresh}]
    BY <2>1, <2>5, GotoTyped, EndTyped, AdoptTyped DEF Holder, Cleared
  <2>7. Stay /\ UNCHANGED <<passed, spent>> /\ (Fail \/ UNCHANGED faults)
    BY <1>4 DEF Record, Write
  <2> QED
    BY <2>4, <2>6, <2>7, StayTyped, FaultTyped DEF TypeOK
<1>5. ASSUME NEW c \in Call, Seal(c)
      PROVE  TypeOK'
  <2>1. call[c] \in Working
    BY <1>5, AtWork DEF Seal
  <2>2. passed' \in [Call -> Nat]
    <3>1. \/ passed' = [passed EXCEPT ![call[c].target] = @ + 1]
          \/ passed' = passed
      BY <1>5 DEF Seal, Write
    <3>2. passed \in [Call -> Nat] /\ call[c].target \in Call
      BY <2>1 DEF TypeOK, Working
    <3> QED
      BY <3>1, <3>2
  <2>3. Goto(c, "attach") \/ End(c, "failed", c)
    BY <1>5 DEF Seal, Write
  <2>4. call' \in [Call -> Working \cup Ended \cup {Fresh}]
    BY <2>1, <2>3, GotoTyped, EndTyped
  <2>5. Stay /\ UNCHANGED <<message, spent>> /\ (Fail \/ UNCHANGED faults)
    BY <1>5 DEF Seal, Write
  <2> QED
    BY <2>2, <2>4, <2>5, StayTyped, FaultTyped DEF TypeOK
<1>6. ASSUME NEW c \in Call, Attach(c)
      PROVE  TypeOK'
  <2> DEFINE d == call[c].target
  <2>1. call[c] \in Working /\ d \in Call
    BY <1>6, AtWork DEF Attach, Working
  <2>2. message' = [message EXCEPT ![d].receipt = TRUE] \/ UNCHANGED message
    BY <1>6 DEF Attach, Write
  <2>3. message' \in [Call -> Clearance \cup Refusal \cup {NoMessage}]
    BY <2>1, <2>2, ReceiptTyped DEF TypeOK
  <2>4. \/ End(c, IF d = c THEN "cleared" ELSE "replayed", d)
        \/ End(c, "failed", c)
    BY <1>6 DEF Attach, Write
  <2>5. call' \in [Call -> Working \cup Ended \cup {Fresh}]
    BY <2>1, <2>4, EndTyped
  <2>6. Stay /\ UNCHANGED <<passed, spent>> /\ (Fail \/ UNCHANGED faults)
    BY <1>6 DEF Attach, Write
  <2> QED
    BY <2>3, <2>5, <2>6, StayTyped, FaultTyped DEF TypeOK
<1>7. ASSUME NEW c \in Call, Block(c)
      PROVE  TypeOK'
  <2>1. call[c] \in Working
    BY <1>7, AtWork DEF Block
  <2>2. [status |-> "blocked", receipt |-> FALSE] \in Refusal
    BY DEF Refusal
  <2>3. \/ message' = [message EXCEPT ![c] = [status |-> "blocked", receipt |-> FALSE]]
        \/ UNCHANGED message
    BY <1>7 DEF Block, Write
  <2>4. message' \in [Call -> Clearance \cup Refusal \cup {NoMessage}]
    BY <2>2, <2>3 DEF TypeOK
  <2>5. Goto(c, "refuse") \/ End(c, "failed", c)
    BY <1>7 DEF Block, Write
  <2>6. call' \in [Call -> Working \cup Ended \cup {Fresh}]
    BY <2>1, <2>5, GotoTyped, EndTyped
  <2>7. Stay /\ UNCHANGED <<passed, spent>> /\ (Fail \/ UNCHANGED faults)
    BY <1>7 DEF Block, Write
  <2> QED
    BY <2>4, <2>6, <2>7, StayTyped, FaultTyped DEF TypeOK
<1>8. ASSUME NEW c \in Call, Refuse(c)
      PROVE  TypeOK'
  <2>1. message' = [message EXCEPT ![c].receipt = TRUE] \/ UNCHANGED message
    BY <1>8 DEF Refuse, Write
  <2>2. message' \in [Call -> Clearance \cup Refusal \cup {NoMessage}]
    BY <2>1, ReceiptTyped DEF TypeOK
  <2>3. End(c, "denied", c) \/ End(c, "failed", c)
    BY <1>8 DEF Refuse, Write
  <2>4. call' \in [Call -> Working \cup Ended \cup {Fresh}]
    BY <2>3, EndTyped
  <2>5. Stay /\ UNCHANGED <<passed, spent>> /\ (Fail \/ UNCHANGED faults)
    BY <1>8 DEF Refuse, Write
  <2> QED
    BY <2>2, <2>4, <2>5, StayTyped, FaultTyped DEF TypeOK
<1>9. ASSUME NEW c \in Call, Crash(c)
      PROVE  TypeOK'
  BY <1>9, EndTyped, StayTyped DEF Crash, TypeOK
<1>10. ASSUME NEW kind \in {"granted", "revoked"}, NEW effective \in Time,
              RecordConsent(kind, effective)
       PROVE  TypeOK'
  <2> DEFINE event == [kind |-> kind, effective |-> effective,
                       recorded |-> now, receipt |-> FALSE]
  <2>1. event \in Event /\ event.effective <= event.recorded /\ event.recorded <= now
    BY <1>10, GateAssumption DEF Event, Time, RecordConsent, TypeOK
  <2>2. ledger' = Append(ledger, event) /\ now' = now
    BY <1>10 DEF RecordConsent
  <2>3. /\ ledger' \in Seq(Event)
        /\ \A i \in DOMAIN ledger' :
             ledger'[i].effective <= ledger'[i].recorded /\ ledger'[i].recorded <= now'
    BY <2>1, <2>2 DEF TypeOK
  <2> QED
    BY <1>10, <2>2, <2>3 DEF RecordConsent, Outside, TypeOK
<1>11. ASSUME NEW i \in DOMAIN ledger, AttachConsentReceipt(i)
       PROVE  TypeOK'
  <2>1. ledger[i] \in Event
    BY DEF TypeOK
  <2>2. [ledger[i] EXCEPT !.receipt = TRUE] \in Event
    BY <2>1 DEF Event
  <2>3. ledger' = [ledger EXCEPT ![i] = [ledger[i] EXCEPT !.receipt = TRUE]] /\ now' = now
    BY <1>11 DEF AttachConsentReceipt
  <2>4. ledger' \in Seq(Event) /\ DOMAIN ledger' = DOMAIN ledger
    BY <2>2, <2>3 DEF TypeOK
  <2>5. \A j \in DOMAIN ledger : /\ ledger'[j].effective = ledger[j].effective
                                 /\ ledger'[j].recorded = ledger[j].recorded
    BY <2>1, <2>3 DEF TypeOK, Event
  <2> QED
    BY <1>11, <2>3, <2>4, <2>5 DEF AttachConsentReceipt, Outside, TypeOK
<1>12. ASSUME NEW l \in Listing, Suppress(l[1], l[2])
       PROVE  TypeOK'
  <2>1. l[1] \in Nat /\ l[2] \in Nat
    <3>1. l \in Nat \X Nat
      BY GateAssumption
    <3> QED
      BY <3>1
  <2>2. listing' \in Entry
    BY <1>12, <2>1 DEF Suppress, Entry
  <2> QED
    BY <1>12, <2>2 DEF Suppress, Outside, TypeOK
<1>13. CASE Tick
  <2>1. now' = now + 1 /\ UNCHANGED ledger
    BY <1>13 DEF Tick
  <2>2. ASSUME NEW i \in DOMAIN ledger
        PROVE  ledger[i].recorded \in Nat
    <3>1. ledger[i] \in Event
      BY DEF TypeOK
    <3> QED
      BY <3>1 DEF Event
  <2> QED
    BY <1>13, <2>1, <2>2 DEF Tick, Outside, TypeOK
<1>14. CASE UNCHANGED vars
  BY <1>14 DEF vars, TypeOK
<1> QED
  BY <1>1, <1>2, <1>3, <1>4, <1>5, <1>6, <1>7, <1>8, <1>9, <1>10, <1>11, <1>12, <1>13, <1>14
     DEF Next

\* A step that leaves the record, the audit entries and the approvals alone keeps the
\* invariant if the call it moves lands where the invariant lets it.
LEMMA CallMoves ==
  ASSUME Inv, TypeOK', NEW c \in Call, UNCHANGED <<message, passed, spent>>,
         \A d \in Call \ {c} : call'[d] = call[d],
         call'[c].pc \in {"consent", "list", "count", "authorize", "block"}
           => message[c] = NoMessage,
         call'[c].pc \notin {"idle", "record", "refuse", "attach"},
         call'[c].pc \in {"consent", "list", "count", "authorize"} => call'[c].target = c,
         call'[c].pc = "seal" => call'[c].target \in Cleared,
         call'[c].pc = "done" /\ call'[c].told \in {"cleared", "replayed"} =>
           call'[c].target \in Cleared /\ message[call'[c].target].receipt,
         call'[c].pc = "done" => call'[c].told # "denied"
  PROVE  Inv'
<1>1. Cleared' = Cleared
  BY DEF Cleared
<1>2. Unrecorded' /\ Itself'
  BY DEF Inv, Unrecorded, Itself
<1>3. Finishing'
  BY <1>1 DEF Inv, Finishing
<1>4. Refusing'
  BY DEF Inv, Refusing
<1>5. Holding'
  BY <1>1 DEF Inv, Holding
<1>6. OneMessagePerKey' /\ ApprovalSendsOneMessage'
  BY <1>1 DEF Inv, OneMessagePerKey, ApprovalSendsOneMessage
<1>7. DeliverableMeansEvidenced'
  BY <1>1 DEF Inv, DeliverableMeansEvidenced
<1>8. RefusalsAreRecorded'
  BY DEF Inv, RefusalsAreRecorded
<1> QED
  BY <1>2, <1>3, <1>4, <1>5, <1>6, <1>7, <1>8 DEF Inv

\* Where a call goes that ends, that takes its next step, that found a clearance.
LEMMA EndMoves ==
  ASSUME TypeOK, NEW c \in Call, NEW told, NEW target, End(c, told, target)
  PROVE  /\ \A e \in Call \ {c} : call'[e] = call[e]
         /\ call'[c].pc = "done" /\ call'[c].told = told /\ call'[c].target = target
<1>1. /\ \A e \in Call \ {c} : call'[e] = call[e]
      /\ call'[c] = [pc |-> "done", told |-> told, target |-> target]
  BY DEF End, TypeOK
<1> QED
  BY <1>1

LEMMA GotoMoves ==
  ASSUME TypeOK, NEW c \in Call, call[c] \in Working, NEW pc, Goto(c, pc)
  PROVE  /\ \A e \in Call \ {c} : call'[e] = call[e]
         /\ call'[c].pc = pc /\ call'[c].target = call[c].target
         /\ call'[c].approval = call[c].approval
<1>1. /\ \A e \in Call \ {c} : call'[e] = call[e]
      /\ call'[c] = [call[c] EXCEPT !.pc = pc]
  BY DEF Goto, TypeOK
<1> QED
  BY <1>1 DEF Working

LEMMA AdoptMoves ==
  ASSUME TypeOK, NEW c \in Call, NEW working \in Working, NEW d \in Cleared,
         Adopt(c, working, d)
  PROVE  /\ \A e \in Call \ {c} : call'[e] = call[e]
         /\ call'[c].target = d
         /\ \/ call'[c].pc = "done" /\ call'[c].told = "replayed" /\ message[d].receipt
            \/ call'[c].pc = "seal"
<1>1. CASE message[d].receipt
  BY <1>1, EndMoves DEF Adopt
<1>2. CASE ~message[d].receipt
  <2>1. /\ \A e \in Call \ {c} : call'[e] = call[e]
        /\ call'[c] = [working EXCEPT !.pc = "seal", !.target = d]
    BY <1>2 DEF Adopt, TypeOK
  <2>2. /\ [working EXCEPT !.pc = "seal", !.target = d].pc = "seal"
        /\ [working EXCEPT !.pc = "seal", !.target = d].target = d
    BY DEF Working
  <2> QED
    BY <2>1, <2>2
<1> QED
  BY <1>1, <1>2

LEMMA LookKeeps ==
  ASSUME Inv, TypeOK', NEW c \in Call, NEW k \in Key, NEW a \in Approval, Look(c, k, a)
  PROVE  Inv'
<1> DEFINE working == [pc |-> "consent", key |-> k, approval |-> a,
                       at |-> now, upto |-> Len(ledger),
                       allowed |-> now \notin Quiet, target |-> c]
<1>1. TypeOK /\ call[c] = Fresh /\ UNCHANGED <<message, passed, spent>>
  BY DEF Inv, Look
<1>2. message[c] = NoMessage
  BY <1>1 DEF Inv, Unrecorded, Fresh
<1>3. CASE call' = [call EXCEPT ![c] = working]
  <2>1. call'[c] = working /\ \A d \in Call \ {c} : call'[d] = call[d]
    BY <1>1, <1>3 DEF TypeOK
  <2> QED
    BY <1>1, <1>2, <2>1, CallMoves
<1>4. CASE \E d \in Holder(k) : Adopt(c, working, d)
  <2>1. PICK d \in Cleared : Adopt(c, working, d)
    BY <1>4 DEF Holder
  <2>2. working \in Working
    BY <1>1 DEF Working, TypeOK, Cleared
  <2> QED
    BY <1>1, <2>1, <2>2, AdoptMoves, CallMoves
<1>5. CASE End(c, "failed", c)
  <2>1. /\ \A e \in Call \ {c} : call'[e] = call[e]
        /\ call'[c].pc = "done" /\ call'[c].told = "failed"
    BY <1>1, <1>5, EndMoves
  <2> QED
    BY <1>1, <2>1, CallMoves
<1> QED
  BY <1>3, <1>4, <1>5 DEF Look

LEMMA AnswerKeeps ==
  ASSUME Inv, TypeOK', NEW c \in Call, call[c].pc \in {"consent", "list", "count"},
         NEW passes, NEW next \in {"list", "count", "authorize"},
         NEW otherwise \in {"list", "count", "block"}, Answer(c, passes, next, otherwise)
  PROVE  Inv'
<1>1. TypeOK /\ call[c] \in Working /\ message[c] = NoMessage
  BY AtWork DEF Inv, Unrecorded
<1>2. PICK allowed \in BOOLEAN :
        call' = [call EXCEPT ![c].allowed = allowed, ![c].pc = IF allowed THEN next ELSE otherwise]
  BY DEF Answer
<1>3. /\ \A d \in Call \ {c} : call'[d] = call[d]
      /\ call'[c].pc \in {"list", "count", "authorize", "block"} /\ call'[c].target = c
  BY <1>1, <1>2 DEF TypeOK, Working, Inv, Itself
<1> QED
  BY <1>1, <1>3, CallMoves DEF Answer

LEMMA AuthorizeKeeps ==
  ASSUME Inv, TypeOK', NEW c \in Call, Authorize(c)
  PROVE  Inv'
<1>1. /\ TypeOK /\ call[c] \in Working /\ message[c] = NoMessage
      /\ call[c].pc = "authorize" /\ UNCHANGED <<message, passed>>
  BY AtWork DEF Inv, Unrecorded, Authorize
<1>2. \/ /\ call[c].approval \notin spent /\ call[c].approval \in spent'
         /\ Goto(c, "record")
      \/ Goto(c, "block")
  BY DEF Authorize, Spendable
<1>3. /\ \A d \in Call \ {c} : call'[d] = call[d]
      /\ call'[c].pc \in {"record", "block"} /\ call'[c].approval = call[c].approval
      /\ call'[c].target = c
  BY <1>1, <1>2, GotoMoves DEF Inv, Itself
<1>4. spent \subseteq spent'
  BY DEF Authorize
<1>5. call'[c].pc = "record" => call[c].approval \notin spent /\ call[c].approval \in spent'
  <2>1. CASE Goto(c, "block")
    BY <1>1, <2>1, GotoMoves
  <2> QED
    BY <1>2, <2>1
<1>6. Cleared' = Cleared
  BY <1>1 DEF Cleared
<1>7. Unrecorded' /\ Itself' /\ Finishing' /\ Refusing'
  BY <1>1, <1>3, <1>6 DEF Inv, Unrecorded, Itself, Finishing, Refusing
<1>8. Holding'
  BY <1>1, <1>3, <1>4, <1>5, <1>6 DEF Inv, Holding, ApprovalSendsOneMessage
<1>9. OneMessagePerKey' /\ ApprovalSendsOneMessage'
  BY <1>1, <1>4, <1>6 DEF Inv, OneMessagePerKey, ApprovalSendsOneMessage
<1>10. DeliverableMeansEvidenced' /\ RefusalsAreRecorded'
  BY <1>1, <1>3, <1>6 DEF Inv, DeliverableMeansEvidenced, RefusalsAreRecorded
<1> QED
  BY <1>7, <1>8, <1>9, <1>10 DEF Inv

\* The clearance is stored: what Inv keeps rests on the approval it holds, which no
\* other message and no other call about to store one has.
LEMMA RecordKeeps ==
  ASSUME Inv, TypeOK', NEW c \in Call, Record(c)
  PROVE  Inv'
<1> DEFINE row == [status |-> "cleared", key |-> call[c].key, approval |-> call[c].approval,
                   at |-> call[c].at, upto |-> call[c].upto,
                   receipt |-> FALSE]
<1>1. /\ TypeOK /\ call[c] \in Working /\ message[c] = NoMessage
      /\ call[c].pc = "record" /\ call[c].target = c /\ UNCHANGED <<passed, spent>>
  BY AtWork DEF Inv, Unrecorded, Itself, Record
<1>2. \/ /\ UNCHANGED message
         /\ End(c, "failed", c) \/ \E d \in Holder(call[c].key) : Adopt(c, call[c], d)
      \/ /\ message' = [message EXCEPT ![c] = row] /\ Holder(call[c].key) = {}
         /\ End(c, "failed", c) \/ Goto(c, "seal")
  BY DEF Record, Write
<1>3. ASSUME UNCHANGED message, End(c, "failed", c) PROVE Inv'
  <2>1. /\ \A e \in Call \ {c} : call'[e] = call[e]
        /\ call'[c].pc = "done" /\ call'[c].told = "failed"
    BY <1>1, <1>3, EndMoves
  <2> QED
    BY <1>1, <1>3, <2>1, CallMoves
<1>4. ASSUME UNCHANGED message, NEW d \in Holder(call[c].key), Adopt(c, call[c], d)
      PROVE  Inv'
  BY <1>1, <1>4, AdoptMoves, CallMoves DEF Holder
<1>5. ASSUME message' = [message EXCEPT ![c] = row], Holder(call[c].key) = {},
             End(c, "failed", c) \/ Goto(c, "seal")
      PROVE  Inv'
  <2>1. message'[c] = row /\ \A d \in Call \ {c} : message'[d] = message[d]
    BY <1>1, <1>5 DEF TypeOK
  <2>2. /\ message'[c].status = "cleared" /\ message'[c].key = call[c].key
        /\ message'[c].approval = call[c].approval /\ message'[c].receipt = FALSE
    BY <2>1
  <2>3. Cleared' = Cleared \cup {c} /\ c \notin Cleared
    BY <1>1, <2>1, <2>2 DEF Cleared, NoMessage
  <2>4. /\ \A d \in Call \ {c} : call'[d] = call[d]
        /\ \/ call'[c].pc = "seal" /\ call'[c].target = c
           \/ call'[c].pc = "done" /\ call'[c].told = "failed"
    BY <1>1, <1>5, GotoMoves, EndMoves
  <2>5. Unrecorded' /\ Itself' /\ Finishing' /\ Refusing'
    BY <1>1, <2>1, <2>3, <2>4 DEF Inv, Unrecorded, Itself, Finishing, Refusing
  <2>6. ASSUME NEW e \in Call, call'[e].pc = "record"
        PROVE  /\ call'[e].approval \in spent'
               /\ \A d \in Cleared' : message'[d].approval # call'[e].approval
               /\ \A d \in Call : call'[d].pc = "record" /\ call'[d].approval = call'[e].approval
                                    => d = e
    <3>1. e # c /\ call'[e] = call[e] /\ call[e].pc = "record"
      BY <2>4, <2>6
    <3>2. call[e].approval # call[c].approval
      BY <1>1, <3>1 DEF Inv, Holding
    <3>3. \A d \in Cleared' : message'[d].approval # call'[e].approval
      <4>1. \A d \in Cleared : message'[d].approval = message[d].approval
        BY <2>1, <2>3 DEF Cleared
      <4>2. \A d \in Cleared : message[d].approval # call[e].approval
        BY <3>1 DEF Inv, Holding
      <4> QED
        BY <2>2, <2>3, <3>1, <3>2, <4>1, <4>2
    <3>4. call[e].approval \in spent
      BY <3>1 DEF Inv, Holding
    <3>5. \A d \in Call : call[d].pc = "record" /\ call[d].approval = call[e].approval => d = e
      BY <3>1 DEF Inv, Holding
    <3>6. \A d \in Call : call'[d].pc = "record" => d # c /\ call'[d] = call[d]
      BY <2>4
    <3> QED
      BY <1>1, <3>1, <3>3, <3>4, <3>5, <3>6
  <2>7. OneMessagePerKey'
    BY <1>5, <2>1, <2>2, <2>3 DEF Inv, OneMessagePerKey, Holder
  <2>8. ApprovalSendsOneMessage'
    <3>1. /\ call[c].approval \in spent
          /\ \A d \in Cleared : message[d].approval # call[c].approval
      BY <1>1 DEF Inv, Holding
    <3>2. \A d \in Cleared : message'[d] = message[d]
      BY <2>1, <2>3 DEF Cleared
    <3> QED
      BY <1>1, <2>2, <2>3, <3>1, <3>2 DEF Inv, ApprovalSendsOneMessage
  <2>9. DeliverableMeansEvidenced'
    <3>1. \A d \in Cleared : message'[d] = message[d]
      BY <2>1, <2>3 DEF Cleared
    <3> QED
      BY <1>1, <2>2, <2>3, <2>4, <3>1 DEF Inv, DeliverableMeansEvidenced
  <2>10. RefusalsAreRecorded'
    BY <2>1, <2>4 DEF Inv, RefusalsAreRecorded
  <2> QED
    BY <2>5, <2>6, <2>7, <2>8, <2>9, <2>10 DEF Inv, Holding
<1> QED
  BY <1>2, <1>3, <1>4, <1>5

\* A step after the decision writes no row but its own, or the receipt of a clearance
\* its entry stands for.
LEMMA SealKeeps ==
  ASSUME Inv, TypeOK', NEW c \in Call, Seal(c)
  PROVE  Inv'
<1> DEFINE d == call[c].target
<1>1. /\ TypeOK /\ call[c] \in Working /\ call[c].pc = "seal"
      /\ UNCHANGED <<message, spent>> /\ d \in Cleared /\ d \in Call
  BY AtWork DEF Inv, Finishing, Cleared, Seal
<1>2. Cleared' = Cleared
  BY <1>1 DEF Cleared
<1>3. \/ passed' = [passed EXCEPT ![d] = @ + 1] /\ (Goto(c, "attach") \/ End(c, "failed", c))
      \/ UNCHANGED passed /\ End(c, "failed", c)
  BY DEF Seal, Write
<1>4. /\ \A e \in Call : passed'[e] >= passed[e]
      /\ \A e \in Call \ {d} : passed'[e] = passed[e]
      /\ passed \in [Call -> Nat]
  <2>1. CASE passed' = [passed EXCEPT ![d] = @ + 1]
    <3>1. passed \in [Call -> Nat]
      BY <1>1 DEF TypeOK
    <3>2. passed'[d] = passed[d] + 1 /\ \A e \in Call \ {d} : passed'[e] = passed[e]
      BY <1>1, <2>1, <3>1
    <3> QED
      BY <1>1, <3>1, <3>2
  <2>2. CASE UNCHANGED passed
    BY <1>1, <2>2 DEF TypeOK
  <2> QED
    BY <1>3, <2>1, <2>2
<1>5. /\ \A e \in Call \ {c} : call'[e] = call[e]
      /\ \/ call'[c].pc = "attach" /\ call'[c].target = d /\ passed'[d] > 0
         \/ call'[c].pc = "done" /\ call'[c].told = "failed"
  <2>1. CASE passed' = [passed EXCEPT ![d] = @ + 1] /\ Goto(c, "attach")
    <3>1. passed'[d] > 0
      BY <1>1, <1>4, <2>1
    <3> QED
      BY <1>1, <2>1, <3>1, GotoMoves
  <2>2. CASE End(c, "failed", c)
    BY <1>1, <2>2, EndMoves
  <2> QED
    BY <1>3, <2>1, <2>2
<1>6. Unrecorded' /\ Itself' /\ Refusing' /\ Holding'
  BY <1>1, <1>2, <1>5 DEF Inv, Unrecorded, Itself, Refusing, Holding
<1>7. Finishing'
  <2>1. \A e \in Call \ {c} : call[e].pc = "attach" => passed'[call[e].target] > 0
    <3>1. ASSUME NEW e \in Call \ {c}, call[e].pc = "attach"
          PROVE  passed'[call[e].target] > 0
      <4>1. passed[call[e].target] > 0 /\ call[e].target \in Call
        BY <3>1 DEF Inv, Finishing, Cleared
      <4> QED
        BY <1>4, <4>1, <1>3
    <3> QED
      BY <3>1
  <2> QED
    BY <1>1, <1>2, <1>5, <2>1 DEF Inv, Finishing
<1>8. OneMessagePerKey' /\ ApprovalSendsOneMessage'
  BY <1>1, <1>2 DEF Inv, OneMessagePerKey, ApprovalSendsOneMessage
<1>9. DeliverableMeansEvidenced'
  <2>1. \A e \in Cleared : message[e].receipt => passed'[e] > 0
    <3>1. \A e \in Cleared : message[e].receipt => passed[e] > 0
      BY DEF Inv, DeliverableMeansEvidenced
    <3>2. \A e \in Cleared : passed'[e] >= passed[e] /\ passed[e] \in Nat
      BY <1>4 DEF Cleared
    <3>3. \A e \in Cleared : passed'[e] \in Int
      BY DEF Cleared, TypeOK
    <3> QED
      BY <3>1, <3>2, <3>3
  <2>2. \A e \in Call : passed'[e] > 0 => e \in Cleared
    BY <1>1, <1>4 DEF Inv, DeliverableMeansEvidenced
  <2> QED
    BY <1>1, <1>2, <1>5, <2>1, <2>2 DEF Inv, DeliverableMeansEvidenced
<1>10. RefusalsAreRecorded'
  BY <1>1, <1>5 DEF Inv, RefusalsAreRecorded
<1> QED
  BY <1>6, <1>7, <1>8, <1>9, <1>10 DEF Inv

\* A receipt attached to a row changes nothing else of any row.
LEMMA ReceiptChanges ==
  ASSUME TypeOK, NEW d \in Call, message[d] \in Clearance \cup Refusal,
         message' = [message EXCEPT ![d].receipt = TRUE]
  PROVE  /\ \A e \in Call \ {d} : message'[e] = message[e]
         /\ message'[d].status = message[d].status /\ message'[d].receipt
         /\ message[d].status = "cleared" =>
              message'[d].key = message[d].key /\ message'[d].approval = message[d].approval
<1>1. /\ \A e \in Call \ {d} : message'[e] = message[e]
      /\ message'[d] = [message[d] EXCEPT !.receipt = TRUE]
  BY DEF TypeOK
<1>2. CASE message[d] \in Clearance
  BY <1>1, <1>2 DEF Clearance
<1>3. CASE message[d] \in Refusal
  BY <1>1, <1>3 DEF Refusal
<1> QED
  BY <1>2, <1>3

LEMMA AttachKeeps ==
  ASSUME Inv, TypeOK', NEW c \in Call, Attach(c)
  PROVE  Inv'
<1> DEFINE d == call[c].target
<1>1. /\ TypeOK /\ call[c] \in Working /\ call[c].pc = "attach"
      /\ UNCHANGED <<passed, spent>> /\ d \in Cleared /\ d \in Call /\ passed[d] > 0
  BY AtWork DEF Inv, Finishing, Cleared, Attach
<1>2. \/ UNCHANGED message /\ End(c, "failed", c)
      \/ /\ message' = [message EXCEPT ![d].receipt = TRUE]
         /\ End(c, "failed", c) \/ End(c, IF d = c THEN "cleared" ELSE "replayed", d)
  BY DEF Attach, Write
<1>3. ASSUME UNCHANGED message, End(c, "failed", c) PROVE Inv'
  <2>1. /\ \A e \in Call \ {c} : call'[e] = call[e]
        /\ call'[c].pc = "done" /\ call'[c].told = "failed"
    BY <1>1, <1>3, EndMoves
  <2> QED
    BY <1>1, <1>3, <2>1, CallMoves
<1>4. ASSUME message' = [message EXCEPT ![d].receipt = TRUE],
             End(c, "failed", c) \/ End(c, IF d = c THEN "cleared" ELSE "replayed", d)
      PROVE  Inv'
  <2>1. message[d].status = "cleared" /\ message[d] \in Clearance \cup Refusal
    BY <1>1 DEF Cleared, TypeOK, NoMessage
  <2>2. /\ \A e \in Call \ {d} : message'[e] = message[e]
        /\ message'[d].status = "cleared" /\ message'[d].receipt
        /\ message'[d].key = message[d].key /\ message'[d].approval = message[d].approval
    BY <1>1, <1>4, <2>1, ReceiptChanges
  <2>3. Cleared' = Cleared
    BY <2>1, <2>2 DEF Cleared
  <2>4. /\ \A e \in Call \ {c} : call'[e] = call[e]
        /\ call'[c].pc = "done"
        /\ \/ call'[c].told = "failed"
           \/ call'[c].told \in {"cleared", "replayed"} /\ call'[c].target = d
    <3>1. CASE End(c, "failed", c)
      <4>1. /\ \A e \in Call \ {c} : call'[e] = call[e]
            /\ call'[c].pc = "done" /\ call'[c].told = "failed"
        BY <1>1, <3>1, EndMoves
      <4> QED
        BY <4>1
    <3>2. CASE End(c, IF d = c THEN "cleared" ELSE "replayed", d)
      <4>1. /\ \A e \in Call \ {c} : call'[e] = call[e]
            /\ call'[c].pc = "done" /\ call'[c].target = d
            /\ call'[c].told = IF d = c THEN "cleared" ELSE "replayed"
        BY <1>1, <3>2, EndMoves
      <4> QED
        BY <4>1
    <3> QED
      BY <1>4, <3>1, <3>2
  <2>5. \A e \in Call : message[e] = NoMessage => message'[e] = NoMessage
    BY <2>1, <2>2 DEF NoMessage
  <2>6. \A e \in Cleared :
          message'[e].key = message[e].key /\ message'[e].approval = message[e].approval
    BY <2>2 DEF Cleared
  <2>7. \A e \in Call : message'[e].status = message[e].status
    BY <2>1, <2>2
  <2>8. Unrecorded' /\ Itself' /\ Finishing' /\ Refusing'
    BY <1>1, <2>3, <2>4, <2>5, <2>7 DEF Inv, Unrecorded, Itself, Finishing, Refusing
  <2>9. Holding'
    BY <1>1, <2>3, <2>4, <2>6 DEF Inv, Holding
  <2>10. OneMessagePerKey' /\ ApprovalSendsOneMessage'
    BY <1>1, <2>3, <2>6 DEF Inv, OneMessagePerKey, ApprovalSendsOneMessage
  <2>11. DeliverableMeansEvidenced'
    <3>1. \A e \in Cleared : message[e].receipt => passed[e] > 0
      BY DEF Inv, DeliverableMeansEvidenced
    <3>2. \A e \in Cleared' : message'[e].receipt => passed'[e] > 0
      BY <1>1, <2>2, <2>3, <3>1 DEF Cleared
    <3>3. \A e \in Call : message[e].receipt => message'[e].receipt
      BY <2>2
    <3>4. ASSUME NEW e \in Call, call'[e].pc = "done", call'[e].told \in {"cleared", "replayed"}
          PROVE  call'[e].target \in Cleared' /\ message'[call'[e].target].receipt
      <4>1. CASE e = c
        BY <1>1, <2>2, <2>3, <2>4, <3>4, <4>1
      <4>2. CASE e # c
        <5>1. call'[e] = call[e]
          BY <2>4, <4>2
        <5>2. call[e].target \in Cleared /\ message[call[e].target].receipt
          BY <3>4, <5>1 DEF Inv, DeliverableMeansEvidenced
        <5> QED
          BY <2>3, <3>3, <5>1, <5>2 DEF Cleared
      <4> QED
        BY <4>1, <4>2
    <3>5. \A e \in Call : passed'[e] > 0 => e \in Cleared'
      BY <1>1, <2>3 DEF Inv, DeliverableMeansEvidenced
    <3> QED
      BY <3>2, <3>4, <3>5 DEF DeliverableMeansEvidenced
  <2>12. RefusalsAreRecorded'
    <3>1. \A e \in Call : message[e].receipt => message'[e].receipt
      BY <2>2
    <3> QED
      BY <2>4, <2>7, <3>1 DEF Inv, RefusalsAreRecorded
  <2> QED
    BY <2>8, <2>9, <2>10, <2>11, <2>12 DEF Inv
<1> QED
  BY <1>2, <1>3, <1>4

LEMMA BlockKeeps ==
  ASSUME Inv, TypeOK', NEW c \in Call, Block(c)
  PROVE  Inv'
<1> DEFINE row == [status |-> "blocked", receipt |-> FALSE]
<1>1. /\ TypeOK /\ call[c] \in Working /\ message[c] = NoMessage
      /\ call[c].pc = "block" /\ UNCHANGED <<passed, spent>>
  BY AtWork DEF Inv, Unrecorded, Block
<1>2. \/ UNCHANGED message /\ End(c, "failed", c)
      \/ message' = [message EXCEPT ![c] = row] /\ (End(c, "failed", c) \/ Goto(c, "refuse"))
  BY DEF Block, Write
<1>3. ASSUME UNCHANGED message, End(c, "failed", c) PROVE Inv'
  <2>1. /\ \A e \in Call \ {c} : call'[e] = call[e]
        /\ call'[c].pc = "done" /\ call'[c].told = "failed"
    BY <1>1, <1>3, EndMoves
  <2> QED
    BY <1>1, <1>3, <2>1, CallMoves
<1>4. ASSUME message' = [message EXCEPT ![c] = row], End(c, "failed", c) \/ Goto(c, "refuse")
      PROVE  Inv'
  <2>1. message'[c] = row /\ \A d \in Call \ {c} : message'[d] = message[d]
    BY <1>1, <1>4 DEF TypeOK
  <2>2. message'[c].status = "blocked"
    BY <2>1
  <2>3. Cleared' = Cleared /\ c \notin Cleared
    BY <1>1, <2>1, <2>2 DEF Cleared, NoMessage
  <2>4. /\ \A d \in Call \ {c} : call'[d] = call[d]
        /\ \/ call'[c].pc = "refuse"
           \/ call'[c].pc = "done" /\ call'[c].told = "failed"
    BY <1>1, <1>4, GotoMoves, EndMoves
  <2>5. Unrecorded' /\ Itself' /\ Finishing' /\ Refusing'
    BY <1>1, <2>1, <2>2, <2>3, <2>4 DEF Inv, Unrecorded, Itself, Finishing, Refusing
  <2>6. \A d \in Cleared : message'[d] = message[d]
    BY <2>1, <2>3 DEF Cleared
  <2>7. Holding' /\ OneMessagePerKey' /\ ApprovalSendsOneMessage'
    BY <1>1, <2>3, <2>4, <2>6
       DEF Inv, Holding, OneMessagePerKey, ApprovalSendsOneMessage
  <2>8. DeliverableMeansEvidenced'
    BY <1>1, <2>3, <2>4, <2>6 DEF Inv, DeliverableMeansEvidenced
  <2>9. RefusalsAreRecorded'
    BY <2>1, <2>4 DEF Inv, RefusalsAreRecorded
  <2> QED
    BY <2>5, <2>7, <2>8, <2>9 DEF Inv
<1> QED
  BY <1>2, <1>3, <1>4

LEMMA RefuseKeeps ==
  ASSUME Inv, TypeOK', NEW c \in Call, Refuse(c)
  PROVE  Inv'
<1>1. /\ TypeOK /\ call[c] \in Working /\ call[c].pc = "refuse"
      /\ UNCHANGED <<passed, spent>> /\ message[c].status = "blocked"
  BY AtWork DEF Inv, Refusing, Refuse
<1>2. \/ UNCHANGED message /\ End(c, "failed", c)
      \/ /\ message' = [message EXCEPT ![c].receipt = TRUE]
         /\ End(c, "failed", c) \/ End(c, "denied", c)
  BY DEF Refuse, Write
<1>3. ASSUME UNCHANGED message, End(c, "failed", c) PROVE Inv'
  <2>1. /\ \A e \in Call \ {c} : call'[e] = call[e]
        /\ call'[c].pc = "done" /\ call'[c].told = "failed"
    BY <1>1, <1>3, EndMoves
  <2> QED
    BY <1>1, <1>3, <2>1, CallMoves
<1>4. ASSUME message' = [message EXCEPT ![c].receipt = TRUE],
             End(c, "failed", c) \/ End(c, "denied", c)
      PROVE  Inv'
  <2>1. message[c] \in Clearance \cup Refusal
    BY <1>1 DEF TypeOK, NoMessage
  <2>2. /\ \A e \in Call \ {c} : message'[e] = message[e]
        /\ message'[c].status = "blocked" /\ message'[c].receipt
    BY <1>1, <1>4, <2>1, ReceiptChanges
  <2>3. Cleared' = Cleared /\ c \notin Cleared
    BY <1>1, <2>2 DEF Cleared
  <2>4. /\ \A e \in Call \ {c} : call'[e] = call[e]
        /\ call'[c].pc = "done" /\ call'[c].told \in {"failed", "denied"}
    BY <1>1, <1>4, EndMoves
  <2>5. Unrecorded' /\ Itself' /\ Finishing' /\ Refusing'
    BY <1>1, <2>2, <2>3, <2>4 DEF Inv, Unrecorded, Itself, Finishing, Refusing
  <2>6. \A d \in Cleared : message'[d] = message[d]
    BY <2>2, <2>3 DEF Cleared
  <2>7. Holding' /\ OneMessagePerKey' /\ ApprovalSendsOneMessage'
    BY <1>1, <2>3, <2>4, <2>6
       DEF Inv, Holding, OneMessagePerKey, ApprovalSendsOneMessage
  <2>8. DeliverableMeansEvidenced'
    BY <1>1, <2>3, <2>4, <2>6 DEF Inv, DeliverableMeansEvidenced
  <2>9. RefusalsAreRecorded'
    BY <2>2, <2>4 DEF Inv, RefusalsAreRecorded
  <2> QED
    BY <2>5, <2>7, <2>8, <2>9 DEF Inv
<1> QED
  BY <1>2, <1>3, <1>4

\* Nothing outside the calls touches what the invariant speaks of.
LEMMA OutsideKeeps ==
  ASSUME Inv, TypeOK', UNCHANGED <<message, passed, spent, call>>
  PROVE  Inv'
BY DEF Inv, Cleared, Unrecorded, Itself, Finishing, Refusing, Holding, OneMessagePerKey,
       ApprovalSendsOneMessage, DeliverableMeansEvidenced, RefusalsAreRecorded

LEMMA InvStep == Inv /\ [Next]_vars => Inv'
<1> SUFFICES ASSUME Inv, [Next]_vars PROVE Inv'
  OBVIOUS
<1>1. TypeOK /\ TypeOK'
  BY TypeStep DEF Inv
<1>2. ASSUME NEW c \in Call, NEW k \in Key, NEW a \in Approval, Look(c, k, a)
      PROVE  Inv'
  BY <1>1, <1>2, LookKeeps
<1>3. ASSUME NEW c \in Call, Consent(c) \/ DoNotCall(c) \/ FrequencyCap(c)
      PROVE  Inv'
  BY <1>1, <1>3, AnswerKeeps DEF Consent, DoNotCall, FrequencyCap
<1>4. ASSUME NEW c \in Call, Authorize(c)
      PROVE  Inv'
  BY <1>1, <1>4, AuthorizeKeeps
<1>5. ASSUME NEW c \in Call, Record(c)
      PROVE  Inv'
  BY <1>1, <1>5, RecordKeeps
<1>6. ASSUME NEW c \in Call, Seal(c) \/ Attach(c)
      PROVE  Inv'
  BY <1>1, <1>6, SealKeeps, AttachKeeps
<1>7. ASSUME NEW c \in Call, Block(c) \/ Refuse(c)
      PROVE  Inv'
  BY <1>1, <1>7, BlockKeeps, RefuseKeeps
<1>8. ASSUME NEW c \in Call, Crash(c)
      PROVE  Inv'
  <2>1. /\ \A e \in Call \ {c} : call'[e] = call[e]
        /\ call'[c].pc = "done" /\ call'[c].told = "failed"
    BY <1>1, <1>8, EndMoves DEF Crash
  <2> QED
    BY <1>1, <1>8, <2>1, CallMoves DEF Crash
<1>9. ASSUME Outside PROVE Inv'
  BY <1>1, <1>9, OutsideKeeps DEF Outside
<1>10. CASE UNCHANGED vars
  BY <1>1, <1>10, OutsideKeeps DEF vars
<1> QED
  BY <1>2, <1>3, <1>4, <1>5, <1>6, <1>7, <1>8, <1>9, <1>10
     DEF Next, RecordConsent, AttachConsentReceipt, Suppress, Tick

LEMMA InvAlways == Spec => []Inv
<1>1. Init => Inv
  <2>1. Init => Cleared = {}
    BY DEF Init, Cleared, NoMessage
  <2>2. Init => TypeOK
    BY DEF Init, TypeOK, Unlisted, NoMessage, Fresh
  <2> QED
    BY <2>1, <2>2 DEF Init, Inv, Fresh, Unrecorded, Itself, Finishing, Refusing, Holding,
       OneMessagePerKey, ApprovalSendsOneMessage, DeliverableMeansEvidenced,
       RefusalsAreRecorded
<1> QED
  BY <1>1, InvStep, PTL DEF Spec

\* Every reachable state of the gate is of its type, and no consent event is dated
\* ahead of the moment it was recorded.
THEOREM TypeCorrect == Spec => []TypeOK
<1>1. Init => TypeOK
  BY DEF Init, TypeOK, Unlisted, NoMessage, Fresh
<1> QED
  BY <1>1, TypeStep, PTL DEF Spec

\* Whatever calls race or retry one idempotency key, and whatever fails or dies, one
\* clearance is stored under it.
THEOREM OneMessage == Spec => []OneMessagePerKey
<1>1. Inv => OneMessagePerKey
  BY DEF Inv
<1> QED
  BY <1>1, InvAlways, PTL

\* No caller is told to deliver against a clearance whose receipt is missing, no
\* receipt is without its audit entry, and no entry is about a message never stored.
THEOREM Evidenced == Spec => []DeliverableMeansEvidenced
<1>1. Inv => DeliverableMeansEvidenced
  BY DEF Inv
<1> QED
  BY <1>1, InvAlways, PTL

\* One approval lets one message through, whichever key it is sent under.
THEOREM ApprovalOnce == Spec => []ApprovalSendsOneMessage
<1>1. Inv => ApprovalSendsOneMessage
  BY DEF Inv
<1> QED
  BY <1>1, InvAlways, PTL

\* A caller that hears a refusal hears one that is on the record, with its receipt.
THEOREM Recorded == Spec => []RefusalsAreRecorded
<1>1. Inv => RefusalsAreRecorded
  BY DEF Inv
<1> QED
  BY <1>1, InvAlways, PTL

-----------------------------------------------------------------------------
(* The fold over the ledger.  What is said of the fold over every set of events
   is proved by a least counterexample in the strict-subset order. *)

\* Among sets of members of a finite set there is one with no other of them inside it.
LEMMA LeastSet ==
  ASSUME NEW S, IsFiniteSet(S), NEW Bad, Bad \subseteq SUBSET S, Bad # {}
  PROVE  \E s \in Bad : \A t \in Bad : t \subseteq s => t = s
<1>1. IsWellFoundedOn(StrictSubsetOrdering(S), SUBSET S)
  BY FS_StrictSubsetOrderingWellFounded, FS_FiniteSubsetsOfFinite
<1>2. PICK s \in Bad : \A t \in Bad : ~(<<t, s>> \in StrictSubsetOrdering(S))
  BY <1>1, WFMin
<1>3. \A t \in Bad : t \subseteq s => t = s
  BY <1>2 DEF StrictSubsetOrdering
<1> QED
  BY <1>3

LEMMA EventTyped ==
  ASSUME NEW events \in Seq(Event), NEW i \in DOMAIN events
  PROVE  /\ events[i] \in Event /\ events[i].kind \in {"granted", "revoked"}
         /\ events[i].effective \in Nat /\ events[i].recorded \in Nat
<1>1. events[i] \in Event
  OBVIOUS
<1> QED
  BY <1>1 DEF Event

LEMMA EventsFinite ==
  ASSUME NEW events \in Seq(Event), NEW S, S \subseteq DOMAIN events
  PROVE  IsFiniteSet(S)
<1>1. DOMAIN events = 1 .. Len(events) /\ Len(events) \in Nat
  OBVIOUS
<1>2. IsFiniteSet(1 .. Len(events))
  BY <1>1, FS_Interval
<1> QED
  BY <1>1, <1>2, FS_Subset

LEMMA EarlierIsOrder ==
  ASSUME NEW events \in Seq(Event), NEW i \in DOMAIN events
  PROVE  /\ ~Earlier(events[i], events[i])
         /\ \A j, k \in DOMAIN events :
              Earlier(events[i], events[j]) /\ Earlier(events[j], events[k])
                => Earlier(events[i], events[k])
<1>1. \A j \in DOMAIN events : events[j].effective \in Nat /\ events[j].recorded \in Nat
  BY EventTyped
<1>2. ~Earlier(events[i], events[i])
  BY <1>1 DEF Earlier
<1>3. ASSUME NEW j \in DOMAIN events, NEW k \in DOMAIN events,
             Earlier(events[i], events[j]), Earlier(events[j], events[k])
      PROVE  Earlier(events[i], events[k])
  BY <1>1, <1>3 DEF Earlier
<1> QED
  BY <1>2, <1>3

\* There is a last event among any.
LEMMA LastIs ==
  ASSUME NEW events \in Seq(Event), NEW S, S \subseteq DOMAIN events, S # {}
  PROVE  /\ LastOf(events, S) \in S
         /\ \A j \in S : ~Earlier(events[LastOf(events, S)], events[j])
<1> DEFINE IsLast(i, s) == \A j \in s : ~Earlier(events[i], events[j])
           Bad == {s \in SUBSET S : s # {} /\ ~ \E i \in s : IsLast(i, s)}
<1>1. Bad = {}
  <2>1. SUFFICES ASSUME Bad # {} PROVE FALSE
    OBVIOUS
  <2>2. Bad \subseteq SUBSET S /\ IsFiniteSet(S)
    BY EventsFinite
  <2>3. \E s \in Bad : \A t \in Bad : t \subseteq s => t = s
    <3> HIDE DEF Bad
    <3> QED
      BY <2>1, <2>2, LeastSet
  <2>4. PICK s \in Bad : \A t \in Bad : t \subseteq s => t = s
    BY <2>3
  <2>5. s \subseteq S /\ s # {} /\ ~ \E i \in s : IsLast(i, s)
    OBVIOUS
  <2>6. PICK x \in s : TRUE
    BY <2>5
  <2>7. s \ {x} # {} => \E y \in s \ {x} : IsLast(y, s \ {x})
    <3>1. s \ {x} \in SUBSET S /\ s \ {x} # s /\ s \ {x} \subseteq s
      BY <2>5, <2>6
    <3>2. s \ {x} \notin Bad
      BY <2>4, <3>1
    <3> HIDE DEF IsLast
    <3> QED
      BY <3>1, <3>2
  <2>8. ~Earlier(events[x], events[x])
    BY <2>5, <2>6, EarlierIsOrder
  <2>9. CASE s \ {x} = {}
    <3>1. \A j \in s : j = x
      BY <2>9
    <3>2. IsLast(x, s)
      BY <2>8, <3>1
    <3> QED
      BY <2>5, <3>2
  <2>10. CASE s \ {x} # {}
    <3>1. PICK y \in s \ {x} : IsLast(y, s \ {x})
      BY <2>7, <2>10
    <3>2. CASE ~Earlier(events[y], events[x])
      <4>1. IsLast(y, s)
        BY <3>1, <3>2
      <4> QED
        BY <2>5, <4>1
    <3>3. CASE Earlier(events[y], events[x])
      <4>1. ASSUME NEW j \in s \ {x}, Earlier(events[x], events[j])
            PROVE  FALSE
        <5>1. Earlier(events[y], events[j])
          BY <2>5, <3>3, <4>1, EarlierIsOrder
        <5> QED
          BY <3>1, <5>1
      <4>2. IsLast(x, s)
        BY <2>8, <4>1
      <4> QED
        BY <2>5, <4>2
    <3> QED
      BY <3>2, <3>3
  <2> QED
    BY <2>9, <2>10
<1>2. \E i \in S : IsLast(i, S)
  BY <1>1
<1> QED
  BY <1>2 DEF LastOf

\* What the fold stands for: a table of the folds over the subsets.
Folds(events, S, fold) ==
  fold = [s \in SUBSET S |->
            IF s = {} THEN Nobody
            ELSE Govern(fold[s \ {LastOf(events, s)}], events[LastOf(events, s)])]

LEMMA StateIsFolded ==
  ASSUME NEW events, NEW t
  PROVE  DeriveConsentState(events, t)
           = (CHOOSE fold : Folds(events, InForce(events, t), fold))[InForce(events, t)].kind
BY DEF DeriveConsentState, MapThenFoldSet, Folds

LEMMA FoldsAt ==
  ASSUME NEW events, NEW S, NEW fold, Folds(events, S, fold), NEW s \in SUBSET S
  PROVE  fold[s] = IF s = {} THEN Nobody
                   ELSE Govern(fold[s \ {LastOf(events, s)}], events[LastOf(events, s)])
BY DEF Folds

\* Two tables agree where both reach.
LEMMA FoldsAgree ==
  ASSUME NEW events \in Seq(Event), NEW A, NEW B, NEW a, NEW b,
         Folds(events, A, a), Folds(events, B, b),
         NEW S, S \subseteq A, S \subseteq B, S \subseteq DOMAIN events
  PROVE  a[S] = b[S]
<1> DEFINE Bad == {s \in SUBSET S : a[s] # b[s]}
<1>1. SUFFICES ASSUME Bad # {} PROVE FALSE
  OBVIOUS
<1>2. Bad \subseteq SUBSET S /\ IsFiniteSet(S)
  BY EventsFinite
<1>3. \E s \in Bad : \A t \in Bad : t \subseteq s => t = s
  <2> HIDE DEF Bad
  <2> QED
    BY <1>1, <1>2, LeastSet
<1>4. PICK s \in Bad : \A t \in Bad : t \subseteq s => t = s
  BY <1>3
<1>5. s \in SUBSET A /\ s \in SUBSET B /\ s \subseteq DOMAIN events
  OBVIOUS
<1>6. CASE s = {}
  BY <1>5, <1>6, FoldsAt
<1>7. CASE s # {}
  <2> DEFINE x == LastOf(events, s)
  <2>1. x \in s
    BY <1>5, <1>7, LastIs
  <2>2. a[s \ {x}] = b[s \ {x}]
    BY <1>4, <2>1
  <2>3. a[s] = Govern(a[s \ {x}], events[x]) /\ b[s] = Govern(b[s \ {x}], events[x])
    BY <1>5, <1>7, FoldsAt
  <2> QED
    BY <2>2, <2>3
<1> QED
  BY <1>6, <1>7

\* There is a table of the events of any ledger.
LEMMA FoldsExist ==
  ASSUME NEW events \in Seq(Event), NEW S, S \subseteq DOMAIN events
  PROVE  \E fold : Folds(events, S, fold)
<1> DEFINE Bad == {s \in SUBSET S : ~ \E fold : Folds(events, s, fold)}
<1>1. SUFFICES ASSUME Bad # {} PROVE FALSE
  OBVIOUS
<1>2. Bad \subseteq SUBSET S /\ IsFiniteSet(S)
  BY EventsFinite
<1>3. \E s \in Bad : \A t \in Bad : t \subseteq s => t = s
  <2> HIDE DEF Bad
  <2> QED
    BY <1>1, <1>2, LeastSet
<1>4. PICK s \in Bad : \A t \in Bad : t \subseteq s => t = s
  BY <1>3
<1>5. s \subseteq DOMAIN events
  OBVIOUS
<1> DEFINE Below(t) == CHOOSE fold : Folds(events, t, fold)
           Rest(t) == t \ {LastOf(events, t)}
           fold == [t \in SUBSET s |->
                      IF t = {} THEN Nobody
                      ELSE Govern(Below(Rest(t))[Rest(t)], events[LastOf(events, t)])]
<1>6. \A t \in SUBSET s : t # s => Folds(events, t, Below(t))
  BY <1>4
<1>7. \A t \in SUBSET s : t # {} => Rest(t) \in SUBSET s /\ Rest(t) # s /\ Rest(t) \subseteq t
                                    /\ Rest(t) # t
  <2>1. ASSUME NEW t \in SUBSET s, t # {}
        PROVE  LastOf(events, t) \in t
    BY <1>5, <2>1, LastIs
  <2> QED
    BY <2>1
<1>8. ASSUME NEW t \in SUBSET s, t # s
      PROVE  fold[t] = Below(t)[t]
  <2>1. Folds(events, t, Below(t))
    BY <1>6, <1>8
  <2>2. CASE t = {}
    BY <2>1, <2>2, FoldsAt
  <2>3. CASE t # {}
    <3> DEFINE u == Rest(t)
    <3>1. Below(t)[t] = Govern(Below(t)[u], events[LastOf(events, t)])
      BY <2>1, <2>3, FoldsAt
    <3>2. u \in SUBSET s /\ u # s /\ u \subseteq t /\ u \subseteq DOMAIN events
      BY <1>5, <1>7, <2>3
    <3>3. Folds(events, u, Below(u))
      BY <1>6, <3>2
    <3>4. Below(t)[u] = Below(u)[u]
      BY <2>1, <3>2, <3>3, FoldsAgree
    <3>5. fold[t] = Govern(Below(u)[u], events[LastOf(events, t)])
      BY <2>3
    <3> QED
      BY <3>1, <3>4, <3>5
  <2> QED
    BY <2>2, <2>3
<1>9. Folds(events, s, fold)
  <2>1. ASSUME NEW t \in SUBSET s, t # {}
        PROVE  Below(Rest(t))[Rest(t)] = fold[Rest(t)]
    BY <1>7, <1>8, <2>1
  <2> DEFINE At(t) == IF t = {} THEN Nobody
                      ELSE Govern(fold[Rest(t)], events[LastOf(events, t)])
  <2>2. ASSUME NEW t \in SUBSET s
        PROVE  fold[t] = At(t)
    <3>1. CASE t = {}
      BY <3>1
    <3>2. CASE t # {}
      <4>1. fold[t] = Govern(Below(Rest(t))[Rest(t)], events[LastOf(events, t)])
        BY <3>2
      <4>2. At(t) = Govern(fold[Rest(t)], events[LastOf(events, t)])
        BY <3>2
      <4> HIDE DEF fold, Below, Rest
      <4> QED
        BY <2>1, <3>2, <4>1, <4>2
    <3> QED
      BY <3>1, <3>2
  <2>3. fold = [t \in SUBSET s |-> fold[t]]
    OBVIOUS
  <2> HIDE DEF fold
  <2>4. fold = [t \in SUBSET s |-> At(t)]
    <3> HIDE DEF At
    <3> QED
      BY <2>2, <2>3
  <2> QED
    BY <2>4 DEF Folds
<1> QED
  BY <1>4, <1>9

\* The latest revocations among some events.
Latest(events, s) ==
  {i \in s : /\ events[i].kind = "revoked"
             /\ \A j \in s : events[j].kind = "revoked" => ~Earlier(events[i], events[j])}

\* What the fold over a set of events comes to: a latest revocation of theirs, or a
\* grant, and then one of theirs stands against every latest revocation.
Sound(events, s, governing) ==
  /\ s = {} => governing = Nobody
  /\ s # {} => \E i \in s : governing = events[i]
  /\ governing.kind = "revoked" => \E r \in Latest(events, s) : governing = events[r]
  /\ governing.kind # "revoked" /\ s # {} =>
       \E i \in s : /\ events[i].kind = "granted"
                    /\ \A r \in Latest(events, s) : LaterOnBothClocks(events[i], events[r])

\* One more event, later than or level with all the others.
LEMMA SoundStep ==
  ASSUME NEW events \in Seq(Event), NEW s, s \subseteq DOMAIN events, NEW x \in s,
         \A j \in s : ~Earlier(events[x], events[j]),
         NEW before, Sound(events, s \ {x}, before)
  PROVE  Sound(events, s, Govern(before, events[x]))
<1> DEFINE u == s \ {x}
           e == events[x]
           g == Govern(before, e)
<1>1. \A i \in s : /\ events[i].kind \in {"granted", "revoked"}
                   /\ events[i].effective \in Nat /\ events[i].recorded \in Nat
  BY EventTyped
<1>2. CASE e.kind = "revoked"
  <2>1. g = e
    BY <1>2 DEF Govern
  <2>2. x \in Latest(events, s)
    BY <1>2 DEF Latest
  <2> QED
    BY <1>2, <2>1, <2>2 DEF Sound
<1>3. CASE e.kind = "granted"
  <2>1. Latest(events, s) = Latest(events, u)
    BY <1>3 DEF Latest
  <2>2. CASE before.kind = "revoked"
    <3>1. PICK r \in Latest(events, u) : before = events[r]
      BY <2>2 DEF Sound
    <3>2. CASE LaterOnBothClocks(e, before)
      <4>1. g = e
        BY <3>2 DEF Govern
      <4>2. ASSUME NEW q \in Latest(events, s)
            PROVE  LaterOnBothClocks(e, events[q])
        <5>1. q \in s /\ r \in s /\ ~Earlier(events[q], events[r]) /\ ~Earlier(events[r], events[q])
          BY <2>1, <3>1 DEF Latest
        <5>2. /\ events[q].effective = events[r].effective
              /\ events[q].recorded = events[r].recorded
          BY <1>1, <5>1 DEF Earlier
        <5> QED
          BY <3>1, <3>2, <5>2 DEF LaterOnBothClocks
      <4> QED
        BY <1>3, <4>1, <4>2 DEF Sound
    <3>3. CASE ~LaterOnBothClocks(e, before)
      <4>1. g = before
        BY <1>3, <2>2, <3>3 DEF Govern
      <4>2. r \in Latest(events, s) /\ r \in s
        BY <2>1, <3>1 DEF Latest
      <4> QED
        BY <2>2, <3>1, <4>1, <4>2 DEF Sound
    <3> QED
      BY <3>2, <3>3
  <2>3. CASE before.kind # "revoked"
    <3>1. g = e
      BY <2>3 DEF Govern
    <3>2. \E i \in s : /\ events[i].kind = "granted"
                       /\ \A r \in Latest(events, s) : LaterOnBothClocks(events[i], events[r])
      <4>1. CASE u = {}
        <5>1. Latest(events, s) = {}
          BY <2>1, <4>1 DEF Latest
        <5> QED
          BY <1>3, <5>1
      <4>2. CASE u # {}
        <5>1. PICK i \in u : /\ events[i].kind = "granted"
                             /\ \A r \in Latest(events, u) :
                                  LaterOnBothClocks(events[i], events[r])
          BY <2>3, <4>2 DEF Sound
        <5> QED
          BY <2>1, <5>1
      <4> QED
        BY <4>1, <4>2
    <3> QED
      BY <1>3, <3>1, <3>2 DEF Sound
  <2> QED
    BY <2>2, <2>3
<1> QED
  BY <1>1, <1>2, <1>3

LEMMA FoldSound ==
  ASSUME NEW events \in Seq(Event), NEW S, S \subseteq DOMAIN events,
         NEW fold, Folds(events, S, fold)
  PROVE  Sound(events, S, fold[S])
<1> DEFINE Bad == {s \in SUBSET S : ~Sound(events, s, fold[s])}
<1>1. SUFFICES ASSUME Bad # {} PROVE FALSE
  OBVIOUS
<1>2. Bad \subseteq SUBSET S /\ IsFiniteSet(S)
  BY EventsFinite
<1>3. \E s \in Bad : \A t \in Bad : t \subseteq s => t = s
  <2> HIDE DEF Bad
  <2> QED
    BY <1>1, <1>2, LeastSet
<1>4. PICK s \in Bad : \A t \in Bad : t \subseteq s => t = s
  BY <1>3
<1>5. s \in SUBSET S /\ s \subseteq DOMAIN events
  OBVIOUS
<1>6. CASE s = {}
  <2>1. fold[s] = Nobody
    BY <1>5, <1>6, FoldsAt
  <2>2. Sound(events, s, Nobody)
    BY <1>6 DEF Sound, Nobody
  <2> QED
    BY <2>1, <2>2
<1>7. CASE s # {}
  <2> DEFINE x == LastOf(events, s)
  <2>1. x \in s /\ \A j \in s : ~Earlier(events[x], events[j])
    BY <1>5, <1>7, LastIs
  <2>2. fold[s] = Govern(fold[s \ {x}], events[x])
    <3> HIDE DEF Bad
    <3>1. s \in SUBSET S /\ Folds(events, S, fold)
      BY <1>5
    <3>2. fold[s] = IF s = {} THEN Nobody
                    ELSE Govern(fold[s \ {LastOf(events, s)}], events[LastOf(events, s)])
      BY <3>1, FoldsAt
    <3> QED
      BY <1>7, <3>2
  <2>3. Sound(events, s \ {x}, fold[s \ {x}])
    BY <1>4, <2>1
  <2> HIDE DEF x
  <2>4. Sound(events, s, fold[s])
    BY <1>5, <2>1, <2>2, <2>3, SoundStep
  <2> QED
    BY <2>4
<1> QED
  BY <1>6, <1>7

\* If the owner's consent is in force, some grant stands against every latest revocation.
LEMMA ConsentStands ==
  ASSUME NEW events \in Seq(Event), NEW t, InForce(events, t) # {},
         DeriveConsentState(events, t) # "revoked"
  PROVE  \E i \in InForce(events, t) :
           /\ events[i].kind = "granted"
           /\ \A r \in Latest(events, InForce(events, t)) :
                LaterOnBothClocks(events[i], events[r])
<1> DEFINE S == InForce(events, t)
           fold == CHOOSE f : Folds(events, S, f)
<1>1. S \subseteq DOMAIN events
  BY DEF InForce
<1>2. Folds(events, S, fold)
  BY <1>1, FoldsExist
<1>3. DeriveConsentState(events, t) = fold[S].kind
  BY StateIsFolded
<1>4. S # {}
  OBVIOUS
<1> HIDE DEF S, fold
<1>5. Sound(events, S, fold[S])
  BY <1>1, <1>2, FoldSound
<1>6. \E i \in S : /\ events[i].kind = "granted"
                   /\ \A r \in Latest(events, S) : LaterOnBothClocks(events[i], events[r])
  BY <1>3, <1>4, <1>5 DEF Sound
<1> QED
  BY <1>6 DEF S

-----------------------------------------------------------------------------
(* What a call has read of the owner's consent. *)

\* The owner consented at a time, by a ledger that held this much at least.
Agreed(t, upto) ==
  \E n \in upto .. Len(ledger) :
    /\ Consenting(n, t) # {}
    /\ \E i \in 1 .. n : ledger[i].kind = "granted" /\ ledger[i].receipt

\* A call that has not been refused by the consent check found consent.
HeardBy(c) ==
  /\ call[c].pc = "consent" => call[c].upto <= Len(ledger)
  /\ call[c].pc \in {"list", "count"} /\ call[c].allowed => Agreed(call[c].at, call[c].upto)
  /\ call[c].pc \in {"authorize", "record"} => Agreed(call[c].at, call[c].upto)

Heard == \A c \in Call : HeardBy(c)

LEMMA OptOutIs == OptOutStops <=> \A c \in Cleared : Agreed(message[c].at, message[c].upto)
BY DEF OptOutStops, Agreed

\* The check itself.
LEMMA PassesAgreed ==
  ASSUME TypeOK, NEW t, NEW upto \in Nat, upto <= Len(ledger), ConsentPasses(ledger, t)
  PROVE  Agreed(t, upto)
<1> DEFINE n == Len(ledger)
           S == InForce(ledger, t)
<1>1. ledger \in Seq(Event) /\ DOMAIN ledger = 1 .. n /\ n \in Nat
  BY DEF TypeOK
<1>2. PICK k \in DOMAIN ledger :
        ledger[k].kind = "granted" /\ ledger[k].effective <= t /\ ledger[k].receipt
  BY DEF ConsentPasses
<1>3. S # {}
  BY <1>2 DEF InForce
<1>4. PICK i \in S : /\ ledger[i].kind = "granted"
                     /\ \A r \in Latest(ledger, S) : LaterOnBothClocks(ledger[i], ledger[r])
  BY <1>1, <1>3, ConsentStands DEF ConsentPasses
<1>5. \A j \in 1 .. n : j \in S <=> ledger[j].effective <= t
  BY <1>1 DEF InForce
<1>6. LatestRevocation(n, t) \subseteq Latest(ledger, S)
  BY <1>1, <1>5 DEF LatestRevocation, Revoked, Latest, InForce
<1>7. i \in Consenting(n, t)
  BY <1>1, <1>4, <1>6 DEF Consenting, InForce
<1>8. n \in upto .. n
  BY <1>1
<1> QED
  BY <1>1, <1>2, <1>7, <1>8 DEF Agreed

\* The ledger only grows, and a receipt once attached stays.
Grown ==
  /\ Len(ledger) <= Len(ledger')
  /\ \A i \in 1 .. Len(ledger) :
       /\ ledger'[i].kind = ledger[i].kind
       /\ ledger'[i].effective = ledger[i].effective
       /\ ledger'[i].recorded = ledger[i].recorded
       /\ ledger[i].receipt => ledger'[i].receipt

LEMMA LedgerGrows == TypeOK /\ [Next]_vars => Grown
<1> SUFFICES ASSUME TypeOK, [Next]_vars PROVE Grown
  OBVIOUS
<1>1. ledger \in Seq(Event) /\ Len(ledger) \in Nat /\ DOMAIN ledger = 1 .. Len(ledger)
  BY DEF TypeOK
<1>2. CASE UNCHANGED ledger
  BY <1>1, <1>2 DEF Grown
<1>3. ASSUME NEW kind \in {"granted", "revoked"}, NEW effective \in Time,
             RecordConsent(kind, effective)
      PROVE  Grown
  <2> DEFINE event == [kind |-> kind, effective |-> effective,
                       recorded |-> now, receipt |-> FALSE]
  <2>1. ledger' = Append(ledger, event)
    BY <1>3 DEF RecordConsent
  <2> HIDE DEF event
  <2>2. Len(ledger') = Len(ledger) + 1 /\ \A i \in 1 .. Len(ledger) : ledger'[i] = ledger[i]
    BY <1>1, <2>1
  <2> QED
    BY <1>1, <2>2 DEF Grown
<1>4. ASSUME NEW k \in DOMAIN ledger, AttachConsentReceipt(k)
      PROVE  Grown
  <2>1. ledger[k] \in Event
    BY <1>1
  <2> DEFINE event == [ledger[k] EXCEPT !.receipt = TRUE]
  <2>2. ledger' = [ledger EXCEPT ![k] = event]
    BY <1>4 DEF AttachConsentReceipt
  <2>3. /\ event.kind = ledger[k].kind /\ event.effective = ledger[k].effective
        /\ event.recorded = ledger[k].recorded /\ event.receipt
    BY <2>1 DEF Event
  <2> HIDE DEF event
  <2>4. Len(ledger') = Len(ledger)
    BY <1>1, <2>2
  <2>5. ledger'[k] = event /\ \A i \in 1 .. Len(ledger) : i # k => ledger'[i] = ledger[i]
    BY <1>1, <2>2
  <2> QED
    BY <1>1, <2>3, <2>4, <2>5 DEF Grown
<1>5. ASSUME NEW c \in Call,
             \/ \E k \in Key, a \in Approval : Look(c, k, a)
             \/ Consent(c) \/ DoNotCall(c) \/ FrequencyCap(c) \/ Authorize(c) \/ Record(c)
             \/ Seal(c) \/ Attach(c) \/ Block(c) \/ Refuse(c) \/ Crash(c)
      PROVE  UNCHANGED ledger
  BY <1>5 DEF Look, Consent, DoNotCall, FrequencyCap, Answer, Authorize, Record, Seal,
     Attach, Block, Refuse, Crash, Stay
<1>6. CASE Tick \/ \E l \in Listing : Suppress(l[1], l[2])
  BY <1>2, <1>6 DEF Tick, Suppress
<1>7. CASE UNCHANGED vars
  BY <1>2, <1>7 DEF vars
<1> QED
  BY <1>2, <1>3, <1>4, <1>5, <1>6, <1>7 DEF Next

LEMMA AgreedStays ==
  ASSUME TypeOK, TypeOK', Grown, NEW t, NEW upto \in Nat, Agreed(t, upto)
  PROVE  Agreed(t, upto)'
<1>1. Len(ledger) \in Nat /\ Len(ledger') \in Nat
  BY DEF TypeOK
<1>2. PICK n \in upto .. Len(ledger) :
        /\ Consenting(n, t) # {}
        /\ \E i \in 1 .. n : ledger[i].kind = "granted" /\ ledger[i].receipt
  BY DEF Agreed
<1>3. n \in upto .. Len(ledger') /\ 1 .. n \subseteq 1 .. Len(ledger)
  BY <1>1 DEF Grown
<1>4. \A i \in 1 .. n : /\ ledger'[i].kind = ledger[i].kind
                        /\ ledger'[i].effective = ledger[i].effective
                        /\ ledger'[i].recorded = ledger[i].recorded
                        /\ ledger[i].receipt => ledger'[i].receipt
  BY <1>3 DEF Grown
<1>5. Revoked(n, t)' = Revoked(n, t) /\ Revoked(n, t) \subseteq 1 .. n
  BY <1>4 DEF Revoked
<1>6. LatestRevocation(n, t)' = LatestRevocation(n, t) /\ LatestRevocation(n, t) \subseteq 1 .. n
  BY <1>4, <1>5 DEF LatestRevocation, Earlier
<1>7. Consenting(n, t)' = Consenting(n, t)
  BY <1>4, <1>6 DEF Consenting, LaterOnBothClocks
<1>8. \E i \in 1 .. n : ledger'[i].kind = "granted" /\ ledger'[i].receipt
  BY <1>2, <1>4
<1> QED
  BY <1>2, <1>3, <1>7, <1>8 DEF Agreed

\* What a call has read of the consent stays true while the others move.
LEMMA HeardStays ==
  ASSUME TypeOK, TypeOK', Grown, NEW c \in Call, HeardBy(c), call'[c] = call[c]
  PROVE  HeardBy(c)'
<1>1. CASE call[c].pc = "consent"
  <2>1. call[c].upto \in Nat /\ call[c].upto <= Len(ledger)
    BY <1>1, AtWork DEF HeardBy, Working
  <2>2. Len(ledger) \in Nat /\ Len(ledger') \in Nat
    BY DEF TypeOK
  <2>3. call[c].upto <= Len(ledger')
    BY <2>1, <2>2 DEF Grown
  <2> QED
    BY <1>1, <2>3 DEF HeardBy
<1>2. CASE call[c].pc \in {"list", "count", "authorize", "record"}
  <2>1. PICK t, upto : t = call[c].at /\ upto = call[c].upto
    OBVIOUS
  <2>2. upto \in Nat
    BY <1>2, <2>1, AtWork DEF Working
  <2>3. Agreed(t, upto) => Agreed(t, upto)'
    BY <2>2, AgreedStays
  <2>4. Agreed(call[c].at, call[c].upto) => Agreed(t, upto)
    BY <2>1
  <2>5. Agreed(t, upto)' => Agreed(call[c].at, call[c].upto)'
    BY <2>1 DEF Agreed, Consenting, LatestRevocation, Revoked
  <2> QED
    BY <1>2, <2>3, <2>4, <2>5 DEF HeardBy
<1>3. CASE call[c].pc \notin {"consent", "list", "count", "authorize", "record"}
  BY <1>3 DEF HeardBy
<1> QED
  BY <1>1, <1>2, <1>3

\* A call that goes on with the consent it found.
LEMMA HeardOn ==
  ASSUME TypeOK, TypeOK', Grown, NEW c \in Call, call[c] \in Working,
         call'[c].at = call[c].at, call'[c].upto = call[c].upto, call'[c].pc # "consent",
         Agreed(call[c].at, call[c].upto)
  PROVE  HeardBy(c)'
<1>1. PICK t, upto : t = call[c].at /\ upto = call[c].upto
  OBVIOUS
<1>2. upto \in Nat
  BY <1>1 DEF Working
<1>3. Agreed(t, upto)
  BY <1>1
<1>4. Agreed(t, upto)'
  BY <1>2, <1>3, AgreedStays
<1>5. Agreed(call[c].at, call[c].upto)'
  BY <1>1, <1>4 DEF Agreed, Consenting, LatestRevocation, Revoked
<1> QED
  BY <1>5 DEF HeardBy

\* One that has not found any, or has no more use for it.
LEMMA HeardNone ==
  ASSUME NEW c \in Call,
         \/ call'[c].pc \notin {"consent", "list", "count", "authorize", "record"}
         \/ call'[c].pc \in {"list", "count"} /\ ~call'[c].allowed
  PROVE  HeardBy(c)'
BY DEF HeardBy

\* What the answer to a check does to the call that asked.
LEMMA Answered ==
  ASSUME TypeOK, NEW c \in Call, call[c] \in Working, NEW passes, NEW next, NEW otherwise,
         Answer(c, passes, next, otherwise)
  PROVE  /\ \A e \in Call \ {c} : call'[e] = call[e]
         /\ call'[c].at = call[c].at /\ call'[c].upto = call[c].upto
         /\ \/ call'[c].allowed /\ call'[c].pc = next /\ call[c].allowed /\ passes
            \/ ~call'[c].allowed /\ call'[c].pc = otherwise
<1>1. PICK allowed \in BOOLEAN :
        /\ allowed = (call[c].allowed /\ passes) \/ allowed = FALSE
        /\ call' = [call EXCEPT ![c].allowed = allowed,
                                ![c].pc = IF allowed THEN next ELSE otherwise]
  BY DEF Answer
<1> DEFINE pc == IF allowed THEN next ELSE otherwise
           new == [call[c] EXCEPT !.allowed = allowed, !.pc = pc]
<1>2. call' = [call EXCEPT ![c] = new]
  BY <1>1 DEF TypeOK
<1> HIDE DEF pc
<1>3. new.at = call[c].at /\ new.upto = call[c].upto /\ new.allowed = allowed /\ new.pc = pc
  BY DEF Working
<1> HIDE DEF new
<1>4. call'[c] = new /\ \A e \in Call \ {c} : call'[e] = call[e]
  BY <1>2 DEF TypeOK
<1>5. CASE allowed
  <2>1. call[c].allowed /\ passes
    BY <1>1, <1>5
  <2> QED
    BY <1>3, <1>4, <1>5, <2>1 DEF pc
<1>6. CASE ~allowed
  BY <1>3, <1>4, <1>6 DEF pc
<1> QED
  BY <1>5, <1>6

LEMMA HeardConsent ==
  ASSUME TypeOK, TypeOK', Grown, Heard, NEW c \in Call,
         Consent(c) \/ DoNotCall(c) \/ FrequencyCap(c)
  PROVE  Heard'
<1>1. call[c] \in Working /\ HeardBy(c)
  BY AtWork DEF Consent, DoNotCall, FrequencyCap, Heard
<1>2. /\ call[c].upto \in Nat /\ \A e \in Call \ {c} : call'[e] = call[e]
      /\ call'[c].at = call[c].at /\ call'[c].upto = call[c].upto
  BY <1>1, Answered DEF Working, Consent, DoNotCall, FrequencyCap
<1>3. Agreed(call[c].at, call[c].upto) /\ call'[c].pc # "consent" => HeardBy(c)'
  BY <1>1, <1>2, HeardOn
<1>4. call'[c].pc = "block" \/ (call'[c].pc \in {"list", "count"} /\ ~call'[c].allowed)
        => HeardBy(c)'
  BY HeardNone
<1>5. ASSUME Consent(c) PROVE HeardBy(c)'
  <2>1. /\ call'[c].pc = "list"
        /\ ConsentPasses(ledger, call[c].at) \/ ~call'[c].allowed
    BY <1>1, <1>5, Answered DEF Consent
  <2>2. call[c].upto <= Len(ledger)
    BY <1>1, <1>5 DEF HeardBy, Consent
  <2>3. ConsentPasses(ledger, call[c].at) => Agreed(call[c].at, call[c].upto)
    BY <1>2, <2>2, PassesAgreed
  <2> QED
    BY <1>3, <1>4, <2>1, <2>3
<1>6. ASSUME DoNotCall(c) PROVE HeardBy(c)'
  <2>1. call'[c].pc = "count" /\ (call[c].allowed \/ ~call'[c].allowed)
    BY <1>1, <1>6, Answered DEF DoNotCall
  <2>2. call[c].allowed => Agreed(call[c].at, call[c].upto)
    BY <1>1, <1>6 DEF HeardBy, DoNotCall
  <2> QED
    BY <1>3, <1>4, <2>1, <2>2
<1>7. ASSUME FrequencyCap(c) PROVE HeardBy(c)'
  <2>1. call'[c].pc = "block" \/ (call'[c].pc = "authorize" /\ call[c].allowed)
    BY <1>1, <1>7, Answered DEF FrequencyCap
  <2>2. call[c].allowed => Agreed(call[c].at, call[c].upto)
    BY <1>1, <1>7 DEF HeardBy, FrequencyCap
  <2> QED
    BY <1>3, <1>4, <2>1, <2>2
<1>8. HeardBy(c)'
  BY <1>5, <1>6, <1>7
<1>9. \A e \in Call \ {c} : HeardBy(e)'
  BY <1>2, HeardStays DEF Heard
<1> QED
  BY <1>8, <1>9 DEF Heard

\* A call that ends, or goes where it asks no more of the consent.
LEMMA HeardAway ==
  ASSUME TypeOK, TypeOK', Grown, Heard, NEW c \in Call,
         \A e \in Call \ {c} : call'[e] = call[e],
         call'[c].pc \notin {"consent", "list", "count", "authorize", "record"}
  PROVE  Heard'
<1>1. \A e \in Call \ {c} : HeardBy(e)'
  BY HeardStays DEF Heard
<1> QED
  BY <1>1, HeardNone DEF Heard

LEMMA HeardNext == TypeOK /\ TypeOK' /\ Heard /\ [Next]_vars => Heard'
<1> SUFFICES ASSUME TypeOK, TypeOK', Heard, [Next]_vars PROVE Heard'
  OBVIOUS
<1>1. Grown
  BY LedgerGrows
<1>2. CASE UNCHANGED call
  BY <1>1, <1>2, HeardStays DEF Heard
<1>3. ASSUME NEW c \in Call, NEW k \in Key, NEW a \in Approval, Look(c, k, a)
      PROVE  Heard'
  <2> DEFINE working == [pc |-> "consent", key |-> k, approval |-> a,
                         at |-> now, upto |-> Len(ledger),
                         allowed |-> now \notin Quiet, target |-> c]
  <2>1. CASE call' = [call EXCEPT ![c] = working]
    <3>1. call'[c].pc = "consent" /\ call'[c].upto = Len(ledger)
      BY <2>1 DEF TypeOK
    <3>2. ledger' = ledger /\ Len(ledger) \in Nat
      BY <1>3 DEF Look, Stay, TypeOK
    <3>3. HeardBy(c)'
      BY <3>1, <3>2 DEF HeardBy
    <3>4. \A e \in Call \ {c} : call'[e] = call[e]
      BY <2>1 DEF TypeOK
    <3> QED
      BY <1>1, <3>3, <3>4, HeardStays DEF Heard
  <2>2. ASSUME NEW d \in Holder(k), Adopt(c, working, d)
        PROVE  Heard'
    <3>1. CASE End(c, "replayed", d)
      BY <1>1, <3>1, EndMoves, HeardAway
    <3>2. CASE call' = [call EXCEPT ![c] = [working EXCEPT !.pc = "seal", !.target = d]]
      <4>1. call'[c].pc = "seal" /\ \A e \in Call \ {c} : call'[e] = call[e]
        BY <3>2 DEF TypeOK
      <4> QED
        BY <1>1, <4>1, HeardAway
    <3> QED
      BY <2>2, <3>1, <3>2 DEF Adopt
  <2>3. CASE End(c, "failed", c)
    BY <1>1, <2>3, EndMoves, HeardAway
  <2> QED
    BY <1>3, <2>1, <2>2, <2>3 DEF Look
<1>4. ASSUME NEW c \in Call, Consent(c) \/ DoNotCall(c) \/ FrequencyCap(c)
      PROVE  Heard'
  BY <1>1, <1>4, HeardConsent
<1>5. ASSUME NEW c \in Call, Authorize(c)
      PROVE  Heard'
  <2>1. call[c] \in Working /\ call[c].pc = "authorize" /\ HeardBy(c)
    BY <1>5, AtWork DEF Authorize, Heard
  <2>2. CASE Goto(c, "block")
    BY <1>1, <2>1, <2>2, GotoMoves, HeardAway
  <2>3. CASE Goto(c, "record")
    <3> DEFINE new == [call[c] EXCEPT !.pc = "record"]
    <3>1. call' = [call EXCEPT ![c] = new]
      BY <2>3 DEF Goto, TypeOK
    <3>2. new.pc = "record" /\ new.at = call[c].at /\ new.upto = call[c].upto
      BY <2>1 DEF Working
    <3> HIDE DEF new
    <3>3. call'[c] = new /\ \A e \in Call \ {c} : call'[e] = call[e]
      BY <3>1 DEF TypeOK
    <3>4. HeardBy(c)'
      BY <1>1, <2>1, <3>2, <3>3, HeardOn DEF HeardBy
    <3> QED
      BY <1>1, <3>3, <3>4, HeardStays DEF Heard
  <2> QED
    BY <1>5, <2>2, <2>3 DEF Authorize
<1>6. ASSUME NEW c \in Call, Record(c)
      PROVE  Heard'
  <2>1. call[c] \in Working
    BY <1>6, AtWork DEF Record
  <2>2. ASSUME NEW d \in Holder(call[c].key), Adopt(c, call[c], d)
        PROVE  Heard'
    <3>1. CASE End(c, "replayed", d)
      BY <1>1, <3>1, EndMoves, HeardAway
    <3>2. CASE call' = [call EXCEPT ![c] = [call[c] EXCEPT !.pc = "seal", !.target = d]]
      <4>1. call'[c].pc = "seal" /\ \A e \in Call \ {c} : call'[e] = call[e]
        BY <2>1, <3>2 DEF TypeOK, Working
      <4> QED
        BY <1>1, <4>1, HeardAway
    <3> QED
      BY <2>2, <3>1, <3>2 DEF Adopt
  <2>3. CASE Goto(c, "seal")
    BY <1>1, <2>1, <2>3, GotoMoves, HeardAway
  <2>4. CASE End(c, "failed", c)
    BY <1>1, <2>4, EndMoves, HeardAway
  <2> QED
    BY <1>6, <2>2, <2>3, <2>4 DEF Record, Write
<1>7. ASSUME NEW c \in Call, Seal(c) \/ Attach(c) \/ Block(c) \/ Refuse(c) \/ Crash(c)
      PROVE  Heard'
  <2>1. call[c] \in Working
    BY <1>7, AtWork DEF Seal, Attach, Block, Refuse, Crash
  <2>2. \/ Goto(c, "attach") \/ Goto(c, "refuse")
        \/ \E told, target : End(c, told, target)
    BY <1>7 DEF Seal, Attach, Block, Refuse, Crash, Write
  <2>3. CASE Goto(c, "attach") \/ Goto(c, "refuse")
    BY <1>1, <2>1, <2>3, GotoMoves, HeardAway
  <2>4. CASE \E told, target : End(c, told, target)
    BY <1>1, <2>4, EndMoves, HeardAway
  <2> QED
    BY <2>2, <2>3, <2>4
<1>8. CASE UNCHANGED vars
  BY <1>2, <1>8 DEF vars
<1> QED
  BY <1>2, <1>3, <1>4, <1>5, <1>6, <1>7, <1>8
     DEF Next, RecordConsent, AttachConsentReceipt, Suppress, Tick, Outside

\* A clearance rests on the consent its call had read.
LEMMA StoredAgreed ==
  ASSUME TypeOK, TypeOK', Grown, NEW d \in Call, message'[d].status = "cleared",
         \/ /\ message[d].status = "cleared" /\ Agreed(message[d].at, message[d].upto)
            /\ message'[d].at = message[d].at /\ message'[d].upto = message[d].upto
         \/ /\ call[d].pc = "record" /\ HeardBy(d)
            /\ message'[d].at = call[d].at /\ message'[d].upto = call[d].upto
  PROVE  Agreed(message[d].at, message[d].upto)'
<1>1. PICK t, upto : t = message'[d].at /\ upto = message'[d].upto
  OBVIOUS
<1>2. upto \in Nat
  <2>1. message'[d] \in Clearance
    <3>1. message'[d] \in Clearance \cup Refusal \cup {NoMessage}
      BY DEF TypeOK
    <3>2. message'[d] \notin Refusal /\ message'[d] # NoMessage
      BY DEF Refusal, NoMessage
    <3> QED
      BY <3>1, <3>2
  <2> QED
    BY <1>1, <2>1 DEF Clearance
<1>3. Agreed(t, upto)
  BY <1>1 DEF HeardBy
<1>4. Agreed(t, upto)'
  BY <1>2, <1>3, AgreedStays
<1> QED
  BY <1>1, <1>4 DEF Agreed, Consenting, LatestRevocation, Revoked

LEMMA OptOutNext == TypeOK /\ TypeOK' /\ Heard /\ OptOutStops /\ [Next]_vars => OptOutStops'
<1> SUFFICES ASSUME TypeOK, TypeOK', Heard, OptOutStops, [Next]_vars PROVE OptOutStops'
  OBVIOUS
<1>1. Grown /\ \A d \in Cleared : Agreed(message[d].at, message[d].upto)
  BY LedgerGrows, OptOutIs
<1>2. SUFFICES ASSUME NEW d \in Call, message'[d].status = "cleared"
               PROVE  Agreed(message[d].at, message[d].upto)'
  BY DEF OptOutStops, Agreed, Cleared
<1>3. ASSUME message'[d] = message[d]
      PROVE  Agreed(message[d].at, message[d].upto)'
  BY <1>1, <1>2, <1>3, StoredAgreed DEF Cleared
<1>4. ASSUME NEW c \in Call, NEW row, message' = [message EXCEPT ![c] = row],
             \/ row.status # "cleared"
             \/ /\ message[c].status = "cleared"
                /\ row.at = message[c].at /\ row.upto = message[c].upto
             \/ call[c].pc = "record" /\ row.at = call[c].at /\ row.upto = call[c].upto
      PROVE  Agreed(message[d].at, message[d].upto)'
  <2>1. message'[c] = row /\ \A e \in Call \ {c} : message'[e] = message[e]
    BY <1>4 DEF TypeOK
  <2>2. CASE d = c
    <3>1. \/ message[d].status = "cleared" /\ row.at = message[d].at /\ row.upto = message[d].upto
          \/ call[d].pc = "record" /\ row.at = call[d].at /\ row.upto = call[d].upto
      BY <1>2, <1>4, <2>1, <2>2
    <3>2. message[d].status = "cleared" => Agreed(message[d].at, message[d].upto)
      BY <1>1 DEF Cleared
    <3> QED
      BY <1>1, <1>2, <2>1, <2>2, <3>1, <3>2, StoredAgreed DEF Heard
  <2>3. CASE d # c
    BY <1>3, <2>1, <2>3
  <2> QED
    BY <2>2, <2>3
<1>5. ASSUME NEW c \in Call, message' = [message EXCEPT ![c].receipt = TRUE]
      PROVE  Agreed(message[d].at, message[d].upto)'
  <2> DEFINE row == [message[c] EXCEPT !.receipt = TRUE]
  <2>1. message' = [message EXCEPT ![c] = row]
    BY <1>5
  <2>2. \/ row.status # "cleared"
        \/ /\ message[c].status = "cleared"
           /\ row.at = message[c].at /\ row.upto = message[c].upto
    <3>1. CASE message[c] \in Clearance
      BY <3>1 DEF Clearance
    <3>2. CASE message[c] \in Refusal \/ message[c] = NoMessage
      BY <3>2 DEF Refusal, NoMessage
    <3> QED
      BY <3>1, <3>2 DEF TypeOK
  <2> HIDE DEF row
  <2> QED
    BY <1>4, <2>1, <2>2
<1>6. ASSUME NEW c \in Call, Record(c)
      PROVE  Agreed(message[d].at, message[d].upto)'
  <2> DEFINE row == [status |-> "cleared", key |-> call[c].key, approval |-> call[c].approval,
                     at |-> call[c].at, upto |-> call[c].upto,
                     receipt |-> FALSE]
  <2>1. message' = [message EXCEPT ![c] = row] \/ UNCHANGED message
    BY <1>6 DEF Record, Write
  <2>2. call[c].pc = "record" /\ row.at = call[c].at /\ row.upto = call[c].upto
    BY <1>6 DEF Record
  <2> HIDE DEF row
  <2> QED
    BY <1>3, <1>4, <2>1, <2>2
<1>7. ASSUME NEW c \in Call, Block(c)
      PROVE  Agreed(message[d].at, message[d].upto)'
  <2> DEFINE row == [status |-> "blocked", receipt |-> FALSE]
  <2>1. message' = [message EXCEPT ![c] = row] \/ UNCHANGED message
    BY <1>7 DEF Block, Write
  <2>2. row.status # "cleared"
    OBVIOUS
  <2> HIDE DEF row
  <2> QED
    BY <1>3, <1>4, <2>1, <2>2
<1>8. ASSUME NEW c \in Call, Attach(c) \/ Refuse(c)
      PROVE  Agreed(message[d].at, message[d].upto)'
  <2>1. call[c].target \in Call
    BY <1>8, AtWork DEF Attach, Refuse, Working
  <2>2. \/ \E e \in Call : message' = [message EXCEPT ![e].receipt = TRUE]
        \/ UNCHANGED message
    BY <1>8, <2>1 DEF Attach, Refuse, Write
  <2> QED
    BY <1>3, <1>5, <2>2
<1>9. CASE UNCHANGED message
  BY <1>3, <1>9
<1> QED
  BY <1>6, <1>7, <1>8, <1>9
     DEF Next, vars, Look, Consent, DoNotCall, FrequencyCap, Answer, Authorize, Seal, Crash,
         RecordConsent, AttachConsentReceipt, Suppress, Tick, Outside

\* No opt-out that was on the ledger when a message was evaluated is overlooked, whatever
\* receipts are missing and however the events are dated or imported (consent.ts:424).
THEOREM OptOutHeeded == Spec => []OptOutStops
<1>1. Init => TypeOK /\ Heard /\ OptOutStops
  <2>1. Init => TypeOK
    BY DEF Init, TypeOK, Unlisted, NoMessage, Fresh
  <2>2. Init => Heard
    BY DEF Init, Heard, HeardBy, Fresh
  <2>3. Init => OptOutStops
    BY DEF Init, OptOutStops, Cleared, NoMessage
  <2> QED
    BY <2>1, <2>2, <2>3
<1>2. TypeOK /\ Heard /\ OptOutStops /\ [Next]_vars => (TypeOK /\ Heard /\ OptOutStops)'
  BY TypeStep, HeardNext, OptOutNext
<1> QED
  BY <1>1, <1>2, PTL DEF Spec
=============================================================================
