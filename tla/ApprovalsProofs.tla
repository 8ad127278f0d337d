--------------------------- MODULE ApprovalsProofs ---------------------------
(***************************************************************************)
(* The safety of the approval service for every set of people, approvals,  *)
(* calls and executions: the quorum behind a grant, the single use of an   *)
(* approval, and the fidelity of what is performed to what was approved.   *)
(***************************************************************************)
EXTENDS Approvals, FiniteSetTheorems, TLAPS

\* A decision in flight was made by someone allowed to decide, on a row that is
\* there.  The grants it counted may since have grown, never shrunk.
CallsInFlight ==
  \A d \in DecideCall : decideCall[d] # Idle =>
    LET call == decideCall[d]
        row == approval[call.id]
    IN /\ row # Absent
       /\ call.actor \in row.eligible \ {row.requestedBy}
       /\ call.nextStatus = "rejected" <=> call.decision = "rejected"
       /\ call.nextStatus = "granted" => Cardinality(row.granted) + 1 >= row.required

\* The grants of every row come from eligible people other than the requester.
GrantsEligible ==
  \A id \in ApprovalId : approval[id] # Absent =>
    approval[id].granted \subseteq approval[id].eligible \ {approval[id].requestedBy}

QuorumMet ==
  \A id \in ApprovalId : approval[id].status \in {"granted", "consumed"} =>
    Cardinality(approval[id].granted) >= approval[id].required

RejectedStays ==
  \A id \in ApprovalId : approval[id] # Absent /\ approval[id].rejected # {} =>
    approval[id].status = "rejected"

\* An execution that passed its checks holds an approval that was granted for
\* what it presented.
ChecksHold ==
  \A e \in Execution : consumeCall[e] # Idle =>
    LET call == consumeCall[e]
        row == approval[call.id]
    IN /\ row.status \in {"granted", "consumed"}
       /\ call.digest = row.digest
       /\ call.action \in {row.action, Unchecked}

Inv == /\ TypeOK
       /\ CallsInFlight
       /\ GrantsEligible
       /\ QuorumMet
       /\ RejectedStays
       /\ ChecksHold
       /\ SingleUse

-----------------------------------------------------------------------------
\* Adding a person to a finite set of people, counted.
LEMMA GrantCounts ==
  ASSUME NEW S \in SUBSET Actor, NEW p \in Actor
  PROVE  /\ Cardinality(S) \in Nat
         /\ Cardinality(S \cup {p}) \in Nat
         /\ Cardinality(S \cup {p}) >= Cardinality(S)
         /\ p \notin S => Cardinality(S \cup {p}) = Cardinality(S) + 1
  <1>1. IsFiniteSet(S)
    BY ApprovalAssumption, FS_Subset
  <1>2. /\ Cardinality(S) \in Nat
        /\ Cardinality(S \cup {p}) =
             IF p \in S THEN Cardinality(S) ELSE Cardinality(S) + 1
    BY <1>1, FS_CardinalityType, FS_AddElement
  <1>3. QED
    BY <1>2

\* The status a decide call asks for is one of the three it may ask for, and is
\* "granted" only on the strength of enough grants.
LEMMA NextStatusSound ==
  ASSUME TypeOK, NEW id \in ApprovalId, approval[id] # Absent,
         NEW decision \in {"granted", "rejected"}
  PROVE  /\ NextStatus(id, decision) \in {"pending", "granted", "rejected"}
         /\ NextStatus(id, decision) = "rejected" <=> decision = "rejected"
         /\ NextStatus(id, decision) = "granted" =>
              Cardinality(approval[id].granted) + 1 >= approval[id].required
  BY DEF NextStatus

\* A sweep of what is due keeps every field but the status, and writes only
\* "expired".
LEMMA SweepTyped ==
  ASSUME TypeOK, ExpireApprovals
  PROVE  /\ approval' \in [ApprovalId -> Row \cup {Absent}]
         /\ \A id \in ApprovalId :
              \/ approval'[id] = approval[id]
              \/ /\ approval[id] \in Row /\ approval[id].status = "pending"
                 /\ approval'[id] = [approval[id] EXCEPT !.status = "expired"]
  BY DEF TypeOK, ExpireApprovals, Due, Row, Absent

\* The values of the state stay of their types, whatever the calls do.
LEMMA TypeStep == TypeOK /\ [Next]_vars => TypeOK'
  <1> SUFFICES ASSUME TypeOK, [Next]_vars PROVE TypeOK'
    OBVIOUS
  <1> USE DEF TypeOK
  <1>1. ASSUME NEW id \in ApprovalId, NEW digest \in Digest, NEW action \in Action,
               NEW who \in Actor, NEW required \in 1..MaxRequired,
               NEW eligible \in SUBSET Actor,
               Request(id, digest, action, who, required, eligible)
        PROVE  TypeOK'
    BY <1>1, ApprovalAssumption DEF Request, Row
  <1>2. ASSUME NEW d \in DecideCall, NEW id \in ApprovalId, NEW actor \in Actor,
               NEW decision \in {"granted", "rejected"}, NEW steppedUp \in BOOLEAN,
               DecideRead(d, id, actor, decision, steppedUp)
        PROVE  TypeOK'
    <2>1. NextStatus(id, decision) \in {"pending", "granted", "rejected"}
      BY DEF NextStatus
    <2>2. QED
      BY <1>2, <2>1 DEF DecideRead, Deciding
  <1>3. ASSUME NEW id \in ApprovalId, DecideLate(id) PROVE TypeOK'
    BY <1>3, SweepTyped DEF DecideLate
  <1>4. ASSUME NEW d \in DecideCall, DecideRecord(d) PROVE TypeOK'
    <2>1. decideCall[d] \in Deciding
      BY <1>4 DEF DecideRecord
    <2>2. CASE Takes(decideCall[d].id, decideCall[d].actor)
      BY <1>4, <2>1, <2>2 DEF DecideRecord, RecordDecision, Takes, Deciding, Row, Absent
    <2>3. CASE ~Takes(decideCall[d].id, decideCall[d].actor)
      BY <1>4, <2>3 DEF DecideRecord
    <2>4. QED
      BY <2>2, <2>3
  <1>5. ASSUME NEW d \in DecideCall, CrashDecide(d) PROVE TypeOK'
    BY <1>5 DEF CrashDecide
  <1>6. ASSUME NEW e \in Execution, NEW id \in ApprovalId, NEW digest \in Digest,
               NEW action \in Action \cup {Unchecked}, ConsumeCheck(e, id, digest, action)
        PROVE  TypeOK'
    BY <1>6 DEF ConsumeCheck, Consuming
  <1>7. ASSUME NEW e \in Execution, ConsumeSpend(e) PROVE TypeOK'
    <2>1. consumeCall[e] \in Consuming
      BY <1>7 DEF ConsumeSpend, Idle
    <2>2. CASE Spendable(consumeCall[e].id)
      BY <1>7, <2>1, <2>2, SMTT(30) DEF ConsumeSpend, Spendable, Consuming, Row, Absent
    <2>3. CASE ~Spendable(consumeCall[e].id)
      BY <1>7, <2>3 DEF ConsumeSpend
    <2>4. QED
      BY <2>2, <2>3
  <1>8. ASSUME NEW e \in Execution, ConsumeAudit(e) PROVE TypeOK'
    BY <1>8 DEF ConsumeAudit, Consuming, Idle
  <1>9. ASSUME NEW e \in Execution, CrashConsume(e) PROVE TypeOK'
    BY <1>9 DEF CrashConsume, Consuming, Idle
  <1>10. CASE ExpireDue
    BY <1>10, SweepTyped DEF ExpireDue
  <1>11. CASE Tick
    BY <1>11 DEF Tick
  <1>12. CASE UNCHANGED vars
    BY <1>12 DEF vars
  <1>13. QED
    BY <1>1, <1>2, <1>3, <1>4, <1>5, <1>6, <1>7, <1>8, <1>9, <1>10, <1>11, <1>12 DEF Next

\* Every reachable state of the service is of its type.
THEOREM TypeCorrect == Spec => []TypeOK
  <1>1. Init => TypeOK
    BY DEF Init, TypeOK
  <1>2. QED
    BY <1>1, TypeStep, PTL DEF Spec

-----------------------------------------------------------------------------
\* Inv is inductive: the interesting steps are a decision that is written on a
\* row which changed since it was read, and a spend that lost the race.
LEMMA InvStep == Inv /\ [Next]_vars => Inv'
  <1> SUFFICES ASSUME Inv, [Next]_vars PROVE Inv'
    OBVIOUS
  <1>0. TypeOK /\ TypeOK'
    BY TypeStep DEF Inv
  <1>a. ASSUME UNCHANGED <<approval, decideCall>>
        PROVE  CallsInFlight' /\ GrantsEligible' /\ QuorumMet' /\ RejectedStays'
    BY <1>a DEF Inv, CallsInFlight, GrantsEligible, QuorumMet, RejectedStays
  <1>1. ASSUME NEW id \in ApprovalId, NEW digest \in Digest, NEW action \in Action,
               NEW who \in Actor, NEW required \in 1..MaxRequired,
               NEW eligible \in SUBSET Actor,
               Request(id, digest, action, who, required, eligible)
        PROVE  Inv'
    <2>1. /\ approval[id] = Absent
          /\ approval'[id].status = "pending" /\ approval'[id].granted = {}
          /\ approval'[id].rejected = {}
          /\ \A i \in ApprovalId \ {id} : approval'[i] = approval[i]
          /\ UNCHANGED <<decideCall, consumeCall>>
      BY <1>0, <1>1 DEF Request, TypeOK
    <2>2. CallsInFlight'
      BY <1>0, <2>1 DEF Inv, CallsInFlight, TypeOK, Deciding
    <2>3. GrantsEligible' /\ QuorumMet' /\ RejectedStays'
      BY <1>0, <2>1 DEF Inv, GrantsEligible, QuorumMet, RejectedStays, TypeOK, Absent
    <2>4. ChecksHold' /\ SingleUse'
      BY <1>0, <2>1 DEF Inv, ChecksHold, SingleUse, Spent, TypeOK, Consuming, Absent
    <2>5. QED
      BY <1>0, <2>2, <2>3, <2>4 DEF Inv
  <1>2. ASSUME NEW d \in DecideCall, NEW id \in ApprovalId, NEW actor \in Actor,
               NEW decision \in {"granted", "rejected"}, NEW steppedUp \in BOOLEAN,
               DecideRead(d, id, actor, decision, steppedUp)
        PROVE  Inv'
    <2>1. CallsInFlight'
      <3>1. approval[id] # Absent
        BY <1>2 DEF DecideRead, Absent
      <3>2. QED
        BY <1>0, <1>2, <3>1, NextStatusSound DEF Inv, CallsInFlight, DecideRead, MayDecide, TypeOK
    <2>2. UNCHANGED <<approval, consumeCall>>
      BY <1>2 DEF DecideRead
    <2>3. QED
      BY <1>0, <2>1, <2>2 DEF Inv, GrantsEligible, QuorumMet, RejectedStays, ChecksHold,
                              SingleUse, Spent
  <1>b. ASSUME ExpireApprovals, UNCHANGED <<decideCall, consumeCall>>
        PROVE  Inv'
    <2>1. CallsInFlight'
      BY <1>0, <1>b, SweepTyped DEF Inv, CallsInFlight, TypeOK, Deciding, Row, Absent
    <2>2. GrantsEligible' /\ QuorumMet' /\ RejectedStays'
      BY <1>0, <1>b, SweepTyped DEF Inv, GrantsEligible, QuorumMet, RejectedStays, Row, Absent
    <2>3. ChecksHold' /\ SingleUse'
      BY <1>0, <1>b, SweepTyped DEF Inv, ChecksHold, SingleUse, Spent, TypeOK, Consuming, Row
    <2>4. QED
      BY <1>0, <2>1, <2>2, <2>3 DEF Inv
  <1>3. ASSUME NEW id \in ApprovalId, DecideLate(id) PROVE Inv'
    BY <1>b, <1>3 DEF DecideLate
  <1>4. ASSUME NEW d \in DecideCall, DecideRecord(d) PROVE Inv'
    <2> DEFINE call == decideCall[d]
               id == call.id
               row == approval[id]
    <2>1. call \in Deciding /\ UNCHANGED consumeCall
      BY <1>0, <1>4 DEF DecideRecord, TypeOK
    <2>2. CASE ~Takes(id, call.actor)
      BY <1>0, <1>4, <2>2 DEF DecideRecord, Inv, CallsInFlight, GrantsEligible, QuorumMet,
                              RejectedStays, ChecksHold, SingleUse, Spent
    <2>3. CASE Takes(id, call.actor)
      <3>1. /\ row \in Row /\ row.status = "pending" /\ call.actor \notin row.granted
            /\ id \in ApprovalId
        BY <1>0, <2>1, <2>3 DEF Takes, Decided, TypeOK, Deciding, Absent
      <3>2. /\ \A i \in ApprovalId \ {id} : approval'[i] = approval[i]
            /\ approval'[id] = [row EXCEPT
                 !.status = call.nextStatus,
                 !.granted = IF call.decision = "granted" THEN @ \cup {call.actor} ELSE @,
                 !.rejected = IF call.decision = "rejected" THEN @ \cup {call.actor} ELSE @]
        BY <1>0, <1>4, <2>3, <3>1 DEF DecideRecord, RecordDecision, TypeOK
      <3>a. /\ approval'[id] \in Row /\ approval'[id] # Absent
            /\ approval'[id].status = call.nextStatus
            /\ approval'[id].eligible = row.eligible
            /\ approval'[id].requestedBy = row.requestedBy
            /\ approval'[id].required = row.required
            /\ approval'[id].granted =
                 IF call.decision = "granted" THEN row.granted \cup {call.actor} ELSE row.granted
            /\ approval'[id].rejected =
                 IF call.decision = "rejected" THEN row.rejected \cup {call.actor} ELSE row.rejected
        <4> DEFINE g == IF call.decision = "granted" THEN row.granted \cup {call.actor}
                                                    ELSE row.granted
                   r == IF call.decision = "rejected" THEN row.rejected \cup {call.actor}
                                                     ELSE row.rejected
                   next == [row EXCEPT !.status = call.nextStatus, !.granted = g, !.rejected = r]
        <4>1. approval'[id] = next
          BY <3>2
        <4>2. g \in SUBSET Actor /\ r \in SUBSET Actor
          BY <2>1, <3>1 DEF Row, Deciding
        <4>3. call.nextStatus \in {"pending", "granted", "rejected"}
          BY <2>1 DEF Deciding
        <4> HIDE DEF g, r
        <4>4. /\ next \in Row
              /\ next.status = call.nextStatus /\ next.granted = g /\ next.rejected = r
              /\ next.eligible = row.eligible /\ next.required = row.required
              /\ next.requestedBy = row.requestedBy
          BY <3>1, <4>2, <4>3 DEF Row
        <4>5. next # Absent
          BY <4>3, <4>4 DEF Absent
        <4> HIDE DEF next
        <4>6. QED
          BY <4>1, <4>4, <4>5 DEF g, r
      <3>3. /\ Cardinality(row.granted) \in Nat
            /\ Cardinality(row.granted \cup {call.actor}) = Cardinality(row.granted) + 1
        BY <2>1, <3>1, GrantCounts DEF Row, Deciding
      <3>b. Cardinality(approval'[id].granted) >= Cardinality(row.granted)
        BY <3>a, <3>3
      <3>4. /\ call.actor \in row.eligible \ {row.requestedBy}
            /\ call.nextStatus = "rejected" <=> call.decision = "rejected"
            /\ call.nextStatus = "granted" => Cardinality(row.granted) + 1 >= row.required
        BY <1>4, <2>1 DEF Inv, CallsInFlight, DecideRecord
      <3>5. CallsInFlight'
        <4> SUFFICES ASSUME NEW c \in DecideCall, decideCall'[c] # Idle
                     PROVE  LET now_call == decideCall'[c]
                                now_row == approval'[now_call.id]
                            IN /\ now_row # Absent
                               /\ now_call.actor \in now_row.eligible \ {now_row.requestedBy}
                               /\ now_call.nextStatus = "rejected" <=> now_call.decision = "rejected"
                               /\ now_call.nextStatus = "granted" =>
                                    Cardinality(now_row.granted) + 1 >= now_row.required
          BY DEF CallsInFlight
        <4>1. c # d /\ decideCall'[c] = decideCall[c] /\ decideCall[c] \in Deciding
          BY <1>0, <1>4 DEF DecideRecord, TypeOK
        <4>2. CASE decideCall[c].id = id
          <5>1. /\ row # Absent
                /\ decideCall[c].actor \in row.eligible \ {row.requestedBy}
                /\ decideCall[c].nextStatus = "rejected" <=> decideCall[c].decision = "rejected"
                /\ decideCall[c].nextStatus = "granted" =>
                     Cardinality(row.granted) + 1 >= row.required
            BY <4>1, <4>2 DEF Inv, CallsInFlight
          <5>2. Cardinality(approval'[id].granted) \in Nat /\ row.required \in Nat
            BY <2>1, <3>1, <3>a, <3>3 DEF Row
          <5>3. QED
            <6>1. /\ approval'[decideCall'[c].id] = approval'[id]
                  /\ decideCall'[c] = decideCall[c]
              BY <4>1, <4>2
            <6>2. /\ approval'[id].required = row.required
                  /\ approval'[id].eligible = row.eligible
                  /\ approval'[id].requestedBy = row.requestedBy
                  /\ approval'[id] # Absent
              BY <3>a
            <6>3. decideCall[c].nextStatus = "granted" =>
                    Cardinality(approval'[id].granted) + 1 >= approval'[id].required
              BY <3>3, <3>b, <5>1, <5>2, <6>2
            <6> QED
              BY <5>1, <6>1, <6>2, <6>3
        <4>3. CASE decideCall[c].id # id
          BY <3>2, <4>1, <4>3 DEF Inv, CallsInFlight, Deciding
        <4>4. QED
          BY <4>2, <4>3
      <3>6. GrantsEligible' /\ RejectedStays'
        <4>1. /\ call.decision \in {"granted", "rejected"}
              /\ row # Absent
          BY <2>1, <3>1 DEF Deciding, Absent
        <4>2. row.granted \subseteq row.eligible \ {row.requestedBy} /\ row.rejected = {}
          BY <3>1, <4>1 DEF Inv, GrantsEligible, RejectedStays
        <4>3. /\ approval'[id].granted \subseteq approval'[id].eligible \ {approval'[id].requestedBy}
              /\ approval'[id].rejected # {} => approval'[id].status = "rejected"
          BY <3>a, <3>4, <4>1, <4>2
        <4>4. QED
          BY <3>2, <4>3 DEF Inv, GrantsEligible, RejectedStays
      <3>7. QuorumMet'
        <4>1. approval'[id].status = "granted" =>
                Cardinality(approval'[id].granted) >= approval'[id].required
          <5>1. call.decision \in {"granted", "rejected"}
            BY <2>1 DEF Deciding
          <5>2. QED
            BY <3>a, <3>3, <3>4, <5>1
        <4>2. approval'[id].status # "consumed"
          BY <2>1, <3>a DEF Deciding
        <4>3. QED
          BY <3>2, <4>1, <4>2 DEF Inv, QuorumMet
      <3>8. ChecksHold' /\ SingleUse'
        BY <1>0, <2>1, <3>1, <3>2 DEF Inv, ChecksHold, SingleUse, Spent, TypeOK, Consuming
      <3>9. QED
        BY <1>0, <3>5, <3>6, <3>7, <3>8 DEF Inv
    <2>4. QED
      BY <2>2, <2>3
  <1>5. ASSUME NEW d \in DecideCall, CrashDecide(d) PROVE Inv'
    BY <1>0, <1>5 DEF CrashDecide, Inv, CallsInFlight, GrantsEligible, QuorumMet,
                      RejectedStays, ChecksHold, SingleUse, Spent, TypeOK
  <1>6. ASSUME NEW e \in Execution, NEW id \in ApprovalId, NEW digest \in Digest,
               NEW action \in Action \cup {Unchecked}, ConsumeCheck(e, id, digest, action)
        PROVE  Inv'
    <2>1. UNCHANGED <<approval, decideCall>>
      BY <1>6 DEF ConsumeCheck
    <2>2. ChecksHold' /\ SingleUse'
      BY <1>0, <1>6 DEF ConsumeCheck, Binds, Inv, ChecksHold, SingleUse, Spent, TypeOK, Idle
    <2>3. QED
      BY <1>0, <1>a, <2>1, <2>2 DEF Inv
  <1>7. ASSUME NEW e \in Execution, ConsumeSpend(e) PROVE Inv'
    <2> DEFINE id == consumeCall[e].id
    <2>1. consumeCall[e] \in Consuming /\ consumeCall[e].pc = "checked"
      BY <1>0, <1>7 DEF ConsumeSpend, TypeOK, Idle
    <2>2. CASE Spendable(id)
      <3>1. /\ approval[id] \in Row /\ approval[id].status = "granted" /\ id \in ApprovalId
            /\ \A i \in ApprovalId \ {id} : approval'[i] = approval[i]
            /\ approval'[id] = [approval[id] EXCEPT !.status = "consumed"]
            /\ \A f \in Execution \ {e} : consumeCall'[f] = consumeCall[f]
            /\ consumeCall'[e] = [consumeCall[e] EXCEPT !.pc = "spent"]
            /\ UNCHANGED decideCall
        BY <1>0, <1>7, <2>1, <2>2 DEF ConsumeSpend, Spendable, TypeOK, Consuming, Absent
      <3>2. CallsInFlight'
        BY <1>0, <3>1 DEF Inv, CallsInFlight, TypeOK, Deciding, Row, Absent
      <3>3. GrantsEligible' /\ QuorumMet' /\ RejectedStays'
        BY <3>1 DEF Inv, GrantsEligible, QuorumMet, RejectedStays, Row, Absent
      <3>4. ChecksHold'
        BY <1>0, <2>1, <3>1 DEF Inv, ChecksHold, TypeOK, Consuming, Row, Idle
      <3>5. SingleUse'
        <4>1. \A f \in Execution, i \in ApprovalId :
                Spent(f, i)' <=> (f = e /\ i = id) \/ Spent(f, i)
          BY <1>0, <2>1, <3>1 DEF Spent, TypeOK, Consuming, Idle
        <4>2. \A f \in Execution : ~Spent(f, id)
          BY <3>1 DEF Inv, SingleUse
        <4>3. approval'[id].status = "consumed"
          BY <3>1 DEF Row
        <4>4. QED
          BY <3>1, <4>1, <4>2, <4>3 DEF Inv, SingleUse
      <3>6. QED
        BY <1>0, <3>2, <3>3, <3>4, <3>5 DEF Inv
    <2>3. CASE ~Spendable(id)
      <3>1. UNCHANGED <<approval, decideCall>>
        BY <1>7, <2>3 DEF ConsumeSpend
      <3>2. ChecksHold' /\ SingleUse'
        BY <1>0, <1>7, <2>3 DEF ConsumeSpend, Inv, ChecksHold, SingleUse, Spent, TypeOK
      <3>3. QED
        BY <1>0, <1>a, <3>1, <3>2 DEF Inv
    <2>4. QED
      BY <2>2, <2>3
  <1>8. ASSUME NEW e \in Execution, ConsumeAudit(e) \/ CrashConsume(e) PROVE Inv'
    <2>1. UNCHANGED <<approval, decideCall>>
      BY <1>8 DEF ConsumeAudit, CrashConsume
    <2>a. /\ consumeCall[e] \in Consuming
          /\ \A f \in Execution \ {e} : consumeCall'[f] = consumeCall[f]
      BY <1>0, <1>8 DEF ConsumeAudit, CrashConsume, TypeOK, Idle
    <2>b. \/ consumeCall'[e] = Idle
          \/ /\ consumeCall'[e].id = consumeCall[e].id
             /\ consumeCall'[e].digest = consumeCall[e].digest
             /\ consumeCall'[e].action = consumeCall[e].action
             /\ consumeCall[e].pc = "spent"
      <3>1. CASE ConsumeAudit(e)
        BY <1>0, <2>a, <3>1 DEF ConsumeAudit, TypeOK, Consuming
      <3>2. CASE CrashConsume(e)
        BY <1>0, <2>a, <3>2 DEF CrashConsume, TypeOK, Consuming
      <3>3. QED
        BY <1>8, <3>1, <3>2
    <2>c. consumeCall[e] # Idle
      BY <2>a DEF Consuming, Idle
    <2>d. ChecksHold'
      BY <2>1, <2>a, <2>b, <2>c DEF Inv, ChecksHold
    <2>e. SingleUse'
      <3>1. \A f \in Execution, i \in ApprovalId : Spent(f, i)' => Spent(f, i)
        BY <2>a, <2>b, <2>c DEF Spent
      <3>2. QED
        BY <2>1, <3>1 DEF Inv, SingleUse
    <2>2. ChecksHold' /\ SingleUse'
      BY <2>d, <2>e
    <2>3. QED
      BY <1>0, <1>a, <2>1, <2>2 DEF Inv
  <1>9. CASE ExpireDue
    BY <1>b, <1>9 DEF ExpireDue
  <1>10. CASE Tick \/ UNCHANGED vars
    BY <1>0, <1>10, <1>a DEF Tick, vars, Inv, ChecksHold, SingleUse, Spent
  <1>11. QED
    BY <1>1, <1>2, <1>3, <1>4, <1>5, <1>6, <1>7, <1>8, <1>9, <1>10 DEF Next

LEMMA InvCorrect == Spec => []Inv
  <1>1. Init => Inv
    BY DEF Init, Inv, TypeOK, CallsInFlight, GrantsEligible, QuorumMet, RejectedStays,
           ChecksHold, SingleUse, Spent, Absent, Idle
  <1>2. QED
    BY <1>1, InvStep, PTL DEF Spec

\* A granted approval has its quorum, for every interleaving of decisions.
THEOREM QuorumBehindEveryGrant == Spec => []GrantedByQuorum
  <1>1. Inv => GrantedByQuorum
    BY DEF Inv, GrantsEligible, QuorumMet, GrantedByQuorum, Absent
  <1>2. QED
    BY <1>1, InvCorrect, PTL

\* An approval is won by at most one execution.
THEOREM ApprovalsAreSingleUse == Spec => []SingleUse
  <1>1. Inv => SingleUse
    BY DEF Inv
  <1>2. QED
    BY <1>1, InvCorrect, PTL

\* What is performed is what a quorum approved and nobody rejected.
THEOREM PerformedAsApproved == Spec => []PerformsWhatWasApproved
  <1>1. Inv => PerformsWhatWasApproved
    <2> SUFFICES ASSUME Inv, NEW e \in Execution, consumeCall[e].pc = "performed"
                 PROVE  LET call == consumeCall[e]
                            row == approval[call.id]
                        IN /\ call.digest = row.digest
                           /\ call.action \in {row.action, Unchecked}
                           /\ row.rejected = {}
                           /\ Cardinality(row.granted) >= row.required
      BY DEF PerformsWhatWasApproved
    <2>1. consumeCall[e] \in Consuming
      BY DEF Inv, TypeOK, Idle
    <2>2. QED
      BY <2>1 DEF Inv, ChecksHold, QuorumMet, RejectedStays, Consuming, Idle, Absent
  <1>2. QED
    BY <1>1, InvCorrect, PTL

\* A rejection is never overturned by a decision that was already in flight.
THEOREM RejectionsAreDecisive == Spec => []RejectionIsDecisive
  <1>1. Inv => RejectionIsDecisive
    BY DEF Inv, RejectedStays, ChecksHold, RejectionIsDecisive
  <1>2. QED
    BY <1>1, InvCorrect, PTL

-----------------------------------------------------------------------------
\* The mapping of the abstract authority's variables, row by row and call by
\* call: what the abstract specification sees of a state.
Backers(id) == IF approval[id] = Absent THEN {} ELSE approval[id].granted
HoldersOf(id) == {e \in Execution : Spent(e, id)}
Acts == {<<e, consumeCall[e].digest>> :
           e \in {f \in Execution : consumeCall[f].pc = "performed"}}

SameRows ==
  \A id \in ApprovalId :
    Stage(id)' = Stage(id) /\ Terms(id)' = Terms(id) /\ Backers(id)' = Backers(id)
SameHolders == \A id \in ApprovalId : HoldersOf(id)' = HoldersOf(id)

LEMMA RowsKept ==
  ASSUME UNCHANGED approval
  PROVE  SameRows
  BY DEF SameRows, Stage, Terms, Backers

LEMMA HoldersKept ==
  ASSUME UNCHANGED consumeCall
  PROVE  SameHolders /\ Acts' = Acts
  BY DEF SameHolders, HoldersOf, Acts, Spent

\* A step that changes none of the mapped values is a stuttering step.
LEMMA AuthorityStutters ==
  ASSUME SameRows, SameHolders, Acts' = Acts
  PROVE  UNCHANGED Authority!vars
  BY DEF SameRows, SameHolders, Acts, Backers, HoldersOf, Authority!vars

\* What a row of each status is to the abstract authority.
LEMMA StageOfRow ==
  ASSUME NEW id \in ApprovalId, approval[id] \in Row
  PROVE  /\ approval[id] # Absent
         /\ approval[id].status = "pending" => Stage(id) = "open"
         /\ approval[id].status = "granted" => Stage(id) = "authorised"
         /\ approval[id].status = "consumed" => Stage(id) = "spent"
         /\ approval[id].status \in {"rejected", "expired"} => Stage(id) = "closed"
         /\ Terms(id) = [proposal |-> approval[id].digest,
                         asker |-> approval[id].requestedBy,
                         needed |-> approval[id].required]
         /\ Backers(id) = approval[id].granted
  <1>1. approval[id] # Absent
    BY DEF Row, Absent
  <1>2. QED
    BY <1>1 DEF Stage, Terms, Backers

\* The same of the state a step leads to.
LEMMA StageOfRowNext ==
  ASSUME NEW id \in ApprovalId, approval'[id] \in Row
  PROVE  /\ approval'[id] # Absent
         /\ approval'[id].status = "pending" => Stage(id)' = "open"
         /\ approval'[id].status = "granted" => Stage(id)' = "authorised"
         /\ approval'[id].status = "consumed" => Stage(id)' = "spent"
         /\ approval'[id].status \in {"rejected", "expired"} => Stage(id)' = "closed"
         /\ Terms(id)' = [proposal |-> approval'[id].digest,
                          asker |-> approval'[id].requestedBy,
                          needed |-> approval'[id].required]
         /\ Backers(id)' = approval'[id].granted
  <1>1. approval'[id] # Absent
    BY DEF Row, Absent
  <1>2. QED
    BY <1>1 DEF Stage, Terms, Backers, Absent

\* A sweep closes the open requests it finds past their expiry, all in one step.
LEMMA SweepCloses ==
  ASSUME Inv, ExpireApprovals, UNCHANGED consumeCall
  PROVE  [Authority!Next]_(Authority!vars)
  <1> DEFINE S == {id \in ApprovalId : Due(id)}
  <1>0. TypeOK
    BY DEF Inv
  <1>1. SameHolders /\ Acts' = Acts
    BY HoldersKept
  <1>2. \A id \in ApprovalId : Terms(id)' = Terms(id) /\ Backers(id)' = Backers(id)
    BY <1>0, SweepTyped DEF Terms, Backers, Row, Absent
  <1>3. ASSUME NEW id \in S PROVE Stage(id) = "open" /\ Stage(id)' = "closed"
    <2>1. approval[id] \in Row /\ approval[id].status = "pending"
      BY <1>0 DEF TypeOK, Due, Absent
    <2>2. approval'[id] = [approval[id] EXCEPT !.status = "expired"]
      BY DEF ExpireApprovals
    <2>3. approval'[id] \in Row /\ approval'[id].status = "expired"
      BY <2>1, <2>2 DEF Row
    <2>4. QED
      BY <2>1, <2>3, StageOfRow, StageOfRowNext
  <1>4. ASSUME NEW id \in ApprovalId \ S PROVE Stage(id)' = Stage(id)
    BY DEF ExpireApprovals, Stage
  <1>5. CASE S = {}
    BY <1>1, <1>2, <1>4, <1>5, AuthorityStutters DEF SameRows
  <1>6. CASE S # {}
    <2> HIDE DEF S
    <2>1. S \in SUBSET ApprovalId
      BY DEF S
    <2>2. Authority!Close(S)
      BY <1>1, <1>2, <1>3, <1>4, <1>6, <2>1
         DEF Authority!Close, SameHolders, Backers, HoldersOf, Acts
    <2>3. QED
      BY <2>1, <2>2 DEF Authority!Next
  <1>7. QED
    BY <1>5, <1>6

-----------------------------------------------------------------------------
\* The count the abstract module takes of its backers is the same count.
LEMMA SameCardinality == \A S : Authority!Cardinality(S) = Cardinality(S)
  BY DEF Authority!Cardinality, Cardinality

LEMMA ActsKept ==
  ASSUME \A e \in Execution :
           /\ consumeCall'[e].pc = "performed" <=> consumeCall[e].pc = "performed"
           /\ consumeCall[e].pc = "performed" => consumeCall'[e].digest = consumeCall[e].digest
  PROVE  Acts' = Acts
  BY DEF Acts

\* Every step of the service is one step of the abstract authority, or none.
LEMMA AuthorityStep ==
  ASSUME Inv, Inv', [Next]_vars
  PROVE  [Authority!Next]_(Authority!vars)
  <1>0. TypeOK /\ TypeOK'
    BY DEF Inv
  <1>1. ASSUME NEW id \in ApprovalId, NEW digest \in Digest, NEW action \in Action,
               NEW who \in Actor, NEW required \in 1..MaxRequired,
               NEW eligible \in SUBSET Actor,
               Request(id, digest, action, who, required, eligible)
        PROVE  [Authority!Next]_(Authority!vars)
    <2>1. SameHolders /\ Acts' = Acts
      BY <1>1, HoldersKept DEF Request
    <2>2. /\ approval'[id].status = "pending" /\ approval'[id].granted = {}
          /\ approval'[id].digest = digest /\ approval'[id].requestedBy = who
          /\ approval'[id].required = required
          /\ approval'[id] \in Row
      BY <1>0, <1>1, ApprovalAssumption DEF Request, TypeOK, Row
    <2>3. Stage(id) = "absent" /\ Backers(id) = {}
      BY <1>1 DEF Request, Stage, Backers, Absent
    <2>4. /\ Stage(id)' = "open" /\ Backers(id)' = {}
          /\ Terms(id)' = [proposal |-> digest, asker |-> who, needed |-> required]
      BY <2>2, StageOfRowNext
    <2>5. \A i \in ApprovalId \ {id} :
            Stage(i)' = Stage(i) /\ Terms(i)' = Terms(i) /\ Backers(i)' = Backers(i)
      BY <1>0, <1>1 DEF Request, Stage, Terms, Backers, TypeOK
    <2>6. Authority!Ask(id, digest, who, required)
      BY <2>1, <2>3, <2>4, <2>5
         DEF Authority!Ask, SameHolders, Backers, HoldersOf, Acts
    <2>7. QED
      BY <2>6 DEF Authority!Next
  <1>2. ASSUME NEW d \in DecideCall, NEW id \in ApprovalId, NEW actor \in Actor,
               NEW decision \in {"granted", "rejected"}, NEW steppedUp \in BOOLEAN,
               DecideRead(d, id, actor, decision, steppedUp)
        PROVE  UNCHANGED Authority!vars
    BY <1>2, RowsKept, HoldersKept, AuthorityStutters DEF DecideRead
  <1>3. ASSUME NEW id \in ApprovalId, DecideLate(id)
        PROVE  [Authority!Next]_(Authority!vars)
    BY <1>3, SweepCloses DEF DecideLate
  <1>4. ASSUME NEW d \in DecideCall, DecideRecord(d)
        PROVE  [Authority!Next]_(Authority!vars)
    <2> DEFINE call == decideCall[d]
    <2>a. call \in Deciding /\ UNCHANGED consumeCall
      BY <1>0, <1>4 DEF DecideRecord, TypeOK
    <2>b. PICK id \in ApprovalId : id = call.id
      BY <2>a DEF Deciding
    <2> DEFINE row == approval[id]
    <2>1. call \in Deciding /\ call.id = id /\ UNCHANGED consumeCall
      BY <2>a, <2>b
    <2>2. SameHolders /\ Acts' = Acts
      BY <2>1, HoldersKept
    <2>3. CASE ~Takes(id, call.actor)
      <3>1. UNCHANGED approval
        BY <1>4, <2>1, <2>3 DEF DecideRecord
      <3>2. QED
        BY <2>2, <3>1, RowsKept, AuthorityStutters
    <2>4. CASE Takes(id, call.actor)
      <3>1. row \in Row /\ row.status = "pending" /\ call.actor \notin row.granted
        BY <1>0, <2>1, <2>4 DEF Takes, Decided, TypeOK, Absent
      <3> DEFINE g == IF call.decision = "granted" THEN row.granted \cup {call.actor}
                                                  ELSE row.granted
                 r == IF call.decision = "rejected" THEN row.rejected \cup {call.actor}
                                                   ELSE row.rejected
                 next == [row EXCEPT !.status = call.nextStatus, !.granted = g, !.rejected = r]
      <3>2. approval'[id] = next /\ \A i \in ApprovalId \ {id} : approval'[i] = approval[i]
        BY <1>0, <1>4, <2>1, <2>4 DEF DecideRecord, RecordDecision, TypeOK
      <3>3. g \in SUBSET Actor /\ r \in SUBSET Actor
        BY <2>1, <3>1 DEF Row, Deciding
      <3>4. /\ call.nextStatus \in {"pending", "granted", "rejected"}
            /\ call.decision \in {"granted", "rejected"} /\ call.actor \in Actor
        BY <2>1 DEF Deciding
      <3>5. /\ call.actor # row.requestedBy
            /\ call.nextStatus = "rejected" <=> call.decision = "rejected"
            /\ call.nextStatus = "granted" => Cardinality(row.granted) + 1 >= row.required
        BY <1>4, <2>1 DEF Inv, CallsInFlight, DecideRecord
      <3>6. call.decision = "granted" => g = row.granted \cup {call.actor}
        OBVIOUS
      <3>7. call.decision = "rejected" => g = row.granted
        OBVIOUS
      <3> HIDE DEF g, r
      <3>8. /\ next \in Row
            /\ next.status = call.nextStatus /\ next.granted = g
            /\ next.digest = row.digest /\ next.required = row.required
            /\ next.requestedBy = row.requestedBy
        BY <3>1, <3>3, <3>4 DEF Row
      <3> HIDE DEF next
      <3>9. /\ Stage(id) = "open" /\ Backers(id) = row.granted
            /\ Terms(id).asker = row.requestedBy /\ Terms(id).needed = row.required
            /\ Terms(id)' = Terms(id) /\ Backers(id)' = g
            /\ call.nextStatus = "pending" => Stage(id)' = "open"
            /\ call.nextStatus = "granted" => Stage(id)' = "authorised"
            /\ call.nextStatus = "rejected" => Stage(id)' = "closed"
        BY <2>1, <3>1, <3>2, <3>8, StageOfRow, StageOfRowNext
      <3>10. \A i \in ApprovalId \ {id} :
               Stage(i)' = Stage(i) /\ Terms(i)' = Terms(i) /\ Backers(i)' = Backers(i)
        BY <3>2 DEF Stage, Terms, Backers
      <3>11. CASE call.decision = "granted"
        <4>1. Cardinality(row.granted \cup {call.actor}) = Cardinality(row.granted) + 1
          BY <3>1, <3>4, GrantCounts DEF Row
        <4>2. /\ call.nextStatus \in {"pending", "granted"}
              /\ call.nextStatus = "granted" => Cardinality(g) >= row.required
          BY <3>4, <3>5, <3>6, <3>11, <4>1
        <4>3. call.actor \notin row.granted \cup {row.requestedBy}
          BY <3>1, <3>5
        <4>a. PICK who \in Actor : who = call.actor
          BY <3>4
        <4>4. g = row.granted \cup {who}
          BY <3>6, <3>11, <4>a
        <4> HIDE DEF call, row
        <4>5. Authority!Back(id, who)
          <5>1. who \notin Backers(id) \cup {Terms(id).asker}
            BY <3>9, <4>3, <4>a
          <5>2. Backers(id)' = Backers(id) \cup {who}
            BY <3>9, <4>4
          <5>3. Stage(id)' = Stage(id) \/ (Cardinality(Backers(id)') >= Terms(id).needed
                                           /\ Stage(id)' = "authorised")
            BY <3>9, <4>2
          <5>4. \A i \in ApprovalId : Terms(i)' = Terms(i)
            BY <3>9, <3>10
          <5>5. CASE Stage(id)' = Stage(id)
            BY <2>2, <3>9, <3>10, <5>1, <5>2, <5>4, <5>5
               DEF Authority!Back, SameHolders, Backers, HoldersOf, Acts
          <5>6. CASE Cardinality(Backers(id)') >= Terms(id).needed /\ Stage(id)' = "authorised"
            <6>1. /\ [i \in ApprovalId |-> Stage(i)]' =
                       [[i \in ApprovalId |-> Stage(i)] EXCEPT ![id] = "authorised"]
                  /\ [i \in ApprovalId |-> Terms(i)]' = [i \in ApprovalId |-> Terms(i)]
                  /\ [i \in ApprovalId |-> Backers(i)]' =
                       [[i \in ApprovalId |-> Backers(i)] EXCEPT ![id] = @ \cup {who}]
                  /\ [i \in ApprovalId |-> HoldersOf(i)]' = [i \in ApprovalId |-> HoldersOf(i)]
              BY <2>2, <3>9, <3>10, <5>2, <5>4, <5>6 DEF SameHolders
            <6>2. /\ Cardinality([i \in ApprovalId |-> Backers(i)]'[id])
                        >= [i \in ApprovalId |-> Terms(i)][id].needed
                  /\ [i \in ApprovalId |-> Stage(i)][id] = "open"
                  /\ who \notin [i \in ApprovalId |-> Backers(i)][id]
                                \cup {[i \in ApprovalId |-> Terms(i)][id].asker}
                  /\ [i \in ApprovalId |-> Backers(i)][id] = Backers(id)
              BY <3>9, <5>1, <5>6
            <6>3. QED
              BY <2>2, <6>1, <6>2, SameCardinality DEF Authority!Back, Backers, HoldersOf, Acts
          <5>7. QED
            BY <5>3, <5>5, <5>6
        <4>6. QED
          BY <4>5 DEF Authority!Next
      <3>12. CASE call.decision = "rejected"
        <4>1. call.nextStatus = "rejected"
          BY <3>5, <3>12
        <4>2. Stage(id) = "open" /\ Stage(id)' = "closed" /\ Backers(id)' = Backers(id)
          BY <3>7, <3>9, <3>12, <4>1
        <4> HIDE DEF call, row
        <4>3. Authority!Close({id})
          BY <2>1, <2>2, <3>9, <3>10, <4>2
             DEF Authority!Close, SameHolders, Backers, HoldersOf, Acts
        <4>4. QED
          BY <2>1, <4>3 DEF Authority!Next
      <3>13. QED
        BY <3>4, <3>11, <3>12
    <2>5. QED
      BY <2>3, <2>4
  <1>5. ASSUME NEW d \in DecideCall, CrashDecide(d)
        PROVE  UNCHANGED Authority!vars
    BY <1>5, RowsKept, HoldersKept, AuthorityStutters DEF CrashDecide
  <1>6. ASSUME NEW e \in Execution, NEW id \in ApprovalId, NEW digest \in Digest,
               NEW action \in Action \cup {Unchecked}, ConsumeCheck(e, id, digest, action)
        PROVE  UNCHANGED Authority!vars
    <2>1. /\ consumeCall[e] = Idle /\ consumeCall'[e].pc = "checked"
          /\ \A f \in Execution \ {e} : consumeCall'[f] = consumeCall[f]
      BY <1>0, <1>6 DEF ConsumeCheck, TypeOK
    <2>2. SameHolders /\ Acts' = Acts
      BY <2>1 DEF SameHolders, HoldersOf, Acts, Spent, Idle
    <2>3. QED
      BY <1>6, <2>2, RowsKept, AuthorityStutters DEF ConsumeCheck
  <1>7. ASSUME NEW e \in Execution, ConsumeSpend(e)
        PROVE  [Authority!Next]_(Authority!vars)
    <2>a. consumeCall[e] \in Consuming /\ consumeCall[e].pc = "checked"
      BY <1>0, <1>7 DEF ConsumeSpend, TypeOK, Idle
    <2>b. PICK id \in ApprovalId : id = consumeCall[e].id
      BY <2>a DEF Consuming
    <2>1. consumeCall[e] \in Consuming /\ consumeCall[e].pc = "checked" /\ consumeCall[e].id = id
      BY <2>a, <2>b
    <2>2. CASE Spendable(id)
      <3>1. /\ approval[id] \in Row /\ approval[id].status = "granted"
            /\ \A i \in ApprovalId \ {id} : approval'[i] = approval[i]
            /\ approval'[id] = [approval[id] EXCEPT !.status = "consumed"]
            /\ \A f \in Execution \ {e} : consumeCall'[f] = consumeCall[f]
            /\ consumeCall'[e] = [consumeCall[e] EXCEPT !.pc = "spent"]
        BY <1>0, <1>7, <2>1, <2>2 DEF ConsumeSpend, Spendable, TypeOK, Absent
      <3>2. /\ approval'[id] \in Row /\ approval'[id].status = "consumed"
            /\ approval'[id].digest = approval[id].digest
            /\ approval'[id].requestedBy = approval[id].requestedBy
            /\ approval'[id].required = approval[id].required
            /\ approval'[id].granted = approval[id].granted
        BY <3>1 DEF Row
      <3>3. /\ Stage(id) = "authorised" /\ Stage(id)' = "spent"
            /\ Terms(id)' = Terms(id) /\ Backers(id)' = Backers(id)
        <4>1. /\ Stage(id) = "authorised" /\ Backers(id) = approval[id].granted
              /\ Terms(id) = [proposal |-> approval[id].digest,
                              asker |-> approval[id].requestedBy,
                              needed |-> approval[id].required]
          BY <3>1, StageOfRow
        <4>2. /\ Stage(id)' = "spent" /\ Backers(id)' = approval'[id].granted
              /\ Terms(id)' = [proposal |-> approval'[id].digest,
                               asker |-> approval'[id].requestedBy,
                               needed |-> approval'[id].required]
          BY <3>2, StageOfRowNext
        <4>3. QED
          BY <3>2, <4>1, <4>2
      <3>4. \A i \in ApprovalId \ {id} :
              Stage(i)' = Stage(i) /\ Terms(i)' = Terms(i) /\ Backers(i)' = Backers(i)
        BY <3>1 DEF Stage, Terms, Backers
      <3>5. /\ consumeCall'[e] # Idle /\ consumeCall'[e].pc = "spent"
            /\ consumeCall'[e].id = id /\ consumeCall'[e].digest = consumeCall[e].digest
        BY <2>1, <3>1 DEF Consuming, Idle
      <3>6. Acts' = Acts
        BY <2>1, <3>1, <3>5, ActsKept
      <3>7. \A f \in Execution, i \in ApprovalId :
              Spent(f, i)' <=> (f = e /\ i = id) \/ Spent(f, i)
        <4>1. \A i \in ApprovalId : ~Spent(e, i) /\ (Spent(e, i)' <=> i = id)
          BY <2>1, <3>1, <3>5 DEF Spent
        <4>2. \A f \in Execution \ {e}, i \in ApprovalId : Spent(f, i)' <=> Spent(f, i)
          BY <3>1 DEF Spent
        <4> QED
          BY <4>1, <4>2
      <3>8. \A f \in Execution : ~Spent(f, id)
        BY <2>1, <3>1 DEF Inv, SingleUse
      <3>9. HoldersOf(id)' = {e} /\ \A i \in ApprovalId \ {id} : HoldersOf(i)' = HoldersOf(i)
        BY <2>1, <3>7, <3>8 DEF HoldersOf
      <3>10. Authority!Take(id, e)
        BY <2>1, <3>3, <3>4, <3>6, <3>9
           DEF Authority!Take, Backers, HoldersOf, Acts
      <3>11. QED
        BY <2>1, <3>10 DEF Authority!Next
    <2>3. CASE ~Spendable(id)
      <3>1. /\ \A f \in Execution \ {e} : consumeCall'[f] = consumeCall[f]
            /\ consumeCall'[e] = Idle /\ UNCHANGED approval
        BY <1>0, <1>7, <2>1, <2>3 DEF ConsumeSpend, TypeOK
      <3>2. SameHolders /\ Acts' = Acts
        BY <2>1, <3>1 DEF SameHolders, HoldersOf, Acts, Spent, Idle
      <3>3. QED
        BY <3>1, <3>2, RowsKept, AuthorityStutters
    <2>4. QED
      BY <2>2, <2>3
  <1>8. ASSUME NEW e \in Execution, ConsumeAudit(e)
        PROVE  [Authority!Next]_(Authority!vars)
    <2>a. /\ consumeCall[e] \in Consuming /\ consumeCall[e].pc = "spent"
          /\ consumeCall[e] # Idle
      BY <1>0, <1>8 DEF ConsumeAudit, TypeOK, Consuming, Idle
    <2>b. PICK id \in ApprovalId : id = consumeCall[e].id
      BY <2>a DEF Consuming
    <2>1. /\ consumeCall[e] \in Consuming /\ consumeCall[e].pc = "spent"
          /\ consumeCall[e] # Idle /\ consumeCall[e].id = id
      BY <2>a, <2>b
    <2>2. PICK outcome \in {"performed", "burned"} :
            consumeCall' = [consumeCall EXCEPT ![e].pc = outcome]
      BY <1>8 DEF ConsumeAudit
    <2>3. /\ \A f \in Execution \ {e} : consumeCall'[f] = consumeCall[f]
          /\ consumeCall'[e] = [consumeCall[e] EXCEPT !.pc = outcome]
          /\ UNCHANGED approval
      BY <1>0, <1>8, <2>2 DEF ConsumeAudit, TypeOK
    <2>4. /\ consumeCall'[e].pc = outcome /\ consumeCall'[e].id = id
          /\ consumeCall'[e].digest = consumeCall[e].digest /\ consumeCall'[e] # Idle
      BY <2>1, <2>3 DEF Consuming, Idle
    <2>5. SameHolders
      <3>1. outcome # "checked" /\ outcome # "idle"
        BY <2>2
      <3>2. ASSUME NEW f \in Execution, NEW i \in ApprovalId
            PROVE  Spent(f, i)' <=> Spent(f, i)
        <4>1. CASE f = e
          BY <2>1, <2>4, <3>1, <4>1 DEF Spent
        <4>2. CASE f # e
          <5>1. consumeCall'[f] = consumeCall[f]
            BY <2>3, <4>2
          <5>2. QED
            BY <5>1 DEF Spent
        <4>3. QED
          BY <4>1, <4>2
      <3>3. QED
        BY <3>2 DEF SameHolders, HoldersOf
    <2>6. CASE outcome = "burned"
      <3>1. Acts' = Acts
        BY <2>1, <2>3, <2>4, <2>6, ActsKept
      <3>2. QED
        BY <2>3, <2>5, <3>1, RowsKept, AuthorityStutters
    <2>7. CASE outcome = "performed"
      <3>1. Acts' = Acts \cup {<<e, consumeCall[e].digest>>}
        <4>1. \A f \in Execution : consumeCall'[f].pc = "performed" <=>
                                     f = e \/ consumeCall[f].pc = "performed"
          BY <2>1, <2>3, <2>4, <2>7
        <4>2. \A f \in Execution : consumeCall'[f].digest = consumeCall[f].digest
          BY <2>3, <2>4
        <4>3. QED
          BY <4>1, <4>2 DEF Acts
      <3>2. /\ approval[id] \in Row
            /\ consumeCall[e].digest = approval[id].digest
        BY <1>0, <2>1 DEF Inv, ChecksHold, TypeOK, Absent
      <3>3. Terms(id).proposal = consumeCall[e].digest /\ e \in HoldersOf(id)
        BY <2>1, <3>2, StageOfRow DEF HoldersOf, Spent
      <3>4. SameRows
        BY <2>3, RowsKept
      <3>5. Authority!Act(id, e)
        BY <2>1, <2>5, <3>1, <3>3, <3>4
           DEF Authority!Act, SameRows, SameHolders, Backers, HoldersOf, Acts
      <3>6. QED
        BY <2>1, <3>5 DEF Authority!Next
    <2>8. QED
      BY <2>6, <2>7
  <1>9. ASSUME NEW e \in Execution, CrashConsume(e)
        PROVE  UNCHANGED Authority!vars
    <2>1. /\ consumeCall[e] \in Consuming /\ consumeCall[e].pc \in {"checked", "spent"}
          /\ UNCHANGED approval
          /\ \A f \in Execution \ {e} : consumeCall'[f] = consumeCall[f]
      BY <1>0, <1>9 DEF CrashConsume, TypeOK, Idle
    <2>2. CASE consumeCall[e].pc = "checked"
      <3>1. consumeCall'[e] = Idle
        BY <1>0, <1>9, <2>2 DEF CrashConsume, TypeOK
      <3>2. SameHolders /\ Acts' = Acts
        BY <2>1, <2>2, <3>1 DEF SameHolders, HoldersOf, Acts, Spent, Idle
      <3>3. QED
        BY <2>1, <3>2, RowsKept, AuthorityStutters
    <2>3. CASE consumeCall[e].pc = "spent"
      <3>1. consumeCall'[e] = [pc |-> "burned", id |-> consumeCall[e].id,
                               digest |-> consumeCall[e].digest,
                               action |-> consumeCall[e].action]
        BY <1>0, <1>9, <2>3 DEF CrashConsume, TypeOK
      <3>2. /\ consumeCall'[e] # Idle /\ consumeCall[e] # Idle
            /\ consumeCall'[e].pc = "burned" /\ consumeCall'[e].id = consumeCall[e].id
        BY <2>1, <3>1 DEF Idle, Consuming
      <3>3. SameHolders
        BY <2>1, <2>3, <3>2 DEF SameHolders, HoldersOf, Spent
      <3>4. Acts' = Acts
        BY <2>1, <2>3, <3>2, ActsKept
      <3>5. QED
        BY <2>1, <3>3, <3>4, RowsKept, AuthorityStutters
    <2>4. QED
      BY <2>1, <2>2, <2>3
  <1>10. CASE ExpireDue
    BY <1>10, SweepCloses DEF ExpireDue
  <1>11. CASE Tick \/ UNCHANGED vars
    BY <1>11, RowsKept, HoldersKept, AuthorityStutters DEF Tick, vars
  <1>12. QED
    BY <1>1, <1>2, <1>3, <1>4, <1>5, <1>6, <1>7, <1>8, <1>9, <1>10, <1>11 DEF Next

\* The service implements the abstract authority: whatever the calls in flight
\* and the crashes, each of its steps is a step of an authority that people
\* back, that one holder takes, and on which only the holder acts.
THEOREM ImplementsSingleUseAuthority == Spec => ImplementsAuthority
  <1>1. Init => Authority!Init
    BY DEF Init, Authority!Init, Stage, Terms, Spent, Absent, Idle
  <1>2. Inv /\ Inv' /\ [Next]_vars => [Authority!Next]_(Authority!vars)
    BY AuthorityStep
  <1>3. QED
    BY <1>1, <1>2, InvCorrect, PTL DEF Spec, ImplementsAuthority, Authority!Spec
=============================================================================
