-------------------------- MODULE ChokepointProofs --------------------------
(***************************************************************************)
(* Proofs about Chokepoint: its types, the bound on spend, what an engaged *)
(* switch stops, that refusals come before anything is spent, and what is  *)
(* held for the calls let through.                                         *)
(***************************************************************************)
EXTENDS Chokepoint, FiniteSetTheorems, TLAPS

\* The order of the checks.
LEMMA Order ==
  /\ At = {"enter", "clear", "run", "approval", "perform", "day", "reserve", "settle"}
  /\ Following("enter") = "clear" /\ Following("clear") = "run"
  /\ Following("run") = "approval" /\ Following("approval") = "perform"
<1>1. DOMAIN Stages = 1..5
  BY DEF Stages
<1>2. /\ Stages[1] = "enter" /\ Stages[2] = "clear" /\ Stages[3] = "run"
      /\ Stages[4] = "approval" /\ Stages[5] = "perform"
  BY DEF Stages
<1>3. \A i \in DOMAIN Stages : i = 1 \/ i = 2 \/ i = 3 \/ i = 4 \/ i = 5
  BY <1>1
<1>4. /\ (CHOOSE i \in DOMAIN Stages : Stages[i] = "enter") = 1
      /\ (CHOOSE i \in DOMAIN Stages : Stages[i] = "clear") = 2
      /\ (CHOOSE i \in DOMAIN Stages : Stages[i] = "run") = 3
      /\ (CHOOSE i \in DOMAIN Stages : Stages[i] = "approval") = 4
  BY <1>1, <1>2
<1>5. 1 + 1 = 2 /\ 1 + 2 = 3 /\ 1 + 3 = 4 /\ 1 + 4 = 5
  OBVIOUS
<1>6. Following("enter") = "clear"
  BY <1>2, <1>4, <1>5 DEF Following
<1>7. Following("clear") = "run"
  BY <1>2, <1>4, <1>5 DEF Following
<1>8. Following("run") = "approval"
  BY <1>2, <1>4, <1>5 DEF Following
<1>9. Following("approval") = "perform"
  BY <1>2, <1>4, <1>5 DEF Following
<1> QED
  BY <1>1, <1>2, <1>3, <1>6, <1>7, <1>8, <1>9 DEF At

AnyCall == CallType \cup [pc : {"idle"}] \cup [pc : {"done"}, told : Told]

LEMMA AtWork ==
  ASSUME TypeOK, NEW c \in Caller, call[c].pc \in At
  PROVE  call[c] \in CallType
<1>1. call[c] \in AnyCall
  BY DEF TypeOK, AnyCall
<1>2. "idle" \notin At /\ "done" \notin At
  BY Order
<1> QED
  BY <1>1, <1>2 DEF AnyCall

\* A call put in a caller's place.
LEMMA Retyped ==
  ASSUME TypeOK, NEW c \in Caller, NEW new \in AnyCall, call' = [call EXCEPT ![c] = new]
  PROVE  call' \in [Caller -> AnyCall]
BY DEF TypeOK, AnyCall

LEMMA Ended ==
  ASSUME TypeOK, NEW c \in Caller, NEW told \in Told, Tell(c, told)
  PROVE  call' \in [Caller -> AnyCall]
<1>1. [pc |-> "done", told |-> told] \in AnyCall
  BY DEF AnyCall
<1> QED
  BY <1>1, Retyped DEF Tell

LEMMA Moved ==
  ASSUME TypeOK, NEW c \in Caller, call[c].pc \in At, NEW pc \in At,
         call' = [call EXCEPT ![c].pc = pc]
  PROVE  call' \in [Caller -> AnyCall]
<1>1. [call[c] EXCEPT !.pc = pc] \in AnyCall
  BY AtWork DEF AnyCall, CallType
<1>2. call' = [call EXCEPT ![c] = [call[c] EXCEPT !.pc = pc]]
  OBVIOUS
<1> QED
  BY <1>1, <1>2, Retyped

LEMMA Released ==
  ASSUME TypeOK, NEW p \in Proc, NEW r \in Run, NEW est \in Nat
  PROVE  Release(reserved, p, r, est) \in [Proc -> [Meter -> Nat]]
<1> DEFINE off == IF est < reserved[p][r] THEN est ELSE reserved[p][r]
           day == IF off < reserved[p][Day] THEN reserved[p][Day] - off ELSE 0
<1>1. /\ r \in Meter /\ Day \in Meter /\ r # Day
      /\ reserved[p] \in [Meter -> Nat]
      /\ reserved[p][r] \in Nat /\ reserved[p][Day] \in Nat
  <2>1. r \in Meter /\ Day \in Meter /\ r # Day
    BY ChokepointAssumption DEF Meter
  <2>2. reserved[p] \in [Meter -> Nat]
    BY DEF TypeOK
  <2> QED
    BY <2>1, <2>2
<1>2. off \in Nat /\ off <= reserved[p][r]
  BY <1>1
<1>3. day \in Nat /\ reserved[p][r] - off \in Nat
  BY <1>1, <1>2
<1> HIDE DEF off, day
<1>4. \A f \in [Proc -> [Meter -> Nat]], q \in Proc, m \in Meter, n \in Nat :
        [f EXCEPT ![q][m] = n] \in [Proc -> [Meter -> Nat]]
  OBVIOUS
<1>5. reserved \in [Proc -> [Meter -> Nat]]
  BY DEF TypeOK
<1>6. [reserved EXCEPT ![p][r] = reserved[p][r] - off] \in [Proc -> [Meter -> Nat]]
  BY <1>1, <1>3, <1>4, <1>5
<1>7. [[reserved EXCEPT ![p][r] = reserved[p][r] - off] EXCEPT ![p][Day] = day]
        \in [Proc -> [Meter -> Nat]]
  BY <1>1, <1>3, <1>4, <1>6
<1> QED
  BY <1>7 DEF Release, off, day

LEMMA GivenBack ==
  ASSUME TypeOK, NEW c \in Caller, call[c].pc \in At, GiveBack(c)
  PROVE  reserved' \in [Proc -> [Meter -> Nat]]
<1>1. call[c] \in CallType /\ MaxCost \in Nat /\ Home[c] \in Proc
  BY AtWork, ChokepointAssumption
<1>2. call[c].of \in Run /\ call[c].est \in Nat
  BY <1>1 DEF CallType
<1> QED
  BY <1>1, <1>2, Released DEF GiveBack

LEMMA Spent ==
  ASSUME TypeOK, NEW c \in Caller, call[c].pc \in At, NEW cost \in 0..MaxCost, Spend(c, cost)
  PROVE  /\ spent' \in [Meter -> Nat]
         /\ spent'[call[c].of] = spent[call[c].of] + cost
         /\ spent'[Day] = spent[Day] + cost
         /\ \A m \in Run : m # call[c].of => spent'[m] = spent[m]
<1>1. /\ call[c].of \in Run /\ call[c].of \in Meter /\ Day \in Meter /\ call[c].of # Day
      /\ cost \in Nat
  BY AtWork, ChokepointAssumption DEF CallType, Meter
<1>2. spent \in [Meter -> Nat]
  BY DEF TypeOK
<1> DEFINE f == [spent EXCEPT ![call[c].of] = spent[call[c].of] + cost]
<1>3. /\ f \in [Meter -> Nat] /\ f[call[c].of] = spent[call[c].of] + cost
      /\ \A m \in Meter : m # call[c].of => f[m] = spent[m]
  BY <1>1, <1>2
<1>4. spent' = [f EXCEPT ![Day] = spent[Day] + cost]
  BY DEF Spend
<1> HIDE DEF f
<1>5. \A m \in Run : m \in Meter /\ m # Day
  BY ChokepointAssumption DEF Meter
<1> QED
  BY <1>1, <1>2, <1>3, <1>4, <1>5
-----------------------------------------------------------------------------
LEMMA TypeInit == Init => TypeOK
<1> SUFFICES ASSUME Init PROVE TypeOK
  OBVIOUS
<1>1. Run \subseteq Meter /\ Day \in Meter
  BY DEF Meter
<1>2. MaxTime \in Nat
  BY ChokepointAssumption
<1>3. call \in [Caller -> AnyCall]
  BY DEF Init, Idle, AnyCall
<1>4. started \in [Proc -> [Run -> Nat \cup {-1}]]
  BY DEF Init
<1>5. cache \in [Proc -> [Switch -> [held : BOOLEAN, engaged : BOOLEAN, readAt : Nat]]]
  BY DEF Init, Unread
<1>6. /\ spent \in [Meter -> Nat]
      /\ reserved \in [Proc -> [Meter -> Nat]]
      /\ window \in [Proc -> [0..MaxTime -> Nat]]
      /\ switch \in [Switch -> [engaged : BOOLEAN, at : Nat]]
  BY DEF Init
<1>7. /\ ended \subseteq Run /\ dropping \subseteq Proc \X Switch /\ unspent \subseteq Approval
      /\ now \in Nat /\ levers \in Nat /\ made \in Nat /\ faults \in Nat
  BY DEF Init
<1> QED
  BY <1>3, <1>4, <1>5, <1>6, <1>7 DEF TypeOK, AnyCall

LEMMA ScopeRange ==
  /\ 1 \in DOMAIN Scopes
  /\ \A i \in DOMAIN Scopes :
       /\ i \in Nat \ {0} /\ i <= Len(Scopes)
       /\ i < Len(Scopes) => i + 1 \in DOMAIN Scopes
       /\ Scopes[i] \in Switch
<1>1. Scopes \in Seq(STRING) /\ Scopes # <<>>
  BY ChokepointAssumption
<1>2. Len(Scopes) \in Nat /\ Len(Scopes) # 0 /\ DOMAIN Scopes = 1..Len(Scopes)
  BY <1>1
<1> QED
  BY <1>2 DEF Switch

\* A caller that is consulting a switch, and what heeding it leaves.
LEMMA Heeded ==
  ASSUME TypeOK, NEW c \in Caller, Consulting(c), NEW engaged, Heed(c, engaged)
  PROVE  call' \in [Caller -> AnyCall]
<1>1. call[c].pc \in At /\ call[c] \in CallType
  BY Order, AtWork DEF Consulting
<1>2. CASE Tell(c, "contained")
  BY <1>2, Ended DEF Told
<1> DEFINE next == [call[c] EXCEPT !.fetch = "no", !.readAt = 0, !.seen = FALSE]
<1>3. CASE ~Tell(c, "contained")
  <2>1. next \in CallType /\ next.pc = call[c].pc /\ next.scope \in DOMAIN Scopes
    BY <1>1 DEF CallType
  <2>a. /\ 1 \in DOMAIN Scopes
        /\ next.scope < Len(Scopes) => next.scope + 1 \in DOMAIN Scopes
    BY <2>1, ScopeRange
  <2>2. Following(next.pc) \in At
    BY <2>1, Order DEF Consulting
  <2>3. call' = [call EXCEPT ![c] = IF next.scope < Len(Scopes)
                                    THEN [next EXCEPT !.scope = next.scope + 1]
                                    ELSE [next EXCEPT !.pc = Following(next.pc), !.scope = 1]]
    BY <1>3 DEF Heed
  <2> HIDE DEF next
  <2>4. next.scope < Len(Scopes) => [next EXCEPT !.scope = next.scope + 1] \in CallType
    BY <2>1, <2>a DEF CallType
  <2>5. [next EXCEPT !.pc = Following(next.pc), !.scope = 1] \in CallType
    BY <2>1, <2>2, <2>a DEF CallType
  <2> QED
    BY <2>3, <2>4, <2>5, Retyped DEF AnyCall
<1> QED
  BY <1>2, <1>3

LEMMA TypeNext == TypeOK /\ [Next]_vars => TypeOK'
<1> SUFFICES ASSUME TypeOK, [Next]_vars PROVE TypeOK'
  OBVIOUS
<1> USE DEF record, ceilings, containment
<1>1. CASE UNCHANGED vars
  BY <1>1 DEF TypeOK, vars
<1>2. ASSUME NEW c \in Caller, NEW kind \in Kind, NEW r \in Run, Begin(c, kind, r)
      PROVE  TypeOK'
  <2> DEFINE start == CASE kind = "action" -> "enter"
                       [] kind = "compensation" -> "clear"
                       [] kind = "model" -> "run"
             dated == IF kind = "model" THEN 0 ELSE now
             new == [pc |-> start, kind |-> kind, of |-> r, est |-> 0, began |-> dated,
                     scope |-> 1, fetch |-> "no", readAt |-> 0, seen |-> FALSE,
                     run |-> 0, day |-> 0, used |-> FALSE]
  <2>1. start \in At
    BY Order DEF Kind
  <2>2. 0 \in 0..MaxCost /\ dated \in Nat
    BY ChokepointAssumption DEF TypeOK
  <2>4. call' = [call EXCEPT ![c] = new]
    BY <1>2 DEF Begin
  <2> HIDE DEF start, dated
  <2>6. 1 \in DOMAIN Scopes
    BY ScopeRange
  <2>3. new \in CallType
    BY <2>1, <2>2, <2>6, SMTT(60) DEF CallType
  <2>5. call' \in [Caller -> AnyCall]
    BY <2>3, <2>4, Retyped DEF AnyCall
  <2>7. /\ made' = made + 1
        /\ UNCHANGED <<record, ceilings, ended, containment, now, faults>>
    BY <1>2 DEF Begin
  <2> QED
    BY <2>5, <2>7 DEF TypeOK, AnyCall
<1>3. ASSUME NEW c \in Caller, Consult(c)
      PROVE  TypeOK'
  <2>1. call[c].pc \in At /\ call[c] \in CallType
    BY <1>3, Order, AtWork DEF Consult, Consulting
  <2> DEFINE entry == cache[Home[c]][Scopes[call[c].scope]]
  <2>2. call' \in [Caller -> AnyCall]
    <3>1. CASE Heed(c, entry.engaged)
      BY <1>3, <3>1, Heeded DEF Consult
    <3>2. CASE call' = [call EXCEPT ![c].fetch = "asked", ![c].readAt = now]
      <4>1. [call[c] EXCEPT !.fetch = "asked", !.readAt = now] \in CallType
        BY <2>1 DEF CallType, TypeOK
      <4>2. call' = [call EXCEPT ![c] = [call[c] EXCEPT !.fetch = "asked", !.readAt = now]]
        BY <3>2 DEF TypeOK
      <4> QED
        BY <4>1, <4>2, Retyped DEF AnyCall
    <3> QED
      BY <1>3, <3>1, <3>2 DEF Consult
  <2> QED
    BY <1>3, <2>2 DEF Consult, TypeOK, AnyCall
<1>4. ASSUME NEW c \in Caller, StoreAnswers(c)
      PROVE  TypeOK'
  <2>1. call[c].pc \in At /\ call[c] \in CallType
    BY <1>4, Order, AtWork DEF StoreAnswers, Consulting
  <2> DEFINE seen == switch[Scopes[call[c].scope]].engaged
             new == [call[c] EXCEPT !.fetch = "answered", !.seen = seen]
  <2>2. seen \in BOOLEAN
    <3>1. Scopes[call[c].scope] \in Switch
      BY <2>1, ScopeRange DEF CallType
    <3> QED
      BY <3>1 DEF TypeOK
  <2>3. call' = [call EXCEPT ![c] = new]
    BY <1>4 DEF StoreAnswers, TypeOK
  <2> HIDE DEF seen
  <2>4. new \in CallType
    BY <2>1, <2>2 DEF CallType
  <2>5. call' \in [Caller -> AnyCall]
    BY <2>3, <2>4, Retyped DEF AnyCall
  <2> QED
    BY <1>4, <2>5 DEF StoreAnswers, TypeOK, AnyCall
<1>5. ASSUME NEW c \in Caller, Fill(c)
      PROVE  TypeOK'
  <2>1. call[c].pc \in At /\ call[c] \in CallType
    BY <1>5, Order, AtWork DEF Fill, Consulting
  <2>2. call' \in [Caller -> AnyCall]
    BY <1>5, Heeded DEF Fill
  <2>3. Filled(c) \in [held : BOOLEAN, engaged : BOOLEAN, readAt : Nat]
    BY <2>1 DEF Filled, CallType
  <2>4. cache' \in [Proc -> [Switch -> [held : BOOLEAN, engaged : BOOLEAN, readAt : Nat]]]
    BY <1>5, <2>3 DEF Fill, TypeOK
  <2> QED
    BY <1>5, <2>2, <2>4 DEF Fill, TypeOK, AnyCall
<1>6. ASSUME NEW c \in Caller, ReadRun(c)
      PROVE  TypeOK'
  <2>1. call[c].pc \in At /\ call[c] \in CallType
    BY <1>6, Order, AtWork DEF ReadRun
  <2>2. spent[call[c].of] \in Nat
    BY <2>1 DEF TypeOK, CallType, Meter
  <2>3. [call[c] EXCEPT !.pc = "day", !.run = spent[call[c].of]] \in CallType
    BY <2>1, <2>2, Order DEF CallType
  <2>4. call' = [call EXCEPT ![c] = [call[c] EXCEPT !.pc = "day", !.run = spent[call[c].of]]]
    BY <1>6 DEF ReadRun, TypeOK
  <2>5. call' \in [Caller -> AnyCall]
    BY <2>3, <2>4, Retyped DEF AnyCall
  <2> QED
    BY <1>6, <2>5 DEF ReadRun, TypeOK, AnyCall
<1>7. ASSUME NEW c \in Caller, ReadDay(c)
      PROVE  TypeOK'
  <2>1. call[c].pc \in At /\ call[c] \in CallType
    BY <1>7, Order, AtWork DEF ReadDay
  <2>2. spent[Day] \in Nat
    BY <2>1 DEF TypeOK, Meter
  <2>3. [call[c] EXCEPT !.pc = "reserve", !.day = spent[Day]] \in CallType
    BY <2>1, <2>2, Order DEF CallType
  <2>4. call' = [call EXCEPT ![c] = [call[c] EXCEPT !.pc = "reserve", !.day = spent[Day]]]
    BY <1>7 DEF ReadDay, TypeOK
  <2>5. call' \in [Caller -> AnyCall]
    BY <2>3, <2>4, Retyped DEF AnyCall
  <2> QED
    BY <1>7, <2>5 DEF ReadDay, TypeOK, AnyCall
<1>8. ASSUME NEW c \in Caller, NEW est \in 0..MaxCost, Reserve(c, est)
      PROVE  TypeOK'
  <2> DEFINE p == Home[c]
             r == call[c].of
             new == [call[c] EXCEPT !.pc = IF call[c].kind = "model" THEN "perform"
                                           ELSE Following("run"),
                                    !.est = est, !.began = 0, !.run = 0, !.day = 0]
  <2>1. call[c].pc \in At /\ call[c] \in CallType
    BY <1>8, Order, AtWork DEF Reserve
  <2>2. new \in CallType
    <3>1. (IF call[c].kind = "model" THEN "perform" ELSE Following("run")) \in At
      BY Order
    <3> QED
      BY <2>1, <3>1 DEF CallType
  <2>3. call' = [call EXCEPT ![c] = new]
    BY <1>8 DEF Reserve, TypeOK
  <2> HIDE DEF new
  <2>4. call' \in [Caller -> AnyCall]
    BY <2>2, <2>3, Retyped DEF AnyCall
  <2>5. /\ p \in Proc /\ r \in Run /\ r \in Meter /\ Day \in Meter /\ r # Day /\ est \in Nat
    BY <2>1, ChokepointAssumption DEF CallType, Meter
  <2>6. reserved' \in [Proc -> [Meter -> Nat]]
    <3>1. reserved \in [Proc -> [Meter -> Nat]]
      BY DEF TypeOK
    <3>2. /\ reserved[p][r] + est \in Nat /\ reserved[p][Day] + est \in Nat
      BY <2>5, <3>1
    <3>3. \A f \in [Proc -> [Meter -> Nat]], q \in Proc, m \in Meter, n \in Nat :
            [f EXCEPT ![q][m] = n] \in [Proc -> [Meter -> Nat]]
      OBVIOUS
    <3>4. [reserved EXCEPT ![p][r] = reserved[p][r] + est] \in [Proc -> [Meter -> Nat]]
      BY <2>5, <3>1, <3>2, <3>3
    <3>5. reserved' = [[reserved EXCEPT ![p][r] = reserved[p][r] + est]
                         EXCEPT ![p][Day] = reserved[p][Day] + est]
      <4>1. [reserved EXCEPT ![p][r] = reserved[p][r] + est][p][Day] = reserved[p][Day]
        BY <2>5, <3>1
      <4> QED
        BY <1>8, <4>1 DEF Reserve
    <3> QED
      BY <2>5, <3>2, <3>3, <3>4, <3>5
  <2>7. window' \in [Proc -> [0..MaxTime -> Nat]]
    <3>1. window \in [Proc -> [0..MaxTime -> Nat]] /\ now \in Nat
      BY DEF TypeOK
    <3>2. Recent(p) \in [0..MaxTime -> Nat]
      BY <2>5, <3>1 DEF Recent
    <3>3. [Recent(p) EXCEPT ![now] = Recent(p)[now] + 1] \in [0..MaxTime -> Nat]
      <4>1. \A f \in [0..MaxTime -> Nat], t \in Nat :
              [f EXCEPT ![t] = f[t] + 1] \in [0..MaxTime -> Nat]
        <5> SUFFICES ASSUME NEW f \in [0..MaxTime -> Nat], NEW t \in Nat
                     PROVE  [f EXCEPT ![t] = f[t] + 1] \in [0..MaxTime -> Nat]
          OBVIOUS
        <5>1. t \in 0..MaxTime => f[t] + 1 \in Nat
          OBVIOUS
        <5> QED
          BY <5>1
      <4> QED
        BY <3>1, <3>2, <4>1
    <3>4. [window EXCEPT ![p] = [Recent(p) EXCEPT ![now] = Recent(p)[now] + 1]]
            \in [Proc -> [0..MaxTime -> Nat]]
      BY <3>1, <3>3
    <3>5. window' = window
          \/ window' = [window EXCEPT ![p] = [Recent(p) EXCEPT ![now] = Recent(p)[now] + 1]]
      BY <1>8 DEF Reserve
    <3> QED
      BY <3>1, <3>4, <3>5
  <2> QED
    BY <1>8, <2>4, <2>6, <2>7 DEF Reserve, TypeOK, AnyCall
<1>9. ASSUME NEW c \in Caller, NEW est \in 0..MaxCost, RefuseSpend(c, est)
      PROVE  TypeOK'
  <2>1. call' \in [Caller -> AnyCall]
    BY <1>9, Ended DEF RefuseSpend, Told
  <2> QED
    BY <1>9, <2>1 DEF RefuseSpend, TypeOK, AnyCall
<1>10. ASSUME NEW c \in Caller, RefuseStatic(c)
       PROVE  TypeOK'
  <2>1. call' \in [Caller -> AnyCall]
    BY <1>10, Ended DEF RefuseStatic, Told
  <2> QED
    BY <1>10, <2>1 DEF RefuseStatic, TypeOK, AnyCall
<1>11. ASSUME NEW c \in Caller, NEW approval \in Approval \cup {"none"}, Approve(c, approval)
       PROVE  TypeOK'
  <2>1. call[c].pc \in At /\ call[c] \in CallType
    BY <1>11, Order, AtWork DEF Approve
  <2>2. [call[c] EXCEPT !.pc = Following("approval"), !.used = approval # "none"] \in CallType
    BY <2>1, Order DEF CallType
  <2>3. call' = [call EXCEPT ![c] = [call[c] EXCEPT !.pc = Following("approval"),
                                                    !.used = approval # "none"]]
    BY <1>11 DEF Approve, TypeOK
  <2>4. call' \in [Caller -> AnyCall]
    BY <2>2, <2>3, Retyped DEF AnyCall
  <2> QED
    BY <1>11, <2>4 DEF Approve, TypeOK, AnyCall
<1>12. ASSUME NEW c \in Caller, RefuseApproval(c)
       PROVE  TypeOK'
  <2>1. call' \in [Caller -> AnyCall]
    BY <1>12, Ended DEF RefuseApproval, Told
  <2>2. reserved' \in [Proc -> [Meter -> Nat]]
    BY <1>12, Order, GivenBack DEF RefuseApproval
  <2> QED
    BY <1>12, <2>1, <2>2 DEF RefuseApproval, TypeOK, AnyCall
<1>13. ASSUME NEW c \in Caller, NEW cost \in 0..MaxCost, Perform(c, cost)
       PROVE  TypeOK'
  <2>1. call' \in [Caller -> AnyCall]
    BY <1>13, Order, Moved DEF Perform, To
  <2>2. spent' \in [Meter -> Nat]
    BY <1>13, Order, Spent DEF Perform
  <2> QED
    BY <1>13, <2>1, <2>2 DEF Perform, TypeOK, AnyCall
<1>14. ASSUME NEW c \in Caller, Fail(c)
       PROVE  TypeOK'
  <2>1. call[c].pc \in At /\ call[c] \in CallType
    BY <1>14, Order, AtWork DEF Fail
  <2>2. call' \in [Caller -> AnyCall]
    <3>1. CASE Tell(c, "let")
      BY <3>1, Ended DEF Told
    <3>2. CASE call' = [call EXCEPT ![c].pc = "run", ![c].est = 0]
      <4>1. 0 \in 0..MaxCost
        BY ChokepointAssumption
      <4>2. [call[c] EXCEPT !.pc = "run", !.est = 0] \in CallType
        BY <2>1, <4>1, Order DEF CallType
      <4>3. call' = [call EXCEPT ![c] = [call[c] EXCEPT !.pc = "run", !.est = 0]]
        BY <3>2 DEF TypeOK
      <4> QED
        BY <4>2, <4>3, Retyped DEF AnyCall
    <3> QED
      BY <1>14, <3>1, <3>2 DEF Fail
  <2>3. reserved' \in [Proc -> [Meter -> Nat]]
    BY <1>14, <2>1, GivenBack DEF Fail
  <2> QED
    BY <1>14, <2>2, <2>3 DEF Fail, TypeOK, AnyCall
<1>15. ASSUME NEW c \in Caller, Consume(c)
       PROVE  TypeOK'
  <2>1. call' \in [Caller -> AnyCall]
    BY <1>15, Ended DEF Consume, Told
  <2>2. reserved' \in [Proc -> [Meter -> Nat]]
    BY <1>15, Order, GivenBack DEF Consume
  <2> QED
    BY <1>15, <2>1, <2>2 DEF Consume, TypeOK, AnyCall
<1>16. ASSUME NEW c \in Caller, SwitchUnread(c) \/ SpendUnread(c)
       PROVE  TypeOK'
  <2>1. call' \in [Caller -> AnyCall]
    BY <1>16, Ended DEF SwitchUnread, SpendUnread, Told
  <2> QED
    BY <1>16, <2>1 DEF SwitchUnread, SpendUnread, Fault, TypeOK, AnyCall
<1>17. ASSUME NEW c \in Caller, PermitFails(c)
       PROVE  TypeOK'
  <2>1. call' \in [Caller -> AnyCall]
    BY <1>17, Ended DEF PermitFails, Told
  <2>2. reserved' \in [Proc -> [Meter -> Nat]]
    BY <1>17, Order, GivenBack DEF PermitFails
  <2>3. unspent' \subseteq Approval
    BY <1>17 DEF PermitFails, TypeOK
  <2> QED
    BY <1>17, <2>1, <2>2, <2>3 DEF PermitFails, Fault, TypeOK, AnyCall
<1>18. ASSUME NEW c \in Caller, RecordFails(c)
       PROVE  TypeOK'
  <2>1. call' \in [Caller -> AnyCall]
    BY <1>18, Ended DEF RecordFails, Told
  <2>2. spent' \in [Meter -> Nat]
    <3>1. CASE call[c].pc = "perform" /\ \E cost \in 0..MaxCost : Spend(c, cost)
      BY <3>1, Order, Spent
    <3>2. CASE UNCHANGED spent
      BY <3>2 DEF TypeOK
    <3> QED
      BY <1>18, <3>1, <3>2 DEF RecordFails
  <2> QED
    BY <1>18, <2>1, <2>2 DEF RecordFails, Fault, TypeOK, AnyCall
<1>19. ASSUME NEW p \in Proc, NEW s \in Switch, Drop(p, s)
       PROVE  TypeOK'
  <2>1. Unread \in [held : BOOLEAN, engaged : BOOLEAN, readAt : Nat]
    BY DEF Unread
  <2>2. cache' \in [Proc -> [Switch -> [held : BOOLEAN, engaged : BOOLEAN, readAt : Nat]]]
    BY <1>19, <2>1 DEF Drop, TypeOK
  <2> QED
    BY <1>19, <2>2 DEF Drop, TypeOK
<1>20. ASSUME NEW p \in Proc, NEW s \in Switch, NEW engaged \in BOOLEAN, Throw(p, s, engaged)
       PROVE  TypeOK'
  BY <1>20 DEF Throw, TypeOK
<1>21. ASSUME NEW p \in Proc, NEW r \in Run, EndRun(p, r)
       PROVE  TypeOK'
  <2>1. reserved[p][r] \in Nat
    BY DEF TypeOK, Meter
  <2>2. reserved' \in [Proc -> [Meter -> Nat]]
    BY <1>21, <2>1, Released DEF EndRun
  <2>3. started' \in [Proc -> [Run -> Nat \cup {-1}]]
    BY <1>21 DEF EndRun, TypeOK
  <2> QED
    BY <1>21, <2>2, <2>3 DEF EndRun, TypeOK
<1>22. ASSUME NEW p \in Proc, Crash(p)
       PROVE  TypeOK'
  <2>1. call' \in [Caller -> AnyCall]
    BY <1>22 DEF Crash, TypeOK, AnyCall, Idle
  <2>2. cache' \in [Proc -> [Switch -> [held : BOOLEAN, engaged : BOOLEAN, readAt : Nat]]]
    BY <1>22 DEF Crash, TypeOK, Unread
  <2>3. started' \in [Proc -> [Run -> Nat \cup {-1}]]
    BY <1>22 DEF Crash, TypeOK
  <2> QED
    BY <1>22, <2>1, <2>2, <2>3 DEF Crash, Fault, TypeOK, AnyCall
<1>23. CASE Tick
  BY <1>23 DEF Tick, TypeOK
<1> QED
  BY <1>1, <1>2, <1>3, <1>4, <1>5, <1>6, <1>7, <1>8, <1>9, <1>10, <1>11, <1>12, <1>13, <1>14,
     <1>15, <1>16, <1>17, <1>18, <1>19, <1>20, <1>21, <1>22, <1>23
  DEF Next, Check, Work, Failure

\* The types of the chokepoint's state hold in every behaviour.
THEOREM TypeCorrect == Spec => []TypeOK
<1> QED
  BY TypeInit, TypeNext, PTL DEF Spec
-----------------------------------------------------------------------------
(* What is spent. *)

\* A call that may yet add to a meter whatever the meter shows: it has been let
\* through, or it has read the meter below its ceiling and compares with that.
Arm(c, m) ==
  \/ call[c].pc \in {"approval", "perform"} /\ (m = Day \/ call[c].of = m)
  \/ /\ call[c].pc \in {"day", "reserve"}
     /\ m \in Run /\ call[c].of = m /\ call[c].run <= Limit[m]
  \/ call[c].pc = "reserve" /\ m = Day /\ call[c].day <= Limit[m]

Armed(m) == {c \in Caller : Arm(c, m)}

\* What is spent, and what the armed calls may add, stay within the bound.
Bounded(m) ==
  spent[m] + MaxCost * Cardinality(Armed(m)) <= Limit[m] + MaxCost * Cardinality(Caller)

LEMMA Products ==
  /\ \A x, n \in Nat : x * n \in Nat
  /\ \A x, n, k \in Nat : n <= k => x * n <= x * k
  /\ \A x, n \in Nat : x * (n + 1) = x * n + x
<1>1. \A x, n \in Nat : x * n \in Nat
  OBVIOUS
<1>2. \A x, n, k \in Nat : n <= k => x * n <= x * k
  OBVIOUS
<1>3. \A x, n \in Nat : x * (n + 1) = x * n + x
  OBVIOUS
<1> QED
  BY <1>1, <1>2, <1>3

LEMMA Callers ==
  ASSUME NEW S, S \subseteq Caller
  PROVE  /\ IsFiniteSet(S) /\ Cardinality(S) \in Nat /\ Cardinality(Caller) \in Nat
         /\ Cardinality(S) <= Cardinality(Caller)
         /\ \A T : T \subseteq S => Cardinality(T) \in Nat /\ Cardinality(T) <= Cardinality(S)
         /\ \A c \in S : Cardinality(S) = Cardinality(S \ {c}) + 1
<1>1. IsFiniteSet(Caller)
  BY ChokepointAssumption
<1>2. IsFiniteSet(S) /\ Cardinality(S) <= Cardinality(Caller)
  BY <1>1, FS_Subset
<1>3. \A T : T \subseteq S => IsFiniteSet(T) /\ Cardinality(T) <= Cardinality(S)
  BY <1>2, FS_Subset
<1>4. Cardinality(S) \in Nat /\ Cardinality(Caller) \in Nat
  BY <1>1, <1>2, FS_CardinalityType
<1>5. \A T : T \subseteq S => Cardinality(T) \in Nat
  BY <1>3, FS_CardinalityType
<1>6. ASSUME NEW c \in S
      PROVE  Cardinality(S) = Cardinality(S \ {c}) + 1
  <2>1. Cardinality(S \ {c}) = Cardinality(S) - 1
    BY <1>2, FS_RemoveElement
  <2> QED
    BY <2>1, <1>4
<1> QED
  BY <1>2, <1>3, <1>4, <1>5, <1>6

\* A step that neither spends nor arms keeps the bound.
LEMMA Quiet ==
  ASSUME TypeOK, NEW m \in Meter, Bounded(m), spent'[m] = spent[m],
         Armed(m)' \subseteq Armed(m)
  PROVE  Bounded(m)'
<1> DEFINE a == Cardinality(Armed(m))
           b == Cardinality(Armed(m)')
           k == Cardinality(Caller)
<1>1. a \in Nat /\ b \in Nat /\ k \in Nat /\ b <= a
  BY Callers DEF Armed
<1>2. MaxCost \in Nat /\ Limit[m] \in Nat /\ spent[m] \in Nat
  BY ChokepointAssumption DEF TypeOK
<1>3. spent[m] + MaxCost * a <= Limit[m] + MaxCost * k
  BY DEF Bounded
<1> HIDE DEF a, b, k
<1>4. MaxCost * b <= MaxCost * a /\ MaxCost * a \in Nat /\ MaxCost * b \in Nat /\ MaxCost * k \in Nat
  BY <1>1, <1>2, Products
<1>5. spent'[m] + MaxCost * b <= Limit[m] + MaxCost * k
  BY <1>2, <1>3, <1>4
<1> QED
  BY <1>5 DEF Bounded, b, k

\* While a meter is under its ceiling any calls may be armed.
LEMMA Under ==
  ASSUME TypeOK, NEW m \in Meter, spent'[m] = spent[m], spent[m] <= Limit[m]
  PROVE  Bounded(m)'
<1> DEFINE b == Cardinality(Armed(m)')
           k == Cardinality(Caller)
<1>1. b \in Nat /\ k \in Nat /\ b <= k
  BY Callers DEF Armed
<1>2. MaxCost \in Nat /\ Limit[m] \in Nat /\ spent[m] \in Nat
  BY ChokepointAssumption DEF TypeOK
<1> HIDE DEF b, k
<1>3. MaxCost * b <= MaxCost * k /\ MaxCost * b \in Nat /\ MaxCost * k \in Nat
  BY <1>1, <1>2, Products
<1>4. spent'[m] + MaxCost * b <= Limit[m] + MaxCost * k
  BY <1>2, <1>3
<1> QED
  BY <1>4 DEF Bounded, b, k

\* A call that spends is one the bound already counts, and is armed no longer.
LEMMA Fired ==
  ASSUME TypeOK, NEW m \in Meter, Bounded(m), NEW c \in Armed(m), NEW cost \in 0..MaxCost,
         spent'[m] = spent[m] + cost, Armed(m)' \subseteq Armed(m) \ {c}
  PROVE  Bounded(m)'
<1> DEFINE a == Cardinality(Armed(m) \ {c})
           b == Cardinality(Armed(m)')
           k == Cardinality(Caller)
<1>1. /\ Cardinality(Armed(m)) = a + 1 /\ k \in Nat
  BY Callers DEF Armed
<1>2. a \in Nat /\ b \in Nat /\ b <= a
  <2>1. Armed(m) \ {c} \subseteq Caller
    BY DEF Armed
  <2> QED
    BY <2>1, Callers
<1>3. MaxCost \in Nat /\ Limit[m] \in Nat /\ spent[m] \in Nat /\ cost \in Nat /\ cost <= MaxCost
  BY ChokepointAssumption DEF TypeOK
<1>4. spent[m] + MaxCost * (a + 1) <= Limit[m] + MaxCost * k
  BY <1>1 DEF Bounded
<1> HIDE DEF a, b, k
<1>5. /\ MaxCost * b <= MaxCost * a /\ MaxCost * (a + 1) = MaxCost * a + MaxCost
      /\ MaxCost * a \in Nat /\ MaxCost * b \in Nat /\ MaxCost * k \in Nat
  BY <1>1, <1>2, <1>3, Products
<1>6. spent'[m] + MaxCost * b <= Limit[m] + MaxCost * k
  BY <1>3, <1>4, <1>5
<1> QED
  BY <1>6 DEF Bounded, b, k

\* One caller moves, and its call is armed only if it was.
LEMMA OneMoves ==
  ASSUME TypeOK, NEW m \in Meter, NEW c \in Caller, NEW new,
         call' = [call EXCEPT ![c] = new], Arm(c, m)' => Arm(c, m)
  PROVE  /\ Armed(m)' \subseteq Armed(m)
         /\ ~Arm(c, m)' => Armed(m)' \subseteq Armed(m) \ {c}
<1>1. \A d \in Caller : d # c => call'[d] = call[d]
  BY DEF TypeOK
<1>2. \A d \in Caller : d # c => (Arm(d, m)' <=> Arm(d, m))
  BY <1>1 DEF Arm
<1> QED
  BY <1>2 DEF Armed

LEMMA BoundedInit == Init => \A m \in Meter : Bounded(m)
<1> SUFFICES ASSUME Init, NEW m \in Meter PROVE Bounded(m)
  OBVIOUS
<1>1. Armed(m) = {}
  BY DEF Init, Idle, Armed, Arm
<1>2. Cardinality(Armed(m)) = 0
  BY <1>1, FS_EmptySet
<1>3. /\ MaxCost \in Nat /\ Limit[m] \in Nat /\ spent[m] = 0
      /\ Cardinality(Caller) \in Nat
  BY ChokepointAssumption, Callers DEF Init
<1>4. MaxCost * Cardinality(Caller) \in Nat /\ MaxCost * 0 = 0
  BY <1>3, Products
<1> QED
  BY <1>2, <1>3, <1>4 DEF Bounded

LEMMA BoundedNext ==
  ASSUME TypeOK, [Next]_vars, NEW m \in Meter, Bounded(m)
  PROVE  Bounded(m)'
<1> USE DEF record, ceilings, containment
<1>1. CASE UNCHANGED <<call, spent>>
  BY <1>1 DEF Bounded, Armed, Arm
<1>2. ASSUME NEW c \in Caller, NEW new, call' = [call EXCEPT ![c] = new],
             UNCHANGED spent, new.pc \notin {"day", "reserve", "approval", "perform"}
      PROVE  Bounded(m)'
  <2>1. call'[c] = new
    BY <1>2 DEF TypeOK
  <2>2. ~Arm(c, m)'
    BY <1>2, <2>1 DEF Arm
  <2> QED
    BY <1>2, <2>2, OneMoves, Quiet
<1>3. ASSUME NEW c \in Caller, NEW told, Tell(c, told), UNCHANGED spent
      PROVE  Bounded(m)'
  BY <1>2, <1>3 DEF Tell
<1>4. ASSUME NEW c \in Caller, NEW engaged, Consulting(c), Heed(c, engaged), UNCHANGED spent
      PROVE  Bounded(m)'
  <2>1. call[c].pc \in At /\ call[c] \in CallType
    BY <1>4, Order, AtWork DEF Consulting
  <2> DEFINE next == [call[c] EXCEPT !.fetch = "no", !.readAt = 0, !.seen = FALSE]
  <2>2. CASE ~Tell(c, "contained")
    <3>1. next.pc \in {"enter", "clear"}
      BY <1>4, <2>1 DEF Consulting, CallType
    <3>2. next \in CallType
      BY <2>1 DEF CallType
    <3>3. Following(next.pc) \in {"clear", "run"}
      BY <3>1, Order
    <3> DEFINE new == IF next.scope < Len(Scopes)
                      THEN [next EXCEPT !.scope = next.scope + 1]
                      ELSE [next EXCEPT !.pc = Following(next.pc), !.scope = 1]
    <3>4. call' = [call EXCEPT ![c] = new]
      BY <1>4, <2>2 DEF Heed
    <3> HIDE DEF next
    <3>5. new.pc \in {"enter", "clear", "run"}
      BY <3>1, <3>2, <3>3 DEF CallType
    <3> QED
      BY <1>2, <1>4, <3>4, <3>5
  <2> QED
    BY <1>3, <1>4, <2>2
<1>5. ASSUME NEW c \in Caller, NEW kind \in Kind, NEW r \in Run, Begin(c, kind, r)
      PROVE  Bounded(m)'
  <2> DEFINE start == CASE kind = "action" -> "enter"
                       [] kind = "compensation" -> "clear"
                       [] kind = "model" -> "run"
             dated == IF kind = "model" THEN 0 ELSE now
             new == [pc |-> start, kind |-> kind, of |-> r, est |-> 0, began |-> dated,
                     scope |-> 1, fetch |-> "no", readAt |-> 0, seen |-> FALSE,
                     run |-> 0, day |-> 0, used |-> FALSE]
  <2>1. start \in {"enter", "clear", "run"}
    BY DEF Kind
  <2>2. call' = [call EXCEPT ![c] = new] /\ UNCHANGED spent
    BY <1>5 DEF Begin
  <2> HIDE DEF start, dated
  <2>3. new.pc \notin {"day", "reserve", "approval", "perform"}
    BY <2>1
  <2> QED
    BY <1>2, <2>2, <2>3
<1>6. ASSUME NEW c \in Caller, Consult(c)
      PROVE  Bounded(m)'
  <2>1. UNCHANGED spent /\ Consulting(c)
    BY <1>6 DEF Consult
  <2>2. CASE call' = [call EXCEPT ![c].fetch = "asked", ![c].readAt = now]
    <3>1. call[c].pc \in At /\ call[c] \in CallType
      BY <2>1, Order, AtWork DEF Consulting
    <3> DEFINE new == [call[c] EXCEPT !.fetch = "asked", !.readAt = now]
    <3>2. call' = [call EXCEPT ![c] = new]
      BY <2>2 DEF TypeOK
    <3>3. new.pc = call[c].pc
      BY <3>1 DEF CallType
    <3>4. new.pc \notin {"day", "reserve", "approval", "perform"}
      BY <2>1, <3>3 DEF Consulting
    <3> QED
      BY <1>2, <2>1, <3>2, <3>4
  <2> QED
    BY <1>4, <1>6, <2>1, <2>2 DEF Consult
<1>7. ASSUME NEW c \in Caller, StoreAnswers(c)
      PROVE  Bounded(m)'
  <2>1. UNCHANGED spent /\ Consulting(c)
    BY <1>7 DEF StoreAnswers
  <2>2. call[c].pc \in At /\ call[c] \in CallType
    BY <2>1, Order, AtWork DEF Consulting
  <2> DEFINE seen == switch[Scopes[call[c].scope]].engaged
             new == [call[c] EXCEPT !.fetch = "answered", !.seen = seen]
  <2>3. call' = [call EXCEPT ![c] = new]
    BY <1>7 DEF StoreAnswers, TypeOK
  <2> HIDE DEF seen
  <2>4. new.pc = call[c].pc
    BY <2>2 DEF CallType
  <2>5. new.pc \notin {"day", "reserve", "approval", "perform"}
    BY <2>1, <2>4 DEF Consulting
  <2> QED
    BY <1>2, <2>1, <2>3, <2>5
<1>8. ASSUME NEW c \in Caller, Fill(c)
      PROVE  Bounded(m)'
  BY <1>4, <1>8 DEF Fill
<1>9. ASSUME NEW c \in Caller, ReadRun(c)
      PROVE  Bounded(m)'
  <2> DEFINE new == [call[c] EXCEPT !.pc = "day", !.run = spent[call[c].of]]
  <2>1. call[c].pc = "run" /\ call[c] \in CallType
    BY <1>9, Order, AtWork DEF ReadRun
  <2>2. call' = [call EXCEPT ![c] = new] /\ UNCHANGED spent
    BY <1>9 DEF ReadRun, TypeOK
  <2>3. new.pc = "day" /\ new.of = call[c].of /\ new.run = spent[call[c].of]
    BY <2>1 DEF CallType
  <2>4. call'[c] = new
    BY <2>2 DEF TypeOK
  <2> HIDE DEF new
  <2>5. Arm(c, m)' => spent[m] <= Limit[m]
    BY <2>3, <2>4 DEF Arm
  <2> QED
    BY <2>2, <2>5, OneMoves, Quiet, Under
<1>10. ASSUME NEW c \in Caller, ReadDay(c)
       PROVE  Bounded(m)'
  <2> DEFINE new == [call[c] EXCEPT !.pc = "reserve", !.day = spent[Day]]
  <2>1. call[c].pc = "day" /\ call[c] \in CallType
    BY <1>10, Order, AtWork DEF ReadDay
  <2>2. call' = [call EXCEPT ![c] = new] /\ UNCHANGED spent
    BY <1>10 DEF ReadDay, TypeOK
  <2>3. /\ new.pc = "reserve" /\ new.of = call[c].of
        /\ new.run = call[c].run /\ new.day = spent[Day]
    BY <2>1 DEF CallType
  <2>4. call'[c] = new
    BY <2>2 DEF TypeOK
  <2> HIDE DEF new
  <2>5. Arm(c, m)' => Arm(c, m) \/ spent[m] <= Limit[m]
    BY <2>1, <2>3, <2>4 DEF Arm
  <2> QED
    BY <2>2, <2>5, OneMoves, Quiet, Under
<1>11. ASSUME NEW c \in Caller, NEW est \in 0..MaxCost, Reserve(c, est)
       PROVE  Bounded(m)'
  <2> DEFINE pc == IF call[c].kind = "model" THEN "perform" ELSE Following("run")
             new == [call[c] EXCEPT !.pc = pc, !.est = est, !.began = 0, !.run = 0, !.day = 0]
  <2>1. call[c].pc = "reserve" /\ call[c] \in CallType
    BY <1>11, Order, AtWork DEF Reserve
  <2>2. call' = [call EXCEPT ![c] = new] /\ UNCHANGED spent
    BY <1>11 DEF Reserve, TypeOK
  <2>3. pc \in {"approval", "perform"}
    BY Order
  <2> HIDE DEF pc
  <2>4. new.pc = pc /\ new.of = call[c].of
    BY <2>1 DEF CallType
  <2>5. call'[c] = new
    BY <2>2 DEF TypeOK
  <2> HIDE DEF new
  <2>6. /\ call[c].of \in Run /\ call[c].run \in Nat /\ call[c].day \in Nat
        /\ reserved[Home[c]][call[c].of] \in Nat /\ reserved[Home[c]][Day] \in Nat
        /\ est \in Nat /\ Limit[call[c].of] \in Nat /\ Limit[Day] \in Nat
    <3>1. /\ call[c].of \in Run /\ call[c].run \in Nat /\ call[c].day \in Nat
          /\ call[c].of \in Meter /\ Day \in Meter
      BY <2>1 DEF CallType, Meter
    <3>2. est \in Nat /\ Limit[call[c].of] \in Nat /\ Limit[Day] \in Nat /\ Home[c] \in Proc
      BY <3>1, ChokepointAssumption
    <3> QED
      BY <3>1, <3>2 DEF TypeOK
  <2>7. call[c].run <= Limit[call[c].of] /\ call[c].day <= Limit[Day]
    BY <1>11, <2>6 DEF Reserve, Permitted, Fits
  <2>8. Arm(c, m)' => Arm(c, m)
    BY <2>1, <2>3, <2>4, <2>5, <2>6, <2>7 DEF Arm, Meter
  <2> QED
    BY <2>2, <2>8, OneMoves, Quiet
<1>12. ASSUME NEW c \in Caller, NEW est \in 0..MaxCost, RefuseSpend(c, est)
       PROVE  Bounded(m)'
  BY <1>3, <1>12 DEF RefuseSpend
<1>13. ASSUME NEW c \in Caller, RefuseStatic(c) \/ RefuseApproval(c)
       PROVE  Bounded(m)'
  BY <1>3, <1>13 DEF RefuseStatic, RefuseApproval
<1>14. ASSUME NEW c \in Caller, NEW approval \in Approval \cup {"none"}, Approve(c, approval)
       PROVE  Bounded(m)'
  <2> DEFINE new == [call[c] EXCEPT !.pc = Following("approval"), !.used = approval # "none"]
  <2>1. call[c].pc = "approval" /\ call[c] \in CallType
    BY <1>14, Order, AtWork DEF Approve
  <2>2. call' = [call EXCEPT ![c] = new] /\ UNCHANGED spent
    BY <1>14 DEF Approve, TypeOK
  <2>3. new.pc = "perform" /\ new.of = call[c].of
    BY <2>1, Order DEF CallType
  <2>4. call'[c] = new
    BY <2>2 DEF TypeOK
  <2> HIDE DEF new
  <2>5. Arm(c, m)' => Arm(c, m)
    BY <2>1, <2>3, <2>4 DEF Arm
  <2> QED
    BY <2>2, <2>5, OneMoves, Quiet
<1>15. ASSUME NEW c \in Caller, NEW cost \in 0..MaxCost, NEW new, Spend(c, cost),
              call[c].pc = "perform", call' = [call EXCEPT ![c] = new],
              new.pc \in {"settle", "done"}
       PROVE  Bounded(m)'
  <2>1. call'[c] = new
    BY <1>15 DEF TypeOK
  <2>2. ~Arm(c, m)'
    BY <1>15, <2>1 DEF Arm
  <2>3. Armed(m)' \subseteq Armed(m) \ {c} /\ Armed(m)' \subseteq Armed(m)
    BY <1>15, <2>2, OneMoves
  <2>4. /\ spent'[call[c].of] = spent[call[c].of] + cost
        /\ spent'[Day] = spent[Day] + cost
        /\ \A r \in Run : r # call[c].of => spent'[r] = spent[r]
    BY <1>15, Order, Spent
  <2>5. CASE m = Day \/ m = call[c].of
    <3>1. c \in Armed(m)
      BY <1>15, <2>5 DEF Armed, Arm
    <3> QED
      BY <2>3, <2>4, <2>5, <3>1, Fired
  <2>6. CASE ~(m = Day \/ m = call[c].of)
    <3>1. spent'[m] = spent[m]
      BY <2>4, <2>6 DEF Meter
    <3> QED
      BY <2>3, <3>1, Quiet
  <2> QED
    BY <2>5, <2>6
<1>16. ASSUME NEW c \in Caller, NEW cost \in 0..MaxCost, Perform(c, cost)
       PROVE  Bounded(m)'
  <2>1. call[c].pc = "perform" /\ call[c] \in CallType
    BY <1>16, Order, AtWork DEF Perform
  <2>2. call' = [call EXCEPT ![c] = [call[c] EXCEPT !.pc = "settle"]]
    BY <1>16 DEF Perform, To, TypeOK
  <2>3. [call[c] EXCEPT !.pc = "settle"].pc = "settle"
    BY <2>1 DEF CallType
  <2> QED
    BY <1>15, <1>16, <2>1, <2>2, <2>3 DEF Perform
<1>17. ASSUME NEW c \in Caller, Fail(c)
       PROVE  Bounded(m)'
  <2>1. call[c].pc = "perform" /\ call[c] \in CallType /\ UNCHANGED spent
    BY <1>17, Order, AtWork DEF Fail
  <2>2. CASE call' = [call EXCEPT ![c].pc = "run", ![c].est = 0]
    <3> DEFINE new == [call[c] EXCEPT !.pc = "run", !.est = 0]
    <3>1. call' = [call EXCEPT ![c] = new]
      BY <2>2 DEF TypeOK
    <3>2. new.pc = "run"
      BY <2>1 DEF CallType
    <3>3. new.pc \notin {"day", "reserve", "approval", "perform"}
      BY <3>2
    <3> QED
      BY <1>2, <2>1, <3>1, <3>3
  <2> QED
    BY <1>3, <1>17, <2>1, <2>2 DEF Fail
<1>18. ASSUME NEW c \in Caller, Consume(c)
       PROVE  Bounded(m)'
  BY <1>3, <1>18 DEF Consume
<1>19. ASSUME NEW c \in Caller, SwitchUnread(c) \/ SpendUnread(c) \/ PermitFails(c)
       PROVE  Bounded(m)'
  BY <1>3, <1>19 DEF SwitchUnread, SpendUnread, PermitFails
<1>20. ASSUME NEW c \in Caller, RecordFails(c)
       PROVE  Bounded(m)'
  <2>1. Tell(c, "let")
    BY <1>20 DEF RecordFails
  <2>2. CASE UNCHANGED spent
    BY <1>3, <2>1, <2>2
  <2>3. CASE call[c].pc = "perform" /\ \E cost \in 0..MaxCost : Spend(c, cost)
    BY <1>15, <2>1, <2>3 DEF Tell
  <2> QED
    BY <1>20, <2>2, <2>3 DEF RecordFails
<1>21. ASSUME NEW p \in Proc, Crash(p)
       PROVE  Bounded(m)'
  <2>1. UNCHANGED spent
    BY <1>21 DEF Crash
  <2>2. \A c \in Caller : call'[c] = Idle \/ call'[c] = call[c]
    BY <1>21 DEF Crash, TypeOK
  <2>3. \A c \in Caller : call'[c] = Idle => ~Arm(c, m)'
    BY DEF Idle, Arm
  <2>4. Armed(m)' \subseteq Armed(m)
    BY <2>2, <2>3 DEF Armed, Arm
  <2> QED
    BY <2>1, <2>4, Quiet
<1>22. CASE Tick \/ (\E p \in Proc, r \in Run : EndRun(p, r))
            \/ (\E p \in Proc, s \in Switch :
                   Drop(p, s) \/ \E engaged \in BOOLEAN : Throw(p, s, engaged))
  BY <1>1, <1>22 DEF Tick, EndRun, Drop, Throw
<1>23. CASE UNCHANGED vars
  BY <1>1, <1>23 DEF vars
<1> QED
  BY <1>5, <1>6, <1>7, <1>8, <1>9, <1>10, <1>11, <1>12, <1>13, <1>14, <1>16, <1>17, <1>18,
     <1>19, <1>20, <1>21, <1>22, <1>23 DEF Next, Check, Work, Failure

\* No run and no day is spent beyond its ceiling by more than one call of each caller.
THEOREM SpendBounded == Spec => []SpendIsBounded
<1> DEFINE Inv == TypeOK /\ \A m \in Meter : Bounded(m)
<1>1. Init => Inv
  BY TypeInit, BoundedInit
<1>2. Inv /\ [Next]_vars => Inv'
  <2> SUFFICES ASSUME Inv, [Next]_vars PROVE Inv'
    OBVIOUS
  <2>1. TypeOK'
    BY TypeNext
  <2>2. ASSUME NEW m \in Meter PROVE Bounded(m)'
    BY BoundedNext
  <2> QED
    BY <2>1, <2>2
<1>3. Inv => SpendIsBounded
  <2> SUFFICES ASSUME Inv, NEW m \in Meter
               PROVE  spent[m] <= Limit[m] + MaxCost * Cardinality(Caller)
    BY DEF SpendIsBounded
  <2>1. Cardinality(Armed(m)) \in Nat /\ Cardinality(Caller) \in Nat
    BY Callers DEF Armed
  <2>2. MaxCost \in Nat /\ Limit[m] \in Nat /\ spent[m] \in Nat
    BY ChokepointAssumption DEF TypeOK
  <2>3. MaxCost * Cardinality(Armed(m)) \in Nat /\ MaxCost * Cardinality(Caller) \in Nat
    BY <2>1, <2>2, Products
  <2>4. spent[m] + MaxCost * Cardinality(Armed(m)) <= Limit[m] + MaxCost * Cardinality(Caller)
    BY DEF Bounded
  <2> QED
    BY <2>2, <2>3, <2>4
<1> QED
  BY <1>1, <1>2, <1>3, PTL DEF Spec
-----------------------------------------------------------------------------
(* What an engaged switch stops. *)

\* The call did not begin once the switch had been engaged for Ttl.
Passed(c, s) == ~(switch[s].engaged /\ switch[s].at + Ttl <= call[c].began)

\* A switch read clear at a time was engaged, if it is, no earlier.
Dated ==
  /\ \A s \in Switch : switch[s].at <= now
  /\ \A p \in Proc, s \in Switch :
       cache[p][s].held =>
         /\ cache[p][s].readAt <= now
         /\ ~cache[p][s].engaged /\ switch[s].engaged => cache[p][s].readAt <= switch[s].at

ReadClear(c) ==
  /\ call[c].fetch \in {"asked", "answered"} =>
       call[c].began <= call[c].readAt /\ call[c].readAt <= now
  /\ call[c].fetch = "answered" /\ ~call[c].seen /\ switch[Scopes[call[c].scope]].engaged
       => call[c].readAt <= switch[Scopes[call[c].scope]].at

Checked(c) ==
  call[c].pc \in At =>
    /\ call[c].began <= now
    /\ Consulting(c) => /\ call[c].kind # "model"
                        /\ ReadClear(c)
                        /\ \A i \in DOMAIN Scopes : i < call[c].scope => Passed(c, Scopes[i])
    /\ Cleared(c) => \A s \in Switch : Passed(c, s)

LEMMA CheckedInit == Init => Dated /\ \A c \in Caller : Checked(c)
<1> SUFFICES ASSUME Init PROVE Dated /\ \A c \in Caller : Checked(c)
  OBVIOUS
<1>1. "idle" \notin At
  BY Order
<1>2. \A c \in Caller : Checked(c)
  BY <1>1 DEF Init, Idle, Checked
<1>3. Dated
  BY DEF Init, Unread, Dated
<1> QED
  BY <1>2, <1>3

\* One caller moves, at one time and under the same switches.
LEMMA OneChecked ==
  ASSUME TypeOK, \A d \in Caller : Checked(d), NEW c \in Caller, NEW new,
         call' = [call EXCEPT ![c] = new], UNCHANGED <<switch, now>>,
         new.pc \in At => Checked(c)'
  PROVE  \A d \in Caller : Checked(d)'
<1>1. call'[c] = new /\ \A d \in Caller : d # c => call'[d] = call[d]
  BY DEF TypeOK
<1>2. Checked(c)'
  BY <1>1 DEF Checked
<1>3. ASSUME NEW d \in Caller, d # c PROVE Checked(d)'
  <2>1. call'[d] = call[d] /\ switch' = switch /\ now' = now
    BY <1>1, <1>3
  <2>2. Checked(d)
    OBVIOUS
  <2> QED
    BY <2>1, <2>2 DEF Checked, Consulting, Cleared, ReadClear, Passed
<1> QED
  BY <1>2, <1>3

\* A call goes on, past containment.
LEMMA GoneOn ==
  ASSUME TypeOK, \A d \in Caller : Checked(d), NEW c \in Caller, NEW new \in CallType,
         call' = [call EXCEPT ![c] = new], UNCHANGED <<switch, now>>,
         call[c].pc \in At, ~Consulting(c), new.kind = call[c].kind,
         new.pc \in {"run", "day", "reserve"} => \/ call[c].pc \in {"run", "day"}
                                                 \/ new.kind = "model",
         new.pc \notin {"enter", "clear"}, new.began \in {call[c].began, 0}
  PROVE  \A d \in Caller : Checked(d)'
<1>1. call'[c] = new
  BY DEF TypeOK
<1>2. Checked(c) /\ call[c] \in CallType
  BY AtWork
<1>3. call[c].began \in Nat /\ new.began \in Nat /\ now \in Nat /\ new.began <= call[c].began
  BY <1>2 DEF CallType, TypeOK
<1>4. new.began <= now
  BY <1>2, <1>3 DEF Checked
<1>5. ~Consulting(c)'
  BY <1>1 DEF Consulting
<1>6. ASSUME Cleared(c)', NEW s \in Switch PROVE Passed(c, s)'
  <2>1. Cleared(c)
    BY <1>1, <1>6, <1>2 DEF Cleared
  <2>2. Passed(c, s)
    BY <1>2, <2>1 DEF Checked
  <2>3. switch[s].at \in Nat /\ Ttl \in Nat
    BY ChokepointAssumption DEF TypeOK
  <2>4. ~(switch[s].engaged /\ switch[s].at + Ttl <= new.began)
    BY <1>3, <2>2, <2>3 DEF Passed
  <2> QED
    BY <1>1, <2>4 DEF Passed
<1>7. Checked(c)'
  BY <1>1, <1>4, <1>5, <1>6 DEF Checked
<1> QED
  BY <1>7, OneChecked

\* A call ends.
LEMMA Over ==
  ASSUME TypeOK, \A d \in Caller : Checked(d), NEW c \in Caller, NEW told,
         Tell(c, told), UNCHANGED <<switch, now>>
  PROVE  \A d \in Caller : Checked(d)'
<1>1. [pc |-> "done", told |-> told].pc \notin At
  BY Order
<1> QED
  BY <1>1, OneChecked DEF Tell

\* A switch found clear lets the call by.
LEMMA HeededClear ==
  ASSUME TypeOK, \A d \in Caller : Checked(d), NEW c \in Caller, NEW engaged,
         Consulting(c), Heed(c, engaged), UNCHANGED <<switch, now>>,
         ~engaged => Passed(c, Scopes[call[c].scope])
  PROVE  \A d \in Caller : Checked(d)'
<1>1. call[c].pc \in At /\ call[c] \in CallType /\ Checked(c)
  BY Order, AtWork DEF Consulting
<1>2. CASE Tell(c, "contained")
  BY <1>2, Over
<1> DEFINE next == [call[c] EXCEPT !.fetch = "no", !.readAt = 0, !.seen = FALSE]
           new == IF next.scope < Len(Scopes)
                  THEN [next EXCEPT !.scope = next.scope + 1]
                  ELSE [next EXCEPT !.pc = Following(next.pc), !.scope = 1]
<1>3. CASE ~Tell(c, "contained")
  <2>1. ~engaged /\ call' = [call EXCEPT ![c] = new]
    BY <1>3 DEF Heed
  <2>2. /\ next \in CallType /\ next.pc = call[c].pc /\ next.scope = call[c].scope
        /\ next.kind = call[c].kind /\ next.began = call[c].began /\ next.fetch = "no"
    BY <1>1 DEF CallType
  <2>3. call'[c] = new
    BY <2>1 DEF TypeOK
  <2>4. \A i \in DOMAIN Scopes : i <= call[c].scope => Passed(c, Scopes[i])
    <3>1. \A i \in DOMAIN Scopes : i < call[c].scope => Passed(c, Scopes[i])
      BY <1>1 DEF Checked
    <3>2. call[c].scope \in Nat /\ \A i \in DOMAIN Scopes : i \in Nat
      BY <1>1, ScopeRange DEF CallType
    <3> QED
      BY <2>1, <3>1, <3>2
  <2>5. /\ call[c].began <= now /\ call[c].kind # "model" /\ call[c].scope \in DOMAIN Scopes
    BY <1>1 DEF Checked, CallType
  <2> HIDE DEF next
  <2>6. CASE call[c].scope < Len(Scopes)
    <3>1. new = [next EXCEPT !.scope = next.scope + 1]
      BY <2>2, <2>6
    <3>2. /\ new.pc = call[c].pc /\ new.kind = call[c].kind /\ new.began = call[c].began
          /\ new.fetch = "no" /\ new.scope = call[c].scope + 1
      BY <2>2, <3>1 DEF CallType
    <3> HIDE DEF new
    <3>3. \A s : Passed(c, s)' <=> Passed(c, s)
      BY <2>3, <3>2 DEF Passed
    <3>4. \A i \in DOMAIN Scopes : i < new.scope => Passed(c, Scopes[i])'
      <4>1. call[c].scope \in Nat /\ \A i \in DOMAIN Scopes : i \in Nat
        BY <2>5, ScopeRange
      <4> QED
        BY <2>4, <3>2, <3>3, <4>1
    <3>5. ReadClear(c)'
      BY <2>3, <3>2 DEF ReadClear
    <3>6. ~Cleared(c)'
      BY <2>3, <3>2 DEF Cleared, Consulting
    <3>7. Checked(c)'
      BY <2>3, <2>5, <3>2, <3>4, <3>5, <3>6 DEF Checked
    <3> QED
      BY <2>1, <3>7, OneChecked
  <2>7. CASE ~(call[c].scope < Len(Scopes))
    <3>1. new = [next EXCEPT !.pc = Following(next.pc), !.scope = 1]
      BY <2>2, <2>7
    <3>2. /\ new.pc = Following(call[c].pc) /\ new.kind = call[c].kind
          /\ new.began = call[c].began /\ new.fetch = "no" /\ new.scope = 1
      BY <2>2, <3>1 DEF CallType
    <3> HIDE DEF new
    <3>3. \A s : Passed(c, s)' <=> Passed(c, s)
      BY <2>3, <3>2 DEF Passed
    <3>4. \A i \in DOMAIN Scopes : ~(i < new.scope)
      BY <3>2, ScopeRange
    <3>5. ReadClear(c)'
      BY <2>3, <3>2 DEF ReadClear
    <3>6. \A s \in Switch : Passed(c, s)'
      <4>1. \A i \in DOMAIN Scopes : i <= call[c].scope
        <5>1. Len(Scopes) \in Nat
          BY ChokepointAssumption
        <5> QED
          BY <2>5, <2>7, <5>1, ScopeRange
      <4> QED
        BY <2>4, <3>3, <4>1 DEF Switch
    <3>7. Checked(c)'
      BY <2>3, <2>5, <3>2, <3>4, <3>5, <3>6 DEF Checked
    <3> QED
      BY <2>1, <3>7, OneChecked
  <2> QED
    BY <2>6, <2>7
<1> QED
  BY <1>2, <1>3

LEMMA CheckedNext ==
  ASSUME Ttl > 0, TypeOK, [Next]_vars, Dated, \A c \in Caller : Checked(c)
  PROVE  Dated' /\ \A c \in Caller : Checked(c)'
<1> USE DEF record, ceilings, containment
<1>t. Ttl \in Nat
  BY ChokepointAssumption
<1>1. ASSUME UNCHANGED <<switch, now, cache>>
      PROVE  Dated'
  BY <1>1 DEF Dated
<1>2. CASE UNCHANGED vars
  <2>1. UNCHANGED <<call, switch, now, cache>>
    BY <1>2 DEF vars
  <2> QED
    BY <2>1 DEF Dated, Checked, Consulting, Cleared, ReadClear, Passed
<1>3. ASSUME NEW c \in Caller, NEW kind \in Kind, NEW r \in Run, Begin(c, kind, r)
      PROVE  Dated' /\ \A d \in Caller : Checked(d)'
  <2> DEFINE start == CASE kind = "action" -> "enter"
                       [] kind = "compensation" -> "clear"
                       [] kind = "model" -> "run"
             dated == IF kind = "model" THEN 0 ELSE now
             new == [pc |-> start, kind |-> kind, of |-> r, est |-> 0, began |-> dated,
                     scope |-> 1, fetch |-> "no", readAt |-> 0, seen |-> FALSE,
                     run |-> 0, day |-> 0, used |-> FALSE]
  <2>1. /\ start \in {"enter", "clear"} => kind # "model"
        /\ start \notin {"enter", "clear"} => kind = "model"
    BY DEF Kind
  <2>2. call' = [call EXCEPT ![c] = new] /\ UNCHANGED <<switch, now, cache>>
    BY <1>3 DEF Begin
  <2>3. dated <= now
    BY DEF TypeOK
  <2>4. call'[c] = new
    BY <2>2 DEF TypeOK
  <2> HIDE DEF start, dated
  <2>5. /\ new.pc = start /\ new.kind = kind /\ new.began = dated
        /\ new.fetch = "no" /\ new.scope = 1
    OBVIOUS
  <2> HIDE DEF new
  <2>6. \A i \in DOMAIN Scopes : ~(i < new.scope)
    BY <2>5, ScopeRange
  <2>7. ReadClear(c)' /\ ~Cleared(c)'
    BY <2>1, <2>4, <2>5 DEF ReadClear, Cleared
  <2>8. Checked(c)'
    BY <2>1, <2>2, <2>3, <2>4, <2>5, <2>6, <2>7 DEF Checked, Consulting
  <2> QED
    BY <1>1, <2>2, <2>8, OneChecked
<1>4. ASSUME NEW c \in Caller, Consult(c)
      PROVE  Dated' /\ \A d \in Caller : Checked(d)'
  <2> DEFINE s == Scopes[call[c].scope]
             entry == cache[Home[c]][s]
  <2>1. Consulting(c) /\ call[c].fetch = "no" /\ UNCHANGED <<switch, now, cache>>
    BY <1>4 DEF Consult
  <2>2. call[c].pc \in At /\ call[c] \in CallType /\ Checked(c)
    BY <2>1, Order, AtWork DEF Consulting
  <2>3. s \in Switch /\ Home[c] \in Proc
    BY <2>2, ScopeRange, ChokepointAssumption DEF CallType
  <2>4. CASE Fresh(entry) /\ Heed(c, entry.engaged)
    <3>1. entry.readAt \in Nat /\ now \in Nat /\ switch[s].at \in Nat /\ call[c].began \in Nat
      BY <2>2, <2>3 DEF TypeOK, CallType
    <3>2. entry.held /\ now - entry.readAt < Ttl
      BY <2>4 DEF Fresh
    <3>3. ~entry.engaged /\ switch[s].engaged => entry.readAt <= switch[s].at
      BY <2>3, <3>2 DEF Dated
    <3>4. call[c].began <= now
      BY <2>2 DEF Checked
    <3> HIDE DEF s, entry
    <3>5. ~entry.engaged => Passed(c, s)
      BY <1>t, <3>1, <3>2, <3>3, <3>4 DEF Passed
    <3> QED
      BY <1>1, <2>1, <2>4, <3>5, HeededClear DEF s
  <2>5. CASE call' = [call EXCEPT ![c].fetch = "asked", ![c].readAt = now]
    <3> DEFINE new == [call[c] EXCEPT !.fetch = "asked", !.readAt = now]
    <3>1. call' = [call EXCEPT ![c] = new]
      BY <2>5 DEF TypeOK
    <3>2. call'[c] = new
      BY <3>1 DEF TypeOK
    <3>3. /\ new.pc = call[c].pc /\ new.kind = call[c].kind /\ new.began = call[c].began
          /\ new.fetch = "asked" /\ new.readAt = now /\ new.scope = call[c].scope
      BY <2>2 DEF CallType
    <3> HIDE DEF new
    <3>4. ReadClear(c)'
      <4>1. now <= now /\ call[c].began <= now
        BY <2>2 DEF Checked, TypeOK
      <4> QED
        BY <2>1, <3>2, <3>3, <4>1 DEF ReadClear
    <3>5. ~Cleared(c)'
      BY <2>1, <3>2, <3>3 DEF Cleared, Consulting
    <3>6. \A x : Passed(c, x)' <=> Passed(c, x)
      BY <2>1, <3>2, <3>3 DEF Passed
    <3>7. Checked(c)'
      BY <2>1, <2>2, <3>2, <3>3, <3>4, <3>5, <3>6 DEF Checked
    <3> QED
      BY <1>1, <2>1, <3>1, <3>7, OneChecked
  <2> QED
    BY <1>4, <2>4, <2>5 DEF Consult
<1>5. ASSUME NEW c \in Caller, StoreAnswers(c)
      PROVE  Dated' /\ \A d \in Caller : Checked(d)'
  <2> DEFINE s == Scopes[call[c].scope]
             seen == switch[s].engaged
             new == [call[c] EXCEPT !.fetch = "answered", !.seen = seen]
  <2>1. Consulting(c) /\ call[c].fetch = "asked" /\ UNCHANGED <<switch, now, cache>>
    BY <1>5 DEF StoreAnswers
  <2>2. call[c].pc \in At /\ call[c] \in CallType /\ Checked(c)
    BY <2>1, Order, AtWork DEF Consulting
  <2>3. call' = [call EXCEPT ![c] = new]
    BY <1>5 DEF StoreAnswers, TypeOK
  <2>4. call'[c] = new
    BY <2>3 DEF TypeOK
  <2> HIDE DEF seen
  <2>5. /\ new.pc = call[c].pc /\ new.kind = call[c].kind /\ new.began = call[c].began
        /\ new.fetch = "answered" /\ new.readAt = call[c].readAt /\ new.scope = call[c].scope
        /\ new.seen = seen
    BY <2>2 DEF CallType
  <2> HIDE DEF new
  <2>6. ReadClear(c)'
    <3>1. call[c].began <= call[c].readAt /\ call[c].readAt <= now
      BY <2>1, <2>2 DEF Checked, ReadClear
    <3> QED
      BY <2>1, <2>4, <2>5, <3>1 DEF ReadClear, seen
  <2>7. ~Cleared(c)'
    BY <2>1, <2>4, <2>5 DEF Cleared, Consulting
  <2>8. \A x : Passed(c, x)' <=> Passed(c, x)
    BY <2>1, <2>4, <2>5 DEF Passed
  <2>9. Checked(c)'
    BY <2>1, <2>2, <2>4, <2>5, <2>6, <2>7, <2>8 DEF Checked
  <2> QED
    BY <1>1, <2>1, <2>3, <2>9, OneChecked
<1>6. ASSUME NEW c \in Caller, Fill(c)
      PROVE  Dated' /\ \A d \in Caller : Checked(d)'
  <2> DEFINE s == Scopes[call[c].scope]
  <2>1. /\ Consulting(c) /\ call[c].fetch = "answered" /\ Heed(c, call[c].seen)
        /\ UNCHANGED <<switch, now>>
    BY <1>6 DEF Fill
  <2>2. call[c].pc \in At /\ call[c] \in CallType /\ Checked(c)
    BY <2>1, Order, AtWork DEF Consulting
  <2>3. s \in Switch /\ Home[c] \in Proc
    BY <2>2, ScopeRange, ChokepointAssumption DEF CallType
  <2>4. /\ call[c].readAt \in Nat /\ now \in Nat /\ switch[s].at \in Nat /\ call[c].began \in Nat
    BY <2>2, <2>3 DEF TypeOK, CallType
  <2>5. /\ call[c].began <= call[c].readAt /\ call[c].readAt <= now
        /\ ~call[c].seen /\ switch[s].engaged => call[c].readAt <= switch[s].at
    BY <2>1, <2>2 DEF Checked, ReadClear
  <2>6. ~call[c].seen => Passed(c, s)
    BY <1>t, <2>4, <2>5 DEF Passed
  <2>7. \A d \in Caller : Checked(d)'
    BY <2>1, <2>6, HeededClear
  <2>8. Dated'
    <3>1. cache' = [cache EXCEPT ![Home[c]][s] = Filled(c)]
      BY <1>6 DEF Fill
    <3>2. \A p \in Proc, x \in Switch :
            \/ cache'[p][x] = cache[p][x]
            \/ x = s /\ cache'[p][x] = Filled(c)
      BY <2>3, <3>1 DEF TypeOK
    <3>3. /\ Filled(c).readAt <= now
          /\ ~Filled(c).engaged /\ switch[s].engaged => Filled(c).readAt <= switch[s].at
      BY <2>5 DEF Filled
    <3> HIDE DEF s
    <3> QED
      BY <2>1, <3>2, <3>3 DEF Dated
  <2> QED
    BY <2>7, <2>8
<1>7. ASSUME NEW c \in Caller, ReadRun(c) \/ ReadDay(c)
      PROVE  Dated' /\ \A d \in Caller : Checked(d)'
  <2>1. /\ call[c].pc \in {"run", "day"} /\ call[c].pc \in At /\ call[c] \in CallType
        /\ UNCHANGED <<switch, now, cache>>
    BY <1>7, Order, AtWork DEF ReadRun, ReadDay
  <2>2. spent[call[c].of] \in Nat /\ spent[Day] \in Nat
    BY <2>1 DEF TypeOK, CallType, Meter
  <2> DEFINE ran == [call[c] EXCEPT !.pc = "day", !.run = spent[call[c].of]]
             read == [call[c] EXCEPT !.pc = "reserve", !.day = spent[Day]]
  <2>3. \/ call' = [call EXCEPT ![c] = ran]
        \/ call' = [call EXCEPT ![c] = read]
    BY <1>7 DEF ReadRun, ReadDay, TypeOK
  <2>4. /\ ran \in CallType /\ ran.kind = call[c].kind /\ ran.pc = "day"
        /\ ran.began = call[c].began
    BY <2>1, <2>2, Order DEF CallType
  <2>5. /\ read \in CallType /\ read.kind = call[c].kind /\ read.pc = "reserve"
        /\ read.began = call[c].began
    BY <2>1, <2>2, Order DEF CallType
  <2>6. ~Consulting(c)
    BY <2>1 DEF Consulting
  <2> HIDE DEF ran, read
  <2>7. CASE call' = [call EXCEPT ![c] = ran]
    BY <1>1, <2>1, <2>4, <2>6, <2>7, GoneOn
  <2>8. CASE call' = [call EXCEPT ![c] = read]
    BY <1>1, <2>1, <2>5, <2>6, <2>8, GoneOn
  <2> QED
    BY <2>3, <2>7, <2>8
<1>8. ASSUME NEW c \in Caller, NEW est \in 0..MaxCost, Reserve(c, est)
      PROVE  Dated' /\ \A d \in Caller : Checked(d)'
  <2> DEFINE pc == IF call[c].kind = "model" THEN "perform" ELSE Following("run")
             new == [call[c] EXCEPT !.pc = pc, !.est = est, !.began = 0, !.run = 0, !.day = 0]
  <2>1. /\ call[c].pc = "reserve" /\ call[c].pc \in At /\ call[c] \in CallType
        /\ UNCHANGED <<switch, now, cache>>
    BY <1>8, Order, AtWork DEF Reserve
  <2>2. call' = [call EXCEPT ![c] = new]
    BY <1>8 DEF Reserve, TypeOK
  <2>3. pc \in {"approval", "perform"} /\ pc \in At
    BY Order
  <2> HIDE DEF pc
  <2>4. new \in CallType /\ new.kind = call[c].kind /\ new.pc = pc /\ new.began = 0
    BY <2>1, <2>3 DEF CallType
  <2>5. ~Consulting(c)
    BY <2>1 DEF Consulting
  <2> HIDE DEF new
  <2> QED
    BY <1>1, <2>1, <2>2, <2>3, <2>4, <2>5, GoneOn
<1>9. ASSUME NEW c \in Caller, NEW approval \in Approval \cup {"none"}, Approve(c, approval)
      PROVE  Dated' /\ \A d \in Caller : Checked(d)'
  <2> DEFINE new == [call[c] EXCEPT !.pc = Following("approval"), !.used = approval # "none"]
  <2>1. /\ call[c].pc = "approval" /\ call[c].pc \in At /\ call[c] \in CallType
        /\ UNCHANGED <<switch, now, cache>>
    BY <1>9, Order, AtWork DEF Approve
  <2>2. call' = [call EXCEPT ![c] = new]
    BY <1>9 DEF Approve, TypeOK
  <2>3. /\ new \in CallType /\ new.kind = call[c].kind /\ new.pc = "perform"
        /\ new.began = call[c].began
    BY <2>1, Order DEF CallType
  <2>4. ~Consulting(c)
    BY <2>1 DEF Consulting
  <2> HIDE DEF new
  <2> QED
    BY <1>1, <2>1, <2>2, <2>3, <2>4, GoneOn
<1>10. ASSUME NEW c \in Caller, NEW cost \in 0..MaxCost, Perform(c, cost)
       PROVE  Dated' /\ \A d \in Caller : Checked(d)'
  <2> DEFINE new == [call[c] EXCEPT !.pc = "settle"]
  <2>1. /\ call[c].pc = "perform" /\ call[c].pc \in At /\ call[c] \in CallType
        /\ UNCHANGED <<switch, now, cache>>
    BY <1>10, Order, AtWork DEF Perform
  <2>2. call' = [call EXCEPT ![c] = new]
    BY <1>10 DEF Perform, To, TypeOK
  <2>3. /\ new \in CallType /\ new.kind = call[c].kind /\ new.pc = "settle"
        /\ new.began = call[c].began
    BY <2>1, Order DEF CallType
  <2>4. ~Consulting(c)
    BY <2>1 DEF Consulting
  <2> HIDE DEF new
  <2> QED
    BY <1>1, <2>1, <2>2, <2>3, <2>4, GoneOn
<1>11. ASSUME NEW c \in Caller, Fail(c)
       PROVE  Dated' /\ \A d \in Caller : Checked(d)'
  <2> DEFINE new == [call[c] EXCEPT !.pc = "run", !.est = 0]
  <2>1. /\ call[c].pc = "perform" /\ call[c].pc \in At /\ call[c] \in CallType
        /\ UNCHANGED <<switch, now, cache>>
    BY <1>11, Order, AtWork DEF Fail
  <2>2. CASE call[c].kind = "model" /\ call' = [call EXCEPT ![c].pc = "run", ![c].est = 0]
    <3>1. call' = [call EXCEPT ![c] = new]
      BY <2>2 DEF TypeOK
    <3>2. 0 \in 0..MaxCost
      BY ChokepointAssumption
    <3>3. /\ new \in CallType /\ new.kind = call[c].kind /\ new.pc = "run"
          /\ new.began = call[c].began
      BY <2>1, <3>2, Order DEF CallType
    <3>4. ~Consulting(c)
      BY <2>1 DEF Consulting
    <3> HIDE DEF new
    <3> QED
      BY <1>1, <2>1, <2>2, <3>1, <3>3, <3>4, GoneOn
  <2>3. CASE Tell(c, "let")
    BY <1>1, <2>1, <2>3, Over
  <2> QED
    BY <1>11, <2>2, <2>3 DEF Fail
<1>12. ASSUME NEW c \in Caller, RefuseStatic(c) \/ RefuseApproval(c) \/ Consume(c)
       PROVE  Dated' /\ \A d \in Caller : Checked(d)'
  <2>1. /\ \E told : Tell(c, told)
        /\ UNCHANGED <<switch, now, cache>>
    BY <1>12 DEF RefuseStatic, RefuseApproval, Consume
  <2> QED
    BY <1>1, <2>1, Over
<1>13. ASSUME NEW c \in Caller, NEW est \in 0..MaxCost, RefuseSpend(c, est)
       PROVE  Dated' /\ \A d \in Caller : Checked(d)'
  <2>1. Tell(c, "denied") /\ UNCHANGED <<switch, now, cache>>
    BY <1>13 DEF RefuseSpend
  <2> QED
    BY <1>1, <2>1, Over
<1>14. ASSUME NEW c \in Caller, Failure(c)
       PROVE  Dated' /\ \A d \in Caller : Checked(d)'
  <2>1. /\ \E told : Tell(c, told)
        /\ UNCHANGED <<switch, now, cache>>
    BY <1>14 DEF Failure, SwitchUnread, SpendUnread, PermitFails, RecordFails
  <2> QED
    BY <1>1, <2>1, Over
<1>15. ASSUME NEW p \in Proc, NEW s \in Switch, Drop(p, s)
       PROVE  Dated' /\ \A d \in Caller : Checked(d)'
  <2>1. UNCHANGED <<call, switch, now>> /\ cache' = [cache EXCEPT ![p][s] = Unread]
    BY <1>15 DEF Drop
  <2>2. \A q \in Proc, x \in Switch : cache'[q][x] = cache[q][x] \/ ~cache'[q][x].held
    BY <2>1 DEF TypeOK, Unread
  <2>3. Dated'
    BY <2>1, <2>2 DEF Dated
  <2> QED
    BY <2>1, <2>3 DEF Checked, Consulting, Cleared, ReadClear, Passed
<1>16. ASSUME NEW p \in Proc, NEW s \in Switch, NEW engaged \in BOOLEAN, Throw(p, s, engaged)
       PROVE  Dated' /\ \A d \in Caller : Checked(d)'
  <2>1. /\ UNCHANGED <<call, cache, now>>
        /\ switch' = [switch EXCEPT ![s] = [engaged |-> engaged, at |-> now]]
    BY <1>16 DEF Throw
  <2>2. \A x \in Switch : switch'[x] = switch[x] \/ switch'[x].at = now
    BY <2>1 DEF TypeOK
  <2>3. now \in Nat /\ \A x \in Switch : switch[x].at \in Nat
    BY DEF TypeOK
  <2>4. Dated'
    BY <2>1, <2>2, <2>3 DEF Dated
  <2>5. ASSUME NEW d \in Caller PROVE Checked(d)'
    <3>1. CASE call[d].pc \in At
      <4>1. call[d] \in CallType /\ Checked(d)
        BY <3>1, AtWork
      <4>2. /\ call[d].began \in Nat /\ call[d].readAt \in Nat /\ call[d].began <= now
            /\ Scopes[call[d].scope] \in Switch
        BY <3>1, <4>1, ScopeRange DEF Checked, CallType
      <4>3. ASSUME NEW x \in Switch, Passed(d, x) PROVE Passed(d, x)'
        <5>1. CASE switch'[x] = switch[x]
          BY <2>1, <4>3, <5>1 DEF Passed
        <5>2. CASE switch'[x].at = now
          BY <1>t, <2>1, <2>3, <4>2, <5>2 DEF Passed
        <5> QED
          BY <2>2, <5>1, <5>2
      <4>4. ReadClear(d) => ReadClear(d)'
        BY <2>1, <2>2, <2>3, <4>2 DEF ReadClear
      <4>5. Consulting(d)' <=> Consulting(d)
        BY <2>1 DEF Consulting
      <4>6. Cleared(d)' <=> Cleared(d)
        BY <2>1 DEF Cleared
      <4>7. \A i \in DOMAIN Scopes : Passed(d, Scopes[i]) => Passed(d, Scopes[i])'
        BY <4>3, ScopeRange
      <4> QED
        BY <2>1, <4>1, <4>3, <4>4, <4>5, <4>6, <4>7 DEF Checked
    <3>2. CASE call[d].pc \notin At
      BY <2>1, <3>2 DEF Checked
    <3> QED
      BY <3>1, <3>2
  <2> QED
    BY <2>4, <2>5
<1>17. ASSUME NEW p \in Proc, NEW r \in Run, EndRun(p, r)
       PROVE  Dated' /\ \A d \in Caller : Checked(d)'
  <2>1. UNCHANGED <<call, switch, now, cache>>
    BY <1>17 DEF EndRun
  <2> QED
    BY <2>1 DEF Dated, Checked, Consulting, Cleared, ReadClear, Passed
<1>18. ASSUME NEW p \in Proc, Crash(p)
       PROVE  Dated' /\ \A d \in Caller : Checked(d)'
  <2>1. UNCHANGED <<switch, now>> /\ cache' = [cache EXCEPT ![p] = [s \in Switch |-> Unread]]
    BY <1>18 DEF Crash
  <2>2. \A q \in Proc, x \in Switch : cache'[q][x] = cache[q][x] \/ ~cache'[q][x].held
    BY <2>1 DEF TypeOK, Unread
  <2>3. Dated'
    BY <2>1, <2>2 DEF Dated
  <2>4. \A d \in Caller : call'[d] = Idle \/ call'[d] = call[d]
    BY <1>18 DEF Crash, TypeOK
  <2>5. ASSUME NEW d \in Caller PROVE Checked(d)'
    <3>1. CASE call'[d] = Idle
      BY <3>1, Order DEF Idle, Checked
    <3>2. CASE call'[d] = call[d]
      <4>1. Checked(d)
        OBVIOUS
      <4> QED
        BY <2>1, <3>2, <4>1 DEF Checked, Consulting, Cleared, ReadClear, Passed
    <3> QED
      BY <2>4, <3>1, <3>2
  <2> QED
    BY <2>3, <2>5
<1>19. CASE Tick
  <2>1. UNCHANGED <<call, switch, cache>> /\ now' = now + 1 /\ now \in Nat
    BY <1>19 DEF Tick, TypeOK
  <2>2. \A n \in Nat : n <= now => n <= now'
    BY <2>1
  <2>3. \A p \in Proc, s \in Switch : cache[p][s].readAt \in Nat /\ switch[s].at \in Nat
    BY DEF TypeOK
  <2>4. Dated'
    <3>1. \A s \in Switch : switch'[s].at <= now'
      BY <2>1 DEF Dated, TypeOK
    <3>2. \A p \in Proc, s \in Switch :
            cache'[p][s].held =>
              /\ cache'[p][s].readAt <= now'
              /\ ~cache'[p][s].engaged /\ switch'[s].engaged
                   => cache'[p][s].readAt <= switch'[s].at
      BY <2>1, <2>2, <2>3 DEF Dated
    <3> QED
      BY <3>1, <3>2 DEF Dated
  <2>5. ASSUME NEW d \in Caller PROVE Checked(d)'
    <3>1. CASE call[d].pc \in At
      <4>1. call[d] \in CallType /\ Checked(d)
        BY <3>1, AtWork
      <4>2. call[d].began \in Nat /\ call[d].readAt \in Nat
        BY <4>1 DEF CallType
      <4> QED
        BY <2>1, <2>2, <4>1, <4>2 DEF Checked, Consulting, Cleared, ReadClear, Passed
    <3>2. CASE call[d].pc \notin At
      BY <2>1, <3>2 DEF Checked
    <3> QED
      BY <3>1, <3>2
  <2> QED
    BY <2>4, <2>5
<1> QED
  BY <1>2, <1>3, <1>4, <1>5, <1>6, <1>7, <1>8, <1>9, <1>10, <1>11, <1>12, <1>13, <1>14, <1>15,
     <1>16, <1>17, <1>18, <1>19 DEF Next, Check, Work

\* An engaged switch stops every step that begins a cache life later, whatever the
\* caches held and whatever was being read when it was engaged.
THEOREM SwitchStops ==
  ASSUME Ttl > 0
  PROVE  Spec => []EngagedSwitchStops
<1> DEFINE Inv == TypeOK /\ Dated /\ \A c \in Caller : Checked(c)
<1>1. Init => Inv
  BY TypeInit, CheckedInit
<1>2. Inv /\ [Next]_vars => Inv'
  <2> SUFFICES ASSUME Inv, [Next]_vars PROVE Inv'
    OBVIOUS
  <2>1. TypeOK'
    BY TypeNext
  <2>2. Dated' /\ \A c \in Caller : Checked(c)'
    BY CheckedNext
  <2> QED
    BY <2>1, <2>2
<1>3. Inv => EngagedSwitchStops
  <2> SUFFICES ASSUME Inv, NEW c \in Caller, NEW s \in Switch, Cleared(c)
               PROVE  ~(switch[s].engaged /\ switch[s].at + Ttl <= call[c].began)
    BY DEF EngagedSwitchStops
  <2>1. call[c].pc \in At
    BY Order DEF Cleared
  <2> QED
    BY <2>1 DEF Checked, Passed
<1> QED
  BY <1>1, <1>2, <1>3, PTL DEF Spec
-----------------------------------------------------------------------------
(* What a refusal costs. *)

\* An approval is spent by no model call, and by a step that only performs after it.
Sparing(c) ==
  call[c].pc \in At =>
    /\ call[c].pc \in {"enter", "clear", "approval"} => call[c].kind # "model"
    /\ call[c].used => call[c].kind # "model" /\ call[c].pc \in {"perform", "settle"}

LEMMA SparingInit == Init => \A c \in Caller : Sparing(c)
BY Order DEF Init, Idle, Sparing

LEMMA OneSparing ==
  ASSUME TypeOK, \A d \in Caller : Sparing(d), NEW c \in Caller, NEW new,
         call' = [call EXCEPT ![c] = new],
         new.pc \in At =>
           /\ new.pc \in {"enter", "clear", "approval"} => new.kind # "model"
           /\ new.used => new.kind # "model" /\ new.pc \in {"perform", "settle"}
  PROVE  \A d \in Caller : Sparing(d)'
<1>1. call'[c] = new /\ \A d \in Caller : d # c => call'[d] = call[d]
  BY DEF TypeOK
<1> QED
  BY <1>1 DEF Sparing

LEMMA SparingNext ==
  ASSUME TypeOK, [Next]_vars, \A c \in Caller : Sparing(c)
  PROVE  \A c \in Caller : Sparing(c)'
<1>1. CASE UNCHANGED call
  BY <1>1 DEF Sparing
<1>2. ASSUME NEW c \in Caller, NEW told, Tell(c, told)
      PROVE  \A d \in Caller : Sparing(d)'
  <2>1. [pc |-> "done", told |-> told].pc \notin At
    BY Order
  <2> QED
    BY <1>2, <2>1, OneSparing DEF Tell
<1>3. ASSUME NEW c \in Caller, NEW engaged, Consulting(c), Heed(c, engaged)
      PROVE  \A d \in Caller : Sparing(d)'
  <2>1. call[c].pc \in At /\ call[c] \in CallType /\ Sparing(c)
    BY <1>3, Order, AtWork DEF Consulting
  <2> DEFINE next == [call[c] EXCEPT !.fetch = "no", !.readAt = 0, !.seen = FALSE]
             new == IF next.scope < Len(Scopes)
                    THEN [next EXCEPT !.scope = next.scope + 1]
                    ELSE [next EXCEPT !.pc = Following(next.pc), !.scope = 1]
  <2>2. CASE ~Tell(c, "contained")
    <3>1. call' = [call EXCEPT ![c] = new]
      BY <1>3, <2>2 DEF Heed
    <3>2. /\ next \in CallType /\ next.pc = call[c].pc
          /\ next.kind = call[c].kind /\ next.used = call[c].used
      BY <2>1 DEF CallType
    <3>3. call[c].kind # "model" /\ ~call[c].used
      BY <1>3, <2>1 DEF Sparing, Consulting
    <3> HIDE DEF next
    <3>4. new.kind = call[c].kind /\ new.used = call[c].used
      BY <3>2 DEF CallType
    <3> HIDE DEF new
    <3> QED
      BY <3>1, <3>3, <3>4, OneSparing
  <2> QED
    BY <1>2, <1>3, <2>2
<1>4. ASSUME NEW c \in Caller, NEW new \in CallType, call' = [call EXCEPT ![c] = new],
             new.kind # "model", ~new.used
      PROVE  \A d \in Caller : Sparing(d)'
  BY <1>4, OneSparing
<1>5. ASSUME NEW c \in Caller, NEW kind \in Kind, NEW r \in Run, Begin(c, kind, r)
      PROVE  \A d \in Caller : Sparing(d)'
  <2> DEFINE start == CASE kind = "action" -> "enter"
                       [] kind = "compensation" -> "clear"
                       [] kind = "model" -> "run"
             dated == IF kind = "model" THEN 0 ELSE now
             new == [pc |-> start, kind |-> kind, of |-> r, est |-> 0, began |-> dated,
                     scope |-> 1, fetch |-> "no", readAt |-> 0, seen |-> FALSE,
                     run |-> 0, day |-> 0, used |-> FALSE]
  <2>1. kind = "model" => start = "run"
    OBVIOUS
  <2>2. call' = [call EXCEPT ![c] = new]
    BY <1>5 DEF Begin
  <2> HIDE DEF start, dated
  <2>3. new.pc = start /\ new.kind = kind /\ new.used = FALSE
    OBVIOUS
  <2> HIDE DEF new
  <2> QED
    BY <2>1, <2>2, <2>3, OneSparing
<1>6. ASSUME NEW c \in Caller, Consult(c)
      PROVE  \A d \in Caller : Sparing(d)'
  <2>1. Consulting(c)
    BY <1>6 DEF Consult
  <2>2. call[c].pc \in At /\ call[c] \in CallType /\ Sparing(c)
    BY <2>1, Order, AtWork DEF Consulting
  <2>3. CASE call' = [call EXCEPT ![c].fetch = "asked", ![c].readAt = now]
    <3> DEFINE new == [call[c] EXCEPT !.fetch = "asked", !.readAt = now]
    <3>1. call' = [call EXCEPT ![c] = new]
      BY <2>3 DEF TypeOK
    <3>2. new.pc = call[c].pc /\ new.kind = call[c].kind /\ new.used = call[c].used
      BY <2>2 DEF CallType
    <3> HIDE DEF new
    <3> QED
      BY <2>2, <3>1, <3>2, OneSparing DEF Sparing
  <2> QED
    BY <1>3, <1>6, <2>1, <2>3 DEF Consult
<1>7. ASSUME NEW c \in Caller, StoreAnswers(c)
      PROVE  \A d \in Caller : Sparing(d)'
  <2> DEFINE seen == switch[Scopes[call[c].scope]].engaged
             new == [call[c] EXCEPT !.fetch = "answered", !.seen = seen]
  <2>1. call[c].pc \in At /\ call[c] \in CallType /\ Sparing(c)
    BY <1>7, Order, AtWork DEF StoreAnswers, Consulting
  <2>2. call' = [call EXCEPT ![c] = new]
    BY <1>7 DEF StoreAnswers, TypeOK
  <2> HIDE DEF seen
  <2>3. new.pc = call[c].pc /\ new.kind = call[c].kind /\ new.used = call[c].used
    BY <2>1 DEF CallType
  <2> HIDE DEF new
  <2> QED
    BY <2>1, <2>2, <2>3, OneSparing DEF Sparing
<1>8. ASSUME NEW c \in Caller, Fill(c)
      PROVE  \A d \in Caller : Sparing(d)'
  BY <1>3, <1>8 DEF Fill
<1>9. ASSUME NEW c \in Caller, ReadRun(c) \/ ReadDay(c)
      PROVE  \A d \in Caller : Sparing(d)'
  <2>1. call[c].pc \in {"run", "day"} /\ call[c].pc \in At /\ call[c] \in CallType /\ Sparing(c)
    BY <1>9, Order, AtWork DEF ReadRun, ReadDay
  <2> DEFINE ran == [call[c] EXCEPT !.pc = "day", !.run = spent[call[c].of]]
             read == [call[c] EXCEPT !.pc = "reserve", !.day = spent[Day]]
  <2>2. \/ call' = [call EXCEPT ![c] = ran]
        \/ call' = [call EXCEPT ![c] = read]
    BY <1>9 DEF ReadRun, ReadDay, TypeOK
  <2>3. /\ ran.pc = "day" /\ ran.used = call[c].used
        /\ read.pc = "reserve" /\ read.used = call[c].used
    BY <2>1 DEF CallType
  <2>4. ~call[c].used
    BY <2>1 DEF Sparing
  <2> HIDE DEF ran, read
  <2> QED
    BY <2>2, <2>3, <2>4, OneSparing
<1>10. ASSUME NEW c \in Caller, NEW est \in 0..MaxCost, Reserve(c, est)
       PROVE  \A d \in Caller : Sparing(d)'
  <2> DEFINE pc == IF call[c].kind = "model" THEN "perform" ELSE Following("run")
             new == [call[c] EXCEPT !.pc = pc, !.est = est, !.began = 0, !.run = 0, !.day = 0]
  <2>1. call[c].pc = "reserve" /\ call[c].pc \in At /\ call[c] \in CallType /\ Sparing(c)
    BY <1>10, Order, AtWork DEF Reserve
  <2>2. call' = [call EXCEPT ![c] = new]
    BY <1>10 DEF Reserve, TypeOK
  <2>3. call[c].kind = "model" => pc = "perform"
    OBVIOUS
  <2> HIDE DEF pc
  <2>4. new.pc = pc /\ new.kind = call[c].kind /\ new.used = call[c].used
    BY <2>1 DEF CallType
  <2>5. ~call[c].used
    BY <2>1 DEF Sparing
  <2> HIDE DEF new
  <2> QED
    BY <2>2, <2>3, <2>4, <2>5, OneSparing
<1>11. ASSUME NEW c \in Caller, NEW approval \in Approval \cup {"none"}, Approve(c, approval)
       PROVE  \A d \in Caller : Sparing(d)'
  <2> DEFINE new == [call[c] EXCEPT !.pc = Following("approval"), !.used = approval # "none"]
  <2>1. call[c].pc = "approval" /\ call[c].pc \in At /\ call[c] \in CallType /\ Sparing(c)
    BY <1>11, Order, AtWork DEF Approve
  <2>2. call' = [call EXCEPT ![c] = new]
    BY <1>11 DEF Approve, TypeOK
  <2>3. new.pc = "perform" /\ new.kind = call[c].kind
    BY <2>1, Order DEF CallType
  <2>4. call[c].kind # "model"
    BY <2>1 DEF Sparing
  <2> HIDE DEF new
  <2> QED
    BY <2>2, <2>3, <2>4, OneSparing
<1>12. ASSUME NEW c \in Caller, NEW cost \in 0..MaxCost, Perform(c, cost)
       PROVE  \A d \in Caller : Sparing(d)'
  <2> DEFINE new == [call[c] EXCEPT !.pc = "settle"]
  <2>1. call[c].pc = "perform" /\ call[c].pc \in At /\ call[c] \in CallType /\ Sparing(c)
    BY <1>12, Order, AtWork DEF Perform
  <2>2. call' = [call EXCEPT ![c] = new]
    BY <1>12 DEF Perform, To, TypeOK
  <2>3. new.pc = "settle" /\ new.kind = call[c].kind /\ new.used = call[c].used
    BY <2>1 DEF CallType
  <2>4. call[c].used => call[c].kind # "model"
    BY <2>1 DEF Sparing
  <2> HIDE DEF new
  <2> QED
    BY <2>2, <2>3, <2>4, OneSparing
<1>13. ASSUME NEW c \in Caller, Fail(c)
       PROVE  \A d \in Caller : Sparing(d)'
  <2> DEFINE new == [call[c] EXCEPT !.pc = "run", !.est = 0]
  <2>1. call[c].pc = "perform" /\ call[c].pc \in At /\ call[c] \in CallType /\ Sparing(c)
    BY <1>13, Order, AtWork DEF Fail
  <2>2. CASE call[c].kind = "model" /\ call' = [call EXCEPT ![c].pc = "run", ![c].est = 0]
    <3>1. call' = [call EXCEPT ![c] = new]
      BY <2>2 DEF TypeOK
    <3>2. new.pc = "run" /\ new.used = call[c].used
      BY <2>1 DEF CallType
    <3>3. ~call[c].used
      BY <2>1, <2>2 DEF Sparing
    <3> HIDE DEF new
    <3> QED
      BY <3>1, <3>2, <3>3, OneSparing
  <2> QED
    BY <1>2, <1>13, <2>2 DEF Fail
<1>14. ASSUME NEW c \in Caller,
              \/ RefuseStatic(c) \/ RefuseApproval(c) \/ Consume(c) \/ Failure(c)
              \/ \E est \in 0..MaxCost : RefuseSpend(c, est)
       PROVE  \A d \in Caller : Sparing(d)'
  <2>1. \E told : Tell(c, told)
    BY <1>14 DEF RefuseStatic, RefuseApproval, Consume, RefuseSpend,
                 Failure, SwitchUnread, SpendUnread, PermitFails, RecordFails
  <2> QED
    BY <1>2, <2>1
<1>15. ASSUME NEW p \in Proc, Crash(p)
       PROVE  \A d \in Caller : Sparing(d)'
  <2>1. \A d \in Caller : call'[d] = Idle \/ call'[d] = call[d]
    BY <1>15 DEF Crash, TypeOK
  <2> QED
    BY <2>1, Order DEF Sparing, Idle
<1>16. CASE \/ Tick
            \/ \E p \in Proc, r \in Run : EndRun(p, r)
            \/ \E p \in Proc, s \in Switch :
                 Drop(p, s) \/ \E engaged \in BOOLEAN : Throw(p, s, engaged)
            \/ UNCHANGED vars
  BY <1>1, <1>16 DEF Tick, EndRun, Drop, Throw, vars
<1> QED
  BY <1>5, <1>6, <1>7, <1>8, <1>9, <1>10, <1>11, <1>12, <1>13, <1>14, <1>15, <1>16
  DEF Next, Check, Work

\* A caller's step leaves the calls of the others.
LEMMA Alone ==
  ASSUME TypeOK, NEW c \in Caller, NEW d \in Caller, d # c,
         \/ \E kind \in Kind, r \in Run : Begin(c, kind, r)
         \/ Check(c) \/ Work(c) \/ Failure(c)
  PROVE  call'[d] = call[d]
<1>1. ASSUME NEW new, call' = [call EXCEPT ![c] = new]
      PROVE  call'[d] = call[d]
  BY <1>1 DEF TypeOK
<1>2. ASSUME NEW told, Tell(c, told)
      PROVE  call'[d] = call[d]
  BY <1>1, <1>2 DEF Tell
<1>3. ASSUME NEW engaged, Heed(c, engaged)
      PROVE  call'[d] = call[d]
  BY <1>1, <1>2, <1>3 DEF Heed
<1>4. ASSUME NEW kind \in Kind, NEW r \in Run, Begin(c, kind, r)
      PROVE  call'[d] = call[d]
  BY <1>1, <1>4 DEF Begin
<1>5. ASSUME Consult(c) \/ StoreAnswers(c) \/ Fill(c)
      PROVE  call'[d] = call[d]
  BY <1>3, <1>5 DEF Consult, StoreAnswers, Fill, TypeOK
<1>6. ASSUME ReadRun(c) \/ ReadDay(c)
      PROVE  call'[d] = call[d]
  BY <1>6 DEF ReadRun, ReadDay, TypeOK
<1>7. ASSUME NEW est \in 0..MaxCost, Reserve(c, est)
      PROVE  call'[d] = call[d]
  BY <1>7 DEF Reserve, TypeOK
<1>8. ASSUME NEW approval \in Approval \cup {"none"}, Approve(c, approval)
      PROVE  call'[d] = call[d]
  BY <1>8 DEF Approve, TypeOK
<1>9. ASSUME NEW cost \in 0..MaxCost, Perform(c, cost)
      PROVE  call'[d] = call[d]
  BY <1>9 DEF Perform, To, TypeOK
<1>10. ASSUME Fail(c)
       PROVE  call'[d] = call[d]
  BY <1>2, <1>10 DEF Fail, TypeOK
<1>11. ASSUME \/ RefuseStatic(c) \/ RefuseApproval(c) \/ Consume(c) \/ Failure(c)
              \/ \E est \in 0..MaxCost : RefuseSpend(c, est)
       PROVE  call'[d] = call[d]
  BY <1>2, <1>11 DEF RefuseStatic, RefuseApproval, Consume, RefuseSpend,
                    Failure, SwitchUnread, SpendUnread, PermitFails, RecordFails
<1> QED
  BY <1>4, <1>5, <1>6, <1>7, <1>8, <1>9, <1>10, <1>11 DEF Check, Work

\* A call that has spent an approval is ended by its work, or by a store.
LEMMA Ends ==
  ASSUME TypeOK, [Next]_vars, \A d \in Caller : Sparing(d), NEW c \in Caller,
         call[c].pc \in At, call[c].used, call'[c].pc = "done"
  PROVE  call'[c].told = "let" \/ faults' # faults
<1>1. call[c].pc \in {"perform", "settle"} /\ call[c].kind # "model" /\ call[c] \in CallType
  BY AtWork DEF Sparing
<1>2. call'[c] # call[c]
  BY <1>1
<1>3. CASE Check(c) \/ \E kind \in Kind, r \in Run : Begin(c, kind, r)
  BY <1>1, <1>3 DEF Check, Consult, StoreAnswers, Fill, Consulting, RefuseStatic, ReadRun,
                    ReadDay, Reserve, RefuseSpend, Approve, RefuseApproval, Begin
<1>4. CASE \E cost \in 0..MaxCost : Perform(c, cost)
  <2>1. call' = [call EXCEPT ![c].pc = "settle"]
    BY <1>4 DEF Perform, To
  <2>2. call'[c].pc = "settle"
    BY <1>1, <2>1 DEF TypeOK, CallType
  <2> QED
    BY <2>2
<1>5. CASE Fail(c) \/ Consume(c)
  <2>1. Tell(c, "let")
    BY <1>1, <1>5 DEF Fail, Consume
  <2> QED
    BY <2>1 DEF Tell, TypeOK
<1>6. CASE Failure(c)
  <2>1. faults' = faults + 1 /\ faults \in Nat
    BY <1>6 DEF Failure, SwitchUnread, SpendUnread, PermitFails, RecordFails, Fault, TypeOK
  <2> QED
    BY <2>1
<1>7. CASE \E p \in Proc : Crash(p)
  <2>1. call'[c] = Idle
    BY <1>2, <1>7 DEF Crash, TypeOK
  <2> QED
    BY <2>1 DEF Idle
<1>8. CASE \/ Tick
           \/ \E p \in Proc, r \in Run : EndRun(p, r)
           \/ \E p \in Proc, s \in Switch :
                Drop(p, s) \/ \E engaged \in BOOLEAN : Throw(p, s, engaged)
           \/ UNCHANGED vars
  BY <1>2, <1>8 DEF Tick, EndRun, Drop, Throw, vars
<1> QED
  BY <1>2, <1>3, <1>4, <1>5, <1>6, <1>7, <1>8, Alone DEF Next, Work

\* No check refuses a step once its approval is spent: only a store that fails does.
THEOREM RefusalsFree == Spec => RefusalsAreFree
<1> DEFINE Inv == TypeOK /\ \A c \in Caller : Sparing(c)
           Free == \A c \in Caller : call[c].pc \in At /\ call[c].used /\ call'[c].pc = "done" =>
                     call'[c].told = "let" \/ faults' # faults
<1>1. Init => Inv
  BY TypeInit, SparingInit
<1>2. Inv /\ [Next]_vars => Inv'
  <2> SUFFICES ASSUME Inv, [Next]_vars PROVE Inv'
    OBVIOUS
  <2>1. TypeOK'
    BY TypeNext
  <2>2. \A c \in Caller : Sparing(c)'
    BY SparingNext
  <2> QED
    BY <2>1, <2>2
<1>3. Inv /\ [Next]_vars => [Free]_vars
  <2> SUFFICES ASSUME Inv, [Next]_vars PROVE Free
    OBVIOUS
  <2> QED
    BY Ends
<1> QED
  BY <1>1, <1>2, <1>3, PTL DEF Spec, RefusalsAreFree

-----------------------------------------------------------------------------
(* Sums over finite sets, as for the outside agents: what is said of every one is
   proved by a least counterexample in the strict-subset order. *)

\* What a sum over a set stands for: a table of the sums over its subsets.
Pick(s) == CHOOSE x \in s : TRUE
Adds(f, S, sums) ==
  sums = [s \in SUBSET S |-> IF s = {} THEN 0 ELSE f[Pick(s)] + sums[s \ {Pick(s)}]]

\* The sum is the table's entry for the whole set.
LEMMA SumIsTabled ==
  ASSUME NEW f, NEW S
  PROVE  SumOf(f, S) = (CHOOSE sums : Adds(f, S, sums))[S]
BY DEF SumOf, MapThenSumSet, MapThenFoldSet, Adds, Pick

LEMMA Picked ==
  ASSUME NEW s, s # {}
  PROVE  Pick(s) \in s
BY DEF Pick

\* Among sets of members of a finite set there is one with no other of them inside it.
LEMMA LeastSet ==
  ASSUME NEW S, IsFiniteSet(S), NEW Bad, Bad \subseteq SUBSET S, Bad # {}
  PROVE  \E s \in Bad : \A t \in Bad : t \subseteq s => t = s
<1>1. IsWellFoundedOn(StrictSubsetOrdering(S), SUBSET S)
  BY FS_StrictSubsetOrderingWellFounded, FS_FiniteSubsetsOfFinite
<1>2. PICK s \in Bad : \A t \in Bad : ~(<<t, s>> \in StrictSubsetOrdering(S))
  BY <1>1, WFMin
<1>3. \A t \in Bad : t \subseteq s => t = s
  BY <1>2 DEF StrictSubsetOrdering
<1> QED
  BY <1>3

LEMMA AddsAt ==
  ASSUME NEW f, NEW S, NEW sums, Adds(f, S, sums), NEW s \in SUBSET S
  PROVE  sums[s] = IF s = {} THEN 0 ELSE f[Pick(s)] + sums[s \ {Pick(s)}]
BY DEF Adds

\* Two tables of functions that agree on a set agree on its sum.
LEMMA AddsAgree ==
  ASSUME NEW f, NEW g, NEW A, NEW B, NEW a, NEW b, Adds(f, A, a), Adds(g, B, b),
         NEW S, S \subseteq A, S \subseteq B, IsFiniteSet(S), \A x \in S : f[x] = g[x]
  PROVE  a[S] = b[S]
<1> DEFINE Bad == {s \in SUBSET S : a[s] # b[s]}
<1>1. SUFFICES ASSUME Bad # {} PROVE FALSE
  OBVIOUS
<1>0a. Bad \subseteq SUBSET S
  OBVIOUS
<1>0b. \E s \in Bad : \A t \in Bad : t \subseteq s => t = s
  <2> HIDE DEF Bad
  <2> QED
    BY <1>1, <1>0a, LeastSet
<1>2. PICK s \in Bad : \A t \in Bad : t \subseteq s => t = s
  BY <1>0b
<1>3. s \in SUBSET A /\ s \in SUBSET B
  OBVIOUS
<1>4. CASE s = {}
  BY <1>3, <1>4, AddsAt
<1>5. CASE s # {}
  <2>1. Pick(s) \in s
    BY <1>5, Picked
  <2>2. a[s \ {Pick(s)}] = b[s \ {Pick(s)}]
    BY <1>2, <2>1
  <2>3. f[Pick(s)] = g[Pick(s)]
    BY <2>1
  <2>4. a[s] = f[Pick(s)] + a[s \ {Pick(s)}] /\ b[s] = g[Pick(s)] + b[s \ {Pick(s)}]
    BY <1>3, <1>5, AddsAt
  <2> QED
    BY <2>2, <2>3, <2>4
<1> QED
  BY <1>4, <1>5

\* There is a table of every finite set.
LEMMA AddsExists ==
  ASSUME NEW f, NEW S, IsFiniteSet(S)
  PROVE  \E sums : Adds(f, S, sums)
<1> DEFINE Bad == {s \in SUBSET S : ~ \E sums : Adds(f, s, sums)}
<1>1. SUFFICES ASSUME Bad # {} PROVE FALSE
  OBVIOUS
<1>0a. Bad \subseteq SUBSET S
  OBVIOUS
<1>0b. \E s \in Bad : \A t \in Bad : t \subseteq s => t = s
  <2> HIDE DEF Bad
  <2> QED
    BY <1>1, <1>0a, LeastSet
<1>2. PICK s \in Bad : \A t \in Bad : t \subseteq s => t = s
  BY <1>0b
<1> DEFINE Below(t) == CHOOSE sums : Adds(f, t, sums)
           sums == [t \in SUBSET s |->
                      IF t = {} THEN 0
                      ELSE f[Pick(t)] + Below(t \ {Pick(t)})[t \ {Pick(t)}]]
<1>3. \A t \in SUBSET s : t # s => Adds(f, t, Below(t))
  BY <1>2
<1>4. ASSUME NEW t \in SUBSET s, t # s
      PROVE  sums[t] = Below(t)[t]
  <2>1. Adds(f, t, Below(t))
    BY <1>3, <1>4
  <2>2. CASE t = {}
    BY <2>1, <2>2, AddsAt
  <2>3. CASE t # {}
    <3> DEFINE u == t \ {Pick(t)}
    <3>1. Below(t)[t] = f[Pick(t)] + Below(t)[u]
      BY <2>1, <2>3, AddsAt
    <3>2. u \in SUBSET s /\ u # s /\ u \subseteq t
      BY <1>4, <2>3, Picked
    <3>3. Adds(f, u, Below(u))
      BY <1>3, <3>2
    <3>4. IsFiniteSet(u)
      BY <3>2, FS_Subset
    <3>5. Below(t)[u] = Below(u)[u]
      BY <2>1, <3>2, <3>3, <3>4, AddsAgree
    <3>6. sums[t] = f[Pick(t)] + Below(u)[u]
      BY <2>3
    <3> QED
      BY <3>1, <3>5, <3>6
  <2> QED
    BY <2>2, <2>3
<1>5. Adds(f, s, sums)
  <2>1. ASSUME NEW t \in SUBSET s, t # {}
        PROVE  Below(t \ {Pick(t)})[t \ {Pick(t)}] = sums[t \ {Pick(t)}]
    BY <1>4, <2>1, Picked
  <2> DEFINE Entry(t) == IF t = {} THEN 0 ELSE f[Pick(t)] + sums[t \ {Pick(t)}]
  <2>2. ASSUME NEW t \in SUBSET s
        PROVE  sums[t] = Entry(t)
    <3>1. CASE t = {}
      BY <3>1
    <3>2. CASE t # {}
      <4>1. sums[t] = f[Pick(t)] + Below(t \ {Pick(t)})[t \ {Pick(t)}]
        BY <3>2
      <4>2. Entry(t) = f[Pick(t)] + sums[t \ {Pick(t)}]
        BY <3>2
      <4> HIDE DEF sums, Below
      <4> QED
        BY <2>1, <3>2, <4>1, <4>2
    <3> QED
      BY <3>1, <3>2
  <2>3. sums = [t \in SUBSET s |-> sums[t]]
    OBVIOUS
  <2> HIDE DEF sums
  <2>4. sums = [t \in SUBSET s |-> Entry(t)]
    <3> HIDE DEF Entry
    <3> QED
      BY <2>2, <2>3
  <2> QED
    BY <2>4 DEF Adds
<1> QED
  BY <1>2, <1>5

LEMMA SumTabled ==
  ASSUME NEW f, NEW S, IsFiniteSet(S)
  PROVE  \E sums : Adds(f, S, sums) /\ SumOf(f, S) = sums[S]
BY AddsExists, SumIsTabled

\* Of nothing, nothing; of equal things, the same.
LEMMA SumNone ==
  ASSUME NEW f
  PROVE  SumOf(f, {}) = 0
BY SumTabled, AddsAt, FS_EmptySet

LEMMA SumSame ==
  ASSUME NEW f, NEW g, NEW S, IsFiniteSet(S), \A x \in S : f[x] = g[x]
  PROVE  SumOf(f, S) = SumOf(g, S)
<1>1. PICK a : Adds(f, S, a) /\ SumOf(f, S) = a[S]
  BY SumTabled
<1>2. PICK b : Adds(g, S, b) /\ SumOf(g, S) = b[S]
  BY SumTabled
<1> QED
  BY <1>1, <1>2, AddsAgree

\* The sum is that of any member and of the rest.
LEMMA SumPicked ==
  ASSUME NEW f, NEW S, IsFiniteSet(S), S # {}
  PROVE  SumOf(f, S) = f[Pick(S)] + SumOf(f, S \ {Pick(S)})
<1> DEFINE T == S \ {Pick(S)}
<1>1. PICK a : Adds(f, S, a) /\ SumOf(f, S) = a[S]
  BY SumTabled
<1>2. IsFiniteSet(T)
  BY FS_Subset
<1>3. PICK b : Adds(f, T, b) /\ SumOf(f, T) = b[T]
  BY <1>2, SumTabled
<1>4. a[T] = b[T]
  BY <1>1, <1>2, <1>3, AddsAgree
<1>5. a[S] = f[Pick(S)] + a[T]
  BY <1>1, AddsAt
<1> QED
  BY <1>1, <1>3, <1>4, <1>5

\* Of integers, an integer.
LEMMA SumTyped ==
  ASSUME NEW f, NEW S, IsFiniteSet(S), \A x \in S : f[x] \in Int
  PROVE  SumOf(f, S) \in Int
<1> DEFINE Bad == {s \in SUBSET S : SumOf(f, s) \notin Int}
<1>1. SUFFICES ASSUME Bad # {} PROVE FALSE
  OBVIOUS
<1>0a. Bad \subseteq SUBSET S
  OBVIOUS
<1>0b. \E s \in Bad : \A t \in Bad : t \subseteq s => t = s
  <2> HIDE DEF Bad
  <2> QED
    BY <1>1, <1>0a, LeastSet
<1>2. PICK s \in Bad : \A t \in Bad : t \subseteq s => t = s
  BY <1>0b
<1>3. s # {}
  <2>1. SumOf(f, {}) \in Int
    BY SumNone
  <2> QED
    BY <1>2, <2>1
<1>4. Pick(s) \in s /\ f[Pick(s)] \in Int
  BY <1>3, Picked
<1>5. SumOf(f, s \ {Pick(s)}) \in Int
  BY <1>2, <1>4
<1>6. IsFiniteSet(s)
  BY FS_Subset
<1> QED
  BY <1>3, <1>4, <1>5, <1>6, SumPicked

LEMMA SumTakes ==
  ASSUME NEW f, NEW S, IsFiniteSet(S), \A x \in S : f[x] \in Int, NEW y \in S
  PROVE  SumOf(f, S) = f[y] + SumOf(f, S \ {y})
<1> DEFINE Bad == {s \in SUBSET S : \E z \in s : SumOf(f, s) # f[z] + SumOf(f, s \ {z})}
<1>1. SUFFICES ASSUME Bad # {} PROVE FALSE
  OBVIOUS
<1>0a. Bad \subseteq SUBSET S
  OBVIOUS
<1>0b. \E s \in Bad : \A t \in Bad : t \subseteq s => t = s
  <2> HIDE DEF Bad
  <2> QED
    BY <1>1, <1>0a, LeastSet
<1>2. PICK s \in Bad : \A t \in Bad : t \subseteq s => t = s
  BY <1>0b
<1>3. PICK z \in s : SumOf(f, s) # f[z] + SumOf(f, s \ {z})
  OBVIOUS
<1> DEFINE x == Pick(s)
<1>0c. \A t \in SUBSET s : t # s => \A u \in t : SumOf(f, t) = f[u] + SumOf(f, t \ {u})
  BY <1>2
<1> HIDE DEF Bad
<1>4. x \in s /\ IsFiniteSet(s) /\ s \subseteq S
  BY <1>0a, Picked, FS_Subset DEF x
<1>5. SumOf(f, s) = f[x] + SumOf(f, s \ {x})
  BY <1>3, <1>4, SumPicked DEF x
<1>6. x # z
  BY <1>3, <1>5
<1> HIDE DEF x
<1>7. SumOf(f, s \ {x}) = f[z] + SumOf(f, (s \ {x}) \ {z})
  BY <1>0c, <1>4, <1>6
<1>8. SumOf(f, s \ {z}) = f[x] + SumOf(f, (s \ {z}) \ {x})
  BY <1>0c, <1>4, <1>6
<1>9. (s \ {x}) \ {z} = (s \ {z}) \ {x}
  OBVIOUS
<1>10. IsFiniteSet((s \ {x}) \ {z})
  BY <1>4, FS_Subset
<1>11. f[x] \in Int /\ f[z] \in Int /\ SumOf(f, (s \ {x}) \ {z}) \in Int
  BY <1>4, <1>10, SumTyped
<1> DEFINE rest == SumOf(f, (s \ {x}) \ {z})
<1>13. SumOf(f, s \ {x}) = f[z] + rest /\ SumOf(f, s \ {z}) = f[x] + rest /\ rest \in Int
  BY <1>7, <1>8, <1>9, <1>11
<1> HIDE DEF rest
<1>14. SumOf(f, s) = f[z] + SumOf(f, s \ {z})
  BY <1>5, <1>11, <1>13
<1> QED
  BY <1>3, <1>14

\* What one member gains the sum gains.
LEMMA SumPut ==
  ASSUME NEW f, NEW g, NEW S, IsFiniteSet(S), \A x \in S : f[x] \in Int /\ g[x] \in Int,
         NEW y \in S, \A x \in S \ {y} : g[x] = f[x]
  PROVE  SumOf(g, S) = SumOf(f, S) - f[y] + g[y]
<1>1. IsFiniteSet(S \ {y})
  BY FS_Subset
<1>2. SumOf(g, S \ {y}) = SumOf(f, S \ {y})
  BY <1>1, SumSame
<1>3. SumOf(f, S) = f[y] + SumOf(f, S \ {y}) /\ SumOf(g, S) = g[y] + SumOf(g, S \ {y})
  BY SumTakes
<1>4. SumOf(f, S \ {y}) \in Int
  BY <1>1, SumTyped
<1> QED
  BY <1>2, <1>3, <1>4

\* Of numbers that are not negative, one that is not; of zeros, zero.
LEMMA SumNotNegative ==
  ASSUME NEW f, NEW S, IsFiniteSet(S), \A x \in S : f[x] \in Nat
  PROVE  SumOf(f, S) \in Nat
<1> DEFINE Bad == {s \in SUBSET S : SumOf(f, s) \notin Nat}
<1>1. SUFFICES ASSUME Bad # {} PROVE FALSE
  OBVIOUS
<1>2. Bad \subseteq SUBSET S
  OBVIOUS
<1>3. \E s \in Bad : \A t \in Bad : t \subseteq s => t = s
  <2> HIDE DEF Bad
  <2> QED
    BY <1>1, <1>2, LeastSet
<1>4. PICK s \in Bad : \A t \in Bad : t \subseteq s => t = s
  BY <1>3
<1>5. s # {}
  BY <1>4, SumNone
<1>6. Pick(s) \in s /\ f[Pick(s)] \in Nat
  BY <1>5, Picked
<1>7. SumOf(f, s \ {Pick(s)}) \in Nat
  BY <1>4, <1>6
<1>8. IsFiniteSet(s)
  BY FS_Subset
<1> QED
  BY <1>4, <1>5, <1>6, <1>7, <1>8, SumPicked

LEMMA SumZero ==
  ASSUME NEW f, NEW S, IsFiniteSet(S), \A x \in S : f[x] = 0
  PROVE  SumOf(f, S) = 0
<1> DEFINE Bad == {s \in SUBSET S : SumOf(f, s) # 0}
<1>1. SUFFICES ASSUME Bad # {} PROVE FALSE
  OBVIOUS
<1>2. Bad \subseteq SUBSET S
  OBVIOUS
<1>3. \E s \in Bad : \A t \in Bad : t \subseteq s => t = s
  <2> HIDE DEF Bad
  <2> QED
    BY <1>1, <1>2, LeastSet
<1>4. PICK s \in Bad : \A t \in Bad : t \subseteq s => t = s
  BY <1>3
<1>5. s # {}
  BY <1>4, SumNone
<1>6. Pick(s) \in s /\ f[Pick(s)] = 0
  BY <1>5, Picked
<1>7. SumOf(f, s \ {Pick(s)}) = 0
  BY <1>4, <1>6
<1>8. IsFiniteSet(s)
  BY FS_Subset
<1> QED
  BY <1>4, <1>5, <1>6, <1>7, <1>8, SumPicked

-----------------------------------------------------------------------------
(* What is held for the calls let through: the part of each call in the sum
   over every caller, so that a step of one call changes one term. *)

\* The rest of a set adds nothing when its members are zero.
LEMMA SumWithin ==
  ASSUME NEW f, NEW S, NEW T, IsFiniteSet(S), T \subseteq S, \A x \in S : f[x] \in Int,
         \A x \in S \ T : f[x] = 0
  PROVE  SumOf(f, T) = SumOf(f, S)
<1> DEFINE Bad == {s \in SUBSET S : SumOf(f, s) # SumOf(f, s \cap T)}
<1>1. SUFFICES ASSUME Bad # {} PROVE FALSE
  <2>1. S \in SUBSET S /\ S \cap T = T
    OBVIOUS
  <2>2. CASE SumOf(f, S) = SumOf(f, S \cap T)
    BY <2>1, <2>2
  <2>3. CASE S \in Bad
    BY <2>3
  <2> QED
    BY <2>1, <2>2, <2>3
<1>2. Bad \subseteq SUBSET S
  OBVIOUS
<1>3. \E s \in Bad : \A t \in Bad : t \subseteq s => t = s
  <2> HIDE DEF Bad
  <2> QED
    BY <1>1, <1>2, LeastSet
<1>4. PICK s \in Bad : \A t \in Bad : t \subseteq s => t = s
  BY <1>3
<1>5. s # {}
  <2>1. {} \cap T = {}
    OBVIOUS
  <2> QED
    BY <1>4, <2>1
<1>6. PICK x \in s : TRUE
  BY <1>5
<1>7. SumOf(f, s \ {x}) = SumOf(f, (s \ {x}) \cap T)
  BY <1>4, <1>6
<1>8. IsFiniteSet(s) /\ IsFiniteSet(s \cap T) /\ \A y \in s : f[y] \in Int
  BY FS_Subset
<1>9. SumOf(f, s) = f[x] + SumOf(f, s \ {x})
  BY <1>6, <1>8, SumTakes
<1>10. CASE x \in T
  <2>1. (s \ {x}) \cap T = (s \cap T) \ {x}
    OBVIOUS
  <2>2. x \in s \cap T /\ \A y \in s \cap T : f[y] \in Int
    BY <1>8, <1>10
  <2>3. SumOf(f, s \cap T) = f[x] + SumOf(f, (s \cap T) \ {x})
    BY <1>8, <2>2, SumTakes
  <2> QED
    BY <1>4, <1>7, <1>9, <2>1, <2>3
<1>11. CASE x \notin T
  <2>1. (s \ {x}) \cap T = s \cap T
    BY <1>11
  <2>2. f[x] = 0
    BY <1>11
  <2>3. IsFiniteSet(s \ {x}) /\ \A y \in s \ {x} : f[y] \in Int
    BY <1>8, FS_Subset
  <2>4. SumOf(f, s \ {x}) \in Int
    BY <2>3, SumTyped
  <2>5. SumOf(f, s) = SumOf(f, s \ {x})
    BY <1>9, <2>2, <2>4
  <2> QED
    BY <1>4, <1>7, <2>1, <2>5
<1> QED
  BY <1>10, <1>11

\* What the reservation of a run holds for one call.
Part(c, p, r) == IF c \in Holding(p, r) THEN call[c].est ELSE 0
Parts(p, r) == [c \in Caller |-> Part(c, p, r)]

LEMMA PartTyped ==
  ASSUME TypeOK, NEW c \in Caller, NEW p, NEW r
  PROVE  Part(c, p, r) \in Nat
<1>1. CASE c \in Holding(p, r)
  <2>1. call[c] \in CallType /\ MaxCost \in Nat
    BY <1>1, Order, AtWork, ChokepointAssumption DEF Holding
  <2>2. call[c].est \in 0..MaxCost
    BY <2>1 DEF CallType
  <2> QED
    BY <1>1, <2>1, <2>2 DEF Part
<1> QED
  BY <1>1 DEF Part

LEMMA PartsTyped ==
  ASSUME TypeOK, NEW p, NEW r
  PROVE  \A c \in Caller : Parts(p, r)[c] \in Nat /\ Parts(p, r)[c] \in Int
BY PartTyped DEF Parts

LEMMA Finite == IsFiniteSet(Caller) /\ IsFiniteSet(Run)
BY ChokepointAssumption

LEMMA HeldInParts ==
  ASSUME TypeOK, NEW p, NEW r
  PROVE  Held(p, r) = SumOf(Parts(p, r), Caller)
<1> DEFINE T == Holding(p, r)
           f == [c \in T |-> call[c].est]
<1>1. T \subseteq Caller /\ IsFiniteSet(Caller) /\ IsFiniteSet(T)
  BY Finite, FS_Subset DEF Holding, Of
<1>2. \A c \in T : f[c] = Parts(p, r)[c]
  BY <1>1 DEF Parts, Part
<1>3. \A c \in Caller \ T : Parts(p, r)[c] = 0
  BY DEF Parts, Part
<1>4. Held(p, r) = SumOf(f, T)
  BY DEF Held
<1> HIDE DEF T, f
<1>5. SumOf(f, T) = SumOf(Parts(p, r), T)
  BY <1>1, <1>2, SumSame
<1>6. SumOf(Parts(p, r), T) = SumOf(Parts(p, r), Caller)
  BY <1>1, <1>3, PartsTyped, SumWithin
<1> QED
  BY <1>4, <1>5, <1>6

\* No part is more than the whole.
LEMMA PartWithin ==
  ASSUME TypeOK, NEW c \in Caller, NEW p, NEW r
  PROVE  Held(p, r) \in Nat /\ Part(c, p, r) <= Held(p, r)
<1>1. Held(p, r) = SumOf(Parts(p, r), Caller)
  BY HeldInParts
<1>2. \A x \in Caller : Parts(p, r)[x] \in Nat /\ Parts(p, r)[x] \in Int
  BY PartsTyped
<1>3. SumOf(Parts(p, r), Caller) = Parts(p, r)[c] + SumOf(Parts(p, r), Caller \ {c})
  BY <1>2, Finite, SumTakes
<1>4. SumOf(Parts(p, r), Caller \ {c}) \in Nat
  <2>1. IsFiniteSet(Caller \ {c})
    BY Finite, FS_Subset
  <2> QED
    BY <1>2, <2>1, SumNotNegative
<1>5. Parts(p, r)[c] = Part(c, p, r) /\ Part(c, p, r) \in Nat
  BY PartTyped DEF Parts
<1> QED
  BY <1>1, <1>3, <1>4, <1>5

PartsAddUp(p, r) ==
  /\ Held(p, r) = SumOf(Parts(p, r), Caller)
  /\ \A c \in Caller : Parts(p, r)[c] \in Nat /\ Parts(p, r)[c] \in Int

\* The same at the next state.
LEMMA PartsNext ==
  ASSUME NEW p, NEW r
  PROVE  TypeOK' => PartsAddUp(p, r)'
<1>1. TypeOK => PartsAddUp(p, r)
  BY HeldInParts, PartsTyped DEF PartsAddUp
<1> QED
  BY <1>1, PTL

\* A step that moves one call changes what is held by that call's part.
LEMMA HeldMoves ==
  ASSUME TypeOK, TypeOK', NEW c \in Caller, NEW p, NEW r,
         \A x \in Caller \ {c} : call'[x] = call[x]
  PROVE  /\ Held(p, r) \in Nat /\ Held(p, r)' \in Int
         /\ Part(c, p, r) \in Nat /\ Part(c, p, r)' \in Int
         /\ Held(p, r)' = Held(p, r) - Part(c, p, r) + Part(c, p, r)'
<1>1. /\ Held(p, r) = SumOf(Parts(p, r), Caller)
      /\ Held(p, r)' = SumOf(Parts(p, r)', Caller)
  BY HeldInParts, PartsNext DEF PartsAddUp
<1>2. /\ \A x \in Caller : Parts(p, r)[x] \in Int /\ Parts(p, r)'[x] \in Int
      /\ Parts(p, r)[c] \in Nat
  BY PartsTyped, PartsNext DEF PartsAddUp
<1>3. \A x \in Caller \ {c} : Parts(p, r)'[x] = Parts(p, r)[x]
  BY DEF Parts, Part, Holding, Of
<1>4. SumOf(Parts(p, r)', Caller)
        = SumOf(Parts(p, r), Caller) - Parts(p, r)[c] + Parts(p, r)'[c]
  BY <1>2, <1>3, Finite, SumPut
<1>5. Parts(p, r)[c] = Part(c, p, r) /\ Parts(p, r)'[c] = Part(c, p, r)'
  BY DEF Parts
<1>6. Held(p, r) \in Nat
  BY PartWithin
<1>7. Held(p, r)' \in Int
  BY <1>1, <1>2, <1>4, <1>5, <1>6
<1> QED
  BY <1>1, <1>2, <1>4, <1>5, <1>6, <1>7

\* And one that moves none of a run's calls changes nothing.
LEMMA HeldStays ==
  ASSUME TypeOK, TypeOK', NEW p, NEW r, \A x \in Caller : Part(x, p, r)' = Part(x, p, r)
  PROVE  Held(p, r)' = Held(p, r)
<1>1. /\ Held(p, r) = SumOf(Parts(p, r), Caller)
      /\ Held(p, r)' = SumOf(Parts(p, r)', Caller)
  BY HeldInParts, PartsNext DEF PartsAddUp
<1>2. \A x \in Caller : Parts(p, r)'[x] = Parts(p, r)[x]
  BY DEF Parts
<1> QED
  BY <1>1, <1>2, Finite, SumSame

-----------------------------------------------------------------------------
(* The reservations: the day holds what the runs hold, and an open run what its
   calls were let through with. *)

DayFollows(p) == reserved[p][Day] = SumOf(reserved[p], Run)
OpenCovers(p) ==
  \A r \in Run \ ended :
    /\ reserved[p][r] >= Held(p, r)
    /\ faults = 0 => reserved[p][r] = Held(p, r)
Kept == \A p \in Proc : DayFollows(p) /\ OpenCovers(p)

LEMMA KeptIs == Kept <=> HeadroomIsHeld
BY DEF Kept, DayFollows, OpenCovers, HeadroomIsHeld

LEMMA ReservedTyped ==
  ASSUME TypeOK, NEW p \in Proc
  PROVE  /\ reserved[p] \in [Meter -> Nat] /\ reserved[p][Day] \in Nat
         /\ Day \in Meter /\ Day \notin Run /\ Run \subseteq Meter
         /\ \A r \in Run : reserved[p][r] \in Nat /\ reserved[p][r] \in Int
<1>1. Day \in Meter /\ Day \notin Run /\ Run \subseteq Meter
  BY ChokepointAssumption DEF Meter
<1>2. reserved[p] \in [Meter -> Nat]
  BY DEF TypeOK
<1> QED
  BY <1>1, <1>2

\* No run holds more than the day.
LEMMA DayCovers ==
  ASSUME TypeOK, NEW p \in Proc, DayFollows(p), NEW r \in Run
  PROVE  reserved[p][r] <= reserved[p][Day]
<1>1. \A x \in Run : reserved[p][x] \in Nat /\ reserved[p][x] \in Int
  BY ReservedTyped
<1>2. SumOf(reserved[p], Run) = reserved[p][r] + SumOf(reserved[p], Run \ {r})
  BY <1>1, Finite, SumTakes
<1>3. SumOf(reserved[p], Run \ {r}) \in Nat
  <2>1. IsFiniteSet(Run \ {r})
    BY Finite, FS_Subset
  <2> QED
    BY <1>1, <2>1, SumNotNegative
<1> QED
  BY <1>1, <1>2, <1>3 DEF DayFollows

\* A step that moves what one run holds, and the day by as much.
LEMMA DayMoves ==
  ASSUME TypeOK, TypeOK', NEW p \in Proc, DayFollows(p), NEW r \in Run,
         \A x \in Run \ {r} : reserved'[p][x] = reserved[p][x],
         reserved'[p][Day] = reserved[p][Day] - reserved[p][r] + reserved'[p][r]
  PROVE  DayFollows(p)'
<1>1. \A x \in Run : reserved[p][x] \in Int
  BY ReservedTyped
<1>2. \A x \in Run : reserved'[p][x] \in Int
  <2>1. reserved'[p] \in [Meter -> Nat] /\ Run \subseteq Meter
    BY DEF TypeOK, Meter
  <2> QED
    BY <2>1
<1>3. SumOf(reserved'[p], Run) = SumOf(reserved[p], Run) - reserved[p][r] + reserved'[p][r]
  BY <1>1, <1>2, Finite, SumPut
<1> QED
  BY <1>3 DEF DayFollows

\* What release takes off: the estimate, or what the run holds when that is less.
LEMMA TakenOff ==
  ASSUME TypeOK, NEW p \in Proc, DayFollows(p), NEW r \in Run, NEW est \in Nat, NEW res,
         res = Release(reserved, p, r, est)
  PROVE  /\ \A q \in Proc \ {p} : res[q] = reserved[q]
         /\ \A x \in Run \ {r} : res[p][x] = reserved[p][x]
         /\ res[p][Day] = reserved[p][Day] - reserved[p][r] + res[p][r]
         /\ est <= reserved[p][r] => res[p][r] = reserved[p][r] - est
<1> DEFINE off == IF est < reserved[p][r] THEN est ELSE reserved[p][r]
           day == IF off < reserved[p][Day] THEN reserved[p][Day] - off ELSE 0
           f == [reserved EXCEPT ![p][r] = reserved[p][r] - off]
<1>1. /\ reserved[p] \in [Meter -> Nat] /\ reserved[p][Day] \in Nat
      /\ Day \in Meter /\ Day \notin Run /\ Run \subseteq Meter
      /\ reserved[p][r] \in Nat
  BY ReservedTyped
<1>2. reserved[p][r] <= reserved[p][Day]
  BY DayCovers
<1>3. off \in Nat /\ off <= reserved[p][r] /\ (est <= reserved[p][r] => off = est)
  BY <1>1
<1>4. day = reserved[p][Day] - off
  BY <1>1, <1>2, <1>3
<1>5. res = [f EXCEPT ![p][Day] = day]
  BY DEF Release
<1> HIDE DEF off, day
<1>6. /\ f \in [Proc -> [Meter -> Int]] /\ f[p][r] = reserved[p][r] - off
      /\ \A x \in Meter \ {r} : f[p][x] = reserved[p][x]
      /\ \A q \in Proc \ {p} : f[q] = reserved[q]
  <2>1. reserved[p][r] - off \in Int /\ reserved \in [Proc -> [Meter -> Int]] /\ r \in Meter
    BY <1>1, <1>3 DEF TypeOK
  <2> QED
    BY <2>1
<1> HIDE DEF f
<1>7. /\ res[p][Day] = day /\ \A x \in Meter \ {Day} : res[p][x] = f[p][x]
      /\ \A q \in Proc \ {p} : res[q] = f[q]
  BY <1>1, <1>5, <1>6
<1>8. res[p][r] = reserved[p][r] - off
  BY <1>1, <1>6, <1>7
<1>9. \A x \in Run \ {r} : res[p][x] = reserved[p][x]
  BY <1>1, <1>6, <1>7
<1>10. res[p][Day] = reserved[p][Day] - reserved[p][r] + res[p][r]
  BY <1>1, <1>3, <1>4, <1>7, <1>8
<1> QED
  BY <1>3, <1>6, <1>7, <1>8, <1>9, <1>10

LEMMA PartOf ==
  ASSUME TypeOK, NEW c \in Caller, NEW p, NEW r
  PROVE  Part(c, p, r) = IF /\ Home[c] = p /\ call[c].of = r
                            /\ call[c].pc \in {"approval", "perform", "settle"}
                         THEN call[c].est ELSE 0
BY DEF Part, Holding, Of

\* A step that moves neither the reservations nor any part.
LEMMA KeptQuiet ==
  ASSUME TypeOK, TypeOK', Kept, UNCHANGED <<reserved, ended>>, faults' = 0 => faults = 0,
         \A p \in Proc, r \in Run, x \in Caller : Part(x, p, r)' = Part(x, p, r)
  PROVE  Kept'
<1> SUFFICES ASSUME NEW p \in Proc PROVE DayFollows(p)' /\ OpenCovers(p)'
  BY DEF Kept
<1>1. DayFollows(p)'
  BY DEF Kept, DayFollows
<1>2. \A r \in Run : Held(p, r)' = Held(p, r)
  BY HeldStays
<1>3. OpenCovers(p)'
  BY <1>2 DEF Kept, OpenCovers
<1> QED
  BY <1>1, <1>3

\* A call that is not let through, before the step and after it.
Outside(one) == one.pc \notin {"approval", "perform", "settle"}

LEMMA KeptMoves ==
  ASSUME TypeOK, TypeOK', Kept, UNCHANGED <<reserved, ended>>, faults' = 0 => faults = 0,
         NEW c \in Caller, NEW new, call' = [call EXCEPT ![c] = new],
         \/ Outside(call[c]) /\ Outside(new)
         \/ /\ ~Outside(call[c]) /\ ~Outside(new)
            /\ new.of = call[c].of /\ new.est = call[c].est
  PROVE  Kept'
<1>1. call'[c] = new /\ \A x \in Caller \ {c} : call'[x] = call[x]
  BY DEF TypeOK
<1>2. ASSUME NEW p \in Proc, NEW r \in Run, NEW x \in Caller
      PROVE  Part(x, p, r)' = Part(x, p, r)
  <2>1. CASE x = c
    BY <1>1, <2>1 DEF Part, Holding, Of, Outside
  <2>2. CASE x # c
    BY <1>1, <2>2 DEF Part, Holding, Of
  <2> QED
    BY <2>1, <2>2
<1> QED
  BY <1>2, KeptQuiet

\* A call that was let through gives back its estimate and is so no longer.
LEMMA KeptGivenBack ==
  ASSUME TypeOK, TypeOK', Kept, UNCHANGED ended, faults' = 0 => faults = 0,
         NEW c \in Caller, NEW new, call' = [call EXCEPT ![c] = new],
         ~Outside(call[c]), Outside(new), GiveBack(c)
  PROVE  Kept'
<1> DEFINE home == Home[c]
           of == call[c].of
           est == call[c].est
<1>1. home \in Proc /\ of \in Run /\ est \in Nat
  <2>1. call[c] \in CallType /\ MaxCost \in Nat /\ Home[c] \in Proc
    BY Order, AtWork, ChokepointAssumption DEF Outside
  <2>2. call[c].of \in Run /\ call[c].est \in 0..MaxCost
    BY <2>1 DEF CallType
  <2> QED
    BY <2>1, <2>2
<1>2. call'[c] = new /\ \A x \in Caller \ {c} : call'[x] = call[x]
  BY DEF TypeOK
<1>3. ASSUME NEW p \in Proc, NEW r \in Run
      PROVE  /\ Part(c, p, r)' = 0
             /\ Part(c, p, r) = IF p = home /\ r = of THEN est ELSE 0
  <2>1. Part(c, p, r)' = 0
    BY <1>2 DEF Part, Holding, Outside
  <2>2. Part(c, p, r) = IF p = home /\ r = of THEN est ELSE 0
    BY PartOf DEF Outside
  <2> QED
    BY <2>1, <2>2
<1>4. reserved' = Release(reserved, home, of, est)
  BY DEF GiveBack
<1>5. DayFollows(home)
  BY <1>1 DEF Kept
<1> HIDE DEF home, of, est
<1>6. /\ \A q \in Proc \ {home} : reserved'[q] = reserved[q]
      /\ \A x \in Run \ {of} : reserved'[home][x] = reserved[home][x]
      /\ reserved'[home][Day] = reserved[home][Day] - reserved[home][of] + reserved'[home][of]
      /\ est <= reserved[home][of] => reserved'[home][of] = reserved[home][of] - est
  BY <1>1, <1>4, <1>5, TakenOff
<1> SUFFICES ASSUME NEW p \in Proc PROVE DayFollows(p)' /\ OpenCovers(p)'
  BY DEF Kept
<1>7. DayFollows(p)'
  <2>1. CASE p = home
    BY <1>1, <1>5, <1>6, <2>1, DayMoves
  <2>2. CASE p # home
    BY <1>6, <2>2 DEF Kept, DayFollows
  <2> QED
    BY <2>1, <2>2
<1>8. ASSUME NEW r \in Run, r \notin ended
      PROVE  /\ reserved'[p][r] >= Held(p, r)'
             /\ faults' = 0 => reserved'[p][r] = Held(p, r)'
  <2>1. /\ reserved[p][r] >= Held(p, r) /\ reserved[p][r] \in Nat
        /\ faults = 0 => reserved[p][r] = Held(p, r)
    BY <1>8, ReservedTyped DEF Kept, OpenCovers
  <2>2. /\ Held(p, r) \in Nat /\ Part(c, p, r) \in Nat
        /\ Part(c, p, r) <= Held(p, r)
        /\ Held(p, r)' = Held(p, r) - Part(c, p, r) + Part(c, p, r)'
    BY <1>2, HeldMoves, PartWithin
  <2>3. CASE p = home /\ r = of
    <3>1. Part(c, p, r) = est /\ Part(c, p, r)' = 0
      BY <1>3, <2>3
    <3>2. est <= reserved[p][r] /\ Held(p, r)' = Held(p, r) - est
      BY <1>1, <2>1, <2>2, <3>1
    <3>3. reserved'[p][r] = reserved[p][r] - est
      BY <1>6, <2>3, <3>2
    <3> QED
      BY <1>1, <2>1, <2>2, <3>2, <3>3
  <2>4. CASE ~(p = home /\ r = of)
    <3>1. Part(c, p, r) = 0 /\ Part(c, p, r)' = 0
      BY <1>3, <2>4
    <3>2. Held(p, r)' = Held(p, r)
      BY <2>2, <3>1
    <3>3. reserved'[p][r] = reserved[p][r]
      BY <1>6, <2>4
    <3> QED
      BY <2>1, <3>2, <3>3
  <2> QED
    BY <2>3, <2>4
<1>9. OpenCovers(p)'
  BY <1>8 DEF OpenCovers
<1> QED
  BY <1>7, <1>9

LEMMA KeptInit == Init => Kept
<1> SUFFICES ASSUME Init, NEW p \in Proc PROVE DayFollows(p) /\ OpenCovers(p)
  BY DEF Kept
<1>1. TypeOK
  BY TypeInit
<1>2. reserved[p][Day] = 0 /\ \A r \in Run : reserved[p][r] = 0
  BY DEF Init, Meter
<1>3. DayFollows(p)
  BY <1>2, Finite, SumZero DEF DayFollows
<1>4. ASSUME NEW r \in Run
      PROVE  Held(p, r) = 0
  <2>1. \A c \in Caller : Parts(p, r)[c] = 0
    BY DEF Init, Idle, Parts, Part, Holding
  <2> QED
    BY <1>1, <2>1, HeldInParts, Finite, SumZero
<1>5. OpenCovers(p)
  BY <1>2, <1>4 DEF OpenCovers
<1> QED
  BY <1>3, <1>5

LEMMA KeptReserved ==
  ASSUME TypeOK, TypeOK', Kept, NEW c \in Caller, NEW est \in 0..MaxCost, Reserve(c, est)
  PROVE  Kept'
<1> DEFINE pc == IF call[c].kind = "model" THEN "perform" ELSE Following("run")
           new == [call[c] EXCEPT !.pc = pc, !.est = est, !.began = 0, !.run = 0, !.day = 0]
<1>1. call[c].pc = "reserve" /\ call[c] \in CallType
  BY Order, AtWork DEF Reserve
<1>2. call' = [call EXCEPT ![c] = new] /\ ended' = ended /\ faults' = faults
  BY DEF Reserve, TypeOK
<1>3. pc \in {"approval", "perform"}
  BY Order
<1> HIDE DEF pc
<1>4. new.pc = pc /\ new.of = call[c].of /\ new.est = est
  BY <1>1 DEF CallType
<1>5. call'[c] = new /\ \A x \in Caller \ {c} : call'[x] = call[x]
  BY <1>2 DEF TypeOK
<1> HIDE DEF new
<1> DEFINE home == Home[c]
           of == call[c].of
<1>6. home \in Proc /\ of \in Run /\ est \in Nat /\ MaxCost \in Nat
  BY <1>1, ChokepointAssumption DEF CallType
<1>7. reserved' = [reserved EXCEPT ![home][of] = @ + est, ![home][Day] = @ + est]
  BY DEF Reserve
<1>8. ASSUME NEW p \in Proc, NEW r \in Run
      PROVE  /\ Part(c, p, r) = 0
             /\ Part(c, p, r)' = IF p = home /\ r = of THEN est ELSE 0
  <2>1. Part(c, p, r) = 0
    BY <1>1 DEF Part, Holding
  <2>2. Part(c, p, r)' = IF p = home /\ r = of THEN est ELSE 0
    BY <1>3, <1>4, <1>5 DEF Part, Holding, Of
  <2> QED
    BY <2>1, <2>2
<1> HIDE DEF home, of
<1>9. /\ \A q \in Proc \ {home} : reserved'[q] = reserved[q]
      /\ \A x \in Run \ {of} : reserved'[home][x] = reserved[home][x]
      /\ reserved'[home][of] = reserved[home][of] + est
      /\ reserved'[home][Day] = reserved[home][Day] + est
      /\ reserved[home][of] \in Nat /\ reserved[home][Day] \in Nat
  <2>1. /\ reserved[home] \in [Meter -> Nat] /\ reserved[home][Day] \in Nat
        /\ Day \in Meter /\ Day \notin Run /\ Run \subseteq Meter
        /\ reserved[home][of] \in Nat
    BY <1>6, ReservedTyped
  <2>2. /\ reserved \in [Proc -> [Meter -> Nat]]
        /\ reserved[home][of] + est \in Nat /\ of \in Meter /\ of # Day
    BY <1>6, <2>1 DEF TypeOK
  <2>3. [reserved EXCEPT ![home][of] = reserved[home][of] + est][home][Day] = reserved[home][Day]
    BY <1>6, <2>1, <2>2
  <2>4. reserved' = [[reserved EXCEPT ![home][of] = reserved[home][of] + est]
                       EXCEPT ![home][Day] = reserved[home][Day] + est]
    BY <1>7, <2>3
  <2> DEFINE f == [reserved EXCEPT ![home][of] = reserved[home][of] + est]
  <2>5. /\ f \in [Proc -> [Meter -> Nat]] /\ f[home][of] = reserved[home][of] + est
        /\ \A x \in Meter \ {of} : f[home][x] = reserved[home][x]
        /\ \A q \in Proc \ {home} : f[q] = reserved[q]
    BY <1>6, <2>1, <2>2
  <2>6. reserved' = [f EXCEPT ![home][Day] = reserved[home][Day] + est]
    BY <2>4
  <2> HIDE DEF f
  <2>7. /\ reserved'[home][Day] = reserved[home][Day] + est
        /\ \A x \in Meter \ {Day} : reserved'[home][x] = f[home][x]
        /\ \A q \in Proc \ {home} : reserved'[q] = f[q]
    BY <1>6, <2>1, <2>5, <2>6
  <2> QED
    BY <1>6, <2>1, <2>2, <2>5, <2>7
<1> SUFFICES ASSUME NEW p \in Proc PROVE DayFollows(p)' /\ OpenCovers(p)'
  BY DEF Kept
<1>10. DayFollows(p)'
  <2>1. CASE p = home
    <3>1. reserved'[home][Day] = reserved[home][Day] - reserved[home][of] + reserved'[home][of]
      BY <1>6, <1>9
    <3> QED
      BY <1>6, <1>9, <2>1, <3>1, DayMoves DEF Kept
  <2>2. CASE p # home
    BY <1>9, <2>2 DEF Kept, DayFollows
  <2> QED
    BY <2>1, <2>2
<1>11. ASSUME NEW r \in Run, r \notin ended
       PROVE  /\ reserved'[p][r] >= Held(p, r)'
              /\ faults' = 0 => reserved'[p][r] = Held(p, r)'
  <2>1. /\ reserved[p][r] >= Held(p, r) /\ reserved[p][r] \in Nat
        /\ faults = 0 => reserved[p][r] = Held(p, r)
    BY <1>11, ReservedTyped DEF Kept, OpenCovers
  <2>2. /\ Held(p, r) \in Nat
        /\ Held(p, r)' = Held(p, r) - Part(c, p, r) + Part(c, p, r)'
    BY <1>5, HeldMoves
  <2>3. CASE p = home /\ r = of
    <3>1. Held(p, r)' = Held(p, r) + est
      BY <1>6, <1>8, <2>2, <2>3
    <3>2. reserved'[p][r] = reserved[p][r] + est
      BY <1>9, <2>3
    <3> QED
      BY <1>2, <1>6, <2>1, <2>2, <3>1, <3>2
  <2>4. CASE ~(p = home /\ r = of)
    <3>1. Held(p, r)' = Held(p, r)
      BY <1>8, <2>2, <2>4
    <3>2. reserved'[p][r] = reserved[p][r]
      BY <1>9, <2>4
    <3> QED
      BY <1>2, <2>1, <3>1, <3>2
  <2> QED
    BY <2>3, <2>4
<1>12. OpenCovers(p)'
  BY <1>2, <1>11 DEF OpenCovers
<1> QED
  BY <1>10, <1>12

LEMMA KeptEnded ==
  ASSUME TypeOK, TypeOK', Kept, NEW home \in Proc, NEW of \in Run, EndRun(home, of)
  PROVE  Kept'
<1>1. /\ reserved' = Release(reserved, home, of, reserved[home][of])
      /\ call' = call /\ faults' = faults /\ ended' = ended \cup {of}
  BY DEF EndRun
<1>2. reserved[home][of] \in Nat /\ DayFollows(home)
  BY ReservedTyped DEF Kept
<1>3. /\ \A q \in Proc \ {home} : reserved'[q] = reserved[q]
      /\ \A x \in Run \ {of} : reserved'[home][x] = reserved[home][x]
      /\ reserved'[home][Day] = reserved[home][Day] - reserved[home][of] + reserved'[home][of]
  BY <1>1, <1>2, TakenOff
<1> SUFFICES ASSUME NEW p \in Proc PROVE DayFollows(p)' /\ OpenCovers(p)'
  BY DEF Kept
<1>4. DayFollows(p)'
  <2>1. CASE p = home
    BY <1>2, <1>3, <2>1, DayMoves
  <2>2. CASE p # home
    BY <1>3, <2>2 DEF Kept, DayFollows
  <2> QED
    BY <2>1, <2>2
<1>5. ASSUME NEW r \in Run, r \notin ended'
      PROVE  /\ reserved'[p][r] >= Held(p, r)'
             /\ faults' = 0 => reserved'[p][r] = Held(p, r)'
  <2>1. r \notin ended /\ r # of
    BY <1>1, <1>5
  <2>2. reserved'[p][r] = reserved[p][r]
    BY <1>3, <2>1
  <2>3. Held(p, r)' = Held(p, r)
    BY <1>1, HeldStays DEF Part, Holding
  <2> QED
    BY <1>1, <2>1, <2>2, <2>3 DEF Kept, OpenCovers
<1>6. OpenCovers(p)'
  BY <1>5 DEF OpenCovers
<1> QED
  BY <1>4, <1>6

LEMMA KeptCrashed ==
  ASSUME TypeOK, TypeOK', Kept, NEW dead \in Proc, Crash(dead)
  PROVE  Kept'
<1>1. /\ reserved' = [reserved EXCEPT ![dead] = [m \in Meter |-> 0]]
      /\ call' = [c \in Caller |-> IF c \in Of(dead) THEN Idle ELSE call[c]]
      /\ ended' = ended /\ faults' = faults + 1
  BY DEF Crash, Fault
<1>2. faults' # 0
  BY <1>1 DEF TypeOK
<1>3. ASSUME NEW p \in Proc, p # dead
      PROVE  DayFollows(p)' /\ OpenCovers(p)'
  <2>1. reserved'[p] = reserved[p]
    BY <1>1, <1>3 DEF TypeOK
  <2>2. ASSUME NEW r \in Run, NEW x \in Caller
        PROVE  Part(x, p, r)' = Part(x, p, r)
    <3>1. CASE Home[x] = p
      BY <1>1, <1>3, <3>1 DEF Part, Holding, Of
    <3>2. CASE Home[x] # p
      BY <3>2 DEF Part, Holding, Of
    <3> QED
      BY <3>1, <3>2
  <2>3. \A r \in Run : Held(p, r)' = Held(p, r)
    BY <2>2, HeldStays
  <2>4. DayFollows(p)'
    BY <2>1 DEF Kept, DayFollows
  <2>5. OpenCovers(p)'
    BY <1>1, <1>2, <2>1, <2>3 DEF Kept, OpenCovers
  <2> QED
    BY <2>4, <2>5
<1>4. DayFollows(dead)' /\ OpenCovers(dead)'
  <2>1. reserved'[dead][Day] = 0 /\ \A r \in Run : reserved'[dead][r] = 0
    BY <1>1 DEF TypeOK, Meter
  <2>2. DayFollows(dead)'
    BY <2>1, Finite, SumZero DEF DayFollows
  <2>3. ASSUME NEW r \in Run
        PROVE  Held(dead, r)' = 0
    <3>1. \A c \in Caller : Parts(dead, r)'[c] = 0
      BY <1>1 DEF Idle, Parts, Part, Holding, Of
    <3> QED
      BY <3>1, PartsNext, Finite, SumZero DEF PartsAddUp
  <2>4. OpenCovers(dead)'
    BY <2>1, <2>3 DEF OpenCovers
  <2> QED
    BY <2>2, <2>4
<1> QED
  BY <1>3, <1>4 DEF Kept

\* A write lost after the work leaves the estimate held.
LEMMA KeptOver ==
  ASSUME TypeOK, TypeOK', Kept, NEW c \in Caller, RecordFails(c)
  PROVE  Kept'
<1>1. /\ call' = [call EXCEPT ![c] = [pc |-> "done", told |-> "let"]]
      /\ reserved' = reserved /\ ended' = ended /\ faults' = faults + 1
  BY DEF RecordFails, Tell, Fault, ceilings
<1>2. faults' # 0
  BY <1>1 DEF TypeOK
<1>3. call'[c] = [pc |-> "done", told |-> "let"] /\ \A x \in Caller \ {c} : call'[x] = call[x]
  BY <1>1 DEF TypeOK
<1> SUFFICES ASSUME NEW p \in Proc PROVE DayFollows(p)' /\ OpenCovers(p)'
  BY DEF Kept
<1>4. DayFollows(p)'
  BY <1>1 DEF Kept, DayFollows
<1>5. ASSUME NEW r \in Run, r \notin ended
      PROVE  reserved'[p][r] >= Held(p, r)'
  <2>1. reserved[p][r] >= Held(p, r) /\ reserved[p][r] \in Nat
    BY <1>5, ReservedTyped DEF Kept, OpenCovers
  <2>2. /\ Held(p, r) \in Nat /\ Part(c, p, r) \in Nat
        /\ Held(p, r)' = Held(p, r) - Part(c, p, r) + Part(c, p, r)'
    BY <1>3, HeldMoves
  <2>3. Part(c, p, r)' = 0
    BY <1>3 DEF Part, Holding
  <2> QED
    BY <1>1, <2>1, <2>2, <2>3
<1>6. OpenCovers(p)'
  BY <1>1, <1>2, <1>5 DEF OpenCovers
<1> QED
  BY <1>4, <1>6

LEMMA KeptNext ==
  ASSUME TypeOK, TypeOK', [Next]_vars, Kept
  PROVE  Kept'
<1> USE DEF record, ceilings, containment
<1>1. CASE UNCHANGED <<call, reserved, ended, faults>>
  BY <1>1, KeptQuiet DEF Part, Holding
<1>2. ASSUME NEW c \in Caller, NEW new, call' = [call EXCEPT ![c] = new],
             Outside(call[c]), Outside(new),
             UNCHANGED <<reserved, ended>>, faults' = faults \/ faults' = faults + 1
      PROVE  Kept'
  <2>1. faults' = 0 => faults = 0
    BY <1>2 DEF TypeOK
  <2> QED
    BY <1>2, <2>1, KeptMoves
<1>3. ASSUME NEW c \in Caller, NEW told, Tell(c, told), Outside(call[c]),
             UNCHANGED <<reserved, ended>>, faults' = faults \/ faults' = faults + 1
      PROVE  Kept'
  <2>1. Outside([pc |-> "done", told |-> told])
    BY DEF Outside
  <2> QED
    BY <1>2, <1>3, <2>1 DEF Tell
<1>4. ASSUME NEW c \in Caller, NEW told, Tell(c, told), ~Outside(call[c]), GiveBack(c),
             UNCHANGED ended, faults' = faults \/ faults' = faults + 1
      PROVE  Kept'
  <2>1. Outside([pc |-> "done", told |-> told])
    BY DEF Outside
  <2>2. faults' = 0 => faults = 0
    BY <1>4 DEF TypeOK
  <2> QED
    BY <1>4, <2>1, <2>2, KeptGivenBack DEF Tell
<1>5. ASSUME NEW c \in Caller, NEW engaged, Consulting(c), Heed(c, engaged),
             UNCHANGED <<reserved, ended, faults>>
      PROVE  Kept'
  <2>1. call[c].pc \in At /\ call[c] \in CallType /\ Outside(call[c])
    BY <1>5, Order, AtWork DEF Consulting, Outside
  <2> DEFINE next == [call[c] EXCEPT !.fetch = "no", !.readAt = 0, !.seen = FALSE]
  <2>2. CASE ~Tell(c, "contained")
    <3>1. next.pc \in {"enter", "clear"}
      BY <1>5, <2>1 DEF Consulting, CallType
    <3>2. next \in CallType
      BY <2>1 DEF CallType
    <3>3. Following(next.pc) \in {"clear", "run"}
      BY <3>1, Order
    <3> DEFINE new == IF next.scope < Len(Scopes)
                      THEN [next EXCEPT !.scope = next.scope + 1]
                      ELSE [next EXCEPT !.pc = Following(next.pc), !.scope = 1]
    <3>4. call' = [call EXCEPT ![c] = new]
      BY <1>5, <2>2 DEF Heed
    <3> HIDE DEF next
    <3>5. new.pc \in {"enter", "clear", "run"}
      BY <3>1, <3>2, <3>3 DEF CallType
    <3>6. Outside(new)
      BY <3>5 DEF Outside
    <3> HIDE DEF new
    <3> QED
      BY <1>2, <1>5, <2>1, <3>4, <3>6
  <2> QED
    BY <1>3, <1>5, <2>1, <2>2
<1>6. ASSUME NEW c \in Caller, NEW kind \in Kind, NEW r \in Run, Begin(c, kind, r)
      PROVE  Kept'
  <2> DEFINE start == CASE kind = "action" -> "enter"
                       [] kind = "compensation" -> "clear"
                       [] kind = "model" -> "run"
             dated == IF kind = "model" THEN 0 ELSE now
             new == [pc |-> start, kind |-> kind, of |-> r, est |-> 0, began |-> dated,
                     scope |-> 1, fetch |-> "no", readAt |-> 0, seen |-> FALSE,
                     run |-> 0, day |-> 0, used |-> FALSE]
  <2>1. start \in {"enter", "clear", "run"}
    BY DEF Kind
  <2>2. call' = [call EXCEPT ![c] = new] /\ UNCHANGED <<reserved, ended, faults>>
    BY <1>6 DEF Begin
  <2> HIDE DEF start, dated
  <2>3. Outside(new) /\ Outside(call[c])
    BY <1>6, <2>1 DEF Outside, Begin
  <2> HIDE DEF new
  <2> QED
    BY <1>2, <2>2, <2>3
<1>7. ASSUME NEW c \in Caller, Consult(c)
      PROVE  Kept'
  <2>1. UNCHANGED <<reserved, ended, faults>> /\ Consulting(c)
    BY <1>7 DEF Consult
  <2>2. CASE call' = [call EXCEPT ![c].fetch = "asked", ![c].readAt = now]
    <3>1. call[c].pc \in At /\ call[c] \in CallType /\ Outside(call[c])
      BY <2>1, Order, AtWork DEF Consulting, Outside
    <3> DEFINE new == [call[c] EXCEPT !.fetch = "asked", !.readAt = now]
    <3>2. call' = [call EXCEPT ![c] = new]
      BY <2>2 DEF TypeOK
    <3>3. new.pc = call[c].pc
      BY <3>1 DEF CallType
    <3> HIDE DEF new
    <3>4. Outside(new)
      BY <3>1, <3>3 DEF Outside
    <3> QED
      BY <1>2, <2>1, <3>1, <3>2, <3>4
  <2> QED
    BY <1>5, <1>7, <2>1, <2>2 DEF Consult
<1>8. ASSUME NEW c \in Caller, StoreAnswers(c)
      PROVE  Kept'
  <2>1. UNCHANGED <<reserved, ended, faults>> /\ Consulting(c)
    BY <1>8 DEF StoreAnswers
  <2>2. call[c].pc \in At /\ call[c] \in CallType /\ Outside(call[c])
    BY <2>1, Order, AtWork DEF Consulting, Outside
  <2> DEFINE seen == switch[Scopes[call[c].scope]].engaged
             new == [call[c] EXCEPT !.fetch = "answered", !.seen = seen]
  <2>3. call' = [call EXCEPT ![c] = new]
    BY <1>8 DEF StoreAnswers, TypeOK
  <2> HIDE DEF seen
  <2>4. new.pc = call[c].pc
    BY <2>2 DEF CallType
  <2> HIDE DEF new
  <2>5. Outside(new)
    BY <2>2, <2>4 DEF Outside
  <2> QED
    BY <1>2, <2>1, <2>2, <2>3, <2>5
<1>9. ASSUME NEW c \in Caller, Fill(c)
      PROVE  Kept'
  BY <1>5, <1>9 DEF Fill
<1>10. ASSUME NEW c \in Caller, ReadRun(c)
       PROVE  Kept'
  <2> DEFINE new == [call[c] EXCEPT !.pc = "day", !.run = spent[call[c].of]]
  <2>1. call[c].pc = "run" /\ call[c] \in CallType
    BY <1>10, Order, AtWork DEF ReadRun
  <2>2. call' = [call EXCEPT ![c] = new] /\ UNCHANGED <<reserved, ended, faults>>
    BY <1>10 DEF ReadRun, TypeOK
  <2>3. new.pc = "day"
    BY <2>1 DEF CallType
  <2> HIDE DEF new
  <2>4. Outside(new) /\ Outside(call[c])
    BY <2>1, <2>3 DEF Outside
  <2> QED
    BY <1>2, <2>2, <2>4
<1>11. ASSUME NEW c \in Caller, ReadDay(c)
       PROVE  Kept'
  <2> DEFINE new == [call[c] EXCEPT !.pc = "reserve", !.day = spent[Day]]
  <2>1. call[c].pc = "day" /\ call[c] \in CallType
    BY <1>11, Order, AtWork DEF ReadDay
  <2>2. call' = [call EXCEPT ![c] = new] /\ UNCHANGED <<reserved, ended, faults>>
    BY <1>11 DEF ReadDay, TypeOK
  <2>3. new.pc = "reserve"
    BY <2>1 DEF CallType
  <2> HIDE DEF new
  <2>4. Outside(new) /\ Outside(call[c])
    BY <2>1, <2>3 DEF Outside
  <2> QED
    BY <1>2, <2>2, <2>4
<1>12. ASSUME NEW c \in Caller, NEW est \in 0..MaxCost, Reserve(c, est)
       PROVE  Kept'
  BY <1>12, KeptReserved
<1>13. ASSUME NEW c \in Caller, NEW est \in 0..MaxCost, RefuseSpend(c, est)
       PROVE  Kept'
  BY <1>3, <1>13 DEF RefuseSpend, Outside
<1>14. ASSUME NEW c \in Caller, RefuseStatic(c)
       PROVE  Kept'
  BY <1>3, <1>14 DEF RefuseStatic, Outside
<1>15. ASSUME NEW c \in Caller, RefuseApproval(c)
       PROVE  Kept'
  <2>1. /\ Tell(c, "denied") /\ GiveBack(c) /\ ~Outside(call[c])
        /\ ended' = ended /\ faults' = faults
    BY <1>15 DEF RefuseApproval, Outside
  <2> QED
    BY <1>4, <2>1
<1>16. ASSUME NEW c \in Caller, NEW new, call' = [call EXCEPT ![c] = new],
              ~Outside(call[c]), ~Outside(new), new.of = call[c].of, new.est = call[c].est,
              UNCHANGED <<reserved, ended, faults>>
       PROVE  Kept'
  BY <1>16, KeptMoves
<1>17. ASSUME NEW c \in Caller, NEW approval \in Approval \cup {"none"}, Approve(c, approval)
       PROVE  Kept'
  <2> DEFINE new == [call[c] EXCEPT !.pc = Following("approval"), !.used = approval # "none"]
  <2>1. call[c].pc = "approval" /\ call[c] \in CallType
    BY <1>17, Order, AtWork DEF Approve
  <2>2. call' = [call EXCEPT ![c] = new] /\ UNCHANGED <<reserved, ended, faults>>
    BY <1>17 DEF Approve, TypeOK
  <2>3. new.pc = "perform" /\ new.of = call[c].of /\ new.est = call[c].est
    BY <2>1, Order DEF CallType
  <2> HIDE DEF new
  <2>4. ~Outside(new) /\ ~Outside(call[c])
    BY <2>1, <2>3 DEF Outside
  <2> QED
    BY <1>16, <2>2, <2>3, <2>4
<1>18. ASSUME NEW c \in Caller, NEW cost \in 0..MaxCost, Perform(c, cost)
       PROVE  Kept'
  <2> DEFINE new == [call[c] EXCEPT !.pc = "settle"]
  <2>1. call[c].pc = "perform" /\ call[c] \in CallType
    BY <1>18, Order, AtWork DEF Perform
  <2>2. call' = [call EXCEPT ![c] = new] /\ UNCHANGED <<reserved, ended, faults>>
    BY <1>18 DEF Perform, To, TypeOK
  <2>3. new.pc = "settle" /\ new.of = call[c].of /\ new.est = call[c].est
    BY <2>1 DEF CallType
  <2> HIDE DEF new
  <2>4. ~Outside(new) /\ ~Outside(call[c])
    BY <2>1, <2>3 DEF Outside
  <2> QED
    BY <1>16, <2>2, <2>3, <2>4
<1>19. ASSUME NEW c \in Caller, Fail(c)
       PROVE  Kept'
  <2>1. /\ call[c].pc = "perform" /\ call[c] \in CallType
        /\ GiveBack(c) /\ ended' = ended /\ faults' = faults
    BY <1>19, Order, AtWork DEF Fail
  <2>2. ~Outside(call[c])
    BY <2>1 DEF Outside
  <2>3. CASE call' = [call EXCEPT ![c].pc = "run", ![c].est = 0]
    <3> DEFINE new == [call[c] EXCEPT !.pc = "run", !.est = 0]
    <3>1. call' = [call EXCEPT ![c] = new]
      BY <2>3 DEF TypeOK
    <3>2. new.pc = "run"
      BY <2>1 DEF CallType
    <3> HIDE DEF new
    <3>3. Outside(new)
      BY <3>2 DEF Outside
    <3> QED
      BY <2>1, <2>2, <3>1, <3>3, KeptGivenBack
  <2> QED
    BY <1>4, <1>19, <2>1, <2>2, <2>3 DEF Fail
<1>20. ASSUME NEW c \in Caller, Consume(c)
       PROVE  Kept'
  <2>1. /\ Tell(c, "let") /\ GiveBack(c) /\ ~Outside(call[c])
        /\ ended' = ended /\ faults' = faults
    BY <1>20 DEF Consume, Outside
  <2> QED
    BY <1>4, <2>1
<1>21. ASSUME NEW c \in Caller, SwitchUnread(c)
       PROVE  Kept'
  BY <1>3, <1>21 DEF SwitchUnread, Consulting, Outside, Fault
<1>22. ASSUME NEW c \in Caller, SpendUnread(c)
       PROVE  Kept'
  BY <1>3, <1>22 DEF SpendUnread, Outside, Fault
<1>23. ASSUME NEW c \in Caller, PermitFails(c)
       PROVE  Kept'
  <2>1. /\ Tell(c, "denied") /\ GiveBack(c) /\ ~Outside(call[c])
        /\ ended' = ended /\ faults' = faults + 1
    BY <1>23 DEF PermitFails, Outside, Fault
  <2> QED
    BY <1>4, <2>1
<1>24. ASSUME NEW c \in Caller, RecordFails(c)
       PROVE  Kept'
  BY <1>24, KeptOver
<1>25. ASSUME NEW p \in Proc, Crash(p)
       PROVE  Kept'
  BY <1>25, KeptCrashed
<1>26. ASSUME NEW p \in Proc, NEW r \in Run, EndRun(p, r)
       PROVE  Kept'
  BY <1>26, KeptEnded
<1>27. CASE Tick \/ (\E p \in Proc, s \in Switch :
                        Drop(p, s) \/ \E engaged \in BOOLEAN : Throw(p, s, engaged))
  BY <1>1, <1>27 DEF Tick, Drop, Throw
<1>28. CASE UNCHANGED vars
  BY <1>1, <1>28 DEF vars
<1> QED
  BY <1>6, <1>7, <1>8, <1>9, <1>10, <1>11, <1>12, <1>13, <1>14, <1>15, <1>17, <1>18, <1>19,
     <1>20, <1>21, <1>22, <1>23, <1>24, <1>25, <1>26, <1>27, <1>28
     DEF Next, Check, Work, Failure

\* What is held for an open run is what its calls were let through with, less never and
\* more only once a store failed, and the day holds what the runs hold (ceilings.ts:192).
THEOREM HeadroomHeld == Spec => []HeadroomIsHeld
<1>1. Init => TypeOK /\ Kept
  BY TypeInit, KeptInit
<1>2. TypeOK /\ Kept /\ [Next]_vars => (TypeOK /\ Kept)'
  BY TypeNext, KeptNext
<1>3. Kept => HeadroomIsHeld
  BY KeptIs
<1> QED
  BY <1>1, <1>2, <1>3, PTL DEF Spec
=============================================================================
