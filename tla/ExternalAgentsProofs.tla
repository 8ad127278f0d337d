------------------------ MODULE ExternalAgentsProofs ------------------------
(***************************************************************************)
(* Theorems about ExternalAgents for every number of agents, runs, reports,*)
(* callers, faults and moments: the state is of its type, no agent is told *)
(* to go on by a call made while it was stopped, enrolled agents never     *)
(* outnumber the seats claimed for them, the record tells how each live    *)
(* run ended, and the meter shows no money the record does not.            *)
(***************************************************************************)
EXTENDS ExternalAgents, FiniteSetTheorems, TLAPS

Anyone == Caller \cup {Sweeper}

Places ==
  {"rate", "agent", "pause", "judge", "deny", "contain", "clear", "begin", "ask", "open",
   "create", "abandon", "run", "beat", "stop", "end", "close", "cost", "charge", "claim",
   "replay", "read", "permit", "set", "reread", "again", "name", "seat", "enroll", "unseat",
   "sweep"}

\* Where a call of each kind may be.
Admitting == {"rate", "agent", "judge", "deny", "contain", "clear"}

Placed(k) ==
  /\ k.op = "screen" => k.pc \in Admitting \cup {"pause"}
  /\ k.op = "start" =>
       k.pc \in Admitting \cup {"pause", "begin", "ask", "open", "create", "abandon"}
  /\ k.op = "report" =>
       k.pc \in Admitting \cup {"claim", "open", "close", "cost", "charge", "replay"}
  /\ k.op = "beat" => k.pc \in {"rate", "run", "agent", "pause", "beat", "stop", "close"}
  /\ k.op = "finish" => k.pc \in {"rate", "run", "end", "cost", "charge", "close"}
  /\ k.op = "enroll" => k.pc \in {"name", "seat", "permit", "enroll", "unseat"}
  /\ k.op = "contain" => k.pc \in {"read", "permit", "set"}
  /\ k.op = "release" => k.pc \in {"read", "permit", "clear", "set"}
  /\ k.op = "revoke" => k.pc \in {"read", "permit", "set", "reread", "again", "unseat"}

\* Whom a call is about, and what.
Aimed(k) ==
  /\ k.op \in Admitted \cup Beating \cup Operating /\ k.who \in Agent
  /\ k.op \in Beating \cup {"start"} => k.on \in Live
  /\ k.op = "report" => k.on \in Report /\ By[k.on] = k.who

SweepFits(k) ==
  k.op = "sweep" /\ k.pc \in {"sweep", "close"} /\ (k.pc = "close" => k.on \in Live)

CallsFit ==
  /\ \A c \in Caller : InProgress(c) => Placed(call[c]) /\ Aimed(call[c])
  /\ InProgress(Sweeper) => SweepFits(call[Sweeper])

\* Whoever is closing the books of a live run found it running, and ended it.
Ending(k) == k.on \in Live /\ k.pc \in {"close", "cost", "charge"}

EndedFirst ==
  \A c \in Anyone :
    InProgress(c) /\ Ending(call[c]) => live[call[c].on].status \in Closing

\* A live run is started by one call, and is not there before it is created.
Starting(c) == InProgress(c) /\ call[c].op = "start"

StartsAlone ==
  \A c \in Caller : Starting(c) =>
    /\ live[call[c].on].status = "none" \/ (At(c, "abandon") /\ call[c].on \in lost)
    /\ At(c, "create") => record[call[c].on] = "running"
    /\ \A d \in Caller \ {c} : Starting(d) => call[d].on # call[c].on

Shape == TypeOK /\ faults <= made /\ CallsFit /\ EndedFirst /\ StartsAlone

-----------------------------------------------------------------------------
(* How a step changes the calls. *)

LEMMA Sizes ==
  ASSUME ExternalAgentsAssumption
  PROVE  /\ Callers \in Nat /\ SeatCap \in Nat /\ Threshold \in Nat /\ Window \in Nat
         /\ Reclaim \in Nat /\ Ceiling \in Nat /\ Total \in Nat /\ Ttl \in Nat
         /\ MaxTime \in Nat /\ MaxEvents \in Nat
         /\ Sweeper \notin Caller /\ "none" \notin Episode /\ "none" \notin Agent
         /\ By \in [Report -> Agent] /\ Expires \in [Agent -> Nat]
         /\ Live \cap Report = {} /\ Live \cap Agent = {} /\ Enrolled \subseteq Agent
         /\ IsFiniteSet(Enrolled) /\ Cardinality(Enrolled) <= SeatCap
         /\ IsFiniteSet(Live) /\ IsFiniteSet(Report)
BY DEF ExternalAgentsAssumption

LEMMA InProgressTyped ==
  ASSUME TypeOK, NEW c \in Anyone, InProgress(c)
  PROVE  call[c] \in CallType
BY DEF TypeOK, InProgress, At, Anyone

LEMMA AtIsInProgress ==
  ASSUME NEW c, NEW p \in Places, At(c, p)
  PROVE  InProgress(c)
BY DEF At, InProgress, Places

\* A call in progress is somewhere, and a record of a call put there is one.
LEMMA Moved ==
  ASSUME NEW k \in CallType, NEW p \in Places
  PROVE  /\ [k EXCEPT !.pc = p] \in CallType
         /\ [k EXCEPT !.pc = p].pc = p
         /\ [k EXCEPT !.pc = p].op = k.op /\ [k EXCEPT !.pc = p].who = k.who
         /\ [k EXCEPT !.pc = p].on = k.on /\ [k EXCEPT !.pc = p].at = k.at
         /\ [k EXCEPT !.pc = p].seen = k.seen /\ [k EXCEPT !.pc = p].cost = k.cost
         /\ [k EXCEPT !.pc = p].left = k.left /\ [k EXCEPT !.pc = p].todo = k.todo
         /\ [k EXCEPT !.pc = p].chance = k.chance
BY DEF CallType, Places

\* Nobody's call but this one's changes, and it is put to k.
Turns(c, k) == call' = [call EXCEPT ![c] = k]

LEMMA Turned ==
  ASSUME TypeOK, NEW c \in Anyone, NEW k, k \in CallType \/ k \in [pc : {"idle", "go"}],
         Turns(c, k)
  PROVE  /\ call' \in [Anyone -> CallType \cup [pc : {"idle", "go"}]]
         /\ call'[c] = k
         /\ \A d \in Anyone : d # c => call'[d] = call[d]
BY DEF TypeOK, Turns, Anyone

\* The same call, further on.
Further(c, p) ==
  /\ call' \in [Anyone -> CallType \cup [pc : {"idle", "go"}]]
  /\ \A d \in Anyone : d # c => call'[d] = call[d]
  /\ call'[c] \in CallType /\ call'[c].pc = p
  /\ call'[c].op = call[c].op /\ call'[c].who = call[c].who /\ call'[c].on = call[c].on

LEMMA TurnsFurther ==
  ASSUME TypeOK, NEW c \in Anyone, NEW p, NEW k \in CallType, Turns(c, k), k.pc = p,
         k.op = call[c].op, k.who = call[c].who, k.on = call[c].on
  PROVE  Further(c, p) /\ call'[c] = k
BY Turned DEF Further

\* The same call, with what it has found out or been told.
Same(k, l) ==
  /\ k.at = l.at /\ k.seen = l.seen /\ k.cost = l.cost /\ k.left = l.left
  /\ k.todo = l.todo /\ k.chance = l.chance

LEMMA ToFurther ==
  ASSUME TypeOK, NEW c \in Anyone, InProgress(c), NEW p \in Places, To(c, p)
  PROVE  Further(c, p) /\ Same(call'[c], call[c])
<1>1. call[c] \in CallType
  BY InProgressTyped
<1> DEFINE k == [call[c] EXCEPT !.pc = p]
<1>2. Turns(c, k)
  BY DEF To, Turns
<1>3. /\ k \in CallType /\ k.pc = p /\ k.op = call[c].op /\ k.who = call[c].who
      /\ k.on = call[c].on /\ Same(k, call[c])
  BY <1>1, Moved DEF Same
<1> HIDE DEF k
<1> QED
  BY <1>2, <1>3, Turned DEF Further

\* A call is over, and its caller told to go on, or not.
Leaves(c) ==
  /\ call' \in [Anyone -> CallType \cup [pc : {"idle", "go"}]]
  /\ \A d \in Anyone : d # c => call'[d] = call[d]
  /\ call'[c].pc \in {"idle", "go"}

LEMMA OverLeaves ==
  ASSUME TypeOK, NEW c \in Anyone
  PROVE  /\ End(c) => Leaves(c) /\ call'[c].pc = "idle"
         /\ call' = [call EXCEPT ![c] = Idle] => Leaves(c) /\ call'[c].pc = "idle"
         /\ Go(c) => Leaves(c) /\ call'[c].pc = "go"
<1>1. Idle \in [pc : {"idle", "go"}] /\ Idle.pc = "idle"
  BY DEF Idle
<1>2. [pc |-> "go"] \in [pc : {"idle", "go"}] /\ [pc |-> "go"].pc = "go"
  OBVIOUS
<1>3. End(c) => Turns(c, Idle)
  BY DEF End, Turns
<1>4. Go(c) => Turns(c, [pc |-> "go"])
  BY DEF Go, Turns
<1>5. Turns(c, Idle) => Leaves(c) /\ call'[c].pc = "idle"
  BY <1>1, Turned DEF Leaves
<1>6. Turns(c, [pc |-> "go"]) => Leaves(c) /\ call'[c].pc = "go"
  <2> DEFINE k == [pc |-> "go"]
  <2>1. k \in [pc : {"idle", "go"}] /\ k.pc = "go"
    OBVIOUS
  <2> HIDE DEF k
  <2>2. Turns(c, k) => Leaves(c) /\ call'[c].pc = "go"
    BY <2>1, Turned DEF Leaves
  <2> QED
    BY <2>2 DEF k
<1> QED
  BY <1>3, <1>4, <1>5, <1>6 DEF Turns

-----------------------------------------------------------------------------
(* The shape of the state is kept. *)

LEMMA CallsFitKept ==
  ASSUME Shape, NEW c \in Caller, InProgress(c),
         \/ Leaves(c)
         \/ \E p \in Places : Further(c, p) /\ Placed(call'[c])
  PROVE  CallsFit'
<1>1. c \in Anyone /\ Sweeper \in Anyone /\ \A d \in Caller : d \in Anyone
  BY DEF Anyone
<1>2. \A d \in Anyone : d # c => call'[d] = call[d]
  BY DEF Leaves, Further
<1>3. ASSUME NEW d \in Caller, InProgress(d)'
      PROVE  Placed(call'[d]) /\ Aimed(call'[d])
  <2>1. CASE d # c
    BY <1>1, <1>2, <1>3, <2>1 DEF Shape, CallsFit, InProgress, At
  <2>2. CASE d = c
    <3>1. PICK p \in Places : Further(c, p) /\ Placed(call'[c])
      BY <1>3, <2>2 DEF InProgress, At, Leaves
    <3>2. Aimed(call[c])
      BY DEF Shape, CallsFit
    <3>3. Aimed(call'[c])
      BY <3>1, <3>2 DEF Aimed, Further
    <3> QED
      BY <2>2, <3>1, <3>3
  <2> QED
    BY <2>1, <2>2
<1>4. ASSUME InProgress(Sweeper)', Sweeper # c
      PROVE  SweepFits(call'[Sweeper])
  BY <1>1, <1>2, <1>4 DEF Shape, CallsFit, InProgress, At
<1>5. ASSUME Sweeper = c, InProgress(Sweeper)'
      PROVE  SweepFits(call'[Sweeper])
  BY <1>5 DEF Shape, CallsFit, SweepFits, Aimed, Admitted, Beating, Operating
<1> QED
  BY <1>3, <1>4, <1>5 DEF CallsFit

LEMMA EndedFirstKept ==
  ASSUME Shape, NEW c \in Anyone, \A d \in Anyone : d # c => call'[d] = call[d],
         \A r \in Live : live[r].status \in Closing => live'[r].status \in Closing,
         InProgress(c)' /\ Ending(call'[c]) => live'[call'[c].on].status \in Closing
  PROVE  EndedFirst'
<1> SUFFICES ASSUME NEW d \in Anyone, InProgress(d)', Ending(call'[d])
             PROVE  live'[call'[d].on].status \in Closing
  BY DEF EndedFirst, Ending
<1>1. CASE d = c
  BY <1>1
<1>2. CASE d # c
  <2>1. InProgress(d) /\ Ending(call[d]) /\ call'[d] = call[d]
    BY <1>2 DEF InProgress, At
  <2>2. live[call[d].on].status \in Closing /\ call[d].on \in Live
    BY <2>1 DEF Shape, EndedFirst, Ending
  <2> QED
    BY <2>1, <2>2
<1> QED
  BY <1>1, <1>2

LEMMA StartsAloneKept ==
  ASSUME Shape, NEW c \in Anyone, \A d \in Anyone : d # c => call'[d] = call[d],
         lost \subseteq lost',
         \A d \in Caller : d # c /\ Starting(d) =>
           /\ \/ live'[call[d].on].status = live[call[d].on].status
              \/ At(d, "abandon") /\ call[d].on \in lost
           /\ At(d, "create") => record'[call[d].on] = record[call[d].on],
         c \in Caller /\ Starting(c)' =>
           /\ Starting(c) /\ call'[c].on = call[c].on
           /\ live'[call[c].on].status = "none" \/ (At(c, "abandon")' /\ call[c].on \in lost')
           /\ At(c, "create")' => record'[call[c].on] = "running"
  PROVE  StartsAlone'
<1>1. \A d \in Caller : d \in Anyone
  BY DEF Anyone
<1>2. \A d \in Caller : Starting(d)' => Starting(d) /\ call'[d].on = call[d].on
  BY <1>1 DEF Starting, InProgress, At
<1> SUFFICES ASSUME NEW d \in Caller, Starting(d)'
             PROVE  /\ live'[call'[d].on].status = "none"
                         \/ (At(d, "abandon")' /\ call'[d].on \in lost')
                    /\ At(d, "create")' => record'[call'[d].on] = "running"
                    /\ \A e \in Caller \ {d} : Starting(e)' => call'[e].on # call'[d].on
  BY DEF StartsAlone
<1>3. \A e \in Caller \ {d} : Starting(e)' => call'[e].on # call'[d].on
  BY <1>2 DEF Shape, StartsAlone
<1>4. CASE d = c
  BY <1>2, <1>3, <1>4
<1>5. CASE d # c
  <2>1. Starting(d) /\ call'[d] = call[d]
    BY <1>1, <1>2, <1>5
  <2>2. /\ live[call[d].on].status = "none" \/ (At(d, "abandon") /\ call[d].on \in lost)
        /\ At(d, "create") => record[call[d].on] = "running"
    BY <2>1 DEF Shape, StartsAlone
  <2>3. (At(d, "abandon")' <=> At(d, "abandon")) /\ (At(d, "create")' <=> At(d, "create"))
    BY <2>1 DEF At
  <2> QED
    BY <1>3, <1>5, <2>1, <2>2, <2>3
<1> QED
  BY <1>4, <1>5

\* The call goes on, and no run and no record changes.
LEMMA QuietFurther ==
  ASSUME Shape, TypeOK', faults' <= made', NEW c \in Caller, InProgress(c),
         NEW p \in Places, Further(c, p), Placed(call'[c]),
         UNCHANGED <<episodes, lost>>,
         call[c].op = "start" => ~At(c, "abandon") /\ p # "create",
         p \in {"close", "cost", "charge"} /\ call[c].on \in Live
           => live[call[c].on].status \in Closing
  PROVE  Shape'
<1>1. c \in Anyone /\ \A d \in Anyone : d # c => call'[d] = call[d]
  BY DEF Anyone, Further
<1>2. CallsFit'
  BY CallsFitKept
<1>3. EndedFirst'
  <2>1. call'[c].on = call[c].on /\ call'[c].pc = p
    BY DEF Further
  <2> QED
    BY <1>1, <2>1, EndedFirstKept DEF Ending, episodes
<1>4. StartsAlone'
  <2>1. ASSUME Starting(c)'
        PROVE  /\ Starting(c) /\ call'[c].on = call[c].on
               /\ live'[call[c].on].status = "none" /\ ~At(c, "create")'
    BY <2>1 DEF Further, Starting, Shape, StartsAlone, episodes, At
  <2> QED
    BY <1>1, <2>1, StartsAloneKept DEF episodes
<1> QED
  BY <1>2, <1>3, <1>4 DEF Shape

\* The call is over, whatever it has done to a run that was running.
LEMMA QuietLeaves ==
  ASSUME Shape, TypeOK', faults' <= made', NEW c \in Anyone, Leaves(c), 
         InProgress(c) \/ c = Sweeper,
         UNCHANGED <<episodes, lost>>
  PROVE  Shape'
<1>1. \A d \in Anyone : d # c => call'[d] = call[d]
  BY DEF Leaves
<1>2. ~InProgress(c)'
  BY DEF Leaves, InProgress, At
<1>3. CallsFit'
  BY <1>1, <1>2 DEF Shape, CallsFit, InProgress, At, Anyone
<1>4. EndedFirst'
  BY <1>1, <1>2, EndedFirstKept DEF episodes
<1>5. StartsAlone'
  BY <1>1, <1>2, StartsAloneKept DEF episodes, Starting
<1> QED
  BY <1>3, <1>4, <1>5 DEF Shape

\* Nothing but a call changes.
Still == UNCHANGED <<enrollment, denials, episodes, money, pausedAt, lost, now, made, faults>>

LEMMA StillTyped ==
  ASSUME Shape, Still, call' \in [Anyone -> CallType \cup [pc : {"idle", "go"}]]
  PROVE  TypeOK' /\ faults' <= made'
BY DEF Shape, Still, TypeOK, Anyone, enrollment, episodes, money

\* What a step of a call in progress comes to, as far as the shape goes.
Proceeds(c) ==
  \/ Leaves(c)
  \/ \E p \in Places :
       /\ Further(c, p) /\ Placed(call'[c])
       /\ call[c].op = "start" => ~At(c, "abandon") /\ p # "create"
       /\ p \in {"close", "cost", "charge"} /\ call[c].on \in Live
            => live[call[c].on].status \in Closing

LEMMA ProceedsShape ==
  ASSUME Shape, TypeOK', faults' <= made', NEW c \in Caller, InProgress(c), Proceeds(c),
         UNCHANGED <<episodes, lost>>
  PROVE  Shape'
BY QuietFurther, QuietLeaves DEF Proceeds, Anyone

LEMMA StillShape ==
  ASSUME Shape, NEW c \in Caller, InProgress(c), Proceeds(c), Still
  PROVE  Shape'
<1>1. call' \in [Anyone -> CallType \cup [pc : {"idle", "go"}]]
  BY DEF Proceeds, Leaves, Further
<1> QED
  BY <1>1, StillTyped, ProceedsShape DEF Still

\* The call moves to a place its kind may be at.
LEMMA ToProceeds ==
  ASSUME Shape, NEW c \in Caller, InProgress(c), NEW p \in Places, To(c, p),
         Placed([op |-> call[c].op, pc |-> p]),
         call[c].op = "start" => ~At(c, "abandon") /\ p # "create",
         p \in {"close", "cost", "charge"} /\ call[c].on \in Live
           => live[call[c].on].status \in Closing
  PROVE  Proceeds(c)
<1>1. Further(c, p)
  BY ToFurther DEF Shape, Anyone
<1>2. Placed(call'[c])
  BY <1>1 DEF Further, Placed
<1> QED
  BY <1>1, <1>2 DEF Proceeds

LEMMA OverProceeds ==
  ASSUME Shape, NEW c \in Caller
  PROVE  /\ End(c) => Proceeds(c)
         /\ Go(c) => Proceeds(c)
BY OverLeaves DEF Shape, Proceeds, Anyone

LEMMA FitHere ==
  ASSUME Shape, NEW c \in Caller, InProgress(c)
  PROVE  /\ call[c] \in CallType /\ Placed(call[c]) /\ Aimed(call[c])
BY InProgressTyped DEF Shape, CallsFit, Anyone

LEMMA RateShape ==
  ASSUME Shape, NEW c \in Caller, Rate(c)
  PROVE  Shape'
<1>1. InProgress(c) /\ Still
  BY AtIsInProgress DEF Rate, Places, Still
<1>2. call[c] \in CallType /\ Placed(call[c]) /\ Aimed(call[c]) /\ call[c].pc = "rate"
  BY <1>1, FitHere DEF Rate, At
<1>3. CASE call[c].op \in Admitted /\ To(c, "agent")
  BY <1>1, <1>2, <1>3, ToProceeds, StillShape DEF Placed, Admitting, Admitted, Places, At
<1>4. CASE call[c].op \in Beating /\ call' = [call EXCEPT ![c].pc = "run", ![c].at = now]
  <2> DEFINE k == [call[c] EXCEPT !.pc = "run", !.at = now]
  <2>1. Turns(c, k)
    BY <1>4 DEF Turns
  <2>2. now \in Nat
    BY DEF Shape, TypeOK
  <2>3. /\ k \in CallType /\ k.pc = "run" /\ k.op = call[c].op
        /\ k.who = call[c].who /\ k.on = call[c].on
    BY <1>2, <2>2 DEF CallType
  <2> HIDE DEF k
  <2>4. Further(c, "run") /\ call'[c] = k
    BY <2>1, <2>3, TurnsFurther DEF Shape, Anyone
  <2>5. Placed(call'[c])
    BY <1>4, <2>3, <2>4 DEF Placed, Beating
  <2>6. Proceeds(c)
    BY <1>4, <2>4, <2>5 DEF Proceeds, Places, Beating
  <2> QED
    BY <1>1, <2>6, StillShape
<1>5. CASE call[c].op \in Admitted /\ To(c, "deny")
  BY <1>1, <1>2, <1>5, ToProceeds, StillShape DEF Placed, Admitting, Admitted, Places, At
<1>6. CASE End(c)
  BY <1>1, <1>6, OverProceeds, StillShape
<1> QED
  BY <1>3, <1>4, <1>5, <1>6 DEF Rate

LEMMA ReadAgentShape ==
  ASSUME Shape, NEW c \in Caller, ReadAgent(c)
  PROVE  Shape'
<1>1. InProgress(c) /\ Still
  BY AtIsInProgress DEF ReadAgent, Places, Still
<1>2. call[c] \in CallType /\ Placed(call[c]) /\ Aimed(call[c]) /\ call[c].pc = "agent"
  BY <1>1, FitHere DEF ReadAgent, At
<1>3. CASE call[c].op = "beat"
  <2> DEFINE s == IF Stopped(call[c].who, call[c].at) THEN "stopped" ELSE "active"
             k == [call[c] EXCEPT !.pc = "pause", !.seen = s]
  <2>1. Turns(c, k)
    BY <1>3 DEF Turns, ReadAgent
  <2>2. s \in {"stopped", "active"}
    OBVIOUS
  <2> HIDE DEF s
  <2>3. k \in CallType /\ k.pc = "pause" /\ k.op = call[c].op /\ k.who = call[c].who /\ k.on = call[c].on
    BY <1>2, <2>2 DEF CallType
  <2> HIDE DEF k
  <2>4. Further(c, "pause") /\ Placed(call'[c])
    BY <1>3, <2>1, <2>3, TurnsFurther DEF Shape, Anyone, Placed
  <2>5. Proceeds(c)
    BY <1>3, <2>4 DEF Proceeds, Places
  <2> QED
    BY <1>1, <2>5, StillShape
<1>4. CASE call[c].op # "beat"
  <2>1. call[c].op \in {"screen", "start", "report"}
    BY <1>2, <1>4 DEF Placed, Aimed, Admitted, Beating, Operating
  <2>2. \/ To(c, "deny")
        \/ To(c, "judge") /\ call[c].op = "report"
        \/ To(c, "pause") /\ call[c].op # "report"
    BY <1>4 DEF ReadAgent
  <2>3. Proceeds(c)
    BY <1>1, <1>2, <2>1, <2>2, ToProceeds DEF Placed, Admitting, Places, At
  <2> QED
    BY <1>1, <2>3, StillShape
<1> QED
  BY <1>3, <1>4

LEMMA AskPauseShape ==
  ASSUME Shape, NEW c \in Caller, AskPause(c)
  PROVE  Shape'
<1>1. InProgress(c) /\ Still
  BY AtIsInProgress DEF AskPause, Places, Still
<1>2. call[c] \in CallType /\ Placed(call[c]) /\ Aimed(call[c]) /\ call[c].pc \in {"pause", "ask"}
  BY <1>1, FitHere DEF AskPause, At
<1>3. call[c].op \in {"screen", "start", "beat"}
  BY <1>2 DEF Placed, Aimed, Admitted, Beating, Operating, Admitting
<1>4. \/ To(c, "stop") /\ call[c].op = "beat"
      \/ To(c, "beat") /\ call[c].op = "beat"
      \/ End(c)
      \/ To(c, "open") /\ call[c].pc = "ask" /\ call[c].op # "beat"
      \/ To(c, "judge") /\ call[c].op # "beat"
  BY <1>2 DEF AskPause, At
<1>5. Proceeds(c)
  BY <1>1, <1>2, <1>3, <1>4, ToProceeds, OverProceeds DEF Placed, Admitting, Places, At
<1> QED
  BY <1>1, <1>5, StillShape

LEMMA JudgeShape ==
  ASSUME Shape, NEW c \in Caller, Judge(c)
  PROVE  Shape'
<1>1. InProgress(c) /\ Still
  BY AtIsInProgress DEF Judge, Places, Still
<1>2. call[c] \in CallType /\ Placed(call[c]) /\ Aimed(call[c]) /\ call[c].pc = "judge"
  BY <1>1, FitHere DEF Judge, At
<1>3. call[c].op \in {"screen", "start", "report"}
  BY <1>2 DEF Placed, Aimed, Admitted, Beating, Operating, Admitting
<1>4. \/ To(c, "deny") \/ End(c) \/ Go(c)
      \/ To(c, "begin") /\ call[c].op = "start"
      \/ To(c, "claim") /\ call[c].op = "report"
  BY <1>3 DEF Judge
<1>5. Proceeds(c)
  BY <1>1, <1>2, <1>3, <1>4, ToProceeds, OverProceeds DEF Placed, Admitting, Places, At
<1> QED
  BY <1>1, <1>5, StillShape

LEMMA ProceedsTyped ==
  ASSUME NEW c, Proceeds(c)
  PROVE  call' \in [Anyone -> CallType \cup [pc : {"idle", "go"}]]
BY DEF Proceeds, Leaves, Further

LEMMA DenyShape ==
  ASSUME Shape, NEW c \in Caller, Deny(c)
  PROVE  Shape'
<1>1. InProgress(c)
  BY AtIsInProgress DEF Deny, Places
<1>2. call[c] \in CallType /\ Placed(call[c]) /\ Aimed(call[c]) /\ call[c].pc = "deny"
  BY <1>1, FitHere DEF Deny, At
<1>3. call[c].op \in {"screen", "start", "report"}
  BY <1>2 DEF Placed, Aimed, Admitted, Beating, Operating, Admitting
<1>4. To(c, "contain") \/ End(c)
  BY DEF Deny
<1>5. Proceeds(c)
  BY <1>1, <1>2, <1>3, <1>4, ToProceeds, OverProceeds DEF Placed, Admitting, Places, At
<1>6. denials' \in [Agent -> [0..MaxTime -> Nat]]
  <2>1. denials \in [Agent -> [0..MaxTime -> Nat]] /\ call[c].who \in Agent
    BY <1>2 DEF Shape, TypeOK, Aimed
  <2> DEFINE counted == denials[call[c].who]
             kept == [t \in 0..MaxTime |-> IF t <= now - Window THEN 0
                                           ELSE counted[t] + (IF t = now THEN 1 ELSE 0)]
  <2>2. kept \in [0..MaxTime -> Nat]
    <3>1. counted \in [0..MaxTime -> Nat]
      BY <2>1
    <3> HIDE DEF counted
    <3>2. \A t \in 0..MaxTime :
            (IF t <= now - Window THEN 0 ELSE counted[t] + (IF t = now THEN 1 ELSE 0)) \in Nat
      BY <3>1
    <3> QED
      BY <3>2
  <2>3. denials' = [denials EXCEPT ![call[c].who] = kept]
    BY DEF Deny
  <2> HIDE DEF kept
  <2> QED
    BY <2>1, <2>2, <2>3
<1>7. TypeOK'
  BY <1>5, <1>6, ProceedsTyped DEF Shape, TypeOK, Anyone, Deny, enrollment, episodes, money
<1> QED
  BY <1>1, <1>5, <1>7, ProceedsShape DEF Deny, Shape

LEMMA ClearDenialsShape ==
  ASSUME Shape, NEW c \in Caller, ClearDenials(c)
  PROVE  Shape'
<1>1. InProgress(c)
  BY AtIsInProgress DEF ClearDenials, Places
<1>2. call[c] \in CallType /\ Placed(call[c]) /\ Aimed(call[c]) /\ call[c].pc = "clear"
  BY <1>1, FitHere DEF ClearDenials, At
<1>3. (To(c, "set") /\ call[c].op = "release") \/ End(c)
  BY DEF ClearDenials
<1>4. Proceeds(c)
  BY <1>1, <1>2, <1>3, ToProceeds, OverProceeds DEF Placed, Admitting, Places, At
<1>5. denials' \in [Agent -> [0..MaxTime -> Nat]]
  <2> DEFINE none == [t \in 0..MaxTime |-> 0]
  <2>1. none \in [0..MaxTime -> Nat]
    OBVIOUS
  <2>2. denials' = [denials EXCEPT ![call[c].who] = none]
    BY DEF ClearDenials
  <2> HIDE DEF none
  <2> QED
    BY <2>1, <2>2 DEF Shape, TypeOK
<1>6. TypeOK'
  BY <1>4, <1>5, ProceedsTyped DEF Shape, TypeOK, Anyone, ClearDenials, enrollment, episodes, money
<1> QED
  BY <1>1, <1>4, <1>6, ProceedsShape DEF ClearDenials, Shape

LEMMA ContainForDenialsShape ==
  ASSUME Shape, NEW c \in Caller, ContainForDenials(c)
  PROVE  Shape'
<1>1. InProgress(c)
  BY AtIsInProgress DEF ContainForDenials, Places
<1>2. call[c] \in CallType /\ Placed(call[c]) /\ Aimed(call[c]) /\ call[c].pc = "contain"
  BY <1>1, FitHere DEF ContainForDenials, At
<1>3. call[c].op \in {"screen", "start", "report"}
  BY <1>2 DEF Placed, Aimed, Admitted, Beating, Operating, Admitting
<1>4. To(c, "clear") \/ End(c)
  BY DEF ContainForDenials
<1>5. Proceeds(c)
  BY <1>1, <1>2, <1>3, <1>4, ToProceeds, OverProceeds DEF Placed, Admitting, Places, At
<1>6. status' \in [Agent -> {"none", "active", "contained", "revoked"}]
  <2>1. status \in [Agent -> {"none", "active", "contained", "revoked"}]
    BY DEF Shape, TypeOK
  <2> QED
    BY <2>1 DEF ContainForDenials, Moves
<1>7. TypeOK'
  BY <1>5, <1>6, ProceedsTyped DEF Shape, TypeOK, Anyone, ContainForDenials, enrollment, episodes, money
<1> QED
  BY <1>1, <1>5, <1>7, ProceedsShape DEF ContainForDenials, Shape

LEMMA BeginRunShape ==
  ASSUME Shape, NEW c \in Caller, BeginRun(c)
  PROVE  Shape'
<1>1. InProgress(c) /\ Still
  BY AtIsInProgress DEF BeginRun, Places, Still
<1>2. call[c] \in CallType /\ Placed(call[c]) /\ Aimed(call[c]) /\ call[c].pc = "begin"
  BY <1>1, FitHere DEF BeginRun, At
<1>3. call[c].op = "start"
  BY <1>2 DEF Placed, Aimed, Admitted, Beating, Operating, Admitting
<1>4. CASE End(c)
  BY <1>1, <1>4, OverProceeds, StillShape
<1>5. CASE call' = [call EXCEPT ![c].pc = "ask", ![c].at = now]
  <2> DEFINE k == [call[c] EXCEPT !.pc = "ask", !.at = now]
  <2>1. Turns(c, k)
    BY <1>5 DEF Turns
  <2>2. now \in Nat
    BY DEF Shape, TypeOK
  <2>3. /\ k \in CallType /\ k.pc = "ask" /\ k.op = call[c].op
        /\ k.who = call[c].who /\ k.on = call[c].on
    BY <1>2, <2>2 DEF CallType
  <2> HIDE DEF k
  <2>4. Further(c, "ask") /\ call'[c] = k
    BY <2>1, <2>3, TurnsFurther DEF Shape, Anyone
  <2>5. Placed(call'[c])
    BY <1>3, <2>3, <2>4 DEF Placed
  <2>6. Proceeds(c)
    BY <1>2, <1>3, <2>4, <2>5 DEF Proceeds, Places, At
  <2> QED
    BY <1>1, <2>6, StillShape
<1> QED
  BY <1>4, <1>5 DEF BeginRun

LEMMA ReadRunShape ==
  ASSUME Shape, NEW c \in Caller, ReadRun(c)
  PROVE  Shape'
<1>1. InProgress(c) /\ Still
  BY AtIsInProgress DEF ReadRun, Places, Still
<1>2. call[c] \in CallType /\ Placed(call[c]) /\ Aimed(call[c]) /\ call[c].pc = "run"
  BY <1>1, FitHere DEF ReadRun, At
<1>3. call[c].op \in {"beat", "finish"}
  BY <1>2 DEF Placed, Aimed, Admitted, Beating, Operating, Admitting
<1>4. \/ End(c)
      \/ To(c, "agent") /\ call[c].op = "beat"
      \/ To(c, "end") /\ call[c].op = "finish"
  BY <1>3 DEF ReadRun
<1>5. Proceeds(c)
  BY <1>1, <1>2, <1>3, <1>4, ToProceeds, OverProceeds DEF Placed, Admitting, Places, At
<1> QED
  BY <1>1, <1>5, StillShape

LEMMA ReplayShape ==
  ASSUME Shape, NEW c \in Caller, Replay(c)
  PROVE  Shape'
<1>1. InProgress(c) /\ Still /\ (End(c) \/ Go(c))
  BY AtIsInProgress DEF Replay, Places, Still
<1> QED
  BY <1>1, OverProceeds, StillShape

LEMMA ClaimShape ==
  ASSUME ExternalAgentsAssumption, Shape, NEW c \in Caller, NEW cost \in 0..Total, Claim(c, cost)
  PROVE  Shape'
<1>1. InProgress(c)
  BY AtIsInProgress DEF Claim, Places
<1>2. call[c] \in CallType /\ Placed(call[c]) /\ Aimed(call[c]) /\ call[c].pc = "claim"
  BY <1>1, FitHere DEF Claim, At
<1>3. call[c].op = "report" /\ call[c].on \in Report /\ call[c].on \notin Live
  BY <1>2, Sizes DEF Placed, Aimed, Admitted, Beating, Operating, Admitting
<1>4. Proceeds(c)
  <2>1. CASE To(c, "replay")
    BY <1>1, <1>3, <2>1, ToProceeds DEF Placed, Admitting, Places
  <2>2. CASE call' = [call EXCEPT ![c].pc = "open", ![c].cost = cost, ![c].left = cost]
    <3> DEFINE k == [call[c] EXCEPT !.pc = "open", !.cost = cost, !.left = cost]
    <3>1. Turns(c, k)
      BY <2>2 DEF Turns
    <3>2. /\ k \in CallType /\ k.pc = "open" /\ k.op = call[c].op
          /\ k.who = call[c].who /\ k.on = call[c].on
      BY <1>2 DEF CallType
    <3> HIDE DEF k
    <3>3. Further(c, "open") /\ call'[c] = k
      BY <3>1, <3>2, TurnsFurther DEF Shape, Anyone
    <3> QED
      BY <1>3, <3>2, <3>3 DEF Proceeds, Places, Placed
  <2> QED
    BY <2>1, <2>2 DEF Claim
<1>5. claims' \subseteq Report
  <2>1. claims \subseteq Report
    BY DEF Shape, TypeOK
  <2> QED
    BY <1>3, <2>1 DEF Claim
<1>6. TypeOK'
  BY <1>4, <1>5, ProceedsTyped DEF Shape, TypeOK, Anyone, Claim, enrollment, money
<1>7. CallsFit' /\ EndedFirst' /\ StartsAlone'
  <2>1. c \in Anyone /\ \A d \in Anyone : d # c => call'[d] = call[d]
    BY <1>4 DEF Anyone, Proceeds, Further, Leaves
  <2>2. CallsFit'
    BY <1>1, <1>4, CallsFitKept DEF Proceeds
  <2>3. EndedFirst'
    <3>1. ~Ending(call'[c]) \/ ~InProgress(c)'
      BY <1>3, <1>4 DEF Proceeds, Further, Ending, Leaves, InProgress, At
    <3> QED
      BY <2>1, <3>1, EndedFirstKept DEF Claim
  <2>4. StartsAlone'
    <3>1. ~Starting(c)'
      BY <1>3, <1>4 DEF Proceeds, Further, Starting, Leaves, InProgress, At
    <3> QED
      BY <2>1, <3>1, StartsAloneKept DEF Claim
  <2> QED
    BY <2>2, <2>3, <2>4
<1> QED
  BY <1>6, <1>7 DEF Shape, Claim

Stage == [status : {"none", "running"} \cup Closing, of : Agent \cup {"none"}, beat : Nat]

LEMMA StageOf ==
  ASSUME Shape, NEW r \in Live
  PROVE  live[r] \in Stage /\ live \in [Live -> Stage]
BY DEF Shape, TypeOK, Stage

LEMMA EndsFacts ==
  ASSUME Shape, NEW r \in Live, NEW how \in Closing, Ends(r, how)
  PROVE  /\ live' \in [Live -> Stage] /\ live[r].status = "running"
         /\ live'[r].status = how /\ live'[r].of = live[r].of
         /\ \A q \in Live : q # r => live'[q] = live[q]
<1>1. live[r] \in Stage /\ live \in [Live -> Stage]
  BY StageOf
<1> DEFINE ended == [live[r] EXCEPT !.status = how]
<1>2. ended \in Stage /\ ended.status = how /\ ended.of = live[r].of
  BY <1>1 DEF Stage
<1>3. live' = [live EXCEPT ![r] = ended]
  BY DEF Ends
<1> HIDE DEF ended
<1> QED
  BY <1>1, <1>2, <1>3 DEF Ends, Running

\* A run ends, and its end is in the hands of the call that ended it, or of nobody.
LEMMA EndsShape ==
  ASSUME Shape, NEW c \in Anyone, InProgress(c), NEW r \in Live, NEW how \in Closing,
         Ends(r, how), \A d \in Anyone : d # c => call'[d] = call[d],
         UNCHANGED <<record, lost>>, TypeOK', faults' <= made', CallsFit',
         InProgress(c)' /\ Ending(call'[c]) => call'[c].on = r,
         c \in Caller => ~Starting(c)'
  PROVE  Shape'
<1>1. /\ live[r].status = "running" /\ live'[r].status = how
      /\ \A q \in Live : q # r => live'[q] = live[q]
  BY EndsFacts
<1>2. EndedFirst'
  <2>1. \A q \in Live : live[q].status \in Closing => live'[q].status \in Closing
    BY <1>1
  <2>2. InProgress(c)' /\ Ending(call'[c]) => live'[call'[c].on].status \in Closing
    BY <1>1
  <2> QED
    BY <2>1, <2>2, EndedFirstKept
<1>3. StartsAlone'
  <2>1. ASSUME NEW d \in Caller, d # c, Starting(d)
        PROVE  \/ live'[call[d].on].status = live[call[d].on].status
               \/ At(d, "abandon") /\ call[d].on \in lost
    <3>1. call[d].on \in Live
      BY <2>1, FitHere DEF Starting, Aimed
    <3>2. live[call[d].on].status = "none" \/ (At(d, "abandon") /\ call[d].on \in lost)
      BY <2>1 DEF Shape, StartsAlone
    <3> QED
      BY <1>1, <3>1, <3>2
  <2> QED
    BY <2>1, StartsAloneKept
<1> QED
  BY <1>2, <1>3 DEF Shape

LEMMA StopRunShape ==
  ASSUME Shape, NEW c \in Caller, StopRun(c)
  PROVE  Shape'
<1>1. InProgress(c) /\ c \in Anyone
  BY AtIsInProgress DEF StopRun, Places, Anyone
<1>2. call[c] \in CallType /\ Placed(call[c]) /\ Aimed(call[c]) /\ call[c].pc = "stop"
  BY <1>1, FitHere DEF StopRun, At
<1>3. call[c].op = "beat" /\ call[c].on \in Live
  BY <1>2 DEF Placed, Aimed, Admitted, Beating, Operating, Admitting
<1>4. CASE Ends(call[c].on, "stopped") /\ To(c, "close")
  <2>1. Further(c, "close")
    BY <1>1, <1>4, ToFurther DEF Shape, Places
  <2>2. Placed(call'[c])
    BY <1>3, <2>1 DEF Further, Placed
  <2>3. CallsFit'
    BY <1>1, <2>1, <2>2, CallsFitKept DEF Places
  <2>4. live' \in [Live -> Stage]
    BY <1>3, <1>4, EndsFacts DEF Closing
  <2>5. TypeOK'
    BY <2>1, <2>4 DEF Further, Stage, Anyone, Shape, TypeOK, StopRun, enrollment, money
  <2>6. ~Starting(c)' /\ call'[c].on = call[c].on
    BY <1>3, <2>1 DEF Further, Starting
  <2>7. "stopped" \in Closing
    BY DEF Closing
  <2> QED
    BY <1>1, <1>3, <1>4, <2>1, <2>3, <2>5, <2>6, <2>7, EndsShape DEF Further, StopRun, Shape
<1>5. CASE End(c) /\ UNCHANGED live
  BY <1>1, <1>5, OverProceeds, StillShape DEF StopRun, Still, episodes
<1> QED
  BY <1>4, <1>5 DEF StopRun

LEMMA FinishRunShape ==
  ASSUME Shape, NEW c \in Caller, NEW how \in {"finished", "failed"}, NEW cost \in 0..Total,
         FinishRun(c, how, cost)
  PROVE  Shape'
<1>1. InProgress(c) /\ c \in Anyone
  BY AtIsInProgress DEF FinishRun, Places, Anyone
<1>2. call[c] \in CallType /\ Placed(call[c]) /\ Aimed(call[c]) /\ call[c].pc = "end"
  BY <1>1, FitHere DEF FinishRun, At
<1>3. call[c].op = "finish" /\ call[c].on \in Live
  BY <1>2 DEF Placed, Aimed, Admitted, Beating, Operating, Admitting
<1> DEFINE p == IF cost = 0 THEN "close" ELSE "cost"
           k == [call[c] EXCEPT !.pc = p, !.cost = cost, !.left = cost]
<1>4. CASE Ends(call[c].on, how) /\ Turns(c, k)
  <2>1. p \in {"close", "cost"} /\ p \in Places
    BY DEF Places
  <2>2. /\ k \in CallType /\ k.pc = p /\ k.op = call[c].op
        /\ k.who = call[c].who /\ k.on = call[c].on
    <3> HIDE DEF p
    <3> QED
      BY <1>2, <2>1 DEF CallType
  <2> HIDE DEF p, k
  <2>3. Further(c, p) /\ call'[c] = k
    BY <1>1, <1>4, <2>2, TurnsFurther DEF Shape
  <2>4. Placed(call'[c])
    BY <1>3, <2>1, <2>3 DEF Further, Placed
  <2>5. CallsFit'
    BY <1>1, <2>1, <2>3, <2>4, CallsFitKept
  <2>6. how \in Closing
    BY DEF Closing
  <2>7. live' \in [Live -> Stage]
    BY <1>3, <1>4, <2>6, EndsFacts
  <2>8. TypeOK'
    BY <2>3, <2>7 DEF Further, Stage, Anyone, Shape, TypeOK, FinishRun, enrollment, money
  <2>9. ~Starting(c)' /\ call'[c].on = call[c].on
    BY <1>3, <2>3 DEF Further, Starting
  <2> QED
    BY <1>1, <1>3, <1>4, <2>3, <2>5, <2>6, <2>8, <2>9, EndsShape DEF Further, FinishRun, Shape
<1>5. CASE End(c) /\ UNCHANGED live
  BY <1>1, <1>5, OverProceeds, StillShape DEF FinishRun, Still, episodes
<1> QED
  BY <1>4, <1>5 DEF FinishRun, Turns

LEMMA BeatShape ==
  ASSUME Shape, NEW c \in Caller, Beat(c)
  PROVE  Shape'
<1>1. InProgress(c) /\ c \in Anyone
  BY AtIsInProgress DEF Beat, Places, Anyone
<1>2. call[c] \in CallType /\ Placed(call[c]) /\ Aimed(call[c]) /\ call[c].pc = "beat"
  BY <1>1, FitHere DEF Beat, At
<1>3. call[c].op = "beat" /\ call[c].on \in Live /\ call[c].at \in Nat
  BY <1>2 DEF Placed, Aimed, Admitted, Beating, Operating, Admitting, CallType
<1>4. CASE live' = [live EXCEPT ![call[c].on].beat = call[c].at] /\ Go(c)
  <2> DEFINE r == call[c].on
             beaten == [live[r] EXCEPT !.beat = call[c].at]
  <2>1. live[r] \in Stage /\ live \in [Live -> Stage]
    BY <1>3, StageOf
  <2>2. beaten \in Stage /\ beaten.status = live[r].status
    BY <1>3, <2>1 DEF Stage
  <2>3. live' = [live EXCEPT ![r] = beaten]
    BY <1>4
  <2> HIDE DEF beaten
  <2>4. live' \in [Live -> Stage] /\ \A q \in Live : live'[q].status = live[q].status
    BY <1>3, <2>1, <2>2, <2>3
  <2>5. Leaves(c)
    BY <1>1, <1>4, OverLeaves DEF Shape
  <2>6. CallsFit'
    BY <1>1, <2>5, CallsFitKept
  <2>7. TypeOK'
    BY <2>4, <2>5 DEF Leaves, Stage, Anyone, Shape, TypeOK, Beat, enrollment, money
  <2>8. ~InProgress(c)' /\ ~Starting(c)' /\ \A d \in Anyone : d # c => call'[d] = call[d]
    BY <2>5 DEF Leaves, InProgress, At, Starting
  <2>9. EndedFirst'
    BY <1>1, <2>4, <2>8, EndedFirstKept
  <2>10. StartsAlone'
    <3>1. \A d \in Caller : Starting(d) => call[d].on \in Live
      BY FitHere DEF Starting, Aimed
    <3> QED
      BY <1>1, <2>4, <2>8, <3>1, StartsAloneKept DEF Beat
  <2> QED
    BY <2>6, <2>7, <2>9, <2>10 DEF Shape, Beat
<1>5. CASE End(c) /\ UNCHANGED live
  BY <1>1, <1>5, OverProceeds, StillShape DEF Beat, Still, episodes
<1> QED
  BY <1>4, <1>5 DEF Beat

RecordStatus == {"none", "running", "succeeded", "failed", "cancelled"}

\* A call writes this as the status of a run of the record.
Writes(c, e, s) ==
  /\ InProgress(c) /\ e \in Episode /\ s \in RecordStatus
  /\ record' = [record EXCEPT ![e] = s]

\* A run of the record is written, by the only call that starts its live run or by one
\* that closes it.
LEMMA WrittenShape ==
  ASSUME Shape, NEW c \in Anyone, NEW e, NEW s, Writes(c, e, s), UNCHANGED <<live, lost>>,
         \A d \in Anyone : d # c => call'[d] = call[d],
         \A d \in Caller : d # c /\ Starting(d) /\ At(d, "create") => call[d].on # e,
         TypeOK', faults' <= made', CallsFit',
         InProgress(c)' /\ Ending(call'[c]) => live[call'[c].on].status \in Closing,
         c \in Caller /\ Starting(c)' =>
           /\ Starting(c) /\ call'[c].on = call[c].on /\ At(c, "open")
           /\ call[c].on = e /\ s = "running"
  PROVE  Shape'
<1>1. /\ record \in [Episode -> RecordStatus] /\ record' = [record EXCEPT ![e] = s]
      /\ e \in Episode
  BY DEF Shape, TypeOK, RecordStatus, Writes
<1>2. EndedFirst'
  BY EndedFirstKept
<1>3. \A d \in Caller : Starting(d) => call[d].on \in Episode
  BY FitHere DEF Starting, Aimed, Episode
<1>4. StartsAlone'
  <2>1. c \in Caller /\ Starting(c)' => live[call[c].on].status = "none" /\ record'[call[c].on] = "running"
    BY <1>1 DEF Shape, StartsAlone, At
  <2>2. \A d \in Caller : d # c /\ Starting(d) /\ At(d, "create") => record'[call[d].on] = record[call[d].on]
    BY <1>1, <1>3
  <2> QED
    BY <2>1, <2>2, StartsAloneKept
<1> QED
  BY <1>2, <1>4 DEF Shape

\* Only the call that is creating a live run is over one that is not there.
LEMMA ClosedNotStarting ==
  ASSUME Shape, NEW c \in Anyone, InProgress(c), Ending(call[c]),
         NEW d \in Caller, Starting(d), At(d, "create")
  PROVE  call[d].on # call[c].on
<1>1. live[call[c].on].status \in Closing
  BY DEF Shape, EndedFirst
<1>2. live[call[d].on].status = "none"
  BY DEF Shape, StartsAlone, At
<1> QED
  BY <1>1, <1>2 DEF Closing

LEMMA OpenRunShape ==
  ASSUME ExternalAgentsAssumption, Shape, NEW c \in Caller, OpenRun(c)
  PROVE  Shape'
<1>1. InProgress(c) /\ c \in Anyone
  BY AtIsInProgress DEF OpenRun, Places, Anyone
<1>2. call[c] \in CallType /\ Placed(call[c]) /\ Aimed(call[c]) /\ call[c].pc = "open"
  BY <1>1, FitHere DEF OpenRun, At
<1>3. \/ call[c].op = "start" /\ call[c].on \in Live
      \/ call[c].op = "report" /\ call[c].on \in Report
  BY <1>2 DEF Placed, Aimed, Admitted, Beating, Operating, Admitting
<1> DEFINE p == IF call[c].op = "start" THEN "create" ELSE "close"
<1>4. p \in Places /\ (call[c].op = "start" => p = "create") /\ (call[c].op = "report" => p = "close")
  BY DEF Places
<1>5. To(c, p)
  BY DEF OpenRun
<1> HIDE DEF p
<1>6. Further(c, p) /\ Same(call'[c], call[c])
  BY <1>1, <1>4, <1>5, ToFurther DEF Shape
<1>7. Placed(call'[c])
  BY <1>3, <1>4, <1>6 DEF Further, Placed
<1>8. CallsFit'
  BY <1>1, <1>4, <1>6, <1>7, CallsFitKept
<1> DEFINE e == call[c].on
<1>9. e \in Episode /\ record' = [record EXCEPT ![e] = "running"]
  BY <1>3 DEF Episode, OpenRun
<1>10. record' \in [Episode -> RecordStatus]
  BY <1>9 DEF Shape, TypeOK, RecordStatus
<1>11. TypeOK'
  BY <1>6, <1>10 DEF Further, Anyone, Shape, TypeOK, OpenRun, enrollment, money, RecordStatus
<1>12. ASSUME NEW d \in Caller, d # c, Starting(d), At(d, "create")
       PROVE  call[d].on # e
  <2>1. call[d].on \in Live
    BY <1>12, FitHere DEF Starting, Aimed
  <2>2. CASE call[c].op = "start"
    BY <1>1, <1>12, <2>2 DEF Shape, StartsAlone, Starting
  <2>3. CASE call[c].on \in Report
    BY <2>1, <2>3, Sizes
  <2> QED
    BY <1>3, <2>2, <2>3
<1>13. ~Ending(call'[c])
  BY <1>3, <1>4, <1>6, Sizes DEF Ending, Further
<1>14. Starting(c)' => Starting(c) /\ call'[c].on = call[c].on /\ At(c, "open")
  BY <1>1, <1>2, <1>6 DEF Starting, Further, At
<1>15. \A d \in Anyone : d # c => call'[d] = call[d]
  BY <1>6 DEF Further
<1>16. "running" \in RecordStatus
  BY DEF RecordStatus
<1>17. UNCHANGED <<live, lost>> /\ faults' <= made'
  BY DEF OpenRun, Shape
<1>18. ASSUME Starting(c)'
       PROVE  Starting(c) /\ call'[c].on = call[c].on /\ At(c, "open") /\ call[c].on = e
  BY <1>14, <1>18
<1>19. InProgress(c)' /\ Ending(call'[c]) => live[call'[c].on].status \in Closing
  BY <1>13
<1> DEFINE s == "running"
<1>20. Writes(c, e, s) /\ s = "running"
  BY <1>1, <1>9, <1>16 DEF Writes
<1> HIDE DEF e, s
<1>22. c \in Caller /\ Starting(c)' =>
         /\ Starting(c) /\ call'[c].on = call[c].on /\ At(c, "open")
         /\ call[c].on = e /\ s = "running"
  BY <1>18, <1>20
<1>23. \A d \in Caller : d # c /\ Starting(d) /\ At(d, "create") => call[d].on # e
  BY <1>12
<1> QED
  BY <1>1, <1>8, <1>11, <1>15, <1>17, <1>19, <1>20, <1>22, <1>23, WrittenShape

LEMMA AbandonShape ==
  ASSUME Shape, NEW c \in Caller, Abandon(c)
  PROVE  Shape'
<1>1. InProgress(c) /\ c \in Anyone
  BY AtIsInProgress DEF Abandon, Places, Anyone
<1>2. call[c] \in CallType /\ Placed(call[c]) /\ Aimed(call[c]) /\ call[c].pc = "abandon"
  BY <1>1, FitHere DEF Abandon, At
<1>3. call[c].op = "start" /\ call[c].on \in Episode
  BY <1>2 DEF Placed, Aimed, Admitted, Beating, Operating, Admitting, Episode
<1>4. Leaves(c)
  BY <1>1, OverLeaves DEF Abandon, Shape
<1>5. CallsFit'
  BY <1>1, <1>4, CallsFitKept
<1>6. record' \in [Episode -> RecordStatus]
  BY <1>3 DEF Shape, TypeOK, RecordStatus, Abandon
<1>7. TypeOK'
  BY <1>4, <1>6 DEF Leaves, Anyone, Shape, TypeOK, Abandon, enrollment, money, RecordStatus
<1>8. \A d \in Caller : d # c /\ Starting(d) => call[d].on # call[c].on
  BY <1>1, <1>3 DEF Shape, StartsAlone, Starting
<1>9. ~InProgress(c)' /\ ~Starting(c)' /\ \A d \in Anyone : d # c => call'[d] = call[d]
  BY <1>4 DEF Leaves, InProgress, At, Starting
<1> DEFINE e == call[c].on
           s == "failed"
<1>10. Writes(c, e, s)
  BY <1>1, <1>3 DEF RecordStatus, Abandon, Writes
<1>11. \A d \in Caller : d # c /\ Starting(d) => call[d].on # e
  BY <1>8
<1>12. UNCHANGED <<live, lost>> /\ faults' <= made'
  BY DEF Abandon, Shape
<1> HIDE DEF e, s
<1> QED
  BY <1>1, <1>5, <1>7, <1>9, <1>10, <1>11, <1>12, WrittenShape

LEMMA RecordCostShape ==
  ASSUME ExternalAgentsAssumption, Shape, NEW c \in Caller, NEW part \in 1..Total,
         RecordCost(c, part)
  PROVE  Shape'
<1>1. InProgress(c) /\ c \in Anyone
  BY AtIsInProgress DEF RecordCost, Places, Anyone
<1>2. call[c] \in CallType /\ Placed(call[c]) /\ Aimed(call[c]) /\ call[c].pc = "cost"
  BY <1>1, FitHere DEF RecordCost, At
<1>3. call[c].op \in {"finish", "report"} /\ call[c].on \in Episode /\ Total \in Nat
  BY <1>2, Sizes DEF Placed, Aimed, Admitted, Beating, Operating, Admitting, Episode
<1> DEFINE p == IF part = call[c].left THEN "charge" ELSE "cost"
           k == [call[c] EXCEPT !.left = call[c].left - part, !.pc = p]
<1>4. Turns(c, k)
  BY DEF RecordCost, Turns
<1>5. p \in {"charge", "cost"} /\ p \in Places
  BY DEF Places
<1>6. call[c].left \in 0..Total /\ call[c].left - part \in 0..Total
  <2>1. call[c].left \in 0..Total
    BY <1>2 DEF CallType
  <2> QED
    BY <1>3, <2>1 DEF RecordCost
<1>7. /\ k \in CallType /\ k.pc = p /\ k.op = call[c].op
      /\ k.who = call[c].who /\ k.on = call[c].on
  <2> HIDE DEF p
  <2> QED
    BY <1>2, <1>5, <1>6 DEF CallType
<1> HIDE DEF p, k
<1>8. Further(c, p)
  BY <1>1, <1>4, <1>7, TurnsFurther DEF Shape
<1>9. Placed(call'[c])
  BY <1>3, <1>5, <1>8 DEF Further, Placed
<1>10. call[c].on \in Live => live[call[c].on].status \in Closing
  BY <1>1, <1>2 DEF Shape, EndedFirst, Ending
<1>11. Proceeds(c)
  BY <1>3, <1>5, <1>8, <1>9, <1>10 DEF Proceeds
<1>12. ledger' \in [Episode -> Nat]
  <2>1. ledger \in [Episode -> Nat]
    BY DEF Shape, TypeOK
  <2>2. ledger' = [ledger EXCEPT ![call[c].on] = ledger[call[c].on] + part]
    BY DEF RecordCost
  <2> QED
    BY <1>3, <2>1, <2>2
<1>13. TypeOK'
  BY <1>8, <1>12 DEF Further, Anyone, Shape, TypeOK, RecordCost, enrollment, episodes
<1> QED
  BY <1>1, <1>11, <1>13, ProceedsShape DEF RecordCost, Shape

LEMMA ChargeShape ==
  ASSUME ExternalAgentsAssumption, Shape, NEW c \in Caller, Charge(c)
  PROVE  Shape'
<1>1. InProgress(c) /\ c \in Anyone
  BY AtIsInProgress DEF Charge, Places, Anyone
<1>2. call[c] \in CallType /\ Placed(call[c]) /\ Aimed(call[c]) /\ call[c].pc = "charge"
  BY <1>1, FitHere DEF Charge, At
<1>3. call[c].op \in {"finish", "report"} /\ call[c].who \in Agent
  BY <1>2 DEF Placed, Aimed, Admitted, Beating, Operating, Admitting
<1>4. call[c].on \in Live => live[call[c].on].status \in Closing
  BY <1>1, <1>2 DEF Shape, EndedFirst, Ending
<1>5. Go(c) \/ (To(c, "close") /\ call[c].op = "finish")
  BY DEF Charge
<1>6. Proceeds(c)
  BY <1>1, <1>2, <1>4, <1>5, ToProceeds, OverProceeds DEF Placed, Places
<1>7. meter' \in [Agent -> Nat]
  <2>1. meter \in [Agent -> Nat]
    BY DEF Shape, TypeOK
  <2>2. meter' = [meter EXCEPT ![call[c].who] = meter[call[c].who] + call[c].cost]
    BY DEF Charge
  <2>3. call[c].cost \in Nat
    BY <1>2, Sizes DEF CallType
  <2> QED
    BY <1>3, <2>1, <2>2, <2>3
<1>8. TypeOK'
  BY <1>6, <1>7, ProceedsTyped DEF Anyone, Shape, TypeOK, Charge, enrollment, episodes
<1> QED
  BY <1>1, <1>6, <1>8, ProceedsShape DEF Charge, Shape

LEMMA CreatedFacts ==
  ASSUME Shape, NEW c \in Caller, At(c, "create"), live' = Created(c)
  PROVE  /\ call[c].op = "start" /\ call[c].on \in Live /\ live[call[c].on].status = "none"
         /\ live' \in [Live -> Stage] /\ record[call[c].on] = "running"
         /\ live'[call[c].on].status = "running" /\ live'[call[c].on].of = call[c].who
         /\ \A q \in Live : q # call[c].on => live'[q] = live[q]
         /\ \A q \in Live : live[q].status \in Closing => live'[q].status \in Closing
<1>1. InProgress(c)
  BY AtIsInProgress DEF Places
<1>2. call[c] \in CallType /\ Placed(call[c]) /\ Aimed(call[c]) /\ call[c].pc = "create"
  BY <1>1, FitHere DEF At
<1>3. call[c].op = "start"
  BY <1>2 DEF Placed, Aimed, Admitted, Beating, Operating, Admitting
<1>4. call[c].on \in Live /\ call[c].who \in Agent /\ call[c].at \in Nat
  BY <1>2, <1>3 DEF Aimed, CallType
<1>5. live[call[c].on].status = "none" /\ record[call[c].on] = "running"
  BY <1>1, <1>3 DEF Shape, StartsAlone, Starting, At
<1> DEFINE made1 == [status |-> "running", of |-> call[c].who, beat |-> call[c].at]
<1>6. made1 \in Stage /\ made1.status = "running" /\ made1.of = call[c].who
  BY <1>4 DEF Stage
<1>7. live' = [live EXCEPT ![call[c].on] = made1]
  BY DEF Created
<1>8. live \in [Live -> Stage]
  BY <1>4, StageOf
<1> HIDE DEF made1
<1>9. /\ live' \in [Live -> Stage]
      /\ live'[call[c].on] = made1
      /\ \A q \in Live : q # call[c].on => live'[q] = live[q]
  BY <1>4, <1>6, <1>7, <1>8
<1>10. \A q \in Live : live[q].status \in Closing => live'[q].status \in Closing
  BY <1>5, <1>9 DEF Closing
<1> QED
  BY <1>3, <1>4, <1>5, <1>6, <1>9, <1>10

LEMMA OthersStart ==
  ASSUME Shape, NEW c \in Caller, Starting(c), NEW d \in Caller, d # c, Starting(d)
  PROVE  call[d].on # call[c].on /\ call[d].on \in Live
<1>1. call[d].on \in Live
  BY FitHere DEF Starting, Aimed
<1> QED
  BY <1>1 DEF Shape, StartsAlone

\* A live run is created, and the call that created it goes on or abandons it.
LEMMA CreatedShape ==
  ASSUME Shape, NEW c \in Caller, At(c, "create"), live' = Created(c), UNCHANGED record,
         lost \subseteq lost', TypeOK', faults' <= made', CallsFit',
         \A d \in Anyone : d # c => call'[d] = call[d],
         ~InProgress(c)' \/ (At(c, "abandon")' /\ call'[c].on = call[c].on /\ call[c].on \in lost')
  PROVE  Shape'
<1>1. InProgress(c) /\ c \in Anyone
  BY AtIsInProgress DEF Places, Anyone
<1>2. /\ call[c].op = "start" /\ call[c].on \in Live
      /\ \A q \in Live : q # call[c].on => live'[q] = live[q]
      /\ \A q \in Live : live[q].status \in Closing => live'[q].status \in Closing
  BY CreatedFacts
<1>3. Starting(c)
  BY <1>1, <1>2 DEF Starting
<1>4. EndedFirst'
  <2>1. ~InProgress(c)' \/ ~Ending(call'[c])
    BY DEF Ending, At
  <2> QED
    BY <1>1, <1>2, <2>1, EndedFirstKept
<1>5. StartsAlone'
  <2>1. \A d \in Caller : d # c /\ Starting(d) =>
          live'[call[d].on].status = live[call[d].on].status
    BY <1>2, <1>3, OthersStart
  <2>2. Starting(c)' =>
          /\ Starting(c) /\ call'[c].on = call[c].on
          /\ At(c, "abandon")' /\ call[c].on \in lost' /\ ~At(c, "create")'
    BY <1>3 DEF Starting, At
  <2> QED
    BY <1>1, <2>1, <2>2, StartsAloneKept
<1> QED
  BY <1>4, <1>5 DEF Shape

LEMMA CreateRunShape ==
  ASSUME Shape, NEW c \in Caller, CreateRun(c)
  PROVE  Shape'
<1>1. InProgress(c) /\ c \in Anyone /\ At(c, "create")
  BY AtIsInProgress DEF CreateRun, Places, Anyone
<1>2. live' = Created(c) /\ Leaves(c)
  BY <1>1, OverLeaves DEF CreateRun, Shape
<1>3. CallsFit'
  BY <1>1, <1>2, CallsFitKept
<1>4. live' \in [Live -> Stage]
  BY <1>1, <1>2, CreatedFacts
<1>5. TypeOK'
  BY <1>2, <1>4 DEF Leaves, Stage, Anyone, Shape, TypeOK, CreateRun, enrollment, money
<1>6. ~InProgress(c)' /\ \A d \in Anyone : d # c => call'[d] = call[d]
  BY <1>2 DEF Leaves, InProgress, At
<1> QED
  BY <1>1, <1>2, <1>3, <1>5, <1>6, CreatedShape DEF CreateRun, Shape

LEMMA CreateFailsShape ==
  ASSUME ExternalAgentsAssumption, Shape, NEW c \in Caller, NEW done \in BOOLEAN,
         CreateFails(c, done)
  PROVE  Shape'
<1>1. InProgress(c) /\ c \in Anyone /\ At(c, "create")
  BY AtIsInProgress DEF CreateFails, Places, Anyone
<1>2. call[c] \in CallType /\ Placed(call[c]) /\ Aimed(call[c]) /\ call[c].pc = "create"
  BY <1>1, FitHere DEF At
<1>3. call[c].op = "start" /\ call[c].on \in Live
  BY <1>2 DEF Placed, Aimed, Admitted, Beating, Operating, Admitting
<1>4. Further(c, "abandon")
  BY <1>1, ToFurther DEF CreateFails, Places, Shape
<1>5. Placed(call'[c]) /\ At(c, "abandon")' /\ call'[c].on = call[c].on
  BY <1>3, <1>4 DEF Further, Placed, At
<1>6. CallsFit'
  BY <1>1, <1>4, <1>5, CallsFitKept DEF Places
<1>7. /\ faults' \in 0..MaxEvents /\ made' \in 0..MaxEvents /\ faults' <= made'
      /\ lost \subseteq lost' /\ lost' \subseteq Agent \cup Live
  <2>1. /\ faults \in 0..MaxEvents /\ made \in 0..MaxEvents /\ faults <= made
        /\ lost \subseteq Agent \cup Live
    BY DEF Shape, TypeOK
  <2>2. made < MaxEvents /\ made' = made + 1 /\ faults' = faults + 1
    BY DEF CreateFails, Fault, OneMore
  <2>3. lost' = lost \/ lost' = lost \cup {call[c].on}
    BY DEF CreateFails
  <2>4. lost \subseteq lost' /\ lost' \subseteq Agent \cup Live
    BY <1>3, <2>1, <2>3
  <2>5. faults' \in 0..MaxEvents /\ made' \in 0..MaxEvents /\ faults' <= made'
    BY <2>1, <2>2, Sizes
  <2> QED
    BY <2>4, <2>5
<1>8. live' \in [Live -> Stage]
  BY <1>1, <1>3, CreatedFacts, StageOf DEF CreateFails
<1>9. TypeOK'
  BY <1>4, <1>7, <1>8 DEF Further, Stage, Anyone, Shape, TypeOK, CreateFails, enrollment, money
<1>10. \A d \in Anyone : d # c => call'[d] = call[d]
  BY <1>4 DEF Further
<1>11. CASE done
  <2>1. live' = Created(c) /\ call[c].on \in lost' /\ UNCHANGED record
    BY <1>11 DEF CreateFails
  <2> QED
    BY <1>1, <1>5, <1>6, <1>7, <1>9, <1>10, <2>1, CreatedShape
<1>12. CASE ~done
  <2>1. UNCHANGED <<episodes, lost>>
    BY <1>12 DEF CreateFails, episodes
  <2>2. EndedFirst'
    <3>1. ~Ending(call'[c])
      BY <1>4 DEF Further, Ending
    <3> QED
      BY <1>1, <1>10, <2>1, <3>1, EndedFirstKept DEF episodes
  <2>3. StartsAlone'
    <3>1. Starting(c) /\ live[call[c].on].status = "none"
      BY <1>1, <1>3 DEF Shape, StartsAlone, Starting, At
    <3>2. ~At(c, "create")'
      BY <1>5 DEF At
    <3> QED
      BY <1>1, <1>5, <1>10, <2>1, <3>1, <3>2, StartsAloneKept DEF episodes
  <2> QED
    BY <1>6, <1>7, <1>9, <2>2, <2>3 DEF Shape
<1> QED
  BY <1>11, <1>12

LEMMA ClosesWith ==
  ASSUME Shape, NEW c \in Anyone, At(c, "close")
  PROVE  /\ InProgress(c) /\ call[c] \in CallType /\ call[c].on \in Episode
         /\ (IF call[c].on \in Live THEN Outcome[live[call[c].on].status] ELSE "succeeded")
              \in {"succeeded", "failed", "cancelled"}
         /\ c \in Caller => call[c].op \in {"report", "beat", "finish"}
         /\ c \in Caller /\ call[c].op = "report" => call[c].on \in Report
         /\ c = Sweeper /\ c \notin Caller => call[c].op = "sweep"
<1>1. InProgress(c)
  BY AtIsInProgress DEF Places
<1>2. call[c] \in CallType
  BY <1>1, InProgressTyped DEF Shape
<1>3. call[c].pc = "close"
  BY DEF At
<1>4. CASE c \in Caller
  <2>1. call[c].op \in {"report", "beat", "finish"} /\ Aimed(call[c])
    BY <1>1, <1>3, <1>4, FitHere DEF Placed, Aimed, Admitted, Beating, Operating, Admitting
  <2> QED
    BY <1>1, <1>2, <2>1, <1>3, <1>4 DEF Aimed, Beating, Episode, Shape, EndedFirst, Ending, Closing,
                                        Outcome
<1>5. CASE c = Sweeper /\ c \notin Caller
  <2>1. call[c].op = "sweep" /\ call[c].on \in Live
    BY <1>1, <1>3, <1>5 DEF Shape, CallsFit, SweepFits
  <2> QED
    BY <1>1, <1>2, <2>1, <1>3, <1>5 DEF Episode, Shape, EndedFirst, Ending, Closing, Outcome
<1> QED
  BY <1>4, <1>5 DEF Anyone

LEMMA CloseRunShape ==
  ASSUME ExternalAgentsAssumption, Shape, NEW c \in Caller, CloseRun(c)
  PROVE  Shape'
<1> DEFINE e == call[c].on
           end == IF e \in Live THEN Outcome[live[e].status] ELSE "succeeded"
<1>1. InProgress(c) /\ c \in Anyone /\ At(c, "close")
  BY AtIsInProgress DEF CloseRun, Places, Anyone
<1>2. /\ call[c].op \in {"report", "beat", "finish"} /\ e \in Episode
      /\ call[c].op = "report" => e \in Report
      /\ end \in {"succeeded", "failed", "cancelled"}
  BY <1>1, ClosesWith
<1>3. CASE record' = [record EXCEPT ![e] = end]
  <2>1. \/ To(c, "cost") /\ call[c].op = "report"
        \/ Go(c) \/ End(c)
    <3>1. call[c].cost \in 0..Total
      BY <1>1, ClosesWith DEF CallType
    <3>2. call[c].cost > 0 \/ call[c].cost = 0
      BY <3>1
    <3> QED
      BY <1>2, <3>2 DEF CloseRun, End
  <2>2. Proceeds(c)
    <3>1. call[c].op = "report" => call[c].on \notin Live
      BY <1>2, Sizes
    <3> QED
      BY <1>1, <2>1, <3>1, ToProceeds, OverProceeds DEF Placed, Places
  <2>3. CallsFit'
    BY <1>1, <2>2, CallsFitKept DEF Proceeds
  <2>4. Writes(c, e, end)
    BY <1>1, <1>2, <1>3 DEF Writes, RecordStatus
  <2>5. record' \in [Episode -> RecordStatus]
    BY <2>4 DEF Writes, Shape, TypeOK, RecordStatus
  <2>6. TypeOK'
    BY <2>2, <2>5, ProceedsTyped DEF Anyone, Shape, TypeOK, CloseRun, enrollment, money, RecordStatus
  <2>7. InProgress(c)' => call'[c].op = call[c].op /\ call'[c].on = e
    BY <2>2 DEF Proceeds, Leaves, Further, InProgress, At
  <2>8. InProgress(c)' => call[c].op = "report"
    BY <1>1, <2>1, OverLeaves DEF InProgress, At, Leaves, Shape
  <2>9. ~(InProgress(c)' /\ Ending(call'[c]))
    BY <1>2, <2>7, <2>8, Sizes DEF Ending
  <2>10. ~Starting(c)'
    BY <2>7, <2>8 DEF Starting
  <2>11. ASSUME NEW d \in Caller, d # c, Starting(d), At(d, "create")
         PROVE  call[d].on # e
    <3>1. CASE e \in Live
      BY <1>1, <2>11, <3>1, ClosedNotStarting DEF Ending, At
    <3>2. CASE e \notin Live
      BY <2>11, <3>2, FitHere DEF Starting, Aimed
    <3> QED
      BY <3>1, <3>2
  <2>12. \A d \in Anyone : d # c => call'[d] = call[d]
    BY <2>2 DEF Proceeds, Leaves, Further
  <2>13. UNCHANGED <<live, lost>> /\ faults' <= made'
    BY DEF CloseRun, Shape
  <2>14. \A d \in Caller : d # c /\ Starting(d) /\ At(d, "create") => call[d].on # e
    BY <2>11
  <2> HIDE DEF e, end
  <2> QED
    BY <1>1, <2>3, <2>4, <2>6, <2>9, <2>10, <2>12, <2>13, <2>14, WrittenShape
<1>4. CASE call' = [call EXCEPT ![c] = Idle] /\ UNCHANGED record
  BY <1>1, <1>4, OverProceeds, StillShape DEF CloseRun, Still, episodes, End
<1> QED
  BY <1>3, <1>4 DEF CloseRun

\* The sweep goes on with its list, or is over.
Sweeps ==
  /\ call' \in [Anyone -> CallType \cup [pc : {"idle", "go"}]]
  /\ \A d \in Anyone : d # Sweeper => call'[d] = call[d]
  /\ InProgress(Sweeper)' => SweepFits(call'[Sweeper])

LEMMA SweepsFit ==
  ASSUME ExternalAgentsAssumption, Shape, Sweeps
  PROVE  CallsFit'
<1>1. \A d \in Caller : d \in Anyone /\ d # Sweeper
  BY Sizes DEF Anyone
<1> QED
  BY <1>1 DEF Sweeps, CallsFit, Shape, InProgress, At

LEMMA SweepCloseShape ==
  ASSUME ExternalAgentsAssumption, Shape, CloseRun(Sweeper)
  PROVE  Shape'
<1> DEFINE e == call[Sweeper].on
           end == IF e \in Live THEN Outcome[live[e].status] ELSE "succeeded"
           k == [call[Sweeper] EXCEPT !.pc = "sweep", !.on = "none"]
<1>1. /\ Sweeper \in Anyone /\ Sweeper \notin Caller /\ At(Sweeper, "close")
      /\ Sweeper \notin Caller
  BY Sizes DEF CloseRun, Anyone
<1>2. /\ InProgress(Sweeper) /\ call[Sweeper] \in CallType /\ e \in Episode
      /\ call[Sweeper].op = "sweep" /\ end \in {"succeeded", "failed", "cancelled"}
  BY <1>1, ClosesWith
<1>3. k \in CallType /\ k.pc = "sweep" /\ k.op = "sweep"
  BY <1>2 DEF CallType
<1>4. Idle \in [pc : {"idle", "go"}] /\ Idle.pc = "idle"
  BY DEF Idle
<1>5. Turns(Sweeper, k) \/ Turns(Sweeper, Idle)
  BY <1>2 DEF CloseRun, Turns
<1> HIDE DEF k
<1>6. Sweeps /\ (InProgress(Sweeper)' => call'[Sweeper].pc = "sweep")
  BY <1>1, <1>3, <1>4, <1>5, Turned DEF Sweeps, SweepFits, InProgress, At, Shape
<1>7. CallsFit'
  BY <1>6, SweepsFit
<1>8. ~(InProgress(Sweeper)' /\ Ending(call'[Sweeper]))
  BY <1>6 DEF Ending
<1>9. \A d \in Anyone : d # Sweeper => call'[d] = call[d]
  BY <1>6 DEF Sweeps
<1>10. CASE record' = [record EXCEPT ![e] = end]
  <2>1. Writes(Sweeper, e, end)
    BY <1>2, <1>10 DEF Writes, RecordStatus
  <2>2. record' \in [Episode -> RecordStatus]
    BY <2>1 DEF Writes, Shape, TypeOK, RecordStatus
  <2>3. TypeOK'
    BY <1>6, <2>2 DEF Sweeps, Anyone, Shape, TypeOK, CloseRun, enrollment, money, RecordStatus
  <2>4. ASSUME NEW d \in Caller, d # Sweeper, Starting(d), At(d, "create")
        PROVE  call[d].on # e
    <3>1. CASE e \in Live
      BY <1>1, <1>2, <2>4, <3>1, ClosedNotStarting DEF Ending, At
    <3>2. CASE e \notin Live
      BY <2>4, <3>2, FitHere DEF Starting, Aimed
    <3> QED
      BY <3>1, <3>2
  <2>5. UNCHANGED <<live, lost>> /\ faults' <= made'
    BY DEF CloseRun, Shape
  <2>6. \A d \in Caller : d # Sweeper /\ Starting(d) /\ At(d, "create") => call[d].on # e
    BY <2>4
  <2> HIDE DEF e, end
  <2> QED
    BY <1>1, <1>7, <1>8, <1>9, <2>1, <2>3, <2>5, <2>6, WrittenShape
<1>11. CASE UNCHANGED record
  <2>1. UNCHANGED <<episodes, lost>> /\ faults' <= made'
    BY <1>11 DEF CloseRun, episodes, Shape
  <2>2. TypeOK'
    BY <1>6, <1>11 DEF Sweeps, Anyone, Shape, TypeOK, CloseRun, enrollment, money
  <2>3. EndedFirst' /\ StartsAlone'
    BY <1>1, <1>8, <1>9, <2>1, EndedFirstKept, StartsAloneKept DEF episodes
  <2> QED
    BY <1>7, <2>1, <2>2, <2>3 DEF Shape
<1> QED
  BY <1>10, <1>11 DEF CloseRun

LEMMA ListStaleShape ==
  ASSUME ExternalAgentsAssumption, Shape, ListStale
  PROVE  Shape'
<1> DEFINE k == [op |-> "sweep", pc |-> "sweep", who |-> "none", on |-> "none", at |-> now,
                 seen |-> "none", cost |-> 0, left |-> 0, todo |-> Stale, chance |-> FALSE]
<1>1. Sweeper \in Anyone /\ Sweeper \notin Caller /\ Turns(Sweeper, k)
  BY Sizes DEF ListStale, Anyone, Turns
<1>2. k \in CallType /\ k.pc = "sweep" /\ k.op = "sweep"
  <2>1. now \in Nat /\ Stale \subseteq Live /\ Total \in Nat
    BY Sizes DEF Shape, TypeOK, Stale
  <2> QED
    BY <2>1 DEF CallType
<1> HIDE DEF k
<1>3. Sweeps /\ call'[Sweeper].pc = "sweep"
  BY <1>1, <1>2, Turned DEF Sweeps, SweepFits, Shape
<1>4. CallsFit'
  BY <1>3, SweepsFit
<1>5. ~Ending(call'[Sweeper])
  BY <1>3 DEF Ending
<1>6. UNCHANGED <<episodes, lost>> /\ faults' <= made'
  BY DEF ListStale, Shape
<1>7. TypeOK'
  BY <1>3 DEF Sweeps, Anyone, Shape, TypeOK, ListStale, enrollment, money, episodes
<1>8. \A d \in Anyone : d # Sweeper => call'[d] = call[d]
  BY <1>3 DEF Sweeps
<1>9. EndedFirst' /\ StartsAlone'
  BY <1>1, <1>5, <1>6, <1>8, EndedFirstKept, StartsAloneKept DEF episodes
<1> QED
  BY <1>4, <1>6, <1>7, <1>9 DEF Shape

LEMMA ReclaimRunShape ==
  ASSUME ExternalAgentsAssumption, Shape, NEW r \in Live, ReclaimRun(r)
  PROVE  Shape'
<1>1. Sweeper \in Anyone /\ Sweeper \notin Caller /\ InProgress(Sweeper)
  BY Sizes, AtIsInProgress DEF ReclaimRun, Anyone, Places
<1>2. call[Sweeper] \in CallType /\ call[Sweeper].op = "sweep" /\ call[Sweeper].pc = "sweep"
  BY <1>1, InProgressTyped DEF Shape, CallsFit, SweepFits, ReclaimRun, At
<1> DEFINE rest == call[Sweeper].todo \ {r}
<1>3. rest \subseteq Live
  BY <1>2 DEF CallType
<1> HIDE DEF rest
<1>4. CASE /\ Ends(r, "reclaimed")
           /\ call' = [call EXCEPT ![Sweeper].pc = "close", ![Sweeper].on = r,
                                   ![Sweeper].todo = rest]
  <2> DEFINE k == [call[Sweeper] EXCEPT !.pc = "close", !.on = r, !.todo = rest]
  <2>1. k \in CallType /\ k.pc = "close" /\ k.op = "sweep" /\ k.on = r
    BY <1>2, <1>3 DEF CallType, Episode
  <2>2. Turns(Sweeper, k)
    BY <1>4 DEF Turns
  <2> HIDE DEF k
  <2>3. Sweeps /\ call'[Sweeper].on = r
    BY <1>1, <2>1, <2>2, Turned DEF Sweeps, SweepFits, Shape
  <2>4. CallsFit'
    BY <2>3, SweepsFit
  <2>5. "reclaimed" \in Closing
    BY DEF Closing
  <2>6. live' \in [Live -> Stage]
    BY <1>4, <2>5, EndsFacts
  <2>7. TypeOK'
    BY <2>3, <2>6 DEF Sweeps, Stage, Anyone, Shape, TypeOK, ReclaimRun, enrollment, money
  <2>8. \A d \in Anyone : d # Sweeper => call'[d] = call[d]
    BY <2>3 DEF Sweeps
  <2>9. UNCHANGED <<record, lost>> /\ faults' <= made'
    BY DEF ReclaimRun, Shape
  <2> QED
    BY <1>1, <1>4, <2>3, <2>4, <2>5, <2>7, <2>8, <2>9, EndsShape
<1>5. CASE /\ UNCHANGED live
           /\ call' = [call EXCEPT ![Sweeper] =
                IF rest = {} THEN Idle ELSE [call[Sweeper] EXCEPT !.todo = rest]]
  <2> DEFINE k == [call[Sweeper] EXCEPT !.todo = rest]
  <2>1. k \in CallType /\ k.pc = "sweep" /\ k.op = "sweep"
    BY <1>2, <1>3 DEF CallType
  <2>2. Turns(Sweeper, k) \/ Turns(Sweeper, Idle)
    BY <1>5 DEF Turns
  <2>3. Idle \in [pc : {"idle", "go"}] /\ Idle.pc = "idle"
    BY DEF Idle
  <2> HIDE DEF k
  <2>4. Sweeps /\ call'[Sweeper].pc \in {"idle", "sweep"}
    BY <1>1, <2>1, <2>2, <2>3, Turned DEF Sweeps, SweepFits, Shape, InProgress, At
  <2>5. CallsFit'
    BY <2>4, SweepsFit
  <2>6. ~Ending(call'[Sweeper])
    BY <2>4 DEF Ending
  <2>7. UNCHANGED <<episodes, lost>> /\ faults' <= made'
    BY <1>5 DEF ReclaimRun, Shape, episodes
  <2>8. TypeOK'
    BY <2>4, <2>7 DEF Sweeps, Anyone, Shape, TypeOK, ReclaimRun, enrollment, money, episodes
  <2>9. \A d \in Anyone : d # Sweeper => call'[d] = call[d]
    BY <2>4 DEF Sweeps
  <2>10. EndedFirst' /\ StartsAlone'
    BY <1>1, <2>6, <2>7, <2>9, EndedFirstKept, StartsAloneKept DEF episodes
  <2> QED
    BY <2>5, <2>7, <2>8, <2>10 DEF Shape
<1> QED
  BY <1>4, <1>5 DEF ReclaimRun, rest

LEMMA ReadStatusShape ==
  ASSUME Shape, NEW c \in Caller, ReadStatus(c)
  PROVE  Shape'
<1>1. InProgress(c) /\ Still
  BY AtIsInProgress DEF ReadStatus, Places, Still
<1>2. call[c] \in CallType /\ Placed(call[c]) /\ Aimed(call[c]) /\ call[c].pc = "read"
  BY <1>1, FitHere DEF ReadStatus, At
<1>3. call[c].op \in {"contain", "release", "revoke"} /\ call[c].who \in Agent
  BY <1>2 DEF Placed, Aimed, Admitted, Beating, Operating, Admitting
<1>4. CASE End(c)
  BY <1>1, <1>4, OverProceeds, StillShape
<1> DEFINE s == status[call[c].who]
           k == [call[c] EXCEPT !.pc = "permit", !.seen = s]
<1>5. CASE Turns(c, k)
  <2>1. s \in {"none", "active", "contained", "revoked", "stopped"}
    BY <1>3 DEF Shape, TypeOK
  <2> HIDE DEF s
  <2>2. /\ k \in CallType /\ k.pc = "permit" /\ k.op = call[c].op
        /\ k.who = call[c].who /\ k.on = call[c].on
    <3>1. /\ k.pc = "permit" /\ k.op = call[c].op
          /\ k.who = call[c].who /\ k.on = call[c].on
      BY <1>2 DEF CallType
    <3>2. k \in CallType
      BY <1>2, <2>1 DEF CallType
    <3> QED
      BY <3>1, <3>2
  <2> HIDE DEF k
  <2>3. Further(c, "permit") /\ call'[c] = k
    BY <1>5, <2>2, TurnsFurther DEF Shape, Anyone
  <2>4. Proceeds(c)
    BY <1>3, <2>2, <2>3 DEF Proceeds, Places, Placed
  <2> QED
    BY <1>1, <2>4, StillShape
<1> QED
  BY <1>4, <1>5 DEF ReadStatus, Turns

LEMMA PermitShape ==
  ASSUME Shape, NEW c \in Caller, Permit(c)
  PROVE  Shape'
<1>1. InProgress(c) /\ Still
  BY AtIsInProgress DEF Permit, Places, Still
<1>2. call[c] \in CallType /\ Placed(call[c]) /\ Aimed(call[c]) /\ call[c].pc = "permit"
  BY <1>1, FitHere DEF Permit, At
<1>3. call[c].op \in {"enroll", "contain", "release", "revoke"}
  BY <1>2 DEF Placed, Aimed, Admitted, Beating, Operating, Admitting
<1>4. \/ To(c, "clear") /\ call[c].op = "release"
      \/ To(c, "enroll") /\ call[c].op = "enroll"
      \/ To(c, "set") /\ call[c].op \in {"contain", "revoke"}
      \/ To(c, "unseat") /\ call[c].op = "enroll"
      \/ End(c)
  BY <1>3 DEF Permit
<1>5. Proceeds(c)
  BY <1>1, <1>2, <1>4, ToProceeds, OverProceeds DEF Placed, Places, At
<1> QED
  BY <1>1, <1>5, StillShape

Statuses == {"none", "active", "contained", "revoked"}

LEMMA MovesFacts ==
  ASSUME Shape, NEW x \in Agent, NEW from, NEW to \in Statuses, Moves(x, from, to)
  PROVE  /\ status' \in [Agent -> Statuses] /\ status[x] = from /\ status'[x] = to
         /\ \A y \in Agent : y # x => status'[y] = status[y]
<1>1. status \in [Agent -> Statuses]
  BY DEF Shape, TypeOK, Statuses
<1> QED
  BY <1>1 DEF Moves

\* A status changes, and the call that changed it goes on or is over.
LEMMA StatusShape ==
  ASSUME Shape, NEW c \in Caller, InProgress(c), Proceeds(c), status' \in [Agent -> Statuses],
         UNCHANGED <<seats, denials, episodes, money, pausedAt, lost, now, made, faults>>
  PROVE  Shape'
<1>1. TypeOK'
  BY ProceedsTyped DEF Anyone, Shape, TypeOK, episodes, money, Statuses
<1> QED
  BY <1>1, ProceedsShape DEF Shape

LEMMA ContainShape ==
  ASSUME Shape, NEW c \in Caller, Contain(c)
  PROVE  Shape'
<1>1. InProgress(c)
  BY AtIsInProgress DEF Contain, Places
<1>2. call[c].who \in Agent
  BY <1>1, FitHere DEF Aimed
<1>3. status' \in [Agent -> Statuses]
  BY <1>2, MovesFacts DEF Contain, Shape, TypeOK, Statuses
<1> QED
  BY <1>1, <1>3, OverProceeds, StatusShape DEF Contain

LEMMA RevokeShape ==
  ASSUME Shape, NEW c \in Caller, Revoke(c)
  PROVE  Shape'
<1>1. InProgress(c)
  BY AtIsInProgress DEF Revoke, Places
<1>2. call[c].who \in Agent /\ Placed(call[c]) /\ call[c].pc \in {"set", "again"} /\ call[c].op = "revoke"
  BY <1>1, FitHere DEF Aimed, Revoke, At
<1>3. status' \in [Agent -> Statuses]
  BY <1>2, MovesFacts DEF Revoke, Shape, TypeOK, Statuses
<1>4. To(c, "unseat") \/ To(c, "reread") \/ End(c)
  BY DEF Revoke
<1>5. Proceeds(c)
  BY <1>1, <1>2, <1>4, ToProceeds, OverProceeds DEF Placed, Places
<1> QED
  BY <1>1, <1>3, <1>5, StatusShape DEF Revoke

LEMMA RereadShape ==
  ASSUME Shape, NEW c \in Caller, Reread(c)
  PROVE  Shape'
<1>1. InProgress(c) /\ Still
  BY AtIsInProgress DEF Reread, Places, Still
<1>2. call[c] \in CallType /\ Placed(call[c]) /\ Aimed(call[c]) /\ call[c].pc = "reread"
  BY <1>1, FitHere DEF Reread, At
<1>3. call[c].op = "revoke" /\ call[c].who \in Agent
  BY <1>2 DEF Placed, Aimed, Admitted, Beating, Operating, Admitting
<1>4. CASE End(c)
  BY <1>1, <1>4, OverProceeds, StillShape
<1> DEFINE s == status[call[c].who]
           k == [call[c] EXCEPT !.pc = "again", !.seen = s]
<1>5. CASE Turns(c, k)
  <2>1. s \in {"none", "active", "contained", "revoked", "stopped"}
    BY <1>3 DEF Shape, TypeOK
  <2> HIDE DEF s
  <2>2. /\ k \in CallType /\ k.pc = "again" /\ k.op = call[c].op
        /\ k.who = call[c].who /\ k.on = call[c].on
    <3>1. /\ k.pc = "again" /\ k.op = call[c].op
          /\ k.who = call[c].who /\ k.on = call[c].on
      BY <1>2 DEF CallType
    <3>2. k \in CallType
      BY <1>2, <2>1 DEF CallType
    <3> QED
      BY <3>1, <3>2
  <2> HIDE DEF k
  <2>3. Further(c, "again") /\ call'[c] = k
    BY <1>5, <2>2, TurnsFurther DEF Shape, Anyone
  <2>4. Proceeds(c)
    BY <1>3, <2>2, <2>3 DEF Proceeds, Places, Placed
  <2> QED
    BY <1>1, <2>4, StillShape
<1> QED
  BY <1>4, <1>5 DEF Reread, Turns

LEMMA CheckNameShape ==
  ASSUME Shape, NEW c \in Caller, CheckName(c)
  PROVE  Shape'
<1>1. InProgress(c) /\ Still
  BY AtIsInProgress DEF CheckName, Places, Still
<1>2. Placed(call[c]) /\ Aimed(call[c]) /\ call[c].pc = "name"
  BY <1>1, FitHere DEF CheckName, At
<1>3. call[c].op = "enroll"
  BY <1>2 DEF Placed, Aimed, Admitted, Beating, Operating, Admitting
<1>4. Proceeds(c)
  BY <1>1, <1>3, ToProceeds, OverProceeds DEF CheckName, Placed, Places
<1> QED
  BY <1>1, <1>4, StillShape

LEMMA ClaimSeatShape ==
  ASSUME ExternalAgentsAssumption, Shape, NEW c \in Caller, ClaimSeat(c)
  PROVE  Shape'
<1>1. InProgress(c)
  BY AtIsInProgress DEF ClaimSeat, Places
<1>2. Placed(call[c]) /\ Aimed(call[c]) /\ call[c].pc = "seat"
  BY <1>1, FitHere DEF ClaimSeat, At
<1>3. call[c].op = "enroll"
  BY <1>2 DEF Placed, Aimed, Admitted, Beating, Operating, Admitting
<1>4. Proceeds(c)
  BY <1>1, <1>3, ToProceeds, OverProceeds DEF ClaimSeat, Placed, Places
<1>5. seats' \in 0..SeatCap
  <2>1. seats \in 0..SeatCap /\ SeatCap \in Nat
    BY Sizes DEF Shape, TypeOK
  <2> QED
    BY <2>1 DEF ClaimSeat
<1>6. TypeOK'
  BY <1>4, <1>5, ProceedsTyped DEF Anyone, Shape, TypeOK, ClaimSeat, episodes, money
<1> QED
  BY <1>1, <1>4, <1>6, ProceedsShape DEF ClaimSeat, Shape

LEMMA UnseatShape ==
  ASSUME ExternalAgentsAssumption, Shape, NEW c \in Caller, Unseat(c)
  PROVE  Shape'
<1>1. InProgress(c)
  BY AtIsInProgress DEF Unseat, Places
<1>2. Proceeds(c)
  BY OverProceeds DEF Unseat
<1>3. seats' \in 0..SeatCap
  <2>1. seats \in 0..SeatCap /\ SeatCap \in Nat
    BY Sizes DEF Shape, TypeOK
  <2> QED
    BY <2>1 DEF Unseat
<1>4. TypeOK'
  BY <1>2, <1>3, ProceedsTyped DEF Anyone, Shape, TypeOK, Unseat, episodes, money
<1> QED
  BY <1>1, <1>2, <1>4, ProceedsShape DEF Unseat, Shape

LEMMA EnrollShape ==
  ASSUME Shape, NEW c \in Caller, Enroll(c)
  PROVE  Shape'
<1>1. InProgress(c)
  BY AtIsInProgress DEF Enroll, Places
<1>2. call[c].who \in Agent /\ Placed(call[c]) /\ Aimed(call[c]) /\ call[c].pc = "enroll"
  BY <1>1, FitHere DEF Aimed, Enroll, At
<1>3. call[c].op = "enroll"
  BY <1>2 DEF Placed, Aimed, Admitted, Beating, Operating, Admitting
<1>4. status' \in [Agent -> Statuses]
  BY <1>2, MovesFacts DEF Enroll, Shape, TypeOK, Statuses
<1>5. Proceeds(c)
  BY <1>1, <1>3, ToProceeds, OverProceeds DEF Enroll, Placed, Places
<1> QED
  BY <1>1, <1>4, <1>5, StatusShape DEF Enroll

\* A release leaves every other call where it is, with its chance if it is about the
\* agent released.
Freed(c) ==
  [d \in DOMAIN call |->
     IF d = c THEN Idle
     ELSE IF InProgress(d) /\ call[d].who = call[c].who
     THEN [call[d] EXCEPT !.chance = TRUE]
     ELSE call[d]]

LEMMA FreedFacts ==
  ASSUME Shape, NEW c \in Caller, call' = Freed(c)
  PROVE  /\ call' \in [Anyone -> CallType \cup [pc : {"idle", "go"}]]
         /\ call'[c] = Idle /\ ~InProgress(c)'
         /\ \A d \in Anyone : d # c =>
              /\ call'[d].pc = call[d].pc
              /\ ~InProgress(d) => call'[d] = call[d]
              /\ InProgress(d) =>
                   /\ call'[d].op = call[d].op /\ call'[d].who = call[d].who
                   /\ call'[d].on = call[d].on /\ call'[d].at = call[d].at
                   /\ call'[d].seen = call[d].seen /\ call'[d].cost = call[d].cost
                   /\ call'[d].left = call[d].left
                   /\ call'[d].chance = (call[d].chance \/ call[d].who = call[c].who)
<1>1. call \in [Anyone -> CallType \cup [pc : {"idle", "go"}]]
  BY DEF Shape, TypeOK, Anyone
<1>2. DOMAIN call = Anyone /\ c \in Anyone
  BY <1>1 DEF Anyone
<1>3. Idle \in [pc : {"idle", "go"}] /\ Idle.pc = "idle"
  BY DEF Idle
<1> DEFINE new(d) == IF d = c THEN Idle
                     ELSE IF InProgress(d) /\ call[d].who = call[c].who
                     THEN [call[d] EXCEPT !.chance = TRUE]
                     ELSE call[d]
<1>4. call' = [d \in Anyone |-> new(d)]
  BY <1>2 DEF Freed
<1>5. ASSUME NEW d \in Anyone
      PROVE  new(d) \in CallType \cup [pc : {"idle", "go"}]
  <2>1. CASE InProgress(d) /\ call[d].who = call[c].who /\ d # c
    <3>1. call[d] \in CallType
      BY <2>1, InProgressTyped DEF Shape
    <3>2. [call[d] EXCEPT !.chance = TRUE] \in CallType
      BY <3>1 DEF CallType
    <3> QED
      BY <2>1, <3>2
  <2>2. CASE ~(InProgress(d) /\ call[d].who = call[c].who /\ d # c)
    <3>1. new(d) = Idle \/ new(d) = call[d]
      BY <2>2
    <3> QED
      BY <1>1, <1>3, <3>1
  <2> QED
    BY <2>1, <2>2
<1>6. \A d \in Anyone : call'[d] = new(d)
  BY <1>4
<1>7. call' \in [Anyone -> CallType \cup [pc : {"idle", "go"}]]
  <2> HIDE DEF new
  <2> QED
    BY <1>4, <1>5
<1>8. call'[c] = Idle /\ ~InProgress(c)'
  BY <1>2, <1>3, <1>6 DEF InProgress, At
<1>9. ASSUME NEW d \in Anyone, d # c, InProgress(d)
      PROVE  /\ call'[d].pc = call[d].pc
             /\ call'[d].op = call[d].op /\ call'[d].who = call[d].who
             /\ call'[d].on = call[d].on /\ call'[d].at = call[d].at
             /\ call'[d].seen = call[d].seen /\ call'[d].cost = call[d].cost
             /\ call'[d].left = call[d].left
             /\ call'[d].chance = (call[d].chance \/ call[d].who = call[c].who)
  <2>1. call[d] \in CallType
    BY <1>9, InProgressTyped DEF Shape
  <2>2. CASE call[d].who = call[c].who
    <3>1. call'[d] = [call[d] EXCEPT !.chance = TRUE]
      BY <1>6, <1>9, <2>2
    <3> DEFINE k == [call[d] EXCEPT !.chance = TRUE]
    <3>2. /\ k.pc = call[d].pc /\ k.op = call[d].op /\ k.who = call[d].who /\ k.on = call[d].on
          /\ k.at = call[d].at /\ k.seen = call[d].seen /\ k.cost = call[d].cost
          /\ k.left = call[d].left /\ k.chance = TRUE
      BY <2>1 DEF CallType
    <3> QED
      BY <2>2, <3>1, <3>2
  <2>3. CASE call[d].who # call[c].who
    <3>1. call'[d] = call[d]
      BY <1>6, <1>9, <2>3
    <3>2. call[d].chance \in BOOLEAN
      BY <2>1 DEF CallType
    <3> QED
      BY <2>3, <3>1, <3>2
  <2> QED
    BY <2>2, <2>3
<1>10. \A d \in Anyone : d # c /\ ~InProgress(d) => call'[d] = call[d]
  BY <1>6
<1> QED
  BY <1>7, <1>8, <1>9, <1>10

LEMMA ReleaseShape ==
  ASSUME ExternalAgentsAssumption, Shape, NEW c \in Caller, Release(c)
  PROVE  Shape'
<1>1. InProgress(c) /\ c \in Anyone /\ call[c].who \in Agent
  BY AtIsInProgress, FitHere DEF Release, Places, Anyone, Aimed
<1>2. CASE /\ Moves(call[c].who, "contained", "active")
           /\ call' = Freed(c)
  <2>1. status' \in [Agent -> Statuses]
    BY <1>1, <1>2, MovesFacts DEF Statuses
  <2>2. TypeOK'
    BY <1>2, <2>1, FreedFacts DEF Anyone, Shape, TypeOK, Release, episodes, money, Statuses
  <2>3. ASSUME NEW d \in Anyone, InProgress(d)'
        PROVE  /\ d # c /\ InProgress(d)
               /\ call'[d].pc = call[d].pc /\ call'[d].op = call[d].op
               /\ call'[d].who = call[d].who /\ call'[d].on = call[d].on
    BY <1>2, <2>3, FreedFacts DEF InProgress, At
  <2>4. Sweeper \in Anyone /\ \A d \in Caller : d \in Anyone
    BY DEF Anyone
  <2>5. CallsFit'
    BY <2>3, <2>4 DEF Shape, CallsFit, Placed, Aimed, SweepFits
  <2>6. UNCHANGED <<live, record, lost>> /\ faults' <= made'
    BY DEF Release, episodes, Shape
  <2>7. EndedFirst'
    BY <2>3, <2>6 DEF Shape, EndedFirst, Ending
  <2>8. \A d \in Caller : Starting(d)' =>
          /\ Starting(d) /\ call'[d].on = call[d].on
          /\ (At(d, "abandon")' <=> At(d, "abandon")) /\ (At(d, "create")' <=> At(d, "create"))
    BY <2>3, <2>4 DEF Starting, At
  <2>9. StartsAlone'
    BY <2>6, <2>8 DEF Shape, StartsAlone
  <2> QED
    BY <2>2, <2>5, <2>6, <2>7, <2>9 DEF Shape
<1>3. CASE End(c) /\ UNCHANGED status
  BY <1>1, <1>3, OverProceeds, StillShape DEF Release, Still, enrollment
<1> QED
  BY <1>2, <1>3 DEF Release, Freed

LEMMA Faulted ==
  ASSUME ExternalAgentsAssumption, Shape, Fault
  PROVE  /\ faults' \in 0..MaxEvents /\ made' \in 0..MaxEvents /\ faults' <= made'
         /\ faults' # 0
<1>1. /\ faults \in 0..MaxEvents /\ made \in 0..MaxEvents /\ faults <= made /\ MaxEvents \in Nat
  BY Sizes DEF Shape, TypeOK
<1>2. made < MaxEvents /\ made' = made + 1 /\ faults' = faults + 1
  BY DEF Fault, OneMore
<1> QED
  BY <1>1, <1>2

LEMMA LostShape ==
  ASSUME ExternalAgentsAssumption, Shape, NEW c \in Anyone, Lost(c)
  PROVE  Shape'
<1>1. InProgress(c) /\ Leaves(c)
  BY OverLeaves DEF Lost, Shape
<1>2. /\ faults' \in 0..MaxEvents /\ made' \in 0..MaxEvents /\ faults' <= made'
  BY Faulted DEF Lost
<1>3. TypeOK'
  BY <1>1, <1>2 DEF Leaves, Anyone, Shape, TypeOK, Lost, enrollment, episodes, money
<1> QED
  BY <1>1, <1>2, <1>3, QuietLeaves DEF Lost

LEMMA PauseUnreadableShape ==
  ASSUME ExternalAgentsAssumption, Shape, NEW c \in Caller, PauseUnreadable(c)
  PROVE  Shape'
<1>1. InProgress(c) /\ call[c].op = "beat"
  BY AtIsInProgress DEF PauseUnreadable, Places
<1>2. Further(c, "stop")
  BY <1>1, ToFurther DEF PauseUnreadable, Places, Shape, Anyone
<1>3. Placed(call'[c])
  BY <1>1, <1>2 DEF Further, Placed
<1>4. CallsFit'
  BY <1>1, <1>2, <1>3, CallsFitKept DEF Places
<1>5. /\ faults' \in 0..MaxEvents /\ made' \in 0..MaxEvents /\ faults' <= made'
  BY Faulted DEF PauseUnreadable
<1>6. TypeOK'
  BY <1>2, <1>5 DEF Further, Anyone, Shape, TypeOK, PauseUnreadable, enrollment, episodes, money
<1>7. /\ c \in Anyone /\ \A d \in Anyone : d # c => call'[d] = call[d]
      /\ UNCHANGED <<episodes, lost>>
  BY <1>2 DEF Further, Anyone, PauseUnreadable
<1>8. EndedFirst'
  <2>1. ~Ending(call'[c])
    BY <1>1, <1>2 DEF Further, Ending
  <2> QED
    BY <1>7, <2>1, EndedFirstKept DEF episodes
<1>9. StartsAlone'
  <2>1. ~Starting(c)'
    BY <1>1, <1>2 DEF Further, Starting
  <2> QED
    BY <1>7, <2>1, StartsAloneKept DEF episodes
<1> QED
  BY <1>4, <1>5, <1>6, <1>8, <1>9 DEF Shape

LEMMA EnrollFailsShape ==
  ASSUME ExternalAgentsAssumption, Shape, NEW c \in Caller, NEW done \in BOOLEAN,
         EnrollFails(c, done)
  PROVE  Shape'
<1>1. InProgress(c)
  BY AtIsInProgress DEF EnrollFails, Places
<1>2. call[c].who \in Agent /\ Placed(call[c]) /\ Aimed(call[c]) /\ call[c].pc = "enroll"
  BY <1>1, FitHere DEF Aimed, EnrollFails, At
<1>3. call[c].op = "enroll"
  BY <1>2 DEF Placed, Aimed, Admitted, Beating, Operating, Admitting
<1>4. Further(c, "unseat")
  BY <1>1, ToFurther DEF EnrollFails, Places, Shape, Anyone
<1>5. Placed(call'[c])
  BY <1>3, <1>4 DEF Further, Placed
<1>6. CallsFit'
  BY <1>1, <1>4, <1>5, CallsFitKept DEF Places
<1>7. /\ faults' \in 0..MaxEvents /\ made' \in 0..MaxEvents /\ faults' <= made'
  BY Faulted DEF EnrollFails
<1>8. status' \in [Agent -> Statuses]
  BY <1>2, MovesFacts DEF EnrollFails, Shape, TypeOK, Statuses
<1>9. lost \subseteq lost' /\ lost' \subseteq Agent \cup Live
  <2>1. lost \subseteq Agent \cup Live
    BY DEF Shape, TypeOK
  <2>2. lost' = lost \/ lost' = lost \cup {call[c].who}
    BY DEF EnrollFails
  <2> QED
    BY <1>2, <2>1, <2>2
<1>10. TypeOK'
  BY <1>4, <1>7, <1>8, <1>9 DEF Further, Anyone, Shape, TypeOK, EnrollFails, episodes, money, Statuses
<1>11. c \in Anyone /\ \A d \in Anyone : d # c => call'[d] = call[d]
  BY <1>4 DEF Further, Anyone
<1>12. UNCHANGED episodes
  BY DEF EnrollFails
<1>13. EndedFirst'
  <2>1. ~Ending(call'[c])
    BY <1>4 DEF Further, Ending
  <2> QED
    BY <1>11, <1>12, <2>1, EndedFirstKept DEF episodes
<1>14. StartsAlone'
  <2>1. ~Starting(c)'
    BY <1>3, <1>4 DEF Further, Starting
  <2> QED
    BY <1>9, <1>11, <1>12, <2>1, StartsAloneKept DEF episodes
<1> QED
  BY <1>6, <1>7, <1>10, <1>13, <1>14 DEF Shape

LEMMA PauseTickShape ==
  ASSUME ExternalAgentsAssumption, Shape, Pause \/ Tick
  PROVE  Shape'
<1>1. UNCHANGED <<enrollment, denials, episodes, money, call, lost, faults>>
  BY DEF Pause, Tick
<1>2. /\ now \in 0..MaxTime /\ made \in 0..MaxEvents /\ MaxTime \in Nat /\ MaxEvents \in Nat
      /\ faults \in 0..MaxEvents /\ faults <= made /\ pausedAt \in Nat \cup {-1}
  BY Sizes DEF Shape, TypeOK
<1>3. now' \in 0..MaxTime /\ made' \in 0..MaxEvents /\ pausedAt' \in Nat \cup {-1} /\ faults' <= made'
  <2>1. CASE Pause
    BY <1>1, <1>2, <2>1 DEF Pause, OneMore
  <2>2. CASE Tick
    BY <1>1, <1>2, <2>2 DEF Tick
  <2> QED
    BY <2>1, <2>2
<1>4. TypeOK'
  BY <1>1, <1>3 DEF Shape, TypeOK, enrollment, episodes, money
<1>5. CallsFit' /\ EndedFirst' /\ StartsAlone'
  BY <1>1 DEF Shape, CallsFit, EndedFirst, StartsAlone, Starting, InProgress, At, episodes
<1> QED
  BY <1>3, <1>4, <1>5 DEF Shape

LEMMA StutterShape ==
  ASSUME Shape, UNCHANGED vars
  PROVE  Shape'
<1>1. UNCHANGED <<enrollment, denials, episodes, money, pausedAt, call, lost, now, made, faults>>
  BY DEF vars
<1>2. TypeOK' /\ faults' <= made'
  BY <1>1 DEF Shape, TypeOK, enrollment, episodes, money
<1>3. CallsFit' /\ EndedFirst' /\ StartsAlone'
  BY <1>1 DEF Shape, CallsFit, EndedFirst, StartsAlone, Starting, InProgress, At, episodes
<1> QED
  BY <1>2, <1>3 DEF Shape

\* What a new call is.
Asks(op, a, e) ==
  [op |-> op,
   pc |-> CASE op \in Admitted \cup Beating -> "rate" [] op = "enroll" -> "name"
            [] OTHER -> "read",
   who |-> a, on |-> e, at |-> now, seen |-> "none", cost |-> 0, left |-> 0,
   todo |-> {}, chance |-> status[a] = "active"]

LEMMA BeginFacts ==
  ASSUME ExternalAgentsAssumption, Shape, NEW c \in Caller,
         NEW op \in Admitted \cup Beating \cup Operating, NEW a \in Agent,
         NEW e \in Episode \cup {"none"}, Begin(c, op, a, e)
  PROVE  /\ c \in Anyone /\ ~InProgress(c) /\ e \in Over(op)
         /\ call' \in [Anyone -> CallType \cup [pc : {"idle", "go"}]]
         /\ \A d \in Anyone : d # c => call'[d] = call[d]
         /\ call'[c] \in CallType /\ call'[c] = Asks(op, a, e)
         /\ call'[c].op = op /\ call'[c].who = a /\ call'[c].on = e /\ call'[c].at = now
         /\ call'[c].cost = 0 /\ call'[c].left = 0
         /\ call'[c].chance = (status[a] = "active")
         /\ op \in Admitted \cup Beating => call'[c].pc = "rate"
         /\ op = "enroll" => call'[c].pc = "name"
         /\ op \in {"contain", "release", "revoke"} => call'[c].pc = "read"
         /\ Placed(call'[c]) /\ Aimed(call'[c])
         /\ op = "start" => Unused(e) /\ e \in Live
         /\ op \in Beating => e \in Live /\ live[e].status # "none"
         /\ op = "report" => e \in Report /\ By[e] = a
         /\ op # "enroll" => status[a] # "none"
<1>1. c \in Anyone /\ now \in Nat /\ Total \in Nat
  BY Sizes DEF Anyone, Shape, TypeOK
<1> DEFINE p == CASE op \in Admitted \cup Beating -> "rate" [] op = "enroll" -> "name"
                  [] OTHER -> "read"
           k == Asks(op, a, e)
<1>2. /\ op \in Admitted \cup Beating => p = "rate"
      /\ op = "enroll" => p = "name"
      /\ op \in {"contain", "release", "revoke"} => p = "read"
      /\ p \in {"rate", "name", "read"}
  BY DEF Admitted, Beating
<1>3. k.pc = p
  BY DEF Asks
<1>4. /\ k.op = op /\ k.who = a /\ k.on = e /\ k.at = now /\ k.cost = 0 /\ k.left = 0
      /\ k.chance = (status[a] = "active")
  BY DEF Asks
<1>5. k \in CallType
  <2>1. k = [op |-> op, pc |-> p, who |-> a, on |-> e, at |-> now, seen |-> "none",
             cost |-> 0, left |-> 0, todo |-> {}, chance |-> status[a] = "active"]
    BY DEF Asks
  <2>2. (status[a] = "active") \in BOOLEAN
    OBVIOUS
  <2> HIDE DEF p, k
  <2> QED
    BY <1>1, <1>2, <2>1, <2>2 DEF CallType
<1>6. Turns(c, k)
  BY DEF Begin, Asks, Turns
<1> HIDE DEF p, k
<1>7. call' \in [Anyone -> CallType \cup [pc : {"idle", "go"}]]
      /\ call'[c] = k /\ \A d \in Anyone : d # c => call'[d] = call[d]
  BY <1>1, <1>5, <1>6, Turned DEF Shape
<1>8. /\ e \in Over(op) /\ ~InProgress(c) /\ (op = "report" => By[e] = a)
      /\ op # "enroll" => status[a] # "none"
  BY DEF Begin
<1>9. /\ op = "start" => Unused(e) /\ e \in Live
      /\ op \in Beating => e \in Live /\ live[e].status # "none"
      /\ op = "report" => e \in Report
  BY <1>8 DEF Over, Beating
<1>10. Placed(k)
  BY <1>2, <1>3, <1>4 DEF Placed, Admitting, Admitted, Beating
<1>11. Aimed(k)
  BY <1>4, <1>8, <1>9 DEF Aimed
<1> QED
  BY <1>1, <1>2, <1>3, <1>4, <1>5, <1>7, <1>8, <1>9, <1>10, <1>11 DEF k

LEMMA BeginShape ==
  ASSUME ExternalAgentsAssumption, Shape, NEW c \in Caller,
         NEW op \in Admitted \cup Beating \cup Operating, NEW a \in Agent,
         NEW e \in Episode \cup {"none"}, Begin(c, op, a, e)
  PROVE  Shape'
<1>1. /\ c \in Anyone /\ ~InProgress(c)
      /\ call' \in [Anyone -> CallType \cup [pc : {"idle", "go"}]]
      /\ \A d \in Anyone : d # c => call'[d] = call[d]
      /\ call'[c].op = op /\ call'[c].on = e
      /\ Placed(call'[c]) /\ Aimed(call'[c]) /\ call'[c].pc \in {"rate", "name", "read"}
  BY BeginFacts DEF Admitted, Beating, Operating
<1>2. op = "start" => Unused(e) /\ e \in Live
  BY BeginFacts
<1>3. UNCHANGED <<enrollment, denials, episodes, money, pausedAt, lost, now, faults>>
  BY DEF Begin
<1>4. /\ made \in 0..MaxEvents /\ MaxEvents \in Nat /\ faults <= made /\ faults \in 0..MaxEvents
  BY Sizes DEF Shape, TypeOK
<1>5. made' \in 0..MaxEvents /\ faults' <= made'
  BY <1>3, <1>4 DEF Begin, OneMore
<1>6. TypeOK'
  BY <1>1, <1>3, <1>5 DEF Anyone, Shape, TypeOK, enrollment, episodes, money
<1>7. CallsFit'
  <2>1. Sweeper # c /\ Sweeper \in Anyone /\ \A d \in Caller : d \in Anyone
    BY Sizes DEF Anyone
  <2> QED
    BY <1>1, <2>1 DEF CallsFit, Shape, InProgress, At
<1>8. EndedFirst'
  <2>1. ~Ending(call'[c])
    BY <1>1 DEF Ending
  <2> QED
    BY <1>1, <1>3, <2>1, EndedFirstKept DEF episodes
<1>9. ASSUME NEW d \in Caller, Starting(d)'
      PROVE  /\ live'[call'[d].on].status = "none"
                  \/ (At(d, "abandon")' /\ call'[d].on \in lost')
             /\ At(d, "create")' => record'[call'[d].on] = "running"
             /\ \A f \in Caller \ {d} : Starting(f)' => call'[f].on # call'[d].on
  <2>1. d \in Anyone /\ \A f \in Caller : f \in Anyone
    BY DEF Anyone
  <2>2. ASSUME NEW f \in Caller, f # c, Starting(f)'
        PROVE  Starting(f) /\ call'[f] = call[f] /\ (op = "start" => call[f].on # e)
    BY <1>1, <1>2, <2>1, <2>2 DEF Starting, InProgress, At, Unused
  <2>3. CASE d = c
    <3>1. op = "start" /\ call'[c].on = e /\ call'[c].pc # "create"
      BY <1>1, <1>9, <2>3 DEF Starting
    <3>2. live'[e].status = "none"
      BY <1>2, <1>3, <3>1 DEF Unused, episodes
    <3> QED
      BY <2>2, <2>3, <3>1, <3>2 DEF At
  <2>4. CASE d # c
    <3>1. Starting(d) /\ call'[d] = call[d] /\ (op = "start" => call[d].on # e)
      BY <1>9, <2>2, <2>4
    <3>2. /\ live[call[d].on].status = "none" \/ (At(d, "abandon") /\ call[d].on \in lost)
          /\ At(d, "create") => record[call[d].on] = "running"
      BY <3>1 DEF Shape, StartsAlone
    <3>3. \A f \in Caller \ {d} : Starting(f)' => call'[f].on # call'[d].on
      <4> SUFFICES ASSUME NEW f \in Caller, f # d, Starting(f)'
                   PROVE  call'[f].on # call'[d].on
        OBVIOUS
      <4>1. CASE f = c
        BY <1>1, <3>1, <4>1 DEF Starting
      <4>2. CASE f # c
        BY <2>2, <3>1, <4>2 DEF Shape, StartsAlone
      <4> QED
        BY <4>1, <4>2
    <3> QED
      BY <1>3, <3>1, <3>2, <3>3 DEF At, episodes
  <2> QED
    BY <2>3, <2>4
<1> QED
  BY <1>5, <1>6, <1>7, <1>8, <1>9 DEF Shape, StartsAlone

LEMMA ShapeStarts ==
  ASSUME ExternalAgentsAssumption, Init
  PROVE  Shape
<1>1. Idle \in [pc : {"idle", "go"}] /\ Idle.pc = "idle"
  BY DEF Idle
<1>2. call \in [Anyone -> CallType \cup [pc : {"idle", "go"}]]
  BY <1>1 DEF Init, Anyone
<1>3. \A c \in Anyone : ~InProgress(c)
  BY <1>1 DEF Init, Anyone, InProgress, At
<1>4. seats \in 0..SeatCap
  BY Sizes, FS_CardinalityType DEF Init
<1>5. live \in [Live -> Stage]
  BY DEF Init, Stage
<1>6. /\ denials \in [Agent -> [0..MaxTime -> Nat]]
      /\ now \in 0..MaxTime /\ made \in 0..MaxEvents /\ faults \in 0..MaxEvents
      /\ faults <= made
  BY Sizes DEF Init
<1>7. TypeOK
  BY <1>2, <1>4, <1>5, <1>6 DEF Init, TypeOK, Anyone, Stage
<1>8. Sweeper \in Anyone /\ \A c \in Caller : c \in Anyone
  BY DEF Anyone
<1> QED
  BY <1>3, <1>6, <1>7, <1>8 DEF Shape, CallsFit, EndedFirst, StartsAlone, Starting

LEMMA ShapeStep ==
  ASSUME ExternalAgentsAssumption, Shape, [Next]_vars
  PROVE  Shape'
<1>1. CASE UNCHANGED vars
  BY <1>1, StutterShape
<1>2. ASSUME NEW c \in Caller, NEW op \in Admitted \cup Beating \cup Operating, NEW a \in Agent,
             NEW e \in Episode \cup {"none"}, Begin(c, op, a, e)
      PROVE  Shape'
  BY <1>2, BeginShape
<1>3. ASSUME NEW c \in Caller, Admission(c)
      PROVE  Shape'
  BY <1>3, RateShape, ReadAgentShape, AskPauseShape, JudgeShape, DenyShape,
     ContainForDenialsShape, ClearDenialsShape DEF Admission
<1>4. ASSUME NEW c \in Caller, Episodes(c)
      PROVE  Shape'
  BY <1>4, BeginRunShape, OpenRunShape, CreateRunShape, AbandonShape, ReadRunShape, BeatShape,
     StopRunShape, ChargeShape, ReplayShape, FinishRunShape, ClaimShape, RecordCostShape
     DEF Episodes
<1>5. ASSUME NEW c \in Caller, CloseRun(c)
      PROVE  Shape'
  BY <1>5, CloseRunShape
<1>6. ASSUME NEW c \in Caller, Command(c)
      PROVE  Shape'
  BY <1>6, ReadStatusShape, PermitShape, ContainShape, ReleaseShape, RevokeShape, RereadShape,
     CheckNameShape, ClaimSeatShape, EnrollShape, UnseatShape DEF Command
<1>7. CASE Sweep
  BY <1>7, ListStaleShape, SweepCloseShape, ReclaimRunShape DEF Sweep
<1>8. CASE Pause \/ Tick
  BY <1>8, PauseTickShape
<1>9. CASE Failure
  BY <1>9, LostShape, PauseUnreadableShape, CreateFailsShape, EnrollFailsShape DEF Failure, Anyone
<1> QED
  BY <1>1, <1>2, <1>3, <1>4, <1>5, <1>6, <1>7, <1>8, <1>9 DEF Next

\* Every call is at a place its kind may be, about an agent and an episode its kind may be
\* about; whoever closes the books of a live run ended it; a live run is started by one call
\* and is not there before it is created (api/external.ts, external/runs.ts).
THEOREM ShapeAlways == Spec => []Shape
<1>1. Init => Shape
  BY ExternalAgentsAssumption, ShapeStarts
<1>2. Shape /\ [Next]_vars => Shape'
  BY ExternalAgentsAssumption, ShapeStep
<1> QED
  BY <1>1, <1>2, PTL DEF Spec

\* Every reachable state is of its type: in particular no more seats are claimed than there
\* are, and a live run has one of its statuses whoever raced to end it.
THEOREM TypeCorrect == Spec => []TypeOK
<1>1. Shape => TypeOK
  BY DEF Shape
<1> QED
  BY <1>1, ShapeAlways, PTL

-----------------------------------------------------------------------------
(* What the steps that change more of a call than its place make of it. *)

Seen == {"none", "active", "contained", "revoked", "stopped"}

LEMMA CallTypeIs ==
  CallType = [op : Admitted \cup Beating \cup Operating \cup {"sweep"}, pc : Places,
              who : Agent \cup {"none"}, on : Episode \cup {"none"}, at : Nat, seen : Seen,
              cost : 0..Total, left : 0..Total, todo : SUBSET Live, chance : BOOLEAN]
BY DEF CallType, Places, Seen

LEMMA Redated ==
  ASSUME Shape, NEW c \in Caller, InProgress(c), NEW p \in Places,
         call' = [call EXCEPT ![c].pc = p, ![c].at = now]
  PROVE  /\ Further(c, p) /\ call'[c].at = now /\ call'[c].chance = call[c].chance
         /\ call'[c].seen = call[c].seen /\ call'[c].cost = call[c].cost
         /\ call'[c].left = call[c].left
<1> DEFINE k == [call[c] EXCEPT !.pc = p, !.at = now]
<1>1. call[c] \in CallType /\ c \in Anyone
  BY FitHere DEF Anyone
<1>2. Turns(c, k)
  BY DEF Turns
<1>3. now \in Nat
  BY DEF Shape, TypeOK
<1>4. /\ k.pc = p /\ k.op = call[c].op /\ k.who = call[c].who /\ k.on = call[c].on
      /\ k.at = now /\ k.chance = call[c].chance /\ k.seen = call[c].seen
      /\ k.cost = call[c].cost /\ k.left = call[c].left
  BY <1>1 DEF CallType
<1>5. k \in CallType
  BY <1>1, <1>3, CallTypeIs
<1> HIDE DEF k
<1> QED
  BY <1>1, <1>2, <1>4, <1>5, TurnsFurther DEF Shape

Informs(c, p, s) == call' = [call EXCEPT ![c].pc = p, ![c].seen = s]

LEMMA Informed ==
  ASSUME Shape, NEW c \in Caller, InProgress(c), NEW p \in Places,
         NEW s \in Seen, Informs(c, p, s)
  PROVE  /\ Further(c, p) /\ call'[c].seen = s /\ call'[c].at = call[c].at
         /\ call'[c].chance = call[c].chance /\ call'[c].cost = call[c].cost
         /\ call'[c].left = call[c].left
<1> DEFINE k == [call[c] EXCEPT !.pc = p, !.seen = s]
<1>1. call[c] \in CallType /\ c \in Anyone
  BY FitHere DEF Anyone
<1>2. Turns(c, k)
  BY DEF Turns, Informs
<1>4. /\ k.pc = p /\ k.op = call[c].op /\ k.who = call[c].who /\ k.on = call[c].on
      /\ k.at = call[c].at /\ k.chance = call[c].chance /\ k.seen = s
      /\ k.cost = call[c].cost /\ k.left = call[c].left
  BY <1>1 DEF CallType
<1>5. k \in CallType
  BY <1>1, CallTypeIs
<1> HIDE DEF k
<1> QED
  BY <1>1, <1>2, <1>4, <1>5, TurnsFurther DEF Shape

LEMMA Priced ==
  ASSUME Shape, NEW c \in Caller, InProgress(c), NEW p \in Places, NEW x \in 0..Total,
         call' = [call EXCEPT ![c].pc = p, ![c].cost = x, ![c].left = x]
  PROVE  /\ Further(c, p) /\ call'[c].cost = x /\ call'[c].left = x
         /\ call'[c].seen = call[c].seen /\ call'[c].at = call[c].at
         /\ call'[c].chance = call[c].chance
<1> DEFINE k == [call[c] EXCEPT !.pc = p, !.cost = x, !.left = x]
<1>1. call[c] \in CallType /\ c \in Anyone
  BY FitHere DEF Anyone
<1>2. Turns(c, k)
  BY DEF Turns
<1>4. /\ k.pc = p /\ k.op = call[c].op /\ k.who = call[c].who /\ k.on = call[c].on
      /\ k.at = call[c].at /\ k.chance = call[c].chance /\ k.seen = call[c].seen
      /\ k.cost = x /\ k.left = x
  BY <1>1 DEF CallType
<1>5. k \in CallType
  BY <1>1, CallTypeIs
<1> HIDE DEF k
<1> QED
  BY <1>1, <1>2, <1>4, <1>5, TurnsFurther DEF Shape

LEMMA RecordedPart ==
  ASSUME ExternalAgentsAssumption, Shape, NEW c \in Caller, NEW part \in 1..Total,
         RecordCost(c, part)
  PROVE  \E p \in {"cost", "charge"} :
           /\ Further(c, p) /\ (p = "charge" <=> part = call[c].left)
           /\ call'[c].cost = call[c].cost /\ call'[c].left = call[c].left - part
           /\ call'[c].seen = call[c].seen /\ call'[c].at = call[c].at
           /\ call'[c].chance = call[c].chance
           /\ call[c].left \in 0..Total /\ part <= call[c].left
<1> DEFINE p == IF part = call[c].left THEN "charge" ELSE "cost"
           k == [call[c] EXCEPT !.left = call[c].left - part, !.pc = p]
<1>1. InProgress(c) /\ c \in Anyone
  BY AtIsInProgress DEF RecordCost, Places, Anyone
<1>2. call[c] \in CallType
  BY <1>1, FitHere
<1>3. Turns(c, k)
  BY DEF RecordCost, Turns
<1>4. p \in {"charge", "cost"} /\ p \in Places /\ (p = "charge" <=> part = call[c].left)
  BY DEF Places
<1>5. call[c].left \in 0..Total /\ call[c].left - part \in 0..Total /\ part <= call[c].left
  <2>1. call[c].left \in 0..Total
    BY <1>2 DEF CallType
  <2> QED
    BY <2>1, Sizes DEF RecordCost
<1> HIDE DEF p
<1>6. /\ k.pc = p /\ k.op = call[c].op /\ k.who = call[c].who /\ k.on = call[c].on
      /\ k.at = call[c].at /\ k.chance = call[c].chance /\ k.seen = call[c].seen
      /\ k.cost = call[c].cost /\ k.left = call[c].left - part
  BY <1>2 DEF CallType
<1>7. k \in CallType
  BY <1>2, <1>4, <1>5, CallTypeIs
<1> HIDE DEF k
<1>8. Further(c, p) /\ call'[c] = k
  BY <1>1, <1>3, <1>6, <1>7, TurnsFurther DEF Shape
<1> QED
  BY <1>4, <1>5, <1>6, <1>8

-----------------------------------------------------------------------------
(* What a call was told before it is told to go on. *)

\* A call that got past the reading of the enrollment found its agent active and not
\* expired, so the agent has had its chance;
Passed == {"pause", "judge", "begin", "ask", "open", "create", "claim", "replay", "cost",
           "charge", "close"}

Heard(k) ==
  \/ k.op \in Admitted /\ k.pc \in Passed
  \/ k.op = "beat" /\ (k.pc = "beat" \/ (k.pc = "pause" /\ k.seen # "stopped"))

\* and one that got past the pause asked before any pause came in sight.
Unpaused(k) ==
  \/ k.op \in {"screen", "start"} /\ k.pc \in {"judge", "begin", "open", "create"}
  \/ k.op = "beat" /\ k.pc = "beat"

AskedWell(k) ==
  /\ k.at <= now
  /\ k.op # "enroll" => status[k.who] # "none" /\ (status[k.who] = "active" => k.chance)
  /\ Heard(k) => k.chance /\ k.at <= Expires[k.who]
  /\ Unpaused(k) => ~PauseIsSeen(k.at)

Asked == \A c \in Caller : InProgress(c) => AskedWell(call[c])

\* What kinds of call are at each place.
LEMMA OpsAt ==
  ASSUME Shape, NEW c \in Caller, InProgress(c)
  PROVE  /\ call[c].op \in Admitted \cup Beating \cup Operating /\ call[c].who \in Agent
         /\ At(c, "rate") => call[c].op \in {"screen", "start", "report", "beat", "finish"}
         /\ At(c, "agent") => call[c].op \in {"screen", "start", "report", "beat"}
         /\ At(c, "pause") => call[c].op \in {"screen", "start", "beat"}
         /\ At(c, "judge") \/ At(c, "deny") \/ At(c, "contain")
              => call[c].op \in {"screen", "start", "report"}
         /\ At(c, "clear") => call[c].op \in {"screen", "start", "report", "release"}
         /\ At(c, "begin") \/ At(c, "ask") \/ At(c, "create") \/ At(c, "abandon")
              => call[c].op = "start"
         /\ At(c, "open") => call[c].op \in {"start", "report"}
         /\ At(c, "run") => call[c].op \in {"beat", "finish"}
         /\ At(c, "beat") \/ At(c, "stop") => call[c].op = "beat"
         /\ At(c, "end") => call[c].op = "finish"
         /\ At(c, "close") => call[c].op \in {"report", "beat", "finish"}
         /\ At(c, "cost") \/ At(c, "charge") => call[c].op \in {"report", "finish"}
         /\ At(c, "claim") \/ At(c, "replay") => call[c].op = "report"
         /\ At(c, "read") \/ At(c, "set") => call[c].op \in {"contain", "release", "revoke"}
         /\ At(c, "permit") => call[c].op \in {"enroll", "contain", "release", "revoke"}
         /\ At(c, "reread") \/ At(c, "again") => call[c].op = "revoke"
         /\ At(c, "name") \/ At(c, "seat") \/ At(c, "enroll") => call[c].op = "enroll"
         /\ At(c, "unseat") => call[c].op \in {"enroll", "revoke"}
<1>1. Placed(call[c]) /\ Aimed(call[c])
  BY FitHere
<1> DEFINE k == call[c]
<1>2. k.op \in {"screen", "start", "report", "beat", "finish", "enroll", "contain", "release",
                "revoke"}
  BY <1>1 DEF Aimed, Admitted, Beating, Operating
<1>3. Placed(k) /\ Aimed(k)
  BY <1>1
<1>4. \A p : At(c, p) <=> k.pc = p
  BY DEF At
<1> HIDE DEF k
<1>5. /\ k.pc = "rate" => k.op \in {"screen", "start", "report", "beat", "finish"}
      /\ k.pc = "agent" => k.op \in {"screen", "start", "report", "beat"}
      /\ k.pc = "pause" => k.op \in {"screen", "start", "beat"}
      /\ k.pc \in {"judge", "deny", "contain"} => k.op \in {"screen", "start", "report"}
      /\ k.pc = "clear" => k.op \in {"screen", "start", "report", "release"}
      /\ k.pc \in {"begin", "ask", "create", "abandon"} => k.op = "start"
      /\ k.pc = "open" => k.op \in {"start", "report"}
      /\ k.pc = "run" => k.op \in {"beat", "finish"}
      /\ k.pc \in {"beat", "stop"} => k.op = "beat"
      /\ k.pc = "end" => k.op = "finish"
      /\ k.pc = "close" => k.op \in {"report", "beat", "finish"}
      /\ k.pc \in {"cost", "charge"} => k.op \in {"report", "finish"}
      /\ k.pc \in {"claim", "replay"} => k.op = "report"
      /\ k.pc \in {"read", "set"} => k.op \in {"contain", "release", "revoke"}
      /\ k.pc = "permit" => k.op \in {"enroll", "contain", "release", "revoke"}
      /\ k.pc \in {"reread", "again"} => k.op = "revoke"
      /\ k.pc \in {"name", "seat", "enroll"} => k.op = "enroll"
      /\ k.pc = "unseat" => k.op \in {"enroll", "revoke"}
  BY <1>2, <1>3 DEF Placed, Admitting
<1> QED
  BY <1>3, <1>4, <1>5 DEF Aimed, k

\* Nobody is set free, and nobody's enrollment goes.
Calm ==
  \A x \in Agent :
    \/ status'[x] = status[x]
    \/ status[x] = "none" /\ status'[x] # "none"
    \/ status'[x] \in {"contained", "revoked"}

LEMMA AskedByOthers ==
  ASSUME Shape, Asked, NEW d \in Caller, InProgress(d), call'[d] = call[d],
         Calm, UNCHANGED <<now, pausedAt>>
  PROVE  AskedWell(call[d])'
<1>1. AskedWell(call[d]) /\ call[d].who \in Agent
  BY OpsAt DEF Asked
<1>2. call[d].op # "enroll" =>
        status'[call[d].who] # "none" /\ (status'[call[d].who] = "active" => call[d].chance)
  BY <1>1 DEF Calm, AskedWell
<1> QED
  BY <1>1, <1>2 DEF AskedWell, PauseIsSeen

\* Only a call that heard goes on, and only one that asked before the pause, but for a report.
GoesRight(c) ==
  InProgress(c) /\ At(c, "go")' =>
    /\ call[c].chance
    /\ call[c].at <= Expires[call[c].who]
    /\ PauseIsSeen(call[c].at) => call[c].op = "report"

Right == Asked' /\ \A c \in Caller : GoesRight(c)

LEMMA CalmKept ==
  ASSUME status' = status
  PROVE  Calm
BY DEF Calm

\* The call goes on.
LEMMA RightFurther ==
  ASSUME Shape, Asked, NEW c \in Caller, InProgress(c), NEW p \in Places, Further(c, p),
         Calm, UNCHANGED <<now, pausedAt>>, call'[c].at <= now, call'[c].chance = call[c].chance,
         Heard(call'[c]) => call[c].chance /\ call'[c].at <= Expires[call[c].who],
         Unpaused(call'[c]) => ~PauseIsSeen(call'[c].at)
  PROVE  Right
<1>1. \A d \in Caller : d # c => call'[d] = call[d]
  BY DEF Further, Anyone
<1>2. call'[c].pc = p /\ p # "go" /\ call'[c].op = call[c].op /\ call'[c].who = call[c].who
  BY DEF Further, Places
<1>3. \A d \in Caller : GoesRight(d)
  BY <1>1, <1>2 DEF GoesRight, InProgress, At
<1>4. ASSUME NEW d \in Caller, InProgress(d)'
      PROVE  AskedWell(call[d])'
  <2>1. CASE d # c
    <3>1. call'[d] = call[d] /\ InProgress(d)
      BY <1>1, <1>4, <2>1 DEF InProgress, At
    <3> QED
      BY <3>1, AskedByOthers
  <2>2. CASE d = c
    <3>1. AskedWell(call[c]) /\ call[c].who \in Agent
      BY OpsAt DEF Asked
    <3>2. call[c].op # "enroll" =>
            status'[call[c].who] # "none" /\ (status'[call[c].who] = "active" => call[c].chance)
      BY <3>1 DEF Calm, AskedWell
    <3>3. call[c].op # "enroll" =>
            status'[call'[c].who] # "none" /\ (status'[call'[c].who] = "active" => call'[c].chance)
      BY <1>2, <3>2
    <3>4. Heard(call'[c]) => call'[c].chance /\ call'[c].at <= Expires[call'[c].who]
      BY <1>2
    <3>5. Unpaused(call'[c]) => ~(pausedAt' >= 0 /\ pausedAt' + Ttl <= call'[c].at)
      BY DEF PauseIsSeen
    <3>6. call'[c].at <= now' /\ (call'[c].op # "enroll" => call[c].op # "enroll")
      BY <1>2
    <3> HIDE DEF Heard
    <3> QED
      BY <2>2, <3>3, <3>4, <3>5, <3>6 DEF AskedWell, PauseIsSeen
  <2> QED
    BY <2>1, <2>2
<1> QED
  BY <1>3, <1>4 DEF Right, Asked

LEMMA RightTo ==
  ASSUME Shape, Asked, NEW c \in Caller, InProgress(c), NEW p \in Places, To(c, p),
         Calm, UNCHANGED <<now, pausedAt>>,
         Heard([op |-> call[c].op, pc |-> p, seen |-> call[c].seen])
           => call[c].chance /\ call[c].at <= Expires[call[c].who],
         Unpaused([op |-> call[c].op, pc |-> p]) => ~PauseIsSeen(call[c].at)
  PROVE  Right
<1>1. Further(c, p) /\ Same(call'[c], call[c])
  BY ToFurther DEF Shape, Anyone
<1>2. call[c].at <= now
  BY DEF Asked, AskedWell
<1>3. Heard(call'[c]) => Heard([op |-> call[c].op, pc |-> p, seen |-> call[c].seen])
  BY <1>1 DEF Heard, Further, Same
<1>4. Unpaused(call'[c]) => Unpaused([op |-> call[c].op, pc |-> p])
  BY <1>1 DEF Unpaused, Further
<1> QED
  BY <1>1, <1>2, <1>3, <1>4, RightFurther DEF Same

\* The call is over.
LEMMA RightLeaves ==
  ASSUME Shape, Asked, NEW c \in Anyone, Leaves(c), Calm, UNCHANGED <<now, pausedAt>>,
         c \in Caller => GoesRight(c)
  PROVE  Right
<1>1. \A d \in Caller : d # c => call'[d] = call[d]
  BY DEF Leaves, Anyone
<1>2. \A d \in Caller : GoesRight(d)
  BY <1>1 DEF GoesRight, InProgress, At
<1>3. ASSUME NEW d \in Caller, InProgress(d)'
      PROVE  AskedWell(call[d])'
  <2>1. d # c /\ call'[d] = call[d] /\ InProgress(d)
    BY <1>1, <1>3 DEF Leaves, InProgress, At
  <2> QED
    BY <2>1, AskedByOthers
<1> QED
  BY <1>2, <1>3 DEF Right, Asked

LEMMA RightEnd ==
  ASSUME Shape, Asked, NEW c \in Caller, End(c), Calm, UNCHANGED <<now, pausedAt>>
  PROVE  Right
<1>1. Leaves(c) /\ call'[c].pc = "idle" /\ c \in Anyone
  BY OverLeaves DEF Shape, Anyone
<1> QED
  BY <1>1, RightLeaves DEF GoesRight, At

LEMMA RightGo ==
  ASSUME Shape, Asked, NEW c \in Caller, InProgress(c), Go(c), Calm, UNCHANGED <<now, pausedAt>>,
         Heard(call[c]), call[c].op = "report" \/ Unpaused(call[c])
  PROVE  Right
<1>1. Leaves(c) /\ c \in Anyone
  BY OverLeaves DEF Shape, Anyone
<1>2. GoesRight(c)
  BY DEF GoesRight, Asked, AskedWell
<1> QED
  BY <1>1, <1>2, RightLeaves

\* What a call in progress has been told.
LEMMA Told ==
  ASSUME Asked, NEW c \in Caller, InProgress(c)
  PROVE  /\ call[c].at <= now
         /\ call[c].op # "enroll" /\ status[call[c].who] = "active" => call[c].chance
         /\ Heard(call[c]) => call[c].chance /\ call[c].at <= Expires[call[c].who]
         /\ Unpaused(call[c]) => ~PauseIsSeen(call[c].at)
BY DEF Asked, AskedWell

LEMMA RateRight ==
  ASSUME Shape, Asked, NEW c \in Caller, Rate(c)
  PROVE  Right
<1>1. InProgress(c) /\ Calm /\ UNCHANGED <<now, pausedAt>> /\ At(c, "rate")
  BY AtIsInProgress, CalmKept DEF Rate, Places, enrollment
<1>2. CASE To(c, "agent") \/ To(c, "deny")
  BY <1>1, <1>2, RightTo DEF Places, Heard, Unpaused, Passed
<1>3. CASE call[c].op \in Beating /\ call' = [call EXCEPT ![c].pc = "run", ![c].at = now]
  <2>1. /\ Further(c, "run") /\ call'[c].at = now /\ call'[c].chance = call[c].chance
    BY <1>1, <1>3, Redated DEF Places
  <2>2. ~Heard(call'[c]) /\ ~Unpaused(call'[c])
    BY <2>1 DEF Heard, Unpaused, Further, Passed
  <2>3. now \in Nat
    BY DEF Shape, TypeOK
  <2> QED
    BY <1>1, <2>1, <2>2, <2>3, RightFurther DEF Places
<1>4. CASE End(c)
  BY <1>1, <1>4, RightEnd
<1> QED
  BY <1>2, <1>3, <1>4 DEF Rate

LEMMA ReadAgentRight ==
  ASSUME ExternalAgentsAssumption, Shape, Asked, NEW c \in Caller, ReadAgent(c)
  PROVE  Right
<1>1. InProgress(c) /\ Calm /\ UNCHANGED <<now, pausedAt>> /\ At(c, "agent")
  BY AtIsInProgress, CalmKept DEF ReadAgent, Places, enrollment
<1>2. /\ call[c].op \in {"screen", "start", "report", "beat"} /\ call[c].who \in Agent
      /\ call[c].at \in Nat /\ Expires[call[c].who] \in Nat
  BY <1>1, OpsAt, FitHere, Sizes DEF CallType
<1>3. call[c].at <= now /\ (status[call[c].who] = "active" => call[c].chance)
  BY <1>1, <1>2, Told
<1>4. CASE call[c].op = "beat"
  <2>1. PICK s \in Seen : /\ call' = [call EXCEPT ![c].pc = "pause", ![c].seen = s]
                          /\ s = "stopped" \/ ~Stopped(call[c].who, call[c].at)
    BY <1>4 DEF ReadAgent, Seen
  <2>2. s # "stopped" => call[c].chance /\ call[c].at <= Expires[call[c].who]
    BY <1>2, <1>3, <2>1 DEF Stopped
  <2>3. "pause" \in Places
    BY DEF Places
  <2>4. /\ Further(c, "pause") /\ call'[c].seen = s /\ call'[c].at = call[c].at
        /\ call'[c].chance = call[c].chance
    <3>1. InProgress(c) /\ Informs(c, "pause", s)
      BY <1>1, <2>1 DEF Informs
    <3> QED
      BY <3>1, <2>1, <2>3, Informed
  <2>5. Heard(call'[c]) => s # "stopped"
    BY <1>4, <2>4 DEF Heard, Further, Admitted
  <2>6. ~Unpaused(call'[c])
    BY <1>4, <2>4 DEF Unpaused, Further
  <2> QED
    BY <1>1, <1>3, <2>2, <2>4, <2>5, <2>6, RightFurther DEF Places
<1>5. CASE call[c].op # "beat"
  <2>1. CASE To(c, "deny")
    BY <1>1, <2>1, RightTo DEF Places, Heard, Unpaused, Passed
  <2>2. CASE /\ ~Refused(call[c].who, call[c].at)
             /\ (To(c, "judge") /\ call[c].op = "report") \/ To(c, "pause")
    <3>1. call[c].chance /\ call[c].at <= Expires[call[c].who]
      BY <1>2, <1>3, <2>2 DEF Refused
    <3> QED
      BY <1>1, <1>5, <2>2, <3>1, RightTo DEF Places, Unpaused
  <2> QED
    BY <1>5, <2>1, <2>2 DEF ReadAgent
<1> QED
  BY <1>4, <1>5

LEMMA AskPauseRight ==
  ASSUME ExternalAgentsAssumption, Shape, Asked, NEW c \in Caller, AskPause(c)
  PROVE  Right
<1>1. /\ InProgress(c) /\ Calm /\ UNCHANGED <<now, pausedAt>>
      /\ At(c, "pause") \/ At(c, "ask")
  BY AtIsInProgress, CalmKept DEF AskPause, Places, enrollment
<1>2. /\ call[c].op \in {"screen", "start", "beat"} /\ (At(c, "ask") => call[c].op = "start")
      /\ call[c].at \in Nat
  BY <1>1, OpsAt, FitHere DEF CallType
<1>3. /\ call[c].at <= now
      /\ Heard(call[c]) => call[c].chance /\ call[c].at <= Expires[call[c].who]
  BY <1>1, Told
<1>4. PICK paused \in PauseReads :
        CASE call[c].op = "beat" ->
               To(c, IF paused \/ call[c].seen = "stopped" THEN "stop" ELSE "beat")
          [] call[c].op # "beat" /\ paused -> End(c)
          [] OTHER -> To(c, IF At(c, "ask") THEN "open" ELSE "judge")
  BY DEF AskPause
<1>5. ~paused => ~PauseIsSeen(call[c].at)
  <2>1. pausedAt \in Nat \cup {-1} /\ now \in Nat /\ Ttl \in Nat
    BY Sizes DEF Shape, TypeOK
  <2>2. ~paused => ~PauseIsSeen(now)
    BY DEF PauseReads
  <2> QED
    BY <1>2, <1>3, <2>1, <2>2 DEF PauseIsSeen
<1>6. CASE call[c].op = "beat"
  <2>1. CASE To(c, "stop")
    BY <1>1, <1>6, <2>1, RightTo DEF Places, Heard, Unpaused, Admitted
  <2>2. CASE ~paused /\ call[c].seen # "stopped" /\ To(c, "beat")
    <3>1. Heard(call[c])
      BY <1>1, <1>2, <1>6 , <2>2 DEF Heard, At
    <3> QED
      BY <1>1, <1>3, <1>5, <2>2, <3>1, RightTo DEF Places
  <2> QED
    BY <1>4, <1>6, <2>1, <2>2
<1>7. CASE call[c].op # "beat"
  <2>1. CASE End(c)
    BY <1>1, <2>1, RightEnd
  <2>2. CASE ~paused /\ (To(c, "open") \/ To(c, "judge"))
    <3>1. Heard(call[c])
      BY <1>1, <1>2, <1>7 DEF Heard, At, Passed, Admitted
    <3> QED
      BY <1>1, <1>3, <1>5, <2>2, <3>1, RightTo DEF Places
  <2> QED
    BY <1>4, <1>7, <2>1, <2>2
<1> QED
  BY <1>6, <1>7

LEMMA JudgeRight ==
  ASSUME Shape, Asked, NEW c \in Caller, Judge(c)
  PROVE  Right
<1>1. InProgress(c) /\ Calm /\ UNCHANGED <<now, pausedAt>> /\ At(c, "judge")
  BY AtIsInProgress, CalmKept DEF Judge, Places, enrollment
<1>2. call[c].op \in {"screen", "start", "report"}
  BY <1>1, OpsAt
<1>3. Heard(call[c]) /\ (call[c].op # "report" => Unpaused(call[c]))
  BY <1>1, <1>2 DEF Heard, Unpaused, At, Admitted, Passed
<1>4. \/ To(c, "deny") \/ End(c) \/ (Go(c) /\ call[c].op = "screen")
      \/ To(c, "begin") /\ call[c].op = "start"
      \/ To(c, "claim") /\ call[c].op = "report"
  BY <1>2 DEF Judge
<1>5. CASE To(c, "deny")
  BY <1>1, <1>5, RightTo DEF Places, Heard, Unpaused, Passed
<1>6. CASE End(c)
  BY <1>1, <1>6, RightEnd
<1>7. CASE Go(c) /\ call[c].op = "screen"
  BY <1>1, <1>3, <1>7, RightGo
<1>8. CASE To(c, "begin") /\ call[c].op = "start"
  BY <1>1, <1>3, <1>8, Told, RightTo DEF Places
<1>9. CASE To(c, "claim") /\ call[c].op = "report"
  BY <1>1, <1>3, <1>9, Told, RightTo DEF Places, Unpaused
<1> QED
  BY <1>4, <1>5, <1>6, <1>7, <1>8, <1>9

\* Steps of a denial, of a command, and those that end: nobody is heard there.
LEMMA RightUnheard ==
  ASSUME Shape, Asked, NEW c \in Caller, InProgress(c), Calm, UNCHANGED <<now, pausedAt>>,
         End(c) \/ \E p \in Places : To(c, p) /\ (p \in Passed \cup {"beat"} => call[c].op \notin Admitted \cup {"beat"})
  PROVE  Right
<1>1. CASE End(c)
  BY <1>1, RightEnd
<1>2. CASE \E p \in Places : To(c, p) /\ (p \in Passed \cup {"beat"} => call[c].op \notin Admitted \cup {"beat"})
  <2>1. PICK p \in Places : To(c, p) /\ (p \in Passed \cup {"beat"} => call[c].op \notin Admitted \cup {"beat"})
    BY <1>2
  <2> DEFINE k == [op |-> call[c].op, pc |-> p, seen |-> call[c].seen]
  <2>2. k.op = call[c].op /\ k.pc = p
    OBVIOUS
  <2>3. ~Heard(k)
    BY <2>1, <2>2 DEF Heard, Passed
  <2> DEFINE l == [op |-> call[c].op, pc |-> p]
  <2>4. l.op = call[c].op /\ l.pc = p
    OBVIOUS
  <2>5. ~Unpaused(l)
    BY <2>1, <2>4 DEF Unpaused, Passed, Admitted
  <2> QED
    BY <2>1, <2>3, <2>5, RightTo
<1> QED
  BY <1>1, <1>2

LEMMA DenyRight ==
  ASSUME Shape, Asked, NEW c \in Caller, Deny(c) \/ ClearDenials(c)
  PROVE  Right
<1>1. /\ InProgress(c) /\ Calm /\ UNCHANGED <<now, pausedAt>>
  BY AtIsInProgress, CalmKept DEF Deny, ClearDenials, Places, enrollment
<1>2. End(c) \/ To(c, "contain") \/ To(c, "set")
  BY DEF Deny, ClearDenials
<1> QED
  BY <1>1, <1>2, RightUnheard DEF Places, Passed

LEMMA CalmMoves ==
  ASSUME Shape, NEW x \in Agent, NEW from, NEW to \in Statuses, Moves(x, from, to),
         (from = "none" /\ to # "none") \/ to \in {"contained", "revoked"}
  PROVE  Calm
BY MovesFacts DEF Calm

LEMMA ContainForDenialsRight ==
  ASSUME Shape, Asked, NEW c \in Caller, ContainForDenials(c)
  PROVE  Right
<1>1. InProgress(c) /\ UNCHANGED <<now, pausedAt>> /\ call[c].who \in Agent
  BY AtIsInProgress, OpsAt DEF ContainForDenials, Places
<1>2. Calm
  BY <1>1, CalmMoves, CalmKept DEF ContainForDenials, Statuses
<1>3. End(c) \/ To(c, "clear")
  BY DEF ContainForDenials
<1> QED
  BY <1>1, <1>2, <1>3, RightUnheard DEF Places, Passed

LEMMA BeginRunRight ==
  ASSUME ExternalAgentsAssumption, Shape, Asked, NEW c \in Caller, BeginRun(c)
  PROVE  Right
<1>1. InProgress(c) /\ Calm /\ UNCHANGED <<now, pausedAt>> /\ At(c, "begin")
  BY AtIsInProgress, CalmKept DEF BeginRun, Places, enrollment
<1>2. call[c].op = "start" /\ call[c].who \in Agent /\ now \in Nat /\ Expires[call[c].who] \in Nat
  <2>1. now \in Nat
    BY DEF Shape, TypeOK
  <2> QED
    BY <1>1, <2>1, OpsAt, Sizes
<1>3. CASE End(c)
  BY <1>1, <1>3, RightEnd
<1>4. CASE ~Stopped(call[c].who, now) /\ call' = [call EXCEPT ![c].pc = "ask", ![c].at = now]
  <2>1. Further(c, "ask") /\ call'[c].at = now /\ call'[c].chance = call[c].chance
    <3>1. "ask" \in Places
      BY DEF Places
    <3> QED
      BY <1>1, <1>4, <3>1, Redated
  <2>2. call[c].chance /\ now <= Expires[call[c].who]
    BY <1>1, <1>2, <1>4, Told DEF Stopped
  <2>3. ~Unpaused(call'[c])
    BY <1>2, <2>1 DEF Unpaused, Further
  <2>4. "ask" \in Places /\ call'[c].at <= now
    BY <1>2, <2>1 DEF Places
  <2> QED
    BY <1>1, <2>1, <2>2, <2>3, <2>4, RightFurther
<1> QED
  BY <1>3, <1>4 DEF BeginRun

LEMMA OpenRunRight ==
  ASSUME Shape, Asked, NEW c \in Caller, OpenRun(c)
  PROVE  Right
<1>1. InProgress(c) /\ Calm /\ UNCHANGED <<now, pausedAt>> /\ At(c, "open")
  BY AtIsInProgress, CalmKept DEF OpenRun, Places, enrollment
<1>2. call[c].op \in {"start", "report"}
  BY <1>1, OpsAt
<1>3. Heard(call[c]) /\ (call[c].op # "report" => Unpaused(call[c]))
  BY <1>1, <1>2 DEF Heard, Unpaused, At, Admitted, Passed
<1>4. (To(c, "create") /\ call[c].op = "start") \/ (To(c, "close") /\ call[c].op = "report")
  BY <1>2 DEF OpenRun
<1> QED
  BY <1>1, <1>3, <1>4, Told, RightTo DEF Places, Unpaused

LEMMA CreateRunRight ==
  ASSUME Shape, Asked, NEW c \in Caller, CreateRun(c)
  PROVE  Right
<1>1. InProgress(c) /\ Calm /\ UNCHANGED <<now, pausedAt>> /\ At(c, "create") /\ Go(c)
  BY AtIsInProgress, CalmKept DEF CreateRun, Places, enrollment
<1>2. call[c].op = "start"
  BY <1>1, OpsAt
<1>3. Heard(call[c]) /\ Unpaused(call[c])
  BY <1>1, <1>2 DEF Heard, Unpaused, At, Admitted, Passed
<1> QED
  BY <1>1, <1>3, RightGo

LEMMA RunRight ==
  ASSUME Shape, Asked, NEW c \in Caller, Abandon(c) \/ ReadRun(c) \/ StopRun(c)
  PROVE  Right
<1>1. InProgress(c) /\ Calm /\ UNCHANGED <<now, pausedAt>>
  BY AtIsInProgress, CalmKept DEF Abandon, ReadRun, StopRun, Places, enrollment
<1>2. CASE Abandon(c) \/ ReadRun(c)
  <2>1. End(c) \/ To(c, "agent") \/ To(c, "end")
    BY <1>2 DEF Abandon, ReadRun
  <2> QED
    BY <1>1, <2>1, RightUnheard DEF Places, Passed
<1>3. CASE StopRun(c)
  <2>1. End(c) \/ To(c, "close")
    BY <1>3 DEF StopRun
  <2>2. call[c].op = "beat"
    BY <1>1, <1>3, OpsAt DEF StopRun
  <2>3. CASE End(c)
    BY <1>1, <2>3, RightEnd
  <2>4. CASE To(c, "close")
    BY <1>1, <2>2, <2>4, RightTo DEF Places, Heard, Unpaused, Admitted
  <2> QED
    BY <2>1, <2>3, <2>4
<1> QED
  BY <1>2, <1>3

LEMMA BeatRight ==
  ASSUME Shape, Asked, NEW c \in Caller, Beat(c)
  PROVE  Right
<1>1. InProgress(c) /\ Calm /\ UNCHANGED <<now, pausedAt>> /\ At(c, "beat")
  BY AtIsInProgress, CalmKept DEF Beat, Places, enrollment
<1>2. Heard(call[c]) /\ Unpaused(call[c])
  BY <1>1, OpsAt DEF Heard, Unpaused, At
<1> QED
  BY <1>1, <1>2, RightGo, RightEnd DEF Beat

LEMMA FinishRunRight ==
  ASSUME Shape, Asked, NEW c \in Caller, NEW how, NEW cost \in 0..Total, FinishRun(c, how, cost)
  PROVE  Right
<1>1. InProgress(c) /\ Calm /\ UNCHANGED <<now, pausedAt>> /\ At(c, "end")
  BY AtIsInProgress, CalmKept DEF FinishRun, Places, enrollment
<1>2. call[c].op = "finish" /\ call[c].at <= now
  BY <1>1, OpsAt, Told
<1>3. CASE End(c)
  BY <1>1, <1>3, RightEnd
<1> DEFINE p == IF cost = 0 THEN "close" ELSE "cost"
<1>4. CASE call' = [call EXCEPT ![c].pc = p, ![c].cost = cost, ![c].left = cost]
  <2>1. p \in Places
    BY DEF Places
  <2> HIDE DEF p
  <2>2. Further(c, p) /\ call'[c].at = call[c].at /\ call'[c].chance = call[c].chance
    BY <1>1, <1>4, <2>1, Priced
  <2>3. ~Heard(call'[c]) /\ ~Unpaused(call'[c])
    BY <1>2, <2>2 DEF Further, Heard, Unpaused, Admitted
  <2> QED
    BY <1>1, <1>2, <2>1, <2>2, <2>3, RightFurther
<1> QED
  BY <1>3, <1>4 DEF FinishRun

LEMMA RecordCostRight ==
  ASSUME ExternalAgentsAssumption, Shape, Asked, NEW c \in Caller, NEW part \in 1..Total,
         RecordCost(c, part)
  PROVE  Right
<1>1. InProgress(c) /\ Calm /\ UNCHANGED <<now, pausedAt>> /\ At(c, "cost")
  BY AtIsInProgress, CalmKept DEF RecordCost, Places, enrollment
<1>2. call[c].op \in {"report", "finish"} /\ call[c].at <= now
  BY <1>1, OpsAt, Told
<1>3. PICK p \in {"cost", "charge"} :
        Further(c, p) /\ call'[c].at = call[c].at /\ call'[c].chance = call[c].chance
  BY RecordedPart
<1>4. p \in Places
  BY DEF Places
<1>5. Heard(call'[c]) => Heard(call[c])
  BY <1>1, <1>2, <1>3 DEF Heard, Further, At, Passed
<1>6. ~Unpaused(call'[c])
  BY <1>2, <1>3 DEF Unpaused, Further
<1> QED
  BY <1>1, <1>2, <1>3, <1>4, <1>5, <1>6, Told, RightFurther

LEMMA ChargeRight ==
  ASSUME Shape, Asked, NEW c \in Caller, Charge(c)
  PROVE  Right
<1>1. InProgress(c) /\ Calm /\ UNCHANGED <<now, pausedAt>> /\ At(c, "charge")
  BY AtIsInProgress, CalmKept DEF Charge, Places, enrollment
<1>2. call[c].op \in {"report", "finish"}
  BY <1>1, OpsAt
<1>3. CASE To(c, "close") /\ call[c].op = "finish"
  BY <1>1, <1>3, RightUnheard DEF Places, Admitted
<1>4. CASE Go(c) /\ call[c].op = "report"
  <2>1. Heard(call[c])
    BY <1>1, <1>4 DEF Heard, At, Admitted, Passed
  <2> QED
    BY <1>1, <1>4, <2>1, RightGo
<1> QED
  BY <1>2, <1>3, <1>4 DEF Charge

LEMMA CloseRunRight ==
  ASSUME Shape, Asked, NEW c \in Caller, CloseRun(c)
  PROVE  Right
<1>1. InProgress(c) /\ Calm /\ UNCHANGED <<now, pausedAt>> /\ At(c, "close")
  BY AtIsInProgress, CalmKept DEF CloseRun, Places, enrollment
<1>2. call[c].op \in {"report", "beat", "finish"} /\ call[c].cost \in 0..Total
  BY <1>1, OpsAt, FitHere DEF CallType
<1>3. call[c].cost > 0 \/ call[c].cost = 0
  BY <1>2
<1>4. End(c) \/ (call[c].op = "report" /\ (Go(c) \/ To(c, "cost")))
  BY <1>2, <1>3 DEF CloseRun, End
<1>5. CASE call[c].op = "report" /\ (Go(c) \/ To(c, "cost"))
  <2>1. Heard(call[c])
    BY <1>1, <1>5 DEF Heard, At, Admitted, Passed
  <2> QED
    BY <1>1, <1>5, <2>1, Told, RightGo, RightTo DEF Places, Unpaused
<1> QED
  BY <1>1, <1>4, <1>5, RightEnd

LEMMA ClaimRight ==
  ASSUME Shape, Asked, NEW c \in Caller, NEW cost \in 0..Total, Claim(c, cost)
  PROVE  Right
<1>1. InProgress(c) /\ Calm /\ UNCHANGED <<now, pausedAt>> /\ At(c, "claim")
  BY AtIsInProgress, CalmKept DEF Claim, Places, enrollment
<1>2. call[c].op = "report" /\ call[c].at <= now
  BY <1>1, OpsAt, Told
<1>3. Heard(call[c]) /\ call[c].chance /\ call[c].at <= Expires[call[c].who]
  BY <1>1, <1>2, Told DEF Heard, At, Admitted, Passed
<1>4. CASE To(c, "replay")
  BY <1>1, <1>2, <1>3, <1>4, RightTo DEF Places, Unpaused
<1>5. CASE call' = [call EXCEPT ![c].pc = "open", ![c].cost = cost, ![c].left = cost]
  <2>1. "open" \in Places
    BY DEF Places
  <2>2. Further(c, "open") /\ call'[c].at = call[c].at /\ call'[c].chance = call[c].chance
    BY <1>1, <1>5, <2>1, Priced
  <2>3. ~Unpaused(call'[c])
    BY <1>2, <2>2 DEF Further, Unpaused
  <2> QED
    BY <1>1, <1>2, <1>3, <2>1, <2>2, <2>3, RightFurther
<1> QED
  BY <1>4, <1>5 DEF Claim

LEMMA ReplayRight ==
  ASSUME Shape, Asked, NEW c \in Caller, Replay(c)
  PROVE  Right
<1>1. InProgress(c) /\ Calm /\ UNCHANGED <<now, pausedAt>> /\ At(c, "replay")
  BY AtIsInProgress, CalmKept DEF Replay, Places, enrollment
<1>2. call[c].op = "report" /\ Heard(call[c])
  BY <1>1, OpsAt DEF Heard, At, Admitted, Passed
<1> QED
  BY <1>1, <1>2, RightGo, RightEnd DEF Replay

\* An operator's command that reads a status.
LEMMA ReadsRight ==
  ASSUME Shape, Asked, NEW c \in Caller, ReadStatus(c) \/ Reread(c)
  PROVE  Right
<1>1. InProgress(c) /\ Calm /\ UNCHANGED <<now, pausedAt>>
  BY AtIsInProgress, CalmKept DEF ReadStatus, Reread, Places, enrollment
<1>2. /\ call[c].op \in {"contain", "release", "revoke"} /\ call[c].at <= now
      /\ call[c].who \in Agent
  BY <1>1, OpsAt, Told DEF ReadStatus, Reread
<1> DEFINE s == status[call[c].who]
<1>3. s \in Seen
  BY <1>2 DEF Shape, TypeOK, Seen
<1>4. \/ End(c)
      \/ \E p \in {"permit", "again"} : Informs(c, p, s)
  BY DEF ReadStatus, Reread, Informs
<1> HIDE DEF s
<1>5. ASSUME NEW p \in {"permit", "again"}, Informs(c, p, s)
      PROVE  Right
  <2>1. p \in Places
    BY DEF Places
  <2>2. Further(c, p) /\ call'[c].at = call[c].at /\ call'[c].chance = call[c].chance
    BY <1>1, <1>3, <1>5, <2>1, Informed
  <2>3. ~Heard(call'[c]) /\ ~Unpaused(call'[c])
    BY <1>2, <2>2 DEF Further, Heard, Unpaused, Admitted
  <2> QED
    BY <1>1, <1>2, <2>1, <2>2, <2>3, RightFurther
<1> QED
  BY <1>1, <1>4, <1>5, RightEnd

LEMMA CommandsRight ==
  ASSUME Shape, Asked, NEW c \in Caller,
         Permit(c) \/ CheckName(c) \/ ClaimSeat(c) \/ Unseat(c)
  PROVE  Right
<1>1. InProgress(c) /\ Calm /\ UNCHANGED <<now, pausedAt>>
  BY AtIsInProgress, CalmKept DEF Permit, CheckName, ClaimSeat, Unseat, Places, enrollment
<1>2. \/ End(c) \/ To(c, "clear") \/ To(c, "enroll") \/ To(c, "set") \/ To(c, "unseat")
      \/ To(c, "seat") \/ To(c, "permit")
  BY DEF Permit, CheckName, ClaimSeat, Unseat
<1> QED
  BY <1>1, <1>2, RightUnheard DEF Places, Passed

LEMMA StatusRight ==
  ASSUME Shape, Asked, NEW c \in Caller, Contain(c) \/ Revoke(c) \/ Enroll(c)
  PROVE  Right
<1>1. InProgress(c) /\ UNCHANGED <<now, pausedAt>> /\ call[c].who \in Agent
  BY AtIsInProgress, OpsAt DEF Contain, Revoke, Enroll, Places
<1>2. Calm
  BY <1>1, CalmMoves, CalmKept DEF Contain, Revoke, Enroll, Statuses
<1>3. End(c) \/ To(c, "unseat") \/ To(c, "reread")
  BY DEF Contain, Revoke, Enroll
<1> QED
  BY <1>1, <1>2, <1>3, RightUnheard DEF Places, Passed

\* Who calls about an agent that is set free has a chance.
LEMMA ReleaseRight ==
  ASSUME Shape, Asked, NEW c \in Caller, Release(c)
  PROVE  Right
<1>1. InProgress(c) /\ UNCHANGED <<now, pausedAt>> /\ call[c].who \in Agent
  BY AtIsInProgress, OpsAt DEF Release, Places
<1>2. CASE End(c) /\ UNCHANGED status
  BY <1>1, <1>2, CalmKept, RightEnd
<1>3. CASE Moves(call[c].who, "contained", "active") /\ call' = Freed(c)
  <2>1. \A d \in Caller : d \in Anyone
    BY DEF Anyone
  <2>2. /\ status'[call[c].who] = "active"
        /\ \A y \in Agent : y # call[c].who => status'[y] = status[y]
    BY <1>1, <1>3, MovesFacts DEF Statuses
  <2>3. ASSUME NEW d \in Caller, InProgress(d)'
        PROVE  AskedWell(call[d])'
    <3>1. /\ d # c /\ InProgress(d) /\ call'[d].pc = call[d].pc /\ call'[d].op = call[d].op
          /\ call'[d].who = call[d].who /\ call'[d].at = call[d].at /\ call'[d].seen = call[d].seen
          /\ call'[d].chance = (call[d].chance \/ call[d].who = call[c].who)
      BY <1>3, <2>1, <2>3, FreedFacts DEF InProgress, At
    <3>2. AskedWell(call[d]) /\ call[d].who \in Agent
      BY <3>1, OpsAt DEF Asked
    <3>3. call'[d].op # "enroll" =>
            status'[call'[d].who] # "none" /\ (status'[call'[d].who] = "active" => call'[d].chance)
      BY <2>2, <3>1, <3>2 DEF AskedWell
    <3>4. (Heard(call'[d]) <=> Heard(call[d])) /\ (Unpaused(call'[d]) <=> Unpaused(call[d]))
      BY <3>1 DEF Heard, Unpaused
    <3>5. Heard(call'[d]) => call'[d].chance /\ call'[d].at <= Expires[call'[d].who]
      BY <3>1, <3>2, <3>4 DEF AskedWell
    <3>6. Unpaused(call'[d]) => ~(pausedAt' >= 0 /\ pausedAt' + Ttl <= call'[d].at)
      BY <1>1, <3>1, <3>2, <3>4 DEF AskedWell, PauseIsSeen
    <3>7. call'[d].at <= now'
      BY <1>1, <3>1, <3>2 DEF AskedWell
    <3> HIDE DEF Heard
    <3> QED
      BY <3>3, <3>5, <3>6, <3>7 DEF AskedWell, PauseIsSeen
  <2>4. \A d \in Caller : GoesRight(d)
    <3>1. call'[c].pc = "idle"
      BY <1>3, FreedFacts DEF Idle
    <3>2. \A d \in Caller : d # c => call'[d].pc = call[d].pc
      BY <1>3, <2>1, FreedFacts
    <3> QED
      BY <3>1, <3>2 DEF GoesRight, InProgress, At
  <2> QED
    BY <2>3, <2>4 DEF Right, Asked
<1> QED
  BY <1>2, <1>3 DEF Release, Freed

\* The calls of others.
LEMMA RightOthers ==
  ASSUME Shape, Asked, \A d \in Caller : call'[d] = call[d], Calm, UNCHANGED <<now, pausedAt>>
  PROVE  Right
<1>1. \A d \in Caller : GoesRight(d)
  BY DEF GoesRight, InProgress, At
<1>2. ASSUME NEW d \in Caller, InProgress(d)'
      PROVE  AskedWell(call[d])'
  <2>1. InProgress(d)
    BY <1>2 DEF InProgress, At
  <2> QED
    BY <2>1, AskedByOthers
<1> QED
  BY <1>1, <1>2 DEF Right, Asked

\* The sweep is nobody's call.
LEMMA SweepTurns ==
  ASSUME ExternalAgentsAssumption, Shape, Sweep
  PROVE  \A d \in Caller : call'[d] = call[d]
<1>1. Sweeper \notin Caller /\ call \in [Anyone -> CallType \cup [pc : {"idle", "go"}]]
  BY Sizes DEF Shape, TypeOK, Anyone
<1>2. ListStale => \E k : Turns(Sweeper, k)
  BY DEF ListStale, Turns
<1>3. ASSUME CloseRun(Sweeper)
      PROVE  \E k : Turns(Sweeper, k)
  <2>1. call[Sweeper].op = "sweep"
    BY <1>1, <1>3, ClosesWith DEF CloseRun, Anyone
  <2> QED
    BY <1>3, <2>1 DEF CloseRun, Turns
<1>4. ASSUME NEW r \in Live, ReclaimRun(r)
      PROVE  \E k : Turns(Sweeper, k)
  <2>1. CASE call' = [call EXCEPT ![Sweeper].pc = "close", ![Sweeper].on = r,
                                  ![Sweeper].todo = call[Sweeper].todo \ {r}]
    BY <2>1 DEF Turns
  <2>2. CASE call' = [call EXCEPT ![Sweeper] =
               IF call[Sweeper].todo \ {r} = {} THEN Idle
               ELSE [call[Sweeper] EXCEPT !.todo = call[Sweeper].todo \ {r}]]
    BY <2>2 DEF Turns
  <2> QED
    BY <1>4, <2>1, <2>2 DEF ReclaimRun
<1>5. \E k : Turns(Sweeper, k)
  BY <1>2, <1>3, <1>4 DEF Sweep
<1> QED
  BY <1>1, <1>5 DEF Turns, Anyone

LEMMA SweepRight ==
  ASSUME ExternalAgentsAssumption, Shape, Asked, Sweep
  PROVE  Right
<1>1. Calm /\ UNCHANGED <<now, pausedAt>>
  BY CalmKept DEF Sweep, ListStale, CloseRun, ReclaimRun, enrollment
<1> QED
  BY <1>1, SweepTurns, RightOthers

LEMMA FailureRight ==
  ASSUME ExternalAgentsAssumption, Shape, Asked, Failure
  PROVE  Right
<1>1. ASSUME NEW c \in Anyone, Lost(c)
      PROVE  Right
  <2>1. /\ InProgress(c) /\ Leaves(c) /\ call'[c].pc = "idle" /\ Calm
        /\ UNCHANGED <<now, pausedAt>>
    BY <1>1, OverLeaves, CalmKept DEF Lost, Shape, enrollment
  <2> QED
    BY <2>1, RightLeaves DEF GoesRight, At
<1>2. ASSUME NEW c \in Caller, NEW done \in BOOLEAN, CreateFails(c, done)
      PROVE  Right
  <2>1. /\ InProgress(c) /\ To(c, "abandon") /\ Calm /\ UNCHANGED <<now, pausedAt>>
    BY <1>2, AtIsInProgress, CalmKept DEF CreateFails, Places, enrollment
  <2> QED
    BY <2>1, RightUnheard DEF Places, Passed
<1>3. ASSUME NEW c \in Caller, NEW done \in BOOLEAN, EnrollFails(c, done)
      PROVE  Right
  <2>1. /\ InProgress(c) /\ To(c, "unseat") /\ UNCHANGED <<now, pausedAt>>
        /\ call[c].who \in Agent
    BY <1>3, AtIsInProgress, OpsAt DEF EnrollFails, Places
  <2>2. Calm
    BY <1>3, <2>1, CalmMoves, CalmKept DEF EnrollFails, Statuses
  <2> QED
    BY <2>1, <2>2, RightUnheard DEF Places, Passed
<1>4. ASSUME NEW c \in Caller, PauseUnreadable(c)
      PROVE  Right
  <2>1. /\ InProgress(c) /\ To(c, "stop") /\ call[c].op = "beat" /\ Calm
        /\ UNCHANGED <<now, pausedAt>>
    BY <1>4, AtIsInProgress, CalmKept DEF PauseUnreadable, Places, enrollment
  <2> QED
    BY <2>1, RightTo DEF Places, Heard, Unpaused, Admitted
<1> QED
  BY <1>1, <1>2, <1>3, <1>4 DEF Failure, Anyone

\* A pause is not in sight of what was asked before it, for it takes time to be seen.
LEMMA PauseTickRight ==
  ASSUME ExternalAgentsAssumption, Ttl > 0, Shape, Asked, Pause \/ Tick
  PROVE  Right
<1>1. UNCHANGED <<status, call>>
  BY DEF Pause, Tick, enrollment
<1>2. \A d \in Caller : GoesRight(d)
  BY <1>1 DEF GoesRight, InProgress, At
<1>3. now \in Nat /\ pausedAt \in Nat \cup {-1} /\ Ttl \in Nat
  BY Sizes DEF Shape, TypeOK
<1>4. ASSUME NEW d \in Caller, InProgress(d)'
      PROVE  AskedWell(call[d])'
  <2>1. InProgress(d) /\ call'[d] = call[d]
    BY <1>1, <1>4 DEF InProgress, At
  <2>2. AskedWell(call[d]) /\ call[d].at \in Nat
    BY <2>1, FitHere DEF Asked, CallType
  <2>3. call[d].at <= now' /\ (Unpaused(call[d]) => ~(pausedAt' >= 0 /\ pausedAt' + Ttl <= call[d].at))
    <3>1. CASE Pause
      BY <1>3, <2>2, <3>1 DEF Pause, AskedWell
    <3>2. CASE Tick
      BY <1>3, <2>2, <3>2 DEF Tick, AskedWell, PauseIsSeen
    <3> QED
      BY <3>1, <3>2
  <2>4. call[d].op # "enroll" =>
          status'[call[d].who] # "none" /\ (status'[call[d].who] = "active" => call[d].chance)
    BY <1>1, <2>2 DEF AskedWell
  <2>5. Heard(call[d]) => call[d].chance /\ call[d].at <= Expires[call[d].who]
    BY <2>2 DEF AskedWell
  <2> HIDE DEF Heard
  <2> QED
    BY <2>1, <2>3, <2>4, <2>5 DEF AskedWell, PauseIsSeen
<1> QED
  BY <1>2, <1>4 DEF Right, Asked

LEMMA BeginRight ==
  ASSUME ExternalAgentsAssumption, Shape, Asked, NEW c \in Caller,
         NEW op \in Admitted \cup Beating \cup Operating, NEW a \in Agent,
         NEW e \in Episode \cup {"none"}, Begin(c, op, a, e)
  PROVE  Right
<1>1. Calm /\ UNCHANGED <<now, pausedAt, status>> /\ now \in Nat
  BY CalmKept DEF Begin, enrollment, Shape, TypeOK
<1>2. /\ ~InProgress(c) /\ \A d \in Anyone : d # c => call'[d] = call[d]
      /\ call'[c].op = op /\ call'[c].who = a /\ call'[c].at = now
      /\ call'[c].chance = (status[a] = "active") /\ call'[c].pc \in {"rate", "name", "read"}
      /\ op # "enroll" => status[a] # "none"
  BY BeginFacts DEF Admitted, Beating, Operating
<1>3. \A d \in Caller : GoesRight(d)
  BY <1>2 DEF GoesRight, InProgress, At, Anyone
<1>4. ASSUME NEW d \in Caller, InProgress(d)'
      PROVE  AskedWell(call[d])'
  <2>1. CASE d = c
    <3>1. ~Heard(call'[c]) /\ ~Unpaused(call'[c])
      BY <1>2 DEF Heard, Unpaused, Passed
    <3>2. call'[c].at <= now'
      BY <1>1, <1>2
    <3>3. call'[c].op # "enroll" =>
            status'[call'[c].who] # "none" /\ (status'[call'[c].who] = "active" => call'[c].chance)
      BY <1>1, <1>2
    <3> HIDE DEF Heard
    <3> QED
      BY <2>1, <3>1, <3>2, <3>3 DEF AskedWell
  <2>2. CASE d # c
    <3>1. call'[d] = call[d] /\ InProgress(d)
      BY <1>2, <1>4, <2>2 DEF InProgress, At, Anyone
    <3> QED
      BY <1>1, <3>1, AskedByOthers
  <2> QED
    BY <2>1, <2>2
<1> QED
  BY <1>3, <1>4 DEF Right, Asked

LEMMA AskedStarts ==
  ASSUME Init
  PROVE  Asked
BY DEF Init, Asked, InProgress, At, Idle, Caller

LEMMA AskedStep ==
  ASSUME ExternalAgentsAssumption, Ttl > 0, Shape, Asked, [Next]_vars
  PROVE  Right
<1>1. CASE UNCHANGED vars
  <2>1. UNCHANGED <<call, status, now, pausedAt>>
    BY <1>1 DEF vars, enrollment
  <2> QED
    BY <2>1, CalmKept, RightOthers
<1>2. ASSUME NEW c \in Caller, NEW op \in Admitted \cup Beating \cup Operating, NEW a \in Agent,
             NEW e \in Episode \cup {"none"}, Begin(c, op, a, e)
      PROVE  Right
  BY <1>2, BeginRight
<1>3. ASSUME NEW c \in Caller, Admission(c)
      PROVE  Right
  BY <1>3, RateRight, ReadAgentRight, AskPauseRight, JudgeRight, DenyRight, ContainForDenialsRight
     DEF Admission
<1>4. ASSUME NEW c \in Caller, Episodes(c)
      PROVE  Right
  BY <1>4, BeginRunRight, OpenRunRight, CreateRunRight, RunRight, BeatRight, ChargeRight,
     ReplayRight, FinishRunRight, ClaimRight, RecordCostRight DEF Episodes
<1>5. ASSUME NEW c \in Caller, CloseRun(c)
      PROVE  Right
  BY <1>5, CloseRunRight
<1>6. ASSUME NEW c \in Caller, Command(c)
      PROVE  Right
  BY <1>6, ReadsRight, CommandsRight, StatusRight, ReleaseRight DEF Command
<1> QED
  BY <1>1, <1>2, <1>3, <1>4, <1>5, <1>6, SweepRight, FailureRight, PauseTickRight DEF Next

\* A call that has been let through was made neither wholly while its agent was stopped nor
\* after it expired, and one that has asked for the pause saw none it should have seen: what
\* was found stays true until the answer (admission.ts:186-249, runs.ts:272-275).
THEOREM AskedAlways ==
  ASSUME Ttl > 0
  PROVE  Spec => []Asked
<1>1. Init => Asked
  BY AskedStarts
<1>2. Shape /\ Asked /\ [Next]_vars => Asked'
  BY ExternalAgentsAssumption, AskedStep DEF Right
<1> QED
  BY <1>1, <1>2, ShapeAlways, PTL DEF Spec

\* Containment reaches every agent at its next question: none is told to go on by a call
\* made wholly while it was contained or revoked, or made after it expired, or, but for a
\* report, after a pause came in sight.  A pause takes time to come in sight, or else a
\* call made at the very moment of it is told to go on.
THEOREM StopReaches ==
  ASSUME Ttl > 0
  PROVE  Spec => StopReachesAgents
<1>1. Shape /\ Asked /\ [Next]_vars =>
        [\A c \in Caller :
           InProgress(c) /\ ~InProgress(c)' /\ At(c, "go")'
             => /\ call[c].chance
                /\ call[c].at <= Expires[call[c].who]
                /\ PauseIsSeen(call[c].at) => call[c].op = "report"]_vars
  <2> SUFFICES ASSUME Shape, Asked, [Next]_vars, NEW c \in Caller, InProgress(c), At(c, "go")'
               PROVE  /\ call[c].chance
                      /\ call[c].at <= Expires[call[c].who]
                      /\ PauseIsSeen(call[c].at) => call[c].op = "report"
    OBVIOUS
  <2>1. Right
    BY ExternalAgentsAssumption, AskedStep
  <2> QED
    BY <2>1 DEF Right, GoesRight
<1> QED
  BY <1>1, ShapeAlways, AskedAlways, PTL DEF Spec, StopReachesAgents

-----------------------------------------------------------------------------
(* Seats. *)

InSeat(c) == At(c, "enroll") \/ At(c, "unseat") \/ (At(c, "permit") /\ call[c].op = "enroll")

Fills(c) == InProgress(c) /\ call[c].op = "revoke" /\ call[c].pc \in {"permit", "set", "again"}

\* Who is called about is enrolled, and who is to be revoked holds a seat.
Known ==
  /\ \A c \in Caller : InProgress(c) /\ call[c].op # "enroll" => status[call[c].who] # "none"
  /\ \A c \in Caller : Fills(c) => call[c].seen \in {"active", "contained"}
  /\ \A a \in lost \cap Agent : status[a] # "none"

\* Every agent enrolled, and every caller between a seat and its use, has a seat, but for
\* the agents whose creation seemed to fail; without failures no other seat is taken.
Counted ==
  /\ IsFiniteSet(Roster) /\ IsFiniteSet(lost)
  /\ Cardinality(Roster) + Cardinality(Seated) <= seats + Cardinality(lost \cap Agent)
  /\ faults = 0 => Cardinality(Roster) + Cardinality(Seated) = seats

Seating == Known /\ Counted

LEMMA SeatedFinite ==
  ASSUME ExternalAgentsAssumption
  PROVE  /\ IsFiniteSet(Seated) /\ Cardinality(Seated) \in Nat
         /\ Seated = {c \in Caller : InSeat(c)}
<1>1. IsFiniteSet(Caller)
  <2>1. Callers \in Int /\ 1 \in Int
    BY Sizes
  <2> QED
    BY <2>1, FS_Interval DEF Caller
<1>2. Seated = {c \in Caller : InSeat(c)}
  BY DEF Seated, InSeat
<1>3. Seated \subseteq Caller
  BY DEF Seated
<1>4. IsFiniteSet(Seated)
  BY <1>1, <1>3, FS_Subset
<1> QED
  BY <1>2, <1>4, FS_CardinalityType

\* What is counted is a number.
LEMMA CountedTyped ==
  ASSUME ExternalAgentsAssumption, Shape, Counted
  PROVE  /\ Cardinality(Roster) \in Nat /\ Cardinality(Seated) \in Nat
         /\ IsFiniteSet(lost \cap Agent) /\ Cardinality(lost \cap Agent) \in Nat
         /\ seats \in 0..SeatCap /\ seats \in Nat
<1>1. IsFiniteSet(lost \cap Agent)
  BY FS_Intersection DEF Counted
<1>2. seats \in 0..SeatCap /\ seats \in Nat
  BY Sizes DEF Shape, TypeOK
<1> QED
  BY <1>1, <1>2, SeatedFinite, FS_CardinalityType DEF Counted

\* The only call that changes is this one.
Alone(c) ==
  /\ \A d \in Anyone : d # c => call'[d] = call[d]
  /\ InProgress(c)' => call'[c].op = call[c].op /\ call'[c].who = call[c].who

LEMMA StepsAlone ==
  ASSUME NEW c, Leaves(c) \/ \E p : Further(c, p)
  PROVE  Alone(c)
BY DEF Leaves, Further, Alone, InProgress, At

LEMMA KnownKept ==
  ASSUME Shape, Known, NEW c \in Caller, InProgress(c), Alone(c),
         \A x \in Agent : status[x] # "none" => status'[x] # "none",
         Fills(c)' => call'[c].seen \in {"active", "contained"},
         \A x \in lost' \cap Agent : status'[x] # "none"
  PROVE  Known'
<1>1. \A d \in Caller : d \in Anyone
  BY DEF Anyone
<1>2. ASSUME NEW d \in Caller, InProgress(d)', call'[d].op # "enroll"
      PROVE  status'[call'[d].who] # "none"
  <2>1. InProgress(d) /\ call'[d].op = call[d].op /\ call'[d].who = call[d].who
    BY <1>1, <1>2 DEF Alone, InProgress, At
  <2>2. call[d].who \in Agent /\ status[call[d].who] # "none"
    BY <1>2, <2>1, FitHere DEF Known, Aimed
  <2> QED
    BY <2>1, <2>2
<1>3. ASSUME NEW d \in Caller, Fills(d)'
      PROVE  call'[d].seen \in {"active", "contained"}
  <2>1. d # c => call'[d] = call[d] /\ Fills(d)
    BY <1>1, <1>3 DEF Alone, Fills, InProgress, At
  <2> QED
    BY <1>3, <2>1 DEF Known
<1> QED
  BY <1>2, <1>3 DEF Known

LEMMA SeatedAfter ==
  ASSUME ExternalAgentsAssumption, NEW c \in Caller, Alone(c)
  PROVE  /\ (InSeat(c)' <=> InSeat(c)) => Seated' = Seated
         /\ ~InSeat(c) /\ InSeat(c)' => Seated' = Seated \cup {c} /\ c \notin Seated
         /\ InSeat(c) /\ ~InSeat(c)' => Seated' = Seated \ {c} /\ c \in Seated
<1>1. \A d \in Caller : d # c => (InSeat(d)' <=> InSeat(d))
  BY DEF Alone, Anyone, InSeat, At
<1>2. Seated = {d \in Caller : InSeat(d)} /\ Seated' = {d \in Caller : InSeat(d)'}
  BY DEF Seated, InSeat
<1> QED
  BY <1>1, <1>2

LEMMA CountedSame ==
  ASSUME ExternalAgentsAssumption, Counted, Roster' = Roster, Seated' = Seated,
         UNCHANGED <<seats, lost, faults>>
  PROVE  Counted'
BY DEF Counted

\* A call that has nothing to do with seats.
Aside(c) ==
  /\ InProgress(c) /\ ~InSeat(c)
  /\ \/ Leaves(c)
     \/ \E p \in Places \ {"permit", "enroll", "unseat", "again"} :
          Further(c, p) /\ (p = "set" => call[c].op # "revoke")

LEMMA AsideKnown ==
  ASSUME ExternalAgentsAssumption, Shape, Known, NEW c \in Caller, Aside(c), UNCHANGED lost,
         \A x \in Agent : status[x] # "none" => status'[x] # "none"
  PROVE  Known' /\ Seated' = Seated
<1>1. Alone(c)
  BY StepsAlone DEF Aside
<1>2. ~InSeat(c)' /\ ~Fills(c)'
  BY DEF Aside, Leaves, Further, InSeat, Fills, At, InProgress
<1>3. \A x \in lost' \cap Agent : status'[x] # "none"
  BY DEF Known
<1>4. InProgress(c) /\ ~InSeat(c)
  BY DEF Aside
<1> QED
  BY <1>1, <1>2, <1>3, <1>4, KnownKept, SeatedAfter

LEMMA SeatingAside ==
  ASSUME ExternalAgentsAssumption, Shape, Seating, NEW c \in Caller, Aside(c),
         UNCHANGED <<status, seats, lost, faults>>
  PROVE  Seating'
<1>1. Known' /\ Seated' = Seated
  BY AsideKnown DEF Seating
<1>2. Roster' = Roster
  BY DEF Roster
<1> QED
  BY <1>1, <1>2, CountedSame DEF Seating

LEMMA ToAside ==
  ASSUME Shape, NEW c \in Caller, InProgress(c), ~InSeat(c),
         NEW p \in Places \ {"permit", "enroll", "unseat", "again"}, To(c, p),
         p = "set" => call[c].op # "revoke"
  PROVE  Aside(c)
<1>1. Further(c, p)
  BY ToFurther DEF Shape, Anyone
<1> QED
  BY <1>1 DEF Aside

LEMMA OverAside ==
  ASSUME Shape, NEW c \in Caller, InProgress(c), ~InSeat(c), End(c) \/ Go(c)
  PROVE  Aside(c)
BY OverLeaves DEF Aside, Shape, Anyone

\* Requests have nothing to do with seats.
LEMMA AdmissionAside ==
  ASSUME ExternalAgentsAssumption, Shape, NEW c \in Caller, Admission(c)
  PROVE  Aside(c) /\ UNCHANGED <<seats, lost, faults>>
<1>1. /\ InProgress(c) /\ UNCHANGED <<seats, lost, faults>>
      /\ call[c].pc \in {"rate", "agent", "pause", "ask", "judge", "deny", "contain", "clear"}
  BY AtIsInProgress DEF Admission, Rate, ReadAgent, AskPause, Judge, Deny, ContainForDenials,
     ClearDenials, Places, enrollment, At
<1>2. ~InSeat(c)
  BY <1>1 DEF InSeat, At
<1>3. CASE Rate(c)
  <2>1. CASE call' = [call EXCEPT ![c].pc = "run", ![c].at = now]
    <3>1. "run" \in Places
      BY DEF Places
    <3>2. Further(c, "run")
      BY <1>1, <2>1, <3>1, Redated
    <3> QED
      BY <1>1, <1>2, <3>1, <3>2 DEF Aside
  <2> QED
    BY <1>1, <1>2, <1>3, <2>1, ToAside, OverAside DEF Rate, Places
<1>4. CASE ReadAgent(c)
  <2>1. CASE call[c].op = "beat"
    <3>1. PICK s \in Seen : Informs(c, "pause", s)
      BY <1>4, <2>1 DEF ReadAgent, Seen, Informs
    <3>2. "pause" \in Places
      BY DEF Places
    <3> QED
      BY <1>1, <1>2, <3>1, <3>2, Informed DEF Aside
  <2>2. CASE call[c].op # "beat"
    BY <1>1, <1>2, <1>4, <2>2, ToAside DEF ReadAgent, Places
  <2> QED
    BY <2>1, <2>2
<1>5. CASE AskPause(c)
  <2>1. \/ End(c) \/ To(c, "stop") \/ To(c, "beat") \/ To(c, "open") \/ To(c, "judge")
    BY <1>5 DEF AskPause
  <2> QED
    BY <1>1, <1>2, <2>1, ToAside, OverAside DEF Places
<1>6. CASE Judge(c)
  <2>1. At(c, "judge")
    BY <1>6 DEF Judge
  <2>2. call[c].op \in {"screen", "start", "report"}
    BY <1>1, <2>1, OpsAt
  <2>3. End(c) \/ Go(c) \/ To(c, "deny") \/ To(c, "begin") \/ To(c, "claim")
    BY <1>6, <2>2 DEF Judge
  <2> QED
    BY <1>1, <1>2, <2>3, ToAside, OverAside DEF Places
<1>7. CASE Deny(c) \/ ContainForDenials(c) \/ ClearDenials(c)
  <2>1. End(c) \/ To(c, "contain") \/ To(c, "clear") \/ (To(c, "set") /\ call[c].op = "release")
    BY <1>7 DEF Deny, ContainForDenials, ClearDenials
  <2> QED
    BY <1>1, <1>2, <2>1, ToAside, OverAside DEF Places
<1> QED
  BY <1>1, <1>3, <1>4, <1>5, <1>6, <1>7 DEF Admission

LEMMA EpisodesAside ==
  ASSUME ExternalAgentsAssumption, Shape, NEW c \in Caller, Episodes(c) \/ CloseRun(c)
  PROVE  Aside(c) /\ UNCHANGED <<status, seats, lost, faults>>
<1>1. /\ InProgress(c) /\ UNCHANGED <<status, seats, lost, faults>>
      /\ call[c].pc \in {"begin", "open", "create", "abandon", "run", "beat", "stop", "charge",
                         "replay", "end", "claim", "cost", "close"}
  BY AtIsInProgress DEF Episodes, BeginRun, OpenRun, CreateRun, Abandon, ReadRun, Beat, StopRun,
     Charge, Replay, FinishRun, Claim, RecordCost, CloseRun, Places, enrollment, At
<1>2. ~InSeat(c)
  BY <1>1 DEF InSeat, At
<1>3. CASE BeginRun(c)
  <2>1. CASE call' = [call EXCEPT ![c].pc = "ask", ![c].at = now]
    <3>1. "ask" \in Places
      BY DEF Places
    <3>2. Further(c, "ask")
      BY <1>1, <2>1, <3>1, Redated
    <3> QED
      BY <1>1, <1>2, <3>1, <3>2 DEF Aside
  <2> QED
    BY <1>1, <1>2, <1>3, <2>1, OverAside DEF BeginRun
<1>4. CASE OpenRun(c) \/ CreateRun(c) \/ Abandon(c) \/ ReadRun(c) \/ Beat(c)
  <2>1. \/ To(c, "create") \/ To(c, "close") \/ Go(c) \/ End(c) \/ To(c, "agent") \/ To(c, "end")
    BY <1>4 DEF OpenRun, CreateRun, Abandon, ReadRun, Beat
  <2> QED
    BY <1>1, <1>2, <2>1, ToAside, OverAside DEF Places
<1>5. CASE StopRun(c) \/ Charge(c) \/ Replay(c)
  <2>1. To(c, "close") \/ Go(c) \/ End(c)
    BY <1>5 DEF StopRun, Charge, Replay
  <2> QED
    BY <1>1, <1>2, <2>1, ToAside, OverAside DEF Places
<1>6. ASSUME NEW how, NEW cost \in 0..Total, FinishRun(c, how, cost)
      PROVE  Aside(c)
  <2> DEFINE p == IF cost = 0 THEN "close" ELSE "cost"
  <2>1. CASE call' = [call EXCEPT ![c].pc = p, ![c].cost = cost, ![c].left = cost]
    <3>1. p \in Places /\ p \in {"close", "cost"}
      BY DEF Places
    <3> HIDE DEF p
    <3>2. Further(c, p)
      BY <1>1, <2>1, <3>1, Priced
    <3> QED
      BY <1>1, <1>2, <3>1, <3>2 DEF Aside
  <2> QED
    BY <1>1, <1>2, <1>6, <2>1, OverAside DEF FinishRun
<1>7. ASSUME NEW cost \in 0..Total, Claim(c, cost)
      PROVE  Aside(c)
  <2>1. CASE call' = [call EXCEPT ![c].pc = "open", ![c].cost = cost, ![c].left = cost]
    <3>1. "open" \in Places
      BY DEF Places
    <3>2. Further(c, "open")
      BY <1>1, <2>1, <3>1, Priced
    <3> QED
      BY <1>1, <1>2, <3>1, <3>2 DEF Aside
  <2> QED
    BY <1>1, <1>2, <1>7, <2>1, ToAside DEF Claim, Places
<1>8. ASSUME NEW part \in 1..Total, RecordCost(c, part)
      PROVE  Aside(c)
  BY <1>1, <1>2, <1>8, RecordedPart DEF Aside, Places
<1>9. CASE CloseRun(c)
  <2>1. At(c, "close")
    BY <1>9 DEF CloseRun
  <2>2. call[c].op \in {"report", "beat", "finish"} /\ call[c].cost \in 0..Total
    BY <1>1, <2>1, OpsAt, FitHere DEF CallType
  <2>3. call[c].cost > 0 \/ call[c].cost = 0
    BY <2>2
  <2>4. End(c) \/ Go(c) \/ To(c, "cost")
    BY <1>9, <2>2, <2>3 DEF CloseRun, End
  <2> QED
    BY <1>1, <1>2, <2>4, ToAside, OverAside DEF Places
<1> QED
  BY <1>1, <1>3, <1>4, <1>5, <1>6, <1>7, <1>8, <1>9 DEF Episodes

\* One more agent, or one less.
LEMMA RosterGains ==
  ASSUME Counted, Shape, NEW x \in Agent, Moves(x, "none", "active")
  PROVE  /\ Roster' = Roster \cup {x} /\ IsFiniteSet(Roster')
         /\ Cardinality(Roster') = Cardinality(Roster) + 1
<1>1. /\ status[x] = "none" /\ status'[x] = "active"
      /\ \A y \in Agent : y # x => status'[y] = status[y]
  BY MovesFacts DEF Statuses
<1>2. Roster' = Roster \cup {x} /\ x \notin Roster
  BY <1>1 DEF Roster
<1> QED
  BY <1>2, FS_AddElement, FS_CardinalityType DEF Counted

LEMMA RosterLoses ==
  ASSUME Counted, Shape, NEW x \in Agent, NEW from \in {"active", "contained"},
         Moves(x, from, "revoked")
  PROVE  /\ Roster' = Roster \ {x} /\ IsFiniteSet(Roster')
         /\ Cardinality(Roster') = Cardinality(Roster) - 1
<1>1. /\ status[x] = from /\ status'[x] = "revoked"
      /\ \A y \in Agent : y # x => status'[y] = status[y]
  BY MovesFacts DEF Statuses
<1>2. Roster' = Roster \ {x} /\ x \in Roster
  BY <1>1 DEF Roster
<1> QED
  BY <1>2, FS_RemoveElement, FS_CardinalityType DEF Counted

LEMMA RosterStays ==
  ASSUME Shape, NEW x \in Agent, NEW from \in {"active", "contained"},
         NEW to \in {"active", "contained"}, Moves(x, from, to)
  PROVE  Roster' = Roster /\ \A y \in Agent : status[y] # "none" => status'[y] # "none"
<1>1. /\ status[x] = from /\ status'[x] = to
      /\ \A y \in Agent : y # x => status'[y] = status[y]
  BY MovesFacts DEF Statuses
<1> QED
  BY <1>1 DEF Roster

LEMMA SeatedCounts ==
  ASSUME ExternalAgentsAssumption, NEW c \in Caller
  PROVE  /\ Seated' = Seated \cup {c} /\ c \notin Seated
              => Cardinality(Seated') = Cardinality(Seated) + 1
         /\ Seated' = Seated \ {c} /\ c \in Seated
              => Cardinality(Seated') = Cardinality(Seated) - 1
BY SeatedFinite, FS_AddElement, FS_RemoveElement

LEMMA ContainForDenialsSeats ==
  ASSUME ExternalAgentsAssumption, Shape, Seating, NEW c \in Caller, ContainForDenials(c)
  PROVE  Seating'
<1>1. InProgress(c) /\ call[c].who \in Agent /\ Aside(c) /\ UNCHANGED <<seats, lost, faults>>
  BY AtIsInProgress, OpsAt, AdmissionAside DEF ContainForDenials, Places, Admission
<1>2. Roster' = Roster /\ \A y \in Agent : status[y] # "none" => status'[y] # "none"
  <2>1. CASE Moves(call[c].who, "active", "contained")
    BY <1>1, <2>1, RosterStays
  <2>2. CASE UNCHANGED status
    BY <2>2 DEF Roster
  <2> QED
    BY <2>1, <2>2 DEF ContainForDenials
<1> QED
  BY <1>1, <1>2, AsideKnown, CountedSame DEF Seating

LEMMA RequestSeats ==
  ASSUME ExternalAgentsAssumption, Shape, Seating, NEW c \in Caller,
         Admission(c) \/ Episodes(c) \/ CloseRun(c)
  PROVE  Seating'
<1>1. CASE ContainForDenials(c)
  BY <1>1, ContainForDenialsSeats
<1>2. CASE Episodes(c) \/ CloseRun(c)
  BY <1>2, EpisodesAside, SeatingAside
<1>3. CASE Admission(c) /\ ~ContainForDenials(c)
  <2>1. UNCHANGED status
    BY <1>3 DEF Admission, Rate, ReadAgent, AskPause, Judge, Deny, ClearDenials, enrollment
  <2> QED
    BY <1>3, <2>1, AdmissionAside, SeatingAside
<1> QED
  BY <1>1, <1>2, <1>3

\* A command reads who holds a seat.
LEMMA ReadsSeats ==
  ASSUME ExternalAgentsAssumption, Shape, Seating, NEW c \in Caller, ReadStatus(c) \/ Reread(c)
  PROVE  Seating'
<1>1. /\ InProgress(c) /\ UNCHANGED <<status, seats, lost, faults>>
      /\ At(c, "read") \/ At(c, "reread")
  BY AtIsInProgress DEF ReadStatus, Reread, Places, enrollment
<1>2. call[c].op \in {"contain", "release", "revoke"} /\ call[c].who \in Agent /\ ~InSeat(c)
  BY <1>1, OpsAt DEF InSeat, At
<1>3. CASE End(c)
  BY <1>1, <1>2, <1>3, OverAside, SeatingAside
<1> DEFINE s == status[call[c].who]
<1>4. CASE s # "revoked" /\ \E p \in {"permit", "again"} : Informs(c, p, s)
  <2>1. s \in {"active", "contained"}
    BY <1>1, <1>2, <1>4 DEF Seating, Known, Shape, TypeOK
  <2>2. s \in Seen
    BY <2>1 DEF Seen
  <2> HIDE DEF s
  <2>3. PICK p \in {"permit", "again"} : Informs(c, p, s)
    BY <1>4
  <2>4. p \in Places
    BY DEF Places
  <2>5. Further(c, p) /\ call'[c].seen = s
    BY <1>1, <2>2, <2>3, <2>4, Informed
  <2>6. Alone(c) /\ ~InSeat(c)'
    BY <1>2, <2>5, StepsAlone DEF Further, InSeat, At
  <2>7. Known'
    BY <1>1, <2>1, <2>5, <2>6, KnownKept DEF Seating, Known
  <2>8. Seated' = Seated /\ Roster' = Roster
    BY <1>1, <1>2, <2>6, SeatedAfter DEF Roster
  <2> QED
    BY <1>1, <2>7, <2>8, CountedSame DEF Seating
<1>5. End(c) \/ (s # "revoked" /\ \E p \in {"permit", "again"} : Informs(c, p, s))
  BY DEF ReadStatus, Reread, Informs
<1> QED
  BY <1>3, <1>4, <1>5

\* Seats, and what becomes of the caller that has one.
LEMMA SeatMoves ==
  ASSUME Shape, NEW c \in Caller, InProgress(c), NEW p \in Places, To(c, p)
  PROVE  /\ Alone(c) /\ call'[c].pc = p /\ call'[c].op = call[c].op
         /\ call'[c].seen = call[c].seen
         /\ InSeat(c)' <=> (p \in {"enroll", "unseat"} \/ (p = "permit" /\ call[c].op = "enroll"))
<1>1. Further(c, p) /\ Same(call'[c], call[c])
  BY ToFurther DEF Shape, Anyone
<1>2. Alone(c) /\ call'[c].pc = p /\ call'[c].op = call[c].op /\ call'[c].seen = call[c].seen
  BY <1>1, StepsAlone DEF Further, Same
<1> QED
  BY <1>2 DEF InSeat, At

LEMMA SeatOver ==
  ASSUME Shape, NEW c \in Caller, End(c)
  PROVE  Alone(c) /\ ~InSeat(c)' /\ ~Fills(c)'
<1>1. Leaves(c) /\ call'[c].pc = "idle"
  BY OverLeaves DEF Shape, Anyone
<1> QED
  BY <1>1, StepsAlone DEF InSeat, At, Fills

LEMMA PermitSeats ==
  ASSUME ExternalAgentsAssumption, Shape, Seating, NEW c \in Caller, Permit(c)
  PROVE  Seating'
<1>1. /\ InProgress(c) /\ UNCHANGED <<status, seats, lost, faults>> /\ At(c, "permit")
      /\ call[c].op \in {"enroll", "contain", "release", "revoke"}
  BY AtIsInProgress, OpsAt DEF Permit, Places, enrollment
<1>2. CASE call[c].op = "enroll"
  <2>1. To(c, "enroll") \/ To(c, "unseat")
    BY <1>2 DEF Permit
  <2>2. Alone(c) /\ InSeat(c) /\ InSeat(c)' /\ ~Fills(c)'
    BY <1>1, <1>2, <2>1, SeatMoves DEF Places, InSeat, Fills
  <2>3. Known'
    BY <1>1, <2>2, KnownKept DEF Seating, Known
  <2>4. Seated' = Seated /\ Roster' = Roster
    BY <1>1, <2>2, SeatedAfter DEF Roster
  <2> QED
    BY <1>1, <2>3, <2>4, CountedSame DEF Seating
<1>3. CASE call[c].op # "enroll"
  <2>1. End(c) \/ To(c, "clear") \/ To(c, "set")
    BY <1>3 DEF Permit
  <2>2. ~InSeat(c)
    BY <1>1, <1>3 DEF InSeat, At
  <2>3. Alone(c) /\ ~InSeat(c)' /\ (Fills(c)' => call'[c].seen = call[c].seen /\ Fills(c))
    BY <1>1, <2>1, SeatMoves, SeatOver DEF Places, Fills, At
  <2>4. Known'
    BY <1>1, <2>3, KnownKept DEF Seating, Known
  <2>5. Seated' = Seated /\ Roster' = Roster
    BY <1>1, <2>2, <2>3, SeatedAfter DEF Roster
  <2> QED
    BY <1>1, <2>4, <2>5, CountedSame DEF Seating
<1> QED
  BY <1>2, <1>3

LEMMA CheckNameSeats ==
  ASSUME ExternalAgentsAssumption, Shape, Seating, NEW c \in Caller, CheckName(c)
  PROVE  Seating'
<1>1. InProgress(c) /\ UNCHANGED <<status, seats, lost, faults>> /\ ~InSeat(c)
  BY AtIsInProgress DEF CheckName, Places, enrollment, InSeat, At
<1>2. End(c) \/ To(c, "seat")
  BY DEF CheckName
<1> QED
  BY <1>1, <1>2, ToAside, OverAside, SeatingAside DEF Places

LEMMA ClaimSeatSeats ==
  ASSUME ExternalAgentsAssumption, Shape, Seating, NEW c \in Caller, ClaimSeat(c)
  PROVE  Seating'
<1>1. /\ InProgress(c) /\ UNCHANGED <<status, lost, faults>> /\ ~InSeat(c) /\ At(c, "seat")
  BY AtIsInProgress DEF ClaimSeat, Places, InSeat, At
<1>2. CASE End(c) /\ UNCHANGED seats
  BY <1>1, <1>2, OverAside, SeatingAside
<1>3. CASE seats' = seats + 1 /\ To(c, "permit")
  <2>1. call[c].op = "enroll"
    BY <1>1, OpsAt
  <2>2. Alone(c) /\ InSeat(c)' /\ ~Fills(c)'
    BY <1>1, <1>3, <2>1, SeatMoves DEF Places, Fills
  <2>3. Known'
    BY <1>1, <2>2, KnownKept DEF Seating, Known
  <2>4. Cardinality(Seated') = Cardinality(Seated) + 1
    BY <1>1, <2>2, SeatedAfter, SeatedCounts
  <2>5. Roster' = Roster
    BY <1>1 DEF Roster
  <2>6. Counted'
    BY <1>1, <1>3, <2>4, <2>5, CountedTyped DEF Counted, Seating
  <2> QED
    BY <2>3, <2>6 DEF Seating
<1> QED
  BY <1>2, <1>3 DEF ClaimSeat

\* The seat of an enrollment goes from the caller to the agent, or stays to be returned.
LEMMA EnrollSeats ==
  ASSUME ExternalAgentsAssumption, Shape, Seating, NEW c \in Caller, Enroll(c)
  PROVE  Seating'
<1>1. /\ InProgress(c) /\ UNCHANGED <<seats, lost, faults>> /\ InSeat(c)
      /\ call[c].who \in Agent /\ call[c].op = "enroll"
  BY AtIsInProgress, OpsAt DEF Enroll, Places, InSeat
<1>2. CASE To(c, "unseat") /\ UNCHANGED status
  <2>1. Alone(c) /\ InSeat(c)' /\ ~Fills(c)'
    BY <1>1, <1>2, SeatMoves DEF Places, Fills
  <2>2. Known'
    BY <1>1, <1>2, <2>1, KnownKept DEF Seating, Known
  <2>3. Seated' = Seated /\ Roster' = Roster
    BY <1>1, <1>2, <2>1, SeatedAfter DEF Roster
  <2> QED
    BY <1>1, <2>2, <2>3, CountedSame DEF Seating
<1>3. CASE Moves(call[c].who, "none", "active") /\ End(c)
  <2>1. Alone(c) /\ ~InSeat(c)' /\ ~Fills(c)'
    BY <1>3, SeatOver
  <2>2. \A x \in Agent : status[x] # "none" => status'[x] # "none"
    BY <1>1, <1>3, MovesFacts DEF Statuses
  <2>3. Known'
    BY <1>1, <2>1, <2>2, KnownKept DEF Seating, Known
  <2>4. Cardinality(Seated') = Cardinality(Seated) - 1
    BY <1>1, <2>1, SeatedAfter, SeatedCounts
  <2>5. IsFiniteSet(Roster') /\ Cardinality(Roster') = Cardinality(Roster) + 1
    BY <1>1, <1>3, RosterGains DEF Seating
  <2>6. Counted'
    BY <1>1, <2>4, <2>5, CountedTyped DEF Counted, Seating
  <2> QED
    BY <2>3, <2>6 DEF Seating
<1> QED
  BY <1>2, <1>3 DEF Enroll

LEMMA UnseatSeats ==
  ASSUME ExternalAgentsAssumption, Shape, Seating, NEW c \in Caller, Unseat(c)
  PROVE  Seating'
<1>1. /\ InProgress(c) /\ UNCHANGED <<status, lost, faults>> /\ InSeat(c) /\ End(c)
      /\ seats' = IF seats = 0 THEN 0 ELSE seats - 1
  BY AtIsInProgress DEF Unseat, Places, InSeat
<1>2. Alone(c) /\ ~InSeat(c)' /\ ~Fills(c)'
  BY <1>1, SeatOver
<1>3. Known'
  BY <1>1, <1>2, KnownKept DEF Seating, Known
<1>4. Cardinality(Seated') = Cardinality(Seated) - 1
  BY <1>1, <1>2, SeatedAfter, SeatedCounts
<1>5. Cardinality(Seated') \in Nat
  <2>1. Cardinality(Seated) # 0
    BY <1>1, SeatedFinite, FS_EmptySet
  <2> QED
    BY <1>4, <2>1, SeatedFinite
<1>6. Roster' = Roster
  BY <1>1 DEF Roster
<1>7. Counted'
  BY <1>1, <1>4, <1>5, <1>6, CountedTyped DEF Counted, Seating
<1> QED
  BY <1>3, <1>7 DEF Seating

\* The seat of an agent revoked goes to the caller that revoked it.
LEMMA RevokeSeats ==
  ASSUME ExternalAgentsAssumption, Shape, Seating, NEW c \in Caller, Revoke(c)
  PROVE  Seating'
<1>1. /\ InProgress(c) /\ UNCHANGED <<seats, lost, faults>> /\ ~InSeat(c)
      /\ call[c].who \in Agent /\ call[c].op = "revoke" /\ Fills(c)
      /\ call[c].seen \in {"active", "contained"}
  <2>1. /\ InProgress(c) /\ UNCHANGED <<seats, lost, faults>> /\ ~InSeat(c) /\ Fills(c)
        /\ call[c].op = "revoke"
    BY AtIsInProgress DEF Revoke, Places, InSeat, At, Fills
  <2> QED
    BY <2>1, OpsAt DEF Seating, Known
<1>2. CASE UNCHANGED status /\ (End(c) \/ To(c, "reread"))
  <2>1. Alone(c) /\ ~InSeat(c)' /\ ~Fills(c)'
    BY <1>1, <1>2, SeatMoves, SeatOver DEF Places, Fills
  <2>2. Known'
    BY <1>1, <1>2, <2>1, KnownKept DEF Seating, Known
  <2>3. Seated' = Seated /\ Roster' = Roster
    BY <1>1, <1>2, <2>1, SeatedAfter DEF Roster
  <2> QED
    BY <1>1, <2>2, <2>3, CountedSame DEF Seating
<1>3. CASE Moves(call[c].who, call[c].seen, "revoked") /\ To(c, "unseat")
  <2>1. Alone(c) /\ InSeat(c)' /\ ~Fills(c)'
    BY <1>1, <1>3, SeatMoves DEF Places, Fills
  <2>2. \A x \in Agent : status[x] # "none" => status'[x] # "none"
    BY <1>1, <1>3, MovesFacts DEF Statuses
  <2>3. Known'
    BY <1>1, <2>1, <2>2, KnownKept DEF Seating, Known
  <2>4. Cardinality(Seated') = Cardinality(Seated) + 1
    BY <1>1, <2>1, SeatedAfter, SeatedCounts
  <2>5. IsFiniteSet(Roster') /\ Cardinality(Roster') = Cardinality(Roster) - 1
    BY <1>1, <1>3, RosterLoses DEF Seating
  <2>6. Counted'
    BY <1>1, <2>4, <2>5, CountedTyped DEF Counted, Seating
  <2> QED
    BY <2>3, <2>6 DEF Seating
<1> QED
  BY <1>2, <1>3 DEF Revoke

LEMMA ContainSeats ==
  ASSUME ExternalAgentsAssumption, Shape, Seating, NEW c \in Caller, Contain(c)
  PROVE  Seating'
<1>1. /\ InProgress(c) /\ UNCHANGED <<seats, lost, faults>> /\ ~InSeat(c) /\ End(c)
      /\ call[c].who \in Agent
  BY AtIsInProgress, OpsAt DEF Contain, Places, InSeat, At
<1>2. Roster' = Roster /\ \A y \in Agent : status[y] # "none" => status'[y] # "none"
  <2>1. CASE Moves(call[c].who, "active", "contained")
    BY <1>1, <2>1, RosterStays
  <2>2. CASE UNCHANGED status
    BY <2>2 DEF Roster
  <2> QED
    BY <2>1, <2>2 DEF Contain
<1> QED
  BY <1>1, <1>2, OverAside, AsideKnown, CountedSame DEF Seating

LEMMA ReleaseSeats ==
  ASSUME ExternalAgentsAssumption, Shape, Seating, NEW c \in Caller, Release(c)
  PROVE  Seating'
<1>1. /\ InProgress(c) /\ UNCHANGED <<seats, lost, faults>> /\ ~InSeat(c)
      /\ call[c].who \in Agent
  BY AtIsInProgress, OpsAt DEF Release, Places, InSeat, At
<1>2. CASE End(c) /\ UNCHANGED status
  BY <1>1, <1>2, OverAside, SeatingAside
<1>3. CASE Moves(call[c].who, "contained", "active") /\ call' = Freed(c)
  <2>1. Roster' = Roster /\ \A y \in Agent : status[y] # "none" => status'[y] # "none"
    BY <1>1, <1>3, RosterStays
  <2>2. \A d \in Caller : d \in Anyone
    BY DEF Anyone
  <2>3. /\ ~InProgress(c)' /\ call'[c].pc = "idle"
        /\ \A d \in Caller : d # c => call'[d].pc = call[d].pc
        /\ \A d \in Caller : d # c /\ InProgress(d) =>
             call'[d].op = call[d].op /\ call'[d].who = call[d].who /\ call'[d].seen = call[d].seen
    BY <1>3, <2>2, FreedFacts DEF Idle
  <2>4. \A d \in Caller : InProgress(d)' =>
          /\ InProgress(d) /\ call'[d].pc = call[d].pc
          /\ call'[d].op = call[d].op /\ call'[d].who = call[d].who /\ call'[d].seen = call[d].seen
    BY <2>3 DEF InProgress, At
  <2>5. Known'
    <3>1. ASSUME NEW d \in Caller, InProgress(d)', call'[d].op # "enroll"
          PROVE  status'[call'[d].who] # "none"
      <4>1. call[d].who \in Agent /\ status[call[d].who] # "none"
        BY <2>4, <3>1, FitHere DEF Seating, Known, Aimed
      <4> QED
        BY <2>1, <2>4, <3>1, <4>1
    <3>2. ASSUME NEW d \in Caller, Fills(d)'
          PROVE  call'[d].seen \in {"active", "contained"}
      BY <2>4, <3>2 DEF Seating, Known, Fills
    <3> QED
      BY <1>1, <2>1, <3>1, <3>2 DEF Known, Seating
  <2>6. Seated' = Seated
    <3>1. ASSUME NEW d \in Caller
          PROVE  InSeat(d)' <=> InSeat(d)
      <4>1. CASE d = c
        BY <1>1, <2>3, <4>1 DEF InSeat, At
      <4>2. CASE d # c
        <5>1. InSeat(d) \/ InSeat(d)' => InProgress(d)
          BY <2>3, <4>2 DEF InSeat, At, InProgress
        <5> QED
          BY <2>3, <4>2, <5>1 DEF InSeat, At
      <4> QED
        BY <4>1, <4>2
    <3> QED
      BY <3>1 DEF Seated, InSeat
  <2> QED
    BY <1>1, <2>1, <2>5, <2>6, CountedSame DEF Seating
<1> QED
  BY <1>2, <1>3 DEF Release, Freed

LEMMA BeginSeats ==
  ASSUME ExternalAgentsAssumption, Shape, Seating, NEW c \in Caller,
         NEW op \in Admitted \cup Beating \cup Operating, NEW a \in Agent,
         NEW e \in Episode \cup {"none"}, Begin(c, op, a, e)
  PROVE  Seating'
<1>1. UNCHANGED <<status, seats, lost, faults>>
  BY DEF Begin, enrollment
<1>2. /\ ~InProgress(c) /\ \A d \in Caller : d # c => call'[d] = call[d]
      /\ call'[c].op = op /\ call'[c].who = a
      /\ call'[c].pc \in {"rate", "name", "read"} /\ (op # "enroll" => status[a] # "none")
  BY BeginFacts DEF Admitted, Beating, Operating, Anyone
<1>3. Known'
  <2>1. \A d \in Caller : d # c /\ InProgress(d)' => InProgress(d)
    BY <1>2 DEF InProgress, At
  <2> QED
    BY <1>1, <1>2, <2>1 DEF Seating, Known, Fills
<1>4. Seated' = Seated /\ Roster' = Roster
  <2>1. \A d \in Caller : InSeat(d)' <=> InSeat(d)
    BY <1>2 DEF InSeat, At, InProgress
  <2> QED
    BY <1>1, <2>1 DEF Seated, InSeat, Roster
<1> QED
  BY <1>1, <1>3, <1>4, CountedSame DEF Seating

\* The sweep, the pause and time leave the calls and the enrollments alone.
LEMMA SeatingOthers ==
  ASSUME ExternalAgentsAssumption, Shape, Seating, \A d \in Caller : call'[d] = call[d],
         UNCHANGED <<status, seats, lost, faults>>
  PROVE  Seating'
<1>1. Known'
  BY DEF Seating, Known, Fills, InProgress, At
<1>2. Seated' = Seated /\ Roster' = Roster
  BY DEF Seated, Roster, At
<1> QED
  BY <1>1, <1>2, CountedSame DEF Seating

LEMMA SweepSeats ==
  ASSUME ExternalAgentsAssumption, Shape, Seating, Sweep
  PROVE  Seating'
<1>1. UNCHANGED <<status, seats, lost, faults>>
  BY DEF Sweep, ListStale, CloseRun, ReclaimRun, enrollment
<1> QED
  BY <1>1, SweepTurns, SeatingOthers

\* A set that gains a member it did not have counts one more.
LEMMA MemberCounts ==
  ASSUME NEW S, NEW T, NEW x, IsFiniteSet(S), x \notin S, T = S \cup {x}
  PROVE  Cardinality(T) = Cardinality(S) + 1
<1>1. Cardinality(S \cup {x}) = Cardinality(S) + 1
  BY FS_AddElement
<1> QED
  BY <1>1

\* A failure leaves a seat without an agent, and once an agent without a seat: it is lost.
LEMMA FailureSeats ==
  ASSUME ExternalAgentsAssumption, Shape, Seating, Failure
  PROVE  Seating'
<1>1. faults' # 0
  BY Faulted DEF Failure, Lost, PauseUnreadable, CreateFails, EnrollFails
<1>2. ASSUME NEW c \in Anyone, Lost(c)
      PROVE  Seating'
  <2>1. InProgress(c) /\ Leaves(c) /\ UNCHANGED <<status, seats, lost>> /\ Alone(c)
    BY <1>2, OverLeaves, StepsAlone DEF Lost, Shape, enrollment
  <2>2. \A d \in Caller : d # c => call'[d] = call[d]
    BY <2>1 DEF Alone, Anyone
  <2>3. Known'
    <3>1. CASE c \in Caller
      <4>1. ~Fills(c)'
        BY <2>1 DEF Fills, Leaves, InProgress, At
      <4> QED
        BY <2>1, <3>1, <4>1, KnownKept DEF Seating, Known
    <3>2. CASE c \notin Caller
      BY <2>1, <2>2, <3>2 DEF Seating, Known, Fills, InProgress, At
    <3> QED
      BY <3>1, <3>2
  <2>4. Seated' \subseteq Seated
    <3>1. ~InSeat(c)'
      BY <2>1 DEF InSeat, Leaves, At
    <3> QED
      BY <2>2, <3>1 DEF Seated, InSeat, At
  <2>5. Cardinality(Seated') <= Cardinality(Seated) /\ Cardinality(Seated') \in Nat
    BY <2>4, SeatedFinite, FS_Subset, FS_CardinalityType
  <2>6. Roster' = Roster
    BY <2>1 DEF Roster
  <2>7. Counted'
    BY <1>1, <2>1, <2>5, <2>6, CountedTyped DEF Counted, Seating
  <2> QED
    BY <2>3, <2>7 DEF Seating
<1>3. ASSUME NEW c \in Caller, NEW done \in BOOLEAN, CreateFails(c, done)
      PROVE  Seating'
  <2>1. /\ InProgress(c) /\ At(c, "create") /\ To(c, "abandon") /\ UNCHANGED <<status, seats>>
        /\ ~InSeat(c)
    BY <1>3, AtIsInProgress DEF CreateFails, Places, enrollment, InSeat, At
  <2>2. Alone(c) /\ ~InSeat(c)' /\ ~Fills(c)'
    BY <2>1, SeatMoves DEF Places, Fills
  <2>3. lost' \cap Agent = lost \cap Agent /\ IsFiniteSet(lost')
    <3>1. call[c].on \in Live
      BY <2>1, OpsAt, FitHere DEF Aimed
    <3>2. call[c].on \notin Agent
      BY <3>1, Sizes
    <3>3. lost' = lost \/ lost' = lost \cup {call[c].on}
      BY <1>3 DEF CreateFails
    <3>4. lost' \cap Agent = lost \cap Agent
      BY <3>2, <3>3
    <3>5. IsFiniteSet(lost)
      BY DEF Seating, Counted
    <3>6. IsFiniteSet(lost \cup {call[c].on})
      BY <3>5, FS_AddElement
    <3>7. IsFiniteSet(lost')
      BY <3>3, <3>5, <3>6
    <3> QED
      BY <3>4, <3>7
  <2>4. Known'
    <3>1. \A x \in lost' \cap Agent : status'[x] # "none"
      BY <2>1, <2>3 DEF Seating, Known
    <3> QED
      BY <2>1, <2>2, <3>1, KnownKept DEF Seating
  <2>5. Seated' = Seated /\ Roster' = Roster
    BY <2>1, <2>2, SeatedAfter DEF Roster
  <2>6. Counted'
    BY <1>1, <2>1, <2>3, <2>5 DEF Counted, Seating
  <2> QED
    BY <2>4, <2>6 DEF Seating
<1>4. ASSUME NEW c \in Caller, NEW done \in BOOLEAN, EnrollFails(c, done)
      PROVE  Seating'
  <2>1. /\ InProgress(c) /\ To(c, "unseat") /\ UNCHANGED seats /\ InSeat(c)
        /\ call[c].who \in Agent /\ call[c].op = "enroll"
    BY <1>4, AtIsInProgress, OpsAt DEF EnrollFails, Places, InSeat
  <2>2. Alone(c) /\ InSeat(c)' /\ ~Fills(c)'
    BY <2>1, SeatMoves DEF Places, Fills
  <2>3. Seated' = Seated
    BY <2>1, <2>2, SeatedAfter
  <2>4. CASE UNCHANGED <<status, lost>>
    <3>1. Known'
      BY <2>1, <2>2, <2>4, KnownKept DEF Seating, Known
    <3>2. Roster' = Roster
      BY <2>4 DEF Roster
    <3>3. Counted'
      BY <1>1, <2>1, <2>3, <2>4, <3>2 DEF Counted, Seating
    <3> QED
      BY <3>1, <3>3 DEF Seating
  <2>5. CASE Moves(call[c].who, "none", "active") /\ lost' = lost \cup {call[c].who}
    <3> DEFINE x == call[c].who
    <3>1. /\ status[x] = "none" /\ status'[x] = "active" /\ x \in Agent
          /\ \A y \in Agent : y # x => status'[y] = status[y]
      BY <2>1, <2>5, MovesFacts DEF Statuses
    <3>2. x \notin lost /\ IsFiniteSet(lost \cap Agent)
      BY <3>1, CountedTyped DEF Seating, Known
    <3>3. lost' \cap Agent = (lost \cap Agent) \cup {x} /\ IsFiniteSet(lost')
      BY <2>5, <3>1, FS_AddElement DEF Seating, Counted
    <3>4. Cardinality(lost' \cap Agent) = Cardinality(lost \cap Agent) + 1
      <4>1. x \notin lost \cap Agent
        BY <3>2
      <4> QED
        BY <3>2, <3>3, <4>1, MemberCounts
    <3>5. Known'
      <4>1. \A y \in lost' \cap Agent : status'[y] # "none"
        BY <3>1, <3>3 DEF Seating, Known
      <4>2. \A y \in Agent : status[y] # "none" => status'[y] # "none"
        BY <3>1
      <4> QED
        BY <2>1, <2>2, <4>1, <4>2, KnownKept DEF Seating
    <3>6. IsFiniteSet(Roster') /\ Cardinality(Roster') = Cardinality(Roster) + 1
      BY <2>1, <2>5, RosterGains DEF Seating
    <3>7. Counted'
      BY <1>1, <2>1, <2>3, <3>3, <3>4, <3>6, CountedTyped DEF Counted, Seating
    <3> QED
      BY <3>5, <3>7 DEF Seating
  <2> QED
    BY <1>4, <2>4, <2>5 DEF EnrollFails
<1>5. ASSUME NEW c \in Caller, PauseUnreadable(c)
      PROVE  Seating'
  <2>1. /\ InProgress(c) /\ At(c, "pause") /\ To(c, "stop") /\ UNCHANGED <<status, seats, lost>>
        /\ ~InSeat(c)
    BY <1>5, AtIsInProgress DEF PauseUnreadable, Places, enrollment, InSeat, At
  <2>2. Alone(c) /\ ~InSeat(c)' /\ ~Fills(c)'
    BY <2>1, SeatMoves DEF Places, Fills
  <2>3. Known'
    BY <2>1, <2>2, KnownKept DEF Seating, Known
  <2>4. Seated' = Seated /\ Roster' = Roster
    BY <2>1, <2>2, SeatedAfter DEF Roster
  <2>5. Counted'
    BY <1>1, <2>1, <2>4 DEF Counted, Seating
  <2> QED
    BY <2>3, <2>5 DEF Seating
<1> QED
  BY <1>2, <1>3, <1>4, <1>5 DEF Failure, Anyone

LEMMA SeatingStarts ==
  ASSUME ExternalAgentsAssumption, Init
  PROVE  Seating
<1>1. Roster = Enrolled
  BY Sizes DEF Init, Roster
<1>2. \A c \in Caller : call[c].pc = "idle"
  BY DEF Init, Idle
<1>3. Seated = {} /\ Known
  BY <1>2 DEF Seated, At, Known, Fills, InProgress, Init
<1>4. lost = {} /\ IsFiniteSet({}) /\ Cardinality({}) = 0 /\ seats = Cardinality(Enrolled)
  BY FS_EmptySet DEF Init
<1>5. Cardinality(Enrolled) \in Nat /\ IsFiniteSet(Enrolled)
  BY Sizes, FS_CardinalityType
<1>6. lost \cap Agent = {}
  BY <1>4
<1>7. Counted
  BY <1>1, <1>3, <1>4, <1>5, <1>6 DEF Counted
<1> QED
  BY <1>3, <1>7 DEF Seating

LEMMA SeatingStep ==
  ASSUME ExternalAgentsAssumption, Shape, Seating, [Next]_vars
  PROVE  Seating'
<1>1. CASE UNCHANGED vars \/ Pause \/ Tick
  <2>1. UNCHANGED <<call, status, seats, lost, faults>>
    BY <1>1 DEF vars, enrollment, Pause, Tick
  <2> QED
    BY <2>1, SeatingOthers
<1>2. ASSUME NEW c \in Caller, NEW op \in Admitted \cup Beating \cup Operating, NEW a \in Agent,
             NEW e \in Episode \cup {"none"}, Begin(c, op, a, e)
      PROVE  Seating'
  BY <1>2, BeginSeats
<1>3. ASSUME NEW c \in Caller, Admission(c) \/ Episodes(c) \/ CloseRun(c)
      PROVE  Seating'
  BY <1>3, RequestSeats
<1>4. ASSUME NEW c \in Caller, Command(c)
      PROVE  Seating'
  BY <1>4, ReadsSeats, PermitSeats, ContainSeats, ReleaseSeats, RevokeSeats, CheckNameSeats,
     ClaimSeatSeats, EnrollSeats, UnseatSeats DEF Command
<1> QED
  BY <1>1, <1>2, <1>3, <1>4, SweepSeats, FailureSeats DEF Next

\* Agents enrolled and calls between a seat and its use together never outnumber the seats
\* claimed, but for agents whose creation seemed to fail, and without failures they are as
\* many; a revocation compares with a status it read (enrollment.ts:592-604, 866-868).
THEOREM SeatingAlways == Spec => []Seating
<1>1. Init => Seating
  BY ExternalAgentsAssumption, SeatingStarts
<1>2. Shape /\ Seating /\ [Next]_vars => Seating'
  BY ExternalAgentsAssumption, SeatingStep
<1> QED
  BY <1>1, <1>2, ShapeAlways, PTL DEF Spec

\* Enrollments and revocations racing each other, retried, or failing half way never admit
\* more agents than the seats claimed for them, but for an agent whose creation seemed to
\* fail; and without failures no seat leaks and none is returned twice
\* (enrollment.ts:592-604, 866-868).
THEOREM SeatsCover == Spec => []SeatsCoverRoster
<1>1. Shape /\ Seating => SeatsCoverRoster
  <2> SUFFICES ASSUME Shape, Seating PROVE SeatsCoverRoster
    OBVIOUS
  <2>1. /\ Cardinality(Roster) \in Nat /\ Cardinality(Seated) \in Nat
        /\ Cardinality(lost \cap Agent) \in Nat /\ seats \in 0..SeatCap /\ seats \in Nat
        /\ SeatCap \in Nat
    BY ExternalAgentsAssumption, CountedTyped, Sizes DEF Seating
  <2> QED
    BY <2>1 DEF Seating, Counted, SeatsCoverRoster
<1> QED
  BY <1>1, ShapeAlways, SeatingAlways, PTL

-----------------------------------------------------------------------------
(* The record of a live run. *)

WorkPlaces == {"create", "abandon", "close", "cost", "charge"}

\* This call is between two writes about an episode.
Works(c, e) == InProgress(c) /\ call[c].on = e /\ call[c].pc \in WorkPlaces

EndTold(r) ==
  IF live[r].status = "none" THEN record[r] = "failed"
  ELSE live[r].status \in Closing /\ record[r] = Outcome[live[r].status]

RunRecorded(r) ==
  /\ live[r].status # "none" => record[r] # "none"
  /\ r \notin lost /\ Ended(r) => EndTold(r)
  /\ live[r].status \in Closing /\ faults = 0 => Ended(r) \/ AtWork(r)

\* What the property says, of runs that seemed not to be created too where it holds.
Recorded == \A r \in Live : RunRecorded(r)

Others(c) == \A d \in Anyone : d # c => call'[d] = call[d]

LEMMA AtWorkIs ==
  ASSUME NEW e
  PROVE  AtWork(e) <=> \E c \in Anyone : Works(c, e)
BY DEF AtWork, Works, WorkPlaces, Anyone

\* Two statuses of a live run, and its record, are those of before.
SameRun(r) == live'[r].status = live[r].status /\ record'[r] = record[r]

\* A step of one call touches one run at most, and leaves the work on others alone.
LEMMA RecordedBut ==
  ASSUME Recorded, NEW c \in Anyone, Others(c), NEW e,
         \A r \in Live : r # e => SameRun(r) /\ (Works(c, r) => Works(c, r)'),
         e \in Live => RunRecorded(e)',
         lost \subseteq lost', faults' = faults \/ faults' # 0
  PROVE  Recorded'
<1> SUFFICES ASSUME NEW r \in Live
             PROVE  RunRecorded(r)'
  BY DEF Recorded
<1>1. CASE r = e
  BY <1>1
<1>2. CASE r # e
  <2>1. RunRecorded(r)
    BY DEF Recorded
  <2>2. live'[r].status = live[r].status /\ record'[r] = record[r]
    BY <1>2 DEF SameRun
  <2>3. AtWork(r) => AtWork(r)'
    <3>1. ASSUME NEW d \in Anyone, Works(d, r)
          PROVE  Works(d, r)'
      <4>1. CASE d = c
        BY <1>2, <3>1, <4>1
      <4>2. CASE d # c
        BY <3>1, <4>2 DEF Others, Works, InProgress, At
      <4> QED
        BY <4>1, <4>2
    <3> QED
      BY <3>1, AtWorkIs DEF AtWork, Works, WorkPlaces, Anyone
  <2>4. (Ended(r)' <=> Ended(r)) /\ (EndTold(r)' <=> EndTold(r))
    BY <2>2 DEF Ended, EndTold
  <2> QED
    BY <2>1, <2>2, <2>3, <2>4 DEF RunRecorded
<1> QED
  BY <1>1, <1>2

LEMMA NoneLive ==
  ASSUME ExternalAgentsAssumption
  PROVE  "none" \notin Live
BY Sizes DEF Episode

\* A call that is not between two writes changes neither.
LEMMA RecordedAside ==
  ASSUME ExternalAgentsAssumption, Recorded, NEW c \in Anyone, Others(c),
         ~InProgress(c) \/ call[c].pc \notin WorkPlaces,
         \A r \in Live : SameRun(r),
         lost \subseteq lost', faults' = faults \/ faults' # 0
  PROVE  Recorded'
<1>1. \A r : ~Works(c, r)
  BY DEF Works
<1> QED
  BY <1>1, NoneLive, RecordedBut

LEMMA AdmissionRecorded ==
  ASSUME ExternalAgentsAssumption, Shape, Recorded, NEW c \in Caller, Admission(c)
  PROVE  Recorded'
<1>1. Others(c) /\ c \in Anyone
  BY AdmissionAside, StepsAlone DEF Aside, Alone, Others, Anyone
<1>2. call[c].pc \notin WorkPlaces /\ UNCHANGED <<live, record, lost, faults>>
  BY DEF Admission, Rate, ReadAgent, AskPause, Judge, Deny, ContainForDenials, ClearDenials,
     WorkPlaces, At, episodes
<1> QED
  BY <1>1, <1>2, RecordedAside DEF SameRun

LEMMA EpisodesOthers ==
  ASSUME ExternalAgentsAssumption, Shape, NEW c \in Caller, Episodes(c) \/ CloseRun(c)
  PROVE  Others(c) /\ c \in Anyone /\ InProgress(c) /\ UNCHANGED <<lost, faults>>
BY EpisodesAside, StepsAlone DEF Aside, Alone, Others, Anyone

LEMMA ReadsRecorded ==
  ASSUME ExternalAgentsAssumption, Shape, Recorded, NEW c \in Caller,
         \/ BeginRun(c) \/ ReadRun(c) \/ Replay(c)
         \/ \E cost \in 0..Total : Claim(c, cost)
  PROVE  Recorded'
<1>1. Others(c) /\ c \in Anyone /\ UNCHANGED <<lost, faults>>
  BY EpisodesOthers DEF Episodes
<1>2. call[c].pc \notin WorkPlaces /\ UNCHANGED <<live, record>>
  BY DEF BeginRun, ReadRun, Replay, Claim, WorkPlaces, At, episodes
<1> QED
  BY <1>1, <1>2, RecordedAside DEF SameRun

LEMMA OpenRunRecorded ==
  ASSUME ExternalAgentsAssumption, Shape, Recorded, NEW c \in Caller, OpenRun(c)
  PROVE  Recorded'
<1>0. PICK e : e = call[c].on
  OBVIOUS
<1>1. Others(c) /\ c \in Anyone /\ InProgress(c) /\ UNCHANGED <<lost, faults>>
  BY EpisodesOthers DEF Episodes
<1>2. At(c, "open") /\ UNCHANGED live /\ record' = [record EXCEPT ![e] = "running"]
  BY <1>0 DEF OpenRun
<1>3. record \in [Episode -> RecordStatus] /\ Live \subseteq Episode
  BY DEF Shape, TypeOK, RecordStatus, Episode
<1>4. \A r \in Live : r # e => SameRun(r) /\ ~Works(c, r)
  BY <1>0, <1>2, <1>3 DEF SameRun, Works
<1>5. ASSUME e \in Live
      PROVE  RunRecorded(e)'
  <2>1. call[c].op = "start"
    <3>1. call[c].op \in {"start", "report"} /\ Aimed(call[c])
      BY <1>0, <1>1, <1>2, OpsAt, FitHere
    <3> QED
      BY <1>0, <1>5, <3>1, Sizes DEF Aimed
  <2>2. live[e].status = "none"
    BY <1>0, <1>1, <1>2, <2>1 DEF Shape, StartsAlone, Starting, At
  <2>3. record'[e] = "running" /\ live'[e].status = "none"
    BY <1>0, <1>2, <1>3, <1>5, <2>2
  <2> QED
    BY <1>0, <2>3 DEF RunRecorded, Ended, Closing
<1> QED
  BY <1>1, <1>4, <1>5, RecordedBut

\* A run that is running and not lost has an open record.
LEMMA CreatedRecorded ==
  ASSUME ExternalAgentsAssumption, Shape, Recorded, NEW c \in Caller, At(c, "create"),
         live' = Created(c), UNCHANGED record, Others(c), lost \subseteq lost',
         faults' = faults \/ faults' # 0
  PROVE  Recorded'
<1>0. PICK e : e = call[c].on
  OBVIOUS
<1>1. /\ e \in Live /\ record[e] = "running" /\ live'[e].status = "running"
      /\ \A q \in Live : q # e => live'[q] = live[q]
  BY <1>0, CreatedFacts
<1>2. RunRecorded(e)'
  BY <1>0, <1>1 DEF RunRecorded, Ended, Closing
<1>3. \A r \in Live : r # e => SameRun(r) /\ ~Works(c, r)
  BY <1>0, <1>1 DEF SameRun, Works
<1>4. c \in Anyone
  BY DEF Anyone
<1> QED
  BY <1>2, <1>3, <1>4, RecordedBut

LEMMA CreateRunRecorded ==
  ASSUME ExternalAgentsAssumption, Shape, Recorded, NEW c \in Caller, CreateRun(c)
  PROVE  Recorded'
<1>1. Others(c) /\ UNCHANGED <<lost, faults>>
  BY EpisodesOthers DEF Episodes
<1> QED
  BY <1>1, CreatedRecorded DEF CreateRun

LEMMA AbandonRecorded ==
  ASSUME ExternalAgentsAssumption, Shape, Recorded, NEW c \in Caller, Abandon(c)
  PROVE  Recorded'
<1>0. PICK e : e = call[c].on
  OBVIOUS
<1>1. Others(c) /\ c \in Anyone /\ InProgress(c) /\ UNCHANGED <<lost, faults>>
  BY EpisodesOthers DEF Episodes
<1>2. At(c, "abandon") /\ UNCHANGED live /\ record' = [record EXCEPT ![e] = "failed"]
  BY <1>0 DEF Abandon
<1>3. record \in [Episode -> RecordStatus] /\ Live \subseteq Episode
  BY DEF Shape, TypeOK, RecordStatus, Episode
<1>4. \A r \in Live : r # e => SameRun(r) /\ ~Works(c, r)
  BY <1>0, <1>2, <1>3 DEF SameRun, Works
<1>5. ASSUME e \in Live
      PROVE  RunRecorded(e)'
  <2>1. call[c].op = "start"
    BY <1>0, <1>1, <1>2, OpsAt
  <2>2. live[e].status = "none" \/ e \in lost
    BY <1>0, <1>1, <2>1 DEF Shape, StartsAlone, Starting
  <2>3. record'[e] = "failed" /\ live'[e] = live[e]
    BY <1>0, <1>2, <1>3, <1>5
  <2> QED
    BY <1>0, <1>1, <2>2, <2>3 DEF RunRecorded, Ended, EndTold
<1> QED
  BY <1>1, <1>4, <1>5, RecordedBut

LEMMA BeatRecorded ==
  ASSUME ExternalAgentsAssumption, Shape, Recorded, NEW c \in Caller, Beat(c)
  PROVE  Recorded'
<1>1. Others(c) /\ c \in Anyone /\ InProgress(c) /\ UNCHANGED <<lost, faults>>
  BY EpisodesOthers DEF Episodes
<1>2. call[c].pc \notin WorkPlaces /\ At(c, "beat") /\ UNCHANGED record
  BY DEF Beat, At, WorkPlaces
<1>3. call[c].on \in Live
  BY <1>1, <1>2, OpsAt, FitHere DEF Aimed, Beating
<1>4. \A r \in Live : SameRun(r)
  <2>1. CASE UNCHANGED live
    BY <1>2, <2>1 DEF SameRun
  <2>2. CASE live' = [live EXCEPT ![call[c].on].beat = call[c].at]
    <3> DEFINE r == call[c].on
               beaten == [live[r] EXCEPT !.beat = call[c].at]
    <3>1. live[r] \in Stage /\ live \in [Live -> Stage]
      BY <1>3, StageOf
    <3>2. beaten.status = live[r].status
      BY <3>1 DEF Stage
    <3>3. live' = [live EXCEPT ![r] = beaten]
      BY <2>2
    <3> HIDE DEF beaten
    <3> QED
      BY <1>2, <1>3, <3>1, <3>2, <3>3 DEF SameRun
  <2> QED
    BY <2>1, <2>2 DEF Beat
<1> QED
  BY <1>1, <1>2, <1>4, RecordedAside

\* Whoever ends a run has its record to close, and it is still open.
LEMMA EndsRecorded ==
  ASSUME ExternalAgentsAssumption, Shape, Recorded, NEW c \in Anyone, Others(c), NEW r \in Live,
         NEW how \in Closing, Ends(r, how), UNCHANGED <<record, lost, faults>>,
         ~InProgress(c) \/ call[c].pc \notin WorkPlaces, Works(c, r)'
  PROVE  Recorded'
<1>1. /\ live[r].status = "running" /\ live'[r].status = how
      /\ \A q \in Live : q # r => live'[q] = live[q]
  BY EndsFacts
<1>2. RunRecorded(r)
  BY DEF Recorded
<1>3. AtWork(r)'
  BY DEF AtWork, Works, WorkPlaces, Anyone
<1>4. RunRecorded(r)'
  BY <1>1, <1>2, <1>3 DEF RunRecorded, Ended, EndTold, Closing
<1>5. \A q \in Live : q # r => SameRun(q) /\ ~Works(c, q)
  BY <1>1 DEF SameRun, Works
<1> QED
  BY <1>4, <1>5, RecordedBut

LEMMA StopRunRecorded ==
  ASSUME ExternalAgentsAssumption, Shape, Recorded, NEW c \in Caller, StopRun(c)
  PROVE  Recorded'
<1>1. Others(c) /\ c \in Anyone /\ InProgress(c) /\ UNCHANGED <<lost, faults>>
  BY EpisodesOthers DEF Episodes
<1>2. call[c].pc \notin WorkPlaces /\ At(c, "stop") /\ UNCHANGED record
  BY DEF StopRun, At, WorkPlaces
<1>3. PICK r \in Live : r = call[c].on
  BY <1>1, <1>2, OpsAt, FitHere DEF Aimed, Beating
<1>4. CASE UNCHANGED live
  BY <1>1, <1>2, <1>4, RecordedAside DEF SameRun
<1>5. CASE Ends(r, "stopped") /\ To(c, "close")
  <2>1. Further(c, "close") /\ "stopped" \in Closing
    BY <1>1, <1>5, ToFurther DEF Shape, Places, Closing
  <2>2. Works(c, r)'
    BY <1>3, <2>1 DEF Further, Works, WorkPlaces, CallType, InProgress, At
  <2> QED
    BY <1>1, <1>2, <1>5, <2>1, <2>2, EndsRecorded
<1> QED
  BY <1>3, <1>4, <1>5 DEF StopRun

LEMMA FinishRunRecorded ==
  ASSUME ExternalAgentsAssumption, Shape, Recorded, NEW c \in Caller,
         NEW how \in {"finished", "failed"}, NEW cost \in 0..Total, FinishRun(c, how, cost)
  PROVE  Recorded'
<1>1. Others(c) /\ c \in Anyone /\ InProgress(c) /\ UNCHANGED <<lost, faults>>
  BY EpisodesOthers DEF Episodes
<1>2. call[c].pc \notin WorkPlaces /\ At(c, "end") /\ UNCHANGED record
  BY DEF FinishRun, At, WorkPlaces
<1>3. PICK r \in Live : r = call[c].on
  BY <1>1, <1>2, OpsAt, FitHere DEF Aimed, Beating
<1>4. CASE UNCHANGED live
  BY <1>1, <1>2, <1>4, RecordedAside DEF SameRun
<1> DEFINE p == IF cost = 0 THEN "close" ELSE "cost"
<1>5. CASE /\ Ends(r, how)
           /\ call' = [call EXCEPT ![c].pc = p, ![c].cost = cost, ![c].left = cost]
  <2>1. p \in {"close", "cost"} /\ p \in Places /\ how \in Closing
    BY DEF Places, Closing
  <2> HIDE DEF p
  <2>2. Further(c, p)
    BY <1>1, <1>5, <2>1, Priced
  <2>3. Works(c, r)'
    BY <1>3, <2>1, <2>2 DEF Further, Works, WorkPlaces, InProgress, At
  <2> QED
    BY <1>1, <1>2, <1>5, <2>1, <2>3, EndsRecorded
<1> QED
  BY <1>3, <1>4, <1>5 DEF FinishRun

\* A call that stays at work on its episode, or is over with a report.
LEMMA StillAtWork ==
  ASSUME ExternalAgentsAssumption, Shape, Recorded, NEW c \in Anyone, Others(c), InProgress(c),
         UNCHANGED <<live, record, lost, faults>>,
         \A r \in Live : r = call[c].on => Works(c, r)'
  PROVE  Recorded'
<1>1. \A r \in Live : Works(c, r) => Works(c, r)'
  BY DEF Works
<1>2. \A r \in Live : SameRun(r)
  BY DEF SameRun
<1> QED
  BY <1>1, <1>2, NoneLive, RecordedBut

LEMMA RecordCostRecorded ==
  ASSUME ExternalAgentsAssumption, Shape, Recorded, NEW c \in Caller, NEW part \in 1..Total,
         RecordCost(c, part)
  PROVE  Recorded'
<1>1. Others(c) /\ c \in Anyone /\ InProgress(c) /\ UNCHANGED <<lost, faults>>
  BY EpisodesOthers DEF Episodes
<1>2. UNCHANGED <<live, record>>
  BY DEF RecordCost, episodes
<1>3. PICK p \in {"cost", "charge"} : Further(c, p)
  BY RecordedPart
<1>4. ASSUME NEW r \in Live, r = call[c].on
      PROVE  Works(c, r)'
  BY <1>3, <1>4 DEF Further, Works, WorkPlaces, InProgress, At
<1> QED
  BY <1>1, <1>2, <1>4, StillAtWork

LEMMA ChargeRecorded ==
  ASSUME ExternalAgentsAssumption, Shape, Recorded, NEW c \in Caller, Charge(c)
  PROVE  Recorded'
<1>1. Others(c) /\ c \in Anyone /\ InProgress(c) /\ UNCHANGED <<lost, faults>>
  BY EpisodesOthers DEF Episodes
<1>2. UNCHANGED <<live, record>> /\ At(c, "charge")
  BY DEF Charge, episodes
<1>3. call[c].op \in {"finish", "report"} /\ (call[c].op = "report" => call[c].on \in Report)
  BY <1>1, <1>2, OpsAt, FitHere DEF Aimed
<1>4. CASE call[c].op = "finish"
  <2>1. Further(c, "close")
    BY <1>1, <1>4, ToFurther DEF Charge, Shape, Places
  <2>2. ASSUME NEW r \in Live, r = call[c].on
        PROVE  Works(c, r)'
    BY <2>1, <2>2 DEF Further, Works, WorkPlaces, InProgress, At
  <2> QED
    BY <1>1, <1>2, <2>2, StillAtWork
<1>5. CASE call[c].on \in Report
  <2>1. call[c].on \notin Live
    BY <1>5, Sizes
  <2> QED
    BY <1>1, <1>2, <2>1, StillAtWork
<1> QED
  BY <1>3, <1>4, <1>5

\* The record of a run is closed with the end that won.
LEMMA CloseRunRecorded ==
  ASSUME ExternalAgentsAssumption, Shape, Recorded, NEW c \in Anyone, CloseRun(c), Others(c),
         UNCHANGED <<lost, faults>>
  PROVE  Recorded'
<1>0. PICK e : e = call[c].on
  OBVIOUS
<1> DEFINE end == IF e \in Live THEN Outcome[live[e].status] ELSE "succeeded"
<1>1. At(c, "close") /\ UNCHANGED live
  BY DEF CloseRun
<1>2. /\ InProgress(c) /\ e \in Episode /\ end \in {"succeeded", "failed", "cancelled"}
  BY <1>0, <1>1, ClosesWith
<1>3. record \in [Episode -> RecordStatus] /\ Live \subseteq Episode
  BY DEF Shape, TypeOK, RecordStatus, Episode
<1>4. \/ record' = [record EXCEPT ![e] = end]
      \/ Ended(e) /\ UNCHANGED record
  BY <1>0 DEF CloseRun
<1>5. \A r \in Live : r # e => SameRun(r) /\ ~Works(c, r)
  BY <1>0, <1>1, <1>3, <1>4 DEF SameRun, Works
<1>6. ASSUME e \in Live
      PROVE  RunRecorded(e)'
  <2>1. live[e].status \in Closing /\ live'[e].status = live[e].status
    BY <1>0, <1>1, <1>2, <1>6 DEF Shape, EndedFirst, Ending, At
  <2>2. RunRecorded(e)
    BY <1>6 DEF Recorded
  <2>3. CASE record' = [record EXCEPT ![e] = end]
    <3>1. record'[e] = Outcome[live[e].status] /\ record'[e] \in {"succeeded", "failed", "cancelled"}
      BY <1>2, <1>3, <1>6, <2>3
    <3> QED
      BY <2>1, <3>1 DEF RunRecorded, Ended, EndTold, Closing
  <2>4. CASE Ended(e) /\ UNCHANGED record
    BY <2>1, <2>2, <2>4 DEF RunRecorded, Ended, EndTold
  <2> QED
    BY <1>4, <2>3, <2>4
<1> QED
  BY <1>5, <1>6, RecordedBut

LEMMA EpisodesRecorded ==
  ASSUME ExternalAgentsAssumption, Shape, Recorded, NEW c \in Caller, Episodes(c)
  PROVE  Recorded'
BY ReadsRecorded, OpenRunRecorded, CreateRunRecorded, AbandonRecorded, BeatRecorded,
   StopRunRecorded, FinishRunRecorded, RecordCostRecorded, ChargeRecorded DEF Episodes

LEMMA SweepRecorded ==
  ASSUME ExternalAgentsAssumption, Shape, Recorded, Sweep
  PROVE  Recorded'
<1>1. /\ Others(Sweeper) /\ Sweeper \in Anyone /\ UNCHANGED <<lost, faults>>
  BY SweepTurns DEF Others, Anyone, Sweep, ListStale, CloseRun, ReclaimRun
<1>2. CASE ListStale
  <2>1. ~InProgress(Sweeper) /\ UNCHANGED <<live, record>>
    BY <1>2 DEF ListStale, InProgress, At, episodes
  <2> QED
    BY <1>1, <2>1, RecordedAside DEF SameRun
<1>3. CASE CloseRun(Sweeper)
  BY <1>1, <1>3, CloseRunRecorded
<1>4. ASSUME NEW r \in Live, ReclaimRun(r)
      PROVE  Recorded'
  <2>1. call[Sweeper].pc \notin WorkPlaces /\ UNCHANGED record /\ InProgress(Sweeper)
    BY <1>4 DEF ReclaimRun, At, WorkPlaces, InProgress
  <2>2. CASE UNCHANGED live
    BY <1>1, <2>1, <2>2, RecordedAside DEF SameRun
  <2>3. CASE /\ Ends(r, "reclaimed")
             /\ call' = [call EXCEPT ![Sweeper].pc = "close", ![Sweeper].on = r,
                                     ![Sweeper].todo = call[Sweeper].todo \ {r}]
    <3>1. call[Sweeper] \in CallType
      BY <1>1, <2>1, InProgressTyped DEF Shape
    <3> DEFINE rest == call[Sweeper].todo \ {r}
               k == [call[Sweeper] EXCEPT !.pc = "close", !.on = r, !.todo = rest]
    <3>2. rest \subseteq Live
      BY <3>1 DEF CallType
    <3>3. Turns(Sweeper, k)
      BY <2>3 DEF Turns
    <3> HIDE DEF rest
    <3>6. k \in CallType /\ k.pc = "close" /\ k.on = r
      <4>1. "close" \in Places /\ r \in Episode
        BY DEF Places, Episode
      <4> QED
        BY <3>1, <3>2, <4>1, CallTypeIs
    <3> HIDE DEF k
    <3>4. call'[Sweeper] = k
      BY <1>1, <3>3, <3>6, Turned DEF Shape
    <3>5. Works(Sweeper, r)' /\ "reclaimed" \in Closing
      BY <3>4, <3>6 DEF Works, WorkPlaces, InProgress, At, Closing
    <3> QED
      BY <1>1, <2>1, <2>3, <3>5, EndsRecorded
  <2> QED
    BY <1>4, <2>2, <2>3 DEF ReclaimRun
<1> QED
  BY <1>2, <1>3, <1>4 DEF Sweep

\* Operators write no run.
LEMMA CommandRecorded ==
  ASSUME ExternalAgentsAssumption, Shape, Recorded, NEW c \in Caller, Command(c)
  PROVE  Recorded'
<1>1. call[c].pc \notin WorkPlaces /\ UNCHANGED <<live, record, lost, faults>>
  BY DEF Command, ReadStatus, Permit, Contain, Release, Revoke, Reread, CheckName, ClaimSeat,
     Enroll, Unseat, WorkPlaces, At, episodes
<1>2. call \in [Anyone -> CallType \cup [pc : {"idle", "go"}]] /\ c \in Anyone
  BY DEF Shape, TypeOK, Anyone
<1>3. CASE call' = Freed(c)
  <2>1. ASSUME NEW d \in Anyone, NEW r, Works(d, r)
        PROVE  Works(d, r)'
    <3>1. d # c
      BY <1>1, <2>1 DEF Works
    <3> QED
      BY <1>3, <2>1, <3>1, FreedFacts DEF Works, InProgress, At
  <2>2. \A r \in Live : AtWork(r) => AtWork(r)'
    BY <2>1 DEF AtWork, Works, WorkPlaces, Anyone
  <2> QED
    BY <1>1, <2>2 DEF Recorded, RunRecorded, Ended, EndTold
<1>4. CASE Others(c)
  BY <1>1, <1>2, <1>4, RecordedAside DEF SameRun
<1>5. CASE ~Release(c)
  <2>1. Others(c)
    BY <1>2, <1>5 DEF Command, ReadStatus, Permit, Contain, Revoke, Reread, CheckName, ClaimSeat,
       Enroll, Unseat, To, End, Others
  <2> QED
    BY <1>4, <2>1
<1>6. CASE Release(c)
  <2>1. call' = Freed(c) \/ End(c)
    BY <1>6 DEF Release, Freed
  <2> QED
    BY <1>2, <1>3, <1>4, <2>1 DEF End, Others
<1> QED
  BY <1>5, <1>6

LEMMA FailureRecorded ==
  ASSUME ExternalAgentsAssumption, Shape, Recorded, Failure
  PROVE  Recorded'
<1>1. faults' # 0
  BY Faulted DEF Failure, Lost, PauseUnreadable, CreateFails, EnrollFails
<1>2. ASSUME NEW c \in Anyone, UNCHANGED <<live, record>>, lost \subseteq lost'
      PROVE  Recorded'
  BY <1>1, <1>2 DEF Recorded, RunRecorded, Ended, EndTold
<1>3. ASSUME NEW c \in Anyone, Lost(c)
      PROVE  Recorded'
  BY <1>2, <1>3 DEF Lost, episodes
<1>6. ASSUME NEW c \in Caller, PauseUnreadable(c)
      PROVE  Recorded'
  BY <1>2, <1>6 DEF PauseUnreadable, episodes, Anyone
<1>4. ASSUME NEW c \in Caller, NEW done \in BOOLEAN, EnrollFails(c, done)
      PROVE  Recorded'
  BY <1>2, <1>4 DEF EnrollFails, episodes, Anyone
<1>5. ASSUME NEW c \in Caller, NEW done \in BOOLEAN, CreateFails(c, done)
      PROVE  Recorded'
  <2>1. CASE ~done
    BY <1>2, <1>5, <2>1 DEF CreateFails, Anyone
  <2>2. CASE done
    <3>1. /\ At(c, "create") /\ live' = Created(c) /\ lost \subseteq lost' /\ UNCHANGED record
          /\ To(c, "abandon")
      BY <1>5, <2>2 DEF CreateFails
    <3>2. Others(c)
      <4>1. InProgress(c) /\ c \in Anyone
        BY <3>1, AtIsInProgress DEF Places, Anyone
      <4> QED
        BY <3>1, <4>1, ToFurther DEF Shape, Places, Further, Others
    <3> QED
      BY <1>1, <3>1, <3>2, CreatedRecorded
  <2> QED
    BY <2>1, <2>2
<1> QED
  BY <1>3, <1>4, <1>5, <1>6 DEF Failure, Anyone

LEMMA RecordedStarts ==
  ASSUME Init
  PROVE  Recorded
BY DEF Init, Recorded, RunRecorded, Ended, Episode, Closing

LEMMA RecordedStep ==
  ASSUME ExternalAgentsAssumption, Shape, Recorded, [Next]_vars
  PROVE  Recorded'
<1>1. CASE UNCHANGED vars \/ Pause \/ Tick
  <2>1. UNCHANGED <<live, record, lost, faults, call>>
    BY <1>1 DEF vars, episodes, Pause, Tick
  <2> QED
    BY <2>1 DEF Recorded, RunRecorded, Ended, EndTold, AtWork, InProgress, At
<1>2. ASSUME NEW c \in Caller, NEW op \in Admitted \cup Beating \cup Operating, NEW a \in Agent,
             NEW e \in Episode \cup {"none"}, Begin(c, op, a, e)
      PROVE  Recorded'
  <2>1. Others(c) /\ c \in Anyone /\ ~InProgress(c)
    BY <1>2, BeginFacts DEF Others
  <2>2. UNCHANGED <<live, record, lost, faults>>
    BY <1>2 DEF Begin, episodes
  <2> QED
    BY <2>1, <2>2, RecordedAside DEF SameRun
<1>3. ASSUME NEW c \in Caller, CloseRun(c)
      PROVE  Recorded'
  BY <1>3, EpisodesOthers, CloseRunRecorded
<1> QED
  BY <1>1, <1>2, <1>3, AdmissionRecorded, EpisodesRecorded, CommandRecorded, SweepRecorded,
     FailureRecorded DEF Next

\* A live run stands on a run of the record; what the record tells of one that ended is the
\* end that won, or that it failed to start; and one that ended without failures is closed
\* or in the hands of the call that will close it (runs.ts:170-176, store.memory.ts:885-889).
THEOREM RecordedAlways == Spec => []Recorded
<1>1. Init => Recorded
  BY RecordedStarts
<1>2. Shape /\ Recorded /\ [Next]_vars => Recorded'
  BY ExternalAgentsAssumption, RecordedStep
<1> QED
  BY <1>1, <1>2, ShapeAlways, PTL DEF Spec

\* A live run always stands on a run of the operating record, and the record never tells
\* another end of it than the one that won, whoever races to end it; without failures
\* nobody leaves the record open (runs.ts:170-176, store.memory.ts:885-889).
THEOREM RecordFollows == Spec => []RecordFollowsRun
<1>1. Recorded => RecordFollowsRun
  BY DEF Recorded, RunRecorded, EndTold, RecordFollowsRun
<1> QED
  BY <1>1, RecordedAlways, PTL

-----------------------------------------------------------------------------
(* Sums over finite sets: what is said of every one is proved by a least
   counterexample in the strict-subset order. *)

\* What a sum over a set stands for: a table of the sums over its subsets.
Pick(s) == CHOOSE x \in s : TRUE
Adds(f, S, sums) ==
  sums = [s \in SUBSET S |-> IF s = {} THEN 0 ELSE f[Pick(s)] + sums[s \ {Pick(s)}]]

\* The sum is the table's entry for the whole set.
LEMMA SumIsTabled ==
  ASSUME NEW f, NEW S
  PROVE  SumOf(f, S) = (CHOOSE sums : Adds(f, S, sums))[S]
BY DEF SumOf, MapThenSumSet, MapThenFoldSet, Adds, Pick

LEMMA Picked ==
  ASSUME NEW s, s # {}
  PROVE  Pick(s) \in s
BY DEF Pick

\* Among sets of members of a finite set there is one with no other of them inside it.
LEMMA LeastSet ==
  ASSUME NEW S, IsFiniteSet(S), NEW Bad, Bad \subseteq SUBSET S, Bad # {}
  PROVE  \E s \in Bad : \A t \in Bad : t \subseteq s => t = s
<1>1. IsWellFoundedOn(StrictSubsetOrdering(S), SUBSET S)
  BY FS_StrictSubsetOrderingWellFounded, FS_FiniteSubsetsOfFinite
<1>2. PICK s \in Bad : \A t \in Bad : ~(<<t, s>> \in StrictSubsetOrdering(S))
  BY <1>1, WFMin
<1>3. \A t \in Bad : t \subseteq s => t = s
  BY <1>2 DEF StrictSubsetOrdering
<1> QED
  BY <1>3

LEMMA AddsAt ==
  ASSUME NEW f, NEW S, NEW sums, Adds(f, S, sums), NEW s \in SUBSET S
  PROVE  sums[s] = IF s = {} THEN 0 ELSE f[Pick(s)] + sums[s \ {Pick(s)}]
BY DEF Adds

\* Two tables of functions that agree on a set agree on its sum.
LEMMA AddsAgree ==
  ASSUME NEW f, NEW g, NEW A, NEW B, NEW a, NEW b, Adds(f, A, a), Adds(g, B, b),
         NEW S, S \subseteq A, S \subseteq B, IsFiniteSet(S), \A x \in S : f[x] = g[x]
  PROVE  a[S] = b[S]
<1> DEFINE Bad == {s \in SUBSET S : a[s] # b[s]}
<1>1. SUFFICES ASSUME Bad # {} PROVE FALSE
  OBVIOUS
<1>0a. Bad \subseteq SUBSET S
  OBVIOUS
<1>0b. \E s \in Bad : \A t \in Bad : t \subseteq s => t = s
  <2> HIDE DEF Bad
  <2> QED
    BY <1>1, <1>0a, LeastSet
<1>2. PICK s \in Bad : \A t \in Bad : t \subseteq s => t = s
  BY <1>0b
<1>3. s \in SUBSET A /\ s \in SUBSET B
  OBVIOUS
<1>4. CASE s = {}
  BY <1>3, <1>4, AddsAt
<1>5. CASE s # {}
  <2>1. Pick(s) \in s
    BY <1>5, Picked
  <2>2. a[s \ {Pick(s)}] = b[s \ {Pick(s)}]
    BY <1>2, <2>1
  <2>3. f[Pick(s)] = g[Pick(s)]
    BY <2>1
  <2>4. a[s] = f[Pick(s)] + a[s \ {Pick(s)}] /\ b[s] = g[Pick(s)] + b[s \ {Pick(s)}]
    BY <1>3, <1>5, AddsAt
  <2> QED
    BY <2>2, <2>3, <2>4
<1> QED
  BY <1>4, <1>5

\* There is a table of every finite set.
LEMMA AddsExists ==
  ASSUME NEW f, NEW S, IsFiniteSet(S)
  PROVE  \E sums : Adds(f, S, sums)
<1> DEFINE Bad == {s \in SUBSET S : ~ \E sums : Adds(f, s, sums)}
<1>1. SUFFICES ASSUME Bad # {} PROVE FALSE
  OBVIOUS
<1>0a. Bad \subseteq SUBSET S
  OBVIOUS
<1>0b. \E s \in Bad : \A t \in Bad : t \subseteq s => t = s
  <2> HIDE DEF Bad
  <2> QED
    BY <1>1, <1>0a, LeastSet
<1>2. PICK s \in Bad : \A t \in Bad : t \subseteq s => t = s
  BY <1>0b
<1> DEFINE Below(t) == CHOOSE sums : Adds(f, t, sums)
           sums == [t \in SUBSET s |->
                      IF t = {} THEN 0
                      ELSE f[Pick(t)] + Below(t \ {Pick(t)})[t \ {Pick(t)}]]
<1>3. \A t \in SUBSET s : t # s => Adds(f, t, Below(t))
  BY <1>2
<1>4. ASSUME NEW t \in SUBSET s, t # s
      PROVE  sums[t] = Below(t)[t]
  <2>1. Adds(f, t, Below(t))
    BY <1>3, <1>4
  <2>2. CASE t = {}
    BY <2>1, <2>2, AddsAt
  <2>3. CASE t # {}
    <3> DEFINE u == t \ {Pick(t)}
    <3>1. Below(t)[t] = f[Pick(t)] + Below(t)[u]
      BY <2>1, <2>3, AddsAt
    <3>2. u \in SUBSET s /\ u # s /\ u \subseteq t
      BY <1>4, <2>3, Picked
    <3>3. Adds(f, u, Below(u))
      BY <1>3, <3>2
    <3>4. IsFiniteSet(u)
      BY <3>2, FS_Subset
    <3>5. Below(t)[u] = Below(u)[u]
      BY <2>1, <3>2, <3>3, <3>4, AddsAgree
    <3>6. sums[t] = f[Pick(t)] + Below(u)[u]
      BY <2>3
    <3> QED
      BY <3>1, <3>5, <3>6
  <2> QED
    BY <2>2, <2>3
<1>5. Adds(f, s, sums)
  <2>1. ASSUME NEW t \in SUBSET s, t # {}
        PROVE  Below(t \ {Pick(t)})[t \ {Pick(t)}] = sums[t \ {Pick(t)}]
    BY <1>4, <2>1, Picked
  <2> DEFINE Entry(t) == IF t = {} THEN 0 ELSE f[Pick(t)] + sums[t \ {Pick(t)}]
  <2>2. ASSUME NEW t \in SUBSET s
        PROVE  sums[t] = Entry(t)
    <3>1. CASE t = {}
      BY <3>1
    <3>2. CASE t # {}
      <4>1. sums[t] = f[Pick(t)] + Below(t \ {Pick(t)})[t \ {Pick(t)}]
        BY <3>2
      <4>2. Entry(t) = f[Pick(t)] + sums[t \ {Pick(t)}]
        BY <3>2
      <4> HIDE DEF sums, Below
      <4> QED
        BY <2>1, <3>2, <4>1, <4>2
    <3> QED
      BY <3>1, <3>2
  <2>3. sums = [t \in SUBSET s |-> sums[t]]
    OBVIOUS
  <2> HIDE DEF sums
  <2>4. sums = [t \in SUBSET s |-> Entry(t)]
    <3> HIDE DEF Entry
    <3> QED
      BY <2>2, <2>3
  <2> QED
    BY <2>4 DEF Adds
<1> QED
  BY <1>2, <1>5

LEMMA SumTabled ==
  ASSUME NEW f, NEW S, IsFiniteSet(S)
  PROVE  \E sums : Adds(f, S, sums) /\ SumOf(f, S) = sums[S]
BY AddsExists, SumIsTabled

\* Of nothing, nothing; of equal things, the same.
LEMMA SumNone ==
  ASSUME NEW f
  PROVE  SumOf(f, {}) = 0
BY SumTabled, AddsAt, FS_EmptySet

LEMMA SumSame ==
  ASSUME NEW f, NEW g, NEW S, IsFiniteSet(S), \A x \in S : f[x] = g[x]
  PROVE  SumOf(f, S) = SumOf(g, S)
<1>1. PICK a : Adds(f, S, a) /\ SumOf(f, S) = a[S]
  BY SumTabled
<1>2. PICK b : Adds(g, S, b) /\ SumOf(g, S) = b[S]
  BY SumTabled
<1> QED
  BY <1>1, <1>2, AddsAgree

\* The sum is that of any member and of the rest.
LEMMA SumPicked ==
  ASSUME NEW f, NEW S, IsFiniteSet(S), S # {}
  PROVE  SumOf(f, S) = f[Pick(S)] + SumOf(f, S \ {Pick(S)})
<1> DEFINE T == S \ {Pick(S)}
<1>1. PICK a : Adds(f, S, a) /\ SumOf(f, S) = a[S]
  BY SumTabled
<1>2. IsFiniteSet(T)
  BY FS_Subset
<1>3. PICK b : Adds(f, T, b) /\ SumOf(f, T) = b[T]
  BY <1>2, SumTabled
<1>4. a[T] = b[T]
  BY <1>1, <1>2, <1>3, AddsAgree
<1>5. a[S] = f[Pick(S)] + a[T]
  BY <1>1, AddsAt
<1> QED
  BY <1>1, <1>3, <1>4, <1>5

\* Of integers, an integer.
LEMMA SumTyped ==
  ASSUME NEW f, NEW S, IsFiniteSet(S), \A x \in S : f[x] \in Int
  PROVE  SumOf(f, S) \in Int
<1> DEFINE Bad == {s \in SUBSET S : SumOf(f, s) \notin Int}
<1>1. SUFFICES ASSUME Bad # {} PROVE FALSE
  OBVIOUS
<1>0a. Bad \subseteq SUBSET S
  OBVIOUS
<1>0b. \E s \in Bad : \A t \in Bad : t \subseteq s => t = s
  <2> HIDE DEF Bad
  <2> QED
    BY <1>1, <1>0a, LeastSet
<1>2. PICK s \in Bad : \A t \in Bad : t \subseteq s => t = s
  BY <1>0b
<1>3. s # {}
  <2>1. SumOf(f, {}) \in Int
    BY SumNone
  <2> QED
    BY <1>2, <2>1
<1>4. Pick(s) \in s /\ f[Pick(s)] \in Int
  BY <1>3, Picked
<1>5. SumOf(f, s \ {Pick(s)}) \in Int
  BY <1>2, <1>4
<1>6. IsFiniteSet(s)
  BY FS_Subset
<1> QED
  BY <1>3, <1>4, <1>5, <1>6, SumPicked

LEMMA SumTakes ==
  ASSUME NEW f, NEW S, IsFiniteSet(S), \A x \in S : f[x] \in Int, NEW y \in S
  PROVE  SumOf(f, S) = f[y] + SumOf(f, S \ {y})
<1> DEFINE Bad == {s \in SUBSET S : \E z \in s : SumOf(f, s) # f[z] + SumOf(f, s \ {z})}
<1>1. SUFFICES ASSUME Bad # {} PROVE FALSE
  OBVIOUS
<1>0a. Bad \subseteq SUBSET S
  OBVIOUS
<1>0b. \E s \in Bad : \A t \in Bad : t \subseteq s => t = s
  <2> HIDE DEF Bad
  <2> QED
    BY <1>1, <1>0a, LeastSet
<1>2. PICK s \in Bad : \A t \in Bad : t \subseteq s => t = s
  BY <1>0b
<1>3. PICK z \in s : SumOf(f, s) # f[z] + SumOf(f, s \ {z})
  OBVIOUS
<1> DEFINE x == Pick(s)
<1>0c. \A t \in SUBSET s : t # s => \A u \in t : SumOf(f, t) = f[u] + SumOf(f, t \ {u})
  BY <1>2
<1> HIDE DEF Bad
<1>4. x \in s /\ IsFiniteSet(s) /\ s \subseteq S
  BY <1>0a, Picked, FS_Subset DEF x
<1>5. SumOf(f, s) = f[x] + SumOf(f, s \ {x})
  BY <1>3, <1>4, SumPicked DEF x
<1>6. x # z
  BY <1>3, <1>5
<1> HIDE DEF x
<1>7. SumOf(f, s \ {x}) = f[z] + SumOf(f, (s \ {x}) \ {z})
  BY <1>0c, <1>4, <1>6
<1>8. SumOf(f, s \ {z}) = f[x] + SumOf(f, (s \ {z}) \ {x})
  BY <1>0c, <1>4, <1>6
<1>9. (s \ {x}) \ {z} = (s \ {z}) \ {x}
  OBVIOUS
<1>10. IsFiniteSet((s \ {x}) \ {z})
  BY <1>4, FS_Subset
<1>11. f[x] \in Int /\ f[z] \in Int /\ SumOf(f, (s \ {x}) \ {z}) \in Int
  BY <1>4, <1>10, SumTyped
<1> DEFINE rest == SumOf(f, (s \ {x}) \ {z})
<1>13. SumOf(f, s \ {x}) = f[z] + rest /\ SumOf(f, s \ {z}) = f[x] + rest /\ rest \in Int
  BY <1>7, <1>8, <1>9, <1>11
<1> HIDE DEF rest
<1>14. SumOf(f, s) = f[z] + SumOf(f, s \ {z})
  BY <1>5, <1>11, <1>13
<1> QED
  BY <1>3, <1>14

\* What one member gains the sum gains.
LEMMA SumPut ==
  ASSUME NEW f, NEW g, NEW S, IsFiniteSet(S), \A x \in S : f[x] \in Int /\ g[x] \in Int,
         NEW y \in S, \A x \in S \ {y} : g[x] = f[x]
  PROVE  SumOf(g, S) = SumOf(f, S) - f[y] + g[y]
<1>1. IsFiniteSet(S \ {y})
  BY FS_Subset
<1>2. SumOf(g, S \ {y}) = SumOf(f, S \ {y})
  BY <1>1, SumSame
<1>3. SumOf(f, S) = f[y] + SumOf(f, S \ {y}) /\ SumOf(g, S) = g[y] + SumOf(g, S \ {y})
  BY SumTakes
<1>4. SumOf(f, S \ {y}) \in Int
  BY <1>1, SumTyped
<1> QED
  BY <1>2, <1>3, <1>4

\* What a new member brings the sum gains.
LEMMA SumGrows ==
  ASSUME NEW f, NEW S, IsFiniteSet(S), NEW y, y \notin S, \A x \in S \cup {y} : f[x] \in Int
  PROVE  SumOf(f, S \cup {y}) = SumOf(f, S) + f[y]
<1>1. IsFiniteSet(S \cup {y}) /\ (S \cup {y}) \ {y} = S
  BY FS_AddElement
<1>2. SumOf(f, S \cup {y}) = f[y] + SumOf(f, (S \cup {y}) \ {y})
  <2> DEFINE T == S \cup {y}
  <2>1. IsFiniteSet(T) /\ y \in T /\ \A x \in T : f[x] \in Int
    BY <1>1
  <2> HIDE DEF T
  <2>2. SumOf(f, T) = f[y] + SumOf(f, T \ {y})
    BY <2>1, SumTakes
  <2> QED
    BY <2>2 DEF T
<1>3. SumOf(f, S) \in Int /\ f[y] \in Int
  BY SumTyped
<1>4. SumOf(f, (S \cup {y}) \ {y}) = SumOf(f, S)
  BY <1>1
<1>5. SumOf(f, S \cup {y}) = f[y] + SumOf(f, S)
  BY <1>2, <1>4
<1> QED
  BY <1>3, <1>5

\* Of numbers that are not negative, one that is not; of zeros, zero.
LEMMA SumNotNegative ==
  ASSUME NEW f, NEW S, IsFiniteSet(S), \A x \in S : f[x] \in Nat
  PROVE  SumOf(f, S) \in Nat
<1> DEFINE Bad == {s \in SUBSET S : SumOf(f, s) \notin Nat}
<1>1. SUFFICES ASSUME Bad # {} PROVE FALSE
  OBVIOUS
<1>2. Bad \subseteq SUBSET S
  OBVIOUS
<1>3. \E s \in Bad : \A t \in Bad : t \subseteq s => t = s
  <2> HIDE DEF Bad
  <2> QED
    BY <1>1, <1>2, LeastSet
<1>4. PICK s \in Bad : \A t \in Bad : t \subseteq s => t = s
  BY <1>3
<1>5. s # {}
  BY <1>4, SumNone
<1>6. Pick(s) \in s /\ f[Pick(s)] \in Nat
  BY <1>5, Picked
<1>7. SumOf(f, s \ {Pick(s)}) \in Nat
  BY <1>4, <1>6
<1>8. IsFiniteSet(s)
  BY FS_Subset
<1> QED
  BY <1>4, <1>5, <1>6, <1>7, <1>8, SumPicked

LEMMA SumZero ==
  ASSUME NEW f, NEW S, IsFiniteSet(S), \A x \in S : f[x] = 0
  PROVE  SumOf(f, S) = 0
<1> DEFINE Bad == {s \in SUBSET S : SumOf(f, s) # 0}
<1>1. SUFFICES ASSUME Bad # {} PROVE FALSE
  OBVIOUS
<1>2. Bad \subseteq SUBSET S
  OBVIOUS
<1>3. \E s \in Bad : \A t \in Bad : t \subseteq s => t = s
  <2> HIDE DEF Bad
  <2> QED
    BY <1>1, <1>2, LeastSet
<1>4. PICK s \in Bad : \A t \in Bad : t \subseteq s => t = s
  BY <1>3
<1>5. s # {}
  BY <1>4, SumNone
<1>6. Pick(s) \in s /\ f[Pick(s)] = 0
  BY <1>5, Picked
<1>7. SumOf(f, s \ {Pick(s)}) = 0
  BY <1>4, <1>6
<1>8. IsFiniteSet(s)
  BY FS_Subset
<1> QED
  BY <1>4, <1>5, <1>6, <1>7, <1>8, SumPicked

-----------------------------------------------------------------------------
(* The meter. *)

\* A call with a cost in its hands.
Working(c) ==
  /\ InProgress(c)
  /\ \/ call[c].op = "report" /\ call[c].pc \in {"open", "close", "cost", "charge"}
     \/ call[c].op = "finish" /\ call[c].pc \in {"cost", "charge"}

\* What this call has recorded of this agent's spending, and not charged yet.
DueOf(k, x) == IF k.pc \in {"cost", "charge"} /\ k.who = x THEN k.cost - k.left ELSE 0
Due(c, x) == DueOf(call[c], x)

Owed(x) == SumOf([c \in Caller |-> Due(c, x)], Caller)
Spent(x) == SumOf(ledger, Of(x))

\* A live run is of the agent that started it, and only that agent finishes it.
OwnsIt(c) ==
  InProgress(c) /\ call[c].op = "finish" /\ call[c].pc \notin {"rate", "run"} =>
    live[call[c].on].of = call[c].who

Owned ==
  /\ \A r \in Live : live[r].status = "none" => live[r].of = "none"
  /\ \A c \in Caller : OwnsIt(c)

\* Nothing is recorded of what has not ended, or is not claimed, and never too much.
Unspent ==
  /\ \A r \in Live : live[r].status \notin Closing => ledger[r] = 0
  /\ \A e \in Report \ claims : ledger[e] = 0
  /\ \A e \in Episode : ledger[e] <= Total

\* What is recorded of an episode and what is left to record are within its cost.
Billed(c) ==
  Working(c) =>
    /\ ledger[call[c].on] + call[c].left <= Total
    /\ call[c].on \in Live \cup claims
    /\ call[c].left <= call[c].cost
    /\ call[c].pc \in {"open", "close"} => call[c].left = call[c].cost
    /\ call[c].pc = "charge" => call[c].left = 0

Apart(c, d) == Working(c) /\ Working(d) => call[d].on # call[c].on

Bills ==
  /\ \A c \in Caller : Billed(c)
  /\ \A c \in Caller, d \in Caller : c # d => Apart(c, d)

Balanced(x) ==
  /\ meter[x] + Owed(x) <= Spent(x)
  /\ faults = 0 => meter[x] + Owed(x) = Spent(x)

Metered == Owned /\ Unspent /\ Bills /\ \A x \in Agent : Balanced(x)

LEMMA DueTyped ==
  ASSUME ExternalAgentsAssumption, NEW k \in CallType \cup [pc : {"idle", "go"}], NEW x
  PROVE  DueOf(k, x) \in Int
<1>1. CASE k.pc \in {"cost", "charge"}
  <2>1. k \in CallType /\ Total \in Nat
    BY <1>1, Sizes
  <2>2. k.cost \in Int /\ k.left \in Int
    BY <2>1 DEF CallType
  <2> QED
    BY <2>2 DEF DueOf
<1>2. CASE k.pc \notin {"cost", "charge"}
  BY <1>2 DEF DueOf
<1> QED
  BY <1>1, <1>2

LEMMA SumsTyped ==
  ASSUME ExternalAgentsAssumption, Shape, NEW x \in Agent
  PROVE  /\ IsFiniteSet(Caller) /\ IsFiniteSet(Of(x))
         /\ \A c \in Caller : Due(c, x) \in Int
         /\ \A e \in Episode : ledger[e] \in Nat
         /\ Owed(x) \in Int /\ Spent(x) \in Int /\ meter[x] \in Nat
<1>1. IsFiniteSet(Caller)
  <2>1. Callers \in Int /\ 1 \in Int
    BY Sizes
  <2> QED
    BY <2>1, FS_Interval DEF Caller
<1>2. IsFiniteSet(Of(x))
  <2>1. IsFiniteSet(Episode)
    BY Sizes, FS_Union DEF Episode
  <2>2. Of(x) \subseteq Episode
    BY DEF Of
  <2> QED
    BY <2>1, <2>2, FS_Subset
<1>3. ASSUME NEW c \in Caller
      PROVE  Due(c, x) \in Int
  BY DueTyped DEF Due, Shape, TypeOK
<1>4. /\ ledger \in [Episode -> Nat] /\ meter \in [Agent -> Nat]
  BY DEF Shape, TypeOK
<1>5. Owed(x) \in Int
  BY <1>1, <1>3, SumTyped DEF Owed
<1>6. Spent(x) \in Int
  <2>1. \A e \in Of(x) : ledger[e] \in Int
    BY <1>4 DEF Of
  <2> QED
    BY <1>2, <2>1, SumTyped DEF Spent
<1> QED
  BY <1>1, <1>2, <1>3, <1>4, <1>5, <1>6

Numbers(c, x) == Owed(x) \in Int /\ Spent(x) \in Int /\ meter[x] \in Int /\ Due(c, x) \in Int

LEMMA SumsTypedThen ==
  ASSUME NEW x \in Agent, NEW c \in Caller
  PROVE  Shape' => Numbers(c, x)'
<1>1. Shape => Numbers(c, x)
  BY ExternalAgentsAssumption, SumsTyped DEF Numbers
<1> QED
  BY <1>1, PTL

\* What is owed changes by what the one call that moves owes.
LEMMA OwedAfter ==
  ASSUME ExternalAgentsAssumption, Shape, Shape', NEW c \in Caller, Others(c),
         NEW x \in Agent
  PROVE  Owed(x)' = Owed(x) - Due(c, x) + Due(c, x)'
<1> DEFINE f == [d \in Caller |-> Due(d, x)]
           g == [d \in Caller |-> Due(d, x)']
<1>1. /\ IsFiniteSet(Caller) /\ \A d \in Caller : Due(d, x) \in Int /\ Due(d, x)' \in Int
  <2>1. \A d \in Caller : Due(d, x)' \in Int
    BY DueTyped DEF Due, Shape, TypeOK
  <2> QED
    BY <2>1, SumsTyped
<1>2. \A d \in Caller : f[d] \in Int /\ g[d] \in Int
  BY <1>1
<1>3. \A d \in Caller \ {c} : g[d] = f[d]
  BY DEF Others, Anyone, Due
<1>4. f[c] = Due(c, x) /\ g[c] = Due(c, x)'
  OBVIOUS
<1>5. Owed(x) = SumOf(f, Caller) /\ Owed(x)' = SumOf(g, Caller)
  BY DEF Owed
<1> HIDE DEF f, g
<1>6. SumOf(g, Caller) = SumOf(f, Caller) - f[c] + g[c]
  BY <1>1, <1>2, <1>3, SumPut
<1> QED
  BY <1>4, <1>5, <1>6

LEMMA OwedSame ==
  ASSUME NEW x, \A c \in Caller : Due(c, x)' = Due(c, x)
  PROVE  Owed(x)' = Owed(x)
<1>1. [c \in Caller |-> Due(c, x)'] = [c \in Caller |-> Due(c, x)]
  OBVIOUS
<1> QED
  BY <1>1 DEF Owed

\* Only the calls with a cost in their hands owe.
OwesNothing(c) == \A x : Due(c, x) = 0

LEMMA IdleOwesNothing ==
  ASSUME NEW c \in Caller, CallsFit, ~Working(c)
  PROVE  OwesNothing(c)
<1>1. CASE call[c].pc \in {"cost", "charge"}
  <2>1. InProgress(c)
    BY <1>1 DEF InProgress, At
  <2>2. Placed(call[c]) /\ Aimed(call[c])
    BY <2>1 DEF CallsFit
  <2>3. call[c].op \in {"report", "finish"}
    BY <1>1, <2>2 DEF Placed, Aimed, Admitted, Beating, Operating, Admitting
  <2> QED
    BY <1>1, <2>1, <2>3 DEF Working
<1>2. CASE call[c].pc \notin {"cost", "charge"}
  BY <1>2 DEF Due, DueOf, OwesNothing
<1> QED
  BY <1>1, <1>2

LEMMA IdleWillOweNothing ==
  ASSUME NEW c \in Caller
  PROVE  CallsFit' /\ ~Working(c)' => OwesNothing(c)'
<1>1. CallsFit /\ ~Working(c) => OwesNothing(c)
  BY IdleOwesNothing
<1> QED
  BY <1>1, PTL

\* No run changes hands or is unended, and nobody's share of the record moves.
Keeps ==
  /\ \A r \in Live : live[r].of \in Agent => live'[r].of = live[r].of
  /\ \A r \in Live : live'[r].status = "none" => live'[r].of = "none"
  /\ \A r \in Live : live[r].status \in Closing => live'[r].status \in Closing
  /\ \A x \in Agent : Spent(x)' = Spent(x)

LEMMA SameOwnersKeep ==
  ASSUME Owned, UNCHANGED ledger,
         \A r \in Live : live'[r].of = live[r].of,
         \A r \in Live : live'[r].status = "none" => live[r].status = "none",
         \A r \in Live : live[r].status \in Closing => live'[r].status \in Closing
  PROVE  Keeps
<1>1. \A x : Of(x)' = Of(x)
  BY DEF Of
<1>2. \A x : Spent(x)' = Spent(x)
  BY <1>1 DEF Spent
<1> QED
  BY <1>2 DEF Keeps, Owned

LEMMA SameRunsKeep ==
  ASSUME Owned, UNCHANGED <<ledger, live>>
  PROVE  Keeps
BY SameOwnersKeep

\* What the other calls hold is what it was.
LEMMA BillsBut ==
  ASSUME Shape, Owned, Bills, NEW c \in Anyone, Others(c), claims \subseteq claims',
         \A e \in Episode : ledger'[e] = ledger[e] \/ (Working(c) /\ c \in Caller /\ e = call[c].on),
         \A r \in Live : live[r].of \in Agent => live'[r].of = live[r].of,
         c \in Caller => Billed(c)' /\ OwnsIt(c)',
         c \in Caller => \A d \in Caller \ {c} : Apart(c, d)'
  PROVE  Bills' /\ \A d \in Caller : OwnsIt(d)'
<1>1. \A d \in Caller : d \in Anyone
  BY DEF Anyone
<1>2. ASSUME NEW d \in Caller, d # c
      PROVE  /\ Billed(d)' /\ OwnsIt(d)' /\ call'[d] = call[d] /\ (Working(d)' <=> Working(d))
  <2>1. call'[d] = call[d] /\ (Working(d)' <=> Working(d))
    BY <1>1, <1>2 DEF Others, Working, InProgress, At
  <2>2. ASSUME Working(d)
        PROVE  ledger'[call[d].on] = ledger[call[d].on]
    <3>1. call[d].on \in Live \cup Report
      BY <2>2, FitHere DEF Working, Aimed, Beating
    <3>2. c \in Caller /\ Working(c) => call[d].on # call[c].on
      BY <1>2, <2>2 DEF Bills, Apart
    <3> QED
      BY <3>1, <3>2 DEF Episode
  <2>3. Billed(d)'
    BY <2>1, <2>2 DEF Billed, Bills
  <2>4. OwnsIt(d)'
    <3>1. InProgress(d) => Aimed(call[d])
      BY FitHere
    <3> QED
      BY <2>1, <3>1 DEF OwnsIt, Owned, InProgress, At, Aimed, Beating
  <2> QED
    BY <2>1, <2>3, <2>4
<1>3. \A d \in Caller, b \in Caller : d # b => Apart(d, b)'
  <2> SUFFICES ASSUME NEW d \in Caller, NEW b \in Caller, d # b PROVE Apart(d, b)'
    OBVIOUS
  <2>1. CASE d # c /\ b # c
    BY <1>2, <2>1 DEF Apart, Bills
  <2>2. CASE d = c
    BY <2>2
  <2>3. CASE b = c
    BY <2>3 DEF Apart
  <2> QED
    BY <2>1, <2>2, <2>3
<1> QED
  BY <1>2, <1>3 DEF Bills

\* A call that has nothing to do with money.
Unbilling(c) ==
  \/ ~InProgress(c)
  \/ call[c].op \notin {"report", "finish"}
  \/ call[c].pc \notin {"open", "close", "cost", "charge", "end"}

LEMMA UnbillingFacts ==
  ASSUME Shape, NEW c \in Caller, Unbilling(c)
  PROVE  ~Working(c) /\ Billed(c) /\ OwnsIt(c)
<1>1. ~Working(c)
  BY DEF Unbilling, Working
<1>2. OwnsIt(c)
  <2>1. SUFFICES ASSUME InProgress(c), call[c].op = "finish"
                 PROVE  call[c].pc \in {"rate", "run"}
    BY DEF OwnsIt
  <2>2. Placed(call[c])
    BY <2>1, FitHere
  <2> QED
    BY <2>1, <2>2 DEF Unbilling, Placed
<1> QED
  BY <1>1, <1>2 DEF Billed

LEMMA UnbillingThen ==
  ASSUME NEW c \in Caller
  PROVE  Shape' /\ Unbilling(c)' => ~Working(c)' /\ Billed(c)' /\ OwnsIt(c)'
<1>1. Shape /\ Unbilling(c) => ~Working(c) /\ Billed(c) /\ OwnsIt(c)
  BY UnbillingFacts
<1> QED
  BY <1>1, PTL

\* A step that records, charges and claims nothing, of a call that holds no cost.
LEMMA MeteredAside ==
  ASSUME ExternalAgentsAssumption, Shape, Shape', Metered, NEW c \in Anyone,
         Others(c), Keeps, UNCHANGED <<ledger, meter, claims>>, faults' = 0 => faults = 0,
         c \in Caller => ~Working(c) /\ ~Working(c)' /\ OwnsIt(c)'
  PROVE  Metered'
<1>1. Owned' /\ Bills'
  <2>1. c \in Caller => Billed(c)' /\ OwnsIt(c)' /\ \A d \in Caller \ {c} : Apart(c, d)'
    BY DEF Billed, Apart
  <2>2. Bills' /\ \A d \in Caller : OwnsIt(d)'
    BY <2>1, BillsBut DEF Metered, Keeps
  <2> QED
    BY <2>2 DEF Owned, Keeps
<1>2. Unspent'
  BY DEF Metered, Unspent, Keeps
<1>3. ASSUME NEW x \in Agent
      PROVE  Balanced(x)'
  <2>1. \A d \in Caller : Due(d, x)' = Due(d, x)
    <3>1. ASSUME NEW d \in Caller, d # c
          PROVE  Due(d, x)' = Due(d, x)
      BY <3>1 DEF Due, Others, Anyone
    <3>2. ASSUME c \in Caller
          PROVE  Due(c, x)' = 0 /\ Due(c, x) = 0
      <4>1. Due(c, x) = 0
        BY <3>2, IdleOwesNothing DEF Shape, OwesNothing
      <4>2. Due(c, x)' = 0
        BY <3>2, IdleWillOweNothing DEF Shape, OwesNothing
      <4> QED
        BY <4>1, <4>2
    <3> QED
      BY <3>1, <3>2
  <2>2. Owed(x)' = Owed(x) /\ Spent(x)' = Spent(x)
    BY <2>1, OwedSame DEF Keeps
  <2> QED
    BY <2>2 DEF Metered, Balanced
<1> QED
  BY <1>1, <1>2, <1>3 DEF Metered

\* The same, of a call that moves a cost from one place to another.
LEMMA MeteredBy ==
  ASSUME ExternalAgentsAssumption, Shape, Shape', Metered, NEW c \in Caller,
         Others(c), claims \subseteq claims', faults' = 0 => faults = 0,
         \A e \in Episode : ledger'[e] = ledger[e] \/ (Working(c) /\ e = call[c].on),
         \A r \in Live : live[r].of \in Agent => live'[r].of = live[r].of,
         \A r \in Live : live'[r].status = "none" => live'[r].of = "none",
         Billed(c)', OwnsIt(c)', \A d \in Caller \ {c} : Apart(c, d)', Unspent',
         \A x \in Agent :
           meter'[x] + Due(c, x)' + Spent(x) = meter[x] + Due(c, x) + Spent(x)'
  PROVE  Metered'
<1>1. Owned' /\ Bills'
  <2>1. c \in Anyone
    BY DEF Anyone
  <2>2. Bills' /\ \A d \in Caller : OwnsIt(d)'
    BY <2>1, BillsBut DEF Metered
  <2> QED
    BY <2>2 DEF Owned
<1>2. ASSUME NEW x \in Agent
      PROVE  Balanced(x)'
  <2>1. Owed(x)' = Owed(x) - Due(c, x) + Due(c, x)'
    BY OwedAfter
  <2>2. meter'[x] + Due(c, x)' + Spent(x) = meter[x] + Due(c, x) + Spent(x)'
    OBVIOUS
  <2>3. Owed(x) \in Int /\ Spent(x) \in Int /\ meter[x] \in Int /\ Due(c, x) \in Int
    BY SumsTyped
  <2>4. Owed(x)' \in Int /\ Spent(x)' \in Int /\ meter'[x] \in Int /\ Due(c, x)' \in Int
    BY SumsTypedThen DEF Numbers
  <2>5. Balanced(x)
    BY DEF Metered
  <2>6. meter'[x] + Owed(x)' - Spent(x)' = meter[x] + Owed(x) - Spent(x)
    BY <2>1, <2>2, <2>3, <2>4
  <2>7. meter[x] + Owed(x) <= Spent(x) /\ (faults = 0 => meter[x] + Owed(x) = Spent(x))
    BY <2>5 DEF Balanced
  <2>8. meter'[x] + Owed(x)' <= Spent(x)'
    BY <2>3, <2>4, <2>6, <2>7
  <2>9. ASSUME faults' = 0
        PROVE  meter'[x] + Owed(x)' = Spent(x)'
    <3>1. meter[x] + Owed(x) = Spent(x)
      BY <2>7, <2>9
    <3> QED
      BY <2>3, <2>4, <2>6, <3>1
  <2> QED
    BY <2>8, <2>9 DEF Balanced
<1> QED
  BY <1>1, <1>2 DEF Metered

LEMMA AdmissionUnbilling ==
  ASSUME ExternalAgentsAssumption, Shape, NEW c \in Caller, Admission(c)
  PROVE  Unbilling(c) /\ Unbilling(c)'
<1>1. /\ InProgress(c) /\ Alone(c)
      /\ call[c].pc \in {"rate", "agent", "pause", "ask", "judge", "deny", "contain", "clear"}
  BY AdmissionAside, StepsAlone DEF Aside, Admission, Rate, ReadAgent, AskPause, Judge, Deny,
     ContainForDenials, ClearDenials, At
<1>2. Unbilling(c)
  BY <1>1 DEF Unbilling
<1>3. CASE call[c].op \notin {"report", "finish"}
  BY <1>1, <1>2, <1>3 DEF Alone, Unbilling
<1>4. CASE call[c].op \in {"report", "finish"}
  <2>1. \/ End(c) \/ Go(c) \/ To(c, "agent") \/ To(c, "deny") \/ To(c, "judge") \/ To(c, "claim")
        \/ To(c, "contain") \/ To(c, "clear")
        \/ call' = [call EXCEPT ![c].pc = "run", ![c].at = now]
    <3>1. /\ ~At(c, "pause") /\ ~At(c, "ask") /\ call[c].op # "beat" /\ call[c].op # "release"
          /\ At(c, "judge") \/ At(c, "agent") => call[c].op = "report"
      BY <1>1, <1>4, OpsAt
    <3>2. CASE Rate(c) \/ ReadAgent(c) \/ AskPause(c)
      BY <3>1, <3>2 DEF Rate, ReadAgent, AskPause
    <3>3. CASE Judge(c)
      BY <3>1, <3>3 DEF Judge
    <3>4. CASE Deny(c) \/ ContainForDenials(c) \/ ClearDenials(c)
      BY <3>1, <3>4 DEF Deny, ContainForDenials, ClearDenials
    <3> QED
      BY <3>2, <3>3, <3>4 DEF Admission
  <2>2. CASE End(c) \/ Go(c)
    <3>1. c \in Anyone
      BY DEF Anyone
    <3>2. ~InProgress(c)'
      BY <2>2, <3>1, OverLeaves DEF Leaves, Shape, InProgress, At
    <3> QED
      BY <1>2, <3>2 DEF Unbilling
  <2>3. ASSUME NEW p \in {"agent", "deny", "judge", "claim", "contain", "clear"}, To(c, p)
        PROVE  Unbilling(c)'
    <3>1. Further(c, p)
      BY <1>1, <2>3, ToFurther DEF Shape, Places, Anyone
    <3> QED
      BY <1>2, <2>3, <3>1 DEF Further, Unbilling
  <2>4. CASE call' = [call EXCEPT ![c].pc = "run", ![c].at = now]
    <3>1. "run" \in Places
      BY DEF Places
    <3>2. Further(c, "run")
      BY <1>1, <2>4, <3>1, Redated
    <3> QED
      BY <1>2, <3>2 DEF Further, Unbilling
  <2> QED
    BY <1>2, <2>1, <2>2, <2>3, <2>4
<1> QED
  BY <1>2, <1>3, <1>4

\* A step of a call that has nothing to do with money, before or after.
LEMMA MeteredUnbilling ==
  ASSUME ExternalAgentsAssumption, Shape, Shape', Metered, NEW c \in Caller,
         Others(c), Keeps, UNCHANGED <<ledger, meter, claims>>, faults' = 0 => faults = 0,
         Unbilling(c), Unbilling(c)'
  PROVE  Metered'
<1>1. ~Working(c) /\ ~Working(c)' /\ OwnsIt(c)' /\ c \in Anyone
  BY UnbillingFacts, UnbillingThen DEF Anyone
<1> QED
  BY <1>1, MeteredAside

LEMMA AdmissionMetered ==
  ASSUME ExternalAgentsAssumption, Shape, Shape', Metered, NEW c \in Caller,
         Admission(c)
  PROVE  Metered'
<1>1. Others(c)
  BY AdmissionAside, StepsAlone DEF Aside, Alone, Others, Anyone
<1>2. UNCHANGED <<live, claims, ledger, meter, faults>>
  BY DEF Admission, Rate, ReadAgent, AskPause, Judge, Deny, ContainForDenials, ClearDenials,
     episodes, money
<1>3. Keeps
  BY <1>2, SameRunsKeep DEF Metered
<1> QED
  BY <1>1, <1>2, <1>3, AdmissionUnbilling, MeteredUnbilling

LEMMA ReadRunMetered ==
  ASSUME ExternalAgentsAssumption, Shape, Shape', Metered, NEW c \in Caller,
         ReadRun(c)
  PROVE  Metered'
<1>1. Others(c) /\ c \in Anyone /\ InProgress(c) /\ UNCHANGED faults
  BY EpisodesOthers DEF Episodes
<1>2. UNCHANGED <<live, claims, ledger, meter>> /\ At(c, "run")
  BY DEF ReadRun, episodes, money
<1>3. Keeps
  BY <1>2, SameRunsKeep DEF Metered
<1>4. ~Working(c)
  BY <1>2 DEF Working, At
<1>5. CASE End(c)
  <2>1. ~InProgress(c)'
    BY <1>5, <1>1, OverLeaves DEF Shape, Leaves, InProgress, At
  <2> QED
    BY <1>1, <1>2, <1>3, <1>4, <2>1, MeteredAside DEF Working, OwnsIt
<1>6. CASE To(c, "agent") \/ To(c, "end")
  <2>1. live[call[c].on].of = call[c].who
    <3>1. End(c) \/ live[call[c].on].of = call[c].who
      BY <1>6 DEF ReadRun
    <3>2. ~End(c)
      <4>1. End(c) => ~InProgress(c)'
        BY <1>1, OverLeaves DEF Shape, Leaves, InProgress, At
      <4>2. \E p \in Places : Further(c, p)
        BY <1>1, <1>6, ToFurther DEF Places, Shape
      <4> QED
        BY <4>1, <4>2 DEF Further, InProgress, At, CallType
    <3> QED
      BY <3>1, <3>2
  <2>2. PICK p \in {"agent", "end"} : Further(c, p)
    BY <1>1, <1>6, ToFurther DEF Places, Shape
  <2>3. ~Working(c)' /\ OwnsIt(c)'
    BY <1>2, <2>1, <2>2 DEF Further, Working, OwnsIt
  <2> QED
    BY <1>1, <1>2, <1>3, <1>4, <2>3, MeteredAside
<1> QED
  BY <1>5, <1>6 DEF ReadRun

\* A call whose kind has nothing to do with money.
LEMMA KindUnbilling ==
  ASSUME NEW c, Alone(c), call[c].op \notin {"report", "finish"}
  PROVE  Unbilling(c) /\ Unbilling(c)'
BY DEF Alone, Unbilling

LEMMA EpisodesAlone ==
  ASSUME ExternalAgentsAssumption, Shape, NEW c \in Caller, Episodes(c) \/ CloseRun(c)
  PROVE  Alone(c) /\ Others(c) /\ InProgress(c) /\ c \in Anyone /\ UNCHANGED <<lost, faults>>
BY EpisodesAside, StepsAlone DEF Aside, Alone, Others, Anyone

\* A live run that is created brings no money of its own.
LEMMA CreatedKeeps ==
  ASSUME ExternalAgentsAssumption, Shape, Metered, NEW c \in Caller, At(c, "create"),
         live' = Created(c), UNCHANGED ledger
  PROVE  Keeps
<1>1. PICK r \in Live : r = call[c].on
  BY CreatedFacts
<1>2. /\ live[r].status = "none" /\ live'[r].status = "running" /\ live'[r].of = call[c].who
      /\ \A q \in Live : q # r => live'[q] = live[q]
      /\ \A q \in Live : live[q].status \in Closing => live'[q].status \in Closing
  BY <1>1, CreatedFacts
<1>3. live[r].of = "none" /\ ledger[r] = 0
  BY <1>2 DEF Metered, Owned, Unspent, Closing
<1>4. ASSUME NEW x \in Agent
      PROVE  Spent(x)' = Spent(x)
  <2>1. r \notin Of(x)
    BY <1>3, Sizes DEF Of
  <2>2. Of(x)' = Of(x) \/ Of(x)' = Of(x) \cup {r}
    <3>1. \A e \in Episode : e # r => (e \in Of(x)' <=> e \in Of(x))
      BY <1>2 DEF Of
    <3>2. Of(x) \subseteq Episode /\ Of(x)' \subseteq Episode
      BY DEF Of
    <3> QED
      BY <2>1, <3>1, <3>2
  <2>3. SumOf(ledger, Of(x) \cup {r}) = SumOf(ledger, Of(x)) + ledger[r]
    <3>1. IsFiniteSet(Of(x)) /\ \A e \in Of(x) \cup {r} : ledger[e] \in Int
      <4>1. r \in Episode /\ Of(x) \subseteq Episode
        BY DEF Of, Episode
      <4> QED
        BY <4>1, SumsTyped
    <3> QED
      BY <2>1, <3>1, SumGrows
  <2>4. SumOf(ledger, Of(x)) \in Int
    BY SumsTyped DEF Spent
  <2>5. Spent(x)' = SumOf(ledger, Of(x)')
    BY DEF Spent
  <2>6. SumOf(ledger, Of(x) \cup {r}) = SumOf(ledger, Of(x))
    BY <1>3, <2>3, <2>4
  <2> QED
    BY <2>2, <2>5, <2>6 DEF Spent
<1>5. \A q \in Live : live[q].of \in Agent => live'[q].of = live[q].of
  BY <1>2, <1>3, Sizes
<1>6. \A q \in Live : live'[q].status = "none" => live'[q].of = "none"
  BY <1>2 DEF Metered, Owned
<1> QED
  BY <1>2, <1>4, <1>5, <1>6 DEF Keeps

LEMMA StartsMetered ==
  ASSUME ExternalAgentsAssumption, Shape, Shape', Metered, NEW c \in Caller,
         BeginRun(c) \/ CreateRun(c) \/ Abandon(c) \/ Beat(c) \/ StopRun(c)
  PROVE  Metered'
<1>1. Alone(c) /\ Others(c) /\ InProgress(c) /\ UNCHANGED faults
  BY EpisodesAlone DEF Episodes
<1>2. UNCHANGED <<ledger, meter, claims>>
  BY DEF BeginRun, CreateRun, Abandon, Beat, StopRun, episodes, money
<1>3. call[c].op \notin {"report", "finish"}
  BY <1>1, OpsAt DEF BeginRun, CreateRun, Abandon, Beat, StopRun
<1>4. Keeps
  <2>1. CASE UNCHANGED live
    BY <1>2, <2>1, SameRunsKeep DEF Metered
  <2>2. CASE CreateRun(c)
    BY <1>2, <2>2, CreatedKeeps DEF CreateRun
  <2>3. CASE At(c, "stop") /\ Ends(call[c].on, "stopped")
    <3>1. call[c].on \in Live /\ "stopped" \in Closing
      BY <1>1, <2>3, OpsAt, FitHere DEF Aimed, Beating, Closing
    <3>2. PICK r \in Live : r = call[c].on
      BY <3>1
    <3>3. /\ live'[r].status = "stopped" /\ live'[r].of = live[r].of
          /\ \A q \in Live : q # r => live'[q] = live[q]
      BY <2>3, <3>1, <3>2, EndsFacts
    <3> QED
      BY <1>2, <3>3, SameOwnersKeep DEF Metered, Closing
  <2>4. CASE At(c, "beat") /\ live' = [live EXCEPT ![call[c].on].beat = call[c].at]
    <3>1. call[c].on \in Live
      BY <1>1, <2>4, OpsAt, FitHere DEF Aimed, Beating
    <3> DEFINE r == call[c].on
               beaten == [live[r] EXCEPT !.beat = call[c].at]
    <3>2. live[r] \in Stage /\ live \in [Live -> Stage]
      BY <3>1, StageOf
    <3>3. beaten.status = live[r].status /\ beaten.of = live[r].of
      BY <3>2 DEF Stage
    <3>4. live' = [live EXCEPT ![r] = beaten]
      BY <2>4
    <3> HIDE DEF beaten
    <3>5. \A q \in Live : live'[q].status = live[q].status /\ live'[q].of = live[q].of
      BY <3>1, <3>2, <3>3, <3>4
    <3> QED
      BY <1>2, <3>5, SameOwnersKeep DEF Metered
  <2> QED
    BY <2>1, <2>2, <2>3, <2>4 DEF BeginRun, Abandon, Beat, StopRun, episodes
<1> QED
  BY <1>1, <1>2, <1>3, <1>4, KindUnbilling, MeteredUnbilling

\* A call that is over, with nothing to charge in its hands.
LEMMA MeteredLeaves ==
  ASSUME ExternalAgentsAssumption, Shape, Shape', Metered, NEW c \in Caller, Others(c),
         ~InProgress(c)', call[c].pc \notin {"cost", "charge"}, Keeps,
         UNCHANGED <<ledger, meter, claims, faults>>
  PROVE  Metered'
<1>1. Billed(c)' /\ OwnsIt(c)' /\ ~Working(c)'
  BY DEF Billed, OwnsIt, Working
<1>2. \A x : Due(c, x) = 0 /\ Due(c, x)' = 0
  <2>1. call'[c].pc \notin {"cost", "charge"}
    BY DEF InProgress, At
  <2> QED
    BY <2>1 DEF Due, DueOf
<1>3. \A d \in Caller \ {c} : Apart(c, d)'
  BY <1>1 DEF Apart
<1>4. Unspent'
  BY DEF Metered, Unspent, Keeps
<1>5. \A x \in Agent : meter'[x] + Due(c, x)' + Spent(x) = meter[x] + Due(c, x) + Spent(x)'
  BY <1>2 DEF Keeps
<1> QED
  BY <1>1, <1>3, <1>4, <1>5, MeteredBy DEF Keeps

\* Others hold other episodes than a call that stays on its own.
LEMMA ApartStill ==
  ASSUME Bills, NEW c \in Caller, Others(c), Working(c), call'[c].on = call[c].on
  PROVE  \A d \in Caller \ {c} : Apart(c, d)'
<1>1. \A d \in Caller \ {c} : call'[d] = call[d] /\ Apart(c, d)
  BY DEF Others, Anyone, Bills
<1> QED
  BY <1>1 DEF Apart, Working, InProgress, At

\* A report is opened, or its record closed, with all its cost still to be recorded.
LEMMA MeteredOnward ==
  ASSUME ExternalAgentsAssumption, Shape, Shape', Metered, NEW c \in Caller, Others(c),
         Working(c), call[c].pc \in {"open", "close"}, NEW p \in {"close", "cost"}, Further(c, p),
         Same(call'[c], call[c]), call[c].op = "report",
         UNCHANGED <<live, ledger, meter, claims, faults>>
  PROVE  Metered'
<1>1. Keeps
  BY SameRunsKeep DEF Metered
<1>2. \A d \in Caller \ {c} : Apart(c, d)'
  BY ApartStill DEF Metered, Further
<1>3. /\ call'[c].op = "report" /\ call'[c].on = call[c].on /\ call'[c].left = call[c].left
      /\ call'[c].cost = call[c].cost /\ call'[c].pc = p /\ call[c].left = call[c].cost
  BY DEF Further, Same, Metered, Bills, Billed
<1>4. Billed(c)' /\ OwnsIt(c)'
  BY <1>3 DEF Billed, OwnsIt, Metered, Bills
<1>5. Unspent'
  BY DEF Metered, Unspent
<1>6. call[c].cost \in Int
  <2>1. InProgress(c) /\ Total \in Nat
    BY Sizes DEF Working
  <2> QED
    BY <2>1, FitHere DEF CallType
<1>7. \A x : Due(c, x) = 0 /\ Due(c, x)' = 0
  BY <1>3, <1>6 DEF Due, DueOf
<1>8. \A x \in Agent : meter'[x] + Due(c, x)' + Spent(x) = meter[x] + Due(c, x) + Spent(x)'
  BY <1>1, <1>7 DEF Keeps
<1> QED
  BY <1>1, <1>2, <1>4, <1>5, <1>8, MeteredBy DEF Keeps

LEMMA OpenRunMetered ==
  ASSUME ExternalAgentsAssumption, Shape, Shape', Metered, NEW c \in Caller, OpenRun(c)
  PROVE  Metered'
<1>1. Alone(c) /\ Others(c) /\ InProgress(c) /\ c \in Anyone /\ UNCHANGED faults
  BY EpisodesAlone DEF Episodes
<1>2. UNCHANGED <<live, ledger, meter, claims>> /\ At(c, "open")
  BY DEF OpenRun, money
<1>3. CASE call[c].op = "report"
  <2>1. Further(c, "close") /\ Same(call'[c], call[c])
    BY <1>1, <1>3, ToFurther DEF OpenRun, Shape, Places
  <2>2. Working(c) /\ call[c].pc = "open"
    BY <1>1, <1>2, <1>3 DEF Working, At
  <2> QED
    BY <1>1, <1>2, <1>3, <2>1, <2>2, MeteredOnward
<1>4. CASE call[c].op = "start"
  <2>1. Keeps
    BY <1>2, SameRunsKeep DEF Metered
  <2> QED
    BY <1>1, <1>2, <1>4, <2>1, KindUnbilling, MeteredUnbilling
<1> QED
  BY <1>1, <1>2, <1>3, <1>4, OpsAt

LEMMA CloseRunMetered ==
  ASSUME ExternalAgentsAssumption, Shape, Shape', Metered, NEW c \in Caller, CloseRun(c)
  PROVE  Metered'
<1>1. Alone(c) /\ Others(c) /\ InProgress(c) /\ c \in Anyone /\ UNCHANGED faults
  BY EpisodesAlone
<1>2. UNCHANGED <<live, ledger, meter, claims>> /\ At(c, "close")
  BY DEF CloseRun, money
<1>3. Keeps
  BY <1>2, SameRunsKeep DEF Metered
<1>4. call[c].op \in {"report", "beat", "finish"} /\ call[c].cost \in 0..Total
  BY <1>1, <1>2, OpsAt, FitHere DEF CallType
<1>5. End(c) \/ Go(c) \/ (To(c, "cost") /\ call[c].op = "report")
  <2>1. call[c].cost > 0 \/ call[c].cost = 0
    BY <1>4, Sizes
  <2> QED
    BY <1>4, <2>1 DEF CloseRun, End
<1>6. CASE End(c) \/ Go(c)
  <2>1. ~InProgress(c)'
    BY <1>1, <1>6, OverLeaves DEF Shape, Leaves, InProgress, At
  <2> QED
    BY <1>1, <1>2, <1>3, <2>1, MeteredLeaves DEF At
<1>7. CASE To(c, "cost") /\ call[c].op = "report"
  <2>1. Further(c, "cost") /\ Same(call'[c], call[c])
    BY <1>1, <1>7, ToFurther DEF Shape, Places
  <2>2. Working(c) /\ call[c].pc = "close"
    BY <1>1, <1>2, <1>7 DEF Working, At
  <2> QED
    BY <1>1, <1>2, <1>7, <2>1, <2>2, MeteredOnward
<1> QED
  BY <1>5, <1>6, <1>7

LEMMA ReplayMetered ==
  ASSUME ExternalAgentsAssumption, Shape, Shape', Metered, NEW c \in Caller, Replay(c)
  PROVE  Metered'
<1>1. Others(c) /\ InProgress(c) /\ c \in Anyone /\ UNCHANGED faults
  BY EpisodesAlone DEF Episodes
<1>2. UNCHANGED <<live, ledger, meter, claims>> /\ At(c, "replay") /\ (End(c) \/ Go(c))
  BY DEF Replay, episodes, money
<1>3. Keeps
  BY <1>2, SameRunsKeep DEF Metered
<1>4. ~InProgress(c)'
  BY <1>1, <1>2, OverLeaves DEF Shape, Leaves, InProgress, At
<1> QED
  BY <1>1, <1>2, <1>3, <1>4, MeteredLeaves DEF At

Prices(c, p, x) == call' = [call EXCEPT ![c].pc = p, ![c].cost = x, ![c].left = x]

PricedSo(c, p, x) == Further(c, p) /\ call'[c].cost = x /\ call'[c].left = x

LEMMA PricedAt ==
  ASSUME Shape, NEW c \in Caller, InProgress(c), NEW p \in Places, NEW x \in 0..Total,
         Prices(c, p, x)
  PROVE  PricedSo(c, p, x)
<1>1. call' = [call EXCEPT ![c].pc = p, ![c].cost = x, ![c].left = x]
  BY DEF Prices
<1>2. Further(c, p)
  BY <1>1, Priced
<1>3. call'[c].cost = x
  BY <1>1, Priced
<1>4. call'[c].left = x
  BY <1>1, Priced
<1> QED
  BY <1>2, <1>3, <1>4 DEF PricedSo

\* Whoever claims a report is the only one at work on it.
LEMMA ClaimMetered ==
  ASSUME ExternalAgentsAssumption, Shape, Shape', Metered, NEW c \in Caller,
         NEW cost \in 0..Total, Claim(c, cost)
  PROVE  Metered'
<1>1. Others(c) /\ InProgress(c) /\ c \in Anyone /\ UNCHANGED faults
  BY EpisodesAlone DEF Episodes
<1>2. UNCHANGED <<live, ledger, meter>> /\ At(c, "claim")
  BY DEF Claim, money
<1>3. Keeps
  BY <1>2, SameRunsKeep DEF Metered
<1>4. call[c].op = "report" /\ Aimed(call[c])
  BY <1>1, <1>2, OpsAt, FitHere
<1>5. PICK e \in Report : e = call[c].on
  BY <1>4 DEF Aimed
<1>6. Total \in Nat /\ cost \in Nat /\ cost <= Total /\ e \notin Live /\ e \in Episode
  BY <1>5, Sizes DEF Episode
<1>7. CASE To(c, "replay") /\ UNCHANGED claims
  <2>1. Further(c, "replay")
    BY <1>1, <1>7, ToFurther DEF Shape, Places
  <2>2. Unbilling(c) /\ Unbilling(c)'
    BY <1>2, <2>1 DEF Unbilling, At, Further
  <2> QED
    BY <1>1, <1>2, <1>3, <1>7, <2>2, MeteredUnbilling
<1>8. CASE /\ e \notin claims /\ claims' = claims \cup {e}
           /\ call' = [call EXCEPT ![c].pc = "open", ![c].cost = cost, ![c].left = cost]
  <2>0. "open" \in Places /\ Prices(c, "open", cost)
    BY <1>8 DEF Places, Prices
  <2>1. Further(c, "open") /\ call'[c].cost = cost /\ call'[c].left = cost
    BY <1>1, <2>0, PricedAt DEF PricedSo
  <2>2. call'[c].op = "report" /\ call'[c].on = e /\ call'[c].pc = "open"
    BY <1>4, <1>5, <2>1 DEF Further
  <2>3. ledger[e] = 0
    BY <1>8 DEF Metered, Unspent
  <2>4. Billed(c)'
    BY <1>2, <1>6, <1>8, <2>1, <2>2, <2>3 DEF Billed
  <2>5. OwnsIt(c)'
    BY <2>2 DEF OwnsIt
  <2>6. ASSUME NEW d \in Caller \ {c}
        PROVE  Apart(c, d)'
    <3>1. call'[d] = call[d] /\ (Working(d)' <=> Working(d))
      BY <1>1 DEF Others, Anyone, Working, InProgress, At
    <3>2. Working(d) => call[d].on \in Live \cup claims
      BY DEF Metered, Bills, Billed
    <3> QED
      BY <1>6, <1>8, <2>2, <3>1, <3>2 DEF Apart
  <2>7. Unspent'
    BY <1>2, <1>8 DEF Metered, Unspent
  <2>8. \A x \in Agent : meter'[x] + Due(c, x)' + Spent(x) = meter[x] + Due(c, x) + Spent(x)'
    <3>1. \A x : Due(c, x) = 0 /\ Due(c, x)' = 0
      BY <1>2, <2>2 DEF Due, DueOf, At
    <3> QED
      BY <1>2, <1>3, <3>1 DEF Keeps
  <2>9. claims \subseteq claims'
    BY <1>8
  <2> QED
    BY <1>1, <1>2, <1>3, <2>4, <2>5, <2>6, <2>7, <2>8, <2>9, MeteredBy DEF Keeps
<1> QED
  BY <1>5, <1>7, <1>8 DEF Claim

\* Whoever ends a run is the only one with its cost.
LEMMA FinishRunMetered ==
  ASSUME ExternalAgentsAssumption, Shape, Shape', Metered, NEW c \in Caller,
         NEW how \in {"finished", "failed"}, NEW cost \in 0..Total, FinishRun(c, how, cost)
  PROVE  Metered'
<1>1. Others(c) /\ InProgress(c) /\ c \in Anyone /\ UNCHANGED faults
  BY EpisodesAlone DEF Episodes
<1>2. UNCHANGED <<ledger, meter, claims>> /\ At(c, "end")
  BY DEF FinishRun, money
<1>3. call[c].op = "finish" /\ Aimed(call[c])
  BY <1>1, <1>2, OpsAt, FitHere
<1>4. PICK r \in Live : r = call[c].on
  BY <1>3 DEF Aimed, Beating
<1>5. CASE End(c) /\ UNCHANGED live
  <2>1. Keeps
    BY <1>2, <1>5, SameRunsKeep DEF Metered
  <2>2. ~InProgress(c)'
    BY <1>1, <1>5, OverLeaves DEF Shape, Leaves, InProgress, At
  <2> QED
    BY <1>1, <1>2, <2>1, <2>2, MeteredLeaves DEF At
<1> DEFINE p == IF cost = 0 THEN "close" ELSE "cost"
<1>6. CASE /\ Ends(r, how)
           /\ call' = [call EXCEPT ![c].pc = p, ![c].cost = cost, ![c].left = cost]
  <2>1. p \in {"close", "cost"} /\ p \in Places /\ how \in Closing
    BY DEF Places, Closing
  <2>0. Prices(c, p, cost)
    BY <1>6 DEF Prices
  <2> HIDE DEF p
  <2>2. Further(c, p) /\ call'[c].cost = cost /\ call'[c].left = cost
    BY <1>1, <2>0, <2>1, PricedAt DEF PricedSo
  <2>3. /\ call'[c].op = "finish" /\ call'[c].on = r /\ call'[c].pc = p
        /\ call'[c].who = call[c].who
    BY <1>3, <1>4, <2>2 DEF Further
  <2>4. /\ live[r].status = "running" /\ live'[r].status = how /\ live'[r].of = live[r].of
        /\ \A q \in Live : q # r => live'[q] = live[q]
    BY <1>6, <2>1, EndsFacts
  <2>5. Keeps
    BY <1>2, <2>1, <2>4, SameOwnersKeep DEF Metered, Closing
  <2>6. ledger[r] = 0
    BY <2>4 DEF Metered, Unspent, Closing
  <2>7. Total \in Nat /\ cost \in Nat /\ cost <= Total
    BY Sizes
  <2>8. Billed(c)'
    BY <1>2, <2>1, <2>2, <2>3, <2>6, <2>7 DEF Billed, Working
  <2>9. OwnsIt(c)'
    BY <1>1, <1>2, <1>3, <1>4, <2>3, <2>4 DEF OwnsIt, Metered, Owned, At
  <2>10. ASSUME NEW d \in Caller \ {c}
         PROVE  Apart(c, d)'
    <3>1. call'[d] = call[d] /\ (Working(d)' <=> Working(d))
      BY <1>1 DEF Others, Anyone, Working, InProgress, At
    <3>2. Working(d) => call[d].on # r
      <4>1. SUFFICES ASSUME Working(d), call[d].on = r PROVE FALSE
        OBVIOUS
      <4>2. InProgress(d) /\ Aimed(call[d])
        BY <4>1, FitHere DEF Working
      <4>3. r \notin Report
        BY Sizes
      <4>4. Ending(call[d])
        BY <4>1, <4>2, <4>3 DEF Working, Ending, Aimed
      <4> QED
        BY <2>4, <4>1, <4>2, <4>4 DEF Shape, EndedFirst, Anyone, Closing
    <3> QED
      BY <2>3, <3>1, <3>2 DEF Apart
  <2>11. Unspent'
    <3>1. \A q \in Live : live'[q].status \notin Closing => live[q].status \notin Closing
      BY <2>5 DEF Keeps
    <3> QED
      BY <1>2, <3>1 DEF Metered, Unspent
  <2>12. \A x \in Agent : meter'[x] + Due(c, x)' + Spent(x) = meter[x] + Due(c, x) + Spent(x)'
    <3>1. \A x : Due(c, x) = 0 /\ Due(c, x)' = 0
      BY <1>2, <2>2, <2>7 DEF Due, DueOf, At
    <3> QED
      BY <1>2, <2>5, <3>1 DEF Keeps
  <2> QED
    BY <1>1, <1>2, <2>5, <2>8, <2>9, <2>10, <2>11, <2>12, MeteredBy DEF Keeps
<1> QED
  BY <1>4, <1>5, <1>6 DEF FinishRun

LEMMA RecordCostMetered ==
  ASSUME ExternalAgentsAssumption, Shape, Shape', Metered, NEW c \in Caller,
         NEW part \in 1..Total, RecordCost(c, part)
  PROVE  Metered'
<1>1. Others(c) /\ InProgress(c) /\ c \in Anyone /\ UNCHANGED faults
  BY EpisodesAlone DEF Episodes
<1>2. UNCHANGED <<live, claims, meter>> /\ At(c, "cost")
  BY DEF RecordCost, episodes
<1>3. call[c].op \in {"report", "finish"} /\ Aimed(call[c])
  BY <1>1, <1>2, OpsAt, FitHere
<1>4. PICK p \in {"cost", "charge"} :
        /\ Further(c, p) /\ (p = "charge" <=> part = call[c].left)
        /\ call'[c].cost = call[c].cost /\ call'[c].left = call[c].left - part
        /\ call[c].left \in 0..Total /\ part <= call[c].left
  BY RecordedPart
<1>5. PICK e \in Episode : e = call[c].on
  BY <1>3 DEF Aimed, Beating, Episode
<1>6. PICK w \in Agent : w = call[c].who
  BY <1>3 DEF Aimed
<1>7. /\ ledger \in [Episode -> Nat] /\ Total \in Nat /\ call[c].cost \in 0..Total
      /\ part \in Nat /\ call[c].left \in Nat
  <2>1. call[c] \in CallType /\ Total \in Nat
    BY <1>1, FitHere, Sizes
  <2>2. call[c].cost \in 0..Total
    BY <2>1 DEF CallType
  <2>3. ledger \in [Episode -> Nat]
    BY DEF Shape, TypeOK
  <2> QED
    BY <1>4, <2>1, <2>2, <2>3
<1>8. /\ ledger' = [ledger EXCEPT ![e] = ledger[e] + part]
      /\ ledger'[e] = ledger[e] + part /\ \A d \in Episode : d # e => ledger'[d] = ledger[d]
  BY <1>5, <1>7 DEF RecordCost
<1>9. Working(c) /\ Billed(c)
  BY <1>1, <1>2, <1>3 DEF Working, At, Metered, Bills
<1>10. /\ call'[c].op = call[c].op /\ call'[c].on = e /\ call'[c].pc = p /\ call'[c].who = w
  BY <1>4, <1>5, <1>6 DEF Further
<1>11. /\ ledger[e] + call[c].left <= Total /\ e \in Live \cup claims
       /\ call[c].left <= call[c].cost
  BY <1>5, <1>9 DEF Billed
<1>12. Billed(c)'
  <2>1. call'[c].left <= call'[c].cost /\ (p = "charge" => call'[c].left = 0)
    BY <1>4, <1>7, <1>11
  <2>2. ledger'[e] + call'[c].left <= Total
    BY <1>4, <1>7, <1>8, <1>11
  <2> QED
    BY <1>2, <1>10, <1>11, <2>1, <2>2 DEF Billed
<1>13. OwnsIt(c)'
  BY <1>1, <1>2, <1>5, <1>6, <1>10 DEF OwnsIt, Metered, Owned, At
<1>14. \A d \in Caller \ {c} : Apart(c, d)'
  <2>1. Bills /\ call'[c].on = call[c].on
    BY <1>5, <1>10 DEF Metered
  <2> QED
    BY <1>1, <1>9, <2>1, ApartStill
<1>15. Unspent'
  <2>1. e \in Live => live[e].status \in Closing
    BY <1>1, <1>2, <1>5 DEF Shape, EndedFirst, Ending, Anyone, At
  <2>2. e \in Report => e \in claims
    BY <1>11, Sizes
  <2>3. ledger'[e] <= Total
    BY <1>4, <1>7, <1>8, <1>11
  <2>4. \A d \in Live : live'[d].status \notin Closing => ledger'[d] = 0
    BY <1>2, <1>8, <2>1 DEF Metered, Unspent, Episode
  <2>5. \A d \in Report \ claims' : ledger'[d] = 0
    BY <1>2, <1>8, <2>2 DEF Metered, Unspent, Episode
  <2>6. \A d \in Episode : ledger'[d] <= Total
    BY <1>8, <2>3 DEF Metered, Unspent
  <2> QED
    BY <2>4, <2>5, <2>6 DEF Unspent
<1>16. ASSUME NEW x \in Agent
       PROVE  meter'[x] + Due(c, x)' + Spent(x) = meter[x] + Due(c, x) + Spent(x)'
  <2>1. e \in Of(x) <=> x = w
    <3>1. CASE call[c].op = "report"
      <4>1. e \notin Live /\ By[e] = w
        BY <1>3, <1>5, <1>6, <3>1, Sizes DEF Aimed
      <4> QED
        BY <4>1 DEF Of
    <3>2. CASE call[c].op = "finish"
      <4>1. e \in Live /\ live[e].of = w
        BY <1>1, <1>2, <1>3, <1>5, <1>6, <3>2 DEF Aimed, Beating, OwnsIt, Metered, Owned, At
      <4> QED
        BY <4>1 DEF Of
    <3> QED
      BY <1>3, <3>1, <3>2
  <2>2. /\ IsFiniteSet(Of(x)) /\ meter[x] \in Int /\ Spent(x) \in Int
        /\ \A d \in Of(x) : ledger[d] \in Int /\ ledger'[d] \in Int
    <3>1. IsFiniteSet(Of(x)) /\ meter[x] \in Int /\ Spent(x) \in Int
      BY SumsTyped
    <3>2. \A d \in Of(x) : ledger[d] \in Int /\ ledger'[d] \in Int
      BY <1>7, <1>8 DEF Of
    <3> QED
      BY <3>1, <3>2
  <2>3. Spent(x)' = SumOf(ledger', Of(x))
    <3>1. Of(x)' = Of(x)
      BY <1>2 DEF Of
    <3> QED
      BY <3>1 DEF Spent
  <2>4. CASE x = w
    <3>1. Spent(x)' = Spent(x) - ledger[e] + ledger'[e]
      <4>1. \A d \in Of(x) \ {e} : ledger'[d] = ledger[d]
        BY <1>8 DEF Of
      <4>2. e \in Of(x)
        BY <2>1, <2>4
      <4> QED
        BY <2>2, <2>3, <4>1, <4>2, SumPut DEF Spent
    <3>2. Due(c, x) = call[c].cost - call[c].left
      BY <1>2, <1>6, <2>4 DEF Due, DueOf, At
    <3>3. Due(c, x)' = call[c].cost - (call[c].left - part)
      BY <1>4, <1>10, <2>4 DEF Due, DueOf
    <3>4. call[c].cost \in Int /\ call[c].left \in Int /\ part \in Int /\ ledger[e] \in Int
      BY <1>7
    <3> QED
      BY <1>2, <1>8, <2>2, <3>1, <3>2, <3>3, <3>4
  <2>5. CASE x # w
    <3>1. Spent(x)' = Spent(x)
      <4>1. \A d \in Of(x) : ledger'[d] = ledger[d]
        BY <1>8, <2>1, <2>5 DEF Of
      <4> QED
        BY <2>2, <2>3, <4>1, SumSame DEF Spent
    <3>2. Due(c, x) = 0 /\ Due(c, x)' = 0
      BY <1>6, <1>10, <2>5 DEF Due, DueOf
    <3> QED
      BY <1>2, <3>1, <3>2
  <2> QED
    BY <2>4, <2>5
<1>17. \A d \in Episode : ledger'[d] = ledger[d] \/ (Working(c) /\ d = call[c].on)
  BY <1>5, <1>8, <1>9
<1>18. \A r \in Live : live'[r].status = "none" => live'[r].of = "none"
  BY <1>2 DEF Metered, Owned
<1> QED
  BY <1>1, <1>2, <1>12, <1>13, <1>14, <1>15, <1>16, <1>17, <1>18, MeteredBy

\* What is recorded is charged, all at once.
LEMMA ChargeMetered ==
  ASSUME ExternalAgentsAssumption, Shape, Shape', Metered, NEW c \in Caller, Charge(c)
  PROVE  Metered'
<1>1. Others(c) /\ InProgress(c) /\ c \in Anyone /\ UNCHANGED faults
  BY EpisodesAlone DEF Episodes
<1>2. UNCHANGED <<live, claims, ledger>> /\ At(c, "charge")
  BY DEF Charge, episodes
<1>3. call[c].op \in {"report", "finish"} /\ Aimed(call[c])
  BY <1>1, <1>2, OpsAt, FitHere
<1>4. PICK w \in Agent : w = call[c].who
  BY <1>3 DEF Aimed
<1>5. Keeps
  BY <1>2, SameRunsKeep DEF Metered
<1>6. call[c].cost \in Int /\ meter \in [Agent -> Nat]
  <2>1. call[c] \in CallType /\ Total \in Nat
    BY <1>1, FitHere, Sizes
  <2>2. call[c].cost \in Int
    BY <2>1 DEF CallType
  <2> QED
    BY <2>2 DEF Shape, TypeOK
<1>7. call[c].left = 0
  BY <1>1, <1>2, <1>3 DEF Metered, Bills, Billed, Working, At
<1>8. /\ meter'[w] = meter[w] + call[c].cost /\ \A x \in Agent : x # w => meter'[x] = meter[x]
  BY <1>4, <1>6 DEF Charge
<1>9. ~Working(c)' /\ OwnsIt(c)' /\ call'[c].pc \notin {"cost", "charge"}
  <2>1. CASE call[c].op = "finish"
    <3>1. Further(c, "close")
      BY <1>1, <2>1, ToFurther DEF Charge, Shape, Places
    <3>2. live[call[c].on].of = call[c].who
      BY <1>1, <1>2, <2>1 DEF Metered, Owned, OwnsIt, At
    <3> QED
      BY <1>2, <2>1, <3>1, <3>2 DEF Further, Working, OwnsIt
  <2>2. CASE Go(c)
    <3>1. Leaves(c)
      BY <1>1, <2>2, OverLeaves DEF Shape
    <3> QED
      BY <3>1 DEF Leaves, Working, OwnsIt, InProgress, At
  <2> QED
    BY <1>3, <2>1, <2>2 DEF Charge
<1>10. Billed(c)' /\ \A d \in Caller \ {c} : Apart(c, d)'
  BY <1>9 DEF Billed, Apart
<1>11. Unspent'
  BY <1>2 DEF Metered, Unspent
<1>12. ASSUME NEW x \in Agent
       PROVE  meter'[x] + Due(c, x)' + Spent(x) = meter[x] + Due(c, x) + Spent(x)'
  <2>1. Due(c, x)' = 0 /\ Spent(x)' = Spent(x) /\ Spent(x) \in Int /\ meter[x] \in Int
    BY <1>5, <1>9, SumsTyped DEF Due, DueOf, Keeps
  <2>2. CASE x = w
    <3>1. Due(c, x) = call[c].cost - call[c].left
      BY <1>2, <1>4, <2>2 DEF Due, DueOf, At
    <3> QED
      BY <1>6, <1>7, <1>8, <2>1, <2>2, <3>1
  <2>3. CASE x # w
    <3>1. Due(c, x) = 0
      BY <1>4, <2>3 DEF Due, DueOf
    <3> QED
      BY <1>8, <2>1, <2>3, <3>1
  <2> QED
    BY <2>2, <2>3
<1> QED
  BY <1>1, <1>2, <1>5, <1>9, <1>10, <1>11, <1>12, MeteredBy DEF Keeps

\* A call that dies takes what it owes with it: the meter falls behind the record.
LEMMA LostMetered ==
  ASSUME ExternalAgentsAssumption, Shape, Shape', Metered, NEW c \in Anyone, Lost(c)
  PROVE  Metered'
<1>1. /\ Leaves(c) /\ UNCHANGED <<live, ledger, meter, claims>>
  BY OverLeaves DEF Lost, Shape, episodes, money
<1>2. Others(c) /\ ~InProgress(c)' /\ Keeps
  BY <1>1, SameRunsKeep DEF Leaves, Others, InProgress, At, Metered
<1>3. faults' # 0
  BY Faulted DEF Lost
<1>4. CASE c \notin Caller
  BY <1>1, <1>2, <1>3, <1>4, MeteredAside
<1>5. CASE c \in Caller
  <2>1. Billed(c)' /\ OwnsIt(c)' /\ \A d \in Caller \ {c} : Apart(c, d)'
    BY <1>2 DEF Billed, OwnsIt, Apart, Working
  <2>2. Bills' /\ \A d \in Caller : OwnsIt(d)'
    BY <1>1, <1>2, <2>1, BillsBut DEF Metered, Keeps
  <2>3. Owned' /\ Unspent'
    BY <1>1, <2>2 DEF Metered, Owned, Unspent
  <2>4. ASSUME NEW x \in Agent
        PROVE  Balanced(x)'
    <3>1. Owed(x)' = Owed(x) - Due(c, x) + Due(c, x)'
      BY <1>2, <1>5, OwedAfter
    <3>2. Due(c, x)' = 0
      BY <1>1 DEF Leaves, Due, DueOf
    <3>3. Due(c, x) >= 0
      <4>1. CASE Working(c)
        <5>1. call[c].left <= call[c].cost
          BY <1>5, <4>1 DEF Metered, Bills, Billed
        <5>2. call[c].left \in Int /\ call[c].cost \in Int
          BY <1>5, <4>1, FitHere, Sizes DEF Working, CallType
        <5> QED
          BY <5>1, <5>2 DEF Due, DueOf
      <4>2. CASE ~Working(c)
        BY <1>5, <4>2, IdleOwesNothing DEF Shape, OwesNothing
      <4> QED
        BY <4>1, <4>2
    <3>4. /\ Owed(x) \in Int /\ Spent(x) \in Int /\ meter[x] \in Int /\ Due(c, x) \in Int
          /\ meter[x] + Owed(x) <= Spent(x)
      BY <1>5, SumsTyped DEF Metered, Balanced
    <3>5. meter'[x] + Owed(x)' <= Spent(x)'
      BY <1>1, <1>2, <3>1, <3>2, <3>3, <3>4 DEF Keeps
    <3> QED
      BY <1>3, <3>5 DEF Balanced
  <2> QED
    BY <2>2, <2>3, <2>4 DEF Metered
<1> QED
  BY <1>4, <1>5

LEMMA FailuresMetered ==
  ASSUME ExternalAgentsAssumption, Shape, Shape', Metered, NEW c \in Caller,
         NEW done \in BOOLEAN, PauseUnreadable(c) \/ CreateFails(c, done) \/ EnrollFails(c, done)
  PROVE  Metered'
<1>1. /\ UNCHANGED <<ledger, meter, claims>>
      /\ At(c, "pause") \/ At(c, "create") \/ At(c, "enroll")
  BY DEF PauseUnreadable, CreateFails, EnrollFails, episodes, money
<1>2. InProgress(c) /\ faults' # 0
  BY <1>1, AtIsInProgress, Faulted DEF Places, PauseUnreadable, CreateFails, EnrollFails
<1>3. PICK p \in {"stop", "abandon", "unseat"} : To(c, p)
  BY DEF PauseUnreadable, CreateFails, EnrollFails
<1>4. Further(c, p)
  BY <1>2, <1>3, ToFurther DEF Shape, Places, Anyone
<1>5. Others(c) /\ Unbilling(c) /\ Unbilling(c)'
  BY <1>1, <1>4 DEF Further, Others, Unbilling, At
<1>6. Keeps
  <2>1. CASE UNCHANGED live
    BY <1>1, <2>1, SameRunsKeep DEF Metered
  <2>2. CASE At(c, "create") /\ live' = Created(c)
    BY <1>1, <2>2, CreatedKeeps
  <2> QED
    BY <2>1, <2>2 DEF PauseUnreadable, CreateFails, EnrollFails, episodes
<1> QED
  BY <1>1, <1>2, <1>5, <1>6, MeteredUnbilling

\* A command moves no money.
LEMMA ReadsUnbilling ==
  ASSUME ExternalAgentsAssumption, Shape, NEW c \in Caller, InProgress(c),
         ReadStatus(c) \/ Reread(c)
  PROVE  Others(c) /\ Unbilling(c)'
<1>1. PICK s : s = status[call[c].who]
  OBVIOUS
<1>2. s \in Seen
  BY <1>1, OpsAt DEF Shape, TypeOK, Seen
<1>3. End(c) \/ \E p \in {"permit", "again"} : Informs(c, p, s)
  BY <1>1 DEF ReadStatus, Reread, Informs
<1>4. CASE End(c)
  BY <1>4, OverLeaves DEF Shape, Leaves, Others, Unbilling, InProgress, At, Anyone
<1>5. ASSUME NEW p \in {"permit", "again"}, Informs(c, p, s)
      PROVE  Others(c) /\ Unbilling(c)'
  <2>1. Further(c, p)
    BY <1>2, <1>5, Informed DEF Places
  <2> QED
    BY <2>1 DEF Further, Others, Unbilling
<1> QED
  BY <1>3, <1>4, <1>5

LEMMA CommandUnbilling ==
  ASSUME ExternalAgentsAssumption, Shape, NEW c \in Caller, InProgress(c), Command(c), ~Release(c)
  PROVE  Others(c) /\ Unbilling(c)'
<1>1. CASE ReadStatus(c) \/ Reread(c)
  BY <1>1, ReadsUnbilling
<1>2. CASE ~ReadStatus(c) /\ ~Reread(c)
  <2>1. \/ End(c)
        \/ \E p \in {"clear", "enroll", "set", "unseat", "reread", "seat", "permit"} : To(c, p)
    BY <1>2 DEF Command, Permit, Contain, Revoke, CheckName, ClaimSeat, Enroll, Unseat
  <2>2. CASE End(c)
    BY <2>2, OverLeaves DEF Shape, Leaves, Others, Unbilling, InProgress, At, Anyone
  <2>3. ASSUME NEW p \in {"clear", "enroll", "set", "unseat", "reread", "seat", "permit"}, To(c, p)
        PROVE  Others(c) /\ Unbilling(c)'
    <3>1. Further(c, p)
      BY <2>3, ToFurther DEF Shape, Places, Anyone
    <3> QED
      BY <3>1 DEF Further, Others, Unbilling
  <2> QED
    BY <2>1, <2>2, <2>3
<1> QED
  BY <1>1, <1>2

\* Calls that find an agent free again hold what they held.
LEMMA FreedMetered ==
  ASSUME ExternalAgentsAssumption, Shape, Metered, NEW c \in Caller, call' = Freed(c),
         At(c, "set"), UNCHANGED <<live, claims, ledger, meter, faults>>
  PROVE  Metered'
<1>1. ASSUME NEW d \in Caller, d # c
      PROVE  /\ call'[d].pc = call[d].pc /\ (InProgress(d)' <=> InProgress(d))
             /\ InProgress(d) =>
                  /\ call'[d].op = call[d].op /\ call'[d].who = call[d].who
                  /\ call'[d].on = call[d].on /\ call'[d].cost = call[d].cost
                  /\ call'[d].left = call[d].left
  BY <1>1, FreedFacts DEF Anyone, InProgress, At
<1>2. ~InProgress(c)' /\ call'[c].pc = "idle" /\ call[c].pc = "set"
  BY FreedFacts DEF Idle, At
<1>3. \A d \in Caller : OwnsIt(d)' /\ Billed(d)'
  BY <1>1, <1>2 DEF Metered, Owned, Bills, OwnsIt, Billed, Working
<1>4. \A d \in Caller, b \in Caller : d # b => Apart(d, b)'
  BY <1>1, <1>2 DEF Metered, Bills, Apart, Working
<1>5. ASSUME NEW x \in Agent
      PROVE  Balanced(x)'
  <2>1. \A d \in Caller : Due(d, x)' = Due(d, x)
    <3>1. Due(c, x)' = Due(c, x)
      BY <1>2 DEF Due, DueOf
    <3>2. ASSUME NEW d \in Caller, d # c
          PROVE  Due(d, x)' = Due(d, x)
      BY <1>1, <3>2 DEF Due, DueOf, InProgress, At
    <3> QED
      BY <3>1, <3>2
  <2>2. Owed(x)' = Owed(x) /\ Spent(x)' = Spent(x)
    BY <2>1, OwedSame, SameRunsKeep DEF Keeps, Metered
  <2> QED
    BY <2>2 DEF Metered, Balanced
<1>6. Owned' /\ Unspent'
  BY <1>3 DEF Metered, Owned, Unspent
<1> QED
  BY <1>3, <1>4, <1>5, <1>6 DEF Metered, Bills

LEMMA CommandMetered ==
  ASSUME ExternalAgentsAssumption, Shape, Shape', Metered, NEW c \in Caller, Command(c)
  PROVE  Metered'
<1>1. /\ call[c].pc \in {"read", "permit", "set", "again", "reread", "name", "seat", "enroll",
                         "unseat"}
      /\ UNCHANGED <<live, claims, ledger, meter, faults>>
  BY DEF Command, ReadStatus, Permit, Contain, Release, Revoke, Reread, CheckName, ClaimSeat,
     Enroll, Unseat, At, episodes, money
<1>2. InProgress(c) /\ Unbilling(c)
  BY <1>1 DEF InProgress, At, Unbilling
<1>3. Keeps
  BY <1>1, SameRunsKeep DEF Metered
<1>4. CASE Others(c) /\ Unbilling(c)'
  BY <1>1, <1>2, <1>3, <1>4, MeteredUnbilling
<1>5. CASE ~Release(c)
  BY <1>2, <1>4, <1>5, CommandUnbilling
<1>6. CASE Release(c)
  <2>1. CASE call' = Freed(c)
    BY <1>1, <1>6, <2>1, FreedMetered DEF Release
  <2>2. CASE End(c)
    <3>1. Others(c) /\ Unbilling(c)'
      BY <2>2, OverLeaves DEF Shape, Leaves, Others, Unbilling, InProgress, At, Anyone
    <3> QED
      BY <1>4, <3>1
  <2> QED
    BY <1>6, <2>1, <2>2 DEF Release, Freed
<1> QED
  BY <1>5, <1>6

LEMMA SweepMetered ==
  ASSUME ExternalAgentsAssumption, Shape, Shape', Metered, Sweep
  PROVE  Metered'
<1>1. /\ Others(Sweeper) /\ Sweeper \in Anyone /\ Sweeper \notin Caller
      /\ UNCHANGED <<ledger, meter, claims, faults>>
  BY SweepTurns, Sizes DEF Others, Anyone, Sweep, ListStale, CloseRun, ReclaimRun, episodes, money
<1>2. Keeps
  <2>1. CASE UNCHANGED live
    BY <1>1, <2>1, SameRunsKeep DEF Metered
  <2>2. ASSUME NEW r \in Live, Ends(r, "reclaimed")
        PROVE  Keeps
    <3>1. /\ live'[r].status = "reclaimed" /\ live'[r].of = live[r].of
          /\ \A q \in Live : q # r => live'[q] = live[q]
      BY <2>2, EndsFacts DEF Closing
    <3> QED
      BY <1>1, <3>1, SameOwnersKeep DEF Metered, Closing
  <2> QED
    BY <2>1, <2>2 DEF Sweep, ListStale, CloseRun, ReclaimRun, episodes
<1> QED
  BY <1>1, <1>2, MeteredAside

LEMMA BeginMetered ==
  ASSUME ExternalAgentsAssumption, Shape, Shape', Metered, NEW c \in Caller,
         NEW op \in Admitted \cup Beating \cup Operating, NEW a \in Agent,
         NEW e \in Episode \cup {"none"}, Begin(c, op, a, e)
  PROVE  Metered'
<1>1. Others(c) /\ Unbilling(c)
  BY BeginFacts DEF Others, Unbilling
<1>2. UNCHANGED <<live, claims, ledger, meter, faults>>
  BY DEF Begin, episodes, money
<1>3. Unbilling(c)'
  <2>1. call'[c].pc \in {"rate", "name", "read"}
    BY BeginFacts DEF Admitted, Beating, Operating
  <2> QED
    BY <2>1 DEF Unbilling
<1>4. Keeps
  BY <1>2, SameRunsKeep DEF Metered
<1> QED
  BY <1>1, <1>2, <1>3, <1>4, MeteredUnbilling

LEMMA MeteredStarts ==
  ASSUME ExternalAgentsAssumption, Init
  PROVE  Metered
<1>1. Shape
  BY ShapeStarts
<1>2. \A c \in Caller : ~InProgress(c) /\ call[c].pc = "idle"
  BY DEF Init, Idle, InProgress, At
<1>3. Owned /\ Bills
  BY <1>2 DEF Init, Owned, Bills, OwnsIt, Billed, Apart, Working
<1>4. Unspent
  BY Sizes DEF Init, Unspent, Episode
<1>5. ASSUME NEW x \in Agent
      PROVE  Balanced(x)
  <2>1. IsFiniteSet(Caller) /\ IsFiniteSet(Of(x))
    BY <1>1, SumsTyped
  <2>2. Owed(x) = 0
    <3> DEFINE f == [c \in Caller |-> Due(c, x)]
    <3>1. \A c \in Caller : f[c] = 0
      BY <1>2 DEF Due, DueOf
    <3> HIDE DEF f
    <3>2. SumOf(f, Caller) = 0
      BY <2>1, <3>1, SumZero
    <3> QED
      BY <3>2 DEF f, Owed
  <2>3. Spent(x) = 0
    <3>1. \A e \in Of(x) : ledger[e] = 0
      BY DEF Init, Of
    <3> QED
      BY <2>1, <3>1, SumZero DEF Spent
  <2> QED
    BY <2>2, <2>3 DEF Init, Balanced
<1> QED
  BY <1>3, <1>4, <1>5 DEF Metered

LEMMA EpisodesMetered ==
  ASSUME ExternalAgentsAssumption, Shape, Shape', Metered, NEW c \in Caller, Episodes(c)
  PROVE  Metered'
BY StartsMetered, OpenRunMetered, ReadRunMetered, ChargeMetered, ReplayMetered, FinishRunMetered,
   ClaimMetered, RecordCostMetered DEF Episodes

LEMMA MeteredStep ==
  ASSUME ExternalAgentsAssumption, Shape, Metered, [Next]_vars
  PROVE  Metered'
<1>1. Shape'
  BY ShapeStep
<1>2. CASE UNCHANGED vars \/ Pause \/ Tick
  <2>1. /\ UNCHANGED <<call, live, claims, ledger, meter, faults>>
    BY <1>2 DEF vars, Pause, Tick, episodes, money
  <2>2. Sweeper \in Anyone /\ Sweeper \notin Caller /\ Others(Sweeper)
    BY <2>1, Sizes DEF Anyone, Others
  <2>3. Keeps
    BY <2>1, SameRunsKeep DEF Metered
  <2> QED
    BY <1>1, <2>1, <2>2, <2>3, MeteredAside
<1>3. ASSUME NEW c \in Caller, NEW op \in Admitted \cup Beating \cup Operating, NEW a \in Agent,
             NEW e \in Episode \cup {"none"}, Begin(c, op, a, e)
      PROVE  Metered'
  BY <1>1, <1>3, BeginMetered
<1>4. ASSUME Failure
      PROVE  Metered'
  BY <1>1, <1>4, LostMetered, FailuresMetered DEF Failure, Anyone
<1> QED
  BY <1>1, <1>2, <1>3, <1>4, AdmissionMetered, EpisodesMetered, CloseRunMetered, CommandMetered,
     SweepMetered DEF Next

\* Without failures the meter and the calls that are about to charge it account for every
\* entry of the record; with them the meter only falls behind (runs.ts:394-398,
\* report.ts:606-608).
THEOREM MeteredAlways == Spec => []Metered
<1>1. Init => Metered
  BY ExternalAgentsAssumption, MeteredStarts
<1>2. Shape /\ Metered /\ [Next]_vars => Metered'
  BY ExternalAgentsAssumption, MeteredStep
<1> QED
  BY <1>1, <1>2, ShapeAlways, PTL DEF Spec

LEMMA MeteredFollows ==
  ASSUME ExternalAgentsAssumption, Shape, Metered
  PROVE  MeterFollowsRecord
<1> SUFFICES ASSUME NEW x \in Agent
             PROVE  /\ \A e \in Of(x) : ledger[e] <= Total
                    /\ meter[x] <= Spent(x)
                    /\ faults = 0 /\ Charging(x) = {} => meter[x] = Spent(x)
  BY DEF MeterFollowsRecord, Spent
<1>1. \A e \in Of(x) : ledger[e] <= Total
  BY DEF Of, Metered, Unspent
<1>2. /\ Owed(x) \in Int /\ Spent(x) \in Int /\ meter[x] \in Int /\ IsFiniteSet(Caller)
      /\ \A c \in Caller : Due(c, x) \in Int
  BY SumsTyped
<1>3. /\ meter[x] + Owed(x) <= Spent(x)
      /\ faults = 0 => meter[x] + Owed(x) = Spent(x)
  BY DEF Metered, Balanced
<1> DEFINE f == [c \in Caller |-> Due(c, x)]
<1>4. Owed(x) = SumOf(f, Caller)
  BY DEF Owed
<1>5. Owed(x) >= 0
  <2>1. ASSUME NEW c \in Caller
        PROVE  Due(c, x) \in Nat
    <3>1. CASE Working(c)
      <4>1. call[c].pc \in {"cost", "charge"} => call[c].left <= call[c].cost
        BY <3>1 DEF Metered, Bills, Billed
      <4>2. call[c] \in CallType /\ Total \in Nat
        BY <3>1, FitHere, Sizes DEF Working
      <4>3. call[c].left \in Int /\ call[c].cost \in Int
        BY <4>2 DEF CallType
      <4> QED
        BY <4>1, <4>3 DEF Due, DueOf
    <3>2. CASE ~Working(c)
      BY <3>2, IdleOwesNothing DEF Shape, OwesNothing
    <3> QED
      BY <3>1, <3>2
  <2>2. \A c \in Caller : f[c] \in Nat
    BY <2>1
  <2> HIDE DEF f
  <2>3. SumOf(f, Caller) \in Nat
    BY <1>2, <2>2, SumNotNegative
  <2> QED
    BY <1>4, <2>3
<1>6. ASSUME Charging(x) = {}
      PROVE  Owed(x) = 0
  <2>1. \A c \in Caller : Due(c, x) = 0
    BY <1>6 DEF Charging, Due, DueOf, InProgress, At
  <2>2. \A c \in Caller : f[c] = 0
    BY <2>1
  <2> HIDE DEF f
  <2>3. SumOf(f, Caller) = 0
    BY <1>2, <2>2, SumZero
  <2> QED
    BY <1>4, <2>3
<1>7. meter[x] <= Spent(x)
  BY <1>2, <1>3, <1>5
<1>8. ASSUME faults = 0, Charging(x) = {}
      PROVE  meter[x] = Spent(x)
  BY <1>2, <1>3, <1>6, <1>8
<1> QED
  BY <1>1, <1>7, <1>8

\* An episode is charged once, however often it is reported or finished: its entries never
\* exceed what it reported, the meter never shows money the record does not account for, and
\* without failures the two agree when nobody is at work between them (runs.ts:394-398,
\* report.ts:167-169, 606-608).
THEOREM MeterFollows == Spec => []MeterFollowsRecord
<1>1. Shape /\ Metered => MeterFollowsRecord
  BY ExternalAgentsAssumption, MeteredFollows
<1> QED
  BY <1>1, ShapeAlways, MeteredAlways, PTL
=============================================================================
