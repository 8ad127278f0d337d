--------------------------- MODULE ExternalAgents ---------------------------
(***************************************************************************)
(* Agents that run elsewhere and report here: their enrollment and seats   *)
(* (external/enrollment.ts), the admission chain and the denials that      *)
(* contain an agent (external/admission.ts, external/ratelimit.ts), live   *)
(* runs with the heartbeat that is the only way to stop one and the sweep  *)
(* that reclaims a silent one (external/runs.ts), and reports of completed *)
(* work (external/report.ts), composed as the routes compose them          *)
(* (api/external.ts).                                                      *)
(*                                                                         *)
(* Requests, operators and the sweep make their store calls one await at a *)
(* time.  What runs between two awaits is one action.                      *)
(***************************************************************************)
EXTENDS Integers, FiniteSetsExt

CONSTANTS
  Agent,
  Enrolled,     \* those enrolled at the start
  Live,         \* ids of live runs
  Report,       \* reports, by agent and key
  By,           \* the agent of each report
  Callers,      \* bound on the requests and operators at work at once
  Sweeper,      \* the maintenance loop
  SeatCap,
  Expires,      \* when each enrollment ends
  Threshold,    \* denials that contain an agent
  Window,       \* how long a denial counts
  Reclaim,      \* how long a run may be silent
  Ceiling,      \* what an agent may spend
  Total,        \* the most an episode costs
  Ttl,          \* how long a pause may go unseen
  MaxTime,      \* bound on the clock
  MaxEvents     \* bound on the calls made, the pauses, the store calls that fail and the
                \* processes that die, together

Episode == Live \cup Report

\* Requests and operators, each making calls one after another.
Caller == 1..Callers

ASSUME ExternalAgentsAssumption ==
  /\ {Callers, SeatCap, Threshold, Window, Reclaim, Ceiling, Total, Ttl, MaxTime, MaxEvents}
       \subseteq Nat
  /\ Enrolled \subseteq Agent /\ IsFiniteSet(Enrolled) /\ Cardinality(Enrolled) <= SeatCap
  /\ IsFiniteSet(Live) /\ IsFiniteSet(Report)
  /\ By \in [Report -> Agent] /\ Expires \in [Agent -> Nat]
  /\ Live \cap Report = {} /\ Live \cap Agent = {} /\ Sweeper \notin Caller
  /\ "none" \notin Episode \cup Agent

VARIABLES
  status,     \* of each enrollment
  seats,      \* seats claimed
  denials,    \* the denial ledger: how many of each agent at each time
  live,       \* live runs
  claims,     \* reports whose key is claimed
  record,     \* the runs of the operating record
  ledger,     \* cost entries of each episode, summed
  meter,      \* what each agent has spent
  pausedAt,   \* when the platform was paused, or -1
  call,       \* the call each caller is making
  lost,       \* what was created and reported as not
  now, made, faults

enrollment == <<status, seats>>
episodes == <<live, claims, record>>
money == <<ledger, meter>>
vars == <<enrollment, denials, episodes, money, pausedAt, call, lost, now, made, faults>>

Closing == {"finished", "failed", "stopped", "reclaimed"}

\* What the operating record says of an episode that ended so.
Outcome ==
  [s \in Closing |-> CASE s = "finished" -> "succeeded"
                       [] s = "failed" -> "failed"
                       [] OTHER -> "cancelled"]

Admitted == {"screen", "start", "report"}
Beating == {"beat", "finish"}
Operating == {"enroll", "contain", "release", "revoke"}

\* A call: what is asked, of whom and over which episode, at what time; the status it
\* read; what it costs and how much of that is still to be recorded; what a sweep has
\* listed; whether the agent was active at any moment since it asked.
CallType ==
  [op : Admitted \cup Beating \cup Operating \cup {"sweep"},
   pc : {"rate", "agent", "pause", "judge", "deny", "contain", "clear", "begin", "ask",
         "open", "create", "abandon", "run", "beat", "stop", "end", "close", "cost",
         "charge", "claim", "replay", "read", "permit", "set", "reread", "again", "name", "seat",
         "enroll", "unseat", "sweep"},
   who : Agent \cup {"none"}, on : Episode \cup {"none"}, at : Nat,
   seen : {"none", "active", "contained", "revoked", "stopped"},
   cost : 0..Total, left : 0..Total, todo : SUBSET Live, chance : BOOLEAN]

Idle == [pc |-> "idle"]

TypeOK ==
  /\ status \in [Agent -> {"none", "active", "contained", "revoked"}]
  /\ seats \in 0..SeatCap
  /\ denials \in [Agent -> [0..MaxTime -> Nat]]
  /\ live \in [Live -> [status : {"none", "running"} \cup Closing,
                        of : Agent \cup {"none"}, beat : Nat]]
  /\ claims \subseteq Report
  /\ record \in [Episode -> {"none", "running", "succeeded", "failed", "cancelled"}]
  /\ ledger \in [Episode -> Nat] /\ meter \in [Agent -> Nat]
  /\ pausedAt \in Nat \cup {-1}
  /\ call \in [Caller \cup {Sweeper} ->
                 CallType \cup [pc : {"idle", "go"}]]
  /\ lost \subseteq Agent \cup Live
  /\ now \in 0..MaxTime /\ made \in 0..MaxEvents /\ faults \in 0..MaxEvents

Init ==
  /\ status = [a \in Agent |-> IF a \in Enrolled THEN "active" ELSE "none"]
  /\ seats = Cardinality(Enrolled)
  /\ denials = [a \in Agent |-> [t \in 0..MaxTime |-> 0]]
  /\ live = [r \in Live |-> [status |-> "none", of |-> "none", beat |-> 0]]
  /\ claims = {}
  /\ record = [e \in Episode |-> "none"]
  /\ ledger = [e \in Episode |-> 0] /\ meter = [a \in Agent |-> 0]
  /\ pausedAt = -1
  /\ call = [c \in Caller \cup {Sweeper} |-> Idle]
  /\ lost = {}
  /\ now = 0 /\ made = 0 /\ faults = 0

-----------------------------------------------------------------------------
To(c, pc) == call' = [call EXCEPT ![c].pc = pc]

\* A call is over, and its caller told to go on, or not.
Go(c) == call' = [call EXCEPT ![c] = [pc |-> "go"]]
End(c) == call' = [call EXCEPT ![c] = Idle]

At(c, pc) == call[c].pc = pc
InProgress(c) == ~At(c, "idle") /\ ~At(c, "go")

\* Why an agent must not act.  Admission lets it act at the instant it expires, where
\* a heartbeat stops it.
Stopped(a, at) == status[a] # "active" \/ Expires[a] <= at
MutRefused(a, at) == status[a] = "revoked" \/ at > Expires[a]
Refused(a, at) == status[a] # "active" \/ at > Expires[a]

\* The pause is read through a cache.
PauseIsSeen(at) == pausedAt >= 0 /\ pausedAt + Ttl <= at
PauseReads == {p \in BOOLEAN : (p => pausedAt >= 0) /\ (PauseIsSeen(now) => p)}

\* Bound: what dates a heartbeat happens while there is time left to miss it, or when the
\* agent has expired, for that heartbeat is never written.
Early(a) == now + Reclaim < MaxTime \/ Expires[a] <= now

\* Ids of live runs are fresh.
Unused(r) == /\ live[r].status = "none" /\ record[r] = "none"
             /\ \A c \in Caller : InProgress(c) => call[c].on # r

Over(op) ==
  CASE op = "start" -> {r \in Live : Unused(r)}
    [] op \in Beating -> {r \in Live : live[r].status # "none"}
    [] op = "report" -> Report
    [] OTHER -> {"none"}

OneMore == made < MaxEvents /\ made' = made + 1

\* A request or an operator's command.  An agent that is not enrolled cannot sign one.
\* Callers are alike, so the first that is free takes it.
Begin(c, op, a, e) ==
  /\ ~InProgress(c) /\ \A d \in 1..(c - 1) : InProgress(d)
  /\ OneMore
  /\ op # "enroll" => status[a] # "none"
  /\ e \in Over(op) /\ (op = "report" => By[e] = a)
  /\ call' = [call EXCEPT ![c] =
       [op |-> op,
        pc |-> CASE op \in Admitted \cup Beating -> "rate" [] op = "enroll" -> "name"
                 [] OTHER -> "read",
        who |-> a, on |-> e, at |-> now, seen |-> "none", cost |-> 0, left |-> 0,
        todo |-> {}, chance |-> status[a] = "active"]]
  /\ UNCHANGED <<enrollment, denials, episodes, money, pausedAt, lost, now, faults>>

-----------------------------------------------------------------------------
(* Admission. *)

\* check: over the limit or not.  Only admission counts the refusal; a heartbeat is
\* dated once it is let through.
Rate(c) ==
  /\ At(c, "rate")
  /\ \/ call[c].op \in Admitted /\ To(c, "agent")
     \/ /\ call[c].op \in Beating /\ Early(call[c].who)
        /\ call' = [call EXCEPT ![c].pc = "run", ![c].at = now]
     \/ IF call[c].op \in Admitted THEN To(c, "deny") ELSE End(c)
  /\ UNCHANGED <<enrollment, denials, episodes, money, pausedAt, lost, now, made, faults>>

\* The enrollment as it is: admission refuses on it at once, a heartbeat after it has
\* asked for the pause.
ReadAgent(c) ==
  /\ At(c, "agent")
  /\ IF call[c].op = "beat"
     THEN call' = [call EXCEPT ![c].pc = "pause",
                     ![c].seen = IF Stopped(call[c].who, call[c].at) THEN "stopped" ELSE "active"]
     ELSE To(c, IF Refused(call[c].who, call[c].at) THEN "deny"
                ELSE IF call[c].op = "report" THEN "judge" ELSE "pause")
  /\ UNCHANGED <<enrollment, denials, episodes, money, pausedAt, lost, now, made, faults>>

\* The platform's own pause: no fault of the agent's, so no denial is counted.
AskPause(c) ==
  /\ At(c, "pause") \/ At(c, "ask")
  /\ \E paused \in PauseReads :
       CASE call[c].op = "beat" ->
              To(c, IF paused \/ call[c].seen = "stopped" THEN "stop" ELSE "beat")
         [] call[c].op # "beat" /\ paused -> End(c)
         [] OTHER -> To(c, IF At(c, "ask") THEN "open" ELSE "judge")
  /\ UNCHANGED <<enrollment, denials, episodes, money, pausedAt, lost, now, made, faults>>

\* The rest of the chain: tool, risk, scope, text, and the meter.  An action that needs
\* a human goes no further, unless it has been done already.
Judge(c) ==
  /\ At(c, "judge")
  /\ \/ To(c, "deny")
     \/ meter[call[c].who] < Ceiling /\ call[c].op # "report" /\ End(c)
     \/ /\ meter[call[c].who] < Ceiling
        /\ CASE call[c].op = "screen" -> Go(c)
             [] call[c].op = "start" -> To(c, "begin")
             [] call[c].op = "report" -> To(c, "claim")
  /\ UNCHANGED <<enrollment, denials, episodes, money, pausedAt, lost, now, made, faults>>

SumOf(f, S) == MapThenSumSet(LAMBDA x : f[x], S)

\* noteDenial: the denial is counted, those out of the window dropped, and one that
\* reaches the threshold contains.
Deny(c) ==
  /\ At(c, "deny")
  /\ LET counted == denials[call[c].who] IN
     denials' = [denials EXCEPT ![call[c].who] =
       [t \in 0..MaxTime |-> IF t <= now - Window THEN 0
                             ELSE counted[t] + (IF t = now THEN 1 ELSE 0)]]
  /\ IF SumOf(denials'[call[c].who], 0..MaxTime) >= Threshold THEN To(c, "contain") ELSE End(c)
  /\ UNCHANGED <<enrollment, episodes, money, pausedAt, lost, now, made, faults>>

\* setAgentStatus: compare and set.
Moves(a, from, to) == status[a] = from /\ status' = [status EXCEPT ![a] = to]

\* contain, by the platform.
ContainForDenials(c) ==
  /\ At(c, "contain")
  /\ \/ Moves(call[c].who, "active", "contained") /\ To(c, "clear")
     \/ status[call[c].who] # "active" /\ End(c) /\ UNCHANGED status
  /\ UNCHANGED <<seats, denials, episodes, money, pausedAt, lost, now, made, faults>>

\* clearDenials: after an automatic containment, before a release.
ClearDenials(c) ==
  /\ At(c, "clear")
  /\ denials' = [denials EXCEPT ![call[c].who] = [t \in 0..MaxTime |-> 0]]
  /\ IF call[c].op = "release" THEN To(c, "set") ELSE End(c)
  /\ UNCHANGED <<enrollment, episodes, money, pausedAt, lost, now, made, faults>>

-----------------------------------------------------------------------------
(* Live runs. *)

\* start: what admission has just asked is asked again.
BeginRun(c) ==
  /\ At(c, "begin") /\ Early(call[c].who)
  /\ IF Stopped(call[c].who, now) THEN End(c)
     ELSE call' = [call EXCEPT ![c].pc = "ask", ![c].at = now]
  /\ UNCHANGED <<enrollment, denials, episodes, money, pausedAt, lost, now, made, faults>>

\* createRun, of a live run or of a report.
OpenRun(c) ==
  /\ At(c, "open")
  /\ record' = [record EXCEPT ![call[c].on] = "running"]
  /\ To(c, IF call[c].op = "start" THEN "create" ELSE "close")
  /\ UNCHANGED <<enrollment, denials, live, claims, money, pausedAt, lost, now, made, faults>>

Created(c) == [live EXCEPT ![call[c].on] =
                 [status |-> "running", of |-> call[c].who, beat |-> call[c].at]]

CreateRun(c) ==
  /\ At(c, "create")
  /\ live' = Created(c)
  /\ Go(c)
  /\ UNCHANGED <<enrollment, denials, claims, record, money, pausedAt, lost, now, made, faults>>

\* The live run could not be created, or so it seems: the run behind it is closed.
Abandon(c) ==
  /\ At(c, "abandon")
  /\ record' = [record EXCEPT ![call[c].on] = "failed"]
  /\ End(c)
  /\ UNCHANGED <<enrollment, denials, live, claims, money, pausedAt, lost, now, made, faults>>

Running(r) == live[r].status = "running"

\* heartbeat and finish look at the run first: another agent's is refused, an ended one
\* is ended.
ReadRun(c) ==
  /\ At(c, "run")
  /\ LET r == call[c].on IN
     IF live[r].of # call[c].who \/ ~Running(r) THEN End(c)
     ELSE To(c, IF call[c].op = "beat" THEN "agent" ELSE "end")
  /\ UNCHANGED <<enrollment, denials, episodes, money, pausedAt, lost, now, made, faults>>

Beat(c) ==
  /\ At(c, "beat")
  /\ \/ /\ Running(call[c].on)
        /\ live' = [live EXCEPT ![call[c].on].beat = call[c].at]
        /\ Go(c)
     \/ ~Running(call[c].on) /\ End(c) /\ UNCHANGED live
  /\ UNCHANGED <<enrollment, denials, claims, record, money, pausedAt, lost, now, made, faults>>

\* finishExternalRun: only a running run ends, once.
MutEnds(r, how) == live' = [live EXCEPT ![r].status = how]
Ends(r, how) == Running(r) /\ live' = [live EXCEPT ![r].status = how]

\* stopRun: the agent has been told to stop and will not beat again.
StopRun(c) ==
  /\ At(c, "stop")
  /\ \/ Ends(call[c].on, "stopped") /\ To(c, "close")
     \/ ~Running(call[c].on) /\ End(c) /\ UNCHANGED live
  /\ UNCHANGED <<enrollment, denials, claims, record, money, pausedAt, lost, now, made, faults>>

FinishRun(c, how, cost) ==
  /\ At(c, "end")
  /\ \/ /\ Ends(call[c].on, how)
        /\ call' = [call EXCEPT ![c].pc = IF cost = 0 THEN "close" ELSE "cost",
                                ![c].cost = cost, ![c].left = cost]
     \/ ~Running(call[c].on) /\ End(c) /\ UNCHANGED live
  /\ UNCHANGED <<enrollment, denials, claims, record, money, pausedAt, lost, now, made, faults>>

\* recordCost: a live run's cost in one entry, a report's in one or more.
RecordCost(c, part) ==
  /\ At(c, "cost") /\ part <= call[c].left
  /\ call[c].op = "finish" => part = call[c].left
  /\ ledger' = [ledger EXCEPT ![call[c].on] = @ + part]
  /\ call' = [call EXCEPT ![c].left = @ - part,
                          ![c].pc = IF part = call[c].left THEN "charge" ELSE "cost"]
  /\ UNCHANGED <<enrollment, denials, episodes, meter, pausedAt, lost, now, made, faults>>

\* addSpend, after the record.
Charge(c) ==
  /\ At(c, "charge")
  /\ meter' = [meter EXCEPT ![call[c].who] = @ + call[c].cost]
  /\ IF call[c].op = "finish" THEN To(c, "close") ELSE Go(c)
  /\ UNCHANGED <<enrollment, denials, episodes, ledger, pausedAt, lost, now, made, faults>>

Ended(e) == record[e] \in {"succeeded", "failed", "cancelled"}

\* closeRecordRun: a run that ended otherwise is not moved, and the call fails.  A
\* sweep goes on with its list.
CloseRun(c) ==
  /\ At(c, "close")
  /\ LET e == call[c].on
         end == IF e \in Live THEN Outcome[live[e].status] ELSE "succeeded"
     IN \/ /\ ~Ended(e) \/ record[e] = end
           /\ record' = [record EXCEPT ![e] = end]
           /\ CASE call[c].op = "report" /\ call[c].cost > 0 -> To(c, "cost")
                [] call[c].op = "report" /\ call[c].cost = 0 -> Go(c)
                [] call[c].op = "sweep" -> call' = [call EXCEPT ![c] =
                     IF call[c].todo = {} THEN Idle
                     ELSE [call[c] EXCEPT !.pc = "sweep", !.on = "none"]]
                [] OTHER -> End(c)
        \/ /\ Ended(e) /\ record[e] # end
           /\ call' = [call EXCEPT ![c] = Idle]
           /\ UNCHANGED record
  /\ UNCHANGED <<enrollment, denials, live, claims, money, pausedAt, lost, now, made, faults>>

\* findStaleRuns.
MutStale == {r \in Live : Running(r) /\ live[r].beat > now - Reclaim}
Stale == {r \in Live : Running(r) /\ live[r].beat < now - Reclaim}

ListStale ==
  /\ At(Sweeper, "idle") /\ Stale # {}
  /\ call' = [call EXCEPT ![Sweeper] =
       [op |-> "sweep", pc |-> "sweep", who |-> "none", on |-> "none", at |-> now,
        seen |-> "none", cost |-> 0, left |-> 0, todo |-> Stale, chance |-> FALSE]]
  /\ UNCHANGED <<enrollment, denials, episodes, money, pausedAt, lost, now, made, faults>>

\* reclaimStale: a run somebody closed since it was listed is passed over.
ReclaimRun(r) ==
  /\ At(Sweeper, "sweep") /\ r \in call[Sweeper].todo
  /\ LET rest == call[Sweeper].todo \ {r} IN
     \/ /\ Ends(r, "reclaimed")
        /\ call' = [call EXCEPT ![Sweeper].pc = "close", ![Sweeper].on = r, ![Sweeper].todo = rest]
     \/ /\ ~Running(r) /\ UNCHANGED live
        /\ call' = [call EXCEPT ![Sweeper] =
             IF rest = {} THEN Idle ELSE [call[Sweeper] EXCEPT !.todo = rest]]
  /\ UNCHANGED <<enrollment, denials, claims, record, money, pausedAt, lost, now, made, faults>>

-----------------------------------------------------------------------------
(* Reports. *)

\* claimReport: the key is claimed before anything is written.
MutClaim(c, cost) ==
  /\ At(c, "claim")
  /\ claims' = claims \cup {call[c].on}
  /\ call' = [call EXCEPT ![c].pc = "open", ![c].cost = cost, ![c].left = cost]
  /\ UNCHANGED <<enrollment, denials, live, record, money, pausedAt, lost, now, made, faults>>
Claim(c, cost) ==
  /\ At(c, "claim")
  /\ \/ /\ call[c].on \notin claims
        /\ claims' = claims \cup {call[c].on}
        /\ call' = [call EXCEPT ![c].pc = "open", ![c].cost = cost, ![c].left = cost]
     \/ call[c].on \in claims /\ To(c, "replay") /\ UNCHANGED claims
  /\ UNCHANGED <<enrollment, denials, live, record, money, pausedAt, lost, now, made, faults>>

\* replayOriginal: answered from the record, or refused until it is there.
Replay(c) ==
  /\ At(c, "replay")
  /\ (IF record[call[c].on] = "none" THEN End(c) ELSE Go(c))
  /\ UNCHANGED <<enrollment, denials, episodes, money, pausedAt, lost, now, made, faults>>

-----------------------------------------------------------------------------
(* Operators. *)

\* The status the command will compare with: a command that is already obeyed, or is
\* too late, ends here.
ReadStatus(c) ==
  /\ At(c, "read")
  /\ LET s == status[call[c].who] IN
     IF s = "revoked" \/ (call[c].op = "contain" /\ s = "contained")
                      \/ (call[c].op = "release" /\ s = "active")
     THEN End(c)
     ELSE call' = [call EXCEPT ![c].pc = "permit", ![c].seen = s]
  /\ UNCHANGED <<enrollment, denials, episodes, money, pausedAt, lost, now, made, faults>>

\* authorize, at the chokepoint.
Permit(c) ==
  /\ At(c, "permit")
  /\ \/ To(c, CASE call[c].op = "release" -> "clear" [] call[c].op = "enroll" -> "enroll"
                [] OTHER -> "set")
     \/ IF call[c].op = "enroll" THEN To(c, "unseat") ELSE End(c)
  /\ UNCHANGED <<enrollment, denials, episodes, money, pausedAt, lost, now, made, faults>>

Contain(c) ==
  /\ At(c, "set") /\ call[c].op = "contain"
  /\ \/ Moves(call[c].who, "active", "contained")
     \/ status[call[c].who] # "active" /\ UNCHANGED status
  /\ End(c)
  /\ UNCHANGED <<seats, denials, episodes, money, pausedAt, lost, now, made, faults>>

\* Calls in progress may find the agent free again.
Release(c) ==
  /\ At(c, "set") /\ call[c].op = "release"
  /\ \/ /\ Moves(call[c].who, "contained", "active")
        /\ call' = [d \in DOMAIN call |->
             IF d = c THEN Idle
             ELSE IF InProgress(d) /\ call[d].who = call[c].who
             THEN [call[d] EXCEPT !.chance = TRUE]
             ELSE call[d]]
     \/ status[call[c].who] # "contained" /\ End(c) /\ UNCHANGED status
  /\ UNCHANGED <<seats, denials, episodes, money, pausedAt, lost, now, made, faults>>

\* Revocation is tried against what was read, and once more against what is there.
Revoke(c) ==
  /\ At(c, "set") \/ At(c, "again")
  /\ call[c].op = "revoke"
  /\ \/ Moves(call[c].who, call[c].seen, "revoked") /\ To(c, "unseat")
     \/ /\ status[call[c].who] # call[c].seen /\ UNCHANGED status
        /\ IF At(c, "again") THEN End(c) ELSE To(c, "reread")
  /\ UNCHANGED <<seats, denials, episodes, money, pausedAt, lost, now, made, faults>>

MutReread(c) ==
  /\ At(c, "reread")
  /\ LET s == status[call[c].who] IN
     IF s = "revoked" THEN To(c, "unseat")
     ELSE call' = [call EXCEPT ![c].pc = "again", ![c].seen = s]
  /\ UNCHANGED <<enrollment, denials, episodes, money, pausedAt, lost, now, made, faults>>
Reread(c) ==
  /\ At(c, "reread")
  /\ LET s == status[call[c].who] IN
     IF s = "revoked" THEN End(c)
     ELSE call' = [call EXCEPT ![c].pc = "again", ![c].seen = s]
  /\ UNCHANGED <<enrollment, denials, episodes, money, pausedAt, lost, now, made, faults>>

\* enroll: a name that is taken is refused for free.
CheckName(c) ==
  /\ At(c, "name")
  /\ IF status[call[c].who] # "none" THEN End(c) ELSE To(c, "seat")
  /\ UNCHANGED <<enrollment, denials, episodes, money, pausedAt, lost, now, made, faults>>

ClaimSeat(c) ==
  /\ At(c, "seat")
  /\ \/ seats < SeatCap /\ seats' = seats + 1 /\ To(c, "permit")
     \/ seats >= SeatCap /\ End(c) /\ UNCHANGED seats
  /\ UNCHANGED <<status, denials, episodes, money, pausedAt, lost, now, made, faults>>

\* createAgent: a name is taken once.
Enroll(c) ==
  /\ At(c, "enroll")
  /\ \/ Moves(call[c].who, "none", "active") /\ End(c)
     \/ status[call[c].who] # "none" /\ To(c, "unseat") /\ UNCHANGED status
  /\ UNCHANGED <<seats, denials, episodes, money, pausedAt, lost, now, made, faults>>

\* releaseSeatQuietly: after an enrollment that failed, or a revocation.
Unseat(c) ==
  /\ At(c, "unseat")
  /\ seats' = IF seats = 0 THEN 0 ELSE seats - 1
  /\ End(c)
  /\ UNCHANGED <<status, denials, episodes, money, pausedAt, lost, now, made, faults>>

-----------------------------------------------------------------------------
(* The platform's pause, failures, time. *)

Pause ==
  /\ pausedAt = -1 /\ pausedAt' = now
  /\ OneMore
  /\ UNCHANGED <<enrollment, denials, episodes, money, call, lost, now, faults>>

Fault == OneMore /\ faults' = faults + 1

\* The process dies, or a store call fails where the code has nothing left to undo.
Lost(c) ==
  /\ InProgress(c) /\ Fault
  /\ call' = [call EXCEPT ![c] = Idle]
  /\ UNCHANGED <<enrollment, denials, episodes, money, pausedAt, lost, now>>

\* The switch cannot be read: the code takes it as engaged.  A heartbeat is told to stop
\* and its run is closed; any other call ends there, as under Lost.
PauseUnreadable(c) ==
  /\ At(c, "pause") /\ call[c].op = "beat" /\ Fault
  /\ To(c, "stop")
  /\ UNCHANGED <<enrollment, denials, episodes, money, pausedAt, lost, now>>

\* A creation fails, or was done and seemed to fail: the code undoes what went before it.
CreateFails(c, done) ==
  /\ At(c, "create") /\ Fault
  /\ live' = IF done THEN Created(c) ELSE live
  /\ lost' = IF done THEN lost \cup {call[c].on} ELSE lost
  /\ To(c, "abandon")
  /\ UNCHANGED <<enrollment, denials, claims, record, money, pausedAt, now>>

EnrollFails(c, done) ==
  /\ At(c, "enroll") /\ Fault
  /\ IF done THEN Moves(call[c].who, "none", "active") /\ lost' = lost \cup {call[c].who}
     ELSE UNCHANGED <<status, lost>>
  /\ To(c, "unseat")
  /\ UNCHANGED <<seats, denials, episodes, money, pausedAt, now>>

Tick ==
  /\ now < MaxTime /\ now' = now + 1
  /\ UNCHANGED <<enrollment, denials, episodes, money, pausedAt, call, lost, made, faults>>

Admission(c) ==
  Rate(c) \/ ReadAgent(c) \/ AskPause(c) \/ Judge(c) \/ Deny(c) \/ ContainForDenials(c)
    \/ ClearDenials(c)

Episodes(c) ==
  \/ BeginRun(c) \/ OpenRun(c) \/ CreateRun(c) \/ Abandon(c) \/ ReadRun(c) \/ Beat(c)
  \/ StopRun(c) \/ Charge(c) \/ Replay(c)
  \/ \E how \in {"finished", "failed"}, cost \in 0..Total : FinishRun(c, how, cost)
  \/ \E cost \in 0..Total : Claim(c, cost)
  \/ \E part \in 1..Total : RecordCost(c, part)

Command(c) ==
  \/ ReadStatus(c) \/ Permit(c) \/ Contain(c) \/ Release(c) \/ Revoke(c) \/ Reread(c)
  \/ CheckName(c) \/ ClaimSeat(c) \/ Enroll(c) \/ Unseat(c)

Sweep == ListStale \/ CloseRun(Sweeper) \/ \E r \in Live : ReclaimRun(r)

Failure ==
  \/ \E c \in Caller \cup {Sweeper} : Lost(c)
  \/ \E c \in Caller : PauseUnreadable(c)
  \/ \E c \in Caller, done \in BOOLEAN : CreateFails(c, done) \/ EnrollFails(c, done)

Next ==
  \/ \E c \in Caller :
       \/ \E op \in Admitted \cup Beating \cup Operating, a \in Agent, e \in Episode \cup {"none"} :
            Begin(c, op, a, e)
       \/ Admission(c) \/ Episodes(c) \/ CloseRun(c) \/ Command(c)
  \/ Sweep \/ Pause \/ Failure \/ Tick

\* Time passes, and the maintenance loop runs.  A caller may go away at any point.
Spec == Init /\ [][Next]_vars /\ WF_vars(Tick) /\ WF_vars(Sweep)

-----------------------------------------------------------------------------
\* Callers that have claimed a seat and not used it, or revoked and not returned one.
Seated ==
  {c \in Caller : At(c, "enroll") \/ At(c, "unseat") \/ (At(c, "permit") /\ call[c].op = "enroll")}

Roster == {a \in Agent : status[a] \in {"active", "contained"}}

\* Enrollments and revocations racing each other, retried, or failing half way never
\* admit more agents than the seats claimed for them, but for an agent whose creation
\* seemed to fail; and without failures no seat leaks and none is returned twice
\* (enrollment.ts:592-604, 866-868).
SeatsCoverRoster ==
  /\ seats <= SeatCap
  /\ Cardinality(Roster) <= seats + Cardinality(lost \cap Agent)
  /\ faults = 0 => seats = Cardinality(Roster) + Cardinality(Seated)

AtWork(e) ==
  \E c \in Caller \cup {Sweeper} : InProgress(c) /\ call[c].on = e
     /\ call[c].pc \in {"create", "abandon", "close", "cost", "charge"}

\* A live run always stands on a run of the operating record, and the record never tells
\* another end of it than the one that won: whoever races to end it, an agent finishing, a
\* heartbeat stopping it, the sweep reclaiming it, closes the record alone; without
\* failures nobody leaves the record open (runs.ts:170-176, store.memory.ts:885-889).
RecordFollowsRun ==
  \A r \in Live \ lost :
    /\ live[r].status # "none" => record[r] # "none"
    /\ Ended(r) => IF live[r].status = "none" THEN record[r] = "failed"
                   ELSE /\ live[r].status \in Closing
                        /\ record[r] = Outcome[live[r].status]
    /\ live[r].status \in Closing /\ faults = 0 => Ended(r) \/ AtWork(r)

Of(a) == {e \in Episode : IF e \in Live THEN live[e].of = a ELSE By[e] = a}
Charging(a) ==
  {c \in Caller : InProgress(c) /\ call[c].who = a /\ call[c].pc \in {"cost", "charge"}}

\* An episode is charged once, however often it is reported or finished: its entries never
\* exceed what it reported, the meter never shows money the record does not account for,
\* and without failures the two agree when nobody is at work between them
\* (runs.ts:394-398, report.ts:167-169, 606-608).
MeterFollowsRecord ==
  \A a \in Agent :
    LET spent == SumOf(ledger, Of(a)) IN
      /\ \A e \in Of(a) : ledger[e] <= Total
      /\ meter[a] <= spent
      /\ faults = 0 /\ Charging(a) = {} => meter[a] = spent

\* No agent is told to go on by a call made wholly while it was contained or revoked, or
\* made after it expired, or, but for a report, after a pause came in sight (runs.ts:266-275,
\* admission.ts:186-249): containment reaches every agent at its next question.  Its own
\* status is read at every question; the platform's pause through a cache, and so it comes
\* in sight only a cache's lifetime later.
StopReachesAgents ==
  [][\A c \in Caller :
       InProgress(c) /\ ~InProgress(c)' /\ At(c, "go")'
         => /\ call[c].chance
            /\ call[c].at <= Expires[call[c].who]
            /\ PauseIsSeen(call[c].at) => call[c].op = "report"]_vars

\* Every run ends, for heartbeats stop before the clock does: the sweep reclaims one whose
\* agent goes silent, even when it dies and is started again (runs.ts:455-466).
SilentRunsEnd == \A r \in Live : Running(r) ~> ~Running(r)
=============================================================================
