----------------------------- MODULE Chokepoint -----------------------------
(***************************************************************************)
(* The chokepoint every action passes (guard/authorize.ts), with the       *)
(* containment switches behind their per-process caches                    *)
(* (guard/containment.ts), the spend, rate and time ceilings               *)
(* (guard/ceilings.ts), and the two callers that spend: an effecting step  *)
(* of the workflow engine, forward or compensating, and a call of the      *)
(* model gateway, which goes to the ceilings directly.                     *)
(*                                                                         *)
(* A call makes its store reads and writes one await at a time; between    *)
(* any two of them other calls, the operator's levers, the end of a run,   *)
(* the clock and a crash may come in.  What runs between two awaits is one *)
(* action.                                                                 *)
(***************************************************************************)
EXTENDS Integers, Sequences, FiniteSetsExt

CONSTANTS
  Proc,         \* processes: each has its own caches, reservations and rate window
  Caller,       \* what makes calls, one after another
  Home,         \* the process of each caller
  Run,          \* runs of the operating record
  Origin,       \* the process that started each run
  Day,          \* the meter of the daily ceiling
  Limit,        \* the ceiling of each meter
  MaxCost,      \* the most one call costs
  WallClock,    \* how long a run may take
  Minute,       \* the length of the rate window
  PerMinute,    \* model calls permitted in it
  Scopes,       \* the switches a call answers to, most general first
  Ttl,          \* how long a cached switch is believed
  Approval,     \* granted approvals, each for one action
  MaxCalls,     \* bound on the calls made
  MaxTime,      \* bound on the clock
  MaxLevers,    \* bound on the switches thrown
  MaxFaults     \* bound on store calls that fail and processes that die

Switch == {Scopes[i] : i \in DOMAIN Scopes}

\* What spend is summed over: each run, and the day.  The clock stays within one day.
Meter == Run \cup {Day}

ASSUME ChokepointAssumption ==
  /\ {MaxCost, WallClock, Minute, PerMinute, Ttl, MaxCalls, MaxTime, MaxLevers, MaxFaults}
       \subseteq Nat
  /\ Home \in [Caller -> Proc] /\ Origin \in [Run -> Proc]
  /\ Day \notin Run
  /\ Limit \in [Meter -> Nat]
  /\ Scopes \in Seq(STRING) /\ Scopes # <<>>
  /\ IsFiniteSet(Caller) /\ IsFiniteSet(Run)
  /\ "none" \notin Approval

VARIABLES
  call,       \* the call each caller is making
  spent,      \* cost entries of the operating record, summed per meter
  reserved,   \* estimates held against each meter, per process
  window,     \* model calls each process let through at each time
  started,    \* when each process saw a run start, or -1
  ended,      \* runs that are over
  switch,     \* the containment switches
  cache,      \* each process's cache of them
  dropping,   \* switches written, and not yet dropped from the operator's cache
  unspent,    \* approvals not consumed
  now, levers, made, faults

record == <<spent, unspent>>
ceilings == <<reserved, window, started>>
containment == <<switch, cache, dropping, levers>>
vars == <<call, record, ceilings, ended, containment, now, made, faults>>

Kind == {"action", "compensation", "model"}

\* Mutant: the approval is spent before the ceilings are asked.
MutStages == <<"enter", "clear", "approval", "run", "perform">>

\* The checks of a call in their order.  The engine asks for containment before a
\* step, and the chokepoint asks again.
Stages == <<"enter", "clear", "run", "approval", "perform">>

At == {Stages[i] : i \in DOMAIN Stages} \cup {"day", "reserve", "settle"}

\* How a call ends: let through, whatever became of it; denied; denied by a switch.
Told == {"let", "denied", "contained"}

\* A call: where it is, and what it has read.  began is when it was made, scope the
\* switch it is at, fetch how far the read of that switch has come, readAt and seen
\* what came of it; run and day are the spend as it read it.
CallType == [pc : At, kind : Kind, of : Run, est : 0..MaxCost,
         began : Nat, scope : DOMAIN Scopes, fetch : {"no", "asked", "answered"},
         readAt : Nat, seen : BOOLEAN,
         run : Nat, day : Nat, used : BOOLEAN]

Idle == [pc |-> "idle"]

TypeOK ==
  /\ call \in [Caller -> CallType \cup [pc : {"idle"}]
                          \cup [pc : {"done"}, told : Told]]
  /\ spent \in [Meter -> Nat]
  /\ reserved \in [Proc -> [Meter -> Nat]]
  /\ window \in [Proc -> [0..MaxTime -> Nat]]
  /\ started \in [Proc -> [Run -> Nat \cup {-1}]]
  /\ ended \subseteq Run
  /\ switch \in [Switch -> [engaged : BOOLEAN, at : Nat]]
  /\ cache \in [Proc -> [Switch -> [held : BOOLEAN, engaged : BOOLEAN, readAt : Nat]]]
  /\ dropping \subseteq Proc \X Switch
  /\ unspent \subseteq Approval
  /\ now \in Nat /\ levers \in Nat /\ made \in Nat /\ faults \in Nat

Unread == [held |-> FALSE, engaged |-> FALSE, readAt |-> 0]

Init ==
  /\ call = [c \in Caller |-> Idle]
  /\ spent = [m \in Meter |-> 0]
  /\ reserved = [p \in Proc |-> [m \in Meter |-> 0]]
  /\ window = [p \in Proc |-> [t \in 0..MaxTime |-> 0]]
  /\ started = [p \in Proc |-> [r \in Run |-> IF Origin[r] = p THEN 0 ELSE -1]]
  /\ ended = {}
  /\ switch = [s \in Switch |-> [engaged |-> FALSE, at |-> 0]]
  /\ cache = [p \in Proc |-> [s \in Switch |-> Unread]]
  /\ dropping = {}
  /\ unspent = Approval
  /\ now = 0 /\ levers = 0 /\ made = 0 /\ faults = 0

-----------------------------------------------------------------------------
To(c, pc) == call' = [call EXCEPT ![c].pc = pc]

\* The check that follows the one named.
Following(stage) ==
  Stages[1 + CHOOSE i \in DOMAIN Stages : Stages[i] = stage]

\* A call that is over.
Tell(c, told) == call' = [call EXCEPT ![c] = [pc |-> "done", told |-> told]]

\* Mutant: a call that gives back its estimate lets go of all the run holds.
MutRelease(res, p, r, est) ==
  [res EXCEPT ![p][r] = 0, ![p][Day] = @ - res[p][r]]

\* release: never more than the run holds, off the day as off the run.
Release(res, p, r, est) ==
  LET off == IF est < res[p][r] THEN est ELSE res[p][r]
      day == IF off < res[p][Day] THEN res[p][Day] - off ELSE 0
  IN [res EXCEPT ![p][r] = @ - off, ![p][Day] = day]

\* What the caller gives back.
GiveBack(c) == reserved' = Release(reserved, Home[c], call[c].of, call[c].est)

-----------------------------------------------------------------------------
(* Containment. *)

\* A caller takes up a call: a step begins at the engine's own check, from which a
\* compensation is exempt, a model call at the ceilings.
Begin(c, kind, r) ==
  /\ call[c].pc \in {"idle", "done"}
  /\ made < MaxCalls /\ made' = made + 1
  /\ r \notin ended
  /\ call' = [call EXCEPT ![c] =
       [pc |-> CASE kind = "action" -> "enter"
                 [] kind = "compensation" -> "clear"
                 [] kind = "model" -> "run",
        kind |-> kind, of |-> r, est |-> 0, began |-> IF kind = "model" THEN 0 ELSE now,
        scope |-> 1, fetch |-> "no", readAt |-> 0, seen |-> FALSE,
        run |-> 0, day |-> 0, used |-> FALSE]]
  /\ UNCHANGED <<record, ceilings, ended, containment, now, faults>>

\* A switch that is engaged refuses the call; one that is clear hands it to the
\* next, and the last one to the next check.
Heed(c, engaged) ==
  \/ engaged /\ Tell(c, "contained")
  \/ /\ ~engaged
     /\ LET next == [call[c] EXCEPT !.fetch = "no", !.readAt = 0, !.seen = FALSE] IN
        call' = [call EXCEPT ![c] =
          IF next.scope < Len(Scopes)
          THEN [next EXCEPT !.scope = next.scope + 1]
          ELSE [next EXCEPT !.pc = Following(next.pc), !.scope = 1]]

Consulting(c) == call[c].pc \in {"enter", "clear"}

Fresh(entry) == entry.held /\ now - entry.readAt < Ttl

\* read: from the cache, or a read of the store that remembers when it was asked.
Consult(c) ==
  /\ Consulting(c) /\ call[c].fetch = "no"
  /\ LET entry == cache[Home[c]][Scopes[call[c].scope]]
     IN IF Fresh(entry)
        THEN Heed(c, entry.engaged)
        ELSE call' = [call EXCEPT ![c].fetch = "asked", ![c].readAt = now]
  /\ UNCHANGED <<record, ceilings, ended, containment, now, made, faults>>

StoreAnswers(c) ==
  /\ Consulting(c) /\ call[c].fetch = "asked"
  /\ call' = [call EXCEPT ![c].fetch = "answered",
                          ![c].seen = switch[Scopes[call[c].scope]].engaged]
  /\ UNCHANGED <<record, ceilings, ended, containment, now, made, faults>>

\* Mutant: a cached switch is dated when the answer is stored.
MutFilled(c) == [held |-> TRUE, engaged |-> call[c].seen, readAt |-> now]

Filled(c) == [held |-> TRUE, engaged |-> call[c].seen, readAt |-> call[c].readAt]

Fill(c) ==
  /\ Consulting(c) /\ call[c].fetch = "answered"
  /\ cache' = [cache EXCEPT ![Home[c]][Scopes[call[c].scope]] = Filled(c)]
  /\ Heed(c, call[c].seen)
  /\ UNCHANGED <<record, ceilings, ended, switch, dropping, levers, now, made, faults>>

\* engage and release: the store first, the cache of this process after it.  To throw
\* a switch to where it stands would only change its date.
Throw(p, s, engaged) ==
  /\ engaged # switch[s].engaged
  /\ levers < MaxLevers /\ levers' = levers + 1
  /\ switch' = [switch EXCEPT ![s] = [engaged |-> engaged, at |-> now]]
  /\ dropping' = dropping \cup {<<p, s>>}
  /\ UNCHANGED <<call, record, ceilings, ended, cache, now, made, faults>>

Drop(p, s) ==
  /\ <<p, s>> \in dropping
  /\ dropping' = dropping \ {<<p, s>>}
  /\ cache' = [cache EXCEPT ![p][s] = Unread]
  /\ UNCHANGED <<call, record, ceilings, ended, switch, levers, now, made, faults>>

-----------------------------------------------------------------------------
(* Ceilings. *)

\* committed: the spend of the run, then of the day.
ReadRun(c) ==
  /\ call[c].pc = "run"
  /\ call' = [call EXCEPT ![c].pc = "day", ![c].run = spent[call[c].of]]
  /\ UNCHANGED <<record, ceilings, ended, containment, now, made, faults>>

ReadDay(c) ==
  /\ call[c].pc = "day"
  /\ call' = [call EXCEPT ![c].pc = "reserve", ![c].day = spent[Day]]
  /\ UNCHANGED <<record, ceilings, ended, containment, now, made, faults>>

\* A process that did not see the run start has no time to measure from.
TimeUp(p, r) == started[p][r] >= 0 /\ now - started[p][r] > WallClock

\* pruneRateWindow: the model calls of the last minute.
Recent(p) == [t \in 0..MaxTime |-> IF t > now - Minute THEN window[p][t] ELSE 0]

SumOf(f, S) == MapThenSumSet(LAMBDA x : f[x], S)

CallsIn(calls) == SumOf(calls, 0..MaxTime)

\* Mutant: what is held is compared with the ceiling, what is spent is not.
MutFits(c, run, day, est) ==
  /\ reserved[Home[c]][call[c].of] + est <= Limit[call[c].of]
  /\ reserved[Home[c]][Day] + est <= Limit[Day]

\* Whether est more fits under both ceilings, by spend read before and what is held now.
Fits(c, run, day, est) ==
  /\ run + reserved[Home[c]][call[c].of] + est <= Limit[call[c].of]
  /\ day + reserved[Home[c]][Day] + est <= Limit[Day]

Permitted(c, est) ==
  /\ ~TimeUp(Home[c], call[c].of)
  /\ Fits(c, call[c].run, call[c].day, est)
  /\ call[c].kind = "model" => CallsIn(Recent(Home[c])) < PerMinute

\* check, from its last await: compare and reserve.
Reserve(c, est) ==
  LET p == Home[c] IN
  /\ call[c].pc = "reserve" /\ Permitted(c, est)
  /\ reserved' = [reserved EXCEPT ![p][call[c].of] = @ + est, ![p][Day] = @ + est]
  /\ window' = IF call[c].kind = "model"
               THEN [window EXCEPT ![p] = [Recent(p) EXCEPT ![now] = Recent(p)[now] + 1]]
               ELSE window
  /\ call' = [call EXCEPT ![c].pc = IF call[c].kind = "model" THEN "perform" ELSE Following("run"),
                          ![c].est = est, ![c].began = 0, ![c].run = 0, ![c].day = 0]
  /\ UNCHANGED <<record, started, ended, containment, now, made, faults>>

RefuseSpend(c, est) ==
  /\ call[c].pc = "reserve" /\ ~Permitted(c, est)
  /\ Tell(c, "denied")
  /\ UNCHANGED <<record, ceilings, ended, containment, now, made, faults>>

-----------------------------------------------------------------------------
(* The chokepoint, after containment. *)

\* The checks on the action itself, that need no store: registered, permitted in this
\* mode, to this role, over this data, with a recent login.
RefuseStatic(c) ==
  /\ call[c].pc = "run" /\ call[c].kind # "model"
  /\ Tell(c, "denied")
  /\ UNCHANGED <<record, ceilings, ended, containment, now, made, faults>>

\* An approval is spent by compare and set (Approvals); an action that asks for none
\* passes.
Approve(c, approval) ==
  /\ call[c].pc = "approval"
  /\ approval \in unspent \cup {"none"}
  /\ unspent' = unspent \ {approval}
  /\ call' = [call EXCEPT ![c].pc = Following("approval"), ![c].used = approval # "none"]
  /\ UNCHANGED <<spent, ceilings, ended, containment, now, made, faults>>

\* No approval where one is needed, or one that is spent or for something else: what
\* was reserved goes back.
RefuseApproval(c) ==
  /\ call[c].pc = "approval"
  /\ GiveBack(c)
  /\ Tell(c, "denied")
  /\ UNCHANGED <<record, window, started, ended, containment, now, made, faults>>

-----------------------------------------------------------------------------
(* The callers. *)

\* The grant is audited, the handler or the provider does its work, and what it cost
\* is recorded before the ceiling is consumed.
Spend(c, cost) == spent' = [spent EXCEPT ![call[c].of] = @ + cost, ![Day] = @ + cost]

Perform(c, cost) ==
  /\ call[c].pc = "perform"
  /\ Spend(c, cost)
  /\ To(c, "settle")
  /\ UNCHANGED <<unspent, ceilings, ended, containment, now, made, faults>>

\* The work fails: the estimate goes back, and a model call may go down its chain.  A
\* provider that throws a refusal of its own is under RecordFails.
Fail(c) ==
  /\ call[c].pc = "perform"
  /\ GiveBack(c)
  /\ \/ Tell(c, "let")
     \/ call[c].kind = "model" /\ call' = [call EXCEPT ![c].pc = "run", ![c].est = 0]
  /\ UNCHANGED <<record, window, started, ended, containment, now, made, faults>>

\* consume, once the step's row is closed: the estimate goes back.  What it reads then
\* only decides what the caller is told: to go on, or that the run must stop.
Consume(c) ==
  /\ call[c].pc = "settle"
  /\ GiveBack(c)
  /\ Tell(c, "let")
  /\ UNCHANGED <<record, window, started, ended, containment, now, made, faults>>

\* finalise: the run is closed in the record, and this process forgets it.
EndRun(p, r) ==
  /\ r \notin ended /\ ended' = ended \cup {r}
  /\ started' = [started EXCEPT ![p][r] = -1]
  /\ reserved' = Release(reserved, p, r, reserved[p][r])
  /\ UNCHANGED <<call, record, window, containment, now, made, faults>>

-----------------------------------------------------------------------------
(* What goes wrong. *)

Fault == faults < MaxFaults /\ faults' = faults + 1

\* A switch that cannot be read refuses the call.
SwitchUnread(c) ==
  /\ Consulting(c) /\ call[c].fetch = "asked" /\ Fault
  /\ Tell(c, "contained")
  /\ UNCHANGED <<record, ceilings, ended, containment, now, made>>

\* The spend cannot be read.
SpendUnread(c) ==
  /\ call[c].pc \in {"run", "day"} /\ Fault
  /\ Tell(c, "denied")
  /\ UNCHANGED <<record, ceilings, ended, containment, now, made>>

\* A write of the chokepoint fails, done or not, of the approval or of the audit
\* entry after it: refused, and the estimate given back.
PermitFails(c) ==
  /\ Fault
  /\ \/ /\ call[c].pc = "approval"
        /\ unspent' \in {unspent} \cup {unspent \ {approval} : approval \in unspent}
     \/ /\ call[c].pc = "perform" /\ call[c].kind # "model"
        /\ UNCHANGED unspent
  /\ GiveBack(c)
  /\ Tell(c, "denied")
  /\ UNCHANGED <<spent, window, started, ended, containment, now, made>>

\* A write after the work fails, done or not; or a provider throws a DeniedError, which
\* the gateway passes on as it is: the call throws with its estimate held.
RecordFails(c) ==
  /\ Fault
  /\ \/ call[c].pc = "perform" /\ \E cost \in 0..MaxCost : Spend(c, cost)
     \/ call[c].pc \in {"perform", "settle"} /\ UNCHANGED spent
  /\ Tell(c, "let")
  /\ UNCHANGED <<unspent, ceilings, ended, containment, now, made>>

Of(p) == {c \in Caller : Home[c] = p}

\* A process dies, with its caches, reservations, rate window and calls.
Crash(p) ==
  /\ Fault
  /\ call' = [c \in Caller |-> IF c \in Of(p) THEN Idle ELSE call[c]]
  /\ reserved' = [reserved EXCEPT ![p] = [m \in Meter |-> 0]]
  /\ window' = [window EXCEPT ![p] = [t \in 0..MaxTime |-> 0]]
  /\ started' = [started EXCEPT ![p] = [r \in Run |-> -1]]
  /\ cache' = [cache EXCEPT ![p] = [s \in Switch |-> Unread]]
  /\ dropping' = {d \in dropping : d[1] # p}
  /\ UNCHANGED <<record, ended, switch, levers, now, made>>

Tick ==
  /\ now < MaxTime /\ now' = now + 1
  /\ UNCHANGED <<call, record, ceilings, ended, containment, made, faults>>

Check(c) ==
  \/ Consult(c) \/ StoreAnswers(c) \/ Fill(c)
  \/ RefuseStatic(c)
  \/ ReadRun(c) \/ ReadDay(c)
  \/ \E est \in 0..MaxCost : Reserve(c, est) \/ RefuseSpend(c, est)
  \/ \E approval \in Approval \cup {"none"} : Approve(c, approval)
  \/ RefuseApproval(c)

Work(c) ==
  \/ \E cost \in 0..MaxCost : Perform(c, cost)
  \/ Fail(c) \/ Consume(c)

Failure(c) == SwitchUnread(c) \/ SpendUnread(c) \/ PermitFails(c) \/ RecordFails(c)

Next ==
  \/ \E c \in Caller :
       \/ \E kind \in Kind, r \in Run : Begin(c, kind, r)
       \/ Check(c) \/ Work(c) \/ Failure(c)
  \/ \E p \in Proc, s \in Switch :
       Drop(p, s) \/ \E engaged \in BOOLEAN : Throw(p, s, engaged)
  \/ \E p \in Proc, r \in Run : EndRun(p, r)
  \/ \E p \in Proc : Crash(p)
  \/ Tick

Spec == Init /\ [][Next]_vars

-----------------------------------------------------------------------------
\* "The overshoot is bounded by one step's cost" (ceilings.ts:21), as it is: each
\* caller may be at one call that it was let into before the ceiling was passed, on
\* spend it had read by then, and none is let into a second one.
SpendIsBounded ==
  \A m \in Meter : spent[m] <= Limit[m] + MaxCost * Cardinality(Caller)

Holding(p, r) ==
  {c \in Of(p) : /\ call[c].pc \in {"approval", "perform", "settle"}
                 /\ call[c].of = r}

Held(p, r) == SumOf([c \in Holding(p, r) |-> call[c].est], Holding(p, r))

\* While a run is open, every call in it that was let through has its estimate held,
\* however the others end, and until a store fails nothing else is held; the day
\* holds what the runs hold.
HeadroomIsHeld ==
  \A p \in Proc :
    /\ reserved[p][Day] = SumOf(reserved[p], Run)
    /\ \A r \in Run \ ended :
         /\ reserved[p][r] >= Held(p, r)
         /\ faults = 0 => reserved[p][r] = Held(p, r)

\* A step that containment has let through.
Cleared(c) == call[c].pc \in {"run", "day", "reserve"} /\ call[c].kind # "model"

\* "Takes effect within cacheTtlMs across the process" (containment.ts:137), and
\* across the others: no step that began once a switch had been engaged that long
\* gets by it, whatever was being read when it was engaged.
EngagedSwitchStops ==
  \A c \in Caller, s \in Switch :
    Cleared(c) => ~(switch[s].engaged /\ switch[s].at + Ttl <= call[c].began)

\* "Everything that can refuse for free refuses before anything is spent"
\* (authorize.ts:34): a call that has spent an approval is refused only by a store.
RefusalsAreFree ==
  [][\A c \in Caller : call[c].pc \in At /\ call[c].used /\ call'[c].pc = "done" =>
       call'[c].told = "let" \/ faults' # faults]_vars

\* "Compensation steps run even under containment" (docs/architecture.md:213).
CompensationRunsUnderContainment ==
  [][\A c \in Caller :
       call[c].pc \in At /\ call[c].kind = "compensation" /\ call'[c].pc = "done"
         => call'[c].told # "contained"]_vars
=============================================================================
