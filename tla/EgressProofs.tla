---------------------------- MODULE EgressProofs ----------------------------
(***************************************************************************)
(* Proofs about Egress: its types, that the record and the answers are     *)
(* true, that a stop reaches calls in flight, and that what the queue gave *)
(* up is parked.                                                           *)
(***************************************************************************)
EXTENDS Egress, FiniteSetTheorems, TLAPS

CallType == [pc : Place, tries : 0..MaxAttempts, late : 0..MaxAttempts,
             seen : 0..MaxQueueAttempts, claimed : BOOLEAN, told : Told]

InFlight == {"permit", "credential", "request", "patch", "record_denied", "record_failed"}

\* The step of a call says where the call is, and what the partner did.
Recorded(c) ==
  /\ call[c].pc \in {"idle", "look", "append"} => step[c].status = "none"
  /\ call[c].pc \in InFlight => step[c].status = "running"
  /\ call[c].pc = "patch" => landed[c]
  /\ landed[c] => step[c].status # "none"
  /\ step[c].status = "succeeded" => landed[c]
  /\ call[c].told \in {"sent", "already"} => \E d \in SameKey(c) : landed[d]

\* A call that may try again has tries left, as the entry it may enqueue has.
Counted(c) ==
  /\ call[c].pc \in {"idle", "look", "append", "permit"} => call[c].tries < MaxAttempts
  /\ call[c].pc = "enqueue" => call[c].seen < MaxQueueAttempts

\* A request after a stop is the last one the call makes.
LastOne(c) ==
  Stopped => /\ call[c].late <= 1
             /\ call[c].late > 0 => /\ call[c].pc # "request"
                                    /\ ~revoked => call[c].pc # "credential"

Ok(c) ==
  /\ Recorded(c) /\ Counted(c) /\ LastOne(c)
  /\ call[c].pc = "release" => parked[KeyOf[c]] # "none"

Inv == TypeOK /\ (\A c \in Call : Ok(c)) /\ GivenUpIsParked

-----------------------------------------------------------------------------
LEMMA Bounds ==
  /\ MaxAttempts \in Nat /\ 0 < MaxAttempts /\ 0 \in 0..MaxAttempts
  /\ MaxQueueAttempts \in Nat /\ 0 < MaxQueueAttempts /\ 0 \in 0..MaxQueueAttempts
  /\ \A c \in Call : KeyOf[c] \in Key
BY EgressAssumption

LEMMA Typed ==
  ASSUME TypeOK, NEW c \in Call
  PROVE  call[c] \in CallType
BY DEF TypeOK, CallType

\* A call put in the place of another.
LEMMA Put ==
  ASSUME TypeOK, NEW c \in Call, NEW new \in CallType, call' = [call EXCEPT ![c] = new]
  PROVE  /\ call' \in [Call -> CallType]
         /\ call'[c] = new
         /\ \A d \in Call : d # c => call'[d] = call[d]
BY DEF TypeOK, CallType

LEMMA Went ==
  ASSUME TypeOK, NEW c \in Call, NEW pc \in Place, To(c, pc)
  PROVE  /\ call' \in [Call -> CallType]
         /\ call'[c].pc = pc /\ call'[c].tries = call[c].tries /\ call'[c].late = call[c].late
         /\ call'[c].seen = call[c].seen /\ call'[c].told = call[c].told
         /\ \A d \in Call : d # c => call'[d] = call[d]
<1> DEFINE new == [call[c] EXCEPT !.pc = pc]
<1>1. /\ new \in CallType /\ new.pc = pc /\ new.tries = call[c].tries
      /\ new.late = call[c].late /\ new.seen = call[c].seen /\ new.told = call[c].told
  BY Typed DEF CallType
<1>2. call' = [call EXCEPT ![c] = new]
  BY DEF To, TypeOK
<1> HIDE DEF new
<1>3. /\ call' \in [Call -> CallType] /\ call'[c] = new
      /\ \A d \in Call : d # c => call'[d] = call[d]
  BY <1>1, <1>2, Put
<1> QED
  BY <1>1, <1>3

LEMMA Answer ==
  ASSUME TypeOK, NEW c \in Call, NEW told \in Told, Tell(c, told)
  PROVE  /\ call' \in [Call -> CallType]
         /\ call'[c].pc = "done" /\ call'[c].late = 0 /\ call'[c].told = told
         /\ \A d \in Call : d # c => call'[d] = call[d]
<1> DEFINE new == [NotBegun EXCEPT !.pc = "done", !.told = told]
<1>1. NotBegun \in CallType /\ NotBegun.late = 0
  BY Bounds DEF NotBegun, CallType, Place, Told
<1>2. new \in CallType /\ new.pc = "done" /\ new.late = 0 /\ new.told = told
  BY <1>1 DEF CallType, Place
<1>3. call' = [call EXCEPT ![c] = new]
  BY DEF Tell
<1> HIDE DEF new
<1> QED
  BY <1>2, <1>3, Put

LEMMA Through ==
  ASSUME TypeOK, NEW c \in Call, NEW told \in Told, GoneThrough(c, told)
  PROVE  /\ call' \in [Call -> CallType]
         /\ call'[c].pc \in {"complete", "done"} /\ call'[c].told = told
         /\ call'[c].late \in {call[c].late, 0}
         /\ \A d \in Call : d # c => call'[d] = call[d]
<1>1. CASE call[c].claimed
  <2> DEFINE new == [call[c] EXCEPT !.pc = "complete", !.told = told]
  <2>1. new \in CallType /\ new.pc = "complete" /\ new.told = told /\ new.late = call[c].late
    BY Typed DEF CallType, Place
  <2>2. call' = [call EXCEPT ![c] = new]
    BY <1>1 DEF GoneThrough, TypeOK
  <2> HIDE DEF new
  <2> QED
    BY <2>1, <2>2, Put
<1>2. CASE ~call[c].claimed
  BY <1>2, Answer DEF GoneThrough
<1> QED
  BY <1>1, <1>2

\* The rest of the calls, when one moves.
LEMMA Others ==
  ASSUME NEW d \in Call, Ok(d), call'[d] = call[d], step'[d] = step[d],
         landed'[d] = landed[d], \A e \in Call : landed[e] => landed'[e],
         parked[KeyOf[d]] # "none" => parked'[KeyOf[d]] # "none", UNCHANGED levers
  PROVE  Ok(d)'
<1>1. Recorded(d)'
  BY DEF Ok, Recorded, SameKey
<1>2. Counted(d)'
  BY DEF Ok, Counted
<1>3. LastOne(d)'
  BY DEF Ok, LastOne, Stopped, levers
<1> QED
  BY <1>1, <1>2, <1>3 DEF Ok

\* What is left to show of a step of one call.
LEMMA Moves ==
  ASSUME Inv, NEW c \in Call, UNCHANGED levers,
         \A d \in Call : d # c => /\ call'[d] = call[d] /\ step'[d] = step[d]
                                  /\ landed'[d] = landed[d],
         landed[c] => landed'[c],
         \A k \in Key : parked[k] # "none" => parked'[k] # "none",
         TypeOK', Ok(c)', GivenUpIsParked'
  PROVE  Inv'
<1>1. \A d \in Call : KeyOf[d] \in Key
  BY Bounds
<1>2. \A e \in Call : landed[e] => landed'[e]
  OBVIOUS
<1>3. \A d \in Call : d # c => Ok(d)'
  BY <1>1, <1>2, Others DEF Inv
<1> QED
  BY <1>3 DEF Inv

\* A call that stays late, or is so no more, out of the reach of a request.
LEMMA StillLast ==
  ASSUME Inv, NEW c \in Call, UNCHANGED levers, call'[c].late \in {call[c].late, 0},
         call'[c].pc \notin {"request", "credential"}
  PROVE  LastOne(c)'
<1>1. LastOne(c) /\ call[c].late \in Nat
  BY Typed DEF Inv, Ok, CallType
<1> QED
  BY <1>1 DEF LastOne, Stopped, levers

\* A call that ends, told something that is not a success, or what is one.
LEMMA Ended ==
  ASSUME Inv, NEW c \in Call, NEW told \in Told, Tell(c, told), UNCHANGED levers,
         \A d \in Call : landed[d] => landed'[d],
         landed'[c] => step'[c].status # "none",
         step'[c].status = "succeeded" => landed'[c],
         told \in {"sent", "already"} => \E d \in SameKey(c) : landed'[d]
  PROVE  Ok(c)'
<1>1. TypeOK
  BY DEF Inv
<1>2. call'[c].pc = "done" /\ call'[c].late = 0 /\ call'[c].told = told
  BY <1>1, Answer
<1>3. LastOne(c)'
  BY <1>2, StillLast
<1> QED
  BY <1>2, <1>3 DEF Ok, Recorded, Counted, InFlight, SameKey

LEMMA InvInit == Init => Inv
<1> SUFFICES ASSUME Init PROVE Inv
  OBVIOUS
<1>1. NotBegun \in CallType /\ NotBegun.pc = "idle" /\ NotBegun.tries = 0
      /\ NotBegun.late = 0 /\ NotBegun.told = "none"
  BY Bounds DEF NotBegun, CallType, Place, Told
<1>2. TypeOK
  <2>1. call \in [Call -> CallType]
    BY <1>1 DEF Init
  <2>2. step \in [Call -> [status : {"none", "running", "succeeded", "denied", "failed"}, seq : Nat]]
    BY DEF Init, NoStep
  <2>3. queue \in [Key -> [status : {"none", "queued", "claimed", "completed", "abandoned"},
                           attempts : 0..MaxQueueAttempts]]
    BY Bounds DEF Init, NotQueued
  <2>4. stops \in 0..MaxStops /\ faults \in 0..MaxFaults
    BY EgressAssumption DEF Init
  <2> QED
    BY <2>1, <2>2, <2>3, <2>4 DEF TypeOK, CallType, Init
<1>3. ASSUME NEW c \in Call PROVE Ok(c)
  <2>1. call[c].pc = "idle" /\ call[c].tries = 0 /\ call[c].late = 0 /\ call[c].told = "none"
    BY <1>1 DEF Init
  <2>2. step[c].status = "none" /\ ~landed[c]
    BY DEF Init, NoStep
  <2> QED
    BY <2>1, <2>2, Bounds DEF Ok, Recorded, Counted, LastOne, InFlight
<1>4. GivenUpIsParked
  BY DEF Init, NotQueued, GivenUpIsParked
<1> QED
  BY <1>2, <1>3, <1>4 DEF Inv

-----------------------------------------------------------------------------
(* Each step keeps the invariant. *)

\* A call is told of nothing new to the store.
LEMMA InvTell ==
  ASSUME Inv, NEW c \in Call, NEW told \in Told \ {"sent", "already"}, Tell(c, told),
         UNCHANGED <<step, queue, parked, landed, levers>>, faults' \in 0..MaxFaults
  PROVE  Inv'
<1>1. TypeOK /\ Ok(c)
  BY DEF Inv
<1>2. call' \in [Call -> CallType] /\ \A d \in Call : d # c => call'[d] = call[d]
  BY <1>1, Answer
<1>3. Ok(c)'
  BY <1>1, Ended DEF Ok, Recorded
<1>4. TypeOK'
  BY <1>1, <1>2 DEF TypeOK, CallType, levers
<1>5. GivenUpIsParked'
  BY DEF Inv, GivenUpIsParked
<1> QED
  BY <1>2, <1>3, <1>4, <1>5, Moves

\* A call goes on, and nothing else changes.
LEMMA InvGo ==
  ASSUME Inv, NEW c \in Call, NEW new \in CallType, call' = [call EXCEPT ![c] = new],
         UNCHANGED <<step, queue, parked, landed, levers, faults>>, Ok(c)'
  PROVE  Inv'
<1>1. TypeOK
  BY DEF Inv
<1>2. call' \in [Call -> CallType] /\ \A d \in Call : d # c => call'[d] = call[d]
  BY <1>1, Put
<1>3. TypeOK'
  BY <1>1, <1>2 DEF TypeOK, CallType, levers
<1>4. GivenUpIsParked'
  BY DEF Inv, GivenUpIsParked
<1> QED
  BY <1>2, <1>3, <1>4, Moves

LEMMA FaultTyped ==
  ASSUME TypeOK, Fault
  PROVE  faults' \in 0..MaxFaults
BY EgressAssumption DEF TypeOK, Fault

LEMMA InvBegin ==
  ASSUME Inv, NEW c \in Call, Begin(c)
  PROVE  Inv'
<1>1. /\ TypeOK /\ call[c].pc = "idle" /\ Ok(c)
      /\ UNCHANGED <<step, queue, parked, landed, levers>>
  BY DEF Inv, Begin, store
<1>2. CASE Contained /\ Tell(c, "denied")
  <2>1. faults' \in 0..MaxFaults
    BY <1>1, <1>2, FaultTyped DEF TypeOK, Contained
  <2> QED
    BY <1>1, <1>2, <2>1, InvTell DEF Told
<1>3. CASE Permitted(c) /\ To(c, "look") /\ UNCHANGED faults
  <2> DEFINE new == [call[c] EXCEPT !.pc = "look"]
  <2>1. /\ new \in CallType /\ new.pc = "look" /\ new.tries = call[c].tries
        /\ new.late = call[c].late /\ new.told = call[c].told
    BY <1>1, Typed DEF CallType, Place
  <2>2. call' = [call EXCEPT ![c] = new]
    BY <1>1, <1>3 DEF To, TypeOK
  <2> HIDE DEF new
  <2>3. call'[c] = new
    BY <1>1, <2>1, <2>2, Put
  <2>4. LastOne(c)'
    BY <1>1, <2>1, <2>3, StillLast
  <2>5. Ok(c)'
    BY <1>1, <2>1, <2>3, <2>4 DEF Ok, Recorded, Counted, InFlight, SameKey
  <2> QED
    BY <1>1, <1>3, <2>1, <2>2, <2>5, InvGo
<1> QED
  BY <1>2, <1>3 DEF Begin

LEMMA InvClaim ==
  ASSUME Inv, NEW c \in Call, Claim(c)
  PROVE  Inv'
<1>1. /\ TypeOK /\ call[c].pc = "idle" /\ Ok(c) /\ KeyOf[c] \in Key
      /\ queue[KeyOf[c]].status = "queued"
      /\ queue' = [queue EXCEPT ![KeyOf[c]].status = "claimed"]
      /\ UNCHANGED <<step, parked, landed, levers>>
  BY Bounds DEF Inv, Claim
<1>2. /\ queue' \in [Key -> [status : {"none", "queued", "claimed", "completed", "abandoned"},
                            attempts : 0..MaxQueueAttempts]]
      /\ \A k \in Key : queue'[k].status = "abandoned" => queue[k].status = "abandoned"
  BY <1>1 DEF TypeOK
<1>3. GivenUpIsParked'
  BY <1>1, <1>2 DEF Inv, GivenUpIsParked
<1> DEFINE new == [call[c] EXCEPT !.claimed = TRUE, !.pc = "look"]
<1>4. CASE Contained /\ Tell(c, "denied")
  <2>1. call' \in [Call -> CallType] /\ \A d \in Call : d # c => call'[d] = call[d]
    BY <1>1, <1>4, Answer DEF Told
  <2>2. Ok(c)'
    BY <1>1, <1>4, Ended DEF Ok, Recorded, Told
  <2>3. faults' \in 0..MaxFaults
    BY <1>1, <1>4, FaultTyped DEF TypeOK, Contained
  <2>4. TypeOK'
    BY <1>1, <1>2, <2>1, <2>3 DEF TypeOK, CallType, levers
  <2> QED
    BY <1>1, <1>3, <2>1, <2>2, <2>4, Moves
<1>5. CASE /\ Permitted(c) /\ UNCHANGED faults
           /\ call' = [call EXCEPT ![c].claimed = TRUE, ![c].pc = "look"]
  <2>1. call' = [call EXCEPT ![c] = new]
    BY <1>5 DEF TypeOK
  <2>2. /\ new \in CallType /\ new.pc = "look" /\ new.tries = call[c].tries
        /\ new.late = call[c].late /\ new.told = call[c].told
    BY <1>1, Typed DEF CallType, Place
  <2> HIDE DEF new
  <2>3. /\ call' \in [Call -> CallType] /\ call'[c] = new
        /\ \A d \in Call : d # c => call'[d] = call[d]
    BY <1>1, <2>1, <2>2, Put
  <2>4. LastOne(c)'
    BY <1>1, <2>2, <2>3, StillLast
  <2>5. Ok(c)'
    BY <1>1, <2>2, <2>3, <2>4 DEF Ok, Recorded, Counted, InFlight, SameKey
  <2>6. TypeOK'
    BY <1>1, <1>2, <1>5, <2>3 DEF TypeOK, CallType, levers
  <2> QED
    BY <1>1, <1>3, <2>3, <2>5, <2>6, Moves
<1> QED
  BY <1>4, <1>5 DEF Claim

LEMMA InvLook ==
  ASSUME Inv, NEW c \in Call, Look(c)
  PROVE  Inv'
<1>1. /\ TypeOK /\ call[c].pc = "look" /\ Ok(c)
      /\ UNCHANGED <<step, queue, parked, landed, levers, faults>>
  BY DEF Inv, Look, store
<1>2. CASE To(c, "append")
  <2> DEFINE new == [call[c] EXCEPT !.pc = "append"]
  <2>1. /\ new \in CallType /\ new.pc = "append" /\ new.tries = call[c].tries
        /\ new.late = call[c].late /\ new.told = call[c].told
    BY <1>1, Typed DEF CallType, Place
  <2>2. call' = [call EXCEPT ![c] = new]
    BY <1>1, <1>2 DEF To, TypeOK
  <2> HIDE DEF new
  <2>3. call'[c] = new
    BY <1>1, <2>1, <2>2, Put
  <2>4. LastOne(c)'
    BY <1>1, <2>1, <2>3, StillLast
  <2>5. Ok(c)'
    BY <1>1, <2>1, <2>3, <2>4 DEF Ok, Recorded, Counted, InFlight, SameKey
  <2> QED
    BY <1>1, <2>1, <2>2, <2>5, InvGo
<1>3. CASE \E d \in Earliest(c) : Performed(d) /\ GoneThrough(c, "already")
  <2>1. PICK d \in Earliest(c) : Performed(d) /\ GoneThrough(c, "already")
    BY <1>3
  <2>2. d \in SameKey(c) /\ d \in Call /\ landed[d]
    BY <2>1 DEF Earliest, StepsUnder, SameKey, Performed, Inv, Ok, Recorded
  <2>3. /\ call' \in [Call -> CallType] /\ call'[c].pc \in {"complete", "done"}
        /\ call'[c].told = "already" /\ call'[c].late \in {call[c].late, 0}
        /\ \A e \in Call : e # c => call'[e] = call[e]
    BY <1>1, <2>1, Through DEF Told
  <2>4. LastOne(c)'
    BY <1>1, <2>3, StillLast
  <2>5. Ok(c)'
    BY <1>1, <2>2, <2>3, <2>4 DEF Ok, Recorded, Counted, InFlight, SameKey
  <2>6. TypeOK'
    BY <1>1, <2>3 DEF TypeOK, CallType, levers
  <2>7. GivenUpIsParked'
    BY <1>1 DEF Inv, GivenUpIsParked
  <2> QED
    BY <1>1, <2>3, <2>5, <2>6, <2>7, Moves
<1> QED
  BY <1>2, <1>3 DEF Look

\* A step of the record written.
LEMMA StepWritten ==
  ASSUME TypeOK, NEW c \in Call,
         NEW new \in [status : {"none", "running", "succeeded", "denied", "failed"}, seq : Nat],
         step' = [step EXCEPT ![c] = new]
  PROVE  /\ step' \in [Call -> [status : {"none", "running", "succeeded", "denied", "failed"},
                                seq : Nat]]
         /\ step'[c] = new /\ \A d \in Call : d # c => step'[d] = step[d]
BY DEF TypeOK

LEMMA SeqTyped ==
  ASSUME NEW c \in Call
  PROVE  NextSeq(c) \in Nat
<1> DEFINE S == {d \in Call : RunOf[d] = RunOf[c] /\ step[d].status # "none"}
<1>1. IsFiniteSet(Call) /\ S \subseteq Call
  BY EgressAssumption
<1>2. Cardinality(S) \in Nat
  BY <1>1, FS_Subset, FS_CardinalityType
<1> QED
  BY <1>2 DEF NextSeq

LEMMA InvAppend ==
  ASSUME Inv, NEW c \in Call, Append(c)
  PROVE  Inv'
<1>1. /\ TypeOK /\ call[c].pc = "append" /\ Ok(c)
      /\ UNCHANGED <<queue, parked, landed, levers>>
  BY DEF Inv, Append
<1>2. CASE Fault /\ Tell(c, "denied") /\ UNCHANGED step
  BY <1>1, <1>2, FaultTyped, InvTell DEF Told
<1>3. CASE /\ step' = [step EXCEPT ![c] = [status |-> "running", seq |-> NextSeq(c)]]
           /\ To(c, "permit") /\ UNCHANGED faults
  <2>1. /\ call' \in [Call -> CallType] /\ call'[c].pc = "permit"
        /\ call'[c].tries = call[c].tries /\ call'[c].late = call[c].late
        /\ call'[c].told = call[c].told /\ \A d \in Call : d # c => call'[d] = call[d]
    BY <1>1, <1>3, Went DEF Place
  <2>2. [status |-> "running", seq |-> NextSeq(c)]
          \in [status : {"none", "running", "succeeded", "denied", "failed"}, seq : Nat]
    BY SeqTyped
  <2>3. /\ step' \in [Call -> [status : {"none", "running", "succeeded", "denied", "failed"},
                               seq : Nat]]
        /\ step'[c].status = "running" /\ \A d \in Call : d # c => step'[d] = step[d]
    BY <1>1, <1>3, <2>2, StepWritten
  <2>4. LastOne(c)'
    BY <1>1, <2>1, StillLast
  <2>5. Ok(c)'
    BY <1>1, <2>1, <2>3, <2>4 DEF Ok, Recorded, Counted, InFlight, SameKey
  <2>6. TypeOK'
    BY <1>1, <1>3, <2>1, <2>3 DEF TypeOK, CallType, levers
  <2>7. GivenUpIsParked'
    BY <1>1 DEF Inv, GivenUpIsParked
  <2> QED
    BY <1>1, <2>1, <2>3, <2>5, <2>6, <2>7, Moves
<1> QED
  BY <1>2, <1>3 DEF Append

LEMMA InvPermit ==
  ASSUME Inv, NEW c \in Call, Permit(c)
  PROVE  Inv'
<1>1. /\ TypeOK /\ call[c].pc = "permit" /\ Ok(c) /\ call[c] \in CallType
      /\ UNCHANGED <<step, queue, parked, landed, levers, faults>>
  BY Typed DEF Inv, Permit, store
<1>2. CASE To(c, "record_denied")
  <2> DEFINE new == [call[c] EXCEPT !.pc = "record_denied"]
  <2>1. /\ new \in CallType /\ new.pc = "record_denied"
        /\ new.late = call[c].late /\ new.told = call[c].told
    BY <1>1 DEF CallType, Place
  <2>2. call' = [call EXCEPT ![c] = new]
    BY <1>1, <1>2 DEF To, TypeOK
  <2> HIDE DEF new
  <2>3. call'[c] = new
    BY <1>1, <2>1, <2>2, Put
  <2>4. LastOne(c)'
    BY <1>1, <2>1, <2>3, StillLast
  <2>5. Ok(c)'
    BY <1>1, <2>1, <2>3, <2>4 DEF Ok, Recorded, Counted, InFlight, SameKey
  <2> QED
    BY <1>1, <2>1, <2>2, <2>5, InvGo
<1>3. CASE Permitted(c) /\ call' = [call EXCEPT ![c].pc = "credential", ![c].tries = @ + 1]
  <2> DEFINE new == [call[c] EXCEPT !.pc = "credential", !.tries = call[c].tries + 1]
  <2>1. call[c].tries + 1 \in 0..MaxAttempts
    BY <1>1, Bounds DEF Ok, Counted, CallType
  <2>2. /\ new \in CallType /\ new.pc = "credential"
        /\ new.late = call[c].late /\ new.told = call[c].told
    BY <1>1, <2>1 DEF CallType, Place
  <2>3. call' = [call EXCEPT ![c] = new]
    BY <1>1, <1>3 DEF TypeOK
  <2> HIDE DEF new
  <2>4. call'[c] = new
    BY <1>1, <2>2, <2>3, Put
  <2>5. LastOne(c)'
    BY <1>1, <1>3, <2>2, <2>4 DEF Ok, LastOne, Stopped, Permitted, levers
  <2>6. Ok(c)'
    BY <1>1, <2>2, <2>4, <2>5 DEF Ok, Recorded, Counted, InFlight, SameKey
  <2> QED
    BY <1>1, <2>2, <2>3, <2>6, InvGo
<1> QED
  BY <1>2, <1>3 DEF Permit

LEMMA InvCredential ==
  ASSUME Inv, NEW c \in Call, Credential(c)
  PROVE  Inv'
<1>1. /\ TypeOK /\ call[c].pc = "credential" /\ Ok(c) /\ call[c] \in CallType
      /\ UNCHANGED <<step, queue, parked, landed, levers, faults>>
  BY Typed DEF Inv, Credential, store
<1> DEFINE pc == IF revoked THEN "record_denied" ELSE "request"
           new == [call[c] EXCEPT !.pc = pc]
<1>2. pc \in Place /\ pc \in InFlight /\ pc # "patch" /\ (pc = "request" <=> ~revoked)
      /\ pc # "credential" /\ pc \notin {"idle", "look", "append", "permit", "enqueue", "release"}
  BY DEF Place, InFlight
<1>3. call' = [call EXCEPT ![c] = new]
  BY <1>1 DEF Credential, To, TypeOK
<1> HIDE DEF pc
<1>4. /\ new \in CallType /\ new.pc = pc /\ new.late = call[c].late /\ new.told = call[c].told
  BY <1>1, <1>2 DEF CallType
<1> HIDE DEF new
<1>5. call'[c] = new
  BY <1>1, <1>3, <1>4, Put
<1>6. LastOne(c)'
  BY <1>1, <1>2, <1>4, <1>5 DEF Ok, LastOne, Stopped, levers
<1>7. Ok(c)'
  BY <1>1, <1>2, <1>4, <1>5, <1>6 DEF Ok, Recorded, Counted, InFlight, SameKey
<1> QED
  BY <1>1, <1>3, <1>4, <1>7, InvGo

LEMMA InvRequest ==
  ASSUME Inv, NEW c \in Call, NEW performed \in BOOLEAN,
         NEW answer \in {"ok", "retryable", "final"}, Request(c, performed, answer)
  PROVE  Inv'
<1>1. /\ TypeOK /\ call[c].pc = "request" /\ Ok(c) /\ call[c] \in CallType
      /\ UNCHANGED <<step, queue, parked, levers, faults>>
      /\ landed' = [landed EXCEPT ![c] = @ \/ performed] /\ (answer = "ok" => performed)
  BY Typed DEF Inv, Request, store
<1> DEFINE pc == Answered(c, answer)
           late == IF Stopped THEN call[c].late + 1 ELSE call[c].late
           new == [call[c] EXCEPT !.pc = pc, !.late = late]
<1>2. /\ pc \in {"patch", "permit", "record_failed"}
      /\ pc = "patch" => answer = "ok"
      /\ pc = "permit" => ~GivesUp(c)
  BY DEF Answered
<1>3. pc = "permit" => call[c].tries < MaxAttempts
  BY <1>1, <1>2, Bounds DEF GivesUp, CallType
<1>4. late \in 0..MaxAttempts /\ (Stopped => late <= 1)
  BY <1>1, Bounds DEF Ok, LastOne, CallType
<1>5. call' = [call EXCEPT ![c] = new]
  BY <1>1 DEF Request, TypeOK
<1> HIDE DEF pc, late
<1>6. /\ new \in CallType /\ new.pc = pc /\ new.late = late /\ new.told = call[c].told
      /\ new.tries = call[c].tries
  BY <1>1, <1>2, <1>4 DEF CallType, Place
<1> HIDE DEF new
<1>7. /\ call' \in [Call -> CallType] /\ call'[c] = new
      /\ \A d \in Call : d # c => call'[d] = call[d]
  BY <1>1, <1>5, <1>6, Put
<1>8. /\ landed' \in [Call -> BOOLEAN] /\ landed'[c] = (landed[c] \/ performed)
      /\ \A d \in Call : d # c => landed'[d] = landed[d]
  BY <1>1 DEF TypeOK
<1>9. LastOne(c)'
  BY <1>1, <1>2, <1>4, <1>6, <1>7 DEF LastOne, Stopped, levers
<1>10. Recorded(c)'
  BY <1>1, <1>2, <1>6, <1>7, <1>8 DEF Ok, Recorded, InFlight, SameKey
<1>11. Counted(c)'
  BY <1>2, <1>3, <1>6, <1>7 DEF Counted
<1>12. Ok(c)'
  BY <1>2, <1>6, <1>7, <1>9, <1>10, <1>11 DEF Ok
<1>13. TypeOK'
  BY <1>1, <1>7, <1>8 DEF TypeOK, CallType, levers
<1>14. GivenUpIsParked'
  BY <1>1 DEF Inv, GivenUpIsParked
<1> QED
  BY <1>1, <1>7, <1>8, <1>12, <1>13, <1>14, Moves

LEMMA InvPatch ==
  ASSUME Inv, NEW c \in Call, Patch(c)
  PROVE  Inv'
<1>1. /\ TypeOK /\ call[c].pc = "patch" /\ Ok(c) /\ call[c] \in CallType
      /\ UNCHANGED <<queue, parked, landed, levers>> /\ landed[c]
      /\ step[c].status = "running"
  BY Typed DEF Inv, Patch, Ok, Recorded, InFlight
<1>2. CASE Fault /\ To(c, "record_denied") /\ UNCHANGED step
  <2>1. /\ call' \in [Call -> CallType] /\ call'[c].pc = "record_denied"
        /\ call'[c].late = call[c].late /\ call'[c].told = call[c].told
        /\ \A d \in Call : d # c => call'[d] = call[d]
    BY <1>1, <1>2, Went DEF Place
  <2>2. LastOne(c)'
    BY <1>1, <2>1, StillLast
  <2>3. Ok(c)'
    BY <1>1, <1>2, <2>1, <2>2 DEF Ok, Recorded, Counted, InFlight, SameKey
  <2>4. faults' \in 0..MaxFaults
    BY <1>1, <1>2, FaultTyped
  <2>5. TypeOK'
    BY <1>1, <1>2, <2>1, <2>4 DEF TypeOK, CallType, levers
  <2>6. GivenUpIsParked'
    BY <1>1 DEF Inv, GivenUpIsParked
  <2> QED
    BY <1>1, <1>2, <2>1, <2>3, <2>5, <2>6, Moves
<1>3. CASE /\ step' = [step EXCEPT ![c].status = "succeeded"]
           /\ GoneThrough(c, "sent") /\ UNCHANGED faults
  <2> DEFINE new == [step[c] EXCEPT !.status = "succeeded"]
  <2>1. /\ call' \in [Call -> CallType] /\ call'[c].pc \in {"complete", "done"}
        /\ call'[c].told = "sent" /\ call'[c].late \in {call[c].late, 0}
        /\ \A e \in Call : e # c => call'[e] = call[e]
    BY <1>1, <1>3, Through DEF Told
  <2>2. /\ new \in [status : {"none", "running", "succeeded", "denied", "failed"}, seq : Nat]
        /\ new.status = "succeeded" /\ step' = [step EXCEPT ![c] = new]
    BY <1>1, <1>3 DEF TypeOK
  <2> HIDE DEF new
  <2>3. /\ step' \in [Call -> [status : {"none", "running", "succeeded", "denied", "failed"},
                               seq : Nat]]
        /\ step'[c].status = "succeeded" /\ \A d \in Call : d # c => step'[d] = step[d]
    BY <1>1, <2>2, StepWritten
  <2>4. LastOne(c)'
    BY <1>1, <2>1, StillLast
  <2>5. c \in SameKey(c)
    BY DEF SameKey
  <2>6. Ok(c)'
    BY <1>1, <2>1, <2>3, <2>4, <2>5 DEF Ok, Recorded, Counted, InFlight, SameKey
  <2>7. TypeOK'
    BY <1>1, <1>3, <2>1, <2>3 DEF TypeOK, CallType, levers
  <2>8. GivenUpIsParked'
    BY <1>1 DEF Inv, GivenUpIsParked
  <2> QED
    BY <1>1, <2>1, <2>3, <2>6, <2>7, <2>8, Moves
<1> QED
  BY <1>2, <1>3 DEF Patch

LEMMA InvRecord ==
  ASSUME Inv, NEW c \in Call, Record(c)
  PROVE  Inv'
<1>1. /\ TypeOK /\ call[c].pc \in {"record_denied", "record_failed"} /\ Ok(c)
      /\ call[c] \in CallType /\ UNCHANGED <<queue, parked, landed, levers>>
      /\ step[c].status = "running"
  BY Typed DEF Inv, Record, Ok, Recorded, InFlight
<1> DEFINE status == IF call[c].pc = "record_denied" THEN "denied" ELSE "failed"
           new == [step[c] EXCEPT !.status = status]
<1>2. /\ step' \in [Call -> [status : {"none", "running", "succeeded", "denied", "failed"},
                             seq : Nat]]
      /\ step'[c].status \in {"running", "denied", "failed"}
      /\ \A d \in Call : d # c => step'[d] = step[d]
      /\ faults' \in 0..MaxFaults
  <2>1. CASE step' = [step EXCEPT ![c].status = status] /\ UNCHANGED faults
    <3>1. /\ new \in [status : {"none", "running", "succeeded", "denied", "failed"}, seq : Nat]
          /\ new.status \in {"denied", "failed"}
      BY <1>1 DEF TypeOK
    <3>2. step' = [step EXCEPT ![c] = new]
      BY <2>1 DEF TypeOK
    <3> HIDE DEF new
    <3> QED
      BY <1>1, <2>1, <3>1, <3>2, StepWritten DEF TypeOK
  <2>2. CASE Fault /\ UNCHANGED step
    BY <1>1, <2>2, FaultTyped DEF TypeOK
  <2> QED
    BY <2>1, <2>2 DEF Record
<1>3. /\ call' \in [Call -> CallType] /\ call'[c].pc \in {"done", "degrade"}
      /\ call'[c].late \in {call[c].late, 0} /\ call'[c].told \in {call[c].told, "denied"}
      /\ \A d \in Call : d # c => call'[d] = call[d]
  <2>1. CASE Tell(c, "denied")
    BY <1>1, <2>1, Answer DEF Told
  <2>2. CASE To(c, "degrade")
    BY <1>1, <2>2, Went DEF Place
  <2> QED
    BY <2>1, <2>2 DEF Record
<1>4. LastOne(c)'
  BY <1>1, <1>3, StillLast
<1>5. Ok(c)'
  BY <1>1, <1>2, <1>3, <1>4 DEF Ok, Recorded, Counted, InFlight, SameKey
<1>6. TypeOK'
  BY <1>1, <1>2, <1>3 DEF TypeOK, CallType, levers
<1>7. GivenUpIsParked'
  BY <1>1 DEF Inv, GivenUpIsParked
<1> QED
  BY <1>1, <1>2, <1>3, <1>5, <1>6, <1>7, Moves

LEMMA InvRefuse ==
  ASSUME Inv, NEW c \in Call, Refuse(c) \/ Crash(c)
  PROVE  Inv'
<1>1. faults' \in 0..MaxFaults
  BY FaultTyped DEF Inv, TypeOK, Refuse, Crash
<1>2. /\ \E told \in Told \ {"sent", "already"} : Tell(c, told)
      /\ UNCHANGED <<step, queue, parked, landed, levers>>
  BY DEF Refuse, Crash, store, Told
<1> QED
  BY <1>1, <1>2, InvTell

LEMMA ItemParked ==
  ASSUME TypeOK, NEW c \in Call, ParkItem(c)
  PROVE  /\ parked' \in [Key -> {"none", "open", "resolved"}]
         /\ parked'[KeyOf[c]] # "none"
         /\ \A k \in Key : parked[k] # "none" => parked'[k] # "none"
BY Bounds DEF TypeOK, ParkItem

LEMMA InvPark ==
  ASSUME Inv, NEW c \in Call, ParkForHuman(c)
  PROVE  Inv'
<1>1. /\ TypeOK /\ Ok(c) /\ UNCHANGED <<step, queue, landed, levers>>
  BY DEF Inv, ParkForHuman
<1>2. CASE Fault /\ Tell(c, "denied") /\ UNCHANGED parked
  BY <1>1, <1>2, FaultTyped, InvTell DEF Told
<1>3. CASE ParkItem(c) /\ Tell(c, "parked") /\ UNCHANGED faults
  <2>1. /\ call' \in [Call -> CallType] /\ \A d \in Call : d # c => call'[d] = call[d]
    BY <1>1, <1>3, Answer DEF Told
  <2>2. /\ parked' \in [Key -> {"none", "open", "resolved"}]
        /\ \A k \in Key : parked[k] # "none" => parked'[k] # "none"
    BY <1>1, <1>3, ItemParked
  <2>3. Ok(c)'
    BY <1>1, <1>3, Ended DEF Ok, Recorded, Told
  <2>4. TypeOK'
    BY <1>1, <1>3, <2>1, <2>2 DEF TypeOK, CallType, levers
  <2>5. GivenUpIsParked'
    BY <1>1, <2>2 DEF Inv, GivenUpIsParked
  <2> QED
    BY <1>1, <2>1, <2>2, <2>3, <2>4, <2>5, Moves
<1> QED
  BY <1>2, <1>3 DEF ParkForHuman

LEMMA InvQueueRead ==
  ASSUME Inv, NEW c \in Call, QueueRead(c)
  PROVE  Inv'
<1>1. /\ TypeOK /\ call[c].pc = "degrade" /\ Ok(c) /\ call[c] \in CallType
      /\ UNCHANGED <<step, queue, parked, landed, levers, faults>>
  BY Typed DEF Inv, QueueRead, store
<1> DEFINE pc == IF Exhausted(c) THEN "give_up" ELSE "enqueue"
           seen == queue[KeyOf[c]].attempts
           new == [call[c] EXCEPT !.pc = pc, !.seen = seen]
<1>2. seen \in 0..MaxQueueAttempts
  BY <1>1, Bounds DEF TypeOK
<1>3. pc \in {"give_up", "enqueue"} /\ (pc = "enqueue" => seen < MaxQueueAttempts)
  BY <1>2, Bounds DEF Exhausted
<1>4. call' = [call EXCEPT ![c] = new]
  BY <1>1 DEF QueueRead, TypeOK
<1> HIDE DEF pc, seen
<1>5. /\ new \in CallType /\ new.pc = pc /\ new.seen = seen /\ new.late = call[c].late
      /\ new.told = call[c].told
  BY <1>1, <1>2, <1>3 DEF CallType, Place
<1> HIDE DEF new
<1>6. call'[c] = new
  BY <1>1, <1>4, <1>5, Put
<1>7. LastOne(c)'
  BY <1>1, <1>3, <1>5, <1>6, StillLast
<1>8. Ok(c)'
  BY <1>1, <1>3, <1>5, <1>6, <1>7 DEF Ok, Recorded, Counted, InFlight, SameKey
<1> QED
  BY <1>1, <1>4, <1>5, <1>8, InvGo

\* An entry of the queue written.
LEMMA QueueWritten ==
  ASSUME TypeOK, NEW k \in Key,
         NEW new \in [status : {"none", "queued", "claimed", "completed", "abandoned"},
                      attempts : 0..MaxQueueAttempts],
         queue' = [queue EXCEPT ![k] = new]
  PROVE  /\ queue' \in [Key -> [status : {"none", "queued", "claimed", "completed", "abandoned"},
                                attempts : 0..MaxQueueAttempts]]
         /\ queue'[k] = new /\ \A j \in Key : j # k => queue'[j] = queue[j]
BY DEF TypeOK

\* A call ends by writing its entry of the queue.
LEMMA InvWritten ==
  ASSUME Inv, NEW c \in Call, NEW told \in Told, Tell(c, told), faults' \in 0..MaxFaults,
         NEW new \in [status : {"none", "queued", "claimed", "completed", "abandoned"},
                      attempts : 0..MaxQueueAttempts],
         queue' = [queue EXCEPT ![KeyOf[c]] = new],
         new.status = "abandoned" => parked[KeyOf[c]] # "none",
         told \in {"sent", "already"} => \E d \in SameKey(c) : landed[d],
         UNCHANGED <<step, parked, landed, levers>>
  PROVE  Inv'
<1>1. TypeOK /\ Ok(c) /\ KeyOf[c] \in Key
  BY Bounds DEF Inv
<1>2. call' \in [Call -> CallType] /\ \A d \in Call : d # c => call'[d] = call[d]
  BY <1>1, Answer
<1>3. Ok(c)'
  BY <1>1, Ended DEF Ok, Recorded
<1>4. /\ queue' \in [Key -> [status : {"none", "queued", "claimed", "completed", "abandoned"},
                             attempts : 0..MaxQueueAttempts]]
      /\ queue'[KeyOf[c]] = new /\ \A j \in Key : j # KeyOf[c] => queue'[j] = queue[j]
  BY <1>1, QueueWritten
<1>5. TypeOK'
  BY <1>1, <1>2, <1>4 DEF TypeOK, CallType, levers
<1>6. GivenUpIsParked'
  BY <1>1, <1>4 DEF Inv, GivenUpIsParked
<1> QED
  BY <1>2, <1>3, <1>5, <1>6, Moves

LEMMA InvEnqueue ==
  ASSUME Inv, NEW c \in Call, Enqueue(c)
  PROVE  Inv'
<1>1. /\ TypeOK /\ call[c].pc = "enqueue" /\ Ok(c) /\ call[c] \in CallType
      /\ UNCHANGED <<step, parked, landed, levers>>
  BY Typed DEF Inv, Enqueue
<1>2. CASE Fault /\ Tell(c, "denied") /\ UNCHANGED queue
  BY <1>1, <1>2, FaultTyped, InvTell DEF Told
<1>3. CASE /\ queue' = [queue EXCEPT ![KeyOf[c]] =
                         [status |-> "queued", attempts |-> call[c].seen + 1]]
           /\ Tell(c, "queued") /\ UNCHANGED faults
  <2>1. call[c].seen + 1 \in 0..MaxQueueAttempts
    BY <1>1, Bounds DEF Ok, Counted, CallType
  <2>2. faults' \in 0..MaxFaults
    BY <1>1, <1>3 DEF TypeOK
  <2> DEFINE new == [status |-> "queued", attempts |-> call[c].seen + 1]
  <2>3. /\ new \in [status : {"none", "queued", "claimed", "completed", "abandoned"},
                    attempts : 0..MaxQueueAttempts]
        /\ new.status = "queued"
    BY <2>1
  <2> HIDE DEF new
  <2>4. queue' = [queue EXCEPT ![KeyOf[c]] = new]
    BY <1>3 DEF new
  <2> QED
    BY <1>1, <1>3, <2>2, <2>3, <2>4, InvWritten DEF Told
<1> QED
  BY <1>2, <1>3 DEF Enqueue

LEMMA InvGiveUp ==
  ASSUME Inv, NEW c \in Call, GiveUp(c)
  PROVE  Inv'
<1>1. /\ TypeOK /\ call[c].pc = "give_up" /\ Ok(c) /\ UNCHANGED <<step, queue, landed, levers>>
  BY DEF Inv, GiveUp
<1>2. CASE Fault /\ Tell(c, "denied") /\ UNCHANGED parked
  BY <1>1, <1>2, FaultTyped, InvTell DEF Told
<1>3. CASE ParkItem(c) /\ To(c, "release") /\ UNCHANGED faults
  <2>1. /\ call' \in [Call -> CallType] /\ call'[c].pc = "release"
        /\ call'[c].late = call[c].late /\ call'[c].told = call[c].told
        /\ \A d \in Call : d # c => call'[d] = call[d]
    BY <1>1, <1>3, Went DEF Place
  <2>2. /\ parked' \in [Key -> {"none", "open", "resolved"}]
        /\ parked'[KeyOf[c]] # "none"
        /\ \A k \in Key : parked[k] # "none" => parked'[k] # "none"
    BY <1>1, <1>3, ItemParked
  <2>3. LastOne(c)'
    BY <1>1, <2>1, StillLast
  <2>4. Ok(c)'
    BY <1>1, <2>1, <2>2, <2>3 DEF Ok, Recorded, Counted, InFlight, SameKey
  <2>5. TypeOK'
    BY <1>1, <1>3, <2>1, <2>2 DEF TypeOK, CallType, levers
  <2>6. GivenUpIsParked'
    BY <1>1, <2>2 DEF Inv, GivenUpIsParked
  <2> QED
    BY <1>1, <2>1, <2>2, <2>4, <2>5, <2>6, Moves
<1> QED
  BY <1>2, <1>3 DEF GiveUp

LEMMA InvRelease ==
  ASSUME Inv, NEW c \in Call, ReleaseQueued(c)
  PROVE  Inv'
<1>1. /\ TypeOK /\ call[c].pc = "release" /\ Ok(c) /\ KeyOf[c] \in Key
      /\ UNCHANGED <<step, parked, landed, levers>>
  BY Bounds DEF Inv, ReleaseQueued
<1>2. CASE Fault /\ Tell(c, "denied") /\ UNCHANGED queue
  BY <1>1, <1>2, FaultTyped, InvTell DEF Told
<1>3. CASE /\ queue' = [queue EXCEPT ![KeyOf[c]].status = "abandoned"]
           /\ Tell(c, "parked") /\ UNCHANGED faults
  <2> DEFINE new == [queue[KeyOf[c]] EXCEPT !.status = "abandoned"]
  <2>1. /\ new \in [status : {"none", "queued", "claimed", "completed", "abandoned"},
                    attempts : 0..MaxQueueAttempts]
        /\ queue' = [queue EXCEPT ![KeyOf[c]] = new]
    BY <1>1, <1>3 DEF TypeOK
  <2>2. faults' \in 0..MaxFaults /\ parked[KeyOf[c]] # "none"
    BY <1>1, <1>3 DEF TypeOK, Ok
  <2> HIDE DEF new
  <2> QED
    BY <1>1, <1>3, <2>1, <2>2, InvWritten DEF Told
<1> QED
  BY <1>2, <1>3 DEF ReleaseQueued

LEMMA InvComplete ==
  ASSUME Inv, NEW c \in Call, CompleteQueued(c)
  PROVE  Inv'
<1>1. /\ TypeOK /\ call[c].pc = "complete" /\ Ok(c) /\ KeyOf[c] \in Key /\ call[c] \in CallType
      /\ UNCHANGED <<step, parked, landed, levers>> /\ Tell(c, call[c].told)
  BY Bounds, Typed DEF Inv, CompleteQueued
<1>2. call[c].told \in Told
  BY <1>1 DEF CallType
<1> DEFINE new == [queue[KeyOf[c]] EXCEPT !.status = "completed"]
<1>3. CASE queue' = [queue EXCEPT ![KeyOf[c]].status = "completed"] /\ UNCHANGED faults
  <2>1. /\ new \in [status : {"none", "queued", "claimed", "completed", "abandoned"},
                    attempts : 0..MaxQueueAttempts]
        /\ new.status = "completed" /\ queue' = [queue EXCEPT ![KeyOf[c]] = new]
        /\ faults' \in 0..MaxFaults
    BY <1>1, <1>3 DEF TypeOK
  <2>2. call[c].told \in {"sent", "already"} => \E d \in SameKey(c) : landed[d]
    BY <1>1 DEF Ok, Recorded
  <2> HIDE DEF new
  <2> QED
    BY <1>1, <1>2, <2>1, <2>2, InvWritten
<1>4. CASE Fault /\ UNCHANGED queue
  <2>1. call' \in [Call -> CallType] /\ \A d \in Call : d # c => call'[d] = call[d]
    BY <1>1, <1>2, Answer
  <2>2. Ok(c)'
    BY <1>1, <1>2, Ended DEF Ok, Recorded
  <2>3. faults' \in 0..MaxFaults
    BY <1>1, <1>4, FaultTyped
  <2>4. TypeOK'
    BY <1>1, <1>4, <2>1, <2>3 DEF TypeOK, CallType, levers
  <2>5. GivenUpIsParked'
    BY <1>1, <1>4 DEF Inv, GivenUpIsParked
  <2> QED
    BY <1>1, <2>1, <2>2, <2>4, <2>5, Moves
<1> QED
  BY <1>3, <1>4 DEF CompleteQueued

\* A lever that leaves every call as it is, and brings no stop into effect.
LEMMA InvThrown ==
  ASSUME Inv, UNCHANGED <<call, store, landed, faults, revoked>>, Stopped' => Stopped,
         paused' \in BOOLEAN, lingers' \in BOOLEAN, stops' \in 0..MaxStops
  PROVE  Inv'
<1>1. TypeOK /\ UNCHANGED <<call, step, queue, parked, landed, faults, revoked>>
  BY DEF Inv, store
<1>2. TypeOK'
  BY <1>1 DEF TypeOK
<1>3. ASSUME NEW c \in Call PROVE Ok(c)'
  <2>1. Ok(c) /\ SameKey(c)' = SameKey(c)
    BY DEF Inv, SameKey
  <2>2. LastOne(c)'
    BY <1>1, <2>1 DEF Ok, LastOne
  <2> QED
    BY <1>1, <2>1, <2>2 DEF Ok, Recorded, Counted
<1>4. GivenUpIsParked'
  BY <1>1 DEF Inv, GivenUpIsParked
<1> QED
  BY <1>2, <1>3, <1>4 DEF Inv

\* A stop takes effect: every call is late from here on, if none was in effect.
LEMMA InvLever ==
  ASSUME Inv, FromHere, UNCHANGED <<store, landed, faults>>, revoked => revoked',
         paused' \in BOOLEAN, lingers' \in BOOLEAN, revoked' \in BOOLEAN, stops' \in 0..MaxStops
  PROVE  Inv'
<1>1. TypeOK /\ UNCHANGED <<step, queue, parked, landed, faults>>
  BY DEF Inv, store
<1>2. ASSUME NEW c \in Call
      PROVE  /\ call'[c] \in CallType /\ call'[c].pc = call[c].pc
             /\ call'[c].late = IF Stopped THEN call[c].late ELSE 0
             /\ call'[c].tries = call[c].tries /\ call'[c].seen = call[c].seen
             /\ call'[c].told = call[c].told
  <2>1. CASE Stopped
    BY <1>1, <2>1, Typed DEF FromHere
  <2>2. CASE ~Stopped
    <3>1. call'[c] = [call[c] EXCEPT !.late = 0]
      BY <2>2 DEF FromHere
    <3>2. call[c] \in CallType
      BY <1>1, Typed
    <3> QED
      BY <2>2, <3>1, <3>2, Bounds DEF CallType
  <2> QED
    BY <2>1, <2>2
<1>3. call' \in [Call -> CallType]
  <2>1. call' = [c \in Call |-> call'[c]]
    BY <1>1 DEF FromHere, TypeOK
  <2> QED
    BY <1>2, <2>1
<1>4. TypeOK'
  BY <1>1, <1>3 DEF TypeOK, CallType
<1>5. ASSUME NEW c \in Call PROVE Ok(c)'
  <2>1. Ok(c)
    BY DEF Inv
  <2>2. LastOne(c)'
    <3>1. CASE Stopped
      BY <1>2, <2>1, <3>1 DEF Ok, LastOne
    <3>2. CASE ~Stopped
      BY <1>2, <3>2 DEF LastOne
    <3> QED
      BY <3>1, <3>2
  <2>3. Recorded(c)'
    <3>1. Recorded(c) /\ call'[c].pc = call[c].pc /\ call'[c].told = call[c].told
      BY <1>2, <2>1 DEF Ok
    <3>2. step' = step /\ landed' = landed /\ SameKey(c)' = SameKey(c)
      BY <1>1 DEF SameKey
    <3> QED
      BY <3>1, <3>2 DEF Recorded
  <2>4. Counted(c)'
    BY <1>2, <2>1 DEF Ok, Counted
  <2> QED
    BY <1>1, <1>2, <2>1, <2>2, <2>3, <2>4 DEF Ok
<1>6. GivenUpIsParked'
  BY <1>1 DEF Inv, GivenUpIsParked
<1> QED
  BY <1>4, <1>5, <1>6 DEF Inv

LEMMA InvResolve ==
  ASSUME Inv, NEW k \in Key, ResolveParked(k)
  PROVE  Inv'
<1>1. /\ TypeOK /\ parked[k] = "open" /\ parked' = [parked EXCEPT ![k] = "resolved"]
      /\ UNCHANGED <<call, step, queue, landed, levers, faults>>
  BY DEF Inv, ResolveParked
<1>2. /\ parked' \in [Key -> {"none", "open", "resolved"}]
      /\ \A j \in Key : parked[j] # "none" => parked'[j] # "none"
  BY <1>1 DEF TypeOK
<1>3. TypeOK'
  BY <1>1, <1>2 DEF TypeOK, levers
<1>4. ASSUME NEW c \in Call PROVE Ok(c)'
  BY <1>1, <1>2, Bounds, Others DEF Inv
<1>5. GivenUpIsParked'
  BY <1>1, <1>2 DEF Inv, GivenUpIsParked
<1> QED
  BY <1>3, <1>4, <1>5 DEF Inv

LEMMA InvNext == Inv /\ [Next]_vars => Inv'
<1> SUFFICES ASSUME Inv, [Next]_vars PROVE Inv'
  OBVIOUS
<1>1. CASE UNCHANGED vars
  <2>1. UNCHANGED <<call, step, queue, parked, landed, paused, lingers, revoked,
                  stops, faults>>
    BY <1>1 DEF vars, store, levers
  <2>2. TypeOK'
    BY <2>1 DEF Inv, TypeOK
  <2>3. \A c \in Call : Ok(c)'
    BY <2>1 DEF Inv, Ok, Recorded, Counted, LastOne, Stopped, SameKey
  <2>4. GivenUpIsParked'
    BY <2>1 DEF Inv, GivenUpIsParked
  <2> QED
    BY <2>2, <2>3, <2>4 DEF Inv
<1>2. ASSUME NEW c \in Call,
             \/ Begin(c) \/ Claim(c) \/ Look(c) \/ Append(c) \/ Permit(c) \/ Credential(c)
             \/ \E performed \in BOOLEAN, answer \in {"ok", "retryable", "final"} :
                  Request(c, performed, answer)
             \/ Patch(c) \/ Record(c)
      PROVE  Inv'
  BY <1>2, InvBegin, InvClaim, InvLook, InvAppend, InvPermit, InvCredential, InvRequest,
     InvPatch, InvRecord
<1>3. ASSUME NEW c \in Call,
             \/ Refuse(c) \/ ParkForHuman(c) \/ QueueRead(c) \/ Enqueue(c)
             \/ GiveUp(c) \/ ReleaseQueued(c) \/ CompleteQueued(c) \/ Crash(c)
      PROVE  Inv'
  BY <1>3, InvRefuse, InvPark, InvQueueRead, InvEnqueue, InvGiveUp, InvRelease, InvComplete
<1>4. CASE Contain \/ Clear \/ Spread \/ Revoke
  <2>1. /\ stops \in 0..MaxStops /\ MaxStops \in Nat
        /\ paused \in BOOLEAN /\ lingers \in BOOLEAN /\ revoked \in BOOLEAN
    BY EgressAssumption DEF Inv, TypeOK
  <2>2. CASE Contain
    <3>1. stops' \in 0..MaxStops
      BY <2>1, <2>2 DEF Contain
    <3>2. /\ UNCHANGED <<call, store, landed, faults, revoked>> /\ (Stopped' => Stopped)
          /\ paused' \in BOOLEAN /\ lingers' \in BOOLEAN
      BY <2>2 DEF Contain, Stopped
    <3> QED
      BY <3>1, <3>2, InvThrown
  <2>3. CASE Clear
    <3>1. /\ UNCHANGED <<call, store, landed, faults, revoked>> /\ (Stopped' => Stopped)
          /\ paused' \in BOOLEAN /\ lingers' \in BOOLEAN /\ stops' \in 0..MaxStops
      BY <2>1, <2>3 DEF Clear, Stopped
    <3> QED
      BY <3>1, InvThrown
  <2>4. CASE Spread
    BY <2>1, <2>4, InvLever DEF Spread
  <2>5. CASE Revoke
    <3>1. stops' \in 0..MaxStops
      BY <2>1, <2>5 DEF Revoke
    <3> QED
      BY <2>1, <2>5, <3>1, InvLever DEF Revoke
  <2> QED
    BY <1>4, <2>2, <2>3, <2>4, <2>5
<1>5. CASE \E k \in Key : ResolveParked(k)
  BY <1>5, InvResolve
<1> QED
  BY <1>1, <1>2, <1>3, <1>4, <1>5 DEF Next

LEMMA InvHolds == Spec => []Inv
<1> QED
  BY InvInit, InvNext, PTL DEF Spec

\* The types of the calls, of the record and of the queue hold in every behaviour.
THEOREM TypeCorrect == Spec => []TypeOK
<1>1. Inv => TypeOK
  BY DEF Inv
<1> QED
  BY <1>1, InvHolds, PTL

\* Every effect is on the record, and what the record and the callers say happened did.
THEOREM RecordTrue == Spec => []RecordAndAnswersAreTrue
<1>1. Inv => RecordAndAnswersAreTrue
  BY DEF Inv, Ok, Recorded, RecordAndAnswersAreTrue
<1> QED
  BY <1>1, InvHolds, PTL

\* A call makes one more request at most once a stop has taken effect.
THEOREM StopReaches == Spec => []StopReachesCalls
<1>1. Inv => StopReachesCalls
  BY DEF Inv, Ok, LastOne, StopReachesCalls
<1> QED
  BY <1>1, InvHolds, PTL

\* What the queue abandons is, or was, on a person's list.
THEOREM GivenUpParked == Spec => []GivenUpIsParked
<1>1. Inv => GivenUpIsParked
  BY DEF Inv
<1> QED
  BY <1>1, InvHolds, PTL

=============================================================================
