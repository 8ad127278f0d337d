-------------------------- MODULE WaitingStepsProofs --------------------------
(***************************************************************************)
(* Proofs about WaitingSteps: its types, that a task is completed once,    *)
(* that the operating record backs what the instance says happened, and    *)
(* that a step is left once.                                               *)
(***************************************************************************)
EXTENDS WaitingSteps, SequenceTheorems, TLAPS

TokenType == [state : {"none", "ready", "running"} \cup Parked,
              lapsed : BOOLEAN, due : BOOLEAN, row : Nat, approval : Nat]
RowType == [status : {"waiting", "succeeded", "skipped", "failed"},
            task : {"none", "open", "completed"}, noted : Nat]
Decision == {"pending", "granted", "rejected", "expired"}
Between == {"idle", "refresh", "pick"}
WorkerPC ==
  {"idle", "refresh", "pick", "refreshed", "run", "append", "task", "create", "ask",
   "note", "park", "skip", "timeout", "timed_out", "fire", "fired", "denied"}
WorkerType ==
  [pc : WorkerPC, step : 0..Last, from : {"none", "ready", "running"} \cup Parked, row : Nat, approval : Nat]
CompletionType ==
  [pc : {"idle", "row", "task", "advance", "refused", "completed", "lost"},
   step : 0..Last, row : Nat]
SignalType ==
  [pc : {"idle", "row", "advance", "refused", "accepted", "lost"}, step : 0..Last, row : Nat]

\* A row of a step, and whether one of its rows ended so.
IsRow(s, r) == s \in Step /\ r \in 1..Len(rows[s])
Backed(s, status) == \E r \in 1..Len(rows[s]) : rows[s][r].status = status

\* A token that waits knows its row.
TokenOK(s) ==
  /\ token[s].row <= Len(rows[s]) /\ token[s].approval <= Len(approvals[s])
  /\ token[s].state \in Parked => token[s].row > 0

\* A worker knows its step's row, and has closed it when it is about to move the token.
WorkerOK(w) ==
  /\ worker[w].pc \in Between => worker[w].approval = 0
  /\ worker[w].pc \notin Between =>
       worker[w].step \in Step /\ worker[w].approval <= Len(approvals[worker[w].step])
  /\ \/ worker[w].pc \in {"task", "create", "ask", "note", "park",
                          "timeout", "timed_out", "fire", "fired"}
     \/ worker[w].pc = "run" /\ worker[w].from \in Parked
     => IsRow(worker[w].step, worker[w].row)
  /\ worker[w].pc \in {"refreshed", "skip", "fired"} => Backed(worker[w].step, "succeeded")
  /\ worker[w].pc = "timed_out" /\ OnTimeout[worker[w].step] # 0
       => Backed(worker[w].step, "skipped")

\* A person past the first write closed the task's row.
Closed(c) == completion[c].pc \in {"task", "advance", "completed"}
CompletionOK(c) ==
  /\ completion[c].pc = "row" \/ Closed(c) => IsRow(completion[c].step, completion[c].row)
  /\ Closed(c) => rows[completion[c].step][completion[c].row].status = "succeeded"

SignalOK(g) ==
  /\ signal[g].pc \in {"row", "advance"} => IsRow(signal[g].step, signal[g].row)
  /\ signal[g].pc = "advance" => rows[signal[g].step][signal[g].row].status = "succeeded"

HistoryOK(s) ==
  /\ history[s] = "succeeded" => Backed(s, "succeeded")
  /\ history[s] = "skipped" => Backed(s, "skipped")

\* Nobody else is past the first write on the same row.
Alone ==
  \A c, d \in Completion :
    Closed(c) /\ Closed(d) /\ completion[c].step = completion[d].step
    /\ completion[c].row = completion[d].row => c = d

Typed ==
  /\ token \in [Step -> TokenType]
  /\ history \in [Step -> {"none", "succeeded", "skipped", "failed", "denied"}]
  /\ ended \in {"no", "succeeded", "failed", "denied", "cancelled"}
  /\ rows \in [Step -> Seq(RowType)]
  /\ approvals \in [Step -> Seq(Decision)]
  /\ worker \in [Worker -> WorkerType]
  /\ completion \in [Completion -> CompletionType]
  /\ signal \in [Signal -> SignalType]
  /\ mishaps \in 0..MaxMishaps

CaseTyped ==
  /\ token \in [Step -> TokenType]
  /\ history \in [Step -> {"none", "succeeded", "skipped", "failed", "denied"}]
  /\ ended \in {"no", "succeeded", "failed", "denied", "cancelled"}

\* The approval noted on a row was raised.
RecordOK ==
  /\ rows \in [Step -> Seq(RowType)] /\ approvals \in [Step -> Seq(Decision)]
  /\ \A s \in Step : \A r \in 1..Len(rows[s]) : rows[s][r].noted <= Len(approvals[s])

Inv ==
  /\ Typed /\ RecordOK /\ Alone
  /\ \A s \in Step : TokenOK(s) /\ HistoryOK(s)
  /\ \A w \in Worker : WorkerOK(w)
  /\ \A c \in Completion : CompletionOK(c)
  /\ \A g \in Signal : SignalOK(g)

\* What a step may do to a token and to an outcome.
TokenKept(s) ==
  \/ token'[s] \in {token[s], Gone, Ready} \/ TokenOK(s)'
  \/ /\ token'[s].row = token[s].row /\ token'[s].approval = token[s].approval
     /\ token'[s].state \in Parked => token[s].state \in Parked
OutcomeKept(s) == history'[s] = history[s] \/ HistoryOK(s)'

\* Rows are added, and one that ended stays as it is; approvals are added.
Grow ==
  /\ \A s \in Step :
       /\ Len(rows[s]) <= Len(rows'[s])
       /\ \A r \in 1..Len(rows[s]) :
            rows[s][r].status # "waiting" => rows'[s][r].status = rows[s][r].status
  /\ \A s \in Step : Len(approvals[s]) <= Len(approvals'[s])

-----------------------------------------------------------------------------
LEMMA Lengths ==
  ASSUME Typed, NEW s \in Step
  PROVE  /\ Len(rows[s]) \in Nat /\ DOMAIN rows[s] = 1..Len(rows[s])
         /\ Len(approvals[s]) \in Nat /\ DOMAIN approvals[s] = 1..Len(approvals[s])
         /\ \A r \in 1..Len(rows[s]) : rows[s][r] \in RowType
BY DEF Typed

\* What the record backs, it goes on backing.
LEMMA StillBacked ==
  ASSUME Typed, Typed', Grow, NEW s \in Step
  PROVE  /\ \A status \in {"succeeded", "skipped"} : Backed(s, status) => Backed(s, status)'
         /\ \A r : IsRow(s, r) => IsRow(s, r)'
<1>1. /\ Len(rows[s]) \in Nat /\ Len(rows'[s]) \in Nat /\ Len(rows[s]) <= Len(rows'[s])
  BY DEF Typed, Grow
<1>2. \A r \in 1..Len(rows[s]) :
        /\ r \in 1..Len(rows'[s])
        /\ rows[s][r].status # "waiting" => rows'[s][r].status = rows[s][r].status
  BY <1>1 DEF Grow
<1> QED
  BY <1>2 DEF Backed, IsRow

\* An actor that stays where it is.
LEMMA WorkerStays ==
  ASSUME Typed, Typed', Grow, NEW w \in Worker, WorkerOK(w), worker'[w] = worker[w]
  PROVE  WorkerOK(w)'
<1>1. worker[w] \in WorkerType
  BY DEF Typed
<1>2. CASE worker[w].pc \in Between
  <2>1. worker[w].pc \notin {"task", "create", "ask", "note", "park", "timeout", "timed_out",
                             "fire", "fired", "run", "refreshed", "skip"}
    BY <1>2 DEF Between
  <2> QED
    BY <1>2, <2>1 DEF WorkerOK
<1>3. CASE worker[w].pc \notin Between
  <2>1. worker[w].step \in Step
    BY <1>3 DEF WorkerOK
  <2>2. worker[w].approval <= Len(approvals'[worker[w].step])
    <3>1. /\ worker[w].approval \in Nat /\ Len(approvals[worker[w].step]) \in Nat
          /\ Len(approvals'[worker[w].step]) \in Nat
          /\ Len(approvals[worker[w].step]) <= Len(approvals'[worker[w].step])
      BY <1>1, <2>1 DEF WorkerType, Typed, Grow
    <3> QED
      BY <1>3, <3>1 DEF WorkerOK
  <2> QED
    BY <1>3, <2>1, <2>2, StillBacked DEF WorkerOK
<1> QED
  BY <1>2, <1>3

LEMMA CompletionStays ==
  ASSUME Typed, Typed', Grow, NEW c \in Completion, CompletionOK(c),
         completion'[c] = completion[c]
  PROVE  CompletionOK(c)'
<1>1. CASE completion[c].pc = "row" \/ Closed(c)
  <2>1. IsRow(completion[c].step, completion[c].row) /\ completion[c].step \in Step
    BY <1>1 DEF CompletionOK, IsRow
  <2>2. IsRow(completion[c].step, completion[c].row)'
    BY <2>1, StillBacked
  <2>3. Closed(c) => rows'[completion[c].step][completion[c].row].status = "succeeded"
    BY <2>1 DEF CompletionOK, Grow, IsRow
  <2> QED
    BY <2>2, <2>3 DEF CompletionOK, Closed
<1>2. CASE ~(completion[c].pc = "row" \/ Closed(c))
  BY <1>2 DEF CompletionOK, Closed
<1> QED
  BY <1>1, <1>2

LEMMA SignalStays ==
  ASSUME Typed, Typed', Grow, NEW g \in Signal, SignalOK(g), signal'[g] = signal[g]
  PROVE  SignalOK(g)'
<1>1. CASE signal[g].pc \in {"row", "advance"}
  <2>1. IsRow(signal[g].step, signal[g].row) /\ signal[g].step \in Step
    BY <1>1 DEF SignalOK, IsRow
  <2>2. IsRow(signal[g].step, signal[g].row)'
    BY <2>1, StillBacked
  <2>3. signal[g].pc = "advance" => rows'[signal[g].step][signal[g].row].status = "succeeded"
    BY <2>1 DEF SignalOK, Grow, IsRow
  <2> QED
    BY <2>2, <2>3 DEF SignalOK
<1>2. CASE signal[g].pc \notin {"row", "advance"}
  BY <1>2 DEF SignalOK
<1> QED
  BY <1>1, <1>2

LEMMA TokenStays ==
  ASSUME Typed, Typed', Grow, NEW s \in Step, TokenOK(s),
         token'[s].row = token[s].row, token'[s].approval = token[s].approval,
         token'[s].state \in Parked => token[s].state \in Parked
  PROVE  TokenOK(s)'
<1>1. /\ token[s].row \in Nat /\ token[s].approval \in Nat
      /\ Len(rows[s]) \in Nat /\ Len(rows'[s]) \in Nat
      /\ Len(approvals[s]) \in Nat /\ Len(approvals'[s]) \in Nat
      /\ Len(rows[s]) <= Len(rows'[s]) /\ Len(approvals[s]) <= Len(approvals'[s])
  BY DEF Typed, TokenType, Grow
<1> QED
  BY <1>1 DEF TokenOK

LEMMA HistoryStays ==
  ASSUME Typed, Typed', Grow, NEW s \in Step, HistoryOK(s),
         history'[s] \in {history[s], "failed", "denied", "none"}
  PROVE  HistoryOK(s)'
BY StillBacked DEF HistoryOK

\* What the store keeps of every actor, put together.
LEMMA Preserved ==
  ASSUME Inv, Typed', Grow, Alone',
         RecordOK', \A s \in Step : TokenKept(s) /\ OutcomeKept(s),
         \A w \in Worker : worker'[w] = worker[w] \/ WorkerOK(w)',
         \A c \in Completion : completion'[c] = completion[c] \/ CompletionOK(c)',
         \A g \in Signal : signal'[g] = signal[g] \/ SignalOK(g)'
  PROVE  Inv'
<1>1. ASSUME NEW s \in Step PROVE TokenOK(s)'
  <2>1. CASE token'[s] = token[s]
    BY <2>1, TokenStays DEF Inv
  <2>2. CASE token'[s] \in {Gone, Ready}
    <3>1. /\ token'[s].row = 0 /\ token'[s].approval = 0 /\ token'[s].state \notin Parked
      BY <2>2 DEF Gone, Ready, Parked
    <3>2. Len(rows'[s]) >= 0 /\ Len(approvals'[s]) >= 0
      BY DEF Typed
    <3> QED
      BY <3>1, <3>2 DEF TokenOK
  <2>3. ASSUME token'[s].row = token[s].row, token'[s].approval = token[s].approval,
               token'[s].state \in Parked => token[s].state \in Parked
        PROVE  TokenOK(s)'
    BY <2>3, TokenStays DEF Inv
  <2> QED
    BY <2>1, <2>2, <2>3 DEF TokenKept
<1>2. ASSUME NEW s \in Step PROVE HistoryOK(s)'
  BY HistoryStays DEF Inv, OutcomeKept
<1>3. \A w \in Worker : WorkerOK(w)'
  BY WorkerStays DEF Inv
<1>4. \A c \in Completion : CompletionOK(c)'
  BY CompletionStays DEF Inv
<1>5. \A g \in Signal : SignalOK(g)'
  BY SignalStays DEF Inv
<1> QED
  BY <1>1, <1>2, <1>3, <1>4, <1>5 DEF Inv

\* Nobody completes a row meanwhile.
LEMMA AloneStays ==
  ASSUME Alone,
         \A c \in Completion : Closed(c)' =>
           /\ Closed(c) /\ completion'[c].step = completion[c].step
           /\ completion'[c].row = completion[c].row
  PROVE  Alone'
<1> SUFFICES ASSUME NEW c \in Completion, NEW d \in Completion, Closed(c)', Closed(d)',
                    completion'[c].step = completion'[d].step,
                    completion'[c].row = completion'[d].row
             PROVE  c = d
  BY DEF Alone
<1> QED
  BY DEF Alone

LEMMA SameRecord ==
  ASSUME Typed, RecordOK, UNCHANGED record
  PROVE  Grow /\ RecordOK'
<1>1. rows' = rows /\ approvals' = approvals
  BY DEF record
<1>2. \A s \in Step : Len(rows[s]) \in Nat /\ Len(approvals[s]) \in Nat
  BY Lengths
<1> QED
  BY <1>1, <1>2 DEF Grow, RecordOK

\* A row is written, in place.
LEMMA RowWritten ==
  ASSUME Typed, RecordOK, NEW s \in Step, NEW r \in 1..Len(rows[s]), NEW row \in RowType,
         rows' = [rows EXCEPT ![s] = [rows[s] EXCEPT ![r] = row]],
         approvals' = approvals,
         rows[s][r].status # "waiting" => row.status = rows[s][r].status,
         row.noted <= Len(approvals[s])
  PROVE  /\ Grow /\ RecordOK'
         /\ IsRow(s, r)' /\ rows'[s][r] = row
<1>1. rows[s] \in Seq(RowType) /\ DOMAIN rows = Step
  BY DEF Typed
<1> DEFINE new == [rows[s] EXCEPT ![r] = row]
<1>2. /\ new \in Seq(RowType) /\ Len(new) = Len(rows[s]) /\ new[r] = row
      /\ \A q \in 1..Len(rows[s]) : q # r => new[q] = rows[s][q]
  BY <1>1, ExceptSeq
<1> HIDE DEF new
<1>3. rows' = [rows EXCEPT ![s] = new]
  BY DEF new
<1>4. /\ rows' \in [Step -> Seq(RowType)] /\ rows'[s] = new
      /\ \A t \in Step : t # s => rows'[t] = rows[t]
  BY <1>1, <1>2, <1>3 DEF Typed
<1>5. \A t \in Step : Len(rows[t]) \in Nat /\ Len(approvals[t]) \in Nat
  BY Lengths
<1>6. ASSUME NEW t \in Step
      PROVE  /\ Len(rows[t]) <= Len(rows'[t])
             /\ \A q \in 1..Len(rows[t]) :
                  rows[t][q].status # "waiting" => rows'[t][q].status = rows[t][q].status
  BY <1>2, <1>4, <1>5
<1>7. Grow
  BY <1>5, <1>6 DEF Grow
<1>8. ASSUME NEW t \in Step, NEW q \in 1..Len(rows'[t])
      PROVE  rows'[t][q].noted <= Len(approvals'[t])
  BY <1>2, <1>4, <1>5 DEF RecordOK
<1> QED
  BY <1>1, <1>2, <1>4, <1>7, <1>8 DEF IsRow, RecordOK

LEMMA RowAdded ==
  ASSUME Typed, RecordOK, NEW s \in Step, NEW row \in RowType, row.noted = 0,
         rows' = [rows EXCEPT ![s] = Append(rows[s], row)], approvals' = approvals
  PROVE  /\ Grow /\ RecordOK'
         /\ Len(rows'[s]) = Len(rows[s]) + 1
<1>1. rows[s] \in Seq(RowType) /\ DOMAIN rows = Step /\ Len(rows[s]) \in Nat
  BY Lengths DEF Typed
<1> DEFINE new == Append(rows[s], row)
<1>2. /\ new \in Seq(RowType) /\ Len(new) = Len(rows[s]) + 1
      /\ \A q \in 1..Len(rows[s]) : new[q] = rows[s][q]
      /\ new[Len(rows[s]) + 1] = row
  BY <1>1, AppendProperties
<1> HIDE DEF new
<1>3. rows' = [rows EXCEPT ![s] = new]
  BY DEF new
<1>4. /\ rows' \in [Step -> Seq(RowType)] /\ rows'[s] = new
      /\ \A t \in Step : t # s => rows'[t] = rows[t]
  BY <1>1, <1>2, <1>3 DEF Typed
<1>5. \A t \in Step : Len(rows[t]) \in Nat /\ Len(approvals[t]) \in Nat
  BY Lengths
<1>6. ASSUME NEW t \in Step
      PROVE  /\ Len(rows[t]) <= Len(rows'[t])
             /\ \A q \in 1..Len(rows[t]) :
                  rows[t][q].status # "waiting" => rows'[t][q].status = rows[t][q].status
  BY <1>1, <1>2, <1>4, <1>5
<1>7. Grow
  BY <1>5, <1>6 DEF Grow
<1>8. ASSUME NEW t \in Step, NEW q \in 1..Len(rows'[t])
      PROVE  rows'[t][q].noted <= Len(approvals'[t])
  <2>1. CASE t = s /\ q = Len(rows[s]) + 1
    BY <1>2, <1>4, <1>5, <2>1
  <2>2. CASE ~(t = s /\ q = Len(rows[s]) + 1)
    <3>1. q \in 1..Len(rows[t]) /\ rows'[t][q] = rows[t][q]
      BY <1>1, <1>2, <1>4, <1>5, <2>2
    <3> QED
      BY <3>1 DEF RecordOK
  <2> QED
    BY <2>1, <2>2
<1> QED
  BY <1>1, <1>2, <1>4, <1>7, <1>8 DEF Typed, RecordOK

\* Requests are added and decided.
LEMMA ApprovalAdded ==
  ASSUME Typed, RecordOK, NEW s \in Step, rows' = rows,
         approvals' = [approvals EXCEPT ![s] = Append(approvals[s], "pending")]
  PROVE  /\ Grow /\ RecordOK'
         /\ Len(approvals'[s]) = Len(approvals[s]) + 1
<1>1. approvals[s] \in Seq(Decision) /\ DOMAIN approvals = Step /\ Len(approvals[s]) \in Nat
  BY Lengths DEF Typed
<1> DEFINE new == Append(approvals[s], "pending")
<1>2. new \in Seq(Decision) /\ Len(new) = Len(approvals[s]) + 1
  BY <1>1, AppendProperties DEF Decision
<1> HIDE DEF new
<1>3. approvals' = [approvals EXCEPT ![s] = new]
  BY DEF new
<1>4. /\ approvals' \in [Step -> Seq(Decision)] /\ approvals'[s] = new
      /\ \A t \in Step : t # s => approvals'[t] = approvals[t]
  BY <1>1, <1>2, <1>3 DEF Typed
<1>5. \A t \in Step : Len(rows[t]) \in Nat /\ Len(approvals[t]) \in Nat
  BY Lengths
<1>6. \A t \in Step : Len(approvals[t]) <= Len(approvals'[t])
  BY <1>1, <1>2, <1>4, <1>5
<1>7. Grow
  BY <1>5, <1>6 DEF Grow
<1>8. ASSUME NEW t \in Step, NEW q \in 1..Len(rows'[t])
      PROVE  rows'[t][q].noted <= Len(approvals'[t])
  <2>1. q \in 1..Len(rows[t]) /\ rows'[t][q] = rows[t][q] /\ rows[t][q].noted \in Nat
    BY Lengths DEF RowType
  <2>2. Len(approvals[t]) \in Nat /\ Len(approvals'[t]) \in Nat
    BY <1>4, <1>5
  <2> QED
    BY <1>5, <1>6, <2>1, <2>2 DEF RecordOK
<1> QED
  BY <1>2, <1>4, <1>7, <1>8 DEF Typed, RecordOK

LEMMA ApprovalWritten ==
  ASSUME Typed, RecordOK, NEW s \in Step, NEW a \in 1..Len(approvals[s]), NEW d \in Decision,
         approvals' = [approvals EXCEPT ![s] = [approvals[s] EXCEPT ![a] = d]], rows' = rows
  PROVE  Grow /\ RecordOK'
<1>1. approvals[s] \in Seq(Decision) /\ DOMAIN approvals = Step
  BY DEF Typed
<1> DEFINE new == [approvals[s] EXCEPT ![a] = d]
<1>2. new \in Seq(Decision) /\ Len(new) = Len(approvals[s])
  BY <1>1, ExceptSeq
<1> HIDE DEF new
<1>3. approvals' = [approvals EXCEPT ![s] = new]
  BY DEF new
<1>4. /\ approvals' \in [Step -> Seq(Decision)] /\ approvals'[s] = new
      /\ \A t \in Step : t # s => approvals'[t] = approvals[t]
  BY <1>1, <1>2, <1>3 DEF Typed
<1>5. \A t \in Step : Len(rows[t]) \in Nat /\ Len(approvals[t]) \in Nat
  BY Lengths
<1>6. \A t \in Step : Len(approvals[t]) <= Len(approvals'[t])
  BY <1>2, <1>4, <1>5
<1>7. Grow
  BY <1>5, <1>6 DEF Grow
<1>8. ASSUME NEW t \in Step, NEW q \in 1..Len(rows'[t])
      PROVE  rows'[t][q].noted <= Len(approvals'[t])
  <2>1. q \in 1..Len(rows[t]) /\ rows'[t][q] = rows[t][q] /\ rows[t][q].noted \in Nat
    BY Lengths DEF RowType
  <2>2. Len(approvals[t]) \in Nat /\ Len(approvals'[t]) \in Nat
    BY <1>4, <1>5
  <2> QED
    BY <1>5, <1>6, <2>1, <2>2 DEF RecordOK
<1> QED
  BY <1>4, <1>7, <1>8 DEF Typed, RecordOK

\* The instance advances: typed, and no token or outcome but what it says.
LEMMA Advances ==
  ASSUME Typed, NEW s \in Step, NEW next \in 0..Last,
         NEW outcome \in {"succeeded", "skipped"}, AdvanceTo(s, outcome, next)
  PROVE  /\ CaseTyped'
         /\ \A t \in Step : token'[t] \in {token[t], Gone, Ready}
         /\ \A t \in Step : t # s => history'[t] = history[t]
         /\ history'[s] = outcome
<1>1. Gone \in TokenType /\ Ready \in TokenType
  BY DEF TokenType, Gone, Ready, Parked
<1>2. next # 0 => next \in Step
  BY WaitingAssumption DEF Step
<1> DEFINE left == [token EXCEPT ![s] = Gone]
<1>3. left \in [Step -> TokenType] /\ \A t \in Step : left[t] \in {token[t], Gone}
  BY <1>1 DEF Typed
<1> HIDE DEF left
<1>4. token' = IF next = 0 THEN left ELSE [left EXCEPT ![next] = Ready]
  BY DEF AdvanceTo, left
<1>5. /\ history' = [history EXCEPT ![s] = outcome]
      /\ ended' \in {"no", "succeeded"}
  BY DEF AdvanceTo
<1>6. token' \in [Step -> TokenType] /\ \A t \in Step : token'[t] \in {token[t], Gone, Ready}
  BY <1>1, <1>2, <1>3, <1>4
<1> QED
  BY <1>5, <1>6 DEF Typed, CaseTyped

\* Either way a caller's advance ends.
LEMMA Mutates ==
  ASSUME Typed, NEW s \in Step, NEW next \in 0..Last, NEW states,
         NEW outcome \in {"succeeded", "skipped"}, Mutate(s, states, outcome, next)
  PROVE  /\ CaseTyped'
         /\ \A t \in Step : token'[t] \in {token[t], Gone, Ready}
         /\ \A t \in Step : history'[t] = history[t] \/ (t = s /\ history'[t] = outcome)
<1>1. CASE UNCHANGED case
  BY <1>1 DEF case, Typed, CaseTyped
<1>2. CASE AdvanceTo(s, outcome, next)
  BY <1>2, Advances
<1> QED
  BY <1>1, <1>2 DEF Mutate

LEMMA Settles ==
  ASSUME Typed, NEW s \in Step, NEW status \in {"failed", "denied"}, SettleAt(s, status)
  PROVE  /\ CaseTyped'
         /\ \A t \in Step : token'[t] \in {token[t], Gone, Ready}
         /\ \A t \in Step : history'[t] \in {history[t], status}
<1>1. Gone \in TokenType
  BY DEF TokenType, Gone, Parked
<1>2. CASE ended # "no"
  BY <1>2 DEF SettleAt, Settle, Typed, CaseTyped
<1>3. CASE ended = "no"
  BY <1>1, <1>3 DEF SettleAt, Settle, Typed, CaseTyped
<1> QED
  BY <1>2, <1>3

LEMMA InvInit == Init => Inv
<1> SUFFICES ASSUME Init PROVE Inv
  OBVIOUS
<1>1. Gone \in TokenType /\ Ready \in TokenType
  BY DEF TokenType, Gone, Ready, Parked
<1>2. Idle \in WorkerType /\ NotCalled \in CompletionType /\ NotCalled \in SignalType
  BY WaitingAssumption DEF WorkerType, WorkerPC, CompletionType, SignalType, Idle, NotCalled, Parked
<1>3. <<>> \in Seq(RowType) /\ <<>> \in Seq(Decision) /\ Len(<<>>) = 0
  OBVIOUS
<1>4. Typed
  BY <1>1, <1>2, <1>3, WaitingAssumption DEF Typed, Init
<1>5. ASSUME NEW s \in Step PROVE TokenOK(s) /\ HistoryOK(s)
  <2>1. /\ token[s].row = 0 /\ token[s].approval = 0 /\ token[s].state \notin Parked
        /\ history[s] = "none" /\ Len(rows[s]) = 0 /\ Len(approvals[s]) = 0
    BY <1>3 DEF Init, Gone, Ready, Parked
  <2> QED
    BY <2>1 DEF TokenOK, HistoryOK
<1>6. \A w \in Worker : WorkerOK(w)
  BY DEF Init, WorkerOK, Idle, Between
<1>7. \A c \in Completion : completion[c].pc = "idle"
  BY DEF Init, NotCalled
<1>8. \A g \in Signal : signal[g].pc = "idle"
  BY DEF Init, NotCalled
<1>9. RecordOK
  BY <1>3 DEF Init, RecordOK
<1> QED
  BY <1>4, <1>5, <1>6, <1>7, <1>8, <1>9 DEF Inv, Alone, CompletionOK, SignalOK, Closed

-----------------------------------------------------------------------------
\* A worker's own record is rewritten.
LEMMA Rewrites ==
  ASSUME Typed, NEW w \in Worker, NEW new \in WorkerType, worker' = [worker EXCEPT ![w] = new]
  PROVE  /\ worker' \in [Worker -> WorkerType] /\ worker'[w] = new
         /\ \A v \in Worker : v # w => worker'[v] = worker[v]
BY DEF Typed

LEMMA Goes ==
  ASSUME Typed, NEW w \in Worker, NEW pc \in WorkerPC, Goto(w, pc)
  PROVE  /\ worker' \in [Worker -> WorkerType] /\ \A v \in Worker : v # w => worker'[v] = worker[v]
         /\ worker'[w].pc = pc /\ worker'[w].step = worker[w].step
         /\ worker'[w].from = worker[w].from /\ worker'[w].row = worker[w].row
         /\ worker'[w].approval = worker[w].approval
<1> DEFINE new == [worker[w] EXCEPT !.pc = pc]
<1>1. worker[w] \in WorkerType
  BY DEF Typed
<1>2. /\ new \in WorkerType /\ new.pc = pc /\ new.step = worker[w].step
      /\ new.from = worker[w].from /\ new.row = worker[w].row
      /\ new.approval = worker[w].approval
  BY <1>1 DEF WorkerType
<1>3. worker' = [worker EXCEPT ![w] = new]
  BY DEF Goto
<1> HIDE DEF new
<1> QED
  BY <1>2, <1>3, Rewrites

\* A worker is between two steps.
LEMMA Rests ==
  ASSUME Typed, NEW w \in Worker, NEW pc \in Between,
         worker' = [worker EXCEPT ![w] = [Idle EXCEPT !.pc = pc]]
  PROVE  /\ worker' \in [Worker -> WorkerType] /\ \A v \in Worker : v # w => worker'[v] = worker[v]
         /\ WorkerOK(w)'
<1> DEFINE new == [Idle EXCEPT !.pc = pc]
<1>1. new \in WorkerType /\ new.pc = pc /\ new.approval = 0
  BY WaitingAssumption DEF Idle, Between, WorkerType, WorkerPC, Parked
<1> HIDE DEF new
<1>2. worker' = [worker EXCEPT ![w] = new]
  BY DEF new
<1>3. /\ worker' \in [Worker -> WorkerType] /\ worker'[w] = new
      /\ \A v \in Worker : v # w => worker'[v] = worker[v]
  BY <1>1, <1>2, Rewrites
<1>4. worker'[w].pc \in Between /\ worker'[w].approval = 0
  BY <1>1, <1>3
<1> QED
  BY <1>3, <1>4 DEF WorkerOK, Between

LEMMA Aborts ==
  ASSUME Typed, NEW w \in Worker, Aborted(w)
  PROVE  /\ worker' \in [Worker -> WorkerType] /\ \A v \in Worker : v # w => worker'[v] = worker[v]
         /\ WorkerOK(w)'
<1>1. [Idle EXCEPT !.pc = "idle"] = Idle /\ "idle" \in Between
  BY DEF Idle, Between
<1> QED
  BY <1>1, Rests DEF Aborted

\* A worker that goes elsewhere without closing anything.
LEMMA GoesOn ==
  ASSUME Typed, Typed', Grow, NEW w \in Worker, WorkerOK(w), worker[w].pc \notin Between,
         worker'[w].step = worker[w].step, worker'[w].approval = worker[w].approval,
         \/ worker'[w].pc \in {"append", "denied"}
         \/ /\ worker'[w].pc \in {"task", "create", "ask", "note", "park", "timeout", "fire"}
            /\ worker[w].pc \in {"task", "create", "ask", "note", "park", "timeout", "fire"}
               \/ (worker[w].pc = "run" /\ worker[w].from \in Parked)
            /\ worker'[w].row = worker[w].row
  PROVE  WorkerOK(w)'
<1> DEFINE s == worker[w].step
<1>1. s \in Step /\ worker[w].approval <= Len(approvals[s])
  BY DEF WorkerOK
<1>2. worker'[w].approval <= Len(approvals'[s])
  <2>1. worker[w].approval \in Nat
    BY DEF Typed, WorkerType
  <2>2. Len(approvals[s]) \in Nat /\ Len(approvals'[s]) \in Nat
    BY <1>1, Lengths DEF Typed
  <2>3. Len(approvals[s]) <= Len(approvals'[s])
    BY <1>1 DEF Grow
  <2> QED
    BY <1>1, <2>1, <2>2, <2>3
<1>3. worker'[w].pc \notin Between \cup {"refreshed", "skip", "timed_out", "fired"}
  BY DEF Between
<1>4. CASE worker'[w].pc \in {"append", "denied"}
  BY <1>1, <1>2, <1>3, <1>4 DEF WorkerOK
<1>5. CASE /\ worker'[w].pc \in {"task", "create", "ask", "note", "park", "timeout", "fire"}
           /\ worker[w].pc \in {"task", "create", "ask", "note", "park", "timeout", "fire"}
              \/ (worker[w].pc = "run" /\ worker[w].from \in Parked)
           /\ worker'[w].row = worker[w].row
  <2>1. IsRow(s, worker[w].row)
    BY <1>5 DEF WorkerOK
  <2>2. worker[w].row \in 1..Len(rows'[s])
    BY <1>1, <2>1 DEF IsRow, Grow, Typed
  <2>3. worker'[w].pc \notin {"run"}
    BY <1>5
  <2>4. worker'[w].step = s /\ worker'[w].row \in 1..Len(rows'[s])
    BY <1>5, <2>2
  <2> QED
    BY <1>1, <1>2, <1>3, <2>3, <2>4 DEF WorkerOK, IsRow
<1> QED
  BY <1>4, <1>5

\* A step of a worker, put together.
LEMMA WorkerMoves ==
  ASSUME Inv, NEW w \in Worker, UNCHANGED <<completion, signal>>, mishaps' \in 0..MaxMishaps,
         worker' \in [Worker -> WorkerType], \A v \in Worker : v # w => worker'[v] = worker[v],
         CaseTyped', Grow, RecordOK', \A s \in Step : TokenKept(s) /\ OutcomeKept(s),
         Typed' => WorkerOK(w)'
  PROVE  Inv'
<1>1. Typed'
  BY DEF Inv, Typed, CaseTyped, RecordOK
<1>2. Alone'
  BY AloneStays DEF Inv, Closed
<1> QED
  BY <1>1, <1>2, Preserved DEF Inv

LEMMA WorkerStep ==
  ASSUME Inv, NEW w \in Worker, UNCHANGED <<completion, signal, mishaps>>,
         worker' \in [Worker -> WorkerType], \A v \in Worker : v # w => worker'[v] = worker[v],
         CaseTyped', Grow, RecordOK', \A s \in Step : TokenKept(s) /\ OutcomeKept(s),
         Typed' => WorkerOK(w)'
  PROVE  Inv'
<1>1. mishaps' \in 0..MaxMishaps
  BY DEF Inv, Typed
<1> QED
  BY <1>1, WorkerMoves

LEMMA MishapType ==
  ASSUME Inv, Mishap
  PROVE  mishaps' \in 0..MaxMishaps
BY WaitingAssumption DEF Inv, Typed, Mishap

LEMMA SameCase ==
  ASSUME Typed, UNCHANGED case
  PROVE  CaseTyped' /\ \A s \in Step : TokenKept(s) /\ OutcomeKept(s)
BY DEF case, Typed, CaseTyped, TokenKept, OutcomeKept

LEMMA AdvanceKeeps ==
  ASSUME Typed, RecordOK, UNCHANGED record, NEW s \in Step, NEW next \in 0..Last, NEW states,
         NEW outcome \in {"succeeded", "skipped"}, Mutate(s, states, outcome, next),
         Backed(s, outcome)
  PROVE  CaseTyped' /\ \A t \in Step : TokenKept(t) /\ OutcomeKept(t)
<1>1. /\ CaseTyped' /\ \A t \in Step : token'[t] \in {token[t], Gone, Ready}
      /\ \A t \in Step : history'[t] = history[t] \/ (t = s /\ history'[t] = outcome)
  BY Mutates
<1>2. Backed(s, outcome)'
  BY DEF Backed, record
<1>3. history'[s] = outcome => HistoryOK(s)'
  BY <1>2 DEF HistoryOK
<1> QED
  BY <1>1, <1>3 DEF TokenKept, OutcomeKept

LEMMA SettleKeeps ==
  ASSUME Typed, NEW s \in Step, NEW status \in {"failed", "denied"}, SettleAt(s, status)
  PROVE  CaseTyped' /\ \A t \in Step : TokenKept(t) /\ OutcomeKept(t)
<1>1. /\ CaseTyped' /\ \A t \in Step : token'[t] \in {token[t], Gone, Ready}
      /\ \A t \in Step : history'[t] \in {history[t], status}
  BY Settles
<1>2. \A t \in Step : history'[t] = status => HistoryOK(t)'
  BY DEF HistoryOK
<1> QED
  BY <1>1, <1>2 DEF TokenKept, OutcomeKept

\* A row is closed.
LEMMA Closes ==
  ASSUME Typed, RecordOK, NEW s \in Step, NEW r \in 1..Len(rows[s]), OpenRow(s, r),
         NEW status \in {"succeeded", "skipped", "failed"}, CloseRow(s, r, status),
         approvals' = approvals
  PROVE  /\ Grow /\ RecordOK' /\ IsRow(s, r)' /\ rows'[s][r].status = status
         /\ Backed(s, status)'
<1> DEFINE row == [rows[s][r] EXCEPT !.status = status]
<1>1. rows[s][r] \in RowType
  BY Lengths
<1>2. row \in RowType /\ row.status = status /\ row.noted = rows[s][r].noted
  BY <1>1 DEF RowType
<1>3. rows' = [rows EXCEPT ![s] = [rows[s] EXCEPT ![r] = row]]
  BY DEF CloseRow
<1>4. rows[s][r].status = "waiting" /\ rows[s][r].noted <= Len(approvals[s])
  BY DEF OpenRow, RecordOK
<1> HIDE DEF row
<1>5. Grow /\ RecordOK' /\ IsRow(s, r)' /\ rows'[s][r] = row
  BY <1>2, <1>3, <1>4, RowWritten
<1> QED
  BY <1>2, <1>5 DEF Backed, IsRow

-----------------------------------------------------------------------------
\* A gate knows the row it waits on.
LEMMA ParkedRow ==
  ASSUME Inv, NEW s \in Step, token[s].state \in Parked
  PROVE  token[s].row \in 1..Len(rows[s])
<1>1. TokenOK(s) /\ token[s].row \in Nat /\ Len(rows[s]) \in Nat
  BY DEF Inv, Typed, TokenType
<1> QED
  BY <1>1 DEF TokenOK

\* Where a worker is on a step's row.
LEMMA AtRow ==
  ASSUME Inv, NEW w \in Worker, worker[w].pc \notin Between
  PROVE  /\ worker[w].step \in Step /\ worker[w].approval \in Nat
         /\ worker[w].approval <= Len(approvals[worker[w].step])
         /\ worker[w].pc \in {"task", "create", "ask", "note", "park", "timeout", "timed_out",
                              "fire", "fired"}
              => worker[w].row \in 1..Len(rows[worker[w].step])
BY DEF Inv, WorkerOK, IsRow, Typed, WorkerType

LEMMA TickStartInv ==
  ASSUME Inv, NEW w \in Worker, TickStart(w)
  PROVE  Inv'
<1>1. Typed /\ RecordOK /\ WorkerOK(w)
  BY DEF Inv
<1>2. /\ worker' \in [Worker -> WorkerType] /\ \A v \in Worker : v # w => worker'[v] = worker[v]
      /\ worker'[w].pc = "refresh" /\ worker'[w].approval = worker[w].approval
  BY <1>1, Goes DEF TickStart, WorkerPC
<1>3. worker'[w].pc \in Between /\ worker'[w].approval = 0
  BY <1>1, <1>2 DEF TickStart, WorkerOK, Between
<1>4. WorkerOK(w)'
  BY <1>2, <1>3 DEF WorkerOK
<1>5. CaseTyped' /\ (\A s \in Step : TokenKept(s) /\ OutcomeKept(s)) /\ Grow /\ RecordOK'
  BY <1>1, SameCase, SameRecord DEF TickStart
<1> QED
  BY <1>2, <1>4, <1>5, WorkerStep DEF TickStart

LEMMA RefreshInv ==
  ASSUME Inv, NEW w \in Worker, Refresh(w)
  PROVE  Inv'
<1>1. Typed /\ RecordOK /\ WorkerOK(w) /\ worker[w].pc = "refresh" /\ worker[w] \in WorkerType
  BY DEF Inv, Refresh, Typed
<1>2. UNCHANGED <<approvals, completion, signal, mishaps>> /\ worker[w].approval = 0
  BY <1>1 DEF Refresh, WorkerOK, Between
<1>3. CASE Goto(w, "pick") /\ UNCHANGED <<case, rows>>
  <2>1. /\ worker' \in [Worker -> WorkerType] /\ \A v \in Worker : v # w => worker'[v] = worker[v]
        /\ worker'[w].pc = "pick" /\ worker'[w].approval = 0
    BY <1>1, <1>2, <1>3, Goes DEF WorkerPC
  <2>2. WorkerOK(w)'
    BY <2>1 DEF WorkerOK, Between
  <2>3. CaseTyped' /\ (\A s \in Step : TokenKept(s) /\ OutcomeKept(s)) /\ Grow /\ RecordOK'
    BY <1>1, <1>2, <1>3, SameCase, SameRecord DEF record
  <2> QED
    BY <1>2, <2>1, <2>2, <2>3, WorkerStep
<1>4. ASSUME NEW s \in Decided, Granted(s), OpenRow(s, token[s].row),
             CloseRow(s, token[s].row, "succeeded"),
             worker' = [worker EXCEPT ![w].pc = "refreshed", ![w].step = s], UNCHANGED case
      PROVE  Inv'
  <2>1. s \in Step /\ token[s].row \in 1..Len(rows[s])
    BY <1>4, ParkedRow DEF Decided, Parked
  <2>2. Grow /\ RecordOK' /\ Backed(s, "succeeded")'
    BY <1>1, <1>2, <1>4, <2>1, Closes
  <2> DEFINE new == [worker[w] EXCEPT !.pc = "refreshed", !.step = s]
  <2>3. new \in WorkerType /\ new.pc = "refreshed" /\ new.step = s /\ new.approval = 0
    <3>1. s \in 0..Last /\ "refreshed" \in WorkerPC
      BY <2>1, WaitingAssumption DEF Step, WorkerPC
    <3> QED
      BY <1>1, <1>2, <3>1 DEF WorkerType
  <2>4. worker' = [worker EXCEPT ![w] = new]
    BY <1>1, <1>4 DEF Typed
  <2> HIDE DEF new
  <2>5. /\ worker' \in [Worker -> WorkerType] /\ worker'[w] = new
        /\ \A v \in Worker : v # w => worker'[v] = worker[v]
    BY <1>1, <2>3, <2>4, Rewrites
  <2>6. Len(approvals'[s]) >= 0
    BY <2>1, <2>2 DEF RecordOK
  <2>7. WorkerOK(w)'
    BY <2>1, <2>2, <2>3, <2>5, <2>6 DEF WorkerOK, Between
  <2> QED
    BY <1>1, <1>2, <1>4, <2>2, <2>5, <2>7, SameCase, WorkerStep
<1>5. CASE Aborted(w) /\ UNCHANGED <<case, rows>>
  <2>1. CaseTyped' /\ (\A s \in Step : TokenKept(s) /\ OutcomeKept(s)) /\ Grow /\ RecordOK'
    BY <1>1, <1>2, <1>5, SameCase, SameRecord DEF record
  <2> QED
    BY <1>1, <1>2, <1>5, <2>1, Aborts, WorkerStep
<1>6. ASSUME NEW s \in Decided, SettleAt(s, "denied"), UNCHANGED <<rows, worker>>
      PROVE  Inv'
  <2>1. CaseTyped' /\ \A t \in Step : TokenKept(t) /\ OutcomeKept(t)
    BY <1>1, <1>6, SettleKeeps DEF Decided
  <2>2. Grow /\ RecordOK'
    BY <1>1, <1>2, <1>6, SameRecord DEF record
  <2>3. Typed' => WorkerOK(w)'
    BY <1>1, <1>6, <2>2, WorkerStays
  <2>4. worker' \in [Worker -> WorkerType] /\ \A v \in Worker : v # w => worker'[v] = worker[v]
    BY <1>1, <1>6 DEF Typed
  <2> QED
    BY <1>2, <2>1, <2>2, <2>3, <2>4, WorkerStep
<1> QED
  BY <1>3, <1>4, <1>5, <1>6 DEF Refresh

LEMMA RefreshAdvanceInv ==
  ASSUME Inv, NEW w \in Worker, RefreshAdvance(w)
  PROVE  Inv'
<1> DEFINE s == worker[w].step
<1>1. Typed /\ RecordOK /\ WorkerOK(w) /\ worker[w].pc = "refreshed"
  BY DEF Inv, RefreshAdvance
<1>2. s \in Step /\ Backed(s, "succeeded")
  BY <1>1 DEF WorkerOK, Between
<1>3. NextOf[s] \in 0..Last
  BY <1>2, WaitingAssumption
<1>4. /\ Mutate(s, {"waiting_approval"}, "succeeded", NextOf[s])
      /\ worker' = [worker EXCEPT ![w] = [Idle EXCEPT !.pc = "refresh"]]
      /\ UNCHANGED <<record, completion, signal, mishaps>>
  BY DEF RefreshAdvance
<1> HIDE DEF s
<1>5. CaseTyped' /\ \A t \in Step : TokenKept(t) /\ OutcomeKept(t)
  BY <1>1, <1>2, <1>3, <1>4, AdvanceKeeps
<1>6. Grow /\ RecordOK'
  BY <1>1, <1>4, SameRecord
<1>7. "refresh" \in Between
  BY DEF Between
<1> QED
  BY <1>1, <1>4, <1>5, <1>6, <1>7, Rests, WorkerStep

LEMMA ClaimInv ==
  ASSUME Inv, NEW w \in Worker, Claim(w)
  PROVE  Inv'
<1>1. Typed /\ RecordOK
  BY DEF Inv
<1>2. UNCHANGED <<history, ended, record, completion, signal, mishaps>>
  BY DEF Claim
<1>3. Grow /\ RecordOK'
  BY <1>1, <1>2, SameRecord
<1>4. CASE Aborted(w) /\ UNCHANGED token
  BY <1>1, <1>2, <1>3, <1>4, SameCase, Aborts, WorkerStep DEF case
<1>5. ASSUME NEW s \in Actionable,
             token' = [token EXCEPT ![s].state = "running", ![s].lapsed = FALSE],
             worker' = [worker EXCEPT ![w] =
               [Idle EXCEPT !.pc = "run", !.step = s, !.from = token[s].state,
                            !.row = token[s].row]]
      PROVE  Inv'
  <2>1. s \in Step /\ token[s] \in TokenType
    BY <1>1 DEF Actionable, Typed
  <2> DEFINE new == [token[s] EXCEPT !.state = "running", !.lapsed = FALSE]
  <2>2. /\ new \in TokenType /\ new.state = "running"
        /\ new.row = token[s].row /\ new.approval = token[s].approval
    BY <2>1 DEF TokenType
  <2>3. token' = [token EXCEPT ![s] = new]
    BY <1>1, <1>5, <2>1 DEF Typed
  <2> HIDE DEF new
  <2>4. /\ token' \in [Step -> TokenType] /\ token'[s] = new
        /\ \A t \in Step : t # s => token'[t] = token[t]
    BY <1>1, <2>1, <2>2, <2>3 DEF Typed
  <2>5. "running" \notin Parked
    BY DEF Parked
  <2>6. CaseTyped' /\ \A t \in Step : TokenKept(t) /\ OutcomeKept(t)
    BY <1>1, <1>2, <2>2, <2>4, <2>5 DEF CaseTyped, TokenKept, OutcomeKept, Typed
  <2> DEFINE him == [Idle EXCEPT !.pc = "run", !.step = s, !.from = token[s].state,
                                 !.row = token[s].row]
  <2>7. /\ him \in WorkerType /\ him.pc = "run" /\ him.step = s /\ him.from = token[s].state
        /\ him.row = token[s].row /\ him.approval = 0
    <3>1. s \in 0..Last /\ "run" \in WorkerPC
      BY <2>1, WaitingAssumption DEF Step, WorkerPC
    <3>2. token[s].state \in {"none", "ready", "running"} \cup Parked /\ token[s].row \in Nat
      BY <2>1 DEF TokenType
    <3> QED
      BY <3>1, <3>2 DEF WorkerType, Idle
  <2>8. worker' = [worker EXCEPT ![w] = him]
    BY <1>5
  <2> HIDE DEF him
  <2>9. /\ worker' \in [Worker -> WorkerType] /\ worker'[w] = him
        /\ \A v \in Worker : v # w => worker'[v] = worker[v]
    BY <1>1, <2>7, <2>8, Rewrites
  <2>10. token[s].state \in Parked => token[s].row \in 1..Len(rows'[s])
    BY <1>2, <2>1, ParkedRow DEF record
  <2>11. Len(approvals'[s]) >= 0
    BY <1>3, <2>1 DEF RecordOK
  <2>12. WorkerOK(w)'
    BY <2>1, <2>7, <2>9, <2>10, <2>11 DEF WorkerOK, Between, IsRow
  <2> QED
    BY <1>2, <1>3, <2>6, <2>9, <2>12, WorkerStep
<1> QED
  BY <1>4, <1>5 DEF Claim

LEMMA RunStepInv ==
  ASSUME Inv, NEW w \in Worker, RunStep(w)
  PROVE  Inv'
<1> DEFINE s == worker[w].step
<1>1. Typed /\ RecordOK /\ WorkerOK(w) /\ worker[w].pc = "run" /\ worker[w] \in WorkerType
  BY DEF Inv, RunStep, Typed
<1>2. worker[w].pc \notin Between /\ s \in Step
  BY <1>1 DEF WorkerOK, Between
<1>3. UNCHANGED <<case, record, completion, signal, mishaps>>
  BY DEF RunStep
<1>4. CaseTyped' /\ (\A t \in Step : TokenKept(t) /\ OutcomeKept(t)) /\ Grow /\ RecordOK'
  BY <1>1, <1>3, SameCase, SameRecord
<1>5. ASSUME NEW pc \in {"denied", "timeout", "fire"}, Goto(w, pc),
             pc = "denied" \/ worker[w].from \in Parked
      PROVE  Inv'
  <2>1. /\ worker' \in [Worker -> WorkerType] /\ \A v \in Worker : v # w => worker'[v] = worker[v]
        /\ worker'[w].pc = pc /\ worker'[w].step = s /\ worker'[w].row = worker[w].row
        /\ worker'[w].approval = worker[w].approval
    BY <1>1, <1>5, Goes DEF WorkerPC
  <2>2. Typed' => WorkerOK(w)'
    BY <1>1, <1>2, <1>4, <1>5, <2>1, GoesOn
  <2> QED
    BY <1>3, <1>4, <2>1, <2>2, WorkerStep
<1>6. CASE worker' = [worker EXCEPT
             ![w].row = IF rows[s] = <<>> THEN 0 ELSE 1,
             ![w].pc = IF rows[s] = <<>> THEN "append"
                       ELSE IF rows[s][1].status = "succeeded" THEN "skip"
                       ELSE CASE Kind[s] = "human" -> "task" [] Kind[s] = "gate" -> "ask"
                              [] OTHER -> "park"]
  <2> DEFINE found == IF rows[s] = <<>> THEN 0 ELSE 1
             there == CASE Kind[s] = "human" -> "task" [] Kind[s] = "gate" -> "ask"
                        [] OTHER -> "park"
             pc == IF rows[s] = <<>> THEN "append"
                   ELSE IF rows[s][1].status = "succeeded" THEN "skip" ELSE there
             new == [worker[w] EXCEPT !.row = found, !.pc = pc]
  <2>1. there \in {"task", "ask", "park"} /\ found \in {0, 1}
    OBVIOUS
  <2>2. rows[s] # <<>> => 1 \in 1..Len(rows[s]) /\ found = 1
    BY <1>1, <1>2 DEF Typed
  <2>3. worker' = [worker EXCEPT ![w] = new]
    BY <1>1, <1>6 DEF Typed
  <2> HIDE DEF there, found
  <2>4. pc \in {"append", "skip", "task", "ask", "park"}
    BY <2>1
  <2>5. pc \in {"task", "ask", "park"} => rows[s] # <<>>
    OBVIOUS
  <2>6. pc = "skip" => rows[s] # <<>> /\ rows[s][1].status = "succeeded"
    BY <2>1
  <2> HIDE DEF pc
  <2>7. new \in WorkerType /\ new.pc = pc /\ new.row = found /\ new.step = s
        /\ new.approval = worker[w].approval
    <3>1. found \in Nat /\ pc \in WorkerPC
      BY <2>1, <2>4 DEF WorkerPC
    <3> QED
      BY <1>1, <3>1 DEF WorkerType
  <2> HIDE DEF new
  <2>8. /\ worker' \in [Worker -> WorkerType] /\ worker'[w] = new
        /\ \A v \in Worker : v # w => worker'[v] = worker[v]
    BY <1>1, <2>3, <2>7, Rewrites
  <2>9. s \in Step /\ worker'[w].approval <= Len(approvals'[s])
    BY <1>1, <1>2, <1>3, <2>7, <2>8 DEF WorkerOK, record
  <2>10. pc \in {"task", "ask", "park"} => IsRow(worker'[w].step, worker'[w].row)
    BY <1>2, <2>2, <2>5, <2>7, <2>8 DEF IsRow
  <2>11. pc = "skip" => Backed(s, "succeeded")
    BY <2>2, <2>6 DEF Backed
  <2>12. rows' = rows /\ worker'[w].step = s /\ worker'[w].pc = pc
    BY <1>3, <2>7, <2>8 DEF record
  <2> HIDE DEF s
  <2>13. WorkerOK(w)'
    BY <2>4, <2>9, <2>10, <2>11, <2>12 DEF WorkerOK, Between, IsRow, Backed
  <2> QED
    BY <1>3, <1>4, <2>8, <2>13, WorkerStep
<1> QED
  BY <1>5, <1>6 DEF RunStep, Parked

\* A worker that leaves the instance alone and goes on with its step.
LEMMA GoesOnInv ==
  ASSUME Inv, NEW w \in Worker, UNCHANGED <<case, completion, signal, mishaps>>, Grow, RecordOK',
         worker[w].pc \in {"task", "create", "ask", "note", "park", "timeout", "fire"},
         NEW pc \in {"denied", "task", "create", "ask", "note", "park", "timeout", "fire"},
         Goto(w, pc)
  PROVE  Inv'
<1>1. Typed /\ WorkerOK(w) /\ worker[w].pc \notin Between
  BY DEF Inv, Between
<1>2. /\ worker' \in [Worker -> WorkerType] /\ \A v \in Worker : v # w => worker'[v] = worker[v]
      /\ worker'[w].pc = pc /\ worker'[w].step = worker[w].step
      /\ worker'[w].row = worker[w].row /\ worker'[w].approval = worker[w].approval
  BY <1>1, Goes DEF WorkerPC
<1>3. Typed' => WorkerOK(w)'
  BY <1>1, <1>2, GoesOn
<1> QED
  BY <1>1, <1>2, <1>3, SameCase, WorkerStep

\* A worker whose step is refused, the store having failed on it.
LEMMA RefusedInv ==
  ASSUME Inv, NEW w \in Worker, worker[w].pc \notin Between,
         UNCHANGED <<record, completion, signal>>, Goto(w, "denied"), Mishap,
         CaseTyped', \A t \in Step : TokenKept(t) /\ OutcomeKept(t)
  PROVE  Inv'
<1>1. Typed /\ RecordOK /\ WorkerOK(w) /\ mishaps' \in 0..MaxMishaps
  BY MishapType DEF Inv
<1>2. Grow /\ RecordOK'
  BY <1>1, SameRecord
<1>3. /\ worker' \in [Worker -> WorkerType] /\ \A v \in Worker : v # w => worker'[v] = worker[v]
      /\ worker'[w].pc = "denied" /\ worker'[w].step = worker[w].step
      /\ worker'[w].approval = worker[w].approval
  BY <1>1, Goes DEF WorkerPC
<1>4. Typed' => WorkerOK(w)'
  BY <1>1, <1>2, <1>3, GoesOn
<1> QED
  BY <1>1, <1>2, <1>3, <1>4, WorkerMoves

\* A worker that moves the token and turns to the next, or is refused.
LEMMA LeavesInv ==
  ASSUME Inv, NEW w \in Worker, worker[w].pc \notin Between,
         UNCHANGED <<record, completion, signal>>, Leave(w),
         CaseTyped', \A t \in Step : TokenKept(t) /\ OutcomeKept(t)
  PROVE  Inv'
<1>1. Typed /\ RecordOK /\ "pick" \in Between
  BY DEF Inv, Between
<1>2. Grow /\ RecordOK'
  BY <1>1, SameRecord
<1>3. CASE NextPick(w) /\ UNCHANGED mishaps
  BY <1>1, <1>2, <1>3, Rests, WorkerStep DEF NextPick
<1>4. CASE Goto(w, "denied") /\ Mishap
  BY <1>4, RefusedInv
<1> QED
  BY <1>3, <1>4 DEF Leave

LEMMA StoreFailsInv ==
  ASSUME Inv, NEW w \in Worker, StoreFails(w)
  PROVE  Inv'
<1>1. /\ Typed /\ worker[w].pc \notin Between /\ Goto(w, "denied") /\ Mishap
      /\ UNCHANGED <<case, record, completion, signal>>
  BY DEF Inv, StoreFails, Between
<1>2. CaseTyped' /\ \A t \in Step : TokenKept(t) /\ OutcomeKept(t)
  BY <1>1, SameCase
<1> QED
  BY <1>1, <1>2, RefusedInv

\* A worker that closes the row of a wait that has ended.
LEMMA WaitEnds ==
  ASSUME Inv, NEW w \in Worker, worker[w].pc \in {"timeout", "fire"},
         UNCHANGED <<case, approvals, completion, signal, mishaps>>,
         OpenRow(worker[w].step, worker[w].row),
         NEW status \in {"succeeded", "skipped", "failed"},
         CloseRow(worker[w].step, worker[w].row, status),
         NEW pc \in {"timed_out", "fired"}, Goto(w, pc),
         pc = "fired" => status = "succeeded",
         pc = "timed_out" => (OnTimeout[worker[w].step] # 0 => status = "skipped")
  PROVE  Inv'
<1>1. Typed /\ RecordOK /\ worker[w].pc \notin Between
  BY DEF Inv, Between
<1>2. PICK s \in Step, r \in Nat : s = worker[w].step /\ r = worker[w].row /\ r \in 1..Len(rows[s])
  BY <1>1, AtRow
<1>3. worker[w].approval <= Len(approvals[s])
  BY <1>1, <1>2, AtRow
<1>4. Grow /\ RecordOK' /\ r \in 1..Len(rows'[s]) /\ Backed(s, status)'
  BY <1>1, <1>2, Closes DEF IsRow
<1>5. /\ worker' \in [Worker -> WorkerType] /\ \A v \in Worker : v # w => worker'[v] = worker[v]
      /\ worker'[w].pc = pc /\ worker'[w].step = s /\ worker'[w].row = r
      /\ worker'[w].approval = worker[w].approval
  BY <1>1, <1>2, Goes DEF WorkerPC
<1>6. WorkerOK(w)'
  BY <1>2, <1>3, <1>4, <1>5 DEF WorkerOK, Between, IsRow
<1> QED
  BY <1>1, <1>4, <1>5, <1>6, SameCase, WorkerStep

LEMMA AppendRowInv ==
  ASSUME Inv, NEW w \in Worker, AppendRow(w)
  PROVE  Inv'
<1>1. Typed /\ RecordOK /\ worker[w].pc = "append" /\ worker[w] \in WorkerType
  BY DEF Inv, AppendRow, Typed
<1>2. PICK s \in Step : s = worker[w].step /\ worker[w].approval <= Len(approvals[s])
  BY <1>1, AtRow DEF Between
<1> DEFINE row == [status |-> "waiting", task |-> "none", noted |-> 0]
           pc == CASE Kind[s] = "human" -> "task" [] Kind[s] = "gate" -> "ask" [] OTHER -> "park"
           new == [worker[w] EXCEPT !.row = Len(rows[s]) + 1, !.pc = pc]
<1>3. /\ rows' = [rows EXCEPT ![s] = Append(rows[s], row)]
      /\ worker' = [worker EXCEPT ![w].row = Len(rows[s]) + 1, ![w].pc = pc]
      /\ UNCHANGED <<case, approvals, completion, signal, mishaps>>
  BY <1>2 DEF AppendRow, StepOf
<1>4. row \in RowType /\ row.noted = 0
  BY DEF RowType
<1>5. pc \in {"task", "ask", "park"}
  OBVIOUS
<1> HIDE DEF row, pc
<1>6. Grow /\ RecordOK' /\ Len(rows'[s]) = Len(rows[s]) + 1
  BY <1>1, <1>3, <1>4, RowAdded
<1>7. Len(rows[s]) \in Nat
  BY <1>1, Lengths
<1>8. worker' = [worker EXCEPT ![w] = new]
  BY <1>1, <1>3 DEF Typed
<1>9. /\ new \in WorkerType /\ new.pc = pc /\ new.row = Len(rows[s]) + 1 /\ new.step = s
      /\ new.approval = worker[w].approval
  <2>1. pc \in WorkerPC /\ Len(rows[s]) + 1 \in Nat
    BY <1>5, <1>7 DEF WorkerPC
  <2> QED
    BY <1>1, <1>2, <2>1 DEF WorkerType
<1> HIDE DEF new
<1>10. /\ worker' \in [Worker -> WorkerType] /\ worker'[w] = new
       /\ \A v \in Worker : v # w => worker'[v] = worker[v]
  BY <1>1, <1>8, <1>9, Rewrites
<1>11. new.row \in 1..Len(rows'[s]) /\ new.approval <= Len(approvals'[s])
  BY <1>2, <1>3, <1>6, <1>7, <1>9
<1>12. WorkerOK(w)'
  BY <1>5, <1>9, <1>10, <1>11 DEF WorkerOK, Between, IsRow
<1> QED
  BY <1>1, <1>3, <1>6, <1>10, <1>12, SameCase, WorkerStep

LEMMA FindTaskInv ==
  ASSUME Inv, NEW w \in Worker, FindTask(w)
  PROVE  Inv'
<1>1. /\ Typed /\ RecordOK /\ worker[w].pc = "task"
      /\ UNCHANGED <<case, record, completion, signal, mishaps>>
  BY DEF Inv, FindTask
<1>2. Grow /\ RecordOK'
  BY <1>1, SameRecord
<1>3. Goto(w, "create") \/ Goto(w, "park")
  BY DEF FindTask
<1> QED
  BY <1>1, <1>2, <1>3, GoesOnInv

LEMMA CreateTaskInv ==
  ASSUME Inv, NEW w \in Worker, CreateTask(w)
  PROVE  Inv'
<1>1. /\ Typed /\ RecordOK /\ worker[w].pc = "create"
      /\ UNCHANGED <<case, approvals, completion, signal, mishaps>>
  BY DEF Inv, CreateTask
<1>2. PICK s \in Step, r \in Nat : s = worker[w].step /\ r = worker[w].row /\ r \in 1..Len(rows[s])
  BY <1>1, AtRow DEF Between
<1>3. CASE rows' = [rows EXCEPT ![s][r].task = "open"] /\ Goto(w, "park")
  <2> DEFINE row == [rows[s][r] EXCEPT !.task = "open"]
  <2>1. rows[s][r] \in RowType
    BY <1>1, <1>2, Lengths
  <2>2. row \in RowType /\ row.status = rows[s][r].status /\ row.noted = rows[s][r].noted
    BY <2>1 DEF RowType
  <2>3. rows' = [rows EXCEPT ![s] = [rows[s] EXCEPT ![r] = row]]
    BY <1>3
  <2>4. row.noted <= Len(approvals[s])
    BY <1>1, <1>2, <2>2 DEF RecordOK
  <2> HIDE DEF row
  <2>5. Grow /\ RecordOK'
    BY <1>1, <1>2, <2>2, <2>3, <2>4, RowWritten
  <2> QED
    BY <1>1, <1>3, <2>5, GoesOnInv
<1>4. CASE Aborted(w) /\ UNCHANGED rows
  <2>1. Grow /\ RecordOK'
    BY <1>1, <1>4, SameRecord DEF record
  <2> QED
    BY <1>1, <1>4, <2>1, Aborts, SameCase, WorkerStep
<1> QED
  BY <1>2, <1>3, <1>4 DEF CreateTask, StepOf, RowOf

LEMMA AskInv ==
  ASSUME Inv, NEW w \in Worker, Ask(w)
  PROVE  Inv'
<1>1. /\ Typed /\ RecordOK /\ worker[w].pc = "ask" /\ worker[w] \in WorkerType
      /\ UNCHANGED <<case, rows, completion, signal, mishaps>>
  BY DEF Inv, Ask, Typed
<1>2. PICK s \in Step, r \in Nat : s = worker[w].step /\ r = worker[w].row /\ r \in 1..Len(rows[s])
  BY <1>1, AtRow DEF Between
<1>3. rows[s][r].noted \in Nat /\ rows[s][r].noted <= Len(approvals[s]) /\ Len(approvals[s]) \in Nat
  BY <1>1, <1>2, Lengths DEF RecordOK, RowType
<1>4. ASSUME NEW pc \in {"park", "note"}, NEW a \in Nat, Grow, RecordOK', a <= Len(approvals'[s]),
             worker' = [worker EXCEPT ![w].approval = a, ![w].pc = pc]
      PROVE  Inv'
  <2> DEFINE new == [worker[w] EXCEPT !.approval = a, !.pc = pc]
  <2>1. worker' = [worker EXCEPT ![w] = new]
    BY <1>1, <1>4 DEF Typed
  <2>2. new \in WorkerType /\ new.pc = pc /\ new.row = r /\ new.step = s /\ new.approval = a
    <3>1. pc \in WorkerPC
      BY DEF WorkerPC
    <3> QED
      BY <1>1, <1>2, <3>1 DEF WorkerType
  <2> HIDE DEF new
  <2>3. /\ worker' \in [Worker -> WorkerType] /\ worker'[w] = new
        /\ \A v \in Worker : v # w => worker'[v] = worker[v]
    BY <1>1, <2>1, <2>2, Rewrites
  <2>4. r \in 1..Len(rows'[s])
    BY <1>1, <1>2
  <2>5. WorkerOK(w)'
    BY <1>4, <2>2, <2>3, <2>4 DEF WorkerOK, Between, IsRow
  <2> QED
    BY <1>1, <1>4, <2>3, <2>5, SameCase, WorkerStep
<1>5. CASE /\ worker' = [worker EXCEPT ![w].approval = rows[s][r].noted, ![w].pc = "park"]
           /\ UNCHANGED approvals
  <2>1. Grow /\ RecordOK'
    BY <1>1, <1>5, SameRecord DEF record
  <2> QED
    BY <1>3, <1>4, <1>5, <2>1
<1>6. CASE /\ approvals' = [approvals EXCEPT ![s] = Append(approvals[s], "pending")]
           /\ worker' = [worker EXCEPT ![w].approval = Len(approvals[s]) + 1, ![w].pc = "note"]
  <2>1. Grow /\ RecordOK' /\ Len(approvals'[s]) = Len(approvals[s]) + 1
    BY <1>1, <1>6, ApprovalAdded
  <2>2. Len(approvals[s]) + 1 \in Nat /\ Len(approvals[s]) + 1 <= Len(approvals'[s])
    BY <1>3, <2>1
  <2> QED
    BY <1>4, <1>6, <2>1, <2>2
<1> QED
  BY <1>2, <1>5, <1>6 DEF Ask, StepOf, RowOf

LEMMA NoteInv ==
  ASSUME Inv, NEW w \in Worker, Note(w)
  PROVE  Inv'
<1>1. /\ Typed /\ RecordOK /\ worker[w].pc = "note"
      /\ UNCHANGED <<case, approvals, completion, signal, mishaps>>
  BY DEF Inv, Note
<1>2. PICK s \in Step, r \in Nat : s = worker[w].step /\ r = worker[w].row /\ r \in 1..Len(rows[s])
  BY <1>1, AtRow DEF Between
<1>3. worker[w].approval \in Nat /\ worker[w].approval <= Len(approvals[s])
  BY <1>1, <1>2, AtRow DEF Between
<1>4. CASE rows' = [rows EXCEPT ![s][r].noted = worker[w].approval] /\ Goto(w, "park")
  <2> DEFINE row == [rows[s][r] EXCEPT !.noted = worker[w].approval]
  <2>1. rows[s][r] \in RowType
    BY <1>1, <1>2, Lengths
  <2>2. row \in RowType /\ row.status = rows[s][r].status /\ row.noted = worker[w].approval
    BY <1>3, <2>1 DEF RowType
  <2>3. rows' = [rows EXCEPT ![s] = [rows[s] EXCEPT ![r] = row]]
    BY <1>4
  <2> HIDE DEF row
  <2>4. Grow /\ RecordOK'
    BY <1>1, <1>2, <1>3, <2>2, <2>3, RowWritten
  <2> QED
    BY <1>1, <1>4, <2>4, GoesOnInv
<1>5. CASE Goto(w, "denied") /\ UNCHANGED rows
  <2>1. Grow /\ RecordOK'
    BY <1>1, <1>5, SameRecord DEF record
  <2> QED
    BY <1>1, <1>5, <2>1, GoesOnInv
<1> QED
  BY <1>2, <1>4, <1>5 DEF Note, StepOf, RowOf

LEMMA ParkInv ==
  ASSUME Inv, NEW w \in Worker, Park(w)
  PROVE  Inv'
<1>1. /\ Typed /\ RecordOK /\ worker[w].pc = "park" /\ Leave(w)
      /\ worker[w].pc \notin Between
      /\ UNCHANGED <<history, ended, record, completion, signal>>
  BY DEF Inv, Park, Between
<1>2. PICK s \in Step, r \in Nat : s = worker[w].step /\ r = worker[w].row /\ r \in 1..Len(rows[s])
  BY <1>1, AtRow DEF Between
<1>3. worker[w].approval \in Nat /\ worker[w].approval <= Len(approvals[s])
  BY <1>1, <1>2, AtRow DEF Between
<1> DEFINE new == [state |-> WaitsAs(s), lapsed |-> FALSE, due |-> FALSE, row |-> r,
                   approval |-> worker[w].approval]
<1>4. token' = token \/ token' = [token EXCEPT ![s] = new]
  BY <1>2 DEF Park, StepOf, RowOf
<1>5. WaitsAs(s) \in Parked
  BY DEF WaitsAs, Parked
<1>6. Len(rows[s]) \in Nat /\ r \in Nat
  BY <1>1, Lengths
<1>7. new \in TokenType /\ new.row = r /\ new.approval = worker[w].approval
  BY <1>3, <1>5, <1>6 DEF TokenType
<1> HIDE DEF new
<1>8. CASE token' = token
  <2>1. CaseTyped' /\ \A t \in Step : TokenKept(t) /\ OutcomeKept(t)
    BY <1>1, <1>8, SameCase DEF case
  <2> QED
    BY <1>1, <2>1, LeavesInv
<1>9. CASE token' = [token EXCEPT ![s] = new]
  <2>1. /\ token' \in [Step -> TokenType] /\ token'[s] = new
        /\ \A t \in Step : t # s => token'[t] = token[t]
    BY <1>1, <1>7, <1>9 DEF Typed
  <2>2. TokenOK(s)'
    BY <1>1, <1>2, <1>3, <1>6, <1>7, <2>1 DEF TokenOK, record
  <2>3. CaseTyped' /\ \A t \in Step : TokenKept(t) /\ OutcomeKept(t)
    BY <1>1, <2>1, <2>2 DEF CaseTyped, Typed, TokenKept, OutcomeKept
  <2> QED
    BY <1>1, <2>3, LeavesInv
<1> QED
  BY <1>4, <1>8, <1>9

LEMMA SkipInv ==
  ASSUME Inv, NEW w \in Worker, Skip(w) \/ Fired(w)
  PROVE  Inv'
<1>1. /\ Typed /\ RecordOK /\ WorkerOK(w) /\ worker[w].pc \in {"skip", "fired"} /\ Leave(w)
      /\ worker[w].pc \notin Between
      /\ UNCHANGED <<record, completion, signal>>
  BY DEF Inv, Skip, Fired, Between
<1>2. PICK s \in Step : s = worker[w].step
  BY <1>1, AtRow DEF Between
<1>3. Backed(s, "succeeded") /\ NextOf[s] \in 0..Last
  BY <1>1, <1>2, WaitingAssumption DEF WorkerOK
<1>4. Mutate(s, AnyState, "succeeded", NextOf[s])
  BY <1>2 DEF Skip, Fired, StepOf
<1>5. CaseTyped' /\ \A t \in Step : TokenKept(t) /\ OutcomeKept(t)
  BY <1>1, <1>3, <1>4, AdvanceKeeps
<1> QED
  BY <1>1, <1>5, LeavesInv

LEMMA TimeoutInv ==
  ASSUME Inv, NEW w \in Worker, Timeout(w)
  PROVE  Inv'
<1>1. /\ Typed /\ RecordOK /\ worker[w].pc = "timeout"
      /\ UNCHANGED <<case, approvals, completion, signal, mishaps>>
  BY DEF Inv, Timeout
<1> DEFINE status == IF OnTimeout[worker[w].step] = 0 THEN "failed" ELSE "skipped"
<1>2. status \in {"failed", "skipped"} /\ (OnTimeout[worker[w].step] # 0 => status = "skipped")
  OBVIOUS
<1>3. \/ /\ OpenRow(worker[w].step, worker[w].row)
         /\ CloseRow(worker[w].step, worker[w].row, status) /\ Goto(w, "timed_out")
      \/ Goto(w, "denied") /\ UNCHANGED rows
  BY DEF Timeout, StepOf, RowOf
<1> HIDE DEF status
<1>4. CASE /\ OpenRow(worker[w].step, worker[w].row)
           /\ CloseRow(worker[w].step, worker[w].row, status) /\ Goto(w, "timed_out")
  BY <1>1, <1>2, <1>4, WaitEnds
<1>5. CASE Goto(w, "denied") /\ UNCHANGED rows
  <2>1. Grow /\ RecordOK'
    BY <1>1, <1>5, SameRecord DEF record
  <2> QED
    BY <1>1, <1>5, <2>1, GoesOnInv
<1> QED
  BY <1>3, <1>4, <1>5

LEMMA FireInv ==
  ASSUME Inv, NEW w \in Worker, Fire(w)
  PROVE  Inv'
<1>1. /\ Typed /\ RecordOK /\ worker[w].pc = "fire"
      /\ UNCHANGED <<case, approvals, completion, signal, mishaps>>
  BY DEF Inv, Fire
<1>2. \/ /\ OpenRow(worker[w].step, worker[w].row)
         /\ CloseRow(worker[w].step, worker[w].row, "succeeded") /\ Goto(w, "fired")
      \/ Goto(w, "denied") /\ UNCHANGED rows
  BY DEF Fire, StepOf, RowOf
<1>3. CASE /\ OpenRow(worker[w].step, worker[w].row)
           /\ CloseRow(worker[w].step, worker[w].row, "succeeded") /\ Goto(w, "fired")
  BY <1>1, <1>3, WaitEnds
<1>4. CASE Goto(w, "denied") /\ UNCHANGED rows
  <2>1. Grow /\ RecordOK'
    BY <1>1, <1>4, SameRecord DEF record
  <2> QED
    BY <1>1, <1>4, <2>1, GoesOnInv
<1> QED
  BY <1>2, <1>3, <1>4

LEMMA TimedOutInv ==
  ASSUME Inv, NEW w \in Worker, TimedOut(w)
  PROVE  Inv'
<1>1. /\ Typed /\ RecordOK /\ WorkerOK(w) /\ worker[w].pc = "timed_out" /\ Leave(w)
      /\ worker[w].pc \notin Between
      /\ UNCHANGED <<record, completion, signal>>
  BY DEF Inv, TimedOut, Between
<1>2. PICK s \in Step : s = worker[w].step
  BY <1>1, AtRow DEF Between
<1>3. CASE SettleAt(s, "failed")
  BY <1>1, <1>3, SettleKeeps, LeavesInv
<1>4. CASE OnTimeout[s] # 0 /\ Mutate(s, AnyState, "skipped", OnTimeout[s])
  <2>1. Backed(s, "skipped") /\ OnTimeout[s] \in 0..Last
    BY <1>1, <1>2, <1>4, WaitingAssumption DEF WorkerOK
  <2>2. CaseTyped' /\ \A t \in Step : TokenKept(t) /\ OutcomeKept(t)
    BY <1>1, <1>4, <2>1, AdvanceKeeps
  <2> QED
    BY <1>1, <2>2, LeavesInv
<1> QED
  BY <1>2, <1>3, <1>4 DEF TimedOut, StepOf

LEMMA DenyInv ==
  ASSUME Inv, NEW w \in Worker, Deny(w)
  PROVE  Inv'
<1>1. /\ Typed /\ worker[w].pc = "denied" /\ Leave(w)
      /\ worker[w].pc \notin Between
      /\ UNCHANGED <<record, completion, signal>>
  BY DEF Inv, Deny, Between, Leave
<1>2. PICK s \in Step : s = worker[w].step
  BY <1>1, AtRow DEF Between
<1>3. SettleAt(s, "denied")
  BY <1>2 DEF Deny, StepOf
<1> QED
  BY <1>1, <1>3, SettleKeeps, LeavesInv

-----------------------------------------------------------------------------
\* A step of a person's call, put together.
LEMMA PersonStep ==
  ASSUME Inv, NEW c \in Completion, NEW new \in CompletionType,
         completion' = [completion EXCEPT ![c] = new], UNCHANGED <<worker, signal, mishaps>>,
         CaseTyped', Grow, RecordOK', \A s \in Step : TokenKept(s) /\ OutcomeKept(s),
         new.pc = "row" \/ Closed(c)' =>
           new.step \in Step /\ new.row \in 1..Len(rows'[new.step]),
         Closed(c)' => rows'[new.step][new.row].status = "succeeded",
         Closed(c)' /\ ~(/\ Closed(c) /\ new.step = completion[c].step
                         /\ new.row = completion[c].row) =>
           \A d \in Completion \ {c} :
             Closed(d) => ~(completion[d].step = new.step /\ completion[d].row = new.row)
  PROVE  Inv'
<1>1. /\ completion' \in [Completion -> CompletionType] /\ completion'[c] = new
      /\ \A d \in Completion : d # c => completion'[d] = completion[d]
  BY DEF Inv, Typed
<1>2. Typed'
  BY <1>1 DEF Inv, Typed, CaseTyped, RecordOK
<1>3. CompletionOK(c)'
  BY <1>1 DEF CompletionOK, IsRow, Closed
<1>4. ASSUME NEW d \in Completion, d # c
      PROVE  Closed(d)' = Closed(d) /\ completion'[d] = completion[d]
  BY <1>1, <1>4 DEF Closed
<1>5. Alone'
  <2>1. CASE Closed(c)' => /\ Closed(c) /\ new.step = completion[c].step
                           /\ new.row = completion[c].row
    BY <1>1, <1>4, <2>1, AloneStays DEF Inv
  <2>2. CASE Closed(c)' /\ ~(/\ Closed(c) /\ new.step = completion[c].step
                             /\ new.row = completion[c].row)
    <3>1. ASSUME NEW d \in Completion \ {c}, Closed(d)'
          PROVE  ~(completion'[d].step = new.step /\ completion'[d].row = new.row)
      BY <1>4, <2>2, <3>1
    <3>2. ASSUME NEW d \in Completion, NEW e \in Completion, Closed(d)', Closed(e)',
                 completion'[d].step = completion'[e].step,
                 completion'[d].row = completion'[e].row
          PROVE  d = e
      <4>1. CASE d = c \/ e = c
        BY <1>1, <3>1, <3>2, <4>1
      <4>2. CASE d # c /\ e # c
        BY <1>4, <3>2, <4>2 DEF Inv, Alone
      <4> QED
        BY <4>1, <4>2
    <3> QED
      BY <3>2 DEF Alone
  <2> QED
    BY <2>1, <2>2
<1> QED
  BY <1>1, <1>2, <1>3, <1>5, Preserved

\* A call rewrites its place in the code only.
LEMMA PersonMoves ==
  ASSUME Inv, NEW c \in Completion,
         NEW pc \in {"row", "task", "advance", "refused", "completed", "lost"},
         completion' = [completion EXCEPT ![c].pc = pc]
  PROVE  \E new \in CompletionType :
           /\ completion' = [completion EXCEPT ![c] = new] /\ new.pc = pc
           /\ new.step = completion[c].step /\ new.row = completion[c].row
<1> DEFINE new == [completion[c] EXCEPT !.pc = pc]
<1>1. completion[c] \in CompletionType /\ completion \in [Completion -> CompletionType]
  BY DEF Inv, Typed
<1>2. /\ new \in CompletionType /\ new.pc = pc
      /\ new.step = completion[c].step /\ new.row = completion[c].row
  BY <1>1 DEF CompletionType
<1>3. completion' = [completion EXCEPT ![c] = new]
  OBVIOUS
<1> HIDE DEF new
<1> QED
  BY <1>2, <1>3

LEMMA CompleteInv ==
  ASSUME Inv, NEW c \in Completion, NEW s \in Step, NEW r \in DOMAIN rows[s], Complete(c, s, r)
  PROVE  Inv'
<1>1. Typed /\ RecordOK /\ UNCHANGED <<case, record, worker, signal, mishaps>>
  BY DEF Inv, Complete
<1> DEFINE new == [pc |-> "row", step |-> s, row |-> r]
<1>2. r \in 1..Len(rows[s]) /\ Len(rows[s]) \in Nat
  BY <1>1, Lengths
<1>3. new \in CompletionType /\ new.pc = "row" /\ new.step = s /\ new.row = r
  <2>1. s \in 0..Last /\ r \in Nat
    BY <1>2, WaitingAssumption DEF Step
  <2> QED
    BY <2>1 DEF CompletionType
<1>4. completion' = [completion EXCEPT ![c] = new]
  BY DEF Complete
<1> HIDE DEF new
<1>5. ~Closed(c)'
  BY <1>1, <1>3, <1>4 DEF Closed, Typed
<1>6. CaseTyped' /\ (\A t \in Step : TokenKept(t) /\ OutcomeKept(t)) /\ Grow /\ RecordOK'
  BY <1>1, SameCase, SameRecord
<1>7. r \in 1..Len(rows'[s])
  BY <1>1, <1>2 DEF record
<1> QED
  BY <1>1, <1>3, <1>4, <1>5, <1>6, <1>7, PersonStep

LEMMA CompleteRowInv ==
  ASSUME Inv, NEW c \in Completion, CompleteRow(c)
  PROVE  Inv'
<1>1. /\ Typed /\ RecordOK /\ CompletionOK(c) /\ completion[c].pc = "row"
      /\ UNCHANGED <<case, approvals, worker, signal, mishaps>>
  BY DEF Inv, CompleteRow
<1>2. PICK s \in Step, r \in Nat :
        s = completion[c].step /\ r = completion[c].row /\ r \in 1..Len(rows[s])
  BY <1>1 DEF CompletionOK, IsRow
<1>3. CaseTyped' /\ \A t \in Step : TokenKept(t) /\ OutcomeKept(t)
  BY <1>1, SameCase
<1>4. CASE /\ OpenRow(s, r) /\ CloseRow(s, r, "succeeded")
           /\ completion' = [completion EXCEPT ![c].pc = "task"]
  <2>1. PICK new \in CompletionType :
          /\ completion' = [completion EXCEPT ![c] = new] /\ new.pc = "task"
          /\ new.step = s /\ new.row = r
    BY <1>2, <1>4, PersonMoves
  <2>2. Grow /\ RecordOK' /\ r \in 1..Len(rows'[s]) /\ rows'[s][r].status = "succeeded"
    BY <1>1, <1>2, <1>4, Closes DEF IsRow
  <2>3. ASSUME NEW d \in Completion \ {c}, Closed(d)
        PROVE  ~(completion[d].step = s /\ completion[d].row = r)
    <3>1. rows[completion[d].step][completion[d].row].status = "succeeded"
      BY <2>3 DEF Inv, CompletionOK
    <3> QED
      BY <1>4, <3>1 DEF OpenRow
  <2> QED
    BY <1>1, <1>3, <2>1, <2>2, <2>3, PersonStep
<1>5. CASE completion' = [completion EXCEPT ![c].pc = "refused"] /\ UNCHANGED rows
  <2>1. PICK new \in CompletionType :
          /\ completion' = [completion EXCEPT ![c] = new] /\ new.pc = "refused"
    BY <1>5, PersonMoves
  <2>3. ~Closed(c)'
    BY <1>1, <2>1 DEF Closed, Typed
  <2>2. Grow /\ RecordOK'
    BY <1>1, <1>5, SameRecord DEF record
  <2> QED
    BY <1>1, <1>3, <2>1, <2>2, <2>3, PersonStep
<1> QED
  BY <1>2, <1>4, <1>5 DEF CompleteRow

LEMMA CompleteTaskInv ==
  ASSUME Inv, NEW c \in Completion, CompleteTask(c)
  PROVE  Inv'
<1>1. /\ Typed /\ RecordOK /\ CompletionOK(c) /\ completion[c].pc = "task" /\ Closed(c)
      /\ UNCHANGED <<case, approvals, worker, signal, mishaps>>
      /\ completion' = [completion EXCEPT ![c].pc = "advance"]
  BY DEF Inv, CompleteTask, Closed
<1>2. PICK s \in Step, r \in Nat :
        s = completion[c].step /\ r = completion[c].row /\ r \in 1..Len(rows[s])
  BY <1>1 DEF CompletionOK, IsRow
<1> DEFINE row == [rows[s][r] EXCEPT !.task = "completed"]
<1>3. rows[s][r] \in RowType /\ rows[s][r].status = "succeeded"
  BY <1>1, <1>2, Lengths DEF CompletionOK
<1>4. row \in RowType /\ row.status = rows[s][r].status /\ row.noted = rows[s][r].noted
  BY <1>3 DEF RowType
<1>5. rows' = [rows EXCEPT ![s] = [rows[s] EXCEPT ![r] = row]]
  BY <1>2 DEF CompleteTask
<1>6. row.noted <= Len(approvals[s])
  BY <1>1, <1>2, <1>4 DEF RecordOK
<1> HIDE DEF row
<1>7. Grow /\ RecordOK' /\ r \in 1..Len(rows'[s]) /\ rows'[s][r].status = "succeeded"
  <2>1. Grow /\ RecordOK' /\ IsRow(s, r)' /\ rows'[s][r] = row
    BY <1>1, <1>2, <1>4, <1>5, <1>6, RowWritten
  <2> QED
    BY <1>3, <1>4, <2>1 DEF IsRow
<1>8. PICK new \in CompletionType :
        /\ completion' = [completion EXCEPT ![c] = new] /\ new.pc = "advance"
        /\ new.step = s /\ new.row = r
  BY <1>1, <1>2, PersonMoves
<1>9. new.step = completion[c].step /\ new.row = completion[c].row
  BY <1>2, <1>8
<1>10. CaseTyped' /\ \A t \in Step : TokenKept(t) /\ OutcomeKept(t)
  BY <1>1, SameCase
<1>11. new.step \in Step /\ new.row \in 1..Len(rows'[new.step])
       /\ rows'[new.step][new.row].status = "succeeded"
  BY <1>7, <1>8
<1> QED
  BY <1>1, <1>7, <1>8, <1>9, <1>10, <1>11, PersonStep

LEMMA CompleteAdvanceInv ==
  ASSUME Inv, NEW c \in Completion, CompleteAdvance(c)
  PROVE  Inv'
<1>1. /\ Typed /\ RecordOK /\ CompletionOK(c) /\ completion[c].pc = "advance" /\ Closed(c)
      /\ UNCHANGED <<record, worker, signal, mishaps>>
      /\ completion' = [completion EXCEPT ![c].pc = "completed"]
  BY DEF Inv, CompleteAdvance, Closed
<1>2. PICK s \in Step, r \in Nat :
        s = completion[c].step /\ r = completion[c].row /\ r \in 1..Len(rows[s])
  BY <1>1 DEF CompletionOK, IsRow
<1>3. rows[s][r].status = "succeeded" /\ NextOf[s] \in 0..Last
  BY <1>1, <1>2, WaitingAssumption DEF CompletionOK
<1>4. Backed(s, "succeeded")
  BY <1>2, <1>3 DEF Backed
<1>5. Mutate(s, {"waiting_human"}, "succeeded", NextOf[s])
  BY <1>2 DEF CompleteAdvance
<1>6. CaseTyped' /\ \A t \in Step : TokenKept(t) /\ OutcomeKept(t)
  BY <1>1, <1>3, <1>4, <1>5, AdvanceKeeps
<1>7. Grow /\ RecordOK' /\ rows' = rows
  BY <1>1, SameRecord DEF record
<1>8. PICK new \in CompletionType :
        /\ completion' = [completion EXCEPT ![c] = new] /\ new.pc = "completed"
        /\ new.step = s /\ new.row = r
  BY <1>1, <1>2, PersonMoves
<1>9. new.step = completion[c].step /\ new.row = completion[c].row
  BY <1>2, <1>8
<1>10. new.step \in Step /\ new.row \in 1..Len(rows'[new.step])
       /\ rows'[new.step][new.row].status = "succeeded"
  BY <1>2, <1>3, <1>7, <1>8
<1> QED
  BY <1>1, <1>6, <1>7, <1>8, <1>9, <1>10, PersonStep

-----------------------------------------------------------------------------
\* A step of a signal's call, put together.
LEMMA SignalStep ==
  ASSUME Inv, NEW g \in Signal, NEW new \in SignalType,
         signal' = [signal EXCEPT ![g] = new], UNCHANGED <<worker, completion, mishaps>>,
         CaseTyped', Grow, RecordOK', \A s \in Step : TokenKept(s) /\ OutcomeKept(s),
         new.pc \in {"row", "advance"} =>
           new.step \in Step /\ new.row \in 1..Len(rows'[new.step]),
         new.pc = "advance" => rows'[new.step][new.row].status = "succeeded"
  PROVE  Inv'
<1>1. /\ signal' \in [Signal -> SignalType] /\ signal'[g] = new
      /\ \A h \in Signal : h # g => signal'[h] = signal[h]
  BY DEF Inv, Typed
<1>2. Typed'
  BY <1>1 DEF Inv, Typed, CaseTyped, RecordOK
<1>3. SignalOK(g)'
  BY <1>1 DEF SignalOK, IsRow
<1>4. Alone'
  BY AloneStays DEF Inv, Closed
<1> QED
  BY <1>1, <1>2, <1>3, <1>4, Preserved

LEMMA SignalMoves ==
  ASSUME Inv, NEW g \in Signal, NEW pc \in {"row", "advance", "refused", "accepted", "lost"},
         signal' = [signal EXCEPT ![g].pc = pc]
  PROVE  \E new \in SignalType :
           /\ signal' = [signal EXCEPT ![g] = new] /\ new.pc = pc
           /\ new.step = signal[g].step /\ new.row = signal[g].row
<1> DEFINE new == [signal[g] EXCEPT !.pc = pc]
<1>1. signal[g] \in SignalType
  BY DEF Inv, Typed
<1>2. /\ new \in SignalType /\ new.pc = pc
      /\ new.step = signal[g].step /\ new.row = signal[g].row
  BY <1>1 DEF SignalType
<1>3. signal' = [signal EXCEPT ![g] = new]
  OBVIOUS
<1> HIDE DEF new
<1> QED
  BY <1>2, <1>3

LEMMA DeliverInv ==
  ASSUME Inv, NEW g \in Signal, NEW s \in Step, Deliver(g, s)
  PROVE  Inv'
<1>1. /\ Typed /\ RecordOK /\ UNCHANGED <<case, record, worker, completion, mishaps>>
      /\ token[s].state \in Parked
  BY DEF Inv, Deliver, Parked
<1> DEFINE new == [pc |-> "row", step |-> s, row |-> token[s].row]
<1>2. token[s].row \in 1..Len(rows[s]) /\ Len(rows[s]) \in Nat
  BY <1>1, ParkedRow, Lengths
<1>3. new \in SignalType /\ new.pc = "row" /\ new.step = s /\ new.row = token[s].row
  <2>1. s \in 0..Last /\ token[s].row \in Nat
    BY <1>2, WaitingAssumption DEF Step
  <2> QED
    BY <2>1 DEF SignalType
<1>4. signal' = [signal EXCEPT ![g] = new]
  BY DEF Deliver
<1> HIDE DEF new
<1>5. CaseTyped' /\ (\A t \in Step : TokenKept(t) /\ OutcomeKept(t)) /\ Grow /\ RecordOK'
  BY <1>1, SameCase, SameRecord
<1>6. token[s].row \in 1..Len(rows'[s])
  BY <1>1, <1>2 DEF record
<1> QED
  BY <1>1, <1>3, <1>4, <1>5, <1>6, SignalStep

LEMMA SignalRowInv ==
  ASSUME Inv, NEW g \in Signal, SignalRow(g)
  PROVE  Inv'
<1>1. /\ Typed /\ RecordOK /\ SignalOK(g) /\ signal[g].pc = "row"
      /\ UNCHANGED <<case, approvals, worker, completion, mishaps>>
  BY DEF Inv, SignalRow
<1>2. PICK s \in Step, r \in Nat : s = signal[g].step /\ r = signal[g].row /\ r \in 1..Len(rows[s])
  BY <1>1 DEF SignalOK, IsRow
<1>3. CaseTyped' /\ \A t \in Step : TokenKept(t) /\ OutcomeKept(t)
  BY <1>1, SameCase
<1>4. CASE /\ OpenRow(s, r) /\ CloseRow(s, r, "succeeded")
           /\ signal' = [signal EXCEPT ![g].pc = "advance"]
  <2>1. PICK new \in SignalType :
          /\ signal' = [signal EXCEPT ![g] = new] /\ new.pc = "advance"
          /\ new.step = s /\ new.row = r
    BY <1>2, <1>4, SignalMoves
  <2>2. Grow /\ RecordOK' /\ r \in 1..Len(rows'[s]) /\ rows'[s][r].status = "succeeded"
    BY <1>1, <1>2, <1>4, Closes DEF IsRow
  <2> QED
    BY <1>1, <1>3, <2>1, <2>2, SignalStep
<1>5. CASE signal' = [signal EXCEPT ![g].pc = "refused"] /\ UNCHANGED rows
  <2>1. PICK new \in SignalType :
          signal' = [signal EXCEPT ![g] = new] /\ new.pc = "refused"
    BY <1>5, SignalMoves
  <2>2. Grow /\ RecordOK'
    BY <1>1, <1>5, SameRecord DEF record
  <2> QED
    BY <1>1, <1>3, <2>1, <2>2, SignalStep
<1> QED
  BY <1>2, <1>4, <1>5 DEF SignalRow

LEMMA SignalAdvanceInv ==
  ASSUME Inv, NEW g \in Signal, SignalAdvance(g)
  PROVE  Inv'
<1>1. /\ Typed /\ RecordOK /\ SignalOK(g) /\ signal[g].pc = "advance"
      /\ UNCHANGED <<record, worker, completion, mishaps>>
      /\ signal' = [signal EXCEPT ![g].pc = "accepted"]
  BY DEF Inv, SignalAdvance
<1>2. PICK s \in Step, r \in Nat : s = signal[g].step /\ r = signal[g].row /\ r \in 1..Len(rows[s])
  BY <1>1 DEF SignalOK, IsRow
<1>3. Backed(s, "succeeded") /\ NextOf[s] \in 0..Last
  BY <1>1, <1>2, WaitingAssumption DEF SignalOK, Backed
<1>4. Mutate(s, {"waiting_event"}, "succeeded", NextOf[s])
  BY <1>2 DEF SignalAdvance
<1>5. CaseTyped' /\ \A t \in Step : TokenKept(t) /\ OutcomeKept(t)
  BY <1>1, <1>3, <1>4, AdvanceKeeps
<1>6. Grow /\ RecordOK'
  BY <1>1, SameRecord
<1>7. PICK new \in SignalType : signal' = [signal EXCEPT ![g] = new] /\ new.pc = "accepted"
  BY <1>1, SignalMoves
<1> QED
  BY <1>1, <1>5, <1>6, <1>7, SignalStep

-----------------------------------------------------------------------------
\* Nobody's call moves.
LEMMA OutsideStep ==
  ASSUME Inv, UNCHANGED calls, mishaps' \in 0..MaxMishaps,
         CaseTyped', Grow, RecordOK', \A s \in Step : TokenKept(s) /\ OutcomeKept(s)
  PROVE  Inv'
<1>1. worker' = worker /\ completion' = completion /\ signal' = signal
  BY DEF calls
<1>2. Typed'
  BY <1>1 DEF Inv, Typed, CaseTyped, RecordOK
<1>3. Alone'
  BY <1>1 DEF Inv, Alone, Closed
<1> QED
  BY <1>1, <1>2, <1>3, Preserved

LEMMA CancelInv ==
  ASSUME Inv, Cancel
  PROVE  Inv'
<1>1. /\ Typed /\ RecordOK /\ UNCHANGED <<history, record, calls, mishaps>>
      /\ mishaps \in 0..MaxMishaps
  BY DEF Inv, Cancel, Typed
<1>2. Gone \in TokenType
  BY DEF TokenType, Gone, Parked
<1>3. token' = [s \in Step |-> Gone] /\ ended' = "cancelled"
  BY DEF Cancel, Settle
<1>4. CaseTyped' /\ \A s \in Step : TokenKept(s) /\ OutcomeKept(s)
  BY <1>1, <1>2, <1>3 DEF Typed, CaseTyped, TokenKept, OutcomeKept
<1> QED
  BY <1>1, <1>4, SameRecord, OutsideStep

LEMMA DecideInv ==
  ASSUME Inv, NEW s \in Step, NEW a \in DOMAIN approvals[s],
         NEW decision \in {"granted", "rejected", "expired"}, Decide(s, a, decision)
  PROVE  Inv'
<1>1. /\ Typed /\ RecordOK /\ UNCHANGED <<case, rows, calls, mishaps>>
      /\ approvals' = [approvals EXCEPT ![s] = [approvals[s] EXCEPT ![a] = decision]]
      /\ mishaps \in 0..MaxMishaps
  BY DEF Inv, Decide, Typed
<1>2. a \in 1..Len(approvals[s]) /\ decision \in Decision
  BY <1>1, Lengths DEF Decision
<1>3. Grow /\ RecordOK'
  BY <1>1, <1>2, ApprovalWritten
<1> QED
  BY <1>1, <1>3, SameCase, OutsideStep

\* A token is marked, where it is.
LEMMA Marks ==
  ASSUME Inv, NEW s \in Step, NEW new \in TokenType, token' = [token EXCEPT ![s] = new],
         new.state = token[s].state, new.row = token[s].row, new.approval = token[s].approval,
         UNCHANGED <<history, ended, record, calls>>, mishaps' \in 0..MaxMishaps
  PROVE  Inv'
<1>1. Typed /\ RecordOK
  BY DEF Inv
<1>2. /\ token' \in [Step -> TokenType] /\ token'[s] = new
      /\ \A t \in Step : t # s => token'[t] = token[t]
  BY <1>1 DEF Typed
<1>3. CaseTyped' /\ \A t \in Step : TokenKept(t) /\ OutcomeKept(t)
  BY <1>1, <1>2 DEF Typed, CaseTyped, TokenKept, OutcomeKept
<1> QED
  BY <1>1, <1>3, SameRecord, OutsideStep

LEMMA WakeUpInv ==
  ASSUME Inv, NEW s \in Step, WakeUp(s)
  PROVE  Inv'
<1> DEFINE new == [token[s] EXCEPT !.due = TRUE]
<1>1. token \in [Step -> TokenType] /\ token[s] \in TokenType /\ mishaps \in 0..MaxMishaps
  BY DEF Inv, Typed
<1>2. /\ new \in TokenType /\ new.state = token[s].state /\ new.row = token[s].row
      /\ new.approval = token[s].approval
  BY <1>1 DEF TokenType
<1>3. /\ token' = [token EXCEPT ![s] = new]
      /\ UNCHANGED <<history, ended, record, calls, mishaps>>
  BY DEF WakeUp
<1> HIDE DEF new
<1> QED
  BY <1>1, <1>2, <1>3, Marks

LEMMA LapseInv ==
  ASSUME Inv, NEW s \in Step, Lapse(s)
  PROVE  Inv'
<1> DEFINE new == [token[s] EXCEPT !.lapsed = TRUE]
<1>1. token \in [Step -> TokenType] /\ token[s] \in TokenType /\ mishaps \in 0..MaxMishaps
  BY DEF Inv, Typed
<1>2. /\ new \in TokenType /\ new.state = token[s].state /\ new.row = token[s].row
      /\ new.approval = token[s].approval
  BY <1>1 DEF TokenType
<1>3. /\ token' = [token EXCEPT ![s] = new]
      /\ UNCHANGED <<history, ended, record, calls>>
  BY DEF Lapse
<1>4. mishaps' \in 0..MaxMishaps
  BY <1>1, MishapType DEF Lapse
<1> HIDE DEF new
<1> QED
  BY <1>1, <1>2, <1>3, <1>4, Marks

LEMMA CrashInv ==
  ASSUME Inv, Crash
  PROVE  Inv'
<1>1. Typed /\ RecordOK /\ UNCHANGED <<case, record>> /\ mishaps' \in 0..MaxMishaps
  BY MishapType DEF Inv, Crash
<1>2. CaseTyped' /\ (\A s \in Step : TokenKept(s) /\ OutcomeKept(s)) /\ Grow /\ RecordOK'
  BY <1>1, SameCase, SameRecord
<1>3. ASSUME worker' \in [Worker -> WorkerType], completion' \in [Completion -> CompletionType],
             signal' \in [Signal -> SignalType],
             \A w \in Worker : worker'[w] = worker[w] \/ WorkerOK(w)',
             \A c \in Completion : completion'[c] = completion[c] \/ completion'[c].pc = "lost",
             \A g \in Signal : signal'[g] = signal[g] \/ signal'[g].pc = "lost"
      PROVE  Inv'
  <2>1. Typed'
    BY <1>1, <1>2, <1>3 DEF Typed, CaseTyped, RecordOK
  <2>2. \A c \in Completion : completion'[c] = completion[c] \/ CompletionOK(c)'
    BY <1>3 DEF CompletionOK, Closed
  <2>3. \A g \in Signal : signal'[g] = signal[g] \/ SignalOK(g)'
    BY <1>3 DEF SignalOK
  <2>4. Alone'
    BY <1>3, AloneStays DEF Inv, Closed
  <2> QED
    BY <1>2, <1>3, <2>1, <2>2, <2>3, <2>4, Preserved
<1>4. ASSUME NEW w \in Worker, Aborted(w), UNCHANGED <<completion, signal>>
      PROVE  Inv'
  <2>1. /\ worker' \in [Worker -> WorkerType] /\ WorkerOK(w)'
        /\ \A v \in Worker : v # w => worker'[v] = worker[v]
    BY <1>1, <1>4, Aborts
  <2> QED
    BY <1>1, <1>3, <1>4, <2>1 DEF Typed
<1>5. ASSUME NEW c \in Completion, completion' = [completion EXCEPT ![c].pc = "lost"],
             UNCHANGED <<worker, signal>>
      PROVE  Inv'
  <2>1. PICK new \in CompletionType :
          completion' = [completion EXCEPT ![c] = new] /\ new.pc = "lost"
    BY <1>5, PersonMoves
  <2> QED
    BY <1>1, <1>3, <1>5, <2>1 DEF Typed
<1>6. ASSUME NEW g \in Signal, signal' = [signal EXCEPT ![g].pc = "lost"],
             UNCHANGED <<worker, completion>>
      PROVE  Inv'
  <2>1. PICK new \in SignalType : signal' = [signal EXCEPT ![g] = new] /\ new.pc = "lost"
    BY <1>6, SignalMoves
  <2> QED
    BY <1>1, <1>3, <1>6, <2>1 DEF Typed
<1> QED
  BY <1>4, <1>5, <1>6 DEF Crash

LEMMA InvNext == Inv /\ [Next]_vars => Inv'
<1> SUFFICES ASSUME Inv, [Next]_vars PROVE Inv'
  OBVIOUS
<1>1. ASSUME NEW w \in Worker, Work(w) PROVE Inv'
  BY <1>1, TickStartInv, RefreshInv, RefreshAdvanceInv, ClaimInv, RunStepInv, AppendRowInv,
     FindTaskInv, CreateTaskInv, AskInv, NoteInv, ParkInv, SkipInv, TimeoutInv, TimedOutInv,
     FireInv, DenyInv DEF Work
<1>2. ASSUME NEW c \in Completion,
             \/ \E s \in Step : \E r \in DOMAIN rows[s] : Complete(c, s, r)
             \/ CompleteRow(c) \/ CompleteTask(c) \/ CompleteAdvance(c)
      PROVE  Inv'
  BY <1>2, CompleteInv, CompleteRowInv, CompleteTaskInv, CompleteAdvanceInv
<1>3. ASSUME NEW g \in Signal, (\E s \in Step : Deliver(g, s)) \/ SignalRow(g) \/ SignalAdvance(g)
      PROVE  Inv'
  BY <1>3, DeliverInv, SignalRowInv, SignalAdvanceInv
<1>4. CASE \E s \in Step : WakeUp(s) \/ Lapse(s)
  BY <1>4, WakeUpInv, LapseInv
<1>5. CASE UNCHANGED vars
  <2>1. Typed /\ RecordOK /\ UNCHANGED <<case, record, calls, mishaps>> /\ mishaps \in 0..MaxMishaps
    BY <1>5 DEF Inv, Typed, vars
  <2> QED
    BY <2>1, SameCase, SameRecord, OutsideStep
<1> QED
  BY <1>1, <1>2, <1>3, <1>4, <1>5, CancelInv, DecideInv, CrashInv,
     StoreFailsInv DEF Next

LEMMA Invariant == Spec => []Inv
BY InvInit, InvNext, PTL DEF Spec

-----------------------------------------------------------------------------
\* Every reachable state of the waiting steps is of its type, whatever the
\* definition, and every row or approval a token names exists.
THEOREM TypeCorrect == Spec => []TypeOK
<1>1. Inv => TypeOK
  <2> SUFFICES ASSUME Inv PROVE TypeOK
    OBVIOUS
  <2>1. Typed
    BY DEF Inv
  <2>2. \A s \in Step : token[s].row <= Len(rows[s]) /\ token[s].approval <= Len(approvals[s])
    BY DEF Inv, TokenOK
  <2>3. \A s \in Step : \A r \in DOMAIN rows[s] : rows[s][r] \in RowType
    BY <2>1, Lengths
  <2>4. \A s \in Step : \A a \in DOMAIN approvals[s] : approvals[s][a] \in Decision
    BY <2>1 DEF Typed
  <2> QED
    BY <2>1, <2>2, <2>3, <2>4
       DEF TypeOK, Typed, TokenType, RowType, Decision, WorkerType, WorkerPC, CompletionType,
           SignalType
<1> QED
  BY <1>1, Invariant, PTL

\* However many people complete a task, and whatever the sweep, the timeouts and
\* the crashes do meanwhile, one of them is told that it is theirs.
THEOREM CompletedOnce == Spec => []OneCompletionPerTask
<1>1. Inv => OneCompletionPerTask
  BY DEF Inv, Alone, Closed, OneCompletionPerTask
<1> QED
  BY <1>1, Invariant, PTL

\* What the instance says of a step, a row of the operating record says too.
THEOREM RecordBacks == Spec => []RecordBacksHistory
<1>1. Inv => RecordBacksHistory
  <2> SUFFICES ASSUME Inv, NEW s \in Step
               PROVE  /\ history[s] = "succeeded" =>
                           \E r \in DOMAIN rows[s] : rows[s][r].status = "succeeded"
                      /\ history[s] = "skipped" =>
                           \E r \in DOMAIN rows[s] : rows[s][r].status = "skipped"
    BY DEF RecordBacksHistory
  <2>1. HistoryOK(s) /\ DOMAIN rows[s] = 1..Len(rows[s])
    BY Lengths DEF Inv
  <2> QED
    BY <2>1 DEF HistoryOK, Backed
<1> QED
  BY <1>1, Invariant, PTL

-----------------------------------------------------------------------------
\* How a step of the system may change the case: not at all, as far as which
\* steps have a token goes; by the token of one step moving on; or by its end.
Stays ==
  /\ UNCHANGED <<history, ended>>
  /\ \A s \in Step : token'[s] = Gone <=> token[s] = Gone
MovesOn(s) ==
  /\ token[s] # Gone
  /\ \E outcome \in {"succeeded", "skipped"}, next \in Leads(s) \cup {0} :
       AdvanceTo(s, outcome, next)
Ends ==
  /\ ended = "no"
  /\ \A s \in Step : token'[s] = Gone
  /\ history' = history \/ ended' \in {"denied", "failed"}
CaseStep == Stays \/ (\E s \in Step : MovesOn(s)) \/ Ends

\* Two tokens have nothing before them in common, and no token has before it a
\* step the case has an outcome of.
Single ==
  /\ \A s, t \in Step : token[s] # Gone /\ token[t] # Gone /\ s # t => Ahead[s] \cap Ahead[t] = {}
  /\ \A s, t \in Step : history[s] # "none" /\ token[t] # Gone => s \notin Ahead[t]

\* What lies ahead of a step's successor lies ahead of the step, the step itself not.
LEMMA AheadOfLead ==
  ASSUME NEW s \in Step, NEW t \in Leads(s)
  PROVE  /\ t \in Step /\ t \in Ahead[t] /\ s \in Ahead[s]
         /\ Ahead[t] \subseteq Ahead[s] /\ s \notin Ahead[t]
<1>1. t \in Step
  BY WaitingAssumption DEF Leads, Step
<1>2. ASSUME NEW u \in Ahead[t] PROVE u \in Ahead[s]
  <2>1. u \in Step
    BY <1>1, <1>2 DEF Ahead
  <2>2. ASSUME NEW S \in SUBSET Step, s \in S, \A r \in S : Leads(r) \subseteq S PROVE u \in S
    <3>1. t \in S
      BY <2>2
    <3> QED
      BY <1>1, <1>2, <2>2, <3>1 DEF Ahead
  <2> QED
    BY <2>1, <2>2 DEF Ahead
<1>3. t \in Ahead[t] /\ s \in Ahead[s]
  BY <1>1 DEF Ahead
<1> QED
  BY <1>1, <1>2, <1>3, DefinitionAssumption

LEMMA AheadOfSelf == ASSUME NEW s \in Step PROVE s \in Ahead[s]
BY DEF Ahead

LEMMA SingleInit ==
  ASSUME PathsApart, Init
  PROVE  Single
<1>1. \A s \in Step : history[s] = "none" /\ (token[s] # Gone => s \in Start)
  BY DEF Init
<1> QED
  BY <1>1 DEF PathsApart, Single

\* A caller's advance moves its step's token on, if it is still there to move.
LEMMA MutateMoves ==
  ASSUME NEW s \in Step, NEW states, "none" \notin states,
         NEW outcome \in {"succeeded", "skipped"}, NEW next \in Leads(s) \cup {0},
         Mutate(s, states, outcome, next)
  PROVE  CaseStep
<1>1. CASE UNCHANGED case
  BY <1>1 DEF case, CaseStep, Stays
<1>2. CASE token[s].state \in states /\ AdvanceTo(s, outcome, next)
  <2>1. token[s] # Gone
    BY <1>2 DEF Gone
  <2> QED
    BY <1>2, <2>1 DEF MovesOn, CaseStep
<1> QED
  BY <1>1, <1>2 DEF Mutate

LEMMA NextLeads ==
  ASSUME NEW s \in Step
  PROVE  NextOf[s] \in Leads(s) \cup {0} /\ OnTimeout[s] \in Leads(s) \cup {0}
BY DEF Leads

\* A settlement ends the case, unless it has ended.
LEMMA SettleEnds ==
  ASSUME NEW s \in Step, NEW status \in {"failed", "denied"}, SettleAt(s, status)
  PROVE  CaseStep
<1>1. CASE ended # "no"
  BY <1>1 DEF SettleAt, Settle, CaseStep, Stays
<1>2. CASE ended = "no"
  BY <1>2 DEF SettleAt, Settle, CaseStep, Ends
<1> QED
  BY <1>1, <1>2

\* A token rewritten in place stays a token.
LEMMA TokenRewritten ==
  ASSUME NEW s \in Step, Typed, NEW new, new # Gone, token[s] # Gone,
         token' = [token EXCEPT ![s] = new], UNCHANGED <<history, ended>>
  PROVE  CaseStep
<1>1. token'[s] = new /\ \A t \in Step : t # s => token'[t] = token[t]
  BY DEF Typed
<1>2. ASSUME NEW t \in Step PROVE token'[t] = Gone <=> token[t] = Gone
  BY <1>1
<1>3. Stays
  BY <1>2 DEF Stays
<1> QED
  BY <1>3 DEF CaseStep

LEMMA ClaimCase ==
  ASSUME Inv, NEW w \in Worker, Claim(w)
  PROVE  CaseStep
<1>1. Typed /\ UNCHANGED <<history, ended>>
  BY DEF Inv, Claim
<1>2. CASE UNCHANGED token
  BY <1>1, <1>2 DEF CaseStep, Stays
<1>3. ASSUME NEW s \in Actionable,
             token' = [token EXCEPT ![s].state = "running", ![s].lapsed = FALSE]
      PROVE  CaseStep
  <2> DEFINE new == [token[s] EXCEPT !.state = "running", !.lapsed = FALSE]
  <2>1. s \in Step /\ token[s] # Gone /\ token[s] \in TokenType
    BY <1>1 DEF Actionable, Gone, Typed
  <2>2. new # Gone
    BY <2>1 DEF Gone, TokenType
  <2>3. token' = [token EXCEPT ![s] = new]
    BY <1>1, <1>3, <2>1 DEF Typed
  <2> HIDE DEF new
  <2> QED
    BY <1>1, <2>1, <2>2, <2>3, TokenRewritten
<1>4. \/ UNCHANGED token
      \/ \E s \in Actionable : token' = [token EXCEPT ![s].state = "running", ![s].lapsed = FALSE]
  BY Zenon DEF Claim
<1> QED
  BY <1>2, <1>3, <1>4

LEMMA ParkCase ==
  ASSUME Inv, NEW w \in Worker, Park(w)
  PROVE  CaseStep
<1>1. Typed /\ UNCHANGED <<history, ended>> /\ worker[w].pc = "park" /\ WorkerOK(w)
  BY DEF Inv, Park
<1>2. PICK s \in Step : s = StepOf(w)
  BY <1>1, AtRow DEF Between, StepOf
<1> DEFINE new == [state |-> WaitsAs(s), lapsed |-> FALSE, due |-> FALSE,
                   row |-> RowOf(w), approval |-> worker[w].approval]
<1>3. new # Gone
  BY DEF WaitsAs, Gone
<1>4. token' = IF token[s] = Gone THEN token ELSE [token EXCEPT ![s] = new]
  BY <1>2 DEF Park
<1> HIDE DEF new
<1>5. CASE token[s] = Gone
  BY <1>1, <1>4, <1>5 DEF CaseStep, Stays
<1>6. CASE token[s] # Gone
  BY <1>1, <1>3, <1>4, <1>6, TokenRewritten
<1> QED
  BY <1>5, <1>6

LEMMA MarkCase ==
  ASSUME Inv, NEW s \in Step, WakeUp(s) \/ Lapse(s)
  PROVE  CaseStep
<1>1. Typed /\ UNCHANGED <<history, ended>> /\ token[s] # Gone /\ token[s] \in TokenType
  BY DEF Inv, WakeUp, Lapse, Gone, Typed
<1>2. CASE WakeUp(s)
  <2> DEFINE new == [token[s] EXCEPT !.due = TRUE]
  <2>1. new # Gone /\ token' = [token EXCEPT ![s] = new]
    BY <1>1, <1>2 DEF WakeUp, Gone, TokenType
  <2> HIDE DEF new
  <2> QED
    BY <1>1, <2>1, TokenRewritten
<1>3. CASE Lapse(s)
  <2> DEFINE new == [token[s] EXCEPT !.lapsed = TRUE]
  <2>1. new # Gone /\ token' = [token EXCEPT ![s] = new]
    BY <1>1, <1>3 DEF Lapse, Gone, TokenType
  <2> HIDE DEF new
  <2> QED
    BY <1>1, <2>1, TokenRewritten
<1> QED
  BY <1>2, <1>3

LEMMA RefreshCase ==
  ASSUME Inv, NEW w \in Worker, Refresh(w)
  PROVE  CaseStep
<1>1. CASE UNCHANGED case
  BY <1>1 DEF case, CaseStep, Stays
<1>2. CASE \E s \in Decided : SettleAt(s, "denied")
  BY <1>2, SettleEnds DEF Decided
<1> QED
  BY <1>1, <1>2 DEF Refresh

LEMMA WorkCase ==
  ASSUME Inv, NEW w \in Worker, Work(w)
  PROVE  CaseStep
<1>1. WorkerOK(w)
  BY DEF Inv
<1>2. ASSUME worker[w].pc \notin Between PROVE worker[w].step \in Step
  BY <1>1, <1>2 DEF WorkerOK
<1>3. "none" \notin AnyState /\ "none" \notin {"waiting_approval"}
  BY DEF AnyState, Parked
<1>4. ASSUME UNCHANGED case PROVE CaseStep
  BY <1>4 DEF case, CaseStep, Stays
<1>5. CASE RefreshAdvance(w)
  BY <1>2, <1>3, <1>5, MutateMoves, NextLeads DEF RefreshAdvance, Between
<1>6. CASE Skip(w)
  BY <1>2, <1>3, <1>6, MutateMoves, NextLeads DEF Skip, Between, StepOf
<1>7. CASE Fired(w)
  BY <1>2, <1>3, <1>7, MutateMoves, NextLeads DEF Fired, Between, StepOf
<1>8. CASE TimedOut(w)
  <2>1. worker[w].step \in Step
    BY <1>2, <1>8 DEF TimedOut, Between
  <2>2. \/ SettleAt(worker[w].step, "failed")
        \/ Mutate(worker[w].step, AnyState, "skipped", OnTimeout[worker[w].step])
    BY <1>8 DEF TimedOut, StepOf
  <2> QED
    BY <1>3, <2>1, <2>2, SettleEnds, MutateMoves, NextLeads
<1>9. CASE Deny(w)
  BY <1>2, <1>9, SettleEnds DEF Deny, Between, StepOf
<1>10. CASE TickStart(w) \/ RunStep(w)
  BY <1>4, <1>10 DEF TickStart, RunStep
<1>11. CASE AppendRow(w) \/ FindTask(w) \/ CreateTask(w)
  BY <1>4, <1>11 DEF AppendRow, FindTask, CreateTask
<1>12. CASE Ask(w) \/ Note(w)
  BY <1>4, <1>12 DEF Ask, Note
<1>13. CASE Timeout(w) \/ Fire(w)
  BY <1>4, <1>13 DEF Timeout, Fire
<1> QED
  BY <1>5, <1>6, <1>7, <1>8, <1>9, <1>10, <1>11, <1>12, <1>13, RefreshCase, ClaimCase, ParkCase
     DEF Work

\* Every step of the system changes the case in one of these ways.
LEMMA NextCase ==
  ASSUME Inv, [Next]_vars
  PROVE  CaseStep
<1>1. ASSUME UNCHANGED case PROVE CaseStep
  BY <1>1 DEF case, CaseStep, Stays
<1>2. ASSUME NEW c \in Completion, CompleteAdvance(c) PROVE CaseStep
  <2>1. completion[c].step \in Step
    BY <1>2 DEF Inv, CompletionOK, CompleteAdvance, Closed, IsRow
  <2> QED
    BY <1>2, <2>1, MutateMoves, NextLeads DEF CompleteAdvance
<1>3. ASSUME NEW g \in Signal, SignalAdvance(g) PROVE CaseStep
  <2>1. signal[g].step \in Step
    BY <1>3 DEF Inv, SignalOK, SignalAdvance, IsRow
  <2> QED
    BY <1>3, <2>1, MutateMoves, NextLeads DEF SignalAdvance
<1>4. ASSUME NEW c \in Completion,
             \/ \E s \in Step : \E r \in DOMAIN rows[s] : Complete(c, s, r)
             \/ CompleteRow(c) \/ CompleteTask(c)
      PROVE  CaseStep
  BY <1>1, <1>4 DEF Complete, CompleteRow, CompleteTask
<1>5. ASSUME NEW g \in Signal, (\E s \in Step : Deliver(g, s)) \/ SignalRow(g)
      PROVE  CaseStep
  BY <1>1, <1>5 DEF Deliver, SignalRow
<1>6. CASE Cancel
  BY <1>6 DEF Cancel, Settle, CaseStep, Ends
<1>7. ASSUME NEW s \in Step, NEW a \in DOMAIN approvals[s], NEW decision, Decide(s, a, decision)
      PROVE  CaseStep
  BY <1>1, <1>7 DEF Decide
<1>8. CASE Crash \/ (\E w \in Worker : StoreFails(w)) \/ UNCHANGED vars
  BY <1>1, <1>8 DEF Crash, StoreFails, vars
<1> QED
  BY <1>2, <1>3, <1>4, <1>5, <1>6, <1>7, <1>8, WorkCase, MarkCase DEF Next

\* What a token that moves on has before it, it had before it already.
LEMMA SingleNext ==
  ASSUME Inv, Single, [Next]_vars
  PROVE  Single'
<1>1. Typed
  BY DEF Inv
<1>2. CASE Stays
  BY <1>2 DEF Stays, Single
<1>3. CASE Ends
  BY <1>3 DEF Ends, Single
<1>4. ASSUME NEW s \in Step, MovesOn(s) PROVE Single'
  <2>1. PICK outcome \in {"succeeded", "skipped"}, next \in Leads(s) \cup {0} :
          AdvanceTo(s, outcome, next)
    BY <1>4 DEF MovesOn
  <2>2. token[s] # Gone /\ s \in Ahead[s]
    BY <1>4, AheadOfSelf DEF MovesOn
  <2>3. ASSUME NEW t \in Step
        PROVE  /\ history'[t] # "none" => t = s \/ history[t] # "none"
               /\ token'[t] # Gone => \/ t = next /\ next \in Leads(s)
                                      \/ t # s /\ token[t] # Gone
    <3> DEFINE left == [token EXCEPT ![s] = Gone]
    <3>1. left \in [Step -> TokenType \cup {Gone}] /\ left[s] = Gone
          /\ \A u \in Step : u # s => left[u] = token[u]
      BY <1>1 DEF Typed
    <3> HIDE DEF left
    <3>2. token' = IF next = 0 THEN left ELSE [left EXCEPT ![next] = Ready]
      BY <2>1 DEF AdvanceTo, left
    <3>3. history'[t] = IF t = s THEN outcome ELSE history[t]
      BY <1>1, <2>1 DEF AdvanceTo, Typed
    <3>4. token'[t] = left[t] \/ (t = next /\ next # 0)
      BY <3>1, <3>2
    <3>5. t = next /\ next # 0 => next \in Leads(s)
      OBVIOUS
    <3> QED
      BY <3>1, <3>3, <3>4, <3>5
  <2>4. next \in Leads(s) => /\ next \in Step /\ s \notin Ahead[next]
                             /\ Ahead[next] \subseteq Ahead[s] /\ next \in Ahead[next]
    BY AheadOfLead
  <2>5. \A t \in Step : token[t] # Gone /\ t # s => Ahead[s] \cap Ahead[t] = {}
    BY <2>2 DEF Single
  <2>6. ASSUME NEW t \in Step, NEW u \in Step, token'[t] # Gone, token'[u] # Gone, t # u
        PROVE  Ahead[t] \cap Ahead[u] = {}
    BY <2>3, <2>4, <2>5, <2>6 DEF Single
  <2>7. ASSUME NEW t \in Step, NEW u \in Step, history'[t] # "none", token'[u] # Gone
        PROVE  t \notin Ahead[u]
    BY <2>2, <2>3, <2>4, <2>5, <2>7 DEF Single
  <2> QED
    BY <2>6, <2>7 DEF Single
<1> QED
  BY <1>2, <1>3, <1>4, NextCase DEF CaseStep

LEMMA SingleAlways ==
  ASSUME PathsApart
  PROVE  Spec => []Single
<1>1. Inv /\ Single /\ [Next]_vars => Single'
  BY SingleNext
<1>2. Init => Single
  BY SingleInit
<1> QED
  BY <1>1, <1>2, Invariant, PTL DEF Spec

\* Whatever the definition, as long as it has no loop and its paths share no step,
\* no step is entered again once it has succeeded or been skipped, and its outcome
\* stands unless the case ends on the spot, refused or failed.
THEOREM LeavesOnce ==
  ASSUME PathsApart
  PROVE  Spec => LeftOnce
<1>1. ASSUME Inv, Single, Single', [Next]_vars
      PROVE  [\A s \in Step : history[s] \in {"succeeded", "skipped"} =>
                /\ token'[s] = Gone
                /\ history'[s] # history[s] =>
                     ended = "no" /\ ended' \in {"denied", "failed"}]_vars
  <2> SUFFICES ASSUME NEW s \in Step, history[s] \in {"succeeded", "skipped"}
               PROVE  /\ token'[s] = Gone
                      /\ history'[s] # history[s] =>
                           ended = "no" /\ ended' \in {"denied", "failed"}
    OBVIOUS
  <2>1. token[s] = Gone
    BY <1>1, AheadOfSelf DEF Single
  <2>2. CASE Stays
    BY <2>1, <2>2 DEF Stays
  <2>3. CASE Ends
    BY <2>3 DEF Ends
  <2>4. ASSUME NEW t \in Step, MovesOn(t)
        PROVE  token'[s] = Gone /\ history'[s] = history[s]
    <3>1. Typed /\ t # s
      BY <1>1, <2>1, <2>4 DEF Inv, MovesOn
    <3>2. history'[s] = history[s]
      BY <2>4, <3>1 DEF MovesOn, AdvanceTo, Typed
    <3>3. history'[s] # "none"
      BY <3>2
    <3> QED
      BY <1>1, <3>2, <3>3, AheadOfSelf DEF Single
  <2> QED
    BY <1>1, <2>2, <2>3, <2>4, NextCase DEF CaseStep
<1>2. Inv /\ Single /\ Single' /\ [Next]_vars =>
        [\A s \in Step : history[s] \in {"succeeded", "skipped"} =>
           /\ token'[s] = Gone
           /\ history'[s] # history[s] =>
                ended = "no" /\ ended' \in {"denied", "failed"}]_vars
  BY <1>1
<1> QED
  BY <1>2, Invariant, SingleAlways, PTL DEF Spec, LeftOnce
=============================================================================
