-------------------------- MODULE MCWorkflowEngine --------------------------
(* Definitions of workflows, and sizes, for model-checking WorkflowEngine.  *)
EXTENDS WorkflowEngine, TLC

CONSTANTS p1, p2, a, b, c, f, g, ua, ub

\* A table over the steps: its own value for some, a default for the others.
Table(default, special) == special @@ [s \in Step |-> default]

\* a, then b, then c: a and b can be undone, c is retried once.
LineKind == Table("action", ua :> "compensation" @@ ub :> "compensation")
LineRank == (a :> 1) @@ (b :> 2) @@ (c :> 3) @@ (ua :> 4) @@ (ub :> 5)
LineAfter == Table(Nil, a :> b @@ b :> c)
LineHeads == Table({}, <<>>)
LineUndo == Table(Nil, a :> ua @@ b :> ub)
LineRetries == Table(1, c :> 2)

\* f starts a and b in parallel; they join at g, which leads to c.  a can
\* be undone, nothing is retried.
FanKind == Table("action", f :> "parallel" @@ g :> "branch" @@ ua :> "compensation")
FanRank == (f :> 1) @@ (a :> 2) @@ (b :> 3) @@ (g :> 4) @@ (c :> 5) @@ (ua :> 6)
FanAfter == Table(Nil, f :> g)
FanHeads == Table({}, f :> {a, b} @@ g :> {c})
FanUndo == Table(Nil, a :> ua)
FanRetries == Table(1, <<>>)

ASSUME PathsApart

Symmetric == Permutations({p1, p2})
=============================================================================
