------------------------- MODULE SingleUseAuthority -------------------------
(***************************************************************************)
(* What an approval promises, without stores, calls or clocks: people back *)
(* a proposal; once enough of them other than the asker have, it may be    *)
(* authorised; at most one holder ever takes it, and only the holder acts, *)
(* on the proposal that was backed and no other.                           *)
(***************************************************************************)
EXTENDS Integers, FiniteSets

CONSTANTS Id, Person, Holder, Proposal, MaxNeeded, NoTerms

VARIABLES
  stage,     \* how far each authority has come
  terms,     \* what was asked, by whom, and how many backers it needs
  backers,   \* the people who backed it
  holders,   \* who took it: nobody, or one
  acts       \* who acted, and on which proposal

vars == <<stage, terms, backers, holders, acts>>

Init ==
  /\ stage = [i \in Id |-> "absent"]
  /\ terms = [i \in Id |-> NoTerms]
  /\ backers = [i \in Id |-> {}]
  /\ holders = [i \in Id |-> {}]
  /\ acts = {}

Ask(i, proposal, asker, needed) ==
  /\ stage[i] = "absent"
  /\ stage' = [stage EXCEPT ![i] = "open"]
  /\ terms' = [terms EXCEPT ![i] =
                 [proposal |-> proposal, asker |-> asker, needed |-> needed]]
  /\ UNCHANGED <<backers, holders, acts>>

\* One more backer.  Enough of them permit authorisation, which may be late.
Back(i, person) ==
  /\ stage[i] = "open"
  /\ person \notin backers[i] \cup {terms[i].asker}
  /\ backers' = [backers EXCEPT ![i] = @ \cup {person}]
  /\ \/ UNCHANGED stage
     \/ /\ Cardinality(backers'[i]) >= terms[i].needed
        /\ stage' = [stage EXCEPT ![i] = "authorised"]
  /\ UNCHANGED <<terms, holders, acts>>

\* Open requests are refused or run out, several at once in a sweep.
Close(S) ==
  /\ S # {} /\ \A i \in S : stage[i] = "open"
  /\ stage' = [i \in Id |-> IF i \in S THEN "closed" ELSE stage[i]]
  /\ UNCHANGED <<terms, backers, holders, acts>>

Take(i, h) ==
  /\ stage[i] = "authorised"
  /\ stage' = [stage EXCEPT ![i] = "spent"]
  /\ holders' = [holders EXCEPT ![i] = {h}]
  /\ UNCHANGED <<terms, backers, acts>>

Act(i, h) ==
  /\ h \in holders[i]
  /\ acts' = acts \cup {<<h, terms[i].proposal>>}
  /\ UNCHANGED <<stage, terms, backers, holders>>

Next ==
  \/ \E i \in Id, p \in Proposal, asker \in Person, needed \in 1..MaxNeeded :
       Ask(i, p, asker, needed)
  \/ \E i \in Id, person \in Person : Back(i, person)
  \/ \E S \in SUBSET Id : Close(S)
  \/ \E i \in Id, h \in Holder : Take(i, h) \/ Act(i, h)

Spec == Init /\ [][Next]_vars
=============================================================================
