----------------------------- MODULE QueryNeeds -----------------------------
(***************************************************************************)
(* What queries need of a posterior (QueryRequirements), when a posterior  *)
(* satisfies it, and how requirements_for() combines the needs of two      *)
(* queries: capabilities that are all needed, and alternatives of which    *)
(* one suffices.  No alternatives at all ask for nothing.                  *)
(***************************************************************************)

SatisfiedBy(needs, available) ==
  /\ needs.capabilities \subseteq available
  /\ needs.alternatives # {} => \E option \in needs.alternatives : option \subseteq available

\* Mutant: one alternative of either query is taken for enough.
EitherOf(a, b) == a \union b

\* One alternative of each.
OneOfEach(a, b) == {x \union y : x \in a, y \in b}

\* Supersets of an alternative do not add another way.
Minimal(options) == {a \in options : ~ \E b \in options : b \subseteq a /\ b # a}

\* While needs are collected, the empty alternative stands for none.
NoneYet == {{}}

Needed(options) == IF options = {} THEN NoneYet ELSE options

Include(needs, more) ==
  [capabilities |-> needs.capabilities \union more.capabilities,
   alternatives |-> Minimal(OneOfEach(needs.alternatives, Needed(more.alternatives)))]

Collected(needs) == [needs EXCEPT !.alternatives = @ \ NoneYet]
=============================================================================
