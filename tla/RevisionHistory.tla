--------------------------- MODULE RevisionHistory --------------------------
(***************************************************************************)
(* What a snapshot of revised evidence means, with no mention of the order *)
(* in which the records arrive or are examined: the records known at the   *)
(* cutoff must form, for every report, one chain of revisions that starts  *)
(* at its only initial assertion, and what is effective is the last        *)
(* revision of every chain, unless it retracts the report.                 *)
(***************************************************************************)
EXTENDS Integers, SequencesExt, Bags

CONSTANTS
  Records,   \* the envelopes that may be delivered
  Times,     \* knowledge times and cutoffs
  None       \* no predecessor, no knowledge time, no cutoff

\* The requests materialize() accepts: a revision policy and a cutoff.
Request == [policy : {"explicit-chain-v1", "static-v1", "other"},
            cutoff : Times \union {None}]

Accepted(q) ==
  \/ q.policy = "static-v1"
  \/ q.policy = "explicit-chain-v1" /\ q.cutoff # None

InScope(r, cutoff) == cutoff = None \/ r.known = None \/ r.known <= cutoff

Known(S, cutoff) == {r \in S : InScope(r, cutoff)}

ReportOf(r) == <<r.source, r.record>>

Reports(S) == {ReportOf(r) : r \in S}

Revisions(S, report) == {r \in S : ReportOf(r) = report}

\* c lists the revisions of one report from its assertion to its tip.
IsChain(c) ==
  /\ c[1].prev = None
  /\ \A i \in 1..(Len(c) - 1) :
       /\ c[i + 1].prev = c[i].rev
       /\ c[i].known # None /\ c[i + 1].known # None => c[i].known <= c[i + 1].known

Chains(G) == {c \in SetToSeqs(G) : IsChain(c)}

Consistent(S) ==
  /\ \A r, s \in S : r.rev = s.rev => r = s
  /\ \A p \in Reports(S) : Chains(Revisions(S, p)) # {}

Valid(S, q) ==
  /\ Accepted(q)
  /\ q.policy = "static-v1" \/ \A r \in S : r.known # None
  /\ Consistent(Known(S, q.cutoff))

\* The last revision of every report, for a consistent S.
Tips(S) == {r \in S : \A s \in S : s.prev # r.rev}

Effective(S) == {r \in Tips(S) : r.action # "retract"}

Disposition(S, repeated) ==
  {<<r.rev, "superseded">> : r \in S \ Tips(S)}
    \union {<<r.rev, "retracted">> : r \in Tips(S) \ Effective(S)}
    \union {<<r.rev, "duplicate">> : r \in repeated}

-----------------------------------------------------------------------------
VARIABLES
  request,   \* policy and cutoff of the call
  arrived,   \* bag of the records the call has been given
  outcome,   \* "open", "done", "failed" or "stopped"
  snapshot   \* records, effective revisions and issues, once done

Init ==
  /\ request \in Request
  /\ arrived = EmptyBag
  /\ outcome = "open"
  /\ snapshot = None

Deliver(r) ==
  /\ outcome = "open"
  /\ arrived' = arrived (+) SetToBag({r})
  /\ UNCHANGED <<request, outcome, snapshot>>

\* The record that cannot belong to any snapshot ends the call.
Refuse(r) ==
  /\ outcome = "open"
  /\ outcome' = "failed"
  /\ arrived' = arrived (+) SetToBag({r})
  /\ ~Valid(BagToSet(arrived'), request)
  /\ UNCHANGED <<request, snapshot>>

\* The snapshot the records and the request determine.
Determined ==
  LET all   == BagToSet(arrived)
      known == Known(all, request.cutoff)
  IN  [records   |-> known,
       effective |-> Effective(known),
       issues    |-> Disposition(known, {r \in known : arrived[r] > 1})
                       \union {<<r.rev, "out_of_scope">> : r \in all \ known}]

Succeed ==
  /\ outcome = "open"
  /\ outcome' = "done"
  /\ Valid(BagToSet(arrived), request)
  /\ snapshot' = Determined
  /\ UNCHANGED <<request, arrived>>

Fail ==
  /\ outcome = "open"
  /\ outcome' = "failed"
  /\ ~Valid(BagToSet(arrived), request)
  /\ UNCHANGED <<request, arrived, snapshot>>

Stop ==
  /\ outcome = "open"
  /\ outcome' = "stopped"
  /\ UNCHANGED <<request, arrived, snapshot>>

Next ==
  \/ \E r \in Records : Deliver(r) \/ Refuse(r)
  \/ Succeed
  \/ Fail
  \/ Stop

Spec == Init /\ [][Next]_<<request, arrived, outcome, snapshot>>
=============================================================================
