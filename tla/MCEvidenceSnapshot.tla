------------------------- MODULE MCEvidenceSnapshot -------------------------
(***************************************************************************)
(* Instances of EvidenceSnapshot for TLC: every envelope of a few revision *)
(* identifiers that EvidenceRecord admits, for reports of the same name    *)
(* from each source.                                                       *)
(***************************************************************************)
EXTENDS EvidenceSnapshot, TLC

CONSTANTS RevisionIds, Sources, KnownAt

MCRecords ==
  {r \in [rev : RevisionIds, source : Sources, record : {"x"},
          prev : RevisionIds \union {None}, action : {"assert", "replace", "retract"},
          known : KnownAt] :
     (r.action = "assert") <=> (r.prev = None)}

MCTimes == {1, 2}

MCSymmetry == Permutations(RevisionIds) \union Permutations(Sources)

MCTimed == {1, 2, None}
=============================================================================
