-------------------------- MODULE MCArtifactStore ---------------------------
(***************************************************************************)
(* Instances of ArtifactStore for TLC.  The values stand for the cases     *)
(* put() distinguishes: two that fit with different charges, one whose     *)
(* size cannot be estimated, one too large from the start, one that cannot *)
(* be frozen, and one that only turns out too large once it is frozen.     *)
(***************************************************************************)
EXTENDS ArtifactStore

MCValues == {"small", "large", "unsizable", "oversized", "mutable", "grows"}
MCSizable == MCValues \ {"unsizable"}
MCFreezable == MCValues \ {"mutable"}
MCEstimate == [v \in MCValues |-> IF v = "oversized" THEN 9 ELSE 1]
MCCharge ==
  [v \in MCValues |->
     CASE v = "large" -> 2 [] v = "grows" -> 9 [] OTHER -> 1]
=============================================================================
