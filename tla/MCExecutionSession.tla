------------------------- MODULE MCExecutionSession -------------------------
(***************************************************************************)
(* Instances of ExecutionSession for TLC.  Artifacts "a" and "b" (which is *)
(* too large for the store) are computed by code that declares its         *)
(* configuration, "x" by code that does not; the two controls are one with *)
(* a progress callback and one with a deadline.                            *)
(***************************************************************************)
EXTENDS ExecutionSession

Request(stage, items, endless, numerics, control, reuse, seconds, partial) ==
  [stage |-> stage, items |-> items, endless |-> endless, structure |-> "s",
   numerics |-> numerics, control |-> control, reuse |-> reuse, seconds |-> seconds,
   partial |-> partial]

MCControls == {"watched", "timed"}

\* Two compilations of one structure, one of them watched, a solve that goes
\* on until it is stopped, and an evaluation.
MCRequests == {
  Request("compile",  <<"a", "x">>, FALSE, "v1", "watched", TRUE,  None, FALSE),
  Request("compile",  <<"a">>,      FALSE, "v2", None,      TRUE,  None, FALSE),
  Request("infer",    <<"b", "x">>, TRUE,  "",   "timed",   TRUE,  2,    TRUE),
  Request("evaluate", <<"x", "a">>, FALSE, "",   "watched", TRUE,  None, TRUE)}

MCDeadline == [c \in MCControls |-> IF c = "timed" THEN 1 ELSE Never]
=============================================================================
