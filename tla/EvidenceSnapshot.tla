-------------------------- MODULE EvidenceSnapshot --------------------------
(***************************************************************************)
(* evidence/snapshots.py: materialize(), step by step.                     *)
(*                                                                         *)
(* The caller's records are read one at a time, in whatever order they     *)
(* arrive.  Then every report (source and record identifier) is examined:  *)
(* its only root is found, its revisions are linked to their predecessors, *)
(* and the chain is walked from the root.  The code examines the reports   *)
(* in the order of their identifiers and the revisions of one in the order *)
(* they were first read; here both orders are arbitrary.                   *)
(***************************************************************************)
EXTENDS Integers, FiniteSets, Bags, Functions

CONSTANTS
  Records,      \* the envelopes that may be delivered
  Times,        \* knowledge times and cutoffs
  None,         \* Python's None
  MaxRecords    \* bound: records delivered to one call

Actions == {"assert", "replace", "retract", "close"}

\* EvidenceRecord.__post_init__ admits no other envelope.
ASSUME RecordsAssumption ==
  /\ Times \subseteq Int
  /\ None \notin Times
  /\ \A r \in Records :
       /\ r.rev # None
       /\ r.known \in Times \union {None}
       /\ r.action \in Actions
       /\ (r.action = "assert") <=> (r.prev = None)

VARIABLES
  request,      \* the call's policy and cutoff
  arrived,      \* history: bag of the records read so far
  pc,           \* what the call is doing
  unique,       \* revision identifier -> record
  issues,       \* admission issues: revision identifier and status
  pending,      \* reports not examined yet
  group,        \* revisions of the report under examination
  unlinked,     \* those of them not linked yet
  successors,   \* revision identifier -> its successor
  current,      \* where the walk along the chain is
  seen,         \* revision identifiers the walk has met
  effective,    \* effective revisions found
  error         \* why the call failed

input   == <<request, arrived>>
chain   == <<group, unlinked, successors, current, seen>>
vars    == <<request, arrived, pc, unique, issues, pending, group, unlinked,
             successors, current, seen, effective, error>>

Static == request.policy = "static-v1"

ReportOf(r) == <<r.source, r.record>>

Known == {unique[i] : i \in DOMAIN unique}

With(f, x, y) == [z \in DOMAIN f \union {x} |-> IF z = x THEN y ELSE f[z]]

Init ==
  /\ request \in [policy : {"explicit-chain-v1", "static-v1", "other"},
                  cutoff : Times \union {None}]
  /\ arrived = EmptyBag
  /\ pc = "called"
  /\ unique = <<>>
  /\ issues = {}
  /\ pending = {}
  /\ group = {}
  /\ unlinked = {}
  /\ successors = <<>>
  /\ current = None
  /\ seen = {}
  /\ effective = {}
  /\ error = None

-----------------------------------------------------------------------------
\* Any EvidenceConflict or ValidationError ends the call.
FailWith(why) ==
  /\ pc' = "failed"
  /\ error' = why
  /\ UNCHANGED <<unique, issues, pending, chain, effective>>

\* A checkpoint of the call's ExecutionControl may stop it (on entry and
\* before every record).
Stop ==
  /\ pc \in {"called", "reading"}
  /\ pc' = "stopped"
  /\ UNCHANGED <<input, unique, issues, pending, chain, effective, error>>

Begin ==
  /\ pc = "called"
  /\ IF request.policy = "other" THEN FailWith("unsupported revision policy")
     ELSE IF ~Static /\ request.cutoff = None THEN FailWith("a knowledge cutoff is required")
     ELSE /\ pc' = "reading"
          /\ UNCHANGED <<unique, issues, pending, chain, effective, error>>
  /\ UNCHANGED input

(***************************************************************************)
(* Reading the records                                                     *)
(***************************************************************************)
AfterCutoff(r) == request.cutoff # None /\ r.known # None /\ r.known > request.cutoff

\* Mutant: the retransmitted revision is not compared with the one kept.
NoConflict(r) == FALSE

Conflicts(r) == r.rev \in DOMAIN unique /\ unique[r.rev] # r

\* Mutant: records are kept by report instead of by revision.
AdmitByReport(r) ==
  /\ pc' = pc
  /\ unique' = With(unique, r.record, r)
  /\ UNCHANGED <<issues, pending, chain, effective, error>>

Admit(r) ==
  /\ pc' = pc
  /\ unique' = With(unique, r.rev, r)
  /\ issues' = issues \union IF r.rev \in DOMAIN unique THEN {<<r.rev, "duplicate">>} ELSE {}
  /\ UNCHANGED <<pending, chain, effective, error>>

OutOfScope(r) ==
  /\ issues' = issues \union {<<r.rev, "out_of_scope">>}
  /\ UNCHANGED <<pc, unique, pending, chain, effective, error>>

Read(r) ==
  /\ pc = "reading"
  /\ BagCardinality(arrived) < MaxRecords
  /\ arrived' = arrived (+) SetToBag({r})
  /\ IF r.known = None /\ ~Static THEN FailWith("missing knowledge time")
     ELSE IF AfterCutoff(r) THEN OutOfScope(r)
     ELSE IF Conflicts(r) THEN FailWith("conflicting contents")
     ELSE Admit(r)
  /\ UNCHANGED request

GroupReports ==
  /\ pc = "reading"
  /\ pc' = "reports"
  /\ pending' = {ReportOf(r) : r \in Known}
  /\ UNCHANGED <<input, unique, issues, chain, effective, error>>

(***************************************************************************)
(* Examining one report                                                    *)
(***************************************************************************)
\* Mutant: any revision of the report may be the one the walk starts from.
AnyRoot(G) == G

Roots(G) == {r \in G : r.prev = None}

Examine(report) ==
  LET G == {r \in Known : ReportOf(r) = report}
  IN  /\ pc = "reports"
      /\ report \in pending
      /\ IF Cardinality(Roots(G)) # 1
         THEN FailWith("exactly one initial assertion is required")
         ELSE /\ pc' = "linking"
              /\ pending' = pending \ {report}
              /\ group' = G
              /\ unlinked' = G
              /\ successors' = <<>>
              /\ current' = None
              /\ seen' = {}
              /\ UNCHANGED <<unique, issues, effective, error>>
      /\ UNCHANGED input

\* Mutant: a revision may be known before the one it revises.
NeverPredates(r) == FALSE

Foreign(r) == r.prev \notin DOMAIN unique \/ ReportOf(unique[r.prev]) # ReportOf(r)

Predates(r) ==
  /\ unique[r.prev].known # None
  /\ r.known # None
  /\ unique[r.prev].known > r.known

Link(r) ==
  /\ pc = "linking"
  /\ r \in unlinked
  /\ IF r.prev = None
     THEN /\ unlinked' = unlinked \ {r}
          /\ UNCHANGED <<pc, unique, issues, pending, group, successors, current,
                         seen, effective, error>>
     ELSE IF r.prev \in DOMAIN successors THEN FailWith("branching revisions")
     ELSE IF Foreign(r) THEN FailWith("missing or foreign predecessor")
     ELSE IF Predates(r) THEN FailWith("revision predates its predecessor")
     ELSE /\ unlinked' = unlinked \ {r}
          /\ successors' = With(successors, r.prev, r)
          /\ UNCHANGED <<pc, unique, issues, pending, group, current, seen,
                         effective, error>>
  /\ UNCHANGED input

StartWalk ==
  /\ pc = "linking"
  /\ unlinked = {}
  /\ pc' = "walking"
  /\ current' = CHOOSE r \in Roots(group) : TRUE
  /\ seen' = {current'.rev}
  /\ UNCHANGED <<input, unique, issues, pending, group, unlinked, successors,
                 effective, error>>

Successor == successors[current.rev]

Advance ==
  /\ pc = "walking"
  /\ current.rev \in DOMAIN successors
  /\ IF Successor.rev \in seen THEN FailWith("revision cycle")
     ELSE /\ issues' = issues \union {<<current.rev, "superseded">>}
          /\ current' = Successor
          /\ seen' = seen \union {Successor.rev}
          /\ UNCHANGED <<pc, unique, pending, group, unlinked, successors,
                         effective, error>>
  /\ UNCHANGED input

\* Mutant: revisions the walk has not met are forgotten.
NeverDisconnected == FALSE

Disconnected == Cardinality(seen) # Cardinality(group)

EndOfChain ==
  /\ pc = "walking"
  /\ current.rev \notin DOMAIN successors
  /\ IF Disconnected THEN FailWith("disconnected revision chain")
     ELSE /\ pc' = "reports"
          /\ IF current.action = "retract"
             THEN /\ issues' = issues \union {<<current.rev, "retracted">>}
                  /\ UNCHANGED effective
             ELSE /\ effective' = effective \union {current}
                  /\ UNCHANGED issues
          /\ UNCHANGED <<unique, pending, chain, error>>
  /\ UNCHANGED input

Return ==
  /\ pc = "reports"
  /\ pending = {}
  /\ pc' = "done"
  /\ UNCHANGED <<input, unique, issues, pending, chain, effective, error>>

Next ==
  \/ Stop
  \/ Begin
  \/ \E r \in Records : Read(r) \/ Link(r)
  \/ GroupReports
  \/ \E report \in pending : Examine(report)
  \/ StartWalk
  \/ Advance
  \/ EndOfChain
  \/ Return

Spec == Init /\ [][Next]_vars

\* One thread runs the call and never pauses for ever between two steps.

-----------------------------------------------------------------------------
Statuses == {"duplicate", "out_of_scope", "superseded", "retracted"}

\* The shape of the call's state: the working sets hold records that were
\* read, and the two maps are keyed by revision identifiers.
TypeOK ==
  /\ pc \in {"called", "reading", "reports", "linking", "walking",
             "done", "failed", "stopped"}
  /\ BagToSet(arrived) \subseteq Records
  /\ \A i \in DOMAIN unique : unique[i] \in Records /\ unique[i].rev = i
  /\ group \subseteq Known
  /\ unlinked \subseteq group
  /\ \A i \in DOMAIN successors : successors[i] \in group
  /\ pc = "walking" => current \in Known /\ current.rev \in seen
  /\ seen \subseteq DOMAIN unique
  /\ effective \subseteq Known
  /\ \A x \in issues : x[2] \in Statuses

\* The guard against revision cycles never fires: with one root and at most
\* one successor per revision, the walk cannot return to where it has been.
CycleUnreachable == pc = "failed" => error # "revision cycle"

\* A completed call accounts for every revision in scope exactly once: it is
\* effective, or superseded, or retracted; none is lost between the chains.
Accounts(i) ==
  {status \in {"superseded", "retracted"} : <<i, status>> \in issues}
    \union IF unique[i] \in effective THEN {"effective"} ELSE {}

EveryRevisionAccounted ==
  pc = "done" => \A i \in DOMAIN unique : Cardinality(Accounts(i)) = 1

\* Chains that branch, break, or close on themselves are refused before a
\* walk along them could lose a revision or meet one twice.
RevisionsAccounted == EveryRevisionAccounted /\ CycleUnreachable

\* Arrival order is never precedence: whatever order the records are read
\* in, and however often one is retransmitted, the call succeeds exactly when
\* the records known at the cutoff form chains, and then returns exactly
\* their tips.
History == INSTANCE RevisionHistory WITH
  outcome  <- IF pc \in {"done", "failed", "stopped"} THEN pc ELSE "open",
  snapshot <- IF pc = "done"
              THEN [records |-> Known, effective |-> effective, issues |-> issues]
              ELSE None

ImplementsHistory == History!Spec

\* A knowledge cutoff that can be materialized can be replayed: the same
\* records are consistent at every earlier cutoff as well.
ReplayableEarlier ==
  pc = "done" /\ ~Static =>
    \A t \in Times : t < request.cutoff =>
      History!Valid(BagToSet(arrived), [request EXCEPT !.cutoff = t])
=============================================================================
