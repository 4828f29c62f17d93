----------------------- MODULE EvidenceSnapshotProofs -----------------------
(***************************************************************************)
(* What materialize() guarantees for every set of records, every cutoff    *)
(* and every order of arrival.                                             *)
(* First the account of the walk along the chains, then what a finished    *)
(* call says of the records, from which it implements RevisionHistory and  *)
(* can be replayed at earlier cutoffs.                                     *)
(***************************************************************************)
EXTENDS EvidenceSnapshot, Sequences, FiniteSetTheorems, FunctionTheorems,
        WellFoundedInduction, TLAPS

Ids(G) == {r.rev : r \in G}

\* The issues raised while the records are read account for no revision.
ReadIssues == \A x \in issues : x[2] \in {"duplicate", "out_of_scope"}

Superseded(i) == <<i, "superseded">> \in issues
Retracted(i)  == <<i, "retracted">> \in issues
IsEffective(i) == unique[i] \in effective

Unaccounted(i) == ~Superseded(i) /\ ~Retracted(i) /\ ~IsEffective(i)

OnlySuperseded(i) == Superseded(i) /\ ~Retracted(i) /\ ~IsEffective(i)

AccountedOnce(i) ==
  \/ OnlySuperseded(i)
  \/ ~Superseded(i) /\ Retracted(i) /\ ~IsEffective(i)
  \/ ~Superseded(i) /\ ~Retracted(i) /\ IsEffective(i)

-----------------------------------------------------------------------------
(***************************************************************************)
(* Type correctness.  That the walk starts at a record needs the report    *)
(* under examination to have a root, which needs what is known to be       *)
(* finite.                                                                 *)
(***************************************************************************)
RootInv ==
  pc \in {"linking", "walking"} => \E r \in group : Roots(group) = {r}

BaseInv == TypeOK /\ IsFiniteSet(Known) /\ RootInv

LEMMA KnownById ==
  ASSUME TypeOK, NEW r \in Known
  PROVE  r \in Records /\ r.rev \in DOMAIN unique /\ unique[r.rev] = r
BY DEF TypeOK, Known

LEMMA BaseInit == Init => BaseInv
<1> SUFFICES ASSUME Init PROVE BaseInv
  OBVIOUS
<1>1. Known = {}
  BY DEF Init, Known
<1>2. TypeOK
  BY <1>1 DEF Init, TypeOK, EmptyBag, SetToBag, BagToSet
<1>3. QED
  BY <1>1, <1>2, FS_EmptySet DEF BaseInv, RootInv, Init

LEMMA FailKeepsBase ==
  ASSUME BaseInv, NEW why, FailWith(why), BagToSet(arrived') \subseteq Records
  PROVE  BaseInv'
BY DEF BaseInv, RootInv, TypeOK, FailWith, Known, chain

LEMMA BaseNext == BaseInv /\ [Next]_vars => BaseInv'
<1> SUFFICES ASSUME BaseInv, [Next]_vars PROVE BaseInv'
  OBVIOUS
<1> USE DEF BaseInv
<1>1. CASE Stop
  BY <1>1 DEF Stop, TypeOK, Known, RootInv, input, chain
<1>2. CASE Begin
  <2>1. CASE \E why : FailWith(why)
    BY <1>2, <2>1, FailKeepsBase DEF Begin, TypeOK, input
  <2>2. CASE pc' = "reading" /\ UNCHANGED <<unique, issues, chain, effective>>
    BY <1>2, <2>2 DEF Begin, TypeOK, Known, RootInv, input, chain
  <2>3. QED
    BY <1>2, <2>1, <2>2 DEF Begin
<1>3. ASSUME NEW r \in Records, Read(r) PROVE BaseInv'
  <2>1. BagToSet(arrived') \subseteq Records /\ pc = "reading"
    BY <1>3 DEF Read, TypeOK, BagToSet, SetToBag, (+)
  <2>2. CASE \E why : FailWith(why)
    BY <2>1, <2>2, FailKeepsBase
  <2>3. CASE OutOfScope(r)
    BY <1>3, <2>1, <2>3 DEF OutOfScope, TypeOK, Known, RootInv, chain, Statuses
  <2>4. CASE ~Conflicts(r) /\ Admit(r)
    <3>1. /\ DOMAIN unique' = DOMAIN unique \union {r.rev}
          /\ \A i \in DOMAIN unique : unique'[i] = unique[i]
          /\ unique'[r.rev] = r
      BY <2>4 DEF Admit, With, Conflicts
    <3>2. Known' = Known \union {r}
      BY <3>1 DEF Known
    <3>3. \A i \in DOMAIN unique' : unique'[i] \in Records /\ unique'[i].rev = i
      BY <3>1 DEF TypeOK
    <3>4. TypeOK'
      BY <2>1, <2>4, <3>1, <3>2, <3>3 DEF Admit, TypeOK, chain, Statuses
    <3>5. QED
      BY <2>1, <2>4, <3>2, <3>4, FS_AddElement DEF Admit, RootInv
  <2>5. QED
    BY <1>3, <2>2, <2>3, <2>4 DEF Read
<1>4. ASSUME NEW r \in Records, Link(r) PROVE BaseInv'
  <2>1. CASE \E why : FailWith(why)
    BY <1>4, <2>1, FailKeepsBase DEF Link, input, TypeOK
  <2>2. CASE /\ UNCHANGED <<pc, unique, issues, group, current, seen, effective>>
             /\ unlinked' = unlinked \ {r}
             /\ successors' = successors \/ successors' = With(successors, r.prev, r)
    <3>1. r \in group /\ arrived' = arrived
      BY <1>4 DEF Link, TypeOK, input
    <3>2. \A i \in DOMAIN successors' : successors'[i] \in group'
      BY <2>2, <3>1 DEF With, TypeOK
    <3>3. QED
      BY <2>2, <3>1, <3>2 DEF TypeOK, Known, RootInv, Roots
  <2>3. QED
    BY <1>4, <2>1, <2>2 DEF Link
<1>5. CASE GroupReports
  BY <1>5 DEF GroupReports, TypeOK, Known, RootInv, input, chain
<1>6. ASSUME NEW report \in pending, Examine(report) PROVE BaseInv'
  <2> DEFINE G == {r \in Known : ReportOf(r) = report}
  <2>1. CASE \E why : FailWith(why)
    BY <1>6, <2>1, FailKeepsBase DEF Examine, input, TypeOK
  <2>2. CASE pc' = "linking" /\ Cardinality(Roots(G)) = 1
    <3>1. \E r : Roots(G) = {r}
      <4>1. IsFiniteSet(Roots(G))
        BY FS_Subset DEF Roots
      <4>2. QED
        BY <2>2, <4>1, FS_Singleton
    <3>2. group' = G /\ unique' = unique
      BY <1>6, <2>2 DEF Examine, FailWith
    <3>3. RootInv'
      BY <3>1, <3>2 DEF RootInv, Roots
    <3>4. TypeOK' /\ IsFiniteSet(Known)'
      BY <1>6, <2>2, <3>2 DEF Examine, FailWith, TypeOK, Known, input
    <3>5. QED
      BY <3>3, <3>4
  <2>3. QED
    BY <1>6, <2>1, <2>2 DEF Examine
<1>7. CASE StartWalk
  <2>1. current' \in Known /\ seen' = {current'.rev}
    <3>1. PICK r : Roots(group) = {r}
      BY <1>7 DEF StartWalk, RootInv
    <3>2. current' \in Roots(group)
      BY <1>7, <3>1 DEF StartWalk
    <3>3. QED
      BY <1>7, <3>2 DEF StartWalk, Roots, TypeOK
  <2>2. seen' \subseteq DOMAIN unique
    BY <2>1, KnownById
  <2>3. QED
    BY <1>7, <2>1, <2>2 DEF StartWalk, TypeOK, Known, RootInv, Roots, input
<1>8. CASE Advance
  <2>1. CASE \E why : FailWith(why)
    BY <1>8, <2>1, FailKeepsBase DEF Advance, input, TypeOK
  <2>2. CASE current' = Successor /\ seen' = seen \union {Successor.rev} /\ pc' = pc
    <3>1. Successor \in group /\ Successor \in Known
      BY <1>8 DEF Advance, Successor, TypeOK
    <3>2. Successor.rev \in DOMAIN unique
      BY <3>1, KnownById
    <3>3. UNCHANGED <<arrived, unique, group, unlinked, successors, effective>>
      BY <1>8, <2>2 DEF Advance, FailWith, chain, input
    <3>4. issues' = issues \/ issues' = issues \union {<<current.rev, "superseded">>}
      BY <1>8 DEF Advance, FailWith
    <3>5. \A x \in issues' : x[2] \in Statuses
      BY <3>4 DEF TypeOK, Statuses
    <3>6. QED
      BY <2>2, <3>1, <3>2, <3>3, <3>5 DEF TypeOK, Known, RootInv, Roots
  <2>3. QED
    BY <1>8, <2>1, <2>2 DEF Advance
<1>9. CASE EndOfChain
  <2>1. CASE \E why : FailWith(why)
    BY <1>9, <2>1, FailKeepsBase DEF EndOfChain, input, TypeOK
  <2>2. CASE pc' = "reports" /\ UNCHANGED <<unique, pending, chain>>
    <3>1. current \in Known
      BY <1>9 DEF EndOfChain, TypeOK
    <3>2. /\ effective' = effective \/ effective' = effective \union {current}
          /\ issues' = issues \/ issues' = issues \union {<<current.rev, "retracted">>}
      BY <1>9, <2>2 DEF EndOfChain, FailWith
    <3>3. arrived' = arrived
      BY <1>9 DEF EndOfChain, input
    <3>4. QED
      BY <2>2, <3>1, <3>2, <3>3 DEF TypeOK, Known, RootInv, Statuses, chain
  <2>3. QED
    BY <1>9, <2>1, <2>2 DEF EndOfChain
<1>10. CASE Return
  BY <1>10 DEF Return, TypeOK, Known, RootInv, input, chain
<1>11. CASE UNCHANGED vars
  BY <1>11 DEF vars, TypeOK, Known, RootInv
<1>12. QED
  BY <1>1, <1>2, <1>3, <1>4, <1>5, <1>6, <1>7, <1>8, <1>9, <1>10, <1>11 DEF Next

\* The shape of a materialization, and what grouping and linking establish.
THEOREM SnapshotBase == Spec => []BaseInv
BY BaseInit, BaseNext, PTL DEF Spec

\* The working state of materialize() keeps its shape.
THEOREM SnapshotTypeOK == Spec => []TypeOK
<1>1. BaseInv => TypeOK
  BY DEF BaseInv
<1>2. QED
  BY <1>1, SnapshotBase, PTL

-----------------------------------------------------------------------------
(***************************************************************************)
(* The walk.  Everything met so far was reached from something met before  *)
(* it, and nothing was reached from where the walk is now.                 *)
(***************************************************************************)
WalkInv ==
  /\ \A p \in DOMAIN successors : successors[p].prev = p
  /\ pc = "walking" =>
       /\ current \in group
       /\ seen \subseteq Ids(group)
       /\ \A s \in seen :
            unique[s].prev = None \/ unique[s].prev \in seen \ {current.rev}

\* Where the walk goes next it has never been: a revision has one
\* predecessor, and the one of the next revision is the current one.
LEMMA FreshSuccessor ==
  ASSUME BaseInv, WalkInv, pc = "walking", current.rev \in DOMAIN successors
  PROVE  /\ Successor \in group
         /\ Successor.prev = current.rev
         /\ current.rev # None
         /\ unique[Successor.rev] = Successor
         /\ Successor.rev \notin seen
<1>1. Successor \in group /\ Successor.prev = current.rev
  BY DEF BaseInv, TypeOK, WalkInv, Successor
<1>2. Successor \in Known /\ current \in Known
  BY <1>1 DEF BaseInv, TypeOK
<1>3. unique[Successor.rev] = Successor /\ current \in Records
  BY <1>2, KnownById DEF BaseInv
<1>4. current.rev # None
  BY <1>3, RecordsAssumption
<1>5. Successor.rev \notin seen
  BY <1>1, <1>3, <1>4 DEF WalkInv
<1>6. QED
  BY <1>1, <1>3, <1>4, <1>5

LEMMA WalkNext == BaseInv /\ WalkInv /\ [Next]_vars => WalkInv'
<1> SUFFICES ASSUME BaseInv, WalkInv, [Next]_vars PROVE WalkInv'
  OBVIOUS
<1>1. CASE UNCHANGED <<unique, chain>> /\ (pc' = pc \/ pc' # "walking")
  BY <1>1 DEF WalkInv, chain
<1>2. CASE \E why : FailWith(why)
  BY <1>1, <1>2 DEF FailWith
<1>3. ASSUME NEW r \in Records, Read(r), Admit(r) PROVE WalkInv'
  BY <1>3 DEF Read, Admit, WalkInv, chain
<1>4. ASSUME NEW r \in Records, Link(r) PROVE WalkInv'
  <2>1. CASE UNCHANGED <<pc, successors>>
    BY <1>4, <2>1 DEF Link, WalkInv
  <2>2. CASE pc' = pc /\ successors' = With(successors, r.prev, r)
    BY <1>4, <2>2 DEF Link, With, WalkInv
  <2>3. QED
    BY <1>2, <1>4, <2>1, <2>2 DEF Link
<1>5. ASSUME NEW report \in pending, Examine(report) PROVE WalkInv'
  <2>1. CASE pc' = "linking" /\ successors' = <<>>
    BY <2>1 DEF WalkInv
  <2>2. QED
    BY <1>2, <1>5, <2>1 DEF Examine
<1>6. CASE StartWalk
  <2>1. PICK r : Roots(group) = {r}
    BY <1>6 DEF StartWalk, BaseInv, RootInv
  <2>2. current' \in group /\ current'.prev = None /\ seen' = {current'.rev}
    BY <1>6, <2>1 DEF StartWalk, Roots
  <2>3. unique[current'.rev] = current'
    BY <2>2, KnownById DEF BaseInv, TypeOK
  <2>4. UNCHANGED <<unique, group, successors>>
    BY <1>6 DEF StartWalk
  <2>5. QED
    BY <2>2, <2>3, <2>4 DEF WalkInv, Ids
<1>7. CASE Advance
  <2>1. pc = "walking" /\ current.rev \in DOMAIN successors
    BY <1>7 DEF Advance
  <2>2. /\ UNCHANGED <<unique, group, successors>>
        /\ current' = Successor
        /\ seen' = seen \union {Successor.rev}
    BY <1>7, <2>1, FreshSuccessor DEF Advance
  <2>3. current.rev \in seen
    BY <2>1 DEF BaseInv, TypeOK
  <2>4. ASSUME NEW s \in seen'
        PROVE  unique'[s].prev = None \/ unique'[s].prev \in seen' \ {current'.rev}
    <3>1. CASE s \in seen
      BY <2>1, <2>2, <3>1, FreshSuccessor DEF WalkInv
    <3>2. CASE s = Successor.rev
      BY <2>1, <2>2, <2>3, <3>2, FreshSuccessor
    <3>3. QED
      BY <2>2, <3>1, <3>2
  <2>5. current' \in group' /\ seen' \subseteq Ids(group')
    BY <2>1, <2>2, FreshSuccessor DEF WalkInv, Ids
  <2>6. QED
    BY <2>2, <2>4, <2>5 DEF WalkInv
<1>8. CASE EndOfChain
  <2>1. CASE UNCHANGED <<unique, chain>> /\ pc' = "reports"
    BY <1>1, <2>1
  <2>2. QED
    BY <1>2, <1>8, <2>1 DEF EndOfChain
<1>9. QED
  BY <1>1, <1>2, <1>3, <1>4, <1>5, <1>6, <1>7, <1>8
     DEF Next, Stop, Begin, Read, OutOfScope, GroupReports, Return, vars, chain

LEMMA WalkInit == Init => WalkInv
BY DEF Init, WalkInv

\* A walk leads from the root of its group along successors, seen once each.
THEOREM SnapshotWalk == Spec => [](BaseInv /\ WalkInv)
BY BaseInit, BaseNext, WalkInit, WalkNext, PTL DEF Spec

\* The "revision cycle" guard of materialize() (snapshots.py:92) cannot fire,
\* for any records whatever: the single root and the refusal of branches have
\* excluded every cycle that the walk could enter.
THEOREM SnapshotCycleUnreachable == Spec => []CycleUnreachable
<1>1. Init => CycleUnreachable
  BY DEF Init, CycleUnreachable
<1>2. BaseInv /\ WalkInv /\ CycleUnreachable /\ [Next]_vars => CycleUnreachable'
  <2> SUFFICES ASSUME BaseInv, WalkInv, CycleUnreachable, [Next]_vars,
                      pc' = "failed"
               PROVE  error' # "revision cycle"
    BY DEF CycleUnreachable
  <2>1. CASE Advance
    BY <2>1, FreshSuccessor DEF Advance
  <2>2. CASE UNCHANGED vars
    BY <2>2 DEF vars, CycleUnreachable
  <2>3. QED
    BY <2>1, <2>2 DEF Next, Stop, Begin, Read, Admit, OutOfScope, Link, GroupReports,
       Examine, StartWalk, EndOfChain, Return, FailWith, CycleUnreachable
<1>3. QED
  BY <1>1, <1>2, SnapshotWalk, PTL DEF Spec

-----------------------------------------------------------------------------
(***************************************************************************)
(* Every revision is accounted for once.  While reports are examined, the  *)
(* revisions of pending reports have no account yet, those of the examined *)
(* ones have exactly one, and those of the report under examination have   *)
(* one when the walk has left them behind.                                 *)
(***************************************************************************)
Examining(i) == pc \in {"linking", "walking"} /\ unique[i] \in group

LeftBehind(i) == pc = "walking" /\ i \in seen \ {current.rev}

AccountInv ==
  /\ pc \in {"called", "reading"} => ReadIssues /\ effective = {}
  /\ pc \in {"reports", "linking", "walking"} =>
       \A i \in DOMAIN unique :
         /\ ReportOf(unique[i]) \in pending => Unaccounted(i) /\ ~Examining(i)
         /\ Examining(i) => IF LeftBehind(i) THEN OnlySuperseded(i) ELSE Unaccounted(i)
         /\ ReportOf(unique[i]) \notin pending /\ ~Examining(i) => AccountedOnce(i)
  /\ pc = "done" => \A i \in DOMAIN unique : AccountedOnce(i)

\* There are as many identifiers in a report as revisions.
LEMMA IdsOfGroup ==
  ASSUME BaseInv
  PROVE  IsFiniteSet(Ids(group)) /\ Cardinality(Ids(group)) = Cardinality(group)
<1> DEFINE f == [r \in group |-> r.rev]
<1>1. IsFiniteSet(group)
  BY FS_Subset DEF BaseInv, TypeOK
<1>2. \A r, s \in group : r.rev = s.rev => r = s
  BY KnownById DEF BaseInv, TypeOK
<1>3. f \in Surjection(group, Ids(group)) /\ f \in Injection(group, Ids(group))
  BY <1>2 DEF Surjection, Injection, IsInjective, Ids
<1>4. QED
  BY <1>1, <1>3, FS_Surjection

\* A chain that is not disconnected has been walked through.
LEMMA WalkComplete ==
  ASSUME BaseInv, WalkInv, pc = "walking", ~Disconnected
  PROVE  seen = Ids(group)
<1>1. seen \subseteq Ids(group)
  BY DEF WalkInv
<1>2. QED
  BY <1>1, IdsOfGroup, FS_Subset DEF Disconnected

\* Accounting for one revision leaves the account of every other one alone.
LEMMA AccountsOfOthers ==
  ASSUME TypeOK, NEW r \in Known, NEW status,
         unique' = unique,
         issues' = issues \/ issues' = issues \union {<<r.rev, status>>},
         effective' = effective \/ effective' = effective \union {r}
  PROVE  \A i \in DOMAIN unique \ {r.rev} :
           /\ Unaccounted(i)' <=> Unaccounted(i)
           /\ OnlySuperseded(i)' <=> OnlySuperseded(i)
           /\ AccountedOnce(i)' <=> AccountedOnce(i)
<1> SUFFICES ASSUME NEW i \in DOMAIN unique \ {r.rev}
             PROVE  /\ Superseded(i)' <=> Superseded(i)
                    /\ Retracted(i)' <=> Retracted(i)
                    /\ IsEffective(i)' <=> IsEffective(i)
  BY DEF Unaccounted, OnlySuperseded, AccountedOnce
<1>1. unique[i] # r
  BY KnownById DEF TypeOK
<1>2. QED
  BY <1>1 DEF Superseded, Retracted, IsEffective

LEMMA AccountInit == Init => AccountInv
BY DEF Init, AccountInv, ReadIssues

LEMMA AccountNext == BaseInv /\ WalkInv /\ AccountInv /\ [Next]_vars => AccountInv'
<1> SUFFICES ASSUME BaseInv, WalkInv, AccountInv, [Next]_vars PROVE AccountInv'
  OBVIOUS
<1> USE DEF Unaccounted, OnlySuperseded, AccountedOnce, Superseded, Retracted, IsEffective
<1>1. CASE pc' \in {"failed", "stopped"}
  BY <1>1 DEF AccountInv
<1>2. CASE UNCHANGED <<pc, unique, issues, pending, group, current, seen, effective>>
  BY <1>2 DEF AccountInv, ReadIssues, Examining, LeftBehind
<1>3. CASE Begin
  <2>1. CASE pc' = "reading" /\ UNCHANGED <<issues, effective>>
    BY <1>3, <2>1 DEF Begin, AccountInv, ReadIssues
  <2>2. QED
    BY <1>1, <1>3, <2>1 DEF Begin, FailWith
<1>4. ASSUME NEW r \in Records, Read(r) PROVE AccountInv'
  <2>1. CASE OutOfScope(r) \/ Admit(r)
    <3>1. pc = "reading" /\ pc' = pc /\ effective' = effective
      BY <1>4, <2>1 DEF Read, OutOfScope, Admit
    <3>2. \/ issues' = issues
          \/ issues' = issues \union {<<r.rev, "duplicate">>}
          \/ issues' = issues \union {<<r.rev, "out_of_scope">>}
      BY <2>1 DEF OutOfScope, Admit
    <3>3. QED
      BY <3>1, <3>2 DEF AccountInv, ReadIssues
  <2>2. QED
    BY <1>1, <1>4, <2>1 DEF Read, FailWith
<1>5. CASE GroupReports
  <2>1. \A i \in DOMAIN unique : ReportOf(unique[i]) \in pending'
    BY <1>5 DEF GroupReports, Known
  <2>2. pc = "reading" /\ pc' = "reports" /\ UNCHANGED <<unique, issues, effective>>
    BY <1>5 DEF GroupReports
  <2>3. QED
    BY <2>1, <2>2 DEF AccountInv, ReadIssues, Examining
<1>6. ASSUME NEW report \in pending, Examine(report) PROVE AccountInv'
  <2>1. CASE /\ pc' = "linking"
             /\ pending' = pending \ {report}
             /\ group' = {r \in Known : ReportOf(r) = report}
             /\ UNCHANGED <<unique, issues, effective>>
    <3>1. \A i \in DOMAIN unique :
            unique[i] \in group' <=> ReportOf(unique[i]) = report
      BY <2>1 DEF Known
    <3>2. pc = "reports"
      BY <1>6 DEF Examine
    <3>3. QED
      BY <1>6, <2>1, <3>1, <3>2 DEF AccountInv, Examining, LeftBehind
  <2>2. QED
    BY <1>1, <1>6, <2>1 DEF Examine, FailWith
<1>7. ASSUME NEW r \in Records, Link(r) PROVE AccountInv'
  BY <1>1, <1>2, <1>7 DEF Link, FailWith
<1>8. CASE StartWalk
  <2>1. pc = "linking" /\ pc' = "walking" /\ seen' = {current'.rev}
        /\ UNCHANGED <<unique, issues, pending, group, effective>>
    BY <1>8 DEF StartWalk
  <2>2. QED
    BY <2>1 DEF AccountInv, Examining, LeftBehind
<1>9. CASE Advance
  <2>1. /\ pc = "walking"
        /\ Successor.rev \notin seen
        /\ current \in Known /\ current.rev \in seen
    BY <1>9, FreshSuccessor DEF Advance, BaseInv, TypeOK
  <2>2. /\ UNCHANGED <<pc, unique, pending, group, effective>>
        /\ issues' = issues \union {<<current.rev, "superseded">>}
        /\ current' = Successor
        /\ seen' = seen \union {Successor.rev}
    BY <1>9, <2>1 DEF Advance
  <2>3. \A i \in DOMAIN unique : LeftBehind(i)' <=> LeftBehind(i) \/ i = current.rev
    BY <2>1, <2>2 DEF LeftBehind
  <2>4. current.rev \in DOMAIN unique /\ unique[current.rev] = current /\ current \in group
    BY <2>1, KnownById DEF BaseInv, WalkInv
  <2>5. Unaccounted(current.rev)
    BY <2>1, <2>4 DEF AccountInv, Examining, LeftBehind
  <2>6. \A i \in DOMAIN unique : i = current.rev => OnlySuperseded(i)'
    BY <2>2, <2>5
  <2>7. ASSUME NEW i \in DOMAIN unique
        PROVE  /\ ReportOf(unique[i]) \in pending => Unaccounted(i)' /\ ~Examining(i)
               /\ Examining(i) => IF LeftBehind(i)' THEN OnlySuperseded(i)' ELSE Unaccounted(i)'
               /\ ReportOf(unique[i]) \notin pending /\ ~Examining(i) => AccountedOnce(i)'
    <3>1. CASE i = current.rev
      <4>1. Examining(i) /\ LeftBehind(i)' /\ ReportOf(unique[i]) \notin pending
        BY <2>1, <2>3, <2>4, <3>1 DEF AccountInv, Examining
      <4>2. QED
        BY <2>6, <3>1, <4>1
    <3>2. CASE i # current.rev
      <4>1. /\ Unaccounted(i)' <=> Unaccounted(i)
            /\ OnlySuperseded(i)' <=> OnlySuperseded(i)
            /\ AccountedOnce(i)' <=> AccountedOnce(i)
        BY <2>1, <2>2, <3>2, AccountsOfOthers DEF BaseInv
      <4>2. LeftBehind(i)' <=> LeftBehind(i)
        BY <2>3, <3>2
      <4>3. QED
        BY <2>1, <4>1, <4>2 DEF AccountInv
    <3>3. QED
      BY <3>1, <3>2
  <2>8. QED
    BY <2>1, <2>2, <2>7 DEF AccountInv, Examining
<1>10. CASE EndOfChain
  <2>1. CASE ~Disconnected /\ pc' = "reports"
    <3>1. pc = "walking" /\ seen = Ids(group)
      BY <1>10, <2>1, WalkComplete DEF EndOfChain
    <3>2. /\ current \in Known /\ current \in group
          /\ current.rev \in DOMAIN unique /\ unique[current.rev] = current
      BY <3>1, KnownById DEF BaseInv, TypeOK, WalkInv
    <3>3. /\ UNCHANGED <<unique, pending>>
          /\ \/ /\ issues' = issues \union {<<current.rev, "retracted">>}
                /\ effective' = effective
             \/ /\ effective' = effective \union {current}
                /\ issues' = issues
      BY <1>10, <2>1 DEF EndOfChain, FailWith
    <3>4. /\ Unaccounted(current.rev)
          /\ ReportOf(current) \notin pending
      BY <3>1, <3>2 DEF AccountInv, Examining, LeftBehind
    <3>5. \A i \in DOMAIN unique : i = current.rev => AccountedOnce(i)'
      BY <3>2, <3>3, <3>4
    <3>6. ASSUME NEW i \in DOMAIN unique
          PROVE  /\ ReportOf(unique[i]) \in pending => Unaccounted(i)'
                 /\ ReportOf(unique[i]) \notin pending => AccountedOnce(i)'
      <4>1. CASE i = current.rev
        BY <3>2, <3>4, <3>5, <4>1
      <4>2. CASE i # current.rev
        <5>1. /\ Unaccounted(i)' <=> Unaccounted(i)
              /\ AccountedOnce(i)' <=> AccountedOnce(i)
          BY <3>2, <3>3, <4>2, AccountsOfOthers DEF BaseInv
        <5>2. Examining(i) => LeftBehind(i)
          <6>1. unique[i] \in group => i \in Ids(group)
            BY DEF BaseInv, TypeOK, Ids
          <6>2. QED
            BY <3>1, <4>2, <6>1 DEF Examining, LeftBehind
        <5>3. QED
          BY <3>1, <5>1, <5>2 DEF AccountInv
      <4>3. QED
        BY <4>1, <4>2
    <3>7. QED
      BY <2>1, <3>3, <3>6 DEF AccountInv, Examining
  <2>2. QED
    BY <1>1, <1>10, <2>1 DEF EndOfChain, FailWith
<1>11. CASE Return
  BY <1>11 DEF Return, AccountInv, Examining
<1>12. CASE UNCHANGED vars
  BY <1>2, <1>12 DEF vars
<1>13. QED
  BY <1>1, <1>3, <1>4, <1>5, <1>6, <1>7, <1>8, <1>9, <1>10, <1>11, <1>12 DEF Next, Stop

\* For any records whatever, a completed materialize() has made every revision
\* in scope effective, superseded or retracted, and no two of these.
THEOREM SnapshotEveryRevisionAccounted == Spec => []EveryRevisionAccounted
<1>1. AccountInv => EveryRevisionAccounted
  <2> SUFFICES ASSUME AccountInv, pc = "done", NEW i \in DOMAIN unique
               PROVE  Cardinality(Accounts(i)) = 1
    BY DEF EveryRevisionAccounted
  <2>1. AccountedOnce(i)
    BY DEF AccountInv
  <2>2. \/ Accounts(i) = {"superseded"}
        \/ Accounts(i) = {"retracted"}
        \/ Accounts(i) = {"effective"}
    BY <2>1
       DEF AccountedOnce, OnlySuperseded, Superseded, Retracted, IsEffective, Accounts
  <2>3. QED
    BY <2>2, FS_Singleton
<1>2. QED
  BY <1>1, SnapshotWalk, AccountInit, AccountNext, PTL DEF Spec

\* For any records, in any order, materialize() loses no revision between the
\* chains and walks none twice.
THEOREM SnapshotRevisionsAccounted == Spec => []RevisionsAccounted
<1>1. EveryRevisionAccounted /\ CycleUnreachable => RevisionsAccounted
  BY DEF RevisionsAccounted
<1>2. QED
  BY <1>1, SnapshotEveryRevisionAccounted, SnapshotCycleUnreachable, PTL

-----------------------------------------------------------------------------
(***************************************************************************)
(* Chains of revisions                                                     *)
(***************************************************************************)
GroupIn(S, report) == {r \in S : ReportOf(r) = report}

\* s may follow r in a chain.
Follows(r, s) ==
  s.prev = r.rev /\ (r.known # None /\ s.known # None => r.known <= s.known)

\* c lists n revisions of G, from an assertion on.
Listing(c, n, G) ==
  /\ c \in [1..n -> G]
  /\ \A i, j \in 1..n : i # j => c[i] # c[j]
  /\ c[1].prev = None
  /\ \A i \in 1..(n - 1) : Follows(c[i], c[i + 1])

HasChain(G) == \E c \in [1..Cardinality(G) -> G] : Listing(c, Cardinality(G), G)

\* A set of revisions: finitely many, of distinct identifiers.
Revisions(S) ==
  /\ IsFiniteSet(S)
  /\ S \subseteq Records
  /\ \A r, s \in S : r.rev = s.rev => r = s

\* A set of positions has a least one.
LEMMA LeastPosition ==
  ASSUME NEW S \in SUBSET Nat, S # {}
  PROVE  \E m \in S : \A n \in S : m <= n
<1>1. PICK m \in S : \A n \in S : ~ (<<n, m>> \in OpToRel(<, Nat))
  <2> DEFINE R == OpToRel(<, Nat)
  <2>1. IsWellFoundedOn(R, Nat)
    BY NatLessThanWellFounded
  <2> HIDE DEF R
  <2>2. PICK m \in S : \A n \in S : ~ (<<n, m>> \in R)
    BY <2>1, WFMin
  <2> QED
    BY <2>2 DEF R
<1>2. \A n \in S : ~ (n < m)
  BY <1>1 DEF OpToRel
<1> QED
  BY <1>2

\* A listing as long as the group lists every revision of it.
LEMMA ListsAll ==
  ASSUME NEW G, Revisions(G), NEW c, Listing(c, Cardinality(G), G)
  PROVE  /\ Cardinality(G) \in Nat
         /\ \A r \in G : \E i \in 1..Cardinality(G) : c[i] = r
<1> DEFINE n == Cardinality(G)
<1>1. n \in Nat
  BY FS_CardinalityType DEF Revisions
<1>2. c \in Injection(1..n, G)
  BY DEF Listing, Injection, IsInjective
<1>3. Cardinality(1..n) = n
  BY <1>1, FS_Interval
<1>4. c \in Surjection(1..n, G)
  BY <1>2, <1>3, FS_Injection DEF Revisions
<1> QED
  BY <1>1, <1>4 DEF Surjection

\* Every revision of a chain but its assertion follows one of the chain.
LEMMA Predecessor ==
  ASSUME NEW G, Revisions(G), HasChain(G), NEW r \in G, r.prev # None
  PROVE  \E p \in G : Follows(p, r)
<1> DEFINE n == Cardinality(G)
<1>1. PICK c : Listing(c, n, G)
  BY DEF HasChain
<1>2. PICK i \in 1..n : c[i] = r
  BY <1>1, ListsAll
<1>3. i # 1 /\ n \in Nat
  BY <1>1, <1>2, ListsAll DEF Listing
<1>4. i - 1 \in 1..(n - 1) /\ i - 1 + 1 = i
  BY <1>3
<1>5. Follows(c[i - 1], c[i]) /\ c[i - 1] \in G
  BY <1>1, <1>3, <1>4 DEF Listing
<1> QED
  BY <1>2, <1>5

\* A chain has one root.
LEMMA ChainRoot ==
  ASSUME NEW G, Revisions(G), HasChain(G), G # {}
  PROVE  Cardinality(Roots(G)) = 1
<1> DEFINE n == Cardinality(G)
<1>1. PICK c : Listing(c, n, G)
  BY DEF HasChain
<1>2. n \in Nat /\ n # 0
  BY <1>1, ListsAll
<1>3. c[1] \in G /\ c[1].prev = None
  BY <1>1, <1>2 DEF Listing
<1>4. ASSUME NEW r \in G, r.prev = None PROVE r = c[1]
  <2>1. PICK i \in 1..n : c[i] = r
    BY <1>1, ListsAll
  <2>2. CASE i # 1
    <3>1. i - 1 \in 1..(n - 1) /\ i - 1 + 1 = i
      BY <1>2, <2>2
    <3>2. Follows(c[i - 1], c[i]) /\ c[i - 1] \in G
      BY <1>1, <1>2, <3>1 DEF Listing
    <3>3. c[i - 1].rev # None
      BY <3>2, RecordsAssumption DEF Revisions
    <3> QED
      BY <1>4, <2>1, <3>2, <3>3 DEF Follows
  <2> QED
    BY <2>1, <2>2
<1>5. Roots(G) = {c[1]}
  BY <1>3, <1>4 DEF Roots
<1> QED
  BY <1>5, FS_Singleton

\* No two revisions of a chain revise the same one.
LEMMA NoBranch ==
  ASSUME NEW G, Revisions(G), HasChain(G),
         NEW r \in G, NEW s \in G, r.prev = s.prev, r.prev # None
  PROVE  r = s
<1> DEFINE n == Cardinality(G)
<1>1. PICK c : Listing(c, n, G)
  BY DEF HasChain
<1>2. PICK i \in 1..n : c[i] = r
  BY <1>1, ListsAll
<1>3. PICK j \in 1..n : c[j] = s
  BY <1>1, ListsAll
<1>4. i # 1 /\ j # 1 /\ n \in Nat
  BY <1>1, <1>2, <1>3, ListsAll DEF Listing
<1>5. /\ i - 1 \in 1..(n - 1) /\ i - 1 + 1 = i /\ i - 1 \in 1..n
      /\ j - 1 \in 1..(n - 1) /\ j - 1 + 1 = j /\ j - 1 \in 1..n
  BY <1>4
<1>6. /\ Follows(c[i - 1], c[i]) /\ c[i - 1] \in G
      /\ Follows(c[j - 1], c[j]) /\ c[j - 1] \in G
  BY <1>1, <1>5 DEF Listing
<1>7. c[i - 1] = c[j - 1]
  BY <1>2, <1>3, <1>6 DEF Follows, Revisions
<1>8. i - 1 = j - 1
  BY <1>1, <1>5, <1>7 DEF Listing
<1> QED
  BY <1>2, <1>3, <1>5, <1>8

-----------------------------------------------------------------------------
(***************************************************************************)
(* What RevisionHistory says, in these terms                               *)
(***************************************************************************)
Chained(S) == \A r \in S : HasChain(GroupIn(S, ReportOf(r)))

LEMMA HistoryChains ==
  ASSUME NEW G, Revisions(G)
  PROVE  History!Chains(G) # {} <=> HasChain(G)
<1> DEFINE n == Cardinality(G)
<1>1. n \in Nat
  BY FS_CardinalityType DEF Revisions
<1>2. History!SetToSeqs(G) = {f \in [1..n -> G] : \A i, j \in 1..n : f[i] = f[j] => i = j}
  <2>1. History!Cardinality(G) = n
    BY DEF Cardinality, History!Cardinality
  <2> QED
    BY <2>1 DEF History!SetToSeqs, History!IsInjective
<1>3. ASSUME NEW c \in [1..n -> G]
      PROVE  Listing(c, n, G) <=> c \in History!SetToSeqs(G) /\ History!IsChain(c)
  <2>1. Len(c) = n
    BY <1>1, <1>3
  <2> QED
    BY <1>2, <2>1 DEF Listing, Follows, History!IsChain
<1>4. \A c : Listing(c, n, G) => c \in [1..n -> G]
  BY DEF Listing
<1>5. \A c \in History!SetToSeqs(G) : c \in [1..n -> G]
  BY <1>2
<1> QED
  BY <1>3, <1>4, <1>5 DEF HasChain, History!Chains

LEMMA HistoryValid ==
  ASSUME NEW S, NEW q, Revisions(History!Known(S, q.cutoff))
  PROVE  History!Valid(S, q) <=>
           /\ History!Accepted(q)
           /\ q.policy = "static-v1" \/ \A r \in S : r.known # None
           /\ Chained(History!Known(S, q.cutoff))
<1> DEFINE K == History!Known(S, q.cutoff)
<1>1. ASSUME NEW report PROVE Revisions(GroupIn(K, report))
  BY FS_Subset DEF Revisions, GroupIn
<1>2. \A r \in K : History!Revisions(K, ReportOf(r)) = GroupIn(K, ReportOf(r))
  BY DEF History!Revisions, History!ReportOf, GroupIn, ReportOf
<1>3. History!Reports(K) = {ReportOf(r) : r \in K}
  BY DEF History!Reports, History!ReportOf, ReportOf
<1>4. History!Consistent(K) <=> Chained(K)
  BY <1>1, <1>2, <1>3, HistoryChains DEF History!Consistent, Chained, Revisions
<1> QED
  BY <1>4 DEF History!Valid

LEMMA HistoryScope ==
  ASSUME NEW S, S \subseteq Records, request.cutoff \in Times \union {None}
  PROVE  History!Known(S, request.cutoff) = {r \in S : ~ AfterCutoff(r)}
<1> DEFINE t == request.cutoff
<1>1. ASSUME NEW r \in S PROVE History!InScope(r, t) <=> ~ AfterCutoff(r)
  <2>1. r.known \in Int \/ r.known = None
    BY RecordsAssumption
  <2>2. t \in Int \/ t = None
    BY RecordsAssumption
  <2> QED
    BY <2>1, <2>2 DEF History!InScope, AfterCutoff
<1> HIDE DEF t
<1> QED
  BY <1>1 DEF History!Known, t

-----------------------------------------------------------------------------
(***************************************************************************)
(* The history: the inductive invariant                                    *)
(***************************************************************************)
Group(report) == GroupIn(Known, report)

\* What the call was asked, and what was read.
RequestInv ==
  /\ request \in History!Request
  /\ arrived \in [DOMAIN arrived -> Nat \ {0}]
  /\ pc = "called" => DOMAIN arrived = {}
  /\ pc \in {"reading", "reports", "linking", "walking", "done"} =>
       /\ History!Accepted(request)
       /\ Static \/ \A r \in DOMAIN arrived : r.known # None

\* What is known, and what the issues say of what was read.
IssueInv ==
  pc \notin {"failed", "stopped"} =>
    /\ Known = {r \in DOMAIN arrived : ~ AfterCutoff(r)}
    /\ \A r \in Known : <<r.rev, "duplicate">> \in issues <=> arrived[r] > 1
    /\ \A x \in issues :
         /\ x = <<x[1], x[2]>>
         /\ x[2] = "out_of_scope" => \E r \in DOMAIN arrived : AfterCutoff(r) /\ r.rev = x[1]
         /\ x[2] # "out_of_scope" => x[1] \in DOMAIN unique
    /\ \A r \in DOMAIN arrived : AfterCutoff(r) => <<r.rev, "out_of_scope">> \in issues

\* The links of a report lead from each of its revisions to the next.
LinkInv ==
  /\ pc \in {"linking", "walking"} =>
       /\ \A r \in group : ReportOf(r) \notin pending /\ group = Group(ReportOf(r))
       /\ \A r \in group \ unlinked :
            r.prev # None => r.prev \in DOMAIN successors /\ successors[r.prev] = r
       /\ \A i \in DOMAIN successors :
            /\ successors[i] \in group \ unlinked
            /\ i \in DOMAIN unique /\ unique[i] \in group
            /\ Follows(unique[i], successors[i])
  /\ pc = "walking" => unlinked = {}

\* What the walk has met is a listing.
PathInv ==
  pc = "walking" =>
    /\ IsFiniteSet(seen) /\ Cardinality(seen) \in Nat \ {0}
    /\ \E c \in [1..Cardinality(seen) -> group] :
         /\ Listing(c, Cardinality(seen), group)
         /\ c[Cardinality(seen)] = current
         /\ seen = {c[i].rev : i \in 1..Cardinality(seen)}

\* What the issues and the effective revisions say is so.
IsTip(r) == \A s \in Group(ReportOf(r)) : s.prev # r.rev

DispositionInv ==
  \A r \in Known :
    /\ Superseded(r.rev) => \E s \in Known : s.prev = r.rev
    /\ Retracted(r.rev) => r.action = "retract" /\ IsTip(r)
    /\ r \in effective => r.action # "retract" /\ IsTip(r)

\* A report that was examined has a chain.
ChainInv ==
  /\ pc \in {"reports", "linking", "walking"} =>
       pending \subseteq {ReportOf(r) : r \in Known}
  /\ pc \in {"reports", "linking", "walking"} =>
       \A r \in Known :
         \/ ReportOf(r) \in pending
         \/ pc # "reports" /\ r \in group
         \/ HasChain(Group(ReportOf(r)))
  /\ pc = "done" => Chained(Known)

HistoryInv == RequestInv /\ IssueInv /\ LinkInv /\ PathInv /\ DispositionInv /\ ChainInv

LEMMA HistoryInit == Init => HistoryInv
<1> SUFFICES ASSUME Init PROVE HistoryInv
  OBVIOUS
<1>1. Known = {} /\ DOMAIN arrived = {}
  BY DEF Init, Known, EmptyBag, SetToBag
<1>2. RequestInv
  BY <1>1 DEF Init, RequestInv, History!Request, EmptyBag, SetToBag
<1> QED
  BY <1>1, <1>2 DEF Init, HistoryInv, IssueInv, LinkInv, PathInv, DispositionInv, ChainInv

\* One more copy of a record.
LEMMA OneMore ==
  ASSUME arrived \in [DOMAIN arrived -> Nat \ {0}], NEW r,
         arrived' = arrived (+) SetToBag({r})
  PROVE  /\ DOMAIN arrived' = DOMAIN arrived \union {r}
         /\ \A x \in DOMAIN arrived \ {r} : arrived'[x] = arrived[x]
         /\ arrived'[r] = IF r \in DOMAIN arrived THEN arrived[r] + 1 ELSE 1
         /\ arrived' \in [DOMAIN arrived' -> Nat \ {0}]
<1> DEFINE D == DOMAIN arrived \union {r}
<1>1. SetToBag({r}) = [x \in {r} |-> 1]
  BY DEF SetToBag
<1>2. arrived' = [x \in D |-> (IF x \in DOMAIN arrived THEN arrived[x] ELSE 0)
                               + (IF x \in {r} THEN [y \in {r} |-> 1][x] ELSE 0)]
  BY <1>1 DEF (+)
<1>3. DOMAIN arrived' = D
  BY <1>2
<1>4. \A x \in D : arrived'[x] = (IF x \in DOMAIN arrived THEN arrived[x] ELSE 0)
                                  + (IF x = r THEN 1 ELSE 0)
  BY <1>2
<1>5. \A x \in DOMAIN arrived : arrived[x] \in Nat \ {0}
  OBVIOUS
<1>6. \A x \in D : arrived'[x] \in Nat \ {0}
  BY <1>4, <1>5
<1>7. arrived' = [x \in DOMAIN arrived' |-> arrived'[x]]
  BY <1>2
<1>8. arrived' \in [DOMAIN arrived' -> Nat \ {0}]
  BY <1>3, <1>6, <1>7
<1>9. r \in D /\ \A x \in DOMAIN arrived : x \in D
  OBVIOUS
<1>10. arrived'[r] = IF r \in DOMAIN arrived THEN arrived[r] + 1 ELSE 1
  BY <1>4, <1>5, <1>9
<1>11. \A x \in DOMAIN arrived \ {r} : arrived'[x] = arrived[x]
  BY <1>4, <1>5, <1>9
<1> QED
  BY <1>3, <1>8, <1>10, <1>11

LEMMA RequestNext == RequestInv /\ [Next]_vars => RequestInv'
<1> SUFFICES ASSUME RequestInv, [Next]_vars PROVE RequestInv'
  OBVIOUS
<1>1. CASE /\ UNCHANGED <<request, arrived>>
           /\ \/ pc' \in {"failed", "stopped"}
              \/ pc' = pc
              \/ pc' # "called" /\ pc \in {"reading", "reports", "linking", "walking"}
  BY <1>1 DEF RequestInv, Static
<1>2. CASE Begin
  <2>1. CASE pc' = "reading" /\ request.policy # "other" /\ (Static \/ request.cutoff # None)
    <3>1. History!Accepted(request)
      BY <2>1 DEF RequestInv, History!Request, History!Accepted, Static
    <3> QED
      BY <1>2, <2>1, <3>1 DEF Begin, RequestInv, input, Static
  <2> QED
    BY <1>1, <1>2, <2>1 DEF Begin, FailWith, input, Static
<1>3. ASSUME NEW r \in Records, Read(r) PROVE RequestInv'
  <2>1. /\ DOMAIN arrived' = DOMAIN arrived \union {r}
        /\ arrived' \in [DOMAIN arrived' -> Nat \ {0}]
        /\ request' = request /\ pc = "reading"
    BY <1>3, OneMore DEF Read, RequestInv
  <2>2. CASE pc' = "failed"
    BY <2>1, <2>2 DEF RequestInv
  <2>3. CASE pc' = pc /\ (r.known # None \/ Static)
    BY <2>1, <2>3 DEF RequestInv, Static
  <2> QED
    BY <1>3, <2>1, <2>2, <2>3 DEF Read, FailWith, OutOfScope, Admit
<1>4. CASE UNCHANGED vars
  BY <1>1, <1>4 DEF vars
<1> QED
  BY <1>1, <1>2, <1>3, <1>4 DEF Next, Stop, Link, GroupReports, Examine, StartWalk, Advance,
     EndOfChain, Return, FailWith, input

LEMMA IssueNext ==
  BaseInv /\ RequestInv /\ IssueInv /\ [Next]_vars => IssueInv'
<1> SUFFICES ASSUME BaseInv, RequestInv, IssueInv, [Next]_vars,
                    pc' \notin {"failed", "stopped"}
             PROVE  IssueInv'
  BY DEF IssueInv
<1>1. CASE /\ UNCHANGED <<request, arrived, unique, issues>>
           /\ pc \notin {"failed", "stopped"}
  BY <1>1 DEF IssueInv, Known, AfterCutoff
<1>2. ASSUME NEW r \in Known, NEW status \in {"superseded", "retracted"},
             UNCHANGED <<request, arrived, unique>>, pc \notin {"failed", "stopped"},
             issues' = issues \union {<<r.rev, status>>}
      PROVE  IssueInv'
  <2>1. r.rev \in DOMAIN unique
    BY KnownById DEF BaseInv
  <2>2. Known' = Known /\ \A s : AfterCutoff(s)' <=> AfterCutoff(s)
    BY <1>2 DEF Known, AfterCutoff
  <2>3. \A s : <<s.rev, "duplicate">> \in issues' <=> <<s.rev, "duplicate">> \in issues
    BY <1>2
  <2>4. \A s : <<s.rev, "out_of_scope">> \in issues => <<s.rev, "out_of_scope">> \in issues'
    BY <1>2
  <2>5. \A x \in issues' : x \in issues \/ x = <<r.rev, status>>
    BY <1>2
  <2> QED
    BY <1>2, <2>1, <2>2, <2>3, <2>4, <2>5 DEF IssueInv
<1>3. ASSUME NEW r \in Records, Read(r) PROVE IssueInv'
  <2>1. /\ DOMAIN arrived' = DOMAIN arrived \union {r}
        /\ \A x \in DOMAIN arrived \ {r} : arrived'[x] = arrived[x]
        /\ arrived'[r] = IF r \in DOMAIN arrived THEN arrived[r] + 1 ELSE 1
        /\ request' = request /\ pc = "reading"
    BY <1>3, OneMore DEF Read, RequestInv
  <2>2. \A s : AfterCutoff(s)' <=> AfterCutoff(s)
    BY <2>1 DEF AfterCutoff
  <2>3. CASE AfterCutoff(r) /\ OutOfScope(r)
    <3>1. /\ Known' = Known /\ unique' = unique
          /\ issues' = issues \union {<<r.rev, "out_of_scope">>}
      BY <2>3 DEF OutOfScope, Known
    <3>2. \A s \in Known : s # r /\ s \in DOMAIN arrived
      BY <2>1, <2>3 DEF IssueInv
    <3>3. \A s : <<s.rev, "duplicate">> \in issues' <=> <<s.rev, "duplicate">> \in issues
      BY <3>1
    <3>4. Known' = {s \in DOMAIN arrived' : ~ AfterCutoff(s)'}
      BY <2>1, <2>2, <2>3, <3>1 DEF IssueInv
    <3>5. \A s \in Known' : <<s.rev, "duplicate">> \in issues' <=> arrived'[s] > 1
      BY <2>1, <3>1, <3>2, <3>3 DEF IssueInv
    <3>6. \A x \in issues' : x \in issues \/ x = <<r.rev, "out_of_scope">>
      BY <3>1
    <3>7. \A s \in DOMAIN arrived' : AfterCutoff(s)' => <<s.rev, "out_of_scope">> \in issues'
      BY <2>1, <2>2, <3>1 DEF IssueInv
    <3>8. \A x \in issues' :
            /\ x = <<x[1], x[2]>>
            /\ x[2] = "out_of_scope" =>
                 \E s \in DOMAIN arrived' : AfterCutoff(s)' /\ s.rev = x[1]
            /\ x[2] # "out_of_scope" => x[1] \in DOMAIN unique'
      BY <2>1, <2>2, <2>3, <3>1, <3>6 DEF IssueInv
    <3> QED
      BY <3>4, <3>5, <3>7, <3>8 DEF IssueInv
  <2>4. CASE ~ AfterCutoff(r) /\ ~ Conflicts(r) /\ Admit(r)
    <3>1. /\ DOMAIN unique' = DOMAIN unique \union {r.rev}
          /\ \A i \in DOMAIN unique : unique'[i] = unique[i]
          /\ unique'[r.rev] = r
      BY <2>4 DEF Admit, With, Conflicts
    <3>2. Known' = Known \union {r}
      BY <3>1 DEF Known
    <3>3. r.rev \in DOMAIN unique => r \in Known /\ r \in DOMAIN arrived
      BY <2>1, <2>4 DEF Conflicts, Known, IssueInv
    <3>4. r.rev \notin DOMAIN unique =>
             r \notin DOMAIN arrived /\ <<r.rev, "duplicate">> \notin issues
      <4>1. r \in DOMAIN arrived => r \in Known
        BY <2>1, <2>4 DEF IssueInv
      <4>2. r \in Known => r.rev \in DOMAIN unique
        BY KnownById DEF BaseInv
      <4>3. <<r.rev, "duplicate">> \in issues => r.rev \in DOMAIN unique
        BY <2>1 DEF IssueInv
      <4> QED
        BY <4>1, <4>2, <4>3
    <3>5. issues' = issues \union IF r.rev \in DOMAIN unique THEN {<<r.rev, "duplicate">>} ELSE {}
      BY <2>4 DEF Admit
    <3>6. Known' = {s \in DOMAIN arrived' : ~ AfterCutoff(s)'}
      BY <2>1, <2>2, <2>4, <3>2 DEF IssueInv
    <3>7. ASSUME NEW s \in Known' PROVE <<s.rev, "duplicate">> \in issues' <=> arrived'[s] > 1
      <4>1. CASE s = r /\ r.rev \in DOMAIN unique
        <5>1. <<r.rev, "duplicate">> \in issues'
          BY <3>5, <4>1
        <5>2. arrived[r] \in Nat \ {0}
          BY <3>3, <4>1 DEF RequestInv
        <5> QED
          BY <2>1, <3>3, <4>1, <5>1, <5>2
      <4>2. CASE s = r /\ r.rev \notin DOMAIN unique
        BY <2>1, <3>4, <3>5, <4>2
      <4>3. CASE s # r
        <5>1. s \in Known /\ s \in DOMAIN arrived \ {r}
          BY <2>1, <3>2, <3>6, <4>3
        <5>2. s.rev = r.rev => s = r
          BY <2>4, <5>1, KnownById DEF Conflicts, BaseInv
        <5>3. <<s.rev, "duplicate">> \in issues' <=> <<s.rev, "duplicate">> \in issues
          BY <3>5, <4>3, <5>2
        <5> QED
          BY <2>1, <5>1, <5>3 DEF IssueInv
      <4> QED
        BY <4>1, <4>2, <4>3
    <3>8. \A x \in issues' : x \in issues \/ x = <<r.rev, "duplicate">>
      BY <3>5
    <3>9. \A x \in issues' :
            /\ x = <<x[1], x[2]>>
            /\ x[2] = "out_of_scope" =>
                 \E s \in DOMAIN arrived' : AfterCutoff(s)' /\ s.rev = x[1]
            /\ x[2] # "out_of_scope" => x[1] \in DOMAIN unique'
      BY <2>1, <2>2, <3>1, <3>8 DEF IssueInv
    <3>10. \A s \in DOMAIN arrived' : AfterCutoff(s)' => <<s.rev, "out_of_scope">> \in issues'
      BY <2>1, <2>2, <2>4, <3>5 DEF IssueInv
    <3> QED
      BY <3>6, <3>7, <3>9, <3>10 DEF IssueInv
  <2> QED
    BY <1>3, <2>3, <2>4 DEF Read, FailWith
<1>4. CASE Advance
  <2>1. current \in Known /\ pc = "walking"
    BY <1>4 DEF Advance, BaseInv, TypeOK
  <2>2. /\ UNCHANGED <<request, arrived, unique>>
        /\ issues' = issues \union {<<current.rev, "superseded">>}
    BY <1>4 DEF Advance, FailWith, input
  <2> QED
    BY <1>2, <2>1, <2>2
<1>5. CASE EndOfChain
  <2>1. current \in Known /\ pc = "walking"
    BY <1>5 DEF EndOfChain, BaseInv, TypeOK
  <2>2. /\ UNCHANGED <<request, arrived, unique>>
        /\ issues' = issues \union {<<current.rev, "retracted">>} \/ issues' = issues
    BY <1>5 DEF EndOfChain, FailWith, input
  <2> QED
    BY <1>1, <1>2, <2>1, <2>2
<1>6. CASE UNCHANGED vars
  BY <1>1, <1>6 DEF vars
<1> QED
  BY <1>1, <1>3, <1>4, <1>5, <1>6 DEF Next, Stop, Begin, Link, GroupReports, Examine,
     StartWalk, Return, FailWith, input

LEMMA LinkNext == BaseInv /\ LinkInv /\ [Next]_vars => LinkInv'
<1> SUFFICES ASSUME BaseInv, LinkInv, [Next]_vars PROVE LinkInv'
  OBVIOUS
<1>1. CASE pc' \notin {"linking", "walking"}
  BY <1>1 DEF LinkInv
<1>2. CASE UNCHANGED <<pc, unique, pending, group, unlinked, successors>>
  BY <1>2 DEF LinkInv, Group, GroupIn, Known
<1>3. ASSUME NEW report \in pending, Examine(report) PROVE LinkInv'
  <2>1. CASE /\ pc' = "linking" /\ pending' = pending \ {report} /\ unique' = unique
             /\ group' = {r \in Known : ReportOf(r) = report} /\ unlinked' = group'
             /\ successors' = <<>>
    <3>1. group' = Group(report)' /\ report \notin pending'
      BY <2>1 DEF Group, GroupIn, Known
    <3>2. \A r \in group' : ReportOf(r) = report
      BY <2>1
    <3> QED
      BY <2>1, <3>1, <3>2 DEF LinkInv
  <2> QED
    BY <1>1, <1>3, <2>1 DEF Examine, FailWith
<1>4. ASSUME NEW r \in Records, Link(r) PROVE LinkInv'
  <2>1. r \in group /\ r \in Known /\ pc = "linking"
    BY <1>4 DEF Link, BaseInv, TypeOK
  <2>2. r \in group /\ r \in Known /\ pc = "linking" /\ group = Group(ReportOf(r))
    BY <2>1 DEF LinkInv
  <2>3. CASE /\ r.prev = None /\ unlinked' = unlinked \ {r}
             /\ UNCHANGED <<pc, unique, pending, group, successors>>
    <3>1. \A i \in DOMAIN successors : successors[i] \in group \ unlinked'
      BY <2>2, <2>3 DEF LinkInv
    <3> QED
      BY <2>1, <2>2, <2>3, <3>1 DEF LinkInv, Group, GroupIn, Known
  <2>4. CASE /\ r.prev # None /\ r.prev \notin DOMAIN successors
             /\ ~ Foreign(r) /\ ~ Predates(r)
             /\ unlinked' = unlinked \ {r} /\ successors' = With(successors, r.prev, r)
             /\ UNCHANGED <<pc, unique, pending, group>>
    <3>1. /\ DOMAIN successors' = DOMAIN successors \union {r.prev}
          /\ \A i \in DOMAIN successors : successors'[i] = successors[i]
          /\ successors'[r.prev] = r
      BY <2>4 DEF With
    <3>2. r.prev \in DOMAIN unique /\ unique[r.prev].rev = r.prev
      BY <2>4 DEF Foreign, BaseInv, TypeOK
    <3>3. unique[r.prev] \in group
      BY <2>1, <2>2, <2>4, <3>2 DEF Foreign, Group, GroupIn, Known
    <3>4. Follows(unique[r.prev], r)
      <4>1. unique[r.prev].known \in Int \/ unique[r.prev].known = None
        BY <3>2, RecordsAssumption DEF BaseInv, TypeOK
      <4>2. r.known \in Int \/ r.known = None
        BY RecordsAssumption
      <4> QED
        BY <2>4, <3>2, <4>1, <4>2 DEF Predates, Follows
    <3>5. \A s \in group \ unlinked' :
            s.prev # None => s.prev \in DOMAIN successors' /\ successors'[s.prev] = s
      BY <2>2, <2>4, <3>1 DEF LinkInv
    <3>6. ASSUME NEW i \in DOMAIN successors'
          PROVE  /\ successors'[i] \in group \ unlinked'
                 /\ i \in DOMAIN unique /\ unique[i] \in group
                 /\ Follows(unique[i], successors'[i])
      BY <2>2, <2>4, <3>1, <3>2, <3>3, <3>4 DEF LinkInv
    <3>7. \A s \in group' : ReportOf(s) \notin pending' /\ group' = Group(ReportOf(s))'
      BY <2>2, <2>4 DEF LinkInv, Group, GroupIn, Known
    <3> QED
      BY <2>2, <2>4, <3>5, <3>6, <3>7 DEF LinkInv
  <2> QED
    BY <1>1, <1>4, <2>3, <2>4 DEF Link, FailWith
<1>5. CASE StartWalk
  <2>1. /\ pc = "linking" /\ unlinked = {}
        /\ UNCHANGED <<unique, pending, group, unlinked, successors>>
    BY <1>5 DEF StartWalk
  <2> QED
    BY <2>1 DEF LinkInv, Group, GroupIn, Known
<1>6. CASE UNCHANGED vars
  BY <1>2, <1>6 DEF vars
<1>7. CASE Advance
  BY <1>1, <1>2, <1>7 DEF Advance, FailWith
<1>8. CASE EndOfChain
  BY <1>1, <1>8 DEF EndOfChain, FailWith
<1> QED
  BY <1>1, <1>3, <1>4, <1>5, <1>6, <1>7, <1>8
     DEF Next, Stop, Begin, Read, Admit, OutOfScope, GroupReports, Return, FailWith, chain

LEMMA PathNext ==
  BaseInv /\ WalkInv /\ LinkInv /\ PathInv /\ [Next]_vars => PathInv'
<1> SUFFICES ASSUME BaseInv, WalkInv, LinkInv, PathInv, [Next]_vars, pc' = "walking"
             PROVE  PathInv'
  BY DEF PathInv
<1>1. CASE UNCHANGED <<pc, group, current, seen>>
  BY <1>1 DEF PathInv
<1>2. CASE StartWalk
  <2>1. PICK r : Roots(group) = {r}
    BY <1>2 DEF StartWalk, BaseInv, RootInv
  <2>2. current' = r /\ seen' = {r.rev} /\ group' = group
    BY <1>2, <2>1 DEF StartWalk
  <2>3. r \in group /\ r.prev = None
    BY <2>1 DEF Roots
  <2> DEFINE c == [i \in 1..1 |-> r]
  <2>4. Listing(c, 1, group)
    BY <2>3 DEF Listing
  <2>5. IsFiniteSet(seen') /\ Cardinality(seen') = 1
    BY <2>2, FS_Singleton
  <2>6. c[1] = r /\ {r.rev} = {c[i].rev : i \in 1..1}
    OBVIOUS
  <2> HIDE DEF c
  <2>7. /\ Listing(c, Cardinality(seen'), group') /\ c[Cardinality(seen')] = current'
        /\ seen' = {c[i].rev : i \in 1..Cardinality(seen')}
    BY <2>2, <2>4, <2>5, <2>6
  <2>8. PICK e \in [1..Cardinality(seen') -> group'] : e = c
    BY <2>7 DEF Listing
  <2> QED
    BY <2>5, <2>7, <2>8 DEF PathInv
<1>3. CASE Advance
  <2>1. pc = "walking" /\ current.rev \in DOMAIN successors /\ group' = group
        /\ current' = Successor /\ seen' = seen \union {Successor.rev}
    BY <1>3 DEF Advance, FailWith
  <2>2. /\ Successor \in group /\ Successor.rev \notin seen
        /\ unique[current.rev] = current
    <3>1. current \in Known
      BY <2>1 DEF BaseInv, TypeOK
    <3> QED
      BY <2>1, <3>1, FreshSuccessor, KnownById DEF BaseInv
  <2>3. Follows(current, Successor)
    BY <2>1, <2>2 DEF LinkInv, Successor
  <2> DEFINE m == Cardinality(seen)
  <2>4. /\ IsFiniteSet(seen) /\ m \in Nat \ {0}
        /\ IsFiniteSet(seen') /\ Cardinality(seen') = m + 1
    BY <2>1, <2>2, FS_AddElement DEF PathInv
  <2>5. PICK c : Listing(c, m, group) /\ c[m] = current /\ seen = {c[i].rev : i \in 1..m}
    BY <2>1 DEF PathInv
  <2> DEFINE d == [i \in 1..(m + 1) |-> IF i = m + 1 THEN Successor ELSE c[i]]
  <2> HIDE DEF m
  <2>6. \A i \in 1..m : i \in 1..(m + 1) /\ i # m + 1 /\ d[i] = c[i]
    BY <2>4
  <2>7. d[m + 1] = Successor /\ d \in [1..(m + 1) -> group]
    BY <2>2, <2>4, <2>5 DEF Listing
  <2>8. \A i \in 1..(m + 1) : i \in 1..m \/ i = m + 1
    BY <2>4
  <2> HIDE DEF d
  <2>9. \A i \in 1..m : c[i] # Successor
    BY <2>2, <2>5
  <2>10. \A i, j \in 1..(m + 1) : i # j => d[i] # d[j]
    BY <2>5, <2>6, <2>7, <2>8, <2>9 DEF Listing
  <2>11. d[1].prev = None
    BY <2>4, <2>5, <2>6 DEF Listing
  <2>12. ASSUME NEW i \in 1..m PROVE Follows(d[i], d[i + 1])
    <3>1. CASE i = m
      BY <2>3, <2>5, <2>6, <2>7, <3>1
    <3>2. CASE i # m
      <4>1. i \in 1..(m - 1) /\ i + 1 \in 1..m
        BY <2>4, <3>2
      <4> QED
        BY <2>5, <2>6, <4>1 DEF Listing
    <3> QED
      BY <3>1, <3>2
  <2>13. m + 1 - 1 = m
    BY <2>4
  <2>14. Listing(d, m + 1, group)
    BY <2>4, <2>7, <2>10, <2>11, <2>12, <2>13 DEF Listing
  <2>15. seen' = {d[i].rev : i \in 1..(m + 1)}
    <3>1. m + 1 \in 1..(m + 1)
      BY <2>4
    <3> QED
      BY <2>1, <2>5, <2>6, <2>7, <2>8, <3>1
  <2>16. /\ Listing(d, Cardinality(seen'), group') /\ d[Cardinality(seen')] = current'
         /\ seen' = {d[i].rev : i \in 1..Cardinality(seen')}
    BY <2>1, <2>4, <2>7, <2>14, <2>15
  <2>17. Cardinality(seen') \in Nat \ {0}
    BY <2>4
  <2>18. PICK e \in [1..Cardinality(seen') -> group'] : e = d
    BY <2>16 DEF Listing
  <2> QED
    BY <2>4, <2>16, <2>17, <2>18 DEF PathInv
<1>4. CASE UNCHANGED vars
  BY <1>1, <1>4 DEF vars
<1> QED
  BY <1>1, <1>2, <1>3, <1>4
     DEF Next, Stop, Begin, Read, Admit, OutOfScope, Link, GroupReports, Examine, EndOfChain,
         Return, FailWith, chain

\* The revisions under examination are those of one report.
LEMMA GroupOfOne ==
  ASSUME BaseInv, LinkInv, pc \in {"linking", "walking"}, NEW r \in group
  PROVE  /\ group = Group(ReportOf(r)) /\ ReportOf(r) \notin pending
         /\ r \in Known /\ Revisions(group)
<1>1. group = Group(ReportOf(r)) /\ ReportOf(r) \notin pending
  BY DEF LinkInv
<1>2. r \in Known
  BY <1>1 DEF Group, GroupIn
<1>3. Revisions(group)
  BY FS_Subset, KnownById DEF BaseInv, TypeOK, Revisions
<1> QED
  BY <1>1, <1>2, <1>3

\* Nothing revises the revision at the end of a walk.
LEMMA EndIsTip ==
  ASSUME BaseInv, WalkInv, LinkInv, pc = "walking", current.rev \notin DOMAIN successors
  PROVE  IsTip(current)
<1>1. current \in group /\ group = Group(ReportOf(current)) /\ current \in Known
  BY GroupOfOne DEF WalkInv
<1>2. current.rev # None
  BY <1>1, KnownById, RecordsAssumption DEF BaseInv
<1>3. \A s \in group : s.prev # None => s.prev \in DOMAIN successors
  BY DEF LinkInv
<1> QED
  BY <1>1, <1>2, <1>3 DEF IsTip

LEMMA DispositionNext ==
  BaseInv /\ WalkInv /\ AccountInv /\ LinkInv /\ DispositionInv /\ [Next]_vars
    => DispositionInv'
<1> SUFFICES ASSUME BaseInv, WalkInv, AccountInv, LinkInv, DispositionInv, [Next]_vars
             PROVE  DispositionInv'
  OBVIOUS
<1>1. CASE UNCHANGED <<unique, issues, effective>>
  <2>1. \A i : (Superseded(i)' <=> Superseded(i)) /\ (Retracted(i)' <=> Retracted(i))
    BY <1>1 DEF Retracted, Superseded
  <2>2. Known' = Known /\ \A r : IsTip(r)' <=> IsTip(r)
    BY <1>1 DEF Known, IsTip, Group, GroupIn
  <2> QED
    BY <1>1, <2>1, <2>2 DEF DispositionInv
<1>2. ASSUME NEW r \in Records, Read(r) PROVE DispositionInv'
  <2>1. CASE OutOfScope(r) \/ Admit(r)
    <3>1. pc = "reading" /\ effective' = effective
      BY <1>2, <2>1 DEF Read, OutOfScope, Admit
    <3>2. \A x \in issues' : \/ x \in issues
                             \/ x = <<r.rev, "duplicate">> \/ x = <<r.rev, "out_of_scope">>
      BY <2>1 DEF OutOfScope, Admit
    <3>3. effective' = {} /\ \A x \in issues' : x[2] \in {"duplicate", "out_of_scope"}
      BY <3>1, <3>2 DEF AccountInv, ReadIssues
    <3>4. \A i : ~ Superseded(i)' /\ ~ Retracted(i)'
      BY <3>3 DEF Superseded, Retracted
    <3> QED
      BY <3>3, <3>4 DEF DispositionInv
  <2> QED
    BY <1>1, <1>2, <2>1 DEF Read, FailWith
<1>3. CASE Advance
  <2>1. CASE /\ issues' = issues \union {<<current.rev, "superseded">>}
             /\ UNCHANGED <<unique, effective>>
    <3>1. Successor \in Known /\ Successor.prev = current.rev
      BY <1>3, FreshSuccessor DEF Advance, BaseInv, TypeOK
    <3>2. \A i : /\ Retracted(i)' <=> Retracted(i)
                 /\ Superseded(i)' => Superseded(i) \/ i = current.rev
      BY <2>1 DEF Retracted, Superseded
    <3>3. Known' = Known /\ \A r : IsTip(r)' <=> IsTip(r)
      BY <2>1 DEF Known, IsTip, Group, GroupIn
    <3> QED
      BY <2>1, <3>1, <3>2, <3>3 DEF DispositionInv
  <2> QED
    BY <1>1, <1>3, <2>1 DEF Advance, FailWith
<1>4. CASE EndOfChain
  <2>1. pc = "walking" /\ IsTip(current) /\ current \in Known
    BY <1>4, EndIsTip DEF EndOfChain, BaseInv, TypeOK
  <2>2. CASE /\ issues' = issues \union {<<current.rev, "retracted">>}
             /\ current.action = "retract" /\ UNCHANGED <<unique, effective>>
    <3>1. \A i : /\ Superseded(i)' <=> Superseded(i)
                 /\ Retracted(i)' => Retracted(i) \/ i = current.rev
      BY <2>2 DEF Retracted, Superseded
    <3>2. Known' = Known /\ \A r : IsTip(r)' <=> IsTip(r)
      BY <2>2 DEF Known, IsTip, Group, GroupIn
    <3>3. \A r \in Known : r.rev = current.rev => r = current
      BY <2>1, KnownById DEF BaseInv
    <3> QED
      BY <2>1, <2>2, <3>1, <3>2, <3>3 DEF DispositionInv
  <2>3. CASE /\ effective' = effective \union {current}
             /\ current.action # "retract" /\ UNCHANGED <<unique, issues>>
    <3>1. \A i : (Superseded(i)' <=> Superseded(i)) /\ (Retracted(i)' <=> Retracted(i))
      BY <2>3 DEF Retracted, Superseded
    <3>2. Known' = Known /\ \A r : IsTip(r)' <=> IsTip(r)
      BY <2>3 DEF Known, IsTip, Group, GroupIn
    <3> QED
      BY <2>1, <2>3, <3>1, <3>2 DEF DispositionInv
  <2> QED
    BY <1>1, <1>4, <2>2, <2>3 DEF EndOfChain, FailWith
<1>5. CASE UNCHANGED vars
  BY <1>1, <1>5 DEF vars
<1> QED
  BY <1>1, <1>2, <1>3, <1>4, <1>5
     DEF Next, Stop, Begin, Link, GroupReports, Examine, StartWalk, Return, FailWith

\* A walk that met every revision of the report has listed its chain.
LEMMA WalkedChain ==
  ASSUME BaseInv, PathInv, pc = "walking", ~ Disconnected
  PROVE  HasChain(group)
BY DEF PathInv, Disconnected, HasChain

LEMMA ChainNext ==
  BaseInv /\ WalkInv /\ LinkInv /\ PathInv /\ ChainInv /\ [Next]_vars => ChainInv'
<1> SUFFICES ASSUME BaseInv, WalkInv, LinkInv, PathInv, ChainInv, [Next]_vars
             PROVE  ChainInv'
  OBVIOUS
<1> USE DEF Group
<1>1. CASE pc' \notin {"reports", "linking", "walking", "done"}
  BY <1>1 DEF ChainInv
<1>2. CASE UNCHANGED <<unique, pending, group>> /\ (pc' = pc \/ (pc = "linking" /\ pc' = "walking"))
  <2>1. Known' = Known
    BY <1>2 DEF Known
  <2> QED
    BY <1>2, <2>1 DEF ChainInv
<1>3. CASE GroupReports
  <2>1. \A r \in Known : ReportOf(r) \in pending'
    BY <1>3 DEF GroupReports
  <2>2. Known' = Known /\ pc' = "reports" /\ pending' = {ReportOf(r) : r \in Known}
    BY <1>3 DEF GroupReports, Known
  <2> QED
    BY <2>1, <2>2 DEF ChainInv
<1>4. ASSUME NEW report \in pending, Examine(report) PROVE ChainInv'
  <2>1. CASE /\ pc' = "linking" /\ pending' = pending \ {report}
             /\ group' = {r \in Known : ReportOf(r) = report} /\ unique' = unique
    <3>1. pc = "reports" /\ Known' = Known
      BY <1>4, <2>1 DEF Examine, Known
    <3>2. \A r \in Known : \/ ReportOf(r) \in pending'
                           \/ r \in group'
                           \/ HasChain(Group(ReportOf(r)))
      BY <2>1, <3>1 DEF ChainInv
    <3> QED
      BY <2>1, <3>1, <3>2 DEF ChainInv
  <2> QED
    BY <1>1, <1>4, <2>1 DEF Examine, FailWith
<1>5. CASE EndOfChain
  <2>1. CASE ~ Disconnected /\ pc' = "reports" /\ UNCHANGED <<unique, pending>>
    <3>1. pc = "walking" /\ HasChain(group) /\ Known' = Known
      BY <1>5, <2>1, WalkedChain DEF EndOfChain, Known
    <3>2. \A r \in group : HasChain(Group(ReportOf(r)))
      BY <3>1, GroupOfOne
    <3>3. \A r \in Known : ReportOf(r) \in pending \/ HasChain(Group(ReportOf(r)))
      BY <3>1, <3>2 DEF ChainInv
    <3> QED
      BY <2>1, <3>1, <3>3 DEF ChainInv
  <2> QED
    BY <1>1, <1>5, <2>1 DEF EndOfChain, FailWith
<1>6. CASE Return
  <2>1. /\ pc = "reports" /\ pending = {} /\ pc' = "done" /\ Known' = Known
    BY <1>6 DEF Return, Known
  <2>2. \A r \in Known : HasChain(Group(ReportOf(r)))
    BY <2>1 DEF ChainInv
  <2> QED
    BY <2>1, <2>2 DEF ChainInv, Chained
<1>7. CASE UNCHANGED vars
  BY <1>2, <1>7 DEF vars
<1>8. ASSUME NEW r \in Records, Read(r) PROVE ChainInv'
  BY <1>1, <1>8 DEF Read, FailWith, OutOfScope, Admit
<1>9. ASSUME NEW r \in Records, Link(r) PROVE ChainInv'
  BY <1>1, <1>2, <1>9 DEF Link, FailWith
<1>10. CASE StartWalk
  BY <1>2, <1>10 DEF StartWalk
<1>11. CASE Advance
  BY <1>1, <1>2, <1>11 DEF Advance, FailWith
<1>12. CASE Begin \/ Stop
  BY <1>1, <1>12 DEF Begin, Stop, FailWith
<1> QED
  BY <1>3, <1>4, <1>5, <1>6, <1>7, <1>8, <1>9, <1>10, <1>11, <1>12 DEF Next

LEMMA HistoryNext ==
  BaseInv /\ WalkInv /\ AccountInv /\ HistoryInv /\ [Next]_vars => HistoryInv'
BY RequestNext, IssueNext, LinkNext, PathNext, DispositionNext, ChainNext DEF HistoryInv

\* What the call has read, linked and walked describes the history it was given.
THEOREM SnapshotHistory == Spec => [](BaseInv /\ WalkInv /\ AccountInv /\ HistoryInv)
BY BaseInit, BaseNext, WalkInit, WalkNext, AccountInit, AccountNext, HistoryInit, HistoryNext,
   PTL DEF Spec

-----------------------------------------------------------------------------
(***************************************************************************)
(* materialize() implements RevisionHistory                                *)
(***************************************************************************)
LEMMA BagDomain == BagToSet(arrived) = DOMAIN arrived /\ History!BagToSet(arrived) = DOMAIN arrived
BY DEF BagToSet, History!BagToSet

LEMMA KnownRevisions ==
  ASSUME BaseInv
  PROVE  Revisions(Known)
BY KnownById DEF BaseInv, Revisions

\* From the moment the records are grouped, the records delivered form a valid
\* history exactly when every report known has a chain.
LEMMA ValidMeansChained ==
  ASSUME BaseInv, RequestInv, IssueInv, pc \in {"reports", "linking", "walking", "done"}
  PROVE  /\ History!Known(DOMAIN arrived, request.cutoff) = Known
         /\ History!Valid(DOMAIN arrived, request) <=> Chained(Known)
<1>1. DOMAIN arrived \subseteq Records
  BY DEF BaseInv, TypeOK, BagToSet
<1>2. request.cutoff \in Times \union {None}
  BY DEF RequestInv, History!Request
<1>3. History!Known(DOMAIN arrived, request.cutoff) = Known
  BY <1>1, <1>2, HistoryScope DEF IssueInv
<1>4. /\ History!Accepted(request)
      /\ request.policy = "static-v1" \/ \A r \in DOMAIN arrived : r.known # None
  BY DEF RequestInv, Static
<1> QED
  BY <1>3, <1>4, KnownRevisions, HistoryValid

\* In a valid history the tips are the revisions that nothing in their own
\* report revises: no revision has a predecessor in another report.
LEMMA TipsOfChains ==
  ASSUME BaseInv, Chained(Known), NEW r \in Known
  PROVE  r \in History!Tips(Known) <=> IsTip(r)
<1>1. ASSUME NEW s \in Known, s.prev = r.rev PROVE s \in Group(ReportOf(r))
  <2> DEFINE G == Group(ReportOf(s))
  <2>1. Revisions(G) /\ HasChain(G) /\ s \in G
    BY KnownRevisions, FS_Subset DEF Chained, Group, GroupIn, Revisions
  <2>2. s.prev # None
    BY <1>1, KnownById, RecordsAssumption DEF BaseInv
  <2>3. PICK q \in G : Follows(q, s)
    BY <2>1, <2>2, Predecessor
  <2>4. q = r
    BY <1>1, <2>3, KnownRevisions DEF Follows, Group, GroupIn, Revisions
  <2> QED
    BY <2>3, <2>4 DEF Group, GroupIn
<1>2. Group(ReportOf(r)) \subseteq Known
  BY DEF Group, GroupIn
<1> QED
  BY <1>1, <1>2 DEF History!Tips, IsTip

\* When every report was examined, what was found is what the records and the
\* request determine.
LEMMA FoundWhatIsDetermined ==
  ASSUME BaseInv, AccountInv, HistoryInv, pc = "reports", pending = {}
  PROVE  /\ History!Valid(DOMAIN arrived, request)
         /\ [records |-> Known, effective |-> effective, issues |-> issues] = History!Determined
<1> USE DEF HistoryInv
<1>1. Chained(Known)
  BY DEF ChainInv, Chained, Group
<1>2. \A r \in Known : AccountedOnce(r.rev) /\ unique[r.rev] = r
  BY KnownById DEF AccountInv, Examining, BaseInv
<1>3. ASSUME NEW r \in Known
      PROVE  /\ Superseded(r.rev) <=> r \notin History!Tips(Known)
             /\ Retracted(r.rev) <=> r \in History!Tips(Known) /\ r.action = "retract"
             /\ r \in effective <=> r \in History!Tips(Known) /\ r.action # "retract"
  <2>1. Superseded(r.rev) => r \notin History!Tips(Known)
    BY DEF DispositionInv, History!Tips
  <2>2. Retracted(r.rev) => r \in History!Tips(Known) /\ r.action = "retract"
    BY <1>1, TipsOfChains DEF DispositionInv
  <2>3. r \in effective => r \in History!Tips(Known) /\ r.action # "retract"
    BY <1>1, TipsOfChains DEF DispositionInv
  <2>4. Superseded(r.rev) \/ Retracted(r.rev) \/ r \in effective
    BY <1>2 DEF AccountedOnce, OnlySuperseded, IsEffective
  <2> QED
    BY <2>1, <2>2, <2>3, <2>4
<1>4. effective = History!Effective(Known)
  <2>1. effective \subseteq Known
    BY DEF BaseInv, TypeOK
  <2>2. History!Tips(Known) \subseteq Known
    BY DEF History!Tips
  <2> QED
    BY <1>3, <2>1, <2>2 DEF History!Effective
<1> DEFINE T == History!Tips(Known)
           E == History!Effective(Known)
           U == {r \in Known : arrived[r] > 1}
           O == DOMAIN arrived \ Known
<1>5. E = {r \in T : r.action # "retract"} /\ T \subseteq Known
  BY DEF History!Effective, History!Tips
<1>6. History!Disposition(Known, U) =
        {<<r.rev, "superseded">> : r \in Known \ T}
          \union {<<r.rev, "retracted">> : r \in T \ E}
          \union {<<r.rev, "duplicate">> : r \in U}
  BY DEF History!Disposition
<1>7. issues = History!Disposition(Known, U) \union {<<r.rev, "out_of_scope">> : r \in O}
  <2>1. \A r \in DOMAIN arrived : r \in Known <=> ~ AfterCutoff(r)
    BY DEF IssueInv
  <2>2. ASSUME NEW x \in issues
        PROVE  x \in History!Disposition(Known, U) \union {<<r.rev, "out_of_scope">> : r \in O}
    <3>1. x = <<x[1], x[2]>> /\ x[2] \in Statuses
      BY DEF IssueInv, BaseInv, TypeOK
    <3>2. CASE x[2] = "out_of_scope"
      <4>1. PICK r \in DOMAIN arrived : AfterCutoff(r) /\ r.rev = x[1]
        BY <3>2 DEF IssueInv
      <4>2. r \in O /\ x = <<r.rev, "out_of_scope">>
        BY <2>1, <3>1, <3>2, <4>1
      <4> QED
        BY <4>2
    <3>3. CASE x[2] # "out_of_scope"
      <4>1. x[1] \in DOMAIN unique
        BY <3>3 DEF IssueInv
      <4>2. PICK r \in Known : r.rev = x[1]
        BY <4>1 DEF Known, BaseInv, TypeOK
      <4>3. x = <<r.rev, x[2]>>
        BY <3>1, <4>2
      <4>4. CASE x[2] = "superseded"
        BY <1>3, <1>6, <4>3, <4>4 DEF Superseded
      <4>5. CASE x[2] = "retracted"
        <5>1. r \in T \ E
          BY <1>3, <1>5, <4>3, <4>5 DEF Retracted
        <5> QED
          BY <1>6, <4>3, <4>5, <5>1
      <4>6. CASE x[2] = "duplicate"
        <5>1. r \in U
          BY <4>3, <4>6 DEF IssueInv
        <5> QED
          BY <1>6, <4>3, <4>6, <5>1
      <4> QED
        BY <3>1, <3>3, <4>4, <4>5, <4>6 DEF Statuses
    <3> QED
      BY <3>2, <3>3
  <2>3. \A r \in Known \ T : <<r.rev, "superseded">> \in issues
    BY <1>3 DEF Superseded
  <2>4. \A r \in T \ E : <<r.rev, "retracted">> \in issues
    BY <1>3, <1>5 DEF Retracted
  <2>5. \A r \in U : <<r.rev, "duplicate">> \in issues
    BY DEF IssueInv
  <2>6. \A r \in O : <<r.rev, "out_of_scope">> \in issues
    BY <2>1 DEF IssueInv
  <2> QED
    BY <1>6, <2>2, <2>3, <2>4, <2>5, <2>6
<1>8. /\ History!Known(DOMAIN arrived, request.cutoff) = Known
      /\ History!Valid(DOMAIN arrived, request)
  BY <1>1, ValidMeansChained
<1>9. History!Determined =
        [records |-> Known, effective |-> E,
         issues |-> History!Disposition(Known, U) \union {<<r.rev, "out_of_scope">> : r \in O}]
  BY <1>8, BagDomain DEF History!Determined
<1> QED
  BY <1>4, <1>7, <1>8, <1>9

\* A report whose revisions cannot be examined has no chain.
LEMMA RefusedInvalid ==
  ASSUME BaseInv, RequestInv, IssueInv, pc \in {"reports", "linking", "walking"},
         NEW r \in Known, ~ HasChain(Group(ReportOf(r)))
  PROVE  ~ History!Valid(DOMAIN arrived, request)
BY ValidMeansChained DEF Chained, Group

\* materialize() refuses roots only of reports that have no chain.
LEMMA RootsRefused ==
  ASSUME BaseInv, HistoryInv, NEW report, pc = "reports", report \in pending,
         Cardinality(Roots({r \in Known : ReportOf(r) = report})) # 1
  PROVE  ~ History!Valid(DOMAIN arrived, request)
<1>1. PICK r \in Known : ReportOf(r) = report
  BY DEF HistoryInv, ChainInv
<1> DEFINE G == Group(report)
<1>2. Revisions(G) /\ r \in G
  BY <1>1, KnownRevisions, FS_Subset DEF Group, GroupIn, Revisions
<1>3. ~ HasChain(G)
  BY <1>2, ChainRoot DEF Group, GroupIn
<1> QED
  BY <1>1, <1>3, RefusedInvalid DEF HistoryInv

\* It refuses a link only in a report that has no chain.
LEMMA LinkRefused ==
  ASSUME BaseInv, WalkInv, HistoryInv, NEW r, pc = "linking", r \in unlinked, r.prev # None,
         r.prev \in DOMAIN successors \/ Foreign(r) \/ Predates(r)
  PROVE  ~ History!Valid(DOMAIN arrived, request)
<1> USE DEF HistoryInv
<1>1. r \in group
  BY DEF BaseInv, TypeOK
<1>2. /\ group = Group(ReportOf(r)) /\ r \in Known
      /\ Revisions(group)
  BY <1>1, GroupOfOne
<1> SUFFICES ASSUME HasChain(group) PROVE FALSE
  BY <1>2, RefusedInvalid
<1>3. PICK p \in group : Follows(p, r)
  BY <1>1, <1>2, Predecessor
<1>4. p \in Known /\ unique[p.rev] = p /\ p.rev \in DOMAIN unique /\ p.rev = r.prev
  BY <1>2, <1>3, KnownById DEF Group, GroupIn, BaseInv, Follows
<1>5. ~ Foreign(r)
  BY <1>2, <1>4 DEF Foreign, Group, GroupIn
<1>6. ~ Predates(r)
  <2>1. p.known \in Int \/ p.known = None
    BY <1>2, <1>3, RecordsAssumption DEF Revisions
  <2>2. r.known \in Int \/ r.known = None
    BY <1>1, <1>2, RecordsAssumption DEF Revisions
  <2> QED
    BY <1>3, <1>4, <2>1, <2>2 DEF Predates, Follows
<1>7. r.prev \notin DOMAIN successors
  <2> SUFFICES ASSUME r.prev \in DOMAIN successors PROVE FALSE
    OBVIOUS
  <2>1. successors[r.prev] \in group \ unlinked /\ successors[r.prev].prev = r.prev
    BY DEF LinkInv, WalkInv
  <2> QED
    BY <1>1, <1>2, <2>1, NoBranch
<1> QED
  BY <1>5, <1>6, <1>7

\* It calls a chain disconnected only if there is none: the walk goes along a
\* chain, if there is one, from its assertion to its tip.
LEMMA DisconnectedRefused ==
  ASSUME BaseInv, WalkInv, HistoryInv, pc = "walking", current.rev \notin DOMAIN successors,
         Disconnected
  PROVE  ~ History!Valid(DOMAIN arrived, request)
<1> USE DEF HistoryInv
<1>1. /\ current \in group /\ group = Group(ReportOf(current)) /\ current \in Known
      /\ Revisions(group)
  BY GroupOfOne DEF WalkInv
<1> SUFFICES ASSUME HasChain(group) PROVE FALSE
  BY <1>1, RefusedInvalid
<1> DEFINE n == Cardinality(group)
           m == Cardinality(seen)
<1>2. PICK c : Listing(c, n, group)
  BY DEF HasChain
<1>3. PICK d : Listing(d, m, group) /\ d[m] = current /\ seen = {d[i].rev : i \in 1..m}
  BY DEF PathInv
<1>4. n \in Nat /\ \A r \in group : \E i \in 1..n : c[i] = r
  BY <1>1, <1>2, ListsAll
<1>5. m \in Nat \ {0}
  BY DEF PathInv
<1>6. PICK root : Roots(group) = {root}
  BY DEF BaseInv, RootInv
<1> HIDE DEF n, m
<1>7. n # 0 /\ 1 \in 1..n /\ 1 \in 1..m
  BY <1>1, <1>4, <1>5
<1>8. c[1] = root /\ d[1] = root
  BY <1>2, <1>3, <1>6, <1>7 DEF Listing, Roots
<1>9. c[1].rev \in seen
  BY <1>3, <1>7, <1>8
<1>10. ASSUME NEW i \in 1..(n - 1), c[i].rev \in seen PROVE c[i + 1].rev \in seen
  <2>1. c[i] \in group /\ c[i + 1] \in group /\ c[i + 1].prev = c[i].rev
    BY <1>2, <1>4 DEF Listing, Follows
  <2>2. c[i].rev # None
    BY <1>1, <2>1, RecordsAssumption DEF Revisions
  <2>3. c[i].rev \in DOMAIN successors /\ successors[c[i].rev] = c[i + 1]
    BY <2>1, <2>2 DEF LinkInv
  <2>4. PICK k \in 1..m : d[k].rev = c[i].rev
    BY <1>3, <1>10
  <2>5. k # m
    BY <1>3, <2>3, <2>4
  <2>6. k \in 1..(m - 1) /\ k + 1 \in 1..m
    BY <1>5, <2>5
  <2>7. d[k + 1].prev = c[i].rev /\ d[k + 1] \in group
    BY <1>3, <2>4, <2>6 DEF Listing, Follows
  <2>8. d[k + 1] = c[i + 1]
    BY <2>2, <2>3, <2>7 DEF LinkInv
  <2> QED
    BY <1>3, <2>6, <2>8
<1>11. \A i \in 1..n : c[i].rev \in seen
  <2> DEFINE Unmet == {i \in 1..n : c[i].rev \notin seen}
  <2> SUFFICES ASSUME Unmet # {} PROVE FALSE
    OBVIOUS
  <2>1. Unmet \in SUBSET Nat
    BY <1>4
  <2>2. PICK i \in Unmet : \A j \in Unmet : i <= j
    BY <2>1, LeastPosition
  <2>3. i # 1
    BY <1>9, <2>2
  <2>4. i - 1 \in 1..(n - 1) /\ i - 1 \in 1..n /\ i - 1 + 1 = i /\ ~ (i <= i - 1)
    BY <1>4, <2>2, <2>3
  <2>5. c[i - 1].rev \in seen
    BY <2>2, <2>4
  <2> QED
    BY <1>10, <2>2, <2>4, <2>5
<1>12. seen = Ids(group)
  <2>1. Ids(group) \subseteq seen
    BY <1>4, <1>11 DEF Ids
  <2> QED
    BY <2>1 DEF WalkInv
<1> QED
  BY <1>12, IdsOfGroup DEF Disconnected

\* What the caller sees of the call.
Outcome  == IF pc \in {"done", "failed", "stopped"} THEN pc ELSE "open"
Snapshot == IF pc = "done"
            THEN [records |-> Known, effective |-> effective, issues |-> issues]
            ELSE None

LEMMA HistoryStep ==
  BaseInv /\ WalkInv /\ AccountInv /\ HistoryInv /\ [Next]_vars
    => [History!Next]_<<request, arrived, Outcome, Snapshot>>
<1> SUFFICES ASSUME BaseInv, WalkInv, AccountInv, HistoryInv, [Next]_vars
             PROVE  History!Next \/ UNCHANGED <<request, arrived, Outcome, Snapshot>>
  BY DEF Outcome, Snapshot
<1> DEFINE Open == {"called", "reading", "reports", "linking", "walking"}
<1>1. CASE pc \in Open /\ pc' \in Open /\ UNCHANGED input
  BY <1>1 DEF Outcome, Snapshot, input
<1>2. ASSUME pc \in Open, pc' = "failed", UNCHANGED input,
             ~ History!Valid(DOMAIN arrived, request)
      PROVE  History!Next
  BY <1>2, BagDomain DEF History!Next, History!Fail, input
<1>3. CASE Stop
  BY <1>3 DEF Stop, History!Next, History!Stop, input
<1>4. CASE Begin
  <2>1. CASE request.policy = "other" \/ (~ Static /\ request.cutoff = None)
    <3>1. ~ History!Valid(DOMAIN arrived, request)
      BY <2>1 DEF History!Valid, History!Accepted, Static
    <3> QED
      BY <1>2, <1>4, <2>1, <3>1 DEF Begin, FailWith
  <2> QED
    BY <1>1, <1>4, <2>1 DEF Begin
<1>5. ASSUME NEW r \in Records, Read(r) PROVE History!Next
  <2>1. pc = "reading" /\ request' = request /\ arrived' = arrived (+) SetToBag({r})
    BY <1>5 DEF Read
  <2>2. arrived' = History!(+)(arrived, History!SetToBag({r}))
    BY <2>1 DEF (+), History!(+), SetToBag, History!SetToBag
  <2>3. History!BagToSet(arrived') = DOMAIN arrived \union {r}
    BY <2>1, OneMore DEF RequestInv, HistoryInv, History!BagToSet
  <2>4. CASE pc' = "reading"
    BY <2>1, <2>2, <2>4 DEF History!Next, History!Deliver
  <2>5. CASE pc' = "failed"
    <3>1. CASE r.known = None /\ ~ Static
      <4>1. ~ History!Valid(DOMAIN arrived \union {r}, request)
        BY <3>1 DEF History!Valid, Static
      <4> QED
        BY <2>1, <2>2, <2>3, <2>5, <4>1 DEF History!Next, History!Refuse
    <3>2. CASE ~ AfterCutoff(r) /\ Conflicts(r)
      <4>1. /\ unique[r.rev] \in Known /\ unique[r.rev].rev = r.rev /\ unique[r.rev] # r
        BY <3>2 DEF Conflicts, Known, BaseInv, TypeOK
      <4>2. unique[r.rev] \in DOMAIN arrived /\ ~ AfterCutoff(unique[r.rev])
        BY <2>1, <4>1 DEF HistoryInv, IssueInv
      <4> DEFINE S == DOMAIN arrived \union {r}
      <4>3. S \subseteq Records /\ request.cutoff \in Times \union {None}
        BY DEF BaseInv, TypeOK, BagToSet, HistoryInv, RequestInv, History!Request
      <4>4. /\ r \in History!Known(S, request.cutoff)
            /\ unique[r.rev] \in History!Known(S, request.cutoff)
        BY <3>2, <4>2, <4>3, HistoryScope
      <4>5. ~ History!Valid(S, request)
        BY <4>1, <4>4 DEF History!Valid, History!Consistent
      <4> QED
        BY <2>1, <2>2, <2>3, <2>5, <4>5 DEF History!Next, History!Refuse
    <3> QED
      BY <1>5, <2>1, <2>5, <3>1, <3>2 DEF Read, OutOfScope, Admit
  <2> QED
    BY <1>5, <2>1, <2>4, <2>5 DEF Read, FailWith, OutOfScope, Admit
<1>6. CASE GroupReports
  BY <1>1, <1>6 DEF GroupReports
<1>7. ASSUME NEW report \in pending, Examine(report)
      PROVE  History!Next \/ UNCHANGED <<request, arrived, Outcome, Snapshot>>
  <2>1. CASE Cardinality(Roots({r \in Known : ReportOf(r) = report})) # 1
    BY <1>2, <1>7, <2>1, RootsRefused DEF Examine, FailWith
  <2> QED
    BY <1>1, <1>7, <2>1 DEF Examine
<1>8. ASSUME NEW r \in Records, Link(r)
      PROVE  History!Next \/ UNCHANGED <<request, arrived, Outcome, Snapshot>>
  <2>1. CASE r.prev # None /\ (r.prev \in DOMAIN successors \/ Foreign(r) \/ Predates(r))
    BY <1>2, <1>8, <2>1, LinkRefused DEF Link, FailWith
  <2> QED
    BY <1>1, <1>8, <2>1 DEF Link
<1>9. CASE StartWalk
  BY <1>1, <1>9 DEF StartWalk
<1>10. CASE Advance
  BY <1>1, <1>10, FreshSuccessor DEF Advance
<1>11. CASE EndOfChain
  <2>1. CASE Disconnected
    BY <1>2, <1>11, <2>1, DisconnectedRefused DEF EndOfChain, FailWith
  <2> QED
    BY <1>1, <1>11, <2>1 DEF EndOfChain
<1>12. CASE Return
  <2>1. /\ pc = "reports" /\ pending = {} /\ pc' = "done" /\ UNCHANGED input
        /\ Known' = Known /\ UNCHANGED <<effective, issues>>
    BY <1>12 DEF Return, Known
  <2>2. /\ History!Valid(DOMAIN arrived, request)
        /\ [records |-> Known, effective |-> effective, issues |-> issues] = History!Determined
    BY <2>1, FoundWhatIsDetermined
  <2>3. History!Succeed
    BY <2>1, <2>2, BagDomain DEF History!Succeed, input
  <2> QED
    BY <2>3 DEF History!Next
<1>13. CASE UNCHANGED vars
  BY <1>13 DEF vars, Outcome, Snapshot, Known
<1> QED
  BY <1>3, <1>4, <1>5, <1>6, <1>7, <1>8, <1>9, <1>10, <1>11, <1>12, <1>13 DEF Next

\* For any records, in any order and with any retransmissions, what
\* materialize() does is what RevisionHistory allows: it succeeds only when the
\* records known at the cutoff form chains, fails only when they do not, and
\* returns the records, the tips and the dispositions they determine.
THEOREM SnapshotImplementsHistory == Spec => ImplementsHistory
<1>1. Init => History!Init
  BY DEF Init, History!Init, History!Request, EmptyBag, History!EmptyBag, SetToBag, History!SetToBag
<1>2. BaseInv /\ WalkInv /\ AccountInv /\ HistoryInv /\ [Next]_vars
        => [History!Next]_<<request, arrived,
              IF pc \in {"done", "failed", "stopped"} THEN pc ELSE "open",
              IF pc = "done"
              THEN [records |-> Known, effective |-> effective, issues |-> issues]
              ELSE None>>
  BY HistoryStep DEF Outcome, Snapshot
<1>3. QED
  BY <1>1, <1>2, SnapshotHistory, PTL DEF Spec, ImplementsHistory, History!Spec

-----------------------------------------------------------------------------
(***************************************************************************)
(* Replaying an earlier cutoff                                             *)
(***************************************************************************)
\* The revisions of a chain known at an earlier time begin the chain, and are
\* a chain themselves.
LEMMA EarlierChain ==
  ASSUME NEW G, Revisions(G), HasChain(G), NEW t \in Times,
         \A r \in G : r.known \in Times,
         NEW E, E = {r \in G : r.known <= t}, E # {}
  PROVE  HasChain(E)
<1> DEFINE n == Cardinality(G)
<1>1. PICK c : Listing(c, n, G)
  BY DEF HasChain
<1>2. n \in Nat /\ \A r \in G : \E i \in 1..n : c[i] = r
  BY <1>1, ListsAll
<1> HIDE DEF n
<1>3. \A i \in 1..n : c[i] \in G /\ c[i].known \in Times /\ c[i].known \in Int
  BY <1>1, RecordsAssumption DEF Listing
<1>4. t \in Int /\ None \notin Times
  BY RecordsAssumption
<1>5. ASSUME NEW i \in 1..(n - 1) PROVE c[i].known <= c[i + 1].known
  <2>1. Follows(c[i], c[i + 1]) /\ i \in 1..n /\ i + 1 \in 1..n
    BY <1>1, <1>2 DEF Listing
  <2> QED
    BY <1>3, <1>4, <2>1 DEF Follows
<1>6. ASSUME NEW i \in 1..n, NEW j \in 1..n, i <= j, c[i].known > t PROVE c[j].known > t
  <2> DEFINE Early == {k \in 1..n : i <= k /\ c[k].known <= t}
  <2> SUFFICES ASSUME Early # {} PROVE FALSE
    BY <1>3, <1>4, <1>6
  <2>0. Early \in SUBSET Nat
    BY <1>2
  <2>1. PICK k \in Early : \A l \in Early : k <= l
    BY <2>0, LeastPosition
  <2>2. k # i
    BY <1>3, <1>4, <1>6, <2>1
  <2>3. /\ k - 1 \in 1..(n - 1) /\ k - 1 \in 1..n /\ k - 1 + 1 = k
        /\ i <= k - 1 /\ ~ (k <= k - 1)
    BY <1>2, <2>1, <2>2
  <2>4. c[k - 1].known > t
    BY <1>3, <1>4, <2>1, <2>3
  <2>5. c[k - 1].known <= c[k].known
    BY <1>5, <2>3
  <2> QED
    BY <1>3, <1>4, <2>1, <2>3, <2>4, <2>5
<1>7. PICK k \in 1..n : \A i \in 1..n : c[i].known <= t <=> i <= k
  <2> DEFINE Late == {i \in 1..n : c[i].known > t}
  <2>1. CASE Late = {}
    <3>1. n \in 1..n
      BY <1>2
    <3> QED
      BY <1>2, <1>3, <1>4, <2>1, <3>1
  <2>2. CASE Late # {}
    <3>0. Late \in SUBSET Nat
      BY <1>2
    <3>1. PICK l \in Late : \A i \in Late : l <= i
      BY <2>2, <3>0, LeastPosition
    <3>2. PICK i \in 1..n : c[i].known <= t
      BY <1>2
    <3>3. i < l
      BY <1>2, <1>3, <1>4, <1>6, <3>1, <3>2
    <3>4. l - 1 \in 1..n
      BY <1>2, <3>1, <3>2, <3>3
    <3>5. ASSUME NEW j \in 1..n PROVE c[j].known <= t <=> j <= l - 1
      <4>1. l <= j => c[j].known > t
        BY <1>6, <3>1
      <4>2. c[j].known > t => l <= j
        BY <3>1
      <4> QED
        BY <1>2, <1>3, <1>4, <3>1, <4>1, <4>2
    <3> QED
      BY <3>4, <3>5
  <2> QED
    BY <2>1, <2>2
<1> DEFINE d == [i \in 1..k |-> c[i]]
<1>8. \A i \in 1..k : i \in 1..n /\ d[i] = c[i] /\ c[i] \in E
  BY <1>2, <1>3, <1>7
<1>9. \A r \in E : \E i \in 1..k : c[i] = r
  <2> SUFFICES ASSUME NEW r \in E PROVE \E i \in 1..k : c[i] = r
    OBVIOUS
  <2>1. PICK i \in 1..n : c[i] = r
    BY <1>2
  <2> QED
    BY <1>2, <1>7, <2>1
<1>10. d \in [1..k -> E]
  BY <1>8
<1> HIDE DEF d
<1>11. \A i, j \in 1..k : i # j => d[i] # d[j]
  BY <1>1, <1>8 DEF Listing
<1>12. Cardinality(E) = k
  <2>1. d \in Bijection(1..k, E)
    BY <1>8, <1>9, <1>10, <1>11 DEF Bijection, Injection, Surjection, IsInjective
  <2>2. IsFiniteSet(1..k) /\ Cardinality(1..k) = k
    BY <1>2, FS_Interval
  <2>3. ExistsBijection(1..k, E)
    BY <2>1 DEF ExistsBijection
  <2> QED
    BY <2>2, <2>3, FS_Bijection
<1>13. d[1].prev = None
  BY <1>1, <1>2, <1>8 DEF Listing
<1>14. ASSUME NEW i \in 1..(k - 1) PROVE Follows(d[i], d[i + 1])
  <2>1. i \in 1..(n - 1) /\ i \in 1..k /\ i + 1 \in 1..k
    BY <1>2
  <2> QED
    BY <1>1, <1>8, <2>1 DEF Listing
<1>15. Listing(d, Cardinality(E), E)
  BY <1>10, <1>11, <1>12, <1>13, <1>14 DEF Listing
<1> QED
  BY <1>10, <1>12, <1>15 DEF HasChain

\* For any records: a knowledge cutoff that materialize() accepted can be
\* replayed at every earlier time; no revision is known before the ones it
\* revises, so an earlier cutoff cuts every chain at its tip end.
THEOREM SnapshotReplayableEarlier == Spec => []ReplayableEarlier
<1>1. BaseInv /\ WalkInv /\ AccountInv /\ HistoryInv => ReplayableEarlier
  <2> SUFFICES ASSUME BaseInv, HistoryInv, pc = "done", ~ Static,
                      NEW t \in Times, t < request.cutoff
               PROVE  History!Valid(BagToSet(arrived), [request EXCEPT !.cutoff = t])
    BY DEF ReplayableEarlier
  <2> USE DEF HistoryInv
  <2> DEFINE q == [request EXCEPT !.cutoff = t]
             S == DOMAIN arrived
             K == History!Known(S, t)
  <2>1. q.cutoff = t /\ q.policy = request.policy /\ request.cutoff \in Times \union {None}
    BY DEF RequestInv, History!Request
  <2>2. request.cutoff \in Times /\ request.policy = "explicit-chain-v1"
    BY <2>1 DEF RequestInv, History!Accepted, Static
  <2>3. /\ request.cutoff \in Int /\ t \in Int /\ t # None
        /\ S \subseteq Records /\ \A r \in S : r.known \in Times /\ r.known \in Int
    BY <2>2, RecordsAssumption DEF RequestInv, Static, BaseInv, TypeOK, BagToSet
  <2>4. K = {r \in Known : r.known <= t}
    <3>1. K = {r \in S : r.known <= t}
      BY <2>3, RecordsAssumption DEF History!Known, History!InScope
    <3>2. Known = {r \in S : r.known <= request.cutoff}
      BY <2>2, <2>3, RecordsAssumption DEF IssueInv, AfterCutoff
    <3> QED
      BY <2>3, <3>1, <3>2
  <2>5. Revisions(K)
    BY <2>4, KnownRevisions, FS_Subset DEF Revisions
  <2>6. ASSUME NEW r \in K PROVE HasChain(GroupIn(K, ReportOf(r)))
    <3> DEFINE G == GroupIn(Known, ReportOf(r))
               E == GroupIn(K, ReportOf(r))
    <3>1. E = {s \in G : s.known <= t} /\ r \in E /\ r \in Known
      BY <2>4 DEF GroupIn
    <3>2. HasChain(G)
      BY <3>1 DEF ChainInv, Chained
    <3>3. Revisions(G) /\ \A s \in G : s.known \in Times
      BY <2>3, KnownRevisions, FS_Subset DEF GroupIn, Revisions, IssueInv
    <3> HIDE DEF G, E
    <3> QED
      BY <3>1, <3>2, <3>3, EarlierChain DEF E
  <2>7. History!Accepted(q) /\ \A r \in S : r.known # None
    BY <2>1, <2>2, <2>3, RecordsAssumption DEF History!Accepted
  <2>8. History!Valid(S, q)
    BY <2>1, <2>5, <2>6, <2>7, HistoryValid DEF Chained
  <2> QED
    BY <2>8 DEF BagToSet
<1> QED
  BY <1>1, SnapshotHistory, PTL
=============================================================================
