------------------------------ MODULE LruCache ------------------------------
(***************************************************************************)
(* What MemoryArtifactStore promises, with no mention of how it keeps      *)
(* account: the retained artifacts, least recently used first, where a     *)
(* hit makes an artifact the most recent one, and a stored artifact        *)
(* displaces the fewest, oldest artifacts that make room for it.           *)
(***************************************************************************)
EXTENDS Integers, FiniteSets, SequencesExt

CONSTANTS Addresses,   \* namespace and key of an artifact
          Values,      \* values offered to the store
          Charge,      \* Charge[v]: bytes accounted for a retained value v
          Budget       \* bytes the retained artifacts may occupy together

VARIABLES content,     \* sequence of [address, value], oldest first
          found        \* the addresses found so far

\* One unit for every byte that a retained artifact is charged.
Weight(s) == Cardinality(UNION {{i} \X (1..Charge[s[i].value]) : i \in DOMAIN s})

\* The others keep their order.
Without(s, a) ==
  LET at == {i \in DOMAIN s : s[i].address = a}
  IN  IF at = {} THEN s ELSE RemoveAt(s, CHOOSE i \in at : TRUE)

\* The longest, most recent part of s that leaves room for a charge of c.
Room(s, c) ==
  LET rest(n) == SubSeq(s, n + 1, Len(s))
      fits(n) == Weight(rest(n)) + c <= Budget
  IN  rest(CHOOSE n \in 0..Len(s) : fits(n) /\ \A m \in 0..(n - 1) : ~fits(m))

-----------------------------------------------------------------------------
Init == content = <<>> /\ found = <<>>

Touch(i) ==
  /\ content' = Append(RemoveAt(content, i), content[i])
  /\ found' = Append(found, content[i].address)

Store(a, v) ==
  /\ Charge[v] <= Budget
  /\ content' = Append(Room(Without(content, a), Charge[v]), [address |-> a, value |-> v])
  /\ UNCHANGED found

Clear == content' = <<>> /\ UNCHANGED found

Next ==
  \/ \E i \in DOMAIN content : Touch(i)
  \/ \E a \in Addresses, v \in Values : Store(a, v)
  \/ Clear

Spec == Init /\ [][Next]_<<content, found>>
=============================================================================
