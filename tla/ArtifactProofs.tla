--------------------------- MODULE ArtifactProofs ---------------------------
(***************************************************************************)
(* The store's accounting, for every number of artifacts, slots and bytes; *)
(* and the export of artifacts, for any writers, readers and failures.     *)
(***************************************************************************)
EXTENDS ArtifactStore, ArtifactExport, SequenceTheorems, FiniteSetTheorems, TLAPS

-----------------------------------------------------------------------------
(***************************************************************************)
(* Sequences and sums                                                      *)
(***************************************************************************)

\* RemoveAt closes the gap it makes: used by every removal and every hit.
LEMMA RemoveAtProperties ==
  ASSUME NEW S, NEW s \in Seq(S), NEW p \in 1..Len(s)
  PROVE  /\ RemoveAt(s, p) \in Seq(S)
         /\ Len(RemoveAt(s, p)) = Len(s) - 1
         /\ \A i \in 1..(Len(s) - 1) :
              RemoveAt(s, p)[i] = IF i < p THEN s[i] ELSE s[i + 1]
<1> DEFINE l == SubSeq(s, 1, p - 1)
           r == SubSeq(s, p + 1, Len(s))
<1>1. Len(s) \in Nat
  BY LenProperties
<1>2. l \in Seq(S) /\ Len(l) = p - 1 /\ \A i \in 1..(p - 1) : l[i] = s[i]
  BY <1>1, SubSeqProperties
<1>3. /\ r \in Seq(S)
      /\ Len(r) = Len(s) - p
      /\ \A i \in 1..(Len(s) - p) : r[i] = s[p + i]
  BY <1>1, SubSeqProperties
<1> HIDE DEF l, r
<1>4. l \o r \in Seq(S) /\ Len(l \o r) = Len(s) - 1
  <2>1. l \o r \in Seq(S) /\ Len(l \o r) = Len(l) + Len(r)
    BY <1>2, <1>3, ConcatProperties
  <2>2. QED
    BY <1>1, <1>2, <1>3, <2>1
<1>5. ASSUME NEW i \in 1..(Len(s) - 1)
      PROVE  (l \o r)[i] = IF i < p THEN s[i] ELSE s[i + 1]
  <2>1. CASE i < p
    BY <1>1, <1>2, <1>3, <2>1, ConcatProperties
  <2>2. CASE ~(i < p)
    <3>1. (l \o r)[i] = r[i - (p - 1)]
      BY <1>1, <1>2, <1>3, <2>2, ConcatProperties
    <3>2. i - (p - 1) \in 1..(Len(s) - p)
      BY <1>1, <2>2
    <3>3. QED
      BY <1>1, <1>3, <2>2, <3>1, <3>2
  <2>3. QED
    BY <2>1, <2>2
<1>6. QED
  BY <1>4, <1>5 DEF RemoveAt, l, r

\* Removing the position of a from an enumeration of D enumerates D \ {a}.
LEMMA RemoveEnumerates ==
  ASSUME NEW s, NEW D, Enumerates(s, D), NEW p \in DOMAIN s
  PROVE  Enumerates(RemoveAt(s, p), D \ {s[p]})
<1> DEFINE t == RemoveAt(s, p)
<1>1. s \in Seq(Addresses) /\ DOMAIN s = 1..Len(s) /\ Len(s) \in Nat
  BY LenProperties DEF Enumerates
<1>2. /\ t \in Seq(Addresses)
      /\ Len(t) = Len(s) - 1
      /\ \A i \in 1..(Len(s) - 1) : t[i] = IF i < p THEN s[i] ELSE s[i + 1]
  BY <1>1, RemoveAtProperties
<1>3. DOMAIN t = 1..(Len(s) - 1)
  BY <1>1, <1>2, LenProperties
<1> HIDE DEF t
<1>4. \A i \in DOMAIN t : t[i] \in D \ {s[p]}
  BY <1>1, <1>2, <1>3 DEF Enumerates
<1>5. ASSUME NEW i \in DOMAIN t, NEW j \in DOMAIN t, t[i] = t[j]
      PROVE  i = j
  <2>1. /\ t[i] = s[IF i < p THEN i ELSE i + 1]
        /\ t[j] = s[IF j < p THEN j ELSE j + 1]
        /\ (IF i < p THEN i ELSE i + 1) \in DOMAIN s
        /\ (IF j < p THEN j ELSE j + 1) \in DOMAIN s
    BY <1>1, <1>2, <1>3
  <2>2. (IF i < p THEN i ELSE i + 1) = (IF j < p THEN j ELSE j + 1)
    BY <1>5, <2>1 DEF Enumerates
  <2>3. QED
    BY <1>1, <1>3, <2>2
<1>6. ASSUME NEW x \in D \ {s[p]}
      PROVE  \E i \in DOMAIN t : t[i] = x
  <2>1. PICK k \in DOMAIN s : s[k] = x
    BY DEF Enumerates
  <2>2. CASE k < p
    <3>1. k \in DOMAIN t /\ t[k] = x
      BY <1>1, <1>2, <1>3, <2>1, <2>2
    <3>2. QED
      BY <3>1
  <2>3. CASE k > p
    <3>1. k - 1 \in DOMAIN t /\ t[k - 1] = x
      BY <1>1, <1>2, <1>3, <2>1, <2>3
    <3>2. QED
      BY <3>1
  <2>4. k # p
    BY <2>1
  <2>5. QED
    BY <1>1, <2>1, <2>2, <2>3, <2>4
<1>7. QED
  BY <1>2, <1>4, <1>5, <1>6 DEF Enumerates, t

\* Appending a new address enumerates one more.
LEMMA AppendEnumerates ==
  ASSUME NEW s, NEW D, Enumerates(s, D), NEW a \in Addresses, a \notin D
  PROVE  Enumerates(Append(s, a), D \union {a})
<1> DEFINE t == Append(s, a)
<1>1. s \in Seq(Addresses) /\ DOMAIN s = 1..Len(s) /\ Len(s) \in Nat
  BY LenProperties DEF Enumerates
<1>2. /\ t \in Seq(Addresses)
      /\ DOMAIN t = 1..(Len(s) + 1)
      /\ \A i \in 1..Len(s) : t[i] = s[i]
      /\ t[Len(s) + 1] = a
  BY <1>1, AppendProperties, LenProperties
<1> HIDE DEF t
<1>3. \A i, j \in DOMAIN t : t[i] = t[j] => i = j
  BY <1>1, <1>2 DEF Enumerates
<1>4. \A i \in DOMAIN t : t[i] \in D \union {a}
  BY <1>1, <1>2 DEF Enumerates
<1>5. \A x \in D \union {a} : \E i \in DOMAIN t : t[i] = x
  BY <1>1, <1>2 DEF Enumerates
<1>6. QED
  BY <1>2, <1>3, <1>4, <1>5 DEF Enumerates, t

\* The units of one entry are as many as its charge.
LEMMA ChargeOfOne ==
  ASSUME NEW a, NEW c \in Nat
  PROVE  IsFiniteSet({a} \X (1..c)) /\ Cardinality({a} \X (1..c)) = c
<1>1. IsFiniteSet(1..c) /\ Cardinality(1..c) = c
  BY FS_Interval
<1>2. IsFiniteSet({a}) /\ Cardinality({a}) = 1
  BY FS_Singleton
<1>3. QED
  BY <1>1, <1>2, FS_Product

\* Taking an entry away takes its charge from the sum of the charges.
LEMMA UnitsWithout ==
  ASSUME NEW es, \A x \in DOMAIN es : es[x].charge \in Nat,
         IsFiniteSet(Units(es)), NEW a \in DOMAIN es
  PROVE  LET fs == Restrict(es, DOMAIN es \ {a})
         IN  /\ IsFiniteSet(Units(fs))
             /\ Cardinality(Units(fs)) = Cardinality(Units(es)) - es[a].charge
<1> DEFINE fs == Restrict(es, DOMAIN es \ {a})
           U  == {a} \X (1..es[a].charge)
<1>1. Units(fs) = Units(es) \ U
  BY DEF Units, Restrict
<1>2. Units(es) \cap U = U
  BY DEF Units
<1>3. IsFiniteSet(U) /\ Cardinality(U) = es[a].charge
  BY ChargeOfOne
<1> HIDE DEF U
<1>4. /\ IsFiniteSet(Units(es) \ U)
      /\ Cardinality(Units(es) \ U) = Cardinality(Units(es)) - Cardinality(U)
  BY <1>2, FS_Difference
<1>5. QED
  BY <1>1, <1>3, <1>4

\* Adding an entry adds its charge.
LEMMA UnitsWith ==
  ASSUME NEW es, IsFiniteSet(Units(es)),
         NEW a, a \notin DOMAIN es, NEW e, e.charge \in Nat
  PROVE  LET fs == With(es, a, e)
         IN  /\ IsFiniteSet(Units(fs))
             /\ Cardinality(Units(fs)) = Cardinality(Units(es)) + e.charge
<1> DEFINE fs == With(es, a, e)
           U  == {a} \X (1..e.charge)
<1>1. Units(fs) = Units(es) \union U
  BY DEF Units, With
<1>2. Units(es) \cap U = {}
  BY DEF Units
<1>3. IsFiniteSet(U) /\ Cardinality(U) = e.charge
  BY ChargeOfOne
<1> HIDE DEF U
<1>4. Cardinality(Units(es)) \in Nat
  BY FS_CardinalityType
<1>5. /\ IsFiniteSet(Units(es) \union U)
      /\ Cardinality(Units(es) \union U)
           = Cardinality(Units(es)) + Cardinality(U) - Cardinality({})
  BY <1>2, <1>3, FS_Union
<1>6. QED
  BY <1>1, <1>3, <1>4, <1>5, FS_EmptySet

\* A store with no entry accounts for nothing.
LEMMA UnitsOfNone ==
  ASSUME NEW es, DOMAIN es = {}
  PROVE  IsFiniteSet(Units(es)) /\ Cardinality(Units(es)) = 0
<1>1. Units(es) = {}
  BY DEF Units
<1>2. QED
  BY <1>1, FS_EmptySet

-----------------------------------------------------------------------------
(***************************************************************************)
(* The inductive invariant.  The byte counter is exact only because the    *)
(* entries' units are finite in number, and the budget holds after the     *)
(* insertion only because a refused value never gets that far and the      *)
(* address being stored is not retained meanwhile.                         *)
(***************************************************************************)
PutIsAdmitted ==
  put # NoPut => ~Refused(put.value) /\ put.address \notin DOMAIN entries

StoreInv ==
  /\ TypeOK
  /\ IsFiniteSet(Units(entries))
  /\ BytesAreCharges
  /\ WithinBudget
  /\ PutIsAdmitted

\* Any retained address has a position in the order.
LEMMA PositionOfEntry ==
  ASSUME TypeOK, NEW a \in DOMAIN entries
  PROVE  PositionOf(a) \in DOMAIN order /\ order[PositionOf(a)] = a
BY DEF TypeOK, Enumerates, PositionOf

\* Removing an entry keeps the account exact.
LEMMA DiscardKeepsAccount ==
  ASSUME StoreInv, NEW a \in DOMAIN entries, Discard(a)
  PROVE  /\ DOMAIN entries' = DOMAIN entries \ {a}
         /\ entries' \in [DOMAIN entries' -> Entry]
         /\ Enumerates(order', DOMAIN entries')
         /\ DOMAIN slots' \subseteq DOMAIN slots
         /\ slots' \in [DOMAIN slots' -> Addresses]
         /\ IsFiniteSet(Units(entries'))
         /\ bytes' = Cardinality(Units(entries'))
         /\ bytes' \in Int
         /\ bytes' <= bytes
<1> DEFINE c == entries[a].charge
<1>1. c \in Nat /\ bytes \in Int
  BY DEF StoreInv, TypeOK, Entry
<1>2. bytes' = bytes - c
  BY DEF Discard
<1>3. /\ IsFiniteSet(Units(entries'))
      /\ Cardinality(Units(entries')) = Cardinality(Units(entries)) - c
  <2>1. \A x \in DOMAIN entries : entries[x].charge \in Nat
    BY DEF StoreInv, TypeOK, Entry
  <2>2. QED
    BY <2>1, UnitsWithout DEF StoreInv, Discard
<1>4. /\ DOMAIN entries' = DOMAIN entries \ {a}
      /\ entries' \in [DOMAIN entries' -> Entry]
  BY DEF Discard, Restrict, StoreInv, TypeOK
<1>5. Enumerates(order', DOMAIN entries')
  BY <1>4, PositionOfEntry, RemoveEnumerates DEF Discard, StoreInv, TypeOK
<1>6. /\ DOMAIN slots' \subseteq DOMAIN slots
      /\ slots' \in [DOMAIN slots' -> Addresses]
  BY DEF Discard, Unmapped, Restrict, StoreInv, TypeOK
<1>7. QED
  BY <1>1, <1>2, <1>3, <1>4, <1>5, <1>6 DEF StoreInv, BytesAreCharges

\* A counting step leaves the counters natural numbers.
LEMMA CountKeepsType ==
  ASSUME NEW events, TypeOK, Count(events)
  PROVE  counts' \in [Counters -> Nat]
BY DEF TypeOK, Count

LEMMA StoreInit == Init => StoreInv
<1> SUFFICES ASSUME Init PROVE StoreInv
  OBVIOUS
<1>1. DOMAIN entries = {} /\ order \in Seq(Addresses) /\ DOMAIN order = {}
  BY DEF Init
<1>2. TypeOK
  BY <1>1, StoreAssumption DEF Init, TypeOK, Enumerates
<1>3. IsFiniteSet(Units(entries)) /\ BytesAreCharges
  BY <1>1, UnitsOfNone DEF Init, BytesAreCharges
<1>4. WithinBudget /\ PutIsAdmitted
  BY StoreAssumption DEF Init, WithinBudget, PutIsAdmitted
<1>5. QED
  BY <1>2, <1>3, <1>4 DEF StoreInv

LEMMA StoreNext == StoreInv /\ [Next]_vars => StoreInv'
<1> SUFFICES ASSUME StoreInv, [Next]_vars PROVE StoreInv'
  OBVIOUS
<1> USE DEF StoreInv
<1>1. ASSUME NEW a \in Addresses, Hit(a) PROVE StoreInv'
  <2>1. Enumerates(order', DOMAIN entries)
    <3>1. Enumerates(RemoveAt(order, PositionOf(a)), DOMAIN entries \ {a})
      BY <1>1, PositionOfEntry, RemoveEnumerates DEF Hit, TypeOK
    <3>2. Enumerates(order', (DOMAIN entries \ {a}) \union {a})
      BY <1>1, <3>1, AppendEnumerates DEF Hit, MoveToEnd
    <3>3. (DOMAIN entries \ {a}) \union {a} = DOMAIN entries
      BY <1>1 DEF Hit
    <3>4. QED
      BY <3>2, <3>3
  <2>2. TypeOK'
    BY <1>1, <2>1, CountKeepsType DEF Hit, Call, TypeOK
  <2>3. QED
    BY <1>1, <2>2 DEF Hit, Call, BytesAreCharges, WithinBudget, PutIsAdmitted, Refused
<1>2. ASSUME NEW a \in Addresses, NEW slot \in Slots \union {NoSlot}, Miss(a, slot)
      PROVE  StoreInv'
  <2>1. TypeOK'
    BY <1>2, CountKeepsType DEF Miss, Call, TypeOK, store
  <2>2. QED
    BY <1>2, <2>1
       DEF Miss, Call, store, BytesAreCharges, WithinBudget, PutIsAdmitted, Refused
<1>3. ASSUME NEW a \in Addresses, NEW v \in Values, PutRefused(a, v)
      PROVE  StoreInv'
  <2>1. TypeOK'
    BY <1>3, CountKeepsType DEF PutRefused, Call, TypeOK, store
  <2>2. QED
    BY <1>3, <2>1
       DEF PutRefused, Call, store, BytesAreCharges, WithinBudget, PutIsAdmitted, Refused
<1>4. ASSUME NEW a \in Addresses, NEW v \in Values,
             NEW slot \in Slots \union {NoSlot}, PutBegin(a, v, slot)
      PROVE  StoreInv'
  <2>1. /\ put' \in PutRequest /\ put'.value = v /\ put'.address = a
        /\ calls' \in Nat /\ counts' = counts /\ peak' = peak
    BY <1>4 DEF PutBegin, PutRequest, Call, TypeOK
  <2>2. ~Refused(v)
    BY <1>4 DEF PutBegin
  <2>3. CASE a \in DOMAIN entries
    <3>1. Discard(a)
      BY <1>4, <2>3 DEF PutBegin
    <3>2. TypeOK'
      BY <2>1, <2>3, <3>1, DiscardKeepsAccount DEF TypeOK
    <3>3. IsFiniteSet(Units(entries))' /\ BytesAreCharges' /\ WithinBudget'
      <4>1. /\ IsFiniteSet(Units(entries'))
            /\ bytes' = Cardinality(Units(entries'))
            /\ bytes' \in Int
            /\ bytes' <= bytes
        BY <2>3, <3>1, DiscardKeepsAccount
      <4>2. QED
        BY <2>1, <4>1, StoreAssumption DEF BytesAreCharges, WithinBudget, TypeOK
    <3>4. PutIsAdmitted'
      BY <2>1, <2>2, <2>3, <3>1, DiscardKeepsAccount DEF PutIsAdmitted, Refused
    <3>5. QED
      BY <3>2, <3>3, <3>4
  <2>4. CASE a \notin DOMAIN entries
    <3>1. UNCHANGED store
      BY <1>4, <2>4 DEF PutBegin
    <3>2. TypeOK'
      BY <2>1, <3>1 DEF TypeOK, store
    <3>3. QED
      BY <2>1, <2>2, <2>4, <3>1, <3>2
         DEF store, BytesAreCharges, WithinBudget, PutIsAdmitted, Refused
  <2>5. QED
    BY <2>3, <2>4
<1>5. CASE EvictOldest
  <2>1. Head(order) \in DOMAIN entries
    BY <1>5 DEF EvictOldest, TypeOK, Enumerates
  <2>2. Discard(Head(order)) /\ put' = put /\ calls' = calls /\ peak' = peak
    BY <1>5 DEF EvictOldest
  <2>3. TypeOK'
    BY <1>5, <2>1, <2>2, CountKeepsType, DiscardKeepsAccount DEF EvictOldest, TypeOK
  <2>4. IsFiniteSet(Units(entries))' /\ BytesAreCharges' /\ WithinBudget'
    <3>1. /\ IsFiniteSet(Units(entries'))
          /\ bytes' = Cardinality(Units(entries'))
          /\ bytes' \in Int
          /\ bytes' <= bytes
      BY <2>1, <2>2, DiscardKeepsAccount
    <3>2. QED
      BY <2>2, <3>1, StoreAssumption DEF BytesAreCharges, WithinBudget, TypeOK
  <2>5. PutIsAdmitted'
    BY <2>1, <2>2, DiscardKeepsAccount DEF PutIsAdmitted, Refused
  <2>6. QED
    BY <2>3, <2>4, <2>5
<1>6. CASE PutEnd
  <2> DEFINE a == put.address
             c == Charge[put.value]
             e == [value |-> put.value, charge |-> c, slot |-> put.slot]
  <2>1. put \in PutRequest /\ put # NoPut /\ ~Refused(put.value) /\ a \notin DOMAIN entries
    BY <1>6 DEF PutEnd, TypeOK, PutIsAdmitted
  <2>2. a \in Addresses /\ e \in Entry /\ c \in Nat /\ c <= MaxBytes
    BY <2>1, StoreAssumption DEF PutRequest, Entry, Refused
  <2>3. entries' = With(entries, a, e) /\ bytes' = bytes + c /\ put' = NoPut
    BY <1>6 DEF PutEnd
  <2>4. IsFiniteSet(Units(entries))' /\ BytesAreCharges' /\ bytes' \in Int
    <3>1. /\ IsFiniteSet(Units(With(entries, a, e)))
          /\ Cardinality(Units(With(entries, a, e)))
               = Cardinality(Units(entries)) + e.charge
      BY <2>1, <2>2, UnitsWith DEF Entry
    <3>2. QED
      BY <2>2, <2>3, <3>1 DEF BytesAreCharges, TypeOK
  <2>5. bytes' <= MaxBytes /\ peak' <= MaxBytes /\ peak' \in Nat
    <3>1. bytes + c <= MaxBytes
      <4>1. CASE order = <<>>
        <5>1. DOMAIN entries = {}
          <6>1. DOMAIN order = {}
            BY <4>1
          <6>2. \A x \in DOMAIN entries : \E i \in DOMAIN order : order[i] = x
            BY DEF TypeOK, Enumerates
          <6>3. QED
            BY <6>1, <6>2
        <5>2. bytes = 0
          BY <5>1, UnitsOfNone DEF BytesAreCharges
        <5>3. QED
          BY <2>2, <5>2, StoreAssumption
      <4>2. CASE ~NeedsRoom
        BY <2>2, <4>2, StoreAssumption DEF NeedsRoom, TypeOK
      <4>3. QED
        BY <1>6, <4>1, <4>2 DEF PutEnd
    <3>2. QED
      BY <1>6, <2>2, <3>1, StoreAssumption DEF PutEnd, TypeOK, WithinBudget
  <2>6. TypeOK'
    <3>1. /\ DOMAIN entries' = DOMAIN entries \union {a}
          /\ entries' \in [DOMAIN entries' -> Entry]
      BY <2>2, <2>3 DEF With, TypeOK
    <3>2. Enumerates(order', DOMAIN entries')
      BY <1>6, <2>1, <2>2, <3>1, AppendEnumerates DEF PutEnd, TypeOK
    <3>3. /\ DOMAIN slots' \subseteq Namespaces \X Slots
          /\ slots' \in [DOMAIN slots' -> Addresses]
      BY <1>6, <2>1, <2>2 DEF PutEnd, With, TypeOK, PutRequest, Addresses
    <3>4. QED
      BY <1>6, <2>2, <2>3, <2>4, <2>5, <3>1, <3>2, <3>3 DEF PutEnd, TypeOK
  <2>7. QED
    BY <2>3, <2>4, <2>5, <2>6 DEF WithinBudget, PutIsAdmitted
<1>7. CASE Clear
  <2>1. DOMAIN entries' = {} /\ order' = <<>> /\ slots' = <<>> /\ bytes' = 0
    BY <1>7 DEF Clear
  <2>2. TypeOK'
    BY <1>7, <2>1 DEF Clear, Call, TypeOK, Enumerates
  <2>3. QED
    BY <1>7, <2>1, <2>2, UnitsOfNone, StoreAssumption
       DEF Clear, Call, BytesAreCharges, WithinBudget, PutIsAdmitted
<1>8. CASE UNCHANGED vars
  BY <1>8 DEF vars, TypeOK, BytesAreCharges, WithinBudget, PutIsAdmitted, Refused
<1>9. QED
  BY <1>1, <1>2, <1>3, <1>4, <1>5, <1>6, <1>7, <1>8 DEF Next

\* What get(), put() and clear() keep holds of every store that is used.
THEOREM StoreInvariant == Spec => []StoreInv
BY StoreInit, StoreNext, PTL DEF Spec

\* The store's state keeps its shape, and `order` lists every entry once,
\* whatever get(), put() and clear() do (MemoryArtifactStore).
THEOREM StoreTypeOK == Spec => []TypeOK
<1>1. StoreInv => TypeOK
  BY DEF StoreInv
<1>2. QED
  BY <1>1, StoreInvariant, PTL

\* For every number of artifacts and every charge, the byte counter put()
\* and _remove() maintain is the sum of the retained entries' charges.
THEOREM StoreBytesAreCharges == Spec => []BytesAreCharges
<1>1. StoreInv => BytesAreCharges
  BY DEF StoreInv
<1>2. QED
  BY <1>1, StoreInvariant, PTL

\* For every budget, the accounted bytes and their peak stay within it.
THEOREM StoreWithinBudget == Spec => []WithinBudget
<1>1. StoreInv => WithinBudget
  BY DEF StoreInv
<1>2. QED
  BY <1>1, StoreInvariant, PTL

-----------------------------------------------------------------------------
(***************************************************************************)
(* The slot index.  Live(x) says that the address last stored in slot x    *)
(* is still retained under it; the index holds these and nothing else.     *)
(***************************************************************************)
Live(x) == latest[x] \in DOMAIN entries /\ entries[latest[x]].slot = x[2]

IndexInv ==
  /\ DOMAIN latest \subseteq Namespaces \X Slots
  /\ \A x \in DOMAIN latest : latest[x] \in Addresses /\ latest[x][1] = x[1]
  /\ \A x \in DOMAIN slots : x \in DOMAIN latest /\ Live(x) /\ slots[x] = latest[x]
  /\ \A x \in DOMAIN latest : Live(x) => x \in DOMAIN slots

LEMMA DiscardKeepsIndex ==
  ASSUME StoreInv, IndexInv, NEW a \in DOMAIN entries, Discard(a), latest' = latest
  PROVE  IndexInv'
<1> DEFINE s == <<a[1], entries[a].slot>>
<1>1. /\ DOMAIN entries' = DOMAIN entries \ {a}
      /\ \A x \in DOMAIN entries' : entries'[x] = entries[x]
  BY DEF Discard, Restrict
<1>2. slots' = Unmapped(a)
  BY DEF Discard
<1>3. a \in Addresses /\ entries[a].slot \in Slots \union {NoSlot}
  BY DEF StoreInv, TypeOK, Entry
<1>4. \A x \in DOMAIN latest : latest[x] = a /\ Live(x) => x = s /\ entries[a].slot # NoSlot
  BY StoreAssumption DEF IndexInv, Live
<1>5. /\ DOMAIN slots' = {x \in DOMAIN slots : slots[x] # a}
      /\ \A x \in DOMAIN slots' : slots'[x] = slots[x]
  <2>1. CASE entries[a].slot # NoSlot /\ s \in DOMAIN slots /\ slots[s] = a
    <3>1. slots' = Restrict(slots, DOMAIN slots \ {s})
      BY <1>2, <2>1 DEF Unmapped
    <3>2. \A x \in DOMAIN slots : slots[x] = a => x = s
      BY <1>4 DEF IndexInv
    <3>3. QED
      BY <2>1, <3>1, <3>2 DEF Restrict
  <2>2. CASE ~(entries[a].slot # NoSlot /\ s \in DOMAIN slots /\ slots[s] = a)
    <3>1. slots' = slots
      BY <1>2, <2>2 DEF Unmapped
    <3>2. \A x \in DOMAIN slots : slots[x] # a
      BY <1>4, <2>2 DEF IndexInv
    <3>3. QED
      BY <3>1, <3>2
  <2>3. QED
    BY <2>1, <2>2
<1>6. \A x \in DOMAIN latest : Live(x)' <=> Live(x) /\ latest[x] # a
  BY <1>1 DEF Live
<1>7. QED
  BY <1>5, <1>6 DEF IndexInv

LEMMA IndexNext == StoreInv /\ IndexInv /\ [Next]_vars => IndexInv'
<1> SUFFICES ASSUME StoreInv, IndexInv, [Next]_vars PROVE IndexInv'
  OBVIOUS
<1>1. CASE UNCHANGED <<entries, slots, latest>>
  BY <1>1 DEF IndexInv, Live
<1>2. ASSUME NEW a \in Addresses, NEW v \in Values,
             NEW slot \in Slots \union {NoSlot}, PutBegin(a, v, slot)
      PROVE  IndexInv'
  <2>1. CASE a \in DOMAIN entries
    BY <1>2, <2>1, DiscardKeepsIndex DEF PutBegin
  <2>2. CASE a \notin DOMAIN entries
    BY <1>1, <1>2, <2>2 DEF PutBegin, store
  <2>3. QED
    BY <2>1, <2>2
<1>3. CASE EvictOldest
  <2>1. Head(order) \in DOMAIN entries
    BY <1>3 DEF EvictOldest, StoreInv, TypeOK, Enumerates
  <2>2. QED
    BY <1>3, <2>1, DiscardKeepsIndex DEF EvictOldest
<1>4. CASE PutEnd
  <2> DEFINE a == put.address
             e == [value |-> put.value, charge |-> Charge[put.value], slot |-> put.slot]
             s == <<a[1], put.slot>>
  <2>1. /\ a \in Addresses
        /\ a \notin DOMAIN entries
        /\ put.slot \in Slots \union {NoSlot}
    BY <1>4 DEF PutEnd, StoreInv, TypeOK, PutIsAdmitted, PutRequest
  <2>2. /\ DOMAIN entries' = DOMAIN entries \union {a}
        /\ entries'[a].slot = put.slot
        /\ \A x \in DOMAIN entries : entries'[x] = entries[x]
    BY <1>4, <2>1 DEF PutEnd, With
  <2>3. \A x \in DOMAIN latest : latest[x] = a /\ x[2] = put.slot => x = s
    BY DEF IndexInv
  <2>4. CASE put.slot = NoSlot
    <3>1. slots' = slots /\ latest' = latest
      BY <1>4, <2>4 DEF PutEnd
    <3>2. \A x \in DOMAIN latest : Live(x)' <=> Live(x)
      BY <2>1, <2>2, <2>4, <3>1, StoreAssumption DEF Live, IndexInv
    <3>3. QED
      BY <3>1, <3>2 DEF IndexInv
  <2>5. CASE put.slot # NoSlot
    <3>1. slots' = With(slots, s, a) /\ latest' = With(latest, s, a)
      BY <1>4, <2>5 DEF PutEnd
    <3>2. /\ DOMAIN slots' = DOMAIN slots \union {s}
          /\ DOMAIN latest' = DOMAIN latest \union {s}
          /\ slots'[s] = a /\ latest'[s] = a
          /\ \A x \in DOMAIN slots \ {s} : slots'[x] = slots[x]
          /\ \A x \in DOMAIN latest \ {s} : latest'[x] = latest[x]
      BY <3>1 DEF With
    <3>3. \A x \in DOMAIN latest' : x = s => Live(x)'
      BY <2>2, <3>2 DEF Live
    <3>4. \A x \in DOMAIN latest \ {s} : Live(x)' <=> Live(x)
      BY <2>1, <2>2, <2>3, <3>2 DEF Live, IndexInv
    <3>5. s \in Namespaces \X Slots /\ a[1] = s[1]
      BY <2>1, <2>5 DEF Addresses
    <3>6. /\ DOMAIN latest' \subseteq Namespaces \X Slots
          /\ \A x \in DOMAIN latest' : latest'[x] \in Addresses /\ latest'[x][1] = x[1]
      BY <2>1, <3>2, <3>5 DEF IndexInv
    <3>7. \A x \in DOMAIN slots' :
            x \in DOMAIN latest' /\ Live(x)' /\ slots'[x] = latest'[x]
      BY <3>2, <3>3, <3>4 DEF IndexInv
    <3>8. \A x \in DOMAIN latest' : Live(x)' => x \in DOMAIN slots'
      BY <3>2, <3>4 DEF IndexInv
    <3>9. QED
      BY <3>6, <3>7, <3>8 DEF IndexInv
  <2>6. QED
    BY <2>4, <2>5
<1>5. CASE Clear
  BY <1>5 DEF Clear, IndexInv
<1>6. QED
  BY <1>1, <1>2, <1>3, <1>4, <1>5
     DEF Next, Hit, Miss, PutRefused, store, vars

\* For every number of slots and namespaces, the slot index maps a slot
\* exactly while the address last stored in it is retained under it
\* (put() and the guarded deletion in _remove()).
THEOREM StoreSlotsNameLatest == Spec => []SlotsNameLatest
<1>1. Init => IndexInv
  BY DEF Init, IndexInv
<1>2. StoreInv /\ IndexInv => SlotsNameLatest
  <2> SUFFICES ASSUME StoreInv, IndexInv PROVE SlotsNameLatest
    OBVIOUS
  <2> DEFINE retained == {x \in DOMAIN latest : Live(x)}
  <2>1. DOMAIN slots = retained /\ \A x \in retained : slots[x] = latest[x]
    BY DEF IndexInv
  <2>2. slots \in [DOMAIN slots -> Addresses]
    BY DEF StoreInv, TypeOK
  <2>3. slots = [x \in retained |-> latest[x]]
    BY <2>1, <2>2
  <2>4. QED
    BY <2>3 DEF SlotsNameLatest, Live
<1>3. QED
  BY <1>1, <1>2, IndexNext, StoreInvariant, PTL DEF Spec

\* For every budget and every sequence of calls, the store's incremental
\* accounts, of bytes and of slots, are what counting afresh would give.
THEOREM StoreAccountIsExact == Spec => []AccountIsExact
<1>1. BytesAreCharges /\ WithinBudget /\ SlotsNameLatest => AccountIsExact
  BY DEF AccountIsExact
<1>2. QED
  BY <1>1, StoreBytesAreCharges, StoreWithinBudget, StoreSlotsNameLatest, PTL

-----------------------------------------------------------------------------
(***************************************************************************)
(* The store is a least-recently-used cache.  While put() makes room, what *)
(* is left is the most recent part of the others, and a longer part leaves *)
(* no room; so the loop ends where the abstract cache begins.              *)
(***************************************************************************)
\* What is retained, as the sequence of a least-recently-used cache.
Item == [address : Addresses, value : Values]

\* The items of keys o, oldest first, with the values that entries es hold.
ContentOf(o, es) == [i \in DOMAIN o |-> [address |-> o[i], value |-> es[o[i]].value]]

\* Entries in an order, each charged what its value is.
Charged(o, es) ==
  /\ DOMAIN es \subseteq Addresses
  /\ es \in [DOMAIN es -> Entry]
  /\ Enumerates(o, DOMAIN es)
  /\ \A a \in DOMAIN es : es[a].charge = Charge[es[a].value]

\* Position by position, c is what o and es hold.
Lists(c, o, es) ==
  /\ Len(o) \in Nat /\ DOMAIN o = 1..Len(o) /\ o \in Seq(Addresses)
  /\ c \in Seq(Item) /\ Len(c) = Len(o) /\ DOMAIN c = 1..Len(o)
  /\ \A i \in 1..Len(o) : /\ o[i] \in DOMAIN es /\ c[i] = [address |-> o[i], value |-> es[o[i]].value]
                          /\ c[i].address = o[i] /\ c[i].value = es[o[i]].value

\* The items of charged entries are these.
LEMMA ContentIs ==
  ASSUME NEW o, NEW es, Charged(o, es) PROVE Lists(ContentOf(o, es), o, es)
<1>0. PICK c : c = ContentOf(o, es)
  OBVIOUS
<1>1. o \in Seq(Addresses)
  BY DEF Charged, Enumerates
<1>2. PICK n \in Nat : n = Len(o) /\ DOMAIN o = 1..n
  BY <1>1, LenProperties
<1>3. c = [i \in 1..n |-> [address |-> o[i], value |-> es[o[i]].value]]
  BY <1>0, <1>2 DEF ContentOf
<1>4. \A i \in 1..n : o[i] \in DOMAIN es /\ o[i] \in Addresses /\ es[o[i]].value \in Values
  <2>1. \A i \in 1..n : o[i] \in DOMAIN es
    BY <1>2 DEF Charged, Enumerates
  <2>2. \A a \in DOMAIN es : a \in Addresses /\ es[a].value \in Values
    BY DEF Charged, Entry
  <2> QED BY <2>1, <2>2
<1>5. \A i \in 1..n : c[i] \in Item
  BY <1>3, <1>4 DEF Item
<1>6. c \in Seq(Item) /\ Len(c) = n /\ DOMAIN c = 1..n
  BY <1>3, <1>5
<1> QED BY <1>0, <1>1, <1>2, <1>3, <1>4, <1>6 DEF Lists

\* The abstract cache counts as the store does.
LEMMA SameCardinality == \A S : Lru!Cardinality(S) = Cardinality(S)
BY DEF Lru!Cardinality, Cardinality, Lru!IsFiniteSet, IsFiniteSet

\* What the retained artifacts weigh is what the store accounts for.
LEMMA WeightIs ==
  ASSUME NEW o, NEW es, Charged(o, es), IsFiniteSet(Units(es))
  PROVE  Lru!Weight(ContentOf(o, es)) = Cardinality(Units(es))
<1>1. PICK c : c = ContentOf(o, es)
  OBVIOUS
<1>2. PICK n \in Nat : n = Len(o) /\ DOMAIN o = 1..n
  BY ContentIs DEF Lists
<1>3. DOMAIN c = 1..n /\ \A i \in 1..n : o[i] \in DOMAIN es /\ Charge[c[i].value] = es[o[i]].charge
  <2>0. Lists(c, o, es)
    BY <1>1, ContentIs
  <2>1. DOMAIN c = 1..n /\ \A i \in 1..n : o[i] \in DOMAIN es /\ c[i].value = es[o[i]].value
    BY <1>2, <2>0 DEF Lists
  <2> QED BY <2>1 DEF Charged
<1> DEFINE U == Units(es)
           W == UNION {{i} \X (1..Charge[c[i].value]) : i \in DOMAIN c}
<1>4. \A a \in DOMAIN es : \E i \in 1..n : o[i] = a
  BY <1>2 DEF Charged, Enumerates
<1>5. \A i, j \in 1..n : o[i] = o[j] => i = j
  BY <1>2 DEF Charged, Enumerates
<1> DEFINE at == [a \in DOMAIN es |-> CHOOSE i \in 1..n : o[i] = a]
<1>6. \A a \in DOMAIN es : at[a] \in 1..n /\ o[at[a]] = a
  BY <1>4
<1> HIDE DEF at
<1> DEFINE f == [x \in U |-> <<at[x[1]], x[2]>>]
<1>7. \A x : x \in U <=> x = <<x[1], x[2]>> /\ x[1] \in DOMAIN es /\ x[2] \in 1..es[x[1]].charge
  BY DEF Units
<1>8. \A x : x \in W <=> x = <<x[1], x[2]>> /\ x[1] \in 1..n /\ x[2] \in 1..Charge[c[x[1]].value]
  BY <1>3
<1> HIDE DEF U, W
<1>9. \A x \in U : f[x] \in W
  <2> SUFFICES ASSUME NEW x \in U PROVE f[x] \in W
    OBVIOUS
  <2>1. f[x] = <<at[x[1]], x[2]>> /\ x[1] \in DOMAIN es /\ x[2] \in 1..es[x[1]].charge
    BY <1>7
  <2>2. at[x[1]] \in 1..n /\ Charge[c[at[x[1]]].value] = es[x[1]].charge
    BY <1>3, <1>6, <2>1
  <2> QED BY <1>8, <2>1, <2>2
<1>10. \A x, y \in U : f[x] = f[y] => x = y
  <2> SUFFICES ASSUME NEW x \in U, NEW y \in U, f[x] = f[y] PROVE x = y
    OBVIOUS
  <2>1. /\ x = <<x[1], x[2]>> /\ y = <<y[1], y[2]>> /\ x[1] \in DOMAIN es /\ y[1] \in DOMAIN es
        /\ at[x[1]] = at[y[1]] /\ x[2] = y[2]
    BY <1>7
  <2>2. x[1] = y[1]
    BY <1>6, <2>1
  <2> QED BY <2>1, <2>2
<1>11. \A y \in W : \E x \in U : f[x] = y
  <2> SUFFICES ASSUME NEW y \in W PROVE \E x \in U : f[x] = y
    OBVIOUS
  <2>1. y = <<y[1], y[2]>> /\ y[1] \in 1..n /\ y[2] \in 1..Charge[c[y[1]].value]
    BY <1>8
  <2>2. PICK x : x = <<o[y[1]], y[2]>>
    OBVIOUS
  <2>3. x[1] = o[y[1]] /\ x[2] = y[2] /\ o[y[1]] \in DOMAIN es /\ y[2] \in 1..es[o[y[1]]].charge
    BY <1>3, <2>1, <2>2
  <2>4. x \in U
    BY <1>7, <2>2, <2>3
  <2>5. at[x[1]] = y[1]
    BY <1>5, <1>6, <2>1, <2>3
  <2> QED BY <2>1, <2>3, <2>4, <2>5
<1>12. ExistsBijection(U, W)
  <2>1. f \in [U -> W]
    BY <1>9
  <2> HIDE DEF f
  <2>2. f \in Injection(U, W)
    BY <1>10, <2>1 DEF Injection, IsInjective
  <2>3. f \in Surjection(U, W)
    BY <1>11, <2>1 DEF Surjection
  <2> QED BY <2>2, <2>3 DEF Bijection, ExistsBijection
<1>13. Cardinality(W) = Cardinality(U)
  BY <1>12, FS_Bijection DEF U
<1>14. Lru!Weight(c) = Lru!Cardinality(W)
  BY DEF Lru!Weight, W
<1> QED BY <1>1, <1>13, <1>14, SameCardinality DEF U

\* An entry taken out of the store is taken out of the sequence.
LEMMA ContentRemoved ==
  ASSUME NEW o, NEW es, Charged(o, es), NEW p \in 1..Len(o), NEW fs, NEW q,
         q = RemoveAt(o, p), fs = Restrict(es, DOMAIN es \ {o[p]})
  PROVE  Charged(q, fs) /\ ContentOf(q, fs) = RemoveAt(ContentOf(o, es), p)
<1>1. PICK c, d : c = ContentOf(o, es) /\ d = ContentOf(q, fs)
  OBVIOUS
<1>2. PICK n \in Nat : n = Len(o) /\ DOMAIN o = 1..n
  BY ContentIs DEF Lists
<1>3. o \in Seq(Addresses) /\ c \in Seq(Item) /\ Len(c) = n /\ p \in 1..n
  BY <1>1, <1>2, ContentIs DEF Lists, Charged, Enumerates
<1>4. q \in Seq(Addresses) /\ Len(q) = n - 1 /\ \A i \in 1..n - 1 : q[i] = IF i < p THEN o[i] ELSE o[i + 1]
  BY <1>2, <1>3, RemoveAtProperties
<1>5. PICK r : r = RemoveAt(c, p)
  OBVIOUS
<1>6. r \in Seq(Item) /\ Len(r) = n - 1 /\ \A i \in 1..n - 1 : r[i] = IF i < p THEN c[i] ELSE c[i + 1]
  BY <1>3, <1>5, RemoveAtProperties
<1>7. DOMAIN fs = DOMAIN es \ {o[p]} /\ \A a \in DOMAIN fs : fs[a] = es[a]
  BY DEF Restrict
<1>8. Enumerates(q, DOMAIN fs)
  BY <1>2, <1>3, <1>7, RemoveEnumerates DEF Charged
<1>9. Charged(q, fs)
  <2>1. fs \in [DOMAIN fs -> Entry]
    <3>1. \A a \in DOMAIN fs : fs[a] \in Entry
      BY <1>7 DEF Charged
    <3>2. fs = [a \in DOMAIN fs |-> fs[a]]
      BY DEF Restrict
    <3> QED BY <3>1, <3>2
  <2> QED BY <1>7, <1>8, <2>1 DEF Charged
<1>10. d \in Seq(Item) /\ Len(d) = n - 1
       /\ \A i \in 1..n - 1 : q[i] \in DOMAIN fs /\ d[i] = [address |-> q[i], value |-> fs[q[i]].value]
  <2>1. Lists(d, q, fs)
    BY <1>1, <1>9, ContentIs
  <2> QED BY <1>4, <2>1 DEF Lists
<1>11. ASSUME NEW i \in 1..n - 1 PROVE d[i] = r[i]
  <2>1. d[i] = [address |-> q[i], value |-> es[q[i]].value]
    BY <1>7, <1>10
  <2>2. CASE i < p
    <3>0. i \in 1..n /\ q[i] = o[i]
      BY <1>4, <2>2
    <3>1. q[i] = o[i] /\ r[i] = c[i] /\ i \in 1..n
      BY <1>6, <2>2, <3>0
    <3>2. c[i] = [address |-> o[i], value |-> es[o[i]].value]
      BY <1>1, <1>2, <3>1, ContentIs DEF Lists
    <3> QED BY <2>1, <3>1, <3>2
  <2>3. CASE ~ (i < p)
    <3>1. q[i] = o[i + 1] /\ r[i] = c[i + 1] /\ i + 1 \in 1..n
      BY <1>4, <1>6, <2>3
    <3>2. c[i + 1] = [address |-> o[i + 1], value |-> es[o[i + 1]].value]
      BY <1>1, <1>2, <3>1, ContentIs DEF Lists
    <3> QED BY <2>1, <3>1, <3>2
  <2> QED BY <2>2, <2>3
<1>12. d = r
  BY <1>6, <1>10, <1>11, SeqEqual
<1> QED BY <1>1, <1>5, <1>9, <1>12

\* What is left without an address.
LEMMA WithoutIs ==
  ASSUME NEW o, NEW es, Charged(o, es), NEW a
  PROVE  /\ a \notin DOMAIN es => Lru!Without(ContentOf(o, es), a) = ContentOf(o, es)
         /\ \A p \in 1..Len(o) : o[p] = a => Lru!Without(ContentOf(o, es), a) = RemoveAt(ContentOf(o, es), p)
<1>1. PICK c : c = ContentOf(o, es)
  OBVIOUS
<1> DEFINE S == {i \in DOMAIN c : c[i].address = a}
<1>2. DOMAIN c = 1..Len(o) /\ \A i \in 1..Len(o) : o[i] \in DOMAIN es /\ c[i].address = o[i]
  <2>1. Lists(c, o, es)
    BY <1>1, ContentIs
  <2>2. \A i \in 1..Len(o) : o[i] \in DOMAIN es /\ c[i].address = o[i]
    BY <2>1 DEF Lists
  <2>3. c \in Seq(Item) /\ Len(c) = Len(o)
    BY <2>1 DEF Lists
  <2> QED BY <2>2, <2>3, LenProperties
<1>3. Lru!Without(c, a) = IF S = {} THEN c ELSE RemoveAt(c, CHOOSE i \in S : TRUE)
  BY DEF Lru!Without, Lru!RemoveAt, RemoveAt
<1>4. a \notin DOMAIN es => S = {}
  BY <1>2
<1>5. ASSUME NEW p \in 1..Len(o), o[p] = a PROVE S = {p}
  <2>1. DOMAIN o = 1..Len(o) /\ \A i, j \in DOMAIN o : o[i] = o[j] => i = j
    BY ContentIs DEF Lists, Charged, Enumerates
  <2> QED BY <1>2, <1>5, <2>1
<1> HIDE DEF S
<1>6. \A p : S = {p} => S # {} /\ (CHOOSE i \in S : TRUE) = p
  OBVIOUS
<1> QED BY <1>1, <1>3, <1>4, <1>5, <1>6

\* An entry that becomes the most recent one.
LEMMA ContentMoved ==
  ASSUME NEW o, NEW es, Charged(o, es), NEW p \in 1..Len(o), NEW q, q = Append(RemoveAt(o, p), o[p]), Charged(q, es)
  PROVE  ContentOf(q, es) = Append(RemoveAt(ContentOf(o, es), p), ContentOf(o, es)[p])
<1>1. PICK c, d : c = ContentOf(o, es) /\ d = ContentOf(q, es)
  OBVIOUS
<1>2. Lists(c, o, es) /\ Lists(d, q, es)
  BY <1>1, ContentIs
<1>3. PICK n \in Nat : n = Len(o) /\ p \in 1..n
  BY <1>2 DEF Lists
<1>4. PICK r : r = RemoveAt(o, p)
  OBVIOUS
<1>5. r \in Seq(Addresses) /\ Len(r) = n - 1 /\ \A i \in 1..n - 1 : r[i] = IF i < p THEN o[i] ELSE o[i + 1]
  <2>1. o \in Seq(Addresses) /\ p \in 1..Len(o)
    BY <1>2 DEF Lists
  <2> QED BY <1>3, <1>4, <2>1, RemoveAtProperties
<1>6. Len(q) = n /\ q[n] = o[p] /\ \A i \in 1..n - 1 : q[i] = r[i]
  <2>1. q = Append(r, o[p]) /\ o[p] \in Addresses
    BY <1>2, <1>3, <1>4, ElementOfSeq DEF Lists
  <2> QED BY <1>3, <1>5, <2>1, AppendProperties
<1>7. PICK s : s = RemoveAt(c, p)
  OBVIOUS
<1>8. s \in Seq(Item) /\ Len(s) = n - 1 /\ \A i \in 1..n - 1 : s[i] = IF i < p THEN c[i] ELSE c[i + 1]
  <2>1. c \in Seq(Item) /\ p \in 1..Len(c) /\ Len(c) = n
    BY <1>2, <1>3 DEF Lists
  <2> QED BY <1>3, <1>7, <2>1, RemoveAtProperties
<1>9. PICK t : t = Append(s, c[p])
  OBVIOUS
<1>10. t \in Seq(Item) /\ Len(t) = n /\ t[n] = c[p] /\ \A i \in 1..n - 1 : t[i] = s[i]
  <2>1. c[p] \in Item
    BY <1>2, <1>3, ElementOfSeq DEF Lists
  <2> QED BY <1>3, <1>8, <1>9, <2>1, AppendProperties
<1>11. \A i \in 1..n : c[i] = [address |-> o[i], value |-> es[o[i]].value]
  BY <1>2, <1>3 DEF Lists
<1>12. d \in Seq(Item) /\ Len(d) = n /\ \A i \in 1..n : d[i] = [address |-> q[i], value |-> es[q[i]].value]
  BY <1>2, <1>6 DEF Lists
<1>13. ASSUME NEW i \in 1..n PROVE d[i] = t[i]
  <2>1. PICK j \in 1..n : q[i] = o[j] /\ t[i] = c[j]
    <3>1. CASE i = n
      BY <1>3, <1>6, <1>10, <3>1
    <3>2. CASE i < p /\ i # n
      <4>1. i \in 1..n - 1
        BY <3>2
      <4>2. q[i] = o[i] /\ t[i] = c[i]
        BY <1>5, <1>6, <1>8, <1>10, <3>2, <4>1
      <4> QED BY <4>2
    <3>3. CASE ~ (i < p) /\ i # n
      <4>1. i \in 1..n - 1 /\ i + 1 \in 1..n
        BY <3>3
      <4>2. q[i] = o[i + 1] /\ t[i] = c[i + 1]
        BY <1>5, <1>6, <1>8, <1>10, <3>3, <4>1
      <4> QED BY <4>1, <4>2
    <3> QED BY <3>1, <3>2, <3>3
  <2>2. d[i] = [address |-> o[j], value |-> es[o[j]].value]
    BY <1>12, <2>1
  <2> QED BY <1>11, <2>1, <2>2
<1>14. d = t
  BY <1>10, <1>12, <1>13, SeqEqual
<1> QED BY <1>1, <1>7, <1>9, <1>14

\* Keys q and entries fs are o and es with the item w at the end.
Appended(o, es, q, fs, w) ==
  /\ w \in Item
  /\ q = Append(o, w.address)
  /\ fs[w.address].value = w.value
  /\ \A x \in DOMAIN es : fs[x] = es[x]

\* An entry that is added.
LEMMA ContentAppended ==
  ASSUME NEW o, NEW es, Charged(o, es), NEW q, NEW fs, Charged(q, fs), NEW w, Appended(o, es, q, fs, w)
  PROVE  ContentOf(q, fs) = Append(ContentOf(o, es), w)
<1>1. PICK c, d, a, v : c = ContentOf(o, es) /\ d = ContentOf(q, fs) /\ a = w.address /\ v = w.value
  OBVIOUS
<1>2. Lists(c, o, es) /\ Lists(d, q, fs)
  BY <1>1, ContentIs
<1>a. /\ a \in Addresses /\ v \in Values /\ w = [address |-> a, value |-> v]
      /\ q = Append(o, a) /\ fs[a].value = v /\ \A x \in DOMAIN es : fs[x] = es[x]
  BY <1>1 DEF Appended, Item
<1>3. PICK n \in Nat : n = Len(o)
  BY <1>2 DEF Lists
<1>4. Len(q) = n + 1 /\ q[n + 1] = a /\ \A i \in 1..n : q[i] = o[i]
  BY <1>2, <1>3, <1>a, AppendProperties DEF Lists
<1>5. PICK t : t = Append(c, w)
  OBVIOUS
<1>b. w \in Item
  BY DEF Appended
<1>6. t \in Seq(Item) /\ Len(t) = n + 1 /\ t[n + 1] = w /\ \A i \in 1..n : t[i] = c[i]
  BY <1>2, <1>3, <1>5, <1>b, AppendProperties DEF Lists
<1>7. d \in Seq(Item) /\ Len(d) = n + 1 /\ \A i \in 1..n + 1 : d[i] = [address |-> q[i], value |-> fs[q[i]].value]
  BY <1>2, <1>4 DEF Lists
<1>8. \A i \in 1..n : o[i] \in DOMAIN es /\ c[i] = [address |-> o[i], value |-> es[o[i]].value]
  BY <1>2, <1>3 DEF Lists
<1>9. ASSUME NEW i \in 1..n + 1 PROVE d[i] = t[i]
  <2>1. CASE i = n + 1
    BY <1>4, <1>6, <1>7, <1>a, <2>1
  <2>2. CASE i # n + 1
    <3>1. i \in 1..n
      BY <2>2
    <3>2. d[i] = [address |-> o[i], value |-> fs[o[i]].value]
      BY <1>4, <1>7, <3>1
    <3>3. fs[o[i]] = es[o[i]] /\ t[i] = c[i]
      BY <1>6, <1>8, <1>a, <3>1
    <3> QED BY <1>8, <3>1, <3>2, <3>3
  <2> QED BY <2>1, <2>2
<1>10. d = t
  BY <1>6, <1>7, <1>9, SeqEqual
<1> QED BY <1>1, <1>5, <1>10

\* The most recent part of a sequence that leaves room is told by its first position.
LEMMA RoomIs ==
  ASSUME NEW s, Len(s) \in Nat, NEW k \in 0..Len(s), NEW c,
         Lru!Weight(SubSeq(s, k + 1, Len(s))) + c <= MaxBytes,
         \A m \in 0..k - 1 : ~ (Lru!Weight(SubSeq(s, m + 1, Len(s))) + c <= MaxBytes)
  PROVE  Lru!Room(s, c) = SubSeq(s, k + 1, Len(s))
<1> DEFINE fits(n) == Lru!Weight(SubSeq(s, n + 1, Len(s))) + c <= MaxBytes
           First(n) == fits(n) /\ \A m \in 0..(n - 1) : ~ fits(m)
           n0 == CHOOSE n \in 0..Len(s) : First(n)
<1>1. Lru!Room(s, c) = SubSeq(s, n0 + 1, Len(s))
  BY DEF Lru!Room
<1>2. First(k)
  OBVIOUS
<1>3. ASSUME NEW n \in 0..Len(s), First(n) PROVE n = k
  <2>1. ~ (n < k)
    <3> SUFFICES ASSUME n < k PROVE FALSE
      OBVIOUS
    <3>1. n \in 0..k - 1
      OBVIOUS
    <3> HIDE DEF fits
    <3> QED BY <1>2, <1>3, <3>1
  <2>2. ~ (k < n)
    <3> SUFFICES ASSUME k < n PROVE FALSE
      OBVIOUS
    <3>1. k \in 0..(n - 1)
      OBVIOUS
    <3> HIDE DEF fits
    <3> QED BY <1>2, <1>3, <3>1
  <2> QED BY <2>1, <2>2
<1> HIDE DEF First
<1>4. n0 = k
  BY <1>2, <1>3
<1> QED BY <1>1, <1>4

\* What the loop has left of the others, c, is the most recent part of them, and any
\* part that begins earlier leaves no room.
Evicted(rest, k, c, charge) ==
  /\ rest \in Seq(Item) /\ k \in 0..Len(rest) /\ c = SubSeq(rest, k + 1, Len(rest))
  /\ \A m \in 0..k - 1 : ~ (Lru!Weight(SubSeq(rest, m + 1, Len(rest))) + charge <= MaxBytes)

\* put(a) is making room among the artifacts s retained before it.
MakingRoom(s, a, c, charge) == s \in Seq(Item) /\ \E rest, k : rest = Lru!Without(s, a) /\ Evicted(rest, k, c, charge)

\* Entries are charged what their values are, and the loop goes from the oldest.
LruInv ==
  /\ Charged(order, entries)
  /\ put # NoPut => MakingRoom(before, put.address, ContentOf(order, entries), Charge[put.value])

\* An entry leaves the order at its position.
LEMMA DiscardIs ==
  ASSUME Charged(order, entries), NEW a \in DOMAIN entries, Discard(a)
  PROVE  /\ Charged(order', entries')
         /\ ContentOf(order', entries') = Lru!Without(ContentOf(order, entries), a)
         /\ \A p \in 1..Len(order) : order[p] = a => ContentOf(order', entries') = RemoveAt(ContentOf(order, entries), p)
<1>1. PICK p : p = PositionOf(a)
  OBVIOUS
<1>2. DOMAIN order = 1..Len(order)
  BY ContentIs DEF Lists
<1>3. p \in 1..Len(order) /\ order[p] = a
  BY <1>1, <1>2 DEF Charged, Enumerates, PositionOf
<1>4. order' = RemoveAt(order, p) /\ entries' = Restrict(entries, DOMAIN entries \ {order[p]})
  BY <1>1, <1>3 DEF Discard
<1>5. /\ Charged(order', entries')
      /\ ContentOf(order', entries') = RemoveAt(ContentOf(order, entries), p)
  BY <1>3, <1>4, ContentRemoved
<1>6. ContentOf(order', entries') = Lru!Without(ContentOf(order, entries), a)
  BY <1>3, <1>5, WithoutIs
<1>7. \A x \in 1..Len(order) : order[x] = a => x = p
  BY <1>2, <1>3 DEF Charged, Enumerates
<1> QED BY <1>5, <1>6, <1>7

\* Nothing was evicted yet.
LEMMA NothingEvicted ==
  ASSUME NEW rest \in Seq(Item), NEW charge PROVE Evicted(rest, 0, rest, charge)
<1>1. PICK n \in Nat : n = Len(rest)
  BY LenProperties
<1>2. PICK s : s = SubSeq(rest, 0 + 1, n)
  OBVIOUS
<1>3. s \in Seq(Item) /\ Len(s) = n /\ \A i \in 1..n : s[i] = rest[i]
  <2>1. \A i \in 1..n : rest[i] \in Item
    BY <1>1, ElementOfSeq
  <2>2. s = SubSeq(rest, 1, n)
    BY <1>2
  <2> QED BY <1>1, <2>1, <2>2, SubSeqProperties
<1>4. s = rest
  BY <1>1, <1>3, SeqEqual
<1> QED BY <1>1, <1>2, <1>4 DEF Evicted

\* The oldest that is left goes.
LEMMA OneEvicted ==
  ASSUME NEW rest, NEW k, NEW c, NEW charge, Evicted(rest, k, c, charge), Len(c) # 0,
         ~ (Lru!Weight(c) + charge <= MaxBytes)
  PROVE  Evicted(rest, k + 1, RemoveAt(c, 1), charge)
<1>1. PICK n \in Nat : n = Len(rest) /\ rest \in Seq(Item) /\ k \in 0..n
  BY LenProperties DEF Evicted
<1>2. c = SubSeq(rest, k + 1, n)
  BY <1>1 DEF Evicted
<1>3. \A i \in 1..n : rest[i] \in Item
  BY <1>1, ElementOfSeq
<1>4. c \in Seq(Item) /\ Len(c) = n - k /\ \A i \in 1..n - k : c[i] = rest[k + i]
  <2>1. \A i \in k + 1..n : rest[i] \in Item
    BY <1>1, <1>3
  <2>2. /\ c \in Seq(Item) /\ Len(c) = IF k + 1 <= n THEN n - (k + 1) + 1 ELSE 0
        /\ \A i \in 1..n - (k + 1) + 1 : c[i] = rest[(k + 1) + i - 1]
    BY <1>1, <1>2, <2>1, SubSeqProperties
  <2> QED BY <1>1, <2>2
<1>5. k < n /\ 1 \in 1..Len(c)
  BY <1>1, <1>4
<1>6. PICK r : r = RemoveAt(c, 1)
  OBVIOUS
<1>7. r \in Seq(Item) /\ Len(r) = n - k - 1 /\ \A i \in 1..n - k - 1 : r[i] = rest[k + 1 + i]
  <2>1. r \in Seq(Item) /\ Len(r) = Len(c) - 1 /\ \A i \in 1..Len(c) - 1 : r[i] = IF i < 1 THEN c[i] ELSE c[i + 1]
    BY <1>4, <1>5, <1>6, RemoveAtProperties
  <2>2. ASSUME NEW i \in 1..n - k - 1 PROVE r[i] = rest[k + 1 + i]
    <3>1. r[i] = c[i + 1] /\ i + 1 \in 1..n - k
      BY <1>1, <1>4, <2>1
    <3>2. c[i + 1] = rest[k + (i + 1)] /\ k + (i + 1) = k + 1 + i
      BY <1>1, <1>4, <3>1
    <3> QED BY <3>1, <3>2
  <2> QED BY <1>1, <1>4, <2>1, <2>2
<1>8. PICK s : s = SubSeq(rest, (k + 1) + 1, n)
  OBVIOUS
<1>9. s \in Seq(Item) /\ Len(s) = n - k - 1 /\ \A i \in 1..n - k - 1 : s[i] = rest[k + 1 + i]
  <2>1. \A i \in k + 2..n : rest[i] \in Item
    BY <1>1, <1>3
  <2>2. /\ s \in Seq(Item) /\ Len(s) = IF k + 2 <= n THEN n - (k + 2) + 1 ELSE 0
        /\ \A i \in 1..n - (k + 2) + 1 : s[i] = rest[(k + 2) + i - 1]
    <3>1. s = SubSeq(rest, k + 2, n) /\ k + 2 \in Int
      BY <1>1, <1>8
    <3> QED BY <1>1, <2>1, <3>1, SubSeqProperties
  <2> QED BY <1>1, <1>5, <2>2
<1>10. s = r
  BY <1>7, <1>9, SeqEqual
<1>11. ASSUME NEW m \in 0..(k + 1) - 1 PROVE ~ (Lru!Weight(SubSeq(rest, m + 1, n)) + charge <= MaxBytes)
  <2>1. m \in 0..k - 1 \/ m = k
    BY <1>1
  <2> QED BY <1>1, <1>2, <2>1 DEF Evicted
<1>12. k + 1 \in 0..n
  BY <1>1, <1>5
<1> QED BY <1>1, <1>6, <1>8, <1>10, <1>11, <1>12 DEF Evicted

\* The store as the abstract cache sees it.
Seen == IF put = NoPut THEN ContentOf(order, entries) ELSE before

\* A step that the abstract cache does not see.
SeenStep == (IF put' = NoPut THEN ContentOf(order', entries') ELSE before') = Seen /\ found' = found

\* Each step keeps this, and is one of the abstract cache or not seen by it.
LEMMA LruStep ==
  ASSUME StoreInv, StoreInv', LruInv, [Next]_vars
  PROVE  LruInv' /\ (SeenStep \/ Lru!Next)
<1>0. /\ DOMAIN entries \subseteq Addresses /\ Enumerates(order, DOMAIN entries)
      /\ DOMAIN entries' \subseteq Addresses /\ Enumerates(order', DOMAIN entries')
      /\ entries' \in [DOMAIN entries' -> Entry]
  BY DEF StoreInv, TypeOK
<1>c. Content = ContentOf(order, entries) /\ Content' = ContentOf(order', entries')
  BY DEF Content, ContentOf
<1>k. ASSUME \A a \in DOMAIN entries' : entries'[a].charge = Charge[entries'[a].value] PROVE Charged(order', entries')
  BY <1>0, <1>k DEF Charged
<1>1. ASSUME NEW a \in Addresses, Hit(a) PROVE LruInv' /\ (SeenStep \/ Lru!Next)
  <2>1. put = NoPut /\ put' = NoPut /\ entries' = entries /\ found' = Append(found, a) /\ a \in DOMAIN entries
    BY <1>1 DEF Hit, Call
  <2>2. Charged(order', entries')
    BY <1>k, <2>1 DEF LruInv, Charged
  <2>3. PICK p : p = PositionOf(a)
    OBVIOUS
  <2>4. p \in 1..Len(order) /\ order[p] = a
    <3>1. DOMAIN order = 1..Len(order)
      BY ContentIs DEF Lists, LruInv
    <3> QED BY <2>1, <2>3, <3>1, PositionOfEntry DEF StoreInv
  <2>5. order' = Append(RemoveAt(order, p), order[p])
    BY <1>1, <2>3, <2>4 DEF Hit, MoveToEnd
  <2>6. PICK c : c = ContentOf(order, entries)
    OBVIOUS
  <2>7. ContentOf(order', entries') = Append(RemoveAt(c, p), c[p])
    BY <2>1, <2>2, <2>4, <2>5, <2>6, ContentMoved DEF LruInv
  <2>8. p \in DOMAIN c /\ c[p].address = a
    <3>1. Lists(c, order, entries)
      BY <2>6, ContentIs DEF LruInv
    <3> QED BY <2>4, <3>1 DEF Lists
  <2>9. Lru!Touch(p)
    BY <1>c, <2>1, <2>6, <2>7, <2>8 DEF Lru!Touch, Lru!RemoveAt, RemoveAt
  <2>10. Lru!Next
    BY <1>c, <2>1, <2>6, <2>8, <2>9 DEF Lru!Next
  <2> QED BY <2>1, <2>2, <2>10 DEF LruInv
<1>2. ASSUME order' = order, entries' = entries, put' = put, before' = before, found' = found PROVE LruInv' /\ SeenStep
  <2>1. LruInv'
    BY <1>2 DEF LruInv
  <2> QED BY <1>2, <2>1 DEF SeenStep, Seen
<1>3. ASSUME NEW a \in Addresses, NEW v \in Values, NEW slot \in Slots \union {NoSlot}, PutBegin(a, v, slot)
      PROVE  LruInv' /\ SeenStep
  <2>1. put = NoPut /\ put' = [address |-> a, value |-> v, slot |-> slot] /\ before' = ContentOf(order, entries)
        /\ found' = found
    BY <1>3, <1>c DEF PutBegin, Call
  <2>2. put' # NoPut /\ put'.address = a /\ put'.value = v
    BY <2>1, NoPutAssumption DEF PutRequest
  <2>3. Charged(order', entries') /\ ContentOf(order', entries') = Lru!Without(ContentOf(order, entries), a)
    <3>1. CASE a \in DOMAIN entries
      <4>1. Discard(a)
        BY <1>3, <3>1 DEF PutBegin
      <4> QED BY <3>1, <4>1, DiscardIs DEF LruInv
    <3>2. CASE a \notin DOMAIN entries
      <4>1. order' = order /\ entries' = entries
        BY <1>3, <3>2 DEF PutBegin, store
      <4>2. Lru!Without(ContentOf(order, entries), a) = ContentOf(order, entries)
        BY <3>2, WithoutIs DEF LruInv
      <4> QED BY <4>1, <4>2 DEF LruInv
    <3> QED BY <3>1, <3>2
  <2>4. PICK s, rest : s = ContentOf(order, entries) /\ rest = ContentOf(order', entries')
    OBVIOUS
  <2>5. s \in Seq(Item) /\ rest \in Seq(Item)
    <3>1. Lists(s, order, entries) /\ Lists(rest, order', entries')
      BY <2>3, <2>4, ContentIs DEF LruInv
    <3> QED BY <3>1 DEF Lists
  <2>6. MakingRoom(s, a, rest, Charge[v])
    BY <2>3, <2>4, <2>5, NothingEvicted DEF MakingRoom
  <2>7. LruInv'
    BY <2>1, <2>2, <2>3, <2>4, <2>6 DEF LruInv
  <2>8. SeenStep
    BY <2>1, <2>2 DEF SeenStep, Seen
  <2> QED BY <2>7, <2>8
<1>4. CASE EvictOldest
  <2>1. put # NoPut /\ put' = put /\ before' = before /\ found' = found /\ order # <<>> /\ NeedsRoom /\ Discard(Head(order))
    BY <1>4 DEF EvictOldest
  <2>2. PICK c : c = ContentOf(order, entries)
    OBVIOUS
  <2>3. Lists(c, order, entries)
    BY <2>2, ContentIs DEF LruInv
  <2>4. Len(order) # 0 /\ 1 \in 1..Len(order) /\ Head(order) = order[1] /\ order[1] \in DOMAIN entries
    <3>1. order \in Seq(Addresses) /\ Len(order) \in Nat
      BY <2>3 DEF Lists
    <3>2. Len(order) # 0
      BY <2>1, <3>1, EmptySeq
    <3>3. 1 \in 1..Len(order)
      BY <3>1, <3>2
    <3>4. Head(order) = order[1]
      OBVIOUS
    <3> QED BY <2>3, <3>2, <3>3, <3>4 DEF Lists
  <2>5. Charged(order', entries') /\ ContentOf(order', entries') = RemoveAt(c, 1)
    BY <2>1, <2>2, <2>4, DiscardIs DEF LruInv
  <2>6. bytes = Lru!Weight(c)
    BY <2>2, WeightIs DEF LruInv, StoreInv, BytesAreCharges
  <2>7. ~ (Lru!Weight(c) + Charge[put.value] <= MaxBytes)
    <3>1. bytes \in Int /\ Charge[put.value] \in Nat
      BY <2>1, StoreAssumption DEF StoreInv, TypeOK, PutRequest
    <3> QED BY <2>1, <2>6, <3>1, StoreAssumption DEF NeedsRoom
  <2>8. PICK rest, k : rest = Lru!Without(before, put.address) /\ Evicted(rest, k, c, Charge[put.value])
    BY <2>1, <2>2 DEF LruInv, MakingRoom
  <2>9. Len(c) # 0
    BY <2>3, <2>4 DEF Lists
  <2>10. Evicted(rest, k + 1, RemoveAt(c, 1), Charge[put.value])
    BY <2>7, <2>8, <2>9, OneEvicted
  <2>11. before \in Seq(Item)
    BY <2>1 DEF LruInv, MakingRoom
  <2>12. MakingRoom(before, put.address, ContentOf(order', entries'), Charge[put.value])
    BY <2>5, <2>8, <2>10, <2>11 DEF MakingRoom
  <2>13. LruInv'
    BY <2>1, <2>5, <2>12 DEF LruInv
  <2> QED BY <2>1, <2>13 DEF SeenStep, Seen
<1>5. CASE PutEnd
  <2>1. PICK a, v, e : a = put.address /\ v = put.value /\ e = [value |-> put.value, charge |-> Charge[put.value], slot |-> put.slot]
    OBVIOUS
  <2>2. /\ put # NoPut /\ (order = <<>> \/ ~ NeedsRoom) /\ order' = Append(order, a) /\ entries' = With(entries, a, e)
        /\ put' = NoPut /\ found' = found
    BY <1>5, <2>1 DEF PutEnd
  <2>3. a \in Addresses /\ v \in Values /\ ~ Refused(v) /\ a \notin DOMAIN entries /\ Charge[v] \in Nat
    BY <2>1, <2>2, StoreAssumption DEF StoreInv, TypeOK, PutIsAdmitted, PutRequest
  <2>4. e.value = v /\ e.charge = Charge[v]
    BY <2>1
  <2>5. DOMAIN entries' = DOMAIN entries \union {a} /\ entries'[a] = e /\ \A x \in DOMAIN entries : entries'[x] = entries[x]
    BY <2>2, <2>3 DEF With
  <2>6. Charged(order', entries')
    <3>1. \A x \in DOMAIN entries' : entries'[x].charge = Charge[entries'[x].value]
      BY <2>4, <2>5 DEF LruInv, Charged
    <3> QED BY <1>k, <3>1
  <2>7. PICK c : c = ContentOf(order, entries)
    OBVIOUS
  <2>8. ContentOf(order', entries') = Append(c, [address |-> a, value |-> v])
    <3>1. PICK w : w = [address |-> a, value |-> v]
      OBVIOUS
    <3>2. w \in Item /\ w.address = a /\ w.value = v
      BY <2>3, <3>1 DEF Item
    <3>3. Appended(order, entries, order', entries', w)
      BY <2>2, <2>4, <2>5, <3>2 DEF Appended
    <3>4. Charged(order, entries)
      BY DEF LruInv
    <3>5. ContentOf(order', entries') = Append(ContentOf(order, entries), w)
      BY <2>6, <3>3, <3>4, ContentAppended
    <3> QED BY <2>7, <3>1, <3>5
  <2>9. PICK rest, k : rest = Lru!Without(before, a) /\ Evicted(rest, k, c, Charge[v])
    BY <2>1, <2>2, <2>7 DEF LruInv, MakingRoom
  <2>10. Lru!Weight(c) + Charge[v] <= MaxBytes
    <3>1. bytes = Lru!Weight(c) /\ bytes \in Int
      BY <2>7, WeightIs DEF LruInv, StoreInv, BytesAreCharges, TypeOK
    <3>2. CASE order = <<>>
      <4>1. DOMAIN entries = {}
        <5>1. DOMAIN order = {}
          BY <3>2
        <5> QED BY <1>0, <5>1 DEF Enumerates
      <4>2. bytes = 0
        BY <4>1, UnitsOfNone DEF StoreInv, BytesAreCharges
      <4>3. Charge[v] <= MaxBytes
        BY <2>3, StoreAssumption DEF Refused
      <4> QED BY <2>3, <3>1, <4>2, <4>3, StoreAssumption
    <3>3. CASE ~ NeedsRoom
      BY <2>1, <2>3, <3>1, <3>3, StoreAssumption DEF NeedsRoom
    <3> QED BY <2>2, <3>2, <3>3
  <2>11. Lru!Room(rest, Charge[v]) = c
    <3>1. /\ rest \in Seq(Item) /\ k \in 0..Len(rest) /\ c = SubSeq(rest, k + 1, Len(rest))
          /\ \A m \in 0..k - 1 : ~ (Lru!Weight(SubSeq(rest, m + 1, Len(rest))) + Charge[v] <= MaxBytes)
      BY <2>9 DEF Evicted
    <3>2. Len(rest) \in Nat
      BY <3>1, LenProperties
    <3> QED BY <2>10, <3>1, <3>2, RoomIs
  <2>12. Charge[v] <= MaxBytes
    BY <2>3, StoreAssumption DEF Refused
  <2>13. Lru!Store(a, v)
    BY <1>c, <2>2, <2>8, <2>9, <2>11, <2>12 DEF Lru!Store
  <2>14. Lru!Next
    BY <2>3, <2>13 DEF Lru!Next
  <2> QED BY <2>2, <2>6, <2>14 DEF LruInv
<1>6. CASE Clear
  <2>1. order' = <<>> /\ entries' = <<>> /\ put = NoPut /\ put' = NoPut /\ found' = found
    BY <1>6 DEF Clear, Call
  <2>2. DOMAIN entries' = {}
    BY <2>1
  <2>3. Charged(order', entries')
    BY <1>k, <2>2
  <2>4. PICK c : c = ContentOf(order', entries')
    OBVIOUS
  <2>5. c = <<>>
    <3>1. Lists(c, order', entries')
      BY <2>3, <2>4, ContentIs
    <3> QED BY <2>1, <3>1, EmptySeq DEF Lists
  <2>6. Lru!Clear
    BY <1>c, <2>1, <2>4, <2>5 DEF Lru!Clear
  <2> QED BY <2>1, <2>3, <2>6 DEF Lru!Next, LruInv
<1>7. ASSUME NEW a \in Addresses, NEW slot \in Slots \union {NoSlot}, Miss(a, slot) PROVE LruInv' /\ SeenStep
  BY <1>2, <1>7 DEF Miss, store
<1>8. ASSUME NEW a \in Addresses, NEW v \in Values, PutRefused(a, v) PROVE LruInv' /\ SeenStep
  BY <1>2, <1>8 DEF PutRefused, store
<1>9. CASE UNCHANGED vars
  BY <1>2, <1>9 DEF vars
<1> QED BY <1>1, <1>3, <1>4, <1>5, <1>6, <1>7, <1>8, <1>9 DEF Next

\* get(), put() and clear() are those of a least-recently-used cache whose put() is one
\* step and displaces no more than it must, for any budget, charges and calls.
THEOREM StoreImplementsLru == Spec => ImplementsLru
<1>1. Init => LruInv /\ Lru!Init
  <2> SUFFICES ASSUME Init PROVE LruInv /\ Lru!Init
    OBVIOUS
  <2>1. TypeOK
    BY StoreInit DEF StoreInv
  <2>2. order = <<>> /\ DOMAIN entries = {} /\ put = NoPut /\ found = <<>>
    BY DEF Init
  <2>3. Charged(order, entries)
    BY <2>1, <2>2 DEF TypeOK, Charged
  <2>4. Content = <<>>
    <3>1. Lists(Content, order, entries)
      BY <2>3, ContentIs DEF Content, ContentOf
    <3> QED BY <2>2, <3>1, EmptySeq DEF Lists
  <2> QED BY <2>2, <2>3, <2>4 DEF LruInv, Lru!Init
<1>2. StoreInv /\ StoreInv' /\ LruInv /\ [Next]_vars =>
        LruInv' /\ [Lru!Next]_<<IF put = NoPut THEN Content ELSE before, found>>
  <2> SUFFICES ASSUME StoreInv, StoreInv', LruInv, [Next]_vars
               PROVE  LruInv' /\ (SeenStep \/ Lru!Next)
    BY DEF SeenStep, Seen, Content, ContentOf
  <2> QED BY LruStep
<1> QED BY <1>1, <1>2, StoreInvariant, PTL DEF Spec, ImplementsLru, Lru!Spec

(***************************************************************************)
(* Exports: the inductive invariant                                        *)
(***************************************************************************)
\* A staging directory after k arrays, in the next, and in the manifest.
Finished(w, k) == [n \in 1..k |-> w]
Opened(w, k) == [n \in 1..(k + 1) |-> IF n <= k THEN w ELSE Part]
Unsealed(w) == [n \in 0..Size[w] |-> IF n = 0 THEN Part ELSE w]

\* What a staging directory holds is known from what its writer is doing, as
\* long as the machine does not fail; and nothing survives a failure.
WriterInv(w) ==
  /\ pc[w] \in {"called", "create", "array", "chunks", "manifest", "publish", "returned", "failed"}
  /\ pc[w] \in {"called", "create"} => dir[w] = Absent /\ arrays[w] = 0
  /\ pc[w] = "array" => arrays[w] <= Size[w] /\ dir[w] = Finished(w, arrays[w])
  /\ pc[w] = "chunks" => arrays[w] < Size[w] /\ dir[w] = Opened(w, arrays[w])
  /\ pc[w] = "manifest" => dir[w] = Unsealed(w)
  /\ pc[w] = "publish" => dir[w] = Whole(w)
  /\ failures > 0 => pc[w] = "failed"

\* Once a manifest was read, its directory is not written to again: it is
\* there, with what was checked of it, or it was renamed away for good.
Reading(r) ==
  LET m == manifest[r]
      p == rpath[r]
  IN  /\ m \in Writers
      /\ p \in Writers => pc[p] \in {"publish", "returned", "failed"}
      /\ \/ dir[p] = Absent /\ p \in Writers
         \/ /\ dir[p] # Absent
            /\ \A n \in 0..checked[r] : n \in DOMAIN dir[p] /\ dir[p][n] = m

ReaderInv(r) ==
  /\ rpath[r] \in Paths
  /\ checked[r] \in Nat
  /\ rpc[r] = "manifest" => checked[r] = 0
  /\ rpc[r] \in {"manifest", "check"} => loaded[r] = <<>>
  /\ rpc[r] \in {"check", "load"} => Reading(r) /\ checked[r] <= Size[manifest[r]]
  /\ rpc[r] = "load" =>
       /\ checked[r] = Size[manifest[r]]
       /\ loaded[r] \in Seq({manifest[r]}) /\ Len(loaded[r]) <= Size[manifest[r]]

ExportInv ==
  /\ DOMAIN dir = Paths
  /\ DOMAIN pc = Writers /\ arrays \in [Writers -> Nat]
  /\ DOMAIN rpc = Readers /\ DOMAIN rpath = Readers /\ DOMAIN manifest = Readers
  /\ DOMAIN checked = Readers /\ DOMAIN loaded = Readers
  /\ failures \in Nat
  /\ published \in Writers \union {Absent}
  /\ \A w \in Writers : WriterInv(w)
  /\ \A r \in Readers : ReaderInv(r)
  /\ ExportsAreWhole

-----------------------------------------------------------------------------
(***************************************************************************)
(* Exports: proofs                                                         *)
(***************************************************************************)
\* A whole artifact is a directory, with a manifest.
LEMMA WholeIsThere ==
  ASSUME NEW w \in Writers
  PROVE  Whole(w) \notin {Absent, <<>>} /\ 0 \in DOMAIN Whole(w)
<1>1. Size[w] \in Nat
  BY ExportAssumption
<1>2. 0..Size[w] \in SUBSET Names
  BY <1>1 DEF Names, Manifest
<1>3. Whole(w) \in [0..Size[w] -> Writers]
  BY DEF Whole
<1>4. Whole(w) # Absent
  BY <1>2, <1>3, ExportAssumption
<1>5. DOMAIN Whole(w) = 0..Size[w] /\ 0 \in 0..Size[w]
  BY <1>1 DEF Whole
<1>6. Whole(w) # <<>>
  <2>1. DOMAIN <<>> = 1..Len(<<>>) /\ Len(<<>>) = 0
    OBVIOUS
  <2>2. 0 \notin DOMAIN <<>>
    BY <2>1
  <2>3. QED
    BY <1>5, <2>2
<1>7. QED
  BY <1>4, <1>5, <1>6

\* An empty directory is a directory.
LEMMA EmptyIsThere == <<>> # Absent
<1>1. {} \in SUBSET Names /\ <<>> \in [{} -> Writers]
  OBVIOUS
<1>2. QED
  BY <1>1, ExportAssumption

\* A writer that fills its staging directory disturbs no reader, for none has
\* read a manifest there, and not the destination.
LEMMA StagingKeeps ==
  ASSUME ExportInv, NEW w \in Writers, NEW d, NEW to, NEW k \in Nat,
         pc[w] \in {"create", "array", "chunks", "manifest"}, to # "returned",
         dir' = [dir EXCEPT ![w] = d],
         pc' = [pc EXCEPT ![w] = to],
         arrays' = [arrays EXCEPT ![w] = k],
         UNCHANGED <<reading, failures, published>>,
         WriterInv(w)'
  PROVE  ExportInv'
<1>1. /\ UNCHANGED <<rpc, rpath, manifest, checked, loaded, failures, published>>
      /\ \A p \in Paths \ {w} : dir'[p] = dir[p]
      /\ \A x \in Writers \ {w} : dir'[x] = dir[x] /\ pc'[x] = pc[x] /\ arrays'[x] = arrays[x]
      /\ pc'[w] = to
  BY DEF ExportInv, reading, Paths
<1>2. /\ DOMAIN dir' = Paths
      /\ DOMAIN pc' = Writers /\ arrays' \in [Writers -> Nat]
  BY DEF ExportInv
<1>3. \A x \in Writers : WriterInv(x)'
  <2> SUFFICES ASSUME NEW x \in Writers PROVE WriterInv(x)'
    OBVIOUS
  <2>1. CASE x = w
    BY <2>1
  <2>2. CASE x # w
    BY <1>1, <2>2 DEF ExportInv, WriterInv
  <2>3. QED
    BY <2>1, <2>2
<1>4. \A r \in Readers : ReaderInv(r)'
  <2> SUFFICES ASSUME NEW r \in Readers PROVE ReaderInv(r)'
    OBVIOUS
  <2>1. ReaderInv(r)
    BY DEF ExportInv
  <2>2. ASSUME Reading(r), rpath[r] \in Paths PROVE Reading(r)'
    <3>1. rpath[r] # w
      BY <2>2 DEF Reading
    <3>2. dir'[rpath[r]] = dir[rpath[r]] /\ (rpath[r] \in Writers => pc'[rpath[r]] = pc[rpath[r]])
      BY <1>1, <2>2, <3>1
    <3>3. QED
      BY <1>1, <2>2, <3>2 DEF Reading
  <2>3. QED
    BY <1>1, <2>1, <2>2 DEF ReaderInv
<1>5. ExportsAreWhole'
  <2>1. dir'[Destination] = dir[Destination]
    BY <1>1, ExportAssumption DEF Paths
  <2>2. \A x \in Writers : pc'[x] = "returned" => pc[x] = "returned"
    BY <1>1
  <2>3. QED
    BY <1>1, <2>1, <2>2
       DEF ExportInv, ExportsAreWhole, PublishedIsWhole, ReturnedIsPublished, WholeOrNothing, Whole
<1>6. QED
  BY <1>1, <1>2, <1>3, <1>4, <1>5 DEF ExportInv

\* Each write to a staging directory leaves there what its writer goes on with.
LEMMA FillingKeeps ==
  ASSUME ExportInv, NEW w \in Writers,
         CreateStaging(w) \/ OpenArray(w) \/ FinishArray(w) \/ OpenManifest(w) \/ FinishManifest(w)
  PROVE  ExportInv'
<1> USE DEF Goes
<1>1. /\ WriterInv(w) /\ Size[w] \in Nat /\ arrays[w] \in Nat /\ w \in Paths
      /\ DOMAIN dir = Paths /\ DOMAIN pc = Writers /\ arrays \in [Writers -> Nat]
  BY ExportAssumption DEF ExportInv, Paths
<1>2. failures \in Nat /\ (failures > 0 => pc[w] = "failed")
  BY <1>1 DEF WriterInv, ExportInv
<1>3. arrays = [arrays EXCEPT ![w] = arrays[w]]
  BY <1>1
<1>4. CASE CreateStaging(w)
  <2>1. /\ dir' = [dir EXCEPT ![w] = <<>>] /\ pc' = [pc EXCEPT ![w] = "array"]
        /\ UNCHANGED <<arrays, reading, failures, published>> /\ pc[w] = "create"
    BY <1>4 DEF CreateStaging
  <2>2. arrays[w] = 0 /\ <<>> = Finished(w, 0)
    BY <1>1, <2>1 DEF WriterInv, Finished
  <2>3. WriterInv(w)'
    BY <1>1, <1>2, <2>1, <2>2 DEF WriterInv
  <2>4. QED
    BY <1>1, <1>3, <2>1, <2>3, StagingKeeps
<1>5. CASE OpenArray(w)
  <2> DEFINE d == [n \in DOMAIN dir[w] \union {arrays[w] + 1} |->
                     IF n = arrays[w] + 1 THEN Part ELSE dir[w][n]]
  <2>1. /\ dir' = [dir EXCEPT ![w] = d] /\ pc' = [pc EXCEPT ![w] = "chunks"]
        /\ UNCHANGED <<arrays, reading, failures, published>>
        /\ pc[w] = "array" /\ arrays[w] < Size[w]
    BY <1>5 DEF OpenArray, Writes
  <2>2. dir[w] = [n \in 1..arrays[w] |-> w]
    BY <1>1, <2>1 DEF WriterInv, Finished
  <2>3. 1..arrays[w] \union {arrays[w] + 1} = 1..(arrays[w] + 1)
    BY <1>1
  <2>4. d = Opened(w, arrays[w])
    BY <1>1, <2>2, <2>3 DEF Opened
  <2>5. WriterInv(w)'
    <3> HIDE DEF d
    <3>1. QED
      BY <1>1, <1>2, <2>1, <2>4 DEF WriterInv
  <2>6. QED
    <3> HIDE DEF d
    <3>1. QED
      BY <1>1, <1>3, <2>1, <2>5, StagingKeeps
<1>6. CASE FinishArray(w)
  <2> DEFINE d == [n \in DOMAIN dir[w] \union {arrays[w] + 1} |->
                     IF n = arrays[w] + 1 THEN w ELSE dir[w][n]]
  <2>1. /\ dir' = [dir EXCEPT ![w] = d] /\ pc' = [pc EXCEPT ![w] = "array"]
        /\ arrays' = [arrays EXCEPT ![w] = arrays[w] + 1]
        /\ UNCHANGED <<reading, failures, published>>
        /\ pc[w] = "chunks"
    BY <1>6 DEF FinishArray, Writes
  <2>2. /\ dir[w] = [n \in 1..(arrays[w] + 1) |-> IF n <= arrays[w] THEN w ELSE Part]
        /\ arrays[w] < Size[w]
    BY <1>1, <2>1 DEF WriterInv, Opened
  <2>3. arrays[w] + 1 \in 1..(arrays[w] + 1)
    BY <1>1
  <2>4. d = Finished(w, arrays[w] + 1)
    BY <1>1, <2>2, <2>3 DEF Finished
  <2>5. WriterInv(w)'
    <3> HIDE DEF d
    <3>1. QED
      BY <1>1, <1>2, <2>1, <2>2, <2>4 DEF WriterInv
  <2>6. QED
    <3> HIDE DEF d
    <3>1. PICK k \in Nat : k = arrays[w] + 1
      BY <1>1
    <3>2. QED
      BY <1>1, <2>1, <2>5, <3>1, StagingKeeps
<1>7. CASE OpenManifest(w)
  <2> DEFINE d == [n \in DOMAIN dir[w] \union {0} |-> IF n = 0 THEN Part ELSE dir[w][n]]
  <2>1. /\ dir' = [dir EXCEPT ![w] = d] /\ pc' = [pc EXCEPT ![w] = "manifest"]
        /\ UNCHANGED <<arrays, reading, failures, published>>
        /\ pc[w] = "array" /\ arrays[w] = Size[w]
    BY <1>7 DEF OpenManifest, Writes, Manifest
  <2>2. dir[w] = [n \in 1..Size[w] |-> w]
    BY <1>1, <2>1 DEF WriterInv, Finished
  <2>3. 1..Size[w] \union {0} = 0..Size[w] /\ 0 \notin 1..Size[w]
    BY <1>1
  <2>4. d = Unsealed(w)
    BY <1>1, <2>2, <2>3 DEF Unsealed
  <2>5. WriterInv(w)'
    <3> HIDE DEF d
    <3>1. QED
      BY <1>1, <1>2, <2>1, <2>4 DEF WriterInv
  <2>6. QED
    <3> HIDE DEF d
    <3>1. QED
      BY <1>1, <1>3, <2>1, <2>5, StagingKeeps
<1>8. CASE FinishManifest(w)
  <2> DEFINE d == [n \in DOMAIN dir[w] \union {0} |-> IF n = 0 THEN w ELSE dir[w][n]]
  <2>1. /\ dir' = [dir EXCEPT ![w] = d] /\ pc' = [pc EXCEPT ![w] = "publish"]
        /\ UNCHANGED <<arrays, reading, failures, published>>
        /\ pc[w] = "manifest"
    BY <1>8 DEF FinishManifest, Writes, Manifest
  <2>2. dir[w] = [n \in 0..Size[w] |-> IF n = 0 THEN Part ELSE w]
    BY <1>1, <2>1 DEF WriterInv, Unsealed
  <2>3. 0 \in 0..Size[w]
    BY <1>1
  <2>4. d = Whole(w)
    BY <1>1, <2>2, <2>3 DEF Whole
  <2>5. WriterInv(w)'
    <3> HIDE DEF d
    <3>1. Whole(w)' = Whole(w)
      BY DEF Whole
    <3>2. QED
      BY <1>1, <1>2, <2>1, <2>4, <3>1 DEF WriterInv
  <2>6. QED
    <3> HIDE DEF d
    <3>1. QED
      BY <1>1, <1>3, <2>1, <2>5, StagingKeeps
<1>9. QED
  BY <1>4, <1>5, <1>6, <1>7, <1>8

\* Checking for the destination, and giving up.
LEMMA CheckKeeps ==
  ASSUME ExportInv, NEW w \in Writers, Check(w) \/ Die(w)
  PROVE  ExportInv'
<1>1. PICK to : to \in {"create", "failed"} /\ pc' = [pc EXCEPT ![w] = to]
                /\ (to = "create" => pc[w] = "called")
  BY DEF Check, Die, Goes
<1>2. UNCHANGED <<dir, arrays, rpc, rpath, manifest, checked, loaded, failures, published>>
  BY DEF Check, Die, reading
<1>3. /\ \A x \in Writers \ {w} : pc'[x] = pc[x]
      /\ pc'[w] = to /\ DOMAIN pc' = Writers
  BY <1>1 DEF ExportInv
<1>4. \A x \in Writers : WriterInv(x)'
  BY <1>1, <1>2, <1>3 DEF ExportInv, WriterInv
<1>5. \A r \in Readers : ReaderInv(r)'
  <2> SUFFICES ASSUME NEW r \in Readers PROVE ReaderInv(r)'
    OBVIOUS
  <2>1. ReaderInv(r)
    BY DEF ExportInv
  <2>2. Reading(r) => Reading(r)'
    BY <1>1, <1>2, <1>3 DEF Reading
  <2>3. QED
    BY <1>2, <2>1, <2>2 DEF ReaderInv
<1>6. ExportsAreWhole'
  BY <1>1, <1>2, <1>3
     DEF ExportInv, ExportsAreWhole, PublishedIsWhole, ReturnedIsPublished, WholeOrNothing, Whole
<1>7. QED
  BY <1>2, <1>3, <1>4, <1>5, <1>6 DEF ExportInv

\* What was renamed is whole, as long as the machine does not fail; nobody who
\* reads at the destination loses it, for only an empty one is replaced.
LEMMA PublishKeeps ==
  ASSUME ExportInv, NEW w \in Writers, Publish(w)
  PROVE  ExportInv'
<1>1. /\ pc[w] = "publish" /\ dir[w] = Whole(w) /\ failures = 0
      /\ w \in Paths /\ Destination \in Paths /\ w # Destination
      /\ UNCHANGED <<arrays, rpc, rpath, manifest, checked, loaded, failures>>
  BY ExportAssumption DEF ExportInv, WriterInv, Publish, Goes, reading, Paths
<1>2. ASSUME ~Replaces PROVE ExportInv'
  <2>1. /\ UNCHANGED <<dir, published>> /\ pc' = [pc EXCEPT ![w] = "failed"]
    BY <1>2 DEF Publish, Goes
  <2>2. /\ \A x \in Writers \ {w} : pc'[x] = pc[x]
        /\ pc'[w] = "failed" /\ DOMAIN pc' = Writers
    BY <2>1 DEF ExportInv
  <2>3. \A x \in Writers : WriterInv(x)'
    BY <1>1, <2>1, <2>2 DEF ExportInv, WriterInv
  <2>4. \A r \in Readers : ReaderInv(r)'
    <3> SUFFICES ASSUME NEW r \in Readers PROVE ReaderInv(r)'
      OBVIOUS
    <3>1. ReaderInv(r)
      BY DEF ExportInv
    <3>2. Reading(r) => Reading(r)'
      BY <1>1, <2>1, <2>2 DEF Reading
    <3>3. QED
      BY <1>1, <3>1, <3>2 DEF ReaderInv
  <2>5. ExportsAreWhole'
    BY <1>1, <2>1, <2>2
       DEF ExportInv, ExportsAreWhole, PublishedIsWhole, ReturnedIsPublished, WholeOrNothing, Whole
  <2>6. QED
    BY <1>1, <2>1, <2>2, <2>3, <2>4, <2>5 DEF ExportInv
<1>3. ASSUME Replaces PROVE ExportInv'
  <2>1. /\ dir' = [dir EXCEPT ![Destination] = dir[w], ![w] = Absent]
        /\ pc' = [pc EXCEPT ![w] = "returned"]
        /\ published' = w
    BY <1>3 DEF Publish, Goes
  <2>2. /\ DOMAIN dir' = Paths /\ dir'[w] = Absent /\ dir'[Destination] = Whole(w)
        /\ \A p \in Paths \ {w, Destination} : dir'[p] = dir[p]
        /\ \A x \in Writers \ {w} : dir'[x] = dir[x] /\ pc'[x] = pc[x]
        /\ pc'[w] = "returned" /\ DOMAIN pc' = Writers
    BY <1>1, <2>1, ExportAssumption DEF ExportInv, Paths
  <2>3. \A x \in Writers : WriterInv(x)'
    BY <1>1, <2>2 DEF ExportInv, WriterInv
  <2>4. \A r \in Readers : ReaderInv(r)'
    <3> SUFFICES ASSUME NEW r \in Readers PROVE ReaderInv(r)'
      OBVIOUS
    <3>1. ReaderInv(r)
      BY DEF ExportInv
    <3>2. ASSUME Reading(r), checked[r] \in Nat, rpath[r] \in Paths PROVE Reading(r)'
      <4>1. 0 \in 0..checked[r] /\ DOMAIN <<>> = 1..Len(<<>>) /\ Len(<<>>) = 0
        BY <3>2
      <4>2. 0 \notin DOMAIN <<>>
        BY <4>1
      <4>3. rpath[r] # Destination
        BY <1>3, <3>2, <4>1, <4>2, ExportAssumption DEF Reading, Replaces
      <4>4. CASE rpath[r] = w
        BY <1>1, <2>2, <3>2, <4>4 DEF Reading
      <4>5. CASE rpath[r] # w
        BY <1>1, <2>2, <3>2, <4>3, <4>5 DEF Reading
      <4>6. QED
        BY <4>4, <4>5
    <3>3. QED
      BY <1>1, <3>1, <3>2 DEF ReaderInv
  <2>5. PublishedIsWhole'
    BY <2>1, <2>2, ExportAssumption DEF PublishedIsWhole, Whole
  <2>6. \A x \in Writers \ {w} : pc[x] # "returned"
    <3> SUFFICES ASSUME NEW x \in Writers \ {w}, pc[x] = "returned" PROVE FALSE
      OBVIOUS
    <3>1. published = x /\ dir[Destination] = Whole(published)
      BY <1>1, ExportAssumption
         DEF ExportInv, ExportsAreWhole, ReturnedIsPublished, PublishedIsWhole
    <3>2. QED
      BY <1>3, <3>1, WholeIsThere DEF Replaces
  <2>7. ExportsAreWhole'
    BY <1>1, <2>1, <2>2, <2>5, <2>6
       DEF ExportInv, ExportsAreWhole, ReturnedIsPublished, WholeOrNothing
  <2>8. QED
    BY <1>1, <2>1, <2>2, <2>3, <2>4, <2>7 DEF ExportInv
<1>4. QED
  BY <1>2, <1>3

\* A reader disturbs nobody.
LEMMA ReaderKeeps ==
  ASSUME ExportInv, NEW r \in Readers,
         UNCHANGED <<dir, writing, failures, published>>,
         DOMAIN rpc' = Readers, DOMAIN rpath' = Readers, DOMAIN manifest' = Readers,
         DOMAIN checked' = Readers, DOMAIN loaded' = Readers,
         \A s \in Readers \ {r} :
           /\ rpc'[s] = rpc[s] /\ rpath'[s] = rpath[s] /\ manifest'[s] = manifest[s]
           /\ checked'[s] = checked[s] /\ loaded'[s] = loaded[s],
         ReaderInv(r)',
         rpc'[r] = "returned" =>
           loaded'[r] = [n \in 1..Size[manifest'[r]] |-> manifest'[r]]
  PROVE  ExportInv'
<1>1. \A w \in Writers : WriterInv(w)'
  BY DEF ExportInv, WriterInv, writing
<1>2. \A s \in Readers : ReaderInv(s)'
  <2> SUFFICES ASSUME NEW s \in Readers, s # r PROVE ReaderInv(s)'
    OBVIOUS
  <2>1. ReaderInv(s)
    BY DEF ExportInv
  <2>2. Reading(s) => Reading(s)'
    BY DEF Reading, writing
  <2>3. QED
    BY <2>1, <2>2 DEF ReaderInv
<1>3. WholeOrNothing'
  <2> SUFFICES ASSUME NEW s \in Readers, rpc'[s] = "returned"
               PROVE  loaded'[s] = [n \in 1..Size[manifest'[s]] |-> manifest'[s]]
    BY DEF WholeOrNothing
  <2>1. CASE s = r
    BY <2>1
  <2>2. CASE s # r
    BY <2>2 DEF ExportInv, ExportsAreWhole, WholeOrNothing
  <2>3. QED
    BY <2>1, <2>2
<1>4. ExportsAreWhole'
  BY <1>3 DEF ExportInv, ExportsAreWhole, PublishedIsWhole, ReturnedIsPublished, Whole, writing
<1>5. QED
  BY <1>1, <1>2, <1>4 DEF ExportInv, writing

\* A manifest is there for a reader once its writer is done with the directory.
LEMMA ManifestMeansDone ==
  ASSUME ExportInv, NEW p \in Paths, File(p, Manifest) \in Writers
  PROVE  /\ dir[p] # Absent /\ 0 \in DOMAIN dir[p] /\ dir[p][0] = File(p, Manifest)
         /\ p \in Writers => pc[p] \in {"publish", "returned", "failed"}
<1>1. dir[p] # Absent /\ 0 \in DOMAIN dir[p] /\ dir[p][0] = File(p, Manifest)
  BY ExportAssumption DEF File, Manifest
<1>2. ASSUME p \in Writers PROVE pc[p] \in {"publish", "returned", "failed"}
  <2>1. WriterInv(p) /\ arrays[p] \in Nat /\ Size[p] \in Nat
    BY <1>2, ExportAssumption DEF ExportInv
  <2>2. pc[p] \notin {"called", "create"}
    BY <1>1, <2>1 DEF WriterInv
  <2>3. pc[p] # "array"
    <3>1. 0 \notin DOMAIN Finished(p, arrays[p])
      BY <2>1 DEF Finished
    <3>2. QED
      BY <1>1, <2>1, <3>1 DEF WriterInv
  <2>4. pc[p] # "chunks"
    <3>1. 0 \notin DOMAIN Opened(p, arrays[p])
      BY <2>1 DEF Opened
    <3>2. QED
      BY <1>1, <2>1, <3>1 DEF WriterInv
  <2>5. pc[p] # "manifest"
    <3>1. Unsealed(p)[0] = Part
      BY <2>1 DEF Unsealed
    <3>2. QED
      BY <1>1, <2>1, <3>1, ExportAssumption DEF WriterInv
  <2>6. QED
    BY <2>1, <2>2, <2>3, <2>4, <2>5 DEF WriterInv
<1>3. QED
  BY <1>1, <1>2

\* What a reader has read and checked is the manifest's, and stays so until
\* it is done: it returns that or fails.
LEMMA ReadingKeeps ==
  ASSUME ExportInv, NEW r \in Readers,
         \/ \E p \in Paths : Open(r, p)
         \/ ReadManifest(r) \/ CheckArray(r) \/ AllChecked(r)
         \/ LoadArray(r) \/ Loaded(r) \/ GiveUp(r)
  PROVE  ExportInv'
<1> USE DEF Reads
<1>1. /\ ReaderInv(r)
      /\ DOMAIN rpc = Readers /\ DOMAIN rpath = Readers /\ DOMAIN manifest = Readers
      /\ DOMAIN checked = Readers /\ DOMAIN loaded = Readers
  BY DEF ExportInv
<1>2. /\ UNCHANGED <<dir, writing, failures, published>>
      /\ DOMAIN rpc' = Readers /\ DOMAIN rpath' = Readers /\ DOMAIN manifest' = Readers
      /\ DOMAIN checked' = Readers /\ DOMAIN loaded' = Readers
      /\ \A s \in Readers \ {r} :
           /\ rpc'[s] = rpc[s] /\ rpath'[s] = rpath[s] /\ manifest'[s] = manifest[s]
           /\ checked'[s] = checked[s] /\ loaded'[s] = loaded[s]
  BY <1>1 DEF Open, ReadManifest, CheckArray, AllChecked, LoadArray, Loaded, GiveUp
<1>3. \A w \in Writers : Size[w] \in Nat
  BY ExportAssumption
<1>4. /\ ReaderInv(r)'
      /\ rpc'[r] = "returned" =>
           loaded'[r] = [n \in 1..Size[manifest'[r]] |-> manifest'[r]]
  <2>1. CASE \E p \in Paths : Open(r, p)
    BY <1>1, <2>1 DEF Open, ReaderInv
  <2>2. CASE ReadManifest(r)
    <3> DEFINE m == File(rpath[r], Manifest)
    <3>1. /\ rpc[r] = "manifest" /\ rpath[r] \in Paths /\ checked[r] = 0 /\ loaded[r] = <<>>
          /\ rpc'[r] = IF m \in Writers THEN "check" ELSE "failed"
          /\ manifest'[r] = m
          /\ UNCHANGED <<dir, pc, rpath, checked, loaded>>
      BY <1>1, <2>2 DEF ReadManifest, ReaderInv, Parses, writing
    <3>2. CASE m \in Writers
      <4>1. /\ dir[rpath[r]] # Absent /\ 0 \in DOMAIN dir[rpath[r]] /\ dir[rpath[r]][0] = m
            /\ rpath[r] \in Writers => pc[rpath[r]] \in {"publish", "returned", "failed"}
        BY <3>1, <3>2, ManifestMeansDone
      <4> HIDE DEF m
      <4>2. 0..checked'[r] = {0} /\ checked'[r] <= Size[m]
        BY <1>3, <3>1, <3>2
      <4>3. Reading(r)'
        BY <3>1, <3>2, <4>1, <4>2 DEF Reading
      <4>4. QED
        BY <3>1, <3>2, <4>2, <4>3 DEF ReaderInv
    <3>3. CASE m \notin Writers
      BY <3>1, <3>3 DEF ReaderInv
    <3>4. QED
      BY <3>2, <3>3
  <2>3. CASE CheckArray(r)
    <3> DEFINE p == rpath[r]
               m == manifest[r]
    <3>1. /\ rpc[r] = "check" /\ p \in Paths /\ checked[r] \in Nat /\ loaded[r] = <<>>
          /\ Reading(r) /\ checked[r] < Size[m] /\ m \in Writers
          /\ UNCHANGED <<dir, pc, rpath, manifest, loaded>>
      BY <1>1, <2>3 DEF CheckArray, ReaderInv, Reading, writing
    <3>2. CASE File(p, checked[r] + 1) = m
      <4>1. rpc'[r] = "check" /\ checked'[r] = checked[r] + 1
        BY <1>1, <2>3, <3>1, <3>2 DEF CheckArray, Valid
      <4>2. /\ dir[p] # Absent /\ checked[r] + 1 \in DOMAIN dir[p]
            /\ dir[p][checked[r] + 1] = m
        BY <3>1, <3>2, ExportAssumption DEF File
      <4>3. \A n \in 0..(checked[r] + 1) : n \in 0..checked[r] \/ n = checked[r] + 1
        BY <3>1
      <4>4. Reading(r)'
        BY <3>1, <4>1, <4>2, <4>3 DEF Reading
      <4>5. checked[r] + 1 <= Size[m]
        BY <1>3, <3>1
      <4>6. QED
        BY <3>1, <4>1, <4>4, <4>5 DEF ReaderInv
    <3>3. CASE File(p, checked[r] + 1) # m
      <4>1. rpc'[r] = "failed" /\ checked'[r] = checked[r]
        BY <1>1, <2>3, <3>1, <3>3 DEF CheckArray, Valid
      <4>2. QED
        BY <3>1, <4>1 DEF ReaderInv
    <3>4. QED
      BY <3>2, <3>3
  <2>4. CASE AllChecked(r)
    <3>1. /\ rpc[r] = "check" /\ rpc'[r] = "load" /\ checked[r] = Size[manifest[r]]
          /\ UNCHANGED <<dir, pc, rpath, manifest, checked, loaded>>
      BY <1>1, <2>4 DEF AllChecked, writing
    <3>2. Reading(r)' /\ loaded[r] = <<>> /\ Size[manifest[r]] \in Nat
      BY <1>1, <1>3, <3>1 DEF ReaderInv, Reading
    <3>3. loaded[r] \in Seq({manifest[r]}) /\ Len(loaded[r]) <= Size[manifest[r]]
      BY <3>2
    <3>4. QED
      BY <1>1, <3>1, <3>2, <3>3 DEF ReaderInv
  <2>5. CASE LoadArray(r)
    <3> DEFINE p == rpath[r]
               m == manifest[r]
               c == File(p, Len(loaded[r]) + 1)
    <3>1. /\ rpc[r] = "load" /\ p \in Paths /\ checked[r] = Size[m]
          /\ loaded[r] \in Seq({m}) /\ Len(loaded[r]) < Size[m]
          /\ Reading(r) /\ m \in Writers /\ Size[m] \in Nat
          /\ UNCHANGED <<dir, pc, rpath, manifest, checked>>
      BY <1>1, <1>3, <2>5 DEF LoadArray, ReaderInv, Reading, writing
    <3>2. CASE c = Absent
      <4>1. rpc'[r] = "failed" /\ loaded'[r] = loaded[r]
        BY <1>1, <2>5, <3>2 DEF LoadArray
      <4>2. QED
        BY <3>1, <4>1 DEF ReaderInv
    <3>3. CASE c # Absent
      <4>1. rpc'[r] = "load" /\ loaded'[r] = Append(loaded[r], c)
        BY <1>1, <2>5, <3>1, <3>3 DEF LoadArray
      <4>2. Len(loaded[r]) + 1 \in 0..checked[r]
        BY <3>1
      <4>3. c = m
        BY <3>1, <3>3, <4>2 DEF Reading, File
      <4>4. /\ Append(loaded[r], c) \in Seq({m})
            /\ Len(Append(loaded[r], c)) <= Size[m]
        BY <3>1, <4>3
      <4>5. Reading(r)'
        BY <3>1 DEF Reading
      <4> HIDE DEF c
      <4>6. QED
        BY <1>1, <3>1, <4>1, <4>4, <4>5 DEF ReaderInv
    <3>4. QED
      BY <3>2, <3>3
  <2>6. CASE Loaded(r)
    <3> DEFINE m == manifest[r]
    <3>1. /\ rpc[r] = "load" /\ rpc'[r] = "returned"
          /\ loaded[r] \in Seq({m}) /\ Len(loaded[r]) = Size[m]
          /\ UNCHANGED <<rpath, manifest, checked, loaded>>
      BY <1>1, <2>6 DEF Loaded, ReaderInv
    <3>2. loaded[r] = [n \in 1..Size[m] |-> m]
      BY <3>1
    <3>3. QED
      BY <1>1, <3>1, <3>2 DEF ReaderInv
  <2>7. CASE GiveUp(r)
    BY <1>1, <2>7 DEF GiveUp, ReaderInv
  <2>8. QED
    BY <2>1, <2>2, <2>3, <2>4, <2>5, <2>6, <2>7
<1>5. QED
  BY <1>2, <1>4, ReaderKeeps

LEMMA SurroundingsKeep ==
  ASSUME ExportInv, MakeDestination \/ PowerFailure
  PROVE  ExportInv'
<1>1. CASE MakeDestination
  <2>1. /\ dir[Destination] = Absent /\ Destination \in Paths
        /\ dir' = [dir EXCEPT ![Destination] = <<>>]
        /\ UNCHANGED <<pc, arrays, rpc, rpath, manifest, checked, loaded, failures, published>>
    BY <1>1 DEF MakeDestination, writing, reading, Paths
  <2>2. /\ DOMAIN dir' = Paths /\ dir'[Destination] = <<>>
        /\ \A p \in Paths \ {Destination} : dir'[p] = dir[p]
        /\ \A w \in Writers : dir'[w] = dir[w]
    BY <2>1, ExportAssumption DEF ExportInv, Paths
  <2>3. \A w \in Writers : WriterInv(w)'
    BY <2>1, <2>2 DEF ExportInv, WriterInv
  <2>4. \A r \in Readers : ReaderInv(r)'
    <3> SUFFICES ASSUME NEW r \in Readers PROVE ReaderInv(r)'
      OBVIOUS
    <3>1. ReaderInv(r)
      BY DEF ExportInv
    <3>2. Reading(r) /\ rpath[r] \in Paths => Reading(r)'
      BY <2>1, <2>2, ExportAssumption DEF Reading
    <3>3. QED
      BY <2>1, <3>1, <3>2 DEF ReaderInv
  <2>5. failures = 0 => published = Absent
    <3> SUFFICES ASSUME failures = 0, published # Absent PROVE FALSE
      OBVIOUS
    <3>1. published \in Writers /\ dir[Destination] = Whole(published)
      BY DEF ExportInv, ExportsAreWhole, PublishedIsWhole
    <3>2. QED
      BY <2>1, <3>1, WholeIsThere
  <2>6. ExportsAreWhole'
    BY <2>1, <2>2, <2>5
       DEF ExportInv, ExportsAreWhole, PublishedIsWhole, ReturnedIsPublished, WholeOrNothing
  <2>7. QED
    BY <2>1, <2>2, <2>3, <2>4, <2>6 DEF ExportInv
<1>2. CASE PowerFailure
  <2>1. /\ failures' \in Nat /\ failures' > 0
        /\ DOMAIN dir' = Paths
        /\ pc' = [w \in Writers |-> "failed"] /\ rpc' = [r \in Readers |-> "failed"]
        /\ UNCHANGED <<arrays, rpath, manifest, checked, loaded, published>>
    BY <1>2 DEF PowerFailure, ExportInv
  <2>2. \A w \in Writers : WriterInv(w)'
    BY <2>1 DEF WriterInv
  <2>3. \A r \in Readers : ReaderInv(r)'
    BY <2>1 DEF ExportInv, ReaderInv
  <2>4. ExportsAreWhole'
    BY <2>1 DEF ExportsAreWhole, PublishedIsWhole, ReturnedIsPublished, WholeOrNothing
  <2>5. QED
    BY <2>1, <2>2, <2>3, <2>4 DEF ExportInv
<1>3. QED
  BY <1>1, <1>2

LEMMA ExportInvariant == ExportSpec => []ExportInv
<1>1. ExportInit => ExportInv
  <2> SUFFICES ASSUME ExportInit PROVE ExportInv
    OBVIOUS
  <2>1. \A w \in Writers : WriterInv(w)
    BY DEF ExportInit, WriterInv, Paths
  <2>2. \A r \in Readers : ReaderInv(r)
    BY DEF ExportInit, ReaderInv, Paths
  <2>3. ExportsAreWhole
    BY DEF ExportInit, ExportsAreWhole, PublishedIsWhole, ReturnedIsPublished, WholeOrNothing, Paths
  <2>4. QED
    BY <2>1, <2>2, <2>3 DEF ExportInit, ExportInv
<1>2. ExportInv /\ [ExportNext]_exportVars => ExportInv'
  <2> SUFFICES ASSUME ExportInv, [ExportNext]_exportVars PROVE ExportInv'
    OBVIOUS
  <2>1. CASE UNCHANGED exportVars
    <3>1. \A w \in Writers : WriterInv(w)'
      BY <2>1 DEF exportVars, writing, ExportInv, WriterInv
    <3>2. \A r \in Readers : ReaderInv(r)'
      BY <2>1 DEF exportVars, writing, reading, ExportInv, ReaderInv, Reading
    <3>3. QED
      BY <2>1, <3>1, <3>2
         DEF exportVars, writing, reading, ExportInv, ExportsAreWhole, PublishedIsWhole,
             ReturnedIsPublished, WholeOrNothing, Whole
  <2>2. QED
    BY <2>1, CheckKeeps, FillingKeeps, PublishKeeps, ReadingKeeps, SurroundingsKeep DEF ExportNext
<1>3. QED
  BY <1>1, <1>2, PTL DEF ExportSpec

\* For any writers, readers and sizes, and however calls interleave, stop,
\* are killed or lose power: until the machine fails, what is at the
\* destination is the whole export of the writer that returned; a reader
\* always returns the whole of one export (write_artifact(), read_artifact()).
THEOREM ExportArtifactsAreWhole == ExportSpec => []ExportsAreWhole
<1>1. ExportInv => ExportsAreWhole
  BY DEF ExportInv
<1>2. QED
  BY <1>1, ExportInvariant, PTL

=============================================================================
