--------------------------- MODULE ArtifactStore ----------------------------
(***************************************************************************)
(* runtime/cache.py: MemoryArtifactStore, the bounded in-memory store that *)
(* a session lends to every stage of a calculation.                        *)
(*                                                                         *)
(* The store keeps an OrderedDict of entries (here `order`, oldest first,  *)
(* and `entries`), an index from a logical slot to the address last stored *)
(* in it, a byte counter kept up to date by every insertion and removal,   *)
(* and the counters an execution assessment reports.                       *)
(*                                                                         *)
(* put() is modelled at the grain of its loop: PutBegin performs the       *)
(* refusals and the removal of an entry with the same address, EvictOldest *)
(* one turn of the eviction loop, PutEnd the insertion.  Nothing else of   *)
(* the store may happen in between, as the store has a single caller and   *)
(* calls nobody back.                                                      *)
(***************************************************************************)
EXTENDS Integers, FiniteSets, SequencesExt

CONSTANTS
  Namespaces, Keys,   \* an address is a namespace and a key
  Slots, NoSlot,      \* logical slots; NoSlot is the argument's default None
  Values,             \* values offered to the store
  Sizable,            \* those whose size can be estimated at all
  Freezable,          \* those that freeze() accepts
  Estimate, Charge,   \* charge before and after freezing (owned_size)
  MaxBytes,           \* the caller's budget
  MaxCalls,           \* bound: calls of get, put and clear in a behaviour
  NoPut               \* no put() is under way

Addresses == Namespaces \X Keys

ASSUME StoreAssumption ==
  /\ MaxBytes \in Nat
  /\ MaxCalls \in Nat
  /\ Estimate \in [Values -> Nat \ {0}]
  /\ Charge \in [Values -> Nat \ {0}]
  /\ NoSlot \notin Slots

PutRequest == [address : Addresses, value : Values, slot : Slots \union {NoSlot}]

ASSUME NoPutAssumption == NoPut \notin PutRequest

VARIABLES
  order,     \* addresses of the OrderedDict, least recently used first
  entries,   \* address -> value, charge and slot
  slots,     \* <<namespace, slot>> -> address
  bytes,     \* the store's own account of retained bytes
  peak,      \* the largest value bytes has had
  counts,    \* hits, misses, invalidations, evictions, refused
  put,       \* the put() under way
  calls,     \* calls made so far, bounded by MaxCalls
  before,    \* history: content when the put() under way began
  latest,    \* history: address last stored in each slot since a clear()
  found      \* history: the address of each hit

store == <<order, entries, slots, bytes>>
vars  == <<order, entries, slots, bytes, peak, counts, put, calls, before, latest,
           found>>

Content == [i \in DOMAIN order |->
              [address |-> order[i], value |-> entries[order[i]].value]]

Counters == {"hits", "misses", "invalidations", "evictions", "refused"}

Count(events) == counts' = [c \in Counters |-> counts[c] + IF c \in events THEN 1 ELSE 0]

Call ==
  /\ put = NoPut
  /\ calls < MaxCalls
  /\ calls' = calls + 1

-----------------------------------------------------------------------------
Init ==
  /\ order = <<>>
  /\ entries = <<>>
  /\ slots = <<>>
  /\ bytes = 0
  /\ peak = 0
  /\ counts = [c \in Counters |-> 0]
  /\ put = NoPut
  /\ calls = 0
  /\ before = <<>>
  /\ latest = <<>>
  /\ found = <<>>

(***************************************************************************)
(* get()                                                                   *)
(***************************************************************************)
PositionOf(a) == CHOOSE i \in DOMAIN order : order[i] = a

\* Mutants: the hit is not recorded; the hit leaves the old position behind.
NotMoved(a)   == order
MovedTwice(a) == Append(order, a)

MoveToEnd(a) == Append(RemoveAt(order, PositionOf(a)), a)

Hit(a) ==
  /\ Call
  /\ a \in DOMAIN entries
  /\ order' = MoveToEnd(a)
  /\ found' = Append(found, a)
  /\ Count({"hits"})
  /\ UNCHANGED <<entries, slots, bytes, peak, put, before, latest>>

Miss(a, slot) ==
  /\ Call
  /\ a \notin DOMAIN entries
  /\ Count({"misses"} \union
           IF <<a[1], slot>> \in DOMAIN slots THEN {"invalidations"} ELSE {})
  /\ UNCHANGED <<store, peak, put, before, latest, found>>

(***************************************************************************)
(* put()                                                                   *)
(***************************************************************************)
Refused(v) ==
  \/ v \notin Sizable
  \/ Estimate[v] > MaxBytes
  \/ v \notin Freezable
  \/ Charge[v] > MaxBytes

PutRefused(a, v) ==
  /\ Call
  /\ Refused(v)
  /\ Count({"refused"})
  /\ UNCHANGED <<store, peak, put, before, latest, found>>

\* Mutant: the index forgets the slot whatever address it names.
UnmappedAlways(a) ==
  Restrict(slots, DOMAIN slots \ {<<a[1], entries[a].slot>>})

\* The slot index forgets address a only while it still names it.
Unmapped(a) ==
  LET s == <<a[1], entries[a].slot>>
  IN  IF entries[a].slot # NoSlot /\ s \in DOMAIN slots /\ slots[s] = a
      THEN Restrict(slots, DOMAIN slots \ {s})
      ELSE slots

\* Mutant: the removed entry's charge is not given back.
DiscardUncharged(a) ==
  /\ order' = RemoveAt(order, PositionOf(a))
  /\ entries' = Restrict(entries, DOMAIN entries \ {a})
  /\ bytes' = bytes
  /\ slots' = Unmapped(a)

Discard(a) ==
  /\ order' = RemoveAt(order, PositionOf(a))
  /\ entries' = Restrict(entries, DOMAIN entries \ {a})
  /\ bytes' = bytes - entries[a].charge
  /\ slots' = Unmapped(a)

PutBegin(a, v, slot) ==
  /\ Call
  /\ ~Refused(v)
  /\ put' = [address |-> a, value |-> v, slot |-> slot]
  /\ before' = Content
  /\ IF a \in DOMAIN entries THEN Discard(a) ELSE UNCHANGED store
  /\ UNCHANGED <<peak, counts, latest, found>>

\* Mutant: the loop asks whether the budget is exceeded already.
TooFull == bytes > MaxBytes

NeedsRoom == bytes + Charge[put.value] > MaxBytes

EvictOldest ==
  /\ put # NoPut
  /\ order # <<>>
  /\ NeedsRoom
  /\ Discard(Head(order))
  /\ Count({"evictions"})
  /\ UNCHANGED <<peak, put, calls, before, latest, found>>

\* A function like f, except that it maps x to y.
With(f, x, y) == [z \in DOMAIN f \union {x} |-> IF z = x THEN y ELSE f[z]]

PutEnd ==
  LET a == put.address
      s == <<a[1], put.slot>>
      c == Charge[put.value]
  IN  /\ put # NoPut
      /\ order = <<>> \/ ~NeedsRoom
      /\ order' = Append(order, a)
      /\ entries' = With(entries, a,
                         [value |-> put.value, charge |-> c, slot |-> put.slot])
      /\ bytes' = bytes + c
      /\ peak' = IF bytes + c > peak THEN bytes + c ELSE peak
      /\ slots' = IF put.slot = NoSlot THEN slots ELSE With(slots, s, a)
      /\ latest' = IF put.slot = NoSlot THEN latest ELSE With(latest, s, a)
      /\ put' = NoPut
      /\ before' = <<>>
      /\ UNCHANGED <<counts, calls, found>>

Clear ==
  /\ Call
  /\ order' = <<>>
  /\ entries' = <<>>
  /\ slots' = <<>>
  /\ bytes' = 0
  /\ latest' = <<>>
  /\ UNCHANGED <<peak, counts, put, before, found>>

Next ==
  \/ \E a \in Addresses :
       \/ Hit(a)
       \/ \E slot \in Slots \union {NoSlot} : Miss(a, slot)
       \/ \E v \in Values : PutRefused(a, v)
       \/ \E v \in Values, slot \in Slots \union {NoSlot} : PutBegin(a, v, slot)
  \/ EvictOldest
  \/ PutEnd
  \/ Clear

Spec == Init /\ [][Next]_vars

-----------------------------------------------------------------------------
Entry == [value : Values, charge : Nat \ {0}, slot : Slots \union {NoSlot}]

\* The sequence s lists every element of D exactly once.
Enumerates(s, D) ==
  /\ s \in Seq(Addresses)
  /\ \A x \in D : \E i \in DOMAIN s : s[i] = x
  /\ \A i \in DOMAIN s : s[i] \in D
  /\ \A i, j \in DOMAIN s : s[i] = s[j] => i = j

\* The shape of the store's state: `order` lists every entry exactly once.
TypeOK ==
  /\ DOMAIN entries \subseteq Addresses
  /\ entries \in [DOMAIN entries -> Entry]
  /\ Enumerates(order, DOMAIN entries)
  /\ DOMAIN slots \subseteq Namespaces \X Slots
  /\ slots \in [DOMAIN slots -> Addresses]
  /\ bytes \in Int
  /\ peak \in Nat
  /\ counts \in [Counters -> Nat]
  /\ put \in PutRequest \union {NoPut}
  /\ calls \in Nat

\* One unit for every byte charged to a retained entry.
Units(es) == UNION {{a} \X (1..es[a].charge) : a \in DOMAIN es}

\* The incrementally maintained byte counter is exactly what the retained
\* entries were charged, through replacements, evictions and clears.
BytesAreCharges == bytes = Cardinality(Units(entries))

\* Between calls, and even between two turns of the eviction loop, the store
\* never accounts for more than the caller's budget; nor did it ever.
WithinBudget == bytes <= MaxBytes /\ peak <= MaxBytes

\* The slot index is never stale and never loses track: it maps a slot
\* exactly when the address last stored in that slot is still retained
\* under it, and then to that address.  An "invalidation" is counted on this
\* basis.
SlotsNameLatest ==
  LET live(x) == /\ latest[x] \in DOMAIN entries
                 /\ entries[latest[x]].slot = x[2]
      retained == {x \in DOMAIN latest : live(x)}
  IN  slots = [x \in retained |-> latest[x]]

\* What the store keeps by increments is what it would count afresh: its
\* account is exact and within the budget, its slot index is that of the
\* latest entries, after any calls and within each turn of the eviction loop.
AccountIsExact == BytesAreCharges /\ WithinBudget /\ SlotsNameLatest

\* The store behaves as a least-recently-used cache whose put() is one step
\* and displaces no more than it must: the loop's intermediate states are
\* those before the put().
Lru == INSTANCE LruCache WITH
         Budget  <- MaxBytes,
         content <- IF put = NoPut THEN Content ELSE before,
         found   <- found

ImplementsLru == Lru!Spec
=============================================================================
