----------------------------- MODULE ValueCodec ------------------------------
(***************************************************************************)
(* Values, the documents they are written as (io/bundle.py), and their     *)
(* fingerprints (_values.py): freeze() owns and normalizes a value,        *)
(* canonical_json() is what is hashed, _encode() and _decode() are the     *)
(* codec of bundles, and write_bundle() and read_bundle() a file of them.  *)
(* artifact_key() (runtime/cache.py) identifies what a session retains.    *)
(*                                                                         *)
(* A value is a tuple of its kind and its parts: <<"map", f>>,             *)
(* <<"seq", s>>, <<"set", S>>, <<"data", class, fields>>,                  *)
(* <<"enum", class, s>>, <<"array", dtype, shape, s>>, <<"time", t, zone>>,*)
(* <<"float", x>>, <<"generic", v>> for a scalar of numpy, <<"str", s>>,   *)
(* <<"bool", b>>, <<"int", n>>, <<"none">>.  A float is a name, the zone   *)
(* of a naive time is None, and <<"odd">> has keys that are no strings.    *)
(* A document is <<"obj", f>>, <<"arr", s>> or a scalar as it is.  A hash  *)
(* is taken for what it is the hash of.                                    *)
(***************************************************************************)
EXTENDS Integers, Sequences, FiniteSets, SequencesExt

CONSTANTS
  Values,        \* values that are written or identified
  Types,         \* the classes of registries: functions from names to classes
  Enums,         \* those of the classes that enumerate
  Mutable,       \* those that are not frozen
  Omitted,       \* Omitted[class][field]: a default that identity leaves out
  Foreign,       \* documents that no writer of values made
  MaxWrites, MaxIssued,
  Missing        \* no zone, no file, nothing read

\* One name is one class, whoever registers it.
ASSUME TypesAgree ==
  \A r, s \in Types : \A n \in DOMAIN r \intersect DOMAIN s : r[n] = s[n] /\ IsInjective(r)

VARIABLES
  file,     \* [written, doc] or Missing
  writes,   \* bound: how many writes were begun
  got,      \* what was read last, Missing if it was refused
  issued    \* history: the fingerprints of values, [id, of]

codecVars == <<file, writes, got, issued>>

CodecInit == file = Missing /\ writes = 0 /\ got = Missing /\ issued = {}

-----------------------------------------------------------------------------
NonFinite == {"nan", "+inf", "-inf"}

Inside(v) ==
  CASE v[1] = "seq" -> Range(v[2])
    [] v[1] = "set" -> v[2]
    [] v[1] = "map" -> Range(v[2])
    [] v[1] = "data" -> Range(v[3])
    [] v[1] = "generic" -> {v[2]}
    [] v[1] = "array" -> Range(v[4])
    [] OTHER -> {}

Over(v, op(_)) ==
  CASE v[1] = "seq" -> <<"seq", [i \in DOMAIN v[2] |-> op(v[2][i])]>>
    [] v[1] = "map" -> <<"map", [k \in DOMAIN v[2] |-> op(v[2][k])]>>
    [] v[1] = "data" -> <<"data", v[2], [f \in DOMAIN v[3] |-> op(v[3][f])]>>
    [] OTHER -> v

Utc(v) == <<"time", v[2] - v[3], 0>>

-----------------------------------------------------------------------------
(***************************************************************************)
(* freeze() and canonical_json()                                           *)
(***************************************************************************)
RECURSIVE Freezable(_)
Freezable(v) ==
  /\ v[1] # "odd"
  /\ v[1] = "array" => v[2] # "object"
  /\ v[1] = "time" => v[3] # Missing
  /\ v[1] = "data" => v[2] \notin Mutable
  /\ \A x \in Inside(v) : Freezable(x)

Ordered(S) == FoldSet(LAMBDA x, s : Append(s, x), <<>>, S)

RECURSIVE Frozen(_)
Frozen(v) ==
  CASE v[1] = "set" -> <<"seq", Ordered({Frozen(x) : x \in v[2]})>>
    [] v[1] = "time" -> Utc(v)
    [] v[1] = "generic" -> v[2]
    [] OTHER -> Over(v, Frozen)

Identified(v) ==
  IF v[2] \in DOMAIN Omitted
  THEN Restrict(v[3], {f \in DOMAIN v[3] : ~ (f \in DOMAIN Omitted[v[2]] /\ v[3][f] = Omitted[v[2]][f])})
  ELSE v[3]

\* Mutant: payloads are not tagged.
RECURSIVE Untagged(_)
Untagged(v) ==
  CASE v[1] = "map" -> <<"obj", [k \in DOMAIN v[2] |-> Untagged(v[2][k])]>>
    [] v[1] = "data" -> <<"obj", [k \in DOMAIN Identified(v) |-> Untagged(Identified(v)[k])]>>
    [] v[1] = "seq" -> <<"arr", [i \in DOMAIN v[2] |-> Untagged(v[2][i])]>>
    [] v[1] = "enum" -> <<"str", v[3]>>
    [] v[1] = "float" /\ v[2] \in NonFinite -> <<"obj", [float |-> <<"str", v[2]>>]>>
    [] OTHER -> v

RECURSIVE Canonical(_)
Canonical(v) ==
  CASE v[1] = "map" -> <<"arr", <<"map", [k \in DOMAIN v[2] |-> Canonical(v[2][k])]>>>>
    [] v[1] = "seq" -> <<"arr", <<"sequence", [i \in DOMAIN v[2] |-> Canonical(v[2][i])]>>>>
    [] v[1] = "data" ->
         <<"arr", <<"value", v[2], [f \in DOMAIN Identified(v) |-> Canonical(Identified(v)[f])]>>>>
    [] v[1] = "array" ->
         <<"arr", <<"array", v[2], v[3], [i \in DOMAIN v[4] |-> Canonical(v[4][i])]>>>>
    [] OTHER -> <<"arr", v>>

\* Bound: fingerprints of a few values.
Fingerprint(v) ==
  /\ Freezable(v) /\ Cardinality(issued) < MaxIssued
  /\ issued' = issued \union {[id |-> Canonical(Frozen(v)), of |-> v]}
  /\ UNCHANGED <<file, writes, got>>

\* artifact_key(): plain values, arrays, mappings, sequences and declared
\* classes, with all their fields, are digested part by part; anything else by
\* its canonical form.  Nothing is frozen: a set, that only freeze() puts in
\* order, is refused wherever it is, and a mutable class is not.
Streamed == {"none", "bool", "str", "int", "float", "array", "map", "odd", "seq", "data"}

RECURSIVE Digestable(_)
Digestable(v) ==
  /\ v[1] # "set"
  /\ v[1] = "array" => v[2] # "object"
  /\ v[1] = "time" => v[3] # Missing
  /\ \A x \in Inside(v) : Digestable(x)

RECURSIVE Digested(_)
Digested(v) ==
  CASE v[1] \in {"map", "seq", "data"} -> Over(v, Digested)
    [] v[1] \in Streamed -> v
    [] OTHER -> <<"canonical", Canonical(Frozen(v))>>

\* Bound: fingerprints and keys of a few values.
ArtifactKey(v) ==
  /\ Digestable(v) /\ Cardinality(issued) < MaxIssued
  /\ issued' = issued \union {[id |-> <<"artifact", Digested(v)>>, of |-> v]}
  /\ UNCHANGED <<file, writes, got>>

-----------------------------------------------------------------------------
(***************************************************************************)
(* _encode() and _decode()                                                 *)
(***************************************************************************)
Known(class, registry) == class \in Range(registry)

RECURSIVE Encodable(_, _)
Encodable(v, registry) ==
  /\ v[1] \notin {"odd", "set"}
  /\ v[1] = "array" => v[2] # "object"
  /\ v[1] = "time" => v[3] # Missing
  /\ v[1] \in {"data", "enum"} => Known(v[2], registry)
  /\ \A x \in Inside(v) : Encodable(x, registry)

NameOf(class, registry) == CHOOSE name \in DOMAIN registry : registry[name] = class

Text(s) == <<"str", s>>
Tagged(tag, doc) == <<"obj", tag :> doc>>

\* Mutant: maps are written as they are.
RECURSIVE EncodeBare(_, _)
EncodeBare(v, registry) ==
  CASE v[1] = "map" -> <<"obj", [k \in DOMAIN v[2] |-> EncodeBare(v[2][k], registry)]>>
    [] v[1] = "seq" -> Tagged("sequence", <<"arr", [i \in DOMAIN v[2] |-> EncodeBare(v[2][i], registry)]>>)
    [] v[1] = "float" /\ v[2] \in NonFinite -> Tagged("float", Text(v[2]))
    [] OTHER -> v

RECURSIVE Encode(_, _)
Encode(v, registry) ==
  CASE v[1] = "enum" -> <<"obj", [enum |-> Text(NameOf(v[2], registry)), value |-> Text(v[3])]>>
    [] v[1] = "time" -> Tagged("utc", <<"int", Utc(v)[2]>>)
    [] v[1] = "array" -> <<"obj", [array |-> Encode(<<"seq", v[4]>>, registry), dtype |-> Text(v[2]),
                                   shape |-> <<"int", v[3]>>]>>
    [] v[1] = "generic" -> Encode(v[2], registry)
    [] v[1] = "data" -> <<"obj", [type   |-> Text(NameOf(v[2], registry)),
                                  fields |-> <<"obj", [f \in DOMAIN v[3] |-> Encode(v[3][f], registry)]>>]>>
    [] v[1] = "map" -> Tagged("map", <<"obj", [k \in DOMAIN v[2] |-> Encode(v[2][k], registry)]>>)
    [] v[1] = "seq" -> Tagged("sequence", <<"arr", [i \in DOMAIN v[2] |-> Encode(v[2][i], registry)]>>)
    [] v[1] = "float" /\ v[2] \in NonFinite -> Tagged("float", Text(v[2]))
    [] OTHER -> v

Keys(doc) == IF doc[1] = "obj" THEN DOMAIN doc[2] ELSE {}

Registered(doc, tag, registry) == doc[2][tag][1] = "str" /\ doc[2][tag][2] \in DOMAIN registry

\* What an object may be by its keys, and what is in it.
Parts(doc) ==
  CASE Keys(doc) = {"map"} -> Range(doc[2].map[2])
    [] Keys(doc) = {"sequence"} -> Range(doc[2].sequence[2])
    [] Keys(doc) = {"type", "fields"} -> Range(doc[2].fields[2])
    [] Keys(doc) = {"array", "dtype", "shape"} -> {doc[2].array}
    [] OTHER -> {}

RECURSIVE Decodable(_, _)
Decodable(doc, registry) ==
  /\ doc[1] # "arr"
  /\ doc[1] = "obj" =>
       \/ Keys(doc) \in {{"map"}, {"sequence"}, {"utc"}}
       \/ Keys(doc) = {"float"} /\ doc[2].float \in {Text(x) : x \in NonFinite}
       \/ Keys(doc) = {"array", "dtype", "shape"} /\ Len(doc[2].array[2].sequence[2]) = doc[2].shape[2]
       \/ Keys(doc) = {"enum", "value"} /\ Registered(doc, "enum", registry)
            /\ registry[doc[2].enum[2]] \in Enums
       \/ Keys(doc) = {"type", "fields"} /\ Registered(doc, "type", registry)
            /\ registry[doc[2].type[2]] \notin Enums
  /\ \A part \in Parts(doc) : Decodable(part, registry)

RECURSIVE Decode(_, _)
Decode(doc, registry) ==
  CASE Keys(doc) = {"map"} -> <<"map", [k \in DOMAIN doc[2].map[2] |-> Decode(doc[2].map[2][k], registry)]>>
    [] Keys(doc) = {"sequence"} ->
         <<"seq", [i \in DOMAIN doc[2].sequence[2] |-> Decode(doc[2].sequence[2][i], registry)]>>
    [] Keys(doc) = {"utc"} -> <<"time", doc[2].utc[2], 0>>
    [] Keys(doc) = {"float"} -> <<"float", doc[2].float[2]>>
    [] Keys(doc) = {"array", "dtype", "shape"} ->
         <<"array", doc[2].dtype[2], doc[2].shape[2], Decode(doc[2].array, registry)[2]>>
    [] Keys(doc) = {"enum", "value"} -> <<"enum", registry[doc[2].enum[2]], doc[2].value[2]>>
    [] Keys(doc) = {"type", "fields"} ->
         <<"data", registry[doc[2].type[2]],
           [f \in DOMAIN doc[2].fields[2] |-> Decode(doc[2].fields[2][f], registry)]>>
    [] OTHER -> doc

-----------------------------------------------------------------------------
(***************************************************************************)
(* write_bundle() and read_bundle()                                        *)
(***************************************************************************)
Torn == <<"torn">>

\* A value is encoded before the file is opened, and the file emptied before
\* it is written: a process may end between.
WriteBundle(v, registry) ==
  /\ Encodable(v, registry) /\ writes < MaxWrites
  /\ \E whole \in BOOLEAN :
       file' = [written |-> v, doc |-> IF whole THEN Encode(v, registry) ELSE Torn]
  /\ writes' = writes + 1 /\ got' = Missing
  /\ UNCHANGED issued

\* Someone else's document takes the place of the file.
Replace(doc) ==
  /\ writes < MaxWrites
  /\ file' = [written |-> Missing, doc |-> doc]
  /\ writes' = writes + 1 /\ got' = Missing
  /\ UNCHANGED issued

\* fits: whether the file is within the budget of the reader.
ReadBundle(registry, fits) ==
  /\ file # Missing /\ got = Missing
  /\ got' = IF fits /\ file.doc # Torn /\ Decodable(file.doc, registry)
            THEN [by |-> registry, value |-> Decode(file.doc, registry)] ELSE Missing
  /\ UNCHANGED <<file, writes, issued>>

CodecNext ==
  \/ \E v \in Values : Fingerprint(v) \/ ArtifactKey(v)
  \/ \E v \in Values, registry \in Types : WriteBundle(v, registry)
  \/ \E doc \in Foreign : Replace(doc)
  \/ \E registry \in Types, fits \in BOOLEAN : ReadBundle(registry, fits)

-----------------------------------------------------------------------------
\* A value as it is owned: sequences are tuples, times in UTC, scalars plain.
RECURSIVE Owned(_)
Owned(v) ==
  CASE v[1] = "time" -> Utc(v)
    [] v[1] = "generic" -> v[2]
    [] OTHER -> Over(v, Owned)

\* Whatever is read back is what was written, to the class of every part, and
\* nothing is made of a torn file, by a reader who does not know a class, or
\* of payloads that look like instructions of the codec; of documents that
\* nobody wrote, only values that could be written.
BundlesReadAsWritten ==
  got # Missing =>
    IF file.written = Missing THEN Encodable(got.value, got.by) ELSE got.value = Owned(file.written)

\* Two values that have one fingerprint, or one artifact key, are the same value
\* once they are owned: what is looked up under it is what would be computed.
\* A value has one fingerprint, however it is given.
FingerprintsTellApart ==
  \A x, y \in issued :
    /\ x.id = y.id => Frozen(x.of) = Frozen(y.of)
    /\ x.id[1] # "artifact" /\ y.id[1] # "artifact" /\ Frozen(x.of) = Frozen(y.of) => x.id = y.id
=============================================================================
