--------------------------- MODULE MCArtifactExport --------------------------
(***************************************************************************)
(* Instances of ArtifactExport for TLC: two writers of values with one and *)
(* two arrays, and a reader.  Before them, values are written to bundles   *)
(* and read, or identified: the two have no state in common.               *)
(***************************************************************************)
EXTENDS ArtifactExport, ValueCodec, TLC

CONSTANTS w1, w2

MCSize == (w1 :> 2) @@ (w2 :> 1)

Str(s) == <<"str", s>>
Seq2(x, y) == <<"seq", <<x, y>>>>
Pay(f) == <<"map", f>>

Nan == <<"float", "nan">>
Res(execution) == <<"data", "Res", [value |-> Str("red"), execution |-> execution]>>

\* Payloads that look like tags, enumerations and labels, numbers that print
\* alike, one instant in two zones, arrays without elements, a set within a
\* sequence, values no codec takes.
MCValues ==
  {Nan, Pay([float |-> Str("nan")]), Pay([float |-> Nan]), <<"enum", "Col", "red">>, Str("red"),
   Pay([enum |-> Str("Col"), value |-> Str("red")]), <<"enum", "Role", "red">>,
   Seq2(Str("red"), Nan), <<"set", {Str("red"), Nan}>>, Seq2(<<"set", {Str("red")}>>, Nan), Pay([sequence |-> Seq2(Nan, Nan)]),
   <<"int", 1>>, <<"bool", TRUE>>, <<"float", "0x1">>, <<"generic", <<"float", "0x1">>>>, Str("1"),
   <<"time", 5, 0>>, <<"time", 7, 2>>, <<"time", 5, Missing>>, Pay([utc |-> <<"int", 5>>]),
   <<"array", "f8", 2, <<Nan, <<"float", "0x1">>>>>>, <<"array", "f4", 2, <<Nan, <<"float", "0x1">>>>>>,
   <<"array", "f8", 0, <<>>>>, <<"array", "f4", 0, <<>>>>,
   <<"array", "object", 1, <<Str("1")>>>>, Seq2(Nan, <<"float", "0x1">>), <<"odd">>, <<"none">>,
   Res(<<"none">>), Res(Pay([map |-> Nan])), <<"data", "Par", [value |-> Str("red"), execution |-> <<"none">>]>>,
   <<"data", "Mut", [value |-> <<"time", 7, 2>>]>>, Seq2(Res(<<"none">>), <<"enum", "Col", "red">>),
   Pay([type |-> Str("Res"), fields |-> Pay([value |-> Str("red"), execution |-> <<"none">>])])}

Everything == [Res |-> "Res", Par |-> "Par", Mut |-> "Mut", Col |-> "Col", Role |-> "Role"]

MCTypes == {Everything, [n \in {"Res", "Role"} |-> Everything[n]]}

MCOmitted == [Res |-> [execution |-> <<"none">>]]

\* Untagged, of no known tag, of lengths that differ, of a class that is not
\* what it is taken for, and one that could have been written.
MCForeign ==
  {<<"arr", <<Str("red")>>>>, <<"obj", [map |-> <<"obj", [a |-> <<"arr", <<>>>>]>>, other |-> Str("red")]>>,
   <<"obj", [array |-> <<"obj", [sequence |-> <<"arr", <<>>>>]>>, dtype |-> Str("f8"), shape |-> <<"int", 1>>]>>,
   <<"obj", [enum |-> Str("Res"), value |-> Str("red")]>>, <<"obj", [type |-> Str("Role"), fields |-> <<"obj", <<>>>>]>>,
   <<"obj", [map |-> <<"obj", [a |-> Str("red")]>>]>>}

BundledInit == ExportInit /\ CodecInit

Untouched ==
  /\ dir = [p \in Paths |-> Absent] /\ failures = 0
  /\ pc = [w \in Writers |-> "called"] /\ rpc = [r \in Readers |-> "idle"]

BundledNext ==
  \/ Untouched /\ CodecNext /\ (file' = Missing \/ issued' = {}) /\ UNCHANGED exportVars
  \/ file = Missing /\ issued = {} /\ ExportNext /\ UNCHANGED codecVars

BundledSpec == BundledInit /\ [][BundledNext]_<<exportVars, codecVars>>
=============================================================================
