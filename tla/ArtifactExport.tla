--------------------------- MODULE ArtifactExport ---------------------------
(***************************************************************************)
(* io/arrays.py: write_artifact() and read_artifact() over a file system.  *)
(*                                                                         *)
(* Writers that were given the same destination check that it does not     *)
(* exist, write arrays and then a manifest into a staging directory of     *)
(* their own, and rename it to the destination.  They may be stopped at    *)
(* checkpoints, may fail or be killed anywhere, and a power failure may    *)
(* leave any file torn, as nothing is synchronized.  Readers validate what *)
(* they find, at the destination or in a staging directory.                *)
(*                                                                         *)
(* A directory maps the names of its files to their contents: the          *)
(* manifest, and arrays by number.  Content is whole, and then known by    *)
(* the writer whose value it is, or a part of it.                          *)
(***************************************************************************)
EXTENDS Integers, Sequences

CONSTANTS
  Writers, Readers,
  Size,              \* Size[w]: arrays in the value writer w exports
  Part,              \* content that is not whole
  Absent,            \* no such directory, no such file
  MaxFailures        \* bound: power failures

Destination == "destination"
Paths == {Destination} \union Writers   \* a writer names its staging directory

Manifest == 0

Names == {Manifest} \union UNION {1..Size[w] : w \in Writers}

ASSUME ExportAssumption ==
  /\ Size \in [Writers -> Nat]
  /\ MaxFailures \in Nat
  /\ Destination \notin Writers
  /\ Part \notin Writers
  /\ Absent \notin Writers
  /\ \A N \in SUBSET Names : Absent \notin [N -> Writers]

VARIABLES
  dir,        \* path -> directory or Absent
  pc,         \* what a writer is doing
  arrays,     \* arrays a writer has finished, and entered in its manifest
  rpc,        \* what a reader is doing
  rpath,      \* the path it was given
  manifest,   \* the writer whose manifest it has read
  checked,    \* arrays it has validated
  loaded,     \* contents it has loaded
  failures,
  published   \* history: what was renamed to the destination

writing    == <<pc, arrays>>
reading    == <<rpc, rpath, manifest, checked, loaded>>
exportVars == <<dir, writing, reading, failures, published>>

ExportInit ==
  /\ dir = [p \in Paths |-> Absent]
  /\ pc = [w \in Writers |-> "called"]
  /\ arrays = [w \in Writers |-> 0]
  /\ rpc = [r \in Readers |-> "idle"]
  /\ rpath = [r \in Readers |-> Destination]
  /\ manifest = [r \in Readers |-> Absent]
  /\ checked = [r \in Readers |-> 0]
  /\ loaded = [r \in Readers |-> <<>>]
  /\ failures = 0
  /\ published = Absent

-----------------------------------------------------------------------------
(***************************************************************************)
(* write_artifact()                                                        *)
(***************************************************************************)
Goes(w, from, to) == pc[w] = from /\ pc' = [pc EXCEPT ![w] = to]

Writes(p, name, content) ==
  dir' = [dir EXCEPT ![p] =
            [n \in DOMAIN dir[p] \union {name} |-> IF n = name THEN content ELSE dir[p][n]]]

Check(w) ==
  /\ Goes(w, "called", IF dir[Destination] = Absent THEN "create" ELSE "failed")
  /\ UNCHANGED <<dir, arrays, reading, failures, published>>

\* The name of the staging directory is unique.
CreateStaging(w) ==
  /\ Goes(w, "create", "array")
  /\ dir' = [dir EXCEPT ![w] = <<>>]
  /\ UNCHANGED <<arrays, reading, failures, published>>

OpenArray(w) ==
  /\ arrays[w] < Size[w]
  /\ Goes(w, "array", "chunks")
  /\ Writes(w, arrays[w] + 1, Part)
  /\ UNCHANGED <<arrays, reading, failures, published>>

\* The rest of the array, its size and its checksum.
FinishArray(w) ==
  /\ Goes(w, "chunks", "array")
  /\ Writes(w, arrays[w] + 1, w)
  /\ arrays' = [arrays EXCEPT ![w] = @ + 1]
  /\ UNCHANGED <<reading, failures, published>>

\* Mutant: the manifest is opened first and completed last.
OpenManifestEarly(w) ==
  /\ Goes(w, "array", "manifest")
  /\ Writes(w, Manifest, w)
  /\ UNCHANGED <<arrays, reading, failures, published>>

OpenManifest(w) ==
  /\ arrays[w] = Size[w]
  /\ Goes(w, "array", "manifest")
  /\ Writes(w, Manifest, Part)
  /\ UNCHANGED <<arrays, reading, failures, published>>

FinishManifest(w) ==
  /\ Goes(w, "manifest", "publish")
  /\ Writes(w, Manifest, w)
  /\ UNCHANGED <<arrays, reading, failures, published>>

\* Mutant: the destination is replaced, whatever it holds.
ReplacesAny == TRUE

\* A directory can be renamed onto an empty one only.
Replaces == dir[Destination] \in {Absent, <<>>}

Publish(w) ==
  /\ Goes(w, "publish", IF Replaces THEN "returned" ELSE "failed")
  /\ IF Replaces
     THEN /\ dir' = [dir EXCEPT ![Destination] = dir[w], ![w] = Absent]
          /\ published' = w
     ELSE UNCHANGED <<dir, published>>
  /\ UNCHANGED <<arrays, reading, failures>>

\* A checkpoint stops the call, something fails, or the process is killed;
\* what is in the staging directory stays there.
Die(w) ==
  /\ pc[w] \in {"called", "create", "array", "chunks", "manifest", "publish"}
  /\ pc' = [pc EXCEPT ![w] = "failed"]
  /\ UNCHANGED <<dir, arrays, reading, failures, published>>

(***************************************************************************)
(* read_artifact()                                                         *)
(***************************************************************************)
Reads(r, next) == rpc' = [rpc EXCEPT ![r] = next]

Open(r, p) ==
  /\ rpc[r] \in {"idle", "returned", "failed"}
  /\ Reads(r, "manifest")
  /\ rpath' = [rpath EXCEPT ![r] = p]
  /\ manifest' = [manifest EXCEPT ![r] = Absent]
  /\ checked' = [checked EXCEPT ![r] = 0]
  /\ loaded' = [loaded EXCEPT ![r] = <<>>]
  /\ UNCHANGED <<dir, writing, failures, published>>

File(p, name) ==
  IF dir[p] = Absent THEN Absent
  ELSE IF name \in DOMAIN dir[p] THEN dir[p][name] ELSE Absent

\* A manifest that is missing or does not parse is an error.
Parses(document) == document \in Writers

ReadManifest(r) ==
  LET document == File(rpath[r], Manifest)
  IN  /\ rpc[r] = "manifest"
      /\ Reads(r, IF Parses(document) THEN "check" ELSE "failed")
      /\ manifest' = [manifest EXCEPT ![r] = document]
      /\ UNCHANGED <<dir, writing, rpath, checked, loaded, failures, published>>

\* Mutant: a file that exists is taken for the array.
ValidIfPresent(r, content) == content # Absent

\* Size, header and checksum are those of the manifest.
Valid(r, content) == content = manifest[r]

CheckArray(r) ==
  LET content == File(rpath[r], checked[r] + 1)
  IN  /\ rpc[r] = "check"
      /\ checked[r] < Size[manifest[r]]
      /\ IF Valid(r, content)
         THEN checked' = [checked EXCEPT ![r] = @ + 1] /\ UNCHANGED rpc
         ELSE Reads(r, "failed") /\ UNCHANGED checked
      /\ UNCHANGED <<dir, writing, rpath, manifest, loaded, failures, published>>

AllChecked(r) ==
  /\ rpc[r] = "check"
  /\ checked[r] = Size[manifest[r]]
  /\ Reads(r, "load")
  /\ UNCHANGED <<dir, writing, rpath, manifest, checked, loaded, failures, published>>

\* The arrays are opened a second time; one that is gone is an error.
LoadArray(r) ==
  LET content == File(rpath[r], Len(loaded[r]) + 1)
  IN  /\ rpc[r] = "load"
      /\ Len(loaded[r]) < Size[manifest[r]]
      /\ IF content = Absent
         THEN Reads(r, "failed") /\ UNCHANGED loaded
         ELSE loaded' = [loaded EXCEPT ![r] = Append(@, content)] /\ UNCHANGED rpc
      /\ UNCHANGED <<dir, writing, rpath, manifest, checked, failures, published>>

Loaded(r) ==
  /\ rpc[r] = "load"
  /\ Len(loaded[r]) = Size[manifest[r]]
  /\ Reads(r, "returned")
  /\ UNCHANGED <<dir, writing, rpath, manifest, checked, loaded, failures, published>>

\* A checkpoint, a budget or the file system stops a reader.
GiveUp(r) ==
  /\ rpc[r] \in {"manifest", "check", "load"}
  /\ Reads(r, "failed")
  /\ UNCHANGED <<dir, writing, rpath, manifest, checked, loaded, failures, published>>

(***************************************************************************)
(* The surroundings                                                        *)
(***************************************************************************)
\* Another program makes a directory at the destination.
MakeDestination ==
  /\ dir[Destination] = Absent
  /\ dir' = [dir EXCEPT ![Destination] = <<>>]
  /\ UNCHANGED <<writing, reading, failures, published>>

\* All processes end; files that were never synchronized may be torn.
PowerFailure ==
  /\ failures < MaxFailures
  /\ failures' = failures + 1
  /\ \E lost \in [Paths -> SUBSET Names] :
       dir' = [p \in Paths |->
                 IF dir[p] = Absent THEN Absent
                 ELSE [n \in DOMAIN dir[p] |-> IF n \in lost[p] THEN Part ELSE dir[p][n]]]
  /\ pc' = [w \in Writers |-> "failed"]
  /\ rpc' = [r \in Readers |-> "failed"]
  /\ UNCHANGED <<arrays, rpath, manifest, checked, loaded, published>>

ExportNext ==
  \/ \E w \in Writers :
       \/ Check(w) \/ CreateStaging(w)
       \/ OpenArray(w) \/ FinishArray(w)
       \/ OpenManifest(w) \/ FinishManifest(w)
       \/ Publish(w) \/ Die(w)
  \/ \E r \in Readers :
       \/ \E p \in Paths : Open(r, p)
       \/ ReadManifest(r) \/ CheckArray(r) \/ AllChecked(r)
       \/ LoadArray(r) \/ Loaded(r) \/ GiveUp(r)
  \/ MakeDestination
  \/ PowerFailure

ExportSpec == ExportInit /\ [][ExportNext]_exportVars

-----------------------------------------------------------------------------
\* The whole artifact of a writer.
Whole(w) == [n \in 0..Size[w] |-> w]

\* Whatever is at the destination was renamed there as a whole: there is no
\* readable artifact until everything is written, and none that mixes two
\* exports.  (Before a power failure.)
PublishedIsWhole ==
  failures = 0 =>
    IF published = Absent THEN dir[Destination] \in {Absent, <<>>}
    ELSE dir[Destination] = Whole(published)

\* A call that returned has its artifact at the destination: not that of
\* another writer that was given the same one.
ReturnedIsPublished ==
  \A w \in Writers : pc[w] = "returned" => published = w

\* A reader returns all of one export or fails: wherever it was pointed to,
\* whatever was renamed under its hands, and whatever was torn before.
WholeOrNothing ==
  \A r \in Readers :
    rpc[r] = "returned" =>
      loaded[r] = [n \in 1..Size[manifest[r]] |-> manifest[r]]

\* All or nothing, at both ends: whatever is at the destination is the whole
\* export of the writer that returned, and whatever a reader returns is the
\* whole of one, with two writers, renames in mid-read and a power failure.
ExportsAreWhole == PublishedIsWhole /\ ReturnedIsPublished /\ WholeOrNothing

=============================================================================
