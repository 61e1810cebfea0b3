----------------------------- MODULE DataFiles -----------------------------
(***************************************************************************)
(* Where acquisitions are saved and what is written there: the save path   *)
(* and the paths clients see, the numbered acquisition folders, the PNG    *)
(* files with their text, the reducer's movie, and the way the lab's       *)
(* analysis scripts read the movie.                                        *)
(*                                                                         *)
(* A directory is a sequence of names.  A folder is known by the directory *)
(* and the mode it is under, its number and the name behind the number.    *)
(***************************************************************************)
EXTENDS Integers, Sequences, SequencesExt

CONSTANTS DataRoot,   \* the directory the bridge keeps its data in
          LocalPaths  \* the save paths that are directories of the bridge's host

ASSUME DataRootAssumption == DataRoot \in Seq(STRING) /\ DataRoot # <<>>

NoPath == <<>>

-----------------------------------------------------------------------------
(* The save path.  One that cannot be written to is only a prefix of the    *)
(* paths clients see.                                                       *)

IsLocal(savePath) == savePath \in LocalPaths
IsVirtual(savePath) == savePath # NoPath /\ ~IsLocal(savePath)

BaseDir(savePath) == IF IsLocal(savePath) THEN savePath ELSE DataRoot

AllowedRoots(savePath) == {DataRoot} \cup (IF IsLocal(savePath) THEN {savePath} ELSE {})

Rest(path, prefix) == SubSeq(path, Len(prefix) + 1, Len(path))

(* Mutant: the prefix is put on whatever is saved.                          *)
DisplayPathAlways(savePath, folder) ==
  IF IsVirtual(savePath) THEN [folder EXCEPT !.base = savePath \o Rest(@, DataRoot)] ELSE folder

DisplayPath(savePath, folder) ==
  IF IsVirtual(savePath) /\ IsPrefix(DataRoot, folder.base)
  THEN [folder EXCEPT !.base = savePath \o Rest(@, DataRoot)]
  ELSE folder

(* The folder a path that a client sends stands for, NoFolder for none.     *)
NoFolder == [base |-> NoPath, mode |-> "none", number |-> 0, name |-> ""]

Resolve(savePath, shown) ==
  LET candidate == IF IsVirtual(savePath) /\ IsPrefix(savePath, shown.base)
                   THEN [shown EXCEPT !.base = DataRoot \o Rest(@, savePath)]
                   ELSE shown
  IN  IF \E root \in AllowedRoots(savePath) : IsPrefix(root, candidate.base)
      THEN candidate ELSE NoFolder

(* What a client that sends the path is shown.                              *)
Opened(folders, savePath, shown) ==
  LET resolved == Resolve(savePath, shown)
  IN  IF resolved \in folders THEN resolved ELSE NoFolder

-----------------------------------------------------------------------------
(* Folders.                                                                 *)

(* Mutant: a folder with a name behind its number is overlooked.            *)
NextNumberUnnamed(folders, base, mode) ==
  LET numbers == {f.number : f \in {g \in folders : g.base = base /\ g.mode = mode /\ g.name = ""}}
  IN  1 + (CHOOSE n \in numbers \cup {0} : \A other \in numbers : other <= n)

(* Folders of every name count; gaps are not filled.                        *)
NextNumber(folders, base, mode) ==
  LET numbers == {f.number : f \in {g \in folders : g.base = base /\ g.mode = mode}}
  IN  1 + (CHOOSE n \in numbers \cup {0} : \A other \in numbers : other <= n)

EmptyFolder == [images |-> <<>>, meta |-> <<>>, sidecar |-> <<>>, movie |-> <<>>]

-----------------------------------------------------------------------------
(* Files.                                                                   *)

(* The keys the reducer and the scripts read.  Only gated runs have gate    *)
(* keys, and they carry the steps that were asked for.                      *)
build_png_metadata(p, unit, frames, steps) ==
  IF p.mode = "gated"
  THEN [Time |-> p.time, Unit |-> unit, Overlap |-> p.overlap, Frames |-> frames,
        GateSteps |-> steps, StepSize |-> p.size, Offset |-> p.offset,
        Arbitrary |-> p.arbitrary # <<>>]
  ELSE [Time |-> p.time, Unit |-> unit, Overlap |-> p.overlap, Frames |-> frames]

(* Up to eight bits a count is saved as a byte.                             *)
FrameImage(frame, depth) ==
  [px \in DOMAIN frame |-> frame[px] % (IF depth <= 8 THEN 256 ELSE 65536)]

(* Mutant: the iterations are taken to be the inner loop.                   *)
ImageFileSwapped(frame, index, depth, steps) ==
  [frame |-> IF steps = 0 THEN index ELSE index % steps,
   step |-> IF steps = 0 THEN 0 ELSE index \div steps,
   counts |-> FrameImage(frame, depth)]

(* The file of the frame with this index (from 0); steps is 0 for intensity.*)
ImageFile(frame, index, depth, steps) ==
  [frame |-> IF steps = 0 THEN index ELSE index \div steps,
   step |-> IF steps = 0 THEN 0 ELSE index % steps,
   counts |-> FrameImage(frame, depth)]

-----------------------------------------------------------------------------
(* The reducer, and the scripts that read its movie.                        *)

(* Mutant: one sweep only.                                                  *)
ExpectedFramesOfSweep(meta) ==
  IF "GateSteps" \in DOMAIN meta THEN meta.GateSteps ELSE meta.Frames

ExpectedFrames(meta) ==
  IF "GateSteps" \in DOMAIN meta THEN meta.GateSteps * meta.Frames ELSE meta.Frames

reduce_folder(folder) ==
  LET expected == ExpectedFrames(folder.meta)
      count == IF expected < Len(folder.images) THEN expected ELSE Len(folder.images)
  IN  [k \in 1..count |-> folder.images[k].counts]

(* The frames a script adds up for a gate step: one of every sweep.         *)
GateFrames(meta, movie, step) ==
  [i \in 1..meta.Frames |-> movie[(i - 1) * meta.GateSteps + step + 1]]
=============================================================================
