----------------------------- MODULE LogProofs -----------------------------
(***************************************************************************)
(* What the experiment log says of the runs: theorems about Measurement    *)
(* for any sensor, any requests, any number of runs, failures and          *)
(* restarts.  MeasurementProofs has the folders; here are the types of the *)
(* state, that a rerun takes the same measurement, and that a logged path  *)
(* leads to the folder of the run that was logged.                         *)
(***************************************************************************)
EXTENDS MeasurementProofs

-----------------------------------------------------------------------------
(* The fields of a run.                                                     *)

AllKeys == {"via", "mode", "body", "params", "entry", "pc", "status", "reference", "done", "wire",
            "stack", "view", "folder", "made", "written", "shown", "told", "beside"}

(* Those that are given with the request.                                   *)
Given == {"via", "mode", "body", "params", "entry", "beside"}

Vias == {"route", "reference", "rerun", "schedule", "live", "calibrate"}
Ends == {"aborted", "error", "timeout", "raised", "uncorrectable", "lost"}

RunsFull == IsSeq(runs) /\ \A r \in DOMAIN runs : DOMAIN runs[r] = AllKeys

(* A run that goes on has the new fields, and the others as they were.      *)
LEMMA GoesOn ==
  ASSUME RunsFull, NEW r \in DOMAIN runs, NEW fields, DOMAIN fields \subseteq AllKeys,
         Goes(r, fields)
  PROVE  /\ IsSeq(runs') /\ DOMAIN runs' = DOMAIN runs
         /\ \A s \in DOMAIN runs \ {r} : runs'[s] = runs[s]
         /\ DOMAIN runs'[r] = AllKeys
         /\ \A k \in DOMAIN fields : runs'[r][k] = fields[k]
         /\ \A k \in AllKeys \ DOMAIN fields : runs'[r][k] = runs[r][k]
<1>1. runs' = [runs EXCEPT ![r] = With(runs[r], fields)]
  BY DEF Goes
<1>2. IsSeq(runs') /\ DOMAIN runs' = DOMAIN runs
  BY <1>1, SeqSame DEF RunsFull
<1>3. runs'[r] = With(runs[r], fields) /\ \A s \in DOMAIN runs \ {r} : runs'[s] = runs[s]
  BY <1>1
<1>4. DOMAIN With(runs[r], fields) = AllKeys
  <2>1. DOMAIN runs[r] = AllKeys
    BY DEF RunsFull
  <2>2. DOMAIN With(runs[r], fields) = DOMAIN runs[r] \cup DOMAIN fields
    BY WithDomain
  <2> QED BY <2>1, <2>2
<1>5. \A k \in DOMAIN fields : With(runs[r], fields)[k] = fields[k]
  BY WithNew
<1>6. \A k \in AllKeys \ DOMAIN fields : With(runs[r], fields)[k] = runs[r][k]
  <2>1. DOMAIN runs[r] = AllKeys
    BY DEF RunsFull
  <2>2. \A k \in DOMAIN runs[r] \ DOMAIN fields : With(runs[r], fields)[k] = runs[r][k]
    BY WithOld
  <2> QED BY <2>1, <2>2
<1> QED BY <1>2, <1>3, <1>4, <1>5, <1>6

-----------------------------------------------------------------------------
(* A dark measurement with gates has one step at least, or fails.           *)

IsGatedReference(run) == run.via = "reference" /\ run.params.mode = "gated"

ReferenceParams(p) ==
  /\ p.iterations \in Nat \ {0} /\ p.steps \in Int /\ p.arbitrary \in Seq(Int)
  /\ p.depth \in GatedBitDepths /\ p.width = Rows

(* A list of one part is that part.                                         *)
LEMMA FlattenOne ==
  ASSUME NEW S, NEW part \in Seq(S)
  PROVE  FlattenSeq(<<part>>) = part
<1> DEFINE parts == <<part>>
           flat == [i \in 1..1 |-> part]
<1>1. Len(parts) = 1 /\ parts[1] = part
  OBVIOUS
<1>2. flat = [i \in 1..Len(parts) |-> IF i = 1 THEN parts[i] ELSE flat[i - 1] \o parts[i]]
  <2>1. \A i \in 1..Len(parts) : i = 1 /\ parts[i] = part
    BY <1>1
  <2> HIDE DEF parts
  <2> QED BY <1>1, <2>1
<1> DEFINE IsFlat(f) == f = [i \in 1..Len(parts) |-> IF i = 1 THEN parts[i] ELSE f[i - 1] \o parts[i]]
           chosen == CHOOSE f : IsFlat(f)
<1>3. IsFlat(chosen)
  BY <1>2
<1>4. chosen[1] = part
  <2> HIDE DEF parts, chosen
  <2> QED BY <1>1, <1>3
<1> QED BY <1>1, <1>4 DEF FlattenSeq

(* A function on the first numbers is a sequence.                           *)
LEMMA SeqOfLength ==
  ASSUME NEW n \in Nat, NEW f, f = [i \in 1..n |-> f[i]]
  PROVE  (\E S : f \in Seq(S)) /\ Len(f) = n
<1>1. f \in Seq({f[i] : i \in 1..n})
  OBVIOUS
<1>2. Len(f) = n
  BY <1>1
<1> QED BY <1>1, <1>2

(* What the camera sends for one exposure is not nothing.                   *)
LEMMA EncodedOne ==
  ASSUME NEW depth \in GatedBitDepths, NEW pileup,
         NEW frame, frame = [px \in 1..(Rows * Rows) |-> frame[px]]
  PROVE  LET bytes == EncodeOne(frame, depth, Rows, pileup)
         IN  (\E S : bytes \in Seq(S)) /\ Len(bytes) \in Nat \ {0}
<1> DEFINE bytes == EncodeOne(frame, depth, Rows, pileup)
           n == Rows * Rows
<1>1. n \in Nat \ {0} /\ 2 * n \in Nat \ {0}
  BY PayloadAssumption
<1>2. DOMAIN frame = 1..n /\ Len(frame) = n
  <2>1. frame = [px \in 1..n |-> frame[px]]
    OBVIOUS
  <2> HIDE DEF n
  <2> QED BY <1>1, <2>1, SeqOfLength
<1>3. \/ bytes = [k \in 1..n |-> bytes[k]]
      \/ bytes = [k \in 1..(2 * n) |-> bytes[k]]
  <2>1. depth # 1
    BY DEF GatedBitDepths
  <2>2. CASE depth < 9 /\ ~pileup
    <3>1. bytes = [k \in DOMAIN frame |-> frame[k] % 256]
      BY <2>1, <2>2 DEF EncodeOne
    <3> HIDE DEF bytes, n
    <3> QED BY <1>2, <3>1
  <2>3. CASE ~(depth < 9 /\ ~pileup)
    <3>1. bytes = [k \in 1..(2 * Len(frame)) |->
                     LET count == frame[(k + 1) \div 2]
                     IN  IF k % 2 = 1 THEN count % 256 ELSE (count \div 256) % 256]
      BY <2>1, <2>3 DEF EncodeOne
    <3> HIDE DEF bytes, n
    <3> QED BY <1>2, <3>1
  <2> QED BY <2>2, <2>3
<1> HIDE DEF n, bytes
<1>4. (\E S : bytes \in Seq(S)) /\ Len(bytes) \in Nat \ {0}
  BY <1>1, <1>3, SeqOfLength
<1> QED BY <1>4 DEF bytes

(* It never sends no frame at all.                                          *)
LEMMA OneFrameAtLeast ==
  ASSUME NEW r, NEW cmd, cmd.depth \in GatedBitDepths, cmd.iterations * cmd.steps < 1,
         NEW pileup, NEW list
  PROVE  Len(HandleGated(r, cmd, pileup, list)) \in Nat \ {0}
<1> DEFINE depth == cmd.depth
           Count(px) == IF pileup THEN Light(r, 0, cmd.offset, px)
                        ELSE Light(r, 0, cmd.offset, px) % 2^depth
           frame == [px \in 1..(Rows * Rows) |-> Count(px)]
           bytes == EncodeOne(frame, depth, Rows, pileup)
<1>1. ResolveGatedBitDepth(cmd.depth) = depth
  BY DEF ResolveGatedBitDepth
<1>2. Expose(r, depth, Rows, pileup, 0, cmd.offset) = frame
  BY DEF Expose
<1>3. (\E S : bytes \in Seq(S)) /\ Len(bytes) \in Nat \ {0}
  <2>1. frame = [px \in 1..(Rows * Rows) |-> frame[px]]
    OBVIOUS
  <2>2. depth \in GatedBitDepths
    OBVIOUS
  <2> HIDE DEF frame, depth
  <2> QED BY <2>1, <2>2, EncodedOne
<1> DEFINE frames == [k \in 1..1 |-> frame]
<1>4. HandleGated(r, cmd, pileup, list) = EncodeFrames(frames, depth, Rows, pileup)
  <2>1. HandleGated(r, cmd, pileup, list)
          = EncodeFrames([k \in 1..1 |-> Expose(r, depth, Rows, pileup, 0, cmd.offset)],
                         depth, Rows, pileup)
    BY <1>1 DEF HandleGated
  <2> QED BY <1>2, <2>1
<1>5. EncodeFrames(frames, depth, Rows, pileup) = FlattenSeq(<<bytes>>)
  <2>1. [k \in DOMAIN frames |-> EncodeOne(frames[k], depth, Rows, pileup)] = <<bytes>>
    <3> HIDE DEF frame
    <3>1. DOMAIN frames = 1..1 /\ frames[1] = frame
      OBVIOUS
    <3> HIDE DEF frames
    <3>2. [k \in DOMAIN frames |-> EncodeOne(frames[k], depth, Rows, pileup)]
            = [k \in 1..1 |-> bytes]
      BY <3>1
    <3> HIDE DEF bytes
    <3>3. [k \in 1..1 |-> bytes] = <<bytes>>
      OBVIOUS
    <3> QED BY <3>2, <3>3
  <2> QED BY <2>1 DEF EncodeFrames
<1> HIDE DEF bytes
<1> QED BY <1>3, <1>4, <1>5, FlattenOne

-----------------------------------------------------------------------------
(* What a step does to its run.                                             *)

(* Nothing that was given with the request; a run that fails says why; only *)
(* a run that is logged comes to an answer; a gated dark measurement leaves *)
(* the camera with a step at least, unless it has failed.                   *)
StepFits(r, fields) ==
  /\ DOMAIN fields \subseteq AllKeys \ Given
  /\ runs[r].pc # "over"
  /\ "pc" \in DOMAIN fields =>
       /\ fields.pc \in PCs
       /\ fields.pc = "answer" => Logged(runs[r]) /\ "status" \notin DOMAIN fields
       /\ fields.pc = "make" => "folder" \in DOMAIN fields
       /\ IsGatedReference(runs[r]) /\ runs[r].pc = "io" /\ fields.pc \notin {"io", "over"} =>
            "status" \in DOMAIN fields \/ EffectiveSteps(runs[r].params) >= 1
  /\ "status" \in DOMAIN fields => fields.status \in Ends /\ "pc" \in DOMAIN fields
  /\ "made" \in DOMAIN fields => Make(r)
  /\ "folder" \in DOMAIN fields => List(r)
  /\ "shown" \in DOMAIN fields => WriteSidecar(r)

Went(r) == \E fields : Goes(r, fields) /\ StepFits(r, fields)

(* Fields that say nothing of a folder.                                     *)
LEMMA WentPlainly ==
  ASSUME NEW r, NEW fields, Goes(r, fields), runs[r].pc # "over",
         DOMAIN fields \subseteq AllKeys \ (Given \cup {"made", "folder", "shown"}),
         "pc" \in DOMAIN fields => fields.pc \in PCs \ {"answer", "make"},
         "status" \in DOMAIN fields => fields.status \in Ends /\ "pc" \in DOMAIN fields,
         IsGatedReference(runs[r]) /\ runs[r].pc = "io" /\ "pc" \in DOMAIN fields
           /\ fields.pc \notin {"io", "over"} =>
             "status" \in DOMAIN fields \/ EffectiveSteps(runs[r].params) >= 1
  PROVE  Went(r)
<1>1. StepFits(r, fields)
  BY DEF StepFits
<1> QED BY <1>1 DEF Went

(* A run that fails is finished.                                            *)
LEMMA WentWrong ==
  ASSUME NEW r, NEW status \in Ends, runs[r].pc # "over", Fail(r, status) \/ Broken(r, status)
  PROVE  Went(r)
<1> DEFINE fields == [pc |-> "finish", status |-> status]
<1>1. Goes(r, fields)
  BY DEF Fail, Broken, Advance
<1>2. DOMAIN fields = {"pc", "status"} /\ fields.pc = "finish" /\ fields.status = status
  OBVIOUS
<1> HIDE DEF fields
<1>3. DOMAIN fields \subseteq AllKeys \ (Given \cup {"made", "folder", "shown"})
  BY <1>2 DEF AllKeys, Given
<1> QED BY <1>1, <1>2, <1>3, WentPlainly DEF PCs, Underway, Saving

(* What the camera sent is taken, or the run fails.                         *)
LEMMA WentOn ==
  ASSUME NEW r, runs[r].pc = "io", NEW data, NEW frames, NEW fields,
         Received(r, data, frames, fields),
         DOMAIN fields \subseteq {"wire", "stack", "done", "pc"},
         fields.pc \in {"correct", "boundary"},
         IsGatedReference(runs[r])
           /\ Len(data) = frames * BytesPerFrame(runs[r].params.depth, runs[r].params.width,
                                                 runs[r].params.pileup) =>
             EffectiveSteps(runs[r].params) >= 1
  PROVE  Went(r)
<1>1. CASE Fail(r, "error")
  BY <1>1, WentWrong DEF Ends
<1>2. CASE /\ Advance(r, fields)
           /\ Len(data) = frames * BytesPerFrame(runs[r].params.depth, runs[r].params.width,
                                                 runs[r].params.pileup)
  <2>1. Goes(r, fields)
    BY <1>2 DEF Advance
  <2>2. DOMAIN fields \subseteq AllKeys \ (Given \cup {"made", "folder", "shown"})
    BY DEF AllKeys, Given
  <2>3. IsGatedReference(runs[r]) => EffectiveSteps(runs[r].params) >= 1
    BY <1>2
  <2>4. "status" \notin DOMAIN fields
    OBVIOUS
  <2> QED BY <2>1, <2>2, <2>3, <2>4, WentPlainly DEF PCs, Underway
<1> QED BY <1>1, <1>2 DEF Received

(* A sweep without steps is not what was asked for.                         *)
LEMMA SweepHasSteps ==
  ASSUME NEW r, NEW p, ReferenceParams(p), NEW list,
         LET data == HandleGated(r, GatedCommand(p, EffectiveSteps(p), p.offset, p.dir,
                                                 p.arbitrary # <<>>), p.pileup, list)
         IN  Len(data) = p.iterations * EffectiveSteps(p) * BytesPerFrame(p.depth, p.width, p.pileup)
  PROVE  EffectiveSteps(p) >= 1
<1> DEFINE cmd == GatedCommand(p, EffectiveSteps(p), p.offset, p.dir, p.arbitrary # <<>>)
           bytes == BytesPerFrame(p.depth, p.width, p.pileup)
           steps == EffectiveSteps(p)
           n == p.iterations
<1>1. cmd.depth = p.depth /\ cmd.iterations = n /\ cmd.steps = steps
  BY DEF GatedCommand
<1>2. steps \in Int /\ n \in Nat \ {0} /\ p.depth \in GatedBitDepths
  BY DEF EffectiveSteps, ReferenceParams
<1>3. bytes \in Nat
  <2>1. p.width = Rows /\ p.depth # 1
    BY DEF ReferenceParams, GatedBitDepths
  <2>2. bytes = Rows * Rows \/ bytes = Rows * Rows * 2
    BY <2>1 DEF BytesPerFrame
  <2> HIDE DEF bytes
  <2> QED BY <2>2, PayloadAssumption
<1>4. SUFFICES ASSUME ~(steps >= 1) PROVE FALSE
  OBVIOUS
<1>5. Len(HandleGated(r, cmd, p.pileup, list)) = n * steps * bytes
  OBVIOUS
<1> HIDE DEF cmd, bytes, steps, n
<1>6. n * steps < 1
  <2>1. ASSUME NEW a \in Nat, NEW b \in Int, b <= 0 PROVE a * b <= 0
    BY <2>1
  <2> QED BY <1>2, <1>4, <2>1
<1>7. Len(HandleGated(r, cmd, p.pileup, list)) >= 1
  BY <1>1, <1>2, <1>6, OneFrameAtLeast
<1>8. n * steps * bytes <= 0
  <2>1. ASSUME NEW a \in Int, NEW b \in Nat, a < 1 PROVE a * b <= 0
    BY <2>1
  <2>2. n * steps \in Int
    BY <1>2
  <2> QED BY <1>3, <1>6, <2>1, <2>2
<1>9. n * steps * bytes \in Int
  BY <1>2, <1>3
<1> QED BY <1>5, <1>7, <1>8, <1>9

(* A dark measurement with gates is asked for with sane numbers.            *)
ReferencesSane == \A r \in DOMAIN runs : IsGatedReference(runs[r]) => ReferenceParams(runs[r].params)

(* Taking the data.                                                         *)
LEMMA TakingWent ==
  ASSUME ReferencesSane, NEW r \in DOMAIN runs,
         \/ IntensityExchange(r) \/ GatedExchange(r) \/ PacedExchange(r)
         \/ FlimExchange(r) \/ ExchangeFails(r) \/ Boundary(r) \/ Correct(r)
  PROVE  Went(r)
<1> DEFINE p == runs[r].params
<1>1. CASE IntensityExchange(r)
  <2>1. PICK data, n, wire, done, pc :
          /\ Received(r, data, n, [wire |-> wire, done |-> done, pc |-> pc])
          /\ pc \in {"correct", "boundary"}
    BY <1>1 DEF IntensityExchange
  <2>2. runs[r].pc = "io" /\ ~IsGatedReference(runs[r])
    BY <1>1 DEF IntensityExchange, IsGatedReference
  <2> QED BY <2>1, <2>2, WentOn
<1>2. CASE GatedExchange(r)
  <2> DEFINE data == HandleGated(r, GatedCommand(p, EffectiveSteps(p), p.offset, p.dir,
                                                 p.arbitrary # <<>>), p.pileup, p.arbitrary)
  <2>1. Received(r, data, p.iterations * EffectiveSteps(p),
                 [wire |-> data, done |-> EffectiveSteps(p), pc |-> "correct"])
    BY <1>2 DEF GatedExchange
  <2>2. runs[r].pc = "io"
    BY <1>2 DEF GatedExchange
  <2>3. IsGatedReference(runs[r])
          /\ Len(data) = p.iterations * EffectiveSteps(p) * BytesPerFrame(p.depth, p.width, p.pileup) =>
            EffectiveSteps(p) >= 1
    BY SweepHasSteps DEF ReferencesSane
  <2> HIDE DEF data
  <2> QED BY <2>1, <2>2, <2>3, WentOn
<1>3. CASE PacedExchange(r)
  <2>1. runs[r].pc = "io"
    BY <1>3 DEF PacedExchange
  <2>2. CASE Offsets(p) = <<>>
    <3>1. Fail(r, "aborted")
      BY <1>3, <2>2 DEF PacedExchange
    <3> QED BY <2>1, <3>1, WentWrong DEF Ends
  <2>3. CASE Offsets(p) # <<>>
    <3>1. PICK data, stack, done, pc :
            /\ Received(r, data, p.iterations, [stack |-> stack, done |-> done, pc |-> pc])
            /\ pc \in {"correct", "boundary"}
      BY <1>3, <2>3 DEF PacedExchange
    <3>2. IsGatedReference(runs[r]) => EffectiveSteps(p) >= 1
      <4> SUFFICES ASSUME IsGatedReference(runs[r]) PROVE EffectiveSteps(p) >= 1
        OBVIOUS
      <4>1. p.arbitrary \in Seq(Int) /\ p.steps \in Int
        BY DEF ReferencesSane, ReferenceParams
      <4>2. CASE p.arbitrary # <<>>
        BY <4>1, <4>2 DEF EffectiveSteps
      <4>3. CASE p.arbitrary = <<>>
        <5>1. p.steps < 1 => Offsets(p) = <<>>
          BY <4>1, <4>3 DEF Offsets
        <5> QED BY <2>3, <4>1, <4>3, <5>1 DEF EffectiveSteps
      <4> QED BY <4>2, <4>3
    <3> QED BY <2>1, <3>1, <3>2, WentOn
  <2> QED BY <2>2, <2>3
<1>4. CASE FlimExchange(r)
  <2>1. PICK done : Advance(r, [pc |-> "finish", done |-> done])
    BY <1>4 DEF FlimExchange
  <2> DEFINE fields == [pc |-> "finish", done |-> done]
  <2>2. Goes(r, fields)
    BY <2>1 DEF Advance
  <2>3. DOMAIN fields = {"pc", "done"} /\ fields.pc = "finish"
    OBVIOUS
  <2>4. runs[r].pc = "io" /\ ~IsGatedReference(runs[r])
    BY <1>4 DEF FlimExchange, IsGatedReference
  <2> HIDE DEF fields
  <2>5. DOMAIN fields \subseteq AllKeys \ (Given \cup {"made", "folder", "shown"})
    BY <2>3 DEF AllKeys, Given
  <2> QED BY <2>2, <2>3, <2>4, <2>5, WentPlainly DEF PCs, Underway
<1>5. CASE ExchangeFails(r)
  BY <1>5, WentWrong DEF ExchangeFails, Ends
<1>6. CASE Boundary(r)
  <2>1. runs[r].pc = "boundary"
    BY <1>6 DEF Boundary
  <2>2. PICK fields : /\ Advance(r, fields)
                      /\ \/ fields = [pc |-> "correct", status |-> "aborted"]
                         \/ \E pc \in {"io", "correct"} : fields = [pc |-> pc]
    BY <1>6 DEF Boundary
  <2>3. /\ DOMAIN fields \subseteq {"pc", "status"} /\ "pc" \in DOMAIN fields
        /\ fields.pc \in {"io", "correct"}
        /\ "status" \in DOMAIN fields => fields.status = "aborted"
    BY <2>2
  <2>4. Goes(r, fields)
    BY <2>2 DEF Advance
  <2>5. DOMAIN fields \subseteq AllKeys \ (Given \cup {"made", "folder", "shown"})
    BY <2>3 DEF AllKeys, Given
  <2> QED BY <2>1, <2>3, <2>4, <2>5, WentPlainly DEF PCs, Underway, Ends
<1>7. CASE Correct(r)
  <2>1. runs[r].pc = "correct"
    BY <1>7 DEF Correct
  <2>2. CASE Fail(r, "uncorrectable")
    BY <2>1, <2>2, WentWrong DEF Ends
  <2>3. CASE \E pc, stack, reference, view :
               /\ Advance(r, [pc |-> pc, wire |-> <<>>, stack |-> stack,
                              reference |-> reference, view |-> view])
               /\ pc \in {"finish", "list"}
    <3>1. PICK fields : /\ Advance(r, fields)
                        /\ DOMAIN fields = {"pc", "wire", "stack", "reference", "view"}
                        /\ fields.pc \in {"finish", "list"}
      BY <2>3
    <3>2. Goes(r, fields)
      BY <3>1 DEF Advance
    <3>3. DOMAIN fields \subseteq AllKeys \ (Given \cup {"made", "folder", "shown"})
      BY <3>1 DEF AllKeys, Given
    <3> QED BY <2>1, <3>1, <3>2, <3>3, WentPlainly DEF PCs, Underway, Saving
  <2> QED BY <1>7, <2>2, <2>3 DEF Correct
<1> QED
  BY <1>1, <1>2, <1>3, <1>4, <1>5, <1>6, <1>7

(* Saving it.                                                               *)
LEMMA SavingWent ==
  ASSUME NEW r \in DOMAIN runs,
         \/ List(r) \/ Make(r) \/ WriteFrame(r) \/ WriteSidecar(r) \/ Reduce(r)
         \/ SaveFails(r)
  PROVE  Went(r)
<1>1. CASE List(r)
  <2>1. PICK folder : Advance(r, [pc |-> "make", folder |-> folder])
    BY <1>1 DEF List
  <2> DEFINE fields == [pc |-> "make", folder |-> folder]
  <2>2. Goes(r, fields) /\ runs[r].pc = "list"
    BY <1>1, <2>1 DEF Advance, List
  <2>3. DOMAIN fields = {"pc", "folder"} /\ fields.pc = "make"
    OBVIOUS
  <2> HIDE DEF fields
  <2>4. StepFits(r, fields)
    BY <1>1, <2>2, <2>3 DEF StepFits, AllKeys, Given, PCs, Underway, Saving
  <2> QED BY <2>2, <2>4 DEF Went
<1>2. CASE Make(r)
  <2> DEFINE fields == [pc |-> "frames", made |-> TRUE]
  <2>1. Goes(r, fields) /\ runs[r].pc = "make"
    BY <1>2 DEF Make, Writes
  <2>2. DOMAIN fields = {"pc", "made"} /\ fields.pc = "frames"
    OBVIOUS
  <2> HIDE DEF fields
  <2>3. StepFits(r, fields)
    BY <1>2, <2>1, <2>2 DEF StepFits, AllKeys, Given, PCs, Underway, Saving
  <2> QED BY <2>1, <2>3 DEF Went
<1>3. CASE WriteFrame(r)
  <2>1. PICK content, k, pc :
          Writes(r, content, [written |-> k, pc |-> pc]) /\ pc \in {"frames", "sidecar"}
    BY <1>3 DEF WriteFrame
  <2> DEFINE fields == [written |-> k, pc |-> pc]
  <2>2. Goes(r, fields) /\ runs[r].pc = "frames"
    BY <1>3, <2>1 DEF Writes, WriteFrame
  <2>3. DOMAIN fields = {"written", "pc"} /\ fields.pc \in {"frames", "sidecar"}
    BY <2>1
  <2> HIDE DEF fields
  <2>4. DOMAIN fields \subseteq AllKeys \ (Given \cup {"made", "folder", "shown"})
    BY <2>3 DEF AllKeys, Given
  <2> QED BY <2>2, <2>3, <2>4, WentPlainly DEF PCs, Underway, Saving
<1>4. CASE WriteSidecar(r)
  <2>1. PICK content, shown, pc :
          Writes(r, content, [shown |-> shown, pc |-> pc]) /\ pc \in {"reduce", "finish"}
    BY <1>4 DEF WriteSidecar
  <2> DEFINE fields == [shown |-> shown, pc |-> pc]
  <2>2. Goes(r, fields) /\ runs[r].pc = "sidecar"
    BY <1>4, <2>1 DEF Writes, WriteSidecar
  <2>3. DOMAIN fields = {"shown", "pc"} /\ fields.pc \in {"reduce", "finish"}
    BY <2>1
  <2> HIDE DEF fields
  <2>4. StepFits(r, fields)
    BY <1>4, <2>2, <2>3 DEF StepFits, AllKeys, Given, PCs, Underway, Saving
  <2> QED BY <2>2, <2>4 DEF Went
<1>5. CASE Reduce(r)
  <2>1. PICK content : Writes(r, content, [pc |-> "finish"])
    BY <1>5 DEF Reduce
  <2> DEFINE fields == [pc |-> "finish"]
  <2>2. Goes(r, fields) /\ runs[r].pc = "reduce"
    BY <1>5, <2>1 DEF Writes, Reduce
  <2>3. DOMAIN fields = {"pc"} /\ fields.pc = "finish"
    OBVIOUS
  <2> HIDE DEF fields
  <2>4. DOMAIN fields \subseteq AllKeys \ (Given \cup {"made", "folder", "shown"})
    BY <2>3 DEF AllKeys, Given
  <2> QED BY <2>2, <2>3, <2>4, WentPlainly DEF PCs, Underway
<1>6. CASE SaveFails(r)
  BY <1>6, WentWrong DEF SaveFails, Saving, Ends
<1> QED
  BY <1>1, <1>2, <1>3, <1>4, <1>5, <1>6

(* Ending it.                                                               *)
LEMMA EndingWent ==
  ASSUME NEW r \in DOMAIN runs,
         GraceExpires(r) \/ Finish(r) \/ Answer(r) \/ CalibrationEnds(r)
  PROVE  Went(r)
<1>1. ASSUME NEW fields, Goes(r, fields), runs[r].pc # "over",
             \/ fields = Over
             \/ fields = With(Over, [status |-> "error"])
      PROVE  Went(r)
  <2>1. DOMAIN fields = DOMAIN Over \/ DOMAIN fields = DOMAIN Over \cup {"status"}
    BY <1>1, WithDomain
  <2>2. fields["pc"] = "over" /\ "pc" \in DOMAIN fields
    BY <1>1, <2>1, WithOld DEF Over
  <2>3. "status" \in DOMAIN fields => fields["status"] = "error"
    <3>1. With(Over, [status |-> "error"])["status"] = "error"
      BY WithNew
    <3> QED BY <1>1, <3>1 DEF Over
  <2>4. DOMAIN fields \subseteq AllKeys \ (Given \cup {"made", "folder", "shown"})
    BY <2>1 DEF AllKeys, Given, Over
  <2> QED BY <1>1, <2>2, <2>3, <2>4, WentPlainly DEF PCs, Ends
<1>2. CASE GraceExpires(r)
  <2> DEFINE fields == [told |-> TRUE]
  <2>1. Goes(r, fields) /\ runs[r].pc # "over"
    BY <1>2 DEF GraceExpires, Underway, Saving
  <2>2. DOMAIN fields = {"told"}
    OBVIOUS
  <2> HIDE DEF fields
  <2>3. DOMAIN fields \subseteq AllKeys \ (Given \cup {"made", "folder", "shown"})
    BY <2>2 DEF AllKeys, Given
  <2> QED BY <2>1, <2>2, <2>3, WentPlainly
<1>3. CASE Finish(r)
  <2>1. runs[r].pc = "finish"
    BY <1>3 DEF Finish
  <2>2. CASE Goes(r, Over)
    BY <1>1, <2>1, <2>2
  <2>3. CASE Goes(r, [pc |-> "answer"]) /\ Logged(runs[r])
    <3> DEFINE fields == [pc |-> "answer"]
    <3>1. DOMAIN fields = {"pc"} /\ fields.pc = "answer"
      OBVIOUS
    <3> HIDE DEF fields
    <3>2. StepFits(r, fields)
      BY <2>1, <2>3, <3>1 DEF StepFits, AllKeys, Given, PCs
    <3>3. Goes(r, fields)
      BY <2>3 DEF fields
    <3> QED BY <3>2, <3>3 DEF Went
  <2> QED BY <1>3, <2>2, <2>3 DEF Finish
<1>4. CASE Answer(r)
  BY <1>1, <1>4 DEF Answer
<1>5. CASE CalibrationEnds(r)
  BY <1>1, <1>5 DEF CalibrationEnds
<1> QED
  BY <1>2, <1>3, <1>4, <1>5

(* Every step of a run.                                                     *)
LEMMA StepWent == ASSUME ReferencesSane, NEW r \in DOMAIN runs, Step(r) PROVE Went(r)
BY TakingWent, SavingWent, EndingWent DEF Step

-----------------------------------------------------------------------------
(* The invariant of the runs and the log.                                   *)

LogKeys == {"mode", "params", "path", "run", "state"}
Repeatable == {"intensity", "gated"}

(* No request names two integration times that differ: the intensity route  *)
(* prefers the one, a rerun the other.                                      *)
OneTime ==
  \A b \in IntensityBodies :
    LET body == IntensityBody(b)
    IN  {"integration_time", "integration_time_ms"} \subseteq DOMAIN body =>
          body.integration_time = body.integration_time_ms

(* A dark measurement with gates has left the camera with a step at least.  *)
StepsKnown(run) ==
  IsGatedReference(run) /\ run.status = "done" /\ run.pc \notin {"io", "over"} =>
    EffectiveSteps(run.params) >= 1

RunFits(r) ==
  LET run == runs[r]
  IN  /\ run.via \in Vias /\ run.status \in Ends \cup {"done"} /\ run.pc \in PCs
      /\ run.beside \subseteq 1..(r - 1)
      /\ run.via \in {"rerun", "schedule"} => run.entry \in DOMAIN log
      /\ run.via = "schedule" => log[run.entry].run = r
      /\ run.via = "rerun" => run.params = ParamsOf(log[run.entry].mode, run.body)
      /\ OneTime /\ run.via # "live" /\ run.mode \in Repeatable =>
           Essence(run.params) = Essence(ParamsOf(run.mode, run.body))
      /\ IsGatedReference(run) => ReferenceParams(run.params)
      /\ StepsKnown(run)
      /\ run.pc = "answer" => run.via # "live" /\ (run.via = "reference" => run.status = "done")

EntryFits(e) ==
  LET entry == log[e]
  IN  /\ DOMAIN entry = LogKeys
      /\ \/ entry.run \in DOMAIN runs
         \/ entry.run = 0 /\ entry.state \in {"scheduled", "failed", "completed"}
      /\ OneTime /\ entry.run # 0 /\ entry.mode \in Repeatable =>
           Essence(runs[entry.run].params) = Essence(ParamsOf(entry.mode, entry.params))

(* A job that waits has an entry that knows of no run.                      *)
JobFits(e) == e \in DOMAIN log /\ log[e].state = "scheduled" /\ log[e].run = 0

RefsFit == IsSeq(refs) /\ \A d \in DOMAIN refs : Len(refs[d].reference) > 0

LogInv ==
  /\ RunsFull /\ Len(runs) <= MaxRuns
  /\ IsSeq(log)
  /\ \A r \in DOMAIN runs : RunFits(r)
  /\ \A e \in DOMAIN log : EntryFits(e)
  /\ \A e \in jobs : JobFits(e)

-----------------------------------------------------------------------------
(* What a step of a run does to the log: nothing, a new entry of the run,   *)
(* or a change to the entry of its job.                                     *)

LogStep(r) ==
  \/ log' = log
  \/ /\ runs[r].via \notin {"live", "schedule"}
     /\ \E path : log' = Append(log, Entry(r, path))
  \/ /\ runs[r].via = "schedule"
     /\ \E path, state :
          log' = [log EXCEPT ![runs[r].entry] = [log[runs[r].entry] EXCEPT !.path = path, !.state = state]]

(* The entries there are keep what they are about.                          *)
LogKept ==
  /\ IsSeq(log') /\ DOMAIN log \subseteq DOMAIN log'
  /\ \A e \in DOMAIN log :
       /\ DOMAIN log'[e] = LogKeys
       /\ log'[e].mode = log[e].mode /\ log'[e].params = log[e].params /\ log'[e].run = log[e].run

(* See LogStep.                                                             *)
LEMMA StepLog == ASSUME LogInv, NEW r \in DOMAIN runs, Step(r) PROVE LogStep(r) /\ jobs' = jobs
<1>0. ASSUME Impatient(runs[r]), log' = LogOfRunning(r) PROVE LogStep(r)
  <2> DEFINE e == runs[r].entry
  <2>1. runs[r].via \in {"route", "rerun", "schedule"}
    BY <1>0 DEF Impatient
  <2>2. CASE runs[r].via = "schedule"
    <3>1. e \in DOMAIN log /\ DOMAIN log[e] = LogKeys
      BY <2>2 DEF LogInv, RunFits, EntryFits
    <3>2. log' = [log EXCEPT ![e] = [log[e] EXCEPT !.state = "completed"]]
      BY <1>0, <2>2 DEF LogOfRunning
    <3>3. [log[e] EXCEPT !.state = "completed"]
            = [log[e] EXCEPT !.path = log[e].path, !.state = "completed"]
      BY <3>1 DEF LogKeys
    <3> QED BY <2>2, <3>2, <3>3 DEF LogStep
  <2>3. CASE runs[r].via # "schedule"
    BY <1>0, <2>1, <2>3 DEF LogOfRunning, LogStep
  <2> QED BY <2>2, <2>3
<1>1. CASE Answer(r)
  <2>1. runs[r].via # "live"
    BY <1>1 DEF Answer, LogInv, RunFits
  <2>2. /\ log' = LogWith(r, runs[r].shown) \/ (Impatient(runs[r]) /\ log' = LogOfRunning(r))
        /\ jobs' = jobs
    BY <1>1 DEF Answer
  <2>3. CASE log' = LogWith(r, runs[r].shown) /\ runs[r].via # "schedule"
    BY <2>1, <2>2, <2>3 DEF LogStep, LogWith
  <2>4. CASE log' = LogWith(r, runs[r].shown) /\ runs[r].via = "schedule"
    <3> DEFINE e == runs[r].entry
               path == IF runs[r].status = "raised" THEN log[e].path ELSE runs[r].shown
    <3>1. PICK state : log' = [log EXCEPT ![e].path = path, ![e].state = state]
      BY <2>4 DEF LogWith
    <3>2. log' = [log EXCEPT ![e] = [log[e] EXCEPT !.path = path, !.state = state]]
      BY <3>1
    <3> HIDE DEF path
    <3> QED BY <2>2, <2>4, <3>2 DEF LogStep
  <2> QED BY <1>0, <2>2, <2>3, <2>4
<1>2. CASE GraceExpires(r)
  <2>1. Impatient(runs[r]) /\ log' = LogOfRunning(r) /\ jobs' = jobs
    BY <1>2 DEF GraceExpires
  <2> QED BY <1>0, <2>1
<1>3. (log' = log /\ jobs' = jobs) \/ Answer(r) \/ GraceExpires(r)
  <2>1. ASSUME NEW data, NEW frames, NEW fields, Received(r, data, frames, fields)
        PROVE  log' = log /\ jobs' = jobs
    BY <2>1 DEF Received, Advance, Fail, disk
  <2>2. CASE IntensityExchange(r) \/ GatedExchange(r) \/ PacedExchange(r)
    BY <2>1, <2>2 DEF IntensityExchange, GatedExchange, PacedExchange, Fail, Advance, disk
  <2>3. CASE FlimExchange(r) \/ CalibrationEnds(r) \/ ExchangeFails(r) \/ Boundary(r) \/ Correct(r)
    BY <2>3 DEF FlimExchange, CalibrationEnds, ExchangeFails, Boundary, Correct, Broken, Fail,
                Advance, disk
  <2>4. CASE List(r) \/ Make(r) \/ WriteFrame(r) \/ WriteSidecar(r) \/ Reduce(r) \/ SaveFails(r)
    BY <2>4 DEF List, Make, WriteFrame, WriteSidecar, Reduce, SaveFails, Broken, Writes, Advance, disk
  <2>5. CASE Finish(r)
    BY <2>5 DEF Finish, disk
  <2> QED BY <2>2, <2>3, <2>4, <2>5 DEF Step
<1> QED BY <1>1, <1>2, <1>3 DEF LogStep

(* What that comes to.                                                      *)
LEMMA LoggedStep ==
  ASSUME LogInv, NEW r \in DOMAIN runs, LogStep(r)
  PROVE  /\ LogKept
         /\ \A e \in DOMAIN log : log[e].run # r => log'[e] = log[e]
         /\ \A e \in DOMAIN log' \ DOMAIN log :
              /\ DOMAIN log'[e] = LogKeys /\ log'[e].run = r
              /\ log'[e].mode = runs[r].mode /\ log'[e].params = runs[r].body
              /\ runs[r].via # "live"
<1> USE DEF LogInv
<1>1. CASE log' = log
  BY <1>1 DEF LogKept, EntryFits
<1>2. ASSUME runs[r].via # "live", NEW path, log' = Append(log, Entry(r, path))
      PROVE  /\ LogKept
             /\ \A e \in DOMAIN log : log'[e] = log[e]
             /\ \A e \in DOMAIN log' \ DOMAIN log : log'[e] = Entry(r, path)
  BY <1>2, SeqAppend DEF LogKept, EntryFits
<1>3. ASSUME NEW path
      PROVE  /\ DOMAIN Entry(r, path) = LogKeys /\ Entry(r, path).run = r
             /\ Entry(r, path).mode = runs[r].mode /\ Entry(r, path).params = runs[r].body
  BY DEF Entry, LogKeys
<1>4. ASSUME runs[r].via = "schedule", NEW path, NEW state,
             log' = [log EXCEPT ![runs[r].entry] =
                       [log[runs[r].entry] EXCEPT !.path = path, !.state = state]]
      PROVE  LogKept /\ DOMAIN log' = DOMAIN log /\ \A e \in DOMAIN log : log[e].run # r => log'[e] = log[e]
  <2> DEFINE e == runs[r].entry
             new == [log[e] EXCEPT !.path = path, !.state = state]
  <2>1. e \in DOMAIN log /\ log[e].run = r
    BY <1>4 DEF RunFits
  <2>2. DOMAIN log[e] = LogKeys
    BY <2>1 DEF EntryFits
  <2>3. DOMAIN new = LogKeys /\ new.mode = log[e].mode /\ new.params = log[e].params
          /\ new.run = log[e].run
    BY <2>2 DEF LogKeys
  <2> HIDE DEF new
  <2>4. IsSeq(log') /\ DOMAIN log' = DOMAIN log
    BY <1>4, <2>1, SeqSame DEF new
  <2>5. log'[e] = new /\ \A f \in DOMAIN log \ {e} : log'[f] = log[f]
    BY <1>4, <2>1 DEF new
  <2> QED BY <2>1, <2>3, <2>4, <2>5 DEF LogKept, EntryFits
<1> QED BY <1>1, <1>2, <1>3, <1>4 DEF LogStep

-----------------------------------------------------------------------------
(* The steps of a run keep the invariant.                                   *)

(* The run itself, whatever is logged of it.                                *)
LEMMA StepRunFits ==
  ASSUME LogInv, NEW r \in DOMAIN runs, NEW fields, Goes(r, fields), StepFits(r, fields), LogKept
  PROVE  RunsFull' /\ DOMAIN runs' = DOMAIN runs /\ \A s \in DOMAIN runs : RunFits(s)'
<1>1. /\ IsSeq(runs') /\ DOMAIN runs' = DOMAIN runs
      /\ \A s \in DOMAIN runs \ {r} : runs'[s] = runs[s]
      /\ DOMAIN runs'[r] = AllKeys
      /\ \A k \in DOMAIN fields : runs'[r][k] = fields[k]
      /\ \A k \in AllKeys \ DOMAIN fields : runs'[r][k] = runs[r][k]
  BY GoesOn DEF LogInv, StepFits
<1>2. ASSUME NEW s \in DOMAIN runs \ {r} PROVE RunFits(s)'
  BY <1>1 DEF LogInv, RunFits, LogKept, StepsKnown, IsGatedReference
<1>3. RunFits(r)'
  <2>1. \A k \in Given : runs'[r][k] = runs[r][k]
    BY <1>1 DEF StepFits, Given, AllKeys
  <2>2. /\ runs'[r].via = runs[r].via /\ runs'[r].mode = runs[r].mode
        /\ runs'[r].body = runs[r].body /\ runs'[r].params = runs[r].params
        /\ runs'[r].entry = runs[r].entry /\ runs'[r].beside = runs[r].beside
    <3>1. Given = {"via", "mode", "body", "params", "entry", "beside"}
      BY DEF Given
    <3> QED BY <2>1, <3>1
  <2>3. /\ runs'[r].pc = IF "pc" \in DOMAIN fields THEN fields.pc ELSE runs[r].pc
        /\ runs'[r].status = IF "status" \in DOMAIN fields THEN fields.status ELSE runs[r].status
    BY <1>1 DEF AllKeys
  <2>4. RunFits(r)
    BY DEF LogInv
  <2>5. runs'[r].pc \in PCs /\ runs'[r].status \in Ends \cup {"done"}
    BY <2>3, <2>4 DEF StepFits, RunFits
  <2>6. IsGatedReference(runs'[r]) = IsGatedReference(runs[r])
    BY <2>2 DEF IsGatedReference
  <2>7. StepsKnown(runs'[r])
    <3> SUFFICES ASSUME IsGatedReference(runs[r]), runs'[r].status = "done",
                        runs'[r].pc \notin {"io", "over"}
                 PROVE  EffectiveSteps(runs[r].params) >= 1
      BY <2>2, <2>6 DEF StepsKnown
    <3>1. "status" \notin DOMAIN fields /\ runs[r].status = "done"
      BY <2>3 DEF StepFits, Ends
    <3>2. CASE runs[r].pc = "io"
      BY <2>3, <3>1, <3>2 DEF StepFits
    <3>3. CASE runs[r].pc # "io"
      BY <2>4, <3>1, <3>3 DEF StepFits, RunFits, StepsKnown
    <3> QED BY <3>2, <3>3
  <2>8. runs'[r].pc = "answer" =>
          runs'[r].via # "live" /\ (runs'[r].via = "reference" => runs'[r].status = "done")
    <3>1. CASE "pc" \in DOMAIN fields
      BY <2>2, <2>3, <3>1 DEF StepFits, Logged
    <3>2. CASE "pc" \notin DOMAIN fields /\ "status" \notin DOMAIN fields
      BY <2>2, <2>3, <2>4, <3>2 DEF RunFits
    <3> QED BY <3>1, <3>2 DEF StepFits
  <2> QED BY <2>2, <2>4, <2>5, <2>6, <2>7, <2>8 DEF RunFits, LogKept
<1> QED BY <1>1, <1>2, <1>3 DEF RunsFull, LogInv

(* What is given with a request stays.                                      *)
LEMMA GivenStays ==
  ASSUME RunsFull, NEW r \in DOMAIN runs, NEW fields, Goes(r, fields), StepFits(r, fields)
  PROVE  \A s \in DOMAIN runs : /\ runs'[s].via = runs[s].via /\ runs'[s].mode = runs[s].mode
                               /\ runs'[s].body = runs[s].body
                               /\ runs'[s].params = runs[s].params
                               /\ runs'[s].entry = runs[s].entry
<1>1. \A k \in Given : runs'[r][k] = runs[r][k]
  BY GoesOn DEF StepFits, Given, AllKeys
<1>2. \A s \in DOMAIN runs \ {r} : runs'[s] = runs[s]
  BY GoesOn DEF StepFits
<1>3. {"via", "mode", "body", "params", "entry"} \subseteq Given
  BY DEF Given
<1> QED BY <1>1, <1>2, <1>3

(* Places begin with one.                                                   *)
LEMMA NoneIsZero == ASSUME IsSeq(runs) PROVE 0 \notin DOMAIN runs
BY SeqDomain

(* A step of a run keeps the invariant.                                     *)
LEMMA StepLogInv == ASSUME LogInv, NEW r \in DOMAIN runs, Step(r) PROVE LogInv'
<1>1. ReferencesSane
  BY DEF LogInv, RunFits, ReferencesSane
<1>2. PICK fields : Goes(r, fields) /\ StepFits(r, fields)
  BY <1>1, StepWent DEF Went
<1>3. LogStep(r) /\ jobs' = jobs
  BY StepLog
<1>4. /\ LogKept
      /\ \A e \in DOMAIN log : log[e].run # r => log'[e] = log[e]
      /\ \A e \in DOMAIN log' \ DOMAIN log :
           /\ DOMAIN log'[e] = LogKeys /\ log'[e].run = r
           /\ log'[e].mode = runs[r].mode /\ log'[e].params = runs[r].body
           /\ runs[r].via # "live"
  BY <1>3, LoggedStep
<1>5. RunsFull' /\ DOMAIN runs' = DOMAIN runs /\ \A s \in DOMAIN runs : RunFits(s)'
  BY <1>2, <1>4, StepRunFits
<1>6. \A s \in DOMAIN runs : runs'[s].params = runs[s].params
  BY <1>2, GivenStays DEF LogInv
<1>7. Len(runs') <= MaxRuns
  <2>1. runs' = [runs EXCEPT ![r] = With(runs[r], fields)]
    BY <1>2 DEF Goes
  <2>2. PICK S : runs \in Seq(S)
    BY DEF LogInv, RunsFull, IsSeq
  <2>3. PICK x : runs' = [runs EXCEPT ![r] = x]
    BY <2>1
  <2>4. runs \in Seq(S \cup {x})
    BY <2>2
  <2>5. Len(runs') = Len(runs)
    BY <2>3, <2>4
  <2> QED BY <2>5 DEF LogInv
<1>8. 0 \notin DOMAIN runs
  BY NoneIsZero DEF LogInv, RunsFull
<1>9. ASSUME NEW e \in DOMAIN log' PROVE EntryFits(e)'
  <2>1. CASE e \in DOMAIN log
    <3>1. EntryFits(e)
      BY <2>1 DEF LogInv
    <3>2. log[e].run = r \/ log'[e] = log[e]
      BY <1>4, <2>1
    <3> QED BY <1>4, <1>5, <1>6, <1>8, <2>1, <3>1, <3>2 DEF EntryFits, LogKept
  <2>2. CASE e \notin DOMAIN log
    <3>1. RunFits(r)
      BY DEF LogInv
    <3> QED BY <1>4, <1>5, <1>6, <2>2, <3>1 DEF EntryFits, RunFits
  <2> QED BY <2>1, <2>2
<1>10. ASSUME NEW e \in jobs' PROVE JobFits(e)'
  <2>1. e \in DOMAIN log /\ log[e].state = "scheduled" /\ log[e].run = 0
    BY <1>3 DEF LogInv, JobFits
  <2>2. log'[e] = log[e]
    BY <1>4, <1>8, <2>1
  <2> QED BY <1>4, <2>1, <2>2 DEF JobFits, LogKept
<1> QED BY <1>4, <1>5, <1>7, <1>9, <1>10 DEF LogInv, LogKept

-----------------------------------------------------------------------------
(* Requests.                                                                *)

(* What is asked for is what its entry will say, a dark measurement has     *)
(* sane numbers.                                                            *)
NewFits(via, mode, body, p, entry) ==
  /\ via \in Vias
  /\ via = "rerun" => entry \in DOMAIN log /\ p = ParamsOf(log[entry].mode, body)
  /\ OneTime /\ via # "live" /\ mode \in Repeatable =>
       Essence(p) = Essence(ParamsOf(mode, body))
  /\ via = "reference" /\ p.mode = "gated" => ReferenceParams(p)

(* A new entry of no run.                                                   *)
Noted(new) ==
  /\ log' = Append(log, new)
  /\ DOMAIN new = LogKeys /\ new.run = 0 /\ new.path = NoFolder
  /\ new.state \in {"scheduled", "completed"}
  /\ UNCHANGED <<savePath, runs, folders, refs>>
  /\ jobs' = jobs \/ (new.state = "scheduled" /\ jobs' = jobs \cup {Len(log) + 1})

(* The name, the reducer and (without two times) the time make no other     *)
(* measurement of a body.                                                   *)
LEMMA SameIntensity ==
  ASSUME NEW body,
         {"integration_time", "integration_time_ms"} \subseteq DOMAIN body =>
           body.integration_time = body.integration_time_ms
  PROVE  Essence(IntensityParams(body)) = Essence(IntensityParamsOf(body))
<1> DEFINE p == IntensityParamsOf(body)
           keys == {"mode", "depth", "time", "iterations", "width", "overlap", "pileup", "dark",
                    "name", "reducer"}
           time == Get(body, "integration_time", Get(body, "integration_time_ms", 100))
           name == Get(body, "sample_name", "")
           reducer == body.run_reducer
           q == [p EXCEPT !.time = time, !.name = name, !.reducer = reducer]
<1>1. time = Milliseconds(body)
  BY DEF Milliseconds, Get
<1>2. DOMAIN p = keys /\ p.time = Milliseconds(body)
  BY DEF IntensityParamsOf
<1>3. IntensityParams(body) = q
  BY DEF IntensityParams
<1> HIDE DEF p, time, name, reducer
<1>4. DOMAIN q = keys /\ \A k \in keys \ {"name", "reducer"} : q[k] = p[k]
  BY <1>1, <1>2
<1> HIDE DEF q
<1> QED BY <1>2, <1>3, <1>4 DEF Essence, p

(* See SameIntensity.                                                       *)
LEMMA SameGated ==
  ASSUME NEW body
  PROVE  Essence(GatedParams(body)) = Essence(GatedParamsOf(body))
<1> DEFINE p == GatedParamsOf(body)
           name == Get(body, "sample_name", "")
           reducer == body.run_reducer
           q == [p EXCEPT !.name = name, !.reducer = reducer]
<1>1. GatedParams(body) = q
  BY DEF GatedParams
<1> HIDE DEF p, name, reducer
<1>2. DOMAIN q = DOMAIN p /\ \A k \in DOMAIN p \ {"name", "reducer"} : q[k] = p[k]
  OBVIOUS
<1> HIDE DEF q
<1> QED BY <1>1, <1>2 DEF Essence, p

(* The checks of the route and the defaults see to it.                      *)
LEMMA SaneReference ==
  ASSUME NEW b \in GatedReferenceBodies, GatedReferenceValid(GatedReferenceBody(b))
  PROVE  ReferenceParams(GatedParamsOf(GatedReferenceBody(b)))
<1> DEFINE body == GatedReferenceBody(b)
           p == GatedParamsOf(body)
<1>1. {"iterations", "gate_steps", "bit_depth"} \subseteq DOMAIN body
  <2> DEFINE defaults == [bit_depth |-> 8, iterations |-> 1, gate_steps |-> 10,
                          gate_step_size_ps |-> 18, gate_offset |-> 0, gate_direction |-> "forward",
                          overlap |-> FALSE, pileup_correction |-> FALSE, cooloff_s |-> 0]
  <2>1. {"iterations", "gate_steps", "bit_depth"} \subseteq DOMAIN defaults
    OBVIOUS
  <2>2. body = With(defaults, b)
    BY DEF GatedReferenceBody
  <2> HIDE DEF body, defaults
  <2> QED BY <2>1, <2>2, WithDomain
<1>2. /\ p.iterations = Get(body, "iterations", 1) /\ p.steps = Get(body, "gate_steps", 10)
      /\ p.arbitrary = Arbitrary(body) /\ p.depth = Get(body, "bit_depth", 8) /\ p.width = Rows
  BY DEF GatedParamsOf
<1>3. body.iterations \in Int /\ body.gate_steps \in Int /\ Arbitrary(body) \in Seq(Int)
  BY BodiesAssumption
<1>4. body.iterations >= 1 /\ body.bit_depth \in GatedBitDepths
  BY DEF GatedReferenceValid, GatedValid
<1> HIDE DEF body, p
<1> QED BY <1>1, <1>2, <1>3, <1>4 DEF ReferenceParams, Get, p, body

(* What a request does.                                                     *)
LEMMA RequestEffect ==
  ASSUME Request
  PROVE  \/ \E via, mode, body, p, entry :
               /\ Takes(via, mode, body, p, entry) /\ NewFits(via, mode, body, p, entry)
               /\ via # "schedule" /\ UNCHANGED <<log, jobs>>
         \/ \E new : Noted(new)
<1> DEFINE Takings == \E via, mode, body, p, entry :
                        /\ Takes(via, mode, body, p, entry) /\ NewFits(via, mode, body, p, entry)
                        /\ via # "schedule" /\ UNCHANGED <<log, jobs>>
<1>0. ASSUME NEW via \in {"route", "reference", "rerun", "live", "calibrate"}, NEW mode, NEW body,
             NEW p, NEW entry, Takes(via, mode, body, p, entry), UNCHANGED <<log, jobs>>,
             NewFits(via, mode, body, p, entry)
      PROVE  Takings
  BY <1>0
<1>1. CASE acquire_intensity
  <2>1. PICK b \in IntensityBodies :
          Admit("route", "intensity", IntensityBody(b), IntensityParams(IntensityBody(b)), 0)
    BY <1>1 DEF acquire_intensity
  <2>2. OneTime => Essence(IntensityParams(IntensityBody(b))) = Essence(IntensityParamsOf(IntensityBody(b)))
    BY SameIntensity DEF OneTime
  <2>3. NewFits("route", "intensity", IntensityBody(b), IntensityParams(IntensityBody(b)), 0)
    BY <2>2 DEF NewFits, Vias, ParamsOf
  <2> HIDE DEF Takings
  <2> QED BY <1>0, <2>1, <2>3 DEF Admit
<1>2. CASE acquire_raw_1bit
  <2>1. PICK b : Admit("route", "raw1bit", Raw1BitBody(b), Raw1BitParams(Raw1BitBody(b)), 0)
    BY <1>2 DEF acquire_raw_1bit
  <2>2. NewFits("route", "raw1bit", Raw1BitBody(b), Raw1BitParams(Raw1BitBody(b)), 0)
    BY DEF NewFits, Vias, Repeatable
  <2> HIDE DEF Takings
  <2> QED BY <1>0, <2>1, <2>2 DEF Admit
<1>3. CASE acquire_gated
  <2>1. PICK b : Admit("route", "gated", GatedBody(b), GatedParams(GatedBody(b)), 0)
    BY <1>3 DEF acquire_gated
  <2>2. NewFits("route", "gated", GatedBody(b), GatedParams(GatedBody(b)), 0)
    BY SameGated DEF NewFits, Vias, ParamsOf
  <2> HIDE DEF Takings
  <2> QED BY <1>0, <2>1, <2>2 DEF Admit
<1>4. CASE acquire_flim
  <2>1. PICK b, p : Admit("route", "flim", b, p, 0)
    BY <1>4 DEF acquire_flim
  <2>2. NewFits("route", "flim", b, p, 0)
    BY DEF NewFits, Vias, Repeatable
  <2> HIDE DEF Takings
  <2> QED BY <1>0, <2>1, <2>2 DEF Admit
<1>5. CASE live_frame
  <2>1. PICK body, p : Admit("live", "intensity", body, p, 0)
    BY <1>5 DEF live_frame
  <2>2. NewFits("live", "intensity", body, p, 0)
    BY DEF NewFits, Vias
  <2> HIDE DEF Takings
  <2> QED BY <1>0, <2>1, <2>2 DEF Admit
<1>6. CASE calibrate
  <2>1. PICK kind, body, p : kind \in CalibrationKinds /\ Takes("calibrate", kind, body, p, 0)
    BY <1>6 DEF calibrate
  <2>2. UNCHANGED <<log, jobs>>
    BY <1>6 DEF calibrate
  <2>3. NewFits("calibrate", kind, body, p, 0)
    BY <2>1, MeasurementAssumption DEF NewFits, Vias, Repeatable, CALIBRATION_KINDS
  <2> HIDE DEF Takings
  <2> QED BY <1>0, <2>1, <2>2, <2>3
<1>7. CASE measure_intensity_dark_reference
  <2>1. PICK b : Admit("reference", "intensity_dark_reference", IntensityReferenceBody(b),
                       IntensityParamsOf(IntensityReferenceBody(b)), 0)
    BY <1>7 DEF measure_intensity_dark_reference
  <2> DEFINE p == IntensityParamsOf(IntensityReferenceBody(b))
  <2>2. p.mode # "gated"
    BY DEF IntensityParamsOf
  <2>3. NewFits("reference", "intensity_dark_reference", IntensityReferenceBody(b), p, 0)
    BY <2>2 DEF NewFits, Vias, Repeatable
  <2> HIDE DEF Takings
  <2> QED BY <1>0, <2>1, <2>3 DEF Admit
<1>8. CASE measure_gated_dark_reference
  <2>1. PICK b \in GatedReferenceBodies :
          /\ GatedReferenceValid(GatedReferenceBody(b))
          /\ Admit("reference", "gated_dark_reference", GatedReferenceBody(b),
                   GatedParamsOf(GatedReferenceBody(b)), 0)
    BY <1>8 DEF measure_gated_dark_reference
  <2>2. ReferenceParams(GatedParamsOf(GatedReferenceBody(b)))
    BY <2>1, SaneReference
  <2>3. NewFits("reference", "gated_dark_reference", GatedReferenceBody(b),
                GatedParamsOf(GatedReferenceBody(b)), 0)
    BY <2>2 DEF NewFits, Vias, Repeatable
  <2> HIDE DEF Takings
  <2> QED BY <1>0, <2>1, <2>3 DEF Admit
<1>9. CASE rerun_entry
  <2>1. PICK e, body :
          /\ e \in DOMAIN log
          /\ \/ Admit("rerun", log[e].mode, body, ParamsOf(log[e].mode, body), e)
             \/ /\ log' = Append(log, [mode |-> log[e].mode, params |-> body, path |-> NoFolder,
                                       run |-> 0, state |-> "completed"])
                /\ UNCHANGED <<savePath, runs, folders, refs, jobs>>
    BY <1>9 DEF rerun_entry
  <2>2. NewFits("rerun", log[e].mode, body, ParamsOf(log[e].mode, body), e)
    BY <2>1 DEF NewFits, Vias
  <2>3. CASE Admit("rerun", log[e].mode, body, ParamsOf(log[e].mode, body), e)
    <3> HIDE DEF Takings
    <3> QED BY <1>0, <2>2, <2>3 DEF Admit
  <2>4. CASE /\ log' = Append(log, [mode |-> log[e].mode, params |-> body, path |-> NoFolder,
                                    run |-> 0, state |-> "completed"])
             /\ UNCHANGED <<savePath, runs, folders, refs, jobs>>
    <3> DEFINE new == [mode |-> log[e].mode, params |-> body, path |-> NoFolder,
                       run |-> 0, state |-> "completed"]
    <3>1. DOMAIN new = LogKeys /\ new.run = 0 /\ new.path = NoFolder /\ new.state = "completed"
      BY DEF LogKeys
    <3>2. log' = Append(log, new)
      BY <2>4
    <3> HIDE DEF new
    <3>3. Noted(new)
      BY <2>4, <3>1, <3>2 DEF Noted
    <3> QED BY <3>3
  <2> QED BY <2>1, <2>3, <2>4
<1>10. CASE schedule_job
  <2>1. PICK job : log' = Append(log, ScheduledEntry(job))
    BY <1>10 DEF schedule_job
  <2>2. UNCHANGED <<savePath, runs, folders, refs>> /\ jobs' = jobs \cup {Len(log) + 1}
    BY <1>10 DEF schedule_job
  <2>3. DOMAIN ScheduledEntry(job) = LogKeys /\ ScheduledEntry(job).run = 0
          /\ ScheduledEntry(job).path = NoFolder /\ ScheduledEntry(job).state = "scheduled"
    BY DEF ScheduledEntry, LogKeys
  <2>4. Noted(ScheduledEntry(job))
    BY <2>1, <2>2, <2>3 DEF Noted
  <2> QED BY <2>4
<1> QED
  BY <1>1, <1>2, <1>3, <1>4, <1>5, <1>6, <1>7, <1>8, <1>9, <1>10 DEF Request

(* What an admission does to the log: the entry of a job learns of its run. *)
LogTaken(via, mode, body, p, entry) ==
  \/ via # "schedule" /\ UNCHANGED <<log, jobs>>
  \/ /\ via = "schedule" /\ entry \in jobs
     /\ mode = log[entry].mode /\ body = log[entry].params /\ p = ParamsOf(mode, body)
     /\ log' = [log EXCEPT ![entry] = [log[entry] EXCEPT !.state = "running", !.run = Len(runs) + 1]]
     /\ jobs' = jobs \ {entry}

(* The run that starts.                                                     *)
LEMMA NewRunFields ==
  ASSUME NEW via, NEW mode, NEW body, NEW p, NEW entry
  PROVE  LET new == NewRun(via, mode, body, p, entry)
         IN  /\ DOMAIN new = AllKeys
             /\ new.via = via /\ new.mode = mode /\ new.body = body /\ new.params = p
             /\ new.entry = entry
             /\ new.pc \in {"io", "finish"} /\ new.status \in {"done", "error"}
             /\ new.pc = "finish" => new.status = "error"
             /\ new.beside = {r \in DOMAIN runs : runs[r].pc \in Underway}
             /\ ~new.made /\ new.folder = NoFolder /\ new.shown = NoFolder
BY DEF NewRun, AllKeys

(* It comes behind the others.                                              *)
LEMMA TakesRuns ==
  ASSUME RunsFull, NEW via, NEW mode, NEW body, NEW p, NEW entry, Takes(via, mode, body, p, entry)
  PROVE  LET n == Len(runs) + 1
         IN  /\ RunsFull' /\ Len(runs') <= MaxRuns
             /\ n \in Nat \ {0} /\ n \notin DOMAIN runs /\ DOMAIN runs = 1..(n - 1)
             /\ DOMAIN runs' = DOMAIN runs \cup {n}
             /\ \A r \in DOMAIN runs : runs'[r] = runs[r]
             /\ runs'[n] = NewRun(via, mode, body, p, entry)
<1> DEFINE n == Len(runs) + 1
           new == NewRun(via, mode, body, p, entry)
<1>1. runs' = Append(runs, new) /\ Len(runs) < MaxRuns
  BY DEF Takes
<1>2. DOMAIN new = AllKeys
  BY NewRunFields
<1> HIDE DEF new
<1>3. /\ IsSeq(runs') /\ DOMAIN runs' = DOMAIN runs \cup {n} /\ n \notin DOMAIN runs
      /\ runs'[n] = new /\ \A r \in DOMAIN runs : runs'[r] = runs[r]
  BY <1>1, SeqAppend DEF RunsFull
<1>4. Len(runs) \in Nat /\ DOMAIN runs = 1..Len(runs)
  BY SeqDomain DEF RunsFull
<1>5. Len(runs') <= MaxRuns
  <2>1. PICK S : runs \in Seq(S)
    BY DEF RunsFull, IsSeq
  <2>2. runs \in Seq(S \cup {new})
    BY <2>1
  <2>3. Len(runs') = Len(runs) + 1
    BY <1>1, <2>2
  <2> QED BY <1>1, <1>4, <2>3, MeasurementAssumption
<1> QED BY <1>2, <1>3, <1>4, <1>5 DEF RunsFull, new

(* An admission keeps the invariant.                                        *)
LEMMA TakesLogInv ==
  ASSUME LogInv, NEW via, NEW mode, NEW body, NEW p, NEW entry, Takes(via, mode, body, p, entry),
         NewFits(via, mode, body, p, entry), LogTaken(via, mode, body, p, entry)
  PROVE  LogInv'
<1> DEFINE n == Len(runs) + 1
           new == NewRun(via, mode, body, p, entry)
<1>1. /\ RunsFull' /\ Len(runs') <= MaxRuns
      /\ n \in Nat \ {0} /\ n \notin DOMAIN runs /\ DOMAIN runs = 1..(n - 1)
      /\ DOMAIN runs' = DOMAIN runs \cup {n}
      /\ \A r \in DOMAIN runs : runs'[r] = runs[r]
      /\ runs'[n] = new
  BY TakesRuns DEF LogInv
<1>2. /\ new.via = via /\ new.mode = mode /\ new.body = body /\ new.params = p /\ new.entry = entry
      /\ new.pc \in {"io", "finish"} /\ new.status \in {"done", "error"}
      /\ new.pc = "finish" => new.status = "error"
      /\ new.beside = {r \in DOMAIN runs : runs[r].pc \in Underway}
  BY NewRunFields
<1>log. via = "schedule" => log' = [log EXCEPT ![entry] = [log[entry] EXCEPT !.state = "running", !.run = n]]
  BY DEF LogTaken
<1> HIDE DEF n, new
<1>3. IsSeq(log) /\ 0 \notin DOMAIN runs
  BY NoneIsZero DEF LogInv, RunsFull
<1>4. /\ IsSeq(log') /\ DOMAIN log' = DOMAIN log
      /\ \A e \in DOMAIN log : /\ DOMAIN log'[e] = LogKeys
                              /\ log'[e].mode = log[e].mode /\ log'[e].params = log[e].params
                              /\ (log'[e] = log[e] \/ (via = "schedule" /\ e = entry))
      /\ via = "schedule" => /\ entry \in DOMAIN log /\ log[entry].run = 0 /\ log'[entry].run = n
                             /\ mode = log[entry].mode /\ body = log[entry].params
                             /\ p = ParamsOf(mode, body)
      /\ jobs' \subseteq jobs /\ (via = "schedule" => entry \notin jobs')
  <2>1. CASE via # "schedule"
    BY <1>3, <2>1 DEF LogTaken, LogInv, EntryFits
  <2>2. CASE via = "schedule"
    <3> DEFINE after == [log[entry] EXCEPT !.state = "running", !.run = n]
    <3>1. entry \in DOMAIN log /\ log[entry].run = 0 /\ DOMAIN log[entry] = LogKeys
      BY <2>2 DEF LogTaken, LogInv, JobFits, EntryFits
    <3>2. /\ DOMAIN after = LogKeys /\ after.mode = log[entry].mode
          /\ after.params = log[entry].params /\ after.run = n
      BY <3>1 DEF LogKeys
    <3> HIDE DEF after
    <3>3. log' = [log EXCEPT ![entry] = after]
      BY <1>log, <2>2 DEF after
    <3>4. IsSeq(log') /\ DOMAIN log' = DOMAIN log
      BY <1>3, <3>1, <3>3, SeqSame
    <3>5. log'[entry] = after /\ \A e \in DOMAIN log \ {entry} : log'[e] = log[e]
      BY <3>1, <3>3
    <3> QED BY <2>2, <3>1, <3>2, <3>4, <3>5 DEF LogTaken, LogInv, EntryFits
  <2> QED BY <2>1, <2>2
<1>5. ASSUME NEW r \in DOMAIN runs' PROVE RunFits(r)'
  <2>1. CASE r \in DOMAIN runs
    <3>1. RunFits(r) /\ runs'[r] = runs[r]
      BY <1>1, <2>1 DEF LogInv
    <3>2. runs[r].via = "schedule" => log'[runs[r].entry] = log[runs[r].entry]
      BY <1>3, <1>4, <2>1, <3>1 DEF RunFits
    <3> QED BY <1>4, <2>1, <3>1, <3>2 DEF RunFits
  <2>2. CASE r = n
    <3>1. new.beside \subseteq 1..(n - 1)
      BY <1>1, <1>2
    <3>2. IsGatedReference(new) => ReferenceParams(new.params)
      BY <1>2 DEF IsGatedReference, NewFits
    <3>3. StepsKnown(new)
      BY <1>2 DEF StepsKnown
    <3>4. new.via \in Vias /\ new.status \in Ends \cup {"done"} /\ new.pc \in PCs
      BY <1>2 DEF NewFits, Ends, PCs, Underway
    <3> QED BY <1>1, <1>2, <1>4, <2>2, <3>1, <3>2, <3>3, <3>4 DEF RunFits, NewFits
  <2> QED BY <1>1, <2>1, <2>2
<1>6. ASSUME NEW e \in DOMAIN log' PROVE EntryFits(e)'
  <2>1. EntryFits(e) /\ e \in DOMAIN log
    BY <1>4 DEF LogInv
  <2>2. CASE log'[e] = log[e]
    BY <1>1, <1>4, <2>1, <2>2 DEF EntryFits
  <2>3. CASE via = "schedule" /\ e = entry
    BY <1>1, <1>2, <1>4, <2>1, <2>3 DEF EntryFits
  <2> QED BY <1>4, <2>1, <2>2, <2>3
<1>7. ASSUME NEW e \in jobs' PROVE JobFits(e)'
  <2>1. JobFits(e)
    BY <1>4 DEF LogInv
  <2>2. log'[e] = log[e]
    BY <1>4, <2>1 DEF JobFits
  <2> QED BY <1>4, <2>1, <2>2 DEF JobFits
<1> QED BY <1>1, <1>4, <1>5, <1>6, <1>7 DEF LogInv

(* So does a note.                                                          *)
LEMMA NotedLogInv == ASSUME LogInv, NEW new, Noted(new) PROVE LogInv'
<1> DEFINE n == Len(log) + 1
<1>1. /\ IsSeq(log') /\ DOMAIN log' = DOMAIN log \cup {n} /\ n \notin DOMAIN log
      /\ log'[n] = new /\ \A e \in DOMAIN log : log'[e] = log[e]
  BY SeqAppend DEF Noted, LogInv
<1>2. runs' = runs /\ (jobs' = jobs \/ (new.state = "scheduled" /\ jobs' = jobs \cup {n}))
  BY DEF Noted
<1> HIDE DEF n
<1>3. ASSUME NEW r \in DOMAIN runs PROVE RunFits(r)'
  BY <1>1, <1>2 DEF LogInv, RunFits
<1>4. ASSUME NEW e \in DOMAIN log' PROVE EntryFits(e)'
  <2>1. CASE e \in DOMAIN log
    BY <1>1, <1>2, <2>1 DEF LogInv, EntryFits
  <2>2. CASE e = n
    BY <1>1, <1>2, <2>2 DEF Noted, EntryFits
  <2> QED BY <1>1, <2>1, <2>2
<1>5. ASSUME NEW e \in jobs' PROVE JobFits(e)'
  <2>1. CASE e \in jobs
    BY <1>1, <2>1 DEF LogInv, JobFits
  <2>2. CASE e = n /\ new.state = "scheduled"
    BY <1>1, <2>2 DEF Noted, JobFits
  <2> QED BY <1>2, <2>1, <2>2
<1> QED BY <1>1, <1>2, <1>3, <1>4, <1>5 DEF LogInv, RunsFull

(* And a job whose time has come, on a busy instrument or on a free one.    *)
LEMMA JobLogInv == ASSUME LogInv, NEW e \in jobs, StartJob(e) PROVE LogInv'
<1>1. e \in DOMAIN log /\ log[e].run = 0 /\ DOMAIN log[e] = LogKeys
  BY DEF LogInv, JobFits, EntryFits
<1>2. CASE Takes("schedule", log[e].mode, log[e].params, ParamsOf(log[e].mode, log[e].params), e)
            /\ log' = [log EXCEPT ![e].state = "running", ![e].run = Len(runs) + 1]
  <2> DEFINE mode == log[e].mode
             body == log[e].params
  <2>1. LogTaken("schedule", mode, body, ParamsOf(mode, body), e)
    <3>1. log' = [log EXCEPT ![e] = [log[e] EXCEPT !.state = "running", !.run = Len(runs) + 1]]
      BY <1>1, <1>2
    <3>2. jobs' = jobs \ {e}
      BY DEF StartJob
    <3> QED BY <3>1, <3>2 DEF LogTaken
  <2>2. NewFits("schedule", mode, body, ParamsOf(mode, body), e)
    BY DEF NewFits, Vias
  <2>3. Takes("schedule", mode, body, ParamsOf(mode, body), e)
    BY <1>2
  <2>4. PICK m, b, p : m = mode /\ b = body /\ p = ParamsOf(mode, body)
    OBVIOUS
  <2> HIDE DEF mode, body
  <2> QED BY <2>1, <2>2, <2>3, <2>4, TakesLogInv
<1>3. CASE log' = [log EXCEPT ![e].state = "failed"] /\ runs' = runs
  <2> DEFINE new == [log[e] EXCEPT !.state = "failed"]
  <2>1. DOMAIN new = LogKeys /\ new.mode = log[e].mode /\ new.params = log[e].params
          /\ new.run = 0 /\ new.state = "failed"
    BY <1>1 DEF LogKeys
  <2>2. log' = [log EXCEPT ![e] = new]
    BY <1>3
  <2> HIDE DEF new
  <2>3. IsSeq(log') /\ DOMAIN log' = DOMAIN log
    BY <1>1, <2>2, SeqSame DEF LogInv
  <2>4. log'[e] = new /\ \A f \in DOMAIN log \ {e} : log'[f] = log[f]
    BY <1>1, <2>2
  <2>5. jobs' = jobs \ {e}
    BY DEF StartJob
  <2>6. ASSUME NEW r \in DOMAIN runs PROVE RunFits(r)'
    <3>1. RunFits(r)
      BY DEF LogInv
    <3>2. /\ runs[r].entry \in DOMAIN log =>
               /\ log'[runs[r].entry].mode = log[runs[r].entry].mode
               /\ log'[runs[r].entry].run = log[runs[r].entry].run
      BY <1>1, <2>1, <2>4
    <3> QED BY <1>3, <2>3, <3>1, <3>2 DEF RunFits
  <2>7. ASSUME NEW f \in DOMAIN log' PROVE EntryFits(f)'
    <3>1. EntryFits(f)
      BY <2>3 DEF LogInv
    <3>2. CASE f = e
      BY <1>3, <2>1, <2>4, <3>2 DEF EntryFits
    <3>3. CASE f # e
      BY <1>3, <2>3, <2>4, <3>1, <3>3 DEF EntryFits
    <3> QED BY <3>2, <3>3
  <2>8. ASSUME NEW f \in jobs' PROVE JobFits(f)'
    BY <2>3, <2>4, <2>5 DEF LogInv, JobFits
  <2> QED BY <1>3, <2>3, <2>6, <2>7, <2>8 DEF LogInv, RunsFull
<1> QED BY <1>2, <1>3 DEF StartJob

(* And a restart.                                                           *)
LEMMA CrashLogInv == LogInv /\ Crash => LogInv'
<1> SUFFICES ASSUME LogInv, Crash PROVE LogInv'
  OBVIOUS
<1> DEFINE fields == With(Over, [status |-> "lost"])
           after(r) == IF runs[r].pc = "over" THEN runs[r] ELSE With(runs[r], fields)
<1>1. runs' = [r \in DOMAIN runs |-> after(r)] /\ log' = log /\ jobs' = {}
  BY DEF Crash, disk
<1>2. /\ DOMAIN fields = {"pc", "wire", "stack", "view", "reference", "status"}
      /\ fields["pc"] = "over" /\ fields["status"] = "lost"
  <2>1. DOMAIN fields = DOMAIN Over \cup {"status"}
    BY WithDomain
  <2>2. fields["pc"] = Over["pc"]
    BY WithOld DEF Over
  <2>3. fields["status"] = "lost"
    BY WithNew
  <2> QED BY <2>1, <2>2, <2>3 DEF Over
<1> HIDE DEF fields
<1>3. IsSeq(runs') /\ DOMAIN runs' = DOMAIN runs /\ Len(runs') = Len(runs)
  <2>1. DOMAIN runs = 1..Len(runs) /\ Len(runs) \in Nat
    BY SeqDomain DEF LogInv, RunsFull
  <2>2. PICK n \in Nat : n = Len(runs)
    BY <2>1
  <2>3. DOMAIN runs' = 1..n /\ runs' = [r \in 1..n |-> runs'[r]]
    BY <1>1, <2>1, <2>2
  <2>4. (\E S : runs' \in Seq(S)) /\ Len(runs') = n
    <3>1. PICK f : f = runs'
      OBVIOUS
    <3> QED BY <2>3, <3>1, SeqOfLength
  <2> QED BY <2>1, <2>2, <2>3, <2>4 DEF IsSeq
<1>4. ASSUME NEW r \in DOMAIN runs
      PROVE  /\ DOMAIN runs'[r] = AllKeys
             /\ \A k \in {"via", "mode", "body", "params", "entry", "beside"} :
                  runs'[r][k] = runs[r][k]
             /\ runs'[r].pc = "over"
             /\ runs'[r].status \in {runs[r].status, "lost"}
  <2>1. DOMAIN runs[r] = AllKeys
    BY DEF LogInv, RunsFull
  <2>2. CASE runs[r].pc = "over"
    BY <1>1, <2>1, <2>2
  <2>3. CASE runs[r].pc # "over"
    <3>1. runs'[r] = With(runs[r], fields)
      BY <1>1, <2>3
    <3>2. DOMAIN With(runs[r], fields) = AllKeys
      <4>1. DOMAIN With(runs[r], fields) = DOMAIN runs[r] \cup DOMAIN fields
        BY WithDomain
      <4> QED BY <1>2, <2>1, <4>1 DEF AllKeys
    <3>3. \A k \in {"via", "mode", "body", "params", "entry", "beside"} :
            With(runs[r], fields)[k] = runs[r][k]
      BY <1>2, <2>1, WithOld DEF AllKeys
    <3>4. With(runs[r], fields)["pc"] = "over" /\ With(runs[r], fields)["status"] = "lost"
      BY <1>2, WithNew
    <3> QED BY <3>1, <3>2, <3>3, <3>4
  <2> QED BY <2>2, <2>3
<1>5. ASSUME NEW r \in DOMAIN runs PROVE RunFits(r)'
  <2>1. RunFits(r)
    BY DEF LogInv
  <2>2. IsGatedReference(runs'[r]) = IsGatedReference(runs[r])
    BY <1>4 DEF IsGatedReference
  <2>3. StepsKnown(runs'[r])
    BY <1>4 DEF StepsKnown
  <2>4. runs'[r].status \in Ends \cup {"done"} /\ runs'[r].pc \in PCs
    BY <1>4, <2>1 DEF RunFits, Ends, PCs
  <2> QED BY <1>1, <1>4, <2>1, <2>2, <2>3, <2>4 DEF RunFits
<1>6. ASSUME NEW e \in DOMAIN log PROVE EntryFits(e)'
  <2>1. EntryFits(e)
    BY DEF LogInv
  <2>2. log[e].run \in DOMAIN runs => runs'[log[e].run].params = runs[log[e].run].params
    BY <1>4
  <2>3. log[e].run # 0 => log[e].run \in DOMAIN runs
    BY <2>1 DEF EntryFits
  <2> QED BY <1>1, <1>3, <2>1, <2>2, <2>3 DEF EntryFits
<1> QED BY <1>1, <1>3, <1>4, <1>5, <1>6 DEF LogInv, RunsFull

(* Steps that are not those of a run, nor of a request.                     *)
LEMMA StillLogInv == LogInv /\ UNCHANGED <<runs, log, jobs>> => LogInv'
BY DEF LogInv, RunsFull, RunFits, EntryFits, JobFits

(* See RequestEffect.                                                       *)
LEMMA RequestLogInv == LogInv /\ Request => LogInv'
<1> SUFFICES ASSUME LogInv, Request PROVE LogInv'
  OBVIOUS
<1>1. ASSUME NEW via, NEW mode, NEW body, NEW p, NEW entry, Takes(via, mode, body, p, entry),
             NewFits(via, mode, body, p, entry), via # "schedule", UNCHANGED <<log, jobs>>
      PROVE  LogInv'
  <2>1. LogTaken(via, mode, body, p, entry)
    BY <1>1 DEF LogTaken
  <2> QED BY <1>1, <2>1, TakesLogInv
<1> QED BY <1>1, RequestEffect, NotedLogInv

(* The invariant holds at the start and after every step.                   *)
LEMMA NextLogInv == LogInv /\ [Next]_vars => LogInv'
<1> SUFFICES ASSUME LogInv, [Next]_vars PROVE LogInv'
  OBVIOUS
<1>1. CASE SetSavePath \/ calibration_status \/ RequestStop \/ StopReturns \/ UNCHANGED vars
  BY <1>1, StillLogInv DEF SetSavePath, calibration_status, RequestStop, StopReturns, vars, disk
<1> QED
  BY <1>1, StepLogInv, RequestLogInv, JobLogInv, CrashLogInv DEF Next

(* See NextLogInv.                                                          *)
LEMMA InitLogInv == Init => LogInv
<1> SUFFICES ASSUME Init PROVE LogInv
  OBVIOUS
<1>1. runs = <<>> /\ log = <<>> /\ jobs = {}
  BY DEF Init
<1>2. IsSeq(<<>>) /\ DOMAIN <<>> = {} /\ Len(<<>>) = 0
  <2>1. <<>> \in Seq({}) /\ DOMAIN <<>> = {} /\ Len(<<>>) = 0
    OBVIOUS
  <2> QED BY <2>1 DEF IsSeq
<1> QED
  BY <1>1, <1>2, MeasurementAssumption DEF LogInv, RunsFull

-----------------------------------------------------------------------------
(* The types.                                                               *)

(* The other variables.                                                   *)
OthersFit ==
  /\ savePath \in SavePaths \cup {NoPath}
  /\ busy \in BOOLEAN /\ stop \in BOOLEAN /\ stopping \in BOOLEAN
  /\ calibration \in [CalibrationKinds -> {"none", "running", "done", "failed"}]

(* A dark measurement that is over leaves a reference of one frame at least.*)
LEMMA AnswerRefs == ASSUME LogInv, RefsFit, NEW r \in DOMAIN runs, Answer(r) PROVE RefsFit'
<1>1. CASE runs[r].via # "reference"
  BY <1>1 DEF Answer, RefsFit
<1>2. CASE runs[r].via = "reference"
  <2> DEFINE p == runs[r].params
             steps == IF p.mode = "gated" THEN EffectiveSteps(p) ELSE 1
             built == build_reference(runs[r].stack, p.iterations, steps)
             new == [fingerprint |-> Fingerprint(p), reference |-> built,
                     iterations |-> p.iterations, path |-> runs[r].shown]
  <2>1. refs' = Append(refs, new)
    BY <1>2 DEF Answer, Save
  <2>2. steps \in Nat \ {0}
    <3>1. RunFits(r) /\ runs[r].pc = "answer"
      BY DEF Answer, LogInv
    <3>2. CASE p.mode = "gated"
      <4>1. IsGatedReference(runs[r]) /\ runs[r].status = "done"
        BY <1>2, <3>1, <3>2 DEF IsGatedReference, RunFits
      <4>2. EffectiveSteps(p) >= 1 /\ ReferenceParams(p)
        BY <3>1, <4>1 DEF RunFits, StepsKnown
      <4>3. EffectiveSteps(p) \in Int
        BY <4>2 DEF EffectiveSteps, ReferenceParams
      <4> QED BY <3>2, <4>2, <4>3
    <3> QED BY <3>2
  <2>3. Len(built) = steps
    <3>1. PICK n, f : n \in Nat /\ n = steps /\ f = built
      BY <2>2
    <3>2. f = [s \in 1..n |-> f[s]]
      BY <3>1 DEF build_reference
    <3> HIDE DEF built, steps
    <3> QED BY <3>1, <3>2, SeqOfLength
  <2>4. new.reference = built
    OBVIOUS
  <2> HIDE DEF new, built, steps
  <2>5. PICK x : x = new
    OBVIOUS
  <2> QED BY <2>1, <2>2, <2>3, <2>4, <2>5, SeqAppend DEF RefsFit
<1> QED BY <1>1, <1>2

(* References are only written when a dark measurement is over.             *)
LEMMA RefsWritten ==
  ASSUME LogInv, [Next]_vars PROVE refs' = refs \/ \E r \in DOMAIN runs : Answer(r)
<1>1. ASSUME NEW r \in DOMAIN runs, Step(r) PROVE refs' = refs \/ Answer(r)
  <2>1. ASSUME NEW data, NEW frames, NEW fields, Received(r, data, frames, fields)
        PROVE  refs' = refs
    BY <2>1 DEF Received, Advance, Fail, disk
  <2>2. CASE IntensityExchange(r) \/ GatedExchange(r) \/ PacedExchange(r)
    BY <2>1, <2>2 DEF IntensityExchange, GatedExchange, PacedExchange, Fail, Advance, disk
  <2>3. CASE FlimExchange(r) \/ CalibrationEnds(r) \/ ExchangeFails(r) \/ Boundary(r) \/ Correct(r)
    BY <2>3 DEF FlimExchange, CalibrationEnds, ExchangeFails, Boundary, Correct, Broken, Fail,
                Advance, disk
  <2>4. CASE List(r) \/ Make(r) \/ WriteFrame(r) \/ WriteSidecar(r) \/ Reduce(r) \/ SaveFails(r)
    BY <2>4 DEF List, Make, WriteFrame, WriteSidecar, Reduce, SaveFails, Broken, Writes, Advance, disk
  <2>5. CASE Finish(r) \/ GraceExpires(r)
    BY <2>5 DEF Finish, GraceExpires, disk
  <2> QED BY <1>1, <2>2, <2>3, <2>4, <2>5 DEF Step
<1>2. Request \/ (\E e \in jobs : StartJob(e)) => refs' = refs
  BY RequestEffect DEF StartJob, Takes, Noted
<1>3. Crash \/ SetSavePath \/ calibration_status \/ RequestStop \/ StopReturns \/ UNCHANGED vars
        => refs' = refs
  BY DEF Crash, SetSavePath, calibration_status, RequestStop, StopReturns, vars, disk
<1> QED BY <1>1, <1>2, <1>3 DEF Next

(* They are such references always.                                         *)
LEMMA NextRefs == LogInv /\ RefsFit /\ [Next]_vars => RefsFit'
<1> SUFFICES ASSUME LogInv, RefsFit, [Next]_vars PROVE RefsFit'
  OBVIOUS
<1>1. CASE refs' = refs
  BY <1>1 DEF RefsFit
<1> QED BY <1>1, RefsWritten, AnswerRefs

(* The other variables keep their types.                                    *)
LEMMA NextOthers == OthersFit /\ [Next]_vars => OthersFit'
<1> SUFFICES ASSUME OthersFit, [Next]_vars PROVE OthersFit'
  OBVIOUS
<1>1. ASSUME /\ savePath' \in SavePaths \cup {NoPath}
             /\ busy' \in BOOLEAN /\ stop' \in BOOLEAN /\ stopping' \in BOOLEAN
             /\ \/ calibration' = calibration
                \/ \E kind, state : /\ calibration' = [calibration EXCEPT ![kind] = state]
                                    /\ state \in {"running", "done", "failed"}
      PROVE  OthersFit'
  BY <1>1 DEF OthersFit
<1>2. CASE Request
  <2>1. ASSUME NEW via, NEW mode, NEW body, NEW p, NEW entry, Takes(via, mode, body, p, entry)
        PROVE  UNCHANGED <<savePath, stop, stopping>> /\ busy' = TRUE
    BY <2>1 DEF Takes
  <2>2. ASSUME NEW via, NEW mode, NEW body, NEW p, NEW entry, Admit(via, mode, body, p, entry)
        PROVE  UNCHANGED <<savePath, stop, stopping, calibration>> /\ busy' = TRUE
    BY <2>1, <2>2 DEF Admit
  <2>3. CASE calibrate
    <3>1. PICK kind : calibration' = [calibration EXCEPT ![kind] = "running"]
      BY <2>3 DEF calibrate
    <3>2. UNCHANGED <<savePath, stop, stopping>> /\ busy' = TRUE
      BY <2>1, <2>3 DEF calibrate
    <3> QED BY <1>1, <3>1, <3>2 DEF OthersFit
  <2>4. CASE ~calibrate
    <3>1. UNCHANGED <<savePath, stop, stopping, calibration>> /\ (busy' = TRUE \/ busy' = busy)
      BY <1>2, <2>2, <2>4 DEF Request, acquire_intensity, acquire_raw_1bit, acquire_gated, acquire_flim,
         live_frame, measure_intensity_dark_reference, measure_gated_dark_reference, rerun_entry,
         schedule_job
    <3> QED BY <1>1, <3>1 DEF OthersFit
  <2> QED BY <2>3, <2>4
<1>3. CASE \E e \in jobs : StartJob(e)
  <2>1. UNCHANGED <<savePath, stop, stopping, calibration>> /\ (busy' = TRUE \/ busy' = busy)
    BY <1>3 DEF StartJob, Takes
  <2> QED BY <1>1, <2>1 DEF OthersFit
<1>4. ASSUME NEW r \in DOMAIN runs, Step(r) PROVE OthersFit'
  <2>1. ASSUME NEW data, NEW frames, NEW fields, Received(r, data, frames, fields)
        PROVE  UNCHANGED <<savePath, busy, stop, stopping, calibration>>
    BY <2>1 DEF Received, Advance, Fail
  <2>2. CASE IntensityExchange(r) \/ GatedExchange(r) \/ PacedExchange(r)
    <3>1. UNCHANGED <<savePath, busy, stop, stopping, calibration>>
      BY <2>1, <2>2 DEF IntensityExchange, GatedExchange, PacedExchange, Fail, Advance
    <3> QED BY <1>1, <3>1 DEF OthersFit
  <2>3. CASE FlimExchange(r) \/ ExchangeFails(r) \/ Boundary(r) \/ Correct(r)
    <3>1. UNCHANGED <<savePath, busy, stop, stopping, calibration>>
      BY <2>3 DEF FlimExchange, ExchangeFails, Boundary, Correct, Broken, Fail, Advance
    <3> QED BY <1>1, <3>1 DEF OthersFit
  <2>4. CASE List(r) \/ Make(r) \/ WriteFrame(r) \/ WriteSidecar(r) \/ Reduce(r) \/ SaveFails(r)
    <3>1. UNCHANGED <<savePath, busy, stop, stopping, calibration>>
      BY <2>4 DEF List, Make, WriteFrame, WriteSidecar, Reduce, SaveFails, Broken, Writes, Advance
    <3> QED BY <1>1, <3>1 DEF OthersFit
  <2>5. CASE GraceExpires(r) \/ Answer(r)
    <3>1. UNCHANGED <<savePath, busy, stop, stopping, calibration>>
      BY <2>5 DEF GraceExpires, Answer
    <3> QED BY <1>1, <3>1 DEF OthersFit
  <2>6. CASE Finish(r)
    BY <1>1, <2>6 DEF Finish, OthersFit
  <2>7. CASE CalibrationEnds(r)
    <3>1. busy' = FALSE /\ stop' = FALSE /\ UNCHANGED <<savePath, stopping>>
      BY <2>7 DEF CalibrationEnds
    <3>2. \E state \in {"done", "failed"} :
            calibration' = [calibration EXCEPT ![runs[r].params.kind] = state]
      BY <2>7 DEF CalibrationEnds
    <3>3. PICK kind : kind = runs[r].params.kind
      OBVIOUS
    <3> QED BY <1>1, <3>1, <3>2, <3>3 DEF OthersFit
  <2> QED BY <1>4, <2>2, <2>3, <2>4, <2>5, <2>6, <2>7 DEF Step
<1>5. CASE calibration_status
  BY <1>5 DEF calibration_status, OthersFit
<1>6. CASE SetSavePath \/ RequestStop \/ StopReturns \/ UNCHANGED vars
  BY <1>1, <1>6 DEF SetSavePath, RequestStop, StopReturns, vars, OthersFit
<1>7. CASE Crash
  BY <1>7 DEF Crash, OthersFit
<1> QED
  BY <1>2, <1>3, <1>4, <1>5, <1>6, <1>7 DEF Next

(* The types of the state: what is logged and scheduled refers to runs and  *)
(* entries there are, a run writes only to a folder it has made, and no     *)
(* dark measurement leaves a reference without frames, one without gate     *)
(* steps included: the camera's answer is then not as long as expected, or  *)
(* there is no step to take.                                                *)
(* (acquisition.py, experiment_log.py, dark_reference.py)                   *)
THEOREM MeasurementTypes == Spec => []TypeOK
<1>1. Init => Inv /\ LogInv /\ RefsFit /\ OthersFit
  <2> SUFFICES ASSUME Init PROVE RefsFit /\ OthersFit
    BY InitInv, InitLogInv
  <2>1. IsSeq(<<>>) /\ DOMAIN <<>> = {}
    <3>1. <<>> \in Seq({}) /\ DOMAIN <<>> = {}
      OBVIOUS
    <3> QED BY <3>1 DEF IsSeq
  <2> QED BY <2>1 DEF Init, RefsFit, OthersFit
<1>2. Inv /\ LogInv /\ RefsFit /\ OthersFit /\ [Next]_vars => (Inv /\ LogInv /\ RefsFit /\ OthersFit)'
  BY NextInv, NextLogInv, NextRefs, NextOthers
<1>3. Inv /\ LogInv /\ RefsFit /\ OthersFit => TypeOK
  <2> SUFFICES ASSUME Inv, LogInv, RefsFit, OthersFit PROVE TypeOK
    OBVIOUS
  <2>1. ASSUME NEW r \in DOMAIN runs
        PROVE  /\ [via |-> runs[r].via, status |-> runs[r].status, pc |-> runs[r].pc] \in Run
               /\ runs[r].made => runs[r].folder \in DOMAIN folders
               /\ runs[r].pc \in {"frames", "sidecar", "reduce"} => runs[r].made
               /\ runs[r].beside \subseteq 1..(r - 1)
               /\ runs[r].via \in {"rerun", "schedule"} => runs[r].entry \in DOMAIN log
    <3>1. RunFits(r) /\ FolderFits(r)
      BY DEF LogInv, Inv
    <3> QED BY <3>1 DEF RunFits, FolderFits, Run, Vias, Ends, Written
  <2>2. ASSUME NEW e \in DOMAIN log
        PROVE  \/ log[e].run \in DOMAIN runs
               \/ log[e].run = 0 /\ log[e].state \in {"scheduled", "failed", "completed"}
    BY DEF LogInv, EntryFits
  <2>3. \A e \in jobs : e \in DOMAIN log /\ log[e].state = "scheduled"
    BY DEF LogInv, JobFits
  <2> QED BY <2>1, <2>2, <2>3 DEF TypeOK, LogInv, RefsFit, OthersFit
<1> QED
  BY <1>1, <1>2, <1>3, PTL DEF Spec

(* An intensity or gated entry that is run again without changes takes the  *)
(* same measurement, whichever way its run came about (a route, a rerun, a  *)
(* scheduled job), if no request names two integration times that differ.   *)
(* (experiments.rerun_entry, _intensity_params, _gated_params)              *)
THEOREM RerunsReproduce == OneTime /\ Spec => []RerunReproduces
<1> SUFFICES ASSUME OneTime PROVE Spec => []RerunReproduces
  OBVIOUS
<1>1. Init => LogInv
  BY InitLogInv
<1>2. LogInv /\ [Next]_vars => LogInv'
  BY NextLogInv
<1>3. LogInv => RerunReproduces
  <2> SUFFICES ASSUME LogInv, NEW r \in DOMAIN runs, runs[r].via = "rerun",
                      log[runs[r].entry].mode \in Repeatable, log[runs[r].entry].run # 0,
                      runs[r].body = log[runs[r].entry].params
               PROVE  Essence(runs[r].params) = Essence(runs[log[runs[r].entry].run].params)
    BY DEF RerunReproduces, Repeatable
  <2>1. RunFits(r) /\ runs[r].entry \in DOMAIN log
    BY DEF LogInv, RunFits
  <2>2. EntryFits(runs[r].entry)
    BY <2>1 DEF LogInv
  <2> QED BY <2>1, <2>2 DEF RunFits, EntryFits
<1> QED
  BY <1>1, <1>2, <1>3, PTL DEF Spec

-----------------------------------------------------------------------------
(* Paths.                                                                   *)

Bases == {DataRoot} \cup (LocalPaths \cap SavePaths)

(* No save path on the bridge's host is a directory below that of the data. *)
RootApart == \A path \in LocalPaths \cap SavePaths : IsPrefix(DataRoot, path) => path = DataRoot

IsFolder(f) == f = [base |-> f.base, mode |-> f.mode, number |-> f.number, name |-> f.name]

(* A path is its prefix and the rest.                                       *)
LEMMA PrefixAndRest ==
  ASSUME NEW p \in Seq(STRING), NEW s \in Seq(STRING), IsPrefix(p, s)
  PROVE  Rest(s, p) \in Seq(STRING) /\ (Rest(s, p) = <<>> => s = p)
<1>1. Len(p) <= Len(s) /\ SubSeq(s, 1, Len(p)) = SubSeq(p, 1, Len(p))
  BY DEF IsPrefix
<1>2. Rest(s, p) \in Seq(STRING) /\ Len(Rest(s, p)) = Len(s) - Len(p)
  BY <1>1 DEF Rest
<1>3. ASSUME Rest(s, p) = <<>> PROVE s = p
  <2>1. Len(s) = Len(p)
    BY <1>2, <1>3
  <2>2. SubSeq(s, 1, Len(s)) = s /\ SubSeq(p, 1, Len(p)) = p
    OBVIOUS
  <2> QED BY <1>1, <2>1, <2>2
<1> QED BY <1>2, <1>3

(* The rest of a path and itself is nothing.                                *)
LEMMA RestOfSelf == ASSUME NEW p \in Seq(STRING) PROVE Rest(p, p) = <<>> /\ p \o Rest(p, p) = p
<1>1. Rest(p, p) = <<>>
  BY DEF Rest
<1> QED BY <1>1

(* What lies behind a path begins with it.                                  *)
LEMMA BehindPath ==
  ASSUME NEW p \in Seq(STRING), NEW q \in Seq(STRING), q # <<>>
  PROVE  IsPrefix(p, p \o q) /\ p \o q # p
<1>1. p \o q \in Seq(STRING) /\ Len(p \o q) = Len(p) + Len(q) /\ Len(q) # 0
  OBVIOUS
<1>2. SubSeq(p \o q, 1, Len(p)) = SubSeq(p, 1, Len(p))
  OBVIOUS
<1> QED BY <1>1, <1>2 DEF IsPrefix

(* Only the directory of the data has another name for clients.             *)
LEMMA ShownBase ==
  ASSUME RootApart, NEW sp \in SavePaths \cup {NoPath}, NEW f, f.base \in Bases
  PROVE  \/ DisplayPath(sp, f) = f
         \/ /\ IsVirtual(sp) /\ f.base = DataRoot
            /\ DisplayPath(sp, f) = [f EXCEPT !.base = sp]
<1>1. CASE IsVirtual(sp) /\ IsPrefix(DataRoot, f.base)
  <2>1. f.base = DataRoot
    BY <1>1 DEF Bases, RootApart
  <2>2. sp \in Seq(STRING) /\ DataRoot \in Seq(STRING)
    BY <1>1, MeasurementAssumption, DataRootAssumption DEF IsVirtual
  <2>3. sp \o Rest(f.base, DataRoot) = sp
    BY <2>1, <2>2, RestOfSelf
  <2>4. DisplayPath(sp, f) = [f EXCEPT !.base = sp \o Rest(f.base, DataRoot)]
    BY <1>1 DEF DisplayPath
  <2> QED BY <1>1, <2>1, <2>3, <2>4
<1>2. CASE ~(IsVirtual(sp) /\ IsPrefix(DataRoot, f.base))
  BY <1>2 DEF DisplayPath
<1> QED BY <1>1, <1>2

(* A save path that is not one of the host's directories is none the bridge *)
(* writes to, unless it is that of the data.                                *)
LEMMA VirtualApart == ASSUME NEW sp, IsVirtual(sp), sp \in Bases PROVE sp = DataRoot
BY DEF IsVirtual, IsLocal, Bases

(* A path clients were shown leads to the folder it was shown for, or       *)
(* nowhere, whatever the save path was then and is now.                     *)
LEMMA LeadsBack ==
  ASSUME RootApart, NEW sp \in SavePaths \cup {NoPath}, NEW now \in SavePaths \cup {NoPath},
         NEW f, IsFolder(f), f.base \in Bases, NEW all, \A g \in all : g.base \in Bases
  PROVE  Opened(all, now, DisplayPath(sp, f)) \in {f, NoFolder}
<1> DEFINE shown == DisplayPath(sp, f)
           behind == [shown EXCEPT !.base = DataRoot \o Rest(shown.base, now)]
<1>1. \/ shown = f
      \/ IsVirtual(sp) /\ f.base = DataRoot /\ shown = [f EXCEPT !.base = sp]
  BY ShownBase
<1>2. DataRoot \in Seq(STRING) /\ (IsVirtual(sp) => sp \in Seq(STRING))
        /\ (IsVirtual(now) => now \in Seq(STRING))
  BY MeasurementAssumption, DataRootAssumption DEF IsVirtual
<1>3. f.base \in Seq(STRING)
  BY MeasurementAssumption, DataRootAssumption DEF Bases
<1>4. DOMAIN f = {"base", "mode", "number", "name"}
  BY DEF IsFolder
<1> HIDE DEF shown
<1>5. /\ DOMAIN shown = {"base", "mode", "number", "name"}
      /\ shown.mode = f.mode /\ shown.number = f.number /\ shown.name = f.name
      /\ shown.base \in {f.base, sp} /\ shown.base \in Seq(STRING)
  BY <1>1, <1>2, <1>3, <1>4
<1>6. shown \in all => shown = f
  <2> SUFFICES ASSUME shown \in all, IsVirtual(sp), f.base = DataRoot, shown = [f EXCEPT !.base = sp]
               PROVE  shown = f
    BY <1>1
  <2>1. shown.base = sp
    BY <1>4
  <2>2. sp = DataRoot
    BY <2>1, VirtualApart
  <2>3. shown = [k \in {"base", "mode", "number", "name"} |-> shown[k]]
    BY <1>4
  <2>4. shown.base = f.base
    BY <2>1, <2>2
  <2>5. shown = [base |-> f.base, mode |-> f.mode, number |-> f.number, name |-> f.name]
    BY <1>5, <2>3, <2>4
  <2> QED BY <2>5 DEF IsFolder
<1>7. ASSUME IsVirtual(now), IsPrefix(now, shown.base), behind \in all PROVE behind = f
  <2>1. behind.base = DataRoot \o Rest(shown.base, now)
    BY <1>5
  <2>2. Rest(shown.base, now) \in Seq(STRING) /\ (Rest(shown.base, now) = <<>> => shown.base = now)
    BY <1>2, <1>5, <1>7, PrefixAndRest
  <2>3. Rest(shown.base, now) = <<>>
    <3> SUFFICES ASSUME Rest(shown.base, now) # <<>> PROVE FALSE
      OBVIOUS
    <3>1. IsPrefix(DataRoot, behind.base) /\ behind.base # DataRoot
      BY <1>2, <2>1, <2>2, BehindPath
    <3> QED BY <1>7, <3>1 DEF Bases, RootApart
  <2>4. behind.base = DataRoot
    BY <1>2, <2>1, <2>3
  <2>5. f.base = DataRoot
    <3>1. CASE shown = f
      <4>1. f.base = now
        BY <2>2, <2>3, <3>1
      <4> QED BY <1>7, <4>1, VirtualApart
    <3> QED BY <1>1, <3>1
  <2>6. DOMAIN behind = {"base", "mode", "number", "name"} /\ behind.mode = f.mode
          /\ behind.number = f.number /\ behind.name = f.name
    BY <1>5
  <2> HIDE DEF behind
  <2>7. behind = [base |-> f.base, mode |-> f.mode, number |-> f.number, name |-> f.name]
    <3>1. behind = [k \in {"base", "mode", "number", "name"} |-> behind[k]]
      BY <1>5, <2>6 DEF behind
    <3> QED BY <2>4, <2>5, <2>6, <3>1
  <2> QED BY <2>7 DEF IsFolder
<1>8. Resolve(now, shown) \in {NoFolder, shown} \cup
        (IF IsVirtual(now) /\ IsPrefix(now, shown.base) THEN {behind} ELSE {})
  BY DEF Resolve
<1>9. Opened(all, now, shown) \in {NoFolder}
        \/ (Opened(all, now, shown) = Resolve(now, shown) /\ Resolve(now, shown) \in all)
  BY DEF Opened
<1>10. Opened(all, now, shown) \in {f, NoFolder}
  BY <1>6, <1>7, <1>8, <1>9
<1> QED BY <1>10 DEF shown

(* Two folders are never shown alike.                                       *)
LEMMA ShownApart ==
  ASSUME RootApart, NEW sp \in SavePaths \cup {NoPath}, NEW sq \in SavePaths \cup {NoPath},
         NEW f, IsFolder(f), f.base \in Bases, NEW g, IsFolder(g), g.base \in Bases,
         DisplayPath(sp, f) = DisplayPath(sq, g)
  PROVE  f = g
<1> DEFINE shown == DisplayPath(sp, f)
<1>1. \/ shown = f
      \/ IsVirtual(sp) /\ f.base = DataRoot /\ shown = [f EXCEPT !.base = sp]
  BY ShownBase
<1>2. \/ shown = g
      \/ IsVirtual(sq) /\ g.base = DataRoot /\ shown = [g EXCEPT !.base = sq]
  BY ShownBase
<1>3. DOMAIN f = {"base", "mode", "number", "name"} /\ DOMAIN g = {"base", "mode", "number", "name"}
  BY DEF IsFolder
<1> HIDE DEF shown
<1>4. f.mode = g.mode /\ f.number = g.number /\ f.name = g.name
  BY <1>1, <1>2, <1>3
<1>5. f.base = g.base
  <2>1. CASE shown = f /\ IsVirtual(sq) /\ g.base = DataRoot /\ shown = [g EXCEPT !.base = sq]
    <3>1. f.base = sq
      BY <1>3, <2>1
    <3> QED BY <2>1, <3>1, VirtualApart
  <2>2. CASE shown = g /\ IsVirtual(sp) /\ f.base = DataRoot /\ shown = [f EXCEPT !.base = sp]
    <3>1. g.base = sp
      BY <1>3, <2>2
    <3> QED BY <2>2, <3>1, VirtualApart
  <2> QED BY <1>1, <1>2, <2>1, <2>2
<1> QED BY <1>4, <1>5 DEF IsFolder

(* No folder is found where none was saved.                                 *)
LEMMA NowhereLeads ==
  ASSUME NEW now \in SavePaths \cup {NoPath}, NEW all
  PROVE  Opened(all, now, NoFolder) = NoFolder
<1>1. ~(IsVirtual(now) /\ IsPrefix(now, NoPath))
  <2> SUFFICES ASSUME IsVirtual(now), IsPrefix(now, NoPath) PROVE FALSE
    OBVIOUS
  <2>1. now \in Seq(STRING) /\ now # <<>>
    BY MeasurementAssumption DEF IsVirtual, NoPath
  <2>2. Len(now) <= 0
    BY DEF IsPrefix, NoPath
  <2> QED BY <2>1, <2>2
<1>2. NoFolder.base = NoPath
  BY DEF NoFolder
<1>3. Resolve(now, NoFolder) = NoFolder
  BY <1>1, <1>2 DEF Resolve
<1> QED BY <1>3 DEF Opened

-----------------------------------------------------------------------------
(* The invariant of the paths.                                              *)

FolderKeys == {"images", "meta", "sidecar", "movie"}

(* The bridge writes to its data directory and to save paths on its host.   *)
FolderShape == \A f \in DOMAIN folders : f.base \in Bases /\ DOMAIN folders[f] = FolderKeys

IsSaved(r) ==
  /\ folders[runs[r].folder].sidecar # <<>>
  /\ folders[runs[r].folder].sidecar.params = SidecarParams(runs[r].params)

(* A run's client is shown a path once its folder is there; a folder that   *)
(* is its alone has then been saved for it.                                 *)
ShownFits(r) ==
  /\ runs[r].pc = "make" \/ runs[r].made => IsFolder(runs[r].folder) /\ runs[r].folder.base \in Bases
  /\ runs[r].shown # NoFolder =>
       /\ runs[r].made
       /\ \E sp \in SavePaths \cup {NoPath} : runs[r].shown = DisplayPath(sp, runs[r].folder)
  /\ runs[r].shown # NoFolder /\ Alone(r) => IsSaved(r)

(* A path in the log is that of the run of its entry, which is over.        *)
PathFits(e) ==
  log[e].path # NoFolder =>
    /\ log[e].run \in DOMAIN runs
    /\ log[e].path = runs[log[e].run].shown
    /\ runs[log[e].run].pc = "over"

OnePath(e, f) == log[e].run = log[f].run => log[e].path = NoFolder \/ log[f].path = NoFolder

PathInv ==
  /\ FolderShape
  /\ \A r \in DOMAIN runs : ShownFits(r)
  /\ \A e \in DOMAIN log : PathFits(e)
  /\ \A e, f \in DOMAIN log : e # f => OnePath(e, f)

(* What a step does to its run's folder and to what is shown of it.         *)
RunMoves(r) ==
  /\ runs[r].pc # "over"
  /\ runs'[r].params = runs[r].params
  /\ runs[r].made => runs'[r].made
  /\ runs'[r].made => runs'[r].folder = runs[r].folder /\ (runs[r].made \/ runs[r].pc = "make")
  /\ runs'[r].pc = "make" /\ ~runs'[r].made =>
       \/ runs[r].pc = "make" /\ runs'[r].folder = runs[r].folder
       \/ IsFolder(runs'[r].folder) /\ runs'[r].folder.base \in Bases
  /\ \/ runs'[r].shown = runs[r].shown
     \/ WriteSidecar(r) /\ runs[r].made /\ runs'[r].shown = DisplayPath(savePath, runs[r].folder)

(* See RunMoves.                                                            *)
LEMMA StepMoves ==
  ASSUME Inv, LogInv, OthersFit, NEW r \in DOMAIN runs, Step(r)
  PROVE  /\ RunMoves(r) /\ DOMAIN runs' = DOMAIN runs
         /\ \A s \in DOMAIN runs \ {r} : runs'[s] = runs[s]
<1>1. ReferencesSane
  BY DEF LogInv, RunFits, ReferencesSane
<1>2. PICK fields : Goes(r, fields) /\ StepFits(r, fields)
  BY <1>1, StepWent DEF Went
<1>3. /\ DOMAIN runs' = DOMAIN runs
      /\ \A s \in DOMAIN runs \ {r} : runs'[s] = runs[s]
      /\ \A k \in DOMAIN fields : runs'[r][k] = fields[k]
      /\ \A k \in AllKeys \ DOMAIN fields : runs'[r][k] = runs[r][k]
  BY <1>2, GoesOn DEF LogInv, StepFits
<1>4. runs'[r].params = runs[r].params /\ runs[r].pc # "over"
  BY <1>2, GivenStays DEF LogInv, StepFits
<1>5. CASE List(r)
  <2> DEFINE base == BaseDir(savePath)
             mode == runs[r].params.mode
             chosen == [base |-> base, mode |-> mode,
                        number |-> NextNumber(DOMAIN folders, base, mode), name |-> runs[r].params.name]
             new == [pc |-> "make", folder |-> chosen]
  <2>1. Goes(r, new) /\ runs[r].pc = "list"
    BY <1>5 DEF List, Advance
  <2>2. DOMAIN new = {"pc", "folder"} /\ new["folder"] = chosen
    OBVIOUS
  <2>3. base \in Bases
    BY MeasurementAssumption DEF BaseDir, IsLocal, Bases, OthersFit
  <2>4. IsFolder(chosen) /\ chosen.base = base
    BY DEF IsFolder
  <2> HIDE DEF new, chosen, base
  <2>5. DOMAIN new \subseteq AllKeys
    BY <2>2 DEF AllKeys
  <2>6. PICK n : n = new
    OBVIOUS
  <2>7. /\ \A k \in DOMAIN n : runs'[r][k] = n[k]
        /\ \A k \in AllKeys \ DOMAIN n : runs'[r][k] = runs[r][k]
    BY <2>1, <2>5, <2>6, GoesOn DEF LogInv
  <2>8. runs'[r].folder = chosen /\ runs'[r].made = runs[r].made /\ runs'[r].shown = runs[r].shown
    BY <2>2, <2>6, <2>7 DEF AllKeys
  <2>9. ~runs[r].made
    BY <2>1 DEF Inv, FolderFits
  <2> QED BY <1>3, <1>4, <2>3, <2>4, <2>8, <2>9 DEF RunMoves
<1>6. CASE WriteSidecar(r)
  <2>1. PICK content, pc :
          Writes(r, content, [shown |-> DisplayPath(savePath, runs[r].folder), pc |-> pc])
            /\ pc \in {"reduce", "finish"}
    BY <1>6 DEF WriteSidecar
  <2> DEFINE new == [shown |-> DisplayPath(savePath, runs[r].folder), pc |-> pc]
  <2>2. Goes(r, new)
    BY <2>1 DEF Writes
  <2>3. DOMAIN new = {"shown", "pc"} /\ new["shown"] = DisplayPath(savePath, runs[r].folder)
          /\ new["pc"] = pc
    OBVIOUS
  <2> HIDE DEF new
  <2>4. DOMAIN new \subseteq AllKeys
    BY <2>3 DEF AllKeys
  <2>5. PICK n : n = new
    OBVIOUS
  <2>6. /\ \A k \in DOMAIN n : runs'[r][k] = n[k]
        /\ \A k \in AllKeys \ DOMAIN n : runs'[r][k] = runs[r][k]
    BY <2>2, <2>4, <2>5, GoesOn DEF LogInv
  <2>7. /\ runs'[r].shown = DisplayPath(savePath, runs[r].folder) /\ runs'[r].pc = pc
        /\ runs'[r].made = runs[r].made /\ runs'[r].folder = runs[r].folder
    BY <2>3, <2>5, <2>6 DEF AllKeys
  <2>8. runs[r].made
    BY <1>6 DEF WriteSidecar, Inv, FolderFits, Written
  <2> QED BY <1>3, <1>4, <1>6, <2>1, <2>7, <2>8 DEF RunMoves
<1>7. CASE Make(r)
  <2> DEFINE new == [pc |-> "frames", made |-> TRUE]
  <2>1. Goes(r, new) /\ runs[r].pc = "make"
    BY <1>7 DEF Make, Writes
  <2>2. DOMAIN new = {"pc", "made"} /\ new["made"] /\ new["pc"] = "frames"
    OBVIOUS
  <2> HIDE DEF new
  <2>3. DOMAIN new \subseteq AllKeys
    BY <2>2 DEF AllKeys
  <2>4. /\ \A k \in DOMAIN new : runs'[r][k] = new[k]
        /\ \A k \in AllKeys \ DOMAIN new : runs'[r][k] = runs[r][k]
    BY <2>1, <2>3, GoesOn DEF LogInv
  <2>5. /\ runs'[r].made /\ runs'[r].pc = "frames"
        /\ runs'[r].folder = runs[r].folder /\ runs'[r].shown = runs[r].shown
    BY <2>2, <2>4 DEF AllKeys
  <2> QED BY <1>3, <1>4, <2>1, <2>5 DEF RunMoves
<1>8. CASE ~List(r) /\ ~WriteSidecar(r) /\ ~Make(r)
  <2>1. {"made", "folder", "shown"} \cap DOMAIN fields = {}
    BY <1>2, <1>8 DEF StepFits
  <2>2. runs'[r].made = runs[r].made /\ runs'[r].folder = runs[r].folder
          /\ runs'[r].shown = runs[r].shown
    BY <1>3, <2>1 DEF AllKeys
  <2>3. runs'[r].pc = "make" => runs[r].pc = "make"
    <3>1. CASE "pc" \in DOMAIN fields
      BY <1>2, <1>3, <2>1, <3>1 DEF StepFits
    <3>2. CASE "pc" \notin DOMAIN fields
      BY <1>3, <3>2 DEF AllKeys
    <3> QED BY <3>1, <3>2
  <2> QED BY <1>3, <1>4, <2>2, <2>3 DEF RunMoves
<1> QED BY <1>5, <1>6, <1>7, <1>8

(* What a step does to the folders: it writes to none but its run's, and to *)
(* the sidecar there only what is true of the run.                          *)
FolderStep(r) ==
  /\ DOMAIN folders \subseteq DOMAIN folders' /\ FolderShape'
  /\ \A f \in DOMAIN folders : f # runs[r].folder \/ ~runs'[r].made => folders'[f] = folders[f]
  /\ \/ WriteSidecar(r) /\ IsSaved(r)'
     \/ ~WriteSidecar(r) /\ \A f \in DOMAIN folders : folders'[f].sidecar = folders[f].sidecar

(* See FolderStep.                                                          *)
LEMMA StepFolders ==
  ASSUME Inv, LogInv, OthersFit, FolderShape, NEW r \in DOMAIN runs, ShownFits(r), Step(r)
  PROVE  FolderStep(r)
<1> DEFINE folder == runs[r].folder
<1>1. RunMoves(r)
  BY StepMoves
<1>2. CASE folders' = folders /\ ~WriteSidecar(r)
  BY <1>2 DEF FolderStep, FolderShape
<1>3. ASSUME NEW content, NEW fields, Writes(r, content, fields), runs[r].pc \in Written
      PROVE  /\ folder \in DOMAIN folders /\ runs'[r].made /\ DOMAIN folders' = DOMAIN folders
             /\ DOMAIN folders[folder] = FolderKeys
             /\ folders'[folder] = content
             /\ \A f \in DOMAIN folders \ {folder} : folders'[f] = folders[f]
  <2>1. folder \in DOMAIN folders /\ runs[r].made
    BY <1>3 DEF Inv, FolderFits
  <2> QED BY <1>1, <1>3, <2>1 DEF Writes, RunMoves, FolderShape
<1>4. CASE WriteFrame(r)
  <2>1. PICK content, fields :
          /\ Writes(r, content, fields)
          /\ \E images, meta :
               content = [folders[folder] EXCEPT !.images = images, !.meta = meta]
    BY <1>4 DEF WriteFrame
  <2>2. runs[r].pc \in Written /\ runs[r].pc # "sidecar"
    BY <1>4 DEF WriteFrame, Written
  <2>3. ~WriteSidecar(r)
    BY <2>2 DEF WriteSidecar
  <2>4. DOMAIN content = FolderKeys /\ content.sidecar = folders[folder].sidecar
    BY <1>3, <2>1, <2>2 DEF FolderKeys
  <2> QED BY <1>3, <2>1, <2>2, <2>3, <2>4 DEF FolderStep, FolderShape
<1>5. CASE Reduce(r)
  <2>1. PICK content, fields :
          /\ Writes(r, content, fields)
          /\ \E movie : content = [folders[folder] EXCEPT !.movie = movie]
    BY <1>5 DEF Reduce
  <2>2. runs[r].pc \in Written /\ runs[r].pc # "sidecar"
    BY <1>5 DEF Reduce, Written
  <2>3. ~WriteSidecar(r)
    BY <2>2 DEF WriteSidecar
  <2>4. DOMAIN content = FolderKeys /\ content.sidecar = folders[folder].sidecar
    BY <1>3, <2>1, <2>2 DEF FolderKeys
  <2> QED BY <1>3, <2>1, <2>2, <2>3, <2>4 DEF FolderStep, FolderShape
<1>6. CASE WriteSidecar(r)
  <2>1. PICK content, fields :
          /\ Writes(r, content, fields)
          /\ \E frames, corrected, cal :
               content = [folders[folder] EXCEPT !.sidecar =
                           [params |-> SidecarParams(runs[r].params), frames |-> frames,
                            corrected |-> corrected, calibration |-> cal]]
    BY <1>6 DEF WriteSidecar
  <2>2. runs[r].pc \in Written
    BY <1>6 DEF WriteSidecar, Written
  <2>3. /\ DOMAIN content = FolderKeys
        /\ content.sidecar.params = SidecarParams(runs[r].params)
        /\ "params" \in DOMAIN content.sidecar
    BY <1>3, <2>1, <2>2 DEF FolderKeys
  <2>4. content.sidecar # <<>>
    BY <2>3
  <2>5. runs'[r].folder = folder /\ runs'[r].params = runs[r].params
    BY <1>1, <1>3, <2>1, <2>2 DEF RunMoves
  <2>6. IsSaved(r)'
    BY <1>3, <2>1, <2>2, <2>3, <2>4, <2>5 DEF IsSaved
  <2> QED BY <1>3, <1>6, <2>1, <2>2, <2>3, <2>6 DEF FolderStep, FolderShape
<1>7. CASE Make(r)
  <2>1. /\ runs[r].pc = "make"
        /\ folders' = [f \in DOMAIN folders \cup {folder} |->
                        IF f = folder
                        THEN IF folder \in DOMAIN folders THEN folders[folder] ELSE EmptyFolder
                        ELSE folders[f]]
    BY <1>7 DEF Make, Writes
  <2>2. folder.base \in Bases
    BY <2>1 DEF ShownFits
  <2>3. DOMAIN EmptyFolder = FolderKeys
    BY DEF EmptyFolder, FolderKeys
  <2>4. ~WriteSidecar(r)
    BY <2>1 DEF WriteSidecar
  <2>5. \A f \in DOMAIN folders : folders'[f] = folders[f]
    BY <2>1
  <2> QED BY <2>1, <2>2, <2>3, <2>4, <2>5 DEF FolderStep, FolderShape
<1>8. CASE ~WriteFrame(r) /\ ~Reduce(r) /\ ~WriteSidecar(r) /\ ~Make(r)
  <2>1. ASSUME NEW data, NEW frames, NEW fields, Received(r, data, frames, fields)
        PROVE  folders' = folders
    BY <2>1 DEF Received, Advance, Fail, disk
  <2>2. CASE IntensityExchange(r) \/ GatedExchange(r) \/ PacedExchange(r)
    <3>1. folders' = folders
      BY <2>1, <2>2 DEF IntensityExchange, GatedExchange, PacedExchange, Fail, Advance, disk
    <3> QED BY <1>2, <1>8, <3>1
  <2>3. CASE FlimExchange(r) \/ CalibrationEnds(r) \/ ExchangeFails(r) \/ Boundary(r) \/ Correct(r)
    <3>1. folders' = folders
      BY <2>3 DEF FlimExchange, CalibrationEnds, ExchangeFails, Boundary, Correct, Broken, Fail,
                  Advance, disk
    <3> QED BY <1>2, <1>8, <3>1
  <2>4. CASE List(r) \/ SaveFails(r) \/ Finish(r) \/ GraceExpires(r) \/ Answer(r)
    <3>1. folders' = folders
      BY <2>4 DEF List, SaveFails, Finish, GraceExpires, Answer, Broken, Advance, disk
    <3> QED BY <1>2, <1>8, <3>1
  <2> QED BY <1>8, <2>2, <2>3, <2>4 DEF Step
<1> QED BY <1>4, <1>5, <1>6, <1>7, <1>8

(* The entry of a run that is over.                                         *)
AnswerEntry(r) == IF runs[r].via # "schedule" THEN Len(log) + 1 ELSE runs[r].entry

(* Paths are only logged when a run is over, with the entry of the run.     *)
PathStep(r, e) ==
  \/ e \in DOMAIN log /\ log'[e].path = log[e].path
  \/ e \notin DOMAIN log /\ log'[e].path = NoFolder
  \/ Answer(r) /\ e = AnswerEntry(r) /\ log'[e].path = runs[r].shown /\ log'[e].run = r

(* See PathStep.                                                            *)
LEMMA StepPaths ==
  ASSUME LogInv, NEW r \in DOMAIN runs, Step(r)
  PROVE  \A e \in DOMAIN log' : PathStep(r, e)
<1>1. IsSeq(log)
  BY DEF LogInv
<1>2. CASE ~Answer(r) /\ ~GraceExpires(r)
  <2>1. log' = log
    <3>1. ASSUME NEW data, NEW frames, NEW fields, Received(r, data, frames, fields)
          PROVE  log' = log
      BY <3>1 DEF Received, Advance, Fail, disk
    <3>2. CASE IntensityExchange(r) \/ GatedExchange(r) \/ PacedExchange(r)
      BY <3>1, <3>2 DEF IntensityExchange, GatedExchange, PacedExchange, Fail, Advance, disk
    <3>3. CASE FlimExchange(r) \/ CalibrationEnds(r) \/ ExchangeFails(r) \/ Boundary(r) \/ Correct(r)
      BY <3>3 DEF FlimExchange, CalibrationEnds, ExchangeFails, Boundary, Correct, Broken, Fail,
                  Advance, disk
    <3>4. CASE List(r) \/ Make(r) \/ WriteFrame(r) \/ WriteSidecar(r) \/ Reduce(r) \/ SaveFails(r)
      BY <3>4 DEF List, Make, WriteFrame, WriteSidecar, Reduce, SaveFails, Broken, Writes, Advance,
                  disk
    <3>5. CASE Finish(r)
      BY <3>5 DEF Finish, disk
    <3> QED BY <1>2, <3>2, <3>3, <3>4, <3>5 DEF Step
  <2> QED BY <2>1 DEF PathStep
<1>3. ASSUME NEW path, log' = Append(log, Entry(r, path))
      PROVE  \A e \in DOMAIN log' :
               \/ e \in DOMAIN log /\ log'[e] = log[e]
               \/ e = Len(log) + 1 /\ e \notin DOMAIN log /\ log'[e].path = path /\ log'[e].run = r
  <2>1. Entry(r, path).path = path /\ Entry(r, path).run = r
    BY DEF Entry
  <2> QED BY <1>1, <1>3, <2>1, SeqAppend
<1>4. runs[r].via = "schedule" =>
        runs[r].entry \in DOMAIN log /\ log[runs[r].entry].run = r
          /\ DOMAIN log[runs[r].entry] = LogKeys
  BY DEF LogInv, RunFits, EntryFits
<1>5. ASSUME log' = LogOfRunning(r), Impatient(runs[r])
      PROVE  \A e \in DOMAIN log' : PathStep(r, e)
  <2>1. CASE log' = log
    BY <2>1 DEF PathStep
  <2>2. CASE log' = Append(log, Entry(r, NoFolder))
    BY <1>3, <2>2 DEF PathStep
  <2>3. CASE runs[r].via = "schedule" /\ log' = [log EXCEPT ![runs[r].entry].state = "completed"]
    <3>1. log'[runs[r].entry].path = log[runs[r].entry].path
      BY <1>4, <2>3 DEF LogKeys
    <3>2. DOMAIN log' = DOMAIN log /\ \A e \in DOMAIN log \ {runs[r].entry} : log'[e] = log[e]
      BY <2>3
    <3> QED BY <3>1, <3>2 DEF PathStep
  <2> QED BY <1>5, <2>1, <2>2, <2>3 DEF LogOfRunning, Impatient
<1>6. CASE Answer(r) /\ log' = LogWith(r, runs[r].shown)
  <2>1. log' = LogWith(r, runs[r].shown)
    BY <1>6
  <2>2. CASE runs[r].via # "schedule"
    <3>1. PICK path : path = runs[r].shown
      OBVIOUS
    <3>2. log' = Append(log, Entry(r, path))
      BY <2>1, <2>2, <3>1 DEF LogWith
    <3> QED BY <1>3, <1>6, <2>2, <3>1, <3>2 DEF PathStep, AnswerEntry
  <2>3. CASE runs[r].via = "schedule"
    <3>1. PICK n, path : /\ n = runs[r].entry
                         /\ path = IF runs[r].status = "raised" THEN log[n].path ELSE runs[r].shown
      OBVIOUS
    <3>2. PICK state : log' = [log EXCEPT ![n].path = path, ![n].state = state]
      BY <2>1, <2>3, <3>1 DEF LogWith
    <3>3. /\ log'[n].path = path /\ log'[n].run = r /\ n \in DOMAIN log
      BY <1>4, <2>3, <3>1, <3>2 DEF LogKeys
    <3>4. DOMAIN log' = DOMAIN log /\ \A e \in DOMAIN log \ {n} : log'[e] = log[e]
      BY <3>2
    <3> QED BY <1>6, <2>3, <3>1, <3>3, <3>4 DEF PathStep, AnswerEntry
  <2> QED BY <2>2, <2>3
<1>7. CASE GraceExpires(r)
  BY <1>5, <1>7 DEF GraceExpires
<1>8. CASE Answer(r)
  BY <1>5, <1>6, <1>8 DEF Answer
<1> QED BY <1>2, <1>7, <1>8

(* A step of a run keeps the invariant of the paths.                        *)
LEMMA StepPathInv ==
  ASSUME Inv, LogInv, OthersFit, PathInv, NEW r \in DOMAIN runs, Step(r)
  PROVE  PathInv'
<1>1. /\ RunMoves(r) /\ DOMAIN runs' = DOMAIN runs
      /\ \A s \in DOMAIN runs \ {r} : runs'[s] = runs[s]
  BY StepMoves
<1>2. FolderStep(r)
  BY StepFolders DEF PathInv
<1>3. ASSUME NEW s \in DOMAIN runs
      PROVE  /\ runs'[s].params = runs[s].params
             /\ runs[s].made => runs'[s].made
             /\ runs'[s].made => runs'[s].folder = runs[s].folder
  BY <1>1 DEF RunMoves
<1>4. ASSUME NEW s \in DOMAIN runs PROVE ShownFits(s)'
  <2>1. ShownFits(s)
    BY DEF PathInv
  <2>2. (runs[s].pc = "make" \/ runs[s].made => IsFolder(runs[s].folder) /\ runs[s].folder.base \in Bases)'
    BY <1>1, <2>1 DEF ShownFits, RunMoves
  <2>3. CASE s = r /\ WriteSidecar(r) /\ runs[r].made
                /\ runs'[r].shown = DisplayPath(savePath, runs[r].folder)
    <3>1. IsSaved(r)'
      BY <1>2, <2>3 DEF FolderStep
    <3>2. runs'[r].made /\ runs'[r].folder = runs[r].folder
      BY <1>3, <2>3
    <3>3. savePath \in SavePaths \cup {NoPath}
      BY DEF OthersFit
    <3> QED BY <2>2, <2>3, <3>1, <3>2, <3>3 DEF ShownFits
  <2>4. CASE runs'[s].shown = runs[s].shown /\ ~(s = r /\ WriteSidecar(r))
    <3> SUFFICES ASSUME runs'[s].shown # NoFolder
                 PROVE  /\ runs'[s].made
                        /\ \E sp \in SavePaths \cup {NoPath} :
                             runs'[s].shown = DisplayPath(sp, runs'[s].folder)
                        /\ Alone(s)' => IsSaved(s)'
      BY <2>2 DEF ShownFits
    <3>1. runs[s].made /\ runs'[s].made /\ runs'[s].folder = runs[s].folder
      BY <1>3, <2>1, <2>4 DEF ShownFits
    <3>2. \E sp \in SavePaths \cup {NoPath} : runs'[s].shown = DisplayPath(sp, runs'[s].folder)
      BY <2>1, <2>4, <3>1 DEF ShownFits
    <3>3. ASSUME Alone(s)' PROVE IsSaved(s)'
      <4>1. Alone(s)
        <5>1. ASSUME NEW q \in DOMAIN runs, q # s, runs[q].made PROVE runs[q].folder # runs[s].folder
          <6>1. runs'[q].made /\ runs'[q].folder = runs[q].folder
            BY <1>3, <5>1
          <6> QED BY <1>1, <3>1, <3>3, <5>1, <6>1 DEF Alone
        <5> QED BY <3>1, <5>1 DEF Alone
      <4>2. IsSaved(s) /\ runs[s].folder \in DOMAIN folders
        BY <2>1, <2>4, <3>1, <4>1 DEF ShownFits, Inv, FolderFits
      <4>3. folders'[runs[s].folder].sidecar = folders[runs[s].folder].sidecar
        <5>1. CASE s = r
          BY <1>2, <2>4, <4>2, <5>1 DEF FolderStep
        <5>2. CASE s # r
          <6>1. ~(runs'[r].made /\ runs[r].folder = runs[s].folder)
            <7> SUFFICES ASSUME runs'[r].made, runs[r].folder = runs[s].folder PROVE FALSE
              OBVIOUS
            <7>1. runs'[r].folder = runs[r].folder
              BY <1>3
            <7> QED BY <1>1, <3>1, <3>3, <5>2, <7>1 DEF Alone
          <6> QED BY <1>2, <4>2, <6>1 DEF FolderStep
        <5> QED BY <5>1, <5>2
      <4> QED BY <1>3, <3>1, <4>2, <4>3 DEF IsSaved
    <3> QED BY <3>1, <3>2, <3>3
  <2>5. CASE s = r /\ WriteSidecar(r) /\ runs'[r].shown = runs[r].shown /\ runs[r].shown # NoFolder
    <3>1. IsSaved(r)' /\ runs[r].made /\ runs'[r].made /\ runs'[r].folder = runs[r].folder
      BY <1>2, <1>3, <2>1, <2>5 DEF FolderStep, ShownFits
    <3> QED BY <2>1, <2>2, <2>5, <3>1 DEF ShownFits
  <2>6. CASE s = r /\ runs'[r].shown = runs[r].shown /\ runs[r].shown = NoFolder
    BY <2>2, <2>6 DEF ShownFits
  <2> QED BY <1>1, <2>3, <2>4, <2>5, <2>6 DEF RunMoves
<1>5. \A e \in DOMAIN log' : PathStep(r, e)
  BY StepPaths
<1>6. /\ LogKept
      /\ \A e \in DOMAIN log' \ DOMAIN log : log'[e].run = r
  BY StepLog, LoggedStep
<1>7. runs[r].pc # "over"
  BY <1>1 DEF RunMoves
<1>8. ASSUME Answer(r)
      PROVE  runs'[r].pc = "over" /\ runs'[r].shown = runs[r].shown
  <2>1. Goes(r, Over)
    BY <1>8 DEF Answer
  <2>2. DOMAIN Over = {"pc", "wire", "stack", "view", "reference"} /\ Over.pc = "over"
    BY DEF Over
  <2>3. DOMAIN Over \subseteq AllKeys
    BY <2>2 DEF AllKeys
  <2>4. PICK o : o = Over
    OBVIOUS
  <2>5. /\ \A k \in DOMAIN o : runs'[r][k] = o[k]
        /\ \A k \in AllKeys \ DOMAIN o : runs'[r][k] = runs[r][k]
    BY <2>1, <2>3, <2>4, GoesOn DEF LogInv
  <2> QED BY <2>2, <2>4, <2>5 DEF AllKeys
<1>9. ASSUME NEW e \in DOMAIN log' PROVE PathFits(e)'
  <2>1. CASE e \in DOMAIN log /\ log'[e].path = log[e].path
    <3>1. PathFits(e) /\ log'[e].run = log[e].run
      BY <1>6, <2>1 DEF PathInv, LogKept
    <3> QED BY <1>1, <1>7, <2>1, <3>1 DEF PathFits
  <2>2. CASE log'[e].path = NoFolder
    BY <2>2 DEF PathFits
  <2>3. CASE Answer(r) /\ log'[e].path = runs[r].shown /\ log'[e].run = r
    BY <1>1, <1>8, <2>3 DEF PathFits
  <2> QED BY <1>5, <2>1, <2>2, <2>3 DEF PathStep
<1>10. ASSUME NEW e \in DOMAIN log', NEW f \in DOMAIN log', e # f PROVE OnePath(e, f)'
  <2> SUFFICES ASSUME log'[e].run = log'[f].run, log'[e].path # NoFolder, log'[f].path # NoFolder
               PROVE  FALSE
    BY DEF OnePath
  <2>1. ASSUME NEW g \in DOMAIN log', log'[g].path # NoFolder
        PROVE  \/ /\ g \in DOMAIN log /\ log[g].path # NoFolder /\ log'[g].run = log[g].run
                  /\ log[g].run # r
               \/ Answer(r) /\ g = AnswerEntry(r) /\ log'[g].run = r
    <3>1. CASE g \in DOMAIN log /\ log'[g].path = log[g].path
      <4>1. PathFits(g) /\ log'[g].run = log[g].run
        BY <1>6, <3>1 DEF PathInv, LogKept
      <4> QED BY <1>7, <2>1, <3>1, <4>1 DEF PathFits
    <3> QED BY <1>5, <2>1, <3>1 DEF PathStep
  <2>2. CASE e \in DOMAIN log /\ log[e].path # NoFolder /\ f \in DOMAIN log /\ log[f].path # NoFolder
               /\ log'[e].run = log[e].run /\ log'[f].run = log[f].run
    BY <1>10, <2>2 DEF PathInv, OnePath
  <2> QED BY <1>10, <2>1, <2>2
<1> QED
  BY <1>1, <1>2, <1>4, <1>9, <1>10 DEF PathInv, FolderStep

(* Steps that change neither folders nor what has been shown.               *)
LEMMA StillPathInv ==
  ASSUME LogInv, PathInv, folders' = folders, DOMAIN runs \subseteq DOMAIN runs',
         \A r \in DOMAIN runs :
           /\ runs'[r].params = runs[r].params /\ runs'[r].made = runs[r].made
           /\ runs'[r].folder = runs[r].folder /\ runs'[r].shown = runs[r].shown
           /\ runs'[r].pc = "make" => runs[r].pc = "make"
           /\ runs[r].pc = "over" => runs'[r].pc = "over",
         \A r \in DOMAIN runs' \ DOMAIN runs :
           runs'[r].pc # "make" /\ ~runs'[r].made /\ runs'[r].shown = NoFolder,
         \A e \in DOMAIN log' \ DOMAIN log : log'[e].path = NoFolder,
         \A e \in DOMAIN log' \cap DOMAIN log :
           /\ log'[e].path = log[e].path
           /\ log[e].run \in DOMAIN runs => log'[e].run = log[e].run
  PROVE  PathInv'
<1>1. ASSUME NEW r \in DOMAIN runs' PROVE ShownFits(r)'
  <2>1. CASE r \in DOMAIN runs
    <3>1. ShownFits(r)
      BY <2>1 DEF PathInv
    <3>2. Alone(r)' => Alone(r)
      BY <2>1 DEF Alone
    <3>3. IsSaved(r) => IsSaved(r)'
      BY <2>1 DEF IsSaved
    <3> QED BY <2>1, <3>1, <3>2, <3>3 DEF ShownFits
  <2>2. CASE r \notin DOMAIN runs
    BY <2>2 DEF ShownFits
  <2> QED BY <2>1, <2>2
<1>2. ASSUME NEW e \in DOMAIN log', log'[e].path # NoFolder
      PROVE  /\ e \in DOMAIN log /\ log'[e].path = log[e].path /\ log'[e].run = log[e].run
             /\ log[e].run \in DOMAIN runs /\ PathFits(e)
  BY <1>2 DEF PathInv, PathFits
<1>3. ASSUME NEW e \in DOMAIN log' PROVE PathFits(e)'
  BY <1>2 DEF PathFits
<1>4. ASSUME NEW e \in DOMAIN log', NEW f \in DOMAIN log', e # f PROVE OnePath(e, f)'
  BY <1>2, <1>4 DEF PathInv, OnePath
<1> QED BY <1>1, <1>3, <1>4 DEF PathInv, FolderShape

(* An admission has neither folder nor path, and its entry had none.        *)
LEMMA TakesPathInv ==
  ASSUME LogInv, PathInv, NEW via, NEW mode, NEW body, NEW p, NEW entry,
         Takes(via, mode, body, p, entry), LogTaken(via, mode, body, p, entry)
  PROVE  PathInv'
<1> DEFINE n == Len(runs) + 1
           new == NewRun(via, mode, body, p, entry)
<1>1. /\ n \notin DOMAIN runs /\ DOMAIN runs' = DOMAIN runs \cup {n}
      /\ \A r \in DOMAIN runs : runs'[r] = runs[r]
      /\ runs'[n] = new
  BY TakesRuns DEF LogInv
<1>2. new.pc # "make" /\ ~new.made /\ new.shown = NoFolder
  BY NewRunFields
<1>3. folders' = folders
  BY DEF Takes
<1>4. DOMAIN log' = DOMAIN log /\ \A e \in DOMAIN log : log'[e].path = log[e].path
                                  /\ (log[e].run \in DOMAIN runs => log'[e].run = log[e].run)
  <2>1. CASE via # "schedule"
    BY <2>1 DEF LogTaken
  <2>2. CASE via = "schedule"
    <3> DEFINE after == [log[entry] EXCEPT !.state = "running", !.run = n]
    <3>1. entry \in DOMAIN log /\ log[entry].run = 0 /\ DOMAIN log[entry] = LogKeys
      BY <2>2 DEF LogTaken, LogInv, JobFits, EntryFits
    <3>2. after.path = log[entry].path
      BY <3>1 DEF LogKeys
    <3>3. log' = [log EXCEPT ![entry] = after]
      BY <2>2 DEF LogTaken
    <3>4. 0 \notin DOMAIN runs
      BY NoneIsZero DEF LogInv, RunsFull
    <3> HIDE DEF after
    <3> QED BY <3>1, <3>2, <3>3, <3>4
  <2> QED BY <2>1, <2>2
<1> HIDE DEF n, new
<1> QED BY <1>1, <1>2, <1>3, <1>4, StillPathInv

(* See RequestEffect.                                                       *)
LEMMA RequestPathInv == LogInv /\ PathInv /\ Request => PathInv'
<1> SUFFICES ASSUME LogInv, PathInv, Request PROVE PathInv'
  OBVIOUS
<1>1. ASSUME NEW via, NEW mode, NEW body, NEW p, NEW entry, Takes(via, mode, body, p, entry),
             via # "schedule", UNCHANGED <<log, jobs>>
      PROVE  PathInv'
  <2>1. LogTaken(via, mode, body, p, entry)
    BY <1>1 DEF LogTaken
  <2> QED BY <1>1, <2>1, TakesPathInv
<1>2. ASSUME NEW new, Noted(new) PROVE PathInv'
  <2>1. /\ DOMAIN log' = DOMAIN log \cup {Len(log) + 1}
        /\ log'[Len(log) + 1] = new /\ \A e \in DOMAIN log : log'[e] = log[e]
    BY <1>2, SeqAppend DEF Noted, LogInv
  <2>2. new.path = NoFolder /\ runs' = runs /\ folders' = folders
    BY <1>2 DEF Noted
  <2> QED BY <2>1, <2>2, StillPathInv
<1> QED BY <1>1, <1>2, RequestEffect

(* A job that starts, or does not.                                          *)
LEMMA JobPathInv == ASSUME LogInv, PathInv, NEW e \in jobs, StartJob(e) PROVE PathInv'
<1>1. e \in DOMAIN log /\ DOMAIN log[e] = LogKeys
  BY DEF LogInv, JobFits, EntryFits
<1>2. CASE /\ Takes("schedule", log[e].mode, log[e].params, ParamsOf(log[e].mode, log[e].params), e)
           /\ log' = [log EXCEPT ![e].state = "running", ![e].run = Len(runs) + 1]
  <2>1. PICK mode, body, p :
          mode = log[e].mode /\ body = log[e].params /\ p = ParamsOf(log[e].mode, log[e].params)
    OBVIOUS
  <2>2. log' = [log EXCEPT ![e] = [log[e] EXCEPT !.state = "running", !.run = Len(runs) + 1]]
    BY <1>1, <1>2
  <2>3. LogTaken("schedule", mode, body, p, e)
    BY <2>1, <2>2 DEF LogTaken, StartJob
  <2> QED BY <1>2, <2>1, <2>3, TakesPathInv
<1>3. CASE log' = [log EXCEPT ![e].state = "failed"] /\ UNCHANGED <<runs, folders>>
  <2>1. DOMAIN log' = DOMAIN log /\ \A f \in DOMAIN log \ {e} : log'[f] = log[f]
    BY <1>3
  <2>2. log'[e].path = log[e].path /\ log'[e].run = log[e].run
    BY <1>1, <1>3 DEF LogKeys
  <2> QED BY <1>3, <2>1, <2>2, StillPathInv
<1> QED BY <1>2, <1>3 DEF StartJob

(* A restart ends the runs and leaves what is on the disk.                  *)
LEMMA CrashPathInv == LogInv /\ PathInv /\ Crash => PathInv'
<1> SUFFICES ASSUME LogInv, PathInv, Crash PROVE PathInv'
  OBVIOUS
<1> DEFINE fields == With(Over, [status |-> "lost"])
           after(r) == IF runs[r].pc = "over" THEN runs[r] ELSE With(runs[r], fields)
<1>1. runs' = [r \in DOMAIN runs |-> after(r)] /\ log' = log /\ folders' = folders
  BY DEF Crash, disk
<1>2. DOMAIN fields = {"pc", "wire", "stack", "view", "reference", "status"} /\ fields["pc"] = "over"
  <2>1. DOMAIN fields = DOMAIN Over \cup {"status"}
    BY WithDomain
  <2>2. fields["pc"] = Over["pc"]
    BY WithOld DEF Over
  <2> QED BY <2>1, <2>2 DEF Over
<1> HIDE DEF fields
<1>3. ASSUME NEW r \in DOMAIN runs
      PROVE  /\ \A k \in {"params", "made", "folder", "shown"} : runs'[r][k] = runs[r][k]
             /\ runs'[r].pc = "over"
  <2>1. DOMAIN runs[r] = AllKeys
    BY DEF LogInv, RunsFull
  <2>2. CASE runs[r].pc = "over"
    BY <1>1, <2>2
  <2>3. CASE runs[r].pc # "over"
    <3>1. runs'[r] = With(runs[r], fields)
      BY <1>1, <2>3
    <3>2. \A k \in {"params", "made", "folder", "shown"} : With(runs[r], fields)[k] = runs[r][k]
      BY <1>2, <2>1, WithOld DEF AllKeys
    <3>3. With(runs[r], fields)["pc"] = "over"
      BY <1>2, WithNew
    <3> QED BY <3>1, <3>2, <3>3
  <2> QED BY <2>2, <2>3
<1>4. DOMAIN runs' = DOMAIN runs
  BY <1>1
<1> QED BY <1>1, <1>3, <1>4, StillPathInv

(* The invariant of the paths holds after every step.                       *)
LEMMA NextPathInv == Inv /\ LogInv /\ OthersFit /\ PathInv /\ [Next]_vars => PathInv'
<1> SUFFICES ASSUME Inv, LogInv, OthersFit, PathInv, [Next]_vars PROVE PathInv'
  OBVIOUS
<1>1. CASE SetSavePath \/ calibration_status \/ RequestStop \/ StopReturns \/ UNCHANGED vars
  <2>1. UNCHANGED <<runs, folders, log>>
    BY <1>1 DEF SetSavePath, calibration_status, RequestStop, StopReturns, vars, disk
  <2> QED BY <2>1, StillPathInv
<1> QED
  BY <1>1, StepPathInv, RequestPathInv, JobPathInv, CrashPathInv DEF Next

(* And at the start.                                                        *)
LEMMA InitPathInv == Init => PathInv
<1> SUFFICES ASSUME Init PROVE PathInv
  OBVIOUS
<1>1. runs = <<>> /\ log = <<>> /\ DOMAIN folders = {}
  BY DEF Init
<1>2. DOMAIN <<>> = {}
  OBVIOUS
<1> QED BY <1>1, <1>2 DEF PathInv, FolderShape

(* Where the paths fit, none leads astray.                                  *)
LEMMA PathsLead ==
  ASSUME RootApart, Inv, LogInv, OthersFit, PathInv
  PROVE  LoggedIsSaved
<1> SUFFICES ASSUME NEW e \in DOMAIN log,
                    Opened(DOMAIN folders, savePath, log[e].path) # NoFolder
             PROVE  LET r == log[e].run
                        found == Opened(DOMAIN folders, savePath, log[e].path)
                    IN  /\ found = runs[r].folder
                        /\ Alone(r) => folders[found].sidecar # <<>>
                                       /\ folders[found].sidecar.params = SidecarParams(runs[r].params)
                        /\ \A f \in DOMAIN log \ {e} : log[f].path = log[e].path => ~Alone(r)
  BY DEF LoggedIsSaved
<1> DEFINE r == log[e].run
<1>1. PICK now, all : now = savePath /\ all = DOMAIN folders
  OBVIOUS
<1>2. now \in SavePaths \cup {NoPath} /\ \A g \in all : g.base \in Bases
  BY <1>1 DEF OthersFit, PathInv, FolderShape
<1>3. log[e].path # NoFolder
  BY <1>1, <1>2, NowhereLeads
<1>4. r \in DOMAIN runs /\ log[e].path = runs[r].shown
  BY <1>3 DEF PathInv, PathFits
<1>5. ShownFits(r) /\ runs[r].shown # NoFolder
  BY <1>3, <1>4 DEF PathInv
<1>6. PICK sp \in SavePaths \cup {NoPath} : runs[r].shown = DisplayPath(sp, runs[r].folder)
  BY <1>5 DEF ShownFits
<1>7. IsFolder(runs[r].folder) /\ runs[r].folder.base \in Bases /\ runs[r].made
  BY <1>5 DEF ShownFits
<1>8. PICK folder : folder = runs[r].folder
  OBVIOUS
<1>9. Opened(all, now, DisplayPath(sp, folder)) \in {folder, NoFolder}
  BY <1>2, <1>7, <1>8, LeadsBack
<1>10. Opened(DOMAIN folders, savePath, log[e].path) = runs[r].folder
  BY <1>1, <1>4, <1>6, <1>8, <1>9
<1>11. Alone(r) => IsSaved(r)
  BY <1>5 DEF ShownFits
<1>12. ASSUME NEW f \in DOMAIN log \ {e}, log[f].path = log[e].path PROVE ~Alone(r)
  <2> DEFINE s == log[f].run
  <2>1. s # r
    BY <1>3, <1>12 DEF PathInv, OnePath
  <2>2. s \in DOMAIN runs /\ log[f].path = runs[s].shown
    BY <1>3, <1>12 DEF PathInv, PathFits
  <2>3. ShownFits(s) /\ runs[s].shown = runs[r].shown
    BY <1>4, <1>12, <2>2 DEF PathInv
  <2>4. PICK sq \in SavePaths \cup {NoPath} : runs[s].shown = DisplayPath(sq, runs[s].folder)
    BY <1>5, <2>3 DEF ShownFits
  <2>5. IsFolder(runs[s].folder) /\ runs[s].folder.base \in Bases /\ runs[s].made
    BY <1>5, <2>3 DEF ShownFits
  <2>6. PICK other : other = runs[s].folder
    OBVIOUS
  <2>7. folder = other
    BY <1>6, <1>7, <1>8, <2>3, <2>4, <2>5, <2>6, ShownApart
  <2> QED BY <1>8, <2>1, <2>2, <2>5, <2>6, <2>7 DEF Alone
<1> QED BY <1>10, <1>11, <1>12 DEF IsSaved

(* A path in the log leads to the folder its run saved, complete and with   *)
(* the run's parameters, or nowhere, whatever the save path was when the    *)
(* run was saved and is now, after restarts and beside a run that a stop    *)
(* has given up on; and from one entry only.  Provided no save path on the  *)
(* bridge's host is below its own data directory.                           *)
(* (display_path, resolve, _record_acquisition, ExperimentLog.update)       *)
THEOREM LoggedPathsSaved == RootApart /\ Spec => []LoggedIsSaved
<1> SUFFICES ASSUME RootApart PROVE Spec => []LoggedIsSaved
  OBVIOUS
<1>1. Init => Inv /\ LogInv /\ OthersFit /\ PathInv
  <2>1. Init => OthersFit
    BY DEF Init, OthersFit
  <2> QED BY <2>1, InitInv, InitLogInv, InitPathInv
<1>2. Inv /\ LogInv /\ OthersFit /\ PathInv /\ [Next]_vars => (Inv /\ LogInv /\ OthersFit /\ PathInv)'
  BY NextInv, NextLogInv, NextOthers, NextPathInv
<1>3. Inv /\ LogInv /\ OthersFit /\ PathInv => LoggedIsSaved
  BY PathsLead
<1> QED
  BY <1>1, <1>2, <1>3, PTL DEF Spec
=============================================================================
