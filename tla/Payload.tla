------------------------------ MODULE Payload ------------------------------
(***************************************************************************)
(* What travels between the bridge and the camera: the acquisition         *)
(* commands, the bytes that answer them (as the mock of the vendor's       *)
(* server sends them), the frames the bridge makes of the bytes, and the   *)
(* frames the vendor's own client (cSPAD.py) would make of them.           *)
(*                                                                         *)
(* A frame is the sequence of its counts, row by row.  A byte is a number, *)
(* a byte of a packed 1-bit frame the tuple of its eight bits.             *)
(***************************************************************************)
EXTENDS Integers, Sequences, SequencesExt

CONSTANTS
  Rows,             \* sensor_size: the rows of a frame, and the width of a full one
  Light(_, _, _, _) \* what falls on a pixel: (run, iteration, gate offset, pixel)

ASSUME PayloadAssumption ==
  /\ Rows \in Nat \ {0}
  /\ (Rows * Rows) % 8 = 0

IntBitDepths == {1, 4, 6, 7, 8, 9, 10, 11, 12}
GatedBitDepths == {6, 7, 8, 9, 10, 11, 12}

integration_time_unit(depth) == IF depth \in {1, 4} THEN "us" ELSE "ms"

BytesPerFrame(depth, width, pileup) ==
  CASE depth = 1 -> (Rows * Rows) \div 8
    [] depth # 1 /\ depth < 9 /\ ~pileup -> Rows * width
    [] OTHER -> Rows * width * 2

-----------------------------------------------------------------------------
(* Commands.                                                                *)

IntensityCommand(p, n) ==
  [head |-> "I", depth |-> p.depth, time |-> p.time, iterations |-> n, width |-> p.width]

GatedCommand(p, steps, offset, dir, arbitrary) ==
  [head |-> "G", depth |-> p.depth, time |-> p.time, iterations |-> p.iterations,
   steps |-> steps, size |-> p.size, offset |-> offset, dir |-> dir, arbitrary |-> arbitrary]

-----------------------------------------------------------------------------
(* The camera.                                                              *)

ResolveBitDepth(depth) == IF depth \in IntBitDepths THEN depth ELSE 8
ResolveGatedBitDepth(depth) == IF depth \in GatedBitDepths THEN depth ELSE 8

(* The counters of the chip are as wide as the bit depth; correcting them   *)
(* for pile-up only makes them larger.  (The sensor: what the mock sends in *)
(* its place is synthetic.)                                                 *)
Expose(r, depth, width, pileup, i, offset) ==
  [px \in 1..(Rows * width) |->
     IF pileup THEN Light(r, i, offset, px) ELSE Light(r, i, offset, px) % 2^depth]

(* The gate offset of a step (from 0): a reverse sweep begins at the last   *)
(* one, an arbitrary one goes through the list that was sent before.        *)
GateOffset(cmd, list, s) ==
  CASE cmd.arbitrary -> list[s + 1]
    [] ~cmd.arbitrary /\ cmd.dir = "reverse" -> cmd.offset + (cmd.steps - 1 - s) * cmd.size
    [] ~cmd.arbitrary /\ cmd.dir # "reverse" -> cmd.offset + s * cmd.size

(* A 1-bit frame is padded to the full width before it is packed.           *)
PackBits(frame, width) ==
  LET bit(k) == IF k % Rows < width /\ frame[(k \div Rows) * width + (k % Rows) + 1] > 0
                THEN 1 ELSE 0
  IN  [b \in 1..((Rows * Rows) \div 8) |-> [j \in 1..8 |-> bit(8 * (b - 1) + j - 1)]]

EncodeOne(frame, depth, width, pileup) ==
  CASE depth = 1 -> PackBits(frame, width)
    [] depth # 1 /\ depth < 9 /\ ~pileup -> [k \in DOMAIN frame |-> frame[k] % 256]
    [] OTHER -> [k \in 1..(2 * Len(frame)) |->
                   LET count == frame[(k + 1) \div 2]
                   IN  IF k % 2 = 1 THEN count % 256 ELSE (count \div 256) % 256]

EncodeFrames(frames, depth, width, pileup) ==
  FlattenSeq([k \in DOMAIN frames |-> EncodeOne(frames[k], depth, width, pileup)])

(* The iterations a batch asks for are the next ones of its run.            *)
HandleIntensity(r, cmd, pileup, first) ==
  LET depth == ResolveBitDepth(cmd.depth)
  IN  EncodeFrames([k \in 1..cmd.iterations |->
                      Expose(r, depth, cmd.width, pileup, first + k - 1, 0)],
                   depth, cmd.width, pileup)

(* One sweep over the gate steps per iteration, and never no frame at all.  *)
HandleGated(r, cmd, pileup, list) ==
  LET depth == ResolveGatedBitDepth(cmd.depth)
      asked == cmd.iterations * cmd.steps
  IN  EncodeFrames([k \in 1..(IF asked < 1 THEN 1 ELSE asked) |->
                      IF asked < 1 THEN Expose(r, depth, Rows, pileup, 0, cmd.offset)
                      ELSE Expose(r, depth, Rows, pileup, (k - 1) \div cmd.steps,
                                  GateOffset(cmd, list, (k - 1) % cmd.steps))],
                   depth, Rows, pileup)

(* A FLIM acquisition streams one count per line, gate after gate.          *)
HandleFlim(r, subsampling) ==
  LET gates == IF 8 \div subsampling < 4 THEN 4 ELSE 8 \div subsampling
  IN  FlattenSeq([g \in 1..gates |-> [px \in 1..(Rows * Rows) |-> Light(r, g - 1, 0, px)]])

-----------------------------------------------------------------------------
(* What the bridge makes of the bytes.                                      *)

(* np.rot90 of a full frame.                                                *)
Rot90(frame) ==
  [k \in 1..(Rows * Rows) |->
     LET i == (k - 1) \div Rows
         j == (k - 1) % Rows
     IN  frame[j * Rows + (Rows - 1 - i) + 1]]

DecodeFrame(bytes, depth, pileup) ==
  CASE depth = 1 -> Rot90(FlattenSeq(bytes))
    [] depth # 1 /\ depth < 9 /\ ~pileup -> bytes
    [] OTHER -> [k \in 1..(Len(bytes) \div 2) |-> bytes[2 * k - 1] + 256 * bytes[2 * k]]

DecodeIntensity(data, depth, width, n, pileup) ==
  LET per == BytesPerFrame(depth, width, pileup)
  IN  [k \in 1..n |-> DecodeFrame(SubSeq(data, (k - 1) * per + 1, k * per), depth, pileup)]

(* The number of gates is not sent: it is what the counts suffice for.      *)
DecodeFlim(counts) ==
  [g \in 1..(Len(counts) \div (Rows * Rows)) |->
     SubSeq(counts, (g - 1) * Rows * Rows + 1, g * Rows * Rows)]

-----------------------------------------------------------------------------
(* What the vendor's client makes of the bytes of one frame: the reference. *)
(* It asks for the pile-up mode first, and has one loop per layout.         *)

Even(bytes) == [k \in 1..(Len(bytes) \div 2) |-> bytes[2 * k - 1]]
Odd(bytes) == [k \in 1..(Len(bytes) \div 2) |-> bytes[2 * k]]

VendorWords(bytes) ==
  LET low == Even(bytes)
      high == Odd(bytes)
  IN  [k \in DOMAIN low |-> high[k] * 256 + low[k]]

VendorImage(bytes, depth, pileup) ==
  CASE depth = 1 ->
         LET bits == FlattenSeq(bytes)
         IN  [k \in 1..(Rows * Rows) |->
                bits[((k - 1) % Rows) * Rows + Rows - ((k - 1) \div Rows)]]
    [] depth # 1 /\ pileup -> VendorWords(bytes)
    [] depth # 1 /\ ~pileup /\ depth < 9 -> bytes
    [] depth # 1 /\ ~pileup /\ depth >= 9 -> VendorWords(bytes)

VendorGatedImage(bytes, depth, pileup) ==
  IF pileup \/ depth >= 9 THEN VendorWords(bytes) ELSE bytes
=============================================================================
