----------------------------- MODULE DataProofs -----------------------------
(***************************************************************************)
(* What is saved is what was measured: theorems about the data of          *)
(* Measurement, from the bytes the camera sends to the files, the movie    *)
(* and the corrected view, for any sensor, any requests, any number of     *)
(* runs, failures and restarts.                                            *)
(*                                                                         *)
(* The lists that travel are flattened and cut again, which is defined by  *)
(* recursion.  Induction here is by the least number at which a statement  *)
(* would fail (Least).                                                     *)
(***************************************************************************)
EXTENDS LogProofs, WellFoundedInduction, FiniteSetTheorems

-----------------------------------------------------------------------------
(* Induction.                                                               *)

(* A set of natural numbers that is not empty has a least one.              *)
LEMMA Least ==
  ASSUME NEW T \in SUBSET Nat, T # {}
  PROVE  \E n \in T : \A m \in T : n <= m
<1>1. IsWellFoundedOn({ss \in Nat \X Nat : ss[1] < ss[2]}, Nat)
  BY NatLessThanWellFounded DEF OpToRel
<1>2. PICK R : R = {ss \in Nat \X Nat : ss[1] < ss[2]}
  OBVIOUS
<1>3. PICK n \in T : \A y \in T : <<y, n>> \notin R
  BY <1>1, <1>2, WFMin
<1>4. \A x, y \in Nat : y < x => <<y, x>> \in R
  BY <1>2
<1>5. ASSUME NEW m \in T PROVE n <= m
  <2>1. n \in Nat /\ m \in Nat
    OBVIOUS
  <2>2. ~ (m < n)
    BY <1>3, <1>4, <2>1
  <2> QED BY <2>1, <2>2
<1> QED BY <1>5

(* What no number is the first to fail holds for all of them.               *)
LEMMA NoneFirst ==
  ASSUME NEW T \in SUBSET Nat,
         \A n \in T : \E m \in T : m < n
  PROVE  T = {}
<1> SUFFICES ASSUME T # {} PROVE FALSE
  OBVIOUS
<1>1. PICK n \in T : \A m \in T : n <= m
  BY Least
<1>2. PICK m \in T : m < n
  OBVIOUS
<1>3. m \in Nat /\ n \in Nat /\ n <= m
  BY <1>1
<1> QED BY <1>2, <1>3

-----------------------------------------------------------------------------
(* Pieces of equal length.                                                  *)

Piece(data, per, k) == SubSeq(data, (k - 1) * per + 1, k * per)

(* Where a piece lies.                                                      *)
LEMMA PieceBounds ==
  ASSUME NEW per \in Nat, NEW n \in Nat, NEW k \in 1..n
  PROVE  /\ (k - 1) * per \in Nat /\ k * per \in Nat /\ n * per \in Nat
         /\ k * per <= n * per
         /\ k * per = (k - 1) * per + per
<1>1. k - 1 \in Nat /\ k \in Nat /\ n - k \in Nat
  OBVIOUS
<1>2. (k - 1) * per \in Nat /\ k * per \in Nat /\ n * per \in Nat /\ (n - k) * per \in Nat
  BY <1>1
<1>3. k * per = (k - 1) * per + per
  OBVIOUS
<1>4. n * per = k * per + (n - k) * per
  OBVIOUS
<1> QED BY <1>2, <1>3, <1>4

(* What is appended in whole pieces adds its pieces.                        *)
LEMMA PiecesAppended ==
  ASSUME NEW S, NEW per \in Nat, NEW n \in Nat, NEW m \in Nat,
         NEW d \in Seq(S), Len(d) = n * per,
         NEW e \in Seq(S), Len(e) = m * per
  PROVE  /\ d \o e \in Seq(S) /\ Len(d \o e) = (n + m) * per
         /\ \A k \in 1..n : Piece(d \o e, per, k) = Piece(d, per, k)
         /\ \A k \in 1..m : Piece(d \o e, per, n + k) = Piece(e, per, k)
<1>1. d \o e \in Seq(S) /\ Len(d \o e) = (n + m) * per
  <2>1. (n + m) * per = n * per + m * per
    OBVIOUS
  <2> QED BY <2>1
<1>2. ASSUME NEW k \in 1..n PROVE Piece(d \o e, per, k) = Piece(d, per, k)
  <2>1. PICK a : a = (k - 1) * per
    OBVIOUS
  <2>2. PICK b : b = k * per
    OBVIOUS
  <2>3. a \in Nat /\ b \in Nat /\ b <= Len(d)
    BY <2>1, <2>2, PieceBounds
  <2>4. SubSeq(d \o e, a + 1, b) = SubSeq(d, a + 1, b)
    BY <2>3
  <2> QED BY <2>1, <2>2, <2>4 DEF Piece
<1>3. ASSUME NEW k \in 1..m PROVE Piece(d \o e, per, n + k) = Piece(e, per, k)
  <2>1. PICK a : a = (k - 1) * per
    OBVIOUS
  <2>2. PICK b : b = k * per
    OBVIOUS
  <2>3. a \in Nat /\ b \in Nat /\ b <= Len(e)
    BY <2>1, <2>2, PieceBounds
  <2>4. (n + k - 1) * per = n * per + a /\ (n + k) * per = n * per + b
    BY <2>1, <2>2
  <2>5. SubSeq(d \o e, Len(d) + a + 1, Len(d) + b) = SubSeq(e, a + 1, b)
    BY <2>3
  <2>6. (n + k - 1) * per + 1 = Len(d) + a + 1 /\ (n + k) * per = Len(d) + b
    BY <2>3, <2>4
  <2>7. Piece(d \o e, per, n + k) = SubSeq(d \o e, (n + k - 1) * per + 1, (n + k) * per)
    BY DEF Piece
  <2>8. Piece(e, per, k) = SubSeq(e, a + 1, b)
    BY <2>1, <2>2 DEF Piece
  <2> QED BY <2>5, <2>6, <2>7, <2>8
<1> QED BY <1>1, <1>2, <1>3

(* So does one piece.                                                       *)
LEMMA PieceAppended ==
  ASSUME NEW S, NEW per \in Nat, NEW n \in Nat, NEW d, NEW e,
         d \in Seq(S) /\ Len(d) = n * per /\ e \in Seq(S) /\ Len(e) = per
  PROVE  /\ d \o e \in Seq(S) /\ Len(d \o e) = (n + 1) * per
         /\ \A k \in 1..n : Piece(d \o e, per, k) = Piece(d, per, k)
         /\ Piece(d \o e, per, n + 1) = e
<1>1. PICK a \in Nat : a = n * per
  OBVIOUS
<1>2. (n + 1) * per = a + per /\ (n + 1 - 1) * per = a
  BY <1>1
<1>3. d \o e \in Seq(S) /\ Len(d \o e) = a + per
  BY <1>1
<1>4. ASSUME NEW k \in 1..n PROVE Piece(d \o e, per, k) = Piece(d, per, k)
  <2>1. PICK b : b = (k - 1) * per
    OBVIOUS
  <2>2. PICK c : c = k * per
    OBVIOUS
  <2>3. b \in Nat /\ c \in Nat /\ c <= Len(d)
    BY <2>1, <2>2, PieceBounds
  <2>4. SubSeq(d \o e, b + 1, c) = SubSeq(d, b + 1, c)
    BY <2>3
  <2> QED BY <2>1, <2>2, <2>4 DEF Piece
<1>5. Piece(d \o e, per, n + 1) = e
  <2>1. SubSeq(d \o e, a + 1, a + per) = e
    BY <1>1
  <2> QED BY <1>2, <2>1 DEF Piece
<1> QED BY <1>2, <1>3, <1>4, <1>5

(* The lists a flattening goes through.                                     *)
Flattens(f, parts) ==
  f = [i \in 1..Len(parts) |-> IF i = 1 THEN parts[i] ELSE f[i - 1] \o parts[i]]

FlattensTo(g, parts, n) ==
  g = [i \in 1..n |-> IF i = 1 THEN parts[i] ELSE g[i - 1] \o parts[i]]

(* There are such lists.                                                    *)
LEMMA FlatteningExists ==
  ASSUME NEW parts, NEW m \in Nat \ {0}, Len(parts) = m
  PROVE  \E f : Flattens(f, parts)
<1> DEFINE T == {n \in Nat : n <= m /\ ~ \E g : FlattensTo(g, parts, n)}
<1>1. ASSUME NEW n \in T PROVE \E k \in T : k < n
  <2>1. n # 0
    <3>1. FlattensTo([i \in 1..0 |-> <<>>], parts, 0)
      BY DEF FlattensTo
    <3> QED BY <3>1
  <2>2. SUFFICES ASSUME n - 1 \notin T PROVE FALSE
    BY <2>1
  <2>3. PICK g : FlattensTo(g, parts, n - 1)
    BY <2>1, <2>2
  <2> DEFINE Longer == IF n = 1 THEN parts[1] ELSE g[n - 1] \o parts[n]
             h == [i \in 1..n |-> IF i = n THEN Longer ELSE g[i]]
  <2>4. ASSUME NEW i \in 1..n
        PROVE  h[i] = IF i = 1 THEN parts[i] ELSE h[i - 1] \o parts[i]
    <3>1. CASE i = n
      <4>1. h[n] = Longer
        OBVIOUS
      <4>2. n # 1 => n - 1 \in 1..n /\ h[n - 1] = g[n - 1]
        BY <2>1
      <4> HIDE DEF h
      <4> QED BY <3>1, <4>1, <4>2
    <3>2. CASE i # n
      <4>1. i \in 1..(n - 1) /\ h[i] = g[i]
        BY <3>2
      <4>2. i # 1 => i - 1 \in 1..(n - 1) /\ i - 1 \in 1..n /\ i - 1 # n
        BY <4>1
      <4>3. i # 1 => h[i - 1] = g[i - 1]
        BY <4>2
      <4>4. g[i] = IF i = 1 THEN parts[i] ELSE g[i - 1] \o parts[i]
        BY <2>3, <4>1 DEF FlattensTo
      <4> HIDE DEF h
      <4> QED BY <4>1, <4>3, <4>4
    <3> QED BY <3>1, <3>2
  <2>5. h = [i \in 1..n |-> IF i = 1 THEN parts[i] ELSE h[i - 1] \o parts[i]]
    <3>1. h = [i \in 1..n |-> h[i]]
      OBVIOUS
    <3> HIDE DEF h
    <3> QED BY <2>4, <3>1
  <2> HIDE DEF h
  <2> QED BY <2>5 DEF FlattensTo
<1>2. T = {}
  <2>1. T \in SUBSET Nat
    OBVIOUS
  <2> HIDE DEF T
  <2> QED BY <1>1, <2>1, NoneFirst
<1>3. \E g : FlattensTo(g, parts, m)
  BY <1>2
<1> QED BY <1>3 DEF Flattens, FlattensTo

(* So a list of lists is flattened as its definition says.                  *)
LEMMA FlattenIs ==
  ASSUME NEW parts, NEW m \in Nat \ {0}, Len(parts) = m
  PROVE  \E f : Flattens(f, parts) /\ FlattenSeq(parts) = f[m]
<1> DEFINE IsFlat(f) == f = [i \in 1..Len(parts) |-> IF i = 1 THEN parts[i] ELSE f[i - 1] \o parts[i]]
           chosen == CHOOSE f : IsFlat(f)
<1>1. IsFlat(chosen)
  BY FlatteningExists DEF Flattens
<1>2. FlattenSeq(parts) = chosen[m]
  BY DEF FlattenSeq
<1>3. Flattens(chosen, parts)
  BY <1>1 DEF Flattens
<1> QED BY <1>2, <1>3

(* Parts of equal length are the pieces of their list.                      *)
LEMMA FlattenPieces ==
  ASSUME NEW S, NEW per \in Nat, NEW m \in Nat \ {0}, NEW parts, Len(parts) = m,
         \A i \in 1..m : parts[i] \in Seq(S) /\ Len(parts[i]) = per
  PROVE  LET flat == FlattenSeq(parts)
         IN  /\ flat \in Seq(S) /\ Len(flat) = m * per
             /\ \A k \in 1..m : Piece(flat, per, k) = parts[k]
<1>1. PICK f : Flattens(f, parts) /\ FlattenSeq(parts) = f[m]
  BY FlattenIs
<1>2. \A i \in 1..m : f[i] = IF i = 1 THEN parts[i] ELSE f[i - 1] \o parts[i]
  BY <1>1 DEF Flattens
<1> DEFINE Good(i) == /\ f[i] \in Seq(S) /\ Len(f[i]) = i * per
                      /\ \A k \in 1..i : Piece(f[i], per, k) = parts[k]
           T == {n \in 1..m : ~Good(n)}
<1>3. ASSUME NEW n \in T PROVE \E k \in T : k < n
  <2>1. n # 1
    <3>1. f[1] = parts[1] /\ parts[1] \in Seq(S) /\ Len(parts[1]) = per
      BY <1>2
    <3>2. Piece(f[1], per, 1) = SubSeq(f[1], 1, Len(f[1]))
      BY <3>1 DEF Piece
    <3>3. Good(1)
      BY <3>1, <3>2
    <3> HIDE DEF Good
    <3> QED BY <3>3
  <2>2. SUFFICES ASSUME Good(n - 1) PROVE FALSE
    <3>1. n - 1 \in 1..m /\ n - 1 < n
      BY <2>1
    <3> HIDE DEF Good
    <3> QED BY <3>1, <2>2
  <2>3. n - 1 \in Nat /\ n \in 1..m /\ n - 1 + 1 = n
    BY <2>1
  <2>4. f[n] = f[n - 1] \o parts[n] /\ parts[n] \in Seq(S) /\ Len(parts[n]) = per
    BY <1>2, <2>1, <2>3
  <2>5. /\ f[n] \in Seq(S) /\ Len(f[n]) = n * per
        /\ \A k \in 1..(n - 1) : Piece(f[n], per, k) = Piece(f[n - 1], per, k)
        /\ Piece(f[n], per, n) = parts[n]
    <3>1. PICK d : d = f[n - 1]
      OBVIOUS
    <3>2. PICK e : e = parts[n]
      OBVIOUS
    <3>3. PICK p \in Nat : p = n - 1
      BY <2>3
    <3>4. d \in Seq(S) /\ Len(d) = p * per /\ e \in Seq(S) /\ Len(e) = per
      BY <2>2, <2>4, <3>1, <3>2, <3>3
    <3> HIDE DEF T, Good
    <3>5. /\ d \o e \in Seq(S) /\ Len(d \o e) = (p + 1) * per
          /\ \A k \in 1..p : Piece(d \o e, per, k) = Piece(d, per, k)
          /\ Piece(d \o e, per, p + 1) = e
      <4>1. per \in Nat /\ p \in Nat
        OBVIOUS
      <4> QED BY ONLY <3>4, <4>1, PieceAppended
    <3> QED BY <2>3, <2>4, <3>1, <3>2, <3>3, <3>5
  <2>6. \A k \in 1..n : k = n \/ k \in 1..(n - 1)
    BY <2>3
  <2>7. Good(n)
    BY <2>2, <2>5, <2>6
  <2> HIDE DEF Good
  <2> QED BY <2>7
<1>4. T = {}
  <2>1. T \in SUBSET Nat
    OBVIOUS
  <2> HIDE DEF T
  <2> QED BY <1>3, <2>1, NoneFirst
<1>5. Good(m)
  <2>1. m \in 1..m
    OBVIOUS
  <2> HIDE DEF Good
  <2> QED BY <1>4, <2>1
<1> QED BY <1>1, <1>5

-----------------------------------------------------------------------------
(* Frames.                                                                  *)

(* Sequences are functions.                                                 *)
LEMMA FunctionOf == ASSUME NEW S, NEW s \in Seq(S) PROVE s \in [1..Len(s) -> S]
OBVIOUS

(* Some functions are sequences.                                            *)
LEMMA SequenceOf ==
  ASSUME NEW S, NEW n \in Nat, NEW f \in [1..n -> S]
  PROVE  f \in Seq(S) /\ Len(f) = n
OBVIOUS

(* What falls on a pixel is a number of counts.                             *)
LightCounts == \A r, i, offset, px \in Int : Light(r, i, offset, px) \in Nat

Packed == [1..8 -> {0, 1}]
Bytes(depth) == IF depth = 1 THEN Packed ELSE 0..255

(* A counter has a range.                                                   *)
LEMMA Ranges == \A depth \in IntBitDepths : 2^depth \in Nat \ {0}
<1> SUFFICES ASSUME NEW depth \in IntBitDepths PROVE 2^depth \in Nat \ {0}
  OBVIOUS
<1>1. /\ 2^1 \in Nat \ {0} /\ 2^4 \in Nat \ {0} /\ 2^6 \in Nat \ {0}
      /\ 2^7 \in Nat \ {0} /\ 2^8 \in Nat \ {0} /\ 2^9 \in Nat \ {0}
      /\ 2^10 \in Nat \ {0} /\ 2^11 \in Nat \ {0} /\ 2^12 \in Nat \ {0}
  OBVIOUS
<1>2. \/ depth = 1 \/ depth = 4 \/ depth = 6 \/ depth = 7 \/ depth = 8
      \/ depth = 9 \/ depth = 10 \/ depth = 11 \/ depth = 12
  BY DEF IntBitDepths
<1> QED BY <1>1, <1>2, Zenon

(* An exposure is a frame of counts.                                        *)
LEMMA ExposedFrame ==
  ASSUME LightCounts, NEW r \in Int, NEW i \in Int, NEW offset \in Int, NEW pileup,
         NEW depth \in IntBitDepths, NEW width \in 1..Rows
  PROVE  LET frame == Expose(r, depth, width, pileup, i, offset)
         IN  frame \in Seq(Nat) /\ Len(frame) = Rows * width
<1>1. Rows * width \in Nat
  BY PayloadAssumption
<1>2. 2^depth \in Nat \ {0}
  BY Ranges
<1>3. \A px \in 1..(Rows * width) :
        /\ Light(r, i, offset, px) \in Nat
        /\ Light(r, i, offset, px) % 2^depth \in Nat
  <2> SUFFICES ASSUME NEW px \in 1..(Rows * width)
               PROVE  /\ Light(r, i, offset, px) \in Nat
                      /\ Light(r, i, offset, px) % 2^depth \in Nat
    OBVIOUS
  <2>0. px \in Int
    BY <1>1
  <2>1. PICK count \in Nat : count = Light(r, i, offset, px)
    BY <2>0 DEF LightCounts
  <2>2. PICK range \in Nat \ {0} : range = 2^depth
    BY <1>2
  <2>3. count % range \in Nat
    OBVIOUS
  <2> QED BY <2>1, <2>2, <2>3
<1> DEFINE n == Rows * width
           frame == Expose(r, depth, width, pileup, i, offset)
<1>4. frame = [px \in 1..n |-> IF pileup THEN Light(r, i, offset, px)
                               ELSE Light(r, i, offset, px) % 2^depth]
  BY DEF Expose
<1>5. \A px \in 1..n : frame[px] \in Nat
  BY <1>3, <1>4
<1>6. DOMAIN frame = 1..n /\ n \in Nat
  BY <1>1, <1>4
<1>7. frame \in [1..n -> Nat]
  BY <1>4, <1>5, <1>6
<1> HIDE DEF n, frame
<1>8. frame \in Seq(Nat) /\ Len(frame) = n
  BY <1>6, <1>7
<1> QED BY <1>8 DEF n, frame

(* What the camera sends for a frame is as long as the bridge expects.      *)
LEMMA EncodedFrame ==
  ASSUME NEW pileup, NEW depth \in IntBitDepths, NEW width \in 1..Rows,
         NEW frame \in Seq(Nat), Len(frame) = Rows * width
  PROVE  LET bytes == EncodeOne(frame, depth, width, pileup)
         IN  /\ bytes \in Seq(Bytes(depth))
             /\ Len(bytes) = BytesPerFrame(depth, width, pileup)
<1> DEFINE bytes == EncodeOne(frame, depth, width, pileup)
<1>0. PICK n \in Nat : n = Rows * width /\ Len(frame) = n
  BY PayloadAssumption
<1>1. CASE depth = 1
  <2>0. PICK m \in Nat : m = (Rows * Rows) \div 8
    BY PayloadAssumption
  <2> DEFINE bit(k) == IF k % Rows < width /\ frame[(k \div Rows) * width + (k % Rows) + 1] > 0
                       THEN 1 ELSE 0
  <2>1. bytes = PackBits(frame, width)
    BY <1>1 DEF EncodeOne
  <2>2. PackBits(frame, width)
          = [b \in 1..((Rows * Rows) \div 8) |-> [j \in 1..8 |-> bit(8 * (b - 1) + j - 1)]]
    BY DEF PackBits
  <2>3. \A k : bit(k) \in {0, 1}
    OBVIOUS
  <2> HIDE DEF bit, bytes
  <2>4. ASSUME NEW b \in 1..m
        PROVE  [j \in 1..8 |-> bit(8 * (b - 1) + j - 1)] \in Packed
    BY <2>3 DEF Packed
  <2>5. bytes \in [1..m -> Packed]
    BY <2>0, <2>1, <2>2, <2>4
  <2>6. bytes \in Seq(Packed) /\ Len(bytes) = m
    BY <2>5
  <2>7. Bytes(depth) = Packed /\ BytesPerFrame(depth, width, pileup) = m
    BY <1>1, <2>0 DEF Bytes, BytesPerFrame
  <2> QED BY <2>6, <2>7 DEF bytes
<1>2. CASE depth # 1 /\ depth < 9 /\ ~pileup
  <2>1. bytes = [k \in DOMAIN frame |-> frame[k] % 256]
    BY <1>2 DEF EncodeOne
  <2>2. DOMAIN frame = 1..n /\ \A k \in 1..n : frame[k] % 256 \in 0..255
    <3>1. DOMAIN frame = 1..n /\ \A k \in 1..n : frame[k] \in Nat
      BY <1>0
    <3>2. \A c \in Nat : c % 256 \in 0..255
      OBVIOUS
    <3> QED BY <3>1, <3>2
  <2> HIDE DEF bytes
  <2>3. bytes \in [1..n -> 0..255]
    BY <2>1, <2>2
  <2>4. bytes \in Seq(0..255) /\ Len(bytes) = n
    BY <2>3
  <2>5. BytesPerFrame(depth, width, pileup) = n
    BY <1>0, <1>2 DEF BytesPerFrame
  <2> QED BY <1>2, <2>4, <2>5 DEF Bytes, bytes
<1>3. CASE depth # 1 /\ ~(depth < 9 /\ ~pileup)
  <2>1. bytes = [k \in 1..(2 * Len(frame)) |->
                   LET count == frame[(k + 1) \div 2]
                   IN  IF k % 2 = 1 THEN count % 256 ELSE (count \div 256) % 256]
    BY <1>3 DEF EncodeOne
  <2>2. ASSUME NEW k \in 1..(2 * n) PROVE bytes[k] \in 0..255
    <3>1. (k + 1) \div 2 \in 1..n
      OBVIOUS
    <3>2. PICK count \in Nat : count = frame[(k + 1) \div 2]
      BY <1>0, <3>1
    <3>3. count % 256 \in 0..255 /\ (count \div 256) % 256 \in 0..255
      OBVIOUS
    <3> HIDE DEF bytes
    <3> QED BY <1>0, <2>1, <3>2, <3>3
  <2> HIDE DEF bytes
  <2>3. bytes \in [1..(2 * n) -> 0..255]
    BY <1>0, <2>1, <2>2
  <2>4. bytes \in Seq(0..255) /\ Len(bytes) = 2 * n
    BY <2>3
  <2>5. BytesPerFrame(depth, width, pileup) = 2 * n
    <3>1. BytesPerFrame(depth, width, pileup) = Rows * width * 2
      BY <1>3 DEF BytesPerFrame
    <3> QED BY <1>0, <3>1
  <2> QED BY <1>3, <2>4, <2>5 DEF Bytes, bytes
<1> QED BY <1>1, <1>2, <1>3

(* The counts of an image: how many, and how large.                         *)
Size(depth, width) == IF depth = 1 THEN Rows * Rows ELSE Rows * width

IsImage(image, depth, width, pileup) ==
  /\ image \in [1..Size(depth, width) -> Nat]
  /\ \A px \in 1..Size(depth, width) :
       image[px] < (IF depth <= 8 /\ ~pileup THEN 256 ELSE 65536)

(* The bits of a packed frame.                                              *)
LEMMA Unpacked ==
  ASSUME NEW bytes \in Seq(Packed), Len(bytes) = (Rows * Rows) \div 8
  PROVE  FlattenSeq(bytes) \in Seq({0, 1}) /\ Len(FlattenSeq(bytes)) = Rows * Rows
<1>1. PICK n \in Nat \ {0} : n = Rows * Rows
  BY PayloadAssumption
<1>2. PICK m \in Nat \ {0} : m = Len(bytes) /\ m * 8 = n
  <2>1. n % 8 = 0
    BY <1>1, PayloadAssumption
  <2>2. n \div 8 \in Nat \ {0} /\ (n \div 8) * 8 = n
    BY <2>1
  <2> QED BY <1>1, <2>2
<1>3. \A i \in 1..m : bytes[i] \in Seq({0, 1}) /\ Len(bytes[i]) = 8
  <2> SUFFICES ASSUME NEW i \in 1..m PROVE bytes[i] \in Seq({0, 1}) /\ Len(bytes[i]) = 8
    OBVIOUS
  <2>1. PICK byte \in Packed : byte = bytes[i]
    BY <1>2
  <2>2. byte \in [1..8 -> {0, 1}]
    BY DEF Packed
  <2>3. byte \in Seq({0, 1}) /\ Len(byte) = 8
    BY <2>2, SequenceOf
  <2> QED BY <2>1, <2>3
<1>4. FlattenSeq(bytes) \in Seq({0, 1}) /\ Len(FlattenSeq(bytes)) = m * 8
  <2>1. PICK S, per : S = {0, 1} /\ per = 8
    OBVIOUS
  <2>2. m \in Nat \ {0} /\ Len(bytes) = m
    BY <1>2
  <2>3. \A i \in 1..m : bytes[i] \in Seq(S) /\ Len(bytes[i]) = per
    BY <1>3, <2>1
  <2>4. FlattenSeq(bytes) \in Seq(S) /\ Len(FlattenSeq(bytes)) = m * per
    <3>1. per \in Nat
      BY <2>1
    <3> QED BY ONLY <3>1, <2>2, <2>3, FlattenPieces
  <2> QED BY <2>1, <2>4
<1> QED BY <1>1, <1>2, <1>4

(* Where a pixel of a turned frame comes from.                              *)
LEMMA Turned ==
  ASSUME NEW k \in 1..(Rows * Rows)
  PROVE  LET i == (k - 1) \div Rows
             j == (k - 1) % Rows
         IN  /\ j * Rows + (Rows - 1 - i) + 1 = j * Rows + Rows - i
             /\ j * Rows + Rows - i \in 1..(Rows * Rows)
<1>1. Rows \in Nat \ {0}
  BY PayloadAssumption
<1>2. PICK i \in Nat : i = (k - 1) \div Rows /\ i <= Rows - 1
  <2>1. k - 1 \in Nat /\ k - 1 < Rows * Rows
    BY <1>1
  <2> QED BY <1>1, <2>1
<1>3. PICK j \in Nat : j = (k - 1) % Rows /\ j <= Rows - 1
  BY <1>1
<1>4. PICK a \in Nat : a = j * Rows
  BY <1>1, <1>3
<1>5. a <= (Rows - 1) * Rows
  BY <1>1, <1>3, <1>4
<1>6. (Rows - 1) * Rows = Rows * Rows - Rows /\ Rows * Rows \in Nat
  BY <1>1
<1>7. a + (Rows - 1 - i) + 1 = a + Rows - i /\ a + Rows - i \in 1..(Rows * Rows)
  BY <1>1, <1>2, <1>5, <1>6
<1> QED BY <1>2, <1>3, <1>4, <1>7

(* Of the bytes of a frame the bridge makes the frame the vendor's client   *)
(* makes, in every layout.                                                  *)
LEMMA VendorAgrees ==
  ASSUME NEW pileup, NEW depth \in IntBitDepths, NEW width \in 1..Rows,
         NEW bytes \in Seq(Bytes(depth)), Len(bytes) = BytesPerFrame(depth, width, pileup)
  PROVE  /\ DecodeFrame(bytes, depth, pileup) = VendorImage(bytes, depth, pileup)
         /\ depth # 1 => VendorGatedImage(bytes, depth, pileup) = VendorImage(bytes, depth, pileup)
         /\ IsImage(VendorImage(bytes, depth, pileup), depth, width, pileup)
<1>1. PICK n \in Nat : n = Rows * width
  BY PayloadAssumption
<1>2. CASE depth = 1
  <2>1. FlattenSeq(bytes) \in Seq({0, 1}) /\ Len(FlattenSeq(bytes)) = Rows * Rows
    BY <1>2, Unpacked DEF Bytes, BytesPerFrame
  <2>2. PICK bits : bits = FlattenSeq(bytes)
    OBVIOUS
  <2> DEFINE vendor == [k \in 1..(Rows * Rows) |->
                          bits[((k - 1) % Rows) * Rows + Rows - ((k - 1) \div Rows)]]
  <2>3. VendorImage(bytes, depth, pileup) = vendor
    BY <1>2, <2>2 DEF VendorImage
  <2>4. DecodeFrame(bytes, depth, pileup)
          = [k \in 1..(Rows * Rows) |->
               bits[((k - 1) % Rows) * Rows + (Rows - 1 - ((k - 1) \div Rows)) + 1]]
    BY <1>2, <2>2 DEF DecodeFrame, Rot90
  <2>5. ASSUME NEW k \in 1..(Rows * Rows)
        PROVE  /\ ((k - 1) % Rows) * Rows + (Rows - 1 - ((k - 1) \div Rows)) + 1
                    = ((k - 1) % Rows) * Rows + Rows - ((k - 1) \div Rows)
               /\ bits[((k - 1) % Rows) * Rows + Rows - ((k - 1) \div Rows)] \in {0, 1}
    <3>1. PICK at : at = ((k - 1) % Rows) * Rows + Rows - ((k - 1) \div Rows)
      OBVIOUS
    <3>2. at \in 1..(Rows * Rows)
      BY <3>1, Turned
    <3>3. bits[at] \in {0, 1}
      BY <2>1, <2>2, <3>2
    <3> QED BY <3>1, <3>3, Turned
  <2>6. DecodeFrame(bytes, depth, pileup) = vendor
    BY <2>4, <2>5
  <2>7. /\ vendor \in [1..(Rows * Rows) -> Nat]
        /\ \A k \in 1..(Rows * Rows) : vendor[k] \in {0, 1}
    BY <2>5
  <2> HIDE DEF vendor
  <2>8. IsImage(vendor, depth, width, pileup)
    BY <1>2, <2>7 DEF IsImage, Size
  <2> QED BY <1>2, <2>3, <2>6, <2>8
<1>3. CASE depth # 1 /\ depth < 9 /\ ~pileup
  <2>1. VendorImage(bytes, depth, pileup) = bytes /\ DecodeFrame(bytes, depth, pileup) = bytes
          /\ VendorGatedImage(bytes, depth, pileup) = bytes
    <3>1. depth \in Int
      BY DEF IntBitDepths
    <3> QED BY <1>3, <3>1 DEF VendorImage, DecodeFrame, VendorGatedImage
  <2>2. bytes \in Seq(0..255) /\ Len(bytes) = n
    BY <1>1, <1>3 DEF Bytes, BytesPerFrame
  <2>3. bytes \in [1..n -> Nat] /\ \A px \in 1..n : bytes[px] < 256
    <3>1. bytes \in [1..n -> 0..255]
      BY <2>2, FunctionOf
    <3>2. \A c \in 0..255 : c \in Nat /\ c < 256
      OBVIOUS
    <3> QED BY <3>1, <3>2
  <2>4. IsImage(bytes, depth, width, pileup)
    BY <1>1, <1>3, <2>3 DEF IsImage, Size
  <2> QED BY <2>1, <2>4
<1>4. CASE depth # 1 /\ ~(depth < 9 /\ ~pileup)
  <2>1. bytes \in Seq(0..255) /\ Len(bytes) = n * 2
    BY <1>1, <1>4 DEF Bytes, BytesPerFrame
  <2>2. Len(bytes) \div 2 = n
    BY <2>1
  <2> DEFINE words == [k \in 1..n |-> bytes[2 * k - 1] + 256 * bytes[2 * k]]
  <2>3. \A k \in 1..n : /\ bytes[2 * k - 1] \in 0..255 /\ bytes[2 * k] \in 0..255
                        /\ bytes[2 * k] * 256 + bytes[2 * k - 1]
                             = bytes[2 * k - 1] + 256 * bytes[2 * k]
                        /\ words[k] \in Nat /\ words[k] < 65536
    <3> SUFFICES ASSUME NEW k \in 1..n
                 PROVE  /\ bytes[2 * k - 1] \in 0..255 /\ bytes[2 * k] \in 0..255
                        /\ bytes[2 * k] * 256 + bytes[2 * k - 1]
                             = bytes[2 * k - 1] + 256 * bytes[2 * k]
                        /\ words[k] \in Nat /\ words[k] < 65536
      OBVIOUS
    <3>1. PICK at, next \in 1..Len(bytes) : at = 2 * k - 1 /\ next = 2 * k
      BY <2>1
    <3>2. bytes[at] \in 0..255 /\ bytes[next] \in 0..255
      BY <2>1, FunctionOf
    <3>3. PICK low, high \in 0..255 : low = bytes[at] /\ high = bytes[next]
      BY <3>2
    <3>4. high * 256 + low = low + 256 * high /\ low + 256 * high \in Nat
            /\ low + 256 * high < 65536
      OBVIOUS
    <3>5. words[k] = low + 256 * high
      BY <3>1, <3>3
    <3> HIDE DEF words
    <3> QED BY <3>1, <3>3, <3>4, <3>5
  <2>4. DecodeFrame(bytes, depth, pileup) = words
    BY <1>4, <2>2 DEF DecodeFrame
  <2>5. VendorWords(bytes) = words
    <3>1. VendorWords(bytes) = [k \in 1..n |-> bytes[2 * k] * 256 + bytes[2 * k - 1]]
      BY <2>2 DEF VendorWords, Even, Odd
    <3> QED BY <2>3, <3>1
  <2> HIDE DEF words
  <2>6. /\ VendorImage(bytes, depth, pileup) = words
        /\ VendorGatedImage(bytes, depth, pileup) = words
    <3>1. depth \in Int
      BY DEF IntBitDepths
    <3> QED BY <1>4, <2>5, <3>1 DEF VendorImage, VendorGatedImage
  <2>7. words \in [1..n -> Nat] /\ \A px \in 1..n : words[px] < 65536
    BY <2>3 DEF words
  <2>8. IsImage(words, depth, width, pileup)
    <3>1. depth \in Int
      BY DEF IntBitDepths
    <3> QED BY <1>1, <1>4, <2>7, <3>1 DEF IsImage, Size
  <2> QED BY <2>4, <2>6, <2>8
<1> QED BY <1>2, <1>3, <1>4

-----------------------------------------------------------------------------
(* What the camera sends.                                                   *)

(* Parameters of which frames can be taken.                                 *)
FrameParams(p) ==
  /\ p.depth \in IntBitDepths /\ p.width \in 1..Rows
  /\ p.mode = "gated" => p.depth \in GatedBitDepths /\ p.width = Rows

PerFrame(p) == BytesPerFrame(p.depth, p.width, p.pileup)

Sent(r, p, i, offset) ==
  EncodeOne(Expose(r, p.depth, p.width, p.pileup, i, offset), p.depth, p.width, p.pileup)

(* The image the vendor's client shows of an exposure.                      *)
ShownOf(r, p, i, offset) ==
  IF p.mode = "gated" THEN VendorGatedImage(Sent(r, p, i, offset), p.depth, p.pileup)
  ELSE VendorImage(Sent(r, p, i, offset), p.depth, p.pileup)

(* A frame is not nothing.                                                  *)
LEMMA FrameHasBytes == ASSUME NEW p, FrameParams(p) PROVE PerFrame(p) \in Nat \ {0}
<1>1. Rows \in Nat \ {0} /\ Rows * Rows \in Nat \ {0} /\ (Rows * Rows) % 8 = 0
  BY PayloadAssumption
<1>2. (Rows * Rows) \div 8 \in Nat \ {0}
  <2>1. PICK n \in Nat \ {0} : n = Rows * Rows
    BY <1>1
  <2>2. n % 8 = 0
    BY <1>1, <2>1
  <2>3. n \div 8 \in Nat \ {0}
    BY <2>2
  <2> QED BY <2>1, <2>3
<1>3. p.width \in Nat \ {0}
  BY DEF FrameParams
<1>4. PICK n \in Nat \ {0} : n = Rows * p.width
  BY <1>1, <1>3
<1>5. n * 2 \in Nat \ {0}
  OBVIOUS
<1> QED BY <1>2, <1>4, <1>5 DEF PerFrame, BytesPerFrame

(* The bridge makes of what is sent what the vendor's client shows.         *)
LEMMA OneShown ==
  ASSUME LightCounts, NEW p, FrameParams(p), NEW r \in Int, NEW i \in Int, NEW offset \in Int
  PROVE  /\ Sent(r, p, i, offset) \in Seq(Bytes(p.depth))
         /\ Len(Sent(r, p, i, offset)) = PerFrame(p)
         /\ DecodeFrame(Sent(r, p, i, offset), p.depth, p.pileup) = ShownOf(r, p, i, offset)
         /\ IsImage(ShownOf(r, p, i, offset), p.depth, p.width, p.pileup)
<1> DEFINE bytes == Sent(r, p, i, offset)
<1>1. PICK depth, width, pileup : depth = p.depth /\ width = p.width /\ pileup = p.pileup
  OBVIOUS
<1>2. depth \in IntBitDepths /\ width \in 1..Rows
  BY <1>1 DEF FrameParams
<1>3. PICK frame : frame = Expose(r, depth, width, pileup, i, offset)
  OBVIOUS
<1>4. frame \in Seq(Nat) /\ Len(frame) = Rows * width
  BY <1>2, <1>3, ExposedFrame
<1>5. PICK sent : sent = EncodeOne(frame, depth, width, pileup)
  OBVIOUS
<1>6. sent \in Seq(Bytes(depth)) /\ Len(sent) = BytesPerFrame(depth, width, pileup)
  BY <1>2, <1>4, <1>5, EncodedFrame
<1>7. /\ DecodeFrame(sent, depth, pileup) = VendorImage(sent, depth, pileup)
      /\ depth # 1 => VendorGatedImage(sent, depth, pileup) = VendorImage(sent, depth, pileup)
      /\ IsImage(VendorImage(sent, depth, pileup), depth, width, pileup)
  BY <1>2, <1>6, VendorAgrees
<1>8. bytes = sent
  BY <1>1, <1>3, <1>5 DEF Sent
<1>9. p.mode = "gated" => depth # 1
  BY <1>1 DEF FrameParams, GatedBitDepths
<1>10. ShownOf(r, p, i, offset) = VendorImage(sent, depth, pileup)
  BY <1>1, <1>7, <1>8, <1>9 DEF ShownOf
<1> QED BY <1>1, <1>6, <1>7, <1>8, <1>10 DEF PerFrame

(* Frames that are sent together come apart again.                          *)
LEMMA SentTogether ==
  ASSUME NEW p, FrameParams(p), NEW m \in Nat \ {0}, NEW frames, DOMAIN frames = 1..m,
         NEW sent, \A k \in 1..m : sent[k] = EncodeOne(frames[k], p.depth, p.width, p.pileup),
         \A k \in 1..m : sent[k] \in Seq(Bytes(p.depth)) /\ Len(sent[k]) = PerFrame(p)
  PROVE  LET data == EncodeFrames(frames, p.depth, p.width, p.pileup)
         IN  /\ data \in Seq(Bytes(p.depth)) /\ Len(data) = m * PerFrame(p)
             /\ \A k \in 1..m : Piece(data, PerFrame(p), k) = sent[k]
<1>1. PICK parts : parts = [k \in 1..m |-> EncodeOne(frames[k], p.depth, p.width, p.pileup)]
  OBVIOUS
<1>2. EncodeFrames(frames, p.depth, p.width, p.pileup) = FlattenSeq(parts)
  BY <1>1 DEF EncodeFrames
<1>3. \A k \in 1..m : parts[k] = sent[k]
  BY <1>1
<1>4. Len(parts) = m
  BY <1>1
<1>5. PICK per \in Nat : per = PerFrame(p)
  BY FrameHasBytes
<1>6. PICK S : S = Bytes(p.depth)
  OBVIOUS
<1>7. \A k \in 1..m : parts[k] \in Seq(S) /\ Len(parts[k]) = per
  BY <1>3, <1>5, <1>6
<1>8. LET flat == FlattenSeq(parts)
      IN  /\ flat \in Seq(S) /\ Len(flat) = m * per
          /\ \A k \in 1..m : Piece(flat, per, k) = parts[k]
  <2>1. per \in Nat /\ m \in Nat \ {0}
    OBVIOUS
  <2> QED BY ONLY <1>4, <1>7, <2>1, FlattenPieces
<1> QED BY <1>2, <1>3, <1>5, <1>6, <1>8

(* A batch of exposures, the next ones of its run.                          *)
LEMMA IntensityData ==
  ASSUME LightCounts, NEW p, FrameParams(p), p.mode = "intensity", NEW r \in Int,
         NEW n \in Nat \ {0}, NEW first \in Nat
  PROVE  LET data == HandleIntensity(r, IntensityCommand(p, n), p.pileup, first)
         IN  /\ data \in Seq(Bytes(p.depth)) /\ Len(data) = n * PerFrame(p)
             /\ \A k \in 1..n : DecodeFrame(Piece(data, PerFrame(p), k), p.depth, p.pileup)
                                  = ShownOf(r, p, first + k - 1, 0)
<1> DEFINE cmd == IntensityCommand(p, n)
           frames == [k \in 1..n |-> Expose(r, p.depth, p.width, p.pileup, first + k - 1, 0)]
           sent == [k \in 1..n |-> Sent(r, p, first + k - 1, 0)]
           data == HandleIntensity(r, cmd, p.pileup, first)
<1>1. data = EncodeFrames(frames, p.depth, p.width, p.pileup)
  <2>1. cmd.depth = p.depth /\ cmd.width = p.width /\ cmd.iterations = n
    BY DEF IntensityCommand
  <2>2. ResolveBitDepth(p.depth) = p.depth
    BY DEF ResolveBitDepth, FrameParams
  <2> HIDE DEF cmd
  <2> QED BY <2>1, <2>2 DEF HandleIntensity
<1>2. ASSUME NEW k \in 1..n
      PROVE  /\ sent[k] = EncodeOne(frames[k], p.depth, p.width, p.pileup)
             /\ sent[k] \in Seq(Bytes(p.depth)) /\ Len(sent[k]) = PerFrame(p)
             /\ DecodeFrame(sent[k], p.depth, p.pileup) = ShownOf(r, p, first + k - 1, 0)
  <2>1. first + k - 1 \in Int /\ 0 \in Int
    OBVIOUS
  <2>2. sent[k] = Sent(r, p, first + k - 1, 0)
    OBVIOUS
  <2>3. sent[k] = EncodeOne(frames[k], p.depth, p.width, p.pileup)
    BY DEF Sent
  <2> HIDE DEF sent, frames
  <2>4. PICK i \in Int : i = first + k - 1
    BY <2>1
  <2>5. /\ Sent(r, p, i, 0) \in Seq(Bytes(p.depth))
        /\ Len(Sent(r, p, i, 0)) = PerFrame(p)
        /\ DecodeFrame(Sent(r, p, i, 0), p.depth, p.pileup) = ShownOf(r, p, i, 0)
    BY <2>1, OneShown
  <2> QED BY <2>2, <2>3, <2>4, <2>5
<1>3. DOMAIN frames = 1..n
  OBVIOUS
<1> HIDE DEF frames, sent, data
<1>4. PICK fs, ss : fs = frames /\ ss = sent
  OBVIOUS
<1>5. LET d == EncodeFrames(fs, p.depth, p.width, p.pileup)
      IN  /\ d \in Seq(Bytes(p.depth)) /\ Len(d) = n * PerFrame(p)
          /\ \A k \in 1..n : Piece(d, PerFrame(p), k) = ss[k]
  <2>1. \A k \in 1..n : ss[k] = EncodeOne(fs[k], p.depth, p.width, p.pileup)
    BY <1>2, <1>4
  <2>2. \A k \in 1..n : ss[k] \in Seq(Bytes(p.depth)) /\ Len(ss[k]) = PerFrame(p)
    BY <1>2, <1>4
  <2>3. DOMAIN fs = 1..n /\ n \in Nat \ {0} /\ FrameParams(p)
    BY <1>3, <1>4
  <2> QED BY ONLY <2>1, <2>2, <2>3, SentTogether
<1> QED BY <1>1, <1>2, <1>4, <1>5 DEF data

(* What a gated command is answered: a sweep over the steps for each        *)
(* iteration, but never no frame at all.                                    *)
Answers(r, p, cmd, list) ==
  LET data == HandleGated(r, cmd, p.pileup, list)
      asked == cmd.iterations * cmd.steps
  IN  /\ asked < 1 => Len(data) = PerFrame(p)
      /\ asked >= 1 /\ cmd.steps >= 1 =>
           /\ data \in Seq(Bytes(p.depth)) /\ Len(data) = asked * PerFrame(p)
           /\ \A k \in 1..asked :
                DecodeFrame(Piece(data, PerFrame(p), k), p.depth, p.pileup)
                  = ShownOf(r, p, (k - 1) \div cmd.steps,
                            GateOffset(cmd, list, (k - 1) % cmd.steps))

(* That is what the camera does.                                            *)
LEMMA GatedData ==
  ASSUME LightCounts, NEW p, FrameParams(p), p.mode = "gated", NEW r \in Int,
         NEW cmd, cmd.depth = p.depth, cmd.iterations \in Int, cmd.steps \in Int,
         cmd.offset \in Int, NEW list,
         \A s \in 0..(cmd.steps - 1) : GateOffset(cmd, list, s) \in Int
  PROVE  Answers(r, p, cmd, list)
<1> DEFINE data == HandleGated(r, cmd, p.pileup, list)
<1>1. PICK steps, asked \in Int : steps = cmd.steps /\ asked = cmd.iterations * cmd.steps
  OBVIOUS
<1>2. p.depth \in GatedBitDepths /\ p.width = Rows /\ ResolveGatedBitDepth(cmd.depth) = p.depth
  BY DEF ResolveGatedBitDepth, FrameParams
<1>3. ASSUME asked < 1 PROVE Len(data) = PerFrame(p)
  <2> DEFINE frames == [k \in 1..1 |-> Expose(r, p.depth, Rows, p.pileup, 0, cmd.offset)]
             sent == [k \in 1..1 |-> Sent(r, p, 0, cmd.offset)]
  <2>1. data = EncodeFrames(frames, p.depth, p.width, p.pileup)
    BY <1>1, <1>2, <1>3 DEF HandleGated
  <2>2. ASSUME NEW k \in 1..1
        PROVE  /\ sent[k] = EncodeOne(frames[k], p.depth, p.width, p.pileup)
               /\ sent[k] \in Seq(Bytes(p.depth)) /\ Len(sent[k]) = PerFrame(p)
    <3>1. sent[k] = Sent(r, p, 0, cmd.offset)
      OBVIOUS
    <3>2. sent[k] = EncodeOne(frames[k], p.depth, p.width, p.pileup)
      BY <1>2 DEF Sent
    <3> HIDE DEF sent, frames
    <3>3. 0 \in Int
      OBVIOUS
    <3> QED BY <3>1, <3>2, <3>3, OneShown
  <2>3. DOMAIN frames = 1..1 /\ 1 \in Nat \ {0}
    OBVIOUS
  <2> HIDE DEF frames, sent, data
  <2>4. PICK one, fs, ss : one = 1 /\ fs = frames /\ ss = sent
    OBVIOUS
  <2>5. Len(EncodeFrames(fs, p.depth, p.width, p.pileup)) = one * PerFrame(p)
    <3>1. \A k \in 1..one : ss[k] = EncodeOne(fs[k], p.depth, p.width, p.pileup)
      BY <2>2, <2>4
    <3>2. \A k \in 1..one : ss[k] \in Seq(Bytes(p.depth)) /\ Len(ss[k]) = PerFrame(p)
      BY <2>2, <2>4
    <3>3. DOMAIN fs = 1..one /\ one \in Nat \ {0} /\ FrameParams(p)
      BY <2>3, <2>4
    <3> QED BY ONLY <3>1, <3>2, <3>3, SentTogether
  <2> QED BY <1>1, <1>3, <2>1, <2>4, <2>5, FrameHasBytes DEF data
<1>4. ASSUME asked >= 1, steps >= 1
      PROVE  /\ data \in Seq(Bytes(p.depth)) /\ Len(data) = asked * PerFrame(p)
             /\ \A k \in 1..asked :
                  DecodeFrame(Piece(data, PerFrame(p), k), p.depth, p.pileup)
                    = ShownOf(r, p, (k - 1) \div steps, GateOffset(cmd, list, (k - 1) % steps))
  <2> DEFINE frames == [k \in 1..asked |-> Expose(r, p.depth, Rows, p.pileup, (k - 1) \div steps,
                                                  GateOffset(cmd, list, (k - 1) % steps))]
             sent == [k \in 1..asked |-> Sent(r, p, (k - 1) \div steps,
                                              GateOffset(cmd, list, (k - 1) % steps))]
  <2>1. data = EncodeFrames(frames, p.depth, p.width, p.pileup)
    BY <1>1, <1>2, <1>4 DEF HandleGated
  <2>2. ASSUME NEW k \in 1..asked
        PROVE  /\ sent[k] = EncodeOne(frames[k], p.depth, p.width, p.pileup)
               /\ sent[k] \in Seq(Bytes(p.depth)) /\ Len(sent[k]) = PerFrame(p)
               /\ DecodeFrame(sent[k], p.depth, p.pileup)
                    = ShownOf(r, p, (k - 1) \div steps, GateOffset(cmd, list, (k - 1) % steps))
    <3>1. sent[k] = Sent(r, p, (k - 1) \div steps, GateOffset(cmd, list, (k - 1) % steps))
      OBVIOUS
    <3>2. sent[k] = EncodeOne(frames[k], p.depth, p.width, p.pileup)
      BY <1>2 DEF Sent
    <3> HIDE DEF sent, frames
    <3>3. (k - 1) \div steps \in Int /\ (k - 1) % steps \in 0..(steps - 1)
      BY <1>4
    <3>4. PICK i \in Int, s \in 0..(steps - 1) : i = (k - 1) \div steps /\ s = (k - 1) % steps
      BY <3>3
    <3>5. PICK offset \in Int : offset = GateOffset(cmd, list, s)
      BY <1>1, <3>4
    <3>6. /\ Sent(r, p, i, offset) \in Seq(Bytes(p.depth))
          /\ Len(Sent(r, p, i, offset)) = PerFrame(p)
          /\ DecodeFrame(Sent(r, p, i, offset), p.depth, p.pileup) = ShownOf(r, p, i, offset)
      BY OneShown
    <3> QED BY <3>1, <3>2, <3>4, <3>5, <3>6
  <2>3. DOMAIN frames = 1..asked /\ asked \in Nat \ {0}
    BY <1>4
  <2> HIDE DEF frames, sent, data
  <2>4. PICK fs, ss : fs = frames /\ ss = sent
    OBVIOUS
  <2>5. LET d == EncodeFrames(fs, p.depth, p.width, p.pileup)
        IN  /\ d \in Seq(Bytes(p.depth)) /\ Len(d) = asked * PerFrame(p)
            /\ \A k \in 1..asked : Piece(d, PerFrame(p), k) = ss[k]
    <3>1. PICK m \in Nat \ {0} : m = asked
      BY <2>3
    <3>2. \A k \in 1..m : ss[k] = EncodeOne(fs[k], p.depth, p.width, p.pileup)
      BY <2>2, <2>4, <3>1
    <3>3. \A k \in 1..m : ss[k] \in Seq(Bytes(p.depth)) /\ Len(ss[k]) = PerFrame(p)
      BY <2>2, <2>4, <3>1
    <3>4. DOMAIN fs = 1..m /\ m \in Nat \ {0} /\ FrameParams(p)
      BY <2>3, <2>4, <3>1
    <3>5. LET d == EncodeFrames(fs, p.depth, p.width, p.pileup)
          IN  /\ d \in Seq(Bytes(p.depth)) /\ Len(d) = m * PerFrame(p)
              /\ \A k \in 1..m : Piece(d, PerFrame(p), k) = ss[k]
      BY ONLY <3>2, <3>3, <3>4, SentTogether
    <3> QED BY <3>1, <3>5
  <2> QED BY <1>1, <1>4, <2>1, <2>2, <2>4, <2>5 DEF data
<1> QED BY <1>1, <1>3, <1>4 DEF Answers

-----------------------------------------------------------------------------
(* Requests.                                                                *)

(* What the camera takes.                                                   *)
Accepts(mode) ==
  IF mode = "gated"
  THEN [bit_depth |-> GatedBitDepths, iterations |-> Nat, gate_steps |-> Int,
        gate_step_size_ps |-> Int, gate_offset |-> Int, arbitrary_steps |-> Seq(Int)]
  ELSE [bit_depth |-> IntBitDepths, iterations |-> Nat \ {0}, roi_width |-> Widths]

Legal(mode, body) == \A key \in DOMAIN body \cap DOMAIN Accepts(mode) : body[key] \in Accepts(mode)[key]

(* The routes know their keys and make numbers of what they are sent;       *)
(* dictionaries that no route has checked, those of jobs and the overrides  *)
(* of a rerun, ask for what the camera takes.                               *)
RequestsLegal ==
  /\ \A b \in IntensityBodies \cup IntensityReferenceBodies \cup LiveBodies \cup Raw1BitBodies :
       Get(b, "iterations", 1) \in Int
  /\ \A b \in GatedBodies \cup GatedReferenceBodies :
       /\ Get(b, "iterations", 1) \in Nat /\ Get(b, "gate_steps", 10) \in Int
       /\ Get(b, "gate_step_size_ps", 18) \in Int /\ Get(b, "gate_offset", 0) \in Int
       /\ Arbitrary(b) \in Seq(Int)
       /\ "roi_width" \notin DOMAIN b
  /\ \A b \in Raw1BitBodies : "bit_depth" \notin DOMAIN b
  /\ \A b \in FlimBodies : {"bit_depth", "iterations", "roi_width"} \cap DOMAIN b = {}
  /\ \A job \in ScheduledJobs : Legal(job.mode, job.params)
  /\ \A o \in Overrides : Legal("gated", o) /\ Legal("intensity", o)

IntensityKeys == {"mode", "depth", "time", "iterations", "width", "overlap", "pileup", "dark",
                  "name", "reducer"}
GatedKeys == IntensityKeys \cup {"steps", "size", "offset", "dir", "arbitrary", "cooloff"}

(* The names of the parameters; only measurements ask for a dark reference. *)
Keyed(p) ==
  /\ p.mode = "intensity" => DOMAIN p = IntensityKeys
  /\ p.mode = "gated" => DOMAIN p = GatedKeys
  /\ p.mode \notin {"intensity", "gated"} => p.dark = 0

(* Parameters of an acquisition the camera can take.                        *)
Sane(p) ==
  /\ Keyed(p)
  /\ p.mode = "intensity" =>
       /\ p.depth \in IntBitDepths /\ p.width \in 1..Rows
       /\ "iterations" \in DOMAIN p /\ p.iterations \in Nat \ {0}
  /\ p.mode = "gated" =>
       /\ p.depth \in GatedBitDepths /\ p.width = Rows
       /\ {"iterations", "steps", "arbitrary"} \subseteq DOMAIN p
       /\ p.iterations \in Nat /\ p.steps \in Int /\ p.size \in Int /\ p.offset \in Int
       /\ p.arbitrary \in Seq(Int)

(* The defaults of a route are those of the dictionaries.                   *)
LEMMA GetWith ==
  ASSUME NEW defaults, NEW body, NEW key
  PROVE  /\ key \in DOMAIN defaults =>
              /\ key \in DOMAIN With(defaults, body)
              /\ With(defaults, body)[key] = Get(body, key, defaults[key])
         /\ key \notin DOMAIN defaults =>
              /\ key \in DOMAIN With(defaults, body) <=> key \in DOMAIN body
              /\ \A default : Get(With(defaults, body), key, default) = Get(body, key, default)
BY DEF With, Get

(* The widths of the sensor.                                                *)
LEMMA WidthsFit == Rows \in Widths /\ Rows \in 1..Rows /\ \A w \in Widths : w \in 1..Rows
BY WidthsAssumption, PayloadAssumption

(* A legal dictionary is read as sane parameters.                           *)
LEMMA LegalSane == ASSUME NEW mode, NEW body, Legal(mode, body) PROVE Sane(ParamsOf(mode, body))
<1>1. CASE mode = "gated"
  <2>1. ParamsOf(mode, body) = GatedParamsOf(body)
    BY <1>1 DEF ParamsOf
  <2>2. PICK p : p = GatedParamsOf(body)
    OBVIOUS
  <2>3. /\ p.mode = "gated" /\ p.width = Rows
        /\ p.depth = Get(body, "bit_depth", 8) /\ p.iterations = Get(body, "iterations", 1)
        /\ p.steps = Get(body, "gate_steps", 10) /\ p.size = Get(body, "gate_step_size_ps", 18)
        /\ p.offset = Get(body, "gate_offset", 0)
        /\ p.arbitrary = Get(body, "arbitrary_steps", <<>>)
    BY <2>2 DEF GatedParamsOf, Arbitrary
  <2>10. {"iterations", "steps", "arbitrary"} \subseteq DOMAIN p
    BY <2>2 DEF GatedParamsOf
  <2>11. Keyed(p)
    BY <2>2 DEF GatedParamsOf, Keyed, GatedKeys, IntensityKeys
  <2>4. \A key \in DOMAIN body \cap {"bit_depth", "iterations", "gate_steps", "gate_step_size_ps",
                                     "gate_offset", "arbitrary_steps"} :
          body[key] \in Accepts(mode)[key]
    BY <1>1 DEF Legal, Accepts
  <2>5. /\ Accepts(mode)["bit_depth"] = GatedBitDepths /\ Accepts(mode)["iterations"] = Nat
        /\ Accepts(mode)["gate_steps"] = Int /\ Accepts(mode)["gate_step_size_ps"] = Int
        /\ Accepts(mode)["gate_offset"] = Int /\ Accepts(mode)["arbitrary_steps"] = Seq(Int)
    BY <1>1 DEF Accepts
  <2>6. p.depth \in GatedBitDepths
    BY <2>3, <2>4, <2>5 DEF Get, GatedBitDepths
  <2>7. p.iterations \in Nat
    BY <2>3, <2>4, <2>5 DEF Get
  <2>8. p.steps \in Int /\ p.size \in Int /\ p.offset \in Int
    BY <2>3, <2>4, <2>5 DEF Get
  <2>9. p.arbitrary \in Seq(Int)
    <3>1. <<>> \in Seq(Int)
      OBVIOUS
    <3> QED BY <2>3, <2>4, <2>5, <3>1 DEF Get
  <2> QED BY <2>1, <2>2, <2>3, <2>6, <2>7, <2>8, <2>9, <2>10, <2>11 DEF Sane
<1>2. CASE mode # "gated"
  <2>1. ParamsOf(mode, body) = IntensityParamsOf(body)
    BY <1>2 DEF ParamsOf
  <2>2. PICK p : p = IntensityParamsOf(body)
    OBVIOUS
  <2>3. /\ p.mode = "intensity" /\ p.depth = Get(body, "bit_depth", 8)
        /\ p.iterations = Get(body, "iterations", 1) /\ p.width = Get(body, "roi_width", Rows)
    BY <2>2 DEF IntensityParamsOf
  <2>9. "iterations" \in DOMAIN p
    BY <2>2 DEF IntensityParamsOf
  <2>10. Keyed(p)
    BY <2>2 DEF IntensityParamsOf, Keyed, IntensityKeys
  <2>4. \A key \in DOMAIN body \cap {"bit_depth", "iterations", "roi_width"} :
          body[key] \in Accepts(mode)[key]
    BY <1>2 DEF Legal, Accepts
  <2>5. /\ Accepts(mode)["bit_depth"] = IntBitDepths /\ Accepts(mode)["iterations"] = Nat \ {0}
        /\ Accepts(mode)["roi_width"] = Widths
    BY <1>2 DEF Accepts
  <2>6. p.depth \in IntBitDepths
    BY <2>3, <2>4, <2>5 DEF Get, IntBitDepths
  <2>7. p.iterations \in Nat \ {0}
    BY <2>3, <2>4, <2>5 DEF Get
  <2>8. p.width \in 1..Rows
    <3>1. p.width \in Widths
      BY <2>3, <2>4, <2>5, WidthsFit DEF Get
    <3> QED BY <3>1, WidthsFit
  <2> QED BY <2>1, <2>2, <2>3, <2>6, <2>7, <2>8, <2>9, <2>10 DEF Sane
<1> QED BY <1>1, <1>2

(* Where no gates are asked for three numbers count.                        *)
LEMMA LegalWithoutGates ==
  ASSUME NEW mode, mode # "gated", NEW body,
         "bit_depth" \in DOMAIN body => body.bit_depth \in IntBitDepths,
         "iterations" \in DOMAIN body => body.iterations \in Nat \ {0},
         "roi_width" \in DOMAIN body => body.roi_width \in Widths
  PROVE  Legal(mode, body)
BY DEF Legal, Accepts

(* What the intensity routes let through is legal.                          *)
LEMMA IntensityLegal ==
  ASSUME NEW mode, mode # "gated", NEW b, Get(b, "iterations", 1) \in Int,
         NEW body \in {IntensityBody(b), IntensityReferenceBody(b)}, IntensityValid(body)
  PROVE  Legal(mode, body)
<1> DEFINE defaults == [bit_depth |-> 8, iterations |-> 1, roi_width |-> Rows, overlap |-> FALSE,
                        pileup_correction |-> FALSE]
           inner == With(defaults, b)
<1>1. /\ "iterations" \in DOMAIN defaults /\ defaults["iterations"] = 1
  OBVIOUS
<1>2. inner["iterations"] = Get(b, "iterations", 1) /\ "iterations" \in DOMAIN inner
  <2> HIDE DEF defaults
  <2> QED BY <1>1, GetWith
<1>3. inner = IntensityReferenceBody(b)
  BY DEF IntensityReferenceBody
<1> HIDE DEF inner, defaults
<1>4. IntensityBody(b) = With([run_reducer |-> FALSE], inner)
  BY <1>3 DEF IntensityBody
<1>5. With([run_reducer |-> FALSE], inner)["iterations"] = inner["iterations"]
  BY <1>2, WithNew
<1>6. body.iterations \in Int
  BY <1>2, <1>3, <1>4, <1>5
<1> QED BY <1>6, LegalWithoutGates DEF IntensityValid, WidthAndIterationsValid

(* What the raw route lets through is legal.                                *)
LEMMA RawLegal ==
  ASSUME NEW b, Get(b, "iterations", 1) \in Int, "bit_depth" \notin DOMAIN b,
         WidthAndIterationsValid(Raw1BitBody(b))
  PROVE  Legal("raw1bit", Raw1BitBody(b)) /\ Sane(Raw1BitParams(Raw1BitBody(b)))
<1> DEFINE defaults == [integration_time_us |-> 100, iterations |-> 1, roi_width |-> Rows,
                        overlap |-> FALSE]
           body == With(defaults, b)
<1>1. /\ "iterations" \in DOMAIN defaults /\ defaults["iterations"] = 1
      /\ "bit_depth" \notin DOMAIN defaults
  OBVIOUS
<1>2. body = Raw1BitBody(b)
  BY DEF Raw1BitBody
<1>3. body["iterations"] = Get(b, "iterations", 1) /\ "bit_depth" \notin DOMAIN body
  <2> HIDE DEF defaults
  <2> QED BY <1>1, GetWith
<1> HIDE DEF body, defaults
<1>4. body.iterations \in Nat \ {0} /\ body.roi_width \in Widths
  BY <1>2, <1>3 DEF WidthAndIterationsValid
<1>5. Legal("raw1bit", body)
  BY <1>3, <1>4, LegalWithoutGates
<1>6. Sane(Raw1BitParams(body))
  <2>1. Sane(IntensityParamsOf(body))
    BY <1>5, LegalSane DEF ParamsOf
  <2>2. PICK p : p = IntensityParamsOf(body)
    OBVIOUS
  <2>3. p.mode = "intensity" /\ {"mode", "depth", "width", "iterations"} \subseteq DOMAIN p
    BY <2>2 DEF IntensityParamsOf
  <2>4. PICK q : q = Raw1BitParams(body)
    OBVIOUS
  <2>5. q = [p EXCEPT !.depth = 1, !.time = body.integration_time_us, !.pileup = FALSE, !.dark = 0]
    BY <2>2, <2>4 DEF Raw1BitParams
  <2>6. /\ q.mode = "intensity" /\ q.depth = 1 /\ q.width = p.width /\ q.iterations = p.iterations
        /\ "iterations" \in DOMAIN q /\ DOMAIN q = DOMAIN p
    BY <2>3, <2>5
  <2> QED BY <2>1, <2>2, <2>3, <2>4, <2>6 DEF Sane, Keyed, IntBitDepths
<1> QED BY <1>2, <1>5, <1>6

(* What the gated routes let through is legal, for either kind of entry.    *)
LEMMA GatedLegal ==
  ASSUME NEW b, Get(b, "iterations", 1) \in Nat, Get(b, "gate_steps", 10) \in Int,
         Get(b, "gate_step_size_ps", 18) \in Int, Get(b, "gate_offset", 0) \in Int,
         Arbitrary(b) \in Seq(Int), "roi_width" \notin DOMAIN b,
         NEW body \in {GatedBody(b), GatedReferenceBody(b)}, GatedValid(body)
  PROVE  /\ Legal("gated", body)
         /\ \A mode : mode # "gated" /\ body.iterations >= 1 => Legal(mode, body)
<1> DEFINE defaults == [bit_depth |-> 8, iterations |-> 1, gate_steps |-> 10,
                        gate_step_size_ps |-> 18, gate_offset |-> 0,
                        gate_direction |-> "forward", overlap |-> FALSE,
                        pileup_correction |-> FALSE, cooloff_s |-> 0]
           keys == {"iterations", "gate_steps", "gate_step_size_ps", "gate_offset"}
           inner == With(defaults, b)
<1>1. /\ keys \subseteq DOMAIN defaults /\ defaults["iterations"] = 1
      /\ defaults["gate_steps"] = 10 /\ defaults["gate_step_size_ps"] = 18
      /\ defaults["gate_offset"] = 0
      /\ {"arbitrary_steps", "roi_width"} \cap DOMAIN defaults = {}
  OBVIOUS
<1>2. inner = GatedReferenceBody(b)
  BY DEF GatedReferenceBody
<1>3. /\ keys \subseteq DOMAIN inner
      /\ inner["iterations"] \in Nat /\ inner["gate_steps"] \in Int
      /\ inner["gate_step_size_ps"] \in Int /\ inner["gate_offset"] \in Int
  <2> HIDE DEF defaults
  <2> QED BY <1>1, GetWith
<1>4. Arbitrary(inner) \in Seq(Int) /\ "roi_width" \notin DOMAIN inner
  <2>1. "arbitrary_steps" \notin DOMAIN defaults /\ "roi_width" \notin DOMAIN defaults
    BY <1>1
  <2> HIDE DEF defaults
  <2>2. "roi_width" \notin DOMAIN inner
    BY <2>1, GetWith
  <2>3. Get(inner, "arbitrary_steps", <<>>) = Get(b, "arbitrary_steps", <<>>)
    <3>1. DOMAIN inner = DOMAIN defaults \cup DOMAIN b
      BY WithDomain
    <3>2. \A key \in DOMAIN b : inner[key] = b[key]
      BY WithNew
    <3> HIDE DEF inner
    <3> QED BY <2>1, <3>1, <3>2 DEF Get
  <2> HIDE DEF inner
  <2>4. Arbitrary(inner) = Arbitrary(b)
    BY <2>3 DEF Arbitrary
  <2> QED BY <2>2, <2>4
<1> HIDE DEF inner, defaults
<1>5. GatedBody(b) = With([run_reducer |-> FALSE], inner)
  BY <1>2 DEF GatedBody
<1>6. \A key \in keys \cup {"arbitrary_steps", "roi_width"} :
        /\ key \in DOMAIN body <=> key \in DOMAIN inner
        /\ key \in DOMAIN inner => body[key] = inner[key]
  <2>1. DOMAIN [run_reducer |-> FALSE] = {"run_reducer"}
    OBVIOUS
  <2>2. DOMAIN With([run_reducer |-> FALSE], inner) = {"run_reducer"} \cup DOMAIN inner
    BY <2>1, WithDomain
  <2>3. \A key \in DOMAIN inner : With([run_reducer |-> FALSE], inner)[key] = inner[key]
    BY WithNew
  <2> QED BY <1>2, <1>5, <2>2, <2>3
<1>7. Arbitrary(body) \in Seq(Int)
  BY <1>4, <1>6 DEF Arbitrary, Get
<1>8. body.bit_depth \in GatedBitDepths
  BY DEF GatedValid
<1>9. Legal("gated", body)
  <2>1. \A key : key \in DOMAIN Accepts("gated") =>
                   key \in keys \cup {"arbitrary_steps", "bit_depth"}
    BY DEF Accepts
  <2>2. /\ Accepts("gated")["bit_depth"] = GatedBitDepths /\ Accepts("gated")["iterations"] = Nat
        /\ Accepts("gated")["gate_steps"] = Int /\ Accepts("gated")["gate_step_size_ps"] = Int
        /\ Accepts("gated")["gate_offset"] = Int /\ Accepts("gated")["arbitrary_steps"] = Seq(Int)
    BY DEF Accepts
  <2>3. "arbitrary_steps" \in DOMAIN body => body["arbitrary_steps"] \in Seq(Int)
    BY <1>7 DEF Arbitrary, Get
  <2>4. \A key \in keys : body[key] \in Accepts("gated")[key]
    BY <1>3, <1>6, <2>2
  <2> QED BY <1>8, <2>1, <2>2, <2>3, <2>4 DEF Legal
<1>10. ASSUME NEW mode, mode # "gated", body.iterations >= 1 PROVE Legal(mode, body)
  <2>1. body.iterations \in Nat \ {0}
    BY <1>3, <1>6, <1>10
  <2>2. body.bit_depth \in IntBitDepths
    BY <1>8 DEF GatedBitDepths, IntBitDepths
  <2>3. "roi_width" \notin DOMAIN body
    BY <1>4, <1>6
  <2> QED BY <1>10, <2>1, <2>2, <2>3, LegalWithoutGates
<1> QED BY <1>9, <1>10

(* Legal changes to a legal dictionary.                                     *)
LEMMA LegalChanged ==
  ASSUME NEW mode, NEW body, Legal(mode, body), NEW o, Legal("gated", o), Legal("intensity", o)
  PROVE  Legal(mode, With(body, o))
<1>1. Legal(mode, o)
  <2>1. mode # "gated" => Accepts(mode) = Accepts("intensity")
    BY DEF Accepts
  <2> QED BY <2>1 DEF Legal
<1> QED BY <1>1 DEF Legal, With

-----------------------------------------------------------------------------
(* Numbers of frames.                                                       *)

(* A number is counted in rows of n.                                        *)
LEMMA DivMod ==
  ASSUME NEW n \in Nat \ {0}, NEW a \in Nat, NEW b \in 0..(n - 1)
  PROVE  (a * n + b) \div n = a /\ (a * n + b) % n = b
<1>1. PICK m \in Nat : m = a * n + b
  OBVIOUS
<1>2. m = n * (m \div n) + (m % n) /\ m % n \in 0..(n - 1) /\ m \div n \in Nat
  OBVIOUS
<1>3. PICK q \in Nat, t \in 0..(n - 1) : q = m \div n /\ t = m % n
  BY <1>2
<1>4. n * q + t = n * a + b
  BY <1>1, <1>2, <1>3
<1>5. q = a
  <2>1. ~ (q < a)
    <3> SUFFICES ASSUME q < a PROVE FALSE
      OBVIOUS
    <3>1. PICK d \in Nat \ {0} : a = q + d
      <4>1. a - q \in Nat \ {0} /\ a = q + (a - q)
        OBVIOUS
      <4> QED BY <4>1
    <3>2. n * a = n * q + n * d
      BY <3>1
    <3>3. n * d >= n
      <4>1. d - 1 \in Nat /\ n * (d - 1) \in Nat /\ n * d = n * (d - 1) + n
        OBVIOUS
      <4> QED BY <4>1
    <3> QED BY <1>4, <3>2, <3>3
  <2>2. ~ (a < q)
    <3> SUFFICES ASSUME a < q PROVE FALSE
      OBVIOUS
    <3>1. PICK d \in Nat \ {0} : q = a + d
      <4>1. q - a \in Nat \ {0} /\ q = a + (q - a)
        OBVIOUS
      <4> QED BY <4>1
    <3>2. n * q = n * a + n * d
      BY <3>1
    <3>3. n * d >= n
      <4>1. d - 1 \in Nat /\ n * (d - 1) \in Nat /\ n * d = n * (d - 1) + n
        OBVIOUS
      <4> QED BY <4>1
    <3> QED BY <1>4, <3>2, <3>3
  <2> QED BY <2>1, <2>2
<1>6. t = b
  BY <1>4, <1>5
<1> QED BY <1>1, <1>3, <1>5, <1>6

(* Where the k-th of m * n is in rows of n.                                 *)
LEMMA RowAndColumn ==
  ASSUME NEW n \in Nat \ {0}, NEW m \in Nat, NEW k \in 1..(m * n)
  PROVE  /\ (k - 1) \div n \in 0..(m - 1) /\ (k - 1) % n \in 0..(n - 1)
         /\ ((k - 1) \div n) * n + ((k - 1) % n) = k - 1
<1>1. k - 1 \in Nat /\ m * n \in Nat
  OBVIOUS
<1>2. PICK j \in Nat : j = k - 1
  BY <1>1
<1>3. PICK q \in Nat, t \in 0..(n - 1) : q = j \div n /\ t = j % n /\ j = n * q + t
  <2>1. j = n * (j \div n) + (j % n) /\ j % n \in 0..(n - 1) /\ j \div n \in Nat
    OBVIOUS
  <2> QED BY <2>1
<1>4. q < m
  <2> SUFFICES ASSUME q >= m PROVE FALSE
    OBVIOUS
  <2>1. PICK d \in Nat : q = m + d
    <3>1. q - m \in Nat /\ q = m + (q - m)
      OBVIOUS
    <3> QED BY <3>1
  <2>2. n * q = m * n + n * d /\ n * d \in Nat
    BY <2>1
  <2> QED BY <1>1, <1>2, <1>3, <2>2
<1>5. q * n + t = j
  BY <1>3
<1> QED BY <1>2, <1>3, <1>4, <1>5

(* Two lists, one behind the other.                                         *)
LEMMA ListsJoined ==
  ASSUME NEW n \in Nat, NEW m \in Nat, NEW s, s = [k \in 1..n |-> s[k]],
         NEW t, t = [k \in 1..m |-> t[k]]
  PROVE  s \o t = [k \in 1..(n + m) |-> IF k <= n THEN s[k] ELSE t[k - n]]
<1> DEFINE S == {s[k] : k \in 1..n} \cup {t[k] : k \in 1..m}
<1>1. s \in [1..n -> S] /\ t \in [1..m -> S]
  OBVIOUS
<1> HIDE DEF S
<1>2. s \in Seq(S) /\ Len(s) = n /\ t \in Seq(S) /\ Len(t) = m
  BY <1>1, SequenceOf
<1>3. PICK u : u = s \o t
  OBVIOUS
<1>4. u \in Seq(S) /\ Len(u) = n + m
  BY <1>2, <1>3
<1>5. u \in [1..(n + m) -> S]
  BY <1>4, FunctionOf
<1>6. \A k \in 1..(n + m) : u[k] = IF k <= n THEN s[k] ELSE t[k - n]
  BY <1>2, <1>3
<1> QED BY <1>3, <1>5, <1>6

-----------------------------------------------------------------------------
(* The offsets of the gate.                                                 *)

(* What the vendor's client shows of an exposure with these parameters.     *)
TruthOf(r, p, i, s) == ShownOf(r, p, i, IF p.mode = "gated" THEN Offsets(p)[s + 1] ELSE 0)

(* For the parameters of a run, that is what the properties compare with.   *)
LEMMA TruthIs ==
  ASSUME NEW r, NEW i, NEW s
  PROVE  Truth(r, i, s) = TruthOf(r, runs[r].params, i, s)
BY DEF Truth, TruthOf, ShownOf, Sent

(* The list of the offsets is as long as the sweep, and the camera, asked   *)
(* for the sweep at once, goes through it in this order.                    *)
LEMMA OffsetsFit ==
  ASSUME NEW p, p.steps \in Int, p.size \in Int, p.offset \in Int, p.arbitrary \in Seq(Int)
  PROVE  LET steps == EffectiveSteps(p)
             cmd == GatedCommand(p, steps, p.offset, p.dir, p.arbitrary # <<>>)
         IN  /\ steps \in Int
             /\ Len(Offsets(p)) = (IF steps >= 1 THEN steps ELSE 0)
             /\ Offsets(p) = <<>> <=> steps < 1
             /\ \A s \in 0..(steps - 1) : /\ Offsets(p)[s + 1] \in Int
                                         /\ GateOffset(cmd, p.arbitrary, s) = Offsets(p)[s + 1]
<1> DEFINE steps == EffectiveSteps(p)
           cmd == GatedCommand(p, steps, p.offset, p.dir, p.arbitrary # <<>>)
<1>0. cmd.steps = steps /\ cmd.offset = p.offset /\ cmd.size = p.size /\ cmd.dir = p.dir
      /\ cmd.arbitrary = (p.arbitrary # <<>>)
  BY DEF GatedCommand
<1>1. CASE p.arbitrary # <<>>
  <2>1. Offsets(p) = p.arbitrary /\ steps = Len(p.arbitrary) /\ steps \in Nat \ {0}
    BY <1>1 DEF Offsets, EffectiveSteps
  <2> HIDE DEF cmd, steps
  <2>2. \A s \in 0..(steps - 1) : GateOffset(cmd, p.arbitrary, s) = p.arbitrary[s + 1]
    BY <1>0, <1>1 DEF GateOffset
  <2>3. \A s \in 0..(steps - 1) : p.arbitrary[s + 1] \in Int
    BY <2>1
  <2> QED BY <1>1, <2>1, <2>2, <2>3 DEF steps, cmd
<1>2. CASE p.arbitrary = <<>>
  <2>1. steps = p.steps
    BY <1>2 DEF EffectiveSteps
  <2>2. PICK n \in Int, size \in Int, offset \in Int :
          n = steps /\ size = p.size /\ offset = p.offset
    BY <2>1
  <2>3. Offsets(p) = [s \in 1..n |-> IF p.dir = "reverse" THEN offset + (n - s) * size
                                     ELSE offset + (s - 1) * size]
    BY <1>2, <2>1, <2>2 DEF Offsets
  <2> HIDE DEF cmd, steps
  <2>4. \A s \in 0..(n - 1) :
          GateOffset(cmd, p.arbitrary, s) = IF p.dir = "reverse" THEN offset + (n - 1 - s) * size
                                            ELSE offset + s * size
    BY <1>0, <1>2, <2>2 DEF GateOffset
  <2>5. \A s \in 0..(n - 1) : /\ Offsets(p)[s + 1] \in Int
                              /\ GateOffset(cmd, p.arbitrary, s) = Offsets(p)[s + 1]
    <3> SUFFICES ASSUME NEW s \in 0..(n - 1)
                 PROVE  /\ Offsets(p)[s + 1] \in Int
                        /\ GateOffset(cmd, p.arbitrary, s) = Offsets(p)[s + 1]
      OBVIOUS
    <3>1. PICK t \in 1..n : t = s + 1 /\ n - t = n - 1 - s /\ t - 1 = s
      <4>1. s + 1 \in 1..n /\ n - (s + 1) = n - 1 - s /\ s + 1 - 1 = s
        OBVIOUS
      <4> QED BY <4>1
    <3>2. Offsets(p)[t] = IF p.dir = "reverse" THEN offset + (n - t) * size
                          ELSE offset + (t - 1) * size
      BY <2>3
    <3>3. (n - t) * size \in Int /\ (t - 1) * size \in Int
      OBVIOUS
    <3> QED BY <2>4, <3>1, <3>2, <3>3
  <2>6. Len(Offsets(p)) = (IF n >= 1 THEN n ELSE 0) /\ (Offsets(p) = <<>> <=> n < 1)
    <3>1. CASE n >= 1
      <4>1. 1 \in DOMAIN Offsets(p) /\ DOMAIN Offsets(p) = 1..n
        BY <2>3, <3>1
      <4>2. Len(Offsets(p)) = n
        BY <2>3, <3>1, SeqOfLength
      <4> QED BY <3>1, <4>1, <4>2
    <3>2. CASE n < 1
      <4>1. 1..n = {}
        BY <3>2
      <4>2. Offsets(p) \in [1..0 -> Int]
        <5>1. 1..n = 1..0
          BY <4>1
        <5>2. PICK f : f = Offsets(p)
          OBVIOUS
        <5>3. f = [s \in 1..0 |-> f[s]]
          BY <2>3, <5>1, <5>2
        <5>4. \A s \in 1..0 : f[s] \in Int
          OBVIOUS
        <5> QED BY <5>2, <5>3, <5>4
      <4>3. Offsets(p) \in Seq(Int) /\ Len(Offsets(p)) = 0
        BY <4>2, SequenceOf
      <4> QED BY <3>2, <4>3
    <3> QED BY <3>1, <3>2
  <2> QED BY <2>2, <2>5, <2>6 DEF steps, cmd
<1> QED BY <1>1, <1>2

-----------------------------------------------------------------------------
(* What a run holds.                                                        *)

Measures(p) == p.mode \in {"intensity", "gated"}

(* The batches of iterations, or the gate steps, that are asked for.        *)
Asked(p) == IF p.mode = "gated" THEN Len(Offsets(p)) ELSE p.iterations

(* The frames of so many of them, and what the k-th one has to be.          *)
FramesOf(p, done) == IF p.mode = "gated" THEN p.iterations * done ELSE done

FrameOf(r, p, done, k) ==
  IF p.mode = "gated" THEN TruthOf(r, p, (k - 1) \div done, (k - 1) % done)
  ELSE TruthOf(r, p, k - 1, 0)

(* While it is taken: the bytes so far, or the frames so far, step by step. *)
PacedHolds(r, p, done, stack) ==
  stack = [k \in 1..(p.iterations * done) |->
             TruthOf(r, p, (k - 1) % p.iterations, (k - 1) \div p.iterations)]

WireHolds(r, p, done, wire) ==
  /\ wire \in Seq(Bytes(p.depth)) /\ Len(wire) = FramesOf(p, done) * PerFrame(p)
  /\ \A k \in 1..FramesOf(p, done) :
       DecodeFrame(Piece(wire, PerFrame(p), k), p.depth, p.pileup) = FrameOf(r, p, done, k)

Holds(r, run) ==
  IF Paced(run.params) THEN PacedHolds(r, run.params, run.done, run.stack)
  ELSE WireHolds(r, run.params, run.done, run.wire)

(* Once it is decoded: sweep by sweep.                                      *)
Kept(r, run) ==
  run.stack = [k \in 1..FramesOf(run.params, run.done) |-> FrameOf(r, run.params, run.done, k)]

(* What the parameters of a measurement are good for.                       *)
LEMMA SaneFrames ==
  ASSUME NEW p, Sane(p), Measures(p)
  PROVE  /\ FrameParams(p) /\ PerFrame(p) \in Nat \ {0}
         /\ p.iterations \in Nat /\ (p.mode = "intensity" => p.iterations \in Nat \ {0})
         /\ Asked(p) \in Nat
         /\ p.mode = "gated" => Offsets(p) = <<>> <=> Asked(p) = 0
<1>1. FrameParams(p)
  <2>1. p.mode = "gated" => p.depth \in IntBitDepths /\ p.width \in 1..Rows
    BY WidthsFit DEF Sane, GatedBitDepths, IntBitDepths
  <2> QED BY <2>1 DEF Sane, Measures, FrameParams
<1>2. PerFrame(p) \in Nat \ {0}
  BY <1>1, FrameHasBytes
<1>3. p.iterations \in Nat /\ (p.mode = "intensity" => p.iterations \in Nat \ {0})
  BY DEF Sane, Measures
<1>4. CASE p.mode = "gated"
  <2>1. p.steps \in Int /\ p.size \in Int /\ p.offset \in Int /\ p.arbitrary \in Seq(Int)
    BY <1>4 DEF Sane
  <2>2. PICK steps \in Int : /\ steps = EffectiveSteps(p)
                             /\ Len(Offsets(p)) = (IF steps >= 1 THEN steps ELSE 0)
                             /\ Offsets(p) = <<>> <=> steps < 1
    BY <2>1, OffsetsFit
  <2>3. Asked(p) = Len(Offsets(p))
    BY <1>4 DEF Asked
  <2> QED BY <1>1, <1>2, <1>3, <1>4, <2>2, <2>3
<1>5. CASE p.mode # "gated"
  BY <1>1, <1>2, <1>3, <1>5 DEF Asked
<1> QED BY <1>4, <1>5

(* Before the first command it holds nothing.                               *)
LEMMA HoldsNothing ==
  ASSUME NEW r, NEW run, Sane(run.params), Measures(run.params),
         run.done = 0, run.wire = <<>>, run.stack = <<>>
  PROVE  Holds(r, run)
<1>1. PICK p : p = run.params
  OBVIOUS
<1>2. PICK n \in Nat, per \in Nat \ {0} : n = p.iterations /\ per = PerFrame(p)
  BY <1>1, SaneFrames
<1>3. n * 0 = 0 /\ 0 * per = 0 /\ 1..0 = {}
  OBVIOUS
<1>4. FramesOf(p, 0) = 0
  BY <1>2, <1>3 DEF FramesOf
<1>5. PacedHolds(r, p, 0, <<>>)
  <2> DEFINE f == [k \in 1..(n * 0) |-> TruthOf(r, p, (k - 1) % n, (k - 1) \div n)]
  <2>1. f \in [1..0 -> {}]
    BY <1>3
  <2>2. f \in Seq({}) /\ Len(f) = 0
    <3> HIDE DEF f
    <3> QED BY <2>1, SequenceOf
  <2>3. f = <<>>
    <3> HIDE DEF f
    <3> QED BY <2>2
  <2> QED BY <1>2, <2>3 DEF PacedHolds
<1>6. WireHolds(r, p, 0, <<>>)
  <2>1. <<>> \in Seq(Bytes(p.depth)) /\ Len(<<>>) = 0
    OBVIOUS
  <2> QED BY <1>2, <1>3, <1>4, <2>1 DEF WireHolds
<1> QED BY <1>1, <1>5, <1>6 DEF Holds

(* A batch of an intensity acquisition adds its frames.                     *)
LEMMA BatchTaken ==
  ASSUME LightCounts, NEW r \in Int, NEW p, Sane(p), p.mode = "intensity",
         NEW done \in Nat, NEW n \in Nat \ {0}, NEW wire, WireHolds(r, p, done, wire)
  PROVE  WireHolds(r, p, done + n, wire \o HandleIntensity(r, IntensityCommand(p, n), p.pileup, done))
<1>1. FrameParams(p)
  BY SaneFrames DEF Measures
<1>2. PICK per \in Nat \ {0} : per = PerFrame(p)
  BY SaneFrames DEF Measures
<1>3. PICK data : data = HandleIntensity(r, IntensityCommand(p, n), p.pileup, done)
  OBVIOUS
<1>4. /\ data \in Seq(Bytes(p.depth)) /\ Len(data) = n * per
      /\ \A k \in 1..n : DecodeFrame(Piece(data, per, k), p.depth, p.pileup)
                           = ShownOf(r, p, done + k - 1, 0)
  BY <1>1, <1>2, <1>3, IntensityData
<1>5. FramesOf(p, done) = done /\ FramesOf(p, done + n) = done + n
  BY DEF FramesOf
<1>6. \A k : FrameOf(r, p, done, k) = ShownOf(r, p, k - 1, 0)
             /\ FrameOf(r, p, done + n, k) = ShownOf(r, p, k - 1, 0)
  BY DEF FrameOf, TruthOf
<1>7. PICK S : S = Bytes(p.depth)
  OBVIOUS
<1>8. /\ wire \in Seq(S) /\ Len(wire) = done * per
      /\ \A k \in 1..done : DecodeFrame(Piece(wire, per, k), p.depth, p.pileup)
                              = ShownOf(r, p, k - 1, 0)
  BY <1>2, <1>5, <1>6, <1>7 DEF WireHolds
<1>9. /\ wire \o data \in Seq(S) /\ Len(wire \o data) = (done + n) * per
      /\ \A k \in 1..done : Piece(wire \o data, per, k) = Piece(wire, per, k)
      /\ \A k \in 1..n : Piece(wire \o data, per, done + k) = Piece(data, per, k)
  <2>1. per \in Nat /\ n \in Nat /\ done \in Nat
    OBVIOUS
  <2>2. data \in Seq(S) /\ Len(data) = n * per
    BY <1>4, <1>7
  <2>3. wire \in Seq(S) /\ Len(wire) = done * per
    BY <1>8
  <2> QED BY ONLY <2>1, <2>2, <2>3, PiecesAppended
<1>10. ASSUME NEW k \in 1..(done + n)
       PROVE  DecodeFrame(Piece(wire \o data, per, k), p.depth, p.pileup) = ShownOf(r, p, k - 1, 0)
  <2>1. CASE k <= done
    BY <1>8, <1>9, <2>1
  <2>2. CASE k > done
    <3>1. PICK j \in 1..n : k = done + j /\ done + j - 1 = k - 1
      <4>1. k - done \in 1..n /\ k = done + (k - done)
        BY <2>2
      <4> QED BY <4>1
    <3> QED BY <1>4, <1>9, <3>1
  <2> QED BY <2>1, <2>2
<1> QED BY <1>2, <1>3, <1>5, <1>6, <1>7, <1>9, <1>10 DEF WireHolds

(* One sweep over all the gate steps, if the camera sent what was asked for.*)
LEMMA SweepTaken ==
  ASSUME LightCounts, NEW r \in Int, NEW p, Sane(p), p.mode = "gated", NEW data,
         LET steps == EffectiveSteps(p)
         IN  /\ data = HandleGated(r, GatedCommand(p, steps, p.offset, p.dir, p.arbitrary # <<>>),
                                   p.pileup, p.arbitrary)
             /\ Len(data) = p.iterations * steps * PerFrame(p)
  PROVE  /\ EffectiveSteps(p) = Asked(p) /\ Asked(p) >= 1 /\ p.iterations >= 1
         /\ WireHolds(r, p, EffectiveSteps(p), data)
<1> DEFINE steps == EffectiveSteps(p)
           cmd == GatedCommand(p, steps, p.offset, p.dir, p.arbitrary # <<>>)
<1>1. FrameParams(p) /\ p.iterations \in Nat
  BY SaneFrames DEF Measures
<1>2. PICK per \in Nat \ {0} : per = PerFrame(p)
  BY SaneFrames DEF Measures
<1>3. p.steps \in Int /\ p.size \in Int /\ p.offset \in Int /\ p.arbitrary \in Seq(Int)
  BY DEF Sane
<1>4. /\ steps \in Int
      /\ Len(Offsets(p)) = (IF steps >= 1 THEN steps ELSE 0)
      /\ \A s \in 0..(steps - 1) : /\ Offsets(p)[s + 1] \in Int
                                  /\ GateOffset(cmd, p.arbitrary, s) = Offsets(p)[s + 1]
  BY <1>3, OffsetsFit
<1>5. cmd.depth = p.depth /\ cmd.iterations = p.iterations /\ cmd.steps = steps /\ cmd.offset = p.offset
  BY DEF GatedCommand
<1>6. data = HandleGated(r, cmd, p.pileup, p.arbitrary) /\ Len(data) = p.iterations * steps * PerFrame(p)
  OBVIOUS
<1> HIDE DEF cmd, steps
<1>7. PICK asked \in Int : asked = p.iterations * steps
  BY <1>1, <1>4
<1>8. /\ asked < 1 => Len(data) = per
      /\ asked >= 1 /\ steps >= 1 =>
           /\ data \in Seq(Bytes(p.depth)) /\ Len(data) = asked * per
           /\ \A k \in 1..asked :
                DecodeFrame(Piece(data, per, k), p.depth, p.pileup)
                  = ShownOf(r, p, (k - 1) \div steps, GateOffset(cmd, p.arbitrary, (k - 1) % steps))
  <2>1. cmd.iterations \in Int /\ cmd.steps \in Int /\ cmd.offset \in Int /\ cmd.depth = p.depth
    BY <1>1, <1>3, <1>4, <1>5
  <2>2. \A s \in 0..(cmd.steps - 1) : GateOffset(cmd, p.arbitrary, s) \in Int
    BY <1>4, <1>5
  <2>3. Answers(r, p, cmd, p.arbitrary)
    BY <1>1, <2>1, <2>2, GatedData
  <2> QED BY <1>2, <1>5, <1>6, <1>7, <2>3 DEF Answers
<1>9. asked >= 1
  <2> SUFFICES ASSUME asked < 1 PROVE FALSE
    OBVIOUS
  <2>1. asked * per = per
    BY <1>2, <1>6, <1>7, <1>8
  <2>2. per >= 1 /\ asked <= 0
    OBVIOUS
  <2>3. PICK a \in Nat : asked = 0 - a
    <3>1. 0 - asked \in Nat /\ asked = 0 - (0 - asked)
      BY <2>2
    <3> QED BY <3>1
  <2>4. asked * per = 0 - a * per /\ a * per \in Nat
    BY <2>3
  <2> QED BY <2>1, <2>2, <2>4
<1>10. p.iterations >= 1 /\ steps >= 1
  <2>1. PICK n \in Nat : n = p.iterations
    BY <1>1
  <2>2. n # 0
    BY <1>4, <1>7, <1>9, <2>1
  <2>3. steps >= 1
    <3> SUFFICES ASSUME steps < 1 PROVE FALSE
      BY <1>4
    <3>1. PICK a \in Nat : steps = 0 - a
      <4>1. 0 - steps \in Nat /\ steps = 0 - (0 - steps)
        BY <1>4
      <4> QED BY <4>1
    <3>2. n * steps = 0 - n * a /\ n * a \in Nat
      BY <3>1
    <3> QED BY <1>7, <1>9, <2>1, <3>2
  <2> QED BY <2>1, <2>2, <2>3
<1>11. Asked(p) = steps
  BY <1>4, <1>10 DEF Asked
<1>12. FramesOf(p, steps) = asked
  BY <1>7 DEF FramesOf
<1>13. ASSUME NEW k \in 1..asked
       PROVE  DecodeFrame(Piece(data, per, k), p.depth, p.pileup) = FrameOf(r, p, steps, k)
  <2>1. PICK s \in 0..(steps - 1) : s = (k - 1) % steps
    <3>1. k - 1 \in Int /\ steps \in Nat \ {0}
      BY <1>4, <1>10
    <3> QED BY <3>1
  <2>2. GateOffset(cmd, p.arbitrary, s) = Offsets(p)[s + 1]
    BY <1>4
  <2>3. FrameOf(r, p, steps, k) = ShownOf(r, p, (k - 1) \div steps, Offsets(p)[s + 1])
    BY <2>1 DEF FrameOf, TruthOf
  <2> QED BY <1>8, <1>9, <1>10, <2>1, <2>2, <2>3
<1>14. WireHolds(r, p, steps, data)
  BY <1>2, <1>8, <1>9, <1>10, <1>12, <1>13 DEF WireHolds
<1> QED BY <1>10, <1>11, <1>14 DEF steps

(* One step of a paced sweep, if the camera sent what was asked for.        *)
LEMMA StepTaken ==
  ASSUME LightCounts, NEW r \in Int, NEW p, Sane(p), p.mode = "gated",
         NEW done \in Nat, done < Len(Offsets(p)), NEW stack, PacedHolds(r, p, done, stack),
         NEW data,
         data = HandleGated(r, GatedCommand(p, 1, Offsets(p)[done + 1], "forward", FALSE), p.pileup, <<>>),
         Len(data) = p.iterations * PerFrame(p)
  PROVE  /\ p.iterations >= 1
         /\ PacedHolds(r, p, done + 1,
              stack \o DecodeIntensity(data, p.depth, Rows, p.iterations, p.pileup))
<1>1. FrameParams(p)
  BY SaneFrames DEF Measures
<1>2. PICK per \in Nat \ {0}, n \in Nat : per = PerFrame(p) /\ n = p.iterations
  BY SaneFrames DEF Measures
<1>3. PICK steps \in Int : steps = EffectiveSteps(p) /\ Len(Offsets(p)) = (IF steps >= 1 THEN steps ELSE 0)
                           /\ \A s \in 0..(steps - 1) : Offsets(p)[s + 1] \in Int
  <2>1. p.steps \in Int /\ p.size \in Int /\ p.offset \in Int /\ p.arbitrary \in Seq(Int)
    BY DEF Sane
  <2> QED BY <2>1, OffsetsFit
<1>4. PICK offset \in Int : offset = Offsets(p)[done + 1]
  <2>1. done \in 0..(steps - 1)
    BY <1>3
  <2> QED BY <1>3, <2>1
<1>5. PICK cmd : cmd = GatedCommand(p, 1, offset, "forward", FALSE)
  OBVIOUS
<1>6. /\ cmd.depth = p.depth /\ cmd.iterations = n /\ cmd.steps = 1 /\ cmd.offset = offset
      /\ cmd.size = p.size /\ cmd.dir = "forward" /\ cmd.arbitrary = FALSE
  BY <1>2, <1>5 DEF GatedCommand
<1>7. GateOffset(cmd, <<>>, 0) = offset
  <2>1. p.size \in Int
    BY DEF Sane
  <2>2. 0 * p.size = 0
    BY <2>1
  <2> QED BY <1>6, <2>2 DEF GateOffset
<1>8. Answers(r, p, cmd, <<>>)
  <2>1. \A s \in 0..(cmd.steps - 1) : GateOffset(cmd, <<>>, s) \in Int
    BY <1>6, <1>7
  <2> QED BY <1>1, <1>6, <2>1, GatedData
<1>9. /\ n < 1 => Len(data) = per
      /\ n >= 1 => /\ data \in Seq(Bytes(p.depth)) /\ Len(data) = n * per
                   /\ \A k \in 1..n : DecodeFrame(Piece(data, per, k), p.depth, p.pileup)
                                        = ShownOf(r, p, k - 1, offset)
  <2>1. data = HandleGated(r, cmd, p.pileup, <<>>)
    BY <1>4, <1>5
  <2>2. \A k \in 1..n : (k - 1) \div 1 = k - 1 /\ (k - 1) % 1 = 0
    OBVIOUS
  <2>3. cmd.iterations * cmd.steps = n
    BY <1>6
  <2>4. n < 1 => Len(data) = per
    BY <1>2, <1>8, <2>1, <2>3 DEF Answers
  <2>5. n >= 1 => /\ data \in Seq(Bytes(p.depth)) /\ Len(data) = n * per
                  /\ \A k \in 1..n : DecodeFrame(Piece(data, per, k), p.depth, p.pileup)
                                       = ShownOf(r, p, (k - 1) \div 1, GateOffset(cmd, <<>>, (k - 1) % 1))
    <3>1. PICK one, asked : one = cmd.steps /\ asked = cmd.iterations * cmd.steps
      OBVIOUS
    <3>2. asked = n /\ one = 1 /\ PerFrame(p) = per
      BY <1>2, <1>6, <2>3, <3>1
    <3>3. asked >= 1 /\ one >= 1 =>
             /\ data \in Seq(Bytes(p.depth)) /\ Len(data) = asked * PerFrame(p)
             /\ \A k \in 1..asked : DecodeFrame(Piece(data, PerFrame(p), k), p.depth, p.pileup)
                  = ShownOf(r, p, (k - 1) \div one, GateOffset(cmd, <<>>, (k - 1) % one))
      BY <1>8, <2>1, <3>1, Zenon DEF Answers
    <3>4. 1 >= 1
      OBVIOUS
    <3> QED BY <3>2, <3>3, <3>4, Zenon
  <2>6. ASSUME n >= 1, NEW k \in 1..n
        PROVE  DecodeFrame(Piece(data, per, k), p.depth, p.pileup) = ShownOf(r, p, k - 1, offset)
    BY <1>7, <2>2, <2>5, <2>6
  <2> QED BY <2>4, <2>5, <2>6
<1>10. n >= 1
  <2> SUFFICES ASSUME n = 0 PROVE FALSE
    OBVIOUS
  <2>1. Len(data) = per
    <3>1. 0 < 1
      OBVIOUS
    <3> QED BY <1>9, <3>1
  <2>2. Len(data) = n * per
    BY <1>2
  <2>3. 0 * per = 0
    OBVIOUS
  <2> QED BY <2>1, <2>2, <2>3
<1> DEFINE new == DecodeIntensity(data, p.depth, Rows, p.iterations, p.pileup)
           a == n * done
<1>11. new = [k \in 1..n |-> ShownOf(r, p, k - 1, offset)]
  <2>1. BytesPerFrame(p.depth, Rows, p.pileup) = per
    BY <1>1, <1>2 DEF PerFrame, FrameParams
  <2>2. new = [k \in 1..n |-> DecodeFrame(Piece(data, per, k), p.depth, p.pileup)]
    BY <1>2, <2>1 DEF DecodeIntensity, Piece
  <2> HIDE DEF new
  <2> QED BY <1>9, <1>10, <2>2
<1>12. stack = [k \in 1..a |-> TruthOf(r, p, (k - 1) % n, (k - 1) \div n)]
  BY <1>2 DEF PacedHolds
<1>13. a \in Nat /\ n * (done + 1) = a + n
  OBVIOUS
<1> HIDE DEF new
<1>14. stack \o new = [k \in 1..(a + n) |-> IF k <= a THEN stack[k] ELSE new[k - a]]
  <2> HIDE DEF a
  <2>1. stack = [k \in 1..a |-> stack[k]] /\ new = [k \in 1..n |-> new[k]]
    BY <1>11, <1>12
  <2>2. a \in Nat /\ n \in Nat
    BY <1>13
  <2> QED BY ONLY <2>1, <2>2, ListsJoined, SMTT(30)
<1>15. ASSUME NEW k \in 1..(a + n)
       PROVE  (IF k <= a THEN stack[k] ELSE new[k - a]) = TruthOf(r, p, (k - 1) % n, (k - 1) \div n)
  <2>1. CASE k <= a
    <3> HIDE DEF a
    <3>1. k \in 1..a
      BY <1>13, <2>1
    <3> QED BY <1>12, <2>1, <3>1
  <2>2. CASE k > a
    <3>1. PICK b \in 0..(n - 1) : k - 1 = done * n + b /\ k - a = b + 1
      <4>1. k - 1 - a \in 0..(n - 1) /\ k - 1 = done * n + (k - 1 - a) /\ k - a = k - 1 - a + 1
        BY <1>13, <2>2
      <4> QED BY <4>1
    <3>2. (done * n + b) \div n = done /\ (done * n + b) % n = b
      <4>1. n \in Nat \ {0} /\ done \in Nat /\ b \in 0..(n - 1)
        BY <1>10
      <4> QED BY ONLY <4>1, DivMod
    <3>3. (k - 1) \div n = done /\ (k - 1) % n = b
      BY <3>1, <3>2
    <3>4. new[k - a] = ShownOf(r, p, b, offset)
      <4>1. b + 1 \in 1..n /\ b + 1 - 1 = b
        OBVIOUS
      <4> QED BY <1>11, <3>1, <4>1
    <3>5. TruthOf(r, p, b, done) = ShownOf(r, p, b, offset)
      BY <1>4 DEF TruthOf
    <3> HIDE DEF a
    <3>6. ~ (k <= a)
      BY <1>13, <2>2
    <3> QED BY <3>3, <3>4, <3>5, <3>6
  <2> QED BY <1>13, <2>1, <2>2
<1>16. stack \o new = [k \in 1..(n * (done + 1)) |-> TruthOf(r, p, (k - 1) % n, (k - 1) \div n)]
  <2> HIDE DEF a
  <2> QED BY <1>13, <1>14, <1>15
<1> QED BY <1>2, <1>10, <1>16 DEF PacedHolds, new

(* Sweep by sweep is how the frames are decoded, however they were taken.   *)
LEMMA DecodedIsTaken ==
  ASSUME NEW r \in Int, NEW run, Sane(run.params), Measures(run.params),
         run.done \in Nat \ {0}, run.params.iterations >= 1, Holds(r, run)
  PROVE  Decoded(run) = [k \in 1..FramesOf(run.params, run.done) |->
                           FrameOf(r, run.params, run.done, k)]
<1>0. PICK p : p = run.params
  OBVIOUS
<1>1. PICK done \in Nat \ {0} : p = run.params /\ done = run.done
  BY <1>0
<1>2. PICK n \in Nat \ {0} : n = p.iterations
  BY <1>1, SaneFrames
<1>3. CASE Paced(p)
  <2>1. p.mode = "gated" /\ FramesOf(p, done) = n * done
    BY <1>2, <1>3 DEF Paced, FramesOf
  <2>2. PICK stack : stack = run.stack
    OBVIOUS
  <2>3. stack = [k \in 1..(n * done) |-> TruthOf(r, p, (k - 1) % n, (k - 1) \div n)]
    BY <1>1, <1>2, <1>3, <2>2 DEF Holds, PacedHolds
  <2>4. Decoded(run) = [k \in 1..(n * done) |-> stack[((k - 1) % done) * n + ((k - 1) \div done) + 1]]
    BY <1>1, <1>2, <1>3, <2>2 DEF Decoded, SweepMajor
  <2>5. ASSUME NEW k \in 1..(n * done)
        PROVE  stack[((k - 1) % done) * n + ((k - 1) \div done) + 1] = FrameOf(r, p, done, k)
    <3>1. PICK a \in 0..(done - 1), b \in 0..(n - 1) : a = (k - 1) % done /\ b = (k - 1) \div done
      BY RowAndColumn
    <3>2. PICK m \in Nat : m = a * n + b
      OBVIOUS
    <3>3. m + 1 \in 1..(n * done)
      <4>1. PICK c \in Nat : c = done - 1 - a
        OBVIOUS
      <4>2. done = a + c + 1
        BY <4>1
      <4>3. n * done = a * n + c * n + n /\ c * n \in Nat
        BY <4>2
      <4> QED BY <3>2, <4>3
    <3>4. (a * n + b) \div n = a /\ (a * n + b) % n = b
      BY DivMod
    <3>5. m + 1 - 1 = m
      OBVIOUS
    <3>6. stack[m + 1] = TruthOf(r, p, b, a)
      <4>1. PICK l : l = m + 1
        OBVIOUS
      <4>2. l \in 1..(n * done) /\ l - 1 = m
        BY <3>3, <3>5, <4>1
      <4>3. stack[l] = TruthOf(r, p, (l - 1) % n, (l - 1) \div n)
        BY <2>3, <4>2
      <4> QED BY <3>2, <3>4, <4>1, <4>2, <4>3
    <3> QED BY <2>1, <3>1, <3>2, <3>6 DEF FrameOf
  <2> QED BY <1>1, <2>1, <2>4, <2>5
<1>4. CASE ~Paced(p)
  <2>1. PICK m : m = FramesOf(p, done)
    OBVIOUS
  <2>2. \A k \in 1..m : DecodeFrame(Piece(run.wire, PerFrame(p), k), p.depth, p.pileup)
                          = FrameOf(r, p, done, k)
    BY <1>1, <1>4, <2>1 DEF Holds, WireHolds
  <2>3. Decoded(run) = [k \in 1..m |-> DecodeFrame(Piece(run.wire, PerFrame(p), k), p.depth, p.pileup)]
    BY <1>1, <1>4, <2>1 DEF Decoded, DecodeIntensity, FramesOf, PerFrame, Piece
  <2> QED BY <1>1, <2>1, <2>2, <2>3
<1> QED BY <1>3, <1>4

-----------------------------------------------------------------------------
(* What a run holds and has written is what its parameters ask for, as far  *)
(* as it has got.                                                           *)

Counted(run) ==
  LET p == run.params
  IN  /\ run.done \in Nat /\ run.written \in Nat /\ run.done <= Asked(p)
      /\ run.pc = "io" =>
           run.done = 0 \/ (run.done < Asked(p) /\ (p.mode = "gated" => Paced(p)))
      /\ run.pc = "boundary" /\ p.mode = "gated" => Paced(p) /\ run.done < Asked(p)
      /\ run.pc \in {"boundary", "correct"} \cup Saving \/ run.made =>
           run.done >= 1 /\ p.iterations >= 1
      /\ run.status = "done" /\ run.pc \notin {"io", "boundary"} => run.done = Asked(p)
      /\ run.pc \in Taking \cup {"list", "make"} => run.written = 0
      /\ run.pc = "frames" => run.written < FramesOf(p, run.done)
      /\ run.pc \in {"sidecar", "reduce"} => run.written = FramesOf(p, run.done)

DataFits(r, run) ==
  IF Measures(run.params)
  THEN /\ Sane(run.params) /\ Counted(run)
       /\ run.pc \in Taking => Holds(r, run)
       /\ run.pc \in Saving \/ (run.pc \in {"finish", "answer"} /\ run.status = "done") =>
            Kept(r, run)
  ELSE run.pc \in {"io", "finish", "answer", "over"} /\ ~run.made

(* Whatever ends a run early leaves what it has written as it is.           *)
LEMMA EndedFits ==
  ASSUME NEW r, NEW run, DataFits(r, run), NEW next, next.params = run.params,
         next.done = run.done, next.written = run.written, next.made = run.made,
         next.pc \in {"finish", "over"}, next.status # "done"
  PROVE  DataFits(r, next)
<1>1. CASE Measures(run.params)
  <2>1. Sane(run.params) /\ Counted(run)
    BY <1>1 DEF DataFits
  <2>2. Counted(next)
    BY <2>1 DEF Counted, Saving, Taking
  <2> QED BY <1>1, <2>1, <2>2 DEF DataFits, Taking, Saving
<1>2. CASE ~Measures(run.params)
  BY <1>2 DEF DataFits
<1> QED BY <1>1, <1>2

(* So does its end, and what it is told on the way.                         *)
LEMMA ClosedFits ==
  ASSUME NEW r, NEW run, DataFits(r, run), NEW next, next.params = run.params,
         next.done = run.done, next.written = run.written, next.made = run.made,
         next.status = run.status,
         \/ next.pc = "over" /\ run.pc \in {"finish", "answer"}
         \/ next.pc = "answer" /\ run.pc = "finish" /\ next.stack = run.stack
         \/ next.pc = run.pc /\ next.stack = run.stack /\ next.wire = run.wire
  PROVE  DataFits(r, next)
<1>1. CASE Measures(run.params)
  <2>1. /\ Sane(run.params) /\ Counted(run)
        /\ run.pc \in Taking => Holds(r, run)
        /\ run.pc \in Saving \/ (run.pc \in {"finish", "answer"} /\ run.status = "done") =>
             Kept(r, run)
    BY <1>1 DEF DataFits
  <2>2. Counted(next)
    <3>1. CASE next.pc = run.pc
      BY <2>1, <3>1 DEF Counted
    <3>2. CASE next.pc # run.pc
      BY <2>1, <3>2 DEF Counted, Saving, Taking
    <3> QED BY <3>1, <3>2
  <2>3. next.pc \in Taking => Holds(r, next)
    <3>1. SUFFICES ASSUME next.pc \in Taking PROVE Holds(r, next)
      OBVIOUS
    <3>2. next.pc = run.pc /\ next.stack = run.stack /\ next.wire = run.wire
      BY <3>1 DEF Taking
    <3> QED BY <2>1, <3>1, <3>2 DEF Holds
  <2>4. next.pc \in Saving \/ (next.pc \in {"finish", "answer"} /\ next.status = "done") =>
          Kept(r, next)
    <3>1. SUFFICES ASSUME next.pc \in Saving \/ (next.pc \in {"finish", "answer"} /\ next.status = "done")
                   PROVE  Kept(r, next)
      OBVIOUS
    <3>2. next.stack = run.stack
      BY <3>1 DEF Saving
    <3>3. run.pc \in Saving \/ (run.pc \in {"finish", "answer"} /\ run.status = "done")
      BY <3>1 DEF Saving
    <3> QED BY <2>1, <3>2, <3>3 DEF Kept
  <2> QED BY <1>1, <2>1, <2>2, <2>3, <2>4 DEF DataFits
<1>2. CASE ~Measures(run.params)
  BY <1>2 DEF DataFits
<1> QED BY <1>1, <1>2

(* The parameters of a run that measures, and its counts.                   *)
LEMMA Measured ==
  ASSUME NEW r, NEW run, DataFits(r, run),
         Measures(run.params) \/ run.pc \in {"boundary", "correct"} \cup Saving \/ run.made
  PROVE  /\ Measures(run.params) /\ Sane(run.params) /\ Counted(run)
         /\ run.pc \in Taking => Holds(r, run)
         /\ run.pc \in Saving \/ (run.pc \in {"finish", "answer"} /\ run.status = "done") =>
              Kept(r, run)
         /\ run.params.iterations \in Nat /\ run.done \in Nat /\ run.written \in Nat
         /\ FramesOf(run.params, run.done) \in Nat
         /\ run.done >= 1 /\ run.params.iterations >= 1 => FramesOf(run.params, run.done) >= 1
<1>1. Measures(run.params)
  BY DEF DataFits, Saving
<1>2. /\ Sane(run.params) /\ Counted(run)
      /\ run.pc \in Taking => Holds(r, run)
      /\ run.pc \in Saving \/ (run.pc \in {"finish", "answer"} /\ run.status = "done") =>
           Kept(r, run)
  BY <1>1 DEF DataFits
<1>3. run.params.iterations \in Nat
  BY <1>1, <1>2, SaneFrames
<1>4. run.done \in Nat /\ run.written \in Nat
  BY <1>2 DEF Counted
<1>5. PICK n \in Nat, d \in Nat : n = run.params.iterations /\ d = run.done
  BY <1>3, <1>4
<1>6. n * d \in Nat /\ (n >= 1 /\ d >= 1 => n * d >= 1)
  <2>1. n >= 1 /\ d >= 1 => n * d = (n - 1) * d + d /\ (n - 1) * d \in Nat
    OBVIOUS
  <2> QED BY <2>1
<1>7. FramesOf(run.params, run.done) = n * d \/ FramesOf(run.params, run.done) = d
  BY <1>5 DEF FramesOf
<1>8. FramesOf(run.params, run.done) \in Nat
  BY <1>6, <1>7
<1>9. run.done >= 1 /\ run.params.iterations >= 1 => FramesOf(run.params, run.done) >= 1
  BY <1>5, <1>6, <1>7
<1> QED BY <1>1, <1>2, <1>3, <1>4, <1>8, <1>9

(* What a step changes of a run, and what it leaves.                        *)
Changes(r, fields) ==
  /\ DOMAIN fields \subseteq AllKeys
  /\ \A k \in DOMAIN fields : runs'[r][k] = fields[k]
  /\ \A k \in AllKeys \ DOMAIN fields : runs'[r][k] = runs[r][k]

(* That is what Goes says.                                                  *)
LEMMA GoesChanges ==
  ASSUME RunsFull, NEW r \in DOMAIN runs, NEW fields, DOMAIN fields \subseteq AllKeys,
         Goes(r, fields)
  PROVE  Changes(r, fields)
BY GoesOn DEF Changes

(* What fails has written what it has written.                              *)
LEMMA FailedFits ==
  ASSUME RunsFull, NEW r \in DOMAIN runs, DataFits(r, runs[r]), NEW status, status # "done",
         Fail(r, status) \/ Broken(r, status)
  PROVE  DataFits(r, runs'[r])
<1> DEFINE fields == [pc |-> "finish", status |-> status]
<1>1. Goes(r, fields)
  BY DEF Fail, Broken, Advance
<1>2. DOMAIN fields = {"pc", "status"} /\ fields["pc"] = "finish" /\ fields["status"] = status
  OBVIOUS
<1>3. Changes(r, fields)
  <2> HIDE DEF fields
  <2> QED BY <1>1, <1>2, GoesChanges DEF AllKeys
<1> HIDE DEF fields
<1>4. /\ runs'[r].pc = "finish" /\ runs'[r].status = status
      /\ runs'[r].params = runs[r].params /\ runs'[r].done = runs[r].done
      /\ runs'[r].written = runs[r].written /\ runs'[r].made = runs[r].made
  BY <1>2, <1>3 DEF Changes, AllKeys
<1> QED BY <1>4, EndedFits

(* An answer of the wrong length fails the run, another goes on.            *)
LEMMA ReceivedFits ==
  ASSUME RunsFull, NEW r \in DOMAIN runs, DataFits(r, runs[r]), NEW data, NEW frames, NEW fields,
         DOMAIN fields \subseteq AllKeys, Received(r, data, frames, fields),
         Len(data) = frames * PerFrame(runs[r].params) /\ Changes(r, fields) => DataFits(r, runs'[r])
  PROVE  DataFits(r, runs'[r])
<1>1. CASE Len(data) = frames * BytesPerFrame(runs[r].params.depth, runs[r].params.width,
                                              runs[r].params.pileup)
  <2>1. Goes(r, fields)
    BY <1>1 DEF Received, Advance
  <2> QED BY <1>1, <2>1, GoesChanges DEF PerFrame
<1>2. CASE Len(data) # frames * BytesPerFrame(runs[r].params.depth, runs[r].params.width,
                                              runs[r].params.pileup)
  <2>1. Fail(r, "error")
    BY <1>2 DEF Received
  <2> QED BY <2>1, FailedFits
<1> QED BY <1>1, <1>2

(* A batch.                                                                 *)
LEMMA IntensityFits ==
  ASSUME LightCounts, RunsFull, NEW r \in DOMAIN runs, r \in Int, DataFits(r, runs[r]),
         IntensityExchange(r)
  PROVE  DataFits(r, runs'[r])
<1>1. PICK run : run = runs[r]
  OBVIOUS
<1>2. PICK p : p = run.params /\ p.mode = "intensity" /\ run.pc = "io"
  BY <1>1 DEF IntensityExchange
<1>3. Measures(p) /\ Sane(p) /\ Counted(run) /\ Holds(r, run)
  BY <1>1, <1>2, Measured DEF Measures, Taking
<1>4. PICK asked \in Nat \ {0} : asked = p.iterations
  BY <1>2, <1>3, SaneFrames
<1>5. PICK done \in Nat : done = run.done /\ done < asked
  BY <1>2, <1>3, <1>4 DEF Counted, Asked
<1>6. ~Paced(p) /\ WireHolds(r, p, done, run.wire)
  BY <1>2, <1>3, <1>5 DEF Paced, Holds
<1> DEFINE left == p.iterations - runs[r].done
           n == IF left < BATCH_SIZE THEN left ELSE BATCH_SIZE
           data == HandleIntensity(r, IntensityCommand(p, n), p.pileup, done)
           fields == [wire |-> run.wire \o data, done |-> done + n,
                      pc |-> IF p.iterations <= BATCH_SIZE THEN "correct" ELSE "boundary"]
<1>7. Received(r, data, n, fields)
  BY <1>1, <1>2, <1>5 DEF IntensityExchange
<1>8. PICK m \in Nat \ {0} : m = n /\ done + m <= asked /\ (asked <= BATCH_SIZE => done + m = asked)
  <2>1. left = asked - done /\ BATCH_SIZE \in Nat \ {0}
    BY <1>1, <1>4, <1>5, MeasurementAssumption
  <2>2. n \in Nat \ {0} /\ done + n <= asked /\ (asked <= BATCH_SIZE => done + n = asked)
    <3>1. PICK l \in Nat \ {0}, batch \in Nat \ {0} :
            l = left /\ batch = BATCH_SIZE /\ l = asked - done
      <4>1. asked - done \in Nat \ {0}
        BY <1>5
      <4> HIDE DEF left
      <4> QED BY <2>1, <4>1
    <3>2. n = IF l < batch THEN l ELSE batch
      BY <3>1
    <3> HIDE DEF n, left
    <3> QED BY <3>1, <3>2
  <2> QED BY <2>2
<1>9. WireHolds(r, p, done + m, run.wire \o data)
  BY <1>2, <1>3, <1>6, <1>8, BatchTaken
<1>10. /\ DOMAIN fields = {"wire", "done", "pc"} /\ fields["wire"] = run.wire \o data
       /\ fields["done"] = done + m
       /\ fields["pc"] = IF asked <= BATCH_SIZE THEN "correct" ELSE "boundary"
  BY <1>4, <1>8
<1> HIDE DEF data, fields, n
<1>11. ASSUME Changes(r, fields) PROVE DataFits(r, runs'[r])
  <2>1. PICK next : next = runs'[r]
    OBVIOUS
  <2>2. /\ next.wire = run.wire \o data /\ next.done = done + m /\ next.params = p
        /\ next.pc = (IF asked <= BATCH_SIZE THEN "correct" ELSE "boundary")
        /\ next.written = run.written
    BY <1>1, <1>2, <1>10, <1>11, <2>1 DEF Changes, AllKeys
  <2>3. Holds(r, next)
    BY <1>6, <1>9, <2>2 DEF Holds
  <2>4. Counted(next)
    <3>1. Asked(p) = asked
      BY <1>2, <1>4 DEF Asked
    <3>2. run.written = 0
      BY <1>2, <1>3 DEF Counted, Taking
    <3>3. done + m \in Nat /\ done + m >= 1 /\ done + m <= asked
      BY <1>8
    <3> QED BY <1>2, <1>4, <1>8, <2>2, <3>1, <3>2, <3>3 DEF Counted, Saving
  <2> QED BY <1>3, <2>1, <2>2, <2>3, <2>4 DEF DataFits, Saving
<1> QED BY <1>7, <1>10, <1>11, ReceivedFits DEF AllKeys

(* A whole sweep.                                                           *)
LEMMA GatedFits ==
  ASSUME LightCounts, RunsFull, NEW r \in DOMAIN runs, r \in Int, DataFits(r, runs[r]),
         GatedExchange(r)
  PROVE  DataFits(r, runs'[r])
<1>1. PICK run : run = runs[r]
  OBVIOUS
<1>2. PICK p : p = run.params /\ p.mode = "gated" /\ run.pc = "io" /\ ~Paced(p)
  BY <1>1 DEF GatedExchange
<1>3. Measures(p) /\ Sane(p) /\ Counted(run)
  BY <1>1, <1>2, Measured DEF Measures
<1> DEFINE steps == EffectiveSteps(p)
           data == HandleGated(r, GatedCommand(p, steps, p.offset, p.dir, p.arbitrary # <<>>),
                               p.pileup, p.arbitrary)
           fields == [wire |-> data, done |-> steps, pc |-> "correct"]
<1>4. Received(r, data, p.iterations * steps, fields)
  BY <1>1, <1>2 DEF GatedExchange
<1>5. /\ DOMAIN fields = {"wire", "done", "pc"} /\ fields["wire"] = data
      /\ fields["done"] = steps /\ fields["pc"] = "correct"
  OBVIOUS
<1>6. ASSUME Len(data) = p.iterations * steps * PerFrame(p)
      PROVE  steps = Asked(p) /\ Asked(p) >= 1 /\ p.iterations >= 1 /\ WireHolds(r, p, steps, data)
  BY <1>2, <1>3, <1>6, SweepTaken
<1> HIDE DEF steps, data, fields
<1>7. ASSUME Len(data) = p.iterations * steps * PerFrame(p), Changes(r, fields)
      PROVE  DataFits(r, runs'[r])
  <2>1. PICK next : next = runs'[r]
    OBVIOUS
  <2>2. /\ next.wire = data /\ next.done = steps /\ next.params = p /\ next.pc = "correct"
        /\ next.written = run.written
    BY <1>1, <1>2, <1>5, <1>7, <2>1 DEF Changes, AllKeys
  <2>3. Holds(r, next)
    BY <1>2, <1>6, <1>7, <2>2 DEF Holds
  <2>4. Asked(p) \in Nat /\ run.written = 0
    BY <1>2, <1>3, SaneFrames DEF Counted, Taking
  <2>5. Counted(next)
    BY <1>6, <1>7, <2>2, <2>4 DEF Counted, Saving
  <2> QED BY <1>3, <2>1, <2>2, <2>3, <2>5 DEF DataFits, Saving
<1>8. Received(r, data, p.iterations * steps, fields) /\ DOMAIN fields \subseteq AllKeys
  BY <1>4, <1>5 DEF AllKeys
<1> QED BY <1>1, <1>2, <1>7, <1>8, ReceivedFits

(* The counts once the data is taken.                                       *)
LEMMA TakenCounted ==
  ASSUME NEW run, run.pc = "correct", run.done \in Nat, run.done >= 1, run.written = 0,
         run.params.iterations >= 1, run.done <= Asked(run.params),
         run.status = "done" => run.done = Asked(run.params)
  PROVE  Counted(run)
BY DEF Counted, Saving

(* The counts while it is not.                                              *)
LEMMA TakingCounted ==
  ASSUME NEW run, run.pc \in {"io", "boundary"}, run.done \in Nat, run.done >= 1,
         run.written = 0, run.params.iterations >= 1,
         run.done <= Asked(run.params), run.pc = "io" => run.done < Asked(run.params),
         run.params.mode = "gated" => Paced(run.params) /\ run.done < Asked(run.params)
  PROVE  Counted(run)
<1>1. run.pc \notin {"correct"} \cup Saving
  BY DEF Saving
<1> QED BY <1>1 DEF Counted, Saving

(* A step of a paced sweep.                                                 *)
LEMMA PacedFits ==
  ASSUME LightCounts, RunsFull, NEW r \in DOMAIN runs, r \in Int, DataFits(r, runs[r]),
         PacedExchange(r)
  PROVE  DataFits(r, runs'[r])
<1>1. PICK run : run = runs[r]
  OBVIOUS
<1>2. PICK p : p = run.params /\ run.pc = "io" /\ Paced(p) /\ p.mode = "gated"
  BY <1>1 DEF PacedExchange, Paced
<1>3. Measures(p) /\ Sane(p) /\ Counted(run) /\ Holds(r, run)
  BY <1>1, <1>2, Measured DEF Measures, Taking
<1>4. CASE Offsets(p) = <<>>
  <2>1. Fail(r, "aborted")
    BY <1>1, <1>2, <1>4 DEF PacedExchange
  <2> QED BY <2>1, FailedFits
<1>5. CASE Offsets(p) # <<>>
  <2>1. PICK asked \in Nat \ {0} : asked = Asked(p) /\ asked = Len(Offsets(p))
    <3>1. Asked(p) \in Nat /\ Asked(p) # 0 /\ Asked(p) = Len(Offsets(p))
      BY <1>2, <1>3, <1>5, SaneFrames DEF Asked
    <3> QED BY <3>1
  <2>2. PICK done \in Nat : done = run.done /\ done < asked
    BY <1>2, <1>3, <2>1 DEF Counted
  <2>3. PacedHolds(r, p, done, run.stack)
    BY <1>2, <1>3, <2>2 DEF Holds
  <2> DEFINE data == HandleGated(r, GatedCommand(p, 1, Offsets(p)[done + 1], "forward", FALSE),
                                 p.pileup, <<>>)
             stack == run.stack \o DecodeIntensity(data, p.depth, Rows, p.iterations, p.pileup)
             fields == [stack |-> stack, done |-> done + 1,
                        pc |-> IF done + 1 < Len(Offsets(p)) THEN "boundary" ELSE "correct"]
  <2>4. Received(r, data, p.iterations, fields)
    BY <1>1, <1>2, <1>5, <2>2 DEF PacedExchange
  <2>5. /\ DOMAIN fields = {"stack", "done", "pc"} /\ fields["stack"] = stack
        /\ fields["done"] = done + 1
        /\ fields["pc"] = IF done + 1 < asked THEN "boundary" ELSE "correct"
    BY <2>1
  <2>6. ASSUME Len(data) = p.iterations * PerFrame(p)
        PROVE  p.iterations >= 1 /\ PacedHolds(r, p, done + 1, stack)
    BY <1>2, <1>3, <2>1, <2>2, <2>3, <2>6, StepTaken
  <2> HIDE DEF data, stack, fields
  <2>7. ASSUME Len(data) = p.iterations * PerFrame(p), Changes(r, fields)
        PROVE  DataFits(r, runs'[r])
    <3>1. PICK next : next = runs'[r]
      OBVIOUS
    <3>2. /\ next.stack = stack /\ next.done = done + 1 /\ next.params = p
          /\ next.pc = (IF done + 1 < asked THEN "boundary" ELSE "correct")
          /\ next.written = run.written
      BY <1>1, <1>2, <2>5, <2>7, <3>1 DEF Changes, AllKeys
    <3>3. Holds(r, next)
      BY <1>2, <2>6, <2>7, <3>2 DEF Holds
    <3>4. run.written = 0
      BY <1>2, <1>3 DEF Counted, Taking
    <3>5. Counted(next)
      <4>1. p.iterations >= 1
        BY <2>6, <2>7
      <4>2. done + 1 \in Nat /\ done + 1 >= 1 /\ (done + 1 < asked \/ done + 1 = asked)
        BY <2>2
      <4>3. CASE done + 1 < asked
        <5>1. next.pc = "boundary" /\ next.done < Asked(next.params) /\ next.done <= Asked(next.params)
          <6>1. next.pc = "boundary" /\ next.done = done + 1
            BY <3>2, <4>3
          <6>2. Asked(next.params) = asked
            BY <2>1, <3>2
          <6>3. done + 1 < asked /\ done + 1 <= asked
            BY <4>2, <4>3
          <6> QED BY <6>1, <6>2, <6>3
        <5>2. next.done \in Nat /\ next.done >= 1 /\ next.params.iterations >= 1 /\ next.written = 0
          BY <3>2, <3>4, <4>1, <4>2
        <5>3. Paced(next.params)
          BY <1>2, <3>2
        <5> QED BY <5>1, <5>2, <5>3, TakingCounted
      <4>4. CASE ~ (done + 1 < asked)
        <5>1. next.pc = "correct" /\ next.done = Asked(next.params)
          BY <2>1, <3>2, <4>2, <4>4
        <5>2. next.done \in Nat /\ next.done >= 1 /\ next.params.iterations >= 1 /\ next.written = 0
          BY <3>2, <3>4, <4>1, <4>2
        <5> QED BY <5>1, <5>2, TakenCounted
      <4> QED BY <4>3, <4>4
    <3> QED BY <1>3, <3>1, <3>2, <3>3, <3>5 DEF DataFits, Saving
  <2>8. Received(r, data, p.iterations, fields) /\ DOMAIN fields \subseteq AllKeys
    BY <2>4, <2>5 DEF AllKeys
  <2> QED BY <1>1, <1>2, <2>7, <2>8, ReceivedFits
<1> QED BY <1>4, <1>5

(* A stop between two steps or batches, or none.                            *)
LEMMA BoundaryFits ==
  ASSUME RunsFull, NEW r \in DOMAIN runs, DataFits(r, runs[r]), Boundary(r)
  PROVE  DataFits(r, runs'[r])
<1>1. PICK run : run = runs[r]
  OBVIOUS
<1>2. PICK p : p = run.params
  OBVIOUS
<1>3. run.pc = "boundary"
  BY <1>1 DEF Boundary
<1>4. Measures(p) /\ Sane(p) /\ Counted(run) /\ Holds(r, run)
  BY <1>1, <1>2, <1>3, Measured DEF Taking
<1>5. PICK next : next = runs'[r]
  OBVIOUS
<1>6. /\ next.params = p /\ next.done = run.done /\ next.written = run.written
      /\ next.stack = run.stack /\ next.wire = run.wire
      /\ \/ next.pc = "correct" /\ next.status = "aborted"
         \/ /\ next.pc = (IF Paced(p) \/ run.done < p.iterations THEN "io" ELSE "correct")
            /\ next.status = run.status
  <2>1. CASE stop
    <3> DEFINE fields == [pc |-> "correct", status |-> "aborted"]
    <3>1. Goes(r, fields)
      BY <2>1 DEF Boundary, Advance
    <3>2. DOMAIN fields = {"pc", "status"} /\ fields["pc"] = "correct" /\ fields["status"] = "aborted"
      OBVIOUS
    <3> HIDE DEF fields
    <3>3. Changes(r, fields)
      BY <3>1, <3>2, GoesChanges DEF AllKeys
    <3> QED BY <1>1, <1>2, <1>5, <3>2, <3>3 DEF Changes, AllKeys
  <2>2. CASE ~stop
    <3> DEFINE fields == [pc |-> IF Paced(p) \/ run.done < p.iterations THEN "io" ELSE "correct"]
    <3>1. Goes(r, fields)
      BY <1>1, <1>2, <2>2 DEF Boundary, Advance
    <3>2. /\ DOMAIN fields = {"pc"}
          /\ fields["pc"] = IF Paced(p) \/ run.done < p.iterations THEN "io" ELSE "correct"
      OBVIOUS
    <3> HIDE DEF fields
    <3>3. Changes(r, fields)
      BY <3>1, <3>2, GoesChanges DEF AllKeys
    <3> QED BY <1>1, <1>2, <1>5, <3>2, <3>3 DEF Changes, AllKeys
  <2> QED BY <2>1, <2>2
<1>7. Holds(r, next)
  BY <1>2, <1>4, <1>6 DEF Holds
<1>8. Counted(next)
  <2>1. p.iterations \in Nat /\ Asked(p) \in Nat /\ run.done \in Nat
    BY <1>4, SaneFrames DEF Counted
  <2>2. /\ run.done >= 1 /\ p.iterations >= 1 /\ run.written = 0 /\ run.done <= Asked(p)
        /\ p.mode = "gated" => Paced(p) /\ run.done < Asked(p)
    BY <1>2, <1>3, <1>4 DEF Counted, Taking
  <2>3. p.mode # "gated" => Asked(p) = p.iterations
    BY DEF Asked
  <2>4. CASE next.status = "aborted" /\ next.pc = "correct"
    <3>1. /\ next.done <= Asked(next.params) /\ next.done \in Nat /\ next.done >= 1
          /\ next.params.iterations >= 1 /\ next.written = 0
      BY <1>6, <2>1, <2>2
    <3>2. next.pc = "correct" /\ (next.status = "done" => next.done = Asked(next.params))
      BY <2>4
    <3> QED BY <3>1, <3>2, TakenCounted
  <2>5. CASE next.pc = "io" /\ (Paced(p) \/ run.done < p.iterations)
    <3>1. Paced(p) => p.mode = "gated"
      BY DEF Paced
    <3>2. run.done < Asked(p) /\ (p.mode = "gated" => Paced(p))
      BY <2>2, <2>3, <2>5, <3>1
    <3>3. next.done < Asked(next.params) /\ next.done \in Nat /\ next.done >= 1
          /\ next.done <= Asked(next.params) /\ next.params.iterations >= 1 /\ next.written = 0
          /\ (next.params.mode = "gated" => Paced(next.params))
      BY <1>6, <2>1, <2>2, <3>2
    <3> QED BY <2>5, <3>3, TakingCounted
  <2>6. CASE next.pc = "correct" /\ ~ (Paced(p) \/ run.done < p.iterations)
    <3>1. p.mode # "gated" /\ run.done = Asked(p)
      BY <2>1, <2>2, <2>3, <2>6
    <3>2. next.done = Asked(next.params) /\ next.done \in Nat /\ next.done >= 1
          /\ next.params.iterations >= 1 /\ next.written = 0
      BY <1>6, <2>1, <2>2, <3>1
    <3> QED BY <2>6, <3>2, TakenCounted
  <2> QED BY <1>6, <2>4, <2>5, <2>6
<1> QED BY <1>4, <1>5, <1>6, <1>7, <1>8 DEF DataFits, Saving

(* The frames are decoded.                                                  *)
LEMMA CorrectedFits ==
  ASSUME RunsFull, NEW r \in DOMAIN runs, r \in Int, DataFits(r, runs[r]), Correct(r)
  PROVE  DataFits(r, runs'[r])
<1>1. PICK run : run = runs[r]
  OBVIOUS
<1>2. PICK p : p = run.params /\ run.pc = "correct"
  BY <1>1 DEF Correct
<1>3. Measures(p) /\ Sane(p) /\ Counted(run) /\ Holds(r, run)
  BY <1>1, <1>2, Measured DEF Taking
<1>4. /\ run.done \in Nat \ {0} /\ p.iterations >= 1 /\ run.written = 0
      /\ run.done <= Asked(p)
      /\ run.status = "done" => run.done = Asked(p)
  BY <1>2, <1>3 DEF Counted, Taking
<1>5. Decoded(run) = [k \in 1..FramesOf(p, run.done) |-> FrameOf(r, p, run.done, k)]
  BY <1>2, <1>3, <1>4, DecodedIsTaken
<1>6. \/ Fail(r, "uncorrectable")
      \/ \E reference, view :
           Goes(r, [pc |-> IF run.via = "live" THEN "finish" ELSE "list", wire |-> <<>>,
                    stack |-> Decoded(run), reference |-> reference, view |-> view])
  BY <1>1 DEF Correct, Advance
<1>7. CASE Fail(r, "uncorrectable")
  BY <1>7, FailedFits
<1>8. ASSUME NEW reference, NEW view,
             Goes(r, [pc |-> IF run.via = "live" THEN "finish" ELSE "list", wire |-> <<>>,
                      stack |-> Decoded(run), reference |-> reference, view |-> view])
      PROVE  DataFits(r, runs'[r])
  <2> DEFINE fields == [pc |-> IF run.via = "live" THEN "finish" ELSE "list", wire |-> <<>>,
                        stack |-> Decoded(run), reference |-> reference, view |-> view]
  <2>1. /\ DOMAIN fields = {"pc", "wire", "stack", "reference", "view"}
        /\ fields["pc"] \in {"finish", "list"} /\ fields["stack"] = Decoded(run)
    OBVIOUS
  <2>2. Goes(r, fields)
    BY <1>8
  <2> HIDE DEF fields
  <2>3. Changes(r, fields)
    BY <2>1, <2>2, GoesChanges DEF AllKeys
  <2>4. PICK next : next = runs'[r]
    OBVIOUS
  <2>5. /\ next.pc \in {"finish", "list"} /\ next.stack = Decoded(run) /\ next.params = p
        /\ next.done = run.done /\ next.written = run.written /\ next.status = run.status
    BY <1>1, <1>2, <2>1, <2>3, <2>4 DEF Changes, AllKeys
  <2>6. Kept(r, next)
    BY <1>5, <2>5 DEF Kept
  <2>7. Counted(next)
    <3>1. next.pc \notin {"io", "boundary", "correct", "frames", "sidecar", "reduce"}
      BY <2>5
    <3>2. next.done \in Nat /\ next.done >= 1 /\ next.written = 0 /\ next.params.iterations >= 1
          /\ next.done <= Asked(next.params)
          /\ (next.status = "done" => next.done = Asked(next.params))
      BY <1>4, <2>5
    <3> QED BY <3>1, <3>2 DEF Counted, Taking
  <2>8. next.pc \notin Taking
    BY <2>5 DEF Taking
  <2> QED BY <1>3, <2>4, <2>5, <2>6, <2>7, <2>8 DEF DataFits
<1> QED BY <1>6, <1>7, <1>8

(* What is saved is what was decoded.                                       *)
LEMMA KeptFits ==
  ASSUME RunsFull, NEW r \in DOMAIN runs, DataFits(r, runs[r]), runs[r].pc \in Saving,
         NEW fields, Goes(r, fields),
         DOMAIN fields \subseteq {"pc", "folder", "made", "written", "shown"},
         Counted(runs[r]) => Counted(runs'[r]),
         "pc" \in DOMAIN fields, fields.pc \in Saving \cup {"finish"}
  PROVE  DataFits(r, runs'[r])
<1>1. PICK run, next : run = runs[r] /\ next = runs'[r]
  OBVIOUS
<1>2. Measures(run.params) /\ Sane(run.params) /\ Counted(run) /\ Kept(r, run)
  BY <1>1, Measured
<1>3. Changes(r, fields)
  BY GoesChanges DEF AllKeys
<1>4. /\ next.params = run.params /\ next.done = run.done /\ next.stack = run.stack
      /\ next.pc = fields["pc"]
  BY <1>1, <1>3 DEF Changes, AllKeys
<1>5. Kept(r, next)
  BY <1>2, <1>4 DEF Kept
<1>6. Counted(next)
  BY <1>1, <1>2
<1>7. next.pc \notin Taking
  BY <1>4 DEF Taking, Saving
<1> QED BY <1>1, <1>2, <1>4, <1>5, <1>6, <1>7 DEF DataFits

(* The files are written one by one.                                        *)
LEMMA SavingFits ==
  ASSUME RunsFull, NEW r \in DOMAIN runs, DataFits(r, runs[r]),
         \/ List(r) \/ Make(r) \/ WriteFrame(r) \/ WriteSidecar(r) \/ Reduce(r) \/ SaveFails(r)
  PROVE  DataFits(r, runs'[r])
<1>1. PICK run, next : run = runs[r] /\ next = runs'[r]
  OBVIOUS
<1>2. CASE SaveFails(r)
  BY <1>2, FailedFits DEF SaveFails
<1>3. ASSUME NEW fields, Goes(r, fields),
             DOMAIN fields \subseteq {"pc", "folder", "made", "written", "shown"},
             run.pc \in Saving, "pc" \in DOMAIN fields, fields.pc \in Saving \cup {"finish"},
             Counted(run) => Counted(next)
      PROVE  DataFits(r, next)
  BY <1>1, <1>3, KeptFits
<1>4. ASSUME NEW fields, Goes(r, fields),
             DOMAIN fields \subseteq {"pc", "folder", "made", "written", "shown"}
      PROVE  /\ \A k \in DOMAIN fields : next[k] = fields[k]
             /\ next.params = run.params /\ next.done = run.done /\ next.status = run.status
             /\ "written" \notin DOMAIN fields => next.written = run.written
             /\ "made" \notin DOMAIN fields => next.made = run.made
  <2>1. Changes(r, fields)
    BY <1>4, GoesChanges DEF AllKeys
  <2> QED BY <1>1, <1>4, <2>1 DEF Changes, AllKeys
<1>5. run.pc \in Saving => FramesOf(run.params, run.done) \in Nat /\ FramesOf(run.params, run.done) >= 1
                           /\ Counted(run) /\ Kept(r, run)
  <2>1. SUFFICES ASSUME run.pc \in Saving
                 PROVE  /\ FramesOf(run.params, run.done) \in Nat
                        /\ FramesOf(run.params, run.done) >= 1
                        /\ Counted(run) /\ Kept(r, run)
    OBVIOUS
  <2>2. run.done >= 1 /\ run.params.iterations >= 1
    BY <1>1, <2>1, Measured DEF Counted
  <2> QED BY <1>1, <2>1, <2>2, Measured
<1>6. CASE List(r)
  <2>1. PICK folder : Goes(r, [pc |-> "make", folder |-> folder])
    BY <1>6 DEF List, Advance
  <2> DEFINE fields == [pc |-> "make", folder |-> folder]
  <2>2. DOMAIN fields = {"pc", "folder"} /\ fields["pc"] = "make" /\ Goes(r, fields)
    BY <2>1
  <2>3. run.pc = "list" /\ run.pc \in Saving
    BY <1>1, <1>6 DEF List, Saving
  <2> HIDE DEF fields
  <2>4. Counted(run) => Counted(next)
    BY <1>4, <2>2, <2>3 DEF Counted, Saving, Taking
  <2> QED BY <1>1, <1>3, <2>2, <2>3, <2>4 DEF Saving
<1>7. CASE Make(r)
  <2> DEFINE fields == [pc |-> "frames", made |-> TRUE]
  <2>1. Goes(r, fields)
    BY <1>7 DEF Make, Writes
  <2>2. DOMAIN fields = {"pc", "made"} /\ fields["pc"] = "frames" /\ fields["made"] = TRUE
    OBVIOUS
  <2>3. run.pc = "make" /\ run.pc \in Saving
    BY <1>1, <1>7 DEF Make, Saving
  <2> HIDE DEF fields
  <2>4. next.pc = "frames"
    BY <1>4, <2>1, <2>2
  <2>5. Counted(run) => Counted(next)
    BY <1>4, <1>5, <2>1, <2>2, <2>3, <2>4 DEF Counted, Saving, Taking
  <2> QED BY <1>1, <1>3, <2>1, <2>2, <2>3, <2>5 DEF Saving
<1>8. CASE WriteFrame(r)
  <2> DEFINE k == run.written + 1
             fields == [written |-> k, pc |-> IF k < Len(run.stack) THEN "frames" ELSE "sidecar"]
  <2>1. Goes(r, fields)
    BY <1>1, <1>8 DEF WriteFrame, Writes
  <2>2. run.pc = "frames" /\ run.pc \in Saving
    BY <1>1, <1>8 DEF WriteFrame, Saving
  <2>3. PICK m \in Nat : m = FramesOf(run.params, run.done)
    BY <1>5, <2>2
  <2>4. PICK w \in Nat : w = run.written /\ w < m
    BY <1>5, <2>2, <2>3 DEF Counted
  <2>5. Len(run.stack) = m
    <3>1. run.stack = [j \in 1..m |-> run.stack[j]]
      BY <1>5, <2>2, <2>3 DEF Kept
    <3> QED BY <3>1, SeqOfLength
  <2>6. /\ DOMAIN fields = {"pc", "written"} /\ fields["written"] = w + 1
        /\ fields["pc"] = IF w + 1 < m THEN "frames" ELSE "sidecar"
    BY <2>4, <2>5
  <2> HIDE DEF fields
  <2>7. next.written = w + 1 /\ next.pc = (IF w + 1 < m THEN "frames" ELSE "sidecar")
    BY <1>4, <2>1, <2>6
  <2>8. Counted(run) => Counted(next)
    <3>1. FramesOf(next.params, next.done) = m /\ next.done = run.done /\ next.params = run.params
          /\ next.made = run.made /\ next.status = run.status
      BY <1>4, <2>1, <2>3, <2>6
    <3>2. CASE w + 1 < m
      BY <2>2, <2>7, <3>1, <3>2 DEF Counted, Saving, Taking
    <3>3. CASE w + 1 = m
      BY <2>2, <2>7, <3>1, <3>3 DEF Counted, Saving, Taking
    <3> QED BY <2>4, <3>2, <3>3
  <2> QED BY <1>1, <1>3, <2>1, <2>2, <2>6, <2>8 DEF Saving
<1>9. CASE WriteSidecar(r)
  <2>1. PICK shown : Goes(r, [shown |-> shown,
                              pc |-> IF run.params.reducer THEN "reduce" ELSE "finish"])
    BY <1>1, <1>9 DEF WriteSidecar, Writes
  <2> DEFINE fields == [shown |-> shown, pc |-> IF run.params.reducer THEN "reduce" ELSE "finish"]
  <2>2. DOMAIN fields = {"pc", "shown"} /\ fields["pc"] \in {"reduce", "finish"} /\ Goes(r, fields)
    BY <2>1
  <2>3. run.pc = "sidecar" /\ run.pc \in Saving
    BY <1>1, <1>9 DEF WriteSidecar, Saving
  <2> HIDE DEF fields
  <2>4. Counted(run) => Counted(next)
    BY <1>4, <2>2, <2>3 DEF Counted, Saving, Taking
  <2> QED BY <1>1, <1>3, <2>2, <2>3, <2>4 DEF Saving
<1>10. CASE Reduce(r)
  <2> DEFINE fields == [pc |-> "finish"]
  <2>1. Goes(r, fields)
    BY <1>10 DEF Reduce, Writes
  <2>2. DOMAIN fields = {"pc"} /\ fields["pc"] = "finish"
    OBVIOUS
  <2>3. run.pc = "reduce" /\ run.pc \in Saving
    BY <1>1, <1>10 DEF Reduce, Saving
  <2> HIDE DEF fields
  <2>4. Counted(run) => Counted(next)
    BY <1>4, <2>1, <2>2, <2>3 DEF Counted, Saving, Taking
  <2> QED BY <1>1, <1>3, <2>1, <2>2, <2>3, <2>4 DEF Saving
<1> QED BY <1>1, <1>2, <1>6, <1>7, <1>8, <1>9, <1>10

(* A run that is over keeps nothing.                                        *)
LEMMA OverFields ==
  /\ DOMAIN Over = {"pc", "wire", "stack", "view", "reference"} /\ Over["pc"] = "over"
  /\ \A status : LET lost == With(Over, [status |-> status])
                 IN  /\ DOMAIN lost = {"pc", "wire", "stack", "view", "reference", "status"}
                     /\ lost["pc"] = "over" /\ lost["status"] = status
BY DEF Over, With

(* It ends, and is told of it.                                              *)
LEMMA EndingFits ==
  ASSUME RunsFull, NEW r \in DOMAIN runs, DataFits(r, runs[r]),
         \/ GraceExpires(r) \/ Finish(r) \/ Answer(r) \/ CalibrationEnds(r) \/ FlimExchange(r)
         \/ ExchangeFails(r)
  PROVE  DataFits(r, runs'[r])
<1>1. PICK run, next : run = runs[r] /\ next = runs'[r]
  OBVIOUS
<1>2. CASE ExchangeFails(r)
  BY <1>2, FailedFits DEF ExchangeFails
<1>3. CASE GraceExpires(r)
  <2> DEFINE fields == [told |-> TRUE]
  <2>1. Goes(r, fields) /\ DOMAIN fields = {"told"}
    BY <1>3 DEF GraceExpires
  <2> HIDE DEF fields
  <2>2. Changes(r, fields)
    BY <2>1, GoesChanges DEF AllKeys
  <2>3. /\ next.params = run.params /\ next.done = run.done /\ next.written = run.written
        /\ next.made = run.made /\ next.status = run.status /\ next.pc = run.pc
        /\ next.stack = run.stack /\ next.wire = run.wire
    BY <1>1, <2>1, <2>2 DEF Changes, AllKeys
  <2> QED BY <1>1, <2>3, ClosedFits
<1>4. CASE Goes(r, Over) /\ run.pc \in {"finish", "answer"}
  <2>1. Changes(r, Over)
    BY <1>4, OverFields, GoesChanges DEF AllKeys
  <2>2. /\ next.params = run.params /\ next.done = run.done /\ next.written = run.written
        /\ next.made = run.made /\ next.status = run.status /\ next.pc = "over"
    BY <1>1, <2>1, OverFields DEF Changes, AllKeys
  <2> QED BY <1>1, <1>4, <2>2, ClosedFits
<1>5. CASE Finish(r)
  <2>1. run.pc = "finish"
    BY <1>1, <1>5 DEF Finish
  <2>2. CASE Goes(r, Over)
    BY <1>4, <2>1, <2>2
  <2>3. CASE Goes(r, [pc |-> "answer"])
    <3> DEFINE fields == [pc |-> "answer"]
    <3>1. Goes(r, fields) /\ DOMAIN fields = {"pc"} /\ fields["pc"] = "answer"
      BY <2>3
    <3> HIDE DEF fields
    <3>2. Changes(r, fields)
      BY <3>1, GoesChanges DEF AllKeys
    <3>3. /\ next.params = run.params /\ next.done = run.done /\ next.written = run.written
          /\ next.made = run.made /\ next.status = run.status /\ next.pc = "answer"
          /\ next.stack = run.stack
      BY <1>1, <3>1, <3>2 DEF Changes, AllKeys
    <3> QED BY <1>1, <2>1, <3>3, ClosedFits
  <2> QED BY <1>5, <2>2, <2>3 DEF Finish
<1>6. CASE Answer(r)
  BY <1>1, <1>4, <1>6 DEF Answer
<1>7. CASE CalibrationEnds(r)
  <2>1. ~Measures(run.params) /\ run.pc = "io"
    BY <1>1, <1>7 DEF CalibrationEnds, Measures
  <2>2. ~run.made
    BY <1>1, <2>1 DEF DataFits
  <2>3. PICK fields : Goes(r, fields) /\ (fields = Over \/ fields = With(Over, [status |-> "error"]))
    BY <1>7 DEF CalibrationEnds
  <2>4. /\ DOMAIN fields \subseteq {"pc", "wire", "stack", "view", "reference", "status"}
        /\ "pc" \in DOMAIN fields /\ fields["pc"] = "over"
    BY <2>3, OverFields
  <2>5. Changes(r, fields)
    BY <2>3, <2>4, GoesChanges DEF AllKeys
  <2>6. next.params = run.params /\ next.made = run.made /\ next.pc = "over"
    BY <1>1, <2>4, <2>5 DEF Changes, AllKeys
  <2> QED BY <1>1, <2>1, <2>2, <2>6 DEF DataFits
<1>8. CASE FlimExchange(r)
  <2>1. ~Measures(run.params) /\ run.pc = "io"
    BY <1>1, <1>8 DEF FlimExchange, Measures
  <2>2. ~run.made
    BY <1>1, <2>1 DEF DataFits
  <2>3. PICK done : Goes(r, [pc |-> "finish", done |-> done])
    BY <1>8 DEF FlimExchange, Advance
  <2> DEFINE fields == [pc |-> "finish", done |-> done]
  <2>4. Goes(r, fields) /\ DOMAIN fields = {"pc", "done"} /\ fields["pc"] = "finish"
    BY <2>3
  <2> HIDE DEF fields
  <2>5. Changes(r, fields)
    BY <2>4, GoesChanges DEF AllKeys
  <2>6. next.params = run.params /\ next.made = run.made /\ next.pc = "finish"
    BY <1>1, <2>4, <2>5 DEF Changes, AllKeys
  <2> QED BY <1>1, <2>1, <2>2, <2>6 DEF DataFits
<1> QED BY <1>1, <1>2, <1>3, <1>5, <1>6, <1>7, <1>8

(* Every step of a run keeps to its measurement.                            *)
LEMMA StepDataFits ==
  ASSUME LightCounts, RunsFull, NEW r \in DOMAIN runs, DataFits(r, runs[r]), Step(r)
  PROVE  DataFits(r, runs'[r])
<1>1. r \in Int
  BY SeqDomain DEF RunsFull
<1> QED BY <1>1, IntensityFits, GatedFits, PacedFits, BoundaryFits, CorrectedFits, SavingFits,
           EndingFits DEF Step

-----------------------------------------------------------------------------
(* Every run does.                                                          *)

(* A run that starts has taken nothing.                                     *)
LEMMA NewDataFits ==
  ASSUME NEW r, NEW via, NEW mode, NEW body, NEW p, NEW entry, Sane(p)
  PROVE  DataFits(r, NewRun(via, mode, body, p, entry))
<1>1. PICK run : run = NewRun(via, mode, body, p, entry)
  OBVIOUS
<1>2. /\ run.params = p /\ run.done = 0 /\ run.written = 0 /\ run.wire = <<>> /\ run.stack = <<>>
      /\ ~run.made /\ (run.pc = "io" \/ (run.pc = "finish" /\ run.status = "error"))
  BY <1>1 DEF NewRun
<1>3. CASE Measures(p)
  <2>0. Asked(p) \in Nat
    BY <1>3, SaneFrames
  <2>1. Counted(run)
    BY <1>2, <2>0 DEF Counted, Saving, Taking
  <2>2. Holds(r, run)
    BY <1>2, <1>3, HoldsNothing
  <2> QED BY <1>1, <1>2, <1>3, <2>1, <2>2 DEF DataFits, Saving, Taking
<1>4. CASE ~Measures(p)
  BY <1>1, <1>2, <1>4 DEF DataFits
<1> QED BY <1>3, <1>4

(* What a restart leaves of a run.                                          *)
LEMMA CrashedRun ==
  ASSUME RunsFull, Crash, NEW r \in DOMAIN runs
  PROVE  /\ DOMAIN runs' = DOMAIN runs
         /\ \A k \in Given \cup {"done", "written", "made", "folder"} : runs'[r][k] = runs[r][k]
         /\ runs'[r] = runs[r] \/ (runs'[r].pc = "over" /\ runs'[r].status = "lost")
         /\ runs[r].pc = "over" => runs'[r] = runs[r]
<1>1. PICK lost : lost = With(Over, [status |-> "lost"])
  OBVIOUS
<1>2. /\ DOMAIN lost = {"pc", "wire", "stack", "view", "reference", "status"}
      /\ lost["pc"] = "over" /\ lost["status"] = "lost"
  BY <1>1, OverFields
<1>3. runs' = [s \in DOMAIN runs |-> IF runs[s].pc = "over" THEN runs[s] ELSE With(runs[s], lost)]
  BY <1>1 DEF Crash
<1>4. CASE runs[r].pc = "over"
  BY <1>3, <1>4
<1>5. CASE runs[r].pc # "over"
  <2>1. runs'[r] = With(runs[r], lost)
    BY <1>3, <1>5
  <2>2. \A k \in DOMAIN lost : With(runs[r], lost)[k] = lost[k]
    BY WithNew
  <2>3. DOMAIN runs[r] = AllKeys
    BY DEF RunsFull
  <2>4. \A k \in AllKeys \ DOMAIN lost : With(runs[r], lost)[k] = runs[r][k]
    BY <2>3, WithOld
  <2>5. Given \cup {"done", "written", "made", "folder"} \subseteq AllKeys \ DOMAIN lost
    BY <1>2 DEF AllKeys, Given
  <2> QED BY <1>2, <1>3, <1>5, <2>1, <2>2, <2>4, <2>5
<1> QED BY <1>4, <1>5

(* A restart leaves what was written.                                       *)
LEMMA CrashDataFits ==
  ASSUME RunsFull, Crash, NEW r \in DOMAIN runs, DataFits(r, runs[r])
  PROVE  DataFits(r, runs'[r])
<1>1. /\ \A k \in Given \cup {"done", "written", "made", "folder"} : runs'[r][k] = runs[r][k]
      /\ runs'[r] = runs[r] \/ (runs'[r].pc = "over" /\ runs'[r].status = "lost")
  BY CrashedRun
<1>2. CASE runs'[r] = runs[r]
  BY <1>2
<1>3. CASE runs'[r].pc = "over" /\ runs'[r].status = "lost"
  <2>1. /\ runs'[r].params = runs[r].params /\ runs'[r].done = runs[r].done
        /\ runs'[r].written = runs[r].written /\ runs'[r].made = runs[r].made
    BY <1>1 DEF Given
  <2> QED BY <1>3, <2>1, EndedFits
<1> QED BY <1>1, <1>2, <1>3

(* What is asked for, and what is logged without a run.                     *)
Asks(via, mode, body, p) ==
  /\ Sane(p)
  /\ via # "live" => Legal(mode, body)
  /\ p.mode = "calibration" => via = "calibrate" /\ p.kind = mode
  /\ via = "reference" => Measures(p)

Starts(via, mode, p) ==
  \/ calibration' = calibration
  \/ /\ via = "calibrate" /\ p.mode = "calibration" /\ p.dark = 0
     /\ calibration' = [calibration EXCEPT ![mode] = "running"]

LogLegal == \A e \in DOMAIN log : Legal(log[e].mode, log[e].params)

(* A name, a reducer and a time change nothing of that.                     *)
LEMMA NamedSane ==
  ASSUME NEW b, NEW p, NEW q, Sane(p),
         DOMAIN q = DOMAIN p, \A k \in DOMAIN p \ {"time", "name", "reducer"} : q[k] = p[k],
         {"mode", "depth", "width", "iterations"} \subseteq DOMAIN p,
         p.mode \in {"intensity", "gated"},
         p.mode = "gated" => {"steps", "size", "offset", "arbitrary"} \subseteq DOMAIN p
  PROVE  Sane(q)
<1>1. Keyed(q)
  BY DEF Sane, Keyed
<1> QED BY <1>1 DEF Sane

(* The parameters of the routes.                                            *)
LEMMA IntensityParamsSane ==
  ASSUME NEW body, Legal("intensity", body) PROVE Sane(IntensityParams(body))
<1> DEFINE p == IntensityParamsOf(body)
           time == Get(body, "integration_time", Get(body, "integration_time_ms", 100))
           name == Get(body, "sample_name", "")
           reducer == body.run_reducer
           q == [p EXCEPT !.time = time, !.name = name, !.reducer = reducer]
<1>1. Sane(p)
  BY LegalSane DEF ParamsOf
<1>2. IntensityParams(body) = q
  BY DEF IntensityParams
<1>3. p.mode = "intensity" /\ {"mode", "depth", "width", "iterations"} \subseteq DOMAIN p
  BY DEF IntensityParamsOf
<1> HIDE DEF p, time, name, reducer
<1>4. DOMAIN q = DOMAIN p /\ \A k \in DOMAIN p \ {"time", "name", "reducer"} : q[k] = p[k]
  OBVIOUS
<1> HIDE DEF q
<1> QED BY <1>1, <1>2, <1>3, <1>4, NamedSane

(* See IntensityParamsSane.                                                 *)
LEMMA GatedParamsSane ==
  ASSUME NEW body, Legal("gated", body) PROVE Sane(GatedParams(body))
<1> DEFINE p == GatedParamsOf(body)
           name == Get(body, "sample_name", "")
           reducer == body.run_reducer
           q == [p EXCEPT !.name = name, !.reducer = reducer]
<1>1. Sane(p)
  BY LegalSane DEF ParamsOf
<1>2. GatedParams(body) = q
  BY DEF GatedParams
<1>3. /\ p.mode = "gated"
      /\ {"mode", "depth", "width", "iterations", "steps", "size", "offset", "arbitrary"}
           \subseteq DOMAIN p
  BY DEF GatedParamsOf
<1> HIDE DEF p, name, reducer
<1>4. DOMAIN q = DOMAIN p /\ \A k \in DOMAIN p \ {"time", "name", "reducer"} : q[k] = p[k]
  OBVIOUS
<1> HIDE DEF q
<1> QED BY <1>1, <1>2, <1>3, <1>4, NamedSane

(* A live frame is one frame of what the intensity route lets through.      *)
LEMMA LiveParamsSane ==
  ASSUME NEW b, IntensityValid(IntensityBody(b))
  PROVE  Sane(LiveParams(b))
<1> DEFINE defaults == [bit_depth |-> 8, iterations |-> 1, roi_width |-> Rows, overlap |-> FALSE,
                        pileup_correction |-> FALSE]
           inner == With(defaults, b)
<1>1. /\ {"bit_depth", "roi_width"} \subseteq DOMAIN defaults
      /\ defaults["bit_depth"] = 8 /\ defaults["roi_width"] = Rows
  OBVIOUS
<1>2. inner = IntensityReferenceBody(b)
  BY DEF IntensityReferenceBody
<1>3. /\ {"bit_depth", "roi_width"} \subseteq DOMAIN inner
      /\ inner["bit_depth"] = Get(b, "bit_depth", 8) /\ inner["roi_width"] = Get(b, "roi_width", Rows)
  <2> HIDE DEF defaults
  <2> QED BY <1>1, GetWith
<1> HIDE DEF inner, defaults
<1>4. IntensityBody(b) = With([run_reducer |-> FALSE], inner)
  BY <1>2 DEF IntensityBody
<1>5. \A key \in DOMAIN inner : With([run_reducer |-> FALSE], inner)[key] = inner[key]
  BY WithNew
<1>6. Get(b, "bit_depth", 8) \in IntBitDepths /\ Get(b, "roi_width", Rows) \in Widths
  BY <1>3, <1>4, <1>5 DEF IntensityValid, WidthAndIterationsValid
<1>7. PICK p, q, time :
        /\ p = IntensityParamsOf(b) /\ q = LiveParams(b)
        /\ q = [p EXCEPT !.time = time, !.iterations = 1, !.overlap = FALSE, !.pileup = FALSE,
                         !.dark = 0]
  BY DEF LiveParams
<1>8. /\ p.mode = "intensity" /\ {"mode", "depth", "width", "iterations"} \subseteq DOMAIN p
      /\ p.depth = Get(b, "bit_depth", 8) /\ p.width = Get(b, "roi_width", Rows)
  BY <1>7 DEF IntensityParamsOf
<1>9. q.mode = "intensity" /\ q.depth = p.depth /\ q.width = p.width /\ q.iterations = 1
  BY <1>7, <1>8
<1>11. Keyed(q)
  <2>1. DOMAIN p = IntensityKeys
    BY <1>7 DEF IntensityParamsOf, IntensityKeys
  <2>2. DOMAIN q = DOMAIN p
    BY <1>7
  <2> QED BY <1>9, <2>1, <2>2 DEF Keyed
<1>10. q.width \in 1..Rows
  BY <1>6, <1>8, <1>9, WidthsFit
<1> QED BY <1>6, <1>7, <1>8, <1>9, <1>10, <1>11 DEF Sane, IntensityKeys, Keyed

(* A run is started, or a note is made.                                     *)
TakesAsked ==
  \E via, mode, body, p, entry :
    /\ Takes(via, mode, body, p, entry) /\ Asks(via, mode, body, p)
    /\ Starts(via, mode, p) /\ UNCHANGED log

NotesLegal ==
  \E new : /\ log' = Append(log, new) /\ Legal(new.mode, new.params)
           /\ UNCHANGED <<runs, folders, calibration>>

(* What a request asks for.                                                 *)
LEMMA RequestLegal ==
  ASSUME RequestsLegal, LogLegal, Request PROVE TakesAsked \/ NotesLegal
<1>0. ASSUME NEW via, NEW mode, NEW body, NEW p, NEW entry, Takes(via, mode, body, p, entry),
             Asks(via, mode, body, p), Starts(via, mode, p), UNCHANGED log
      PROVE  TakesAsked
  BY <1>0 DEF TakesAsked
<1>00. ASSUME NEW via, NEW mode, NEW body, NEW p, NEW entry, Admit(via, mode, body, p, entry),
              Sane(p), via # "live" => Legal(mode, body), p.mode # "calibration",
              via = "reference" => Measures(p)
       PROVE  TakesAsked
  <2>1. Asks(via, mode, body, p) /\ Starts(via, mode, p) /\ UNCHANGED log
    BY <1>00 DEF Asks, Starts, Admit
  <2> QED BY <1>0, <1>00, <2>1 DEF Admit
<1>1. CASE acquire_intensity
  <2>1. PICK b \in IntensityBodies :
          /\ IntensityValid(IntensityBody(b))
          /\ Admit("route", "intensity", IntensityBody(b), IntensityParams(IntensityBody(b)), 0)
    BY <1>1 DEF acquire_intensity
  <2>2. PICK body, p : body = IntensityBody(b) /\ p = IntensityParams(body)
    OBVIOUS
  <2>3. Legal("intensity", body)
    BY <2>1, <2>2, IntensityLegal DEF RequestsLegal
  <2>4. Sane(p)
    BY <2>2, <2>3, IntensityParamsSane
  <2>5. p.mode # "calibration"
    BY <2>2 DEF IntensityParams, IntensityParamsOf
  <2> QED BY <1>00, <2>1, <2>2, <2>3, <2>4, <2>5
<1>2. CASE acquire_raw_1bit
  <2>1. PICK b \in Raw1BitBodies :
          /\ WidthAndIterationsValid(Raw1BitBody(b))
          /\ Admit("route", "raw1bit", Raw1BitBody(b), Raw1BitParams(Raw1BitBody(b)), 0)
    BY <1>2 DEF acquire_raw_1bit
  <2>2. PICK body, p : body = Raw1BitBody(b) /\ p = Raw1BitParams(body)
    OBVIOUS
  <2>3. Legal("raw1bit", body) /\ Sane(p)
    BY <2>1, <2>2, RawLegal DEF RequestsLegal
  <2>4. p.mode # "calibration"
    BY <2>2 DEF Raw1BitParams, IntensityParamsOf
  <2> QED BY <1>00, <2>1, <2>2, <2>3, <2>4
<1>3. CASE acquire_gated
  <2>1. PICK b \in GatedBodies :
          /\ GatedValid(GatedBody(b))
          /\ Admit("route", "gated", GatedBody(b), GatedParams(GatedBody(b)), 0)
    BY <1>3 DEF acquire_gated
  <2>2. PICK body, p : body = GatedBody(b) /\ p = GatedParams(body)
    OBVIOUS
  <2>3. Legal("gated", body)
    BY <2>1, <2>2, GatedLegal DEF RequestsLegal
  <2>4. Sane(p)
    BY <2>2, <2>3, GatedParamsSane
  <2>5. p.mode # "calibration"
    BY <2>2 DEF GatedParams, GatedParamsOf
  <2> QED BY <1>00, <2>1, <2>2, <2>3, <2>4, <2>5
<1>4. CASE acquire_flim
  <2>1. PICK b \in FlimBodies :
          Admit("route", "flim", b, [mode |-> "flim", subsampling |-> Subsampling(b), dark |-> 0], 0)
    BY <1>4 DEF acquire_flim
  <2>2. PICK p : p = [mode |-> "flim", subsampling |-> Subsampling(b), dark |-> 0]
    OBVIOUS
  <2>3. p.mode = "flim" /\ p.dark = 0
    BY <2>2
  <2>4. Sane(p) /\ p.mode # "calibration"
    BY <2>3 DEF Sane, Keyed
  <2>5. Legal("flim", b)
    BY LegalWithoutGates DEF RequestsLegal
  <2> QED BY <1>00, <2>1, <2>2, <2>4, <2>5
<1>5. CASE live_frame
  <2>1. PICK b \in LiveBodies :
          /\ IntensityValid(IntensityBody(b))
          /\ Admit("live", "intensity", IntensityBody(b), LiveParams(b), 0)
    BY <1>5 DEF live_frame
  <2>2. PICK body, p : body = IntensityBody(b) /\ p = LiveParams(b)
    OBVIOUS
  <2>3. Sane(p)
    BY <2>1, <2>2, LiveParamsSane
  <2>4. p.mode # "calibration"
    BY <2>2 DEF LiveParams, IntensityParamsOf
  <2> QED BY <1>00, <2>1, <2>2, <2>3, <2>4
<1>6. CASE calibrate
  <2>1. PICK kind \in CalibrationKinds :
          /\ Takes("calibrate", kind, [x \in {} |-> 0],
                   [mode |-> "calibration", kind |-> kind, dark |-> 0], 0)
          /\ calibration' = [calibration EXCEPT ![kind] = "running"]
          /\ UNCHANGED log
    BY <1>6 DEF calibrate
  <2>2. PICK body, p : body = [x \in {} |-> 0]
                       /\ p = [mode |-> "calibration", kind |-> kind, dark |-> 0]
    OBVIOUS
  <2>3. p.mode = "calibration" /\ p.kind = kind /\ p.dark = 0 /\ DOMAIN body = {}
    BY <2>2
  <2>4. Sane(p) /\ Legal(kind, body)
    BY <2>3 DEF Sane, Keyed, Legal
  <2>5. Asks("calibrate", kind, body, p) /\ Starts("calibrate", kind, p)
    BY <2>1, <2>3, <2>4 DEF Asks, Starts
  <2> QED BY <1>0, <2>1, <2>2, <2>5
<1>7. CASE measure_intensity_dark_reference
  <2>1. PICK b \in IntensityReferenceBodies :
          /\ IntensityValid(IntensityReferenceBody(b))
          /\ Admit("reference", "intensity_dark_reference", IntensityReferenceBody(b),
                   IntensityParamsOf(IntensityReferenceBody(b)), 0)
    BY <1>7 DEF measure_intensity_dark_reference
  <2>2. PICK body, p : body = IntensityReferenceBody(b) /\ p = IntensityParamsOf(body)
    OBVIOUS
  <2>3. Legal("intensity_dark_reference", body) /\ Legal("intensity", body)
    BY <2>1, <2>2, IntensityLegal DEF RequestsLegal
  <2>4. Sane(p) /\ p.mode # "calibration"
    BY <2>2, <2>3, LegalSane DEF ParamsOf, IntensityParamsOf
  <2>5. Measures(p)
    BY <2>2 DEF IntensityParamsOf, Measures
  <2> QED BY <1>00, <2>1, <2>2, <2>3, <2>4, <2>5
<1>8. CASE measure_gated_dark_reference
  <2>1. PICK b \in GatedReferenceBodies :
          /\ GatedReferenceValid(GatedReferenceBody(b))
          /\ Admit("reference", "gated_dark_reference", GatedReferenceBody(b),
                   GatedParamsOf(GatedReferenceBody(b)), 0)
    BY <1>8 DEF measure_gated_dark_reference
  <2>2. PICK body, p : body = GatedReferenceBody(b) /\ p = GatedParamsOf(body)
    OBVIOUS
  <2>3. Legal("gated", body) /\ Legal("gated_dark_reference", body)
    BY <2>1, <2>2, GatedLegal DEF RequestsLegal, GatedReferenceValid
  <2>4. Sane(p) /\ p.mode # "calibration"
    BY <2>2, <2>3, LegalSane DEF ParamsOf, GatedParamsOf
  <2>5. Measures(p)
    BY <2>2 DEF GatedParamsOf, Measures
  <2> QED BY <1>00, <2>1, <2>2, <2>3, <2>4, <2>5
<1>9. CASE rerun_entry
  <2>1. PICK e \in DOMAIN log, o \in Overrides :
          LET body == With(log[e].params, o)
          IN  \/ Admit("rerun", log[e].mode, body, ParamsOf(log[e].mode, body), e)
              \/ /\ log' = Append(log, [mode |-> log[e].mode, params |-> body, path |-> NoFolder,
                                        run |-> 0, state |-> "completed"])
                 /\ UNCHANGED <<runs, folders, calibration>>
    BY <1>9 DEF rerun_entry
  <2>2. PICK mode, body, p : mode = log[e].mode /\ body = With(log[e].params, o)
                             /\ p = ParamsOf(mode, body)
    OBVIOUS
  <2>3. Legal(mode, body)
    BY <2>2, LegalChanged DEF RequestsLegal, LogLegal
  <2>4. Sane(p)
    BY <2>2, <2>3, LegalSane
  <2>5. p.mode # "calibration"
    BY <2>2 DEF ParamsOf, GatedParamsOf, IntensityParamsOf
  <2>6. CASE Admit("rerun", mode, body, p, e)
    <3> QED BY <1>00, <2>3, <2>4, <2>5, <2>6
  <2>7. CASE /\ log' = Append(log, [mode |-> mode, params |-> body, path |-> NoFolder,
                                    run |-> 0, state |-> "completed"])
             /\ UNCHANGED <<runs, folders, calibration>>
    <3>1. PICK new : new = [mode |-> mode, params |-> body, path |-> NoFolder,
                            run |-> 0, state |-> "completed"]
      OBVIOUS
    <3>2. new.mode = mode /\ new.params = body
      BY <3>1
    <3> QED BY <2>3, <2>7, <3>1, <3>2 DEF NotesLegal
  <2> QED BY <2>1, <2>2, <2>6, <2>7
<1>10. CASE schedule_job
  <2>1. PICK job \in ScheduledJobs : log' = Append(log, ScheduledEntry(job))
    BY <1>10 DEF schedule_job
  <2>2. UNCHANGED <<runs, folders, calibration>>
    BY <1>10 DEF schedule_job
  <2>3. PICK new : new = ScheduledEntry(job)
    OBVIOUS
  <2>4. new.mode = job.mode /\ new.params = job.params
    BY <2>3 DEF ScheduledEntry
  <2>5. Legal(new.mode, new.params)
    BY <2>4 DEF RequestsLegal
  <2> QED BY <2>1, <2>2, <2>3, <2>5 DEF NotesLegal
<1> QED BY <1>1, <1>2, <1>3, <1>4, <1>5, <1>6, <1>7, <1>8, <1>9, <1>10 DEF Request

(* A job asks for what its entry says.                                      *)
LEMMA JobLegal ==
  ASSUME LogInv, LogLegal, NEW e \in jobs, StartJob(e)
  PROVE  /\ \A f \in DOMAIN log' : f \in DOMAIN log /\ log'[f].mode = log[f].mode
                                   /\ log'[f].params = log[f].params
         /\ \/ \E mode, body, p : /\ Takes("schedule", mode, body, p, e)
                                  /\ Asks("schedule", mode, body, p) /\ UNCHANGED calibration
            \/ UNCHANGED <<runs, folders, calibration>>
<1>1. e \in DOMAIN log /\ DOMAIN log[e] = LogKeys
  BY DEF LogInv, JobFits, EntryFits
<1>2. CASE /\ Takes("schedule", log[e].mode, log[e].params, ParamsOf(log[e].mode, log[e].params), e)
           /\ log' = [log EXCEPT ![e].state = "running", ![e].run = Len(runs) + 1]
           /\ UNCHANGED calibration
  <2>1. PICK mode, body, p : mode = log[e].mode /\ body = log[e].params /\ p = ParamsOf(mode, body)
    OBVIOUS
  <2>2. Legal(mode, body)
    BY <1>1, <2>1 DEF LogLegal
  <2>3. Sane(p) /\ p.mode # "calibration"
    BY <2>1, <2>2, LegalSane DEF ParamsOf, GatedParamsOf, IntensityParamsOf
  <2>4. Takes("schedule", mode, body, p, e) /\ Asks("schedule", mode, body, p)
    BY <1>2, <2>1, <2>2, <2>3 DEF Asks
  <2>5. PICK after, n : /\ n = Len(runs) + 1
                        /\ after = [log[e] EXCEPT !.state = "running", !.run = n]
    OBVIOUS
  <2>6. log' = [log EXCEPT ![e] = after] /\ after.mode = mode /\ after.params = body
    BY <1>1, <1>2, <2>1, <2>5 DEF LogKeys
  <2>7. \A f \in DOMAIN log' : f \in DOMAIN log /\ log'[f].mode = log[f].mode
                               /\ log'[f].params = log[f].params
    BY <1>1, <2>1, <2>6
  <2> QED BY <1>2, <2>4, <2>7
<1>3. CASE log' = [log EXCEPT ![e].state = "failed"] /\ UNCHANGED <<runs, folders, calibration>>
  <2>1. PICK after : after = [log[e] EXCEPT !.state = "failed"]
    OBVIOUS
  <2>2. log' = [log EXCEPT ![e] = after] /\ after.mode = log[e].mode /\ after.params = log[e].params
    BY <1>1, <1>3, <2>1 DEF LogKeys
  <2>3. \A f \in DOMAIN log' : f \in DOMAIN log /\ log'[f].mode = log[f].mode
                               /\ log'[f].params = log[f].params
    BY <1>1, <2>2
  <2> QED BY <1>3, <2>3
<1> QED BY <1>2, <1>3 DEF StartJob

(* What runs hold, and that the log asks for nothing else.                  *)
DataInv ==
  /\ \A r \in DOMAIN runs : /\ DataFits(r, runs[r])
                            /\ runs[r].via # "live" => Legal(runs[r].mode, runs[r].body)
  /\ LogLegal

(* The steps of a run keep it.                                              *)
LEMMA StepDataInv ==
  ASSUME LightCounts, LogInv, DataInv, NEW r \in DOMAIN runs, Step(r)
  PROVE  DataInv'
<1>1. ReferencesSane /\ RunsFull
  BY DEF LogInv, RunFits, ReferencesSane
<1>2. PICK fields : Goes(r, fields) /\ StepFits(r, fields)
  BY <1>1, StepWent DEF Went
<1>3. DOMAIN runs' = DOMAIN runs /\ \A s \in DOMAIN runs \ {r} : runs'[s] = runs[s]
  BY <1>1, <1>2, GoesOn DEF StepFits
<1>4. \A s \in DOMAIN runs : /\ runs'[s].via = runs[s].via /\ runs'[s].mode = runs[s].mode
                             /\ runs'[s].body = runs[s].body
  BY <1>1, <1>2, GivenStays
<1>5. DataFits(r, runs[r])
  BY DEF DataInv
<1>6. DataFits(r, runs'[r])
  BY <1>1, <1>5, StepDataFits
<1>7. \A s \in DOMAIN runs : DataFits(s, runs'[s])
  BY <1>3, <1>6 DEF DataInv
<1>8. LogLegal'
  <2>1. LogStep(r)
    BY StepLog
  <2>2. /\ LogKept
        /\ \A e \in DOMAIN log' \ DOMAIN log :
             /\ log'[e].mode = runs[r].mode /\ log'[e].params = runs[r].body
             /\ runs[r].via # "live"
    BY <2>1, LoggedStep
  <2> QED BY <2>2 DEF DataInv, LogLegal, LogKept
<1> QED BY <1>3, <1>4, <1>7, <1>8 DEF DataInv

(* So does an admission.                                                    *)
LEMMA TakesDataInv ==
  ASSUME LogInv, DataInv, NEW via, NEW mode, NEW body, NEW p, NEW entry,
         Takes(via, mode, body, p, entry), Asks(via, mode, body, p), LogLegal'
  PROVE  DataInv'
<1>1. PICK n : n = Len(runs) + 1
  OBVIOUS
<1>2. PICK new : new = NewRun(via, mode, body, p, entry)
  OBVIOUS
<1>3. /\ DOMAIN runs' = DOMAIN runs \cup {n} /\ runs'[n] = new
      /\ \A r \in DOMAIN runs : runs'[r] = runs[r]
  BY <1>1, <1>2, TakesRuns DEF LogInv
<1>4. new.via = via /\ new.mode = mode /\ new.body = body
  BY <1>2, NewRunFields
<1>5. DataFits(n, new)
  BY <1>2, NewDataFits DEF Asks
<1> QED BY <1>3, <1>4, <1>5 DEF DataInv, Asks

(* The invariant holds after every step.                                    *)
LEMMA NextDataInv ==
  ASSUME LightCounts, RequestsLegal, LogInv, DataInv, [Next]_vars PROVE DataInv'
<1>1. CASE \E r \in DOMAIN runs : Step(r)
  BY <1>1, StepDataInv
<1>2. CASE Request
  <2>1. LogLegal
    BY DEF DataInv
  <2>2. CASE TakesAsked
    <3>1. PICK via, mode, body, p, entry :
            Takes(via, mode, body, p, entry) /\ Asks(via, mode, body, p) /\ UNCHANGED log
      BY <2>2 DEF TakesAsked
    <3>2. LogLegal'
      BY <2>1, <3>1 DEF LogLegal
    <3> QED BY <3>1, <3>2, TakesDataInv
  <2>3. CASE NotesLegal
    <3>1. PICK new : log' = Append(log, new) /\ Legal(new.mode, new.params) /\ UNCHANGED runs
      BY <2>3 DEF NotesLegal
    <3>2. \A e \in DOMAIN log' : log'[e] = new \/ (e \in DOMAIN log /\ log'[e] = log[e])
      BY <3>1, SeqAppend DEF LogInv
    <3> QED BY <3>1, <3>2 DEF DataInv, LogLegal
  <2> QED BY <1>2, <2>1, <2>2, <2>3, RequestLegal
<1>3. CASE \E e \in jobs : StartJob(e)
  <2>1. PICK e \in jobs : StartJob(e)
    BY <1>3
  <2>2. /\ \A f \in DOMAIN log' : f \in DOMAIN log /\ log'[f].mode = log[f].mode
                                  /\ log'[f].params = log[f].params
        /\ \/ \E mode, body, p : /\ Takes("schedule", mode, body, p, e)
                                 /\ Asks("schedule", mode, body, p)
           \/ UNCHANGED runs
    BY <2>1, JobLegal DEF DataInv
  <2>3. LogLegal'
    BY <2>2 DEF DataInv, LogLegal
  <2>4. CASE UNCHANGED runs
    BY <2>3, <2>4 DEF DataInv
  <2> QED BY <2>2, <2>3, <2>4, TakesDataInv
<1>4. CASE Crash
  <2>1. RunsFull /\ log' = log
    BY <1>4 DEF LogInv, Crash, disk
  <2>2. DOMAIN runs' = DOMAIN runs
    BY <1>4 DEF Crash
  <2>3. \A r \in DOMAIN runs : DataFits(r, runs'[r])
    BY <1>4, <2>1, CrashDataFits DEF DataInv
  <2>4. \A r \in DOMAIN runs : /\ runs'[r].via = runs[r].via /\ runs'[r].mode = runs[r].mode
                               /\ runs'[r].body = runs[r].body
    BY <1>4, <2>1, CrashedRun DEF Given
  <2> QED BY <2>1, <2>2, <2>3, <2>4 DEF DataInv, LogLegal
<1>5. CASE SetSavePath \/ calibration_status \/ RequestStop \/ StopReturns \/ UNCHANGED vars
  <2>1. UNCHANGED <<runs, log>>
    BY <1>5 DEF SetSavePath, calibration_status, RequestStop, StopReturns, vars, disk
  <2> QED BY <2>1 DEF DataInv, LogLegal
<1> QED BY <1>1, <1>2, <1>3, <1>4, <1>5 DEF Next

(* See NextDataInv.                                                         *)
LEMMA InitDataInv == Init => DataInv
<1> SUFFICES ASSUME Init PROVE DataInv
  OBVIOUS
<1>1. DOMAIN runs = {} /\ DOMAIN log = {}
  BY DEF Init
<1> QED BY <1>1 DEF DataInv, LogLegal

-----------------------------------------------------------------------------
(* Who runs beside whom, and what is known of the calibrations.             *)

IsCalibration(run) == run.params.mode = "calibration"

(* A run that is under way when another is admitted is remembered.          *)
Remembered == \A r, c \in DOMAIN runs : r < c /\ runs[r].pc \in Underway => r \in runs[c].beside

CalibrationFits(run) ==
  IsCalibration(run) => run.params.kind = run.mode /\ (run.pc = "io" => run.status = "done")

(* What is said of a calibration, some run bears it out.                    *)
StateFits(kind) ==
  /\ calibration[kind] = "done" =>
       kind = "breakdown"
         \/ \E c \in DOMAIN runs : /\ runs[c].mode = kind /\ runs[c].status = "done"
                                   /\ runs[c].pc = "over"
  /\ calibration[kind] = "running" =>
       \E c \in DOMAIN runs : runs[c].mode = kind /\ runs[c].pc = "io" /\ IsCalibration(runs[c])

BesideInv ==
  /\ Remembered
  /\ \A r \in DOMAIN runs : CalibrationFits(runs[r])
  /\ \A kind \in CalibrationKinds : StateFits(kind)

(* A run that is not under way only gives its answer; a calibration only    *)
(* ends; and nothing else changes what is known of the calibrations.        *)
LEMMA StepKind ==
  ASSUME LogInv, DataInv, NEW r \in DOMAIN runs, Step(r)
  PROVE  /\ runs[r].pc \in Underway \/ Answer(r)
         /\ IsCalibration(runs[r]) =>
              CalibrationEnds(r) \/ Answer(r) \/ (runs[r].pc = "finish" /\ Finish(r))
         /\ CalibrationEnds(r) \/ calibration' = calibration
<1>1. runs[r].pc \in Underway \/ Answer(r)
  <2>1. CASE IntensityExchange(r) \/ GatedExchange(r) \/ PacedExchange(r) \/ FlimExchange(r)
               \/ CalibrationEnds(r) \/ ExchangeFails(r) \/ Boundary(r) \/ Correct(r)
    BY <2>1 DEF IntensityExchange, GatedExchange, PacedExchange, FlimExchange, CalibrationEnds,
                ExchangeFails, Boundary, Correct, Underway
  <2>2. CASE List(r) \/ Make(r) \/ WriteFrame(r) \/ WriteSidecar(r) \/ Reduce(r) \/ SaveFails(r)
               \/ GraceExpires(r) \/ Finish(r) \/ Answer(r)
    BY <2>2 DEF List, Make, WriteFrame, WriteSidecar, Reduce, SaveFails, GraceExpires, Finish,
                Saving, Underway
  <2> QED BY <2>1, <2>2 DEF Step
<1>2. ASSUME IsCalibration(runs[r])
      PROVE  CalibrationEnds(r) \/ Answer(r) \/ (runs[r].pc = "finish" /\ Finish(r))
  <2>1. runs[r].params.mode = "calibration" /\ runs[r].pc \in {"io", "finish", "answer", "over"}
    BY <1>2 DEF IsCalibration, DataInv, DataFits, Measures
  <2>2. ~Paced(runs[r].params)
    BY <2>1 DEF Paced
  <2>3. ~(IntensityExchange(r) \/ GatedExchange(r) \/ PacedExchange(r) \/ FlimExchange(r)
            \/ ExchangeFails(r) \/ Boundary(r) \/ Correct(r))
    BY <2>1, <2>2 DEF IntensityExchange, GatedExchange, PacedExchange, FlimExchange, ExchangeFails,
                      Boundary, Correct
  <2>4. ~(List(r) \/ Make(r) \/ WriteFrame(r) \/ WriteSidecar(r) \/ Reduce(r) \/ SaveFails(r)
            \/ GraceExpires(r))
    BY <2>1 DEF List, Make, WriteFrame, WriteSidecar, Reduce, SaveFails, GraceExpires,
                      Impatient, Saving
  <2>5. Finish(r) => runs[r].pc = "finish"
    BY DEF Finish
  <2> QED BY <2>3, <2>4, <2>5 DEF Step
<1>3. CalibrationEnds(r) \/ calibration' = calibration
  <2>1. ASSUME NEW data, NEW frames, NEW fields, Received(r, data, frames, fields)
        PROVE  calibration' = calibration
    BY <2>1 DEF Received, Advance, Fail
  <2>2. CASE IntensityExchange(r) \/ GatedExchange(r) \/ PacedExchange(r)
    BY <2>1, <2>2 DEF IntensityExchange, GatedExchange, PacedExchange, Fail, Advance
  <2>3. CASE FlimExchange(r) \/ ExchangeFails(r) \/ Boundary(r) \/ Correct(r)
    BY <2>3 DEF FlimExchange, ExchangeFails, Boundary, Correct, Broken, Fail, Advance
  <2>4. CASE List(r) \/ Make(r) \/ WriteFrame(r) \/ WriteSidecar(r) \/ Reduce(r) \/ SaveFails(r)
               \/ Finish(r) \/ GraceExpires(r) \/ Answer(r)
    BY <2>4 DEF List, Make, WriteFrame, WriteSidecar, Reduce, SaveFails, Finish, GraceExpires, Answer,
                Broken, Writes, Advance
  <2> QED BY <2>2, <2>3, <2>4 DEF Step
<1> QED BY <1>1, <1>2, <1>3

(* What the end of a calibration, an answer and a finish leave of the run.  *)
LEMMA EndKind ==
  ASSUME LogInv, NEW r \in DOMAIN runs, CalibrationEnds(r) \/ Answer(r) \/ Finish(r)
  PROVE  /\ runs'[r].pc \in {"over", "answer"} /\ (Answer(r) => runs'[r].pc = "over")
         /\ CalibrationEnds(r) =>
              /\ runs[r].pc = "io" /\ IsCalibration(runs[r]) /\ runs'[r].pc = "over"
              /\ \/ /\ calibration' = [calibration EXCEPT ![runs[r].params.kind] = "done"]
                    /\ runs'[r].status = runs[r].status
                 \/ calibration' = [calibration EXCEPT ![runs[r].params.kind] = "failed"]
<1>1. RunsFull
  BY DEF LogInv
<1>2. ASSUME Goes(r, Over)
      PROVE  runs'[r].pc = "over" /\ runs'[r].status = runs[r].status
  <2>1. Changes(r, Over)
    BY <1>1, <1>2, OverFields, GoesChanges DEF AllKeys
  <2> QED BY <2>1, OverFields DEF Changes, AllKeys
<1>3. ASSUME Goes(r, With(Over, [status |-> "error"])) PROVE runs'[r].pc = "over"
  <2>1. PICK fields : fields = With(Over, [status |-> "error"])
    OBVIOUS
  <2>2. DOMAIN fields \subseteq AllKeys /\ "pc" \in DOMAIN fields /\ fields["pc"] = "over"
    BY <2>1, OverFields DEF AllKeys
  <2>3. Changes(r, fields)
    BY <1>1, <1>3, <2>1, <2>2, GoesChanges
  <2> QED BY <2>2, <2>3 DEF Changes
<1>4. ASSUME Goes(r, [pc |-> "answer"]) PROVE runs'[r].pc = "answer"
  <2> DEFINE fields == [pc |-> "answer"]
  <2>1. Goes(r, fields) /\ DOMAIN fields = {"pc"} /\ fields["pc"] = "answer"
    BY <1>4
  <2> HIDE DEF fields
  <2>2. Changes(r, fields)
    BY <1>1, <2>1, GoesChanges DEF AllKeys
  <2> QED BY <2>1, <2>2 DEF Changes
<1>5. CASE CalibrationEnds(r)
  <2>1. runs[r].pc = "io" /\ IsCalibration(runs[r])
    BY <1>5 DEF CalibrationEnds, IsCalibration
  <2>2. CASE Goes(r, Over) /\ calibration' = [calibration EXCEPT ![runs[r].params.kind] = "done"]
    BY <1>2, <2>1, <2>2 DEF Answer
  <2>3. CASE /\ Goes(r, With(Over, [status |-> "error"]))
             /\ calibration' = [calibration EXCEPT ![runs[r].params.kind] = "failed"]
    BY <1>3, <2>1, <2>3 DEF Answer
  <2> QED BY <1>5, <2>2, <2>3 DEF CalibrationEnds
<1>6. CASE Answer(r)
  <2>1. runs'[r].pc = "over" /\ runs[r].pc = "answer"
    BY <1>2, <1>6 DEF Answer
  <2> QED BY <2>1 DEF CalibrationEnds
<1>7. CASE Finish(r)
  <2>1. runs[r].pc = "finish" /\ runs'[r].pc \in {"over", "answer"}
    BY <1>2, <1>4, <1>7 DEF Finish
  <2> QED BY <2>1 DEF CalibrationEnds, Answer
<1> QED BY <1>5, <1>6, <1>7

(* What is given with a request stays, at whom it ran beside.               *)
LEMMA StepGiven ==
  ASSUME LogInv, NEW r \in DOMAIN runs, Step(r)
  PROVE  /\ DOMAIN runs' = DOMAIN runs
         /\ \A s \in DOMAIN runs \ {r} : runs'[s] = runs[s]
         /\ \A s \in DOMAIN runs : \A k \in Given : runs'[s][k] = runs[s][k]
<1>1. ReferencesSane /\ RunsFull
  BY DEF LogInv, RunFits, ReferencesSane
<1>2. PICK fields : Goes(r, fields) /\ StepFits(r, fields)
  BY <1>1, StepWent DEF Went
<1>3. DOMAIN fields \subseteq AllKeys /\ Given \subseteq AllKeys \ DOMAIN fields
  BY <1>2 DEF StepFits, AllKeys, Given
<1>4. /\ DOMAIN runs' = DOMAIN runs
      /\ \A s \in DOMAIN runs \ {r} : runs'[s] = runs[s]
      /\ \A k \in AllKeys \ DOMAIN fields : runs'[r][k] = runs[r][k]
  BY <1>1, <1>2, <1>3, GoesOn
<1> QED BY <1>3, <1>4

(* The steps of a run keep the invariant.                                   *)
LEMMA StepBesideInv ==
  ASSUME LogInv, DataInv, OthersFit, BesideInv, NEW r \in DOMAIN runs, Step(r)
  PROVE  BesideInv'
<1>1. /\ DOMAIN runs' = DOMAIN runs
      /\ \A s \in DOMAIN runs \ {r} : runs'[s] = runs[s]
      /\ \A s \in DOMAIN runs : /\ runs'[s].mode = runs[s].mode /\ runs'[s].params = runs[s].params
                               /\ runs'[s].beside = runs[s].beside
  BY StepGiven DEF Given
<1>2. runs'[r].pc \in Underway => runs[r].pc \in Underway
  <2>1. Answer(r) => runs'[r].pc = "over"
    BY EndKind
  <2> QED BY <2>1, StepKind DEF Underway, Saving
<1>3. Remembered'
  BY <1>1, <1>2 DEF BesideInv, Remembered
<1>4. IsCalibration(runs[r]) => runs'[r].pc # "io"
  BY StepKind, EndKind
<1>5. \A s \in DOMAIN runs : CalibrationFits(runs'[s])
  BY <1>1, <1>4 DEF BesideInv, CalibrationFits, IsCalibration
<1>6. ASSUME NEW kind \in CalibrationKinds PROVE StateFits(kind)'
  <2>0. StateFits(kind)
    BY DEF BesideInv
  <2>1. runs[r].pc # "over"
    <3>1. Answer(r) => runs[r].pc = "answer"
      BY DEF Answer
    <3> QED BY <3>1, StepKind DEF Underway, Saving
  <2>2. \A c \in DOMAIN runs : runs[c].pc = "over" => runs'[c] = runs[c]
    BY <1>1, <2>1
  <2>3. CASE calibration'[kind] = calibration[kind] /\ ~CalibrationEnds(r)
    <3>1. IsCalibration(runs[r]) => runs[r].pc # "io"
      BY <2>3, StepKind DEF Answer
    <3>2. \A c \in DOMAIN runs : runs[c].pc = "io" /\ IsCalibration(runs[c]) => runs'[c] = runs[c]
      BY <1>1, <3>1
    <3> QED BY <1>1, <2>0, <2>2, <2>3, <3>2 DEF StateFits
  <2>4. CASE CalibrationEnds(r)
    <3>1. /\ runs[r].pc = "io" /\ IsCalibration(runs[r]) /\ runs'[r].pc = "over"
          /\ \/ /\ calibration' = [calibration EXCEPT ![runs[r].params.kind] = "done"]
                /\ runs'[r].status = runs[r].status
             \/ calibration' = [calibration EXCEPT ![runs[r].params.kind] = "failed"]
      BY <2>4, EndKind
    <3>2. runs[r].params.kind = runs[r].mode /\ runs[r].status = "done"
      BY <3>1 DEF BesideInv, CalibrationFits
    <3>3. CASE kind = runs[r].mode
      <4>1. calibration'[kind] = "failed" \/ (calibration'[kind] = "done" /\ runs'[r].status = "done")
        BY <3>1, <3>2, <3>3 DEF OthersFit
      <4>2. runs'[r].mode = kind /\ r \in DOMAIN runs'
        BY <1>1, <3>3
      <4> QED BY <3>1, <4>1, <4>2 DEF StateFits
    <3>4. CASE kind # runs[r].mode
      <4>1. calibration'[kind] = calibration[kind]
        BY <3>1, <3>2, <3>4 DEF OthersFit
      <4>2. \A c \in DOMAIN runs : runs[c].mode = kind => runs'[c] = runs[c]
        BY <1>1, <3>4
      <4> QED BY <1>1, <2>0, <4>1, <4>2 DEF StateFits
    <3> QED BY <3>3, <3>4
  <2> QED BY <2>3, <2>4, StepKind
<1> QED BY <1>1, <1>3, <1>5, <1>6 DEF BesideInv

(* So does an admission.                                                    *)
LEMMA TakesBesideInv ==
  ASSUME LogInv, OthersFit, BesideInv, NEW via, NEW mode, NEW body, NEW p, NEW entry,
         Takes(via, mode, body, p, entry), Asks(via, mode, body, p), Starts(via, mode, p)
  PROVE  BesideInv'
<1>1. PICK n : n = Len(runs) + 1
  OBVIOUS
<1>2. PICK new : new = NewRun(via, mode, body, p, entry)
  OBVIOUS
<1>3. /\ n \in Nat /\ DOMAIN runs = 1..(n - 1)
      /\ DOMAIN runs' = DOMAIN runs \cup {n} /\ runs'[n] = new
      /\ \A r \in DOMAIN runs : runs'[r] = runs[r]
  BY <1>1, <1>2, TakesRuns DEF LogInv
<1>4. /\ new.mode = mode /\ new.params = p
      /\ new.pc \in {"io", "finish"} /\ (new.pc = "finish" => new.status = "error")
      /\ new.beside = {r \in DOMAIN runs : runs[r].pc \in Underway}
  BY <1>2, NewRunFields
<1>5. new.pc = "io" => new.status = "done"
  BY <1>2 DEF NewRun
<1>6. p.dark = 0 => new.pc = "io"
  BY <1>2 DEF NewRun, Resolvable
<1>7. Remembered'
  BY <1>3, <1>4 DEF BesideInv, Remembered
<1>8. CalibrationFits(new)
  BY <1>4, <1>5 DEF Asks, CalibrationFits, IsCalibration
<1>9. ASSUME NEW kind \in CalibrationKinds PROVE StateFits(kind)'
  <2>1. StateFits(kind)
    BY DEF BesideInv
  <2>2. CASE calibration'[kind] = calibration[kind]
    BY <1>3, <2>1, <2>2 DEF StateFits
  <2>3. CASE calibration'[kind] # calibration[kind]
    <3>1. p.mode = "calibration" /\ p.dark = 0 /\ calibration'[kind] = "running" /\ kind = mode
      BY <2>3 DEF Starts, OthersFit
    <3>2. n \in DOMAIN runs' /\ runs'[n].mode = kind /\ runs'[n].pc = "io" /\ IsCalibration(runs'[n])
      BY <1>3, <1>4, <1>6, <3>1 DEF IsCalibration
    <3> QED BY <3>1, <3>2 DEF StateFits
  <2> QED BY <2>2, <2>3
<1> QED BY <1>3, <1>7, <1>8, <1>9 DEF BesideInv

(* The invariant holds after every step.                                    *)
LEMMA NextBesideInv ==
  ASSUME RequestsLegal, LogInv, DataInv, OthersFit, BesideInv, [Next]_vars PROVE BesideInv'
<1>1. CASE \E r \in DOMAIN runs : Step(r)
  BY <1>1, StepBesideInv
<1>2. ASSUME UNCHANGED <<runs, calibration>> PROVE BesideInv'
  BY <1>2 DEF BesideInv, Remembered, StateFits
<1>3. CASE Request
  <2>1. CASE TakesAsked
    BY <2>1, TakesBesideInv DEF TakesAsked
  <2>2. CASE NotesLegal
    BY <1>2, <2>2 DEF NotesLegal
  <2> QED BY <1>3, <2>1, <2>2, RequestLegal DEF DataInv
<1>4. CASE \E e \in jobs : StartJob(e)
  <2>1. PICK e \in jobs : StartJob(e)
    BY <1>4
  <2>2. \/ \E mode, body, p : /\ Takes("schedule", mode, body, p, e)
                              /\ Asks("schedule", mode, body, p) /\ UNCHANGED calibration
        \/ UNCHANGED <<runs, calibration>>
    BY <2>1, JobLegal DEF DataInv
  <2>3. ASSUME NEW mode, NEW body, NEW p, Takes("schedule", mode, body, p, e),
               Asks("schedule", mode, body, p), UNCHANGED calibration
        PROVE  BesideInv'
    <3>1. Starts("schedule", mode, p)
      BY <2>3 DEF Starts
    <3> QED BY <2>3, <3>1, TakesBesideInv
  <2> QED BY <1>2, <2>2, <2>3
<1>5. CASE Crash
  <2>1. /\ DOMAIN runs' = DOMAIN runs
        /\ \A r \in DOMAIN runs :
             /\ runs'[r].mode = runs[r].mode /\ runs'[r].params = runs[r].params
             /\ runs'[r].beside = runs[r].beside
             /\ runs'[r] = runs[r] \/ (runs'[r].pc = "over" /\ runs'[r].status = "lost")
    <3>1. DOMAIN runs' = DOMAIN runs
      BY <1>5 DEF Crash
    <3> QED BY <1>5, <3>1, CrashedRun DEF LogInv, Given
  <2>2. Remembered'
    BY <2>1 DEF BesideInv, Remembered, Underway, Saving
  <2>3. \A r \in DOMAIN runs : CalibrationFits(runs'[r])
    BY <2>1 DEF BesideInv, CalibrationFits, IsCalibration
  <2>4. \A kind \in CalibrationKinds : calibration'[kind] = "none"
    BY <1>5 DEF Crash
  <2> QED BY <2>1, <2>2, <2>3, <2>4 DEF BesideInv, StateFits
<1>6. CASE calibration_status
  <2>1. runs' = runs /\ calibration' = [calibration EXCEPT !["breakdown"] = "done"]
    BY <1>6 DEF calibration_status
  <2>2. ASSUME NEW kind \in CalibrationKinds PROVE StateFits(kind)'
    <3>1. StateFits(kind)
      BY DEF BesideInv
    <3>2. calibration'[kind] = calibration[kind] \/ (kind = "breakdown" /\ calibration'[kind] = "done")
      BY <2>1 DEF OthersFit
    <3> QED BY <2>1, <3>1, <3>2 DEF StateFits
  <2> QED BY <2>1, <2>2 DEF BesideInv, Remembered
<1>7. CASE SetSavePath \/ RequestStop \/ StopReturns \/ UNCHANGED vars
  <2>1. UNCHANGED <<runs, calibration>>
    BY <1>7 DEF SetSavePath, RequestStop, StopReturns, vars
  <2> QED BY <1>2, <2>1
<1> QED BY <1>1, <1>3, <1>4, <1>5, <1>6, <1>7 DEF Next

(* See NextBesideInv.                                                       *)
LEMMA InitBesideInv == Init => BesideInv
<1> SUFFICES ASSUME Init PROVE BesideInv
  OBVIOUS
<1>1. DOMAIN runs = {} /\ \A kind \in CalibrationKinds : calibration[kind] = "none"
  BY DEF Init
<1> QED BY <1>1 DEF BesideInv, Remembered, StateFits

-----------------------------------------------------------------------------
(* The files.                                                               *)

(* Fields that count nothing leave the counts.                              *)
LEMMA CountsStay ==
  ASSUME RunsFull, NEW r \in DOMAIN runs, NEW fields, Goes(r, fields),
         DOMAIN fields \subseteq AllKeys \ {"done", "written"}
  PROVE  runs'[r].done = runs[r].done /\ runs'[r].written = runs[r].written
<1>1. Changes(r, fields)
  BY GoesChanges
<1> QED BY <1>1 DEF Changes, AllKeys

(* Only four steps write to the disk; once a run has its folder, only one   *)
(* counts.                                                                  *)
LEMMA QuietSteps ==
  ASSUME RunsFull, NEW r \in DOMAIN runs, Step(r),
         ~Make(r), ~WriteFrame(r), ~WriteSidecar(r), ~Reduce(r)
  PROVE  /\ folders' = folders
         /\ \/ runs[r].pc \in Taking
            \/ runs'[r].done = runs[r].done /\ runs'[r].written = runs[r].written
<1>1. CASE IntensityExchange(r) \/ GatedExchange(r) \/ PacedExchange(r) \/ FlimExchange(r)
             \/ CalibrationEnds(r) \/ ExchangeFails(r) \/ Boundary(r) \/ Correct(r)
  <2>1. runs[r].pc \in Taking
    BY <1>1 DEF IntensityExchange, GatedExchange, PacedExchange, FlimExchange, CalibrationEnds,
                ExchangeFails, Boundary, Correct, Taking
  <2>2. ASSUME NEW data, NEW frames, NEW fields, Received(r, data, frames, fields)
        PROVE  folders' = folders
    BY <2>2 DEF Received, Advance, Fail, disk
  <2>3. folders' = folders
    BY <1>1, <2>2 DEF IntensityExchange, GatedExchange, PacedExchange, FlimExchange,
      CalibrationEnds, ExchangeFails, Boundary, Correct, Fail, Broken, Advance, disk
  <2> QED BY <2>1, <2>3
<1>2. CASE List(r)
  <2>1. PICK folder : Goes(r, [pc |-> "make", folder |-> folder]) /\ folders' = folders
    BY <1>2 DEF List, Advance, disk
  <2>2. DOMAIN [pc |-> "make", folder |-> folder] = {"pc", "folder"}
    OBVIOUS
  <2>3. DOMAIN [pc |-> "make", folder |-> folder] \subseteq AllKeys \ {"done", "written"}
    BY <2>2 DEF AllKeys
  <2> QED BY <2>1, <2>3, CountsStay
<1>3. CASE SaveFails(r)
  <2>1. Goes(r, [pc |-> "finish", status |-> "raised"]) /\ folders' = folders
    BY <1>3 DEF SaveFails, Broken, disk
  <2>2. DOMAIN [pc |-> "finish", status |-> "raised"] = {"pc", "status"}
    OBVIOUS
  <2>3. DOMAIN [pc |-> "finish", status |-> "raised"] \subseteq AllKeys \ {"done", "written"}
    BY <2>2 DEF AllKeys
  <2> QED BY <2>1, <2>3, CountsStay
<1>4. CASE GraceExpires(r)
  <2>1. Goes(r, [told |-> TRUE]) /\ folders' = folders
    BY <1>4 DEF GraceExpires
  <2>2. DOMAIN [told |-> TRUE] \subseteq AllKeys \ {"done", "written"}
    BY DEF AllKeys
  <2> QED BY <2>1, <2>2, CountsStay
<1>5. ASSUME Goes(r, Over) PROVE runs'[r].done = runs[r].done /\ runs'[r].written = runs[r].written
  <2>1. DOMAIN Over \subseteq AllKeys \ {"done", "written"}
    BY OverFields DEF AllKeys
  <2> QED BY <1>5, <2>1, CountsStay
<1>6. CASE Finish(r)
  <2>1. folders' = folders /\ (Goes(r, Over) \/ Goes(r, [pc |-> "answer"]))
    BY <1>6 DEF Finish, disk
  <2>2. DOMAIN [pc |-> "answer"] \subseteq AllKeys \ {"done", "written"}
    BY DEF AllKeys
  <2> QED BY <1>5, <2>1, <2>2, CountsStay
<1>7. CASE Answer(r)
  BY <1>5, <1>7 DEF Answer
<1> QED BY <1>1, <1>2, <1>3, <1>4, <1>6, <1>7 DEF Step

(* What a run has saved in its folder.                                      *)
Saved(r, run, folder) ==
  LET p == run.params
      all == run.written = FramesOf(p, run.done)
  IN  /\ run.written <= FramesOf(p, run.done)
      /\ folder.images = [k \in 1..run.written |->
                            ImageFile(FrameOf(r, p, run.done, k), k - 1, p.depth, GateStepsOf(run))]
      /\ run.written > 0 => folder.meta = MetadataOf(run)
      /\ folder.sidecar # <<>> => /\ all /\ folder.sidecar.frames = run.written
                                  /\ folder.sidecar.params = SidecarParams(p)
      /\ folder.movie # <<>> => all /\ folder.movie = reduce_folder(folder)

(* What its sidecar says of a calibration.                                  *)
DoneFor(r, kind) ==
  kind = "breakdown"
    \/ \E c \in DOMAIN runs : /\ runs[c].mode = kind /\ runs[c].status = "done"
                              /\ runs[c].pc = "over" /\ (c < r \/ Together(c, r))

RunsBeside(r, kind) == \E c \in DOMAIN runs : runs[c].mode = kind /\ Together(c, r)

CalibratedBy(r, kind, state) ==
  /\ state = "done" => DoneFor(r, kind)
  /\ state = "running" => RunsBeside(r, kind)

FilesFit(r) ==
  LET folder == folders[runs[r].folder]
  IN  /\ Saved(r, runs[r], folder)
      /\ folder.sidecar # <<>> =>
           \A kind \in CalibrationKinds : CalibratedBy(r, kind, folder.sidecar.calibration[kind])

(* Every folder was made by a run.                                          *)
HasMaker(f) == \E r \in DOMAIN runs : runs[r].made /\ runs[r].folder = f

FilesInv ==
  /\ \A f \in DOMAIN folders : HasMaker(f)
  /\ \A r \in DOMAIN runs : Alone(r) => FilesFit(r)

(* A run that has its folder and does not write leaves the files.           *)
LEMMA SavedStays ==
  ASSUME NEW r, NEW run, NEW next, next.params = run.params, next.done = run.done,
         next.written = run.written, NEW folder, Saved(r, run, folder)
  PROVE  Saved(r, next, folder)
BY DEF Saved, GateStepsOf, MetadataOf

(* A file more: what WriteFrame makes of the folder.                        *)
FrameAdded(run, folder) ==
  LET k == run.written + 1
      file == ImageFile(run.stack[k], k - 1, run.params.depth, GateStepsOf(run))
  IN  [folder EXCEPT !.images = IF k <= Len(@) THEN [@ EXCEPT ![k] = file] ELSE Append(@, file),
                     !.meta = IF k = 1 THEN MetadataOf(run) ELSE @]

LEMMA SavedFrame ==
  ASSUME NEW r, NEW run, NEW folder, DOMAIN folder = FolderKeys, Saved(r, run, folder), Kept(r, run),
         run.written \in Nat, FramesOf(run.params, run.done) \in Nat,
         run.written < FramesOf(run.params, run.done),
         NEW next, next.params = run.params, next.done = run.done, next.written = run.written + 1,
         NEW after, after = FrameAdded(run, folder)
  PROVE  Saved(r, next, after) /\ after.sidecar = folder.sidecar
<1>a. PICK w \in Nat, m \in Nat :
        w = run.written /\ m = FramesOf(run.params, run.done) /\ w < m
  OBVIOUS
<1>b. PICK p : p = run.params
  OBVIOUS
<1>c. PICK done : done = run.done
  OBVIOUS
<1>1. w = run.written /\ p = run.params /\ done = run.done /\ m = FramesOf(p, done) /\ w < m
  BY <1>a, <1>b, <1>c
<1>d. PICK n \in Nat : n = w + 1
  OBVIOUS
<1>2. PICK file : file = ImageFile(run.stack[n], n - 1, p.depth, GateStepsOf(run))
  OBVIOUS
<1>3. PICK images : images = folder.images
  OBVIOUS
<1>4. PICK f : f = [k \in 1..(w + 1) |-> ImageFile(FrameOf(r, p, done, k), k - 1, p.depth, GateStepsOf(run))]
  OBVIOUS
<1>5. file = f[w + 1]
  <2>1. w + 1 \in 1..m
    BY <1>1
  <2>2. run.stack[w + 1] = FrameOf(r, p, done, w + 1)
    BY <1>1, <2>1 DEF Kept
  <2>4. n \in 1..n /\ f = [k \in 1..n |-> ImageFile(FrameOf(r, p, done, k), k - 1, p.depth, GateStepsOf(run))]
    BY <1>4, <1>d
  <2>5. f[n] = ImageFile(FrameOf(r, p, done, n), n - 1, p.depth, GateStepsOf(run))
    BY <2>4
  <2>6. run.stack[n] = FrameOf(r, p, done, n)
    BY <2>2, <1>d, Zenon
  <2> QED BY <1>2, <1>d, <2>5, <2>6, Zenon
<1>6. images = [k \in 1..w |-> f[k]]
  <2>1. images = [k \in 1..w |-> ImageFile(FrameOf(r, p, done, k), k - 1, p.depth, GateStepsOf(run))]
    BY <1>1, <1>3 DEF Saved
  <2>2. \A k \in 1..w : f[k] = ImageFile(FrameOf(r, p, done, k), k - 1, p.depth, GateStepsOf(run))
    BY <1>4
  <2> QED BY <2>1, <2>2
<1>7. Len(images) = w /\ Append(images, file) = f
  <2>1. images = [k \in 1..w |-> images[k]]
    BY <1>6
  <2>2. (\E S : images \in Seq(S)) /\ Len(images) = w
    BY <2>1, SeqOfLength
  <2>3. PICK S : images \in Seq(S)
    BY <2>2
  <2>4. images \in Seq(S \cup {file})
    BY <2>3
  <2>5. PICK g : g = Append(images, file)
    OBVIOUS
  <2>6. /\ g \in Seq(S \cup {file}) /\ Len(g) = w + 1 /\ g[w + 1] = file
        /\ \A k \in 1..w : g[k] = images[k]
    BY <2>2, <2>4, <2>5
  <2>7. g \in [1..(w + 1) -> S \cup {file}]
    BY <2>6, FunctionOf
  <2>8. \A k \in 1..(w + 1) : g[k] = f[k]
    <3>1. \A k \in 1..w : g[k] = f[k]
      BY <1>6, <2>6
    <3> QED BY <1>5, <2>6, <3>1
  <2>9. f = [k \in 1..(w + 1) |-> f[k]]
    BY <1>4
  <2> QED BY <2>2, <2>5, <2>7, <2>8, <2>9
<1>8. PICK meta : meta = IF w + 1 = 1 THEN MetadataOf(run) ELSE folder.meta
  OBVIOUS
<1>9. ~ (w + 1 <= w)
  OBVIOUS
<1>10. /\ after.images = f /\ after.meta = meta /\ after.sidecar = folder.sidecar
       /\ after.movie = folder.movie
  <2>1. PICK new : new = IF w + 1 <= Len(images) THEN [images EXCEPT ![w + 1] = file]
                         ELSE Append(images, file)
    OBVIOUS
  <2>2. new = f
    BY <1>7, <1>9, <2>1
  <2>4. file = ImageFile(run.stack[n], n - 1, run.params.depth, GateStepsOf(run))
    BY <1>1, <1>2, Zenon
  <2>5. n = run.written + 1
    BY <1>1, <1>d
  <2>6. after = [folder EXCEPT !.images = IF n <= Len(@) THEN [@ EXCEPT ![n] = file]
                                          ELSE Append(@, file),
                               !.meta = IF n = 1 THEN MetadataOf(run) ELSE @]
    BY <2>4, <2>5, Zenon DEF FrameAdded
  <2>7. new = (IF n <= Len(images) THEN [images EXCEPT ![n] = file] ELSE Append(images, file))
    BY <2>1, <1>d
  <2>8. meta = IF n = 1 THEN MetadataOf(run) ELSE folder.meta
    BY <1>8, <1>d
  <2>9. /\ after.images = new /\ after.meta = meta /\ after.sidecar = folder.sidecar
        /\ after.movie = folder.movie
    BY ONLY <1>3, <2>6, <2>7, <2>8, DOMAIN folder = FolderKeys DEF FolderKeys
  <2> QED BY <2>2, <2>9
<1>11. meta = MetadataOf(run)
  BY <1>1, <1>8 DEF Saved
<1>12. folder.sidecar = <<>> /\ folder.movie = <<>>
  BY <1>1 DEF Saved
<1>13. MetadataOf(next) = MetadataOf(run) /\ GateStepsOf(next) = GateStepsOf(run)
  BY DEF MetadataOf, GateStepsOf
<1> QED BY <1>1, <1>4, <1>10, <1>11, <1>12, <1>13 DEF Saved

(* The sidecar beside them, and the movie.                                  *)
LEMMA SavedSidecar ==
  ASSUME NEW r, NEW run, NEW folder, DOMAIN folder = FolderKeys, Saved(r, run, folder),
         run.written = FramesOf(run.params, run.done),
         NEW next, next.params = run.params, next.done = run.done, next.written = run.written,
         NEW sidecar, sidecar.params = SidecarParams(run.params), sidecar.frames = run.written,
         NEW after, after = [folder EXCEPT !.sidecar = sidecar]
  PROVE  Saved(r, next, after) /\ after.sidecar = sidecar
<1>1. /\ after.images = folder.images /\ after.meta = folder.meta
      /\ after.movie = folder.movie /\ after.sidecar = sidecar
  BY DEF FolderKeys
<1>2. reduce_folder(after) = reduce_folder(folder)
  BY <1>1 DEF reduce_folder
<1>3. MetadataOf(next) = MetadataOf(run) /\ GateStepsOf(next) = GateStepsOf(run)
  BY DEF MetadataOf, GateStepsOf
<1> QED BY <1>1, <1>2, <1>3 DEF Saved

(* See SavedSidecar.                                                        *)
LEMMA SavedMovie ==
  ASSUME NEW r, NEW run, NEW folder, DOMAIN folder = FolderKeys, Saved(r, run, folder),
         run.written = FramesOf(run.params, run.done),
         NEW next, next.params = run.params, next.done = run.done, next.written = run.written,
         NEW after, after = [folder EXCEPT !.movie = reduce_folder(folder)]
  PROVE  Saved(r, next, after) /\ after.sidecar = folder.sidecar
<1>1. /\ after.images = folder.images /\ after.meta = folder.meta
      /\ after.movie = reduce_folder(folder) /\ after.sidecar = folder.sidecar
  BY DEF FolderKeys
<1>2. reduce_folder(after) = reduce_folder(folder)
  BY <1>1 DEF reduce_folder
<1>3. MetadataOf(next) = MetadataOf(run) /\ GateStepsOf(next) = GateStepsOf(run)
  BY DEF MetadataOf, GateStepsOf
<1> QED BY <1>1, <1>2, <1>3 DEF Saved

(* What a run with a folder writes to it.                                   *)
LEMMA StepSaved ==
  ASSUME Inv, LogInv, DataInv, FolderShape, NEW r \in DOMAIN runs, runs[r].made, Step(r),
         Saved(r, runs[r], folders[runs[r].folder])
  PROVE  /\ Saved(r, runs'[r], folders'[runs[r].folder])
         /\ \/ folders'[runs[r].folder].sidecar = folders[runs[r].folder].sidecar
            \/ /\ runs[r].pc = "sidecar"
               /\ folders'[runs[r].folder].sidecar.calibration = calibration
<1>1. RunsFull /\ DataFits(r, runs[r]) /\ FolderFits(r)
  BY DEF LogInv, DataInv, Inv
<1>2. PICK run, next, folder, after :
        /\ run = runs[r] /\ next = runs'[r]
        /\ folder = folders[runs[r].folder] /\ after = folders'[runs[r].folder]
  OBVIOUS
<1>3. DOMAIN folder = FolderKeys /\ run.folder \in DOMAIN folders
  BY <1>1, <1>2 DEF FolderFits, FolderShape
<1>4. ASSUME NEW content, NEW fields, Writes(r, content, fields)
      PROVE  after = content /\ Goes(r, fields)
  BY <1>2, <1>3, <1>4 DEF Writes
<1>5. next.params = run.params
  <2>1. "params" \in Given
    BY DEF Given
  <2> QED BY <1>2, <2>1, StepGiven
<1>6. CASE ~Make(r) /\ ~WriteFrame(r) /\ ~WriteSidecar(r) /\ ~Reduce(r)
  <2>1. run.pc \notin Taking
    BY <1>1, <1>2 DEF FolderFits
  <2>2. after = folder /\ next.done = run.done /\ next.written = run.written
    BY <1>1, <1>2, <1>6, <2>1, QuietSteps
  <2> QED BY <1>2, <1>5, <2>2, SavedStays
<1>7. ~Make(r)
  BY <1>1 DEF Make, FolderFits
<1>8. ASSUME run.pc \in {"frames", "sidecar", "reduce"}
      PROVE  Kept(r, run) /\ Counted(run) /\ FramesOf(run.params, run.done) \in Nat
  BY <1>1, <1>2, <1>8, Measured DEF Saving
<1>9. CASE WriteFrame(r)
  <2> DEFINE k == run.written + 1
             fields == [written |-> k, pc |-> IF k < Len(run.stack) THEN "frames" ELSE "sidecar"]
  <2>1. run.pc = "frames"
    BY <1>2, <1>9 DEF WriteFrame
  <2>2. Writes(r, FrameAdded(run, folder), fields)
    BY <1>2, <1>9, Zenon DEF WriteFrame, FrameAdded
  <2>3. after = FrameAdded(run, folder)
    BY <1>4, <2>2
  <2>4. Goes(r, fields)
    BY <1>4, <2>2
  <2>5. DOMAIN fields = {"written", "pc"} /\ fields["written"] = run.written + 1
    OBVIOUS
  <2>6. next.done = run.done /\ next.written = run.written + 1
    <3> HIDE DEF fields
    <3>1. Changes(r, fields)
      BY <1>1, <2>4, <2>5, GoesChanges DEF AllKeys
    <3> QED BY <1>2, <2>5, <3>1 DEF Changes, AllKeys
  <2>7. run.written \in Nat /\ run.written < FramesOf(run.params, run.done)
    BY <1>8, <2>1 DEF Counted
  <2>8. Saved(r, run, folder) /\ Kept(r, run) /\ FramesOf(run.params, run.done) \in Nat
    BY <1>2, <1>8, <2>1
  <2>9. Saved(r, next, after) /\ after.sidecar = folder.sidecar
    BY <1>3, <1>5, <2>3, <2>6, <2>7, <2>8, SavedFrame
  <2> QED BY <1>2, <2>9
<1>10. CASE WriteSidecar(r)
  <2>1. PICK sidecar :
          sidecar = [params |-> SidecarParams(run.params), frames |-> run.written,
                     corrected |-> run.reference # NoReference, calibration |-> calibration]
    OBVIOUS
  <2>2. PICK fields : /\ Writes(r, [folder EXCEPT !.sidecar = sidecar], fields)
                      /\ DOMAIN fields = {"shown", "pc"}
    BY <1>2, <1>10, <2>1 DEF WriteSidecar
  <2>3. next.done = run.done /\ next.written = run.written
    <3>1. Goes(r, fields) /\ DOMAIN fields \subseteq AllKeys \ {"done", "written"}
      BY <1>4, <2>2 DEF AllKeys
    <3> QED BY <1>1, <1>2, <3>1, CountsStay
  <2>4. run.pc = "sidecar" /\ run.written = FramesOf(run.params, run.done)
    BY <1>2, <1>8, <1>10 DEF WriteSidecar, Counted
  <2>5. after = [folder EXCEPT !.sidecar = sidecar]
    BY <1>4, <2>2
  <2>6. /\ sidecar.params = SidecarParams(run.params) /\ sidecar.frames = run.written
        /\ sidecar.calibration = calibration
    BY <2>1
  <2>7. Saved(r, run, folder)
    BY <1>2
  <2>8. Saved(r, next, after) /\ after.sidecar = sidecar
    BY <1>3, <1>5, <2>3, <2>4, <2>5, <2>6, <2>7, SavedSidecar
  <2> QED BY <1>2, <2>4, <2>6, <2>8
<1>11. CASE Reduce(r)
  <2> DEFINE fields == [pc |-> "finish"]
  <2>1. Writes(r, [folder EXCEPT !.movie = reduce_folder(folder)], fields)
    BY <1>2, <1>11 DEF Reduce
  <2>2. DOMAIN fields = {"pc"}
    OBVIOUS
  <2> HIDE DEF fields
  <2>3. next.done = run.done /\ next.written = run.written
    <3>1. Goes(r, fields) /\ DOMAIN fields \subseteq AllKeys \ {"done", "written"}
      BY <1>4, <2>1, <2>2 DEF AllKeys
    <3> QED BY <1>1, <1>2, <3>1, CountsStay
  <2>4. run.written = FramesOf(run.params, run.done)
    BY <1>2, <1>8, <1>11 DEF Reduce, Counted
  <2>5. after = [folder EXCEPT !.movie = reduce_folder(folder)]
    BY <1>4, <2>1
  <2>6. Saved(r, run, folder)
    BY <1>2
  <2> QED BY <1>2, <1>3, <1>5, <2>3, <2>4, <2>5, <2>6, SavedMovie
<1> QED BY <1>6, <1>7, <1>9, <1>10, <1>11

(* What the sidecar of a run says of the calibrations when it is written.   *)
LEMMA NewCalibrated ==
  ASSUME Inv, LogInv, BesideInv, NEW r \in DOMAIN runs, runs[r].pc = "sidecar",
         NEW kind \in CalibrationKinds
  PROVE  CalibratedBy(r, kind, calibration[kind])
<1>1. StateFits(kind)
  BY DEF BesideInv
<1>2. runs[r].pc \in Underway /\ DOMAIN runs = 1..Len(runs) /\ Len(runs) \in Nat
  BY SeqDomain DEF Underway, Saving, LogInv, RunsFull
<1>3. ASSUME NEW c \in DOMAIN runs, runs[c].pc = "over" PROVE c < r \/ Together(c, r)
  <2>1. c # r /\ c \in Int /\ r \in Int
    BY <1>2, <1>3
  <2>2. r < c => r \in runs[c].beside
    BY <1>2, <1>3 DEF BesideInv, Remembered
  <2> QED BY <2>1, <2>2 DEF Together
<1>4. ASSUME NEW c \in DOMAIN runs, runs[c].pc = "io" PROVE Together(c, r)
  <2>1. c # r /\ runs[c].pc \in Underway
    BY <1>4 DEF Underway
  <2> QED BY <1>2, <2>1 DEF Inv, Apart
<1> QED BY <1>1, <1>3, <1>4 DEF StateFits, CalibratedBy, DoneFor, RunsBeside

(* It stays true of them.                                                   *)
LEMMA CalibratedStays ==
  ASSUME NEW r \in DOMAIN runs, NEW kind,
         DOMAIN runs \subseteq DOMAIN runs',
         \A s \in DOMAIN runs : /\ runs[s].pc = "over" => runs'[s] = runs[s]
                                /\ runs'[s].mode = runs[s].mode /\ runs'[s].beside = runs[s].beside
  PROVE  /\ DoneFor(r, kind) => DoneFor(r, kind)'
         /\ RunsBeside(r, kind) => RunsBeside(r, kind)'
<1>1. \A c \in DOMAIN runs : Together(c, r) => Together(c, r)'
  BY DEF Together
<1> QED BY <1>1 DEF DoneFor, RunsBeside

(* A folder that is a run's alone has been so ever since it was made.       *)
LEMMA AloneBefore ==
  ASSUME NEW s \in DOMAIN runs, Alone(s)', DOMAIN runs \subseteq DOMAIN runs', runs[s].made,
         \A c \in DOMAIN runs : runs[c].made => runs'[c].made /\ runs'[c].folder = runs[c].folder
  PROVE  Alone(s)
BY DEF Alone

(* The steps of a run keep the invariant: it writes what it has taken, and  *)
(* to its own folder only.                                                  *)
LEMMA StepFilesInv ==
  ASSUME Inv, LogInv, OthersFit, PathInv, DataInv, BesideInv, FilesInv,
         NEW r \in DOMAIN runs, Step(r)
  PROVE  FilesInv'
<1>1. FolderShape /\ ShownFits(r) /\ FolderFits(r) /\ DataFits(r, runs[r]) /\ RunsFull
  BY DEF PathInv, Inv, DataInv, LogInv
<1>2. RunMoves(r) /\ FolderStep(r)
  BY <1>1, StepMoves, StepFolders
<1>3. /\ DOMAIN runs' = DOMAIN runs
      /\ \A s \in DOMAIN runs \ {r} : runs'[s] = runs[s]
      /\ \A s \in DOMAIN runs : runs'[s].mode = runs[s].mode /\ runs'[s].beside = runs[s].beside
                                /\ runs'[s].params = runs[s].params
  BY StepGiven DEF Given
<1>4. \A s \in DOMAIN runs : runs[s].made => runs'[s].made /\ runs'[s].folder = runs[s].folder
  BY <1>2, <1>3 DEF RunMoves
<1>5. runs[r].pc # "over"
  BY <1>2 DEF RunMoves
<1>6. ASSUME NEW s \in DOMAIN runs, NEW kind
      PROVE  /\ DoneFor(s, kind) => DoneFor(s, kind)'
             /\ RunsBeside(s, kind) => RunsBeside(s, kind)'
  BY <1>3, <1>5, CalibratedStays
<1>7. ASSUME NEW f \in DOMAIN folders' PROVE HasMaker(f)'
  <2>1. CASE f \in DOMAIN folders
    <3>1. PICK s \in DOMAIN runs : runs[s].made /\ runs[s].folder = f
      BY <2>1 DEF FilesInv, HasMaker
    <3> QED BY <1>3, <1>4, <3>1 DEF HasMaker
  <2>2. CASE f \notin DOMAIN folders
    <3>1. folders' # folders
      BY <2>2
    <3>2. Make(r) \/ WriteFrame(r) \/ WriteSidecar(r) \/ Reduce(r)
      BY <1>1, <3>1, QuietSteps
    <3>3. f = runs[r].folder
      BY <2>2, <3>2 DEF Make, WriteFrame, WriteSidecar, Reduce, Writes
    <3>4. Make(r)
      BY <1>1, <2>2, <3>2, <3>3 DEF WriteFrame, WriteSidecar, Reduce, FolderFits, Written
    <3>5. runs'[r].made /\ runs'[r].folder = runs[r].folder
      <4> DEFINE fields == [pc |-> "frames", made |-> TRUE]
      <4>1. Goes(r, fields) /\ DOMAIN fields = {"pc", "made"} /\ fields["made"]
        BY <3>4 DEF Make, Writes
      <4> HIDE DEF fields
      <4>2. Changes(r, fields)
        BY <1>1, <4>1, GoesChanges DEF AllKeys
      <4> QED BY <4>1, <4>2 DEF Changes, AllKeys
    <3> QED BY <1>3, <3>3, <3>5 DEF HasMaker
  <2> QED BY <2>1, <2>2
<1>8. ASSUME NEW s \in DOMAIN runs \ {r}, Alone(s)' PROVE FilesFit(s)'
  <2>1. runs[s].made /\ runs'[s] = runs[s]
    BY <1>3, <1>8 DEF Alone
  <2>2. Alone(s) /\ FilesFit(s)
    BY <1>3, <1>4, <1>8, <2>1, AloneBefore DEF FilesInv
  <2>3. PICK f : f = runs[s].folder
    OBVIOUS
  <2>4. f \in DOMAIN folders
    BY <2>1, <2>3 DEF Inv, FolderFits
  <2>5. f # runs[r].folder \/ ~runs'[r].made
    BY <1>2, <1>3, <1>8, <2>1, <2>3 DEF Alone, RunMoves
  <2>6. folders'[f] = folders[f]
    BY <1>2, <2>4, <2>5 DEF FolderStep
  <2>7. Saved(s, runs[s], folders[f])
    BY <2>2, <2>3 DEF FilesFit
  <2>8. Saved(s, runs'[s], folders'[f])
    BY <2>1, <2>6, <2>7
  <2>9. \A kind \in CalibrationKinds :
           folders'[f].sidecar # <<>> =>
             /\ folders'[f].sidecar.calibration[kind] = "done" => DoneFor(s, kind)'
             /\ folders'[f].sidecar.calibration[kind] = "running" => RunsBeside(s, kind)'
    BY <1>6, <2>2, <2>3, <2>6 DEF FilesFit, CalibratedBy
  <2> QED BY <2>1, <2>3, <2>8, <2>9 DEF FilesFit, Saved, CalibratedBy
<1>9. ASSUME Alone(r)', runs[r].made PROVE FilesFit(r)'
  <2>1. Alone(r) /\ FilesFit(r)
    BY <1>3, <1>4, <1>9, AloneBefore DEF FilesInv
  <2>2. PICK f : f = runs[r].folder
    OBVIOUS
  <2>3. runs'[r].folder = f
    BY <1>4, <1>9, <2>2
  <2>4. Saved(r, runs[r], folders[f])
    BY <2>1, <2>2 DEF FilesFit
  <2>5. /\ Saved(r, runs'[r], folders'[f])
        /\ \/ folders'[f].sidecar = folders[f].sidecar
           \/ runs[r].pc = "sidecar" /\ folders'[f].sidecar.calibration = calibration
    BY <1>1, <1>9, <2>2, <2>4, StepSaved
  <2>6. \A kind \in CalibrationKinds :
           folders'[f].sidecar # <<>> =>
             /\ folders'[f].sidecar.calibration[kind] = "done" => DoneFor(r, kind)'
             /\ folders'[f].sidecar.calibration[kind] = "running" => RunsBeside(r, kind)'
    <3>1. CASE folders'[f].sidecar = folders[f].sidecar
      BY <1>6, <2>1, <2>2, <3>1 DEF FilesFit, CalibratedBy
    <3>2. CASE runs[r].pc = "sidecar" /\ folders'[f].sidecar.calibration = calibration
      <4>1. \A kind \in CalibrationKinds : CalibratedBy(r, kind, calibration[kind])
        BY <3>2, NewCalibrated
      <4> QED BY <1>6, <3>2, <4>1 DEF CalibratedBy
    <3> QED BY <2>5, <3>1, <3>2
  <2> QED BY <2>3, <2>5, <2>6 DEF FilesFit, CalibratedBy
<1>10. ASSUME Alone(r)', ~runs[r].made PROVE FilesFit(r)'
  <2>1. PICK f : f = runs[r].folder
    OBVIOUS
  <2>2. /\ runs'[r].made /\ runs'[r].folder = f /\ runs[r].pc = "make"
    BY <1>2, <1>10, <2>1 DEF RunMoves, Alone
  <2>3. Make(r)
    <3>1. ~WriteFrame(r) /\ ~WriteSidecar(r) /\ ~Reduce(r)
      BY <2>2 DEF WriteFrame, WriteSidecar, Reduce
    <3>2. SUFFICES ASSUME ~Make(r) PROVE FALSE
      OBVIOUS
    <3>3. SaveFails(r) \/ GraceExpires(r)
      BY <2>2, <3>1, <3>2 DEF Step, IntensityExchange, GatedExchange, PacedExchange, FlimExchange,
         CalibrationEnds, ExchangeFails, Boundary, Correct, List, Finish, Answer
    <3>4. \E fields : /\ Goes(r, fields)
                      /\ DOMAIN fields \subseteq AllKeys \ {"made"}
      <4>1. CASE SaveFails(r)
        <5> DEFINE fields == [pc |-> "finish", status |-> "raised"]
        <5>1. Goes(r, fields) /\ DOMAIN fields = {"pc", "status"}
          BY <4>1 DEF SaveFails, Broken
        <5> QED BY <5>1 DEF AllKeys
      <4>2. CASE GraceExpires(r)
        <5> DEFINE fields == [told |-> TRUE]
        <5>1. Goes(r, fields) /\ DOMAIN fields = {"told"}
          BY <4>2 DEF GraceExpires
        <5> QED BY <5>1 DEF AllKeys
      <4> QED BY <3>3, <4>1, <4>2
    <3>5. PICK fields : Goes(r, fields) /\ DOMAIN fields \subseteq AllKeys \ {"made"}
      BY <3>4
    <3>6. runs'[r].made = runs[r].made
      <4>1. Changes(r, fields)
        BY <1>1, <3>5, GoesChanges
      <4> QED BY <3>5, <4>1 DEF Changes, AllKeys
    <3> QED BY <1>10, <2>2, <3>6
  <2>4. f \notin DOMAIN folders
    <3>1. SUFFICES ASSUME f \in DOMAIN folders PROVE FALSE
      OBVIOUS
    <3>2. PICK s \in DOMAIN runs : runs[s].made /\ runs[s].folder = f
      BY <3>1 DEF FilesInv, HasMaker
    <3>3. s # r
      BY <1>10, <3>2
    <3> QED BY <1>3, <1>10, <2>2, <3>2, <3>3 DEF Alone
  <2>5. folders'[f] = EmptyFolder
    BY <2>1, <2>3, <2>4 DEF Make, Writes
  <2>6. runs'[r].written = 0 /\ FramesOf(runs'[r].params, runs'[r].done) >= 0
    <3> DEFINE fields == [pc |-> "frames", made |-> TRUE]
    <3>1. Goes(r, fields) /\ DOMAIN fields = {"pc", "made"}
      BY <2>3 DEF Make, Writes
    <3>2. DOMAIN fields \subseteq AllKeys \ {"done", "written"}
      BY <3>1 DEF AllKeys
    <3>3. runs'[r].written = runs[r].written /\ runs'[r].done = runs[r].done
      BY <1>1, <3>1, <3>2, CountsStay
    <3>4. Counted(runs[r])
      BY <1>1, <2>2, Measured DEF Saving
    <3>5. FramesOf(runs[r].params, runs[r].done) \in Nat
      BY <1>1, <2>2, Measured DEF Saving
    <3>6. FramesOf(runs[r].params, runs[r].done) >= 0
      BY <3>5
    <3> QED BY <1>3, <2>2, <3>3, <3>4, <3>6 DEF Counted
  <2>7. Saved(r, runs'[r], folders'[f])
    BY <2>5, <2>6 DEF Saved, EmptyFolder
  <2>8. folders'[f].sidecar = <<>>
    BY <2>5 DEF EmptyFolder
  <2> QED BY <2>2, <2>7, <2>8 DEF FilesFit
<1> QED BY <1>3, <1>7, <1>8, <1>9, <1>10 DEF FilesInv

(* Whatever leaves the folders and what the runs have written keeps it.     *)
LEMMA StillFilesInv ==
  ASSUME FilesInv, folders' = folders, DOMAIN runs \subseteq DOMAIN runs',
         \A r \in DOMAIN runs :
           /\ runs'[r].params = runs[r].params /\ runs'[r].done = runs[r].done
           /\ runs'[r].written = runs[r].written /\ runs'[r].made = runs[r].made
           /\ runs'[r].folder = runs[r].folder
           /\ runs'[r].mode = runs[r].mode /\ runs'[r].beside = runs[r].beside
           /\ runs[r].pc = "over" => runs'[r] = runs[r],
         \A r \in DOMAIN runs' \ DOMAIN runs : ~runs'[r].made
  PROVE  FilesInv'
<1>1. \A f \in DOMAIN folders : HasMaker(f) => HasMaker(f)'
  BY DEF HasMaker
<1>2. ASSUME NEW r \in DOMAIN runs', Alone(r)' PROVE FilesFit(r)'
  <2>1. r \in DOMAIN runs /\ runs[r].made
    BY <1>2 DEF Alone
  <2>2. FilesFit(r)
    BY <1>2, <2>1, AloneBefore DEF FilesInv
  <2>3. ASSUME NEW kind
        PROVE  /\ DoneFor(r, kind) => DoneFor(r, kind)'
               /\ RunsBeside(r, kind) => RunsBeside(r, kind)'
    BY <2>1, CalibratedStays
  <2>4. PICK f : f = runs[r].folder
    OBVIOUS
  <2>5. Saved(r, runs'[r], folders[f])
    <3>1. Saved(r, runs[r], folders[f])
      BY <2>2, <2>4 DEF FilesFit
    <3> QED BY <2>1, <3>1, SavedStays
  <2>6. \A kind \in CalibrationKinds :
          folders[f].sidecar # <<>> =>
            /\ folders[f].sidecar.calibration[kind] = "done" => DoneFor(r, kind)'
            /\ folders[f].sidecar.calibration[kind] = "running" => RunsBeside(r, kind)'
    BY <2>2, <2>3, <2>4 DEF FilesFit, CalibratedBy
  <2>7. runs'[r].folder = f
    BY <2>1, <2>4
  <2> QED BY <2>5, <2>6, <2>7 DEF FilesFit, CalibratedBy
<1> QED BY <1>1, <1>2 DEF FilesInv

(* A run that is admitted has no folder yet.                                *)
LEMMA TakesFilesInv ==
  ASSUME LogInv, FilesInv, NEW via, NEW mode, NEW body, NEW p, NEW entry,
         Takes(via, mode, body, p, entry)
  PROVE  FilesInv'
<1>1. PICK n : n = Len(runs) + 1
  OBVIOUS
<1>2. /\ DOMAIN runs' = DOMAIN runs \cup {n} /\ \A r \in DOMAIN runs : runs'[r] = runs[r]
      /\ runs'[n] = NewRun(via, mode, body, p, entry)
  BY <1>1, TakesRuns DEF LogInv
<1>3. ~runs'[n].made
  BY <1>2, NewRunFields
<1>4. folders' = folders
  BY DEF Takes
<1> QED BY <1>2, <1>3, <1>4, StillFilesInv

(* FilesInv is inductive, given what else is known.                         *)
LEMMA NextFilesInv ==
  ASSUME RequestsLegal, Inv, LogInv, OthersFit, PathInv, DataInv, BesideInv, FilesInv, [Next]_vars
  PROVE  FilesInv'
<1>1. CASE \E r \in DOMAIN runs : Step(r)
  BY <1>1, StepFilesInv
<1>2. ASSUME UNCHANGED <<runs, folders>> PROVE FilesInv'
  BY <1>2, StillFilesInv
<1>3. CASE Request
  <2>1. CASE TakesAsked
    BY <2>1, TakesFilesInv DEF TakesAsked
  <2>2. CASE NotesLegal
    BY <1>2, <2>2 DEF NotesLegal
  <2> QED BY <1>3, <2>1, <2>2, RequestLegal DEF DataInv
<1>4. CASE \E e \in jobs : StartJob(e)
  <2>1. PICK e \in jobs : StartJob(e)
    BY <1>4
  <2>2. \/ \E mode, body, p : Takes("schedule", mode, body, p, e)
        \/ UNCHANGED <<runs, folders>>
    BY <2>1, JobLegal DEF DataInv
  <2> QED BY <1>2, <2>2, TakesFilesInv
<1>5. CASE Crash
  <2>1. folders' = folders /\ DOMAIN runs' = DOMAIN runs
    BY <1>5 DEF Crash, disk
  <2>2. ASSUME NEW r \in DOMAIN runs
        PROVE  /\ runs'[r].params = runs[r].params /\ runs'[r].done = runs[r].done
               /\ runs'[r].written = runs[r].written /\ runs'[r].made = runs[r].made
               /\ runs'[r].folder = runs[r].folder
               /\ runs'[r].mode = runs[r].mode /\ runs'[r].beside = runs[r].beside
               /\ runs[r].pc = "over" => runs'[r] = runs[r]
    BY <1>5, CrashedRun DEF LogInv, Given
  <2> QED BY <2>1, <2>2, StillFilesInv
<1>6. CASE SetSavePath \/ calibration_status \/ RequestStop \/ StopReturns \/ UNCHANGED vars
  <2>1. UNCHANGED <<runs, folders>>
    BY <1>6 DEF SetSavePath, calibration_status, RequestStop, StopReturns, disk, vars
  <2> QED BY <1>2, <2>1
<1> QED BY <1>1, <1>3, <1>4, <1>5, <1>6 DEF Next

(* See NextFilesInv.                                                        *)
LEMMA InitFilesInv == Init => FilesInv
<1> SUFFICES ASSUME Init PROVE FilesInv
  OBVIOUS
<1>1. DOMAIN runs = {} /\ DOMAIN folders = {}
  BY DEF Init
<1> QED BY <1>1 DEF FilesInv

-----------------------------------------------------------------------------
(* What the files show.                                                     *)

(* The image of a frame has its counts, those of few bits to a byte.        *)
LEMMA ImageShown ==
  ASSUME LightCounts, NEW r \in Int, Measures(runs[r].params), Sane(runs[r].params),
         NEW i \in Int, NEW s \in Nat,
         runs[r].params.mode = "gated" => s < Asked(runs[r].params)
  PROVE  Shows(r, FrameImage(TruthOf(r, runs[r].params, i, s), runs[r].params.depth), i, s)
<1>1. PICK p : p = runs[r].params
  OBVIOUS
<1>2. PICK offset : offset = IF p.mode = "gated" THEN Offsets(p)[s + 1] ELSE 0
  OBVIOUS
<1>3. offset \in Int
  <2>1. CASE p.mode = "gated"
    <3>1. p.steps \in Int /\ p.size \in Int /\ p.offset \in Int /\ p.arbitrary \in Seq(Int)
      BY <1>1, <2>1 DEF Sane
    <3>2. PICK steps \in Int : /\ Len(Offsets(p)) = (IF steps >= 1 THEN steps ELSE 0)
                               /\ \A k \in 0..(steps - 1) : Offsets(p)[k + 1] \in Int
      BY <3>1, OffsetsFit
    <3>3. s < Len(Offsets(p))
      BY <1>1, <2>1 DEF Asked
    <3>4. s \in 0..(steps - 1)
      BY <3>2, <3>3
    <3> QED BY <1>2, <2>1, <3>2, <3>4
  <2>2. CASE p.mode # "gated"
    BY <1>2, <2>2
  <2> QED BY <2>1, <2>2
<1>4. PICK truth : truth = TruthOf(r, p, i, s)
  OBVIOUS
<1>5. truth = ShownOf(r, p, i, offset) /\ truth = Truth(r, i, s)
  <2>1. truth = ShownOf(r, p, i, offset)
    BY <1>2, <1>4 DEF TruthOf
  <2> QED BY <1>1, <1>4, <2>1, TruthIs
<1>6. PICK depth, pileup, width : depth = p.depth /\ pileup = p.pileup /\ width = p.width
  OBVIOUS
<1>7. IsImage(truth, depth, width, pileup) /\ depth \in IntBitDepths
  <2>1. FrameParams(p)
    BY <1>1, SaneFrames
  <2>2. IsImage(ShownOf(r, p, i, offset), p.depth, p.width, p.pileup)
    BY <1>3, <2>1, OneShown
  <2> QED BY <1>5, <1>6, <2>1, <2>2, Zenon DEF FrameParams
<1>8. PICK n : n = Size(depth, width)
  OBVIOUS
<1>9. DOMAIN truth = 1..n
  BY <1>7, <1>8 DEF IsImage
<1>10. ASSUME NEW px \in 1..n
       PROVE  truth[px] % (IF depth <= 8 THEN 256 ELSE 65536)
                = IF pileup /\ depth <= 8 THEN truth[px] % 256 ELSE truth[px]
  <2>1. PICK v \in Nat : v = truth[px]
    BY <1>7, <1>8 DEF IsImage
  <2>2. v < 65536 /\ (depth <= 8 /\ ~pileup => v < 256)
    BY <1>7, <1>8, <2>1 DEF IsImage
  <2>3. CASE depth <= 8 /\ pileup
    BY <2>1, <2>3
  <2>4. CASE depth <= 8 /\ ~pileup
    <3>1. v % 256 = v
      BY <2>2, <2>4
    <3> QED BY <2>1, <2>4, <3>1
  <2>5. CASE ~(depth <= 8)
    <3>1. v % 65536 = v
      BY <2>2
    <3> QED BY <2>1, <2>5, <3>1
  <2> QED BY <2>3, <2>4, <2>5
<1>11. FrameImage(truth, depth)
         = [px \in DOMAIN truth |-> IF pileup /\ depth <= 8 THEN truth[px] % 256 ELSE truth[px]]
  BY <1>9, <1>10 DEF FrameImage
<1> QED BY <1>1, <1>4, <1>5, <1>6, <1>11 DEF Shows

(* The file of each frame has the counts its text says.                     *)
FileOf(r, k) ==
  ImageFile(FrameOf(r, runs[r].params, runs[r].done, k), k - 1, runs[r].params.depth,
            GateStepsOf(runs[r]))

LEMMA FileShown ==
  ASSUME LightCounts, NEW r \in Int, Measures(runs[r].params), Sane(runs[r].params),
         runs[r].done \in Nat \ {0}, runs[r].done <= Asked(runs[r].params),
         NEW k \in 1..FramesOf(runs[r].params, runs[r].done)
  PROVE  /\ Shows(r, FileOf(r, k).counts, FileOf(r, k).frame, FileOf(r, k).step)
         /\ runs[r].params.mode = "gated" =>
              FileOf(r, k).frame = (k - 1) \div runs[r].done /\ FileOf(r, k).step = (k - 1) % runs[r].done
         /\ runs[r].params.mode # "gated" => FileOf(r, k).frame = k - 1 /\ FileOf(r, k).step = 0
<1>1. PICK p : p = runs[r].params
  OBVIOUS
<1>2. PICK done \in Nat \ {0} : done = runs[r].done /\ done <= Asked(p)
  BY <1>1
<1>3. PICK n \in Nat : n = p.iterations
  BY <1>1, SaneFrames
<1>4. Asked(p) \in Nat
  BY <1>1, SaneFrames
<1>5. PICK file : file = FileOf(r, k)
  OBVIOUS
<1>6. CASE p.mode = "gated"
  <2>1. k \in 1..(n * done)
    BY <1>1, <1>2, <1>3, <1>6 DEF FramesOf
  <2>2. (k - 1) \div done \in 0..(n - 1) /\ (k - 1) % done \in 0..(done - 1)
    BY <2>1, RowAndColumn
  <2>3. PICK i \in Nat, s \in Nat : i = (k - 1) \div done /\ s = (k - 1) % done /\ s < done
    BY <2>2
  <2>4. s < Asked(p)
    BY <1>2, <1>4, <2>3
  <2>5. FrameOf(r, p, done, k) = TruthOf(r, p, i, s)
    BY <1>6, <2>3, Zenon DEF FrameOf
  <2>6. file.counts = FrameImage(TruthOf(r, p, i, s), p.depth) /\ file.frame = i /\ file.step = s
    BY <1>1, <1>2, <1>5, <1>6, <2>3, <2>5 DEF FileOf, ImageFile, GateStepsOf
  <2>7. Shows(r, FrameImage(TruthOf(r, p, i, s), p.depth), i, s)
    BY <1>1, <2>4, ImageShown
  <2>8. Shows(r, file.counts, file.frame, file.step)
    BY <2>6, <2>7, Zenon
  <2> QED BY <1>1, <1>2, <1>5, <1>6, <2>3, <2>6, <2>8
<1>7. CASE p.mode # "gated"
  <2>1. k - 1 \in Int
    OBVIOUS
  <2>2. PICK i \in Int : i = k - 1
    BY <2>1
  <2>3. file.counts = FrameImage(TruthOf(r, p, i, 0), p.depth) /\ file.frame = i /\ file.step = 0
    BY <1>1, <1>2, <1>5, <1>7, <2>2 DEF FileOf, ImageFile, GateStepsOf, FrameOf
  <2>4. Shows(r, FrameImage(TruthOf(r, p, i, 0), p.depth), i, 0)
    BY <1>1, <1>7, ImageShown
  <2>5. Shows(r, file.counts, file.frame, file.step)
    BY <2>3, <2>4, Zenon
  <2> QED BY <1>1, <1>5, <1>7, <2>2, <2>3, <2>5
<1> QED BY <1>6, <1>7

(* What is known of the folder of a run that has it alone.                  *)
LEMMA FolderIs ==
  ASSUME Inv, LogInv, DataInv, FilesInv, NEW r \in DOMAIN runs, Alone(r)
  PROVE  LET p == runs[r].params
             w == runs[r].written
             folder == folders[runs[r].folder]
         IN  /\ r \in Int /\ Measures(p) /\ Sane(p) /\ Counted(runs[r]) /\ FilesFit(r)
             /\ runs[r].done \in Nat \ {0} /\ runs[r].done <= Asked(p)
             /\ p.iterations \in Nat \ {0} /\ FramesOf(p, runs[r].done) \in Nat \ {0}
             /\ w \in Nat /\ w <= FramesOf(p, runs[r].done)
             /\ DOMAIN folder.images = 1..w /\ Len(folder.images) = w
             /\ \A k \in 1..w : folder.images[k] = FileOf(r, k)
             /\ p.mode = "gated" => Asked(p) = EffectiveSteps(p)
             /\ runs[r].pc \notin Taking
<1>1. DataFits(r, runs[r]) /\ runs[r].made /\ FilesFit(r) /\ FolderFits(r)
  BY DEF DataInv, FilesInv, Alone, Inv
<1>2. DOMAIN runs = 1..Len(runs) /\ Len(runs) \in Nat
  BY SeqDomain DEF LogInv, RunsFull
<1>3. PICK p : p = runs[r].params
  OBVIOUS
<1>4. /\ Measures(p) /\ Sane(p) /\ Counted(runs[r])
      /\ p.iterations \in Nat /\ runs[r].done \in Nat /\ runs[r].written \in Nat
      /\ FramesOf(p, runs[r].done) \in Nat
      /\ runs[r].done >= 1 /\ p.iterations >= 1 => FramesOf(p, runs[r].done) >= 1
  BY <1>1, <1>3, Measured
<1>5. runs[r].done >= 1 /\ p.iterations >= 1 /\ runs[r].done <= Asked(p)
  BY <1>1, <1>3, <1>4 DEF Counted
<1>a. PICK images : images = folders[runs[r].folder].images
  OBVIOUS
<1>b. PICK w \in Nat : w = runs[r].written
  BY <1>4
<1>6. images = folders[runs[r].folder].images /\ w = runs[r].written
  BY <1>a, <1>b
<1>7. images = [k \in 1..w |-> FileOf(r, k)] /\ w <= FramesOf(p, runs[r].done)
  BY <1>1, <1>3, <1>6 DEF FilesFit, Saved, FileOf
<1>8. DOMAIN images = 1..w /\ \A k \in 1..w : images[k] = FileOf(r, k)
  BY <1>7
<1>9. Len(images) = w
  <2>1. images = [k \in 1..w |-> images[k]]
    BY <1>7
  <2> QED BY <2>1, SeqOfLength
<1>10. p.mode = "gated" => Asked(p) = EffectiveSteps(p)
  <2>1. SUFFICES ASSUME p.mode = "gated" PROVE Asked(p) = EffectiveSteps(p)
    OBVIOUS
  <2>2. p.steps \in Int /\ p.size \in Int /\ p.offset \in Int /\ p.arbitrary \in Seq(Int)
    BY <1>4, <2>1 DEF Sane
  <2>3. PICK steps \in Int : /\ steps = EffectiveSteps(p)
                             /\ Len(Offsets(p)) = (IF steps >= 1 THEN steps ELSE 0)
    BY <2>2, OffsetsFit
  <2>4. Asked(p) >= 1 /\ Asked(p) = Len(Offsets(p))
    BY <1>4, <1>5, <2>1, SaneFrames DEF Asked
  <2> QED BY <2>3, <2>4
<1>11. runs[r].pc \notin Taking
  BY <1>1 DEF FolderFits
<1>12. /\ r \in Int /\ runs[r].done \in Nat \ {0} /\ p.iterations \in Nat \ {0}
       /\ FramesOf(p, runs[r].done) \in Nat \ {0}
  BY <1>2, <1>4, <1>5
<1> QED BY <1>1, <1>3, <1>4, <1>5, <1>6, <1>7, <1>8, <1>9, <1>10, <1>11, <1>12

(* The invariants are more than what is to be shown of the files.           *)
LEMMA FilesShown ==
  ASSUME LightCounts, Inv, LogInv, DataInv, FilesInv
  PROVE  FilesAreMeasured
<1> SUFFICES ASSUME NEW r \in DOMAIN runs, Alone(r)
             PROVE  LET folder == folders[runs[r].folder]
                    IN  /\ \A k \in DOMAIN folder.images :
                             Shows(r, folder.images[k].counts, folder.images[k].frame,
                                   folder.images[k].step)
                        /\ folder.sidecar # <<>> =>
                             /\ folder.sidecar.params = SidecarParams(runs[r].params)
                             /\ folder.sidecar.frames = Len(folder.images)
                             /\ runs[r].status = "done" =>
                                  Len(folder.images) = folder.sidecar.params.iterations
                                    * (IF runs[r].params.mode = "gated"
                                       THEN folder.sidecar.params.steps ELSE 1)
                             /\ \A kind \in CalibrationKinds :
                                  LET asked == {c \in DOMAIN runs : runs[c].mode = kind}
                                  IN  /\ folder.sidecar.calibration[kind] = "done" =>
                                           kind = "breakdown"
                                             \/ \E c \in asked : /\ runs[c].status = "done"
                                                                /\ (c < r \/ Together(c, r))
                                      /\ folder.sidecar.calibration[kind] = "running" =>
                                           \E c \in asked : Together(c, r)
  BY Zenon DEF FilesAreMeasured
<1>1. PICK p, folder, w, done :
        /\ p = runs[r].params /\ folder = folders[runs[r].folder]
        /\ w = runs[r].written /\ done = runs[r].done
  OBVIOUS
<1>2. /\ r \in Int /\ Measures(p) /\ Sane(p) /\ Counted(runs[r]) /\ FilesFit(r)
      /\ done \in Nat \ {0} /\ done <= Asked(p)
      /\ w \in Nat /\ w <= FramesOf(p, done) /\ FramesOf(p, done) \in Nat
      /\ DOMAIN folder.images = 1..w /\ Len(folder.images) = w
      /\ \A k \in 1..w : folder.images[k] = FileOf(r, k)
      /\ p.mode = "gated" => Asked(p) = EffectiveSteps(p)
      /\ runs[r].pc \notin Taking
  BY <1>1, FolderIs
<1>3. ASSUME NEW k \in DOMAIN folder.images
      PROVE  Shows(r, folder.images[k].counts, folder.images[k].frame, folder.images[k].step)
  <2>1. k \in 1..w /\ k \in 1..FramesOf(p, done)
    BY <1>2, <1>3
  <2>2. Shows(r, FileOf(r, k).counts, FileOf(r, k).frame, FileOf(r, k).step)
    BY <1>1, <1>2, <2>1, FileShown
  <2>3. folder.images[k] = FileOf(r, k)
    BY <1>2, <2>1
  <2> QED BY <2>2, <2>3, Zenon
<1>4. ASSUME folder.sidecar # <<>>
      PROVE  /\ folder.sidecar.params = SidecarParams(p) /\ folder.sidecar.frames = w
             /\ w = FramesOf(p, done)
             /\ \A kind \in CalibrationKinds :
                  CalibratedBy(r, kind, folder.sidecar.calibration[kind])
  BY <1>1, <1>2, <1>4 DEF FilesFit, Saved
<1>5. ASSUME folder.sidecar # <<>>, runs[r].status = "done"
      PROVE  w = folder.sidecar.params.iterations
                   * (IF p.mode = "gated" THEN folder.sidecar.params.steps ELSE 1)
  <2>1. done = Asked(p)
    BY <1>1, <1>2, <1>5 DEF Counted, Taking
  <2>2. w = FramesOf(p, done) /\ folder.sidecar.params = SidecarParams(p)
    BY <1>4, <1>5
  <2>3. CASE p.mode = "gated"
    <3>1. {"iterations", "steps", "arbitrary"} \subseteq DOMAIN p
      BY <1>2, <2>3 DEF Sane
    <3>2. /\ folder.sidecar.params.iterations = p.iterations
          /\ folder.sidecar.params.steps = EffectiveSteps(p)
      BY <2>2, <2>3, <3>1 DEF SidecarParams, GatedSidecar, EffectiveSteps
    <3> QED BY <1>2, <2>1, <2>2, <2>3, <3>2 DEF FramesOf
  <2>4. CASE p.mode # "gated"
    <3>1. "iterations" \in DOMAIN p /\ p.iterations \in Nat
      BY <1>2, <2>4 DEF Sane, Measures
    <3>2. folder.sidecar.params.iterations = p.iterations
      BY <2>2, <2>4, <3>1 DEF SidecarParams, IntensitySidecar
    <3>3. w = p.iterations
      BY <2>1, <2>2, <2>4 DEF FramesOf, Asked
    <3> QED BY <2>4, <3>1, <3>2, <3>3
  <2> QED BY <2>3, <2>4
<1>6. ASSUME NEW kind, NEW state, CalibratedBy(r, kind, state)
      PROVE  LET asked == {c \in DOMAIN runs : runs[c].mode = kind}
             IN  /\ state = "done" =>
                      kind = "breakdown"
                        \/ \E c \in asked : /\ runs[c].status = "done"
                                           /\ (c < r \/ Together(c, r))
                 /\ state = "running" => \E c \in asked : Together(c, r)
  BY <1>6 DEF CalibratedBy, DoneFor, RunsBeside
<1>7. ASSUME folder.sidecar # <<>>, NEW kind \in CalibrationKinds
      PROVE  LET asked == {c \in DOMAIN runs : runs[c].mode = kind}
             IN  /\ folder.sidecar.calibration[kind] = "done" =>
                      kind = "breakdown"
                        \/ \E c \in asked : /\ runs[c].status = "done"
                                           /\ (c < r \/ Together(c, r))
                 /\ folder.sidecar.calibration[kind] = "running" => \E c \in asked : Together(c, r)
  <2>1. CalibratedBy(r, kind, folder.sidecar.calibration[kind])
    BY <1>4, <1>7
  <2> QED BY <1>6, <2>1
<1> QED BY <1>1, <1>2, <1>3, <1>4, <1>5, <1>7

(* The invariants are more than what is to be shown of the curves.          *)
LEMMA CurvesShown ==
  ASSUME LightCounts, Inv, LogInv, DataInv, FilesInv
  PROVE  CurvesAreMeasured
<1> SUFFICES ASSUME NEW r \in DOMAIN runs, Alone(r), runs[r].done = GateStepsAsked(r),
                    folders[runs[r].folder].movie # <<>>
             PROVE  CurvesOf(r)
  BY DEF CurvesAreMeasured, CurvesOf
<1>1. PICK p, folder, w : /\ p = runs[r].params /\ folder = folders[runs[r].folder]
                          /\ w = runs[r].written
  OBVIOUS
<1>2. PICK done \in Nat \ {0} : done = runs[r].done
  BY FolderIs
<1>3. PICK n \in Nat \ {0} : n = p.iterations
  BY <1>1, FolderIs
<1>4. /\ r \in Int /\ Measures(p) /\ Sane(p) /\ FilesFit(r) /\ done <= Asked(p)
      /\ FramesOf(p, done) \in Nat \ {0}
      /\ w \in Nat /\ DOMAIN folder.images = 1..w /\ Len(folder.images) = w
      /\ \A k \in 1..w : folder.images[k] = FileOf(r, k)
  BY <1>1, <1>2, FolderIs
<1>5. Saved(r, runs[r], folder)
  BY <1>1, <1>4 DEF FilesFit
<1>6. w = FramesOf(p, done) /\ folder.movie = reduce_folder(folder)
  BY <1>1, <1>2, <1>5 DEF Saved
<1>7. PICK meta, movie : meta = folder.meta /\ movie = folder.movie
  OBVIOUS
<1>8. meta = MetadataOf(runs[r])
  BY <1>1, <1>4, <1>5, <1>6, <1>7 DEF Saved
<1>9. ASSUME ExpectedFrames(meta) = w
      PROVE  movie = [k \in 1..w |-> FileOf(r, k).counts]
  BY <1>4, <1>6, <1>7, <1>9 DEF reduce_folder
<1>10. ASSUME NEW k \in 1..w
       PROVE  /\ Shows(r, FileOf(r, k).counts, FileOf(r, k).frame, FileOf(r, k).step)
              /\ p.mode = "gated" =>
                   FileOf(r, k).frame = (k - 1) \div done /\ FileOf(r, k).step = (k - 1) % done
              /\ p.mode # "gated" => FileOf(r, k).frame = k - 1 /\ FileOf(r, k).step = 0
  BY <1>1, <1>2, <1>4, <1>6, FileShown
<1>11. CASE p.mode = "gated"
  <2>1. done = EffectiveSteps(p) /\ w = n * done
    BY <1>1, <1>2, <1>3, <1>6, <1>11 DEF GateStepsAsked, FramesOf
  <2>2. meta.Frames = n /\ meta.GateSteps = done /\ "GateSteps" \in DOMAIN meta
    BY <1>1, <1>3, <1>8, <1>11, <2>1 DEF MetadataOf, build_png_metadata
  <2>3. ExpectedFrames(meta) = w
    BY <2>1, <2>2 DEF ExpectedFrames
  <2>4. movie = [k \in 1..w |-> FileOf(r, k).counts]
    BY <1>9, <2>3
  <2>5. ASSUME NEW s \in 0..(done - 1), NEW i \in 1..n
        PROVE  /\ (i - 1) * done + s + 1 \in DOMAIN movie
               /\ Shows(r, GateFrames(meta, movie, s)[i], i - 1, s)
    <3>1. PICK a \in 0..(n - 1) : a = i - 1
      OBVIOUS
    <3>2. PICK m \in Nat : m = a * done + s /\ m < n * done
      <4>1. PICK d \in Nat : d = n - 1 - a
        OBVIOUS
      <4>2. n * done = (a + 1 + d) * done
        BY <4>1
      <4>3. (a + 1 + d) * done = a * done + done + d * done
        OBVIOUS
      <4>4. a * done \in Nat /\ d * done \in Nat
        OBVIOUS
      <4> QED BY <4>2, <4>3, <4>4
    <3>3. (m \div done) = a /\ (m % done) = s
      BY <3>2, DivMod
    <3>4. PICK k \in 1..w : k = m + 1 /\ k - 1 = m
      <4>1. PICK v \in Nat : v = w
        BY <1>4
      <4>2. m < v
        BY <2>1, <3>2, <4>1
      <4>3. m + 1 \in 1..v /\ (m + 1) - 1 = m
        BY <4>2
      <4> QED BY <4>1, <4>3
    <3>5. FileOf(r, k).frame = a /\ FileOf(r, k).step = s
      BY <1>10, <1>11, <3>3, <3>4
    <3>6. Shows(r, FileOf(r, k).counts, a, s)
      <4>1. Shows(r, FileOf(r, k).counts, FileOf(r, k).frame, FileOf(r, k).step)
        BY <1>10
      <4> QED BY <3>5, <4>1, Zenon
    <3>7. (i - 1) * done + s + 1 = k
      BY <3>1, <3>2, <3>4
    <3>8. GateFrames(meta, movie, s)[i] = movie[k]
      BY <2>2, <3>7 DEF GateFrames
    <3>9. movie[k] = FileOf(r, k).counts /\ k \in DOMAIN movie
      BY <2>4
    <3> QED BY <3>1, <3>6, <3>7, <3>8, <3>9
  <2> QED BY <1>1, <1>7, <1>11, <2>2, <2>5 DEF CurvesOf
<1>12. CASE p.mode # "gated"
  <2>1. w = done
    BY <1>6, <1>12 DEF FramesOf
  <2>2. meta.Frames = done /\ "GateSteps" \notin DOMAIN meta
    BY <1>1, <1>2, <1>8, <1>12 DEF MetadataOf, build_png_metadata
  <2>3. ExpectedFrames(meta) = w
    BY <2>1, <2>2 DEF ExpectedFrames
  <2>4. movie = [k \in 1..w |-> FileOf(r, k).counts]
    BY <1>9, <2>3
  <2>5. Len(movie) = w
    <3>1. movie = [k \in 1..w |-> movie[k]]
      BY <2>4
    <3> QED BY <1>4, <3>1, SeqOfLength
  <2>6. ASSUME NEW i \in DOMAIN movie PROVE Shows(r, movie[i], i - 1, 0)
    <3>1. i \in 1..w /\ movie[i] = FileOf(r, i).counts
      BY <2>4
    <3>2. /\ Shows(r, FileOf(r, i).counts, FileOf(r, i).frame, FileOf(r, i).step)
          /\ FileOf(r, i).frame = i - 1 /\ FileOf(r, i).step = 0
      BY <1>10, <1>12, <3>1
    <3> QED BY <3>1, <3>2, Zenon
  <2> QED BY <1>1, <1>7, <1>12, <2>1, <2>2, <2>5, <2>6 DEF CurvesOf
<1> QED BY <1>11, <1>12

-----------------------------------------------------------------------------
(* What is shown.                                                           *)

(* All that is known of the runs, the log, the folders and the files.       *)
WholeInv == Inv /\ LogInv /\ OthersFit /\ PathInv /\ DataInv /\ BesideInv /\ FilesInv

(* WholeInv is inductive.                                                   *)
LEMMA InitWholeInv == Init => WholeInv
<1>1. Init => OthersFit
  BY DEF Init, OthersFit
<1> QED
  BY <1>1, InitInv, InitLogInv, InitPathInv, InitDataInv, InitBesideInv, InitFilesInv DEF WholeInv

(* See InitWholeInv.                                                        *)
LEMMA NextWholeInv ==
  ASSUME LightCounts, RequestsLegal, WholeInv, [Next]_vars PROVE WholeInv'
BY NextInv, NextLogInv, NextOthers, NextPathInv, NextDataInv, NextBesideInv, NextFilesInv DEF WholeInv

(* Every file a run saves to a folder of its own has the counts that the    *)
(* vendor's client would show of the iteration and the gate step its text   *)
(* says, in whatever batches, sweep or steps they came; the sidecar counts  *)
(* the files and says no more of the calibrations than is true.  So it is   *)
(* for every size of the sensor and of a batch, any light, any number of    *)
(* requests the camera can serve, stops and restarts at any time.           *)
(* (commands, decoder, _acquire_io, _paced_gated_io, save_acquisition)      *)
THEOREM FilesMeasured == LightCounts /\ RequestsLegal /\ Spec => []FilesAreMeasured
<1> SUFFICES ASSUME LightCounts, RequestsLegal PROVE Spec => []FilesAreMeasured
  OBVIOUS
<1>1. WholeInv /\ [Next]_vars => WholeInv'
  BY NextWholeInv
<1>2. WholeInv => FilesAreMeasured
  BY FilesShown DEF WholeInv
<1> QED BY <1>1, <1>2, InitWholeInv, PTL DEF Spec

(* The movie the reducer makes of such a folder, read as the analysis       *)
(* scripts read it, gives for each gate step the counts of every iteration  *)
(* taken at that offset, unless the run was stopped half way through its    *)
(* steps.  (reduce_folder, build_png_metadata, analyse_traces.py)           *)
THEOREM CurvesMeasured == LightCounts /\ RequestsLegal /\ Spec => []CurvesAreMeasured
<1> SUFFICES ASSUME LightCounts, RequestsLegal PROVE Spec => []CurvesAreMeasured
  OBVIOUS
<1>1. WholeInv /\ [Next]_vars => WholeInv'
  BY NextWholeInv
<1>2. WholeInv => CurvesAreMeasured
  BY CurvesShown DEF WholeInv
<1> QED BY <1>1, <1>2, InitWholeInv, PTL DEF Spec

-----------------------------------------------------------------------------
(* What the repeats of a dark measurement give.                             *)

AtMost(values, v) == {i \in DOMAIN values : values[i] <= v}
Below(values, v) == {i \in DOMAIN values : values[i] < v}

(* So many of the values there are.                                         *)
LEMMA CountedValues ==
  ASSUME NEW n \in Nat, NEW S \in SUBSET (1..n)
  PROVE  /\ IsFiniteSet(S) /\ Cardinality(S) \in Nat
         /\ \A T \in SUBSET S : IsFiniteSet(T) /\ Cardinality(T) \in Nat
                                /\ Cardinality(T) <= Cardinality(S)
         /\ Cardinality((1..n) \ S) = n - Cardinality(S)
<1>1. IsFiniteSet(1..n) /\ Cardinality(1..n) = n
  BY FS_Interval
<1>2. IsFiniteSet(S) /\ Cardinality(S) \in Nat
  BY <1>1, FS_Subset, FS_CardinalityType
<1>3. ASSUME NEW T \in SUBSET S
      PROVE  IsFiniteSet(T) /\ Cardinality(T) \in Nat /\ Cardinality(T) <= Cardinality(S)
  BY <1>2, FS_Subset, FS_CardinalityType
<1>4. Cardinality((1..n) \ S) = n - Cardinality(S)
  <2>1. (1..n) \cap S = S
    OBVIOUS
  <2>2. Cardinality((1..n) \ S) = Cardinality(1..n) - Cardinality((1..n) \cap S)
    BY <1>1, FS_Difference
  <2> QED BY <1>1, <2>1, <2>2
<1> QED BY <1>2, <1>3, <1>4

(* There is a k-th smallest value.                                          *)
LEMMA SmallestIs ==
  ASSUME NEW bound \in Nat, NEW n \in Nat \ {0}, NEW values \in [1..n -> 0..bound],
         NEW k \in 1..n
  PROVE  LET v == Smallest(values, k)
         IN  /\ v \in Nat
             /\ Cardinality(Below(values, v)) < k /\ Cardinality(AtMost(values, v)) >= k
<1> DEFINE T == {v \in Nat : Cardinality(AtMost(values, v)) >= k}
<1>1. bound \in T
  <2>1. AtMost(values, bound) = 1..n
    BY DEF AtMost
  <2>2. Cardinality(1..n) = n
    BY FS_Interval
  <2> QED BY <2>1, <2>2
<1>2. PICK v \in T : \A m \in T : v <= m
  <2>1. T \in SUBSET Nat /\ T # {}
    BY <1>1
  <2> HIDE DEF T
  <2> QED BY <2>1, Least
<1>3. Cardinality(AtMost(values, v)) >= k /\ v \in Nat
  OBVIOUS
<1>4. Cardinality(Below(values, v)) < k
  <2>1. CASE v = 0
    <3>1. Below(values, v) = {}
      BY <2>1 DEF Below
    <3> QED BY <3>1, FS_EmptySet
  <2>2. CASE v # 0
    <3>1. v - 1 \in Nat /\ v - 1 \notin T
      BY <1>2, <2>2
    <3>2. Below(values, v) = AtMost(values, v - 1)
      BY <1>3 DEF Below, AtMost
    <3>3. Cardinality(AtMost(values, v - 1)) \in Nat
      <4>1. AtMost(values, v - 1) \in SUBSET (1..n)
        BY DEF AtMost
      <4> QED BY <4>1, CountedValues
    <3> QED BY <3>1, <3>2, <3>3
  <2> QED BY <2>1, <2>2
<1>5. \E i \in DOMAIN values : values[i] = v
  <2>1. SUFFICES ASSUME \A i \in DOMAIN values : values[i] # v PROVE FALSE
    OBVIOUS
  <2>2. AtMost(values, v) = Below(values, v)
    BY <1>3, <2>1 DEF AtMost, Below
  <2>3. Cardinality(Below(values, v)) \in Nat
    <3>1. Below(values, v) \in SUBSET (1..n)
      BY DEF Below
    <3> QED BY <3>1, CountedValues
  <2> QED BY <1>3, <1>4, <2>2, <2>3
<1> DEFINE IsKth(u) == /\ Cardinality({i \in DOMAIN values : values[i] < u}) < k
                       /\ Cardinality({i \in DOMAIN values : values[i] <= u}) >= k
           found == CHOOSE u \in {values[i] : i \in DOMAIN values} : IsKth(u)
<1>6. v \in {values[i] : i \in DOMAIN values} /\ IsKth(v)
  BY <1>3, <1>4, <1>5 DEF AtMost, Below
<1>7. found \in {values[i] : i \in DOMAIN values} /\ IsKth(found)
  <2> HIDE DEF IsKth
  <2> QED BY <1>6
<1>8. Smallest(values, k) = found
  BY DEF Smallest
<1>9. found \in Nat
  <2> HIDE DEF found
  <2> QED BY <1>7
<1> HIDE DEF found
<1> QED BY <1>7, <1>8, <1>9 DEF AtMost, Below

(* What the dark count of three repeats and more is.                        *)
LEMMA DarkOfMany ==
  ASSUME NEW twice, NEW counts, ~ (Len(counts) < 3),
         2 * Cardinality({i \in DOMAIN counts : 2 * counts[i] <= twice}) >= Len(counts),
         2 * Cardinality({i \in DOMAIN counts : 2 * counts[i] >= twice}) >= Len(counts)
  PROVE  IsDark(twice, counts)
BY Zenon DEF IsDark

(* Half the values are no larger than the median, half no smaller.          *)
LEMMA MedianIsDark ==
  ASSUME NEW bound \in Nat, NEW n \in Nat \ {0, 1, 2}, NEW values \in [1..n -> 0..bound],
         Len(values) = n
  PROVE  Median2(values) \in Nat /\ IsDark(Median2(values), values)
<1>1. PICK k \in 1..n, l \in 1..n : k = (n + 1) \div 2 /\ l = n \div 2 + 1
  OBVIOUS
<1>2. k <= l /\ 2 * k >= n /\ 2 * (n - l + 1) >= n
  BY <1>1
<1>3. PICK a : a = Smallest(values, k)
  OBVIOUS
<1>4. PICK b : b = Smallest(values, l)
  OBVIOUS
<1>5. /\ a \in Nat /\ Cardinality(Below(values, a)) < k /\ Cardinality(AtMost(values, a)) >= k
  BY <1>3, SmallestIs
<1>6. /\ b \in Nat /\ Cardinality(Below(values, b)) < l /\ Cardinality(AtMost(values, b)) >= l
  BY <1>4, SmallestIs
<1>7. Median2(values) = a + b
  BY <1>1, <1>3, <1>4 DEF Median2
<1>8. DOMAIN values = 1..n /\ \A i \in 1..n : values[i] \in Nat
  OBVIOUS
<1>9. \A v : Below(values, v) \in SUBSET (1..n) /\ AtMost(values, v) \in SUBSET (1..n)
  BY DEF Below, AtMost
<1>10. \A v : Cardinality(Below(values, v)) \in Nat /\ Cardinality(AtMost(values, v)) \in Nat
  BY <1>9, CountedValues
<1>11. a <= b
  <2>1. SUFFICES ASSUME b < a PROVE FALSE
    BY <1>5, <1>6
  <2>2. AtMost(values, b) \in SUBSET Below(values, a)
    BY <1>5, <1>6, <1>8, <2>1 DEF AtMost, Below
  <2>3. Cardinality(AtMost(values, b)) <= Cardinality(Below(values, a))
    BY <1>9, <2>2, CountedValues
  <2> QED BY <1>2, <1>5, <1>6, <1>10, <2>3
<1> DEFINE low == {i \in DOMAIN values : 2 * values[i] <= a + b}
           high == {i \in DOMAIN values : 2 * values[i] >= a + b}
<1>12. 2 * Cardinality(low) >= n
  <2>1. AtMost(values, a) \in SUBSET low /\ low \in SUBSET (1..n)
    <3>1. ASSUME NEW i \in 1..n, values[i] <= a PROVE 2 * values[i] <= a + b
      BY <1>5, <1>6, <1>8, <1>11, <3>1
    <3> QED BY <1>8, <3>1 DEF AtMost
  <2>2. Cardinality(AtMost(values, a)) <= Cardinality(low) /\ Cardinality(low) \in Nat
    <3> HIDE DEF low
    <3> QED BY <2>1, CountedValues
  <2> HIDE DEF low
  <2> QED BY <1>2, <1>5, <1>10, <2>2
<1>13. 2 * Cardinality(high) >= n
  <2>1. (1..n) \ Below(values, b) \in SUBSET high /\ high \in SUBSET (1..n)
    <3>1. ASSUME NEW i \in 1..n, ~ (values[i] < b) PROVE 2 * values[i] >= a + b
      <4>1. PICK v \in Nat : v = values[i]
        BY <1>8
      <4>2. b <= v
        BY <1>6, <3>1, <4>1
      <4> QED BY <1>5, <1>6, <1>11, <4>1, <4>2
    <3> QED BY <1>8, <3>1 DEF Below
  <2>2. /\ Cardinality((1..n) \ Below(values, b)) <= Cardinality(high)
        /\ Cardinality(high) \in Nat
    <3> HIDE DEF high
    <3> QED BY <2>1, CountedValues
  <2>3. Cardinality((1..n) \ Below(values, b)) = n - Cardinality(Below(values, b))
    BY <1>9, CountedValues
  <2> HIDE DEF high
  <2> QED BY <1>2, <1>6, <1>10, <2>2, <2>3
<1>14. ~(n < 3)
  OBVIOUS
<1>15. Median2(values) \in Nat
  BY <1>5, <1>6, <1>7
<1>16. ASSUME NEW twice, twice = a + b PROVE IsDark(twice, values)
  <2>1. /\ low = {i \in DOMAIN values : 2 * values[i] <= twice}
        /\ high = {i \in DOMAIN values : 2 * values[i] >= twice}
    BY <1>16
  <2> HIDE DEF low, high
  <2>2. ~ (Len(values) < 3) /\ 2 * Cardinality(low) >= Len(values)
        /\ 2 * Cardinality(high) >= Len(values)
    BY <1>12, <1>13, <1>14
  <2> QED BY <2>1, <2>2, DarkOfMany
<1> QED BY <1>7, <1>15, <1>16

Chosen(s) == CHOOSE x \in s : TRUE

Sums(f, values) ==
  f = [s \in SUBSET DOMAIN values |->
         IF s = {} THEN 0 ELSE values[Chosen(s)] + f[s \ {Chosen(s)}]]

(* One value or two have a sum.                                             *)
LEMMA SumOfFew ==
  ASSUME NEW n \in {1, 2}, NEW values \in [1..n -> Nat]
  PROVE  FoldSeq(LAMBDA a, b : a + b, 0, values) \in Nat
<1> DEFINE part(s, i) == IF i \in s THEN values[i] ELSE 0
           total == [s \in SUBSET (1..n) |-> part(s, 1) + (IF n = 2 THEN part(s, 2) ELSE 0)]
<1>1. DOMAIN values = 1..n /\ (n = 1 => 1..n = {1}) /\ (n = 2 => 1..n = {1, 2})
  OBVIOUS
<1>2. values[1] \in Nat /\ (n = 2 => values[2] \in Nat)
  BY <1>1
<1>3. \A s : s # {} => Chosen(s) \in s
  BY DEF Chosen
<1>4. Sums(total, values)
  <2>1. ASSUME NEW s \in SUBSET (1..n), s # {}
        PROVE  total[s] = values[Chosen(s)] + total[s \ {Chosen(s)}]
    <3>1. PICK x \in s : x = Chosen(s)
      BY <1>3, <2>1
    <3>2. x \in 1..n /\ (s \ {x}) \in SUBSET (1..n)
      OBVIOUS
    <3>3. total[s] = part(s, 1) + (IF n = 2 THEN part(s, 2) ELSE 0)
      OBVIOUS
    <3>4. total[s \ {x}] = part(s \ {x}, 1) + (IF n = 2 THEN part(s \ {x}, 2) ELSE 0)
      BY <3>2
    <3>5. CASE x = 1
      BY <1>1, <1>2, <3>1, <3>2, <3>3, <3>4, <3>5
    <3>6. CASE x = 2 /\ n = 2
      BY <1>1, <1>2, <3>1, <3>2, <3>3, <3>4, <3>6
    <3> QED BY <1>1, <3>2, <3>5, <3>6
  <2>2. total[{}] = 0
    OBVIOUS
  <2>3. total = [s \in SUBSET (1..n) |-> total[s]]
    OBVIOUS
  <2> HIDE DEF total
  <2>4. total = [s \in SUBSET (1..n) |->
                   IF s = {} THEN 0 ELSE values[Chosen(s)] + total[s \ {Chosen(s)}]]
    BY <2>1, <2>2, <2>3
  <2> QED BY <1>1, <2>4 DEF Sums
<1> HIDE DEF total
<1>5. PICK f : f = CHOOSE g : Sums(g, values)
  OBVIOUS
<1>6. Sums(f, values)
  BY <1>4, <1>5
<1>7. FoldSeq(LAMBDA a, b : a + b, 0, values) = f[DOMAIN values]
  BY <1>5 DEF FoldSeq, FoldFunction, FoldFunctionOnSet, MapThenFoldSet, Sums, Chosen
<1>8. \A s \in SUBSET (1..n) :
        f[s] = IF s = {} THEN 0 ELSE values[Chosen(s)] + f[s \ {Chosen(s)}]
  BY <1>1, <1>6 DEF Sums
<1>9. \A i \in 1..n : f[{i}] \in Nat
  <2> TAKE i \in 1..n
  <2>1. Chosen({i}) = i /\ {i} \ {i} = {}
    BY <1>3
  <2>2. f[{i}] = values[i] + f[{}] /\ f[{}] = 0
    BY <1>8, <2>1
  <2> QED BY <2>2
<1>10. f[1..n] \in Nat
  <2>1. CASE n = 1
    BY <1>1, <1>9, <2>1
  <2>2. CASE n = 2
    <3>1. PICK x \in 1..n : x = Chosen(1..n)
      BY <1>1, <1>3, <2>2
    <3>2. PICK y \in 1..n : (1..n) \ {x} = {y}
      BY <1>1, <2>2
    <3>3. f[1..n] = values[x] + f[{y}]
      BY <1>8, <3>1, <3>2
    <3> QED BY <1>9, <3>3
  <2> QED BY <2>1, <2>2
<1> QED BY <1>1, <1>7, <1>10, Zenon

(* The mean of one value or two.                                            *)
LEMMA MeanIsDark ==
  ASSUME NEW n \in {1, 2}, NEW values \in [1..n -> Nat], Len(values) = n
  PROVE  Mean2(values) \in Nat /\ IsDark(Mean2(values), values)
<1>1. PICK sum \in Nat : sum = FoldSeq(LAMBDA a, b : a + b, 0, values)
  <2>1. FoldSeq(LAMBDA a, b : a + b, 0, values) \in Nat
    BY SumOfFew, Zenon
  <2> QED BY <2>1, Zenon
<1>2. Mean2(values) = (2 * sum) \div n
  BY <1>1, Zenon DEF Mean2
<1>3. Mean2(values) \in Nat /\ Mean2(values) * n = 2 * sum
  <2>1. CASE n = 1
    BY <1>2, <2>1
  <2>2. CASE n = 2
    BY <1>2, <2>2
  <2> QED BY <2>1, <2>2
<1>4. Len(values) < 3
  OBVIOUS
<1>5. Mean2(values) * Len(values) = 2 * sum
  BY <1>3
<1> QED BY <1>1, <1>3, <1>4, <1>5, Zenon DEF IsDark

Dark2(n, values) == IF n >= MIN_MEDIAN_REPEATS THEN Median2(values) ELSE Mean2(values)

(* What a pixel of a reference is.                                          *)
LEMMA DarkIs ==
  ASSUME NEW bound \in Nat, NEW n \in Nat \ {0}, NEW values \in [1..n -> 0..bound]
  PROVE  Dark2(n, values) \in Nat /\ IsDark(Dark2(n, values), values)
<1>1. Len(values) = n
  BY SequenceOf
<1>2. CASE n >= 3
  <2>1. n \in Nat \ {0, 1, 2}
    BY <1>2
  <2>2. Median2(values) \in Nat /\ IsDark(Median2(values), values)
    BY <1>1, <2>1, MedianIsDark
  <2>3. Dark2(n, values) = Median2(values)
    BY <1>2 DEF Dark2, MIN_MEDIAN_REPEATS
  <2> QED BY <2>2, <2>3
<1>3. CASE n < 3
  <2>1. n \in {1, 2} /\ values \in [1..n -> Nat]
    BY <1>3
  <2>2. Mean2(values) \in Nat /\ IsDark(Mean2(values), values)
    BY <1>1, <2>1, MeanIsDark
  <2>3. Dark2(n, values) = Mean2(values)
    BY <1>3 DEF Dark2, MIN_MEDIAN_REPEATS
  <2> QED BY <2>2, <2>3
<1> QED BY <1>2, <1>3

(* Rounding moves a half by a half.                                         *)
LEMMA RintNear ==
  ASSUME NEW twice \in Nat PROVE 2 * Rint(twice) - twice \in {-1, 0, 1}
<1>1. PICK q \in Nat : q = twice \div 2
  OBVIOUS
<1>2. twice % 2 \in {0, 1} /\ twice = 2 * q + (twice % 2)
  BY <1>1
<1> QED BY <1>1, <1>2 DEF Rint

-----------------------------------------------------------------------------
(* The reference of a dark measurement.                                     *)

StepsOf(p) == IF p.mode = "gated" THEN EffectiveSteps(p) ELSE 1

Repeats(d, p, s, px) == [i \in 1..p.iterations |-> TruthOf(d, p, i - 1, s)[px]]

BuiltOf(d, p) ==
  [s \in 1..StepsOf(p) |->
     [px \in 1..Size(p.depth, p.width) |-> Dark2(p.iterations, Repeats(d, p, s - 1, px))]]

(* How many steps, and pixels, a measurement has.                           *)
LEMMA StepsAre ==
  ASSUME NEW p, Sane(p), Measures(p)
  PROVE  /\ StepsOf(p) \in Int /\ Size(p.depth, p.width) \in Nat \ {0}
         /\ StepsOf(p) >= 1 => Asked(p) = (IF p.mode = "gated" THEN StepsOf(p) ELSE p.iterations)
         /\ p.mode = "gated" /\ Asked(p) >= 1 => Asked(p) = StepsOf(p)
<1>1. Size(p.depth, p.width) \in Nat \ {0}
  <2>1. p.width \in 1..Rows
    BY SaneFrames DEF FrameParams
  <2>2. PICK n \in Nat \ {0}, m \in Nat \ {0} : n = Rows /\ m = p.width
    BY <2>1, PayloadAssumption
  <2>3. n * m \in Nat \ {0} /\ n * n \in Nat \ {0}
    OBVIOUS
  <2> QED BY <2>2, <2>3 DEF Size
<1>2. CASE p.mode = "gated"
  <2>1. p.steps \in Int /\ p.size \in Int /\ p.offset \in Int /\ p.arbitrary \in Seq(Int)
    BY <1>2 DEF Sane
  <2>2. EffectiveSteps(p) \in Int
        /\ Len(Offsets(p)) = (IF EffectiveSteps(p) >= 1 THEN EffectiveSteps(p) ELSE 0)
    BY <2>1, OffsetsFit
  <2> QED BY <1>1, <1>2, <2>2 DEF Asked, StepsOf
<1>3. CASE p.mode # "gated"
  BY <1>1, <1>3 DEF Asked, StepsOf
<1> QED BY <1>2, <1>3

LargestCount == 65535

(* An exposure is an image of that size.                                    *)
LEMMA TruthImage ==
  ASSUME LightCounts, NEW p, Sane(p), Measures(p), NEW r \in Int, NEW i \in Int, NEW s \in Nat,
         s < StepsOf(p)
  PROVE  TruthOf(r, p, i, s) \in [1..Size(p.depth, p.width) -> 0..LargestCount]
<1>1. PICK offset \in Int : offset = IF p.mode = "gated" THEN Offsets(p)[s + 1] ELSE 0
  <2>1. CASE p.mode = "gated"
    <3>1. p.steps \in Int /\ p.size \in Int /\ p.offset \in Int /\ p.arbitrary \in Seq(Int)
      BY <2>1 DEF Sane
    <3>2. s \in 0..(EffectiveSteps(p) - 1)
      BY <2>1, <3>1, OffsetsFit DEF StepsOf
    <3>3. Offsets(p)[s + 1] \in Int
      BY <3>1, <3>2, OffsetsFit
    <3> QED BY <2>1, <3>3
  <2>2. CASE p.mode # "gated"
    BY <2>2
  <2> QED BY <2>1, <2>2
<1>2. PICK truth : truth = TruthOf(r, p, i, s)
  OBVIOUS
<1>3. truth = ShownOf(r, p, i, offset)
  BY <1>1, <1>2 DEF TruthOf
<1>4. IsImage(truth, p.depth, p.width, p.pileup)
  <2>1. FrameParams(p)
    BY SaneFrames
  <2> QED BY <1>3, <2>1, OneShown
<1>5. PICK n : n = Size(p.depth, p.width)
  OBVIOUS
<1>6. truth \in [1..n -> Nat] /\ \A px \in 1..n : truth[px] <= LargestCount
  <2>1. truth \in [1..n -> Nat]
    BY <1>4, <1>5 DEF IsImage
  <2>2. \A px \in 1..n : truth[px] \in Nat
    BY <2>1
  <2>3. \A px \in 1..n : truth[px] <= LargestCount
    BY <1>4, <1>5, <2>2 DEF IsImage, LargestCount
  <2> QED BY <2>1, <2>3
<1>7. LargestCount \in Nat /\ \A px \in 1..n : truth[px] \in Nat
  BY <1>6 DEF LargestCount
<1>8. \A px \in 1..n : truth[px] \in 0..LargestCount
  BY <1>6, <1>7
<1> QED BY <1>2, <1>5, <1>6, <1>8

(* The repeats of a pixel, and their dark count.                            *)
LEMMA BuiltDark ==
  ASSUME LightCounts, NEW p, Sane(p), Measures(p), p.iterations \in Nat \ {0}, NEW d \in Int,
         NEW s \in Nat, s < StepsOf(p), NEW px \in 1..Size(p.depth, p.width)
  PROVE  /\ s + 1 \in 1..StepsOf(p)
         /\ BuiltOf(d, p)[s + 1][px] \in Nat
         /\ IsDark(BuiltOf(d, p)[s + 1][px], Repeats(d, p, s, px))
<1>1. PICK n \in Nat \ {0} : n = p.iterations
  OBVIOUS
<1>2. PICK values : values = Repeats(d, p, s, px)
  OBVIOUS
<1>3. values \in [1..n -> 0..LargestCount]
  <2>1. \A i \in 1..n : TruthOf(d, p, i - 1, s)[px] \in 0..LargestCount
    <3> TAKE i \in 1..n
    <3>1. i - 1 \in Int
      OBVIOUS
    <3>2. TruthOf(d, p, i - 1, s) \in [1..Size(p.depth, p.width) -> 0..LargestCount]
      BY <3>1, TruthImage
    <3> QED BY <3>2
  <2> QED BY <1>1, <1>2, <2>1 DEF Repeats
<1>4. Dark2(n, values) \in Nat /\ IsDark(Dark2(n, values), values)
  <2>1. LargestCount \in Nat
    BY DEF LargestCount
  <2> QED BY <1>3, <2>1, DarkIs
<1>5. s + 1 \in 1..StepsOf(p) /\ s + 1 - 1 = s
  BY StepsAre
<1>6. BuiltOf(d, p)[s + 1][px] = Dark2(n, values)
  BY <1>1, <1>2, <1>5 DEF BuiltOf
<1> QED BY <1>2, <1>4, <1>5, <1>6

(* That is what is built of what was measured.                              *)
LEMMA BuiltIs ==
  ASSUME LightCounts, NEW d \in Int, NEW p, Sane(p), Measures(p), p.iterations \in Nat \ {0},
         StepsOf(p) >= 1, NEW stack,
         stack = [k \in 1..FramesOf(p, Asked(p)) |-> FrameOf(d, p, Asked(p), k)]
  PROVE  build_reference(stack, p.iterations, StepsOf(p)) = BuiltOf(d, p)
<1>1. PICK n \in Nat \ {0}, m \in Nat \ {0} : n = p.iterations /\ m = StepsOf(p)
  BY StepsAre
<1>2. PICK size \in Nat \ {0} : size = Size(p.depth, p.width)
  BY StepsAre
<1>3. ASSUME NEW i \in 1..n, NEW s \in 1..m
      PROVE  stack[(i - 1) * m + s] = TruthOf(d, p, i - 1, s - 1)
  <2>1. PICK a \in 0..(n - 1), b \in 0..(m - 1) : a = i - 1 /\ b = s - 1
    OBVIOUS
  <2>2. CASE p.mode = "gated"
    <3>1. Asked(p) = m /\ FramesOf(p, m) = n * m
      BY <1>1, <2>2, StepsAre DEF FramesOf
    <3>2. stack = [k \in 1..(n * m) |-> TruthOf(d, p, (k - 1) \div m, (k - 1) % m)]
      BY <2>2, <3>1 DEF FrameOf
    <3>3. PICK k : k = a * m + s
      OBVIOUS
    <3>4. k \in 1..(n * m) /\ k - 1 = a * m + b
      <4>1. PICK c \in Nat : c = n - 1 - a
        OBVIOUS
      <4>2. n = a + c + 1
        BY <4>1
      <4>3. n * m = a * m + c * m + m /\ c * m \in Nat /\ a * m \in Nat
        BY <4>2
      <4> QED BY <2>1, <3>3, <4>3
    <3>5. (a * m + b) \div m = a /\ (a * m + b) % m = b
      BY DivMod
    <3>6. stack[k] = TruthOf(d, p, a, b)
      BY <3>2, <3>4, <3>5
    <3> QED BY <2>1, <3>3, <3>6
  <2>3. CASE p.mode # "gated"
    <3>1. m = 1 /\ Asked(p) = n /\ FramesOf(p, n) = n
      BY <1>1, <2>3, StepsAre DEF FramesOf, StepsOf
    <3>2. stack = [k \in 1..n |-> TruthOf(d, p, k - 1, 0)]
      BY <2>3, <3>1 DEF FrameOf
    <3>3. (i - 1) * m + s = i /\ s - 1 = 0
      BY <3>1
    <3> QED BY <3>2, <3>3
  <2> QED BY <2>2, <2>3
<1>4. DOMAIN stack[1] = 1..size
  <2>1. (1 - 1) * m + 1 = 1 /\ 1 - 1 = 0 /\ 0 < m /\ 1 \in 1..n /\ 1 \in 1..m
    OBVIOUS
  <2>2. stack[1] = TruthOf(d, p, 0, 0)
    BY <1>3, <2>1
  <2> QED BY <1>1, <1>2, <2>1, <2>2, TruthImage
<1> DEFINE Taken(s, px) == [i \in 1..n |-> stack[(i - 1) * m + s][px]]
<1>5. ASSUME NEW s \in 1..m, NEW px PROVE Taken(s, px) = Repeats(d, p, s - 1, px)
  <2>1. \A i \in 1..n : stack[(i - 1) * m + s][px] = TruthOf(d, p, i - 1, s - 1)[px]
    <3> TAKE i \in 1..n
    <3> QED BY <1>3
  <2>2. Taken(s, px) = [i \in 1..n |-> TruthOf(d, p, i - 1, s - 1)[px]]
    BY <2>1
  <2> QED BY <1>1, <2>2 DEF Repeats
<1>6. build_reference(stack, n, m) = [s \in 1..m |-> [px \in 1..size |-> Dark2(n, Taken(s, px))]]
  BY <1>4 DEF build_reference, Dark2
<1>7. BuiltOf(d, p) = [s \in 1..m |-> [px \in 1..size |-> Dark2(n, Repeats(d, p, s - 1, px))]]
  BY <1>1, <1>2 DEF BuiltOf
<1>8. \A s \in 1..m : [px \in 1..size |-> Dark2(n, Taken(s, px))]
                       = [px \in 1..size |-> Dark2(n, Repeats(d, p, s - 1, px))]
  <2> HIDE DEF Taken
  <2> QED BY <1>5
<1> HIDE DEF Taken
<1>9. build_reference(stack, n, m) = BuiltOf(d, p)
  BY <1>6, <1>7, <1>8
<1> QED BY <1>1, <1>9

(* The fingerprint tells what the measurements were taken with.             *)
LEMMA FingerprintTells ==
  ASSUME NEW p, Sane(p), Measures(p), NEW q, Sane(q), Measures(q), Fingerprint(p) = Fingerprint(q)
  PROVE  /\ Config(p) = Config(q) /\ p.mode = q.mode /\ StepsOf(p) = StepsOf(q)
         /\ Size(p.depth, p.width) = Size(q.depth, q.width)
<1> DEFINE Gates == {"steps", "size", "offset", "dir", "arbitrary", "cooloff"}
<1>1. ASSUME NEW x, Measures(x) PROVE "steps" \in DOMAIN Fingerprint(x) <=> x.mode = "gated"
  BY <1>1 DEF Fingerprint, GatedFingerprint, IntensityFingerprint, Measures
<1>2. p.mode = q.mode
  BY <1>1 DEF Measures
<1>3. ASSUME NEW x, Sane(x), x.mode = "gated"
      PROVE  /\ \A k \in {"depth", "time", "overlap", "pileup", "size", "offset", "dir", "arbitrary",
                          "cooloff"} : Fingerprint(x)[k] = x[k]
             /\ Fingerprint(x)["steps"] = EffectiveSteps(x)
             /\ x.width = Rows
  BY <1>3 DEF Fingerprint, GatedFingerprint, Sane
<1>4. ASSUME NEW x, x.mode = "intensity"
      PROVE  \A k \in {"depth", "time", "width", "overlap", "pileup"} : Fingerprint(x)[k] = x[k]
  BY <1>4 DEF Fingerprint, IntensityFingerprint
<1>5. CASE p.mode = "gated"
  <2>1. \A k \in {"mode", "depth", "time", "width", "overlap", "pileup", "size", "offset", "dir",
                  "arbitrary", "cooloff"} : p[k] = q[k]
    <3>1. \A k \in {"depth", "time", "overlap", "pileup", "size", "offset", "dir", "arbitrary",
                   "cooloff"} : p[k] = Fingerprint(p)[k] /\ q[k] = Fingerprint(q)[k]
      BY <1>2, <1>3, <1>5
    <3>2. p["mode"] = q["mode"] /\ p["width"] = q["width"]
      BY <1>2, <1>3, <1>5
    <3> QED BY <3>1, <3>2
  <2>2. EffectiveSteps(p) = EffectiveSteps(q)
    BY <1>2, <1>3, <1>5
  <2>3. DOMAIN p = GatedKeys /\ DOMAIN q = GatedKeys
    BY <1>2, <1>5 DEF Sane, Keyed
  <2>4. \A k \in GatedKeys \ {"iterations", "dark", "name", "reducer", "steps"} : p[k] = q[k]
    BY <2>1 DEF GatedKeys, IntensityKeys
  <2>5. Config(p) = Config(q)
    BY <2>2, <2>3, <2>4 DEF Config
  <2> QED BY <1>2, <2>1, <2>2, <2>5 DEF StepsOf
<1>6. CASE p.mode = "intensity"
  <2>1. \A k \in {"mode", "depth", "time", "width", "overlap", "pileup"} : p[k] = q[k]
    BY <1>2, <1>4, <1>6
  <2>2. DOMAIN p = IntensityKeys /\ DOMAIN q = IntensityKeys
    BY <1>2, <1>6 DEF Sane, Keyed
  <2>3. \A k \in IntensityKeys \ {"iterations", "dark", "name", "reducer"} : p[k] = q[k] /\ k # "steps"
    BY <2>1 DEF IntensityKeys
  <2>4. Config(p) = Config(q)
    BY <2>2, <2>3 DEF Config
  <2> QED BY <1>2, <1>6, <2>1, <2>4 DEF StepsOf
<1> QED BY <1>5, <1>6 DEF Measures

(* Whole sweeps of a measurement can be corrected with the reference of     *)
(* another that was taken with the same.                                    *)
LEMMA SweepsCorrectable ==
  ASSUME LightCounts, NEW p, Sane(p), Measures(p), NEW q, Sane(q), Measures(q),
         Fingerprint(p) = Fingerprint(q), StepsOf(p) >= 1, NEW r \in Int, NEW d \in Int,
         NEW done \in Nat, p.mode = "gated" => done = StepsOf(p)
  PROVE  LET stack == [k \in 1..FramesOf(p, done) |-> FrameOf(r, p, done, k)]
         IN  /\ Len(BuiltOf(d, q)) = StepsOf(p)
             /\ Correctable(stack, BuiltOf(d, q))
             /\ \A k \in DOMAIN stack :
                  LET s == (k - 1) % StepsOf(p)
                      i == (k - 1) \div StepsOf(p)
                  IN  /\ s \in Nat /\ i \in Nat /\ s < StepsOf(p)
                      /\ stack[k] = TruthOf(r, p, i, s)
<1> DEFINE stack == [k \in 1..FramesOf(p, done) |-> FrameOf(r, p, done, k)]
<1>1. PICK m \in Nat \ {0}, size \in Nat \ {0} :
        m = StepsOf(p) /\ m = StepsOf(q) /\ size = Size(p.depth, p.width)
        /\ size = Size(q.depth, q.width)
  BY StepsAre, FingerprintTells
<1>2. PICK n \in Nat : n = p.iterations
  BY SaneFrames
<1>3. PICK reference : reference = BuiltOf(d, q)
  OBVIOUS
<1>4. /\ reference = [s \in 1..m |-> reference[s]]
      /\ \A s \in 1..m : reference[s] = [px \in 1..size |-> reference[s][px]]
  BY <1>1, <1>3 DEF BuiltOf
<1>5. Len(reference) = m /\ Len(reference[1]) = size
  <2>1. reference = [s \in 1..m |-> reference[s]]
    BY <1>4
  <2>2. PICK first : first = reference[1]
    OBVIOUS
  <2>3. first = [px \in 1..size |-> first[px]]
    <3>1. 1 \in 1..m
      OBVIOUS
    <3> QED BY <1>4, <2>2, <3>1
  <2> QED BY <2>1, <2>2, <2>3, SeqOfLength
<1>6. PICK frames \in Nat : /\ frames = FramesOf(p, done) /\ frames % m = 0
                            /\ p.mode = "gated" => frames = n * m
  <2>1. CASE p.mode = "gated"
    <3>1. n * m \in Nat /\ (n * m + 0) % m = 0 /\ n * m + 0 = n * m
      BY DivMod
    <3>2. FramesOf(p, done) = n * m
      BY <1>1, <1>2, <2>1 DEF FramesOf
    <3> QED BY <2>1, <3>1, <3>2
  <2>2. CASE p.mode # "gated"
    <3>1. m = 1 /\ done % 1 = 0
      BY <1>1, <2>2 DEF StepsOf
    <3> QED BY <2>2, <3>1 DEF FramesOf
  <2> QED BY <2>1, <2>2
<1>7. ASSUME NEW k \in 1..frames
      PROVE  /\ (k - 1) % m \in Nat /\ (k - 1) \div m \in Nat /\ (k - 1) % m < m
             /\ FrameOf(r, p, done, k) = TruthOf(r, p, (k - 1) \div m, (k - 1) % m)
  <2>1. PICK j \in Nat : j = k - 1
    OBVIOUS
  <2>2. j % m \in Nat /\ j \div m \in Nat /\ j % m < m
    OBVIOUS
  <2>3. CASE p.mode = "gated"
    <3>1. FrameOf(r, p, done, k) = TruthOf(r, p, (k - 1) \div m, (k - 1) % m)
      BY <1>1, <2>3 DEF FrameOf
    <3> QED BY <2>1, <2>2, <3>1
  <2>4. CASE p.mode # "gated"
    <3>1. m = 1
      BY <1>1, <2>4 DEF StepsOf
    <3>2. j \div 1 = j /\ j % 1 = 0
      OBVIOUS
    <3>3. FrameOf(r, p, done, k) = TruthOf(r, p, j, 0)
      BY <2>1, <2>4 DEF FrameOf
    <3> QED BY <2>1, <3>1, <3>2, <3>3
  <2> QED BY <2>3, <2>4
<1>8. Len(stack) = frames
  <2>1. stack = [k \in 1..frames |-> stack[k]]
    BY <1>6
  <2> HIDE DEF stack
  <2> QED BY <2>1, SeqOfLength
<1>9. ASSUME NEW k \in 1..frames PROVE Len(FrameOf(r, p, done, k)) = size
  <2>1. PICK i \in Nat, s \in Nat : i = (k - 1) \div m /\ s = (k - 1) % m /\ s < m
    BY <1>7
  <2>2. PICK truth : truth = TruthOf(r, p, i, s)
    OBVIOUS
  <2>3. truth \in [1..size -> 0..LargestCount]
    <3>1. i \in Int /\ s < StepsOf(p)
      BY <1>1, <2>1
    <3>2. TruthOf(r, p, i, s) \in [1..Size(p.depth, p.width) -> 0..LargestCount]
      BY <3>1, TruthImage
    <3> QED BY <1>1, <2>2, <3>2
  <2>4. Len(truth) = size
    BY <2>3, SequenceOf
  <2> QED BY <1>7, <2>1, <2>2, <2>4
<1>10. \A k \in DOMAIN stack : k \in 1..frames /\ stack[k] = FrameOf(r, p, done, k)
  BY <1>6
<1>11. Correctable(stack, reference)
  <2> HIDE DEF stack
  <2> QED BY <1>5, <1>6, <1>8, <1>9, <1>10 DEF Correctable
<1> HIDE DEF stack
<1> QED BY <1>1, <1>3, <1>5, <1>7, <1>10, <1>11 DEF stack

-----------------------------------------------------------------------------
(* The invariant of the references and the corrected views.                 *)

(* The reference a dark measurement has left.                               *)
DarkOf(d, fingerprint, reference) ==
  LET p == runs[d].params
  IN  /\ runs[d].via = "reference" /\ Measures(p) /\ Sane(p)
      /\ p.iterations \in Nat \ {0} /\ StepsOf(p) >= 1
      /\ fingerprint = Fingerprint(p) /\ reference = BuiltOf(d, p)

HasDark(fingerprint, reference) == \E d \in DOMAIN runs : DarkOf(d, fingerprint, reference)

ReferenceRight(run) ==
  run.reference # NoReference =>
    Measures(run.params) /\ HasDark(Fingerprint(run.params), run.reference)

(* A sweep that is stopped before its end is a paced one.                   *)
TakenWell(run) ==
  \/ run.status = "done"
  \/ /\ run.status = "aborted" /\ run.pc = "correct"
     /\ run.params.mode = "gated" => Paced(run.params)

StackOf(r, run) ==
  [k \in 1..FramesOf(run.params, run.done) |-> FrameOf(r, run.params, run.done, k)]

ViewRight(r, run) ==
  /\ run.status # "uncorrectable"
  /\ run.pc \in Taking => run.view = <<>> /\ TakenWell(run)
  /\ run.view # <<>> =>
       /\ run.reference # NoReference /\ run.done \in Nat
       /\ run.params.mode = "gated" => run.done = StepsOf(run.params)
       /\ run.view = apply_dark_correction(StackOf(r, run), run.reference)

DarkInv ==
  /\ \A n \in DOMAIN refs : HasDark(refs[n].fingerprint, refs[n].reference)
  /\ \A r \in DOMAIN runs : /\ ReferenceRight(runs[r]) /\ ViewRight(r, runs[r])
                            /\ runs[r].via = "reference" => Measures(runs[r].params)

(* What a step changes that corrects nothing.                               *)
KeepsView(r) ==
  LET run == runs[r]
      next == runs'[r]
  IN  /\ next.params = run.params
      /\ next.status \in {run.status, "error", "timeout", "raised", "aborted"}
      /\ \/ next.pc \notin Taking /\ next.view = <<>> /\ next.reference = NoReference
         \/ /\ next.view = run.view /\ next.reference = run.reference
            /\ run.pc \in Taking \/ next.done = run.done
            /\ next.pc \in Taking => run.pc \in Taking /\ TakenWell(next)

(* It keeps what is corrected right.                                        *)
LEMMA KeptViewRight ==
  ASSUME NEW r, ViewRight(r, runs[r]), KeepsView(r)
  PROVE  ViewRight(r, runs'[r]) /\ runs'[r].reference \in {runs[r].reference, NoReference}
<1>1. PICK run, next : run = runs[r] /\ next = runs'[r]
  OBVIOUS
<1>2. next.params = run.params /\ next.status # "uncorrectable"
  BY <1>1 DEF KeepsView, ViewRight
<1>3. CASE next.pc \notin Taking /\ next.view = <<>> /\ next.reference = NoReference
  BY <1>1, <1>2, <1>3 DEF ViewRight
<1>4. CASE /\ next.view = run.view /\ next.reference = run.reference
           /\ run.pc \in Taking \/ next.done = run.done
           /\ next.pc \in Taking => run.pc \in Taking /\ TakenWell(next)
  <2>1. next.pc \in Taking => next.view = <<>> /\ TakenWell(next)
    BY <1>1, <1>4 DEF ViewRight
  <2>2. CASE next.view = <<>>
    BY <1>1, <1>2, <1>4, <2>1, <2>2 DEF ViewRight
  <2>3. CASE next.view # <<>>
    <3>1. run.pc \notin Taking /\ next.done = run.done
      BY <1>1, <1>4, <2>3 DEF ViewRight
    <3>2. StackOf(r, next) = StackOf(r, run)
      BY <1>2, <3>1 DEF StackOf
    <3> QED BY <1>1, <1>2, <1>4, <2>1, <2>3, <3>1, <3>2 DEF ViewRight
  <2> QED BY <2>2, <2>3
<1> QED BY <1>1, <1>3, <1>4 DEF KeepsView

(* The fields of a step that corrects nothing.                              *)
LEMMA FieldsKeepView ==
  ASSUME RunsFull, NEW r \in DOMAIN runs, NEW fields, Goes(r, fields),
         DOMAIN fields \subseteq AllKeys \ {"view", "reference", "params"},
         "status" \in DOMAIN fields => fields.status \in {"error", "timeout", "raised", "aborted"},
         "done" \in DOMAIN fields => runs[r].pc \in Taking,
         "pc" \in DOMAIN fields /\ fields.pc \in Taking =>
           runs[r].pc \in Taking /\ TakenWell(runs'[r]),
         "pc" \notin DOMAIN fields /\ runs[r].pc \in Taking => TakenWell(runs'[r])
  PROVE  KeepsView(r)
<1>1. Changes(r, fields)
  BY GoesChanges
<1>2. PICK run, next : run = runs[r] /\ next = runs'[r]
  OBVIOUS
<1>3. next.params = run.params /\ next.view = run.view /\ next.reference = run.reference
  BY <1>1, <1>2 DEF Changes, AllKeys
<1>4. next.status \in {run.status, "error", "timeout", "raised", "aborted"}
  BY <1>1, <1>2 DEF Changes, AllKeys
<1>5. run.pc \in Taking \/ next.done = run.done
  BY <1>1, <1>2 DEF Changes, AllKeys
<1>6. next.pc \in Taking => run.pc \in Taking /\ TakenWell(next)
  BY <1>1, <1>2 DEF Changes, AllKeys
<1> QED BY <1>2, <1>3, <1>4, <1>5, <1>6 DEF KeepsView

(* An answer of the wrong length fails a run.                               *)
LEMMA ReceivedKeepsView ==
  ASSUME RunsFull, NEW r \in DOMAIN runs, ViewRight(r, runs[r]), runs[r].pc = "io",
         NEW data, NEW frames, NEW fields, Received(r, data, frames, fields),
         DOMAIN fields \subseteq {"wire", "stack", "done", "pc"}
  PROVE  KeepsView(r)
<1>1. CASE Goes(r, fields)
  <2>1. Changes(r, fields)
    BY <1>1, GoesChanges DEF AllKeys
  <2>2. runs'[r].status = runs[r].status
    BY <2>1 DEF Changes, AllKeys
  <2>3. runs[r].pc \in Taking /\ TakenWell(runs'[r])
    BY <2>2 DEF ViewRight, TakenWell, Taking
  <2> QED BY <1>1, <2>3, FieldsKeepView DEF AllKeys
<1>2. CASE Fail(r, "error")
  <2> DEFINE failed == [pc |-> "finish", status |-> "error"]
  <2>1. Goes(r, failed)
    BY <1>2 DEF Fail, Advance
  <2>2. DOMAIN failed = {"pc", "status"} /\ failed["pc"] = "finish" /\ failed["status"] = "error"
    OBVIOUS
  <2> HIDE DEF failed
  <2> QED BY <2>1, <2>2, FieldsKeepView DEF AllKeys, Taking
<1> QED BY <1>1, <1>2 DEF Received, Advance

(* What fails shows nothing new.                                            *)
LEMMA FailedKeepsView ==
  ASSUME RunsFull, NEW r \in DOMAIN runs, NEW status, status \in {"error", "timeout", "raised", "aborted"},
         Fail(r, status) \/ Broken(r, status)
  PROVE  KeepsView(r)
<1> DEFINE failed == [pc |-> "finish", status |-> status]
<1>1. Goes(r, failed)
  BY DEF Fail, Broken, Advance
<1>2. DOMAIN failed = {"pc", "status"} /\ failed["pc"] = "finish" /\ failed["status"] = status
  OBVIOUS
<1> HIDE DEF failed
<1> QED BY <1>1, <1>2, FieldsKeepView DEF AllKeys, Taking

(* What is taken shows nothing yet.                                         *)
LEMMA TakingKeepsView ==
  ASSUME RunsFull, NEW r \in DOMAIN runs, DataFits(r, runs[r]), ViewRight(r, runs[r]),
         \/ IntensityExchange(r) \/ GatedExchange(r) \/ PacedExchange(r) \/ FlimExchange(r)
         \/ ExchangeFails(r) \/ Boundary(r)
  PROVE  KeepsView(r)
<1>1. PICK run : run = runs[r]
  OBVIOUS
<1>2. CASE IntensityExchange(r) \/ GatedExchange(r)
  <2>1. run.pc = "io"
    BY <1>1, <1>2 DEF IntensityExchange, GatedExchange
  <2>2. PICK data, frames, wire, done, pc :
          Received(r, data, frames, [wire |-> wire, done |-> done, pc |-> pc])
    BY <1>2 DEF IntensityExchange, GatedExchange
  <2> DEFINE fields == [wire |-> wire, done |-> done, pc |-> pc]
  <2>3. Received(r, data, frames, fields) /\ DOMAIN fields = {"wire", "done", "pc"}
    BY <2>2
  <2> HIDE DEF fields
  <2> QED BY <1>1, <2>1, <2>3, ReceivedKeepsView
<1>3. CASE PacedExchange(r)
  <2>1. run.pc = "io"
    BY <1>1, <1>3 DEF PacedExchange
  <2>2. CASE Fail(r, "aborted")
    BY <2>2, FailedKeepsView
  <2>3. ASSUME NEW data, NEW frames, NEW stack, NEW done, NEW pc,
               Received(r, data, frames, [stack |-> stack, done |-> done, pc |-> pc])
        PROVE  KeepsView(r)
    <3> DEFINE fields == [stack |-> stack, done |-> done, pc |-> pc]
    <3>1. Received(r, data, frames, fields) /\ DOMAIN fields = {"stack", "done", "pc"}
      BY <2>3
    <3> HIDE DEF fields
    <3> QED BY <1>1, <2>1, <3>1, ReceivedKeepsView
  <2> QED BY <1>3, <2>2, <2>3 DEF PacedExchange
<1>4. CASE FlimExchange(r)
  <2>1. PICK done : Goes(r, [pc |-> "finish", done |-> done])
    BY <1>4 DEF FlimExchange, Advance
  <2> DEFINE fields == [pc |-> "finish", done |-> done]
  <2>2. Goes(r, fields) /\ DOMAIN fields = {"pc", "done"} /\ fields["pc"] = "finish"
    BY <2>1
  <2>3. run.pc \in Taking
    BY <1>1, <1>4 DEF FlimExchange, Taking
  <2> HIDE DEF fields
  <2> QED BY <1>1, <2>2, <2>3, FieldsKeepView DEF AllKeys, Taking
<1>5. CASE ExchangeFails(r)
  BY <1>5, FailedKeepsView DEF ExchangeFails
<1>6. CASE Boundary(r)
  <2>1. run.pc = "boundary" /\ run.pc \in Taking /\ run.status = "done"
    BY <1>1, <1>6 DEF Boundary, Taking, ViewRight, TakenWell
  <2>2. run.params.mode = "gated" => Paced(run.params)
    BY <1>1, <2>1, Measured DEF Counted
  <2>3. CASE stop
    <3> DEFINE fields == [pc |-> "correct", status |-> "aborted"]
    <3>1. Goes(r, fields)
      BY <1>6, <2>3 DEF Boundary, Advance
    <3>2. /\ DOMAIN fields = {"pc", "status"} /\ fields["pc"] = "correct"
          /\ fields["status"] = "aborted"
      OBVIOUS
    <3> HIDE DEF fields
    <3>3. Changes(r, fields)
      BY <3>1, <3>2, GoesChanges DEF AllKeys
    <3>4. /\ runs'[r].pc = "correct" /\ runs'[r].status = "aborted"
          /\ runs'[r].params = run.params
      BY <1>1, <3>2, <3>3 DEF Changes, AllKeys
    <3>5. TakenWell(runs'[r])
      BY <2>2, <3>4 DEF TakenWell
    <3> QED BY <1>1, <2>1, <3>1, <3>2, <3>5, FieldsKeepView DEF AllKeys
  <2>4. CASE ~stop
    <3>1. PICK pc : Goes(r, [pc |-> pc])
      BY <1>6, <2>4 DEF Boundary, Advance
    <3> DEFINE fields == [pc |-> pc]
    <3>2. Goes(r, fields) /\ DOMAIN fields = {"pc"}
      BY <3>1
    <3> HIDE DEF fields
    <3>3. Changes(r, fields)
      BY <3>2, GoesChanges DEF AllKeys
    <3>4. TakenWell(runs'[r])
      BY <1>1, <2>1, <3>2, <3>3 DEF Changes, AllKeys, TakenWell
    <3> QED BY <1>1, <2>1, <3>2, <3>4, FieldsKeepView DEF AllKeys
  <2> QED BY <2>3, <2>4
<1> QED BY <1>2, <1>3, <1>4, <1>5, <1>6

(* What is saved or over shows nothing new.                                 *)
LEMMA LaterKeepsView ==
  ASSUME RunsFull, NEW r \in DOMAIN runs, ViewRight(r, runs[r]),
         \/ List(r) \/ Make(r) \/ WriteFrame(r) \/ WriteSidecar(r) \/ Reduce(r) \/ SaveFails(r)
         \/ GraceExpires(r) \/ Finish(r) \/ Answer(r) \/ CalibrationEnds(r)
  PROVE  KeepsView(r)
<1>1. PICK run : run = runs[r]
  OBVIOUS
<1>2. ASSUME NEW fields, Goes(r, fields),
             DOMAIN fields \subseteq {"pc", "folder", "made", "written", "shown"},
             "pc" \in DOMAIN fields, fields.pc \notin Taking
      PROVE  KeepsView(r)
  BY <1>2, FieldsKeepView DEF AllKeys
<1>3. CASE SaveFails(r)
  BY <1>3, FailedKeepsView DEF SaveFails
<1>4. CASE List(r)
  <2>1. PICK folder : Goes(r, [pc |-> "make", folder |-> folder])
    BY <1>4 DEF List, Advance
  <2> DEFINE fields == [pc |-> "make", folder |-> folder]
  <2>2. DOMAIN fields = {"pc", "folder"} /\ fields["pc"] = "make" /\ Goes(r, fields)
    BY <2>1
  <2> HIDE DEF fields
  <2> QED BY <1>2, <2>2 DEF Taking
<1>5. CASE Make(r)
  <2> DEFINE fields == [pc |-> "frames", made |-> TRUE]
  <2>1. Goes(r, fields)
    BY <1>5 DEF Make, Writes
  <2>2. DOMAIN fields = {"pc", "made"} /\ fields["pc"] = "frames"
    OBVIOUS
  <2> HIDE DEF fields
  <2> QED BY <1>2, <2>1, <2>2 DEF Taking
<1>6. CASE WriteFrame(r)
  <2> DEFINE k == run.written + 1
             fields == [written |-> k, pc |-> IF k < Len(run.stack) THEN "frames" ELSE "sidecar"]
  <2>1. Goes(r, fields)
    BY <1>1, <1>6 DEF WriteFrame, Writes
  <2>2. DOMAIN fields = {"pc", "written"} /\ fields["pc"] \in {"frames", "sidecar"}
    OBVIOUS
  <2> HIDE DEF fields
  <2> QED BY <1>2, <2>1, <2>2 DEF Taking
<1>7. CASE WriteSidecar(r)
  <2>1. PICK shown : Goes(r, [shown |-> shown,
                              pc |-> IF run.params.reducer THEN "reduce" ELSE "finish"])
    BY <1>1, <1>7 DEF WriteSidecar, Writes
  <2> DEFINE fields == [shown |-> shown, pc |-> IF run.params.reducer THEN "reduce" ELSE "finish"]
  <2>2. DOMAIN fields = {"pc", "shown"} /\ fields["pc"] \in {"reduce", "finish"} /\ Goes(r, fields)
    BY <2>1
  <2> HIDE DEF fields
  <2> QED BY <1>2, <2>2 DEF Taking
<1>8. CASE Reduce(r)
  <2> DEFINE fields == [pc |-> "finish"]
  <2>1. Goes(r, fields)
    BY <1>8 DEF Reduce, Writes
  <2>2. DOMAIN fields = {"pc"} /\ fields["pc"] = "finish"
    OBVIOUS
  <2> HIDE DEF fields
  <2> QED BY <1>2, <2>1, <2>2 DEF Taking
<1>9. CASE GraceExpires(r)
  <2> DEFINE fields == [told |-> TRUE]
  <2>1. Goes(r, fields) /\ DOMAIN fields = {"told"}
    BY <1>9 DEF GraceExpires
  <2> HIDE DEF fields
  <2>2. Changes(r, fields)
    BY <2>1, GoesChanges DEF AllKeys
  <2>3. /\ runs'[r].status = run.status /\ runs'[r].pc = run.pc
        /\ runs'[r].params = run.params
    BY <1>1, <2>1, <2>2 DEF Changes, AllKeys
  <2>4. run.pc \in Taking => TakenWell(runs'[r])
    BY <1>1, <2>3 DEF ViewRight, TakenWell
  <2> QED BY <1>1, <2>1, <2>4, FieldsKeepView DEF AllKeys
<1>10. ASSUME NEW fields, Goes(r, fields),
              fields = Over \/ fields = With(Over, [status |-> "error"])
       PROVE  KeepsView(r)
  <2>1. /\ DOMAIN fields \subseteq {"pc", "wire", "stack", "view", "reference", "status"}
        /\ {"pc", "view", "reference"} \subseteq DOMAIN fields
        /\ fields["pc"] = "over" /\ fields["view"] = <<>> /\ fields["reference"] = NoReference
        /\ "status" \in DOMAIN fields => fields["status"] = "error"
    <3>1. Over["view"] = <<>> /\ Over["reference"] = NoReference /\ Over["pc"] = "over"
      BY DEF Over
    <3>2. CASE fields = Over
      BY <3>1, <3>2, OverFields
    <3>3. CASE fields = With(Over, [status |-> "error"])
      <4>1. fields["view"] = <<>> /\ fields["reference"] = NoReference
        BY <3>1, <3>3, OverFields, WithOld
      <4> QED BY <3>3, <4>1, OverFields
    <3> QED BY <1>10, <3>2, <3>3
  <2>2. Changes(r, fields)
    BY <1>10, <2>1, GoesChanges DEF AllKeys
  <2>3. PICK next : next = runs'[r]
    OBVIOUS
  <2>4. /\ next.pc = "over" /\ next.view = <<>> /\ next.reference = NoReference
        /\ next.params = run.params /\ next.status \in {run.status, "error"}
    BY <1>1, <2>1, <2>2, <2>3 DEF Changes, AllKeys
  <2> QED BY <1>1, <2>3, <2>4 DEF KeepsView, Taking
<1>11. CASE Finish(r)
  <2>1. CASE Goes(r, Over)
    BY <1>10, <2>1
  <2>2. CASE Goes(r, [pc |-> "answer"])
    <3> DEFINE fields == [pc |-> "answer"]
    <3>1. Goes(r, fields) /\ DOMAIN fields = {"pc"} /\ fields["pc"] = "answer"
      BY <2>2
    <3> HIDE DEF fields
    <3> QED BY <1>2, <3>1 DEF Taking
  <2> QED BY <1>11, <2>1, <2>2 DEF Finish
<1>12. CASE Answer(r)
  BY <1>10, <1>12 DEF Answer
<1>13. CASE CalibrationEnds(r)
  <2>1. PICK fields : Goes(r, fields) /\ (fields = Over \/ fields = With(Over, [status |-> "error"]))
    BY <1>13 DEF CalibrationEnds
  <2> QED BY <1>10, <2>1
<1> QED BY <1>1, <1>3, <1>4, <1>5, <1>6, <1>7, <1>8, <1>9, <1>11, <1>12, <1>13

(* A run that has a reference to be corrected with has taken whole sweeps.  *)
LEMMA WholeSweeps ==
  ASSUME NEW run, Sane(run.params), Measures(run.params), Counted(run), TakenWell(run),
         run.pc = "correct", ReferenceOf(run) # NoReference, StepsOf(run.params) >= 1,
         run.params.mode = "gated"
  PROVE  run.done = StepsOf(run.params)
<1>1. CASE run.status = "done"
  <2>1. run.done = Asked(run.params)
    BY <1>1 DEF Counted
  <2> QED BY <2>1, StepsAre
<1>2. CASE run.status = "aborted" /\ Paced(run.params)
  BY <1>2 DEF ReferenceOf, StepsOf
<1> QED BY <1>1, <1>2 DEF TakenWell

(* What a correction shows, and that it does not fail.                      *)
LEMMA CorrectedViewRight ==
  ASSUME LightCounts, RunsFull, NEW r \in DOMAIN runs, DataFits(r, runs[r]),
         ReferenceRight(runs[r]), ViewRight(r, runs[r]), Correct(r)
  PROVE  /\ ViewRight(r, runs'[r]) /\ runs'[r].reference \in {runs[r].reference, NoReference}
         /\ runs'[r].params = runs[r].params
<1>0. r \in Int /\ DOMAIN runs \subseteq Int
  BY SeqDomain DEF RunsFull
<1>1. PICK run : run = runs[r]
  OBVIOUS
<1>2. PICK p : p = run.params /\ run.pc = "correct"
  BY <1>1 DEF Correct
<1>3. Measures(p) /\ Sane(p) /\ Counted(run) /\ Holds(r, run)
  BY <1>1, <1>2, Measured DEF Taking
<1>4. run.done \in Nat \ {0} /\ p.iterations >= 1
  BY <1>2, <1>3 DEF Counted
<1>5. Decoded(run) = StackOf(r, run)
  BY <1>0, <1>2, <1>3, <1>4, DecodedIsTaken DEF StackOf
<1>6. TakenWell(run)
  BY <1>1, <1>2 DEF ViewRight, Taking
<1>7. PICK reference : reference = ReferenceOf(run)
  OBVIOUS
<1>8. reference \in {run.reference, NoReference}
  BY <1>7 DEF ReferenceOf
<1>9. ASSUME reference # NoReference
      PROVE  /\ p.mode = "gated" => run.done = StepsOf(p)
             /\ Correctable(StackOf(r, run), reference)
  <2>1. HasDark(Fingerprint(p), reference)
    BY <1>1, <1>2, <1>8, <1>9 DEF ReferenceRight
  <2>2. PICK d \in DOMAIN runs : DarkOf(d, Fingerprint(p), reference)
    BY <2>1 DEF HasDark
  <2>3. PICK q : q = runs[d].params
    OBVIOUS
  <2>4. /\ Measures(q) /\ Sane(q) /\ StepsOf(q) >= 1
        /\ Fingerprint(p) = Fingerprint(q) /\ reference = BuiltOf(d, q)
    BY <2>2, <2>3 DEF DarkOf
  <2>5. StepsOf(p) = StepsOf(q)
    BY <1>3, <2>4, FingerprintTells
  <2>6. StepsOf(p) >= 1
    BY <2>4, <2>5
  <2>7. p.mode = "gated" => run.done = StepsOf(p)
    BY <1>2, <1>3, <1>6, <1>7, <1>9, <2>6, WholeSweeps
  <2>8. PICK stack : stack = [k \in 1..FramesOf(p, run.done) |-> FrameOf(r, p, run.done, k)]
    OBVIOUS
  <2>9. Correctable(stack, BuiltOf(d, q))
    <3>1. run.done \in Nat /\ d \in Int /\ r \in Int
      BY <1>0, <1>4
    <3> QED BY <1>3, <2>4, <2>6, <2>7, <2>8, <3>1, SweepsCorrectable
  <2>10. stack = StackOf(r, run)
    BY <1>2, <2>8 DEF StackOf
  <2> QED BY <2>4, <2>7, <2>9, <2>10
<1> DEFINE view == IF reference = NoReference THEN <<>>
                   ELSE apply_dark_correction(StackOf(r, run), reference)
           fields == [pc |-> IF run.via = "live" THEN "finish" ELSE "list",
                      wire |-> <<>>, stack |-> StackOf(r, run), reference |-> reference,
                      view |-> view]
<1>10. Goes(r, fields)
  <2>1. ~ (reference # NoReference /\ ~Correctable(StackOf(r, run), reference))
    BY <1>9
  <2> QED BY <1>1, <1>5, <1>7, <2>1 DEF Correct, Advance
<1>11. /\ DOMAIN fields = {"pc", "wire", "stack", "reference", "view"}
       /\ fields["pc"] \in {"finish", "list"}
       /\ fields["reference"] = reference /\ fields["view"] = view
  OBVIOUS
<1>12. view # <<>> => reference # NoReference
                      /\ view = apply_dark_correction(StackOf(r, run), reference)
  OBVIOUS
<1> HIDE DEF fields, view
<1>13. Changes(r, fields)
  BY <1>10, <1>11, GoesChanges DEF AllKeys
<1>14. PICK next : next = runs'[r]
  OBVIOUS
<1>15. /\ next.pc \in {"finish", "list"} /\ next.reference = reference /\ next.view = view
       /\ next.params = p /\ next.done = run.done /\ next.status = run.status
  BY <1>1, <1>2, <1>11, <1>13, <1>14 DEF Changes, AllKeys
<1>16. StackOf(r, next) = StackOf(r, run)
  BY <1>2, <1>15 DEF StackOf
<1>17. ViewRight(r, next)
  <2>1. next.status # "uncorrectable" /\ next.pc \notin Taking
    BY <1>6, <1>15 DEF TakenWell, Taking
  <2>2. ASSUME next.view # <<>>
        PROVE  /\ next.reference # NoReference /\ next.done \in Nat
               /\ next.params.mode = "gated" => next.done = StepsOf(next.params)
               /\ next.view = apply_dark_correction(StackOf(r, next), next.reference)
    BY <1>4, <1>9, <1>12, <1>15, <1>16, <2>2
  <2> QED BY <2>1, <2>2 DEF ViewRight
<1> QED BY <1>1, <1>2, <1>8, <1>14, <1>15, <1>17

-----------------------------------------------------------------------------
(* It holds after every step.                                               *)

(* A dark measurement that is over leaves its reference.                    *)
LEMMA AnswerDark ==
  ASSUME LightCounts, LogInv, RefsFit, DataInv, DarkInv, NEW r \in DOMAIN runs, Answer(r),
         NEW n \in DOMAIN refs'
  PROVE  HasDark(refs'[n].fingerprint, refs'[n].reference)
<1>1. CASE runs[r].via # "reference"
  <2>1. refs' = refs
    BY <1>1 DEF Answer
  <2> QED BY <2>1 DEF DarkInv
<1>2. CASE runs[r].via = "reference"
  <2>1. PICK run, p : run = runs[r] /\ p = run.params /\ run.pc = "answer"
    BY DEF Answer
  <2>2. /\ RunFits(r) /\ DataFits(r, run) /\ Measures(p)
    BY <1>2, <2>1 DEF LogInv, DataInv, DarkInv
  <2>3. run.status = "done"
    BY <1>2, <2>1, <2>2 DEF RunFits
  <2>4. Sane(p) /\ Counted(run) /\ Kept(r, run)
    BY <2>1, <2>2, <2>3, Measured
  <2>5. run.done = Asked(p)
    BY <2>1, <2>3, <2>4 DEF Counted
  <2>6. p.iterations \in Nat \ {0} /\ StepsOf(p) >= 1
    <3>1. CASE p.mode = "gated"
      <4>1. IsGatedReference(run)
        BY <1>2, <2>1, <3>1 DEF IsGatedReference
      <4>2. EffectiveSteps(p) >= 1 /\ ReferenceParams(p)
        BY <2>1, <2>2, <2>3, <4>1 DEF RunFits, StepsKnown
      <4> QED BY <3>1, <4>2 DEF StepsOf, ReferenceParams
    <3>2. CASE p.mode # "gated"
      BY <2>2, <2>4, <3>2 DEF Measures, Sane, StepsOf
    <3> QED BY <3>1, <3>2
  <2>7. r \in Int
    BY SeqDomain DEF LogInv, RunsFull
  <2>8. build_reference(run.stack, p.iterations, StepsOf(p)) = BuiltOf(r, p)
    <3>1. run.stack = [k \in 1..FramesOf(p, Asked(p)) |-> FrameOf(r, p, Asked(p), k)]
      BY <2>1, <2>4, <2>5 DEF Kept
    <3> QED BY <2>2, <2>4, <2>6, <2>7, <3>1, BuiltIs
  <2>9. PICK new : new = [fingerprint |-> Fingerprint(p), reference |-> BuiltOf(r, p),
                          iterations |-> p.iterations, path |-> run.shown]
    OBVIOUS
  <2>10. refs' = Append(refs, new)
    <3>1. refs' = Save(refs, p, build_reference(run.stack, p.iterations, StepsOf(p)), run.shown)
      BY <1>2, <2>1 DEF Answer, StepsOf
    <3> QED BY <2>8, <2>9, <3>1 DEF Save
  <2>11. new.fingerprint = Fingerprint(p) /\ new.reference = BuiltOf(r, p)
    BY <2>9
  <2>12. DarkOf(r, new.fingerprint, new.reference)
    BY <1>2, <2>1, <2>2, <2>4, <2>6, <2>11 DEF DarkOf
  <2>13. refs'[n] = new \/ (n \in DOMAIN refs /\ refs'[n] = refs[n])
    BY <2>10, SeqAppend DEF RefsFit
  <2>14. CASE refs'[n] = new
    BY <2>12, <2>14 DEF HasDark
  <2>15. CASE n \in DOMAIN refs /\ refs'[n] = refs[n]
    BY <2>15 DEF DarkInv
  <2> QED BY <2>13, <2>14, <2>15
<1> QED BY <1>1, <1>2

(* The references stay right when no run loses what it was given.           *)
LEMMA DarkKept ==
  ASSUME LightCounts, LogInv, RefsFit, DataInv, DarkInv, [Next]_vars,
         DOMAIN runs \subseteq DOMAIN runs',
         \A d \in DOMAIN runs : runs'[d].via = runs[d].via /\ runs'[d].params = runs[d].params
  PROVE  /\ \A n \in DOMAIN refs' : HasDark(refs[n].fingerprint, refs[n].reference)'
         /\ \A fingerprint, reference :
              HasDark(fingerprint, reference) =>
                \E d \in DOMAIN runs' : DarkOf(d, fingerprint, reference)'
<1>1. ASSUME NEW fingerprint, NEW reference, HasDark(fingerprint, reference)
      PROVE  \E d \in DOMAIN runs' : DarkOf(d, fingerprint, reference)'
  BY <1>1 DEF HasDark, DarkOf
<1>2. ASSUME NEW n \in DOMAIN refs' PROVE HasDark(refs[n].fingerprint, refs[n].reference)'
  <2>1. HasDark(refs'[n].fingerprint, refs'[n].reference)
    <3>1. CASE refs' = refs
      BY <3>1 DEF DarkInv
    <3>2. CASE \E r \in DOMAIN runs : Answer(r)
      BY <3>2, AnswerDark
    <3> QED BY <3>1, <3>2, RefsWritten
  <2> QED BY <1>1, <2>1 DEF HasDark
<1> QED BY <1>1, <1>2

(* A step of a run keeps the invariant.                                     *)
LEMMA StepDarkInv ==
  ASSUME LightCounts, LogInv, RefsFit, DataInv, DarkInv, [Next]_vars,
         NEW r \in DOMAIN runs, Step(r)
  PROVE  DarkInv'
<1>1. /\ DOMAIN runs' = DOMAIN runs
      /\ \A s \in DOMAIN runs \ {r} : runs'[s] = runs[s]
      /\ \A s \in DOMAIN runs : runs'[s].via = runs[s].via /\ runs'[s].params = runs[s].params
  BY StepGiven DEF Given
<1>2. /\ \A n \in DOMAIN refs' : HasDark(refs[n].fingerprint, refs[n].reference)'
      /\ \A fingerprint, reference :
           HasDark(fingerprint, reference) =>
             \E d \in DOMAIN runs' : DarkOf(d, fingerprint, reference)'
  BY <1>1, DarkKept
<1>3. RunsFull /\ DataFits(r, runs[r]) /\ ReferenceRight(runs[r]) /\ ViewRight(r, runs[r])
  BY DEF LogInv, DataInv, DarkInv
<1>4. ViewRight(r, runs'[r]) /\ runs'[r].reference \in {runs[r].reference, NoReference}
  <2>1. CASE Correct(r)
    BY <1>3, <2>1, CorrectedViewRight
  <2>2. CASE ~Correct(r)
    <3>1. KeepsView(r)
      BY <1>3, <2>2, TakingKeepsView, LaterKeepsView DEF Step
    <3> QED BY <1>3, <3>1, KeptViewRight
  <2> QED BY <2>1, <2>2
<1>5. ASSUME NEW s \in DOMAIN runs'
      PROVE  /\ ViewRight(s, runs'[s]) /\ ReferenceRight(runs[s])'
             /\ runs'[s].via = "reference" => Measures(runs'[s].params)
  <2>1. s \in DOMAIN runs /\ ViewRight(s, runs[s]) /\ ReferenceRight(runs[s])
        /\ (runs[s].via = "reference" => Measures(runs[s].params))
    BY <1>1 DEF DarkInv
  <2>2. ViewRight(s, runs'[s]) /\ runs'[s].reference \in {runs[s].reference, NoReference}
    BY <1>1, <1>4, <2>1
  <2>3. PICK fingerprint, reference : fingerprint = Fingerprint(runs'[s].params)
                                      /\ reference = runs'[s].reference
    OBVIOUS
  <2>4. reference # NoReference =>
          Measures(runs'[s].params) /\ \E d \in DOMAIN runs' : DarkOf(d, fingerprint, reference)'
    <3>1. SUFFICES ASSUME reference # NoReference
                   PROVE  /\ Measures(runs'[s].params)
                          /\ \E d \in DOMAIN runs' : DarkOf(d, fingerprint, reference)'
      OBVIOUS
    <3>2. runs[s].reference = reference /\ runs'[s].params = runs[s].params
      BY <1>1, <2>1, <2>2, <2>3, <3>1
    <3>3. Measures(runs[s].params) /\ HasDark(fingerprint, reference)
      BY <2>1, <2>3, <3>1, <3>2 DEF ReferenceRight
    <3> QED BY <1>2, <3>2, <3>3
  <2>5. ReferenceRight(runs[s])'
    BY <2>3, <2>4 DEF ReferenceRight, HasDark
  <2> QED BY <1>1, <2>1, <2>2, <2>5
<1> QED BY <1>2, <1>5 DEF DarkInv

(* So does an admission.                                                    *)
LEMMA TakesDarkInv ==
  ASSUME LightCounts, LogInv, RefsFit, DataInv, DarkInv, [Next]_vars,
         NEW via, NEW mode, NEW body, NEW p, NEW entry,
         Takes(via, mode, body, p, entry), Asks(via, mode, body, p)
  PROVE  DarkInv'
<1>1. PICK n, new : n = Len(runs) + 1 /\ new = NewRun(via, mode, body, p, entry)
  OBVIOUS
<1>2. /\ DOMAIN runs' = DOMAIN runs \cup {n} /\ runs'[n] = new
      /\ \A r \in DOMAIN runs : runs'[r] = runs[r]
  BY <1>1, TakesRuns DEF LogInv
<1>3. new.via = via /\ new.params = p
  BY <1>1, NewRunFields
<1>4. /\ new.view = <<>> /\ new.status \in {"done", "error"}
      /\ new.pc \in Taking => new.status = "done"
      /\ new.reference # NoReference =>
           /\ p.dark # 0 /\ p.dark \in DOMAIN refs
           /\ refs[p.dark].fingerprint = Fingerprint(p)
           /\ new.reference = refs[p.dark].reference
  BY <1>1 DEF NewRun, Resolvable, ResolveDarkReference, Taking
<1>5. /\ \A m \in DOMAIN refs' : HasDark(refs[m].fingerprint, refs[m].reference)'
      /\ \A fingerprint, reference :
           HasDark(fingerprint, reference) =>
             \E d \in DOMAIN runs' : DarkOf(d, fingerprint, reference)'
  BY <1>2, DarkKept
<1>6. ASSUME NEW run, run.reference # NoReference => Measures(run.params),
             run.reference # NoReference => HasDark(Fingerprint(run.params), run.reference),
             NEW s \in DOMAIN runs', runs'[s] = run
      PROVE  ReferenceRight(runs[s])'
  <2>1. PICK fingerprint, reference : fingerprint = Fingerprint(run.params)
                                      /\ reference = run.reference
    OBVIOUS
  <2>2. reference # NoReference => \E d \in DOMAIN runs' : DarkOf(d, fingerprint, reference)'
    BY <1>5, <1>6, <2>1
  <2> QED BY <1>6, <2>1, <2>2 DEF ReferenceRight, HasDark
<1>7. ASSUME NEW r \in DOMAIN runs
      PROVE  /\ ViewRight(r, runs'[r]) /\ ReferenceRight(runs[r])'
             /\ runs'[r].via = "reference" => Measures(runs'[r].params)
  <2>1. /\ ViewRight(r, runs[r]) /\ ReferenceRight(runs[r])
        /\ (runs[r].via = "reference" => Measures(runs[r].params))
    BY DEF DarkInv
  <2>2. r \in DOMAIN runs' /\ runs'[r] = runs[r]
    BY <1>2
  <2> QED BY <1>6, <2>1, <2>2 DEF ReferenceRight
<1>8. /\ ViewRight(n, runs'[n]) /\ ReferenceRight(runs[n])'
      /\ runs'[n].via = "reference" => Measures(runs'[n].params)
  <2>1. ViewRight(n, new)
    BY <1>4 DEF ViewRight, TakenWell
  <2>2. new.reference # NoReference => Measures(new.params)
    BY <1>3, <1>4 DEF Asks, Sane, Keyed, Measures
  <2>3. new.reference # NoReference => HasDark(Fingerprint(new.params), new.reference)
    BY <1>3, <1>4 DEF DarkInv
  <2>4. n \in DOMAIN runs' /\ runs'[n] = new
    BY <1>2
  <2>5. ReferenceRight(runs[n])'
    BY <1>6, <2>2, <2>3, <2>4
  <2> QED BY <1>3, <2>1, <2>4, <2>5 DEF Asks
<1>9. ASSUME NEW s \in DOMAIN runs'
      PROVE  /\ ViewRight(s, runs'[s]) /\ ReferenceRight(runs[s])'
             /\ runs'[s].via = "reference" => Measures(runs'[s].params)
  BY <1>2, <1>7, <1>8
<1> QED BY <1>5, <1>9 DEF DarkInv

(* A restart leaves no view, and the references as they are.                *)
LEMMA CrashDarkInv ==
  ASSUME LightCounts, LogInv, RefsFit, DataInv, DarkInv, [Next]_vars, Crash PROVE DarkInv'
<1>1. DOMAIN runs' = DOMAIN runs
  BY DEF Crash
<1>2. \A r \in DOMAIN runs : runs'[r].via = runs[r].via /\ runs'[r].params = runs[r].params
  BY CrashedRun DEF LogInv, Given
<1>3. /\ \A n \in DOMAIN refs' : HasDark(refs[n].fingerprint, refs[n].reference)'
      /\ \A fingerprint, reference :
           HasDark(fingerprint, reference) =>
             \E d \in DOMAIN runs' : DarkOf(d, fingerprint, reference)'
  BY <1>1, <1>2, DarkKept
<1>4. ASSUME NEW r \in DOMAIN runs
      PROVE  \/ runs'[r] = runs[r]
             \/ /\ runs'[r].pc = "over" /\ runs'[r].status = "lost"
                /\ runs'[r].view = <<>> /\ runs'[r].reference = NoReference
  <2>1. PICK lost : lost = With(Over, [status |-> "lost"])
    OBVIOUS
  <2>2. /\ DOMAIN lost = {"pc", "wire", "stack", "view", "reference", "status"}
        /\ lost["pc"] = "over" /\ lost["status"] = "lost"
    BY <2>1, OverFields
  <2>3. lost["view"] = <<>> /\ lost["reference"] = NoReference
    <3>1. Over["view"] = <<>> /\ Over["reference"] = NoReference
      BY DEF Over
    <3> QED BY <2>1, <3>1, OverFields, WithOld
  <2>4. runs'[r] = runs[r] \/ runs'[r] = With(runs[r], lost)
    BY <2>1 DEF Crash
  <2>5. \A k \in DOMAIN lost : With(runs[r], lost)[k] = lost[k]
    BY WithNew
  <2> QED BY <2>2, <2>3, <2>4, <2>5
<1>5. ASSUME NEW s \in DOMAIN runs'
      PROVE  /\ ViewRight(s, runs'[s]) /\ ReferenceRight(runs[s])'
             /\ runs'[s].via = "reference" => Measures(runs'[s].params)
  <2>1. s \in DOMAIN runs /\ ViewRight(s, runs[s]) /\ ReferenceRight(runs[s])
        /\ (runs[s].via = "reference" => Measures(runs[s].params))
    BY <1>1 DEF DarkInv
  <2>2. ViewRight(s, runs'[s])
    BY <1>4, <2>1 DEF ViewRight, Taking
  <2>3. PICK fingerprint, reference : fingerprint = Fingerprint(runs'[s].params)
                                      /\ reference = runs'[s].reference
    OBVIOUS
  <2>4. reference # NoReference =>
          Measures(runs'[s].params) /\ \E d \in DOMAIN runs' : DarkOf(d, fingerprint, reference)'
    <3>1. SUFFICES ASSUME reference # NoReference
                   PROVE  /\ Measures(runs'[s].params)
                          /\ \E d \in DOMAIN runs' : DarkOf(d, fingerprint, reference)'
      OBVIOUS
    <3>2. runs'[s] = runs[s]
      BY <1>4, <2>1, <2>3, <3>1
    <3>3. Measures(runs[s].params) /\ HasDark(fingerprint, reference)
      BY <2>1, <2>3, <3>1, <3>2 DEF ReferenceRight
    <3> QED BY <1>3, <3>2, <3>3
  <2>5. ReferenceRight(runs[s])'
    BY <2>3, <2>4 DEF ReferenceRight, HasDark
  <2> QED BY <1>2, <2>1, <2>2, <2>5
<1> QED BY <1>3, <1>5 DEF DarkInv

(* The invariant holds after every step.                                    *)
LEMMA NextDarkInv ==
  ASSUME LightCounts, RequestsLegal, LogInv, RefsFit, DataInv, DarkInv, [Next]_vars
  PROVE  DarkInv'
<1>1. ASSUME UNCHANGED runs PROVE DarkInv'
  <2>1. refs' = refs
    <3>1. ASSUME NEW r \in DOMAIN runs, Answer(r) PROVE FALSE
      <4>1. runs'[r].pc = "over" /\ runs[r].pc = "answer"
        BY <3>1, EndKind DEF Answer
      <4> QED BY <1>1, <4>1
    <3> QED BY <3>1, RefsWritten
  <2> QED BY <1>1, <2>1 DEF DarkInv, HasDark, DarkOf, ReferenceRight
<1>2. CASE \E r \in DOMAIN runs : Step(r)
  BY <1>2, StepDarkInv
<1>3. CASE Request
  <2>1. CASE TakesAsked
    BY <2>1, TakesDarkInv DEF TakesAsked
  <2>2. CASE NotesLegal
    BY <1>1, <2>2 DEF NotesLegal
  <2> QED BY <1>3, <2>1, <2>2, RequestLegal DEF DataInv
<1>4. CASE \E e \in jobs : StartJob(e)
  <2>1. PICK e \in jobs : StartJob(e)
    BY <1>4
  <2>2. \/ \E mode, body, p : /\ Takes("schedule", mode, body, p, e)
                              /\ Asks("schedule", mode, body, p)
        \/ UNCHANGED runs
    BY <2>1, JobLegal DEF DataInv
  <2> QED BY <1>1, <2>2, TakesDarkInv
<1>5. CASE Crash
  BY <1>5, CrashDarkInv
<1>6. CASE SetSavePath \/ calibration_status \/ RequestStop \/ StopReturns \/ UNCHANGED vars
  <2>1. UNCHANGED runs
    BY <1>6 DEF SetSavePath, calibration_status, RequestStop, StopReturns, vars
  <2> QED BY <1>1, <2>1
<1> QED BY <1>2, <1>3, <1>4, <1>5, <1>6 DEF Next

(* See NextDarkInv.                                                         *)
LEMMA InitDarkInv == Init => DarkInv /\ RefsFit
<1> SUFFICES ASSUME Init PROVE DarkInv /\ RefsFit
  OBVIOUS
<1>1. refs = <<>> /\ runs = <<>>
  BY DEF Init
<1>2. DOMAIN runs = {} /\ DOMAIN refs = {}
  BY <1>1
<1>3. IsSeq(refs)
  BY <1>1 DEF IsSeq
<1> QED BY <1>2, <1>3 DEF DarkInv, RefsFit

-----------------------------------------------------------------------------
(* What is shown of a signal.                                               *)

(* A pixel of it: the signal less the dark count, to the nearest count.     *)
LEMMA PixelShown ==
  ASSUME NEW light \in Int, NEW dark \in Int
  PROVE  2 * Rint(Clip(2 * light - dark)) - Clip(2 * light - dark) \in {-1, 0, 1}
<1>1. PICK exact \in Nat : exact = Clip(2 * light - dark)
  BY DEF Clip
<1> QED BY <1>1, RintNear

(* A frame of it.                                                           *)
LEMMA FrameCorrected ==
  ASSUME NEW m \in Nat \ {0}, NEW stack, NEW reference, Len(reference) = m,
         NEW k \in DOMAIN stack, NEW s, s = (k - 1) % m, NEW px \in DOMAIN stack[k]
  PROVE  apply_dark_correction(stack, reference)[k][px]
           = Rint(Clip(2 * stack[k][px] - reference[s + 1][px]))
BY DEF apply_dark_correction

(* The invariant says so of every run.                                      *)
LEMMA DarkShown ==
  ASSUME LightCounts, LogInv, DataInv, DarkInv PROVE CorrectionFits
<1>0. DOMAIN runs \subseteq Int
  BY SeqDomain DEF LogInv, RunsFull
<1>1. ASSUME NEW r \in DOMAIN runs, runs[r].view # <<>>
      PROVE  LET steps == IF runs[r].params.mode = "gated" THEN runs[r].done ELSE 1
             IN  \E d \in DOMAIN runs :
                   /\ runs[d].via = "reference"
                   /\ Config(runs[d].params) = Config(runs[r].params)
                   /\ \A k \in DOMAIN runs[r].view :
                        LET s == (k - 1) % steps
                            i == (k - 1) \div steps
                            repeats == [j \in 1..runs[d].params.iterations |-> Truth(d, j - 1, s)]
                            light == Truth(r, i, s)
                            dark == runs[r].reference[s + 1]
                        IN  \A px \in DOMAIN light :
                              LET exact == Clip(2 * light[px] - dark[px])
                                  shown == 2 * runs[r].view[k][px]
                              IN  /\ IsDark(dark[px], [j \in DOMAIN repeats |-> repeats[j][px]])
                                  /\ shown - exact \in {-1, 0, 1}
  <2>1. PICK run, p, view, reference :
          /\ run = runs[r] /\ p = run.params /\ view = run.view /\ reference = run.reference
    OBVIOUS
  <2>2. ViewRight(r, run) /\ ReferenceRight(run) /\ view # <<>>
    BY <1>1, <2>1 DEF DarkInv
  <2>3. /\ reference # NoReference /\ run.done \in Nat
        /\ p.mode = "gated" => run.done = StepsOf(p)
        /\ view = apply_dark_correction(StackOf(r, run), reference)
    BY <2>1, <2>2 DEF ViewRight
  <2>4. Measures(p) /\ HasDark(Fingerprint(p), reference)
    BY <2>1, <2>2, <2>3 DEF ReferenceRight
  <2>5. Sane(p)
    BY <2>1, <2>4 DEF DataInv, DataFits
  <2>6. PICK d \in DOMAIN runs : DarkOf(d, Fingerprint(p), reference)
    BY <2>4 DEF HasDark
  <2>7. PICK q : q = runs[d].params
    OBVIOUS
  <2>8. /\ Measures(q) /\ Sane(q) /\ q.iterations \in Nat \ {0} /\ StepsOf(q) >= 1
        /\ runs[d].via = "reference"
        /\ Fingerprint(p) = Fingerprint(q) /\ reference = BuiltOf(d, q)
    BY <2>6, <2>7 DEF DarkOf
  <2>9. /\ Config(p) = Config(q) /\ StepsOf(p) = StepsOf(q)
        /\ Size(p.depth, p.width) = Size(q.depth, q.width)
    BY <2>4, <2>5, <2>8, FingerprintTells
  <2>10. PICK m \in Nat \ {0} : m = StepsOf(p) /\ m = StepsOf(q)
    BY <2>4, <2>5, <2>8, <2>9, StepsAre
  <2>11. m = IF p.mode = "gated" THEN run.done ELSE 1
    BY <2>3, <2>10 DEF StepsOf
  <2>12. PICK stack : stack = StackOf(r, run)
    OBVIOUS
  <2>13. /\ Len(reference) = m
         /\ \A k \in DOMAIN stack :
              LET s == (k - 1) % m
                  i == (k - 1) \div m
              IN  /\ s \in Nat /\ i \in Nat /\ s < m
                  /\ stack[k] = TruthOf(r, p, i, s)
    <3>1. stack = [k \in 1..FramesOf(p, run.done) |-> FrameOf(r, p, run.done, k)]
      BY <2>1, <2>12 DEF StackOf
    <3>2. PICK done \in Nat : done = run.done
      BY <2>3
    <3>3. /\ Len(BuiltOf(d, q)) = StepsOf(p)
          /\ LET taken == [k \in 1..FramesOf(p, done) |-> FrameOf(r, p, done, k)]
             IN  \A k \in DOMAIN taken :
                   LET s == (k - 1) % StepsOf(p)
                       i == (k - 1) \div StepsOf(p)
                   IN  /\ s \in Nat /\ i \in Nat /\ s < StepsOf(p)
                       /\ taken[k] = TruthOf(r, p, i, s)
      <4>1. StepsOf(p) >= 1 /\ r \in Int /\ d \in Int
        BY <1>0, <2>10
      <4>2. p.mode = "gated" => done = StepsOf(p)
        BY <2>3, <3>2
      <4> QED BY <2>4, <2>5, <2>8, <4>1, <4>2, SweepsCorrectable
    <3> QED BY <2>8, <2>10, <3>1, <3>2, <3>3
  <2>14. DOMAIN view = DOMAIN stack
    BY <2>3, <2>12 DEF apply_dark_correction
  <2> DEFINE steps == IF runs[r].params.mode = "gated" THEN runs[r].done ELSE 1
  <2>15. steps = m
    BY <2>1, <2>11
  <2> HIDE DEF steps
  <2>16. \A k \in DOMAIN runs[r].view :
           LET s == (k - 1) % steps
               i == (k - 1) \div steps
               repeats == [j \in 1..runs[d].params.iterations |-> Truth(d, j - 1, s)]
               light == Truth(r, i, s)
               dark == runs[r].reference[s + 1]
           IN  \A px \in DOMAIN light :
                 LET exact == Clip(2 * light[px] - dark[px])
                     shown == 2 * runs[r].view[k][px]
                 IN  /\ IsDark(dark[px], [j \in DOMAIN repeats |-> repeats[j][px]])
                     /\ shown - exact \in {-1, 0, 1}
    <3> TAKE k \in DOMAIN runs[r].view
    <3>1. PICK s, i : s = (k - 1) % steps /\ i = (k - 1) \div steps
      OBVIOUS
    <3>2. PICK repeats, light : /\ repeats = [j \in 1..runs[d].params.iterations |-> Truth(d, j - 1, s)]
                                /\ light = Truth(r, i, s)
      OBVIOUS
    <3>3. \A px \in DOMAIN light :
            /\ IsDark(runs[r].reference[s + 1][px], [j \in DOMAIN repeats |-> repeats[j][px]])
            /\ 2 * runs[r].view[k][px] - Clip(2 * light[px] - runs[r].reference[s + 1][px])
                 \in {-1, 0, 1}
      <4> TAKE px \in DOMAIN light
      <4>1. k \in DOMAIN view /\ s = (k - 1) % m /\ i = (k - 1) \div m
        BY <2>1, <2>15, <3>1
      <4>2. repeats = [j \in 1..q.iterations |-> Truth(d, j - 1, s)]
        BY <2>7, <3>2
      <4>3. s \in Nat /\ i \in Nat /\ s < m /\ stack[k] = TruthOf(r, p, i, s)
        BY <2>13, <2>14, <4>1
      <4>4. light = TruthOf(r, p, i, s) /\ light = stack[k]
        BY <2>1, <3>2, <4>3, TruthIs
      <4>5. light \in [1..Size(p.depth, p.width) -> 0..LargestCount]
        <5>1. i \in Int /\ s < StepsOf(p) /\ r \in Int
          BY <1>0, <2>10, <4>3
        <5>2. TruthOf(r, p, i, s) \in [1..Size(p.depth, p.width) -> 0..LargestCount]
          BY <2>4, <2>5, <4>3, <5>1, TruthImage
        <5> QED BY <4>4, <5>2
      <4>6. px \in 1..Size(q.depth, q.width) /\ light[px] \in Int
        <5>1. DOMAIN light = 1..Size(p.depth, p.width) /\ light[px] \in 0..LargestCount
          BY <4>5
        <5>2. light[px] \in Int
          BY <5>1
        <5> QED BY <2>9, <5>1, <5>2
      <4>7. /\ reference[s + 1][px] \in Nat
            /\ IsDark(reference[s + 1][px], Repeats(d, q, s, px))
        <5>1. d \in Int /\ s < StepsOf(q)
          BY <1>0, <2>10, <4>3
        <5> QED BY <2>8, <4>3, <4>6, <5>1, BuiltDark
      <4>8. [j \in DOMAIN repeats |-> repeats[j][px]] = Repeats(d, q, s, px)
        <5>1. DOMAIN repeats = 1..q.iterations
          BY <4>2
        <5>2. \A j \in 1..q.iterations : repeats[j][px] = TruthOf(d, q, j - 1, s)[px]
          BY <2>7, <4>2, TruthIs
        <5> QED BY <5>1, <5>2 DEF Repeats
      <4>9. view[k][px] = Rint(Clip(2 * light[px] - reference[s + 1][px]))
        BY <2>3, <2>12, <2>13, <2>14, <4>1, <4>4, FrameCorrected
      <4>10. reference[s + 1][px] \in Int
        BY <4>7
      <4>11. 2 * view[k][px] - Clip(2 * light[px] - reference[s + 1][px]) \in {-1, 0, 1}
        BY <4>6, <4>9, <4>10, PixelShown
      <4> QED BY <2>1, <4>7, <4>8, <4>11
    <3> QED BY <3>1, <3>2, <3>3
  <2>17. runs[d].via = "reference" /\ Config(runs[d].params) = Config(runs[r].params)
    BY <2>1, <2>7, <2>8, <2>9
  <2> QED BY <2>16, <2>17, Zenon DEF steps
<1>2. \A r \in DOMAIN runs : runs[r].status # "uncorrectable"
  BY DEF DarkInv, ViewRight
<1> QED BY <1>1, <1>2 DEF CorrectionFits

(* A corrected view is, to the nearest count and never below zero, the      *)
(* signal less the dark counts of a measurement with the same configuration *)
(* at the same gate offset, in every repeat, whatever became of that        *)
(* measurement and however often the bridge was restarted since; a sweep    *)
(* that was cut short goes without; and no run fails for its correction.    *)
(* (_resolve_dark_reference, build_reference, apply_dark_correction)        *)
THEOREM CorrectionsRight == LightCounts /\ RequestsLegal /\ Spec => []CorrectionFits
<1> SUFFICES ASSUME LightCounts, RequestsLegal PROVE Spec => []CorrectionFits
  OBVIOUS
<1>1. Init => WholeInv /\ RefsFit /\ DarkInv
  BY InitWholeInv, InitDarkInv
<1>2. WholeInv /\ RefsFit /\ DarkInv /\ [Next]_vars => (WholeInv /\ RefsFit /\ DarkInv)'
  <2> SUFFICES ASSUME WholeInv, RefsFit, DarkInv, [Next]_vars
               PROVE  WholeInv' /\ RefsFit' /\ DarkInv'
    OBVIOUS
  <2>1. LogInv /\ DataInv
    BY DEF WholeInv
  <2> QED BY <2>1, NextWholeInv, NextRefs, NextDarkInv
<1>3. WholeInv /\ RefsFit /\ DarkInv => CorrectionFits
  BY DarkShown DEF WholeInv
<1> QED BY <1>1, <1>2, <1>3, PTL DEF Spec
=============================================================================
