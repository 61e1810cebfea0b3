------------------------- MODULE MeasurementProofs -------------------------
(***************************************************************************)
(* Every run saves to a folder of its own: a proof of Measurement's        *)
(* OwnFolder for any sensor, any requests, any number of runs, failures    *)
(* and restarts.                                                           *)
(*                                                                         *)
(* A run chooses its folder in one step (List) and makes it in a later one *)
(* (Make).  The invariant follows it from one to the other.                *)
(***************************************************************************)
EXTENDS Measurement, TLAPS

-----------------------------------------------------------------------------
(* Sequences of whatever.                                                   *)

IsSeq(s) == \E S : s \in Seq(S)

(* A sequence has a length and an element at every place up to it.          *)
LEMMA SeqDomain ==
  ASSUME NEW s, IsSeq(s)
  PROVE  Len(s) \in Nat /\ DOMAIN s = 1..Len(s)
BY DEF IsSeq

(* Appending leaves what is there and adds one.                             *)
LEMMA SeqAppend ==
  ASSUME NEW s, IsSeq(s), NEW x
  PROVE  /\ IsSeq(Append(s, x))
         /\ DOMAIN Append(s, x) = DOMAIN s \cup {Len(s) + 1}
         /\ Len(s) + 1 \notin DOMAIN s
         /\ Append(s, x)[Len(s) + 1] = x
         /\ \A i \in DOMAIN s : Append(s, x)[i] = s[i]
<1>1. PICK S : s \in Seq(S) BY DEF IsSeq
<1>2. s \in Seq(S \cup {x}) BY <1>1
<1>3. Append(s, x) \in Seq(S \cup {x}) BY <1>2
<1>4. IsSeq(Append(s, x)) BY <1>3 DEF IsSeq
<1> QED BY <1>2, <1>4

(* A sequence with the same places is one.                                  *)
LEMMA SeqSame ==
  ASSUME NEW s, IsSeq(s), NEW i \in DOMAIN s, NEW x
  PROVE  /\ IsSeq([s EXCEPT ![i] = x])
         /\ DOMAIN [s EXCEPT ![i] = x] = DOMAIN s
<1>1. PICK S : s \in Seq(S) BY DEF IsSeq
<1>2. s \in Seq(S \cup {x}) BY <1>1
<1>3. [s EXCEPT ![i] = x] \in Seq(S \cup {x}) BY <1>2
<1> QED BY <1>2, <1>3 DEF IsSeq

-----------------------------------------------------------------------------
(* The invariant.                                                           *)

(* What the invariant tells of a run.                                       *)
Keys == {"pc", "made", "folder", "beside"}
Taking == {"io", "boundary", "correct"}
Written == {"frames", "sidecar", "reduce"}

RunsKnown == IsSeq(runs) /\ \A r \in DOMAIN runs : Keys \subseteq DOMAIN runs[r]

(* What NextNumber looks at.                                                *)
Numbers(base, mode) == {f.number : f \in {g \in DOMAIN folders : g.base = base /\ g.mode = mode}}

(* There is a last number in every directory.                               *)
HasLast(base, mode) ==
  \E n \in Numbers(base, mode) \cup {0} :
    n \in Nat /\ \A other \in Numbers(base, mode) : other \in Nat /\ other <= n

NumbersEnd == \A base, mode : HasLast(base, mode)

(* Where a run is fits what has become of its folder.                       *)
FolderFits(r) ==
  /\ runs[r].made => runs[r].folder \in DOMAIN folders
  /\ runs[r].pc \in Taking \cup {"list", "make"} => ~runs[r].made
  /\ runs[r].pc = "make" => runs[r].folder.number \in Nat
  /\ runs[r].pc \in Written => runs[r].made

(* Runs under way at the same time were admitted one beside the other; and  *)
(* only such a run may be about to make a folder that another one has.      *)
Apart(r, s) ==
  /\ runs[r].pc \in Underway /\ runs[s].pc \in Underway => Together(r, s)
  /\ runs[r].pc = "make" /\ runs[s].made /\ runs[r].folder = runs[s].folder => Together(r, s)
  /\ runs[r].made /\ runs[s].made /\ runs[r].folder = runs[s].folder => Together(r, s)

Inv ==
  /\ RunsKnown
  /\ NumbersEnd
  /\ \A r \in DOMAIN runs : FolderFits(r)
  /\ \A r, s \in DOMAIN runs : r # s => Apart(r, s)

(* The invariant is more than what is to be shown.                          *)
LEMMA InvOwnFolder == Inv => OwnFolder
BY DEF Inv, Apart, OwnFolder

-----------------------------------------------------------------------------
(* Fields of a run.                                                         *)

(* A run with other fields has those it had and the new ones.               *)
LEMMA WithDomain ==
  ASSUME NEW run, NEW fields
  PROVE  DOMAIN With(run, fields) = DOMAIN run \cup DOMAIN fields
BY DEF With

(* The new fields win.                                                      *)
LEMMA WithNew ==
  ASSUME NEW run, NEW fields, NEW k \in DOMAIN fields
  PROVE  With(run, fields)[k] = fields[k]
BY DEF With

(* What they do not name is kept.                                           *)
LEMMA WithOld ==
  ASSUME NEW run, NEW fields, NEW k \in DOMAIN run \ DOMAIN fields
  PROVE  With(run, fields)[k] = run[k]
BY DEF With

-----------------------------------------------------------------------------
(* Steps that leave the folders to themselves.                              *)

(* From one place to another, without choosing a folder or making it.       *)
Moves(from, to) ==
  \/ to = from
  \/ to \in {"answer", "over"}
  \/ from \in Underway /\ to = "finish"
  \/ from \in Taking /\ to \in Taking \cup {"list"}
  \/ from \in Written /\ to \in Written

Quiet ==
  /\ IsSeq(runs') /\ DOMAIN runs' = DOMAIN runs
  /\ DOMAIN folders' = DOMAIN folders
  /\ \A r \in DOMAIN runs :
       /\ Keys \subseteq DOMAIN runs'[r]
       /\ runs'[r].made = runs[r].made
       /\ runs'[r].folder = runs[r].folder
       /\ runs'[r].beside = runs[r].beside
       /\ Moves(runs[r].pc, runs'[r].pc)

(* Numbers are those of the folders there are.                              *)
LEMMA NumbersSame == NumbersEnd /\ DOMAIN folders' = DOMAIN folders => NumbersEnd'
BY DEF NumbersEnd, HasLast, Numbers

(* They preserve the invariant.                                             *)
LEMMA QuietInv == Inv /\ Quiet => Inv'
<1> SUFFICES ASSUME Inv, Quiet PROVE Inv'
  OBVIOUS
<1>1. RunsKnown'
  BY DEF Quiet, RunsKnown
<1>2. NumbersEnd'
  BY NumbersSame DEF Inv, Quiet
<1>3. ASSUME NEW r \in DOMAIN runs PROVE FolderFits(r)'
  BY DEF Inv, Quiet, FolderFits, Moves, Taking, Written, Underway, Saving
<1>4. ASSUME NEW r \in DOMAIN runs, NEW s \in DOMAIN runs, r # s PROVE Apart(r, s)'
  BY <1>4 DEF Inv, Quiet, Apart, Together, Moves, Taking, Written, Underway, Saving
<1> QED
  BY <1>1, <1>2, <1>3, <1>4 DEF Inv, Quiet

(* A run that goes on with fields other than these is such a step.          *)
LEMMA WentQuietly ==
  ASSUME Inv, NEW r \in DOMAIN runs, NEW fields, Goes(r, fields),
         DOMAIN folders' = DOMAIN folders,
         DOMAIN fields \cap {"made", "folder", "beside"} = {},
         "pc" \in DOMAIN fields => Moves(runs[r].pc, fields.pc)
  PROVE  Inv'
<1>1. runs' = [runs EXCEPT ![r] = With(runs[r], fields)]
  BY DEF Goes
<1>2. IsSeq(runs') /\ DOMAIN runs' = DOMAIN runs
  BY <1>1, SeqSame DEF Inv, RunsKnown
<1>3. runs'[r] = With(runs[r], fields)
  BY <1>1
<1>4. ASSUME NEW s \in DOMAIN runs, s # r PROVE runs'[s] = runs[s]
  BY <1>1, <1>4
<1>5. Keys \subseteq DOMAIN runs[r]
  BY DEF Inv, RunsKnown
<1>6. /\ Keys \subseteq DOMAIN runs'[r]
      /\ runs'[r].made = runs[r].made
      /\ runs'[r].folder = runs[r].folder
      /\ runs'[r].beside = runs[r].beside
      /\ Moves(runs[r].pc, runs'[r].pc)
  <2>1. DOMAIN runs'[r] = DOMAIN runs[r] \cup DOMAIN fields
    BY <1>3, WithDomain
  <2>2. ASSUME NEW k \in Keys, k \notin DOMAIN fields PROVE runs'[r][k] = runs[r][k]
    <3>1. With(runs[r], fields)[k] = runs[r][k]
      BY <1>5, <2>2, WithOld
    <3> QED BY <1>3, <3>1
  <2>3. runs'[r]["made"] = runs[r]["made"] /\ runs'[r]["folder"] = runs[r]["folder"]
          /\ runs'[r]["beside"] = runs[r]["beside"]
    BY <2>2 DEF Keys
  <2>4. CASE "pc" \in DOMAIN fields
    <3>1. runs'[r]["pc"] = fields["pc"]
      <4>1. With(runs[r], fields)["pc"] = fields["pc"]
        BY <2>4, WithNew
      <4> QED BY <1>3, <4>1
    <3> QED BY <1>5, <2>1, <2>3, <2>4, <3>1
  <2>5. CASE "pc" \notin DOMAIN fields
    <3>1. runs'[r]["pc"] = runs[r]["pc"]
      BY <2>2, <2>5 DEF Keys
    <3> QED BY <1>5, <2>1, <2>3, <3>1 DEF Moves
  <2> QED BY <2>4, <2>5
<1>7. ASSUME NEW s \in DOMAIN runs
      PROVE  /\ Keys \subseteq DOMAIN runs'[s]
             /\ runs'[s].made = runs[s].made
             /\ runs'[s].folder = runs[s].folder
             /\ runs'[s].beside = runs[s].beside
             /\ Moves(runs[s].pc, runs'[s].pc)
  BY <1>4, <1>6 DEF Inv, RunsKnown, Moves
<1>8. Quiet
  BY <1>2, <1>7 DEF Quiet
<1> QED
  BY <1>8, QuietInv

(* So is a step that writes to the folder the run has made.                 *)
LEMMA WroteQuietly ==
  ASSUME Inv, NEW r \in DOMAIN runs, NEW content, NEW fields, Writes(r, content, fields),
         runs[r].pc \in Written,
         DOMAIN fields \cap {"made", "folder", "beside"} = {},
         "pc" \in DOMAIN fields, Moves(runs[r].pc, fields.pc)
  PROVE  Inv'
<1>1. runs[r].folder \in DOMAIN folders
  BY DEF Inv, FolderFits
<1>2. DOMAIN folders' = DOMAIN folders
  BY <1>1 DEF Writes
<1>3. Goes(r, fields)
  BY DEF Writes
<1> QED
  BY <1>2, <1>3, WentQuietly

-----------------------------------------------------------------------------
(* The steps that do not.                                                   *)

(* A run that is admitted knows of those under way.                         *)
LEMMA TakesInv ==
  ASSUME Inv, NEW via, NEW mode, NEW body, NEW p, NEW entry, Takes(via, mode, body, p, entry)
  PROVE  Inv'
<1> DEFINE new == NewRun(via, mode, body, p, entry)
           n == Len(runs) + 1
<1>1. runs' = Append(runs, new) /\ folders' = folders
  BY DEF Takes
<1>2. /\ Keys \subseteq DOMAIN new
      /\ new.pc \in {"io", "finish"}
      /\ new.made = FALSE
      /\ new.beside = {r \in DOMAIN runs : runs[r].pc \in Underway}
  BY DEF NewRun, Keys
<1> HIDE DEF new
<1>3. /\ IsSeq(runs')
      /\ DOMAIN runs' = DOMAIN runs \cup {n}
      /\ n \notin DOMAIN runs
      /\ runs'[n] = new
      /\ \A i \in DOMAIN runs : runs'[i] = runs[i]
  BY <1>1, SeqAppend DEF Inv, RunsKnown
<1> HIDE DEF n
<1>4. RunsKnown'
  BY <1>2, <1>3 DEF Inv, RunsKnown
<1>5. NumbersEnd'
  BY <1>1, NumbersSame DEF Inv
<1>6. ASSUME NEW r \in DOMAIN runs' PROVE FolderFits(r)'
  BY <1>1, <1>2, <1>3 DEF Inv, FolderFits, Taking, Written
<1>7. ASSUME NEW r \in DOMAIN runs', NEW s \in DOMAIN runs', r # s PROVE Apart(r, s)'
  <2>1. CASE r \in DOMAIN runs /\ s \in DOMAIN runs
    BY <1>3, <1>7, <2>1 DEF Inv, Apart, Together
  <2>2. CASE r = n /\ s \in DOMAIN runs
    BY <1>2, <1>3, <2>2 DEF Apart, Together
  <2>3. CASE s = n /\ r \in DOMAIN runs
    BY <1>2, <1>3, <2>3 DEF Apart, Together
  <2> QED BY <1>3, <1>7, <2>1, <2>2, <2>3
<1> QED
  BY <1>4, <1>5, <1>6, <1>7 DEF Inv

(* The number that is chosen is not in use in its directory.                *)
LEMMA NextNumberIsFree ==
  ASSUME Inv, NEW base, NEW mode
  PROVE  /\ NextNumber(DOMAIN folders, base, mode) \in Nat
         /\ \A f \in DOMAIN folders :
              f.base = base /\ f.mode = mode => f.number # NextNumber(DOMAIN folders, base, mode)
<1> DEFINE numbers == Numbers(base, mode)
           last == CHOOSE n \in numbers \cup {0} : \A other \in numbers : other <= n
<1>1. PICK m \in numbers \cup {0} :
        m \in Nat /\ \A other \in numbers : other \in Nat /\ other <= m
  BY DEF Inv, NumbersEnd, HasLast
<1>2. NextNumber(DOMAIN folders, base, mode) = 1 + last
  BY DEF NextNumber, Numbers
<1>3. last \in numbers \cup {0} /\ \A other \in numbers : other <= last
  BY <1>1
<1> HIDE DEF last
<1>4. last \in Nat
  BY <1>1, <1>3
<1>5. ASSUME NEW f \in DOMAIN folders, f.base = base, f.mode = mode
      PROVE  f.number \in numbers
  BY <1>5 DEF Numbers
<1> HIDE DEF numbers
<1>6. ASSUME NEW f \in DOMAIN folders, f.base = base, f.mode = mode
      PROVE  f.number # 1 + last
  BY <1>1, <1>3, <1>4, <1>5, <1>6
<1> QED
  BY <1>2, <1>4, <1>6

(* Choosing a folder.                                                       *)
LEMMA ListInv == ASSUME Inv, NEW r \in DOMAIN runs, List(r) PROVE Inv'
<1> DEFINE number == NextNumber(DOMAIN folders, BaseDir(savePath), runs[r].params.mode)
           chosen == [base |-> BaseDir(savePath), mode |-> runs[r].params.mode,
                      number |-> number, name |-> runs[r].params.name]
           fields == [pc |-> "make", folder |-> chosen]
<1>1. runs[r].pc = "list" /\ runs' = [runs EXCEPT ![r] = With(runs[r], fields)] /\ folders' = folders
  BY DEF List, Advance, Goes, disk
<1>2. number \in Nat /\ chosen \notin DOMAIN folders
  BY NextNumberIsFree
<1>3. chosen.number = number
  OBVIOUS
<1> HIDE DEF chosen
<1>fields. /\ DOMAIN fields = {"pc", "folder"}
           /\ fields["pc"] = "make" /\ fields["folder"] = chosen
  OBVIOUS
<1> HIDE DEF fields
<1>4. IsSeq(runs') /\ DOMAIN runs' = DOMAIN runs
  BY <1>1, SeqSame DEF Inv, RunsKnown
<1>5. runs'[r] = With(runs[r], fields) /\ \A s \in DOMAIN runs \ {r} : runs'[s] = runs[s]
  BY <1>1
<1>6. "made" \in DOMAIN runs[r] /\ "beside" \in DOMAIN runs[r]
  BY DEF Inv, RunsKnown, Keys
<1>7. /\ DOMAIN runs'[r] = DOMAIN runs[r] \cup {"pc", "folder"}
      /\ runs'[r].pc = "make" /\ runs'[r].folder = chosen
      /\ runs'[r].made = runs[r].made /\ runs'[r].beside = runs[r].beside
  <2>1. DOMAIN With(runs[r], fields) = DOMAIN runs[r] \cup {"pc", "folder"}
    BY <1>fields, WithDomain
  <2>2. With(runs[r], fields)["pc"] = "make"
    BY <1>fields, WithNew
  <2>3. With(runs[r], fields)["folder"] = chosen
    BY <1>fields, WithNew
  <2>4. With(runs[r], fields)["made"] = runs[r]["made"]
    BY <1>fields, <1>6, WithOld
  <2>5. With(runs[r], fields)["beside"] = runs[r]["beside"]
    BY <1>fields, <1>6, WithOld
  <2> QED BY <1>5, <2>1, <2>2, <2>3, <2>4, <2>5
<1>8. ~runs[r].made /\ runs[r].pc \in Underway
  BY <1>1 DEF Inv, FolderFits, Underway, Saving
<1>9. RunsKnown'
  BY <1>4, <1>5, <1>7 DEF Inv, RunsKnown
<1>10. NumbersEnd'
  BY <1>1, NumbersSame DEF Inv
<1>11. ASSUME NEW s \in DOMAIN runs PROVE FolderFits(s)'
  BY <1>1, <1>2, <1>3, <1>5, <1>7, <1>8 DEF Inv, FolderFits, Written
<1>12. ASSUME NEW q \in DOMAIN runs, NEW s \in DOMAIN runs, q # s PROVE Apart(q, s)'
  <2>1. CASE q # r /\ s # r
    BY <1>5, <1>12, <2>1 DEF Inv, Apart, Together
  <2>2. CASE q = r
    <3>1. runs[s].made => runs[s].folder # chosen
      BY <1>2 DEF Inv, FolderFits
    <3> QED BY <1>5, <1>7, <1>8, <1>12, <2>2, <3>1 DEF Inv, Apart, Together
  <2>3. CASE s = r
    BY <1>5, <1>7, <1>8, <1>12, <2>3 DEF Inv, Apart, Together
  <2> QED BY <2>1, <2>2, <2>3
<1> QED
  BY <1>4, <1>9, <1>10, <1>11, <1>12 DEF Inv

(* Making it.                                                               *)
LEMMA MakeInv == ASSUME Inv, NEW r \in DOMAIN runs, Make(r) PROVE Inv'
<1> DEFINE fields == [pc |-> "frames", made |-> TRUE]
           folder == runs[r].folder
<1>1. /\ runs[r].pc = "make"
      /\ runs' = [runs EXCEPT ![r] = With(runs[r], fields)]
      /\ DOMAIN folders' = DOMAIN folders \cup {folder}
  BY DEF Make, Writes, Goes
<1>2. DOMAIN fields = {"pc", "made"} /\ fields["pc"] = "frames" /\ fields["made"] = TRUE
  OBVIOUS
<1> HIDE DEF fields
<1>3. IsSeq(runs') /\ DOMAIN runs' = DOMAIN runs
  BY <1>1, SeqSame DEF Inv, RunsKnown
<1>4. runs'[r] = With(runs[r], fields) /\ \A s \in DOMAIN runs \ {r} : runs'[s] = runs[s]
  BY <1>1
<1>5. "folder" \in DOMAIN runs[r] /\ "beside" \in DOMAIN runs[r]
  BY DEF Inv, RunsKnown, Keys
<1>6. /\ DOMAIN runs'[r] = DOMAIN runs[r] \cup {"pc", "made"}
      /\ runs'[r].pc = "frames" /\ runs'[r].made = TRUE
      /\ runs'[r].folder = folder /\ runs'[r].beside = runs[r].beside
  <2>1. DOMAIN With(runs[r], fields) = DOMAIN runs[r] \cup {"pc", "made"}
    BY <1>2, WithDomain
  <2>2. With(runs[r], fields)["pc"] = "frames"
    BY <1>2, WithNew
  <2>3. With(runs[r], fields)["made"] = TRUE
    BY <1>2, WithNew
  <2>4. With(runs[r], fields)["folder"] = runs[r]["folder"]
    BY <1>2, <1>5, WithOld
  <2>5. With(runs[r], fields)["beside"] = runs[r]["beside"]
    BY <1>2, <1>5, WithOld
  <2> QED BY <1>4, <2>1, <2>2, <2>3, <2>4, <2>5
<1>7. folder.number \in Nat
  BY <1>1 DEF Inv, FolderFits
<1>8. RunsKnown'
  BY <1>3, <1>4, <1>6 DEF Inv, RunsKnown
<1>9. NumbersEnd'
  <2> SUFFICES ASSUME NEW base, NEW mode PROVE HasLast(base, mode)'
    BY DEF NumbersEnd
  <2>1. PICK m \in Numbers(base, mode) \cup {0} :
          m \in Nat /\ \A other \in Numbers(base, mode) : other \in Nat /\ other <= m
    BY DEF Inv, NumbersEnd, HasLast
  <2>2. Numbers(base, mode)' = Numbers(base, mode)
                                \cup {f.number : f \in {g \in {folder} : g.base = base /\ g.mode = mode}}
    BY <1>1 DEF Numbers
  <2> DEFINE before == Numbers(base, mode)
             after == Numbers(base, mode)'
  <2>3. folder.number \in Nat
    BY <1>7
  <2>4. after = before \/ after = before \cup {folder.number}
    BY <2>2
  <2> HIDE DEF before, after, folder
  <2>5. \E n \in after \cup {0} : n \in Nat /\ \A other \in after : other \in Nat /\ other <= n
    <3>1. CASE after = before
      BY <2>1, <3>1 DEF before
    <3>2. CASE after = before \cup {folder.number} /\ folder.number <= m
      BY <2>1, <2>3, <3>2 DEF before
    <3>3. CASE after = before \cup {folder.number} /\ m < folder.number
      BY <2>1, <2>3, <3>3 DEF before
    <3> QED BY <2>1, <2>3, <2>4, <3>1, <3>2, <3>3
  <2> QED BY <2>5 DEF HasLast, after
<1>10. ASSUME NEW s \in DOMAIN runs PROVE FolderFits(s)'
  BY <1>1, <1>4, <1>6, <1>10 DEF Inv, FolderFits, Taking, Written
<1>11. ASSUME NEW q \in DOMAIN runs, NEW s \in DOMAIN runs, q # s PROVE Apart(q, s)'
  <2>1. CASE q # r /\ s # r
    BY <1>4, <1>11, <2>1 DEF Inv, Apart, Together
  <2>2. CASE q = r
    BY <1>1, <1>4, <1>6, <1>11, <2>2 DEF Inv, Apart, Together, Underway, Saving
  <2>3. CASE s = r
    BY <1>1, <1>4, <1>6, <1>11, <2>3 DEF Inv, Apart, Together, Underway, Saving
  <2> QED BY <2>1, <2>2, <2>3
<1> QED
  BY <1>3, <1>8, <1>9, <1>10, <1>11 DEF Inv

(* A restart ends every run where it is.                                    *)
LEMMA CrashInv == Inv /\ Crash => Inv'
<1> SUFFICES ASSUME Inv, Crash PROVE Inv'
  OBVIOUS
<1> DEFINE fields == With(Over, [status |-> "lost"])
           after(r) == IF runs[r].pc = "over" THEN runs[r] ELSE With(runs[r], fields)
<1>1. runs' = [r \in DOMAIN runs |-> after(r)] /\ folders' = folders
  BY DEF Crash, disk
<1>2. DOMAIN fields \cap {"made", "folder", "beside"} = {}
      /\ "pc" \in DOMAIN fields /\ fields["pc"] = "over"
  <2>1. DOMAIN fields = DOMAIN Over \cup {"status"}
    BY WithDomain
  <2>2. fields["pc"] = Over["pc"]
    BY WithOld DEF Over
  <2> QED BY <2>1, <2>2 DEF Over
<1> HIDE DEF fields
<1>3. IsSeq(runs') /\ DOMAIN runs' = DOMAIN runs
  <2>1. DOMAIN runs = 1..Len(runs) /\ Len(runs) \in Nat
    BY SeqDomain DEF Inv, RunsKnown
  <2>2. runs' \in Seq({after(r) : r \in DOMAIN runs})
    BY <1>1, <2>1
  <2> QED BY <1>1, <2>2 DEF IsSeq
<1>4. ASSUME NEW r \in DOMAIN runs
      PROVE  /\ Keys \subseteq DOMAIN runs'[r]
             /\ runs'[r].made = runs[r].made
             /\ runs'[r].folder = runs[r].folder
             /\ runs'[r].beside = runs[r].beside
             /\ Moves(runs[r].pc, runs'[r].pc)
  <2>1. Keys \subseteq DOMAIN runs[r]
    BY DEF Inv, RunsKnown
  <2>2. CASE runs[r].pc = "over"
    BY <1>1, <2>1, <2>2 DEF Moves
  <2>3. CASE runs[r].pc # "over"
    <3>1. runs'[r] = With(runs[r], fields)
      BY <1>1, <2>3
    <3>2. DOMAIN With(runs[r], fields) = DOMAIN runs[r] \cup DOMAIN fields
      BY WithDomain
    <3>3. With(runs[r], fields)["made"] = runs[r]["made"]
      BY <1>2, <2>1, WithOld DEF Keys
    <3>4. With(runs[r], fields)["folder"] = runs[r]["folder"]
      BY <1>2, <2>1, WithOld DEF Keys
    <3>5. With(runs[r], fields)["beside"] = runs[r]["beside"]
      BY <1>2, <2>1, WithOld DEF Keys
    <3>6. With(runs[r], fields)["pc"] = "over"
      BY <1>2, WithNew
    <3> QED BY <2>1, <3>1, <3>2, <3>3, <3>4, <3>5, <3>6 DEF Moves
  <2> QED BY <2>2, <2>3
<1>5. Quiet
  BY <1>1, <1>3, <1>4 DEF Quiet
<1> QED
  BY <1>5, QuietInv

-----------------------------------------------------------------------------
(* Every step of a run.                                                     *)

(* A run that advances leaves the disk alone.                               *)
LEMMA AdvancedQuietly ==
  ASSUME Inv, NEW r \in DOMAIN runs, NEW fields, Advance(r, fields),
         DOMAIN fields \cap {"made", "folder", "beside"} = {},
         "pc" \in DOMAIN fields => Moves(runs[r].pc, fields.pc)
  PROVE  Inv'
<1>1. Goes(r, fields) /\ DOMAIN folders' = DOMAIN folders
  BY DEF Advance, disk
<1> QED
  BY <1>1, WentQuietly

(* One that fails is finished.                                              *)
LEMMA FailedQuietly ==
  ASSUME Inv, NEW r \in DOMAIN runs, NEW status, runs[r].pc \in Underway,
         Fail(r, status) \/ Broken(r, status)
  PROVE  Inv'
<1> DEFINE fields == [pc |-> "finish", status |-> status]
<1>1. Goes(r, fields) /\ DOMAIN folders' = DOMAIN folders
  BY DEF Fail, Broken, Advance, disk
<1>2. DOMAIN fields = {"pc", "status"} /\ Moves(runs[r].pc, fields.pc)
  BY DEF Moves
<1> HIDE DEF fields
<1> QED
  BY <1>1, <1>2, WentQuietly

(* What the camera sent is taken, or the run fails.                         *)
LEMMA ReceivedQuietly ==
  ASSUME Inv, NEW r \in DOMAIN runs, NEW data, NEW frames, NEW fields,
         Received(r, data, frames, fields), runs[r].pc \in Underway,
         DOMAIN fields \cap {"made", "folder", "beside"} = {},
         "pc" \in DOMAIN fields => Moves(runs[r].pc, fields.pc)
  PROVE  Inv'
<1>1. Advance(r, fields) \/ Fail(r, "error")
  BY DEF Received
<1> QED
  BY <1>1, AdvancedQuietly, FailedQuietly

(* Taking the data.                                                         *)
LEMMA TakingInv ==
  ASSUME Inv, NEW r \in DOMAIN runs,
         \/ IntensityExchange(r) \/ GatedExchange(r) \/ PacedExchange(r)
         \/ FlimExchange(r) \/ ExchangeFails(r) \/ Boundary(r) \/ Correct(r)
  PROVE  Inv'
<1>1. CASE IntensityExchange(r)
  <2>1. PICK data, n, wire, done, pc :
          /\ Received(r, data, n, [wire |-> wire, done |-> done, pc |-> pc])
          /\ pc \in {"correct", "boundary"}
    BY <1>1 DEF IntensityExchange
  <2>2. runs[r].pc = "io"
    BY <1>1 DEF IntensityExchange
  <2> QED
    BY <2>1, <2>2, ReceivedQuietly DEF Moves, Taking, Underway
<1>2. CASE GatedExchange(r)
  <2>1. PICK data, n, done :
          Received(r, data, n, [wire |-> data, done |-> done, pc |-> "correct"])
    BY <1>2 DEF GatedExchange
  <2>2. runs[r].pc = "io"
    BY <1>2 DEF GatedExchange
  <2> QED
    BY <2>1, <2>2, ReceivedQuietly DEF Moves, Taking, Underway
<1>3. CASE PacedExchange(r)
  <2>1. runs[r].pc = "io"
    BY <1>3 DEF PacedExchange
  <2>2. CASE Fail(r, "aborted")
    BY <2>1, <2>2, FailedQuietly DEF Underway
  <2>3. CASE \E data, n, stack, done, pc :
               /\ Received(r, data, n, [stack |-> stack, done |-> done, pc |-> pc])
               /\ pc \in {"correct", "boundary"}
    BY <2>1, <2>3, ReceivedQuietly DEF Moves, Taking, Underway
  <2> QED
    BY <1>3, <2>2, <2>3 DEF PacedExchange
<1>4. CASE FlimExchange(r)
  <2>1. PICK done : Advance(r, [pc |-> "finish", done |-> done])
    BY <1>4 DEF FlimExchange
  <2>2. runs[r].pc = "io"
    BY <1>4 DEF FlimExchange
  <2> QED
    BY <2>1, <2>2, AdvancedQuietly DEF Moves, Underway
<1>5. CASE ExchangeFails(r)
  BY <1>5, FailedQuietly DEF ExchangeFails, Underway
<1>6. CASE Boundary(r)
  <2>1. runs[r].pc = "boundary"
    BY <1>6 DEF Boundary
  <2>2. CASE Advance(r, [pc |-> "correct", status |-> "aborted"])
    BY <2>1, <2>2, AdvancedQuietly DEF Moves, Taking
  <2>3. CASE \E pc \in {"io", "correct"} : Advance(r, [pc |-> pc])
    BY <2>1, <2>3, AdvancedQuietly DEF Moves, Taking
  <2> QED
    BY <1>6, <2>2, <2>3 DEF Boundary
<1>7. CASE Correct(r)
  <2>1. runs[r].pc = "correct"
    BY <1>7 DEF Correct
  <2>2. CASE Fail(r, "uncorrectable")
    BY <2>1, <2>2, FailedQuietly DEF Underway
  <2>3. CASE \E pc, stack, reference, view :
               /\ Advance(r, [pc |-> pc, wire |-> <<>>, stack |-> stack,
                              reference |-> reference, view |-> view])
               /\ pc \in {"finish", "list"}
    BY <2>1, <2>3, AdvancedQuietly DEF Moves, Taking, Underway
  <2> QED
    BY <1>7, <2>2, <2>3 DEF Correct
<1> QED
  BY <1>1, <1>2, <1>3, <1>4, <1>5, <1>6, <1>7

(* Saving it.                                                               *)
LEMMA SavingInv ==
  ASSUME Inv, NEW r \in DOMAIN runs,
         \/ List(r) \/ Make(r) \/ WriteFrame(r) \/ WriteSidecar(r) \/ Reduce(r)
         \/ SaveFails(r)
  PROVE  Inv'
<1>1. CASE WriteFrame(r)
  <2>1. PICK content, k, pc :
          Writes(r, content, [written |-> k, pc |-> pc]) /\ pc \in {"frames", "sidecar"}
    BY <1>1 DEF WriteFrame
  <2>2. runs[r].pc = "frames"
    BY <1>1 DEF WriteFrame
  <2> QED
    BY <2>1, <2>2, WroteQuietly DEF Moves, Written
<1>2. CASE WriteSidecar(r)
  <2>1. PICK content, shown, pc :
          Writes(r, content, [shown |-> shown, pc |-> pc]) /\ pc \in {"reduce", "finish"}
    BY <1>2 DEF WriteSidecar
  <2>2. runs[r].pc = "sidecar"
    BY <1>2 DEF WriteSidecar
  <2> QED
    BY <2>1, <2>2, WroteQuietly DEF Moves, Written, Underway, Saving
<1>3. CASE Reduce(r)
  <2>1. PICK content : Writes(r, content, [pc |-> "finish"])
    BY <1>3 DEF Reduce
  <2>2. runs[r].pc = "reduce"
    BY <1>3 DEF Reduce
  <2> QED
    BY <2>1, <2>2, WroteQuietly DEF Moves, Written, Underway, Saving
<1>4. CASE SaveFails(r)
  BY <1>4, FailedQuietly DEF SaveFails, Underway
<1> QED
  BY <1>1, <1>2, <1>3, <1>4, ListInv, MakeInv

(* Ending it.                                                               *)
LEMMA EndingInv ==
  ASSUME Inv, NEW r \in DOMAIN runs,
         GraceExpires(r) \/ Finish(r) \/ Answer(r) \/ CalibrationEnds(r)
  PROVE  Inv'
<1>1. DOMAIN folders' = DOMAIN folders
  BY DEF GraceExpires, Finish, Answer, CalibrationEnds, disk
<1>2. ASSUME Goes(r, Over) PROVE Inv'
  <2>1. DOMAIN Over \cap {"made", "folder", "beside"} = {} /\ Moves(runs[r].pc, Over.pc)
    BY DEF Over, Moves
  <2> QED
    BY <1>1, <1>2, <2>1, WentQuietly
<1>3. CASE GraceExpires(r)
  <2>1. Goes(r, [told |-> TRUE])
    BY <1>3 DEF GraceExpires
  <2> QED
    BY <1>1, <2>1, WentQuietly
<1>4. CASE Finish(r)
  <2>1. CASE Goes(r, [pc |-> "answer"])
    BY <1>1, <2>1, WentQuietly DEF Moves
  <2> QED
    BY <1>2, <1>4, <2>1 DEF Finish
<1>5. CASE Answer(r)
  BY <1>2, <1>5 DEF Answer
<1>6. CASE CalibrationEnds(r)
  <2> DEFINE fields == With(Over, [status |-> "error"])
  <2>1. DOMAIN fields = DOMAIN Over \cup {"status"}
    BY WithDomain
  <2>2. fields["pc"] = Over["pc"]
    BY WithOld DEF Over
  <2>3. DOMAIN fields \cap {"made", "folder", "beside"} = {} /\ fields["pc"] = "over"
    BY <2>1, <2>2 DEF Over
  <2>4. Goes(r, Over) \/ Goes(r, fields)
    BY <1>6 DEF CalibrationEnds
  <2> HIDE DEF fields
  <2>5. CASE Goes(r, fields)
    BY <1>1, <2>3, <2>5, WentQuietly DEF Moves
  <2> QED
    BY <1>2, <2>4, <2>5
<1> QED
  BY <1>3, <1>4, <1>5, <1>6

-----------------------------------------------------------------------------
(* The theorem.                                                             *)

(* Steps that are not those of a run.                                       *)
LEMMA StillInv == Inv /\ UNCHANGED <<runs, folders>> => Inv'
<1> SUFFICES ASSUME Inv, UNCHANGED <<runs, folders>> PROVE Inv'
  OBVIOUS
<1>1. Quiet
  BY DEF Inv, RunsKnown, Quiet, Moves
<1> QED
  BY <1>1, QuietInv

(* A request is admitted, or only noted.                                    *)
LEMMA RequestInv == Inv /\ (Request \/ \E e \in jobs : StartJob(e)) => Inv'
<1> SUFFICES ASSUME Inv, Request \/ \E e \in jobs : StartJob(e) PROVE Inv'
  OBVIOUS
<1>1. (\E via, mode, body, p, entry : Takes(via, mode, body, p, entry))
        \/ UNCHANGED <<runs, folders>>
  BY DEF Request, acquire_intensity, acquire_raw_1bit, acquire_gated, acquire_flim, live_frame,
         calibrate, measure_intensity_dark_reference, measure_gated_dark_reference,
         rerun_entry, schedule_job, Admit, StartJob
<1> QED
  BY <1>1, TakesInv, StillInv

(* The invariant holds at the start and after every step.                   *)
LEMMA InitInv == Init => Inv
<1> SUFFICES ASSUME Init PROVE Inv
  OBVIOUS
<1>1. runs = <<>> /\ DOMAIN folders = {}
  BY DEF Init
<1>2. IsSeq(runs) /\ DOMAIN runs = {}
  <2>1. <<>> \in Seq({}) /\ DOMAIN <<>> = {}
    OBVIOUS
  <2> QED BY <1>1, <2>1 DEF IsSeq
<1> QED
  BY <1>1, <1>2 DEF Inv, RunsKnown, NumbersEnd, HasLast, Numbers

(* See InitInv.                                                             *)
LEMMA NextInv == Inv /\ [Next]_vars => Inv'
<1> SUFFICES ASSUME Inv, [Next]_vars PROVE Inv'
  OBVIOUS
<1>1. CASE \E r \in DOMAIN runs : Step(r)
  BY <1>1, TakingInv, SavingInv, EndingInv DEF Step
<1>2. CASE SetSavePath \/ calibration_status \/ RequestStop \/ StopReturns \/ UNCHANGED vars
  BY <1>2, StillInv DEF SetSavePath, calibration_status, RequestStop, StopReturns, vars, disk
<1> QED
  BY <1>1, <1>2, RequestInv, CrashInv DEF Next

(* Every run saves to a folder of its own, also after restarts, with other  *)
(* save paths and other names, beside folders left half written; only a run *)
(* admitted beside one still under way, after a stop that gave up waiting,  *)
(* may meet another in a folder.                                            *)
(* (file_writer._next_acq_dir, data_location.base_dir)                      *)
THEOREM OwnFolders == Spec => []OwnFolder
<1>1. Init => Inv
  BY InitInv
<1>2. Inv /\ [Next]_vars => Inv'
  BY NextInv
<1>3. Inv => OwnFolder
  BY InvOwnFolder
<1> QED
  BY <1>1, <1>2, <1>3, PTL DEF Spec
=============================================================================
