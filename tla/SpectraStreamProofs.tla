------------------------ MODULE SpectraStreamProofs -------------------------
(***************************************************************************)
(* Theorems about the conversion of a voltage file (SpectraStream), for    *)
(* every command line, every size of transform and every height of FITS    *)
(* file, whichever writes fail and whenever the process is killed.         *)
(*                                                                         *)
(* The invariant relates the disk to the object in memory: the spectra in  *)
(* lines are the last ones made, those before them were put away, and the  *)
(* number of the next file says how many full files that is.               *)
(***************************************************************************)
EXTENDS SpectraStream, TLAPS

Alive == step \in {"open", "skip", "read", "save", "check", "last"}

(* Spectra are put out. *)
Out == opt.coarse >= 0

(* Spectra on disk, or in a file whose write failed. *)
Stored == Saved \cup lost

(* Option -y names a file of at least one transform. *)
Fits == \A o \in Options : o.hint > 0 => o.hint >= N_SAMPLES

(* Before the first spectrum; without output nothing is kept. *)
Empty ==
  /\ step \in {"open", "skip", "failed"} \/ opt.bits \notin {4, 8} => n = 0
  /\ n = 0 \/ ~Out => lines = <<>> /\ disk = <<>> /\ told = {} /\ lost = {} /\ fits_file_index = 0
  /\ step = "save" => Out /\ n # 0

(* The height of the object, and for which of them a full chunk finds a     *)
(* line.                                                                    *)
Room ==
  /\ height \in 0..MaxFitsSize
  /\ step = "open" => left = opt.size
  /\ Len(lines) <= height
  /\ step \in {"read", "check"} => lines = <<>> \/ Len(lines) < height
  /\ step = "save" => Len(lines) = height
  /\ Fits /\ step \in {"skip", "read", "save", "check"} /\ left >= N_SAMPLES => height >= 1
  /\ Fits /\ step = "save" => height >= 1

(* Line i of file k is the spectrum k and i say, in memory as on disk.      *)
Placed ==
  /\ height >= 1 /\ Out => n = fits_file_index * height + Len(lines)
  /\ \A i \in 1..Len(lines) : lines[i] = fits_file_index * height + i
  /\ \A k \in DOMAIN disk :
       /\ k < fits_file_index \/ (k = fits_file_index /\ ~Alive)
       /\ Len(disk[k]) <= height
       /\ \A i \in 1..Len(disk[k]) : disk[k][i] = k * height + i

(* The spectra of the object in memory follow those put away. *)
Kept ==
  /\ Len(lines) <= n
  /\ \A i \in 1..Len(lines) : lines[i] = n - Len(lines) + i
  /\ Alive => Stored = 1..(n - Len(lines))
  /\ step = "end" => Stored = 1..n

(* What a message said was written. *)
Told ==
  step # "killed" =>
    \A k \in told :
      /\ k < fits_file_index \/ (k = fits_file_index /\ ~Alive)
      /\ \/ k \in DOMAIN disk /\ disk[k] = FileOf(k)
         \/ Rows(FileOf(k)) \subseteq lost

IInv == TypeOK /\ Empty /\ Room /\ Placed /\ (Fits /\ Out => Kept) /\ Told

-----------------------------------------------------------------------------
(* A chunk has at least the samples of one transform. *)
LEMMA ChunkSize ==
  ASSUME NEW o \in Options
  PROVE  Chunk(o) \in Nat /\ Chunk(o) >= N_SAMPLES /\ Chunk(o) >= 1
<1>1. N_SAMPLES \in Nat /\ N_SAMPLES >= 1 /\ o.pols \in Nat /\ o.pols >= 1
  BY SpectraStreamAssumption DEF Commands
<1> QED BY <1>1 DEF Chunk

(* An object made for a file that has a chunk, or for a hint of a whole     *)
(* transform, has a line; it never has more than the largest height.        *)
LEMMA HeightBounds ==
  ASSUME NEW o \in Options
  PROVE  /\ Height(o) \in Int
         /\ Height(o) <= MaxFitsSize
         /\ o.hint > 0 \/ o.size >= 0 => Height(o) >= 0
         /\ Fits /\ (o.hint > 0 \/ o.size >= N_SAMPLES) => Height(o) >= 1
<1>1. /\ N_SAMPLES \in Nat /\ N_SAMPLES >= 1 /\ MaxFitsSize \in Nat /\ MaxFitsSize >= 1
      /\ o.hint \in Int /\ o.size \in Nat \cup {-1}
  BY SpectraStreamAssumption DEF Commands
<1> DEFINE known == IF o.hint > 0 THEN o.hint ELSE o.size
           fit == known \div N_SAMPLES
<1>2. known \in Int
  BY <1>1
<1>3. fit \in Int
  BY <1>1, <1>2
<1>4. /\ known >= N_SAMPLES => fit >= 1
      /\ known >= 0 => fit >= 0
  BY <1>1, <1>2
<1>5. /\ Fits /\ (o.hint > 0 \/ o.size >= N_SAMPLES) => known >= N_SAMPLES
      /\ o.hint > 0 \/ o.size >= 0 => known >= 0
  BY <1>1 DEF Fits
<1>6. Height(o) = IF fit > MaxFitsSize THEN MaxFitsSize ELSE fit
  BY DEF Height
<1> QED
  <2> HIDE DEF fit, known
  <2> QED BY <1>1, <1>3, <1>4, <1>5, <1>6

(* The lines of one file more. *)
LEMMA NextStart ==
  ASSUME NEW k \in Nat, NEW h \in Nat
  PROVE  k * h \in Nat /\ (k + 1) * h = k * h + h /\ 0 * h = 0
  OBVIOUS

(* The rows of the object in memory, and of its first k lines. *)
LEMMA RowsOfLines ==
  ASSUME NEW ls \in Seq(Nat), NEW m \in Nat,
         \A i \in 1..Len(ls) : ls[i] = m + i,
         NEW k \in 0..Len(ls)
  PROVE  /\ Rows(SubSeq(ls, 1, k)) = (m + 1)..(m + k)
         /\ Rows(ls) = (m + 1)..(m + Len(ls))
         /\ SubSeq(ls, 1, k) \in Seq(Nat)
<1>1. Len(ls) \in Nat /\ k \in Nat /\ k <= Len(ls)
  OBVIOUS
<1>2. /\ SubSeq(ls, 1, k) \in Seq(Nat)
      /\ Len(SubSeq(ls, 1, k)) = k
      /\ \A i \in 1..k : SubSeq(ls, 1, k)[i] = ls[i]
  BY <1>1
<1>3. Rows(ls) = (m + 1)..(m + Len(ls))
  <2>1. ASSUME NEW x \in (m + 1)..(m + Len(ls)) PROVE x \in Rows(ls)
    <3>1. x - m \in 1..Len(ls) /\ ls[x - m] = x
      BY <1>1
    <3> QED BY <3>1 DEF Rows
  <2>2. ASSUME NEW x \in Rows(ls) PROVE x \in (m + 1)..(m + Len(ls))
    <3>1. PICK i \in 1..Len(ls) : x = ls[i]
      BY DEF Rows
    <3> QED BY <3>1, <1>1
  <2> QED BY <2>1, <2>2
<1>4. Rows(SubSeq(ls, 1, k)) = (m + 1)..(m + k)
  <2> DEFINE ss == SubSeq(ls, 1, k)
  <2>0. Len(ss) = k /\ \A i \in 1..k : ss[i] = m + i
    BY <1>1, <1>2
  <2> HIDE DEF ss
  <2>1. ASSUME NEW x \in (m + 1)..(m + k) PROVE x \in Rows(ss)
    <3>1. x - m \in 1..k /\ ss[x - m] = x
      BY <1>1, <2>0
    <3> QED BY <3>1, <2>0 DEF Rows
  <2>2. ASSUME NEW x \in Rows(ss) PROVE x \in (m + 1)..(m + k)
    <3>1. PICK i \in 1..k : x = ss[i]
      BY <2>0 DEF Rows
    <3> QED BY <3>1, <1>1, <2>0
  <2>3. Rows(ss) = (m + 1)..(m + k)
    BY <2>1, <2>2
  <2> QED BY <2>3 DEF ss
<1> QED BY <1>2, <1>3, <1>4

-----------------------------------------------------------------------------
LEMMA InitI == StreamInit => IInv
<1> SUFFICES ASSUME StreamInit PROVE IInv
  OBVIOUS
<1>1. /\ MaxFitsSize \in Nat /\ MaxFitsSize >= 1 /\ N_SAMPLES \in Nat
      /\ opt \in Options /\ opt.size \in Nat \cup {-1}
  BY SpectraStreamAssumption DEF StreamInit, Commands
<1>2. /\ lines = <<>> /\ disk = <<>> /\ told = {} /\ lost = {} /\ step = "open"
      /\ n = 0 /\ height = 0 /\ fits_file_index = 0 /\ left = opt.size
  BY DEF StreamInit
<1>3. DOMAIN disk = {} /\ Len(lines) = 0
  BY <1>2
<1>4. Stored = {}
  BY <1>2, <1>3 DEF Saved, Stored
<1>5. TypeOK
  BY <1>1, <1>2, <1>3 DEF StreamInit, TypeOK
<1>6. Empty
  BY <1>2 DEF Empty
<1>7. Room
  BY <1>1, <1>2, <1>3 DEF Room
<1>8. Kept
  BY <1>2, <1>3, <1>4 DEF Kept, Alive
<1>9. Told
  BY <1>2 DEF Told
<1>10. Placed
  BY <1>2, <1>3 DEF Placed
<1> QED BY <1>5, <1>6, <1>7, <1>8, <1>9, <1>10 DEF IInv

-----------------------------------------------------------------------------
(* The steps that leave lines, disk and n alone. *)
LEMMA QuietI ==
  ASSUME IInv, OpenFile \/ Skip \/ ReadEnd \/ ReadPart \/ BadBits \/ Check
  PROVE  IInv'
<1> USE DEF IInv
<1>1. /\ opt \in Options /\ opt.size \in Nat \cup {-1} /\ opt.skip \in Nat /\ opt.hint \in Int
      /\ left \in Nat \cup {-1} /\ n \in Nat /\ bytes \in Nat /\ height \in Int /\ fits_file_index \in Nat
      /\ N_SAMPLES \in Nat /\ N_SAMPLES >= 1 /\ MaxFitsSize \in Nat
  BY SpectraStreamAssumption DEF TypeOK, Commands
<1>2. Chunk(opt) \in Nat /\ Chunk(opt) >= N_SAMPLES
  BY ChunkSize, <1>1
<1>3. /\ Height(opt) \in Int /\ Height(opt) <= MaxFitsSize
      /\ opt.hint > 0 \/ opt.size >= 0 => Height(opt) >= 0
      /\ Fits /\ opt.size >= N_SAMPLES => Height(opt) >= 1
  BY HeightBounds, <1>1
<1>4. /\ UNCHANGED <<opt, n, lines, fits_file_index, disk, told, lost, power>>
      /\ Stored' = Stored /\ (Fits' <=> Fits)
  BY DEF OpenFile, Skip, ReadEnd, ReadPart, BadBits, Check, Saved, Stored, Fits
<1>5. /\ left' \in Nat \cup {-1} /\ bytes' \in Nat /\ height' \in Int
      /\ step' \in {"skip", "read", "last", "failed"}
      /\ height' \in 0..MaxFitsSize
      /\ step = "open" \/ height' = height
  <2>1. CASE OpenFile
    BY <2>1, <1>1, <1>3 DEF OpenFile, Room
  <2>2. CASE Skip
    BY <2>2, <1>1 DEF Skip, Skipped, Room
  <2>3. CASE ReadEnd \/ ReadPart \/ BadBits
    BY <2>3, <1>1, <1>2 DEF ReadEnd, ReadPart, AfterPart, BadBits, Room
  <2>4. CASE Check
    BY <2>4, <1>1, <1>2 DEF Check, Room
  <2> QED BY <2>1, <2>2, <2>3, <2>4
<1>12. ub' \subseteq {"skip", "samples", "channels"}
  <2>1. ub' \subseteq ub \cup {"skip"}
    BY DEF OpenFile, Skip, ReadEnd, ReadPart, BadBits, Check
  <2> QED BY <2>1 DEF TypeOK
<1>6. TypeOK'
  BY <1>4, <1>5, <1>12 DEF TypeOK
<1>7. Empty'
  <2>1. step' # "save"
    BY <1>5
  <2>2. step' \in {"skip", "failed"} => n = 0
    BY <1>5 DEF Empty, OpenFile, Skip, ReadEnd, ReadPart, BadBits, Check
  <2> QED BY <1>4, <1>5, <2>1, <2>2 DEF Empty, Out
<1>13. Len(lines) \in Nat /\ (step = "open" => n = 0 /\ fits_file_index = 0 /\ lines = <<>> /\ Len(lines) = 0)
  BY DEF TypeOK, Empty
<1>8. Room'
  <2>0. Len(lines') <= height'
    BY <1>1, <1>4, <1>5, <1>13 DEF Room
  <2>1. CASE OpenFile
    BY <2>0, <2>1, <1>1, <1>3, <1>4, <1>5, <1>13 DEF Room, OpenFile
  <2>2. CASE Skip
    <3>1. lines = <<>>
      BY <2>2 DEF Skip, Empty
    <3> QED BY <2>0, <2>2, <3>1, <1>1, <1>4, <1>5 DEF Room, Skip, Skipped
  <2>3. CASE ReadEnd \/ ReadPart \/ BadBits
    BY <2>0, <2>3, <1>1, <1>2, <1>4, <1>5 DEF Room, ReadEnd, ReadPart, AfterPart, BadBits
  <2>4. CASE Check
    BY <2>0, <2>4, <1>1, <1>2, <1>4, <1>5 DEF Room, Check
  <2> QED BY <2>1, <2>2, <2>3, <2>4
<1>9. Fits /\ Out /\ Kept => Kept'
  BY <1>4, <1>5 DEF Kept, Alive, OpenFile, Skip, ReadEnd, ReadPart, BadBits, Check
<1>10. Out' <=> Out
  BY <1>4 DEF Out
<1>14. step # "killed" /\ Alive
  BY DEF Alive, OpenFile, Skip, ReadEnd, ReadPart, BadBits, Check
<1>15. CASE step = "open"
  <2>1. told' = {} /\ DOMAIN disk' = {} /\ Len(lines') = 0 /\ n' = 0 /\ fits_file_index' = 0
    BY <1>4, <1>13, <1>15 DEF Empty
  <2>2. fits_file_index' * height' = 0
    <3>1. \A h \in Nat : 0 * h = 0
      OBVIOUS
    <3>2. height' \in Nat
      BY <1>1, <1>5
    <3> QED BY <2>1, <3>1, <3>2
  <2>3. Placed' /\ Told'
    BY <2>1, <2>2 DEF Placed, Told
  <2> QED BY <2>3, <1>4, <1>6, <1>7, <1>8, <1>9, <1>10
<1>16. CASE step # "open"
  <2>1. height' = height /\ \A k : FileOf(k)' = FileOf(k)
    BY <1>4, <1>5, <1>16 DEF FileOf
  <2>2. \A k : k < fits_file_index \/ (k = fits_file_index /\ ~Alive) => k < fits_file_index' \/ (k = fits_file_index' /\ ~Alive')
    BY <1>4, <1>14
  <2>3. Placed'
    BY <2>1, <2>2, <1>4 DEF Placed, Out
  <2>4. Told'
    BY <2>1, <2>2, <1>4, <1>14 DEF Told
  <2> QED BY <2>3, <2>4, <1>4, <1>6, <1>7, <1>8, <1>9, <1>10
<1> QED BY <1>15, <1>16

(* A full chunk adds the next spectrum to the object in memory. *)
LEMMA ReadChunkI ==
  ASSUME IInv, ReadChunk
  PROVE  IInv'
<1> USE DEF IInv
<1>1. /\ opt \in Options /\ opt.coarse \in Int
      /\ left \in Nat \cup {-1} /\ n \in Nat /\ height \in Int /\ power \in Nat
      /\ N_SAMPLES \in Nat /\ N_SAMPLES >= 1 /\ MaxFitsSize \in Nat
      /\ lines \in Seq(Nat) /\ Len(lines) \in Nat /\ fits_file_index \in Nat
  BY SpectraStreamAssumption DEF TypeOK, Commands
<1>2. Chunk(opt) \in Nat /\ Chunk(opt) >= N_SAMPLES
  BY ChunkSize, <1>1
<1>3. /\ step = "read" /\ left >= N_SAMPLES /\ left' = left - Chunk(opt) /\ n' = n + 1
      /\ UNCHANGED <<opt, bytes, height, fits_file_index, disk, lost, told>>
      /\ opt.bits \in {4, 8}
  BY <1>1, <1>2 DEF ReadChunk
<1>4. Stored' = Stored /\ (Fits' <=> Fits) /\ (Out' <=> Out)
  BY <1>3 DEF Saved, Stored, Fits, Out
<1>5. /\ height \in 0..MaxFitsSize
      /\ Fits => height >= 1
      /\ lines = <<>> \/ Len(lines) < height
      /\ Len(lines) <= height
  BY <1>1, <1>3 DEF Room
<1>6. /\ Out => /\ lines' = Line(lines, height, n + 1)
                /\ step' = IF Len(lines') >= height THEN "save" ELSE "check"
                /\ power' \in {power, power + 1}
      /\ ~Out => lines' = lines /\ step' = "check" /\ power' = power
  BY <1>1 DEF ReadChunk, Out
<1>7. \/ /\ lines' = lines /\ Len(lines') = Len(lines)
         /\ ~Out \/ height = 0
      \/ /\ Out /\ height >= 1
         /\ lines' \in Seq(Nat)
         /\ Len(lines') = Len(lines) + 1
         /\ \A i \in 1..Len(lines) : lines'[i] = lines[i]
         /\ lines'[Len(lines) + 1] = n + 1
  <2>1. CASE ~Out \/ height = 0
    BY <2>1, <1>6 DEF Line
  <2>2. CASE Out /\ height # 0
    <3>1. lines' = Append(lines, n + 1)
      BY <2>2, <1>5, <1>6 DEF Line
    <3> QED BY <2>2, <3>1, <1>1, <1>5
  <2> QED BY <2>1, <2>2
<1>8. /\ lines' \in Seq(Nat) /\ Len(lines') \in Nat /\ Len(lines') <= height
      /\ step' \in {"save", "check"}
      /\ step' = "save" => Out /\ Len(lines') = height
      /\ step' = "check" => lines' = <<>> \/ Len(lines') < height
  <2>1. lines' \in Seq(Nat) /\ Len(lines') \in Nat
    BY <1>1, <1>7
  <2>2. lines = <<>> => Len(lines) = 0
    OBVIOUS
  <2>3. Len(lines') <= height
    BY <2>2, <1>1, <1>5, <1>7
  <2>4. CASE Out
    BY <2>1, <2>3, <2>4, <1>5, <1>6
  <2>5. CASE ~Out
    <3>1. lines' = <<>>
      BY <2>5, <1>6 DEF Empty
    <3> QED BY <2>1, <2>3, <2>5, <3>1, <1>6
  <2> QED BY <2>4, <2>5
<1>9. TypeOK'
  <2>1. left' \in Nat /\ n' \in Nat /\ n' # 0
    BY <1>1, <1>2, <1>3 DEF ReadChunk
  <2>2. power' \in Nat
    BY <1>1, <1>6
  <2>3. ub' \subseteq {"skip", "samples", "channels"}
    <3>1. ub' \subseteq ub \cup {"samples", "channels"}
      BY DEF ReadChunk
    <3> QED BY <3>1 DEF TypeOK
  <2> QED BY <2>1, <2>2, <2>3, <1>3, <1>8 DEF TypeOK
<1>10. Empty'
  <2>1. n' # 0
    BY <1>1, <1>3
  <2>2. ~Out => lines' = <<>>
    BY <1>6 DEF Empty
  <2> QED BY <2>1, <2>2, <1>3, <1>4, <1>8 DEF Empty
<1>11. Room'
  BY <1>3, <1>4, <1>5, <1>8 DEF Room
<1>12. Placed'
  <2> PICK start \in Nat : start = fits_file_index * height
    BY <1>1, <1>5, NextStart
  <2>1. height >= 1 /\ Out => n = start + Len(lines)
    BY DEF Placed
  <2>2. \A i \in 1..Len(lines) : lines[i] = start + i
    BY DEF Placed
  <2>3. height' >= 1 /\ Out' => n' = start + Len(lines')
    BY <2>1, <1>1, <1>3, <1>4, <1>5, <1>7
  <2>4. \A i \in 1..Len(lines') : lines'[i] = start + i
    <3>1. CASE lines' = lines
      BY <3>1, <2>2
    <3>2. CASE Out /\ height >= 1 /\ lines' # lines
      <4>1. n + 1 = start + (Len(lines) + 1)
        BY <2>1, <3>2, <1>1
      <4>2. /\ Len(lines') = Len(lines) + 1
            /\ \A i \in 1..Len(lines) : lines'[i] = lines[i]
            /\ lines'[Len(lines) + 1] = n + 1
        BY <3>2, <1>7
      <4>3. ASSUME NEW i \in 1..Len(lines') PROVE lines'[i] = start + i
        <5>1. CASE i \in 1..Len(lines)
          BY <5>1, <4>2, <2>2
        <5>2. CASE i = Len(lines) + 1
          BY <5>2, <4>1, <4>2
        <5> QED BY <5>1, <5>2, <4>2, <1>1
      <4> QED BY <4>3
    <3> QED BY <3>1, <3>2, <1>7
  <2>5. \A k \in DOMAIN disk' :
          /\ k < fits_file_index' \/ (k = fits_file_index' /\ ~Alive')
          /\ Len(disk'[k]) <= height'
          /\ \A i \in 1..Len(disk'[k]) : disk'[k][i] = k * height' + i
    BY <1>3 DEF Placed, Alive
  <2> QED BY <2>3, <2>4, <2>5, <1>3 DEF Placed
<1>13. Fits' /\ Out' => Kept'
  <2> SUFFICES ASSUME Fits, Out PROVE Kept'
    BY <1>4
  <2>0. /\ Len(lines') = Len(lines) + 1
        /\ \A i \in 1..Len(lines) : lines'[i] = lines[i]
        /\ lines'[Len(lines) + 1] = n + 1
    BY <1>1, <1>5, <1>7
  <2>1. Kept
    OBVIOUS
  <2>2. Len(lines') <= n'
    BY <2>0, <2>1, <1>1, <1>3 DEF Kept
  <2>3. n' - Len(lines') = n - Len(lines) /\ Len(lines) \in Nat
    BY <2>0, <1>1, <1>3
  <2>4. ASSUME NEW i \in 1..Len(lines') PROVE lines'[i] = n' - Len(lines') + i
    <3>1. CASE i \in 1..Len(lines)
      <4>1. lines'[i] = n - Len(lines) + i
        BY <3>1, <2>0, <2>1 DEF Kept
      <4> QED BY <4>1, <2>3
    <3>2. CASE i = Len(lines) + 1
      BY <3>2, <2>0, <1>1, <1>3
    <3> QED BY <3>1, <3>2, <2>0, <1>1
  <2>5. Stored' = 1..(n' - Len(lines'))
    BY <2>1, <2>3, <1>3, <1>4 DEF Kept, Alive
  <2> QED BY <2>2, <2>4, <2>5, <1>8 DEF Kept
<1>14. Told'
  <2>1. \A k \in told : k < fits_file_index
    BY <1>3 DEF Told, Alive
  <2>2. \A k : k < fits_file_index => FileOf(k)' = FileOf(k)
    BY <1>3 DEF FileOf
  <2> QED BY <2>1, <2>2, <1>3 DEF Told
<1> QED BY <1>9, <1>10, <1>11, <1>12, <1>13, <1>14

-----------------------------------------------------------------------------
(* What a file gets, whole or cut: it lies beyond those on disk.            *)
LEMMA FileI ==
  ASSUME Numbered, IInv, Alive,
         NEW k \in 0..Len(lines),
         disk' = Put(Name(fits_file_index), SubSeq(lines, 1, k))
  PROVE  /\ Saved' = Saved \cup Rows(SubSeq(lines, 1, k))
         /\ fits_file_index \notin DOMAIN disk
         /\ DOMAIN disk' = DOMAIN disk \cup {fits_file_index}
         /\ disk'[fits_file_index] = SubSeq(lines, 1, k)
         /\ \A j \in DOMAIN disk : disk'[j] = disk[j]
         /\ \A j \in DOMAIN disk' :
              /\ disk'[j] \in Seq(Nat)
              /\ Len(disk'[j]) <= height
              /\ \A i \in 1..Len(disk'[j]) : disk'[j][i] = j * height + i
<1>1. /\ lines \in Seq(Nat) /\ Len(lines) \in Nat /\ fits_file_index \in Nat
      /\ \A j \in DOMAIN disk : disk[j] \in Seq(Nat)
  BY DEF IInv, TypeOK
<1>2. Name(fits_file_index) = fits_file_index
  BY DEF Name
<1>3. /\ \A j \in DOMAIN disk : /\ j < fits_file_index
                                /\ Len(disk[j]) <= height
                                /\ \A i \in 1..Len(disk[j]) : disk[j][i] = j * height + i
      /\ \A i \in 1..Len(lines) : lines[i] = fits_file_index * height + i
      /\ Len(lines) <= height /\ height \in Nat
  BY SpectraStreamAssumption DEF IInv, Placed, Room
<1>4. fits_file_index \notin DOMAIN disk
  BY <1>1, <1>3
<1>5. disk' = [j \in DOMAIN disk \cup {fits_file_index} |->
                 IF j = fits_file_index THEN SubSeq(lines, 1, k) ELSE disk[j]]
  BY <1>2 DEF Put
<1>6. /\ DOMAIN disk' = DOMAIN disk \cup {fits_file_index}
      /\ disk'[fits_file_index] = SubSeq(lines, 1, k)
      /\ \A j \in DOMAIN disk : disk'[j] = disk[j]
  BY <1>4, <1>5
<1>7. Saved' = Saved \cup Rows(SubSeq(lines, 1, k))
  <2>1. \A x : x \in Saved <=> \E j \in DOMAIN disk : x \in Rows(disk[j])
    BY DEF Saved
  <2>2. \A x : x \in Saved' <=> \E j \in DOMAIN disk' : x \in Rows(disk'[j])
    BY DEF Saved
  <2>3. \A j \in DOMAIN disk : Rows(disk'[j]) = Rows(disk[j])
    BY <1>6
  <2>4. Rows(disk'[fits_file_index]) = Rows(SubSeq(lines, 1, k))
    BY <1>6
  <2> QED BY <1>6, <2>1, <2>2, <2>3, <2>4
<1>8. /\ SubSeq(lines, 1, k) \in Seq(Nat)
      /\ Len(SubSeq(lines, 1, k)) = k
      /\ \A i \in 1..k : SubSeq(lines, 1, k)[i] = lines[i]
      /\ k \in Nat /\ k <= Len(lines)
  BY <1>1
<1>9. ASSUME NEW j \in DOMAIN disk'
      PROVE  /\ disk'[j] \in Seq(Nat)
             /\ Len(disk'[j]) <= height
             /\ \A i \in 1..Len(disk'[j]) : disk'[j][i] = j * height + i
  <2>1. CASE j = fits_file_index
    <3>1. disk'[j] \in Seq(Nat) /\ Len(disk'[j]) = k /\ k <= height
      BY <2>1, <1>1, <1>3, <1>6, <1>8
    <3>2. ASSUME NEW i \in 1..k PROVE disk'[j][i] = j * height + i
      <4>1. disk'[j][i] = lines[i] /\ i \in 1..Len(lines)
        BY <2>1, <1>1, <1>6, <1>8
      <4> QED BY <4>1, <2>1, <1>3
    <3> QED BY <3>1, <3>2
  <2>2. CASE j \in DOMAIN disk
    BY <2>2, <1>1, <1>3, <1>6
  <2> QED BY <2>1, <2>2, <1>6
<1> QED BY <1>4, <1>6, <1>7, <1>9

(* The whole object is its first Len(lines) lines. *)
LEMMA WholeObject ==
  ASSUME NEW ls \in Seq(Nat)
  PROVE  Len(ls) \in 0..Len(ls) /\ SubSeq(ls, 1, Len(ls)) = ls
  OBVIOUS

(* What is left of the object by a write that is cut after k lines, and by  *)
(* one that is not begun.                                                   *)
LEMMA CutI ==
  ASSUME Numbered, IInv, Alive, disk' \in Cut(Name(fits_file_index), lines)
  PROVE  /\ Saved \subseteq Saved' /\ Saved' \subseteq Saved \cup Rows(lines)
         /\ \E k \in 0..Len(lines) : Saved' = Saved \cup Rows(SubSeq(lines, 1, k))
         /\ DOMAIN disk' \subseteq DOMAIN disk \cup {fits_file_index}
         /\ \A j \in DOMAIN disk : j \in DOMAIN disk' /\ disk'[j] = disk[j]
         /\ \A j \in DOMAIN disk' :
              /\ disk'[j] \in Seq(Nat)
              /\ Len(disk'[j]) <= height
              /\ \A i \in 1..Len(disk'[j]) : disk'[j][i] = j * height + i
<1>1. lines \in Seq(Nat) /\ Len(lines) \in Nat /\ \A j \in DOMAIN disk : disk[j] \in Seq(Nat)
  BY DEF IInv, TypeOK
<1>2. ASSUME NEW k \in 0..Len(lines) PROVE Rows(SubSeq(lines, 1, k)) \subseteq Rows(lines)
  <2>1. /\ Len(SubSeq(lines, 1, k)) = k
        /\ \A i \in 1..k : SubSeq(lines, 1, k)[i] = lines[i] /\ i \in 1..Len(lines)
    BY <1>1
  <2> QED BY <2>1 DEF Rows
<1>3. CASE disk' = disk
  <2>1. Saved' = Saved /\ Rows(SubSeq(lines, 1, 0)) = {}
    <3>1. Len(SubSeq(lines, 1, 0)) = 0
      BY <1>1
    <3> QED BY <3>1, <1>3 DEF Saved, Rows
  <2>2. 0 \in 0..Len(lines) /\ Saved' = Saved \cup Rows(SubSeq(lines, 1, 0))
    BY <2>1, <1>1
  <2>3. \E k \in 0..Len(lines) : Saved' = Saved \cup Rows(SubSeq(lines, 1, k))
    BY <2>2
  <2> QED BY <2>1, <2>3, <1>1, <1>3 DEF IInv, Placed
<1>4. CASE disk' # disk
  <2>1. PICK k \in 0..Len(lines) : disk' = Put(Name(fits_file_index), SubSeq(lines, 1, k))
    BY <1>4 DEF Cut
  <2>2. /\ Saved' = Saved \cup Rows(SubSeq(lines, 1, k))
        /\ DOMAIN disk' = DOMAIN disk \cup {fits_file_index}
        /\ \A j \in DOMAIN disk : disk'[j] = disk[j]
        /\ \A j \in DOMAIN disk' :
             /\ disk'[j] \in Seq(Nat)
             /\ Len(disk'[j]) <= height
             /\ \A i \in 1..Len(disk'[j]) : disk'[j][i] = j * height + i
    BY <2>1, FileI
  <2> QED BY <2>2, <1>2
<1> QED BY <1>3, <1>4

(* A write of the object, whole or failing: its spectra are put away, and   *)
(* the file is there unless all its spectra are given up.                   *)
LEMMA WriteI ==
  ASSUME Numbered, IInv, Alive, Write(Name(fits_file_index), lines)
  PROVE  /\ Stored' = Stored \cup Rows(lines)
         /\ lost' = lost \/ lost' = lost \cup Rows(lines)
         /\ DOMAIN disk' \subseteq DOMAIN disk \cup {fits_file_index}
         /\ \A j \in DOMAIN disk : j \in DOMAIN disk' /\ disk'[j] = disk[j]
         /\ \/ fits_file_index \in DOMAIN disk' /\ disk'[fits_file_index] = lines
            \/ Rows(lines) \subseteq lost'
         /\ \A j \in DOMAIN disk' :
              /\ disk'[j] \in Seq(Nat)
              /\ Len(disk'[j]) <= height
              /\ \A i \in 1..Len(disk'[j]) : disk'[j][i] = j * height + i
<1>1. lines \in Seq(Nat)
  BY DEF IInv, TypeOK
<1>2. CASE disk' = Put(Name(fits_file_index), lines) /\ lost' = lost
  <2>1. Len(lines) \in 0..Len(lines) /\ disk' = Put(Name(fits_file_index), SubSeq(lines, 1, Len(lines)))
    BY <1>1, <1>2, WholeObject
  <2>2. /\ Saved' = Saved \cup Rows(lines)
        /\ DOMAIN disk' = DOMAIN disk \cup {fits_file_index}
        /\ disk'[fits_file_index] = lines
        /\ \A j \in DOMAIN disk : disk'[j] = disk[j]
        /\ \A j \in DOMAIN disk' :
             /\ disk'[j] \in Seq(Nat)
             /\ Len(disk'[j]) <= height
             /\ \A i \in 1..Len(disk'[j]) : disk'[j][i] = j * height + i
    BY <1>1, <2>1, WholeObject, FileI
  <2> QED BY <1>2, <2>2 DEF Stored
<1>3. CASE disk' \in Cut(Name(fits_file_index), lines) /\ lost' = lost \cup Rows(lines)
  <2>1. /\ Saved \subseteq Saved' /\ Saved' \subseteq Saved \cup Rows(lines)
        /\ DOMAIN disk' \subseteq DOMAIN disk \cup {fits_file_index}
        /\ \A j \in DOMAIN disk : j \in DOMAIN disk' /\ disk'[j] = disk[j]
        /\ \A j \in DOMAIN disk' :
             /\ disk'[j] \in Seq(Nat)
             /\ Len(disk'[j]) <= height
             /\ \A i \in 1..Len(disk'[j]) : disk'[j][i] = j * height + i
    BY <1>3, CutI
  <2> QED BY <1>3, <2>1 DEF Stored
<1> QED BY <1>2, <1>3 DEF Write

(* In memory the spectra are the last ones made, so with them everything is *)
(* put away.                                                                *)
LEMMA AllStored ==
  ASSUME IInv, Alive, Fits, Out
  PROVE  /\ Stored \cup Rows(lines) = 1..n
         /\ \A k \in 0..Len(lines) :
              Stored \cup Rows(SubSeq(lines, 1, k)) = 1..(n - Len(lines) + k)
<1>1. /\ lines \in Seq(Nat) /\ n \in Nat /\ Len(lines) \in Nat /\ Len(lines) <= n
      /\ Stored = 1..(n - Len(lines))
      /\ \A i \in 1..Len(lines) : lines[i] = (n - Len(lines)) + i
      /\ n - Len(lines) \in Nat
  BY DEF IInv, TypeOK, Kept
<1>2. ASSUME NEW k \in 0..Len(lines)
      PROVE  Stored \cup Rows(SubSeq(lines, 1, k)) = 1..(n - Len(lines) + k)
  <2> PICK m \in Nat : m = n - Len(lines)
    BY <1>1
  <2>1. Rows(SubSeq(lines, 1, k)) = (m + 1)..(m + k)
    BY <1>1, RowsOfLines
  <2> QED BY <1>1, <2>1
<1>3. Len(lines) \in 0..Len(lines) /\ SubSeq(lines, 1, Len(lines)) = lines
  BY <1>1, WholeObject
<1>4. n - Len(lines) + Len(lines) = n
  BY <1>1
<1> QED BY <1>2, <1>3, <1>4

(* The lines of the object are the file under its number. *)
LEMMA FileOfObject ==
  ASSUME IInv
  PROVE  /\ lines = [i \in 1..Len(lines) |-> fits_file_index * height + i]
         /\ FileOf(fits_file_index) = lines
<1>1. lines \in Seq(Nat) /\ fits_file_index \in Nat /\ \A i \in 1..Len(lines) : lines[i] = fits_file_index * height + i
  BY DEF IInv, TypeOK, Placed
<1>2. lines = [i \in 1..Len(lines) |-> lines[i]]
  BY <1>1
<1>3. lines = [i \in 1..Len(lines) |-> fits_file_index * height + i]
  BY <1>1, <1>2
<1>4. ~(fits_file_index < fits_file_index)
  BY <1>1
<1> QED BY <1>3, <1>4 DEF FileOf

(* A full object is saved; the next one is empty. *)
LEMMA SaveI ==
  ASSUME Numbered, IInv, Save
  PROVE  IInv' /\ (Fits => Stored' = 1..n)
<1>1. /\ step = "save" /\ Out /\ n # 0 /\ lines \in Seq(Nat) /\ n \in Nat /\ fits_file_index \in Nat
      /\ Len(lines) = height /\ height \in Nat /\ height \in 0..MaxFitsSize
      /\ opt \in Options /\ N_SAMPLES \in Nat /\ Alive /\ Name(fits_file_index) = fits_file_index
  BY SpectraStreamAssumption DEF Save, IInv, TypeOK, Empty, Room, Alive, Name
<1>2. /\ UNCHANGED <<opt, left, n, bytes, height, power, ub>>
      /\ lines' = <<>> /\ fits_file_index' = fits_file_index + 1 /\ step' = "check"
      /\ told' = told \cup {fits_file_index} /\ Write(Name(fits_file_index), lines)
      /\ Len(lines') = 0
  BY <1>1 DEF Save, NextFile
<1>3. /\ Stored' = Stored \cup Rows(lines)
      /\ lost' = lost \/ lost' = lost \cup Rows(lines)
      /\ DOMAIN disk' \subseteq DOMAIN disk \cup {fits_file_index}
      /\ \A j \in DOMAIN disk : j \in DOMAIN disk' /\ disk'[j] = disk[j]
      /\ (fits_file_index \in DOMAIN disk' /\ disk'[fits_file_index] = lines) \/ Rows(lines) \subseteq lost'
      /\ \A j \in DOMAIN disk' :
           /\ disk'[j] \in Seq(Nat)
           /\ Len(disk'[j]) <= height
           /\ \A i \in 1..Len(disk'[j]) : disk'[j][i] = j * height + i
  BY <1>1, <1>2, WriteI
<1>4. Fits => Stored' = 1..n
  BY <1>1, <1>3, AllStored
<1>5. TypeOK'
  <2>1. Rows(lines) \subseteq Nat
    BY <1>1 DEF Rows
  <2>2. DOMAIN disk' \subseteq Nat /\ told' \subseteq Nat /\ lost' \subseteq Nat
    BY <2>1, <1>1, <1>2, <1>3 DEF IInv, TypeOK
  <2>3. lines' \in Seq(Nat) /\ fits_file_index' \in Nat
    BY <1>1, <1>2
  <2> QED BY <2>2, <2>3, <1>2, <1>3 DEF IInv, TypeOK
<1>6. Empty'
  BY <1>1, <1>2 DEF IInv, Empty, Out
<1>7. Room'
  <2>1. Fits => height >= 1
    BY <1>1 DEF IInv, Room
  <2> QED BY <2>1, <1>1, <1>2 DEF Room, Fits
<1>8. Placed'
  <2> PICK start \in Nat : start = fits_file_index * height /\ (fits_file_index + 1) * height = start + height
    BY <1>1, NextStart
  <2>1. height >= 1 => n = start + height
    BY <1>1 DEF IInv, Placed
  <2>2. height' >= 1 /\ Out' => n' = fits_file_index' * height' + Len(lines')
    BY <2>1, <1>1, <1>2
  <2>3. \A j \in DOMAIN disk' : j < fits_file_index'
    <3>1. \A j \in DOMAIN disk : j < fits_file_index /\ j \in Nat
      BY <1>1 DEF IInv, TypeOK, Placed
    <3> QED BY <3>1, <1>1, <1>2, <1>3
  <2> QED BY <2>2, <2>3, <1>2, <1>3 DEF Placed
<1>9. Fits' /\ Out' => Kept'
  <2> SUFFICES ASSUME Fits PROVE Kept'
    BY <1>2 DEF Fits
  <2>1. Stored' = 1..(n' - Len(lines')) /\ Len(lines') <= n'
    BY <1>1, <1>2, <1>4
  <2> QED BY <2>1, <1>2 DEF Kept
<1>10. Told'
  <2>1. ASSUME NEW k \in told'
        PROVE  /\ k < fits_file_index'
               /\ (k \in DOMAIN disk' /\ disk'[k] = FileOf(k)') \/ Rows(FileOf(k)') \subseteq lost'
    <3>1. CASE k = fits_file_index
      <4>1. FileOf(k)' = [i \in 1..height |-> k * height + i] /\ k < fits_file_index'
        BY <3>1, <1>1, <1>2 DEF FileOf
      <4>2. FileOf(k)' = lines
        BY <3>1, <4>1, <1>1, FileOfObject
      <4> QED BY <3>1, <4>1, <4>2, <1>3
    <3>2. CASE k \in told
      <4>1. /\ k < fits_file_index /\ k \in Nat
            /\ (k \in DOMAIN disk /\ disk[k] = FileOf(k)) \/ Rows(FileOf(k)) \subseteq lost
        BY <3>2, <1>1 DEF IInv, Told, TypeOK
      <4>2. FileOf(k)' = FileOf(k) /\ k < fits_file_index'
        BY <4>1, <1>1, <1>2 DEF FileOf
      <4> QED BY <4>1, <4>2, <1>3
    <3> QED BY <3>1, <3>2, <1>2
  <2> QED BY <2>1 DEF Told
<1> QED BY <1>4, <1>5, <1>6, <1>7, <1>8, <1>9, <1>10 DEF IInv

(* The last file, when there are lines for it. *)
LEMMA LastI ==
  ASSUME Numbered, IInv, SaveLast
  PROVE  IInv' /\ (Fits /\ Out => Stored' = 1..n)
<1>1. /\ step = "last" /\ lines \in Seq(Nat) /\ n \in Nat /\ fits_file_index \in Nat /\ Len(lines) \in Nat
      /\ Len(lines) <= height /\ height \in 0..MaxFitsSize
      /\ opt \in Options /\ Alive /\ Name(fits_file_index) = fits_file_index
  BY DEF SaveLast, IInv, TypeOK, Room, Alive, Name
<1>2. /\ UNCHANGED <<opt, left, n, bytes, height, lines, fits_file_index, power, ub>>
      /\ step' = "end" /\ ~Alive'
  BY DEF SaveLast, Alive
<1>3. \A k : FileOf(k)' = FileOf(k)
  BY <1>2 DEF FileOf
<1>4. \A k : k < fits_file_index \/ (k = fits_file_index /\ ~Alive) => k < fits_file_index' \/ (k = fits_file_index' /\ ~Alive')
  BY <1>1, <1>2
<1>5. CASE Len(lines) = 0
  <2>1. UNCHANGED <<disk, told, lost>>
    BY <1>5 DEF SaveLast, Worth
  <2>2. Stored' = Stored
    BY <2>1 DEF Saved, Stored
  <2>3. Fits /\ Out => Stored = 1..n
    BY <1>1, <1>5 DEF IInv, Kept
  <2>4. TypeOK' /\ Empty' /\ Room'
    BY <1>1, <1>2, <2>1 DEF IInv, TypeOK, Empty, Room, Out, Fits
  <2>5. Placed'
    BY <1>2, <1>4, <2>1 DEF IInv, Placed, Out
  <2>6. Told'
    BY <1>1, <1>2, <1>3, <1>4, <2>1 DEF IInv, Told
  <2>7. Fits' /\ Out' => Kept'
    <3> SUFFICES ASSUME Fits, Out PROVE Kept'
      BY <1>2 DEF Fits, Out
    <3>1. Len(lines) <= n /\ \A i \in 1..Len(lines) : lines[i] = n - Len(lines) + i
      BY DEF IInv, Kept
    <3> QED BY <3>1, <1>2, <2>2, <2>3 DEF Kept
  <2> QED BY <1>2, <2>2, <2>3, <2>4, <2>5, <2>6, <2>7 DEF IInv
<1>6. CASE Len(lines) > 0
  <2>1. Out /\ n # 0
    <3>1. lines # <<>>
      BY <1>6
    <3> QED BY <3>1 DEF IInv, Empty
  <2>2. told' = told \cup {fits_file_index} /\ Write(Name(fits_file_index), lines)
    BY <1>1, <1>6 DEF SaveLast, Worth
  <2>3. /\ Stored' = Stored \cup Rows(lines)
        /\ lost' = lost \/ lost' = lost \cup Rows(lines)
        /\ DOMAIN disk' \subseteq DOMAIN disk \cup {fits_file_index}
        /\ \A j \in DOMAIN disk : j \in DOMAIN disk' /\ disk'[j] = disk[j]
        /\ (fits_file_index \in DOMAIN disk' /\ disk'[fits_file_index] = lines) \/ Rows(lines) \subseteq lost'
        /\ \A j \in DOMAIN disk' :
             /\ disk'[j] \in Seq(Nat)
             /\ Len(disk'[j]) <= height
             /\ \A i \in 1..Len(disk'[j]) : disk'[j][i] = j * height + i
    BY <1>1, <2>2, WriteI
  <2>4. Fits => Stored' = 1..n
    BY <1>1, <2>1, <2>3, AllStored
  <2>5. TypeOK'
    <3>1. Rows(lines) \subseteq Nat
      BY <1>1 DEF Rows
    <3>2. DOMAIN disk' \subseteq Nat /\ told' \subseteq Nat /\ lost' \subseteq Nat
      BY <3>1, <1>1, <2>2, <2>3 DEF IInv, TypeOK
    <3> QED BY <3>2, <1>2, <2>3 DEF IInv, TypeOK
  <2>6. Empty' /\ Room'
    BY <1>1, <1>2, <2>1 DEF IInv, Empty, Room, Out
  <2>7. Placed'
    <3>1. \A j \in DOMAIN disk' : j < fits_file_index' \/ (j = fits_file_index' /\ ~Alive')
      BY <1>2, <1>4, <2>3 DEF IInv, Placed
    <3>2. height' >= 1 /\ Out' => n' = fits_file_index' * height' + Len(lines')
      BY <1>2 DEF IInv, Placed, Out
    <3>3. \A i \in 1..Len(lines') : lines'[i] = fits_file_index' * height' + i
      BY <1>2 DEF IInv, Placed
    <3> QED BY <3>1, <3>2, <3>3, <1>2, <2>3 DEF Placed
  <2>8. Fits' /\ Out' => Kept'
    <3> SUFFICES ASSUME Fits PROVE Kept'
      BY <1>2 DEF Fits
    <3>1. Len(lines) <= n /\ \A i \in 1..Len(lines) : lines[i] = n - Len(lines) + i
      BY <2>1 DEF IInv, Kept
    <3> QED BY <3>1, <1>2, <2>4 DEF Kept
  <2>9. Told'
    <3>1. ASSUME NEW k \in told'
          PROVE  /\ k < fits_file_index' \/ (k = fits_file_index' /\ ~Alive')
                 /\ (k \in DOMAIN disk' /\ disk'[k] = FileOf(k)') \/ Rows(FileOf(k)') \subseteq lost'
      <4>1. CASE k = fits_file_index
        <5>1. FileOf(k)' = lines
          BY <4>1, <1>3, FileOfObject
        <5> QED BY <4>1, <5>1, <1>2, <2>3
      <4>2. CASE k \in told
        <5>1. /\ k < fits_file_index \/ (k = fits_file_index /\ ~Alive)
              /\ (k \in DOMAIN disk /\ disk[k] = FileOf(k)) \/ Rows(FileOf(k)) \subseteq lost
          BY <4>2, <1>1 DEF IInv, Told
        <5> QED BY <5>1, <1>3, <1>4, <2>3
      <4> QED BY <4>1, <4>2, <2>2
    <3> QED BY <3>1 DEF Told
  <2> QED BY <2>4, <2>5, <2>6, <2>7, <2>8, <2>9 DEF IInv
<1> QED BY <1>1, <1>5, <1>6

(* A killed process leaves a prefix of the spectra. *)
LEMMA KillI ==
  ASSUME Numbered, IInv, Kill
  PROVE  /\ IInv'
         /\ Fits /\ Out => \E m \in 0..n : Stored \subseteq 1..m /\ Stored' = 1..m
         /\ ~Out => disk' = disk
<1>1. /\ lines \in Seq(Nat) /\ n \in Nat /\ fits_file_index \in Nat /\ Len(lines) \in Nat
      /\ step' = "killed" /\ ~Alive'
      /\ UNCHANGED <<opt, left, n, bytes, height, lines, fits_file_index, lost, power, ub>>
      /\ Name(fits_file_index) = fits_file_index
  BY DEF Kill, IInv, TypeOK, Alive, Name
<1>2. Alive
  BY DEF Kill, Alive, IInv, TypeOK
<1>3. told' \subseteq Nat
  BY <1>1 DEF Kill, IInv, TypeOK
<1>4. /\ disk' = disk \/ (Out /\ n # 0)
      /\ told' = told \/ (Out /\ n # 0)
      /\ disk' \in Cut(Name(fits_file_index), lines)
  <2>1. step = "save" => Out /\ n # 0
    BY DEF IInv, Empty
  <2>2. step = "last" /\ Worth(lines) => Out /\ n # 0
    <3>1. Worth(lines) => lines # <<>>
      BY DEF Worth
    <3> QED BY <3>1 DEF IInv, Empty
  <2>3. disk \in Cut(Name(fits_file_index), lines)
    BY DEF Cut
  <2> QED BY <2>1, <2>2, <2>3 DEF Kill
<1>5. /\ \E k \in 0..Len(lines) : Saved' = Saved \cup Rows(SubSeq(lines, 1, k))
      /\ DOMAIN disk' \subseteq DOMAIN disk \cup {fits_file_index}
      /\ \A j \in DOMAIN disk' :
           /\ disk'[j] \in Seq(Nat)
           /\ Len(disk'[j]) <= height
           /\ \A i \in 1..Len(disk'[j]) : disk'[j][i] = j * height + i
  BY <1>2, <1>4, CutI
<1>6. TypeOK'
  <2>1. DOMAIN disk' \subseteq Nat
    BY <1>1, <1>5 DEF IInv, TypeOK
  <2> QED BY <2>1, <1>1, <1>3, <1>5 DEF IInv, TypeOK
<1>7. Empty' /\ Room'
  BY <1>1, <1>4 DEF IInv, Empty, Room, Out
<1>8. Placed'
  <2>1. \A j \in DOMAIN disk' : j < fits_file_index' \/ (j = fits_file_index' /\ ~Alive')
    BY <1>1, <1>2, <1>5 DEF IInv, Placed
  <2>2. height' >= 1 /\ Out' => n' = fits_file_index' * height' + Len(lines')
    BY <1>1 DEF IInv, Placed, Out
  <2>3. \A i \in 1..Len(lines') : lines'[i] = fits_file_index' * height' + i
    BY <1>1 DEF IInv, Placed
  <2> QED BY <2>1, <2>2, <2>3, <1>1, <1>5 DEF Placed
<1>9. Fits' /\ Out' => Kept'
  <2> SUFFICES ASSUME Fits, Out PROVE Kept'
    BY <1>1 DEF Fits, Out
  <2>1. Len(lines) <= n /\ \A i \in 1..Len(lines) : lines[i] = n - Len(lines) + i
    BY DEF IInv, Kept
  <2> QED BY <2>1, <1>1 DEF Kept
<1>10. Told'
  BY <1>1 DEF Told
<1>11. Fits /\ Out => \E m \in 0..n : Stored \subseteq 1..m /\ Stored' = 1..m
  <2> SUFFICES ASSUME Fits, Out PROVE \E m \in 0..n : Stored \subseteq 1..m /\ Stored' = 1..m
    OBVIOUS
  <2>1. PICK k \in 0..Len(lines) : Saved' = Saved \cup Rows(SubSeq(lines, 1, k))
    BY <1>5
  <2>2. Stored' = Stored \cup Rows(SubSeq(lines, 1, k))
    BY <2>1, <1>1 DEF Stored
  <2>3. Stored \cup Rows(SubSeq(lines, 1, k)) = 1..(n - Len(lines) + k)
    BY <1>2, AllStored
  <2>4. Len(lines) <= n
    BY DEF IInv, Kept
  <2>5. n - Len(lines) + k \in 0..n
    BY <2>4, <1>1
  <2> QED BY <2>2, <2>3, <2>5
<1> QED BY <1>4, <1>6, <1>7, <1>8, <1>9, <1>10, <1>11 DEF IInv

-----------------------------------------------------------------------------
(* Every step keeps the invariant. *)
LEMMA StepI ==
  ASSUME Numbered, IInv, [StreamNext]_streamVars
  PROVE  IInv'
<1>1. CASE OpenFile \/ Skip \/ ReadEnd \/ ReadPart \/ BadBits \/ Check
  BY <1>1, QuietI
<1>2. CASE ReadChunk
  BY <1>2, ReadChunkI
<1>3. CASE Save
  BY <1>3, SaveI
<1>4. CASE SaveLast
  BY <1>4, LastI
<1>5. CASE Kill
  BY <1>5, KillI
<1>6. CASE UNCHANGED streamVars
  <2>1. UNCHANGED <<Saved, Alive, Out, Fits>> /\ \A k : FileOf(k)' = FileOf(k)
    BY <1>6 DEF streamVars, Saved, Alive, Out, Fits, FileOf
  <2>2. UNCHANGED Stored
    BY <1>6, <2>1 DEF streamVars, Stored
  <2>3. TypeOK' /\ Empty' /\ Room'
    BY <1>6, <2>1 DEF streamVars, IInv, TypeOK, Empty, Room
  <2>4. Placed' /\ (Fits' /\ Out' => Kept')
    BY <1>6, <2>1, <2>2 DEF streamVars, IInv, Placed, Kept
  <2>5. Told'
    BY <1>6, <2>1 DEF streamVars, IInv, Told
  <2> QED BY <2>3, <2>4, <2>5 DEF IInv
<1> QED BY <1>1, <1>2, <1>3, <1>4, <1>5, <1>6 DEF StreamNext, Step

(* The invariant holds throughout a conversion. *)
THEOREM Safe == ASSUME Numbered PROVE StreamSpec => []IInv
<1>1. StreamInit => IInv
  BY InitI
<1>2. IInv /\ [StreamNext]_streamVars => IInv'
  BY StepI
<1> QED BY <1>1, <1>2, PTL DEF StreamSpec

(* Type correctness: fileFFT's counters and lines keep their kinds. *)
THEOREM Typed == ASSUME Numbered PROVE StreamSpec => []TypeOK
<1>1. IInv => TypeOK
  BY DEF IInv
<1> QED BY <1>1, Safe, PTL

(* While the process lives, every file a message said was written holds     *)
(* exactly its own run of spectra, unless the write of that very run        *)
(* failed: whichever writes fail, whatever the command line.                *)
THEOREM ToldTheTruth == ASSUME Numbered PROVE StreamSpec => []Announced
<1>1. IInv => Announced
  BY DEF IInv, Told, Announced
<1> QED BY <1>1, Safe, PTL

(* Whatever is killed or fails, a FITS file holds no more lines than a file *)
(* may, and its line i is the spectrum that its number and i say.           *)
THEOREM EachInPlace == ASSUME Numbered PROVE StreamSpec => []InPlace
<1>1. IInv => InPlace
  <2> SUFFICES ASSUME IInv, NEW k \in DOMAIN disk
               PROVE  /\ Len(disk[k]) <= MaxFitsSize
                      /\ \A i \in 1..Len(disk[k]) : disk[k][i] = k * height + i
    BY DEF InPlace
  <2>1. /\ Len(disk[k]) \in Nat /\ height \in 0..MaxFitsSize /\ MaxFitsSize \in Nat
        /\ Len(disk[k]) <= height
        /\ \A i \in 1..Len(disk[k]) : disk[k][i] = k * height + i
    BY SpectraStreamAssumption DEF IInv, TypeOK, Room, Placed
  <2> QED BY <2>1
<1> QED BY <1>1, Safe, PTL

-----------------------------------------------------------------------------
(* Each step makes a spectrum, stores the ones made, ends the log, or is    *)
(* not seen by it.                                                          *)
LEMMA LogInit == StreamInit => Log!Init
<1> SUFFICES ASSUME StreamInit PROVE Log!Init
  OBVIOUS
<1>1. Made = 0 /\ Phase = "running"
  BY DEF StreamInit, Made, Phase
<1>2. DOMAIN disk = {}
  BY DEF StreamInit
<1>3. Saved \cup lost = {}
  BY <1>2 DEF StreamInit, Saved
<1> QED BY <1>1, <1>3 DEF Log!Init

LEMMA LogStep ==
  ASSUME Numbered, Fits, IInv, [StreamNext]_streamVars
  PROVE  [Log!Next]_Log!logvars
<1> USE DEF IInv
<1>1. n \in Nat /\ opt \in Options /\ opt.coarse \in Int /\ Made \in Nat
  BY SpectraStreamAssumption DEF TypeOK, Made, Commands
<1>2. ~Out => Stored = {} /\ Made = 0
  <2>1. ~Out => DOMAIN disk = {}
    BY DEF Empty
  <2> QED BY <2>1 DEF Saved, Stored, Empty, Made, Out
<1>3. Out => Made = n
  BY DEF Made, Out
<1>4. opt' = opt => Made' = IF Out THEN n' ELSE 0
  BY DEF Made, Out
<1>5. CASE Skip \/ ReadEnd \/ ReadPart \/ Check
  <2>1. UNCHANGED <<Made, Stored>>
    BY <1>5 DEF Skip, ReadEnd, ReadPart, Check, Made, Saved, Stored
  <2>2. Phase = "running" /\ Phase' = "running"
    BY <1>5 DEF Skip, ReadEnd, ReadPart, Check, Phase
  <2> QED BY <2>1, <2>2 DEF Stored, Log!logvars
<1>6. CASE OpenFile \/ BadBits
  <2>1. UNCHANGED <<opt, n, disk, lost>>
    BY <1>6 DEF OpenFile, BadBits
  <2>2. UNCHANGED <<Made, Stored>>
    BY <2>1 DEF Made, Saved, Stored
  <2>3. n = 0
    BY <1>6 DEF OpenFile, BadBits, Empty
  <2>4. Stored = {} /\ Made = 0
    <3>1. DOMAIN disk = {}
      BY <2>3 DEF Empty
    <3> QED BY <3>1, <2>3 DEF Saved, Stored, Empty, Made
  <2>5. Phase = "running" /\ Phase' \in {"running", "finished"}
    BY <1>6 DEF OpenFile, BadBits, Phase
  <2>6. Stored' = 1..Made
    BY <2>2, <2>4
  <2> QED BY <2>2, <2>5, <2>6 DEF Stored, Log!logvars, Log!Next, Log!Finish
<1>7. CASE ReadChunk
  <2>1. opt' = opt /\ disk' = disk /\ lost' = lost /\ n' = n + 1 /\ step = "read" /\ step' \in {"save", "check"}
    BY <1>7 DEF ReadChunk
  <2>2. Stored' = Stored
    BY <2>1 DEF Saved, Stored, Empty
  <2>3. Phase = "running" /\ Phase' = "running"
    BY <2>1 DEF Phase
  <2>4. IF Out THEN Made' = Made + 1 ELSE Made' = Made
    BY <1>2, <1>3, <1>4, <2>1
  <2> QED BY <2>2, <2>3, <2>4 DEF Stored, Log!logvars, Log!Next, Log!Make
<1>8. CASE Save
  <2>1. Out /\ opt' = opt /\ n' = n /\ step = "save" /\ step' = "check"
    BY <1>8 DEF Save, Empty
  <2>2. Stored' = 1..Made
    BY <1>3, <1>8, <2>1, SaveI
  <2>3. Phase = "running" /\ Phase' = "running"
    BY <2>1 DEF Phase
  <2>4. Made' = Made
    BY <1>3, <1>4, <2>1
  <2> QED BY <2>2, <2>3, <2>4 DEF Stored, Log!Next, Log!Store
<1>9. CASE SaveLast
  <2>1. opt' = opt /\ n' = n /\ step = "last" /\ step' = "end"
    BY <1>9 DEF SaveLast
  <2>2. Stored' = 1..Made
    <3>1. CASE Out
      BY <1>3, <1>9, <3>1, LastI
    <3>2. CASE ~Out
      <4>1. IInv' /\ ~Out'
        BY <1>9, <2>1, <3>2, LastI DEF Out
      <4>2. DOMAIN disk' = {}
        BY <4>1 DEF Empty
      <4>3. Stored' = {}
        BY <4>1, <4>2 DEF Saved, Stored, Empty
      <4> QED BY <4>3, <3>2, <1>2
    <3> QED BY <3>1, <3>2
  <2>3. Phase = "running" /\ Phase' = "finished"
    BY <2>1 DEF Phase
  <2>4. Made' = Made
    BY <1>2, <1>3, <1>4, <2>1
  <2> QED BY <2>2, <2>3, <2>4 DEF Stored, Log!Next, Log!Finish
<1>10. CASE Kill
  <2>1. opt' = opt /\ n' = n /\ step \notin {"end", "failed", "killed"} /\ step' = "killed"
    BY <1>10 DEF Kill
  <2>2. Phase = "running" /\ Phase' = "stopped"
    BY <2>1 DEF Phase
  <2>3. Made' = Made
    BY <1>2, <1>3, <1>4, <2>1
  <2>4. \E k \in 0..Made : Stored \subseteq 1..k /\ Stored' = 1..k
    <3>1. CASE Out
      BY <1>3, <1>10, <3>1, KillI
    <3>2. CASE ~Out
      <4>1. Stored' = Stored
        BY <1>10, <3>2, KillI DEF Kill, Saved, Stored
      <4>2. 1..0 = {} /\ 0 \in 0..Made
        BY <1>1
      <4> QED BY <1>2, <3>2, <4>1, <4>2
    <3> QED BY <3>1, <3>2
  <2> QED BY <2>2, <2>3, <2>4 DEF Stored, Log!Next, Log!Stop
<1>11. CASE UNCHANGED streamVars
  BY <1>11 DEF streamVars, Made, Saved, Stored, Phase, Log!logvars
<1> QED BY <1>5, <1>6, <1>7, <1>8, <1>9, <1>10, <1>11 DEF StreamNext, Step

(* A conversion with a numbered file name implements the log, whenever it   *)
(* is killed and whichever writes fail: what was put away is always a       *)
(* prefix of the spectra made, and all of them when it ends.                *)
THEOREM Implements == ASSUME Numbered, Fits PROVE StreamSpec => Logged
<1>1. StreamInit => Log!Init
  BY LogInit
<1>2. IInv /\ [StreamNext]_streamVars => [Log!Next]_Log!logvars
  BY LogStep
<1> QED BY <1>1, <1>2, Safe, PTL DEF StreamSpec, Logged, Log!Spec

-----------------------------------------------------------------------------
(* The limit is looked at after every chunk, so a running loop is below it. *)
Below ==
  /\ opt \in Options /\ bytes \in Nat
  /\ opt.limit > 0 /\ step \in {"open", "skip", "read", "save", "check"} => bytes <= opt.limit

LIInv == Below /\ LimitNear

(* The limit on the bytes stops the program within one chunk, whatever the  *)
(* options are and whether writes fail or not.                              *)
THEOREM StopsNear == StreamSpec => []LimitNear
<1>1. StreamInit => LIInv
  <2> SUFFICES ASSUME StreamInit PROVE LIInv
    OBVIOUS
  <2>1. opt \in Options /\ bytes = 0 /\ opt.limit \in Int
    BY SpectraStreamAssumption DEF StreamInit, Commands
  <2>2. Chunk(opt) \in Nat
    BY <2>1, ChunkSize
  <2> QED BY <2>1, <2>2 DEF LIInv, Below, LimitNear
<1>2. LIInv /\ [StreamNext]_streamVars => LIInv'
  <2> SUFFICES ASSUME LIInv, [StreamNext]_streamVars PROVE LIInv'
    OBVIOUS
  <2>1. opt \in Options /\ opt.limit \in Int /\ bytes \in Nat
    BY SpectraStreamAssumption DEF LIInv, Below, Commands
  <2>2. Chunk(opt) \in Nat
    BY <2>1, ChunkSize
  <2>3. CASE Check
    <3>1. opt' = opt /\ bytes' = bytes + Chunk(opt) /\ Chunk(opt') = Chunk(opt)
      BY <2>3 DEF Check
    <3>2. opt.limit > 0 => bytes <= opt.limit
      BY <2>3 DEF Check, LIInv, Below
    <3>3. step' = IF OverLimit(opt, bytes + Chunk(opt)) THEN "last" ELSE "read"
      BY <2>3 DEF Check
    <3>4. opt.limit > 0 /\ step' # "last" => bytes' <= opt.limit
      BY <2>1, <2>2, <3>1, <3>3 DEF OverLimit
    <3>5. opt.limit > 0 => bytes' <= opt.limit + Chunk(opt)
      BY <2>1, <2>2, <3>1, <3>2
    <3>6. bytes' \in Nat
      BY <2>1, <2>2, <3>1
    <3> QED BY <2>1, <3>1, <3>4, <3>5, <3>6 DEF LIInv, Below, LimitNear
  <2>4. CASE ~Check
    <3>1. /\ opt' = opt /\ bytes' = bytes
          /\ step' \in {"open", "skip", "read", "save", "check"}
             => step \in {"open", "skip", "read", "save", "check"}
      BY <2>4 DEF StreamNext, Step, OpenFile, Skip, ReadEnd, ReadPart, BadBits, ReadChunk, Save, SaveLast,
                  Kill, streamVars
    <3>2. Chunk(opt') = Chunk(opt)
      BY <3>1
    <3> QED BY <3>1, <3>2 DEF LIInv, Below, LimitNear
  <2> QED BY <2>3, <2>4
<1>3. LIInv => LimitNear
  BY DEF LIInv
<1> QED BY <1>1, <1>2, <1>3, PTL DEF StreamSpec

=============================================================================
