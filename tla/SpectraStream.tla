--------------------------- MODULE SpectraStream ----------------------------
(***************************************************************************)
(* CSpectrometer::fileFFT (src/src/spectrometer.cpp) as eda_spectrometer   *)
(* runs it: a voltage file is read in chunks, every full chunk becomes a   *)
(* spectrum, and the spectra go to a binary file and to a series of FITS   *)
(* files of bounded height.  The process may be killed between any two     *)
(* steps.                                                                  *)
(*                                                                         *)
(* A spectrum is its number; the transform itself is left out.  Accesses   *)
(* outside the fixed arrays are recorded in ub.                            *)
(***************************************************************************)
EXTENDS Integers, Sequences, FiniteSets

CONSTANTS
  N_SAMPLES,     (* samples in one transform *)
  N_FINE,        (* fine channels in a coarse channel *)
  OutWidth,      (* fine channels put out *)
  MaxFitsSize,   (* lines in a FITS file *)
  Options,       (* the command lines *)
  Numbered,      (* whether the name of the FITS file has a %d in it *)
  Faults         (* whether a write to disk may fail *)

(* size: bytes in the file, -1 when there is none; hint: option -y; skip:   *)
(* -x; limit: -m; pols, pol: -K, -k; bits: -n (the program takes 4 and 8, a *)
(* caller of the library may set any); coarse: -c, -1 for no output.        *)
Commands ==
  [size: Nat \cup {-1}, hint: Int, skip: Nat, limit: Int, pols: Nat \ {0}, pol: Int,
   bits: Int, coarse: Int]

ASSUME SpectraStreamAssumption ==
  /\ N_SAMPLES \in Nat \ {0} /\ N_FINE \in Nat \ {0} /\ OutWidth \in Nat \ {0}
  /\ MaxFitsSize \in Nat \ {0}
  /\ Options \subseteq Commands
  /\ Numbered \in BOOLEAN /\ Faults \in BOOLEAN

VARIABLES
  opt,      (* the command line *)
  step,     (* the next step of the loop *)
  left,     (* bytes not read yet *)
  n,        (* n_integr: spectra made *)
  bytes,    (* n_total_bytes_processed *)
  height,   (* outFitsSizeY *)
  lines,    (* the lines of pOutPowerFits *)
  fits_file_index,  (* the number of the FITS file being filled *)
  disk,     (* disk[k]: the lines of the FITS file with number k *)
  lost,     (* the spectra of the FITS files whose write failed; no variable of *)
            (* the code                                                         *)
  told,     (* the FITS files a message said were written *)
  power,    (* spectra in the binary file *)
  ub        (* the accesses outside an array *)

streamVars ==
  <<opt, step, left, n, bytes, height, lines, fits_file_index, disk, lost, told, power, ub>>

-----------------------------------------------------------------------------
(* n_samples_to_read: bytes in a chunk. *)
Chunk(o) == N_SAMPLES * o.pols

(* The positions of a chunk that become the samples of the transform. *)
Taken(o) ==
  IF o.pols <= 1 THEN 0..(N_SAMPLES - 1)
  ELSE {k \in 0..(Chunk(o) - 1) : k % 2 = o.pol}

(* The channels of the spectrum that are put out. *)
OutChannels(o) ==
  IF o.coarse < 0 THEN {}
  ELSE {c + o.coarse * N_FINE - N_FINE \div 2 : c \in 0..(OutWidth - 1)}

(* Mutant: the lines of the whole file, however long it is. *)
HeightUnlimited(o) == (IF o.hint > 0 THEN o.hint ELSE o.size) \div N_SAMPLES

(* outFitsSizeY: the lines a new CBgFits has room for. *)
Height(o) ==
  LET known == IF o.hint > 0 THEN o.hint ELSE o.size
      fit == known \div N_SAMPLES
  IN IF fit > MaxFitsSize THEN MaxFitsSize ELSE fit

(* sprintf(szOutFitsName, out_power_fits, fits_file_index) *)
Name(k) == IF Numbered THEN k ELSE 0

(* WriteFits of the lines ls under the name f. *)
Put(f, ls) == [k \in DOMAIN disk \cup {f} |-> IF k = f THEN ls ELSE disk[k]]

Rows(ls) == {ls[i] : i \in 1..Len(ls)}

(* What a WriteFits that does not come to its end leaves: the file is cut   *)
(* after some of its lines, or was not begun.                               *)
Cut(f, ls) == {disk} \cup {Put(f, SubSeq(ls, 1, k)) : k \in 0..Len(ls)}

(* The result of WriteFits is ignored, and the lines are given up with it.  *)
Write(f, ls) ==
  \/ disk' = Put(f, ls) /\ UNCHANGED lost
  \/ Faults /\ disk' \in Cut(f, ls) /\ lost' = lost \cup Rows(ls)

-----------------------------------------------------------------------------
StreamInit ==
  /\ opt \in Options
  /\ step = "open"
  /\ left = opt.size
  /\ n = 0 /\ bytes = 0 /\ height = 0 /\ fits_file_index = 0 /\ power = 0
  /\ lines = <<>> /\ disk = <<>>
  /\ told = {} /\ lost = {} /\ ub = {}

(* No file: return -1.  An empty file without -y: exit. *)
OpenFile ==
  /\ step = "open"
  /\ IF opt.size < 0 \/ (opt.hint <= 0 /\ opt.size = 0)
     THEN step' = "failed" /\ UNCHANGED height
     ELSE step' = "skip" /\ height' = Height(opt)
  /\ UNCHANGED <<opt, left, n, bytes, lines, fits_file_index, disk, lost, told, power, ub>>

(* Mutant: the bytes are counted as skipped though the file is shorter. *)
SkippedBlindly(l, s) == l - s

Skipped(l, s) == IF s > l THEN 0 ELSE l - s

(* The skipped bytes, as many as the file has, are read into the buffer of  *)
(* a chunk.                                                                 *)
Skip ==
  /\ step = "skip"
  /\ step' = "read"
  /\ left' = Skipped(left, opt.skip)
  /\ ub' = ub \cup IF opt.skip > Chunk(opt) /\ left > Chunk(opt) THEN {"skip"} ELSE {}
  /\ UNCHANGED <<opt, n, bytes, height, lines, fits_file_index, disk, lost, told, power>>

(* fread took what there was. *)
AfterPart(l) == 0

(* The file is at its end, or only a part of a chunk is left in it. *)
ReadEnd ==
  /\ step = "read" /\ left = 0
  /\ step' = "last"
  /\ UNCHANGED <<opt, left, n, bytes, height, lines, fits_file_index, disk, lost, told, power, ub>>

ReadPart ==
  /\ step = "read" /\ left > 0 /\ left < Chunk(opt)
  /\ left' = AfterPart(left)
  /\ UNCHANGED <<opt, step, n, bytes, height, lines, fits_file_index, disk, lost, told, power, ub>>

(* add_line: without a buffer nothing is added. *)
Line(ls, h, k) == IF h > 0 THEN Append(ls, k) ELSE ls

(* Samples of a width that is not handled: return -1. *)
BadBits ==
  /\ step = "read" /\ left >= Chunk(opt) /\ opt.bits \notin {4, 8}
  /\ step' = "failed"
  /\ left' = left - Chunk(opt)
  /\ UNCHANGED <<opt, n, bytes, height, lines, fits_file_index, disk, lost, told, power, ub>>

(* A full chunk: transform, accumulate, put out. *)
ReadChunk ==
  /\ step = "read" /\ left >= Chunk(opt) /\ opt.bits \in {4, 8}
  /\ left' = left - Chunk(opt)
  /\ n' = n + 1
  /\ ub' = ub \cup (IF Cardinality(Taken(opt)) # N_SAMPLES THEN {"samples"} ELSE {})
              \cup (IF OutChannels(opt) \subseteq 0..(N_SAMPLES \div 2 - 1) THEN {}
                    ELSE {"channels"})
  /\ IF opt.coarse >= 0
     THEN /\ power' \in {power + 1} \cup (IF Faults THEN {power} ELSE {})
          /\ lines' = Line(lines, height, n + 1)
          /\ step' = IF Len(lines') >= height THEN "save" ELSE "check"
     ELSE step' = "check" /\ UNCHANGED <<power, lines>>
  /\ UNCHANGED <<opt, bytes, height, fits_file_index, disk, lost, told>>

(* Mutant: the counter of the files is not advanced. *)
SameFile(k) == k

NextFile(k) == k + 1

(* The FITS file is full: save it and start the next one. *)
Save ==
  /\ step = "save"
  /\ told' = told \cup {Name(fits_file_index)}
  /\ Write(Name(fits_file_index), lines)
  /\ lines' = <<>>
  /\ fits_file_index' = NextFile(fits_file_index)
  /\ step' = "check"
  /\ UNCHANGED <<opt, left, n, bytes, height, power, ub>>

(* The limit is looked at after the chunk was processed. *)
OverLimit(o, b) == o.limit > 0 /\ b > o.limit

Check ==
  /\ step = "check"
  /\ bytes' = bytes + Chunk(opt)
  /\ step' = IF OverLimit(opt, bytes + Chunk(opt)) THEN "last" ELSE "read"
  /\ UNCHANGED <<opt, left, n, height, lines, fits_file_index, disk, lost, told, power, ub>>

(* Mutant: a single last line is not worth a file. *)
WorthMore(ls) == Len(ls) > 1

(* The last FITS file is cut to the lines it has; without a line there is   *)
(* none.                                                                    *)
Worth(ls) == Len(ls) > 0

SaveLast ==
  /\ step = "last"
  /\ step' = "end"
  /\ IF Worth(lines)
     THEN /\ Write(Name(fits_file_index), lines)
          /\ told' = told \cup {Name(fits_file_index)}
     ELSE UNCHANGED <<disk, lost, told>>
  /\ UNCHANGED <<opt, left, n, bytes, height, lines, fits_file_index, power, ub>>

(* A killed process leaves what it wrote; the file being written may be     *)
(* cut.  A full file is announced before it is written, the last one after. *)
Kill ==
  /\ step \notin {"end", "failed", "killed"}
  /\ step' = "killed"
  /\ \/ UNCHANGED <<disk, told>>
     \/ /\ step = "save"
        /\ told' = told \cup {Name(fits_file_index)}
        /\ disk' \in Cut(Name(fits_file_index), lines)
     \/ /\ step = "last" /\ Worth(lines)
        /\ disk' \in Cut(Name(fits_file_index), lines)
        /\ UNCHANGED told
  /\ UNCHANGED <<opt, left, n, bytes, height, lines, fits_file_index, lost, power, ub>>

Step ==
  \/ OpenFile \/ Skip \/ ReadEnd \/ ReadPart \/ BadBits \/ ReadChunk
  \/ Save \/ Check \/ SaveLast

StreamNext == Step \/ Kill

(* A process that is not killed goes on to its next step. *)
StreamSpec == StreamInit /\ [][StreamNext]_streamVars /\ WF_streamVars(Step)

-----------------------------------------------------------------------------
TypeOK ==
  /\ opt \in Options
  /\ step \in {"open", "skip", "read", "save", "check", "last", "end", "failed", "killed"}
  /\ left \in Nat \cup {-1} /\ n \in Nat /\ bytes \in Nat /\ height \in Int /\ fits_file_index \in Nat
  /\ lines \in Seq(Nat)
  /\ DOMAIN disk \subseteq Nat /\ \A k \in DOMAIN disk : disk[k] \in Seq(Nat)
  /\ told \subseteq Nat /\ lost \subseteq Nat /\ power \in Nat
  /\ ub \subseteq {"skip", "samples", "channels"}

Saved == UNION {Rows(disk[k]) : k \in DOMAIN disk}

(* What the log sees: without a coarse channel nothing is put out. *)
Made == IF opt.coarse >= 0 THEN n ELSE 0

Phase ==
  CASE step \in {"end", "failed"} -> "finished"
    [] step = "killed" -> "stopped"
    [] OTHER -> "running"

Log == INSTANCE SpectraLog WITH made <- Made, stored <- Saved \cup lost, state <- Phase

(* The conversion is a log of its spectra, whenever it is killed and        *)
(* whichever writes fail: a spectrum is on disk or was in a file whose      *)
(* write failed, these are a prefix of the ones made, and all of them when  *)
(* it ends.                                                                 *)
Logged == Log!Spec

(* The lines of the FITS file with number k as it is written: full, but for *)
(* the last one.                                                            *)
FileOf(k) == [i \in 1..(IF k < fits_file_index THEN height ELSE Len(lines)) |-> k * height + i]

(* While the process is alive, every file a message said was written holds  *)
(* exactly its own run of spectra, unless the write of that very run        *)
(* failed: a later file never takes the place of an announced one.          *)
Announced ==
  step # "killed" =>
    \A k \in told :
      \/ k \in DOMAIN disk /\ disk[k] = FileOf(k)
      \/ Rows(FileOf(k)) \subseteq lost

(* Whatever is killed or fails, a FITS file holds no more lines than a file *)
(* may, and its line i is the spectrum that its number and i say: which     *)
(* spectrum a line is can be told from the name of its file.                *)
InPlace ==
  \A k \in DOMAIN disk :
    /\ Len(disk[k]) <= MaxFitsSize
    /\ \A i \in 1..Len(disk[k]) : disk[k][i] = k * height + i

(* The limit stops the program within one chunk. *)
LimitNear == opt.limit > 0 => bytes <= opt.limit + Chunk(opt)
=============================================================================
