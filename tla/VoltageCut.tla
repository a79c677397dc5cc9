----------------------------- MODULE VoltageCut -----------------------------
(***************************************************************************)
(* What CSpectrometer (src/src/spectrometer.cpp) does with a voltage file  *)
(* besides the plain transform: filePFB makes every spectrum of several    *)
(* consecutive buffers (the taps of a polyphase filter bank), and          *)
(* SkipNSpectraAndSaveMSpectra and SkipNSec_and_SaveMSec cut a piece out   *)
(* of a file.                                                              *)
(*                                                                         *)
(* A byte of the file is its position.  The filter, the transform and the  *)
(* accumulation are left out: a spectrum is the buffers it is made of.     *)
(***************************************************************************)
EXTENDS Integers, Sequences, FiniteSets, SequencesExt

CONSTANTS
  N,       (* N_SAMPLES, or single_spectrum_size: the bytes read at a time *)
  Sizes,   (* the sizes of the file, -1 when there is none *)
  Orders   (* the calls *)

(* how: the function; skip, save: in spectra, or in samples of the clock    *)
(* where the function is told seconds; extra: skip_extra; taps: n_taps;     *)
(* file: whether there is a name for the output and it can be opened.       *)
AnyOrder == [how : {"pfb", "spectra", "seconds"}, skip : Nat, save : Nat,
             extra : Nat, taps : Nat \ {0}, file : BOOLEAN]

(* skip_extra bytes are read into a buffer of N. *)
ASSUME VoltageCutAssumption ==
  /\ N \in Nat \ {0}
  /\ Sizes \subseteq Nat \cup {-1} /\ Orders \subseteq AnyOrder
  /\ \A a \in Orders : a.extra <= N /\ (a.how = "spectra" => a.extra = 0)

VARIABLES
  order, size,
  phase,      (* "open", "loop", "finished", "failed", "crashed" *)
  toSkip,     (* lines_to_skip *)
  toWrite,    (* lines_to_write *)
  place,      (* the bytes read *)
  buffer,
  taps,       (* pfb_buffer, the oldest first *)
  idx,        (* idx, index *)
  n_skipped,
  n_written,  (* spectra or lines written; the bytes of filePFB are not counted *)
  out         (* the spectra, or the buffers written *)

cutVars == <<order, size, phase, toSkip, toWrite, place, buffer, taps, idx, n_skipped, n_written, out>>

Unread == -1
-----------------------------------------------------------------------------
CutInit ==
  /\ order \in Orders /\ size \in Sizes /\ phase = "open" /\ place = 0
  /\ buffer = [k \in 0 .. N - 1 |-> Unread] /\ taps = <<>>
  /\ toSkip = 0 /\ toWrite = 0 /\ idx = 0 /\ n_skipped = 0 /\ n_written = 0 /\ out = <<>>

(* fread of n bytes at p: what it returns, and what it leaves in b, whose   *)
(* tail it does not touch.                                                  *)
Piece(p, n) == IF size - p < n THEN size - p ELSE n

Loaded(b, p, n) ==
  [k \in 0 .. N - 1 |-> IF k < Piece(p, n) THEN p + k ELSE b[k]]

(* filePFB skips its extra bytes before the first buffer. *)
SkipFirst == IF order.how = "pfb" THEN order.extra ELSE 0

(* The lines a time of t samples makes: the quotient of two doubles cut to  *)
(* an integer, which a time of whole lines may miss by one.                 *)
LinesIn(t) == {n \in 0 .. t : n * N <= t /\ t <= (n + 1) * N}

Open ==
  /\ phase = "open" /\ size # -1
  /\ phase' = "loop"
  /\ IF order.how = "seconds"
     THEN toSkip' \in LinesIn(order.skip) /\ toWrite' \in LinesIn(order.save)
     ELSE UNCHANGED <<toSkip, toWrite>>
  /\ place' = Piece(0, SkipFirst)
  /\ buffer' = Loaded(buffer, 0, SkipFirst)
  /\ UNCHANGED <<order, size, taps, idx, n_skipped, n_written, out>>

NoFile ==
  /\ phase = "open" /\ size = -1
  /\ phase' = "failed"
  /\ UNCHANGED <<order, size, toSkip, toWrite, place, buffer, taps, idx, n_skipped, n_written, out>>

-----------------------------------------------------------------------------
(* The head of the three loops. *)
Loop(how) == phase = "loop" /\ order.how = how /\ Piece(place, N) > 0
Whole == Piece(place, N) = N
NextBuffer == Loaded(buffer, place, N)

(* fwrite and fclose of an output file that is not there; filePFB asks      *)
(* before both.                                                             *)
NoOutput == order.how # "pfb" /\ ~order.file

CutEndOfFile ==
  /\ phase = "loop" /\ Piece(place, N) = 0
  /\ phase' = IF NoOutput THEN "crashed" ELSE "finished"
  /\ UNCHANGED <<order, size, toSkip, toWrite, place, buffer, taps, idx, n_skipped, n_written, out>>

ShiftedLast(b) ==
  IF Len(taps) < order.taps THEN Append(taps, b)
  ELSE [taps EXCEPT ![order.taps] = b]

(* The taps are filled one by one, then every buffer pushes the oldest out. *)
Shifted(b) ==
  IF Len(taps) < order.taps THEN Append(taps, b) ELSE Append(Tail(taps), b)

(* The loop goes on without counting while the taps are being filled. *)
PfbFills ==
  /\ Loop("pfb") /\ Whole /\ Len(taps) + 1 < order.taps
  /\ buffer' = NextBuffer /\ place' = place + N
  /\ taps' = Shifted(NextBuffer)
  /\ UNCHANGED <<order, size, toSkip, toWrite, phase, idx, n_skipped, n_written, out>>

PfbSpectrum ==
  /\ Loop("pfb") /\ Whole /\ Len(taps) + 1 >= order.taps
  /\ buffer' = NextBuffer /\ place' = place + N
  /\ taps' = Shifted(NextBuffer)
  /\ out' = Append(out, taps')
  /\ idx' = idx + 1
  /\ UNCHANGED <<order, size, toSkip, toWrite, phase, n_skipped, n_written>>

PfbPartEnters ==
  /\ Loop("pfb") /\ ~Whole
  /\ buffer' = NextBuffer /\ place' = size
  /\ taps' = Shifted(NextBuffer)
  /\ out' = Append(out, taps')
  /\ idx' = idx + 1
  /\ UNCHANGED <<order, size, toSkip, toWrite, phase, n_skipped, n_written>>

(* The rest of a file that is not a multiple of the buffer is counted only. *)
PfbPart ==
  /\ Loop("pfb") /\ ~Whole
  /\ buffer' = NextBuffer /\ place' = size
  /\ idx' = idx + 1
  /\ UNCHANGED <<order, size, toSkip, toWrite, phase, taps, n_skipped, n_written, out>>

-----------------------------------------------------------------------------
SpectraEndLater(n) == n > order.save + 1

SpectraEnd(n) == n > order.save

SkipsSpectrum == idx < order.skip

(* The whole buffer is written, however much of it was read.  The number    *)
(* written is compared after it was counted, and with a >.                  *)
Spectra ==
  /\ Loop("spectra")
  /\ buffer' = NextBuffer /\ place' = place + Piece(place, N)
  /\ IF SkipsSpectrum
     THEN idx' = idx + 1 /\ UNCHANGED <<phase, n_written, out>>
     ELSE IF NoOutput THEN phase' = "crashed" /\ UNCHANGED <<idx, n_written, out>>
     ELSE /\ out' = Append(out, buffer') /\ n_written' = n_written + 1
          /\ IF SpectraEnd(n_written')
             THEN phase' = "finished" /\ UNCHANGED idx
             ELSE idx' = idx + 1 /\ UNCHANGED phase
  /\ UNCHANGED <<order, size, toSkip, toWrite, taps, n_skipped>>

-----------------------------------------------------------------------------
SecondsSkipMore ==
  /\ Loop("seconds") /\ Whole /\ n_skipped <= toSkip
  /\ buffer' = NextBuffer /\ place' = place + N
  /\ n_skipped' = n_skipped + 1
  /\ UNCHANGED <<order, size, toSkip, toWrite, phase, taps, idx, n_written, out>>

SecondsSkip ==
  /\ Loop("seconds") /\ Whole /\ n_skipped < toSkip
  /\ buffer' = NextBuffer /\ place' = place + N
  /\ n_skipped' = n_skipped + 1
  /\ UNCHANGED <<order, size, toSkip, toWrite, phase, taps, idx, n_written, out>>

AtFirstLine == n_skipped = toSkip

(* The extra bytes are skipped behind the first line that is not: it gives  *)
(* its place to the one read after them, as far as there is one.            *)
AfterExtra ==
  IF AtFirstLine /\ order.extra > 0
  THEN LET q == place + N + Piece(place + N, order.extra)
       IN  [place |-> q + Piece(q, N),
            buffer |-> Loaded(Loaded(NextBuffer, place + N, order.extra), q, N)]
  ELSE [place |-> place + N, buffer |-> NextBuffer]

SecondsWrite ==
  /\ Loop("seconds") /\ Whole /\ n_skipped >= toSkip
  /\ place' = AfterExtra.place /\ buffer' = AfterExtra.buffer
  /\ n_skipped' = IF AtFirstLine THEN n_skipped + 1 ELSE n_skipped
  /\ IF n_written < toWrite /\ ~NoOutput
     THEN out' = Append(out, buffer') /\ n_written' = n_written + 1 /\ UNCHANGED phase
     ELSE /\ phase' = IF NoOutput THEN "crashed" ELSE "finished"
          /\ UNCHANGED <<out, n_written>>
  /\ UNCHANGED <<order, size, toSkip, toWrite, taps, idx>>

SecondsPart ==
  /\ Loop("seconds") /\ ~Whole
  /\ buffer' = NextBuffer /\ place' = size
  /\ UNCHANGED <<order, size, toSkip, toWrite, phase, taps, idx, n_skipped, n_written, out>>

(* The return of the functions. *)
CutDone == phase \in {"finished", "failed", "crashed"} /\ UNCHANGED cutVars

CutNext ==
  \/ Open \/ NoFile \/ CutEndOfFile
  \/ PfbFills \/ PfbSpectrum \/ PfbPart
  \/ Spectra
  \/ SecondsSkip \/ SecondsWrite \/ SecondsPart
  \/ CutDone

CutSpec == CutInit /\ [][CutNext]_cutVars

-----------------------------------------------------------------------------
(* The bytes of N buffers from position p on. *)
Bytes(p) == [k \in 0 .. N - 1 |-> p + k]

(* Every spectrum of filePFB is made of consecutive buffers, oldest first,  *)
(* and the next one of the same buffers moved on by one.                    *)
TapsFollow ==
  order.how = "pfb"
    => \A k \in DOMAIN out :
         out[k] = [j \in 1 .. order.taps |-> Bytes(order.extra + (k + j - 2) * N)]

(* It makes one of every group of n_taps whole buffers of the file, none    *)
(* missing at its end.                                                      *)
AllSpectra ==
  order.how = "pfb" /\ phase = "finished"
    => LET whole == (size - Piece(0, order.extra)) \div N
       IN  Len(out) = IF whole < order.taps THEN 0 ELSE whole - order.taps + 1

(* filePFB: the spectra follow each other through the whole file, each of   *)
(* n_taps consecutive buffers, none of them stale, doubled or left out.     *)
Filtered == TapsFollow /\ AllSpectra

(* Where the piece was to start, and what of it is written when the loop    *)
(* has ended, in samples.                                                   *)
Cuts == order.how # "pfb"
AskedStart == IF order.how = "spectra" THEN order.skip * N ELSE order.skip + order.extra
AskedLength == IF order.how = "spectra" THEN order.save * N ELSE order.save
Written == Len(out) * N

(* From position s on, out has every byte the file has there, in order.     *)
From(s) ==
  \A k \in DOMAIN out : \A i \in 0 .. N - 1 :
    s + (k - 1) * N + i < size => out[k][i] = s + (k - 1) * N + i

(* Where it may start: at the spectrum asked for; less than a line before   *)
(* the time asked for, or behind it when extra bytes are skipped.           *)
Starts ==
  IF order.how = "spectra" THEN {AskedStart}
  ELSE IF order.extra > 0 THEN AskedStart .. AskedStart + N
  ELSE AskedStart - N .. AskedStart

(* The two functions that cut: the piece goes through the file byte by byte *)
(* from such a place, and it ends less than two lines before as much as was *)
(* asked for, if not at the end of the file: nothing of it is left out.     *)
CutAsAsked ==
  Cuts => \E s \in Starts :
            /\ From(s)
            /\ phase = "finished" =>
                 \/ AskedLength <= Written + N
                 \/ size < s + Written + N

(* "requested to save %d spectra from file %s starting at %d spectrum": no  *)
(* more than that.                                                          *)
NoMoreThanAsked == Cuts => Written <= AskedLength
=============================================================================
