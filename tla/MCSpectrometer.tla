--------------------------- MODULE MCSpectrometer ---------------------------
(***************************************************************************)
(* The three users of a spectrometer that read whole files: one job        *)
(* converts a voltage file into spectra, one correlates two files, twice,  *)
(* the third filters or cuts a voltage file.  They share no state, so a    *)
(* run has one of them, and the others rest.                               *)
(***************************************************************************)
EXTENDS Correlate, VoltageCut, SpectraStream

VARIABLE job

jobVars == <<vars, cutVars, streamVars, job>>
-----------------------------------------------------------------------------
(* Command lines: eight samples, two fine channels. *)
AllOptions ==
  [size: {-1, 0, 5, 16, 24, 41}, hint: {-1, 7, 8, 20}, skip: {0, 3, 8, 9, 17},
   limit: {-1, 8, 20}, pols: {1, 2}, pol: {-1, 0, 1}, bits: {8}, coarse: -1..2]
  \cup [size: {24}, hint: {-1}, skip: {0}, limit: {-1}, pols: {1}, pol: {-1},
        bits: {4, 16}, coarse: {1}]

(* Option -y names a file of at least one transform, and what -x skips fits *)
(* into the buffer; -k and -c are anything.                                 *)
StreamOptions == {o \in AllOptions : (o.hint > 0 => o.hint >= N_SAMPLES) /\ o.skip <= Chunk(o)}

(* A file that is not there. *)
NothingToDo == [size |-> -1, hint |-> -1, skip |-> 0, limit |-> -1, pols |-> 1, pol |-> -1,
                bits |-> 8, coarse |-> -1]
Nothing == {NothingToDo}
-----------------------------------------------------------------------------
Ask(h, p, m, e, b) == [how |-> h, pol |-> p, n |-> m, eda |-> e, big |-> b]

(* Two files of e whole spectra. *)
Even(h, p, m, e) == Ask(h, p, m, e * Width(h), e * Width(h))

(* Files that are not there, or end in a part of a spectrum, the second    *)
(* shorter or longer than the first.                                       *)
Odd == {Ask(h, 0, 0, -1, 4) : h \in Hows} \cup {Ask(h, 0, 0, 4, -1) : h \in Hows}
       \cup {Ask(h, 1, 0, 5, b) : h \in Hows, b \in {0, 3, 7}}

Some == {Even(h, p, m, e) : h \in Hows, p \in 0 .. Pols - 1, m \in {1, 2}, e \in {1, 3}}
        \cup {Even(h, 1, m, e) : h \in Hows, m \in {0, 5}, e \in {1, 2, 5}} \cup Odd

Heights == {NoImage, 1, 2, 3}
-----------------------------------------------------------------------------
Pfb(t, x) == [how |-> "pfb", skip |-> 0, save |-> 0, extra |-> x, taps |-> t,
              file |-> FALSE]
CutOf(how, skip, save, x, f) ==
  [how |-> how, skip |-> skip, save |-> save, extra |-> x, taps |-> 1, file |-> f]

(* Times of no line, of whole ones and between them; without an output. *)
All ==
  {Pfb(t, e) : t \in 1 .. 4, e \in 0 .. N}
  \cup {CutOf("spectra", skip, save, 0, TRUE) : skip \in 0 .. 3, save \in 0 .. 3}
  \cup {CutOf("seconds", skip, save, e, TRUE) :
          skip \in 0 .. 2 * N + 1, save \in {0, N - 1, N, N + 1, 3 * N}, e \in {0, 1, N}}
  \cup {CutOf(how, 2, 2, 0, FALSE) : how \in {"seconds", "spectra"}}

(* A piece of two spectra behind the first one. *)
Piece1 == {CutOf("spectra", 1, 2, 0, TRUE)}

(* No file, and files of any length. *)
AnySize == -1 .. 7 * N
Long == {7 * N}
-----------------------------------------------------------------------------
(* The other jobs are ones that nobody asks for. *)
RestsCorrelate == Init /\ image.ysize = NoImage
RestsCut == CutInit /\ size = -1 /\ order = Pfb(1, 0)
RestsConvert == StreamInit /\ opt = NothingToDo

JobInit ==
  \/ job = "convert" /\ StreamInit /\ RestsCorrelate /\ RestsCut
  \/ job = "correlate" /\ Init /\ RestsCut /\ RestsConvert
  \/ job = "cut" /\ CutInit /\ RestsCorrelate /\ RestsConvert

Converted == step \in {"end", "failed", "killed"} /\ UNCHANGED streamVars

JobNext ==
  \/ job = "convert" /\ (StreamNext \/ Converted) /\ UNCHANGED <<vars, cutVars, job>>
  \/ job = "correlate" /\ Next /\ UNCHANGED <<cutVars, streamVars, job>>
  \/ job = "cut" /\ CutNext /\ UNCHANGED <<vars, streamVars, job>>

JobSpec == JobInit /\ [][JobNext]_jobVars
=============================================================================
