---------------------------- MODULE TotalPowerHor ----------------------------
(***************************************************************************)
(* total_power_hor (apps/total_power_hor.cpp), one run of it: integrations *)
(* are the columns of an image, channels its rows.  Where TotalPower looks *)
(* at which integrations come out over many runs, this module looks at     *)
(* what comes out of each: which of its channels count for its power, its  *)
(* time, and the spread of the integrations around it.                     *)
(*                                                                         *)
(* Powers are whole numbers; a mean or a spread is the sums it is made of. *)
(* Decibels, which change no choice, are left out.                         *)
(***************************************************************************)
EXTENDS Series

CONSTANTS
  Lists,         (* the lists of files, each [w, h, at, t0, inttime, f0, df, ranges, readable] *)
  Lines,         (* the command lines: sequences of [opt, arg]                   *)
  Gain,          (* mW for a unit of power, by frequency                         *)
  MaxFreq,       (* BIGHORNS_MAX_FREQ_MHZ                                        *)
  Orbcomm,       (* the frequencies of ORBCOMM                                   *)
  MaxRMSChunk    (* gMaxRMSChunk                                                 *)

NoImage == 0

VARIABLES
  images,  (* the list *)
  g,       (* the globals the command line sets *)
  at,      (* "idle", "first", "loop", "column", "report", "done", "exit" *)
  file,    (* the place in the list *)
  x,       (* the column *)
  t,       (* the seconds of the next row *)
  list,    (* total_power_list *)
  out,     (* the output file *)
  stampFile    (* the stamp file *)

horVars == <<images, g, at, file, x, t, list, out, stampFile>>

-----------------------------------------------------------------------------
(* The command line. *)
Globals ==
  [minX |-> 0, maxX |-> -1, start |-> 0, end |-> -1, startFreq |-> -1000, endFreq |-> -1000, excluded |-> <<>>,
   last |-> NoImage, fromLast |-> 0, stamps |-> <<>>, mean |-> 0, sql |-> 0, orbcomm |-> 0, state |-> Unset,
   minPower |-> Lacking, maxPower |-> -1, startUX |-> -1, endUX |-> -1, cols |-> 0, append |-> FALSE, around |-> -1,
   brightest |-> -1, kurtosis |-> 0, fit |-> -1, now |-> 0, sqr |-> 0, unit |-> "bedlam", cuts |-> <<>>]

(* Letters and -q parameters that just set a global. *)
Field ==
  [a |-> "minPower", b |-> "maxPower", m |-> "minX", x |-> "maxX", s |-> "start", e |-> "end", l |-> "startFreq",
   t |-> "state", u |-> "endFreq", o |-> "startUX", p |-> "endUX"]
Param ==
  [calc_median_sigma_n_sec_around |-> "around", start_from_last |-> "fromLast", unit |-> "unit",
   exclude_n_birghtest |-> "brightest", kurtosis |-> "kurtosis", fit_pol_n |-> "fit", mean_total_power |-> "mean",
   write_now |-> "now", sql |-> "sql", orbcomm |-> "orbcomm", do_sqr |-> "sqr", int_time_stamp_file |-> "stamps"]

Letter(gl, o) ==
  CASE o.opt \in DOMAIN Field -> [gl EXCEPT ![Field[o.opt]] = o.arg]
    [] o.opt = "c" -> IF o.arg > 0 THEN [gl EXCEPT !.cols = o.arg] ELSE gl
    [] o.opt = "g" -> [gl EXCEPT !.append = TRUE]
    [] OTHER -> gl

GetVarAndValue(gl, o) ==
  CASE o.opt \in DOMAIN Param -> [gl EXCEPT ![Param[o.opt]] = o.arg]
    [] o.opt = "exclude" -> [gl EXCEPT !.excluded = Append(@, Value(o.arg[1], o.arg[2], -1000))]
    [] o.opt = "last_processed" -> [gl EXCEPT !.last = o.arg, !.fromLast = 1]
    [] o.opt = "total_power_cut_range" -> [gl EXCEPT !.cuts = Append(@, [min |-> o.arg[1], max |-> o.arg[2], threshold |-> o.arg[3]])]
    [] OTHER -> gl

parse_cmdline(line) ==
  LET set[i \in 0 .. Len(line)] == IF i = 0 THEN Globals ELSE GetVarAndValue(Letter(set[i - 1], line[i]), line[i])
  IN  set[Len(line)]

GetTotalPowerThreshold(gl, uxtime, otherwise) ==
  LET i == FirstOf({k \in DOMAIN gl.cuts : gl.cuts[k].min <= uxtime /\ uxtime <= gl.cuts[k].max})
  IN  IF i = 0 THEN otherwise ELSE gl.cuts[i].threshold

-----------------------------------------------------------------------------
(* One integration: the column of an image. *)
valXY(im, c, y) == IF c \in 0 .. im.w - 1 /\ y \in 0 .. im.h - 1 THEN im.at[<<c, y>>] ELSE NaN
(* The frequencies are spread over the columns, whatever the channels are.  *)
ch2freq(im, y) == im.f0 + y * im.df
freq2ch(im, f) == ((f - im.f0) * im.w) \div (im.df * (im.w - 1))

(* Mutant: the band of the first file, even if the file has less. *)
EndOfFirst(gl, im) == gl.end

(* The band of the first file, as much of it as the file has. *)
End(gl, im) == Min({gl.end, im.h - 1})

InBand(gl, im) == {y \in gl.start .. End(gl, im) : ~IsFreqExcluded(gl.excluded, ch2freq(im, y))}

Power(gl, im, c, y) == LET v == valXY(im, c, y) IN IF gl.sqr > 0 THEN Times(v, v) ELSE v

(* The table the brightest channels are found in has a place for each       *)
(* channel, and all of them are put in the place of the column, of which    *)
(* the last stays.  A place outside is nobody's here.                       *)
maxTotalPowerByExclusion(gl, im, c) ==
  LET size == End(gl, im) - gl.start + 1
      place == c - gl.start + 1
      put == IF place \in 1 .. size /\ InBand(gl, im) # {} THEN [alloc(size, 0) EXCEPT ![place] = Power(gl, im, c, Max(InBand(gl, im)))]
             ELSE alloc(size, 0)
  IN  IF gl.brightest <= 0 THEN -1
      ELSE IF size - gl.brightest < 1 \/ \E i \in DOMAIN put : ~Number(put[i]) THEN Unset
      ELSE Sorted(put)[size - gl.brightest]

TooBright(limit, v) == limit # Unset /\ Above(limit, 0) /\ Above(v, limit)
Counted(gl, im, c) == {y \in InBand(gl, im) : ~TooBright(maxTotalPowerByExclusion(gl, im, c), Power(gl, im, c, y))}

InUnits(gl, im, c, y) == LET v == Power(gl, im, c, y) IN IF gl.unit = "bedlam" THEN v ELSE Times(v, Gain[ch2freq(im, y)])

(* The mean the fourth moment is about. *)
mu_mean(gl, im, c) ==
  [n |-> IF gl.kurtosis > 0 THEN Cardinality(Counted(gl, im, c)) ELSE 0,
   s |-> IF gl.kurtosis > 0 THEN SumOver(LAMBDA y : InUnits(gl, im, c, y), Counted(gl, im, c)) ELSE 0]

(* The channel with the most power of those up to MaxFreq. *)
maxChannel(gl, im, c) ==
  LET some == {y \in Counted(gl, im, c) : ch2freq(im, y) <= MaxFreq /\ Above(Power(gl, im, c, y), -1)}
      best == {y \in some : \A z \in some : ~Above(Power(gl, im, c, z), Power(gl, im, c, y))}
  IN  IF some = {} THEN [power |-> -1, freq |-> -1] ELSE [power |-> Power(gl, im, c, Min(best)), freq |-> ch2freq(im, Min(best))]

(* It goes one row too far. *)
orbcomm_sum(gl, im, c) ==
  IF gl.orbcomm > 0 THEN SumOver(LAMBDA y : Power(gl, im, c, y), {y \in 0 .. im.h : ch2freq(im, y) \in Orbcomm}) ELSE 0

(* A mean of no channels is not a number.  The spread is made of the total  *)
(* as it is by then.                                                        *)
Totals(gl, im, c) ==
  LET counted == Counted(gl, im, c)
      sum == SumOver(LAMBDA y : InUnits(gl, im, c, y), counted)
      total == IF gl.mean > 0 THEN Over(sum, Cardinality(counted)) ELSE sum
  IN  [total |-> total, bedlam |-> SumOver(LAMBDA y : Power(gl, im, c, y), counted),
       rms |-> [n |-> Cardinality(counted), s |-> total,
                s2 |-> SumOver(LAMBDA y : Times(InUnits(gl, im, c, y), InUnits(gl, im, c, y)), counted)]]

TimeOf(gl, im, c) == IF gl.stamps # <<>> THEN get_uxtime_fast(gl.stamps, gi0, c).y ELSE im.t0 + im.inttime * c

StateOf(im, c) == IF c \in DOMAIN im.ranges THEN im.ranges[c] ELSE Unset

(* Columns are left out by their type, when the file tells types, by their  *)
(* power, and by their time.  A power that is not a number is let through.  *)
Wanted(gl, im, c, totals, t_int) ==
  /\ gl.state # Unset /\ im.ranges # <<>> => StateOf(im, c) = gl.state
  /\ ~Above(gl.minPower, totals.bedlam)
  /\ gl.maxPower > 0 => ~Above(totals.bedlam, gl.maxPower)
  /\ gl.startUX > 0 => t_int >= gl.startUX
  /\ gl.endUX > 0 => t_int <= gl.endUX

RowOf(gl, im, k, c, totals) ==
  [line |-> "row", file |-> k, fits_int |-> c, t |-> t, t_int |-> TimeOf(gl, im, c), total |-> totals.total,
   bedlam |-> totals.bedlam, rms |-> totals.rms, max |-> maxChannel(gl, im, c), orbcomm |-> orbcomm_sum(gl, im, c),
   ok |-> StateOf(im, c), mu |-> mu_mean(gl, im, c), local |-> [n |-> 0], median |-> Unset]

-----------------------------------------------------------------------------
HorIdle ==
  /\ images = <<>> /\ g = Globals /\ at = "idle" /\ file = 0 /\ x = 0 /\ t = 0
  /\ list = <<>> /\ out = <<>> /\ stampFile = NoImage

HorInit ==
  /\ images \in Lists
  /\ \E line \in Lines : g = parse_cmdline(line)
  /\ at = "first" /\ file = 0 /\ x = 0 /\ t = 0
  /\ list = <<>> /\ out = <<[line |-> "old"]>> /\ stampFile \in {NoImage} \cup DOMAIN images

Table == [line |-> "header"]

(* The first file must be readable.  It gives the channels; the last file   *)
(* processed, named on the line or in the stamp file, where to start.       *)
First ==
  /\ at = "first"
  /\ IF ~images[1].readable THEN at' = "exit" /\ UNCHANGED <<g, file, out>>
     ELSE LET im == images[1]
              from == IF g.startFreq > 0 THEN freq2ch(im, g.startFreq) ELSE g.start
              to == IF g.endFreq > 0 THEN freq2ch(im, g.endFreq) ELSE g.end
              last == IF g.fromLast > 0 /\ g.last = NoImage THEN stampFile ELSE g.last
          IN  /\ g' = [g EXCEPT !.start = from, !.end = IF to < 0 THEN im.h - 1 ELSE to, !.last = last]
              /\ file' = IF g.fromLast > 0 THEN last ELSE 0
              /\ out' = (IF g.append THEN out ELSE <<>>) \o (IF g.now > 0 /\ g.sql = 0 THEN <<Table>> ELSE <<>>)
              /\ at' = "loop"
  /\ UNCHANGED <<x, t, list, stampFile>>

OpenFile ==
  /\ at = "loop" /\ file < Len(images)
  /\ LET im == images[file + 1]
     IN  IF ~im.readable THEN file' = file + 1 /\ UNCHANGED <<at, x, t, out>>
         ELSE /\ out' = IF g.now > 0 /\ g.sql > 0 THEN Append(out, [line |-> "file", file |-> file + 1]) ELSE out
              /\ at' = "column" /\ x' = g.minX /\ t' = im.t0 - images[1].t0
              /\ UNCHANGED file
  /\ UNCHANGED <<g, list, stampFile>>

EndX(im) == IF g.maxX > 0 THEN g.maxX ELSE im.w

(* The time of an integration that has none is -1. *)
Column ==
  /\ at = "column" /\ x < EndX(images[file + 1])
  /\ gi0' = IF g.stamps # <<>> THEN get_uxtime_fast(g.stamps, gi0, x).at ELSE gi0
  /\ IF g.fit >= 0 THEN at' = "exit" /\ UNCHANGED <<x, t, list, out>>
     ELSE LET im == images[file + 1]
              totals == Totals(g, im, x)
              row == RowOf(g, im, file + 1, x, totals)
          IN  /\ IF Wanted(g, im, x, totals, row.t_int)
                 THEN /\ t' = t + im.inttime
                      /\ IF g.now > 0 THEN out' = Append(out, row) /\ UNCHANGED list
                         ELSE list' = Append(list, row) /\ UNCHANGED out
                 ELSE UNCHANGED <<t, list, out>>
              /\ x' = x + 1 /\ UNCHANGED at
  /\ UNCHANGED <<g, file, stampFile>>

FileDone ==
  /\ at = "column" /\ x >= EndX(images[file + 1])
  /\ g' = [g EXCEPT !.last = file + 1]
  /\ file' = file + 1 /\ at' = "loop"
  /\ UNCHANGED <<x, t, list, out, stampFile>>

(* The stamp file takes the place of the old one if there is a name in it. *)
Stamp ==
  /\ at = "loop" /\ file >= Len(images)
  /\ stampFile' = IF g.last = NoImage THEN stampFile ELSE g.last
  /\ at' = "report"
  /\ UNCHANGED <<g, file, x, t, list, out>>

-----------------------------------------------------------------------------
(* calc_rmses: a row that follows a gap of more than two integrations, or   *)
(* enough others, is given the spread of the rows before it; the rows       *)
(* behind the last such row are given to none.                              *)
Apart(rows, k, inttime) == k > 1 /\ Magnitude(rows[k].t_int - rows[k - 1].t_int) > 2 * inttime

(* The first row of the stretch a row is in; -1 for the first stretch.      *)
ChunkStarts(rows, inttime) ==
  LET start[k \in DOMAIN rows] ==
        IF k = 1 THEN -1
        ELSE IF Apart(rows, k, inttime) \/ (MaxRMSChunk > 0 /\ k - 1 - start[k - 1] >= MaxRMSChunk) THEN k - 1
        ELSE start[k - 1]
  IN  start

(* Mutant: the sums are not started again. *)
calc_rmses_on(rows, inttime) ==
  LET start == ChunkStarts(rows, inttime)
  IN  [k \in DOMAIN rows |->
         IF k > 1 /\ start[k] = k - 1 THEN [rows[k] EXCEPT !.local = [n |-> k - 1, first |-> 1]] ELSE rows[k]]

calc_rmses(rows, inttime) ==
  LET start == ChunkStarts(rows, inttime)
      before(k) == Max({0, start[k - 1]}) + 1
  IN  [k \in DOMAIN rows |->
         IF k > 1 /\ start[k] = k - 1 THEN [rows[k] EXCEPT !.local = [n |-> k - before(k), first |-> before(k)]] ELSE rows[k]]

WithMedian(rows, k) ==
  IF g.cols # 0 \/ g.around <= 0 THEN rows[k]
  ELSE [rows[k] EXCEPT !.median =
         GetLocalMedianBothSides(rows, rows[k].t_int, g.around, GetTotalPowerThreshold(g, rows[k].t_int, 1000))]

Report ==
  /\ at = "report" /\ at' = "done"
  /\ IF g.now > 0 THEN UNCHANGED <<list, out>>
     ELSE /\ list' = calc_rmses(list, images[1].inttime)
          /\ out' = out \o <<Table>> \o [k \in DOMAIN list' |-> WithMedian(list', k)]
  /\ UNCHANGED <<g, file, x, t, stampFile>>

HorNext == (Column \/ ((First \/ OpenFile \/ FileDone \/ Stamp \/ Report) /\ UNCHANGED gi0)) /\ UNCHANGED images

-----------------------------------------------------------------------------
(* The files of one list may be of different sizes, and the channels are    *)
(* those of the first: no total takes in a channel its file has not.  It is *)
(* a number, unless the column is behind the last one (-x) or it is a mean  *)
(* of no channels.                                                          *)
Numbers ==
  \A k \in DOMAIN list :
    LET row == list[k]
    IN  Number(row.total) \/ row.fits_int >= images[row.file].w \/ (g.mean > 0 /\ row.rms.n = 0)

(* The spreads of calc_rmses are of stretches that follow one another: each *)
(* is of rows with no gap between them, begins where the one before ended,  *)
(* and ends at the row it is given to; every row behind a gap has one.      *)
ChunksAddUp ==
  LET inttime == images[1].inttime
      given == {k \in DOMAIN list : list[k].local.n > 0}
  IN  at = "done" =>
        /\ \A k \in given :
             LET c == list[k].local
             IN  /\ c.first + c.n = k /\ c.first \in given \cup {1}
                 /\ \A j \in c.first + 1 .. k - 1 : ~Apart(list, j, inttime)
        /\ \A k \in DOMAIN list : Apart(list, k, inttime) => k \in given

(* What total_power_hor writes of a list of files is the power of what is   *)
(* in them: a number wherever they have one, its spread that of the rows    *)
(* taken without a gap.                                                     *)
HorTotals == Numbers /\ ChunksAddUp
=============================================================================
