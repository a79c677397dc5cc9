------------------------------- MODULE Header -------------------------------
(***************************************************************************)
(* The header of a CBgFits (src/src/bg_fits.cpp): the cards of the file    *)
(* and what the object makes of them, its start time, time resolution,     *)
(* frequency scale and ranges of integrations.  Programs read one file     *)
(* after another into the same object, prepare a header, and save it for   *)
(* another program to read.                                                *)
(*                                                                         *)
(* A card is [key, val].  The cards of the ranges, ANT01 = '1 - 4' and so  *)
(* on, have the state for key and the two numbers for value.               *)
(***************************************************************************)
EXTENDS Integrations

CONSTANTS Files,       (* [cards, x, y]: headers and sizes; ranges do not overlap *)
          Told,        (* [time, inttime, start, delta]: what headers are prepared for *)
          MaxSteps     (* bounds the run *)

VARIABLES obj,         (* the object *)
          file,        (* the file read last *)
          started,     (* whether dtime_fs was set to -1000 before that *)
          saved,       (* the header written last, or NoFile *)
          expected,    (* what it should tell a reader *)
          steps

headerVars == <<obj, file, started, saved, expected, steps>>

NoFile == [cards |-> <<>>, x |-> 0, y |-> 0]
NoDate == -1
Nothing == [told |-> FALSE]

Card(k, v) == [key |-> k, val |-> v]

(* The constructor. *)
NewObject(sx, sy) ==
  [cards |-> <<>>, x |-> sx, y |-> sy, dtime |-> 0, inttime |-> 0, start |-> 0, stop |-> 480,
   delta |-> 0, ranges |-> <<>>]

SetKeyword(cards, k, v) ==
  LET i == SelectInSeq(cards, LAMBDA c : c.key = k)
  IN  IF i = 0 THEN Append(cards, Card(k, v)) ELSE [cards EXCEPT ![i].val = v]

(* Several, one after the other. *)
SetKeywords(cards, new) == FoldLeft(LAMBDA cs, c : SetKeyword(cs, c.key, c.val), cards, new)

GetKeyword(cards, k, default) ==
  LET i == SelectInSeq(cards, LAMBDA c : c.key = k) IN IF i = 0 THEN default ELSE cards[i].val

-----------------------------------------------------------------------------
(* The keywords of the axes: a dynamic spectrum has time up and frequency   *)
(* to the right, a transposed one the other way round.                      *)
FreqKeyword(transposed) == IF transposed THEN "CRVAL2" ELSE "CRVAL1"
FreqDelta(transposed) == IF transposed THEN "CDELT2" ELSE "CDELT1"
TimeDelta(transposed) == IF transposed THEN "CDELT1" ELSE "CDELT2"

IsTransposed(c) == (c.key = "CTYPE2" /\ c.val = "Frequency") \/ (c.key = "CTYPE1" /\ c.val = "Time")

DateOf(date, c) ==
  IF c.key = "DATE-OBS" \/ (c.key = "DATE" /\ date = NoDate) THEN c.val ELSE date

(* ReadFits at one card: o is the object and what else the loop keeps. *)
ReadCard(o, c) ==
  LET t == o.transposed \/ IsTransposed(c)
      Is(k) == c.key = k
  IN  [o EXCEPT !.transposed = t,
                !.inttime = IF Is("INTTIME") THEN c.val ELSE @,
                !.dtime = IF Is("DTIME-FS") THEN c.val ELSE @,
                !.date = DateOf(@, c),
                !.start = IF Is("STARTFRQ") \/ Is(FreqKeyword(t)) THEN c.val ELSE @,
                !.stop = IF Is("STOPFRQ") THEN c.val ELSE @,
                !.stopFound = @ \/ Is("STOPFRQ"),
                !.delta = IF Is(FreqDelta(t)) THEN c.val ELSE @,
                !.deltaFound = @ \/ Is(FreqDelta(t)),
                !.timeDelta = IF Is(TimeDelta(t)) THEN c.val ELSE @]

StateCards(cards) ==
  [states |-> GetKeyword(cards, "STATES", NoStates),
   keys |-> LET ks == SelectSeq(cards, LAMBDA c : c.key \in StateNames)
            IN  [i \in DOMAIN ks |-> [state |-> ks[i].key, from |-> ks[i].val[1], to |-> ks[i].val[2]]]]

(* The header half of ReadFits.  The fields of the object are what they     *)
(* were before, until a card says otherwise.                                *)
ReadFits(o, f) ==
  LET loop == [transposed |-> FALSE, date |-> NoDate, timeDelta |-> 0,
               stopFound |-> FALSE, deltaFound |-> FALSE]
      r == FoldLeft(ReadCard, loop @@ o, f.cards)
  IN  [cards |-> f.cards, x |-> f.x, y |-> f.y,
       dtime |-> IF r.dtime <= 0 /\ r.date # NoDate THEN r.date ELSE r.dtime,
       inttime |-> IF r.inttime <= 0 /\ r.timeDelta # 0 THEN r.timeDelta ELSE r.inttime,
       start |-> r.start,
       stop |-> IF ~r.stopFound /\ r.deltaFound THEN r.start + r.delta * (f.x - 1) ELSE r.stop,
       delta |-> r.delta,
       ranges |-> ReadRanges(o.ranges, StateCards(f.cards), f.y)]

(* Mutant: the frequencies change to the other axis, the widths of a pixel  *)
(* do not.                                                                  *)
AxisCardsPasted(start, delta, inttime, transposed) ==
  IF transposed
  THEN <<Card("CTYPE2", "Frequency"), Card("CRVAL2", start), Card("CDELT2", inttime),
         Card("CTYPE1", "Time"), Card("CDELT1", delta)>>
  ELSE <<Card("CTYPE1", "Frequency"), Card("CRVAL1", start), Card("CDELT1", delta),
         Card("CTYPE2", "Time"), Card("CDELT2", inttime)>>

AxisCards(start, delta, inttime, transposed) ==
  IF transposed
  THEN <<Card("CTYPE2", "Frequency"), Card("CRVAL2", start), Card("CDELT2", delta),
         Card("CTYPE1", "Time"), Card("CDELT1", inttime)>>
  ELSE <<Card("CTYPE1", "Frequency"), Card("CRVAL1", start), Card("CDELT1", delta),
         Card("CTYPE2", "Time"), Card("CDELT2", inttime)>>

(* PrepareBigHornsHeader and PrepareBigHornsHeaderTransposed. *)
Prepared(cards, w, transposed) ==
  SetKeywords(cards, <<Card("DTIME-FS", w.time), Card("INTTIME", w.inttime)>>
                     \o AxisCards(w.start, w.delta, w.inttime, transposed))

(* What Transpose puts into the header of the image it draws. *)
TransposedCards(cards, o) == SetKeywords(cards, AxisCards(o.start, o.delta, o.inttime, TRUE))

(* SetKeysWithoutStates, into an object without cards. *)
WithoutStates(cards) ==
  LET states == GetKeyword(cards, "STATES", <<>>)
  IN  SelectSeq(cards, LAMBDA c : c.key # "STATES" /\ ~Contains(states, c.key))

(* WriteFits: the field goes into the header before the cards are written. *)
Written(o) ==
  [cards |-> IF o.inttime > 0 THEN SetKeyword(o.cards, "INTTIME", o.inttime) ELSE o.cards,
   x |-> o.x, y |-> o.y]

-----------------------------------------------------------------------------
HeaderInit ==
  /\ obj = NewObject(2, 4) /\ file = NoFile /\ started = FALSE
  /\ saved = NoFile /\ expected = Nothing /\ steps = 0

(* A program reads a file, dump_lc with the start time reset. *)
Read == \E f \in Files, reset \in BOOLEAN :
  /\ obj' = ReadFits(IF reset THEN [obj EXCEPT !.dtime = -1000] ELSE obj, f)
  /\ file' = f /\ started' = reset
  /\ UNCHANGED <<saved, expected>>

(* The spectrometer prepares a header in an object it made. *)
Prepare == \E w \in Told, transposed \in BOOLEAN :
  /\ file = NoFile
  /\ obj' = [obj EXCEPT !.cards = Prepared(@, w, transposed), !.inttime = w.inttime]
  /\ expected' = [told |-> TRUE, dtime |-> w.time, inttime |-> w.inttime, start |-> w.start,
                  delta |-> w.delta, ranges |-> <<>>]
  /\ saved' = Written(obj')
  /\ UNCHANGED <<file, started>>

(* calcfits_bg draws the transposed image in an object without cards; no    *)
(* start time goes with it.                                                 *)
SaveTransposed ==
  /\ file # NoFile
  /\ saved' = Written([NewObject(obj.y, obj.x) EXCEPT !.cards = TransposedCards(<<>>, obj)])
  /\ expected' = [told |-> TRUE, dtime |-> 0, inttime |-> obj.inttime, start |-> obj.start,
                  delta |-> obj.delta, ranges |-> <<>>]
  /\ UNCHANGED <<obj, file, started>>

(* avg_images takes the header of the first image without its states. *)
SaveWithoutStates ==
  /\ file # NoFile
  /\ saved' = Written([NewObject(obj.x, obj.y) EXCEPT !.cards = WithoutStates(obj.cards)])
  /\ expected' = LET f == ReadFits(NewObject(obj.x, obj.y), file)
                 IN  [told |-> GetKeyword(obj.cards, "STATES", NoStates) # NoStates,
                      dtime |-> f.dtime, inttime |-> f.inttime, start |-> f.start,
                      delta |-> f.delta, ranges |-> <<>>]
  /\ UNCHANGED <<obj, file, started>>

HeaderNext ==
  /\ steps < MaxSteps /\ steps' = steps + 1
  /\ Read \/ Prepare \/ SaveTransposed \/ SaveWithoutStates

-----------------------------------------------------------------------------
States == GetKeyword(file.cards, "STATES", NoStates)

StatesKeys == SelectSeq(StateCards(file.cards).keys, LAMBDA k : Contains(States, k.state))

LinesOf(states) ==
  UNION {k.from - 1 .. k.to - 1 : k \in {c \in Range(StatesKeys) : c.state \in states}}

RangesOfFile ==
  States # NoStates /\ StatesKeys # <<>>
  => \A y \in 0 .. obj.y - 1 :
       /\ IsAntenna(obj.ranges, y) <=> y \in LinesOf({"ANT"})
       /\ IsReference(obj.ranges, y) <=> y \in LinesOf({"REF", "TERM", "NSOFF"})
       /\ GetIntType(obj.ranges, y) = "ant" <=> IsAntenna(obj.ranges, y)

TimeOfFile ==
  LET Time(k) == GetKeyword(file.cards, k, 0)
      known == SelectSeq(<<Time("DTIME-FS"), Time("DATE-OBS"), Time("DATE")>>, LAMBDA t : t > 0)
  IN  file # NoFile /\ started /\ known # <<>> => obj.dtime = known[1]

(* Whatever files the object read before, it tells of the one it has now:   *)
(* with a list of states, line y is the antenna's just when a card of the   *)
(* antenna covers integration y + 1, and a reference when one of REF, TERM  *)
(* or NSOFF does; with the start time reset before, the time is that of     *)
(* DTIME-FS, or of DATE-OBS, or of DATE, wherever the cards are.            *)
OfItsFile == RangesOfFile /\ TimeOfFile

(* The median of each channel is taken over lines of the image, each once:  *)
(* its table has no more places than the image has lines.                   *)
MedianFits ==
  LET lines == MedianLines(GetAntRanges(obj.ranges, obj.y))
  IN  States # NoStates =>
         /\ Range(lines) \subseteq 0 .. obj.y - 1
         /\ Len(lines) = Cardinality(Range(lines))

(* The lines a median is taken over are lines of the file the object has,   *)
(* of the state asked for, and each of them is there once.                  *)
LinesOfItsFile == OfItsFile /\ MedianFits

(* A program that reads what another one saved finds the start time, the    *)
(* time resolution and the frequencies it was saved for, whichever way      *)
(* round, and no states where they were left out.                           *)
ReadsBack ==
  expected.told =>
    LET r == ReadFits(NewObject(saved.x, saved.y), saved)
    IN  /\ r.dtime = expected.dtime /\ r.inttime = expected.inttime
        /\ r.start = expected.start /\ r.delta = expected.delta
        /\ r.ranges = expected.ranges
=============================================================================
