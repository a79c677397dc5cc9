---------------------------- MODULE Integrations ----------------------------
(***************************************************************************)
(* What each line of a dynamic spectrum is (src/src/bg_fits.cpp): the      *)
(* header of a file names ranges of integrations, with the antenna on, the *)
(* reference on, and so on, and the statistics of CBgFits select lines by  *)
(* them.  Header cards number integrations from one, the lines of an image *)
(* are numbered from zero.                                                 *)
(*                                                                         *)
(* A header is [states, keys]: states is the sequence of names in the card *)
(* STATES, empty when the card is, and NoStates when it is missing; a key  *)
(* is a card [state, from, to], as ANT01 = '1 - 4'.                        *)
(***************************************************************************)
EXTENDS Integers, Sequences, SequencesExt, FiniteSetsExt

StateNames == {"ANT", "REF", "TERM", "NSOFF", "NSON", "OTHER"}
NoStates == <<"no STATES card">>

IntRange(a, b, t, n) == [from |-> a, to |-> b, type |-> t, name |-> n]

ParseIntType(n) ==
  CASE n = "ANT" -> "ant" [] n \in {"REF", "TERM", "NSOFF"} -> "ref" [] n = "NSON" -> "nson"
    [] OTHER -> "undefined"

IsInRange(r, y) == r.from <= y /\ y <= r.to

(* Mutant: the numbers of the header are taken for lines of the image. *)
StateRangeFromOne(k) == IntRange(k.from, k.to, ParseIntType(k.state), k.state)

(* One card of a state in STATES. *)
StateRange(k) == IntRange(k.from - 1, k.to - 1, ParseIntType(k.state), k.state)

(* Mutant: the ranges of the file before are kept. *)
ParseStatesAppends(ranges, head) ==
  ranges \o LET known == SelectSeq(head.keys, LAMBDA k : Contains(head.states, k.state))
            IN  [i \in DOMAIN known |-> StateRange(known[i])]

(* The ranges of the cards of those states, in the order of the header.     *)
(* With an empty list the ranges are not even cleared.                      *)
ParseStates(ranges, head) ==
  IF head.states = <<>> THEN ranges
  ELSE LET known == SelectSeq(head.keys, LAMBDA k : Contains(head.states, k.state))
       IN  [i \in DOMAIN known |-> StateRange(known[i])]

(* Without STATES the antenna's cards are appended to what is there, with a *)
(* reference range before each; a decrement and an increment leave all of   *)
(* them counted from one.  These ranges have no name.                       *)
SkyRange(ranges, k) ==
  LET gap == IntRange(IF ranges = <<>> THEN 1 ELSE Last(ranges).to + 3, k.from - 2, "ref", "")
      ant == IntRange(k.from, k.to, "ant", "")
  IN  IF k.from - 1 > 1 THEN ranges \o <<gap, ant>> ELSE Append(ranges, ant)

SkyRanges(ranges, keys) ==
  FoldLeft(SkyRange, ranges, SelectSeq(keys, LAMBDA k : k.state = "ANT"))

ParseSkyIntegrations(ranges, head, ySize) ==
  LET sky == SkyRanges(ranges, head.keys)
  IN  IF sky # <<>> /\ Last(sky).to < ySize - 1
      THEN Append(sky, IntRange(Last(sky).to + 3, ySize, "ref", "")) ELSE sky

(* ReadFits, behind the cards. *)
ReadRanges(ranges, head, ySize) ==
  IF head.states # NoStates THEN ParseStates(ranges, head)
  ELSE ParseSkyIntegrations(ranges, head, ySize)

-----------------------------------------------------------------------------
NoRange == IntRange(0, -1, "undefined", "")

(* The first range that has the line in it. *)
GetRange(ranges, y) ==
  LET i == SelectInSeq(ranges, LAMBDA r : IsInRange(r, y))
  IN  IF i = 0 THEN NoRange ELSE ranges[i]

GetIntType(ranges, y) == IF ranges = <<>> THEN "ant" ELSE GetRange(ranges, y).type

HasType(ranges, y, type) == \E i \in DOMAIN ranges : ranges[i].type = type /\ IsInRange(ranges[i], y)

IsAntenna(ranges, y) == ranges = <<>> \/ HasType(ranges, y, "ant")

IsReference(ranges, y) == HasType(ranges, y, "ref")

GetAntRanges(ranges, ySize) ==
  IF ranges = <<>> THEN <<IntRange(0, ySize - 1, "ant", "")>>
  ELSE SelectSeq(ranges, LAMBDA r : r.type = "ant")

-----------------------------------------------------------------------------
(* What GetMedianInt puts into median_tab for each channel: the lines of    *)
(* all ranges, one after the other.  The table has a place for every line   *)
(* of the image.                                                            *)
MedianLines(int_ranges) ==
  FlattenSeq([i \in DOMAIN int_ranges |->
                LET r == int_ranges[i]
                IN  [j \in 1 .. r.to - r.from + 1 |-> r.from + j - 1]])
=============================================================================
