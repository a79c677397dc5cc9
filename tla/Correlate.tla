----------------------------- MODULE Correlate ------------------------------
(***************************************************************************)
(* The three correlators of two files of spectra, CorrelateBinary,         *)
(* CorrelateBinarySimple and CorrelateBinaryFloat (src/src/                *)
(* spectrometer.cpp), with the image of the spectra at full time           *)
(* resolution, which the caller keeps from one call to the next.           *)
(*                                                                         *)
(* A file is its number of values; a value is its place in the file.  The  *)
(* phases a product is turned by (cables, geometry) and its arithmetic are *)
(* left out: a product is the pair of values it is made of.                *)
(***************************************************************************)
EXTENDS Integers, Sequences, FiniteSets

CONSTANTS
  Size,    (* spectrum_size *)
  Pols,    (* n_pols of CorrelateBinarySimple *)
  Calls,   (* bound: the number of calls *)
  Asks,    (* the calls a caller may make *)
  Images   (* the heights of the image a caller may pass; NoImage *)

NoImage == -1
Hows == {"binary", "simple", "float"}

FirstPol(a, c) == c

(* Only CorrelateBinarySimple has polarisations, and one of them is chosen. *)
Width(how) == IF how = "simple" THEN Size * Pols ELSE Size
Place(a, c) == IF a.how = "simple" THEN c * Pols + a.pol ELSE c

ASSUME CorrelateAssumption ==
  /\ Size \in Nat \ {0} /\ Pols \in Nat \ {0} /\ Calls \in Nat
  /\ Images \subseteq Nat \cup {NoImage}
  /\ Asks \subseteq [how : Hows, pol : 0 .. Pols - 1, n : Int,
                     eda : Nat \cup {-1}, big : Nat \cup {-1}]

VARIABLES
  pc,      (* the next step of the call *)
  calls,   (* the calls made *)
  ask,     (* the call: how, pol, n (nIntegrations), the files' lengths, *)
           (* -1 for a file that cannot be opened                        *)
  pos,     (* the place in each file *)
  buf,     (* eda_buffer and bighorns_buffer *)
  index,
  sums,    (* sums[c]: the products added to channel c *)
  ret,     (* the value returned *)
  image    (* pCrossPowerFullTimeRes *)

vars == <<pc, calls, ask, pos, buf, index, sums, ret, image>>

Files == {"eda", "big"}
Junk == -1
Channels == 0 .. Size - 1
Idle == [how |-> "binary", pol |-> 0, n |-> 0, eda |-> -1, big |-> -1]

(* What a row of fresh memory holds. *)
NoRow == [c \in Channels |-> <<0, Junk, Junk>>]
Fresh(y) == [r \in 0 .. y - 1 |-> NoRow]

-----------------------------------------------------------------------------
Init ==
  /\ pc = "idle" /\ calls = 0 /\ ask = Idle
  /\ pos = [f \in Files |-> 0] /\ buf = [f \in Files |-> <<>>]
  /\ index = 0 /\ sums = [c \in Channels |-> <<>>] /\ ret = 0
  /\ \E y \in Images : image = [ysize |-> y, row |-> Fresh(y)]

(* Either file missing ends the call; the sums are not touched. *)
Refuse(a) ==
  /\ pc = "idle" /\ calls < Calls
  /\ a.eda = -1 \/ a.big = -1
  /\ calls' = calls + 1 /\ ask' = a /\ ret' = -1 /\ pc' = "returned"
  /\ UNCHANGED <<pos, buf, index, sums, image>>

Start(a) ==
  /\ pc = "idle" /\ calls < Calls
  /\ a.eda # -1 /\ a.big # -1
  /\ calls' = calls + 1 /\ ask' = a /\ pc' = "loop"
  /\ pos' = [f \in Files |-> 0]
  /\ buf' = [f \in Files |-> [i \in 0 .. Width(a.how) - 1 |-> Junk]]
  /\ index' = 0
  /\ sums' = [c \in Channels |-> <<>>]
  /\ UNCHANGED <<ret, image>>

-----------------------------------------------------------------------------

(* fread: what it returns, and the buffer, whose tail it leaves alone. *)
Got(f) == LET left == ask[f] - pos[f] w == Width(ask.how)
          IN IF left < w THEN left ELSE w

Filled(f) == [i \in DOMAIN buf[f] |-> IF i < Got(f) THEN pos[f] + i ELSE buf[f][i]]

ReadBoth ==
  /\ pos' = [f \in Files |-> pos[f] + Got(f)]
  /\ buf' = [f \in Files |-> Filled(f)]

DoubledEmpty ==
  IF index >= image.ysize /\ image.ysize > 0
  THEN [ysize |-> 2 * image.ysize, row |-> Fresh(2 * image.ysize)]
  ELSE image

(* The image is doubled when the row is not in it; doubling nothing, and an *)
(* image of no height, change nothing.                                      *)
Doubled ==
  IF index >= image.ysize /\ image.ysize > 0
  THEN [ysize |-> 2 * image.ysize,
        row |-> [r \in 0 .. 2 * image.ysize - 1 |->
                   IF r < image.ysize THEN image.row[r] ELSE NoRow]]
  ELSE image

(* setXY keeps silent about a row outside of the image. *)
WithRow(im, r, v) ==
  IF r < im.ysize THEN [im EXCEPT !.row[r] = v] ELSE im

Product(c) == <<calls, Filled("eda")[Place(ask, c)], Filled("big")[Place(ask, c)]>>

LimitBefore == ask.how # "float" /\ ask.n > 0 /\ index + 1 >= ask.n

(* The limit on integrations, which CorrelateBinaryFloat has not. *)
AtLimit == ask.how # "float" /\ ask.n > 0 /\ index >= ask.n

(* One turn of the loop.  What the second file gave is not looked at. *)
Accumulate ==
  /\ pc = "loop" /\ Got("eda") > 0
  /\ ReadBoth
  /\ image' = IF image.ysize = NoImage THEN image
              ELSE WithRow(Doubled, index, [c \in Channels |-> Product(c)])
  /\ sums' = [c \in Channels |-> Append(sums[c], Product(c))]
  /\ IF AtLimit THEN pc' = "mean" /\ index' = index
                ELSE pc' = "loop" /\ index' = index + 1
  /\ UNCHANGED <<calls, ask, ret>>

EndOfFile ==
  /\ pc = "loop" /\ Got("eda") = 0
  /\ pc' = "mean"
  /\ UNCHANGED <<calls, ask, pos, buf, index, sums, ret, image>>

(* The files are closed, the image is cut to index rows, and every sum is  *)
(* divided by index, which is returned.                                    *)
Mean ==
  /\ pc = "mean"
  /\ image' = IF image.ysize = NoImage THEN image ELSE [image EXCEPT !.ysize = index]
  /\ ret' = index /\ pc' = "returned"
  /\ UNCHANGED <<calls, ask, pos, buf, index, sums>>

Again ==
  /\ pc = "returned" /\ calls < Calls
  /\ pc' = "idle"
  /\ UNCHANGED <<calls, ask, pos, buf, index, sums, ret, image>>

Done == pc = "returned" /\ calls = Calls /\ UNCHANGED vars

Next ==
  \/ \E a \in Asks : Refuse(a) \/ Start(a)
  \/ Accumulate \/ EndOfFile \/ Mean \/ Again \/ Done

Spec == Init /\ [][Next]_vars

-----------------------------------------------------------------------------
(* The place of spectrum k in channel c. *)
At(k, c) == LET p == k * Size + c
            IN IF ask.how = "simple" THEN p * Pols + ask.pol ELSE p
Returned == pc = "returned" /\ ret # -1

(* v is the value of channel c that file f has for turn k: that of its      *)
(* spectrum k, or behind its end the last one it has for the channel.       *)
ValueOf(f, k, c, v) ==
  IF At(k, c) < ask[f] THEN v = At(k, c)
  ELSE \/ v = Junk /\ ask[f] <= At(0, c)
       \/ \E j \in 0 .. k - 1 : v = At(j, c) /\ v < ask[f] /\ ask[f] <= At(j + 1, c)

ProductOf(k, c, p) ==
  p[1] = calls /\ ValueOf("eda", k, c, p[2]) /\ ValueOf("big", k, c, p[3])

(* The product added to a channel at turn k is of that channel, of the      *)
(* polarisation asked for and of this call, and of the k-th spectrum of each *)
(* file that has so many: nothing is skipped, added twice or left from an   *)
(* earlier turn, but for a file that has ended, whose last values for the   *)
(* channel go on to be used.                                                *)
Matched ==
  pc \in {"loop", "mean"} \/ Returned =>
    \A c \in Channels : \A k \in 1 .. Len(sums[c]) : ProductOf(k - 1, c, sums[c][k])

(* The limit is below the number of spectra read; a part of one counts. *)
Limited == ask.how # "float" /\ ask.n > 0 /\ ask.n * Width(ask.how) < ask.eda

(* "returns number of averaged spectra": every channel is divided by the    *)
(* number of products added to it, which is the number returned.            *)
Averaged == Returned => \A c \in Channels : Len(sums[c]) = ret

(* The image a call leaves has one row for each spectrum it counted, in    *)
(* order, all of them within what was allocated: no row of an earlier      *)
(* call, or never written, is left in it.                                  *)
FullTimeRes ==
  Returned /\ image.ysize # NoImage =>
    /\ image.ysize = ret
    /\ \A r \in 0 .. ret - 1 :
         /\ r \in DOMAIN image.row
         /\ \A c \in Channels : ProductOf(r, c, image.row[r][c])

(* What a call returns and leaves in the image belong to the same spectra,  *)
(* also when the image is the one an earlier call has left, and none of     *)
(* them is missing in the sums; the divisor is exact unless the limit on    *)
(* the integrations ended the call.                                         *)
Counted ==
  /\ FullTimeRes
  /\ Returned => \A c \in Channels : ret <= Len(sums[c])
  /\ ~Limited => Averaged
=============================================================================
