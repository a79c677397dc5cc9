------------------------- MODULE SpectrometerProofs -------------------------
(***************************************************************************)
(* Theorems about CSpectrometer, for every size of spectrum, buffer and    *)
(* file, every number of polarisations and every call.                     *)
(*                                                                         *)
(* Of the three correlators (Correlate): a product is of the spectrum of   *)
(* its turn, or of the last one a file has, the divisor is the number of   *)
(* products unless the limit ended the call, and the image has the spectra *)
(* that were counted.  Each turn of the loop moves both files  *)
(* by one spectrum, or to the end; the invariant says where that brings    *)
(* them after so many turns.                                               *)
(*                                                                         *)
(* Of what is made of a voltage file (VoltageCut): the spectra of filePFB  *)
(* go through the file one by one, and the pieces that are cut are the     *)
(* ones asked for.  Each loop keeps its own count of the buffers it has    *)
(* read; the invariant says where in the file that count has brought it.   *)
(***************************************************************************)
EXTENDS Correlate, VoltageCut, SequenceTheorems, TLAPS

-----------------------------------------------------------------------------
(* The correlators. *)

Products == Nat \X Int \X Int
Rows == [Channels -> Products]

(* A call that found both files runs, or was the last one to return. *)
Runs == pc \in {"loop", "mean"} \/ Returned
Turn == Width(ask.how)

TypeOK ==
  /\ pc \in {"idle", "loop", "mean", "returned"}
  /\ calls \in Nat /\ index \in Nat /\ ret \in Nat \cup {-1}
  /\ pos \in [Files -> Nat]
  /\ sums \in [Channels -> Seq(Products)]
  /\ Runs => ask \in Asks /\ ask.eda \in Nat /\ ask.big \in Nat
  /\ pc = "loop" => buf \in [Files -> [0 .. Turn - 1 -> Int]]

(* What is allocated is never less than the height the image says it has. *)
ImageOK ==
  \E y \in Nat : /\ image \in [ysize : Nat \cup {NoImage}, row : [0 .. y - 1 -> Rows]]
                 /\ image.ysize <= y

(* After so many turns a file stands behind as many spectra, or at its end. *)
Behind(f, k) ==
  /\ pos[f] <= ask[f] /\ pos[f] <= k * Turn
  /\ pos[f] = k * Turn \/ pos[f] = ask[f]

Turns ==
  pc = "loop" =>
    /\ \A c \in Channels : Len(sums[c]) = index
    /\ \A f \in Files : Behind(f, index)
    /\ ask.how # "float" /\ ask.n > 0 => index <= ask.n

(* The buffers hold what the turn before left in them. *)
Buffered ==
  pc = "loop" =>
    \A f \in Files : \A c \in Channels :
      IF index = 0 THEN buf[f][Place(ask, c)] = Junk
      ELSE ValueOf(f, index - 1, c, buf[f][Place(ask, c)])

(* The loop was left at the end of the first file or at the limit. *)
Left ==
  pc = "mean" => \A c \in Channels : Len(sums[c]) = IF Limited THEN index + 1 ELSE index

(* No image without a row is passed, and no first file is empty: a call    *)
(* leaves an image with as many rows as it has counted spectra, and the    *)
(* next call cannot double one without a row.                              *)
NeverEmpty == 0 \notin Images /\ \A a \in Asks : a.eda # 0

RowsWritten ==
  /\ image.ysize # 0
  /\ pc = "mean" => index # 0
  /\ pc \in {"loop", "mean"} /\ image.ysize # NoImage =>
       /\ index <= image.ysize
       /\ \A r \in 0 .. index - 1 : \A c \in Channels : ProductOf(r, c, image.row[r][c])

(* One product more was added than counted if the limit ended the call. *)
Divided ==
  Returned => \A c \in Channels : Len(sums[c]) = IF Limited THEN ret + 1 ELSE ret

IInv ==
  /\ TypeOK /\ Turns /\ Buffered /\ Left /\ Matched /\ Divided
  /\ NeverEmpty => ImageOK /\ RowsWritten /\ FullTimeRes

-----------------------------------------------------------------------------
LEMMA Products2 ==
  ASSUME NEW a \in Nat, NEW b \in Nat
  PROVE  a * b \in Nat
OBVIOUS

LEMMA Grows ==
  ASSUME NEW a \in Nat, NEW b \in Nat, NEW w \in Nat, a <= b
  PROVE  a * w <= b * w
OBVIOUS

(* The place of a channel is in the buffer. *)
LEMMA InBuffer ==
  ASSUME NEW a \in Asks
  PROVE  /\ Width(a.how) \in Nat /\ Width(a.how) >= 1
         /\ \A c \in Channels : Place(a, c) \in 0 .. Width(a.how) - 1
<1>1. /\ Size \in Nat /\ Size >= 1 /\ Pols \in Nat /\ Pols >= 1
      /\ a.pol \in 0 .. Pols - 1
  BY CorrelateAssumption
<1>2. CASE a.how # "simple"
  BY <1>1, <1>2 DEF Width, Place, Channels
<1>3. CASE a.how = "simple"
  <2>1. Size * Pols \in Nat /\ Size * Pols >= 1
    <3>1. 1 * Pols <= Size * Pols
      BY <1>1, Grows
    <3> QED BY <1>1, <3>1
  <2>2. ASSUME NEW c \in Channels
        PROVE  c * Pols + a.pol \in 0 .. (Size * Pols) - 1
    <3>1. c \in Nat /\ c + 1 \in Nat /\ c + 1 <= Size
      BY <1>1 DEF Channels
    <3>2. (c + 1) * Pols <= Size * Pols
      BY <1>1, <3>1, Grows
    <3>3. (c + 1) * Pols = c * Pols + Pols /\ c * Pols \in Nat
      BY <1>1, <3>1
    <3> HIDE DEF Channels
    <3> QED BY <1>1, <2>1, <3>2, <3>3
  <2> QED BY <1>3, <2>1, <2>2 DEF Width, Place
<1> QED BY <1>2, <1>3

(* Where a spectrum is, counted in buffers. *)
LEMMA PlaceInFile ==
  ASSUME ask \in Asks, NEW k \in Nat, NEW c \in Channels
  PROVE  At(k, c) = k * Turn + Place(ask, c)
<1>1. Size \in Nat /\ Pols \in Nat /\ ask.pol \in Nat /\ c \in Nat
  BY CorrelateAssumption DEF Channels
<1>2. CASE ask.how # "simple"
  BY <1>1, <1>2 DEF At, Turn, Width, Place
<1>3. CASE ask.how = "simple"
  <2>1. (k * Size + c) * Pols = k * (Size * Pols) + c * Pols
    BY <1>1
  <2> QED BY <1>1, <1>3, <2>1 DEF At, Turn, Width, Place
<1> QED BY <1>2, <1>3

(* The next turn moves a file by a spectrum, or to its end. *)
LEMMA Moves ==
  ASSUME IInv, pc = "loop", NEW f \in Files
  PROVE  /\ Got(f) \in Nat /\ Got(f) <= Turn
         /\ pos[f] + Got(f) \in Nat
         /\ pos[f] + Got(f) <= ask[f] /\ pos[f] + Got(f) <= (index + 1) * Turn
         /\ pos[f] + Got(f) = (index + 1) * Turn \/ pos[f] + Got(f) = ask[f]
<1>1. ask \in Asks /\ ask[f] \in Nat /\ pos[f] \in Nat /\ index \in Nat
  BY DEF IInv, TypeOK, Runs, Files
<1>2. Turn \in Nat /\ Turn >= 1
  BY <1>1, InBuffer DEF Turn
<1> DEFINE p == index * Turn
<1>3. (index + 1) * Turn = p + Turn /\ p \in Nat
  BY <1>1, <1>2
<1>4. pos[f] <= ask[f] /\ pos[f] <= p /\ (pos[f] = p \/ pos[f] = ask[f])
  BY DEF IInv, Turns, Behind
<1>5. Got(f) = IF ask[f] - pos[f] < Turn THEN ask[f] - pos[f] ELSE Turn
  BY DEF Got, Turn
<1> HIDE DEF p
<1> QED BY <1>1, <1>2, <1>3, <1>4, <1>5

(* The buffers hold the spectrum whose turn it is, where the file has it. *)
LEMMA Holds ==
  ASSUME IInv, pc = "loop", NEW f \in Files
  PROVE  /\ Filled(f) \in [0 .. Turn - 1 -> Int]
         /\ \A c \in Channels :
              At(index, c) < ask[f] => Filled(f)[Place(ask, c)] = At(index, c)
<1>1. ask \in Asks /\ ask[f] \in Nat /\ pos[f] \in Nat /\ index \in Nat
  BY DEF IInv, TypeOK, Runs, Files
<1>2. Turn \in Nat /\ \A c \in Channels : Place(ask, c) \in 0 .. Turn - 1
  BY <1>1, InBuffer DEF Turn
<1>3. buf[f] \in [0 .. Turn - 1 -> Int]
  BY DEF IInv, TypeOK
<1>4. Filled(f) \in [0 .. Turn - 1 -> Int]
  BY <1>1, <1>2, <1>3 DEF Filled
<1>5. ASSUME NEW c \in Channels, At(index, c) < ask[f]
      PROVE  Filled(f)[Place(ask, c)] = At(index, c)
  <2> DEFINE p == index * Turn
             i == Place(ask, c)
  <2>1. At(index, c) = p + i /\ p \in Nat /\ i \in 0 .. Turn - 1
    BY <1>1, <1>2, PlaceInFile
  <2>2. pos[f] <= p /\ (pos[f] = p \/ pos[f] = ask[f])
    BY DEF IInv, Turns, Behind
  <2>3. Got(f) = IF ask[f] - pos[f] < Turn THEN ask[f] - pos[f] ELSE Turn
    BY DEF Got, Turn
  <2> HIDE DEF p, i
  <2>4. pos[f] = p /\ i < Got(f)
    BY <1>1, <1>2, <1>5, <2>1, <2>2, <2>3
  <2>5. Filled(f)[i] = pos[f] + i
    BY <1>3, <2>1, <2>4 DEF Filled
  <2> QED BY <2>1, <2>4, <2>5 DEF i
<1> QED BY <1>4, <1>5

(* Behind its end a file leaves in the buffer what was there. *)
LEMMA GoesOn ==
  ASSUME IInv, pc = "loop", NEW f \in Files, NEW c \in Channels
  PROVE  ValueOf(f, index, c, Filled(f)[Place(ask, c)])
<1> DEFINE i == Place(ask, c)
           v == buf[f][i]
<1>1. ask \in Asks /\ ask[f] \in Nat /\ pos[f] \in Nat /\ index \in Nat
  BY DEF IInv, TypeOK, Runs, Files
<1>2. Turn \in Nat /\ i \in 0 .. Turn - 1
  BY <1>1, InBuffer DEF Turn
<1>3. CASE At(index, c) < ask[f]
  BY <1>3, Holds DEF ValueOf
<1>4. CASE ~(At(index, c) < ask[f])
  <2> DEFINE p == index * Turn
  <2>1. At(index, c) = p + i /\ p \in Nat
    BY <1>1, <1>2, PlaceInFile
  <2>2. pos[f] <= p /\ (pos[f] = p \/ pos[f] = ask[f])
    BY DEF IInv, Turns, Behind
  <2>3. Got(f) = IF ask[f] - pos[f] < Turn THEN ask[f] - pos[f] ELSE Turn
    BY DEF Got, Turn
  <2>4. ~(i < Got(f))
    <3> HIDE DEF p, i
    <3> QED BY <1>1, <1>2, <1>4, <2>1, <2>2, <2>3
  <2>5. buf[f] \in [0 .. Turn - 1 -> Int]
    BY DEF IInv, TypeOK
  <2>6. Filled(f)[i] = v
    <3> HIDE DEF i
    <3> QED BY <1>2, <2>4, <2>5 DEF Filled
  <2>7. ask[f] <= At(index, c)
    BY <1>1, <1>2, <1>4, <2>1
  <2>8. CASE index = 0
    <3>1. v = Junk
      BY <2>8 DEF IInv, Buffered
    <3> QED BY <2>6, <2>7, <2>8, <3>1, <1>4 DEF ValueOf
  <2>9. CASE index # 0
    <3>1. ValueOf(f, index - 1, c, v)
      BY <2>9 DEF IInv, Buffered
    <3>2. index - 1 \in 0 .. index - 1 /\ (index - 1) + 1 = index
      BY <1>1, <2>9
    <3> HIDE DEF v
    <3>3. CASE At(index - 1, c) < ask[f]
      <4>1. v = At(index - 1, c)
        BY <3>1, <3>3 DEF ValueOf
      <4> QED BY <1>4, <2>6, <2>7, <3>2, <3>3, <4>1 DEF ValueOf
    <3>4. CASE ~(At(index - 1, c) < ask[f])
      <4>1. \/ v = Junk /\ ask[f] <= At(0, c)
            \/ \E j \in 0 .. index - 1 - 1 :
                 v = At(j, c) /\ v < ask[f] /\ ask[f] <= At(j + 1, c)
        BY <3>1, <3>4 DEF ValueOf
      <4>2. \A j \in 0 .. index - 1 - 1 : j \in 0 .. index - 1
        BY <1>1
      <4> QED BY <1>4, <2>6, <4>1, <4>2 DEF ValueOf
    <3> QED BY <3>3, <3>4
  <2> QED BY <2>8, <2>9
<1> QED BY <1>3, <1>4

(* The product of a turn is that of its spectrum. *)
LEMMA OfItsTurn ==
  ASSUME IInv, pc = "loop", NEW c \in Channels
  PROVE  Product(c) \in Products /\ ProductOf(index, c, Product(c))
<1>1. calls \in Nat /\ ask \in Asks
  BY DEF IInv, TypeOK, Runs
<1>2. Place(ask, c) \in 0 .. Turn - 1
  BY <1>1, InBuffer DEF Turn
<1>3. "eda" \in Files /\ "big" \in Files
  BY DEF Files
<1>4. Filled("eda")[Place(ask, c)] \in Int /\ Filled("big")[Place(ask, c)] \in Int
  BY <1>2, <1>3, Holds
<1>5. /\ ValueOf("eda", index, c, Filled("eda")[Place(ask, c)])
      /\ ValueOf("big", index, c, Filled("big")[Place(ask, c)])
  BY <1>3, GoesOn
<1> QED BY <1>1, <1>4, <1>5 DEF Product, Products, ProductOf

(* Products are of a call: they stay those of their turns while it runs. *)
LEMMA SameProducts ==
  ASSUME UNCHANGED <<calls, ask>>
  PROVE  /\ \A k, c, p : ProductOf(k, c, p)' <=> ProductOf(k, c, p)
         /\ \A f, k, c, v : ValueOf(f, k, c, v)' <=> ValueOf(f, k, c, v)
<1>1. \A k, c : At(k, c)' = At(k, c)
  BY DEF At
<1>2. \A f, k, c, v : ValueOf(f, k, c, v)' <=> ValueOf(f, k, c, v)
  BY <1>1 DEF ValueOf
<1> QED BY <1>2 DEF ProductOf

-----------------------------------------------------------------------------
(* The image when a row is set: doubled first when the row is below it. *)
HasRows(im, y) ==
  im \in [ysize : Nat \cup {NoImage}, row : [0 .. y - 1 -> Rows]] /\ im.ysize <= y

LEMMA DoublingKeeps ==
  ASSUME ImageOK, index \in Nat
  PROVE  /\ \E y \in Nat : HasRows(Doubled, y)
         /\ Doubled.ysize = IF index >= image.ysize /\ image.ysize > 0
                            THEN 2 * image.ysize ELSE image.ysize
         /\ \A r \in 0 .. image.ysize - 1 : Doubled.row[r] = image.row[r]
<1>1. PICK y \in Nat : HasRows(image, y)
  BY DEF ImageOK, HasRows
<1>2. image.ysize \in Nat \cup {NoImage} /\ image.row \in [0 .. y - 1 -> Rows]
  BY <1>1 DEF HasRows
<1>3. CASE ~(index >= image.ysize /\ image.ysize > 0)
  BY <1>1, <1>3 DEF Doubled
<1>4. CASE index >= image.ysize /\ image.ysize > 0
  <2> DEFINE h == image.ysize
             row == [r \in 0 .. 2 * h - 1 |-> IF r < h THEN image.row[r] ELSE NoRow]
  <2>1. Doubled = [ysize |-> 2 * h, row |-> row]
    BY <1>4 DEF Doubled
  <2>2. h \in Nat /\ h > 0 /\ h <= y
    BY <1>1, <1>4 DEF HasRows, NoImage
  <2>3. NoRow \in Rows
    BY DEF NoRow, Rows, Products, Junk
  <2>4. \A r \in 0 .. 2 * h - 1 : r < h => image.row[r] \in Rows
    BY <1>2, <2>2
  <2>5. row \in [0 .. 2 * h - 1 -> Rows]
    BY <2>3, <2>4
  <2>6. \A r \in 0 .. h - 1 : row[r] = image.row[r]
    BY <2>2
  <2>7. 2 * h \in Nat
    BY <2>2
  <2>8. Doubled.ysize = 2 * h /\ Doubled.row = row
    BY <2>1
  <2>9. HasRows(Doubled, 2 * h)
    BY <2>1, <2>5, <2>7 DEF HasRows
  <2> HIDE DEF row
  <2> QED BY <1>4, <2>6, <2>7, <2>8, <2>9
<1> QED BY <1>3, <1>4

LEMMA RowSet ==
  ASSUME ImageOK, index \in Nat, NEW v \in Rows, image.ysize # NoImage
  PROVE  LET im == WithRow(Doubled, index, v)
         IN /\ \E y \in Nat : HasRows(im, y)
            /\ im.ysize = Doubled.ysize
            /\ \A r \in 0 .. image.ysize - 1 : r # index => im.row[r] = image.row[r]
            /\ index < Doubled.ysize => im.row[index] = v
<1> DEFINE d == Doubled
           im == WithRow(d, index, v)
<1>1. PICK y \in Nat : HasRows(d, y)
  BY DoublingKeeps
<1>2. /\ d \in [ysize : Nat \cup {NoImage}, row : [0 .. y - 1 -> Rows]] /\ d.ysize <= y
      /\ \A r \in 0 .. image.ysize - 1 : d.row[r] = image.row[r]
  BY <1>1, DoublingKeeps DEF HasRows
<1>3. d.ysize \in Nat
  <2>1. image.ysize \in Nat
    BY DEF ImageOK, NoImage
  <2> QED BY <2>1, DoublingKeeps
<1> HIDE DEF d
<1>4. CASE ~(index < d.ysize)
  <2>1. im = d
    BY <1>4 DEF WithRow
  <2> QED BY <1>1, <1>2, <1>4, <2>1 DEF d
<1>5. CASE index < d.ysize
  <2>1. im = [d EXCEPT !.row[index] = v]
    BY <1>5 DEF WithRow
  <2>2. index \in 0 .. y - 1
    BY <1>2, <1>3, <1>5
  <2>3. im.ysize = d.ysize /\ im.row = [d.row EXCEPT ![index] = v]
    BY <1>2, <2>1
  <2>4. im \in [ysize : Nat \cup {NoImage}, row : [0 .. y - 1 -> Rows]]
    BY <1>2, <2>1, <2>2
  <2>5. HasRows(im, y)
    BY <1>2, <2>3, <2>4 DEF HasRows
  <2>6. im.row[index] = v /\ \A r : r \in 0 .. y - 1 /\ r # index => im.row[r] = d.row[r]
    BY <1>2, <2>2, <2>3
  <2>7. \A r \in 0 .. image.ysize - 1 : r \in 0 .. y - 1
    <3>1. image.ysize <= d.ysize
      <4>1. image.ysize \in Nat
        BY DEF ImageOK, NoImage
      <4> QED BY <4>1, DoublingKeeps DEF d
    <3> QED BY <1>2, <1>3, <3>1 DEF ImageOK, NoImage
  <2>8. \A r \in 0 .. image.ysize - 1 : r # index => im.row[r] = image.row[r]
    BY <1>2, <2>6, <2>7
  <2> HIDE DEF im
  <2>9. \E z \in Nat : HasRows(im, z)
    BY <2>5
  <2> QED BY <2>3, <2>6, <2>8, <2>9 DEF im, d
<1> QED BY <1>4, <1>5

-----------------------------------------------------------------------------
LEMMA InitI ==
  ASSUME Init
  PROVE  IInv
<1>1. PICK y \in Images : image = [ysize |-> y, row |-> Fresh(y)]
  BY DEF Init
<1>2. y \in Nat \cup {NoImage}
  BY CorrelateAssumption
<1>3. ImageOK
  <2> DEFINE z == IF y = NoImage THEN 0 ELSE y
  <2>1. z \in Nat /\ y <= z /\ 0 .. y - 1 = 0 .. z - 1
    BY <1>2 DEF NoImage
  <2>2. NoRow \in Rows
    BY DEF NoRow, Rows, Products, Junk
  <2>3. Fresh(y) \in [0 .. z - 1 -> Rows]
    BY <2>1, <2>2 DEF Fresh
  <2> HIDE DEF z
  <2> QED BY <1>1, <1>2, <2>1, <2>3 DEF ImageOK
<1>4. <<>> \in Seq(Products)
  OBVIOUS
<1>5. TypeOK
  BY <1>4 DEF Init, TypeOK, Runs, Returned, Files
<1>6. NeverEmpty => RowsWritten /\ FullTimeRes
  BY <1>1 DEF Init, RowsWritten, NeverEmpty, FullTimeRes, Returned
<1> QED BY <1>3, <1>5, <1>6
        DEF Init, IInv, Turns, Buffered, Left, Matched, Divided, Returned

LEMMA RefuseI ==
  ASSUME IInv, NEW a \in Asks, Refuse(a)
  PROVE  IInv'
<1>1. pc' = "returned" /\ ret' = -1 /\ calls' = calls + 1
      /\ index' = index /\ pos' = pos /\ sums' = sums /\ image' = image
  BY DEF Refuse
<1>2. TypeOK'
  BY <1>1 DEF IInv, TypeOK, Runs, Returned
<1>3. (NeverEmpty => ImageOK /\ RowsWritten /\ FullTimeRes)'
  BY <1>1 DEF IInv, ImageOK, RowsWritten, NeverEmpty, FullTimeRes, Returned
<1> QED BY <1>1, <1>2, <1>3 DEF IInv, Turns, Buffered, Left, Matched, Divided, Returned

LEMMA StartI ==
  ASSUME IInv, NEW a \in Asks, Start(a)
  PROVE  IInv'
<1>1. /\ pc' = "loop" /\ ask' = a /\ calls' = calls + 1 /\ index' = 0
      /\ ret' = ret /\ image' = image
      /\ pos' = [f \in Files |-> 0] /\ sums' = [c \in Channels |-> <<>>]
      /\ buf' = [f \in Files |-> [i \in 0 .. Width(a.how) - 1 |-> Junk]]
  BY DEF Start
<1>2. a.eda \in Nat /\ a.big \in Nat /\ a.n \in Int
  BY CorrelateAssumption DEF Start
<1>3. Turn' = Width(a.how) /\ Turn' \in Nat
  BY <1>1, InBuffer DEF Turn
<1>4. TypeOK'
  <2>1. buf' \in [Files -> [0 .. Turn' - 1 -> Int]]
    BY <1>1, <1>3 DEF Junk
  <2>2. sums' \in [Channels -> Seq(Products)]
    BY <1>1
  <2> QED BY <1>1, <1>2, <2>1, <2>2 DEF IInv, TypeOK, Runs
<1>5. (NeverEmpty => ImageOK)'
  BY <1>1 DEF IInv, ImageOK, NeverEmpty
<1>6. Turns'
  BY <1>1, <1>2, <1>3 DEF Turns, Behind, Files
<1>7. Matched'
  BY <1>1 DEF Matched
<1>9. Buffered'
  <2>1. \A c \in Channels : Place(a, c) \in 0 .. Width(a.how) - 1
    BY InBuffer
  <2> QED BY <1>1, <2>1 DEF Buffered
<1>8. (NeverEmpty => RowsWritten)'
  BY <1>1, <1>5 DEF IInv, RowsWritten, NeverEmpty, ImageOK, NoImage
<1> QED BY <1>1, <1>4, <1>5, <1>6, <1>7, <1>8, <1>9
        DEF IInv, Left, Divided, FullTimeRes, Returned

LEMMA EndOfFileI ==
  ASSUME IInv, EndOfFile
  PROVE  IInv'
<1>1. /\ pc = "loop" /\ Got("eda") = 0 /\ pc' = "mean"
      /\ UNCHANGED <<calls, ask, pos, buf, index, sums, ret, image>>
  BY DEF EndOfFile
<1>2. /\ ask \in Asks /\ ask.eda \in Nat /\ pos["eda"] \in Nat /\ index \in Nat
      /\ ask.n \in Int
  BY <1>1, CorrelateAssumption DEF IInv, TypeOK, Runs, Files
<1>3. Turn \in Nat /\ Turn >= 1
  BY <1>2, InBuffer DEF Turn
<1>4. ask.eda <= index * Turn
  <2>1. pos["eda"] = ask.eda
    BY <1>1, <1>2, <1>3 DEF Got, Turn
  <2>2. pos["eda"] <= index * Turn
    BY <1>1 DEF IInv, Turns, Behind, Files
  <2> QED BY <2>1, <2>2
<1>5. ~Limited
  <2> SUFFICES ASSUME Limited PROVE FALSE
    OBVIOUS
  <2>1. ask.n \in Nat /\ ask.n * Turn < ask.eda /\ index <= ask.n
    BY <1>1, <1>2 DEF Limited, Turn, IInv, Turns
  <2>2. index * Turn <= ask.n * Turn
    BY <1>2, <1>3, <2>1, Grows
  <2>3. index * Turn \in Nat /\ ask.n * Turn \in Nat
    BY <1>2, <1>3, <2>1, Products2
  <2> QED BY <1>2, <1>4, <2>1, <2>2, <2>3
<1>6. TypeOK'
  BY <1>1 DEF IInv, TypeOK, Runs, Returned
<1>7. (NeverEmpty => ImageOK)'
  BY <1>1 DEF IInv, ImageOK, NeverEmpty
<1>8. Left'
  <2>1. Limited' = Limited
    BY <1>1 DEF Limited
  <2> QED BY <1>1, <1>5, <2>1 DEF IInv, Turns, Left
<1>9. Matched'
  BY <1>1, SameProducts DEF IInv, Matched
<1>10. (NeverEmpty => RowsWritten)'
  <2>1. NeverEmpty => index # 0
    <3>1. index = 0 => ask.eda <= 0
      BY <1>3, <1>4
    <3> QED BY <1>2, <3>1 DEF NeverEmpty
  <2>2. NeverEmpty' = NeverEmpty
    BY DEF NeverEmpty
  <2> QED BY <1>1, <2>1, <2>2, SameProducts DEF IInv, RowsWritten
<1> QED BY <1>1, <1>6, <1>7, <1>8, <1>9, <1>10
        DEF IInv, Turns, Buffered, Divided, FullTimeRes, Returned

LEMMA MeanI ==
  ASSUME IInv, Mean
  PROVE  IInv'
<1>1. /\ pc = "mean" /\ pc' = "returned" /\ ret' = index
      /\ image' = IF image.ysize = NoImage THEN image ELSE [image EXCEPT !.ysize = index]
      /\ UNCHANGED <<calls, ask, pos, buf, index, sums>>
  BY DEF Mean
<1>2. index \in Nat /\ Returned'
  BY <1>1 DEF IInv, TypeOK, Returned
<1>3. TypeOK'
  BY <1>1, <1>2 DEF IInv, TypeOK, Runs
<1>4. Matched'
  BY <1>1, SameProducts DEF IInv, Matched
<1>5. Divided'
  <2>1. Limited' = Limited
    BY <1>1 DEF Limited
  <2> QED BY <1>1, <2>1 DEF IInv, Left, Divided
<1>6. ASSUME NeverEmpty PROVE (ImageOK /\ RowsWritten /\ FullTimeRes)'
  <2>1. ImageOK /\ RowsWritten
    BY <1>6 DEF IInv
  <2>2. PICK y \in Nat : HasRows(image, y)
    BY <2>1 DEF ImageOK, HasRows
  <2>3. CASE image.ysize = NoImage
    BY <1>1, <2>1, <2>3 DEF ImageOK, RowsWritten, FullTimeRes
  <2>4. CASE image.ysize # NoImage
    <3>1. image.ysize \in Nat /\ image.ysize <= y /\ image.row \in [0 .. y - 1 -> Rows]
      BY <2>2, <2>4 DEF HasRows
    <3>2. index <= image.ysize /\ index # 0
      BY <1>1, <2>1, <2>4 DEF RowsWritten
    <3>3. image'.ysize = index /\ image'.row = image.row /\ HasRows(image', y)
      BY <1>1, <1>2, <2>2, <2>4, <3>1, <3>2 DEF HasRows
    <3>4. ImageOK'
      BY <3>3 DEF ImageOK, HasRows
    <3>5. \A r \in 0 .. index - 1 : r \in DOMAIN image.row
      BY <1>2, <3>1, <3>2
    <3>6. \A r \in 0 .. index - 1 : \A c \in Channels : ProductOf(r, c, image.row[r][c])
      BY <1>1, <2>1, <2>4 DEF RowsWritten
    <3>7. FullTimeRes'
      BY <1>1, <3>3, <3>5, <3>6, SameProducts DEF FullTimeRes
    <3>8. RowsWritten'
      BY <1>1, <1>2, <3>2, <3>3 DEF RowsWritten
    <3> QED BY <3>4, <3>7, <3>8
  <2> QED BY <2>3, <2>4
<1>7. NeverEmpty' = NeverEmpty
  BY DEF NeverEmpty
<1> QED BY <1>1, <1>3, <1>4, <1>5, <1>6, <1>7 DEF IInv, Turns, Buffered, Left

LEMMA AgainI ==
  ASSUME IInv, Again
  PROVE  IInv'
<1>1. /\ pc' = "idle"
      /\ UNCHANGED <<calls, ask, pos, buf, index, sums, ret, image>>
  BY DEF Again
<1>2. TypeOK'
  BY <1>1 DEF IInv, TypeOK, Runs, Returned
<1>3. (NeverEmpty => ImageOK /\ RowsWritten /\ FullTimeRes)'
  BY <1>1 DEF IInv, ImageOK, RowsWritten, NeverEmpty, FullTimeRes, Returned
<1> QED BY <1>1, <1>2, <1>3 DEF IInv, Turns, Buffered, Left, Matched, Divided, Returned

LEMMA AccumulateI ==
  ASSUME IInv, Accumulate
  PROVE  IInv'
<1>1. /\ pc = "loop" /\ Got("eda") > 0 /\ pc' \in {"loop", "mean"}
      /\ pos' = [f \in Files |-> pos[f] + Got(f)]
      /\ buf' = [f \in Files |-> Filled(f)]
      /\ image' = IF image.ysize = NoImage THEN image
                  ELSE WithRow(Doubled, index, [c \in Channels |-> Product(c)])
      /\ sums' = [c \in Channels |-> Append(sums[c], Product(c))]
      /\ calls' = calls /\ ask' = ask /\ ret' = ret
  BY DEF Accumulate, ReadBoth
<1>2. \/ AtLimit /\ pc' = "mean" /\ index' = index
      \/ ~AtLimit /\ pc' = "loop" /\ index' = index + 1
  BY DEF Accumulate
<1>3. /\ ask \in Asks /\ ask.eda \in Nat /\ ask.big \in Nat /\ ask.n \in Int
      /\ index \in Nat /\ pos \in [Files -> Nat] /\ sums \in [Channels -> Seq(Products)]
  BY <1>1, CorrelateAssumption DEF IInv, TypeOK, Runs
<1>4. /\ \A c \in Channels : Len(sums[c]) = index
      /\ ask.how # "float" /\ ask.n > 0 => index <= ask.n
  BY <1>1 DEF IInv, Turns
<1>5. \A c \in Channels : Product(c) \in Products /\ ProductOf(index, c, Product(c))
  BY <1>1, OfItsTurn
<1>6. \A f \in Files :
        /\ pos'[f] \in Nat /\ pos'[f] <= ask[f] /\ pos'[f] <= (index + 1) * Turn
        /\ pos'[f] = (index + 1) * Turn \/ pos'[f] = ask[f]
  <2> SUFFICES ASSUME NEW f \in Files
               PROVE  /\ pos'[f] \in Nat /\ pos'[f] <= ask[f]
                      /\ pos'[f] <= (index + 1) * Turn
                      /\ pos'[f] = (index + 1) * Turn \/ pos'[f] = ask[f]
    OBVIOUS
  <2>1. pos'[f] = pos[f] + Got(f)
    BY <1>1
  <2> QED BY <1>1, <2>1, Moves
<1>7. \A c \in Channels :
        /\ sums'[c] \in Seq(Products) /\ Len(sums'[c]) = index + 1
        /\ \A k \in 1 .. index : sums'[c][k] = sums[c][k]
        /\ sums'[c][index + 1] = Product(c)
  <2> SUFFICES ASSUME NEW c \in Channels
               PROVE  /\ sums'[c] \in Seq(Products) /\ Len(sums'[c]) = index + 1
                      /\ \A k \in 1 .. index : sums'[c][k] = sums[c][k]
                      /\ sums'[c][index + 1] = Product(c)
    OBVIOUS
  <2>1. sums'[c] = Append(sums[c], Product(c))
    BY <1>1
  <2>2. sums[c] \in Seq(Products) /\ Len(sums[c]) = index /\ Product(c) \in Products
    BY <1>3, <1>4, <1>5
  <2> QED BY <2>1, <2>2, AppendProperties
<1>8. TypeOK'
  <2>1. sums' \in [Channels -> Seq(Products)]
    BY <1>1, <1>7
  <2>2. buf' \in [Files -> [0 .. Turn' - 1 -> Int]]
    <3>1. \A f \in Files : Filled(f) \in [0 .. Turn - 1 -> Int]
      BY <1>1, Holds
    <3> QED BY <1>1, <3>1 DEF Turn
  <2>3. pos' \in [Files -> Nat]
    BY <1>1, <1>6
  <2>4. index' \in Nat
    BY <1>2, <1>3
  <2> QED BY <1>1, <1>3, <2>1, <2>2, <2>3, <2>4 DEF IInv, TypeOK
<1>9. Turns'
  <2>1. CASE AtLimit
    BY <1>2, <2>1 DEF Turns
  <2>2. CASE ~AtLimit
    <3>1. index' = index + 1 /\ pc' = "loop" /\ Turn' = Turn
      BY <1>1, <1>2, <2>2 DEF Turn
    <3>2. \A f \in Files : Behind(f, index)'
      BY <1>1, <1>6, <3>1 DEF Behind
    <3>3. ask.how # "float" /\ ask.n > 0 => index + 1 <= ask.n
      BY <1>3, <2>2 DEF AtLimit
    <3>4. \A c \in Channels : Len(sums'[c]) = index'
      BY <1>7, <3>1
    <3> QED BY <1>1, <3>1, <3>2, <3>3, <3>4 DEF Turns
  <2> QED BY <2>1, <2>2
<1>10. Left'
  <2>1. CASE ~AtLimit
    BY <1>2, <2>1 DEF Left
  <2>2. CASE AtLimit
    <3>1. ask.n = index /\ ask.how # "float" /\ ask.n > 0
      BY <1>3, <1>4, <2>2 DEF AtLimit
    <3>2. pos["eda"] <= index * Turn /\ (pos["eda"] = index * Turn \/ pos["eda"] = ask.eda)
      BY <1>1 DEF IInv, Turns, Behind, Files
    <3>3. pos["eda"] < ask.eda
      <4>1. pos["eda"] \in Nat
        BY <1>3 DEF Files
      <4>2. pos["eda"] + Got("eda") <= ask.eda /\ Got("eda") \in Nat
        BY <1>1, Moves DEF Files
      <4> QED BY <1>1, <1>3, <4>1, <4>2
    <3>4. Limited
      <4>1. pos["eda"] = index * Turn
        BY <1>3, <3>2, <3>3
      <4>2. ask.n * Turn < ask.eda
        BY <3>1, <3>3, <4>1
      <4> QED BY <3>1, <4>2 DEF Limited, Turn
    <3>5. Limited'
      BY <1>1, <3>4 DEF Limited
    <3> QED BY <1>2, <1>7, <2>2, <3>5 DEF Left
  <2> QED BY <2>1, <2>2
<1>11. Matched'
  <2> SUFFICES ASSUME NEW c \in Channels, NEW k \in 1 .. index + 1
               PROVE  ProductOf(k - 1, c, sums'[c][k])
    BY <1>1, <1>7, SameProducts DEF Matched
  <2>1. CASE k \in 1 .. index
    BY <1>1, <1>4, <1>7, <2>1 DEF IInv, Matched
  <2>2. CASE k = index + 1
    <3>1. k - 1 = index
      BY <1>3, <2>2
    <3> QED BY <1>5, <1>7, <2>2, <3>1
  <2> QED BY <1>3, <2>1, <2>2
<1>12. ASSUME NeverEmpty PROVE (ImageOK /\ RowsWritten /\ FullTimeRes)'
  <2>1. ImageOK /\ RowsWritten
    BY <1>12 DEF IInv
  <2>2. ~Returned'
    BY <1>1 DEF Returned
  <2>3. AtLimit => index # 0
    BY <1>3 DEF AtLimit
  <2>4. CASE image.ysize = NoImage
    <3>1. image' = image
      BY <1>1, <2>4
    <3> QED BY <1>1, <1>2, <2>1, <2>2, <2>3, <2>4, <3>1
            DEF ImageOK, RowsWritten, FullTimeRes, NoImage
  <2>5. CASE image.ysize # NoImage
    <3> DEFINE v == [c \in Channels |-> Product(c)]
               h == image.ysize
    <3>1. v \in Rows
      BY <1>5 DEF Rows
    <3>2. h \in Nat /\ h >= 1 /\ index <= h
      BY <1>1, <2>1, <2>5 DEF ImageOK, RowsWritten
    <3>3. image' = WithRow(Doubled, index, v)
      BY <1>1, <2>5
    <3>4. Doubled.ysize = IF index >= h THEN 2 * h ELSE h
      BY <1>3, <2>1, <3>2, DoublingKeeps
    <3>5. /\ \E y \in Nat : HasRows(image', y)
          /\ image'.ysize = Doubled.ysize
          /\ \A r \in 0 .. h - 1 : r # index => image'.row[r] = image.row[r]
          /\ index < Doubled.ysize => image'.row[index] = v
      BY <1>3, <2>1, <2>5, <3>1, <3>3, RowSet
    <3>6. image'.ysize \in Nat /\ image'.ysize >= index + 1
      BY <1>3, <3>2, <3>4, <3>5
    <3>7. ImageOK'
      BY <3>5 DEF ImageOK, HasRows
    <3>8. \A r \in 0 .. index : \A c \in Channels : ProductOf(r, c, image'.row[r][c])
      <4> SUFFICES ASSUME NEW r \in 0 .. index, NEW c \in Channels
                   PROVE  ProductOf(r, c, image'.row[r][c])
        OBVIOUS
      <4>1. CASE r = index
        BY <1>3, <1>5, <3>5, <3>6, <4>1
      <4>2. CASE r # index
        <5>1. r \in 0 .. index - 1 /\ r \in 0 .. h - 1
          BY <1>3, <3>2, <4>2
        <5> QED BY <1>1, <2>1, <2>5, <3>5, <4>2, <5>1 DEF RowsWritten
      <4> QED BY <4>1, <4>2
    <3>9. index' <= image'.ysize /\ \A r \in 0 .. index' - 1 : r \in 0 .. index
      BY <1>2, <1>3, <3>6
    <3>10. RowsWritten'
      <4>1. \A r \in 0 .. index' - 1 : \A c \in Channels : ProductOf(r, c, image'.row[r][c])
        BY <3>8, <3>9
      <4>2. \A r, c, p : ProductOf(r, c, p)' <=> ProductOf(r, c, p)
        BY <1>1, SameProducts
      <4>4. image'.ysize # 0 /\ (pc' = "mean" => index' # 0)
        BY <1>1, <1>2, <1>3, <2>3, <3>6
      <4> QED BY <3>9, <4>1, <4>2, <4>4 DEF RowsWritten
    <3> QED BY <2>2, <3>7, <3>10 DEF FullTimeRes
  <2> QED BY <2>4, <2>5
<1>13. NeverEmpty' = NeverEmpty
  BY DEF NeverEmpty
<1>14. Buffered'
  <2> SUFFICES ASSUME pc' = "loop", NEW f \in Files, NEW c \in Channels
               PROVE  index' # 0 /\ ValueOf(f, index' - 1, c, buf'[f][Place(ask, c)])
    BY <1>1, SameProducts DEF Buffered
  <2>1. index' = index + 1 /\ index' # 0 /\ index' - 1 = index
    BY <1>2, <1>3
  <2>2. buf'[f] = Filled(f)
    BY <1>1
  <2> QED BY <1>1, <2>1, <2>2, GoesOn
<1> QED BY <1>1, <1>8, <1>9, <1>10, <1>11, <1>12, <1>13, <1>14 DEF IInv, Divided, Returned

(* Every step keeps the invariant. *)
LEMMA NextI ==
  ASSUME IInv, [Next]_vars
  PROVE  IInv'
<1>1. CASE UNCHANGED vars
  <2>1. UNCHANGED <<pc, calls, ask, pos, buf, index, sums, ret, image>>
    BY <1>1 DEF vars
  <2>2. TypeOK' /\ Turns' /\ Left'
    BY <2>1 DEF IInv, TypeOK, Runs, Returned, Turn, Turns, Behind, Left, Limited
  <2>3. Matched' /\ Divided' /\ Buffered'
    BY <2>1, SameProducts DEF IInv, Matched, Divided, Buffered, Returned, Limited
  <2>4. (NeverEmpty => ImageOK /\ RowsWritten /\ FullTimeRes)'
    BY <2>1, SameProducts DEF IInv, NeverEmpty, ImageOK, RowsWritten, FullTimeRes, Returned
  <2> QED BY <2>2, <2>3, <2>4 DEF IInv
<1>2. CASE \E a \in Asks : Refuse(a) \/ Start(a)
  BY <1>2, RefuseI, StartI
<1>3. CASE Done
  BY <1>1, <1>3 DEF Done
<1> QED BY <1>1, <1>2, <1>3, AccumulateI, EndOfFileI, MeanI, AgainI DEF Next

-----------------------------------------------------------------------------
(* Each turn of a correlator's loop leaves both files where that many      *)
(* spectra bring them, or at their end, and the limit or the end of the    *)
(* first file is what stopped it.                                          *)
THEOREM Invariant == Spec => []IInv
<1>1. Init => IInv
  BY InitI
<1>2. IInv /\ [Next]_vars => IInv'
  BY NextI
<1> QED BY <1>1, <1>2, PTL DEF Spec

(* What CorrelateBinary and its two sisters add to a channel is, turn by   *)
(* turn, the product of the same spectrum, channel and polarisation of     *)
(* both files, whatever their lengths and whatever call came before; a     *)
(* file that has ended gives its last value of the channel again.          *)
THEOREM SameSpectrum == Spec => []Matched
<1>1. IInv => Matched
  BY DEF IInv
<1> QED BY <1>1, Invariant, PTL

(* The number a correlator returns and divides by is the number of         *)
(* products it added, but for the one more that its limit lets in.         *)
THEOREM Divisor == Spec => []Divided
<1>1. IInv => Divided
  BY DEF IInv
<1> QED BY <1>1, Invariant, PTL

(* When no image without a row is passed and no first file is empty, what  *)
(* a correlator returns and leaves in the image belong to the same spectra, *)
(* one file shorter than the other or not, and also in the image of an     *)
(* earlier call; each of them is in the sums.                              *)
THEOREM SameCount ==
  ASSUME NeverEmpty
  PROVE  Spec => []Counted
<1>1. IInv => Counted
  <2> SUFFICES ASSUME IInv PROVE Counted
    OBVIOUS
  <2>1. Returned => ret \in Nat
    BY DEF IInv, TypeOK, Returned
  <2>2. Returned => \A c \in Channels : ret <= Len(sums[c])
    BY <2>1 DEF IInv, Divided
  <2>3. ~Limited => Averaged
    BY DEF IInv, Divided, Averaged
  <2> QED BY NeverEmpty, <2>2, <2>3 DEF IInv, Counted
<1> QED BY <1>1, Invariant, PTL

-----------------------------------------------------------------------------
(* Cutting of voltage files. *)

Lines == [0 .. N - 1 -> Int]

CutTypeOK ==
  /\ order \in Orders /\ size \in Sizes
  /\ phase \in {"open", "loop", "finished", "failed", "crashed"}
  /\ toSkip \in Nat /\ toWrite \in Nat /\ place \in Nat
  /\ buffer \in Lines /\ taps \in Seq(Lines)
  /\ idx \in Nat /\ n_skipped \in Nat /\ n_written \in Nat
  /\ out \in Seq(Lines \cup Seq(Lines))

(* The file is open, and the loop has run or runs. *)
Reads == phase \in {"loop", "finished"}

(* Nothing was read, and while there is a file no more than it has. *)
Within ==
  /\ phase \in {"open", "failed"} =>
       place = 0 /\ taps = <<>> /\ idx = 0 /\ n_skipped = 0 /\ n_written = 0 /\ out = <<>>
  /\ Reads => place <= size

(* The loop stands behind m whole buffers that begin at base, or it has     *)
(* read a part of one more and is at the end of the file.                   *)
BuffersBehind(base, m) ==
  /\ base + m * N <= size
  /\ \/ place = base + m * N
     \/ place = size /\ size < (base + m * N) + N

-----------------------------------------------------------------------------
(* filePFB: the whole buffers it has read. *)
TapsFilled == IF Len(taps) < order.taps THEN Len(taps) ELSE Len(out) + order.taps - 1

(* The m-th buffer behind the extra bytes, from 0. *)
Nth(m) == Bytes(order.extra + m * N)

PfbPlace ==
  order.how = "pfb" /\ Reads =>
    /\ BuffersBehind(Piece(0, order.extra), TapsFilled)
    /\ size < order.extra => place = size

PfbTaps ==
  order.how = "pfb" =>
    /\ IF Len(taps) < order.taps THEN out = <<>> ELSE Len(taps) = order.taps /\ Len(out) >= 1
    /\ \A j \in 1..Len(taps) : taps[j] = Nth((TapsFilled - Len(taps)) + (j - 1))

(* SkipNSpectraAndSaveMSpectra: the last buffer may be a part of one. *)
SpectraPlace ==
  order.how = "spectra" /\ phase = "loop" =>
    /\ place = IF size < idx * N THEN size ELSE idx * N
    /\ idx * N < size + N
    /\ Len(out) = n_written /\ n_written <= order.save
    /\ n_written = IF idx < order.skip THEN 0 ELSE idx - order.skip

(* SkipNSec_and_SaveMSec: the lines it was told of are those of the times,  *)
(* it has read as many as it has skipped, or stands behind those it has     *)
(* written or at the end of the file.                                       *)
Times ==
  order.how = "seconds" /\ phase \in {"loop", "finished", "crashed"} =>
    toSkip \in LinesIn(order.skip) /\ toWrite \in LinesIn(order.save)

CutStart ==
  IF order.how = "spectra" THEN order.skip * N
  ELSE IF order.extra > 0 THEN toSkip * N + N + order.extra ELSE toSkip * N

BehindWritten ==
  \/ place = CutStart + Written /\ place <= size
  \/ place = size /\ size < CutStart + Written + N

SecondsPlace ==
  order.how = "seconds" /\ phase = "loop" =>
    /\ Len(out) = n_written /\ n_written <= toWrite
    /\ IF n_skipped <= toSkip THEN BuffersBehind(0, n_skipped) /\ out = <<>>
       ELSE BehindWritten

(* What both have written begins there, and is enough when they end. *)
CutGoes == Cuts => From(CutStart)

CutEnds ==
  Cuts /\ phase = "finished" =>
    AskedLength <= Written + N \/ size < CutStart + Written + N

CutInv ==
  /\ CutTypeOK /\ Within
  /\ PfbPlace /\ PfbTaps /\ SpectraPlace /\ SecondsPlace
  /\ Filtered /\ Times /\ CutGoes /\ CutEnds

-----------------------------------------------------------------------------
(* Multiples of the size of a buffer. *)
LEMMA Multiple ==
  ASSUME NEW m \in Nat
  PROVE  m * N \in Nat /\ (m + 1) * N = m * N + N /\ N \in Nat /\ N >= 1
BY VoltageCutAssumption

LEMMA MultipleGrows ==
  ASSUME NEW a \in Nat, NEW b \in Nat, a <= b
  PROVE  a * N <= b * N
BY VoltageCutAssumption

(* What a file divided by the size of a buffer comes to. *)
LEMMA Quotient ==
  ASSUME NEW x \in Nat, NEW b \in Nat
  PROVE  /\ x \div N \in Nat
         /\ b * N <= x => x \div N >= b
         /\ x < b * N + N => x \div N <= b
<1> DEFINE q == x \div N
<1>1. q \in Nat /\ q * N <= x /\ x < q * N + N
  BY VoltageCutAssumption
<1> HIDE DEF q
<1>2. ASSUME b * N <= x, q < b PROVE FALSE
  <2>1. (q + 1) * N <= b * N
    BY <1>1, <1>2, MultipleGrows
  <2> QED BY <2>1, <1>1, <1>2, Multiple
<1>3. ASSUME x < b * N + N, b < q PROVE FALSE
  <2>1. (b + 1) * N <= q * N
    BY <1>1, <1>3, MultipleGrows
  <2> QED BY <2>1, <1>1, <1>3, Multiple
<1> QED BY <1>1, <1>2, <1>3 DEF q

(* What fread returns, and the buffer it leaves. *)
LEMMA PieceRead ==
  ASSUME size \in Nat, NEW p \in Nat, p <= size, NEW n \in Nat
  PROVE  Piece(p, n) \in Nat /\ Piece(p, n) <= n /\ p + Piece(p, n) <= size
BY DEF Piece

LEMMA BufferRead ==
  ASSUME size \in Nat, NEW p \in Nat, p <= size, NEW n \in Nat, NEW b \in Lines
  PROVE  Loaded(b, p, n) \in Lines /\ (Piece(p, N) = N => Loaded(b, p, N) = Bytes(p))
<1>1. Piece(p, n) \in Nat /\ N \in Nat
  BY PieceRead, VoltageCutAssumption
<1>2. Loaded(b, p, n) \in Lines
  BY <1>1 DEF Loaded, Lines
<1>3. Piece(p, N) = N => Loaded(b, p, N) = Bytes(p)
  BY <1>1 DEF Loaded, Bytes
<1> QED BY <1>2, <1>3

LEMMA BytesRead ==
  ASSUME size \in Nat, NEW p \in Nat, p <= size, NEW b \in Lines
  PROVE  \A i \in 0 .. N - 1 : p + i < size => Loaded(b, p, N)[i] = p + i
<1>1. N \in Nat
  BY VoltageCutAssumption
<1> QED BY <1>1 DEF Loaded, Piece

(* The parts of a call, and of the state of a loop. *)
LEMMA Asked ==
  ASSUME order \in Orders
  PROVE  /\ order.how \in {"pfb", "spectra", "seconds"}
         /\ order.skip \in Nat /\ order.save \in Nat /\ order.extra \in Nat
         /\ order.taps \in Nat /\ order.taps >= 1
         /\ order.how = "spectra" => order.extra = 0
BY VoltageCutAssumption DEF AnyOrder

LEMMA InLoop ==
  ASSUME CutInv, Reads
  PROVE  size \in Nat /\ place \in Nat /\ place <= size /\ N \in Nat /\ N >= 1
BY VoltageCutAssumption DEF CutInv, CutTypeOK, Within

-----------------------------------------------------------------------------
LEMMA CutInitI == CutInit => CutInv
<1> SUFFICES ASSUME CutInit PROVE CutInv
  OBVIOUS
<1> USE DEF CutInit
<1>1. N \in Nat /\ N >= 1
  BY VoltageCutAssumption
<1>2. buffer \in Lines
  BY <1>1 DEF Lines, Unread
<1>3. CutTypeOK
  BY <1>2 DEF CutTypeOK
<1>4. Len(out) = 0 /\ Len(taps) = 0 /\ DOMAIN out = {} /\ order.taps >= 1 /\ order.taps \in Nat
  BY Asked
<1>5. Within /\ PfbPlace /\ PfbTaps /\ SpectraPlace /\ SecondsPlace
  BY <1>4 DEF Within, Reads, PfbPlace, PfbTaps, SpectraPlace, SecondsPlace
<1>6. Filtered /\ Times /\ CutGoes /\ CutEnds
  BY <1>4 DEF Filtered, TapsFollow, AllSpectra, Times, CutGoes, From, CutEnds
<1> QED BY <1>3, <1>5, <1>6 DEF CutInv

LEMMA NoFileI == ASSUME CutInv, NoFile PROVE CutInv'
<1> USE DEF CutInv
<1>1. /\ phase = "open" /\ phase' = "failed"
      /\ UNCHANGED <<order, size, toSkip, toWrite, place, buffer, taps, idx, n_skipped, n_written, out>>
  BY DEF NoFile
<1>2. CutTypeOK' /\ Within'
  BY <1>1 DEF CutTypeOK, Within, Reads
<1>3. PfbPlace' /\ SpectraPlace' /\ SecondsPlace' /\ Times'
  BY <1>1 DEF PfbPlace, SpectraPlace, SecondsPlace, Times, Reads
<1>4. PfbTaps'
  BY <1>1 DEF PfbTaps, TapsFilled, Nth, Bytes
<1>5. TapsFollow' /\ CutGoes'
  BY <1>1 DEF Filtered, TapsFollow, Bytes, CutGoes, Cuts, From, CutStart
<1>6. AllSpectra' /\ CutEnds'
  BY <1>1 DEF AllSpectra, CutEnds
<1> QED BY <1>2, <1>3, <1>4, <1>5, <1>6 DEF Filtered

LEMMA OpenI == ASSUME CutInv, Open PROVE CutInv'
<1> USE DEF CutInv
<1>1. /\ phase = "open" /\ phase' = "loop" /\ size # -1
      /\ place' = Piece(0, SkipFirst)
      /\ buffer' = Loaded(buffer, 0, SkipFirst)
      /\ IF order.how = "seconds"
         THEN toSkip' \in LinesIn(order.skip) /\ toWrite' \in LinesIn(order.save)
         ELSE UNCHANGED <<toSkip, toWrite>>
      /\ UNCHANGED <<order, size, taps, idx, n_skipped, n_written, out>>
  BY DEF Open
<1>2. size \in Nat /\ N \in Nat /\ N >= 1
  BY <1>1, VoltageCutAssumption DEF CutTypeOK
<1>3. /\ place = 0 /\ taps = <<>> /\ idx = 0 /\ n_skipped = 0 /\ n_written = 0 /\ out = <<>>
      /\ Len(taps) = 0 /\ Len(out) = 0 /\ DOMAIN out = {}
  BY <1>1 DEF Within
<1>4. /\ order.how \in {"pfb", "spectra", "seconds"} /\ order.extra \in Nat
      /\ order.skip \in Nat /\ order.save \in Nat
      /\ order.taps \in Nat /\ order.taps >= 1
  BY Asked DEF CutTypeOK
<1>5. SkipFirst \in Nat
  BY <1>4 DEF SkipFirst
<1>6. place' \in Nat /\ place' <= size /\ buffer' \in Lines
  BY <1>1, <1>2, <1>5, PieceRead, BufferRead DEF CutTypeOK
<1>0. toSkip' \in Nat /\ toWrite' \in Nat
  BY <1>1 DEF LinesIn, CutTypeOK
<1>7. CutTypeOK' /\ Within'
  BY <1>0, <1>1, <1>6 DEF CutTypeOK, Within, Reads
<1>8. order.how # "pfb" => place' = 0
  BY <1>1, <1>2 DEF SkipFirst, Piece
<1>9. 0 * N = 0
  BY <1>2
<1>10. PfbPlace'
  <2> SUFFICES ASSUME order.how = "pfb" PROVE PfbPlace'
    BY <1>1 DEF PfbPlace
  <2>1. Piece(0, order.extra)' = place' /\ place' <= size
        /\ (size < order.extra => place' = size)
    BY <1>1, <1>2, <1>4, <1>6 DEF SkipFirst, Piece
  <2>2. TapsFilled' = 0
    BY <1>1, <1>3, <1>4 DEF TapsFilled
  <2> QED BY <2>1, <2>2, <1>1, <1>2, <1>6, <1>9 DEF PfbPlace, BuffersBehind
<1>11. PfbTaps'
  BY <1>1, <1>3, <1>4 DEF PfbTaps
<1>12. SpectraPlace'
  BY <1>1, <1>2, <1>3, <1>4, <1>8, <1>9 DEF SpectraPlace
<1>13. SecondsPlace'
  BY <1>0, <1>1, <1>2, <1>3, <1>4, <1>8, <1>9 DEF SecondsPlace, BuffersBehind
<1>14. Filtered' /\ Times' /\ CutGoes' /\ CutEnds'
  BY <1>1, <1>3 DEF Filtered, TapsFollow, AllSpectra, Times, LinesIn, CutGoes, From, CutEnds
<1> QED BY <1>7, <1>10, <1>11, <1>12, <1>13, <1>14

-----------------------------------------------------------------------------
(* Where filePFB is when it has read a buffer, whole or a part. *)
LEMMA PfbReady ==
  ASSUME CutInv, Loop("pfb")
  PROVE  /\ order.how = "pfb" /\ phase = "loop" /\ order.taps \in Nat /\ order.taps >= 1
         /\ size \in Nat /\ order.extra \in Nat /\ Piece(0, order.extra) = order.extra
         /\ TapsFilled \in Nat /\ TapsFilled * N \in Nat /\ (TapsFilled + 1) * N = TapsFilled * N + N
         /\ place = order.extra + TapsFilled * N /\ place < size
         /\ size >= order.extra
         /\ NextBuffer \in Lines
         /\ Whole => place + N <= size /\ NextBuffer = Nth(TapsFilled)
         /\ ~Whole => size < place + N
<1> USE DEF CutInv
<1>1. /\ order.how = "pfb" /\ phase = "loop" /\ Piece(place, N) > 0
      /\ order.taps \in Nat /\ order.taps >= 1 /\ order.extra \in Nat
      /\ size \in Nat /\ place \in Nat /\ place <= size /\ N \in Nat /\ N >= 1
      /\ Len(taps) \in Nat /\ Len(out) \in Nat
  BY InLoop, Asked DEF Loop, Reads, CutTypeOK
<1>2. place < size /\ (Whole => place + N <= size) /\ (~Whole => size < place + N)
  BY <1>1 DEF Piece, Whole
<1>3. size >= order.extra /\ Piece(0, order.extra) = order.extra
  BY <1>1, <1>2 DEF PfbPlace, Reads, Piece
<1>4. TapsFilled \in Nat
  BY <1>1 DEF TapsFilled, PfbTaps
<1>5. TapsFilled * N \in Nat /\ (TapsFilled + 1) * N = TapsFilled * N + N
  BY <1>4, Multiple
<1>6. place = order.extra + TapsFilled * N
  BY <1>1, <1>2, <1>3 DEF PfbPlace, Reads, BuffersBehind
<1>7. NextBuffer \in Lines /\ (Piece(place, N) = N => NextBuffer = Bytes(place))
  BY <1>1, BufferRead DEF NextBuffer, CutTypeOK
<1>8. Whole => NextBuffer = Nth(TapsFilled)
  BY <1>6, <1>7 DEF Whole, Nth
<1> QED BY <1>1, <1>2, <1>3, <1>4, <1>5, <1>6, <1>7, <1>8

(* The taps are consecutive buffers, and stay so when the next one pushes   *)
(* the oldest out.                                                          *)
LEMMA TapsShift ==
  ASSUME NEW f \in Nat, NEW t \in Nat, t >= 1, t = order.taps, taps \in Seq(Lines),
         Len(taps) <= t,
         \A j \in 1..Len(taps) : taps[j] = Nth((f - Len(taps)) + (j - 1)),
         Nth(f) \in Lines
  PROVE  LET s == Shifted(Nth(f))
         IN /\ s \in Seq(Lines)
            /\ Len(s) = IF Len(taps) < t THEN Len(taps) + 1 ELSE t
            /\ \A j \in 1..Len(s) : s[j] = Nth(((f + 1) - Len(s)) + (j - 1))
<1> DEFINE s == Shifted(Nth(f))
           n == Len(taps)
<1> SUFFICES /\ s \in Seq(Lines)
             /\ Len(s) = IF Len(taps) < t THEN Len(taps) + 1 ELSE t
             /\ \A j \in 1..Len(s) : s[j] = Nth(((f + 1) - Len(s)) + (j - 1))
  OBVIOUS
<1>1. n \in Nat /\ s = IF n < t THEN Append(taps, Nth(f)) ELSE Append(Tail(taps), Nth(f))
  BY DEF Shifted
<1> HIDE DEF s
<1>2. CASE n < t
  <2>1. /\ s \in Seq(Lines) /\ Len(s) = n + 1
        /\ s[n + 1] = Nth(f) /\ \A j \in 1..n : s[j] = taps[j]
    BY <1>1, <1>2
  <2>2. ASSUME NEW j \in 1..(n + 1) PROVE s[j] = Nth(((f + 1) - Len(s)) + (j - 1))
    <3>1. CASE j = n + 1
      <4>1. ((f + 1) - (n + 1)) + (j - 1) = f
        BY <1>1, <3>1
      <4> HIDE DEF n
      <4> QED BY <2>1, <3>1, <4>1
    <3>2. CASE j # n + 1
      <4>1. j \in 1..n /\ ((f + 1) - (n + 1)) + (j - 1) = (f - n) + (j - 1)
        BY <1>1, <3>2
      <4>2. s[j] = Nth((f - n) + (j - 1))
        BY <2>1, <4>1
      <4> HIDE DEF n
      <4> QED BY <2>1, <4>1, <4>2
    <3> QED BY <3>1, <3>2
  <2> QED BY <1>2, <2>1, <2>2
<1>3. CASE ~(n < t)
  <2>0. n = t /\ taps # <<>>
    <3>1. Len(<<>>) = 0
      OBVIOUS
    <3> QED BY <3>1, <1>1, <1>3
  <2>1. /\ Tail(taps) \in Seq(Lines) /\ Len(Tail(taps)) = t - 1
        /\ \A j \in 1..(t - 1) : Tail(taps)[j] = taps[j + 1]
    BY <2>0, HeadTailProperties
  <2>2. s = Append(Tail(taps), Nth(f))
    BY <1>1, <1>3
  <2>3. /\ s \in Seq(Lines) /\ Len(s) = (t - 1) + 1
        /\ s[(t - 1) + 1] = Nth(f) /\ \A j \in 1..(t - 1) : s[j] = Tail(taps)[j]
    BY <2>1, <2>2, AppendProperties
  <2>4. Len(s) = t /\ s[t] = Nth(f)
    <3>1. (t - 1) + 1 = t
      OBVIOUS
    <3> QED BY <2>3, <3>1
  <2>5. ASSUME NEW j \in 1..t PROVE s[j] = Nth(((f + 1) - t) + (j - 1))
    <3>1. CASE j = t
      <4>1. ((f + 1) - t) + (j - 1) = f
        BY <3>1
      <4> QED BY <2>4, <3>1, <4>1
    <3>2. CASE j # t
      <4>1. /\ j \in 1..(t - 1) /\ j + 1 \in 1..t
            /\ ((f + 1) - t) + (j - 1) = (f - t) + ((j + 1) - 1)
        BY <3>2
      <4>2. s[j] = taps[j + 1]
        BY <4>1, <2>1, <2>3
      <4>3. taps[j + 1] = Nth((f - t) + ((j + 1) - 1))
        <5>1. Len(taps) = t /\ j + 1 \in 1..Len(taps)
          BY <4>1, <2>0
        <5>2. taps[j + 1] = Nth((f - Len(taps)) + ((j + 1) - 1))
          BY <5>1
        <5> QED BY <5>1, <5>2, Zenon
      <4> QED BY <4>1, <4>2, <4>3
    <3> QED BY <3>1, <3>2
  <2>6. ~(Len(taps) < t)
    BY <2>0
  <2> QED BY <2>3, <2>4, <2>5, <2>6
<1> QED BY <1>2, <1>3

(* What a whole buffer does to the taps of filePFB. *)
LEMMA PfbShift ==
  ASSUME CutInv, Loop("pfb"), Whole,
         taps' = Shifted(NextBuffer), UNCHANGED <<order, size>>
  PROVE  /\ taps' \in Seq(Lines)
         /\ Len(taps) \in Nat /\ Len(taps) <= order.taps
         /\ Len(taps') = IF Len(taps) < order.taps THEN Len(taps) + 1 ELSE order.taps
         /\ \A j \in 1..Len(taps') : taps'[j] = Nth(((TapsFilled + 1) - Len(taps')) + (j - 1))
<1>1. /\ Len(taps) \in Nat /\ Len(taps) <= order.taps /\ taps \in Seq(Lines)
      /\ \A j \in 1..Len(taps) : taps[j] = Nth((TapsFilled - Len(taps)) + (j - 1))
      /\ TapsFilled \in Nat /\ order.taps \in Nat /\ order.taps >= 1
      /\ NextBuffer = Nth(TapsFilled) /\ Nth(TapsFilled) \in Lines
  BY PfbReady DEF CutInv, PfbTaps, CutTypeOK
<1> DEFINE f == TapsFilled
           t == order.taps
           s == taps'
<1> HIDE DEF f, t, s
<1>2. /\ s \in Seq(Lines)
      /\ Len(s) = IF Len(taps) < t THEN Len(taps) + 1 ELSE t
      /\ \A j \in 1..Len(s) : s[j] = Nth(((f + 1) - Len(s)) + (j - 1))
  <2>1. f \in Nat /\ t \in Nat /\ t >= 1 /\ t = order.taps /\ s = Shifted(Nth(f))
    BY <1>1 DEF f, t, s
  <2>2. /\ taps \in Seq(Lines) /\ Len(taps) <= t /\ Nth(f) \in Lines
        /\ \A j \in 1..Len(taps) : taps[j] = Nth((f - Len(taps)) + (j - 1))
    BY <1>1 DEF f, t
  <2> QED BY <2>1, <2>2, TapsShift
<1> QED BY <1>1, <1>2 DEF f, t, s

LEMMA PfbFillsI == ASSUME CutInv, PfbFills PROVE CutInv'
<1> USE DEF CutInv
<1>1. /\ Loop("pfb") /\ Whole /\ Len(taps) + 1 < order.taps
      /\ buffer' = NextBuffer /\ place' = place + N /\ taps' = Shifted(NextBuffer)
      /\ UNCHANGED <<order, size, toSkip, toWrite, phase, idx, n_skipped, n_written, out>>
  BY DEF PfbFills
<1>2. /\ taps' \in Seq(Lines) /\ Len(taps) \in Nat /\ Len(taps') = Len(taps) + 1
      /\ \A j \in 1..Len(taps') : taps'[j] = Nth(((TapsFilled + 1) - Len(taps')) + (j - 1))
      /\ order.taps \in Nat /\ out = <<>>
  <2>1. order.taps \in Nat /\ Len(taps) \in Nat /\ Len(taps) < order.taps
    BY <1>1, PfbShift, PfbReady
  <2> QED BY <1>1, <2>1, PfbShift, PfbReady DEF PfbTaps
<1>3. /\ TapsFilled \in Nat /\ TapsFilled' = TapsFilled + 1 /\ Len(taps') < order.taps
  BY <1>1, <1>2, PfbReady DEF TapsFilled
<1>4. N \in Nat
  BY VoltageCutAssumption
<1>5. CutTypeOK' /\ Within'
  BY <1>1, <1>2, <1>4, PfbReady DEF CutTypeOK, Within, Reads
<1>6. PfbPlace'
  <2> DEFINE there == order.extra + (TapsFilled + 1) * N
  <2>1. there <= size /\ place' = there /\ size >= order.extra
    BY <1>1, <1>4, PfbReady
  <2>2. Piece(0, order.extra)' = order.extra
    BY <1>1, PfbReady DEF Piece
  <2>3. (order.extra + TapsFilled * N)' = there
    BY <1>1, <1>3
  <2> HIDE DEF there
  <2> QED BY <1>1, <2>1, <2>2, <2>3, PfbReady DEF PfbPlace, BuffersBehind
<1>7. PfbTaps'
  <2>1. \A m : Nth(m)' = Nth(m)
    BY <1>1 DEF Nth, Bytes
  <2> QED BY <1>1, <1>2, <1>3, <2>1 DEF PfbTaps
<1>8. SpectraPlace' /\ SecondsPlace' /\ Filtered' /\ Times' /\ CutGoes' /\ CutEnds'
  BY <1>1, <1>2, PfbReady DEF SpectraPlace, SecondsPlace, Filtered, TapsFollow, AllSpectra,
     Times, CutGoes, Cuts, CutEnds
<1> QED BY <1>5, <1>6, <1>7, <1>8

LEMMA PfbSpectrumI == ASSUME CutInv, PfbSpectrum PROVE CutInv'
<1> USE DEF CutInv
<1>1. /\ Loop("pfb") /\ Whole /\ Len(taps) + 1 >= order.taps
      /\ buffer' = NextBuffer /\ place' = place + N /\ taps' = Shifted(NextBuffer)
      /\ out' = Append(out, taps') /\ idx' = idx + 1
      /\ UNCHANGED <<order, size, toSkip, toWrite, phase, n_skipped, n_written>>
  BY DEF PfbSpectrum
<1>2. /\ taps' \in Seq(Lines) /\ Len(taps) \in Nat
      /\ order.taps \in Nat /\ order.taps >= 1 /\ Len(taps') = order.taps
      /\ \A j \in 1..Len(taps') : taps'[j] = Nth(((TapsFilled + 1) - Len(taps')) + (j - 1))
  <2>1. order.taps \in Nat /\ Len(taps) \in Nat /\ order.taps >= 1
    BY <1>1, PfbShift, PfbReady
  <2> QED BY <1>1, <2>1, PfbShift
<1> DEFINE n == Len(out)
<1>3. /\ out \in Seq(Lines \cup Seq(Lines)) /\ n \in Nat
      /\ out' \in Seq(Lines \cup Seq(Lines)) /\ Len(out') = n + 1 /\ out'[n + 1] = taps'
      /\ \A k \in 1..n : out'[k] = out[k]
      /\ DOMAIN out = 1..n /\ DOMAIN out' = 1..(n + 1)
  <2>1. out \in Seq(Lines \cup Seq(Lines)) /\ taps' \in Lines \cup Seq(Lines)
    BY <1>2 DEF CutTypeOK
  <2> QED BY <1>1, <2>1, AppendProperties
<1>4. TapsFilled \in Nat /\ TapsFilled' = TapsFilled + 1 /\ TapsFilled + 1 = n + order.taps
  <2>0. /\ Len(taps') = order.taps /\ Len(out') = n + 1 /\ n \in Nat /\ Len(taps) \in Nat
        /\ order.taps \in Nat /\ order' = order /\ Len(taps) + 1 >= order.taps
        /\ TapsFilled \in Nat
    BY <1>1, <1>2, <1>3, PfbReady
  <2>1. CASE Len(taps) < order.taps
    <3>1. n = 0 /\ TapsFilled = Len(taps)
      BY <2>1, <1>1, PfbReady DEF PfbTaps, TapsFilled
    <3> QED BY <2>0, <2>1, <3>1 DEF TapsFilled
  <2>2. CASE ~(Len(taps) < order.taps)
    BY <2>0, <2>2 DEF TapsFilled
  <2> QED BY <2>1, <2>2
<1>5. N \in Nat
  BY VoltageCutAssumption
<1>6. CutTypeOK' /\ Within'
  BY <1>1, <1>2, <1>3, <1>5, PfbReady DEF CutTypeOK, Within, Reads
<1>7. PfbPlace'
  <2> DEFINE there == order.extra + (TapsFilled + 1) * N
  <2>1. there <= size /\ place' = there /\ size >= order.extra
    BY <1>1, <1>5, PfbReady
  <2>2. Piece(0, order.extra)' = order.extra
    BY <1>1, PfbReady DEF Piece
  <2>3. (order.extra + TapsFilled * N)' = there
    BY <1>1, <1>4
  <2> HIDE DEF there
  <2> QED BY <1>1, <2>1, <2>2, <2>3, PfbReady DEF PfbPlace, BuffersBehind
<1>8. PfbTaps'
  <2>1. \A m : Nth(m)' = Nth(m)
    BY <1>1 DEF Nth, Bytes
  <2>2. (\A j \in 1..Len(taps) : taps[j] = Nth((TapsFilled - Len(taps)) + (j - 1)))'
    BY <1>2, <1>4, <2>1
  <2>3. Len(out') >= 1 /\ ~(Len(taps') < order'.taps) /\ Len(taps') = order'.taps
    BY <1>1, <1>2, <1>3
  <2> QED BY <2>2, <2>3 DEF PfbTaps
<1>9. TapsFollow'
  <2>1. ASSUME NEW k \in 1..(n + 1)
        PROVE out'[k] = [j \in 1 .. order.taps |-> Bytes(order.extra + (k + j - 2) * N)]
    <3>1. CASE k \in 1..n
      <4>1. out[k] = [j \in 1 .. order.taps |-> Bytes(order.extra + (k + j - 2) * N)]
        BY <1>1, <1>3, <3>1, PfbReady DEF Filtered, TapsFollow
      <4> QED BY <1>3, <3>1, <4>1
    <3>2. CASE k \notin 1..n
      <4>1. k = n + 1
        BY <1>3, <3>2
      <4>2. ASSUME NEW j \in 1..order.taps PROVE taps'[j] = Bytes(order.extra + (k + j - 2) * N)
        <5>1. ((TapsFilled + 1) - order.taps) + (j - 1) = k + j - 2
          BY <1>2, <1>3, <1>4, <4>1
        <5>2. taps'[j] = Nth(((TapsFilled + 1) - order.taps) + (j - 1))
          BY <1>2
        <5> QED BY <5>1, <5>2 DEF Nth
      <4>3. taps' = [j \in 1..order.taps |-> taps'[j]]
        BY <1>2
      <4> QED BY <1>3, <4>1, <4>2, <4>3
    <3> QED BY <3>1, <3>2
  <2> QED BY <1>1, <1>3, <2>1 DEF TapsFollow, Bytes
<1>10. SpectraPlace' /\ SecondsPlace' /\ AllSpectra' /\ Times' /\ CutGoes' /\ CutEnds'
  BY <1>1, PfbReady DEF SpectraPlace, SecondsPlace, AllSpectra, Times, CutGoes, Cuts, CutEnds
<1> QED BY <1>6, <1>7, <1>8, <1>9, <1>10 DEF Filtered

LEMMA PfbPartI == ASSUME CutInv, PfbPart PROVE CutInv'
<1> USE DEF CutInv
<1>1. /\ Loop("pfb") /\ ~Whole
      /\ buffer' = NextBuffer /\ place' = size /\ idx' = idx + 1
      /\ UNCHANGED <<order, size, toSkip, toWrite, phase, taps, n_skipped, n_written, out>>
  BY DEF PfbPart
<1>2. CutTypeOK' /\ Within'
  BY <1>1, PfbReady DEF CutTypeOK, Within, Reads
<1>3. TapsFilled' = TapsFilled /\ \A m : Nth(m)' = Nth(m)
  BY <1>1 DEF TapsFilled, Nth, Bytes
<1>4. PfbPlace'
  <2>1. /\ BuffersBehind(order.extra, TapsFilled)' /\ Piece(0, order.extra)' = order.extra
        /\ size >= order.extra
    BY <1>1, <1>3, PfbReady DEF BuffersBehind, Piece
  <2> QED BY <1>1, <1>3, <2>1, PfbReady DEF PfbPlace, BuffersBehind
<1>5. PfbTaps'
  BY <1>1, <1>3 DEF PfbTaps
<1>6. TapsFollow'
  BY <1>1 DEF Filtered, TapsFollow, Bytes
<1>7. SpectraPlace' /\ SecondsPlace' /\ AllSpectra' /\ Times' /\ CutGoes' /\ CutEnds'
  BY <1>1, PfbReady DEF SpectraPlace, SecondsPlace, AllSpectra, Times, CutGoes, Cuts, CutEnds
<1> QED BY <1>2, <1>4, <1>5, <1>6, <1>7 DEF Filtered

-----------------------------------------------------------------------------
LEMMA CutEndOfFileI == ASSUME CutInv, CutEndOfFile PROVE CutInv'
<1> USE DEF CutInv
<1>1. /\ phase = "loop" /\ phase' = (IF NoOutput THEN "crashed" ELSE "finished")
      /\ Piece(place, N) = 0 /\ phase' \in {"crashed", "finished"}
      /\ order.how = "pfb" => phase' = "finished"
      /\ UNCHANGED <<order, size, toSkip, toWrite, place, buffer, taps, idx, n_skipped, n_written, out>>
  BY DEF CutEndOfFile, NoOutput
<1>2. size \in Nat /\ place = size /\ N \in Nat /\ N >= 1
  BY <1>1, InLoop DEF Reads, Piece
<1>3. CutTypeOK' /\ Within'
  BY <1>1 DEF CutTypeOK, Within, Reads
<1>4. PfbPlace' /\ SpectraPlace' /\ SecondsPlace' /\ Times'
  BY <1>1 DEF PfbPlace, SpectraPlace, SecondsPlace, Times, Reads, BuffersBehind, Piece, TapsFilled
<1>5. PfbTaps'
  BY <1>1 DEF PfbTaps, TapsFilled, Nth, Bytes
<1>6. TapsFollow' /\ CutGoes'
  BY <1>1 DEF Filtered, TapsFollow, Bytes, CutGoes, Cuts, From, CutStart
<1>7. /\ Len(out) \in Nat /\ Len(taps) \in Nat
      /\ order.how \in {"pfb", "spectra", "seconds"}
      /\ order.skip \in Nat /\ order.save \in Nat /\ order.extra \in Nat
      /\ order.taps \in Nat /\ order.taps >= 1
      /\ idx \in Nat /\ n_skipped \in Nat /\ n_written \in Nat
  BY Asked DEF CutTypeOK
<1>8. AllSpectra'
  <2> SUFFICES ASSUME order.how = "pfb" PROVE AllSpectra'
    BY <1>1 DEF AllSpectra
  <2> DEFINE base == Piece(0, order.extra)
             x == size - base
  <2>1. base \in Nat /\ x \in Nat /\ Piece(0, order.extra)' = base
    BY <1>1, <1>2, <1>7 DEF Piece
  <2>2. BuffersBehind(base, TapsFilled)
    BY <1>1 DEF PfbPlace, Reads
  <2>3. TapsFilled \in Nat
    BY <1>7 DEF TapsFilled, PfbTaps
  <2>4. TapsFilled * N \in Nat
    BY <2>3, Multiple
  <2> HIDE DEF base
  <2>5. TapsFilled * N <= x /\ x < TapsFilled * N + N
    BY <1>2, <2>1, <2>2, <2>4 DEF BuffersBehind
  <2>6. x \div N = TapsFilled
    <3> HIDE DEF x
    <3> QED BY <2>1, <2>3, <2>5, Quotient
  <2>7. Len(out) = IF TapsFilled < order.taps THEN 0 ELSE TapsFilled - order.taps + 1
    <3>1. CASE Len(taps) < order.taps
      BY <3>1, <1>7 DEF TapsFilled, PfbTaps
    <3>2. CASE ~(Len(taps) < order.taps)
      BY <3>2, <1>7 DEF TapsFilled, PfbTaps
    <3> QED BY <3>1, <3>2
  <2> HIDE DEF x
  <2>8. (size - Piece(0, order.extra))' \div N = TapsFilled
    BY <1>1, <2>1, <2>6 DEF x
  <2> QED BY <1>1, <2>7, <2>8 DEF AllSpectra
<1>9. CutEnds'
  <2>0. Len(out) * N \in Nat /\ order.skip * N \in Nat /\ toSkip \in Nat /\ toSkip * N \in Nat
    BY <1>7, Multiple DEF CutTypeOK
  <2>1. CASE order.how = "spectra"
    <3>1. /\ size <= idx * N /\ idx * N \in Nat
          /\ Len(out) = IF idx < order.skip THEN 0 ELSE idx - order.skip
      BY <1>1, <1>2, <1>7, <2>1, Multiple DEF SpectraPlace
    <3>2. CASE idx < order.skip
      <4>1. idx * N <= order.skip * N
        BY <1>7, <3>2, MultipleGrows
      <4>2. size < order.skip * N + Len(out) * N + N
        BY <1>2, <2>0, <3>1, <4>1
      <4> QED BY <1>1, <2>1, <4>2 DEF CutEnds, CutStart, Written
    <3>3. CASE ~(idx < order.skip)
      <4>1. idx = order.skip + Len(out)
        BY <1>7, <3>1, <3>3
      <4>2. idx * N = order.skip * N + Len(out) * N
        BY <1>2, <1>7, <4>1
      <4>3. size < order.skip * N + Len(out) * N + N
        BY <1>2, <2>0, <3>1, <4>2
      <4> QED BY <1>1, <2>1, <4>3 DEF CutEnds, CutStart, Written
    <3> QED BY <3>2, <3>3
  <2>2. CASE order.how = "seconds"
    <3>1. size < CutStart + Len(out) * N + N
      <4>1. CASE n_skipped <= toSkip
        <5>1. n_skipped * N \in Nat /\ n_skipped * N <= toSkip * N
          BY <1>7, <2>0, <4>1, Multiple, MultipleGrows
        <5>2. size < n_skipped * N + N
          BY <1>1, <1>2, <2>2, <4>1, <5>1 DEF SecondsPlace, BuffersBehind
        <5>3. toSkip * N <= CutStart /\ CutStart \in Nat
          BY <1>2, <1>7, <2>0, <2>2 DEF CutStart
        <5> QED BY <1>2, <2>0, <5>1, <5>2, <5>3
      <4>2. CASE ~(n_skipped <= toSkip)
        <5>1. BehindWritten
          BY <1>1, <2>2, <4>2 DEF SecondsPlace
        <5>2. CutStart \in Nat
          BY <1>2, <1>7, <2>0, <2>2 DEF CutStart
        <5> QED BY <1>2, <2>0, <5>1, <5>2 DEF BehindWritten, Written
      <4> QED BY <4>1, <4>2
    <3>2. CutStart' = CutStart /\ Written' = Written /\ size' = size
      BY <1>1 DEF CutStart, Written
    <3> QED BY <3>1, <3>2 DEF CutEnds, Written
  <2> QED BY <1>1, <1>7, <2>1, <2>2 DEF CutEnds, Cuts
<1> QED BY <1>3, <1>4, <1>5, <1>6, <1>8, <1>9 DEF Filtered

-----------------------------------------------------------------------------
(* Where the two functions that cut are when they have read a buffer. *)
LEMMA CutReady ==
  ASSUME CutInv, NEW how \in {"spectra", "seconds"}, Loop(how)
  PROVE  /\ order.how = how /\ phase = "loop"
         /\ order.skip \in Nat /\ order.save \in Nat /\ order.extra \in Nat
         /\ size \in Nat /\ place \in Nat /\ place < size /\ N \in Nat /\ N >= 1
         /\ idx \in Nat /\ n_skipped \in Nat /\ n_written \in Nat
         /\ toSkip \in Nat /\ toWrite \in Nat
         /\ out \in Seq(Lines \cup Seq(Lines)) /\ Len(out) \in Nat
         /\ \A i \in 0 .. N - 1 : place + i < size => NextBuffer[i] = place + i
         /\ Piece(place, N) \in Nat /\ place + Piece(place, N) <= size
         /\ NextBuffer \in Lines
         /\ IF Whole THEN place + N <= size /\ NextBuffer = Bytes(place) /\ Piece(place, N) = N
            ELSE size < place + N /\ place + Piece(place, N) = size
<1> USE DEF CutInv
<1>1. /\ order.how = how /\ phase = "loop" /\ Piece(place, N) > 0
      /\ order.skip \in Nat /\ order.save \in Nat /\ order.extra \in Nat
      /\ size \in Nat /\ place \in Nat /\ place <= size /\ N \in Nat /\ N >= 1
      /\ idx \in Nat /\ n_skipped \in Nat /\ n_written \in Nat
      /\ toSkip \in Nat /\ toWrite \in Nat
      /\ out \in Seq(Lines \cup Seq(Lines)) /\ Len(out) \in Nat
  BY InLoop, Asked DEF Loop, Reads, CutTypeOK
<1>2. /\ Piece(place, N) \in Nat /\ place + Piece(place, N) <= size /\ place < size
      /\ IF Whole THEN place + N <= size /\ Piece(place, N) = N
         ELSE size < place + N /\ place + Piece(place, N) = size
  BY <1>1 DEF Piece, Whole
<1>3. NextBuffer \in Lines /\ (Piece(place, N) = N => NextBuffer = Bytes(place))
  BY <1>1, BufferRead DEF NextBuffer, CutTypeOK
<1>4. \A i \in 0 .. N - 1 : place + i < size => NextBuffer[i] = place + i
  BY <1>1, BytesRead DEF NextBuffer, CutTypeOK
<1> QED BY <1>1, <1>2, <1>3, <1>4 DEF Whole

(* A buffer that is written is the next one. *)
LEMMA CutGoesOn ==
  ASSUME CutInv, NEW b \in Lines, out' = Append(out, b), UNCHANGED <<order, size, toSkip>>,
         \A i \in 0 .. N - 1 :
           CutStart + Written + i < size => b[i] = CutStart + Written + i
  PROVE  CutGoes' /\ out' \in Seq(Lines \cup Seq(Lines)) /\ Len(out') = Len(out) + 1
<1> DEFINE n == Len(out)
<1>1. /\ n \in Nat /\ out' \in Seq(Lines \cup Seq(Lines)) /\ Len(out') = n + 1
      /\ out'[n + 1] = b /\ \A k \in 1..n : out'[k] = out[k]
      /\ DOMAIN out = 1..n /\ DOMAIN out' = 1..(n + 1)
  <2>1. out \in Seq(Lines \cup Seq(Lines)) /\ b \in Lines \cup Seq(Lines)
    BY DEF CutInv, CutTypeOK
  <2> QED BY <2>1, AppendProperties
<1>2. CutStart' = CutStart /\ Cuts' = Cuts /\ size' = size
  BY DEF CutStart, Cuts
<1>3. CutGoes'
  <2> SUFFICES ASSUME Cuts, NEW k \in 1..(n + 1), NEW i \in 0 .. N - 1,
                      CutStart + (k - 1) * N + i < size
               PROVE out'[k][i] = CutStart + (k - 1) * N + i
    BY <1>1, <1>2 DEF CutGoes, From
  <2>1. CASE k \in 1..n
    BY <2>1, <1>1 DEF CutInv, CutGoes, From
  <2>2. CASE k \notin 1..n
    <3>1. k = n + 1 /\ k - 1 = n
      BY <1>1, <2>2
    <3> QED BY <3>1, <1>1 DEF Written
  <2> QED BY <2>1, <2>2
<1> QED BY <1>1, <1>3

LEMMA SpectraI == ASSUME CutInv, Spectra PROVE CutInv'
<1> USE DEF CutInv
<1>1. /\ Loop("spectra") /\ buffer' = NextBuffer /\ place' = place + Piece(place, N)
      /\ UNCHANGED <<order, size, toSkip, toWrite, taps, n_skipped>>
      /\ IF SkipsSpectrum THEN idx' = idx + 1 /\ UNCHANGED <<phase, n_written, out>>
         ELSE IF NoOutput THEN phase' = "crashed" /\ UNCHANGED <<idx, n_written, out>>
         ELSE /\ out' = Append(out, NextBuffer) /\ n_written' = n_written + 1
              /\ IF SpectraEnd(n_written + 1) THEN phase' = "finished" /\ idx' = idx
                 ELSE idx' = idx + 1 /\ phase' = phase
  BY DEF Spectra
<1>0. /\ order.how = "spectra" /\ phase = "loop"
      /\ order.skip \in Nat /\ order.save \in Nat /\ order.extra \in Nat
      /\ size \in Nat /\ place \in Nat /\ place < size /\ N \in Nat /\ N >= 1
      /\ idx \in Nat /\ n_written \in Nat /\ Len(out) \in Nat
      /\ place' \in Nat /\ place' <= size /\ NextBuffer \in Lines
      /\ \A i \in 0 .. N - 1 : place + i < size => NextBuffer[i] = place + i
      /\ IF Whole THEN place' = place + N /\ place + N <= size
         ELSE size < place + N /\ place' = size
  BY <1>1, CutReady
<1> DEFINE there == idx * N
<1>2. there \in Nat /\ (idx + 1) * N = there + N
  BY <1>0, Multiple
<1>3. /\ place = there /\ Len(out) = n_written /\ n_written <= order.save
      /\ n_written = IF idx < order.skip THEN 0 ELSE idx - order.skip
  BY <1>1, <1>0 DEF SpectraPlace
<1> DEFINE Writes == ~SkipsSpectrum /\ ~NoOutput
<1>5. Writes => CutGoes' /\ out' \in Seq(Lines \cup Seq(Lines)) /\ Len(out') = Len(out) + 1
  <2> SUFFICES ASSUME ~SkipsSpectrum, ~NoOutput
               PROVE CutGoes' /\ out' \in Seq(Lines \cup Seq(Lines)) /\ Len(out') = Len(out) + 1
    OBVIOUS
  <2>1. order.skip + Len(out) = idx
    BY <1>3, <1>0 DEF SkipsSpectrum
  <2>2. (order.skip + Len(out)) * N = order.skip * N + Len(out) * N
    BY <1>0
  <2>3. CutStart + Written = place
    BY <1>0, <1>3, <2>1, <2>2 DEF CutStart, Written
  <2> QED BY <1>1, <1>0, <2>3, CutGoesOn
<1>6. CutGoes'
  <2>1. CASE ~Writes
    BY <2>1, <1>1 DEF CutGoes, Cuts, From, CutStart
  <2> QED BY <2>1, <1>5
<1>7. CutTypeOK' /\ Within'
  <2>1. out' \in Seq(Lines \cup Seq(Lines)) /\ n_written' \in Nat /\ idx' \in Nat
        /\ phase' \in {"loop", "finished", "crashed"}
    BY <1>0, <1>1, <1>5 DEF CutTypeOK
  <2> QED BY <2>1, <1>0, <1>1 DEF CutTypeOK, Within, Reads
<1>8. SpectraPlace'
  <2> SUFFICES ASSUME phase' = "loop" PROVE SpectraPlace'
    BY DEF SpectraPlace
  <2>1. idx' = idx + 1
    BY <1>1
  <2>2. idx' * N = there + N
    BY <1>2, <2>1
  <2> HIDE DEF there
  <2>3. place' = IF size < there + N THEN size ELSE there + N
    BY <1>1, <1>2, <1>3, <1>0
  <2>4. there + N < size + N
    BY <1>1, <1>2, <1>3, <1>0
  <2>5. /\ Len(out') = n_written' /\ n_written' <= order.save
        /\ n_written' = IF idx + 1 < order.skip THEN 0 ELSE (idx + 1) - order.skip
    <3>1. CASE idx < order.skip
      BY <1>0, <1>1, <1>3, <3>1 DEF SkipsSpectrum
    <3>2. CASE ~(idx < order.skip)
      <4>1. /\ Len(out') = Len(out) + 1 /\ n_written' = n_written + 1
            /\ n_written = idx - order.skip /\ ~(n_written + 1 > order.save)
        BY <1>0, <1>1, <1>3, <1>5, <3>2 DEF SkipsSpectrum, SpectraEnd
      <4> QED BY <1>0, <1>3, <3>2, <4>1
    <3> QED BY <3>1, <3>2
  <2> QED BY <1>1, <2>1, <2>2, <2>3, <2>4, <2>5 DEF SpectraPlace
<1>9. CutEnds'
  <2> SUFFICES ASSUME phase' = "finished" PROVE CutEnds'
    BY DEF CutEnds
  <2>1. Len(out') = Len(out) + 1 /\ n_written + 1 > order.save
    BY <1>0, <1>1, <1>5 DEF SpectraEnd
  <2>2. order.save * N <= Len(out') * N
    BY <1>0, <1>3, <2>1, MultipleGrows
  <2>3. order.save * N \in Nat /\ Len(out') * N \in Nat
    BY <1>0, <2>1, Multiple
  <2>4. AskedLength' = order.save * N /\ Written' = Len(out') * N
    BY <1>0, <1>1 DEF AskedLength, Written
  <2> QED BY <1>0, <2>2, <2>3, <2>4 DEF CutEnds
<1>10. PfbPlace' /\ PfbTaps' /\ SecondsPlace' /\ Filtered' /\ Times'
  BY <1>1, <1>0 DEF PfbPlace, PfbTaps, SecondsPlace, Filtered, TapsFollow, AllSpectra, Times
<1> QED BY <1>6, <1>7, <1>8, <1>9, <1>10

-----------------------------------------------------------------------------
(* Where a call told seconds is when it has read a whole line. *)
LEMMA SecondsReady ==
  ASSUME CutInv, Loop("seconds")
  PROVE  /\ Len(out) = n_written /\ n_written <= toWrite
         /\ toSkip * N \in Nat /\ Written \in Nat /\ CutStart \in Nat
         /\ n_skipped <= toSkip => out = <<>> /\ Written = 0 /\ place = n_skipped * N
         /\ n_skipped > toSkip => place = CutStart + Written
         /\ CutStart = IF order.extra > 0 THEN toSkip * N + N + order.extra ELSE toSkip * N
<1> USE DEF CutInv
<1>1. /\ Len(out) = n_written /\ n_written <= toWrite
      /\ IF n_skipped <= toSkip THEN BuffersBehind(0, n_skipped) /\ out = <<>>
         ELSE BehindWritten
  BY CutReady DEF SecondsPlace
<1>2. toSkip * N \in Nat /\ Len(out) * N \in Nat /\ n_skipped * N \in Nat /\ 0 * N = 0
  <2>1. toSkip \in Nat /\ Len(out) \in Nat /\ n_skipped \in Nat /\ N \in Nat
    BY CutReady
  <2>2. 0 * N = 0
    BY <2>1
  <2> QED BY <2>1, <2>2, Multiple
<1>3. CutStart = IF order.extra > 0 THEN toSkip * N + N + order.extra ELSE toSkip * N
  BY CutReady DEF CutStart
<1>4. CutStart \in Nat
  <2>1. order.extra \in Nat /\ N \in Nat
    BY CutReady
  <2> QED BY <1>2, <1>3, <2>1
<1>5. ASSUME n_skipped <= toSkip PROVE place = n_skipped * N /\ Written = 0
  <2>1. BuffersBehind(0, n_skipped) /\ out = <<>>
    BY <1>1, <1>5
  <2>2. Written = 0
    BY <2>1, <1>2 DEF Written
  <2>3. place \in Nat /\ size \in Nat /\ place < size /\ N \in Nat /\ N >= 1
    BY CutReady
  <2>4. /\ 0 + n_skipped * N <= size
        /\ \/ place = 0 + n_skipped * N
           \/ place = size /\ size < (0 + n_skipped * N) + N
    BY <2>1 DEF BuffersBehind
  <2>5. place = n_skipped * N
    BY <1>2, <2>3, <2>4
  <2> QED BY <2>2, <2>5
<1>6. ASSUME n_skipped > toSkip PROVE place = CutStart + Written
  <2>1. BehindWritten
    <3>1. n_skipped \in Nat /\ toSkip \in Nat
      BY CutReady
    <3> QED BY <1>1, <1>6, <3>1
  <2>2. place < size /\ place \in Nat /\ size \in Nat
    BY CutReady
  <2> QED BY <2>1, <2>2 DEF BehindWritten
<1>7. Written \in Nat /\ (n_skipped <= toSkip => out = <<>>)
  BY <1>1, <1>2 DEF Written
<1> QED BY <1>1, <1>2, <1>3, <1>4, <1>5, <1>6, <1>7

LEMMA SecondsSkipI == ASSUME CutInv, SecondsSkip PROVE CutInv'
<1> USE DEF CutInv
<1>1. /\ Loop("seconds") /\ Whole /\ n_skipped < toSkip
      /\ buffer' = NextBuffer /\ place' = place + N /\ n_skipped' = n_skipped + 1
      /\ UNCHANGED <<order, size, toSkip, toWrite, phase, taps, idx, n_written, out>>
  BY DEF SecondsSkip
<1>2. CutTypeOK' /\ Within'
  BY <1>1, CutReady DEF CutTypeOK, Within, Reads
<1>3. SecondsPlace'
  <2>1. n_skipped \in Nat /\ toSkip \in Nat /\ size \in Nat /\ N \in Nat
        /\ place = n_skipped * N /\ place + N <= size /\ out = <<>>
    BY <1>1, CutReady, SecondsReady
  <2>2. (n_skipped + 1) * N = n_skipped * N + N /\ n_skipped * N \in Nat
    BY <2>1, Multiple
  <2>3. BuffersBehind(0, n_skipped)'
    BY <1>1, <2>1, <2>2 DEF BuffersBehind
  <2>4. n_skipped' <= toSkip'
    BY <1>1, <2>1
  <2> QED BY <1>1, <2>1, <2>3, <2>4, SecondsReady DEF SecondsPlace
<1>4. PfbPlace' /\ PfbTaps' /\ SpectraPlace' /\ Filtered' /\ Times' /\ CutEnds'
  BY <1>1, CutReady DEF PfbPlace, PfbTaps, SpectraPlace, Filtered, TapsFollow, AllSpectra,
     Times, CutEnds
<1>5. CutGoes'
  BY <1>1 DEF CutGoes, Cuts, From, CutStart
<1> QED BY <1>2, <1>3, <1>4, <1>5

(* The line behind the extra bytes: whatever of it is in the file. *)
LEMMA AfterExtraIn ==
  ASSUME CutInv, Loop("seconds"), Whole, n_skipped >= toSkip
  PROVE  LET next == CutStart + Written
         IN /\ AfterExtra.place \in Nat /\ AfterExtra.place <= size
            /\ AfterExtra.buffer \in Lines
            /\ \A i \in 0 .. N - 1 : next + i < size => AfterExtra.buffer[i] = next + i
            /\ \/ AfterExtra.place = next + N
               \/ AfterExtra.place = size /\ size < next + N
<1> DEFINE next == CutStart + Written
<1>1. /\ order.extra \in Nat /\ size \in Nat /\ place \in Nat /\ N \in Nat /\ N >= 1
      /\ place + N <= size /\ NextBuffer \in Lines
      /\ \A i \in 0 .. N - 1 : place + i < size => NextBuffer[i] = place + i
      /\ n_skipped \in Nat /\ toSkip \in Nat
  BY CutReady
<1>2. CASE AtFirstLine /\ order.extra > 0
  <2> DEFINE p == place + N
             q == p + Piece(p, order.extra)
  <2>1. p \in Nat /\ p <= size
    BY <1>1
  <2>2. next = p + order.extra
    <3>1. n_skipped <= toSkip /\ n_skipped = toSkip
      BY <1>1, <1>2 DEF AtFirstLine
    <3> QED BY <1>1, <1>2, <3>1, SecondsReady
  <2>3. q \in Nat /\ q <= size /\ (q = next \/ (q = size /\ size < next))
    <3> HIDE DEF p, next
    <3> QED BY <1>1, <2>1, <2>2 DEF Piece
  <2>4. Loaded(NextBuffer, p, order.extra) \in Lines
    BY <1>1, <2>1, BufferRead
  <2> DEFINE b == Loaded(Loaded(NextBuffer, p, order.extra), q, N)
  <2>5. AfterExtra.place = q + Piece(q, N) /\ AfterExtra.buffer = b
    BY <1>2 DEF AfterExtra
  <2>6. b \in Lines /\ \A i \in 0 .. N - 1 : q + i < size => b[i] = q + i
    <3> HIDE DEF p, q
    <3> QED BY <1>1, <2>3, <2>4, BufferRead, BytesRead
  <2>7. q + Piece(q, N) \in Nat /\ q + Piece(q, N) <= size
        /\ (q + Piece(q, N) = q + N \/ (q + Piece(q, N) = size /\ size < q + N))
    <3> HIDE DEF q
    <3> QED BY <1>1, <2>3 DEF Piece
  <2>8. next \in Nat
    BY <1>1, <2>1, <2>2
  <2> HIDE DEF p, q, b, next
  <2>9. CASE q = next
    BY <1>1, <2>5, <2>6, <2>7, <2>9 DEF next
  <2>10. CASE q = size /\ size < next
    <3>1. AfterExtra.place = size /\ size < next + N
      BY <1>1, <2>5, <2>7, <2>8, <2>10
    <3>2. \A i \in 0 .. N - 1 : ~(next + i < size)
      BY <1>1, <2>8, <2>10
    <3> QED BY <1>1, <2>5, <2>6, <3>1, <3>2 DEF next
  <2> QED BY <2>3, <2>9, <2>10
<1>3. CASE ~(AtFirstLine /\ order.extra > 0)
  <2>1. place = next
    <3>1. CASE n_skipped > toSkip
      BY <3>1, SecondsReady
    <3>2. CASE n_skipped = toSkip
      BY <1>1, <1>3, <3>2, SecondsReady DEF AtFirstLine
    <3> QED BY <1>1, <3>1, <3>2
  <2>2. AfterExtra.place = place + N /\ AfterExtra.buffer = NextBuffer
    BY <1>3 DEF AfterExtra
  <2> HIDE DEF next
  <2> QED BY <1>1, <2>1, <2>2 DEF next
<1> QED BY <1>2, <1>3

LEMMA SecondsWriteI == ASSUME CutInv, SecondsWrite PROVE CutInv'
<1> USE DEF CutInv
<1> DEFINE Writes == n_written < toWrite /\ ~NoOutput
           next == CutStart + Written
<1>1. /\ Loop("seconds") /\ Whole /\ n_skipped >= toSkip
      /\ place' = AfterExtra.place /\ buffer' = AfterExtra.buffer
      /\ n_skipped' = IF n_skipped = toSkip THEN n_skipped + 1 ELSE n_skipped
      /\ IF Writes
         THEN out' = Append(out, AfterExtra.buffer) /\ n_written' = n_written + 1 /\ phase' = phase
         ELSE /\ phase' = (IF NoOutput THEN "crashed" ELSE "finished")
              /\ UNCHANGED <<out, n_written>>
      /\ UNCHANGED <<order, size, toSkip, toWrite, taps, idx>>
  BY DEF SecondsWrite, AtFirstLine
<1>2. /\ place' \in Nat /\ place' <= size /\ buffer' \in Lines
      /\ \A i \in 0 .. N - 1 : next + i < size => AfterExtra.buffer[i] = next + i
      /\ (place' = next + N \/ (place' = size /\ size < next + N))
  BY <1>1, AfterExtraIn
<1>3. /\ order.how = "seconds" /\ phase = "loop" /\ order.skip \in Nat /\ order.save \in Nat
      /\ n_skipped \in Nat /\ n_written \in Nat /\ Len(out) \in Nat
      /\ toSkip \in Nat /\ toWrite \in Nat /\ N \in Nat /\ size \in Nat
  BY <1>1, CutReady
<1>4. /\ Len(out) = n_written /\ n_written <= toWrite /\ Written \in Nat /\ CutStart \in Nat
  BY <1>1, SecondsReady
<1>5. Writes => CutGoes' /\ out' \in Seq(Lines \cup Seq(Lines)) /\ Len(out') = Len(out) + 1
  <2> SUFFICES ASSUME Writes
               PROVE CutGoes' /\ out' \in Seq(Lines \cup Seq(Lines)) /\ Len(out') = Len(out) + 1
    OBVIOUS
  <2> QED BY <1>1, <1>2, CutGoesOn
<1>6. CutGoes' /\ out' \in Seq(Lines \cup Seq(Lines))
  <2>1. CASE ~Writes
    BY <2>1, <1>1 DEF CutGoes, Cuts, From, CutStart, CutTypeOK
  <2> QED BY <2>1, <1>5
<1>7. CutTypeOK' /\ Within'
  BY <1>1, <1>2, <1>3, <1>6 DEF CutTypeOK, Within, Reads
<1>8. SecondsPlace'
  <2> SUFFICES ASSUME phase' = "loop" PROVE SecondsPlace'
    BY <1>1 DEF SecondsPlace
  <2>1. /\ Writes /\ Len(out') = Len(out) + 1 /\ n_written' = n_written + 1
        /\ n_skipped' > toSkip'
    BY <1>1, <1>3, <1>5
  <2>2. CutStart' = CutStart /\ Written' = Written + N
    <3>1. (Len(out) + 1) * N = Len(out) * N + N
      BY <1>3
    <3> QED BY <1>1, <2>1, <3>1 DEF CutStart, Written
  <2>3. BehindWritten'
    <3>1. CutStart' + Written' = next + N
      BY <1>3, <1>4, <2>2
    <3> HIDE DEF next
    <3>2. next \in Nat
      BY <1>4 DEF next
    <3> QED BY <1>1, <1>2, <1>3, <3>1, <3>2 DEF BehindWritten
  <2> QED BY <1>1, <1>3, <1>4, <2>1, <2>3 DEF SecondsPlace
<1>9. CutEnds'
  <2> SUFFICES ASSUME phase' = "finished" PROVE CutEnds'
    BY DEF CutEnds
  <2>1. ~Writes /\ ~NoOutput
    BY <1>1, <1>3
  <2>2. Len(out) = toWrite /\ out' = out
    BY <1>1, <1>3, <1>4, <2>1
  <2>3. toWrite \in LinesIn(order.save)
    BY <1>3 DEF Times
  <2>4. order.save <= (toWrite + 1) * N
    BY <2>3 DEF LinesIn
  <2>5. (toWrite + 1) * N = toWrite * N + N
    BY <1>3
  <2>6. AskedLength' = order.save /\ Written' = toWrite * N
    BY <1>1, <1>3, <2>2 DEF AskedLength, Written
  <2> QED BY <2>4, <2>5, <2>6 DEF CutEnds
<1>10. PfbPlace' /\ PfbTaps' /\ SpectraPlace' /\ Filtered'
  BY <1>1, <1>3 DEF PfbPlace, PfbTaps, SpectraPlace, Filtered, TapsFollow, AllSpectra
<1>11. Times'
  BY <1>1, <1>3 DEF Times, LinesIn
<1> QED BY <1>6, <1>7, <1>8, <1>9, <1>10, <1>11

LEMMA SecondsPartI == ASSUME CutInv, SecondsPart PROVE CutInv'
<1> USE DEF CutInv
<1>1. /\ Loop("seconds") /\ ~Whole /\ buffer' = NextBuffer /\ place' = size
      /\ UNCHANGED <<order, size, toSkip, toWrite, phase, taps, idx, n_skipped, n_written, out>>
  BY DEF SecondsPart
<1>2. CutTypeOK' /\ Within'
  BY <1>1, CutReady DEF CutTypeOK, Within, Reads
<1>3. SecondsPlace'
  <2>0. /\ n_skipped \in Nat /\ toSkip \in Nat /\ size \in Nat /\ N \in Nat /\ place \in Nat
        /\ size < place + N /\ place < size
    BY <1>1, CutReady
  <2>1. CASE n_skipped <= toSkip
    <3>1. place = n_skipped * N /\ out = <<>> /\ n_skipped * N \in Nat
      BY <1>1, <2>0, <2>1, SecondsReady, Multiple
    <3>2. BuffersBehind(0, n_skipped)'
      BY <1>1, <2>0, <3>1 DEF BuffersBehind
    <3> QED BY <1>1, <2>1, <3>1, <3>2, SecondsReady DEF SecondsPlace
  <2>2. CASE ~(n_skipped <= toSkip)
    <3>1. place = CutStart + Written /\ CutStart \in Nat /\ Written \in Nat
      BY <1>1, <2>0, <2>2, SecondsReady
    <3>2. CutStart' = CutStart /\ Written' = Written
      BY <1>1 DEF CutStart, Written
    <3>3. BehindWritten'
      BY <1>1, <2>0, <3>1, <3>2 DEF BehindWritten
    <3> QED BY <1>1, <2>2, <3>3, SecondsReady DEF SecondsPlace
  <2> QED BY <2>1, <2>2
<1>4. PfbPlace' /\ PfbTaps' /\ SpectraPlace' /\ Filtered' /\ Times' /\ CutEnds'
  BY <1>1, CutReady DEF PfbPlace, PfbTaps, SpectraPlace, Filtered, TapsFollow, AllSpectra,
     Times, CutEnds
<1>5. CutGoes'
  BY <1>1 DEF CutGoes, Cuts, From, CutStart
<1> QED BY <1>2, <1>3, <1>4, <1>5

-----------------------------------------------------------------------------
LEMMA CutNextI == CutInv /\ [CutNext]_cutVars => CutInv'
<1> SUFFICES ASSUME CutInv, [CutNext]_cutVars PROVE CutInv'
  OBVIOUS
<1>1. CASE UNCHANGED cutVars
  <2>1. UNCHANGED <<order, size, phase, toSkip, toWrite, place, buffer, taps, idx, n_skipped, n_written, out>>
    BY <1>1 DEF cutVars
  <2>2. CutTypeOK' /\ Within' /\ SpectraPlace' /\ Times' /\ AllSpectra'
    BY <2>1 DEF CutInv, CutTypeOK, Within, Reads, SpectraPlace, Times, LinesIn, Filtered, AllSpectra, Piece
  <2>3. PfbPlace' /\ PfbTaps' /\ TapsFollow'
    BY <2>1 DEF CutInv, PfbPlace, PfbTaps, Filtered, TapsFollow, Reads, BuffersBehind, Piece, TapsFilled, Nth, Bytes
  <2>4. SecondsPlace' /\ CutGoes' /\ CutEnds'
    BY <2>1 DEF CutInv, SecondsPlace, BuffersBehind, BehindWritten, CutStart, Written, CutGoes, Cuts, From,
       CutEnds, AskedLength
  <2> QED BY <2>2, <2>3, <2>4 DEF CutInv, Filtered
<1>2. CASE CutDone
  BY <1>1, <1>2 DEF CutDone
<1> QED BY <1>1, <1>2, OpenI, NoFileI, CutEndOfFileI, PfbFillsI, PfbSpectrumI, PfbPartI,
           SpectraI, SecondsSkipI, SecondsWriteI, SecondsPartI DEF CutNext

(* The invariant holds in every state of the functions. *)
THEOREM CutInvariant == CutSpec => []CutInv
BY CutInitI, CutNextI, PTL DEF CutSpec

(* Every spectrum of filePFB is made of n_taps consecutive buffers, the     *)
(* next one of the same moved on by one, and none is missing at the end.    *)
THEOREM FilteredWhole == CutSpec => []Filtered
<1>1. CutInv => Filtered
  BY DEF CutInv
<1> QED BY <1>1, CutInvariant, PTL

(* The pieces that are cut begin within a line of where they were asked     *)
(* for, have every byte of the file from there on and, if the file has it,  *)
(* as much as was asked for but for less than two lines.                    *)
THEOREM CutRight == CutSpec => []CutAsAsked
<1>1. CutInv => CutAsAsked
  <2> SUFFICES ASSUME CutInv, Cuts PROVE CutAsAsked
    BY DEF CutAsAsked
  <2>1. /\ order.how \in {"spectra", "seconds"} /\ order.skip \in Nat /\ order.extra \in Nat
        /\ order.extra <= N /\ (order.how = "spectra" => order.extra = 0)
        /\ N \in Nat /\ toSkip \in Nat /\ order.skip * N \in Nat /\ toSkip * N \in Nat
        /\ Len(out) * N \in Nat
    BY Asked, Multiple, VoltageCutAssumption DEF CutInv, CutTypeOK, Cuts
  <2>2. CASE phase \in {"loop", "finished", "crashed"}
    <3>1. CutStart \in Starts
      <4>1. CASE order.how = "spectra"
        BY <2>1, <4>1 DEF CutStart, AskedStart, Starts
      <4>2. CASE order.how = "seconds"
        <5>1. toSkip * N <= order.skip /\ order.skip <= (toSkip + 1) * N
          BY <2>2, <4>2 DEF CutInv, Times, LinesIn
        <5>2. (toSkip + 1) * N = toSkip * N + N
          BY <2>1
        <5> QED BY <2>1, <4>2, <5>1, <5>2 DEF CutStart, AskedStart, Starts
      <4> QED BY <2>1, <4>1, <4>2
    <3> QED BY <3>1 DEF CutInv, CutGoes, CutEnds, CutAsAsked
  <2>3. CASE phase \notin {"loop", "finished", "crashed"}
    <3>1. out = <<>> /\ phase # "finished"
      BY <2>3 DEF CutInv, CutTypeOK, Within
    <3>2. AskedStart \in Starts
      BY <2>1 DEF AskedStart, Starts
    <3> QED BY <3>1, <3>2 DEF CutAsAsked, From
  <2> QED BY <2>2, <2>3
<1> QED BY <1>1, CutInvariant, PTL
=============================================================================
