-------------------------- MODULE TotalPowerProofs --------------------------
(***************************************************************************)
(* Theorems about the program that is started again and again on a list of *)
(* files that grows (TotalPower), for any number of files, of what is left *)
(* out of them and of what goes wrong: the stamp does not go back, the     *)
(* rows of all runs follow each other, and no file is lost while nothing   *)
(* goes wrong.                                                             *)
(***************************************************************************)
EXTENDS TotalPower, SequenceTheorems, FunctionTheorems, FiniteSetTheorems, TLAPS

Rows == [file : Nat, int : Nat, t : Int, after : SUBSET Faults]

InOrder(s) == \A j, k \in DOMAIN s : j < k => Follows(s[j], s[k])

(* The names of files: one that is part of another is that of an earlier   *)
(* file, or there is none.                                                 *)
GrowingNames == \A p, f \in Files : <<p, f>> \in Within => p <= f
OwnNames == \A p, f \in Files : <<p, f>> \in Within => p = f

-----------------------------------------------------------------------------
(* The list of a run is Base + 1 .. ListEnd, and it has come to Come. *)
Base == fits_list[1] - 1
Come == Base + i
ListEnd == Base + Len(fits_list)

Reading == pc \in {"loop", "stamp"}

TypeOK ==
  /\ ask \in Asks
  /\ low \in Nat /\ high \in Nat /\ stamp \in Nat /\ low <= high /\ stamp <= high
  /\ high <= NFiles /\ ask.processed <= high /\ bad \in SUBSET Files
  /\ disk \in Seq(Rows) /\ power \in Seq(Rows) /\ buf \in Seq(Rows)
  /\ pc \in {"idle", "loop", "stamp", "report", "close"}
  /\ i \in Nat /\ last \in Nat /\ last <= high /\ ended \in BOOLEAN
  /\ stampCut \in BOOLEAN /\ lastCut \in BOOLEAN /\ faults \in SUBSET Faults

(* The list is a window of the files. *)
Listing ==
  pc # "idle" =>
    /\ fits_list[1] \in Nat \ {0} /\ Len(fits_list) \in Nat \ {0}
    /\ \A k \in 1 .. Len(fits_list) : fits_list[k] = Base + k
    /\ Base <= low /\ ListEnd <= high

(* The run is on it, and what it passed over is behind it. *)
Placed ==
  Reading =>
    /\ i <= Len(fits_list) /\ (pc = "stamp" => i = Len(fits_list))
    /\ passed \subseteq Base + 1 .. Come
    /\ lastCut => stampCut

(* What the run names as the last file, and what the stamp does: a file that *)
(* was read, not behind the end of the list and, once the run has come past  *)
(* the stamp, not before it.                                                 *)
Behind ==
  ask.processed = None =>
    /\ low <= stamp /\ stamp \notin bad
    /\ pc # "idle" => stamp <= ListEnd
    /\ Reading =>
         /\ last <= ListEnd /\ last \notin passed /\ last \notin bad
         /\ last = None \/ last > Base \/ last = stamp
         /\ stamp \in Base + 1 .. Come => stamp <= last

(* A stamp is cut short by a disk that is full. *)
CutShort == stampCut => "short" \in faults

Going == TypeOK /\ Listing /\ Placed /\ Behind /\ CutShort

-----------------------------------------------------------------------------
(* The rows there are, on the disk and on their way to it. *)
Held == IF pc \in {"loop", "stamp", "report"} THEN power ELSE <<>>
Kept == disk \o (buf \o Held)

NoneLeft == (pc = "idle" => buf = <<>>) /\ (ask.now => power = <<>>)

(* A row no later run will write again: nothing went wrong behind it that    *)
(* has the program read files again.                                         *)
Current(r) == ask.append => faults \cap Repeats \subseteq r.after

UpTo(s, n) == \A r \in Range(s) : Current(r) => r.file <= n

(* Up to which file the rows are there, as the run has it and as the stamp   *)
(* has it: a name that is not whole says nothing.                            *)
LastBound == IF lastCut \/ last > Come THEN 0 ELSE last
StampBound == IF stampCut THEN 0 ELSE stamp

Ordered ==
  (ask.append => Appends) =>
    /\ \A r \in Range(Kept) : r.after \subseteq faults
    /\ InOrder(Kept)
    /\ Reading => UpTo(Kept, LastBound)
    /\ ask.append => /\ ~Reading => UpTo(Kept, StampBound)
                     /\ ~ask.now => UpTo(disk \o buf, StampBound)

(* In the output of one run every row has the time of its integration. *)
Timed ==
  ~ask.append =>
    \A r \in Range(Kept) :
      /\ fits_list[1] \in Nat /\ r.int \in Accepted(r.file)
      /\ r.t = Seconds(r.file, r.int)

Following == NoneLeft /\ Ordered /\ Timed

-----------------------------------------------------------------------------
Has(f) == \A y \in Accepted(f) : \E r \in Range(Kept) : r.file = f /\ r.int = y

Unharmed == (Appends /\ faults = {}) \/ (Rewrites /\ "rows" \notin faults)

(* What a program that begins anew could not read was passed over before. *)
PassedBefore ==
  ~ask.fromLast /\ ask.processed = None =>
    /\ \A f \in 1 .. stamp : f \in bad => f \in skipped
    /\ Reading => /\ \A f \in passed : f <= stamp => f \in skipped
                  /\ \A f \in Base + 1 .. Come : f \in bad => f \in passed

AllRead ==
  Unharmed =>
    /\ Reading => \A f \in Base + 1 .. Come :
         f \in passed \/ Has(f) \/ (ask.fromLast /\ f <= stamp)
    /\ Appends => \A f \in 1 .. stamp : f \in skipped \/ Has(f)
    /\ Rewrites /\ (pc \in {"report", "close"} \/ (pc = "idle" /\ ended)) =>
         \A f \in low + 1 .. stamp : f \in skipped \/ Has(f)

-----------------------------------------------------------------------------
(* What there is of a file. *)
LEMMA AcceptedFinite ==
  ASSUME ask \in Options, NEW f
  PROVE  /\ IsFiniteSet(Accepted(f)) /\ Accepted(f) \subseteq Nat
         /\ Cardinality(Accepted(f)) \in Nat
<1>1. EndY \in Nat /\ ask.minY \in Nat
  BY TotalPowerAssumption DEF Options, EndY
<1>2. IsFiniteSet(ask.minY .. EndY - 1)
  BY <1>1, FS_Interval
<1>3. Accepted(f) \subseteq ask.minY .. EndY - 1
  BY DEF Accepted
<1>4. IsFiniteSet(Accepted(f))
  BY <1>2, <1>3, FS_Subset
<1>5. Accepted(f) \subseteq Nat
  BY <1>1, <1>3
<1> QED BY <1>4, <1>5, FS_CardinalityType

(* A later integration has more before it, and none has all. *)
LEMMA RankGrows ==
  ASSUME ask \in Options, NEW f, NEW y \in Accepted(f)
  PROVE  /\ Rank(f, y) \in 0 .. Cardinality(Accepted(f)) - 1
         /\ \A x \in Accepted(f) : x < y => Rank(f, x) < Rank(f, y)
<1> DEFINE A == Accepted(f)
           Below(x) == {z \in A : z < x}
<1>1. IsFiniteSet(A) /\ A \subseteq Nat /\ Cardinality(A) \in Nat
  BY AcceptedFinite
<1>2. \A x : Rank(f, x) = Cardinality(Below(x))
  BY DEF Rank
<1> HIDE DEF A
<1>3. \A x : IsFiniteSet(Below(x)) /\ Cardinality(Below(x)) \in Nat
  <2> SUFFICES ASSUME NEW x PROVE IsFiniteSet(Below(x)) /\ Cardinality(Below(x)) \in Nat
    OBVIOUS
  <2>1. IsFiniteSet(Below(x))
    BY <1>1, FS_Subset
  <2> QED BY <2>1, FS_CardinalityType
<1>4. y \in A /\ y \notin Below(y) /\ Below(y) \subseteq A
  BY <1>1 DEF A
<1>5. Cardinality(Below(y)) < Cardinality(A)
  <2>1. Below(y) # A
    BY <1>4
  <2>2. Cardinality(Below(y)) <= Cardinality(A) /\ (Cardinality(A) = Cardinality(Below(y)) => Below(y) = A)
    BY <1>1, <1>4, FS_Subset
  <2> QED BY <1>1, <1>3, <2>1, <2>2
<1>6. ASSUME NEW x \in A, x < y PROVE Cardinality(Below(x)) < Cardinality(Below(y))
  <2>1. x \in Below(y) /\ x \notin Below(x)
    BY <1>1, <1>6
  <2>2. Below(x) \subseteq Below(y)
    <3>1. \A z \in A : z < x => z < y
      BY <1>1, <1>4, <1>6
    <3> QED BY <3>1
  <2> HIDE DEF Below
  <2>3. Cardinality(Below(x)) <= Cardinality(Below(y))
        /\ (Cardinality(Below(y)) = Cardinality(Below(x)) => Below(x) = Below(y))
    BY <1>3, <2>2, FS_Subset
  <2> QED BY <1>3, <2>1, <2>3
<1> HIDE DEF Below
<1>7. \A x \in A : x < y => Rank(f, x) < Rank(f, y)
  BY <1>2, <1>6
<1>8. Rank(f, y) \in 0 .. Cardinality(A) - 1
  BY <1>1, <1>2, <1>3, <1>5
<1> QED BY <1>7, <1>8 DEF A

LEMMA RankOnce ==
  ASSUME ask \in Options, NEW f, NEW x \in Accepted(f), NEW y \in Accepted(f),
         Rank(f, x) = Rank(f, y)
  PROVE  x = y
<1>1. x \in Nat /\ y \in Nat
  BY AcceptedFinite
<1>2. Rank(f, x) \in Nat /\ Rank(f, y) \in Nat
  BY RankGrows, AcceptedFinite
<1>3. ~(x < y) /\ ~(y < x)
  BY <1>2, RankGrows
<1> QED BY <1>1, <1>3

(* Every place up to the number of integrations is that of one of them. *)
LEMMA RankAll ==
  ASSUME ask \in Options, NEW f, NEW k \in 1 .. Cardinality(Accepted(f))
  PROVE  \E y \in Accepted(f) : Rank(f, y) = k - 1
<1> DEFINE A == Accepted(f)
           n == Cardinality(A)
           T == 0 .. n - 1
           g == [y \in A |-> Rank(f, y)]
<1>1. IsFiniteSet(A) /\ n \in Nat
  BY AcceptedFinite
<1>2. IsFiniteSet(T) /\ Cardinality(T) = n
  <2> HIDE DEF n
  <2>1. 0 \in Int /\ n - 1 \in Int /\ (n = 0 => 0 > n - 1) /\ (n # 0 => ~(0 > n - 1))
    BY <1>1
  <2> QED BY <1>1, <2>1, FS_Interval
<1>3. g \in [A -> T]
  BY RankGrows
<1>4. g \in Injection(A, T)
  <2>1. \A x, y \in A : g[x] = g[y] => x = y
    BY RankOnce
  <2> QED BY <1>3, <2>1 DEF Injection, IsInjective
<1>5. g \in Surjection(A, T)
  <2> HIDE DEF A, n, T, g
  <2> QED BY <1>2, <1>4, FS_Injection DEF n
<1>6. k - 1 \in T
  BY <1>1
<1>7. \E y \in A : g[y] = k - 1
  BY <1>5, <1>6 DEF Surjection
<1> QED BY <1>7

(* The rows of a file: each integration once, in order. *)
LEMMA RowsOfFile ==
  ASSUME ask \in Options, NEW f \in Nat, fits_list[1] \in Nat, faults \in SUBSET Faults
  PROVE  /\ RowsOf(f) \in Seq(Rows) /\ InOrder(RowsOf(f))
         /\ \A k \in DOMAIN RowsOf(f) :
              \E y \in Accepted(f) : RowsOf(f)[k] = RowAt(f, y)
         /\ \A y \in Accepted(f) : \E k \in DOMAIN RowsOf(f) : RowsOf(f)[k] = RowAt(f, y)
<1> DEFINE n == Cardinality(Accepted(f))
           Nth(k) == CHOOSE y \in Accepted(f) : Rank(f, y) = k - 1
           rows == RowsOf(f)
<1>1. n \in Nat /\ Accepted(f) \subseteq Nat
  BY AcceptedFinite
<1>2. \A k \in 1 .. n : Nth(k) \in Accepted(f) /\ Rank(f, Nth(k)) = k - 1
  BY RankAll
<1>3. rows = [k \in 1 .. n |-> RowAt(f, Nth(k))]
  BY DEF RowsOf
<1> HIDE DEF n, Nth, rows
<1>4. \A y \in Accepted(f) : RowAt(f, y) \in Rows /\ RowAt(f, y).file = f /\ RowAt(f, y).int = y
  <2> SUFFICES ASSUME NEW y \in Accepted(f)
               PROVE  RowAt(f, y) \in Rows /\ RowAt(f, y).file = f /\ RowAt(f, y).int = y
    OBVIOUS
  <2>1. Gap \in Nat /\ Rank(f, y) \in Nat
    BY <1>1, RankGrows, TotalPowerAssumption DEF n
  <2>2. Time(f, 0) \in Nat /\ Time(fits_list[1], 0) \in Nat
    BY <2>1 DEF Time
  <2>3. Seconds(f, y) \in Int
    <3>1. \A a, b, c \in Nat : a - b + c \in Int
      OBVIOUS
    <3> QED BY <2>1, <2>2, <3>1 DEF Seconds
  <2>4. y \in Nat
    BY <1>1
  <2> QED BY <2>3, <2>4 DEF RowAt, Rows
<1>5. DOMAIN rows = 1 .. n /\ \A k \in 1 .. n : rows[k] = RowAt(f, Nth(k))
  BY <1>3
<1>6. rows \in Seq(Rows)
  <2>1. \A k \in 1 .. n : RowAt(f, Nth(k)) \in Rows
    BY <1>2, <1>4
  <2> QED BY <1>1, <1>3, <2>1
<1>7. InOrder(rows)
  <2> SUFFICES ASSUME NEW j \in 1 .. n, NEW k \in 1 .. n, j < k
               PROVE  Follows(rows[j], rows[k])
    BY <1>5 DEF InOrder
  <2>1. Nth(j) \in Accepted(f) /\ Nth(k) \in Accepted(f) /\ Nth(j) \in Nat /\ Nth(k) \in Nat
    BY <1>1, <1>2
  <2>2. Rank(f, Nth(j)) = j - 1 /\ Rank(f, Nth(k)) = k - 1
    BY <1>2
  <2>3. Nth(j) # Nth(k)
    BY <1>1, <2>2
  <2>4. ~(Nth(k) < Nth(j))
    BY <1>1, <2>1, <2>2, RankGrows
  <2>5. Nth(j) < Nth(k)
    BY <2>1, <2>3, <2>4
  <2> QED BY <1>4, <1>5, <2>1, <2>5 DEF Follows, Less
<1>8. ASSUME NEW y \in Accepted(f) PROVE \E k \in 1 .. n : rows[k] = RowAt(f, y)
  <2>1. Rank(f, y) \in Nat /\ Rank(f, y) + 1 \in 1 .. n
    BY <1>1, RankGrows DEF n
  <2>2. PICK k \in 1 .. n : k = Rank(f, y) + 1
    BY <2>1
  <2>3. Rank(f, Nth(k)) = Rank(f, y) /\ Nth(k) \in Accepted(f)
    BY <1>1, <1>2, <2>1, <2>2
  <2>4. Nth(k) = y
    BY <2>3, RankOnce
  <2> QED BY <1>5, <2>4
<1> QED BY <1>2, <1>5, <1>6, <1>7, <1>8 DEF rows

-----------------------------------------------------------------------------
LEMMA Smallest ==
  ASSUME NEW S \in SUBSET Nat, S # {}
  PROVE  \E n \in S : \A m \in S : n <= m
<1>1. PICK n \in S : \A m \in S : <<m, n>> \notin OpToRel(<, Nat)
  BY NatLessThanWellFounded, WFMin
<1>2. ASSUME NEW m \in S PROVE ~(m < n)
  BY <1>1 DEF OpToRel
<1> QED
  BY <1>2

(* Where a run starts: behind the file it goes on from, when that is on the *)
(* list and its name is whole and found in later ones only; where names are *)
(* own, nowhere else but at the start.                                      *)
LEMMA Starts ==
  ASSUME low \in Nat, high \in Nat, low < high, high <= NFiles,
         NEW p \in 0 .. high, NEW cut \in BOOLEAN
  PROVE  /\ StartAt(Listed, p, cut) \in 0 .. high - low
         /\ ~ask.fromLast => StartAt(Listed, p, cut) = 0
         /\ GrowingNames /\ ask.fromLast /\ ~cut /\ p # None
              => p <= low + StartAt(Listed, p, cut)
         /\ OwnNames /\ ~cut => \/ StartAt(Listed, p, cut) = 0
                               \/ low + StartAt(Listed, p, cut) = p
<1> DEFINE n == high - low
           F == Found(Listed, p, cut)
           W == IF cut THEN CutWithin ELSE Within
<1>1. n \in Nat \ {0} /\ Len(Listed) = n /\ \A k \in 1 .. n : Listed[k] = low + k
  BY DEF Listed
<1>2. F = {k \in 1 .. n : <<p, low + k>> \in W}
  BY <1>1 DEF Found
<1>3. CASE ~ask.fromLast \/ p = None \/ F = {}
  <2>1. StartAt(Listed, p, cut) = 0
    BY <1>3 DEF StartAt
  <2>2. ask.fromLast /\ ~cut /\ p # None => p <= low
    <3> SUFFICES ASSUME ask.fromLast, ~cut, p # None, p > low PROVE FALSE
      OBVIOUS
    <3>1. p - low \in 1 .. n /\ low + (p - low) = p /\ p \in Files
      BY TotalPowerAssumption DEF Files, None
    <3>2. <<p, p>> \in Within
      BY <3>1, TotalPowerAssumption
    <3> QED BY <1>2, <1>3, <3>1, <3>2
  <2> QED BY <1>1, <2>1, <2>2
<1>4. CASE ask.fromLast /\ p # None /\ F # {}
  <2>1. F \subseteq 1 .. n /\ F \subseteq Nat
    BY <1>2
  <2>2. PICK k \in F : \A j \in F : k <= j
    BY <1>4, <2>1, Smallest
  <2>3. StartAt(Listed, p, cut) \in F
    BY <1>4, <2>2 DEF StartAt
  <2>4. PICK m : m = StartAt(Listed, p, cut)
    OBVIOUS
  <2>5. m \in 1 .. n /\ <<p, low + m>> \in W
    BY <1>2, <2>3, <2>4
  <2>6. p \in Files /\ low + m \in Files
    BY <1>1, <1>4, <2>5, TotalPowerAssumption DEF Files, None
  <2>7. GrowingNames /\ ~cut => p <= low + m
    BY <2>5, <2>6 DEF GrowingNames
  <2>8. OwnNames /\ ~cut => low + m = p
    BY <2>5, <2>6 DEF OwnNames
  <2> QED BY <1>4, <2>4, <2>5, <2>7, <2>8
<1> QED BY <1>3, <1>4

-----------------------------------------------------------------------------
LEMMA InitGoing ==
  ASSUME Init
  PROVE  Going
<1>1. <<>> \in Seq(Rows)
  OBVIOUS
<1>2. ask \in Asks /\ ask.processed \in Nat /\ ask.processed <= NFiles
  BY TotalPowerAssumption DEF Init, Options, Files, None
<1>3. /\ high \in Nat /\ high <= NFiles /\ 0 <= high /\ ask.processed <= high
      /\ 0 \notin bad /\ bad \in SUBSET Files
  BY <1>2, TotalPowerAssumption DEF Init, Files
<1>4. /\ low = 0 /\ stamp = 0 /\ pc = "idle" /\ i = 0 /\ last = 0
      /\ disk = <<>> /\ power = <<>> /\ buf = <<>>
      /\ ended = FALSE /\ stampCut = FALSE /\ lastCut = FALSE /\ faults = {}
  BY DEF Init, None
<1>5. TypeOK
  BY <1>1, <1>2, <1>3, <1>4 DEF TypeOK
<1> QED BY <1>3, <1>4, <1>5 DEF Going, Listing, Placed, Behind, Reading, CutShort, None

(* The world around the program: the list a run has read stays as it is. *)
LEMMA WorldGoing ==
  ASSUME Going, Record \/ Complete \/ Archive
  PROVE  Going'
<1>1. UNCHANGED <<ask, stamp, stampCut, disk, run, ended, faults>>
  BY DEF Record, Complete, Archive
<1>2. UNCHANGED <<ask, stamp, stampCut, disk, pc, fits_list, i, last, lastCut, power, buf,
                  passed, ended, faults>>
  BY <1>1 DEF run
<1>3. /\ low' \in Nat /\ high' \in Nat /\ low <= low' /\ high <= high'
      /\ low' <= high' /\ stamp <= high' /\ last <= high' /\ ask.processed <= high'
      /\ high' <= NFiles /\ bad' \subseteq bad
      /\ low <= stamp => low' <= stamp
  <2>1. /\ low \in Nat /\ high \in Nat /\ stamp \in Nat /\ low <= high /\ stamp <= high
        /\ high <= NFiles /\ NFiles \in Nat /\ last \in Nat /\ last <= high
        /\ ask.processed \in Nat /\ ask.processed <= high
    BY TotalPowerAssumption DEF Going, TypeOK, Options, Files, None
  <2>2. CASE Record
    BY <2>1, <2>2 DEF Record
  <2>3. CASE Complete
    BY <2>1, <2>3 DEF Complete
  <2>4. CASE Archive
    BY <2>1, <2>4 DEF Archive
  <2> QED BY <2>2, <2>3, <2>4
<1>4. TypeOK'
  BY <1>2, <1>3 DEF Going, TypeOK
<1>5. Base' = Base /\ Come' = Come /\ ListEnd' = ListEnd /\ Reading' = Reading
  BY <1>2 DEF Base, Come, ListEnd, Reading
<1>6. Listing'
  <2> SUFFICES ASSUME pc # "idle" PROVE Listing'
    BY <1>2 DEF Listing
  <2>1. Base \in Int /\ ListEnd \in Int /\ Base <= low /\ ListEnd <= high
    BY DEF Going, Listing, Base, ListEnd
  <2>2. low \in Nat /\ high \in Nat
    BY DEF Going, TypeOK
  <2>3. Base' <= low' /\ ListEnd' <= high'
    BY <1>3, <1>5, <2>1, <2>2
  <2> QED BY <1>2, <1>5, <2>3 DEF Going, Listing
<1>7. Placed'
  BY <1>2, <1>5 DEF Going, Placed
<1>8. Behind'
  BY <1>2, <1>3, <1>5 DEF Going, Behind
<1>9. CutShort'
  BY <1>2 DEF Going, CutShort
<1> QED BY <1>4, <1>6, <1>7, <1>8, <1>9 DEF Going

LEMMA BeginGoing ==
  ASSUME Going, Begin
  PROVE  /\ Going' /\ Base' = low /\ stamp' = stamp /\ stampCut' = stampCut
         /\ ask.processed = None =>
              /\ last' = (IF ask.fromLast THEN stamp ELSE None)
              /\ lastCut' = (ask.fromLast /\ stampCut)
              /\ GrowingNames /\ ask.fromLast /\ ~stampCut => stamp <= Come'
              /\ OwnNames /\ ~stampCut =>
                   \A f \in Base' + 1 .. Come' : f <= stamp /\ ask.fromLast
         /\ ~ask.fromLast => i' = 0
         /\ pc = "idle" /\ pc' = "loop" /\ ask' = ask /\ passed' = {} /\ low' = low
<1>1. /\ pc = "idle" /\ pc' = "loop" /\ low < high
      /\ fits_list' = Listed /\ last' = LastFrom(stamp) /\ lastCut' = LastCutFrom(stampCut)
      /\ i' = StartAt(Listed, last', lastCut')
      /\ disk' = IF ask.append THEN disk ELSE <<>>
      /\ power' = <<>> /\ buf' = <<>> /\ passed' = {} /\ ended' = FALSE
      /\ UNCHANGED <<ask, low, high, bad, stamp, stampCut, skipped, faults>>
  BY DEF Begin, FirstRead
<1>2. /\ low \in Nat /\ high \in Nat /\ stamp \in Nat /\ stamp <= high
      /\ high <= NFiles /\ bad \in SUBSET Files /\ stampCut \in BOOLEAN
      /\ ask.processed \in Nat /\ ask.processed <= high
  BY TotalPowerAssumption DEF Going, TypeOK, Options, Files, None
<1>3. /\ last' \in 0 .. high
      /\ ask.processed = None => last' = (IF ask.fromLast THEN stamp ELSE None)
  BY <1>1, <1>2 DEF LastFrom, None
<1>4. /\ lastCut' \in BOOLEAN /\ (lastCut' => stampCut)
      /\ ask.processed = None => lastCut' = (ask.fromLast /\ stampCut)
  BY <1>1, <1>2 DEF LastCutFrom
<1> DEFINE n == high - low
<1>5. /\ i' \in 0 .. n /\ (~ask.fromLast => i' = 0)
      /\ GrowingNames /\ ask.fromLast /\ ~lastCut' /\ last' # None => last' <= low + i'
      /\ OwnNames /\ ~lastCut' => i' = 0 \/ low + i' = last'
  <2>1. PICK p \in 0 .. high, cut \in BOOLEAN : p = last' /\ cut = lastCut'
    BY <1>3, <1>4
  <2>2. i' = StartAt(Listed, p, cut)
    BY <1>1, <2>1
  <2> QED BY <1>1, <1>2, <2>1, <2>2, Starts
<1>6. /\ n \in Nat \ {0} /\ Len(fits_list') = n
      /\ \A k \in 1 .. n : fits_list'[k] = low + k
  BY <1>1, <1>2 DEF Listed
<1>7. fits_list'[1] = low + 1
  BY <1>6
<1>8. Base' = low /\ Come' = low + i' /\ ListEnd' = high /\ Reading'
  BY <1>1, <1>2, <1>6, <1>7 DEF Base, Come, ListEnd, Reading
<1>9. TypeOK'
  <2>1. disk' \in Seq(Rows) /\ power' \in Seq(Rows) /\ buf' \in Seq(Rows)
    BY <1>1 DEF Going, TypeOK
  <2>2. i' \in Nat /\ last' \in Nat /\ last' <= high
    BY <1>2, <1>3, <1>5
  <2> QED BY <1>1, <1>2, <1>4, <2>1, <2>2 DEF Going, TypeOK
<1>10. Listing'
  BY <1>1, <1>2, <1>6, <1>7, <1>8 DEF Listing
<1>11. Placed'
  <2>1. i' <= Len(fits_list') /\ pc' # "stamp" /\ passed' = {}
    BY <1>1, <1>2, <1>5, <1>6
  <2> QED BY <1>1, <1>4, <2>1 DEF Placed
<1>12. Behind'
  <2> SUFFICES ASSUME ask.processed = None PROVE Behind'
    BY <1>1 DEF Behind
  <2>1. low <= stamp /\ stamp \notin bad
    BY DEF Going, Behind
  <2>2. last' = stamp \/ (last' = None /\ i' = 0)
    BY <1>3, <1>5
  <2>3. last' \notin bad
    BY <1>2, <2>1, <2>2 DEF Files, None
  <2>4. last' <= high
    BY <1>2, <1>3
  <2>5. stamp \in low + 1 .. low + i' => stamp <= last'
    BY <1>2, <2>1, <2>2
  <2> QED BY <1>1, <1>2, <1>8, <2>1, <2>2, <2>3, <2>4, <2>5 DEF Behind
<1>13. CutShort'
  BY <1>1 DEF Going, CutShort
<1>14. ASSUME ask.processed = None, GrowingNames, ask.fromLast, ~stampCut
       PROVE  stamp <= Come'
  <2>1. last' = stamp /\ ~lastCut'
    BY <1>3, <1>4, <1>14
  <2>2. PICK m \in Nat : m = i'
    BY <1>2, <1>5
  <2>3. Come' = low + m /\ (stamp # 0 => stamp <= low + m)
    BY <1>5, <1>8, <1>14, <2>1, <2>2 DEF None
  <2>4. CASE stamp = 0
    <3>1. low + m \in Nat
      <4>1. low \in Nat /\ m \in Nat
        BY <1>2, <2>2
      <4> QED BY <4>1
    <3>2. 0 <= low + m
      BY <3>1
    <3> QED BY <2>3, <2>4, <3>2
  <2>5. CASE stamp # 0
    BY <2>3, <2>5
  <2> QED BY <2>4, <2>5
<1>15. ASSUME ask.processed = None, OwnNames, ~stampCut
       PROVE  \A f \in Base' + 1 .. Come' : f <= stamp /\ ask.fromLast
  <2>1. PICK m : m = i'
    OBVIOUS
  <2>2. m \in Nat /\ (m = 0 \/ (ask.fromLast /\ low + m = stamp))
    <3>1. m \in Nat
      BY <1>2, <1>5, <2>1
    <3>2. ~lastCut'
      BY <1>4, <1>15
    <3>3. m = 0 \/ low + m = last'
      BY <1>5, <1>15, <2>1, <3>2
    <3>4. ~ask.fromLast => m = 0
      BY <1>5, <2>1
    <3>5. ask.fromLast => last' = stamp
      BY <1>3, <1>15
    <3> QED BY <3>1, <3>3, <3>4, <3>5
  <2>3. \A f \in low + 1 .. low + m : f <= stamp /\ ask.fromLast
    BY <1>2, <2>2
  <2> QED BY <1>8, <2>1, <2>3
<1> QED BY <1>1, <1>3, <1>4, <1>5, <1>8, <1>9, <1>10, <1>11, <1>12, <1>13, <1>14, <1>15 DEF Going

(* In the loop: the next file, and what is known of the list. *)
LEMMA NextFile ==
  ASSUME Going, InLoop
  PROVE  /\ pc = "loop" /\ i \in Nat /\ i + 1 <= Len(fits_list) /\ Len(fits_list) \in Nat
         /\ Base \in Nat /\ Come = Base + i /\ ListEnd = Base + Len(fits_list)
         /\ fits_list[i + 1] = Come + 1 /\ Come + 1 \in Files /\ fits_list[1] \in Nat
         /\ Come + 1 <= high /\ high \in Nat /\ last \in Nat /\ stamp \in Nat
<1>1. pc = "loop" /\ i < Len(fits_list) /\ i \in Nat /\ high <= NFiles /\ high \in Nat
      /\ last \in Nat /\ stamp \in Nat /\ NFiles \in Nat
  BY TotalPowerAssumption DEF InLoop, Going, TypeOK
<1>2. /\ fits_list[1] \in Nat \ {0} /\ Len(fits_list) \in Nat \ {0}
      /\ \A k \in 1 .. Len(fits_list) : fits_list[k] = Base + k
      /\ ListEnd <= high
  BY <1>1 DEF Going, Listing
<1>3. Base \in Nat
  BY <1>2 DEF Base
<1>4. i + 1 \in 1 .. Len(fits_list)
  BY <1>1, <1>2
<1>5. fits_list[i + 1] = Base + (i + 1)
  BY <1>2, <1>4
<1> QED BY <1>1, <1>2, <1>3, <1>4, <1>5 DEF Come, ListEnd, Files

LEMMA ReadGoing ==
  ASSUME Going, Read
  PROVE  /\ Going' /\ Come' = Come + 1 /\ last' = Come + 1 /\ Base' = Base
         /\ lastCut' = FALSE
<1>1. /\ InLoop /\ fits_list[i + 1] \notin bad
      /\ i' = i + 1 /\ last' = fits_list[i + 1] /\ lastCut' = FALSE
      /\ UNCHANGED <<ask, low, high, bad, stamp, stampCut, disk, pc, fits_list, passed,
                     skipped, ended, faults>>
      /\ IF ask.now THEN buf' = buf \o RowsOf(fits_list[i + 1]) /\ power' = power
         ELSE power' = power \o RowsOf(fits_list[i + 1]) /\ buf' = buf
  BY DEF Read
<1>2. /\ pc = "loop" /\ i \in Nat /\ i + 1 <= Len(fits_list) /\ Len(fits_list) \in Nat
      /\ Base \in Nat /\ Come = Base + i /\ ListEnd = Base + Len(fits_list)
      /\ fits_list[i + 1] = Come + 1 /\ Come + 1 \in Files /\ fits_list[1] \in Nat
      /\ Come + 1 <= high /\ high \in Nat /\ last \in Nat /\ stamp \in Nat
  BY <1>1, NextFile
<1>3. Base' = Base /\ Come' = Come + 1 /\ ListEnd' = ListEnd /\ Reading' /\ Reading
  <2>1. fits_list' = fits_list /\ pc' = pc /\ i' = i + 1
    BY <1>1
  <2>2. Base' = Base /\ ListEnd' = ListEnd
    BY <2>1 DEF Base, ListEnd
  <2>3. Come' = Come + 1
    BY <1>2, <2>1, <2>2 DEF Come
  <2> QED BY <1>2, <2>1, <2>2, <2>3 DEF Reading
<1>4. TypeOK'
  <2>1. RowsOf(fits_list[i + 1]) \in Seq(Rows)
    <3>1. ask \in Options /\ faults \in SUBSET Faults
      BY TotalPowerAssumption DEF Going, TypeOK
    <3>2. PICK f : f = fits_list[i + 1]
      OBVIOUS
    <3>3. f \in Nat
      BY <1>2, <3>2 DEF Files
    <3>4. RowsOf(f) \in Seq(Rows)
      BY <1>2, <3>1, <3>3, RowsOfFile
    <3> QED BY <3>2, <3>4
  <2>2. power' \in Seq(Rows) /\ buf' \in Seq(Rows)
    <3>1. PICK rows : rows = RowsOf(fits_list[i + 1])
      OBVIOUS
    <3>2. rows \in Seq(Rows) /\ power \in Seq(Rows) /\ buf \in Seq(Rows)
      BY <2>1, <3>1 DEF Going, TypeOK
    <3>3. buf \o rows \in Seq(Rows) /\ power \o rows \in Seq(Rows)
      BY <3>2
    <3>4. (buf' = buf \o rows /\ power' = power) \/ (power' = power \o rows /\ buf' = buf)
      BY <1>1, <3>1
    <3> QED BY <3>2, <3>3, <3>4
  <2>3. last' \in Nat /\ last' <= high /\ i' \in Nat
    BY <1>1, <1>2 DEF Files
  <2> QED BY <1>1, <2>2, <2>3 DEF Going, TypeOK
<1>5. Listing'
  BY <1>1, <1>3 DEF Going, Listing
<1>6. Placed' /\ Behind'
  <2>1. /\ passed \subseteq Base + 1 .. Come
        /\ i <= Len(fits_list)
    BY <1>3 DEF Going, Placed
  <2>2. last' = Come + 1 /\ last' \notin bad /\ Come \in Nat
    BY <1>1, <1>2
  <2>3. last' \notin passed /\ passed \subseteq Base + 1 .. Come + 1
    BY <1>2, <2>1, <2>2
  <2>4. last' > Base /\ last' <= ListEnd /\ \A n \in Base + 1 .. Come + 1 : n <= last'
    BY <1>2, <2>2
  <2>5. Placed'
    BY <1>1, <1>2, <1>3, <2>3 DEF Placed
  <2>6. Behind'
    BY <1>1, <1>2, <1>3, <2>2, <2>3, <2>4 DEF Going, Behind
  <2> QED BY <2>5, <2>6
<1>7. CutShort'
  BY <1>1 DEF Going, CutShort
<1> QED BY <1>1, <1>2, <1>3, <1>4, <1>5, <1>6, <1>7 DEF Going

LEMMA UnreadableGoing ==
  ASSUME Going, Unreadable
  PROVE  /\ Going' /\ Come' = Come + 1 /\ Base' = Base
         /\ passed' = passed \cup {Come + 1} /\ Come + 1 \in bad
<1>1. /\ InLoop /\ fits_list[i + 1] \in bad
      /\ i' = i + 1 /\ passed' = passed \cup {fits_list[i + 1]}
      /\ UNCHANGED <<ask, low, high, bad, stamp, stampCut, disk, pc, fits_list, last,
                     lastCut, power, buf, skipped, ended, faults>>
  BY DEF Unreadable
<1>2. /\ pc = "loop" /\ i \in Nat /\ i + 1 <= Len(fits_list) /\ Len(fits_list) \in Nat
      /\ Base \in Nat /\ Come = Base + i /\ ListEnd = Base + Len(fits_list)
      /\ fits_list[i + 1] = Come + 1 /\ Come + 1 \in Files /\ fits_list[1] \in Nat
      /\ Come + 1 <= high /\ high \in Nat /\ last \in Nat /\ stamp \in Nat
  BY <1>1, NextFile
<1>3. Base' = Base /\ Come' = Come + 1 /\ ListEnd' = ListEnd /\ Reading' /\ Reading
  <2>1. fits_list' = fits_list /\ pc' = pc /\ i' = i + 1
    BY <1>1
  <2>2. Base' = Base /\ ListEnd' = ListEnd
    BY <2>1 DEF Base, ListEnd
  <2>3. Come' = Come + 1
    BY <1>2, <2>1, <2>2 DEF Come
  <2> QED BY <1>2, <2>1, <2>2, <2>3 DEF Reading
<1>4. TypeOK'
  BY <1>1, <1>2 DEF Going, TypeOK
<1>5. Listing'
  BY <1>1, <1>3 DEF Going, Listing
<1>6. Placed' /\ Behind'
  <2>1. passed \subseteq Base + 1 .. Come /\ (lastCut => stampCut)
    BY <1>3 DEF Going, Placed
  <2>2. Come \in Nat /\ passed' \subseteq Base + 1 .. Come + 1
    BY <1>1, <1>2, <2>1
  <2>3. Placed'
    BY <1>1, <1>2, <1>3, <2>1, <2>2 DEF Placed
  <2>4. ASSUME ask.processed = None PROVE Behind'
    <3>1. /\ low <= stamp /\ stamp \notin bad /\ stamp <= ListEnd
          /\ last <= ListEnd /\ last \notin passed /\ last \notin bad
          /\ last = None \/ last > Base \/ last = stamp
          /\ stamp \in Base + 1 .. Come => stamp <= last
      BY <1>2, <1>3, <2>4 DEF Going, Behind
    <3>2. stamp # Come + 1 /\ last \notin passed'
      BY <1>1, <1>2, <3>1
    <3>3. stamp \in Base + 1 .. Come + 1 => stamp <= last
      BY <1>2, <2>2, <3>1, <3>2
    <3> QED BY <1>1, <1>3, <3>1, <3>2, <3>3 DEF Behind
  <2> QED BY <1>1, <2>3, <2>4 DEF Behind
<1>7. CutShort'
  BY <1>1 DEF Going, CutShort
<1> QED BY <1>1, <1>2, <1>3, <1>4, <1>5, <1>6, <1>7 DEF Going

(* Steps that leave the list and the place in it alone. *)
LEMMA PlaceGoing ==
  ASSUME Going,
         UNCHANGED <<ask, low, high, bad, stamp, stampCut, fits_list, i, last, lastCut, passed>>,
         faults' \in SUBSET Faults, faults \subseteq faults',
         disk' \in Seq(Rows), power' \in Seq(Rows), buf' \in Seq(Rows), ended' \in BOOLEAN,
         \/ pc' = pc
         \/ pc' = "idle"
         \/ pc = "loop" /\ pc' = "stamp" /\ i >= Len(fits_list)
         \/ pc = "report" /\ pc' = "close"
  PROVE  Going' /\ Base' = Base /\ Come' = Come /\ ListEnd' = ListEnd
<1>1. Base' = Base /\ Come' = Come /\ ListEnd' = ListEnd
  BY DEF Base, Come, ListEnd
<1>2. TypeOK'
  BY DEF Going, TypeOK
<1>3. Listing'
  BY <1>1 DEF Going, Listing
<1>4. Placed'
  <2>1. CASE pc' = pc \/ ~Reading'
    BY <1>1, <2>1 DEF Going, Placed, Reading
  <2>2. CASE pc = "loop" /\ pc' = "stamp" /\ i >= Len(fits_list)
    <3>1. i = Len(fits_list)
      BY <2>2 DEF Going, TypeOK, Listing, Placed, Reading
    <3> QED BY <1>1, <2>2, <3>1 DEF Going, Placed, Reading
  <2> QED BY <2>1, <2>2 DEF Reading
<1>5. Behind'
  <2>1. (pc' # "idle" => pc # "idle") /\ (Reading' => Reading)
    BY DEF Reading
  <2> QED BY <1>1, <2>1 DEF Going, Behind
<1>6. CutShort'
  BY DEF Going, CutShort
<1> QED BY <1>1, <1>2, <1>3, <1>4, <1>5, <1>6 DEF Going

(* The stamp moves on when it moves. *)
LEMMA StampGoing ==
  ASSUME Going, Stamp
  PROVE  /\ Going' /\ Base' = Base /\ Come' = Come /\ Come = ListEnd
         /\ stamp' = stamp \/ stamp' = last
         /\ ask.processed = None => stamp' >= stamp /\ stamp <= ListEnd
<1>1. /\ pc = "stamp" /\ pc' = "report"
      /\ \/ stamp' = stamp /\ stampCut' = stampCut
         \/ stamp' = last /\ last # None /\ stampCut' = lastCut
         \/ stamp' = last /\ last # None /\ stampCut' = TRUE /\ "short" \in faults'
      /\ UNCHANGED <<ask, low, high, bad, disk, fits_list, i, last, lastCut, power, buf,
                     passed, ended>>
  BY DEF Stamp, StampMoves, Fails
<1>2. faults \subseteq faults' /\ faults' \in SUBSET Faults
  BY DEF Stamp, Fails, Going, TypeOK
<1>3. /\ Base <= low /\ ListEnd <= high
      /\ fits_list[1] \in Nat \ {0} /\ Len(fits_list) \in Nat \ {0}
  BY <1>1 DEF Going, Listing
<1>4. i = Len(fits_list) /\ (lastCut => stampCut) /\ Reading
  BY <1>1 DEF Going, Placed, Reading
<1>5. /\ last \in Nat /\ stamp \in Nat /\ low \in Nat /\ high \in Nat /\ last <= high
      /\ stamp <= high /\ stampCut \in BOOLEAN /\ lastCut \in BOOLEAN
  BY DEF Going, TypeOK
<1>6. Base \in Nat /\ Come = ListEnd /\ Come \in Nat
  BY <1>3, <1>4 DEF Base, Come, ListEnd
<1>7. ASSUME ask.processed = None
      PROVE  /\ stamp' >= stamp /\ stamp' <= ListEnd /\ stamp <= ListEnd /\ stamp' \notin bad
             /\ low <= stamp
  <2>1. /\ low <= stamp /\ stamp \notin bad /\ stamp <= ListEnd
        /\ last <= ListEnd /\ last \notin bad
        /\ last = None \/ last > Base \/ last = stamp
        /\ stamp \in Base + 1 .. Come => stamp <= last
    BY <1>1, <1>4, <1>7 DEF Going, Behind
  <2>2. stamp = Base \/ stamp \in Base + 1 .. Come
    BY <1>3, <1>5, <1>6, <2>1
  <2>3. last # None => stamp <= last
    BY <1>5, <1>6, <2>1, <2>2
  <2> QED BY <1>1, <1>5, <2>1, <2>3
<1>8. TypeOK'
  BY <1>1, <1>2, <1>5 DEF Going, TypeOK
<1>9. Base' = Base /\ Come' = Come /\ ListEnd' = ListEnd /\ ~Reading'
  BY <1>1 DEF Base, Come, ListEnd, Reading
<1>10. Listing'
  BY <1>1, <1>9 DEF Going, Listing
<1>11. Placed'
  BY <1>9 DEF Placed
<1>12. Behind'
  <2> SUFFICES ASSUME ask.processed = None PROVE Behind'
    BY <1>1 DEF Behind
  <2>1. low' <= stamp'
    <3>1. low' = low /\ stamp' \in Nat
      BY <1>1, <1>5
    <3> QED BY <1>5, <1>7, <3>1
  <2> QED BY <1>1, <1>7, <1>9, <2>1 DEF Behind
<1>13. CutShort'
  <2>1. stampCut => "short" \in faults'
    BY <1>2 DEF Going, CutShort
  <2> QED BY <1>1, <1>4, <2>1 DEF CutShort
<1> QED BY <1>1, <1>6, <1>7, <1>8, <1>9, <1>10, <1>11, <1>12, <1>13 DEF Going

(* What the program has given to stdio goes to the disk, or is lost. *)
LEMMA RowsAnywhere ==
  ASSUME TypeOK
  PROVE  /\ (Flush \/ Report \/ Close \/ Crash) =>
              disk' \in Seq(Rows) /\ power' \in Seq(Rows) /\ buf' \in Seq(Rows)
<1>1. disk \in Seq(Rows) /\ power \in Seq(Rows) /\ buf \in Seq(Rows) /\ <<>> \in Seq(Rows)
  BY DEF TypeOK
<1>2. disk \o buf \in Seq(Rows) /\ buf \o power \in Seq(Rows)
  BY <1>1
<1>3. CASE Flush
  <2>1. PICK n \in 1 .. Len(buf) : /\ disk' = disk \o SubSeq(buf, 1, n)
                                   /\ buf' = SubSeq(buf, n + 1, Len(buf)) /\ power' = power
    BY <1>3 DEF Flush
  <2>2. Len(buf) \in Nat
    BY <1>1
  <2>3. SubSeq(buf, 1, n) \in Seq(Rows)
    BY <1>1, <2>2, SubSeqProperties
  <2>4. n + 1 \in 1 .. Len(buf) + 1 /\ Len(buf) \in n .. Len(buf)
    BY <2>2
  <2>5. SubSeq(buf, n + 1, Len(buf)) \in Seq(Rows)
    BY <1>1, <2>2, <2>4, SubSeqProperties
  <2>6. disk \o SubSeq(buf, 1, n) \in Seq(Rows)
    BY <1>1, <2>3
  <2> QED BY <1>1, <2>1, <2>5, <2>6
<1>4. Report => disk' = disk /\ power' = power /\ buf' = buf \o power
  BY DEF Report
<1>5. Close => (disk' = disk \o buf \/ disk' = disk) /\ power' = <<>> /\ buf' = <<>>
  BY DEF Close
<1>6. Crash => disk' = disk /\ power' = <<>> /\ buf' = <<>>
  BY DEF Crash
<1> QED BY <1>1, <1>2, <1>3, <1>4, <1>5, <1>6

(* The steps at the end of a run, and those that do not run at all. *)
LEMMA EndGoing ==
  ASSUME Going, NoBegin \/ LoopEnds \/ Report \/ Flush \/ Close \/ Crash
  PROVE  Going' /\ Base' = Base /\ Come' = Come /\ ListEnd' = ListEnd
<1>1. /\ UNCHANGED <<ask, low, high, bad, stamp, stampCut, fits_list, i, last, lastCut, passed>>
      /\ faults' \in SUBSET Faults /\ faults \subseteq faults'
  BY DEF NoBegin, LoopEnds, Report, Flush, Close, Crash, Fails, Going, TypeOK, run
<1>2. disk' \in Seq(Rows) /\ power' \in Seq(Rows) /\ buf' \in Seq(Rows)
  <2>1. (NoBegin \/ LoopEnds) => UNCHANGED <<disk, power, buf>>
    BY DEF NoBegin, LoopEnds, run
  <2>2. disk \in Seq(Rows) /\ power \in Seq(Rows) /\ buf \in Seq(Rows) /\ TypeOK
    BY DEF Going, TypeOK
  <2> QED BY <2>1, <2>2, RowsAnywhere
<1>3. ended' \in BOOLEAN
  <2>1. ended \in BOOLEAN
    BY DEF Going, TypeOK
  <2>2. ended' = ended \/ ended' = TRUE \/ ended' = FALSE
    BY DEF NoBegin, LoopEnds, Report, Flush, Close, Crash
  <2> QED BY <2>1, <2>2
<1>4. \/ pc' = pc
      \/ pc' = "idle"
      \/ pc = "loop" /\ pc' = "stamp" /\ i >= Len(fits_list)
      \/ pc = "report" /\ pc' = "close"
  BY DEF NoBegin, LoopEnds, Report, Flush, Close, Crash, run
<1> QED BY <1>1, <1>2, <1>3, <1>4, PlaceGoing

LEMMA IdleGoing ==
  ASSUME Going, UNCHANGED vars
  PROVE  Going'
<1>1. /\ UNCHANGED <<ask, low, high, bad, stamp, stampCut, fits_list, i, last, lastCut, passed>>
      /\ pc' = pc /\ faults' \in SUBSET Faults /\ faults \subseteq faults'
  BY DEF vars, run, Going, TypeOK
<1>2. disk' = disk /\ power' = power /\ buf' = buf /\ ended' = ended
  BY DEF vars, run
<1>3. disk' \in Seq(Rows) /\ power' \in Seq(Rows) /\ buf' \in Seq(Rows)
  BY <1>2 DEF Going, TypeOK
<1>4. ended' \in BOOLEAN
  BY <1>2 DEF Going, TypeOK
<1> QED BY <1>1, <1>3, <1>4, PlaceGoing

LEMMA NextGoing ==
  ASSUME Going, [Next]_vars
  PROVE  Going' /\ (ask.processed = None => stamp' >= stamp)
<1>1. CASE Record \/ Complete \/ Archive
  BY <1>1, WorldGoing DEF Record, Complete, Archive, Going, TypeOK
<1>2. CASE Begin
  BY <1>2, BeginGoing DEF Going, TypeOK
<1>3. CASE Read
  <2>1. stamp' = stamp /\ stamp \in Nat
    BY <1>3 DEF Read, Going, TypeOK
  <2> QED BY <1>3, <2>1, ReadGoing
<1>4. CASE Unreadable
  BY <1>4, UnreadableGoing DEF Unreadable, Going, TypeOK
<1>5. CASE Stamp
  BY <1>5, StampGoing
<1>6. CASE NoBegin \/ LoopEnds \/ Report \/ Flush \/ Close \/ Crash
  <2>1. stamp' = stamp /\ stamp \in Nat
    BY <1>6 DEF NoBegin, LoopEnds, Report, Flush, Close, Crash, Going, TypeOK
  <2> QED BY <1>6, <2>1, EndGoing
<1>7. CASE UNCHANGED vars
  BY <1>7, IdleGoing DEF vars, Going, TypeOK
<1> QED BY <1>1, <1>2, <1>3, <1>4, <1>5, <1>6, <1>7 DEF Next, Program

(* The list of a run is a window of the files, what it passes over is        *)
(* behind it, and without last_processed= the stamp names a file that can be *)
(* read and is on the list or before it, and so does the run itself, once it *)
(* has come past the stamp no file before that: whatever names are part of   *)
(* others, wherever the beginning of one is found, and whatever goes wrong.  *)
THEOREM Invariant == Spec => []Going
<1>1. Init => Going
  BY InitGoing
<1>2. Going /\ [Next]_vars => Going'
  BY NextGoing
<1> QED BY <1>1, <1>2, PTL DEF Spec

(* The stamp does not go back, whatever the run was told, wherever the search *)
(* for its name has it start, and whatever goes wrong, a stamp cut short      *)
(* included: print_last_processed_file, behind the loop, and the stamp's file *)
(* of its own that takes the place of the old.  Nothing is assumed of names:  *)
(* a run that starts too early comes to the stamp again before it writes it.  *)
THEOREM StampForward == Spec => StampGoesOn
<1>1. Going /\ [Next]_vars => [ask.processed = None => stamp' >= stamp]_vars
  BY NextGoing
<1> QED BY <1>1, Invariant, PTL DEF Spec, StampGoesOn

-----------------------------------------------------------------------------
(* Rows one behind the other. *)
LEMMA RangeJoin ==
  ASSUME NEW s \in Seq(Rows), NEW t \in Seq(Rows)
  PROVE  Range(s \o t) = Range(s) \cup Range(t)
<1>1. /\ s \o t \in Seq(Rows) /\ Len(s \o t) = Len(s) + Len(t)
      /\ \A k \in 1 .. Len(s) + Len(t) :
           (s \o t)[k] = IF k <= Len(s) THEN s[k] ELSE t[k - Len(s)]
  BY ConcatProperties
<1>2. Len(s) \in Nat /\ Len(t) \in Nat /\ DOMAIN s = 1 .. Len(s) /\ DOMAIN t = 1 .. Len(t)
      /\ DOMAIN (s \o t) = 1 .. Len(s) + Len(t)
  BY <1>1
<1>3. ASSUME NEW k \in DOMAIN (s \o t) PROVE (s \o t)[k] \in Range(s) \cup Range(t)
  <2>1. CASE k <= Len(s)
    BY <1>1, <1>2, <2>1 DEF Range
  <2>2. CASE ~(k <= Len(s))
    <3>1. k - Len(s) \in DOMAIN t
      BY <1>2, <2>2
    <3> QED BY <1>1, <1>2, <2>2, <3>1 DEF Range
  <2> QED BY <2>1, <2>2
<1>4. ASSUME NEW k \in DOMAIN s PROVE s[k] \in Range(s \o t)
  <2>1. k \in DOMAIN (s \o t) /\ (s \o t)[k] = s[k]
    BY <1>1, <1>2
  <2> QED BY <2>1 DEF Range
<1>5. ASSUME NEW k \in DOMAIN t PROVE t[k] \in Range(s \o t)
  <2>1. PICK m \in DOMAIN (s \o t) : m = Len(s) + k
    BY <1>2
  <2>2. ~(m <= Len(s)) /\ m - Len(s) = k
    BY <1>2, <2>1
  <2>3. (s \o t)[m] = t[k]
    BY <1>1, <1>2, <2>2
  <2> QED BY <2>3 DEF Range
<1> QED BY <1>3, <1>4, <1>5 DEF Range

LEMMA JoinOrder ==
  ASSUME NEW s \in Seq(Rows), NEW t \in Seq(Rows), InOrder(s), InOrder(t),
         \A r \in Range(s), q \in Range(t) : Follows(r, q)
  PROVE  InOrder(s \o t)
<1>1. /\ s \o t \in Seq(Rows) /\ Len(s \o t) = Len(s) + Len(t)
      /\ \A k \in 1 .. Len(s) + Len(t) :
           (s \o t)[k] = IF k <= Len(s) THEN s[k] ELSE t[k - Len(s)]
  BY ConcatProperties
<1>2. Len(s) \in Nat /\ Len(t) \in Nat /\ DOMAIN s = 1 .. Len(s) /\ DOMAIN t = 1 .. Len(t)
      /\ DOMAIN (s \o t) = 1 .. Len(s) + Len(t)
  BY <1>1
<1> SUFFICES ASSUME NEW j \in DOMAIN (s \o t), NEW k \in DOMAIN (s \o t), j < k
             PROVE  Follows((s \o t)[j], (s \o t)[k])
  BY DEF InOrder
<1>3. CASE k <= Len(s)
  <2>1. j \in DOMAIN s /\ k \in DOMAIN s /\ j <= Len(s)
    BY <1>2, <1>3
  <2>2. (s \o t)[j] = s[j] /\ (s \o t)[k] = s[k]
    BY <1>1, <1>2, <1>3, <2>1
  <2> QED BY <2>1, <2>2 DEF InOrder
<1>4. CASE j <= Len(s) /\ ~(k <= Len(s))
  <2>1. j \in DOMAIN s /\ k - Len(s) \in DOMAIN t
    BY <1>2, <1>4
  <2>2. (s \o t)[j] = s[j] /\ (s \o t)[k] = t[k - Len(s)]
    BY <1>1, <1>2, <1>4
  <2>3. s[j] \in Range(s) /\ t[k - Len(s)] \in Range(t)
    BY <2>1 DEF Range
  <2> QED BY <2>2, <2>3
<1>5. CASE ~(j <= Len(s))
  <2>1. /\ j - Len(s) \in DOMAIN t /\ k - Len(s) \in DOMAIN t /\ j - Len(s) < k - Len(s)
        /\ ~(k <= Len(s))
    BY <1>2, <1>5
  <2>2. (s \o t)[j] = t[j - Len(s)] /\ (s \o t)[k] = t[k - Len(s)]
    BY <1>1, <1>2, <1>5, <2>1
  <2> QED BY <2>1, <2>2 DEF InOrder
<1> QED BY <1>2, <1>3, <1>4, <1>5

LEMMA FirstOrder ==
  ASSUME NEW s \in Seq(Rows), NEW t \in Seq(Rows), InOrder(s \o t)
  PROVE  InOrder(s)
<1>1. /\ s \o t \in Seq(Rows) /\ Len(s \o t) = Len(s) + Len(t)
      /\ \A k \in 1 .. Len(s) + Len(t) :
           (s \o t)[k] = IF k <= Len(s) THEN s[k] ELSE t[k - Len(s)]
  BY ConcatProperties
<1>2. Len(s) \in Nat /\ Len(t) \in Nat /\ DOMAIN s = 1 .. Len(s)
      /\ DOMAIN (s \o t) = 1 .. Len(s) + Len(t)
  BY <1>1
<1> SUFFICES ASSUME NEW j \in DOMAIN s, NEW k \in DOMAIN s, j < k
             PROVE  Follows(s[j], s[k])
  BY DEF InOrder
<1>3. j \in DOMAIN (s \o t) /\ k \in DOMAIN (s \o t) /\ (s \o t)[j] = s[j] /\ (s \o t)[k] = s[k]
  BY <1>1, <1>2
<1> QED BY <1>3 DEF InOrder

-----------------------------------------------------------------------------
(* What a step does to the rows there are: most leave them as they are,     *)
(* moved on at most.                                                        *)
Moves ==
  \/ Record \/ Complete \/ Archive \/ NoBegin \/ Unreadable \/ LoopEnds \/ Stamp
  \/ Report \/ Flush \/ UNCHANGED vars

Loses == (Close \/ Crash) /\ disk' = disk

LEMMA KeptType ==
  ASSUME TypeOK
  PROVE  /\ disk \in Seq(Rows) /\ buf \in Seq(Rows) /\ Held \in Seq(Rows)
         /\ buf \o Held \in Seq(Rows) /\ Kept \in Seq(Rows) /\ disk \o buf \in Seq(Rows)
         /\ Kept = (disk \o buf) \o Held
<1>1. disk \in Seq(Rows) /\ buf \in Seq(Rows) /\ power \in Seq(Rows) /\ <<>> \in Seq(Rows)
  BY DEF TypeOK
<1>2. Held \in Seq(Rows)
  BY <1>1 DEF Held
<1>3. Kept = (disk \o buf) \o Held
  BY <1>1, <1>2, ConcatAssociative DEF Kept
<1>4. buf \o Held \in Seq(Rows)
  BY <1>1, <1>2
<1> QED BY <1>1, <1>2, <1>3, <1>4 DEF Kept

(* What stdio writes was behind what is on the disk, and in front of the    *)
(* rest.                                                                    *)
LEMMA FlushMoves ==
  ASSUME TypeOK, Flush
  PROVE  disk' \o buf' = disk \o buf /\ power' = power /\ pc' = pc
<1>1. disk \in Seq(Rows) /\ buf \in Seq(Rows)
  BY DEF TypeOK
<1>2. PICK n \in 1 .. Len(buf) : /\ disk' = disk \o SubSeq(buf, 1, n)
                                 /\ buf' = SubSeq(buf, n + 1, Len(buf))
                                 /\ power' = power /\ pc' = pc
  BY DEF Flush
<1>3. Len(buf) \in Nat
  BY <1>1
<1> DEFINE a == SubSeq(buf, 1, n)
           b == SubSeq(buf, n + 1, Len(buf))
<1>4. /\ a \in Seq(Rows) /\ Len(a) = n /\ \A k \in 1 .. n : a[k] = buf[k]
  BY <1>1, <1>2, <1>3, SubSeqProperties
<1>5. n + 1 \in 1 .. Len(buf) + 1 /\ Len(buf) \in n .. Len(buf)
  BY <1>3
<1>6. /\ b \in Seq(Rows) /\ Len(b) = Len(buf) - n
      /\ \A k \in 1 .. Len(buf) - n : b[k] = buf[n + k]
  <2>1. b \in Seq(Rows)
    BY <1>1, <1>2, <1>3, <1>5, SubSeqProperties
  <2>2. Len(b) = Len(buf) - n
    BY <1>1, <1>2, <1>3
  <2>3. ASSUME NEW k \in 1 .. Len(buf) - n PROVE b[k] = buf[n + k]
    BY <1>1, <1>2, <1>3
  <2> QED BY <2>1, <2>2, <2>3
<1> HIDE DEF a, b
<1>7. a \o b = buf
  <2>1. /\ a \o b \in Seq(Rows) /\ Len(a \o b) = Len(a) + Len(b)
        /\ \A k \in 1 .. Len(a) + Len(b) :
             (a \o b)[k] = IF k <= Len(a) THEN a[k] ELSE b[k - Len(a)]
    BY <1>4, <1>6, ConcatProperties
  <2>2. Len(a) + Len(b) = Len(buf)
    BY <1>3, <1>4, <1>6
  <2>3. ASSUME NEW k \in 1 .. Len(buf) PROVE (a \o b)[k] = buf[k]
    <3>1. CASE k <= n
      BY <1>3, <1>4, <2>1, <2>2, <3>1
    <3>2. CASE ~(k <= n)
      <4>1. k - n \in 1 .. Len(buf) - n /\ n + (k - n) = k
        BY <1>3, <3>2
      <4> QED BY <1>3, <1>4, <1>6, <2>1, <2>2, <3>2, <4>1
    <3> QED BY <3>1, <3>2
  <2> QED BY <1>1, <2>1, <2>2, <2>3, SeqEqual
<1>8. disk' = disk \o a /\ buf' = b
  BY <1>2 DEF a, b
<1>9. (disk \o a) \o b = disk \o (a \o b)
  <2>1. disk \in Seq(Rows) /\ a \in Seq(Rows) /\ b \in Seq(Rows)
    BY <1>1, <1>4, <1>6
  <2> QED BY <2>1, ConcatAssociative
<1> QED BY <1>2, <1>7, <1>8, <1>9

LEMMA KeptMoves ==
  ASSUME Going, NoneLeft, Moves
  PROVE  Kept' = Kept
<1>1. disk \in Seq(Rows) /\ buf \in Seq(Rows) /\ power \in Seq(Rows) /\ <<>> \in Seq(Rows)
  BY DEF Going, TypeOK
<1>2. CASE Report
  <2>1. /\ pc = "report" /\ pc' = "close" /\ buf' = buf \o power /\ disk' = disk
    BY <1>2 DEF Report
  <2>2. Held = power /\ Held' = <<>>
    BY <2>1 DEF Held
  <2>3. (buf \o power) \o <<>> = buf \o power
    BY <1>1, ConcatEmptySeq
  <2> QED BY <2>1, <2>2, <2>3 DEF Kept
<1>3. CASE Flush
  <2>1. disk' \o buf' = disk \o buf /\ power' = power /\ pc' = pc
    BY <1>3, FlushMoves DEF Going
  <2>2. Held' = Held
    BY <2>1 DEF Held
  <2>3. Held \in Seq(Rows)
    BY KeptType DEF Going
  <2>4. disk' \o (buf' \o Held) = (disk' \o buf') \o Held
    <3>1. disk' \in Seq(Rows) /\ buf' \in Seq(Rows)
      BY <1>3, RowsAnywhere DEF Going
    <3>2. PICK d \in Seq(Rows), b \in Seq(Rows) : d = disk' /\ b = buf'
      BY <3>1
    <3>3. d \o (b \o Held) = (d \o b) \o Held
      BY <2>3, ConcatAssociative
    <3> QED BY <3>2, <3>3
  <2>5. Kept = (disk \o buf) \o Held
    BY KeptType DEF Going
  <2> QED BY <2>1, <2>2, <2>4, <2>5 DEF Kept
<1>4. CASE ~Report /\ ~Flush
  <2>1. UNCHANGED <<disk, buf, power>>
    BY <1>4 DEF Moves, Record, Complete, Archive, NoBegin, Unreadable, LoopEnds, Stamp, vars, run
  <2>2. pc' = pc \/ (pc = "loop" /\ pc' = "stamp") \/ (pc = "stamp" /\ pc' = "report")
    BY <1>4 DEF Moves, Record, Complete, Archive, NoBegin, Unreadable, LoopEnds, Stamp, vars, run
  <2>3. Held' = Held
    BY <2>1, <2>2 DEF Held
  <2> QED BY <2>1, <2>3 DEF Kept
<1> QED BY <1>2, <1>3, <1>4

LEMMA KeptClose ==
  ASSUME Going, NoneLeft, Close, disk' = disk \o buf
  PROVE  Kept' = Kept
<1>1. disk \in Seq(Rows) /\ buf \in Seq(Rows) /\ <<>> \in Seq(Rows) /\ disk \o buf \in Seq(Rows)
  BY DEF Going, TypeOK
<1>2. pc = "close" /\ pc' = "idle" /\ buf' = <<>>
  BY DEF Close
<1>3. Held = <<>> /\ Held' = <<>>
  BY <1>2 DEF Held
<1>4. buf \o <<>> = buf /\ <<>> \o <<>> = <<>> /\ (disk \o buf) \o <<>> = disk \o buf
  BY <1>1, ConcatEmptySeq
<1> QED BY <1>2, <1>3, <1>4 DEF Kept

LEMMA KeptLost ==
  ASSUME Going, NoneLeft, Loses
  PROVE  Kept' = disk
<1>1. pc' = "idle" /\ buf' = <<>> /\ disk' = disk
  BY DEF Loses, Close, Crash
<1>2. Held' = <<>>
  BY <1>1 DEF Held
<1>3. disk \in Seq(Rows) /\ <<>> \in Seq(Rows)
  BY DEF Going, TypeOK
<1>4. <<>> \o <<>> = <<>> /\ disk \o <<>> = disk
  BY <1>3, ConcatEmptySeq
<1> QED BY <1>1, <1>2, <1>4 DEF Kept

LEMMA KeptBegin ==
  ASSUME Going, NoneLeft, Begin
  PROVE  Kept' = (IF ask.append THEN Kept ELSE <<>>) /\ Kept = disk
<1>1. /\ pc = "idle" /\ pc' = "loop" /\ power' = <<>> /\ buf' = <<>>
      /\ disk' = IF ask.append THEN disk ELSE <<>>
  BY DEF Begin
<1>2. Held = <<>> /\ Held' = <<>> /\ buf = <<>>
  BY <1>1 DEF Held, NoneLeft
<1>3. disk \in Seq(Rows) /\ <<>> \in Seq(Rows)
  BY DEF Going, TypeOK
<1>4. <<>> \o <<>> = <<>> /\ disk \o <<>> = disk
  BY <1>3, ConcatEmptySeq
<1> QED BY <1>1, <1>2, <1>4 DEF Kept

LEMMA KeptRead ==
  ASSUME Going, NoneLeft, Read
  PROVE  /\ Kept' = Kept \o RowsOf(Come + 1)
         /\ Come + 1 \in Nat /\ fits_list[1] \in Nat /\ ask \in Options
         /\ RowsOf(Come + 1) \in Seq(Rows)
         /\ ~ask.now => disk' \o buf' = disk \o buf
<1>1. /\ InLoop /\ UNCHANGED <<disk, pc, ask>>
      /\ IF ask.now THEN buf' = buf \o RowsOf(fits_list[i + 1]) /\ power' = power
         ELSE power' = power \o RowsOf(fits_list[i + 1]) /\ buf' = buf
  BY DEF Read
<1>2. pc = "loop" /\ fits_list[i + 1] = Come + 1 /\ Come + 1 \in Files /\ fits_list[1] \in Nat
  BY <1>1, NextFile
<1>3. ask \in Options /\ Come + 1 \in Nat /\ faults \in SUBSET Faults
  BY <1>2, TotalPowerAssumption DEF Going, TypeOK, Files
<1>4. PICK rows : rows = RowsOf(Come + 1)
  OBVIOUS
<1>5. rows \in Seq(Rows)
  <2>1. PICK f : f = Come + 1
    OBVIOUS
  <2>2. RowsOf(f) \in Seq(Rows)
    BY <1>2, <1>3, <2>1, RowsOfFile
  <2> QED BY <1>4, <2>1, <2>2
<1>6. disk \in Seq(Rows) /\ buf \in Seq(Rows) /\ power \in Seq(Rows) /\ <<>> \in Seq(Rows)
  BY DEF Going, TypeOK
<1>7. Held = power /\ Held' = power'
  BY <1>1, <1>2 DEF Held
<1>8. CASE ask.now
  <2>1. power = <<>> /\ buf' = buf \o rows /\ power' = <<>> /\ disk' = disk
    BY <1>1, <1>2, <1>4, <1>8 DEF NoneLeft
  <2>2. buf \o <<>> = buf /\ (buf \o rows) \o <<>> = buf \o rows
    BY <1>5, <1>6, ConcatEmptySeq
  <2>3. (disk \o buf) \o rows = disk \o (buf \o rows)
    BY <1>5, <1>6, ConcatAssociative
  <2>4. Kept' = disk \o (buf \o rows) /\ Kept = disk \o buf
    BY <1>7, <2>1, <2>2 DEF Kept
  <2> QED BY <1>2, <1>3, <1>4, <1>5, <1>8, <2>3, <2>4
<1>9. CASE ~ask.now
  <2>1. power' = power \o rows /\ buf' = buf /\ disk' = disk
    BY <1>1, <1>2, <1>4, <1>9
  <2>2. buf \o (power \o rows) = (buf \o power) \o rows
    BY <1>5, <1>6, ConcatAssociative
  <2>3. buf \o power \in Seq(Rows)
    BY <1>6
  <2>4. disk \o ((buf \o power) \o rows) = (disk \o (buf \o power)) \o rows
    BY <1>5, <1>6, <2>3, ConcatAssociative
  <2> QED BY <1>2, <1>3, <1>4, <1>5, <1>7, <2>1, <2>2, <2>4 DEF Kept
<1> QED BY <1>8, <1>9

LEMMA NoneLeftNext ==
  ASSUME NoneLeft, [Next]_vars
  PROVE  NoneLeft'
<1>1. /\ pc = "idle" => buf = <<>>
      /\ ask.now => power = <<>>
  BY DEF NoneLeft
<1>2. ask' = ask
  BY DEF Next, Program, Record, Complete, Archive, Begin, NoBegin, Read, Unreadable,
         LoopEnds, Stamp, Report, Flush, Close, Crash, vars, run
<1>3. pc' = "idle" => buf' = <<>>
  <2>1. CASE Flush
    BY <1>1, <2>1 DEF Flush
  <2>2. CASE ~Flush
    BY <1>1, <2>2 DEF Next, Program, Record, Complete, Archive, Begin, NoBegin, Read,
       InLoop, Unreadable, LoopEnds, Stamp, Report, Close, Crash, vars, run
  <2> QED BY <2>1, <2>2
<1>4. ask.now => power' = power \/ power' = <<>>
  BY DEF Next, Program, Record, Complete, Archive, Begin, NoBegin, Read, Unreadable,
         LoopEnds, Stamp, Report, Flush, Close, Crash, vars, run
<1> QED BY <1>1, <1>2, <1>3, <1>4 DEF NoneLeft

-----------------------------------------------------------------------------
(* The rows keep their order, and end where the run is or where the stamp   *)
(* says, those that something went wrong behind left aside.                 *)
LEMMA FewerUpTo ==
  ASSUME NEW s \in Seq(Rows), NEW t \in Seq(Rows), NEW n
  PROVE  UpTo(s \o t, n) => UpTo(s, n) /\ UpTo(t, n)
<1>1. Range(s \o t) = Range(s) \cup Range(t)
  BY RangeJoin
<1> QED BY <1>1 DEF UpTo

(* What goes wrong is not undone: rows stay behind a bound that grows, and   *)
(* none is of the last try any more when the next one reads its file again.  *)
LEMMA StayUpTo ==
  ASSUME NEW s \in Seq(Rows), NEW n \in Nat, NEW m \in Nat, n <= m, UpTo(s, n),
         ask' = ask, faults \subseteq faults'
  PROVE  UpTo(s, m)'
<1>1. \A r : Current(r)' => Current(r)
  BY DEF Current, Repeats
<1>2. \A r \in Range(s) : r.file \in Nat
  <2>1. \A r \in Range(s) : r \in Rows
    BY DEF Range
  <2> QED BY <2>1 DEF Rows
<1>3. \A r \in Range(s) : Current(r)' => r.file <= m
  BY <1>1, <1>2 DEF UpTo
<1> QED BY <1>3 DEF UpTo

LEMMA NoneUpTo ==
  ASSUME NEW s, NEW m, NEW x \in Repeats, ask.append, ask' = ask,
         x \in faults', x \notin faults, \A r \in Range(s) : r.after \subseteq faults
  PROVE  UpTo(s, m)'
<1>1. Repeats' = Repeats
  BY DEF Repeats
<1>2. \A r \in Range(s) : ~Current(r)'
  BY <1>1 DEF Current
<1> QED BY <1>2 DEF UpTo

LEMMA Bounds ==
  ASSUME TypeOK
  PROVE  LastBound \in Nat /\ StampBound \in Nat
BY DEF TypeOK, LastBound, StampBound

LEMMA StampOrdered ==
  ASSUME Going, NoneLeft, Ordered, Stamp, Going'
  PROVE  Ordered'
<1> SUFFICES ASSUME ask.append => Appends PROVE Ordered'
  <2>1. ask' = ask
    BY DEF Stamp
  <2> QED BY <2>1 DEF Ordered, Appends
<1>1. Kept' = Kept
  BY KeptMoves DEF Moves
<1>2. /\ pc = "stamp" /\ pc' = "report" /\ disk' = disk /\ buf' = buf /\ ask' = ask
      /\ last' = last /\ lastCut' = lastCut /\ faults \subseteq faults'
  BY DEF Stamp, Fails
<1>3. Reading /\ ~Reading'
  BY <1>2 DEF Reading
<1>4. /\ \A r \in Range(Kept) : r.after \subseteq faults
      /\ InOrder(Kept) /\ UpTo(Kept, LastBound)
      /\ ask.append /\ ~ask.now => UpTo(disk \o buf, StampBound)
  BY <1>3 DEF Ordered
<1>5. PICK s \in Seq(Rows), d \in Seq(Rows), t \in Seq(Rows) :
        s = Kept /\ d = disk \o buf /\ t = Held /\ s = d \o t
  BY KeptType DEF Going
<1>6. Range(d) \subseteq Range(s)
  <2>1. Range(d \o t) = Range(d) \cup Range(t)
    BY RangeJoin
  <2> QED BY <1>5, <2>1
<1>7. PICK b \in Nat, l \in Nat, m \in Nat : b = StampBound /\ l = LastBound /\ m = StampBound'
  <2>1. StampBound' \in Nat
    BY DEF Going, TypeOK, StampBound
  <2> QED BY <2>1, Bounds DEF Going
<1>8. ASSUME ask.append PROVE UpTo(s, m)' /\ (~ask.now => UpTo(d, m)')
  <2>1. ask.processed = None
    BY <1>8 DEF Appends
  <2>2. CASE \E x \in {"stamp", "short"} : Fails(x)
    <3>1. PICK x \in {"stamp", "short"} : x \in faults' /\ x \notin faults
      BY <2>2 DEF Fails
    <3>2. x \in Repeats
      BY DEF Repeats
    <3>3. \A r \in Range(s) : r.after \subseteq faults
      BY <1>4, <1>5
    <3>4. \A r \in Range(d) : r.after \subseteq faults
      BY <1>6, <3>3
    <3> QED BY <1>2, <1>8, <3>1, <3>2, <3>3, <3>4, NoneUpTo
  <2>3. CASE ~\E x \in {"stamp", "short"} : Fails(x)
    <3>1. \/ last # None /\ stamp' = last /\ stampCut' = lastCut
          \/ last = None /\ stamp' = stamp /\ stampCut' = stampCut
      BY <2>3 DEF Stamp, StampMoves
    <3>2. stamp \in Nat /\ last \in Nat /\ stamp' >= stamp /\ (lastCut => stampCut)
      BY <1>3, <2>1, StampGoing DEF Going, TypeOK, Placed
    <3>6. /\ m = (IF stampCut' THEN 0 ELSE stamp') /\ b = (IF stampCut THEN 0 ELSE stamp)
          /\ l = 0 \/ (~lastCut /\ l = last)
      BY <1>7 DEF LastBound, StampBound
    <3>7. ASSUME last # None, stamp' = last, stampCut' = lastCut PROVE l <= m /\ b <= m
      <4>1. l = 0 \/ l = m
        BY <3>6, <3>7
      <4>2. b = 0 \/ (m = stamp' /\ b = stamp)
        BY <3>2, <3>6, <3>7
      <4> QED BY <1>7, <3>2, <4>1, <4>2
    <3>8. ASSUME last = None, stamp' = stamp, stampCut' = stampCut PROVE l <= m /\ b <= m
      BY <1>7, <3>6, <3>8 DEF None
    <3>3. l <= m
      BY <3>1, <3>7, <3>8
    <3>4. b <= m
      BY <3>1, <3>7, <3>8
    <3>5. UpTo(s, l) /\ (~ask.now => UpTo(d, b))
      BY <1>4, <1>5, <1>7, <1>8
    <3> QED BY <1>2, <3>3, <3>4, <3>5, StayUpTo
  <2> QED BY <2>2, <2>3
<1>9. \A r \in Range(Kept') : r.after \subseteq faults'
  BY <1>1, <1>2, <1>4
<1>10. InOrder(Kept)'
  <2>1. \A r, q : Follows(r, q)' = Follows(r, q)
    BY <1>2 DEF Follows, Less, Repeats
  <2> QED BY <1>1, <1>4, <2>1 DEF InOrder
<1>11. ask'.append => UpTo(Kept, StampBound)'
  <2>1. Kept' = s /\ StampBound' = m
    BY <1>1, <1>5, <1>7
  <2> QED BY <1>2, <1>8, <2>1 DEF UpTo
<1>12. ask'.append /\ ~ask'.now => UpTo(disk \o buf, StampBound)'
  <2>1. disk' \o buf' = d /\ StampBound' = m
    BY <1>2, <1>5, <1>7
  <2> QED BY <1>2, <1>8, <2>1 DEF UpTo
<1> QED BY <1>3, <1>9, <1>10, <1>11, <1>12 DEF Ordered

LEMMA MovesOrdered ==
  ASSUME Going, NoneLeft, Ordered, Moves, ~Stamp, Going'
  PROVE  Ordered'
<1>1. Kept' = Kept
  BY KeptMoves
<1>2. /\ UNCHANGED <<ask, stamp, stampCut, last, lastCut, faults, fits_list>>
      /\ pc' = pc \/ (pc = "loop" /\ pc' = "stamp") \/ (pc = "report" /\ pc' = "close")
      /\ i' = i \/ (InLoop /\ i' = i + 1)
  BY DEF Moves, Record, Complete, Archive, NoBegin, Unreadable, LoopEnds, Report,
         Flush, vars, run
<1>3. Reading' = Reading /\ faults \subseteq faults'
  BY <1>2 DEF Reading
<1> SUFFICES ASSUME ask.append => Appends PROVE Ordered'
  BY <1>2 DEF Ordered, Appends
<1>4. /\ \A r \in Range(Kept) : r.after \subseteq faults
      /\ InOrder(Kept) /\ (Reading => UpTo(Kept, LastBound))
      /\ ask.append => /\ ~Reading => UpTo(Kept, StampBound)
                       /\ ~ask.now => UpTo(disk \o buf, StampBound)
  BY DEF Ordered
<1>5. PICK s \in Seq(Rows), d \in Seq(Rows), t \in Seq(Rows) :
        s = Kept /\ d = disk' \o buf' /\ t = disk \o buf
  <2>1. disk' \in Seq(Rows) /\ buf' \in Seq(Rows)
    BY DEF Going, TypeOK
  <2>2. disk' \o buf' \in Seq(Rows)
    BY <2>1
  <2> QED BY <2>2, KeptType DEF Going
<1>6. PICK b \in Nat, l \in Nat, m \in Nat :
        b = StampBound /\ StampBound' = b /\ l = LastBound /\ m = LastBound'
  <2>1. LastBound' \in Nat
    BY DEF Going, TypeOK, LastBound
  <2>2. StampBound' = StampBound
    BY <1>2 DEF StampBound
  <2> QED BY <2>1, <2>2, Bounds DEF Going
<1>7. Reading => l <= m
  <2> SUFFICES ASSUME Reading PROVE l <= m
    OBVIOUS
  <2>1. CASE i' = i
    <3>1. Come' = Come
      BY <1>2, <2>1 DEF Come, Base
    <3> QED BY <1>2, <1>6, <3>1 DEF LastBound
  <2>2. CASE InLoop /\ i' = i + 1
    <3>1. Come' = Come + 1 /\ Come \in Nat /\ last \in Nat
      <4>1. i \in Nat /\ Base \in Nat /\ Come = Base + i /\ last \in Nat
        BY <2>2, NextFile
      <4>2. Base' = Base
        BY <1>2 DEF Base
      <4> QED BY <2>2, <4>1, <4>2 DEF Come
    <3> QED BY <1>2, <1>6, <3>1 DEF LastBound
  <2> QED BY <1>2, <2>1, <2>2
<1>8. \A r \in Range(Kept') : r.after \subseteq faults'
  BY <1>1, <1>2, <1>4
<1>9. InOrder(Kept)'
  <2>1. \A r, q : Follows(r, q)' = Follows(r, q)
    BY <1>2 DEF Follows, Less, Repeats
  <2> QED BY <1>1, <1>4, <2>1 DEF InOrder
<1>10. Reading' => UpTo(Kept, LastBound)'
  <2>1. Reading => UpTo(s, m)'
    BY <1>2, <1>3, <1>4, <1>5, <1>6, <1>7, StayUpTo
  <2> QED BY <1>1, <1>3, <1>5, <1>6, <2>1 DEF UpTo
<1>11. ask.append /\ ~Reading => UpTo(Kept, StampBound)'
  <2>1. ask.append /\ ~Reading => UpTo(s, b)'
    BY <1>2, <1>3, <1>4, <1>5, <1>6, StayUpTo
  <2> QED BY <1>1, <1>5, <1>6, <2>1 DEF UpTo
<1>12. ask.append /\ ~ask.now => UpTo(disk \o buf, StampBound)'
  <2> SUFFICES ASSUME ask.append, ~ask.now PROVE UpTo(disk \o buf, StampBound)'
    OBVIOUS
  <2>1. d = t \/ (d = s /\ ~Reading)
    <3>1. CASE Report
      <4>1. Held = power /\ ~Reading /\ disk' = disk /\ buf' = buf \o power
        BY <3>1 DEF Report, Held, Reading
      <4> QED BY <1>5, <4>1 DEF Kept
    <3>2. CASE Flush
      BY <1>5, <3>2, FlushMoves DEF Going
    <3>3. CASE ~Report /\ ~Flush
      <4>1. disk' = disk /\ buf' = buf
        BY <3>3 DEF Moves, Record, Complete, Archive, NoBegin, Unreadable, LoopEnds, vars, run
      <4> QED BY <1>5, <4>1
    <3> QED BY <3>1, <3>2, <3>3
  <2>2. UpTo(d, b)
    BY <1>4, <1>5, <1>6, <2>1
  <2>3. UpTo(d, b)'
    BY <1>2, <1>3, <2>2, StayUpTo
  <2>4. disk' \o buf' = d /\ StampBound' = b
    BY <1>5, <1>6
  <2> QED BY <2>3, <2>4 DEF UpTo
<1> QED BY <1>2, <1>3, <1>8, <1>9, <1>10, <1>11, <1>12 DEF Ordered

LEMMA ReadOrdered ==
  ASSUME Going, NoneLeft, Ordered, Read
  PROVE  Ordered'
<1>1. /\ Kept' = Kept \o RowsOf(Come + 1)
      /\ Come + 1 \in Nat /\ fits_list[1] \in Nat /\ ask \in Options
      /\ RowsOf(Come + 1) \in Seq(Rows)
      /\ ~ask.now => disk' \o buf' = disk \o buf
  BY KeptRead
<1>2. /\ UNCHANGED <<ask, stamp, stampCut, faults, pc>> /\ pc = "loop" /\ InLoop
  BY DEF Read, InLoop
<1>3. last' = Come + 1 /\ lastCut' = FALSE /\ Come' = Come + 1 /\ Come \in Nat
  <2>1. Base \in Nat /\ i \in Nat /\ Come = Base + i
    BY <1>2, NextFile
  <2> QED BY <2>1, ReadGoing
<1>4. Reading /\ Reading'
  BY <1>2 DEF Reading
<1> SUFFICES ASSUME ask.append => Appends PROVE Ordered'
  BY <1>2 DEF Ordered, Appends
<1>5. /\ \A r \in Range(Kept) : r.after \subseteq faults
      /\ InOrder(Kept) /\ UpTo(Kept, LastBound)
      /\ ask.append /\ ~ask.now => UpTo(disk \o buf, StampBound)
  BY <1>4 DEF Ordered
<1>6. PICK f \in Nat : f = Come + 1
  BY <1>1
<1>7. PICK rows \in Seq(Rows) : rows = RowsOf(f)
  BY <1>1, <1>6
<1>8. InOrder(rows) /\ \A r \in Range(rows) : r.file = f /\ r.after = faults
  <2>1. faults \in SUBSET Faults
    BY DEF Going, TypeOK
  <2>2. /\ InOrder(RowsOf(f))
        /\ \A k \in DOMAIN RowsOf(f) : \E y \in Accepted(f) : RowsOf(f)[k] = RowAt(f, y)
    BY <1>1, <2>1, RowsOfFile
  <2>3. \A k \in DOMAIN rows : rows[k].file = f /\ rows[k].after = faults
    BY <1>7, <2>2 DEF RowAt
  <2> QED BY <1>7, <2>2, <2>3 DEF Range
<1>9. PICK s \in Seq(Rows) : s = Kept
  BY KeptType DEF Going
<1>10. LastBound \in Nat /\ LastBound < f
  <2>1. last \in Nat
    BY DEF Going, TypeOK
  <2> QED BY <1>3, <1>6, <2>1 DEF LastBound
<1>11. \A r \in Range(s) : r.file \in Nat /\ r.after \subseteq faults /\ (Current(r) => r.file < f)
  <2>1. \A r \in Range(s) : r \in Rows
    BY DEF Range
  <2>2. \A r \in Range(s) : r.file \in Nat
    BY <2>1 DEF Rows
  <2>3. \A r \in Range(s) : Current(r) => r.file <= LastBound
    BY <1>5, <1>9 DEF UpTo
  <2> QED BY <1>5, <1>9, <1>10, <2>2, <2>3
<1>12. InOrder(s \o rows)
  <2>1. ASSUME NEW r \in Range(s), NEW q \in Range(rows) PROVE Follows(r, q)
    <3>1. q.file = f /\ q.after = faults
      BY <1>8
    <3>2. CASE Current(r)
      BY <1>11, <3>1, <3>2 DEF Follows, Less
    <3>3. CASE ~Current(r)
      BY <3>1, <3>3 DEF Follows, Current
    <3> QED BY <3>2, <3>3
  <2> QED BY <1>5, <1>8, <1>9, <2>1, JoinOrder
<1>13. /\ Range(s \o rows) = Range(s) \cup Range(rows)
      /\ Kept' = s \o rows /\ LastBound' = f
  <2>1. LastBound' = f
    BY <1>3, <1>6 DEF LastBound
  <2> QED BY <1>1, <1>6, <1>7, <1>9, <2>1, RangeJoin
<1>14. \A r \in Range(Kept') : r.after \subseteq faults'
  BY <1>2, <1>8, <1>11, <1>13
<1>15. InOrder(Kept)'
  <2>1. \A r, q : Follows(r, q)' = Follows(r, q)
    BY <1>2 DEF Follows, Less, Repeats
  <2> QED BY <1>12, <1>13, <2>1 DEF InOrder
<1>16. UpTo(Kept, LastBound)'
  <2>1. \A r : Current(r)' = Current(r)
    BY <1>2 DEF Current, Repeats
  <2>2. ASSUME NEW r \in Range(s \o rows), Current(r) PROVE r.file <= f
    <3>1. CASE r \in Range(s)
      BY <1>11, <2>2, <3>1
    <3>2. CASE r \in Range(rows)
      BY <1>8, <3>2
    <3> QED BY <1>13, <3>1, <3>2
  <2> QED BY <1>13, <2>1, <2>2 DEF UpTo
<1>17. ask.append /\ ~ask.now => UpTo(disk \o buf, StampBound)'
  <2>1. \A r : Current(r)' = Current(r)
    BY <1>2 DEF Current, Repeats
  <2>2. StampBound' = StampBound
    BY <1>2 DEF StampBound
  <2> QED BY <1>1, <1>5, <2>1, <2>2 DEF UpTo
<1> QED BY <1>2, <1>4, <1>14, <1>15, <1>16, <1>17 DEF Ordered

LEMMA BeginOrdered ==
  ASSUME GrowingNames, Going, NoneLeft, Ordered, Begin, Going'
  PROVE  Ordered'
<1>1. Kept' = (IF ask.append THEN Kept ELSE <<>>) /\ Kept = disk
  BY KeptBegin
<1>2. /\ pc = "idle" /\ pc' = "loop" /\ buf' = <<>>
      /\ disk' = (IF ask.append THEN disk ELSE <<>>)
      /\ UNCHANGED <<ask, stamp, stampCut, faults>>
  BY DEF Begin
<1>3. ~Reading /\ Reading'
  BY <1>2 DEF Reading
<1> SUFFICES ASSUME ask.append => Appends PROVE Ordered'
  BY <1>2 DEF Ordered, Appends
<1>4. \A r : Current(r)' = Current(r)
  BY <1>2 DEF Current, Repeats
<1>5. CASE ask.append
  <2>1. ask.fromLast /\ ask.processed = None
    BY <1>5 DEF Appends
  <2>2. /\ \A r \in Range(Kept) : r.after \subseteq faults
        /\ InOrder(Kept) /\ UpTo(Kept, StampBound)
    BY <1>3, <1>5 DEF Ordered
  <2>3. Kept' = Kept /\ disk' \o buf' = Kept
    <3>1. disk \in Seq(Rows)
      BY DEF Going, TypeOK
    <3>2. disk \o <<>> = disk
      BY <3>1, ConcatEmptySeq
    <3> QED BY <1>1, <1>2, <1>5, <3>2
  <2>4. LastBound' = StampBound
    <3>1. last' = stamp /\ lastCut' = stampCut
      BY <2>1, BeginGoing DEF Going, TypeOK
    <3>2. ~stampCut => stamp <= Come'
      BY <2>1, BeginGoing
    <3>3. CASE stampCut
      BY <3>1, <3>3 DEF LastBound, StampBound
    <3>4. CASE ~stampCut
      <4>1. Come' \in Int /\ stamp \in Nat
        <5>1. fits_list'[1] \in Nat /\ i' \in Nat /\ stamp \in Nat
          BY <1>2 DEF Going, TypeOK, Listing
        <5> QED BY <5>1 DEF Come, Base
      <4>2. ~(last' > Come')
        BY <3>1, <3>2, <3>4, <4>1
      <4> QED BY <3>1, <3>4, <4>2 DEF LastBound, StampBound
    <3> QED BY <3>3, <3>4
  <2>5. StampBound' = StampBound
    BY <1>2 DEF StampBound
  <2>6. InOrder(Kept)'
    <3>1. \A r, q : Follows(r, q)' = Follows(r, q)
      BY <1>2 DEF Follows, Less, Repeats
    <3> QED BY <2>2, <2>3, <3>1 DEF InOrder
  <2>7. UpTo(Kept, LastBound)' /\ UpTo(disk \o buf, StampBound)'
    BY <1>4, <2>2, <2>3, <2>4, <2>5 DEF UpTo
  <2>8. \A r \in Range(Kept') : r.after \subseteq faults'
    BY <1>2, <2>2, <2>3
  <2> QED BY <1>2, <1>3, <2>6, <2>7, <2>8 DEF Ordered
<1>6. CASE ~ask.append
  <2>1. Kept' = <<>>
    BY <1>1, <1>6
  <2>2. Range(<<>>) = {}
    BY DEF Range
  <2>3. InOrder(Kept)' /\ UpTo(Kept, LastBound)'
    BY <2>1, <2>2 DEF InOrder, UpTo
  <2>4. \A r \in Range(Kept') : r.after \subseteq faults'
    BY <2>1, <2>2
  <2> QED BY <1>2, <1>3, <1>6, <2>3, <2>4 DEF Ordered
<1> QED BY <1>5, <1>6

LEMMA CloseOrdered ==
  ASSUME Going, NoneLeft, Ordered, Close, disk' = disk \o buf
  PROVE  Ordered'
<1>1. Kept' = Kept
  BY KeptClose
<1>2. /\ pc = "close" /\ pc' = "idle" /\ buf' = <<>>
      /\ UNCHANGED <<ask, stamp, stampCut>> /\ faults \subseteq faults'
  BY DEF Close, Fails
<1>3. ~Reading /\ ~Reading'
  BY <1>2 DEF Reading
<1> SUFFICES ASSUME ask.append => Appends PROVE Ordered'
  BY <1>2 DEF Ordered, Appends
<1>4. /\ \A r \in Range(Kept) : r.after \subseteq faults
      /\ InOrder(Kept) /\ (ask.append => UpTo(Kept, StampBound))
  BY <1>3 DEF Ordered
<1>5. disk' \o buf' = Kept
  <2>1. Held = <<>>
    BY <1>2 DEF Held
  <2>2. disk \o buf \in Seq(Rows) /\ Kept = (disk \o buf) \o <<>>
    BY <2>1, KeptType DEF Going
  <2> QED BY <1>2, <2>2
<1>6. PICK s \in Seq(Rows), b \in Nat : s = Kept /\ b = StampBound /\ StampBound' = b
  <2>1. StampBound' = StampBound
    BY <1>2 DEF StampBound
  <2> QED BY <2>1, KeptType, Bounds DEF Going
<1>7. ask.append => UpTo(s, b)'
  BY <1>2, <1>4, <1>6, StayUpTo
<1>8. ask.append => UpTo(Kept, StampBound)' /\ UpTo(disk \o buf, StampBound)'
  BY <1>1, <1>5, <1>6, <1>7 DEF UpTo
<1>9. InOrder(Kept)'
  <2>1. \A r, q : Follows(r, q)' = Follows(r, q)
    BY <1>2 DEF Follows, Less, Repeats
  <2> QED BY <1>1, <1>4, <2>1 DEF InOrder
<1>10. \A r \in Range(Kept') : r.after \subseteq faults'
  BY <1>1, <1>2, <1>4
<1> QED BY <1>2, <1>3, <1>8, <1>9, <1>10 DEF Ordered

LEMMA LosesOrdered ==
  ASSUME Going, NoneLeft, Ordered, Loses
  PROVE  Ordered'
<1>1. Kept' = disk
  BY KeptLost
<1>2. /\ pc' = "idle" /\ buf' = <<>> /\ disk' = disk
      /\ UNCHANGED <<ask, stamp, stampCut>> /\ faults \subseteq faults'
  BY DEF Loses, Close, Crash, Fails
<1>3. ~Reading'
  BY <1>2 DEF Reading
<1> SUFFICES ASSUME ask.append => Appends PROVE Ordered'
  BY <1>2 DEF Ordered, Appends
<1>4. PICK d \in Seq(Rows), t \in Seq(Rows), e \in Seq(Rows), b \in Nat :
        d = disk /\ t = buf \o Held /\ e = buf /\ b = StampBound /\ StampBound' = b
  <2>1. StampBound' = StampBound
    BY <1>2 DEF StampBound
  <2> QED BY <2>1, KeptType, Bounds DEF Going
<1>5. /\ \A r \in Range(d \o t) : r.after \subseteq faults
      /\ InOrder(d \o t)
      /\ ask.append => /\ ~Reading => UpTo(d \o t, b)
                       /\ ~ask.now => UpTo(d \o e, b)
  BY <1>4 DEF Ordered, Kept
<1>6. \A r \in Range(d) : r.after \subseteq faults
  BY <1>5, RangeJoin
<1>7. InOrder(d)
  BY <1>5, FirstOrder
<1>8. ASSUME ask.append PROVE UpTo(d, b)'
  <2>1. CASE ~ask.now
    <3>1. UpTo(d, b)
      BY <1>5, <1>8, <2>1, FewerUpTo
    <3> QED BY <1>2, <3>1, StayUpTo
  <2>2. CASE ask.now /\ Crash
    <3>1. "crash" \in faults' /\ "crash" \notin faults
      BY <2>2 DEF Crash, Fails
    <3>2. "crash" \in Repeats
      BY <2>2 DEF Repeats
    <3> QED BY <1>2, <1>6, <1>8, <3>1, <3>2, NoneUpTo
  <2>3. CASE Close
    <3>1. ~Reading
      BY <2>3 DEF Close, Reading
    <3>2. UpTo(d, b)
      BY <1>5, <1>8, <3>1, FewerUpTo
    <3> QED BY <1>2, <3>2, StayUpTo
  <2> QED BY <2>1, <2>2, <2>3 DEF Loses
<1>9. disk' \o buf' = d /\ Kept' = d
  <2>1. d \o <<>> = d
    BY ConcatEmptySeq
  <2> QED BY <1>1, <1>2, <1>4, <2>1
<1>10. ask.append => UpTo(Kept, StampBound)' /\ UpTo(disk \o buf, StampBound)'
  BY <1>4, <1>8, <1>9 DEF UpTo
<1>11. InOrder(Kept)'
  <2>1. \A r, q : Follows(r, q)' = Follows(r, q)
    BY <1>2 DEF Follows, Less, Repeats
  <2> QED BY <1>7, <1>9, <2>1 DEF InOrder
<1>12. \A r \in Range(Kept') : r.after \subseteq faults'
  BY <1>2, <1>6, <1>9
<1> QED BY <1>2, <1>3, <1>10, <1>11, <1>12 DEF Ordered

LEMMA OrderedNext ==
  ASSUME GrowingNames, Going, NoneLeft, Ordered, [Next]_vars, Going'
  PROVE  Ordered'
<1>1. CASE Stamp
  BY <1>1, StampOrdered
<1>2. CASE Moves /\ ~Stamp
  BY <1>2, MovesOrdered
<1>3. CASE Read
  BY <1>3, ReadOrdered
<1>4. CASE Begin
  BY <1>4, BeginOrdered
<1>5. CASE Close
  <2>1. disk' = disk \o buf \/ disk' = disk
    BY <1>5 DEF Close
  <2>2. CASE disk' = disk \o buf
    BY <1>5, <2>2, CloseOrdered
  <2>3. CASE disk' = disk
    BY <1>5, <2>3, LosesOrdered DEF Loses
  <2> QED BY <2>1, <2>2, <2>3
<1>6. CASE Crash
  <2>1. disk' = disk
    BY <1>6 DEF Crash
  <2> QED BY <1>6, <2>1, LosesOrdered DEF Loses
<1> QED BY <1>1, <1>2, <1>3, <1>4, <1>5, <1>6 DEF Next, Program, Moves

-----------------------------------------------------------------------------
(* Rows of one run have the time of their integration. *)
LEMMA TimedNext ==
  ASSUME Going, NoneLeft, Timed, [Next]_vars
  PROVE  Timed'
<1>1. ask' = ask
  BY DEF Next, Program, Record, Complete, Archive, Begin, NoBegin, Read, Unreadable,
         LoopEnds, Stamp, Report, Flush, Close, Crash, vars, run
<1> SUFFICES ASSUME ~ask.append PROVE Timed'
  BY <1>1 DEF Timed
<1>2. \A r \in Range(Kept) :
        /\ fits_list[1] \in Nat /\ r.int \in Accepted(r.file)
        /\ r.t = Seconds(r.file, r.int)
  BY DEF Timed
<1>3. CASE Begin
  <2>1. Kept' = <<>>
    BY <1>3, KeptBegin
  <2>2. Range(<<>>) = {}
    BY DEF Range
  <2> QED BY <2>1, <2>2 DEF Timed
<1>4. CASE ~Begin
  <2>1. fits_list' = fits_list
    BY <1>4 DEF Next, Program, Record, Complete, Archive, NoBegin, Read, Unreadable,
       LoopEnds, Stamp, Report, Flush, Close, Crash, vars, run
  <2>2. \A f, y : Accepted(f)' = Accepted(f) /\ Seconds(f, y)' = Seconds(f, y)
    BY <1>1, <2>1 DEF Accepted, EndY, Seconds, Rank
  <2>3. \A r \in Range(Kept') :
          /\ fits_list[1] \in Nat /\ r.int \in Accepted(r.file)
          /\ r.t = Seconds(r.file, r.int)
    <3>1. CASE Moves
      BY <1>2, <3>1, KeptMoves
    <3>2. CASE Close /\ disk' = disk \o buf
      BY <1>2, <3>2, KeptClose
    <3>3. CASE Loses
      <4>1. Kept' = disk
        BY <3>3, KeptLost
      <4>2. disk \in Seq(Rows) /\ buf \o Held \in Seq(Rows) /\ Kept = disk \o (buf \o Held)
        BY KeptType DEF Going, Kept
      <4>3. PICK t \in Seq(Rows) : t = buf \o Held
        BY <4>2
      <4>4. Range(disk \o t) = Range(disk) \cup Range(t)
        BY <4>2, RangeJoin
      <4> QED BY <1>2, <4>1, <4>2, <4>3, <4>4
    <3>4. CASE Read
      <4>1. /\ Kept' = Kept \o RowsOf(Come + 1)
            /\ Come + 1 \in Nat /\ fits_list[1] \in Nat /\ ask \in Options
            /\ RowsOf(Come + 1) \in Seq(Rows)
        BY <3>4, KeptRead
      <4>2. PICK f \in Nat : f = Come + 1
        BY <4>1
      <4>3. PICK rows \in Seq(Rows), s \in Seq(Rows) : rows = RowsOf(f) /\ s = Kept
        BY <4>1, <4>2, KeptType DEF Going
      <4>4. \A k \in DOMAIN RowsOf(f) : \E y \in Accepted(f) : RowsOf(f)[k] = RowAt(f, y)
        BY <4>1, RowsOfFile DEF Going, TypeOK
      <4>5. \A r \in Range(rows) : \E y \in Accepted(f) : r = RowAt(f, y)
        BY <4>3, <4>4 DEF Range
      <4>6. \A r \in Range(rows) : r.int \in Accepted(r.file) /\ r.t = Seconds(r.file, r.int)
        BY <4>5 DEF RowAt
      <4>7. Range(s \o rows) = Range(s) \cup Range(rows)
        BY RangeJoin
      <4>8. Kept' = s \o rows
        BY <4>1, <4>2, <4>3
      <4>9. \A r \in Range(s) : r.int \in Accepted(r.file) /\ r.t = Seconds(r.file, r.int)
        BY <1>2, <4>3
      <4> QED BY <4>1, <4>6, <4>7, <4>8, <4>9
    <3>5. Moves \/ Read \/ Loses \/ (Close /\ disk' = disk \o buf)
      BY <1>4 DEF Next, Program, Moves, Loses, Close, Crash
    <3> QED BY <3>1, <3>2, <3>3, <3>4, <3>5
  <2> QED BY <2>1, <2>2, <2>3 DEF Timed
<1> QED BY <1>3, <1>4

(* A row has as many before it as its integration, if none was left out.    *)
LEMMA StraightRank ==
  ASSUME ask \in Options, ask.minY = 0, NEW f, NEW y \in Accepted(f),
         \A x \in 0 .. y - 1 : <<f, x>> \notin Cut
  PROVE  Rank(f, y) = y
<1>1. EndY \in Nat
  BY TotalPowerAssumption DEF Options, EndY
<1>2. y \in Nat /\ y <= EndY - 1
  BY <1>1 DEF Accepted
<1>3. {x \in Accepted(f) : x < y} = 0 .. y - 1
  <2>1. \A x \in Accepted(f) : x < y => x \in 0 .. y - 1
    BY <1>1, <1>2 DEF Accepted
  <2>2. \A x \in 0 .. y - 1 : x \in Accepted(f) /\ x < y
    BY <1>1, <1>2 DEF Accepted
  <2> QED BY <2>1, <2>2
<1>4. Cardinality(0 .. y - 1) = y
  <2>1. 0 \in Int /\ y - 1 \in Int
    BY <1>2
  <2>2. Cardinality(0 .. y - 1) = IF 0 > y - 1 THEN 0 ELSE (y - 1) - 0 + 1
    BY <2>1, FS_Interval
  <2> QED BY <1>2, <2>2
<1> QED BY <1>3, <1>4 DEF Rank

LEMMA FollowingRight ==
  ASSUME Going, Following
  PROVE  RowsFollow
<1>1. /\ disk \in Seq(Rows) /\ buf \o Held \in Seq(Rows) /\ Kept = disk \o (buf \o Held)
      /\ Kept \in Seq(Rows) /\ Len(disk) \in Nat /\ DOMAIN disk = 1 .. Len(disk)
  BY KeptType DEF Going, Kept
<1>2. PICK t \in Seq(Rows) : t = buf \o Held
  BY <1>1
<1>3. OnceInOrder
  <2> SUFFICES ASSUME ask.append => Appends PROVE InOrder(disk)
    BY DEF OnceInOrder, InOrder
  <2>1. InOrder(disk \o t)
    BY <1>1, <1>2 DEF Following, Ordered
  <2> QED BY <1>1, <2>1, FirstOrder
<1>4. SecondsSinceStart
  <2> SUFFICES ASSUME ~ask.append, ask.minY = 0, NEW k \in 1 .. Len(disk) - 1,
                      Straight(disk[k]), Straight(disk[k + 1])
               PROVE  disk[k + 1].t - disk[k].t
                        = Time(disk[k + 1].file, disk[k + 1].int) - Time(disk[k].file, disk[k].int)
    BY DEF SecondsSinceStart
  <2>0. ask.minY = 0
    OBVIOUS
  <2>1. Range(disk \o t) = Range(disk) \cup Range(t)
    BY <1>1, RangeJoin
  <2>2. k \in DOMAIN disk /\ k + 1 \in DOMAIN disk
    BY <1>1
  <2>3. ASSUME NEW r \in Range(disk), Straight(r)
        PROVE  r.t = Time(r.file, r.int) - Time(fits_list[1], 0)
               /\ Time(r.file, r.int) \in Int /\ Time(fits_list[1], 0) \in Int
    <3>1. PICK y \in Accepted(r.file) : y = r.int /\ r.t = Seconds(r.file, y)
      BY <1>1, <1>2, <2>1 DEF Following, Timed
    <3>2. fits_list[1] \in Nat
      BY <1>1, <1>2, <2>1 DEF Following, Timed
    <3>3. PICK f : f = r.file
      OBVIOUS
    <3>4. f \in Nat
      <4>1. r \in Rows
        BY <1>1 DEF Range
      <4> QED BY <3>3, <4>1 DEF Rows
    <3>5. r.int = y /\ r.t = Time(f, 0) - Time(fits_list[1], 0) + Rank(f, y)
      BY <3>1, <3>3 DEF Seconds
    <3>6. ask \in Options
      BY TotalPowerAssumption DEF Going, TypeOK
    <3>7. \A x \in 0 .. y - 1 : <<f, x>> \notin Cut
      BY <2>3, <3>3, <3>5 DEF Straight
    <3>8. Rank(f, y) = y /\ y \in Nat
      <4>1. y \in Accepted(f)
        BY <3>3
      <4>2. Rank(f, y) = y
        BY <2>0, <3>6, <3>7, <4>1, StraightRank
      <4>3. Accepted(f) \subseteq Nat
        BY <3>6, AcceptedFinite
      <4> QED BY <4>1, <4>2, <4>3
    <3>9. PICK g \in Nat, h \in Nat : g = f * Gap /\ h = fits_list[1] * Gap
      <4>1. \A m, n \in Nat : m * n \in Nat
        OBVIOUS
      <4>2. f * Gap \in Nat /\ fits_list[1] * Gap \in Nat
        BY <3>2, <3>4, <4>1, TotalPowerAssumption
      <4> QED BY <4>2
    <3>10. Time(f, 0) = g /\ Time(f, y) = g + y /\ Time(fits_list[1], 0) = h
      BY <3>9 DEF Time
    <3> QED BY <3>3, <3>5, <3>8, <3>9, <3>10
  <2>4. disk[k] \in Range(disk) /\ disk[k + 1] \in Range(disk)
    BY <2>2 DEF Range
  <2>5. PICK r \in Range(disk), q \in Range(disk) : r = disk[k] /\ q = disk[k + 1]
    BY <2>4
  <2>6. Straight(r) /\ Straight(q)
    BY <2>5
  <2>7. \A a, b, c \in Int : (b - c) - (a - c) = b - a
    OBVIOUS
  <2>8. q.t - r.t = Time(q.file, q.int) - Time(r.file, r.int)
    BY <2>3, <2>6, <2>7
  <2> QED BY <2>5, <2>8
<1> QED BY <1>3, <1>4 DEF RowsFollow

LEMMA InitFollowing ==
  ASSUME Init
  PROVE  Following
<1>1. disk = <<>> /\ buf = <<>> /\ power = <<>> /\ pc = "idle"
  BY DEF Init
<1>2. Held = <<>>
  BY <1>1 DEF Held
<1>3. <<>> \o <<>> = <<>>
  OBVIOUS
<1>4. Kept = <<>> /\ disk \o buf = <<>>
  BY <1>1, <1>2, <1>3 DEF Kept
<1>5. Range(<<>>) = {} /\ InOrder(<<>>) /\ \A n : UpTo(<<>>, n)
  BY DEF Range, InOrder, UpTo
<1> QED BY <1>1, <1>4, <1>5 DEF Following, NoneLeft, Ordered, Timed

(* However many runs wrote them and whatever goes wrong, the rows of the     *)
(* output are in the order of time and none is there twice, but for what is  *)
(* read again because the stamp was lost, cut short, or, with write_now, not *)
(* yet written when the program was killed; each of these has rows read      *)
(* again once.  In the output of one run they are as far apart in seconds as *)
(* their data (the list of the loop, main of total_power_vert.cpp).  The     *)
(* rows there are, on the disk and on their way to it, are in this order,    *)
(* and those no fault came behind end where the run is or where the stamp    *)
(* says.                                                                     *)
THEOREM RowsInOrder ==
  ASSUME GrowingNames
  PROVE  Spec => []RowsFollow
<1>1. Init => Going /\ Following
  BY InitGoing, InitFollowing
<1>2. Going /\ Following /\ [Next]_vars => Going' /\ Following'
  BY NextGoing, NoneLeftNext, OrderedNext, TimedNext DEF Following
<1>3. Going /\ Following => RowsFollow
  BY FollowingRight
<1> QED BY <1>1, <1>2, <1>3, PTL DEF Spec

-----------------------------------------------------------------------------
(* A program that begins anew passes over what it cannot read, again.       *)
LEMMA PassedNext ==
  ASSUME OwnNames, Going, PassedBefore, [Next]_vars
  PROVE  PassedBefore'
<1>1. ask' = ask /\ bad' \subseteq bad /\ skipped \subseteq skipped'
  <2>1. CASE Stamp
    BY <2>1 DEF Stamp, StampMoves
  <2>2. CASE Begin \/ Read \/ Unreadable \/ NoBegin \/ LoopEnds
    BY <2>2 DEF Begin, Read, Unreadable, NoBegin, LoopEnds
  <2>3. CASE Record \/ Complete \/ Archive \/ Report \/ Flush \/ Close \/ Crash
              \/ UNCHANGED vars
    BY <2>3 DEF Record, Complete, Archive, Report, Flush, Close, Crash, vars
  <2> QED BY <2>1, <2>2, <2>3 DEF Next, Program
<1> SUFFICES ASSUME ~ask.fromLast, ask.processed = None PROVE PassedBefore'
  BY <1>1 DEF PassedBefore
<1>2. /\ \A f \in 1 .. stamp : f \in bad => f \in skipped
      /\ Reading => /\ \A f \in passed : f <= stamp => f \in skipped
                    /\ \A f \in Base + 1 .. Come : f \in bad => f \in passed
  BY DEF PassedBefore
<1>3. stamp \in Nat
  BY DEF Going, TypeOK
<1>4. CASE Begin
  <2>1. Base' = low /\ i' = 0 /\ passed' = {} /\ stamp' = stamp /\ low \in Nat
    BY <1>4, BeginGoing DEF Going, TypeOK
  <2>2. Base' + 1 .. Come' = {}
    BY <2>1 DEF Come
  <2> QED BY <1>1, <1>2, <2>1, <2>2 DEF PassedBefore
<1>5. CASE Read
  <2>1. /\ Come' = Come + 1 /\ last' = Come + 1 /\ Base' = Base /\ last' \notin bad
    BY <1>5, ReadGoing DEF Read
  <2>2. passed' = passed /\ stamp' = stamp /\ pc = "loop" /\ pc' = "loop" /\ skipped' = skipped
    BY <1>5 DEF Read, InLoop
  <2>3. Reading
    BY <2>2 DEF Reading
  <2>4. Base \in Nat /\ Come \in Nat
    BY <1>5, NextFile DEF Read
  <2>5. ASSUME NEW f \in Base + 1 .. Come + 1, f \in bad PROVE f \in passed
    <3>1. f # Come + 1
      BY <1>5, <2>1, <2>5
    <3> QED BY <1>2, <2>3, <2>4, <2>5, <3>1
  <2> QED BY <1>1, <1>2, <2>1, <2>2, <2>3, <2>5 DEF PassedBefore
<1>6. CASE Unreadable
  <2>1. /\ Come' = Come + 1 /\ Base' = Base
        /\ passed' = passed \cup {Come + 1} /\ Come + 1 \in bad
    BY <1>6, UnreadableGoing
  <2>2. stamp' = stamp /\ pc = "loop" /\ skipped' = skipped
    BY <1>6 DEF Unreadable, InLoop
  <2>3. Reading
    BY <2>2 DEF Reading
  <2>4. Base \in Nat /\ Come + 1 \in Nat \ {0} /\ Come \in Nat
    BY <1>6, NextFile DEF Unreadable, Files
  <2>5. \A f \in passed' : f <= stamp => f \in skipped
    BY <1>2, <1>3, <2>1, <2>3, <2>4
  <2>6. \A f \in Base + 1 .. Come + 1 : f \in bad => f \in passed'
    BY <1>2, <2>1, <2>3, <2>4
  <2> QED BY <1>1, <1>2, <2>1, <2>2, <2>5, <2>6 DEF PassedBefore
<1>7. CASE Stamp
  <2>1. /\ Reading /\ ~Reading' /\ skipped \subseteq skipped'
        /\ \/ stamp' = last /\ skipped' = skipped \cup {f \in passed : f < last}
           \/ stamp' = stamp
    BY <1>1, <1>7 DEF Stamp, StampMoves, Reading
  <2>2. CASE stamp' = stamp
    BY <1>1, <1>2, <2>1, <2>2 DEF PassedBefore
  <2>3. CASE stamp' = last /\ skipped' = skipped \cup {f \in passed : f < last}
    <3>1. last <= Come /\ last \notin bad /\ Come \in Nat /\ Base \in Nat /\ Base <= low
          /\ low \in Nat /\ low <= stamp /\ last \in Nat
      <4>1. pc = "stamp" /\ Reading
        BY <1>7 DEF Stamp, Reading
      <4>2. low \in Nat /\ last \in Nat /\ low <= stamp /\ last \notin bad /\ last <= ListEnd
        BY <4>1 DEF Going, TypeOK, Behind
      <4>3. fits_list[1] \in Nat \ {0} /\ Base <= low /\ i = Len(fits_list) /\ i \in Nat
        BY <4>1 DEF Going, TypeOK, Listing, Placed
      <4>4. Come = ListEnd /\ Base \in Nat /\ Come \in Nat
        BY <4>3 DEF Come, ListEnd, Base
      <4> QED BY <4>2, <4>3, <4>4
    <3>2. ASSUME NEW f \in 1 .. last, f \in bad PROVE f \in skipped'
      <4>1. CASE f <= stamp
        BY <1>2, <1>3, <2>1, <3>1, <3>2, <4>1
      <4>2. CASE ~(f <= stamp)
        <5>1. f \in Base + 1 .. Come /\ f # last /\ f < last
          BY <1>3, <3>1, <3>2, <4>2
        <5>2. f \in passed
          BY <1>2, <2>1, <3>2, <5>1
        <5> QED BY <2>3, <5>1, <5>2
      <4> QED BY <4>1, <4>2
    <3> QED BY <1>1, <2>1, <2>3, <3>2 DEF PassedBefore
  <2> QED BY <2>1, <2>2, <2>3
<1>8. CASE ~Begin /\ ~Read /\ ~Unreadable /\ ~Stamp
  <2>0. \/ Record \/ Complete \/ Archive \/ NoBegin \/ LoopEnds \/ Report \/ Flush
        \/ Close \/ Crash \/ UNCHANGED vars
    BY <1>8 DEF Next, Program
  <2>1. UNCHANGED <<stamp, passed, skipped, fits_list, i>>
    BY <2>0 DEF Record, Complete, Archive, NoBegin, LoopEnds, Report, Flush, Close, Crash,
       vars, run
  <2>2. pc' = pc \/ pc' \in {"idle", "close"} \/ (pc' = "stamp" /\ pc = "loop")
    BY <2>0 DEF Record, Complete, Archive, NoBegin, LoopEnds, Report, Flush, Close, Crash,
       vars, run
  <2>3. Base' = Base /\ Come' = Come /\ (Reading' => Reading)
    BY <2>1, <2>2 DEF Base, Come, Reading
  <2> QED BY <1>1, <1>2, <2>1, <2>3 DEF PassedBefore
<1> QED BY <1>4, <1>5, <1>6, <1>7, <1>8

(* What is held of a file stays, unless rows are lost. *)
LEMMA HasStays ==
  ASSUME Going, NoneLeft,
         \/ Moves \/ Read \/ (Close /\ disk' = disk \o buf)
         \/ (Begin /\ ask.append)
  PROVE  \A f : Has(f) => Has(f)'
<1>1. ask' = ask
  BY DEF Moves, Record, Complete, Archive, Begin, NoBegin, Read, Unreadable,
         LoopEnds, Stamp, Report, Flush, Close, vars, run
<1>2. \A f : Accepted(f)' = Accepted(f)
  BY <1>1 DEF Accepted, EndY
<1>3. Range(Kept) \subseteq Range(Kept')
  <2>1. CASE Read
    <3>1. Kept' = Kept \o RowsOf(Come + 1) /\ RowsOf(Come + 1) \in Seq(Rows)
      BY <2>1, KeptRead
    <3>2. PICK rows \in Seq(Rows), s \in Seq(Rows) : rows = RowsOf(Come + 1) /\ s = Kept
      BY <3>1, KeptType DEF Going
    <3>3. Range(s \o rows) = Range(s) \cup Range(rows)
      BY RangeJoin
    <3> QED BY <3>1, <3>2, <3>3
  <2>2. CASE ~Read
    <3>1. Kept' = Kept
      BY <2>2, KeptMoves, KeptClose, KeptBegin
    <3> QED BY <3>1
  <2> QED BY <2>1, <2>2
<1> QED BY <1>2, <1>3 DEF Has

LEMMA HasRead ==
  ASSUME Going, NoneLeft, Read
  PROVE  \A f : f = Come + 1 => Has(f)'
<1>1. /\ Kept' = Kept \o RowsOf(Come + 1)
      /\ Come + 1 \in Nat /\ fits_list[1] \in Nat /\ ask \in Options
      /\ RowsOf(Come + 1) \in Seq(Rows)
  BY KeptRead
<1>2. ask' = ask
  BY DEF Read
<1>3. \A f : Accepted(f)' = Accepted(f)
  BY <1>2 DEF Accepted, EndY
<1>4. PICK g \in Nat : g = Come + 1
  BY <1>1
<1>5. PICK rows \in Seq(Rows), s \in Seq(Rows) : rows = RowsOf(g) /\ s = Kept
  BY <1>1, <1>4, KeptType DEF Going
<1>6. \A y \in Accepted(g) : \E k \in DOMAIN RowsOf(g) : RowsOf(g)[k] = RowAt(g, y)
  BY <1>1, RowsOfFile DEF Going, TypeOK
<1>7. \A y \in Accepted(g) : \E r \in Range(rows) : r.file = g /\ r.int = y
  BY <1>5, <1>6 DEF Range, RowAt
<1>8. Range(s \o rows) = Range(s) \cup Range(rows)
  BY RangeJoin
<1>9. Kept' = s \o rows
  BY <1>1, <1>4, <1>5
<1>10. \A y \in Accepted(g) : \E r \in Range(Kept') : r.file = g /\ r.int = y
  BY <1>7, <1>8, <1>9
<1> QED BY <1>3, <1>4, <1>10 DEF Has

-----------------------------------------------------------------------------
(* The stamp moves over files that are held or were passed over.            *)
LEMMA AllReadStamp ==
  ASSUME Going, NoneLeft, PassedBefore, AllRead, Stamp, Unharmed'
  PROVE  AllRead'
<1>1. /\ pc = "stamp" /\ pc' = "report" /\ UNCHANGED <<ask, low>>
      /\ \/ stamp' = last /\ skipped' = skipped \cup {f \in passed : f < last}
         \/ stamp' = stamp /\ skipped' = skipped
      /\ faults \subseteq faults'
  BY DEF Stamp, StampMoves, Fails
<1>2. Unharmed /\ Reading /\ ~Reading' /\ (Appends' <=> Appends) /\ (Rewrites' <=> Rewrites)
  BY <1>1 DEF Unharmed, Reading, Appends, Rewrites
<1>3. /\ \A f \in Base + 1 .. Come : f \in passed \/ Has(f) \/ (ask.fromLast /\ f <= stamp)
      /\ Appends => \A f \in 1 .. stamp : f \in skipped \/ Has(f)
  BY <1>2 DEF AllRead
<1>4. \A f : Has(f) => Has(f)'
  BY HasStays DEF Moves
<1>5. /\ last <= Come /\ last \notin passed /\ last \in Nat /\ stamp \in Nat /\ low \in Nat
      /\ low <= stamp /\ Base \in Nat /\ Come \in Nat /\ Base <= low
      /\ stamp <= Come
  <2>0. ask.processed = None
    BY <1>2 DEF Unharmed, Appends, Rewrites
  <2>1. last \in Nat /\ stamp \in Nat /\ low \in Nat /\ low <= stamp
    BY <2>0 DEF Going, TypeOK, Behind
  <2>2. last <= ListEnd /\ last \notin passed
    BY <1>2, <2>0 DEF Going, Behind
  <2>3. Come = ListEnd /\ stamp <= ListEnd
    BY <2>0, StampGoing
  <2>4. fits_list[1] \in Nat \ {0} /\ Base <= low /\ Len(fits_list) \in Nat
    BY <1>1 DEF Going, Listing
  <2>5. Base \in Nat /\ Come \in Nat
    BY <2>3, <2>4 DEF Base, ListEnd
  <2> QED BY <2>1, <2>2, <2>3, <2>4, <2>5
<1>6. ASSUME Appends, NEW f \in 1 .. stamp' PROVE f \in skipped' \/ Has(f)'
  <2>1. CASE f <= stamp
    BY <1>1, <1>3, <1>4, <1>5, <1>6, <2>1
  <2>2. CASE ~(f <= stamp)
    <3>1. stamp' = last /\ skipped' = skipped \cup {g \in passed : g < last}
      BY <1>1, <1>5, <1>6, <2>2
    <3>2. f \in Base + 1 .. Come /\ f <= last
      BY <1>5, <1>6, <2>2, <3>1
    <3>3. f \in passed \/ Has(f)
      BY <1>3, <2>2, <3>2
    <3>4. f \in passed => f < last
      BY <1>5, <3>2
    <3> QED BY <1>4, <3>1, <3>3, <3>4
  <2> QED BY <2>1, <2>2
<1>7. ASSUME Rewrites, NEW f \in low + 1 .. stamp' PROVE f \in skipped' \/ Has(f)'
  <2>1. ~ask.fromLast /\ ask.processed = None
    BY <1>7 DEF Rewrites
  <2>2. f \in Base + 1 .. Come
    BY <1>1, <1>5, <1>7
  <2>3. f \in passed \/ Has(f)
    BY <1>3, <2>1, <2>2
  <2>4. f \in passed /\ f <= stamp => f \in skipped
    BY <1>2, <2>1 DEF PassedBefore
  <2>5. f \in passed /\ stamp' = last => f < last
    <3>1. f \in Nat /\ f <= stamp' /\ stamp' \in Nat
      BY <1>1, <1>5, <1>7
    <3> QED BY <1>5, <3>1
  <2> QED BY <1>1, <1>4, <1>5, <1>7, <2>3, <2>4, <2>5
<1> QED BY <1>1, <1>2, <1>6, <1>7 DEF AllRead

LEMMA AllReadLoop ==
  ASSUME OwnNames, Going, NoneLeft, AllRead, Unharmed',
         Begin \/ Read \/ Unreadable
  PROVE  AllRead'
<1>1. ask' = ask /\ stamp' = stamp /\ skipped' = skipped /\ faults' = faults /\ pc' = "loop"
  BY DEF Begin, Read, Unreadable, InLoop
<1>2. Unharmed /\ Reading' /\ (Appends' <=> Appends) /\ (Rewrites' <=> Rewrites)
  BY <1>1 DEF Unharmed, Appends, Rewrites, Reading
<1>3. /\ Reading => \A f \in Base + 1 .. Come :
           f \in passed \/ Has(f) \/ (ask.fromLast /\ f <= stamp)
      /\ Appends => \A f \in 1 .. stamp : f \in skipped \/ Has(f)
  BY <1>2 DEF AllRead
<1>4. Appends => \A f : Has(f) => Has(f)'
  BY HasStays DEF Moves, Appends
<1>5. Appends => \A f \in 1 .. stamp : f \in skipped \/ Has(f)'
  BY <1>3, <1>4
<1>6. \A f \in Base' + 1 .. Come' : f \in passed' \/ Has(f)' \/ (ask.fromLast /\ f <= stamp)
  <2>1. CASE Begin
    <3>1. ask.processed = None
      BY <1>2 DEF Unharmed, Appends, Rewrites
    <3>2. CASE Appends
      <4>1. ~stampCut
        BY <1>2, <3>2 DEF Unharmed, Going, CutShort, Appends, Rewrites
      <4> QED BY <2>1, <3>1, <4>1, BeginGoing
    <3>3. CASE Rewrites
      <4>1. i' = 0 /\ Base' = low /\ low \in Nat
        BY <2>1, <3>3, BeginGoing DEF Rewrites, Going, TypeOK
      <4>2. Base' + 1 .. Come' = {}
        BY <4>1 DEF Come
      <4> QED BY <4>2
    <3> QED BY <1>2, <3>2, <3>3 DEF Unharmed
  <2>2. CASE Read
    <3>1. Base' = Base /\ Come' = Come + 1 /\ passed' = passed /\ pc = "loop"
      BY <2>2, ReadGoing DEF Read, InLoop
    <3>2. Base \in Nat /\ Come \in Nat
      BY <2>2, NextFile DEF Read
    <3>3. (\A f : f = Come + 1 => Has(f)') /\ (\A f : Has(f) => Has(f)')
      BY <2>2, HasRead, HasStays
    <3>4. \A f \in Base + 1 .. Come + 1 : f \in Base + 1 .. Come \/ f = Come + 1
      BY <3>2
    <3>5. Reading
      BY <3>1 DEF Reading
    <3> QED BY <1>3, <3>1, <3>3, <3>4, <3>5
  <2>3. CASE Unreadable
    <3>1. Base' = Base /\ Come' = Come + 1 /\ passed' = passed \cup {Come + 1} /\ pc = "loop"
      BY <2>3, UnreadableGoing DEF Unreadable, InLoop
    <3>2. Base \in Nat /\ Come \in Nat
      BY <2>3, NextFile DEF Unreadable
    <3>3. \A f : Has(f) => Has(f)'
      BY <2>3, HasStays DEF Moves
    <3>4. \A f \in Base + 1 .. Come + 1 : f \in Base + 1 .. Come \/ f = Come + 1
      BY <3>2
    <3>5. Reading
      BY <3>1 DEF Reading
    <3> QED BY <1>3, <3>1, <3>3, <3>4, <3>5
  <2> QED BY <2>1, <2>2, <2>3
<1> QED BY <1>1, <1>2, <1>5, <1>6 DEF AllRead

LEMMA AllReadRest ==
  ASSUME Going, NoneLeft, AllRead, Unharmed',
         \/ Record \/ Complete \/ Archive \/ NoBegin \/ LoopEnds \/ Report \/ Flush
         \/ (Close /\ disk' = disk \o buf) \/ UNCHANGED vars
  PROVE  AllRead'
<1>1. UNCHANGED <<ask, stamp, skipped, passed, fits_list, i>> /\ faults \subseteq faults'
  BY DEF Record, Complete, Archive, NoBegin, LoopEnds, Report, Flush, Close, Fails, vars, run
<1>2. Unharmed /\ (Appends' <=> Appends) /\ (Rewrites' <=> Rewrites)
  BY <1>1 DEF Unharmed, Appends, Rewrites
<1>3. /\ Reading' => Reading
      /\ pc' \in {"report", "close"} \/ (pc' = "idle" /\ ended')
           => pc \in {"report", "close"} \/ (pc = "idle" /\ ended)
  BY DEF Record, Complete, Archive, NoBegin, LoopEnds, Report, Flush, Close, vars, run, Reading
<1>4. Base' = Base /\ Come' = Come
  BY <1>1 DEF Base, Come
<1>5. low \in Nat /\ stamp \in Nat /\ (low' = low \/ low' = low + 1)
  BY DEF Going, TypeOK, Record, Complete, Archive, NoBegin, LoopEnds, Report, Flush, Close,
     vars, run
<1>6. \A f : Has(f) => Has(f)'
  BY HasStays DEF Moves
<1>7. \A f \in low' + 1 .. stamp : f \in low + 1 .. stamp
  BY <1>5
<1>8. /\ Reading => \A f \in Base + 1 .. Come :
           f \in passed \/ Has(f) \/ (ask.fromLast /\ f <= stamp)
      /\ Appends => \A f \in 1 .. stamp : f \in skipped \/ Has(f)
      /\ Rewrites /\ (pc \in {"report", "close"} \/ (pc = "idle" /\ ended)) =>
           \A f \in low + 1 .. stamp : f \in skipped \/ Has(f)
  BY <1>2 DEF AllRead
<1>9. Reading' => \A f \in Base' + 1 .. Come' :
           f \in passed' \/ Has(f)' \/ (ask'.fromLast /\ f <= stamp')
  BY <1>1, <1>3, <1>4, <1>6, <1>8
<1>10. Appends' => \A f \in 1 .. stamp' : f \in skipped' \/ Has(f)'
  BY <1>1, <1>2, <1>6, <1>8
<1>11. Rewrites' /\ (pc' \in {"report", "close"} \/ (pc' = "idle" /\ ended')) =>
           \A f \in low' + 1 .. stamp' : f \in skipped' \/ Has(f)'
  BY <1>1, <1>2, <1>3, <1>6, <1>7, <1>8
<1> QED BY <1>9, <1>10, <1>11 DEF AllRead

LEMMA AllReadNext ==
  ASSUME OwnNames, Going, NoneLeft, PassedBefore, AllRead, [Next]_vars
  PROVE  AllRead'
<1> SUFFICES ASSUME Unharmed' PROVE AllRead'
  BY DEF AllRead
<1>1. CASE Stamp
  BY <1>1, AllReadStamp
<1>2. CASE Begin \/ Read \/ Unreadable
  BY <1>2, AllReadLoop
<1>3. CASE Close
  <2>1. CASE disk' = disk \o buf
    BY <1>3, <2>1, AllReadRest
  <2>2. CASE ~(disk' = disk \o buf)
    <3>1. "rows" \in faults'
      BY <1>3, <2>2 DEF Close, Fails
    <3> QED BY <3>1 DEF Unharmed
  <2> QED BY <2>1, <2>2
<1>4. CASE Crash
  <2>1. faults' # {} /\ pc' = "idle" /\ ended' = FALSE
    BY <1>4 DEF Crash, Fails
  <2>2. ~Appends' /\ ~Reading'
    BY <2>1 DEF Unharmed, Reading, Appends, Rewrites
  <2> QED BY <2>1, <2>2 DEF AllRead
<1>5. CASE Record \/ Complete \/ Archive \/ NoBegin \/ LoopEnds \/ Report \/ Flush
           \/ UNCHANGED vars
  BY <1>5, AllReadRest
<1> QED BY <1>1, <1>2, <1>3, <1>4, <1>5 DEF Next, Program

LEMMA NothingLostRight ==
  ASSUME NoneLeft, Going, AllRead
  PROVE  NothingLost
<1> SUFFICES ASSUME pc = "idle", ended, Unharmed, NEW f \in low + 1 .. stamp
             PROVE  f \in skipped \/ HasRows(f)
  BY DEF NothingLost, Unharmed
<1>1. low \in Nat /\ stamp \in Nat
  BY DEF Going, TypeOK
<1>2. f \in skipped \/ Has(f)
  BY <1>1 DEF AllRead, Unharmed
<1>3. Kept = disk
  <2>1. buf = <<>> /\ Held = <<>>
    BY DEF NoneLeft, Held
  <2>2. disk \in Seq(Rows) /\ <<>> \o <<>> = <<>>
    BY DEF Going, TypeOK
  <2>3. disk \o <<>> = disk
    BY <2>2, ConcatEmptySeq
  <2> QED BY <2>1, <2>2, <2>3 DEF Kept
<1>4. Has(f) => HasRows(f)
  BY <1>3 DEF Has, HasRows, Range
<1> QED BY <1>2, <1>4

(* When a run has come to its end, every file of the list up to the one the *)
(* stamp names is in the output or could not be read when its turn came:    *)
(* nothing is lost that a later run would not write, if every file has a    *)
(* name of its own, in which no other file's is found (the search for the   *)
(* last processed file with strstr in main of total_power_vert.cpp).        *)
THEOREM NoFileLost ==
  ASSUME OwnNames
  PROVE  Spec => []NothingLost
<1> DEFINE I == Going /\ NoneLeft /\ PassedBefore /\ AllRead
<1>2. ASSUME Init PROVE I
  <2>1. Going /\ NoneLeft
    BY <1>2, InitGoing, InitFollowing DEF Following
  <2>2. stamp = 0 /\ pc = "idle" /\ ended = FALSE
    BY <1>2 DEF Init, None
  <2> QED BY <2>1, <2>2 DEF PassedBefore, AllRead, Reading
<1>3. I /\ [Next]_vars => I'
  BY NextGoing, NoneLeftNext, PassedNext, AllReadNext
<1>4. I => NothingLost
  BY NothingLostRight
<1> QED BY <1>2, <1>3, <1>4, PTL DEF Spec
=============================================================================
