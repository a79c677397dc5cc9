--------------------------- MODULE StackingProofs ---------------------------
(***************************************************************************)
(* Theorems about the programs that go through a list of images            *)
(* (Stacking), for every list, every range of it and all options: the      *)
(* result is made of the images asked for, an image is subtracted from     *)
(* exactly what was before it, and the average is saved as often as asked. *)
(***************************************************************************)
EXTENDS Stacking, SequenceTheorems, TLAPS

Places == Nat \cup {NoFits}
Difference == [of : Nat, from : SUBSET Places]

TypeOK ==
  /\ pc \in {"start", "loop", "finished", "failed"}
  /\ list \in Lists /\ ask \in Asks /\ ask.first < Len(list)
  /\ i \in Nat /\ prev \in Places
  /\ sum \in Seq(Nat) /\ turns \in Seq(Nat) /\ saves \in Seq(Nat)
  /\ diffs \in Seq(Difference)

Unstarted == pc = "start" => sum = <<>> /\ turns = <<>> /\ saves = <<>> /\ diffs = <<>>

(* The first image of a range that is not the list's may be in an average   *)
(* twice: before the loop, and by its turn.                                 *)
TwiceAt(m, n) ==
  ask.app \notin FromList /\ ask.first > 0 /\ sum[m] = ask.first /\ sum[n] = ask.first

Ascending == \A m, n \in DOMAIN sum : m < n => sum[m] < sum[n] \/ TwiceAt(m, n)

(* Without -H the images -L leaves out are any. *)
LeavesOut == ask.limit /\ ask.every = 0

(* The loop has taken what was asked for up to its place. *)
Taken ==
  pc \in {"loop", "finished"} =>
    /\ i >= StartFits /\ (i = StartFits \/ i <= LastFits)
    /\ ToSet(sum) \subseteq Before \cup AskedFor(i)
    /\ Before \cup AskedFor(i) \subseteq ToSet(sum) \/ LeavesOut
    /\ Before \subseteq ToSet(sum)

Finished == pc = "finished" => i >= LastFits

(* The image kept is the last one that could be read. *)
LastRead(p, k) ==
  /\ p \in ask.first .. k /\ CanRead(p)
  /\ p = k => p = ask.first /\ ask.first > 0
  /\ \A m \in p + 1 .. k - 1 : ~CanRead(m)

PrevIs == pc = "loop" /\ ask.app = "diff" => LastRead(prev, i)

(* The turns at which the average is saved are the multiples of -H. *)
Turn(t) == t \in Nat /\ t >= StartFits

Multiples ==
  ask.app = "diff" =>
    \A t \in ToSet(turns) :
      /\ Turn(t)
      /\ ask.every > 0 /\ (t - StartFits) % ask.every = 0 => t \in ToSet(saves)

OnlyDiffs == ask.app # "diff" => diffs = <<>>

IInv ==
  /\ TypeOK /\ Unstarted /\ Ascending
  /\ Taken /\ Finished /\ PrevIs /\ Multiples /\ OnlyDiffs /\ FromBefore

-----------------------------------------------------------------------------
(* One of any d numbers in a row is a multiple of d. *)
LEMMA MultipleInARow ==
  ASSUME NEW k \in Nat, NEW d \in Nat \ {0}
  PROVE  \E n \in k .. k + d - 1 : n % d = 0
<1> DEFINE top == k + d - 1
           q == top \div d
           r == top % d
<1>1. top \in Nat /\ q \in Nat /\ r \in 0 .. d - 1 /\ top = d * q + r
  OBVIOUS
<1> HIDE DEF top, q, r
<1>2. d * q \in Nat /\ (d * q) % d = 0
  BY <1>1
<1>3. d * q \in k .. k + d - 1
  BY <1>1, <1>2 DEF top
<1> QED BY <1>2, <1>3

LEMMA SetOfAppended ==
  ASSUME NEW S, NEW s \in Seq(S), NEW e \in S
  PROVE  ToSet(Append(s, e)) = ToSet(s) \cup {e}
<1> DEFINE t == Append(s, e)
<1>1. /\ t \in Seq(S) /\ Len(t) = Len(s) + 1 /\ t[Len(t)] = e
      /\ \A j \in 1 .. Len(s) : t[j] = s[j]
  BY AppendProperties
<1>2. DOMAIN t = 1 .. Len(s) + 1 /\ DOMAIN s = 1 .. Len(s) /\ Len(s) \in Nat
  BY <1>1
<1> HIDE DEF t
<1>3. \A x \in ToSet(s) : x \in ToSet(t)
  BY <1>1, <1>2 DEF ToSet
<1>4. e \in ToSet(t)
  BY <1>1, <1>2 DEF ToSet
<1>5. ASSUME NEW j \in DOMAIN t PROVE t[j] \in ToSet(s) \cup {e}
  BY <1>1, <1>2 DEF ToSet
<1>6. \A x \in ToSet(t) : x \in ToSet(s) \cup {e}
  BY <1>5 DEF ToSet
<1> QED BY <1>3, <1>4, <1>6 DEF t

(* An image not before any of a sum is put behind them; it may be there      *)
(* already only if it is the one that may be there twice.                    *)
Twice(x) == ask.app \notin FromList /\ ask.first > 0 /\ x = ask.first

LEMMA AscendingAppended ==
  ASSUME sum \in Seq(Nat), i \in Nat,
         \A m, n \in DOMAIN sum : m < n => sum[m] < sum[n] \/ (Twice(sum[m]) /\ Twice(sum[n])),
         \A x \in ToSet(sum) : x < i \/ (Twice(x) /\ Twice(i)),
         sum' = Append(sum, i)
  PROVE  \A m, n \in DOMAIN sum' : m < n => sum'[m] < sum'[n] \/ (Twice(sum'[m]) /\ Twice(sum'[n]))
<1>1. /\ sum' \in Seq(Nat) /\ Len(sum') = Len(sum) + 1 /\ sum'[Len(sum')] = i
      /\ \A j \in 1 .. Len(sum) : sum'[j] = sum[j]
  BY AppendProperties
<1>2. DOMAIN sum' = 1 .. Len(sum) + 1 /\ DOMAIN sum = 1 .. Len(sum) /\ Len(sum) \in Nat
  BY <1>1
<1>3. \A j \in 1 .. Len(sum) : sum[j] < i \/ (Twice(sum[j]) /\ Twice(i))
  BY <1>2 DEF ToSet
<1> SUFFICES ASSUME NEW m \in DOMAIN sum', NEW n \in DOMAIN sum', m < n
             PROVE  sum'[m] < sum'[n] \/ (Twice(sum'[m]) /\ Twice(sum'[n]))
  OBVIOUS
<1>4. m \in DOMAIN sum /\ sum'[m] = sum[m]
  BY <1>1, <1>2
<1>5. CASE n \in DOMAIN sum
  <2>1. sum'[n] = sum[n]
    BY <1>1, <1>2, <1>5
  <2> QED BY <1>4, <1>5, <2>1
<1>6. CASE n \notin DOMAIN sum
  <2>1. n = Len(sum')
    BY <1>1, <1>2, <1>6
  <2> QED BY <1>1, <1>2, <1>3, <1>4, <2>1
<1> QED BY <1>5, <1>6

(* What is asked for of a place, if it is in the range. *)
Wanted(k) == CanRead(k) /\ Included(k) /\ ~(ask.limit /\ ask.every > 0 /\ Changed(k))

LEMMA AskedNext ==
  ASSUME NEW k \in Nat, ask.first \in Nat, ask.first <= k
  PROVE  AskedFor(k + 1) = IF Wanted(k) THEN AskedFor(k) \cup {k} ELSE AskedFor(k)
<1>1. ask.first .. (k + 1) - 1 = (ask.first .. k - 1) \cup {k}
  OBVIOUS
<1>2. k \notin ask.first .. k - 1
  OBVIOUS
<1> QED BY <1>1, <1>2 DEF AskedFor, Wanted

LEMMA Named ==
  ASSUME TypeOK
  PROVE  /\ ask.app \in Apps /\ ask.first \in Nat /\ ask.last \in Nat /\ ask.every \in Nat
         /\ ask.ignore \in BOOLEAN /\ ask.limit \in BOOLEAN
         /\ Len(list) \in Nat /\ LastFits \in Nat /\ StartFits \in Nat
         /\ ask.first <= StartFits
         /\ ask.app \notin FromList => ask.first < StartFits \/ (ask.first = StartFits /\ ask.first > 0)
         /\ ask.app # "avg" => ~ask.cut
         /\ ask.app # "diff" => ask.every = 0 /\ ~ask.limit
<1>1. ask \in Options /\ list \in Seq({"good", "bright", "noisy", "missing"})
  BY StackingAssumption DEF TypeOK
<1>2. Len(list) \in Nat
  BY <1>1
<1>3. /\ ask.app \in Apps /\ ask.first \in Nat /\ ask.last \in Nat /\ ask.every \in Nat
      /\ ask.ignore \in BOOLEAN /\ ask.limit \in BOOLEAN
  BY <1>1 DEF Options
<1>4. /\ ask.app # "avg" => ~ask.cut
      /\ ask.app # "diff" => ask.every = 0 /\ ~ask.limit
  BY StackingAssumption DEF TypeOK
<1>5. LastFits \in Nat
  BY <1>2, <1>3 DEF LastFits
<1>6. StartFits \in Nat /\ ask.first <= StartFits
  BY <1>3 DEF StartFits
<1>7. ask.app \notin FromList => ask.first < StartFits \/ (ask.first = StartFits /\ ask.first > 0)
  BY <1>3 DEF StartFits
<1> QED BY <1>2, <1>3, <1>4, <1>5, <1>6, <1>7

(* With -H a pixel is excluded exactly when it changed with the image, since *)
(* the image kept is the last one before it that could be read.              *)
LEMMA ExcludedChanged ==
  ASSUME TypeOK, LastRead(prev, i), ask.app = "diff", ask.limit, ask.every > 0, CanRead(i)
  PROVE  Excluded = {Changed(i)}
<1>1. i \in Nat /\ ask.first \in Nat /\ prev \in ask.first .. i /\ CanRead(prev)
      /\ \A m \in prev + 1 .. i - 1 : ~CanRead(m)
  BY Named DEF TypeOK, LastRead
<1>2. CASE prev < i
  <2>1. prev \in ask.first .. i - 1
    BY <1>1, <1>2
  <2>2. ASSUME NEW j \in ask.first .. i - 1, CanRead(j), \A m \in j + 1 .. i - 1 : ~CanRead(m)
        PROVE  j = prev
    <3>1. ~(j < prev)
      BY <1>1, <1>2, <2>1, <2>2
    <3>2. ~(prev < j)
      BY <1>1, <1>2, <2>1, <2>2
    <3> QED BY <1>1, <3>1, <3>2
  <2>3. Changed(i) <=> Brightness(i) # Brightness(prev)
    BY <1>1, <2>1, <2>2 DEF Changed
  <2>4. Changed(i) = (Brightness(i) # Brightness(prev))
    BY <2>3 DEF Changed
  <2> QED BY <2>4 DEF Excluded
<1>3. CASE prev = i
  <2>1. ask.first = i
    BY <1>3 DEF LastRead
  <2>2. ask.first .. i - 1 = {}
    BY <1>1, <2>1
  <2>3. Changed(i) = FALSE
    BY <2>2 DEF Changed
  <2>4. (Brightness(i) # Brightness(prev)) = FALSE
    BY <1>3
  <2> QED BY <2>3, <2>4 DEF Excluded
<1> QED BY <1>1, <1>2, <1>3

-----------------------------------------------------------------------------
(* What the definitions of the properties look at stays. *)
LEMMA Same ==
  ASSUME list' = list, ask' = ask
  PROVE  /\ StartFits' = StartFits /\ LastFits' = LastFits /\ Before' = Before
         /\ LeavesOut' = LeavesOut
         /\ \A k : AskedFor(k)' = AskedFor(k)
         /\ \A p, k : LastRead(p, k)' = LastRead(p, k)
BY DEF StartFits, LastFits, Before, LeavesOut, AskedFor, CanRead, Included, Changed, Brightness,
       File, LastRead

LEMMA InitI ==
  ASSUME Init
  PROVE  IInv
<1>1. TypeOK
  <2>1. \A S : <<>> \in Seq(S)
    OBVIOUS
  <2>2. ask \in Asks /\ list \in Lists /\ ask.first < Len(list)
    BY DEF Init
  <2> QED BY <2>1, <2>2 DEF Init, TypeOK, Places, NoFits
<1>2. Unstarted /\ Taken /\ Finished /\ PrevIs /\ OnlyDiffs
  BY DEF Init, Unstarted, Taken, Finished, PrevIs, OnlyDiffs
<1>3. DOMAIN sum = {} /\ DOMAIN diffs = {} /\ DOMAIN turns = {}
  BY DEF Init
<1>4. Ascending /\ FromBefore
  BY <1>3 DEF Ascending, FromBefore
<1>5. Multiples
  BY <1>3 DEF Multiples, ToSet
<1> QED BY <1>1, <1>2, <1>4, <1>5 DEF IInv

LEMMA StartI ==
  ASSUME IInv, Start
  PROVE  IInv'
<1>1. /\ pc = "start" /\ pc' = "loop" /\ i' = StartFits /\ CanRead(ask.first)
      /\ list' = list /\ ask' = ask /\ diffs' = diffs /\ saves' = saves /\ turns' = turns
      /\ sum' = IF ask.app \in FromList THEN <<>> ELSE <<ask.first>>
      /\ prev' = IF ask.app = "diff" THEN ask.first ELSE NoFits
  BY DEF Start, CanRead
<1>2. TypeOK /\ DOMAIN turns = {} /\ DOMAIN diffs = {} /\ diffs = <<>>
  BY <1>1 DEF IInv, Unstarted
<1>3. ask.first \in Nat /\ StartFits \in Nat /\ ask.first <= StartFits /\ LastFits \in Nat
  BY <1>2, Named
<1>4. TypeOK'
  <2>1. sum' \in Seq(Nat)
    BY <1>1, <1>3
  <2> QED BY <1>1, <1>2, <1>3, <2>1 DEF TypeOK, Places, NoFits
<1>5. Ascending'
  BY <1>1 DEF Ascending
<1>6. Taken'
  <2>1. ToSet(sum') = Before
    BY <1>1 DEF ToSet, Before
  <2>2. AskedFor(StartFits) \subseteq Before
    <3>1. CASE ask.app \in FromList
      <4>1. StartFits = ask.first
        BY <3>1 DEF StartFits
      <4>2. ask.first .. StartFits - 1 = {}
        BY <1>3, <4>1
      <4> QED BY <4>2 DEF AskedFor
    <3>2. CASE ask.app \notin FromList
      <4>1. StartFits = IF ask.first > 1 THEN ask.first ELSE 1
        BY <3>2 DEF StartFits
      <4>2. ask.first .. StartFits - 1 \subseteq {ask.first}
        BY <1>3, <4>1
      <4> QED BY <3>2, <4>2 DEF AskedFor, Before
    <3> QED BY <3>1, <3>2
  <2>3. AskedFor(i)' = AskedFor(StartFits)
    BY <1>1 DEF AskedFor, CanRead, Included, Changed, Brightness, File
  <2>4. StartFits' = StartFits /\ LastFits' = LastFits /\ Before' = Before
    BY <1>1, Same
  <2> QED BY <1>1, <1>3, <2>1, <2>2, <2>3, <2>4 DEF Taken
<1>7. PrevIs'
  <2>1. ASSUME ask.app = "diff" PROVE LastRead(ask.first, StartFits)
    <3>1. StartFits = IF ask.first > 1 THEN ask.first ELSE 1
      BY <2>1 DEF StartFits, FromList
    <3>2. ask.first \in ask.first .. StartFits /\ ask.first + 1 .. StartFits - 1 = {}
      BY <1>3, <3>1
    <3>3. ask.first = StartFits => ask.first > 0
      BY <1>3, <3>1
    <3> QED BY <1>1, <3>2, <3>3 DEF LastRead
  <2>2. \A p, k : LastRead(p, k)' = LastRead(p, k)
    BY <1>1, Same
  <2>3. ASSUME ask.app = "diff" PROVE LastRead(prev, i)'
    <3>1. prev' = ask.first /\ i' = StartFits
      BY <1>1, <2>3
    <3>2. LastRead(prev, i)' = LastRead(ask.first, StartFits)
      BY <1>1, <3>1 DEF LastRead, CanRead, File
    <3> QED BY <2>1, <2>3, <3>2
  <2> QED BY <1>1, <2>3 DEF PrevIs
<1>8. Multiples'
  BY <1>1, <1>2 DEF Multiples, ToSet
<1>9. FromBefore' /\ OnlyDiffs'
  BY <1>1, <1>2 DEF FromBefore, OnlyDiffs
<1> QED BY <1>1, <1>4, <1>5, <1>6, <1>7, <1>8, <1>9 DEF IInv, Unstarted, Finished

(* What was subtracted stays as it is. *)
LEMMA FromBeforeStays ==
  ASSUME FromBefore, UNCHANGED <<list, ask, diffs>>
  PROVE  FromBefore'
<1>1. /\ \A k : AskedFor(k)' = AskedFor(k)
      /\ \A k : CanRead(k)' = CanRead(k)
  BY Same DEF CanRead, File
<1> QED BY <1>1 DEF FromBefore

LEMMA MultiplesStay ==
  ASSUME Multiples, UNCHANGED <<ask, turns, saves>>
  PROVE  Multiples'
BY DEF Multiples, Turn, StartFits

LEMMA TakenStays ==
  ASSUME Taken, UNCHANGED <<list, ask, i, sum>>, pc' \in {"loop", "finished"} => pc = "loop" \/ pc = pc'
  PROVE  Taken'
<1>1. AskedFor(i)' = AskedFor(i)
  BY DEF AskedFor, CanRead, Included, Changed, Brightness, File
<1>2. StartFits' = StartFits /\ LastFits' = LastFits /\ Before' = Before /\ LeavesOut' = LeavesOut
  BY Same
<1> QED BY <1>1, <1>2 DEF Taken

LEMMA PrevStays ==
  ASSUME PrevIs, UNCHANGED <<list, ask, i, prev>>, pc' = "loop" => pc = "loop"
  PROVE  PrevIs'
BY DEF PrevIs, LastRead, CanRead, File

LEMMA AscendingStays ==
  ASSUME Ascending, UNCHANGED <<ask, sum>>
  PROVE  Ascending'
BY DEF Ascending, TwiceAt

(* The program ends, well or not, and what it has kept stays as it is. *)
LEMMA EndI ==
  ASSUME IInv, pc' = "failed" \/ (pc' = "finished" /\ pc = "loop" /\ i >= LastFits),
         UNCHANGED <<list, ask, i, sum, prev, diffs, saves, turns>>
  PROVE  IInv'
<1>1. TypeOK'
  BY DEF IInv, TypeOK
<1>2. Ascending' /\ FromBefore' /\ Multiples' /\ Taken' /\ PrevIs'
  BY FromBeforeStays, MultiplesStay, TakenStays, PrevStays, AscendingStays DEF IInv
<1>3. Finished'
  BY DEF Finished, LastFits
<1>4. OnlyDiffs'
  BY DEF IInv, OnlyDiffs
<1> QED BY <1>1, <1>2, <1>3, <1>4 DEF IInv, Unstarted

(* A file passed over was not asked for. *)
LEMMA PassedOver ==
  ASSUME IInv, pc = "loop", i < LastFits, File(i) = "missing",
         pc' = "loop", i' = i + 1,
         UNCHANGED <<list, ask, sum, prev, diffs, saves, turns>>
  PROVE  IInv'
<1>1. TypeOK /\ i \in Nat
  BY DEF IInv, TypeOK
<1>2. TypeOK'
  BY <1>1 DEF TypeOK
<1>3. Ascending' /\ FromBefore' /\ Multiples'
  BY FromBeforeStays, MultiplesStay, AscendingStays DEF IInv
<1>4. StartFits' = StartFits /\ LastFits' = LastFits /\ Before' = Before /\ LeavesOut' = LeavesOut
  BY Same
<1>5. LastFits \in Nat /\ StartFits \in Nat /\ ask.first \in Nat /\ ask.first <= StartFits
      /\ i >= StartFits /\ ~CanRead(i)
  BY <1>1, Named DEF IInv, Taken, CanRead
<1>10. ask.first <= i
  BY <1>1, <1>5
<1>6. Taken'
  <2>1. AskedFor(i + 1) = AskedFor(i)
    <3>1. ~Wanted(i)
      BY <1>5 DEF Wanted
    <3> QED BY <1>1, <1>5, <1>10, <3>1, AskedNext
  <2>2. AskedFor(i)' = AskedFor(i + 1)
    BY DEF AskedFor, CanRead, Included, Changed, Brightness, File
  <2> QED BY <1>1, <1>4, <1>5, <2>1, <2>2 DEF IInv, Taken
<1>7. PrevIs'
  <2>1. ASSUME ask.app = "diff" PROVE LastRead(prev, i + 1)
    <3>1. LastRead(prev, i)
      BY <2>1 DEF IInv, PrevIs
    <3>2. prev \in ask.first .. i + 1 /\ prev # i + 1 /\ CanRead(prev)
      BY <1>1, <1>5, <3>1 DEF LastRead
    <3>3. ASSUME NEW m \in prev + 1 .. (i + 1) - 1 PROVE ~CanRead(m)
      <4>1. m \in prev + 1 .. i - 1 \/ m = i
        BY <1>1, <1>5, <3>2, <3>3
      <4> QED BY <1>5, <3>1, <4>1 DEF LastRead
    <3> QED BY <3>2, <3>3 DEF LastRead
  <2>2. LastRead(prev, i)' = LastRead(prev, i + 1)
    BY DEF LastRead, CanRead, File
  <2> QED BY <2>1, <2>2 DEF PrevIs
<1>8. OnlyDiffs'
  BY DEF IInv, OnlyDiffs
<1> QED BY <1>2, <1>3, <1>6, <1>7, <1>8 DEF IInv, Unstarted, Finished

(* An image goes into the sum, or stays out of it when it was not asked for, *)
(* or is left out.                                                           *)
LEMMA TakenI ==
  ASSUME IInv, pc = "loop", i < LastFits, CanRead(i),
         pc' = "loop", i' = i + 1, list' = list, ask' = ask,
         \/ sum' = Append(sum, i) /\ (Wanted(i) \/ (i = ask.first /\ ask.app \notin FromList))
         \/ sum' = sum /\ (~Wanted(i) \/ LeavesOut)
  PROVE  sum' \in Seq(Nat) /\ Ascending' /\ Taken'
<1>1. TypeOK /\ i \in Nat /\ sum \in Seq(Nat)
  BY DEF IInv, TypeOK
<1>2. LastFits \in Nat /\ StartFits \in Nat /\ ask.first \in Nat /\ ask.first <= StartFits
      /\ i >= StartFits
  BY <1>1, Named DEF IInv, Taken
<1>3. StartFits' = StartFits /\ LastFits' = LastFits /\ Before' = Before /\ LeavesOut' = LeavesOut
  BY Same
<1>4. AskedFor(i)' = AskedFor(i + 1)
  BY DEF AskedFor, CanRead, Included, Changed, Brightness, File
<1>5. /\ ToSet(sum) \subseteq Before \cup AskedFor(i)
      /\ Before \cup AskedFor(i) \subseteq ToSet(sum) \/ LeavesOut
      /\ Before \subseteq ToSet(sum)
  BY DEF IInv, Taken
<1>6. AskedFor(i + 1) = IF Wanted(i) THEN AskedFor(i) \cup {i} ELSE AskedFor(i)
  <2>1. ask.first <= i
    BY <1>1, <1>2
  <2> QED BY <1>1, <1>2, <2>1, AskedNext
<1>7. CASE sum' = sum /\ (~Wanted(i) \/ LeavesOut)
  <2>1. Ascending'
    BY <1>7 DEF IInv, Ascending, TwiceAt
  <2>2. Taken'
    BY <1>1, <1>2, <1>3, <1>4, <1>5, <1>6, <1>7 DEF Taken
  <2> QED BY <1>1, <1>7, <2>1, <2>2
<1>8. CASE sum' = Append(sum, i) /\ (Wanted(i) \/ (i = ask.first /\ ask.app \notin FromList))
  <2>1. sum' \in Seq(Nat) /\ ToSet(sum') = ToSet(sum) \cup {i}
    BY <1>1, <1>8, SetOfAppended
  <2>2. Taken'
    <3>1. i \in Before \cup AskedFor(i + 1)
      BY <1>6, <1>8 DEF Before
    <3> QED BY <1>1, <1>2, <1>3, <1>4, <1>5, <1>6, <2>1, <3>1 DEF Taken
  <2>3. Ascending'
    <3>1. \A m, n \in DOMAIN sum :
            m < n => sum[m] < sum[n] \/ (Twice(sum[m]) /\ Twice(sum[n]))
      BY DEF IInv, Ascending, TwiceAt, Twice
    <3>2. ASSUME NEW x \in ToSet(sum) PROVE x < i \/ (Twice(x) /\ Twice(i))
      <4>1. CASE x \in AskedFor(i)
        BY <1>1, <1>2, <4>1 DEF AskedFor
      <4>2. CASE x \in Before
        <5>1. ask.app \notin FromList /\ x = ask.first
          BY <4>2 DEF Before
        <5>2. ask.first < StartFits \/ (ask.first = StartFits /\ ask.first > 0)
          BY <1>1, <5>1, Named
        <5> QED BY <1>1, <1>2, <5>1, <5>2 DEF Twice
      <4> QED BY <1>5, <3>2, <4>1, <4>2
    <3>3. \A m, n \in DOMAIN sum' :
            m < n => sum'[m] < sum'[n] \/ (Twice(sum'[m]) /\ Twice(sum'[n]))
      BY <1>1, <1>8, <3>1, <3>2, AscendingAppended
    <3> QED BY <3>3 DEF Ascending, TwiceAt, Twice
  <2> QED BY <2>1, <2>2, <2>3
<1> QED BY <1>7, <1>8

(* avg_images, sum_images and homeopatic_avg. *)
LEMMA AverageI ==
  ASSUME IInv, pc = "loop", i < LastFits, CanRead(i), ask.app # "diff",
         pc' = "loop", i' = i + 1,
         UNCHANGED <<list, ask, prev, diffs>>,
         sum' = IF Included(i) THEN Append(sum, i) ELSE sum,
         turns' = Append(turns, i),
         saves' = saves \/ saves' = Append(saves, i)
  PROVE  IInv'
<1>1. TypeOK /\ i \in Nat
  BY DEF IInv, TypeOK
<1>2. sum' \in Seq(Nat) /\ Ascending' /\ Taken'
  <2>1. ~ask.limit
    BY <1>1, Named
  <2>2. Wanted(i) <=> Included(i)
    BY <2>1 DEF Wanted
  <2> QED BY <2>2, TakenI
<1>3. TypeOK'
  <2>1. turns' \in Seq(Nat)
    BY <1>1 DEF TypeOK
  <2>2. saves' \in Seq(Nat)
    <3>1. saves \in Seq(Nat)
      BY <1>1 DEF TypeOK
    <3>2. Append(saves, i) \in Seq(Nat)
      BY <1>1, <3>1
    <3>3. saves' = saves \/ saves' = Append(saves, i)
      OBVIOUS
    <3> QED BY <3>1, <3>2, <3>3
  <2> QED BY <1>1, <1>2, <2>1, <2>2 DEF TypeOK
<1>4. FromBefore'
  BY FromBeforeStays DEF IInv
<1> QED BY <1>2, <1>3, <1>4 DEF IInv, Unstarted, Finished, PrevIs, Multiples, OnlyDiffs

LEMMA DiffImageI ==
  ASSUME IInv, DiffImage
  PROVE  IInv'
<1>1. /\ pc = "loop" /\ i < LastFits /\ CanRead(i) /\ ask.app = "diff"
      /\ pc' = "loop" /\ i' = i + 1 /\ list' = list /\ ask' = ask
      /\ turns' = Append(turns, i) /\ prev' = i
      /\ saves' = IF SavesNow THEN Append(saves, i) ELSE saves
      /\ diffs' = Append(diffs, [of |-> i, from |-> From])
      /\ \E excluded \in Excluded : sum' = IF excluded THEN sum ELSE Append(sum, i)
  BY DEF DiffImage, Reads, CanRead
<1>2. /\ TypeOK /\ i \in Nat /\ prev \in Places /\ diffs \in Seq(Difference)
      /\ sum \in Seq(Nat) /\ turns \in Seq(Nat) /\ saves \in Seq(Nat)
  BY DEF IInv, TypeOK
<1>3. /\ StartFits \in Nat /\ ask.first \in Nat /\ ask.every \in Nat /\ i >= StartFits
      /\ ask.limit \in BOOLEAN /\ ask.first <= StartFits /\ ask.app \notin FromList
  BY <1>1, <1>2, Named DEF IInv, Taken, FromList
<1>4. Included(i) /\ LastRead(prev, i)
  BY <1>1, <1>2, Named DEF Included, IInv, PrevIs
<1>5. sum' \in Seq(Nat) /\ Ascending' /\ Taken'
  <2>1. PICK excluded \in Excluded : sum' = IF excluded THEN sum ELSE Append(sum, i)
    BY <1>1
  <2>2. CASE ~ask.limit
    <3>1. excluded = FALSE /\ Wanted(i)
      BY <1>1, <1>4, <2>1, <2>2 DEF Excluded, Wanted
    <3> QED BY <1>1, <2>1, <3>1, TakenI
  <2>3. CASE ask.limit /\ ask.every > 0
    <3>1. Excluded = {Changed(i)}
      BY <1>1, <1>2, <1>4, <2>3, ExcludedChanged
    <3>2. excluded = Changed(i)
      BY <2>1, <3>1
    <3>3. Wanted(i) <=> ~Changed(i)
      BY <1>1, <1>4, <2>3 DEF Wanted
    <3>4. CASE excluded
      BY <1>1, <2>1, <3>2, <3>3, <3>4, TakenI
    <3>5. CASE ~excluded
      BY <1>1, <2>1, <3>2, <3>3, <3>5, TakenI
    <3> QED BY <3>4, <3>5
  <2>4. CASE ask.limit /\ ask.every = 0
    <3>1. Wanted(i) /\ LeavesOut
      BY <1>1, <1>4, <2>4 DEF Wanted, LeavesOut
    <3>2. CASE excluded
      BY <1>1, <2>1, <3>1, <3>2, TakenI
    <3>3. CASE ~excluded
      BY <1>1, <2>1, <3>1, <3>3, TakenI
    <3> QED BY <3>2, <3>3
  <2> QED BY <1>3, <2>2, <2>3, <2>4
<1>6. From \in SUBSET Places
  <2>1. ToSet(sum) \subseteq Nat
    BY <1>2 DEF ToSet
  <2> QED BY <1>2, <2>1 DEF From, Places
<1>7. [of |-> i, from |-> From] \in Difference
  BY <1>2, <1>6 DEF Difference
<1>8. TypeOK'
  BY <1>1, <1>2, <1>5, <1>7 DEF TypeOK, Places
<1>9. /\ ask.every > 0 => From = {ask.first} \cup AskedFor(i)
      /\ ask.every = 0 => From = {prev}
  <2>1. ASSUME ask.every > 0 PROVE ToSet(sum) = {ask.first} \cup AskedFor(i)
    <3>1. Before = {ask.first} /\ ~LeavesOut
      BY <1>3, <2>1 DEF Before, LeavesOut
    <3> QED BY <1>1, <3>1 DEF IInv, Taken
  <2> QED BY <1>3, <2>1 DEF From
<1>10. FromBefore'
  <2>1. /\ Len(diffs') = Len(diffs) + 1 /\ diffs' \in Seq(Difference)
        /\ diffs'[Len(diffs')] = [of |-> i, from |-> From]
        /\ \A j \in 1 .. Len(diffs) : diffs'[j] = diffs[j]
        /\ Len(diffs) \in Nat
    BY <1>1, <1>2, <1>7, AppendProperties
  <2> DEFINE Good(d) ==
        IF ask.every > 0 THEN d.from = {ask.first} \cup AskedFor(d.of)
        ELSE \E p \in ask.first .. d.of :
               /\ d.from = {p} /\ CanRead(p)
               /\ p = d.of => p = ask.first /\ ask.first > 0
               /\ \A m \in p + 1 .. d.of - 1 : ~CanRead(m)
  <2>2. \A k \in DOMAIN diffs : Good(diffs[k])
    BY DEF IInv, FromBefore
  <2>3. Good([of |-> i, from |-> From])
    BY <1>3, <1>4, <1>9 DEF LastRead
  <2>4. FromBefore' <=> \A k \in DOMAIN diffs' : Good(diffs'[k])
    BY <1>1 DEF FromBefore, AskedFor, CanRead, Included, Changed, Brightness, File
  <2> HIDE DEF Good
  <2>5. ASSUME NEW k \in DOMAIN diffs' PROVE Good(diffs'[k])
    <3>1. CASE k \in 1 .. Len(diffs)
      BY <1>2, <2>1, <2>2, <3>1
    <3>2. CASE k = Len(diffs')
      BY <2>1, <2>3, <3>2
    <3> QED BY <2>1, <2>5, <3>1, <3>2
  <2> QED BY <2>4, <2>5
<1>11. PrevIs'
  <2>1. LastRead(i, i + 1)
    <3>1. i \in ask.first .. i + 1 /\ i # i + 1 /\ i + 1 .. (i + 1) - 1 = {}
      BY <1>2, <1>3
    <3> QED BY <1>1, <3>1 DEF LastRead
  <2>2. LastRead(prev, i)' = LastRead(i, i + 1)
    BY <1>1 DEF LastRead, CanRead, File
  <2> QED BY <2>1, <2>2 DEF PrevIs
<1>12. Multiples'
  <2>1. ToSet(turns') = ToSet(turns) \cup {i}
    <3>1. ToSet(Append(turns, i)) = ToSet(turns) \cup {i}
      BY <1>2, SetOfAppended
    <3> QED BY <1>1, <3>1
  <2>2. ToSet(saves') = IF SavesNow THEN ToSet(saves) \cup {i} ELSE ToSet(saves)
    <3>1. ToSet(Append(saves, i)) = ToSet(saves) \cup {i}
      BY <1>2, SetOfAppended
    <3> QED BY <1>1, <3>1
  <2>3. StartFits' = StartFits
    BY <1>1 DEF StartFits
  <2>4. ASSUME NEW t \in ToSet(turns')
        PROVE  /\ Turn(t)
               /\ ask.every > 0 /\ (t - StartFits) % ask.every = 0 => t \in ToSet(saves')
    <3>1. CASE t \in ToSet(turns)
      BY <1>1, <2>2, <3>1 DEF IInv, Multiples
    <3>2. CASE t = i
      BY <1>2, <1>3, <2>2, <3>2 DEF Turn, SavesNow
    <3> QED BY <2>1, <2>4, <3>1, <3>2
  <2>5. Multiples' <=> \A t \in ToSet(turns') :
          /\ Turn(t)
          /\ ask.every > 0 /\ (t - StartFits) % ask.every = 0 => t \in ToSet(saves')
    BY <1>1, <2>3 DEF Multiples, Turn
  <2> QED BY <2>4, <2>5
<1>13. OnlyDiffs'
  BY <1>1 DEF OnlyDiffs
<1> QED BY <1>1, <1>5, <1>8, <1>10, <1>11, <1>12, <1>13 DEF IInv, Unstarted, Finished

(* Every step keeps the invariant. *)
LEMMA NextI ==
  ASSUME IInv, [Next]_vars
  PROVE  IInv'
<1>1. CASE UNCHANGED vars
  <2>1. UNCHANGED <<pc, list, ask, i, sum, prev, diffs, saves, turns>>
    BY <1>1 DEF vars
  <2>2. TypeOK' /\ Unstarted' /\ OnlyDiffs'
    BY <2>1 DEF IInv, TypeOK, Unstarted, OnlyDiffs
  <2>3. Ascending' /\ FromBefore' /\ Multiples' /\ Taken' /\ PrevIs'
    BY <2>1, FromBeforeStays, MultiplesStay, TakenStays, PrevStays, AscendingStays DEF IInv
  <2>4. Finished'
    BY <2>1 DEF IInv, Finished, LastFits
  <2> QED BY <2>2, <2>3, <2>4 DEF IInv
<1>2. CASE NoFirst \/ NoBeam \/ WriteResult
  BY <1>2, EndI DEF NoFirst, NoBeam, WriteResult
<1>3. CASE SkipFile
  <2>1. CASE ask.ignore
    BY <1>3, <2>1, PassedOver DEF SkipFile
  <2>2. CASE ~ask.ignore
    BY <1>3, <2>2, EndI DEF SkipFile
  <2> QED BY <2>1, <2>2
<1>4. CASE AvgImage
  BY <1>4, AverageI DEF AvgImage, Reads, CanRead
<1>5. CASE SumImage \/ HomeoImage
  <2>1. ask.app # "avg" /\ ask.app # "diff"
    BY <1>5 DEF SumImage, HomeoImage
  <2>2. Included(i)
    BY <2>1, Named DEF IInv, Included
  <2> QED BY <1>5, <2>1, <2>2, AverageI DEF SumImage, HomeoImage, Reads, CanRead
<1>6. CASE Done
  BY <1>1, <1>6 DEF Done
<1> QED BY <1>1, <1>2, <1>3, <1>4, <1>5, <1>6, StartI, DiffImageI DEF Next

-----------------------------------------------------------------------------
(* What a program that goes through a list has added up so far is what was *)
(* asked for up to its place in the list, and image_differencer has kept   *)
(* the last image it could read.                                           *)
THEOREM Invariant == Spec => []IInv
<1>1. Init => IInv
  BY InitI
<1>2. IInv /\ [Next]_vars => IInv'
  BY NextI
<1> QED BY <1>1, <1>2, PTL DEF Spec

(* The result avg_images, sum_images, homeopatic_avg or image_differencer   *)
(* writes is made of the images of the range that could be read, passed the *)
(* cut and did not change more than -L allows, in the order of the list and *)
(* each once, but for the first of a later range in an average.             *)
THEOREM EachOnce == Spec => []AddedUp
<1>1. IInv => AddedUp
  <2> SUFFICES ASSUME IInv, pc = "finished"
               PROVE  AddedUp
    BY DEF AddedUp
  <2>1. TypeOK /\ i \in Nat /\ i >= LastFits /\ (i = StartFits \/ i <= LastFits)
    BY DEF IInv, TypeOK, Finished, Taken
  <2>2. LastFits \in Nat /\ StartFits \in Nat /\ ask.first \in Nat
    BY <2>1, Named
  <2>3. AskedFor(LastFits) \subseteq AskedFor(i) /\ AskedFor(i) \subseteq Before \cup AskedFor(LastFits)
    <3>1. CASE i <= LastFits
      BY <2>1, <2>2, <3>1
    <3>2. CASE i = StartFits /\ ask.app \in FromList
      <4>1. ask.first .. i - 1 = {} /\ ask.first .. LastFits - 1 = {}
        BY <2>1, <2>2, <3>2 DEF StartFits
      <4> QED BY <4>1 DEF AskedFor
    <3>3. CASE i = StartFits /\ ask.app \notin FromList
      <4>1. ask.first .. i - 1 \subseteq {ask.first}
            /\ ask.first .. LastFits - 1 \subseteq ask.first .. i - 1
        BY <2>1, <2>2, <3>3 DEF StartFits
      <4> QED BY <3>3, <4>1 DEF AskedFor, Before
    <3> QED BY <2>1, <3>1, <3>2, <3>3
  <2>4. /\ ToSet(sum) \subseteq Stacked
        /\ Stacked \subseteq ToSet(sum) \/ LeavesOut
    BY <2>3 DEF IInv, Taken, Stacked
  <2> QED BY <2>4 DEF IInv, Ascending, TwiceAt, LeavesOut, AddedUp
<1> QED BY <1>1, Invariant, PTL

(* image_differencer subtracts an image from an average of exactly those    *)
(* before it, or from the last one it could read, and of any -H images in a *)
(* row it saves the average with one.                                       *)
THEOREM AverageRuns == Spec => []RunningAverage
<1>1. IInv => RunningAverage
  <2> SUFFICES ASSUME IInv, ask.every > 0, NEW k \in ToSet(turns),
                      k .. k + ask.every - 1 \subseteq ToSet(turns)
               PROVE  \E n \in k .. k + ask.every - 1 : n \in ToSet(saves)
    BY DEF IInv, RunningAverage, SavedEvery
  <2>1. TypeOK /\ ask.every \in Nat \ {0} /\ StartFits \in Nat /\ ask.app = "diff"
    <3>1. TypeOK
      BY DEF IInv
    <3> QED BY <3>1, Named
  <2>2. k \in Nat /\ k >= StartFits
    BY <2>1 DEF IInv, Multiples, Turn
  <2>3. PICK n \in k - StartFits .. (k - StartFits) + ask.every - 1 : n % ask.every = 0
    <3>1. k - StartFits \in Nat
      BY <2>1, <2>2
    <3> QED BY <2>1, <3>1, MultipleInARow
  <2>4. n + StartFits \in k .. k + ask.every - 1 /\ (n + StartFits) - StartFits = n
    BY <2>1, <2>2, <2>3
  <2>5. n + StartFits \in ToSet(saves)
    BY <2>1, <2>3, <2>4 DEF IInv, Multiples
  <2> QED BY <2>4, <2>5
<1> QED BY <1>1, Invariant, PTL

=============================================================================
