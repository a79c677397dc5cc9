------------------------------ MODULE Stacking ------------------------------
(***************************************************************************)
(* The programs that go through a list of FITS images and add them up:     *)
(* avg_images, sum_images, homeopatic_avg and image_differencer (src/apps/).*)
(*                                                                         *)
(* An image is its place in the list, and all have one size.  A sum, and   *)
(* the weighted ("homeopatic") average, is the sequence of the images that *)
(* went into it, seen at one pixel: in some of the images a bright object  *)
(* is there.                                                               *)
(***************************************************************************)
EXTENDS Integers, Sequences, FiniteSets, SequencesExt

CONSTANTS
  Lists,   (* the lists of files: "good", "bright", "noisy" (rms out of range), *)
           (* "missing"                                                         *)
  Asks     (* the options of a program *)

Apps == {"avg", "sum", "homeo", "diff"}

(* first, last: -S and -E; ignore: -i; beam: the state of the beam file of *)
(* -B; cut: -r; max: -x; every: gSubtractHomeopaticSaveEveryNImages of -H;  *)
(* limit: -L.                                                              *)
Options == [app : Apps, first : Nat, last : Nat, ignore : BOOLEAN,
            beam : {"none", "read", "missing"}, cut : BOOLEAN, max : BOOLEAN,
            every : Nat, limit : BOOLEAN]

(* sum_images sets no option, and only avg_images has a beam, a cut and a  *)
(* maximum.                                                                *)
ASSUME StackingAssumption ==
  /\ Lists \subseteq Seq({"good", "bright", "noisy", "missing"})
  /\ Asks \subseteq Options
  /\ \A a \in Asks :
       /\ a.app = "sum" => a.first = 0 /\ ~a.ignore
       /\ a.app # "avg" => a.beam = "none" /\ ~a.cut /\ ~a.max
       /\ a.app # "diff" => a.every = 0 /\ ~a.limit

VARIABLES
  pc,      (* "start", "loop", "finished", "failed" *)
  list, ask,
  i,       (* the place in the list *)
  sum,     (* sum_tab, homeopatic_avg: the images in it, in order *)
  weight,  (* sum_beam: what is in it *)
  best,    (* the images pMax is the maximum of *)
  good,    (* good_image_count *)
  prev,    (* prev_fits *)
  diffs,   (* the differences: [of, from, i]: from a set of images *)
  saves,   (* the turns the average was saved at *)
  turns    (* the images that were read in the loop *)

vars == <<pc, list, ask, i, sum, weight, best, good, prev, diffs, saves, turns>>

AnyBeam == -1
NoFits == -1

-----------------------------------------------------------------------------
Init ==
  /\ pc = "start" /\ list \in Lists /\ ask \in Asks /\ ask.first < Len(list)
  /\ i = 0 /\ sum = <<>> /\ weight = <<>> /\ best = {} /\ good = 0
  /\ prev = NoFits /\ diffs = <<>> /\ saves = <<>> /\ turns = <<>>

File(k) == list[k + 1]
LastFits == IF ask.last < Len(list) THEN ask.last ELSE Len(list)
FromList == {"avg", "sum"}

(* The loop of the averages begins at the first image asked for, but not   *)
(* before the second of the list.                                          *)
StartFits ==
  IF ask.app \in FromList THEN ask.first
  ELSE IF ask.first > 1 THEN ask.first ELSE 1

(* The first image gives the size, and the averages their first value.     *)
Start ==
  /\ pc = "start" /\ File(ask.first) # "missing"
  /\ pc' = "loop" /\ i' = StartFits
  /\ sum' = IF ask.app \in FromList THEN <<>> ELSE <<ask.first>>
  /\ good' = 1
  /\ prev' = IF ask.app = "diff" THEN ask.first ELSE NoFits
  /\ UNCHANGED <<list, ask, weight, best, diffs, saves, turns>>

NoFirst ==
  /\ pc = "start" /\ File(ask.first) = "missing"
  /\ pc' = "failed"
  /\ UNCHANGED <<list, ask, i, sum, weight, best, good, prev, diffs, saves, turns>>

-----------------------------------------------------------------------------
(* A file that cannot be read is passed over with -i, and is the end of the *)
(* program without.                                                         *)
SkipFile ==
  /\ pc = "loop" /\ i < LastFits /\ File(i) = "missing"
  /\ IF ask.ignore THEN pc' = pc /\ i' = i + 1 ELSE pc' = "failed" /\ i' = i
  /\ UNCHANGED <<list, ask, sum, weight, best, good, prev, diffs, saves, turns>>

Reads == pc = "loop" /\ i < LastFits /\ File(i) # "missing"

(* The cut on the rms of a single image. *)
Included(k) == ~ask.cut \/ File(k) # "noisy"

(* sum_beam is allocated by the first image that comes with a beam. *)
Weighted == IF weight = <<>> THEN <<AnyBeam>> ELSE weight

Maximum == IF ask.max THEN best \cup {i} ELSE best

AvgImage ==
  /\ ask.app = "avg" /\ Reads /\ ask.beam # "missing"
  /\ i' = i + 1 /\ turns' = Append(turns, i)
  /\ IF Included(i)
     THEN /\ sum' = Append(sum, i) /\ good' = good + 1
          /\ weight' = IF ask.beam = "read" THEN Append(Weighted, i) ELSE weight
     ELSE /\ UNCHANGED <<sum, good>>
          /\ weight' = IF ask.beam = "read" THEN Weighted ELSE weight
  /\ best' = Maximum
  /\ UNCHANGED <<pc, list, ask, prev, diffs, saves>>

NoBeam ==
  /\ ask.app = "avg" /\ Reads /\ ask.beam = "missing"
  /\ pc' = "failed"
  /\ UNCHANGED <<list, ask, i, sum, weight, best, good, prev, diffs, saves, turns>>

SumImage ==
  /\ ask.app = "sum" /\ Reads
  /\ i' = i + 1 /\ turns' = Append(turns, i)
  /\ sum' = Append(sum, i)
  /\ UNCHANGED <<pc, list, ask, weight, best, good, prev, diffs, saves>>

HomeoImage ==
  /\ ask.app = "homeo" /\ Reads
  /\ i' = i + 1 /\ turns' = Append(turns, i)
  /\ sum' = Append(sum, i)
  /\ saves' = Append(saves, i)
  /\ UNCHANGED <<pc, list, ask, weight, best, good, prev, diffs>>

(* Mutant: the new image is in the average it is subtracted from. *)
FromWithNew == IF ask.every > 0 THEN ToSet(sum) \cup {i} ELSE {prev}
(* What an image is subtracted from: the average so far, or the image that *)
(* was read before it.                                                     *)
From == IF ask.every > 0 THEN ToSet(sum) ELSE {prev}

(* Mutant: the average is saved with every (n+1)-th image. *)
SavesOneLater == ask.every > 0 /\ (i - StartFits) % (ask.every + 1) = 0

SavesNow == ask.every > 0 /\ (i - StartFits) % ask.every = 0

(* With -L a pixel is not averaged when it differs from the image before by  *)
(* more than the limit: the object came or went.  The image before is only   *)
(* subtracted with -H; without it the memory compared is never set.          *)
Brightness(k) == File(k) = "bright"

(* Mutant: the limit is not looked at. *)
NeverBright == {FALSE}

Excluded ==
  IF ~ask.limit THEN {FALSE}
  ELSE IF ask.every > 0 THEN {Brightness(i) # Brightness(prev)}
  ELSE BOOLEAN

(* The difference is taken, and the average saved, before the image goes    *)
(* into the average.                                                        *)
DiffImage ==
  /\ ask.app = "diff" /\ Reads
  /\ i' = i + 1 /\ turns' = Append(turns, i)
  /\ diffs' = Append(diffs, [of |-> i, from |-> From])
  /\ saves' = IF SavesNow THEN Append(saves, i) ELSE saves
  /\ prev' = i
  /\ \E excluded \in Excluded : sum' = IF excluded THEN sum ELSE Append(sum, i)
  /\ UNCHANGED <<pc, list, ask, weight, best, good>>

(* The result is written: avg_images divides by good_image_count, or by    *)
(* sum_beam; the others write the sum, or the average, as it is.           *)
WriteResult ==
  /\ pc = "loop" /\ i >= LastFits
  /\ pc' = "finished"
  /\ UNCHANGED <<list, ask, i, sum, weight, best, good, prev, diffs, saves, turns>>

Done == pc \in {"finished", "failed"} /\ UNCHANGED vars

Next ==
  \/ Start \/ NoFirst \/ SkipFile \/ NoBeam
  \/ AvgImage \/ SumImage \/ HomeoImage \/ DiffImage \/ WriteResult \/ Done

Spec == Init /\ [][Next]_vars

-----------------------------------------------------------------------------
CanRead(k) == File(k) # "missing"

(* The object came or went with the image k of the range. *)
Changed(k) ==
  \E j \in ask.first .. k - 1 :
    /\ CanRead(j) /\ \A m \in j + 1 .. k - 1 : ~CanRead(m)
    /\ Brightness(j) # Brightness(k)

(* The images of the range, up to a place, that could be read, passed the   *)
(* cut of -r and did not change more than -L allows.                        *)
AskedFor(until) ==
  {k \in ask.first .. until - 1 :
     CanRead(k) /\ Included(k) /\ ~(ask.limit /\ ask.every > 0 /\ Changed(k))}

(* The averages have the first image before the loop begins. *)
Before == IF ask.app \in FromList THEN {} ELSE {ask.first}

Stacked == Before \cup AskedFor(LastFits)

(* A result that is written is made of exactly the images that were asked   *)
(* for, in the order of the list and each once, wherever in the list the    *)
(* range begins; but an average has a first image that is not the list's    *)
(* twice, once before the loop and once in it, and with -L alone, which     *)
(* compares memory nobody set, it may lack any image.                       *)
AddedUp ==
  pc = "finished" =>
    /\ ToSet(sum) \subseteq Stacked
    /\ Stacked \subseteq ToSet(sum) \/ (ask.limit /\ ask.every = 0)
    /\ \A m, n \in DOMAIN sum : m < n =>
         \/ sum[m] < sum[n]
         \/ ask.app \notin FromList /\ ask.first > 0 /\ sum[m] = ask.first /\ sum[n] = ask.first

(* An image is subtracted from an average of exactly those before it that   *)
(* the options let in, or from the last one before it that could be read;   *)
(* the first of a range that is not the list's, from itself.                *)
FromBefore ==
  \A k \in DOMAIN diffs :
    LET d == diffs[k]
    IN IF ask.every > 0 THEN d.from = {ask.first} \cup AskedFor(d.of)
       ELSE \E p \in ask.first .. d.of :
              /\ d.from = {p} /\ CanRead(p)
              /\ p = d.of => p = ask.first /\ ask.first > 0
              /\ \A m \in p + 1 .. d.of - 1 : ~CanRead(m)

(* Of any number (-H) of images in a row in the list that were all read, one *)
(* has the average saved with it.                                            *)
SavedEvery ==
  ask.every > 0 =>
    \A k \in ToSet(turns) :
      k .. k + ask.every - 1 \subseteq ToSet(turns) =>
        \E n \in k .. k + ask.every - 1 : n \in ToSet(saves)

(* The running average of the differences, wherever the range begins, and   *)
(* with files passed over: what an image is subtracted from, and how often  *)
(* the average is saved.                                                    *)
RunningAverage == FromBefore /\ SavedEvery

(* The average of avg_images divides the sum by the number of images in it *)
(* ("averaged %d good images of %d all").                                  *)
DividedByCount == pc = "finished" /\ ask.app = "avg" => good = Len(sum)
=============================================================================
