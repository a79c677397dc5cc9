----------------------------- MODULE TotalPower -----------------------------
(***************************************************************************)
(* total_power_vert (apps/total_power_vert.cpp; total_power_hor is the     *)
(* same program for the other axis): a program started again and again on  *)
(* a list of FITS files that grows, which appends the power of every       *)
(* integration to a text file and keeps, in a stamp file, the last FITS    *)
(* file it read, to go on from there the next time.                        *)
(*                                                                         *)
(* Files are numbered in the order they are recorded.  The list is a       *)
(* window of them: new files come, and files that the stamp has passed are *)
(* archived.  An integration lasts one unit of time.                       *)
(***************************************************************************)
EXTENDS Integers, Sequences, FiniteSets

CONSTANTS
  NFiles,      (* the files that will be recorded *)
  Size,        (* the integrations of a file *)
  Gap,         (* the time between two files *)
  Cut,         (* the integrations -a, -b, -o, -p or -t leave out *)
  Within,      (* <<p, f>>: the name of p is part of the name of f *)
  CutWithin,   (* <<p, f>>: its beginning, that found room on the disk, is *)
  Asks,        (* the command lines *)
  Faults,      (* what may go wrong, each once *)
  MaxFaults    (* bound: how much of it *)

Files == 1 .. NFiles
None == 0

(* append: -g; fromLast: start_from_last=, which last_processed= sets too;  *)
(* processed: last_processed=, None when not given; now: write_now=; minY,  *)
(* maxY: -m and -x, -1 when not given.  The value of total_power_stampfile= *)
(* is never used: parse_cmdline ends by deriving the name from that of the  *)
(* output.                                                                  *)
Options == [append : BOOLEAN, fromLast : BOOLEAN, processed : Files \cup {None},
            now : BOOLEAN, minY : Nat, maxY : Nat \cup {-1}]

(* "crash": the program is killed; "stamp", "short", "rows": there is no    *)
(* space for the stamp, for all of it, or for rows that stdio still holds   *)
(* when the file is closed.                                                 *)
ASSUME TotalPowerAssumption ==
  /\ NFiles \in Nat \ {0} /\ Size \in Nat \ {0} /\ Gap \in Nat
  /\ Faults \subseteq {"crash", "stamp", "short", "rows"} /\ MaxFaults \in Nat
  /\ Cut \subseteq Files \X (0 .. Size - 1)
  /\ Within \subseteq Files \X Files /\ \A f \in Files : <<f, f>> \in Within
  /\ Within \subseteq CutWithin /\ CutWithin \subseteq Files \X Files
  /\ Asks \subseteq Options

VARIABLES
  ask,
  low, high,  (* the list is low + 1 .. high *)
  bad,        (* the files that cannot be read, or not yet *)
  stamp,      (* the file named in the stamp file *)
  stampCut,   (* of whose name only the beginning is there *)
  disk,       (* the rows in the output file *)
  pc,         (* "idle", "loop", "stamp", "report", "close" *)
  fits_list,  (* the list as it was read *)
  i,          (* the place in it *)
  last,       (* gLastProcessed *)
  lastCut,    (* the beginning of a name, as the stamp file had it *)
  power,      (* total_power_list *)
  buf,        (* rows given to stdio and not written yet *)
  passed,     (* the files this run could not read *)
  skipped,    (* those of them the stamp was moved past *)
  ended,      (* the last run came to its end *)
  faults      (* what went wrong *)

run == <<pc, fits_list, i, last, lastCut, power, buf, passed>>
vars == <<ask, low, high, bad, stamp, stampCut, disk, run, skipped, ended, faults>>

-----------------------------------------------------------------------------
(* A file named on the command line has been recorded. *)
Init ==
  /\ ask \in Asks /\ low = 0 /\ high \in ask.processed .. NFiles /\ bad \in SUBSET Files
  /\ stamp = None /\ stampCut = FALSE
  /\ disk = <<>> /\ pc = "idle" /\ fits_list = <<>> /\ i = 0
  /\ last = None /\ lastCut = FALSE
  /\ power = <<>> /\ buf = <<>> /\ passed = {} /\ skipped = {}
  /\ ended = FALSE /\ faults = {}

(* The world around the program: a file is recorded, is completed, or is    *)
(* archived once it is behind the last one processed.                       *)
Record ==
  /\ high < NFiles /\ high' = high + 1
  /\ UNCHANGED <<ask, low, bad, stamp, stampCut, disk, run, skipped, ended, faults>>

Complete ==
  /\ \E f \in bad : bad' = bad \ {f}
  /\ UNCHANGED <<ask, low, high, stamp, stampCut, disk, run, skipped, ended, faults>>

Archive ==
  /\ low < stamp /\ low' = low + 1
  /\ UNCHANGED <<ask, high, bad, stamp, stampCut, disk, run, skipped, ended, faults>>

-----------------------------------------------------------------------------
Listed == [k \in 1 .. high - low |-> low + k]

(* The places of the files whose name has the last one, or its beginning,   *)
(* in it.                                                                   *)
Found(list, p, cut) ==
  {k \in 1 .. Len(list) : <<p, list[k]>> \in (IF cut THEN CutWithin ELSE Within)}

(* gLastProcessed is what the command line gave, or what the stamp file has. *)
LastFrom(p) ==
  IF ask.processed # None THEN ask.processed ELSE IF ask.fromLast THEN p ELSE None

LastCutFrom(cut) == ask.processed = None /\ ask.fromLast /\ cut

StartAtBeyond(list, p, cut) ==
  IF ~ask.fromLast \/ p = None \/ Found(list, p, cut) = {} THEN 0
  ELSE 1 + CHOOSE k \in Found(list, p, cut) : \A j \in Found(list, p, cut) : k <= j

(* start_idx: behind the first of them, or the start of the list.           *)
StartAt(list, p, cut) ==
  IF ~ask.fromLast \/ p = None \/ Found(list, p, cut) = {} THEN 0
  ELSE CHOOSE k \in Found(list, p, cut) : \A j \in Found(list, p, cut) : k <= j

(* The list must not be empty and its first file must be readable, even if  *)
(* it is one of those to be skipped.                                        *)
FirstRead == low < high /\ low + 1 \notin bad

Begin ==
  /\ pc = "idle" /\ FirstRead
  /\ fits_list' = Listed
  /\ last' = LastFrom(stamp) /\ lastCut' = LastCutFrom(stampCut)
  /\ i' = StartAt(Listed, last', lastCut')
  /\ disk' = IF ask.append THEN disk ELSE <<>>
  /\ pc' = "loop" /\ power' = <<>> /\ buf' = <<>> /\ passed' = {}
  /\ ended' = FALSE
  /\ UNCHANGED <<ask, low, high, bad, stamp, stampCut, skipped, faults>>

NoBegin ==
  /\ pc = "idle" /\ ~FirstRead
  /\ ended' = FALSE
  /\ UNCHANGED <<ask, low, high, bad, stamp, stampCut, disk, run, skipped, faults>>

-----------------------------------------------------------------------------
Time(f, y) == f * Gap + y

(* -x is not compared with the size: lines behind the end give rows too,    *)
(* of NaN, which no cut on the power leaves out.                            *)
EndY == IF ask.maxY > 0 THEN ask.maxY ELSE Size

Accepted(f) == {y \in ask.minY .. EndY - 1 : <<f, y>> \notin Cut}

(* How many integrations of a file come before one of them. *)
Rank(f, y) == Cardinality({x \in Accepted(f) : x < y})

SecondsOfFile(f, y) == Rank(f, y)

(* t starts at the time of the file, whatever the first line is, and moves  *)
(* on by one integration with every row that is not left out.               *)
Seconds(f, y) == Time(f, 0) - Time(fits_list[1], 0) + Rank(f, y)

(* after: what had gone wrong before, which no column of the output says.  *)
RowAt(f, y) == [file |-> f, int |-> y, t |-> Seconds(f, y), after |-> faults]

(* The rows of a file, by integration. *)
RowsOf(f) ==
  [k \in 1 .. Cardinality(Accepted(f)) |->
     RowAt(f, CHOOSE y \in Accepted(f) : Rank(f, y) = k - 1)]

InLoop == pc = "loop" /\ i < Len(fits_list)

ReadForgets ==
  /\ InLoop /\ fits_list[i + 1] \notin bad
  /\ i' = i + 1
  /\ LET rows == RowsOf(fits_list[i + 1])
     IN  IF ask.now THEN buf' = buf \o rows /\ UNCHANGED power
         ELSE power' = rows /\ UNCHANGED buf
  /\ last' = fits_list[i + 1] /\ lastCut' = FALSE
  /\ UNCHANGED <<ask, low, high, bad, stamp, stampCut, disk, pc, fits_list, passed,
                 skipped, ended, faults>>

(* One file of the list.  With write_now its rows are given to stdio at     *)
(* once, without it they are kept for the end.                              *)
Read ==
  /\ InLoop /\ fits_list[i + 1] \notin bad
  /\ i' = i + 1
  /\ LET rows == RowsOf(fits_list[i + 1])
     IN  IF ask.now THEN buf' = buf \o rows /\ UNCHANGED power
         ELSE power' = power \o rows /\ UNCHANGED buf
  /\ last' = fits_list[i + 1] /\ lastCut' = FALSE
  /\ UNCHANGED <<ask, low, high, bad, stamp, stampCut, disk, pc, fits_list, passed,
                 skipped, ended, faults>>

Unreadable ==
  /\ InLoop /\ fits_list[i + 1] \in bad
  /\ i' = i + 1 /\ passed' = passed \cup {fits_list[i + 1]}
  /\ UNCHANGED <<ask, low, high, bad, stamp, stampCut, disk, pc, fits_list, last,
                 lastCut, power, buf, skipped, ended, faults>>

LoopEnds ==
  /\ pc = "loop" /\ i >= Len(fits_list)
  /\ pc' = "stamp"
  /\ UNCHANGED <<ask, low, high, bad, stamp, stampCut, disk, fits_list, i, last, lastCut,
                 power, buf, passed, skipped, ended, faults>>

Fails(what) ==
  /\ what \in Faults \ faults /\ Cardinality(faults) < MaxFaults
  /\ faults' = faults \cup {what}

StampMoves ==
  stamp' = last /\ skipped' = skipped \cup {f \in passed : f < last}

StampInPlace ==
  /\ pc = "stamp" /\ pc' = "report"
  /\ \/ stamp' = last /\ stampCut' = lastCut /\ UNCHANGED faults
     \/ Fails("stamp") /\ stamp' = None /\ stampCut' = FALSE
  /\ skipped' = skipped \cup {f \in passed : f < last}
  /\ UNCHANGED <<ask, low, high, bad, disk, fits_list, i, last, lastCut, power, buf,
                 passed, ended>>

(* The stamp goes to a file of its own that takes the place of the old one,  *)
(* unless it came out shorter than six bytes: there is no file to name, or no *)
(* space.  A longer beginning of a name takes the place of the stamp too.     *)
Stamp ==
  /\ pc = "stamp" /\ pc' = "report"
  /\ \/ last # None /\ StampMoves /\ stampCut' = lastCut /\ UNCHANGED faults
     \/ last # None /\ StampMoves /\ stampCut' = TRUE /\ Fails("short")
     \/ last = None /\ UNCHANGED <<stamp, stampCut, skipped, faults>>
     \/ last # None /\ Fails("stamp") /\ UNCHANGED <<stamp, stampCut, skipped>>
  /\ UNCHANGED <<ask, low, high, bad, disk, fits_list, i, last, lastCut, power, buf,
                 passed, ended>>

(* Without write_now the rows are written here. *)
Report ==
  /\ pc = "report" /\ pc' = "close"
  /\ buf' = buf \o power
  /\ UNCHANGED <<ask, low, high, bad, stamp, stampCut, disk, fits_list, i, last, lastCut,
                 power, passed, skipped, ended, faults>>

(* stdio writes when it likes. *)
Flush ==
  /\ buf # <<>>
  /\ \E n \in 1 .. Len(buf) :
       /\ disk' = disk \o SubSeq(buf, 1, n)
       /\ buf' = SubSeq(buf, n + 1, Len(buf))
  /\ UNCHANGED <<ask, low, high, bad, stamp, stampCut, pc, fits_list, i, last, lastCut,
                 power, passed, skipped, ended, faults>>

(* Nobody looks at what fclose, or fprintf, returns. *)
Close ==
  /\ pc = "close" /\ pc' = "idle"
  /\ \/ disk' = disk \o buf /\ UNCHANGED faults
     \/ buf # <<>> /\ Fails("rows") /\ UNCHANGED disk
  /\ buf' = <<>> /\ power' = <<>> /\ ended' = TRUE
  /\ UNCHANGED <<ask, low, high, bad, stamp, stampCut, fits_list, i, last, lastCut,
                 passed, skipped>>

Crash ==
  /\ pc # "idle" /\ Fails("crash")
  /\ pc' = "idle" /\ buf' = <<>> /\ power' = <<>>
  /\ ended' = FALSE
  /\ UNCHANGED <<ask, low, high, bad, stamp, stampCut, disk, fits_list, i, last, lastCut,
                 passed, skipped>>

-----------------------------------------------------------------------------
Program ==
  Begin \/ NoBegin \/ Read \/ Unreadable \/ LoopEnds \/ Stamp \/ Report \/ Close

Next ==
  \/ Program \/ Flush \/ Crash
  \/ Record \/ Complete \/ Archive

(* The program is started again (by cron) and runs; a file that cannot be   *)
(* read is one still being written.                                         *)
Spec == Init /\ [][Next]_vars /\ WF_vars(Program) /\ WF_vars(Record)
             /\ WF_vars(Complete)

-----------------------------------------------------------------------------
HasRows(f) ==
  \A y \in Accepted(f) : \E k \in DOMAIN disk : disk[k].file = f /\ disk[k].int = y

(* The two ways the program is run: every run appends what is new, or       *)
(* writes everything again.                                                 *)
Appends == ask.append /\ ask.fromLast /\ ask.processed = None
Rewrites == ~ask.append /\ ~ask.fromLast /\ ask.processed = None

(* The stamp file names the last file processed: when a run has come to its *)
(* end, every file on the list up to that one has all its rows in the       *)
(* output, unless it could not be read when its turn came.                  *)
LastProcessed ==
  Appends /\ pc = "idle" /\ ended
    => \A f \in low + 1 .. stamp : f \in skipped \/ HasRows(f)

(* What the next run will skip is in the output: LastProcessed holds as     *)
(* long as nothing goes wrong, and for a program that writes everything     *)
(* again it does so after a crash as well.                                  *)
NothingLost ==
  pc = "idle" /\ ended
    /\ ((Appends /\ faults = {}) \/ (Rewrites /\ "rows" \notin faults))
    => \A f \in low + 1 .. stamp : f \in skipped \/ HasRows(f)

(* What has the next run that appends read files again: the stamp is not     *)
(* there, or not whole; when the rows go out before it, a crash as well.     *)
Repeats == {"stamp", "short"} \cup (IF ask.now THEN {"crash"} ELSE {})

Less(r, q) == r.file < q.file \/ (r.file = q.file /\ r.int < q.int)

(* A row is of a later integration, or is one read again by a later run     *)
(* because something went wrong behind the row before.                      *)
Follows(r, q) ==
  Less(r, q) \/ (ask.append /\ ((q.after \ r.after) \cap Repeats # {}))

(* The rows of the output are in the order of time and none is there twice, *)
(* however many runs wrote them; only what has the program read files again *)
(* repeats rows, and no more often than it happens.                         *)
OnceInOrder ==
  (ask.append => Appends) => \A j, k \in DOMAIN disk : j < k => Follows(disk[j], disk[k])

(* No integration of the file of a row was left out before it. *)
Straight(row) == \A y \in 0 .. row.int - 1 : <<row.file, y>> \notin Cut

(* In the output of one run, the first column counts the seconds as the     *)
(* second column does: two rows are as far apart in SECOND_SINCE_START as   *)
(* they are in UXTIME, unless an integration was left out before them.      *)
SecondsSinceStart ==
  ~ask.append /\ ask.minY = 0
    => \A k \in 1 .. Len(disk) - 1 :
         Straight(disk[k]) /\ Straight(disk[k + 1])
           => disk[k + 1].t - disk[k].t
                = Time(disk[k + 1].file, disk[k + 1].int) - Time(disk[k].file, disk[k].int)

(* The rows of any number of runs read like those of a single one: in the   *)
(* order of time, each once, and a second apart where their data are.       *)
RowsFollow == OnceInOrder /\ SecondsSinceStart

(* The stamp never goes back to an earlier file, or to none, wherever the    *)
(* program starts and however full the disk: not when it could not be        *)
(* written, and not when its name was cut short and is found in another file's. *)
StampGoesOn == [][ask.processed = None => stamp' >= stamp]_vars

(* Unless something goes wrong, every file that is recorded, and is not one *)
(* the program was told not to read again, gets its rows into the output in *)
(* the end, or was passed over by a run that could not read it.             *)
CaughtUp ==
  \A f \in Files : <>(HasRows(f) \/ f \in skipped \/ faults # {}
                        \/ (ask.fromLast /\ f <= ask.processed))
=============================================================================
