------------------------------- MODULE BgFits -------------------------------
(***************************************************************************)
(* The life of CBgFits objects (src/src/bg_fits.cpp): the pixel buffer     *)
(* with its capacity and its owner, the two sizes, the line counter, and   *)
(* the cfitsio handle m_fptr through which images reach the disk.          *)
(*                                                                         *)
(* Any interleaving of calls on several objects that share files is a      *)
(* behaviour.  Pixel values are abstracted to "how many leading rows of    *)
(* the buffer hold data somebody stored" (def); header cards are left out. *)
(*                                                                         *)
(* Out-of-bounds accesses, releases of memory the object does not own and  *)
(* uses of a closed handle are undefined behaviour in C++: the step that   *)
(* does one records it in ub, and nothing follows.                         *)
(***************************************************************************)
EXTENDS Integers

CONSTANTS
  Objs,      (* CBgFits objects *)
  Files,     (* names of FITS files *)
  Dims,      (* the image sizes <<x, y>> callers construct *)
  Archive,   (* the images that may be on disk at the start *)
  MaxY,      (* bound: lines a buffer may grow to *)
  MaxDumped, (* bound: rows dumped into a file piece by piece *)
  MaxHdus,   (* bound: images put behind each other by saves tried again *)
  IOFaults,  (* whether a cfitsio call may fail *)
  Habits     (* what callers do that the class leaves unprotected *)

(* The habits.  No caller in src/ passes SetData memory to a resize or      *)
(* reuses an object after Close; the others name their caller:             *)
(*   shrink       assign a smaller image to a larger object (operator=)    *)
(*   resize_ext   resize an object whose pixels SetData attached           *)
(*   reuse_cube   save the first image of a cube again (mecube2cubes)      *)
(*   reuse_closed use the handle after Close                               *)
(*   retry        save again after a save that failed                      *)
(*   save_empty   save a streamed image without a line (select_integrations)*)
(*   reuse_stream read or assign into an object with lines in it           *)
(*   header_only  assign an image of its size to an object without pixels   *)
(*   tell_lines   tell set_ysize of more lines than are stored              *)
(* Properties of which habits matter are checked and proved with all of them.*)
AllHabits == {"shrink", "resize_ext", "reuse_cube", "reuse_closed", "retry",
              "save_empty", "reuse_stream", "header_only", "tell_lines"}

VARIABLES
  obj,   (* obj[o]: the fields of the object *)
  disk,  (* disk[f]: what the file holds *)
  ret,   (* what the last call returned: 0, or 1 for any error status *)
  ub     (* the undefined behaviours that have happened *)

vars == <<obj, disk, ret, ub>>

-----------------------------------------------------------------------------
(* org, bx, by: where the memory behind "data" came from and the size it was *)
(* allocated for; def: its leading rows that hold stored values.             *)
Object == [alive: BOOLEAN, org: {"null", "heap", "external"},
           bx: Nat, by: Nat, def: Nat, sx: Nat, sy: Nat,
           lines: Nat, total: Nat, ext: BOOLEAN,
           fptr: {"null", "open", "closed"}, fname: Files,
           use: {"none", "image", "stream", "pieces"},
           cube: BOOLEAN, failed: BOOLEAN]

(* The last three fields are the caller's: what it uses the object for,     *)
(* whether the object was the first image of a cube, and whether the last   *)
(* save of it failed.                                                       *)

(* hdus: the HDUs in the file; axes, x, y: the shape of the first image;    *)
(* rows: its rows on disk; junk: a row nobody stored was written.           *)
Image == [hdus: Nat, axes: 1..3, x: Nat, y: Nat, rows: Nat, junk: BOOLEAN]
NoFile == [hdus |-> 0, axes |-> 2, x |-> 0, y |-> 0, rows |-> 0, junk |-> FALSE]

ASSUME BgFitsAssumption ==
  /\ Dims \subseteq (Nat \ {0}) \X (Nat \ {0})
  /\ Files # {}
  /\ Archive \subseteq Image
  /\ \A d \in Archive : d.hdus = 1 /\ d.x > 0 /\ d.y > 0 /\ ~d.junk
  /\ \A d \in Archive : d.axes = 1 => d.y = 1
  /\ MaxY \in Nat /\ MaxDumped \in Nat /\ MaxHdus \in Nat
  /\ IOFaults \in BOOLEAN
  /\ Habits \subseteq AllHabits

Blank == [alive |-> FALSE, org |-> "null", bx |-> 0, by |-> 0, def |-> 0,
          sx |-> 0, sy |-> 0, lines |-> 0, total |-> 0, ext |-> FALSE,
          fptr |-> "null", fname |-> CHOOSE f \in Files : TRUE,
          use |-> "none", cube |-> FALSE, failed |-> FALSE]

(* The pixels an access may touch. *)
Capacity(b) == IF b.org = "null" THEN 0 ELSE b.bx * b.by

(* Reading or writing n pixels from the start of the buffer. *)
Access(b, n) == IF n > Capacity(b) THEN {"overrun"} ELSE {}

(* delete [] data, unless the caller has looked at m_bExternalData. *)
Release(b) == IF b.org = "external" THEN {"bad_free"} ELSE {}

Smaller(m, n) == IF m < n THEN m ELSE n

Fresh == [Blank EXCEPT !.alive = TRUE]

(* Mutant: the lines so far are not copied. *)
ReallocForgets(b, x, y, keep) ==
  [b EXCEPT !.org = "heap", !.bx = x, !.by = y, !.sx = x, !.sy = y, !.def = 0]

(* The new block has room for x * y pixels; memcpy moves sx * sy of them,   *)
(* the sizes the object had before.                                         *)
Realloc(b, x, y, keep) ==
  [b EXCEPT !.org = "heap", !.bx = x, !.by = y, !.sx = x, !.sy = y,
            !.def = IF keep /\ b.org # "null" /\ x = b.sx
                    THEN Smaller(b.def, y) ELSE 0]

ReallocUB(b, x, y, keep) ==
  (IF keep /\ b.org # "null" /\ b.sx * b.sy > x * y THEN {"overrun"} ELSE {})
    \cup Release(b)

-----------------------------------------------------------------------------
Init ==
  /\ obj = [o \in Objs |-> Blank]
  /\ disk \in [Files -> Archive \cup {NoFile}]
  /\ ret = 0
  /\ ub = {}

Live(o) == ub = {} /\ obj[o].alive

(* Uses of the handle: NULL or open is fine, closed is dangling. *)
HandleUB(b) == IF b.fptr = "closed" THEN {"closed_handle"} ELSE {}

(* CBgFits(): no buffer.  CBgFits(x, y): a buffer nobody has written yet. *)
New(o) ==
  /\ ub = {} /\ ~obj[o].alive
  /\ \/ obj' = [obj EXCEPT ![o] = Fresh]
     \/ \E d \in Dims :
          obj' = [obj EXCEPT ![o] = Realloc(Fresh, d[1], d[2], FALSE)]
  /\ ret' = 0
  /\ UNCHANGED <<disk, ub>>

(* ~CBgFits: Clean frees the pixels unless they are external; the handle    *)
(* and the file behind it stay as they are.                                 *)
Delete(o) ==
  /\ Live(o)
  /\ obj' = [obj EXCEPT ![o] = Blank]
  /\ ub' = ub \cup (IF obj[o].ext THEN {} ELSE Release(obj[o]))
  /\ ret' = 0
  /\ UNCHANGED disk

(* Sizes change only while no streamed line is in the object. *)
NoLines(o) ==
  \/ obj[o].use \in {"none", "image"}
  \/ obj[o].use = "stream" /\ "reuse_stream" \in Habits

(* Mutant: m_bExternalData is not set. *)
AttachedUnmarked(b, x, y) ==
  [b EXCEPT !.org = "external", !.bx = x, !.by = y, !.def = y,
            !.sx = x, !.sy = y, !.use = "image"]

(* The caller attaches d[1] * d[2] pixels of its own, all stored. *)
Attached(b, x, y) ==
  [b EXCEPT !.org = "external", !.bx = x, !.by = y, !.def = y,
            !.sx = x, !.sy = y, !.ext = TRUE, !.use = "image"]

SetData(o) ==
  /\ Live(o) /\ NoLines(o)
  /\ \E d \in Dims : obj' = [obj EXCEPT ![o] = Attached(@, d[1], d[2])]
  /\ ub' = ub \cup (IF obj[o].ext THEN {} ELSE Release(obj[o]))
  /\ ret' = 0
  /\ UNCHANGED disk

(* The caller stores every pixel through get_data() or setXY. *)
Filled(b) == [b EXCEPT !.def = b.sy, !.use = "image"]

Fill(o) ==
  /\ Live(o) /\ NoLines(o) /\ obj[o].org # "null"
  /\ obj' = [obj EXCEPT ![o] = Filled(@)]
  /\ ret' = 0
  /\ UNCHANGED <<disk, ub>>

(* operator=: p's pixels into o, after a Realloc when the sizes differ.     *)
Differ(b, c) == b.sx # c.sx \/ b.sy # c.sy

Resized(b, c) == IF Differ(b, c) THEN Realloc(b, c.sx, c.sy, TRUE) ELSE b

Assigned(b, c) == [Resized(b, c) EXCEPT !.def = c.def, !.use = "image"]

AssignUB(b, c) ==
  (IF Differ(b, c) THEN ReallocUB(b, c.sx, c.sy, TRUE) ELSE {})
    \cup Access(Resized(b, c), c.sx * c.sy) \cup Access(c, c.sx * c.sy)

Assign(o, p) ==
  LET b == obj[o]
      c == obj[p]
  IN
  /\ Live(o) /\ Live(p) /\ o # p /\ NoLines(o) /\ c.use = "image"
  /\ b.org = "external" /\ Differ(b, c) => "resize_ext" \in Habits
  /\ b.org = "null" /\ ~Differ(b, c) => "header_only" \in Habits
  /\ b.org # "null" /\ b.sx * b.sy > c.sx * c.sy => "shrink" \in Habits
  /\ obj' = [obj EXCEPT ![o] = Assigned(b, c)]
  /\ ub' = ub \cup AssignUB(b, c)
  /\ ret' = 0
  /\ UNCHANGED disk

-----------------------------------------------------------------------------
(* Mutant: the buffer is grown one line too late. *)
FullLate(b) == b.lines > b.sy

(* Streaming.  add_line appends one row of the object's width, doubling the *)
(* height when the buffer is full; without a buffer it does nothing.        *)
Full(b) == b.lines = b.sy

Grown(b) == IF Full(b) THEN Realloc(b, b.sx, 2 * b.sy, TRUE) ELSE b

LineAdded(b) ==
  [Grown(b) EXCEPT !.lines = b.lines + 1, !.use = "stream",
                   !.def = IF @ = b.lines THEN b.lines + 1 ELSE @]

AddLineUB(b) ==
  (IF Full(b) THEN ReallocUB(b, b.sx, 2 * b.sy, TRUE) ELSE {})
    \cup Access(Grown(b), (b.lines + 1) * b.sx)

AddLine(o) ==
  LET b == obj[o] IN
  /\ Live(o) /\ b.org # "null"
  /\ b.use \in {"none", "stream"} \/ (b.use = "image" /\ "reuse_stream" \in Habits)
  /\ Full(b) => 2 * b.sy <= MaxY
  /\ b.org = "external" /\ Full(b) => "resize_ext" \in Habits
  /\ obj' = [obj EXCEPT ![o] = LineAdded(b)]
  /\ ub' = ub \cup AddLineUB(b)
  /\ ret' = 0
  /\ UNCHANGED disk

(* reset_lines_counter: the next line overwrites the first. *)
ResetLines(o) ==
  /\ Live(o) /\ obj[o].use = "stream"
  /\ obj' = [obj EXCEPT ![o].lines = 0]
  /\ ret' = 0
  /\ UNCHANGED <<disk, ub>>

(* Mutant: the default argument -1 becomes the height. *)
CutUnchecked(b, n) == [b EXCEPT !.sy = IF b.lines > 0 THEN b.lines ELSE -1]

(* set_ysize cuts the height to the lines so far, or to n when the caller   *)
(* tells it how many there are (-1, the default, and 0 tell nothing).  A    *)
(* number of lines above the height stays in the counter.                   *)
Told(b, n) == IF n > 0 THEN [b EXCEPT !.lines = n, !.use = "stream"] ELSE b

Cut(b, n) ==
  LET c == Told(b, n) IN
  IF c.lines > 0 /\ c.lines <= c.sy THEN [c EXCEPT !.sy = c.lines] ELSE c

SetYsize(o, n) ==
  LET b == obj[o] IN
  /\ Live(o) /\ b.use # "pieces"
  /\ n > 0 /\ (b.org = "null" \/ n > Smaller(b.sy, b.def)) => "tell_lines" \in Habits
  /\ obj' = [obj EXCEPT ![o] = Cut(@, n)]
  /\ ret' = 0
  /\ UNCHANGED <<disk, ub>>

-----------------------------------------------------------------------------
(* ReadFits.  An error before the sizes are known leaves the object as it   *)
(* was.  The sizes are taken from the header before the pixels are read;    *)
(* for a file with one axis the second size compared is whatever was on the *)
(* stack.  The line counter, the handle and m_bExternalData stay.           *)
Dropped(b) == [b EXCEPT !.org = "null", !.bx = 0, !.by = 0, !.def = 0]

ReadFitsHeader(b, d, drop) ==
  LET h == IF drop THEN Dropped(b) ELSE b
      y == IF d.axes = 1 THEN 1 ELSE d.y
  IN [h EXCEPT !.sx = d.x, !.sy = y, !.use = "none"]

ReadFitsPixels(h, ok) ==
  LET p == IF h.org = "null"
           THEN [h EXCEPT !.org = "heap", !.bx = h.sx, !.by = h.sy] ELSE h
  IN IF ok THEN [p EXCEPT !.def = p.sy, !.use = "image"] ELSE [p EXCEPT !.def = 0]

ReadFitsFails(o, f) ==
  /\ Live(o) /\ NoLines(o)
  /\ disk[f].hdus = 0 \/ IOFaults
  /\ ret' = 1
  /\ UNCHANGED <<obj, disk, ub>>

(* Whether the pixels are dropped because the sizes changed. *)
Drops(b, d) ==
  IF b.org = "null" THEN {FALSE}
  ELSE IF d.axes = 1 /\ d.x = b.sx THEN BOOLEAN
  ELSE {d.x # b.sx \/ d.y # b.sy}

ReadFits(o, f, bReadImage) ==
  LET b == obj[o]
      d == disk[f]
  IN
  /\ Live(o) /\ NoLines(o) /\ d.hdus > 0
  /\ \E drop \in Drops(b, d) :
       LET h == ReadFitsHeader(b, d, drop) IN
       /\ drop /\ b.org = "external" => "resize_ext" \in Habits
       /\ ub' = ub \cup (IF drop THEN Release(b) ELSE {})
                   \cup (IF bReadImage /\ h.org # "null"
                         THEN Access(h, h.sx * h.sy) ELSE {})
       /\ \/ /\ ~bReadImage
             /\ obj' = [obj EXCEPT ![o] = h]
             /\ ret' \in IF IOFaults THEN {0, 1} ELSE {0}
          \/ /\ bReadImage /\ (d.rows < d.y \/ IOFaults)
             /\ obj' = [obj EXCEPT ![o] = ReadFitsPixels(h, FALSE)]
             /\ ret' = 1
          \/ /\ bReadImage /\ d.rows >= d.y
             /\ obj' = [obj EXCEPT ![o] = ReadFitsPixels(h, TRUE)]
             /\ ret' \in IF IOFaults THEN {0, 1} ELSE {0}
  /\ UNCHANGED disk

-----------------------------------------------------------------------------
(* Saving.  What callers save is an image whose pixels they stored, or the  *)
(* lines streamed so far, once the height is those lines: set_ysize before, *)
(* or bUpdateSizeY here.                                                    *)
Complete(b) ==
  \/ b.use = "image"
  \/ b.use = "stream" /\ b.lines > 0 /\ b.sy = b.lines
  \/ b.use \in {"none", "stream"} /\ b.org # "null" /\ "save_empty" \in Habits

(* No other object has the file open. *)
Free(f, o) == \A p \in Objs \ {o} : obj[p].fptr = "open" => obj[p].fname # f

Savable(o, f) ==
  /\ Live(o) /\ Free(f, o)
  /\ obj[o].cube => "reuse_cube" \in Habits
  /\ obj[o].failed => "retry" \in Habits
  /\ obj[o].fptr = "open" => disk[obj[o].fname].hdus < MaxHdus
  /\ obj[o].use = "pieces" => "reuse_closed" \in Habits

(* A save through the handle an earlier one left closed. *)
Dangles(b) == ub' = ub \cup HandleUB(b) /\ ret' = 1 /\ UNCHANGED <<obj, disk>>

(* The height WriteFits takes when bUpdateSizeY is set. *)
UpdateSizeY(b, bUpdateSizeY) ==
  IF bUpdateSizeY /\ b.lines # 0 THEN [b EXCEPT !.sy = b.lines] ELSE b

(* fits_create_file("!name") is called only without a handle. *)
Target(b, f) == IF b.fptr = "null" THEN f ELSE b.fname

(* fits_create_img, then rows rows of the image. *)
PutImage(d, b, n, rows) ==
  IF d.hdus = 0
  THEN [hdus |-> 1, axes |-> n, x |-> b.sx, y |-> b.sy,
        rows |-> rows, junk |-> rows > b.def]
  ELSE [d EXCEPT !.hdus = @ + 1]

(* Mutant: without the "!" the image is appended to the file that is there. *)
BeforeAppends(b, f) == disk[Target(b, f)]

(* The file a save starts from: a new one, or the one still open. *)
Before(b, f) == IF b.fptr = "null" THEN NoFile ELSE disk[Target(b, f)]

(* Mutant: m_fptr is not reset after fits_close_file. *)
ReleasedLate(b) == [b EXCEPT !.fptr = "closed", !.failed = FALSE]

Released(b) == [b EXCEPT !.fptr = "null", !.failed = FALSE]

WriteFitsOK(o, f, b) ==
  /\ obj' = [obj EXCEPT ![o] = Released(b)]
  /\ disk' = [disk EXCEPT ![Target(b, f)] = PutImage(Before(b, f), b, 2, b.sy)]
  /\ ub' = ub \cup Access(b, b.sx * b.sy)
  /\ ret' = 0

(* fits_create_file, fits_create_img, fits_write_img or fits_close_file     *)
(* fails.  After the second and the third the handle stays open.            *)
Lost(b) == [b EXCEPT !.failed = TRUE]
Held(b, f) == [b EXCEPT !.failed = TRUE, !.fptr = "open", !.fname = Target(b, f)]

SaveFails(o, f, b, n, left) ==
  /\ IOFaults
  /\ \/ /\ b.fptr = "null"
        /\ obj' = [obj EXCEPT ![o] = Lost(b)]
        /\ disk' \in {disk, [disk EXCEPT ![f] = NoFile]}
     \/ /\ obj' = [obj EXCEPT ![o] = Held(b, f)]
        /\ disk' = [disk EXCEPT ![Target(b, f)] = Before(b, f)]
     \/ /\ obj' \in {[obj EXCEPT ![o] = Held(b, f)], [obj EXCEPT ![o] = left]}
        /\ disk' = [disk EXCEPT ![Target(b, f)] = PutImage(Before(b, f), b, n, 0)]
  /\ ret' = 1
  /\ UNCHANGED ub

WriteFits(o, f, bUpdateSizeY) ==
  LET b == UpdateSizeY(obj[o], bUpdateSizeY) IN
  /\ Savable(o, f)
  /\ Complete(b) \/ (b.use = "pieces" /\ b.fptr = "closed")
  /\ IF b.fptr = "closed" THEN Dangles(b)
     ELSE WriteFitsOK(o, f, b) \/ SaveFails(o, f, b, 2, Lost(Released(b)))

(* WriteMultiImageFits(<<o, p>>): p's pixels behind o's, through o's handle, *)
(* which is closed at the end and left in o.                                *)
Cubed(b) == [b EXCEPT !.cube = TRUE]
Dangling(b) == [b EXCEPT !.cube = TRUE, !.fptr = "closed", !.failed = FALSE]

PutCube(d, b, c) == [PutImage(d, b, 3, b.sy) EXCEPT !.junk = @ \/ c.sy > c.def]

WriteMultiImageFits(o, p, f) ==
  LET b == obj[o]
      c == obj[p]
      same == c.sx * c.sy = b.sx * b.sy
  IN
  /\ Savable(o, f) /\ Live(p) /\ o # p /\ b.use = "image" /\ c.use = "image"
  /\ IF b.fptr = "closed" THEN Dangles(b)
     ELSE \/ /\ same
             /\ obj' = [obj EXCEPT ![o] = Dangling(b)]
             /\ disk' = [disk EXCEPT ![Target(b, f)] = PutCube(Before(b, f), b, c)]
             /\ ub' = ub \cup Access(b, b.sx * b.sy) \cup Access(c, c.sx * c.sy)
             /\ ret' = 0
          \/ /\ ~same
             /\ obj' = [obj EXCEPT ![o] = Held(Cubed(b), f)]
             /\ disk' = [disk EXCEPT ![Target(b, f)] = PutImage(Before(b, f), b, 3, 0)]
             /\ ret' = 1
             /\ UNCHANGED ub
          \/ SaveFails(o, f, Cubed(b), 3, Lost(Dangling(b)))

(* The workaround bg_fits.h offers after a cube was written. *)
ResetFilePointer(o) ==
  /\ Live(o) /\ obj[o].fptr = "closed" /\ obj[o].use # "pieces"
  /\ obj' = [obj EXCEPT ![o] = [@ EXCEPT !.fptr = "null", !.cube = FALSE]]
  /\ ret' = 0
  /\ UNCHANGED <<disk, ub>>

-----------------------------------------------------------------------------
(* Writing a file piece by piece: Create, DumpFitsLine, Close. *)
Create(o, f) ==
  LET b == obj[o]
      opened == [b EXCEPT !.fptr = "open", !.fname = f, !.use = "pieces"]
  IN
  /\ Live(o) /\ Free(f, o) /\ b.use \in {"none", "pieces"} /\ b.sx > 0 /\ b.sy > 0
  /\ b.fptr # "open"
  /\ \/ /\ obj' = [obj EXCEPT ![o] = [opened EXCEPT !.total = 0, !.lines = 0]]
        /\ disk' = [disk EXCEPT ![f] = PutImage(NoFile, b, 2, 0)]
        /\ ret' = 0
     \/ /\ IOFaults
        /\ obj' = [obj EXCEPT ![o] = [opened EXCEPT !.fptr = "null"]]
        /\ disk' \in {disk, [disk EXCEPT ![f] = NoFile]}
        /\ ret' = 1
     \/ /\ IOFaults
        /\ obj' = [obj EXCEPT ![o] = opened]
        /\ disk' = [disk EXCEPT ![f] = NoFile]
        /\ ret' = 1
  /\ UNCHANGED ub

(* The counters advance whether or not the row was written. *)
Dumped(b) == [b EXCEPT !.total = b.total + b.sx, !.lines = b.lines + 1]

DumpFitsLine(o) ==
  LET b == obj[o] IN
  /\ Live(o) /\ b.use = "pieces" /\ b.lines < MaxDumped
  /\ b.fptr = "closed" => "reuse_closed" \in Habits
  /\ ub' = ub \cup HandleUB(b)
  /\ IF b.fptr # "open"
     THEN ret' = 0 /\ UNCHANGED <<obj, disk>>
     ELSE /\ obj' = [obj EXCEPT ![o] = Dumped(b)]
          /\ \/ /\ disk[b.fname].rows = b.lines /\ b.lines < disk[b.fname].y
                /\ disk' = [disk EXCEPT ![b.fname].rows = @ + 1]
                /\ ret' = 0
             \/ /\ IOFaults \/ b.lines >= disk[b.fname].y
                /\ disk' = disk /\ ret' = 1

(* m_fptr is not reset: it points to the closed file from here on. *)
Close(o) ==
  LET b == obj[o] IN
  /\ Live(o) /\ b.use = "pieces"
  /\ b.fptr = "closed" => "reuse_closed" \in Habits
  /\ ub' = ub \cup HandleUB(b)
  /\ obj' = [obj EXCEPT ![o].fptr = IF @ = "open" THEN "closed" ELSE @]
  /\ ret' \in IF IOFaults THEN {0, 1} ELSE {0}
  /\ UNCHANGED disk

-----------------------------------------------------------------------------
Next ==
  \/ \E o \in Objs : New(o) \/ Delete(o) \/ SetData(o) \/ Fill(o)
                       \/ AddLine(o) \/ ResetLines(o)
                       \/ ResetFilePointer(o) \/ DumpFitsLine(o) \/ Close(o)
  \/ \E o \in Objs, n \in {-1} \cup 1..MaxY : SetYsize(o, n)
  \/ \E o, p \in Objs : Assign(o, p)
  \/ \E o \in Objs, f \in Files : ReadFitsFails(o, f) \/ Create(o, f)
  \/ \E o \in Objs, f \in Files, bReadImage \in BOOLEAN : ReadFits(o, f, bReadImage)
  \/ \E o \in Objs, f \in Files, upd \in BOOLEAN : WriteFits(o, f, upd)
  \/ \E o, p \in Objs, f \in Files : WriteMultiImageFits(o, p, f)

Spec == Init /\ [][Next]_vars

-----------------------------------------------------------------------------
TypeOK ==
  /\ obj \in [Objs -> Object]
  /\ disk \in [Files -> Image]
  /\ ret \in {0, 1}
  /\ ub \subseteq {"overrun", "bad_free", "closed_handle"}

(* No operation reads or writes pixels outside the block the object has:    *)
(* neither the growth in add_line, nor the shrink in set_ysize, nor a read  *)
(* of a file of another size, nor a save, leaves sizes or a line counter    *)
(* that a later call would follow out of the buffer.                        *)
InBounds == "overrun" \notin ub

(* The pixels SetData attached are released when, and only when, the object *)
(* gives them up for a block of its own while it lives on, which Realloc and *)
(* ReadFits do without a look at m_bExternalData: never by its destructor,  *)
(* by attaching others, by a save, whatever was called before.              *)
GivesUp(o) == obj[o].alive /\ obj[o].ext /\ obj'[o].alive /\ obj'[o].org # "external"

OwnMemory == [][("bad_free" \in ub') <=> (\E o \in Objs : GivesUp(o))]_vars

(* A handle is closed and still in the object only behind a cube or a Close, *)
(* however saves succeeded or failed: an object that WriteFits writes may be *)
(* saved any number of times, one file after the other.                     *)
NoDeadHandle ==
  /\ \A o \in Objs : obj[o].fptr = "closed" => obj[o].cube \/ obj[o].use = "pieces"
  /\ "closed_handle" \in ub =>
       \E o \in Objs : obj[o].fptr = "closed" /\ (obj[o].cube \/ obj[o].use = "pieces")

(* Every row on disk was stored by somebody before it was saved: growing    *)
(* keeps the lines streamed so far and no file ends in rows of new memory.  *)
NoJunkRows == \A f \in Files : ~disk[f].junk

(* f holds exactly one image, o's, with all of its rows. *)
HasImageOf(f, o) ==
  /\ disk'[f].hdus = 1
  /\ disk'[f].x = obj[o].sx /\ disk'[f].y = obj'[o].sy
  /\ disk'[f].rows = obj'[o].sy

(* When WriteFits returns 0, the object's image is in the file that was     *)
(* asked for, unless the save before failed with the file open; and then no *)
(* file but that one is touched.  A save that failed to create its file, or *)
(* to close it, may be tried again under any name.                          *)
SavedWhereAsked ==
  [][\A o \in Objs, f \in Files, upd \in BOOLEAN :
       ret' = 0 /\ ~HasImageOf(f, o) /\ WriteFits(o, f, upd) =>
         /\ obj[o].failed /\ obj[o].fptr = "open"
         /\ \A g \in Files \ {obj[o].fname} : disk'[g] = disk[g]]_vars

(* What InBounds rests on: the sizes an object works with are those of its  *)
(* block, or fewer rows of it, a streamed object has no more lines than     *)
(* rows, and the rows a user of the object relies on are stored.            *)
Sound(b) ==
  /\ b.org # "null" => b.sx = b.bx /\ b.sx > 0 /\ b.sy > 0 /\ b.sy <= b.by
  /\ b.use = "stream" => b.org # "null" /\ b.lines <= b.sy /\ b.lines <= b.def
  /\ b.use = "image" => b.org # "null" /\ b.lines = 0 /\ b.sy <= b.def
  /\ b.use = "none" => b.lines = 0
  /\ b.ext <=> b.org = "external"
  /\ b.fptr = "closed" => b.cube \/ b.use = "pieces"

SoundFile(d) == d.hdus > 0 => d.x > 0 /\ d.y > 0

Consistent ==
  /\ \A o \in Objs : Sound(obj[o])
  /\ \A f \in Files : SoundFile(disk[f])
=============================================================================
