---------------------------- MODULE BgFitsProofs ----------------------------
(***************************************************************************)
(* For every set of objects and files, every image size and any pattern of *)
(* cfitsio failures: callers without the habits of BgFits never meet the   *)
(* undefined behaviours the class leaves possible, and never save a row    *)
(* that nobody stored; and whatever the habits of callers, which call      *)
(* releases pixels of theirs, when a handle can be closed and where a save *)
(* goes.                                                                   *)
(***************************************************************************)
EXTENDS BgFits, TLAPS

(* Each object is sound, nothing undefined happened, no junk is on disk. *)
IInv ==
  /\ TypeOK
  /\ ub = {}
  /\ Consistent
  /\ NoJunkRows

-----------------------------------------------------------------------------
(* Arithmetic of the buffer. *)
LEMMA Mult == ASSUME NEW a \in Nat, NEW b \in Nat, NEW c \in Nat, a <= b
              PROVE  c * a <= c * b
BY SMT

LEMMA InBlock ==
  ASSUME NEW b \in Object, b.org # "null", NEW n \in Nat, n <= b.by
  PROVE  Access(b, n * b.bx) = {} /\ Access(b, b.bx * n) = {}
<1>1. b.bx \in Nat /\ b.by \in Nat
  BY DEF Object
<1>2. b.bx * n <= b.bx * b.by /\ n * b.bx = b.bx * n
  BY <1>1, Mult
<1>3. Capacity(b) = b.bx * b.by /\ Capacity(b) \in Nat /\ b.bx * n \in Nat
  BY <1>1 DEF Capacity
<1> QED
  BY <1>2, <1>3 DEF Access

(* What a step must establish when it changes one object. *)
LEMMA Update ==
  ASSUME IInv, NEW o \in Objs, NEW r \in Object, Sound(r),
         obj' = [obj EXCEPT ![o] = r], ub' = {}, ret' \in {0, 1},
         disk' \in [Files -> Image],
         \A f \in Files : ~disk'[f].junk /\ SoundFile(disk'[f])
  PROVE  IInv'
<1>1. obj' \in [Objs -> Object]
  BY DEF IInv, TypeOK
<1>2. \A p \in Objs : Sound(obj'[p])
  BY DEF IInv, TypeOK, Consistent
<1> QED
  BY <1>1, <1>2 DEF IInv, TypeOK, NoJunkRows, Consistent

LEMMA KeepDisk ==
  ASSUME IInv, UNCHANGED disk
  PROVE  /\ disk' \in [Files -> Image]
         /\ \A f \in Files : ~disk'[f].junk /\ SoundFile(disk'[f])
BY DEF IInv, TypeOK, NoJunkRows, Consistent

-----------------------------------------------------------------------------
(* The object operations keep an object typed and sound. *)
LEMMA FreshOK == Fresh \in Object /\ Sound(Fresh) /\ Blank \in Object /\ Sound(Blank)
BY BgFitsAssumption DEF Fresh, Blank, Object, Sound

LEMMA ReallocOK ==
  ASSUME NEW b \in Object, NEW x \in Nat, NEW y \in Nat, NEW keep \in BOOLEAN
  PROVE  Realloc(b, x, y, keep) \in Object
BY DEF Object, Realloc, Smaller

(* The growth of add_line: the lines streamed so far stay within the block. *)
LEMMA GrownOK ==
  ASSUME NEW b \in Object, Sound(b), b.org # "null", b.use \in {"none", "stream"},
         ~(b.org = "external" /\ Full(b)), NEW g, g = Grown(b)
  PROVE  /\ g \in Object /\ g.org # "null"
         /\ (g.org = "external") <=> (b.org = "external")
         /\ g.sx = g.bx /\ g.sx > 0 /\ g.sy > 0 /\ g.sy <= g.by
         /\ b.lines + 1 <= g.sy /\ b.lines <= g.def /\ g.bx = b.sx
         /\ g.ext = b.ext /\ g.fptr = b.fptr /\ g.cube = b.cube
         /\ (IF Full(b) THEN ReallocUB(b, b.sx, 2 * b.sy, TRUE) ELSE {}) = {}
<1>1. /\ b.sx \in Nat /\ b.sy \in Nat /\ b.lines \in Nat
      /\ b.def \in Nat /\ b.bx \in Nat /\ b.by \in Nat
  BY DEF Object
<1>2. /\ b.sx = b.bx /\ b.sx > 0 /\ b.sy > 0 /\ b.sy <= b.by
      /\ b.lines <= b.sy /\ b.lines <= b.def
  BY <1>1 DEF Sound
<1>3. CASE ~Full(b)
  BY <1>1, <1>2, <1>3 DEF Grown, Full
<1>4. CASE Full(b)
  <2>1. g = Realloc(b, b.sx, 2 * b.sy, TRUE) /\ b.lines = b.sy
    BY <1>4 DEF Grown, Full
  <2>2. 2 * b.sy \in Nat /\ TRUE \in BOOLEAN
    BY <1>1
  <2>3. g \in Object
    BY <1>1, <2>1, <2>2, ReallocOK
  <2>4. /\ g.org = "heap" /\ g.sx = b.sx /\ g.sy = 2 * b.sy
        /\ g.bx = b.sx /\ g.by = 2 * b.sy
        /\ g.ext = b.ext /\ g.fptr = b.fptr /\ g.cube = b.cube
        /\ g.def = Smaller(b.def, 2 * b.sy)
    BY <1>1, <2>1, <2>2 DEF Realloc, Object
  <2>5. b.lines <= g.def /\ b.lines + 1 <= 2 * b.sy
    <3>1. b.lines <= 2 * b.sy /\ b.lines + 1 <= 2 * b.sy
      BY <1>1, <1>2, <2>1
    <3> QED
      BY <1>1, <1>2, <2>4, <3>1 DEF Smaller
  <2>6. b.sx * b.sy <= b.sx * (2 * b.sy)
    BY <1>1, <2>2, Mult
  <2>7. b.sx * b.sy \in Int /\ b.sx * (2 * b.sy) \in Int
    BY <1>1, <2>2
  <2>8. ~(b.sx * b.sy > b.sx * (2 * b.sy))
    BY <2>6, <2>7
  <2>9. b.org # "external"
    BY <1>4
  <2>10. ReallocUB(b, b.sx, 2 * b.sy, TRUE) = {}
    BY <2>8, <2>9 DEF ReallocUB, Release
  <2>11. (IF Full(b) THEN ReallocUB(b, b.sx, 2 * b.sy, TRUE) ELSE {}) = {}
    BY <1>4, <2>10
  <2>12. /\ g.sx = g.bx /\ g.sx > 0 /\ g.sy > 0 /\ g.sy <= g.by
         /\ b.lines + 1 <= g.sy /\ g.bx = b.sx
    BY <1>1, <1>2, <2>2, <2>4, <2>5
  <2> QED
    BY <2>3, <2>4, <2>5, <2>9, <2>11, <2>12
<1> QED
  BY <1>3, <1>4

LEMMA LineOK ==
  ASSUME NEW b \in Object, Sound(b), b.org # "null", b.use \in {"none", "stream"},
         ~(b.org = "external" /\ Full(b))
  PROVE  LineAdded(b) \in Object /\ Sound(LineAdded(b)) /\ AddLineUB(b) = {}
<1>1. PICK g : g = Grown(b)
  OBVIOUS
<1>2. /\ g \in Object /\ g.org # "null"
      /\ (g.org = "external") <=> (b.org = "external")
      /\ g.sx = g.bx /\ g.sx > 0 /\ g.sy > 0 /\ g.sy <= g.by
      /\ b.lines + 1 <= g.sy /\ b.lines <= g.def /\ g.bx = b.sx
      /\ g.ext = b.ext /\ g.fptr = b.fptr /\ g.cube = b.cube
      /\ (IF Full(b) THEN ReallocUB(b, b.sx, 2 * b.sy, TRUE) ELSE {}) = {}
  BY <1>1, GrownOK
<1>3. PICK d : d = IF g.def = b.lines THEN b.lines + 1 ELSE g.def
  OBVIOUS
<1>4. /\ b.lines \in Nat /\ b.lines + 1 \in Nat /\ g.def \in Nat
      /\ g.bx \in Nat /\ g.by \in Nat /\ g.sy \in Nat /\ b.sx \in Nat
  BY <1>2 DEF Object
<1>5. d \in Nat /\ b.lines + 1 <= d
  BY <1>2, <1>3, <1>4
<1>6. PICK r : r = [g EXCEPT !.lines = b.lines + 1, !.use = "stream", !.def = d]
  OBVIOUS
<1>7. r = LineAdded(b)
  BY <1>1, <1>3, <1>6 DEF LineAdded
<1>8. r \in Object
  BY <1>2, <1>4, <1>5, <1>6 DEF Object
<1>9. /\ r.org = g.org /\ r.bx = g.bx /\ r.by = g.by /\ r.sx = g.sx /\ r.sy = g.sy
      /\ r.lines = b.lines + 1 /\ r.use = "stream" /\ r.ext = g.ext
      /\ r.fptr = g.fptr /\ r.cube = g.cube /\ r.def = d
  BY <1>2, <1>6 DEF Object
<1>10. Sound(r)
  <2>1. (b.ext <=> b.org = "external") /\ (b.fptr = "closed" => b.cube)
    BY DEF Sound
  <2> QED
    BY <1>2, <1>4, <1>5, <1>9, <2>1 DEF Sound
<1>11. Access(g, (b.lines + 1) * b.sx) = {}
  <2>1. b.lines + 1 <= g.by
    BY <1>2, <1>4
  <2> QED
    BY <1>2, <1>4, <2>1, InBlock
<1> QED
  BY <1>1, <1>2, <1>7, <1>8, <1>10, <1>11 DEF AddLineUB

-----------------------------------------------------------------------------
(* Every operation keeps the invariant when the callers have no habits.     *)
LEMMA At ==
  ASSUME IInv, NEW o \in Objs
  PROVE  obj[o] \in Object /\ Sound(obj[o])
BY DEF IInv, TypeOK, Consistent

LEMMA NewOK == ASSUME IInv, NEW o \in Objs, New(o) PROVE IInv'
<1>1. ub' = {} /\ ret' \in {0, 1} /\ UNCHANGED disk
  BY DEF New, IInv
<1>2. CASE obj' = [obj EXCEPT ![o] = Fresh]
  BY <1>1, <1>2, FreshOK, KeepDisk, Update
<1>3. CASE \E d \in Dims : obj' = [obj EXCEPT ![o] = Realloc(Fresh, d[1], d[2], FALSE)]
  <2>1. PICK d \in Dims : obj' = [obj EXCEPT ![o] = Realloc(Fresh, d[1], d[2], FALSE)]
    BY <1>3
  <2>2. PICK x \in Nat \ {0}, y \in Nat \ {0} : x = d[1] /\ y = d[2]
    BY BgFitsAssumption
  <2>3. PICK r : r = Realloc(Fresh, x, y, FALSE)
    OBVIOUS
  <2>4. r \in Object
    BY <2>3, FreshOK, ReallocOK
  <2>5. /\ r.org = "heap" /\ r.bx = x /\ r.by = y /\ r.sx = x /\ r.sy = y
        /\ r.use = "none" /\ r.lines = 0 /\ r.ext = FALSE /\ r.fptr = "null"
    BY <2>3 DEF Realloc, Fresh, Blank
  <2>6. Sound(r)
    BY <2>5 DEF Sound
  <2> QED
    BY <1>1, <2>1, <2>2, <2>3, <2>4, <2>6, KeepDisk, Update
<1> QED
  BY <1>2, <1>3 DEF New

LEMMA DeleteOK == ASSUME IInv, NEW o \in Objs, Delete(o) PROVE IInv'
<1>1. IF obj[o].ext THEN TRUE ELSE Release(obj[o]) = {}
  BY At DEF Sound, Release
<1>2. ub' = {} /\ ret' \in {0, 1} /\ UNCHANGED disk
  BY <1>1 DEF Delete, IInv
<1> QED
  BY <1>2, FreshOK, KeepDisk, Update DEF Delete

LEMMA SetDataOK == ASSUME IInv, Habits = {}, NEW o \in Objs, SetData(o) PROVE IInv'
<1>1. IF obj[o].ext THEN TRUE ELSE Release(obj[o]) = {}
  BY At DEF Sound, Release
<1>2. ub' = {} /\ ret' \in {0, 1} /\ UNCHANGED disk
  BY <1>1 DEF SetData, IInv
<1>3. PICK d \in Dims : obj' = [obj EXCEPT ![o] = Attached(obj[o], d[1], d[2])]
  BY At DEF SetData, IInv, TypeOK
<1>4. PICK x \in Nat \ {0}, y \in Nat \ {0} : x = d[1] /\ y = d[2]
  BY BgFitsAssumption
<1>5. PICK b : b = obj[o]
  OBVIOUS
<1>6. b \in Object /\ Sound(b) /\ b.use \in {"none", "image"}
  BY <1>5, At DEF SetData, NoLines
<1>7. PICK r : r = Attached(b, x, y)
  OBVIOUS
<1>8. r \in Object
  BY <1>6, <1>7 DEF Object, Attached
<1>9. /\ r.org = "external" /\ r.bx = x /\ r.by = y /\ r.sx = x /\ r.sy = y
      /\ r.def = y /\ r.ext = TRUE /\ r.use = "image"
      /\ r.lines = b.lines /\ r.fptr = b.fptr /\ r.cube = b.cube
  BY <1>6, <1>7 DEF Object, Attached
<1>10. Sound(r)
  BY <1>6, <1>9 DEF Sound
<1> QED
  BY <1>2, <1>3, <1>4, <1>5, <1>7, <1>8, <1>10, KeepDisk, Update

LEMMA FillOK == ASSUME IInv, Habits = {}, NEW o \in Objs, Fill(o) PROVE IInv'
<1>1. ub' = {} /\ ret' \in {0, 1} /\ UNCHANGED disk
  BY DEF Fill, IInv
<1>2. PICK b : b = obj[o]
  OBVIOUS
<1>3. b \in Object /\ Sound(b) /\ b.use \in {"none", "image"} /\ b.org # "null"
  BY <1>2, At DEF Fill, NoLines
<1>4. PICK r : r = Filled(b)
  OBVIOUS
<1>5. r \in Object
  BY <1>3, <1>4 DEF Object, Filled
<1>6. /\ r.org = b.org /\ r.bx = b.bx /\ r.by = b.by /\ r.sx = b.sx /\ r.sy = b.sy
      /\ r.def = b.sy /\ r.ext = b.ext /\ r.use = "image"
      /\ r.lines = b.lines /\ r.fptr = b.fptr /\ r.cube = b.cube /\ b.sy \in Nat
  BY <1>3, <1>4 DEF Object, Filled
<1>7. Sound(r)
  BY <1>3, <1>6 DEF Sound
<1>8. obj' = [obj EXCEPT ![o] = r]
  BY <1>2, <1>4 DEF Fill, IInv, TypeOK
<1> QED
  BY <1>1, <1>5, <1>7, <1>8, KeepDisk, Update

(* operator= between sound objects; the target is not made smaller. *)
LEMMA AssignedOK ==
  ASSUME NEW b \in Object, Sound(b), b.use \in {"none", "image"},
         NEW c \in Object, Sound(c), c.use = "image",
         Differ(b, c) => b.org # "external",
         ~Differ(b, c) => b.org # "null",
         b.org # "null" => ~(b.sx * b.sy > c.sx * c.sy)
  PROVE  Assigned(b, c) \in Object /\ Sound(Assigned(b, c)) /\ AssignUB(b, c) = {}
<1>1. /\ b.sx \in Nat /\ b.sy \in Nat /\ b.bx \in Nat /\ b.by \in Nat /\ b.def \in Nat
      /\ c.sx \in Nat /\ c.sy \in Nat /\ c.bx \in Nat /\ c.by \in Nat /\ c.def \in Nat
  BY DEF Object
<1>2. /\ c.org # "null" /\ c.sx = c.bx /\ c.sx > 0 /\ c.sy > 0 /\ c.sy <= c.by
      /\ c.sy <= c.def
  BY DEF Sound
<1>3. PICK g : g = Resized(b, c)
  OBVIOUS
<1>4. /\ g \in Object /\ g.org # "null" /\ g.sx = g.bx /\ g.sx = c.sx /\ g.sy = c.sy
      /\ g.sy <= g.by /\ g.lines = b.lines /\ g.ext = b.ext /\ g.fptr = b.fptr
      /\ g.cube = b.cube
      /\ (g.org = "external") <=> (b.org = "external")
      /\ (IF Differ(b, c) THEN ReallocUB(b, c.sx, c.sy, TRUE) ELSE {}) = {}
  <2>1. CASE Differ(b, c)
    <3>1. g = Realloc(b, c.sx, c.sy, TRUE)
      BY <1>3, <2>1 DEF Resized
    <3>2. g \in Object
      BY <1>1, <3>1, ReallocOK
    <3>3. /\ g.org = "heap" /\ g.sx = c.sx /\ g.sy = c.sy /\ g.bx = c.sx /\ g.by = c.sy
          /\ g.lines = b.lines /\ g.ext = b.ext /\ g.fptr = b.fptr /\ g.cube = b.cube
      BY <3>1 DEF Realloc, Object
    <3>4. ReallocUB(b, c.sx, c.sy, TRUE) = {}
      BY <2>1 DEF ReallocUB, Release
    <3>5. (IF Differ(b, c) THEN ReallocUB(b, c.sx, c.sy, TRUE) ELSE {}) = {}
      BY <3>4
    <3>6. c.sy <= c.sy /\ b.org # "external"
      BY <1>1, <2>1
    <3> QED
      BY <3>2, <3>3, <3>5, <3>6
  <2>2. CASE ~Differ(b, c)
    <3>1. g = b /\ b.sx = c.sx /\ b.sy = c.sy /\ b.org # "null"
      BY <1>3, <2>2 DEF Resized, Differ
    <3>2. b.sx = b.bx /\ b.sy <= b.by
      BY <3>1 DEF Sound
    <3>3. (IF Differ(b, c) THEN ReallocUB(b, c.sx, c.sy, TRUE) ELSE {}) = {}
      BY <2>2
    <3> QED
      BY <3>1, <3>2, <3>3
  <2> QED
    BY <2>1, <2>2
<1>5. Access(g, c.sx * c.sy) = {} /\ Access(c, c.sx * c.sy) = {}
  <2>1. Access(g, g.bx * g.sy) = {}
    BY <1>1, <1>4, InBlock
  <2>2. Access(c, c.bx * c.sy) = {}
    BY <1>1, <1>2, InBlock
  <2> QED
    BY <1>2, <1>4, <2>1, <2>2
<1>6. PICK r : r = [g EXCEPT !.def = c.def, !.use = "image"]
  OBVIOUS
<1>7. r = Assigned(b, c)
  BY <1>3, <1>6 DEF Assigned
<1>8. r \in Object
  BY <1>1, <1>4, <1>6 DEF Object
<1>9. /\ r.org = g.org /\ r.bx = g.bx /\ r.by = g.by /\ r.sx = g.sx /\ r.sy = g.sy
      /\ r.lines = g.lines /\ r.use = "image" /\ r.ext = g.ext
      /\ r.fptr = g.fptr /\ r.cube = g.cube /\ r.def = c.def
  BY <1>4, <1>6 DEF Object
<1>10. Sound(r)
  <2>1. /\ b.ext <=> b.org = "external"
        /\ b.fptr = "closed" => b.cube
        /\ b.lines = 0
    BY DEF Sound
  <2>2. r.ext <=> r.org = "external"
    BY <1>4, <1>9, <2>1
  <2>3. /\ r.org # "null" /\ r.sx = r.bx /\ r.sx > 0 /\ r.sy > 0 /\ r.sy <= r.by
        /\ r.use = "image" /\ r.lines = 0 /\ r.sy <= r.def
        /\ r.fptr = "closed" => r.cube
    BY <1>2, <1>4, <1>9, <2>1
  <2> QED
    BY <2>2, <2>3 DEF Sound
<1> QED
  BY <1>3, <1>4, <1>5, <1>7, <1>8, <1>10 DEF AssignUB

LEMMA AssignOK ==
  ASSUME IInv, Habits = {}, NEW o \in Objs, NEW p \in Objs, Assign(o, p)
  PROVE  IInv'
<1>1. PICK b, c : b = obj[o] /\ c = obj[p]
  OBVIOUS
<1>2. b \in Object /\ Sound(b) /\ c \in Object /\ Sound(c)
  BY <1>1, At
<1>3. /\ b.use \in {"none", "image"} /\ c.use = "image"
      /\ Differ(b, c) => b.org # "external"
      /\ ~Differ(b, c) => b.org # "null"
      /\ b.org # "null" => ~(b.sx * b.sy > c.sx * c.sy)
  BY <1>1 DEF Assign, NoLines
<1>4. /\ obj' = [obj EXCEPT ![o] = Assigned(b, c)]
      /\ ub' = ub \cup AssignUB(b, c) /\ ret' = 0 /\ UNCHANGED disk
  BY <1>1 DEF Assign
<1>5. Assigned(b, c) \in Object /\ Sound(Assigned(b, c)) /\ AssignUB(b, c) = {}
  BY <1>2, <1>3, AssignedOK
<1>6. ub' = {}
  BY <1>4, <1>5 DEF IInv
<1> QED
  BY <1>4, <1>5, <1>6, KeepDisk, Update

LEMMA AddLineOK ==
  ASSUME IInv, Habits = {}, NEW o \in Objs, AddLine(o)
  PROVE  IInv'
<1>1. PICK b : b = obj[o]
  OBVIOUS
<1>2. b \in Object /\ Sound(b)
  BY <1>1, At
<1>3. /\ b.org # "null" /\ b.use \in {"none", "stream"}
      /\ ~(b.org = "external" /\ Full(b))
  BY <1>1 DEF AddLine
<1>4. /\ obj' = [obj EXCEPT ![o] = LineAdded(b)]
      /\ ub' = ub \cup AddLineUB(b) /\ ret' = 0 /\ UNCHANGED disk
  BY <1>1 DEF AddLine
<1>5. LineAdded(b) \in Object /\ Sound(LineAdded(b)) /\ AddLineUB(b) = {}
  BY <1>2, <1>3, LineOK
<1>6. ub' = {}
  BY <1>4, <1>5 DEF IInv
<1> QED
  BY <1>4, <1>5, <1>6, KeepDisk, Update

LEMMA ResetLinesOK ==
  ASSUME IInv, NEW o \in Objs, ResetLines(o)
  PROVE  IInv'
<1>1. PICK b : b = obj[o]
  OBVIOUS
<1>2. b \in Object /\ Sound(b) /\ b.use = "stream"
  BY <1>1, At DEF ResetLines
<1>3. PICK r : r = [b EXCEPT !.lines = 0]
  OBVIOUS
<1>4. r \in Object /\ Sound(r)
  BY <1>2, <1>3 DEF Object, Sound
<1>5. /\ obj' = [obj EXCEPT ![o] = r]
      /\ ub' = {} /\ ret' \in {0, 1} /\ UNCHANGED disk
  BY <1>1, <1>3 DEF ResetLines, IInv, TypeOK
<1> QED
  BY <1>4, <1>5, KeepDisk, Update

(* Cutting the height to the lines so far, or to as many as the caller says. *)
LEMMA CutOK ==
  ASSUME NEW b \in Object, Sound(b), b.use # "pieces", NEW n \in Int,
         n > 0 => b.org # "null" /\ n <= Smaller(b.sy, b.def)
  PROVE  Cut(b, n) \in Object /\ Sound(Cut(b, n))
<1>1. PICK c : c = Told(b, n)
  OBVIOUS
<1>2. /\ b.lines \in Nat /\ b.sy \in Nat /\ b.by \in Nat /\ b.def \in Nat
      /\ b.sx \in Nat /\ b.bx \in Nat
  BY DEF Object
<1>3. c \in Object /\ Sound(c) /\ (c.lines > 0 => c.use = "stream")
  <2>1. CASE n > 0
    <3>1. c = [b EXCEPT !.lines = n, !.use = "stream"]
      BY <1>1, <2>1 DEF Told
    <3>6. n \in Nat
      BY <2>1
    <3>2. c \in Object
      BY <3>1, <3>6 DEF Object
    <3>3. /\ c.org = b.org /\ c.bx = b.bx /\ c.by = b.by /\ c.sx = b.sx /\ c.sy = b.sy
          /\ c.lines = n /\ c.use = "stream" /\ c.ext = b.ext
          /\ c.fptr = b.fptr /\ c.cube = b.cube /\ c.def = b.def
      BY <3>1 DEF Object
    <3>4. n <= b.sy /\ n <= b.def
      BY <1>2, <2>1 DEF Smaller
    <3>5. Sound(c)
      BY <2>1, <3>3, <3>4 DEF Sound
    <3> QED
      BY <3>2, <3>3, <3>5
  <2>2. CASE ~(n > 0)
    BY <1>1, <1>2, <2>2 DEF Told, Sound, Object
  <2> QED
    BY <2>1, <2>2
<1>4. CASE c.lines > 0 /\ c.lines <= c.sy
  <2>1. PICK r : r = [c EXCEPT !.sy = c.lines]
    OBVIOUS
  <2>2. r = Cut(b, n)
    BY <1>1, <1>4, <2>1 DEF Cut
  <2>3. r \in Object
    BY <1>3, <2>1 DEF Object
  <2>4. /\ r.org = c.org /\ r.bx = c.bx /\ r.by = c.by /\ r.sx = c.sx /\ r.sy = c.lines
        /\ r.lines = c.lines /\ r.use = c.use /\ r.ext = c.ext
        /\ r.fptr = c.fptr /\ r.cube = c.cube /\ r.def = c.def
        /\ c.lines \in Nat /\ c.sy \in Nat /\ c.by \in Nat /\ c.def \in Nat
    BY <1>3, <2>1 DEF Object
  <2>5. Sound(r)
    BY <1>3, <1>4, <2>4 DEF Sound
  <2> QED
    BY <2>2, <2>3, <2>5
<1>5. CASE ~(c.lines > 0 /\ c.lines <= c.sy)
  BY <1>1, <1>3, <1>5 DEF Cut
<1> QED
  BY <1>4, <1>5

LEMMA SetYsizeOK ==
  ASSUME IInv, Habits = {}, NEW o \in Objs, NEW n \in {-1} \cup 1..MaxY, SetYsize(o, n)
  PROVE  IInv'
<1>1. PICK b : b = obj[o]
  OBVIOUS
<1>2. b \in Object /\ Sound(b) /\ b.use # "pieces"
  BY <1>1, At DEF SetYsize
<1>3. n \in Int
  BY BgFitsAssumption
<1>4. n > 0 => b.org # "null" /\ n <= Smaller(b.sy, b.def)
  <2>1. Smaller(b.sy, b.def) \in Int
    BY <1>2 DEF Smaller, Object
  <2> QED
    BY <1>1, <1>3, <2>1 DEF SetYsize
<1>5. /\ obj' = [obj EXCEPT ![o] = Cut(b, n)]
      /\ ub' = {} /\ ret' \in {0, 1} /\ UNCHANGED disk
  BY <1>1 DEF SetYsize, IInv, TypeOK
<1> QED
  BY <1>2, <1>3, <1>4, <1>5, CutOK, KeepDisk, Update

LEMMA ResetFilePointerOK ==
  ASSUME IInv, NEW o \in Objs, ResetFilePointer(o)
  PROVE  IInv'
<1>1. PICK b : b = obj[o]
  OBVIOUS
<1>2. b \in Object /\ Sound(b)
  BY <1>1, At
<1>3. PICK r : r = [b EXCEPT !.fptr = "null", !.cube = FALSE]
  OBVIOUS
<1>4. r \in Object /\ Sound(r)
  BY <1>2, <1>3 DEF Object, Sound
<1>5. /\ obj' = [obj EXCEPT ![o] = r]
      /\ ub' = {} /\ ret' \in {0, 1} /\ UNCHANGED disk
  BY <1>1, <1>3 DEF ResetFilePointer, IInv, TypeOK
<1> QED
  BY <1>4, <1>5, KeepDisk, Update

LEMMA DumpFitsLineOK ==
  ASSUME IInv, Habits = {}, NEW o \in Objs, DumpFitsLine(o)
  PROVE  IInv'
<1>1. PICK b : b = obj[o]
  OBVIOUS
<1>2. b \in Object /\ Sound(b) /\ b.use = "pieces" /\ b.fptr # "closed"
  BY <1>1, At DEF DumpFitsLine
<1>3. ub' = {} /\ ret' \in {0, 1}
  BY <1>1, <1>2 DEF DumpFitsLine, HandleUB, IInv, TypeOK
<1>4. CASE UNCHANGED <<obj, disk>>
  BY <1>3, <1>4 DEF IInv, TypeOK, NoJunkRows, Consistent
<1>5. CASE b.fptr = "open"
  <2>1. PICK r : r = Dumped(b)
    OBVIOUS
  <2>2. r \in Object /\ Sound(r)
    <3>1. /\ b.total \in Nat /\ b.sx \in Nat /\ b.lines \in Nat
          /\ b.total + b.sx \in Nat /\ b.lines + 1 \in Nat
      BY <1>2 DEF Object
    <3>2. r \in Object
      BY <1>2, <2>1, <3>1 DEF Object, Dumped
    <3>3. /\ r.org = b.org /\ r.bx = b.bx /\ r.by = b.by /\ r.sx = b.sx /\ r.sy = b.sy
          /\ r.use = "pieces" /\ r.ext = b.ext
      BY <1>2, <2>1 DEF Object, Dumped
    <3> QED
      BY <1>2, <3>2, <3>3 DEF Sound
  <2>3. obj' = [obj EXCEPT ![o] = r]
    BY <1>1, <1>5, <2>1 DEF DumpFitsLine
  <2>4. CASE UNCHANGED disk
    BY <1>3, <2>2, <2>3, <2>4, KeepDisk, Update
  <2>5. CASE disk' = [disk EXCEPT ![b.fname].rows = @ + 1]
    <3>1. b.fname \in Files /\ disk \in [Files -> Image]
      BY <1>2 DEF Object, IInv, TypeOK
    <3>2. PICK d : d = [disk[b.fname] EXCEPT !.rows = @ + 1]
      OBVIOUS
    <3>3. d \in Image /\ ~d.junk /\ SoundFile(d)
      BY <3>1, <3>2 DEF Image, SoundFile, IInv, NoJunkRows, Consistent
    <3>4. disk' = [disk EXCEPT ![b.fname] = d]
      BY <2>5, <3>1, <3>2
    <3>5. /\ disk' \in [Files -> Image]
          /\ \A f \in Files : ~disk'[f].junk /\ SoundFile(disk'[f])
      BY <3>1, <3>3, <3>4 DEF IInv, NoJunkRows, Consistent
    <3> QED
      BY <1>3, <2>2, <2>3, <3>5, Update
  <2> QED
    BY <1>1, <1>5, <2>4, <2>5 DEF DumpFitsLine
<1> QED
  BY <1>1, <1>4, <1>5 DEF DumpFitsLine

LEMMA CloseOK ==
  ASSUME IInv, Habits = {}, NEW o \in Objs, Close(o)
  PROVE  IInv'
<1>1. PICK b : b = obj[o]
  OBVIOUS
<1>2. b \in Object /\ Sound(b) /\ b.use = "pieces" /\ b.fptr # "closed"
  BY <1>1, At DEF Close
<1>3. ub' = {} /\ ret' \in {0, 1} /\ UNCHANGED disk
  BY <1>1, <1>2 DEF Close, HandleUB, IInv
<1>4. PICK v : v = IF b.fptr = "open" THEN "closed" ELSE b.fptr
  OBVIOUS
<1>5. PICK r : r = [b EXCEPT !.fptr = v]
  OBVIOUS
<1>6. r \in Object /\ Sound(r)
  BY <1>2, <1>4, <1>5 DEF Object, Sound
<1>7. obj' = [obj EXCEPT ![o] = r]
  BY <1>1, <1>4, <1>5 DEF Close, IInv, TypeOK
<1> QED
  BY <1>3, <1>6, <1>7, KeepDisk, Update

LEMMA ReadFitsFailsOK ==
  ASSUME IInv, NEW o \in Objs, NEW f \in Files, ReadFitsFails(o, f)
  PROVE  IInv'
BY DEF ReadFitsFails, IInv, TypeOK, NoJunkRows, Consistent

-----------------------------------------------------------------------------
(* Files. *)
LEMMA NoFileOK == NoFile \in Image /\ ~NoFile.junk /\ SoundFile(NoFile)
BY DEF NoFile, Image, SoundFile

LEMMA ChangeDisk ==
  ASSUME IInv, NEW f \in Files, NEW d \in Image, ~d.junk, SoundFile(d),
         disk' = [disk EXCEPT ![f] = d]
  PROVE  /\ disk' \in [Files -> Image]
         /\ \A g \in Files : ~disk'[g].junk /\ SoundFile(disk'[g])
BY DEF IInv, TypeOK, NoJunkRows, Consistent

LEMMA BeforeOK ==
  ASSUME IInv, NEW b \in Object, NEW f \in Files
  PROVE  /\ Target(b, f) \in Files
         /\ Before(b, f) \in Image /\ ~Before(b, f).junk /\ SoundFile(Before(b, f))
<1>1. Target(b, f) \in Files
  BY DEF Target, Object
<1> QED
  BY <1>1, NoFileOK DEF Before, IInv, TypeOK, NoJunkRows, Consistent

(* An image is put on disk with no more rows than the object has stored. *)
LEMMA PutImageOK ==
  ASSUME NEW d \in Image, ~d.junk, SoundFile(d), NEW b \in Object, b.sx > 0, b.sy > 0,
         NEW n \in 1..3, NEW rows \in Nat, rows <= b.def
  PROVE  /\ PutImage(d, b, n, rows) \in Image /\ ~PutImage(d, b, n, rows).junk
         /\ SoundFile(PutImage(d, b, n, rows))
<1>1. /\ b.sx \in Nat /\ b.sy \in Nat /\ b.def \in Nat
      /\ d.hdus \in Nat /\ d.x \in Nat /\ d.y \in Nat
  BY DEF Object, Image
<1>2. CASE d.hdus = 0
  <2>1. PICK r : r = [hdus |-> 1, axes |-> n, x |-> b.sx, y |-> b.sy,
                      rows |-> rows, junk |-> FALSE]
    OBVIOUS
  <2>2. (rows > b.def) = FALSE
    BY <1>1
  <2>3. PutImage(d, b, n, rows) = r
    BY <1>2, <2>1, <2>2 DEF PutImage
  <2>4. r \in Image /\ ~r.junk /\ SoundFile(r)
    BY <1>1, <2>1 DEF Image, SoundFile
  <2> QED
    BY <2>3, <2>4
<1>3. CASE d.hdus # 0
  <2>1. PICK r : r = [d EXCEPT !.hdus = d.hdus + 1]
    OBVIOUS
  <2>2. r = PutImage(d, b, n, rows)
    BY <1>3, <2>1 DEF PutImage
  <2>3. r \in Image /\ r.junk = d.junk /\ r.x = d.x /\ r.y = d.y
    BY <1>1, <2>1 DEF Image
  <2>4. d.x > 0 /\ d.y > 0
    BY <1>1, <1>3 DEF SoundFile
  <2> QED
    BY <2>2, <2>3, <2>4 DEF SoundFile
<1> QED
  BY <1>2, <1>3

(* What a failing save leaves in the object. *)
LEMMA LostOK ==
  ASSUME NEW b \in Object, Sound(b), NEW f \in Files
  PROVE  /\ Lost(b) \in Object /\ Sound(Lost(b))
         /\ Held(b, f) \in Object /\ Sound(Held(b, f))
         /\ Released(b) \in Object /\ Sound(Released(b))
<1>1. Target(b, f) \in Files
  BY DEF Target, Object
<1>2. Lost(b) \in Object /\ Sound(Lost(b))
  BY DEF Lost, Object, Sound
<1>3. Held(b, f) \in Object /\ Sound(Held(b, f))
  BY <1>1 DEF Held, Object, Sound
<1>4. Released(b) \in Object /\ Sound(Released(b))
  BY DEF Released, Object, Sound
<1> QED
  BY <1>2, <1>3, <1>4

LEMMA SaveFailsOK ==
  ASSUME IInv, NEW o \in Objs, NEW f \in Files, NEW b \in Object, Sound(b),
         b.sx > 0, b.sy > 0, NEW n \in 1..3, NEW left \in Object, Sound(left),
         SaveFails(o, f, b, n, left)
  PROVE  IInv'
<1>1. ub' = {} /\ ret' \in {0, 1}
  BY DEF SaveFails, IInv
<1>2. CASE obj' = [obj EXCEPT ![o] = Lost(b)] /\ disk' \in {disk, [disk EXCEPT ![f] = NoFile]}
  <2>1. /\ disk' \in [Files -> Image]
        /\ \A g \in Files : ~disk'[g].junk /\ SoundFile(disk'[g])
    BY <1>2, NoFileOK, KeepDisk, ChangeDisk
  <2> QED
    BY <1>1, <1>2, <2>1, LostOK, Update
<1>3. CASE /\ obj' = [obj EXCEPT ![o] = Held(b, f)]
           /\ disk' = [disk EXCEPT ![Target(b, f)] = Before(b, f)]
  <2>1. /\ disk' \in [Files -> Image]
        /\ \A g \in Files : ~disk'[g].junk /\ SoundFile(disk'[g])
    BY <1>3, BeforeOK, ChangeDisk
  <2> QED
    BY <1>1, <1>3, <2>1, LostOK, Update
<1>4. CASE /\ obj' \in {[obj EXCEPT ![o] = Held(b, f)], [obj EXCEPT ![o] = left]}
           /\ disk' = [disk EXCEPT ![Target(b, f)] = PutImage(Before(b, f), b, n, 0)]
  <2>1. 0 \in Nat /\ 0 <= b.def
    BY DEF Object
  <2>2. PICK d : d = PutImage(Before(b, f), b, n, 0)
    OBVIOUS
  <2>3. d \in Image /\ ~d.junk /\ SoundFile(d)
    BY <2>1, <2>2, BeforeOK, PutImageOK
  <2>4. /\ disk' \in [Files -> Image]
        /\ \A g \in Files : ~disk'[g].junk /\ SoundFile(disk'[g])
    BY <1>4, <2>2, <2>3, BeforeOK, ChangeDisk
  <2> QED
    BY <1>1, <1>4, <2>4, LostOK, Update
<1> QED
  BY <1>2, <1>3, <1>4 DEF SaveFails

(* bUpdateSizeY takes the height from the lines of a streamed object. *)
LEMMA UpdateSizeYOK ==
  ASSUME NEW b \in Object, Sound(b), b.use # "pieces", NEW upd \in BOOLEAN
  PROVE  /\ UpdateSizeY(b, upd) \in Object /\ Sound(UpdateSizeY(b, upd))
         /\ UpdateSizeY(b, upd).use = b.use
         /\ UpdateSizeY(b, upd).fptr = b.fptr
<1>1. CASE upd /\ b.lines # 0
  <2>1. b.lines > 0 /\ b.lines \in Nat /\ b.use = "stream"
    BY <1>1 DEF Object, Sound
  <2>2. b.lines <= b.sy
    BY <2>1 DEF Sound
  <2>3. UpdateSizeY(b, upd) = Cut(b, -1)
    BY <1>1, <2>1, <2>2 DEF UpdateSizeY, Cut, Told
  <2>4. Cut(b, -1).use = b.use /\ Cut(b, -1).fptr = b.fptr
    BY DEF Cut, Told, Object
  <2> QED
    BY <2>3, <2>4, CutOK
<1>2. CASE ~(upd /\ b.lines # 0)
  BY <1>2 DEF UpdateSizeY
<1> QED
  BY <1>1, <1>2

(* A saved object has all its rows stored and inside its block. *)
LEMMA CompleteOK ==
  ASSUME NEW b \in Object, Sound(b), Complete(b), Habits = {}
  PROVE  /\ b.sx > 0 /\ b.sy > 0 /\ b.sy \in Nat /\ b.sy <= b.def
         /\ Access(b, b.sx * b.sy) = {}
<1>1. /\ b.sx \in Nat /\ b.sy \in Nat /\ b.lines \in Nat
      /\ b.def \in Nat /\ b.bx \in Nat /\ b.by \in Nat
  BY DEF Object
<1>2. b.org # "null" /\ b.sy <= b.def
  BY <1>1 DEF Complete, Sound
<1>3. b.sx = b.bx /\ b.sx > 0 /\ b.sy > 0 /\ b.sy <= b.by
  BY <1>2 DEF Sound
<1>4. Access(b, b.bx * b.sy) = {}
  BY <1>1, <1>2, <1>3, InBlock
<1> QED
  BY <1>1, <1>2, <1>3, <1>4

LEMMA WriteFitsStepOK ==
  ASSUME IInv, Habits = {}, NEW o \in Objs, NEW f \in Files, NEW upd \in BOOLEAN,
         WriteFits(o, f, upd)
  PROVE  IInv'
<1>1. PICK a : a = obj[o]
  OBVIOUS
<1>2. a \in Object /\ Sound(a) /\ a.use # "pieces" /\ ~a.cube
  BY <1>1, At DEF WriteFits, Savable
<1>3. PICK b : b = UpdateSizeY(a, upd)
  OBVIOUS
<1>4. b \in Object /\ Sound(b) /\ b.use # "pieces" /\ b.fptr # "closed"
  BY <1>2, <1>3, UpdateSizeYOK DEF Sound
<1>5. Complete(b) /\ (WriteFitsOK(o, f, b) \/ SaveFails(o, f, b, 2, Lost(Released(b))))
  BY <1>1, <1>3, <1>4 DEF WriteFits
<1>6. /\ b.sx > 0 /\ b.sy > 0 /\ b.sy \in Nat /\ b.sy <= b.def
      /\ Access(b, b.sx * b.sy) = {}
  BY <1>4, <1>5, CompleteOK
<1>7. Released(b) \in Object /\ Sound(Released(b))
  BY <1>4, LostOK
<1>8. CASE WriteFitsOK(o, f, b)
  <2>1. ub' = {} /\ ret' \in {0, 1} /\ obj' = [obj EXCEPT ![o] = Released(b)]
    BY <1>6, <1>8 DEF WriteFitsOK, IInv
  <2>2. PICK d : d = PutImage(Before(b, f), b, 2, b.sy)
    OBVIOUS
  <2>3. d \in Image /\ ~d.junk /\ SoundFile(d)
    BY <1>4, <1>6, <2>2, BeforeOK, PutImageOK
  <2>4. disk' = [disk EXCEPT ![Target(b, f)] = d]
    BY <1>8, <2>2 DEF WriteFitsOK
  <2>5. /\ disk' \in [Files -> Image]
        /\ \A g \in Files : ~disk'[g].junk /\ SoundFile(disk'[g])
    BY <1>4, <2>3, <2>4, BeforeOK, ChangeDisk
  <2> QED
    BY <1>7, <2>1, <2>5, Update
<1>9. CASE SaveFails(o, f, b, 2, Lost(Released(b)))
  <2>1. Lost(Released(b)) \in Object /\ Sound(Lost(Released(b)))
    BY <1>7, LostOK
  <2> QED
    BY <1>4, <1>6, <1>9, <2>1, SaveFailsOK
<1> QED
  BY <1>5, <1>8, <1>9

LEMMA CubedOK ==
  ASSUME NEW b \in Object, Sound(b)
  PROVE  /\ Cubed(b) \in Object /\ Sound(Cubed(b))
         /\ Cubed(b).sx = b.sx /\ Cubed(b).sy = b.sy
         /\ Dangling(b) \in Object /\ Sound(Dangling(b))
<1>1. Cubed(b) \in Object /\ Sound(Cubed(b)) /\ Cubed(b).sx = b.sx /\ Cubed(b).sy = b.sy
  BY DEF Cubed, Object, Sound
<1>2. Dangling(b) \in Object /\ Sound(Dangling(b))
  BY DEF Dangling, Object, Sound
<1> QED
  BY <1>1, <1>2

LEMMA WriteMultiImageFitsOK ==
  ASSUME IInv, Habits = {}, NEW o \in Objs, NEW p \in Objs, NEW f \in Files,
         WriteMultiImageFits(o, p, f)
  PROVE  IInv'
<1>1. PICK b, c : b = obj[o] /\ c = obj[p]
  OBVIOUS
<1>2. /\ b \in Object /\ Sound(b) /\ b.use = "image" /\ ~b.cube
      /\ c \in Object /\ Sound(c) /\ c.use = "image"
  BY <1>1, At DEF WriteMultiImageFits, Savable
<1>3. b.fptr # "closed" /\ Complete(b) /\ Complete(c)
  BY <1>2 DEF Sound, Complete
<1>4. /\ b.sx > 0 /\ b.sy > 0 /\ b.sy \in Nat /\ b.sy <= b.def
      /\ Access(b, b.sx * b.sy) = {}
      /\ c.sy \in Nat /\ c.sy <= c.def /\ c.def \in Nat
      /\ Access(c, c.sx * c.sy) = {}
  BY <1>2, <1>3, CompleteOK DEF Object
<1>5. /\ Cubed(b) \in Object /\ Sound(Cubed(b)) /\ Cubed(b).sx > 0 /\ Cubed(b).sy > 0
      /\ Dangling(b) \in Object /\ Sound(Dangling(b))
  BY <1>2, <1>4, CubedOK
<1>6. CASE /\ obj' = [obj EXCEPT ![o] = Dangling(b)]
           /\ disk' = [disk EXCEPT ![Target(b, f)] = PutCube(Before(b, f), b, c)]
           /\ ub' = ub \cup Access(b, b.sx * b.sy) \cup Access(c, c.sx * c.sy)
           /\ ret' = 0
  <2>1. ub' = {}
    BY <1>4, <1>6 DEF IInv
  <2>2. PICK d : d = PutImage(Before(b, f), b, 3, b.sy)
    OBVIOUS
  <2>3. d \in Image /\ ~d.junk /\ SoundFile(d)
    <3>1. b.sx > 0 /\ b.sy > 0 /\ b.sy \in Nat /\ b.sy <= b.def
      BY <1>4
    <3> QED
      BY <1>2, <2>2, <3>1, BeforeOK, PutImageOK
  <2>4. (d.junk \/ c.sy > c.def) = FALSE
    BY <1>4, <2>3 DEF Image
  <2>5. PICK e : e = [d EXCEPT !.junk = FALSE]
    OBVIOUS
  <2>6. PutCube(Before(b, f), b, c) = e
    BY <2>2, <2>4, <2>5 DEF PutCube
  <2>7. e \in Image /\ ~e.junk /\ SoundFile(e)
    BY <2>3, <2>5 DEF Image, SoundFile
  <2>8. /\ disk' \in [Files -> Image]
        /\ \A g \in Files : ~disk'[g].junk /\ SoundFile(disk'[g])
    BY <1>2, <1>6, <2>6, <2>7, BeforeOK, ChangeDisk
  <2> QED
    BY <1>5, <1>6, <2>1, <2>8, Update
<1>7. CASE /\ obj' = [obj EXCEPT ![o] = Held(Cubed(b), f)]
           /\ disk' = [disk EXCEPT ![Target(b, f)] = PutImage(Before(b, f), b, 3, 0)]
           /\ ret' = 1 /\ UNCHANGED ub
  <2>1. PICK d : d = PutImage(Before(b, f), b, 3, 0)
    OBVIOUS
  <2>2. b.sx > 0 /\ b.sy > 0 /\ 0 \in Nat /\ 0 <= b.def
    BY <1>2, <1>4 DEF Object
  <2>3. d \in Image /\ ~d.junk /\ SoundFile(d)
    BY <1>2, <2>1, <2>2, BeforeOK, PutImageOK
  <2>4. /\ disk' \in [Files -> Image]
        /\ \A g \in Files : ~disk'[g].junk /\ SoundFile(disk'[g])
    BY <1>2, <1>7, <2>1, <2>3, BeforeOK, ChangeDisk
  <2>5. Held(Cubed(b), f) \in Object /\ Sound(Held(Cubed(b), f))
    BY <1>5, LostOK
  <2>6. ub' = {}
    BY <1>7 DEF IInv
  <2> QED
    BY <1>7, <2>4, <2>5, <2>6, Update
<1>8. CASE SaveFails(o, f, Cubed(b), 3, Lost(Dangling(b)))
  <2>1. Lost(Dangling(b)) \in Object /\ Sound(Lost(Dangling(b)))
    BY <1>5, LostOK
  <2> QED
    BY <1>5, <1>8, <2>1, SaveFailsOK
<1> QED
  BY <1>1, <1>3, <1>6, <1>7, <1>8 DEF WriteMultiImageFits

LEMMA CreateOK ==
  ASSUME IInv, Habits = {}, NEW o \in Objs, NEW f \in Files, Create(o, f)
  PROVE  IInv'
<1>1. PICK b : b = obj[o]
  OBVIOUS
<1>2. /\ b \in Object /\ Sound(b) /\ b.sx > 0 /\ b.sy > 0
      /\ ub' = {} /\ ret' \in {0, 1}
  BY <1>1, At DEF Create, IInv, TypeOK
<1>3. PICK r : r = [b EXCEPT !.fptr = "open", !.fname = f, !.use = "pieces"]
  OBVIOUS
<1>4. r \in Object /\ Sound(r)
  BY <1>2, <1>3 DEF Object, Sound
<1>5. CASE /\ obj' = [obj EXCEPT ![o] = [r EXCEPT !.total = 0, !.lines = 0]]
           /\ disk' = [disk EXCEPT ![f] = PutImage(NoFile, b, 2, 0)]
  <2>1. PICK q : q = [r EXCEPT !.total = 0, !.lines = 0]
    OBVIOUS
  <2>2. q \in Object /\ Sound(q)
    BY <1>3, <1>4, <2>1 DEF Object, Sound
  <2>3. PICK d : d = PutImage(NoFile, b, 2, 0)
    OBVIOUS
  <2>4. 0 \in Nat /\ 0 <= b.def
    BY <1>2 DEF Object
  <2>5. d \in Image /\ ~d.junk /\ SoundFile(d)
    BY <1>2, <2>3, <2>4, NoFileOK, PutImageOK
  <2>6. /\ disk' \in [Files -> Image]
        /\ \A g \in Files : ~disk'[g].junk /\ SoundFile(disk'[g])
    BY <1>5, <2>3, <2>5, ChangeDisk
  <2> QED
    BY <1>2, <1>5, <2>1, <2>2, <2>6, Update
<1>6. CASE /\ obj' = [obj EXCEPT ![o] = [r EXCEPT !.fptr = "null"]]
           /\ disk' \in {disk, [disk EXCEPT ![f] = NoFile]}
  <2>1. PICK q : q = [r EXCEPT !.fptr = "null"]
    OBVIOUS
  <2>2. q \in Object /\ Sound(q)
    BY <1>4, <2>1 DEF Object, Sound
  <2>3. /\ disk' \in [Files -> Image]
        /\ \A g \in Files : ~disk'[g].junk /\ SoundFile(disk'[g])
    BY <1>6, NoFileOK, KeepDisk, ChangeDisk
  <2> QED
    BY <1>2, <1>6, <2>1, <2>2, <2>3, Update
<1>7. CASE obj' = [obj EXCEPT ![o] = r] /\ disk' = [disk EXCEPT ![f] = NoFile]
  <2>1. /\ disk' \in [Files -> Image]
        /\ \A g \in Files : ~disk'[g].junk /\ SoundFile(disk'[g])
    BY <1>7, NoFileOK, ChangeDisk
  <2> QED
    BY <1>2, <1>4, <1>7, <2>1, Update
<1> QED
  BY <1>1, <1>3, <1>5, <1>6, <1>7 DEF Create

(* The header of a file that is there: new sizes, and the pixels dropped    *)
(* unless they still fit.                                                   *)
LEMMA HeaderOK ==
  ASSUME NEW b \in Object, Sound(b), b.use \in {"none", "image"},
         NEW d \in Image, SoundFile(d), d.hdus > 0, NEW drop \in Drops(b, d),
         drop => b.org # "external"
  PROVE  /\ ReadFitsHeader(b, d, drop) \in Object /\ Sound(ReadFitsHeader(b, d, drop))
         /\ ReadFitsHeader(b, d, drop).use = "none"
         /\ ReadFitsHeader(b, d, drop).sx > 0 /\ ReadFitsHeader(b, d, drop).sy > 0
<1>1. /\ b.sx \in Nat /\ b.sy \in Nat /\ b.bx \in Nat /\ b.by \in Nat
      /\ d.x \in Nat /\ d.y \in Nat /\ d.x > 0 /\ d.y > 0
  BY DEF Object, Image, SoundFile
<1>2. /\ b.lines = 0 /\ (b.fptr = "closed" => b.cube)
      /\ b.ext <=> b.org = "external"
  BY DEF Sound
<1>3. PICK y : y = IF d.axes = 1 THEN 1 ELSE d.y
  OBVIOUS
<1>4. y \in Nat /\ y > 0
  BY <1>1, <1>3
<1>5. PICK h : h = IF drop THEN Dropped(b) ELSE b
  OBVIOUS
<1>6. PICK r : r = [h EXCEPT !.sx = d.x, !.sy = y, !.use = "none"]
  OBVIOUS
<1>7. r = ReadFitsHeader(b, d, drop)
  BY <1>3, <1>5, <1>6 DEF ReadFitsHeader
<1>8. /\ h \in Object /\ h.lines = b.lines /\ h.fptr = b.fptr /\ h.cube = b.cube
      /\ h.ext = b.ext
  BY <1>5 DEF Dropped, Object
<1>9. r \in Object
  BY <1>1, <1>4, <1>6, <1>8 DEF Object
<1>10. /\ r.sx = d.x /\ r.sy = y /\ r.use = "none" /\ r.org = h.org /\ r.bx = h.bx
       /\ r.by = h.by /\ r.lines = 0 /\ r.ext = b.ext /\ r.fptr = b.fptr /\ r.cube = b.cube
  BY <1>2, <1>6, <1>8 DEF Object
<1>11. r.ext <=> r.org = "external"
  <2>1. CASE drop
    BY <1>2, <1>5, <1>10, <2>1 DEF Dropped, Object
  <2>2. CASE ~drop
    BY <1>2, <1>5, <1>10, <2>2
  <2> QED
    BY <2>1, <2>2
<1>12. r.org # "null" => r.sx = r.bx /\ r.sx > 0 /\ r.sy > 0 /\ r.sy <= r.by
  <2>1. SUFFICES ASSUME r.org # "null" PROVE r.sx = r.bx /\ r.sy <= r.by
    BY <1>1, <1>4, <1>10
  <2>2. ~drop /\ h = b
    BY <1>5, <1>10, <2>1 DEF Dropped, Object
  <2>3. b.org # "null" /\ b.sx = b.bx /\ b.sy > 0 /\ b.sy <= b.by
    BY <1>10, <2>1, <2>2 DEF Sound
  <2>4. d.x = b.sx /\ y <= b.by
    <3>1. CASE d.axes = 1 /\ d.x = b.sx
      BY <1>1, <1>3, <2>3, <3>1
    <3>2. CASE ~(d.axes = 1 /\ d.x = b.sx)
      <4>1. drop \in {d.x # b.sx \/ d.y # b.sy}
        BY <2>3, <3>2 DEF Drops
      <4>2. d.x = b.sx /\ d.y = b.sy
        BY <2>2, <4>1
      <4> QED
        BY <1>3, <2>3, <3>2, <4>2
    <3> QED
      BY <3>1, <3>2
  <2> QED
    BY <1>10, <2>2, <2>3, <2>4
<1> QED
  BY <1>1, <1>2, <1>4, <1>7, <1>9, <1>10, <1>11, <1>12 DEF Sound

(* The pixels of the file go into the old block or a new one of their size. *)
LEMMA PixelsOK ==
  ASSUME NEW h \in Object, Sound(h), h.use = "none", h.sx > 0, h.sy > 0, NEW ok \in BOOLEAN
  PROVE  ReadFitsPixels(h, ok) \in Object /\ Sound(ReadFitsPixels(h, ok))
<1>1. /\ h.sx \in Nat /\ h.sy \in Nat /\ h.bx \in Nat /\ h.by \in Nat /\ h.def \in Nat
  BY DEF Object
<1>2. /\ h.lines = 0 /\ (h.fptr = "closed" => h.cube)
      /\ h.ext <=> h.org = "external"
  BY DEF Sound
<1>3. PICK p : p = IF h.org = "null"
                   THEN [h EXCEPT !.org = "heap", !.bx = h.sx, !.by = h.sy] ELSE h
  OBVIOUS
<1>4. p \in Object
  BY <1>1, <1>3 DEF Object
<1>5. /\ p.sx = h.sx /\ p.sy = h.sy /\ p.lines = h.lines /\ p.fptr = h.fptr
      /\ p.cube = h.cube /\ p.ext = h.ext /\ p.use = h.use
  BY <1>3 DEF Object
<1>6. /\ p.org # "null" /\ p.sx = p.bx /\ p.sy <= p.by
      /\ (p.org = "external") <=> (h.org = "external")
  <2>1. CASE h.org = "null"
    <3>1. p = [h EXCEPT !.org = "heap", !.bx = h.sx, !.by = h.sy]
      BY <1>3, <2>1
    <3>2. p.org = "heap" /\ p.bx = h.sx /\ p.by = h.sy
      BY <3>1 DEF Object
    <3> QED
      BY <1>1, <1>5, <2>1, <3>2
  <2>2. CASE h.org # "null"
    BY <1>1, <1>3, <2>2 DEF Sound
  <2> QED
    BY <2>1, <2>2
<1>7. /\ p.sx > 0 /\ p.sy > 0 /\ p.sy \in Nat /\ p.lines = 0
      /\ (p.fptr = "closed" => p.cube)
      /\ p.ext <=> p.org = "external"
  BY <1>1, <1>2, <1>5, <1>6
<1>8. CASE ok
  <2>1. PICK r : r = [p EXCEPT !.def = p.sy, !.use = "image"]
    OBVIOUS
  <2>2. r \in Object
    BY <1>4, <1>7, <2>1 DEF Object
  <2>3. /\ r.org = p.org /\ r.bx = p.bx /\ r.by = p.by /\ r.sx = p.sx /\ r.sy = p.sy
        /\ r.lines = p.lines /\ r.fptr = p.fptr /\ r.cube = p.cube /\ r.ext = p.ext
        /\ r.use = "image" /\ r.def = p.sy
    BY <1>4, <2>1 DEF Object
  <2>4. Sound(r)
    BY <1>6, <1>7, <2>3 DEF Sound
  <2> QED
    BY <1>3, <1>8, <2>1, <2>2, <2>4 DEF ReadFitsPixels
<1>9. CASE ~ok
  <2>1. PICK r : r = [p EXCEPT !.def = 0]
    OBVIOUS
  <2>2. r \in Object
    BY <1>4, <2>1 DEF Object
  <2>3. /\ r.org = p.org /\ r.bx = p.bx /\ r.by = p.by /\ r.sx = p.sx /\ r.sy = p.sy
        /\ r.lines = p.lines /\ r.fptr = p.fptr /\ r.cube = p.cube /\ r.ext = p.ext
        /\ r.use = "none"
    BY <1>4, <1>5, <2>1 DEF Object
  <2>4. Sound(r)
    BY <1>6, <1>7, <2>3 DEF Sound
  <2> QED
    BY <1>3, <1>9, <2>1, <2>2, <2>4 DEF ReadFitsPixels
<1> QED
  BY <1>8, <1>9

LEMMA ReadFitsOK ==
  ASSUME IInv, Habits = {}, NEW o \in Objs, NEW f \in Files, NEW bReadImage \in BOOLEAN,
         ReadFits(o, f, bReadImage)
  PROVE  IInv'
<1>1. PICK b, d : b = obj[o] /\ d = disk[f]
  OBVIOUS
<1>2. /\ b \in Object /\ Sound(b) /\ b.use \in {"none", "image"}
      /\ d \in Image /\ SoundFile(d) /\ d.hdus > 0
  BY <1>1, At DEF ReadFits, NoLines, IInv, TypeOK, Consistent
<1>3. PICK drop \in Drops(b, d) :
        LET h == ReadFitsHeader(b, d, drop) IN
        /\ drop => b.org # "external"
        /\ ub' = ub \cup (IF drop THEN Release(b) ELSE {})
                    \cup (IF bReadImage /\ h.org # "null"
                          THEN Access(h, h.sx * h.sy) ELSE {})
        /\ obj' \in {[obj EXCEPT ![o] = h],
                     [obj EXCEPT ![o] = ReadFitsPixels(h, FALSE)],
                     [obj EXCEPT ![o] = ReadFitsPixels(h, TRUE)]}
        /\ ret' \in {0, 1}
        /\ UNCHANGED disk
  BY <1>1 DEF ReadFits
<1>4. PICK h : h = ReadFitsHeader(b, d, drop)
  OBVIOUS
<1>5. h \in Object /\ Sound(h) /\ h.use = "none" /\ h.sx > 0 /\ h.sy > 0
  BY <1>2, <1>3, <1>4, HeaderOK
<1>6. h.org # "null" => Access(h, h.sx * h.sy) = {}
  <2>1. SUFFICES ASSUME h.org # "null" PROVE Access(h, h.sx * h.sy) = {}
    OBVIOUS
  <2>2. h.sx = h.bx /\ h.sy <= h.by /\ h.sy \in Nat
    BY <1>5, <2>1 DEF Sound, Object
  <2>3. Access(h, h.bx * h.sy) = {}
    BY <1>5, <2>1, <2>2, InBlock
  <2> QED
    BY <2>2, <2>3
<1>7. (IF drop THEN Release(b) ELSE {}) = {}
  BY <1>3 DEF Release
<1>8. ub' = {}
  BY <1>3, <1>4, <1>6, <1>7 DEF IInv
<1>9. /\ ReadFitsPixels(h, TRUE) \in Object /\ Sound(ReadFitsPixels(h, TRUE))
      /\ ReadFitsPixels(h, FALSE) \in Object /\ Sound(ReadFitsPixels(h, FALSE))
  BY <1>5, PixelsOK
<1> QED
  BY <1>3, <1>4, <1>5, <1>8, <1>9, KeepDisk, Update

-----------------------------------------------------------------------------
LEMMA InitOK == Init => IInv
<1>1. SUFFICES ASSUME Init PROVE IInv
  OBVIOUS
<1>2. obj = [o \in Objs |-> Blank] /\ ub = {} /\ ret = 0
  BY <1>1 DEF Init
<1>3. obj \in [Objs -> Object] /\ \A o \in Objs : Sound(obj[o])
  BY <1>2, FreshOK
<1>4. \A d \in Archive : d \in Image /\ ~d.junk /\ SoundFile(d)
  <2>1. SUFFICES ASSUME NEW d \in Archive PROVE d \in Image /\ ~d.junk /\ SoundFile(d)
    OBVIOUS
  <2>2. d \in Image /\ d.x > 0 /\ d.y > 0
    BY BgFitsAssumption
  <2>3. ~d.junk
    BY BgFitsAssumption
  <2> QED
    BY <2>2, <2>3 DEF SoundFile
<1>5. disk \in [Files -> Archive \cup {NoFile}]
  BY <1>1 DEF Init
<1>6. /\ disk \in [Files -> Image]
      /\ \A f \in Files : ~disk[f].junk /\ SoundFile(disk[f])
  BY <1>4, <1>5, NoFileOK
<1> QED
  BY <1>2, <1>3, <1>6 DEF IInv, TypeOK, Consistent, NoJunkRows

LEMMA NextOK == Habits = {} /\ IInv /\ [Next]_vars => IInv'
<1>1. SUFFICES ASSUME Habits = {}, IInv, Next PROVE IInv'
  BY DEF vars, IInv, TypeOK, Consistent, NoJunkRows
<1>2. ASSUME NEW o \in Objs,
             New(o) \/ Delete(o) \/ SetData(o) \/ Fill(o)
               \/ AddLine(o) \/ ResetLines(o)
               \/ ResetFilePointer(o) \/ DumpFitsLine(o) \/ Close(o)
      PROVE  IInv'
  BY <1>1, <1>2, NewOK, DeleteOK, SetDataOK, FillOK, AddLineOK, ResetLinesOK,
     ResetFilePointerOK, DumpFitsLineOK, CloseOK
<1>3. ASSUME NEW o \in Objs, NEW p \in Objs, Assign(o, p)
      PROVE  IInv'
  BY <1>1, <1>3, AssignOK
<1>7. ASSUME NEW o \in Objs, NEW n \in {-1} \cup 1..MaxY, SetYsize(o, n)
      PROVE  IInv'
  BY <1>1, <1>7, SetYsizeOK
<1>4. ASSUME NEW o \in Objs, NEW f \in Files, ReadFitsFails(o, f) \/ Create(o, f)
      PROVE  IInv'
  BY <1>1, <1>4, ReadFitsFailsOK, CreateOK
<1>5. ASSUME NEW o \in Objs, NEW f \in Files, NEW b \in BOOLEAN,
             ReadFits(o, f, b) \/ WriteFits(o, f, b)
      PROVE  IInv'
  BY <1>1, <1>5, ReadFitsOK, WriteFitsStepOK
<1>6. ASSUME NEW o \in Objs, NEW p \in Objs, NEW f \in Files, WriteMultiImageFits(o, p, f)
      PROVE  IInv'
  BY <1>1, <1>6, WriteMultiImageFitsOK
<1> QED
  BY <1>1, <1>2, <1>3, <1>4, <1>5, <1>6, <1>7 DEF Next

(* Callers without the habits keep every object within its block: no call   *)
(* of the class reads or writes pixels outside it.                          *)
THEOREM Safe == ASSUME Habits = {} PROVE Spec => []IInv
<1>1. IInv /\ [Next]_vars => IInv'
  BY NextOK
<1> QED
  BY <1>1, InitOK, PTL DEF Spec

(* No pixel outside the block an object has is read or written. *)
THEOREM StaysInBounds == ASSUME Habits = {} PROVE Spec => []InBounds
<1>1. IInv => InBounds
  BY DEF IInv, InBounds
<1> QED
  BY <1>1, Safe, PTL

(* Every row in every file was stored by somebody before it was saved. *)
THEOREM RowsAreStored == ASSUME Habits = {} PROVE Spec => []NoJunkRows
<1>1. IInv => NoJunkRows
  BY DEF IInv
<1> QED
  BY <1>1, Safe, PTL

-----------------------------------------------------------------------------
(* Whatever callers do.  An open handle is that of a file written piece by  *)
(* piece, or was left by a save that failed; a closed one is that of a cube *)
(* or of a Close.                                                           *)
Proper(b) ==
  /\ b.fptr = "open" => b.failed \/ b.use = "pieces"
  /\ b.fptr = "closed" => b.cube \/ b.use = "pieces"

Marked(b) == b.ext <=> b.org = "external"

Loose ==
  /\ TypeOK
  /\ \A o \in Objs : Proper(obj[o])
  /\ ub = {} => \A o \in Objs : Marked(obj[o])
  /\ "closed_handle" \in ub => \E o \in Objs : obj[o].fptr = "closed"

(* What a step has to show that makes r of the object o.                    *)
Kinds == {"overrun", "bad_free", "closed_handle"}

Step(o, r) ==
  /\ obj' = [obj EXCEPT ![o] = r] /\ r \in Object /\ Proper(r)
  /\ ("bad_free" \in ub') <=> (obj[o].alive /\ obj[o].ext /\ r.alive /\ r.org # "external")
  /\ ub' = {} => Marked(r)
  /\ "closed_handle" \in ub' => r.fptr = "closed"
  /\ ub' \subseteq Kinds
  /\ ret' \in {0, 1} /\ disk' \in [Files -> Image]

Told1 == ("bad_free" \in ub') <=> (\E o \in Objs : GivesUp(o))

LEMMA StepOK ==
  ASSUME Loose, ub = {}, NEW o \in Objs, NEW r, Step(o, r)
  PROVE  Loose' /\ Told1
<1>1. /\ obj \in [Objs -> Object] /\ obj'[o] = r
      /\ \A p \in Objs \ {o} : obj'[p] = obj[p]
  BY DEF Loose, TypeOK, Step
<1>2. obj' \in [Objs -> Object]
  BY <1>1 DEF Step
<1>3. TypeOK'
  BY <1>2 DEF Step, TypeOK, Kinds
<1>4. (\A p \in Objs : Proper(obj[p]))'
  BY <1>1 DEF Loose, Step
<1>5. (ub = {} => \A p \in Objs : Marked(obj[p]))'
  BY <1>1 DEF Loose, Step
<1>6. ("closed_handle" \in ub => \E p \in Objs : obj[p].fptr = "closed")'
  BY <1>1 DEF Step
<1>7. Loose'
  BY <1>3, <1>4, <1>5, <1>6 DEF Loose
<1>8. ASSUME NEW p \in Objs \ {o} PROVE ~GivesUp(p)
  BY <1>1 DEF Loose, Marked, GivesUp
<1>9. GivesUp(o) <=> (obj[o].alive /\ obj[o].ext /\ r.alive /\ r.org # "external")
  BY <1>1 DEF GivesUp
<1> QED
  BY <1>7, <1>8, <1>9 DEF Step, Told1

LEMMA One ==
  ASSUME Loose, ub = {}, NEW o \in Objs
  PROVE  /\ obj[o] \in Object /\ Proper(obj[o]) /\ Marked(obj[o])
         /\ disk \in [Files -> Image] /\ obj \in [Objs -> Object]
         /\ obj = [obj EXCEPT ![o] = obj[o]]
BY DEF Loose, TypeOK

(* An object of which pixels, sizes and counters changed, and not its owner. *)
LEMMA Same ==
  ASSUME Loose, ub = {}, NEW o \in Objs, NEW r \in Object,
         obj' = [obj EXCEPT ![o] = r], Proper(r), r.org = obj[o].org, r.ext = obj[o].ext,
         ub' \subseteq {"overrun", "closed_handle"},
         "closed_handle" \in ub' => r.fptr = "closed",
         ret' \in {0, 1}, disk' \in [Files -> Image]
  PROVE  Step(o, r)
BY One DEF Step, Marked, Kinds

LEMMA NewStep == ASSUME Loose, ub = {}, NEW o \in Objs, New(o) PROVE \E r : Step(o, r)
<1>1. ub' = {} /\ ret' = 0 /\ disk' = disk /\ ~obj[o].alive
  BY DEF New
<1>2. PICK r \in Object : /\ obj' = [obj EXCEPT ![o] = r] /\ r.fptr = "null"
                          /\ r.org # "external" /\ ~r.ext
  <2>1. CASE obj' = [obj EXCEPT ![o] = Fresh]
    BY <2>1, FreshOK DEF Fresh, Blank
  <2>2. CASE \E d \in Dims : obj' = [obj EXCEPT ![o] = Realloc(Fresh, d[1], d[2], FALSE)]
    <3>1. PICK d \in Dims : obj' = [obj EXCEPT ![o] = Realloc(Fresh, d[1], d[2], FALSE)]
      BY <2>2
    <3>2. PICK r : r = Realloc(Fresh, d[1], d[2], FALSE)
      OBVIOUS
    <3>3. d[1] \in Nat /\ d[2] \in Nat
      BY BgFitsAssumption
    <3>4. r \in Object
      BY <3>2, <3>3, FreshOK, ReallocOK
    <3>5. r.fptr = "null" /\ r.org = "heap" /\ ~r.ext
      BY <3>2, <3>3 DEF Realloc, Fresh, Blank
    <3> QED
      BY <3>1, <3>2, <3>4, <3>5
  <2> QED
    BY <2>1, <2>2 DEF New
<1>3. Step(o, r)
  BY <1>1, <1>2, One DEF Step, Proper, Marked, Kinds
<1> QED
  BY <1>3

LEMMA DeleteStep == ASSUME Loose, ub = {}, NEW o \in Objs, Delete(o) PROVE \E r : Step(o, r)
<1>1. ub' = {}
  BY One DEF Delete, Marked, Release
<1>2. Blank \in Object /\ ~Blank.alive /\ Blank.fptr = "null" /\ Blank.org = "null" /\ ~Blank.ext
  BY FreshOK DEF Blank
<1>3. Step(o, Blank)
  BY <1>1, <1>2, One DEF Delete, Step, Proper, Marked, Kinds
<1> QED
  BY <1>3

LEMMA SetDataStep == ASSUME Loose, ub = {}, NEW o \in Objs, SetData(o) PROVE \E r : Step(o, r)
<1>1. ub' = {} /\ ret' = 0 /\ disk' = disk /\ obj[o].use # "pieces"
  BY One DEF SetData, Marked, Release, NoLines
<1>2. PICK d \in Dims : obj' = [obj EXCEPT ![o] = Attached(obj[o], d[1], d[2])]
  BY One DEF SetData
<1>3. PICK r : r = Attached(obj[o], d[1], d[2])
  OBVIOUS
<1>4. d[1] \in Nat /\ d[2] \in Nat
  BY BgFitsAssumption
<1>5. PICK b : b = obj[o]
  OBVIOUS
<1>6. b \in Object /\ Proper(b) /\ r = Attached(b, d[1], d[2])
  BY <1>3, <1>5, One
<1>7. /\ r \in Object /\ r.org = "external" /\ r.ext /\ r.fptr = b.fptr
      /\ r.failed = b.failed /\ r.cube = b.cube
  BY <1>4, <1>6 DEF Attached, Object
<1>8. Step(o, r)
  BY <1>1, <1>2, <1>3, <1>5, <1>6, <1>7, One DEF Step, Proper, Marked, Kinds
<1> QED
  BY <1>8

LEMMA FillStep == ASSUME Loose, ub = {}, NEW o \in Objs, Fill(o) PROVE \E r : Step(o, r)
<1>1. PICK b, r : b = obj[o] /\ r = Filled(b)
  OBVIOUS
<1>2. b \in Object /\ Proper(b) /\ b.use # "pieces"
  BY <1>1, One DEF Fill, NoLines
<1>3. /\ r \in Object /\ r.org = b.org /\ r.ext = b.ext /\ r.fptr = b.fptr
      /\ r.failed = b.failed /\ r.cube = b.cube
  BY <1>1, <1>2 DEF Filled, Object
<1>4. Proper(r)
  BY <1>2, <1>3 DEF Proper
<1>5. Step(o, r)
  BY <1>1, <1>3, <1>4, One, Same DEF Fill
<1> QED
  BY <1>5

LEMMA AssignStep ==
  ASSUME Loose, ub = {}, NEW o \in Objs, NEW p \in Objs, Assign(o, p)
  PROVE  \E r : Step(o, r)
<1>1. PICK b, c : b = obj[o] /\ c = obj[p]
  OBVIOUS
<1>2. /\ b \in Object /\ c \in Object /\ Proper(b) /\ Marked(b) /\ b.use # "pieces"
      /\ b.alive /\ disk \in [Files -> Image]
  BY <1>1, One DEF Assign, NoLines, Live
<1>3. PICK g, u : g = Resized(b, c) /\ u = AssignUB(b, c)
  OBVIOUS
<1>4. c.sx \in Nat /\ c.sy \in Nat /\ c.def \in Nat
  BY <1>2 DEF Object
<1>5. /\ g \in Object /\ g.fptr = b.fptr /\ g.failed = b.failed /\ g.cube = b.cube
      /\ g.ext = b.ext /\ g.alive /\ u \subseteq {"overrun", "bad_free"}
      /\ ("bad_free" \in u) <=> (b.ext /\ g.org # "external")
      /\ "bad_free" \notin u => Marked(g)
  <2>1. CASE Differ(b, c)
    <3>1. g = Realloc(b, c.sx, c.sy, TRUE)
      BY <1>3, <2>1 DEF Resized
    <3>2. u = ReallocUB(b, c.sx, c.sy, TRUE) \cup Access(g, c.sx * c.sy) \cup Access(c, c.sx * c.sy)
      BY <1>3, <2>1 DEF AssignUB
    <3>3. Access(g, c.sx * c.sy) \subseteq {"overrun"} /\ Access(c, c.sx * c.sy) \subseteq {"overrun"}
      BY DEF Access
    <3>7. b \in Object /\ c.sx \in Nat /\ c.sy \in Nat
      BY <1>2, <1>4
    <3>8. Marked(b)
      BY <1>2
    <3>5. PICK v : v = ReallocUB(b, c.sx, c.sy, TRUE)
      OBVIOUS
    <3>4. g \in Object
      BY <3>1, <3>7, TRUE \in BOOLEAN, ReallocOK
    <3>6. /\ g.org = "heap" /\ g.ext = b.ext /\ g.alive = b.alive
          /\ g.fptr = b.fptr /\ g.failed = b.failed /\ g.cube = b.cube
      BY <3>1, <3>7 DEF Realloc, Object
    <3>9. /\ v \subseteq {"overrun", "bad_free"}
          /\ (b.ext => "bad_free" \in v) /\ (~b.ext => "bad_free" \notin v)
      BY <3>5, <3>8 DEF ReallocUB, Release, Marked
    <3> QED
      BY <1>2, <3>2, <3>3, <3>4, <3>5, <3>6, <3>9 DEF Marked
  <2>2. CASE ~Differ(b, c)
    <3>1. g = b
      BY <1>3, <2>2 DEF Resized
    <3>2. u = Access(g, c.sx * c.sy) \cup Access(c, c.sx * c.sy)
      BY <1>3, <2>2 DEF AssignUB
    <3>3. Access(g, c.sx * c.sy) \subseteq {"overrun"} /\ Access(c, c.sx * c.sy) \subseteq {"overrun"}
      BY DEF Access
    <3> QED
      BY <1>2, <3>1, <3>2, <3>3 DEF Marked
  <2> QED
    BY <2>1, <2>2
<1>6. PICK r : r = [g EXCEPT !.def = c.def, !.use = "image"]
  OBVIOUS
<1>7. /\ r \in Object /\ r.fptr = g.fptr /\ r.failed = g.failed /\ r.cube = g.cube
      /\ r.ext = g.ext /\ r.org = g.org /\ r.alive = g.alive
  BY <1>4, <1>5, <1>6 DEF Object
<1>8. obj' = [obj EXCEPT ![o] = r] /\ ub' = u /\ ret' = 0 /\ disk' = disk
  BY <1>1, <1>3, <1>6 DEF Assign, Assigned
<1>9. Proper(r)
  BY <1>2, <1>5, <1>7 DEF Proper
<1>10. ub' = {} => Marked(r)
  BY <1>5, <1>7, <1>8 DEF Marked
<1>11. Step(o, r)
  BY <1>1, <1>2, <1>5, <1>7, <1>8, <1>9, <1>10 DEF Step, Kinds
<1> QED
  BY <1>11

LEMMA AddLineStep ==
  ASSUME Loose, ub = {}, NEW o \in Objs, AddLine(o)
  PROVE  \E r : Step(o, r)
<1>1. PICK b : b = obj[o]
  OBVIOUS
<1>2. /\ b \in Object /\ Proper(b) /\ Marked(b) /\ b.use # "pieces"
      /\ b.alive /\ disk \in [Files -> Image]
  BY <1>1, One DEF AddLine, Live
<1>3. PICK g, u : g = Grown(b) /\ u = AddLineUB(b)
  OBVIOUS
<1>4. b.sx \in Nat /\ 2 * b.sy \in Nat /\ b.lines \in Nat
  BY <1>2 DEF Object
<1>5. /\ g \in Object /\ g.fptr = b.fptr /\ g.failed = b.failed /\ g.cube = b.cube
      /\ g.ext = b.ext /\ g.alive /\ u \subseteq {"overrun", "bad_free"}
      /\ ("bad_free" \in u) <=> (b.ext /\ g.org # "external")
      /\ "bad_free" \notin u => Marked(g)
  <2>1. CASE Full(b)
    <3>1. g = Realloc(b, b.sx, 2 * b.sy, TRUE)
      BY <1>3, <2>1 DEF Grown
    <3>2. u = ReallocUB(b, b.sx, 2 * b.sy, TRUE) \cup Access(g, (b.lines + 1) * b.sx)
      BY <1>3, <2>1 DEF AddLineUB
    <3>3. Access(g, (b.lines + 1) * b.sx) \subseteq {"overrun"}
      BY DEF Access
    <3>7. b \in Object /\ b.sx \in Nat /\ 2 * b.sy \in Nat
      BY <1>2, <1>4
    <3>8. Marked(b)
      BY <1>2
    <3>5. PICK v : v = ReallocUB(b, b.sx, 2 * b.sy, TRUE)
      OBVIOUS
    <3>4. g \in Object
      BY <3>1, <3>7, TRUE \in BOOLEAN, ReallocOK
    <3>6. /\ g.org = "heap" /\ g.ext = b.ext /\ g.alive = b.alive
          /\ g.fptr = b.fptr /\ g.failed = b.failed /\ g.cube = b.cube
      BY <3>1, <3>7 DEF Realloc, Object
    <3>9. /\ v \subseteq {"overrun", "bad_free"}
          /\ (b.ext => "bad_free" \in v) /\ (~b.ext => "bad_free" \notin v)
      BY <3>5, <3>8 DEF ReallocUB, Release, Marked
    <3> QED
      BY <1>2, <3>2, <3>3, <3>4, <3>5, <3>6, <3>9 DEF Marked
  <2>2. CASE ~Full(b)
    <3>1. g = b
      BY <1>3, <2>2 DEF Grown
    <3>2. u = Access(g, (b.lines + 1) * b.sx)
      BY <1>3, <2>2 DEF AddLineUB
    <3>3. Access(g, (b.lines + 1) * b.sx) \subseteq {"overrun"}
      BY DEF Access
    <3> QED
      BY <1>2, <3>1, <3>2, <3>3 DEF Marked
  <2> QED
    BY <2>1, <2>2
<1>6. PICK d : d = IF g.def = b.lines THEN b.lines + 1 ELSE g.def
  OBVIOUS
<1>7. d \in Nat /\ b.lines + 1 \in Nat
  BY <1>4, <1>5, <1>6 DEF Object
<1>8. PICK r : r = [g EXCEPT !.lines = b.lines + 1, !.use = "stream", !.def = d]
  OBVIOUS
<1>9. /\ r \in Object /\ r.fptr = g.fptr /\ r.failed = g.failed /\ r.cube = g.cube
      /\ r.ext = g.ext /\ r.org = g.org /\ r.alive = g.alive
  BY <1>5, <1>7, <1>8 DEF Object
<1>10. r = LineAdded(b)
  BY <1>3, <1>6, <1>8 DEF LineAdded
<1>11. obj' = [obj EXCEPT ![o] = r] /\ ub' = u /\ ret' = 0 /\ disk' = disk
  BY <1>1, <1>3, <1>10 DEF AddLine
<1>12. Proper(r)
  BY <1>2, <1>5, <1>9 DEF Proper
<1>13. ub' = {} => Marked(r)
  BY <1>5, <1>9, <1>11 DEF Marked
<1>14. Step(o, r)
  BY <1>1, <1>2, <1>5, <1>9, <1>11, <1>12, <1>13 DEF Step, Kinds
<1> QED
  BY <1>14

LEMMA CounterSteps ==
  ASSUME Loose, ub = {}, NEW o \in Objs,
         ResetLines(o) \/ (\E n \in {-1} \cup 1..MaxY : SetYsize(o, n)) \/ ResetFilePointer(o)
  PROVE  \E r : Step(o, r)
<1>1. PICK b : b = obj[o]
  OBVIOUS
<1>2. b \in Object /\ Proper(b) /\ Marked(b) /\ disk \in [Files -> Image]
  BY <1>1, One
<1>3. CASE ResetLines(o)
  <2>1. PICK r : r = [b EXCEPT !.lines = 0]
    OBVIOUS
  <2>2. /\ r \in Object /\ r.org = b.org /\ r.ext = b.ext /\ r.fptr = b.fptr
        /\ r.failed = b.failed /\ r.cube = b.cube /\ r.use = b.use
    BY <1>2, <2>1 DEF Object
  <2>3. Proper(r)
    BY <1>2, <2>2 DEF Proper
  <2>4. obj' = [obj EXCEPT ![o] = r] /\ ub' = {} /\ ret' = 0 /\ disk' = disk
    BY <1>1, <1>3, <2>1 DEF ResetLines
  <2> QED
    BY <1>1, <1>2, <2>2, <2>3, <2>4, Same
<1>4. CASE \E n \in {-1} \cup 1..MaxY : SetYsize(o, n)
  <2>1. PICK n \in {-1} \cup 1..MaxY : SetYsize(o, n)
    BY <1>4
  <2>2. n \in Int /\ b.use # "pieces"
    BY <1>1, <2>1, BgFitsAssumption DEF SetYsize
  <2>3. PICK c : c = Told(b, n)
    OBVIOUS
  <2>4. /\ c \in Object /\ c.org = b.org /\ c.ext = b.ext /\ c.fptr = b.fptr
        /\ c.failed = b.failed /\ c.cube = b.cube
    <3>1. CASE n > 0
      <4>1. n \in Nat
        BY <2>2, <3>1
      <4>2. c = [b EXCEPT !.lines = n, !.use = "stream"]
        BY <2>3, <3>1 DEF Told
      <4> QED
        BY <1>2, <4>1, <4>2 DEF Object
    <3>2. CASE ~(n > 0)
      BY <1>2, <2>3, <3>2 DEF Told
    <3> QED
      BY <3>1, <3>2
  <2>5. PICK r : r = Cut(b, n)
    OBVIOUS
  <2>6. r = c \/ r = [c EXCEPT !.sy = c.lines]
    BY <2>3, <2>5 DEF Cut
  <2>7. /\ r \in Object /\ r.org = b.org /\ r.ext = b.ext /\ r.fptr = b.fptr
        /\ r.failed = b.failed /\ r.cube = b.cube
    BY <2>4, <2>6 DEF Object
  <2>8. Proper(r)
    BY <1>2, <2>2, <2>7 DEF Proper
  <2>9. obj' = [obj EXCEPT ![o] = r] /\ ub' = {} /\ ret' = 0 /\ disk' = disk
    BY <1>1, <2>1, <2>5 DEF SetYsize
  <2> QED
    BY <1>1, <1>2, <2>7, <2>8, <2>9, Same
<1>5. CASE ResetFilePointer(o)
  <2>1. PICK r : r = [b EXCEPT !.fptr = "null", !.cube = FALSE]
    OBVIOUS
  <2>2. r \in Object /\ r.org = b.org /\ r.ext = b.ext /\ r.fptr = "null"
    BY <1>2, <2>1 DEF Object
  <2>3. obj' = [obj EXCEPT ![o] = r] /\ ub' = {} /\ ret' = 0 /\ disk' = disk
    BY <1>1, <1>5, <2>1 DEF ResetFilePointer
  <2> QED
    BY <1>1, <1>2, <2>2, <2>3, Same DEF Proper
<1> QED
  BY <1>3, <1>4, <1>5

LEMMA DumpStep ==
  ASSUME Loose, ub = {}, NEW o \in Objs, DumpFitsLine(o)
  PROVE  \E r : Step(o, r)
<1>1. PICK b : b = obj[o]
  OBVIOUS
<1>2. b \in Object /\ Proper(b) /\ disk \in [Files -> Image] /\ b.use = "pieces"
  BY <1>1, One DEF DumpFitsLine
<1>3. ub' \subseteq {"closed_handle"} /\ ("closed_handle" \in ub' => b.fptr = "closed")
  BY <1>1 DEF DumpFitsLine, HandleUB
<1>4. CASE b.fptr # "open"
  <2>1. obj' = obj /\ disk' = disk /\ ret' = 0
    BY <1>1, <1>4 DEF DumpFitsLine
  <2> QED
    BY <1>1, <1>2, <1>3, <2>1, One, Same
<1>5. CASE b.fptr = "open"
  <2>6. PICK t, l : t = b.total + b.sx /\ l = b.lines + 1
    OBVIOUS
  <2>7. t \in Nat /\ l \in Nat
    BY <1>2, <2>6 DEF Object
  <2>1. PICK r : r = [b EXCEPT !.total = t, !.lines = l]
    OBVIOUS
  <2>2. /\ r \in Object /\ r.org = b.org /\ r.ext = b.ext /\ r.fptr = b.fptr
        /\ r.failed = b.failed /\ r.cube = b.cube /\ r.use = b.use
    BY <1>2, <2>1, <2>7 DEF Object
  <2>3. Proper(r)
    BY <1>2, <2>2 DEF Proper
  <2>4. obj' = [obj EXCEPT ![o] = r] /\ ret' \in {0, 1}
    BY <1>1, <1>5, <2>1, <2>6 DEF DumpFitsLine, Dumped
  <2>5. disk' \in [Files -> Image]
    <3>1. CASE disk' = disk
      BY <1>2, <3>1
    <3>2. CASE disk' = [disk EXCEPT ![b.fname].rows = @ + 1]
      <4>1. [disk[b.fname] EXCEPT !.rows = @ + 1] \in Image
        BY <1>2 DEF Object, Image
      <4> QED
        BY <1>2, <3>2, <4>1
    <3> QED
      BY <1>1, <1>5, <3>1, <3>2 DEF DumpFitsLine
  <2> QED
    BY <1>1, <1>3, <2>2, <2>3, <2>4, <2>5, Same
<1> QED
  BY <1>4, <1>5

LEMMA CloseStep ==
  ASSUME Loose, ub = {}, NEW o \in Objs, Close(o)
  PROVE  \E r : Step(o, r)
<1>1. PICK b : b = obj[o]
  OBVIOUS
<1>2. /\ b \in Object /\ Proper(b) /\ disk \in [Files -> Image] /\ b.use = "pieces"
      /\ obj \in [Objs -> Object]
  BY <1>1, One DEF Close
<1>3. PICK r : r = [b EXCEPT !.fptr = IF b.fptr = "open" THEN "closed" ELSE b.fptr]
  OBVIOUS
<1>4. /\ r \in Object /\ r.org = b.org /\ r.ext = b.ext /\ r.use = "pieces"
      /\ (b.fptr = "closed" => r.fptr = "closed")
  BY <1>2, <1>3 DEF Object
<1>5. obj' = [obj EXCEPT ![o] = r] /\ ret' \in {0, 1} /\ disk' = disk
  BY <1>1, <1>2, <1>3 DEF Close
<1>6. ub' \subseteq {"closed_handle"} /\ ("closed_handle" \in ub' => r.fptr = "closed")
  BY <1>1, <1>4 DEF Close, HandleUB
<1> QED
  BY <1>1, <1>2, <1>4, <1>5, <1>6, Same DEF Proper

LEMMA ReadStep ==
  ASSUME Loose, ub = {}, NEW o \in Objs, NEW f \in Files, NEW all \in BOOLEAN,
         ReadFits(o, f, all)
  PROVE  \E r : Step(o, r)
<1>1. PICK b, d : b = obj[o] /\ d = disk[f]
  OBVIOUS
<1>2. /\ b \in Object /\ Proper(b) /\ Marked(b) /\ b.use # "pieces" /\ b.alive
      /\ d \in Image /\ disk \in [Files -> Image]
  BY <1>1, One DEF ReadFits, NoLines, Live
<1>3. PICK drop \in Drops(b, d) :
        LET h == ReadFitsHeader(b, d, drop) IN
        /\ ub' = (IF drop THEN Release(b) ELSE {})
                   \cup (IF all /\ h.org # "null" THEN Access(h, h.sx * h.sy) ELSE {})
        /\ \/ obj' = [obj EXCEPT ![o] = h]
           \/ \E ok \in BOOLEAN : obj' = [obj EXCEPT ![o] = ReadFitsPixels(h, ok)]
        /\ ret' \in {0, 1} /\ disk' = disk
  BY <1>1 DEF ReadFits
<1>4. PICK h : h = ReadFitsHeader(b, d, drop)
  OBVIOUS
<1>5. drop \in BOOLEAN
  BY DEF Drops
<1>6. d.x \in Nat /\ d.y \in Nat /\ d.axes \in 1..3
  BY <1>2 DEF Image
<1>7. /\ h \in Object /\ h.fptr = b.fptr /\ h.failed = b.failed /\ h.cube = b.cube
      /\ h.ext = b.ext /\ h.alive /\ h.org = IF drop THEN "null" ELSE b.org
  <2>1. PICK y : y = IF d.axes = 1 THEN 1 ELSE d.y
    OBVIOUS
  <2>2. y \in Nat
    BY <1>6, <2>1
  <2>3. PICK g : g = IF drop THEN Dropped(b) ELSE b
    OBVIOUS
  <2>4. /\ g \in Object /\ g.fptr = b.fptr /\ g.failed = b.failed /\ g.cube = b.cube
        /\ g.ext = b.ext /\ g.alive = b.alive /\ g.org = IF drop THEN "null" ELSE b.org
    BY <1>2, <2>3 DEF Dropped, Object
  <2>5. h = [g EXCEPT !.sx = d.x, !.sy = y, !.use = "none"]
    BY <1>4, <2>1, <2>3 DEF ReadFitsHeader
  <2> QED
    BY <1>2, <1>6, <2>2, <2>4, <2>5 DEF Object
<1>8. PICK r : /\ obj' = [obj EXCEPT ![o] = r] /\ r \in Object
               /\ r.fptr = b.fptr /\ r.failed = b.failed /\ r.cube = b.cube
               /\ r.ext = b.ext /\ r.alive /\ (r.org = "external" <=> h.org = "external")
  <2>1. CASE obj' = [obj EXCEPT ![o] = h]
    BY <1>7, <2>1
  <2>2. CASE \E ok \in BOOLEAN : obj' = [obj EXCEPT ![o] = ReadFitsPixels(h, ok)]
    <3>1. PICK ok \in BOOLEAN : obj' = [obj EXCEPT ![o] = ReadFitsPixels(h, ok)]
      BY <2>2
    <3>2. PICK q : q = IF h.org = "null"
                       THEN [h EXCEPT !.org = "heap", !.bx = h.sx, !.by = h.sy] ELSE h
      OBVIOUS
    <3>3. /\ q \in Object /\ q.fptr = h.fptr /\ q.failed = h.failed /\ q.cube = h.cube
          /\ q.ext = h.ext /\ q.alive = h.alive /\ (q.org = "external" <=> h.org = "external")
      BY <1>7, <3>2 DEF Object
    <3>4. PICK r : r = IF ok THEN [q EXCEPT !.def = q.sy, !.use = "image"] ELSE [q EXCEPT !.def = 0]
      OBVIOUS
    <3>5. r = ReadFitsPixels(h, ok)
      BY <3>2, <3>4 DEF ReadFitsPixels
    <3>6. /\ r \in Object /\ r.fptr = q.fptr /\ r.failed = q.failed /\ r.cube = q.cube
          /\ r.ext = q.ext /\ r.alive = q.alive /\ r.org = q.org
      BY <3>3, <3>4 DEF Object
    <3> QED
      BY <1>7, <3>1, <3>3, <3>5, <3>6
  <2> QED
    BY <1>3, <1>4, <2>1, <2>2
<1>9. PICK a : a = IF all /\ h.org # "null" THEN Access(h, h.sx * h.sy) ELSE {}
  OBVIOUS
<1>10. a \subseteq {"overrun"} /\ ub' = (IF drop THEN Release(b) ELSE {}) \cup a
  BY <1>3, <1>4, <1>9 DEF Access
<1>11. /\ ub' \subseteq {"overrun", "bad_free"}
       /\ ("bad_free" \in ub') <=> (drop /\ b.org = "external")
  BY <1>10 DEF Release
<1>12. ("bad_free" \in ub') <=> (b.alive /\ b.ext /\ r.alive /\ r.org # "external")
  BY <1>2, <1>5, <1>7, <1>8, <1>11 DEF Marked
<1>13. ub' = {} => Marked(r)
  BY <1>2, <1>5, <1>7, <1>8, <1>11 DEF Marked
<1>14. Proper(r)
  BY <1>2, <1>8 DEF Proper
<1>15. Step(o, r)
  BY <1>1, <1>2, <1>3, <1>8, <1>11, <1>12, <1>13, <1>14 DEF Step, Kinds
<1> QED
  BY <1>15

-----------------------------------------------------------------------------
(* Saving, in any state of the handle. *)
LEMMA PutTyped ==
  ASSUME NEW d \in Image, NEW b \in Object, NEW n \in 1..3, NEW rows \in Nat
  PROVE  PutImage(d, b, n, rows) \in Image
<1>1. b.sx \in Nat /\ b.sy \in Nat /\ b.def \in Nat /\ d.hdus \in Nat
  BY DEF Object, Image
<1>2. CASE d.hdus = 0
  BY <1>1, <1>2 DEF PutImage, Image
<1>3. CASE d.hdus # 0
  BY <1>1, <1>3 DEF PutImage, Image
<1> QED
  BY <1>2, <1>3

LEMMA OnDisk ==
  ASSUME Loose, NEW b \in Object, NEW f \in Files, NEW n \in 1..3
  PROVE  /\ Target(b, f) \in Files /\ Before(b, f) \in Image
         /\ PutImage(Before(b, f), b, n, b.sy) \in Image
         /\ PutImage(Before(b, f), b, n, 0) \in Image
<1>1. Target(b, f) \in Files
  BY DEF Target, Object
<1>2. Before(b, f) \in Image
  BY <1>1, NoFileOK DEF Before, Loose, TypeOK
<1>3. b.sy \in Nat /\ 0 \in Nat
  BY DEF Object
<1> QED
  BY <1>1, <1>2, <1>3, PutTyped

LEMMA Saved ==
  ASSUME NEW b \in Object, Proper(b), NEW f \in Files
  PROVE  /\ Released(b) \in Object /\ Released(b).fptr = "null"
         /\ Released(b).org = b.org /\ Released(b).ext = b.ext
         /\ Lost(b) \in Object /\ Proper(Lost(b)) /\ Lost(b).org = b.org /\ Lost(b).ext = b.ext
         /\ Held(b, f) \in Object /\ Proper(Held(b, f))
         /\ Held(b, f).org = b.org /\ Held(b, f).ext = b.ext
         /\ Cubed(b) \in Object /\ Proper(Cubed(b))
         /\ Cubed(b).org = b.org /\ Cubed(b).ext = b.ext
         /\ Cubed(b).fptr = b.fptr
         /\ Dangling(b) \in Object /\ Proper(Dangling(b))
         /\ Dangling(b).org = b.org /\ Dangling(b).ext = b.ext
<1>1. Target(b, f) \in Files
  BY DEF Target, Object
<1>2. /\ Released(b) \in Object /\ Released(b).fptr = "null"
      /\ Released(b).org = b.org /\ Released(b).ext = b.ext
  BY DEF Released, Object
<1>3. /\ Lost(b) \in Object /\ Lost(b).fptr = b.fptr /\ Lost(b).failed
      /\ Lost(b).cube = b.cube /\ Lost(b).use = b.use
      /\ Lost(b).org = b.org /\ Lost(b).ext = b.ext
  BY DEF Lost, Object
<1>4. /\ Held(b, f) \in Object /\ Held(b, f).fptr = "open" /\ Held(b, f).failed
      /\ Held(b, f).org = b.org /\ Held(b, f).ext = b.ext
  BY <1>1 DEF Held, Object
<1>5. /\ Cubed(b) \in Object /\ Cubed(b).org = b.org /\ Cubed(b).ext = b.ext
      /\ Cubed(b).fptr = b.fptr /\ Cubed(b).cube
      /\ Cubed(b).failed = b.failed /\ Cubed(b).use = b.use
  BY DEF Cubed, Object
<1>6. /\ Dangling(b) \in Object /\ Dangling(b).org = b.org /\ Dangling(b).ext = b.ext
      /\ Dangling(b).fptr = "closed" /\ Dangling(b).cube
  BY DEF Dangling, Object
<1>7. Proper(Lost(b)) /\ Proper(Held(b, f)) /\ Proper(Cubed(b)) /\ Proper(Dangling(b))
  BY <1>3, <1>4, <1>5, <1>6 DEF Proper
<1> QED
  BY <1>2, <1>3, <1>4, <1>5, <1>6, <1>7

LEMMA FailStep ==
  ASSUME Loose, ub = {}, NEW o \in Objs, NEW f \in Files, NEW b \in Object, Proper(b),
         b.org = obj[o].org, b.ext = obj[o].ext, NEW n \in 1..3,
         NEW left \in Object, Proper(left), left.org = b.org, left.ext = b.ext,
         SaveFails(o, f, b, n, left)
  PROVE  \E r : Step(o, r)
<1>1. PICK r \in {Lost(b), Held(b, f), left} : obj' = [obj EXCEPT ![o] = r]
  BY DEF SaveFails
<1>2. ub' = {} /\ ret' = 1
  BY DEF SaveFails
<1>3. disk' \in [Files -> Image]
  <2>1. disk \in [Files -> Image] /\ NoFile \in Image
    BY One, NoFileOK
  <2>2. Target(b, f) \in Files /\ Before(b, f) \in Image /\ PutImage(Before(b, f), b, n, 0) \in Image
    BY OnDisk
  <2>3. PICK g \in Files, d \in Image : disk' = disk \/ disk' = [disk EXCEPT ![g] = d]
    BY <2>1, <2>2 DEF SaveFails
  <2> QED
    BY <2>1, <2>3
<1>4. r \in Object /\ Proper(r) /\ r.org = obj[o].org /\ r.ext = obj[o].ext
  BY <1>1, Saved
<1> QED
  BY <1>1, <1>2, <1>3, <1>4, Same

LEMMA DangleStep ==
  ASSUME Loose, ub = {}, NEW o \in Objs, NEW b, b.fptr = obj[o].fptr, Dangles(b)
  PROVE  \E r : Step(o, r)
<1>1. ub' \subseteq {"closed_handle"} /\ ("closed_handle" \in ub' => obj[o].fptr = "closed")
  BY DEF Dangles, HandleUB
<1>2. obj' = obj /\ disk' = disk /\ ret' = 1
  BY DEF Dangles
<1> QED
  BY <1>1, <1>2, One, Same

LEMMA WriteStep ==
  ASSUME Loose, ub = {}, NEW o \in Objs, NEW f \in Files, NEW upd \in BOOLEAN,
         WriteFits(o, f, upd)
  PROVE  \E r : Step(o, r)
<1>1. PICK a, b : a = obj[o] /\ b = UpdateSizeY(a, upd)
  OBVIOUS
<1>2. a \in Object /\ Proper(a) /\ disk \in [Files -> Image]
  BY <1>1, One
<1>3. /\ b \in Object /\ b.org = a.org /\ b.ext = a.ext /\ b.fptr = a.fptr
      /\ b.failed = a.failed /\ b.cube = a.cube /\ b.use = a.use
  BY <1>1, <1>2 DEF UpdateSizeY, Object
<1>4. Proper(b)
  BY <1>2, <1>3 DEF Proper
<1>5. CASE Dangles(b)
  BY <1>1, <1>3, <1>5, DangleStep
<1>6. CASE WriteFitsOK(o, f, b)
  <2>1. PICK d : d = PutImage(Before(b, f), b, 2, b.sy)
    OBVIOUS
  <2>2. d \in Image /\ Target(b, f) \in Files
    BY <1>3, <2>1, OnDisk
  <2>3. disk' \in [Files -> Image]
    BY <1>2, <1>6, <2>1, <2>2 DEF WriteFitsOK
  <2>4. ub' \subseteq {"overrun"}
    BY <1>6 DEF WriteFitsOK, Access
  <2>5. obj' = [obj EXCEPT ![o] = Released(b)] /\ ret' = 0
    BY <1>6 DEF WriteFitsOK
  <2>6. Released(b) \in Object /\ Released(b).fptr = "null"
        /\ Released(b).org = a.org /\ Released(b).ext = a.ext
    BY <1>3, <1>4, Saved
  <2>7. Proper(Released(b))
    BY <2>6 DEF Proper
  <2> QED
    BY <1>1, <2>3, <2>4, <2>5, <2>6, <2>7, Same
<1>7. CASE SaveFails(o, f, b, 2, Lost(Released(b)))
  <2>1. PICK q : q = Released(b)
    OBVIOUS
  <2>2. q \in Object /\ q.fptr = "null" /\ q.org = b.org /\ q.ext = b.ext
    BY <1>3, <1>4, <2>1, Saved
  <2>3. Proper(q)
    BY <2>2 DEF Proper
  <2>4. Lost(q) \in Object /\ Proper(Lost(q)) /\ Lost(q).org = b.org /\ Lost(q).ext = b.ext
    BY <2>2, <2>3, Saved
  <2>5. SaveFails(o, f, b, 2, Lost(q))
    BY <1>7, <2>1
  <2> QED
    BY <1>1, <1>3, <1>4, <2>4, <2>5, FailStep
<1> QED
  BY <1>1, <1>5, <1>6, <1>7 DEF WriteFits

LEMMA CubeStep ==
  ASSUME Loose, ub = {}, NEW o \in Objs, NEW p \in Objs, NEW f \in Files,
         WriteMultiImageFits(o, p, f)
  PROVE  \E r : Step(o, r)
<1>1. PICK b, c : b = obj[o] /\ c = obj[p]
  OBVIOUS
<1>2. b \in Object /\ Proper(b) /\ disk \in [Files -> Image] /\ c \in Object
  BY <1>1, One
<1>3. CASE Dangles(b)
  BY <1>1, <1>3, DangleStep
<1>4. CASE /\ obj' = [obj EXCEPT ![o] = Dangling(b)]
           /\ disk' = [disk EXCEPT ![Target(b, f)] = PutCube(Before(b, f), b, c)]
           /\ ub' = Access(b, b.sx * b.sy) \cup Access(c, c.sx * c.sy)
           /\ ret' = 0
  <2>1. PICK d : d = PutImage(Before(b, f), b, 3, b.sy)
    OBVIOUS
  <2>2. d \in Image /\ Target(b, f) \in Files
    BY <1>2, <2>1, OnDisk
  <2>3. c.sy \in Nat /\ c.def \in Nat /\ d.junk \in BOOLEAN
    BY <1>2, <2>2 DEF Object, Image
  <2>4. PutCube(Before(b, f), b, c) = [d EXCEPT !.junk = d.junk \/ c.sy > c.def]
    BY <2>1, <2>2 DEF PutCube, Image
  <2>5. PutCube(Before(b, f), b, c) \in Image
    BY <2>2, <2>3, <2>4 DEF Image
  <2>6. disk' \in [Files -> Image]
    BY <1>2, <1>4, <2>2, <2>5
  <2>7. ub' \subseteq {"overrun"}
    BY <1>4 DEF Access
  <2>8. /\ Dangling(b) \in Object /\ Proper(Dangling(b))
        /\ Dangling(b).org = b.org /\ Dangling(b).ext = b.ext
    BY <1>2, Saved
  <2> QED
    BY <1>1, <1>4, <2>6, <2>7, <2>8, Same
<1>5. CASE /\ obj' = [obj EXCEPT ![o] = Held(Cubed(b), f)]
           /\ disk' = [disk EXCEPT ![Target(b, f)] = PutImage(Before(b, f), b, 3, 0)]
           /\ ub' = ub /\ ret' = 1
  <2>1. disk' \in [Files -> Image]
    BY <1>2, <1>5, OnDisk
  <2>2. PICK q : q = Cubed(b)
    OBVIOUS
  <2>3. q \in Object /\ Proper(q) /\ q.org = b.org /\ q.ext = b.ext
    BY <1>2, <2>2, Saved
  <2>4. Held(q, f) \in Object /\ Proper(Held(q, f)) /\ Held(q, f).org = b.org /\ Held(q, f).ext = b.ext
    BY <2>3, Saved
  <2> QED
    BY <1>1, <1>5, <2>1, <2>2, <2>4, Same
<1>6. CASE SaveFails(o, f, Cubed(b), 3, Lost(Dangling(b)))
  <2>1. PICK q, w : q = Cubed(b) /\ w = Dangling(b)
    OBVIOUS
  <2>2. /\ q \in Object /\ Proper(q) /\ q.org = b.org /\ q.ext = b.ext
        /\ w \in Object /\ Proper(w) /\ w.org = b.org /\ w.ext = b.ext
    BY <1>2, <2>1, Saved
  <2>3. Lost(w) \in Object /\ Proper(Lost(w)) /\ Lost(w).org = q.org /\ Lost(w).ext = q.ext
    BY <2>2, Saved
  <2>4. SaveFails(o, f, q, 3, Lost(w))
    BY <1>6, <2>1
  <2> QED
    BY <1>1, <2>2, <2>3, <2>4, FailStep
<1> QED
  BY <1>1, <1>3, <1>4, <1>5, <1>6 DEF WriteMultiImageFits

LEMMA CreateStep ==
  ASSUME Loose, ub = {}, NEW o \in Objs, NEW f \in Files, Create(o, f)
  PROVE  \E r : Step(o, r)
<1>1. PICK b : b = obj[o]
  OBVIOUS
<1>2. b \in Object /\ Proper(b) /\ disk \in [Files -> Image]
  BY <1>1, One
<1>3. PICK q : q = [b EXCEPT !.fptr = "open", !.fname = f, !.use = "pieces"]
  OBVIOUS
<1>4. q \in Object /\ q.use = "pieces" /\ q.org = b.org /\ q.ext = b.ext
  BY <1>2, <1>3 DEF Object
<1>5. PICK q1, q2 : q1 = [q EXCEPT !.total = 0, !.lines = 0] /\ q2 = [q EXCEPT !.fptr = "null"]
  OBVIOUS
<1>10. q1 \in Object /\ q1.use = "pieces" /\ q1.org = b.org /\ q1.ext = b.ext
  BY <1>4, <1>5 DEF Object
<1>11. q2 \in Object /\ q2.use = "pieces" /\ q2.org = b.org /\ q2.ext = b.ext
  BY <1>4, <1>5 DEF Object
<1>12. PICK r \in {q1, q2, q} : obj' = [obj EXCEPT ![o] = r]
  BY <1>1, <1>3, <1>5 DEF Create
<1>6. r \in Object /\ r.use = "pieces" /\ r.org = b.org /\ r.ext = b.ext
  BY <1>4, <1>10, <1>11, <1>12
<1>7. Proper(r)
  BY <1>6 DEF Proper
<1>8. ub' = {} /\ ret' \in {0, 1}
  BY DEF Create
<1>9. disk' \in [Files -> Image]
  <2>1. NoFile \in Image /\ 0 \in Nat
    BY NoFileOK
  <2>2. PutImage(NoFile, b, 2, 0) \in Image
    BY <1>2, <2>1, PutTyped
  <2>3. \/ disk' = disk \/ disk' = [disk EXCEPT ![f] = NoFile]
        \/ disk' = [disk EXCEPT ![f] = PutImage(NoFile, b, 2, 0)]
    BY <1>1 DEF Create
  <2> QED
    BY <1>2, <2>1, <2>2, <2>3
<1> QED
  BY <1>1, <1>6, <1>7, <1>8, <1>9, <1>12, Same

-----------------------------------------------------------------------------
LEMMA LooseInit == Init => Loose
<1>1. SUFFICES ASSUME Init PROVE Loose
  OBVIOUS
<1>2. TypeOK /\ ub = {}
  BY <1>1, InitOK DEF IInv
<1>3. \A o \in Objs : obj[o] = Blank
  BY <1>1 DEF Init
<1>4. Proper(Blank) /\ Marked(Blank)
  BY DEF Proper, Marked, Blank
<1> QED
  BY <1>2, <1>3, <1>4 DEF Loose

LEMMA LooseNext == ASSUME Loose, Next PROVE Loose' /\ Told1
<1>1. ASSUME NEW o \in Objs, New(o) \/ Delete(o) \/ SetData(o) \/ Fill(o) \/ AddLine(o)
               \/ ResetLines(o) \/ ResetFilePointer(o) \/ DumpFitsLine(o) \/ Close(o)
      PROVE  Loose' /\ Told1
  <2>1. ub = {}
    BY <1>1 DEF New, Delete, SetData, Fill, AddLine, ResetLines, ResetFilePointer,
                DumpFitsLine, Close, Live
  <2>2. \E r : Step(o, r)
    BY <1>1, <2>1, NewStep, DeleteStep, SetDataStep, FillStep, AddLineStep, CounterSteps,
       DumpStep, CloseStep
  <2> QED
    BY <2>1, <2>2, StepOK
<1>2. ASSUME NEW o \in Objs, NEW n \in {-1} \cup 1..MaxY, SetYsize(o, n) PROVE Loose' /\ Told1
  <2>1. ub = {}
    BY <1>2 DEF SetYsize, Live
  <2> QED
    BY <1>2, <2>1, CounterSteps, StepOK
<1>3. ASSUME NEW o \in Objs, NEW p \in Objs, Assign(o, p) PROVE Loose' /\ Told1
  <2>1. ub = {}
    BY <1>3 DEF Assign, Live
  <2> QED
    BY <1>3, <2>1, AssignStep, StepOK
<1>4. ASSUME NEW o \in Objs, NEW f \in Files, ReadFitsFails(o, f) PROVE Loose' /\ Told1
  <2>1. ub = {} /\ ub' = {} /\ obj' = obj /\ disk' = disk /\ ret' = 1
    BY <1>4 DEF ReadFitsFails, Live
  <2>2. Step(o, obj[o])
    BY <2>1, One, Same
  <2> QED
    BY <2>1, <2>2, StepOK
<1>5. ASSUME NEW o \in Objs, NEW f \in Files, Create(o, f) PROVE Loose' /\ Told1
  <2>1. ub = {}
    BY <1>5 DEF Create, Live
  <2> QED
    BY <1>5, <2>1, CreateStep, StepOK
<1>6. ASSUME NEW o \in Objs, NEW f \in Files, NEW all \in BOOLEAN, ReadFits(o, f, all)
      PROVE  Loose' /\ Told1
  <2>1. ub = {}
    BY <1>6 DEF ReadFits, Live
  <2> QED
    BY <1>6, <2>1, ReadStep, StepOK
<1>7. ASSUME NEW o \in Objs, NEW f \in Files, NEW upd \in BOOLEAN, WriteFits(o, f, upd)
      PROVE  Loose' /\ Told1
  <2>1. ub = {}
    BY <1>7 DEF WriteFits, Savable, Live
  <2> QED
    BY <1>7, <2>1, WriteStep, StepOK
<1>8. ASSUME NEW o \in Objs, NEW p \in Objs, NEW f \in Files, WriteMultiImageFits(o, p, f)
      PROVE  Loose' /\ Told1
  <2>1. ub = {}
    BY <1>8 DEF WriteMultiImageFits, Savable, Live
  <2> QED
    BY <1>8, <2>1, CubeStep, StepOK
<1> QED
  BY <1>1, <1>2, <1>3, <1>4, <1>5, <1>6, <1>7, <1>8 DEF Next

LEMMA LooseKept == Loose /\ [Next]_vars => Loose'
<1>1. ASSUME Loose, UNCHANGED vars PROVE Loose'
  BY <1>1 DEF vars, Loose, TypeOK, Proper, Marked
<1> QED
  BY <1>1, LooseNext

(* The types of the fields, of the files and of the returned status. *)
THEOREM Typed == Spec => []TypeOK
<1>1. Loose => TypeOK
  BY DEF Loose
<1> QED
  BY <1>1, LooseInit, LooseKept, PTL DEF Spec

(* Whatever callers do, pixels that SetData attached are released by exactly *)
(* the calls that put a block of the object's own in their place.           *)
THEOREM FreesOnlyItsOwn == Spec => OwnMemory
<1>1. Loose /\ [Next]_vars => [("bad_free" \in ub') <=> (\E o \in Objs : GivesUp(o))]_vars
  BY LooseNext DEF Told1
<1> QED
  BY <1>1, LooseInit, LooseKept, PTL DEF Spec, OwnMemory

(* Whatever callers do and whatever fails, a closed handle is only found in *)
(* an object that wrote a cube or a file piece by piece.                    *)
THEOREM HandlesAreOpen == Spec => []NoDeadHandle
<1>1. Loose => NoDeadHandle
  BY DEF Loose, Proper, NoDeadHandle
<1> QED
  BY <1>1, LooseInit, LooseKept, PTL DEF Spec

-----------------------------------------------------------------------------
(* The image of a save: where it was asked for, or in the file that the     *)
(* save before it left open.                                                *)
LEMMA SavedThere ==
  ASSUME Loose, NEW o \in Objs, NEW f \in Files, NEW upd \in BOOLEAN,
         WriteFits(o, f, upd), ret' = 0
  PROVE  \/ HasImageOf(f, o)
         \/ /\ obj[o].failed /\ obj[o].fptr = "open"
            /\ \A g \in Files \ {obj[o].fname} : disk'[g] = disk[g]
<1>1. PICK b : b = UpdateSizeY(obj[o], upd)
  OBVIOUS
<1>2. ub = {}
  BY DEF WriteFits, Savable, Live
<1>3. /\ obj[o] \in Object /\ Proper(obj[o]) /\ obj \in [Objs -> Object] /\ disk \in [Files -> Image]
  BY <1>2, One
<1>4. /\ b \in Object /\ b.sx = obj[o].sx /\ b.fptr = obj[o].fptr /\ b.use = obj[o].use
      /\ b.failed = obj[o].failed /\ b.fname = obj[o].fname
  BY <1>1, <1>3 DEF UpdateSizeY, Object
<1>5. b.fptr # "closed" /\ WriteFitsOK(o, f, b) /\ (b.use = "pieces" => b.fptr = "closed")
  BY <1>1 DEF WriteFits, Dangles, SaveFails, Complete
<1>6. CASE b.fptr = "null"
  <2>1. disk'[f] = PutImage(NoFile, b, 2, b.sy)
    BY <1>3, <1>5, <1>6 DEF WriteFitsOK, Target, Before
  <2>2. disk'[f] = [hdus |-> 1, axes |-> 2, x |-> b.sx, y |-> b.sy, rows |-> b.sy, junk |-> b.sy > b.def]
    BY <2>1 DEF PutImage, NoFile
  <2>3. obj'[o].sy = b.sy
    BY <1>3, <1>4, <1>5 DEF WriteFitsOK, Released, Object
  <2> QED
    BY <1>4, <2>2, <2>3 DEF HasImageOf
<1>7. CASE b.fptr = "open"
  <2>1. obj[o].failed
    BY <1>3, <1>4, <1>5, <1>7 DEF Proper
  <2>2. \A g \in Files \ {obj[o].fname} : disk'[g] = disk[g]
    BY <1>3, <1>4, <1>5, <1>7 DEF WriteFitsOK, Target
  <2> QED
    BY <1>4, <1>7, <2>1, <2>2
<1> QED
  BY <1>4, <1>5, <1>6, <1>7 DEF Object

(* Whatever callers do and whatever fails: a save that returns 0 has put the *)
(* object's image, alone, into the file it was asked for; unless the save   *)
(* before failed with its file open, and then it touches that file only.    *)
THEOREM SavesThere == Spec => SavedWhereAsked
<1>1. Loose /\ [Next]_vars =>
        [\A o \in Objs, f \in Files, upd \in BOOLEAN :
           ret' = 0 /\ ~HasImageOf(f, o) /\ WriteFits(o, f, upd) =>
             /\ obj[o].failed /\ obj[o].fptr = "open"
             /\ \A g \in Files \ {obj[o].fname} : disk'[g] = disk[g]]_vars
  BY SavedThere
<1> QED
  BY <1>1, LooseInit, LooseKept, PTL DEF Spec, SavedWhereAsked
=============================================================================
