---------------------------- MODULE ShMemProofs -----------------------------
(***************************************************************************)
(* Theorems about the shared segments and queues (ShMem), for any          *)
(* processes, keys, names, ways of use and any number of segments and      *)
(* queues: objects find each other, no destructor of the orderly use ends  *)
(* its process, and a segment goes only with its maker.                    *)
(*                                                                         *)
(* The invariant has a part for any use, which knows where an object is    *)
(* attached, who has not named its segment yet and who made it; a part for *)
(* uses in which nothing is taken over, where an object made what it would *)
(* remove; and a part for the orderly use, in which it holds on to its     *)
(* segment and its queue, and while its destructor is between two calls no *)
(* other object has them.                                                  *)
(***************************************************************************)
EXTENDS ShMem, FiniteSetTheorems, WellFoundedInduction, TLAPS

Names == STRING \cup {""}

Seg == [key: Nat, name: Names, frames: {0, 1}, maker: Procs \cup {"nobody"}]

Obj == [st: {"none", "made", "attach", "setup", "up", "failed", "detached", "removed"},
        asked: Nat, key: Nat, id: Int, at: Int, ro: BOOLEAN, q: Int, check: BOOLEAN,
        opt: [assert: BOOLEAN, locks: BOOLEAN, retry: BOOLEAN, reuse: BOOLEAN, name: Names]]

TypeOK ==
  /\ obj \in [Procs -> Obj]
  /\ segs \in [DOMAIN segs -> Seg]
  /\ queues \in [DOMAIN queues -> 0..QueueSize]
  /\ qkey \in [DOMAIN queues -> Nat]
  /\ made \in Nat /\ DOMAIN segs \subseteq 0..(made - 1)
  /\ qmade \in Nat /\ DOMAIN queues \subseteq 0..(qmade - 1)
  /\ exits \subseteq {"get", "attach", "detach", "remove"}
  /\ use \in Uses

(* A key leads to one segment. *)
KeysDiffer ==
  \A s, t \in DOMAIN segs : segs[s].key = segs[t].key /\ segs[s].key # NoKey => s = t

(* p is attached to a segment or will be. *)
Holds(p) == obj[p].st \in {"attach", "setup", "up"}

(* Its destructor is between two calls. *)
Leaving(p) == obj[p].st \in {"detached", "removed"}

(* The memory of an attached object exists. *)
Stage(p) ==
  /\ obj[p].st \in {"none", "made", "attach", "detached", "removed"} => obj[p].at = NoId
  /\ obj[p].st \in {"setup", "up"} => obj[p].at = obj[p].id
  /\ obj[p].st = "failed" => obj[p].at \in {NoId, BadPtr, obj[p].id}
  /\ Holds(p) => obj[p].id \in 0..(made - 1) /\ obj[p].opt.name # ""
  /\ obj[p].at \notin {NoId, BadPtr} => obj[p].at \in DOMAIN segs

Stages == \A p \in Procs : Stage(p)

(* p made its segment and is the one to name it. *)
Names1st(p) == obj[p].st = "attach" /\ ~obj[p].ro /\ ~obj[p].check

(* A writer is in a segment of its name, and no one is in one that waits    *)
(* for its name.                                                            *)
NamedIn(p) ==
  /\ obj[p].st \in {"setup", "up"} /\ ~obj[p].ro => segs[obj[p].at].name = obj[p].opt.name
  /\ Names1st(p) /\ obj[p].id \in DOMAIN segs => segs[obj[p].id].name = ""

Named ==
  /\ \A p \in Procs : NamedIn(p)
  /\ \A p, r \in Procs : Names1st(p) /\ Names1st(r) /\ p # r => obj[p].id # obj[r].id

(* The maker of a segment still has its number. *)
Begun(p) == obj[p].st \notin {"none", "made"}

MakersHold ==
  \A s \in DOMAIN segs :
    segs[s].maker # "nobody" => Begun(segs[s].maker) /\ obj[segs[s].maker].id = s

AnyUse == TypeOK /\ KeysDiffer /\ Stages /\ Named /\ MakersHold

(* When nothing is taken over, a writer has no number but of what it made.  *)
Owns(p) ==
  Begun(p) /\ ~obj[p].ro =>
    /\ obj[p].id = NoId \/ obj[p].id \in 0..(made - 1)
    /\ obj[p].id \in DOMAIN segs => segs[obj[p].id].maker = p

Owned == \A p \in Procs : Owns(p)

(* In the orderly use an object has the segment of the key it asked for... *)
HoldsIn(p) ==
  /\ obj[p].st = "made" => obj[p].key = obj[p].asked /\ obj[p].key # NoKey
  /\ Holds(p) => /\ obj[p].id \in DOMAIN segs /\ segs[obj[p].id].key = obj[p].key
                 /\ obj[p].key = obj[p].asked /\ ~obj[p].check
  /\ obj[p].st = "failed" => obj[p].id = NoId /\ obj[p].at = NoId
  /\ obj[p].st = "detached" /\ obj[p].id # NoId =>
       obj[p].id \in DOMAIN segs /\ segs[obj[p].id].key = obj[p].key

HoldsOn ==
  /\ \A s \in DOMAIN segs : segs[s].key # NoKey
  /\ \A p \in Procs : HoldsIn(p)

(* ... and the queue of that key... *)
QueueIn(p) ==
  IF obj[p].st = "up" /\ obj[p].opt.locks
  THEN obj[p].q \in DOMAIN queues /\ qkey[obj[p].q] = 2 * obj[p].key
  ELSE obj[p].q = NoId
       \/ (Leaving(p) /\ obj[p].q \in DOMAIN queues /\ qkey[obj[p].q] = 2 * obj[p].key)

HasQueue ==
  /\ \A i, j \in DOMAIN queues : qkey[i] = qkey[j] => i = j
  /\ \A p \in Procs : QueueIn(p)

(* ... and while its destructor runs nobody else has anything of its key.   *)
Has(p) == Holds(p) \/ (Leaving(p) /\ ~(obj[p].id = NoId /\ obj[p].q = NoId))

Apart(p) ==
  Leaving(p) /\ Has(p) => \A r \in Procs \ {p} : Has(r) => obj[r].key # obj[p].key

AllApart == \A p \in Procs : Apart(p)

Ordered == HoldsOn /\ HasQueue /\ AllApart /\ exits \subseteq {"get"}

IInv == AnyUse /\ (OwnUse => Owned) /\ (OrderlyUse => Ordered)
-----------------------------------------------------------------------------
(* The smallest number of a set. *)
LEMMA Smallest ==
  ASSUME NEW S \in SUBSET Nat, S # {}
  PROVE  \E n \in S : \A m \in S : n <= m
<1>1. PICK n \in S : \A m \in S : <<m, n>> \notin OpToRel(<, Nat)
  BY NatLessThanWellFounded, WFMin
<1>2. ASSUME NEW m \in S PROVE ~(m < n)
  BY <1>1 DEF OpToRel
<1> QED
  BY <1>2

(* Of made + 1 keys one is free, because a segment has one key: the search *)
(* of a retried shmget ends, at the first key that is free.                *)
LEMMA RetryEnds ==
  ASSUME TypeOK, NEW k \in Nat
  PROVE  NextFree(k) \in Nat /\ Holding(NextFree(k)) = {}
<1> DEFINE J == (k + 1)..(k + made + 1)
           F == {j \in J : Holding(j) = {}}
           D == DOMAIN segs
<1>1. made \in Nat /\ D \subseteq 0..(made - 1)
  BY DEF TypeOK
<1>2. IsFiniteSet(D) /\ Cardinality(D) <= made
  <2>1. IsFiniteSet(0..(made - 1)) /\ Cardinality(0..(made - 1)) = made
    BY <1>1, FS_Interval
  <2> QED
    BY <1>1, <2>1, FS_Subset
<1>3. IsFiniteSet(J) /\ Cardinality(J) = made + 1
  BY <1>1, FS_Interval
<1>4. Cardinality(D) \in Nat
  BY <1>2, FS_CardinalityType
<1>5. F # {}
  <2> SUFFICES ASSUME F = {} PROVE FALSE
    OBVIOUS
  <2> DEFINE f == [j \in J |-> CHOOSE s \in D : segs[s].key = j]
  <2>1. ASSUME NEW j \in J PROVE f[j] \in D /\ segs[f[j]].key = j
    BY DEF Holding
  <2>2. f \in [J -> D]
    BY <2>1
  <2> HIDE DEF f, J, D
  <2>3. PICK i, j \in J : i # j /\ f[i] = f[j]
    <3>1. Cardinality(D) < Cardinality(J)
      BY <1>1, <1>2, <1>3, <1>4
    <3> QED
      BY <3>1, <1>2, <1>3, <2>2, FS_PigeonHole
  <2> QED
    BY <2>1, <2>3
<1>6. PICK n \in F : \A m \in F : n <= m
  <2>1. F \in SUBSET Nat
    BY <1>1
  <2> HIDE DEF F
  <2> QED
    BY <1>5, <2>1, Smallest
<1>7. ASSUME NEW i \in (k + 1)..(n - 1) PROVE Holding(i) # {}
  BY <1>1, <1>6
<1>8. \E j \in J : Holding(j) = {} /\ \A i \in (k + 1)..(j - 1) : Holding(i) # {}
  BY <1>6, <1>7
<1>9. NextFree(k) \in J /\ Holding(NextFree(k)) = {}
  BY <1>8 DEF NextFree
<1> QED
  BY <1>1, <1>9

LEMMA InitI == Init => IInv
<1> SUFFICES ASSUME Init PROVE IInv
  OBVIOUS
<1>1. TypeOK
  <2>1. Nobody \in Obj
    BY DEF Nobody, NoOpt, Obj, Names, NoKey, NoId
  <2>2. ASSUME NEW S PROVE <<>> \in [DOMAIN <<>> -> S] /\ DOMAIN <<>> = {}
    OBVIOUS
  <2>3. obj \in [Procs -> Obj]
    BY <2>1 DEF Init
  <2>4. segs \in [DOMAIN segs -> Seg] /\ DOMAIN segs = {}
    BY <2>2 DEF Init
  <2>5. queues \in [DOMAIN queues -> 0..QueueSize] /\ DOMAIN queues = {}
    BY <2>2 DEF Init
  <2>6. qkey \in [DOMAIN queues -> Nat]
    BY <2>2 DEF Init
  <2>7. made = 0 /\ qmade = 0 /\ exits = {} /\ use \in Uses
    BY DEF Init
  <2> QED
    BY <2>3, <2>4, <2>5, <2>6, <2>7 DEF TypeOK
<1>2. KeysDiffer /\ Stages /\ Named /\ MakersHold /\ Owned
  BY DEF Init, KeysDiffer, Stages, Stage, Named, NamedIn, Names1st, Holds, MakersHold, Owned, Owns,
     Begun, Nobody, NoId
<1>3. Ordered
  BY DEF Init, Ordered, HoldsOn, HoldsIn, HasQueue, QueueIn, AllApart, Apart, Leaving, Nobody,
     NoId, Holds
<1> QED
  BY <1>1, <1>2, <1>3 DEF IInv, AnyUse

LEMMA OrderlyOwns == OrderlyUse => OwnUse
BY DEF OrderlyUse, OwnUse
-----------------------------------------------------------------------------
(* Only the object of p changes, to one that is attached nowhere, and the   *)
(* segment s is marked as removed (none when s is NoId); with "nobody" for  *)
(* p only s is removed.                                                     *)
Leaves(p, e, s) ==
  /\ obj' = [r \in Procs |-> IF r = p THEN e ELSE obj[r]]
  /\ segs' \in [DOMAIN segs' -> Seg] /\ DOMAIN segs' \subseteq DOMAIN segs
  /\ \A t \in DOMAIN segs' :
       /\ segs'[t].name = segs[t].name
       /\ segs'[t].key = IF t = s THEN NoKey ELSE segs[t].key
       /\ segs'[t].maker = IF segs[t].maker = p /\ e.st = "none" THEN "nobody" ELSE segs[t].maker
       /\ segs'[t].key = NoKey => segs[t].key = NoKey \/ \E r \in Procs \ {p} : obj[r].at = t
  /\ \A t \in DOMAIN segs :
       \/ segs[t].key # NoKey /\ t # s
       \/ \E r \in Procs \ {p} : obj[r].at = t
       => t \in DOMAIN segs'
  /\ UNCHANGED <<made, qmade, use>>

(* Steps that take no segment its key. *)
KeysLive ==
  \A t \in DOMAIN segs :
    segs[t].key # NoKey => t \in DOMAIN segs' /\ segs'[t].key = segs[t].key

(* What the object of p keeps while it is destroyed. *)
Keeps(p, e) ==
  e.st # "none" => /\ e.id = obj[p].id /\ e.key = obj[p].key /\ e.q = obj[p].q
                   /\ e.ro = obj[p].ro /\ e.opt = obj[p].opt

LEMMA Attached ==
  ASSUME IInv, NEW r \in Procs
  PROVE  /\ Stage(r) /\ obj[r] \in Obj
         /\ Holds(r) => obj[r].id \notin {NoId, BadPtr}
         /\ obj[r].st \in {"setup", "up"} => obj[r].at = obj[r].id /\ obj[r].at \in DOMAIN segs
         /\ obj[r].at \in DOMAIN segs => obj[r].at \notin {NoId, BadPtr}
<1>1. Stage(r) /\ obj[r] \in Obj /\ DOMAIN segs \subseteq 0..(made - 1) /\ made \in Nat
  BY DEF IInv, AnyUse, Stages, TypeOK
<1>2. \A i \in 0..(made - 1) : i \notin {NoId, BadPtr}
  BY <1>1 DEF NoId, BadPtr
<1> QED
  BY <1>1, <1>2 DEF Stage, Holds

LEMMA LeavesI ==
  ASSUME IInv, NEW p \in Procs \cup {"nobody"}, NEW s, NEW e \in Obj, Leaves(p, e, s),
         e.at = NoId, e.st \in {"none", "detached", "removed"}, p \in Procs => Keeps(p, e)
  PROVE  /\ obj' \in [Procs -> Obj] /\ KeysDiffer' /\ Stages' /\ Named' /\ MakersHold'
         /\ OwnUse /\ (p \in Procs => e.st = "none" \/ Begun(p)) => Owned'
         /\ /\ OrderlyUse /\ (s # NoId => Users(s, p) = {})
            /\ p \in Procs => HoldsIn(p)' /\ Apart(p)' /\ (Has(p)' => Has(p))
            => HoldsOn' /\ AllApart'
<1>2. /\ \A r \in Procs : obj'[r] = IF r = p THEN e ELSE obj[r]
      /\ obj \in [Procs -> Obj] /\ segs \in [DOMAIN segs -> Seg]
      /\ DOMAIN segs \subseteq 0..(made - 1) /\ made \in Nat
      /\ "nobody" \notin Procs
  BY ShMemAssumption DEF IInv, AnyUse, TypeOK, Leaves
<1>3. obj' \in [Procs -> Obj]
  BY <1>2 DEF Leaves
<1>4. KeysDiffer'
  BY DEF IInv, AnyUse, KeysDiffer, Leaves, NoKey
<1>5. Stages'
  <2> SUFFICES ASSUME NEW r \in Procs PROVE Stage(r)'
    BY DEF Stages
  <2>1. CASE r = p
    BY <1>2, <2>1 DEF Stage, Holds
  <2>2. CASE r # p
    <3>1. Stage(r) /\ obj'[r] = obj[r] /\ made' = made
      BY <1>2, <2>2 DEF IInv, AnyUse, Stages, Leaves
    <3>2. obj[r].at \in DOMAIN segs => obj[r].at \in DOMAIN segs'
      BY <2>2 DEF Leaves
    <3> QED
      BY <3>1, <3>2 DEF Stage, Holds
  <2> QED
    BY <2>1, <2>2
<1>6. Named'
  <2>1. ASSUME NEW r \in Procs, obj[r].st \in {"setup", "up"}
        PROVE  obj[r].at \in DOMAIN segs
    BY <2>1, Attached
  <2>2. ASSUME NEW r \in Procs, r # p, obj[r].at \in DOMAIN segs
        PROVE  obj[r].at \in DOMAIN segs' /\ segs'[obj[r].at].name = segs[obj[r].at].name
    BY <2>2 DEF Leaves
  <2>3. ASSUME NEW r \in Procs, r # p PROVE NamedIn(r)'
    <3>1. NamedIn(r) /\ obj'[r] = obj[r]
      BY <1>2, <2>3 DEF IInv, AnyUse, Named
    <3>2. obj[r].id \in DOMAIN segs' =>
            obj[r].id \in DOMAIN segs /\ segs'[obj[r].id].name = segs[obj[r].id].name
      BY DEF Leaves
    <3> QED
      BY <2>1, <2>2, <2>3, <3>1, <3>2 DEF NamedIn, Names1st
  <2>4. p \in Procs => NamedIn(p)' /\ ~Names1st(p)'
    BY <1>2 DEF NamedIn, Names1st
  <2>5. ASSUME NEW r \in Procs, r # p PROVE Names1st(r)' = Names1st(r) /\ obj'[r].id = obj[r].id
    BY <1>2, <2>5 DEF Names1st
  <2> QED
    BY <2>3, <2>4, <2>5 DEF IInv, AnyUse, Named
<1>7. MakersHold'
  <2> SUFFICES ASSUME NEW t \in DOMAIN segs', segs'[t].maker # "nobody"
               PROVE  /\ obj'[segs'[t].maker].st \notin {"none", "made"}
                      /\ obj'[segs'[t].maker].id = t
    BY DEF MakersHold, Begun
  <2>1. t \in DOMAIN segs /\ segs'[t].maker = segs[t].maker /\ ~(segs[t].maker = p /\ e.st = "none")
    BY DEF Leaves
  <2>2. PICK m \in Procs : m = segs[t].maker
    BY <1>2, <2>1 DEF Seg
  <2>3. Begun(m) /\ obj[m].id = t
    BY <2>1, <2>2 DEF IInv, AnyUse, MakersHold
  <2>4. CASE m = p
    BY <1>2, <2>1, <2>2, <2>3, <2>4 DEF Begun, Keeps
  <2>5. CASE m # p
    BY <1>2, <2>1, <2>2, <2>3, <2>5 DEF Begun
  <2> QED
    BY <2>4, <2>5
<1>8. ASSUME OwnUse, p \in Procs => e.st = "none" \/ Begun(p) PROVE Owned'
  <2> SUFFICES ASSUME NEW r \in Procs PROVE Owns(r)'
    BY DEF Owned
  <2>1. Owns(r) /\ made' = made
    BY <1>8 DEF IInv, Owned, Leaves
  <2>2. CASE r = p
    <3>1. CASE e.st = "none"
      BY <1>2, <2>2, <3>1 DEF Owns, Begun
    <3>2. CASE e.st # "none"
      BY <1>2, <1>8, <2>1, <2>2, <3>2 DEF Owns, Begun, Keeps, Leaves
    <3> QED
      BY <3>1, <3>2
  <2>3. CASE r # p
    <3>1. obj'[r] = obj[r]
      BY <1>2, <2>3
    <3> QED
      BY <2>1, <2>3, <3>1 DEF Owns, Begun, Leaves
  <2> QED
    BY <2>2, <2>3
<1>9. ASSUME OrderlyUse, s # NoId => Users(s, p) = {},
             p \in Procs => HoldsIn(p)' /\ Apart(p)' /\ (Has(p)' => Has(p))
      PROVE  HoldsOn' /\ AllApart'
  <2>1. HoldsOn /\ AllApart
    BY <1>9 DEF IInv, Ordered
  <2>2. ASSUME NEW r \in Procs, r # p, Holds(r) \/ (obj[r].st = "detached" /\ obj[r].id # NoId)
        PROVE  obj[r].id # s
    <3>1. obj[r].id # NoId
      BY <2>2, Attached
    <3> QED
      BY <3>1, <1>9, <2>2 DEF Users, Holds
  <2>3. ASSUME NEW r \in Procs, r # p, obj[r].at \in DOMAIN segs PROVE Holds(r) /\ obj[r].at = obj[r].id
    <3>1. obj[r].at # NoId
      BY <2>3, Attached
    <3>2. Stage(r) /\ (obj[r].st = "failed" => obj[r].at = NoId) /\ obj[r] \in Obj
      BY <1>2, <2>1 DEF IInv, AnyUse, Stages, HoldsOn, HoldsIn
    <3> QED
      BY <3>1, <3>2 DEF Stage, Holds, Obj
  <2>4. \A t \in DOMAIN segs' : segs'[t].key # NoKey
    BY <2>1, <2>2, <2>3 DEF Leaves, HoldsOn
  <2>5. ASSUME NEW r \in Procs, r # p PROVE HoldsIn(r)'
    <3>1. HoldsIn(r) /\ obj'[r] = obj[r] /\ \A t \in DOMAIN segs : segs[t].key # NoKey
      BY <1>2, <2>1, <2>5 DEF HoldsOn
    <3>2. ASSUME obj[r].id \in DOMAIN segs, obj[r].id # s
          PROVE  obj[r].id \in DOMAIN segs' /\ segs'[obj[r].id].key = segs[obj[r].id].key
      BY <3>1, <3>2 DEF Leaves
    <3> QED
      BY <2>2, <2>5, <3>1, <3>2 DEF HoldsIn, Holds
  <2>6. HoldsOn'
    BY <1>9, <2>4, <2>5 DEF HoldsOn
  <2>7. ASSUME NEW r \in Procs, r # p PROVE Apart(r)'
    <3>1. Apart(r) /\ obj'[r] = obj[r] /\ Has(r)' = Has(r) /\ Leaving(r)' = Leaving(r)
      BY <1>2, <2>1, <2>7 DEF AllApart, Has, Holds, Leaving
    <3>2. ASSUME NEW x \in Procs \ {r}, Has(x)' PROVE Has(x) /\ obj'[x].key = obj[x].key
      <4>1. CASE x = p
        <5>1. e.st # "none"
          BY <1>2, <3>2, <4>1 DEF Has, Holds, Leaving
        <5> QED
          BY <1>2, <1>9, <3>2, <4>1, <5>1 DEF Keeps
      <4>2. CASE x # p
        BY <1>2, <3>2, <4>2 DEF Has, Holds, Leaving
      <4> QED
        BY <4>1, <4>2
    <3> QED
      BY <3>1, <3>2 DEF Apart
  <2>8. AllApart'
    BY <1>9, <2>7 DEF AllApart
  <2> QED
    BY <2>6, <2>8
<1> QED
  BY <1>3, <1>4, <1>5, <1>6, <1>7, <1>8, <1>9

(* What is left of the queues when an object goes and they stay. *)
LEMMA QueuesStay ==
  ASSUME IInv, OrderlyUse, NEW p \in Procs \cup {"nobody"}, UNCHANGED <<queues, qkey>>,
         \A r \in Procs \ {p} : obj'[r] = obj[r], p \in Procs => QueueIn(p)'
  PROVE  HasQueue'
<1>1. HasQueue
  BY DEF IInv, Ordered
<1> QED
  BY <1>1 DEF HasQueue, QueueIn, Leaving

(* What the kernel and the makers make of the segments sg. *)
LEMMA OrphanedOnly ==
  ASSUME NEW w, w \in [DOMAIN w -> Seg], NEW p
  PROVE  LET n == Orphaned(w, p)
         IN /\ n \in [DOMAIN w -> Seg]
            /\ \A t \in DOMAIN w :
                 /\ n[t].key = w[t].key /\ n[t].name = w[t].name
                 /\ n[t].maker = IF w[t].maker = p THEN "nobody" ELSE w[t].maker
<1> DEFINE n == Orphaned(w, p)
<1>1. /\ DOMAIN n = DOMAIN w
      /\ \A t \in DOMAIN w : n[t] = IF w[t].maker = p THEN [w[t] EXCEPT !.maker = "nobody"] ELSE w[t]
      /\ n = [t \in DOMAIN w |-> n[t]]
  BY DEF Orphaned
<1> HIDE DEF n
<1>2. ASSUME NEW t \in DOMAIN w
      PROVE  /\ n[t] \in Seg /\ n[t].key = w[t].key /\ n[t].name = w[t].name
             /\ n[t].maker = IF w[t].maker = p THEN "nobody" ELSE w[t].maker
  <2> DEFINE g == w[t]
             h == [g EXCEPT !.maker = "nobody"]
  <2>1. g \in Seg /\ n[t] = IF g.maker = p THEN h ELSE g
    BY <1>1
  <2>2. h \in Seg /\ h.key = g.key /\ h.name = g.name /\ h.maker = "nobody"
    BY <2>1 DEF Seg
  <2> HIDE DEF g, h
  <2>3. /\ n[t] \in Seg /\ n[t].key = g.key /\ n[t].name = g.name
        /\ n[t].maker = IF g.maker = p THEN "nobody" ELSE g.maker
    BY <2>1, <2>2
  <2> QED
    BY <2>3 DEF g
<1>3. n \in [DOMAIN w -> Seg]
  BY <1>1, <1>2
<1> QED
  BY <1>2, <1>3 DEF n

LEMMA Passed ==
  ASSUME NEW sg, sg \in [DOMAIN sg -> Seg], NEW ob, NEW p
  PROVE  LET n == Orphaned(Swept(sg, ob), p)
         IN /\ n \in [DOMAIN n -> Seg]
            /\ \A t : t \in DOMAIN n <=>
                 t \in DOMAIN sg /\ (sg[t].key # NoKey \/ \E r \in Procs : ob[r].at = t)
            /\ \A t \in DOMAIN n :
                 /\ n[t].key = sg[t].key /\ n[t].name = sg[t].name
                 /\ n[t].maker = IF sg[t].maker = p THEN "nobody" ELSE sg[t].maker
<1> DEFINE w == Swept(sg, ob)
           n == Orphaned(w, p)
<1>1. /\ DOMAIN w = {t \in DOMAIN sg : sg[t].key # NoKey \/ \E r \in Procs : ob[r].at = t}
      /\ \A t \in DOMAIN w : w[t] = sg[t]
      /\ w \in [DOMAIN w -> Seg]
  BY DEF Swept
<1> HIDE DEF w
<1>2. /\ n \in [DOMAIN w -> Seg]
      /\ \A t \in DOMAIN w :
           /\ n[t].key = w[t].key /\ n[t].name = w[t].name
           /\ n[t].maker = IF w[t].maker = p THEN "nobody" ELSE w[t].maker
  BY <1>1, OrphanedOnly
<1> HIDE DEF n
<1> QED
  BY <1>1, <1>2 DEF n, w

LEMMA MarkedOnly ==
  ASSUME NEW sg, sg \in [DOMAIN sg -> Seg], NEW s
  PROVE  /\ Marked(sg, s) \in [DOMAIN sg -> Seg] /\ DOMAIN Marked(sg, s) = DOMAIN sg
         /\ \A t \in DOMAIN sg :
              /\ Marked(sg, s)[t].key = IF t = s THEN NoKey ELSE sg[t].key
              /\ Marked(sg, s)[t].name = sg[t].name /\ Marked(sg, s)[t].maker = sg[t].maker
BY DEF Marked, Seg, NoKey

LEMMA NobodyIs == Nobody \in Obj /\ Nobody.st = "none" /\ Nobody.at = NoId /\ Nobody.q = NoId
BY DEF Nobody, NoOpt, Obj, Names, NoKey, NoId

LEMMA EndedI ==
  ASSUME IInv, NEW p \in Procs, NEW why \in SUBSET {"get", "attach", "detach", "remove"}, Ended(p, why),
         OrderlyUse => why \subseteq {"get"}
  PROVE  IInv' /\ KeysLive
<1>1. /\ obj \in [Procs -> Obj] /\ segs \in [DOMAIN segs -> Seg]
      /\ DOMAIN segs \subseteq 0..(made - 1) /\ made \in Nat
      /\ NoId \notin DOMAIN segs
  BY DEF IInv, AnyUse, TypeOK, NoId
<1>2. /\ obj' = [r \in Procs |-> IF r = p THEN Nobody ELSE obj[r]]
      /\ segs' = Orphaned(Swept(segs, obj'), p)
      /\ exits' = exits \cup why
      /\ UNCHANGED <<queues, qkey, made, qmade, use>>
  BY <1>1 DEF Ended
<1>3. Leaves(p, Nobody, NoId)
  <2>1. \A t \in DOMAIN segs : (\E r \in Procs : obj'[r].at = t) <=> (\E r \in Procs \ {p} : obj[r].at = t)
    BY <1>1, <1>2, NobodyIs
  <2>2. /\ segs' \in [DOMAIN segs' -> Seg]
        /\ \A t : t \in DOMAIN segs' <=>
             t \in DOMAIN segs /\ (segs[t].key # NoKey \/ \E r \in Procs : obj'[r].at = t)
        /\ \A t \in DOMAIN segs' :
             /\ segs'[t].key = segs[t].key /\ segs'[t].name = segs[t].name
             /\ segs'[t].maker = IF segs[t].maker = p THEN "nobody" ELSE segs[t].maker
    <3>0. PICK ob : ob = obj'
      OBVIOUS
    <3> DEFINE n == Orphaned(Swept(segs, ob), p)
    <3>1. /\ n \in [DOMAIN n -> Seg]
          /\ \A t : t \in DOMAIN n <=>
               t \in DOMAIN segs /\ (segs[t].key # NoKey \/ \E r \in Procs : ob[r].at = t)
          /\ \A t \in DOMAIN n :
               /\ n[t].key = segs[t].key /\ n[t].name = segs[t].name
               /\ n[t].maker = IF segs[t].maker = p THEN "nobody" ELSE segs[t].maker
      BY <1>1, Passed
    <3>2. segs' = n
      BY <1>2, <3>0
    <3> HIDE DEF n
    <3> QED
      BY <3>0, <3>1, <3>2
  <2> QED
    BY <1>1, <1>2, <2>1, <2>2, NobodyIs DEF Leaves
<1>4. /\ obj' \in [Procs -> Obj] /\ KeysDiffer' /\ Stages' /\ Named' /\ MakersHold'
      /\ OwnUse => Owned'
      /\ OrderlyUse => HoldsOn' /\ AllApart'
  <2>1. obj'[p] = Nobody
    BY <1>2
  <2>2. HoldsIn(p)' /\ Apart(p)' /\ ~Has(p)'
    BY <2>1, NobodyIs DEF HoldsIn, Holds, Apart, Has, Leaving
  <2>3. Keeps(p, Nobody)
    BY NobodyIs DEF Keeps
  <2> QED
    BY <1>3, <2>2, <2>3, NobodyIs, LeavesI
<1>5. TypeOK'
  BY <1>2, <1>3, <1>4 DEF IInv, AnyUse, TypeOK, Leaves
<1>6. ASSUME OrderlyUse PROVE HasQueue' /\ exits' \subseteq {"get"}
  <2>1. QueueIn(p)' /\ \A r \in Procs \ {p} : obj'[r] = obj[r]
    BY <1>2, NobodyIs DEF QueueIn
  <2>2. HasQueue'
    BY <1>2, <1>6, <2>1, QueuesStay
  <2> QED
    BY <1>2, <1>6, <2>2 DEF IInv, Ordered
<1>7. OrderlyUse' = OrderlyUse /\ OwnUse' = OwnUse
  BY <1>2 DEF OrderlyUse, OwnUse
<1>8. KeysLive
  BY <1>1, <1>3 DEF Leaves, KeysLive
<1> QED
  BY <1>4, <1>5, <1>6, <1>7, <1>8 DEF IInv, AnyUse, Ordered

LEMMA DieI ==
  ASSUME IInv, NEW p \in Procs, Die(p)
  PROVE  IInv' /\ KeysLive
BY EndedI DEF Die

(* Only the destructor of its maker takes a segment its key; the action of  *)
(* RemovedByMaker.                                                          *)
MakerRemoves ==
  \A s \in DOMAIN segs :
    segs[s].key # NoKey /\ (IF s \in DOMAIN segs' THEN segs'[s].key = NoKey ELSE TRUE)
    => segs[s].maker = "nobody" \/ obj'[segs[s].maker].st = "removed"

LEMMA LiveRemoves ==
  ASSUME KeysLive
  PROVE  MakerRemoves
BY DEF KeysLive, MakerRemoves

LEMMA CleanI ==
  ASSUME IInv, NEW k \in Keys, Clean(k)
  PROVE  IInv' /\ (OwnUse => MakerRemoves)
<1>1. /\ obj \in [Procs -> Obj] /\ segs \in [DOMAIN segs -> Seg]
      /\ DOMAIN segs \subseteq 0..(made - 1) /\ made \in Nat
  BY DEF IInv, AnyUse, TypeOK
<1>2. PICK s \in Holding(k) :
        /\ "clean" \in use.habits \/ Users(s, "nobody") = {}
        /\ segs' = Swept(Marked(segs, s), obj)
  BY DEF Clean
<1>3. UNCHANGED <<obj, queues, qkey, made, qmade, exits, use>>
  BY DEF Clean
<1>4. Leaves("nobody", Nobody, s)
  <2> DEFINE sg == Marked(segs, s)
  <2>1. /\ sg \in [DOMAIN sg -> Seg] /\ DOMAIN sg = DOMAIN segs
        /\ \A t \in DOMAIN sg :
             /\ sg[t].key = IF t = s THEN NoKey ELSE segs[t].key
             /\ sg[t].name = segs[t].name /\ sg[t].maker = segs[t].maker
    BY <1>1, MarkedOnly
  <2> HIDE DEF sg
  <2>2. /\ DOMAIN segs' = {t \in DOMAIN sg : sg[t].key # NoKey \/ \E r \in Procs : obj[r].at = t}
        /\ \A t \in DOMAIN segs' : segs'[t] = sg[t]
        /\ segs' \in [DOMAIN segs' -> Seg]
    BY <1>2, <2>1 DEF Swept, sg
  <2>3. "nobody" \notin Procs
    BY ShMemAssumption
  <2> QED
    BY <1>1, <1>3, <2>1, <2>2, <2>3 DEF Leaves
<1>5. /\ KeysDiffer' /\ Stages' /\ Named' /\ MakersHold'
      /\ OwnUse => Owned'
      /\ OrderlyUse => HoldsOn' /\ AllApart'
  <2>1. "nobody" \notin Procs
    BY ShMemAssumption
  <2> QED
    BY <1>2, <1>4, <2>1, NobodyIs, LeavesI DEF OrderlyUse
<1>6. TypeOK'
  BY <1>3, <1>4 DEF IInv, AnyUse, TypeOK, Leaves
<1>7. OrderlyUse => HasQueue' /\ exits' \subseteq {"get"}
  <2>1. "nobody" \notin Procs
    BY ShMemAssumption
  <2>2. OrderlyUse => HasQueue'
    BY <1>3, <2>1, QueuesStay
  <2> QED
    BY <1>3, <2>2 DEF IInv, Ordered
<1>8. OrderlyUse' = OrderlyUse /\ OwnUse' = OwnUse
  BY <1>3 DEF OrderlyUse, OwnUse
<1>9. OwnUse => MakerRemoves
  <2> SUFFICES ASSUME OwnUse, NEW t \in DOMAIN segs, segs[t].key # NoKey, segs[t].maker # "nobody",
                      IF t \in DOMAIN segs' THEN segs'[t].key = NoKey ELSE TRUE
               PROVE  obj'[segs[t].maker].st = "removed"
    BY DEF MakerRemoves
  <2>1. t = s /\ Users(s, "nobody") = {}
    BY <1>2, <1>4 DEF Leaves, OwnUse
  <2>2. PICK m \in Procs : m = segs[t].maker
    BY <1>1 DEF Seg
  <2>3. Begun(m) /\ obj[m].id = t /\ obj[m] \in Obj /\ m # "nobody"
    BY <1>1, <2>2 DEF IInv, AnyUse, MakersHold
  <2> QED
    BY <1>3, <2>1, <2>2, <2>3 DEF Users, Begun, Obj
<1> QED
  BY <1>5, <1>6, <1>7, <1>8, <1>9 DEF IInv, AnyUse, Ordered

(* Of the orderly use an object that is destroyed has a segment and a queue *)
(* of its own, or has failed and has none.                                  *)
LEMMA OrderlyDestroyed ==
  ASSUME IInv, OrderlyUse, NEW p \in Procs, Orderly(p), obj[p].st \in {"made", "up", "failed"}
  PROVE  /\ obj[p].at # BadPtr
         /\ \/ /\ obj[p].st = "up" /\ Users(obj[p].id, p) = {}
               /\ obj[p].id \in DOMAIN segs /\ segs[obj[p].id].key = obj[p].key
            \/ obj[p].st = "failed" /\ obj[p].id = NoId /\ obj[p].q = NoId
<1>1. obj[p].st \in {"up", "failed"} /\ (obj[p].st = "up" => Users(obj[p].id, p) = {})
  BY DEF OrderlyUse, Orderly
<1>2. obj[p].st = "failed" => obj[p].id = NoId /\ obj[p].at = NoId /\ obj[p].q = NoId
  BY DEF IInv, Ordered, HoldsOn, HoldsIn, HasQueue, QueueIn, Leaving
<1>3. obj[p].st = "up" => /\ obj[p].id \in DOMAIN segs /\ segs[obj[p].id].key = obj[p].key
                          /\ obj[p].at # BadPtr
  BY Attached DEF IInv, Ordered, HoldsOn, HoldsIn, Holds
<1> QED
  BY <1>1, <1>2, <1>3 DEF NoId, BadPtr

LEMMA DetachI ==
  ASSUME IInv, NEW p \in Procs, Detach(p)
  PROVE  IInv' /\ KeysLive
<1> DEFINE o == obj[p]
           e == [o EXCEPT !.st = "detached", !.at = NoId]
<1>1. /\ obj \in [Procs -> Obj] /\ segs \in [DOMAIN segs -> Seg]
      /\ DOMAIN segs \subseteq 0..(made - 1) /\ made \in Nat
      /\ NoId \notin DOMAIN segs
  BY DEF IInv, AnyUse, TypeOK, NoId
<1>2. o.st \in {"made", "up", "failed"} /\ Orderly(p)
  BY DEF Detach
<1>3. CASE o.at = BadPtr
  <2>1. Ended(p, {"detach"}) /\ ~OrderlyUse
    BY <1>2, <1>3, OrderlyDestroyed DEF Detach
  <2>2. {"detach"} \in SUBSET {"get", "attach", "detach", "remove"}
    OBVIOUS
  <2> QED
    BY <2>1, <2>2, EndedI
<1>4. CASE o.at # BadPtr
  <2>1. /\ e \in Obj /\ e.st = "detached" /\ e.at = NoId /\ e.id = o.id /\ e.key = o.key
        /\ e.q = o.q /\ e.ro = o.ro /\ e.opt = o.opt
    <3>1. o \in Obj /\ NoId \in Int
      BY <1>1 DEF NoId
    <3> QED
      BY <3>1 DEF Obj
  <2>2. /\ obj' = [obj EXCEPT ![p] = e] /\ segs' = Swept(segs, obj')
        /\ UNCHANGED <<queues, qkey, made, qmade, exits, use>>
    BY <1>4 DEF Detach
  <2> HIDE DEF e
  <2>3. /\ obj' = [r \in Procs |-> IF r = p THEN e ELSE obj[r]] /\ obj'[p] = e
        /\ \A r \in Procs \ {p} : obj'[r] = obj[r]
    BY <1>1, <2>2
  <2>4. \A t \in DOMAIN segs : (\E r \in Procs : obj'[r].at = t) <=> (\E r \in Procs \ {p} : obj[r].at = t)
    BY <1>1, <2>1, <2>3
  <2>5. /\ segs' \in [DOMAIN segs' -> Seg]
        /\ \A t : t \in DOMAIN segs' <=>
             t \in DOMAIN segs /\ (segs[t].key # NoKey \/ \E r \in Procs : obj'[r].at = t)
        /\ \A t \in DOMAIN segs' : segs'[t] = segs[t]
    BY <1>1, <2>2 DEF Swept
  <2>6. Leaves(p, e, NoId)
    BY <1>1, <2>1, <2>2, <2>3, <2>4, <2>5 DEF Leaves
  <2>7. Keeps(p, e)
    BY <2>1 DEF Keeps
  <2>8. OwnUse => Begun(p)
    BY <1>2 DEF OwnUse, Orderly, Begun
  <2>9. KeysLive
    BY <2>5 DEF KeysLive
  <2>10. ASSUME OrderlyUse
         PROVE  HoldsIn(p)' /\ Apart(p)' /\ (Has(p)' => Has(p)) /\ QueueIn(p)'
    <3>1. \/ /\ o.st = "up" /\ Users(o.id, p) = {}
             /\ o.id \in DOMAIN segs /\ segs[o.id].key = o.key
          \/ o.st = "failed" /\ o.id = NoId /\ o.q = NoId
      BY <1>2, <2>10, OrderlyDestroyed
    <3>2. HoldsOn /\ AllApart /\ QueueIn(p) /\ KeysDiffer
      BY <2>10 DEF IInv, AnyUse, Ordered, HasQueue
    <3>3. HoldsIn(p)'
      BY <2>1, <2>3, <2>5, <3>1, <3>2 DEF HoldsIn, Holds, HoldsOn
    <3>4. QueueIn(p)'
      BY <2>1, <2>2, <2>3, <3>1, <3>2 DEF QueueIn, Leaving
    <3>5. Has(p)' => o.st = "up"
      BY <2>1, <2>3, <3>1 DEF Has, Holds, Leaving
    <3>6. o.st = "up" => Has(p)
      BY DEF Has, Holds
    <3>7. ASSUME o.st = "up", NEW r \in Procs \ {p}, Has(r) PROVE obj[r].key # o.key
      <4>1. CASE Holds(r)
        <5>1. obj[r].id \in DOMAIN segs /\ segs[obj[r].id].key = obj[r].key /\ segs[obj[r].id].key # NoKey
          BY <3>2, <4>1 DEF HoldsOn, HoldsIn
        <5>2. obj[r].id # o.id
          BY <3>1, <3>7, <4>1 DEF Users, Holds
        <5> QED
          BY <3>1, <3>7, <3>2, <5>1, <5>2 DEF KeysDiffer
      <4>2. CASE Leaving(r)
        BY <3>2, <3>6, <3>7, <4>2 DEF AllApart, Apart
      <4> QED
        BY <3>7, <4>1, <4>2 DEF Has
    <3>8. ASSUME NEW r \in Procs \ {p} PROVE Has(r)' = Has(r) /\ obj'[r].key = obj[r].key
      BY <2>3 DEF Has, Holds, Leaving
    <3>9. Apart(p)'
      BY <2>1, <2>3, <3>5, <3>7, <3>8 DEF Apart
    <3> QED
      BY <3>3, <3>4, <3>5, <3>6, <3>9
  <2>11. /\ obj' \in [Procs -> Obj] /\ KeysDiffer' /\ Stages' /\ Named' /\ MakersHold'
         /\ OwnUse => Owned'
         /\ OrderlyUse => HoldsOn' /\ AllApart'
    BY <2>1, <2>6, <2>7, <2>8, <2>10, LeavesI
  <2>12. TypeOK'
    BY <2>2, <2>6, <2>11 DEF IInv, AnyUse, TypeOK, Leaves
  <2>13. OrderlyUse => HasQueue' /\ exits' \subseteq {"get"}
    <3>1. OrderlyUse => HasQueue'
      BY <2>2, <2>3, <2>10, QueuesStay
    <3> QED
      BY <2>2, <3>1 DEF IInv, Ordered
  <2>14. OrderlyUse' = OrderlyUse /\ OwnUse' = OwnUse
    BY <2>2 DEF OrderlyUse, OwnUse
  <2> QED
    BY <2>9, <2>11, <2>12, <2>13, <2>14 DEF IInv, AnyUse, Ordered
<1> QED
  BY <1>3, <1>4

LEMMA RemoveI ==
  ASSUME IInv, NEW p \in Procs, Remove(p)
  PROVE  IInv' /\ (OwnUse => MakerRemoves)
<1> DEFINE o == obj[p]
           e == [o EXCEPT !.st = "removed"]
           s == IF Removes(o) THEN o.id ELSE NoId
<1>1. /\ obj \in [Procs -> Obj] /\ segs \in [DOMAIN segs -> Seg]
      /\ DOMAIN segs \subseteq 0..(made - 1) /\ made \in Nat
      /\ NoId \notin DOMAIN segs /\ o.st = "detached" /\ o.at = NoId
  BY Attached DEF IInv, AnyUse, TypeOK, NoId, Remove, Stage
<1>2. CASE Removes(o) /\ o.id \notin DOMAIN segs
  <2>1. Ended(p, {"remove"})
    BY <1>2 DEF Remove
  <2>2. ~OrderlyUse
    BY <1>1, <1>2 DEF IInv, Ordered, HoldsOn, HoldsIn, Removes
  <2> QED
    BY <2>1, <2>2, EndedI, LiveRemoves
<1>3. CASE ~(Removes(o) /\ o.id \notin DOMAIN segs)
  <2>1. /\ e \in Obj /\ e.st = "removed" /\ e.at = NoId /\ e.id = o.id /\ e.key = o.key
        /\ e.q = o.q /\ e.ro = o.ro /\ e.opt = o.opt
    BY <1>1 DEF Obj
  <2>2. /\ obj' = [obj EXCEPT ![p] = e]
        /\ segs' = IF Removes(o) THEN Swept(Marked(segs, o.id), obj) ELSE segs
        /\ UNCHANGED <<queues, qkey, made, qmade, exits, use>>
    BY <1>3 DEF Remove
  <2> HIDE DEF e
  <2>3. /\ obj' = [r \in Procs |-> IF r = p THEN e ELSE obj[r]] /\ obj'[p] = e
        /\ \A r \in Procs \ {p} : obj'[r] = obj[r]
    BY <1>1, <2>2
  <2>4. \A t \in DOMAIN segs : (\E r \in Procs : obj[r].at = t) <=> (\E r \in Procs \ {p} : obj[r].at = t)
    BY <1>1
  <2>5. Leaves(p, e, s)
    <3>1. CASE ~Removes(o)
      BY <1>1, <2>1, <2>2, <2>3, <3>1 DEF Leaves
    <3>2. CASE Removes(o)
      <4> DEFINE sg == Marked(segs, o.id)
      <4>1. /\ sg \in [DOMAIN sg -> Seg] /\ DOMAIN sg = DOMAIN segs
            /\ \A t \in DOMAIN sg :
                 /\ sg[t].key = IF t = o.id THEN NoKey ELSE segs[t].key
                 /\ sg[t].name = segs[t].name /\ sg[t].maker = segs[t].maker
        BY <1>1, MarkedOnly
      <4>2. segs' = Swept(sg, obj)
        BY <2>2, <3>2
      <4> HIDE DEF sg
      <4>3. /\ DOMAIN segs' = {t \in DOMAIN sg : sg[t].key # NoKey \/ \E r \in Procs : obj[r].at = t}
            /\ \A t \in DOMAIN segs' : segs'[t] = sg[t]
            /\ segs' \in [DOMAIN segs' -> Seg]
        BY <4>1, <4>2 DEF Swept
      <4>4. s = o.id
        BY <3>2
      <4> HIDE DEF s
      <4>5. /\ \A t \in DOMAIN segs' :
                /\ t \in DOMAIN segs /\ segs'[t].name = segs[t].name
                /\ segs'[t].key = IF t = s THEN NoKey ELSE segs[t].key
                /\ segs'[t].maker = segs[t].maker
                /\ segs'[t].key = NoKey => \E r \in Procs \ {p} : obj[r].at = t
            /\ \A t \in DOMAIN segs :
                \/ segs[t].key # NoKey /\ t # s
                \/ \E r \in Procs \ {p} : obj[r].at = t
                => t \in DOMAIN segs'
        BY <2>4, <4>1, <4>3, <4>4
      <4> QED
        BY <2>1, <2>2, <2>3, <4>3, <4>5 DEF Leaves
    <3> QED
      BY <3>1, <3>2
  <2>6. Keeps(p, e) /\ Begun(p)
    BY <1>1, <2>1 DEF Keeps, Begun
  <2>7. ASSUME OrderlyUse
        PROVE  /\ s # NoId => Users(s, p) = {}
               /\ HoldsIn(p)' /\ Apart(p)' /\ (Has(p)' => Has(p)) /\ QueueIn(p)'
    <3>1. HoldsOn /\ Apart(p) /\ QueueIn(p)
      BY <2>7 DEF IInv, Ordered, HasQueue, AllApart
    <3>2. ASSUME s # NoId, NEW r \in Users(s, p) PROVE FALSE
      <4>1. o.id = s /\ o.id # NoId /\ r \in Procs \ {p} /\ obj[r].id = s
        BY <3>2 DEF Users
      <4>2. segs[o.id].key = o.key
        BY <1>1, <3>1, <4>1 DEF HoldsOn, HoldsIn
      <4>3. Has(p)
        BY <1>1, <4>1 DEF Has, Leaving
      <4>4. HoldsIn(r)
        BY <3>1, <4>1 DEF HoldsOn
      <4>5. Has(r) /\ segs[obj[r].id].key = obj[r].key
        BY <3>2, <4>1, <4>4 DEF Users, HoldsIn, Has, Holds, Leaving
      <4> QED
        BY <1>1, <3>1, <4>1, <4>2, <4>3, <4>5 DEF Apart, Leaving
    <3>3. Has(p)' = Has(p)
      BY <1>1, <2>1, <2>3 DEF Has, Holds, Leaving
    <3>4. ASSUME NEW r \in Procs \ {p} PROVE Has(r)' = Has(r) /\ obj'[r].key = obj[r].key
      BY <2>3 DEF Has, Holds, Leaving
    <3>5. Apart(p)'
      BY <1>1, <2>1, <2>3, <3>1, <3>3, <3>4 DEF Apart, Leaving
    <3>6. HoldsIn(p)'
      BY <2>1, <2>3 DEF HoldsIn, Holds
    <3>7. QueueIn(p)'
      BY <1>1, <2>1, <2>2, <2>3, <3>1 DEF QueueIn, Leaving
    <3> QED
      BY <3>2, <3>3, <3>5, <3>6, <3>7
  <2> HIDE DEF s
  <2>8. /\ obj' \in [Procs -> Obj] /\ KeysDiffer' /\ Stages' /\ Named' /\ MakersHold'
        /\ OwnUse => Owned'
        /\ OrderlyUse => HoldsOn' /\ AllApart'
    BY <2>1, <2>5, <2>6, <2>7, LeavesI
  <2>9. TypeOK'
    BY <2>2, <2>5, <2>8 DEF IInv, AnyUse, TypeOK, Leaves
  <2>10. OrderlyUse => HasQueue' /\ exits' \subseteq {"get"}
    <3>1. OrderlyUse => HasQueue'
      BY <2>2, <2>3, <2>7, QueuesStay
    <3> QED
      BY <2>2, <3>1 DEF IInv, Ordered
  <2>11. OrderlyUse' = OrderlyUse /\ OwnUse' = OwnUse
    BY <2>2 DEF OrderlyUse, OwnUse
  <2>12. ASSUME OwnUse PROVE MakerRemoves
    <3> SUFFICES ASSUME NEW t \in DOMAIN segs, segs[t].key # NoKey,
                        IF t \in DOMAIN segs' THEN segs'[t].key = NoKey ELSE TRUE
                 PROVE  segs[t].maker = p
      BY <2>1, <2>3 DEF MakerRemoves
    <3>1. t = s
      BY <2>5 DEF Leaves
    <3>2. Removes(o) /\ o.id = t
      BY <1>1, <3>1 DEF s
    <3> QED
      BY <2>6, <2>12, <3>2 DEF IInv, Owned, Owns, Removes
  <2> QED
    BY <2>8, <2>9, <2>10, <2>11, <2>12 DEF IInv, AnyUse, Ordered
<1> QED
  BY <1>2, <1>3

LEMMA RemoveQueueI ==
  ASSUME IInv, NEW p \in Procs, RemoveQueue(p)
  PROVE  IInv' /\ KeysLive
<1> DEFINE o == obj[p]
<1>1. /\ obj \in [Procs -> Obj] /\ segs \in [DOMAIN segs -> Seg]
      /\ DOMAIN segs \subseteq 0..(made - 1) /\ made \in Nat
      /\ NoId \notin DOMAIN segs /\ NoId \notin DOMAIN queues
      /\ o.st = "removed" /\ o.at = NoId
  <2>1. qmade \in Nat /\ DOMAIN queues \subseteq 0..(qmade - 1)
    BY DEF IInv, AnyUse, TypeOK
  <2>2. NoId \notin DOMAIN queues
    BY <2>1 DEF NoId
  <2>3. /\ obj \in [Procs -> Obj] /\ segs \in [DOMAIN segs -> Seg]
        /\ DOMAIN segs \subseteq 0..(made - 1) /\ made \in Nat
    BY DEF IInv, AnyUse, TypeOK
  <2>4. NoId \notin DOMAIN segs
    BY <2>3 DEF NoId
  <2>5. o.st = "removed" /\ o.at = NoId
    BY Attached DEF RemoveQueue, Stage
  <2> QED
    BY <2>2, <2>3, <2>4, <2>5
<1>2. /\ obj' = [r \in Procs |-> IF r = p THEN Nobody ELSE obj[r]]
      /\ segs' = Orphaned(segs, p)
      /\ queues' = Unqueued(queues, o.q) /\ qkey' = Unqueued(qkey, o.q)
      /\ UNCHANGED <<made, qmade, exits, use>>
  BY <1>1 DEF RemoveQueue
<1>3. /\ segs' \in [DOMAIN segs -> Seg]
      /\ \A t \in DOMAIN segs :
           /\ segs'[t].key = segs[t].key /\ segs'[t].name = segs[t].name
           /\ segs'[t].maker = IF segs[t].maker = p THEN "nobody" ELSE segs[t].maker
  BY <1>1, <1>2, OrphanedOnly
<1>4. Leaves(p, Nobody, NoId)
  BY <1>1, <1>2, <1>3, NobodyIs DEF Leaves
<1>5. /\ obj' \in [Procs -> Obj] /\ KeysDiffer' /\ Stages' /\ Named' /\ MakersHold'
      /\ OwnUse => Owned'
      /\ OrderlyUse => HoldsOn' /\ AllApart'
  <2>1. obj'[p] = Nobody
    BY <1>2
  <2>2. HoldsIn(p)' /\ Apart(p)' /\ ~Has(p)'
    BY <2>1, NobodyIs DEF HoldsIn, Holds, Apart, Has, Leaving
  <2>3. Keeps(p, Nobody)
    BY NobodyIs DEF Keeps
  <2> QED
    BY <1>4, <2>2, <2>3, NobodyIs, LeavesI
<1>6. /\ queues' = [i \in DOMAIN queues \ {o.q} |-> queues[i]]
      /\ qkey' = [i \in DOMAIN queues \ {o.q} |-> qkey[i]]
  BY <1>2 DEF IInv, AnyUse, TypeOK, Unqueued
<1>7. TypeOK'
  <2>1. /\ queues' \in [DOMAIN queues' -> 0..QueueSize] /\ qkey' \in [DOMAIN queues' -> Nat]
        /\ DOMAIN queues' \subseteq DOMAIN queues
    BY <1>6 DEF IInv, AnyUse, TypeOK
  <2> QED
    BY <1>2, <1>3, <1>5, <2>1 DEF IInv, AnyUse, TypeOK
<1>8. ASSUME OrderlyUse PROVE HasQueue' /\ exits' \subseteq {"get"}
  <2>1. HasQueue /\ Apart(p) /\ exits \subseteq {"get"}
    BY <1>8 DEF IInv, Ordered, AllApart
  <2>2. ASSUME NEW r \in Procs \ {p}, obj[r].q \in DOMAIN queues, qkey[obj[r].q] = 2 * obj[r].key, Has(r)
        PROVE  obj[r].q # o.q
    <3>1. CASE o.q = NoId
      BY <1>1, <2>2, <3>1
    <3>2. CASE o.q # NoId
      <4>1. qkey[o.q] = 2 * o.key
        BY <1>1, <2>1, <3>2 DEF HasQueue, QueueIn
      <4>2. obj[r].key # o.key
        BY <1>1, <2>1, <2>2, <3>2 DEF Apart, Has, Leaving
      <4>3. o.key \in Nat /\ obj[r].key \in Nat
        BY <1>1 DEF Obj
      <4> QED
        BY <2>2, <4>1, <4>2, <4>3
    <3> QED
      BY <3>1, <3>2
  <2>3. ASSUME NEW r \in Procs, r # p PROVE QueueIn(r)'
    <3>1. QueueIn(r) /\ obj'[r] = obj[r] /\ Leaving(r)' = Leaving(r)
      BY <1>2, <2>1, <2>3 DEF HasQueue, Leaving
    <3>2. CASE obj[r].q = NoId /\ ~(obj[r].st = "up" /\ obj[r].opt.locks)
      BY <3>1, <3>2 DEF QueueIn
    <3>3. CASE ~(obj[r].q = NoId /\ ~(obj[r].st = "up" /\ obj[r].opt.locks))
      <4>1. obj[r].q \in DOMAIN queues /\ qkey[obj[r].q] = 2 * obj[r].key /\ Has(r)
        BY <1>1, <3>1, <3>3 DEF QueueIn, Has, Holds, Leaving
      <4>2. obj[r].q # o.q
        BY <2>2, <2>3, <4>1
      <4>3. obj[r].q \in DOMAIN queues' /\ qkey'[obj[r].q] = 2 * obj[r].key
        BY <1>6, <4>1, <4>2
      <4> QED
        BY <3>1, <4>3 DEF QueueIn
    <3> QED
      BY <3>2, <3>3
  <2>4. QueueIn(p)'
    BY <1>2, NobodyIs DEF QueueIn
  <2>5. \A i, j \in DOMAIN queues' : qkey'[i] = qkey'[j] => i = j
    BY <1>6, <2>1 DEF HasQueue
  <2> QED
    BY <1>2, <2>1, <2>3, <2>4, <2>5 DEF HasQueue
<1>9. OrderlyUse' = OrderlyUse /\ OwnUse' = OwnUse
  BY <1>2 DEF OrderlyUse, OwnUse
<1>10. KeysLive
  BY <1>3 DEF KeysLive
<1> QED
  BY <1>5, <1>7, <1>8, <1>9, <1>10 DEF IInv, AnyUse, Ordered
-----------------------------------------------------------------------------
(* Steps of p after which the same segments exist, of the same keys, makers *)
(* and names, but for the name p has to give.                               *)
SegsStay(p) ==
  /\ segs' \in [DOMAIN segs -> Seg]
  /\ \A t \in DOMAIN segs :
       /\ segs'[t].key = segs[t].key /\ segs'[t].maker = segs[t].maker
       /\ segs'[t].name = segs[t].name \/ (Names1st(p) /\ t = obj[p].id)

(* ... where p keeps its number once it has one, holds what it should, and  *)
(* takes a segment only while no destructor of its key is running.          *)
OwnEnds(p, e) ==
  /\ Stage(p)' /\ NamedIn(p)' /\ ~Names1st(p)'
  /\ Begun(p) => Begun(p)' /\ e.id = obj[p].id
  /\ OwnUse => Owns(p)'
  /\ OrderlyUse => /\ HoldsIn(p)' /\ ~Leaving(p)'
                   /\ Holds(p)' => e.key = obj[p].key /\ (Holds(p) \/ InTurn(p))

LEMMA OwnStep ==
  ASSUME IInv, NEW p \in Procs, NEW e \in Obj, obj' = [obj EXCEPT ![p] = e], SegsStay(p),
         UNCHANGED <<made, use>>, OwnEnds(p, e)
  PROVE  /\ obj' \in [Procs -> Obj] /\ KeysDiffer' /\ Stages' /\ Named' /\ MakersHold'
         /\ OwnUse => Owned'
         /\ OrderlyUse => HoldsOn' /\ AllApart'
<1>0. /\ Stage(p)' /\ NamedIn(p)' /\ ~Names1st(p)' /\ (Begun(p) => Begun(p)' /\ e.id = obj[p].id)
      /\ OwnUse => Owns(p)'
      /\ OrderlyUse => /\ HoldsIn(p)' /\ ~Leaving(p)'
                       /\ Holds(p)' => e.key = obj[p].key /\ (Holds(p) \/ InTurn(p))
  BY DEF OwnEnds
<1>1. /\ obj \in [Procs -> Obj] /\ segs \in [DOMAIN segs -> Seg] /\ DOMAIN segs' = DOMAIN segs
      /\ \A r \in Procs : obj'[r] = IF r = p THEN e ELSE obj[r]
      /\ obj' \in [Procs -> Obj]
  BY DEF IInv, AnyUse, TypeOK, SegsStay
<1>2. KeysDiffer'
  BY <1>1 DEF IInv, AnyUse, KeysDiffer, SegsStay
<1>3. Stages'
  <2>1. ASSUME NEW r \in Procs, r # p PROVE Stage(r)'
    <3>1. Stage(r) /\ obj'[r] = obj[r]
      BY <1>1, <2>1 DEF IInv, AnyUse, Stages
    <3> QED
      BY <1>1, <3>1 DEF Stage, Holds
  <2> QED
    BY <1>0, <2>1 DEF Stages
<1>4. Named'
  <2>1. ASSUME NEW r \in Procs, r # p PROVE NamedIn(r)' /\ Names1st(r)' = Names1st(r) /\ obj'[r].id = obj[r].id
    <3>1. NamedIn(r) /\ obj'[r] = obj[r]
      BY <1>1, <2>1 DEF IInv, AnyUse, Named
    <3>2. obj[r].st \in {"setup", "up"} => obj[r].at \in DOMAIN segs /\ obj[r].opt.name # ""
      BY Attached DEF Stage, Holds
    <3>3. Names1st(p) /\ obj[p].id \in DOMAIN segs => segs[obj[p].id].name = ""
      BY DEF IInv, AnyUse, Named, NamedIn
    <3>4. Names1st(p) /\ Names1st(r) => obj[r].id # obj[p].id
      BY <2>1 DEF IInv, AnyUse, Named
    <3>5. Names1st(r)' = Names1st(r)
      BY <3>1 DEF Names1st
    <3>6. obj[r].st \in {"setup", "up"} /\ ~obj[r].ro => segs'[obj[r].at].name = obj[r].opt.name
      BY <3>1, <3>2, <3>3 DEF NamedIn, SegsStay
    <3>7. Names1st(r) /\ obj[r].id \in DOMAIN segs => segs'[obj[r].id].name = ""
      BY <3>1, <3>4 DEF NamedIn, SegsStay
    <3> QED
      BY <1>1, <3>1, <3>5, <3>6, <3>7 DEF NamedIn
  <2> QED
    BY <1>0, <2>1 DEF IInv, AnyUse, Named
<1>5. MakersHold'
  <2> SUFFICES ASSUME NEW t \in DOMAIN segs, segs[t].maker # "nobody"
               PROVE  /\ obj'[segs[t].maker].st \notin {"none", "made"}
                      /\ obj'[segs[t].maker].id = t
    BY <1>1 DEF MakersHold, Begun, SegsStay
  <2>1. PICK m \in Procs : m = segs[t].maker
    BY <1>1 DEF Seg
  <2>2. Begun(m) /\ obj[m].id = t
    BY <2>1 DEF IInv, AnyUse, MakersHold
  <2>3. Begun(m)' /\ obj'[m].id = t
    BY <1>0, <1>1, <2>2 DEF Begun
  <2> QED
    BY <2>1, <2>3 DEF Begun
<1>6. ASSUME OwnUse PROVE Owned'
  <2> SUFFICES ASSUME NEW r \in Procs, r # p PROVE Owns(r)'
    BY <1>0, <1>6 DEF Owned
  <2>1. Owns(r) /\ obj'[r] = obj[r]
    BY <1>1, <1>6 DEF IInv, Owned
  <2> QED
    BY <1>1, <2>1 DEF Owns, Begun, SegsStay
<1>7. ASSUME OrderlyUse PROVE HoldsOn' /\ AllApart'
  <2>1. HoldsOn /\ AllApart
    BY <1>7 DEF IInv, Ordered
  <2>2. ASSUME NEW r \in Procs PROVE HoldsIn(r)'
    <3>1. CASE r = p
      BY <1>0, <1>7, <3>1
    <3>2. CASE r # p
      BY <1>1, <2>1, <3>2 DEF HoldsOn, HoldsIn, Holds, SegsStay
    <3> QED
      BY <3>1, <3>2
  <2>3. HoldsOn'
    BY <1>1, <2>1, <2>2 DEF HoldsOn, SegsStay
  <2>4. ASSUME NEW r \in Procs, r # p, Leaving(r), Has(r), NEW x \in Procs \ {r}, Has(x)'
        PROVE  obj'[x].key # obj[r].key
    <3>1. CASE x = p
      <4>1. Holds(p)' /\ obj'[p].key = obj[p].key /\ (Holds(p) \/ InTurn(p))
        BY <1>0, <1>1, <1>7, <2>4, <3>1 DEF Has
      <4>2. CASE Holds(p)
        BY <2>1, <2>4, <3>1, <4>1, <4>2 DEF AllApart, Apart, Has
      <4>3. CASE InTurn(p)
        BY <1>7, <2>4, <3>1, <4>1, <4>3 DEF InTurn, OrderlyUse, Leaving
      <4> QED
        BY <4>1, <4>2, <4>3
    <3>2. CASE x # p
      <4>1. Has(x) /\ obj'[x] = obj[x]
        BY <1>1, <2>4, <3>2 DEF Has, Holds, Leaving
      <4> QED
        BY <2>1, <2>4, <4>1 DEF AllApart, Apart
    <3> QED
      BY <3>1, <3>2
  <2>5. ASSUME NEW r \in Procs PROVE Apart(r)'
    <3>1. CASE r = p
      BY <1>0, <1>7, <3>1 DEF Apart
    <3>2. CASE r # p
      <4>1. obj'[r] = obj[r] /\ Leaving(r)' = Leaving(r) /\ Has(r)' = Has(r)
        BY <1>1, <3>2 DEF Leaving, Has, Holds
      <4> QED
        BY <2>4, <3>2, <4>1 DEF Apart
    <3> QED
      BY <3>1, <3>2
  <2> QED
    BY <2>3, <2>5 DEF AllApart
<1> QED
  BY <1>1, <1>2, <1>3, <1>4, <1>5, <1>6, <1>7

(* ... and nothing else changes. *)
LEMMA OwnStepI ==
  ASSUME IInv, NEW p \in Procs, NEW e \in Obj, obj' = [obj EXCEPT ![p] = e],
         SegsStay(p) \/ UNCHANGED segs, UNCHANGED <<queues, qkey, made, qmade, exits, use>>,
         OwnEnds(p, e), OrderlyUse => QueueIn(p)'
  PROVE  IInv'
<1>1. SegsStay(p)
  BY DEF IInv, AnyUse, TypeOK, SegsStay
<1>2. /\ obj' \in [Procs -> Obj] /\ KeysDiffer' /\ Stages' /\ Named' /\ MakersHold'
      /\ OwnUse => Owned'
      /\ OrderlyUse => HoldsOn' /\ AllApart'
  BY <1>1, OwnStep
<1>3. TypeOK'
  BY <1>1, <1>2 DEF IInv, AnyUse, TypeOK, SegsStay
<1>4. ASSUME OrderlyUse PROVE HasQueue' /\ exits' \subseteq {"get"}
  <2>1. HasQueue /\ exits \subseteq {"get"}
    BY <1>4 DEF IInv, Ordered
  <2>2. ASSUME NEW r \in Procs, r # p PROVE QueueIn(r)'
    <3>1. obj'[r] = obj[r] /\ QueueIn(r)
      BY <2>1, <2>2 DEF IInv, AnyUse, TypeOK, HasQueue
    <3> QED
      BY <3>1 DEF QueueIn, Leaving
  <2> QED
    BY <1>4, <2>1, <2>2 DEF HasQueue
<1>5. OrderlyUse' = OrderlyUse /\ OwnUse' = OwnUse
  BY DEF OrderlyUse, OwnUse
<1> QED
  BY <1>2, <1>3, <1>4, <1>5 DEF IInv, AnyUse, Ordered

LEMMA NewI ==
  ASSUME IInv, NEW p \in Procs, New(p)
  PROVE  IInv'
<1>1. PICK k \in Keys, ro \in BOOLEAN :
        obj' = [obj EXCEPT ![p] = [Nobody EXCEPT !.st = "made", !.asked = k, !.key = k, !.ro = ro]]
  BY DEF New
<1>2. UNCHANGED <<segs, queues, qkey, made, qmade, exits, use>>
  BY DEF New
<1> DEFINE e == [Nobody EXCEPT !.st = "made", !.asked = k, !.key = k, !.ro = ro]
<1>3. /\ e \in Obj /\ e.st = "made" /\ e.asked = k /\ e.key = k /\ e.at = NoId /\ e.q = NoId
      /\ k # NoKey
  <2>1. k \in Nat /\ k # 0
    BY ShMemAssumption
  <2> QED
    BY <2>1, NobodyIs DEF Obj, NoKey
<1> HIDE DEF e
<1>4. obj'[p] = e /\ obj' = [obj EXCEPT ![p] = e]
  BY <1>1 DEF e, IInv, AnyUse, TypeOK
<1>5. Stage(p)' /\ NamedIn(p)' /\ ~Names1st(p)' /\ HoldsIn(p)' /\ QueueIn(p)'
  BY <1>3, <1>4 DEF Stage, Holds, NamedIn, Names1st, HoldsIn, QueueIn
<1>6. OwnEnds(p, e)
  <2>1. ~Begun(p) /\ ~Begun(p)' /\ ~Holds(p)' /\ ~Leaving(p)'
    BY <1>3, <1>4 DEF New, Begun, Holds, Leaving
  <2> QED
    BY <1>5, <2>1 DEF OwnEnds, Owns
<1> QED
  BY <1>2, <1>3, <1>4, <1>5, <1>6, OwnStepI

(* The arguments of Init. *)
LEMMA OptIs ==
  ASSUME TypeOK, NEW opt \in use.opts
  PROVE  /\ opt \in [assert: BOOLEAN, locks: BOOLEAN, retry: BOOLEAN, reuse: BOOLEAN, name: Names]
         /\ opt.name # ""
         /\ OrderlyUse => ~opt.retry /\ ~opt.reuse
<1>1. opt \in [assert: BOOLEAN, locks: BOOLEAN, retry: BOOLEAN, reuse: BOOLEAN, name: STRING \ {""}]
  BY ShMemAssumption DEF TypeOK
<1> QED
  BY <1>1 DEF Names, OrderlyUse

(* Of an object that was made the orderly use knows the key. *)
LEMMA MadeIs ==
  ASSUME IInv, NEW p \in Procs, obj[p].st = "made"
  PROVE  /\ obj[p] \in Obj /\ ~Holds(p) /\ ~Begun(p) /\ ~Leaving(p) /\ obj[p].at = NoId
         /\ OrderlyUse => obj[p].key = obj[p].asked /\ obj[p].key # NoKey /\ obj[p].q = NoId
<1>1. OrderlyUse => HoldsIn(p) /\ QueueIn(p)
  BY DEF IInv, Ordered, HoldsOn, HasQueue
<1> QED
  BY <1>1, Attached DEF Stage, Holds, Begun, Leaving, HoldsIn, QueueIn

(* shmget found the segment s. *)
LEMMA FoundI ==
  ASSUME IInv, NEW p \in Procs, obj[p].st = "made", NEW opt \in use.opts,
         NEW s \in Holding(obj[p].key), NEW check \in BOOLEAN, Got(p, opt, obj[p].key, s, check),
         obj[p].ro \/ check, obj[p].ro \/ ~OwnUse, OrderlyUse => ~check, InTurn(p),
         UNCHANGED <<segs, queues, qkey, made, qmade, exits, use>>
  PROVE  IInv'
<1> DEFINE e == [obj[p] EXCEPT !.st = "attach", !.key = obj[p].key, !.id = s, !.opt = opt, !.check = check]
<1>1. /\ opt \in [assert: BOOLEAN, locks: BOOLEAN, retry: BOOLEAN, reuse: BOOLEAN, name: Names]
      /\ opt.name # ""
  BY OptIs DEF IInv, AnyUse
<1>2. s \in DOMAIN segs /\ segs[s].key = obj[p].key /\ s \in 0..(made - 1) /\ s \in Int
  BY DEF Holding, IInv, AnyUse, TypeOK
<1>3. /\ e \in Obj /\ e.st = "attach" /\ e.key = obj[p].key /\ e.asked = obj[p].asked /\ e.id = s
      /\ e.at = obj[p].at /\ e.q = obj[p].q /\ e.opt = opt /\ e.check = check /\ e.ro = obj[p].ro
  BY <1>1, <1>2, MadeIs DEF Obj
<1>4. obj' = [obj EXCEPT ![p] = e]
  BY DEF Got
<1> HIDE DEF e
<1>5. obj'[p] = e
  BY <1>4 DEF IInv, AnyUse, TypeOK
<1>6. Stage(p)' /\ NamedIn(p)' /\ ~Names1st(p)'
  BY <1>1, <1>2, <1>3, <1>5, MadeIs DEF Stage, Holds, NamedIn, Names1st
<1>7. OrderlyUse => HoldsIn(p)' /\ QueueIn(p)'
  BY <1>2, <1>3, <1>5, MadeIs DEF HoldsIn, Holds, QueueIn
<1>8. OwnEnds(p, e)
  <2>1. OwnUse => Owns(p)'
    BY <1>3, <1>5 DEF Owns
  <2>2. ~Leaving(p)'
    BY <1>3, <1>5 DEF Leaving
  <2> QED
    BY <1>3, <1>6, <1>7, <2>1, <2>2, MadeIs DEF OwnEnds
<1> QED
  BY <1>3, <1>4, <1>7, <1>8, OwnStepI

LEMMA GetRefusedI ==
  ASSUME IInv, NEW p \in Procs, obj[p].st = "made", NEW opt \in use.opts, GetRefused(p, opt)
  PROVE  IInv' /\ KeysLive
<1>1. CASE opt.assert
  BY <1>1, EndedI DEF GetRefused
<1>2. CASE ~opt.assert
  <2> DEFINE e == [obj[p] EXCEPT !.st = "failed", !.id = NoId]
  <2>1. /\ e \in Obj /\ e.st = "failed" /\ e.id = NoId /\ e.at = obj[p].at /\ e.q = obj[p].q
    BY MadeIs DEF Obj, NoId
  <2>2. obj' = [obj EXCEPT ![p] = e] /\ UNCHANGED <<segs, queues, qkey, made, qmade, exits, use>>
    BY <1>2 DEF GetRefused, FailedId
  <2> HIDE DEF e
  <2>3. obj'[p] = e
    BY <2>2 DEF IInv, AnyUse, TypeOK
  <2>4. Stage(p)' /\ NamedIn(p)' /\ ~Names1st(p)'
    BY <2>1, <2>3, MadeIs DEF Stage, Holds, NamedIn, Names1st
  <2>5. OrderlyUse => HoldsIn(p)' /\ QueueIn(p)'
    BY <2>1, <2>3, MadeIs DEF HoldsIn, Holds, QueueIn
  <2>6. OwnEnds(p, e)
    <3>1. NoId \notin DOMAIN segs
      BY DEF IInv, AnyUse, TypeOK, NoId
    <3>2. Owns(p)' /\ ~Leaving(p)' /\ ~Holds(p)'
      BY <2>1, <2>2, <2>3, <3>1 DEF Owns, Leaving, Holds
    <3> QED
      BY <2>4, <2>5, <3>2, MadeIs DEF OwnEnds
  <2>7. KeysLive
    BY <2>2 DEF KeysLive
  <2> QED
    BY <2>1, <2>2, <2>5, <2>6, <2>7, OwnStepI
<1> QED
  BY <1>1, <1>2

(* shmget made a segment under the key k. *)
LEMMA CreatedI ==
  ASSUME IInv, NEW p \in Procs, obj[p].st = "made", NEW opt \in use.opts, NEW k \in Nat,
         Holding(k) = {}, Created(p, k), Got(p, opt, k, made, FALSE), OrderlyUse => k = obj[p].key,
         InTurn(p)
  PROVE  IInv' /\ KeysLive
<1> DEFINE e == [obj[p] EXCEPT !.st = "attach", !.key = k, !.id = made, !.opt = opt, !.check = FALSE]
           g == [key |-> k, name |-> "", frames |-> 0, maker |-> p]
<1>1. /\ opt \in [assert: BOOLEAN, locks: BOOLEAN, retry: BOOLEAN, reuse: BOOLEAN, name: Names]
      /\ opt.name # ""
  BY OptIs DEF IInv, AnyUse
<1>2. /\ made \in Nat /\ DOMAIN segs \subseteq 0..(made - 1) /\ made \notin DOMAIN segs
      /\ obj \in [Procs -> Obj] /\ segs \in [DOMAIN segs -> Seg]
      /\ made \notin 0..(made - 1) /\ made \in 0..made
  BY DEF IInv, AnyUse, TypeOK
<1>3. /\ e \in Obj /\ e.st = "attach" /\ e.key = k /\ e.asked = obj[p].asked /\ e.id = made
      /\ e.at = obj[p].at /\ e.q = obj[p].q /\ e.opt = opt /\ e.check = FALSE /\ e.ro = obj[p].ro
  <2>1. obj[p] \in Obj /\ made \in Int
    BY <1>2, MadeIs
  <2> QED
    BY <1>1, <2>1 DEF Obj
<1>4. g \in Seg /\ g.key = k /\ g.name = "" /\ g.maker = p
  BY DEF Seg, Names
<1>5. obj' = [obj EXCEPT ![p] = e]
  BY DEF Got
<1>6. segs' = Added(segs, made, g) /\ made' = made + 1 /\ UNCHANGED <<queues, qkey, qmade, exits, use>>
  BY DEF Created
<1> HIDE DEF e, g
<1>7. /\ \A r \in Procs : obj'[r] = IF r = p THEN e ELSE obj[r]
      /\ obj' \in [Procs -> Obj]
  BY <1>2, <1>3, <1>5
<1>8. /\ DOMAIN segs' = DOMAIN segs \cup {made} /\ segs' \in [DOMAIN segs' -> Seg]
      /\ segs'[made] = g /\ \A t \in DOMAIN segs : segs'[t] = segs[t]
  BY <1>2, <1>4, <1>6 DEF Added
<1>9. made' \in Nat /\ 0..(made' - 1) = 0..made /\ DOMAIN segs' \subseteq 0..(made' - 1)
  BY <1>2, <1>6, <1>8
<1>10. TypeOK'
  BY <1>6, <1>7, <1>8, <1>9 DEF IInv, AnyUse, TypeOK
<1>11. KeysDiffer'
  <2>1. \A t \in DOMAIN segs : segs'[t].key = segs[t].key /\ segs[t].key # k
    BY <1>8 DEF Holding
  <2>2. segs'[made].key = k
    BY <1>4, <1>8
  <2> QED
    BY <1>8, <2>1, <2>2 DEF IInv, AnyUse, KeysDiffer
<1>12. Stages'
  <2>1. Stage(p)'
    <3>1. obj'[p] = e /\ made \in 0..(made' - 1)
      BY <1>2, <1>7, <1>9
    <3> QED
      BY <1>1, <1>3, <3>1, MadeIs DEF Stage, Holds
  <2>2. ASSUME NEW r \in Procs, r # p PROVE Stage(r)'
    <3>1. Stage(r) /\ obj'[r] = obj[r]
      BY <1>7, <2>2 DEF IInv, AnyUse, Stages
    <3>2. \A i : i \in 0..(made - 1) => i \in 0..(made' - 1)
      BY <1>2, <1>9
    <3> QED
      BY <1>8, <3>1, <3>2 DEF Stage, Holds
  <2> QED
    BY <2>1, <2>2 DEF Stages
<1>13. Named'
  <2>1. NamedIn(p)' /\ (Names1st(p)' => obj'[p].id = made)
    BY <1>3, <1>4, <1>7, <1>8 DEF NamedIn, Names1st
  <2>2. ASSUME NEW r \in Procs, r # p
        PROVE  /\ NamedIn(r)' /\ Names1st(r)' = Names1st(r) /\ obj'[r].id = obj[r].id
               /\ Names1st(r) => obj[r].id # made
    <3>1. NamedIn(r) /\ obj'[r] = obj[r]
      BY <1>7, <2>2 DEF IInv, AnyUse, Named
    <3>2. Holds(r) => obj[r].id # made
      <4>1. Stage(r) /\ made \notin 0..(made - 1)
        BY <1>2, Attached
      <4> QED
        BY <4>1 DEF Stage
    <3>3. obj[r].st \in {"setup", "up"} => obj[r].at \in DOMAIN segs
      BY Attached
    <3> QED
      BY <1>8, <3>1, <3>2, <3>3 DEF NamedIn, Names1st, Holds
  <2> QED
    BY <2>1, <2>2 DEF IInv, AnyUse, Named
<1>14. MakersHold'
  <2> SUFFICES ASSUME NEW t \in DOMAIN segs', segs'[t].maker # "nobody"
               PROVE  /\ obj'[segs'[t].maker].st \notin {"none", "made"}
                      /\ obj'[segs'[t].maker].id = t
    BY DEF MakersHold, Begun
  <2>1. CASE t = made
    BY <1>3, <1>4, <1>7, <1>8, <2>1 DEF Begun
  <2>2. CASE t # made
    <3>1. t \in DOMAIN segs /\ segs'[t] = segs[t]
      BY <1>8, <2>2
    <3>2. PICK m \in Procs : m = segs[t].maker
      BY <1>2, <3>1 DEF Seg
    <3>3. Begun(m) /\ obj[m].id = t
      BY <3>1, <3>2 DEF IInv, AnyUse, MakersHold
    <3>4. m # p
      BY <3>3, MadeIs
    <3> QED
      BY <1>7, <3>1, <3>2, <3>3, <3>4 DEF Begun
  <2> QED
    BY <2>1, <2>2
<1>15. ASSUME OwnUse PROVE Owned'
  <2>1. Owns(p)'
    <3>1. obj'[p] = e /\ made \in 0..(made' - 1) /\ segs'[made].maker = p
      BY <1>2, <1>4, <1>7, <1>8, <1>9
    <3> QED
      BY <1>3, <3>1 DEF Owns
  <2>2. ASSUME NEW r \in Procs, r # p PROVE Owns(r)'
    <3>1. Owns(r) /\ obj'[r] = obj[r]
      BY <1>7, <1>15, <2>2 DEF IInv, Owned
    <3>2. \A i : i \in 0..(made - 1) => i \in 0..(made' - 1) /\ i # made
      BY <1>2, <1>9
    <3>3. made # NoId
      BY <1>2 DEF NoId
    <3> QED
      BY <1>8, <3>1, <3>2, <3>3 DEF Owns, Begun
  <2> QED
    BY <2>1, <2>2 DEF Owned
<1>16. ASSUME OrderlyUse PROVE Ordered'
  <2>1. HoldsOn /\ HasQueue /\ AllApart /\ exits \subseteq {"get"}
    BY <1>16 DEF IInv, Ordered
  <2>2. /\ k = obj[p].key /\ k = obj[p].asked /\ k # NoKey /\ obj[p].q = NoId
        /\ ~Holds(p)
    BY <1>16, MadeIs
  <2>3. HoldsOn'
    <3>1. HoldsIn(p)'
      <4>1. obj'[p] = e /\ made \in DOMAIN segs' /\ segs'[made].key = k
        BY <1>4, <1>7, <1>8
      <4> QED
        BY <1>3, <2>2, <4>1 DEF HoldsIn, Holds
    <3>2. ASSUME NEW r \in Procs, r # p PROVE HoldsIn(r)'
      BY <1>7, <1>8, <2>1, <3>2 DEF HoldsOn, HoldsIn, Holds
    <3> QED
      BY <1>4, <1>8, <2>1, <2>2, <3>1, <3>2 DEF HoldsOn
  <2>4. HasQueue'
    <3>1. ASSUME NEW r \in Procs PROVE QueueIn(r)'
      BY <1>3, <1>6, <1>7, <2>1, <2>2 DEF HasQueue, QueueIn, Leaving
    <3> QED
      BY <1>6, <2>1, <3>1 DEF HasQueue
  <2>5. ASSUME NEW r \in Procs PROVE Apart(r)'
    <3>1. CASE r = p
      BY <1>3, <1>7, <3>1 DEF Apart, Leaving
    <3>2. CASE r # p
      <4>1. obj'[r] = obj[r] /\ Leaving(r)' = Leaving(r) /\ Has(r)' = Has(r)
        BY <1>7, <3>2 DEF Leaving, Has, Holds
      <4>2. obj'[p].key = obj[p].key
        BY <1>3, <1>7, <2>2
      <4>3. Leaving(r) => obj[r].key # obj[p].key
        BY <1>16 DEF InTurn, OrderlyUse, Leaving
      <4>4. ASSUME NEW x \in Procs \ {r}, x # p PROVE Has(x)' = Has(x) /\ obj'[x] = obj[x]
        BY <1>7, <4>4 DEF Leaving, Has, Holds
      <4> QED
        BY <2>1, <3>2, <4>1, <4>2, <4>3, <4>4 DEF AllApart, Apart
    <3> QED
      BY <3>1, <3>2
  <2> QED
    BY <1>6, <2>1, <2>3, <2>4, <2>5 DEF Ordered, AllApart
<1>17. OrderlyUse' = OrderlyUse /\ OwnUse' = OwnUse
  BY <1>6 DEF OrderlyUse, OwnUse
<1>18. KeysLive
  BY <1>8 DEF KeysLive
<1> QED
  BY <1>10, <1>11, <1>12, <1>13, <1>14, <1>15, <1>16, <1>17, <1>18 DEF IInv, AnyUse

LEMMA InitGetI ==
  ASSUME IInv, NEW p \in Procs, InitGet(p)
  PROVE  IInv' /\ KeysLive
<1>1. obj[p].st = "made" /\ obj[p].key \in Nat /\ InTurn(p)
  BY Attached DEF InitGet, Obj
<1>2. PICK opt \in use.opts :
        \/ GetNew(p, opt) \/ GetShared(p, opt) \/ GetReused(p, opt)
        \/ GetRefused(p, opt) \/ GetRetried(p, opt)
  BY DEF InitGet
<1>3. /\ OrderlyUse => ~opt.retry /\ ~opt.reuse
      /\ OwnUse => ~opt.reuse
  BY DEF OrderlyUse, OwnUse
<1>4. UNCHANGED segs => KeysLive
  BY DEF KeysLive
<1>5. CASE GetNew(p, opt)
  BY <1>1, <1>5, CreatedI DEF GetNew
<1>6. CASE GetShared(p, opt)
  BY <1>1, <1>4, <1>6, FoundI DEF GetShared
<1>7. CASE GetReused(p, opt)
  BY <1>1, <1>3, <1>4, <1>7, FoundI DEF GetReused, CheckName
<1>8. CASE GetRefused(p, opt)
  BY <1>1, <1>8, GetRefusedI
<1>9. CASE GetRetried(p, opt)
  <2>1. NextFree(obj[p].key) \in Nat /\ Holding(NextFree(obj[p].key)) = {}
    BY <1>1, RetryEnds DEF IInv, AnyUse
  <2> QED
    BY <1>1, <1>3, <1>9, <2>1, CreatedI DEF GetRetried
<1> QED
  BY <1>2, <1>5, <1>6, <1>7, <1>8, <1>9

LEMMA AttachFailsI ==
  ASSUME IInv, NEW p \in Procs, AttachFails(p)
  PROVE  IInv' /\ KeysLive
<1>1. ~OrderlyUse
  BY DEF AttachFails, IInv, Ordered, HoldsOn, HoldsIn, Holds
<1>2. CASE obj[p].opt.assert
  BY <1>1, <1>2, EndedI DEF AttachFails
<1>3. CASE ~obj[p].opt.assert
  <2> DEFINE e == [obj[p] EXCEPT !.st = "failed", !.at = BadPtr]
  <2>1. e \in Obj /\ e.st = "failed" /\ e.at = BadPtr /\ e.id = obj[p].id /\ e.ro = obj[p].ro
    <3>1. obj[p] \in Obj /\ BadPtr \in Int
      BY Attached DEF BadPtr
    <3> QED
      BY <3>1 DEF Obj
  <2>2. obj' = [obj EXCEPT ![p] = e] /\ UNCHANGED <<segs, queues, qkey, made, qmade, exits, use>>
    BY <1>3 DEF AttachFails
  <2> HIDE DEF e
  <2>3. obj'[p] = e
    BY <2>2 DEF IInv, AnyUse, TypeOK
  <2>4. Stage(p)' /\ NamedIn(p)' /\ ~Names1st(p)'
    BY <2>1, <2>3 DEF Stage, Holds, NamedIn, Names1st
  <2>5. KeysLive
    BY <2>2 DEF KeysLive
  <2>6. OwnEnds(p, e)
    <3>1. Begun(p) /\ Begun(p)'
      BY <2>1, <2>3 DEF AttachFails, Begun
    <3>2. OwnUse => Owns(p)'
      BY <2>1, <2>2, <2>3, <3>1 DEF IInv, Owned, Owns
    <3> QED
      BY <1>1, <2>1, <2>4, <3>1, <3>2 DEF OwnEnds
  <2> QED
    BY <1>1, <2>1, <2>2, <2>5, <2>6, OwnStepI
<1> QED
  BY <1>2, <1>3

LEMMA AttachI ==
  ASSUME IInv, NEW p \in Procs, Attach(p)
  PROVE  IInv' /\ KeysLive
<1> DEFINE o == obj[p]
           st == IF o.check /\ segs[o.id].name # o.opt.name THEN "failed" ELSE "setup"
           e == [o EXCEPT !.at = o.id, !.st = st]
<1>1. /\ o \in Obj /\ o.st = "attach" /\ o.id \in DOMAIN segs /\ Stage(p) /\ o.at = NoId
      /\ segs \in [DOMAIN segs -> Seg]
  BY Attached DEF Attach, IInv, AnyUse, TypeOK, Stage
<1>2. st \in {"failed", "setup"}
  OBVIOUS
<1> HIDE DEF st
<1>3. /\ e \in Obj /\ e.st = st /\ e.at = o.id /\ e.id = o.id /\ e.opt = o.opt /\ e.ro = o.ro
      /\ e.key = o.key /\ e.asked = o.asked /\ e.check = o.check /\ e.q = o.q
  BY <1>1, <1>2 DEF Obj
<1>4. /\ obj' = [obj EXCEPT ![p] = e]
      /\ segs' = IF o.check \/ o.ro THEN segs ELSE [segs EXCEPT ![o.id].name = o.opt.name]
      /\ UNCHANGED <<queues, qkey, made, qmade, exits, use>>
  BY DEF Attach, st
<1> HIDE DEF e
<1>5. obj'[p] = e
  BY <1>4 DEF IInv, AnyUse, TypeOK
<1>6. /\ SegsStay(p)
      /\ ~o.check /\ ~o.ro => segs'[o.id].name = o.opt.name
  <2>1. CASE o.check \/ o.ro
    BY <1>1, <1>4, <2>1 DEF SegsStay
  <2>2. CASE ~(o.check \/ o.ro)
    <3> DEFINE g == [segs[o.id] EXCEPT !.name = o.opt.name]
    <3>1. segs[o.id] \in Seg /\ o.opt.name \in Names
      BY <1>1 DEF Obj
    <3>2. g \in Seg /\ g.name = o.opt.name /\ g.key = segs[o.id].key /\ g.maker = segs[o.id].maker
      BY <3>1 DEF Seg
    <3>3. segs' = [segs EXCEPT ![o.id] = g]
      BY <1>4, <2>2
    <3> HIDE DEF g
    <3> QED
      BY <1>1, <2>2, <3>2, <3>3 DEF SegsStay, Names1st
  <2> QED
    BY <2>1, <2>2
<1>7. KeysLive
  BY <1>6 DEF SegsStay, KeysLive
<1>8. Stage(p)' /\ ~Names1st(p)'
  <2>1. o.id \in DOMAIN segs' /\ made' = made
    BY <1>1, <1>4, <1>6 DEF SegsStay
  <2> QED
    BY <1>1, <1>2, <1>3, <1>5, <2>1 DEF Stage, Holds, Names1st
<1>9. NamedIn(p)'
  <2>1. o.check => segs' = segs
    BY <1>4
  <2>2. o.check /\ st = "setup" => segs[o.id].name = o.opt.name
    BY DEF st
  <2> QED
    BY <1>2, <1>3, <1>5, <1>6, <2>1, <2>2 DEF NamedIn, Names1st
<1>10. ASSUME OrderlyUse PROVE HoldsIn(p)' /\ QueueIn(p)'
  <2>1. HoldsIn(p) /\ QueueIn(p)
    BY <1>10 DEF IInv, Ordered, HoldsOn, HasQueue
  <2>2. st = "setup"
    BY <1>1, <2>1 DEF HoldsIn, Holds, st
  <2>3. o.id \in DOMAIN segs' /\ segs'[o.id].key = segs[o.id].key
    BY <1>1, <1>6 DEF SegsStay
  <2> QED
    BY <1>1, <1>3, <1>4, <1>5, <2>1, <2>2, <2>3 DEF HoldsIn, Holds, QueueIn, Leaving
<1>11. OwnEnds(p, e)
  <2>1. Begun(p) /\ Begun(p)' /\ Holds(p) /\ ~Leaving(p)'
    BY <1>1, <1>2, <1>3, <1>5 DEF Begun, Holds, Leaving
  <2>2. OwnUse => Owns(p)'
    BY <1>3, <1>4, <1>5, <1>6, <2>1 DEF IInv, Owned, Owns, SegsStay
  <2> QED
    BY <1>3, <1>8, <1>9, <1>10, <2>1, <2>2 DEF OwnEnds
<1> QED
  BY <1>3, <1>4, <1>6, <1>7, <1>10, <1>11, OwnStepI

(* The counters start at zero. *)
LEMMA Started ==
  ASSUME IInv, NEW p \in Procs, NEW s \in DOMAIN segs, NEW n \in {0, 1},
         segs' = [segs EXCEPT ![s].frames = n]
  PROVE  SegsStay(p) /\ KeysLive /\ DOMAIN segs' = DOMAIN segs
         /\ \A t \in DOMAIN segs : segs'[t].name = segs[t].name
<1> DEFINE g == [segs[s] EXCEPT !.frames = n]
<1>1. segs \in [DOMAIN segs -> Seg]
  BY DEF IInv, AnyUse, TypeOK
<1>2. g \in Seg /\ g.name = segs[s].name /\ g.key = segs[s].key /\ g.maker = segs[s].maker
  BY <1>1 DEF Seg
<1>3. segs' = [segs EXCEPT ![s] = g]
  OBVIOUS
<1> HIDE DEF g
<1> QED
  BY <1>1, <1>2, <1>3 DEF SegsStay, KeysLive

LEMMA QueueHolds == QueueSize \in Nat /\ 0 \in 0..QueueSize
<1>1. QueueSize \in Nat
  BY ShMemAssumption
<1> QED
  BY <1>1

LEMMA SetupI ==
  ASSUME IInv, NEW p \in Procs, Setup(p)
  PROVE  IInv' /\ KeysLive
<1> DEFINE o == obj[p]
<1>1. /\ o \in Obj /\ o.st = "setup" /\ o.at = o.id /\ o.at \in DOMAIN segs /\ Stage(p) /\ NamedIn(p)
      /\ obj \in [Procs -> Obj]
  BY Attached DEF Setup, IInv, AnyUse, TypeOK, Named
<1>2. /\ SegsStay(p) /\ KeysLive /\ DOMAIN segs' = DOMAIN segs
      /\ segs'[o.at].name = segs[o.at].name /\ segs'[o.at].key = segs[o.at].key
  <2>1. segs' = [segs EXCEPT ![o.at].frames = 0]
    BY DEF Setup, Initialized
  <2> QED
    BY <1>1, <2>1, Started DEF SegsStay
<1>3. UNCHANGED <<made, exits, use>>
  BY DEF Setup
<1>4. OrderlyUse => HoldsIn(p) /\ QueueIn(p)
  BY DEF IInv, Ordered, HoldsOn, HasQueue
<1>5. ASSUME NEW q \in Int, obj' = [obj EXCEPT ![p] = [@ EXCEPT !.st = "up", !.q = q]]
      PROVE  \E e \in Obj :
               /\ obj' = [obj EXCEPT ![p] = e]
               /\ e.q = q /\ e.id = o.id /\ e.key = o.key /\ e.opt = o.opt
               /\ OwnEnds(p, e) /\ obj'[p] = e /\ e.st = "up"
  <2> DEFINE e == [o EXCEPT !.st = "up", !.q = q]
  <2>1. /\ e \in Obj /\ e.st = "up" /\ e.at = o.at /\ e.id = o.id /\ e.opt = o.opt /\ e.ro = o.ro
        /\ e.key = o.key /\ e.asked = o.asked /\ e.check = o.check /\ e.q = q
    BY <1>1 DEF Obj
  <2>2. obj' = [obj EXCEPT ![p] = e]
    BY <1>5
  <2> HIDE DEF e
  <2>3. obj'[p] = e
    BY <1>1, <2>2
  <2>4. Stage(p)' /\ ~Names1st(p)' /\ Holds(p)'
    BY <1>1, <1>2, <1>3, <2>1, <2>3 DEF Stage, Holds, Names1st
  <2>5. NamedIn(p)'
    BY <1>1, <1>2, <2>1, <2>3 DEF NamedIn, Names1st
  <2>6. OrderlyUse => HoldsIn(p)'
    BY <1>1, <1>2, <1>4, <2>1, <2>3 DEF HoldsIn, Holds
  <2>7. OwnEnds(p, e)
    <3>1. Begun(p) /\ Begun(p)' /\ Holds(p) /\ ~Leaving(p)'
      BY <1>1, <2>1, <2>3 DEF Begun, Holds, Leaving
    <3>2. OwnUse => Owns(p)'
      BY <1>2, <1>3, <2>1, <2>3, <3>1 DEF IInv, Owned, Owns, SegsStay
    <3> QED
      BY <2>1, <2>4, <2>5, <2>6, <3>1, <3>2 DEF OwnEnds
  <2> QED
    BY <2>1, <2>2, <2>3, <2>7
<1>6. CASE ~o.opt.locks /\ obj' = [obj EXCEPT ![p].st = "up"] /\ UNCHANGED <<queues, qkey, qmade>>
  <2>1. o.q \in Int /\ [o EXCEPT !.st = "up"] = [o EXCEPT !.st = "up", !.q = o.q]
    BY <1>1 DEF Obj
  <2>2. PICK e \in Obj :
               /\ obj' = [obj EXCEPT ![p] = e]
               /\ e.q = o.q /\ e.id = o.id /\ e.key = o.key /\ e.opt = o.opt
               /\ OwnEnds(p, e) /\ obj'[p] = e /\ e.st = "up"
    BY <1>5, <1>6, <2>1
  <2>3. OrderlyUse => QueueIn(p)'
    BY <1>1, <1>4, <1>6, <2>2 DEF QueueIn, Leaving
  <2> QED
    BY <1>2, <1>3, <1>6, <2>2, <2>3, OwnStepI
<1>7. CASE /\ o.opt.locks
           /\ \E q \in QueueOf(o.key) : obj' = [obj EXCEPT ![p] = [@ EXCEPT !.st = "up", !.q = q]]
           /\ UNCHANGED <<queues, qkey, qmade>>
  <2>1. PICK q \in QueueOf(o.key) : obj' = [obj EXCEPT ![p] = [@ EXCEPT !.st = "up", !.q = q]]
    BY <1>7
  <2>2. q \in DOMAIN queues /\ qkey[q] = 2 * o.key /\ q \in Int
    BY DEF QueueOf, IInv, AnyUse, TypeOK
  <2>3. PICK e \in Obj :
               /\ obj' = [obj EXCEPT ![p] = e]
               /\ e.q = q /\ e.id = o.id /\ e.key = o.key /\ e.opt = o.opt
               /\ OwnEnds(p, e) /\ obj'[p] = e /\ e.st = "up"
    BY <1>5, <2>1, <2>2
  <2>4. QueueIn(p)'
    BY <1>7, <2>2, <2>3 DEF QueueIn
  <2> QED
    BY <1>2, <1>3, <1>7, <2>3, <2>4, OwnStepI
<1>8. CASE /\ o.opt.locks /\ QueueOf(o.key) = {}
           /\ obj' = [obj EXCEPT ![p] = [@ EXCEPT !.st = "up", !.q = qmade]]
           /\ queues' = Added(queues, qmade, 0)
           /\ qkey' = Added(qkey, qmade, 2 * o.key)
           /\ qmade' = qmade + 1
  <2>1. /\ qmade \in Nat /\ DOMAIN queues \subseteq 0..(qmade - 1) /\ qmade \notin DOMAIN queues
        /\ 0 \in 0..QueueSize /\ qmade \in Int
        /\ queues \in [DOMAIN queues -> 0..QueueSize] /\ qkey \in [DOMAIN queues -> Nat]
    BY QueueHolds DEF IInv, AnyUse, TypeOK
  <2>2. 2 * o.key \in Nat
    BY <1>1 DEF Obj
  <2>3. PICK e \in Obj :
               /\ obj' = [obj EXCEPT ![p] = e]
               /\ e.q = qmade /\ e.id = o.id /\ e.key = o.key /\ e.opt = o.opt
               /\ OwnEnds(p, e) /\ obj'[p] = e /\ e.st = "up"
    BY <1>5, <1>8, <2>1
  <2>4. /\ DOMAIN queues' = DOMAIN queues \cup {qmade}
        /\ queues' \in [DOMAIN queues' -> 0..QueueSize]
        /\ qkey' \in [DOMAIN queues' -> Nat]
        /\ qkey'[qmade] = 2 * o.key /\ \A i \in DOMAIN queues : qkey'[i] = qkey[i]
    BY <1>8, <2>1, <2>2 DEF Added
  <2>5. qmade' \in Nat /\ DOMAIN queues' \subseteq 0..(qmade' - 1)
    BY <1>8, <2>1, <2>4
  <2>6. /\ obj' \in [Procs -> Obj] /\ KeysDiffer' /\ Stages' /\ Named' /\ MakersHold'
        /\ OwnUse => Owned'
        /\ OrderlyUse => HoldsOn' /\ AllApart'
    BY <1>2, <1>3, <2>3, OwnStep
  <2>7. TypeOK'
    BY <1>2, <1>3, <2>4, <2>5, <2>6 DEF IInv, AnyUse, TypeOK, SegsStay
  <2>8. ASSUME OrderlyUse PROVE HasQueue' /\ exits' \subseteq {"get"}
    <3>1. HasQueue /\ exits \subseteq {"get"}
      BY <2>8 DEF IInv, Ordered
    <3>2. QueueIn(p)'
      BY <1>8, <2>3, <2>4 DEF QueueIn
    <3>3. ASSUME NEW r \in Procs, r # p PROVE QueueIn(r)'
      <4>1. obj'[r] = obj[r] /\ QueueIn(r)
        BY <1>1, <2>3, <3>1, <3>3 DEF HasQueue
      <4> QED
        BY <2>4, <4>1 DEF QueueIn, Leaving
    <3>4. \A i \in DOMAIN queues : qkey[i] # 2 * o.key
      BY <1>8 DEF QueueOf
    <3>5. \A i, j \in DOMAIN queues' : qkey'[i] = qkey'[j] => i = j
      BY <2>4, <3>1, <3>4 DEF HasQueue
    <3> QED
      BY <1>3, <3>1, <3>2, <3>3, <3>5 DEF HasQueue
  <2>9. OrderlyUse' = OrderlyUse /\ OwnUse' = OwnUse
    BY <1>3 DEF OrderlyUse, OwnUse
  <2> QED
    BY <1>2, <2>6, <2>7, <2>8, <2>9 DEF IInv, AnyUse, Ordered
<1> QED
  BY <1>6, <1>7, <1>8 DEF Setup

LEMMA FrameI ==
  ASSUME IInv, NEW p \in Procs, Frame(p)
  PROVE  IInv' /\ KeysLive
<1>1. /\ obj[p] \in Obj /\ obj[p].at \in DOMAIN segs /\ Stage(p) /\ NamedIn(p) /\ ~Names1st(p)
      /\ obj \in [Procs -> Obj]
  BY Attached DEF Frame, IInv, AnyUse, TypeOK, Named, Names1st
<1>2. UNCHANGED <<obj, queues, qkey, made, qmade, exits, use>>
  BY DEF Frame
<1>3. /\ SegsStay(p) /\ KeysLive /\ DOMAIN segs' = DOMAIN segs
      /\ \A t \in DOMAIN segs : segs'[t].name = segs[t].name
  <2>1. segs' = [segs EXCEPT ![obj[p].at].frames = 1]
    BY DEF Frame
  <2> QED
    BY <1>1, <2>1, Started
<1>4. obj' = [obj EXCEPT ![p] = obj[p]]
  BY <1>1, <1>2
<1>5. Stage(p)' /\ NamedIn(p)' /\ ~Names1st(p)'
  BY <1>1, <1>2, <1>3 DEF Stage, Holds, NamedIn, Names1st
<1>6. OrderlyUse => HoldsIn(p)' /\ QueueIn(p)'
  <2>1. OrderlyUse => HoldsIn(p) /\ QueueIn(p)
    BY DEF IInv, Ordered, HoldsOn, HasQueue
  <2> QED
    BY <1>2, <1>3, <2>1 DEF HoldsIn, Holds, QueueIn, Leaving, SegsStay
<1>7. OwnEnds(p, obj[p])
  <2>1. Begun(p) /\ Begun(p)' /\ Holds(p) /\ ~Leaving(p)'
    BY <1>2 DEF Frame, Begun, Holds, Leaving
  <2>2. OwnUse => Owns(p)'
    BY <1>2, <1>3, <2>1 DEF IInv, Owned, Owns, Begun, SegsStay
  <2> QED
    BY <1>5, <1>6, <2>1, <2>2 DEF OwnEnds
<1> QED
  BY <1>1, <1>2, <1>3, <1>4, <1>6, <1>7, OwnStepI

(* Messages go in and out of a queue that exists. *)
LEMMA MessageI ==
  ASSUME IInv, NEW q \in DOMAIN queues, NEW n \in 0..QueueSize,
         queues' = [queues EXCEPT ![q] = n], UNCHANGED <<obj, segs, qkey, made, qmade, exits, use>>
  PROVE  IInv' /\ KeysLive
<1>1. queues' \in [DOMAIN queues -> 0..QueueSize] /\ DOMAIN queues' = DOMAIN queues
  BY DEF IInv, AnyUse, TypeOK
<1>2. TypeOK'
  BY <1>1 DEF IInv, AnyUse, TypeOK
<1>3. KeysDiffer' /\ Stages' /\ Named' /\ MakersHold'
  BY DEF IInv, AnyUse, KeysDiffer, Stages, Stage, Holds, Named, NamedIn, Names1st, MakersHold, Begun
<1>4. OrderlyUse => Ordered'
  BY <1>1 DEF IInv, Ordered, HoldsOn, HoldsIn, Holds, HasQueue, QueueIn, AllApart, Apart, Has, Leaving
<1>5. OwnUse => Owned'
  BY DEF IInv, Owned, Owns, Begun
<1>6. OrderlyUse' = OrderlyUse /\ OwnUse' = OwnUse
  BY DEF OrderlyUse, OwnUse
<1> QED
  BY <1>2, <1>3, <1>4, <1>5, <1>6 DEF IInv, AnyUse, KeysLive

LEMMA UnLockI ==
  ASSUME IInv, NEW p \in Procs, UnLock(p)
  PROVE  IInv' /\ KeysLive
<1>1. queues[obj[p].q] \in 0..QueueSize /\ QueueSize \in Nat
  BY QueueHolds DEF UnLock, IInv, AnyUse, TypeOK
<1>2. queues[obj[p].q] + 1 \in 0..QueueSize
  BY <1>1 DEF UnLock
<1> QED
  BY <1>2, MessageI DEF UnLock, SendMsg

LEMMA WaitI ==
  ASSUME IInv, NEW p \in Procs, Wait(p)
  PROVE  IInv' /\ KeysLive
<1>1. queues[obj[p].q] \in 0..QueueSize /\ QueueSize \in Nat
  BY QueueHolds DEF Wait, IInv, AnyUse, TypeOK
<1>2. queues[obj[p].q] - 1 \in 0..QueueSize
  BY <1>1 DEF Wait
<1> QED
  BY <1>2, MessageI DEF Wait, GetMsg

LEMMA ClearQueueI ==
  ASSUME IInv, NEW p \in Procs, ClearQueue(p)
  PROVE  IInv' /\ KeysLive
<1>1. 0 \in 0..QueueSize
  BY QueueHolds
<1> QED
  BY <1>1, MessageI DEF ClearQueue, GetMsgNoWait

-----------------------------------------------------------------------------
(* Every step keeps the invariant, and takes segments away as it must. *)
LEMMA NextI ==
  ASSUME IInv, [Next]_vars
  PROVE  IInv' /\ (OwnUse => MakerRemoves)
<1>1. CASE UNCHANGED vars
  <2>1. IInv'
    <3>1. UNCHANGED <<obj, segs, queues, qkey, made, qmade, exits, use>>
      BY <1>1 DEF vars
    <3>2. TypeOK'
      BY <3>1 DEF IInv, AnyUse, TypeOK
    <3>3. KeysDiffer' /\ Stages' /\ Named' /\ MakersHold'
      BY <3>1 DEF IInv, AnyUse, KeysDiffer, Stages, Stage, Holds, Named, NamedIn, Names1st,
         MakersHold, Begun
    <3>4. OrderlyUse => Ordered'
      BY <3>1 DEF IInv, Ordered, HoldsOn, HoldsIn, Holds, HasQueue, QueueIn, AllApart, Apart, Has,
         Leaving
    <3>5. OwnUse => Owned'
      BY <3>1 DEF IInv, Owned, Owns, Begun
    <3>6. OrderlyUse' = OrderlyUse /\ OwnUse' = OwnUse
      BY <3>1 DEF OrderlyUse, OwnUse
    <3> QED
      BY <3>2, <3>3, <3>4, <3>5, <3>6 DEF IInv, AnyUse
  <2>2. MakerRemoves
    BY <1>1 DEF vars, MakerRemoves
  <2> QED
    BY <2>1, <2>2
<1>2. ASSUME NEW p \in Procs,
             \/ New(p) \/ InitGet(p) \/ AttachFails(p) \/ Attach(p) \/ Setup(p) \/ Frame(p)
             \/ UnLock(p) \/ Wait(p) \/ ClearQueue(p)
             \/ Detach(p) \/ Remove(p) \/ RemoveQueue(p) \/ Die(p)
      PROVE  IInv' /\ (KeysLive \/ (OwnUse => MakerRemoves))
  <2>1. CASE New(p)
    BY <2>1, NewI DEF New, KeysLive
  <2>2. CASE InitGet(p)
    BY <2>2, InitGetI
  <2>3. CASE AttachFails(p)
    BY <2>3, AttachFailsI
  <2>4. CASE Attach(p)
    BY <2>4, AttachI
  <2>5. CASE Setup(p)
    BY <2>5, SetupI
  <2>6. CASE Frame(p)
    BY <2>6, FrameI
  <2>7. CASE UnLock(p)
    BY <2>7, UnLockI
  <2>8. CASE Wait(p)
    BY <2>8, WaitI
  <2>9. CASE ClearQueue(p)
    BY <2>9, ClearQueueI
  <2>10. CASE Detach(p)
    BY <2>10, DetachI
  <2>11. CASE Remove(p)
    BY <2>11, RemoveI
  <2>12. CASE RemoveQueue(p)
    BY <2>12, RemoveQueueI
  <2>13. CASE Die(p)
    BY <2>13, DieI
  <2> QED
    BY <1>2, <2>1, <2>2, <2>3, <2>4, <2>5, <2>6, <2>7, <2>8, <2>9, <2>10, <2>11, <2>12, <2>13
<1> QED
  BY <1>1, <1>2, CleanI, LiveRemoves DEF Next

(* The invariant, of every use, also one in which destructors overlap with  *)
(* each other and with Init: an attached object's memory exists, a segment  *)
(* is named by its maker only, which still has its number; of a use that    *)
(* takes nothing over: what a writer would remove it has made; and of the   *)
(* orderly use: an object holds on to the one segment and the one queue of  *)
(* its key, and nobody has them while a destructor is between its calls.    *)
THEOREM Invariant == Spec => []IInv
<1>1. Init => IInv
  BY InitI
<1>2. IInv /\ [Next]_vars => IInv'
  BY NextI
<1> QED
  BY <1>1, <1>2, PTL DEF Spec

(* Objects of one key in the orderly use meet in one segment and one queue  *)
(* (CMyShMem::Init), and in any use a writer keeps out of the segments of   *)
(* other modules.                                                           *)
THEOREM Meeting == Spec => []Shared
<1>1. ASSUME IInv PROVE Shared
  <2>1. ASSUME OrderlyUse, NEW p \in Procs, NEW r \in Procs,
               obj[p].st = "up", obj[r].st = "up", obj[p].asked = obj[r].asked
        PROVE  obj[p].at = obj[r].at
    <3>1. HoldsIn(p) /\ HoldsIn(r) /\ HoldsOn
      BY <1>1, <2>1 DEF IInv, Ordered, HoldsOn
    <3>2. obj[p].id = obj[r].id
      BY <1>1, <2>1, <3>1 DEF HoldsIn, HoldsOn, Holds, IInv, AnyUse, KeysDiffer
    <3> QED
      BY <1>1, <2>1, <3>2, Attached
  <2>2. ASSUME OrderlyUse, NEW p \in Procs, NEW r \in Procs, obj[p].st = "up", obj[r].st = "up",
               obj[p].at = obj[r].at, obj[p].opt.locks, obj[r].opt.locks
        PROVE  obj[p].q = obj[r].q /\ obj[p].q \in DOMAIN queues
    <3>1. HoldsIn(p) /\ HoldsIn(r) /\ QueueIn(p) /\ QueueIn(r) /\ HasQueue
      BY <1>1, <2>2 DEF IInv, Ordered, HoldsOn, HasQueue
    <3>2. obj[p].id = obj[r].id
      BY <1>1, <2>2, Attached
    <3>3. obj[p].key = obj[r].key
      BY <2>2, <3>1, <3>2 DEF HoldsIn, Holds
    <3> QED
      BY <2>2, <3>1, <3>3 DEF QueueIn, HasQueue
  <2>3. WritersNamed
    BY <1>1 DEF IInv, AnyUse, Named, NamedIn, WritersNamed
  <2> QED
    BY <2>1, <2>2, <2>3 DEF Shared, OneSegment, OneQueue
<1> QED
  BY <1>1, Invariant, PTL

(* No destructor of the orderly use ends its process (~CMyShMem asserts     *)
(* that shmdt and shmctl succeed); only a refused shmget does.              *)
THEOREM Returning == Spec => []DestructorReturns
<1>1. IInv => DestructorReturns
  BY DEF IInv, Ordered, DestructorReturns
<1> QED
  BY <1>1, Invariant, PTL

(* However objects come and go, and whatever calls of their destructors     *)
(* come between those of others, a segment that has its key loses it in the *)
(* destructor of the object that made it, or when that is gone.             *)
THEOREM OnlyItsMaker == Spec => RemovedByMaker
<1>1. IInv /\ [Next]_vars => [OwnUse => MakerRemoves]_vars
  BY NextI
<1>2. [OwnUse => MakerRemoves]_vars =>
        [OwnUse => \A s \in DOMAIN segs :
           segs[s].key # NoKey /\ (IF s \in DOMAIN segs' THEN segs'[s].key = NoKey ELSE TRUE)
           => segs[s].maker = "nobody" \/ obj'[segs[s].maker].st = "removed"]_vars
  BY DEF MakerRemoves
<1> QED
  BY <1>1, <1>2, Invariant, PTL DEF Spec, RemovedByMaker
=============================================================================
