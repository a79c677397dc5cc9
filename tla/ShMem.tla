------------------------------- MODULE ShMem --------------------------------
(***************************************************************************)
(* CMyShMem and CMyMsgQueue (src/src/myshmem.cpp, mymsgqueue.cpp): several *)
(* processes share a System V segment, whose head holds counters and the   *)
(* name of the module it belongs to, and signal each other through a       *)
(* message queue.  The program uses one object in a process.               *)
(*                                                                         *)
(* Init is taken in the three steps in which it meets other processes:     *)
(* shmget, shmat with the check of the name, and the queue with the        *)
(* counters; and so is the destructor: shmdt, shmctl, msgctl.  A failing   *)
(* Assert ends the process without destructors; the kernel then detaches   *)
(* it and leaves segment and queue behind.                                 *)
(***************************************************************************)
EXTENDS Integers, FiniteSets

CONSTANTS
  Procs,        (* the processes *)
  Keys,         (* the keys objects are made with *)
  MaxIds,       (* bound: segments and queues ever made *)
  QueueSize,    (* messages a queue holds *)
  Uses          (* the ways in which callers use the objects *)

(* A way of use has the arguments Init is called with, a bound on the       *)
(* objects at a time, and the habits, by which callers go beyond the        *)
(* orderly use:                                                             *)
(* "no_init": an object is destroyed that was never initialised;            *)
(* "leave": an object is destroyed while others use its segment;            *)
(* "overlap": Init is called while a destructor of an object of the same    *)
(* key is running;                                                          *)
(* "clean": Clean is called for a segment that is in use.                   *)
(* A module has a name (the default is "NONAME"): with an empty one it      *)
(* would pass for the module of a segment that is not named yet.            *)
ASSUME ShMemAssumption ==
  /\ "nobody" \notin Procs
  /\ Keys \subseteq Nat \ {0}
  /\ \A u \in Uses :
       /\ u.opts \subseteq [assert: BOOLEAN, locks: BOOLEAN, retry: BOOLEAN,
                           reuse: BOOLEAN, name: STRING \ {""}]
       /\ u.most \in Nat
       /\ u.habits \subseteq {"no_init", "leave", "overlap", "clean"}
  /\ MaxIds \in Nat /\ QueueSize \in Nat

VARIABLES
  obj,     (* obj[p]: the object of process p *)
  segs,    (* the segments the kernel has, by their id *)
  queues,  (* the number of messages in each queue, by its id *)
  qkey,    (* the key of each queue *)
  made,    (* segments ever made; the first has id 0 *)
  qmade,   (* queues ever made *)
  exits,   (* the calls in which an Assert ended a process *)
  use      (* the way of use, the same for a whole behaviour *)

vars == <<obj, segs, queues, qkey, made, qmade, exits, use>>

NoId == -1      (* no segment, and the id of a failed shmget *)
BadPtr == -2    (* the result of a failed shmat *)
NoKey == 0      (* the key of a removed segment *)
NoOpt == [assert |-> FALSE, locks |-> FALSE, retry |-> FALSE, reuse |-> FALSE, name |-> ""]
Nobody == [st |-> "none", asked |-> NoKey, key |-> NoKey, id |-> 0, at |-> NoId,
           ro |-> FALSE, q |-> NoId, opt |-> NoOpt, check |-> FALSE]

-----------------------------------------------------------------------------
(* What the kernel does. *)

(* Mutant: every call makes a segment of its own. *)
HoldingNone(k) == {}

Holding(k) == {s \in DOMAIN segs : segs[s].key = k}

(* A removed segment lives until nobody is attached to it. *)
Swept(sg, ob) ==
  [s \in {t \in DOMAIN sg : sg[t].key # NoKey \/ \E p \in Procs : ob[p].at = t} |-> sg[s]]

(* Its maker is known as long as the object that made it exists. *)
Orphaned(sg, p) ==
  [s \in DOMAIN sg |-> IF sg[s].maker = p THEN [sg[s] EXCEPT !.maker = "nobody"] ELSE sg[s]]

Marked(sg, s) == IF s \in DOMAIN sg THEN [sg EXCEPT ![s].key = NoKey] ELSE sg

Added(f, x, e) == [y \in DOMAIN f \cup {x} |-> IF y = x THEN e ELSE f[y]]

Unqueued(qs, q) == [i \in DOMAIN qs \ {q} |-> qs[i]]

(* The process is gone. *)
Ended(p, why) ==
  /\ obj' = [obj EXCEPT ![p] = Nobody]
  /\ segs' = Orphaned(Swept(segs, obj'), p)
  /\ exits' = exits \cup why
  /\ UNCHANGED <<queues, qkey, made, qmade, use>>

-----------------------------------------------------------------------------
Init ==
  /\ obj = [p \in Procs |-> Nobody]
  /\ segs = <<>> /\ queues = <<>> /\ qkey = <<>>
  /\ made = 0 /\ qmade = 0 /\ exits = {}
  /\ use \in Uses

New(p) ==
  /\ obj[p].st = "none"
  /\ Cardinality({r \in Procs : obj[r].st # "none"}) < use.most
  /\ \E k \in Keys, ro \in BOOLEAN :
       obj' = [obj EXCEPT ![p] = [Nobody EXCEPT !.st = "made", !.asked = k, !.key = k, !.ro = ro]]
  /\ UNCHANGED <<segs, queues, qkey, made, qmade, exits, use>>

(* The object p goes on to shmat with the segment s under the key k. *)
Got(p, opt, k, s, check) ==
  obj' = [obj EXCEPT ![p] = [@ EXCEPT !.st = "attach", !.key = k, !.id = s, !.opt = opt,
                                      !.check = check]]

Created(p, k) ==
  /\ made < MaxIds
  /\ segs' = Added(segs, made, [key |-> k, name |-> "", frames |-> 0, maker |-> p])
  /\ made' = made + 1
  /\ UNCHANGED <<queues, qkey, qmade, exits, use>>

(* Mutant: the id is left as it was made. *)
FailedIdZero(o) == o.id

FailedId(o) == NoId

(* Mutant: the name of a reused segment is not looked at. *)
UncheckedName(opt) == FALSE

CheckName(opt) == opt.reuse

(* shmget makes the segment, or takes the one there is for a read-only      *)
(* object.                                                                  *)
GetNew(p, opt) ==
  /\ Holding(obj[p].key) = {}
  /\ Created(p, obj[p].key)
  /\ Got(p, opt, obj[p].key, made, FALSE)

GetShared(p, opt) ==
  /\ obj[p].ro
  /\ \E s \in Holding(obj[p].key) : Got(p, opt, obj[p].key, s, FALSE)
  /\ UNCHANGED <<segs, queues, qkey, made, qmade, exits, use>>

(* The segment exists already. *)
GetReused(p, opt) ==
  /\ ~obj[p].ro /\ opt.reuse
  /\ \E s \in Holding(obj[p].key) : Got(p, opt, obj[p].key, s, CheckName(opt))
  /\ UNCHANGED <<segs, queues, qkey, made, qmade, exits, use>>

GetRefused(p, opt) ==
  /\ ~obj[p].ro /\ ~opt.reuse /\ ~opt.retry
  /\ Holding(obj[p].key) # {}
  /\ IF opt.assert
     THEN Ended(p, {"get"})
     ELSE /\ obj' = [obj EXCEPT ![p] = [@ EXCEPT !.st = "failed", !.id = FailedId(obj[p])]]
          /\ UNCHANGED <<segs, queues, qkey, made, qmade, exits, use>>

(* The next key that is free. *)
NextFree(k) ==
  CHOOSE j \in (k + 1)..(k + made + 1) :
    Holding(j) = {} /\ \A i \in (k + 1)..(j - 1) : Holding(i) # {}

GetRetried(p, opt) ==
  /\ ~obj[p].ro /\ ~opt.reuse /\ opt.retry
  /\ Holding(obj[p].key) # {}
  /\ Created(p, NextFree(obj[p].key))
  /\ Got(p, opt, NextFree(obj[p].key), made, FALSE)

(* No destructor of an object of this key is running. *)
InTurn(p) ==
  \/ "overlap" \in use.habits
  \/ \A r \in Procs : obj[r].st \in {"detached", "removed"} => obj[r].key # obj[p].key

InitGet(p) ==
  /\ obj[p].st = "made" /\ InTurn(p)
  /\ \E opt \in use.opts :
       \/ GetNew(p, opt) \/ GetShared(p, opt) \/ GetReused(p, opt)
       \/ GetRefused(p, opt) \/ GetRetried(p, opt)

(* The segment was removed before shmat. *)
AttachFails(p) ==
  /\ obj[p].st = "attach" /\ obj[p].id \notin DOMAIN segs
  /\ IF obj[p].opt.assert
     THEN Ended(p, {"attach"})
     ELSE /\ obj' = [obj EXCEPT ![p] = [@ EXCEPT !.st = "failed", !.at = BadPtr]]
          /\ UNCHANGED <<segs, queues, qkey, made, qmade, exits, use>>

(* A reused segment must have the caller's name; a new one gets it. *)
Attach(p) ==
  /\ obj[p].st = "attach" /\ obj[p].id \in DOMAIN segs
  /\ LET o == obj[p]
         ours == segs[o.id].name = o.opt.name
     IN /\ obj' = [obj EXCEPT ![p] =
                     [@ EXCEPT !.at = o.id, !.st = IF o.check /\ ~ours THEN "failed" ELSE "setup"]]
        /\ segs' = IF o.check \/ o.ro THEN segs ELSE [segs EXCEPT ![o.id].name = o.opt.name]
  /\ UNCHANGED <<queues, qkey, made, qmade, exits, use>>

(* Initialize: the counters start at zero. *)
Initialized(sg, s) == [sg EXCEPT ![s].frames = 0]

(* Mutant: every object makes a queue of its own. *)
QueueNew(k) == {}

(* The queue of the segment with the key k: queuekey = 2 * m_MemKey. *)
QueueOf(k) == {q \in DOMAIN queues : qkey[q] = 2 * k}

Setup(p) ==
  /\ obj[p].st = "setup"
  /\ segs' = Initialized(segs, obj[p].at)
  /\ IF ~obj[p].opt.locks
     THEN /\ obj' = [obj EXCEPT ![p].st = "up"]
          /\ UNCHANGED <<queues, qkey, qmade>>
     ELSE IF QueueOf(obj[p].key) # {}
     THEN /\ \E q \in QueueOf(obj[p].key) : obj' = [obj EXCEPT ![p] = [@ EXCEPT !.st = "up", !.q = q]]
          /\ UNCHANGED <<queues, qkey, qmade>>
     ELSE /\ qmade < MaxIds
          /\ obj' = [obj EXCEPT ![p] = [@ EXCEPT !.st = "up", !.q = qmade]]
          /\ queues' = Added(queues, qmade, 0)
          /\ qkey' = Added(qkey, qmade, 2 * obj[p].key)
          /\ qmade' = qmade + 1
  /\ UNCHANGED <<made, exits, use>>

-----------------------------------------------------------------------------
(* A caller counts a frame in the shared head. *)
Frame(p) ==
  /\ obj[p].st = "up" /\ ~obj[p].ro
  /\ segs[obj[p].at].frames = 0
  /\ segs' = [segs EXCEPT ![obj[p].at].frames = 1]
  /\ UNCHANGED <<obj, queues, qkey, made, qmade, exits, use>>

(* The queue q after msgsnd, msgrcv and msgrcv until there is none. *)
SendMsg(qs, q) == [qs EXCEPT ![q] = @ + 1]

GetMsg(qs, q) == [qs EXCEPT ![q] = @ - 1]

GetMsgNoWait(qs, q) == [qs EXCEPT ![q] = 0]

(* UnLock blocks while the queue is full; in a removed queue the message is *)
(* lost.                                                                    *)
UnLock(p) ==
  /\ obj[p].st = "up" /\ obj[p].q \in DOMAIN queues /\ queues[obj[p].q] < QueueSize
  /\ queues' = SendMsg(queues, obj[p].q)
  /\ UNCHANGED <<obj, segs, qkey, made, qmade, exits, use>>

(* Wait returns when there is a message. *)
Wait(p) ==
  /\ obj[p].st = "up" /\ obj[p].q \in DOMAIN queues /\ queues[obj[p].q] > 0
  /\ queues' = GetMsg(queues, obj[p].q)
  /\ UNCHANGED <<obj, segs, qkey, made, qmade, exits, use>>

(* The messages are taken until there is none. *)
ClearQueue(p) ==
  /\ obj[p].st = "up" /\ obj[p].q \in DOMAIN queues
  /\ queues' = GetMsgNoWait(queues, obj[p].q)
  /\ UNCHANGED <<obj, segs, qkey, made, qmade, exits, use>>

(* The processes, others than p, that use the segment s. *)
Users(s, p) ==
  {r \in Procs \ {p} : obj[r].st \in {"attach", "setup", "up", "failed", "detached"} /\ obj[r].id = s}

Orderly(p) ==
  /\ obj[p].st \in {"up", "failed"} \/ "no_init" \in use.habits
  /\ obj[p].st = "up" => "leave" \in use.habits \/ Users(obj[p].id, p) = {}

(* The destructor, in the three calls that other processes see: shmdt... *)
Detach(p) ==
  /\ obj[p].st \in {"made", "up", "failed"}
  /\ Orderly(p)
  /\ IF obj[p].at = BadPtr THEN Ended(p, {"detach"})
     ELSE /\ obj' = [obj EXCEPT ![p] = [@ EXCEPT !.st = "detached", !.at = NoId]]
          /\ segs' = Swept(segs, obj')
          /\ UNCHANGED <<queues, qkey, made, qmade, exits, use>>

(* ... shmctl, which removes the segment of an object that may write... *)
Removes(o) == o.id # NoId /\ ~o.ro

Remove(p) ==
  /\ obj[p].st = "detached"
  /\ IF Removes(obj[p]) /\ obj[p].id \notin DOMAIN segs THEN Ended(p, {"remove"})
     ELSE /\ obj' = [obj EXCEPT ![p].st = "removed"]
          /\ segs' = IF Removes(obj[p]) THEN Swept(Marked(segs, obj[p].id), obj) ELSE segs
          /\ UNCHANGED <<queues, qkey, made, qmade, exits, use>>

(* ... and msgctl, which removes the queue whoever uses it. *)
RemoveQueue(p) ==
  /\ obj[p].st = "removed"
  /\ obj' = [obj EXCEPT ![p] = Nobody]
  /\ segs' = Orphaned(segs, p)
  /\ queues' = Unqueued(queues, obj[p].q)
  /\ qkey' = Unqueued(qkey, obj[p].q)
  /\ UNCHANGED <<made, qmade, exits, use>>

(* Clean removes whatever segment has the key. *)
Clean(k) ==
  /\ \E s \in Holding(k) :
       /\ "clean" \in use.habits \/ Users(s, "nobody") = {}
       /\ segs' = Swept(Marked(segs, s), obj)
  /\ UNCHANGED <<obj, queues, qkey, made, qmade, exits, use>>

(* A process may be killed at any time. *)
Die(p) == obj[p].st # "none" /\ Ended(p, {})

Next ==
  \/ \E p \in Procs :
       \/ New(p) \/ InitGet(p) \/ AttachFails(p) \/ Attach(p) \/ Setup(p) \/ Frame(p)
       \/ UnLock(p) \/ Wait(p) \/ ClearQueue(p)
       \/ Detach(p) \/ Remove(p) \/ RemoveQueue(p) \/ Die(p)
  \/ \E k \in Keys : Clean(k)

Spec == Init /\ [][Next]_vars

-----------------------------------------------------------------------------
(* The orderly use: no habits, and every user asks for the key it means and *)
(* takes no segment another one made.                                       *)
OrderlyUse ==
  /\ use.habits = {}
  /\ \A opt \in use.opts : ~opt.retry /\ ~opt.reuse

(* A use in which objects are initialised, and take over and clean nothing  *)
(* of others, but come and go at any time.                                  *)
OwnUse ==
  /\ use.habits \subseteq {"leave", "overlap"}
  /\ \A opt \in use.opts : ~opt.reuse

(* However the objects of such a use come and go, a segment that has its    *)
(* key loses it in the destructor of the object that made it, or later: an  *)
(* object that was refused, failed or only reads removes nothing of others. *)
RemovedByMaker ==
  [][OwnUse => \A s \in DOMAIN segs :
       segs[s].key # NoKey /\ (IF s \in DOMAIN segs' THEN segs'[s].key = NoKey ELSE TRUE)
       => segs[s].maker = "nobody" \/ obj'[segs[s].maker].st = "removed"]_vars

(* Objects that were asked for the same key and are in use share one        *)
(* segment.                                                                 *)
OneSegment ==
  \A p, r \in Procs :
    obj[p].st = "up" /\ obj[r].st = "up" /\ obj[p].asked = obj[r].asked => obj[p].at = obj[r].at

(* "synchronization": objects with locks in one segment have one queue, and *)
(* it exists: what one sends, the other can receive.                        *)
OneQueue ==
  \A p, r \in Procs :
    /\ obj[p].st = "up" /\ obj[r].st = "up"
    /\ obj[p].at = obj[r].at /\ obj[p].opt.locks /\ obj[r].opt.locks
    => obj[p].q = obj[r].q /\ obj[p].q \in DOMAIN queues

(* No destructor of the orderly use ends its process. *)
DestructorReturns == OrderlyUse => exits \subseteq {"get"}

(* A writer in use is in a segment of its own module. *)
WritersNamed ==
  \A p \in Procs : obj[p].st = "up" /\ ~obj[p].ro => segs[obj[p].at].name = obj[p].opt.name

(* Objects find each other: in the orderly use those of one key meet in one *)
(* segment and one queue, and in any use a writer keeps out of the segments *)
(* of other modules.                                                        *)
Shared == (OrderlyUse => OneSegment /\ OneQueue) /\ WritersNamed
=============================================================================
