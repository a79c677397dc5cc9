----------------------------- MODULE TxtServer ------------------------------
(***************************************************************************)
(* The text request servers CMyTxtInetServer and CMyTxtServer (src/src/    *)
(* mytxtinetserver.cpp, mytxtserver.cpp, mybaseserver.cpp) with their      *)
(* clients (mytxtclient.cpp).                                              *)
(*                                                                         *)
(* One connection is served at a time.  A socket is a stream: a request of *)
(* one write may arrive in any number of reads.  The inet server takes a   *)
(* read that ends in a zero byte for the end of the request and answers;   *)
(* the unix server reads until the client closes and does not answer.      *)
(***************************************************************************)
EXTENDS Integers, Sequences, FiniteSets, SequencesExt

CONSTANTS
  Clients,
  Request,    (* Request[c]: the characters of the request of c *)
  Buf,        (* sizeof(buffer) *)
  Backlog,    (* the argument of listen *)
  Settings    (* the server that runs, and what its clients may do *)

Nul == "nul"

(* unix: it is the unix server; die: a client may end, perhaps in its       *)
(* write; silent: a client may connect and send nothing; clients: those     *)
(* that come.  A request is a C string: no zero byte is in it.              *)
ASSUME TxtServerAssumption ==
  /\ Buf \in Nat \ {0} /\ Backlog \in Nat \ {0}
  /\ DOMAIN Request = Clients
  /\ \A c \in Clients :
       Request[c] \in Seq(STRING) /\ \A i \in DOMAIN Request[c] : Request[c][i] # Nul
  /\ Settings \subseteq [unix: BOOLEAN, die: BOOLEAN, silent: BOOLEAN,
                         clients: SUBSET Clients]

VARIABLES
  client,   (* what each client is doing *)
  wire,     (* wire[c]: what c wrote and the server did not read *)
  eof,      (* eof[c]: c has closed its socket *)
  answer,   (* answer[c]: the answer c was sent, with the request it is to *)
  queue,    (* connections not accepted yet *)
  st,       (* the next call of the server *)
  who,      (* the client of m_ClientSocket *)
  msg,      (* szMessage *)
  handled,  (* the requests that were handled, in order *)
  set       (* the setting, the same for a whole behaviour *)

vars == <<client, wire, eof, answer, queue, st, who, msg, handled, set>>

Nobody == "nobody"
NoAnswer == <<"none">>

-----------------------------------------------------------------------------
Init ==
  /\ client = [c \in Clients |-> "idle"]
  /\ wire = [c \in Clients |-> <<>>]
  /\ eof = [c \in Clients |-> FALSE]
  /\ answer = [c \in Clients |-> NoAnswer]
  /\ queue = <<>>
  /\ st = "accept" /\ who = Nobody /\ msg = <<>>
  /\ handled = <<>>
  /\ set \in Settings

Connect(c) ==
  /\ client[c] = "idle" /\ c \in set.clients /\ Len(queue) < Backlog
  /\ client' = [client EXCEPT ![c] = "connected"]
  /\ queue' = Append(queue, c)
  /\ UNCHANGED <<wire, eof, answer, st, who, msg, handled, set>>

(* The request goes out with the zero byte that ends it. *)
Text(c) == Append(Request[c], Nul)

SendRequest(c) ==
  /\ client[c] = "connected"
  /\ client' = [client EXCEPT ![c] = "sent"]
  /\ wire' = [wire EXCEPT ![c] = @ \o Text(c)]
  /\ UNCHANGED <<eof, answer, queue, st, who, msg, handled, set>>

(* A client of the unix server closes after its request, one of the inet    *)
(* server when it has the answer.                                           *)
Disconnect(c) ==
  /\ client[c] = IF set.unix THEN "sent" ELSE "answered"
  /\ ~eof[c]
  /\ eof' = [eof EXCEPT ![c] = TRUE]
  /\ UNCHANGED <<client, wire, answer, queue, st, who, msg, handled, set>>

ReadAnswer(c) ==
  /\ client[c] = "sent" /\ ~set.unix /\ answer[c] # NoAnswer
  /\ client' = [client EXCEPT ![c] = "answered"]
  /\ UNCHANGED <<wire, eof, answer, queue, st, who, msg, handled, set>>

(* A client that ends closes its socket, perhaps with a part written. *)
Die(c) ==
  /\ set.die /\ client[c] \in {"connected", "sent"} /\ ~eof[c]
  /\ eof' = [eof EXCEPT ![c] = TRUE]
  /\ client' = [client EXCEPT ![c] = "dead"]
  /\ IF client[c] = "sent" THEN UNCHANGED wire
     ELSE \E k \in 0..Len(Text(c)) : wire' = [wire EXCEPT ![c] = SubSeq(Text(c), 1, k)]
  /\ UNCHANGED <<answer, queue, st, who, msg, handled, set>>

-----------------------------------------------------------------------------
(* Mutant: the message of the client before is not cleared. *)
AcceptKeeps ==
  /\ st = "accept" /\ queue # <<>>
  /\ who' = Head(queue) /\ queue' = Tail(queue)
  /\ st' = "read"
  /\ UNCHANGED <<client, wire, eof, answer, msg, handled, set>>

Accept ==
  /\ st = "accept" /\ queue # <<>>
  /\ who' = Head(queue) /\ queue' = Tail(queue)
  /\ msg' = <<>> /\ st' = "read"
  /\ UNCHANGED <<client, wire, eof, answer, handled, set>>

(* szMessage << buffer takes the characters before the first zero byte. *)
Before(chunk) ==
  LET nuls == {i \in 1..Len(chunk) : chunk[i] = Nul}
  IN IF nuls = {} THEN chunk
     ELSE SubSeq(chunk, 1, (CHOOSE i \in nuls : \A j \in nuls : i <= j) - 1)

(* A read that ends in a zero byte ends the request for the inet server. *)
Ends(chunk) == ~set.unix /\ Last(chunk) = Nul

(* Mutant: only the last read is kept. *)
LastRead(m, chunk) == Before(chunk)

Joined(m, chunk) == m \o Before(chunk)

Read ==
  /\ st = "read" /\ wire[who] # <<>>
  /\ \E k \in 1..Len(wire[who]) :
       /\ k <= Buf
       /\ LET chunk == SubSeq(wire[who], 1, k)
          IN /\ msg' = Joined(msg, chunk)
             /\ st' = IF Ends(chunk) THEN "handle" ELSE "read"
       /\ wire' = [wire EXCEPT ![who] = SubSeq(@, k + 1, Len(@))]
  /\ UNCHANGED <<client, eof, answer, queue, who, handled, set>>

(* Mutant: the loop does not end when the client has closed. *)
ReadEofAgain ==
  /\ st = "read" /\ wire[who] = <<>> /\ eof[who]
  /\ UNCHANGED vars

(* read returns 0: what came so far is the request. *)
ReadEof ==
  /\ st = "read" /\ wire[who] = <<>> /\ eof[who]
  /\ st' = "handle"
  /\ UNCHANGED <<client, wire, eof, answer, queue, who, msg, handled, set>>

HandleRequest ==
  /\ st = "handle"
  /\ handled' = Append(handled, [from |-> who, text |-> msg])
  /\ st' = IF set.unix THEN "close" ELSE "answer"
  /\ UNCHANGED <<client, wire, eof, answer, queue, who, msg, set>>

Answer ==
  /\ st = "answer"
  /\ answer' = [answer EXCEPT ![who] = msg]
  /\ st' = "close"
  /\ UNCHANGED <<client, wire, eof, queue, who, msg, handled, set>>

Close ==
  /\ st = "close"
  /\ st' = "accept" /\ who' = Nobody
  /\ UNCHANGED <<client, wire, eof, answer, queue, msg, handled, set>>

Server == Accept \/ Read \/ ReadEof \/ HandleRequest \/ Answer \/ Close

(* What a client does of its own, and what a well-behaved one goes on to. *)
Client(c) == Connect(c) \/ SendRequest(c) \/ ReadAnswer(c) \/ Disconnect(c)

Next == Server \/ \E c \in Clients : Client(c) \/ Die(c)

(* The server runs on.  A client that is not silent goes on too. *)
Spec ==
  /\ Init /\ [][Next]_vars
  /\ WF_vars(Server)
  /\ \A c \in Clients : WF_vars(ReadAnswer(c) \/ Disconnect(c))
  /\ \A c \in Clients : WF_vars(~set.silent /\ SendRequest(c))

-----------------------------------------------------------------------------
(* However the stream is cut into reads, every request that is handled is   *)
(* the whole of what its client sent, of a client that may end while it     *)
(* writes a part of its own request, never characters of another one; and   *)
(* it is handled once.                                                      *)
Whole ==
  /\ \A i \in DOMAIN handled :
       LET request == Request[handled[i].from]
       IN IF set.die THEN IsPrefix(handled[i].text, request) ELSE handled[i].text = request
  /\ \A i, j \in DOMAIN handled : i # j => handled[i].from # handled[j].from

(* A client gets the answer to its own request. *)
OwnAnswer ==
  ~set.die => \A c \in Clients : answer[c] # NoAnswer => answer[c] = Request[c]

(* Requests are kept apart: each is handled whole and once, and answered to *)
(* the client it came from.                                                 *)
KeptApart == Whole /\ OwnAnswer

(* A request that was sent is handled, whoever is served before it, unless  *)
(* a client may stay silent: the server then waits for that one.            *)
Served ==
  \A c \in Clients :
    client[c] = "sent" /\ ~set.silent ~> \E i \in DOMAIN handled : handled[i].from = c
=============================================================================
