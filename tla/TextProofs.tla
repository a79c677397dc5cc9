----------------------------- MODULE TextProofs -----------------------------
(***************************************************************************)
(* Theorems about what is made of text.                                    *)
(*                                                                         *)
(* The text request servers (TxtServer), for any clients and requests, any *)
(* size of the buffer and any cut of a stream into reads: requests are     *)
(* kept apart.  The invariant follows each client from its connection to   *)
(* its answer, and keeps what was read of its stream next to what is left  *)
(* of it.                                                                  *)
(*                                                                         *)
(* The configuration files (CfgFile), for any objects, names, values and   *)
(* files that do not load each other in a ring: a table tells what its     *)
(* file says, the comparison of two tables tells them apart, and a file    *)
(* that is saved reads back.  The invariant keeps the table of an object   *)
(* that reads next to what is left to read of the files on the stack.      *)
(***************************************************************************)
EXTENDS TxtServer, CfgFile, FiniteSetTheorems, FunctionTheorems, SequenceTheorems, WellFoundedInduction, TLAPS

-----------------------------------------------------------------------------
(* The servers. *)
Char == STRING \cup {Nul}

TypeOK ==
  /\ client \in [Clients -> {"idle", "connected", "sent", "answered", "dead"}]
  /\ wire \in [Clients -> Seq(Char)]
  /\ eof \in [Clients -> BOOLEAN]
  /\ answer \in [Clients -> Seq(Char) \cup {NoAnswer}]
  /\ queue \in Seq(Clients)
  /\ st \in {"accept", "read", "handle", "answer", "close"}
  /\ st # "accept" => who \in Clients
  /\ msg \in Seq(Char)
  /\ handled \in Seq([from: Clients, text: Seq(Char)])
  /\ set \in Settings

(* Where a client is on its way through the server. *)
Waits(c) == \E i \in 1..Len(queue) : queue[i] = c
Serving(c) == st # "accept" /\ who = c
Handled(c) == \E i \in 1..Len(handled) : handled[i].from = c

(* A client is at one place of the way, and goes it once. *)
Places ==
  /\ \A i, j \in 1..Len(queue) : i # j => queue[i] # queue[j]
  /\ \A i, j \in 1..Len(handled) : i # j => handled[i].from # handled[j].from
  /\ \A c \in Clients :
       /\ client[c] = "idle" => ~Waits(c) /\ ~Serving(c) /\ ~Handled(c)
       /\ Waits(c) => ~Serving(c) /\ ~Handled(c)
       /\ Serving(c) => (Handled(c) <=> st \in {"answer", "close"})
       /\ answer[c] # NoAnswer => Handled(c) /\ ~(Serving(c) /\ st = "answer")
       /\ client[c] = "answered" => answer[c] # NoAnswer
       /\ ~set.die /\ eof[c] => client[c] = IF set.unix THEN "sent" ELSE "answered"
       /\ ~set.die => client[c] # "dead"

(* s is what the text of c has after its first k characters. *)
Piece(s, c, k) ==
  /\ k + Len(s) <= Len(Text(c))
  /\ \A i \in 1..Len(s) : s[i] = Text(c)[k + i]

(* Of a client that was not accepted the whole stream is still to be read. *)
Fresh(c) ==
  /\ Piece(wire[c], c, 0)
  /\ client[c] \in {"idle", "connected"} => wire[c] = <<>>
  /\ client[c] = "sent" => Len(wire[c]) = Len(Text(c))

Unread == \A c \in Clients : ~Serving(c) /\ ~Handled(c) => Fresh(c)

(* m is a beginning of the request of c. *)
Begins(m, c) ==
  /\ Len(m) <= Len(Request[c])
  /\ \A i \in 1..Len(m) : m[i] = Request[c][i]

(* What was read of the client that is served, and what is left.  When the  *)
(* zero byte was read too nothing is left.                                  *)
Reading ==
  st = "read" =>
    /\ Begins(msg, who)
    /\ wire[who] # <<>> => Piece(wire[who], who, Len(msg))
    /\ client[who] = "connected" => msg = <<>> /\ wire[who] = <<>>
    /\ client[who] = "sent" =>
         IF wire[who] = <<>> THEN msg = Request[who]
         ELSE Len(msg) + Len(wire[who]) = Len(Text(who))

ToHandle ==
  st \in {"handle", "answer"} => Begins(msg, who) /\ (~set.die => msg = Request[who])

IInv == TypeOK /\ Places /\ Unread /\ Reading /\ ToHandle /\ KeptApart

-----------------------------------------------------------------------------
(* The text of a client: its request and one zero byte, the last. *)
LEMMA TextOfRequest ==
  ASSUME NEW c \in Clients
  PROVE  /\ Request[c] \in Seq(Char) /\ Text(c) \in Seq(Char)
         /\ Len(Text(c)) = Len(Request[c]) + 1
         /\ \A i \in 1..Len(Request[c]) : Text(c)[i] = Request[c][i] /\ Text(c)[i] # Nul
         /\ Text(c)[Len(Text(c))] = Nul
<1>1. /\ Request[c] \in Seq(Char)
      /\ \A i \in 1..Len(Request[c]) : Request[c][i] # Nul
  BY TxtServerAssumption DEF Char
<1>2. Nul \in Char
  BY DEF Char
<1> QED BY <1>1, <1>2, AppendProperties DEF Text

(* A beginning of a request is a prefix of it, and all of it when it is as  *)
(* long.                                                                    *)
LEMMA BeginningOfRequest ==
  ASSUME NEW c \in Clients, NEW m \in Seq(Char), Begins(m, c)
  PROVE  /\ IsPrefix(m, Request[c])
         /\ Len(m) = Len(Request[c]) => m = Request[c]
<1> DEFINE r == Request[c]
<1>1. r \in Seq(Char) /\ Len(m) \in Nat /\ Len(r) \in Nat
  BY TextOfRequest
<1>2. Len(m) <= Len(r) /\ \A i \in 1..Len(m) : m[i] = r[i]
  BY DEF Begins
<1> HIDE DEF r
<1>3. Len(m) = Len(r) => m = r
  BY <1>1, <1>2, SeqEqual
<1>4. /\ SubSeq(m, 1, Len(m)) \in Seq(Char) /\ SubSeq(r, 1, Len(m)) \in Seq(Char)
      /\ Len(SubSeq(m, 1, Len(m))) = Len(m) /\ Len(SubSeq(r, 1, Len(m))) = Len(m)
      /\ \A i \in 1..Len(m) : /\ SubSeq(m, 1, Len(m))[i] = m[i]
                              /\ SubSeq(r, 1, Len(m))[i] = r[i]
  BY <1>1, <1>2
<1>5. SubSeq(m, 1, Len(m)) = SubSeq(r, 1, Len(m))
  BY <1>2, <1>4, SeqEqual
<1>6. IsPrefix(m, r)
  BY <1>1, <1>2, <1>5 DEF IsPrefix
<1> QED BY <1>3, <1>6 DEF r

(* What a read adds to the message: the characters of the chunk, and        *)
(* nothing when the chunk has only the zero byte.                           *)
LEMMA BeforeZero ==
  ASSUME NEW chunk \in Seq(Char), chunk # <<>>,
         \A i \in 1..(Len(chunk) - 1) : chunk[i] # Nul
  PROVE  Before(chunk) = IF chunk[Len(chunk)] = Nul THEN SubSeq(chunk, 1, Len(chunk) - 1)
                         ELSE chunk
<1> DEFINE nuls == {i \in 1..Len(chunk) : chunk[i] = Nul}
<1>1. Len(chunk) \in Nat /\ Len(chunk) >= 1
  BY EmptySeq
<1>2. CASE chunk[Len(chunk)] = Nul
  <2>1. nuls = {Len(chunk)}
    BY <1>1, <1>2
  <2>2. (CHOOSE i \in nuls : \A j \in nuls : i <= j) = Len(chunk)
    <3>1. \A j \in nuls : Len(chunk) <= j
      BY <2>1, <1>1
    <3>2. Len(chunk) \in nuls /\ \A i \in nuls : i = Len(chunk)
      BY <2>1
    <3> HIDE DEF nuls
    <3> QED BY <3>1, <3>2, <1>1
  <2>3. nuls # {}
    BY <2>1
  <2>4. Before(chunk) = IF nuls = {} THEN chunk
                        ELSE SubSeq(chunk, 1, (CHOOSE i \in nuls : \A j \in nuls : i <= j) - 1)
    BY Zenon DEF Before
  <2> HIDE DEF nuls
  <2>5. Before(chunk) = SubSeq(chunk, 1, (CHOOSE i \in nuls : \A j \in nuls : i <= j) - 1)
    BY <2>3, <2>4, Zenon
  <2>6. Before(chunk) = SubSeq(chunk, 1, Len(chunk) - 1)
    BY <2>2, <2>5, Zenon
  <2> QED BY <1>2, <2>6, Zenon
<1>3. CASE chunk[Len(chunk)] # Nul
  <2>1. nuls = {}
    BY <1>1, <1>3
  <2>2. Before(chunk) = IF nuls = {} THEN chunk
                        ELSE SubSeq(chunk, 1, (CHOOSE i \in nuls : \A j \in nuls : i <= j) - 1)
    BY Zenon DEF Before
  <2> QED BY <1>3, <2>1, <2>2, Zenon
<1> QED BY <1>2, <1>3

(* A read of the stream of c moves characters from what is left to the      *)
(* message.  The zero byte is the last character: when it is read the       *)
(* message is the request and nothing is left.                              *)
LEMMA ReadOfStream ==
  ASSUME NEW c \in Clients, NEW m \in Seq(Char), NEW w \in Seq(Char),
         Begins(m, c), Piece(w, c, Len(m)), NEW k \in 1..Len(w)
  PROVE  LET chunk == SubSeq(w, 1, k)
             rest == SubSeq(w, k + 1, Len(w))
         IN /\ Joined(m, chunk) \in Seq(Char) /\ Begins(Joined(m, chunk), c)
            /\ rest \in Seq(Char) /\ Len(rest) = Len(w) - k
            /\ IF Last(chunk) = Nul THEN Joined(m, chunk) = Request[c] /\ rest = <<>>
               ELSE /\ Len(Joined(m, chunk)) = Len(m) + k
                    /\ Piece(rest, c, Len(m) + k)
<1> DEFINE r == Request[c]
           t == Text(c)
           chunk == SubSeq(w, 1, k)
           rest == SubSeq(w, k + 1, Len(w))
<1> SUFFICES
      /\ Joined(m, chunk) \in Seq(Char) /\ Begins(Joined(m, chunk), c)
      /\ rest \in Seq(Char) /\ Len(rest) = Len(w) - k
      /\ IF Last(chunk) = Nul THEN Joined(m, chunk) = r /\ rest = <<>>
         ELSE /\ Len(Joined(m, chunk)) = Len(m) + k
              /\ Piece(rest, c, Len(m) + k)
  OBVIOUS
<1>1. /\ r \in Seq(Char) /\ t \in Seq(Char) /\ Len(t) = Len(r) + 1
      /\ \A i \in 1..Len(r) : t[i] = r[i] /\ t[i] # Nul
      /\ t[Len(r) + 1] = Nul
  BY TextOfRequest
<1>2. /\ \A i \in 1..Len(m) : m[i] = r[i]
      /\ \A i \in 1..Len(w) : w[i] = t[Len(m) + i]
  BY DEF Begins, Piece
<1> DEFINE lr == Len(r)
           lm == Len(m)
           lw == Len(w)
<1>3. /\ lr \in Nat /\ lm \in Nat /\ lw \in Nat /\ k \in Nat
      /\ 1 <= k /\ k <= lw /\ lm <= lr /\ lm + lw <= lr + 1
  BY <1>1 DEF Begins, Piece
<1> HIDE DEF r, t, lr, lm, lw
<1>4. /\ chunk \in Seq(Char) /\ Len(chunk) = k /\ chunk # <<>>
      /\ \A i \in 1..k : chunk[i] = t[lm + i]
  <2>1. /\ chunk \in Seq(Char) /\ Len(chunk) = k
        /\ \A i \in 1..k : chunk[i] = w[i] /\ i \in 1..Len(w)
    BY <1>3 DEF lw
  <2>2. Len(<<>>) = 0
    OBVIOUS
  <2>3. chunk # <<>>
    BY <2>1, <2>2, <1>3
  <2> QED BY <2>1, <2>3, <1>2 DEF lm
<1>5. /\ rest \in Seq(Char) /\ Len(rest) = lw - k
      /\ \A i \in 1..(lw - k) : rest[i] = t[(lm + k) + i]
  <2>1. /\ rest \in Seq(Char) /\ Len(rest) = lw - k
        /\ \A i \in 1..(lw - k) : rest[i] = w[k + i]
    BY <1>3 DEF lw
  <2>2. ASSUME NEW i \in 1..(lw - k) PROVE w[k + i] = t[(lm + k) + i]
    <3>1. k + i \in 1..lw /\ lm + (k + i) = (lm + k) + i
      BY <1>3
    <3> QED BY <3>1, <1>2 DEF lm, lw
  <2> QED BY <2>1, <2>2
<1> HIDE DEF chunk, rest
<1>6. Last(chunk) = t[lm + k] /\ Last(chunk) = chunk[Len(chunk)]
  BY <1>3, <1>4 DEF Last
<1>7. \A i \in 1..(Len(chunk) - 1) : chunk[i] # Nul
  <2> SUFFICES ASSUME NEW i \in 1..(k - 1) PROVE chunk[i] # Nul
    BY <1>4
  <2>1. lm + i \in 1..lr /\ i \in 1..k
    BY <1>3
  <2>2. chunk[i] = t[lm + i]
    BY <2>1, <1>4
  <2> QED BY <2>1, <2>2, <1>1 DEF lr
<1>8. Before(chunk) = IF Last(chunk) = Nul THEN SubSeq(chunk, 1, k - 1) ELSE chunk
  BY <1>4, <1>6, <1>7, BeforeZero
<1>9. Last(chunk) = Nul <=> lm + k = lr + 1
  <2>1. lm + k \in 1..lr \/ lm + k = lr + 1
    BY <1>3
  <2>2. lm + k \in 1..lr => lm + k # lr + 1
    BY <1>3
  <2> QED BY <2>1, <2>2, <1>1, <1>6 DEF lr
<1>10. CASE Last(chunk) = Nul
  <2>1. lm + k = lr + 1 /\ k = lw
    BY <1>3, <1>9, <1>10
  <2> DEFINE b == SubSeq(chunk, 1, k - 1)
  <2>2. /\ b \in Seq(Char) /\ Len(b) = k - 1
        /\ \A i \in 1..(k - 1) : b[i] = t[lm + i]
    <3>1. /\ b \in Seq(Char) /\ Len(b) = k - 1
          /\ \A i \in 1..(k - 1) : b[i] = chunk[i] /\ i \in 1..k
      BY <1>3, <1>4
    <3> QED BY <3>1, <1>4
  <2>3. Joined(m, chunk) = m \o b
    BY <1>8, <1>10 DEF Joined
  <2> HIDE DEF b
  <2>4. /\ m \o b \in Seq(Char) /\ Len(m \o b) = lr
        /\ \A i \in 1..lr : (m \o b)[i] = IF i <= lm THEN m[i] ELSE b[i - lm]
    <3>1. lm + (k - 1) = lr
      BY <2>1, <1>3
    <3>2. /\ m \o b \in Seq(Char) /\ Len(m \o b) = lm + (k - 1)
          /\ \A i \in 1..(lm + (k - 1)) : (m \o b)[i] = IF i <= lm THEN m[i] ELSE b[i - lm]
      <4>1. /\ m \o b \in Seq(Char) /\ Len(m \o b) = lm + Len(b)
            /\ \A i \in 1..(lm + Len(b)) : (m \o b)[i] = IF i <= lm THEN m[i] ELSE b[i - lm]
        BY <2>2, ConcatProperties DEF lm
      <4> QED BY <4>1, <2>2, Zenon
    <3> QED BY <3>1, <3>2
  <2>5. ASSUME NEW i \in 1..lr PROVE (m \o b)[i] = r[i]
    <3>1. CASE i <= lm
      <4>1. i \in 1..lm
        BY <3>1, <1>3
      <4> QED BY <4>1, <3>1, <2>4, <1>2 DEF lm
    <3>2. CASE ~(i <= lm)
      <4>1. i - lm \in 1..(k - 1) /\ lm + (i - lm) = i
        BY <3>2, <2>1, <1>3
      <4>2. b[i - lm] = t[i]
        BY <4>1, <2>2
      <4> QED BY <4>2, <3>2, <2>4, <1>1 DEF lr
    <3> QED BY <3>1, <3>2
  <2>6. m \o b = r
    BY <2>4, <2>5, <1>1, SeqEqual DEF lr
  <2>7. rest = <<>>
    BY <2>1, <1>3, <1>5, EmptySeq
  <2>8. Begins(r, c)
    BY <1>1 DEF Begins, r
  <2> QED BY <1>3, <1>5, <1>10, <2>3, <2>4, <2>6, <2>7, <2>8, <1>1 DEF lw
<1>11. CASE Last(chunk) # Nul
  <2>1. lm + k <= lr
    BY <1>3, <1>9, <1>11
  <2>2. Joined(m, chunk) = m \o chunk
    BY <1>8, <1>11 DEF Joined
  <2>3. /\ m \o chunk \in Seq(Char) /\ Len(m \o chunk) = lm + k
        /\ \A i \in 1..(lm + k) :
             (m \o chunk)[i] = IF i <= lm THEN m[i] ELSE chunk[i - lm]
    BY <1>4, ConcatProperties DEF lm
  <2>4. ASSUME NEW i \in 1..(lm + k) PROVE (m \o chunk)[i] = r[i]
    <3>1. CASE i <= lm
      <4>1. i \in 1..lm
        BY <3>1, <1>3
      <4> QED BY <4>1, <3>1, <2>3, <1>2 DEF lm
    <3>2. CASE ~(i <= lm)
      <4>1. i - lm \in 1..k /\ lm + (i - lm) = i /\ i \in 1..lr
        BY <3>2, <2>1, <1>3
      <4>2. chunk[i - lm] = t[i]
        BY <4>1, <1>4
      <4> QED BY <4>1, <4>2, <3>2, <2>3, <1>1 DEF lr
    <3> QED BY <3>1, <3>2
  <2>5. Begins(m \o chunk, c)
    BY <2>1, <2>3, <2>4 DEF Begins, r, lr
  <2>6. Piece(rest, c, lm + k)
    <3>1. (lm + k) + (lw - k) <= lr + 1
      BY <1>3
    <3> QED BY <3>1, <1>1, <1>5 DEF Piece, t, lr
  <2> QED BY <1>5, <1>11, <2>2, <2>3, <2>5, <2>6 DEF lm, lw
<1> QED BY <1>10, <1>11

-----------------------------------------------------------------------------
(* A server starts with no client in it. *)
LEMMA InitI == Init => IInv
<1> SUFFICES ASSUME Init PROVE IInv
  OBVIOUS
<1> USE DEF Init
<1>1. TypeOK
  BY DEF TypeOK
<1>2. Len(queue) = 0 /\ Len(handled) = 0 /\ DOMAIN handled = {}
  OBVIOUS
<1>3. Places
  BY <1>2 DEF Places, Waits, Serving, Handled
<1>4. \A c \in Clients : Len(wire[c]) = 0 /\ Len(Text(c)) \in Nat
  BY TextOfRequest
<1>5. Unread
  BY <1>4 DEF Unread, Fresh, Piece
<1>6. Reading /\ ToHandle
  BY DEF Reading, ToHandle
<1>7. KeptApart
  BY <1>2 DEF KeptApart, Whole, OwnAnswer
<1> QED BY <1>1, <1>3, <1>5, <1>6, <1>7 DEF IInv

(* What the server has handled and answered is as it was in a step of a     *)
(* client.                                                                  *)
LEMMA ApartStill ==
  ASSUME KeptApart, UNCHANGED <<handled, answer, set>>
  PROVE  KeptApart'
BY DEF KeptApart, Whole, OwnAnswer

(* A client connects: it waits in the queue, and nowhere else. *)
LEMMA ConnectI ==
  ASSUME IInv, NEW c \in Clients, Connect(c)
  PROVE  IInv'
<1> USE DEF IInv
<1>1. TypeOK'
  BY DEF TypeOK, Connect
<1>0. /\ Len(queue') = Len(queue) + 1 /\ queue'[Len(queue) + 1] = c
      /\ \A i \in 1..Len(queue) : queue'[i] = queue[i]
      /\ Len(queue) \in Nat
  BY DEF TypeOK, Connect
<1>2. \A d \in Clients : /\ Serving(d)' <=> Serving(d)
                         /\ Handled(d)' <=> Handled(d)
                         /\ Waits(d)' <=> Waits(d) \/ d = c
  BY <1>0 DEF Connect, Serving, Handled, Waits
<1>3. Places'
  <2>1. \A i, j \in 1..Len(queue') : i # j => queue'[i] # queue'[j]
    <3>1. \A i \in 1..Len(queue) : queue[i] # c
      BY DEF Connect, Places, Waits
    <3>2. \A i, j \in 1..Len(queue) : i # j => queue[i] # queue[j]
      BY DEF Places
    <3> QED BY <3>1, <3>2, <1>0
  <2> QED BY <2>1, <1>2 DEF Connect, Places, TypeOK
<1>4. Unread'
  BY <1>2 DEF Unread, Fresh, Piece, Connect, TypeOK
<1>5. Reading' /\ ToHandle'
  BY <1>2 DEF Reading, ToHandle, Begins, Piece, Connect, TypeOK, Places, Serving
<1>6. KeptApart'
  BY ApartStill DEF Connect
<1> QED BY <1>1, <1>3, <1>4, <1>5, <1>6

(* A request is sent whole, before any of it is read. *)
LEMMA SendRequestI ==
  ASSUME IInv, NEW c \in Clients, SendRequest(c)
  PROVE  IInv'
<1> USE DEF IInv
<1>1. TypeOK'
  BY TextOfRequest, ConcatProperties DEF TypeOK, SendRequest
<1>2. \A d \in Clients : /\ Serving(d)' <=> Serving(d)
                         /\ Handled(d)' <=> Handled(d)
                         /\ Waits(d)' <=> Waits(d)
  BY DEF SendRequest, Serving, Handled, Waits
<1>3. Places'
  BY <1>2 DEF SendRequest, Places, TypeOK
<1>4. wire[c] = <<>> => /\ wire'[c] = Text(c) /\ Text(c) # <<>>
                        /\ Piece(Text(c), c, 0)
                        /\ Len(Text(c)) \in Nat
  <2>1. /\ Text(c) \in Seq(Char) /\ Len(Text(c)) \in Nat /\ Len(Text(c)) >= 1
    BY TextOfRequest
  <2>2. wire[c] = <<>> => wire'[c] = Text(c)
    <3>1. wire'[c] = wire[c] \o Text(c)
      BY DEF SendRequest, TypeOK
    <3> QED BY <3>1, <2>1, ConcatEmptySeq
  <2>3. Text(c) # <<>>
    <3>1. Len(<<>>) = 0
      OBVIOUS
    <3> QED BY <3>1, <2>1
  <2>4. Piece(Text(c), c, 0)
    BY <2>1 DEF Piece
  <2> QED BY <2>1, <2>2, <2>3, <2>4
<1>5. Unread'
  BY <1>2, <1>4 DEF Unread, Fresh, Piece, SendRequest, TypeOK
<1>6. Reading'
  <2> SUFFICES ASSUME st' = "read" PROVE Reading'
    BY DEF Reading
  <2>1. st = "read" /\ who' = who /\ msg' = msg /\ who \in Clients
    BY DEF SendRequest, TypeOK
  <2>2. CASE who = c
    <3>1. msg = <<>> /\ wire[c] = <<>>
      BY <2>1, <2>2 DEF Reading, SendRequest
    <3>2. Len(msg) = 0
      BY <3>1
    <3> QED BY <3>1, <3>2, <2>1, <2>2, <1>4 DEF Reading, Begins, SendRequest, TypeOK
  <2>3. CASE who # c
    BY <2>1, <2>3 DEF Reading, SendRequest, TypeOK, Begins, Piece
  <2> QED BY <2>2, <2>3
<1>7. ToHandle'
  BY DEF ToHandle, Begins, SendRequest
<1>8. KeptApart'
  BY ApartStill DEF SendRequest
<1> QED BY <1>1, <1>3, <1>5, <1>6, <1>7, <1>8

(* A client that closes its end leaves what it sent. *)
LEMMA DisconnectI ==
  ASSUME IInv, NEW c \in Clients, Disconnect(c)
  PROVE  IInv'
<1> USE DEF IInv
<1>1. TypeOK'
  BY DEF TypeOK, Disconnect
<1>2. \A d \in Clients : /\ Serving(d)' <=> Serving(d)
                         /\ Handled(d)' <=> Handled(d)
                         /\ Waits(d)' <=> Waits(d)
  BY DEF Disconnect, Serving, Handled, Waits
<1>3. Places'
  BY <1>2 DEF Disconnect, Places, TypeOK
<1>4. Unread'
  BY <1>2 DEF Unread, Fresh, Piece, Disconnect
<1>5. Reading' /\ ToHandle'
  BY DEF Reading, ToHandle, Begins, Piece, Disconnect
<1>6. KeptApart'
  BY ApartStill DEF Disconnect
<1> QED BY <1>1, <1>3, <1>4, <1>5, <1>6

(* A client takes its answer. *)
LEMMA ReadAnswerI ==
  ASSUME IInv, NEW c \in Clients, ReadAnswer(c)
  PROVE  IInv'
<1> USE DEF IInv
<1>1. TypeOK'
  BY DEF TypeOK, ReadAnswer
<1>2. \A d \in Clients : /\ Serving(d)' <=> Serving(d)
                         /\ Handled(d)' <=> Handled(d)
                         /\ Waits(d)' <=> Waits(d)
  BY DEF ReadAnswer, Serving, Handled, Waits
<1>3. Places'
  BY <1>2 DEF ReadAnswer, Places, TypeOK
<1>4. Unread'
  BY <1>2 DEF Unread, Fresh, Piece, ReadAnswer, TypeOK
<1>5. Reading' /\ ToHandle'
  BY DEF Reading, ToHandle, Begins, Piece, ReadAnswer, TypeOK
<1>6. KeptApart'
  BY ApartStill DEF ReadAnswer
<1> QED BY <1>1, <1>3, <1>4, <1>5, <1>6

(* A client that dies leaves a beginning of its request. *)
LEMMA DieI ==
  ASSUME IInv, NEW c \in Clients, Die(c)
  PROVE  IInv'
<1> USE DEF IInv
<1>1. /\ client[c] \in {"connected", "sent"} /\ set.die /\ set' = set
      /\ client' = [client EXCEPT ![c] = "dead"]
      /\ eof' = [eof EXCEPT ![c] = TRUE]
      /\ UNCHANGED <<answer, queue, st, who, msg, handled>>
  BY DEF Die
<1>2. /\ wire' \in [Clients -> Seq(Char)]
      /\ \A d \in Clients \ {c} : wire'[d] = wire[d]
      /\ IF client[c] = "sent" THEN wire'[c] = wire[c] ELSE Piece(wire'[c], c, 0)
  <2>1. CASE client[c] = "sent"
    <3>1. wire' = wire
      BY <2>1 DEF Die
    <3> QED BY <2>1, <3>1 DEF TypeOK
  <2>2. CASE client[c] # "sent"
    <3>1. PICK k \in 0..Len(Text(c)) : wire' = [wire EXCEPT ![c] = SubSeq(Text(c), 1, k)]
      BY <2>2 DEF Die
    <3>2. /\ SubSeq(Text(c), 1, k) \in Seq(Char) /\ Len(SubSeq(Text(c), 1, k)) = k
          /\ \A i \in 1..k : SubSeq(Text(c), 1, k)[i] = Text(c)[i]
      BY TextOfRequest
    <3>3. Piece(SubSeq(Text(c), 1, k), c, 0)
      BY <3>2, TextOfRequest DEF Piece
    <3> QED BY <2>2, <3>1, <3>2, <3>3 DEF TypeOK
  <2> QED BY <2>1, <2>2
<1>3. TypeOK'
  BY <1>1, <1>2 DEF TypeOK
<1>4. \A d \in Clients : /\ Serving(d)' <=> Serving(d)
                         /\ Handled(d)' <=> Handled(d)
                         /\ Waits(d)' <=> Waits(d)
  BY <1>1 DEF Serving, Handled, Waits
<1>5. Places'
  BY <1>1, <1>4 DEF Places, TypeOK
<1>6. Unread'
  BY <1>1, <1>2, <1>4 DEF Unread, Fresh, Piece, TypeOK
<1>7. Reading'
  <2> SUFFICES ASSUME st' = "read" PROVE Reading'
    BY DEF Reading
  <2>1. st = "read" /\ who' = who /\ msg' = msg /\ who \in Clients
    BY <1>1 DEF TypeOK
  <2>2. CASE who = c
    <3>1. Begins(msg, c)' /\ client'[c] = "dead"
      BY <2>1, <2>2, <1>1 DEF Reading, Begins, TypeOK
    <3>2. CASE client[c] = "connected"
      <4>1. msg = <<>> /\ Len(msg) = 0
        BY <2>1, <2>2, <3>2 DEF Reading
      <4> QED BY <2>1, <2>2, <3>1, <3>2, <4>1, <1>2 DEF Reading, Piece
    <3>3. CASE client[c] = "sent"
      <4>1. wire'[c] = wire[c] /\ Len(msg)' = Len(msg)
        BY <3>3, <2>1, <1>2
      <4>2. wire[c] # <<>> => Piece(wire[c], c, Len(msg))
        BY <2>1, <2>2 DEF Reading
      <4> QED BY <4>1, <4>2, <2>1, <2>2, <3>1 DEF Reading, Piece
    <3> QED BY <3>2, <3>3, <1>1
  <2>3. CASE who # c
    <3>1. client'[who] = client[who] /\ wire'[who] = wire[who]
      BY <2>1, <2>3, <1>1, <1>2 DEF TypeOK
    <3> QED BY <2>1, <3>1 DEF Reading, Begins, Piece
  <2> QED BY <2>2, <2>3
<1>8. ToHandle'
  BY <1>1 DEF ToHandle, Begins
<1>9. KeptApart'
  BY <1>1, ApartStill
<1> QED BY <1>3, <1>5, <1>6, <1>7, <1>8, <1>9

(* The server takes the client that waits longest. *)
LEMMA AcceptI == ASSUME IInv, Accept PROVE IInv'
<1> USE DEF IInv
<1>1. PICK c \in Clients : c = queue[1]
  BY DEF Accept, TypeOK
<1>2. /\ st = "accept" /\ st' = "read" /\ queue # <<>> /\ msg' = <<>> /\ Len(msg') = 0
      /\ who' = c /\ queue' = Tail(queue)
      /\ UNCHANGED <<client, wire, eof, answer, handled, set>>
  BY <1>1 DEF Accept, TypeOK
<1>3. /\ Len(queue) \in Nat /\ 1 \in 1..Len(queue)
      /\ queue' \in Seq(Clients) /\ Len(queue') = Len(queue) - 1
      /\ \A i \in 1..Len(queue') : queue'[i] = queue[i + 1] /\ i + 1 \in 1..Len(queue)
  BY <1>2 DEF TypeOK
<1>4. TypeOK'
  BY <1>2, <1>3 DEF TypeOK
<1>5. Waits(c)
  BY <1>1, <1>3 DEF Waits
<1>6. ~Waits(c)'
  <2> SUFFICES ASSUME NEW i \in 1..Len(queue') PROVE queue'[i] # c
    BY DEF Waits
  <2>1. i + 1 \in 1..Len(queue) /\ i + 1 # 1 /\ queue'[i] = queue[i + 1]
    BY <1>3
  <2>2. queue[i + 1] # queue[1]
    BY <2>1, <1>3 DEF Places
  <2> QED BY <2>1, <2>2, <1>1
<1>7. \A d \in Clients : /\ ~Serving(d) /\ (Serving(d)' <=> d = c)
                         /\ Handled(d)' <=> Handled(d)
                         /\ Waits(d)' => Waits(d)
  BY <1>2, <1>3 DEF Serving, Handled, Waits
<1>8. Places'
  <2>1. \A i, j \in 1..Len(queue') : i # j => queue'[i] # queue'[j]
    <3> SUFFICES ASSUME NEW i \in 1..Len(queue'), NEW j \in 1..Len(queue'), i # j
                 PROVE  queue'[i] # queue'[j]
      OBVIOUS
    <3>1. i + 1 \in 1..Len(queue) /\ j + 1 \in 1..Len(queue) /\ i + 1 # j + 1
      BY <1>3
    <3>2. queue[i + 1] # queue[j + 1]
      BY <3>1 DEF Places
    <3> QED BY <3>2, <1>3
  <2>2. ~Handled(c) /\ client[c] # "idle"
    BY <1>5 DEF Places
  <2> QED BY <2>1, <2>2, <1>2, <1>6, <1>7 DEF Places
<1>9. Fresh(c)
  BY <1>5, <1>7 DEF Unread, Places
<1>10. Unread'
  BY <1>2, <1>7 DEF Unread, Fresh, Piece
<1>11. Reading'
  <2>1. Begins(msg, who)'
    BY <1>2, TextOfRequest DEF Begins
  <2>2. client[c] = "sent" => wire[c] # <<>> /\ Len(wire[c]) = Len(Text(c))
    <3>1. Len(<<>>) = 0 /\ Len(Text(c)) >= 1
      BY TextOfRequest
    <3> QED BY <3>1, <1>9 DEF Fresh
  <2>3. client[c] # "idle" /\ Len(wire[c]) \in Nat
    BY <1>5 DEF Places, TypeOK
  <2> QED BY <2>1, <2>2, <2>3, <1>2, <1>9 DEF Reading, Fresh, Piece
<1>12. ToHandle'
  BY <1>2 DEF ToHandle
<1>13. KeptApart'
  BY <1>2, ApartStill
<1> QED BY <1>4, <1>8, <1>10, <1>11, <1>12, <1>13

(* A read takes the next of the stream into the buffer. *)
LEMMA ReadI == ASSUME IInv, Read PROVE IInv'
<1> USE DEF IInv
<1>1. PICK k \in 1..Len(wire[who]) :
        /\ msg' = Joined(msg, SubSeq(wire[who], 1, k))
        /\ st' = IF Ends(SubSeq(wire[who], 1, k)) THEN "handle" ELSE "read"
        /\ wire' = [wire EXCEPT ![who] = SubSeq(@, k + 1, Len(@))]
  BY DEF Read
<1>2. /\ st = "read" /\ wire[who] # <<>>
      /\ UNCHANGED <<client, eof, answer, queue, who, handled, set>>
  BY DEF Read
<1> DEFINE w == wire[who]
           chunk == SubSeq(w, 1, k)
           rest == SubSeq(w, k + 1, Len(w))
<1>3. /\ who \in Clients /\ w \in Seq(Char) /\ msg \in Seq(Char) /\ w # <<>> /\ w = wire[who]
      /\ Begins(msg, who) /\ Piece(w, who, Len(msg))
  BY <1>2 DEF TypeOK, Reading
<1>4. /\ msg' = Joined(msg, chunk) /\ wire'[who] = rest
      /\ \A d \in Clients \ {who} : wire'[d] = wire[d]
      /\ (st' = "handle" /\ Last(chunk) = Nul) \/ st' = "read"
  BY <1>1, <1>3 DEF TypeOK, Ends
<1>5. /\ msg' \in Seq(Char) /\ Begins(msg', who)
      /\ rest \in Seq(Char) /\ Len(rest) = Len(w) - k
      /\ IF Last(chunk) = Nul THEN msg' = Request[who] /\ rest = <<>>
         ELSE Len(msg') = Len(msg) + k /\ Piece(rest, who, Len(msg'))
  <2>1. k \in 1..Len(w)
    OBVIOUS
  <2>2. /\ Joined(msg, chunk) \in Seq(Char) /\ Begins(Joined(msg, chunk), who)
        /\ rest \in Seq(Char) /\ Len(rest) = Len(w) - k
        /\ IF Last(chunk) = Nul THEN Joined(msg, chunk) = Request[who] /\ rest = <<>>
           ELSE /\ Len(Joined(msg, chunk)) = Len(msg) + k
                /\ Piece(rest, who, Len(msg) + k)
    <3> HIDE DEF w
    <3> QED BY <2>1, <1>3, ReadOfStream
  <2> QED BY <2>2, <1>4
<1> HIDE DEF w, chunk, rest
<1>6. TypeOK'
  BY <1>1, <1>2, <1>3, <1>4, <1>5 DEF TypeOK
<1>7. \A d \in Clients : /\ Serving(d)' <=> Serving(d)
                         /\ Handled(d)' <=> Handled(d)
                         /\ Waits(d)' <=> Waits(d)
  BY <1>2, <1>4 DEF Serving, Handled, Waits
<1>8. Places'
  BY <1>2, <1>4, <1>7 DEF Places
<1>9. Serving(who)
  BY <1>2 DEF Serving
<1>10. Unread'
  BY <1>2, <1>4, <1>7, <1>9 DEF Unread, Fresh, Piece
<1>11. Reading'
  <2>1. client[who] # "connected"
    BY <1>2 DEF Reading
  <2>2. client[who] = "sent" => Len(msg) + Len(w) = Len(Request[who]) + 1
    BY <1>2, <1>3, TextOfRequest DEF Reading
  <2>3. CASE Last(chunk) = Nul
    BY <1>2, <1>4, <1>5, <2>1, <2>3 DEF Reading, Begins
  <2>4. CASE Last(chunk) # Nul
    <3> DEFINE lm == Len(msg)
               lr == Len(Request[who])
               lw == Len(w)
    <3>1. lm \in Nat /\ lr \in Nat /\ lw \in Nat /\ k \in Nat
      BY <1>3, TextOfRequest
    <3>2. Len(msg') = lm + k /\ lm + k <= lr /\ Len(rest) = lw - k
      BY <1>5, <2>4 DEF Begins
    <3>3. client[who] = "sent" => lm + lw = lr + 1
      BY <2>2
    <3> HIDE DEF lm, lr, lw
    <3>4. client[who] = "sent" => Len(rest) # 0 /\ (lm + k) + Len(rest) = lr + 1
      BY <3>1, <3>2, <3>3
    <3>5. client[who] = "sent" => rest # <<>> /\ Len(msg') + Len(rest) = Len(Text(who))
      <4>1. Len(<<>>) = 0 /\ Len(Text(who)) = lr + 1
        BY <1>3, TextOfRequest DEF lr
      <4> QED BY <4>1, <3>2, <3>4
    <3> QED BY <1>2, <1>4, <1>5, <2>1, <2>4, <3>5 DEF Reading, Begins, Piece
  <2> QED BY <2>3, <2>4
<1>12. ToHandle'
  BY <1>2, <1>4, <1>5 DEF ToHandle, Begins
<1>13. KeptApart'
  BY <1>2, ApartStill
<1> QED BY <1>6, <1>8, <1>10, <1>11, <1>12, <1>13

(* A read at the end of a stream. *)
LEMMA ReadEofI == ASSUME IInv, ReadEof PROVE IInv'
<1> USE DEF IInv
<1>1. /\ st = "read" /\ st' = "handle" /\ wire[who] = <<>> /\ eof[who] /\ who \in Clients
      /\ UNCHANGED <<client, wire, eof, answer, queue, who, msg, handled, set>>
  BY DEF ReadEof, TypeOK
<1>2. TypeOK'
  BY <1>1 DEF TypeOK
<1>3. \A d \in Clients : /\ Serving(d)' <=> Serving(d)
                         /\ Handled(d)' <=> Handled(d)
                         /\ Waits(d)' <=> Waits(d)
  BY <1>1 DEF Serving, Handled, Waits
<1>4. Places'
  BY <1>1, <1>3 DEF Places
<1>5. Unread'
  BY <1>1, <1>3 DEF Unread, Fresh, Piece
<1>6. ~set.die => client[who] = "sent"
  <2>1. Serving(who) /\ ~Handled(who)
    BY <1>1 DEF Serving, Places
  <2> QED BY <2>1, <1>1 DEF Places
<1>7. Begins(msg, who) /\ (~set.die => msg = Request[who])
  BY <1>1, <1>6 DEF Reading
<1>8. Reading' /\ ToHandle'
  BY <1>1, <1>7 DEF Reading, ToHandle, Begins
<1>9. KeptApart'
  BY <1>1, ApartStill
<1> QED BY <1>2, <1>4, <1>5, <1>8, <1>9

(* What is handled is what its client sent. *)
LEMMA HandleRequestI == ASSUME IInv, HandleRequest PROVE IInv'
<1> USE DEF IInv
<1> DEFINE new == [from |-> who, text |-> msg]
           n == Len(handled)
<1>1. /\ st = "handle" /\ st' \in {"close", "answer"} /\ who \in Clients
      /\ handled' = Append(handled, new)
      /\ UNCHANGED <<client, wire, eof, answer, queue, who, msg, set>>
  BY DEF HandleRequest, TypeOK
<1>2. /\ new \in [from: Clients, text: Seq(Char)]
      /\ n \in Nat /\ Len(handled') = n + 1 /\ handled'[n + 1] = new
      /\ \A i \in 1..n : handled'[i] = handled[i]
      /\ DOMAIN handled = 1..n /\ DOMAIN handled' = 1..(n + 1)
      /\ handled' \in Seq([from: Clients, text: Seq(Char)])
  BY <1>1 DEF TypeOK
<1>3. TypeOK'
  BY <1>1, <1>2 DEF TypeOK
<1>4. Serving(who) /\ ~Handled(who)
  BY <1>1 DEF Serving, Places
<1>5. \A d \in Clients : /\ Serving(d)' <=> Serving(d)
                         /\ Handled(d)' <=> Handled(d) \/ d = who
                         /\ Waits(d)' <=> Waits(d)
  <2>1. new.from = who
    OBVIOUS
  <2>2. \A d \in Clients : Handled(d)' <=> Handled(d) \/ d = who
    <3> HIDE DEF new, n
    <3> SUFFICES ASSUME NEW d \in Clients
                 PROVE  (\E i \in 1..(n + 1) : handled'[i].from = d)
                          <=> (\E i \in 1..n : handled[i].from = d) \/ d = who
      BY <1>2 DEF Handled, n
    <3>1. \A i \in 1..(n + 1) : i \in 1..n \/ i = n + 1
      BY <1>2
    <3>2. \A i \in 1..n : i \in 1..(n + 1)
      BY <1>2
    <3>3. n + 1 \in 1..(n + 1)
      BY <1>2
    <3> QED BY <1>2, <2>1, <3>1, <3>2, <3>3
  <2> QED BY <2>2, <1>1 DEF Serving, Waits
<1>6. \A i, j \in 1..(n + 1) : i # j => handled'[i].from # handled'[j].from
  <2>1. \A i \in 1..n : handled[i].from # who
    BY <1>4 DEF Handled
  <2>2. new.from = who
    OBVIOUS
  <2> HIDE DEF new
  <2>3. \A i \in 1..(n + 1) : i \in 1..n \/ i = n + 1
    BY <1>2
  <2>4. \A i, j \in 1..n : i # j => handled[i].from # handled[j].from
    BY DEF Places
  <2> HIDE DEF n
  <2> QED BY <1>2, <2>1, <2>2, <2>3, <2>4
<1>7. Places'
  BY <1>1, <1>2, <1>4, <1>5, <1>6 DEF Places, Serving
<1>8. Unread'
  BY <1>1, <1>5 DEF Unread, Fresh, Piece
<1>9. Reading' /\ ToHandle'
  BY <1>1 DEF Reading, ToHandle, Begins
<1>10. KeptApart'
  <2>1. IF set.die THEN IsPrefix(msg, Request[who]) ELSE msg = Request[who]
    BY <1>1, BeginningOfRequest DEF ToHandle, TypeOK
  <2>2. new.from = who /\ new.text = msg
    OBVIOUS
  <2> HIDE DEF new
  <2>3. \A i \in 1..(n + 1) : i \in 1..n \/ i = n + 1
    BY <1>2
  <2>4. ASSUME NEW i \in 1..(n + 1)
        PROVE IF set.die THEN IsPrefix(handled'[i].text, Request[handled'[i].from])
              ELSE handled'[i].text = Request[handled'[i].from]
    BY <1>2, <2>1, <2>2, <2>3 DEF KeptApart, Whole
  <2> HIDE DEF n
  <2> QED BY <1>1, <1>2, <1>6, <2>4 DEF KeptApart, Whole, OwnAnswer
<1> QED BY <1>3, <1>7, <1>8, <1>9, <1>10

(* The answer goes to the client that is served. *)
LEMMA AnswerI == ASSUME IInv, Answer PROVE IInv'
<1> USE DEF IInv
<1>1. /\ st = "answer" /\ st' = "close" /\ who \in Clients
      /\ answer' = [answer EXCEPT ![who] = msg]
      /\ UNCHANGED <<client, wire, eof, queue, who, msg, handled, set>>
  BY DEF Answer, TypeOK
<1>2. TypeOK'
  BY <1>1 DEF TypeOK
<1>3. \A d \in Clients : /\ Serving(d)' <=> Serving(d)
                         /\ Handled(d)' <=> Handled(d)
                         /\ Waits(d)' <=> Waits(d)
  BY <1>1 DEF Serving, Handled, Waits
<1>4. Serving(who) /\ Handled(who)
  BY <1>1 DEF Serving, Places
<1>5. client[who] # "answered"
  BY <1>1, <1>4 DEF Places
<1>6. Places'
  BY <1>1, <1>3, <1>4, <1>5 DEF Places, TypeOK
<1>7. Unread'
  BY <1>1, <1>3 DEF Unread, Fresh, Piece
<1>8. Reading' /\ ToHandle'
  BY <1>1 DEF Reading, ToHandle
<1>9. KeptApart'
  BY <1>1 DEF KeptApart, Whole, OwnAnswer, ToHandle, TypeOK
<1> QED BY <1>2, <1>6, <1>7, <1>8, <1>9

(* The server is done with a client. *)
LEMMA CloseI == ASSUME IInv, Close PROVE IInv'
<1> USE DEF IInv
<1>1. /\ st = "close" /\ st' = "accept" /\ who \in Clients
      /\ UNCHANGED <<client, wire, eof, answer, queue, msg, handled, set>>
  BY DEF Close, TypeOK
<1>2. TypeOK'
  BY <1>1 DEF TypeOK
<1>3. \A d \in Clients : /\ ~Serving(d)'
                         /\ Handled(d)' <=> Handled(d)
                         /\ Waits(d)' <=> Waits(d)
  BY <1>1 DEF Serving, Handled, Waits
<1>4. Serving(who) /\ Handled(who)
  BY <1>1 DEF Serving, Places
<1>5. Places'
  BY <1>1, <1>3 DEF Places
<1>6. Unread'
  <2>1. \A d \in Clients : Serving(d) => d = who
    BY DEF Serving
  <2> QED BY <2>1, <1>1, <1>3, <1>4 DEF Unread, Fresh, Piece
<1>7. Reading' /\ ToHandle'
  BY <1>1 DEF Reading, ToHandle
<1>8. KeptApart'
  BY <1>1, ApartStill
<1> QED BY <1>2, <1>5, <1>6, <1>7, <1>8

(* Every step keeps the invariant. *)
LEMMA NextI == IInv /\ [Next]_vars => IInv'
<1> SUFFICES ASSUME IInv, [Next]_vars PROVE IInv'
  OBVIOUS
<1>1. CASE Server
  BY <1>1, AcceptI, ReadI, ReadEofI, HandleRequestI, AnswerI, CloseI DEF Server
<1>2. CASE \E c \in Clients : Client(c) \/ Die(c)
  BY <1>2, ConnectI, SendRequestI, ReadAnswerI, DisconnectI, DieI DEF Client
<1>3. CASE UNCHANGED vars
  BY <1>3 DEF vars, IInv, TypeOK, Places, Waits, Serving, Handled, Unread, Fresh, Piece,
     Reading, Begins, ToHandle, KeptApart, Whole, OwnAnswer
<1> QED BY <1>1, <1>2, <1>3 DEF Next

(* The invariant holds in every state of the servers and their clients. *)
THEOREM Invariant == Spec => []IInv
BY InitI, NextI, PTL DEF Spec

(* Whatever the clients do and however the streams are cut: a request is    *)
(* handled once, whole or, of a client that ends, as far as it was written, *)
(* and its answer goes to the client it came from.                          *)
THEOREM Apart == Spec => []KeptApart
<1>1. IInv => KeptApart
  BY DEF IInv
<1> QED BY <1>1, Invariant, PTL

-----------------------------------------------------------------------------
(* Configuration files: numbers and functions, one by one. *)

(* Among natural numbers there is a least one. *)
LEMMA LeastOf ==
  ASSUME NEW T, T \subseteq Nat, T # {}
  PROVE  \E x \in T : \A y \in T : x <= y
<1>1. PICK x \in T : \A y \in T : ~(<<y, x>> \in OpToRel(<, Nat))
  BY WFMin, NatLessThanWellFounded
<1>2. \A y \in T : ~(y < x)
  BY <1>1 DEF OpToRel
<1> QED BY <1>2

(* What holds at the start and is kept from one number to the next holds    *)
(* for all of them.                                                         *)
LEMMA Along ==
  ASSUME NEW N \in Nat, NEW f, NEW V, f[0] \in V, \A n \in 1 .. N : f[n - 1] \in V => f[n] \in V
  PROVE  \A n \in 0 .. N : f[n] \in V
<1> DEFINE Bad == {n \in Nat : n <= N /\ f[n] \notin V}
<1>1. Bad = {}
  <2> SUFFICES ASSUME Bad # {} PROVE FALSE
    OBVIOUS
  <2>1. PICK k \in Bad : \A l \in Bad : k <= l
    BY LeastOf
  <2>2. k \in Nat /\ k <= N /\ f[k] \notin V /\ k # 0
    BY <2>1
  <2>3. k - 1 \in Nat /\ k - 1 <= N /\ ~(k <= k - 1)
    BY <2>2
  <2>4. f[k - 1] \in V
    BY <2>1, <2>3
  <2>5. k \in 1 .. N
    BY <2>2
  <2> QED BY <2>2, <2>4, <2>5
<1>2. \A n \in 0 .. N : n \in Nat /\ n <= N
  OBVIOUS
<1> QED BY <1>1, <1>2

(* A function that tells each value by the one before it exists.            *)
Leads(N, V, b, F) == N \in Nat /\ b \in V /\ \A n \in 1 .. N : \A v \in V : F[n][v] \in V
Follows(g, N, V, b, F) == g \in [0 .. N -> V] /\ g[0] = b /\ \A n \in 1 .. N : g[n] = F[n][g[n - 1]]

(* A function told by steps that stay in V exists.                          *)
LEMMA OneByOne ==
  ASSUME NEW N, NEW V, NEW b, NEW F, Leads(N, V, b, F)
  PROVE  \E g : Follows(g, N, V, b, F)
<1> USE DEF Leads
<1> DEFINE Is(k, g) == g \in [0 .. k -> V] /\ g[0] = b /\ \A n \in 1 .. k : g[n] = F[n][g[n - 1]]
           Bad == {k \in Nat : k <= N /\ ~\E g : Is(k, g)}
<1>1. Bad = {}
  <2> SUFFICES ASSUME Bad # {} PROVE FALSE
    OBVIOUS
  <2>1. PICK k \in Bad : \A l \in Bad : k <= l
    BY LeastOf
  <2>2. k \in Nat /\ k <= N /\ ~\E g : Is(k, g)
    BY <2>1
  <2>3. CASE k = 0
    <3> DEFINE g == [n \in 0 .. 0 |-> b]
    <3>1. g \in [0 .. 0 -> V] /\ g[0] = b
      OBVIOUS
    <3>2. 1 .. 0 = {}
      OBVIOUS
    <3> HIDE DEF g
    <3>3. Is(0, g)
      BY <3>1, <3>2
    <3> QED BY <2>2, <2>3, <3>3
  <2>4. CASE k # 0
    <3>1. k - 1 \in Nat /\ k - 1 <= N /\ ~(k <= k - 1) /\ k \in 1 .. N
      BY <2>2, <2>4
    <3>2. k - 1 \notin Bad
      BY <2>1, <3>1
    <3>3. PICK g : Is(k - 1, g)
      BY <3>1, <3>2
    <3> DEFINE v == F[k][g[k - 1]]
               h == [n \in 0 .. k |-> IF n = k THEN v ELSE g[n]]
    <3>4. g[k - 1] \in V
      BY <3>1, <3>3
    <3>5. v \in V
      BY <3>1, <3>4
    <3>6. \A n \in 0 .. k : n # k => n \in 0 .. k - 1 /\ g[n] \in V
      BY <3>1, <3>3
    <3> HIDE DEF v
    <3>7. h \in [0 .. k -> V]
      BY <3>5, <3>6
    <3>8. h[0] = b
      BY <3>1, <3>3
    <3>9. ASSUME NEW n \in 1 .. k
          PROVE  h[n] = F[n][h[n - 1]]
      <4>0. n \in 0 .. k /\ n - 1 \in 0 .. k /\ n - 1 # k
        BY <3>1
      <4>1. h[n - 1] = g[n - 1]
        BY <4>0
      <4>2. CASE n = k
        <5>1. h[n] = v
          BY <4>0, <4>2
        <5> QED BY <4>1, <4>2, <5>1 DEF v
      <4>3. CASE n # k
        <5>1. n \in 1 .. k - 1
          BY <3>1, <4>3
        <5>2. h[n] = g[n]
          BY <4>0, <4>3
        <5>3. g[n] = F[n][g[n - 1]]
          BY <3>3, <5>1
        <5> QED BY <4>1, <5>2, <5>3
      <4> QED BY <4>2, <4>3
    <3> HIDE DEF h
    <3>10. Is(k, h)
      BY <3>7, <3>8, <3>9
    <3> HIDE DEF Is
    <3> QED BY <2>2, <3>10
  <2> QED BY <2>3, <2>4
<1>2. N \notin Bad
  BY <1>1
<1>3. \E g : Is(N, g)
  BY <1>2
<1> QED BY <1>3 DEF Follows

-----------------------------------------------------------------------------
(* Lines and what they give. *)
Entries == Names \X Values

(* A disk without rings, as the runs start from. *)
NoRings(d) ==
  /\ DOMAIN d = Files /\ \A f \in Files : d[f] = Absent \/ d[f] \in Seq(AllLines)
  /\ \E rank \in [Files -> 0 .. Cardinality(Files)] :
       \A f \in Files : \A k \in DOMAIN d[f] : Loads(d[f][k]) => rank[d[f][k][2]] < rank[f]

(* A line is an entry, or the name of a file.                               *)
LEMMA LineKinds ==
  ASSUME NEW x \in AllLines
  PROVE  \/ x[1] = "set" /\ ~Loads(x) /\ <<x[2], x[3]>> \in Entries
         \/ x[1] # "set" /\ Loads(x) /\ x[2] \in Files
<1>1. CASE \E n \in Names, v \in Values : x = <<"set", n, v>>
  BY <1>1 DEF Loads, Entries
<1>2. CASE \E f \in Files : x = <<"load", f>> \/ x = <<"safeload", f>>
  BY <1>2 DEF Loads
<1> QED BY <1>1, <1>2 DEF AllLines, Set, Load, SafeLoad

(* A file has lines, each of its kind; one that is absent has one of none.  *)
LEMMA FileLines ==
  ASSUME NEW d, NoRings(d), NEW f \in Files
  PROVE  /\ Len(d[f]) \in Nat /\ DOMAIN d[f] = 1 .. Len(d[f])
         /\ d[f] # Absent => \A k \in 1 .. Len(d[f]) : d[f][k] \in AllLines
         /\ d[f] = Absent => \A k \in 1 .. Len(d[f]) : d[f][k][1] # "set" /\ ~Loads(d[f][k])
<1>1. CASE d[f] = Absent
  <2>1. Len(Absent) = 1 /\ DOMAIN Absent = 1 .. 1 /\ Absent[1][1] = "absent" /\ \A k \in 1 .. 1 : k = 1
    BY DEF Absent
  <2> QED BY <1>1, <2>1 DEF Loads
<1>2. CASE d[f] \in Seq(AllLines) /\ d[f] # Absent
  BY <1>2
<1> QED BY <1>1, <1>2 DEF NoRings

(* What a line gives is entries, when what it loads is.                     *)
LEMMA Given ==
  ASSUME NEW d, NoRings(d), NEW f \in Files, NEW k \in 1 .. Len(d[f]), NEW fl,
         Loads(d[f][k]) /\ d[f][k][2] \in Files => fl[d[f][k][2]] \in Seq(Entries)
  PROVE  EntriesOf(d, fl, d[f][k]) \in Seq(Entries)
<1> DEFINE x == d[f][k]
<1>1. CASE x[1] = "set"
  <2>1. <<x[2], x[3]>> \in Entries
    BY <1>1, FileLines, LineKinds
  <2> DEFINE e == <<x[2], x[3]>>
  <2>2. <<e>> \in Seq(Entries)
    BY <2>1
  <2> QED BY <1>1, <2>2 DEF EntriesOf
<1>2. CASE x[1] # "set" /\ Loads(x)
  <2>1. x[2] \in Files
    BY <1>2, FileLines, LineKinds
  <2> QED BY <1>2, <2>1 DEF EntriesOf
<1>3. CASE x[1] # "set" /\ ~Loads(x)
  BY <1>3 DEF EntriesOf
<1> QED BY <1>1, <1>2, <1>3

-----------------------------------------------------------------------------
(* The last lines of a file, one more and one more.                         *)
GivenBy(d, fl, f, n) == EntriesOf(d, fl, d[f][Len(d[f]) - n + 1])

AllGiven(d, fl, f) == \A n \in 1 .. Len(d[f]) : GivenBy(d, fl, f, n) \in Seq(Entries)

(* Of lines that give entries, LastLines is the recursion it is written as. *)
LEMMA LastTold ==
  ASSUME NEW d, NoRings(d), NEW f \in Files, NEW fl, AllGiven(d, fl, f)
  PROVE  LET last == LastLines(d, fl, f)
         IN  /\ last \in [0 .. Len(d[f]) -> Seq(Entries)] /\ last[0] = <<>>
             /\ \A n \in 1 .. Len(d[f]) : last[n] = GivenBy(d, fl, f, n) \o last[n - 1]
<1> DEFINE N == Len(d[f])
           V == Seq(Entries)
           Step(n, v) == GivenBy(d, fl, f, n) \o v
           F == [n \in 1 .. N |-> [v \in V |-> Step(n, v)]]
           last == CHOOSE l : l = [n \in 0 .. N |-> IF n = 0 THEN <<>> ELSE EntriesOf(d, fl, d[f][Len(d[f]) - n + 1]) \o l[n - 1]]
<1>0. N \in Nat /\ <<>> \in V
  BY FileLines
<1>1. LastLines(d, fl, f) = last
  BY Zenon DEF LastLines
<1>2. \A n \in 1 .. N : \A v \in V : F[n][v] = Step(n, v) /\ Step(n, v) \in V
  <2>1. ASSUME NEW n \in 1 .. N, NEW v \in V
        PROVE  F[n][v] = Step(n, v) /\ Step(n, v) \in V
    <3>1. F[n][v] = Step(n, v)
      OBVIOUS
    <3>2. GivenBy(d, fl, f, n) \in Seq(Entries)
      BY DEF AllGiven
    <3> QED BY <3>1, <3>2
  <2> QED BY <2>1
<1> HIDE DEF F, V
<1>3. PICK g : Follows(g, N, V, <<>>, F)
  <2>1. Leads(N, V, <<>>, F)
    BY <1>0, <1>2 DEF Leads
  <2> QED BY <2>1, OneByOne
<1>4. \A n \in 0 .. N : n # 0 => n \in 1 .. N /\ n - 1 \in 0 .. N
  BY <1>0
<1> HIDE DEF N
<1>5. g = [n \in 0 .. N |-> IF n = 0 THEN <<>> ELSE EntriesOf(d, fl, d[f][Len(d[f]) - n + 1]) \o g[n - 1]]
  <2>1. \A n \in 0 .. N : g[n] = IF n = 0 THEN <<>> ELSE Step(n, g[n - 1])
    BY <1>2, <1>3, <1>4 DEF Follows
  <2>2. g = [n \in 0 .. N |-> g[n]]
    BY <1>3 DEF Follows
  <2> HIDE DEF Step
  <2>3. g = [n \in 0 .. N |-> IF n = 0 THEN <<>> ELSE Step(n, g[n - 1])]
    BY <2>1, <2>2
  <2> QED BY <2>3, Zenon DEF Step, GivenBy
<1>6. last = [n \in 0 .. N |-> IF n = 0 THEN <<>> ELSE EntriesOf(d, fl, d[f][Len(d[f]) - n + 1]) \o last[n - 1]]
  BY <1>5, Zenon
<1> HIDE DEF last
<1>7. last = [n \in 0 .. N |-> IF n = 0 THEN <<>> ELSE Step(n, last[n - 1])]
  BY <1>6, Zenon DEF Step, GivenBy
<1>8. last[0] = <<>> /\ \A n \in 1 .. N : last[n] = Step(n, last[n - 1])
  <2>1. 0 \in 0 .. N /\ \A n \in 1 .. N : n \in 0 .. N /\ n # 0
    BY <1>0
  <2> HIDE DEF Step
  <2> QED BY <1>7, <2>1
<1>9. \A n \in 0 .. N : last[n] \in V
  <2>1. \A n \in 1 .. N : last[n - 1] \in V => last[n] \in V
    BY <1>2, <1>8
  <2> QED BY <1>0, <1>8, <2>1, Along
<1>10. last \in [0 .. N -> V]
  BY <1>7, <1>9
<1> QED BY <1>1, <1>8, <1>10 DEF N, V, Step

(* They are the same when the pieces are.                                   *)
LEMMA SameGiven ==
  ASSUME NEW d, NoRings(d), NEW f \in Files, NEW fl, NEW gl, AllGiven(d, fl, f),
         \A n \in 1 .. Len(d[f]) : GivenBy(d, gl, f, n) = GivenBy(d, fl, f, n)
  PROVE  LastLines(d, gl, f) = LastLines(d, fl, f)
<1> DEFINE N == Len(d[f])
           a == LastLines(d, fl, f)
           b == LastLines(d, gl, f)
           same == [n \in 0 .. N |-> a[n] = b[n]]
<1>1. N \in Nat /\ AllGiven(d, gl, f)
  BY FileLines DEF AllGiven
<1>2. a \in [0 .. N -> Seq(Entries)] /\ a[0] = <<>> /\ \A n \in 1 .. N : a[n] = GivenBy(d, fl, f, n) \o a[n - 1]
  BY LastTold
<1>3. b \in [0 .. N -> Seq(Entries)] /\ b[0] = <<>> /\ \A n \in 1 .. N : b[n] = GivenBy(d, gl, f, n) \o b[n - 1]
  BY <1>1, LastTold
<1> HIDE DEF a, b
<1>4. \A n \in 0 .. N : a[n] = b[n]
  <2> DEFINE Bad == {n \in Nat : n <= N /\ a[n] # b[n]}
  <2>1. Bad = {}
    <3> SUFFICES ASSUME Bad # {} PROVE FALSE
      OBVIOUS
    <3>1. PICK k \in Bad : \A l \in Bad : k <= l
      BY LeastOf
    <3>2. k \in 1 .. N /\ a[k] # b[k] /\ k - 1 \in Nat /\ k - 1 <= N /\ ~(k <= k - 1)
      BY <1>1, <1>2, <1>3, <3>1
    <3>3. a[k - 1] = b[k - 1]
      BY <3>1, <3>2
    <3> QED BY <1>2, <1>3, <3>2, <3>3
  <2> QED BY <1>1, <2>1
<1>5. a = b
  BY <1>2, <1>3, <1>4
<1> QED BY <1>5 DEF a, b

-----------------------------------------------------------------------------
(* Files whose entries are those of their lines. *)
Flattened(d, fl) == \A f \in Files : fl[f] = LastLines(d, fl, f)[Len(d[f])]

Ranked(d, rank) ==
  rank \in [Files -> 0 .. Cardinality(Files)] /\ \A f \in Files : \A k \in DOMAIN d[f] : Loads(d[f][k]) => rank[d[f][k][2]] < rank[f]

(* What a file loads is of a lower rank.                                    *)
LEMMA LowerGiven ==
  ASSUME NEW d, NoRings(d), NEW rank, Ranked(d, rank), NEW f \in Files, NEW fl, NEW gl,
         \A g \in Files : rank[g] < rank[f] => fl[g] \in Seq(Entries) /\ gl[g] = fl[g]
  PROVE  AllGiven(d, fl, f) /\ LastLines(d, gl, f) = LastLines(d, fl, f)
<1>1. ASSUME NEW n \in 1 .. Len(d[f])
      PROVE  GivenBy(d, fl, f, n) \in Seq(Entries) /\ GivenBy(d, gl, f, n) = GivenBy(d, fl, f, n)
  <2> DEFINE k == Len(d[f]) - n + 1
             x == d[f][k]
  <2>1. k \in 1 .. Len(d[f]) /\ k \in DOMAIN d[f]
    BY FileLines
  <2> HIDE DEF k
  <2>2. Loads(x) /\ x[2] \in Files => fl[x[2]] \in Seq(Entries)
    BY <2>1 DEF Ranked
  <2>3. EntriesOf(d, fl, x) \in Seq(Entries)
    BY <2>1, <2>2, Given
  <2>4. Loads(x) => x[1] = "set" \/ d[x[2]] = Absent \/ x[2] \in Files
    BY <2>1, FileLines, LineKinds
  <2>5. EntriesOf(d, gl, x) = EntriesOf(d, fl, x)
    BY <2>1, <2>4 DEF EntriesOf, Ranked
  <2> QED BY <2>3, <2>5 DEF GivenBy, k
<1>2. AllGiven(d, fl, f)
  BY <1>1 DEF AllGiven
<1> QED BY <1>1, <1>2, SameGiven

(* By rank: all that is loaded, at most so deep, is taken in.               *)
LEMMA FlatExists ==
  ASSUME NEW d, NoRings(d)
  PROVE  \E fl \in [Files -> Seq(Entries)] : Flattened(d, fl)
<1>1. PICK rank : Ranked(d, rank)
  BY Zenon DEF NoRings, Ranked
<1> DEFINE V == [Files -> Seq(Entries)]
           One(fl, f) == IF AllGiven(d, fl, f) THEN LastLines(d, fl, f)[Len(d[f])] ELSE <<>>
           All(fl) == [f \in Files |-> One(fl, f)]
           N == Cardinality(Files) + 1
           b == [f \in Files |-> <<>>]
           F == [n \in 1 .. N |-> [fl \in V |-> All(fl)]]
<1>2. N \in Nat /\ \A f \in Files : rank[f] \in Nat /\ rank[f] < N
  <2>1. Cardinality(Files) \in Nat
    BY CfgAssumption, FS_CardinalityType
  <2> QED BY <1>1, <2>1 DEF Ranked
<1> HIDE DEF N
<1>3. ASSUME NEW fl, NEW f \in Files
      PROVE  One(fl, f) \in Seq(Entries)
  <2>1. CASE AllGiven(d, fl, f)
    <3>1. Len(d[f]) \in Nat /\ Len(d[f]) \in 0 .. Len(d[f])
      BY FileLines
    <3>2. LastLines(d, fl, f) \in [0 .. Len(d[f]) -> Seq(Entries)]
      BY <2>1, LastTold
    <3> QED BY <2>1, <3>1, <3>2
  <2>2. CASE ~AllGiven(d, fl, f)
    BY <2>2
  <2> QED BY <2>1, <2>2
<1>4. \A fl : All(fl) \in V
  BY <1>3
<1>5. PICK g : Follows(g, N, V, b, F)
  <2>1. b \in V
    OBVIOUS
  <2> HIDE DEF V, All, b
  <2>2. Leads(N, V, b, F)
    BY <1>2, <1>4, <2>1 DEF Leads
  <2> HIDE DEF F
  <2> QED BY <2>2, OneByOne
<1>6. g \in [0 .. N -> V] /\ \A n \in 1 .. N : g[n] = All(g[n - 1])
  <2>1. \A n \in 1 .. N : n - 1 \in 0 .. N
    BY <1>2
  <2> HIDE DEF V, All, b
  <2> QED BY <1>5, <2>1 DEF Follows
<1>7. ASSUME NEW n \in Nat, n <= N
      PROVE  \A f \in Files : rank[f] < n => g[n][f] = LastLines(d, g[n], f)[Len(d[f])] /\ g[n][f] \in Seq(Entries)
  <2> DEFINE Good(m) == \A f \in Files : rank[f] < m => g[m][f] = LastLines(d, g[m], f)[Len(d[f])]
             Bad == {m \in Nat : m <= N /\ ~Good(m)}
  <2>1. Bad = {}
    <3> SUFFICES ASSUME Bad # {} PROVE FALSE
      OBVIOUS
    <3>1. PICK m \in Bad : \A l \in Bad : m <= l
      BY LeastOf
    <3>2. m \in Nat /\ m <= N /\ ~Good(m)
      BY <3>1
    <3>3. CASE m = 0
      <4>1. Good(0)
        BY <1>2
      <4> QED BY <3>2, <3>3, <4>1
    <3>4. CASE m # 0
      <4>1. m \in 1 .. N /\ m - 1 \in Nat /\ m - 1 <= N /\ m - 1 \in 0 .. N /\ m \in 0 .. N /\ ~(m <= m - 1)
        BY <1>2, <3>2, <3>4
      <4>2. Good(m - 1)
        BY <3>1, <4>1
      <4> DEFINE u == g[m - 1]
                 w == g[m]
      <4>3. u \in V /\ w \in V /\ w = All(u)
        BY <1>6, <4>1
      <4>4. ASSUME NEW f \in Files, rank[f] < m
            PROVE  w[f] = LastLines(d, w, f)[Len(d[f])]
        <5>1. ASSUME NEW h \in Files, rank[h] < rank[f]
              PROVE  u[h] \in Seq(Entries) /\ w[h] = u[h]
          <6>1. rank[h] < m - 1
            BY <1>2, <4>1, <4>4, <5>1
          <6>2. u[h] = LastLines(d, u, h)[Len(d[h])]
            BY <4>2, <6>1
          <6>3. \A i \in Files : rank[i] < rank[h] => u[i] \in Seq(Entries) /\ u[i] = u[i]
            BY <4>3
          <6>4. AllGiven(d, u, h)
            <7> HIDE DEF u, w
            <7> QED BY <1>1, <6>3, LowerGiven
          <6>5. w[h] = One(u, h)
            BY <4>3
          <6> HIDE DEF u, w
          <6> QED BY <4>3, <6>2, <6>4, <6>5
        <5>2. AllGiven(d, u, f) /\ LastLines(d, w, f) = LastLines(d, u, f)
          <6> HIDE DEF u, w
          <6> QED BY <1>1, <5>1, LowerGiven
        <5>3. w[f] = One(u, f)
          BY <4>3
        <5> HIDE DEF u, w
        <5> QED BY <5>2, <5>3
      <4> QED BY <3>2, <4>4
    <3> QED BY <3>3, <3>4
  <2>2. Good(n)
    BY <1>7, <2>1
  <2>3. n \in 0 .. N
    BY <1>2, <1>7
  <2>4. g[n] \in V
    BY <1>6, <2>3
  <2> QED BY <2>2, <2>4
<1>8. Flattened(d, g[N])
  BY <1>2, <1>7 DEF Flattened
<1>9. g[N] \in V
  BY <1>2, <1>6
<1> QED BY <1>8, <1>9

(* Flat tells the entries of every file.                                    *)
LEMMA FlatTold ==
  ASSUME NEW d, NoRings(d)
  PROVE  \E fl \in [Files -> Seq(Entries)] : Flattened(d, fl) /\ \A f \in Files : Flat(d, f) = fl[f]
<1> DEFINE fl == CHOOSE fl : fl = [g \in Files |-> LastLines(d, fl, g)[Len(d[g])]]
<1>1. \A f : Flat(d, f) = fl[f]
  BY Zenon DEF Flat
<1>2. fl = [g \in Files |-> LastLines(d, fl, g)[Len(d[g])]]
  <2>1. PICK t \in [Files -> Seq(Entries)] : Flattened(d, t)
    BY FlatExists
  <2>2. t = [g \in Files |-> LastLines(d, t, g)[Len(d[g])]]
    BY <2>1 DEF Flattened
  <2> QED BY <2>2, Zenon
<1> HIDE DEF fl
<1>3. Flattened(d, fl)
  BY <1>2 DEF Flattened
<1>4. PICK rank : Ranked(d, rank)
  BY Zenon DEF NoRings, Ranked
<1>5. \A f \in Files : fl[f] \in Seq(Entries)
  <2> DEFINE Bad == {n \in Nat : \E f \in Files : rank[f] = n /\ fl[f] \notin Seq(Entries)}
  <2>1. \A f \in Files : rank[f] \in Nat
    BY <1>4, CfgAssumption, FS_CardinalityType DEF Ranked
  <2>2. Bad = {}
    <3> SUFFICES ASSUME Bad # {} PROVE FALSE
      OBVIOUS
    <3>1. PICK n \in Bad : \A l \in Bad : n <= l
      BY LeastOf
    <3>2. PICK f \in Files : rank[f] = n /\ fl[f] \notin Seq(Entries)
      BY <3>1
    <3>3. \A g \in Files : rank[g] < rank[f] => fl[g] \in Seq(Entries) /\ fl[g] = fl[g]
      <4> SUFFICES ASSUME NEW g \in Files, rank[g] < rank[f], fl[g] \notin Seq(Entries)
                   PROVE  FALSE
        OBVIOUS
      <4>1. rank[g] \in Bad
        BY <2>1
      <4>2. n <= rank[g] /\ rank[g] \in Nat /\ n \in Nat
        BY <2>1, <3>1, <4>1
      <4> QED BY <3>2, <4>2
    <3>4. AllGiven(d, fl, f)
      BY <1>4, <3>3, LowerGiven
    <3>5. Len(d[f]) \in 0 .. Len(d[f])
      BY FileLines
    <3>6. LastLines(d, fl, f)[Len(d[f])] \in Seq(Entries)
      BY <3>4, <3>5, LastTold
    <3> QED BY <1>3, <3>2, <3>6 DEF Flattened
  <2> QED BY <2>1, <2>2
<1>6. fl \in [Files -> Seq(Entries)]
  BY <1>2, <1>5
<1> QED BY <1>1, <1>3, <1>6

-----------------------------------------------------------------------------
(* Tables. *)
Agrees(t, u) == \A n \in Names : FindValue(t, n) = FindValue(u, n)

(* A name has a first place in a table, if it has one.                      *)
LEMMA FirstIs ==
  ASSUME NEW t, Len(t) \in Nat, DOMAIN t = 1 .. Len(t), NEW n, PlacesOf(t, n) # {}
  PROVE  FirstPlace(t, n) \in PlacesOf(t, n) /\ \A j \in PlacesOf(t, n) : FirstPlace(t, n) <= j
<1>1. PlacesOf(t, n) \subseteq Nat
  BY DEF PlacesOf
<1>2. \E k \in PlacesOf(t, n) : \A j \in PlacesOf(t, n) : k <= j
  BY <1>1, LeastOf
<1> QED BY <1>2 DEF FirstPlace

(* With one entry to a name, no two places have the same name.              *)
LEMMA NamesApart ==
  ASSUME NEW t \in Seq(Entries), OneToAName(t), NEW j \in DOMAIN t, NEW k \in DOMAIN t, t[j][1] = t[k][1]
  PROVE  j = k
<1> DEFINE D == 1 .. Len(t)
           name == [i \in D |-> t[i][1]]
<1>1. Len(t) \in Nat /\ DOMAIN t = D
  OBVIOUS
<1>2. Tabled(t) = {t[i][1] : i \in D}
  BY <1>1 DEF Tabled, ToSet
<1>3. name \in Surjection(D, Tabled(t))
  BY <1>2 DEF Surjection
<1>4. IsFiniteSet(D) /\ Cardinality(D) = Len(t)
  <2>1. IsFiniteSet(1 .. Len(t)) /\ Cardinality(1 .. Len(t)) = IF 1 > Len(t) THEN 0 ELSE Len(t) - 1 + 1
    BY <1>1, FS_Interval
  <2> QED BY <1>1, <2>1
<1>5. Cardinality(Tabled(t)) = Cardinality(D)
  BY <1>4 DEF OneToAName
<1> HIDE DEF name, D
<1>6. name \in Injection(D, Tabled(t))
  BY <1>3, <1>4, <1>5, FS_Surjection
<1>7. \A a, b \in D : name[a] = name[b] => a = b
  BY <1>6 DEF Injection, IsInjective
<1> QED BY <1>1, <1>7 DEF name, D

(* Sorting a table with one entry to a name changes no answer.              *)
LEMMA SortedAgrees ==
  ASSUME NEW t \in Seq(Entries), NEW u \in Rearranged(t)
  PROVE  u \in Seq(Entries) /\ (OneToAName(t) => Agrees(u, t))
<1>1. PICK p \in Bijection(DOMAIN t, DOMAIN t) : u = [k \in DOMAIN t |-> t[p[k]]]
  BY DEF Rearranged
<1>2. DOMAIN t = 1 .. Len(t) /\ Len(t) \in Nat
  OBVIOUS
<1>3. p \in [DOMAIN t -> DOMAIN t] /\ \A k \in DOMAIN t : \E j \in DOMAIN t : p[j] = k
  BY <1>1 DEF Bijection, Surjection
<1>4. u \in [1 .. Len(t) -> Entries] /\ DOMAIN u = DOMAIN t /\ \A k \in DOMAIN t : u[k] = t[p[k]]
  BY <1>1, <1>2, <1>3
<1>5. u \in Seq(Entries) /\ Len(u) = Len(t)
  BY <1>2, <1>4
<1>6. ASSUME OneToAName(t), NEW n \in Names
      PROVE  FindValue(u, n) = FindValue(t, n)
  <2>1. CASE PlacesOf(t, n) = {}
    <3>1. PlacesOf(u, n) = {}
      BY <1>3, <1>4, <2>1 DEF PlacesOf
    <3> QED BY <2>1, <3>1 DEF FindValue
  <2>2. CASE PlacesOf(t, n) # {}
    <3>1. FirstPlace(t, n) \in DOMAIN t /\ t[FirstPlace(t, n)][1] = n
      BY <1>2, <2>2, FirstIs DEF PlacesOf
    <3>2. PlacesOf(u, n) # {}
      BY <1>3, <1>4, <3>1 DEF PlacesOf
    <3>3. FirstPlace(u, n) \in DOMAIN u /\ u[FirstPlace(u, n)][1] = n
      BY <1>2, <1>4, <1>5, <3>2, FirstIs DEF PlacesOf
    <3>4. p[FirstPlace(u, n)] \in DOMAIN t /\ t[p[FirstPlace(u, n)]][1] = n
      BY <1>3, <1>4, <3>3
    <3>5. p[FirstPlace(u, n)] = FirstPlace(t, n)
      BY <1>6, <3>1, <3>4, NamesApart
    <3> QED BY <1>4, <2>2, <3>2, <3>3, <3>5 DEF FindValue
  <2> QED BY <2>1, <2>2
<1> QED BY <1>5, <1>6 DEF Agrees

(* A table that is set has the value, and one entry more at most.           *)
LEMMA SetInTable ==
  ASSUME NEW t \in Seq(Entries), NEW n \in Names, NEW v \in Values
  PROVE  SetIn(t, n, v) \in Seq(Entries)
<1>1. <<n, v>> \in Entries
  BY DEF Entries
<1> DEFINE e == <<n, v>>
<1>2. e \in Entries /\ SetIn(t, n, v) = IF PlacesOf(t, n) = {} THEN Append(t, e) ELSE [t EXCEPT ![FirstPlace(t, n)] = e]
  BY <1>1 DEF SetIn
<1> HIDE DEF e
<1>3. CASE PlacesOf(t, n) = {}
  <2>1. Append(t, e) \in Seq(Entries)
    BY <1>2
  <2> QED BY <1>2, <1>3, <2>1
<1>4. CASE PlacesOf(t, n) # {}
  <2> DEFINE N == Len(t)
             k == FirstPlace(t, n)
             u == [t EXCEPT ![k] = e]
  <2>1. N \in Nat /\ DOMAIN t = 1 .. N /\ t \in [1 .. N -> Entries]
    OBVIOUS
  <2>2. k \in 1 .. N
    BY <1>4, <2>1, FirstIs DEF PlacesOf
  <2> HIDE DEF N, k
  <2>3. u \in [1 .. N -> Entries]
    BY <1>2, <2>1, <2>2
  <2>4. u \in Seq(Entries)
    BY <2>1, <2>3
  <2> QED BY <1>2, <1>4, <2>4 DEF k
<1> QED BY <1>3, <1>4

-----------------------------------------------------------------------------
(* What is left to read of a file from a line on, and of the files on the   *)
(* stack.                                                                   *)
Rest(d, f, k) == LastLines(d, [g \in Files |-> Flat(d, g)], f)[Len(d[f]) - k + 1]

Frames(d, o) == {fr \in [f : Files, k : Nat, o : {o}] : d[fr.f] # Absent /\ fr.k \in 1 .. Len(d[fr.f]) + 1}

RestOf(d, fr) == Rest(d, fr.f, fr.k)

Remains(stk, d, u) ==
  \E r \in [0 .. Len(stk) -> Seq(Entries)] :
    /\ r[0] = <<>> /\ \A i \in 1 .. Len(stk) : r[i] = RestOf(d, stk[i]) \o r[i - 1]
    /\ r[Len(stk)] = u

(* A file's rest is the entries of its line and the rest after it; all of   *)
(* it is Flat, and after the last line there is none.                       *)
LEMMA RestTold ==
  ASSUME NEW d, NoRings(d), NEW f \in Files
  PROVE  /\ \A k \in 1 .. Len(d[f]) + 1 : Rest(d, f, k) \in Seq(Entries)
         /\ \A k \in 1 .. Len(d[f]) :
              Rest(d, f, k) = EntriesOf(d, [g \in Files |-> Flat(d, g)], d[f][k]) \o Rest(d, f, k + 1)
         /\ Rest(d, f, 1) = Flat(d, f) /\ Rest(d, f, Len(d[f]) + 1) = <<>>
         /\ Flat(d, f) \in Seq(Entries)
<1> DEFINE fl == [g \in Files |-> Flat(d, g)]
           N == Len(d[f])
           last == LastLines(d, fl, f)
<1>1. fl \in [Files -> Seq(Entries)] /\ Flattened(d, fl) /\ fl[f] = Flat(d, f)
  <2>1. PICK t \in [Files -> Seq(Entries)] : Flattened(d, t) /\ \A g \in Files : Flat(d, g) = t[g]
    BY FlatTold
  <2>2. fl = t
    BY <2>1
  <2> QED BY <2>1, <2>2
<1> HIDE DEF fl
<1>2. PICK rank : Ranked(d, rank)
  BY Zenon DEF NoRings, Ranked
<1>3. AllGiven(d, fl, f)
  <2>1. \A g \in Files : rank[g] < rank[f] => fl[g] \in Seq(Entries) /\ fl[g] = fl[g]
    BY <1>1
  <2> QED BY <1>2, <2>1, LowerGiven
<1>4. last \in [0 .. N -> Seq(Entries)] /\ last[0] = <<>> /\ \A n \in 1 .. N : last[n] = GivenBy(d, fl, f, n) \o last[n - 1]
  BY <1>3, LastTold
<1>5. N \in Nat
  BY FileLines
<1>6. \A k : Rest(d, f, k) = last[N - k + 1]
  BY DEF Rest, fl
<1>7. fl[f] = last[N]
  BY <1>1 DEF Flattened
<1> HIDE DEF last
<1>8. ASSUME NEW k \in 1 .. N
      PROVE  Rest(d, f, k) = EntriesOf(d, fl, d[f][k]) \o Rest(d, f, k + 1)
  <2> DEFINE n == N - k + 1
  <2>1. n \in 1 .. N /\ N - n + 1 = k /\ N - (k + 1) + 1 = n - 1
    BY <1>5
  <2> HIDE DEF n, N
  <2>2. GivenBy(d, fl, f, n) = EntriesOf(d, fl, d[f][k])
    BY <2>1 DEF GivenBy, N
  <2>3. Rest(d, f, k) = last[n] /\ Rest(d, f, k + 1) = last[n - 1]
    BY <1>6, <2>1 DEF n
  <2> QED BY <1>4, <2>1, <2>2, <2>3
<1>9. \A k \in 1 .. N + 1 : N - k + 1 \in 0 .. N
  BY <1>5
<1>10. N - 1 + 1 = N /\ N - (N + 1) + 1 = 0
  BY <1>5
<1>11. Rest(d, f, 1) = fl[f] /\ Rest(d, f, N + 1) = <<>>
  BY <1>4, <1>6, <1>7, <1>10
<1>12. \A k \in 1 .. N + 1 : Rest(d, f, k) \in Seq(Entries)
  BY <1>4, <1>6, <1>9
<1> QED BY <1>1, <1>8, <1>11, <1>12 DEF fl

(* The stack without its last, and with one more.                           *)
LEMMA Popped ==
  ASSUME NEW d, NoRings(d), NEW o, NEW stk \in Seq(Frames(d, o)), stk # <<>>, NEW u, Remains(stk, d, u)
  PROVE  /\ Last(stk) \in Frames(d, o) /\ Front(stk) \in Seq(Frames(d, o)) /\ Len(Front(stk)) = Len(stk) - 1
         /\ \E v \in Seq(Entries) : Remains(Front(stk), d, v) /\ u = RestOf(d, Last(stk)) \o v
<1> DEFINE n == Len(stk)
<1>1. n \in Nat \ {0} /\ n \in 1 .. n /\ \A i \in 1 .. n : stk[i] \in Frames(d, o)
  BY ElementOfSeq
<1>2. Front(stk) \in Seq(Frames(d, o)) /\ Len(Front(stk)) = n - 1 /\ \A i \in 1 .. n - 1 : Front(stk)[i] = stk[i]
  <2>1. 1 \in Int /\ n - 1 \in Int /\ \A i \in 1 .. n - 1 : stk[i] \in Frames(d, o)
    BY <1>1
  <2>2. Front(stk) = SubSeq(stk, 1, n - 1)
    BY DEF Front
  <2>3. /\ SubSeq(stk, 1, n - 1) \in Seq(Frames(d, o))
        /\ Len(SubSeq(stk, 1, n - 1)) = IF 1 <= n - 1 THEN n - 1 - 1 + 1 ELSE 0
        /\ \A i \in 1 .. n - 1 - 1 + 1 : SubSeq(stk, 1, n - 1)[i] = stk[1 + i - 1]
    BY <2>1, SubSeqProperties
  <2> HIDE DEF n
  <2> QED BY <1>1, <2>2, <2>3
<1>3. PICK r \in [0 .. n -> Seq(Entries)] :
        r[0] = <<>> /\ (\A i \in 1 .. n : r[i] = RestOf(d, stk[i]) \o r[i - 1]) /\ r[n] = u
  BY DEF Remains
<1> DEFINE s == [i \in 0 .. n - 1 |-> r[i]]
<1>4. s \in [0 .. n - 1 -> Seq(Entries)] /\ (\A i \in 0 .. n - 1 : s[i] = r[i]) /\ 0 \in 0 .. n - 1 /\ n - 1 \in 0 .. n - 1
  <2>1. 0 \in 0 .. n - 1 /\ n - 1 \in 0 .. n - 1 /\ \A i \in 0 .. n - 1 : i \in 0 .. n
    BY <1>1
  <2> HIDE DEF n
  <2> QED BY <1>3, <2>1
<1> HIDE DEF s
<1>5. ASSUME NEW i \in 1 .. n - 1
      PROVE  s[i] = RestOf(d, Front(stk)[i]) \o s[i - 1]
  <2>1. i \in 0 .. n - 1 /\ i - 1 \in 0 .. n - 1 /\ i \in 1 .. n
    BY <1>1
  <2> HIDE DEF n
  <2> QED BY <1>2, <1>3, <1>4, <2>1
<1> HIDE DEF s
<1>6. Remains(Front(stk), d, r[n - 1])
  <2> HIDE DEF n
  <2> QED BY <1>2, <1>3, <1>4, <1>5 DEF Remains
<1>7. Last(stk) = stk[n]
  BY DEF Last
<1>8. RestOf(d, Last(stk)) \o r[n - 1] = u /\ r[n - 1] \in Seq(Entries)
  <2>1. n - 1 \in 0 .. n
    BY <1>1
  <2> HIDE DEF n
  <2> QED BY <1>1, <1>3, <1>7, <2>1
<1> QED BY <1>1, <1>2, <1>6, <1>7, <1>8

(* With one more, what is left of it comes first.                           *)
LEMMA Pushed ==
  ASSUME NEW d, NoRings(d), NEW o, NEW stk \in Seq(Frames(d, o)), NEW fr \in Frames(d, o), NEW u, Remains(stk, d, u)
  PROVE  /\ Append(stk, fr) \in Seq(Frames(d, o)) /\ Append(stk, fr) # <<>>
         /\ RestOf(d, fr) \in Seq(Entries) /\ Remains(Append(stk, fr), d, RestOf(d, fr) \o u)
<1> DEFINE n == Len(stk)
           more == Append(stk, fr)
<1>1. n \in Nat /\ more \in Seq(Frames(d, o)) /\ Len(more) = n + 1 /\ more[n + 1] = fr /\ \A i \in 1 .. n : more[i] = stk[i]
  OBVIOUS
<1>2. PICK r \in [0 .. n -> Seq(Entries)] :
        r[0] = <<>> /\ (\A i \in 1 .. n : r[i] = RestOf(d, stk[i]) \o r[i - 1]) /\ r[n] = u
  BY DEF Remains
<1>3. RestOf(d, fr) \in Seq(Entries)
  BY RestTold DEF Frames, RestOf
<1> HIDE DEF more
<1> DEFINE s == [i \in 0 .. n + 1 |-> IF i = n + 1 THEN RestOf(d, fr) \o u ELSE r[i]]
<1>4. u \in Seq(Entries) /\ RestOf(d, fr) \o u \in Seq(Entries)
  BY <1>1, <1>2, <1>3
<1>5. s \in [0 .. n + 1 -> Seq(Entries)] /\ s[0] = <<>> /\ s[n + 1] = RestOf(d, fr) \o u /\ \A i \in 0 .. n : s[i] = r[i]
  <2>1. \A i \in 0 .. n + 1 : i # n + 1 => i \in 0 .. n
    BY <1>1
  <2>2. 0 # n + 1 /\ \A i \in 0 .. n : i # n + 1 /\ i \in 0 .. n + 1
    BY <1>1
  <2> QED BY <1>1, <1>2, <1>4, <2>1, <2>2
<1> HIDE DEF s
<1>6. ASSUME NEW i \in 1 .. n + 1
      PROVE  s[i] = RestOf(d, more[i]) \o s[i - 1]
  <2>1. CASE i = n + 1
    <3>1. n + 1 - 1 = n /\ n \in 0 .. n
      BY <1>1
    <3>2. s[n] = u /\ s[n + 1] = RestOf(d, fr) \o u /\ more[n + 1] = fr
      BY <1>1, <1>2, <1>5, <3>1
    <3>3. s[i - 1] = u /\ s[i] = s[n + 1] /\ more[i] = fr
      BY <2>1, <3>1, <3>2
    <3> QED BY <3>2, <3>3
  <2>2. CASE i # n + 1
    <3>1. i \in 1 .. n /\ i - 1 \in 0 .. n /\ i \in 0 .. n
      BY <1>1, <2>2
    <3> QED BY <1>1, <1>2, <1>5, <3>1
  <2> QED BY <2>1, <2>2
<1>7. Remains(more, d, RestOf(d, fr) \o u)
  BY <1>1, <1>5, <1>6 DEF Remains
<1>8. more # <<>>
  BY <1>1
<1> QED BY <1>1, <1>3, <1>7, <1>8 DEF more

-----------------------------------------------------------------------------
(* What holds at every step: an object whose table is a file's tells what   *)
(* it read, and the object that reads will, with what is left to read.      *)
Told(o) == read[o] # NotRead => Agrees(tab[o], read[o])

Telling(stk, t, was) == was # NotRead => \E u \in Seq(Entries) : Remains(stk, disk, u) /\ t \o u = was

CfgTypes ==
  /\ NoRings(disk) /\ tab \in [Objs -> Seq(Entries)] /\ own \in [Objs -> Files \cup {None}]
  /\ DOMAIN inited = Objs /\ DOMAIN read = Objs

ByNone == stack = <<>> /\ \A o \in Objs : Told(o)

By(o) ==
  /\ stack \in Seq(Frames(disk, o)) /\ stack # <<>>
  /\ \A p \in Objs \ {o} : Told(p)
  /\ Telling(stack, tab[o], read[o])

CfgInv == CfgTypes /\ (ByNone \/ \E o \in Objs : By(o))

(* A program starts with no table.                                          *)
LEMMA CfgStarts == CfgInit => CfgInv
<1> SUFFICES ASSUME CfgInit PROVE CfgInv
  OBVIOUS
<1>1. NoRings(disk)
  <2>1. disk \in Disks
    BY DEF CfgInit
  <2> QED BY <2>1, CfgAssumption DEF NoRings
<1>2. <<>> \in Seq(Entries)
  OBVIOUS
<1> QED BY <1>1, <1>2 DEF CfgInit, CfgInv, CfgTypes, ByNone, Told

(* The frame on top of the stack, what is left from it on and of those      *)
(* below it.                                                                *)
LEMMA TopOf ==
  ASSUME CfgInv, stack # <<>>
  PROVE  /\ CfgTypes
         /\ \E o \in Objs :
              /\ By(o) /\ Top \in Frames(disk, o) /\ Top.o = o /\ Top.f \in Files /\ disk[Top.f] # Absent
              /\ Top.k \in 1 .. Len(disk[Top.f]) + 1 /\ Below \in Seq(Frames(disk, o))
              /\ Len(Below) = Len(stack) - 1
              /\ Len(disk[Top.f]) \in Nat /\ \A k \in 1 .. Len(disk[Top.f]) : disk[Top.f][k] \in AllLines
              /\ read[o] # NotRead =>
                   \E v \in Seq(Entries) : Remains(Below, disk, v) /\ tab[o] \o (Rest(disk, Top.f, Top.k) \o v) = read[o]
<1>1. PICK o \in Objs : By(o)
  BY DEF CfgInv, ByNone
<1>2. CfgTypes /\ NoRings(disk)
  BY DEF CfgInv, CfgTypes
<1>3. stack \in Seq(Frames(disk, o)) /\ stack # <<>> /\ Telling(stack, tab[o], read[o])
  BY <1>1 DEF By
<1>4. ASSUME NEW u, Remains(stack, disk, u)
      PROVE  /\ Last(stack) \in Frames(disk, o) /\ Front(stack) \in Seq(Frames(disk, o))
             /\ \E v \in Seq(Entries) : Remains(Front(stack), disk, v) /\ u = RestOf(disk, Last(stack)) \o v
  BY <1>2, <1>3, <1>4, Popped
<1>5. Len(stack) \in Nat \ {0} /\ Last(stack) \in Frames(disk, o) /\ Front(stack) \in Seq(Frames(disk, o)) /\ Len(Front(stack)) = Len(stack) - 1
  <2>1. Len(stack) \in Nat \ {0} /\ \A i \in 1 .. Len(stack) : stack[i] \in Frames(disk, o)
    BY <1>3, ElementOfSeq
  <2>2. Front(stack) = SubSeq(stack, 1, Len(stack) - 1) /\ Last(stack) = stack[Len(stack)]
    BY DEF Front, Last
  <2>3. /\ SubSeq(stack, 1, Len(stack) - 1) \in Seq(Frames(disk, o))
        /\ Len(SubSeq(stack, 1, Len(stack) - 1)) = IF 1 <= Len(stack) - 1 THEN Len(stack) - 1 - 1 + 1 ELSE 0
    BY <2>1, SubSeqProperties
  <2>4. Len(stack) \in 1 .. Len(stack)
    BY <2>1
  <2>5. stack[Len(stack)] \in Frames(disk, o)
    BY <2>1, <2>4
  <2> DEFINE n == Len(stack)
             m == Len(SubSeq(stack, 1, n - 1))
  <2>6. n \in Nat \ {0} /\ m = IF 1 <= n - 1 THEN n - 1 - 1 + 1 ELSE 0
    BY <2>1, <2>3
  <2> HIDE DEF n, m
  <2>7. m = n - 1
    BY <2>6
  <2> QED BY <2>1, <2>2, <2>3, <2>5, <2>7 DEF n, m
<1>6. Top = Last(stack) /\ Below = Front(stack)
  BY DEF Top, Below
<1>7. Top \in [f : Files, k : Nat, o : {o}] /\ disk[Top.f] # Absent /\ Top.k \in 1 .. Len(disk[Top.f]) + 1
  BY <1>5, <1>6 DEF Frames
<1>8. Top.f \in Files /\ Top.o = o
  BY <1>7
<1>9. Len(disk[Top.f]) \in Nat /\ \A k \in 1 .. Len(disk[Top.f]) : disk[Top.f][k] \in AllLines
  BY <1>2, <1>7, <1>8, FileLines
<1>10. ASSUME read[o] # NotRead
       PROVE  \E v \in Seq(Entries) : Remains(Below, disk, v) /\ tab[o] \o (Rest(disk, Top.f, Top.k) \o v) = read[o]
  <2>1. PICK u \in Seq(Entries) : Remains(stack, disk, u) /\ tab[o] \o u = read[o]
    BY <1>3, <1>10 DEF Telling
  <2>2. PICK v \in Seq(Entries) : Remains(Front(stack), disk, v) /\ u = RestOf(disk, Last(stack)) \o v
    BY <1>4, <2>1
  <2> QED BY <1>6, <2>1, <2>2 DEF RestOf
<1> QED BY <1>1, <1>2, <1>5, <1>6, <1>7, <1>8, <1>9, <1>10

(* The frame passed a line, on top of those below it.                       *)
LEMMA PassedOf ==
  ASSUME NoRings(disk), NEW o, Top \in Frames(disk, o), Below \in Seq(Frames(disk, o)), Top.k \in 1 .. Len(disk[Top.f])
  PROVE  /\ Passed \in Seq(Frames(disk, o)) /\ Passed # <<>>
         /\ \A v : Remains(Below, disk, v) => Remains(Passed, disk, Rest(disk, Top.f, Top.k + 1) \o v)
<1> DEFINE fr == [Top EXCEPT !.k = @ + 1]
<1>1. Passed = Append(Below, fr)
  BY DEF Passed
<1>2. Top \in [f : Files, k : Nat, o : {o}] /\ disk[Top.f] # Absent /\ Len(disk[Top.f]) \in Nat
  BY FileLines DEF Frames
<1>3. fr \in [f : Files, k : Nat, o : {o}] /\ fr.f = Top.f /\ fr.k = Top.k + 1
  BY <1>2
<1>4. fr.k \in 1 .. Len(disk[fr.f]) + 1
  BY <1>2, <1>3
<1> HIDE DEF fr
<1>5. fr \in Frames(disk, o)
  BY <1>2, <1>3, <1>4 DEF Frames
<1>6. Passed \in Seq(Frames(disk, o)) /\ Passed # <<>>
  <2> HIDE DEF Passed, Below
  <2>1. Append(Below, fr) \in Seq(Frames(disk, o)) /\ Append(Below, fr) # <<>>
    BY <1>5
  <2> QED BY <1>1, <2>1
<1>7. ASSUME NEW v, Remains(Below, disk, v)
      PROVE  Remains(Passed, disk, Rest(disk, Top.f, Top.k + 1) \o v)
  <2>1. Remains(Append(Below, fr), disk, RestOf(disk, fr) \o v)
    BY <1>5, <1>7, Pushed
  <2> QED BY <1>1, <1>3, <2>1 DEF RestOf
<1> QED BY <1>6, <1>7

(* A line that sets a name.                                                 *)
LEMMA ReadSetKeeps == CfgInv /\ ReadSet => CfgInv'
<1> SUFFICES ASSUME CfgInv, ReadSet PROVE CfgInv'
  OBVIOUS
<1> DEFINE e == <<Line[2], Line[3]>>
           R == Rest(disk, Top.f, Top.k)
           S == Rest(disk, Top.f, Top.k + 1)
<1>1. /\ stack # <<>> /\ Top.k <= Len(disk[Top.f]) /\ Line[1] = "set" /\ Line = disk[Top.f][Top.k]
      /\ tab' = [tab EXCEPT ![Top.o] = Append(@, e)] /\ stack' = Passed
      /\ UNCHANGED <<disk, own, inited, read>>
  BY DEF ReadSet, ReadingFile, Line
<1>2. PICK o \in Objs :
        /\ By(o) /\ Top \in Frames(disk, o) /\ Top.o = o /\ Top.f \in Files /\ disk[Top.f] # Absent
        /\ Top.k \in 1 .. Len(disk[Top.f]) + 1 /\ Below \in Seq(Frames(disk, o))
        /\ Len(disk[Top.f]) \in Nat /\ \A k \in 1 .. Len(disk[Top.f]) : disk[Top.f][k] \in AllLines
        /\ read[o] # NotRead =>
             \E v \in Seq(Entries) : Remains(Below, disk, v) /\ tab[o] \o (R \o v) = read[o]
  BY <1>1, TopOf
<1>3. CfgTypes /\ NoRings(disk) /\ tab \in [Objs -> Seq(Entries)]
  BY DEF CfgInv, CfgTypes
<1>4. Top.k \in 1 .. Len(disk[Top.f])
  BY <1>1, <1>2
<1>5. e \in Entries
  <2>1. Line \in AllLines
    BY <1>1, <1>2, <1>4
  <2> HIDE DEF Line
  <2> QED BY <1>1, <2>1, LineKinds
<1>6. R = <<e>> \o S /\ S \in Seq(Entries) /\ R \in Seq(Entries)
  <2>1. EntriesOf(disk, [g \in Files |-> Flat(disk, g)], Line) = <<e>>
    BY <1>1, Zenon DEF EntriesOf
  <2>2. Top.k + 1 \in 1 .. Len(disk[Top.f]) + 1
    BY <1>2, <1>4
  <2> QED BY <1>1, <1>2, <1>3, <1>4, <2>1, <2>2, RestTold
<1>7. /\ Passed \in Seq(Frames(disk, o)) /\ Passed # <<>>
      /\ \A v : Remains(Below, disk, v) => Remains(Passed, disk, S \o v)
  BY <1>2, <1>3, <1>4, PassedOf
<1> HIDE DEF e, R, S
<1>8. tab' \in [Objs -> Seq(Entries)] /\ tab'[o] = tab[o] \o <<e>> /\ tab'[o] \in Seq(Entries) /\ \A p \in Objs \ {o} : tab'[p] = tab[p]
  <2>1. tab[o] \in Seq(Entries) /\ Append(tab[o], e) \in Seq(Entries) /\ Append(tab[o], e) = tab[o] \o <<e>>
    BY <1>3, <1>5, AppendIsConcat
  <2>2. tab' = [tab EXCEPT ![o] = Append(tab[o], e)]
    BY <1>1, <1>2
  <2> QED BY <1>3, <2>1, <2>2
<1>9. Telling(Passed, tab'[o], read[o])
  <2> SUFFICES ASSUME read[o] # NotRead
               PROVE  \E u \in Seq(Entries) : Remains(Passed, disk, u) /\ tab'[o] \o u = read[o]
    BY DEF Telling
  <2>1. PICK v \in Seq(Entries) : Remains(Below, disk, v) /\ tab[o] \o (R \o v) = read[o]
    BY <1>2
  <2>2. Remains(Passed, disk, S \o v) /\ S \o v \in Seq(Entries)
    BY <1>6, <1>7, <2>1
  <2>3. (<<e>> \o S) \o v = <<e>> \o (S \o v) /\ <<e>> \in Seq(Entries)
    BY <1>5, <1>6, ConcatAssociative
  <2>4. (tab[o] \o <<e>>) \o (S \o v) = tab[o] \o (<<e>> \o (S \o v))
    BY <1>3, <2>2, <2>3, ConcatAssociative
  <2> QED BY <1>6, <1>8, <2>1, <2>2, <2>3, <2>4
<1>10. CfgTypes'
  BY <1>1, <1>3, <1>8 DEF CfgTypes
<1>11. By(o)'
  <2>1. Telling(stack, tab[o], read[o])'
    BY <1>1, <1>9 DEF Telling
  <2>2. \A p \in Objs \ {o} : Told(p)'
    BY <1>1, <1>2, <1>8 DEF By, Told
  <2>3. stack' \in Seq(Frames(disk', o)) /\ stack' # <<>>
    BY <1>1, <1>7
  <2> QED BY <2>1, <2>2, <2>3 DEF By
<1> QED BY <1>10, <1>11 DEF CfgInv

(* A line that loads a file that is there.                                  *)
LEMMA ReadLoadKeeps == CfgInv /\ ReadLoad => CfgInv'
<1> SUFFICES ASSUME CfgInv, ReadLoad PROVE CfgInv'
  OBVIOUS
<1> DEFINE g == Line[2]
           fr == [f |-> g, k |-> 1, o |-> Top.o]
           R == Rest(disk, Top.f, Top.k)
           S == Rest(disk, Top.f, Top.k + 1)
           G == Flat(disk, g)
<1>1. /\ stack # <<>> /\ Top.k <= Len(disk[Top.f]) /\ Loads(Line) /\ Line[1] # "set" /\ Line = disk[Top.f][Top.k]
      /\ stack' = Append(Passed, fr) /\ disk[g] # Absent
      /\ UNCHANGED <<disk, tab, own, inited, read>>
  BY DEF ReadLoad, ReadingFile, Line, Loads, Exists
<1>2. PICK o \in Objs :
        /\ By(o) /\ Top \in Frames(disk, o) /\ Top.o = o /\ Top.f \in Files /\ disk[Top.f] # Absent
        /\ Top.k \in 1 .. Len(disk[Top.f]) + 1 /\ Below \in Seq(Frames(disk, o))
        /\ Len(disk[Top.f]) \in Nat /\ \A k \in 1 .. Len(disk[Top.f]) : disk[Top.f][k] \in AllLines
        /\ read[o] # NotRead =>
             \E v \in Seq(Entries) : Remains(Below, disk, v) /\ tab[o] \o (R \o v) = read[o]
  BY <1>1, TopOf
<1>3. CfgTypes /\ NoRings(disk) /\ tab \in [Objs -> Seq(Entries)]
  BY DEF CfgInv, CfgTypes
<1>4. Top.k \in 1 .. Len(disk[Top.f])
  BY <1>1, <1>2
<1>5. g \in Files
  <2>1. Line \in AllLines
    BY <1>1, <1>2, <1>4
  <2> HIDE DEF Line
  <2> QED BY <1>1, <2>1, LineKinds
<1>6. R = G \o S /\ S \in Seq(Entries) /\ R \in Seq(Entries) /\ G \in Seq(Entries) /\ Rest(disk, g, 1) = G
  <2>1. EntriesOf(disk, [h \in Files |-> Flat(disk, h)], Line) = G
    <3>1. EntriesOf(disk, [h \in Files |-> Flat(disk, h)], Line) = [h \in Files |-> Flat(disk, h)][g]
      BY <1>1, Zenon DEF EntriesOf
    <3> QED BY <1>5, <3>1
  <2>2. Top.k + 1 \in 1 .. Len(disk[Top.f]) + 1
    BY <1>2, <1>4
  <2>3. G \in Seq(Entries) /\ Rest(disk, g, 1) = G
    BY <1>3, <1>5, RestTold
  <2> QED BY <1>1, <1>2, <1>3, <1>4, <2>1, <2>2, <2>3, RestTold
<1>7. /\ Passed \in Seq(Frames(disk, o)) /\ Passed # <<>>
      /\ \A v : Remains(Below, disk, v) => Remains(Passed, disk, S \o v)
  BY <1>2, <1>3, <1>4, PassedOf
<1>8. fr \in Frames(disk, o) /\ RestOf(disk, fr) = G
  <2>1. fr.f = g /\ fr.k = 1 /\ fr \in [f : Files, k : Nat, o : {o}]
    BY <1>2, <1>5
  <2>2. Len(disk[g]) \in Nat
    BY <1>3, <1>5, FileLines
  <2> HIDE DEF fr, g
  <2> QED BY <1>1, <1>6, <2>1, <2>2 DEF Frames, RestOf
<1> HIDE DEF fr, g, R, S, G
<1>9. Append(Passed, fr) \in Seq(Frames(disk, o)) /\ Append(Passed, fr) # <<>>
  <2> HIDE DEF Passed
  <2> QED BY <1>7, <1>8
<1>10. Telling(Append(Passed, fr), tab[o], read[o])
  <2> SUFFICES ASSUME read[o] # NotRead
               PROVE  \E u \in Seq(Entries) : Remains(Append(Passed, fr), disk, u) /\ tab[o] \o u = read[o]
    BY DEF Telling
  <2>1. PICK v \in Seq(Entries) : Remains(Below, disk, v) /\ tab[o] \o (R \o v) = read[o]
    BY <1>2
  <2>2. Remains(Passed, disk, S \o v) /\ S \o v \in Seq(Entries)
    BY <1>6, <1>7, <2>1
  <2>3. Remains(Append(Passed, fr), disk, RestOf(disk, fr) \o (S \o v))
    BY <1>3, <1>7, <1>8, <2>2, Pushed
  <2>4. (G \o S) \o v = G \o (S \o v) /\ G \o (S \o v) \in Seq(Entries)
    BY <1>6, <2>2, ConcatAssociative
  <2> QED BY <1>6, <1>8, <2>1, <2>3, <2>4
<1>11. CfgTypes'
  BY <1>1, <1>3 DEF CfgTypes
<1>12. By(o)'
  <2>1. Telling(stack, tab[o], read[o])'
    BY <1>1, <1>10 DEF Telling
  <2>2. \A p \in Objs \ {o} : Told(p)'
    BY <1>1, <1>2 DEF By, Told
  <2>3. stack' \in Seq(Frames(disk', o)) /\ stack' # <<>>
    BY <1>1, <1>9
  <2> QED BY <2>1, <2>2, <2>3 DEF By
<1> QED BY <1>11, <1>12 DEF CfgInv

(* A line that loads a file that is not there.                              *)
LEMMA ReadMissingKeeps == CfgInv /\ ReadMissing => CfgInv'
<1> SUFFICES ASSUME CfgInv, ReadMissing PROVE CfgInv'
  OBVIOUS
<1> DEFINE R == Rest(disk, Top.f, Top.k)
           S == Rest(disk, Top.f, Top.k + 1)
<1>1. /\ stack # <<>> /\ Top.k <= Len(disk[Top.f]) /\ Loads(Line) /\ Line[1] # "set" /\ Line = disk[Top.f][Top.k]
      /\ stack' = stack \/ stack' = Passed
      /\ disk[Line[2]] = Absent
      /\ UNCHANGED <<disk, tab, own, inited, read>>
  BY DEF ReadMissing, ReadingFile, Line, Loads, Exists
<1>2. PICK o \in Objs :
        /\ By(o) /\ Top \in Frames(disk, o) /\ Top.o = o /\ Top.f \in Files /\ disk[Top.f] # Absent
        /\ Top.k \in 1 .. Len(disk[Top.f]) + 1 /\ Below \in Seq(Frames(disk, o))
        /\ Len(disk[Top.f]) \in Nat /\ \A k \in 1 .. Len(disk[Top.f]) : disk[Top.f][k] \in AllLines
        /\ read[o] # NotRead =>
             \E v \in Seq(Entries) : Remains(Below, disk, v) /\ tab[o] \o (R \o v) = read[o]
  BY <1>1, TopOf
<1>3. CfgTypes /\ NoRings(disk) /\ tab \in [Objs -> Seq(Entries)]
  BY DEF CfgInv, CfgTypes
<1>4. Top.k \in 1 .. Len(disk[Top.f])
  BY <1>1, <1>2
<1>5. R = S /\ S \in Seq(Entries)
  <2>1. EntriesOf(disk, [h \in Files |-> Flat(disk, h)], Line) = <<>>
    BY <1>1, Zenon DEF EntriesOf
  <2>2. Top.k + 1 \in 1 .. Len(disk[Top.f]) + 1
    BY <1>2, <1>4
  <2>3. R = <<>> \o S /\ S \in Seq(Entries)
    BY <1>1, <1>2, <1>3, <1>4, <2>1, <2>2, RestTold
  <2> QED BY <2>3, ConcatEmptySeq
<1>6. /\ Passed \in Seq(Frames(disk, o)) /\ Passed # <<>>
      /\ \A v : Remains(Below, disk, v) => Remains(Passed, disk, S \o v)
  BY <1>2, <1>3, <1>4, PassedOf
<1> HIDE DEF R, S
<1>7. Telling(Passed, tab[o], read[o])
  <2> SUFFICES ASSUME read[o] # NotRead
               PROVE  \E u \in Seq(Entries) : Remains(Passed, disk, u) /\ tab[o] \o u = read[o]
    BY DEF Telling
  <2>1. PICK v \in Seq(Entries) : Remains(Below, disk, v) /\ tab[o] \o (R \o v) = read[o]
    BY <1>2
  <2>2. Remains(Passed, disk, S \o v) /\ S \o v \in Seq(Entries)
    BY <1>5, <1>6, <2>1
  <2> QED BY <1>5, <2>1, <2>2
<1>8. CfgTypes'
  BY <1>1, <1>3 DEF CfgTypes
<1>9. By(o)'
  <2>1. Telling(stack', tab[o], read[o])
    BY <1>1, <1>2, <1>7 DEF By
  <2>2. Telling(stack, tab[o], read[o])'
    BY <1>1, <2>1 DEF Telling
  <2>3. \A p \in Objs \ {o} : Told(p)'
    BY <1>1, <1>2 DEF By, Told
  <2>4. stack' \in Seq(Frames(disk', o)) /\ stack' # <<>>
    BY <1>1, <1>2, <1>6 DEF By
  <2> QED BY <2>2, <2>3, <2>4 DEF By
<1> QED BY <1>8, <1>9 DEF CfgInv

(* The end of a file.                                                       *)
LEMMA ReadEndKeeps == CfgInv /\ ReadEnd => CfgInv'
<1> SUFFICES ASSUME CfgInv, ReadEnd PROVE CfgInv'
  OBVIOUS
<1>1. /\ stack # <<>> /\ Top.k > Len(disk[Top.f]) /\ stack' = Below
      /\ inited' = [inited EXCEPT ![Top.o] = TRUE] /\ UNCHANGED <<disk, tab, own, read>>
  BY DEF ReadEnd
<1>2. PICK o \in Objs :
        /\ By(o) /\ Top.f \in Files
        /\ Top.k \in 1 .. Len(disk[Top.f]) + 1 /\ Below \in Seq(Frames(disk, o))
        /\ Len(disk[Top.f]) \in Nat
        /\ read[o] # NotRead =>
             \E v \in Seq(Entries) : Remains(Below, disk, v) /\ tab[o] \o (Rest(disk, Top.f, Top.k) \o v) = read[o]
  BY <1>1, TopOf
<1>3. CfgTypes /\ NoRings(disk) /\ tab \in [Objs -> Seq(Entries)]
  BY DEF CfgInv, CfgTypes
<1>4. Rest(disk, Top.f, Top.k) = <<>>
  <2>1. Top.k = Len(disk[Top.f]) + 1
    BY <1>1, <1>2
  <2> QED BY <1>2, <1>3, <2>1, RestTold
<1>5. ASSUME read[o] # NotRead
      PROVE  \E v \in Seq(Entries) : Remains(Below, disk, v) /\ tab[o] \o v = read[o]
  <2>1. PICK v \in Seq(Entries) : Remains(Below, disk, v) /\ tab[o] \o (<<>> \o v) = read[o]
    BY <1>2, <1>4, <1>5
  <2>2. <<>> \o v = v
    BY ConcatEmptySeq
  <2> QED BY <2>1, <2>2
<1>6. CfgTypes'
  BY <1>1, <1>3 DEF CfgTypes
<1>7. CASE Below = <<>>
  <2>1. ASSUME read[o] # NotRead
        PROVE  tab[o] = read[o]
    <3>1. PICK v \in Seq(Entries) : Remains(<<>>, disk, v) /\ tab[o] \o v = read[o]
      BY <1>5, <1>7, <2>1
    <3>2. Len(<<>>) = 0
      OBVIOUS
    <3>3. v = <<>>
      BY <3>1, <3>2 DEF Remains
    <3>4. tab[o] \o <<>> = tab[o]
      BY <1>3, ConcatEmptySeq
    <3> QED BY <3>1, <3>3, <3>4
  <2>2. Told(o)
    BY <2>1 DEF Told, Agrees
  <2>3. \A p \in Objs : Told(p)
    BY <1>2, <2>2 DEF By
  <2>4. ByNone'
    BY <1>1, <1>7, <2>3 DEF ByNone, Told
  <2> QED BY <1>6, <2>4 DEF CfgInv
<1>8. CASE Below # <<>>
  <2>1. Telling(Below, tab[o], read[o])
    BY <1>5 DEF Telling
  <2>2. Telling(stack, tab[o], read[o])'
    BY <1>1, <2>1 DEF Telling
  <2>3. \A p \in Objs \ {o} : Told(p)'
    BY <1>1, <1>2 DEF By, Told
  <2>4. stack' \in Seq(Frames(disk', o)) /\ stack' # <<>>
    BY <1>1, <1>2, <1>8
  <2>5. By(o)'
    BY <2>2, <2>3, <2>4 DEF By
  <2> QED BY <1>6, <2>5 DEF CfgInv
<1> QED BY <1>7, <1>8

-----------------------------------------------------------------------------
(* Between the readings. *)

(* An object begins to read a file.                                         *)
LEMMA InitKeeps ==
  ASSUME CfgInv, NEW o \in Objs, NEW f \in Files, InitFrom(o, f)
  PROVE  CfgInv'
<1>0. stack = <<>> /\ CfgTypes /\ NoRings(disk) /\ \A p \in Objs : Told(p)
  BY DEF CfgInv, InitFrom, Op, Idle, CfgTypes, By, ByNone
<1>1. CASE ~Exists(f)
  <2>1. UNCHANGED <<disk, tab, own, inited, stack, read>>
    BY <1>1 DEF InitFrom
  <2>2. CfgTypes' /\ ByNone'
    BY <1>0, <2>1 DEF CfgTypes, ByNone, Told
  <2> QED BY <2>2 DEF CfgInv
<1>2. CASE Exists(f)
  <2> DEFINE fr == [f |-> f, k |-> 1, o |-> o]
             new == IF tab[o] = <<>> THEN Flat(disk, f) ELSE NotRead
  <2>1. /\ own' = [own EXCEPT ![o] = f] /\ stack' = <<fr>> /\ read' = [read EXCEPT ![o] = new]
        /\ UNCHANGED <<disk, tab, inited>>
    BY <1>2 DEF InitFrom
  <2>2. CfgTypes'
    BY <1>0, <2>1 DEF CfgTypes
  <2>3. fr \in Frames(disk, o) /\ RestOf(disk, fr) = Flat(disk, f) /\ Flat(disk, f) \in Seq(Entries)
    <3>1. fr.f = f /\ fr.k = 1 /\ fr \in [f : Files, k : Nat, o : {o}]
      OBVIOUS
    <3>2. Len(disk[f]) \in Nat
      BY <1>0, FileLines
    <3>3. disk[f] # Absent
      BY <1>2 DEF Exists
    <3>4. Flat(disk, f) \in Seq(Entries) /\ Rest(disk, f, 1) = Flat(disk, f)
      BY <1>0, RestTold
    <3> HIDE DEF fr
    <3> QED BY <3>1, <3>2, <3>3, <3>4 DEF Frames, RestOf
  <2> HIDE DEF fr, new
  <2>4. Remains(<<>>, disk, <<>>)
    <3>1. Len(<<>>) = 0 /\ <<>> \in Seq(Entries)
      OBVIOUS
    <3> DEFINE r == [i \in 0 .. 0 |-> <<>>]
    <3>2. r \in [0 .. 0 -> Seq(Entries)] /\ r[0] = <<>> /\ 1 .. 0 = {}
      BY <3>1
    <3> HIDE DEF r
    <3> QED BY <3>1, <3>2 DEF Remains
  <2>5. <<fr>> \in Seq(Frames(disk, o)) /\ <<fr>> # <<>> /\ Remains(<<fr>>, disk, Flat(disk, f))
    <3>1. <<>> \in Seq(Frames(disk, o)) /\ Append(<<>>, fr) = <<fr>>
      OBVIOUS
    <3>2. /\ Append(<<>>, fr) \in Seq(Frames(disk, o)) /\ Append(<<>>, fr) # <<>>
          /\ Remains(Append(<<>>, fr), disk, RestOf(disk, fr) \o <<>>)
      BY <1>0, <2>3, <2>4, <3>1, Pushed
    <3>3. Flat(disk, f) \o <<>> = Flat(disk, f)
      BY <2>3, ConcatEmptySeq
    <3> QED BY <2>3, <3>1, <3>2, <3>3
  <2>6. read'[o] = new /\ \A p \in Objs \ {o} : read'[p] = read[p]
    BY <1>0, <2>1 DEF CfgTypes
  <2>7. Telling(stack, tab[o], read[o])'
    <3> SUFFICES ASSUME new # NotRead
                 PROVE  \E u \in Seq(Entries) : Remains(<<fr>>, disk, u) /\ tab[o] \o u = new
      BY <2>1, <2>6 DEF Telling
    <3>1. tab[o] = <<>> /\ new = Flat(disk, f)
      BY DEF new
    <3>2. <<>> \o Flat(disk, f) = Flat(disk, f)
      BY <2>3, ConcatEmptySeq
    <3> QED BY <2>3, <2>5, <3>1, <3>2
  <2>8. \A p \in Objs \ {o} : Told(p)'
    BY <1>0, <2>1, <2>6 DEF Told
  <2>9. stack' \in Seq(Frames(disk', o)) /\ stack' # <<>>
    BY <2>1, <2>5
  <2>10. By(o)'
    BY <2>7, <2>8, <2>9 DEF By
  <2> QED BY <2>2, <2>10 DEF CfgInv
<1> QED BY <1>1, <1>2

(* A table is saved: its file has its entries, a line for each.             *)
LEMMA SavedDisk ==
  ASSUME CfgInv, NEW o \in Objs, Save(o)
  PROVE  NoRings(disk') /\ own[o] \in Files /\ tab[o] \in Seq(Entries) /\ disk'[own[o]] = Lines(tab[o])
<1> DEFINE f == own[o]
           t == tab[o]
<1>1. f \in Files /\ t \in Seq(Entries) /\ disk' = [disk EXCEPT ![f] = Lines(t)] /\ NoRings(disk)
  BY DEF CfgInv, CfgTypes, Save
<1>2. Len(t) \in Nat /\ DOMAIN t = 1 .. Len(t)
  BY <1>1
<1>3. \A k \in 1 .. Len(t) : Lines(t)[k] \in AllLines /\ ~Loads(Lines(t)[k])
  <2>1. ASSUME NEW k \in 1 .. Len(t)
        PROVE  Lines(t)[k] \in AllLines /\ ~Loads(Lines(t)[k])
    <3>1. t[k] \in Names \X Values
      BY <1>1 DEF Entries
    <3>2. t[k][1] \in Names /\ t[k][2] \in Values
      BY <3>1
    <3>3. Lines(t)[k] = <<"set", t[k][1], t[k][2]>>
      BY <1>2 DEF Lines, Set
    <3> DEFINE a == t[k][1]
               b == t[k][2]
    <3>4. Lines(t)[k] = Set(a, b) /\ Lines(t)[k][1] = "set"
      BY <3>3 DEF Set
    <3>5. a \in Names /\ b \in Values
      BY <3>2
    <3> HIDE DEF a, b
    <3> QED BY <3>4, <3>5 DEF AllLines, Loads
  <2> QED BY <2>1
<1>4. Lines(t) \in Seq(AllLines) /\ DOMAIN Lines(t) = 1 .. Len(t)
  <2>1. Lines(t) \in [1 .. Len(t) -> AllLines]
    BY <1>2, <1>3 DEF Lines
  <2> QED BY <1>2, <2>1
<1> HIDE DEF f, t
<1>5. disk' = [disk EXCEPT ![f] = Lines(t)]
  BY <1>1
<1> DEFINE d == disk'
<1>6. DOMAIN disk = Files /\ DOMAIN d = Files /\ d[f] = Lines(t) /\ \A g \in Files : g # f => d[g] = disk[g]
  <2>1. DOMAIN disk = Files
    BY <1>1 DEF NoRings
  <2> QED BY <1>1, <1>5, <2>1
<1> HIDE DEF d
<1>7. NoRings(d)
  <2>1. PICK rank \in [Files -> 0 .. Cardinality(Files)] :
          \A g \in Files : \A k \in DOMAIN disk[g] : Loads(disk[g][k]) => rank[disk[g][k][2]] < rank[g]
    BY <1>1, Zenon DEF NoRings
  <2>2. \A g \in Files : \A k \in DOMAIN d[g] : Loads(d[g][k]) => rank[d[g][k][2]] < rank[g]
    BY <1>3, <1>4, <1>6, <2>1
  <2>3. \A g \in Files : d[g] = Absent \/ d[g] \in Seq(AllLines)
    <3>1. \A g \in Files : disk[g] = Absent \/ disk[g] \in Seq(AllLines)
      BY <1>1 DEF NoRings
    <3> QED BY <1>4, <1>6, <3>1
  <2> QED BY <1>6, <2>1, <2>2, <2>3, Zenon DEF NoRings
<1> QED BY <1>1, <1>6, <1>7 DEF d, f, t

(* A file whose lines are a table's reads as the table.                     *)
LEMMA LinesRead ==
  ASSUME NEW d, NoRings(d), NEW f \in Files, NEW t \in Seq(Entries), d[f] = Lines(t)
  PROVE  Flat(d, f) = t
<1> DEFINE N == Len(t)
           fl == [g \in Files |-> Flat(d, g)]
           g == [n \in 0 .. N |-> SubSeq(t, 1, n) \o Rest(d, f, n + 1)]
<1>1. N \in Nat /\ DOMAIN t = 1 .. N
  OBVIOUS
<1>2. Len(d[f]) = N
  <2>1. DOMAIN d[f] = 1 .. N
    BY <1>1 DEF Lines
  <2>2. DOMAIN d[f] = 1 .. Len(d[f]) /\ Len(d[f]) \in Nat
    BY FileLines
  <2> QED BY <1>1, <2>1, <2>2
<1>3. /\ \A k \in 1 .. N + 1 : Rest(d, f, k) \in Seq(Entries)
      /\ \A k \in 1 .. N : Rest(d, f, k) = EntriesOf(d, fl, d[f][k]) \o Rest(d, f, k + 1)
      /\ Rest(d, f, 1) = Flat(d, f) /\ Rest(d, f, N + 1) = <<>>
      /\ Flat(d, f) \in Seq(Entries)
  BY <1>2, RestTold
<1>4. ASSUME NEW k \in 1 .. N
      PROVE  t[k] \in Entries /\ Rest(d, f, k) = <<t[k]>> \o Rest(d, f, k + 1)
  <2>1. t[k] \in Entries /\ t[k] = <<t[k][1], t[k][2]>>
    BY DEF Entries
  <2>2. d[f][k] = <<"set", t[k][1], t[k][2]>>
    BY <1>1 DEF Lines, Set
  <2>3. EntriesOf(d, fl, d[f][k]) = <<t[k]>>
    BY <2>1, <2>2 DEF EntriesOf
  <2> QED BY <1>3, <2>1, <2>3
<1> HIDE DEF fl
<1>5. ASSUME NEW n \in 1 .. N, g[n - 1] \in {Flat(d, f)}
      PROVE  g[n] \in {Flat(d, f)}
  <2> DEFINE S == SubSeq(t, 1, n - 1)
             R == Rest(d, f, n + 1)
  <2>1. n \in 0 .. N /\ n - 1 \in 0 .. N /\ n - 1 + 1 = n /\ 1 \in 1 .. N /\ n \in 1 .. N /\ n + 1 \in 1 .. N + 1
    BY <1>1
  <2>2. g[n] = SubSeq(t, 1, n) \o R /\ g[n - 1] = S \o Rest(d, f, n)
    BY <2>1
  <2>3. SubSeq(t, 1, n) = S \o <<t[n]>>
    BY <2>1, SubSeqRecursiveSecond
  <2>4. S \in Seq(Entries)
    <3>1. \A i \in 1 .. n - 1 : t[i] \in Entries
      BY <1>1, <2>1
    <3>2. 1 \in Int /\ n - 1 \in Int
      BY <2>1
    <3> QED BY <3>1, <3>2, SubSeqProperties
  <2>5. <<t[n]>> \in Seq(Entries) /\ R \in Seq(Entries) /\ Rest(d, f, n) = <<t[n]>> \o R
    <3>1. t[n] \in Entries /\ Rest(d, f, n) = <<t[n]>> \o R
      BY <1>4
    <3>2. R \in Seq(Entries)
      BY <1>3, <2>1
    <3> DEFINE e == t[n]
    <3>3. <<e>> \in Seq(Entries)
      <4> HIDE DEF e
      <4>1. e \in Entries
        BY <3>1 DEF e
      <4> QED BY <4>1
    <3> QED BY <3>1, <3>2, <3>3
  <2> HIDE DEF S, R
  <2>6. (S \o <<t[n]>>) \o R = S \o (<<t[n]>> \o R)
    BY <2>4, <2>5, ConcatAssociative
  <2> HIDE DEF g
  <2> QED BY <1>5, <2>2, <2>3, <2>5, <2>6
<1>6. g[0] \in {Flat(d, f)}
  <2>1. 0 \in 0 .. N /\ 0 + 1 = 1
    BY <1>1
  <2>2. g[0] = SubSeq(t, 1, 0) \o Rest(d, f, 1)
    BY <2>1
  <2>3. SubSeq(t, 1, 0) = <<>>
    BY SubSeqEmpty
  <2>4. <<>> \o Flat(d, f) = Flat(d, f)
    BY <1>3, ConcatEmptySeq
  <2> HIDE DEF g
  <2> QED BY <1>3, <2>2, <2>3, <2>4
<1>7. g[N] = t
  <2>1. g[N] = SubSeq(t, 1, N) \o Rest(d, f, N + 1)
    <3>1. N \in 0 .. N
      BY <1>1
    <3> HIDE DEF N
    <3> QED BY <3>1
  <2>2. SubSeq(t, 1, N) = t
    BY SubSeqFull
  <2>3. t \o <<>> = t
    BY ConcatEmptySeq
  <2> HIDE DEF g
  <2> QED BY <1>3, <2>1, <2>2, <2>3
<1> HIDE DEF g
<1>8. \A n \in 0 .. N : g[n] \in {Flat(d, f)}
  BY <1>1, <1>5, <1>6, Along
<1> QED BY <1>1, <1>7, <1>8


-----------------------------------------------------------------------------
(* The other operations, and all of them.                                   *)

(* Every step keeps the invariant.                                          *)
LEMMA CfgKeeps == CfgInv /\ [CfgNext]_cfgVars => CfgInv'
<1> SUFFICES ASSUME CfgInv, [CfgNext]_cfgVars PROVE CfgInv'
  OBVIOUS
<1>0. CfgTypes /\ NoRings(disk) /\ tab \in [Objs -> Seq(Entries)] /\ DOMAIN read = Objs /\ DOMAIN inited = Objs
  BY DEF CfgInv, CfgTypes
<1>1. CASE UNCHANGED cfgVars
  <2>1. UNCHANGED <<disk, tab, own, inited, stack, read>>
    BY <1>1 DEF cfgVars
  <2>2. CfgTypes'
    BY <1>0, <2>1 DEF CfgTypes
  <2>3. CASE ByNone
    <3>1. ByNone'
      BY <2>1, <2>3 DEF ByNone, Told
    <3> QED BY <2>2, <3>1 DEF CfgInv
  <2>4. CASE \E o \in Objs : By(o)
    <3>1. PICK o \in Objs : By(o)
      BY <2>4
    <3>2. By(o)'
      BY <2>1, <3>1 DEF By, Told, Telling
    <3> QED BY <2>2, <3>2 DEF CfgInv
  <2> QED BY <2>3, <2>4 DEF CfgInv
<1>2. CASE ReadSet \/ ReadLoad \/ ReadMissing \/ ReadEnd
  BY <1>2, ReadSetKeeps, ReadLoadKeeps, ReadMissingKeeps, ReadEndKeeps
<1>3. CASE \E o \in Objs, f \in Files : InitFrom(o, f)
  BY <1>3, InitKeeps
<1>4. ASSUME Idle, stack' = stack, CfgTypes', \A p \in Objs : Told(p)'
      PROVE  CfgInv'
  <2>1. ByNone'
    BY <1>4 DEF ByNone, Idle
  <2> QED BY <1>4, <2>1 DEF CfgInv
<1>5. Idle => \A p \in Objs : Told(p)
  BY DEF CfgInv, ByNone, By, Idle
<1>6. ASSUME NEW o \in Objs, NEW n \in Names, NEW a \in BOOLEAN, GetParam(o, n, a)
      PROVE  CfgInv'
  <2>1. Idle /\ UNCHANGED <<disk, tab, own, inited, stack, read>>
    BY <1>6 DEF GetParam, Op
  <2>2. CfgTypes' /\ \A p \in Objs : Told(p)'
    BY <1>0, <1>5, <2>1 DEF CfgTypes, Told
  <2> QED BY <1>4, <2>1, <2>2
<1>7. ASSUME NEW o \in Objs, NEW n \in Names, NEW v \in Values, SetParam(o, n, v)
      PROVE  CfgInv'
  <2>1. /\ Idle /\ tab' = [tab EXCEPT ![o] = SetIn(tab[o], n, v)] /\ read' = [read EXCEPT ![o] = NotRead]
        /\ UNCHANGED <<disk, own, inited, stack>>
    BY <1>7 DEF SetParam, Op
  <2>2. SetIn(tab[o], n, v) \in Seq(Entries)
    BY <1>0, SetInTable
  <2>3. CfgTypes'
    BY <1>0, <2>1, <2>2 DEF CfgTypes
  <2>4. \A p \in Objs : Told(p)'
    BY <1>0, <1>5, <2>1 DEF Told
  <2> QED BY <1>4, <2>1, <2>3, <2>4
<1>8. ASSUME NEW o \in Objs, Sort(o)
      PROVE  CfgInv'
  <2>1. PICK t \in Rearranged(tab[o]) : tab' = [tab EXCEPT ![o] = t]
    BY <1>8 DEF Sort
  <2>2. /\ Idle /\ UNCHANGED <<disk, own, inited, stack>>
        /\ read' = IF OneToAName(tab[o]) THEN read ELSE [read EXCEPT ![o] = NotRead]
    BY <1>8 DEF Sort, Op
  <2>3. t \in Seq(Entries) /\ (OneToAName(tab[o]) => Agrees(t, tab[o]))
    BY <1>0, SortedAgrees
  <2>4. CfgTypes'
    BY <1>0, <2>1, <2>2, <2>3 DEF CfgTypes
  <2>5. \A p \in Objs \ {o} : Told(p)'
    BY <1>0, <1>5, <2>1, <2>2 DEF Told
  <2>6. Told(o)'
    <3>1. CASE OneToAName(tab[o])
      BY <1>0, <1>5, <2>1, <2>2, <2>3, <3>1 DEF Told, Agrees
    <3>2. CASE ~OneToAName(tab[o])
      BY <1>0, <2>2, <3>2 DEF Told
    <3> QED BY <3>1, <3>2
  <2> QED BY <1>4, <2>2, <2>4, <2>5, <2>6
<1>9. ASSUME NEW o \in Objs, Save(o)
      PROVE  CfgInv'
  <2>1. Idle /\ UNCHANGED <<tab, own, inited, stack, read>>
    BY <1>9 DEF Save, Op
  <2>2. NoRings(disk')
    BY <1>9, SavedDisk
  <2>3. CfgTypes' /\ \A p \in Objs : Told(p)'
    BY <1>0, <1>5, <2>1, <2>2 DEF CfgTypes, Told
  <2> QED BY <1>4, <2>1, <2>3
<1>10. ASSUME NEW o \in Objs, Renew(o)
       PROVE  CfgInv'
  <2>1. /\ Idle /\ tab' = [tab EXCEPT ![o] = <<>>] /\ own' = [own EXCEPT ![o] = None]
        /\ inited' = [inited EXCEPT ![o] = FALSE] /\ read' = [read EXCEPT ![o] = NotRead]
        /\ UNCHANGED <<disk, stack>>
    BY <1>10 DEF Renew, Op
  <2>2. <<>> \in Seq(Entries)
    OBVIOUS
  <2>3. CfgTypes'
    BY <1>0, <2>1, <2>2 DEF CfgTypes
  <2>4. \A p \in Objs : Told(p)'
    BY <1>0, <1>5, <2>1 DEF Told
  <2> QED BY <1>4, <2>1, <2>3, <2>4
<1>11. ASSUME NEW o \in Objs, NEW p \in Objs, Assign(o, p)
       PROVE  CfgInv'
  <2>1. /\ Idle /\ tab' = [tab EXCEPT ![o] = tab[p]]
        /\ inited' = [inited EXCEPT ![o] = TRUE] /\ read' = [read EXCEPT ![o] = NotRead]
        /\ UNCHANGED <<disk, own, stack>>
    BY <1>11 DEF Assign, Op
  <2>2. tab[p] \in Seq(Entries)
    BY <1>0
  <2>3. CfgTypes'
    BY <1>0, <2>1, <2>2 DEF CfgTypes
  <2>4. \A q \in Objs : Told(q)'
    BY <1>0, <1>5, <2>1 DEF Told
  <2> QED BY <1>4, <2>1, <2>3, <2>4
<1>12. CASE Restart
  <2>1. /\ tab' = [o \in Objs |-> <<>>] /\ own' = [o \in Objs |-> None]
        /\ inited' = [o \in Objs |-> FALSE] /\ read' = [o \in Objs |-> NotRead]
        /\ stack' = <<>> /\ disk' = disk
    BY <1>12 DEF Restart
  <2>2. <<>> \in Seq(Entries)
    OBVIOUS
  <2>3. CfgTypes'
    BY <1>0, <2>1, <2>2 DEF CfgTypes
  <2>4. ByNone'
    BY <2>1 DEF ByNone, Told
  <2> QED BY <2>3, <2>4 DEF CfgInv
<1>13. CASE Stop \/ Exit
  BY <1>1, <1>13 DEF Stop, Exit
<1> QED BY <1>1, <1>2, <1>3, <1>6, <1>7, <1>8, <1>9, <1>10, <1>11, <1>12, <1>13 DEF CfgNext

(* The invariant holds of every behaviour.                                  *)
THEOREM CfgInvariant == CfgSpec => []CfgInv
<1> QED BY CfgStarts, CfgKeeps, PTL DEF CfgSpec

(* A file that is saved reads back as the table it was saved from           *)
(* (CIniFile::Save, CCfgFile::ReadCfgFile).                                 *)
THEOREM ReadsBackSaved == CfgSpec => SavedReadsBack
<1>1. ASSUME CfgInv, [CfgNext]_cfgVars
      PROVE  [\A o \in Objs : Save(o) =>
                \A n \in Names : FindValue(Flat(disk', own[o]), n) = FindValue(tab[o], n)]_cfgVars
  <2>1. ASSUME NEW o \in Objs, Save(o)
        PROVE  Flat(disk', own[o]) = tab[o]
    <3>1. NoRings(disk') /\ own[o] \in Files /\ tab[o] \in Seq(Entries) /\ disk'[own[o]] = Lines(tab[o])
      BY <1>1, <2>1, SavedDisk
    <3> QED BY <3>1, LinesRead
  <2> QED BY <2>1
<1> QED BY <1>1, CfgInvariant, PTL DEF CfgSpec, SavedReadsBack

-----------------------------------------------------------------------------
(* Tables side by side. *)

(* The order of names: each has a number of its own.                        *)
LEMMA NameOrderIs ==
  NameOrder \in [Names -> Nat] /\ \A m, n \in Names : m # n => NameOrder[m] # NameOrder[n]
<1> DEFINE N == Cardinality(Names)
<1>1. N \in Nat /\ ExistsBijection(1 .. N, Names)
  BY CfgAssumption, FS_CardinalityType
<1> HIDE DEF N
<1>2. ExistsBijection(Names, 1 .. N)
  BY <1>1, Fun_ExistsBijSymmetric
<1>3. PICK q \in Bijection(Names, 1 .. N) : TRUE
  BY <1>2 DEF ExistsBijection
<1>4. q \in [Names -> 1 .. N] /\ \A m, n \in Names : m # n => q[m] # q[n]
  BY <1>3 DEF Bijection, Injection, IsInjective
<1>5. NameOrder \in [Names -> 1 .. N] /\ \A m, n \in Names : m # n => NameOrder[m] # NameOrder[n]
  BY <1>4, Zenon DEF NameOrder, N
<1> QED BY <1>1, <1>5

(* A sorted table of one entry to a name is in the strict order of names.   *)
Strict(t) == \A j, k \in DOMAIN t : j < k => NameOrder[t[j][1]] < NameOrder[t[k][1]]

(* Sorting, with no name twice, is the strict order. *)
LEMMA StrictIs ==
  ASSUME NEW t \in Seq(Entries), Ordered(t), OneToAName(t)
  PROVE  Strict(t)
<1>1. DOMAIN t = 1 .. Len(t) /\ Len(t) \in Nat /\ \A k \in DOMAIN t : t[k][1] \in Names
  BY DEF Entries
<1>2. ASSUME NEW j \in DOMAIN t, NEW k \in DOMAIN t, j < k
      PROVE  NameOrder[t[j][1]] < NameOrder[t[k][1]]
  <2>1. t[j][1] # t[k][1]
    BY <1>1, <1>2, NamesApart
  <2>2. ~(NameOrder[t[k][1]] < NameOrder[t[j][1]])
    BY <1>2 DEF Ordered, Precedes
  <2>3. NameOrder[t[j][1]] \in Nat /\ NameOrder[t[k][1]] \in Nat /\ NameOrder[t[j][1]] # NameOrder[t[k][1]]
    BY <1>1, <2>1, NameOrderIs
  <2> QED BY <2>2, <2>3
<1> QED BY <1>2 DEF Strict

(* It answers a name by the entry it has of it.                             *)
LEMMA StrictFinds ==
  ASSUME NEW t \in Seq(Entries), Strict(t), NEW k \in 1 .. Len(t)
  PROVE  FindValue(t, t[k][1]) = t[k][2] /\ t[k][1] \in Names /\ t[k][1] \in Tabled(t)
<1>1. DOMAIN t = 1 .. Len(t) /\ Len(t) \in Nat /\ \A j \in DOMAIN t : t[j][1] \in Names
  BY DEF Entries
<1>2. k \in PlacesOf(t, t[k][1]) /\ PlacesOf(t, t[k][1]) # {}
  BY <1>1 DEF PlacesOf
<1> DEFINE p == FirstPlace(t, t[k][1])
<1>3. p \in DOMAIN t /\ t[p][1] = t[k][1]
  BY <1>1, <1>2, FirstIs DEF PlacesOf
<1> HIDE DEF p
<1>4. p = k
  <2>1. NameOrder[t[p][1]] \in Nat /\ NameOrder[t[k][1]] \in Nat /\ NameOrder[t[p][1]] = NameOrder[t[k][1]]
    BY <1>1, <1>3, NameOrderIs
  <2>2. ~(p < k) /\ ~(k < p)
    BY <1>1, <1>3, <2>1 DEF Strict
  <2> QED BY <1>1, <1>3, <2>2
<1>5. t[k][1] \in Tabled(t)
  BY <1>1 DEF Tabled, ToSet
<1> QED BY <1>1, <1>2, <1>4, <1>5 DEF FindValue, p

(* The names of a table are those at its places.                            *)
LEMMA TabledAt ==
  ASSUME NEW t \in Seq(Entries)
  PROVE  Tabled(t) = {t[k][1] : k \in 1 .. Len(t)}
<1>1. DOMAIN t = 1 .. Len(t)
  OBVIOUS
<1> QED BY <1>1 DEF Tabled, ToSet

(* The walk of CompareEnvVarTables over two strict tables: the names passed *)
(* are apart from those ahead, and told by where they are.                  *)
Behind(t, m) == {t[k][1] : k \in 1 .. m - 1}
NameAt(t, k) == NameOrder[t[k][1]]

Walk == [l : Nat, r : Nat, same : BOOLEAN, differ : SUBSET Names, left : SUBSET Names, right : SUBSET Names]

Walked(left, right, w) ==
  /\ w \in Walk /\ w.l \in 1 .. Len(left) + 1 /\ w.r \in 1 .. Len(right) + 1
  /\ \A j \in 1 .. Len(right), k \in 1 .. Len(left) : j < w.r /\ w.l <= k => NameAt(right, j) < NameAt(left, k)
  /\ \A k \in 1 .. Len(left), j \in 1 .. Len(right) : k < w.l /\ w.r <= j => NameAt(left, k) < NameAt(right, j)
  /\ w.left = Behind(left, w.l) \ Tabled(right)
  /\ w.right = Behind(right, w.r) \ Tabled(left)
  /\ w.differ = {n \in Behind(left, w.l) \cap Behind(right, w.r) : FindValue(left, n) # FindValue(right, n)}
  /\ w.same \/ w.differ \cup w.left \cup w.right # {}

(* One more name is behind.                                                 *)
LEMMA BehindNext ==
  ASSUME NEW t, NEW m \in Nat \ {0}
  PROVE  Behind(t, m + 1) = Behind(t, m) \cup {t[m][1]} /\ Behind(t, 1) = {}
<1>1. 1 .. m + 1 - 1 = (1 .. m - 1) \cup {m} /\ 1 .. 1 - 1 = {}
  OBVIOUS
<1> QED BY <1>1 DEF Behind

(* Names in their order at two places are two names.                        *)
LEMMA NamesInOrder ==
  ASSUME NEW s \in Seq(Entries), NEW t \in Seq(Entries), NEW j \in 1 .. Len(s), NEW k \in 1 .. Len(t)
  PROVE  /\ NameAt(s, j) \in Nat /\ NameAt(t, k) \in Nat
         /\ NameAt(s, j) < NameAt(t, k) => s[j][1] # t[k][1]
         /\ s[j][1] = t[k][1] <=> NameAt(s, j) = NameAt(t, k)
<1>1. s[j][1] \in Names /\ t[k][1] \in Names
  BY DEF Entries
<1>2. NameOrder[s[j][1]] \in Nat /\ NameOrder[t[k][1]] \in Nat
  BY <1>1, NameOrderIs
<1>3. s[j][1] # t[k][1] => NameOrder[s[j][1]] # NameOrder[t[k][1]]
  BY <1>1, NameOrderIs
<1> QED BY <1>2, <1>3 DEF NameAt


(* On in the left table, past a name that the right one has not.            *)
LEMMA OnInLeft ==
  ASSUME NEW left \in Seq(Entries), NEW right \in Seq(Entries), Strict(left), NEW w, Walked(left, right, w),
         w.l <= Len(left), \A j \in 1 .. Len(right) : w.r <= j => NameAt(left, w.l) < NameAt(right, j),
         NEW v \in Walk, v.l = w.l + 1, v.r = w.r, v.differ = w.differ,
         v.left = w.left \cup {left[w.l][1]}, v.right = w.right
  PROVE  Walked(left, right, v)
<1> DEFINE l == w.l
           r == w.r
           L == Len(left)
           R == Len(right)
           x == left[l][1]
<1>1. L \in Nat /\ R \in Nat /\ l \in 1 .. L /\ r \in 1 .. R + 1 /\ l \in Nat \ {0} /\ DOMAIN left = 1 .. L
  BY DEF Walked
<1>2. /\ \A j \in 1 .. R, k \in 1 .. L : j < r /\ l <= k => NameAt(right, j) < NameAt(left, k)
      /\ \A k \in 1 .. L, j \in 1 .. R : k < l /\ r <= j => NameAt(left, k) < NameAt(right, j)
      /\ w.left = Behind(left, l) \ Tabled(right) /\ w.right = Behind(right, r) \ Tabled(left)
      /\ w.differ = {n \in Behind(left, l) \cap Behind(right, r) : FindValue(left, n) # FindValue(right, n)}
  BY Zenon DEF Walked
<1>3. \A j \in 1 .. R : right[j][1] # x
  <2>1. ASSUME NEW j \in 1 .. R
        PROVE  right[j][1] # x
    <3>1. /\ NameAt(right, j) \in Nat /\ NameAt(left, l) \in Nat
          /\ right[j][1] = left[l][1] <=> NameAt(right, j) = NameAt(left, l)
      <4> HIDE DEF l
      <4> QED BY <1>1, NamesInOrder
    <3>2. j < r \/ r <= j
      BY <1>1
    <3>3. NameAt(right, j) < NameAt(left, l) \/ NameAt(left, l) < NameAt(right, j)
      BY <1>1, <1>2, <3>2
    <3> QED BY <3>1, <3>3
  <2> QED BY <2>1
<1>4. x \notin Tabled(right) /\ x \notin Behind(right, r)
  <2>1. Tabled(right) = {right[k][1] : k \in 1 .. R}
    BY TabledAt
  <2>2. 1 .. r - 1 \subseteq 1 .. R
    BY <1>1
  <2> QED BY <1>3, <2>1, <2>2 DEF Behind
<1>5. Behind(left, l + 1) = Behind(left, l) \cup {x}
  BY <1>1, BehindNext
<1>6. \A j \in 1 .. R, k \in 1 .. L : j < r /\ l + 1 <= k => NameAt(right, j) < NameAt(left, k)
  BY <1>1, <1>2
<1>7. \A k \in 1 .. L, j \in 1 .. R : k < l + 1 /\ r <= j => NameAt(left, k) < NameAt(right, j)
  <2>1. ASSUME NEW k \in 1 .. L, NEW j \in 1 .. R, k < l + 1, r <= j
        PROVE  NameAt(left, k) < NameAt(right, j)
    <3>1. k < l \/ k = l
      BY <1>1, <2>1
    <3> QED BY <1>2, <2>1, <3>1
  <2> QED BY <2>1
<1>8. v.left = Behind(left, l + 1) \ Tabled(right)
  BY <1>2, <1>4, <1>5
<1>9. v.differ = {n \in Behind(left, l + 1) \cap Behind(right, r) : FindValue(left, n) # FindValue(right, n)}
  BY <1>2, <1>4, <1>5
<1>10. v.l \in 1 .. L + 1 /\ v.r \in 1 .. R + 1
  BY <1>1
<1>11. v.left # {}
  OBVIOUS
<1>12. v.l = l + 1 /\ v.r = r /\ v.right = Behind(right, r) \ Tabled(left)
  BY <1>2
<1> HIDE DEF l, r
<1> QED BY <1>6, <1>7, <1>8, <1>9, <1>10, <1>11, <1>12 DEF Walked

(* On in the right table, past a name that the left one has not.            *)
LEMMA OnInRight ==
  ASSUME NEW left \in Seq(Entries), NEW right \in Seq(Entries), Strict(right), NEW w, Walked(left, right, w),
         w.r <= Len(right), \A k \in 1 .. Len(left) : w.l <= k => NameAt(right, w.r) < NameAt(left, k),
         NEW v \in Walk, v.l = w.l, v.r = w.r + 1, v.differ = w.differ,
         v.left = w.left, v.right = w.right \cup {right[w.r][1]}
  PROVE  Walked(left, right, v)
<1> DEFINE l == w.l
           r == w.r
           L == Len(left)
           R == Len(right)
           x == right[r][1]
<1>1. L \in Nat /\ R \in Nat /\ r \in 1 .. R /\ l \in 1 .. L + 1 /\ r \in Nat \ {0} /\ DOMAIN right = 1 .. R
  BY DEF Walked
<1>2. /\ \A j \in 1 .. R, k \in 1 .. L : j < r /\ l <= k => NameAt(right, j) < NameAt(left, k)
      /\ \A k \in 1 .. L, j \in 1 .. R : k < l /\ r <= j => NameAt(left, k) < NameAt(right, j)
      /\ w.left = Behind(left, l) \ Tabled(right) /\ w.right = Behind(right, r) \ Tabled(left)
      /\ w.differ = {n \in Behind(left, l) \cap Behind(right, r) : FindValue(left, n) # FindValue(right, n)}
  BY Zenon DEF Walked
<1>3. \A k \in 1 .. L : left[k][1] # x
  <2>1. ASSUME NEW k \in 1 .. L
        PROVE  left[k][1] # x
    <3>1. /\ NameAt(left, k) \in Nat /\ NameAt(right, r) \in Nat
          /\ left[k][1] = right[r][1] <=> NameAt(left, k) = NameAt(right, r)
      BY <1>1, NamesInOrder
    <3>2. k < l \/ l <= k
      BY <1>1
    <3>3. NameAt(left, k) < NameAt(right, r) \/ NameAt(right, r) < NameAt(left, k)
      BY <1>1, <1>2, <3>2
    <3> QED BY <3>1, <3>3
  <2> QED BY <2>1
<1>4. x \notin Tabled(left) /\ x \notin Behind(left, l)
  <2>1. Tabled(left) = {left[k][1] : k \in 1 .. L}
    BY TabledAt
  <2>2. 1 .. l - 1 \subseteq 1 .. L
    BY <1>1
  <2> QED BY <1>3, <2>1, <2>2 DEF Behind
<1>5. Behind(right, r + 1) = Behind(right, r) \cup {x}
  BY <1>1, BehindNext
<1>6. \A k \in 1 .. L, j \in 1 .. R : k < l /\ r + 1 <= j => NameAt(left, k) < NameAt(right, j)
  BY <1>1, <1>2
<1>7. \A j \in 1 .. R, k \in 1 .. L : j < r + 1 /\ l <= k => NameAt(right, j) < NameAt(left, k)
  <2>1. ASSUME NEW j \in 1 .. R, NEW k \in 1 .. L, j < r + 1, l <= k
        PROVE  NameAt(right, j) < NameAt(left, k)
    <3>1. j < r \/ j = r
      BY <1>1, <2>1
    <3> QED BY <1>2, <2>1, <3>1
  <2> QED BY <2>1
<1>8. v.right = Behind(right, r + 1) \ Tabled(left)
  BY <1>2, <1>4, <1>5
<1>9. v.differ = {n \in Behind(left, l) \cap Behind(right, r + 1) : FindValue(left, n) # FindValue(right, n)}
  BY <1>2, <1>4, <1>5
<1>10. v.l \in 1 .. L + 1 /\ v.r \in 1 .. R + 1
  BY <1>1
<1>11. v.right # {}
  OBVIOUS
<1>12. v.l = l /\ v.r = r + 1 /\ v.left = Behind(left, l) \ Tabled(right)
  BY <1>2
<1> HIDE DEF l, r
<1> QED BY <1>6, <1>7, <1>8, <1>9, <1>10, <1>11, <1>12 DEF Walked

(* On in both, past a name they have in common.                             *)
LEMMA OnInBoth ==
  ASSUME NEW left \in Seq(Entries), NEW right \in Seq(Entries), Strict(left), Strict(right), NEW w, Walked(left, right, w),
         w.l <= Len(left), w.r <= Len(right), left[w.l][1] = right[w.r][1],
         NEW v \in Walk, v.l = w.l + 1, v.r = w.r + 1, v.left = w.left, v.right = w.right,
         \/ left[w.l][2] = right[w.r][2] /\ v.differ = w.differ /\ v.same = w.same
         \/ left[w.l][2] # right[w.r][2] /\ v.differ = w.differ \cup {left[w.l][1]}
  PROVE  Walked(left, right, v)
<1> DEFINE l == w.l
           r == w.r
           L == Len(left)
           R == Len(right)
           x == left[l][1]
<1>1. L \in Nat /\ R \in Nat /\ l \in 1 .. L /\ r \in 1 .. R /\ r \in Nat \ {0} /\ l \in Nat \ {0} /\ DOMAIN left = 1 .. L /\ DOMAIN right = 1 .. R
  BY DEF Walked
<1>2. /\ \A j \in 1 .. R, k \in 1 .. L : j < r /\ l <= k => NameAt(right, j) < NameAt(left, k)
      /\ \A k \in 1 .. L, j \in 1 .. R : k < l /\ r <= j => NameAt(left, k) < NameAt(right, j)
      /\ w.left = Behind(left, l) \ Tabled(right) /\ w.right = Behind(right, r) \ Tabled(left)
      /\ w.differ = {n \in Behind(left, l) \cap Behind(right, r) : FindValue(left, n) # FindValue(right, n)}
      /\ w.same \/ w.differ \cup w.left \cup w.right # {}
  BY Zenon DEF Walked
<1>3. /\ FindValue(left, x) = left[l][2] /\ x \in Tabled(left)
      /\ FindValue(right, x) = right[r][2] /\ x \in Tabled(right) /\ x = right[r][1]
  BY <1>1, StrictFinds
<1>4. NameAt(left, l) = NameAt(right, r)
  BY DEF NameAt
<1>5. Behind(right, r + 1) = Behind(right, r) \cup {x} /\ Behind(left, l + 1) = Behind(left, l) \cup {x}
  <2>1. Behind(left, l + 1) = Behind(left, l) \cup {left[l][1]}
    BY <1>1, BehindNext
  <2>2. Behind(right, r + 1) = Behind(right, r) \cup {right[r][1]}
    BY <1>1, BehindNext
  <2> QED BY <1>3, <2>1, <2>2
<1>6. \A k \in 1 .. L, j \in 1 .. R : k < l + 1 /\ r + 1 <= j => NameAt(left, k) < NameAt(right, j)
  <2>1. ASSUME NEW k \in 1 .. L, NEW j \in 1 .. R, k < l + 1, r + 1 <= j
        PROVE  NameAt(left, k) < NameAt(right, j)
    <3>1. (k < l \/ k = l) /\ r <= j /\ r < j
      BY <1>1, <2>1
    <3>2. NameAt(right, r) < NameAt(right, j)
      BY <1>1, <3>1 DEF Strict, NameAt
    <3> QED BY <1>2, <1>4, <3>1, <3>2
  <2> QED BY <2>1
<1>7. \A j \in 1 .. R, k \in 1 .. L : j < r + 1 /\ l + 1 <= k => NameAt(right, j) < NameAt(left, k)
  <2>1. ASSUME NEW j \in 1 .. R, NEW k \in 1 .. L, j < r + 1, l + 1 <= k
        PROVE  NameAt(right, j) < NameAt(left, k)
    <3>1. (j < r \/ j = r) /\ l <= k /\ l < k
      BY <1>1, <2>1
    <3>2. NameAt(left, l) < NameAt(left, k)
      BY <1>1, <3>1 DEF Strict, NameAt
    <3> QED BY <1>2, <1>4, <3>1, <3>2
  <2> QED BY <2>1
<1>8. v.right = Behind(right, r + 1) \ Tabled(left) /\ v.left = Behind(left, l + 1) \ Tabled(right)
  BY <1>2, <1>3, <1>5
<1>9. x \notin Behind(left, l)
  <2>1. ASSUME NEW k \in 1 .. l - 1
        PROVE  left[k][1] # x
    <3>1. k \in 1 .. L /\ k < l
      BY <1>1
    <3>2. NameAt(left, k) < NameAt(left, l)
      BY <1>1, <3>1 DEF Strict, NameAt
    <3> QED BY <1>1, <3>1, <3>2, NamesInOrder
  <2> QED BY <2>1 DEF Behind
<1>10. v.differ = {n \in Behind(left, l + 1) \cap Behind(right, r + 1) : FindValue(left, n) # FindValue(right, n)}
  BY <1>2, <1>3, <1>5, <1>9
<1>11. v.l \in 1 .. L + 1 /\ v.r \in 1 .. R + 1 /\ v.l = l + 1 /\ v.r = r + 1
  BY <1>1
<1>12. v.same \/ v.differ \cup v.left \cup v.right # {}
  BY <1>2
<1> HIDE DEF l, r
<1> QED BY <1>6, <1>7, <1>8, <1>10, <1>11, <1>12 DEF Walked

-----------------------------------------------------------------------------
(* A step of the walk, case by case. *)
Walks(left, right) == {w \in Walk : w.l \in 1 .. Len(left) + 1 /\ w.r \in 1 .. Len(right) + 1}

GoesTo(v, l, r, same, differ, onlyLeft, onlyRight) ==
  /\ v.l = l /\ v.r = r /\ v.same = same /\ v.differ = differ /\ v.left = onlyLeft /\ v.right = onlyRight

(* On in one of the tables or in both, by what is ahead. *)
Moves(left, right, w, v) ==
  \/ w.l > Len(left) /\ w.r > Len(right) /\ v = w
  \/ /\ w.l > Len(left) /\ w.r <= Len(right)
     /\ GoesTo(v, w.l, w.r + 1, w.same, w.differ, w.left, w.right \cup {right[w.r][1]})
  \/ /\ w.l <= Len(left) /\ w.r > Len(right)
     /\ GoesTo(v, w.l + 1, w.r, w.same, w.differ, w.left \cup {left[w.l][1]}, w.right)
  \/ /\ w.l <= Len(left) /\ w.r <= Len(right) /\ left[w.l] = right[w.r]
     /\ GoesTo(v, w.l + 1, w.r + 1, w.same, w.differ, w.left, w.right)
  \/ /\ w.l <= Len(left) /\ w.r <= Len(right) /\ left[w.l] # right[w.r] /\ left[w.l][1] = right[w.r][1]
     /\ GoesTo(v, w.l + 1, w.r + 1, FALSE, w.differ \cup {left[w.l][1]}, w.left, w.right)
  \/ /\ w.l <= Len(left) /\ w.r <= Len(right) /\ left[w.l] # right[w.r] /\ left[w.l][1] # right[w.r][1]
     /\ Precedes(left[w.l], right[w.r])
     /\ GoesTo(v, w.l + 1, w.r, FALSE, w.differ, w.left \cup {left[w.l][1]}, w.right)
  \/ /\ w.l <= Len(left) /\ w.r <= Len(right) /\ left[w.l] # right[w.r] /\ left[w.l][1] # right[w.r][1]
     /\ ~Precedes(left[w.l], right[w.r])
     /\ GoesTo(v, w.l, w.r + 1, FALSE, w.differ, w.left, w.right \cup {right[w.r][1]})

(* A step goes on so.                                                       *)
LEMMA ComparedIs ==
  ASSUME NEW left \in Seq(Entries), NEW right \in Seq(Entries), NEW w \in Walks(left, right),
         NEW v, v = Compared(left, right, w)
  PROVE  v \in Walks(left, right) /\ Moves(left, right, w, v)
<1> DEFINE L == Len(left)
           R == Len(right)
           l == w.l
           r == w.r
           e == left[l]
           f == right[r]
<1>1. L \in Nat /\ R \in Nat /\ l \in 1 .. L + 1 /\ r \in 1 .. R + 1 /\ w \in Walk
  BY DEF Walks
<1>2. (l <= L => e[1] \in Names) /\ (r <= R => f[1] \in Names)
  <2>1. l <= L => e \in Entries
    BY <1>1
  <2>2. r <= R => f \in Entries
    BY <1>1
  <2> HIDE DEF e, f
  <2> QED BY <2>1, <2>2 DEF Entries
<1>3. v = (IF l > L /\ r > R THEN w
           ELSE IF l > L THEN [w EXCEPT !.r = @ + 1, !.right = @ \cup {f[1]}]
           ELSE IF r > R THEN [w EXCEPT !.l = @ + 1, !.left = @ \cup {e[1]}]
           ELSE IF e = f THEN [w EXCEPT !.l = @ + 1, !.r = @ + 1]
           ELSE IF e[1] = f[1]
           THEN [w EXCEPT !.l = @ + 1, !.r = @ + 1, !.same = FALSE, !.differ = @ \cup {e[1]}]
           ELSE IF Precedes(e, f)
           THEN [w EXCEPT !.l = @ + 1, !.same = FALSE, !.left = @ \cup {e[1]}]
           ELSE [w EXCEPT !.r = @ + 1, !.same = FALSE, !.right = @ \cup {f[1]}])
  BY Zenon DEF Compared
<1> DEFINE a == e[1]
           b == f[1]
<1>4. (l <= L => l + 1 \in 1 .. L + 1) /\ (r <= R => r + 1 \in 1 .. R + 1) /\ (l > L <=> ~(l <= L)) /\ (r > R <=> ~(r <= R))
      /\ l + 1 \in Nat /\ r + 1 \in Nat
  BY <1>1
<1>5. (l <= L => a \in Names) /\ (r <= R => b \in Names)
  BY <1>2
<1>6. w.differ \in SUBSET Names /\ w.left \in SUBSET Names /\ w.right \in SUBSET Names /\ w.same \in BOOLEAN
  BY <1>1 DEF Walk
<1> HIDE DEF L, R, e, f, a, b
<1>7. CASE l > L /\ r > R
  BY <1>3, <1>7 DEF L, R, Moves
<1>8. CASE l > L /\ r <= R
  <2>1. v = [w EXCEPT !.r = @ + 1, !.right = @ \cup {b}]
    BY <1>3, <1>4, <1>8 DEF b
  <2>2. v \in Walk /\ GoesTo(v, l, r + 1, w.same, w.differ, w.left, w.right \cup {b})
    BY <1>1, <1>4, <1>5, <1>6, <1>8, <2>1 DEF Walk, GoesTo
  <2>3. v \in Walks(left, right)
    BY <1>1, <1>4, <1>8, <2>2 DEF Walks, GoesTo, L, R
  <2> QED BY <1>8, <2>2, <2>3 DEF Moves, L, R, b, f
<1>9. CASE l <= L /\ r > R
  <2>1. v = [w EXCEPT !.l = @ + 1, !.left = @ \cup {a}]
    BY <1>3, <1>4, <1>9 DEF a
  <2>2. v \in Walk /\ GoesTo(v, l + 1, r, w.same, w.differ, w.left \cup {a}, w.right)
    BY <1>1, <1>4, <1>5, <1>6, <1>9, <2>1 DEF Walk, GoesTo
  <2>3. v \in Walks(left, right)
    BY <1>1, <1>4, <1>9, <2>2 DEF Walks, GoesTo, L, R
  <2> QED BY <1>9, <2>2, <2>3 DEF Moves, L, R, a, e
<1>10. CASE l <= L /\ r <= R /\ e = f
  <2>1. v = [w EXCEPT !.l = @ + 1, !.r = @ + 1]
    BY <1>3, <1>4, <1>10
  <2>2. v \in Walk /\ GoesTo(v, l + 1, r + 1, w.same, w.differ, w.left, w.right)
    BY <1>1, <1>4, <1>6, <2>1 DEF Walk, GoesTo
  <2>3. v \in Walks(left, right)
    BY <1>1, <1>4, <1>10, <2>2 DEF Walks, GoesTo, L, R
  <2> QED BY <1>10, <2>2, <2>3 DEF Moves, L, R, e, f
<1>11. CASE l <= L /\ r <= R /\ e # f /\ e[1] = f[1]
  <2>1. v = [w EXCEPT !.l = @ + 1, !.r = @ + 1, !.same = FALSE, !.differ = @ \cup {a}]
    BY <1>3, <1>4, <1>11 DEF a
  <2>2. v \in Walk /\ GoesTo(v, l + 1, r + 1, FALSE, w.differ \cup {a}, w.left, w.right)
    <3>1. w.differ \cup {a} \in SUBSET Names /\ FALSE \in BOOLEAN
      BY <1>4, <1>5, <1>6, <1>11
    <3>2. v \in Walk
      BY <1>1, <1>4, <1>6, <2>1, <3>1 DEF Walk
    <3>3. DOMAIN w = {"l", "r", "same", "differ", "left", "right"}
      BY <1>1 DEF Walk
    <3>4. GoesTo(v, l + 1, r + 1, FALSE, w.differ \cup {a}, w.left, w.right)
      BY <2>1, <3>3 DEF GoesTo
    <3> QED BY <3>2, <3>4
  <2>3. v \in Walks(left, right)
    BY <1>1, <1>4, <1>11, <2>2 DEF Walks, GoesTo, L, R
  <2> QED BY <1>11, <2>2, <2>3 DEF Moves, L, R, a, e, f
<1>12. CASE l <= L /\ r <= R /\ e # f /\ e[1] # f[1] /\ Precedes(e, f)
  <2>1. v = [w EXCEPT !.l = @ + 1, !.same = FALSE, !.left = @ \cup {a}]
    BY <1>3, <1>4, <1>12 DEF a
  <2>2. v \in Walk /\ GoesTo(v, l + 1, r, FALSE, w.differ, w.left \cup {a}, w.right)
    <3>1. w.left \cup {a} \in SUBSET Names /\ FALSE \in BOOLEAN
      BY <1>4, <1>5, <1>6, <1>12
    <3>2. v \in Walk
      BY <1>1, <1>4, <1>6, <2>1, <3>1 DEF Walk
    <3>3. DOMAIN w = {"l", "r", "same", "differ", "left", "right"}
      BY <1>1 DEF Walk
    <3>4. GoesTo(v, l + 1, r, FALSE, w.differ, w.left \cup {a}, w.right)
      BY <2>1, <3>3 DEF GoesTo
    <3> QED BY <3>2, <3>4
  <2>3. v \in Walks(left, right)
    BY <1>1, <1>4, <1>12, <2>2 DEF Walks, GoesTo, L, R
  <2> QED BY <1>12, <2>2, <2>3 DEF Moves, L, R, a, e, f
<1>13. CASE l <= L /\ r <= R /\ e # f /\ e[1] # f[1] /\ ~Precedes(e, f)
  <2>1. v = [w EXCEPT !.r = @ + 1, !.same = FALSE, !.right = @ \cup {b}]
    BY <1>3, <1>4, <1>13 DEF b
  <2>2. v \in Walk /\ GoesTo(v, l, r + 1, FALSE, w.differ, w.left, w.right \cup {b})
    <3>1. w.right \cup {b} \in SUBSET Names /\ FALSE \in BOOLEAN
      BY <1>4, <1>5, <1>6, <1>13
    <3>2. v \in Walk
      BY <1>1, <1>4, <1>6, <2>1, <3>1 DEF Walk
    <3>3. DOMAIN w = {"l", "r", "same", "differ", "left", "right"}
      BY <1>1 DEF Walk
    <3>4. GoesTo(v, l, r + 1, FALSE, w.differ, w.left, w.right \cup {b})
      BY <2>1, <3>3 DEF GoesTo
    <3> QED BY <3>2, <3>4
  <2>3. v \in Walks(left, right)
    BY <1>1, <1>4, <1>13, <2>2 DEF Walks, GoesTo, L, R
  <2> QED BY <1>13, <2>2, <2>3 DEF Moves, L, R, b, e, f
<1> QED BY <1>4, <1>7, <1>8, <1>9, <1>10, <1>11, <1>12, <1>13

(* A step keeps what is told of the names, in two strict tables.            *)
LEMMA WalkedOn ==
  ASSUME NEW left \in Seq(Entries), NEW right \in Seq(Entries), Strict(left), Strict(right), NEW w, Walked(left, right, w),
         NEW v, v = Compared(left, right, w)
  PROVE  Walked(left, right, v)
<1> DEFINE L == Len(left)
           R == Len(right)
           l == w.l
           r == w.r
<1>0. w \in Walks(left, right) /\ L \in Nat /\ R \in Nat /\ l \in 1 .. L + 1 /\ r \in 1 .. R + 1
      /\ DOMAIN left = 1 .. L /\ DOMAIN right = 1 .. R
  BY DEF Walked, Walks
<1>1. /\ v \in Walks(left, right)
      /\ \/ l > L /\ r > R /\ v = w
         \/ /\ l > L /\ r <= R
            /\ GoesTo(v, l, r + 1, w.same, w.differ, w.left, w.right \cup {right[r][1]})
         \/ /\ l <= L /\ r > R
            /\ GoesTo(v, l + 1, r, w.same, w.differ, w.left \cup {left[l][1]}, w.right)
         \/ /\ l <= L /\ r <= R /\ left[l] = right[r]
            /\ GoesTo(v, l + 1, r + 1, w.same, w.differ, w.left, w.right)
         \/ /\ l <= L /\ r <= R /\ left[l] # right[r] /\ left[l][1] = right[r][1]
            /\ GoesTo(v, l + 1, r + 1, FALSE, w.differ \cup {left[l][1]}, w.left, w.right)
         \/ /\ l <= L /\ r <= R /\ left[l] # right[r] /\ left[l][1] # right[r][1]
            /\ Precedes(left[l], right[r])
            /\ GoesTo(v, l + 1, r, FALSE, w.differ, w.left \cup {left[l][1]}, w.right)
         \/ /\ l <= L /\ r <= R /\ left[l] # right[r] /\ left[l][1] # right[r][1]
            /\ ~Precedes(left[l], right[r])
            /\ GoesTo(v, l, r + 1, FALSE, w.differ, w.left, w.right \cup {right[r][1]})
  <2>1. v \in Walks(left, right) /\ Moves(left, right, w, v)
    BY <1>0, ComparedIs
  <2> QED BY <2>1, Zenon DEF Moves
<1>2. v \in Walk
  BY <1>1 DEF Walks
<1>3. CASE l > L /\ r > R /\ v = w
  BY <1>3
<1>4. CASE r <= R /\ v.l = l /\ v.r = r + 1 /\ v.differ = w.differ /\ v.left = w.left /\ v.right = w.right \cup {right[r][1]}
           /\ (l > L \/ (l <= L /\ NameAt(right, r) < NameAt(left, l)))
  <2>1. \A k \in 1 .. L : l <= k => NameAt(right, r) < NameAt(left, k)
    <3> SUFFICES ASSUME NEW k \in 1 .. L, l <= k PROVE NameAt(right, r) < NameAt(left, k)
      OBVIOUS
    <3>1. l <= L /\ NameAt(right, r) < NameAt(left, l)
      BY <1>0, <1>4
    <3>2. k = l \/ NameAt(left, l) < NameAt(left, k)
      BY <1>0, <3>1 DEF Strict, NameAt
    <3>3. NameAt(right, r) \in Nat /\ NameAt(left, l) \in Nat /\ NameAt(left, k) \in Nat
      <4>1. l \in 1 .. Len(left) /\ r \in 1 .. Len(right)
        BY <1>0, <1>4, <3>1
      <4>2. k \in 1 .. Len(left)
        OBVIOUS
      <4> HIDE DEF l, r
      <4>3. NameAt(right, r) \in Nat /\ NameAt(left, l) \in Nat
        BY <4>1, NamesInOrder
      <4>4. NameAt(left, k) \in Nat
        BY <4>1, <4>2, NamesInOrder
      <4> QED BY <4>3, <4>4
    <3> QED BY <3>1, <3>2, <3>3
  <2> QED BY <1>2, <1>4, <2>1, OnInRight
<1>5. CASE l <= L /\ v.l = l + 1 /\ v.r = r /\ v.differ = w.differ /\ v.left = w.left \cup {left[l][1]} /\ v.right = w.right
           /\ (r > R \/ (r <= R /\ NameAt(left, l) < NameAt(right, r)))
  <2>1. \A j \in 1 .. R : r <= j => NameAt(left, l) < NameAt(right, j)
    <3> SUFFICES ASSUME NEW j \in 1 .. R, r <= j PROVE NameAt(left, l) < NameAt(right, j)
      OBVIOUS
    <3>1. r <= R /\ NameAt(left, l) < NameAt(right, r)
      BY <1>0, <1>5
    <3>2. j = r \/ NameAt(right, r) < NameAt(right, j)
      <4>1. j = r \/ (r < j /\ r \in DOMAIN right /\ j \in DOMAIN right)
        BY <1>0, <3>1
      <4> HIDE DEF r
      <4> QED BY <4>1 DEF Strict, NameAt
    <3>3. NameAt(right, r) \in Nat /\ NameAt(left, l) \in Nat /\ NameAt(right, j) \in Nat
      <4>1. l \in 1 .. Len(left) /\ r \in 1 .. Len(right)
        BY <1>0, <1>5, <3>1
      <4>2. j \in 1 .. Len(right)
        OBVIOUS
      <4> HIDE DEF l, r
      <4>3. NameAt(right, r) \in Nat /\ NameAt(left, l) \in Nat
        BY <4>1, NamesInOrder
      <4>4. NameAt(right, j) \in Nat
        BY <4>1, <4>2, NamesInOrder
      <4> QED BY <4>3, <4>4
    <3> QED BY <3>1, <3>2, <3>3
  <2> QED BY <1>2, <1>5, <2>1, OnInLeft
<1>6. CASE l <= L /\ r <= R /\ left[l] = right[r] /\ GoesTo(v, l + 1, r + 1, w.same, w.differ, w.left, w.right)
  <2>1. left[l][1] = right[r][1] /\ left[l][2] = right[r][2]
    BY <1>6
  <2>2. v.l = l + 1 /\ v.r = r + 1 /\ v.same = w.same /\ v.differ = w.differ /\ v.left = w.left /\ v.right = w.right
    BY <1>6 DEF GoesTo
  <2> QED BY <1>2, <1>6, <2>1, <2>2, OnInBoth
<1>7. CASE l <= L /\ r <= R /\ left[l] # right[r] /\ left[l][1] = right[r][1]
           /\ GoesTo(v, l + 1, r + 1, FALSE, w.differ \cup {left[l][1]}, w.left, w.right)
  <2>1. left[l][1] = right[r][1] /\ left[l][2] # right[r][2]
    <3>1. left[l] \in Entries /\ right[r] \in Entries
      BY <1>0, <1>7
    <3> DEFINE e == left[l]
               f == right[r]
    <3>2. e \in Entries /\ f \in Entries /\ e # f /\ e[1] = f[1]
      BY <1>7, <3>1
    <3> HIDE DEF e, f
    <3>3. e = <<e[1], e[2]>> /\ f = <<f[1], f[2]>>
      BY <3>2 DEF Entries
    <3>4. e[2] # f[2]
      BY <3>2, <3>3
    <3> QED BY <3>2, <3>4 DEF e, f
  <2>2. v.l = l + 1 /\ v.r = r + 1 /\ v.differ = w.differ \cup {left[l][1]} /\ v.left = w.left /\ v.right = w.right
    BY <1>7 DEF GoesTo
  <2> QED BY <1>2, <1>7, <2>1, <2>2, OnInBoth
<1>8. ASSUME l <= L, r <= R, left[l][1] # right[r][1]
      PROVE  /\ Precedes(left[l], right[r]) => NameAt(left, l) < NameAt(right, r)
             /\ ~Precedes(left[l], right[r]) => NameAt(right, r) < NameAt(left, l)
  <2>1. l \in 1 .. Len(left) /\ r \in 1 .. Len(right)
    BY <1>0, <1>8
  <2>2. NameAt(left, l) \in Nat /\ NameAt(right, r) \in Nat /\ NameAt(left, l) # NameAt(right, r)
    <3> HIDE DEF l, r
    <3> QED BY <1>8, <2>1, NamesInOrder
  <2> QED BY <2>2 DEF Precedes, NameAt
<1> HIDE DEF l, r, L, R
<1>9. CASE /\ l <= L /\ r <= R /\ left[l] # right[r] /\ left[l][1] # right[r][1]
           /\ Precedes(left[l], right[r])
           /\ GoesTo(v, l + 1, r, FALSE, w.differ, w.left \cup {left[l][1]}, w.right)
  BY <1>5, <1>8, <1>9 DEF GoesTo
<1>10. CASE /\ l <= L /\ r <= R /\ left[l] # right[r] /\ left[l][1] # right[r][1]
            /\ ~Precedes(left[l], right[r])
            /\ GoesTo(v, l, r + 1, FALSE, w.differ, w.left, w.right \cup {right[r][1]})
  BY <1>4, <1>8, <1>10 DEF GoesTo
<1>11. CASE l > L /\ r <= R /\ GoesTo(v, l, r + 1, w.same, w.differ, w.left, w.right \cup {right[r][1]})
  BY <1>4, <1>11 DEF GoesTo
<1>12. CASE l <= L /\ r > R /\ GoesTo(v, l + 1, r, w.same, w.differ, w.left \cup {left[l][1]}, w.right)
  BY <1>5, <1>12 DEF GoesTo
<1> QED BY <1>1, <1>3, <1>6, <1>7, <1>9, <1>10, <1>11, <1>12

(* Of two tables of one length, the walk goes on in both while it finds the *)
(* same, and each step gets further.                                        *)
Run(left, right, w) ==
  /\ w \in Walks(left, right)
  /\ Len(left) = Len(right) =>
       IF w.same THEN w.l = w.r /\ \A k \in 1 .. w.l - 1 : left[k] = right[k] ELSE left # right

Far(left, right, w, n) == w.l + w.r >= n + 2 \/ (w.l > Len(left) /\ w.r > Len(right))

(* A step keeps that, and gets further. *)
LEMMA RunOn ==
  ASSUME NEW left \in Seq(Entries), NEW right \in Seq(Entries), NEW w, Run(left, right, w), NEW n \in Nat, Far(left, right, w, n),
         NEW v, v = Compared(left, right, w)
  PROVE  Run(left, right, v) /\ Far(left, right, v, n + 1)
<1> DEFINE L == Len(left)
           R == Len(right)
           l == w.l
           r == w.r
           a == w.right \cup {right[r][1]}
           b == w.left \cup {left[l][1]}
           c == w.differ \cup {left[l][1]}
<1>0. w \in Walks(left, right) /\ L \in Nat /\ R \in Nat /\ l \in 1 .. L + 1 /\ r \in 1 .. R + 1 /\ w.same \in BOOLEAN
      /\ DOMAIN left = 1 .. L /\ DOMAIN right = 1 .. R
  BY DEF Run, Walks, Walk
<1>1. /\ v \in Walks(left, right)
      /\ \/ l > L /\ r > R /\ v = w
         \/ l > L /\ r <= R /\ GoesTo(v, l, r + 1, w.same, w.differ, w.left, a)
         \/ l <= L /\ r > R /\ GoesTo(v, l + 1, r, w.same, w.differ, b, w.right)
         \/ l <= L /\ r <= R /\ left[l] = right[r] /\ GoesTo(v, l + 1, r + 1, w.same, w.differ, w.left, w.right)
         \/ l <= L /\ r <= R /\ left[l] # right[r] /\ GoesTo(v, l + 1, r + 1, FALSE, c, w.left, w.right)
         \/ l <= L /\ r <= R /\ left[l] # right[r] /\ GoesTo(v, l + 1, r, FALSE, w.differ, b, w.right)
         \/ l <= L /\ r <= R /\ left[l] # right[r] /\ GoesTo(v, l, r + 1, FALSE, w.differ, w.left, a)
  <2>1. v \in Walks(left, right) /\ Moves(left, right, w, v)
    BY <1>0, ComparedIs
  <2> QED BY <2>1, Zenon DEF Moves
<1>2. (L = R => IF w.same THEN l = r /\ \A k \in 1 .. l - 1 : left[k] = right[k] ELSE left # right)
      /\ (l + r >= n + 2 \/ (l > L /\ r > R))
  BY DEF Run, Far
<1> HIDE DEF a, b, c, l, r
<1>3. Far(left, right, v, n + 1)
  <2>1. (l > L /\ r > R /\ v = w) \/ v.l + v.r >= l + r + 1
    BY <1>0, <1>1 DEF GoesTo
  <2>2. ((l > L /\ r > R /\ v = w)) \/ v.l + v.r >= n + 1 + 2
    <3>1. v.l \in Nat /\ v.r \in Nat
      BY <1>1 DEF Walks, Walk
    <3>2. (l > L /\ r > R /\ v = w) \/ r <= R \/ l <= L
      BY <1>1
    <3>3. l + r >= n + 2 \/ (l > L /\ r > R)
      BY <1>2
    <3> QED BY <1>0, <2>1, <3>1, <3>2, <3>3
  <2> QED BY <1>0, <2>2 DEF Far, l, r
<1>4. ASSUME L = R
      PROVE  IF v.same THEN v.l = v.r /\ \A k \in 1 .. v.l - 1 : left[k] = right[k] ELSE left # right
  <2>1. CASE ~w.same
    BY <1>1, <1>2, <1>4, <2>1 DEF GoesTo
  <2>2. CASE w.same
    <3>1. l = r /\ \A k \in 1 .. l - 1 : left[k] = right[k]
      BY <1>2, <1>4, <2>2
    <3>2. CASE l > L /\ r > R /\ v = w
      BY <2>2, <3>1, <3>2 DEF l, r
    <3>3. CASE l <= L /\ r <= R /\ left[l] = right[r] /\ GoesTo(v, l + 1, r + 1, w.same, w.differ, w.left, w.right)
      <4> DEFINE m == l + 1
      <4>1. v.l = m /\ v.r = m /\ v.same = TRUE
        BY <2>2, <3>1, <3>3 DEF GoesTo
      <4>2. \A k \in 1 .. m - 1 : k \in 1 .. l - 1 \/ k = l
        BY <1>0
      <4>3. left[l] = right[l]
        BY <3>1, <3>3
      <4> HIDE DEF m
      <4>4. \A k \in 1 .. m - 1 : left[k] = right[k]
        BY <3>1, <4>2, <4>3
      <4>6. \A k \in 1 .. v.l - 1 : left[k] = right[k]
        BY <4>1, <4>4, Zenon
      <4>7. v.l = v.r
        BY <4>1
      <4> QED BY <4>1, <4>6, <4>7
    <3>4. CASE l <= L /\ r <= R /\ left[l] # right[r] /\ ~v.same
      BY <3>1, <3>4
    <3>5. ~(l > L /\ r <= R) /\ ~(l <= L /\ r > R)
      BY <1>0, <1>4, <3>1
    <3> QED BY <1>1, <3>2, <3>3, <3>4, <3>5 DEF GoesTo
  <2> QED BY <1>0, <2>1, <2>2
<1> QED BY <1>1, <1>3, <1>4 DEF Run

(* The walk of the comparison, from the first entries on.                   *)
WalkOf(left, right, g) ==
  LET N == Len(left) + Len(right)
  IN  /\ g \in [0 .. N -> Walks(left, right)] /\ g[0] = AtFirst
      /\ \A n \in 1 .. N : g[n] = Compared(left, right, g[n - 1])
      /\ Merge(left, right) =
           [same |-> g[N].same /\ Len(left) = Len(right), differ |-> g[N].differ, left |-> g[N].left, right |-> g[N].right]

(* There is such a walk. *)
LEMMA WalkExists ==
  ASSUME NEW left \in Seq(Entries), NEW right \in Seq(Entries)
  PROVE  /\ \E g : WalkOf(left, right, g)
         /\ AtFirst \in Walks(left, right)
<1> DEFINE N == Len(left) + Len(right)
           V == Walks(left, right)
           F == [n \in 1 .. N |-> [v \in V |-> Compared(left, right, v)]]
           w == CHOOSE w : w = [n \in 0 .. N |-> IF n = 0 THEN AtFirst ELSE Compared(left, right, w[n - 1])]
<1>0. N \in Nat /\ Len(left) \in Nat /\ Len(right) \in Nat
  OBVIOUS
<1>1. Merge(left, right) =
        [same |-> w[N].same /\ Len(left) = Len(right), differ |-> w[N].differ, left |-> w[N].left, right |-> w[N].right]
  BY Zenon DEF Merge
<1>2. AtFirst \in V
  BY <1>0 DEF AtFirst, Walks, Walk
<1>3. \A n \in 1 .. N : \A v \in V : F[n][v] = Compared(left, right, v) /\ Compared(left, right, v) \in V
  <2>1. \A v \in V : Compared(left, right, v) \in V
    BY ComparedIs
  <2> HIDE DEF V
  <2> QED BY <2>1
<1> HIDE DEF F, V, N
<1>4. PICK g : Follows(g, N, V, AtFirst, F)
  <2>1. Leads(N, V, AtFirst, F)
    BY <1>0, <1>2, <1>3 DEF Leads
  <2> QED BY <2>1, OneByOne
<1>5. \A n \in 0 .. N : n # 0 => n \in 1 .. N /\ n - 1 \in 0 .. N
  BY <1>0
<1>6. g = [n \in 0 .. N |-> IF n = 0 THEN AtFirst ELSE Compared(left, right, g[n - 1])]
  <2>1. \A n \in 0 .. N : g[n] = IF n = 0 THEN AtFirst ELSE Compared(left, right, g[n - 1])
    BY <1>3, <1>4, <1>5 DEF Follows
  <2>2. g = [n \in 0 .. N |-> g[n]]
    BY <1>4 DEF Follows
  <2> QED BY <2>1, <2>2
<1>7. w = [n \in 0 .. N |-> IF n = 0 THEN AtFirst ELSE Compared(left, right, w[n - 1])]
  BY <1>6, Zenon
<1> HIDE DEF w
<1>8. w[0] = AtFirst /\ \A n \in 1 .. N : w[n] = Compared(left, right, w[n - 1])
  <2>1. 0 \in 0 .. N /\ \A n \in 1 .. N : n \in 0 .. N /\ n # 0
    BY <1>0
  <2> QED BY <1>7, <2>1
<1>9. \A n \in 0 .. N : w[n] \in V
  <2>1. \A n \in 1 .. N : w[n - 1] \in V => w[n] \in V
    BY <1>3, <1>8
  <2> QED BY <1>0, <1>2, <1>8, <2>1, Along
<1>10. w \in [0 .. N -> V]
  BY <1>7, <1>9
<1>11. WalkOf(left, right, w)
  BY <1>1, <1>8, <1>10, Zenon DEF WalkOf, N, V
<1> QED BY <1>2, <1>11 DEF V

(* The walk passes all the entries of both.                                 *)
LEMMA WalkedAll ==
  ASSUME NEW left \in Seq(Entries), NEW right \in Seq(Entries), NEW g, WalkOf(left, right, g)
  PROVE  LET end == g[Len(left) + Len(right)]
         IN  Run(left, right, end) /\ end.l = Len(left) + 1 /\ end.r = Len(right) + 1
<1> DEFINE L == Len(left)
           R == Len(right)
           N == L + R
           V == {p \in Nat \X Walks(left, right) : Run(left, right, p[2]) /\ Far(left, right, p[2], p[1])}
           h == [n \in 0 .. N |-> <<n, g[n]>>]
<1>1. L \in Nat /\ R \in Nat /\ N \in Nat
  OBVIOUS
<1>2. g \in [0 .. N -> Walks(left, right)] /\ g[0] = AtFirst /\ \A n \in 1 .. N : g[n] = Compared(left, right, g[n - 1])
  BY Zenon DEF WalkOf
<1>3. h[0] \in V
  <2>1. h[0] = <<0, AtFirst>>
    BY <1>1, <1>2
  <2>2. AtFirst \in Walks(left, right)
    BY WalkExists
  <2>3. Run(left, right, AtFirst) /\ Far(left, right, AtFirst, 0)
    <3>1. AtFirst.l = 1 /\ AtFirst.r = 1 /\ AtFirst.same = TRUE
      BY DEF AtFirst
    <3> QED BY <2>2, <3>1 DEF Run, Far
  <2> HIDE DEF h
  <2> QED BY <2>1, <2>2, <2>3
<1> HIDE DEF N
<1>4. ASSUME NEW n \in 1 .. N, h[n - 1] \in V
      PROVE  h[n] \in V
  <2>1. n - 1 \in 0 .. N /\ n \in 0 .. N /\ n - 1 \in Nat /\ n \in Nat /\ n - 1 + 1 = n
    BY <1>1
  <2>2. h[n - 1] = <<n - 1, g[n - 1]>> /\ h[n] = <<n, g[n]>>
    BY <2>1
  <2> HIDE DEF h
  <2>3. Run(left, right, g[n - 1]) /\ Far(left, right, g[n - 1], n - 1) /\ g[n] = Compared(left, right, g[n - 1])
    BY <1>2, <1>4, <2>2
  <2>4. Run(left, right, g[n]) /\ Far(left, right, g[n], n - 1 + 1)
    BY <2>1, <2>3, RunOn
  <2>5. g[n] \in Walks(left, right)
    BY <1>2, <2>1
  <2> QED BY <2>1, <2>2, <2>4, <2>5
<1> HIDE DEF h, V
<1>5. \A n \in 0 .. N : h[n] \in V
  BY <1>1, <1>3, <1>4, Along
<1>6. h[N] = <<N, g[N]>> /\ h[N] \in V
  <2>1. N \in 0 .. N
    BY <1>1
  <2> QED BY <1>5, <2>1 DEF h
<1>7. Run(left, right, g[N]) /\ Far(left, right, g[N], N)
  BY <1>6 DEF V
<1> DEFINE end == g[N]
<1>8. end.l \in 1 .. L + 1 /\ end.r \in 1 .. R + 1
  BY <1>7 DEF Run, Walks
<1> HIDE DEF end
<1>9. end.l + end.r >= N + 2 \/ (end.l > L /\ end.r > R)
  BY <1>7 DEF Far, end
<1>10. end.l = L + 1 /\ end.r = R + 1
  BY <1>1, <1>8, <1>9 DEF N
<1> QED BY <1>7, <1>10 DEF end, N

(* It finds two tables the same only if they are.                           *)
LEMMA MergeSame ==
  ASSUME NEW left \in Seq(Entries), NEW right \in Seq(Entries)
  PROVE  Merge(left, right).same <=> left = right
<1>1. PICK g : WalkOf(left, right, g)
  BY WalkExists
<1> DEFINE end == g[Len(left) + Len(right)]
<1>2. Run(left, right, end) /\ end.l = Len(left) + 1 /\ end.r = Len(right) + 1
  BY <1>1, WalkedAll
<1>3. Merge(left, right).same <=> end.same /\ Len(left) = Len(right)
  <2>1. Merge(left, right) =
          [same |-> end.same /\ Len(left) = Len(right), differ |-> end.differ, left |-> end.left, right |-> end.right]
    BY <1>1, Zenon DEF WalkOf
  <2> DEFINE b == end.same /\ Len(left) = Len(right)
  <2> HIDE DEF end, b
  <2>2. Merge(left, right) = [same |-> b, differ |-> end.differ, left |-> end.left, right |-> end.right]
    BY <2>1, Zenon DEF b
  <2>3. Merge(left, right).same = b
    BY <2>2
  <2> QED BY <2>3, Zenon DEF b
<1> HIDE DEF end
<1>4. ASSUME end.same, Len(left) = Len(right)
      PROVE  left = right
  <2>1. \A k \in 1 .. end.l - 1 : left[k] = right[k]
    BY <1>2, <1>4 DEF Run
  <2>2. end.l - 1 = Len(left)
    BY <1>2
  <2>3. \A k \in 1 .. Len(left) : left[k] = right[k]
    BY <2>1, <2>2
  <2> QED BY <1>4, <2>3, SeqEqual
<1>5. ASSUME left = right
      PROVE  end.same /\ Len(left) = Len(right)
  BY <1>2, <1>5 DEF Run
<1> QED BY <1>3, <1>4, <1>5

(* Of sorted tables of one entry to a name, it names what differs and what  *)
(* is in one of them only.                                                  *)
LEMMA MergeApart ==
  ASSUME NEW left \in Seq(Entries), NEW right \in Seq(Entries), Ordered(left), Ordered(right),
         OneToAName(left), OneToAName(right)
  PROVE  Merge(left, right) = NotSorted(left, right)
<1>1. Strict(left) /\ Strict(right)
  BY StrictIs
<1>2. PICK g : WalkOf(left, right, g)
  BY WalkExists
<1> DEFINE L == Len(left)
           R == Len(right)
           N == L + R
           end == g[N]
           V == {w \in Walks(left, right) : Walked(left, right, w)}
           changed == {n \in Tabled(left) \cap Tabled(right) : FindValue(left, n) # FindValue(right, n)}
           onlyLeft == Tabled(left) \ Tabled(right)
           onlyRight == Tabled(right) \ Tabled(left)
<1>3. L \in Nat /\ R \in Nat /\ N \in Nat /\ N \in 0 .. N
  OBVIOUS
<1>4. g \in [0 .. N -> Walks(left, right)] /\ g[0] = AtFirst /\ \A n \in 1 .. N : g[n] = Compared(left, right, g[n - 1])
  BY <1>2, Zenon DEF WalkOf
<1>5. Merge(left, right) = [same |-> end.same /\ L = R, differ |-> end.differ, left |-> end.left, right |-> end.right]
  BY <1>2, Zenon DEF WalkOf
<1>6. end.l = L + 1 /\ end.r = R + 1
  BY <1>2, WalkedAll
<1>7. Walked(left, right, AtFirst)
  <2>1. AtFirst \in Walks(left, right)
    BY WalkExists
  <2>2. AtFirst.l = 1 /\ AtFirst.r = 1 /\ AtFirst.same = TRUE /\ AtFirst.differ = {} /\ AtFirst.left = {} /\ AtFirst.right = {}
    BY DEF AtFirst
  <2>3. Behind(left, 1) = {} /\ Behind(right, 1) = {}
    BY BehindNext, 1 \in Nat \ {0}
  <2> QED BY <2>1, <2>2, <2>3 DEF Walked, Walks
<1> HIDE DEF N
<1>8. \A n \in 0 .. N : g[n] \in V
  <2>1. ASSUME NEW n \in 1 .. N, g[n - 1] \in V
        PROVE  g[n] \in V
    <3>1. Walked(left, right, g[n]) /\ g[n] \in Walks(left, right)
      <4>1. g[n] = Compared(left, right, g[n - 1]) /\ Walked(left, right, g[n - 1])
        BY <1>4, <2>1
      <4>2. Walked(left, right, g[n])
        BY <1>1, <4>1, WalkedOn
      <4>3. n \in 0 .. N
        BY <1>3
      <4> QED BY <1>4, <4>2, <4>3
    <3> QED BY <3>1
  <2>2. g[0] \in V
    <3>1. 0 \in 0 .. N
      BY <1>3
    <3> QED BY <1>4, <1>7, <3>1
  <2> HIDE DEF V
  <2> QED BY <1>3, <2>1, <2>2, Along
<1>9. Walked(left, right, end)
  BY <1>3, <1>8
<1>10. Behind(left, L + 1) = Tabled(left) /\ Behind(right, R + 1) = Tabled(right)
  <2>1. L + 1 - 1 = L /\ R + 1 - 1 = R
    BY <1>3
  <2> QED BY <2>1, TabledAt DEF Behind
<1> HIDE DEF end
<1>11. end.left = onlyLeft /\ end.right = onlyRight /\ end.differ = changed /\ (end.same \/ end.differ \cup end.left \cup end.right # {})
  <2>1. /\ end.left = Behind(left, end.l) \ Tabled(right) /\ end.right = Behind(right, end.r) \ Tabled(left)
        /\ end.differ = {n \in Behind(left, end.l) \cap Behind(right, end.r) : FindValue(left, n) # FindValue(right, n)}
        /\ end.same \/ end.differ \cup end.left \cup end.right # {}
    BY <1>9, Zenon DEF Walked
  <2>2. Behind(left, end.l) = Tabled(left) /\ Behind(right, end.r) = Tabled(right)
    BY <1>6, <1>10
  <2> QED BY <2>1, <2>2
<1>12. end.same \in BOOLEAN
  BY <1>9 DEF Walked, Walk
<1>13. (end.same /\ L = R) = (changed \cup onlyLeft \cup onlyRight = {})
  <2>1. ASSUME changed \cup onlyLeft \cup onlyRight = {}
        PROVE  end.same /\ L = R
    <3>1. Tabled(left) = Tabled(right)
      BY <2>1
    <3>2. L = R
      BY <3>1 DEF OneToAName
    <3> QED BY <1>11, <2>1, <3>2
  <2>2. ASSUME end.same, L = R
        PROVE  changed \cup onlyLeft \cup onlyRight = {}
    <3>1. Merge(left, right).same
      <4> DEFINE b == end.same /\ L = R
      <4> HIDE DEF b
      <4>1. Merge(left, right) = [same |-> b, differ |-> end.differ, left |-> end.left, right |-> end.right]
        BY <1>5, Zenon DEF b
      <4>2. Merge(left, right).same = b
        BY <4>1
      <4>3. b
        BY <2>2, Zenon DEF b
      <4> QED BY <4>2, <4>3, Zenon
    <3>2. left = right
      BY <3>1, MergeSame
    <3>3. changed = {} /\ onlyLeft = {} /\ onlyRight = {}
      BY <3>2
    <3> HIDE DEF changed, onlyLeft, onlyRight
    <3> QED BY <3>3
  <2> QED BY <1>12, <2>1, <2>2
<1>14. NotSorted(left, right) =
         [same |-> changed \cup onlyLeft \cup onlyRight = {}, differ |-> changed, left |-> onlyLeft, right |-> onlyRight]
  BY Zenon DEF NotSorted
<1> HIDE DEF changed, onlyLeft, onlyRight
<1> QED BY <1>5, <1>11, <1>13, <1>14

(* What a table tells of its names, alone or beside another table, is what  *)
(* the files said (CCfgFile::FindParam, CompareEnvVarTables).               *)
THEOREM TablesTellFiles == CfgSpec => []TablesTell
<1>1. CfgInv => FirstTakesOver
  BY DEF CfgInv, ByNone, By, Told, Agrees, FirstTakesOver, Idle
<1>2. CfgInv => ComparesTables
  <2> SUFFICES ASSUME CfgInv, NEW o \in Objs, NEW p \in Objs, Ordered(tab[o]), Ordered(tab[p])
               PROVE  /\ Merge(tab[o], tab[p]).same <=> tab[o] = tab[p]
                      /\ OneToAName(tab[o]) /\ OneToAName(tab[p]) =>
                           Merge(tab[o], tab[p]) = NotSorted(tab[o], tab[p])
    BY DEF ComparesTables
  <2>1. tab[o] \in Seq(Entries) /\ tab[p] \in Seq(Entries)
    BY DEF CfgInv, CfgTypes
  <2> QED BY <2>1, MergeSame, MergeApart
<1>3. CfgInv => TablesTell
  BY <1>1, <1>2 DEF TablesTell
<1> QED BY <1>3, CfgInvariant, PTL
=============================================================================
