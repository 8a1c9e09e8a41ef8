-------------------------- MODULE NatsServerProofs --------------------------
(* Proofs about the embedded NATS server, for any clients, subscriptions,   *)
(* messages and capacity of the broadcast channel.                          *)
EXTENDS NatsServer, FiniteSetTheorems, TLAPS

-----------------------------------------------------------------------------
(* The inductive invariant *)

(* The piece that starts a message, and the one that completes it.          *)
Begins(piece) == piece.part \in {"verb", "eof"}
Ends(piece) ==
  \/ piece.part \in {"payload", "eof"}
  \/ piece.part = "rest" /\ piece.msg.verb # "PUB"

IsPiece(piece) ==
  /\ piece.part = "eof" <=> piece.msg.verb = "EOF"
  /\ piece.part = "payload" => piece.msg.verb = "PUB"

(* q is the piece of the same message after p.                              *)
Continues(q, p) ==
  /\ q.msg = p.msg
  /\ q.part = IF p.part = "verb" THEN "rest" ELSE "payload"

(* The messages on the wire are complete, but perhaps for the first one.    *)
InPieces(w) ==
  \A i \in 1..Len(w) :
    /\ IsPiece(w[i])
    /\ IF Ends(w[i]) THEN i < Len(w) => Begins(w[i + 1])
                     ELSE i < Len(w) /\ Continues(w[i + 1], w[i])

(* The unfinished read of c and the wire fit together; they only disagree   *)
(* where a read was cut.                                                    *)
ReadInv(c) ==
  /\ InPieces(wire[c])
  /\ held[c] = 1 => wire[c] # <<>> /\ Head(wire[c]).part = "rest"
  /\ held[c] = 2 => wire[c] # <<>> /\ Head(wire[c]).part = "payload"
  /\ held[c] = 0 /\ ~cut[c] /\ wire[c] # <<>> => Begins(Head(wire[c]))
  /\ \A i \in 1..Len(wire[c]) : \E k \in 1..Len(sent[c]) :
       sent[c][k] = wire[c][i].msg
  /\ \A k \in 1..Len(sent[c]) : sent[c][k].verb = "EOF" => k = Len(sent[c])
  /\ open[c] # "open" => wire[c] = <<>> /\ held[c] = 0

(* The frames O are of messages before cur, and in order for every sid.     *)
Passed(O, cur) == \A i \in 1..Len(O) : O[i].kind = "MSG" => O[i].at < cur

Ordered(O) ==
  \A sid \in Sids : \A i, j \in 1..Len(O) :
    i < j /\ IsFor(sid, O[i]) /\ IsFor(sid, O[j]) => O[i].at < O[j].at

Got(O, sid, at) == \E i \in 1..Len(O) : IsFor(sid, O[i]) /\ O[i].at = at

OutputInv(c) ==
  /\ Passed(Output(c), cursor[c])
  /\ Ordered(Output(c))
  /\ open[c] # "open" =>
       /\ socket[c] = <<>> /\ frames[c] = <<>>
       /\ \A sid \in Sids : subscriptions[c][sid] = None
  /\ \A sid \in Sids : subscriptions[c][sid] # None =>
       /\ since[c][sid] \in 0..Len(channel)
       /\ \A at \in (since[c][sid] + 1)..(cursor[c] - 1) :
            Fits(subscriptions[c][sid], channel[at].msg.subject) =>
              at \in lagged[c] \/ Got(Output(c), sid, at)

(* The task of c ended for a reason of its own.                             *)
CauseInv(c) ==
  serving /\ open[c] = "closed" /\ WellFormed(c) => HungUp(c) \/ cut[c]

ServerInv == \A c \in Clients : ReadInv(c) /\ OutputInv(c) /\ CauseInv(c)
-----------------------------------------------------------------------------
(* Messages and their pieces *)

(* The fields of a client message by its verb (enum ClientMsg).             *)
LEMMA MsgFields ==
  ASSUME NEW m \in ClientMsg
  PROVE  /\ m.verb \in {"CONNECT", "PONG", "PING", "INVALID", "EOF", "SUB",
                        "UNSUB", "PUB"}
         /\ m.verb \in {"SUB", "UNSUB"} => m.sid \in Sids
         /\ m.verb = "SUB" => m.subject \in Patterns
  BY Zenon DEF ClientMsg

(* Pieces sends the parts of a message in order.                            *)
LEMMA PiecesOf ==
  ASSUME NEW m \in ClientMsg
  PROVE  /\ Pieces(m) \in Seq(Piece)
         /\ Pieces(m) # <<>>
         /\ InPieces(Pieces(m))
         /\ Begins(Pieces(m)[1])
         /\ \A i \in 1..Len(Pieces(m)) : Pieces(m)[i].msg = m
<1>1. CASE m.verb = "PUB"
  <2>1. Parts(m) = <<"verb", "rest", "payload">>
    BY <1>1, Zenon DEF Parts
  <2>2. Pieces(m) = <<[msg |-> m, part |-> "verb"], [msg |-> m, part |-> "rest"],
                      [msg |-> m, part |-> "payload"]>>
    BY <2>1 DEF Pieces
  <2> QED
    BY <1>1, <2>2 DEF Piece, InPieces, IsPiece, Begins, Ends, Continues
<1>2. CASE m.verb = "EOF"
  <2>1. Parts(m) = <<"eof">>
    BY <1>2, Zenon DEF Parts
  <2>2. Pieces(m) = <<[msg |-> m, part |-> "eof"]>>
    BY <2>1 DEF Pieces
  <2> QED
    BY <1>2, <2>2 DEF Piece, InPieces, IsPiece, Begins, Ends, Continues
<1>3. CASE m.verb \notin {"PUB", "EOF"}
  <2>1. Parts(m) = <<"verb", "rest">>
    BY <1>3, Zenon DEF Parts
  <2>2. Pieces(m) = <<[msg |-> m, part |-> "verb"], [msg |-> m, part |-> "rest"]>>
    BY <2>1 DEF Pieces
  <2> QED
    BY <1>3, <2>2 DEF Piece, InPieces, IsPiece, Begins, Ends, Continues
<1> QED
  BY <1>1, <1>2, <1>3, Zenon

(* A message is sent behind complete ones.                                  *)
LEMMA ConcatPieces ==
  ASSUME NEW v \in Seq(Piece), NEW w \in Seq(Piece),
         InPieces(v), InPieces(w), w # <<>>, Begins(w[1])
  PROVE  InPieces(v \o w)
<1> DEFINE u == v \o w
<1>1. /\ Len(u) = Len(v) + Len(w) /\ Len(v) \in Nat /\ Len(w) \in Nat \ {0}
      /\ \A i \in 1..Len(v) : u[i] = v[i]
      /\ \A i \in 1..Len(w) : u[Len(v) + i] = w[i]
  OBVIOUS
<1> SUFFICES ASSUME NEW i \in 1..Len(u)
             PROVE  /\ IsPiece(u[i])
                    /\ IF Ends(u[i]) THEN i < Len(u) => Begins(u[i + 1])
                                     ELSE i < Len(u) /\ Continues(u[i + 1], u[i])
  BY Zenon DEF InPieces
<1> HIDE DEF u
<1>2. CASE i < Len(v)
  <2>1. i \in 1..Len(v) /\ i + 1 \in 1..Len(v) /\ i < Len(u)
    BY <1>1, <1>2
  <2>2. u[i] = v[i] /\ u[i + 1] = v[i + 1]
    BY <1>1, <2>1, Zenon
  <2> QED
    BY <1>2, <2>1, <2>2, Zenon DEF InPieces
<1>3. CASE i = Len(v)
  <2>1. i \in 1..Len(v) /\ 1 \in 1..Len(w) /\ i < Len(u) /\ ~(i < Len(v))
    BY <1>1, <1>3
  <2>2. u[i] = v[i] /\ u[i + 1] = w[1]
    BY <1>1, <1>3, <2>1, Zenon
  <2> QED
    BY <2>1, <2>2, Zenon DEF InPieces
<1>4. CASE i > Len(v)
  <2> DEFINE k == i - Len(v)
  <2>1. /\ k \in 1..Len(w) /\ i = Len(v) + k
        /\ i < Len(u) <=> k < Len(w)
        /\ k < Len(w) => k + 1 \in 1..Len(w) /\ i + 1 = Len(v) + (k + 1)
    BY <1>1, <1>4
  <2> HIDE DEF k
  <2>2. u[i] = w[k] /\ (k < Len(w) => u[i + 1] = w[k + 1])
    BY <1>1, <2>1, Zenon
  <2> QED
    BY <2>1, <2>2, Zenon DEF InPieces
<1> QED
  BY <1>1, <1>2, <1>3, <1>4

(* The read takes the first piece off the wire.                             *)
LEMMA TailPieces ==
  ASSUME NEW w \in Seq(Piece), w # <<>>, InPieces(w)
  PROVE  /\ InPieces(Tail(w))
         /\ Ends(Head(w)) /\ Tail(w) # <<>> => Begins(Head(Tail(w)))
         /\ ~Ends(Head(w)) =>
              Tail(w) # <<>> /\ Continues(Head(Tail(w)), Head(w))
         /\ IsPiece(Head(w))
<1>1. /\ Len(w) \in Nat \ {0} /\ Len(Tail(w)) = Len(w) - 1
      /\ \A i \in 1..Len(Tail(w)) : Tail(w)[i] = w[i + 1]
      /\ Head(w) = w[1] /\ 1 \in 1..Len(w)
  OBVIOUS
<1>2. InPieces(Tail(w))
  <2> SUFFICES ASSUME NEW i \in 1..Len(Tail(w))
               PROVE  /\ IsPiece(Tail(w)[i])
                      /\ IF Ends(Tail(w)[i])
                         THEN i < Len(Tail(w)) => Begins(Tail(w)[i + 1])
                         ELSE /\ i < Len(Tail(w))
                              /\ Continues(Tail(w)[i + 1], Tail(w)[i])
    BY Zenon DEF InPieces
  <2>1. /\ i + 1 \in 1..Len(w)
        /\ i < Len(Tail(w)) <=> i + 1 < Len(w)
        /\ i < Len(Tail(w)) => i + 1 \in 1..Len(Tail(w))
    BY <1>1
  <2>2. /\ Tail(w)[i] = w[i + 1]
        /\ i < Len(Tail(w)) => Tail(w)[i + 1] = w[i + 1 + 1]
    BY <1>1, <2>1, Zenon
  <2> QED
    BY <2>1, <2>2, Zenon DEF InPieces
<1>3. Tail(w) # <<>> <=> 1 < Len(w)
  <2> DEFINE q == Tail(w)
  <2>1. q \in Seq(Piece)
    OBVIOUS
  <2> HIDE DEF q
  <2>2. q = <<>> <=> Len(q) = 0
    BY <2>1
  <2> QED
    BY <1>1, <2>2 DEF q
<1>4. Tail(w) # <<>> => Head(Tail(w)) = w[1 + 1]
  BY <1>1
<1> QED
  BY <1>1, <1>2, <1>3, <1>4, Zenon DEF InPieces
-----------------------------------------------------------------------------
(* The steps of the server, client by client *)

(* Nothing of client c has changed.                                         *)
Still(c) ==
  /\ open'[c] = open[c] /\ sent'[c] = sent[c] /\ wire'[c] = wire[c]
  /\ held'[c] = held[c] /\ cut'[c] = cut[c]
  /\ subscriptions'[c] = subscriptions[c] /\ since'[c] = since[c]
  /\ cursor'[c] = cursor[c] /\ lagged'[c] = lagged[c]
  /\ frames'[c] = frames[c] /\ socket'[c] = socket[c]

(* The task of c has ended.                                                 *)
Ended(c) ==
  /\ open'[c] = "closed" /\ sent'[c] = sent[c] /\ wire'[c] = <<>>
  /\ held'[c] = 0 /\ cut'[c] = cut[c]
  /\ subscriptions'[c] = [s \in Sids |-> None]
  /\ since'[c] = [s \in Sids |-> None]
  /\ cursor'[c] = 1 /\ lagged'[c] = {}
  /\ frames'[c] = <<>> /\ socket'[c] = <<>>

(* End clears the clients of C and no other.                                *)
LEMMA EndClears ==
  ASSUME NEW C \in SUBSET Clients, End(C)
  PROVE  /\ channel' = channel
         /\ \A c \in C : Ended(c)
         /\ \A c \in Clients \ C : Still(c)
  BY Zenon DEF End, Ended, Still

(* The messages a read can yield (read_client_message).                     *)
LEMMA ReadYields ==
  ASSUME NEW n \in 0..2, NEW p \in Piece
  PROVE  \/ ReadClientMessage(n, p).verb \in {"reading", "error"}
         \/ ReadClientMessage(n, p) \in ClientMsg
  BY DEF ReadClientMessage, Piece, ClientMsg

(* A read goes on inside a message and yields at its end.  It fails only on *)
(* a line the client sent wrong or where an earlier read was cut.           *)
LEMMA ReadOutcome ==
  ASSUME TypeOK, NEW c \in Clients, ReadInv(c), wire[c] # <<>>,
         NEW p, p = Head(wire[c]), NEW m, m = ReadClientMessage(held[c], p)
  PROVE  /\ m.verb = "reading" =>
              /\ ~Ends(p)
              /\ \/ p.part = "verb" /\ held[c] = 0
                 \/ p.part = "rest" /\ held[c] = 1
         /\ m.verb \notin {"reading", "error"} => Ends(p)
         /\ m.verb = "error" => \/ cut[c]
                                \/ p.msg.verb = "INVALID"
                                \/ p.msg.verb = "PUB" /\ p.msg.payload = "oversize"
         /\ m.verb = "EOF" => p.msg.verb = "EOF"
<1>1. /\ wire[c] \in Seq(Piece) /\ held[c] \in 0..2
  BY Zenon DEF TypeOK
<1>2. p \in Piece
  BY <1>1
<1>3. p.msg \in ClientMsg /\ p.part \in {"verb", "rest", "payload", "eof"}
  BY <1>2, Zenon DEF Piece
<1>4. IsPiece(p)
  BY <1>1, TailPieces, Zenon DEF ReadInv
<1>5. /\ held[c] = 1 => p.part = "rest"
      /\ held[c] = 2 => p.part = "payload"
      /\ held[c] = 0 /\ ~cut[c] => p.part \in {"verb", "eof"}
  BY Zenon DEF ReadInv, Begins
<1>6. /\ p.msg.verb \in {"CONNECT", "PONG", "PING", "INVALID", "EOF", "SUB",
                         "UNSUB", "PUB"}
  BY <1>3, MsgFields, Zenon
<1> DEFINE part == Parts(p.msg)[held[c] + 1]
<1>7. CASE p.part = "eof"
  <2>1. m = p.msg
    BY <1>7, Zenon DEF ReadClientMessage
  <2> QED
    BY <1>4, <1>7, <2>1, Zenon DEF IsPiece, Ends
<1>8. CASE p.part = "verb"
  <2>1. m.verb = "reading"
    BY <1>8, Zenon DEF ReadClientMessage
  <2>2. held[c] = 0
    BY <1>1, <1>5, <1>8, SMTT(60)
  <2> QED
    BY <1>8, <2>1, <2>2, Zenon DEF Ends
<1>9. CASE p.part = "rest"
  <2>1. p.msg.verb # "EOF"
    BY <1>4, <1>9, Zenon DEF IsPiece
  <2>2. held[c] = 0 => part = "verb" /\ cut[c]
    BY <1>5, <1>9, <2>1 DEF Parts
  <2>3. held[c] = 1 => part = "rest"
    BY <2>1 DEF Parts
  <2>4. held[c] # 2
    BY <1>5, <1>9, Zenon
  <2>5. CASE held[c] = 0
    <3>1. m.verb = "error"
      BY <1>9, <2>2, <2>5, Zenon DEF ReadClientMessage
    <3> QED
      BY <2>2, <2>5, <3>1, Zenon
  <2>6. CASE held[c] = 1 /\ p.msg.verb = "PUB"
    <3>1. m.verb = IF p.msg.payload = "oversize" THEN "error" ELSE "reading"
      BY <1>9, <2>3, <2>6, Zenon DEF ReadClientMessage
    <3> QED
      BY <1>9, <2>6, <3>1, Zenon DEF Ends
  <2>7. CASE held[c] = 1 /\ p.msg.verb # "PUB"
    <3>1. IF p.msg.verb = "INVALID" THEN m.verb = "error" ELSE m = p.msg
      BY <1>9, <2>3, <2>7, ZenonT(60) DEF ReadClientMessage
    <3> QED
      BY <1>6, <1>9, <2>1, <2>7, <3>1, Zenon DEF Ends
  <2> QED
    BY <1>1, <2>4, <2>5, <2>6, <2>7
<1>10. CASE p.part = "payload"
  <2>1. p.msg.verb = "PUB"
    BY <1>4, <1>10, Zenon DEF IsPiece
  <2>2. held[c] = 0 => part = "verb" /\ cut[c]
    BY <1>5, <1>10, <2>1 DEF Parts
  <2>3. held[c] = 2 => part = "payload"
    BY <2>1 DEF Parts
  <2>4. held[c] # 1
    BY <1>5, <1>10, Zenon
  <2> QED
    BY <1>1, <1>10, <2>1, <2>2, <2>3, <2>4 DEF ReadClientMessage, Ends
<1> QED
  BY <1>3, <1>7, <1>8, <1>9, <1>10, Zenon

(* What a read that goes on or yields m changes of its own client.          *)
Took(c, m) ==
  /\ wire'[c] = Tail(wire[c])
  /\ held'[c] = IF m.verb = "reading" THEN held[c] + 1 ELSE 0
  /\ frames'[c] = IF m.verb = "PING" THEN <<[kind |-> "PONG"]>> ELSE frames[c]
  /\ subscriptions'[c] =
       IF m.verb = "SUB" THEN [subscriptions[c] EXCEPT ![m.sid] = m.subject]
       ELSE IF m.verb = "UNSUB" THEN [subscriptions[c] EXCEPT ![m.sid] = None]
       ELSE subscriptions[c]
  /\ since'[c] = IF m.verb = "SUB" THEN [since[c] EXCEPT ![m.sid] = Len(channel)]
                 ELSE since[c]
  /\ channel' = IF m.verb = "PUB" THEN Append(channel, [from |-> c, msg |-> m])
                ELSE channel
  /\ open'[c] = open[c] /\ sent'[c] = sent[c] /\ cut'[c] = cut[c]
  /\ cursor'[c] = cursor[c] /\ lagged'[c] = lagged[c] /\ socket'[c] = socket[c]

(* A read ends the task or takes a piece, and concerns its own client only. *)
LEMMA ReadEffect ==
  ASSUME TypeOK, NEW c \in Clients, Read(c),
         NEW m, m = ReadClientMessage(held[c], Head(wire[c]))
  PROVE  /\ Selecting(c) /\ wire[c] # <<>> /\ serving' = serving
         /\ \/ m.verb \in {"error", "EOF"} /\ Ended(c) /\ channel' = channel
            \/ m.verb \notin {"error", "EOF"} /\ Took(c, m)
         /\ \A d \in Clients : d # c => Still(d)
<1> DEFINE Is(verbs) == Selecting(c) /\ wire[c] # <<>> /\ m.verb \in verbs
           Take(n) == /\ wire' = [wire EXCEPT ![c] = Tail(@)]
                      /\ held' = [held EXCEPT ![c] = n]
                      /\ UNCHANGED <<sent, serving, open, cursor, lagged, cut,
                                     socket>>
<1>1. CASE Is({"error", "EOF"}) /\ End({c}) /\ UNCHANGED serving
  BY <1>1, EndClears, Zenon
<1>2. CASE /\ Is({"reading"}) /\ Take(held[c] + 1)
           /\ UNCHANGED <<subscriptions, since, frames, channel>>
  BY <1>2, Zenon DEF TypeOK, Took, Still
<1>3. CASE /\ Is({"CONNECT", "PONG"}) /\ Take(0)
           /\ UNCHANGED <<subscriptions, since, frames, channel>>
  BY <1>3, Zenon DEF TypeOK, Took, Still
<1>4. CASE /\ Is({"PING"}) /\ Take(0)
           /\ frames' = [frames EXCEPT ![c] = <<[kind |-> "PONG"]>>]
           /\ UNCHANGED <<subscriptions, since, channel>>
  BY <1>4, Zenon DEF TypeOK, Took, Still
<1>5. CASE /\ Is({"SUB"}) /\ Take(0)
           /\ subscriptions' = [subscriptions EXCEPT ![c][m.sid] = m.subject]
           /\ since' = [since EXCEPT ![c][m.sid] = Len(channel)]
           /\ UNCHANGED <<frames, channel>>
  BY <1>5, Zenon DEF TypeOK, Took, Still
<1>6. CASE /\ Is({"UNSUB"}) /\ Take(0)
           /\ subscriptions' = [subscriptions EXCEPT ![c][m.sid] = None]
           /\ UNCHANGED <<since, frames, channel>>
  BY <1>6, Zenon DEF TypeOK, Took, Still
<1>7. CASE /\ Is({"PUB"}) /\ Take(0)
           /\ channel' = Append(channel, [from |-> c, msg |-> m])
           /\ UNCHANGED <<subscriptions, since, frames>>
  BY <1>7, Zenon DEF TypeOK, Took, Still
<1> QED
  BY <1>1, <1>2, <1>3, <1>4, <1>5, <1>6, <1>7, ZenonT(60) DEF Read

(* The oldest position is one of the channel or just behind its end.        *)
LEMMA OldestInChannel ==
  ASSUME TypeOK
  PROVE  Oldest \in Nat \ {0} /\ Oldest <= Len(channel) + 1
<1>1. Len(channel) \in Nat
  BY DEF TypeOK
<1> QED
  BY <1>1, ServerAssumption DEF Oldest

(* What a delivery or a lag changes of its own client.                      *)
Received(c) ==
  /\ Selecting(c)
  /\ held'[c] = 0 /\ cut'[c] = (cut[c] \/ held[c] > 0)
  /\ open'[c] = open[c] /\ sent'[c] = sent[c] /\ wire'[c] = wire[c]
  /\ subscriptions'[c] = subscriptions[c] /\ since'[c] = since[c]
  /\ socket'[c] = socket[c]

(* The frames of a delivery: one for each subscription that matches.        *)
LEMMA FramesOfDelivery ==
  ASSUME NEW c \in Clients, NEW new \in MsgFrames(c), cursor[c] \in Nat
  PROVE  /\ new \in Seq(Frame)
         /\ \A i \in 1..Len(new) :
              new[i].kind = "MSG" /\ new[i].at = cursor[c]
         /\ \A i, j \in 1..Len(new) : i < j => new[i].sid # new[j].sid
         /\ \A sid \in Matching(c, channel[cursor[c]].msg.subject) :
              \E i \in 1..Len(new) : new[i].sid = sid
<1> DEFINE sids == Matching(c, channel[cursor[c]].msg.subject)
           n == Cardinality(sids)
<1>1. PICK q \in [1..n -> sids] :
        /\ {q[i] : i \in DOMAIN q} = sids
        /\ \A i, j \in DOMAIN q : i < j => q[i] < q[j]
        /\ new = [i \in DOMAIN q |->
                    [kind |-> "MSG", sid |-> q[i], at |-> cursor[c]]]
  BY Zenon DEF MsgFrames
<1>2. sids \subseteq Sids
  BY Zenon DEF Matching
<1>3. n \in Nat
  BY <1>2, ServerAssumption, FS_Subset, FS_CardinalityType, Zenon
<1> HIDE DEF sids, n
<1>4. DOMAIN q = 1..n /\ DOMAIN new = 1..n
  BY <1>1, Zenon
<1>5. sids = {q[i] : i \in 1..n}
  BY <1>1, <1>4, Zenon
<1>6. \A i \in 1..n : new[i] = [kind |-> "MSG", sid |-> q[i], at |-> cursor[c]]
  BY <1>1, <1>4, Zenon
<1>7. \A i \in 1..n : /\ new[i] \in Frame /\ new[i].kind = "MSG"
                      /\ new[i].sid = q[i] /\ new[i].at = cursor[c]
  BY <1>1, <1>2, <1>6, Zenon DEF Frame
<1>8. new = [i \in 1..n |-> new[i]]
  BY <1>1, <1>4, Zenon
<1>9. new \in Seq(Frame) /\ Len(new) = n
  BY <1>3, <1>7, <1>8
<1>10. \A i, j \in 1..n : i < j => q[i] # q[j]
  <2>1. \A i \in 1..n : q[i] \in Nat
    BY <1>1, <1>2, ServerAssumption, Zenon
  <2>2. \A i, j \in 1..n : i < j => q[i] < q[j]
    BY <1>1, <1>4, Zenon
  <2> QED
    BY <2>1, <2>2
<1>11. \A sid \in sids : \E i \in 1..n : new[i].sid = sid
  BY <1>5, <1>7, Zenon
<1>12. \A i, j \in 1..n : i < j => new[i].sid # new[j].sid
  <2>1. \A i \in 1..n : new[i].sid = q[i]
    BY <1>7, Zenon
  <2> QED
    BY <1>10, <2>1, Zenon
<1> QED
  BY <1>7, <1>9, <1>11, <1>12, Zenon DEF sids

(* A delivery writes the frames of its message and moves on by one.         *)
LEMMA DeliverEffect ==
  ASSUME TypeOK, NEW c \in Clients, Deliver(c)
  PROVE  /\ Received(c) /\ channel' = channel /\ serving' = serving
         /\ cursor[c] \in Oldest..Len(channel) /\ cursor'[c] = cursor[c] + 1
         /\ frames'[c] \in MsgFrames(c) /\ lagged'[c] = lagged[c]
         /\ \A d \in Clients : d # c => Still(d)
  BY Zenon DEF Deliver, DropRead, Received, Still, TypeOK, clientVars

(* A receiver that lags goes on at the oldest message there is.             *)
LEMMA LaggedEffect ==
  ASSUME TypeOK, NEW c \in Clients, Lagged(c)
  PROVE  /\ Received(c) /\ channel' = channel /\ serving' = serving
         /\ cursor[c] < Oldest /\ cursor'[c] = Oldest
         /\ frames'[c] = frames[c]
         /\ lagged'[c] = lagged[c] \cup cursor[c]..(Oldest - 1)
         /\ \A d \in Clients : d # c => Still(d)
  BY Zenon DEF Lagged, DropRead, Received, Still, TypeOK, clientVars

-----------------------------------------------------------------------------
(* Type correctness *)

(* The variables keep their types and the positions their range.            *)
LEMMA TypeStep ==
  ASSUME TypeOK, \A c \in Clients : ReadInv(c), [Next]_vars
  PROVE  TypeOK'
<1> USE DEF clientVars, taskVars
<1>1. ASSUME NEW c \in Clients, NEW msg \in Messages[c], Send(c, msg)
      PROVE  TypeOK'
  <2>1. msg \in ClientMsg
    BY ServerAssumption, Zenon
  <2>2. /\ sent[c] \in Seq(ClientMsg) /\ wire[c] \in Seq(Piece)
        /\ MaxSent[c] \in Nat /\ Len(sent[c]) < MaxSent[c]
    BY <1>1, ServerAssumption, Zenon DEF TypeOK, Send
  <2>3. /\ Append(sent[c], msg) \in Seq(ClientMsg)
        /\ Len(Append(sent[c], msg)) <= MaxSent[c]
    BY <2>1, <2>2
  <2>4. wire[c] \o Pieces(msg) \in Seq(Piece)
    BY <2>1, <2>2, PiecesOf
  <2>5. /\ sent' \in [Clients -> Seq(ClientMsg)]
        /\ \A d \in Clients : Len(sent'[d]) <= MaxSent[d]
        /\ wire' \in [Clients -> Seq(Piece)]
    BY <1>1, <2>3, <2>4, Zenon DEF TypeOK, Send
  <2> QED
    BY <1>1, <2>5, Zenon DEF TypeOK, Send
<1>2. ASSUME NEW c \in Clients, Accept(c)
      PROVE  TypeOK'
  <2>1. Len(channel) \in Nat
    BY DEF TypeOK
  <2>2. <<[kind |-> "INFO"]>> \in Seq(Frame)
    BY DEF Frame
  <2>3. Len(channel) + 1 \in Nat \ {0} /\ Len(channel) + 1 <= Len(channel) + 1
    BY <2>1
  <2>4. /\ cursor' \in [Clients -> Nat \ {0}]
        /\ \A d \in Clients : cursor'[d] <= Len(channel) + 1
        /\ frames' \in [Clients -> Seq(Frame)]
        /\ open' \in [Clients -> {None, "open", "closed"}]
    BY <1>2, <2>2, <2>3, Zenon DEF TypeOK, Accept
  <2> QED
    BY <1>2, <2>4, Zenon DEF TypeOK, Accept
<1>3. ASSUME NEW C \in SUBSET Clients, End(C), serving' \in BOOLEAN
      PROVE  TypeOK'
  <2>1. Len(channel) \in Nat
    BY DEF TypeOK
  <2>2. /\ 1 \in Nat \ {0} /\ 1 <= Len(channel) + 1 /\ 0 \in 0..2
        /\ <<>> \in Seq(Frame) /\ <<>> \in Seq(Piece)
    BY <2>1
  <2>3. /\ cursor' \in [Clients -> Nat \ {0}]
        /\ \A d \in Clients : cursor'[d] <= Len(channel) + 1
        /\ frames' \in [Clients -> Seq(Frame)]
        /\ socket' \in [Clients -> Seq(Frame)]
        /\ wire' \in [Clients -> Seq(Piece)]
        /\ held' \in [Clients -> 0..2]
    BY <1>3, <2>2, Zenon DEF TypeOK, End
  <2>4. /\ open' \in [Clients -> {None, "open", "closed"}]
        /\ subscriptions' \in [Clients -> [Sids -> Patterns \cup {None}]]
        /\ since' \in [Clients -> [Sids -> Nat \cup {None}]]
        /\ lagged' \in [Clients -> SUBSET DOMAIN channel]
    BY <1>3, Zenon DEF TypeOK, End
  <2> QED
    BY <1>3, <2>3, <2>4, Zenon DEF TypeOK, End
<1>4. ASSUME NEW c \in Clients, Read(c)
      PROVE  TypeOK'
  <2> DEFINE m == ReadClientMessage(held[c], Head(wire[c]))
             Is(verbs) == Selecting(c) /\ wire[c] # <<>> /\ m.verb \in verbs
             Take(n) == /\ wire' = [wire EXCEPT ![c] = Tail(@)]
                        /\ held' = [held EXCEPT ![c] = n]
                        /\ UNCHANGED <<sent, serving, open, cursor, lagged, cut,
                                       socket>>
  <2>1. wire[c] # <<>>
    BY <1>4, Zenon DEF Read
  <2>2. /\ wire[c] \in Seq(Piece) /\ held[c] \in 0..2 /\ Len(channel) \in Nat
        /\ channel \in Seq([from : Clients, msg : ClientMsg])
    BY DEF TypeOK
  <2>3. Head(wire[c]) \in Piece /\ Tail(wire[c]) \in Seq(Piece)
    BY <2>1, <2>2
  <2>4. m.verb \in {"reading", "error"} \/ m \in ClientMsg
    BY <2>2, <2>3, ReadYields, Zenon
  <2>5. m.verb = "reading" => held[c] \in {0, 1}
    BY <2>1, ReadOutcome, Zenon
  <2>6. m.verb \notin {"reading", "error"} =>
          /\ m \in ClientMsg
          /\ m.verb \in {"SUB", "UNSUB"} => m.sid \in Sids
          /\ m.verb = "SUB" => m.subject \in Patterns
    BY <2>4, MsgFields, Zenon
  <2> HIDE DEF m
  <2>7. ASSUME NEW n \in 0..2, Take(n)
        PROVE  /\ wire' \in [Clients -> Seq(Piece)]
               /\ held' \in [Clients -> 0..2]
    BY <2>3, <2>7, Zenon DEF TypeOK
  <2>8. 0 \in 0..2
    OBVIOUS
  <2>9. CASE Is({"error", "EOF"}) /\ End({c}) /\ UNCHANGED serving
    BY <1>3, <2>9, Zenon DEF TypeOK
  <2>10. CASE /\ Is({"reading"}) /\ Take(held[c] + 1)
              /\ UNCHANGED <<subscriptions, since, frames, channel>>
    <3>1. held[c] + 1 \in 0..2
      BY <2>5, <2>10
    <3> QED
      BY <2>7, <2>10, <3>1, Zenon DEF TypeOK
  <2>11. CASE /\ Is({"CONNECT", "PONG"}) /\ Take(0)
              /\ UNCHANGED <<subscriptions, since, frames, channel>>
    BY <2>7, <2>8, <2>11, Zenon DEF TypeOK
  <2>12. CASE /\ Is({"PING"}) /\ Take(0)
              /\ frames' = [frames EXCEPT ![c] = <<[kind |-> "PONG"]>>]
              /\ UNCHANGED <<subscriptions, since, channel>>
    <3>1. <<[kind |-> "PONG"]>> \in Seq(Frame)
      BY DEF Frame
    <3>2. frames' \in [Clients -> Seq(Frame)]
      BY <2>12, <3>1, Zenon DEF TypeOK
    <3> QED
      BY <2>7, <2>8, <2>12, <3>2, Zenon DEF TypeOK
  <2>13. CASE /\ Is({"SUB"}) /\ Take(0)
              /\ subscriptions' = [subscriptions EXCEPT ![c][m.sid] = m.subject]
              /\ since' = [since EXCEPT ![c][m.sid] = Len(channel)]
              /\ UNCHANGED <<frames, channel>>
    <3>1. m.sid \in Sids /\ m.subject \in Patterns
      BY <2>6, <2>13, Zenon
    <3>2. /\ subscriptions' \in [Clients -> [Sids -> Patterns \cup {None}]]
          /\ since' \in [Clients -> [Sids -> Nat \cup {None}]]
      BY <2>2, <2>13, <3>1, Zenon DEF TypeOK
    <3> QED
      BY <2>7, <2>8, <2>13, <3>2, Zenon DEF TypeOK
  <2>14. CASE /\ Is({"UNSUB"}) /\ Take(0)
              /\ subscriptions' = [subscriptions EXCEPT ![c][m.sid] = None]
              /\ UNCHANGED <<since, frames, channel>>
    <3>1. subscriptions' \in [Clients -> [Sids -> Patterns \cup {None}]]
      BY <2>14, Zenon DEF TypeOK
    <3> QED
      BY <2>7, <2>8, <2>14, <3>1, Zenon DEF TypeOK
  <2>15. CASE /\ Is({"PUB"}) /\ Take(0)
              /\ channel' = Append(channel, [from |-> c, msg |-> m])
              /\ UNCHANGED <<subscriptions, since, frames>>
    <3>1. [from |-> c, msg |-> m] \in [from : Clients, msg : ClientMsg]
      BY <2>6, <2>15, Zenon
    <3>2. /\ channel' \in Seq([from : Clients, msg : ClientMsg])
          /\ Len(channel') = Len(channel) + 1
          /\ DOMAIN channel \subseteq DOMAIN channel'
      BY <2>2, <2>15, <3>1
    <3>3. lagged' \in [Clients -> SUBSET DOMAIN channel']
      BY <2>15, <3>2, Zenon DEF TypeOK
    <3>4. \A d \in Clients : cursor'[d] <= Len(channel') + 1
      BY <2>2, <2>15, <3>2, SMTT(60) DEF TypeOK
    <3> QED
      BY <2>7, <2>8, <2>15, <3>2, <3>3, <3>4, Zenon DEF TypeOK
  <2> QED
    BY <1>4, <2>9, <2>10, <2>11, <2>12, <2>13, <2>14, <2>15, Zenon
    DEF Read, m
<1>5. ASSUME NEW c \in Clients, DropRead(c)
      PROVE  held' \in [Clients -> 0..2] /\ cut' \in [Clients -> BOOLEAN]
  BY <1>5 DEF DropRead, TypeOK
<1>6. ASSUME NEW c \in Clients, Deliver(c)
      PROVE  TypeOK'
  <2>1. PICK new \in MsgFrames(c) : frames' = [frames EXCEPT ![c] = new]
    BY <1>6, ZenonT(60) DEF Deliver
  <2>2. /\ cursor[c] \in Nat /\ cursor[c] <= Len(channel) /\ Len(channel) \in Nat
    BY <1>6, OldestInChannel DEF Deliver, TypeOK
  <2>3. new \in Seq(Frame)
    BY <2>2, FramesOfDelivery, Zenon
  <2>4. cursor[c] + 1 \in Nat \ {0} /\ cursor[c] + 1 <= Len(channel) + 1
    BY <2>2
  <2>5. /\ cursor' \in [Clients -> Nat \ {0}]
        /\ \A d \in Clients : cursor'[d] <= Len(channel) + 1
        /\ frames' \in [Clients -> Seq(Frame)]
    BY <1>6, <2>1, <2>3, <2>4, Zenon DEF TypeOK, Deliver
  <2> QED
    BY <1>5, <1>6, <2>5, Zenon DEF TypeOK, Deliver
<1>7. ASSUME NEW c \in Clients, Lagged(c)
      PROVE  TypeOK'
  <2>1. /\ Len(channel) \in Nat /\ cursor[c] \in Nat \ {0}
        /\ DOMAIN channel = 1..Len(channel)
    BY DEF TypeOK
  <2>2. cursor[c]..(Oldest - 1) \subseteq DOMAIN channel
    BY <2>1, OldestInChannel
  <2>3. lagged' \in [Clients -> SUBSET DOMAIN channel]
    BY <1>7, <2>2, Zenon DEF Lagged, TypeOK
  <2>4. /\ cursor' \in [Clients -> Nat \ {0}]
        /\ \A d \in Clients : cursor'[d] <= Len(channel) + 1
    BY <1>7, OldestInChannel, Zenon DEF TypeOK, Lagged
  <2> QED
    BY <1>5, <1>7, <2>3, <2>4, Zenon DEF TypeOK, Lagged
<1>8. ASSUME NEW c \in Clients, Write(c)
      PROVE  TypeOK'
  <2>1. frames[c] \in Seq(Frame) /\ socket[c] \in Seq(Frame) /\ frames[c] # <<>>
    BY <1>8, Zenon DEF TypeOK, Write
  <2>2. /\ Append(socket[c], Head(frames[c])) \in Seq(Frame)
        /\ Tail(frames[c]) \in Seq(Frame)
    BY <2>1
  <2>3. frames' \in [Clients -> Seq(Frame)] /\ socket' \in [Clients -> Seq(Frame)]
    BY <1>8, <2>2, Zenon DEF TypeOK, Write
  <2> QED
    BY <1>8, <2>3, Zenon DEF TypeOK, Write
<1>9. CASE AcceptFails
  BY <1>3, <1>9, Zenon DEF AcceptFails
<1>10. ASSUME NEW c \in Clients, WriteFails(c)
       PROVE  TypeOK'
  BY <1>3, <1>10, Zenon DEF WriteFails, TypeOK
<1>11. CASE UNCHANGED vars
  BY <1>11, Zenon DEF vars, TypeOK
<1> QED
  BY <1>1, <1>2, <1>4, <1>6, <1>7, <1>8, <1>9, <1>10, <1>11, ZenonT(60)
  DEF Next, Task

-----------------------------------------------------------------------------
(* The read and the wire *)

(* A read takes its pieces in order, a delivery drops what it has taken.    *)
LEMMA ReadInvStep ==
  ASSUME TypeOK, \A c \in Clients : ReadInv(c), [Next]_vars,
         NEW c \in Clients
  PROVE  ReadInv(c)'
<1> USE DEF clientVars, taskVars
<1>0. /\ wire[c] \in Seq(Piece) /\ sent[c] \in Seq(ClientMsg)
      /\ held[c] \in 0..2 /\ ReadInv(c)
  BY Zenon DEF TypeOK
<1>1. ASSUME /\ wire'[c] = wire[c] /\ sent'[c] = sent[c] /\ cut'[c] = cut[c]
             /\ held'[c] = held[c],
             open'[c] # "open" => open[c] # "open"
      PROVE  ReadInv(c)'
  BY <1>0, <1>1 DEF ReadInv
<1>2. ASSUME Still(c) \/ Ended(c)
      PROVE  ReadInv(c)'
  <2>1. CASE Still(c)
    BY <1>1, <2>1, Zenon DEF Still
  <2>2. CASE Ended(c)
    <3>1. wire'[c] = <<>> /\ sent'[c] = sent[c] /\ held'[c] = 0
      BY <2>2, Zenon DEF Ended
    <3>2. \A k \in 1..Len(sent'[c]) :
            sent'[c][k].verb = "EOF" => k = Len(sent'[c])
      BY <1>0, <3>1 DEF ReadInv
    <3>3. Len(wire'[c]) = 0 /\ held'[c] # 1 /\ held'[c] # 2
      BY <3>1
    <3> QED
      BY <3>1, <3>2, <3>3 DEF ReadInv, InPieces
  <2> QED
    BY <1>2, <2>1, <2>2, Zenon
<1>3. ASSUME NEW msg \in Messages[c], Send(c, msg)
      PROVE  ReadInv(c)'
  <2> DEFINE w == wire[c]
             u == w \o Pieces(msg)
  <2>1. /\ wire'[c] = u /\ sent'[c] = Append(sent[c], msg)
        /\ held' = held /\ cut' = cut /\ open' = open
        /\ open[c] = "open" /\ ~HungUp(c)
    BY <1>3, Zenon DEF Send, TypeOK
  <2>2. msg \in ClientMsg
    BY ServerAssumption, Zenon
  <2>3. /\ Pieces(msg) \in Seq(Piece) /\ Pieces(msg) # <<>>
        /\ InPieces(Pieces(msg)) /\ Begins(Pieces(msg)[1])
        /\ \A i \in 1..Len(Pieces(msg)) : Pieces(msg)[i].msg = msg
    BY <2>2, PiecesOf, Zenon
  <2>4. InPieces(u)
    BY <1>0, <2>3, ConcatPieces, Zenon DEF ReadInv
  <2>5. Head(u) = IF w = <<>> THEN Pieces(msg)[1] ELSE Head(w)
    BY <1>0, <2>3
  <2>6. u # <<>>
    BY <1>0, <2>3
  <2>7. \A k \in 1..Len(sent[c]) : sent[c][k].verb # "EOF"
    BY <1>0, <2>1 DEF HungUp
  <2>8. /\ Len(sent'[c]) = Len(sent[c]) + 1 /\ Len(sent[c]) \in Nat
        /\ \A k \in 1..Len(sent[c]) : sent'[c][k] = sent[c][k]
        /\ sent'[c][Len(sent[c]) + 1] = msg
    BY <1>0, <2>1, <2>2
  <2>9. \A k \in 1..Len(sent'[c]) :
          sent'[c][k].verb = "EOF" => k = Len(sent'[c])
    BY <2>7, <2>8, SMTT(60)
  <2>10. \A i \in 1..Len(u) : \E k \in 1..Len(sent'[c]) :
           sent'[c][k] = u[i].msg
    <3> SUFFICES ASSUME NEW i \in 1..Len(u)
                 PROVE  \E k \in 1..Len(sent'[c]) : sent'[c][k] = u[i].msg
      OBVIOUS
    <3>1. CASE i \in 1..Len(w)
      <4>1. PICK k \in 1..Len(sent[c]) : sent[c][k] = w[i].msg
        BY <1>0, <3>1, Zenon DEF ReadInv
      <4>2. u[i] = w[i]
        BY <1>0, <2>3, <3>1
      <4>3. k \in 1..Len(sent'[c])
        BY <2>8
      <4> QED
        BY <2>8, <4>1, <4>2, <4>3, Zenon
    <3>2. CASE i \notin 1..Len(w)
      <4>1. PICK j \in 1..Len(Pieces(msg)) : u[i] = Pieces(msg)[j]
        BY <1>0, <2>3, <3>2, SMTT(60)
      <4>2. Len(sent[c]) + 1 \in 1..Len(sent'[c])
        BY <2>8
      <4> QED
        BY <2>3, <2>8, <4>1, <4>2, ZenonT(60)
    <3> QED
      BY <3>1, <3>2, Zenon
  <2> HIDE DEF u
  <2> QED
    BY <1>0, <2>1, <2>3, <2>4, <2>5, <2>6, <2>9, <2>10, ZenonT(60) DEF ReadInv
<1>4. ASSUME Read(c)
      PROVE  ReadInv(c)'
  <2> DEFINE w == wire[c]
             p == Head(w)
             m == ReadClientMessage(held[c], p)
  <2>1. /\ Selecting(c) /\ w # <<>>
        /\ Ended(c) \/ (m.verb \notin {"error", "EOF"} /\ Took(c, m))
    BY <1>4, ReadEffect, Zenon
  <2>2. /\ m.verb = "reading" =>
             /\ ~Ends(p)
             /\ \/ p.part = "verb" /\ held[c] = 0
                \/ p.part = "rest" /\ held[c] = 1
        /\ m.verb \notin {"reading", "error"} => Ends(p)
    <3> HIDE DEF m, p
    <3>1. p = Head(wire[c]) /\ m = ReadClientMessage(held[c], p)
      BY Zenon DEF m, p
    <3> QED
      BY <1>0, <2>1, <3>1, ReadOutcome, ZenonT(60)
  <2>3. /\ InPieces(Tail(w))
        /\ Ends(p) /\ Tail(w) # <<>> => Begins(Head(Tail(w)))
        /\ ~Ends(p) => Tail(w) # <<>> /\ Continues(Head(Tail(w)), p)
    BY <1>0, <2>1, TailPieces, Zenon DEF ReadInv
  <2>4. CASE Ended(c)
    BY <1>2, <2>4, Zenon
  <2>5. CASE m.verb \notin {"error", "EOF"} /\ Took(c, m)
    <3>1. /\ wire'[c] = Tail(w) /\ sent'[c] = sent[c] /\ cut'[c] = cut[c]
          /\ open'[c] = "open"
          /\ held'[c] = IF m.verb = "reading" THEN held[c] + 1 ELSE 0
      BY <2>1, <2>5, Zenon DEF Took, Selecting
    <3>2. \A i \in 1..Len(Tail(w)) : \E k \in 1..Len(sent[c]) :
            sent[c][k] = Tail(w)[i].msg
      <4>1. \A i \in 1..Len(Tail(w)) : i + 1 \in 1..Len(w) /\ Tail(w)[i] = w[i + 1]
        BY <1>0, <2>1
      <4>2. \A i \in 1..Len(w) : \E k \in 1..Len(sent[c]) :
              sent[c][k] = w[i].msg
        BY <1>0, ZenonT(60) DEF ReadInv
      <4> QED
        BY <4>1, <4>2, ZenonT(60)
    <3> HIDE DEF m, p, w
    <3>3. CASE m.verb = "reading"
      <4>1. /\ Tail(w) # <<>> /\ held'[c] \in {1, 2}
            /\ held'[c] = 1 => Head(Tail(w)).part = "rest"
            /\ held'[c] = 2 => Head(Tail(w)).part = "payload"
        BY <2>2, <2>3, <3>1, <3>3 DEF Continues
      <4>2. held'[c] # 0
        BY <4>1, SMTT(60)
      <4> QED
        BY <1>0, <2>3, <3>1, <3>2, <4>1, <4>2, SMTT(60) DEF ReadInv
    <3>4. CASE m.verb # "reading"
      <4>1. held'[c] = 0 /\ (Tail(w) # <<>> => Begins(Head(Tail(w))))
        BY <2>2, <2>3, <2>5, <3>1, <3>4, Zenon
      <4>2. held'[c] # 1 /\ held'[c] # 2
        BY <4>1
      <4> QED
        BY <1>0, <2>3, <3>1, <3>2, <4>1, <4>2, SMTT(60) DEF ReadInv
    <3> QED
      BY <3>3, <3>4, Zenon
  <2> QED
    BY <2>1, <2>4, <2>5, Zenon
<1>5. ASSUME Received(c)
      PROVE  ReadInv(c)'
  <2>1. /\ wire'[c] = wire[c] /\ sent'[c] = sent[c] /\ open'[c] = "open"
        /\ held'[c] = 0 /\ cut'[c] = (cut[c] \/ held[c] > 0)
    BY <1>5, Zenon DEF Received, Selecting
  <2>2. ~cut'[c] => ~cut[c] /\ held[c] = 0
    <3>1. ~cut'[c] => ~cut[c] /\ ~(held[c] > 0)
      BY <2>1, Zenon
    <3>2. ~(held[c] > 0) => held[c] = 0
      BY <1>0
    <3> QED
      BY <3>1, <3>2, Zenon
  <2>3. held'[c] # 1 /\ held'[c] # 2
    BY <2>1
  <2> QED
    BY <1>0, <2>1, <2>2, <2>3 DEF ReadInv
<1>6. ASSUME NEW d \in Clients, Task(d)
      PROVE  ReadInv(c)'
  <2>1. CASE Read(d)
    BY <1>2, <1>4, <2>1, ReadEffect, Zenon
  <2>2. CASE WriteFails(d)
    BY <1>2, <2>2, EndClears, Zenon DEF WriteFails
  <2>3. CASE Deliver(d)
    BY <1>2, <1>5, <2>3, DeliverEffect, Zenon
  <2>4. CASE Lagged(d)
    BY <1>2, <1>5, <2>4, LaggedEffect, Zenon
  <2>5. CASE Write(d)
    BY <1>1, <2>5, Zenon DEF Write
  <2> QED
    BY <1>6, <2>1, <2>2, <2>3, <2>4, <2>5, ZenonT(60) DEF Task
<1>7. ASSUME NEW d \in Clients, Accept(d)
      PROVE  ReadInv(c)'
  <2>1. UNCHANGED <<wire, sent, held, cut>> /\ (c # d => open'[c] = open[c])
        /\ (c = d => open'[c] = "open")
    BY <1>7, Zenon DEF Accept, TypeOK
  <2> QED
    BY <1>1, <2>1, Zenon
<1>8. ASSUME NEW d \in Clients, NEW msg \in Messages[d], Send(d, msg), d # c
      PROVE  ReadInv(c)'
  BY <1>1, <1>8, Zenon DEF Send, TypeOK
<1>9. CASE AcceptFails
  BY <1>2, <1>9, EndClears, Zenon DEF AcceptFails
<1>10. CASE UNCHANGED vars
  BY <1>1, <1>10, Zenon DEF vars
<1> QED
  BY <1>3, <1>6, <1>7, <1>8, <1>9, <1>10, Zenon DEF Next

-----------------------------------------------------------------------------
(* What a client gets *)

(* New frames are behind the old ones; those of a delivery have the         *)
(* receiver's position, and one sid each.                                   *)
LEMMA ConcatFrames ==
  ASSUME NEW O \in Seq(Frame), NEW new \in Seq(Frame), NEW cur \in Nat,
         Passed(O, cur), Ordered(O),
         \A i \in 1..Len(new) : new[i].kind = "MSG" => new[i].at = cur,
         \A i, j \in 1..Len(new) : i < j =>
           \A sid \in Sids : ~(IsFor(sid, new[i]) /\ IsFor(sid, new[j]))
  PROVE  /\ Ordered(O \o new)
         /\ Passed(O \o new, cur + 1)
         /\ \A sid, at : Got(O, sid, at) \/ Got(new, sid, at) =>
              Got(O \o new, sid, at)
<1> DEFINE P == O \o new
           n == Len(O)
<1>1. /\ P \in Seq(Frame) /\ n \in Nat /\ Len(new) \in Nat
      /\ Len(P) = n + Len(new)
      /\ \A i \in 1..n : P[i] = O[i]
      /\ \A i \in 1..Len(new) : P[n + i] = new[i]
  OBVIOUS
<1>2. \A i \in 1..Len(P) :
        \/ i \in 1..n /\ P[i] = O[i]
        \/ i - n \in 1..Len(new) /\ i > n /\ P[i] = new[i - n]
  <2> HIDE DEF P
  <2> HIDE DEF n
  <2> TAKE i \in 1..Len(P)
  <2>1. i \in 1..n \/ (i - n \in 1..Len(new) /\ i > n)
    BY <1>1
  <2>2. n + (i - n) = i
    BY <1>1
  <2>3. i - n \in 1..Len(new) => P[i] = new[i - n]
    BY <1>1, <2>2, Zenon
  <2> QED
    BY <1>1, <2>1, <2>3, Zenon
<1>3. \A i \in 1..n : i \in 1..Len(P)
  BY <1>1
<1>4. \A i \in 1..Len(new) : n + i \in 1..Len(P)
  BY <1>1
<1>5. \A f \in Frame : f.kind = "MSG" => f.at \in Nat
  BY DEF Frame
<1>6. \A i \in 1..n : O[i] \in Frame
  BY DEF n
<1> HIDE DEF P, n
<1>7. \A i \in 1..Len(P) : P[i].kind = "MSG" =>
        \/ i \in 1..n /\ P[i] = O[i] /\ P[i].at < cur
        \/ i > n /\ P[i] = new[i - n] /\ P[i].at = cur
  BY <1>2, ZenonT(60) DEF Passed, n
<1>8. Passed(P, cur + 1)
  <2> SUFFICES ASSUME NEW i \in 1..Len(P), P[i].kind = "MSG"
               PROVE  P[i].at < cur + 1
    BY Zenon DEF Passed
  <2>1. P[i].at \in Nat
    BY <1>1, <1>5
  <2>2. P[i].at < cur \/ P[i].at = cur
    BY <1>7, Zenon
  <2> QED
    BY <2>1, <2>2
<1>9. Ordered(P)
  <2> SUFFICES ASSUME NEW sid \in Sids, NEW i \in 1..Len(P), NEW j \in 1..Len(P),
                      i < j, IsFor(sid, P[i]), IsFor(sid, P[j])
               PROVE  P[i].at < P[j].at
    BY Zenon DEF Ordered
  <2>1. P[i].kind = "MSG" /\ P[j].kind = "MSG"
    BY Zenon DEF IsFor
  <2>2. CASE j \in 1..n /\ P[j] = O[j]
    <3>1. i \in 1..n
      BY <1>1, <2>2
    <3>2. P[i] = O[i]
      BY <1>1, <3>1, Zenon DEF n
    <3> QED
      BY <2>2, <3>1, <3>2, Zenon DEF Ordered, n
  <2>3. CASE ~(j \in 1..n /\ P[j] = O[j])
    <3>1. j > n /\ P[j] = new[j - n] /\ P[j].at = cur /\ j - n \in 1..Len(new)
      BY <1>2, <1>7, <2>1, <2>3, Zenon
    <3>2. CASE i \in 1..n /\ P[i].at < cur
      BY <3>1, <3>2, Zenon
    <3>3. CASE ~(i \in 1..n /\ P[i].at < cur)
      <4>1. P[i] = new[i - n] /\ i - n \in 1..Len(new)
        <5>1. i > n /\ P[i] = new[i - n]
          BY <1>7, <2>1, <3>3, ZenonT(60)
        <5>2. i \notin 1..n
          BY <1>1, <5>1
        <5> QED
          BY <1>2, <5>1, <5>2, Zenon
      <4>2. i - n < j - n
        BY <1>1
      <4>3. IsFor(sid, new[i - n]) /\ IsFor(sid, new[j - n])
        <5>1. IsFor(sid, P[i]) /\ IsFor(sid, P[j])
          OBVIOUS
        <5>2. P[i] = new[i - n] /\ P[j] = new[j - n]
          BY <3>1, <4>1, Zenon
        <5> HIDE DEF P
        <5> QED
          BY <5>1, <5>2, Zenon DEF IsFor
      <4> QED
        BY <3>1, <4>1, <4>2, <4>3, Zenon
    <3> QED
      BY <3>2, <3>3, Zenon
  <2> QED
    BY <2>2, <2>3, Zenon
<1>10. ASSUME NEW sid, NEW at, Got(O, sid, at) \/ Got(new, sid, at)
       PROVE  Got(P, sid, at)
  <2>1. CASE Got(O, sid, at)
    BY <1>1, <1>3, <2>1, Zenon DEF Got, n
  <2>2. CASE Got(new, sid, at)
    BY <1>1, <1>4, <2>2, Zenon DEF Got
  <2> QED
    BY <1>10, <2>1, <2>2, Zenon
<1> QED
  BY <1>8, <1>9, <1>10, Zenon DEF P

(* Frames other than MSG add nothing to what was got of the channel.        *)
LEMMA ConcatControl ==
  ASSUME NEW O \in Seq(Frame), NEW f \in Frame, f.kind # "MSG", NEW cur \in Nat,
         Passed(O, cur), Ordered(O)
  PROVE  /\ Ordered(O \o <<f>>) /\ Passed(O \o <<f>>, cur)
         /\ \A sid, at : Got(O, sid, at) => Got(O \o <<f>>, sid, at)
<1> DEFINE P == O \o <<f>>
           n == Len(O)
<1>1. /\ n \in Nat /\ Len(P) = n + 1
      /\ \A i \in 1..n : P[i] = O[i]
      /\ P[n + 1] = f
  OBVIOUS
<1> HIDE DEF P, n
<1>2. \A i \in 1..Len(P) : i \in 1..n \/ i = n + 1
  BY <1>1
<1>3. \A i \in 1..n : i \in 1..Len(P)
  BY <1>1
<1>4. \A i \in 1..Len(P) : P[i].kind = "MSG" => i \in 1..n /\ P[i] = O[i]
  BY <1>1, <1>2, Zenon
<1>5. Passed(P, cur)
  BY <1>4, Zenon DEF Passed, n
<1>6. Ordered(P)
  BY <1>4, ZenonT(60) DEF Ordered, IsFor, n
<1>7. \A sid, at : Got(O, sid, at) => Got(P, sid, at)
  BY <1>1, <1>3, Zenon DEF Got, n
<1> QED
  BY <1>5, <1>6, <1>7, Zenon DEF P

(* Writing a frame moves it from what is to be written to what is.          *)
LEMMA WrittenFrame ==
  ASSUME NEW s \in Seq(Frame), NEW f \in Seq(Frame), f # <<>>
  PROVE  Append(s, Head(f)) \o Tail(f) = s \o f
<1> DEFINE a == Append(s, Head(f))
           b == Tail(f)
<1>1. /\ Len(s) \in Nat /\ Len(f) \in Nat \ {0}
      /\ a \in Seq(Frame) /\ Len(a) = Len(s) + 1
      /\ b \in Seq(Frame) /\ Len(b) = Len(f) - 1
  OBVIOUS
<1>2. /\ \A i \in 1..Len(s) : a[i] = s[i]
      /\ a[Len(s) + 1] = f[1]
      /\ \A i \in 1..Len(b) : b[i] = f[i + 1]
  OBVIOUS
<1> HIDE DEF a, b
<1>3. /\ a \o b \in Seq(Frame) /\ Len(a \o b) = Len(s) + Len(f)
      /\ s \o f \in Seq(Frame) /\ Len(s \o f) = Len(s) + Len(f)
  <2>1. a \o b \in Seq(Frame) /\ Len(a \o b) = Len(a) + Len(b)
    BY <1>1, SMTT(60)
  <2>2. s \o f \in Seq(Frame) /\ Len(s \o f) = Len(s) + Len(f)
    OBVIOUS
  <2>3. Len(a) + Len(b) = Len(s) + Len(f)
    BY <1>1
  <2> QED
    BY <2>1, <2>2, <2>3, Zenon
<1>4. ASSUME NEW i \in 1..(Len(s) + Len(f))
      PROVE  (a \o b)[i] = (s \o f)[i]
  <2>1. CASE i <= Len(s)
    BY <1>1, <1>2, <2>1
  <2>2. CASE i = Len(s) + 1
    BY <1>1, <1>2, <2>2
  <2>3. CASE i > Len(s) + 1
    <3>1. (a \o b)[i] = b[i - (Len(s) + 1)]
      BY <1>1, <2>3, SMTT(60)
    <3>2. (s \o f)[i] = f[i - Len(s)]
      BY <1>1, <2>3
    <3>3. b[i - (Len(s) + 1)] = f[(i - (Len(s) + 1)) + 1]
      BY <1>1, <1>2, <2>3, SMTT(60)
    <3>4. (i - (Len(s) + 1)) + 1 = i - Len(s)
      BY <1>1
    <3> QED
      BY <3>1, <3>2, <3>3, <3>4
  <2> QED
    BY <1>1, <2>1, <2>2, <2>3, SMTT(60)
<1>5. \A p, q \in Seq(Frame) :
        Len(p) = Len(q) /\ (\A i \in 1..Len(p) : p[i] = q[i]) => p = q
  OBVIOUS
<1>6. a \o b = s \o f
  BY <1>3, <1>4, <1>5, Zenon
<1> QED
  BY <1>6, Zenon DEF a, b

(* Whatever a step does, a client only gets more, in order, and its         *)
(* receiver skips a message only by counting it as lag.                     *)
LEMMA OutputStep ==
  ASSUME TypeOK, TypeOK', \A c \in Clients : OutputInv(c), [Next]_vars,
         NEW c \in Clients
  PROVE  OutputInv(c)'
<1> USE DEF clientVars, taskVars
<1>0. /\ frames[c] \in Seq(Frame) /\ socket[c] \in Seq(Frame)
      /\ cursor[c] \in Nat \ {0} /\ cursor[c] <= Len(channel) + 1
      /\ Len(channel) \in Nat /\ OutputInv(c)
      /\ channel \in Seq([from : Clients, msg : ClientMsg])
  <2>1. channel \in Seq([from : Clients, msg : ClientMsg])
    BY Zenon DEF TypeOK
  <2>2. Len(channel) \in Nat
    BY <2>1
  <2> QED
    BY <2>1, <2>2, Zenon DEF TypeOK
<1> DEFINE Grown == \/ channel' = channel
                    \/ \E d : channel' = Append(channel, d)
           Subs == subscriptions'[c] = subscriptions[c] /\ since'[c] = since[c]
(* The messages the receiver has passed stay what they were.                *)
<1>1. ASSUME Grown
      PROVE  /\ \A at \in 1..(cursor[c] - 1) : channel'[at] = channel[at]
             /\ Len(channel) <= Len(channel') /\ Len(channel') \in Nat
  BY <1>0, <1>1, SMTT(60)
(* A step that adds to the output and moves neither the receiver nor the    *)
(* subscriptions, but for those made just now.                              *)
<1>2. ASSUME Grown, cursor'[c] = cursor[c], lagged'[c] = lagged[c],
             open'[c] # "open" => open[c] # "open" /\ Subs
                                  /\ frames'[c] = frames[c] /\ socket'[c] = socket[c],
             Ordered(Output(c)'), Passed(Output(c)', cursor[c]),
             \A sid, at : Got(Output(c), sid, at) => Got(Output(c)', sid, at),
             \A sid \in Sids :
               \/ subscriptions'[c][sid] = None
               \/ since'[c][sid] = Len(channel)
               \/ /\ subscriptions'[c][sid] = subscriptions[c][sid]
                  /\ since'[c][sid] = since[c][sid]
      PROVE  OutputInv(c)'
  <2>1. ASSUME NEW sid \in Sids, subscriptions'[c][sid] # None
        PROVE  /\ since'[c][sid] \in 0..Len(channel')
               /\ \A at \in (since'[c][sid] + 1)..(cursor[c] - 1) :
                    Fits(subscriptions'[c][sid], channel'[at].msg.subject) =>
                      at \in lagged[c] \/ Got(Output(c)', sid, at)
    <3>1. CASE since'[c][sid] = Len(channel)
      <4>1. Len(channel) \in 0..Len(channel')
        BY <1>0, <1>1, <1>2
      <4>2. (Len(channel) + 1)..(cursor[c] - 1) = {}
        BY <1>0
      <4> QED
        BY <3>1, <4>1, <4>2, ZenonT(60)
    <3>2. CASE /\ subscriptions'[c][sid] = subscriptions[c][sid]
               /\ since'[c][sid] = since[c][sid]
      <4>1. /\ since[c][sid] \in 0..Len(channel)
            /\ \A at \in (since[c][sid] + 1)..(cursor[c] - 1) :
                 Fits(subscriptions[c][sid], channel[at].msg.subject) =>
                   at \in lagged[c] \/ Got(Output(c), sid, at)
        BY <1>0, <2>1, <3>2, ZenonT(60) DEF OutputInv
      <4>2. since[c][sid] \in 0..Len(channel')
        BY <1>0, <1>1, <1>2, <4>1, SMTT(60)
      <4>3. \A at \in (since[c][sid] + 1)..(cursor[c] - 1) :
              at \in 1..(cursor[c] - 1)
        BY <1>0, <4>1
      <4>4. \A at \in (since[c][sid] + 1)..(cursor[c] - 1) :
              channel'[at] = channel[at]
        BY <1>1, <1>2, <4>3, Zenon
      <4> QED
        BY <1>2, <3>2, <4>1, <4>2, <4>4, Zenon
    <3> QED
      BY <1>2, <2>1, <3>1, <3>2, Zenon
  <2>2. open'[c] # "open" =>
          /\ socket'[c] = <<>> /\ frames'[c] = <<>>
          /\ \A sid \in Sids : subscriptions'[c][sid] = None
    BY <1>0, <1>2, Zenon DEF OutputInv
  <2> QED
    BY <1>2, <2>1, <2>2, Zenon DEF OutputInv
<1>3. ASSUME Grown, Subs, cursor'[c] = cursor[c], lagged'[c] = lagged[c],
             frames'[c] = frames[c], socket'[c] = socket[c],
             open'[c] = open[c]
      PROVE  OutputInv(c)'
  <2>1. Output(c)' = Output(c)
    BY <1>3, Zenon DEF Output
  <2>2. Ordered(Output(c)') /\ Passed(Output(c)', cursor[c])
    BY <1>0, <2>1, Zenon DEF OutputInv
  <2>3. \A sid, at : Got(Output(c), sid, at) => Got(Output(c)', sid, at)
    BY <2>1, Zenon
  <2> QED
    BY <1>2, <1>3, <2>2, <2>3, Zenon
<1>4. ASSUME Grown, Still(c)
      PROVE  OutputInv(c)'
  BY <1>3, <1>4, Zenon DEF Still
<1>5. ASSUME Ended(c)
      PROVE  OutputInv(c)'
  <2>1. /\ open'[c] = "closed" /\ frames'[c] = <<>> /\ socket'[c] = <<>>
        /\ \A sid \in Sids : subscriptions'[c][sid] = None
    BY <1>5, Zenon DEF Ended
  <2>2. Len(Output(c)') = 0
    BY <2>1, SMTT(60) DEF Output
  <2>3. Passed(Output(c)', cursor'[c]) /\ Ordered(Output(c)')
    BY <2>2 DEF Passed, Ordered
  <2> QED
    BY <2>1, <2>3, Zenon DEF OutputInv
<1>6. ASSUME frames[c] = <<>>
      PROVE  /\ Output(c) = socket[c]
             /\ Ordered(socket[c]) /\ Passed(socket[c], cursor[c])
  <2>1. Output(c) = socket[c]
    BY <1>0, <1>6 DEF Output
  <2> QED
    BY <1>0, <2>1, ZenonT(60) DEF OutputInv
<1>7. ASSUME Accept(c)
      PROVE  OutputInv(c)'
  <2>0. open[c] # "open"
    BY <1>7, ServerAssumption DEF Accept
  <2>1. /\ open'[c] = "open" /\ channel' = channel
        /\ frames'[c] = <<[kind |-> "INFO"]>> /\ socket'[c] = socket[c]
        /\ subscriptions'[c] = subscriptions[c]
    BY <1>7, ZenonT(60) DEF Accept, TypeOK
  <2>2. socket[c] = <<>> /\ \A sid \in Sids : subscriptions[c][sid] = None
    BY <1>0, <2>0, Zenon DEF OutputInv
  <2>3. Output(c)' = <<[kind |-> "INFO"]>>
    <3>1. Output(c)' = <<>> \o <<[kind |-> "INFO"]>>
      BY <2>1, <2>2, Zenon DEF Output
    <3> QED
      BY <3>1
  <2>4. Passed(Output(c)', cursor'[c]) /\ Ordered(Output(c)')
    BY <2>3 DEF Passed, Ordered, IsFor
  <2> QED
    BY <2>1, <2>2, <2>4, Zenon DEF OutputInv
<1>8. ASSUME Read(c)
      PROVE  OutputInv(c)'
  <2> DEFINE m == ReadClientMessage(held[c], Head(wire[c]))
  <2>1. /\ Selecting(c)
        /\ Ended(c) \/ Took(c, m)
    BY <1>8, ReadEffect, Zenon
  <2> HIDE DEF m
  <2>2. CASE Took(c, m)
    <3>1. /\ Grown /\ cursor'[c] = cursor[c] /\ lagged'[c] = lagged[c]
          /\ open'[c] = "open" /\ frames[c] = <<>> /\ socket'[c] = socket[c]
      BY <2>1, <2>2, Zenon DEF Took, Selecting
    <3>2. \A sid \in Sids :
            \/ subscriptions'[c][sid] = None
            \/ since'[c][sid] = Len(channel)
            \/ /\ subscriptions'[c][sid] = subscriptions[c][sid]
               /\ since'[c][sid] = since[c][sid]
      <4>1. /\ subscriptions[c] \in [Sids -> Patterns \cup {None}]
            /\ since[c] \in [Sids -> Nat \cup {None}]
        BY Zenon DEF TypeOK
      <4>2. CASE m.verb = "SUB"
        <5>1. /\ subscriptions'[c] = [subscriptions[c] EXCEPT ![m.sid] = m.subject]
              /\ since'[c] = [since[c] EXCEPT ![m.sid] = Len(channel)]
          BY <2>2, <4>2, Zenon DEF Took
        <5> QED
          BY <4>1, <5>1, Zenon
      <4>3. CASE m.verb # "SUB"
        <5>1. /\ \/ subscriptions'[c] = [subscriptions[c] EXCEPT ![m.sid] = None]
                 \/ subscriptions'[c] = subscriptions[c]
              /\ since'[c] = since[c]
          BY <2>2, <4>3, Zenon DEF Took
        <5> QED
          BY <4>1, <5>1, Zenon
      <4> QED
        BY <4>2, <4>3, Zenon
    <3>3. /\ Output(c) = socket[c]
          /\ Ordered(socket[c]) /\ Passed(socket[c], cursor[c])
      BY <1>6, <3>1, Zenon
    <3>4. CASE m.verb = "PING"
      <4> DEFINE f == [kind |-> "PONG"]
      <4>1. f \in Frame /\ f.kind # "MSG"
        BY DEF Frame
      <4>2. Output(c)' = socket[c] \o <<f>>
        BY <2>2, <3>1, <3>4, Zenon DEF Took, Output
      <4> HIDE DEF f
      <4>3. /\ Ordered(socket[c] \o <<f>>) /\ Passed(socket[c] \o <<f>>, cursor[c])
            /\ \A sid, at : Got(socket[c], sid, at) =>
                 Got(socket[c] \o <<f>>, sid, at)
        BY <1>0, <3>3, <4>1, ConcatControl, Zenon
      <4> QED
        BY <1>2, <3>1, <3>2, <3>3, <4>2, <4>3, ZenonT(60)
    <3>5. CASE m.verb # "PING"
      <4>1. Output(c)' = Output(c)
        BY <2>2, <3>1, <3>5, Zenon DEF Took, Output
      <4> QED
        BY <1>2, <3>1, <3>2, <3>3, <4>1, Zenon
    <3> QED
      BY <3>4, <3>5, Zenon
  <2> QED
    BY <1>5, <2>1, <2>2, Zenon
<1>9. ASSUME Deliver(c)
      PROVE  OutputInv(c)'
  <2> DEFINE cur == cursor[c]
             new == frames'[c]
  <2>1. /\ Received(c) /\ channel' = channel
        /\ cur \in Oldest..Len(channel) /\ cursor'[c] = cur + 1
        /\ new \in MsgFrames(c) /\ lagged'[c] = lagged[c]
    BY <1>9, DeliverEffect, Zenon
  <2>2. /\ frames[c] = <<>> /\ open'[c] = "open" /\ socket'[c] = socket[c] /\ Subs
    BY <2>1, Zenon DEF Received, Selecting
  <2>3. cur \in Nat \ {0} /\ cur <= Len(channel) /\ cur \in Nat
    BY <1>0, <2>1, OldestInChannel
  <2>4. /\ new \in Seq(Frame)
        /\ \A i \in 1..Len(new) : new[i].kind = "MSG" /\ new[i].at = cur
        /\ \A i, j \in 1..Len(new) : i < j => new[i].sid # new[j].sid
        /\ \A sid \in Matching(c, channel[cur].msg.subject) :
             \E i \in 1..Len(new) : new[i].sid = sid
    BY <2>1, <2>3, FramesOfDelivery, ZenonT(60)
  <2>5. /\ Output(c) = socket[c] /\ Output(c)' = socket[c] \o new
        /\ Ordered(socket[c]) /\ Passed(socket[c], cur)
    BY <1>6, <2>2, Zenon DEF Output
  <2> HIDE DEF new, cur
  <2>6. \A i, j \in 1..Len(new) : i < j =>
          \A sid \in Sids : ~(IsFor(sid, new[i]) /\ IsFor(sid, new[j]))
    BY <2>4 DEF IsFor
  <2>7. /\ Ordered(socket[c] \o new) /\ Passed(socket[c] \o new, cur + 1)
        /\ \A sid, at : Got(socket[c], sid, at) \/ Got(new, sid, at) =>
             Got(socket[c] \o new, sid, at)
    BY <1>0, <2>3, <2>4, <2>5, <2>6, ConcatFrames, Zenon
  <2>8. ASSUME NEW sid \in Sids, subscriptions'[c][sid] # None
        PROVE  /\ since'[c][sid] \in 0..Len(channel')
               /\ \A at \in (since'[c][sid] + 1)..(cursor'[c] - 1) :
                    Fits(subscriptions'[c][sid], channel'[at].msg.subject) =>
                      at \in lagged'[c] \/ Got(Output(c)', sid, at)
    <3>1. /\ subscriptions'[c][sid] = subscriptions[c][sid]
          /\ since'[c][sid] = since[c][sid]
      BY <2>2, Zenon
    <3>2. /\ since[c][sid] \in 0..Len(channel)
          /\ \A at \in (since[c][sid] + 1)..(cur - 1) :
               Fits(subscriptions[c][sid], channel[at].msg.subject) =>
                 at \in lagged[c] \/ Got(Output(c), sid, at)
      BY <1>0, <2>8, <3>1, ZenonT(60) DEF OutputInv, cur
    <3>3. \A at \in (since[c][sid] + 1)..(cursor'[c] - 1) :
            at \in (since[c][sid] + 1)..(cur - 1) \/ at = cur
      BY <2>1, <2>3, <3>2
    <3>4. Fits(subscriptions[c][sid], channel[cur].msg.subject) =>
            Got(new, sid, cur)
      <4>1. Fits(subscriptions[c][sid], channel[cur].msg.subject) =>
              sid \in Matching(c, channel[cur].msg.subject)
        BY <2>8, <3>1, Zenon DEF Matching
      <4>2. \A i \in 1..Len(new) :
              new[i].sid = sid => IsFor(sid, new[i]) /\ new[i].at = cur
        BY <2>4, Zenon DEF IsFor
      <4>3. sid \in Matching(c, channel[cur].msg.subject) =>
              \E i \in 1..Len(new) : new[i].sid = sid
        BY <2>4, Zenon
      <4> QED
        BY <4>1, <4>2, <4>3, Zenon DEF Got
    <3> QED
      BY <2>1, <2>5, <2>7, <3>1, <3>2, <3>3, <3>4, ZenonT(60)
  <2>9. Passed(Output(c)', cursor'[c]) /\ Ordered(Output(c)')
    BY <2>1, <2>5, <2>7, Zenon
  <2> QED
    BY <2>2, <2>8, <2>9, Zenon DEF OutputInv
<1>10. ASSUME Lagged(c)
       PROVE  OutputInv(c)'
  <2>1. /\ Received(c) /\ channel' = channel /\ frames'[c] = frames[c]
        /\ cursor[c] < Oldest /\ cursor'[c] = Oldest
        /\ lagged'[c] = lagged[c] \cup cursor[c]..(Oldest - 1)
    BY <1>10, LaggedEffect, Zenon
  <2>2. /\ open'[c] = "open" /\ socket'[c] = socket[c] /\ Subs
    BY <2>1, Zenon DEF Received, Selecting
  <2>3. Output(c)' = Output(c)
    BY <2>1, <2>2, Zenon DEF Output
  <2>4. Output(c) \in Seq(Frame)
    BY <1>0 DEF Output
  <2>5. Passed(Output(c), Oldest)
    <3> DEFINE O == Output(c)
    <3> HIDE DEF O
    <3> SUFFICES ASSUME NEW i \in 1..Len(O), O[i].kind = "MSG"
                 PROVE  O[i].at < Oldest
      BY Zenon DEF Passed, O
    <3>1. O[i] \in Frame
      BY <2>4 DEF O
    <3>2. O[i].at \in Nat
      BY <3>1 DEF Frame
    <3>3. O[i].at < cursor[c]
      BY <1>0, Zenon DEF OutputInv, Passed, O
    <3>4. cursor[c] \in Nat /\ Oldest \in Nat /\ cursor[c] < Oldest
      BY <1>0, <2>1, OldestInChannel
    <3> QED
      BY <3>2, <3>3, <3>4
  <2>6. ASSUME NEW sid \in Sids, subscriptions'[c][sid] # None
        PROVE  /\ since'[c][sid] \in 0..Len(channel')
               /\ \A at \in (since'[c][sid] + 1)..(cursor'[c] - 1) :
                    Fits(subscriptions'[c][sid], channel'[at].msg.subject) =>
                      at \in lagged'[c] \/ Got(Output(c)', sid, at)
    <3>1. /\ subscriptions'[c][sid] = subscriptions[c][sid]
          /\ since'[c][sid] = since[c][sid]
      BY <2>2, Zenon
    <3>2. /\ since[c][sid] \in 0..Len(channel)
          /\ \A at \in (since[c][sid] + 1)..(cursor[c] - 1) :
               Fits(subscriptions[c][sid], channel[at].msg.subject) =>
                 at \in lagged[c] \/ Got(Output(c), sid, at)
      BY <1>0, <2>6, <3>1, ZenonT(60) DEF OutputInv
    <3>3. \A at \in (since[c][sid] + 1)..(Oldest - 1) :
            \/ at \in (since[c][sid] + 1)..(cursor[c] - 1)
            \/ at \in cursor[c]..(Oldest - 1)
      BY <1>0, <3>2, OldestInChannel
    <3> QED
      BY <2>1, <2>3, <3>1, <3>2, <3>3, Zenon
  <2>7. Passed(Output(c)', cursor'[c]) /\ Ordered(Output(c)')
    BY <1>0, <2>1, <2>3, <2>5, Zenon DEF OutputInv
  <2> QED
    BY <2>2, <2>6, <2>7, Zenon DEF OutputInv
<1>11. ASSUME Write(c)
       PROVE  OutputInv(c)'
  <2>1. /\ channel' = channel /\ cursor'[c] = cursor[c] /\ lagged'[c] = lagged[c]
        /\ open'[c] = "open" /\ Subs /\ frames[c] # <<>>
        /\ socket'[c] = Append(socket[c], Head(frames[c]))
        /\ frames'[c] = Tail(frames[c])
    BY <1>11, ZenonT(60) DEF Write, TypeOK
  <2>2. Append(socket[c], Head(frames[c])) \o Tail(frames[c])
          = socket[c] \o frames[c]
    BY <1>0, <2>1, WrittenFrame, Zenon
  <2>3. Output(c)' = Output(c)
    BY <2>1, <2>2, ZenonT(60) DEF Output
  <2>4. Ordered(Output(c)') /\ Passed(Output(c)', cursor[c])
    BY <1>0, <2>3, Zenon DEF OutputInv
  <2>5. \A sid, at : Got(Output(c), sid, at) => Got(Output(c)', sid, at)
    BY <2>3, Zenon
  <2> QED
    BY <1>2, <2>1, <2>4, <2>5, Zenon
<1>12. ASSUME NEW d \in Clients, Task(d)
       PROVE  OutputInv(c)'
  <2>1. CASE Read(d) /\ c # d
    <3>1. Still(c) /\ (channel' = channel \/ \E n : channel' = Append(channel, n))
      BY <2>1, ReadEffect, Zenon DEF Took
    <3> QED
      BY <1>4, <3>1, Zenon
  <2>2. CASE WriteFails(d)
    BY <1>4, <1>5, <2>2, EndClears, Zenon DEF WriteFails
  <2>3. CASE Deliver(d) /\ c # d
    BY <1>4, <2>3, DeliverEffect, Zenon
  <2>4. CASE Lagged(d) /\ c # d
    BY <1>4, <2>4, LaggedEffect, Zenon
  <2>5. CASE Write(d) /\ c # d
    BY <1>3, <2>5, Zenon DEF Write, TypeOK
  <2> QED
    BY <1>8, <1>9, <1>10, <1>11, <1>12, <2>1, <2>2, <2>3, <2>4, <2>5,
       ZenonT(60)
    DEF Task
<1>13. ASSUME NEW d \in Clients, Accept(d), c # d
       PROVE  OutputInv(c)'
  BY <1>3, <1>13, ZenonT(60) DEF Accept, TypeOK
<1>14. ASSUME NEW d \in Clients, NEW msg \in Messages[d], Send(d, msg)
       PROVE  OutputInv(c)'
  BY <1>3, <1>14, Zenon DEF Send
<1>15. CASE AcceptFails
  BY <1>4, <1>5, <1>15, EndClears, Zenon DEF AcceptFails
<1>16. CASE UNCHANGED vars
  BY <1>3, <1>16, Zenon DEF vars
<1> QED
  BY <1>7, <1>12, <1>13, <1>14, <1>15, <1>16, ZenonT(60) DEF Next

-----------------------------------------------------------------------------
(* Why a task ends *)

(* The read fails on a line of the client's own, or after a cut.            *)
LEMMA CauseStep ==
  ASSUME TypeOK, \A c \in Clients : ReadInv(c) /\ CauseInv(c), [Next]_vars,
         NEW c \in Clients
  PROVE  CauseInv(c)'
<1> USE DEF clientVars, taskVars
<1>1. ASSUME sent'[c] = sent[c], cut'[c] = cut[c], open'[c] = open[c],
             serving' => serving
      PROVE  CauseInv(c)'
  BY <1>1, Zenon DEF CauseInv, WellFormed, HungUp
<1>2. ASSUME open'[c] = "open"
      PROVE  CauseInv(c)'
  BY <1>2 DEF CauseInv
<1>3. ASSUME Still(c), serving' => serving
      PROVE  CauseInv(c)'
  BY <1>1, <1>3, Zenon DEF Still
<1>4. ASSUME HungUp(c) \/ cut[c] \/ ~WellFormed(c), Ended(c)
      PROVE  CauseInv(c)'
  BY <1>4, ZenonT(60) DEF CauseInv, WellFormed, HungUp, Ended
<1>5. Read(c) => CauseInv(c)'
  <2> SUFFICES ASSUME Read(c)
               PROVE  CauseInv(c)'
    OBVIOUS
  <2> DEFINE p == Head(wire[c])
             m == ReadClientMessage(held[c], p)
  <2>1. /\ Selecting(c) /\ wire[c] # <<>>
        /\ \/ m.verb \in {"error", "EOF"} /\ Ended(c)
           \/ Took(c, m)
    BY ReadEffect, Zenon
  <2>2. CASE m.verb \in {"error", "EOF"} /\ Ended(c)
    <3>1. PICK k \in 1..Len(sent[c]) : sent[c][k] = p.msg
      <4>1. wire[c] \in Seq(Piece)
        BY Zenon DEF TypeOK
      <4>2. 1 \in 1..Len(wire[c]) /\ wire[c][1] = p
        BY <2>1, <4>1
      <4>3. \A i \in 1..Len(wire[c]) : \E k \in 1..Len(sent[c]) :
              sent[c][k] = wire[c][i].msg
        BY Zenon DEF ReadInv
      <4> HIDE DEF p
      <4> QED
        BY <4>2, <4>3, Zenon
    <3>2. k \in DOMAIN sent[c]
      <4>1. sent[c] \in Seq(ClientMsg)
        BY Zenon DEF TypeOK
      <4> QED
        BY <4>1
    <3> HIDE DEF m, p
    <3>3. p = Head(wire[c]) /\ m = ReadClientMessage(held[c], p)
      BY Zenon DEF m, p
    <3>4. /\ m.verb = "error" =>
               \/ cut[c]
               \/ p.msg.verb = "INVALID"
               \/ p.msg.verb = "PUB" /\ p.msg.payload = "oversize"
          /\ m.verb = "EOF" => p.msg.verb = "EOF"
      BY <2>1, <3>3, ReadOutcome, Zenon
    <3>5. m.verb = "error" \/ m.verb = "EOF"
      BY <2>2, Zenon
    <3>6. p.msg.verb = "EOF" => HungUp(c)
      BY <3>1, <3>2, Zenon DEF HungUp
    <3>7. p.msg.verb = "INVALID" \/
            (p.msg.verb = "PUB" /\ p.msg.payload = "oversize") => ~WellFormed(c)
      BY <3>1, <3>2, Zenon DEF WellFormed
    <3>8. HungUp(c) \/ cut[c] \/ ~WellFormed(c)
      BY <3>4, <3>5, <3>6, <3>7, Zenon
    <3> QED
      BY <1>4, <2>2, <3>8, Zenon
  <2>3. CASE Took(c, m)
    BY <1>2, <2>1, <2>3, Zenon DEF Took, Selecting
  <2> QED
    BY <2>1, <2>2, <2>3, Zenon
<1>6. ASSUME NEW d \in Clients, Task(d)
      PROVE  CauseInv(c)'
  <2>1. CASE Read(d)
    <3>1. c # d => Still(c) /\ serving' = serving
      BY <2>1, ReadEffect, Zenon
    <3> QED
      BY <1>3, <1>5, <2>1, <3>1, Zenon
  <2>2. CASE WriteFails(d)
    <3>1. End({d}) /\ HungUp(d) /\ serving' = serving
      BY <2>2, Zenon DEF WriteFails
    <3>2. {d} \in SUBSET Clients /\ (c # d => c \in Clients \ {d})
      OBVIOUS
    <3>3. (\A e \in {d} : Ended(e)) /\ (\A e \in Clients \ {d} : Still(e))
      BY <3>1, <3>2, EndClears, Zenon
    <3>4. Ended(d) /\ (c # d => Still(c))
      BY <3>2, <3>3, Zenon
    <3> QED
      BY <1>3, <1>4, <3>1, <3>4, Zenon
  <2>3. CASE Deliver(d)
    BY <1>2, <1>3, <2>3, DeliverEffect, Zenon DEF Received, Selecting
  <2>4. CASE Lagged(d)
    BY <1>2, <1>3, <2>4, LaggedEffect, Zenon DEF Received, Selecting
  <2>5. CASE Write(d)
    BY <1>1, <2>5, Zenon DEF Write
  <2> QED
    BY <1>6, <2>1, <2>2, <2>3, <2>4, <2>5, ZenonT(60) DEF Task
<1>7. ASSUME NEW d \in Clients, Accept(d)
      PROVE  CauseInv(c)'
  <2>1. UNCHANGED <<sent, cut, serving>> /\
          (open'[c] = open[c] \/ open'[c] = "open")
    BY <1>7, Zenon DEF Accept, TypeOK
  <2> QED
    BY <1>1, <1>2, <2>1, Zenon
<1>8. ASSUME NEW d \in Clients, NEW msg \in Messages[d], Send(d, msg)
      PROVE  CauseInv(c)'
  <2>1. CASE c = d
    BY <1>2, <1>8, <2>1, Zenon DEF Send
  <2>2. CASE c # d
    BY <1>1, <1>8, <2>2, Zenon DEF Send, TypeOK
  <2> QED
    BY <2>1, <2>2, Zenon
<1>9. CASE AcceptFails
  BY <1>9, Zenon DEF AcceptFails, CauseInv
<1>10. CASE UNCHANGED vars
  BY <1>1, <1>10, Zenon DEF vars
<1> QED
  BY <1>6, <1>7, <1>8, <1>9, <1>10, Zenon DEF Next

-----------------------------------------------------------------------------
(* Before the first client connects.                                        *)
LEMMA InitServer == Init => TypeOK /\ ServerInv
<1> SUFFICES ASSUME Init
             PROVE  TypeOK /\ ServerInv
  OBVIOUS
<1>1. /\ <<>> \in Seq(ClientMsg) /\ Len(<<>>) = 0 /\ <<>> \in Seq(Piece)
      /\ <<>> \in Seq(Frame) /\ <<>> \in Seq([from : Clients, msg : ClientMsg])
      /\ 1 \in Nat \ {0} /\ 1 <= 0 + 1 /\ 0 \in 0..2
      /\ \A c \in Clients : 0 <= MaxSent[c]
  BY ServerAssumption
<1>2. TypeOK
  BY <1>1, Zenon DEF Init, TypeOK
<1>3. ASSUME NEW c \in Clients
      PROVE  ReadInv(c) /\ OutputInv(c) /\ CauseInv(c)
  <2>1. /\ wire[c] = <<>> /\ sent[c] = <<>> /\ held[c] = 0 /\ open[c] = None
        /\ socket[c] = <<>> /\ frames[c] = <<>>
        /\ \A sid \in Sids : subscriptions[c][sid] = None
    BY Zenon DEF Init
  <2>2. ReadInv(c)
    BY <2>1 DEF ReadInv, InPieces
  <2>3. Len(Output(c)) = 0
    BY <2>1, SMTT(60) DEF Output
  <2>4. OutputInv(c)
    BY <2>1, <2>3 DEF OutputInv, Passed, Ordered
  <2>5. CauseInv(c)
    BY <2>1, ServerAssumption DEF CauseInv
  <2> QED
    BY <2>2, <2>4, <2>5
<1> QED
  BY <1>2, <1>3, Zenon DEF ServerInv

(* The inductive invariant of the server.                                   *)
LEMMA ServerInvariant == Spec => [](TypeOK /\ ServerInv)
<1>1. TypeOK /\ ServerInv /\ [Next]_vars => (TypeOK /\ ServerInv)'
  <2> SUFFICES ASSUME TypeOK, ServerInv, [Next]_vars
               PROVE  (TypeOK /\ ServerInv)'
    OBVIOUS
  <2>1. \A c \in Clients : ReadInv(c) /\ OutputInv(c) /\ CauseInv(c)
    BY Zenon DEF ServerInv
  <2>2. TypeOK'
    BY <2>1, TypeStep, Zenon
  <2>3. \A c \in Clients : ReadInv(c)' /\ OutputInv(c)' /\ CauseInv(c)'
    BY <2>1, <2>2, ReadInvStep, OutputStep, CauseStep, Zenon
  <2> QED
    BY <2>2, <2>3, Zenon DEF ServerInv
<1> QED
  BY <1>1, InitServer, PTL DEF Spec

(* Channel positions, read buffers and subscription tables keep their types *)
(* and ranges, however many clients there are.                              *)
THEOREM TypeCorrect == Spec => []TypeOK
  BY ServerInvariant, PTL

(* A client gets the messages of a subscription in the order of the         *)
(* broadcast and none twice, for any interleaving of reads, deliveries,     *)
(* lags and blocked writes (server.rs:73-83).                               *)
THEOREM DeliveredInOrderOnce == Spec => []InOrderOnce
<1>1. TypeOK /\ ServerInv => InOrderOnce
  <2> SUFFICES ASSUME TypeOK, ServerInv, NEW c \in Clients
               PROVE  \A sid \in Sids : \A i, j \in DOMAIN Output(c) :
                        i < j /\ IsFor(sid, Output(c)[i])
                              /\ IsFor(sid, Output(c)[j]) =>
                          Output(c)[i].at < Output(c)[j].at
    BY Zenon DEF InOrderOnce
  <2>1. socket[c] \in Seq(Frame) /\ frames[c] \in Seq(Frame)
    BY Zenon DEF TypeOK
  <2>2. DOMAIN Output(c) = 1..Len(Output(c))
    BY <2>1 DEF Output
  <2> QED
    BY <2>2, Zenon DEF ServerInv, OutputInv, Ordered
<1> QED
  BY <1>1, ServerInvariant, PTL

(* Only a message that the channel overwrote, and the receiver counted as   *)
(* lag, is kept from a subscription that stood when it was broadcast.       *)
THEOREM OnlyLagIsSkipped == Spec => []OnlyLagSkips
<1>1. TypeOK /\ ServerInv => OnlyLagSkips
  <2> SUFFICES ASSUME TypeOK, ServerInv, NEW c \in Clients, NEW sid \in Sids,
                      subscriptions[c][sid] # None,
                      NEW at \in (since[c][sid] + 1)..(cursor[c] - 1),
                      Fits(subscriptions[c][sid], channel[at].msg.subject)
               PROVE  \/ at \in lagged[c]
                      \/ \E i \in DOMAIN Output(c) :
                           IsFor(sid, Output(c)[i]) /\ Output(c)[i].at = at
    BY ZenonT(60) DEF OnlyLagSkips
  <2>1. socket[c] \in Seq(Frame) /\ frames[c] \in Seq(Frame)
    BY Zenon DEF TypeOK
  <2>2. DOMAIN Output(c) = 1..Len(Output(c))
    BY <2>1 DEF Output
  <2> QED
    <3>1. at \in lagged[c] \/ Got(Output(c), sid, at)
      BY Zenon DEF ServerInv, OutputInv
    <3> QED
      BY <2>2, <3>1, Zenon DEF Got
<1> QED
  BY <1>1, ServerInvariant, PTL

(* While the server accepts, a connection of a client that keeps to the     *)
(* protocol ends only by its own hang-up or by a read that a delivery cut   *)
(* in two, whatever the other clients send (server.rs:48-90).               *)
THEOREM ClosedOnlyForCause == Spec => []ClosedForCause
<1>1. ServerInv => ClosedForCause
  BY Zenon DEF ServerInv, CauseInv, ClosedForCause
<1> QED
  BY <1>1, ServerInvariant, PTL

-----------------------------------------------------------------------------
(* What a filter picks *)

(* A step of Picked, and a table of its steps up to n.                      *)
Pick(seq, f, P, i) ==
  IF i = 0 THEN <<>>
  ELSE IF seq[i] \in DOMAIN f THEN Append(P[i - 1], f[seq[i]])
  ELSE P[i - 1]

Picks(seq, f, P, n) == \A i \in 0..n : P[i] = Pick(seq, f, P, i)

(* A set of naturals that has n's successor whenever it has n, and 0, is    *)
(* all of them up to N.                                                     *)
LEMMA UpTo ==
  ASSUME NEW N \in Nat, NEW G, 0 \in G,
         \A n \in 0..N : n # 0 /\ n - 1 \in G => n \in G
  PROVE  \A n \in 0..N : n \in G
<1> DEFINE S == {n \in 0..N : n \notin G}
<1> SUFFICES ASSUME S # {}
             PROVE  FALSE
  BY Zenon
<1>1. S \in SUBSET Nat
  OBVIOUS
<1>2. IsWellFoundedOn(OpToRel(<, Nat), Nat)
  BY NatLessThanWellFounded, Zenon
<1>3. PICK m \in S : \A y \in S : ~(<<y, m>> \in OpToRel(<, Nat))
  BY <1>1, <1>2, WFMin, Zenon
<1>4. \A y \in S : ~(y < m)
  BY <1>1, <1>3, Zenon DEF OpToRel
<1>5. m \in 0..N /\ m \notin G /\ m # 0
  BY <1>3, Zenon
<1>6. m - 1 \in 0..N /\ m - 1 < m
  BY <1>5
<1>7. m - 1 \in G
  BY <1>4, <1>6, Zenon
<1> QED
  BY <1>5, <1>7, Zenon

(* Tables agree with each other.                                            *)
LEMMA PicksOnce ==
  ASSUME NEW seq, NEW f, NEW N \in Nat, NEW P, NEW Q,
         Picks(seq, f, P, N), Picks(seq, f, Q, N)
  PROVE  \A n \in 0..N : P[n] = Q[n]
<1> DEFINE G == {n \in 0..N : P[n] = Q[n]}
<1>1. 0 \in 0..N
  OBVIOUS
<1>2. 0 \in G
  BY <1>1, Zenon DEF Picks, Pick
<1>3. ASSUME NEW n \in 0..N, n # 0, n - 1 \in G
      PROVE  n \in G
  BY <1>3, Zenon DEF Picks, Pick
<1> HIDE DEF G
<1>4. \A n \in 0..N : n \in G
  BY <1>2, <1>3, UpTo, Zenon
<1> QED
  BY <1>4, Zenon DEF G

(* There is a table of every length.                                        *)
LEMMA PicksExist ==
  ASSUME NEW seq, NEW f, NEW N \in Nat
  PROVE  \E P : P = [i \in 0..N |-> Pick(seq, f, P, i)]
<1> DEFINE G == {n \in 0..N :
                   \E P : P = [i \in 0..n |-> Pick(seq, f, P, i)]}
<1>1. 0 \in G
  <2> DEFINE P == [i \in 0..0 |-> <<>>]
  <2>1. 0 \in 0..N /\ \A i \in 0..0 : i = 0
    OBVIOUS
  <2>2. P = [i \in 0..0 |-> Pick(seq, f, P, i)]
    BY <2>1, Zenon DEF Pick
  <2> QED
    BY <2>1, <2>2, Zenon
<1>2. ASSUME NEW n \in 0..N, n # 0, n - 1 \in G
      PROVE  n \in G
  <2>1. PICK P : P = [i \in 0..(n - 1) |-> Pick(seq, f, P, i)]
    BY <1>2, Zenon
  <2> DEFINE Q == [i \in 0..n |-> IF i = n THEN Pick(seq, f, P, n) ELSE P[i]]
  <2>2. \A i \in 0..n : /\ i = n \/ i \in 0..(n - 1)
                        /\ i # 0 => i - 1 \in 0..n /\ i - 1 # n
    OBVIOUS
  <2>3. \A i \in 0..n : i # 0 => Q[i - 1] = P[i - 1]
    BY <2>2, Zenon
  <2>4. \A i \in 0..n : Pick(seq, f, Q, i) = Pick(seq, f, P, i)
    <3> HIDE DEF Q
    <3> QED
      BY <2>3, Zenon DEF Pick
  <2>5. \A i \in 0..(n - 1) : P[i] = Pick(seq, f, P, i)
    BY <2>1, Zenon
  <2>6. \A i \in 0..n : (IF i = n THEN Pick(seq, f, P, n) ELSE P[i])
                        = Pick(seq, f, Q, i)
    <3> HIDE DEF Q
    <3> QED
      BY <2>2, <2>4, <2>5, Zenon
  <2>7. Q = [i \in 0..n |-> Pick(seq, f, Q, i)]
    BY <2>6, Zenon
  <2> QED
    BY <2>7, Zenon
<1> HIDE DEF G
<1>3. \A n \in 0..N : n \in G
  BY <1>1, <1>2, UpTo, Zenon
<1>4. N \in G
  BY <1>3
<1> QED
  BY <1>4, Zenon DEF G

(* Picked is the last entry of any table for the sequence.                  *)
LEMMA PickedIs ==
  ASSUME NEW seq, Len(seq) \in Nat, NEW f
  PROVE  /\ \E P : Picks(seq, f, P, Len(seq))
         /\ \A P : Picks(seq, f, P, Len(seq)) => Picked(seq, f) = P[Len(seq)]
<1> DEFINE N == Len(seq)
           Q == CHOOSE P : P = [i \in 0..N |-> Pick(seq, f, P, i)]
<1>1. Q = [i \in 0..N |-> Pick(seq, f, Q, i)]
  BY PicksExist, ZenonT(60)
<1>2. Picks(seq, f, Q, N)
  <2> HIDE DEF Q
  <2> QED
    BY <1>1, Zenon DEF Picks
<1>3. Picked(seq, f) = Q[N]
  BY Zenon DEF Picked, Pick
<1> HIDE DEF Q
<1>4. N \in 0..N
  OBVIOUS
<1>5. ASSUME NEW P, Picks(seq, f, P, N)
      PROVE  P[N] = Q[N]
  <2>1. N \in Nat
    OBVIOUS
  <2> HIDE DEF N
  <2>2. \A n \in 0..N : P[n] = Q[n]
    BY <1>2, <1>5, <2>1, PicksOnce
  <2> QED
    BY <1>4, <2>2, Zenon
<1> QED
  BY <1>2, <1>3, <1>5, Zenon

(* The values of f are in R.                                                *)
Into(f, R) == \A x \in DOMAIN f : f[x] \in R

(* The entries of a table are sequences of values of f.                     *)
LEMMA PicksType ==
  ASSUME NEW seq, NEW f, NEW R, Into(f, R),
         NEW N \in Nat, NEW P, Picks(seq, f, P, N)
  PROVE  \A n \in 0..N : P[n] \in Seq(R)
<1> DEFINE G == {n \in 0..N : P[n] \in Seq(R)}
<1>1. 0 \in G
  <2>1. 0 \in 0..N /\ <<>> \in Seq(R)
    OBVIOUS
  <2> QED
    BY <2>1, Zenon DEF Picks, Pick
<1>2. ASSUME NEW n \in 0..N, n # 0, n - 1 \in G
      PROVE  n \in G
  <2>1. \A q \in Seq(R), r \in R : Append(q, r) \in Seq(R)
    OBVIOUS
  <2> QED
    BY <1>2, <2>1, Zenon DEF Picks, Pick, Into
<1> HIDE DEF G
<1>3. \A n \in 0..N : n \in G
  BY <1>1, <1>2, UpTo, Zenon
<1> QED
  BY <1>3, Zenon DEF G

(* So is what is picked.                                                    *)
LEMMA PickedType ==
  ASSUME NEW T, NEW seq \in Seq(T), NEW f, NEW R, Into(f, R)
  PROVE  Picked(seq, f) \in Seq(R)
<1>1. Len(seq) \in Nat /\ Len(seq) \in 0..Len(seq)
  OBVIOUS
<1>2. PICK P : Picks(seq, f, P, Len(seq))
  BY <1>1, PickedIs, Zenon
<1>3. Picked(seq, f) = P[Len(seq)]
  BY <1>1, <1>2, PickedIs, Zenon
<1>4. \A n \in 0..Len(seq) : P[n] \in Seq(R)
  BY <1>1, <1>2, PicksType, Zenon
<1> QED
  BY <1>1, <1>3, <1>4, Zenon

(* Nothing is picked of an empty sequence, and at most the last element's   *)
(* value where f is not defined for the others.                             *)
LEMMA PickedLast ==
  ASSUME NEW f
  PROVE  /\ Picked(<<>>, f) = <<>>
         /\ \A seq : /\ Len(seq) \in Nat \ {0}
                     /\ \A i \in 1..(Len(seq) - 1) : seq[i] \notin DOMAIN f
                     => Picked(seq, f) = IF seq[Len(seq)] \in DOMAIN f
                                         THEN <<f[seq[Len(seq)]]>> ELSE <<>>
<1>1. Picked(<<>>, f) = <<>>
  <2>1. Len(<<>>) = 0 /\ 0 \in Nat /\ 0 \in 0..0
    OBVIOUS
  <2>2. PICK P : Picks(<<>>, f, P, 0)
    BY <2>1, PickedIs, Zenon
  <2>3. Picked(<<>>, f) = P[0]
    BY <2>1, <2>2, PickedIs, Zenon
  <2> QED
    BY <2>1, <2>2, <2>3, Zenon DEF Picks, Pick
<1>2. ASSUME NEW seq, Len(seq) \in Nat \ {0},
             \A i \in 1..(Len(seq) - 1) : seq[i] \notin DOMAIN f
      PROVE  Picked(seq, f) = IF seq[Len(seq)] \in DOMAIN f
                              THEN <<f[seq[Len(seq)]]>> ELSE <<>>
  <2> DEFINE n == Len(seq)
             last == IF seq[n] \in DOMAIN f THEN <<f[seq[n]]>> ELSE <<>>
             P == [i \in 0..n |-> IF i = n THEN last ELSE <<>>]
  <2>1. n \in Nat /\ n \in 0..n /\ n # 0
    BY <1>2
  <2>2. \A i \in 0..n : /\ i # 0 => i - 1 \in 0..n /\ i - 1 # n
                        /\ i = n \/ i = 0 \/ i \in 1..(n - 1)
    BY <1>2
  <2>3. Append(<<>>, f[seq[n]]) = <<f[seq[n]]>>
    OBVIOUS
  <2>4. \A i \in 0..n : i # 0 => P[i - 1] = <<>>
    BY <2>2, Zenon
  <2>5. P[n] = last /\ \A i \in 0..n : i # n => P[i] = <<>>
    BY <2>1, Zenon
  <2> HIDE DEF n, P
  <2>6. P[n] = Pick(seq, f, P, n)
    BY <2>1, <2>3, <2>4, <2>5, Zenon DEF Pick
  <2>7. ASSUME NEW i \in 0..n, i # n
        PROVE  P[i] = Pick(seq, f, P, i)
    <3>1. i = 0 \/ seq[i] \notin DOMAIN f
      BY <1>2, <2>2, <2>7, Zenon DEF n
    <3> QED
      BY <2>4, <2>5, <2>7, <3>1, Zenon DEF Pick
  <2>8. Picks(seq, f, P, n)
    BY <2>6, <2>7, Zenon DEF Picks
  <2> QED
    BY <2>1, <2>5, <2>8, PickedIs, Zenon DEF n
<1> QED
  BY <1>1, <1>2, Zenon

(* Of one element its value.                                                *)
LEMMA PickedOne ==
  ASSUME NEW f, NEW e
  PROVE  Picked(<<e>>, f) = IF e \in DOMAIN f THEN <<f[e]>> ELSE <<>>
<1> DEFINE s == <<e>>
<1>1. Len(s) = 1 /\ s[1] = e /\ 1 \in Nat \ {0} /\ 1..(1 - 1) = {}
  OBVIOUS
<1>2. \A i \in 1..(Len(s) - 1) : s[i] \notin DOMAIN f
  BY <1>1
<1>3. Len(s) \in Nat \ {0} /\ s[Len(s)] = e
  BY <1>1, Zenon
<1> HIDE DEF s
<1>4. Picked(s, f) = IF e \in DOMAIN f THEN <<f[e]>> ELSE <<>>
  BY <1>2, <1>3, PickedLast, Zenon
<1> QED
  BY <1>4, Zenon DEF s

(* Of two sequences in a row what is picked of each.                        *)
LEMMA PickedConcat ==
  ASSUME NEW f, NEW R, Into(f, R), NEW T
  PROVE  \A a, b \in Seq(T) : Picked(a \o b, f) = Picked(a, f) \o Picked(b, f)
<1> SUFFICES ASSUME NEW a \in Seq(T), NEW b \in Seq(T)
             PROVE  Picked(a \o b, f) = Picked(a, f) \o Picked(b, f)
  OBVIOUS
<1> DEFINE s == a \o b
           m == Len(a)
           n == Len(b)
<1>1. /\ m \in Nat /\ n \in Nat /\ Len(s) = m + n /\ m + n \in Nat
      /\ \A i \in 1..m : s[i] = a[i]
      /\ \A i \in 1..n : s[m + i] = b[i]
  OBVIOUS
<1> HIDE DEF s, m, n
<1>2. PICK A : Picks(a, f, A, m)
  BY <1>1, PickedIs, Zenon DEF m
<1>3. PICK B : Picks(b, f, B, n)
  BY <1>1, PickedIs, Zenon DEF n
<1>4. /\ \A i \in 0..m : A[i] \in Seq(R)
      /\ \A i \in 0..n : B[i] \in Seq(R)
  BY <1>1, <1>2, <1>3, PicksType, Zenon
<1>5. /\ Picked(a, f) = A[m] /\ Picked(b, f) = B[n]
  BY <1>1, <1>2, <1>3, PickedIs, Zenon DEF m, n
<1>6. /\ m \in 0..m /\ n \in 0..n /\ 0 \in 0..n /\ 0 \in 0..m
      /\ m + n \in 0..(m + n) /\ (m + n) - m = n
  BY <1>1
<1>7. A[m] \in Seq(R) /\ B[0] = <<>> /\ A[0] = <<>>
  BY <1>2, <1>3, <1>4, <1>6, Zenon DEF Picks, Pick
<1>8. A[m] \o <<>> = A[m]
  BY <1>7
<1> DEFINE P == [i \in 0..(m + n) |-> IF i <= m THEN A[i] ELSE A[m] \o B[i - m]]
<1>9. ASSUME NEW i \in 0..(m + n)
      PROVE  P[i] = Pick(s, f, P, i)
  <2>1. CASE i = 0
    <3>1. P[i] = A[0]
      BY <1>1, <2>1
    <3> QED
      BY <1>7, <2>1, <3>1, Zenon DEF Pick
  <2>2. CASE i # 0 /\ i <= m
    <3>1. /\ i \in 0..m /\ i \in 1..m
          /\ i - 1 \in 0..(m + n) /\ i - 1 <= m
      BY <1>1, <2>2
    <3>2. P[i] = A[i] /\ P[i - 1] = A[i - 1] /\ s[i] = a[i]
      BY <1>1, <2>2, <3>1, Zenon
    <3> HIDE DEF P
    <3> QED
      BY <1>2, <2>2, <3>1, <3>2, ZenonT(60) DEF Picks, Pick
  <2>3. CASE i > m
    <3> DEFINE j == i - m
    <3>1. /\ j \in 0..n /\ j \in 1..n /\ j # 0 /\ i = m + j /\ ~(i <= m)
          /\ i - 1 \in 0..(m + n) /\ (i - 1) - m = j - 1 /\ j - 1 \in 0..n
          /\ i # 0 /\ (i - 1 <= m => i - 1 = m /\ j - 1 = 0)
      BY <1>1, <2>3
    <3>2. s[i] = b[j]
      BY <1>1, <3>1, Zenon
    <3>3. P[i] = A[m] \o B[j]
      BY <3>1, Zenon
    <3>4. P[i - 1] = A[m] \o B[j - 1]
      BY <1>7, <1>8, <3>1, Zenon
    <3> HIDE DEF P, j
    <3>5. B[j] = IF b[j] \in DOMAIN f THEN Append(B[j - 1], f[b[j]])
                 ELSE B[j - 1]
      BY <1>3, <3>1, Zenon DEF Picks, Pick
    <3>6. Pick(s, f, P, i) = IF b[j] \in DOMAIN f
                             THEN Append(A[m] \o B[j - 1], f[b[j]])
                             ELSE A[m] \o B[j - 1]
      BY <3>1, <3>2, <3>4, Zenon DEF Pick
    <3>7. \A x, y \in Seq(R), e \in R : x \o Append(y, e) = Append(x \o y, e)
      OBVIOUS
    <3>8. B[j - 1] \in Seq(R)
      BY <1>4, <3>1, Zenon
    <3>9. CASE b[j] \in DOMAIN f
      <4>1. f[b[j]] \in R
        BY <3>9, Zenon DEF Into
      <4>2. A[m] \o Append(B[j - 1], f[b[j]]) = Append(A[m] \o B[j - 1], f[b[j]])
        BY <1>7, <3>7, <3>8, <4>1, ZenonT(60)
      <4> QED
        BY <3>3, <3>5, <3>6, <3>9, <4>2, ZenonT(60)
    <3>10. CASE b[j] \notin DOMAIN f
      BY <3>3, <3>5, <3>6, <3>10, ZenonT(60)
    <3> QED
      BY <3>9, <3>10, ZenonT(60)
  <2>4. i = 0 \/ (i # 0 /\ i <= m) \/ i > m
    BY <1>1
  <2> QED
    BY <2>1, <2>2, <2>3, <2>4, Zenon
<1>10. P[m + n] = A[m] \o B[n]
  <2>1. CASE n = 0
    <3>1. P[m + n] = A[m]
      BY <1>1, <2>1
    <3> QED
      BY <1>7, <1>8, <2>1, <3>1, ZenonT(60)
  <2>2. CASE n # 0
    <3>1. ~(m + n <= m)
      BY <1>1, <2>2
    <3> QED
      BY <1>6, <3>1, Zenon
  <2> QED
    BY <2>1, <2>2, Zenon
<1> HIDE DEF P
<1>11. Picked(s, f) = P[m + n]
  <2>1. Picks(s, f, P, Len(s))
    BY <1>1, <1>9, Zenon DEF Picks
  <2>2. Picked(s, f) = P[Len(s)]
    BY <1>1, <2>1, PickedIs, Zenon
  <2> QED
    BY <1>1, <2>2, Zenon
<1> QED
  BY <1>5, <1>10, <1>11, Zenon DEF s
(* Picking at the ends of a sequence.                                       *)
LEMMA PickedEnds ==
  ASSUME NEW f, NEW R, Into(f, R), NEW T, NEW s \in Seq(T)
  PROVE  /\ \A e \in T : Picked(Append(s, e), f) = Picked(s, f) \o Picked(<<e>>, f)
         /\ s # <<>> => Picked(s, f) = Picked(<<Head(s)>>, f) \o Picked(Tail(s), f)
<1>1. \A e \in T : <<e>> \in Seq(T) /\ Append(s, e) = s \o <<e>>
  OBVIOUS
<1>2. s # <<>> => /\ <<Head(s)>> \in Seq(T) /\ Tail(s) \in Seq(T)
                  /\ s = <<Head(s)>> \o Tail(s)
  OBVIOUS
<1>3. \A a, b \in Seq(T) : Picked(a \o b, f) = Picked(a, f) \o Picked(b, f)
  BY PickedConcat, Zenon
<1>4. ASSUME NEW e \in T
      PROVE  Picked(Append(s, e), f) = Picked(s, f) \o Picked(<<e>>, f)
  BY <1>1, <1>3, Zenon
<1>5. ASSUME s # <<>>
      PROVE  Picked(s, f) = Picked(<<Head(s)>>, f) \o Picked(Tail(s), f)
  BY <1>2, <1>3, <1>5, Zenon
<1> QED
  BY <1>4, <1>5, Zenon

-----------------------------------------------------------------------------
(* What is lost *)

(* The data a client sent was broadcast or is still on the wire, unless its *)
(* connection has ended.                                                    *)
LossInv(c) ==
  open[c] # "closed" =>
    Picked(sent[c], DataSent) =
      Picked(channel, DataFrom(c)) \o Picked(wire[c], DataComing)

(* Plain data is what the filters let through.                              *)
LEMMA DataFields ==
  /\ Into(DataSent, Data) /\ Into(DataComing, Data)
  /\ \A c : Into(DataFrom(c), Data)
  BY DEF DataSent, DataFrom, DataComing, Into

(* The end of a range of numbers.                                           *)
LEMMA SameRange ==
  ASSUME NEW n \in Nat \ {0}, NEW k \in Nat \ {0}, 1..n = 1..k
  PROVE  n = k
<1>1. n \in 1..n /\ k \in 1..k
  OBVIOUS
<1>2. n \in 1..k /\ k \in 1..n
  BY <1>1, Zenon
<1> QED
  BY <1>2

(* A message and its pieces carry the same data.                            *)
LEMMA DataOfPieces ==
  ASSUME NEW m \in ClientMsg
  PROVE  Picked(Pieces(m), DataComing) = Picked(<<m>>, DataSent)
<1> DEFINE D == IF m \in Data THEN <<m>> ELSE <<>>
           w == Pieces(m)
           n == Len(w)
<1>1. /\ \A part, p : p = [msg |-> m, part |-> part] =>
           /\ p \in DOMAIN DataComing <=> part = "payload" /\ m \in Data
           /\ p \in DOMAIN DataComing => DataComing[p] = m
      /\ m \in DOMAIN DataSent <=> m \in Data
      /\ m \in Data => DataSent[m] = m
  BY DEF DataComing, DataSent
<1>2. m \in Data => m.verb = "PUB"
  BY Zenon DEF Data
<1>3. Picked(<<m>>, DataSent) = D
  <2>1. CASE m \in Data
    BY <1>1, <2>1, PickedOne, Zenon
  <2>2. CASE m \notin Data
    BY <1>1, <2>2, PickedOne, Zenon
  <2> QED
    BY <2>1, <2>2, Zenon
<1>4. /\ DOMAIN w = DOMAIN Parts(m)
      /\ \A i \in DOMAIN w : w[i] = [msg |-> m, part |-> Parts(m)[i]]
  BY Zenon DEF Pieces
<1>5. w \in Seq(Piece) /\ n \in Nat \ {0} /\ DOMAIN w = 1..n
  <2>1. w \in Seq(Piece) /\ w # <<>>
    BY PiecesOf, Zenon
  <2> HIDE DEF w
  <2> QED
    BY <2>1
<1> HIDE DEF w, n
<1>6. \A i \in 1..n :
        /\ w[i] \in DOMAIN DataComing <=> Parts(m)[i] = "payload" /\ m \in Data
        /\ w[i] \in DOMAIN DataComing => DataComing[w[i]] = m
  BY <1>1, <1>4, <1>5, Zenon
<1>7. /\ m.verb = "PUB" => n = 3 /\ Parts(m)[3] = "payload"
      /\ \A i \in 1..(n - 1) : Parts(m)[i] # "payload"
  <2>1. CASE m.verb = "PUB"
    <3>1. Parts(m) = <<"verb", "rest", "payload">>
      BY <2>1, Zenon DEF Parts
    <3>2. DOMAIN Parts(m) = 1..3 /\ 3 \in Nat \ {0}
      BY <3>1
    <3>3. n = 3
      BY <1>4, <1>5, <3>2, SameRange, Zenon
    <3>4. /\ Parts(m)[1] = "verb" /\ Parts(m)[2] = "rest"
          /\ Parts(m)[3] = "payload"
      BY <3>1
    <3>5. \A i \in 1..(n - 1) : i = 1 \/ i = 2
      BY <3>3
    <3>6. "verb" # "payload" /\ "rest" # "payload"
      OBVIOUS
    <3> QED
      BY <3>3, <3>4, <3>5, <3>6, ZenonT(60)
  <2>2. CASE m.verb = "EOF"
    <3>1. Parts(m) = <<"eof">>
      BY <2>2, Zenon DEF Parts
    <3>2. DOMAIN Parts(m) = 1..1 /\ 1 \in Nat \ {0}
      BY <3>1
    <3>3. n = 1
      BY <1>4, <1>5, <3>2, SameRange, ZenonT(60)
    <3> QED
      BY <2>2, <3>3
  <2>3. CASE m.verb \notin {"PUB", "EOF"}
    <3>1. Parts(m) = <<"verb", "rest">>
      BY <2>3, Zenon DEF Parts
    <3>2. DOMAIN Parts(m) = 1..2 /\ 2 \in Nat \ {0}
      BY <3>1
    <3>3. n = 2
      BY <1>4, <1>5, <3>2, SameRange, Zenon
    <3>4. Parts(m)[1] = "verb"
      BY <3>1
    <3> QED
      BY <2>3, <3>3, <3>4
  <2> QED
    BY <2>1, <2>2, <2>3, Zenon
<1>8. n \in 1..n /\ \A i \in 1..(n - 1) : i \in 1..n
  BY <1>5
<1>9. \A i \in 1..(n - 1) : w[i] \notin DOMAIN DataComing
  BY <1>6, <1>7, <1>8, Zenon
<1>10. /\ w[n] \in DOMAIN DataComing <=> m \in Data
       /\ w[n] \in DOMAIN DataComing => DataComing[w[n]] = m
  <2>1. m \in Data => Parts(m)[n] = "payload"
    BY <1>2, <1>7, Zenon
  <2> QED
    BY <1>6, <1>8, <2>1, Zenon
<1>11. Picked(w, DataComing) = IF w[n] \in DOMAIN DataComing
                               THEN <<DataComing[w[n]]>> ELSE <<>>
  BY <1>5, <1>9, PickedLast, Zenon DEF n
<1>12. CASE m \in Data
  BY <1>3, <1>10, <1>11, <1>12, Zenon DEF w
<1>13. CASE m \notin Data
  BY <1>3, <1>10, <1>11, <1>13, Zenon DEF w
<1> QED
  BY <1>12, <1>13, Zenon

(* A piece of plain data ends its message, and a read that comes to it      *)
(* yields it or fails; nothing else yields plain data.                      *)
LEMMA DataRead ==
  ASSUME NEW n \in 0..2, NEW p \in Piece, NEW m, m = ReadClientMessage(n, p),
         IsPiece(p), m.verb # "error"
  PROVE  /\ p \in DOMAIN DataComing => m = p.msg /\ m \in Data
         /\ m.verb = "PUB" /\ m \in Data => p \in DOMAIN DataComing /\ p.msg = m
<1>1. p.msg \in ClientMsg /\ p.part \in {"verb", "rest", "payload", "eof"}
      /\ p = [msg |-> p.msg, part |-> p.part]
  BY DEF Piece
<1>2. p \in DOMAIN DataComing <=> p.part = "payload" /\ p.msg \in Data
  BY <1>1, Zenon DEF DataComing
<1>3. p.msg \in Data => p.msg.payload = "data"
  BY Zenon DEF Data
<1>4. CASE p.part = "payload"
  <2>1. m = p.msg \/ (m.verb = "PING" /\ p.msg.payload = "PING")
    BY <1>4 DEF ReadClientMessage
  <2> QED
    BY <1>2, <1>3, <1>4, <2>1
<1>5. CASE p.part = "eof"
  <2>1. m = p.msg /\ p.msg.verb = "EOF"
    BY <1>5, Zenon DEF ReadClientMessage, IsPiece
  <2> QED
    BY <1>2, <1>5, <2>1
<1>6. CASE p.part = "verb"
  <2>1. m.verb = "reading"
    BY <1>6, Zenon DEF ReadClientMessage
  <2> QED
    BY <1>2, <1>6, <2>1
<1>7. CASE p.part = "rest"
  <2>1. m.verb # "PUB"
    BY <1>7 DEF ReadClientMessage
  <2> QED
    BY <1>2, <1>7, <2>1
<1> QED
  BY <1>1, <1>4, <1>5, <1>6, <1>7, ZenonT(60)
(* Sending puts the data on the wire, a read moves it to the channel or     *)
(* ends the connection, and nobody else publishes under the client's name.  *)
LEMMA LossStep ==
  ASSUME TypeOK, ServerInv, TypeOK', [Next]_vars, NEW c \in Clients, LossInv(c)
  PROVE  LossInv(c)'
<1> USE DEF clientVars, taskVars
<1> DEFINE Entry == [from : Clients, msg : ClientMsg]
           S == Picked(sent[c], DataSent)
           B == Picked(channel, DataFrom(c))
           W == Picked(wire[c], DataComing)
<1>1. /\ sent[c] \in Seq(ClientMsg) /\ wire[c] \in Seq(Piece)
      /\ channel \in Seq(Entry) /\ held[c] \in 0..2
      /\ open[c] \in {None, "open", "closed"}
  BY Zenon DEF TypeOK
<1>2. S \in Seq(Data) /\ B \in Seq(Data) /\ W \in Seq(Data)
  BY <1>1, PickedType, DataFields, Zenon
<1>3. \A x, y, z \in Seq(Data) : (x \o y) \o z = x \o (y \o z)
  OBVIOUS
<1>4. \A x \in Seq(Data) : x \o <<>> = x /\ <<>> \o x = x
  OBVIOUS
<1>5. ASSUME NEW e \in Entry
      PROVE  Picked(Append(channel, e), DataFrom(c)) =
               B \o Picked(<<e>>, DataFrom(c))
  <2> HIDE DEF Entry
  <2> QED
    BY <1>1, DataFields, PickedEnds, Zenon
<1>6. ASSUME NEW m \in ClientMsg
      PROVE  /\ Picked(Append(sent[c], m), DataSent) =
                  S \o Picked(<<m>>, DataSent)
             /\ Picked(wire[c] \o Pieces(m), DataComing) =
                  W \o Picked(<<m>>, DataSent)
  <2>1. Picked(Append(sent[c], m), DataSent) = S \o Picked(<<m>>, DataSent)
    BY <1>1, DataFields, PickedEnds, Zenon
  <2>2. Pieces(m) \in Seq(Piece)
    BY PiecesOf, Zenon
  <2>3. Picked(wire[c] \o Pieces(m), DataComing) =
          W \o Picked(Pieces(m), DataComing)
    BY <1>1, <2>2, DataFields, PickedConcat, Zenon
  <2> QED
    BY <2>1, <2>3, DataOfPieces, Zenon
<1>7. ASSUME open'[c] = "closed" \/ open'[c] = open[c], sent'[c] = sent[c],
             wire'[c] = wire[c], channel' = channel
      PROVE  LossInv(c)'
  BY <1>7, Zenon DEF LossInv
<1>8. ASSUME open'[c] = "closed"
      PROVE  LossInv(c)'
  BY <1>8, Zenon DEF LossInv
<1>9. Read(c) => LossInv(c)'
  <2> SUFFICES ASSUME Read(c), open'[c] # "closed"
               PROVE  LossInv(c)'
    BY <1>8, Zenon
  <2> DEFINE p == Head(wire[c])
             m == ReadClientMessage(held[c], p)
             e == [from |-> c, msg |-> m]
             V == Picked(Tail(wire[c]), DataComing)
             D == Picked(<<p>>, DataComing)
  <2>1. /\ Selecting(c) /\ wire[c] # <<>> /\ m.verb \notin {"error", "EOF"}
        /\ Took(c, m)
    BY ReadEffect, Zenon DEF Ended
  <2>2. p \in Piece /\ Tail(wire[c]) \in Seq(Piece)
    BY <1>1, <2>1
  <2>3. IsPiece(p)
    BY <1>1, <2>1, TailPieces, Zenon DEF ReadInv, ServerInv
  <2>4. /\ p \in DOMAIN DataComing => m = p.msg /\ m \in Data
        /\ m.verb = "PUB" /\ m \in Data => p \in DOMAIN DataComing /\ p.msg = m
    BY <1>1, <2>1, <2>2, <2>3, DataRead, ZenonT(60)
  <2>5. W = D \o V
    BY <1>1, <2>1, DataFields, PickedEnds, ZenonT(60)
  <2>6. /\ m \in Data => m.verb = "PUB"
        /\ e \in DOMAIN DataFrom(c) <=> m \in Data
        /\ m \in Data => DataFrom(c)[e] = m
        /\ p \in DOMAIN DataComing => DataComing[p] = p.msg
    BY DEF Data, DataFrom, DataComing
  <2>7. open[c] = "open" /\ S = B \o W
    BY <2>1, Zenon DEF LossInv, Selecting
  <2>8. D \in Seq(Data) /\ V \in Seq(Data)
    <3>1. <<p>> \in Seq(Piece)
      BY <2>2
    <3> QED
      BY <2>2, <3>1, PickedType, DataFields, Zenon
  <2> HIDE DEF m, p, e
  <2>9. Picked(channel, DataFrom(c))' = B \o D
    <3>1. DataFrom(c)' = DataFrom(c)
      BY DEF DataFrom, Data
    <3>2. CASE m.verb = "PUB"
      <4>1. channel' = Append(channel, e)
        BY <2>1, <3>2, Zenon DEF Took, e
      <4>2. e \in Entry
        <5>1. m \in ClientMsg
          BY <1>1, <2>2, <3>2, ReadYields DEF m
        <5> QED
          BY <5>1 DEF e
      <4>3. Picked(channel', DataFrom(c)) = B \o Picked(<<e>>, DataFrom(c))
        BY <1>5, <4>1, <4>2, Zenon
      <4>4. Picked(<<e>>, DataFrom(c)) = D
        <5>1. CASE m \in Data
          BY <2>4, <2>6, <3>2, <5>1, PickedOne, ZenonT(60)
        <5>2. CASE m \notin Data
          BY <2>4, <2>6, <5>2, PickedOne, Zenon
        <5> QED
          BY <5>1, <5>2, Zenon
      <4> QED
        BY <3>1, <4>3, <4>4, Zenon
    <3>3. CASE m.verb # "PUB"
      <4>1. channel' = channel
        BY <2>1, <3>3, Zenon DEF Took
      <4>2. D = <<>>
        BY <2>4, <2>6, <3>3, PickedOne, ZenonT(60)
      <4> QED
        BY <1>2, <1>4, <3>1, <4>1, <4>2, ZenonT(60)
    <3> QED
      BY <3>2, <3>3, Zenon
  <2>10. wire'[c] = Tail(wire[c]) /\ sent'[c] = sent[c]
    BY <2>1, Zenon DEF Took
  <2>11. DataComing' = DataComing /\ DataSent' = DataSent
    BY DEF DataComing, DataSent, Data
  <2>12. S = (B \o D) \o V
    <3>1. (B \o D) \o V = B \o (D \o V)
      <4> HIDE DEF B, D, V
      <4> QED
        BY <1>2, <1>3, <2>8, ZenonT(60)
    <3> QED
      BY <2>5, <2>7, <3>1, Zenon
  <2> QED
    BY <2>9, <2>10, <2>11, <2>12, Zenon DEF LossInv
<1>10. ASSUME NEW d \in Clients, d # c, Read(d)
      PROVE  LossInv(c)'
  <2> DEFINE m == ReadClientMessage(held[d], Head(wire[d]))
             e == [from |-> d, msg |-> m]
  <2>1. /\ Still(c) /\ wire[d] # <<>>
        /\ channel' = channel \/ (channel' = Append(channel, e) /\ m.verb = "PUB")
    BY <1>10, ReadEffect, ZenonT(60) DEF Took
  <2>2. CASE channel' = channel
    BY <1>7, <2>1, <2>2, Zenon DEF Still
  <2>3. CASE channel' = Append(channel, e) /\ m.verb = "PUB"
    <3>1. m \in ClientMsg
      <4>1. held[d] \in 0..2 /\ wire[d] \in Seq(Piece)
        BY Zenon DEF TypeOK
      <4>2. Head(wire[d]) \in Piece
        BY <2>1, <4>1
      <4>3. m.verb \notin {"reading", "error"}
        BY <2>3
      <4> QED
        BY <4>1, <4>2, <4>3, ReadYields, ZenonT(60)
    <3> HIDE DEF m
    <3>2. e \in Entry /\ e \notin DOMAIN DataFrom(c)
      BY <1>10, <3>1 DEF DataFrom
    <3> HIDE DEF e
    <3>3. Picked(<<e>>, DataFrom(c)) = <<>>
      BY <3>2, PickedOne, Zenon
    <3>4. Picked(channel', DataFrom(c)) = B
      BY <1>2, <1>4, <1>5, <2>3, <3>2, <3>3, ZenonT(60)
    <3> QED
      BY <2>1, <3>4, Zenon DEF LossInv, Still
  <2> QED
    BY <2>1, <2>2, <2>3, Zenon
<1>11. ASSUME NEW d \in Clients, Task(d)
      PROVE  LossInv(c)'
  <2>1. CASE Read(d)
    BY <1>9, <1>10, <2>1, Zenon
  <2>2. CASE WriteFails(d)
    <3>1. End({d})
      BY <2>2, Zenon DEF WriteFails
    <3>2. {d} \in SUBSET Clients /\ (c # d => c \in Clients \ {d})
      OBVIOUS
    <3>3. /\ \A x \in {d} : Ended(x)
          /\ \A x \in Clients \ {d} : Still(x)
          /\ channel' = channel
      BY <3>1, <3>2, EndClears, Zenon
    <3>4. Ended(d) /\ (c # d => Still(c))
      BY <3>2, <3>3, Zenon
    <3> QED
      BY <1>7, <1>8, <3>3, <3>4, Zenon DEF Ended, Still
  <2>3. CASE Deliver(d)
    BY <1>7, <2>3, DeliverEffect, Zenon DEF Received, Still
  <2>4. CASE Lagged(d)
    BY <1>7, <2>4, LaggedEffect, ZenonT(60) DEF Received, Still
  <2>5. CASE Write(d)
    BY <1>7, <2>5, Zenon DEF Write
  <2> QED
    BY <1>11, <2>1, <2>2, <2>3, <2>4, <2>5, ZenonT(60) DEF Task
<1>12. ASSUME NEW d \in Clients, Accept(d)
       PROVE  LossInv(c)'
  <2>1. UNCHANGED <<sent, wire, channel>> /\
          (open'[c] = open[c] \/ open[c] = None)
    BY <1>12, Zenon DEF Accept, TypeOK
  <2>2. None # "closed"
    BY ServerAssumption, Zenon
  <2> QED
    BY <1>7, <2>1, <2>2, ZenonT(60) DEF LossInv
<1>13. ASSUME NEW d \in Clients, NEW msg \in Messages[d], Send(d, msg)
       PROVE  LossInv(c)'
  <2>1. channel' = channel /\ open' = open
    BY <1>13, Zenon DEF Send
  <2>2. CASE c # d
    <3>1. sent'[c] = sent[c] /\ wire'[c] = wire[c]
      BY <1>13, <2>2, ZenonT(60) DEF Send, TypeOK
    <3> QED
      BY <1>7, <2>1, <3>1, ZenonT(60)
  <2>3. CASE c = d
    <3>1. msg \in ClientMsg
      BY ServerAssumption, Zenon
    <3>2. /\ sent'[c] = Append(sent[c], msg)
          /\ wire'[c] = wire[c] \o Pieces(msg) /\ open[c] = "open"
      BY <1>13, <2>3, Zenon DEF Send, TypeOK
    <3> DEFINE D == Picked(<<msg>>, DataSent)
    <3>3. D \in Seq(Data)
      <4>1. <<msg>> \in Seq(ClientMsg)
        BY <3>1
      <4> QED
        BY <4>1, PickedType, DataFields, ZenonT(60)
    <3>4. Picked(sent'[c], DataSent) = S \o D
      BY <1>6, <3>1, <3>2, Zenon
    <3>5. Picked(wire'[c], DataComing) = W \o D
      BY <1>6, <3>1, <3>2, Zenon
    <3>6. S = B \o W
      BY <3>2, Zenon DEF LossInv
    <3>7. S \o D = B \o (W \o D)
      <4>1. (B \o W) \o D = B \o (W \o D)
        <5> HIDE DEF B, W, D
        <5> QED
          BY <1>2, <1>3, <3>3, ZenonT(60)
      <4> QED
        BY <3>6, <4>1, Zenon
    <3> QED
      BY <2>1, <3>4, <3>5, <3>7, ZenonT(60) DEF LossInv
  <2> QED
    BY <2>2, <2>3, Zenon
<1>14. CASE AcceptFails
  <2> DEFINE C == {x \in Clients : open[x] = "open"}
  <2>1. End(C) /\ C \in SUBSET Clients
    BY <1>14, Zenon DEF AcceptFails
  <2>2. /\ \A x \in C : Ended(x)
        /\ \A x \in Clients \ C : Still(x)
        /\ channel' = channel
    <3> HIDE DEF C
    <3> QED
      BY <2>1, EndClears, Zenon
  <2> QED
    BY <1>7, <1>8, <2>2, Zenon DEF Ended, Still
<1>15. CASE UNCHANGED vars
  BY <1>7, <1>15, Zenon DEF vars
<1> QED
  BY <1>11, <1>12, <1>13, <1>14, <1>15, ZenonT(60) DEF Next

(* Before the first client connects.                                        *)
LEMMA LossInit == Init => \A c \in Clients : LossInv(c)
<1> SUFFICES ASSUME Init, NEW c \in Clients
             PROVE  LossInv(c)
  OBVIOUS
<1>1. sent[c] = <<>> /\ wire[c] = <<>> /\ channel = <<>>
  BY Zenon DEF Init
<1>2. \A f : Picked(<<>>, f) = <<>>
  BY PickedLast, Zenon
<1>3. <<>> \o <<>> = <<>>
  OBVIOUS
<1> QED
  BY <1>1, <1>2, <1>3, Zenon DEF LossInv

(* Of what a client publishes as plain data nothing is lost unnoticed: as   *)
(* long as its connection stands, all of it is in the channel, in order, or *)
(* still to be read, whatever reads a delivery has cut (server.rs:48-90).   *)
THEOREM NothingLostSilently == Spec => []LossIsVisible
<1> DEFINE Inv == \A c \in Clients : LossInv(c)
<1>1. TypeOK /\ ServerInv /\ Inv /\ TypeOK' /\ [Next]_vars => Inv'
  BY LossStep, Zenon
<1>2. Inv => LossIsVisible
  BY Zenon DEF LossInv, LossIsVisible
<1>3. Init => Inv
  BY LossInit, Zenon
<1> HIDE DEF Inv
<1> QED
  BY <1>1, <1>2, <1>3, ServerInvariant, PTL DEF Spec
=============================================================================
