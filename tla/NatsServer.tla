----------------------------- MODULE NatsServer -----------------------------
(* The embedded NATS Core server (src/nats/server.rs, parser.rs, router.rs):*)
(* one task per client, each choosing by `select!` between reading the next *)
(* client message and receiving from the broadcast channel they all share.  *)
(*                                                                          *)
(* A control line crosses the network in two pieces, its verb and the rest, *)
(* and the payload of a PUB in a third.  The future of an unfinished read   *)
(* is dropped, with the pieces it holds, when the other branch wins.        *)
EXTENDS Subjects, FiniteSets

CONSTANTS
  Clients,       \* connections
  Sids,          \* subscription ids: numbers, BTreeMap order is their order
  Patterns, Topics,
  Messages,      \* client -> the messages it may send
  Capacity,      \* of the broadcast channel: 1024 in the code
  WireMax,       \* bound: a client sends more when this many pieces are under way
  MaxSent,       \* bound: client -> how many it sends
  None

(* Client messages (parser.rs).  A payload is ordinary data, data that also *)
(* reads as the control line PING, or longer than max_payload; INVALID is a *)
(* line that `parse_line` refuses, EOF the end of the client's stream.      *)
ClientMsg ==
  [verb : {"CONNECT", "PONG", "PING", "INVALID", "EOF"}]
    \cup [verb : {"SUB"}, sid : Sids, subject : Patterns]
    \cup [verb : {"UNSUB"}, sid : Sids]
    \cup [verb : {"PUB"}, subject : Topics, payload : {"data", "PING", "oversize"}]

ASSUME ServerAssumption ==
  /\ Capacity \in Nat \ {0} /\ WireMax \in Nat
  /\ MaxSent \in [Clients -> Nat]
  /\ Sids \subseteq Nat /\ IsFiniteSet(Sids)
  /\ Messages \in [Clients -> SUBSET ClientMsg]
  /\ None \notin {"open", "closed"}

VARIABLES
  sent,          \* client -> messages it has sent, in order
  wire,          \* client -> pieces sent and not yet read by its task
  serving,       \* the accept loop runs
  open,          \* client -> None, "open" or "closed": its task
  held,          \* client -> pieces the unfinished read holds
  subscriptions, \* client -> sid -> pattern, None when absent (Router)
  channel,       \* every Delivery broadcast, in order
  cursor,        \* client -> its receiver's next position in the channel
  frames,        \* client -> frames its task is still to write
  socket,        \* client -> frames written, in order
  since,         \* history: client, sid -> length of the channel at its SUB
  lagged,        \* history: client -> channel positions it skipped
  cut            \* history: client -> a read was dropped half way

clientVars == <<sent, wire>>
taskVars == <<open, held, subscriptions, cursor, frames, since, lagged, cut>>
vars == <<clientVars, taskVars, serving, channel, socket>>

Init ==
  /\ sent = [c \in Clients |-> <<>>]
  /\ wire = [c \in Clients |-> <<>>]
  /\ serving = TRUE
  /\ open = [c \in Clients |-> None]
  /\ held = [c \in Clients |-> 0]
  /\ subscriptions = [c \in Clients |-> [s \in Sids |-> None]]
  /\ channel = <<>>
  /\ cursor = [c \in Clients |-> 1]
  /\ frames = [c \in Clients |-> <<>>]
  /\ socket = [c \in Clients |-> <<>>]
  /\ since = [c \in Clients |-> [s \in Sids |-> None]]
  /\ lagged = [c \in Clients |-> {}]
  /\ cut = [c \in Clients |-> FALSE]

-----------------------------------------------------------------------------
(* The clients (external), while their connection stands.                   *)

Parts(msg) ==
  CASE msg.verb = "PUB" -> <<"verb", "rest", "payload">>
    [] msg.verb = "EOF" -> <<"eof">>
    [] OTHER -> <<"verb", "rest">>

Pieces(msg) == [i \in DOMAIN Parts(msg) |-> [msg |-> msg, part |-> Parts(msg)[i]]]

HungUp(c) == \E i \in DOMAIN sent[c] : sent[c][i].verb = "EOF"

Send(c, msg) ==
  /\ open[c] = "open" /\ ~HungUp(c)
  /\ Len(sent[c]) < MaxSent[c] /\ Len(wire[c]) <= WireMax
  /\ sent' = [sent EXCEPT ![c] = Append(@, msg)]
  /\ wire' = [wire EXCEPT ![c] = @ \o Pieces(msg)]
  /\ UNCHANGED <<taskVars, serving, channel, socket>>

-----------------------------------------------------------------------------
(* serve.                                                                   *)

Accept(c) ==
  /\ serving
  /\ open[c] = None
  /\ open' = [open EXCEPT ![c] = "open"]
  /\ cursor' = [cursor EXCEPT ![c] = Len(channel) + 1]
  /\ frames' = [frames EXCEPT ![c] = <<[kind |-> "INFO"]>>]
  /\ UNCHANGED <<clientVars, held, subscriptions, since, lagged, cut, serving,
                 channel, socket>>

(* Tasks end; their readers, routers, receivers and sockets go with them.   *)
End(C) ==
  LET Cleared(f, value) == [c \in Clients |-> IF c \in C THEN value ELSE f[c]]
  IN  /\ open' = Cleared(open, "closed")
      /\ wire' = Cleared(wire, <<>>)
      /\ held' = Cleared(held, 0)
      /\ subscriptions' = Cleared(subscriptions, [s \in Sids |-> None])
      /\ cursor' = Cleared(cursor, 1)
      /\ frames' = Cleared(frames, <<>>)
      /\ socket' = Cleared(socket, <<>>)
      /\ since' = Cleared(since, [s \in Sids |-> None])
      /\ lagged' = Cleared(lagged, {})
      /\ UNCHANGED <<sent, cut, channel>>

(* A failed accept ends `serve`, and with its runtime every task.           *)
AcceptFails ==
  /\ serving
  /\ serving' = FALSE
  /\ End({c \in Clients : open[c] = "open"})

-----------------------------------------------------------------------------
(* handle_client, at `select!`: the previous message is fully written.      *)

Selecting(c) == open[c] = "open" /\ frames[c] = <<>>

(* Variant: a line that does not parse is skipped.                          *)
ReadSkipsInvalid(n, piece) ==
  LET msg == piece.msg
      begun == piece.part = Parts(msg)[n + 1]
  IN  CASE piece.part = "eof" -> msg
        [] piece.part = "verb" -> [verb |-> "reading"]
        [] piece.part = "rest" ->
             IF begun /\ msg.verb = "PUB" THEN [verb |-> "reading"]
             ELSE IF begun THEN msg ELSE [verb |-> "CONNECT"]
        [] piece.part = "payload" -> IF begun THEN msg ELSE [verb |-> "CONNECT"]

(* Variant: CONNECT is not understood.                                      *)
ReadNoConnect(n, piece) ==
  LET msg == piece.msg
      begun == piece.part = Parts(msg)[n + 1]
  IN  CASE piece.part = "eof" -> msg
        [] piece.part = "verb" -> [verb |-> "reading"]
        [] piece.part = "rest" ->
             IF ~begun \/ msg.verb = "CONNECT" THEN [verb |-> "error"]
             ELSE IF msg.verb = "PUB" THEN [verb |-> "reading"] ELSE msg
        [] piece.part = "payload" -> IF begun THEN msg ELSE [verb |-> "error"]

(* What one more piece makes of `read_client_message`: the read goes on, it *)
(* fails, or it yields a message.  A piece whose beginning was dropped is   *)
(* taken for a control line.                                                *)
ReadClientMessage(n, piece) ==
  LET msg == piece.msg
      begun == piece.part = Parts(msg)[n + 1]
  IN  CASE piece.part = "eof" -> msg
        [] piece.part = "verb" -> [verb |-> "reading"]
        [] piece.part = "rest" ->
             IF ~begun \/ msg.verb = "INVALID" THEN [verb |-> "error"]
             ELSE IF msg.verb # "PUB" THEN msg
             ELSE [verb |-> IF msg.payload = "oversize" THEN "error" ELSE "reading"]
        [] piece.part = "payload" ->
             IF begun THEN msg
             ELSE [verb |-> IF msg.payload = "PING" THEN "PING" ELSE "error"]

(* The branch that reads: one more piece, and what becomes of the message.  *)
Read(c) ==
  LET msg == ReadClientMessage(held[c], Head(wire[c]))
      Is(verbs) == Selecting(c) /\ wire[c] # <<>> /\ msg.verb \in verbs
      Took(n) ==
        /\ wire' = [wire EXCEPT ![c] = Tail(@)]
        /\ held' = [held EXCEPT ![c] = n]
        /\ UNCHANGED <<sent, serving, open, cursor, lagged, cut, socket>>
  IN  \/ Is({"error", "EOF"}) /\ End({c}) /\ UNCHANGED serving
      \/ /\ Is({"reading"})
         /\ Took(held[c] + 1)
         /\ UNCHANGED <<subscriptions, since, frames, channel>>
      \/ /\ Is({"CONNECT", "PONG"})
         /\ Took(0)
         /\ UNCHANGED <<subscriptions, since, frames, channel>>
      \/ /\ Is({"PING"})
         /\ Took(0)
         /\ frames' = [frames EXCEPT ![c] = <<[kind |-> "PONG"]>>]
         /\ UNCHANGED <<subscriptions, since, channel>>
      \/ /\ Is({"SUB"})
         /\ Took(0)
         /\ subscriptions' = [subscriptions EXCEPT ![c][msg.sid] = msg.subject]
         /\ since' = [since EXCEPT ![c][msg.sid] = Len(channel)]
         /\ UNCHANGED <<frames, channel>>
      \/ /\ Is({"UNSUB"})
         /\ Took(0)
         /\ subscriptions' = [subscriptions EXCEPT ![c][msg.sid] = None]
         /\ UNCHANGED <<since, frames, channel>>
      \/ /\ Is({"PUB"})
         /\ Took(0)
         /\ channel' = Append(channel, [from |-> c, msg |-> msg])
         /\ UNCHANGED <<subscriptions, since, frames>>

(* A write to a client that is gone fails.                                  *)
WriteFails(c) ==
  /\ open[c] = "open" /\ frames[c] # <<>>
  /\ HungUp(c)
  /\ End({c})
  /\ UNCHANGED serving

-----------------------------------------------------------------------------
(* The branch that receives.                                                *)

Matching(c, subject) ==
  {s \in Sids : /\ subscriptions[c][s] # None
                /\ Fits(subscriptions[c][s], subject)}

(* The oldest position the channel still holds (tokio's broadcast).         *)
Oldest == IF Len(channel) > Capacity THEN Len(channel) - Capacity + 1 ELSE 1

(* Variant: a list that keeps the entry of an earlier SUB of the sid.       *)
MsgFramesTwice(c) ==
  LET sids == Matching(c, channel[cursor[c]].msg.subject)
      Ordered == {q \in [1..(2 * Cardinality(sids)) -> sids] :
                    \A i, j \in DOMAIN q : i < j => q[i] <= q[j]}
  IN  {[i \in DOMAIN q |-> [kind |-> "MSG", sid |-> q[i], at |-> cursor[c]]] :
         q \in Ordered}

(* One MSG for each subscription that matches, in the order of the sids.    *)
MsgFrames(c) ==
  LET sids == Matching(c, channel[cursor[c]].msg.subject)
      Ordered == {q \in [1..Cardinality(sids) -> sids] :
                    /\ {q[i] : i \in DOMAIN q} = sids
                    /\ \A i, j \in DOMAIN q : i < j => q[i] < q[j]}
  IN  {[i \in DOMAIN q |-> [kind |-> "MSG", sid |-> q[i], at |-> cursor[c]]] :
         q \in Ordered}

(* `select!` drops the read's future.                                       *)
DropRead(c) ==
  /\ held' = [held EXCEPT ![c] = 0]
  /\ cut' = [cut EXCEPT ![c] = @ \/ held[c] > 0]

Deliver(c) ==
  /\ Selecting(c)
  /\ cursor[c] \in Oldest..Len(channel)
  /\ \E new \in MsgFrames(c) : frames' = [frames EXCEPT ![c] = new]
  /\ cursor' = [cursor EXCEPT ![c] = @ + 1]
  /\ DropRead(c)
  /\ UNCHANGED <<clientVars, open, subscriptions, since, lagged, serving, channel,
                 socket>>

(* Variant: a lagging receiver subscribes afresh.                           *)
LaggedResubscribes(c) ==
  /\ Selecting(c)
  /\ cursor[c] < Oldest
  /\ lagged' = [lagged EXCEPT ![c] = @ \cup cursor[c]..(Oldest - 1)]
  /\ cursor' = [cursor EXCEPT ![c] = Len(channel) + 1]
  /\ DropRead(c)
  /\ UNCHANGED <<clientVars, open, subscriptions, frames, since, serving, channel,
                 socket>>

(* Variant: a lagging receiver stays where it is.                           *)
LaggedStays(c) ==
  /\ Selecting(c)
  /\ cursor[c] < Oldest
  /\ lagged' = [lagged EXCEPT ![c] = @ \cup cursor[c]..(Oldest - 1)]
  /\ DropRead(c)
  /\ UNCHANGED <<clientVars, open, subscriptions, cursor, frames, since, serving,
                 channel, socket>>

Lagged(c) ==
  /\ Selecting(c)
  /\ cursor[c] < Oldest
  /\ lagged' = [lagged EXCEPT ![c] = @ \cup cursor[c]..(Oldest - 1)]
  /\ cursor' = [cursor EXCEPT ![c] = Oldest]
  /\ DropRead(c)
  /\ UNCHANGED <<clientVars, open, subscriptions, frames, since, serving, channel,
                 socket>>

(* `write_all` of one frame; it waits as long as the client does not read.  *)
Write(c) ==
  /\ open[c] = "open"
  /\ frames[c] # <<>>
  /\ socket' = [socket EXCEPT ![c] = Append(@, Head(frames[c]))]
  /\ frames' = [frames EXCEPT ![c] = Tail(@)]
  /\ UNCHANGED <<clientVars, open, held, subscriptions, cursor, since, lagged, cut,
                 serving, channel>>

-----------------------------------------------------------------------------
Task(c) == Read(c) \/ WriteFails(c) \/ Deliver(c) \/ Lagged(c) \/ Write(c)

Next ==
  \/ AcceptFails
  \/ \E c \in Clients :
       \/ \E msg \in Messages[c] : Send(c, msg)
       \/ Accept(c) \/ Task(c)

Spec == Init /\ [][Next]_vars

(* The runtime polls a runnable task, and the client reads its socket, so   *)
(* that a task never waits on a write for ever.                             *)
FairSpec == Spec /\ \A c \in Clients : WF_vars(Task(c))

-----------------------------------------------------------------------------
Piece == [msg : ClientMsg, part : {"verb", "rest", "payload", "eof"}]

Frame == [kind : {"INFO", "PONG"}] \cup [kind : {"MSG"}, sid : Sids, at : Nat]

TypeOK ==
  /\ sent \in [Clients -> Seq(ClientMsg)]
  /\ \A c \in Clients : Len(sent[c]) <= MaxSent[c]
  /\ wire \in [Clients -> Seq(Piece)]
  /\ serving \in BOOLEAN
  /\ open \in [Clients -> {None, "open", "closed"}]
  /\ held \in [Clients -> 0..2]
  /\ subscriptions \in [Clients -> [Sids -> Patterns \cup {None}]]
  /\ channel \in Seq([from : Clients, msg : ClientMsg])
  /\ cursor \in [Clients -> Nat \ {0}]
  /\ \A c \in Clients : cursor[c] <= Len(channel) + 1
  /\ frames \in [Clients -> Seq(Frame)]
  /\ socket \in [Clients -> Seq(Frame)]
  /\ since \in [Clients -> [Sids -> Nat \cup {None}]]
  /\ lagged \in [Clients -> SUBSET DOMAIN channel]
  /\ cut \in [Clients -> BOOLEAN]

(* What a client gets, and which of it is for one subscription.             *)
Output(c) == socket[c] \o frames[c]

IsFor(sid, frame) == frame.kind = "MSG" /\ frame.sid = sid

(* For one subscription id the MSG frames come in the order of the          *)
(* broadcast and no message twice, also across a lag, a re-SUB, and while   *)
(* the task is blocked writing (server.rs:73-83).                           *)
InOrderOnce ==
  \A c \in Clients, sid \in Sids : \A i, j \in DOMAIN Output(c) :
    i < j /\ IsFor(sid, Output(c)[i]) /\ IsFor(sid, Output(c)[j]) =>
      Output(c)[i].at < Output(c)[j].at

(* The only messages a standing subscription misses are those the channel   *)
(* overwrote before the task came to them: everything broadcast since its   *)
(* SUB that the receiver has passed was delivered or counted as lag.        *)
OnlyLagSkips ==
  \A c \in Clients, sid \in Sids :
    open[c] = "open" /\ subscriptions[c][sid] # None =>
      \A at \in (since[c][sid] + 1)..(cursor[c] - 1) :
        Fits(subscriptions[c][sid], channel[at].msg.subject) =>
          \/ at \in lagged[c]
          \/ \E i \in DOMAIN Output(c) :
               IsFor(sid, Output(c)[i]) /\ Output(c)[i].at = at

(* Every message of the client follows the protocol.                        *)
WellFormed(c) ==
  \A i \in DOMAIN sent[c] :
    /\ sent[c][i].verb # "INVALID"
    /\ sent[c][i].verb = "PUB" => sent[c][i].payload # "oversize"

(* While the server runs, a task ends on the client's hang-up, on a line    *)
(* that the client itself sent wrong, or on a read that a delivery cut in   *)
(* two (server.rs:48-90): what other clients send closes nobody else.       *)
ClosedForCause ==
  \A c \in Clients :
    serving /\ open[c] = "closed" /\ WellFormed(c) => HungUp(c) \/ cut[c]

(* The values of f for those elements of seq that it is defined for, in     *)
(* their order: SelectSeq with a function in the place of the test.         *)
Picked(seq, f) ==
  LET P[i \in 0..Len(seq)] ==
        IF i = 0 THEN <<>>
        ELSE IF seq[i] \in DOMAIN f THEN Append(P[i - 1], f[seq[i]])
        ELSE P[i - 1]
  IN  P[Len(seq)]

(* PUBs of plain data: among the messages of a client, among what the       *)
(* channel carries from c, and by their last pieces on the wire.            *)
Data == [verb : {"PUB"}, subject : Topics, payload : {"data"}]
DataSent == [m \in Data |-> m]
DataFrom(c) == [d \in [from : {c}, msg : Data] |-> d.msg]
DataComing == [p \in [msg : Data, part : {"payload"}] |-> p.msg]

(* A client whose connection stands has lost no message: its PUBs of plain  *)
(* data are, in the order sent, those broadcast and then those still to be  *)
(* read.  A read cut in two thus costs the connection and is noticed, save  *)
(* for a payload that reads as a control line itself.                       *)
LossIsVisible ==
  \A c \in Clients :
    open[c] = "open" =>
      Picked(sent[c], DataSent) =
        Picked(channel, DataFrom(c)) \o Picked(wire[c], DataComing)

(* A receiver passes every message of the channel, by delivery or by lag,   *)
(* while its connection stands: a slow client delays nobody else and        *)
(* catches up itself.                                                       *)
CatchesUp ==
  \A c \in Clients :
    open[c] = "open" ~> open[c] = "closed" \/ cursor[c] = Len(channel) + 1
=============================================================================
