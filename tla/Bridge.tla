------------------------------- MODULE Bridge -------------------------------
(***************************************************************************)
(* The bridge worker (src/bgworker.rs, lib.rs) and the threads it hosts:   *)
(* the relay that queues inbound actions (nats_client.rs,                  *)
(* inbound_dispatch.rs), the outbox drain (publish_drain.rs) and the       *)
(* publish thread behind a bounded channel (nats_client.rs).               *)
(*                                                                         *)
(* One tick runs queued actions, each in a transaction of its own, then    *)
(* deletes a batch of outbox rows and hands them to the publish thread.    *)
(* Other database sessions seal beside it.  An event is named by its       *)
(* ledger seq; payloads, subjects and headers are left out.                *)
(***************************************************************************)
EXTENDS Naturals, Sequences, FiniteSets

CONSTANTS Requests,    \* actions a WSS participant publishes (Trace-Ids)
          Sql,         \* the origin of a seal made by another session
          None,
          QueueMax,    \* MAX_QUEUE of inbound_dispatch (1000)
          ChannelMax,  \* bound of the sync_channel (1024)
          BatchMax,    \* LIMIT of the drain query (100)
          JsStream,    \* whether pgck.nats_js_stream is set
          Faults,      \* which of "crash", "shutdown", "outage", "loss" occur
          MaxSeq       \* bound: seals

ASSUME OriginAssumption == Sql \notin Requests /\ None \notin Requests
ASSUME BoundsAssumption ==
  /\ QueueMax \in Nat \ {0} /\ ChannelMax \in Nat \ {0}
  /\ BatchMax \in Nat \ {0} /\ MaxSeq \in Nat
  /\ JsStream \in BOOLEAN

(* What the channel carries: an event for NATS Core or for the stream, or  *)
(* the result of an action.                                                *)
Cmd == [kind : {"core", "js"}, event : 1..MaxSeq]
         \cup [kind : {"result"}, req : Requests, ok : BOOLEAN]

ASSUME NoneAssumption == None \notin Cmd /\ None \notin 1..MaxSeq

VARIABLES
  installed,  \* CREATE EXTENSION has run in the worker's database
  open,       \* seals of other sessions, numbered and not yet committed
  seq,        \* last number drawn
  ledger,     \* committed seals: [seq, by]
  outbox,     \* event numbers waiting in ckp.outbox
  proc,       \* the worker process: "up", "term" (SIGTERM received), "down"
  pc,         \* where the tick is
  queue,      \* the inbound queue
  taken,      \* actions take_all returned that are still to run
  reply,      \* the result drain_and_dispatch is about to send
  batch,      \* rows the DELETE returned that are still to send
  row,        \* the row being sent
  channel,    \* commands queued for the publish thread
  client,     \* the publish thread: "connect", "recv" or "publish"
  cmd,        \* the command it received
  broker,     \* whether nats-server can be reached
  inflight,   \* published actions on their way to the relay
  core,       \* events delivered on NATS Core, in order
  js,         \* event numbers stored by the JetStream stream
  results,    \* results delivered: [req, ok]
  lost        \* events and results a fault discarded (history)

database == <<installed, open, seq, ledger, outbox>>
tick == <<pc, taken, reply, batch, row>>
thread == <<channel, client, cmd>>
wire == <<broker, core, js, results>>
vars == <<database, proc, tick, queue, thread, wire, inflight, lost>>

Event(e) == [kind |-> "core", event |-> e]
JsEvent(e) == [kind |-> "js", event |-> e]
Result(r, ok) == [kind |-> "result", req |-> r, ok |-> ok]

Answered == {a.req : a \in results}
Commands == {channel[i] : i \in DOMAIN channel} \cup ({cmd} \ {None})

-----------------------------------------------------------------------------
Init ==
  /\ installed = FALSE /\ open = {} /\ seq = 0 /\ ledger = {} /\ outbox = {}
  /\ proc = "up" /\ pc = "latch" /\ queue = <<>> /\ taken = <<>>
  /\ reply = None /\ batch = {} /\ row = None
  /\ channel = <<>> /\ client = "connect" /\ cmd = None
  /\ broker \in IF "outage" \in Faults THEN BOOLEAN ELSE {TRUE}
  /\ inflight = {} /\ core = <<>> /\ js = {} /\ results = {} /\ lost = {}

(* CREATE EXTENSION: pgck_ready latches on the next tick.                  *)
Install ==
  /\ ~installed
  /\ installed' = TRUE
  /\ UNCHANGED <<open, seq, ledger, outbox, proc, tick, queue, thread, wire,
                 inflight, lost>>

(* Another session seals: its numbers are drawn when it inserts, its rows  *)
(* appear when it commits, and transactions need not commit in order.      *)
SqlSeal ==
  /\ installed /\ seq < MaxSeq
  /\ seq' = seq + 1
  /\ open' = open \cup {seq + 1}
  /\ UNCHANGED <<installed, ledger, outbox, proc, tick, queue, thread, wire,
                 inflight, lost>>

SqlCommit(n) ==
  /\ open' = open \ {n}
  /\ ledger' = ledger \cup {[seq |-> n, by |-> Sql]}
  /\ outbox' = outbox \cup {n}
  /\ UNCHANGED <<installed, seq, proc, tick, queue, thread, wire, inflight,
                 lost>>

SqlRollback(n) ==
  /\ open' = open \ {n}
  /\ UNCHANGED <<installed, seq, ledger, outbox, proc, tick, queue, thread,
                 wire, inflight, lost>>

-----------------------------------------------------------------------------
(* The participant publishes an action, and again when its Trace-Id times  *)
(* out without a result.                                                   *)
Ask(r) ==
  /\ broker
  /\ r \notin Answered /\ r \notin inflight
  /\ inflight' = inflight \cup {r}
  /\ UNCHANGED <<database, proc, tick, queue, thread, wire, lost>>

(* Variant: the queue is not bounded.                                      *)
EnqueueUnbounded(r) ==
  /\ proc # "down" /\ r \in inflight
  /\ inflight' = inflight \ {r}
  /\ queue' = Append(queue, r)
  /\ UNCHANGED <<database, proc, tick, thread, wire, lost>>

(* route_inbound and enqueue: a full queue drops the action.               *)
Enqueue(r) ==
  /\ proc # "down" /\ r \in inflight
  /\ inflight' = inflight \ {r}
  /\ queue' = IF Len(queue) < QueueMax THEN Append(queue, r) ELSE queue
  /\ UNCHANGED <<database, proc, tick, thread, wire, lost>>

(* Nobody is subscribed, as the worker is down or its threads have not     *)
(* connected yet, or the broker is gone: NATS Core drops the message.      *)
Unheard(r) ==
  /\ proc = "down" \/ client = "connect" \/ ~broker
  /\ r \in inflight
  /\ inflight' = inflight \ {r}
  /\ UNCHANGED <<database, proc, tick, queue, thread, wire, lost>>

-----------------------------------------------------------------------------
(* wait_latch returns, SIGTERM not being pending: a tick starts.  Before   *)
(* the extension exists it does nothing; otherwise take_all empties the    *)
(* queue.                                                                  *)
StartTick ==
  /\ proc = "up" /\ pc = "latch" /\ installed
  /\ pc' = "dispatch"
  /\ taken' = queue
  /\ queue' = <<>>
  /\ UNCHANGED <<database, proc, reply, batch, row, thread, wire, inflight,
                 lost>>

(* Variant: a refused action is not answered.                              *)
DispatchSilent(ok) ==
  /\ pc = "dispatch" /\ taken # <<>>
  /\ IF ok
     THEN /\ seq < MaxSeq
          /\ seq' = seq + 1
          /\ ledger' = ledger \cup {[seq |-> seq + 1, by |-> Head(taken)]}
          /\ outbox' = outbox \cup {seq + 1}
          /\ reply' = Result(Head(taken), ok)
          /\ pc' = "reply"
     ELSE UNCHANGED <<seq, ledger, outbox, reply, pc>>
  /\ taken' = Tail(taken)
  /\ UNCHANGED <<installed, open, proc, queue, batch, row, thread, wire,
                 inflight, lost>>

(* Variant: a refused action is answered as if it had been sealed.         *)
DispatchUnchecked(ok) ==
  /\ pc = "dispatch" /\ taken # <<>>
  /\ UNCHANGED <<seq, ledger, outbox>>
  /\ reply' = Result(Head(taken), TRUE)
  /\ taken' = Tail(taken)
  /\ pc' = "reply"
  /\ UNCHANGED <<installed, open, proc, queue, batch, row, thread, wire,
                 inflight, lost>>

(* dispatch_one: one transaction through ckp._dispatch_safe, which seals   *)
(* and commits, or returns the refusal as data.                            *)
Dispatch(ok) ==
  /\ pc = "dispatch" /\ taken # <<>>
  /\ IF ok
     THEN /\ seq < MaxSeq
          /\ seq' = seq + 1
          /\ ledger' = ledger \cup {[seq |-> seq + 1, by |-> Head(taken)]}
          /\ outbox' = outbox \cup {seq + 1}
     ELSE UNCHANGED <<seq, ledger, outbox>>
  /\ reply' = Result(Head(taken), ok)
  /\ taken' = Tail(taken)
  /\ pc' = "reply"
  /\ UNCHANGED <<installed, open, proc, queue, batch, row, thread, wire,
                 inflight, lost>>

(* Variant: try_send, which gives up on a full channel.                    *)
TrySend(c) ==
  channel' = IF Len(channel) < ChannelMax THEN Append(channel, c) ELSE channel

(* SyncSender::send: blocks while the channel is full.                     *)
Send(c) ==
  /\ Len(channel) < ChannelMax
  /\ channel' = Append(channel, c)

SendReply ==
  /\ pc = "reply"
  /\ Send(reply)
  /\ reply' = None
  /\ pc' = "dispatch"
  /\ UNCHANGED <<database, proc, queue, taken, batch, row, client, cmd, wire,
                 inflight, lost>>

(* Variant: more rows are taken while a batch is still being sent.         *)
DeleteBatchEarly ==
  /\ pc \in {"dispatch", "drain"} /\ taken = <<>>
  /\ batch' = batch \cup
       {e \in outbox : Cardinality({f \in outbox : f < e}) < BatchMax}
  /\ outbox' = outbox \ batch'
  /\ pc' = "drain"
  /\ UNCHANGED <<installed, open, seq, ledger, proc, taken, queue, reply, row,
                 thread, wire, inflight, lost>>

(* drain_once: DELETE the first rows by seq, RETURNING them, and commit.   *)
DeleteBatch ==
  /\ pc = "dispatch" /\ taken = <<>>
  /\ batch' = {e \in outbox : Cardinality({f \in outbox : f < e}) < BatchMax}
  /\ outbox' = outbox \ batch'
  /\ pc' = "drain"
  /\ UNCHANGED <<installed, open, seq, ledger, proc, taken, queue, reply, row,
                 thread, wire, inflight, lost>>

(* The rows come in the order RETURNING yields them, which the statement   *)
(* does not fix: nats_client::publish for each, then publish_js.           *)
SendCore(e) ==
  /\ pc = "drain"
  /\ Send(Event(e))
  /\ batch' = batch \ {e}
  /\ IF JsStream THEN row' = e /\ pc' = "js" ELSE UNCHANGED <<row, pc>>
  /\ UNCHANGED <<database, proc, queue, taken, reply, client, cmd, wire,
                 inflight, lost>>

SendJs ==
  /\ pc = "js"
  /\ Send(JsEvent(row))
  /\ row' = None
  /\ pc' = "drain"
  /\ UNCHANGED <<database, proc, queue, taken, reply, batch, client, cmd,
                 wire, inflight, lost>>

(* The batch is sent; materialize_drain and orbit_drain, which touch       *)
(* neither queue nor channel, end the tick.                                *)
EndTick ==
  /\ pc = "drain" /\ batch = {}
  /\ pc' = "latch"
  /\ UNCHANGED <<database, proc, queue, taken, reply, batch, row, thread,
                 wire, inflight, lost>>

-----------------------------------------------------------------------------
(* Variant: the thread dials once and gives up.                            *)
ConnectOnce ==
  /\ proc # "down" /\ client = "connect"
  /\ client' = IF broker THEN "recv" ELSE "ended"
  /\ UNCHANGED <<database, proc, tick, queue, channel, cmd, wire, inflight,
                 lost>>

(* run_client_thread.  connect_with_retry dials until the broker answers.  *)
Connect ==
  /\ proc # "down" /\ client = "connect" /\ broker
  /\ client' = "recv"
  /\ UNCHANGED <<database, proc, tick, queue, channel, cmd, wire, inflight,
                 lost>>

(* Variant: commands are published by tasks of their own, in any order.    *)
RecvAny ==
  /\ client = "recv" /\ channel # <<>>
  /\ \E i \in DOMAIN channel :
       /\ cmd' = channel[i]
       /\ channel' = SubSeq(channel, 1, i - 1)
                       \o SubSeq(channel, i + 1, Len(channel))
  /\ client' = "publish"
  /\ UNCHANGED <<database, proc, tick, queue, wire, inflight, lost>>

(* rx.recv(): commands leave the channel in the order they were sent.      *)
Recv ==
  /\ client = "recv" /\ channel # <<>>
  /\ cmd' = Head(channel)
  /\ channel' = Tail(channel)
  /\ client' = "publish"
  /\ UNCHANGED <<database, proc, tick, queue, wire, inflight, lost>>

(* Publish and flush.  The stream keeps one message per Nats-Msg-Id.       *)
Publish ==
  /\ client = "publish" /\ broker
  /\ core' = IF cmd.kind = "core" THEN Append(core, cmd.event) ELSE core
  /\ js' = IF cmd.kind = "js" THEN js \cup {cmd.event} ELSE js
  /\ results' = IF cmd.kind = "result"
                THEN results \cup {[req |-> cmd.req, ok |-> cmd.ok]}
                ELSE results
  /\ cmd' = None
  /\ client' = "recv"
  /\ UNCHANGED <<database, proc, tick, queue, channel, broker, inflight, lost>>

(* Publish, flush or acknowledgement failed: logged, and the next command. *)
PublishFails ==
  /\ "loss" \in Faults
  /\ client = "publish"
  /\ lost' = lost \cup {cmd}
  /\ cmd' = None
  /\ client' = "recv"
  /\ UNCHANGED <<database, proc, tick, queue, channel, wire, inflight>>

BrokerChanges ==
  /\ "outage" \in Faults
  /\ broker' = ~broker
  /\ UNCHANGED <<database, proc, tick, queue, thread, core, js, results,
                 inflight, lost>>

-----------------------------------------------------------------------------
(* What the worker's memory holds: rows deleted and not yet published.     *)
Held ==
  Commands \cup {Event(e) : e \in batch}
    \cup (IF JsStream THEN {JsEvent(e) : e \in batch} ELSE {})
    \cup (IF row # None THEN {JsEvent(row)} ELSE {})
    \cup (IF reply # None THEN {reply} ELSE {})

(* The process ends, and its queue, its vectors and its threads with it.   *)
ProcessEnds ==
  /\ proc' = "down"
  /\ lost' = lost \cup Held
  /\ pc' = "latch" /\ queue' = <<>> /\ taken' = <<>> /\ reply' = None
  /\ batch' = {} /\ row' = None
  /\ channel' = <<>> /\ client' = "connect" /\ cmd' = None
  /\ UNCHANGED <<database, wire, inflight>>

(* A panic or a kill: the worker is registered without a restart time.     *)
Crash == "crash" \in Faults /\ proc # "down" /\ ProcessEnds

(* The postmaster asks the worker to stop.                                 *)
Sigterm ==
  /\ "shutdown" \in Faults
  /\ proc = "up"
  /\ proc' = "term"
  /\ UNCHANGED <<database, tick, queue, thread, wire, inflight, lost>>

(* wait_latch returns false only at the latch.                             *)
Exit == proc = "term" /\ pc = "latch" /\ ProcessEnds

(* A postmaster start launches the worker anew.                            *)
Restart ==
  /\ proc = "down"
  /\ proc' = "up"
  /\ UNCHANGED <<database, tick, queue, thread, wire, inflight, lost>>

-----------------------------------------------------------------------------
Worker ==
  \/ StartTick \/ SendReply \/ DeleteBatch \/ SendJs \/ EndTick \/ Exit
  \/ \E ok \in BOOLEAN : Dispatch(ok)
  \/ \E e \in batch : SendCore(e)

Client == Connect \/ Recv \/ Publish

Next ==
  \/ Worker \/ Client \/ PublishFails
  \/ Install \/ SqlSeal \/ \E n \in open : SqlCommit(n) \/ SqlRollback(n)
  \/ \E r \in Requests : Ask(r) \/ Enqueue(r) \/ Unheard(r)
  \/ BrokerChanges \/ Crash \/ Sigterm \/ Restart

Spec == Init /\ [][Next]_vars

(* The latch times out, threads are scheduled, and a participant without a *)
(* result publishes again.  The broker's outages are not fair.             *)
FairSpec ==
  /\ Spec
  /\ WF_vars(Install) /\ WF_vars(Worker) /\ WF_vars(Client)
  /\ WF_vars(Restart)
  /\ \A r \in Requests : WF_vars(Ask(r)) /\ WF_vars(Enqueue(r))

-----------------------------------------------------------------------------
(* Properties *)

(* Queues respect their bounds and every variable holds its type.          *)
TypeOK ==
  /\ installed \in BOOLEAN /\ broker \in BOOLEAN
  /\ seq \in 0..MaxSeq
  /\ open \subseteq 1..seq
  /\ ledger \subseteq [seq : 1..seq, by : Requests \cup {Sql}]
  /\ outbox \subseteq 1..seq /\ batch \subseteq 1..seq
  /\ Cardinality(batch) <= BatchMax
  /\ proc \in {"up", "term", "down"}
  /\ pc \in {"latch", "dispatch", "reply", "drain", "js"}
  /\ queue \in Seq(Requests) /\ Len(queue) <= QueueMax
  /\ taken \in Seq(Requests) /\ Len(taken) <= QueueMax
  /\ row \in (1..seq) \cup {None}
  /\ pc = "js" <=> row # None
  /\ reply \in {c \in Cmd : c.kind = "result"} \cup {None}
  /\ pc = "reply" <=> reply # None
  /\ client \in {"connect", "recv", "publish"}
  /\ cmd \in Cmd \cup {None} /\ lost \subseteq Cmd
  /\ client = "publish" <=> cmd # None
  /\ channel \in Seq(Cmd) /\ Len(channel) <= ChannelMax
  /\ inflight \subseteq Requests
  /\ core \in Seq(1..seq) /\ js \subseteq 1..seq
  /\ results \subseteq [req : Requests, ok : BOOLEAN]

(* How many times the command c waits in the channel or with the thread.   *)
Waiting(c) ==
  Cardinality({i \in DOMAIN channel : channel[i] = c})
    + (IF cmd = c THEN 1 ELSE 0)

Delivered(e) == Cardinality({i \in DOMAIN core : core[i] = e})

(* Every committed seal's event is in exactly one place: the outbox, the   *)
(* batch, the channel, delivered once on NATS Core, or discarded by a      *)
(* fault.  No interleaving of seals, drains, crashes and restarts          *)
(* publishes an event twice, drops it silently, or publishes one that did  *)
(* not commit.                                                             *)
EventsAccounted ==
  \A e \in 1..seq :
    (IF e \in outbox THEN 1 ELSE 0) + (IF e \in batch THEN 1 ELSE 0)
      + Waiting(Event(e)) + Delivered(e)
      + (IF Event(e) \in lost THEN 1 ELSE 0)
    = Cardinality({l \in ledger : l.seq = e})

(* A positive result reaches a participant only after the seal it reports  *)
(* has committed, whatever crashes in between.                             *)
ResultsTruthful ==
  \A a \in results : a.ok => \E l \in ledger : l.by = a.req

(* The stream never holds an event whose Core publish is still to come.    *)
StreamFollowsCore ==
  \A e \in js : Delivered(e) = 1 \/ Event(e) \in lost

Settled == broker /\ proc = "up"

(* Once the broker stays reachable and the worker stays up, every committed *)
(* event is published, unless a crash, a stop or a failed publish has       *)
(* discarded it; what is still in the outbox after a restart is not lost.   *)
EventsPublished ==
  <>[]Settled => \A e \in 1..MaxSeq :
    (\E l \in ledger : l.seq = e) ~> (Delivered(e) = 1 \/ Event(e) \in lost)

(* Likewise a participant that keeps publishing its action gets a result,   *)
(* although a full queue drops actions and a crash empties it, unless a     *)
(* fault discards the result itself.                                        *)
RequestsAnswered ==
  <>[]Settled => \A r \in Requests :
    <>(r \in Answered \/ \E ok \in BOOLEAN : Result(r, ok) \in lost)
=============================================================================
