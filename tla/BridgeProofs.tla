---------------------------- MODULE BridgeProofs ----------------------------
(***************************************************************************)
(* Proofs about the bridge worker: the queues keep their bounds, every     *)
(* committed event is in exactly one place, and what the participants and  *)
(* the stream are told follows what has happened.  With these the bridge   *)
(* is shown to implement the relay of EventRelay.                          *)
(***************************************************************************)
EXTENDS BridgeRelay, FiniteSetTheorems, TLAPS

-----------------------------------------------------------------------------
(* The inductive invariant *)

Has(s, x) == \E i \in DOMAIN s : s[i] = x
Once(s, x) == \A i, j \in DOMAIN s : s[i] = x /\ s[j] = x => i = j

(* Every seal is committed once, and an open one has not been.             *)
SealsDistinct ==
  /\ \A l, m \in ledger : l.seq = m.seq => l = m
  /\ \A n \in open : \A l \in ledger : l.seq # n

(* The drain takes a batch only when it has sent the one before.           *)
BatchInDrain == batch # {} => pc \in {"drain", "js"}

(* The places of event e are exclusive, and it is in one of them exactly   *)
(* when its seal has committed.                                            *)
OnePlace(e) ==
  /\ e \in outbox => e \notin batch
  /\ e \in outbox \cup batch => ~Has(channel, Event(e))
  /\ e \in outbox \cup batch \/ Has(channel, Event(e)) => cmd # Event(e)
  /\ e \in outbox \cup batch \/ Has(channel, Event(e)) \/ cmd = Event(e)
       => ~Has(core, e)
  /\ e \in outbox \cup batch \/ Has(channel, Event(e)) \/ cmd = Event(e)
       \/ Has(core, e) => Event(e) \notin lost
  /\ Once(channel, Event(e)) /\ Once(core, e)
  /\ (\E l \in ledger : l.seq = e) <=>
       \/ e \in outbox \cup batch \/ Has(channel, Event(e))
       \/ cmd = Event(e) \/ Has(core, e) \/ Event(e) \in lost

(* Event e is past the publish thread, on NATS Core or discarded.          *)
Past(e) == Has(core, e) \/ Event(e) \in lost

(* On the way to the stream an event is always behind its Core publish.    *)
JsBehind(e) ==
  /\ row = e => Past(e) \/ cmd = Event(e) \/ Has(channel, Event(e))
  /\ \A j \in DOMAIN channel : channel[j] = JsEvent(e) =>
       \/ Past(e) \/ cmd = Event(e)
       \/ \E i \in DOMAIN channel : i < j /\ channel[i] = Event(e)
  /\ cmd = JsEvent(e) \/ e \in js => Past(e)

(* A positive result under way reports a committed seal.                   *)
ResultBacked(c) ==
  c \in Cmd /\ c.kind = "result" /\ c.ok => \E l \in ledger : l.by = c.req
ResultsBacked ==
  /\ ResultBacked(reply) /\ ResultBacked(cmd)
  /\ \A i \in DOMAIN channel : ResultBacked(channel[i])
  /\ ResultsTruthful

BridgeInv ==
  /\ TypeOK /\ SealsDistinct /\ BatchInDrain /\ ResultsBacked
  /\ \A e \in 1..MaxSeq : OnePlace(e) /\ JsBehind(e)

-----------------------------------------------------------------------------
(* Queues *)

(* Appending adds one element behind those that were there.                *)
LEMMA HasAppend ==
  ASSUME NEW S, NEW s \in Seq(S), NEW c \in S, NEW x
  PROVE  /\ Has(Append(s, c), x) <=> Has(s, x) \/ x = c
         /\ Once(s, x) /\ (x = c => ~Has(s, x)) => Once(Append(s, c), x)
<1>1. /\ Append(s, c) \in Seq(S) /\ Len(Append(s, c)) = Len(s) + 1
      /\ DOMAIN s = 1..Len(s) /\ DOMAIN Append(s, c) = 1..(Len(s) + 1)
      /\ \A i \in 1..Len(s) : Append(s, c)[i] = s[i]
      /\ Append(s, c)[Len(s) + 1] = c
      /\ Len(s) \in Nat
  OBVIOUS
<1>2. ASSUME Has(Append(s, c), x) PROVE Has(s, x) \/ x = c
  BY <1>1, <1>2 DEF Has
<1>3. ASSUME Has(s, x) \/ x = c PROVE Has(Append(s, c), x)
  BY <1>1, <1>3 DEF Has
<1>4. ASSUME Once(s, x), x = c => ~Has(s, x) PROVE Once(Append(s, c), x)
  BY <1>1, <1>4 DEF Has, Once
<1> QED
  BY <1>2, <1>3, <1>4, Zenon

(* Receiving takes the first element, which is gone when it occurred once. *)
LEMMA HasTail ==
  ASSUME NEW S, NEW s \in Seq(S), s # <<>>, NEW x
  PROVE  /\ Head(s) \in S /\ Tail(s) \in Seq(S) /\ Len(Tail(s)) = Len(s) - 1
         /\ Has(s, x) <=> Has(Tail(s), x) \/ x = Head(s)
         /\ Once(s, x) =>
              Once(Tail(s), x) /\ (x = Head(s) => ~Has(Tail(s), x))
<1>1. /\ Head(s) \in S /\ Tail(s) \in Seq(S) /\ Len(Tail(s)) = Len(s) - 1
      /\ DOMAIN s = 1..Len(s) /\ DOMAIN Tail(s) = 1..(Len(s) - 1)
      /\ \A i \in 1..(Len(s) - 1) : Tail(s)[i] = s[i + 1]
      /\ Head(s) = s[1]
      /\ Len(s) \in Nat /\ Len(s) > 0
  OBVIOUS
<1>2. ASSUME Has(s, x) PROVE Has(Tail(s), x) \/ x = Head(s)
  <2>1. PICK i \in 1..Len(s) : s[i] = x
    BY <1>1, <1>2, Zenon DEF Has
  <2>2. CASE i = 1
    BY <1>1, <2>1, <2>2, Zenon
  <2>3. CASE i # 1
    <3>1. i - 1 \in 1..(Len(s) - 1) /\ (i - 1) + 1 = i
      BY <1>1, <2>3
    <3>. QED
      BY <1>1, <2>1, <3>1, Zenon DEF Has
  <2>. QED
    BY <2>2, <2>3, Zenon
<1>3. ASSUME Has(Tail(s), x) \/ x = Head(s) PROVE Has(s, x)
  BY <1>1, <1>3 DEF Has
<1>4. ASSUME Once(s, x)
      PROVE  Once(Tail(s), x) /\ (x = Head(s) => ~Has(Tail(s), x))
  BY <1>1, <1>4, SMTT(60) DEF Has, Once
<1> QED
  BY <1>1, <1>2, <1>3, <1>4, Zenon

(* The DELETE's LIMIT: of the rows of the outbox fewer than n precede each *)
(* of those it takes, so that it takes at most n.                          *)
LEMMA FirstRows ==
  ASSUME NEW R, NEW top \in Nat, R \subseteq 1..top, NEW n \in Nat \ {0},
         NEW B, B = {e \in R : Cardinality({f \in R : f < e}) < n}
  PROVE  B \subseteq R /\ Cardinality(B) <= n
<1>1. B \subseteq R /\ \A e \in B : Cardinality({f \in R : f < e}) < n
  OBVIOUS
<1>2. IsFiniteSet(R)
  <2>1. IsFiniteSet(1..top)
    BY FS_Interval, 1 \in Int, top \in Int, Zenon
  <2>. QED
    BY <2>1, FS_Subset, Zenon
<1>3. IsFiniteSet(B)
  BY <1>1, <1>2, FS_Subset, Zenon
<1>4. CASE B = {}
  <2>1. Cardinality(B) = 0
    BY <1>4, FS_EmptySet, Zenon
  <2>. QED
    BY <1>1, <2>1
<1>5. CASE B # {}
  <2>. DEFINE D == {top - e : e \in B}
  <2>1. \A e \in B : e \in Nat /\ e <= top /\ top - e \in Nat
    BY <1>1
  <2>2. D \subseteq Nat /\ D # {}
    BY <1>5, <2>1, Zenon
  <2>3. IsWellFoundedOn(OpToRel(<, Nat), Nat)
    BY NatLessThanWellFounded, Zenon
  <2>4. PICK d \in D : \A y \in D : ~(<<y, d>> \in OpToRel(<, Nat))
    BY <2>2, <2>3, WFMin, Zenon
  <2>5. d \in Nat /\ \A y \in D : ~(y < d)
    BY <2>2, <2>4, Zenon DEF OpToRel
  <2>6. PICK m \in B : d = top - m
    OBVIOUS
  <2>7. \A e \in B : e <= m
    <3>. SUFFICES ASSUME NEW e \in B PROVE e <= m
      OBVIOUS
    <3>1. ~(top - e < top - m)
      BY <2>5, <2>6, Zenon
    <3>2. e \in Nat /\ m \in Nat
      BY <2>1, Zenon
    <3>. QED
      BY <3>1, <3>2
  <2>. DEFINE F == {f \in R : f < m}
  <2>8. B \ {m} \subseteq F
    <3>. SUFFICES ASSUME NEW e \in B, e # m PROVE e \in F
      BY Zenon
    <3>1. e \in Nat /\ m \in Nat /\ e <= m
      BY <2>1, <2>7, Zenon
    <3>. QED
      BY <1>1, <3>1
  <2>9. IsFiniteSet(F) /\ Cardinality(F) < n
    BY <1>1, <1>2, <2>6, FS_Subset, Zenon
  <2>10. Cardinality(B \ {m}) <= Cardinality(F)
    BY <2>8, <2>9, FS_Subset, Zenon
  <2>11. Cardinality(B \ {m}) = Cardinality(B) - 1
    BY <1>3, <2>6, FS_RemoveElement, Zenon
  <2>12. Cardinality(B) \in Nat /\ Cardinality(F) \in Nat
    BY <1>3, <2>9, FS_CardinalityType, Zenon
  <2>. HIDE DEF F
  <2>. QED
    BY <1>1, <2>9, <2>10, <2>11, <2>12
<1> QED
  BY <1>4, <1>5, Zenon

(* The three kinds of command.                                             *)
LEMMA CmdFacts ==
  /\ \A e \in 1..MaxSeq :
       /\ Event(e) \in Cmd /\ Event(e).kind = "core" /\ Event(e).event = e
       /\ JsEvent(e) \in Cmd /\ JsEvent(e).kind = "js" /\ JsEvent(e).event = e
  /\ \A r \in Requests, ok \in BOOLEAN :
       /\ Result(r, ok) \in Cmd /\ Result(r, ok).kind = "result"
       /\ Result(r, ok).req = r /\ Result(r, ok).ok = ok
  /\ \A c \in Cmd :
       /\ c.kind \in {"core", "js", "result"}
       /\ c.kind = "core" => c.event \in 1..MaxSeq /\ c = Event(c.event)
       /\ c.kind = "js" => c.event \in 1..MaxSeq /\ c = JsEvent(c.event)
       /\ c.kind = "result" => c.req \in Requests /\ c.ok \in BOOLEAN
  /\ None \notin Cmd
BY NoneAssumption DEF Cmd, Event, JsEvent, Result

-----------------------------------------------------------------------------
(* Types *)

(* A number that is drawn leaves what has a number below it in its type.   *)
LEMMA SealTypes ==
  ASSUME TypeOK, seq < MaxSeq
  PROVE  /\ seq + 1 \in 0..MaxSeq /\ seq + 1 \in 1..(seq + 1)
         /\ 1..seq \subseteq 1..(seq + 1) /\ 1..seq \subseteq 1..MaxSeq
         /\ [seq : 1..seq, by : Requests \cup {Sql}]
              \subseteq [seq : 1..(seq + 1), by : Requests \cup {Sql}]
         /\ core \in Seq(1..(seq + 1))
<1>1. /\ seq + 1 \in 0..MaxSeq /\ seq + 1 \in 1..(seq + 1)
      /\ 1..seq \subseteq 1..(seq + 1) /\ 1..seq \subseteq 1..MaxSeq
  BY BoundsAssumption, SMTT(30) DEF TypeOK
<1>2. [seq : 1..seq, by : Requests \cup {Sql}]
        \subseteq [seq : 1..(seq + 1), by : Requests \cup {Sql}]
  BY <1>1, Zenon
<1>3. core \in Seq(1..(seq + 1))
  BY <1>1, SMTT(30) DEF TypeOK
<1> QED
  BY <1>1, <1>2, <1>3, Zenon

(* The steps of the database and of the participants.                      *)
LEMMA TypeDatabase ==
  ASSUME TypeOK,
         \/ Install \/ SqlSeal \/ \E n \in open : SqlCommit(n) \/ SqlRollback(n)
         \/ \E r \in Requests : Ask(r) \/ Enqueue(r) \/ Unheard(r)
  PROVE  TypeOK'
<1>1. CASE Install
  BY <1>1, Zenon DEF Install, TypeOK, tick, thread, wire
<1>2. CASE SqlSeal
  BY <1>2, SealTypes, Zenon DEF SqlSeal, TypeOK, tick, thread, wire
<1>3. ASSUME NEW n \in open, SqlCommit(n) PROVE TypeOK'
  <2>1. /\ ledger' \subseteq [seq : 1..seq, by : Requests \cup {Sql}]
        /\ outbox' \subseteq 1..seq /\ open' \subseteq 1..seq
    <3>1. n \in 1..seq
      BY Zenon DEF TypeOK
    <3>2. [seq |-> n, by |-> Sql] \in [seq : 1..seq, by : Requests \cup {Sql}]
      BY <3>1, Zenon
    <3>. QED
      BY <1>3, <3>1, <3>2, Zenon DEF SqlCommit, TypeOK
  <2>. QED
    BY <1>3, <2>1, SMTT(30) DEF SqlCommit, TypeOK, tick, thread, wire
<1>4. ASSUME NEW n \in open, SqlRollback(n) PROVE TypeOK'
  BY <1>4, SMTT(30) DEF SqlRollback, TypeOK, tick, thread, wire
<1>5. ASSUME NEW r \in Requests, Ask(r) PROVE TypeOK'
  BY <1>5, ZenonT(60) DEF Ask, TypeOK, database, tick, thread, wire
<1>6. ASSUME NEW r \in Requests, Enqueue(r) PROVE TypeOK'
  <2>1. queue' \in Seq(Requests) /\ Len(queue') <= QueueMax
    BY <1>6, BoundsAssumption, SMTT(60) DEF Enqueue, TypeOK
  <2>. QED
    BY <1>6, <2>1, ZenonT(60) DEF Enqueue, TypeOK, database, tick, thread, wire
<1>7. ASSUME NEW r \in Requests, Unheard(r) PROVE TypeOK'
  BY <1>7, SMTT(60) DEF Unheard, TypeOK, database, tick, thread, wire
<1> QED
  BY <1>1, <1>2, <1>3, <1>4, <1>5, <1>6, <1>7, Zenon

(* The steps of a tick.                                                    *)
LEMMA TypeTick ==
  ASSUME TypeOK,
         \/ StartTick \/ SendReply \/ DeleteBatch \/ SendJs \/ EndTick
         \/ \E ok \in BOOLEAN : Dispatch(ok)
         \/ \E e \in batch : SendCore(e)
  PROVE  TypeOK'
<1>0. seq \in Nat /\ seq <= MaxSeq /\ 1..seq \subseteq 1..MaxSeq
  BY BoundsAssumption, SMTT(30) DEF TypeOK
<1>1. CASE StartTick
  BY <1>1, BoundsAssumption, SMTT(60)
  DEF StartTick, TypeOK, database, thread, wire
<1>2. CASE SendReply
  <2>1. channel' \in Seq(Cmd) /\ Len(channel') <= ChannelMax
    BY <1>2, BoundsAssumption, SMTT(30) DEF SendReply, Send, TypeOK
  <2>. QED
    BY <1>2, <2>1, Zenon DEF SendReply, TypeOK, database, wire
<1>3. CASE DeleteBatch
  <2>1. batch' \subseteq outbox /\ Cardinality(batch') <= BatchMax
    BY <1>0, <1>3, FirstRows, BoundsAssumption, Zenon DEF DeleteBatch, TypeOK
  <2>2. batch' \subseteq 1..seq /\ outbox' \subseteq 1..seq
    BY <1>3, <2>1, Zenon DEF DeleteBatch, TypeOK
  <2>. QED
    BY <1>3, <2>1, <2>2, Zenon DEF DeleteBatch, TypeOK, thread, wire
<1>4. CASE SendJs
  <2>1. JsEvent(row) \in Cmd
    BY <1>0, <1>4, CmdFacts, Zenon DEF SendJs, TypeOK
  <2>2. channel' \in Seq(Cmd) /\ Len(channel') <= ChannelMax
    BY <1>4, <2>1, BoundsAssumption, SMTT(30) DEF SendJs, Send, TypeOK
  <2>. QED
    BY <1>4, <2>2, Zenon DEF SendJs, TypeOK, database, wire
<1>5. CASE EndTick
  BY <1>5, Zenon DEF EndTick, TypeOK, database, thread, wire
<1>6. ASSUME NEW ok \in BOOLEAN, Dispatch(ok) PROVE TypeOK'
  <2>1. Head(taken) \in Requests /\ Tail(taken) \in Seq(Requests)
        /\ Len(Tail(taken)) <= QueueMax
    BY <1>6, HasTail, BoundsAssumption, SMTT(60) DEF Dispatch, TypeOK
  <2>2. /\ reply' \in {c \in Cmd : c.kind = "result"} /\ reply' # None
        /\ pc' = "reply" /\ taken' = Tail(taken)
    BY <1>6, <2>1, CmdFacts DEF Dispatch
  <2>3. /\ seq' \in 0..MaxSeq /\ open' \subseteq 1..seq'
        /\ ledger' \subseteq [seq : 1..seq', by : Requests \cup {Sql}]
        /\ outbox' \subseteq 1..seq' /\ batch' \subseteq 1..seq'
        /\ batch' = batch /\ row' = row /\ row' \in 1..seq' \cup {None}
        /\ core' \in Seq(1..seq') /\ js' \subseteq 1..seq'
    <3>1. CASE ok
      <4>1. seq' = seq + 1 /\ seq < MaxSeq /\ open' = open
            /\ ledger' = ledger \cup {[seq |-> seq + 1, by |-> Head(taken)]}
            /\ outbox' = outbox \cup {seq + 1} /\ batch' = batch /\ row' = row
            /\ core' = core /\ js' = js
        BY <1>6, <3>1, Zenon DEF Dispatch, wire
      <4>2. [seq |-> seq + 1, by |-> Head(taken)]
              \in [seq : 1..(seq + 1), by : Requests \cup {Sql}]
        BY <2>1, <4>1, SealTypes, Zenon
      <4>. QED
        BY <4>1, <4>2, SealTypes, Zenon DEF TypeOK
    <3>2. CASE ~ok
      BY <1>6, <3>2, Zenon DEF Dispatch, wire, TypeOK
    <3>. QED
      BY <3>1, <3>2, Zenon
  <2>. QED
    BY <1>6, <2>1, <2>2, <2>3, ZenonT(60) DEF Dispatch, TypeOK, thread, wire
<1>7. ASSUME NEW e \in batch, SendCore(e) PROVE TypeOK'
  <2>1. e \in 1..seq /\ e # None /\ Event(e) \in Cmd
    <3>1. e \in 1..seq
      BY Zenon DEF TypeOK
    <3>2. e \in 1..MaxSeq
      BY <1>0, <3>1, Zenon
    <3>. QED
      BY <3>1, <3>2, CmdFacts, NoneAssumption
  <2>2. channel' \in Seq(Cmd) /\ Len(channel') <= ChannelMax
    BY <1>7, <2>1, BoundsAssumption, SMTT(30) DEF SendCore, Send, TypeOK
  <2>3. Cardinality(batch \ {e}) <= BatchMax
    <3>1. IsFiniteSet(batch)
      BY <1>0, FS_Interval, FS_Subset, 1 \in Int, seq \in Int, Zenon
      DEF TypeOK
    <3>2. Cardinality(batch \ {e}) = Cardinality(batch) - 1
          /\ Cardinality(batch) \in Nat
      BY <3>1, FS_RemoveElement, FS_CardinalityType, Zenon
    <3>. QED
      BY <3>2, BoundsAssumption, SMTT(30) DEF TypeOK
  <2>. QED
    BY <1>7, <2>1, <2>2, <2>3, Zenon
    DEF SendCore, TypeOK, database, wire
<1> QED
  BY <1>1, <1>2, <1>3, <1>4, <1>5, <1>6, <1>7, Zenon

(* An event that is anywhere has a number that was drawn.                  *)
LEMMA EventDrawn ==
  ASSUME TypeOK, NEW e \in 1..MaxSeq, OnePlace(e),
         \/ e \in outbox \cup batch \/ Has(channel, Event(e))
         \/ cmd = Event(e) \/ Has(core, e) \/ Event(e) \in lost
  PROVE  e \in 1..seq
<1>1. PICK l \in ledger : l.seq = e
  BY Zenon DEF OnePlace
<1> QED
  BY <1>1, Zenon DEF TypeOK

(* All that a process holds in memory is a command.                        *)
LEMMA HeldCommands ==
  ASSUME TypeOK
  PROVE  Held \subseteq Cmd
<1>1. Commands \subseteq Cmd
  BY SMTT(30) DEF Commands, TypeOK
<1>2. 1..seq \subseteq 1..MaxSeq
  BY BoundsAssumption, SMTT(60) DEF TypeOK
<1>3. \A e \in batch : Event(e) \in Cmd /\ JsEvent(e) \in Cmd
  BY <1>2, CmdFacts, Zenon DEF TypeOK
<1>4. row # None => JsEvent(row) \in Cmd
  BY <1>2, CmdFacts, Zenon DEF TypeOK
<1>5. reply # None => reply \in Cmd
  BY Zenon DEF TypeOK
<1> QED
  BY <1>1, <1>3, <1>4, <1>5, Zenon DEF Held

(* The steps of the publish thread, of the broker and of the process.      *)
LEMMA TypeThread ==
  ASSUME BridgeInv,
         \/ Connect \/ Recv \/ Publish \/ PublishFails \/ BrokerChanges
         \/ Crash \/ Exit \/ Sigterm \/ Restart
  PROVE  TypeOK'
<1>. TypeOK
  BY Zenon DEF BridgeInv
<1>1. CASE Connect
  BY <1>1, Zenon DEF Connect, TypeOK, database, tick, wire
<1>2. CASE Recv
  <2>1. Head(channel) \in Cmd /\ Tail(channel) \in Seq(Cmd)
        /\ Len(Tail(channel)) <= ChannelMax /\ Head(channel) # None
    BY <1>2, HasTail, CmdFacts, BoundsAssumption, SMTT(30) DEF Recv, TypeOK
  <2>. QED
    BY <1>2, <2>1, Zenon DEF Recv, TypeOK, database, tick, wire
<1>3. CASE Publish
  <2>1. cmd \in Cmd
    BY <1>3, Zenon DEF Publish, TypeOK
  <2>2. core' \in Seq(1..seq)
    <3>1. CASE cmd.kind = "core"
      <4>1. cmd.event \in 1..MaxSeq /\ cmd = Event(cmd.event)
        BY <2>1, <3>1, CmdFacts, Zenon
      <4>2. cmd.event \in 1..seq
        BY <4>1, EventDrawn, Zenon DEF BridgeInv
      <4>. QED
        BY <1>3, <3>1, <4>2, SMTT(30) DEF Publish, TypeOK
    <3>2. CASE cmd.kind # "core"
      BY <1>3, <3>2, Zenon DEF Publish, TypeOK
    <3>. QED
      BY <3>1, <3>2, Zenon
  <2>3. js' \subseteq 1..seq
    <3>1. CASE cmd.kind = "js"
      <4>1. cmd.event \in 1..MaxSeq /\ cmd = JsEvent(cmd.event)
        BY <2>1, <3>1, CmdFacts, Zenon
      <4>2. Past(cmd.event)
        BY <4>1, Zenon DEF BridgeInv, JsBehind
      <4>3. cmd.event \in 1..seq
        BY <4>1, <4>2, EventDrawn, Zenon DEF BridgeInv, Past
      <4>. QED
        BY <1>3, <3>1, <4>3, Zenon DEF Publish, TypeOK
    <3>2. CASE cmd.kind # "js"
      BY <1>3, <3>2, ZenonT(60) DEF Publish, TypeOK
    <3>. QED
      BY <3>1, <3>2, Zenon
  <2>4. results' \subseteq [req : Requests, ok : BOOLEAN]
    BY <1>3, <2>1, CmdFacts, SMTT(30) DEF Publish, TypeOK
  <2>. QED
    BY <1>3, <2>2, <2>3, <2>4, Zenon DEF Publish, TypeOK, database, tick
<1>4. CASE PublishFails
  BY <1>4, Zenon DEF PublishFails, TypeOK, database, tick, wire
<1>5. CASE BrokerChanges
  BY <1>5, ZenonT(60) DEF BrokerChanges, TypeOK, database, tick, thread
<1>6. CASE Crash \/ Exit
  <2>1. ProcessEnds
    BY <1>6, Zenon DEF Crash, Exit
  <2>2. lost' \subseteq Cmd
    BY <2>1, HeldCommands, Zenon DEF ProcessEnds, TypeOK
  <2>3. <<>> \in Seq(Requests) /\ <<>> \in Seq(Cmd) /\ Len(<<>>) = 0
    OBVIOUS
  <2>4. Cardinality({}) = 0
    BY FS_EmptySet, Zenon
  <2>5. queue' = <<>> /\ taken' = <<>> /\ channel' = <<>> /\ batch' = {}
        /\ reply' = None /\ row' = None /\ cmd' = None /\ pc' = "latch"
        /\ client' = "connect" /\ proc' = "down"
        /\ UNCHANGED <<database, wire, inflight>>
    BY <2>1, Zenon DEF ProcessEnds
  <2>. QED
    BY <2>2, <2>3, <2>4, <2>5, BoundsAssumption, SMTT(60)
    DEF TypeOK, database, wire
<1>7. CASE Sigterm
  BY <1>7, SMTT(30) DEF Sigterm, TypeOK, database, tick, thread, wire
<1>8. CASE Restart
  BY <1>8, SMTT(30) DEF Restart, TypeOK, database, tick, thread, wire
<1> QED
  BY <1>1, <1>2, <1>3, <1>4, <1>5, <1>6, <1>7, <1>8

-----------------------------------------------------------------------------
(* Places *)

(* A step that moves no event.                                             *)
LEMMA PlaceUnmoved ==
  ASSUME NEW e \in 1..MaxSeq, OnePlace(e), JsBehind(e),
         UNCHANGED <<ledger, outbox, batch, channel, cmd, core, lost, js, row>>
  PROVE  OnePlace(e)' /\ JsBehind(e)'
BY Zenon DEF OnePlace, JsBehind, Past, Has, Once

(* A seal commits, and its event is in the outbox with it.                 *)
LEMMA PlaceCommit ==
  ASSUME NEW e \in 1..MaxSeq, OnePlace(e), JsBehind(e),
         NEW n, NEW o, \A l \in ledger : l.seq # n,
         ledger' = ledger \cup {[seq |-> n, by |-> o]},
         outbox' = outbox \cup {n},
         UNCHANGED <<batch, channel, cmd, core, lost, js, row>>
  PROVE  OnePlace(e)' /\ JsBehind(e)'
<1>1. /\ e \in outbox' <=> e \in outbox \/ e = n
      /\ (\E l \in ledger' : l.seq = e) <=> (\E l \in ledger : l.seq = e) \/ e = n
  <2>. DEFINE new == [seq |-> n, by |-> o]
  <2>1. new \in ledger' /\ new.seq = n
    OBVIOUS
  <2>2. \A l \in ledger' : l \in ledger \/ l = new
    OBVIOUS
  <2>. HIDE DEF new
  <2>. QED
    BY <2>1, <2>2, Zenon
<1>2. JsBehind(e)'
  BY Zenon DEF JsBehind, Past, Has
<1>3. OnePlace(e)'
  BY <1>1, Zenon DEF OnePlace, Has, Once
<1> QED
  BY <1>2, <1>3, Zenon

(* The DELETE moves rows from the outbox into the batch.                   *)
LEMMA PlaceDelete ==
  ASSUME NEW e \in 1..MaxSeq, OnePlace(e), JsBehind(e), batch = {},
         batch' \subseteq outbox, outbox' = outbox \ batch',
         UNCHANGED <<ledger, channel, cmd, core, lost, js, row>>
  PROVE  OnePlace(e)' /\ JsBehind(e)'
<1>1. /\ e \in outbox' => e \in outbox /\ e \notin batch'
      /\ e \in outbox \cup batch <=> e \in outbox' \cup batch'
  OBVIOUS
<1>2. JsBehind(e)'
  BY Zenon DEF JsBehind, Past, Has
<1>3. OnePlace(e)'
  BY <1>1, Zenon DEF OnePlace, Has, Once
<1> QED
  BY <1>2, <1>3, Zenon

(* A command that is not an event for NATS Core is sent.                   *)
LEMMA PlaceSendOther ==
  ASSUME TypeOK, NEW e \in 1..MaxSeq, OnePlace(e), JsBehind(e),
         NEW c \in Cmd, c.kind # "core", channel' = Append(channel, c),
         c = JsEvent(e) => row = e, row' \in {row, None},
         UNCHANGED <<ledger, outbox, batch, cmd, core, lost, js>>
  PROVE  OnePlace(e)' /\ JsBehind(e)'
<1>1. channel \in Seq(Cmd) /\ Event(e) # c /\ (row' = e => row = e)
  BY CmdFacts, NoneAssumption, SMTT(30) DEF TypeOK
<1>2. /\ Has(channel, Event(e))' <=> Has(channel, Event(e))
      /\ Once(channel, Event(e)) => Once(channel, Event(e))'
  BY <1>1, HasAppend, Zenon
<1>3. OnePlace(e)'
  BY <1>2, Zenon DEF OnePlace, Has, Once
<1>4. ASSUME NEW j \in DOMAIN channel', channel'[j] = JsEvent(e)
      PROVE  \/ Past(e) \/ cmd = Event(e)
             \/ \E i \in DOMAIN channel' : i < j /\ channel'[i] = Event(e)
  <2>1. /\ DOMAIN channel = 1..Len(channel)
        /\ DOMAIN channel' = 1..(Len(channel) + 1)
        /\ \A i \in 1..Len(channel) : channel'[i] = channel[i]
        /\ channel'[Len(channel) + 1] = c
        /\ Len(channel) \in Nat
    BY <1>1
  <2>2. CASE j \in DOMAIN channel
    <3>1. \/ Past(e) \/ cmd = Event(e)
          \/ \E i \in DOMAIN channel : i < j /\ channel[i] = Event(e)
      BY <1>4, <2>1, <2>2, Zenon DEF JsBehind
    <3>. QED
      BY <2>1, <3>1
  <2>3. CASE j = Len(channel) + 1
    <3>1. Past(e) \/ cmd = Event(e) \/ Has(channel, Event(e))
      BY <1>4, <2>1, <2>3, Zenon DEF JsBehind
    <3>. QED
      BY <2>1, <2>3, <3>1 DEF Has
  <2>. QED
    BY <2>1, <2>2, <2>3
<1>5. JsBehind(e)'
  BY <1>1, <1>2, <1>4 DEF JsBehind, Past, Has
<1> QED
  BY <1>3, <1>5, Zenon

(* An event of the batch is sent for NATS Core.                            *)
LEMMA PlaceSendCore ==
  ASSUME TypeOK, NEW e \in 1..MaxSeq, OnePlace(e), JsBehind(e),
         NEW x \in 1..MaxSeq, x \in batch, channel' = Append(channel, Event(x)),
         batch' = batch \ {x}, row' \in {row, x},
         UNCHANGED <<ledger, outbox, cmd, core, lost, js>>
  PROVE  OnePlace(e)' /\ JsBehind(e)'
<1>1. channel \in Seq(Cmd) /\ Event(x) \in Cmd /\ JsEvent(e) # Event(x)
      /\ (Event(e) = Event(x) => e = x)
  <2>1. JsEvent(e).kind = "js" /\ Event(x).kind = "core"
        /\ Event(e).event = e /\ Event(x).event = x
    BY CmdFacts, Zenon
  <2>. QED
    BY <2>1, CmdFacts, SMTT(30) DEF TypeOK
<1>2. /\ Has(channel, Event(e))' <=> Has(channel, Event(e)) \/ e = x
      /\ Once(channel, Event(e)) /\ (e = x => ~Has(channel, Event(e)))
           => Once(channel, Event(e))'
  BY <1>1, HasAppend, ZenonT(60)
<1>3. OnePlace(e)'
  BY <1>2, Zenon DEF OnePlace, Has, Once
<1>4. ASSUME NEW j \in DOMAIN channel', channel'[j] = JsEvent(e)
      PROVE  \/ Past(e) \/ cmd = Event(e)
             \/ \E i \in DOMAIN channel' : i < j /\ channel'[i] = Event(e)
  <2>1. /\ DOMAIN channel = 1..Len(channel)
        /\ DOMAIN channel' = 1..(Len(channel) + 1)
        /\ \A i \in 1..Len(channel) : channel'[i] = channel[i]
        /\ channel'[Len(channel) + 1] = Event(x)
        /\ Len(channel) \in Nat
    BY <1>1
  <2>2. j \in DOMAIN channel
    BY <1>1, <1>4, <2>1, SMTT(60)
  <2>3. \/ Past(e) \/ cmd = Event(e)
        \/ \E i \in DOMAIN channel : i < j /\ channel[i] = Event(e)
    BY <1>4, <2>1, <2>2, ZenonT(60) DEF JsBehind
  <2>. QED
    BY <2>1, <2>3
<1>5. JsBehind(e)'
  BY <1>2, <1>4, Zenon DEF JsBehind, Past, Has
<1> QED
  BY <1>3, <1>5, ZenonT(60)

(* The publish thread receives the oldest command.                         *)
LEMMA PlaceRecv ==
  ASSUME TypeOK, NEW e \in 1..MaxSeq, OnePlace(e), JsBehind(e),
         channel # <<>>, cmd = None,
         cmd' = Head(channel), channel' = Tail(channel),
         UNCHANGED <<ledger, outbox, batch, core, lost, js, row>>
  PROVE  OnePlace(e)' /\ JsBehind(e)'
<1>1. channel \in Seq(Cmd) /\ cmd # Event(e)
  BY CmdFacts, SMTT(30) DEF TypeOK
<1>2. /\ Has(channel, Event(e)) <=> Has(channel, Event(e))' \/ cmd' = Event(e)
      /\ Once(channel, Event(e)) =>
           Once(channel, Event(e))'
             /\ (cmd' = Event(e) => ~Has(channel, Event(e))')
  BY <1>1, HasTail, Zenon
<1>3. OnePlace(e)'
  BY <1>1, <1>2, ZenonT(60) DEF OnePlace, Has, Once
<1>4. /\ DOMAIN channel = 1..Len(channel) /\ Len(channel) \in Nat \ {0}
      /\ DOMAIN channel' = 1..(Len(channel) - 1)
      /\ \A i \in 1..(Len(channel) - 1) : channel'[i] = channel[i + 1]
      /\ cmd' = channel[1]
  BY <1>1
<1>5. ASSUME NEW j \in DOMAIN channel', channel'[j] = JsEvent(e)
      PROVE  \/ Past(e) \/ cmd' = Event(e)
             \/ \E i \in DOMAIN channel' : i < j /\ channel'[i] = Event(e)
  <2>1. j + 1 \in DOMAIN channel /\ channel[j + 1] = JsEvent(e)
    BY <1>4, <1>5
  <2>2. CASE Past(e)
    BY <2>2, Zenon
  <2>3. ASSUME NEW i \in DOMAIN channel, i < j + 1, channel[i] = Event(e)
        PROVE  \/ cmd' = Event(e)
               \/ \E k \in DOMAIN channel' : k < j /\ channel'[k] = Event(e)
    <3>1. CASE i = 1
      BY <1>4, <2>3, <3>1, Zenon
    <3>2. CASE i # 1
      <4>1. i - 1 \in DOMAIN channel' /\ i - 1 < j /\ (i - 1) + 1 = i
        BY <1>4, <1>5, <2>3, <3>2
      <4>2. channel'[i - 1] = Event(e)
        BY <1>4, <2>3, <4>1, Zenon
      <4>. QED
        BY <4>1, <4>2, ZenonT(60)
    <3>. QED
      BY <3>1, <3>2, Zenon
  <2>. QED
    BY <1>1, <2>1, <2>2, <2>3, ZenonT(60) DEF JsBehind
<1>6. cmd' = JsEvent(e) => Past(e)
  <2>1. ASSUME cmd' = JsEvent(e) PROVE Past(e)
    <3>1. 1 \in DOMAIN channel /\ channel[1] = JsEvent(e)
      BY <1>4, <2>1
    <3>2. ~\E i \in DOMAIN channel : i < 1
      BY <1>4
    <3>. QED
      BY <1>1, <3>1, <3>2, Zenon DEF JsBehind
  <2>. QED
    BY <2>1, Zenon
<1>7. Past(e)' <=> Past(e)
  BY Zenon DEF Past, Has
<1>8. row' = e => Past(e)' \/ cmd' = Event(e) \/ Has(channel, Event(e))'
  BY <1>1, <1>2, <1>7, ZenonT(60) DEF JsBehind
<1>9. JsBehind(e)'
  BY <1>5, <1>6, <1>7, <1>8 DEF JsBehind
<1> QED
  BY <1>3, <1>9, ZenonT(60)

(* The thread publishes what it has received.                              *)
LEMMA PlacePublish ==
  ASSUME TypeOK, NEW e \in 1..MaxSeq, OnePlace(e), JsBehind(e),
         cmd \in Cmd, cmd' = None,
         core' = IF cmd.kind = "core" THEN Append(core, cmd.event) ELSE core,
         js' = IF cmd.kind = "js" THEN js \cup {cmd.event} ELSE js,
         cmd.kind = "core" => cmd.event \in 1..seq,
         UNCHANGED <<ledger, outbox, batch, channel, lost, row>>
  PROVE  OnePlace(e)' /\ JsBehind(e)'
<1>1. cmd' # Event(e) /\ cmd' # JsEvent(e)
  BY CmdFacts
<1>2. cmd = Event(e) <=> cmd.kind = "core" /\ cmd.event = e
  BY CmdFacts
<1>3. cmd = JsEvent(e) <=> cmd.kind = "js" /\ cmd.event = e
  BY CmdFacts
<1>4. /\ Has(core, e)' <=> Has(core, e) \/ cmd = Event(e)
      /\ Once(core, e) /\ (cmd = Event(e) => ~Has(core, e)) => Once(core, e)'
  <2>1. CASE cmd.kind = "core"
    <3>. DEFINE T == 1..seq
    <3>1. core' = Append(core, cmd.event) /\ core \in Seq(T)
      BY <2>1, Zenon DEF TypeOK
    <3>2. PICK x \in T : x = cmd.event
      BY <2>1, Zenon
    <3>. HIDE DEF T
    <3>3. /\ Has(Append(core, x), e) <=> Has(core, e) \/ e = x
          /\ Once(core, e) /\ (e = x => ~Has(core, e)) => Once(Append(core, x), e)
      BY <3>1, HasAppend, Zenon
    <3>. QED
      BY <1>2, <2>1, <3>1, <3>2, <3>3, ZenonT(60)
  <2>2. CASE cmd.kind # "core"
    BY <1>2, <2>2, Zenon DEF Has, Once
  <2>. QED
    BY <2>1, <2>2, Zenon
<1>5. OnePlace(e)'
  BY <1>1, <1>4, Zenon DEF OnePlace, Has, Once
<1>6. Past(e)' <=> Past(e) \/ cmd = Event(e)
  BY <1>4, Zenon DEF Past
<1>7. e \in js' => e \in js \/ cmd = JsEvent(e)
  BY <1>3, Zenon
<1>8. JsBehind(e)'
  BY <1>1, <1>6, <1>7, Zenon DEF JsBehind, Has
<1> QED
  BY <1>5, <1>8, Zenon

(* A publish that fails discards the command.                              *)
LEMMA PlacePublishFails ==
  ASSUME NEW e \in 1..MaxSeq, OnePlace(e), JsBehind(e),
         cmd' = None, lost' = lost \cup {cmd},
         UNCHANGED <<ledger, outbox, batch, channel, core, js, row>>
  PROVE  OnePlace(e)' /\ JsBehind(e)'
<1>1. cmd' # Event(e) /\ cmd' # JsEvent(e)
  BY CmdFacts
<1>2. Event(e) \in lost' <=> Event(e) \in lost \/ cmd = Event(e)
  OBVIOUS
<1>3. OnePlace(e)'
  BY <1>1, <1>2, Zenon DEF OnePlace, Has, Once
<1>4. Past(e)' <=> Past(e) \/ cmd = Event(e)
  BY <1>2, Zenon DEF Past, Has
<1>5. JsBehind(e)'
  BY <1>1, <1>4, Zenon DEF JsBehind, Has
<1> QED
  BY <1>3, <1>5, Zenon

(* The end of a process discards what is in its memory.                    *)
LEMMA PlaceEnds ==
  ASSUME TypeOK, NEW e \in 1..MaxSeq, OnePlace(e), JsBehind(e), ProcessEnds
  PROVE  OnePlace(e)' /\ JsBehind(e)'
<1>1. /\ lost' = lost \cup Held /\ batch' = {} /\ row' = None
      /\ channel' = <<>> /\ cmd' = None
      /\ UNCHANGED <<ledger, outbox, core, js>>
  BY Zenon DEF ProcessEnds, database, wire
<1>2. Event(e) \in Held <=>
        e \in batch \/ Has(channel, Event(e)) \/ cmd = Event(e)
  <2>1. Event(e) \in Commands <=> Has(channel, Event(e)) \/ cmd = Event(e)
    BY CmdFacts DEF Commands, Has
  <2>2. Event(e) \in {Event(x) : x \in batch} <=> e \in batch
    BY Zenon DEF Event
  <2>3. \A x : Event(e) # JsEvent(x)
    BY Zenon DEF Event, JsEvent
  <2>4. reply # None => reply # Event(e)
    BY CmdFacts, Zenon DEF TypeOK
  <2>. QED
    BY <2>1, <2>2, <2>3, <2>4, ZenonT(60) DEF Held
<1>3. ~Has(channel, Event(e))' /\ Once(channel, Event(e))'
      /\ cmd' # Event(e) /\ cmd' # JsEvent(e) /\ row' # e
  BY <1>1, CmdFacts, NoneAssumption DEF Has, Once
<1>4. Event(e) \in lost' <=> Event(e) \in lost
        \/ e \in batch \/ Has(channel, Event(e)) \/ cmd = Event(e)
  BY <1>1, <1>2, Zenon
<1>5. OnePlace(e)'
  BY <1>1, <1>3, <1>4, ZenonT(60) DEF OnePlace, Has, Once
<1>6. JsBehind(e)'
  BY <1>1, <1>3, <1>4 DEF JsBehind, Past, Has
<1> QED
  BY <1>5, <1>6, Zenon

-----------------------------------------------------------------------------
(* Every step *)

(* A number is committed once: open ones have not been, and the next to be *)
(* drawn is above all of them.                                             *)
LEMMA SealsStep ==
  ASSUME BridgeInv, [Next]_vars
  PROVE  SealsDistinct'
<1>. TypeOK /\ SealsDistinct
  BY ZenonT(60) DEF BridgeInv
<1>0. /\ seq \in Nat /\ \A n \in open : n # seq + 1
      /\ \A l \in ledger : l.seq # seq + 1
  BY BoundsAssumption, SMTT(30) DEF TypeOK
<1>1. CASE UNCHANGED <<open, ledger>>
  BY <1>1, Zenon DEF SealsDistinct
<1>2. CASE SqlSeal
  BY <1>0, <1>2, Zenon DEF SqlSeal, SealsDistinct
<1>3. ASSUME NEW n \in open, SqlCommit(n) PROVE SealsDistinct'
  BY <1>3 DEF SqlCommit, SealsDistinct
<1>4. ASSUME NEW n \in open, SqlRollback(n) PROVE SealsDistinct'
  BY <1>4, Zenon DEF SqlRollback, SealsDistinct
<1>5. ASSUME NEW ok \in BOOLEAN, Dispatch(ok) PROVE SealsDistinct'
  BY <1>0, <1>5 DEF Dispatch, SealsDistinct
<1>6. Worker \/ Client \/ PublishFails \/ BrokerChanges \/ Crash \/ Sigterm
        \/ Restart \/ Install => UNCHANGED <<open, ledger>>
                                 \/ \E ok \in BOOLEAN : Dispatch(ok)
  BY Zenon
  DEF Worker, Client, StartTick, SendReply, DeleteBatch, SendJs, EndTick,
      Exit, SendCore, Connect, Recv, Publish, PublishFails, BrokerChanges,
      Crash, ProcessEnds, Sigterm, Restart, Install, database
<1>7. ASSUME NEW r \in Requests, Ask(r) \/ Enqueue(r) \/ Unheard(r)
      PROVE  UNCHANGED <<open, ledger>>
  BY <1>7, Zenon DEF Ask, Enqueue, Unheard, database
<1>8. UNCHANGED vars => UNCHANGED <<open, ledger>>
  BY Zenon DEF vars, database
<1> QED
  BY <1>1, <1>2, <1>3, <1>4, <1>5, <1>6, <1>7, <1>8, ZenonT(60) DEF Next

(* EndTick waits for the batch to be sent, and nothing else leaves it.     *)
LEMMA BatchStep ==
  ASSUME BridgeInv, [Next]_vars
  PROVE  BatchInDrain'
<1>. BatchInDrain /\ TypeOK
  BY Zenon DEF BridgeInv
<1>1. CASE UNCHANGED <<batch, pc>>
  BY <1>1, Zenon DEF BatchInDrain
<1>2. CASE StartTick \/ SendReply \/ DeleteBatch \/ SendJs \/ EndTick
  BY <1>2, Zenon
  DEF StartTick, SendReply, DeleteBatch, SendJs, EndTick, BatchInDrain
<1>3. ASSUME NEW ok \in BOOLEAN, Dispatch(ok) PROVE BatchInDrain'
  BY <1>3, Zenon DEF Dispatch, BatchInDrain
<1>4. ASSUME NEW e \in batch, SendCore(e) PROVE BatchInDrain'
  BY <1>4, Zenon DEF SendCore, BatchInDrain
<1>5. CASE Exit \/ Crash
  BY <1>5, Zenon DEF Exit, Crash, ProcessEnds, BatchInDrain
<1>6. Client \/ PublishFails \/ BrokerChanges \/ Sigterm \/ Restart \/ Install
        \/ SqlSeal => UNCHANGED <<batch, pc>>
  BY Zenon
  DEF Client, Connect, Recv, Publish, PublishFails, BrokerChanges, Sigterm,
      Restart, Install, SqlSeal, tick
<1>7. ASSUME NEW n \in open, SqlCommit(n) \/ SqlRollback(n)
      PROVE  UNCHANGED <<batch, pc>>
  BY <1>7 DEF SqlCommit, SqlRollback, tick
<1>8. ASSUME NEW r \in Requests, Ask(r) \/ Enqueue(r) \/ Unheard(r)
      PROVE  UNCHANGED <<batch, pc>>
  BY <1>8, Zenon DEF Ask, Enqueue, Unheard, tick
<1>9. UNCHANGED vars => UNCHANGED <<batch, pc>>
  BY Zenon DEF vars, tick
<1> QED
  BY <1>1, <1>2, <1>3, <1>4, <1>5, <1>6, <1>7, <1>8, <1>9, ZenonT(60)
  DEF Next, Worker

(* The ledger only grows, so that a result stays backed on its way.        *)
LEMMA ResultsStep ==
  ASSUME BridgeInv, [Next]_vars
  PROVE  ResultsBacked'
<1>. TypeOK /\ ResultsBacked
  BY Zenon DEF BridgeInv
<1>0. ResultBacked(None)'
  BY CmdFacts, Zenon DEF ResultBacked
<1>1. CASE UNCHANGED <<reply, cmd, channel, results>> /\ ledger \subseteq ledger'
  BY <1>1, ZenonT(60) DEF ResultsBacked, ResultBacked, ResultsTruthful
<1>2. ASSUME NEW ok \in BOOLEAN, Dispatch(ok) PROVE ResultsBacked'
  <2>1. /\ ledger \subseteq ledger' /\ UNCHANGED <<cmd, channel, results>>
        /\ reply' = Result(Head(taken), ok)
        /\ ok => \E l \in ledger' : l.by = Head(taken)
    <3>. DEFINE new == [seq |-> seq + 1, by |-> Head(taken)]
    <3>1. new.by = Head(taken)
      OBVIOUS
    <3>2. ok => ledger' = ledger \cup {new}
      BY <1>2, Zenon DEF Dispatch
    <3>. HIDE DEF new
    <3>. QED
      BY <1>2, <3>1, <3>2 DEF Dispatch, thread, wire
  <2>2. ResultBacked(reply)'
    BY <2>1, ZenonT(60) DEF ResultBacked, Result
  <2>. QED
    BY <2>1, <2>2 DEF ResultsBacked, ResultBacked, ResultsTruthful
<1>3. ASSUME NEW c \in Cmd, ResultBacked(c), channel' = Append(channel, c),
             UNCHANGED <<cmd, results, ledger>>, reply' \in {reply, None}
      PROVE  ResultsBacked'
  <2>1. \A i \in DOMAIN channel' : channel'[i] = c
                                   \/ \E j \in DOMAIN channel : channel'[i] = channel[j]
    BY <1>3, SMTT(30) DEF TypeOK
  <2>. QED
    BY <1>0, <1>3, <2>1 DEF ResultsBacked, ResultBacked, ResultsTruthful
<1>4. CASE SendReply
  BY <1>3, <1>4, Zenon
  DEF SendReply, Send, TypeOK, ResultsBacked, wire, database
<1>5. CASE SendJs
  <2>1. row \in 1..MaxSeq
    <3>1. row \in 1..seq /\ seq \in 0..MaxSeq
      BY <1>5, Zenon DEF SendJs, TypeOK
    <3>. QED
      BY <3>1, BoundsAssumption
  <2>2. JsEvent(row) \in Cmd /\ ResultBacked(JsEvent(row))
    BY <2>1, CmdFacts, Zenon DEF ResultBacked
  <2>. QED
    BY <1>3, <1>5, <2>2, Zenon DEF SendJs, Send, wire, database
<1>6. ASSUME NEW e \in batch, SendCore(e) PROVE ResultsBacked'
  <2>1. e \in 1..MaxSeq
    <3>1. e \in 1..seq /\ seq \in 0..MaxSeq
      BY Zenon DEF TypeOK
    <3>. QED
      BY <3>1, BoundsAssumption
  <2>2. Event(e) \in Cmd /\ ResultBacked(Event(e))
    BY <2>1, CmdFacts, ZenonT(60) DEF ResultBacked
  <2>. QED
    BY <1>3, <1>6, <2>2, Zenon DEF SendCore, Send, wire, database
<1>7. CASE Recv
  <2>1. /\ \A i \in DOMAIN channel' : \E j \in DOMAIN channel :
              channel'[i] = channel[j]
        /\ \E j \in DOMAIN channel : cmd' = channel[j]
    <3>1. /\ DOMAIN channel = 1..Len(channel) /\ Len(channel) \in Nat \ {0}
          /\ DOMAIN Tail(channel) = 1..(Len(channel) - 1)
          /\ \A i \in 1..(Len(channel) - 1) : Tail(channel)[i] = channel[i + 1]
          /\ Head(channel) = channel[1]
      BY <1>7, SMTT(60) DEF Recv, TypeOK
    <3>. QED
      BY <1>7, <3>1, SMTT(60) DEF Recv
  <2>. QED
    BY <1>7, <2>1 DEF Recv, ResultsBacked, ResultBacked, ResultsTruthful,
       tick, wire, database
<1>8. CASE Publish
  BY <1>0, <1>8, SMTT(30) DEF Publish, TypeOK, ResultsBacked, ResultBacked,
     ResultsTruthful, tick, database
<1>9. CASE PublishFails
  BY <1>0, <1>9, ZenonT(60)
  DEF PublishFails, ResultsBacked, ResultBacked, ResultsTruthful, tick, wire,
      database
<1>10. CASE Crash \/ Exit
  <2>1. /\ cmd' = None /\ channel' = <<>> /\ reply' = None
        /\ results' = results /\ ledger' = ledger
    BY <1>10 DEF Crash, Exit, ProcessEnds, wire, database
  <2> QED
    BY <1>0, <2>1 DEF ResultsBacked, ResultBacked, ResultsTruthful
<1>11. StartTick \/ DeleteBatch \/ EndTick \/ Connect \/ BrokerChanges
         \/ Sigterm \/ Restart \/ Install \/ SqlSeal =>
           UNCHANGED <<reply, cmd, channel, results>> /\ ledger \subseteq ledger'
  BY Zenon
  DEF StartTick, DeleteBatch, EndTick, Connect, BrokerChanges, Sigterm,
      Restart, Install, SqlSeal, tick, thread, wire, database
<1>12. ASSUME NEW n \in open, SqlCommit(n) \/ SqlRollback(n)
       PROVE  UNCHANGED <<reply, cmd, channel, results>> /\ ledger \subseteq ledger'
  BY <1>12, Zenon DEF SqlCommit, SqlRollback, tick, thread, wire
<1>13. ASSUME NEW r \in Requests, Ask(r) \/ Enqueue(r) \/ Unheard(r)
       PROVE  UNCHANGED <<reply, cmd, channel, results>> /\ ledger \subseteq ledger'
  BY <1>13, Zenon DEF Ask, Enqueue, Unheard, tick, thread, wire, database
<1>14. UNCHANGED vars =>
         UNCHANGED <<reply, cmd, channel, results>> /\ ledger \subseteq ledger'
  BY Zenon DEF vars, tick, thread, wire, database
<1> QED
  BY <1>1, <1>2, <1>4, <1>5, <1>6, <1>7, <1>8, <1>9, <1>10, <1>11, <1>12,
     <1>13, <1>14, Zenon DEF Next, Worker, Client

(* Whatever happens, every event stays in its one place, and the stream    *)
(* behind NATS Core.                                                       *)
LEMMA PlacesStep ==
  ASSUME BridgeInv, [Next]_vars, NEW e \in 1..MaxSeq
  PROVE  OnePlace(e)' /\ JsBehind(e)'
<1>. TypeOK /\ SealsDistinct /\ BatchInDrain /\ OnePlace(e) /\ JsBehind(e)
  BY Zenon DEF BridgeInv
<1>. DEFINE Unmoved ==
       UNCHANGED <<ledger, outbox, batch, channel, cmd, core, lost, js, row>>
<1>0. CASE Unmoved
  BY <1>0, PlaceUnmoved, Zenon
<1>1. ASSUME NEW n \in open, SqlCommit(n) PROVE OnePlace(e)' /\ JsBehind(e)'
  BY <1>1, PlaceCommit, Zenon
  DEF SqlCommit, SealsDistinct, tick, thread, wire
<1>2. ASSUME NEW ok \in BOOLEAN, Dispatch(ok)
      PROVE  OnePlace(e)' /\ JsBehind(e)'
  <2>1. CASE ok
    <3>1. \A l \in ledger : l.seq # seq + 1
      <4>1. seq \in 0..MaxSeq /\ \A l \in ledger : l.seq \in 1..seq
        BY Zenon DEF TypeOK
      <4>. QED
        BY <4>1, BoundsAssumption
    <3>2. /\ ledger' = ledger \cup {[seq |-> seq + 1, by |-> Head(taken)]}
          /\ outbox' = outbox \cup {seq + 1}
          /\ UNCHANGED <<batch, channel, cmd, core, lost, js, row>>
      BY <1>2, <2>1, Zenon DEF Dispatch, thread, wire
    <3>. QED
      BY <3>1, <3>2, PlaceCommit, Zenon
  <2>2. CASE ~ok
    BY <1>2, <2>2, PlaceUnmoved, Zenon DEF Dispatch, thread, wire
  <2>. QED
    BY <2>1, <2>2, Zenon
<1>3. CASE DeleteBatch
  <2>1. batch = {} /\ batch' \subseteq outbox
    BY <1>3, Zenon DEF DeleteBatch, BatchInDrain
  <2>. QED
    BY <1>3, <2>1, PlaceDelete, Zenon DEF DeleteBatch, thread, wire
<1>4. CASE SendReply
  <2>1. reply \in Cmd /\ reply.kind = "result" /\ reply # JsEvent(e)
    <3>1. reply \in Cmd /\ reply.kind = "result"
      BY <1>4, Zenon DEF SendReply, TypeOK
    <3>2. JsEvent(e).kind = "js"
      BY CmdFacts, Zenon
    <3>. QED
      BY <3>1, <3>2
  <2>2. channel' = Append(channel, reply) /\ row' = row
        /\ UNCHANGED <<ledger, outbox, batch, cmd, core, lost, js>>
    BY <1>4, Zenon DEF SendReply, Send, database, wire
  <2>. QED
    BY <2>1, <2>2, PlaceSendOther, Zenon
<1>5. CASE SendJs
  <2>1. row \in 1..MaxSeq
    <3>1. row \in 1..seq /\ seq \in 0..MaxSeq
      BY <1>5, Zenon DEF SendJs, TypeOK
    <3>. QED
      BY <3>1, BoundsAssumption
  <2>2. JsEvent(row) \in Cmd /\ JsEvent(row).kind = "js"
        /\ (JsEvent(row) = JsEvent(e) => row = e)
    BY <2>1, CmdFacts
  <2>3. channel' = Append(channel, JsEvent(row)) /\ row' = None
        /\ UNCHANGED <<ledger, outbox, batch, cmd, core, lost, js>>
    BY <1>5, Zenon DEF SendJs, Send, database, wire
  <2>. QED
    BY <2>2, <2>3, PlaceSendOther, Zenon
<1>6. ASSUME NEW x \in batch, SendCore(x)
      PROVE  OnePlace(e)' /\ JsBehind(e)'
  <2>1. x \in 1..MaxSeq
    <3>1. x \in 1..seq /\ seq \in 0..MaxSeq
      BY Zenon DEF TypeOK
    <3>. QED
      BY <3>1, BoundsAssumption
  <2>2. /\ channel' = Append(channel, Event(x)) /\ batch' = batch \ {x}
        /\ row' \in {row, x} /\ UNCHANGED <<ledger, outbox, cmd, core, lost, js>>
    BY <1>6, Zenon DEF SendCore, Send, database, wire
  <2>. QED
    BY <2>1, <2>2, PlaceSendCore, Zenon
<1>7. CASE Recv
  <2>1. channel # <<>> /\ cmd = None
    BY <1>7, ZenonT(60) DEF Recv, TypeOK
  <2>. QED
    BY <1>7, <2>1, PlaceRecv DEF Recv, database, tick, wire
<1>8. CASE Publish
  <2>1. cmd \in Cmd
    BY <1>8, Zenon DEF Publish, TypeOK
  <2>2. ASSUME cmd.kind = "core" PROVE cmd.event \in 1..seq
    <3>1. cmd.event \in 1..MaxSeq /\ cmd = Event(cmd.event)
      BY <2>1, <2>2, CmdFacts, Zenon
    <3>. QED
      BY <3>1, EventDrawn, Zenon DEF BridgeInv
  <2>. QED
    BY <1>8, <2>1, <2>2, PlacePublish DEF Publish, database, tick
<1>9. CASE PublishFails
  BY <1>9, PlacePublishFails, Zenon DEF PublishFails, database, tick, wire
<1>10. CASE Crash \/ Exit
  BY <1>10, PlaceEnds, Zenon DEF Crash, Exit
<1>11. StartTick \/ EndTick \/ Connect \/ BrokerChanges
         \/ Sigterm \/ Restart \/ Install \/ SqlSeal => Unmoved
  BY Zenon DEF StartTick, EndTick, Connect, BrokerChanges, Sigterm,
     Restart, Install, SqlSeal, tick, thread, wire, database
<1>12. ASSUME NEW n \in open, SqlRollback(n) PROVE Unmoved
  BY <1>12, Zenon DEF SqlRollback, tick, thread, wire
<1>13. ASSUME NEW r \in Requests, Ask(r) \/ Enqueue(r) \/ Unheard(r)
       PROVE  Unmoved
  BY <1>13, Zenon DEF Ask, Enqueue, Unheard, tick, thread, wire, database
<1>14. UNCHANGED vars => Unmoved
  BY Zenon DEF vars, tick, thread, wire, database
<1>. HIDE DEF Unmoved
<1> QED
  BY <1>0, <1>1, <1>2, <1>3, <1>4, <1>5, <1>6, <1>7, <1>8, <1>9, <1>10,
     <1>11, <1>12, <1>13, <1>14, ZenonT(60)
  DEF Next, Worker, Client

(* Every step keeps the types.                                             *)
LEMMA TypeStep ==
  ASSUME BridgeInv, [Next]_vars
  PROVE  TypeOK'
<1>. TypeOK
  BY ZenonT(60) DEF BridgeInv
<1>1. CASE UNCHANGED vars
  BY <1>1, SMTT(30) DEF vars, database, tick, thread, wire, TypeOK
<1> QED
  BY <1>1, TypeDatabase, TypeTick, TypeThread DEF Next, Worker, Client

(* The empty bridge satisfies the invariant.                               *)
LEMMA BridgeInit == Init => BridgeInv
<1>. SUFFICES ASSUME Init PROVE BridgeInv
  OBVIOUS
<1>1. TypeOK
  <2>1. Cardinality({}) = 0
    BY FS_EmptySet, Zenon
  <2>2. broker \in BOOLEAN
    BY Zenon DEF Init
  <2>3. <<>> \in Seq(Requests) /\ <<>> \in Seq(Cmd) /\ <<>> \in Seq(1..seq)
        /\ Len(<<>>) = 0
    OBVIOUS
  <2>4. 0 \in 0..MaxSeq /\ 0 <= BatchMax /\ 0 <= QueueMax /\ 0 <= ChannelMax
    BY BoundsAssumption
  <2>. QED
    BY <2>1, <2>2, <2>3, <2>4, ZenonT(60) DEF Init, TypeOK
<1>2. SealsDistinct /\ BatchInDrain
  BY ZenonT(60) DEF Init, SealsDistinct, BatchInDrain
<1>3. ResultsBacked
  BY CmdFacts, SMTT(60) DEF Init, ResultsBacked, ResultBacked, ResultsTruthful
<1>4. ASSUME NEW e \in 1..MaxSeq PROVE OnePlace(e) /\ JsBehind(e)
  BY CmdFacts, NoneAssumption DEF Init, OnePlace, JsBehind, Past, Has, Once
<1> QED
  BY <1>1, <1>2, <1>3, <1>4, Zenon DEF BridgeInv

(* The invariant holds in every reachable state.                           *)
LEMMA BridgeInvariant == Spec => []BridgeInv
<1>1. BridgeInv /\ [Next]_vars => BridgeInv'
  <2>. SUFFICES ASSUME BridgeInv, [Next]_vars
                PROVE  BridgeInv'
    OBVIOUS
  <2>1. TypeOK'
    BY TypeStep, Zenon
  <2>2. SealsDistinct' /\ BatchInDrain' /\ ResultsBacked'
    BY SealsStep, BatchStep, ResultsStep
  <2>3. \A e \in 1..MaxSeq : OnePlace(e)' /\ JsBehind(e)'
    BY PlacesStep, Zenon
  <2>. QED
    BY <2>1, <2>2, <2>3 DEF BridgeInv
<1> QED
  BY <1>1, BridgeInit, PTL DEF Spec

-----------------------------------------------------------------------------
(* Theorems *)

(* An element that occurs at most once is counted as one or none.          *)
LEMMA CountOnce ==
  ASSUME NEW s, NEW x, Once(s, x)
  PROVE  Cardinality({i \in DOMAIN s : s[i] = x}) = IF Has(s, x) THEN 1 ELSE 0
<1>. DEFINE I == {i \in DOMAIN s : s[i] = x}
<1>1. CASE Has(s, x)
  <2>1. PICK i \in DOMAIN s : s[i] = x
    BY <1>1, Zenon DEF Has
  <2>2. I = {i}
    BY <2>1, Zenon DEF Once
  <2>3. Cardinality(I) = 1
    BY <2>2, FS_Singleton
  <2>. QED
    BY <1>1, <2>3, Zenon
<1>2. CASE ~Has(s, x)
  <2>1. I = {}
    BY <1>2, Zenon DEF Has
  <2>2. Cardinality(I) = 0
    BY <2>1, FS_EmptySet, Zenon
  <2>. QED
    BY <1>2, <2>2, Zenon
<1> QED
  BY <1>1, <1>2, Zenon

(* The queues of the bridge keep their bounds, for any bounds: the inbound *)
(* queue drops, the channel blocks, and a drain takes no more rows than    *)
(* its LIMIT.                                                              *)
THEOREM BoundsKept == Spec => []TypeOK
BY BridgeInvariant, PTL DEF BridgeInv

(* Every committed seal's event is in exactly one place, through any       *)
(* interleaving of seals, drains, crashes, stops, outages and failures:    *)
(* none is published twice, dropped silently, or published uncommitted.    *)
THEOREM EveryEventAccounted == Spec => []EventsAccounted
<1>1. BridgeInv => EventsAccounted
  <2>. SUFFICES ASSUME BridgeInv, NEW e \in 1..seq
                PROVE  (IF e \in outbox THEN 1 ELSE 0)
                         + (IF e \in batch THEN 1 ELSE 0)
                         + Waiting(Event(e)) + Delivered(e)
                         + (IF Event(e) \in lost THEN 1 ELSE 0)
                       = Cardinality({l \in ledger : l.seq = e})
    BY ZenonT(60) DEF EventsAccounted
  <2>1. e \in 1..MaxSeq
    BY BoundsAssumption, SMTT(30) DEF BridgeInv, TypeOK
  <2>2. OnePlace(e)
    BY <2>1, Zenon DEF BridgeInv
  <2>3. Waiting(Event(e)) = (IF Has(channel, Event(e)) THEN 1 ELSE 0)
                              + (IF cmd = Event(e) THEN 1 ELSE 0)
    BY <2>2, CountOnce, Zenon DEF Waiting, OnePlace
  <2>4. Delivered(e) = IF Has(core, e) THEN 1 ELSE 0
    BY <2>2, CountOnce, Zenon DEF Delivered, OnePlace
  <2>5. Cardinality({l \in ledger : l.seq = e})
          = IF \E l \in ledger : l.seq = e THEN 1 ELSE 0
    <3>1. CASE \E l \in ledger : l.seq = e
      <4>1. PICK l \in ledger : l.seq = e
        BY <3>1, Zenon
      <4>2. {m \in ledger : m.seq = e} = {l}
        BY <4>1, Zenon DEF BridgeInv, SealsDistinct
      <4>. QED
        BY <3>1, <4>2, FS_Singleton, Zenon
    <3>2. CASE ~\E l \in ledger : l.seq = e
      <4>1. {m \in ledger : m.seq = e} = {}
        BY <3>2, Zenon
      <4>. QED
        BY <3>2, <4>1, FS_EmptySet
    <3>. QED
      BY <3>1, <3>2, Zenon
  <2>. QED
    BY <2>2, <2>3, <2>4, <2>5 DEF OnePlace
<1> QED
  BY <1>1, BridgeInvariant, PTL

(* drain_and_dispatch sends its reply after the transaction: a positive    *)
(* result that reaches a participant reports a committed seal.             *)
THEOREM ResultsReportSeals == Spec => []ResultsTruthful
BY BridgeInvariant, PTL DEF BridgeInv, ResultsBacked

(* publish_drain sends each row first to NATS Core and then to JetStream,  *)
(* through one channel: the stream never runs ahead of Core.               *)
THEOREM StreamBehindCore == Spec => []StreamFollowsCore
<1>1. BridgeInv => StreamFollowsCore
  <2>. SUFFICES ASSUME BridgeInv, NEW e \in js
                PROVE  Delivered(e) = 1 \/ Event(e) \in lost
    BY Zenon DEF StreamFollowsCore
  <2>1. e \in 1..MaxSeq
    <3>1. e \in 1..seq /\ seq \in 0..MaxSeq
      BY Zenon DEF BridgeInv, TypeOK
    <3>. QED
      BY <3>1, BoundsAssumption
  <2>2. OnePlace(e) /\ Past(e)
    BY <2>1, Zenon DEF BridgeInv, JsBehind
  <2>. QED
    BY <2>2, CountOnce, Zenon DEF Delivered, OnePlace, Past
<1> QED
  BY <1>1, BridgeInvariant, PTL

-----------------------------------------------------------------------------
(* The relay of events *)

(* An event is in the line when the channel or the thread has it, and one  *)
(* that is in its one place waits there once.                              *)
LEMMA LineIs ==
  ASSUME NEW e \in 1..MaxSeq
  PROVE  e \in Line <=> Has(channel, Event(e)) \/ cmd = Event(e)
<1>1. Event(e) # None
  BY CmdFacts
<1> QED
  BY <1>1, Zenon DEF Line, Commands, Has

SamePairs(S, A, B) == \A d, e \in S : <<d, e>> \in A <=> <<d, e>> \in B

(* Sets of pairs are equal when they hold the same pairs.                  *)
LEMMA PairsEqual ==
  ASSUME NEW S, NEW A \in SUBSET (S \X S), NEW B \in SUBSET (S \X S),
         SamePairs(S, A, B)
  PROVE  A = B
BY DEF SamePairs

(* The order of the line, pair by pair.                                    *)
LEMMA OrderIs ==
  /\ InOrder \subseteq (1..MaxSeq) \X (1..MaxSeq)
  /\ \A d, e \in 1..MaxSeq :
       <<d, e>> \in InOrder <=> d \in Line /\ e \in Line /\ Ahead(d, e)
<1>1. Line \subseteq 1..MaxSeq
  BY Zenon DEF Line
<1>2. ASSUME NEW d, NEW e
      PROVE  <<d, e>> \in InOrder <=> d \in Line /\ e \in Line /\ Ahead(d, e)
  BY Zenon DEF InOrder
<1>3. InOrder \subseteq Line \X Line
  BY Zenon DEF InOrder
<1> QED
  BY <1>1, <1>2, <1>3, Zenon

(* A step that leaves the waiting events and their order alone.            *)
LEMMA SameLine ==
  ASSUME \A d \in 1..MaxSeq : d \in Line' <=> d \in Line,
         \A d, e \in Line : Ahead(d, e)' <=> Ahead(d, e)
  PROVE  Line' = Line /\ InOrder' = InOrder
<1>1. Line' = Line
  BY Zenon DEF Line
<1> QED
  BY <1>1, Zenon DEF InOrder

(* While channel and thread rest, so does the line.                        *)
LEMMA LineRests ==
  ASSUME UNCHANGED <<channel, cmd>>
  PROVE  Line' = Line /\ InOrder' = InOrder
<1>1. Commands' = Commands
  BY Zenon DEF Commands
<1>2. \A d \in 1..MaxSeq : d \in Line' <=> d \in Line
  BY <1>1, Zenon DEF Line
<1>3. \A d, e \in Line : Ahead(d, e)' <=> Ahead(d, e)
  BY Zenon DEF Ahead
<1> QED
  BY <1>2, <1>3, SameLine, Zenon

(* What other parts of the system do leaves the relay alone.               *)
LEMMA RelayRests ==
  ASSUME UNCHANGED <<outbox, batch, channel, cmd, core, lost>>
  PROVE  UNCHANGED Relay!vars
BY LineRests, Zenon DEF Relay!vars, Dropped

(* A seal that commits stores its event, which is new.                     *)
LEMMA RelayCommit ==
  ASSUME NEW n \in 1..MaxSeq, OnePlace(n), \A l \in ledger : l.seq # n,
         outbox' = outbox \cup {n},
         UNCHANGED <<batch, channel, cmd, core, lost>>
  PROVE  Relay!Commit(n)
<1>1. UNCHANGED <<Line, InOrder, Dropped>>
  BY LineRests, Zenon DEF Dropped
<1>2. /\ n \notin outbox /\ n \notin batch /\ n \notin Line /\ n \notin Dropped
      /\ ~Has(core, n)
  BY LineIs, Zenon DEF OnePlace, Dropped
<1>3. n \notin Relay!Seen
  BY <1>2, Zenon DEF Relay!Seen, Has
<1> QED
  BY <1>1, <1>3, Zenon DEF Relay!Commit

(* A result or an event for the stream joins the channel behind the line.  *)
LEMMA RelaySendOther ==
  ASSUME TypeOK, NEW c \in Cmd, c.kind # "core",
         channel' = Append(channel, c),
         UNCHANGED <<outbox, batch, cmd, core, lost>>
  PROVE  UNCHANGED Relay!vars
<1>1. \A e \in 1..MaxSeq : Event(e) # c
  BY CmdFacts
<1>2. \A e \in 1..MaxSeq : Has(channel, Event(e))' <=> Has(channel, Event(e))
  <2>. SUFFICES ASSUME NEW e \in 1..MaxSeq
                PROVE  Has(Append(channel, c), Event(e)) <=> Has(channel, Event(e))
    BY Zenon DEF Has
  <2>1. channel \in Seq(Cmd)
    BY Zenon DEF TypeOK
  <2>. QED
    BY <1>1, <2>1, HasAppend, Zenon
<1>3. \A e \in 1..MaxSeq : e \in Line' <=> e \in Line
  <2>. SUFFICES ASSUME NEW e \in 1..MaxSeq PROVE e \in Line' <=> e \in Line
    OBVIOUS
  <2>1. e \in Line' <=> Has(channel, Event(e))' \/ cmd' = Event(e)
    BY CmdFacts, SMTT(60) DEF Line, Commands, Has
  <2>. QED
    BY <1>2, <2>1, LineIs, Zenon
<1>4. \A d, e \in Line : Ahead(d, e)' <=> Ahead(d, e)
  <2>. SUFFICES ASSUME NEW d \in Line, NEW e \in Line
                PROVE  Ahead(d, e)' <=> Ahead(d, e)
    BY Zenon
  <2>1. d \in 1..MaxSeq /\ e \in 1..MaxSeq
    BY ZenonT(60) DEF Line
  <2>2. /\ DOMAIN channel = 1..Len(channel) /\ Len(channel) \in Nat
        /\ DOMAIN channel' = 1..(Len(channel) + 1)
        /\ \A i \in 1..Len(channel) : channel'[i] = channel[i]
        /\ channel'[Len(channel) + 1] = c
    BY SMTT(30) DEF TypeOK
  <2>3. Event(d) # c /\ Event(e) # c
    BY <1>1, <2>1, Zenon
  <2>. QED
    BY <2>2, <2>3, SMTT(30) DEF Ahead
<1>5. UNCHANGED <<Line, InOrder>>
  BY <1>3, <1>4, SameLine, Zenon
<1> QED
  BY <1>5, Zenon DEF Relay!vars, Dropped

(* Membership of the line after a step.                                    *)
LEMMA LineWillBe ==
  ASSUME NEW e \in 1..MaxSeq
  PROVE  e \in Line' <=> Has(channel', Event(e)) \/ cmd' = Event(e)
<1>1. Event(e) # None
  BY CmdFacts
<1> QED
  BY <1>1, Zenon DEF Line, Commands, Has

(* The order of the line after a step.                                     *)
LEMMA OrderWillBe ==
  /\ InOrder' \subseteq (1..MaxSeq) \X (1..MaxSeq)
  /\ \A d, e \in 1..MaxSeq :
       <<d, e>> \in InOrder' <=> d \in Line' /\ e \in Line' /\ Ahead(d, e)'
<1>1. Line' \subseteq 1..MaxSeq
  BY Zenon DEF Line
<1>2. ASSUME NEW d, NEW e
      PROVE  <<d, e>> \in InOrder' <=> d \in Line' /\ e \in Line' /\ Ahead(d, e)'
  BY Zenon DEF InOrder
<1>3. InOrder' \subseteq Line' \X Line'
  BY Zenon DEF InOrder
<1> QED
  BY <1>1, <1>2, <1>3, Zenon

(* SendCore lines its event up behind those that wait.                     *)
LEMMA RelaySendCore ==
  ASSUME TypeOK, NEW x \in 1..MaxSeq, x \in batch, OnePlace(x),
         channel' = Append(channel, Event(x)), batch' = batch \ {x},
         UNCHANGED <<outbox, cmd, core, lost>>
  PROVE  Relay!LineUp(x)
<1>1. /\ channel \in Seq(Cmd) /\ Event(x) \in Cmd
      /\ ~Has(channel, Event(x)) /\ cmd # Event(x)
  BY CmdFacts, ZenonT(60) DEF OnePlace, TypeOK
<1>2. /\ DOMAIN channel = 1..Len(channel) /\ Len(channel) \in Nat
      /\ DOMAIN channel' = 1..(Len(channel) + 1)
      /\ \A i \in 1..Len(channel) : channel'[i] = channel[i]
      /\ channel'[Len(channel) + 1] = Event(x)
  BY <1>1
<1>3. \A d, e \in 1..MaxSeq : Event(d) = Event(e) => d = e
  BY CmdFacts
<1>4. \A d \in 1..MaxSeq : d \in Line' <=> d \in Line \/ d = x
  <2>. SUFFICES ASSUME NEW d \in 1..MaxSeq
                PROVE  d \in Line' <=> d \in Line \/ d = x
    OBVIOUS
  <2>1. Has(Append(channel, Event(x)), Event(d)) <=>
          Has(channel, Event(d)) \/ Event(d) = Event(x)
    BY <1>1, HasAppend, Zenon
  <2>. QED
    BY <1>3, <2>1, LineIs, LineWillBe, ZenonT(60)
<1>5. Line' = Line \cup {x}
  BY <1>4, Zenon DEF Line
<1>6. x \notin Line
  BY <1>1, LineIs, Zenon
<1>7. ASSUME NEW d \in 1..MaxSeq, NEW e \in 1..MaxSeq, d \in Line', e \in Line'
      PROVE  Ahead(d, e)' <=> d \in Line /\ (e = x \/ (e \in Line /\ Ahead(d, e)))
  <2>1. CASE d = x
    <3>1. ~Ahead(d, e)'
      BY <1>1, <1>2, <2>1 DEF Ahead, Has
    <3>. QED
      BY <1>6, <2>1, <3>1, ZenonT(60)
  <2>2. CASE d # x /\ e = x
    <3>1. Has(channel, Event(d)) \/ cmd = Event(d)
      BY <1>4, <1>7, <2>2, LineIs, ZenonT(60)
    <3>2. Ahead(d, e)'
      BY <1>2, <2>2, <3>1 DEF Ahead, Has
    <3>. QED
      BY <1>4, <1>7, <2>2, <3>2, ZenonT(60)
  <2>3. CASE d # x /\ e # x
    <3>1. Event(d) # Event(x) /\ Event(e) # Event(x)
      BY <1>3, <2>3, ZenonT(60)
    <3>2. Ahead(d, e)' <=> Ahead(d, e)
      BY <1>2, <3>1, SMTT(30) DEF Ahead
    <3>. QED
      BY <1>4, <1>7, <2>3, <3>2, ZenonT(60)
  <2>. QED
    BY <2>1, <2>2, <2>3, Zenon
<1>8. InOrder' = InOrder \cup {<<d, x>> : d \in Line}
  <2>. DEFINE B == InOrder \cup {<<d, x>> : d \in Line}
  <2>1. B \subseteq (1..MaxSeq) \X (1..MaxSeq)
    <3>1. Line \subseteq 1..MaxSeq
      BY Zenon DEF Line
    <3>. QED
      BY <3>1, OrderIs
  <2>2. ASSUME NEW d \in 1..MaxSeq, NEW e \in 1..MaxSeq
        PROVE  <<d, e>> \in InOrder' <=> <<d, e>> \in B
    <3>1. <<d, e>> \in {<<c, x>> : c \in Line} <=> d \in Line /\ e = x
      BY Zenon
    <3>. QED
      BY <1>4, <1>7, <3>1, OrderIs, OrderWillBe, ZenonT(60)
  <2>. HIDE DEF B
  <2>3. InOrder' = B
    <3>1. InOrder' \in SUBSET ((1..MaxSeq) \X (1..MaxSeq))
      BY OrderWillBe, Zenon
    <3>2. B \in SUBSET ((1..MaxSeq) \X (1..MaxSeq))
      BY <2>1, Zenon
    <3>3. SamePairs(1..MaxSeq, InOrder', B)
      BY <2>2, Zenon DEF SamePairs
    <3>. QED
      BY <3>1, <3>2, <3>3, PairsEqual, ZenonT(60)
  <2>. QED
    BY <2>3, Zenon DEF B
<1> QED
  BY <1>5, <1>8, Zenon DEF Relay!LineUp, Dropped

(* Receiving moves the first of the line from the channel to the thread.   *)
LEMMA RelayRecv ==
  ASSUME TypeOK, \A e \in 1..MaxSeq : OnePlace(e), channel # <<>>,
         cmd = None, cmd' = Head(channel), channel' = Tail(channel),
         UNCHANGED <<outbox, batch, core, lost>>
  PROVE  UNCHANGED Relay!vars
<1>1. channel \in Seq(Cmd) /\ \A e \in 1..MaxSeq : cmd # Event(e)
  BY CmdFacts DEF TypeOK
<1>2. /\ DOMAIN channel = 1..Len(channel) /\ Len(channel) \in Nat \ {0}
      /\ DOMAIN channel' = 1..(Len(channel) - 1)
      /\ \A i \in 1..(Len(channel) - 1) : channel'[i] = channel[i + 1]
      /\ cmd' = channel[1]
  BY <1>1
<1>3. \A d \in 1..MaxSeq : d \in Line' <=> d \in Line
  <2>. SUFFICES ASSUME NEW d \in 1..MaxSeq PROVE d \in Line' <=> d \in Line
    OBVIOUS
  <2>1. Has(channel, Event(d)) <=>
          Has(Tail(channel), Event(d)) \/ Event(d) = Head(channel)
    BY <1>1, HasTail, Zenon
  <2>. QED
    BY <1>1, <2>1, LineIs, LineWillBe, ZenonT(60)
<1>4. ASSUME NEW d \in Line, NEW e \in Line
      PROVE  Ahead(d, e)' <=> Ahead(d, e)
  <2>1. /\ d \in 1..MaxSeq /\ e \in 1..MaxSeq
        /\ d # e => Event(d) # Event(e)
    BY CmdFacts DEF Line
  <2>2. Has(channel, Event(e)) /\ Once(channel, Event(d)) /\ cmd # Event(d)
    BY <1>1, <2>1, LineIs, Zenon DEF OnePlace
  <2>3. ASSUME Ahead(d, e) PROVE Ahead(d, e)'
    <3>1. PICK i, j \in DOMAIN channel :
            i < j /\ channel[i] = Event(d) /\ channel[j] = Event(e)
      BY <2>2, <2>3, ZenonT(60) DEF Ahead
    <3>2. d # e
      BY <1>2, <2>2, <3>1 DEF Once
    <3>3. CASE i = 1
      BY <1>2, <3>1, <3>2, <3>3, ZenonT(60) DEF Ahead
    <3>4. CASE i # 1
      <4>1. /\ i - 1 \in DOMAIN channel' /\ j - 1 \in DOMAIN channel'
            /\ i - 1 < j - 1 /\ channel'[i - 1] = Event(d)
            /\ channel'[j - 1] = Event(e)
        BY <1>2, <3>1, <3>4
      <4>. QED
        BY <4>1, ZenonT(60) DEF Ahead
    <3>. QED
      BY <3>3, <3>4, Zenon
  <2>4. ASSUME Ahead(d, e)' PROVE Ahead(d, e)
    <3>1. CASE cmd' = Event(d) /\ d # e
      <4>1. PICK j \in DOMAIN channel : channel[j] = Event(e)
        BY <2>2, Zenon DEF Has
      <4>2. j # 1
        BY <1>2, <2>1, <3>1, <4>1, ZenonT(60)
      <4>3. 1 \in DOMAIN channel /\ 1 < j
        BY <1>2, <4>2
      <4>. QED
        BY <1>2, <3>1, <4>1, <4>3, ZenonT(60) DEF Ahead
    <3>2. CASE \E i, j \in DOMAIN channel' :
                 i < j /\ channel'[i] = Event(d) /\ channel'[j] = Event(e)
      <4>1. PICK i, j \in DOMAIN channel' :
              i < j /\ channel'[i] = Event(d) /\ channel'[j] = Event(e)
        BY <3>2, Zenon
      <4>2. /\ i + 1 \in DOMAIN channel /\ j + 1 \in DOMAIN channel
            /\ i + 1 < j + 1 /\ channel[i + 1] = Event(d)
            /\ channel[j + 1] = Event(e)
        BY <1>2, <4>1
      <4>. QED
        BY <4>2, Zenon DEF Ahead
    <3>. QED
      BY <2>4, <3>1, <3>2, Zenon DEF Ahead
  <2>. QED
    BY <2>3, <2>4, ZenonT(60)
<1>5. UNCHANGED <<Line, InOrder>>
  BY <1>3, <1>4, SameLine, Zenon
<1> QED
  BY <1>5, ZenonT(60) DEF Relay!vars, Dropped

(* The event with the thread is the first of the line, and done with it    *)
(* the thread has none.                                                    *)
LEMMA RelayLeave ==
  ASSUME NEW x \in 1..MaxSeq, OnePlace(x), cmd = Event(x), cmd' = None,
         UNCHANGED <<outbox, batch, channel>>
  PROVE  x \in Line /\ Relay!Leave(x)
<1>1. /\ ~Has(channel, Event(x))
      /\ \A d, e \in 1..MaxSeq : Event(d) = Event(e) => d = e
      /\ \A d \in 1..MaxSeq : cmd' # Event(d)
  BY CmdFacts DEF OnePlace
<1>2. x \in Line
  BY LineIs, Zenon
<1>3. \A d \in 1..MaxSeq : d \in Line' <=> d \in Line /\ d # x
  <2>. SUFFICES ASSUME NEW d \in 1..MaxSeq
                PROVE  d \in Line' <=> d \in Line /\ d # x
    OBVIOUS
  <2>. QED
    BY <1>1, LineIs, LineWillBe, Zenon DEF Has
<1>4. Line' = Line \ {x}
  BY <1>3, Zenon DEF Line
<1>5. \A d \in Line : <<d, x>> \notin InOrder
  <2>. SUFFICES ASSUME NEW d \in Line PROVE ~Ahead(d, x)
    BY OrderIs, Zenon DEF Line
  <2>1. d \in 1..MaxSeq
    BY Zenon DEF Line
  <2>. QED
    BY <1>1, <2>1, Zenon DEF Ahead, Has
<1>6. ASSUME NEW d \in 1..MaxSeq, NEW e \in 1..MaxSeq, d # x
      PROVE  Ahead(d, e)' <=> Ahead(d, e)
  BY <1>1, <1>6, Zenon DEF Ahead
<1>7. InOrder' = {p \in InOrder : p[1] # x /\ p[2] # x}
  <2>. DEFINE B == {p \in InOrder : p[1] # x /\ p[2] # x}
  <2>1. /\ B \in SUBSET ((1..MaxSeq) \X (1..MaxSeq))
        /\ InOrder' \in SUBSET ((1..MaxSeq) \X (1..MaxSeq))
    BY OrderIs, OrderWillBe, Zenon
  <2>2. ASSUME NEW d \in 1..MaxSeq, NEW e \in 1..MaxSeq
        PROVE  <<d, e>> \in InOrder' <=> <<d, e>> \in B
    <3>1. <<d, e>> \in B <=> <<d, e>> \in InOrder /\ d # x /\ e # x
      BY Zenon
    <3>. QED
      BY <1>3, <1>6, <3>1, OrderIs, OrderWillBe, ZenonT(60)
  <2>. HIDE DEF B
  <2>3. SamePairs(1..MaxSeq, InOrder', B)
    BY <2>2, Zenon DEF SamePairs
  <2>4. InOrder' = B
    BY <2>1, <2>3, PairsEqual, Zenon
  <2>. QED
    BY <2>4, Zenon DEF B
<1> QED
  BY <1>2, <1>4, <1>5, <1>7, ZenonT(60) DEF Relay!Leave

(* A command that is no event passes the thread beside the line.           *)
LEMMA LineKept ==
  ASSUME cmd \in Cmd, cmd.kind # "core", cmd' = None, channel' = channel
  PROVE  Line' = Line /\ InOrder' = InOrder
<1>1. \A e \in 1..MaxSeq : Event(e) # cmd /\ Event(e) # cmd'
  BY CmdFacts
<1>2. \A d \in 1..MaxSeq : d \in Line' <=> d \in Line
  BY <1>1, LineIs, LineWillBe, Zenon
<1>3. \A d, e \in Line : Ahead(d, e)' <=> Ahead(d, e)
  <2>1. Line \subseteq 1..MaxSeq
    BY Zenon DEF Line
  <2>. QED
    BY <1>1, <2>1, Zenon DEF Ahead
<1> QED
  BY <1>2, <1>3, SameLine, ZenonT(60)

(* The end of a process forgets the batch and the line, and nothing else.  *)
LEMMA RelayEnds ==
  ASSUME TypeOK, ProcessEnds
  PROVE  Relay!Forget
<1>1. /\ lost' = lost \cup Held /\ batch' = {}
      /\ channel' = <<>> /\ cmd' = None /\ UNCHANGED <<outbox, core>>
  BY Zenon DEF ProcessEnds, database, wire
<1>2. ASSUME NEW e \in 1..MaxSeq
      PROVE  Event(e) \in Held <=> e \in batch \/ e \in Line
  <2>1. Event(e) \in Commands <=> e \in Line
    BY Zenon DEF Line
  <2>2. Event(e) \in {Event(x) : x \in batch} <=> e \in batch
    BY Zenon DEF Event
  <2>3. \A x : Event(e) # JsEvent(x)
    BY ZenonT(60) DEF Event, JsEvent
  <2>4. reply # None => reply # Event(e)
    BY CmdFacts, SMTT(30) DEF TypeOK
  <2>. QED
    BY <2>1, <2>2, <2>3, <2>4, ZenonT(60) DEF Held
<1>3. batch \subseteq 1..MaxSeq /\ Line \subseteq 1..MaxSeq
  <2>1. 1..seq \subseteq 1..MaxSeq
    BY BoundsAssumption, SMTT(30) DEF TypeOK
  <2>. QED
    BY <2>1, ZenonT(60) DEF TypeOK, Line
<1>4. Dropped' = Dropped \cup batch \cup Line
  BY <1>1, <1>2, <1>3, Zenon DEF Dropped
<1>5. Line' = {} /\ InOrder' = {}
  <2>1. \A e \in 1..MaxSeq : e \notin Line'
    <3>. SUFFICES ASSUME NEW e \in 1..MaxSeq PROVE e \notin Line'
      OBVIOUS
    <3>1. ~Has(channel', Event(e)) /\ cmd' # Event(e)
      BY <1>1, CmdFacts DEF Has
    <3>. QED
      BY <3>1, LineWillBe, Zenon
  <2>2. Line' = {}
    BY <2>1, Zenon DEF Line
  <2>. QED
    BY <2>2, Zenon DEF InOrder
<1> QED
  BY <1>1, <1>4, <1>5, Zenon DEF Relay!Forget

(* Every step of the bridge is a step of the relay, or none.               *)
LEMMA RelayStep ==
  ASSUME BridgeInv, [Next]_vars
  PROVE  [Relay!Next]_(Relay!vars)
<1>. TypeOK /\ SealsDistinct /\ BatchInDrain
     /\ \A e \in 1..MaxSeq : OnePlace(e)
  BY ZenonT(60) DEF BridgeInv
<1>. DEFINE Unmoved == UNCHANGED <<outbox, batch, channel, cmd, core, lost>>
            Relays == Relay!Next \/ UNCHANGED Relay!vars
<1>00. 1..seq \subseteq 1..MaxSeq /\ seq \in 0..MaxSeq
  BY BoundsAssumption, SMTT(60) DEF TypeOK
<1>01. batch \subseteq 1..MaxSeq /\ open \subseteq 1..MaxSeq
  BY <1>00, Zenon DEF TypeOK
<1>0. CASE Unmoved
  BY <1>0, RelayRests, Zenon
<1>1. ASSUME NEW n \in open, SqlCommit(n) PROVE Relays
  <2>1. Relay!Commit(n)
    BY <1>01, <1>1, RelayCommit, Zenon
    DEF SqlCommit, SealsDistinct, tick, thread, wire
  <2>. QED
    BY <1>01, <2>1, Zenon DEF Relay!Next
<1>2. ASSUME NEW ok \in BOOLEAN, Dispatch(ok) PROVE Relays
  <2>1. CASE ok
    <3>1. seq + 1 \in 1..MaxSeq /\ \A l \in ledger : l.seq # seq + 1
      <4>1. seq < MaxSeq /\ \A l \in ledger : l.seq \in 1..seq
        BY <1>2, <2>1, ZenonT(60) DEF Dispatch, TypeOK
      <4>. QED
        BY <1>00, <4>1, BoundsAssumption
    <3>2. /\ outbox' = outbox \cup {seq + 1}
          /\ UNCHANGED <<batch, channel, cmd, core, lost>>
      BY <1>2, <2>1, Zenon DEF Dispatch, thread, wire
    <3>3. Relay!Commit(seq + 1)
      BY <3>1, <3>2, RelayCommit, Zenon
    <3>. QED
      BY <3>1, <3>3, ZenonT(60) DEF Relay!Next
  <2>2. CASE ~ok
    BY <1>2, <2>2, RelayRests, Zenon DEF Dispatch, thread, wire
  <2>. QED
    BY <2>1, <2>2, Zenon
<1>3. CASE DeleteBatch
  <2>1. batch = {} /\ batch' \in SUBSET outbox /\ outbox' = outbox \ batch'
    BY <1>3, Zenon DEF DeleteBatch, BatchInDrain
  <2>2. UNCHANGED <<Line, InOrder, Dropped, core>>
    BY <1>3, LineRests, Zenon DEF DeleteBatch, Dropped, thread, wire
  <2>3. Relay!Take(batch')
    BY <2>1, <2>2, Zenon DEF Relay!Take
  <2>. QED
    BY <2>1, <2>3, Zenon DEF Relay!Next
<1>4. CASE SendReply
  <2>1. reply \in Cmd /\ reply.kind # "core"
    BY <1>4, Zenon DEF SendReply, TypeOK
  <2>. QED
    BY <1>4, <2>1, RelaySendOther, Zenon DEF SendReply, Send, database, wire
<1>5. CASE SendJs
  <2>1. row \in 1..MaxSeq
    BY <1>00, <1>5, ZenonT(60) DEF SendJs, TypeOK
  <2>2. JsEvent(row) \in Cmd /\ JsEvent(row).kind # "core"
    BY <2>1, CmdFacts
  <2>. QED
    BY <1>5, <2>2, RelaySendOther, ZenonT(60) DEF SendJs, Send, database, wire
<1>6. ASSUME NEW x \in batch, SendCore(x) PROVE Relays
  <2>1. Relay!LineUp(x)
    BY <1>01, <1>6, RelaySendCore, Zenon DEF SendCore, Send, database, wire
  <2>. QED
    BY <2>1, Zenon DEF Relay!Next
<1>7. CASE Recv
  <2>1. channel # <<>> /\ cmd = None
    BY <1>7, Zenon DEF Recv, TypeOK
  <2>. QED
    BY <1>7, <2>1, RelayRecv, ZenonT(60) DEF Recv, database, tick, wire
<1>8. CASE Publish \/ PublishFails
  <2>1. /\ cmd \in Cmd /\ cmd' = None
        /\ UNCHANGED <<outbox, batch, channel>>
    BY <1>8, Zenon DEF Publish, PublishFails, TypeOK, database, tick
  <2>2. CASE cmd.kind = "core"
    <3>1. cmd.event \in 1..MaxSeq /\ cmd = Event(cmd.event)
      BY <2>1, <2>2, CmdFacts, Zenon
    <3>2. cmd.event \in Line /\ Relay!Leave(cmd.event)
      BY <2>1, <3>1, RelayLeave, Zenon
    <3>3. CASE Publish
      <4>1. core' = Append(core, cmd.event) /\ Dropped' = Dropped
        BY <2>2, <3>3, Zenon DEF Publish, Dropped
      <4>2. Relay!Publish(cmd.event)
        BY <3>2, <4>1, Zenon DEF Relay!Publish
      <4>. QED
        BY <3>2, <4>2, Zenon DEF Relay!Next
    <3>4. CASE PublishFails
      <4>1. core' = core /\ lost' = lost \cup {cmd}
        BY <3>4, Zenon DEF PublishFails, wire
      <4>2. \A d \in 1..MaxSeq : Event(d) = cmd <=> d = cmd.event
        BY <3>1, CmdFacts
      <4>3. Dropped' = Dropped \cup {cmd.event}
        BY <3>1, <4>1, <4>2, Zenon DEF Dropped
      <4>4. Relay!Discard(cmd.event)
        BY <3>2, <4>1, <4>3, Zenon DEF Relay!Discard
      <4>. QED
        BY <3>2, <4>4, Zenon DEF Relay!Next
    <3>. QED
      BY <1>8, <3>3, <3>4, Zenon
  <2>3. CASE cmd.kind # "core"
    <3>1. UNCHANGED <<Line, InOrder>>
      BY <2>1, <2>3, LineKept, Zenon
    <3>2. core' = core
      BY <1>8, <2>3, Zenon DEF Publish, PublishFails, wire
    <3>3. lost' = lost \/ lost' = lost \cup {cmd}
      BY <1>8, Zenon DEF Publish, PublishFails
    <3>4. \A d \in 1..MaxSeq : Event(d) # cmd
      BY <2>3, CmdFacts
    <3>5. Dropped' = Dropped
      BY <3>3, <3>4, Zenon DEF Dropped
    <3>. QED
      BY <2>1, <3>1, <3>2, <3>5, ZenonT(60) DEF Relay!vars
  <2>. QED
    BY <2>2, <2>3, Zenon
<1>9. CASE Crash \/ Exit
  BY <1>9, RelayEnds, Zenon DEF Crash, Exit, Relay!Next
<1>11. StartTick \/ EndTick \/ Connect \/ BrokerChanges
         \/ Sigterm \/ Restart \/ Install \/ SqlSeal => Unmoved
  BY Zenon DEF StartTick, EndTick, Connect, BrokerChanges, Sigterm,
     Restart, Install, SqlSeal, tick, thread, wire, database
<1>12. ASSUME NEW n \in open, SqlRollback(n) PROVE Unmoved
  BY <1>12, Zenon DEF SqlRollback, tick, thread, wire
<1>13. ASSUME NEW r \in Requests, Ask(r) \/ Enqueue(r) \/ Unheard(r)
       PROVE  Unmoved
  BY <1>13, Zenon DEF Ask, Enqueue, Unheard, tick, thread, wire, database
<1>14. UNCHANGED vars => Unmoved
  BY Zenon DEF vars, tick, thread, wire, database
<1>. HIDE DEF Unmoved
<1> QED
  BY <1>0, <1>1, <1>2, <1>3, <1>4, <1>5, <1>6, <1>7, <1>8, <1>9,
     <1>11, <1>12, <1>13, <1>14, ZenonT(60)
  DEF Next, Worker, Client

(* The bridge relays events at most once, for any number of seals and any  *)
(* bounds: an event leaves the outbox only in a batch of the drain, leaves *)
(* the channel in the order in which it was sent, is published or dropped  *)
(* but never returns, and whatever fails, what is still in the outbox      *)
(* stays there.                                                            *)
THEOREM BridgeRelaysEvents == Spec => ImplementsRelay
<1>1. Init => Relay!Init
  <2>. SUFFICES ASSUME Init PROVE Relay!Init
    OBVIOUS
  <2>1. /\ outbox = {} /\ batch = {} /\ channel = <<>> /\ cmd = None
        /\ core = <<>> /\ lost = {}
    BY Zenon DEF Init
  <2>2. \A e \in 1..MaxSeq : e \notin Line
    BY <2>1, LineIs, CmdFacts DEF Has
  <2>3. Line = {}
    BY <2>2, Zenon DEF Line
  <2>4. InOrder = {} /\ Dropped = {}
    BY <2>1, <2>3, Zenon DEF InOrder, Dropped
  <2>. QED
    BY <2>1, <2>3, <2>4, Zenon DEF Relay!Init
<1> QED
  BY <1>1, BridgeInvariant, RelayStep, PTL
  DEF Spec, ImplementsRelay, Relay!Spec
=============================================================================
