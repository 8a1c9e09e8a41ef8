---------------------------- MODULE BridgeRelay ----------------------------
(* The bridge worker as a relay of events.                                 *)
EXTENDS Bridge

(* Events that wait in the channel or with the publish thread, and which   *)
(* of two of them it comes to first.                                       *)
Line == {e \in 1..MaxSeq : Event(e) \in Commands}

Ahead(d, e) ==
  \/ cmd = Event(d) /\ d # e
  \/ \E i, j \in DOMAIN channel :
       i < j /\ channel[i] = Event(d) /\ channel[j] = Event(e)

InOrder == {p \in Line \X Line : Ahead(p[1], p[2])}

Dropped == {e \in 1..MaxSeq : Event(e) \in lost}

Relay ==
  INSTANCE EventRelay
  WITH Events <- 1..MaxSeq, stored <- outbox, line <- Line, ahead <- InOrder,
       published <- core, dropped <- Dropped

(* Outbox, drain and publish thread relay events at most once: an event is *)
(* taken from the outbox only when its batch is, in batches one after the  *)
(* other, published in the order in which it was sent, and not at all      *)
(* after a crash (publish_drain.rs:20-60, nats_client.rs).                 *)
ImplementsRelay == Relay!Spec
=============================================================================
