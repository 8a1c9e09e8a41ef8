----------------------------- MODULE EventRelay -----------------------------
(***************************************************************************)
(* What the outbox and its worker promise about events, without processes, *)
(* transactions, channels and brokers.  An event is stored once, when its  *)
(* seal commits.  It stays stored until the worker takes it; from then on  *)
(* it is published once or dropped, and it never comes back.  Batches are  *)
(* taken one at a time, and what is lined up is published in that order.   *)
(***************************************************************************)
EXTENDS Naturals, Sequences

CONSTANT Events

VARIABLES
  stored,     \* committed, not yet taken
  batch,      \* taken, not yet lined up
  line,       \* lined up for the broker
  ahead,      \* the pairs of line whose first goes before the second
  published,  \* delivered, in order
  dropped     \* discarded by a fault

vars == <<stored, batch, line, ahead, published, dropped>>

Seen ==
  stored \cup batch \cup line \cup dropped
    \cup {published[i] : i \in DOMAIN published}

Init ==
  /\ stored = {} /\ batch = {} /\ line = {} /\ ahead = {}
  /\ published = <<>> /\ dropped = {}

(* A seal commits, and its event with it.                                  *)
Commit(e) ==
  /\ e \notin Seen
  /\ stored' = stored \cup {e}
  /\ UNCHANGED <<batch, line, ahead, published, dropped>>

(* A batch is taken when the one before is lined up.                       *)
Take(E) ==
  /\ batch = {}
  /\ batch' = E
  /\ stored' = stored \ E
  /\ UNCHANGED <<line, ahead, published, dropped>>

LineUp(e) ==
  /\ batch' = batch \ {e}
  /\ line' = line \cup {e}
  /\ ahead' = ahead \cup {<<d, e>> : d \in line}
  /\ UNCHANGED <<stored, published, dropped>>

(* The first of the line leaves it.                                        *)
Leave(e) ==
  /\ \A d \in line : <<d, e>> \notin ahead
  /\ line' = line \ {e}
  /\ ahead' = {p \in ahead : p[1] # e /\ p[2] # e}
  /\ UNCHANGED <<stored, batch>>

Publish(e) ==
  /\ Leave(e)
  /\ published' = Append(published, e)
  /\ UNCHANGED dropped

Discard(e) ==
  /\ Leave(e)
  /\ dropped' = dropped \cup {e}
  /\ UNCHANGED published

(* What has been taken is forgotten; what is stored is not.                *)
Forget ==
  /\ dropped' = dropped \cup batch \cup line
  /\ batch' = {} /\ line' = {} /\ ahead' = {}
  /\ UNCHANGED <<stored, published>>

Next ==
  \/ \E e \in Events : Commit(e)
  \/ \E E \in SUBSET stored : Take(E)
  \/ \E e \in batch : LineUp(e)
  \/ \E e \in line : Publish(e) \/ Discard(e)
  \/ Forget

Spec == Init /\ [][Next]_vars
=============================================================================
