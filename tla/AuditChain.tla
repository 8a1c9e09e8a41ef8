----------------------------- MODULE AuditChain -----------------------------
(***************************************************************************)
(* What the ledger promises, with no transaction, lock or sequence in it:  *)
(* one history that only ever grows at its end, several entries at a time, *)
(* and facts that are always the latest entries of that history.           *)
(***************************************************************************)
EXTENDS Naturals, Sequences

CONSTANTS Ids, None
VARIABLES facts, log

(* The last digest the history h holds for instance id.                    *)
LastOf(h, id) ==
  LET at == {k \in DOMAIN h : h[k].id = id}
  IN IF at = {} THEN None
     ELSE h[CHOOSE k \in at : \A m \in at : m <= k].sha

Current(h) == [id \in Ids |-> LastOf(h, id)]

Init == log = <<>> /\ facts = Current(log)

(* A commit: the old history is a proper prefix of the new one.            *)
Land ==
  /\ Len(log) < Len(log')
  /\ SubSeq(log', 1, Len(log)) = log
  /\ facts' = Current(log')

Spec == Init /\ [][Land]_<<facts, log>>
=============================================================================
