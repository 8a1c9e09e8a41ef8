---------------------------- MODULE LedgerChain -----------------------------
(***************************************************************************)
(* The ledger refines AuditChain when one session seals: walking prev_seq  *)
(* back from the newest row yields the one history.                        *)
(***************************************************************************)
EXTENDS Ledger, Sequences

(* The histories that end in the rows of L, read by following prev_seq to  *)
(* genesis; no history ends in a number that is not a row's.               *)
WalkBack(L) ==
  LET W[n \in 0..MaxSeq] ==
        IF \E q \in L : q.seq = n
        THEN LET r == CHOOSE q \in L : q.seq = n
             IN Append(W[r.prev], [id |-> r.id, sha |-> r.sha])
        ELSE <<>>
  IN W

Chain == INSTANCE AuditChain
           WITH log <- WalkBack(ledger)[MaxSeqOf(ledger)], facts <- instances

(* With one sealing session every commit extends one linked history, and   *)
(* the stored bodies are the latest entries of that history.               *)
ImplementsAuditChain == Chain!Spec
=============================================================================
