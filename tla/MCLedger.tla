------------------------------ MODULE MCLedger ------------------------------
(* The ledger, instantiated for TLC. *)
EXTENDS LedgerChain, TLC

(* Ids and bodies are only compared; sessions only index their locals.     *)
Symmetry == Permutations(Ids) \cup Permutations(Bodies)
              \cup Permutations(Sessions)
=============================================================================
