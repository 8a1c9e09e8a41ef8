------------------------------- MODULE Ledger -------------------------------
(***************************************************************************)
(* The write path of pgCK: ckp.seal, the ledger trigger and ckp.verify     *)
(* (sql/pgck-baseline.sql), run by several database sessions at once.      *)
(*                                                                         *)
(* A session calls ckp.seal one or more times in one READ COMMITTED        *)
(* transaction.  Every statement of seal sees the rows committed so far    *)
(* and the session's own; the statements that draw from a sequence or take *)
(* a row lock are separate steps, since other sessions run between them.   *)
(* Sessions work for different projects: the gate rebuilds one shapes      *)
(* graph per project, so nothing before the ledger orders their seals.     *)
(* A body stands for itself and for its SHA-256 digest (no collisions);    *)
(* the HMAC of a digest under the one configured key carries no more.      *)
(***************************************************************************)
EXTENDS Naturals, FiniteSets

CONSTANTS Sessions,   \* database sessions that may seal
          Verifiers,  \* sessions that run ckp.verify outside a seal
          Ids,        \* instance ids
          Bodies,     \* stamped bodies
          Evidence,   \* whether seals carry evidence rows: {TRUE, FALSE}
          None,       \* an absent row (SQL NULL)
          MaxSeq      \* bound: values drawn from ckp.ledger_seq_seq

ASSUME NoneAssumption == None \notin Bodies
ASSUME EvidenceAssumption == Evidence \subseteq BOOLEAN
ASSUME MaxSeqAssumption == MaxSeq \in Nat

VARIABLES instances,  \* ckp.instances: id -> body
          ledger,     \* ckp.ledger rows
          proof,      \* ckp.proof rows
          outbox,     \* ckp.outbox rows
          ledgerSeq,  \* last value of ckp.ledger_seq_seq
          proofSeq,   \* last value of ckp.proof's id sequence
          outboxSeq,  \* last value of ckp.outbox_seq_seq
          pc,         \* session -> the statement of seal it runs next
          arg,        \* session -> the id and body being sealed
          vPrev,      \* session -> v_prev
          newSeq,     \* session -> NEW.seq of the ledger trigger
          wrote,      \* session -> id -> body it upserted (row lock held)
          rows,       \* session -> its uncommitted ledger rows
          proofs,     \* session -> its uncommitted proof rows
          events,     \* session -> its uncommitted outbox rows
          check       \* verifier -> its ckp.verify call

tables == <<instances, ledger, proof, outbox>>
sequences == <<ledgerSeq, proofSeq, outboxSeq>>
locals == <<arg, vPrev, newSeq>>
own == <<wrote, rows, proofs, events>>
vars == <<tables, sequences, pc, locals, own, check>>

LedgerRow == [seq : Nat, id : Ids, sha : Bodies, prev : Nat]
ProofRow  == [pid : Nat, about : Ids, byteProof : BOOLEAN,
              digest : Bodies \cup {None}]
OutboxRow == [oseq : Nat, ledger_seq : Nat, id : Ids, payload : Bodies]

Phase == {"idle", "prev", "upsert", "ledger", "trigger", "proof", "sealed"}

Call == [id : Ids, body : Bodies] \cup {None}

Running == {"row", "proof", "prev"}

(* A ckp.verify call: its locals, and whether its instance was sealed      *)
(* again while it ran (a history variable, not a local of the function).   *)
Check == [pc : {"idle", "done"} \cup Running, id : Ids \cup {None},
          body : Bodies \cup {None}, row : LedgerRow \cup {None},
          digest : Bodies \cup {None}, verdict : BOOLEAN, overlap : BOOLEAN]

NoCheck == [pc |-> "idle", id |-> None, body |-> None, row |-> None,
            digest |-> None, verdict |-> FALSE, overlap |-> FALSE]

-----------------------------------------------------------------------------
(* Queries *)

(* SELECT max(seq): 0 stands for NULL, as in the ledger entry's ckp:prev.  *)
MaxSeqOf(R) ==
  CHOOSE n \in {0} \cup {r.seq : r \in R} : \A r \in R : r.seq <= n

(* What a statement of session s sees of the ledger.                       *)
Visible(s) == ledger \cup rows[s]

(* ORDER BY seq DESC LIMIT 1 over the ledger rows of one instance.         *)
IsLatestRow(r, R, id) ==
  /\ r \in R
  /\ r.id = id
  /\ \A q \in R : q.id = id => q.seq <= r.seq

(* Variant: the last proof row of any method, as before 0.4.66.            *)
IsLastProof(p, P, id) ==
  /\ p \in P
  /\ p.about = id
  /\ \A q \in P : q.about = id => q.pid <= p.pid

(* WHERE method = 'hmac+sha256' ORDER BY id DESC LIMIT 1: the byte-proof,  *)
(* picked by method among the obligation and evidence rows around it.      *)
IsByteProof(p, P, id) ==
  /\ p \in P
  /\ p.about = id
  /\ p.byteProof
  /\ \A q \in P : q.about = id /\ q.byteProof => q.pid <= p.pid

(* SELECT max(seq) WHERE seq < v_ledger_seq.                               *)
ExpectedPrev(R, n) == MaxSeqOf({r \in R : r.seq < n})

(* The conjunction ckp.verify returns.                                     *)
Attests(body, row, digest, expectedPrev) ==
  /\ row.prev = expectedPrev
  /\ body = row.sha
  /\ row.sha = digest

(* ckp.verify evaluated in one snapshot of the tables.                     *)
Verified(id) ==
  /\ instances[id] # None
  /\ \E r \in ledger, p \in proof :
       /\ IsLatestRow(r, ledger, id)
       /\ IsByteProof(p, proof, id)
       /\ Attests(instances[id], r, p.digest, ExpectedPrev(ledger, r.seq))

-----------------------------------------------------------------------------
Init ==
  /\ instances = [i \in Ids |-> None]
  /\ ledger = {} /\ proof = {} /\ outbox = {}
  /\ ledgerSeq = 0 /\ proofSeq = 0 /\ outboxSeq = 0
  /\ pc = [s \in Sessions |-> "idle"]
  /\ arg = [s \in Sessions |-> None]
  /\ vPrev = [s \in Sessions |-> 0]
  /\ newSeq = [s \in Sessions |-> 0]
  /\ wrote = [s \in Sessions |-> [i \in Ids |-> None]]
  /\ rows = [s \in Sessions |-> {}]
  /\ proofs = [s \in Sessions |-> {}]
  /\ events = [s \in Sessions |-> {}]
  /\ check = [v \in Verifiers |-> NoCheck]

At(s, here, next) == pc[s] = here /\ pc' = [pc EXCEPT ![s] = next]

(* ckp.seal up to the digest: identity, shape gate and obligations passed. *)
(* A refusal raises, which is Rollback.  A transaction may seal again.     *)
SealCall(s, id, body) ==
  /\ At(s, "idle", "prev") \/ At(s, "sealed", "prev")
  /\ arg' = [arg EXCEPT ![s] = [id |-> id, body |-> body]]
  /\ UNCHANGED <<tables, sequences, vPrev, newSeq, own, check>>

(* Variant: the predecessor is the sequence's last value, not a row.       *)
ReadLastValue(s) ==
  /\ At(s, "prev", "upsert")
  /\ vPrev' = [vPrev EXCEPT ![s] = ledgerSeq]
  /\ UNCHANGED <<tables, sequences, arg, newSeq, own, check>>

(* SELECT max(seq) INTO v_prev FROM ckp.ledger: no lock is taken.          *)
ReadPrev(s) ==
  /\ At(s, "prev", "upsert")
  /\ vPrev' = [vPrev EXCEPT ![s] = MaxSeqOf(Visible(s))]
  /\ UNCHANGED <<tables, sequences, arg, newSeq, own, check>>

(* Variant: the upsert does not wait for another writer of the row.        *)
UpsertNoWait(s) ==
  /\ At(s, "upsert", "ledger")
  /\ wrote' = [wrote EXCEPT ![s] = [@ EXCEPT ![arg[s].id] = arg[s].body]]
  /\ UNCHANGED <<tables, sequences, locals, rows, proofs, events, check>>

(* INSERT INTO ckp.instances ... ON CONFLICT DO UPDATE waits for the       *)
(* transaction that last wrote the same id, and then locks the row.        *)
Upsert(s) ==
  /\ At(s, "upsert", "ledger")
  /\ \A t \in Sessions \ {s} : wrote[t][arg[s].id] = None
  /\ wrote' = [wrote EXCEPT ![s] = [@ EXCEPT ![arg[s].id] = arg[s].body]]
  /\ UNCHANGED <<tables, sequences, locals, rows, proofs, events, check>>

(* INSERT INTO ckp.ledger: the sequence is drawn here and is not returned  *)
(* by a rollback.                                                          *)
InsertLedger(s) ==
  /\ At(s, "ledger", "trigger")
  /\ ledgerSeq < MaxSeq
  /\ ledgerSeq' = ledgerSeq + 1
  /\ newSeq' = [newSeq EXCEPT ![s] = ledgerSeq + 1]
  /\ rows' = [rows EXCEPT ![s] = @ \cup
       {[seq |-> ledgerSeq + 1, id |-> arg[s].id, sha |-> arg[s].body,
         prev |-> vPrev[s]]}]
  /\ UNCHANGED <<tables, proofSeq, outboxSeq, arg, vPrev, wrote, proofs,
                 events, check>>

(* Variant: the trigger reads the committed body where there is one.       *)
LedgerToOutboxStale(s) ==
  /\ At(s, "trigger", "proof")
  /\ outboxSeq' = outboxSeq + 1
  /\ events' = [events EXCEPT ![s] = @ \cup
       {[oseq |-> outboxSeq + 1, ledger_seq |-> newSeq[s], id |-> arg[s].id,
         payload |-> IF instances[arg[s].id] # None
                     THEN instances[arg[s].id] ELSE arg[s].body]}]
  /\ UNCHANGED <<tables, ledgerSeq, proofSeq, locals, wrote, rows, proofs,
                 check>>

(* ckp.ledger_to_outbox, AFTER INSERT on the ledger: the payload is the    *)
(* body the trigger reads back from ckp.instances.                         *)
LedgerToOutbox(s) ==
  /\ At(s, "trigger", "proof")
  /\ outboxSeq' = outboxSeq + 1
  /\ events' = [events EXCEPT ![s] = @ \cup
       {[oseq |-> outboxSeq + 1, ledger_seq |-> newSeq[s], id |-> arg[s].id,
         payload |-> wrote[s][arg[s].id]]}]
  /\ UNCHANGED <<tables, ledgerSeq, proofSeq, locals, wrote, rows, proofs,
                 check>>

(* INSERT INTO ckp.proof: the byte-proof, then, where the seal carries     *)
(* evidence (an obligation, token-residue or grant-ref), one more row of   *)
(* another method.  A token-residue row digests the residue and not the    *)
(* body: None stands for a digest that may differ.  seal then projects the *)
(* links, which only pgRDF holds, and returns.                             *)
InsertProof(s, evidence) ==
  /\ At(s, "proof", "sealed")
  /\ proofSeq' = IF evidence THEN proofSeq + 2 ELSE proofSeq + 1
  /\ proofs' = [proofs EXCEPT ![s] = @ \cup
       {[pid |-> proofSeq + 1, about |-> arg[s].id, byteProof |-> TRUE,
         digest |-> arg[s].body]} \cup
       IF evidence
       THEN {[pid |-> proofSeq + 2, about |-> arg[s].id,
              byteProof |-> FALSE, digest |-> None]}
       ELSE {}]
  /\ arg' = [arg EXCEPT ![s] = None]
  /\ vPrev' = [vPrev EXCEPT ![s] = 0]
  /\ newSeq' = [newSeq EXCEPT ![s] = 0]
  /\ UNCHANGED <<tables, ledgerSeq, outboxSeq, wrote, rows, events, check>>

(* The transaction of s is over: nothing of it is left.                    *)
EndTxn(s) ==
  /\ pc' = [pc EXCEPT ![s] = "idle"]
  /\ arg' = [arg EXCEPT ![s] = None]
  /\ vPrev' = [vPrev EXCEPT ![s] = 0]
  /\ newSeq' = [newSeq EXCEPT ![s] = 0]
  /\ wrote' = [wrote EXCEPT ![s] = [i \in Ids |-> None]]
  /\ rows' = [rows EXCEPT ![s] = {}]
  /\ proofs' = [proofs EXCEPT ![s] = {}]
  /\ events' = [events EXCEPT ![s] = {}]
  /\ UNCHANGED sequences

(* The rows of the transaction become visible together.  A verification    *)
(* under way remembers that its instance was sealed again meanwhile.       *)
Commit(s) ==
  /\ pc[s] = "sealed"
  /\ instances' = [i \in Ids |-> IF wrote[s][i] = None
                                 THEN instances[i] ELSE wrote[s][i]]
  /\ ledger' = ledger \cup rows[s]
  /\ proof' = proof \cup proofs[s]
  /\ outbox' = outbox \cup events[s]
  /\ check' = [v \in Verifiers |->
       IF check[v].pc \in Running /\ wrote[s][check[v].id] # None
       THEN [check[v] EXCEPT !.overlap = TRUE] ELSE check[v]]
  /\ EndTxn(s)

(* Variant: the ledger is written aside and outlives the transaction.      *)
RollbackKeepsLedger(s) ==
  /\ pc[s] # "idle"
  /\ EndTxn(s)
  /\ ledger' = ledger \cup rows[s]
  /\ UNCHANGED <<instances, proof, outbox, check>>

(* A refusal (RAISE), a deadlock victim, a cancelled statement or a crash. *)
Rollback(s) ==
  /\ pc[s] # "idle"
  /\ EndTxn(s)
  /\ UNCHANGED <<tables, check>>

-----------------------------------------------------------------------------
(* ckp.verify, one step per statement: it is VOLATILE, so each statement   *)
(* takes a snapshot of its own.  Its NULL exits after the first statement  *)
(* are not reached: an instance has a ledger row and a byte-proof.         *)

VerifyBody(v, id) ==
  /\ check[v].pc \in {"idle", "done"}
  /\ check' = [check EXCEPT ![v] =
       [NoCheck EXCEPT !.pc = IF instances[id] = None THEN "done" ELSE "row",
                       !.id = id, !.body = instances[id]]]
  /\ UNCHANGED <<tables, sequences, pc, locals, own>>

VerifyRow(v) ==
  /\ check[v].pc = "row"
  /\ \E r \in ledger :
       /\ IsLatestRow(r, ledger, check[v].id)
       /\ check' = [check EXCEPT ![v] = [@ EXCEPT !.pc = "proof", !.row = r]]
  /\ UNCHANGED <<tables, sequences, pc, locals, own>>

VerifyProof(v) ==
  /\ check[v].pc = "proof"
  /\ \E p \in proof :
       /\ IsByteProof(p, proof, check[v].id)
       /\ check' = [check EXCEPT ![v] =
            [@ EXCEPT !.pc = "prev", !.digest = p.digest]]
  /\ UNCHANGED <<tables, sequences, pc, locals, own>>

(* Variant: the expected predecessor is the head of the ledger.            *)
VerifyPrevAtHead(v) ==
  /\ check[v].pc = "prev"
  /\ check' = [check EXCEPT ![v] = [@ EXCEPT
       !.pc = "done",
       !.verdict = Attests(check[v].body, check[v].row, check[v].digest,
                           MaxSeqOf(ledger \ {check[v].row}))]]
  /\ UNCHANGED <<tables, sequences, pc, locals, own>>

VerifyPrev(v) ==
  /\ check[v].pc = "prev"
  /\ check' = [check EXCEPT ![v] = [@ EXCEPT
       !.pc = "done",
       !.verdict = Attests(check[v].body, check[v].row, check[v].digest,
                           ExpectedPrev(ledger, check[v].row.seq))]]
  /\ UNCHANGED <<tables, sequences, pc, locals, own>>

Seal(s) ==
  \/ \E id \in Ids, body \in Bodies : SealCall(s, id, body)
  \/ ReadPrev(s) \/ Upsert(s) \/ InsertLedger(s) \/ LedgerToOutbox(s)
  \/ \E evidence \in Evidence : InsertProof(s, evidence)
  \/ Commit(s) \/ Rollback(s)

Verify(v) ==
  \/ \E id \in Ids : VerifyBody(v, id)
  \/ VerifyRow(v) \/ VerifyProof(v) \/ VerifyPrev(v)

Next == (\E s \in Sessions : Seal(s)) \/ (\E v \in Verifiers : Verify(v))

Spec == Init /\ [][Next]_vars

-----------------------------------------------------------------------------
(* Properties *)

(* Every table, sequence and local variable holds values of its type.      *)
TypeOK ==
  /\ instances \in [Ids -> Bodies \cup {None}]
  /\ ledger \subseteq LedgerRow
  /\ proof \subseteq ProofRow
  /\ outbox \subseteq OutboxRow
  /\ ledgerSeq \in Nat /\ proofSeq \in Nat /\ outboxSeq \in Nat
  /\ pc \in [Sessions -> Phase]
  /\ arg \in [Sessions -> Call]
  /\ vPrev \in [Sessions -> Nat]
  /\ newSeq \in [Sessions -> Nat]
  /\ wrote \in [Sessions -> [Ids -> Bodies \cup {None}]]
  /\ rows \in [Sessions -> SUBSET LedgerRow]
  /\ proofs \in [Sessions -> SUBSET ProofRow]
  /\ events \in [Sessions -> SUBSET OutboxRow]
  /\ check \in [Verifiers -> Check]

(* However sessions interleave, a committed body is the one that the       *)
(* latest ledger row and the latest byte-proof of its instance carry:      *)
(* seal takes the row lock before it draws the numbers that order both.    *)
BodyAttested ==
  \A id \in Ids : instances[id] # None =>
    \E r \in ledger, p \in proof :
      /\ IsLatestRow(r, ledger, id)
      /\ IsByteProof(p, proof, id)
      /\ r.sha = instances[id]
      /\ p.digest = instances[id]

(* However sessions interleave, the predecessor a committed ledger row     *)
(* names is genesis or an older committed row: v_prev never points at a    *)
(* row that was rolled back.                                               *)
ChainGrounded ==
  \A r \in ledger :
    /\ r.prev < r.seq
    /\ r.prev # 0 => \E q \in ledger : q.seq = r.prev

(* Every committed seal has one event, which carries the body sealed by    *)
(* that very ledger row, and the events of one instance are numbered in    *)
(* the order of its seals (ledger_to_outbox).                              *)
EventsFollowSeals ==
  /\ \A r \in ledger : \E e \in outbox :
       e.ledger_seq = r.seq /\ e.id = r.id /\ e.payload = r.sha
  /\ \A e, f \in outbox :
       /\ \E r \in ledger : r.seq = e.ledger_seq
       /\ e.ledger_seq = f.ledger_seq => e = f
       /\ e.id = f.id /\ e.ledger_seq < f.ledger_seq => e.oseq < f.oseq

(* The proof chain stays whole: ckp.verify, run in any committed state,    *)
(* returns true for every instance that was ever sealed.                   *)
ChainWhole == \A id \in Ids : instances[id] # None => Verified(id)

(* ckp.verify raises no false alarm: it answers false for a sealed         *)
(* instance only if that instance was sealed again while it ran.           *)
AlarmNeedsReseal ==
  \A v \in Verifiers :
    check[v].pc = "done" /\ check[v].body # None /\ ~check[v].verdict
      => check[v].overlap
=============================================================================
