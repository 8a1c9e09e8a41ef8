---------------------------- MODULE LedgerProofs ----------------------------
(***************************************************************************)
(* What the write path keeps, for any sessions, ids, bodies and bound.     *)
(*                                                                         *)
(* Typed: the types alone are not inductive, because ReadPrev needs a      *)
(* largest seq to read and the inserts need bound arguments.               *)
(* Attested: every committed body is attested.  Uncommitted rows belong to *)
(* locked ids, a lock has one holder, and rows written under a lock are    *)
(* numbered above every committed row of the same id.                      *)
(* Grounded: every predecessor that a row names is there.  Linked needs a  *)
(* sole writer, and with it every row names the row just below it, as      *)
(* ckp.verify expects.                                                     *)
(* EventsInv: every row has its event, the rows under way included.        *)
(* AlarmInv: what a verification has read still stands.                    *)
(* OneHistory: the walk back along prev is one sequence, which only grows. *)
(***************************************************************************)
EXTENDS LedgerChain, WellFoundedInduction, TLAPS

(* The rows have a largest seq, or there are none and 0 stands for it.     *)
HasMax(R) ==
  \E n \in {0} \cup {r.seq : r \in R} : \A r \in R : r.seq <= n

(* Numbers drawn so far bound every row, committed or not.                 *)
Numbered ==
  /\ \A r \in ledger : 0 < r.seq /\ r.seq <= ledgerSeq
  /\ \A p \in proof : p.pid <= proofSeq
  /\ \A s \in Sessions :
       /\ \A r \in rows[s] : 0 < r.seq /\ r.seq <= ledgerSeq
       /\ \A p \in proofs[s] : p.pid <= proofSeq
       /\ HasMax(rows[s])
  /\ HasMax(ledger)

(* The arguments of seal are bound while it runs, and from the upsert to   *)
(* its return the session's row of that id is the body being sealed.       *)
Bound ==
  \A s \in Sessions :
    /\ pc[s] \in {"prev", "upsert", "ledger", "trigger", "proof"} =>
         arg[s] \in [id : Ids, body : Bodies]
    /\ pc[s] \in {"ledger", "trigger", "proof"} =>
         wrote[s][arg[s].id] = arg[s].body

Typed == TypeOK /\ Numbered /\ Bound
-----------------------------------------------------------------------------
(* max(seq) is the largest seq whenever there is one.                      *)
LEMMA MaxSeqOfMax ==
  ASSUME NEW R \in SUBSET LedgerRow, HasMax(R)
  PROVE  /\ MaxSeqOf(R) \in Nat
         /\ \A r \in R : r.seq <= MaxSeqOf(R)
         /\ MaxSeqOf(R) # 0 => \E r \in R : r.seq = MaxSeqOf(R)
<1> DEFINE S == {0} \cup {r.seq : r \in R}
<1>1. PICK n \in S : \A r \in R : r.seq <= n
  BY Zenon DEF HasMax
<1>2. MaxSeqOf(R) \in S /\ \A r \in R : r.seq <= MaxSeqOf(R)
  BY <1>1, Zenon DEF MaxSeqOf
<1> QED
  BY <1>2 DEF LedgerRow

(* Two row sets that have a largest seq have one together.                 *)
LEMMA HasMaxUnion ==
  ASSUME NEW A \in SUBSET LedgerRow, NEW B \in SUBSET LedgerRow,
         HasMax(A), HasMax(B)
  PROVE  HasMax(A \cup B)
<1>1. PICK a \in {0} \cup {r.seq : r \in A} : \A r \in A : r.seq <= a
  BY Zenon DEF HasMax
<1>2. PICK b \in {0} \cup {r.seq : r \in B} : \A r \in B : r.seq <= b
  BY Zenon DEF HasMax
<1>3. a \in Nat /\ b \in Nat
  BY <1>1, <1>2 DEF LedgerRow
<1>4. CASE a <= b
  <2>1. \A r \in A \cup B : r.seq <= b
    BY <1>1, <1>2, <1>3, <1>4 DEF LedgerRow
  <2> QED
    BY <1>2, <2>1, Zenon DEF HasMax
<1>5. CASE b <= a
  <2>1. \A r \in A \cup B : r.seq <= a
    BY <1>1, <1>2, <1>3, <1>5 DEF LedgerRow
  <2> QED
    BY <1>1, <2>1, Zenon DEF HasMax
<1> QED
  BY <1>3, <1>4, <1>5

(* Types are preserved.  Numbered gives ReadPrev its maximum and Bound     *)
(* the arguments that the inserted rows carry.                             *)
LEMMA TypeStep ==
  ASSUME TypeOK, Numbered, Bound, [Next]_vars
  PROVE  TypeOK'
<1> USE DEF TypeOK, tables, sequences, locals, own, At, EndTxn
<1>1. ASSUME NEW s \in Sessions, NEW id \in Ids, NEW body \in Bodies,
             SealCall(s, id, body)
      PROVE  TypeOK'
  BY <1>1, Zenon DEF SealCall, Phase, Call
<1>2. ASSUME NEW s \in Sessions, ReadPrev(s)
      PROVE  TypeOK'
  <2>1. MaxSeqOf(Visible(s)) \in Nat
    <3>1. ledger \in SUBSET LedgerRow /\ rows[s] \in SUBSET LedgerRow
      OBVIOUS
    <3>2. HasMax(ledger) /\ HasMax(rows[s])
      BY Zenon DEF Numbered
    <3> QED
      BY <3>1, <3>2, HasMaxUnion, MaxSeqOfMax, Zenon DEF Visible
  <2> QED
    BY <1>2, <2>1, Zenon DEF ReadPrev, Phase
<1>3. ASSUME NEW s \in Sessions, Upsert(s)
      PROVE  TypeOK'
  BY <1>3, Zenon DEF Upsert, Bound, Phase
<1>4. ASSUME NEW s \in Sessions, InsertLedger(s)
      PROVE  TypeOK'
  BY <1>4 DEF InsertLedger, Bound, LedgerRow, Phase
<1>5. ASSUME NEW s \in Sessions, LedgerToOutbox(s)
      PROVE  TypeOK'
  BY <1>5 DEF LedgerToOutbox, Bound, OutboxRow, Phase
<1>6. ASSUME NEW s \in Sessions, NEW evidence \in Evidence,
             InsertProof(s, evidence)
      PROVE  TypeOK'
  <2>1. arg[s] \in [id : Ids, body : Bodies]
    BY <1>6, Zenon DEF InsertProof, Bound
  <2>2. {[pid |-> proofSeq + 1, about |-> arg[s].id, byteProof |-> TRUE,
          digest |-> arg[s].body]} \in SUBSET ProofRow
    BY <2>1 DEF ProofRow
  <2>3. {[pid |-> proofSeq + 2, about |-> arg[s].id, byteProof |-> FALSE,
          digest |-> None]} \in SUBSET ProofRow
    BY <2>1 DEF ProofRow
  <2>4. proofs' \in [Sessions -> SUBSET ProofRow]
    BY <1>6, <2>2, <2>3, Zenon DEF InsertProof
  <2>5. proofSeq' \in Nat
    BY <1>6 DEF InsertProof
  <2> QED
    BY <1>6, <2>4, <2>5, Zenon DEF InsertProof, Phase, Call
<1>7. ASSUME NEW s \in Sessions, Commit(s)
      PROVE  TypeOK'
  <2>1. check' \in [Verifiers -> Check]
    <3>1. \A v \in Verifiers : [check[v] EXCEPT !.overlap = TRUE] \in Check
      BY ZenonT(60) DEF Check
    <3> QED
      BY <1>7, <3>1, Zenon DEF Commit
  <2> QED
    BY <1>7, <2>1 DEF Commit, Phase, Call
<1>8. ASSUME NEW s \in Sessions, Rollback(s)
      PROVE  TypeOK'
  BY <1>8, Zenon DEF Rollback, Phase, Call
<1>9. ASSUME NEW v \in Verifiers, Verify(v)
      PROVE  TypeOK'
  <2>1. check' \in [Verifiers -> Check]
    <3>0. check[v] \in Check
      OBVIOUS
    <3>1. ASSUME NEW id \in Ids, VerifyBody(v, id)
          PROVE  check' \in [Verifiers -> Check]
      <4> DEFINE c == [NoCheck EXCEPT
                         !.pc = IF instances[id] = None THEN "done" ELSE "row",
                         !.id = id, !.body = instances[id]]
      <4>1. c \in Check
        BY Zenon DEF Check, NoCheck, Running
      <4>2. check' = [check EXCEPT ![v] = c]
        BY <3>1, Zenon DEF VerifyBody
      <4> QED
        BY <4>1, <4>2, Zenon
    <3>2. CASE VerifyRow(v)
      <4>1. PICK r \in ledger : check' =
              [check EXCEPT ![v] = [@ EXCEPT !.pc = "proof", !.row = r]]
        BY <3>2, Zenon DEF VerifyRow
      <4>2. [check[v] EXCEPT !.pc = "proof", !.row = r] \in Check
        BY <3>0, Zenon DEF Check, Running
      <4> QED
        BY <4>1, <4>2, Zenon
    <3>3. CASE VerifyProof(v)
      <4>1. PICK p \in proof : check' =
              [check EXCEPT ![v] =
                [@ EXCEPT !.pc = "prev", !.digest = p.digest]]
        BY <3>3, Zenon DEF VerifyProof
      <4>2. [check[v] EXCEPT !.pc = "prev", !.digest = p.digest] \in Check
        BY <3>0, Zenon DEF Check, Running, ProofRow
      <4> QED
        BY <4>1, <4>2, Zenon
    <3>4. CASE VerifyPrev(v)
      <4> DEFINE a == Attests(check[v].body, check[v].row, check[v].digest,
                              ExpectedPrev(ledger, check[v].row.seq))
      <4>1. [check[v] EXCEPT !.pc = "done", !.verdict = a] \in Check
        <5>1. a \in BOOLEAN
          BY Zenon DEF Attests
        <5> HIDE DEF a
        <5> QED
          BY <3>0, <5>1, Zenon DEF Check
      <4>2. check' =
              [check EXCEPT ![v] = [@ EXCEPT !.pc = "done", !.verdict = a]]
        BY <3>4, Zenon DEF VerifyPrev
      <4> QED
        BY <4>1, <4>2, Zenon
    <3> QED
      BY <1>9, <3>1, <3>2, <3>3, <3>4, Zenon DEF Verify
  <2> QED
    BY <1>9, <2>1, Zenon
       DEF Verify, VerifyBody, VerifyRow, VerifyProof, VerifyPrev
<1>10. CASE UNCHANGED vars
  BY <1>10, Zenon DEF vars
<1> QED
  BY <1>1, <1>2, <1>3, <1>4, <1>5, <1>6, <1>7, <1>8, <1>9, <1>10, Zenon
     DEF Next, Seal

(* ckp.verify writes nothing.                                              *)
LEMMA VerifyReads ==
  ASSUME NEW v \in Verifiers, Verify(v)
  PROVE  UNCHANGED <<tables, sequences, pc, locals, own>>
BY Zenon DEF Verify, VerifyBody, VerifyRow, VerifyProof, VerifyPrev

(* Numbers are drawn from the sequences, and never twice.                   *)
LEMMA NumberedStep ==
  ASSUME TypeOK, Numbered, [Next]_vars
  PROVE  Numbered'
<1> USE DEF tables, sequences, locals, own, At, EndTxn
<1> DEFINE Same == UNCHANGED <<ledger, proof, ledgerSeq, proofSeq, rows,
                               proofs>>
<1>1. CASE Same
  BY <1>1, Zenon DEF Numbered, HasMax
<1>2. ASSUME NEW s \in Sessions, InsertLedger(s)
      PROVE  Numbered'
  <2> DEFINE n == [seq |-> ledgerSeq + 1, id |-> arg[s].id,
                   sha |-> arg[s].body, prev |-> vPrev[s]]
  <2>0. rows'[s] = rows[s] \cup {n} /\ n.seq = ledgerSeq + 1
    BY <1>2, Zenon DEF InsertLedger, TypeOK
  <2>1. \A r \in rows'[s] : 0 < r.seq /\ r.seq <= ledgerSeq + 1
    <3> HIDE DEF n
    <3> QED
      BY <2>0 DEF Numbered, TypeOK, LedgerRow
  <2>2. \E r \in rows'[s] : r.seq = ledgerSeq + 1
    <3> HIDE DEF n
    <3> QED
      BY <2>0, Zenon
  <2>3. HasMax(rows'[s])
    BY <2>1, <2>2, Zenon DEF HasMax
  <2>4. \A t \in Sessions : t # s => rows'[t] = rows[t]
    BY <1>2, SMTT(30) DEF InsertLedger, TypeOK
  <2>5. UNCHANGED <<ledger, proof, proofSeq, proofs>>
    BY <1>2, Zenon DEF InsertLedger
  <2>6. ledgerSeq' = ledgerSeq + 1
    BY <1>2, Zenon DEF InsertLedger
  <2>7. \A t \in Sessions : HasMax(rows'[t])
    BY <2>3, <2>4, Zenon DEF Numbered
  <2>8. \A t \in Sessions : \A r \in rows'[t] :
          0 < r.seq /\ r.seq <= ledgerSeq'
    BY <2>1, <2>4, <2>6, SMTT(60) DEF Numbered, TypeOK, LedgerRow
  <2>9. \A r \in ledger' : 0 < r.seq /\ r.seq <= ledgerSeq'
    BY <2>5, <2>6 DEF Numbered, TypeOK, LedgerRow
  <2> QED
    BY <2>5, <2>7, <2>8, <2>9, Zenon DEF Numbered, HasMax
<1>3. ASSUME NEW s \in Sessions, NEW evidence \in Evidence,
             InsertProof(s, evidence)
      PROVE  Numbered'
  <2>1. UNCHANGED <<ledger, proof, ledgerSeq, rows>>
    BY <1>3, SMTT(30) DEF InsertProof
  <2>2. proofSeq' \in Nat /\ proofSeq <= proofSeq'
    BY <1>3 DEF InsertProof, TypeOK
  <2>3. \A t \in Sessions : \A p \in proofs'[t] : p.pid <= proofSeq'
    <3>1. \A t \in Sessions : t # s => proofs'[t] = proofs[t]
      BY <1>3, Zenon DEF InsertProof, TypeOK
    <3>2. \A p \in proofs'[s] : p \in proofs[s] \/ p.pid <= proofSeq'
      BY <1>3 DEF InsertProof, TypeOK
    <3>3. \A t \in Sessions : \A p \in proofs[t] :
            p.pid \in Nat /\ p.pid <= proofSeq
      BY DEF Numbered, TypeOK, ProofRow
    <3>4. proofSeq \in Nat
      BY Zenon DEF TypeOK
    <3> QED
      BY <3>1, <3>2, <3>3, <3>4, <2>2
  <2>4. \A p \in proof' : p.pid <= proofSeq'
    BY <2>1, <2>2 DEF Numbered, TypeOK, ProofRow
  <2> QED
    BY <2>1, <2>3, <2>4, Zenon DEF Numbered, HasMax
<1>4. ASSUME NEW s \in Sessions, UNCHANGED <<ledgerSeq, proofSeq>>,
             rows' = [rows EXCEPT ![s] = {}],
             proofs' = [proofs EXCEPT ![s] = {}],
             \/ ledger' = ledger /\ proof' = proof
             \/ ledger' = ledger \cup rows[s] /\ proof' = proof \cup proofs[s]
      PROVE  Numbered'
  <2>1. HasMax(ledger')
    <3>1. ledger \in SUBSET LedgerRow /\ rows[s] \in SUBSET LedgerRow
      BY Zenon DEF TypeOK
    <3>2. HasMax(ledger) /\ HasMax(rows[s])
      BY Zenon DEF Numbered
    <3> QED
      BY <1>4, <3>1, <3>2, HasMaxUnion, Zenon
  <2>2. \A t \in Sessions : HasMax(rows'[t])
    <3>1. HasMax({})
      BY Zenon DEF HasMax
    <3>2. \A t \in Sessions : rows'[t] = {} \/ rows'[t] = rows[t]
      BY <1>4, Zenon DEF TypeOK
    <3> QED
      BY <3>1, <3>2, Zenon DEF Numbered
  <2>3. \A t \in Sessions : proofs'[t] = {} \/ proofs'[t] = proofs[t]
    BY <1>4, Zenon DEF TypeOK
  <2>4. \A t \in Sessions : rows'[t] = {} \/ rows'[t] = rows[t]
    BY <1>4 DEF TypeOK
  <2>5. HasMax(ledger)' /\ \A t \in Sessions : HasMax(rows[t])'
    BY <2>1, <2>2, Zenon DEF HasMax
  <2> QED
    BY <1>4, <2>3, <2>4, <2>5, Zenon DEF Numbered
<1>5. ASSUME NEW s \in Sessions, Commit(s) \/ Rollback(s)
      PROVE  Numbered'
  BY <1>4, <1>5, Zenon DEF Commit, Rollback
<1>6. ASSUME NEW s \in Sessions,
             \/ \E id \in Ids, body \in Bodies : SealCall(s, id, body)
             \/ ReadPrev(s) \/ Upsert(s) \/ LedgerToOutbox(s)
      PROVE  Same
  BY <1>6, Zenon DEF SealCall, ReadPrev, Upsert, LedgerToOutbox
<1>7. ASSUME NEW v \in Verifiers, Verify(v)
      PROVE  Same
  BY <1>7, VerifyReads, Zenon
<1>8. CASE UNCHANGED vars
  BY <1>1, <1>8, Zenon DEF vars
<1> QED
  BY <1>1, <1>2, <1>3, <1>5, <1>6, <1>7, <1>8, Zenon DEF Next, Seal

(* A session keeps the argument of its call until the call ends.            *)
LEMMA BoundStep ==
  ASSUME TypeOK, Bound, [Next]_vars
  PROVE  Bound'
<1> USE DEF Bound, TypeOK, tables, sequences, locals, own, At, EndTxn
<1>1. ASSUME NEW s \in Sessions, NEW id \in Ids, NEW body \in Bodies,
             SealCall(s, id, body)
      PROVE  Bound'
  BY <1>1, Zenon DEF SealCall
<1>2. ASSUME NEW s \in Sessions, ReadPrev(s)
      PROVE  Bound'
  BY <1>2, Zenon DEF ReadPrev
<1>3. ASSUME NEW s \in Sessions, Upsert(s)
      PROVE  Bound'
  BY <1>3, Zenon DEF Upsert
<1>4. ASSUME NEW s \in Sessions, InsertLedger(s)
      PROVE  Bound'
  BY <1>4, Zenon DEF InsertLedger
<1>5. ASSUME NEW s \in Sessions, LedgerToOutbox(s)
      PROVE  Bound'
  BY <1>5, Zenon DEF LedgerToOutbox
<1>6. ASSUME NEW s \in Sessions, NEW evidence \in Evidence,
             InsertProof(s, evidence)
      PROVE  Bound'
  BY <1>6, Zenon DEF InsertProof
<1>7. ASSUME NEW s \in Sessions, Commit(s) \/ Rollback(s)
      PROVE  Bound'
  BY <1>7 DEF Commit, Rollback
<1>8. ASSUME NEW v \in Verifiers, Verify(v)
      PROVE  Bound'
  BY <1>8, VerifyReads, Zenon
<1>9. CASE UNCHANGED vars
  BY <1>9, Zenon DEF vars
<1> QED
  BY <1>1, <1>2, <1>3, <1>4, <1>5, <1>6, <1>7, <1>8, <1>9, Zenon
  DEF Next, Seal

(* The empty tables are typed.                                              *)
LEMMA InitTyped == Init => Typed
<1> SUFFICES ASSUME Init PROVE Typed
  OBVIOUS
<1>1. TypeOK
  BY Zenon
  DEF Init, TypeOK, Phase, Call, Check, NoCheck, LedgerRow, ProofRow,
      OutboxRow
<1>2. HasMax({})
  BY Zenon DEF HasMax
<1>3. Numbered
  BY <1>2, Zenon DEF Init, Numbered
<1>4. Bound
  BY Zenon DEF Init, Bound
<1> QED
  BY <1>1, <1>3, <1>4, Zenon DEF Typed

(* Typed is inductive.                                                     *)
THEOREM TypedInvariant == Spec => []Typed
<1>1. Typed /\ [Next]_vars => Typed'
  BY TypeStep, NumberedStep, BoundStep, Zenon DEF Typed
<1> QED
  BY InitTyped, <1>1, PTL DEF Spec

(* The tables, sequences and locals of any number of interleaved sessions  *)
(* keep their types.                                                       *)
THEOREM TypeCorrect == Spec => []TypeOK
<1>1. Typed => TypeOK
  BY Zenon DEF Typed
<1> QED
  BY TypedInvariant, <1>1, PTL

-----------------------------------------------------------------------------
(* One holder per row lock, and uncommitted rows only of locked ids.       *)
LocksExclude ==
  /\ \A s, t \in Sessions : \A i \in Ids :
       s # t => wrote[s][i] = None \/ wrote[t][i] = None
  /\ \A s \in Sessions :
       /\ \A r \in rows[s] : wrote[s][r.id] # None
       /\ \A p \in proofs[s] : wrote[s][p.about] # None

(* Rows written under the lock come after the committed rows of the id.    *)
WrittenAbove ==
  \A s \in Sessions :
    /\ \A r \in rows[s], q \in ledger : q.id = r.id => q.seq < r.seq
    /\ \A r \in proofs[s], q \in proof :
         q.about = r.about => q.pid < r.pid

(* What a transaction wrote is attested by its own rows, except for the    *)
(* seal it is in the middle of.                                            *)
OwnRow(s, i) ==
  \E r \in rows[s] :
    IsLatestRow(r, rows[s], i) /\ r.sha = wrote[s][i]
OwnProof(s, i) ==
  \E p \in proofs[s] :
    IsByteProof(p, proofs[s], i) /\ p.digest = wrote[s][i]
OwnAttested ==
  \A s \in Sessions, i \in Ids : wrote[s][i] # None =>
    /\ ~(pc[s] = "ledger" /\ arg[s].id = i) => OwnRow(s, i)
    /\ ~(pc[s] \in {"ledger", "trigger", "proof"} /\ arg[s].id = i) =>
         OwnProof(s, i)

Attested ==
  LocksExclude /\ WrittenAbove /\ OwnAttested /\ BodyAttested
-----------------------------------------------------------------------------
(* Upsert waits for other holders; rows are only added under the lock.     *)
LEMMA LocksStep ==
  ASSUME TypeOK, Bound, LocksExclude, [Next]_vars
  PROVE  LocksExclude'
<1> USE DEF tables, sequences, locals, own, At, EndTxn
<1> DEFINE Same == UNCHANGED <<wrote, rows, proofs>>
<1>1. CASE Same
  BY <1>1, Zenon DEF LocksExclude
<1>2. ASSUME NEW s \in Sessions, Upsert(s)
      PROVE  LocksExclude'
  <2>1. arg[s].id \in Ids /\ arg[s].body \in Bodies /\ arg[s].body # None
    BY <1>2, NoneAssumption, Zenon DEF Upsert, Bound
  <2>2. \A t \in Sessions, i \in Ids :
          wrote'[t][i] = IF t = s /\ i = arg[s].id THEN arg[s].body
                                                   ELSE wrote[t][i]
    BY <1>2, <2>1, Zenon DEF Upsert, TypeOK
  <2>3. UNCHANGED <<rows, proofs>>
    BY <1>2, Zenon DEF Upsert
  <2>4. \A t \in Sessions \ {s} : wrote[t][arg[s].id] = None
    BY <1>2, Zenon DEF Upsert
  <2>5. \A t \in Sessions : /\ \A r \in rows[t] : r.id \in Ids
                            /\ \A p \in proofs[t] : p.about \in Ids
    BY DEF TypeOK, LedgerRow, ProofRow
  <2> QED
    BY <2>1, <2>2, <2>3, <2>4, <2>5 DEF LocksExclude
<1>3. ASSUME NEW s \in Sessions, InsertLedger(s)
      PROVE  LocksExclude'
  <2>1. wrote[s][arg[s].id] # None
    BY <1>3, NoneAssumption, Zenon DEF InsertLedger, Bound
  <2>2. \A t \in Sessions : \A r \in rows'[t] :
          r \in rows[t] \/ (t = s /\ r.id = arg[s].id)
    BY <1>3 DEF InsertLedger, TypeOK
  <2>3. UNCHANGED <<wrote, proofs>>
    BY <1>3, Zenon DEF InsertLedger
  <2> QED
    BY <2>1, <2>2, <2>3, Zenon DEF LocksExclude
<1>4. ASSUME NEW s \in Sessions, NEW evidence \in Evidence,
             InsertProof(s, evidence)
      PROVE  LocksExclude'
  <2>1. wrote[s][arg[s].id] # None
    BY <1>4, NoneAssumption, Zenon DEF InsertProof, Bound
  <2>2. \A t \in Sessions : \A p \in proofs'[t] :
          p \in proofs[t] \/ (t = s /\ p.about = arg[s].id)
    BY <1>4 DEF InsertProof, TypeOK
  <2>3. UNCHANGED <<wrote, rows>>
    BY <1>4, Zenon DEF InsertProof
  <2> QED
    BY <2>1, <2>2, <2>3, Zenon DEF LocksExclude
<1>5. ASSUME NEW s \in Sessions, Commit(s) \/ Rollback(s)
      PROVE  LocksExclude'
  <2>1. /\ wrote' = [wrote EXCEPT ![s] = [i \in Ids |-> None]]
        /\ rows' = [rows EXCEPT ![s] = {}]
        /\ proofs' = [proofs EXCEPT ![s] = {}]
    BY <1>5, Zenon DEF Commit, Rollback
  <2> QED
    BY <2>1 DEF LocksExclude, TypeOK
<1>6. ASSUME NEW s \in Sessions,
             \/ \E id \in Ids, body \in Bodies : SealCall(s, id, body)
             \/ ReadPrev(s) \/ LedgerToOutbox(s)
      PROVE  Same
  BY <1>6, Zenon DEF SealCall, ReadPrev, LedgerToOutbox
<1>7. ASSUME NEW v \in Verifiers, Verify(v)
      PROVE  Same
  BY <1>7, VerifyReads, Zenon
<1>8. CASE UNCHANGED vars
  BY <1>1, <1>8, Zenon DEF vars
<1> QED
  BY <1>1, <1>2, <1>3, <1>4, <1>5, <1>6, <1>7, <1>8, Zenon DEF Next, Seal

(* New rows are numbered above everything; a commit of another session     *)
(* adds no row of an id this session has locked.                           *)
LEMMA WrittenAboveStep ==
  ASSUME TypeOK, Numbered, LocksExclude, WrittenAbove, [Next]_vars
  PROVE  WrittenAbove'
<1> USE DEF tables, sequences, locals, own, At, EndTxn
<1> DEFINE Same == UNCHANGED <<ledger, proof, rows, proofs>>
<1>1. CASE Same
  BY <1>1, Zenon DEF WrittenAbove
<1>2. ASSUME NEW s \in Sessions, InsertLedger(s)
      PROVE  WrittenAbove'
  <2>1. \A t \in Sessions : \A r \in rows'[t] :
          r \in rows[t] \/ r.seq = ledgerSeq + 1
    BY <1>2 DEF InsertLedger, TypeOK
  <2>2. UNCHANGED <<ledger, proof, proofs>>
    BY <1>2, Zenon DEF InsertLedger
  <2>3. \A q \in ledger : q.seq < ledgerSeq + 1
    BY DEF Numbered, TypeOK, LedgerRow
  <2> QED
    BY <2>1, <2>2, <2>3, Zenon DEF WrittenAbove
<1>3. ASSUME NEW s \in Sessions, NEW evidence \in Evidence,
             InsertProof(s, evidence)
      PROVE  WrittenAbove'
  <2>1. \A t \in Sessions : \A p \in proofs'[t] :
          p \in proofs[t] \/ p.pid = proofSeq + 1 \/ p.pid = proofSeq + 2
    BY <1>3 DEF InsertProof, TypeOK
  <2>2. UNCHANGED <<ledger, proof, rows>>
    BY <1>3, Zenon DEF InsertProof
  <2>3. \A q \in proof : q.pid < proofSeq + 1 /\ q.pid < proofSeq + 2
    BY DEF Numbered, TypeOK, ProofRow
  <2> QED
    BY <2>1, <2>2, <2>3, Zenon DEF WrittenAbove
<1>4. ASSUME NEW s \in Sessions, Commit(s) \/ Rollback(s)
      PROVE  WrittenAbove'
  <2>1. /\ \A t \in Sessions : rows'[t] = {} \/ (t # s /\ rows'[t] = rows[t])
        /\ \A t \in Sessions :
             proofs'[t] = {} \/ (t # s /\ proofs'[t] = proofs[t])
        /\ \A q \in ledger' : q \in ledger \/ q \in rows[s]
        /\ \A q \in proof' : q \in proof \/ q \in proofs[s]
    BY <1>4, Zenon DEF Commit, Rollback, TypeOK
  <2>2. \A t \in Sessions : t # s =>
          /\ \A r \in rows[t], q \in rows[s] : q.id # r.id
          /\ \A r \in proofs[t], q \in proofs[s] : q.about # r.about
    <3>1. \A t \in Sessions :
            /\ \A r \in rows[t] : r.id \in Ids /\ wrote[t][r.id] # None
            /\ \A r \in proofs[t] : r.about \in Ids /\ wrote[t][r.about] # None
      BY DEF LocksExclude, TypeOK, LedgerRow, ProofRow
    <3>2. \A t \in Sessions, i \in Ids :
            t # s => wrote[s][i] = None \/ wrote[t][i] = None
      BY Zenon DEF LocksExclude
    <3>3. ASSUME NEW t \in Sessions, t # s,
                 NEW r \in rows[t], NEW q \in rows[s]
          PROVE  q.id # r.id
      BY <3>1, <3>2, <3>3, ZenonT(60)
    <3>4. ASSUME NEW t \in Sessions, t # s,
                 NEW r \in proofs[t], NEW q \in proofs[s]
          PROVE  q.about # r.about
      BY <3>1, <3>2, <3>4, ZenonT(60)
    <3> QED
      BY <3>3, <3>4, Zenon
  <2> QED
    BY <2>1, <2>2, Zenon DEF WrittenAbove
<1>5. ASSUME NEW s \in Sessions,
             \/ \E id \in Ids, body \in Bodies : SealCall(s, id, body)
             \/ ReadPrev(s) \/ Upsert(s) \/ LedgerToOutbox(s)
      PROVE  Same
  BY <1>5, Zenon DEF SealCall, ReadPrev, Upsert, LedgerToOutbox
<1>6. ASSUME NEW v \in Verifiers, Verify(v)
      PROVE  Same
  BY <1>6, VerifyReads, Zenon
<1>7. CASE UNCHANGED vars
  BY <1>1, <1>7, Zenon DEF vars
<1> QED
  BY <1>1, <1>2, <1>3, <1>4, <1>5, <1>6, <1>7, Zenon DEF Next, Seal

(* The seal a transaction is in the middle of is exempt until its rows are *)
(* in; the others keep theirs.                                             *)
LEMMA OwnAttestedStep ==
  ASSUME TypeOK, Numbered, Bound, OwnAttested, [Next]_vars
  PROVE  OwnAttested'
<1> USE DEF tables, sequences, locals, own, At, EndTxn
<1> DEFINE Same(s) == /\ wrote'[s] = wrote[s]
                      /\ rows'[s] = rows[s]
                      /\ proofs'[s] = proofs[s]
           Own(s) == \A i \in Ids : wrote'[s][i] # None =>
             /\ ~(pc'[s] = "ledger" /\ arg'[s].id = i) => OwnRow(s, i)'
             /\ ~(pc'[s] \in {"ledger", "trigger", "proof"} /\ arg'[s].id = i)
                  => OwnProof(s, i)'
<1>0. ASSUME NEW s \in Sessions, Same(s),
             \/ pc'[s] = pc[s] /\ arg'[s] = arg[s]
             \/ pc[s] \notin {"ledger", "trigger", "proof"}
             \/ pc[s] = "trigger" /\ pc'[s] = "proof" /\ arg'[s] = arg[s]
      PROVE  Own(s)
  BY <1>0 DEF OwnAttested, OwnRow, OwnProof
<1>1. ASSUME NEW s \in Sessions, Own(s),
             \A t \in Sessions : t # s =>
               Same(t) /\ pc'[t] = pc[t] /\ arg'[t] = arg[t]
      PROVE  OwnAttested'
  <2>1. \A t \in Sessions : Own(t)
    BY <1>0, <1>1
  <2> QED
    BY <2>1, Zenon DEF OwnAttested
<1>2. ASSUME NEW s \in Sessions, NEW id \in Ids, NEW body \in Bodies,
             SealCall(s, id, body)
      PROVE  OwnAttested'
  <2>1. Same(s) /\ pc[s] \notin {"ledger", "trigger", "proof"}
    BY <1>2, Zenon DEF SealCall
  <2>2. Own(s)
    BY <1>0, <2>1, Zenon
  <2> QED
    BY <1>1, <1>2, <2>2, Zenon DEF SealCall, TypeOK
<1>3. ASSUME NEW s \in Sessions, ReadPrev(s)
      PROVE  OwnAttested'
  <2>1. Same(s) /\ pc[s] \notin {"ledger", "trigger", "proof"}
    BY <1>3, Zenon DEF ReadPrev
  <2>2. Own(s)
    BY <1>0, <2>1, Zenon
  <2> QED
    BY <1>1, <1>3, <2>2, Zenon DEF ReadPrev, TypeOK
<1>4. ASSUME NEW s \in Sessions, Upsert(s)
      PROVE  OwnAttested'
  <2>1. /\ arg[s].id \in Ids /\ arg'[s] = arg[s]
        /\ pc[s] = "upsert" /\ pc'[s] = "ledger"
        /\ rows'[s] = rows[s] /\ proofs'[s] = proofs[s]
        /\ \A i \in Ids : i # arg[s].id => wrote'[s][i] = wrote[s][i]
    BY <1>4, Zenon DEF Upsert, TypeOK, Bound
  <2>2. Own(s)
    BY <2>1 DEF OwnAttested, OwnRow, OwnProof
  <2> QED
    BY <1>1, <1>4, <2>2, Zenon DEF Upsert, TypeOK
<1>5. ASSUME NEW s \in Sessions, InsertLedger(s)
      PROVE  OwnAttested'
  <2> DEFINE n == [seq |-> ledgerSeq + 1, id |-> arg[s].id,
                   sha |-> arg[s].body, prev |-> vPrev[s]]
  <2>1. /\ wrote'[s] = wrote[s] /\ proofs'[s] = proofs[s]
        /\ rows'[s] = rows[s] \cup {n}
        /\ pc[s] = "ledger" /\ pc'[s] = "trigger" /\ arg'[s] = arg[s]
        /\ wrote[s][arg[s].id] = arg[s].body
    BY <1>5, Zenon DEF InsertLedger, TypeOK, Bound
  <2>2. n.seq = ledgerSeq + 1 /\ n.id = arg[s].id /\ n.sha = arg[s].body
    OBVIOUS
  <2>3. \A r \in rows[s] : r.seq \in Nat /\ r.seq <= ledgerSeq
    BY DEF Numbered, TypeOK, LedgerRow
  <2>4. ledgerSeq \in Nat
    BY Zenon DEF TypeOK
  <2> HIDE DEF n
  <2>5. OwnRow(s, arg[s].id)'
    BY <2>1, <2>2, <2>3, <2>4 DEF OwnRow, IsLatestRow
  <2>6. ASSUME NEW i \in Ids, i # arg[s].id, wrote[s][i] # None
        PROVE  OwnRow(s, i)'
    <3>1. OwnRow(s, i)
      BY <2>6, <2>1, Zenon DEF OwnAttested
    <3> QED
      BY <3>1, <2>1, <2>2, <2>6, Zenon DEF OwnRow, IsLatestRow
  <2>7. Own(s)
    BY <2>1, <2>5, <2>6 DEF OwnAttested, OwnProof
  <2> QED
    BY <1>1, <1>5, <2>7, SMTT(60) DEF InsertLedger, TypeOK
<1>6. ASSUME NEW s \in Sessions, LedgerToOutbox(s)
      PROVE  OwnAttested'
  <2>1. Same(s) /\ pc[s] = "trigger" /\ pc'[s] = "proof" /\ arg'[s] = arg[s]
    BY <1>6, Zenon DEF LedgerToOutbox, TypeOK
  <2>2. Own(s)
    BY <1>0, <2>1, Zenon
  <2> QED
    BY <1>1, <1>6, <2>2, Zenon DEF LedgerToOutbox, TypeOK
<1>7. ASSUME NEW s \in Sessions, NEW evidence \in Evidence,
             InsertProof(s, evidence)
      PROVE  OwnAttested'
  <2> DEFINE b == [pid |-> proofSeq + 1, about |-> arg[s].id,
                   byteProof |-> TRUE, digest |-> arg[s].body]
             e == [pid |-> proofSeq + 2, about |-> arg[s].id,
                   byteProof |-> FALSE, digest |-> None]
  <2>1. /\ wrote'[s] = wrote[s] /\ rows'[s] = rows[s]
        /\ b \in proofs'[s] /\ proofs[s] \subseteq proofs'[s]
        /\ proofs'[s] \subseteq proofs[s] \cup {b, e}
        /\ pc[s] = "proof" /\ pc'[s] = "sealed"
        /\ wrote[s][arg[s].id] = arg[s].body
    BY <1>7, Zenon DEF InsertProof, TypeOK, Bound
  <2>2. /\ b.pid = proofSeq + 1 /\ b.about = arg[s].id
        /\ b.byteProof = TRUE /\ b.digest = arg[s].body
        /\ e.about = arg[s].id /\ e.byteProof = FALSE
    OBVIOUS
  <2>3. \A p \in proofs[s] : p.pid \in Nat /\ p.pid <= proofSeq
    BY DEF Numbered, TypeOK, ProofRow
  <2>4. proofSeq \in Nat
    BY Zenon DEF TypeOK
  <2> HIDE DEF b, e
  <2>5. ASSUME NEW i \in Ids, i = arg[s].id
        PROVE  OwnProof(s, i)'
    BY <2>1, <2>2, <2>3, <2>4, <2>5 DEF OwnProof, IsByteProof
  <2>6. ASSUME NEW i \in Ids, i # arg[s].id, wrote[s][i] # None
        PROVE  OwnProof(s, i)'
    <3>1. OwnProof(s, i)
      BY <2>6, <2>1, Zenon DEF OwnAttested
    <3> QED
      BY <3>1, <2>1, <2>2, <2>6 DEF OwnProof, IsByteProof
  <2>7. ASSUME NEW i \in Ids, wrote[s][i] # None
        PROVE  OwnRow(s, i)'
    <3>1. OwnRow(s, i)
      BY <2>1, <2>7, Zenon DEF OwnAttested
    <3> QED
      BY <2>1, <3>1, Zenon DEF OwnRow
  <2>8. Own(s)
    BY <2>1, <2>5, <2>6, <2>7, Zenon
  <2> QED
    BY <1>1, <1>7, <2>8, Zenon DEF InsertProof, TypeOK
<1>8. ASSUME NEW s \in Sessions, Commit(s) \/ Rollback(s)
      PROVE  OwnAttested'
  <2>1. \A i \in Ids : wrote'[s][i] = None
    BY <1>8 DEF Commit, Rollback, TypeOK
  <2>2. Own(s)
    BY <2>1, Zenon
  <2> QED
    BY <1>1, <1>8, <2>2, SMTT(60) DEF Commit, Rollback, TypeOK
<1>9. ASSUME NEW v \in Verifiers, Verify(v)
      PROVE  OwnAttested'
  BY <1>9, VerifyReads DEF OwnAttested, OwnRow, OwnProof
<1>10. CASE UNCHANGED vars
  BY <1>10, Zenon DEF vars, OwnAttested, OwnRow, OwnProof
<1> QED
  BY <1>2, <1>3, <1>4, <1>5, <1>6, <1>7, <1>8, <1>9, <1>10, SMTT(30)
  DEF Next, Seal

(* Only Commit changes the tables.  The ids it wrote are attested by its   *)
(* own rows, which lie above the committed ones; the others gain no row.   *)
LEMMA BodyAttestedStep ==
  ASSUME TypeOK, LocksExclude, WrittenAbove, OwnAttested, BodyAttested,
         [Next]_vars
  PROVE  BodyAttested'
<1> USE DEF tables, sequences, locals, own, At, EndTxn
<1> DEFINE Same == UNCHANGED <<instances, ledger, proof>>
<1>1. CASE Same
  BY <1>1, Zenon DEF BodyAttested
<1>2. ASSUME NEW s \in Sessions, Commit(s), NEW id \in Ids,
             instances'[id] # None
      PROVE  \E r \in ledger', p \in proof' :
               /\ IsLatestRow(r, ledger', id) /\ IsByteProof(p, proof', id)
               /\ r.sha = instances'[id] /\ p.digest = instances'[id]
  <2>1. ledger' = ledger \cup rows[s] /\ proof' = proof \cup proofs[s]
    BY <1>2, Zenon DEF Commit
  <2>2. CASE wrote[s][id] = None
    <3>1. instances'[id] = instances[id]
      BY <1>2, <2>2, Zenon DEF Commit
    <3>2. PICK r \in ledger, p \in proof :
            /\ IsLatestRow(r, ledger, id) /\ IsByteProof(p, proof, id)
            /\ r.sha = instances[id] /\ p.digest = instances[id]
      BY <1>2, <3>1, Zenon DEF BodyAttested
    <3>3. /\ \A q \in rows[s] : q.id # id
          /\ \A q \in proofs[s] : q.about # id
      BY <2>2, Zenon DEF LocksExclude
    <3>4. IsLatestRow(r, ledger', id) /\ IsByteProof(p, proof', id)
      BY <2>1, <3>2, <3>3, Zenon DEF IsLatestRow, IsByteProof
    <3> QED
      BY <2>1, <3>1, <3>2, <3>4, Zenon
  <2>3. CASE wrote[s][id] # None
    <3>1. instances'[id] = wrote[s][id]
      BY <1>2, <2>3, Zenon DEF Commit
    <3>2. OwnRow(s, id) /\ OwnProof(s, id)
      BY <1>2, <2>3, Zenon DEF OwnAttested, Commit
    <3>3. PICK r \in rows[s] :
            IsLatestRow(r, rows[s], id) /\ r.sha = wrote[s][id]
      BY <3>2, Zenon DEF OwnRow
    <3>4. PICK p \in proofs[s] :
            IsByteProof(p, proofs[s], id) /\ p.digest = wrote[s][id]
      BY <3>2, Zenon DEF OwnProof
    <3>5. \A q \in ledger : q.id = id => q.seq <= r.seq
      BY <3>3, SMTT(60) DEF WrittenAbove, IsLatestRow, TypeOK, LedgerRow
    <3>6. \A q \in proof : q.about = id => q.pid <= p.pid
      BY <3>4, SMTT(30) DEF WrittenAbove, IsByteProof, TypeOK, ProofRow
    <3>7. IsLatestRow(r, ledger', id) /\ IsByteProof(p, proof', id)
      BY <2>1, <3>3, <3>4, <3>5, <3>6, Zenon DEF IsLatestRow, IsByteProof
    <3> QED
      BY <2>1, <3>1, <3>3, <3>4, <3>7, Zenon
  <2> QED
    BY <2>2, <2>3, Zenon
<1>3. ASSUME NEW s \in Sessions, Commit(s)
      PROVE  BodyAttested'
  BY <1>2, <1>3, SMTT(40) DEF BodyAttested, IsLatestRow, IsByteProof
<1>4. ASSUME NEW s \in Sessions, Seal(s), ~Commit(s)
      PROVE  Same
  BY <1>4, Zenon DEF Seal, SealCall, ReadPrev, Upsert, InsertLedger,
              LedgerToOutbox, InsertProof, Rollback
<1>5. ASSUME NEW v \in Verifiers, Verify(v)
      PROVE  Same
  BY <1>5, VerifyReads, Zenon
<1>6. CASE UNCHANGED vars
  BY <1>1, <1>6, SMTT(40) DEF vars
<1> QED
  BY <1>1, <1>3, <1>4, <1>5, <1>6, Zenon DEF Next

(* The empty tables are attested.                                           *)
LEMMA InitAttested == Init => Attested
<1> SUFFICES ASSUME Init PROVE Attested
  OBVIOUS
<1>1. LocksExclude
  BY Zenon DEF Init, LocksExclude
<1>2. WrittenAbove
  BY Zenon DEF Init, WrittenAbove
<1>3. OwnAttested /\ BodyAttested
  BY Zenon DEF Init, OwnAttested, BodyAttested
<1> QED
  BY <1>1, <1>2, <1>3, Zenon DEF Attested

(* Attested is inductive relative to Typed.                                *)
THEOREM AttestedInvariant == Spec => []Attested
<1>1. Typed /\ Attested /\ [Next]_vars => Attested'
  BY LocksStep, WrittenAboveStep, OwnAttestedStep, BodyAttestedStep, Zenon
     DEF Attested, Typed
<1> QED
  BY TypedInvariant, InitAttested, <1>1, PTL DEF Spec

(* Whatever the number of sessions, a committed body is the one its latest *)
(* ledger row and byte-proof carry.                                        *)
THEOREM BodiesAttested == Spec => []BodyAttested
<1>1. Attested => BodyAttested
  BY Zenon DEF Attested
<1> QED
  BY AttestedInvariant, <1>1, PTL

-----------------------------------------------------------------------------
(* Every predecessor, read or written, is genesis or a visible row.        *)
Grounded ==
  /\ ChainGrounded
  /\ \A s \in Sessions :
       /\ \A r \in rows[s] :
            /\ r.prev < r.seq
            /\ r.prev # 0 => \E q \in Visible(s) : q.seq = r.prev
       /\ pc[s] \in {"upsert", "ledger"} =>
            /\ vPrev[s] <= ledgerSeq
            /\ vPrev[s] # 0 =>
                 \E q \in Visible(s) : q.seq = vPrev[s]

(* Each row names the row just below it.                                   *)
LinkedRows(R) ==
  \A r \in R :
    /\ r.prev < r.seq
    /\ r.prev # 0 => \E q \in R : q.seq = r.prev
    /\ \A q \in R : q.seq < r.seq => q.seq <= r.prev

Linked ==
  /\ LinkedRows(ledger)
  /\ \A s \in Sessions :
       /\ LinkedRows(Visible(s))
       /\ pc[s] \in {"upsert", "ledger"} =>
            \A q \in Visible(s) : q.seq <= vPrev[s]

(* The sessions that seal are one: the bgworker alone, or one participant. *)
SoleWriter == \A s, t \in Sessions : s = t
-----------------------------------------------------------------------------
(* Predecessors are read from visible rows; a commit publishes them with   *)
(* the rows that name them, and a rollback drops both.                     *)
LEMMA GroundedStep ==
  ASSUME TypeOK, Numbered, Grounded, [Next]_vars
  PROVE  Grounded'
<1> USE DEF tables, sequences, locals, own, At, EndTxn
<1> DEFINE In(n, R) == n # 0 => \E q \in R : q.seq = n
           OwnG(s) ==
             /\ \A r \in rows'[s] :
                  r.prev < r.seq /\ In(r.prev, ledger' \cup rows'[s])
             /\ pc'[s] \in {"upsert", "ledger"} =>
                  /\ vPrev'[s] <= ledgerSeq'
                  /\ In(vPrev'[s], ledger' \cup rows'[s])
           Frame(t) == /\ rows'[t] = rows[t]
                       /\ pc'[t] = pc[t]
                       /\ vPrev'[t] = vPrev[t]
<1>0. ASSUME ChainGrounded', \A s \in Sessions : OwnG(s)
      PROVE  Grounded'
  BY <1>0, Zenon DEF Grounded, Visible
<1>1. ASSUME NEW t \in Sessions, ledger \subseteq ledger',
             ledgerSeq' \in Nat, ledgerSeq <= ledgerSeq',
             rows'[t] = rows[t], vPrev'[t] = vPrev[t],
             pc'[t] \in {"upsert", "ledger"} => pc[t] \in {"upsert", "ledger"}
      PROVE  OwnG(t)
  <2>1. vPrev[t] \in Nat /\ ledgerSeq \in Nat
    BY Zenon DEF TypeOK
  <2> QED
    BY <1>1, <2>1 DEF Grounded, Visible
<1>2. ASSUME NEW s \in Sessions, ledger' = ledger, ledgerSeq' = ledgerSeq,
             OwnG(s), \A t \in Sessions : t # s => Frame(t)
      PROVE  Grounded'
  <2>1. ledgerSeq \in Nat
    BY Zenon DEF TypeOK
  <2>2. \A t \in Sessions : OwnG(t)
    BY <1>1, <1>2, <2>1
  <2>3. ChainGrounded'
    BY <1>2, Zenon DEF Grounded, ChainGrounded
  <2> QED
    BY <1>0, <2>2, <2>3, Zenon
<1>3. ASSUME NEW s \in Sessions, ReadPrev(s)
      PROVE  Grounded'
  <2>1. /\ Visible(s) \in SUBSET LedgerRow
        /\ \A r \in Visible(s) : r.seq <= ledgerSeq
    BY Zenon DEF TypeOK, Numbered, Visible
  <2>2. HasMax(Visible(s))
    BY HasMaxUnion, SMTT(30) DEF Numbered, Visible, TypeOK
  <2>3. MaxSeqOf(Visible(s)) \in Nat /\ In(MaxSeqOf(Visible(s)), Visible(s))
    BY <2>1, <2>2, MaxSeqOfMax, Zenon
  <2>4. /\ vPrev'[s] = MaxSeqOf(Visible(s)) /\ rows' = rows
        /\ ledger' = ledger /\ ledgerSeq' = ledgerSeq
        /\ \A t \in Sessions : t # s => Frame(t)
    BY <1>3, Zenon DEF ReadPrev, TypeOK
  <2>5. vPrev'[s] <= ledgerSeq
    <3>1. ledgerSeq \in Nat
      BY DEF TypeOK
    <3>2. MaxSeqOf(Visible(s)) <= ledgerSeq
      BY <2>1, <2>3, <3>1
    <3> QED
      BY <2>4, <3>2, Zenon
  <2>6. OwnG(s)
    BY <2>3, <2>4, <2>5, Zenon DEF Visible, Grounded
  <2> QED
    BY <1>2, <2>4, <2>6, Zenon
<1>4. ASSUME NEW s \in Sessions, InsertLedger(s)
      PROVE  Grounded'
  <2> DEFINE n == [seq |-> ledgerSeq + 1, id |-> arg[s].id,
                   sha |-> arg[s].body, prev |-> vPrev[s]]
  <2>1. /\ rows'[s] = rows[s] \cup {n}
        /\ ledger' = ledger /\ ledgerSeq' = ledgerSeq + 1
        /\ pc[s] = "ledger" /\ pc'[s] = "trigger"
        /\ \A t \in Sessions : t # s => Frame(t)
    BY <1>4, Zenon DEF InsertLedger, TypeOK
  <2>2. n.seq = ledgerSeq + 1 /\ n.prev = vPrev[s]
    OBVIOUS
  <2> HIDE DEF n
  <2>3. ledgerSeq \in Nat /\ vPrev[s] \in Nat
    BY Zenon DEF TypeOK
  <2>4. vPrev[s] <= ledgerSeq /\ In(vPrev[s], Visible(s))
    BY <2>1, Zenon DEF Grounded
  <2>5. n.prev < n.seq /\ In(n.prev, ledger' \cup rows'[s])
    BY <2>1, <2>2, <2>3, <2>4 DEF Visible
  <2>6. \A r \in rows[s] : r.prev < r.seq /\ In(r.prev, ledger' \cup rows'[s])
    BY <2>1 DEF Grounded, Visible
  <2>7. OwnG(s)
    BY <2>1, <2>5, <2>6, Zenon
  <2>8. \A t \in Sessions : OwnG(t)
    BY <1>1, <2>1, <2>3, <2>7
  <2>9. ChainGrounded'
    BY <2>1, Zenon DEF Grounded, ChainGrounded
  <2> QED
    BY <1>0, <2>8, <2>9
<1>5. ASSUME NEW s \in Sessions, Commit(s)
      PROVE  Grounded'
  <2>1. /\ ledger' = ledger \cup rows[s] /\ ledgerSeq' = ledgerSeq
        /\ pc'[s] = "idle" /\ rows'[s] = {}
        /\ \A t \in Sessions : t # s => Frame(t)
    BY <1>5, Zenon DEF Commit, TypeOK
  <2>2. ChainGrounded'
    BY <2>1, Zenon DEF Grounded, ChainGrounded, Visible
  <2>3. OwnG(s)
    BY <2>1, Zenon
  <2>4. ledgerSeq \in Nat
    BY DEF TypeOK
  <2>5. \A t \in Sessions : OwnG(t)
    BY <1>1, <2>1, <2>3, <2>4
  <2> QED
    BY <1>0, <2>2, <2>5, Zenon
<1>6. ASSUME NEW s \in Sessions, Rollback(s)
      PROVE  Grounded'
  <2>1. /\ ledger' = ledger /\ ledgerSeq' = ledgerSeq
        /\ pc'[s] = "idle" /\ rows'[s] = {}
        /\ \A t \in Sessions : t # s => Frame(t)
    BY <1>6, Zenon DEF Rollback, TypeOK
  <2> QED
    BY <1>2, <2>1, Zenon
<1>7. ASSUME NEW s \in Sessions, NEW id \in Ids, NEW body \in Bodies,
             SealCall(s, id, body)
      PROVE  Grounded'
  <2>1. /\ UNCHANGED <<ledger, ledgerSeq, rows, vPrev>> /\ pc'[s] = "prev"
        /\ \A t \in Sessions : t # s => Frame(t)
    BY <1>7, Zenon DEF SealCall, TypeOK
  <2>2. OwnG(s)
    BY <2>1, Zenon DEF Grounded, Visible
  <2> QED
    BY <1>2, <2>1, <2>2, Zenon
<1>8. ASSUME NEW s \in Sessions, Upsert(s) \/ LedgerToOutbox(s)
      PROVE  Grounded'
  <2>1. /\ UNCHANGED <<ledger, ledgerSeq, rows, vPrev>>
        /\ pc'[s] \in {"upsert", "ledger"} => pc[s] \in {"upsert", "ledger"}
        /\ \A t \in Sessions : t # s => Frame(t)
    BY <1>8, Zenon DEF Upsert, LedgerToOutbox, TypeOK
  <2>2. OwnG(s)
    BY <2>1, Zenon DEF Grounded, Visible
  <2> QED
    BY <1>2, <2>1, <2>2, Zenon
<1>9. ASSUME NEW s \in Sessions, NEW evidence \in Evidence,
             InsertProof(s, evidence)
      PROVE  Grounded'
  <2>1. /\ UNCHANGED <<ledger, ledgerSeq, rows>> /\ pc'[s] = "sealed"
        /\ \A t \in Sessions : t # s => Frame(t)
    BY <1>9, Zenon DEF InsertProof, TypeOK
  <2>2. OwnG(s)
    BY <2>1, Zenon DEF Grounded, Visible
  <2> QED
    BY <1>2, <2>1, <2>2, Zenon
<1>10. ASSUME NEW v \in Verifiers, Verify(v)
       PROVE  Grounded'
  BY <1>10, VerifyReads DEF Grounded, ChainGrounded, Visible
<1>11. CASE UNCHANGED vars
  BY <1>11, Zenon DEF vars, Grounded, ChainGrounded, Visible
<1> QED
  BY <1>3, <1>4, <1>5, <1>6, <1>7, <1>8, <1>9, <1>10, <1>11, Zenon
  DEF Next, Seal

(* Grounded is inductive relative to Typed.                                *)
THEOREM GroundedInvariant == Spec => []Grounded
<1>1. Init => Grounded
  BY Zenon DEF Init, Grounded, ChainGrounded
<1>2. Typed /\ Grounded /\ [Next]_vars => Grounded'
  BY GroundedStep, Zenon DEF Typed
<1> QED
  BY TypedInvariant, <1>1, <1>2, PTL DEF Spec

(* However many sessions seal, roll back and commit, no committed ledger   *)
(* row names a predecessor that is not itself committed.                   *)
THEOREM ChainIsGrounded == Spec => []ChainGrounded
<1>1. Grounded => ChainGrounded
  BY Zenon DEF Grounded
<1> QED
  BY GroundedInvariant, <1>1, PTL

(* max(seq) below a linked row is the predecessor the row names.           *)
LEMMA LinkedPrev ==
  ASSUME NEW R \in SUBSET LedgerRow, LinkedRows(R), NEW r \in R
  PROVE  r.prev = ExpectedPrev(R, r.seq)
<1> DEFINE B == {q \in R : q.seq < r.seq}
           S == {0} \cup {q.seq : q \in B}
<1>1. r.prev \in S /\ \A q \in B : q.seq <= r.prev
  BY Zenon DEF LinkedRows
<1>2. MaxSeqOf(B) \in S /\ \A q \in B : q.seq <= MaxSeqOf(B)
  BY <1>1, Zenon DEF MaxSeqOf
<1>3. S \in SUBSET Nat
  BY DEF LedgerRow
<1>4. \A a, b \in S : (\A q \in B : q.seq <= a) /\ (\A q \in B : q.seq <= b)
                      => a = b
  BY <1>3
<1> QED
  BY <1>1, <1>2, <1>4, Zenon DEF ExpectedPrev

(* With a sole writer nothing is inserted between the read of v_prev and   *)
(* the insert of the row that names it.                                    *)
LEMMA LinkedStep ==
  ASSUME SoleWriter, TypeOK, Numbered, Grounded, Linked, [Next]_vars
  PROVE  Linked'
<1> USE DEF tables, sequences, locals, own, At, EndTxn
<1> DEFINE OwnL(s) ==
             /\ LinkedRows(ledger')
             /\ LinkedRows(ledger' \cup rows'[s])
             /\ pc'[s] \in {"upsert", "ledger"} =>
                  \A q \in ledger' \cup rows'[s] : q.seq <= vPrev'[s]
<1>0. ASSUME NEW s \in Sessions, OwnL(s)
      PROVE  Linked'
  BY <1>0, Zenon DEF SoleWriter, Linked, Visible, LinkedRows
<1>1. ASSUME NEW s \in Sessions, UNCHANGED <<ledger, rows>>,
             pc'[s] \notin {"upsert", "ledger"}
      PROVE  Linked'
  BY <1>0, <1>1, Zenon DEF Linked, Visible
<1>2. ASSUME NEW s \in Sessions, NEW id \in Ids, NEW body \in Bodies,
             SealCall(s, id, body)
      PROVE  Linked'
  BY <1>1, <1>2, Zenon DEF SealCall, TypeOK
<1>3. ASSUME NEW s \in Sessions, ReadPrev(s)
      PROVE  Linked'
  <2>1. HasMax(Visible(s)) /\ Visible(s) \in SUBSET LedgerRow
    BY HasMaxUnion, Zenon DEF Numbered, Visible, TypeOK
  <2>2. \A q \in Visible(s) : q.seq <= MaxSeqOf(Visible(s))
    BY <2>1, MaxSeqOfMax, Zenon
  <2>3. vPrev'[s] = MaxSeqOf(Visible(s)) /\ UNCHANGED <<ledger, rows>>
    BY <1>3, Zenon DEF ReadPrev, TypeOK
  <2> QED
    BY <1>0, <2>2, <2>3, Zenon DEF Linked, Visible
<1>4. ASSUME NEW s \in Sessions, Upsert(s)
      PROVE  Linked'
  <2>1. /\ UNCHANGED <<ledger, rows, vPrev>>
        /\ pc[s] = "upsert"
    BY <1>4, Zenon DEF Upsert
  <2> QED
    BY <1>0, <2>1, Zenon DEF Linked, Visible
<1>5. ASSUME NEW s \in Sessions, InsertLedger(s)
      PROVE  Linked'
  <2> DEFINE n == [seq |-> ledgerSeq + 1, id |-> arg[s].id,
                   sha |-> arg[s].body, prev |-> vPrev[s]]
  <2>1. /\ rows'[s] = rows[s] \cup {n} /\ ledger' = ledger
        /\ pc[s] = "ledger" /\ pc'[s] = "trigger"
    BY <1>5, Zenon DEF InsertLedger, TypeOK
  <2>2. n.seq = ledgerSeq + 1 /\ n.prev = vPrev[s]
    OBVIOUS
  <2> HIDE DEF n
  <2>3. ledgerSeq \in Nat /\ vPrev[s] \in Nat
    BY Zenon DEF TypeOK
  <2>4. /\ vPrev[s] <= ledgerSeq
        /\ vPrev[s] # 0 => \E q \in Visible(s) : q.seq = vPrev[s]
        /\ \A q \in Visible(s) : q.seq <= vPrev[s]
    BY <2>1, Zenon DEF Grounded, Linked
  <2>5. \A q \in Visible(s) : q.seq \in Nat /\ q.seq <= ledgerSeq
    BY DEF TypeOK, Numbered, Visible, LedgerRow
  <2>6. ASSUME NEW r \in Visible(s)
        PROVE  ~(n.seq < r.seq)
    BY <2>2, <2>3, <2>5, <2>6
  <2>7. LinkedRows(Visible(s)) /\ LinkedRows(ledger)
    BY Zenon DEF Linked
  <2>8. LinkedRows(Visible(s) \cup {n})
    <3>1. ASSUME NEW r \in Visible(s)
          PROVE  /\ r.prev < r.seq
                 /\ r.prev # 0 => \E q \in Visible(s) \cup {n} : q.seq = r.prev
                 /\ \A q \in Visible(s) \cup {n} :
                      q.seq < r.seq => q.seq <= r.prev
      BY <2>6, <2>7, <3>1, Zenon DEF LinkedRows
    <3>2. /\ n.prev < n.seq
          /\ n.prev # 0 => \E q \in Visible(s) \cup {n} : q.seq = n.prev
          /\ \A q \in Visible(s) \cup {n} : q.seq < n.seq => q.seq <= n.prev
      BY <2>2, <2>3, <2>4
    <3> QED
      BY <3>1, <3>2, Zenon DEF LinkedRows
  <2>9. ledger' \cup rows'[s] = Visible(s) \cup {n}
    BY <2>1, Zenon DEF Visible
  <2> QED
    BY <1>0, <2>1, <2>7, <2>8, <2>9, Zenon
<1>6. ASSUME NEW s \in Sessions, LedgerToOutbox(s)
      PROVE  Linked'
  BY <1>1, <1>6, Zenon DEF LedgerToOutbox, TypeOK
<1>7. ASSUME NEW s \in Sessions, NEW evidence \in Evidence,
             InsertProof(s, evidence)
      PROVE  Linked'
  BY <1>1, <1>7, Zenon DEF InsertProof, TypeOK
<1>8. ASSUME NEW s \in Sessions, Commit(s) \/ Rollback(s)
      PROVE  Linked'
  <2>1. /\ ledger' = Visible(s) \/ ledger' = ledger
        /\ rows'[s] = {} /\ pc'[s] = "idle"
    BY <1>8, Zenon DEF Commit, Rollback, TypeOK, Visible
  <2>2. LinkedRows(ledger')
    BY <2>1, Zenon DEF Linked
  <2> QED
    BY <1>0, <2>1, <2>2, Zenon
<1>9. ASSUME NEW v \in Verifiers, Verify(v)
      PROVE  Linked'
  BY <1>9, VerifyReads DEF Linked, Visible, LinkedRows
<1>10. CASE UNCHANGED vars
  BY <1>10, Zenon DEF vars, Linked, Visible, LinkedRows
<1> QED
  BY <1>2, <1>3, <1>4, <1>5, <1>6, <1>7, <1>8, <1>9, <1>10, Zenon
  DEF Next, Seal

(* So the chain of a sole writer has no gap and no fork.                   *)
LEMMA LinkedInvariant ==
  ASSUME SoleWriter
  PROVE  Spec => []Linked
<1>1. Init => Linked
  BY Zenon DEF Init, Linked, Visible, LinkedRows
<1>2. Typed /\ Grounded /\ Linked /\ [Next]_vars => Linked'
  BY LinkedStep, SMTT(30) DEF Typed
<1> QED
  BY TypedInvariant, GroundedInvariant, <1>1, <1>2, PTL DEF Spec

(* Only the sessions that seal are bounded to one; any number of verifiers *)
(* run beside it, and transactions of any number of seals commit or roll   *)
(* back: ckp.verify then returns true for every sealed instance.           *)
THEOREM SoleWriterKeepsChainWhole ==
  ASSUME SoleWriter
  PROVE  Spec => []ChainWhole
<1>1. Typed /\ Attested /\ Linked => ChainWhole
  <2> SUFFICES ASSUME Typed, Attested, Linked,
                      NEW id \in Ids, instances[id] # None
               PROVE  Verified(id)
    BY Zenon DEF ChainWhole
  <2>1. PICK r \in ledger, p \in proof :
          /\ IsLatestRow(r, ledger, id) /\ IsByteProof(p, proof, id)
          /\ r.sha = instances[id] /\ p.digest = instances[id]
    BY Zenon DEF Attested, BodyAttested
  <2>2. r.prev = ExpectedPrev(ledger, r.seq)
    BY LinkedPrev, Zenon DEF Typed, Linked, TypeOK
  <2> QED
    BY <2>1, <2>2, Zenon DEF Verified, Attests
<1> QED
  BY TypedInvariant, AttestedInvariant, LinkedInvariant, <1>1, PTL

-----------------------------------------------------------------------------
(* No number drawn from a sequence names two rows, committed or not.       *)
NumberedOnce ==
  /\ \A r, q \in ledger : r.seq = q.seq => r = q
  /\ \A p, q \in proof : p.pid = q.pid => p = q
  /\ \A s \in Sessions :
       /\ \A r, q \in rows[s] : r.seq = q.seq => r = q
       /\ \A r \in rows[s], q \in ledger : r.seq # q.seq
       /\ \A p, q \in proofs[s] : p.pid = q.pid => p = q
       /\ \A p \in proofs[s], q \in proof : p.pid # q.pid
  /\ \A s, t \in Sessions : s # t =>
       /\ \A r \in rows[s], q \in rows[t] : r.seq # q.seq
       /\ \A p \in proofs[s], q \in proofs[t] : p.pid # q.pid

(* A number is drawn once, so the rows of a commit join rows of other       *)
(* numbers.                                                                *)
LEMMA NumberedOnceStep ==
  ASSUME TypeOK, Numbered, NumberedOnce, [Next]_vars
  PROVE  NumberedOnce'
<1> USE DEF tables, sequences, locals, own, At, EndTxn
<1> DEFINE Same == UNCHANGED <<ledger, proof, rows, proofs>>
<1>1. CASE Same
  BY <1>1 DEF NumberedOnce
<1>2. ASSUME NEW s \in Sessions, InsertLedger(s)
      PROVE  NumberedOnce'
  <2> DEFINE row == [seq |-> ledgerSeq + 1, id |-> arg[s].id,
                     sha |-> arg[s].body, prev |-> vPrev[s]]
  <2>1. /\ \A t \in Sessions : t # s => rows'[t] = rows[t]
        /\ rows'[s] = rows[s] \cup {row}
    BY <1>2, Zenon DEF InsertLedger, TypeOK
  <2>2. UNCHANGED <<ledger, proof, proofs>>
    BY <1>2, Zenon DEF InsertLedger
  <2>3. row.seq = ledgerSeq + 1
    OBVIOUS
  <2> HIDE DEF row
  <2>4. /\ \A q \in ledger : q.seq # row.seq
        /\ \A t \in Sessions : \A q \in rows[t] : q.seq # row.seq
    BY <2>3 DEF Numbered, TypeOK, LedgerRow
  <2> QED
    BY <2>1, <2>2, <2>4 DEF NumberedOnce
<1>3. ASSUME NEW s \in Sessions, NEW evidence \in Evidence,
             InsertProof(s, evidence)
      PROVE  NumberedOnce'
  <2> DEFINE a == [pid |-> proofSeq + 1, about |-> arg[s].id,
                   byteProof |-> TRUE, digest |-> arg[s].body]
             b == [pid |-> proofSeq + 2, about |-> arg[s].id,
                   byteProof |-> FALSE, digest |-> None]
  <2>1. /\ \A t \in Sessions : t # s => proofs'[t] = proofs[t]
        /\ \A p \in proofs'[s] : p \in proofs[s] \/ p = a \/ p = b
    BY <1>3 DEF InsertProof, TypeOK
  <2>2. UNCHANGED <<ledger, proof, rows>>
    BY <1>3, Zenon DEF InsertProof
  <2>3. a.pid = proofSeq + 1 /\ b.pid = proofSeq + 2
    OBVIOUS
  <2> HIDE DEF a, b
  <2>4. /\ a.pid # b.pid
        /\ \A q \in proof : q.pid # a.pid /\ q.pid # b.pid
        /\ \A t \in Sessions : \A q \in proofs[t] :
             q.pid # a.pid /\ q.pid # b.pid
    BY <2>3 DEF Numbered, TypeOK, ProofRow
  <2> QED
    BY <2>1, <2>2, <2>4, SMTT(60) DEF NumberedOnce
<1>4. ASSUME NEW s \in Sessions, Commit(s) \/ Rollback(s)
      PROVE  NumberedOnce'
  <2>1. /\ \A t \in Sessions : rows'[t] = {} \/ (t # s /\ rows'[t] = rows[t])
        /\ \A t \in Sessions :
             proofs'[t] = {} \/ (t # s /\ proofs'[t] = proofs[t])
        /\ \A q \in ledger' : q \in ledger \/ q \in rows[s]
        /\ \A q \in proof' : q \in proof \/ q \in proofs[s]
    BY <1>4, ZenonT(60) DEF Commit, Rollback, TypeOK
  <2>2. /\ \A r, q \in ledger' : r.seq = q.seq => r = q
        /\ \A p, q \in proof' : p.pid = q.pid => p = q
    BY <2>1 DEF NumberedOnce
  <2>3. ASSUME NEW t \in Sessions
        PROVE  /\ \A r, q \in rows'[t] : r.seq = q.seq => r = q
               /\ \A r \in rows'[t], q \in ledger' : r.seq # q.seq
               /\ \A p, q \in proofs'[t] : p.pid = q.pid => p = q
               /\ \A p \in proofs'[t], q \in proof' : p.pid # q.pid
    BY <2>1 DEF NumberedOnce
  <2>4. \A u, t \in Sessions : u # t =>
          /\ \A r \in rows'[u], q \in rows'[t] : r.seq # q.seq
          /\ \A p \in proofs'[u], q \in proofs'[t] : p.pid # q.pid
    BY <2>1 DEF NumberedOnce
  <2> QED
    BY <2>2, <2>3, <2>4, Zenon DEF NumberedOnce
<1>5. ASSUME NEW s \in Sessions,
             \/ \E id \in Ids, body \in Bodies : SealCall(s, id, body)
             \/ ReadPrev(s) \/ Upsert(s) \/ LedgerToOutbox(s)
      PROVE  Same
  BY <1>5, Zenon DEF SealCall, ReadPrev, Upsert, LedgerToOutbox
<1>6. ASSUME NEW v \in Verifiers, Verify(v)
      PROVE  Same
  BY <1>6, VerifyReads, Zenon
<1>7. CASE UNCHANGED vars
  BY <1>1, <1>7, ZenonT(60) DEF vars
<1> QED
  BY <1>1, <1>2, <1>3, <1>4, <1>5, <1>6, <1>7, Zenon DEF Next, Seal

(* The numbers of ckp.ledger and ckp.proof tell rows apart, always.        *)
LEMMA NumberedOnceInvariant == Spec => []NumberedOnce
<1>1. Init => NumberedOnce
  BY DEF Init, NumberedOnce
<1>2. Typed /\ NumberedOnce /\ [Next]_vars => NumberedOnce'
  BY NumberedOnceStep, Zenon DEF Typed
<1> QED
  BY TypedInvariant, <1>1, <1>2, PTL DEF Spec

(* The event of a ledger row, and the row of an event.                     *)
HasEvent(r, O) ==
  \E e \in O : e.ledger_seq = r.seq /\ e.id = r.id /\ e.payload = r.sha
HasRow(e, R) == \E r \in R : r.seq = e.ledger_seq /\ r.id = e.id

InSealOrder(O) ==
  \A e, f \in O :
    /\ e.ledger_seq = f.ledger_seq => e = f
    /\ e.id = f.id /\ e.ledger_seq < f.ledger_seq => e.oseq < f.oseq

(* The row that the trigger runs for.                                      *)
IsNew(r, s) ==
  r.seq = newSeq[s] /\ r.id = arg[s].id /\ r.sha = arg[s].body

(* What a transaction has written: an event per row but the one whose      *)
(* trigger has yet to run, numbered above the committed ones of the id.    *)
OwnEvents(s) ==
  /\ \A r \in rows[s] :
       HasEvent(r, events[s]) \/ (pc[s] = "trigger" /\ IsNew(r, s))
  /\ \A e \in events[s] : HasRow(e, rows[s]) /\ e.oseq <= outboxSeq
  /\ InSealOrder(events[s])
  /\ \A e \in events[s], f \in outbox : e.id = f.id => f.oseq < e.oseq
  /\ pc[s] = "trigger" =>
       /\ \E r \in rows[s] : IsNew(r, s)
       /\ \A e \in events[s] : e.ledger_seq < newSeq[s]

EventsInv ==
  /\ \A r \in ledger : HasEvent(r, outbox)
  /\ \A e \in outbox : HasRow(e, ledger) /\ e.oseq <= outboxSeq
  /\ InSealOrder(outbox)
  /\ \A s \in Sessions : OwnEvents(s)

(* The trigger adds the event of the row it runs for; a commit publishes   *)
(* rows and events together, of ids that nobody else has locked.           *)
LEMMA EventsStep ==
  ASSUME Typed, LocksExclude, WrittenAbove, NumberedOnce, EventsInv,
         [Next]_vars
  PROVE  EventsInv'
<1> USE DEF tables, sequences, locals, own, At, EndTxn
<1>0. /\ outbox \subseteq OutboxRow /\ outboxSeq \in Nat
      /\ \A t \in Sessions : events[t] \subseteq OutboxRow
  BY Zenon DEF Typed, TypeOK
<1>1. \A e \in OutboxRow :
        e.oseq \in Nat /\ e.ledger_seq \in Nat /\ e.id \in Ids
  BY Zenon DEF OutboxRow
<1> DEFINE Beside(t) ==
             /\ rows'[t] = rows[t] /\ events'[t] = events[t] /\ pc'[t] = pc[t]
             /\ newSeq'[t] = newSeq[t] /\ arg'[t] = arg[t]
<1>2. ASSUME NEW t \in Sessions, Beside(t),
             outboxSeq' = outboxSeq \/ outboxSeq' = outboxSeq + 1,
             \A e \in events[t], f \in outbox' : e.id = f.id => f \in outbox
      PROVE  OwnEvents(t)'
  <2>1. OwnEvents(t)
    BY ZenonT(60) DEF EventsInv
  <2>2. \A e \in events[t] : e.oseq <= outboxSeq'
    BY <1>0, <1>1, <1>2, <2>1, SMTT(60) DEF OwnEvents
  <2>3. \A r : IsNew(r, t)' <=> IsNew(r, t)
    BY <1>2, Zenon DEF IsNew
  <2> QED
    BY <1>2, <2>1, <2>2, <2>3, Zenon DEF OwnEvents
<1>3. ASSUME UNCHANGED <<ledger, outbox>>,
             outboxSeq' = outboxSeq \/ outboxSeq' = outboxSeq + 1,
             \A t \in Sessions : OwnEvents(t)'
      PROVE  EventsInv'
  <2>1. \A e \in outbox : e.oseq <= outboxSeq'
    BY <1>0, <1>1, <1>3 DEF EventsInv
  <2> QED
    BY <1>3, <2>1, ZenonT(60) DEF EventsInv
<1>4. ASSUME NEW s \in Sessions, UNCHANGED <<ledger, outbox, outboxSeq>>,
             \A t \in Sessions : t # s => Beside(t),
             rows'[s] = rows[s] /\ events'[s] = events[s],
             pc[s] # "trigger" /\ pc'[s] # "trigger"
      PROVE  EventsInv'
  <2>1. OwnEvents(s)'
    BY <1>4, Zenon DEF EventsInv, OwnEvents
  <2>2. \A t \in Sessions : t # s => OwnEvents(t)'
    BY <1>2, <1>4, Zenon
  <2> QED
    BY <1>3, <1>4, <2>1, <2>2, Zenon
<1>5. ASSUME NEW s \in Sessions, NEW id \in Ids, NEW body \in Bodies,
             SealCall(s, id, body)
      PROVE  EventsInv'
  <2>1. /\ UNCHANGED <<ledger, outbox, outboxSeq, rows, events>>
        /\ pc[s] # "trigger" /\ pc'[s] = "prev"
        /\ \A t \in Sessions : t # s => Beside(t)
    BY <1>5, Zenon DEF SealCall, Typed, TypeOK
  <2> QED
    BY <1>4, <2>1, Zenon
<1>6. ASSUME NEW s \in Sessions, ReadPrev(s) \/ Upsert(s)
      PROVE  EventsInv'
  <2>1. /\ UNCHANGED <<ledger, outbox, outboxSeq, rows, events>>
        /\ pc[s] # "trigger" /\ pc'[s] # "trigger"
        /\ \A t \in Sessions : t # s => Beside(t)
    BY <1>6, Zenon DEF ReadPrev, Upsert, Typed, TypeOK
  <2> QED
    BY <1>4, <2>1, Zenon
<1>7. ASSUME NEW s \in Sessions, NEW evidence \in Evidence,
             InsertProof(s, evidence)
      PROVE  EventsInv'
  <2>1. /\ UNCHANGED <<ledger, outbox, outboxSeq, rows, events>>
        /\ pc[s] # "trigger" /\ pc'[s] = "sealed"
        /\ \A t \in Sessions : t # s => Beside(t)
    BY <1>7, Zenon DEF InsertProof, Typed, TypeOK
  <2> QED
    BY <1>4, <2>1, Zenon
<1>8. ASSUME NEW s \in Sessions, InsertLedger(s)
      PROVE  EventsInv'
  <2> DEFINE row == [seq |-> ledgerSeq + 1, id |-> arg[s].id,
                     sha |-> arg[s].body, prev |-> vPrev[s]]
  <2>1. /\ UNCHANGED <<ledger, outbox, outboxSeq, events, arg>>
        /\ pc[s] = "ledger" /\ pc'[s] = "trigger"
        /\ rows'[s] = rows[s] \cup {row} /\ newSeq'[s] = ledgerSeq + 1
        /\ \A t \in Sessions : t # s => Beside(t)
    BY <1>8, Zenon DEF InsertLedger, Typed, TypeOK
  <2>2. \A r : r = row => IsNew(r, s)'
    <3>1. /\ row.seq = ledgerSeq + 1 /\ row.id = arg[s].id
          /\ row.sha = arg[s].body
      OBVIOUS
    <3> HIDE DEF row
    <3> QED
      BY <2>1, <3>1, ZenonT(60) DEF IsNew
  <2> HIDE DEF row
  <2>3. OwnEvents(s)
    BY Zenon DEF EventsInv
  <2>4. \A e \in events[s] : e.ledger_seq < newSeq'[s]
    <3> SUFFICES ASSUME NEW e \in events[s]
                 PROVE  e.ledger_seq < newSeq'[s]
      OBVIOUS
    <3>1. PICK r \in rows[s] : r.seq = e.ledger_seq
      BY <2>3, Zenon DEF OwnEvents, HasRow
    <3>2. r.seq <= ledgerSeq
      BY Zenon DEF Typed, Numbered
    <3>3. e.ledger_seq \in Nat /\ ledgerSeq \in Nat
      BY <1>0, <1>1, Zenon DEF Typed, TypeOK
    <3>4. newSeq'[s] = ledgerSeq + 1
      BY <2>1, Zenon
    <3> QED
      BY <3>1, <3>2, <3>3, <3>4
  <2>5. \A e \in events[s] : HasRow(e, rows'[s])
    BY <2>1, <2>3, Zenon DEF OwnEvents, HasRow
  <2>6. OwnEvents(s)'
    BY <2>1, <2>2, <2>3, <2>4, <2>5, Zenon DEF OwnEvents
  <2>7. \A t \in Sessions : t # s => OwnEvents(t)'
    BY <1>2, <2>1, Zenon
  <2> QED
    BY <1>3, <2>1, <2>6, <2>7, Zenon
<1>9. ASSUME NEW s \in Sessions, LedgerToOutbox(s)
      PROVE  EventsInv'
  <2> DEFINE ev == [oseq |-> outboxSeq + 1, ledger_seq |-> newSeq[s],
                    id |-> arg[s].id, payload |-> wrote[s][arg[s].id]]
  <2>1. /\ UNCHANGED <<ledger, outbox, rows, newSeq, arg>>
        /\ pc[s] = "trigger" /\ pc'[s] = "proof"
        /\ outboxSeq' = outboxSeq + 1
        /\ events'[s] = events[s] \cup {ev}
        /\ \A t \in Sessions : t # s => Beside(t)
    BY <1>9, ZenonT(60) DEF LedgerToOutbox, Typed, TypeOK
  <2>2. wrote[s][arg[s].id] = arg[s].body /\ newSeq[s] \in Nat
    BY <2>1 DEF Typed, TypeOK, Bound
  <2>3. /\ ev.oseq = outboxSeq + 1 /\ ev.ledger_seq = newSeq[s]
        /\ ev.id = arg[s].id /\ ev.payload = arg[s].body
    BY <2>2
  <2> HIDE DEF ev
  <2>4. OwnEvents(s)
    BY Zenon DEF EventsInv
  <2>5. \A r \in rows[s] : HasEvent(r, events'[s])
    BY <2>1, <2>3, <2>4, Zenon DEF OwnEvents, HasEvent, IsNew
  <2>6. \A e \in events'[s] : HasRow(e, rows[s])
    BY <2>1, <2>3, <2>4, ZenonT(60) DEF OwnEvents, HasRow, IsNew
  <2>7. \A e \in events[s] :
          /\ e.oseq < ev.oseq /\ e.oseq <= outboxSeq'
          /\ e.ledger_seq # ev.ledger_seq /\ ~(ev.ledger_seq < e.ledger_seq)
    <3> SUFFICES ASSUME NEW e \in events[s]
                 PROVE  /\ e.oseq < ev.oseq /\ e.oseq <= outboxSeq'
                        /\ e.ledger_seq # ev.ledger_seq
                        /\ ~(ev.ledger_seq < e.ledger_seq)
      OBVIOUS
    <3>1. e.oseq \in Nat /\ e.ledger_seq \in Nat
      BY <1>0, <1>1, Zenon
    <3>2. e.oseq <= outboxSeq /\ e.ledger_seq < newSeq[s]
      BY <2>1, <2>4, Zenon DEF OwnEvents
    <3>3. outboxSeq' = outboxSeq + 1
      BY <2>1, Zenon
    <3> QED
      BY <1>0, <2>2, <2>3, <3>1, <3>2, <3>3
  <2>8. ev.oseq <= outboxSeq' /\ ~(ev.ledger_seq < ev.ledger_seq)
    <3>1. ev.oseq = outboxSeq'
      BY <2>1, <2>3, Zenon
    <3> QED
      BY <1>0, <2>2, <2>3, <3>1
  <2>9. InSealOrder(events'[s])
    BY <2>1, <2>4, <2>7, <2>8, Zenon DEF InSealOrder, OwnEvents
  <2>10. \A f \in outbox : f.oseq < ev.oseq
    BY <1>0, <1>1, <2>3 DEF EventsInv
  <2>11. OwnEvents(s)'
    <3>1. \A e \in events'[s] : e.oseq <= outboxSeq'
      BY <2>1, <2>7, <2>8, Zenon
    <3>2. \A e \in events'[s], f \in outbox : e.id = f.id => f.oseq < e.oseq
      BY <2>1, <2>4, <2>10, Zenon DEF OwnEvents
    <3> QED
      BY <2>1, <2>5, <2>6, <2>9, <3>1, <3>2, Zenon DEF OwnEvents
  <2>12. \A t \in Sessions : t # s => OwnEvents(t)'
    BY <1>2, <2>1, ZenonT(60)
  <2> QED
    BY <1>3, <2>1, <2>11, <2>12, Zenon
<1>10. ASSUME NEW s \in Sessions, Commit(s) \/ Rollback(s)
       PROVE  /\ outboxSeq' = outboxSeq /\ OwnEvents(s)'
              /\ \A t \in Sessions : t # s => Beside(t)
  <2>1. /\ outboxSeq' = outboxSeq
        /\ rows'[s] = {} /\ events'[s] = {} /\ pc'[s] = "idle"
        /\ \A t \in Sessions : t # s => Beside(t)
    BY <1>10, ZenonT(60) DEF Commit, Rollback, Typed, TypeOK
  <2> QED
    BY <2>1 DEF OwnEvents, InSealOrder
<1>11. ASSUME NEW s \in Sessions, Rollback(s)
       PROVE  EventsInv'
  <2>1. UNCHANGED <<ledger, outbox>>
    BY <1>11, Zenon DEF Rollback
  <2>2. \A t \in Sessions : t # s => OwnEvents(t)'
    BY <1>2, <1>10, <1>11, <2>1, Zenon
  <2> QED
    BY <1>3, <1>10, <1>11, <2>1, <2>2, Zenon
<1>12. ASSUME NEW s \in Sessions, Commit(s)
       PROVE  EventsInv'
  <2>1. /\ pc[s] = "sealed"
        /\ ledger' = ledger \cup rows[s] /\ outbox' = outbox \cup events[s]
    BY <1>12, Zenon DEF Commit
  <2>2. OwnEvents(s)
    BY Zenon DEF EventsInv
  <2>3. \A r \in ledger' : HasEvent(r, outbox')
    <3>1. \A r \in rows[s] : HasEvent(r, events[s])
      BY <2>1, <2>2, Zenon DEF OwnEvents
    <3> QED
      BY <2>1, <3>1, Zenon DEF EventsInv, HasEvent
  <2>4. \A e \in outbox' : HasRow(e, ledger') /\ e.oseq <= outboxSeq'
    <3>1. \A e \in outbox : HasRow(e, ledger) /\ e.oseq <= outboxSeq
      BY Zenon DEF EventsInv
    <3>2. \A e \in events[s] : HasRow(e, rows[s]) /\ e.oseq <= outboxSeq
      BY <2>2, Zenon DEF OwnEvents
    <3>3. outboxSeq' = outboxSeq
      BY <1>10, <1>12, Zenon
    <3> QED
      BY <2>1, <3>1, <3>2, <3>3, Zenon DEF HasRow
  <2>5. ASSUME NEW e \in outbox, NEW f \in events[s]
        PROVE  /\ e.ledger_seq # f.ledger_seq
               /\ e.id = f.id => /\ e.oseq < f.oseq
                                 /\ ~(f.ledger_seq < e.ledger_seq)
    <3>1. PICK q \in ledger : q.seq = e.ledger_seq /\ q.id = e.id
      BY Zenon DEF EventsInv, HasRow
    <3>2. PICK r \in rows[s] : r.seq = f.ledger_seq /\ r.id = f.id
      BY <2>2, Zenon DEF OwnEvents, HasRow
    <3>3. r.seq # q.seq
      BY Zenon DEF NumberedOnce
    <3>4. e.id = f.id => q.seq < r.seq
      BY <3>1, <3>2 DEF WrittenAbove
    <3>5. e.id = f.id => e.oseq < f.oseq
      BY <2>2, Zenon DEF OwnEvents
    <3>6. e.ledger_seq \in Nat /\ f.ledger_seq \in Nat
      BY <1>0, <1>1, ZenonT(60)
    <3> QED
      BY <3>1, <3>2, <3>3, <3>4, <3>5, <3>6
  <2>6. InSealOrder(outbox')
    BY <2>1, <2>2, <2>5 DEF EventsInv, OwnEvents, InSealOrder
  <2>7. ASSUME NEW t \in Sessions, t # s
        PROVE  OwnEvents(t)'
    <3>1. ASSUME NEW e \in events[t], NEW f \in events[s], e.id = f.id
          PROVE  FALSE
      <4>1. PICK q \in rows[t] : q.id = e.id
        BY Zenon DEF EventsInv, OwnEvents, HasRow
      <4>2. PICK r \in rows[s] : r.id = f.id
        BY ZenonT(60) DEF EventsInv, OwnEvents, HasRow
      <4>3. e.id \in Ids
        BY <1>0, <1>1, Zenon
      <4>4. wrote[t][e.id] # None /\ wrote[s][e.id] # None
        BY <3>1, <4>1, <4>2 DEF LocksExclude
      <4> QED
        BY <2>7, <4>3, <4>4, Zenon DEF LocksExclude
    <3>2. \A e \in events[t], f \in outbox' : e.id = f.id => f \in outbox
      BY <2>1, <3>1, Zenon
    <3> QED
      BY <1>2, <1>10, <1>12, <2>7, <3>2, Zenon
  <2>8. \A t \in Sessions : OwnEvents(t)'
    BY <1>10, <1>12, <2>7, Zenon
  <2> QED
    BY <2>3, <2>4, <2>6, <2>8, Zenon DEF EventsInv
<1>13. ASSUME UNCHANGED <<tables, sequences, pc, locals, own>>
       PROVE  EventsInv'
  <2>1. \A t \in Sessions : Beside(t)
    BY <1>13
  <2>2. \A t \in Sessions : OwnEvents(t)'
    BY <1>2, <1>13, <2>1, Zenon
  <2> QED
    BY <1>3, <1>13, <2>2, ZenonT(60)
<1>14. ASSUME NEW v \in Verifiers, Verify(v)
       PROVE  EventsInv'
  BY <1>13, <1>14, VerifyReads, Zenon
<1>15. CASE UNCHANGED vars
  BY <1>13, <1>15, Zenon DEF vars
<1> QED
  BY <1>5, <1>6, <1>7, <1>8, <1>9, <1>11, <1>12, <1>14, <1>15, Zenon
  DEF Next, Seal

(* Every committed seal has one event with the body of that very ledger    *)
(* row, and the events of an instance are numbered in the order of its     *)
(* seals, for any number of sessions that seal at once.                    *)
THEOREM SealsHaveEvents == Spec => []EventsFollowSeals
<1>1. Init => EventsInv
  BY DEF Init, EventsInv, OwnEvents, InSealOrder
<1>2. Typed /\ Attested /\ NumberedOnce /\ EventsInv /\ [Next]_vars
        => EventsInv'
  BY EventsStep, Zenon DEF Attested
<1>3. EventsInv => EventsFollowSeals
  BY Zenon DEF EventsInv, EventsFollowSeals, HasEvent, HasRow, InSealOrder
<1> QED
  BY TypedInvariant, AttestedInvariant, NumberedOnceInvariant, <1>1, <1>2,
     <1>3, PTL DEF Spec

-----------------------------------------------------------------------------
(* A verification that no seal of its instance has overtaken still holds   *)
(* what the tables hold.                                                   *)
FreshCheck(c) ==
  /\ c.pc \in Running =>
       c.id \in Ids /\ c.body = instances[c.id] /\ c.body # None
  /\ c.pc \in {"proof", "prev"} => IsLatestRow(c.row, ledger, c.id)
  /\ c.pc = "prev" => c.digest = instances[c.id]

AlarmInv ==
  /\ AlarmNeedsReseal
  /\ \A v \in Verifiers :
       ~check[v].overlap => FreshCheck(check[v])

(* A commit leaves alone what a check has read unless it sealed the same   *)
(* instance; of the latest row and the last byte-proof there is only one.  *)
LEMMA AlarmStep ==
  ASSUME Typed, LocksExclude, BodyAttested, NumberedOnce, Linked, AlarmInv,
         [Next]_vars
  PROVE  AlarmInv'
<1> USE DEF tables, sequences, locals, own, At, EndTxn
<1> DEFINE Alarm(c) == c.pc = "done" /\ c.body # None /\ ~c.verdict
           Good(c) == /\ Alarm(c) => c.overlap
                      /\ ~c.overlap => FreshCheck(c)
<1>1. \A v \in Verifiers : Good(check[v])
  BY Zenon DEF AlarmInv, AlarmNeedsReseal
<1>2. ASSUME \A v \in Verifiers : Good(check[v])'
      PROVE  AlarmInv'
  BY <1>2, Zenon DEF AlarmInv, AlarmNeedsReseal
<1>3. ASSUME UNCHANGED <<instances, ledger>>
      PROVE  \A c : Good(c) <=> Good(c)'
  BY <1>3, Zenon DEF FreshCheck
<1>4. /\ ledger \subseteq LedgerRow /\ proof \subseteq ProofRow
      /\ check \in [Verifiers -> Check]
  BY Zenon DEF Typed, TypeOK
<1>5. ASSUME UNCHANGED <<instances, ledger, check>>
      PROVE  AlarmInv'
  BY <1>1, <1>2, <1>3, <1>5, Zenon
<1>6. ASSUME NEW v \in Verifiers, NEW c, check' = [check EXCEPT ![v] = c],
             UNCHANGED <<instances, ledger>>, Good(c)
      PROVE  AlarmInv'
  <2>1. \A w \in Verifiers : Good(check'[w])
    BY <1>1, <1>4, <1>6, Zenon
  <2> QED
    BY <1>2, <1>3, <1>6, <2>1, Zenon
<1>7. ASSUME NEW s \in Sessions, Commit(s)
      PROVE  AlarmInv'
  <2> SUFFICES ASSUME NEW v \in Verifiers
               PROVE  Good(check[v])'
    BY <1>2, Zenon
  <2> DEFINE c == check[v]
             resealed == c.pc \in Running /\ wrote[s][c.id] # None
  <2>1. /\ check'[v] = IF resealed THEN [c EXCEPT !.overlap = TRUE] ELSE c
        /\ ledger' = ledger \cup rows[s]
        /\ instances' = [i \in Ids |-> IF wrote[s][i] = None
                                       THEN instances[i] ELSE wrote[s][i]]
    BY <1>7, Zenon DEF Commit
  <2>2. c \in Check /\ Good(c)
    BY <1>1, <1>4, ZenonT(60)
  <2>3. CASE resealed
    <3>1. check'[v].overlap = TRUE
      BY <2>1, <2>2, <2>3 DEF Check
    <3> QED
      BY <3>1
  <2>4. CASE ~resealed /\ c.overlap
    BY <2>1, <2>4
  <2>5. CASE ~resealed /\ ~c.overlap
    <3>1. check'[v] = c /\ FreshCheck(c)
      BY <2>1, <2>2, <2>5, Zenon
    <3>2. c.pc \in Running => instances'[c.id] = instances[c.id]
      BY <2>1, <2>5, <3>1, Zenon DEF FreshCheck
    <3>3. c.pc \in Running => \A r \in rows[s] : r.id # c.id
      BY <2>5, Zenon DEF LocksExclude
    <3>4. c.pc \in {"proof", "prev"} => c.pc \in Running
      BY Zenon DEF Running
    <3>5. c.pc \in {"proof", "prev"} => IsLatestRow(c.row, ledger', c.id)
      BY <2>1, <3>1, <3>3, <3>4, ZenonT(60) DEF FreshCheck, IsLatestRow
    <3>6. c.pc = "prev" => c.digest = instances'[c.id]
      BY <3>1, <3>2 DEF FreshCheck, Running
    <3>7. FreshCheck(check[v])'
      BY <3>1, <3>2, <3>5, <3>6, Zenon DEF FreshCheck
    <3> QED
      BY <2>2, <3>1, <3>7, Zenon
  <2> QED
    BY <2>3, <2>4, <2>5, Zenon
<1>8. ASSUME NEW v \in Verifiers, NEW id \in Ids, VerifyBody(v, id)
      PROVE  AlarmInv'
  <2> DEFINE c == [NoCheck EXCEPT
                     !.pc = IF instances[id] = None THEN "done" ELSE "row",
                     !.id = id, !.body = instances[id]]
  <2>1. check' = [check EXCEPT ![v] = c] /\ UNCHANGED <<instances, ledger>>
    BY <1>8, Zenon DEF VerifyBody
  <2>2. /\ c.pc = IF instances[id] = None THEN "done" ELSE "row"
        /\ c.id = id /\ c.body = instances[id]
    BY Zenon DEF NoCheck
  <2> HIDE DEF c
  <2>3. Good(c)
    BY <2>2 DEF FreshCheck, Running
  <2> QED
    BY <1>6, <2>1, <2>3, Zenon
<1>9. ASSUME NEW v \in Verifiers, VerifyRow(v)
      PROVE  AlarmInv'
  <2>1. PICK r \in ledger :
          /\ IsLatestRow(r, ledger, check[v].id)
          /\ check' = [check EXCEPT ![v] =
                         [check[v] EXCEPT !.pc = "proof", !.row = r]]
    BY <1>9, <1>4, Zenon DEF VerifyRow
  <2> DEFINE c == [check[v] EXCEPT !.pc = "proof", !.row = r]
  <2>2. /\ c.pc = "proof" /\ c.row = r /\ c.id = check[v].id
        /\ c.body = check[v].body /\ c.overlap = check[v].overlap
    BY <1>4 DEF Check
  <2>3. check' = [check EXCEPT ![v] = c]
    BY <2>1, Zenon
  <2> HIDE DEF c
  <2>4. Good(c)
    BY <1>1, <1>9, <2>1, <2>2 DEF VerifyRow, FreshCheck, Running
  <2> QED
    BY <1>6, <1>9, <2>3, <2>4, Zenon DEF VerifyRow
<1>10. ASSUME NEW v \in Verifiers, VerifyProof(v)
       PROVE  AlarmInv'
  <2>1. PICK p \in proof :
          /\ IsByteProof(p, proof, check[v].id)
          /\ check' = [check EXCEPT ![v] =
                         [check[v] EXCEPT !.pc = "prev", !.digest = p.digest]]
    BY <1>10, <1>4, Zenon DEF VerifyProof
  <2> DEFINE c == [check[v] EXCEPT !.pc = "prev", !.digest = p.digest]
  <2>2. /\ c.pc = "prev" /\ c.row = check[v].row /\ c.id = check[v].id
        /\ c.body = check[v].body /\ c.overlap = check[v].overlap
        /\ c.digest = p.digest
    BY <1>4 DEF Check
  <2>3. check' = [check EXCEPT ![v] = c]
    BY <2>1, Zenon
  <2> HIDE DEF c
  <2>4. ASSUME ~check[v].overlap
        PROVE  p.digest = instances[check[v].id]
    <3>1. check[v].id \in Ids /\ instances[check[v].id] # None
      BY <1>1, <1>10, <2>4 DEF VerifyProof, FreshCheck, Running
    <3>2. PICK q \in proof : /\ IsByteProof(q, proof, check[v].id)
                             /\ q.digest = instances[check[v].id]
      BY <3>1, Zenon DEF BodyAttested
    <3>3. p.pid <= q.pid /\ q.pid <= p.pid
      BY <2>1, <3>2, Zenon DEF IsByteProof
    <3>4. p.pid = q.pid
      BY <1>4, <3>3 DEF ProofRow
    <3> QED
      BY <3>2, <3>4, Zenon DEF NumberedOnce
  <2>5. Good(c)
    BY <1>1, <1>10, <2>2, <2>4 DEF VerifyProof, FreshCheck, Running
  <2> QED
    BY <1>6, <1>10, <2>3, <2>5, Zenon DEF VerifyProof
<1>11. ASSUME NEW v \in Verifiers, VerifyPrev(v)
       PROVE  AlarmInv'
  <2> DEFINE verdict == Attests(check[v].body, check[v].row, check[v].digest,
                                ExpectedPrev(ledger, check[v].row.seq))
             c == [check[v] EXCEPT !.pc = "done", !.verdict = verdict]
  <2>1. check' = [check EXCEPT ![v] = c] /\ UNCHANGED <<instances, ledger>>
    BY <1>11, <1>4 DEF VerifyPrev
  <2>2. /\ c.pc = "done" /\ c.overlap = check[v].overlap
        /\ c.verdict = verdict
    BY <1>4 DEF Check
  <2>3. ASSUME ~check[v].overlap
        PROVE  verdict
    <3> DEFINE id == check[v].id
               row == check[v].row
    <3>1. /\ id \in Ids /\ check[v].body = instances[id]
          /\ instances[id] # None /\ check[v].digest = instances[id]
          /\ IsLatestRow(row, ledger, id)
      BY <1>1, <1>11, <2>3 DEF VerifyPrev, FreshCheck, Running
    <3>2. PICK r \in ledger :
            IsLatestRow(r, ledger, id) /\ r.sha = instances[id]
      BY <3>1, Zenon DEF BodyAttested
    <3>3. row \in ledger /\ row.seq <= r.seq /\ r.seq <= row.seq
      BY <3>1, <3>2, Zenon DEF IsLatestRow
    <3>4. row.seq = r.seq
      BY <1>4, <3>3 DEF LedgerRow
    <3>5. row = r
      BY <3>3, <3>4, Zenon DEF NumberedOnce
    <3>6. row.prev = ExpectedPrev(ledger, row.seq)
      BY <1>4, <3>3, LinkedPrev, Zenon DEF Linked
    <3> QED
      BY <3>1, <3>2, <3>5, <3>6, Zenon DEF Attests
  <2> HIDE DEF c, verdict
  <2>4. Good(c)
    BY <2>2, <2>3 DEF FreshCheck, Running
  <2> QED
    BY <1>6, <2>1, <2>4, Zenon
<1>12. ASSUME NEW s \in Sessions, Seal(s)
       PROVE  AlarmInv'
  <2>1. CASE Commit(s)
    BY <1>7, <2>1, Zenon
  <2>2. CASE ~Commit(s)
    <3>1. UNCHANGED <<instances, ledger, check>>
      BY <1>12, <2>2, Zenon DEF Seal, SealCall, ReadPrev, Upsert,
         InsertLedger, LedgerToOutbox, InsertProof, Rollback
    <3> QED
      BY <1>5, <3>1, Zenon
  <2> QED
    BY <2>1, <2>2, Zenon
<1>13. CASE UNCHANGED vars
  BY <1>5, <1>13, Zenon DEF vars
<1> QED
  BY <1>8, <1>9, <1>10, <1>11, <1>12, <1>13, Zenon DEF Next, Verify

(* ckp.verify runs statement by statement beside a sole writer and reads a *)
(* new snapshot each time; it answers false for a sealed instance only if  *)
(* that instance was sealed again in between.                              *)
THEOREM SoleWriterNoFalseAlarm ==
  ASSUME SoleWriter
  PROVE  Spec => []AlarmNeedsReseal
<1>1. Init => AlarmInv
  BY DEF Init, AlarmInv, AlarmNeedsReseal, FreshCheck, NoCheck, Running
<1>2. /\ Typed /\ Attested /\ NumberedOnce /\ Linked /\ AlarmInv
      /\ [Next]_vars
      => AlarmInv'
  BY AlarmStep, Zenon DEF Attested
<1>3. AlarmInv => AlarmNeedsReseal
  BY Zenon DEF AlarmInv
<1> QED
  BY TypedInvariant, AttestedInvariant, NumberedOnceInvariant,
     LinkedInvariant, <1>1, <1>2, <1>3, PTL DEF Spec
-----------------------------------------------------------------------------
(* The refinement: rows that are numbered once, within the bound, and      *)
(* linked have one history.                                                *)
OneHistory(L) ==
  /\ L \subseteq LedgerRow
  /\ LinkedRows(L)
  /\ \A r, q \in L : r.seq = q.seq => r = q
  /\ \A r \in L : 0 < r.seq /\ r.seq <= MaxSeq

Entry == [id : Ids, sha : Bodies]

(* A step of the walk: the history that ends in n, given the shorter ones. *)
Onward(L, f, n) ==
  IF \E q \in L : q.seq = n
  THEN LET r == CHOOSE q \in L : q.seq = n
       IN Append(f[r.prev], [id |-> r.id, sha |-> r.sha])
  ELSE <<>>

(* Genesis, or the number of a row.                                        *)
Ended(L, n) == n = 0 \/ \E q \in L : q.seq = n

(* A set of naturals that is not empty has a least element.                *)
LEMMA LeastNumber ==
  ASSUME NEW S \in SUBSET Nat, S # {}
  PROVE  \E m \in S : \A y \in S : ~(y < m)
<1>1. IsWellFoundedOn(OpToRel(<, Nat), Nat)
  BY NatLessThanWellFounded, Zenon
<1>2. PICK m \in S : \A y \in S : ~(<<y, m>> \in OpToRel(<, Nat))
  BY <1>1, WFMin, Zenon
<1>3. \A y \in S : ~(y < m)
  BY <1>2, Zenon DEF OpToRel
<1> QED
  BY <1>3, Zenon

(* The row a number names is the one CHOOSE takes.                         *)
LEMMA RowOfNumber ==
  ASSUME NEW L, OneHistory(L), NEW r \in L
  PROVE  (CHOOSE q \in L : q.seq = r.seq) = r
  BY Zenon DEF OneHistory

(* The ranges of the numbers in a row.                                     *)
LEMMA RowNumbers ==
  ASSUME NEW L, OneHistory(L), NEW r \in L
  PROVE  /\ r.seq \in Nat /\ r.prev \in Nat /\ r.prev < r.seq
         /\ r.seq \in 1..MaxSeq /\ r.prev \in 0..MaxSeq /\ r.prev \in 0..(r.seq - 1)
         /\ r.id \in Ids /\ r.sha \in Bodies /\ Ended(L, r.prev)
<1>1. /\ r \in LedgerRow /\ 0 < r.seq /\ r.seq <= MaxSeq /\ r.prev < r.seq
      /\ r.prev # 0 => \E q \in L : q.seq = r.prev
  BY Zenon DEF OneHistory, LinkedRows
<1>2. r.seq \in Nat /\ r.prev \in Nat /\ r.id \in Ids /\ r.sha \in Bodies
  BY <1>1, Zenon DEF LedgerRow
<1>3. Ended(L, r.prev)
  BY <1>1, Zenon DEF Ended
<1>4. /\ r.seq \in 1..MaxSeq /\ r.prev \in 0..MaxSeq
      /\ r.prev \in 0..(r.seq - 1)
  BY <1>1, <1>2, MaxSeqAssumption
<1> QED
  BY <1>1, <1>2, <1>3, <1>4, Zenon

(* A step of the walk looks at shorter histories only.                     *)
LEMMA OnwardLocal ==
  ASSUME NEW L, OneHistory(L), NEW n, NEW f, NEW g,
         \A i \in 0..(n - 1) : f[i] = g[i]
  PROVE  Onward(L, f, n) = Onward(L, g, n)
<1>1. CASE \E q \in L : q.seq = n
  <2>1. PICK r \in L : r.seq = n
    BY <1>1, Zenon
  <2>2. (CHOOSE q \in L : q.seq = n) = r
    BY <2>1, RowOfNumber, ZenonT(60)
  <2>3. f[r.prev] = g[r.prev]
    BY <2>1, RowNumbers, Zenon
  <2> QED
    BY <1>1, <2>2, <2>3, Zenon DEF Onward
<1>2. CASE ~\E q \in L : q.seq = n
  BY <1>2, Zenon DEF Onward
<1> QED
  BY <1>1, <1>2, Zenon

(* The walk exists.                                                        *)
LEMMA WalkExists ==
  ASSUME NEW L, OneHistory(L)
  PROVE  \E f : f = [n \in 0..MaxSeq |-> Onward(L, f, n)]
<1> DEFINE Walk(f, k) == \A n \in 0..k : f[n] = Onward(L, f, n)
           S == {k \in 0..MaxSeq : \A f : ~Walk(f, k)}
<1>1. S = {}
  <2> SUFFICES ASSUME S # {}
               PROVE  FALSE
    OBVIOUS
  <2>1. S \in SUBSET Nat
    BY MaxSeqAssumption
  <2> HIDE DEF S
  <2>2. PICK m \in S : \A y \in S : ~(y < m)
    BY <2>1, LeastNumber, Zenon
  <2>3. m \in 0..MaxSeq /\ m \in Nat /\ \A f : ~Walk(f, m)
    BY <2>1, <2>2, Zenon DEF S
  <2> HIDE DEF Walk
  <2>4. \E g : \A n \in 0..(m - 1) : g[n] = Onward(L, g, n)
    <3>1. CASE m = 0
      <4>1. 0..(m - 1) = {}
        BY <3>1
      <4> QED
        BY <4>1, Zenon
    <3>2. CASE m # 0
      <4>1. m - 1 \in 0..MaxSeq /\ m - 1 < m
        BY <2>3, <3>2, MaxSeqAssumption
      <4>2. m - 1 \notin S
        BY <2>2, <4>1, Zenon
      <4>3. PICK g : Walk(g, m - 1)
        BY <4>1, <4>2, Zenon DEF S
      <4> QED
        BY <4>3, Zenon DEF Walk
    <3> QED
      BY <3>1, <3>2
  <2>5. PICK g : \A n \in 0..(m - 1) : g[n] = Onward(L, g, n)
    BY <2>4, Zenon
  <2> DEFINE h == [n \in 0..m |-> IF n = m THEN Onward(L, g, m) ELSE g[n]]
  <2>6. \A i \in 0..(m - 1) : h[i] = g[i]
    <3>1. \A i \in 0..(m - 1) : i \in 0..m /\ i # m
      BY <2>3
    <3> QED
      BY <3>1, Zenon
  <2>7. h[m] = Onward(L, g, m)
    <3>1. m \in 0..m
      BY <2>3
    <3> QED
      BY <3>1, Zenon
  <2> HIDE DEF h
  <2>8. ASSUME NEW n \in 0..m
        PROVE  h[n] = Onward(L, h, n)
    <3>1. n \in 0..(m - 1) \/ n = m
      BY <2>3
    <3>2. \A i \in 0..(n - 1) : i \in 0..(m - 1)
      BY <2>3
    <3>3. \A i \in 0..(n - 1) : h[i] = g[i]
      BY <2>6, <3>2, Zenon
    <3>4. Onward(L, h, n) = Onward(L, g, n)
      BY <3>3, OnwardLocal, Zenon
    <3> QED
      BY <2>5, <2>6, <2>7, <3>1, <3>4, Zenon
  <2> QED
    BY <2>3, <2>8, Zenon DEF Walk
<1>2. PICK f : \A n \in 0..MaxSeq : f[n] = Onward(L, f, n)
  <2>1. MaxSeq \in 0..MaxSeq
    BY MaxSeqAssumption
  <2> QED
    BY <1>1, <2>1, Zenon
<1> DEFINE F == [n \in 0..MaxSeq |-> f[n]]
<1>3. \A n \in 0..MaxSeq : F[n] = f[n]
  OBVIOUS
<1> HIDE DEF F
<1>4. ASSUME NEW n \in 0..MaxSeq
      PROVE  f[n] = Onward(L, F, n)
  <2>1. \A i \in 0..(n - 1) : i \in 0..MaxSeq
    BY MaxSeqAssumption
  <2>2. Onward(L, F, n) = Onward(L, f, n)
    BY <1>3, <2>1, OnwardLocal, Zenon
  <2> QED
    BY <1>2, <2>2, Zenon
<1>5. F = [n \in 0..MaxSeq |-> Onward(L, F, n)]
  BY <1>4, Zenon DEF F
<1> QED
  BY <1>5, Zenon

(* The walk back from any number takes one step.                           *)
LEMMA WalkSteps ==
  ASSUME NEW L, OneHistory(L)
  PROVE  \A n \in 0..MaxSeq : WalkBack(L)[n] = Onward(L, WalkBack(L), n)
<1>1. PICK f : f = [n \in 0..MaxSeq |-> Onward(L, f, n)]
  BY WalkExists, Zenon
<1>2. WalkBack(L) = [n \in 0..MaxSeq |-> Onward(L, WalkBack(L), n)]
  BY <1>1, Zenon DEF WalkBack, Onward
<1> QED
  BY <1>2, Zenon

(* A row's history is its predecessor's and the row; before the first row  *)
(* there is none.                                                          *)
LEMMA WalkFromRow ==
  ASSUME NEW L, OneHistory(L)
  PROVE  /\ WalkBack(L)[0] = <<>>
         /\ \A r \in L : WalkBack(L)[r.seq] =
              Append(WalkBack(L)[r.prev], [id |-> r.id, sha |-> r.sha])
<1>1. 0 \in 0..MaxSeq
  BY MaxSeqAssumption
<1>2. ~\E q \in L : q.seq = 0
  <2>1. \A q \in L : q.seq \in 1..MaxSeq
    BY RowNumbers, Zenon
  <2> QED
    BY <2>1, MaxSeqAssumption
<1>3. WalkBack(L)[0] = <<>>
  BY <1>1, <1>2, WalkSteps, Zenon DEF Onward
<1>4. ASSUME NEW r \in L
      PROVE  WalkBack(L)[r.seq] =
               Append(WalkBack(L)[r.prev], [id |-> r.id, sha |-> r.sha])
  <2>1. r.seq \in 0..MaxSeq
    <3>1. r.seq \in 1..MaxSeq
      BY RowNumbers, Zenon
    <3> QED
      BY <3>1, MaxSeqAssumption
  <2>2. WalkBack(L)[r.seq] = Onward(L, WalkBack(L), r.seq)
    BY <2>1, WalkSteps, Zenon
  <2>3. (CHOOSE q \in L : q.seq = r.seq) = r
    BY RowOfNumber, Zenon
  <2> QED
    BY <2>2, <2>3, Zenon DEF Onward
<1> QED
  BY <1>3, <1>4, Zenon

(* Induction on the numbers of rows, for a set of them.                    *)
LEMMA UpTheNumbers ==
  ASSUME NEW G,
         \A n \in 0..MaxSeq : (\A i \in 0..(n - 1) : i \in G) => n \in G
  PROVE  \A n \in 0..MaxSeq : n \in G
<1> DEFINE S == {n \in 0..MaxSeq : n \notin G}
<1> SUFFICES ASSUME S # {}
             PROVE  FALSE
  BY Zenon
<1>1. S \in SUBSET Nat
  BY MaxSeqAssumption
<1>2. PICK m \in S : \A y \in S : ~(y < m)
  BY <1>1, LeastNumber, Zenon
<1>3. m \in 0..MaxSeq /\ m \notin G
  BY <1>2, Zenon
<1>4. \A i \in 0..(m - 1) : i \in 0..MaxSeq /\ i < m
  BY <1>3, MaxSeqAssumption
<1>5. \A i \in 0..(m - 1) : i \in G
  BY <1>2, <1>4, Zenon
<1> QED
  BY <1>3, <1>5, Zenon

(* The history that ends in a row is a sequence of entries.                *)
LEMMA WalkType ==
  ASSUME NEW L, OneHistory(L), NEW n \in 0..MaxSeq
  PROVE  WalkBack(L)[n] \in Seq(Entry)
<1> DEFINE W == WalkBack(L)
           G == {i \in 0..MaxSeq : W[i] \in Seq(Entry)}
<1>1. ASSUME NEW k \in 0..MaxSeq, \A i \in 0..(k - 1) : i \in G
      PROVE  W[k] \in Seq(Entry)
  <2>1. CASE \E q \in L : q.seq = k
    <3>1. PICK r \in L : r.seq = k
      BY <2>1, Zenon
    <3>2. W[k] = Append(W[r.prev], [id |-> r.id, sha |-> r.sha])
      BY <3>1, WalkFromRow, Zenon
    <3>3. r.prev \in 0..(k - 1) /\ r.id \in Ids /\ r.sha \in Bodies
      BY <3>1, RowNumbers, Zenon
    <3>4. W[r.prev] \in Seq(Entry)
      BY <1>1, <3>3, Zenon
    <3>5. [id |-> r.id, sha |-> r.sha] \in Entry
      BY <3>3, Zenon DEF Entry
    <3> HIDE DEF W, G
    <3> QED
      BY <3>2, <3>4, <3>5
  <2>2. CASE ~\E q \in L : q.seq = k
    <3>1. W[k] = <<>>
      BY <2>2, WalkSteps, Zenon DEF Onward
    <3> HIDE DEF W
    <3> QED
      BY <3>1
  <2> QED
    BY <2>1, <2>2, Zenon
<1>2. \A k \in 0..MaxSeq : (\A i \in 0..(k - 1) : i \in G) => k \in G
  BY <1>1, Zenon
<1> HIDE DEF G
<1>3. n \in G
  BY <1>2, UpTheNumbers, Zenon
<1> QED
  BY <1>3, Zenon DEF G, W

(* Rows that join leave the history of an older row as it was.             *)
LEMMA WalkKept ==
  ASSUME NEW L, OneHistory(L), NEW M, OneHistory(M), L \subseteq M,
         NEW n \in 0..MaxSeq, Ended(L, n)
  PROVE  WalkBack(M)[n] = WalkBack(L)[n]
<1> DEFINE V == WalkBack(L)
           W == WalkBack(M)
           G == {i \in 0..MaxSeq : Ended(L, i) => W[i] = V[i]}
<1>1. ASSUME NEW k \in 0..MaxSeq, \A i \in 0..(k - 1) : i \in G, Ended(L, k)
      PROVE  W[k] = V[k]
  <2>1. CASE k = 0
    BY <2>1, WalkFromRow, Zenon
  <2>2. CASE \E q \in L : q.seq = k
    <3>1. PICK r \in L : r.seq = k
      BY <2>2, Zenon
    <3>2. /\ W[k] = Append(W[r.prev], [id |-> r.id, sha |-> r.sha])
          /\ V[k] = Append(V[r.prev], [id |-> r.id, sha |-> r.sha])
      BY <3>1, WalkFromRow, Zenon
    <3>3. r.prev \in 0..(k - 1) /\ Ended(L, r.prev)
      BY <3>1, RowNumbers, Zenon
    <3>4. W[r.prev] = V[r.prev]
      BY <1>1, <3>3, Zenon
    <3> QED
      BY <3>2, <3>4, Zenon
  <2> QED
    BY <1>1, <2>1, <2>2, Zenon DEF Ended
<1>2. \A k \in 0..MaxSeq : (\A i \in 0..(k - 1) : i \in G) => k \in G
  BY <1>1, Zenon
<1> HIDE DEF G
<1>3. n \in G
  BY <1>2, UpTheNumbers, Zenon
<1> QED
  BY <1>3, Zenon DEF G, W, V

(* The history of a later row continues that of an earlier one.            *)
Continues(h, g) ==
  Len(h) < Len(g) /\ \A i \in 1..Len(h) : g[i] = h[i]

LEMMA WalkContinues ==
  ASSUME NEW L, OneHistory(L), NEW m \in 0..MaxSeq, Ended(L, m),
         NEW n \in 0..MaxSeq, Ended(L, n), m < n
  PROVE  Continues(WalkBack(L)[m], WalkBack(L)[n])
<1> DEFINE W == WalkBack(L)
           G == {i \in 0..MaxSeq : Ended(L, i) /\ m < i => Continues(W[m], W[i])}
<1>0. \A i \in 0..MaxSeq : W[i] \in Seq(Entry)
  BY WalkType, Zenon
<1>1. ASSUME NEW k \in 0..MaxSeq, \A i \in 0..(k - 1) : i \in G,
             Ended(L, k), m < k
      PROVE  Continues(W[m], W[k])
  <2>1. k # 0
    BY <1>1
  <2>2. PICK r \in L : r.seq = k
    BY <1>1, <2>1, Zenon DEF Ended
  <2>3. W[k] = Append(W[r.prev], [id |-> r.id, sha |-> r.sha])
    BY <2>2, WalkFromRow, Zenon
  <2>4. /\ r.prev \in 0..(k - 1) /\ r.prev \in 0..MaxSeq /\ r.prev \in Nat
        /\ r.id \in Ids /\ r.sha \in Bodies /\ Ended(L, r.prev)
    BY <2>2, RowNumbers, Zenon
  <2>5. m <= r.prev
    <3>1. CASE m = 0
      BY <2>4, <3>1
    <3>2. CASE \E q \in L : q.seq = m
      BY <1>1, <2>2, <3>2, ZenonT(60) DEF OneHistory, LinkedRows
    <3> QED
      BY <3>1, <3>2, Zenon DEF Ended
  <2>6. r.prev = m \/ m < r.prev
    BY <2>4, <2>5
  <2>7. r.prev = m \/ Continues(W[m], W[r.prev])
    BY <1>1, <2>4, <2>6, Zenon
  <2>8. W[r.prev] \in Seq(Entry) /\ W[m] \in Seq(Entry)
    BY <1>0, <2>4, Zenon
  <2>9. [id |-> r.id, sha |-> r.sha] \in Entry
    BY <2>4, ZenonT(60) DEF Entry
  <2> HIDE DEF W, G
  <2>10. /\ Len(W[k]) = Len(W[r.prev]) + 1
         /\ \A i \in 1..Len(W[r.prev]) : W[k][i] = W[r.prev][i]
    BY <2>3, <2>8, <2>9
  <2>11. Len(W[m]) \in Nat /\ Len(W[r.prev]) \in Nat
    BY <2>8
  <2>12. CASE r.prev = m
    BY <2>10, <2>11, <2>12 DEF Continues
  <2>13. CASE Continues(W[m], W[r.prev])
    <3>1. Len(W[m]) < Len(W[k])
      BY <2>10, <2>11, <2>13, SMTT(60) DEF Continues
    <3>2. \A i \in 1..Len(W[m]) : i \in 1..Len(W[r.prev])
      BY <2>11, <2>13 DEF Continues
    <3> QED
      BY <2>10, <2>13, <3>1, <3>2, ZenonT(60) DEF Continues
  <2> QED
    BY <2>7, <2>12, <2>13, Zenon
<1>2. \A k \in 0..MaxSeq : (\A i \in 0..(k - 1) : i \in G) => k \in G
  BY <1>1, Zenon
<1> HIDE DEF G
<1>3. n \in G
  BY <1>2, UpTheNumbers, Zenon
<1> QED
  BY <1>3, Zenon DEF G, W

(* The last entry of an instance in the history that ends in n is that of  *)
(* its latest row up to n.                                                 *)
EndsIn(h, id, sha) ==
  \E k \in 1..Len(h) :
    /\ h[k].id = id /\ h[k].sha = sha
    /\ \A i \in 1..Len(h) : h[i].id = id => i <= k

LatestUpTo(r, L, id, n) ==
  /\ r \in L /\ r.id = id /\ r.seq <= n
  /\ \A q \in L : q.id = id /\ q.seq <= n => q.seq <= r.seq

LEMMA WalkLatest ==
  ASSUME NEW L, OneHistory(L), NEW n \in 0..MaxSeq, Ended(L, n), NEW id
  PROVE  \/ /\ \A r \in L : r.seq <= n => r.id # id
            /\ \A i \in 1..Len(WalkBack(L)[n]) : WalkBack(L)[n][i].id # id
         \/ \E r : LatestUpTo(r, L, id, n) /\ EndsIn(WalkBack(L)[n], id, r.sha)
<1> DEFINE W == WalkBack(L)
           Absent(k) == /\ \A r \in L : r.seq <= k => r.id # id
                        /\ \A i \in 1..Len(W[k]) : W[k][i].id # id
           Present(k) == \E r : LatestUpTo(r, L, id, k) /\ EndsIn(W[k], id, r.sha)
           G == {i \in 0..MaxSeq : Ended(L, i) => Absent(i) \/ Present(i)}
<1>0. \A i \in 0..MaxSeq : W[i] \in Seq(Entry)
  BY WalkType, Zenon
<1>1. ASSUME NEW k \in 0..MaxSeq, \A i \in 0..(k - 1) : i \in G, Ended(L, k)
      PROVE  Absent(k) \/ Present(k)
  <2>1. CASE k = 0
    <3>1. \A r \in L : ~(r.seq <= 0)
      <4>1. \A r \in L : r.seq \in 1..MaxSeq
        BY RowNumbers, Zenon
      <4> QED
        BY <4>1, MaxSeqAssumption
    <3>2. W[0] = <<>>
      BY WalkFromRow, Zenon
    <3> HIDE DEF W
    <3>3. \A i \in 1..Len(W[0]) : W[0][i].id # id
      BY <3>2
    <3> QED
      BY <2>1, <3>1, <3>3, Zenon
  <2>2. CASE k # 0
    <3>1. PICK r \in L : r.seq = k
      BY <1>1, <2>2, Zenon DEF Ended
    <3> DEFINE e == [id |-> r.id, sha |-> r.sha]
               p == r.prev
    <3>2. W[k] = Append(W[p], e)
      BY <3>1, WalkFromRow, Zenon
    <3>3. /\ p \in 0..(k - 1) /\ p \in 0..MaxSeq /\ p \in Nat /\ k \in Nat /\ p < k
          /\ r.id \in Ids /\ r.sha \in Bodies /\ Ended(L, p)
      BY <3>1, RowNumbers, Zenon
    <3>4. Absent(p) \/ Present(p)
      BY <1>1, <3>3, Zenon
    <3>5. W[p] \in Seq(Entry) /\ e \in Entry /\ e.id = r.id /\ e.sha = r.sha
      BY <1>0, <3>3, Zenon DEF Entry
    <3>6. \A q \in L : q.seq <= k => q = r \/ q.seq <= p
      <4>1. \A q \in L : q.seq < k => q.seq <= p
        BY <3>1, Zenon DEF OneHistory, LinkedRows
      <4>2. \A q \in L : q.seq = k => q = r
        BY <3>1, Zenon DEF OneHistory
      <4>3. \A q \in L : q.seq \in Nat
        BY RowNumbers, Zenon
      <4>4. \A q \in L : q.seq <= k => q.seq < k \/ q.seq = k
        BY <3>3, <4>3
      <4> QED
        BY <4>1, <4>2, <4>4, Zenon
    <3>7. \A q \in L : q.seq <= p => q.seq <= k
      <4>1. \A q \in L : q.seq \in Nat
        BY RowNumbers, Zenon
      <4> QED
        BY <3>3, <4>1, SMTT(60)
    <3> HIDE DEF W, e, p
    <3>8. /\ Len(W[p]) \in Nat /\ Len(W[k]) = Len(W[p]) + 1
          /\ \A i \in 1..Len(W[p]) : W[k][i] = W[p][i]
          /\ W[k][Len(W[p]) + 1] = e
      BY <3>2, <3>5, SMTT(60)
    <3>9. \A i \in 1..Len(W[k]) : i \in 1..Len(W[p]) \/ i = Len(W[p]) + 1
      BY <3>8, SMTT(60)
    <3>10. /\ \A i \in 1..Len(W[p]) : i \in 1..Len(W[k])
           /\ Len(W[p]) + 1 \in 1..Len(W[k])
           /\ \A i \in 1..Len(W[k]) : i <= Len(W[p]) + 1
           /\ k <= k
      BY <3>3, <3>8
    <3>11. CASE r.id = id
      <4>1. EndsIn(W[k], id, r.sha)
        BY <3>5, <3>8, <3>10, <3>11, Zenon DEF EndsIn
      <4>2. LatestUpTo(r, L, id, k)
        BY <3>1, <3>10, <3>11, Zenon DEF LatestUpTo
      <4> QED
        BY <4>1, <4>2, Zenon
    <3>12. CASE r.id # id /\ Absent(p)
      <4>1. \A q \in L : q.seq <= k => q.id # id
        BY <3>6, <3>12, Zenon
      <4>2. \A i \in 1..Len(W[k]) : W[k][i].id # id
        BY <3>5, <3>8, <3>9, <3>12, Zenon
      <4> QED
        BY <4>1, <4>2, Zenon
    <3>13. CASE r.id # id /\ Present(p)
      <4>1. PICK q : LatestUpTo(q, L, id, p) /\ EndsIn(W[p], id, q.sha)
        BY <3>13, Zenon
      <4>2. LatestUpTo(q, L, id, k)
        BY <3>6, <3>7, <3>13, <4>1, Zenon DEF LatestUpTo
      <4>3. \A i \in 1..Len(W[k]) : W[k][i].id = id =>
              i \in 1..Len(W[p]) /\ W[p][i].id = id
        BY <3>5, <3>8, <3>9, <3>13, Zenon
      <4>4. PICK j \in 1..Len(W[p]) :
              /\ W[p][j].id = id /\ W[p][j].sha = q.sha
              /\ \A i \in 1..Len(W[p]) : W[p][i].id = id => i <= j
        BY <4>1, Zenon DEF EndsIn
      <4>5. W[k][j] = W[p][j] /\ j \in 1..Len(W[k])
        BY <3>8, <3>10, Zenon
      <4>6. EndsIn(W[k], id, q.sha)
        BY <4>3, <4>4, <4>5, Zenon DEF EndsIn
      <4> QED
        BY <4>2, <4>6, Zenon
    <3> QED
      BY <3>4, <3>11, <3>12, <3>13, Zenon
  <2> QED
    BY <2>1, <2>2, Zenon
<1>2. \A k \in 0..MaxSeq : (\A i \in 0..(k - 1) : i \in G) => k \in G
  BY <1>1, Zenon
<1> HIDE DEF G
<1>3. n \in G
  BY <1>2, UpTheNumbers, Zenon
<1> QED
  BY <1>3, Zenon DEF G, W

(* The last digest of an instance in the history of all rows is that of    *)
(* its latest row.                                                         *)
LEMMA LastOfHistory ==
  ASSUME NEW h \in Seq(Entry), NEW id, NEW sha, EndsIn(h, id, sha)
  PROVE  Chain!LastOf(h, id) = sha
<1> DEFINE at == {k \in DOMAIN h : h[k].id = id}
<1>1. DOMAIN h = 1..Len(h) /\ Len(h) \in Nat
  OBVIOUS
<1>2. PICK k \in 1..Len(h) : /\ h[k].id = id /\ h[k].sha = sha
                             /\ \A i \in 1..Len(h) : h[i].id = id => i <= k
  BY Zenon DEF EndsIn
<1>3. k \in at /\ \A m \in at : m <= k
  BY <1>1, <1>2, Zenon
<1> DEFINE c == CHOOSE m \in at : \A i \in at : i <= m
<1>4. c \in at /\ \A i \in at : i <= c
  BY <1>3, Zenon
<1>5. c \in Nat /\ k \in Nat
  BY <1>1, <1>4
<1>6. c <= k /\ k <= c
  BY <1>3, <1>4, Zenon
<1> HIDE DEF c
<1>7. c = k
  BY <1>5, <1>6
<1>8. at # {}
  BY <1>3, Zenon
<1>9. Chain!LastOf(h, id) = h[c].sha
  BY <1>8, Zenon DEF Chain!LastOf, c
<1> QED
  BY <1>2, <1>7, <1>9, Zenon

(* max(seq) of linked rows is genesis or a row's, within the bound.        *)
LEMMA HistoryHead ==
  ASSUME NEW L, OneHistory(L), HasMax(L)
  PROVE  /\ MaxSeqOf(L) \in 0..MaxSeq /\ Ended(L, MaxSeqOf(L))
         /\ \A r \in L : r.seq <= MaxSeqOf(L)
<1>1. L \in SUBSET LedgerRow
  BY Zenon DEF OneHistory
<1>2. /\ MaxSeqOf(L) \in Nat
      /\ \A r \in L : r.seq <= MaxSeqOf(L)
      /\ MaxSeqOf(L) # 0 => \E r \in L : r.seq = MaxSeqOf(L)
  BY <1>1, MaxSeqOfMax, Zenon
<1>3. MaxSeqOf(L) # 0 => MaxSeqOf(L) <= MaxSeq
  BY <1>2, Zenon DEF OneHistory
<1>4. MaxSeqOf(L) \in 0..MaxSeq
  BY <1>2, <1>3, MaxSeqAssumption
<1> QED
  BY <1>2, <1>4, Zenon DEF Ended

(* Bodies that their latest rows carry are the latest facts of the history.*)
LEMMA FactsAreCurrent ==
  ASSUME NEW L, OneHistory(L), HasMax(L), NEW I \in [Ids -> Bodies \cup {None}],
         \A id \in Ids : I[id] # None =>
           \E r \in L : IsLatestRow(r, L, id) /\ r.sha = I[id],
         \A r \in L : I[r.id] # None
  PROVE  I = Chain!Current(WalkBack(L)[MaxSeqOf(L)])
<1> DEFINE n == MaxSeqOf(L)
           h == WalkBack(L)[n]
<1>1. n \in 0..MaxSeq /\ Ended(L, n) /\ \A r \in L : r.seq <= n
  BY HistoryHead, Zenon
<1>2. h \in Seq(Entry)
  BY <1>1, WalkType, Zenon
<1>3. ASSUME NEW id \in Ids
      PROVE  I[id] = Chain!LastOf(h, id)
  <2>1. \/ /\ \A r \in L : r.seq <= n => r.id # id
           /\ \A i \in 1..Len(h) : h[i].id # id
        \/ \E r : LatestUpTo(r, L, id, n) /\ EndsIn(h, id, r.sha)
    BY <1>1, WalkLatest, Zenon
  <2> HIDE DEF h
  <2>2. CASE /\ \A r \in L : r.seq <= n => r.id # id
             /\ \A i \in 1..Len(h) : h[i].id # id
    <3>1. \A r \in L : r.id # id
      BY <1>1, <2>2, Zenon
    <3>2. I[id] = None
      BY <3>1, Zenon DEF IsLatestRow
    <3>3. DOMAIN h = 1..Len(h)
      BY <1>2
    <3>4. Chain!LastOf(h, id) = None
      BY <2>2, <3>3, Zenon DEF Chain!LastOf
    <3> QED
      BY <3>2, <3>4, Zenon
  <2>3. CASE \E r : LatestUpTo(r, L, id, n) /\ EndsIn(h, id, r.sha)
    <3>1. PICK r : LatestUpTo(r, L, id, n) /\ EndsIn(h, id, r.sha)
      BY <2>3, Zenon
    <3>2. r \in L /\ r.id = id
      BY <3>1, Zenon DEF LatestUpTo
    <3>3. PICK q \in L : IsLatestRow(q, L, id) /\ q.sha = I[id]
      BY <3>2, Zenon
    <3>4. q.seq <= r.seq /\ r.seq <= q.seq
      BY <1>1, <3>1, <3>2, <3>3, Zenon DEF LatestUpTo, IsLatestRow
    <3>5. q.seq \in Nat /\ r.seq \in Nat
      BY <3>2, <3>3, RowNumbers, Zenon
    <3>6. q.seq = r.seq
      BY <3>4, <3>5
    <3>7. q = r
      BY <3>2, <3>6, Zenon DEF OneHistory
    <3>8. Chain!LastOf(h, id) = r.sha
      BY <1>2, <3>1, LastOfHistory, Zenon
    <3> QED
      BY <3>3, <3>7, <3>8, Zenon
  <2> QED
    BY <2>1, <2>2, <2>3, Zenon
<1> HIDE DEF h
<1>4. I = Chain!Current(h)
  BY <1>3, Zenon DEF Chain!Current
<1> QED
  BY <1>4, Zenon DEF h

(* The history of more rows is the same or continues the old one.          *)
LEMMA HistoryGrows ==
  ASSUME NEW L, OneHistory(L), HasMax(L), NEW M, OneHistory(M), HasMax(M),
         L \subseteq M,
         NEW g, g = WalkBack(L)[MaxSeqOf(L)],
         NEW h, h = WalkBack(M)[MaxSeqOf(M)]
  PROVE  h = g \/ (Len(g) < Len(h) /\ SubSeq(h, 1, Len(g)) = g)
<1> DEFINE m == MaxSeqOf(L)
           n == MaxSeqOf(M)
<1>1. m \in 0..MaxSeq /\ Ended(L, m)
  BY HistoryHead, Zenon
<1>2. n \in 0..MaxSeq /\ Ended(M, n) /\ \A r \in M : r.seq <= n
  BY HistoryHead, Zenon
<1>3. Ended(M, m)
  BY <1>1, Zenon DEF Ended
<1>4. g = WalkBack(M)[m]
  BY <1>1, WalkKept, Zenon
<1>5. m <= n
  <2>1. CASE m = 0
    BY <1>2, <2>1, MaxSeqAssumption
  <2>2. CASE \E q \in M : q.seq = m
    BY <1>2, <2>2, Zenon
  <2> QED
    BY <1>3, <2>1, <2>2, Zenon DEF Ended
<1>6. CASE m = n
  BY <1>4, <1>6, Zenon
<1>7. CASE m < n
  <2>1. g \in Seq(Entry) /\ h \in Seq(Entry)
    BY <1>1, <1>2, <1>4, WalkType, Zenon
  <2>2. Continues(g, h)
    BY <1>1, <1>2, <1>3, <1>4, <1>7, WalkContinues, ZenonT(60)
  <2>3. /\ Len(g) \in Nat /\ Len(h) \in Nat /\ Len(g) < Len(h)
        /\ \A i \in 1..Len(g) : h[i] = g[i]
    BY <2>1, <2>2, SMTT(60) DEF Continues
  <2> DEFINE f == SubSeq(h, 1, Len(g))
  <2>4. f \in Seq(Entry) /\ Len(f) = Len(g)
    BY <2>1, <2>3, SMTT(60)
  <2>5. \A i \in 1..Len(g) : f[i] = h[i]
    BY <2>1, <2>3
  <2> HIDE DEF f
  <2>6. \A p, q \in Seq(Entry) :
          Len(p) = Len(q) /\ (\A i \in 1..Len(p) : p[i] = q[i]) => p = q
    OBVIOUS
  <2>7. \A i \in 1..Len(f) : f[i] = g[i]
    BY <2>3, <2>4, <2>5, Zenon
  <2>8. f = g
    BY <2>1, <2>4, <2>6, <2>7, Zenon
  <2> QED
    BY <2>3, <2>8, Zenon DEF f
<1>8. m = n \/ m < n
  BY <1>1, <1>2, <1>5, MaxSeqAssumption
<1> QED
  BY <1>6, <1>7, <1>8, Zenon

-----------------------------------------------------------------------------
(* Numbers stay within the bound, and what has a row has a body.           *)
Booked ==
  /\ ledgerSeq <= MaxSeq
  /\ \A r \in ledger : instances[r.id] # None

LEMMA BookedStep ==
  ASSUME TypeOK, LocksExclude, Booked, [Next]_vars
  PROVE  Booked' /\ ledger \subseteq ledger'
<1> USE DEF tables, sequences, own, locals
<1>1. ASSUME UNCHANGED <<instances, ledger, ledgerSeq>>
      PROVE  Booked' /\ ledger \subseteq ledger'
  BY <1>1, Zenon DEF Booked
<1>2. ASSUME NEW s \in Sessions, InsertLedger(s)
      PROVE  Booked' /\ ledger \subseteq ledger'
  <2>1. ledgerSeq < MaxSeq /\ ledgerSeq' = ledgerSeq + 1
        /\ UNCHANGED <<instances, ledger>>
    BY <1>2, Zenon DEF InsertLedger
  <2>2. ledgerSeq \in Nat
    BY Zenon DEF TypeOK
  <2>3. ledgerSeq' <= MaxSeq
    BY <2>1, <2>2, MaxSeqAssumption
  <2> QED
    BY <2>1, <2>3, Zenon DEF Booked
<1>3. ASSUME NEW s \in Sessions, Commit(s)
      PROVE  Booked' /\ ledger \subseteq ledger'
  <2>1. /\ ledger' = ledger \cup rows[s] /\ ledgerSeq' = ledgerSeq
        /\ instances' = [i \in Ids |-> IF wrote[s][i] = None
                                       THEN instances[i] ELSE wrote[s][i]]
    BY <1>3, Zenon DEF Commit, EndTxn
  <2>2. ASSUME NEW r \in ledger'
        PROVE  instances'[r.id] # None
    <3>1. r.id \in Ids
      <4>1. ledger \subseteq LedgerRow /\ rows[s] \subseteq LedgerRow
        BY Zenon DEF TypeOK
      <4>2. r \in LedgerRow
        BY <2>1, <4>1, Zenon
      <4> QED
        BY <4>2, Zenon DEF LedgerRow
    <3>2. instances[r.id] # None \/ wrote[s][r.id] # None
      BY <2>1, Zenon DEF Booked, LocksExclude
    <3> QED
      BY <2>1, <3>1, <3>2, Zenon
  <2> QED
    BY <2>1, <2>2, Zenon DEF Booked
<1>4. ASSUME NEW s \in Sessions, Seal(s)
      PROVE  Booked' /\ ledger \subseteq ledger'
  <2>1. CASE \E id \in Ids, body \in Bodies : SealCall(s, id, body)
    BY <1>1, <2>1, Zenon DEF SealCall
  <2>2. CASE ReadPrev(s) \/ Upsert(s) \/ LedgerToOutbox(s) \/ Rollback(s)
    BY <1>1, <2>2, Zenon DEF ReadPrev, Upsert, LedgerToOutbox, Rollback, EndTxn
  <2>3. CASE \E evidence \in Evidence : InsertProof(s, evidence)
    BY <1>1, <2>3, Zenon DEF InsertProof
  <2> QED
    BY <1>2, <1>3, <1>4, <2>1, <2>2, <2>3, Zenon DEF Seal
<1>5. ASSUME NEW v \in Verifiers, Verify(v)
      PROVE  Booked' /\ ledger \subseteq ledger'
  BY <1>1, <1>5, Zenon
  DEF Verify, VerifyBody, VerifyRow, VerifyProof, VerifyPrev
<1>6. CASE UNCHANGED vars
  BY <1>1, <1>6, Zenon DEF vars
<1> QED
  BY <1>4, <1>5, <1>6, Zenon DEF Next

(* What the history needs, in every state of a sole writer.                *)
Historical ==
  /\ OneHistory(ledger) /\ HasMax(ledger)
  /\ instances \in [Ids -> Bodies \cup {None}]
  /\ \A id \in Ids : instances[id] # None =>
       \E r \in ledger : IsLatestRow(r, ledger, id) /\ r.sha = instances[id]
  /\ Booked

LEMMA HistoricalInvariant ==
  ASSUME SoleWriter
  PROVE  Spec => []Historical
<1>1. Init => Booked
  BY MaxSeqAssumption DEF Init, Booked
<1>2. Typed /\ Attested /\ Booked /\ [Next]_vars => Booked'
  BY BookedStep, Zenon DEF Typed, Attested
<1>3. Typed /\ Attested /\ Linked /\ NumberedOnce /\ Booked => Historical
  <2> SUFFICES ASSUME Typed, Attested, Linked, NumberedOnce, Booked
               PROVE  Historical
    OBVIOUS
  <2>1. /\ ledger \subseteq LedgerRow /\ HasMax(ledger) /\ ledgerSeq \in Nat
        /\ instances \in [Ids -> Bodies \cup {None}]
        /\ \A r \in ledger : 0 < r.seq /\ r.seq <= ledgerSeq
    BY Zenon DEF Typed, TypeOK, Numbered
  <2>2. \A r \in ledger : r.seq <= MaxSeq
    <3>1. ledgerSeq <= MaxSeq /\ \A r \in ledger : r.seq \in Nat
      BY <2>1, Zenon DEF Booked, LedgerRow
    <3> QED
      BY <2>1, <3>1, MaxSeqAssumption
  <2>3. OneHistory(ledger)
    BY <2>1, <2>2, Zenon DEF OneHistory, Linked, NumberedOnce
  <2>4. \A id \in Ids : instances[id] # None =>
          \E r \in ledger : IsLatestRow(r, ledger, id) /\ r.sha = instances[id]
    BY Zenon DEF Attested, BodyAttested
  <2> QED
    BY <2>1, <2>3, <2>4, Zenon DEF Historical
<1> QED
  BY TypedInvariant, AttestedInvariant, LinkedInvariant, NumberedOnceInvariant,
     <1>1, <1>2, <1>3, PTL DEF Spec

(* With one sealing session the tables implement AuditChain: walking       *)
(* prev_seq back from max(seq) yields one history, which every commit      *)
(* extends at its end, and ckp.instances holds its latest facts.           *)
THEOREM SoleWriterImplementsChain ==
  ASSUME SoleWriter
  PROVE  Spec => ImplementsAuditChain
<1> DEFINE log == WalkBack(ledger)[MaxSeqOf(ledger)]
<1>1. Init /\ Historical => Chain!Init
  <2> SUFFICES ASSUME Init, Historical
               PROVE  Chain!Init
    OBVIOUS
  <2>1. instances = Chain!Current(log)
    BY FactsAreCurrent, Zenon DEF Historical, Booked
  <2>2. ledger = {}
    BY Zenon DEF Init
  <2>3. MaxSeqOf(ledger) = 0
    BY <2>2, HistoryHead, Zenon DEF Historical, Ended
  <2>4. log = <<>>
    BY <2>3, WalkFromRow, Zenon DEF Historical
  <2> QED
    BY <2>1, <2>4, Zenon DEF Chain!Init
<1>2. Typed /\ Attested /\ Historical /\ Historical' /\ [Next]_vars => [Chain!Land]_<<instances, log>>
  <2> SUFFICES ASSUME Typed, Attested, Historical, Historical', [Next]_vars
               PROVE  [Chain!Land]_<<instances, log>>
    OBVIOUS
  <2>1. ledger \subseteq ledger'
    BY BookedStep, Zenon DEF Typed, Attested, Historical
  <2>2. OneHistory(ledger) /\ HasMax(ledger) /\ instances = Chain!Current(log)
    BY FactsAreCurrent, ZenonT(60) DEF Historical, Booked
  <2>3. OneHistory(ledger') /\ HasMax(ledger')
    BY Zenon DEF Historical
  <2>4. instances' = Chain!Current(WalkBack(ledger')[MaxSeqOf(ledger')])
    BY FactsAreCurrent, ZenonT(60) DEF Historical, Booked
  <2>5. log' = WalkBack(ledger')[MaxSeqOf(ledger')]
    BY Zenon
  <2> HIDE DEF log
  <2>6. log' = log \/ (Len(log) < Len(log') /\ SubSeq(log', 1, Len(log)) = log)
    BY <2>1, <2>2, <2>3, <2>5, HistoryGrows, Zenon DEF log
  <2>7. instances' = Chain!Current(log')
    BY <2>4, <2>5, Zenon
  <2>8. CASE log' = log
    BY <2>2, <2>7, <2>8, Zenon
  <2>9. CASE Len(log) < Len(log') /\ SubSeq(log', 1, Len(log)) = log
    BY <2>7, <2>9, Zenon DEF Chain!Land, log
  <2> QED
    BY <2>6, <2>8, <2>9, Zenon
<1> QED
  BY TypedInvariant, AttestedInvariant, HistoricalInvariant, <1>1, <1>2, PTL
  DEF Spec, ImplementsAuditChain, Chain!Spec
=============================================================================
