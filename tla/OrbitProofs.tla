---------------------------- MODULE OrbitProofs ----------------------------
(***************************************************************************)
(* Proofs about the orbit queue: every kernel's crossings are worked off   *)
(* in order, the attempts of a job stay within their limit, and the drafts *)
(* of a concept never outnumber the callers.                               *)
(***************************************************************************)
EXTENDS Orbit, FiniteSetTheorems, WellFoundedInduction, TLAPS

-----------------------------------------------------------------------------
(* The least element of a set of numbers, which Min chooses.               *)

(* A set of naturals that is not empty has a least element, and Min is it. *)
LEMMA MinIsLeast ==
  ASSUME NEW S \in SUBSET Nat, S # {}
  PROVE  Min(S) \in S /\ \A y \in S : Min(S) <= y
<1>1. IsWellFoundedOn(OpToRel(<, Nat), Nat)
  BY NatLessThanWellFounded, Zenon
<1>2. PICK m \in S : \A y \in S : ~(<<y, m>> \in OpToRel(<, Nat))
  BY <1>1, WFMin, Zenon
<1>3. \A y \in S : ~(y < m)
  BY <1>2, Zenon DEF OpToRel
<1>4. \E x \in S : \A y \in S : x <= y
  BY <1>3
<1>. QED
  BY <1>4, Zenon DEF Min

-----------------------------------------------------------------------------
(* The inductive invariant *)

(* What the rows of one kernel satisfy, in the table and in the snapshot   *)
(* that an aborted tick returns to: one row per crossing, no crossing of   *)
(* the future, attempts left while it is queued, and the order of work.    *)
RowsInOrder(R, due) ==
  /\ \A i, j \in R : i.at = j.at => i = j
  /\ \A j \in R : j.at <= due
  /\ \A j \in R : j.state = "queued" => j.attempts < MaxAttempts
  /\ \A i, j \in R : i.at < j.at /\ i.state = "queued" => j.attempts = 0

TablesInOrder ==
  \A k \in Kernels :
    RowsInOrder(jobs[k], Due(k)) /\ RowsInOrder(before[k], Due(k))

(* What the drain has selected is still queued, and a job that is running  *)
(* is the first of the selection.                                          *)
BatchQueued ==
  /\ \A k \in batch : Queued(jobs[k]) # {}
  /\ pc[Worker] = "score" => batch # {}

(* A job only adds to what the tick has drafted before it.                 *)
KeptIsOwn == pc[Worker] = "score" => kept \subseteq own[Worker]

OrbitInv ==
  TypeOK /\ TablesInOrder /\ BatchQueued /\ KeptIsOwn /\ OneStandingDraft

-----------------------------------------------------------------------------
(* Crossings *)

(* Multiplication by a period keeps the order of quotients.                *)
LEMMA TimesMonotone ==
  ASSUME NEW a \in Nat, NEW b \in Nat, NEW p \in Nat \ {0}
  PROVE  /\ a * p \in Nat /\ b * p \in Nat
         /\ a <= b => a * p <= b * p
         /\ a * p < (b + 1) * p => a <= b
<1>1. a * p \in Nat /\ b * p \in Nat /\ (b + 1) * p \in Nat
  OBVIOUS
<1>2. ASSUME a <= b PROVE a * p <= b * p
  <2>1. PICK d \in Nat : b = a + d
    BY <1>2
  <2>2. b * p = a * p + d * p /\ d * p \in Nat
    BY <2>1
  <2>. QED  BY <1>1, <2>2
<1>3. ASSUME a * p < (b + 1) * p PROVE a <= b
  <2>1. SUFFICES ASSUME b + 1 <= a PROVE FALSE
    OBVIOUS
  <2>2. PICK d \in Nat : a = (b + 1) + d
    BY <2>1
  <2>3. a * p = (b + 1) * p + d * p /\ d * p \in Nat
    BY <2>2
  <2>. QED  BY <1>1, <1>3, <2>3
<1>. QED  BY <1>1, <1>2, <1>3

(* The quotient of a division and its remainder.                           *)
LEMMA DivBounds ==
  ASSUME NEW n \in Nat, NEW p \in Nat \ {0}
  PROVE  /\ n \div p \in Nat
         /\ (n \div p) * p <= n /\ n < ((n \div p) + 1) * p
         /\ (n \div p) * p \in Nat
BY SMT

(* orbit_enqueue's most recent past crossing lies in the past, and it does *)
(* not go back when the clock goes on.                                     *)
LEMMA DueMonotone ==
  ASSUME NEW n \in Nat, NEW p \in Nat \ {0}
  PROVE  (n \div p) * p <= ((n + 1) \div p) * p
<1>1. (n \div p) * p < (((n + 1) \div p) + 1) * p
  BY DivBounds, n + 1 \in Nat, (((n + 1) \div p) + 1) * p \in Nat
<1>. QED
  BY <1>1, DivBounds, TimesMonotone, n + 1 \in Nat, Zenon

(* The crossing that is due is a time between 0 and now.                   *)
LEMMA DueInPast ==
  ASSUME TypeOK, NEW k \in Kernels
  PROVE  Due(k) \in Nat /\ Due(k) <= now
<1>1. now \in Nat /\ Period[k] \in Nat \ {0}
  BY OrbitAssumption DEF TypeOK
<1>. QED
  BY <1>1, DivBounds, Zenon DEF Due

-----------------------------------------------------------------------------
(* The rows of a kernel *)

(* The job of DISTINCT ON (kernel) ... ORDER BY crossing_at is queued, and *)
(* none that is queued is older.                                           *)
LEMMA NextJobIsOldest ==
  ASSUME NEW R \in SUBSET Job, Queued(R) # {}
  PROVE  /\ NextJob(R) \in R /\ NextJob(R).state = "queued"
         /\ \A i \in R : i.state = "queued" => NextJob(R).at <= i.at
<1>. DEFINE Ats == {j.at : j \in Queued(R)}
<1>1. Ats \in SUBSET Nat /\ Ats # {}
  BY OrbitAssumption DEF Queued, Job
<1>2. \E j \in Queued(R) : \A i \in Queued(R) : j.at <= i.at
  <2>1. PICK j \in Queued(R) : j.at = Min(Ats)
    BY <1>1, MinIsLeast, Zenon
  <2>2. \A i \in Queued(R) : Min(Ats) <= i.at
    BY <1>1, MinIsLeast, \A i \in Queued(R) : i.at \in Ats, Zenon
  <2>. QED
    BY <2>1, <2>2, Zenon
<1>3. NextJob(R) \in Queued(R)
      /\ \A i \in Queued(R) : NextJob(R).at <= i.at
  BY <1>2, Zenon DEF NextJob
<1>. QED
  BY <1>3, Zenon DEF Queued

(* orbit_enqueue adds the newest crossing, queued and not attempted.       *)
LEMMA EnqueuedInOrder ==
  ASSUME TypeOK, TablesInOrder, NEW k \in Kernels
  PROVE  Enqueued(k) \in SUBSET Job /\ RowsInOrder(Enqueued(k), Due(k))
<1>. DEFINE new == [at |-> Due(k), state |-> "queued", attempts |-> 0]
<1>1. jobs[k] \in SUBSET Job /\ RowsInOrder(jobs[k], Due(k))
  BY Zenon DEF TypeOK, TablesInOrder
<1>2. CASE Due(k) = 0 \/ \E j \in jobs[k] : j.at = Due(k)
  BY <1>1, <1>2, Zenon DEF Enqueued
<1>3. CASE ~(Due(k) = 0 \/ \E j \in jobs[k] : j.at = Due(k))
  <2>1. Enqueued(k) = jobs[k] \cup {new}
    BY <1>3, Zenon DEF Enqueued
  <2>2. Due(k) \in 1..MaxTime
    BY <1>3, DueInPast, OrbitAssumption DEF TypeOK
  <2>3. new \in Job
    BY <2>2, OrbitAssumption DEF Job
  <2>4. \A j \in jobs[k] : j.at \in Nat /\ j.at < Due(k)
    BY <1>1, <1>3, <2>2 DEF RowsInOrder, Job
  <2>5. RowsInOrder(jobs[k] \cup {new}, Due(k))
    BY <1>1, <2>2, <2>4, OrbitAssumption DEF RowsInOrder
  <2>. QED
    BY <1>1, <2>1, <2>3, <2>5, Zenon
<1>. QED
  BY <1>2, <1>3, Zenon

(* Settling the oldest queued job keeps the order: what is older than it   *)
(* is settled already, and what is younger has not been attempted.         *)
LEMMA SettledInOrder ==
  ASSUME NEW due, NEW R \in SUBSET Job, RowsInOrder(R, due),
         Queued(R) # {},
         NEW state \in {"queued", "done", "failed"},
         state = "queued" => NextJob(R).attempts + 1 < MaxAttempts
  PROVE  LET j == NextJob(R)
             i == [j EXCEPT !.state = state, !.attempts = j.attempts + 1]
             S == (R \ {j}) \cup {i}
         IN  S \in SUBSET Job /\ RowsInOrder(S, due)
<1>. DEFINE j == NextJob(R)
            i == [j EXCEPT !.state = state, !.attempts = j.attempts + 1]
            S == (R \ {j}) \cup {i}
<1>1. /\ j \in R /\ j.state = "queued"
      /\ \A a \in R : a.state = "queued" => j.at <= a.at
  BY NextJobIsOldest, Zenon
<1>2. j \in Job /\ j.at \in 1..MaxTime /\ j.attempts \in 0..MaxAttempts
      /\ j.attempts < MaxAttempts
  BY <1>1, Zenon DEF RowsInOrder, Job
<1>. HIDE DEF j
<1>3. j.attempts + 1 \in 0..MaxAttempts
  BY <1>2, OrbitAssumption
<1>4. i \in Job /\ i.at = j.at /\ i.state = state
      /\ i.attempts = j.attempts + 1
  BY <1>2, <1>3, Zenon DEF Job
<1>. HIDE DEF i
<1>5. S \in SUBSET Job
  BY <1>4, Zenon
<1>6. \A a \in R \ {j} : a.at # j.at /\ a.at \in Nat /\ a.attempts \in Nat
  BY <1>1 DEF RowsInOrder, Job
<1>7. \A a, b \in S : a.at = b.at => a = b
  BY <1>4, <1>6, Zenon DEF RowsInOrder
<1>8. \A a \in S : a.at <= due
  BY <1>1, <1>4, Zenon DEF RowsInOrder
<1>9. \A a \in S : a.state = "queued" => a.attempts < MaxAttempts
  BY <1>4, Zenon DEF RowsInOrder, j
<1>10. ASSUME NEW a \in S, NEW b \in S, a.at < b.at, a.state = "queued"
       PROVE  b.attempts = 0
  <2>1. CASE b = i
    BY <1>1, <1>2, <1>4, <1>6, <1>10, <2>1
  <2>2. CASE a = i /\ b # i
    BY <1>1, <1>4, <1>10, <2>2, Zenon DEF RowsInOrder
  <2>3. CASE a # i /\ b # i
    BY <1>10, <2>3, Zenon DEF RowsInOrder
  <2>. QED
    BY <2>1, <2>2, <2>3, Zenon
<1>. QED
  BY <1>5, <1>7, <1>8, <1>9, <1>10, Zenon DEF RowsInOrder, i, j

-----------------------------------------------------------------------------
(* The steps *)

(* What leaves every transaction with at most the drafts it had, and the   *)
(* committed ones no more than they were, keeps the bound on drafts.       *)
LEMMA HoldersShrink ==
  ASSUME OneStandingDraft, NEW c \in Concepts,
         drafts[c] \in Nat, drafts'[c] \in Nat, drafts'[c] <= drafts[c],
         \A p \in Callers : c \in own'[p] => c \in own[p]
  PROVE  drafts'[c] + Cardinality({p \in Callers : c \in own'[p]})
           <= Cardinality(Callers)
<1>. DEFINE H == {p \in Callers : c \in own[p]}
            I == {p \in Callers : c \in own'[p]}
<1>1. IsFiniteSet(Callers)
  BY OrbitAssumption, FS_AddElement, Zenon DEF Callers
<1>2. IsFiniteSet(H) /\ I \subseteq H
  BY <1>1, FS_Subset, Zenon
<1>3. Cardinality(I) <= Cardinality(H) /\ Cardinality(I) \in Nat
      /\ Cardinality(H) \in Nat /\ Cardinality(Callers) \in Nat
  BY <1>1, <1>2, FS_Subset, FS_CardinalityType, Zenon
<1>4. drafts[c] + Cardinality(H) <= Cardinality(Callers)
  BY Zenon DEF OneStandingDraft
<1>. QED
  BY <1>3, <1>4

(* orbit_tick's start: the crossings are enqueued.                         *)
LEMMA StartTickStep ==
  ASSUME OrbitInv, StartTick
  PROVE  OrbitInv'
<1>. USE DEF OrbitInv
<1>1. now' = now /\ jobs' = [k \in Kernels |-> Enqueued(k)] /\ before' = jobs
      /\ batch' = Selection(jobs') /\ own' = own /\ drafts' = drafts
  BY Zenon DEF StartTick, scoring
<1>2. \A k \in Kernels : Enqueued(k) \in SUBSET Job
                         /\ RowsInOrder(Enqueued(k), Due(k))
  BY EnqueuedInOrder, Zenon
<1>3. pc' \in [Callers -> {"idle", "drain", "score"}] /\ pc'[Worker] = "drain"
  BY Zenon DEF StartTick, TypeOK, Callers
<1>4. batch' \subseteq Kernels /\ \A k \in batch' : Queued(jobs'[k]) # {}
  BY <1>1, Zenon DEF Selection, Busy
<1>5. jobs' \in [Kernels -> SUBSET Job] /\ before' \in [Kernels -> SUBSET Job]
  BY <1>1, <1>2, Zenon DEF TypeOK
<1>6. TypeOK'
  BY <1>3, <1>4, <1>5, Zenon DEF StartTick, scoring, TypeOK
<1>7. TablesInOrder'
  BY <1>1, <1>2, Zenon DEF TablesInOrder, Due
<1>8. BatchQueued' /\ KeptIsOwn'
  BY <1>3, <1>4, Zenon DEF BatchQueued, KeptIsOwn, Queued
<1>9. OneStandingDraft'
  BY <1>1, Zenon DEF OneStandingDraft
<1>. QED
  BY <1>6, <1>7, <1>8, <1>9, Zenon

(* The job at the head of the selection is settled.                        *)
LEMMA SettleStep ==
  ASSUME OrbitInv, pc[Worker] = "score",
         NEW state \in {"queued", "done", "failed"},
         state = "queued" =>
           NextJob(jobs[Min(batch)]).attempts + 1 < MaxAttempts,
         Settle(state, NextJob(jobs[Min(batch)]).attempts + 1),
         todo' \in [Callers -> SUBSET Concepts],
         own' \in [Callers -> SUBSET Concepts],
         \A p \in Callers : own'[p] \subseteq own[p]
  PROVE  OrbitInv'
<1>. USE DEF OrbitInv
<1>. DEFINE k == Min(batch)
            R == jobs[k]
            j == NextJob(R)
            i == [j EXCEPT !.state = state, !.attempts = j.attempts + 1]
            S == (R \ {j}) \cup {i}
<1>1. k \in batch /\ k \in Kernels
  BY MinIsLeast, OrbitAssumption, Zenon DEF BatchQueued, TypeOK
<1>2. R \in SUBSET Job /\ RowsInOrder(R, Due(k)) /\ Queued(R) # {}
  BY <1>1, Zenon DEF TypeOK, TablesInOrder, BatchQueued
<1>3. S \in SUBSET Job /\ RowsInOrder(S, Due(k))
  BY <1>2, SettledInOrder, Zenon
<1>4. /\ jobs' = [jobs EXCEPT ![k] = S]
      /\ batch' = batch \ {k}
      /\ pc' = [pc EXCEPT ![Worker] = "drain"]
      /\ now' = now /\ drafts' = drafts /\ settled' = settled
      /\ before' = before /\ kept' = kept /\ crashes' = crashes
  BY Zenon DEF Settle
<1>. HIDE DEF k, S
<1>5. pc' \in [Callers -> {"idle", "drain", "score"}] /\ pc'[Worker] = "drain"
  BY <1>4, Zenon DEF TypeOK, Callers
<1>6. /\ jobs' \in [Kernels -> SUBSET Job] /\ jobs'[k] = S
      /\ \A l \in Kernels \ {k} : jobs'[l] = jobs[l]
  BY <1>1, <1>3, <1>4, Zenon DEF TypeOK
<1>7. TypeOK'
  BY <1>4, <1>5, <1>6, Zenon DEF TypeOK
<1>8. TablesInOrder'
  BY <1>3, <1>4, <1>6, Zenon DEF TablesInOrder, Due
<1>9. BatchQueued' /\ KeptIsOwn'
  BY <1>4, <1>5, <1>6, Zenon DEF BatchQueued, KeptIsOwn, Queued, TypeOK
<1>10. OneStandingDraft'
  BY <1>4, HoldersShrink DEF OneStandingDraft, TypeOK
<1>. QED
  BY <1>7, <1>8, <1>9, <1>10, Zenon

(* score_tick's loop: a concept without a standing draft is drafted.  None *)
(* of it is committed then, so the callers that hold one are all there is. *)
LEMMA ConsiderStep ==
  ASSUME OrbitInv, NEW p \in Callers, Consider(p)
  PROVE  OrbitInv'
<1>. USE DEF OrbitInv
<1>. DEFINE c == Min(todo[p])
<1>1. c \in Concepts
  BY MinIsLeast, OrbitAssumption, Zenon DEF Consider, TypeOK
<1>2. /\ todo' = [todo EXCEPT ![p] = @ \ {c}]
      /\ own' = IF Standing(p, c) THEN own ELSE [own EXCEPT ![p] = @ \cup {c}]
      /\ now' = now /\ drafts' = drafts /\ settled' = settled /\ pc' = pc
      /\ jobs' = jobs /\ batch' = batch /\ before' = before /\ kept' = kept
      /\ crashes' = crashes
  BY Zenon DEF Consider, queue
<1>. HIDE DEF c
<1>3. /\ own' \in [Callers -> SUBSET Concepts]
      /\ todo' \in [Callers -> SUBSET Concepts]
      /\ \A q \in Callers : own[q] \subseteq own'[q]
      /\ \A q \in Callers, d \in Concepts :
           d \in own'[q] => d \in own[q] \/ d = c
      /\ Standing(p, c) => own' = own
  BY <1>1, <1>2, Zenon DEF TypeOK
<1>4. TypeOK'
  BY <1>2, <1>3, Zenon DEF TypeOK
<1>5. TablesInOrder' /\ BatchQueued'
  BY <1>2 DEF TablesInOrder, BatchQueued, Due, RowsInOrder, Queued
<1>6. KeptIsOwn'
  BY <1>2, <1>3, Zenon DEF KeptIsOwn, Callers
<1>7. ASSUME NEW d \in Concepts
      PROVE  drafts'[d] + Cardinality({q \in Callers : d \in own'[q]})
               <= Cardinality(Callers)
  <2>1. CASE d # c \/ Standing(p, c)
    BY <1>2, <1>3, <2>1, HoldersShrink DEF TypeOK
  <2>2. CASE d = c /\ ~Standing(p, c)
    <3>1. drafts'[d] = 0
      BY <1>2, <2>2 DEF Standing, TypeOK
    <3>2. IsFiniteSet(Callers)
      BY OrbitAssumption, FS_AddElement, Zenon DEF Callers
    <3>3. LET I == {q \in Callers : d \in own'[q]}
          IN  Cardinality(I) <= Cardinality(Callers)
              /\ Cardinality(I) \in Nat
      BY <3>2, FS_Subset, FS_CardinalityType, Zenon
    <3>. QED
      BY <3>1, <3>3
  <2>. QED
    BY <2>1, <2>2, Zenon
<1>8. OneStandingDraft'
  BY <1>7, Zenon DEF OneStandingDraft
<1>. QED
  BY <1>4, <1>5, <1>6, <1>8, Zenon

(* The end of a transaction moves its drafts among the committed ones, or  *)
(* drops them: the sum of both does not grow.                              *)
LEMMA EndTxnStep ==
  ASSUME OrbitInv, NEW p \in Callers, NEW committed \in BOOLEAN,
         EndTxn(p, committed)
  PROVE  /\ OneStandingDraft'
         /\ drafts' \in [Concepts -> Nat]
         /\ pc' \in [Callers -> {"idle", "drain", "score"}]
         /\ todo' \in [Callers -> SUBSET Concepts]
         /\ own' \in [Callers -> SUBSET Concepts]
<1>. USE DEF OrbitInv
<1>1. /\ drafts' \in [Concepts -> Nat]
      /\ pc' \in [Callers -> {"idle", "drain", "score"}]
      /\ todo' \in [Callers -> SUBSET Concepts]
      /\ own' \in [Callers -> SUBSET Concepts]
      /\ own'[p] = {} /\ \A q \in Callers \ {p} : own'[q] = own[q]
  BY DEF EndTxn, TypeOK
<1>2. ASSUME NEW c \in Concepts
      PROVE  drafts'[c] + Cardinality({q \in Callers : c \in own'[q]})
               <= Cardinality(Callers)
  <2>1. CASE committed /\ c \in own[p]
    <3>. DEFINE H == {q \in Callers : c \in own[q]}
                I == {q \in Callers : c \in own'[q]}
    <3>1. drafts'[c] = drafts[c] + 1 /\ drafts[c] \in Nat
      BY <2>1, Zenon DEF EndTxn, TypeOK
    <3>2. IsFiniteSet(Callers)
      BY OrbitAssumption, FS_AddElement, Zenon DEF Callers
    <3>3. IsFiniteSet(H) /\ p \in H /\ I = H \ {p}
      BY <1>1, <2>1, <3>2, FS_Subset, Zenon
    <3>4. Cardinality(I) = Cardinality(H) - 1
      BY <3>3, FS_RemoveElement
    <3>5. Cardinality(H) \in Nat /\ Cardinality(Callers) \in Nat
      BY <3>2, <3>3, FS_CardinalityType, Zenon
    <3>6. drafts[c] + Cardinality(H) <= Cardinality(Callers)
      BY Zenon DEF OneStandingDraft
    <3>. QED
      BY <3>1, <3>4, <3>5, <3>6
  <2>2. CASE ~(committed /\ c \in own[p])
    BY <1>1, <2>2, HoldersShrink DEF EndTxn, TypeOK
  <2>. QED
    BY <2>1, <2>2, Zenon
<1>3. OneStandingDraft'
  BY <1>2, Zenon DEF OneStandingDraft
<1>. QED
  BY <1>1, <1>3, Zenon

(* A tick that ends, committed or cut off.                                 *)
LEMMA TickEndStep ==
  ASSUME OrbitInv, CommitTick \/ Crash
  PROVE  OrbitInv'
<1>. USE DEF OrbitInv
<1>1. PICK committed \in BOOLEAN : EndTxn(Worker, committed)
  BY Zenon DEF CommitTick, Crash
<1>2. /\ OneStandingDraft'
      /\ drafts' \in [Concepts -> Nat]
      /\ pc' \in [Callers -> {"idle", "drain", "score"}]
      /\ todo' \in [Callers -> SUBSET Concepts]
      /\ own' \in [Callers -> SUBSET Concepts]
  BY <1>1, EndTxnStep, Worker \in Callers, Zenon DEF Callers
<1>3. /\ now' = now /\ settled' = settled
      /\ kept' = {} /\ before' = [k \in Kernels |-> {}] /\ batch' = {}
      /\ jobs' = jobs \/ jobs' = before
      /\ crashes' \in 0..MaxCrashes
  <2>1. CASE CommitTick
    BY <2>1, Zenon DEF CommitTick, TypeOK
  <2>2. CASE Crash
    BY <2>2, OrbitAssumption DEF Crash, TypeOK
  <2>. QED
    BY <2>1, <2>2, Zenon
<1>4. pc'[Worker] = "idle"
  BY <1>1, Zenon DEF EndTxn, TypeOK, Callers
<1>5. jobs' \in [Kernels -> SUBSET Job] /\ before' \in [Kernels -> SUBSET Job]
  BY <1>3, Zenon DEF TypeOK
<1>6. TypeOK'
  BY <1>2, <1>3, <1>5, Zenon DEF TypeOK
<1>7. TablesInOrder'
  BY <1>3 DEF TablesInOrder, RowsInOrder, Due
<1>8. BatchQueued' /\ KeptIsOwn'
  BY <1>3, <1>4, Zenon DEF BatchQueued, KeptIsOwn
<1>. QED
  BY <1>2, <1>6, <1>7, <1>8, Zenon

(* The steps of a session that calls score.tick, and of the parties that   *)
(* settle drafts.                                                          *)
LEMMA BesideStep ==
  ASSUME OrbitInv,
         \/ \E s \in Sessions, k \in Kernels : CallScore(s, k)
         \/ \E s \in Sessions, committed \in BOOLEAN : EndScore(s, committed)
         \/ \E c \in Concepts : SettleDraft(c)
  PROVE  OrbitInv'
<1>. USE DEF OrbitInv
<1>1. ASSUME NEW s \in Sessions, NEW k \in Kernels, CallScore(s, k)
      PROVE  OrbitInv'
  <2>1. s \in Callers /\ s # Worker /\ Promoted[k] \in SUBSET Concepts
    BY OrbitAssumption, Zenon DEF Callers
  <2>2. /\ pc' \in [Callers -> {"idle", "drain", "score"}]
        /\ todo' \in [Callers -> SUBSET Concepts]
        /\ pc'[Worker] = pc[Worker]
    BY <1>1, <2>1, Zenon DEF CallScore, Score, TypeOK, Callers
  <2>3. TypeOK'
    BY <1>1, <2>2, Zenon DEF CallScore, queue, TypeOK
  <2>4. TablesInOrder' /\ BatchQueued' /\ KeptIsOwn' /\ OneStandingDraft'
    BY <1>1, <2>2 DEF CallScore, queue, TablesInOrder, RowsInOrder, Due,
       BatchQueued, Queued, KeptIsOwn, OneStandingDraft
  <2>. QED
    BY <2>3, <2>4, Zenon
<1>2. ASSUME NEW s \in Sessions, NEW committed \in BOOLEAN,
             EndScore(s, committed)
      PROVE  OrbitInv'
  <2>1. s \in Callers /\ s # Worker
    BY OrbitAssumption, Zenon DEF Callers
  <2>2. /\ OneStandingDraft'
        /\ drafts' \in [Concepts -> Nat]
        /\ pc' \in [Callers -> {"idle", "drain", "score"}]
        /\ todo' \in [Callers -> SUBSET Concepts]
        /\ own' \in [Callers -> SUBSET Concepts]
    BY <1>2, <2>1, EndTxnStep, Zenon DEF EndScore
  <2>3. pc'[Worker] = pc[Worker] /\ own'[Worker] = own[Worker]
    BY <1>2, <2>1, Zenon DEF EndScore, EndTxn, TypeOK, Callers
  <2>4. TypeOK'
    BY <1>2, <2>2, Zenon DEF EndScore, queue, TypeOK
  <2>5. TablesInOrder' /\ BatchQueued' /\ KeptIsOwn'
    BY <1>2, <2>3 DEF EndScore, queue, TablesInOrder, RowsInOrder, Due,
       BatchQueued, Queued, KeptIsOwn
  <2>. QED
    BY <2>2, <2>4, <2>5, Zenon
<1>3. ASSUME NEW c \in Concepts, SettleDraft(c)
      PROVE  OrbitInv'
  <2>1. /\ drafts' \in [Concepts -> Nat]
        /\ \A d \in Concepts : drafts'[d] <= drafts[d]
        /\ settled' \in 0..MaxDrafts /\ own' = own /\ pc' = pc
    BY <1>3, OrbitAssumption DEF SettleDraft, scoring, TypeOK
  <2>2. TypeOK'
    BY <1>3, <2>1, Zenon DEF SettleDraft, queue, scoring, TypeOK
  <2>3. TablesInOrder' /\ BatchQueued' /\ KeptIsOwn'
    BY <1>3 DEF SettleDraft, queue, scoring, TablesInOrder, RowsInOrder,
       Due, BatchQueued, Queued, KeptIsOwn
  <2>4. OneStandingDraft'
    BY <2>1, HoldersShrink, Zenon DEF OneStandingDraft, TypeOK
  <2>. QED
    BY <2>2, <2>3, <2>4, Zenon
<1>. QED
  BY <1>1, <1>2, <1>3, Zenon

(* Every step keeps the invariant.                                         *)
LEMMA OrbitStep == OrbitInv /\ [Next]_vars => OrbitInv'
<1>. SUFFICES ASSUME OrbitInv, [Next]_vars
              PROVE  OrbitInv'
  OBVIOUS
<1>. USE DEF OrbitInv
<1>1. CASE StartTick
  BY <1>1, StartTickStep, Zenon
<1>2. CASE StartJob
  <2>1. Min(batch) \in batch /\ Promoted[Min(batch)] \in SUBSET Concepts
    BY <1>2, MinIsLeast, OrbitAssumption, Zenon DEF StartJob, TypeOK
  <2>2. /\ pc' \in [Callers -> {"idle", "drain", "score"}]
        /\ todo' \in [Callers -> SUBSET Concepts]
        /\ kept' = own[Worker] /\ own' = own
    BY <1>2, <2>1, Zenon DEF StartJob, Score, TypeOK
  <2>3. TypeOK'
    BY <1>2, <2>2, Zenon DEF StartJob, queue, TypeOK, Callers
  <2>4. TablesInOrder' /\ BatchQueued' /\ KeptIsOwn' /\ OneStandingDraft'
    BY <1>2, <2>2 DEF StartJob, queue, TablesInOrder, RowsInOrder, Due,
       BatchQueued, Queued, KeptIsOwn, OneStandingDraft
  <2>. QED
    BY <2>3, <2>4, Zenon
<1>3. CASE \E p \in Callers : Consider(p)
  BY <1>3, ConsiderStep, Zenon
<1>4. CASE JobDone
  BY <1>4, SettleStep, Zenon DEF JobDone, TypeOK
<1>5. CASE JobFails
  <2>. DEFINE n == NextJob(jobs[Min(batch)]).attempts + 1
  <2>1. Min(batch) \in batch /\ Min(batch) \in Kernels
    BY <1>5, MinIsLeast, OrbitAssumption, Zenon
    DEF JobFails, BatchQueued, TypeOK
  <2>2. n \in Nat
    BY <2>1, NextJobIsOldest DEF BatchQueued, TypeOK, Job
  <2>3. Parked(n) \in {"queued", "failed"}
        /\ (Parked(n) = "queued" => n < MaxAttempts)
    BY <2>2, OrbitAssumption DEF Parked
  <2>4. /\ own' \in [Callers -> SUBSET Concepts]
        /\ todo' \in [Callers -> SUBSET Concepts]
        /\ \A p \in Callers : own'[p] \subseteq own[p]
    BY <1>5, Zenon DEF JobFails, TypeOK, KeptIsOwn, Callers
  <2>. QED
    BY <1>5, <2>3, <2>4, SettleStep, Zenon DEF JobFails
<1>6. CASE CommitTick \/ Crash
  BY <1>6, TickEndStep, Zenon
<1>7. CASE Advance
  <2>1. TypeOK'
    BY <1>7, OrbitAssumption DEF Advance, queue, scoring, TypeOK
  <2>2. BatchQueued' /\ KeptIsOwn' /\ OneStandingDraft'
    BY <1>7, Zenon
    DEF Advance, queue, scoring, BatchQueued, Queued, KeptIsOwn,
        OneStandingDraft
  <2>3. \A k \in Kernels : Due(k) \in Nat /\ Due(k)' \in Nat /\ Due(k) <= Due(k)'
    <3>. SUFFICES ASSUME NEW k \in Kernels
                  PROVE  Due(k) \in Nat /\ Due(k)' \in Nat /\ Due(k) <= Due(k)'
      OBVIOUS
    <3>1. now \in Nat /\ now + 1 \in Nat /\ Period[k] \in Nat \ {0}
      BY OrbitAssumption DEF TypeOK
    <3>2. /\ Due(k) = (now \div Period[k]) * Period[k]
          /\ Due(k)' = ((now + 1) \div Period[k]) * Period[k]
      BY <1>7, Zenon DEF Advance, Due
    <3>. HIDE DEF Due
    <3>. QED
      BY <3>1, <3>2, DueMonotone, DivBounds, Zenon
  <2>4. jobs' = jobs /\ before' = before
        /\ \A k \in Kernels : \A j \in jobs[k] \cup before[k] : j.at \in Nat
    BY <1>7 DEF Advance, queue, TypeOK, Job
  <2>5. TablesInOrder'
    <3>. SUFFICES ASSUME NEW k \in Kernels
                  PROVE  RowsInOrder(jobs[k], Due(k)')
                         /\ RowsInOrder(before[k], Due(k)')
      BY <2>4, Zenon DEF TablesInOrder
    <3>. HIDE DEF Due
    <3>. QED
      BY <2>3, <2>4 DEF TablesInOrder, RowsInOrder
  <2>. QED
    BY <2>1, <2>2, <2>5, Zenon
<1>8. CASE \/ \E s \in Sessions, k \in Kernels : CallScore(s, k)
           \/ \E s \in Sessions, committed \in BOOLEAN : EndScore(s, committed)
           \/ \E c \in Concepts : SettleDraft(c)
  BY <1>8, BesideStep, Zenon
<1>9. CASE UNCHANGED vars
  BY <1>9 DEF vars, queue, scoring, TypeOK, TablesInOrder, RowsInOrder, Due,
     BatchQueued, Queued, KeptIsOwn, OneStandingDraft
<1>. QED
  BY <1>1, <1>2, <1>3, <1>4, <1>5, <1>6, <1>7, <1>8, <1>9, Zenon
     DEF Next, Tick, Session, Callers

-----------------------------------------------------------------------------
(* Theorems *)

(* The empty queue satisfies the invariant.                                *)
LEMMA OrbitInit == Init => OrbitInv
<1>. SUFFICES ASSUME Init PROVE OrbitInv
  OBVIOUS
<1>1. IsFiniteSet(Callers)
  BY OrbitAssumption, FS_AddElement, Zenon DEF Callers
<1>2. TypeOK
  BY OrbitAssumption DEF Init, TypeOK
<1>3. TablesInOrder /\ BatchQueued /\ KeptIsOwn
  BY Zenon
  DEF Init, TablesInOrder, RowsInOrder, BatchQueued, KeptIsOwn, Callers
<1>4. ASSUME NEW c \in Concepts
      PROVE  drafts[c] + Cardinality({p \in Callers : c \in own[p]})
               <= Cardinality(Callers)
  <2>1. {p \in Callers : c \in own[p]} = {}
    BY Zenon DEF Init
  <2>2. Cardinality({p \in Callers : c \in own[p]}) = 0
    BY <2>1, FS_EmptySet, Zenon
  <2>3. drafts[c] = 0 /\ Cardinality(Callers) \in Nat
    BY <1>1, FS_CardinalityType, Zenon DEF Init
  <2>. QED
    BY <2>2, <2>3
<1>. QED
  BY <1>2, <1>3, <1>4, Zenon DEF OrbitInv, OneStandingDraft

(* The invariant holds in every reachable state.                           *)
LEMMA OrbitInvariant == Spec => []OrbitInv
BY OrbitInit, OrbitStep, PTL DEF Spec

(* Rows, counters and locals keep their types for any number of kernels,   *)
(* callers and attempts; in particular no job is attempted more often than *)
(* orbit_drain's limit.                                                    *)
THEOREM TypesKept == Spec => []TypeOK
BY OrbitInvariant, PTL DEF OrbitInv

(* orbit_drain works off the crossings of each kernel in order: while an   *)
(* older one is queued no younger one has been attempted, whatever fails,  *)
(* is parked or is cut off.                                                *)
THEOREM CrossingsInOrder == Spec => []OldestFirst
<1>1. OrbitInv => OldestFirst
  BY Zenon DEF OrbitInv, TablesInOrder, RowsInOrder, OldestFirst
<1>. QED
  BY <1>1, OrbitInvariant, PTL

(* score_tick drafts a concept anew only when it sees no draft of it: the  *)
(* drafts that stand, committed or not, never outnumber the callers.       *)
THEOREM DraftsBounded == Spec => []OneStandingDraft
BY OrbitInvariant, PTL DEF OrbitInv
=============================================================================
