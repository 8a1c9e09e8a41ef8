-------------------------------- MODULE Orbit -------------------------------
(***************************************************************************)
(* The orbit queue (sql/pgck-baseline.sql orbit_enqueue, orbit_drain,      *)
(* orbit_tick, score_tick; src/orbit_drain.rs).  A kernel declares a       *)
(* period; each time it has passed, the crossing is enqueued as a job, and *)
(* running the job scores the kernel's signals and drafts a Proposal for   *)
(* every concept above the kernel's threshold.  One background worker      *)
(* ticks, every tick a transaction; sessions call the verb score.tick      *)
(* beside it.                                                              *)
(*                                                                         *)
(* Kernels are numbered in the order of their names.  Anchors are 0 and    *)
(* the unit of time is the greatest that divides the periods.              *)
(***************************************************************************)
EXTENDS Naturals, FiniteSets, FiniteSetsExt

CONSTANTS Kernels, Concepts, Sessions,
          Worker,       \* the background worker
          Period,       \* orbitPeriodSeconds of each kernel
          Promoted,     \* Promoted[k]: concepts that cross thresholdPromote
          PMax,         \* p_max: jobs of one drain
          MaxAttempts,  \* attempts after which a job is parked
          MaxTime,      \* bound: the clock
          MaxCrashes,   \* bound: ticks that are cut off
          MaxDrafts     \* bound: drafts that a party promotes or retires

ASSUME OrbitAssumption ==
  /\ IsFiniteSet(Kernels) /\ Kernels \subseteq Nat /\ Concepts \subseteq Nat
  /\ IsFiniteSet(Sessions) /\ Worker \notin Sessions
  /\ Period \in [Kernels -> Nat \ {0}]
  /\ Promoted \in [Kernels -> SUBSET Concepts]
  /\ PMax \in Nat \ {0} /\ MaxAttempts \in Nat \ {0} /\ MaxTime \in Nat
  /\ MaxCrashes \in Nat /\ MaxDrafts \in Nat

Callers == Sessions \cup {Worker}
Job == [at : 1..MaxTime, state : {"queued", "done", "failed"},
        attempts : 0..MaxAttempts]

VARIABLES
  now,      \* now()
  jobs,     \* ckp.orbit_job: the rows of each kernel
  drafts,   \* committed Proposals in state draft, per concept
  settled,  \* drafts promoted or retired so far
  pc,       \* "idle", "drain" (worker), "score"
  todo,     \* concepts that score_tick has still to look at
  own,      \* concepts the caller's transaction has drafted
  batch,    \* kernels the drain has still to serve
  before,   \* jobs as they were when the tick began
  kept,     \* own as it was when the job began
  crashes

queue == <<jobs, batch, before>>
scoring == <<todo, own, kept>>
vars == <<now, drafts, settled, pc, queue, scoring, crashes>>

Init ==
  /\ now = 0 /\ settled = 0 /\ crashes = 0
  /\ jobs = [k \in Kernels |-> {}] /\ before = jobs /\ batch = {}
  /\ drafts = [c \in Concepts |-> 0]
  /\ pc = [p \in Callers |-> "idle"]
  /\ todo = [p \in Callers |-> {}]
  /\ own = [p \in Callers |-> {}] /\ kept = {}

-----------------------------------------------------------------------------
(* orbit_enqueue: the most recent past crossing, once.                     *)
Due(k) == (now \div Period[k]) * Period[k]
Enqueued(k) ==
  IF Due(k) = 0 \/ \E j \in jobs[k] : j.at = Due(k) THEN jobs[k]
  ELSE jobs[k] \cup {[at |-> Due(k), state |-> "queued", attempts |-> 0]}

Queued(R) == {j \in R : j.state = "queued"}

(* Variant: the newest crossing of the kernel.                             *)
LatestQueued(R) == CHOOSE j \in Queued(R) : \A i \in Queued(R) : i.at <= j.at

(* DISTINCT ON (kernel) ... ORDER BY kernel, crossing_at: the oldest.      *)
NextJob(R) == CHOOSE j \in Queued(R) : \A i \in Queued(R) : j.at <= i.at

(* Kernels with queued jobs in the order of their names, LIMIT p_max.      *)
Busy(table) == {k \in Kernels : Queued(table[k]) # {}}
Selection(table) ==
  {k \in Busy(table) : Cardinality({l \in Busy(table) : l < k}) < PMax}

(* orbit_tick begins: the crossings are enqueued and the drain selects.    *)
StartTick ==
  /\ pc[Worker] = "idle"
  /\ pc' = [pc EXCEPT ![Worker] = "drain"]
  /\ before' = jobs
  /\ jobs' = [k \in Kernels |-> Enqueued(k)]
  /\ batch' = Selection(jobs')
  /\ UNCHANGED <<now, drafts, settled, scoring, crashes>>

-----------------------------------------------------------------------------
(* score_tick begins, for kernel k.                                        *)
Score(p, k) ==
  /\ pc' = [pc EXCEPT ![p] = "score"]
  /\ todo' = [todo EXCEPT ![p] = Promoted[k]]

(* Variant: only what this transaction has drafted is looked for.          *)
StandingOwn(p, c) == c \in own[p]

(* A draft that is visible to the caller: committed, or its own.           *)
Standing(p, c) == drafts[c] > 0 \/ c \in own[p]

(* The next concept is drafted unless a draft of it stands.                *)
Consider(p) ==
  /\ pc[p] = "score" /\ todo[p] # {}
  /\ LET c == Min(todo[p])
     IN  /\ todo' = [todo EXCEPT ![p] = @ \ {c}]
         /\ own' = IF Standing(p, c) THEN own
                   ELSE [own EXCEPT ![p] = @ \cup {c}]
  /\ UNCHANGED <<now, drafts, settled, pc, queue, kept, crashes>>

(* The transaction of p ends, committed or rolled back.                    *)
EndTxn(p, committed) ==
  /\ pc' = [pc EXCEPT ![p] = "idle"]
  /\ todo' = [todo EXCEPT ![p] = {}]
  /\ own' = [own EXCEPT ![p] = {}]
  /\ drafts' = [c \in Concepts |->
                  IF committed /\ c \in own[p] THEN drafts[c] + 1
                  ELSE drafts[c]]

-----------------------------------------------------------------------------
(* orbit_drain serves the next kernel of its selection.                    *)
StartJob ==
  /\ pc[Worker] = "drain" /\ batch # {}
  /\ Score(Worker, Min(batch))
  /\ kept' = own[Worker]
  /\ UNCHANGED <<now, drafts, settled, queue, own, crashes>>

Settle(state, attempts) ==
  LET k == Min(batch)
      j == NextJob(jobs[k])
      i == [j EXCEPT !.state = state, !.attempts = attempts]
  IN  /\ jobs' = [jobs EXCEPT ![k] = (@ \ {j}) \cup {i}]
      /\ batch' = batch \ {k}
      /\ pc' = [pc EXCEPT ![Worker] = "drain"]
      /\ UNCHANGED <<now, drafts, settled, before, kept, crashes>>

JobDone ==
  /\ pc[Worker] = "score" /\ todo[Worker] = {}
  /\ Settle("done", NextJob(jobs[Min(batch)]).attempts + 1)
  /\ UNCHANGED <<todo, own>>

Parked(attempts) == IF attempts >= MaxAttempts THEN "failed" ELSE "queued"

(* Variant: the attempt is rolled back with the job and not counted.       *)
JobFailsUncounted ==
  /\ pc[Worker] = "score"
  /\ Settle("queued", NextJob(jobs[Min(batch)]).attempts)
  /\ own' = [own EXCEPT ![Worker] = kept]
  /\ todo' = [todo EXCEPT ![Worker] = {}]

(* score_tick refuses or raises: what the job has sealed is rolled back,   *)
(* the attempt is counted and the last one parks the job.                  *)
JobFails ==
  /\ pc[Worker] = "score"
  /\ LET n == NextJob(jobs[Min(batch)]).attempts + 1
     IN  Settle(Parked(n), n)
  /\ own' = [own EXCEPT ![Worker] = kept]
  /\ todo' = [todo EXCEPT ![Worker] = {}]

CommitTick ==
  /\ pc[Worker] = "drain" /\ batch = {}
  /\ EndTxn(Worker, TRUE)
  /\ kept' = {} /\ before' = [k \in Kernels |-> {}]
  /\ UNCHANGED <<now, settled, jobs, batch, crashes>>

(* The worker dies, or its transaction is aborted, in the middle.          *)
Crash ==
  /\ pc[Worker] # "idle" /\ crashes < MaxCrashes
  /\ crashes' = crashes + 1
  /\ EndTxn(Worker, FALSE)
  /\ jobs' = before /\ batch' = {} /\ before' = [k \in Kernels |-> {}]
  /\ kept' = {}
  /\ UNCHANGED <<now, settled>>

-----------------------------------------------------------------------------
(* The verb score.tick, called by a session.                               *)
CallScore(s, k) ==
  /\ pc[s] = "idle"
  /\ Score(s, k)
  /\ UNCHANGED <<now, drafts, settled, queue, own, kept, crashes>>

EndScore(s, committed) ==
  /\ pc[s] = "score"
  /\ committed => todo[s] = {}
  /\ EndTxn(s, committed)
  /\ UNCHANGED <<now, settled, queue, kept, crashes>>

(* A party promotes a draft to pending, or retires it.                     *)
SettleDraft(c) ==
  /\ drafts[c] > 0 /\ settled < MaxDrafts
  /\ settled' = settled + 1
  /\ drafts' = [drafts EXCEPT ![c] = @ - 1]
  /\ UNCHANGED <<now, pc, queue, scoring, crashes>>

Advance ==
  /\ now < MaxTime
  /\ now' = now + 1
  /\ UNCHANGED <<drafts, settled, pc, queue, scoring, crashes>>

Tick ==
  \/ StartTick \/ StartJob \/ Consider(Worker) \/ JobDone \/ JobFails
  \/ CommitTick

Session(s) ==
  \/ \E k \in Kernels : CallScore(s, k)
  \/ Consider(s)
  \/ \E committed \in BOOLEAN : EndScore(s, committed)

Next ==
  \/ Tick \/ Crash \/ Advance
  \/ \E s \in Sessions : Session(s)
  \/ \E c \in Concepts : SettleDraft(c)

Spec == Init /\ [][Next]_vars

(* The worker is woken by its latch again and again, and the clock runs.   *)
FairSpec == Spec /\ WF_vars(Tick) /\ WF_vars(Advance)

-----------------------------------------------------------------------------
(* Properties *)

(* Rows, counters and locals hold values of their types: in particular the *)
(* attempts of a job never exceed those after which it is parked.          *)
TypeOK ==
  /\ now \in 0..MaxTime /\ settled \in 0..MaxDrafts
  /\ crashes \in 0..MaxCrashes
  /\ jobs \in [Kernels -> SUBSET Job] /\ before \in [Kernels -> SUBSET Job]
  /\ batch \subseteq Kernels /\ kept \subseteq Concepts
  /\ drafts \in [Concepts -> Nat]
  /\ pc \in [Callers -> {"idle", "drain", "score"}]
  /\ todo \in [Callers -> SUBSET Concepts]
  /\ own \in [Callers -> SUBSET Concepts]

(* The crossings of one kernel are worked off in order: while an older one *)
(* is queued no younger one has been attempted, across failures, retries   *)
(* and ticks that are cut off.                                             *)
OldestFirst ==
  \A k \in Kernels : \A i, j \in jobs[k] :
    i.at < j.at /\ i.state = "queued" => j.attempts = 0

(* One standing draft per concept and caller: what has already been        *)
(* drafted is not drafted again when another kernel, a retry or a later    *)
(* tick comes to the same concept.  Only calls that overlap, of which none *)
(* sees what the others have yet to commit, can draft a concept twice.     *)
OneStandingDraft ==
  \A c \in Concepts :
    drafts[c] + Cardinality({p \in Callers : c \in own[p]})
      <= Cardinality(Callers)

(* Every queued job is settled in the end, done or parked: no failing job  *)
(* is selected for ever.                                                   *)
QueueDrains ==
  \A k \in Kernels : Queued(jobs[k]) # {} ~> Queued(jobs[k]) = {}
=============================================================================
