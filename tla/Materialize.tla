---------------------------- MODULE Materialize -----------------------------
(* Derived values: derived_sum and derived_dispersion build the phenotype   *)
(* graph of a concept on demand and publish a pointer to it, or hand the    *)
(* build to the worker through ckp.materialize_job                          *)
(* (sql/pgck-baseline.sql, src/materialize_drain.rs).                       *)
(*                                                                          *)
(* A call is one READ COMMITTED transaction of several statements; its      *)
(* graph, its pointer and its locks are its own until it commits.  What an  *)
(* item contributes is told apart by the ledger seq it was sealed with, and *)
(* a graph is a set of such contributions.  The epoch and the formula a     *)
(* caller passes are one per concept, and an item stays in its scope.       *)
EXTENDS Naturals, FiniteSetsExt

CONSTANTS
  Concepts,
  Items,
  Scope,     \* concept -> the items its scope selects
  Raising,   \* concepts whose formula raises on some item
  Sealers,   \* sessions that seal items
  Readers,   \* sessions that call derived_sum
  Worker,    \* the background worker
  None,
  MaxSeq,    \* bound: seals
  MaxCalls   \* bound: calls of enqueue_materialize

ASSUME ProcsAssumption == Worker \notin Readers
ASSUME BoundsAssumption == MaxSeq \in Nat /\ MaxCalls \in Nat
ASSUME ScopeAssumption == Scope \in [Concepts -> SUBSET Items]
ASSUME NoneAssumption ==
  /\ None \notin Nat
  /\ None \notin [item : Items, seq : Nat]
  /\ None \notin [graph : Nat, watermark : Nat, valid : BOOLEAN]

VARIABLES
  sealed,    \* item -> seq of its latest committed seal, 0 before the first
  seq,       \* last value of the ledger's sequence
  sealing,   \* sealer -> the row it has yet to commit
  ptr,       \* ckp.phenotype_ptr: concept -> [graph, watermark, valid]
  graph,     \* <<concept, watermark in the graph's name>> -> contributions
  jobs,      \* ckp.materialize_job: concept -> enqueued_at, 0 without a row
  calls,     \* calls of enqueue_materialize, and the time of the last
  up,        \* the worker's process
  pc,
  call,      \* call in progress -> [concept, wm, name, giri, rows, found]
  clean,     \* history: readers whose scope was not sealed into since they began
  setBack    \* history: concepts whose pointer went back to an older watermark

source == <<sealed, seq, sealing>>
store == <<ptr, graph, jobs, calls>>
history == <<clean, setBack>>
vars == <<source, store, up, pc, call, history>>

Procs == Readers \cup {Worker}
Names == Concepts \X (0..MaxSeq)

Init ==
  /\ sealed = [i \in Items |-> 0]
  /\ seq = 0
  /\ sealing = [s \in Sealers |-> None]
  /\ ptr = [c \in Concepts |-> None]
  /\ graph = [n \in Names |-> {}]
  /\ jobs = [c \in Concepts |-> 0]
  /\ calls = 0
  /\ up = TRUE
  /\ pc = [x \in Procs |-> "idle"]
  /\ call = [x \in Procs |-> None]
  /\ clean = {}
  /\ setBack = {}

(* _source_watermark *)
Watermark(c) == Max({sealed[i] : i \in Scope[c]} \cup {0})

(* What a build over the committed rows contributes.                        *)
Rows(c) == {<<i, sealed[i]>> : i \in {j \in Scope[c] : sealed[j] > 0}}

-----------------------------------------------------------------------------
(* seal, of which only the ledger seq and the commit matter here.           *)

Seal(s, i) ==
  /\ sealing[s] = None /\ seq < MaxSeq
  /\ \A t \in Sealers : sealing[t] # None => sealing[t].item # i
  /\ seq' = seq + 1
  /\ sealing' = [sealing EXCEPT ![s] = [item |-> i, seq |-> seq + 1]]
  /\ UNCHANGED <<sealed, store, up, pc, call, history>>

CommitSeal(s) ==
  /\ sealing[s] # None
  /\ sealed' = [sealed EXCEPT ![sealing[s].item] = sealing[s].seq]
  /\ sealing' = [sealing EXCEPT ![s] = None]
  /\ clean' = {r \in clean : sealing[s].item \notin Scope[call[r].concept]}
  /\ UNCHANGED <<seq, store, up, pc, call, setBack>>

-----------------------------------------------------------------------------
(* The start of a call: its first statement reads the watermark.            *)

Started(c) ==
  [concept |-> c, wm |-> Watermark(c), name |-> None, giri |-> None, rows |-> {},
   found |-> None]

DerivedSum(r, c) ==
  /\ pc[r] = "idle"
  /\ pc' = [pc EXCEPT ![r] = "called"]
  /\ call' = [call EXCEPT ![r] = Started(c)]
  /\ clean' = clean \cup {r}
  /\ UNCHANGED <<source, store, up, setBack>>

(* Variant: the epoch alone decides.                                        *)
PhenotypeFreshByEpoch(c, wm) == ptr[c] # None /\ ptr[c].valid

PhenotypeFresh(c, wm) == ptr[c] # None /\ ptr[c].valid /\ ptr[c].watermark = wm

CheckFresh(r) ==
  /\ pc[r] = "called"
  /\ pc' = [pc EXCEPT ![r] =
       IF PhenotypeFresh(call[r].concept, call[r].wm) THEN "published" ELSE "stale"]
  /\ UNCHANGED <<source, store, up, call, history>>

(* The upsert moves a waiting job to the end of the queue; it waits for the *)
(* row while the worker has it.                                             *)
EnqueueMaterialize(c) ==
  /\ calls < MaxCalls /\ calls' = calls + 1
  /\ ~(pc[Worker] # "idle" /\ call[Worker].concept = c)
  /\ jobs' = [jobs EXCEPT ![c] = calls + 1]
  /\ UNCHANGED <<source, ptr, graph, up, pc, call, history>>

(* materialize_drain_once takes the oldest job.                             *)
PickJob(c) ==
  /\ up /\ pc[Worker] = "idle" /\ jobs[c] > 0
  /\ \A d \in Concepts : jobs[d] > 0 => jobs[c] <= jobs[d]
  /\ pc' = [pc EXCEPT ![Worker] = "stale"]
  /\ call' = [call EXCEPT ![Worker] = Started(c)]
  /\ UNCHANGED <<source, store, up, history>>

-----------------------------------------------------------------------------
(* Variant: named after the sequence, which counts rows yet to be committed. *)
NameGraphBySequence(x) ==
  /\ pc[x] = "stale"
  /\ pc' = [pc EXCEPT ![x] = "named"]
  /\ call' = [call EXCEPT ![x].name = seq]
  /\ UNCHANGED <<source, store, up, history>>

(* _epsilon_materialize: a second look at the watermark names the graph.    *)
NameGraph(x) ==
  /\ pc[x] = "stale"
  /\ pc' = [pc EXCEPT ![x] = "named"]
  /\ call' = [call EXCEPT ![x].name = Watermark(call[x].concept)]
  /\ UNCHANGED <<source, store, up, history>>

(* pg_advisory_xact_lock is held to the end of the transaction.             *)
Locks(x, c, n) == /\ pc[x] \in {"build", "return", "built", "published", "found"}
                  /\ call[x].concept = c /\ call[x].name = n

(* Variant: any pointer of the concept will do.                             *)
EnterAnyPointer(x) ==
  LET c == call[x].concept
  IN  /\ pc[x] = "named"
      /\ ~\E y \in Procs : Locks(y, c, call[x].name)
      /\ pc' = [pc EXCEPT ![x] = IF ptr[c] # None THEN "return" ELSE "build"]
      /\ UNCHANGED <<source, store, up, call, history>>

(* Behind the lock somebody else's build may turn out to be there.          *)
Enter(x) ==
  LET c == call[x].concept
  IN  /\ pc[x] = "named"
      /\ ~\E y \in Procs : Locks(y, c, call[x].name)
      /\ pc' = [pc EXCEPT ![x] =
           IF ptr[c] # None /\ ptr[c].watermark = call[x].name THEN "return" ELSE "build"]
      /\ UNCHANGED <<source, store, up, call, history>>

Return(x) ==
  /\ pc[x] = "return"
  /\ pc' = [pc EXCEPT ![x] = "built"]
  /\ call' = [call EXCEPT ![x].giri = ptr[call[x].concept].graph]
  /\ UNCHANGED <<source, store, up, history>>

(* The formula is evaluated over the rows of this statement's snapshot, and *)
(* parsed into the graph.                                                   *)
Build(x) ==
  /\ pc[x] = "build"
  /\ call[x].concept \notin Raising
  /\ pc' = [pc EXCEPT ![x] = "built"]
  /\ call' = [call EXCEPT ![x].giri = call[x].name, ![x].rows = Rows(call[x].concept)]
  /\ UNCHANGED <<source, store, up, history>>

(* _phenotype_publish waits for the row of the pointer.                     *)
Publishes(x) == pc[x] \in {"published", "found"} /\ call[x].giri # None

Publish(x) ==
  /\ pc[x] = "built"
  /\ ~\E y \in Procs : Publishes(y) /\ call[y].concept = call[x].concept
  /\ pc' = [pc EXCEPT ![x] = "published"]
  /\ UNCHANGED <<source, store, up, call, history>>

-----------------------------------------------------------------------------
Name(x) == <<call[x].concept, call[x].giri>>
Ended(x) == pc' = [pc EXCEPT ![x] = "idle"] /\ call' = [call EXCEPT ![x] = None]

(* The pointer and the graph it has written become visible.                 *)
Committed(x) ==
  /\ graph' = [graph EXCEPT ![Name(x)] = @ \cup call[x].rows]
  /\ ptr' = [ptr EXCEPT ![call[x].concept] =
       [graph |-> call[x].giri, watermark |-> call[x].wm, valid |-> TRUE]]
  /\ setBack' = setBack \cup {c \in {call[x].concept} :
       ptr[c] # None /\ call[x].wm < ptr[c].watermark}

(* The reader looks up the pointer, its own or the one it took for fresh.   *)
LookUp(r) ==
  /\ pc[r] = "published"
  /\ pc' = [pc EXCEPT ![r] = "found"]
  /\ call' = [call EXCEPT ![r].found =
       IF Publishes(r) THEN call[r].giri ELSE ptr[call[r].concept].graph]
  /\ UNCHANGED <<source, store, up, history>>

(* What it then sums over: the graph found, with what it added itself.      *)
Sum(r) == graph[<<call[r].concept, call[r].found>>] \cup call[r].rows

Answer(r) ==
  /\ pc[r] = "found"
  /\ IF Publishes(r) THEN Committed(r) ELSE UNCHANGED <<graph, ptr, setBack>>
  /\ Ended(r)
  /\ clean' = clean \ {r}
  /\ UNCHANGED <<source, jobs, calls, up>>

(* Variant: the job stays.                                                  *)
CommitDrainKeepsJob ==
  /\ pc[Worker] = "published"
  /\ Committed(Worker)
  /\ Ended(Worker)
  /\ UNCHANGED <<source, jobs, calls, up, clean>>

CommitDrain ==
  /\ pc[Worker] = "published"
  /\ Committed(Worker)
  /\ jobs' = [jobs EXCEPT ![call[Worker].concept] = 0]
  /\ Ended(Worker)
  /\ UNCHANGED <<source, calls, up, clean>>

-----------------------------------------------------------------------------
(* valid_until is an hour ahead.                                            *)
Expire(c) ==
  /\ ptr[c] # None /\ ptr[c].valid
  /\ ptr' = [ptr EXCEPT ![c].valid = FALSE]
  /\ UNCHANGED <<source, graph, jobs, calls, up, pc, call, history>>

(* The session goes away: what it did is rolled back.                       *)
Abandon(r) ==
  /\ pc[r] # "idle"
  /\ Ended(r)
  /\ clean' = clean \ {r}
  /\ UNCHANGED <<source, store, up, setBack>>

Raises(x) == pc[x] = "build" /\ call[x].concept \in Raising

(* An error inside the drain's transaction ends the worker, like a crash.   *)
Die ==
  /\ up
  /\ up' = FALSE
  /\ Ended(Worker)
  /\ UNCHANGED <<source, store, history>>

Restart ==
  /\ ~up
  /\ up' = TRUE
  /\ UNCHANGED <<source, store, pc, call, history>>

Step(x) == NameGraph(x) \/ Enter(x) \/ Return(x) \/ Build(x) \/ Publish(x)
Read(r) == CheckFresh(r) \/ Step(r) \/ LookUp(r) \/ Answer(r) \/ (Raises(r) /\ Abandon(r))
Drain ==
  \/ \E c \in Concepts : PickJob(c)
  \/ Step(Worker) \/ CommitDrain \/ (Raises(Worker) /\ Die)

Next ==
  \/ \E s \in Sealers : CommitSeal(s) \/ \E i \in Items : Seal(s, i)
  \/ \E c \in Concepts :
       EnqueueMaterialize(c) \/ Expire(c) \/ \E r \in Readers : DerivedSum(r, c)
  \/ \E r \in Readers : Read(r) \/ Abandon(r)
  \/ Drain
  \/ Die
  \/ Restart

Spec == Init /\ [][Next]_vars

(* The statements of a call end, and a worker that is up ticks.  PostgreSQL *)
(* serves the waiters of a lock in turn, so no call is overtaken for ever.  *)
FairSpec == Spec /\ SF_vars(Drain) /\ \A r \in Readers : SF_vars(Read(r))

-----------------------------------------------------------------------------
(* "The newest, most decisive fact must not read a stale phenotype"         *)
(* (sql/test/s52_epsilon_materialize.sql): a pointer that counts as fresh   *)
(* (_phenotype_fresh at the current watermark) names a graph that holds     *)
(* exactly what the items in scope contribute now, one contribution for     *)
(* each, whichever readers and drains built it at once, from watermarks     *)
(* read twice and rows read later.  One thing alone can break it: a slow    *)
(* call whose _phenotype_publish puts a newer pointer back.                 *)
FreshIsTrue ==
  \A c \in Concepts \ setBack :
    PhenotypeFresh(c, Watermark(c)) => graph[<<c, ptr[c].graph>>] = Rows(c)

(* A call of derived_sum during which nothing in its scope is sealed        *)
(* answers with the sum of exactly what is sealed, also when the pointer it *)
(* found fresh expires or is replaced meanwhile, unless it is put back.     *)
AnswerTrue ==
  \A r \in clean : pc[r] = "found" /\ call[r].concept \notin setBack =>
    Sum(r) = Rows(call[r].concept)

(* A graph leaves nothing out that was sealed up to the watermark in its    *)
(* name, also after its pointer was put back, or taken over by a call that  *)
(* found the graph built.                                                   *)
GraphCovers ==
  \A c \in Concepts : ptr[c] # None =>
    \A i \in Scope[c] : sealed[i] \in 1..ptr[c].graph =>
      <<i, sealed[i]>> \in graph[<<c, ptr[c].graph>>]

(* Every queued build is done, unless the worker goes down: no reader that  *)
(* builds the same graph, and no lock, holds the drain up for ever.         *)
JobsDone ==
  \A c \in Concepts : jobs[c] > 0 ~> jobs[c] = 0 \/ ~up
=============================================================================
