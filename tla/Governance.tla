----------------------------- MODULE Governance -----------------------------
(***************************************************************************)
(* The type plane: germination of a project, and the governed change of    *)
(* its law by propose_change, vote, apply and retire                       *)
(* (sql/pgck-baseline.sql), as sessions run them concurrently.             *)
(*                                                                         *)
(* Every call is one READ COMMITTED transaction.  What a call has written  *)
(* lives in its session until it commits; the rows it has updated stay     *)
(* locked until then, and which rows those are follows from its pc.  What  *)
(* a seal itself does is the subject of module Ledger; here it is a write  *)
(* of one row.  A call without a requester writes nothing, since seal      *)
(* refuses it, and is left out.                                            *)
(***************************************************************************)
EXTENDS Naturals, Sequences, FiniteSets

CONSTANTS Sessions, Parties, Projects, Proposals, None,
          Grants,     \* <<project, party, action>> that Memberships grant
          MaxQuorum,  \* bound: requires_quorum
          MaxVotes,   \* bound: votes sealed
          MaxEpoch    \* bound: epochs of one project

ASSUME BoundsAssumption ==
  MaxQuorum \in Nat \ {0} /\ MaxVotes \in Nat /\ MaxEpoch \in Nat
ASSUME NamesAssumption ==
  /\ None \notin Parties /\ None \notin Projects /\ None \notin Proposals
  /\ Projects \cap Proposals = {}
ASSUME PartiesAssumption == IsFiniteSet(Parties)

VARIABLES
  owner,    \* ownedBy of the sealed Project, None before germination
  kind,     \* its projectKind
  epoch,    \* ckp.kernel_epoch, an absent row reading 0
  prop,     \* the sealed Proposals
  votes,    \* the sealed Votes
  mats,     \* the sealed Materializations, with the proposal they came from
  enacted,  \* completed applications: [prop, project, epoch] (history)
  pc,       \* how far the session's call has come
  by,       \* ckp.requester of the call
  at,       \* ckp.project of the call
  arg,      \* the proposal it is about
  val,      \* the vote it casts, or the projectKind it writes
  body,     \* the Proposal body it has read or will write
  from,     \* v_from of apply
  new       \* v_epoch of apply

tables == <<owner, kind, epoch, prop, votes, mats, enacted>>
call == <<by, at, arg, val, body, from, new>>
vars == <<tables, pc, call>>

Kinds == {"personal", "shared"}
Ops == {"graph", "register"}
States == {"pending", "applied", "rejected"}
Proposal ==
  [state : States, about : Projects \cup {None}, op : Ops,
   quorum : 1..MaxQuorum, epoch : 0..MaxEpoch, retired : BOOLEAN]
ASSUME NoneAssumption == None \notin Proposal
Ballots == {"approve", "reject"}
Vote == [prop : Proposals, by : Parties \cup {None}, value : Ballots]
Materialization ==
  [project : Projects, from : 0..MaxEpoch, to : 1..MaxEpoch, prop : Proposals]

-----------------------------------------------------------------------------
(* _quorum_floor *)
Floor(p) == IF kind[p] = "shared" THEN 2 ELSE 1

(* _role_permits: a project without Memberships imposes nothing, its owner *)
(* is never narrowed, and anyone else needs the grant.                     *)
RolePermits(p, u, action) ==
  \/ \A g \in Grants : g[1] # p
  \/ owner[p] = u
  \/ <<p, u, action>> \in Grants

Approves(v, p) == v.prop = p /\ v.value = "approve"

(* Variant: votes are counted, not the parties that cast them.             *)
ApprovingVotes(p) == {i \in DOMAIN votes : Approves(votes[i], p)}

(* count(DISTINCT createdBy) of the approving votes, leaving out anonymous *)
(* ones, which seal itself no longer makes.                                *)
Approvers(p) ==
  {votes[i].by : i \in {j \in DOMAIN votes : Approves(votes[j], p)}} \ {None}

(* Rows a transaction in progress has written.                             *)
BumpsEpoch(s) == pc[s] \in {"bumped", "resealed", "refused"}
WritesProposal(s) == pc[s] \in {"resealed", "retired"}
WritesProject(s) == pc[s] \in {"germinated", "rekinded"}
EpochHeld(p) == \E s \in Sessions : BumpsEpoch(s) /\ at[s] = p
ProposalHeld(p) == \E s \in Sessions : WritesProposal(s) /\ arg[s] = p
ProjectHeld(p) == \E s \in Sessions : WritesProject(s) /\ at[s] = p

-----------------------------------------------------------------------------
Init ==
  /\ owner = [p \in Projects |-> None]
  /\ kind = [p \in Projects |-> "personal"]
  /\ epoch = [p \in Projects |-> 0]
  /\ prop = [p \in Proposals |-> None]
  /\ votes = <<>> /\ mats = {} /\ enacted = {}
  /\ pc = [s \in Sessions |-> "idle"]
  /\ by = [s \in Sessions |-> None] /\ at = [s \in Sessions |-> None]
  /\ arg = [s \in Sessions |-> None] /\ val = [s \in Sessions |-> None]
  /\ body = [s \in Sessions |-> None]
  /\ from = [s \in Sessions |-> 0] /\ new = [s \in Sessions |-> 0]

(* A call of party u, standing in project p, begins.  A call keeps its     *)
(* party and its project for as long as a later step looks at them.        *)
Begin(s, u, p, x, v, to) ==
  /\ pc[s] = "idle"
  /\ pc' = [pc EXCEPT ![s] = to]
  /\ by' = [by EXCEPT ![s] = u]
  /\ at' = [at EXCEPT ![s] = p]
  /\ arg' = [arg EXCEPT ![s] = x]
  /\ val' = [val EXCEPT ![s] = v]

Goto(s, here, there) == pc[s] = here /\ pc' = [pc EXCEPT ![s] = there]

(* The call ends: its locals are gone.                                     *)
End(s) ==
  /\ pc' = [pc EXCEPT ![s] = "idle"]
  /\ by' = [by EXCEPT ![s] = None]
  /\ at' = [at EXCEPT ![s] = None]
  /\ arg' = [arg EXCEPT ![s] = None]
  /\ val' = [val EXCEPT ![s] = None]
  /\ body' = [body EXCEPT ![s] = None]
  /\ from' = [from EXCEPT ![s] = 0]
  /\ new' = [new EXCEPT ![s] = 0]

(* A refusal that has written nothing, or a rollback of what was written.  *)
Abandon(s) == pc[s] # "idle" /\ End(s) /\ UNCHANGED tables

-----------------------------------------------------------------------------
(* Variant: nobody asks who owns the project.                              *)
GerminateUnchecked(s, u, p, k) ==
  /\ Begin(s, u, p, None, k, "germinating")
  /\ UNCHANGED <<tables, body, from, new>>

(* germinate_kernel: refused when somebody else owns the project.          *)
Germinate(s, u, p, k) ==
  /\ owner[p] \in {None, u}
  /\ Begin(s, u, p, None, k, "germinating")
  /\ UNCHANGED <<tables, body, from, new>>

(* It seals the Project, waiting for whoever has that row.                 *)
SealProject(s) ==
  /\ Goto(s, "germinating", "germinated")
  /\ ~ProjectHeld(at[s])
  /\ UNCHANGED <<tables, call>>

(* update_typed of projectKind, by the owner: the whole body is re-sealed. *)
ReadKind(s, u, p, k) ==
  /\ owner[p] = u
  /\ Begin(s, u, p, None, k, "rekinding")
  /\ UNCHANGED <<tables, body, from, new>>

SealKind(s) ==
  /\ Goto(s, "rekinding", "rekinded")
  /\ ~ProjectHeld(at[s])
  /\ UNCHANGED <<tables, call>>

CommitProject(s) ==
  /\ WritesProject(s)
  /\ owner' = [owner EXCEPT ![at[s]] = by[s]]
  /\ kind' = [kind EXCEPT ![at[s]] = val[s]]
  /\ End(s)
  /\ UNCHANGED <<epoch, prop, votes, mats, enacted>>

-----------------------------------------------------------------------------
(* propose_change: the quorum asked for meets the floor of the project the *)
(* caller stands in, roles permit, and a pending Proposal is sealed under  *)
(* an id nobody else has.                                                  *)
Propose(s, u, p, x, b) ==
  /\ prop[x] = None /\ \A t \in Sessions : arg[t] # x
  /\ b.quorum >= Floor(p)
  /\ b.about # None => RolePermits(b.about, u, "propose")
  /\ Begin(s, None, None, x, None, "proposed")
  /\ body' = [body EXCEPT ![s] = b]
  /\ UNCHANGED <<tables, from, new>>

CommitProposal(s) ==
  /\ pc[s] = "proposed"
  /\ prop' = [prop EXCEPT ![arg[s]] = body[s]]
  /\ End(s)
  /\ UNCHANGED <<owner, kind, epoch, votes, mats, enacted>>

(* vote: the proposal is pending when it is looked up.                     *)
CastVote(s, u, x, v) ==
  /\ prop[x] # None /\ prop[x].state = "pending"
  /\ prop[x].about # None => RolePermits(prop[x].about, u, "vote")
  /\ Begin(s, u, None, x, v, "voted")
  /\ UNCHANGED <<tables, body, from, new>>

(* Variant: the last vote of a party replaces its earlier ones.            *)
CommitVoteLast(s) ==
  /\ pc[s] = "voted" /\ Len(votes) < MaxVotes
  /\ LET Recast(v) == IF v.prop = arg[s] /\ v.by = by[s]
                      THEN [v EXCEPT !.value = val[s]] ELSE v
     IN votes' = Append([i \in DOMAIN votes |-> Recast(votes[i])],
                        [prop |-> arg[s], by |-> by[s], value |-> val[s]])
  /\ End(s)
  /\ UNCHANGED <<owner, kind, epoch, prop, mats, enacted>>

CommitVote(s) ==
  /\ pc[s] = "voted" /\ Len(votes) < MaxVotes
  /\ votes' = Append(votes, [prop |-> arg[s], by |-> by[s],
                             value |-> val[s]])
  /\ End(s)
  /\ UNCHANGED <<owner, kind, epoch, prop, mats, enacted>>

-----------------------------------------------------------------------------
(* Variant: the state of the proposal is not looked at.                    *)
ReadAnyProposal(s, u, p, x) ==
  /\ prop[x] # None
  /\ Begin(s, u, p, x, None, "read")
  /\ body' = [body EXCEPT ![s] = prop[x]]
  /\ UNCHANGED <<tables, from, new>>

(* apply: the proposal is read, without a lock, and must be pending.       *)
ReadProposal(s, u, p, x) ==
  /\ prop[x] # None /\ prop[x].state = "pending"
  /\ Begin(s, u, p, x, None, "read")
  /\ body' = [body EXCEPT ![s] = prop[x]]
  /\ UNCHANGED <<tables, from, new>>

(* A declared owner of the target project binds, then roles.               *)
GateOwner(s) ==
  /\ Goto(s, "read", "gated")
  /\ body[s].about # None =>
       /\ owner[body[s].about] \in {None, by[s]}
       /\ RolePermits(body[s].about, by[s], "apply")
  /\ by' = [by EXCEPT ![s] = None]
  /\ UNCHANGED <<tables, at, arg, val, body, from, new>>

(* Enough distinct parties approve; the floor is that of the project the   *)
(* caller stands in.                                                       *)
GateQuorum(s) ==
  /\ Goto(s, "gated", "quorate")
  /\ Cardinality(Approvers(arg[s])) >= body[s].quorum
  /\ Cardinality(Approvers(arg[s])) >= Floor(at[s])
  /\ UNCHANGED <<tables, call>>

(* Variant: the epoch of one fixed kernel is read for every project.       *)
ReadFromFixed(s) ==
  /\ Goto(s, "quorate", "from")
  /\ from' = [from EXCEPT ![s] = epoch[CHOOSE p \in Projects : TRUE]]
  /\ UNCHANGED <<tables, by, at, arg, val, body, new>>

(* The change is translated and applied to the graph of the caller's       *)
(* project, then v_from is read.                                           *)
ReadFrom(s) ==
  /\ Goto(s, "quorate", "from")
  /\ from' = [from EXCEPT ![s] = epoch[at[s]]]
  /\ UNCHANGED <<tables, by, at, arg, val, body, new>>

(* Variant: the epoch read before is incremented, no row lock taken.       *)
BumpEpochStale(s) ==
  /\ Goto(s, "from", "bumped") /\ from[s] < MaxEpoch
  /\ new' = [new EXCEPT ![s] = from[s] + 1]
  /\ UNCHANGED <<tables, by, at, arg, val, body, from>>

(* bump_epoch: UPDATE waits for the row and increments what it then finds. *)
(* The Epoch and the Materialization of the new epoch are sealed with it.  *)
BumpEpoch(s) ==
  /\ Goto(s, "from", "bumped")
  /\ ~EpochHeld(at[s]) /\ epoch[at[s]] < MaxEpoch
  /\ new' = [new EXCEPT ![s] = epoch[at[s]] + 1]
  /\ UNCHANGED <<tables, by, at, arg, val, body, from>>

(* Variant: an exception of any op is caught after the bump.               *)
RefuseAny(s) ==
  /\ Goto(s, "bumped", "refused")
  /\ UNCHANGED <<tables, call>>

(* Registering the affordance or the obligation raises: the exception is   *)
(* caught and apply returns a refusal, all that it has written in place.   *)
Refuse(s) ==
  /\ Goto(s, "bumped", "refused")
  /\ body[s].op = "register"
  /\ UNCHANGED <<tables, call>>

(* The proposal is re-sealed as applied, waiting for whoever has the row.  *)
Reseal(s) ==
  /\ Goto(s, "bumped", "resealed")
  /\ ~ProposalHeld(arg[s])
  /\ body' = [body EXCEPT ![s].state = "applied", ![s].epoch = new[s]]
  /\ UNCHANGED <<tables, by, at, arg, val, from, new>>

CommitApply(s) ==
  /\ pc[s] \in {"resealed", "refused"}
  /\ epoch' = [epoch EXCEPT ![at[s]] = new[s]]
  /\ mats' = mats \cup {[project |-> at[s], from |-> from[s], to |-> new[s],
                         prop |-> arg[s]]}
  /\ IF pc[s] = "resealed"
     THEN /\ prop' = [prop EXCEPT ![arg[s]] = body[s]]
          /\ enacted' = enacted \cup {[prop |-> arg[s], project |-> at[s],
                                     epoch |-> new[s]]}
     ELSE UNCHANGED <<prop, enacted>>
  /\ End(s)
  /\ UNCHANGED <<owner, kind, votes>>

-----------------------------------------------------------------------------
(* Variant: the retired body is rebuilt, not merged.                       *)
RetiredRebuilt(b) ==
  [b EXCEPT !.state = "rejected", !.retired = TRUE, !.epoch = 0]

(* Variant: only the mark of retirement is merged.                         *)
RetiredStateKept(b) == [b EXCEPT !.retired = TRUE]

(* retire merges retiredAtEpoch and, for a Proposal, "rejected".           *)
Retired(b) == [b EXCEPT !.state = "rejected", !.retired = TRUE]

ReadRetiree(s, x) ==
  /\ prop[x] # None /\ ~prop[x].retired
  /\ Begin(s, None, None, x, None, "retiring")
  /\ body' = [body EXCEPT ![s] = Retired(prop[x])]
  /\ UNCHANGED <<tables, from, new>>

SealRetiree(s) ==
  /\ Goto(s, "retiring", "retired")
  /\ ~ProposalHeld(arg[s])
  /\ UNCHANGED <<tables, call>>

CommitRetiree(s) ==
  /\ pc[s] = "retired"
  /\ prop' = [prop EXCEPT ![arg[s]] = body[s]]
  /\ End(s)
  /\ UNCHANGED <<owner, kind, epoch, votes, mats, enacted>>

-----------------------------------------------------------------------------
Fresh ==
  [state : {"pending"}, about : Projects \cup {None}, op : Ops,
   quorum : 1..MaxQuorum, epoch : {0}, retired : {FALSE}]

Start(s, u, p) ==
  \/ \E k \in Kinds : Germinate(s, u, p, k) \/ ReadKind(s, u, p, k)
  \/ \E x \in Proposals, b \in Fresh : Propose(s, u, p, x, b)
  \/ \E x \in Proposals :
       \/ \E v \in Ballots : CastVote(s, u, x, v)
       \/ ReadProposal(s, u, p, x) \/ ReadRetiree(s, x)

Continue(s) ==
  \/ SealProject(s) \/ SealKind(s) \/ CommitProject(s)
  \/ CommitProposal(s) \/ CommitVote(s)
  \/ GateOwner(s) \/ GateQuorum(s) \/ ReadFrom(s) \/ BumpEpoch(s)
  \/ Refuse(s) \/ Reseal(s) \/ CommitApply(s)
  \/ SealRetiree(s) \/ CommitRetiree(s)
  \/ Abandon(s)

Next ==
  \E s \in Sessions :
    \/ Continue(s)
    \/ \E u \in Parties, p \in Projects : Start(s, u, p)

Spec == Init /\ [][Next]_vars

-----------------------------------------------------------------------------
(* Properties *)

Phases ==
  {"idle", "germinating", "germinated", "rekinding", "rekinded", "proposed",
   "voted", "read", "gated", "quorate", "from", "bumped", "resealed",
   "refused", "retiring", "retired"}

(* Every table and every local holds a value of its type; what a session   *)
(* is about to write as a Proposal is a Proposal with a declared state.    *)
TypeOK ==
  /\ owner \in [Projects -> Parties \cup {None}]
  /\ kind \in [Projects -> Kinds]
  /\ epoch \in [Projects -> 0..MaxEpoch]
  /\ prop \in [Proposals -> Proposal \cup {None}]
  /\ votes \in Seq(Vote) /\ Len(votes) <= MaxVotes
  /\ mats \subseteq Materialization
  /\ enacted \subseteq
       [prop : Proposals, project : Projects, epoch : 1..MaxEpoch]
  /\ pc \in [Sessions -> Phases]
  /\ by \in [Sessions -> Parties \cup {None}]
  /\ at \in [Sessions -> Projects \cup {None}]
  /\ arg \in [Sessions -> Proposals \cup {None}]
  /\ val \in [Sessions -> Kinds \cup Ballots \cup {None}]
  /\ body \in [Sessions -> Proposal \cup {None}]
  /\ from \in [Sessions -> 0..MaxEpoch]
  /\ new \in [Sessions -> 0..MaxEpoch]

(* A bumped epoch with no Materialization cannot commit: the epochs 1 to   *)
(* the current one of every project each have exactly one, and no          *)
(* Materialization names an epoch the project has not reached, however     *)
(* many sessions apply at once and whichever of them roll back.            *)
EpochsSealed ==
  /\ \A m \in mats : m.to <= epoch[m.project]
  /\ \A p \in Projects : \A e \in 1..epoch[p] :
       \E m \in mats : m.project = p /\ m.to = e
  /\ \A m, n \in mats : m.project = n.project /\ m.to = n.to => m = n

(* Whatever has been enacted is approved by as many distinct parties as    *)
(* its proposal asked for: no party counts twice, and nothing that happens *)
(* between the count and the commit takes the quorum away.                 *)
QuorumHeld ==
  \A r \in enacted :
    prop[r.prop].quorum <=
      Cardinality({u \in Parties : \E i \in DOMAIN votes :
                     Approves(votes[i], r.prop) /\ votes[i].by = u})

(* Re-applying an applied Proposal is rejected: one proposal is enacted at *)
(* most once.                                                              *)
AppliedOnce == \A r, q \in enacted : r.prop = q.prop => r = q

(* An enacted proposal never counts as pending again, whichever retire or  *)
(* apply writes back a body it has read long before: only calls that read  *)
(* it before the first of them commits can enact it twice.                 *)
EnactedStaysSpent == \A r \in enacted : prop[r.prop].state # "pending"

(* The proposal of every enacted change keeps the epoch it produced, also  *)
(* when it is retired afterwards.                                          *)
EnactedTraceable == \A r \in enacted : prop[r.prop].epoch = r.epoch

(* Every Materialization starts from the epoch just before its own.        *)
EpochsContiguous == \A m \in mats : m.to = m.from + 1

(* A project that somebody owns is never taken from them by a germination. *)
OwnerKept ==
  [][\A p \in Projects : owner[p] # None => owner'[p] = owner[p]]_vars

(* No change of a graph bumps the epoch in vain, whoever applies, votes or *)
(* retires meanwhile: behind its Materialization there is a completed      *)
(* application to that project.  A registration that raises is the one     *)
(* thing that leaves an epoch with nothing behind it.                      *)
EpochMeansChange ==
  \A m \in mats : prop[m.prop].op = "graph" =>
    [prop |-> m.prop, project |-> m.project, epoch |-> m.to] \in enacted
=============================================================================
