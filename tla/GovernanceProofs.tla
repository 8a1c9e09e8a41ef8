-------------------------- MODULE GovernanceProofs --------------------------
(***************************************************************************)
(* What the type plane keeps, for any sessions, parties, projects,         *)
(* proposals and bounds, however the applications interleave.              *)
(*                                                                         *)
(* Typed: types, and what a call keeps while a later step needs it.        *)
(* EpochInv: the epochs of every project are sealed one by one.            *)
(* QuorumInv: apply counts the votes once and writes later, from a body it *)
(* read earlier, while others vote, apply and retire.  The count stays     *)
(* good because votes are only added, and the body because no writer of a  *)
(* Proposal changes what it asks for.                                      *)
(* BookInv: with these, what the steps need to be steps of a LawBook.      *)
(***************************************************************************)
EXTENDS GovernanceBook, FiniteSetTheorems, TLAPS

ProjectPhases == {"germinating", "germinated", "rekinding", "rekinded"}
BumpPhases == {"bumped", "resealed", "refused"}
ApplyPhases == {"read", "gated", "quorate", "from"} \cup BumpPhases
BodyPhases == {"proposed", "retiring", "retired"} \cup ApplyPhases

(* What a call keeps is bound for as long as a later step needs it.        *)
Located ==
  \A s \in Sessions :
    /\ pc[s] \in ProjectPhases =>
         by[s] \in Parties /\ at[s] \in Projects /\ val[s] \in Kinds
    /\ pc[s] = "voted" => arg[s] \in Proposals /\ val[s] \in Ballots
    /\ pc[s] \in BodyPhases => arg[s] \in Proposals /\ body[s] \in Proposal
    /\ pc[s] \in ApplyPhases => at[s] \in Projects
    /\ pc[s] \in BumpPhases => new[s] > 0

(* The conjuncts of TypeOK about the calls.                                *)
CallsTyped ==
  /\ pc \in [Sessions -> Phases]
  /\ by \in [Sessions -> Parties \cup {None}]
  /\ at \in [Sessions -> Projects \cup {None}]
  /\ arg \in [Sessions -> Proposals \cup {None}]
  /\ val \in [Sessions -> Kinds \cup Ballots \cup {None}]
  /\ body \in [Sessions -> Proposal \cup {None}]
  /\ from \in [Sessions -> 0..MaxEpoch]
  /\ new \in [Sessions -> 0..MaxEpoch]

Typed == TypeOK /\ Located

-----------------------------------------------------------------------------
(* Retiring a Proposal yields a Proposal with a declared state.            *)
LEMMA RetiredIsProposal ==
  ASSUME NEW b \in Proposal
  PROVE  Retired(b) \in Proposal
BY Zenon DEF Retired, Proposal, States

(* What is left of the calls when one of them ends is typed.               *)
LEMMA EndTyped ==
  ASSUME Typed, NEW s \in Sessions, End(s)
  PROVE  CallsTyped' /\ Located'
<1>1. CallsTyped'
  BY BoundsAssumption DEF Typed, TypeOK, CallsTyped, End, Phases
<1>2. \A t \in Sessions : t # s =>
        /\ pc'[t] = pc[t] /\ by'[t] = by[t] /\ at'[t] = at[t]
        /\ arg'[t] = arg[t] /\ val'[t] = val[t] /\ body'[t] = body[t]
        /\ new'[t] = new[t]
  BY Zenon DEF Typed, TypeOK, End
<1>3. pc'[s] = "idle"
  BY Zenon DEF Typed, TypeOK, End
<1>4. Located'
  BY <1>2, <1>3, ZenonT(60)
  DEF Typed, Located, ProjectPhases, BumpPhases, ApplyPhases, BodyPhases
<1> QED
  BY <1>1, <1>4, Zenon

(* A step that begins a call keeps the types.                              *)
LEMMA StartTyped ==
  ASSUME Typed, NEW s \in Sessions, NEW u \in Parties,
         NEW p \in Projects, Start(s, u, p)
  PROVE  Typed'
<1> USE DEF Typed, TypeOK, Located, Begin, tables, Phases, ProjectPhases,
            BumpPhases, ApplyPhases, BodyPhases
<1>1. ASSUME NEW k \in Kinds, Germinate(s, u, p, k)
      PROVE  Typed'
  BY <1>1, Zenon DEF Germinate
<1>2. ASSUME NEW k \in Kinds, ReadKind(s, u, p, k)
      PROVE  Typed'
  BY <1>2, Zenon DEF ReadKind
<1>3. ASSUME NEW x \in Proposals, NEW b \in Fresh, Propose(s, u, p, x, b)
      PROVE  Typed'
  <2>1. b \in Proposal
    <3> HIDE DEF Typed, TypeOK, Located
    <3>1. 0 \in 0..MaxEpoch
      BY BoundsAssumption
    <3> QED
      BY <3>1, Zenon DEF Fresh, Proposal, States
  <2> QED
    BY <1>3, <2>1 DEF Propose
<1>4. ASSUME NEW x \in Proposals, NEW v \in Ballots, CastVote(s, u, x, v)
      PROVE  Typed'
  BY <1>4, Zenon DEF CastVote
<1>5. ASSUME NEW x \in Proposals, ReadProposal(s, u, p, x)
      PROVE  Typed'
  <2>1. prop[x] \in Proposal
    BY <1>5, Zenon DEF ReadProposal
  <2> QED
    BY <1>5, <2>1, Zenon DEF ReadProposal
<1>6. ASSUME NEW x \in Proposals, ReadRetiree(s, x)
      PROVE  Typed'
  <2>1. Retired(prop[x]) \in Proposal
    BY <1>6, RetiredIsProposal, Zenon DEF ReadRetiree
  <2> QED
    BY <1>6, <2>1 DEF ReadRetiree
<1> QED
  BY <1>1, <1>2, <1>3, <1>4, <1>5, <1>6, Zenon DEF Start

(* A step that continues or ends a call keeps the types.                   *)
LEMMA ContinueTyped ==
  ASSUME Typed, NEW s \in Sessions, Continue(s)
  PROVE  Typed'
<1>1. CASE SealProject(s)
  BY <1>1, Zenon DEF SealProject,
     Typed, TypeOK, Located, Goto, tables, call, Phases, ProjectPhases,
     BumpPhases, ApplyPhases, BodyPhases
<1>2. CASE SealKind(s)
  BY <1>2 DEF SealKind,
     Typed, TypeOK, Located, Goto, tables, call, Phases, ProjectPhases,
     BumpPhases, ApplyPhases, BodyPhases
<1>3. CASE CommitProject(s)
  <2>1. at[s] \in Projects /\ by[s] \in Parties /\ val[s] \in Kinds
    BY <1>3, Zenon
    DEF CommitProject, WritesProject, Typed, Located, ProjectPhases
  <2>2. /\ owner' \in [Projects -> Parties \cup {None}]
        /\ kind' \in [Projects -> Kinds]
    BY <1>3, <2>1, Zenon DEF CommitProject, Typed, TypeOK
  <2> QED
    BY <1>3, <2>2, EndTyped, Zenon
    DEF CommitProject, Typed, TypeOK, CallsTyped
<1>4. CASE CommitProposal(s)
  <2>1. prop' \in [Proposals -> Proposal \cup {None}]
    BY <1>4, Zenon DEF CommitProposal, Typed, TypeOK, Located, BodyPhases
  <2> QED
    BY <1>4, <2>1, EndTyped, Zenon
    DEF CommitProposal, Typed, TypeOK, CallsTyped
<1>5. CASE CommitVote(s)
  <2>1. [prop |-> arg[s], by |-> by[s], value |-> val[s]] \in Vote
    BY <1>5, Zenon DEF CommitVote, Vote, Typed, TypeOK, Located
  <2>2. votes' \in Seq(Vote) /\ Len(votes') <= MaxVotes
    BY <1>5, <2>1, BoundsAssumption DEF CommitVote, Typed, TypeOK
  <2> QED
    BY <1>5, <2>2, EndTyped, Zenon DEF CommitVote, Typed, TypeOK, CallsTyped
<1>6. CASE GateOwner(s)
  BY <1>6, Zenon DEF GateOwner,
     Typed, TypeOK, Located, Goto, tables, call, Phases, ProjectPhases,
     BumpPhases, ApplyPhases, BodyPhases
<1>7. CASE GateQuorum(s)
  BY <1>7, Zenon DEF GateQuorum,
     Typed, TypeOK, Located, Goto, tables, call, Phases, ProjectPhases,
     BumpPhases, ApplyPhases, BodyPhases
<1>8. CASE ReadFrom(s)
  BY <1>8, Zenon DEF ReadFrom,
     Typed, TypeOK, Located, Goto, tables, call, Phases, ProjectPhases,
     BumpPhases, ApplyPhases, BodyPhases
<1>9. CASE BumpEpoch(s)
  BY <1>9, BoundsAssumption, SMTT(60) DEF BumpEpoch,
     Typed, TypeOK, Located, Goto, tables, call, Phases, ProjectPhases,
     BumpPhases, ApplyPhases, BodyPhases
<1>10. CASE Refuse(s)
  BY <1>10, Zenon DEF Refuse,
     Typed, TypeOK, Located, Goto, tables, call, Phases, ProjectPhases,
     BumpPhases, ApplyPhases, BodyPhases
<1>11. CASE Reseal(s)
  <2>1. body[s] \in Proposal /\ new[s] \in 0..MaxEpoch
    BY <1>11, Zenon DEF Reseal, Goto, Typed, TypeOK, Located, BumpPhases,
       ApplyPhases, BodyPhases
  <2>2. [body[s] EXCEPT !.state = "applied", !.epoch = new[s]] \in Proposal
    BY <2>1, Zenon DEF Proposal, States
  <2>3. body' = [body EXCEPT ![s] = [body[s] EXCEPT !.state = "applied",
                                                    !.epoch = new[s]]]
    BY <1>11, Zenon DEF Reseal, Typed, TypeOK
  <2> QED
    BY <1>11, <2>2, <2>3 DEF Reseal,
       Typed, TypeOK, Located, Goto, tables, call, Phases, ProjectPhases,
       BumpPhases, ApplyPhases, BodyPhases
<1>12. CASE CommitApply(s)
  <2>1. /\ at[s] \in Projects /\ arg[s] \in Proposals /\ body[s] \in Proposal
        /\ new[s] \in 1..MaxEpoch /\ from[s] \in 0..MaxEpoch
    BY <1>12, BoundsAssumption
    DEF CommitApply, Typed, TypeOK, Located, BumpPhases, ApplyPhases,
        BodyPhases
  <2>2. mats' \subseteq Materialization
    BY <1>12, <2>1 DEF CommitApply, Materialization, Typed, TypeOK
  <2>3. enacted' \subseteq
          [prop : Proposals, project : Projects, epoch : 1..MaxEpoch]
    BY <1>12, <2>1 DEF CommitApply, Typed, TypeOK
  <2>4. prop' \in [Proposals -> Proposal \cup {None}]
    BY <1>12, <2>1, Zenon DEF CommitApply, Typed, TypeOK
  <2>5. epoch' \in [Projects -> 0..MaxEpoch]
    BY <1>12, <2>1, Zenon DEF CommitApply, Typed, TypeOK
  <2> QED
    BY <1>12, <2>2, <2>3, <2>4, <2>5, EndTyped, Zenon
    DEF CommitApply, Typed, TypeOK, CallsTyped
<1>13. CASE SealRetiree(s)
  BY <1>13, Zenon
  DEF SealRetiree, Typed, TypeOK, Located, Goto, tables, call, Phases,
      ProjectPhases, BumpPhases, ApplyPhases, BodyPhases
<1>14. CASE CommitRetiree(s)
  <2>1. prop' \in [Proposals -> Proposal \cup {None}]
    BY <1>14, Zenon DEF CommitRetiree, Typed, TypeOK, Located, BodyPhases
  <2> QED
    BY <1>14, <2>1, EndTyped, Zenon
    DEF CommitRetiree, Typed, TypeOK, CallsTyped
<1>15. CASE Abandon(s)
  BY <1>15, EndTyped, Zenon DEF Abandon, tables, Typed, TypeOK, CallsTyped
<1> QED
  BY <1>1, <1>2, <1>3, <1>4, <1>5, <1>6, <1>7, <1>8, <1>9, <1>10, <1>11,
     <1>12, <1>13, <1>14, <1>15, ZenonT(60) DEF Continue

(* Typed holds initially and is kept by every step.                        *)
LEMMA TypedInvariant == Spec => []Typed
<1>1. Init => Typed
  BY BoundsAssumption DEF Init, Typed, TypeOK, Located, Kinds, Phases,
     ProjectPhases, BumpPhases, ApplyPhases, BodyPhases
<1>2. Typed /\ [Next]_vars => Typed'
  <2> SUFFICES ASSUME Typed, [Next]_vars PROVE Typed'
    OBVIOUS
  <2>1. CASE Next
    BY <2>1, StartTyped, ContinueTyped, Zenon DEF Next
  <2>2. CASE UNCHANGED vars
    BY <2>2, Zenon DEF vars, tables, call, Typed, TypeOK, Located
  <2> QED
    BY <2>1, <2>2, Zenon
<1> QED
  BY <1>1, <1>2, PTL DEF Spec

(* Every table and local of the type plane holds a value of its type, and  *)
(* a Proposal never gets a state outside the declared enumeration.         *)
THEOREM TypeCorrect == Spec => []TypeOK
BY TypedInvariant, PTL DEF Typed

-----------------------------------------------------------------------------
(* The row of ckp.kernel_epoch that a session has bumped is its own until  *)
(* it ends: nobody else has bumped it, and what it will commit is one more *)
(* than what is committed.                                                 *)
BumpsExclusive ==
  /\ \A s \in Sessions : BumpsEpoch(s) => new[s] = epoch[at[s]] + 1
  /\ \A s, t \in Sessions :
       BumpsEpoch(s) /\ BumpsEpoch(t) /\ at[s] = at[t] => s = t

EpochInv == EpochsSealed /\ BumpsExclusive

(* A step that neither bumps nor commits a bump leaves the epochs alone:   *)
(* the tables are the same, and who holds a bump keeps it or drops it.     *)
LEMMA EpochFrame ==
  ASSUME EpochInv, epoch' = epoch, mats' = mats,
         \A s \in Sessions : BumpsEpoch(s)' =>
            BumpsEpoch(s) /\ at'[s] = at[s] /\ new'[s] = new[s]
  PROVE  EpochInv'
<1>1. EpochsSealed'
  BY DEF EpochInv, EpochsSealed
<1>2. BumpsExclusive'
  BY Zenon DEF EpochInv, BumpsExclusive
<1> QED
  BY <1>1, <1>2, Zenon DEF EpochInv

(* Beginning a call touches neither the epochs nor anybody's bump.         *)
LEMMA StartEpochs ==
  ASSUME Typed, EpochInv, NEW s \in Sessions, NEW u \in Parties,
         NEW p \in Projects, Start(s, u, p)
  PROVE  EpochInv'
<1> DEFINE Kept == \A t \in Sessions :
             BumpsEpoch(t)' => BumpsEpoch(t) /\ at'[t] = at[t]
<1>1. epoch' = epoch /\ mats' = mats /\ new' = new
  BY Zenon DEF Start, Germinate, ReadKind, Propose, CastVote, ReadProposal,
     ReadRetiree, tables
<1>2. ASSUME NEW x, NEW v, NEW to, NEW q, NEW w, Begin(s, q, w, x, v, to),
             to \notin BumpPhases
      PROVE  Kept
  BY <1>2, Zenon DEF Begin, Typed, TypeOK, BumpsEpoch, BumpPhases
<1>3. Kept
  <2>1. ASSUME NEW k \in Kinds, Germinate(s, u, p, k)
        PROVE  Kept
    BY <2>1, <1>2, Zenon DEF Germinate, BumpPhases
  <2>2. ASSUME NEW k \in Kinds, ReadKind(s, u, p, k)
        PROVE  Kept
    BY <2>2, <1>2, Zenon DEF ReadKind, BumpPhases
  <2>3. ASSUME NEW y \in Proposals, NEW b \in Fresh, Propose(s, u, p, y, b)
        PROVE  Kept
    <3>1. Begin(s, None, None, y, None, "proposed")
      BY <2>3, Zenon DEF Propose
    <3> QED
      BY <3>1, <1>2, Zenon DEF BumpPhases
  <2>4. ASSUME NEW y \in Proposals, NEW c \in Ballots, CastVote(s, u, y, c)
        PROVE  Kept
    BY <2>4, <1>2, Zenon DEF CastVote, BumpPhases
  <2>5. ASSUME NEW y \in Proposals, ReadProposal(s, u, p, y)
        PROVE  Kept
    BY <2>5, <1>2, Zenon DEF ReadProposal, BumpPhases
  <2>6. ASSUME NEW y \in Proposals, ReadRetiree(s, y)
        PROVE  Kept
    BY <2>6, <1>2, Zenon DEF ReadRetiree, BumpPhases
  <2> QED
    BY <2>1, <2>2, <2>3, <2>4, <2>5, <2>6, Zenon DEF Start
<1> QED
  BY <1>1, <1>3, EpochFrame, Zenon

(* Every continuation keeps the epochs sealed: a bump waits for the row, a *)
(* commit adds exactly the Materialization of the epoch it commits.        *)
LEMMA ContinueEpochs ==
  ASSUME Typed, EpochInv, NEW s \in Sessions, Continue(s)
  PROVE  EpochInv'
<1>1. CASE BumpEpoch(s)
  <2>1. epoch' = epoch /\ mats' = mats /\ at' = at
    BY <1>1, Zenon DEF BumpEpoch, tables
  <2>2. EpochsSealed'
    BY <2>1 DEF EpochInv, EpochsSealed
  <2>3. new'[s] = epoch[at[s]] + 1
    BY <1>1, Zenon DEF BumpEpoch, Typed, TypeOK
  <2>4. \A t \in Sessions : t # s =>
          (BumpsEpoch(t)' <=> BumpsEpoch(t)) /\ new'[t] = new[t]
    BY <1>1, Zenon DEF BumpEpoch, Goto, Typed, TypeOK, BumpsEpoch
  <2>5. \A t \in Sessions : BumpsEpoch(t) => at[t] # at[s]
    BY <1>1, Zenon DEF BumpEpoch, EpochHeld
  <2>6. BumpsExclusive'
    BY <2>1, <2>3, <2>4, <2>5, Zenon DEF EpochInv, BumpsExclusive
  <2> QED
    BY <2>2, <2>6, Zenon DEF EpochInv
<1>2. CASE CommitApply(s)
  <2> DEFINE m == [project |-> at[s], from |-> from[s], to |-> new[s],
                   prop |-> arg[s]]
  <2>1. BumpsEpoch(s) /\ at[s] \in Projects /\ new[s] = epoch[at[s]] + 1
    BY <1>2, Zenon DEF CommitApply, BumpsEpoch, Typed, Located, BumpPhases,
       ApplyPhases, EpochInv, BumpsExclusive
  <2>2. mats' = mats \cup {m}
    BY <1>2, Zenon DEF CommitApply
  <2>3. /\ epoch'[at[s]] = epoch[at[s]] + 1
        /\ \A p \in Projects : p # at[s] => epoch'[p] = epoch[p]
    BY <1>2, <2>1, Zenon DEF CommitApply, Typed, TypeOK
  <2>4. epoch \in [Projects -> Nat] /\ mats \subseteq Materialization
    BY BoundsAssumption DEF Typed, TypeOK
  <2>5. \A n \in mats : n.project \in Projects /\ n.to \in Nat
    BY <2>4 DEF Materialization
  <2>6. m.project = at[s] /\ m.to = epoch[at[s]] + 1
    BY <2>1, Zenon
  <2> HIDE DEF m
  <2>7. EpochsSealed'
    <3>1. \A n \in mats' : n.to <= epoch'[n.project]
      BY <2>1, <2>2, <2>3, <2>4, <2>5, <2>6 DEF EpochInv, EpochsSealed
    <3>2. ASSUME NEW p \in Projects, NEW e \in 1..epoch'[p]
          PROVE  \E n \in mats' : n.project = p /\ n.to = e
      <4>1. CASE p = at[s] /\ e = epoch[p] + 1
        BY <4>1, <2>2, <2>6, Zenon
      <4>2. CASE ~(p = at[s] /\ e = epoch[p] + 1)
        <5>1. e \in 1..epoch[p]
          BY <4>2, <2>3, <2>4
        <5> QED
          BY <5>1, <2>2 DEF EpochInv, EpochsSealed
      <4> QED
        BY <4>1, <4>2, Zenon
    <3>3. ASSUME NEW n \in mats', NEW k \in mats',
                 n.project = k.project, n.to = k.to
          PROVE  n = k
      <4>1. \A l \in mats : ~(l.project = m.project /\ l.to = m.to)
        BY <2>1, <2>4, <2>5, <2>6 DEF EpochInv, EpochsSealed
      <4> QED
        BY <3>3, <4>1, <2>2, Zenon DEF EpochInv, EpochsSealed
    <3> QED
      BY <3>1, <3>2, <3>3, Zenon DEF EpochsSealed
  <2>8. \A t \in Sessions : BumpsEpoch(t)' =>
          t # s /\ BumpsEpoch(t) /\ at'[t] = at[t] /\ new'[t] = new[t]
    BY <1>2, Zenon DEF CommitApply, End, Typed, TypeOK, BumpsEpoch
  <2>9. \A t \in Sessions : BumpsEpoch(t) => at[t] \in Projects
    BY Zenon DEF BumpsEpoch, Typed, Located, BumpPhases, ApplyPhases
  <2>10. BumpsExclusive'
    <3>1. ASSUME NEW t \in Sessions, BumpsEpoch(t)'
          PROVE  new'[t] = epoch'[at'[t]] + 1
      <4>1. at[t] # at[s]
        BY <2>1, <2>8, <3>1, Zenon DEF EpochInv, BumpsExclusive
      <4> QED
        BY <2>3, <2>8, <2>9, <3>1, <4>1 DEF EpochInv, BumpsExclusive
    <3>2. \A t, w \in Sessions :
            BumpsEpoch(t)' /\ BumpsEpoch(w)' /\ at'[t] = at'[w] => t = w
      BY <2>8, Zenon DEF EpochInv, BumpsExclusive
    <3> QED
      BY <3>1, <3>2, Zenon DEF BumpsExclusive
  <2> QED
    BY <2>7, <2>10 DEF EpochInv
<1>3. CASE SealProject(s) \/ SealKind(s) \/ GateOwner(s) \/ GateQuorum(s)
           \/ ReadFrom(s) \/ Refuse(s) \/ Reseal(s) \/ SealRetiree(s)
  <2>1. epoch' = epoch /\ mats' = mats /\ at' = at /\ new' = new
    BY <1>3, Zenon
    DEF SealProject, SealKind, GateOwner, GateQuorum, ReadFrom, Refuse,
        Reseal, SealRetiree, tables, call
  <2>2. \A t \in Sessions : BumpsEpoch(t)' => BumpsEpoch(t)
    BY <1>3, ZenonT(60)
    DEF SealProject, SealKind, GateOwner, GateQuorum, ReadFrom, Refuse,
        Reseal, SealRetiree, Goto, Typed, TypeOK, BumpsEpoch
  <2> QED
    BY <2>1, <2>2, EpochFrame, Zenon
<1>4. CASE CommitProject(s) \/ CommitProposal(s) \/ CommitVote(s)
           \/ CommitRetiree(s) \/ Abandon(s)
  <2>1. epoch' = epoch /\ mats' = mats /\ End(s)
    BY <1>4, Zenon
    DEF CommitProject, CommitProposal, CommitVote, CommitRetiree, Abandon,
        tables
  <2>2. \A t \in Sessions : BumpsEpoch(t)' =>
          BumpsEpoch(t) /\ at'[t] = at[t] /\ new'[t] = new[t]
    BY <2>1, Zenon DEF End, Typed, TypeOK, BumpsEpoch
  <2> QED
    BY <2>1, <2>2, EpochFrame, Zenon
<1> QED
  BY <1>1, <1>2, <1>3, <1>4, Zenon DEF Continue

(* The strengthened epoch ledger holds in every reachable state.           *)
LEMMA EpochInvariant == Spec => []EpochInv
<1>1. Init => EpochInv
  BY DEF Init, EpochInv, EpochsSealed, BumpsExclusive, BumpsEpoch
<1>2. Typed /\ EpochInv /\ [Next]_vars => EpochInv'
  <2> SUFFICES ASSUME Typed, EpochInv, [Next]_vars PROVE EpochInv'
    OBVIOUS
  <2>1. CASE Next
    BY <2>1, StartEpochs, ContinueEpochs, Zenon DEF Next
  <2>2. CASE UNCHANGED vars
    BY <2>2, EpochFrame, Zenon DEF vars, tables, call, BumpsEpoch
  <2> QED
    BY <2>1, <2>2, Zenon
<1> QED
  BY <1>1, <1>2, TypedInvariant, PTL DEF Spec

(* A bumped epoch with no Materialization cannot commit, and no epoch has  *)
(* two: ckp.apply under any interleaving of any number of sessions.        *)
THEOREM EpochsAreSealed == Spec => []EpochsSealed
BY EpochInvariant, PTL DEF EpochInv

-----------------------------------------------------------------------------
CopyPhases == {"retiring", "retired"} \cup ApplyPhases
CountPhases == {"quorate", "from"} \cup BumpPhases

(* The Proposal that a session seals for the first time is its own.        *)
ProposedAt(s) ==
  pc[s] = "proposed" =>
    prop[arg[s]] = None /\ \A t \in Sessions : t # s => arg[t] # arg[s]

(* The copy that apply or retire works on asks for what the Proposal asks. *)
CopiedAt(s) ==
  pc[s] \in CopyPhases =>
    /\ prop[arg[s]] # None
    /\ body[s].quorum = prop[arg[s]].quorum /\ body[s].op = prop[arg[s]].op

(* The votes that apply has counted are still there.                       *)
CountedAt(s) ==
  pc[s] \in CountPhases => body[s].quorum <= Cardinality(Consent(arg[s]))

HasQuorum(x) ==
  prop[x] # None /\ prop[x].quorum <= Cardinality(Consent(x))

QuorumInv ==
  /\ \A s \in Sessions : ProposedAt(s) /\ CopiedAt(s) /\ CountedAt(s)
  /\ \A r \in enacted : HasQuorum(r.prop)

-----------------------------------------------------------------------------
(* Parties that consent are finitely many.                                 *)
LEMMA ConsentFinite ==
  ASSUME NEW x
  PROVE  IsFiniteSet(Consent(x)) /\ Cardinality(Consent(x)) \in Nat
<1>1. Consent(x) \subseteq Parties
  BY Zenon DEF Consent
<1> QED
  BY <1>1, PartiesAssumption, FS_Subset, FS_CardinalityType, Zenon

(* What apply counts are the parties that consent.                         *)
LEMMA ApproversConsent ==
  ASSUME Typed, NEW x
  PROVE  Approvers(x) = Consent(x)
<1>1. \A i \in DOMAIN votes : votes[i].by \in Parties \cup {None}
  <2>1. votes \in Seq(Vote)
    BY Zenon DEF Typed, TypeOK
  <2>2. \A i \in DOMAIN votes : votes[i] \in Vote
    BY <2>1
  <2> QED
    BY <2>2, Zenon DEF Vote
<1>2. Approvers(x) \subseteq Consent(x)
  BY <1>1, Zenon DEF Approvers, Consent
<1>3. Consent(x) \subseteq Approvers(x)
  BY NamesAssumption, ZenonT(40) DEF Approvers, Consent
<1> QED
  BY <1>2, <1>3, Zenon

(* Appending a vote takes no consent away.                                 *)
LEMMA ConsentGrows ==
  ASSUME Typed, NEW v \in Vote, votes' = votes \/ votes' = Append(votes, v),
         NEW x
  PROVE  Cardinality(Consent(x)) <= Cardinality(Consent(x)')
<1>1. votes \in Seq(Vote)
  BY Zenon DEF Typed, TypeOK
<1>2. \A i \in DOMAIN votes : i \in DOMAIN votes' /\ votes'[i] = votes[i]
  BY <1>1
<1>3. Consent(x) \subseteq Consent(x)'
  BY <1>2, Zenon DEF Consent, Approves
<1>4. Consent(x)' \subseteq Parties
  BY Zenon DEF Consent
<1>5. IsFiniteSet(Consent(x)')
  BY <1>4, PartiesAssumption, FS_Subset, Zenon
<1> QED
  BY <1>3, <1>5, FS_Subset, Zenon

(* A step of session s that adds votes at most, keeps what every Proposal  *)
(* asks for, and leaves the new Proposals of the others alone, keeps the   *)
(* invariant if it does for s and for what s enacts.                       *)
LEMMA QuorumFrame ==
  ASSUME Typed, QuorumInv, NEW s \in Sessions,
         \A t \in Sessions : t # s =>
           pc'[t] = pc[t] /\ arg'[t] = arg[t] /\ body'[t] = body[t],
         \A x : Cardinality(Consent(x)) <= Cardinality(Consent(x)'),
         \A x \in Proposals : prop[x] # None =>
           /\ prop'[x] # None
           /\ prop'[x].quorum = prop[x].quorum /\ prop'[x].op = prop[x].op,
         \A t \in Sessions : t # s /\ pc[t] = "proposed" =>
           prop'[arg[t]] = None /\ arg'[s] # arg[t],
         ProposedAt(s)', CopiedAt(s)', CountedAt(s)',
         \A r \in enacted' \ enacted : HasQuorum(r.prop)'
  PROVE  QuorumInv'
<1>1. \A x : Cardinality(Consent(x)) \in Nat
  BY ConsentFinite, Zenon
<1>2. \A x : Cardinality(Consent(x)') \in Nat
  <2> SUFFICES ASSUME NEW x PROVE Cardinality(Consent(x)') \in Nat
    OBVIOUS
  <2>1. Consent(x)' \subseteq Parties
    BY Zenon DEF Consent
  <2> QED
    BY <2>1, PartiesAssumption, FS_Subset, FS_CardinalityType, Zenon
<1>3. \A x \in Proposals : prop[x] # None => prop[x].quorum \in Nat
  BY BoundsAssumption DEF Typed, TypeOK, Proposal
<1>4. ASSUME NEW t \in Sessions, t # s
      PROVE  ProposedAt(t)' /\ CopiedAt(t)' /\ CountedAt(t)'
  <2>1. ProposedAt(t)'
    BY <1>4 DEF QuorumInv, ProposedAt
  <2>2. pc[t] \in CopyPhases => arg[t] \in Proposals /\ body[t] \in Proposal
    BY ZenonT(60) DEF Typed, Located, CopyPhases, BodyPhases
  <2>3. CopiedAt(t)'
    BY <1>4, <2>2, SMTT(60) DEF QuorumInv, CopiedAt
  <2>4. pc[t] \in CountPhases => body[t].quorum \in Nat
    BY <2>2, BoundsAssumption
    DEF CountPhases, CopyPhases, ApplyPhases, Proposal
  <2>5. CountedAt(t)
    BY Zenon DEF QuorumInv
  <2>6. CountedAt(t)'
    <3>1. SUFFICES ASSUME NEW x, x = arg[t], pc[t] \in CountPhases
                   PROVE  body[t].quorum <= Cardinality(Consent(x)')
      BY <1>4, Zenon DEF CountedAt, Consent
    <3>2. body[t].quorum <= Cardinality(Consent(x))
      BY <2>5, <3>1, Zenon DEF CountedAt
    <3> QED
      BY <1>1, <1>2, <2>4, <3>1, <3>2
  <2> QED
    BY <2>1, <2>3, <2>6, ZenonT(60)
<1>5. ASSUME NEW r \in enacted
      PROVE  HasQuorum(r.prop)'
  <2>1. r.prop \in Proposals
    BY Zenon DEF Typed, TypeOK
  <2>2. HasQuorum(r.prop)
    BY Zenon DEF QuorumInv
  <2> QED
    BY <1>1, <1>2, <1>3, <2>1, <2>2, SMTT(30) DEF HasQuorum
<1> QED
  BY <1>4, <1>5, Zenon DEF QuorumInv

-----------------------------------------------------------------------------
(* Beginning a call: a Proposal that is read is copied, one that is new is *)
(* nobody else's.                                                          *)
LEMMA StartQuorum ==
  ASSUME Typed, QuorumInv, NEW s \in Sessions,
         NEW u \in Parties, NEW p \in Projects, Start(s, u, p)
  PROVE  QuorumInv'
<1>1. prop' = prop /\ votes' = votes /\ enacted' = enacted
  BY Zenon DEF Start, Germinate, ReadKind, Propose, CastVote, ReadProposal,
     ReadRetiree, tables
<1>2. \A x : Consent(x)' = Consent(x)
  BY <1>1, Zenon DEF Consent
<1>3. \A x : Cardinality(Consent(x)) <= Cardinality(Consent(x)')
  BY <1>2, ConsentFinite
<1>4. PICK q, w, x, v, to : Begin(s, q, w, x, v, to)
  BY Zenon DEF Start, Germinate, ReadKind, Propose, CastVote, ReadProposal,
     ReadRetiree
<1>5. \A t \in Sessions : t # s => pc'[t] = pc[t] /\ arg'[t] = arg[t]
  BY <1>4, Zenon DEF Begin, Typed, TypeOK
<1>6. \A t \in Sessions : t # s => body'[t] = body[t]
  BY Zenon
  DEF Start, Germinate, ReadKind, Propose, CastVote, ReadProposal,
      ReadRetiree, Typed, TypeOK
<1>7. \A t \in Sessions : pc[t] = "proposed" =>
        arg[t] \in Proposals /\ prop[arg[t]] = None
  BY SMTT(30) DEF Typed, Located, BodyPhases, QuorumInv, ProposedAt
<1>8. pc'[s] \notin CountPhases
  <2> DEFINE Early == pc'[s] \notin CountPhases
  <2>1. ASSUME NEW k \in Kinds, Germinate(s, u, p, k)
        PROVE  Early
    BY <2>1, Zenon
    DEF Germinate, Begin, Typed, TypeOK, CountPhases, BumpPhases
  <2>2. ASSUME NEW k \in Kinds, ReadKind(s, u, p, k)
        PROVE  Early
    BY <2>2, Zenon
    DEF ReadKind, Begin, Typed, TypeOK, CountPhases, BumpPhases
  <2>3. ASSUME NEW y \in Proposals, NEW b \in Fresh, Propose(s, u, p, y, b)
        PROVE  Early
    BY <2>3, Zenon DEF Propose, Begin, Typed, TypeOK, CountPhases, BumpPhases
  <2>4. ASSUME NEW y \in Proposals, NEW c \in Ballots, CastVote(s, u, y, c)
        PROVE  Early
    BY <2>4, Zenon
    DEF CastVote, Begin, Typed, TypeOK, CountPhases, BumpPhases
  <2>5. ASSUME NEW y \in Proposals, ReadProposal(s, u, p, y)
        PROVE  Early
    BY <2>5, Zenon
    DEF ReadProposal, Begin, Typed, TypeOK, CountPhases, BumpPhases
  <2>6. ASSUME NEW y \in Proposals, ReadRetiree(s, y)
        PROVE  Early
    BY <2>6, Zenon
    DEF ReadRetiree, Begin, Typed, TypeOK, CountPhases, BumpPhases
  <2> QED
    BY <2>1, <2>2, <2>3, <2>4, <2>5, <2>6, Zenon DEF Start
<1>9. CountedAt(s)'
  BY <1>8, Zenon DEF CountedAt
<1>10. /\ \A t \in Sessions : t # s /\ pc[t] = "proposed" => arg'[s] # arg[t]
       /\ ProposedAt(s)' /\ CopiedAt(s)'
  <2> USE DEF Begin, Typed, TypeOK
  <2> DEFINE Goal ==
        /\ \A t \in Sessions : t # s /\ pc[t] = "proposed" =>
              arg'[s] # arg[t]
        /\ ProposedAt(s)' /\ CopiedAt(s)'
  <2>1. ASSUME NEW k \in Kinds, Germinate(s, u, p, k) \/ ReadKind(s, u, p, k)
        PROVE  Goal
    BY <2>1, <1>7, NamesAssumption DEF Germinate, ReadKind, ProposedAt,
       CopiedAt, CopyPhases, ApplyPhases, BumpPhases
  <2>2. ASSUME NEW y \in Proposals, NEW b \in Fresh, Propose(s, u, p, y, b)
        PROVE  Goal
    BY <2>2, <1>1, <1>5, Zenon DEF Propose, ProposedAt, CopiedAt, CopyPhases,
       ApplyPhases, BumpPhases
  <2>3. ASSUME NEW y \in Proposals, NEW c \in Ballots, CastVote(s, u, y, c)
        PROVE  Goal
    BY <2>3, <1>7, Zenon DEF CastVote, ProposedAt, CopiedAt, CopyPhases,
       ApplyPhases, BumpPhases
  <2>4. ASSUME NEW y \in Proposals, ReadProposal(s, u, p, y)
        PROVE  Goal
    BY <2>4, <1>1, <1>7, Zenon DEF ReadProposal, ProposedAt, CopiedAt
  <2>5. ASSUME NEW y \in Proposals, ReadRetiree(s, y)
        PROVE  Goal
    <3>1. prop[y] \in Proposal
      BY <2>5, Zenon DEF ReadRetiree
    <3>2. /\ Retired(prop[y]).quorum = prop[y].quorum
          /\ Retired(prop[y]).op = prop[y].op
      BY <3>1, SMTT(30) DEF Retired, Proposal
    <3> QED
      BY <2>5, <3>2, <1>1, <1>7, Zenon DEF ReadRetiree, ProposedAt, CopiedAt
  <2> QED
    BY <2>1, <2>2, <2>3, <2>4, <2>5, ZenonT(60) DEF Start
<1> QED
  BY <1>1, <1>3, <1>5, <1>6, <1>7, <1>9, <1>10, QuorumFrame, Zenon

(* Whoever writes a Proposal back leaves what it asks for as it was.       *)
LEMMA AsksKept ==
  ASSUME Typed, QuorumInv, NEW s \in Sessions,
         pc[s] \in {"proposed"} \cup CopyPhases,
         prop' = [prop EXCEPT ![arg[s]] = body[s]]
  PROVE  \A x \in Proposals : prop[x] # None =>
           /\ prop'[x] # None
           /\ prop'[x].quorum = prop[x].quorum /\ prop'[x].op = prop[x].op
<1>1. arg[s] \in Proposals /\ body[s] \in Proposal /\ body[s] # None
  BY NoneAssumption, Zenon DEF Typed, Located, BodyPhases, CopyPhases
<1> QED
  BY <1>1, Zenon DEF QuorumInv, ProposedAt, CopiedAt, Typed, TypeOK

(* A call that ends after adding a vote at most, and after writing at most *)
(* its own Proposal.                                                       *)
LEMMA EndQuorum ==
  ASSUME Typed, QuorumInv, NEW s \in Sessions, End(s),
         \A x : Cardinality(Consent(x)) <= Cardinality(Consent(x)'),
         \/ prop' = prop
         \/ /\ pc[s] \in {"proposed"} \cup CopyPhases
            /\ prop' = [prop EXCEPT ![arg[s]] = body[s]],
         \A r \in enacted' \ enacted : HasQuorum(r.prop)'
  PROVE  QuorumInv'
<1>1. /\ \A t \in Sessions : t # s =>
           pc'[t] = pc[t] /\ arg'[t] = arg[t] /\ body'[t] = body[t]
      /\ pc'[s] = "idle" /\ arg'[s] = None
  BY Zenon DEF End, Typed, TypeOK
<1>2. ProposedAt(s)' /\ CopiedAt(s)' /\ CountedAt(s)'
  BY <1>1, Zenon
  DEF ProposedAt, CopiedAt, CountedAt, CopyPhases, CountPhases, ApplyPhases,
      BumpPhases
<1>4. \A x \in Proposals : prop[x] # None =>
        /\ prop'[x] # None
        /\ prop'[x].quorum = prop[x].quorum /\ prop'[x].op = prop[x].op
  BY AsksKept, Zenon
<1>5. \A t \in Sessions : t # s /\ pc[t] = "proposed" =>
        /\ arg[t] \in Proposals /\ prop[arg[t]] = None
        /\ arg[t] # arg[s]
  BY ZenonT(60) DEF QuorumInv, ProposedAt, Typed, Located, BodyPhases
<1>6. \A t \in Sessions : t # s /\ pc[t] = "proposed" =>
        prop'[arg[t]] = None /\ arg'[s] # arg[t]
  BY <1>1, <1>5, NamesAssumption DEF Typed, TypeOK
<1> QED
  BY <1>1, <1>2, <1>4, <1>6, QuorumFrame, Zenon

(* Continuing a call: the quorum gate counts, the commits write what was   *)
(* counted for.                                                            *)
LEMMA ContinueQuorum ==
  ASSUME Typed, QuorumInv, NEW s \in Sessions, Continue(s)
  PROVE  QuorumInv'
<1>1. ASSUME votes' = votes
      PROVE  \A x : /\ Consent(x)' = Consent(x)
                    /\ Cardinality(Consent(x)) <= Cardinality(Consent(x)')
  <2>1. \A x : Consent(x)' = Consent(x)
    BY <1>1, Zenon DEF Consent
  <2> QED
    BY <2>1, ConsentFinite
<1>2. CASE SealProject(s) \/ SealKind(s) \/ GateOwner(s) \/ GateQuorum(s)
           \/ ReadFrom(s) \/ BumpEpoch(s) \/ Refuse(s) \/ Reseal(s)
           \/ SealRetiree(s)
  <2>1. prop' = prop /\ votes' = votes /\ enacted' = enacted /\ arg' = arg
    BY <1>2, Zenon
    DEF SealProject, SealKind, GateOwner, GateQuorum, ReadFrom, BumpEpoch,
        Refuse, Reseal, SealRetiree, tables, call
  <2>2. \A t \in Sessions : t # s => pc'[t] = pc[t] /\ body'[t] = body[t]
    BY <1>2 DEF SealProject, SealKind, GateOwner, GateQuorum, ReadFrom,
       BumpEpoch, Refuse, Reseal, SealRetiree, call, Goto, Typed, TypeOK
  <2>3. \A t \in Sessions : t # s /\ pc[t] = "proposed" =>
          prop[arg[t]] = None /\ arg[s] # arg[t]
    BY Zenon DEF QuorumInv, ProposedAt
  <2>4. pc[s] \in BodyPhases => arg[s] \in Proposals /\ body[s] \in Proposal
    BY Zenon DEF Typed, Located
  <2>5. pc'[s] \in CopyPhases =>
          /\ pc[s] \in CopyPhases
          /\ body'[s].quorum = body[s].quorum /\ body'[s].op = body[s].op
    <3>1. CASE Reseal(s)
      <4>1. pc[s] = "bumped" /\ body[s] \in Proposal
        BY <3>1, <2>4, Zenon
        DEF Reseal, Goto, BodyPhases, ApplyPhases, BumpPhases
      <4>2. body'[s] = [body[s] EXCEPT !.state = "applied",
                                       !.epoch = new[s]]
        BY <3>1, Zenon DEF Reseal, Typed, TypeOK
      <4> QED
        BY <4>1, <4>2, Zenon
        DEF Proposal, CopyPhases, ApplyPhases, BumpPhases
    <3>2. CASE ~Reseal(s)
      BY <1>2, <3>2 DEF SealProject, SealKind, GateOwner, GateQuorum,
         ReadFrom, BumpEpoch, Refuse, SealRetiree, call, Goto, Typed, TypeOK,
         CopyPhases, ApplyPhases, BumpPhases
    <3> QED
      BY <3>1, <3>2, Zenon
  <2>6. pc'[s] # "proposed"
    BY <1>2, Zenon
    DEF SealProject, SealKind, GateOwner, GateQuorum, ReadFrom, BumpEpoch,
        Refuse, Reseal, SealRetiree, Goto, Typed, TypeOK
  <2>7. ProposedAt(s)' /\ CopiedAt(s)'
    BY <2>1, <2>5, <2>6, Zenon DEF QuorumInv, ProposedAt, CopiedAt
  <2>8. pc'[s] \in CountPhases =>
          body[s].quorum <= Cardinality(Consent(arg[s]))
    <3>1. CASE GateQuorum(s)
      <4>1. Approvers(arg[s]) = Consent(arg[s])
        BY ApproversConsent, Zenon
      <4>2. body[s].quorum <= Cardinality(Consent(arg[s]))
        BY <3>1, <4>1, <2>4, BoundsAssumption, ConsentFinite, Zenon
        DEF GateQuorum, Goto, BodyPhases, ApplyPhases, Proposal
      <4> QED
        BY <4>2, Zenon
    <3>2. CASE ~GateQuorum(s)
      <4>1. pc'[s] \in CountPhases => pc[s] \in CountPhases
        BY <1>2, <3>2 DEF SealProject, SealKind, GateOwner, ReadFrom,
           BumpEpoch, Refuse, Reseal, SealRetiree, Goto, Typed, TypeOK,
           CountPhases, BumpPhases
      <4> QED
        BY <4>1, Zenon DEF QuorumInv, CountedAt
    <3> QED
      BY <3>1, <3>2, Zenon
  <2>9. CountedAt(s)'
    BY <1>1, <2>1, <2>5, <2>8, Zenon DEF CountedAt, CountPhases, CopyPhases,
       ApplyPhases, Consent
  <2> QED
    BY <1>1, <2>1, <2>2, <2>3, <2>7, <2>9, QuorumFrame, Zenon
<1>3. CASE CommitProject(s) \/ Abandon(s)
  <2>1. End(s) /\ prop' = prop /\ votes' = votes /\ enacted' = enacted
    BY <1>3, Zenon DEF CommitProject, Abandon, tables
  <2> QED
    BY <1>1, <2>1, EndQuorum, Zenon
<1>4. CASE CommitProposal(s) \/ CommitRetiree(s)
  <2>1. End(s) /\ votes' = votes /\ enacted' = enacted
    BY <1>4, Zenon DEF CommitProposal, CommitRetiree
  <2>2. /\ pc[s] \in {"proposed"} \cup CopyPhases
        /\ prop' = [prop EXCEPT ![arg[s]] = body[s]]
    BY <1>4, Zenon DEF CommitProposal, CommitRetiree, CopyPhases
  <2> QED
    BY <1>1, <2>1, <2>2, EndQuorum, Zenon
<1>5. CASE CommitVote(s)
  <2> DEFINE v == [prop |-> arg[s], by |-> by[s], value |-> val[s]]
  <2>1. v \in Vote
    BY <1>5, Zenon DEF CommitVote, Vote, Typed, TypeOK, Located
  <2>2. /\ End(s) /\ prop' = prop /\ enacted' = enacted
        /\ votes' = Append(votes, v)
    BY <1>5, Zenon DEF CommitVote
  <2> HIDE DEF v
  <2>3. \A x : Cardinality(Consent(x)) <= Cardinality(Consent(x)')
    BY <2>1, <2>2, ConsentGrows
  <2> QED
    BY <2>2, <2>3, EndQuorum, Zenon
<1>6. CASE CommitApply(s)
  <2>1. End(s) /\ votes' = votes
    BY <1>6, Zenon DEF CommitApply
  <2>2. pc[s] \in CopyPhases /\ pc[s] \in CountPhases
    BY <1>6, Zenon
    DEF CommitApply, CopyPhases, CountPhases, ApplyPhases, BumpPhases
  <2>3. CASE pc[s] = "refused"
    <3>1. prop' = prop /\ enacted' = enacted
      BY <1>6, <2>3, Zenon DEF CommitApply
    <3> QED
      BY <1>1, <2>1, <3>1, EndQuorum, Zenon
  <2>4. CASE pc[s] = "resealed"
    <3>1. /\ prop' = [prop EXCEPT ![arg[s]] = body[s]]
          /\ enacted' = enacted \cup {[prop |-> arg[s], project |-> at[s],
                                       epoch |-> new[s]]}
      BY <1>6, <2>4, Zenon DEF CommitApply
    <3>2. arg[s] \in Proposals /\ body[s] \in Proposal /\ body[s] # None
      BY <2>2, NoneAssumption, Zenon
      DEF Typed, Located, BodyPhases, CopyPhases
    <3>3. ASSUME NEW x, x = arg[s]
          PROVE  HasQuorum(x)'
      <4>1. body[s].quorum <= Cardinality(Consent(x))
        BY <2>2, <3>3, Zenon DEF QuorumInv, CountedAt
      <4>2. prop'[x] = body[s]
        BY <3>1, <3>2, <3>3, Zenon DEF Typed, TypeOK
      <4> QED
        BY <1>1, <2>1, <3>2, <4>1, <4>2, Zenon DEF HasQuorum
    <3>4. \A r \in enacted' \ enacted : HasQuorum(r.prop)'
      BY <3>1, <3>3
    <3> QED
      BY <1>1, <2>1, <2>2, <3>1, <3>4, EndQuorum, Zenon
  <2> QED
    BY <1>6, <2>3, <2>4, SMTT(30) DEF CommitApply
<1> QED
  BY <1>2, <1>3, <1>4, <1>5, <1>6, Zenon DEF Continue

(* The strengthened invariant holds in every reachable state.              *)
LEMMA QuorumInvariant == Spec => [](Typed /\ QuorumInv)
<1>1. Init => QuorumInv
  BY Zenon DEF Init, QuorumInv, ProposedAt, CopiedAt, CountedAt, CopyPhases,
     CountPhases, ApplyPhases, BumpPhases
<1>2. Typed /\ QuorumInv /\ [Next]_vars => QuorumInv'
  <2> SUFFICES ASSUME Typed, QuorumInv, [Next]_vars PROVE QuorumInv'
    OBVIOUS
  <2>1. CASE Next
    BY <2>1, StartQuorum, ContinueQuorum, SMTT(30) DEF Next
  <2>2. CASE UNCHANGED vars
    BY <2>2, ZenonT(60) DEF vars, tables, call, QuorumInv, ProposedAt,
       CopiedAt, CountedAt, HasQuorum, Consent
  <2> QED
    BY <2>1, <2>2
<1> QED
  BY <1>1, <1>2, TypedInvariant, PTL DEF Spec

(* Whatever ckp.apply has enacted is approved by as many distinct,         *)
(* accountable parties as its Proposal asks for.                           *)
THEOREM EnactedHasQuorum == Spec => []QuorumHeld
<1>1. QuorumInv => QuorumHeld
  BY Zenon DEF QuorumInv, HasQuorum, QuorumHeld, Consent
<1> QED
  BY <1>1, QuorumInvariant, PTL

-----------------------------------------------------------------------------
(* A body about to be written over a Proposal is not a pending one, and an *)
(* application that is about to commit a refusal is of a registration.     *)
SpentAt(s) ==
  /\ pc[s] \in {"retiring", "retired", "resealed"} =>
       body[s].state # "pending"
  /\ pc[s] = "refused" => body[s].op = "register"

SpentInv ==
  /\ EnactedStaysSpent /\ EpochMeansChange
  /\ \A m \in mats : prop[m.prop] # None
  /\ \A s \in Sessions : SpentAt(s)

(* Beginning a call writes no Proposal; retire prepares a rejected one.    *)
LEMMA StartSpent ==
  ASSUME Typed, SpentInv, NEW s \in Sessions,
         NEW u \in Parties, NEW p \in Projects, Start(s, u, p)
  PROVE  SpentInv'
<1> DEFINE Other(f, g) == \A t \in Sessions : t # s => g[t] = f[t]
           Kept == /\ prop' = prop /\ enacted' = enacted /\ mats' = mats
                   /\ Other(pc, pc') /\ Other(body, body')
                   /\ pc'[s] # "refused"
           Early == pc'[s] \notin {"retiring", "retired", "resealed"}
<1>1. /\ pc \in [Sessions -> Phases]
      /\ body \in [Sessions -> Proposal \cup {None}]
      /\ prop \in [Proposals -> Proposal \cup {None}]
  BY Zenon DEF Typed, TypeOK
<1>2. ASSUME NEW k \in Kinds, Germinate(s, u, p, k) \/ ReadKind(s, u, p, k)
      PROVE  Kept /\ Early
  BY <1>1, <1>2, ZenonT(30) DEF Germinate, ReadKind, Begin, tables
<1>3. ASSUME NEW x \in Proposals, NEW b \in Fresh, Propose(s, u, p, x, b)
      PROVE  Kept /\ Early
  BY <1>1, <1>3, ZenonT(30) DEF Propose, Begin, tables
<1>4. ASSUME NEW x \in Proposals, NEW v \in Ballots, CastVote(s, u, x, v)
      PROVE  Kept /\ Early
  BY <1>1, <1>4, ZenonT(30) DEF CastVote, Begin, tables
<1>5. ASSUME NEW x \in Proposals, ReadProposal(s, u, p, x)
      PROVE  Kept /\ Early
  BY <1>1, <1>5, ZenonT(30) DEF ReadProposal, Begin, tables
<1>6. ASSUME NEW x \in Proposals, ReadRetiree(s, x)
      PROVE  Kept /\ body'[s].state # "pending"
  <2>1. prop[x] \in Proposal
    BY <1>1, <1>6, Zenon DEF ReadRetiree
  <2>2. Retired(prop[x]).state = "rejected"
    BY <2>1, SMTT(30) DEF Retired, Proposal
  <2> HIDE DEF Kept
  <2>3. body'[s] = Retired(prop[x])
    BY <1>1, <1>6, ZenonT(30) DEF ReadRetiree
  <2>4. Kept
    BY <1>1, <1>6, ZenonT(30) DEF ReadRetiree, Begin, tables, Kept
  <2> QED
    BY <2>2, <2>3, <2>4, Zenon
<1>7. Kept /\ (Early \/ body'[s].state # "pending")
  <2> HIDE DEF Kept, Early
  <2> QED
    BY <1>2, <1>3, <1>4, <1>5, <1>6, ZenonT(30) DEF Start
<1> QED
  BY <1>7, ZenonT(30)
  DEF SpentInv, SpentAt, EnactedStaysSpent, EpochMeansChange

(* Continuing a call: only apply and retire write over a Proposal, and a   *)
(* Proposal sealed for the first time is not an enacted one.               *)
LEMMA ContinueSpent ==
  ASSUME Typed, QuorumInv, SpentInv, NEW s \in Sessions, Continue(s)
  PROVE  SpentInv'
<1>1. CASE Reseal(s)
  <2>1. /\ pc[s] = "bumped" /\ pc'[s] = "resealed"
        /\ prop' = prop /\ enacted' = enacted /\ mats' = mats
    BY <1>1, Zenon DEF Reseal, Goto, tables, Typed, TypeOK
  <2>2. body[s] \in Proposal
    BY <2>1, Zenon DEF Typed, Located, BodyPhases, ApplyPhases, BumpPhases
  <2>3. body'[s] = [body[s] EXCEPT !.state = "applied", !.epoch = new[s]]
    BY <1>1, SMTT(30) DEF Reseal, Typed, TypeOK
  <2>4. body'[s].state = "applied"
    BY <2>2, <2>3, SMTT(30) DEF Proposal
  <2>5. \A t \in Sessions : t # s => pc'[t] = pc[t] /\ body'[t] = body[t]
    BY <1>1, Zenon DEF Reseal, Goto, Typed, TypeOK
  <2> QED
    BY <2>1, <2>4, <2>5, Zenon
    DEF SpentInv, SpentAt, EnactedStaysSpent, EpochMeansChange
<1>2. CASE SealProject(s) \/ SealKind(s) \/ GateOwner(s) \/ GateQuorum(s)
           \/ ReadFrom(s) \/ BumpEpoch(s) \/ Refuse(s) \/ SealRetiree(s)
  <2>1. prop' = prop /\ enacted' = enacted /\ mats' = mats /\ body' = body
    BY <1>2, Zenon
    DEF SealProject, SealKind, GateOwner, GateQuorum, ReadFrom, BumpEpoch,
        Refuse, SealRetiree, tables, call
  <2>2. \A t \in Sessions : t # s => pc'[t] = pc[t]
    BY <1>2, Zenon
    DEF SealProject, SealKind, GateOwner, GateQuorum, ReadFrom, BumpEpoch,
        Refuse, SealRetiree, Goto, Typed, TypeOK
  <2>3. pc'[s] \in {"retiring", "retired", "resealed"} => pc[s] = "retiring"
    BY <1>2, Zenon
    DEF SealProject, SealKind, GateOwner, GateQuorum, ReadFrom, BumpEpoch,
        Refuse, SealRetiree, Goto, Typed, TypeOK
  <2>4. pc'[s] = "refused" => body[s].op = "register"
    BY <1>2, Zenon
    DEF SealProject, SealKind, GateOwner, GateQuorum, ReadFrom, BumpEpoch,
        Refuse, SealRetiree, Goto, Typed, TypeOK
  <2> QED
    BY <2>1, <2>2, <2>3, <2>4, Zenon
    DEF SpentInv, SpentAt, EnactedStaysSpent, EpochMeansChange
<1>3. ASSUME End(s)
      PROVE  \A t \in Sessions : SpentAt(t)'
  BY <1>3, Zenon DEF End, SpentInv, SpentAt, Typed, TypeOK
<1>3a. ASSUME pc[s] \in {"proposed"} \cup CopyPhases,
             prop' = [prop EXCEPT ![arg[s]] = body[s]]
      PROVE  \A m \in mats :
               prop'[m.prop] # None /\ prop'[m.prop].op = prop[m.prop].op
  <2>1. \A m \in mats : m.prop \in Proposals /\ prop[m.prop] # None
    BY Zenon DEF SpentInv, Typed, TypeOK, Materialization
  <2> QED
    BY <1>3a, <2>1, AsksKept, Zenon
<1>4. CASE CommitProject(s) \/ CommitVote(s) \/ Abandon(s)
  <2>1. End(s) /\ prop' = prop /\ enacted' = enacted /\ mats' = mats
    BY <1>4, Zenon DEF CommitProject, CommitVote, Abandon, tables
  <2> QED
    BY <1>3, <2>1, Zenon DEF SpentInv, EnactedStaysSpent, EpochMeansChange
<1>5. CASE CommitProposal(s) \/ CommitRetiree(s)
  <2>1. /\ End(s) /\ enacted' = enacted /\ mats' = mats
        /\ prop' = [prop EXCEPT ![arg[s]] = body[s]]
        /\ pc[s] \in {"proposed", "retired"}
    BY <1>5, Zenon DEF CommitProposal, CommitRetiree
  <2>2. ASSUME NEW r \in enacted
        PROVE  prop'[r.prop].state # "pending"
    <3>1. r.prop \in Proposals /\ prop[r.prop] # None
      BY Zenon DEF Typed, TypeOK, QuorumInv, HasQuorum
    <3>2. pc[s] = "proposed" => arg[s] # r.prop
      BY <3>1, Zenon DEF QuorumInv, ProposedAt
    <3>3. pc[s] = "retired" => body[s].state # "pending"
      BY Zenon DEF SpentInv, SpentAt
    <3>4. prop[r.prop].state # "pending"
      BY Zenon DEF SpentInv, EnactedStaysSpent
    <3>5. prop'[r.prop] = IF arg[s] = r.prop THEN body[s] ELSE prop[r.prop]
      BY <2>1, <3>1, Zenon DEF Typed, TypeOK
    <3> QED
      BY <2>1, <3>2, <3>3, <3>4, <3>5, Zenon
  <2>3. EpochMeansChange' /\ \A m \in mats' : prop'[m.prop] # None
    BY <2>1, <1>3a, ZenonT(60) DEF CopyPhases, SpentInv, EpochMeansChange
  <2> QED
    BY <1>3, <2>1, <2>2, <2>3, Zenon DEF SpentInv, EnactedStaysSpent
<1>6. CASE CommitApply(s)
  <2>1. /\ arg[s] \in Proposals /\ prop[arg[s]] # None
        /\ body[s].op = prop[arg[s]].op
    BY <1>6, Zenon
    DEF CommitApply, QuorumInv, CopiedAt, CopyPhases, Typed, Located,
        BodyPhases, ApplyPhases, BumpPhases
  <2> DEFINE m == [project |-> at[s], from |-> from[s], to |-> new[s],
                   prop |-> arg[s]]
  <2>2. End(s) /\ mats' = mats \cup {m}
    BY <1>6, ZenonT(60) DEF CommitApply
  <2>3. m.prop = arg[s] /\ m.to = new[s] /\ m.project = at[s]
    OBVIOUS
  <2> HIDE DEF m
  <2>4. CASE pc[s] = "refused"
    <3>1. prop' = prop /\ enacted' = enacted
      BY <1>6, <2>4, Zenon DEF CommitApply
    <3>2. body[s].op = "register"
      BY <2>4, Zenon DEF SpentInv, SpentAt
    <3>3. EpochMeansChange' /\ \A n \in mats' : prop'[n.prop] # None
      BY <2>1, <2>2, <2>3, <3>1, <3>2, Zenon DEF SpentInv, EpochMeansChange
    <3> QED
      BY <1>3, <2>2, <3>1, <3>3, Zenon DEF SpentInv, EnactedStaysSpent
  <2>5. CASE pc[s] = "resealed"
    <3>1. /\ End(s)
          /\ prop' = [prop EXCEPT ![arg[s]] = body[s]]
          /\ enacted' = enacted \cup {[prop |-> arg[s], project |-> at[s],
                                       epoch |-> new[s]]}
      BY <1>6, <2>5, ZenonT(30) DEF CommitApply
    <3>2. arg[s] \in Proposals /\ body[s].state # "pending"
      BY <2>5, Zenon
      DEF SpentInv, SpentAt, Typed, Located, BodyPhases, ApplyPhases,
          BumpPhases
    <3>3. \A x \in Proposals :
            prop'[x] = IF x = arg[s] THEN body[s] ELSE prop[x]
      BY <3>1, Zenon DEF Typed, TypeOK
    <3>4. \A r \in enacted : r.prop \in Proposals
      BY Zenon DEF Typed, TypeOK
    <3>5. \A r \in enacted' : r.prop = arg[s] \/ r \in enacted
      BY <3>1
    <3>6. EnactedStaysSpent'
      BY <3>2, <3>3, <3>4, <3>5, Zenon DEF SpentInv, EnactedStaysSpent
    <3>7. \A n \in mats :
            prop'[n.prop] # None /\ prop'[n.prop].op = prop[n.prop].op
      BY <1>3a, <2>5, <3>1, Zenon DEF CopyPhases, ApplyPhases, BumpPhases
    <3>8. prop'[arg[s]] # None
      BY <2>1, <2>5, <3>1, AsksKept, ZenonT(60)
      DEF CopyPhases, ApplyPhases, BumpPhases
    <3>9. EpochMeansChange' /\ \A n \in mats' : prop'[n.prop] # None
      BY <2>2, <2>3, <3>1, <3>7, <3>8, SMTT(30)
      DEF SpentInv, EpochMeansChange
    <3> QED
      BY <1>3, <3>1, <3>6, <3>9, Zenon DEF SpentInv
  <2> QED
    BY <1>6, <2>4, <2>5, SMTT(30) DEF CommitApply
<1> QED
  BY <1>1, <1>2, <1>4, <1>5, <1>6, Zenon DEF Continue

(* Spent proposals and epochs with a change behind them, in every          *)
(* reachable state.                                                        *)
LEMMA SpentInvariant == Spec => []SpentInv
<1>1. Init => SpentInv
  BY Zenon DEF Init, SpentInv, SpentAt, EnactedStaysSpent, EpochMeansChange
<1>2. Typed /\ QuorumInv /\ SpentInv /\ [Next]_vars => SpentInv'
  <2> SUFFICES ASSUME Typed, QuorumInv, SpentInv, [Next]_vars PROVE SpentInv'
    OBVIOUS
  <2>1. CASE Next
    BY <2>1, StartSpent, ContinueSpent, SMTT(30) DEF Next
  <2>2. CASE UNCHANGED vars
    BY <2>2, Zenon DEF vars, tables, call, SpentInv, SpentAt,
       EnactedStaysSpent, EpochMeansChange
  <2> QED
    BY <2>1, <2>2, Zenon
<1> QED
  BY <1>1, <1>2, QuorumInvariant, PTL DEF Spec

(* No retire or apply that writes back what it read earlier makes an       *)
(* enacted Proposal pending again.                                         *)
THEOREM SpentStaysSpent == Spec => []EnactedStaysSpent
BY SpentInvariant, PTL DEF SpentInv

(* Behind every epoch that a change of a graph bumped there is a completed *)
(* application, whichever sessions apply, vote or retire meanwhile.        *)
THEOREM GraphEpochsMeanChange == Spec => []EpochMeansChange
BY SpentInvariant, PTL DEF SpentInv

-----------------------------------------------------------------------------
(* The calls of one session at a time: what a call has read is still so    *)
(* when it writes.                                                         *)
SoleSession == \A s, t \in Sessions : s = t

SerialAt(s) ==
  /\ pc[s] \in ProjectPhases => owner[at[s]] \in {None, by[s]}
  /\ pc[s] \in ApplyPhases => prop[arg[s]].state = "pending"
  /\ pc[s] \in {"retiring", "retired"} =>
       body[s].epoch = prop[arg[s]].epoch
  /\ pc[s] = "resealed" => body[s].epoch = new[s]
  /\ pc[s] \in {"from"} \cup BumpPhases => from[s] = epoch[at[s]]

SerialInv ==
  /\ AppliedOnce /\ EnactedTraceable /\ EpochsContiguous
  /\ \A s \in Sessions : SerialAt(s)

(* Beginning a call: what it reads is so.                                  *)
LEMMA StartSerial ==
  ASSUME SoleSession, Typed, SerialInv, NEW s \in Sessions,
         NEW u \in Parties, NEW p \in Projects, Start(s, u, p)
  PROVE  SerialInv'
<1>1. /\ pc \in [Sessions -> Phases] /\ by \in [Sessions -> Parties \cup {None}]
      /\ at \in [Sessions -> Projects \cup {None}]
      /\ arg \in [Sessions -> Proposals \cup {None}]
      /\ body \in [Sessions -> Proposal \cup {None}]
      /\ prop \in [Proposals -> Proposal \cup {None}]
  BY Zenon DEF Typed, TypeOK
<1>2. UNCHANGED tables
  BY Zenon DEF Start, Germinate, ReadKind, Propose, CastVote, ReadProposal,
     ReadRetiree
<1>3. ASSUME NEW k \in Kinds, Germinate(s, u, p, k) \/ ReadKind(s, u, p, k)
      PROVE  SerialAt(s)'
  <2>1. /\ pc'[s] \in {"germinating", "rekinding"}
        /\ by'[s] = u /\ at'[s] = p /\ owner[p] \in {None, u}
    BY <1>1, <1>3, Zenon DEF Germinate, ReadKind, Begin
  <2> QED
    BY <1>2, <2>1, Zenon DEF SerialAt, tables, ApplyPhases, BumpPhases
<1>4. ASSUME NEW x \in Proposals, NEW b \in Fresh, Propose(s, u, p, x, b)
      PROVE  SerialAt(s)'
  <2>1. pc'[s] = "proposed"
    BY <1>1, <1>4, Zenon DEF Propose, Begin
  <2> QED
    BY <2>1, Zenon DEF SerialAt, ProjectPhases, ApplyPhases, BumpPhases
<1>5. ASSUME NEW x \in Proposals, NEW v \in Ballots, CastVote(s, u, x, v)
      PROVE  SerialAt(s)'
  <2>1. pc'[s] = "voted"
    BY <1>1, <1>5, Zenon DEF CastVote, Begin
  <2> QED
    BY <2>1, Zenon DEF SerialAt, ProjectPhases, ApplyPhases, BumpPhases
<1>6. ASSUME NEW x \in Proposals, ReadProposal(s, u, p, x)
      PROVE  SerialAt(s)'
  <2>1. pc'[s] = "read" /\ arg'[s] = x /\ prop[x].state = "pending"
    BY <1>1, <1>6, Zenon DEF ReadProposal, Begin
  <2> QED
    BY <1>2, <2>1, Zenon DEF SerialAt, tables, ProjectPhases, BumpPhases
<1>7. ASSUME NEW x \in Proposals, ReadRetiree(s, x)
      PROVE  SerialAt(s)'
  <2>1. pc'[s] = "retiring" /\ arg'[s] = x /\ body'[s] = Retired(prop[x])
    BY <1>1, <1>7, Zenon DEF ReadRetiree, Begin
  <2>2. prop[x] \in Proposal
    BY <1>1, <1>7, Zenon DEF ReadRetiree
  <2>3. Retired(prop[x]).epoch = prop[x].epoch
    BY <2>2, SMTT(30) DEF Retired, Proposal
  <2> QED
    BY <1>2, <2>1, <2>3, Zenon
    DEF SerialAt, tables, ProjectPhases, ApplyPhases, BumpPhases
<1>8. SerialAt(s)'
  BY <1>3, <1>4, <1>5, <1>6, <1>7, ZenonT(60) DEF Start
<1>9. \A t \in Sessions : t = s
  BY Zenon DEF SoleSession
<1> QED
  BY <1>2, <1>8, <1>9, Zenon DEF SerialInv, AppliedOnce, EnactedTraceable,
     EpochsContiguous, tables

(* Continuing a call: what it has read stays so until it writes.           *)
LEMMA ContinueSerial ==
  ASSUME SoleSession, Typed, EpochInv, QuorumInv, SpentInv, SerialInv,
         NEW s \in Sessions, Continue(s)
  PROVE  SerialInv'
<1>1. \A t \in Sessions : t = s
  BY Zenon DEF SoleSession
<1>2. SerialAt(s)
  BY Zenon DEF SerialInv
<1>3. CASE SealProject(s) \/ SealKind(s) \/ GateOwner(s) \/ GateQuorum(s)
           \/ ReadFrom(s) \/ BumpEpoch(s) \/ Refuse(s) \/ Reseal(s)
           \/ SealRetiree(s)
  <2>1. UNCHANGED tables /\ at' = at /\ arg' = arg
    BY <1>3, Zenon
    DEF SealProject, SealKind, GateOwner, GateQuorum, ReadFrom, BumpEpoch,
        Refuse, Reseal, SealRetiree, call
  <2>2. SerialAt(s)'
    <3>1. CASE SealProject(s) \/ SealKind(s)
      <4>1. /\ pc[s] \in ProjectPhases /\ pc'[s] \in {"germinated", "rekinded"}
            /\ by' = by
        BY <3>1, Zenon
        DEF SealProject, SealKind, Goto, call, ProjectPhases, Typed, TypeOK
      <4> QED
        BY <1>2, <2>1, <4>1, Zenon
        DEF SerialAt, tables, ApplyPhases, BumpPhases
    <3>2. CASE GateOwner(s) \/ GateQuorum(s)
      <4>1. pc[s] \in {"read", "gated"} /\ pc'[s] \in {"gated", "quorate"}
        BY <3>2, Zenon DEF GateOwner, GateQuorum, Goto, Typed, TypeOK
      <4> QED
        BY <1>2, <2>1, <4>1, Zenon
        DEF SerialAt, tables, ProjectPhases, ApplyPhases, BumpPhases
    <3>3. CASE ReadFrom(s)
      <4>1. pc[s] = "quorate" /\ pc'[s] = "from" /\ from'[s] = epoch[at[s]]
        BY <3>3, Zenon DEF ReadFrom, Goto, Typed, TypeOK
      <4> QED
        BY <1>2, <2>1, <4>1, Zenon
        DEF SerialAt, tables, ProjectPhases, ApplyPhases, BumpPhases
    <3>4. CASE BumpEpoch(s) \/ Refuse(s)
      <4>1. /\ pc[s] \in {"from", "bumped"} /\ pc'[s] \in {"bumped", "refused"}
            /\ from' = from
        BY <3>4, Zenon DEF BumpEpoch, Refuse, Goto, call, Typed, TypeOK
      <4> QED
        BY <1>2, <2>1, <4>1, Zenon
        DEF SerialAt, tables, ProjectPhases, ApplyPhases, BumpPhases
    <3>5. CASE Reseal(s)
      <4>1. /\ pc[s] = "bumped" /\ pc'[s] = "resealed"
            /\ from' = from /\ new' = new
        BY <3>5, Zenon DEF Reseal, Goto, Typed, TypeOK
      <4>2. body[s] \in Proposal
        BY <4>1, Zenon
        DEF Typed, Located, BodyPhases, ApplyPhases, BumpPhases
      <4>3. body'[s] = [body[s] EXCEPT !.state = "applied", !.epoch = new[s]]
        BY <3>5, SMTT(30) DEF Reseal, Typed, TypeOK
      <4>4. body'[s].epoch = new[s]
        BY <4>2, <4>3, SMTT(30) DEF Proposal
      <4> QED
        BY <1>2, <2>1, <4>1, <4>4, Zenon
        DEF SerialAt, tables, ProjectPhases, ApplyPhases, BumpPhases
    <3>6. CASE SealRetiree(s)
      <4>1. pc[s] = "retiring" /\ pc'[s] = "retired" /\ body' = body
        BY <3>6, Zenon DEF SealRetiree, Goto, call, Typed, TypeOK
      <4> QED
        BY <1>2, <2>1, <4>1, Zenon
        DEF SerialAt, tables, ProjectPhases, ApplyPhases, BumpPhases
    <3> QED
      BY <1>3, <3>1, <3>2, <3>3, <3>4, <3>5, <3>6, ZenonT(60)
  <2> QED
    BY <1>1, <2>1, <2>2, Zenon DEF SerialInv, AppliedOnce, EnactedTraceable,
       EpochsContiguous, tables
<1>4. ASSUME End(s)
      PROVE  \A t \in Sessions : SerialAt(t)'
  <2>1. pc'[s] = "idle"
    BY <1>4, Zenon DEF End, Typed, TypeOK
  <2> QED
    BY <1>1, <2>1, Zenon DEF SerialAt, ProjectPhases, ApplyPhases, BumpPhases
<1>5. CASE CommitProject(s) \/ CommitVote(s) \/ Abandon(s)
  <2>1. End(s) /\ UNCHANGED <<prop, mats, enacted>>
    BY <1>5, Zenon DEF CommitProject, CommitVote, Abandon, tables
  <2> QED
    BY <1>4, <2>1, Zenon DEF SerialInv, AppliedOnce, EnactedTraceable,
       EpochsContiguous
<1>6. \A r \in enacted : r.prop \in Proposals /\ prop[r.prop] # None
  BY Zenon DEF Typed, TypeOK, QuorumInv, HasQuorum
<1>7. CASE CommitProposal(s) \/ CommitRetiree(s)
  <2>1. /\ End(s) /\ UNCHANGED <<mats, enacted>>
        /\ prop' = [prop EXCEPT ![arg[s]] = body[s]]
        /\ pc[s] \in {"proposed", "retired"}
    BY <1>7, Zenon DEF CommitProposal, CommitRetiree
  <2>2. \A x \in Proposals :
          prop'[x] = IF x = arg[s] THEN body[s] ELSE prop[x]
    BY <2>1, Zenon DEF Typed, TypeOK
  <2>3. pc[s] = "proposed" => prop[arg[s]] = None
    BY Zenon DEF QuorumInv, ProposedAt
  <2>4. pc[s] = "retired" => body[s].epoch = prop[arg[s]].epoch
    BY <1>2, Zenon DEF SerialAt
  <2>5. EnactedTraceable'
    BY <1>6, <2>1, <2>2, <2>3, <2>4 DEF SerialInv, EnactedTraceable
  <2> QED
    BY <1>4, <2>1, <2>5, Zenon DEF SerialInv, AppliedOnce, EpochsContiguous
<1>8. CASE CommitApply(s)
  <2> DEFINE m == [project |-> at[s], from |-> from[s], to |-> new[s],
                   prop |-> arg[s]]
             r == [prop |-> arg[s], project |-> at[s], epoch |-> new[s]]
  <2>1. pc[s] \in BumpPhases /\ arg[s] \in Proposals
    BY <1>8, Zenon DEF CommitApply, Typed, Located, BumpPhases, BodyPhases,
       ApplyPhases
  <2>2. End(s) /\ mats' = mats \cup {m}
    BY <1>8, Zenon DEF CommitApply
  <2>3. /\ pc[s] = "resealed" => /\ prop' = [prop EXCEPT ![arg[s]] = body[s]]
                                 /\ enacted' = enacted \cup {r}
        /\ pc[s] # "resealed" => prop' = prop /\ enacted' = enacted
    BY <1>8, Zenon DEF CommitApply
  <2>4. m.to = new[s] /\ m.from = from[s] /\ r.prop = arg[s] /\ r.epoch = new[s]
    OBVIOUS
  <2> HIDE DEF m, r
  <2>5. from[s] = epoch[at[s]] /\ new[s] = epoch[at[s]] + 1
    BY <1>2, <2>1, Zenon DEF SerialAt, BumpPhases, BumpsEpoch, EpochInv,
       BumpsExclusive
  <2>6. EpochsContiguous'
    BY <2>2, <2>4, <2>5, Zenon DEF SerialInv, EpochsContiguous
  <2>7. prop[arg[s]].state = "pending"
    BY <1>2, <2>1, Zenon DEF SerialAt, ApplyPhases
  <2>8. \A q \in enacted : q.prop # arg[s]
    BY <2>7, Zenon DEF SpentInv, EnactedStaysSpent
  <2>9. AppliedOnce'
    BY <2>3, <2>4, <2>8, ZenonT(60) DEF SerialInv, AppliedOnce
  <2>10. EnactedTraceable'
    <3>1. CASE pc[s] = "resealed"
      <4>1. \A x \in Proposals :
              prop'[x] = IF x = arg[s] THEN body[s] ELSE prop[x]
        BY <2>3, <3>1, Zenon DEF Typed, TypeOK
      <4>2. body[s].epoch = new[s]
        BY <1>2, <3>1, Zenon DEF SerialAt
      <4> QED
        BY <1>6, <2>1, <2>3, <2>4, <2>8, <3>1, <4>1, <4>2, Zenon
        DEF SerialInv, EnactedTraceable
    <3>2. CASE pc[s] # "resealed"
      BY <2>3, <3>2, Zenon DEF SerialInv, EnactedTraceable
    <3> QED
      BY <3>1, <3>2, Zenon
  <2> QED
    BY <1>4, <2>2, <2>6, <2>9, <2>10, Zenon DEF SerialInv
<1> QED
  BY <1>3, <1>5, <1>7, <1>8, Zenon DEF Continue

(* What one session at a time keeps, in every reachable state.             *)
LEMMA SerialInvariant ==
  ASSUME SoleSession
  PROVE  Spec => []SerialInv
<1>1. Init => SerialInv
  BY ZenonT(60) DEF Init, SerialInv, SerialAt, AppliedOnce, EnactedTraceable,
     EpochsContiguous, ProjectPhases, ApplyPhases, BumpPhases
<1>2. Typed /\ EpochInv /\ QuorumInv /\ SpentInv /\ SerialInv /\ [Next]_vars
        => SerialInv'
  <2> SUFFICES ASSUME Typed, EpochInv, QuorumInv, SpentInv, SerialInv,
                      [Next]_vars
               PROVE  SerialInv'
    OBVIOUS
  <2>1. CASE Next
    BY <2>1, StartSerial, ContinueSerial, SMTT(30) DEF Next
  <2>2. CASE UNCHANGED vars
    BY <2>2, Zenon DEF vars, tables, call, SerialInv, SerialAt, AppliedOnce,
       EnactedTraceable, EpochsContiguous
  <2> QED
    BY <2>1, <2>2, Zenon
<1> QED
  BY <1>1, <1>2, QuorumInvariant, EpochInvariant, SpentInvariant, PTL
  DEF Spec

(* Re-applying an applied Proposal is rejected, for as long as the calls   *)
(* come one after the other: a Proposal is enacted at most once.           *)
THEOREM SerialAppliesOnce ==
  ASSUME SoleSession
  PROVE  Spec => []AppliedOnce
BY SerialInvariant, PTL DEF SerialInv

(* An enacted Proposal keeps the epoch it produced, retired or not.        *)
THEOREM SerialKeepsTrace ==
  ASSUME SoleSession
  PROVE  Spec => []EnactedTraceable
BY SerialInvariant, PTL DEF SerialInv

(* Every Materialization starts from the epoch just before its own: nobody *)
(* bumps between the read of v_from and the bump.                          *)
THEOREM SerialEpochsContiguous ==
  ASSUME SoleSession
  PROVE  Spec => []EpochsContiguous
BY SerialInvariant, PTL DEF SerialInv

(* No germination and no change of projectKind takes a project from the    *)
(* party that owns it.                                                     *)
THEOREM SerialKeepsOwner ==
  ASSUME SoleSession
  PROVE  Spec => OwnerKept
<1> DEFINE Kept == \A p \in Projects : owner[p] # None => owner'[p] = owner[p]
<1>1. Typed /\ SerialInv /\ [Next]_vars => [Kept]_vars
  <2> SUFFICES ASSUME Typed, SerialInv, Next PROVE Kept
    OBVIOUS
  <2>1. PICK s \in Sessions : \/ Continue(s)
                             \/ \E u \in Parties, p \in Projects : Start(s, u, p)
    BY Zenon DEF Next
  <2>2. CASE CommitProject(s)
    <3>1. /\ owner' = [owner EXCEPT ![at[s]] = by[s]]
          /\ pc[s] \in ProjectPhases
      BY <2>2, Zenon DEF CommitProject, WritesProject, ProjectPhases
    <3>2. owner[at[s]] \in {None, by[s]}
      BY <3>1, Zenon DEF SerialInv, SerialAt
    <3>3. \A p \in Projects :
            owner'[p] = IF p = at[s] THEN by[s] ELSE owner[p]
      BY <3>1, Zenon DEF Typed, TypeOK
    <3> QED
      BY <3>2, <3>3, Zenon
  <2>3. CASE Continue(s) /\ ~CommitProject(s)
    <3>1. owner' = owner
      BY <2>3, ZenonT(60)
      DEF Continue, SealProject, SealKind, CommitProposal, CommitVote,
          GateOwner, GateQuorum, ReadFrom, BumpEpoch, Refuse, Reseal,
          CommitApply, SealRetiree, CommitRetiree, Abandon, tables
    <3> QED
      BY <3>1, Zenon
  <2>4. ASSUME NEW u \in Parties, NEW p \in Projects, Start(s, u, p)
        PROVE  Kept
    <3>1. owner' = owner
      BY <2>4, Zenon DEF Start, Germinate, ReadKind, Propose, CastVote,
         ReadProposal, ReadRetiree, tables
    <3> QED
      BY <3>1, Zenon
  <2> QED
    BY <2>1, <2>2, <2>3, <2>4, ZenonT(60)
<1> QED
  BY <1>1, TypedInvariant, SerialInvariant, PTL DEF Spec, OwnerKept

-----------------------------------------------------------------------------
(* A vote is cast on a sealed Proposal, a Proposal is sealed pending, and  *)
(* no application completed in an epoch still to come.                     *)
BookAt(s) ==
  /\ pc[s] = "voted" => prop[arg[s]] # None
  /\ pc[s] = "proposed" => body[s].state = "pending"

BookInv ==
  /\ \A s \in Sessions : BookAt(s)
  /\ \A r \in enacted : r.epoch <= epoch[r.project]

(* Beginning a call: vote looks its Proposal up, and a new one is pending. *)
LEMMA StartBook ==
  ASSUME Typed, BookInv, NEW s \in Sessions, NEW u \in Parties,
         NEW p \in Projects, Start(s, u, p)
  PROVE  BookInv'
<1>1. UNCHANGED <<prop, enacted, epoch>>
  BY Zenon DEF Start, Germinate, ReadKind, Propose, CastVote, ReadProposal,
     ReadRetiree, tables
<1> DEFINE Others == \A t \in Sessions : t # s =>
             pc'[t] = pc[t] /\ arg'[t] = arg[t] /\ body'[t] = body[t]
<1>2. Others /\ BookAt(s)'
  <2>1. ASSUME NEW k \in Kinds, Germinate(s, u, p, k) \/ ReadKind(s, u, p, k)
        PROVE  Others /\ BookAt(s)'
    BY <2>1, ZenonT(60) DEF Germinate, ReadKind, Begin, Typed, TypeOK, BookAt
  <2>2. ASSUME NEW x \in Proposals, NEW b \in Fresh, Propose(s, u, p, x, b)
        PROVE  Others /\ BookAt(s)'
    <3>1. b.state = "pending"
      BY DEF Fresh
    <3>2. pc'[s] = "proposed" /\ body'[s] = b /\ Others
      BY <2>2, Zenon DEF Propose, Begin, Typed, TypeOK
    <3> QED
      BY <3>1, <3>2, Zenon DEF BookAt
  <2>3. ASSUME NEW x \in Proposals, NEW v \in Ballots, CastVote(s, u, x, v)
        PROVE  Others /\ BookAt(s)'
    BY <1>1, <2>3, Zenon DEF CastVote, Begin, Typed, TypeOK, BookAt
  <2>4. ASSUME NEW x \in Proposals,
               ReadProposal(s, u, p, x) \/ ReadRetiree(s, x)
        PROVE  Others /\ BookAt(s)'
    BY <2>4, ZenonT(60)
    DEF ReadProposal, ReadRetiree, Begin, Typed, TypeOK, BookAt
  <2> HIDE DEF Others
  <2> QED
    BY <2>1, <2>2, <2>3, <2>4, ZenonT(60) DEF Start
<1>3. ASSUME NEW t \in Sessions PROVE BookAt(t)'
  <2>1. CASE t # s
    BY <1>1, <1>2, <2>1, Zenon DEF BookInv, BookAt
  <2> QED
    BY <1>2, <2>1, Zenon
<1> QED
  BY <1>1, <1>3, Zenon DEF BookInv

(* What a Proposal asks for stays as it was sealed, whatever is written    *)
(* over it.                                                                *)
LEMMA TextKept ==
  ASSUME Typed, QuorumInv, NEW s \in Sessions, Continue(s)
  PROVE  \A x \in Proposals : prop[x] # None =>
           /\ prop'[x] # None
           /\ prop'[x].quorum = prop[x].quorum /\ prop'[x].op = prop[x].op
<1>1. \/ prop' = prop
      \/ /\ pc[s] \in {"proposed"} \cup CopyPhases
         /\ prop' = [prop EXCEPT ![arg[s]] = body[s]]
  BY Zenon DEF Continue, SealProject, SealKind, CommitProject, CommitProposal,
     CommitVote, GateOwner, GateQuorum, ReadFrom, BumpEpoch, Refuse, Reseal,
     CommitApply, SealRetiree, CommitRetiree, Abandon, tables, CopyPhases,
     ApplyPhases, BumpPhases
<1> QED
  BY <1>1, AsksKept, Zenon

(* Continuing a call: sealed Proposals stay, and epochs only grow.         *)
LEMMA ContinueBook ==
  ASSUME Typed, EpochInv, QuorumInv, BookInv, NEW s \in Sessions, Continue(s)
  PROVE  BookInv'
<1>1. pc'[s] \notin {"voted", "proposed"}
  BY ZenonT(60)
  DEF Continue, SealProject, SealKind, CommitProject, CommitProposal,
     CommitVote, GateOwner, GateQuorum, ReadFrom, BumpEpoch, Refuse, Reseal,
     CommitApply, SealRetiree, CommitRetiree, Abandon, Goto, End, Typed, TypeOK
<1>2. \A t \in Sessions : t # s =>
        pc'[t] = pc[t] /\ arg'[t] = arg[t] /\ body'[t] = body[t]
  BY Zenon DEF Continue, SealProject, SealKind, CommitProject, CommitProposal,
     CommitVote, GateOwner, GateQuorum, ReadFrom, BumpEpoch, Refuse, Reseal,
     CommitApply, SealRetiree, CommitRetiree, Abandon, Goto, End, call, Typed,
     TypeOK
<1>3. \A t \in Sessions : BookAt(t)'
  <2> SUFFICES ASSUME NEW t \in Sessions PROVE BookAt(t)'
    OBVIOUS
  <2>1. CASE t = s
    BY <1>1, <2>1, Zenon DEF BookAt
  <2>2. CASE t # s
    <3>1. pc[t] = "voted" => arg[t] \in Proposals
      BY Zenon DEF Typed, Located
    <3> QED
      BY <1>2, <2>2, <3>1, TextKept, ZenonT(60) DEF BookInv, BookAt
  <2> QED
    BY <2>1, <2>2, Zenon
<1>4. \A r \in enacted' : r.epoch <= epoch'[r.project]
  <2>1. CASE UNCHANGED <<enacted, epoch>>
    BY <2>1, Zenon DEF BookInv
  <2>2. CASE CommitApply(s)
    <3>1. BumpsEpoch(s) /\ at[s] \in Projects /\ new[s] = epoch[at[s]] + 1
      BY <2>2, Zenon
      DEF CommitApply, BumpsEpoch, EpochInv, BumpsExclusive, Typed, Located,
          ApplyPhases, BumpPhases
    <3>2. \A p \in Projects :
            epoch'[p] = IF p = at[s] THEN epoch[p] + 1 ELSE epoch[p]
      BY <2>2, <3>1, ZenonT(60) DEF CommitApply, Typed, TypeOK
    <3>3. \A r \in enacted' :
            \/ r \in enacted
            \/ r.project = at[s] /\ r.epoch = new[s]
      BY <2>2 DEF CommitApply
    <3>4. \A r \in enacted : r.project \in Projects /\ r.epoch \in Nat
      BY SMTT(30) DEF Typed, TypeOK
    <3>5. \A p \in Projects : epoch[p] \in Nat
      BY BoundsAssumption DEF Typed, TypeOK
    <3>6. \A r \in enacted : r.epoch <= epoch[r.project]
      BY Zenon DEF BookInv
    <3> QED
      BY <3>1, <3>2, <3>3, <3>4, <3>5, <3>6, SMTT(60)
  <2>3. Continue(s) /\ ~CommitApply(s) => UNCHANGED <<enacted, epoch>>
    BY Zenon DEF Continue, SealProject, SealKind, CommitProject,
       CommitProposal, CommitVote, GateOwner, GateQuorum, ReadFrom, BumpEpoch,
       Refuse, Reseal, SealRetiree, CommitRetiree, Abandon, tables
  <2> QED
    BY <2>1, <2>2, <2>3, Zenon
<1> QED
  BY <1>3, <1>4, Zenon DEF BookInv

(* All that the book rests on, in every reachable state.                   *)
LEMMA BookInvariant ==
  Spec => [](Typed /\ EpochInv /\ QuorumInv /\ SpentInv /\ BookInv)
<1>1. Init => BookInv
  BY Zenon DEF Init, BookInv, BookAt
<1>2. Typed /\ EpochInv /\ QuorumInv /\ BookInv /\ [Next]_vars => BookInv'
  <2> SUFFICES ASSUME Typed, EpochInv, QuorumInv, BookInv, [Next]_vars
               PROVE  BookInv'
    OBVIOUS
  <2>1. CASE Next
    BY <2>1, StartBook, ContinueBook, Zenon DEF Next
  <2>2. CASE UNCHANGED vars
    BY <2>2, Zenon DEF vars, tables, call, BookInv, BookAt
  <2> QED
    BY <2>1, <2>2, Zenon
<1> QED
  BY <1>1, <1>2, EpochInvariant, QuorumInvariant, SpentInvariant, PTL
  DEF Spec

Agree(f, g, n) == \A e \in 1..n : g[e] = f[e]

(* A sequence that is one longer and otherwise the same.                   *)
LEMMA AppendIs ==
  ASSUME NEW n \in Nat, NEW S, NEW f \in [1..n -> S],
         NEW g \in [1..(n + 1) -> S], Agree(f, g, n)
  PROVE  g = Append(f, g[n + 1])
<1>1. f \in Seq(S) /\ Len(f) = n
  OBVIOUS
<1>2. g \in Seq(S) /\ Len(g) = n + 1 /\ n + 1 \in 1..(n + 1)
  OBVIOUS
<1>3. g[n + 1] \in S
  BY <1>2
<1>4. /\ Append(f, g[n + 1]) \in Seq(S) /\ Len(Append(f, g[n + 1])) = n + 1
      /\ \A e \in 1..n : Append(f, g[n + 1])[e] = f[e]
      /\ Append(f, g[n + 1])[n + 1] = g[n + 1]
  BY <1>1, <1>3
<1>5. \A e \in 1..(n + 1) : e \in 1..n \/ e = n + 1
  OBVIOUS
<1>6. \A e \in 1..(n + 1) : g[e] = Append(f, g[n + 1])[e]
  BY <1>4, <1>5, Zenon DEF Agree
<1> QED
  BY <1>2, <1>4, <1>6

(* The one Materialization of an epoch names its entry.                    *)
LEMMA EntryIs ==
  ASSUME EpochsSealed, NEW m \in mats
  PROVE  Entry(m.project, m.to) =
           [prop |-> m.prop,
            done |-> [prop |-> m.prop, project |-> m.project, epoch |-> m.to]
                       \in enacted]
<1> DEFINE Is(n) == n.project = m.project /\ n.to = m.to
<1>1. \A n \in mats : Is(n) <=> n = m
  BY Zenon DEF EpochsSealed
<1>2. (CHOOSE n \in mats : Is(n)) = m
  BY <1>1, Zenon
<1> QED
  BY <1>2, Zenon DEF Entry

(* The same after a step.                                                  *)
LEMMA EntryWillBe ==
  ASSUME EpochsSealed', NEW m \in mats'
  PROVE  Entry(m.project, m.to)' =
           [prop |-> m.prop,
            done |-> [prop |-> m.prop, project |-> m.project, epoch |-> m.to]
                       \in enacted']
<1> DEFINE Is(n) == n.project = m.project /\ n.to = m.to
<1>1. \A n \in mats' : Is(n) <=> n = m
  BY Zenon DEF EpochsSealed
<1>2. (CHOOSE n \in mats' : Is(n)) = m
  BY <1>1, Zenon
<1> QED
  BY <1>2, Zenon DEF Entry

(* Entries stay while neither epochs nor Materializations change.          *)
LEMMA BookKept ==
  ASSUME UNCHANGED <<epoch, mats, enacted>>
  PROVE  Book' = Book
<1>1. \A p, e : Entry(p, e)' = Entry(p, e)
  BY Zenon DEF Entry
<1> QED
  BY <1>1, Zenon DEF Book

(* The parties that consent do not change while no vote is added.          *)
LEMMA ConsentKept ==
  ASSUME votes' = votes
  PROVE  [x \in Proposals |-> Consent(x)]' = [x \in Proposals |-> Consent(x)]
<1>1. \A x : Consent(x)' = Consent(x)
  BY Zenon DEF Consent
<1> QED
  BY <1>1, Zenon

(* Steps that commit nothing, or a project, leave the book alone.          *)
LEMMA BookRests ==
  ASSUME UNCHANGED <<epoch, prop, votes, mats, enacted>>
  PROVE  UNCHANGED Laws!vars
<1>1. Text' = Text /\ Pending' = Pending
  BY Zenon DEF Text, Pending
<1> QED
  BY <1>1, BookKept, ConsentKept, Zenon DEF Laws!vars

(* A sealed Proposal is tabled.                                            *)
LEMMA TabledIs ==
  ASSUME Typed, NEW x \in Proposals, prop[x] # None
  PROVE  Laws!Tabled(x) /\ Text[x].quorum = prop[x].quorum
                        /\ Text[x].op = prop[x].op
<1>1. Text[x] = [op |-> prop[x].op, quorum |-> prop[x].quorum]
  BY Zenon DEF Text
<1>2. prop[x] \in Proposal
  BY Zenon DEF Typed, TypeOK
<1>3. Text[x] \in [op : Ops, quorum : 1..MaxQuorum]
  BY <1>1, <1>2 DEF Proposal
<1>4. Text[x].quorum = prop[x].quorum /\ Text[x].op = prop[x].op
  BY <1>1
<1>5. Laws!Tabled(x)
  BY <1>3, TextAssumption, Zenon DEF Laws!Tabled
<1> QED
  BY <1>4, <1>5, Zenon

(* A body written over a Proposal closes it and asks for the same.         *)
LEMMA Rewritten ==
  ASSUME Typed, NEW x \in Proposals, NEW b \in Proposal, prop[x] # None,
         b.quorum = prop[x].quorum, b.op = prop[x].op, b.state # "pending",
         prop' = [prop EXCEPT ![x] = b]
  PROVE  Text' = Text /\ Pending' = Pending \ {x}
<1>1. b # None
  BY NoneAssumption, Zenon
<1>2. \A y \in Proposals : prop'[y] = IF y = x THEN b ELSE prop[y]
  BY Zenon DEF Typed, TypeOK
<1>3. \A y \in Proposals :
        (IF prop'[y] = None THEN None
         ELSE [op |-> prop'[y].op, quorum |-> prop'[y].quorum])
        = (IF prop[y] = None THEN None
           ELSE [op |-> prop[y].op, quorum |-> prop[y].quorum])
  BY <1>1, <1>2, Zenon
<1>4. Text' = Text
  BY <1>3, Zenon DEF Text
<1>5. Pending' = Pending \ {x}
  BY <1>1, <1>2, ZenonT(60) DEF Pending
<1> QED
  BY <1>4, <1>5, Zenon

(* A Proposal that is sealed for the first time is tabled.                 *)
LEMMA BookTable ==
  ASSUME Typed, QuorumInv, BookInv, NEW s \in Sessions, CommitProposal(s)
  PROVE  \E x \in Proposals : Laws!Table(x)
<1>1. /\ pc[s] = "proposed" /\ prop' = [prop EXCEPT ![arg[s]] = body[s]]
      /\ UNCHANGED <<epoch, votes, mats, enacted>>
  BY Zenon DEF CommitProposal
<1>2. /\ arg[s] \in Proposals /\ body[s] \in Proposal
      /\ prop[arg[s]] = None /\ body[s].state = "pending"
  BY <1>1, Zenon DEF Typed, Located, BodyPhases, QuorumInv, ProposedAt,
     BookInv, BookAt
<1>3. body[s] # None
  BY <1>2, NoneAssumption, Zenon
<1>4. \A y \in Proposals : prop'[y] = IF y = arg[s] THEN body[s] ELSE prop[y]
  BY <1>1, Zenon DEF Typed, TypeOK
<1> DEFINE T == [op |-> body[s].op, quorum |-> body[s].quorum]
<1>5. Text[arg[s]] = None /\ Text'[arg[s]] = T
  BY <1>2, <1>3, <1>4, Zenon DEF Text
<1>6. T # None
  <2>1. T \in [op : Ops, quorum : 1..MaxQuorum]
    BY <1>2 DEF Proposal
  <2> QED
    BY <2>1, TextAssumption, ZenonT(60)
<1> HIDE DEF T
<1>7. \A y \in Proposals : y # arg[s] => Text'[y] = Text[y]
  BY <1>4, Zenon DEF Text
<1>8. DOMAIN Text = Proposals /\ Text' = [y \in Proposals |-> Text'[y]]
  BY Zenon DEF Text
<1>9. Text' = [Text EXCEPT ![arg[s]] = Text'[arg[s]]]
  BY <1>7, <1>8, Zenon
<1>10. Pending' = Pending \cup {arg[s]}
  BY <1>2, <1>3, <1>4, Zenon DEF Pending
<1>11. ~Laws!Tabled(arg[s]) /\ Text'[arg[s]] # None
  BY <1>5, <1>6, Zenon DEF Laws!Tabled
<1>12. Book' = Book
  BY <1>1, BookKept, Zenon
<1>13. [x \in Proposals |-> Consent(x)]' = [x \in Proposals |-> Consent(x)]
  BY <1>1, ConsentKept, Zenon
<1>14. PICK x \in Proposals : x = arg[s]
  BY <1>2, Zenon
<1>15. Laws!Table(x)
  BY <1>9, <1>10, <1>11, <1>12, <1>13, <1>14, ZenonT(60)
  DEF Laws!Table, Laws!Tabled
<1> QED
  BY <1>15, Zenon

(* Retiring a Proposal closes it.                                          *)
LEMMA BookClose ==
  ASSUME Typed, QuorumInv, SpentInv, NEW s \in Sessions, CommitRetiree(s)
  PROVE  arg[s] \in Proposals /\ Laws!Close(arg[s])
<1>1. /\ pc[s] = "retired" /\ prop' = [prop EXCEPT ![arg[s]] = body[s]]
      /\ UNCHANGED <<epoch, votes, mats, enacted>>
  BY Zenon DEF CommitRetiree
<1>2. /\ arg[s] \in Proposals /\ body[s] \in Proposal
      /\ body[s].state # "pending" /\ prop[arg[s]] # None
      /\ body[s].quorum = prop[arg[s]].quorum
      /\ body[s].op = prop[arg[s]].op
  BY <1>1, Zenon DEF Typed, Located, BodyPhases, QuorumInv, CopiedAt,
     CopyPhases, SpentInv, SpentAt
<1>3. Text' = Text /\ Pending' = Pending \ {arg[s]}
  BY <1>1, <1>2, Rewritten, Zenon
<1> QED
  BY <1>1, <1>2, <1>3, TabledIs, BookKept, ConsentKept, Zenon DEF Laws!Close

(* A vote adds its party to those that consent, if it approves.            *)
LEMMA VoteConsents ==
  ASSUME Typed, NEW s \in Sessions, CommitVote(s), NEW x
  PROVE  Consent(x)' =
           IF x = arg[s] /\ val[s] = "approve" /\ by[s] \in Parties
           THEN Consent(x) \cup {by[s]} ELSE Consent(x)
<1> DEFINE v == [prop |-> arg[s], by |-> by[s], value |-> val[s]]
<1>1. votes \in Seq(Vote) /\ v \in Vote /\ votes' = Append(votes, v)
  BY Zenon DEF CommitVote, Vote, Typed, TypeOK, Located
<1>2. v.prop = arg[s] /\ v.by = by[s] /\ v.value = val[s]
  OBVIOUS
<1> HIDE DEF v
<1>3. /\ DOMAIN votes' = DOMAIN votes \cup {Len(votes) + 1}
      /\ votes'[Len(votes) + 1] = v
      /\ \A i \in DOMAIN votes : votes'[i] = votes[i]
  BY <1>1
<1>4. \A u : u \in Consent(x)' <=>
        \/ u \in Consent(x)
        \/ u \in Parties /\ u = by[s] /\ x = arg[s] /\ val[s] = "approve"
  BY <1>2, <1>3, Zenon DEF Consent, Approves
<1> QED
  BY <1>4, Zenon

(* A vote backs its proposal, or changes nothing in the book.              *)
LEMMA BookBack ==
  ASSUME Typed, BookInv, NEW s \in Sessions, CommitVote(s)
  PROVE  \/ \E x \in Proposals, u \in Parties : Laws!Back(x, u)
         \/ UNCHANGED Laws!vars
<1> DEFINE B == [x \in Proposals |-> Consent(x)]
<1>1. /\ pc[s] = "voted" /\ UNCHANGED <<epoch, prop, mats, enacted>>
      /\ arg[s] \in Proposals /\ prop[arg[s]] # None
  BY Zenon DEF CommitVote, Typed, Located, BookInv, BookAt
<1>2. Text' = Text /\ Pending' = Pending /\ Book' = Book
  BY <1>1, BookKept, Zenon DEF Text, Pending
<1>3. CASE val[s] = "approve" /\ by[s] \in Parties
  <2>1. \A x \in Proposals :
          Consent(x)' = IF x = arg[s] THEN Consent(x) \cup {by[s]}
                        ELSE Consent(x)
    BY <1>3, VoteConsents, Zenon
  <2>2. B' = [B EXCEPT ![arg[s]] = @ \cup {by[s]}]
    BY <1>1, <2>1, Zenon
  <2>3. Laws!Back(arg[s], by[s])
    BY <1>1, <1>2, <2>2, TabledIs, Zenon DEF Laws!Back
  <2> QED
    BY <1>1, <1>3, <2>3, Zenon
<1>4. CASE ~(val[s] = "approve" /\ by[s] \in Parties)
  <2>1. \A x \in Proposals : Consent(x)' = Consent(x)
    BY <1>4, VoteConsents, Zenon
  <2>2. B' = B
    BY <2>1, Zenon
  <2> QED
    BY <1>2, <2>2, Zenon DEF Laws!vars
<1> QED
  BY <1>3, <1>4, Zenon

(* An application writes one entry at the end of its project's book.       *)
LEMMA BookWritten ==
  ASSUME Typed, EpochInv, EpochInv', BookInv, NEW s \in Sessions,
         CommitApply(s)
  PROVE  /\ at[s] \in Projects
         /\ Book' = [Book EXCEPT ![at[s]] =
                       Append(@, [prop |-> arg[s],
                                  done |-> pc[s] = "resealed"])]
<1> DEFINE n == epoch[at[s]]
           k == [project |-> at[s], from |-> from[s], to |-> new[s],
                 prop |-> arg[s]]
           done == pc[s] = "resealed"
           r == [prop |-> arg[s], project |-> at[s], epoch |-> new[s]]
<1>1. BumpsEpoch(s) /\ at[s] \in Projects /\ new[s] = n + 1
  BY Zenon
  DEF CommitApply, BumpsEpoch, EpochInv, BumpsExclusive, Typed, Located,
      ApplyPhases, BumpPhases
<1>2. /\ mats' = mats \cup {k} /\ enacted \subseteq enacted'
      /\ enacted' = IF done THEN enacted \cup {r} ELSE enacted
      /\ epoch' = [epoch EXCEPT ![at[s]] = new[s]]
  BY Zenon DEF CommitApply
<1>3. \A p \in Projects : epoch'[p] = IF p = at[s] THEN n + 1 ELSE epoch[p]
  BY <1>1, <1>2, ZenonT(60) DEF Typed, TypeOK
<1>4. \A p \in Projects : epoch[p] \in Nat
  BY BoundsAssumption, SMTT(60) DEF Typed, TypeOK
<1>5. k.project = at[s] /\ k.to = n + 1 /\ k.prop = arg[s]
  BY <1>1
<1>6. r.prop = arg[s] /\ r.project = at[s] /\ r.epoch = n + 1
  BY <1>1
<1>7. r \notin enacted
  <2>1. ~(n + 1 <= n)
    BY <1>1, <1>4
  <2> QED
    BY <1>6, <2>1, Zenon DEF BookInv
<1> HIDE DEF k, r
<1>8. ASSUME NEW p \in Projects, NEW e \in 1..epoch[p]
      PROVE  Entry(p, e)' = Entry(p, e)
  <2>1. PICK m \in mats : m.project = p /\ m.to = e
    BY <1>8, ZenonT(60) DEF EpochInv, EpochsSealed
  <2> DEFINE q == [prop |-> m.prop, project |-> m.project, epoch |-> m.to]
  <2>2. q # r
    <3>1. ~(p = at[s] /\ e = n + 1)
      BY <1>4, <1>8
    <3>2. q.project = p /\ q.epoch = e
      BY <2>1
    <3> HIDE DEF q
    <3> QED
      BY <1>6, <3>1, <3>2, Zenon
  <2>3. q \in enacted' <=> q \in enacted
    BY <1>2, <2>2, Zenon
  <2>4. Entry(m.project, m.to) = [prop |-> m.prop, done |-> q \in enacted]
    BY EntryIs, Zenon DEF EpochInv
  <2>5. Entry(m.project, m.to)' = [prop |-> m.prop, done |-> q \in enacted']
    BY <1>2, EntryWillBe, ZenonT(60) DEF EpochInv
  <2>6. (q \in enacted) = (q \in enacted')
    BY <2>3
  <2> QED
    BY <2>1, <2>4, <2>5, <2>6, ZenonT(60)
<1>9. PICK p, N, x, d :
        p \in Projects /\ p = at[s] /\ N = n /\ x = arg[s] /\ d = done
  BY <1>1, Zenon
<1>10. Entry(p, N + 1)' = [prop |-> x, done |-> d]
  <2> DEFINE q == [prop |-> k.prop, project |-> k.project, epoch |-> k.to]
  <2>1. q = r
    BY <1>1, <1>5, Zenon DEF r
  <2>2. (q \in enacted') = d
    BY <1>2, <1>7, <1>9, <2>1, SMTT(60)
  <2>3. PICK m \in mats' : m = k
    BY <1>2, Zenon
  <2>4. Entry(m.project, m.to)' =
          [prop |-> m.prop,
           done |-> [prop |-> m.prop, project |-> m.project, epoch |-> m.to]
                      \in enacted']
    BY EntryWillBe, Zenon DEF EpochInv
  <2>5. m.project = p /\ m.to = N + 1 /\ m.prop = x
    BY <1>5, <1>9, <2>3, ZenonT(60)
  <2>6. Entry(p, N + 1)' = [prop |-> x, done |-> q \in enacted']
    BY <2>3, <2>4, <2>5, ZenonT(60)
  <2> QED
    BY <2>2, <2>6, ZenonT(60)
<1>11. \A y \in Projects : y # p => Book'[y] = Book[y]
  <2> SUFFICES ASSUME NEW y \in Projects, y # p PROVE Book'[y] = Book[y]
    OBVIOUS
  <2>1. epoch'[y] = epoch[y]
    BY <1>3, <1>9, Zenon
  <2>2. \A e \in 1..epoch[y] : Entry(y, e)' = Entry(y, e)
    BY <1>8, Zenon
  <2> QED
    BY <2>1, <2>2, ZenonT(60) DEF Book
<1>12. Book'[p] = Append(Book[p], [prop |-> x, done |-> d])
  <2> DEFINE f == Book[p]
             g == Book'[p]
             S == {f[e] : e \in 1..N} \cup {g[e] : e \in 1..(N + 1)}
  <2>1. epoch[p] = N /\ epoch'[p] = N + 1 /\ N \in Nat
    BY <1>3, <1>4, <1>9, ZenonT(60)
  <2>2. f = [e \in 1..N |-> Entry(p, e)]
    BY <1>9, <2>1, Zenon DEF Book
  <2>3. g = [e \in 1..(N + 1) |-> Entry(p, e)']
    BY <1>9, <2>1, ZenonT(60) DEF Book
  <2>4. N + 1 \in 1..(N + 1) /\ 1..N \subseteq 1..(N + 1)
    BY <2>1
  <2>5. \A e \in 1..N : Entry(p, e)' = Entry(p, e)
    BY <1>9, <1>8, <2>1, ZenonT(60)
  <2>6. Agree(f, g, N)
    BY <2>2, <2>3, <2>4, <2>5, ZenonT(60) DEF Agree
  <2>7. g[N + 1] = [prop |-> x, done |-> d]
    BY <1>10, <2>3, <2>4, Zenon
  <2>8. f = [e \in 1..N |-> f[e]] /\ g = [e \in 1..(N + 1) |-> g[e]]
    BY <2>2, <2>3, Zenon
  <2> HIDE DEF f, g
  <2>9. f \in [1..N -> S] /\ g \in [1..(N + 1) -> S]
    BY <2>8, Zenon
  <2> HIDE DEF S
  <2>10. g = Append(f, g[N + 1])
    BY <2>1, <2>6, <2>9, AppendIs, ZenonT(60)
  <2> QED
    BY <2>7, <2>10, Zenon DEF f, g
<1>13. /\ Book = [y \in Projects |-> Book[y]]
       /\ Book' = [y \in Projects |-> Book'[y]]
  BY Zenon DEF Book
<1>14. Book' = [Book EXCEPT ![p] = Append(@, [prop |-> x, done |-> d])]
  BY <1>11, <1>12, <1>13, Zenon
<1> QED
  BY <1>1, <1>9, <1>14, Zenon

(* An application that commits writes with the quorum its proposal asked   *)
(* for; only a refused registration leaves the proposal as it was.         *)
LEMMA BookEnact ==
  ASSUME Typed, EpochInv, EpochInv', QuorumInv, SpentInv, BookInv,
         NEW s \in Sessions, CommitApply(s)
  PROVE  \E x \in Proposals, p \in Projects, done \in BOOLEAN :
           Laws!Enact(p, x, done)
<1>1. /\ pc[s] \in {"resealed", "refused"} /\ votes' = votes
      /\ arg[s] \in Proposals /\ body[s] \in Proposal
  BY Zenon DEF CommitApply, Typed, Located, BodyPhases, ApplyPhases,
     BumpPhases
<1>2. /\ prop[arg[s]] # None /\ body[s].quorum = prop[arg[s]].quorum
      /\ body[s].op = prop[arg[s]].op
      /\ body[s].quorum <= Cardinality(Consent(arg[s]))
  BY <1>1, Zenon DEF QuorumInv, CopiedAt, CountedAt, CopyPhases, CountPhases,
     ApplyPhases, BumpPhases
<1>3. /\ Laws!Tabled(arg[s]) /\ Text[arg[s]].quorum = prop[arg[s]].quorum
      /\ Text[arg[s]].op = prop[arg[s]].op
  BY <1>1, <1>2, TabledIs, Zenon
<1> DEFINE B == [x \in Proposals |-> Consent(x)]
           Written(done) == Book' = [Book EXCEPT ![at[s]] =
             Append(@, [prop |-> arg[s], done |-> done])]
<1>4. Laws!Cardinality(B[arg[s]]) >= Text[arg[s]].quorum /\ B' = B
  <2>1. body[s].quorum \in Nat
    BY <1>1, SMTT(60) DEF Proposal
  <2>2. Cardinality(Consent(arg[s])) >= Text[arg[s]].quorum
    BY <1>2, <1>3, <2>1, ConsentFinite, SMTT(60)
  <2>3. \A S : Laws!Cardinality(S) = Cardinality(S)
    BY DEF Laws!Cardinality, Cardinality
  <2> QED
    BY <1>1, <2>2, <2>3, ConsentKept, ZenonT(60)
<1>5. CASE pc[s] = "resealed"
  <2>1. body[s].state # "pending" /\ prop' = [prop EXCEPT ![arg[s]] = body[s]]
    BY <1>5, Zenon DEF CommitApply, SpentInv, SpentAt
  <2>2. Text' = Text /\ Pending' = Pending \ {arg[s]}
    BY <1>1, <1>2, <2>1, Rewritten, ZenonT(60)
  <2>3. (pc[s] = "resealed") = TRUE
    BY <1>5
  <2>4. Written(TRUE)
    BY <2>3, BookWritten, Zenon
  <2>5. Laws!Enact(at[s], arg[s], TRUE)
    BY <1>3, <1>4, <2>2, <2>4, ZenonT(60) DEF Laws!Enact
  <2> QED
    BY <1>1, <2>5, BookWritten, Zenon
<1>6. CASE pc[s] = "refused"
  <2>1. body[s].op = "register" /\ prop' = prop
    BY <1>6, Zenon DEF CommitApply, SpentInv, SpentAt
  <2>2. Text' = Text /\ Pending' = Pending
    BY <2>1, Zenon DEF Text, Pending
  <2>3. (pc[s] = "resealed") = FALSE
    BY <1>6
  <2>4. Text[arg[s]].op = "register"
    BY <1>2, <1>3, <2>1, ZenonT(60)
  <2>5. Written(FALSE)
    BY <2>3, BookWritten, Zenon
  <2>6. Laws!Enact(at[s], arg[s], FALSE)
    BY <1>3, <1>4, <2>2, <2>4, <2>5, ZenonT(60) DEF Laws!Enact
  <2> QED
    BY <1>1, <2>6, BookWritten, Zenon
<1> QED
  BY <1>1, <1>5, <1>6, ZenonT(60)

(* Every step is one of the book, or none.                                 *)
LEMMA BookStep ==
  ASSUME Typed, EpochInv, EpochInv', QuorumInv, SpentInv, BookInv,
         [Next]_vars
  PROVE  Laws!Next \/ UNCHANGED Laws!vars
<1>1. ASSUME NEW s \in Sessions, NEW u \in Parties, NEW p \in Projects,
             Start(s, u, p)
      PROVE  UNCHANGED Laws!vars
  BY <1>1, BookRests, ZenonT(60)
  DEF Start, Germinate, ReadKind, Propose, CastVote,
     ReadProposal, ReadRetiree, tables
<1>2. ASSUME NEW s \in Sessions, Continue(s)
      PROVE  Laws!Next \/ UNCHANGED Laws!vars
  <2>1. CASE CommitProposal(s)
    BY <2>1, BookTable, Zenon DEF Laws!Next
  <2>2. CASE CommitVote(s)
    BY <2>2, BookBack, Zenon DEF Laws!Next
  <2>3. CASE CommitApply(s)
    BY <2>3, BookEnact, Zenon DEF Laws!Next
  <2>4. CASE CommitRetiree(s)
    BY <2>4, BookClose, Zenon DEF Laws!Next
  <2>5. CASE \/ SealProject(s) \/ SealKind(s) \/ CommitProject(s)
             \/ GateOwner(s) \/ GateQuorum(s) \/ ReadFrom(s) \/ BumpEpoch(s)
             \/ Refuse(s) \/ Reseal(s) \/ SealRetiree(s) \/ Abandon(s)
    BY <2>5, BookRests, Zenon DEF SealProject, SealKind, CommitProject,
       GateOwner, GateQuorum, ReadFrom, BumpEpoch, Refuse, Reseal,
       SealRetiree, Abandon, tables
  <2> QED
    BY <1>2, <2>1, <2>2, <2>3, <2>4, <2>5, ZenonT(60) DEF Continue
<1>3. CASE UNCHANGED vars
  BY <1>3, BookRests, Zenon DEF vars, tables
<1> QED
  BY <1>1, <1>2, <1>3, Zenon DEF Next

(* The type plane keeps a book of laws: every epoch of a project is one    *)
(* entry at the end of its book, written by a proposal that had its quorum *)
(* when apply committed, and what a proposal asks for, who backs it and    *)
(* that it is closed are never taken back.                                 *)
THEOREM GovernanceKeepsBook == Spec => ImplementsLawBook
<1>1. Init => Laws!Init
  <2> SUFFICES ASSUME Init PROVE Laws!Init
    OBVIOUS
  <2>1. Text = [x \in Proposals |-> None] /\ Pending = {}
    BY Zenon DEF Init, Text, Pending
  <2>2. \A x \in Proposals : Consent(x) = {}
    BY DEF Init, Consent
  <2>3. \A p \in Projects : [e \in 1..epoch[p] |-> Entry(p, e)] = <<>>
    <3>1. \A p \in Projects : 1..epoch[p] = {}
      BY DEF Init
    <3> QED
      BY <3>1
  <2>4. Book = [p \in Projects |-> <<>>]
    BY <2>3, Zenon DEF Book
  <2> QED
    BY <2>1, <2>2, <2>4, Zenon DEF Laws!Init
<1>2. /\ Typed /\ EpochInv /\ QuorumInv /\ SpentInv /\ BookInv
      /\ EpochInv' /\ [Next]_vars
      => [Laws!Next]_(Laws!vars)
  BY BookStep, Zenon
<1> QED
  BY <1>1, <1>2, BookInvariant, PTL DEF Spec, ImplementsLawBook, Laws!Spec
=============================================================================
