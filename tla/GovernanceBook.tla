--------------------------- MODULE GovernanceBook ---------------------------
(* The tables of the type plane as a book of laws.                         *)
EXTENDS Governance

(* None is not what a proposal asks for.                                   *)
ASSUME TextAssumption == None \notin [op : Ops, quorum : 1..MaxQuorum]

Text ==
  [x \in Proposals |-> IF prop[x] = None THEN None
                       ELSE [op |-> prop[x].op, quorum |-> prop[x].quorum]]

Pending == {x \in Proposals : prop[x] # None /\ prop[x].state = "pending"}

(* The parties with an approving vote on proposal x.                       *)
Consent(x) ==
  {u \in Parties : \E i \in DOMAIN votes :
     Approves(votes[i], x) /\ votes[i].by = u}

(* The proposal behind epoch e of project p, by its Materialization.       *)
Entry(p, e) ==
  LET x == (CHOOSE m \in mats : m.project = p /\ m.to = e).prop
  IN [prop |-> x,
      done |-> [prop |-> x, project |-> p, epoch |-> e] \in enacted]

Book == [p \in Projects |-> [e \in 1..epoch[p] |-> Entry(p, e)]]

Laws ==
  INSTANCE LawBook
  WITH text <- Text, open <- Pending, book <- Book,
       backing <- [x \in Proposals |-> Consent(x)]

(* However the statements of propose_change, vote, apply and retire        *)
(* interleave, each commit is one step of the book: apply adds one entry   *)
(* at the end of one project's book, with the quorum its proposal asked    *)
(* for at that moment, votes only add consent, and no pending state comes  *)
(* back.                                                                   *)
ImplementsLawBook == Laws!Spec
=============================================================================
