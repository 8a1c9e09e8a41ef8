---------------------------- MODULE MCGovernance ----------------------------
(* Instances of Governance for TLC.                                        *)
EXTENDS GovernanceBook, TLC

Symmetry == Permutations(Sessions) \cup Permutations(Parties)

NoGrants == {}

(* Memberships narrow every project: every party may vote, and nobody but  *)
(* the owner may propose or apply.                                         *)
VotersOnly == Projects \X Parties \X {"vote"}
=============================================================================
