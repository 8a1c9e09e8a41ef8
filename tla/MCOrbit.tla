------------------------------- MODULE MCOrbit ------------------------------
(* Small instances of the orbit queue for TLC.                             *)
EXTENDS Orbit

Periods == [k \in Kernels |-> k]
AllPromoted == [k \in Kernels |-> Concepts]
=============================================================================
