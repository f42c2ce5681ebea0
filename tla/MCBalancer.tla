----------------------------- MODULE MCBalancer -----------------------------
(* Instances of Balancer for TLC.                                           *)
EXTENDS Balancer, TLC

\* Quotas of the upstreams, in configuration order.
LimitsEqual == [c \in Clients |-> 2]
LimitsOne   == [c \in Clients |-> 1]

Symmetry == Permutations(Callers) \cup Permutations(Handles)
=============================================================================
