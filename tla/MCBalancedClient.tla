-------------------------- MODULE MCBalancedClient --------------------------
(* Instances of BalancedClient for TLC.                                     *)
EXTENDS BalancedClient, TLC

LimitsOne == [c \in Clients |-> 1]
Labels    == <<"upstream1", "upstream2">>
=============================================================================
