--------------------------- MODULE UpstreamQuota ---------------------------
(***************************************************************************)
(* What the load balancer of commons/balancer promises about quotas: an    *)
(* operation goes to one upstream that is in the rotation and still has    *)
(* quota in the present second, and nothing but a new second gives quota   *)
(* back: no reconnection, no change of the rotation.                       *)
(***************************************************************************)
EXTENDS Naturals

CONSTANTS Upstreams, Limit   \* Limit[u] = 0: no limit

VARIABLES members,  \* the upstreams in the rotation
          used      \* operations each upstream got in this second

Init == members = {} /\ used = [u \in Upstreams |-> 0]

Serve(u) ==
    /\ u \in members
    /\ Limit[u] > 0 => used[u] < Limit[u]
    /\ used' = [used EXCEPT ![u] = @ + 1]
    /\ UNCHANGED members

Regroup == members' \in SUBSET Upstreams /\ UNCHANGED used

NewSecond == used' = [u \in Upstreams |-> 0] /\ UNCHANGED members

Next == Regroup \/ NewSecond \/ \E u \in Upstreams : Serve(u)

Spec == Init /\ [][Next]_<<members, used>>
=============================================================================
