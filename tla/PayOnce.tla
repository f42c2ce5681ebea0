------------------------------ MODULE PayOnce ------------------------------
(***************************************************************************)
(* What a prepared transfer promises to the one who approves it: it is     *)
(* paid at most once, on the network it was prepared for, and costs no     *)
(* more than was told.                                                     *)
(***************************************************************************)
EXTENDS Integers

CONSTANTS Transfers, Networks,
          NoOffer        \* for a transfer that is not prepared

VARIABLES told,      \* network and fee that were told
          approved,  \* transfers that their owner has signed
          paid       \* what was executed

vars == <<told, approved, paid>>

Offers == [on : Networks, fee : Nat]

Init == told = [t \in Transfers |-> NoOffer] /\ approved = {} /\ paid = {}

Tell(t) ==
    /\ told[t] = NoOffer /\ told'[t] \in Offers
    /\ told' = [told EXCEPT ![t] = told'[t]]
    /\ UNCHANGED <<approved, paid>>

Approve(t) ==
    /\ told[t] # NoOffer
    /\ approved' = approved \cup {t}
    /\ UNCHANGED <<told, paid>>

Pay(t) ==
    /\ t \in approved
    /\ \A p \in paid : p.of # t
    /\ \E p \in paid' : /\ p.of = t /\ p.on = told[t].on /\ p.cost <= told[t].fee
                        /\ paid' = paid \cup {p}
    /\ UNCHANGED <<told, approved>>

Next == \E t \in Transfers : Tell(t) \/ Approve(t) \/ Pay(t)

Spec == Init /\ [][Next]_vars
=============================================================================
