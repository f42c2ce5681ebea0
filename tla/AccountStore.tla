---------------------------- MODULE AccountStore ----------------------------
(***************************************************************************)
(* What the account manager promises about its table: a request to store   *)
(* an account takes effect in one step and at most once, it is refused     *)
(* only when its name belongs to another address, and its answer tells     *)
(* which of the two happened unless the database failed.                   *)
(***************************************************************************)
CONSTANTS Addresses, Rows, Requests, NoRow, NoName

VARIABLES table,    \* the row of each address, or NoRow
          wanted,   \* what each request wants to store and where, or NoRow
          outcome   \* what became of it: "none", "ok", "refused", "failed"

Init ==
    /\ table = [a \in Addresses |-> NoRow]
    /\ wanted = [r \in Requests |-> NoRow]
    /\ outcome = [r \in Requests |-> "none"]

\* A request comes or goes.
Ask(r) ==
    /\ \E w \in [address : Addresses, row : Rows] \cup {NoRow} :
         wanted' = [wanted EXCEPT ![r] = w]
    /\ outcome' = [outcome EXCEPT ![r] = "none"]
    /\ UNCHANGED table

Taken(w) ==
    /\ w.row.name # NoName
    /\ \E b \in Addresses \ {w.address} : table[b] # NoRow /\ table[b].name = w.row.name

Settle(r, o) == /\ wanted[r] # NoRow /\ outcome[r] = "none"
                /\ outcome' = [outcome EXCEPT ![r] = o]

\* The database may fail after the row was stored.
Put(r) ==
    /\ \E o \in {"ok", "failed"} : Settle(r, o)
    /\ ~ Taken(wanted[r])
    /\ table' = [table EXCEPT ![wanted[r].address] = wanted[r].row]
    /\ UNCHANGED wanted

Refuse(r) == Settle(r, "refused") /\ Taken(wanted[r]) /\ UNCHANGED <<table, wanted>>

Fail(r) == Settle(r, "failed") /\ UNCHANGED <<table, wanted>>

Remove(A) ==
    /\ table' = [a \in Addresses |-> IF a \in A THEN NoRow ELSE table[a]]
    /\ UNCHANGED <<wanted, outcome>>

Next == \/ \E r \in Requests : Ask(r) \/ Put(r) \/ Refuse(r) \/ Fail(r)
        \/ \E A \in SUBSET Addresses : Remove(A)

Spec == Init /\ [][Next]_<<table, wanted, outcome>>
=============================================================================
