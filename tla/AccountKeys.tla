---------------------------- MODULE AccountKeys ----------------------------
(***************************************************************************)
(* Who may come to use a private key of the account manager.  A history    *)
(* variable, kept apart from AccountManager, remembers with which          *)
(* encryption key each private key was ever imported or generated.         *)
(***************************************************************************)
EXTENDS AccountManager

VARIABLE entrusted  \* every private key a creation was asked for, with its -enckey

Entrusts == {[enc |-> req[r].enc, key |-> req[r].address.key] : r \in {s \in Requests : Creating(s)}}

KeysInit == Init /\ entrusted = {}

KeysNext == Next /\ entrusted' = entrusted \cup Entrusts'

KeysSpec == KeysInit /\ [][KeysNext]_<<vars, entrusted>>

-----------------------------------------------------------------------------

\* The private keys that an answer was signed with or tells in the clear.
Disclosed(a) == CASE a.kind = "signature" -> {a.by}
                  [] a.kind = "export" -> a.pks \cap Keys
                  [] OTHER -> {}

\* A process signs with a private key (server.go:207-215) or prints it in the
\* clear (main.go:266-272) only if the account was created by a process with the
\* same -enckey, or none as it has none: sharing the table gives nobody a key,
\* whatever is imported again, renamed, re-encrypted or deleted meanwhile.
KeysStayEntrusted ==
    \A r \in Requests : \A k \in Disclosed(answer[r]) : [enc |-> req[r].enc, key |-> k] \in entrusted
=============================================================================
