--------------------------- MODULE AccountManager ---------------------------
(***************************************************************************)
(* The account manager of am/ and cmd/am: a table of accounts in a         *)
(* database, gRPC requests and command-line invocations that work on it    *)
(* concurrently, each with the encryption key of its own process.          *)
(*                                                                         *)
(* One SQL statement is one step (the database commits each of them).      *)
(* gorm's Save is two statements: UPDATE, and if no row was hit, INSERT    *)
(* ... ON CONFLICT (address) DO UPDATE.                                    *)
(*                                                                         *)
(* An address is determined by the private key and the address format of   *)
(* the chain: ETH and BNB have the same one.  NetworkType and PublicKey    *)
(* of a row are left out: the first is never read, the second follows from *)
(* the private key.                                                        *)
(***************************************************************************)
CONSTANTS
    Keys,      \* private keys (32 bytes)
    Formats,   \* address formats of the registered chains
    Names,     \* account names
    NoName,    \* "" in a request, NULL in the table
    EncKeys,   \* -enckey of the processes
    NoEnc,     \* no -enckey
    Requests,  \* gRPC requests and command-line invocations
    NoRow,     \* no such row
    Ops        \* which operations are used

Addresses == [key : Keys, format : Formats]
Sealed    == [enc : EncKeys, key : Keys]
Stored    == Keys \cup Sealed
Rows      == [name : Names \cup {NoName}, pk : Stored]
Finds     == [address : Addresses, pk : Stored]
Wishes    == [address : Addresses, row : Rows]
Inputs    == [op : Ops \ {"delete"}, address : Addresses, name : Names \cup {NoName},
              enc : EncKeys \cup {NoEnc}]

ASSUME NoNameAssumption == NoName \notin Names
ASSUME NoEncAssumption  == NoEnc \notin EncKeys
\* A sealed key is longer than 32 bytes: Seal adds salt, nonce and tag.
ASSUME SealedAssumption == Keys \cap Sealed = {}
ASSUME NoRowAssumption  == NoRow \notin Rows \cup Finds \cup Wishes \cup Inputs
ASSUME OpsAssumption    == Ops \subseteq {"create", "get", "sign", "list", "export", "delete"}

VARIABLES
    accounts,  \* table accounts: primary key address
    pc, req,   \* where a request is, and what it asks (NoRow: nothing)
    found,     \* the Account variable of GetAccount and SignPayload
    answer     \* what the request was told

vars == <<accounts, pc, req, found, answer>>

NoAnswer == [kind |-> "none"]

Init ==
    /\ accounts = [a \in Addresses |-> NoRow]
    /\ pc = [r \in Requests |-> "idle"]
    /\ req = [r \in Requests |-> NoRow]
    /\ found = [r \in Requests |-> NoRow]
    /\ answer = [r \in Requests |-> NoAnswer]

-----------------------------------------------------------------------------
(* am/encryption.go                                                         *)

EncryptForgotten(enc, key) == key
Encrypt(enc, key) == IF enc = NoEnc THEN key ELSE [enc |-> enc, key |-> key]

\* Without a key the stored bytes are returned as they are.  With a key,
\* unsealed bytes are too short, and Open fails under any other key.
DecryptsUnchecked(enc, pk) == TRUE
Decrypts(enc, pk) == \/ enc = NoEnc
                     \/ pk \in Sealed /\ pk.enc = enc

Decrypt(enc, pk) == IF enc = NoEnc \/ pk \notin Sealed THEN pk ELSE pk.key

\* Sign refuses what has not the length of a private key.
Signable(bytes) == bytes \in Keys

-----------------------------------------------------------------------------
(* Requests.                                                                *)

\* A request arrives: CreateAccount with the private key of q.address, given
\* or just generated; the others with a name or else an address.
Begin(r, q) ==
    /\ pc[r] = "idle"
    /\ pc' = [pc EXCEPT ![r] = IF q.op = "create" THEN "update" ELSE "query"]
    /\ req' = [req EXCEPT ![r] = q]
    /\ UNCHANGED <<accounts, found, answer>>

Answer(r, a) == /\ pc' = [pc EXCEPT ![r] = "done"]
                /\ answer' = [answer EXCEPT ![r] = a]

\* The answer is delivered, or the process dies, or the caller is gone.
Leave(r) ==
    /\ pc[r] # "idle"
    /\ pc' = [pc EXCEPT ![r] = "idle"]
    /\ req' = [req EXCEPT ![r] = NoRow]
    /\ found' = [found EXCEPT ![r] = NoRow]
    /\ answer' = [answer EXCEPT ![r] = NoAnswer]
    /\ UNCHANGED accounts

\* A statement fails without effect.
DbFails(r) ==
    /\ pc[r] \in {"update", "insert", "query"}
    /\ Answer(r, [kind |-> "failed"])
    /\ UNCHANGED <<accounts, req, found>>

-----------------------------------------------------------------------------
(* CreateAccount: s.db.Save(&Account{...})                                  *)

RowOfEmptyName(q) == [name |-> IF q.name = NoName THEN "" ELSE q.name,
                      pk   |-> Encrypt(q.enc, q.address.key)]
RowOf(q) == [name |-> q.name, pk |-> Encrypt(q.enc, q.address.key)]

\* The unique index on name; NULLs do not collide.
NameTakenUnindexed(q) == FALSE
NameTaken(q) ==
    /\ q.name # NoName
    /\ \E b \in Addresses \ {q.address} : accounts[b] # NoRow /\ accounts[b].name = q.name

\* The statement commits.  The caller may not learn of it.
Store(r) ==
    /\ ~ NameTaken(req[r])
    /\ accounts' = [accounts EXCEPT ![req[r].address] = RowOf(req[r])]
    /\ \E k \in {"ok", "failed"} : Answer(r, [kind |-> k])
    /\ UNCHANGED <<req, found>>

Refuse(r) ==
    /\ Answer(r, [kind |-> "refused"])
    /\ UNCHANGED <<accounts, req, found>>

\* UPDATE accounts SET ... WHERE address = ?
Hit(q) == accounts[q.address] # NoRow

UpdateRow(r)     == pc[r] = "update" /\ Hit(req[r]) /\ Store(r)
UpdateRefused(r) == pc[r] = "update" /\ Hit(req[r]) /\ NameTaken(req[r]) /\ Refuse(r)
UpdateNoRow(r) ==
    /\ pc[r] = "update" /\ ~ Hit(req[r])
    /\ pc' = [pc EXCEPT ![r] = "insert"]
    /\ UNCHANGED <<accounts, req, found, answer>>

\* INSERT INTO accounts ... ON CONFLICT (address) DO UPDATE SET ...
CollidesOnAddress(q) == NameTaken(q) \/ Hit(q)
Collides(q) == NameTaken(q)

InsertRow(r)     == pc[r] = "insert" /\ Store(r)
InsertRefused(r) == pc[r] = "insert" /\ Collides(req[r]) /\ Refuse(r)

-----------------------------------------------------------------------------
(* GetAccount, SignPayload, ListAccounts.                                   *)

\* WHERE name = ?, or WHERE address = ?
Selected(q) == {a \in Addresses : /\ accounts[a] # NoRow
                                  /\ IF q.name # NoName THEN accounts[a].name = q.name
                                                        ELSE a = q.address}

\* ErrRecordNotFound: an empty answer of GetAccount, an error of SignPayload.
NotFound(r) ==
    /\ pc[r] = "query" /\ req[r].op \in {"get", "sign"}
    /\ Selected(req[r]) = {}
    /\ Answer(r, [kind |-> "absent"])
    /\ UNCHANGED <<accounts, req, found>>

GetAccount(r) ==
    /\ pc[r] = "query" /\ req[r].op = "get"
    /\ \E a \in Selected(req[r]) :
         Answer(r, [kind |-> "account", address |-> a, name |-> accounts[a].name])
    /\ UNCHANGED <<accounts, req, found>>

SignLookup(r) ==
    /\ pc[r] = "query" /\ req[r].op = "sign"
    /\ \E a \in Selected(req[r]) :
         found' = [found EXCEPT ![r] = [address |-> a, pk |-> accounts[a].pk]]
    /\ pc' = [pc EXCEPT ![r] = "sign"]
    /\ UNCHANGED <<accounts, req, answer>>

\* Decrypt and Sign of what was found: the table may have changed since.
SignPayload(r) ==
    /\ pc[r] = "sign"
    /\ LET enc == req[r].enc
           bytes == Decrypt(enc, found[r].pk)
       IN  Answer(r, IF Decrypts(enc, found[r].pk) /\ Signable(bytes)
                     THEN [kind |-> "signature", by |-> bytes]
                     ELSE [kind |-> "unsigned"])
    /\ UNCHANGED <<accounts, req, found>>

\* WHERE name LIKE ?: a NULL name matches no pattern, so *a.Name is one.
Listed(q) == {a \in Addresses : /\ accounts[a] # NoRow
                                /\ accounts[a].name # NoName
                                /\ q.name \in {NoName, accounts[a].name}}

ListAccounts(r) ==
    /\ pc[r] = "query" /\ req[r].op = "list"
    /\ Answer(r, [kind |-> "list", of |-> Listed(req[r])])
    /\ UNCHANGED <<accounts, req, found>>

-----------------------------------------------------------------------------
(* The commands list -export and delete of cmd/am.                          *)

\* Rows are printed in the order of the database, up to and with the first one
\* whose key does not decrypt.
Printed(all, bad) == IF bad = {} THEN {all}
                     ELSE {T \cup {last} : T \in SUBSET (all \ bad), last \in bad}

Export(r) ==
    /\ pc[r] = "query" /\ req[r].op = "export"
    /\ LET all == Listed(req[r])
           bad == {a \in all : ~ Decrypts(req[r].enc, accounts[a].pk)}
       IN  \E of \in Printed(all, bad) :
             Answer(r, [kind |-> "export", of |-> of,
                        pks |-> {Decrypt(req[r].enc, accounts[a].pk) : a \in of \ bad}])
    /\ UNCHANGED <<accounts, req, found>>

\* DELETE FROM accounts [WHERE address in ?]; the error of Exec is dropped.
Delete(A) ==
    /\ "delete" \in Ops
    /\ \/ accounts' = [a \in Addresses |-> IF a \in A THEN NoRow ELSE accounts[a]]
       \/ UNCHANGED accounts
    /\ UNCHANGED <<pc, req, found, answer>>

-----------------------------------------------------------------------------

Request(r) ==
    \/ \E q \in Inputs : Begin(r, q)
    \/ Leave(r) \/ DbFails(r)
    \/ UpdateRow(r) \/ UpdateRefused(r) \/ UpdateNoRow(r)
    \/ InsertRow(r) \/ InsertRefused(r)
    \/ NotFound(r) \/ GetAccount(r) \/ SignLookup(r) \/ SignPayload(r)
    \/ ListAccounts(r) \/ Export(r)

Next == (\E r \in Requests : Request(r)) \/ (\E A \in SUBSET Addresses : Delete(A))

Spec == Init /\ [][Next]_vars
-----------------------------------------------------------------------------
(* Properties.                                                              *)

Answers == [kind : {"none", "ok", "refused", "failed", "absent", "unsigned"}]
           \cup [kind : {"account"}, address : Addresses, name : Names \cup {NoName}]
           \cup [kind : {"signature"}, by : Keys]
           \cup [kind : {"list"}, of : SUBSET Addresses]
           \cup [kind : {"export"}, of : SUBSET Addresses, pks : SUBSET Stored]

\* Types: only a request that asks nothing is idle, and a request that is still
\* working has no answer yet.
TypeOK ==
    /\ accounts \in [Addresses -> Rows \cup {NoRow}]
    /\ pc \in [Requests -> {"idle", "update", "insert", "query", "sign", "done"}]
    /\ req \in [Requests -> Inputs \cup {NoRow}]
    /\ found \in [Requests -> Finds \cup {NoRow}]
    /\ answer \in [Requests -> Answers]
    /\ \A r \in Requests :
         /\ pc[r] = "idle" <=> req[r] = NoRow
         /\ pc[r] # "done" => answer[r] = NoAnswer
         /\ pc[r] \in {"update", "insert"} => req[r].op = "create"
         /\ pc[r] \in {"query", "sign"} => req[r].op # "create"
         /\ pc[r] = "sign" => found[r] # NoRow

\* A name denotes one account ("Optional unique name to be associated with this
\* account"), whatever the order of two creations, renamings by a second import
\* and deletions: GetAccount and SignPayload by name read the first row only.
NamesUnique ==
    \A a, b \in Addresses :
        /\ accounts[a] # NoRow /\ accounts[b] # NoRow
        /\ accounts[a].name = accounts[b].name
        /\ accounts[a].name # NoName
        => a = b

\* A signature is made with the key of the account that was looked up, and only
\* by a process with the encryption key the account was stored under, although
\* the row may have been renamed, re-encrypted or deleted since.
SignedByItsAccount ==
    \A r \in Requests : answer[r].kind = "signature" =>
        /\ answer[r].by = found[r].address.key
        /\ found[r].pk = Encrypt(req[r].enc, answer[r].by)

Creating(r) == pc[r] # "idle" /\ req[r].op = "create"
Wanted  == [r \in Requests |-> IF Creating(r)
                               THEN [address |-> req[r].address, row |-> RowOf(req[r])]
                               ELSE NoRow]
Outcome == [r \in Requests |-> IF Creating(r) THEN answer[r].kind ELSE "none"]

Promise == INSTANCE AccountStore WITH table <- accounts, wanted <- Wanted, outcome <- Outcome

\* The two statements of Save together are one upsert: a request stores its row
\* at most once, a repeated import is not refused because of what an earlier
\* attempt stored, and "ok" and "refused" tell the truth.
ImplementsStore == Promise!Spec
=============================================================================
