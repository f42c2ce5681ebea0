------------------------ MODULE AccountManagerProofs ------------------------
(***************************************************************************)
(* Theorems about AccountManager, for any number of keys, names, requests  *)
(* and encryption keys.                                                    *)
(***************************************************************************)
EXTENDS AccountKeys, TLAPS

LEMMA RowOfType == \A q \in Inputs : RowOf(q) \in Rows
BY NoEncAssumption DEF RowOf, Rows, Encrypt, Stored, Sealed, Inputs, Addresses

LEMMA DecryptType == \A e : \A pk \in Stored : Decrypt(e, pk) \in Stored
BY DEF Decrypt, Stored, Sealed

LEMMA ListedType == \A q : Listed(q) \subseteq Addresses
BY DEF Listed

LEMMA TypeInit == Init => TypeOK
BY NoRowAssumption DEF Init, TypeOK, NoAnswer, Answers

\* Each step keeps the types.
LEMMA TypeStep == TypeOK /\ [Next]_vars => TypeOK'
<1> SUFFICES ASSUME TypeOK, [Next]_vars PROVE TypeOK'
  OBVIOUS
<1> USE DEF TypeOK
<1>1. ASSUME NEW r \in Requests, NEW q \in Inputs, Begin(r, q) PROVE TypeOK'
  <2>1. q # NoRow
    BY NoRowAssumption
  <2> QED BY <1>1, <2>1, OpsAssumption DEF Begin, Inputs
<1>2. ASSUME NEW r \in Requests, Leave(r) PROVE TypeOK'
  BY <1>2 DEF Leave, NoAnswer, Answers
<1>3. ASSUME NEW r \in Requests, DbFails(r) PROVE TypeOK'
  BY <1>3 DEF DbFails, Answer, Answers, NoAnswer
<1>4. ASSUME NEW r \in Requests, pc[r] # "idle", Store(r) PROVE TypeOK'
  <2>1. req[r] \in Inputs
    BY <1>4
  <2>2. RowOf(req[r]) \in Rows
    BY <2>1, RowOfType
  <2>3. req[r].address \in Addresses
    BY <2>1 DEF Inputs
  <2>4. accounts' \in [Addresses -> Rows \cup {NoRow}]
    BY <1>4, <2>2, <2>3 DEF Store
  <2>5. PICK k \in {"ok", "failed"} : Answer(r, [kind |-> k])
    BY <1>4 DEF Store
  <2>6. [kind |-> k] \in Answers
    BY DEF Answers
  <2> QED BY <1>4, <2>4, <2>5, <2>6 DEF Store, Answer
<1>5. ASSUME NEW r \in Requests, pc[r] # "idle", Refuse(r) PROVE TypeOK'
  BY <1>5 DEF Refuse, Answer, Answers
<1>6. ASSUME NEW r \in Requests, UpdateNoRow(r) PROVE TypeOK'
  BY <1>6 DEF UpdateNoRow
<1>7. ASSUME NEW r \in Requests, NotFound(r) PROVE TypeOK'
  BY <1>7 DEF NotFound, Answer, Answers
<1>8. ASSUME NEW r \in Requests, GetAccount(r) PROVE TypeOK'
  <2>1. PICK a \in Addresses : /\ accounts[a] # NoRow
                               /\ Answer(r, [kind |-> "account", address |-> a,
                                             name |-> accounts[a].name])
    BY <1>8 DEF GetAccount, Selected
  <2>2. accounts[a].name \in Names \cup {NoName}
    BY <2>1 DEF Rows
  <2>3. [kind |-> "account", address |-> a, name |-> accounts[a].name] \in Answers
    BY <2>2 DEF Answers
  <2> QED BY <1>8, <2>1, <2>3 DEF GetAccount, Answer
<1>9. ASSUME NEW r \in Requests, SignLookup(r) PROVE TypeOK'
  <2>1. PICK a \in Addresses : /\ accounts[a] # NoRow
                               /\ found' = [found EXCEPT ![r] = [address |-> a, pk |-> accounts[a].pk]]
    BY <1>9 DEF SignLookup, Selected
  <2>2. [address |-> a, pk |-> accounts[a].pk] \in Finds
    BY <2>1 DEF Rows, Finds
  <2>3. [address |-> a, pk |-> accounts[a].pk] # NoRow
    BY <2>2, NoRowAssumption
  <2> QED BY <1>9, <2>1, <2>2, <2>3 DEF SignLookup
<1>10. ASSUME NEW r \in Requests, SignPayload(r) PROVE TypeOK'
  <2> DEFINE bytes == Decrypt(req[r].enc, found[r].pk)
             a == IF Decrypts(req[r].enc, found[r].pk) /\ Signable(bytes)
                  THEN [kind |-> "signature", by |-> bytes] ELSE [kind |-> "unsigned"]
  <2>1. a \in Answers
    BY DEF Answers, Signable
  <2>2. Answer(r, a)
    BY <1>10 DEF SignPayload
  <2> HIDE DEF a
  <2> QED BY <1>10, <2>1, <2>2 DEF SignPayload, Answer
<1>11. ASSUME NEW r \in Requests, ListAccounts(r) PROVE TypeOK'
  <2>1. PICK a \in Answers : Answer(r, a)
    BY <1>11, ListedType DEF ListAccounts, Answers
  <2> QED BY <1>11, <2>1 DEF ListAccounts, Answer
<1>12. ASSUME NEW r \in Requests, Export(r) PROVE TypeOK'
  <2> DEFINE all == Listed(req[r])
             bad == {a \in all : ~ Decrypts(req[r].enc, accounts[a].pk)}
             pks(of) == {Decrypt(req[r].enc, accounts[a].pk) : a \in of \ bad}
  <2>1. PICK of \in Printed(all, bad) : Answer(r, [kind |-> "export", of |-> of, pks |-> pks(of)])
    BY <1>12 DEF Export
  <2>2. of \subseteq all /\ all \subseteq Addresses
    BY ListedType DEF Printed
  <2>3. \A a \in all : accounts[a].pk \in Stored
    BY DEF Listed, Rows
  <2>4. pks(of) \subseteq Stored
    BY <2>2, <2>3, DecryptType
  <2>5. [kind |-> "export", of |-> of, pks |-> pks(of)] \in Answers
    BY <2>2, <2>4 DEF Answers
  <2> HIDE DEF pks
  <2> QED BY <1>12, <2>1, <2>5 DEF Export, Answer
<1>13. ASSUME NEW A \in SUBSET Addresses, Delete(A) PROVE TypeOK'
  BY <1>13 DEF Delete
<1>14. CASE UNCHANGED vars
  BY <1>14 DEF vars
<1> QED
  BY <1>1, <1>2, <1>3, <1>4, <1>5, <1>6, <1>7, <1>8, <1>9, <1>10, <1>11, <1>12, <1>13, <1>14
  DEF Next, Request, UpdateRow, UpdateRefused, InsertRow, InsertRefused

\* Types, and which request may be where.
THEOREM AccountTypes == Spec => []TypeOK
BY TypeInit, TypeStep, PTL DEF Spec

-----------------------------------------------------------------------------
(* Names.                                                                   *)

\* What a step does to the table: one row is stored under a free name, or rows
\* go, or nothing happens.
Stores(r) == /\ pc[r] \in {"update", "insert"} /\ ~ NameTaken(req[r])
             /\ accounts' = [accounts EXCEPT ![req[r].address] = RowOf(req[r])]

LEMMA TableSteps ==
    ASSUME [Next]_vars
    PROVE  \/ \E r \in Requests : Stores(r)
           \/ \E A \in SUBSET Addresses :
                accounts' = [a \in Addresses |-> IF a \in A THEN NoRow ELSE accounts[a]]
           \/ UNCHANGED accounts
<1>1. ASSUME NEW r \in Requests, UpdateRow(r) \/ InsertRow(r) PROVE Stores(r)
  BY <1>1 DEF UpdateRow, InsertRow, Store, Stores
<1>2. ASSUME NEW r \in Requests, Request(r), ~ UpdateRow(r), ~ InsertRow(r)
      PROVE  UNCHANGED accounts
  BY <1>2 DEF Request, Begin, Leave, DbFails, UpdateRefused, UpdateNoRow, InsertRefused, Refuse,
              NotFound, GetAccount, SignLookup, SignPayload, ListAccounts, Export
<1>3. ASSUME NEW A \in SUBSET Addresses, Delete(A)
      PROVE  \/ accounts' = [a \in Addresses |-> IF a \in A THEN NoRow ELSE accounts[a]]
             \/ UNCHANGED accounts
  BY <1>3 DEF Delete
<1> QED BY <1>1, <1>2, <1>3 DEF Next, vars

LEMMA FoundSteps ==
    ASSUME [Next]_vars
    PROVE  (\E r \in Requests : SignLookup(r) \/ Leave(r)) \/ UNCHANGED found
<1>1. ASSUME NEW r \in Requests, Request(r), ~ SignLookup(r), ~ Leave(r)
      PROVE  UNCHANGED found
  BY <1>1 DEF Request, Begin, DbFails, UpdateRow, UpdateRefused, UpdateNoRow, InsertRow, InsertRefused,
              Store, Refuse, NotFound, GetAccount, SignPayload, ListAccounts, Export
<1>2. ASSUME NEW A \in SUBSET Addresses, Delete(A) PROVE UNCHANGED found
  BY <1>2 DEF Delete
<1> QED BY <1>1, <1>2 DEF Next, vars

\* No two accounts ever have the same name: both statements of Save check it
\* against the table as it is when they commit.
THEOREM NamesAreUnique == Spec => []NamesUnique
<1>1. Init => NamesUnique
  BY DEF Init, NamesUnique
<1>2. ASSUME TypeOK, NamesUnique, [Next]_vars PROVE NamesUnique'
  <2>1. ASSUME NEW r \in Requests, Stores(r) PROVE NamesUnique'
    <3>1. req[r] \in Inputs
      BY <1>2, <2>1 DEF TypeOK, Stores
    <3>2. req[r].address \in Addresses /\ RowOf(req[r]) # NoRow
      BY <3>1, RowOfType, NoRowAssumption DEF Inputs
    <3>3. RowOf(req[r]).name = req[r].name
      BY DEF RowOf
    <3>4. \A a \in Addresses : accounts'[a] = IF a = req[r].address THEN RowOf(req[r])
                                                                   ELSE accounts[a]
      BY <1>2, <2>1 DEF Stores, TypeOK
    <3>5. \A b \in Addresses \ {req[r].address} :
            req[r].name # NoName => accounts[b] = NoRow \/ accounts[b].name # req[r].name
      BY <2>1 DEF Stores, NameTaken
    <3> QED BY <1>2, <3>2, <3>3, <3>4, <3>5 DEF NamesUnique
  <2>2. ASSUME NEW A \in SUBSET Addresses,
               accounts' = [a \in Addresses |-> IF a \in A THEN NoRow ELSE accounts[a]]
        PROVE  NamesUnique'
    BY <1>2, <2>2 DEF NamesUnique
  <2>3. CASE UNCHANGED accounts
    BY <1>2, <2>3 DEF NamesUnique
  <2> QED BY <1>2, <2>1, <2>2, <2>3, TableSteps
<1> QED BY <1>1, <1>2, AccountTypes, PTL DEF Spec

-----------------------------------------------------------------------------
(* Signatures.                                                              *)

\* A row holds the key of its address, as it was stored by some process; what a
\* signer has read does so too.
OwnKey(a, pk) == \E e \in EncKeys \cup {NoEnc} : pk = Encrypt(e, a.key)

KeysInv ==
    /\ \A a \in Addresses : accounts[a] # NoRow => OwnKey(a, accounts[a].pk)
    /\ \A r \in Requests : found[r] # NoRow => OwnKey(found[r].address, found[r].pk)
    /\ SignedByItsAccount

\* A process that can open a stored key and sign with it has the key it was
\* stored under.
LEMMA OpensOnlyItsOwn ==
    ASSUME NEW a \in Addresses, NEW e \in EncKeys \cup {NoEnc}, NEW pk, OwnKey(a, pk),
           Decrypts(e, pk), Signable(Decrypt(e, pk))
    PROVE  Decrypt(e, pk) = a.key /\ pk = Encrypt(e, Decrypt(e, pk))
<1>1. PICK w \in EncKeys \cup {NoEnc} : pk = Encrypt(w, a.key)
  BY DEF OwnKey
<1>2. a.key \in Keys
  BY DEF Addresses
<1>3. CASE w = NoEnc
  <2>1. pk = a.key /\ pk \notin Sealed
    BY <1>1, <1>2, <1>3, SealedAssumption DEF Encrypt
  <2>2. e = NoEnc
    BY <2>1 DEF Decrypts
  <2> QED BY <2>1, <2>2 DEF Encrypt, Decrypt
<1>4. CASE w # NoEnc
  <2>1. pk = [enc |-> w, key |-> a.key] /\ pk \in Sealed
    BY <1>1, <1>2, <1>4 DEF Encrypt, Sealed
  <2>2. e # NoEnc
    BY <2>1, SealedAssumption DEF Signable, Decrypt
  <2>3. pk.enc = e
    BY <2>2 DEF Decrypts
  <2> QED BY <2>1, <2>2, <2>3 DEF Encrypt, Decrypt
<1> QED BY <1>3, <1>4

LEMMA KeysStep ==
    ASSUME TypeOK, KeysInv, [Next]_vars
    PROVE  KeysInv'
<1>1. (\A a \in Addresses : accounts[a] # NoRow => OwnKey(a, accounts[a].pk))'
  <2>1. ASSUME NEW r \in Requests, Stores(r)
        PROVE  \A a \in Addresses : accounts'[a] # NoRow => OwnKey(a, accounts'[a].pk)
    <3>1. req[r] \in Inputs
      BY <2>1 DEF TypeOK, Stores
    <3>2. OwnKey(req[r].address, RowOf(req[r]).pk)
      BY <3>1 DEF OwnKey, RowOf, Inputs
    <3> QED BY <2>1, <3>2 DEF Stores, KeysInv, TypeOK
  <2>2. ASSUME NEW A \in SUBSET Addresses,
               accounts' = [a \in Addresses |-> IF a \in A THEN NoRow ELSE accounts[a]]
        PROVE  \A a \in Addresses : accounts'[a] # NoRow => OwnKey(a, accounts'[a].pk)
    BY <2>2 DEF KeysInv
  <2>3. CASE UNCHANGED accounts
    BY <2>3 DEF KeysInv
  <2> QED BY <2>1, <2>2, <2>3, TableSteps
<1>2. ASSUME NEW r \in Requests, Leave(r)
      PROVE  /\ (\A s \in Requests : found[s] # NoRow => OwnKey(found[s].address, found[s].pk))'
             /\ SignedByItsAccount'
  BY <1>2 DEF Leave, KeysInv, SignedByItsAccount, TypeOK, NoAnswer
<1>3. ASSUME NEW r \in Requests, SignLookup(r)
      PROVE  /\ (\A s \in Requests : found[s] # NoRow => OwnKey(found[s].address, found[s].pk))'
             /\ SignedByItsAccount'
  <2>1. PICK a \in Addresses : /\ accounts[a] # NoRow
                               /\ found' = [found EXCEPT ![r] = [address |-> a, pk |-> accounts[a].pk]]
    BY <1>3 DEF SignLookup, Selected
  <2>2. OwnKey(a, accounts[a].pk)
    BY <2>1 DEF KeysInv
  <2>3. answer[r].kind = "none" /\ answer' = answer /\ req' = req
    BY <1>3 DEF SignLookup, TypeOK, NoAnswer
  <2> QED BY <2>1, <2>2, <2>3 DEF KeysInv, SignedByItsAccount, TypeOK
<1>4. ASSUME NEW r \in Requests, SignPayload(r)
      PROVE  UNCHANGED found /\ SignedByItsAccount'
  <2> DEFINE bytes == Decrypt(req[r].enc, found[r].pk)
             opens == Decrypts(req[r].enc, found[r].pk) /\ Signable(bytes)
             a == IF opens THEN [kind |-> "signature", by |-> bytes] ELSE [kind |-> "unsigned"]
  <2>1. req[r] \in Inputs /\ found[r] \in Finds /\ found[r] # NoRow
    BY <1>4 DEF SignPayload, TypeOK
  <2>2. OwnKey(found[r].address, found[r].pk)
    BY <2>1 DEF KeysInv
  <2>3. opens => bytes = found[r].address.key /\ found[r].pk = Encrypt(req[r].enc, bytes)
    BY <2>1, <2>2, OpensOnlyItsOwn DEF Inputs, Finds
  <2>4. answer' = [answer EXCEPT ![r] = a] /\ UNCHANGED <<req, found>>
    BY <1>4 DEF SignPayload, Answer
  <2>5. a.kind = "signature" => opens /\ a.by = bytes
    OBVIOUS
  <2> HIDE DEF a, opens, bytes
  <2>6. a.kind = "signature" => /\ a.by = found[r].address.key
                                /\ found[r].pk = Encrypt(req[r].enc, a.by)
    BY <2>3, <2>5
  <2> QED BY <2>4, <2>6 DEF KeysInv, SignedByItsAccount, TypeOK
<1>5. ASSUME NEW r \in Requests, NEW q \in Inputs, Begin(r, q)
      PROVE  UNCHANGED found /\ SignedByItsAccount'
  BY <1>5 DEF Begin, KeysInv, SignedByItsAccount, TypeOK, NoAnswer
<1>6. ASSUME NEW r \in Requests, NEW a, a.kind # "signature", Answer(r, a), UNCHANGED <<req, found>>
      PROVE  SignedByItsAccount'
  BY <1>6 DEF Answer, KeysInv, SignedByItsAccount, TypeOK
<1>7. ASSUME NEW r \in Requests,
             \/ DbFails(r) \/ UpdateRow(r) \/ UpdateRefused(r) \/ InsertRow(r) \/ InsertRefused(r)
             \/ NotFound(r) \/ GetAccount(r) \/ ListAccounts(r) \/ Export(r)
      PROVE  UNCHANGED found /\ SignedByItsAccount'
  <2>1. UNCHANGED <<req, found>>
    BY <1>7 DEF DbFails, UpdateRow, UpdateRefused, InsertRow, InsertRefused, Store, Refuse,
                NotFound, GetAccount, ListAccounts, Export
  <2>2. CASE DbFails(r) \/ UpdateRefused(r) \/ InsertRefused(r) \/ NotFound(r)
    BY <2>1, <2>2, <1>6 DEF DbFails, UpdateRefused, InsertRefused, Refuse, NotFound
  <2>3. CASE UpdateRow(r) \/ InsertRow(r)
    BY <2>1, <2>3, <1>6 DEF UpdateRow, InsertRow, Store
  <2>4. CASE GetAccount(r)
    BY <2>1, <2>4, <1>6 DEF GetAccount
  <2>5. CASE ListAccounts(r)
    BY <2>1, <2>5, <1>6 DEF ListAccounts
  <2>6. CASE Export(r)
    BY <2>1, <2>6, <1>6 DEF Export
  <2> QED BY <1>7, <2>1, <2>2, <2>3, <2>4, <2>5, <2>6
<1>8. ASSUME UNCHANGED <<req, found, answer>>
      PROVE  SignedByItsAccount'
  BY <1>8 DEF KeysInv, SignedByItsAccount
<1>9. /\ (\A s \in Requests : found[s] # NoRow => OwnKey(found[s].address, found[s].pk))'
      /\ SignedByItsAccount'
  <2>1. ASSUME NEW r \in Requests, UpdateNoRow(r) PROVE UNCHANGED <<req, found, answer>>
    BY <2>1 DEF UpdateNoRow
  <2>2. ASSUME NEW A \in SUBSET Addresses, Delete(A) PROVE UNCHANGED <<req, found, answer>>
    BY <2>2 DEF Delete
  <2>3. CASE UNCHANGED vars
    BY <2>3, <1>8 DEF vars, KeysInv
  <2>4. UNCHANGED found => (\A s \in Requests : found[s] # NoRow => OwnKey(found[s].address, found[s].pk))'
    BY DEF KeysInv
  <2> QED BY <1>2, <1>3, <1>4, <1>5, <1>7, <1>8, <2>1, <2>2, <2>3, <2>4 DEF Next, Request
<1> QED BY <1>1, <1>9 DEF KeysInv

\* A signature is made with the key of the account that was looked up, by a
\* process with the encryption key it was stored under: another key never
\* gives a wrong signature, whatever happens to the row in between.
THEOREM SignaturesAreSound == Spec => []SignedByItsAccount
<1>1. Init => KeysInv
  BY DEF Init, KeysInv, SignedByItsAccount, NoAnswer
<1>2. TypeOK /\ KeysInv /\ [Next]_vars => KeysInv'
  BY KeysStep
<1>3. KeysInv => SignedByItsAccount
  BY DEF KeysInv
<1> QED BY <1>1, <1>2, <1>3, AccountTypes, PTL DEF Spec

-----------------------------------------------------------------------------
(* Save is one upsert.                                                      *)

LEMMA WishType == \A q \in Inputs : /\ [address |-> q.address, row |-> RowOf(q)] \in Wishes
                                     /\ [address |-> q.address, row |-> RowOf(q)] # NoRow
<1> SUFFICES ASSUME NEW q \in Inputs
             PROVE  [address |-> q.address, row |-> RowOf(q)] \in Wishes
  BY NoRowAssumption
<1> QED BY RowOfType DEF Wishes, Inputs

\* The answer to a request that creates an account settles its outcome.
LEMMA AnswerSettles ==
    ASSUME TypeOK, NEW r \in Requests, NEW k, pc[r] \in {"update", "insert"},
           Answer(r, [kind |-> k]), UNCHANGED req
    PROVE  Promise!Settle(r, k) /\ UNCHANGED Wanted
<1>1. req[r].op = "create" /\ req[r] \in Inputs /\ answer[r] = NoAnswer
  BY DEF TypeOK
<1>2. UNCHANGED Wanted
  BY <1>1 DEF Answer, Wanted, Creating, TypeOK
<1>3. Wanted[r] # NoRow /\ Outcome[r] = "none"
  BY <1>1, WishType DEF Wanted, Outcome, Creating, NoAnswer
<1>4. Outcome' = [Outcome EXCEPT ![r] = k]
  BY <1>1 DEF Answer, Outcome, Creating, TypeOK
<1> QED BY <1>2, <1>3, <1>4 DEF Promise!Settle

\* Nobody sees a change in a request that creates nothing.
LEMMA OthersStutter ==
    ASSUME TypeOK, NEW r \in Requests, pc[r] # "idle", pc'[r] # "idle", req[r].op # "create",
           pc' = [pc EXCEPT ![r] = pc'[r]], answer' = [answer EXCEPT ![r] = answer'[r]],
           UNCHANGED req
    PROVE  UNCHANGED <<Wanted, Outcome>>
<1>1. \A s \in Requests : Creating(s)' <=> Creating(s)
  BY DEF Creating, TypeOK
<1>2. \A s \in Requests : Creating(s) => answer'[s] = answer[s]
  BY DEF Creating, TypeOK
<1> QED BY <1>1, <1>2 DEF Wanted, Outcome

LEMMA SaveIsAtomic ==
    ASSUME TypeOK, [Next]_vars
    PROVE  [Promise!Next]_<<accounts, Wanted, Outcome>>
<1>1. ASSUME NEW r \in Requests, NEW q \in Inputs, Begin(r, q) PROVE Promise!Ask(r)
  <2>1. answer[r] = NoAnswer /\ pc[r] = "idle" /\ pc'[r] # "idle" /\ req'[r] = q
    BY <1>1 DEF Begin, TypeOK
  <2>2. \A s \in Requests \ {r} : (Creating(s)' <=> Creating(s)) /\ req'[s] = req[s]
    BY <1>1 DEF Begin, Creating, TypeOK
  <2>3. answer' = answer /\ accounts' = accounts
    BY <1>1 DEF Begin
  <2>4. Outcome' = [Outcome EXCEPT ![r] = "none"]
    BY <2>1, <2>2, <2>3 DEF Outcome, NoAnswer
  <2>5. Wanted' = [Wanted EXCEPT ![r] = Wanted'[r]]
    BY <2>2 DEF Wanted
  <2>6. Wanted'[r] \in Wishes \cup {NoRow}
    BY <2>1, WishType DEF Wanted, Creating
  <2> QED BY <2>3, <2>4, <2>5, <2>6 DEF Promise!Ask, Wishes
<1>2. ASSUME NEW r \in Requests, Leave(r) PROVE Promise!Ask(r)
  <2>1. pc'[r] = "idle"
    BY <1>2 DEF Leave, TypeOK
  <2>2. \A s \in Requests \ {r} : /\ Creating(s)' <=> Creating(s)
                                  /\ req'[s] = req[s] /\ answer'[s] = answer[s]
    BY <1>2 DEF Leave, Creating, TypeOK
  <2>3. Outcome' = [Outcome EXCEPT ![r] = "none"] /\ Wanted' = [Wanted EXCEPT ![r] = NoRow]
    BY <2>1, <2>2 DEF Outcome, Wanted, Creating
  <2> QED BY <1>2, <2>3 DEF Promise!Ask, Leave
<1>3. ASSUME NEW r \in Requests, DbFails(r)
      PROVE  Promise!Fail(r) \/ UNCHANGED <<accounts, Wanted, Outcome>>
  <2>1. CASE pc[r] = "query"
    BY <1>3, <2>1, OthersStutter DEF DbFails, Answer, TypeOK
  <2>2. CASE pc[r] \in {"update", "insert"}
    BY <1>3, <2>2, AnswerSettles DEF DbFails, Promise!Fail
  <2> QED BY <1>3, <2>1, <2>2 DEF DbFails
<1>4. ASSUME NEW r \in Requests, pc[r] \in {"update", "insert"}, Store(r) PROVE Promise!Put(r)
  <2>1. \E k \in {"ok", "failed"} : Promise!Settle(r, k) /\ UNCHANGED Wanted
    BY <1>4, AnswerSettles DEF Store
  <2>2. Wanted[r] = [address |-> req[r].address, row |-> RowOf(req[r])]
    BY <1>4 DEF Wanted, Creating, TypeOK
  <2>3. RowOf(req[r]).name = req[r].name
    BY DEF RowOf
  <2>4. ~ Promise!Taken(Wanted[r])
    BY <1>4, <2>2, <2>3 DEF Promise!Taken, Store, NameTaken
  <2>5. accounts' = [accounts EXCEPT ![Wanted[r].address] = Wanted[r].row]
    BY <1>4, <2>2 DEF Store
  <2> QED BY <2>1, <2>4, <2>5 DEF Promise!Put
<1>5. ASSUME NEW r \in Requests, pc[r] \in {"update", "insert"}, NameTaken(req[r]), Refuse(r)
      PROVE  Promise!Refuse(r)
  <2>1. Wanted[r] = [address |-> req[r].address, row |-> RowOf(req[r])]
    BY <1>5 DEF Wanted, Creating, TypeOK
  <2>2. RowOf(req[r]).name = req[r].name
    BY DEF RowOf
  <2>3. Promise!Taken(Wanted[r])
    BY <1>5, <2>1, <2>2 DEF Promise!Taken, NameTaken
  <2> QED BY <1>5, <2>3, AnswerSettles DEF Refuse, Promise!Refuse
<1>6. ASSUME NEW r \in Requests, UpdateNoRow(r) PROVE UNCHANGED <<accounts, Wanted, Outcome>>
  BY <1>6 DEF UpdateNoRow, Wanted, Outcome, Creating, TypeOK
<1>7. ASSUME NEW r \in Requests,
             \/ NotFound(r) \/ GetAccount(r) \/ SignLookup(r) \/ SignPayload(r)
             \/ ListAccounts(r) \/ Export(r)
      PROVE  UNCHANGED <<accounts, Wanted, Outcome>>
  <2>1. pc[r] \in {"query", "sign"} /\ UNCHANGED <<accounts, req>>
    BY <1>7 DEF NotFound, GetAccount, SignLookup, SignPayload, ListAccounts, Export
  <2>2. pc' = [pc EXCEPT ![r] = pc'[r]] /\ pc'[r] # "idle"
    BY <1>7 DEF NotFound, GetAccount, SignLookup, SignPayload, ListAccounts, Export, Answer, TypeOK
  <2>3. answer' = [answer EXCEPT ![r] = answer'[r]]
    <3>1. CASE SignLookup(r)
      BY <3>1 DEF SignLookup, TypeOK
    <3>2. ASSUME NEW a, Answer(r, a) PROVE answer' = [answer EXCEPT ![r] = answer'[r]]
      BY <3>2 DEF Answer, TypeOK
    <3> QED BY <1>7, <3>1, <3>2 DEF NotFound, GetAccount, SignPayload, ListAccounts, Export
  <2> QED BY <2>1, <2>2, <2>3, OthersStutter DEF TypeOK
<1>8. ASSUME NEW A \in SUBSET Addresses, Delete(A)
      PROVE  Promise!Remove(A) \/ UNCHANGED <<accounts, Wanted, Outcome>>
  BY <1>8 DEF Delete, Promise!Remove, Wanted, Outcome, Creating
<1>9. CASE UNCHANGED vars
  BY <1>9 DEF vars, Wanted, Outcome, Creating
<1> QED
  BY <1>1, <1>2, <1>3, <1>4, <1>5, <1>6, <1>7, <1>8, <1>9
  DEF Next, Request, Promise!Next, UpdateRow, UpdateRefused, InsertRow, InsertRefused, Collides

\* CreateAccount is one atomic upsert, although Save is an UPDATE and an INSERT
\* that other requests and deletions may come between.
THEOREM SaveImplementsStore == Spec => ImplementsStore
<1>1. Init => Promise!Init
  BY DEF Init, Promise!Init, Wanted, Outcome, Creating
<1>2. TypeOK /\ [Next]_vars => [Promise!Next]_<<accounts, Wanted, Outcome>>
  BY SaveIsAtomic
<1> QED BY <1>1, <1>2, AccountTypes, PTL DEF Spec, ImplementsStore, Promise!Spec

-----------------------------------------------------------------------------
(* Who comes to use a key.                                                  *)

\* Whatever a stored key was sealed from, its creation was asked for.
Kept(pk) == \A e \in EncKeys \cup {NoEnc}, k \in Keys :
                pk = Encrypt(e, k) => [enc |-> e, key |-> k] \in entrusted

EntrustInv ==
    /\ \A a \in Addresses : accounts[a] # NoRow => Kept(accounts[a].pk)
    /\ \A r \in Requests : found[r] # NoRow => Kept(found[r].pk)
    /\ \A r \in Requests : Creating(r) =>
         [enc |-> req[r].enc, key |-> req[r].address.key] \in entrusted
    /\ KeysStayEntrusted

\* Different keys, or the same one sealed by others, are stored as different bytes.
LEMMA EncryptOnce ==
    ASSUME NEW e \in EncKeys \cup {NoEnc}, NEW f \in EncKeys \cup {NoEnc},
           NEW k \in Keys, NEW l \in Keys, Encrypt(e, k) = Encrypt(f, l)
    PROVE  e = f /\ k = l
<1>1. CASE e = NoEnc \/ f = NoEnc
  BY <1>1, SealedAssumption DEF Encrypt, Sealed
<1>2. CASE e # NoEnc /\ f # NoEnc
  <2>1. [enc |-> e, key |-> k] = [enc |-> f, key |-> l]
    BY <1>2 DEF Encrypt
  <2>2. [enc |-> e, key |-> k].enc = [enc |-> f, key |-> l].enc
    BY <2>1
  <2>3. [enc |-> e, key |-> k].key = [enc |-> f, key |-> l].key
    BY <2>1
  <2> QED BY <2>2, <2>3
<1> QED BY <1>1, <1>2

LEMMA SealedIsKept ==
    ASSUME NEW e \in EncKeys \cup {NoEnc}, NEW k \in Keys, [enc |-> e, key |-> k] \in entrusted
    PROVE  Kept(Encrypt(e, k))
<1> SUFFICES ASSUME NEW f \in EncKeys \cup {NoEnc}, NEW l \in Keys, Encrypt(e, k) = Encrypt(f, l)
             PROVE  [enc |-> f, key |-> l] \in entrusted
  BY DEF Kept
<1>1. e = f /\ k = l
  BY EncryptOnce
<1> QED BY <1>1

\* Who opens a stored key has the encryption key it was sealed with.
LEMMA OpenedIsKept ==
    ASSUME NEW pk \in Stored, NEW e \in EncKeys \cup {NoEnc}, Kept(pk),
           Decrypts(e, pk), Decrypt(e, pk) \in Keys
    PROVE  [enc |-> e, key |-> Decrypt(e, pk)] \in entrusted
<1>1. CASE e = NoEnc
  BY <1>1 DEF Kept, Decrypt, Encrypt
<1>2. CASE e # NoEnc
  <2>1. pk \in Sealed /\ pk.enc = e
    BY <1>2 DEF Decrypts
  <2>2. pk = [enc |-> e, key |-> pk.key] /\ pk.key \in Keys
    BY <2>1 DEF Sealed
  <2>3. Decrypt(e, pk) = pk.key /\ pk = Encrypt(e, pk.key)
    BY <1>2, <2>1, <2>2 DEF Decrypt, Encrypt
  <2> QED BY <2>2, <2>3 DEF Kept
<1> QED BY <1>1, <1>2

\* The memory only grows, and takes in each creation as it is asked for.
LEMMA MemoryGrows ==
    ASSUME EntrustInv, [KeysNext]_<<vars, entrusted>>
    PROVE  /\ [Next]_vars /\ entrusted \subseteq entrusted'
           /\ \A pk : Kept(pk) => Kept(pk)'
           /\ (\A r \in Requests : Creating(r) =>
                 [enc |-> req[r].enc, key |-> req[r].address.key] \in entrusted)'
<1>1. CASE KeysNext
  <2>1. entrusted' = entrusted \cup Entrusts'
    BY <1>1 DEF KeysNext
  <2>2. ASSUME NEW r \in Requests, Creating(r)'
        PROVE  [enc |-> req[r].enc, key |-> req[r].address.key]' \in Entrusts'
    BY <2>2 DEF Entrusts
  <2> QED BY <1>1, <2>1, <2>2 DEF KeysNext, Kept
<1>2. CASE UNCHANGED <<vars, entrusted>>
  BY <1>2 DEF vars, Kept, Creating, EntrustInv
<1> QED BY <1>1, <1>2

LEMMA EntrustStep ==
    ASSUME TypeOK, EntrustInv, [KeysNext]_<<vars, entrusted>>
    PROVE  EntrustInv'
<1>1. /\ [Next]_vars /\ entrusted \subseteq entrusted'
      /\ \A pk : Kept(pk) => Kept(pk)'
      /\ (\A r \in Requests : Creating(r) =>
            [enc |-> req[r].enc, key |-> req[r].address.key] \in entrusted)'
  BY MemoryGrows
<1>2. (\A a \in Addresses : accounts[a] # NoRow => Kept(accounts[a].pk))'
  <2>1. ASSUME NEW r \in Requests, Stores(r)
        PROVE  \A a \in Addresses : accounts'[a] # NoRow => Kept(accounts'[a].pk)
    <3>1. req[r] \in Inputs
      BY <2>1 DEF TypeOK, Stores
    <3>2. Kept(RowOf(req[r]).pk)
      <4>1. RowOf(req[r]).pk = Encrypt(req[r].enc, req[r].address.key)
        BY DEF RowOf
      <4>2. req[r].enc \in EncKeys \cup {NoEnc} /\ req[r].address.key \in Keys
        BY <3>1 DEF Inputs, Addresses
      <4>3. [enc |-> req[r].enc, key |-> req[r].address.key] \in entrusted
        BY <2>1 DEF Stores, Creating, EntrustInv, TypeOK
      <4> QED BY <4>1, <4>2, <4>3, SealedIsKept
    <3>3. \A a \in Addresses : accounts'[a] = IF a = req[r].address THEN RowOf(req[r])
                                                                   ELSE accounts[a]
      BY <2>1 DEF Stores, TypeOK
    <3> QED BY <3>2, <3>3 DEF EntrustInv
  <2>2. ASSUME NEW A \in SUBSET Addresses,
               accounts' = [a \in Addresses |-> IF a \in A THEN NoRow ELSE accounts[a]]
        PROVE  \A a \in Addresses : accounts'[a] # NoRow => Kept(accounts'[a].pk)
    BY <2>2 DEF EntrustInv
  <2>3. ASSUME UNCHANGED accounts
        PROVE  \A a \in Addresses : accounts'[a] # NoRow => Kept(accounts'[a].pk)
    BY <2>3 DEF EntrustInv
  <2>4. \A a \in Addresses : accounts'[a] # NoRow => Kept(accounts'[a].pk)
    BY <1>1, <2>1, <2>2, <2>3, TableSteps
  <2> QED BY <1>1, <2>4
<1>3. (\A r \in Requests : found[r] # NoRow => Kept(found[r].pk))'
  <2>1. ASSUME NEW r \in Requests, SignLookup(r)
        PROVE  \A s \in Requests : found'[s] # NoRow => Kept(found'[s].pk)
    <3>1. PICK a \in Addresses : /\ accounts[a] # NoRow
                                 /\ found' = [found EXCEPT ![r] = [address |-> a, pk |-> accounts[a].pk]]
      BY <2>1 DEF SignLookup, Selected
    <3>2. Kept(accounts[a].pk)
      BY <3>1 DEF EntrustInv
    <3> QED BY <3>1, <3>2 DEF EntrustInv, TypeOK
  <2>2. ASSUME NEW r \in Requests, Leave(r)
        PROVE  \A s \in Requests : found'[s] # NoRow => Kept(found'[s].pk)
    BY <2>2 DEF Leave, EntrustInv, TypeOK
  <2>3. ASSUME UNCHANGED found
        PROVE  \A s \in Requests : found'[s] # NoRow => Kept(found'[s].pk)
    BY <2>3 DEF EntrustInv
  <2>4. \A s \in Requests : found'[s] # NoRow => Kept(found'[s].pk)
    BY <1>1, <2>1, <2>2, <2>3, FoundSteps
  <2> QED BY <1>1, <2>4
<1>4. KeysStayEntrusted'
  <2>1. ASSUME NEW r \in Requests, NEW a, Answer(r, a), UNCHANGED req,
               \A k \in Disclosed(a) : [enc |-> req[r].enc, key |-> k] \in entrusted
        PROVE  KeysStayEntrusted'
    <3>1. ASSUME NEW s \in Requests, NEW k \in Disclosed(answer'[s])
          PROVE  [enc |-> req[s].enc, key |-> k] \in entrusted
      <4>1. CASE s = r
        BY <2>1, <3>1, <4>1 DEF Answer, TypeOK
      <4>2. CASE s # r
        BY <2>1, <3>1, <4>2 DEF Answer, TypeOK, EntrustInv, KeysStayEntrusted
      <4> QED BY <4>1, <4>2
    <3> QED BY <1>1, <2>1, <3>1 DEF KeysStayEntrusted, Disclosed
  <2>2. ASSUME NEW r \in Requests, SignPayload(r) PROVE KeysStayEntrusted'
    <3> DEFINE bytes == Decrypt(req[r].enc, found[r].pk)
               opens == Decrypts(req[r].enc, found[r].pk) /\ Signable(bytes)
               a == IF opens THEN [kind |-> "signature", by |-> bytes] ELSE [kind |-> "unsigned"]
    <3>1. req[r] \in Inputs /\ found[r] \in Finds /\ found[r] # NoRow
      BY <2>2 DEF SignPayload, TypeOK
    <3>2. opens => [enc |-> req[r].enc, key |-> bytes] \in entrusted
      BY <3>1, OpenedIsKept DEF EntrustInv, Signable, Inputs, Finds
    <3>3. Disclosed(a) = IF opens THEN {bytes} ELSE {}
      BY DEF Disclosed
    <3>4. Answer(r, a) /\ UNCHANGED req
      BY <2>2 DEF SignPayload
    <3> HIDE DEF a
    <3> QED BY <2>1, <3>2, <3>3, <3>4
  <2>3. ASSUME NEW r \in Requests, Export(r) PROVE KeysStayEntrusted'
    <3> DEFINE all == Listed(req[r])
               bad == {b \in all : ~ Decrypts(req[r].enc, accounts[b].pk)}
               pks(of) == {Decrypt(req[r].enc, accounts[b].pk) : b \in of \ bad}
    <3>1. PICK of \in Printed(all, bad) : Answer(r, [kind |-> "export", of |-> of, pks |-> pks(of)])
      BY <2>3 DEF Export
    <3>2. of \subseteq all /\ req[r] \in Inputs
      BY <2>3 DEF Printed, Export, TypeOK
    <3>3. ASSUME NEW b \in of \ bad, Decrypt(req[r].enc, accounts[b].pk) \in Keys
          PROVE  [enc |-> req[r].enc, key |-> Decrypt(req[r].enc, accounts[b].pk)] \in entrusted
      <4>1. b \in Addresses /\ accounts[b] # NoRow /\ Decrypts(req[r].enc, accounts[b].pk)
        BY <3>2 DEF Listed
      <4>2. accounts[b].pk \in Stored /\ Kept(accounts[b].pk)
        BY <4>1 DEF TypeOK, Rows, EntrustInv
      <4> QED BY <3>2, <3>3, <4>1, <4>2, OpenedIsKept DEF Inputs
    <3>4. \A k \in pks(of) \cap Keys : [enc |-> req[r].enc, key |-> k] \in entrusted
      BY <3>3
    <3> HIDE DEF pks
    <3>5. Disclosed([kind |-> "export", of |-> of, pks |-> pks(of)]) = pks(of) \cap Keys
      BY DEF Disclosed
    <3> QED BY <2>1, <2>3, <3>1, <3>4, <3>5 DEF Export
  <2>4. ASSUME NEW r \in Requests, NEW q \in Inputs, Begin(r, q) PROVE KeysStayEntrusted'
    <3>1. answer' = answer /\ Disclosed(answer[r]) = {}
      BY <2>4 DEF Begin, TypeOK, NoAnswer, Disclosed
    <3>2. \A s \in Requests : req'[s] = req[s] \/ s = r
      BY <2>4 DEF Begin, TypeOK
    <3> QED BY <1>1, <3>1, <3>2 DEF EntrustInv, KeysStayEntrusted, Disclosed
  <2>5. ASSUME NEW r \in Requests, Leave(r) PROVE KeysStayEntrusted'
    <3>1. Disclosed(answer'[r]) = {}
      BY <2>5 DEF Leave, TypeOK, NoAnswer, Disclosed
    <3>2. \A s \in Requests : (req'[s] = req[s] /\ answer'[s] = answer[s]) \/ s = r
      BY <2>5 DEF Leave, TypeOK
    <3> QED BY <1>1, <3>1, <3>2 DEF EntrustInv, KeysStayEntrusted, Disclosed
  <2>6. ASSUME NEW r \in Requests, NEW a, Answer(r, a), UNCHANGED req,
               a.kind \notin {"signature", "export"}
        PROVE  KeysStayEntrusted'
    <3>1. Disclosed(a) = {}
      BY <2>6 DEF Disclosed
    <3> QED BY <2>1, <2>6, <3>1
  <2>7. ASSUME NEW r \in Requests, DbFails(r) \/ Store(r) \/ Refuse(r) \/ NotFound(r)
        PROVE  KeysStayEntrusted'
    BY <2>6, <2>7 DEF DbFails, Store, Refuse, NotFound
  <2>8. ASSUME NEW r \in Requests, GetAccount(r) \/ ListAccounts(r) PROVE KeysStayEntrusted'
    BY <2>6, <2>8 DEF GetAccount, ListAccounts
  <2>9. ASSUME UNCHANGED <<req, answer>> PROVE KeysStayEntrusted'
    BY <1>1, <2>9 DEF EntrustInv, KeysStayEntrusted, Disclosed
  <2>10. ASSUME NEW r \in Requests, UpdateNoRow(r) \/ SignLookup(r) PROVE KeysStayEntrusted'
    BY <2>9, <2>10 DEF UpdateNoRow, SignLookup
  <2>11. ASSUME NEW A \in SUBSET Addresses, Delete(A) PROVE KeysStayEntrusted'
    BY <2>9, <2>11 DEF Delete
  <2>12. ASSUME UNCHANGED vars PROVE KeysStayEntrusted'
    BY <2>9, <2>12 DEF vars
  <2> QED BY <1>1, <2>2, <2>3, <2>4, <2>5, <2>7, <2>8, <2>10, <2>11, <2>12
          DEF Next, Request, UpdateRow, UpdateRefused, InsertRow, InsertRefused
<1> QED BY <1>1, <1>2, <1>3, <1>4 DEF EntrustInv

\* Sharing the table gives nobody a key: a process signs with a private key, or
\* prints it in the clear, only if some process with the same -enckey was asked to
\* create its account, whatever is imported, deleted or re-encrypted meanwhile.
THEOREM KeysStayWithTheirOwners == KeysSpec => []KeysStayEntrusted
<1>1. KeysInit => TypeOK /\ EntrustInv
  <2> SUFFICES ASSUME KeysInit PROVE TypeOK /\ EntrustInv
    OBVIOUS
  <2>1. TypeOK
    BY TypeInit DEF KeysInit
  <2> QED BY <2>1 DEF KeysInit, Init, EntrustInv, Creating, KeysStayEntrusted, Disclosed, NoAnswer
<1>2. TypeOK /\ EntrustInv /\ [KeysNext]_<<vars, entrusted>> => TypeOK' /\ EntrustInv'
  BY TypeStep, EntrustStep, MemoryGrows
<1>3. EntrustInv => KeysStayEntrusted
  BY DEF EntrustInv
<1> QED BY <1>1, <1>2, <1>3, PTL DEF KeysSpec
=============================================================================
