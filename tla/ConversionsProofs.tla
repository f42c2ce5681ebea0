------------------------- MODULE ConversionsProofs -------------------------
(***************************************************************************)
(* What the conversions keep on journeys of any length, for all names,     *)
(* texts, numbers and blocks: chains, currencies within a chain, and       *)
(* currencies of all chains but the tokens of a MAINNET; numbers, in hex,  *)
(* bytes and quantities; the fields of JSON objects; the moves of a block  *)
(* and the identities of its transfers.                                    *)
(*                                                                         *)
(* What a recursive function computes is found by induction: a set of      *)
(* numbers that holds 0 and, with a number, the next, holds all, since     *)
(* each set of numbers that is not empty has a least one.                  *)
(***************************************************************************)
EXTENDS Conversions, FiniteSetTheorems, SequenceTheorems, WellFoundedInduction, TLAPS

\* Texts of one to four parts, and what concatenation makes of their pieces.
LEMMA PartsAreSeqs ==
    ASSUME NEW h \in Parts, NEW n \in Parts, NEW a \in Parts, NEW k \in Parts
    PROVE  /\ <<h>> \in Seq(Parts) /\ <<h, n>> \in Seq(Parts)
           /\ <<h, n, a>> \in Seq(Parts) /\ <<h, n, a, k>> \in Seq(Parts)
           /\ Len(<<h>>) = 1 /\ Len(<<h, n>>) = 2
           /\ Len(<<h, n, a>>) = 3 /\ Len(<<h, n, a, k>>) = 4
OBVIOUS

LEMMA SameSeq ==
    ASSUME NEW s \in Seq(Parts), NEW t \in Seq(Parts), NEW l \in Nat,
           Len(s) = l, Len(t) = l, \A i \in 1..l : s[i] = t[i]
    PROVE  s = t
BY SeqEqual

LEMMA Joined ==
    ASSUME NEW h \in Parts, NEW n \in Parts, NEW a \in Parts
    PROVE  /\ <<h>> \o <<>> = <<h>> /\ <<h, n>> \o <<>> = <<h, n>>
           /\ <<h>> \o <<a>> = <<h, a>>
           /\ <<h, n>> \o <<a>> = <<h, n, a>>
<1>1. <<h>> \o <<>> = <<h>> /\ <<h, n>> \o <<>> = <<h, n>>
  BY PartsAreSeqs, ConcatEmptySeq
<1>2. <<h>> \o <<a>> = <<h, a>>
  <2> DEFINE s == <<h>> \o <<a>>
             t == <<h, a>>
  <2>1. /\ s \in Seq(Parts) /\ Len(s) = 2
        /\ \A i \in 1..2 : s[i] = IF i <= 1 THEN <<h>>[i] ELSE <<a>>[i - 1]
    BY PartsAreSeqs, ConcatProperties
  <2>2. \A i \in 1..2 : s[i] = t[i]
    BY <2>1
  <2>3. t \in Seq(Parts) /\ Len(t) = 2 BY PartsAreSeqs
  <2> HIDE DEF s, t
  <2>4. s = t BY <2>1, <2>2, <2>3, SameSeq
  <2> QED BY <2>4 DEF s, t
<1>3. <<h, n>> \o <<a>> = <<h, n, a>>
  <2> DEFINE s == <<h, n>> \o <<a>>
             t == <<h, n, a>>
  <2>1. /\ s \in Seq(Parts) /\ Len(s) = 3
        /\ \A i \in 1..3 : s[i] = IF i <= 2 THEN <<h, n>>[i] ELSE <<a>>[i - 2]
    BY PartsAreSeqs, ConcatProperties
  <2>2. \A i \in 1..3 : s[i] = t[i]
    BY <2>1
  <2>3. t \in Seq(Parts) /\ Len(t) = 3 BY PartsAreSeqs
  <2> HIDE DEF s, t
  <2>4. s = t BY <2>1, <2>2, <2>3, SameSeq
  <2> QED BY <2>4 DEF s, t
<1> QED BY <1>1, <1>2, <1>3

LEMMA JoinedToken ==
    ASSUME NEW h \in Parts, NEW a \in Parts, NEW k \in Parts
    PROVE  <<h>> \o <<a, k>> = <<h, a, k>>
<1> DEFINE s == <<h>> \o <<a, k>>
           t == <<h, a, k>>
<1>1. /\ s \in Seq(Parts) /\ Len(s) = 3
      /\ \A i \in 1..3 : s[i] = IF i <= 1 THEN <<h>>[i] ELSE <<a, k>>[i - 1]
  BY PartsAreSeqs, ConcatProperties
<1>2. \A i \in 1..3 : s[i] = t[i]
  BY <1>1
<1>3. t \in Seq(Parts) /\ Len(t) = 3 BY PartsAreSeqs
<1> HIDE DEF s, t
<1>4. s = t BY <1>1, <1>2, <1>3, SameSeq
<1> QED BY <1>4 DEF s, t

LEMMA JoinedNetworkToken ==
    ASSUME NEW h \in Parts, NEW n \in Parts, NEW a \in Parts, NEW k \in Parts
    PROVE  <<h, n>> \o <<a, k>> = <<h, n, a, k>>
<1> DEFINE s == <<h, n>> \o <<a, k>>
           t == <<h, n, a, k>>
<1>1. /\ s \in Seq(Parts) /\ Len(s) = 4
      /\ \A i \in 1..4 : s[i] = IF i <= 2 THEN <<h, n>>[i] ELSE <<a, k>>[i - 2]
  BY PartsAreSeqs, ConcatProperties
<1>2. \A i \in 1..4 : s[i] = t[i]
  BY <1>1
<1>3. t \in Seq(Parts) /\ Len(t) = 4 BY PartsAreSeqs
<1> HIDE DEF s, t
<1>4. s = t BY <1>1, <1>2, <1>3, SameSeq
<1> QED BY <1>4 DEF s, t

\* What starts a journey as a text is one.
LEMMA StartsAreTexts ==
    ASSUME NEW n \in Nat, NEW t \in TextsUpTo(n, Parts)
    PROVE  t \in Seq(Parts)
BY DEF TextsUpTo

-----------------------------------------------------------------------------

\* A currency of a chain is read as what was printed.
LEMMA PrintedTokenIsRead ==
    ASSUME NEW c \in UChainCurrencyId
    PROVE  /\ ChainCurrencyString(c) \in Seq(Parts)
           /\ IsChainCurrency(ChainCurrencyString(c))
           /\ ChainCurrencyFromString(ChainCurrencyString(c)) = c
<1>1. c.address \in Parts /\ c.token \in Parts /\ c = [address |-> c.address, token |-> c.token]
  BY DEF UChainCurrencyId
<1>2. CASE c.token = Empty
  <2>1. ChainCurrencyString(c) = <<c.address>> BY <1>2, Joined DEF ChainCurrencyString
  <2>2. ChainCurrencyFromString(<<c.address>>) = c
    BY <1>1, <1>2 DEF ChainCurrencyFromString
  <2> QED BY <1>1, <2>1, <2>2, PartsAreSeqs DEF IsChainCurrency
<1>3. CASE c.token # Empty
  <2>1. ChainCurrencyString(c) = <<c.address, c.token>>
    <3>1. ChainCurrencyString(c) = <<c.address>> \o <<c.token>>
      BY <1>3 DEF ChainCurrencyString
    <3> QED BY <1>1, <3>1, Joined, Zenon
  <2>2. ChainCurrencyFromString(<<c.address, c.token>>) = c
    BY <1>1 DEF ChainCurrencyFromString
  <2> QED BY <1>1, <2>1, <2>2, PartsAreSeqs DEF IsChainCurrency
<1> QED BY <1>2, <1>3

LEMMA ReadTokenType ==
    ASSUME NEW t \in Seq(Parts), IsChainCurrency(t)
    PROVE  ChainCurrencyFromString(t) \in UChainCurrencyId
BY PartsAssumption DEF IsChainCurrency, ChainCurrencyFromString, UChainCurrencyId

\* The forms of a token are read and printed without loss.
TokenInv ==
    /\ form = "token" => value \in UChainCurrencyId /\ value = meaning
    /\ form = "tokenText" => /\ value \in Seq(Parts) /\ IsChainCurrency(value)
                             /\ ChainCurrencyFromString(value) = meaning

\* No other conversion makes a token or its text.
LEMMA TokenActions ==
    ASSUME Next
    PROVE  ParseToken \/ PrintToken \/ form' \notin {"token", "tokenText"}
BY DEF Next, ParseCurrency, PrintCurrency, NormCurrency, ParseChain, PrintChain, PrintProto,
       NormChain, ReadHex, PrintHex, Fix, ReadQuantity, PrintQuantity, Pad, Trim,
       ReadUint256, MakeUint256, ReadJson, ConvertBlock, Step

LEMMA TokenInvHolds == Spec => []TokenInv
<1>1. Init => TokenInv
  <2> SUFFICES ASSUME Init PROVE TokenInv OBVIOUS
  <2>1. form = "token" => value \in UChainCurrencyId /\ value = meaning
    BY DEF Init, Starts, Meaning
  <2>2. ASSUME form = "tokenText"
        PROVE  /\ value \in Seq(Parts) /\ IsChainCurrency(value)
               /\ ChainCurrencyFromString(value) = meaning
    <3>1. value \in TextsUpTo(MaxParts, Parts) /\ IsChainCurrency(value)
      BY <2>2 DEF Init, Starts
    <3>2. meaning = ChainCurrencyFromString(value) BY <2>2 DEF Init, Meaning
    <3> QED BY <3>1, <3>2, BoundsAssumption, StartsAreTexts
  <2> QED BY <2>1, <2>2 DEF TokenInv
<1>2. TokenInv /\ [Next]_vars => TokenInv'
  <2> SUFFICES ASSUME TokenInv, [Next]_vars PROVE TokenInv' OBVIOUS
  <2>1. CASE ParseToken
    BY <2>1, ReadTokenType DEF ParseToken, Step, TokenInv
  <2>2. CASE PrintToken
    BY <2>2, PrintedTokenIsRead DEF PrintToken, Step, TokenInv
  <2>3. CASE form' \notin {"token", "tokenText"}
    BY <2>3 DEF TokenInv
  <2>4. CASE UNCHANGED vars
    BY <2>4 DEF TokenInv, vars
  <2> QED BY <2>1, <2>2, <2>3, <2>4, TokenActions
<1> QED BY <1>1, <1>2, PTL DEF Spec

\* Currencies within a chain keep their identity, whatever is read and printed
\* in between (UChainCurrencyIdromString and UChainCurrencyId.String).
THEOREM TokensKept == Spec => []TokenKept
<1>1. TokenInv => TokenKept
  BY DEF TokenInv, TokenKept, Meaning
<1> QED BY <1>1, TokenInvHolds, PTL

-----------------------------------------------------------------------------

LEMMA NormalizeType ==
    ASSUME NEW c \in UChainId
    PROVE  /\ Normalize(c) \in UChainId
           /\ Normalize(Normalize(c)) = Normalize(c)
           /\ NetworkOf(Empty) = Empty
<1>1. c.type \in Parts /\ c.network \in Parts BY DEF UChainId
<1>2. /\ Upper[c.type] \in Parts /\ Upper[c.network] \in Parts
      /\ Upper[Upper[c.type]] = Upper[c.type] /\ Upper[Upper[c.network]] = Upper[c.network]
  BY <1>1, UpperAssumption
<1>3. Upper[Empty] = Empty BY PartsAssumption, UpperAssumption
<1>4. NetworkOf(Empty) = Empty BY <1>3, PartsAssumption DEF NetworkOf
<1>5. /\ NetworkOf(c.network) \in Parts
      /\ NetworkOf(NetworkOf(c.network)) = NetworkOf(c.network)
  BY <1>2, <1>3, PartsAssumption DEF NetworkOf
<1> QED BY <1>2, <1>4, <1>5 DEF Normalize, UChainId

\* A chain is read as what was printed, up to MAINNET and case.
LEMMA PrintedChainIsRead ==
    ASSUME NEW c \in UChainId
    PROVE  /\ UChainIdString(c) \in Seq(Parts) /\ ChainIdToString(c) \in Seq(Parts)
           /\ Len(UChainIdString(c)) >= 1 /\ Len(ChainIdToString(c)) >= 1
           /\ Normalize(StringToChainId(UChainIdString(c))) = Normalize(c)
           /\ StringToChainId(ChainIdToString(c)) = c
<1>1. /\ c.type \in Parts /\ c.network \in Parts
      /\ c = [type |-> c.type, network |-> c.network]
  BY DEF UChainId
<1>2. StringToChainId(<<c.type, c.network>>) = c BY <1>1 DEF StringToChainId
<1>3. /\ ChainIdToString(c) \in Seq(Parts) /\ Len(ChainIdToString(c)) >= 1
      /\ StringToChainId(ChainIdToString(c)) = c
  BY <1>1, <1>2, PartsAreSeqs DEF ChainIdToString
<1>4. CASE c.network # Empty
  <2>1. UChainIdString(c) = <<c.type, c.network>> BY <1>4 DEF UChainIdString
  <2> QED BY <1>1, <1>2, <1>3, <2>1, PartsAreSeqs
<1>5. CASE c.network = Empty
  <2>1. UChainIdString(c) = <<c.type>> BY <1>5 DEF UChainIdString
  <2>2. StringToChainId(<<c.type>>) = [type |-> c.type, network |-> MAINNET]
    BY DEF StringToChainId
  <2>3. NetworkOf(MAINNET) = Empty /\ NetworkOf(c.network) = Empty
    BY <1>5, NormalizeType, UpperAssumption DEF NetworkOf
  <2>4. Normalize([type |-> c.type, network |-> MAINNET]) = Normalize(c)
    BY <2>3 DEF Normalize
  <2> QED BY <1>1, <1>3, <2>1, <2>2, <2>4, PartsAreSeqs
<1> QED BY <1>4, <1>5

LEMMA ReadChainType ==
    ASSUME NEW t \in Seq(Parts), Len(t) >= 1
    PROVE  StringToChainId(t) \in UChainId
BY PartsAssumption DEF StringToChainId, UChainId

ChainInv ==
    /\ form = "chain" => value \in UChainId /\ Normalize(value) = meaning
    /\ form = "chainText" => /\ value \in Seq(Parts) /\ Len(value) >= 1
                             /\ Normalize(StringToChainId(value)) = meaning

LEMMA ChainActions ==
    ASSUME Next
    PROVE  \/ ParseChain \/ PrintChain \/ PrintProto \/ NormChain
           \/ form' \notin {"chain", "chainText"}
BY DEF Next, ParseCurrency, PrintCurrency, NormCurrency, ParseToken, PrintToken, ReadHex,
       PrintHex, Fix, ReadQuantity, PrintQuantity, Pad, Trim, ReadUint256, MakeUint256,
       ReadJson, ConvertBlock, Step

LEMMA ChainInvHolds == Spec => []ChainInv
<1>1. Init => ChainInv
  <2> SUFFICES ASSUME Init PROVE ChainInv OBVIOUS
  <2>1. form # "chainText" BY DEF Init
  <2>2. form = "chain" => value \in UChainId /\ Normalize(value) = meaning
    BY DEF Init, Starts, Meaning
  <2> QED BY <2>1, <2>2 DEF ChainInv
<1>2. ChainInv /\ [Next]_vars => ChainInv'
  <2> SUFFICES ASSUME ChainInv, [Next]_vars PROVE ChainInv' OBVIOUS
  <2>1. CASE ParseChain
    BY <2>1, ReadChainType DEF ParseChain, Step, ChainInv
  <2>2. CASE PrintChain
    <3>1. form = "chain" /\ form' = "chainText" /\ value' = UChainIdString(value) /\ meaning' = meaning
      BY <2>2 DEF PrintChain, Step
    <3> QED BY <3>1, PrintedChainIsRead DEF ChainInv
  <2>3. CASE PrintProto
    <3>1. form = "chain" /\ form' = "chainText" /\ value' = ChainIdToString(value) /\ meaning' = meaning
      BY <2>3 DEF PrintProto, Step
    <3> QED BY <3>1, PrintedChainIsRead DEF ChainInv
  <2>4. CASE NormChain
    BY <2>4, NormalizeType DEF NormChain, Step, ChainInv
  <2>5. CASE form' \notin {"chain", "chainText"}
    BY <2>5 DEF ChainInv
  <2>6. CASE UNCHANGED vars
    BY <2>6 DEF ChainInv, vars
  <2> QED BY <2>1, <2>2, <2>3, <2>4, <2>5, <2>6, ChainActions
<1> QED BY <1>1, <1>2, PTL DEF Spec

\* Chains keep their identity between UChainId, proto.ChainId and their texts
\* (Normalize, UChainId.String, ChainIdToString and StringToChainId).
THEOREM ChainsKept == Spec => []ChainKept
<1>1. ChainInv => ChainKept
  BY DEF ChainInv, ChainKept, Meaning
<1> QED BY <1>1, ChainInvHolds, PTL

-----------------------------------------------------------------------------

NormalCurrency(c) == c \in UCurrencyId /\ c.chain = Normalize(c.chain)

LEMMA ReadCurrencyIsNormal ==
    ASSUME NEW t \in Seq(Parts), IsCurrency(t)
    PROVE  /\ NormalCurrency(CurrencyFromString(t))
           /\ NormalizeCurrency(CurrencyFromString(t)) = CurrencyFromString(t)
<1> DEFINE n == IF Len(t) >= 2 THEN t[2] ELSE Empty
           a == IF Len(t) >= 3 THEN t[3] ELSE Empty
           k == IF Len(t) = 4 THEN t[4] ELSE Empty
<1>1. t[1] \in Parts /\ n \in Parts /\ a \in Parts /\ k \in Parts
  BY PartsAssumption DEF IsCurrency
<1>2. [type |-> t[1], network |-> n] \in UChainId BY <1>1 DEF UChainId
<1>3. (IF Len(t) >= 2 THEN NetworkOf(t[2]) ELSE Empty) = NetworkOf(n)
  BY <1>2, NormalizeType
<1> HIDE DEF n
<1>4. CurrencyFromString(t) = [chain |-> Normalize([type |-> t[1], network |-> n]),
                               id    |-> [address |-> a, token |-> k]]
  BY <1>3 DEF CurrencyFromString, Normalize
<1> HIDE DEF a, k
<1>5. [address |-> a, token |-> k] \in UChainCurrencyId BY <1>1 DEF UChainCurrencyId
<1>6. CurrencyFromString(t) \in UCurrencyId
  BY <1>2, <1>4, <1>5, NormalizeType DEF UCurrencyId
<1>7. Normalize(CurrencyFromString(t).chain) = CurrencyFromString(t).chain
  BY <1>2, <1>4, NormalizeType
<1> QED BY <1>4, <1>6, <1>7 DEF NormalCurrency, NormalizeCurrency

\* What is printed is a currency text, and is read as the same currency unless
\* it is a token of a MAINNET, whose network is not printed.
LEMMA PrintedCurrencyIsRead ==
    ASSUME NEW h \in Parts, NEW n \in Parts, NEW a \in Parts, NEW k \in Parts,
           Upper[h] = h, NetworkOf(n) = n,
           NEW c, c = [chain |-> [type |-> h, network |-> n],
                       id    |-> [address |-> a, token |-> k]]
    PROVE  /\ CurrencyString(c) \in Seq(Parts) /\ IsCurrency(CurrencyString(c))
           /\ ~ MainnetToken(c) => CurrencyFromString(CurrencyString(c)) = c
<1>1. /\ UChainIdString(c.chain) = IF n = Empty THEN <<h>> ELSE <<h, n>>
      /\ ChainCurrencyString(c.id) = IF k = Empty THEN <<a>> ELSE <<a, k>>
  BY Joined DEF UChainIdString, ChainCurrencyString
<1>2. MainnetToken(c) <=> n = Empty /\ ~ (a = Empty /\ k = Empty)
  BY DEF MainnetToken
<1>3. /\ IsCurrency(<<h>>) /\ IsCurrency(<<h, n>>) /\ IsCurrency(<<h, a>>)
      /\ IsCurrency(<<h, a, k>>) /\ IsCurrency(<<h, n, a>>) /\ IsCurrency(<<h, n, a, k>>)
  BY PartsAreSeqs DEF IsCurrency
<1>4. CASE a = Empty /\ k = Empty
  <2>1. ChainCurrencyString(c.id) = <<Empty>> BY <1>1, <1>4
  <2>2. CASE n = Empty
    <3>1. CurrencyString(c) = <<h>> BY <1>1, <2>1, <2>2, Joined DEF CurrencyString
    <3>2. CurrencyFromString(<<h>>) = c
      BY <1>4, <2>2, PartsAreSeqs DEF CurrencyFromString
    <3>3. <<h>> \in Seq(Parts) /\ IsCurrency(<<h>>) BY <1>3, PartsAreSeqs
    <3> QED BY <3>1, <3>2, <3>3, Zenon
  <2>3. CASE n # Empty
    <3>1. CurrencyString(c) = <<h, n>> BY <1>1, <2>1, <2>3, Joined DEF CurrencyString
    <3>2. CurrencyFromString(<<h, n>>) = c
      BY <1>4, PartsAreSeqs DEF CurrencyFromString
    <3>3. <<h, n>> \in Seq(Parts) /\ IsCurrency(<<h, n>>) BY <1>3, PartsAreSeqs
    <3> QED BY <3>1, <3>2, <3>3, Zenon
  <2> QED BY <2>2, <2>3
<1>5. CASE ~ (a = Empty /\ k = Empty) /\ k = Empty
  <2>1. ChainCurrencyString(c.id) = <<a>> /\ <<a>> # <<Empty>> BY <1>1, <1>5
  <2>2. CurrencyString(c) = UChainIdString(c.chain) \o <<a>> BY <2>1 DEF CurrencyString
  <2>3. CASE n = Empty
    <3>1. UChainIdString(c.chain) = <<h>> BY <1>1, <2>3
    <3>2. CurrencyString(c) = <<h, a>>
      <4>1. <<h>> \o <<a>> = <<h, a>> BY Joined
      <4> QED BY <2>2, <3>1, <4>1
    <3>3. MainnetToken(c) BY <1>2, <1>5, <2>3
    <3>4. <<h, a>> \in Seq(Parts) /\ IsCurrency(<<h, a>>) BY <1>3, PartsAreSeqs
    <3> QED BY <3>2, <3>3, <3>4
  <2>4. CASE n # Empty
    <3>1. UChainIdString(c.chain) = <<h, n>> BY <1>1, <2>4
    <3>2. CurrencyString(c) = <<h, n, a>>
      <4>1. <<h, n>> \o <<a>> = <<h, n, a>> BY Joined
      <4> QED BY <2>2, <3>1, <4>1
    <3>3. CurrencyFromString(<<h, n, a>>) = c
      BY <1>5, PartsAreSeqs DEF CurrencyFromString
    <3>4. <<h, n, a>> \in Seq(Parts) /\ IsCurrency(<<h, n, a>>) BY <1>3, PartsAreSeqs
    <3> QED BY <3>2, <3>3, <3>4, Zenon
  <2> QED BY <2>3, <2>4
<1>6. CASE k # Empty
  <2>1. ChainCurrencyString(c.id) = <<a, k>> BY <1>1, <1>6
  <2>2. <<a, k>> # <<Empty>> OBVIOUS
  <2>3. CurrencyString(c) = UChainIdString(c.chain) \o <<a, k>>
    BY <2>1, <2>2 DEF CurrencyString
  <2>4. CASE n = Empty
    <3>1. UChainIdString(c.chain) = <<h>> BY <1>1, <2>4
    <3>2. CurrencyString(c) = <<h, a, k>>
      <4>1. <<h>> \o <<a, k>> = <<h, a, k>> BY JoinedToken
      <4> QED BY <2>3, <3>1, <4>1
    <3>3. MainnetToken(c) BY <1>2, <1>6, <2>4
    <3>4. <<h, a, k>> \in Seq(Parts) /\ IsCurrency(<<h, a, k>>) BY <1>3, PartsAreSeqs
    <3> QED BY <3>2, <3>3, <3>4
  <2>5. CASE n # Empty
    <3>1. UChainIdString(c.chain) = <<h, n>> BY <1>1, <2>5
    <3>2. CurrencyString(c) = <<h, n, a, k>>
      <4>1. <<h, n>> \o <<a, k>> = <<h, n, a, k>> BY JoinedNetworkToken
      <4> QED BY <2>3, <3>1, <4>1
    <3>3. CurrencyFromString(<<h, n, a, k>>) = c
      BY PartsAreSeqs DEF CurrencyFromString
    <3>4. <<h, n, a, k>> \in Seq(Parts) /\ IsCurrency(<<h, n, a, k>>) BY <1>3, PartsAreSeqs
    <3> QED BY <3>2, <3>3, <3>4, Zenon
  <2> QED BY <2>4, <2>5
<1> QED BY <1>4, <1>5, <1>6

LEMMA NormalCurrencyParts ==
    ASSUME NEW c, NormalCurrency(c)
    PROVE  /\ CurrencyString(c) \in Seq(Parts) /\ IsCurrency(CurrencyString(c))
           /\ ~ MainnetToken(c) => CurrencyFromString(CurrencyString(c)) = c
<1>1. PICK h \in Parts, n \in Parts, a \in Parts, k \in Parts :
        c = [chain |-> [type |-> h, network |-> n], id |-> [address |-> a, token |-> k]]
  BY DEF NormalCurrency, UCurrencyId, UChainId, UChainCurrencyId
<1>2. Upper[h] = h /\ NetworkOf(n) = n BY <1>1 DEF NormalCurrency, Normalize
<1> QED BY <1>1, <1>2, PrintedCurrencyIsRead

\* The exception is no accident of an instance: no token of a MAINNET is read
\* as itself.  The text has the address where a network belongs, and the reader
\* finds no address, or no token (currency.go:45-71, 88-98).
THEOREM MainnetTokensAreLost ==
    ASSUME NEW c, NormalCurrency(c), MainnetToken(c)
    PROVE  CurrencyFromString(CurrencyString(c)) # c
<1>1. PICK h \in Parts, n \in Parts, a \in Parts, k \in Parts :
        c = [chain |-> [type |-> h, network |-> n], id |-> [address |-> a, token |-> k]]
  BY DEF NormalCurrency, UCurrencyId, UChainId, UChainCurrencyId
<1>2. n = Empty /\ ~ (a = Empty /\ k = Empty)
  BY <1>1 DEF MainnetToken
<1>3. /\ UChainIdString(c.chain) = <<h>>
      /\ ChainCurrencyString(c.id) = IF k = Empty THEN <<a>> ELSE <<a, k>>
  BY <1>1, <1>2, Joined DEF UChainIdString, ChainCurrencyString
<1>4. CASE k = Empty
  <2>1. a # Empty /\ ChainCurrencyString(c.id) = <<a>>
    BY <1>2, <1>3, <1>4
  <2>2. <<a>> # <<Empty>> /\ <<h>> \o <<a>> = <<h, a>>
    BY <2>1, Joined
  <2>3. CurrencyString(c) = <<h, a>>
    BY <1>3, <2>1, <2>2 DEF CurrencyString
  <2>4. CurrencyFromString(<<h, a>>).id.address = Empty
    BY DEF CurrencyFromString
  <2> QED BY <1>1, <2>1, <2>3, <2>4
<1>5. CASE k # Empty
  <2>1. ChainCurrencyString(c.id) = <<a, k>>
    BY <1>3, <1>5
  <2>2. <<a, k>> # <<Empty>> /\ <<h>> \o <<a, k>> = <<h, a, k>>
    BY JoinedToken
  <2>3. CurrencyString(c) = <<h, a, k>>
    BY <1>3, <2>1, <2>2 DEF CurrencyString
  <2>4. CurrencyFromString(<<h, a, k>>).id.token = Empty
    BY DEF CurrencyFromString
  <2> QED BY <1>1, <1>5, <2>3, <2>4
<1> QED BY <1>4, <1>5

CurrencyInv ==
    /\ form = "currency" => /\ NormalCurrency(value)
                            /\ ~ MainnetToken(meaning) => value = meaning
    /\ form = "currencyText" =>
         /\ value \in Seq(Parts) /\ IsCurrency(value)
         /\ ~ MainnetToken(meaning) => CurrencyFromString(value) = meaning

LEMMA CurrencyActions ==
    ASSUME Next
    PROVE  \/ ParseCurrency \/ PrintCurrency \/ NormCurrency
           \/ form' \notin {"currency", "currencyText"}
BY DEF Next, ParseToken, PrintToken, ParseChain, PrintChain, PrintProto, NormChain, ReadHex,
       PrintHex, Fix, ReadQuantity, PrintQuantity, Pad, Trim, ReadUint256, MakeUint256,
       ReadJson, ConvertBlock, Step

LEMMA CurrencyInvHolds == Spec => []CurrencyInv
<1>1. Init => CurrencyInv
  <2> SUFFICES ASSUME Init PROVE CurrencyInv OBVIOUS
  <2>1. form # "currency" BY DEF Init
  <2>2. ASSUME form = "currencyText"
        PROVE  /\ value \in Seq(Parts) /\ IsCurrency(value)
               /\ CurrencyFromString(value) = meaning
    <3>1. value \in TextsUpTo(MaxParts, Parts) /\ IsCurrency(value)
      BY <2>2 DEF Init, Starts
    <3>2. meaning = NormalizeCurrency(CurrencyFromString(value))
      BY <2>2 DEF Init, Meaning
    <3> QED BY <3>1, <3>2, BoundsAssumption, StartsAreTexts, ReadCurrencyIsNormal
  <2> QED BY <2>1, <2>2 DEF CurrencyInv
<1>2. CurrencyInv /\ [Next]_vars => CurrencyInv'
  <2> SUFFICES ASSUME CurrencyInv, [Next]_vars PROVE CurrencyInv' OBVIOUS
  <2>1. CASE ParseCurrency
    BY <2>1, ReadCurrencyIsNormal DEF ParseCurrency, Step, CurrencyInv
  <2>2. CASE PrintCurrency
    BY <2>2, NormalCurrencyParts DEF PrintCurrency, Step, CurrencyInv
  <2>3. CASE NormCurrency
    <3>1. NormalizeCurrency(value) = value
      BY <2>3 DEF NormCurrency, Step, CurrencyInv, NormalCurrency, NormalizeCurrency, UCurrencyId
    <3> QED BY <2>3, <3>1 DEF NormCurrency, Step, CurrencyInv
  <2>4. CASE form' \notin {"currency", "currencyText"}
    BY <2>4 DEF CurrencyInv
  <2>5. CASE UNCHANGED vars
    BY <2>5 DEF CurrencyInv, vars
  <2> QED BY <2>1, <2>2, <2>3, <2>4, <2>5, CurrencyActions
<1> QED BY <1>1, <1>2, PTL DEF Spec

\* Currencies keep their identity through reading, printing and normalising,
\* within a chain and, but for the tokens of a MAINNET, among all chains
\* (UCurrencyIdFromString, NormalizeCurrency and UCurrencyId.String).
THEOREM CurrenciesKept == Spec => []CurrencyKept
<1>1. CurrencyInv /\ TokenKept => CurrencyKept
  <2> SUFFICES ASSUME CurrencyInv, ~ MainnetToken(meaning),
                      form \in {"currency", "currencyText"}
               PROVE  Meaning(form, value) = meaning
    BY DEF CurrencyKept
  <2>1. CASE form = "currency"
    <3>1. NormalizeCurrency(value) = value
      BY <2>1 DEF CurrencyInv, NormalCurrency, NormalizeCurrency, UCurrencyId
    <3> QED BY <2>1, <3>1 DEF CurrencyInv, Meaning
  <2>2. CASE form = "currencyText"
    <3>1. NormalizeCurrency(CurrencyFromString(value)) = meaning
      BY <2>2, ReadCurrencyIsNormal DEF CurrencyInv
    <3> QED BY <2>2, <3>1 DEF Meaning
  <2> QED BY <2>1, <2>2
<1> QED BY <1>1, CurrencyInvHolds, TokensKept, PTL

-----------------------------------------------------------------------------
(* Induction.  A set of natural numbers that is not empty has a least one,  *)
(* so one with 0 and all successors has all: what is to be proved of every  *)
(* number, the set of the numbers of which it holds.                        *)

LEMMA LeastNumber ==
    ASSUME NEW T \in SUBSET Nat, T # {}
    PROVE  \E x \in T : \A y \in T : x <= y
<1> DEFINE R == OpToRel(<, Nat)
<1>1. IsWellFoundedOn(R, Nat)
  BY NatLessThanWellFounded
<1> HIDE DEF R
<1>2. PICK x \in T : \A y \in T : <<y, x>> \notin R
  BY <1>1, WFMin
<1>3. \A y \in T : ~ (y < x)
  BY <1>2 DEF R, OpToRel
<1> QED BY <1>3

LEMMA Induction ==
    ASSUME NEW T, 0 \in T, \A n \in Nat : n \in T => n + 1 \in T
    PROVE  \A n \in Nat : n \in T
<1> DEFINE U == {n \in Nat : n \notin T}
<1> SUFFICES ASSUME U # {} PROVE FALSE
  OBVIOUS
<1>1. PICK x \in U : \A y \in U : x <= y
  BY LeastNumber
<1>2. x \in Nat /\ x # 0
  OBVIOUS
<1>3. x - 1 \in Nat /\ x - 1 \in T
  BY <1>1, <1>2
<1>4. (x - 1) + 1 \in T
  BY <1>3
<1> QED BY <1>2, <1>4

-----------------------------------------------------------------------------
(* Division.                                                                *)

LEMMA DivisionTypes ==
    ASSUME NEW n \in Nat, NEW b \in Nat \ {0}
    PROVE  n \div b \in Nat /\ n % b \in 0..(b - 1)
OBVIOUS

LEMMA Division ==
    ASSUME NEW n \in Nat, NEW b \in Nat \ {0}
    PROVE  n = (n \div b) * b + (n % b)
OBVIOUS

LEMMA QuotientIsLess ==
    ASSUME NEW n \in Nat, NEW b \in Nat \ {0, 1}, n # 0
    PROVE  n \div b < n
<1> DEFINE q == n \div b
<1>1. q \in Nat /\ n % b \in Nat
  BY DivisionTypes
<1>2. n = q * b + (n % b)
  BY Division
<1> HIDE DEF q
<1>3. CASE q = 0
  BY <1>3 DEF q
<1>4. CASE q # 0
  <2>1. q * b >= q + q
    BY <1>1, <1>4
  <2> QED BY <2>1, <1>1, <1>2, <1>4 DEF q
<1> QED BY <1>3, <1>4

-----------------------------------------------------------------------------
(* The number of a text is the last of the numbers of its prefixes.         *)

Values(f, s, b) == f[0] = 0 /\ \A i \in 1..Len(s) : f[i] = f[i - 1] * b + s[i]

LEMMA ValuesAgree ==
    ASSUME NEW s \in Seq(Nat), NEW b \in Nat, NEW f, NEW g, Values(f, s, b), Values(g, s, b)
    PROVE  f[Len(s)] = g[Len(s)]
<1> DEFINE T == {n \in Nat : n <= Len(s) => f[n] = g[n]}
<1>1. 0 \in T
  BY DEF Values
<1>2. ASSUME NEW n \in Nat, n \in T PROVE n + 1 \in T
  <2> SUFFICES ASSUME n + 1 <= Len(s) PROVE f[n + 1] = g[n + 1]
    OBVIOUS
  <2>1. n + 1 \in 1..Len(s) /\ (n + 1) - 1 = n /\ f[n] = g[n]
    BY <1>2
  <2>2. f[n + 1] = f[n] * b + s[n + 1] /\ g[n + 1] = g[n] * b + s[n + 1]
    BY <2>1 DEF Values
  <2> QED BY <2>1, <2>2
<1> HIDE DEF T
<1>3. \A n \in Nat : n \in T
  BY <1>1, <1>2, Induction
<1>4. Len(s) \in T
  BY <1>3
<1> QED BY <1>4 DEF T

LEMMA DigitIsNat == ASSUME NEW a \in Nat, NEW b \in Nat, NEW c \in Nat PROVE a * b + c \in Nat
OBVIOUS

LEMMA ValuesExist ==
    ASSUME NEW s \in Seq(Nat), NEW b \in Nat
    PROVE  \E f \in [0..Len(s) -> Nat] : Values(f, s, b)
<1> DEFINE E(n) == \E f \in [0..n -> Nat] :
                      f[0] = 0 /\ \A i \in 1..n : f[i] = f[i - 1] * b + s[i]
           T == {n \in Nat : n <= Len(s) => E(n)}
<1>1. E(0)
  <2> DEFINE z == [i \in 0..0 |-> 0]
  <2>1. z \in [0..0 -> Nat] /\ z[0] = 0
    OBVIOUS
  <2> HIDE DEF z
  <2> QED BY <2>1
<1>2. ASSUME NEW n \in Nat, E(n), n + 1 <= Len(s) PROVE E(n + 1)
  <2>1. PICK f \in [0..n -> Nat] : f[0] = 0 /\ \A i \in 1..n : f[i] = f[i - 1] * b + s[i]
    BY <1>2
  <2> DEFINE g == [i \in 0..(n + 1) |-> IF i = n + 1 THEN f[n] * b + s[n + 1] ELSE f[i]]
  <2>2. s[n + 1] \in Nat /\ f[n] \in Nat
    <3>1. n + 1 \in 1..Len(s)
      BY <1>2
    <3>2. n \in 0..n
      OBVIOUS
    <3> QED BY <3>1, <3>2
  <2>3. g \in [0..(n + 1) -> Nat] /\ g[0] = 0
    <3>1. f[n] * b + s[n + 1] \in Nat
      BY <2>2, DigitIsNat
    <3>2. ASSUME NEW i \in 0..(n + 1)
          PROVE  (IF i = n + 1 THEN f[n] * b + s[n + 1] ELSE f[i]) \in Nat
      <4>1. CASE i = n + 1
        BY <3>1, <4>1, Zenon
      <4>2. CASE i # n + 1
        <5>1. i \in 0..n
          BY <4>2
        <5> QED BY <4>2, <5>1
      <4> QED BY <4>1, <4>2
    <3>3. 0 \in 0..(n + 1) /\ 0 # n + 1
      OBVIOUS
    <3> QED BY <2>1, <3>2, <3>3
  <2>4. ASSUME NEW i \in 1..(n + 1) PROVE g[i] = g[i - 1] * b + s[i]
    <3>1. i - 1 \in 0..n /\ g[i - 1] = f[i - 1]
      OBVIOUS
    <3>2. i \in 1..n => g[i] = f[i]
      OBVIOUS
    <3>3. i \notin 1..n => i = n + 1 /\ g[i] = f[n] * b + s[n + 1] /\ i - 1 = n
      OBVIOUS
    <3> HIDE DEF g
    <3> QED BY <2>1, <3>1, <3>2, <3>3
  <2> HIDE DEF g
  <2> QED BY <2>3, <2>4
<1> HIDE DEF E
<1>3. 0 \in T /\ \A n \in Nat : n \in T => n + 1 \in T
  BY <1>1, <1>2
<1> HIDE DEF T
<1>4. \A n \in Nat : n \in T
  BY <1>3, Induction
<1>5. Len(s) \in Nat /\ Len(s) \in T
  BY <1>4
<1>6. E(Len(s))
  BY <1>5 DEF T
<1> QED BY <1>6 DEF E, Values

LEMMA NumberOfValues ==
    ASSUME NEW s \in Seq(Nat), NEW b \in Nat, NEW f, Values(f, s, b)
    PROVE  NumberOf(s, b) = f[Len(s)] /\ NumberOf(s, b) \in Nat
<1> DEFINE P(g) == g = [i \in 0..Len(s) |-> IF i = 0 THEN 0 ELSE g[i - 1] * b + s[i]]
           c == CHOOSE g : P(g)
<1>1. NumberOf(s, b) = c[Len(s)]
  BY DEF NumberOf
<1>2. PICK h \in [0..Len(s) -> Nat] : Values(h, s, b)
  BY ValuesExist
<1>3. P(h)
  BY <1>2 DEF Values
<1> HIDE DEF P
<1>4. P(c)
  BY <1>3
<1> HIDE DEF c
<1>5. Values(c, s, b)
  <2>1. c = [i \in 0..Len(s) |-> IF i = 0 THEN 0 ELSE c[i - 1] * b + s[i]]
    BY <1>4 DEF P
  <2>2. Len(s) \in Nat
    OBVIOUS
  <2>3. c[0] = 0
    BY <2>1, <2>2
  <2>4. ASSUME NEW i \in 1..Len(s) PROVE c[i] = c[i - 1] * b + s[i]
    <3>1. i \in 0..Len(s) /\ i # 0
      BY <2>2
    <3> QED BY <2>1, <3>1
  <2> QED BY <2>3, <2>4 DEF Values
<1>6. c[Len(s)] = f[Len(s)] /\ f[Len(s)] = h[Len(s)]
  BY <1>2, <1>5, ValuesAgree
<1> QED BY <1>1, <1>2, <1>6

LEMMA NumberIsNat ==
    ASSUME NEW s \in Seq(Nat), NEW b \in Nat
    PROVE  NumberOf(s, b) \in Nat
BY ValuesExist, NumberOfValues

\* Zeroes before a text do not count.
LEMMA LeadingZeroes ==
    ASSUME NEW s \in Seq(Nat), NEW t \in Seq(Nat), NEW k \in Nat, NEW b \in Nat,
           Len(t) = k + Len(s), \A i \in 1..k : t[i] = 0,
           \A i \in 1..Len(s) : t[k + i] = s[i]
    PROVE  NumberOf(t, b) = NumberOf(s, b)
<1>1. PICK f \in [0..Len(s) -> Nat] : Values(f, s, b)
  BY ValuesExist
<1> DEFINE g == [i \in 0..Len(t) |-> IF i <= k THEN 0 ELSE f[i - k]]
<1>2. g[0] = 0 /\ g[Len(t)] = f[Len(s)]
  BY <1>1 DEF Values
<1>3. ASSUME NEW i \in 1..Len(t) PROVE g[i] = g[i - 1] * b + t[i]
  <2>1. CASE i <= k
    BY <2>1
  <2>2. CASE i > k
    <3>1. i - k \in 1..Len(s) /\ k + (i - k) = i
      BY <2>2
    <3>2. f[i - k] = f[(i - k) - 1] * b + s[i - k] /\ t[i] = s[i - k]
      BY <1>1, <3>1 DEF Values
    <3>3. g[i] = f[i - k]
      BY <2>2
    <3>4. g[i - 1] = f[(i - k) - 1]
      <4>1. CASE i - 1 <= k
        <5>1. i - 1 = k /\ (i - k) - 1 = 0 /\ g[i - 1] = 0
          BY <2>2, <4>1
        <5> QED BY <1>1, <5>1 DEF Values
      <4>2. CASE i - 1 > k
        BY <4>2
      <4> QED BY <4>1, <4>2
    <3> QED BY <3>2, <3>3, <3>4
  <2> QED BY <2>1, <2>2
<1> HIDE DEF g
<1>4. Values(g, t, b)
  BY <1>2, <1>3 DEF Values
<1>5. NumberOf(s, b) = f[Len(s)] /\ NumberOf(t, b) = g[Len(t)]
  BY <1>1, <1>4, NumberOfValues
<1> QED BY <1>2, <1>5

-----------------------------------------------------------------------------
(* Texts and bytes.                                                         *)

LEMMA PairIsByte ==
    ASSUME NEW b \in Nat, NEW c \in 0..(b - 1), NEW d \in 0..(b - 1)
    PROVE  /\ c * b + d \in 0..(b * b - 1)
           /\ (c * b + d) \div b = c /\ (c * b + d) % b = d
OBVIOUS

LEMMA ByteIsPair ==
    ASSUME NEW b \in Nat \ {0}, NEW c \in 0..(b * b - 1)
    PROVE  c \div b \in 0..(b - 1) /\ c % b \in 0..(b - 1)
OBVIOUS

LEMMA PairWeighs ==
    ASSUME NEW x \in Nat, NEW b \in Nat, NEW c \in Nat, NEW d \in Nat
    PROVE  (x * b + c) * b + d = x * (b * b) + (c * b + d)
OBVIOUS

LEMMA DigitsAreNumbers ==
    /\ Digits \subseteq Nat /\ Bytes \subseteq Nat /\ 0 \in Digits /\ 0 \in Bytes
    /\ Base \in Nat /\ Base * Base \in Nat
    /\ \A t \in Seq(Digits) : t \in Seq(Nat)
    /\ \A t \in Seq(Bytes) : t \in Seq(Nat)
<1>1. Base \in Nat /\ Base >= 2
  BY BaseAssumption
<1>2. Base * Base \in Nat /\ Base * Base >= 2
  BY <1>1
<1>3. Digits \subseteq Nat /\ Bytes \subseteq Nat /\ 0 \in Digits /\ 0 \in Bytes
  BY <1>1, <1>2 DEF Digits, Bytes
<1> QED BY <1>1, <1>2, <1>3, SeqMonotonic

\* Whole pairs of digits have the number of the text.
LEMMA PairsKeepNumber ==
    ASSUME NEW t \in Seq(Digits), NEW n \in Nat, Len(t) = 2 * n
    PROVE  /\ Hex2Bytes(t) \in Seq(Bytes) /\ Len(Hex2Bytes(t)) = n
           /\ NumberOf(Hex2Bytes(t), Base * Base) = NumberOf(t, Base)
<1> DEFINE u == Hex2Bytes(t)
<1>0. Len(t) \div 2 = n
  OBVIOUS
<1>1. u = [i \in 1..n |-> t[2 * i - 1] * Base + t[2 * i]]
  BY <1>0 DEF Hex2Bytes
<1>2. ASSUME NEW i \in 1..n PROVE /\ t[2 * i - 1] \in Digits /\ t[2 * i] \in Digits
                                  /\ u[i] = t[2 * i - 1] * Base + t[2 * i] /\ u[i] \in Bytes
  <2>1. 2 * i - 1 \in 1..Len(t) /\ 2 * i \in 1..Len(t)
    OBVIOUS
  <2>2. t[2 * i - 1] \in Digits /\ t[2 * i] \in Digits
    BY <2>1
  <2>3. t[2 * i - 1] * Base + t[2 * i] \in Bytes
    BY <2>2, DigitsAreNumbers, PairIsByte DEF Digits, Bytes
  <2> QED BY <1>1, <2>2, <2>3
<1> HIDE DEF u
<1>3. u \in [1..n -> Bytes]
  BY <1>1, <1>2
<1>4. u \in Seq(Bytes) /\ Len(u) = n
  BY <1>3
<1>5. t \in Seq(Nat) /\ u \in Seq(Nat) /\ Base \in Nat /\ Base * Base \in Nat
  BY <1>4, DigitsAreNumbers
<1>6. PICK f \in [0..Len(t) -> Nat] : Values(f, t, Base)
  BY <1>5, ValuesExist
<1> DEFINE g == [i \in 0..n |-> f[2 * i]]
<1>7. g[0] = 0 /\ g[n] = f[Len(t)]
  BY <1>6 DEF Values
<1>8. ASSUME NEW i \in 1..n PROVE g[i] = g[i - 1] * (Base * Base) + u[i]
  <2>1. /\ 2 * i \in 1..Len(t) /\ 2 * i - 1 \in 1..Len(t)
        /\ (2 * i - 1) - 1 = 2 * (i - 1) /\ 2 * (i - 1) \in 0..Len(t)
    OBVIOUS
  <2>2. f[2 * i] = f[2 * i - 1] * Base + t[2 * i]
    BY <1>6, <2>1 DEF Values
  <2>3. f[2 * i - 1] = f[2 * (i - 1)] * Base + t[2 * i - 1]
    BY <1>6, <2>1 DEF Values
  <2>4. f[2 * (i - 1)] \in Nat /\ t[2 * i - 1] \in Nat /\ t[2 * i] \in Nat
    BY <1>2, <2>1, DigitsAreNumbers
  <2>5. f[2 * i] = f[2 * (i - 1)] * (Base * Base) + u[i]
    <3>1. PICK x \in Nat, c \in Nat, d \in Nat :
            x = f[2 * (i - 1)] /\ c = t[2 * i - 1] /\ d = t[2 * i]
      BY <2>4
    <3>2. f[2 * i - 1] = x * Base + c
      BY <2>3, <3>1
    <3>3. f[2 * i] = (x * Base + c) * Base + d
      BY <2>2, <3>1, <3>2
    <3>4. u[i] = c * Base + d
      BY <1>2, <3>1
    <3>5. (x * Base + c) * Base + d = x * (Base * Base) + (c * Base + d)
      BY <1>5, PairWeighs
    <3> QED BY <3>1, <3>3, <3>4, <3>5
  <2> QED BY <2>5
<1> HIDE DEF g
<1>9. Values(g, u, Base * Base)
  BY <1>4, <1>7, <1>8 DEF Values
<1>10. NumberOf(u, Base * Base) = g[n] /\ NumberOf(t, Base) = f[Len(t)]
  BY <1>4, <1>5, <1>6, <1>9, NumberOfValues
<1> QED BY <1>4, <1>7, <1>10 DEF u

\* An odd text gets a zero in front: FromHex keeps the number of any text.
LEMMA FromHexKeepsNumber ==
    ASSUME NEW t \in Seq(Digits)
    PROVE  /\ FromHex(t) \in Seq(Bytes)
           /\ NumberOf(FromHex(t), Base * Base) = NumberOf(t, Base)
<1>1. CASE Len(t) % 2 # 1
  <2>1. PICK n \in Nat : Len(t) = 2 * n
    <3>1. Len(t) \div 2 \in Nat /\ Len(t) = 2 * (Len(t) \div 2)
      BY <1>1
    <3> QED BY <3>1
  <2>2. FromHex(t) = Hex2Bytes(t)
    BY <1>1 DEF FromHex
  <2> QED BY <2>1, <2>2, PairsKeepNumber
<1>2. CASE Len(t) % 2 = 1
  <2> DEFINE u == <<0>> \o t
  <2>1. <<0>> \in Seq(Digits) /\ Len(<<0>>) = 1 /\ <<0>>[1] = 0
    BY DigitsAreNumbers
  <2>2. /\ u \in Seq(Digits) /\ Len(u) = 1 + Len(t)
        /\ \A i \in 1..(1 + Len(t)) : u[i] = IF i <= 1 THEN <<0>>[i] ELSE t[i - 1]
    BY <2>1, ConcatProperties
  <2>3. FromHex(t) = Hex2Bytes(u)
    BY <1>2 DEF FromHex
  <2> HIDE DEF u
  <2>4. u[1] = 0 /\ \A i \in 1..Len(t) : u[1 + i] = t[i]
    BY <2>1, <2>2
  <2>5. NumberOf(u, Base) = NumberOf(t, Base)
    BY <2>2, <2>4, DigitsAreNumbers, LeadingZeroes
  <2>6. PICK n \in Nat : Len(u) = 2 * n
    <3> DEFINE k == Len(t) \div 2
    <3>1. k \in Nat /\ Len(t) = 2 * k + 1
      BY <1>2
    <3>2. Len(u) = 1 + Len(t)
      BY <2>2
    <3> HIDE DEF k
    <3>3. k + 1 \in Nat /\ Len(u) = 2 * (k + 1)
      BY <3>1, <3>2
    <3> QED BY <3>3
  <2> QED BY <2>2, <2>3, <2>5, <2>6, PairsKeepNumber
<1> QED BY <1>1, <1>2

\* Printed bytes are read as the same bytes, and so have the same number.
LEMMA Bytes2HexKeepsNumber ==
    ASSUME NEW b \in Seq(Bytes)
    PROVE  /\ Bytes2Hex(b) \in Seq(Digits)
           /\ NumberOf(Bytes2Hex(b), Base) = NumberOf(b, Base * Base)
           /\ Hex2Bytes(Bytes2Hex(b)) = b
<1> DEFINE t == Bytes2Hex(b)
           n == Len(b)
<1>0. Base \in Nat \ {0} /\ n \in Nat /\ \A j \in 1..n : b[j] \in Bytes
  BY BaseAssumption
<1>1. t = [i \in 1..(2 * n) |-> IF i % 2 = 1 THEN b[(i + 1) \div 2] \div Base
                                             ELSE b[i \div 2] % Base]
  BY DEF Bytes2Hex
<1> HIDE DEF t, n
<1>2. ASSUME NEW i \in 1..(2 * n) PROVE t[i] \in Digits
  <2>1. CASE i % 2 = 1
    <3>1. (i + 1) \div 2 \in 1..n /\ t[i] = b[(i + 1) \div 2] \div Base
      BY <1>0, <1>1, <2>1
    <3> QED BY <1>0, <3>1, ByteIsPair DEF Digits, Bytes
  <2>2. CASE i % 2 # 1
    <3>1. i \div 2 \in 1..n /\ t[i] = b[i \div 2] % Base
      BY <1>0, <1>1, <2>2
    <3> QED BY <1>0, <3>1, ByteIsPair DEF Digits, Bytes
  <2> QED BY <2>1, <2>2
<1>3. t \in Seq(Digits) /\ Len(t) = 2 * n
  <2>1. t \in [1..(2 * n) -> Digits]
    BY <1>1, <1>2
  <2> QED BY <1>0, <2>1
<1>4. /\ Hex2Bytes(t) \in Seq(Bytes) /\ Len(Hex2Bytes(t)) = n
      /\ NumberOf(Hex2Bytes(t), Base * Base) = NumberOf(t, Base)
  BY <1>0, <1>3, PairsKeepNumber
<1>5. ASSUME NEW j \in 1..n PROVE Hex2Bytes(t)[j] = b[j]
  <2>1. /\ 2 * j \in 1..(2 * n) /\ (2 * j) % 2 # 1 /\ (2 * j) \div 2 = j
        /\ 2 * j - 1 \in 1..(2 * n) /\ (2 * j - 1) % 2 = 1 /\ ((2 * j - 1) + 1) \div 2 = j
    BY <1>0
  <2>2. t[2 * j] = b[j] % Base /\ t[2 * j - 1] = b[j] \div Base
    BY <1>1, <2>1
  <2>3. j \in 1..(Len(t) \div 2)
    BY <1>0, <1>3
  <2>4. Hex2Bytes(t)[j] = t[2 * j - 1] * Base + t[2 * j]
    BY <2>3 DEF Hex2Bytes
  <2>5. b[j] \in Nat
    BY <1>0, DigitsAreNumbers
  <2> QED BY <1>0, <2>2, <2>4, <2>5, Division
<1>6. Hex2Bytes(t) = b
  BY <1>4, <1>5, SeqEqual DEF n
<1> QED BY <1>3, <1>4, <1>6 DEF t

-----------------------------------------------------------------------------
(* Leading zeroes.                                                          *)

LEMMA FirstNonZeroIsFirst ==
    ASSUME NEW s \in Seq(Nat)
    PROVE  /\ FirstNonZero(s) \in 1..(Len(s) + 1)
           /\ FirstNonZero(s) <= Len(s) => s[FirstNonZero(s)] # 0
           /\ \A j \in 1..(FirstNonZero(s) - 1) : s[j] = 0
<1> DEFINE Is(i) == /\ i <= Len(s) => s[i] # 0
                    /\ \A j \in 1..(i - 1) : s[j] = 0
           T == {i \in Nat : i \in 1..(Len(s) + 1) /\ (i <= Len(s) => s[i] # 0)}
<1>0. Len(s) \in Nat
  OBVIOUS
<1>1. Len(s) + 1 \in T
  BY <1>0
<1>2. PICK x \in T : \A y \in T : x <= y
  BY <1>1, LeastNumber
<1>3. x \in 1..(Len(s) + 1) /\ Is(x)
  <2>1. \A j \in 1..(x - 1) : j \notin T /\ j <= Len(s)
    BY <1>0, <1>2
  <2> QED BY <1>0, <1>2, <2>1
<1> HIDE DEF Is
<1>4. FirstNonZero(s) = CHOOSE i \in 1..(Len(s) + 1) : Is(i)
  BY DEF FirstNonZero, Is
<1>5. FirstNonZero(s) \in 1..(Len(s) + 1) /\ Is(FirstNonZero(s))
  BY <1>3, <1>4
<1> QED BY <1>5 DEF Is

LEMMA TrimKeepsNumber ==
    ASSUME NEW S, S \subseteq Nat, NEW s \in Seq(S), NEW b \in Nat
    PROVE  /\ TrimLeftZeroes(s) \in Seq(S)
           /\ NumberOf(TrimLeftZeroes(s), b) = NumberOf(s, b)
           /\ TrimLeftZeroes(s) # <<>> => TrimLeftZeroes(s)[1] # 0
<1> DEFINE k == FirstNonZero(s)
           t == TrimLeftZeroes(s)
<1>0. s \in Seq(Nat) /\ Len(s) \in Nat
  <2>1. s \in Seq(Nat)
    BY SeqMonotonic, Zenon
  <2> QED BY <2>1
<1>1. /\ k \in 1..(Len(s) + 1)
      /\ k <= Len(s) => s[k] # 0
      /\ \A j \in 1..(k - 1) : s[j] = 0
  BY <1>0, FirstNonZeroIsFirst
<1>2. t = SubSeq(s, k, Len(s))
  BY DEF TrimLeftZeroes
<1> HIDE DEF k, t
<1>3. /\ t \in Seq(S) /\ Len(t) = (Len(s) - k) + 1
      /\ \A i \in 1..((Len(s) - k) + 1) : t[i] = s[(k + i) - 1]
  <2>1. k \in Int /\ Len(s) \in Int /\ \A i \in k..Len(s) : s[i] \in S
    BY <1>0, <1>1
  <2>2. /\ t \in Seq(S) /\ Len(t) = IF k <= Len(s) THEN Len(s) - k + 1 ELSE 0
        /\ \A i \in 1..(Len(s) - k + 1) : t[i] = s[k + i - 1]
    BY <1>2, <2>1, SubSeqProperties
  <2> QED BY <1>0, <1>1, <2>2
<1>4. t \in Seq(Nat) /\ k - 1 \in Nat /\ Len(s) = (k - 1) + Len(t)
  <2>1. t \in Seq(Nat)
    BY <1>3, SeqMonotonic, Zenon
  <2> QED BY <1>0, <1>1, <1>3, <2>1
<1>5. \A i \in 1..Len(t) : s[(k - 1) + i] = t[i]
  BY <1>0, <1>1, <1>3
<1>6. NumberOf(s, b) = NumberOf(t, b)
  BY <1>0, <1>1, <1>4, <1>5, LeadingZeroes
<1>7. t # <<>> => t[1] # 0
  <2> SUFFICES ASSUME t # <<>> PROVE t[1] # 0
    OBVIOUS
  <2>1. Len(t) \in Nat \ {0}
    BY <1>3, EmptySeq
  <2>2. k <= Len(s) /\ t[1] = s[k]
    BY <1>0, <1>1, <1>3, <2>1
  <2> QED BY <1>1, <2>2
<1> QED BY <1>3, <1>6, <1>7 DEF t

LEMMA PadKeepsNumber ==
    ASSUME NEW s \in Seq(Bytes), NEW l \in Nat, NEW b \in Nat
    PROVE  /\ LeftPadBytes(s, l) \in Seq(Bytes)
           /\ NumberOf(LeftPadBytes(s, l), b) = NumberOf(s, b)
<1>0. Len(s) \in Nat /\ s \in Seq(Nat)
  BY DigitsAreNumbers
<1>1. CASE l <= Len(s)
  BY <1>1 DEF LeftPadBytes
<1>2. CASE ~ (l <= Len(s))
  <2> DEFINE k == l - Len(s)
             z == Zeroes(k)
             t == z \o s
  <2>1. k \in Nat
    BY <1>0, <1>2
  <2> HIDE DEF k
  <2>2. z \in [1..k -> Bytes] /\ \A i \in 1..k : z[i] = 0
    BY DigitsAreNumbers DEF Zeroes
  <2> HIDE DEF z
  <2>3. z \in Seq(Bytes) /\ Len(z) = k
    BY <2>1, <2>2
  <2>4. /\ t \in Seq(Bytes) /\ Len(t) = k + Len(s)
        /\ \A i \in 1..(k + Len(s)) : t[i] = IF i <= k THEN z[i] ELSE s[i - k]
    BY <2>3, ConcatProperties
  <2>5. LeftPadBytes(s, l) = t
    BY <1>2 DEF LeftPadBytes, k, z
  <2> HIDE DEF t
  <2>6. \A i \in 1..k : t[i] = 0
    BY <1>0, <2>1, <2>2, <2>4
  <2>7. ASSUME NEW i \in 1..Len(s) PROVE t[k + i] = s[i]
    <3>1. k + i \in 1..(k + Len(s)) /\ ~ (k + i <= k) /\ (k + i) - k = i
      BY <1>0, <2>1
    <3> QED BY <2>4, <3>1
  <2>8. NumberOf(t, b) = NumberOf(s, b)
    <3>1. t \in Seq(Nat) /\ Len(t) = k + Len(s)
      BY <2>4, DigitsAreNumbers
    <3> QED BY <1>0, <2>1, <2>6, <2>7, <3>1, LeadingZeroes
  <2> QED BY <2>4, <2>5, <2>8
<1> QED BY <1>1, <1>2

LEMMA ZeroKeepsNumber ==
    ASSUME NEW t \in Seq(Digits)
    PROVE  /\ FixerZeroUint64(t) \in Seq(Digits) /\ Len(FixerZeroUint64(t)) > 0
           /\ NumberOf(FixerZeroUint64(t), Base) = NumberOf(t, Base)
<1>1. CASE t # <<>>
  BY <1>1, EmptySeq DEF FixerZeroUint64
<1>2. CASE t = <<>>
  <2>1. <<0>> \in Seq(Digits) /\ Len(<<0>>) = 1 /\ <<0>>[1] = 0 /\ Len(<<>>) = 0
    BY DigitsAreNumbers
  <2>2. /\ \A i \in 1..1 : <<0>>[i] = 0
        /\ \A i \in 1..0 : <<0>>[1 + i] = <<>>[i]
    BY <2>1
  <2> DEFINE z == <<0>>
             e == <<>>
  <2>3. NumberOf(z, Base) = NumberOf(e, Base)
    <3>1. z \in Seq(Nat) /\ e \in Seq(Nat) /\ Base \in Nat
      BY DigitsAreNumbers
    <3>2. Len(z) = 1 + Len(e)
      BY <2>1
    <3> HIDE DEF z, e
    <3> QED BY <2>2, <3>1, <3>2, LeadingZeroes DEF z, e
  <2> QED BY <1>2, <2>1, <2>3 DEF FixerZeroUint64
<1> QED BY <1>1, <1>2

\* FixerHexStripLeadingZeros: a number without leading zeroes, never without a
\* digit, and the same number.
LEMMA StripKeepsNumber ==
    ASSUME NEW t \in Seq(Digits)
    PROVE  /\ FixerHexStripLeadingZeros(t) \in Seq(Digits)
           /\ NumberOf(FixerHexStripLeadingZeros(t), Base) = NumberOf(t, Base)
           /\ Len(FixerHexStripLeadingZeros(t)) > 0
           /\ FixerHexStripLeadingZeros(t)[1] = 0 => Len(FixerHexStripLeadingZeros(t)) = 1
<1> DEFINE u == TrimLeftZeroes(t)
<1>1. /\ u \in Seq(Digits) /\ NumberOf(u, Base) = NumberOf(t, Base)
      /\ u # <<>> => u[1] # 0
  BY DigitsAreNumbers, TrimKeepsNumber
<1> HIDE DEF u
<1>2. FixerHexStripLeadingZeros(t) = FixerZeroUint64(u)
  BY DEF FixerHexStripLeadingZeros, u
<1>3. FixerZeroUint64(u)[1] = 0 => Len(FixerZeroUint64(u)) = 1
  BY <1>1 DEF FixerZeroUint64
<1> QED BY <1>1, <1>2, <1>3, ZeroKeepsNumber

-----------------------------------------------------------------------------
(* The digits of a number.                                                  *)

Divided(r, n, b) == r = [i \in 0..n |-> IF i = 0 THEN n ELSE r[i - 1] \div b]

LEMMA DividedExists ==
    ASSUME NEW n \in Nat, NEW b \in Nat \ {0}
    PROVE  \E r : Divided(r, n, b)
<1> DEFINE E(m) == \E r \in [0..m -> Nat] : r[0] = n /\ \A i \in 1..m : r[i] = r[i - 1] \div b
           T == {m \in Nat : E(m)}
<1>1. E(0)
  <2> DEFINE z == [i \in 0..0 |-> n]
  <2>1. z \in [0..0 -> Nat] /\ z[0] = n
    OBVIOUS
  <2> HIDE DEF z
  <2> QED BY <2>1
<1>2. ASSUME NEW m \in Nat, E(m) PROVE E(m + 1)
  <2>1. PICK r \in [0..m -> Nat] : r[0] = n /\ \A i \in 1..m : r[i] = r[i - 1] \div b
    BY <1>2
  <2> DEFINE g == [i \in 0..(m + 1) |-> IF i = m + 1 THEN r[m] \div b ELSE r[i]]
  <2>2. r[m] \in Nat /\ r[m] \div b \in Nat
    <3>1. r[m] \in Nat
      OBVIOUS
    <3> QED BY <3>1, DivisionTypes
  <2>3. g \in [0..(m + 1) -> Nat] /\ g[0] = n
    BY <2>1, <2>2
  <2>4. ASSUME NEW i \in 1..(m + 1) PROVE g[i] = g[i - 1] \div b
    <3>1. i - 1 \in 0..m /\ g[i - 1] = r[i - 1]
      OBVIOUS
    <3>2. i \in 1..m => g[i] = r[i]
      OBVIOUS
    <3>3. i \notin 1..m => i = m + 1 /\ g[i] = r[m] \div b /\ i - 1 = m
      OBVIOUS
    <3> HIDE DEF g
    <3> QED BY <2>1, <3>1, <3>2, <3>3
  <2> HIDE DEF g
  <2> QED BY <2>3, <2>4
<1> HIDE DEF E
<1>3. 0 \in T /\ \A m \in Nat : m \in T => m + 1 \in T
  BY <1>1, <1>2
<1> HIDE DEF T
<1>4. n \in T
  BY <1>3, Induction
<1>5. PICK r \in [0..n -> Nat] : r[0] = n /\ \A i \in 1..n : r[i] = r[i - 1] \div b
  BY <1>4 DEF T, E
<1>6. r = [i \in 0..n |-> IF i = 0 THEN n ELSE r[i - 1] \div b]
  BY <1>5
<1> QED BY <1>6 DEF Divided

LEMMA DividedToZero ==
    ASSUME NEW n \in Nat, NEW b \in Nat \ {0, 1}, NEW r, Divided(r, n, b)
    PROVE  /\ r[0] = n /\ r[n] = 0
           /\ \A i \in 0..n : r[i] \in Nat
           /\ \A i \in 1..n : r[i] = r[i - 1] \div b
<1>1. r[0] = n /\ \A i \in 1..n : r[i] = r[i - 1] \div b
  <2>1. r = [i \in 0..n |-> IF i = 0 THEN n ELSE r[i - 1] \div b]
    BY DEF Divided
  <2>2. r[0] = n
    BY <2>1
  <2>3. ASSUME NEW i \in 1..n PROVE r[i] = r[i - 1] \div b
    BY <2>1
  <2> QED BY <2>2, <2>3
<1> DEFINE T == {m \in Nat : m <= n => r[m] \in Nat /\ (r[m] = 0 \/ r[m] + m <= n)}
<1>2. 0 \in T
  BY <1>1
<1>3. ASSUME NEW m \in Nat, m \in T PROVE m + 1 \in T
  <2> SUFFICES ASSUME m + 1 <= n
               PROVE  r[m + 1] \in Nat /\ (r[m + 1] = 0 \/ r[m + 1] + (m + 1) <= n)
    OBVIOUS
  <2>1. r[m] \in Nat /\ (r[m] = 0 \/ r[m] + m <= n)
    BY <1>3
  <2>2. m + 1 \in 1..n /\ (m + 1) - 1 = m
    OBVIOUS
  <2>3. r[m + 1] = r[m] \div b
    BY <1>1, <2>2
  <2>4. r[m + 1] \in Nat
    BY <2>1, <2>3, DivisionTypes
  <2>5. CASE r[m] = 0
    <3>1. 0 \div b = 0
      OBVIOUS
    <3> QED BY <2>3, <2>5, <3>1
  <2>6. CASE r[m] # 0
    <3>1. r[m] \div b < r[m]
      BY <2>1, <2>6, QuotientIsLess
    <3> QED BY <2>1, <2>3, <2>4, <2>6, <3>1
  <2> QED BY <2>4, <2>5, <2>6
<1> HIDE DEF T
<1>4. \A m \in Nat : m \in T
  BY <1>2, <1>3, Induction
<1>5. \A m \in 0..n : r[m] \in Nat /\ (r[m] = 0 \/ r[m] + m <= n)
  BY <1>4 DEF T
<1>6. r[n] = 0
  <2>1. n \in 0..n
    OBVIOUS
  <2> QED BY <1>5, <2>1
<1> QED BY <1>1, <1>5, <1>6

LEMMA DigitsOfNumber ==
    ASSUME NEW n \in Nat, NEW b \in Nat \ {0, 1}
    PROVE  /\ DigitsOf(n, b) \in Seq(0..(b - 1))
           /\ NumberOf(DigitsOf(n, b), b) = n
           /\ DigitsOf(n, b) # <<>> => DigitsOf(n, b)[1] # 0
<1> DEFINE r == CHOOSE h : h = [i \in 0..n |-> IF i = 0 THEN n ELSE h[i - 1] \div b]
           IsLast(k) == r[k] = 0 /\ \A j \in 0..(k - 1) : r[j] # 0
           l == CHOOSE k \in 0..n : IsLast(k)
           d == DigitsOf(n, b)
<1>1. Divided(r, n, b)
  <2>1. PICK h : h = [i \in 0..n |-> IF i = 0 THEN n ELSE h[i - 1] \div b]
    BY DividedExists DEF Divided
  <2>2. r = [i \in 0..n |-> IF i = 0 THEN n ELSE r[i - 1] \div b]
    BY <2>1
  <2> QED BY <2>2 DEF Divided
<1>2. d = [i \in 1..l |-> r[l - i] % b]
  BY DEF DigitsOf
<1> HIDE DEF r, d
<1>3. /\ r[0] = n /\ r[n] = 0
      /\ \A i \in 0..n : r[i] \in Nat
      /\ \A i \in 1..n : r[i] = r[i - 1] \div b
  BY <1>1, DividedToZero
<1>4. l \in 0..n /\ IsLast(l)
  <2> DEFINE T == {k \in Nat : k \in 0..n /\ r[k] = 0}
  <2>1. n \in T
    BY <1>3
  <2>2. PICK x \in T : \A y \in T : x <= y
    BY <2>1, LeastNumber
  <2>3. x \in 0..n /\ IsLast(x)
    <3>1. \A j \in 0..(x - 1) : j \notin T /\ j \in 0..n
      BY <2>2
    <3> QED BY <2>2, <3>1
  <2> HIDE DEF IsLast
  <2> QED BY <2>3
<1> HIDE DEF l
<1>5. ASSUME NEW i \in 1..l PROVE d[i] = r[l - i] % b /\ d[i] \in 0..(b - 1) /\ r[l - i] \in Nat
  <2>1. l - i \in 0..n
    BY <1>4
  <2>2. r[l - i] \in Nat /\ d[i] = r[l - i] % b
    BY <1>2, <1>3, <2>1
  <2> QED BY <2>2, DivisionTypes
<1>6. d \in [1..l -> 0..(b - 1)]
  BY <1>2, <1>5
<1>7. d \in Seq(0..(b - 1)) /\ Len(d) = l /\ d \in Seq(Nat) /\ l \in Nat
  <2>1. d \in Seq(0..(b - 1)) /\ Len(d) = l /\ l \in Nat
    BY <1>4, <1>6
  <2>2. 0..(b - 1) \subseteq Nat
    OBVIOUS
  <2> QED BY <2>1, <2>2, SeqMonotonic
<1> DEFINE g == [i \in 0..l |-> r[l - i]]
<1>8. g[0] = 0 /\ g[l] = n
  BY <1>3, <1>4, <1>7
<1>9. ASSUME NEW i \in 1..l PROVE g[i] = g[i - 1] * b + d[i]
  <2>1. g[i] = r[l - i] /\ g[i - 1] = r[(l - i) + 1] /\ (l - i) + 1 \in 1..n
    BY <1>4
  <2>2. r[(l - i) + 1] = r[l - i] \div b
    <3>1. r[(l - i) + 1] = r[((l - i) + 1) - 1] \div b
      BY <1>3, <2>1
    <3>2. ((l - i) + 1) - 1 = l - i
      BY <1>4
    <3> QED BY <3>1, <3>2
  <2>3. r[l - i] = (r[l - i] \div b) * b + (r[l - i] % b)
    BY <1>5, Division
  <2> QED BY <1>5, <2>1, <2>2, <2>3
<1> HIDE DEF g
<1>10. Values(g, d, b)
  BY <1>7, <1>8, <1>9 DEF Values
<1>11. NumberOf(d, b) = n
  BY <1>7, <1>8, <1>10, NumberOfValues
<1>12. d # <<>> => d[1] # 0
  <2> SUFFICES ASSUME d # <<>> PROVE d[1] # 0
    OBVIOUS
  <2>1. l \in 1..n /\ l - 1 \in 0..(l - 1) /\ 1 \in 1..l
    BY <1>4, <1>7, EmptySeq
  <2>2. r[l - 1] # 0 /\ r[l - 1] \div b = 0 /\ r[l - 1] \in Nat
    BY <1>3, <1>4, <2>1
  <2>3. r[l - 1] = r[l - 1] % b
    <3>1. PICK x \in Nat : x = r[l - 1]
      BY <2>2
    <3>2. x \div b = 0 /\ x = (x \div b) * b + (x % b) /\ x % b \in 0..(b - 1)
      BY <2>2, <3>1, Division, DivisionTypes
    <3> QED BY <3>1, <3>2
  <2>4. d[1] = r[l - 1] % b
    BY <1>5, <2>1
  <2> QED BY <2>2, <2>3, <2>4
<1> QED BY <1>7, <1>11, <1>12 DEF d

-----------------------------------------------------------------------------
(* The journeys of numbers.                                                 *)

NumberInv ==
    /\ form \in {"hex", "quantity"} => value \in Seq(Digits) /\ NumberOf(value, Base) = meaning
    /\ form = "bytes" => value \in Seq(Bytes) /\ NumberOf(value, Base * Base) = meaning
    /\ form \in {"number", "panic"} => value \in Nat /\ value = meaning

LEMMA NumberActions ==
    ASSUME Next
    PROVE  \/ ReadHex \/ PrintHex \/ Fix \/ ReadQuantity \/ PrintQuantity
           \/ Pad \/ Trim \/ ReadUint256 \/ MakeUint256
           \/ form' \notin {"hex", "quantity", "bytes", "number", "panic"}
BY DEF Next, ParseCurrency, PrintCurrency, NormCurrency, ParseToken, PrintToken, ParseChain,
       PrintChain, PrintProto, NormChain, ReadJson, ConvertBlock, Step

\* Hex2Int and MarshalQuantity: the same number, or an error.
LEMMA QuantityIsRead ==
    ASSUME NEW t \in Seq(Digits), Hex2Int(t) # NoNumber
    PROVE  Hex2Int(t) = NumberOf(t, Base) /\ Hex2Int(t) \in Nat
<1>1. Hex2Int(t) = NumberOf(t, Base)
  BY DEF Hex2Int
<1> QED BY <1>1, DigitsAreNumbers, NumberIsNat

LEMMA QuantityIsPrinted ==
    ASSUME NEW n \in Nat
    PROVE  MarshalQuantity(n) \in Seq(Digits) /\ NumberOf(MarshalQuantity(n), Base) = n
<1>1. DigitsOf(n, Base) \in Seq(Digits) /\ NumberOf(DigitsOf(n, Base), Base) = n
  BY BaseAssumption, DigitsOfNumber DEF Digits
<1> QED BY <1>1, ZeroKeepsNumber DEF MarshalQuantity

\* FromBigInt and ToBigInt are inverse to each other on what fits.
LEMMA Uint256IsMade ==
    ASSUME NEW n \in Nat
    PROVE  FromBigInt(n) \in Seq(Bytes) /\ ToBigInt(FromBigInt(n)) = n
<1>1. Base \in Nat /\ Base >= 2
  BY BaseAssumption
<1>2. Base * Base \in Nat \ {0, 1}
  BY <1>1
<1> QED BY <1>2, DigitsOfNumber DEF FromBigInt, ToBigInt, Bytes

LEMMA NumberInvHolds == Spec => []NumberInv
<1>1. Init => NumberInv
  <2> SUFFICES ASSUME Init, form = "hex"
               PROVE  value \in Seq(Digits) /\ NumberOf(value, Base) = meaning
    BY DEF Init, NumberInv
  <2>1. value \in TextsUpTo(MaxDigits, Digits) /\ meaning = NumberOf(value, Base)
    BY DEF Init, Starts, Meaning
  <2>2. value \in Seq(Digits)
    BY <2>1, BoundsAssumption DEF TextsUpTo
  <2> QED BY <2>1, <2>2
<1>2. NumberInv /\ [Next]_vars => NumberInv'
  <2> SUFFICES ASSUME NumberInv, [Next]_vars PROVE NumberInv' OBVIOUS
  <2>1. CASE ReadHex
    <3>1. form \in {"hex", "quantity"} /\ form' = "bytes" /\ value' = FromHex(value) /\ meaning' = meaning
      BY <2>1 DEF ReadHex, Step
    <3> QED BY <3>1, FromHexKeepsNumber DEF NumberInv
  <2>2. CASE PrintHex
    <3>1. form = "bytes" /\ form' = "hex" /\ value' = Bytes2Hex(value) /\ meaning' = meaning
      BY <2>2 DEF PrintHex, Step
    <3> QED BY <3>1, Bytes2HexKeepsNumber DEF NumberInv
  <2>3. CASE Fix
    <3>1. /\ form = "hex" /\ form' = "quantity" /\ meaning' = meaning
          /\ value' = FixerHexStripLeadingZeros(value)
      BY <2>3 DEF Fix, Step
    <3> QED BY <3>1, StripKeepsNumber DEF NumberInv
  <2>4. CASE ReadQuantity
    <3>1. /\ form = "quantity" /\ form' = "number" /\ meaning' = meaning
          /\ Hex2Int(value) # NoNumber /\ value' = Hex2Int(value)
      BY <2>4 DEF ReadQuantity, Step
    <3> QED BY <3>1, QuantityIsRead DEF NumberInv
  <2>5. CASE PrintQuantity
    <3>1. form = "number" /\ form' = "quantity" /\ value' = MarshalQuantity(value) /\ meaning' = meaning
      BY <2>5 DEF PrintQuantity, Step
    <3> QED BY <3>1, QuantityIsPrinted DEF NumberInv
  <2>6. CASE Pad
    <3>1. PICK l \in 0..MaxDigits : Step("bytes", "bytes", LeftPadBytes(value, l))
      BY <2>6 DEF Pad
    <3>2. l \in Nat /\ form = "bytes" /\ form' = "bytes" /\ value' = LeftPadBytes(value, l)
          /\ meaning' = meaning
      BY <3>1 DEF Step
    <3> QED BY <3>2, DigitsAreNumbers, PadKeepsNumber DEF NumberInv
  <2>7. CASE Trim
    <3>1. form = "bytes" /\ form' = "bytes" /\ value' = TrimLeftZeroes(value) /\ meaning' = meaning
      BY <2>7 DEF Trim, Step
    <3> QED BY <3>1, DigitsAreNumbers, TrimKeepsNumber DEF NumberInv
  <2>8. CASE ReadUint256
    <3>1. form = "bytes" /\ form' = "number" /\ value' = ToBigInt(value) /\ meaning' = meaning
      BY <2>8 DEF ReadUint256, Step
    <3> QED BY <3>1, DigitsAreNumbers, NumberIsNat DEF NumberInv, ToBigInt
  <2>9. CASE MakeUint256
    <3>1. /\ form = "number" /\ meaning' = meaning
          /\ \/ form' = "bytes" /\ value' = FromBigInt(value)
             \/ form' = "panic" /\ value' = value
      BY <2>9 DEF MakeUint256, Step
    <3> QED BY <3>1, Uint256IsMade DEF NumberInv, ToBigInt
  <2>10. CASE form' \notin {"hex", "quantity", "bytes", "number", "panic"}
    BY <2>10 DEF NumberInv
  <2>11. CASE UNCHANGED vars
    BY <2>11 DEF NumberInv, vars
  <2> QED BY <2>1, <2>2, <2>3, <2>4, <2>5, <2>6, <2>7, <2>8, <2>9, <2>10, <2>11, NumberActions
<1> QED BY <1>1, <1>2, PTL DEF Spec

\* Numbers keep their value through any conversions, for texts of any length, odd,
\* padded or empty, and numbers of any size (FromHex, Bytes2Hex, LeftPadBytes,
\* TrimLeftZeroes, Hex2Int, MarshalJSON, FixerHexStripLeadingZeros, Uint256).
THEOREM NumbersKept == Spec => []NumberKept
<1>1. NumberInv => NumberKept
  BY DEF NumberInv, NumberKept, Meaning
<1> QED BY <1>1, NumberInvHolds, PTL

-----------------------------------------------------------------------------
(* JSON objects.                                                            *)

\* What one field is made of: it can be read if and only if it stands for a
\* number, and then it is read as that number.
Readable(p, raw) ==
    /\ p \in Fixes => raw[p] # NotText
    /\ FixField(raw, p) \notin {NoField, NotText}
    /\ IF p = "stateRoot" THEN Len(FixField(raw, p)) = HashLen ELSE IsQuantity(FixField(raw, p))

LEMMA FieldTextsAre ==
    ASSUME NEW t \in FieldTexts
    PROVE  t \in Seq(Digits) \/ t \in {NoField, NotText}
BY BoundsAssumption DEF FieldTexts, TextsUpTo

LEMMA NumberOfDigits ==
    ASSUME NEW t \in Seq(Digits)
    PROVE  NumberOf(t, Base) \in Nat /\ NumberOf(t, Base) # NoNumber
<1>1. NumberOf(t, Base) \in Nat
  BY DigitsAreNumbers, NumberIsNat
<1> QED BY <1>1 DEF NoNumber

\* FixerZeroHash: an empty hash is a hash of zeroes.
LEMMA ZeroHash ==
    ASSUME NEW t \in Seq(Digits)
    PROVE  /\ FixerZeroHash(t) \in Seq(Digits)
           /\ NumberOf(FixerZeroHash(t), Base) = NumberOf(t, Base)
           /\ Len(FixerZeroHash(t)) = HashLen <=> Len(t) \in {0, HashLen}
<1>1. CASE t # <<>>
  BY <1>1, EmptySeq DEF FixerZeroHash
<1>2. CASE t = <<>>
  <2> DEFINE z == Zeroes(HashLen)
  <2>1. /\ z \in [1..HashLen -> Digits] /\ HashLen \in Nat
        /\ \A i \in 1..HashLen : z[i] = 0
    BY DigitsAreNumbers, HashLenAssumption DEF Zeroes
  <2>2. FixerZeroHash(t) = z
    BY <1>2 DEF FixerZeroHash
  <2> HIDE DEF z
  <2>3. z \in Seq(Digits) /\ Len(z) = HashLen
    BY <2>1
  <2>4. Len(t) = 0
    BY <1>2
  <2>5. NumberOf(z, Base) = NumberOf(t, Base)
    <3>1. \A i \in 1..Len(t) : z[HashLen + i] = t[i]
      BY <2>4
    <3>2. z \in Seq(Nat) /\ t \in Seq(Nat) /\ Base \in Nat
      BY <2>3, DigitsAreNumbers
    <3>3. HashLen \in Nat /\ Len(z) = HashLen + Len(t)
      BY <2>1, <2>3, <2>4
    <3>4. \A i \in 1..HashLen : z[i] = 0
      BY <2>1
    <3> QED BY <3>1, <3>2, <3>3, <3>4, LeadingZeroes
  <2>6. Len(FixerZeroHash(t)) = HashLen /\ Len(t) \in {0, HashLen}
    BY <2>2, <2>3, <2>4
  <2>7. FixerZeroHash(t) \in Seq(Digits)
    BY <2>2, <2>3
  <2>8. NumberOf(FixerZeroHash(t), Base) = NumberOf(t, Base)
    BY <2>2, <2>5
  <2> QED BY <2>6, <2>7, <2>8
<1> QED BY <1>1, <1>2

LEMMA FieldIsFixed ==
    ASSUME NEW p \in Fields, NEW raw, raw[p] \in FieldTexts
    PROVE  /\ Readable(p, raw) <=> FieldNumber(p, raw[p]) # NoNumber
           /\ Readable(p, raw) => /\ NumberOf(FixField(raw, p), Base) = FieldNumber(p, raw[p])
                                  /\ FieldNumber(p, raw[p]) \in Nat
<1> DEFINE t == raw[p]
           u == FixField(raw, p)
<1>1. t \in Seq(Digits) \/ t \in {NoField, NotText}
  BY FieldTextsAre
<1>2. CASE t \in {NoField, NotText}
  <2>1. FieldNumber(p, t) = NoNumber
    BY <1>2 DEF FieldNumber
  <2>2. ~ Readable(p, raw)
    <3>1. CASE p \in Fixes /\ t # NoField
      BY <1>2, <3>1 DEF Readable
    <3>2. CASE ~ (p \in Fixes /\ t # NoField)
      BY <1>2, <3>2 DEF Readable, FixField
    <3> QED BY <3>1, <3>2
  <2> QED BY <2>1, <2>2
<1>3. CASE t \in Seq(Digits)
  <2>1. t # NoField /\ t # NotText /\ \A v \in Seq(Digits) : v # NoField /\ v # NotText
    BY <1>3, FieldsAssumption
  <2>2. CASE p = "stateRoot"
    <3>1. u = FixerZeroHash(t)
      BY <2>1, <2>2 DEF FixField, Fixes, Fixer
    <3>2. FieldNumber(p, t) = IF Len(t) \in {0, HashLen} THEN NumberOf(t, Base) ELSE NoNumber
      BY <2>1, <2>2 DEF FieldNumber
    <3>3. Readable(p, raw) <=> Len(t) \in {0, HashLen}
      BY <1>3, <2>1, <2>2, <3>1, ZeroHash DEF Readable
    <3> QED BY <1>3, <3>1, <3>2, <3>3, ZeroHash, NumberOfDigits
  <2>3. CASE p = "value"
    <3>1. u = t
      BY <2>3 DEF FixField, Fixes
    <3>2. FieldNumber(p, t) = IF IsQuantity(t) THEN NumberOf(t, Base) ELSE NoNumber
      BY <2>1, <2>3 DEF FieldNumber
    <3>3. Readable(p, raw) <=> IsQuantity(t)
      BY <2>1, <2>3, <3>1 DEF Readable, Fixes
    <3> QED BY <1>3, <3>1, <3>2, <3>3, NumberOfDigits
  <2>4. CASE p \notin {"stateRoot", "value"}
    <3>1. u = FixerHexStripLeadingZeros(t) /\ p \in Fixes
      BY <2>1, <2>4 DEF FixField, Fixes, Fixer, Fields
    <3>2. FieldNumber(p, t) = NumberOf(t, Base)
      BY <2>1, <2>4 DEF FieldNumber
    <3>3. Readable(p, raw)
      <4>1. u \in Seq(Digits) /\ IsQuantity(u)
        BY <1>3, <3>1, StripKeepsNumber DEF IsQuantity
      <4> QED BY <2>1, <2>4, <4>1 DEF Readable
    <3> QED BY <1>3, <3>1, <3>2, <3>3, StripKeepsNumber, NumberOfDigits
  <2> QED BY <2>2, <2>3, <2>4
<1> QED BY <1>1, <1>2, <1>3

\* An object is read if and only if all its fields can be.
LEMMA ObjectIsRead ==
    ASSUME NEW raw
    PROVE  CanFix(raw) /\ CanRead(FixJsonFields(raw)) <=> \A p \in DOMAIN raw : Readable(p, raw)
<1>1. /\ DOMAIN FixJsonFields(raw) = DOMAIN raw
      /\ \A p \in DOMAIN raw : FixJsonFields(raw)[p] = FixField(raw, p)
  BY DEF FixJsonFields
<1>2. CanFix(raw) <=> \A p \in DOMAIN raw : p \in Fixes => raw[p] # NotText
  BY DEF CanFix
<1>3. CanRead(FixJsonFields(raw)) <=>
      \A p \in DOMAIN raw :
        /\ FixField(raw, p) \notin {NoField, NotText}
        /\ IF p = "stateRoot" THEN Len(FixField(raw, p)) = HashLen ELSE IsQuantity(FixField(raw, p))
  BY <1>1 DEF CanRead
<1> QED BY <1>2, <1>3 DEF Readable

FieldsInv ==
    /\ form \in {"json", "error"} =>
         /\ \/ value \in [{"stateRoot"} -> FieldTexts]
            \/ value \in [Fields \ {"stateRoot"} -> FieldTexts]
         /\ meaning = [p \in DOMAIN value |-> FieldNumber(p, value[p])]
    /\ form = "object" => value = meaning /\ \A p \in DOMAIN value : value[p] \in Nat
    /\ form = "error" => \E p \in DOMAIN meaning : meaning[p] = NoNumber

LEMMA FieldsActions ==
    ASSUME Next
    PROVE  ReadJson \/ form' \notin {"json", "object", "error"}
BY DEF Next, ParseCurrency, PrintCurrency, NormCurrency, ParseToken, PrintToken, ParseChain,
       PrintChain, PrintProto, NormChain, ReadHex, PrintHex, Fix, ReadQuantity, PrintQuantity,
       Pad, Trim, ReadUint256, MakeUint256, ConvertBlock, Step

LEMMA FieldsInvHolds == Spec => []FieldsInv
<1>1. Init => FieldsInv
  <2> SUFFICES ASSUME Init PROVE FieldsInv OBVIOUS
  <2>1. form \notin {"object", "error"}
    BY DEF Init
  <2>2. ASSUME form = "json"
        PROVE  /\ \/ value \in [{"stateRoot"} -> FieldTexts]
                  \/ value \in [Fields \ {"stateRoot"} -> FieldTexts]
               /\ meaning = [p \in DOMAIN value |-> FieldNumber(p, value[p])]
    BY <2>2 DEF Init, Starts, Meaning
  <2> QED BY <2>1, <2>2 DEF FieldsInv
<1>2. FieldsInv /\ [Next]_vars => FieldsInv'
  <2> SUFFICES ASSUME FieldsInv, [Next]_vars PROVE FieldsInv' OBVIOUS
  <2>1. CASE ReadJson
    <3>1. /\ \A p \in DOMAIN value : p \in Fields /\ value[p] \in FieldTexts
          /\ meaning = [p \in DOMAIN value |-> FieldNumber(p, value[p])]
          /\ form = "json" /\ meaning' = meaning
      BY <2>1 DEF FieldsInv, ReadJson, Step, Fields
    <3>2. CASE CanFix(value) /\ CanRead(FixJsonFields(value))
      <4>1. form' = "object" /\ value' = UnmarshalJSON(value)
        BY <2>1, <3>2 DEF ReadJson, Step
      <4>2. \A p \in DOMAIN value : Readable(p, value)
        BY <3>2, ObjectIsRead
      <4>3. \A p \in DOMAIN value : /\ NumberOf(FixField(value, p), Base) = FieldNumber(p, value[p])
                                    /\ FieldNumber(p, value[p]) \in Nat
        BY <3>1, <4>2, FieldIsFixed
      <4>4. UnmarshalJSON(value) = [p \in DOMAIN value |-> NumberOf(FixField(value, p), Base)]
        BY DEF UnmarshalJSON, FixJsonFields
      <4>5. UnmarshalJSON(value) = meaning
        BY <3>1, <4>3, <4>4
      <4>6. \A p \in DOMAIN meaning : meaning[p] \in Nat
        BY <3>1, <4>3
      <4> QED BY <3>1, <4>1, <4>5, <4>6 DEF FieldsInv
    <3>3. CASE ~ (CanFix(value) /\ CanRead(FixJsonFields(value)))
      <4>1. form' = "error" /\ value' = value
        BY <2>1, <3>3 DEF ReadJson, Step
      <4>2. PICK p \in DOMAIN value : ~ Readable(p, value)
        BY <3>3, ObjectIsRead
      <4>3. FieldNumber(p, value[p]) = NoNumber
        BY <3>1, <4>2, FieldIsFixed
      <4>4. p \in DOMAIN meaning /\ meaning[p] = NoNumber
        BY <3>1, <4>3
      <4> QED BY <3>1, <4>1, <4>4 DEF FieldsInv
    <3> QED BY <3>2, <3>3
  <2>2. CASE form' \notin {"json", "object", "error"}
    BY <2>2 DEF FieldsInv
  <2>3. CASE UNCHANGED vars
    BY <2>3 DEF FieldsInv, vars
  <2> QED BY <2>1, <2>2, <2>3, FieldsActions
<1> QED BY <1>1, <1>2, PTL DEF Spec

\* An object is read with the numbers its fields stand for, and only refused if
\* one of them stands for none, for fields of any length (RpcTx and
\* HeaderWithBody's UnmarshalJSON, fixer.go).
THEOREM FieldsAreKept == Spec => []FieldsKept
<1>1. FieldsInv => FieldsKept
  BY DEF FieldsInv, FieldsKept
<1> QED BY <1>1, FieldsInvHolds, PTL

-----------------------------------------------------------------------------
(* Loops that collect.                                                      *)

\* e numbers the elements of D from 1 to l, in their order.
Enumerates(e, l, D) ==
    /\ e \in [1..l -> D]
    /\ \A i, j \in 1..l : i < j => e[i] < e[j]
    /\ \A d \in D : \E i \in 1..l : e[i] = d

\* c has the elements of s at the indexes D, in their order.
IsCollected(c, s, D) ==
    \E e : /\ Enumerates(e, Len(c), D)
          /\ \A k \in 1..Len(c) : c[k] = s[e[k]]

Collects(f, s, D) ==
    f = [n \in 0..Len(s) |->
            IF n = 0 THEN <<>> ELSE IF n \in D THEN Append(f[n - 1], s[n]) ELSE f[n - 1]]

LEMMA CollectsExists ==
    ASSUME NEW S, NEW s \in Seq(S), NEW D
    PROVE  \E f : Collects(f, s, D)
<1> DEFINE E(m) == \E f \in [0..m -> Seq(S)] :
                      /\ f[0] = <<>>
                      /\ \A n \in 1..m : f[n] = IF n \in D THEN Append(f[n - 1], s[n]) ELSE f[n - 1]
           T == {m \in Nat : m <= Len(s) => E(m)}
<1>1. E(0)
  <2> DEFINE z == [n \in 0..0 |-> <<>>]
  <2>1. z \in [0..0 -> Seq(S)] /\ z[0] = <<>>
    BY EmptySeq
  <2> HIDE DEF z
  <2> QED BY <2>1
<1>2. ASSUME NEW m \in Nat, E(m), m + 1 <= Len(s) PROVE E(m + 1)
  <2>1. PICK f \in [0..m -> Seq(S)] :
           /\ f[0] = <<>>
           /\ \A n \in 1..m : f[n] = IF n \in D THEN Append(f[n - 1], s[n]) ELSE f[n - 1]
    BY <1>2
  <2> DEFINE next == IF m + 1 \in D THEN Append(f[m], s[m + 1]) ELSE f[m]
             g == [n \in 0..(m + 1) |-> IF n = m + 1 THEN next ELSE f[n]]
  <2>2. next \in Seq(S)
    <3>1. f[m] \in Seq(S) /\ s[m + 1] \in S
      BY <1>2
    <3> QED BY <3>1, AppendProperties
  <2> HIDE DEF next
  <2>3. g \in [0..(m + 1) -> Seq(S)] /\ g[0] = <<>>
    BY <2>1, <2>2
  <2>4. ASSUME NEW n \in 1..(m + 1)
        PROVE  g[n] = IF n \in D THEN Append(g[n - 1], s[n]) ELSE g[n - 1]
    <3>1. n - 1 \in 0..m /\ g[n - 1] = f[n - 1]
      OBVIOUS
    <3>2. n \in 1..m => g[n] = f[n]
      OBVIOUS
    <3>3. n \notin 1..m => n = m + 1 /\ g[n] = next /\ n - 1 = m
      OBVIOUS
    <3> HIDE DEF g
    <3> QED BY <2>1, <3>1, <3>2, <3>3 DEF next
  <2> HIDE DEF g
  <2> QED BY <2>3, <2>4
<1> HIDE DEF E
<1>3. 0 \in T /\ \A m \in Nat : m \in T => m + 1 \in T
  BY <1>1, <1>2
<1> HIDE DEF T
<1>4. \A m \in Nat : m \in T
  BY <1>3, Induction
<1>5. E(Len(s))
  <2>1. Len(s) \in Nat
    OBVIOUS
  <2> QED BY <1>4, <2>1 DEF T
<1>6. PICK f \in [0..Len(s) -> Seq(S)] :
         /\ f[0] = <<>>
         /\ \A n \in 1..Len(s) : f[n] = IF n \in D THEN Append(f[n - 1], s[n]) ELSE f[n - 1]
  BY <1>5 DEF E
<1>7. \A n \in 0..Len(s) :
         f[n] = IF n = 0 THEN <<>> ELSE IF n \in D THEN Append(f[n - 1], s[n]) ELSE f[n - 1]
  <2> SUFFICES ASSUME NEW n \in 0..Len(s)
               PROVE  f[n] = IF n = 0 THEN <<>>
                             ELSE IF n \in D THEN Append(f[n - 1], s[n]) ELSE f[n - 1]
    OBVIOUS
  <2>1. n = 0 \/ (n # 0 /\ n \in 1..Len(s))
    OBVIOUS
  <2> QED BY <1>6, <2>1
<1>8. f = [n \in 0..Len(s) |->
             IF n = 0 THEN <<>> ELSE IF n \in D THEN Append(f[n - 1], s[n]) ELSE f[n - 1]]
  <2>1. f = [n \in 0..Len(s) |-> f[n]]
    OBVIOUS
  <2> QED BY <1>7, <2>1, Zenon
<1> QED BY <1>8 DEF Collects

\* One more element is numbered after those before it.
LEMMA OneMore ==
    ASSUME NEW l \in Nat, NEW m \in Nat, NEW D \in SUBSET Nat, NEW e,
           Enumerates(e, l, D \cap 1..m), m + 1 \in D
    PROVE  Enumerates([k \in 1..(l + 1) |-> IF k = l + 1 THEN m + 1 ELSE e[k]], l + 1,
                      D \cap 1..(m + 1))
<1> DEFINE g == [k \in 1..(l + 1) |-> IF k = l + 1 THEN m + 1 ELSE e[k]]
<1>1. /\ \A k \in 1..l : k # l + 1 /\ k \in 1..(l + 1) /\ g[k] = e[k] /\ e[k] \in D /\ e[k] \in 1..m
      /\ g[l + 1] = m + 1 /\ l + 1 \in 1..(l + 1)
      /\ \A k \in 1..(l + 1) : k = l + 1 \/ k \in 1..l
  BY DEF Enumerates
<1>2. g \in [1..(l + 1) -> D \cap 1..(m + 1)]
  <2>1. \A k \in 1..(l + 1) : g[k] \in D /\ g[k] \in 1..(m + 1)
    <3> SUFFICES ASSUME NEW k \in 1..(l + 1) PROVE g[k] \in D /\ g[k] \in 1..(m + 1)
      OBVIOUS
    <3>1. CASE k = l + 1
      BY <3>1
    <3>2. CASE k \in 1..l
      <4>1. g[k] \in D /\ g[k] \in 1..m
        BY <1>1, <3>2
      <4> HIDE DEF g
      <4> QED BY <4>1
    <3> QED BY <1>1, <3>1, <3>2
  <2>2. DOMAIN g = 1..(l + 1) /\ g = [k \in 1..(l + 1) |-> g[k]]
    OBVIOUS
  <2> HIDE DEF g
  <2> QED BY <2>1, <2>2
<1> HIDE DEF g
<1>3. ASSUME NEW i \in 1..(l + 1), NEW j \in 1..(l + 1), i < j PROVE g[i] < g[j]
  <2>1. i \in 1..l
    BY <1>3
  <2>2. CASE j = l + 1
    BY <1>1, <2>1, <2>2
  <2>3. CASE j \in 1..l
    BY <1>1, <1>3, <2>1, <2>3 DEF Enumerates
  <2> QED BY <1>1, <2>2, <2>3
<1>4. ASSUME NEW d \in D \cap 1..(m + 1) PROVE \E i \in 1..(l + 1) : g[i] = d
  <2>1. CASE d = m + 1
    BY <1>1, <2>1
  <2>2. CASE d # m + 1
    <3>1. d \in D \cap 1..m
      BY <2>2
    <3>2. PICK i \in 1..l : e[i] = d
      BY <3>1 DEF Enumerates
    <3> QED BY <1>1, <3>2
  <2> QED BY <2>1, <2>2
<1> QED BY <1>2, <1>3, <1>4 DEF Enumerates, g

LEMMA CollectedIs ==
    ASSUME NEW S, NEW s \in Seq(S), NEW D, D \subseteq 1..Len(s)
    PROVE  Collected(s, D) \in Seq(S) /\ IsCollected(Collected(s, D), s, D)
<1> DEFINE f == CHOOSE h : h = [n \in 0..Len(s) |->
                    IF n = 0 THEN <<>> ELSE IF n \in D THEN Append(h[n - 1], s[n]) ELSE h[n - 1]]
           E(m) == /\ f[m] \in Seq(S)
                   /\ \E e : /\ Enumerates(e, Len(f[m]), D \cap 1..m)
                             /\ \A k \in 1..Len(f[m]) : f[m][k] = s[e[k]]
           T == {m \in Nat : m <= Len(s) => E(m)}
<1>0. Len(s) \in Nat /\ D \in SUBSET Nat
  OBVIOUS
<1>1. Collected(s, D) = f[Len(s)]
  BY DEF Collected
<1>2. Collects(f, s, D)
  <2>1. f = CHOOSE h : Collects(h, s, D)
    BY DEF Collects
  <2> HIDE DEF f
  <2> QED BY <2>1, CollectsExists
<1> HIDE DEF f
<1>3. /\ f[0] = <<>>
      /\ \A n \in 1..Len(s) : f[n] = IF n \in D THEN Append(f[n - 1], s[n]) ELSE f[n - 1]
  <2>1. \A n \in 0..Len(s) :
          f[n] = IF n = 0 THEN <<>> ELSE IF n \in D THEN Append(f[n - 1], s[n]) ELSE f[n - 1]
    BY <1>2, Zenon DEF Collects
  <2> QED BY <1>0, <2>1
<1>4. E(0)
  <2>1. f[0] \in Seq(S) /\ Len(f[0]) = 0
    BY <1>3, EmptySeq
  <2>2. Enumerates(<<>>, 0, D \cap 1..0)
    BY DEF Enumerates
  <2> QED BY <2>1, <2>2
<1>5. ASSUME NEW m \in Nat, m + 1 <= Len(s), E(m) PROVE E(m + 1)
  <2>1. f[m + 1] = IF m + 1 \in D THEN Append(f[m], s[m + 1]) ELSE f[m]
    <3>1. m + 1 \in 1..Len(s) /\ (m + 1) - 1 = m
      BY <1>0, <1>5
    <3> QED BY <1>3, <3>1
  <2>2. PICK e : /\ Enumerates(e, Len(f[m]), D \cap 1..m)
                 /\ \A k \in 1..Len(f[m]) : f[m][k] = s[e[k]]
    BY <1>5
  <2> DEFINE l == Len(f[m])
  <2>3. f[m] \in Seq(S) /\ l \in Nat /\ s[m + 1] \in S
    BY <1>0, <1>5
  <2>4. CASE m + 1 \notin D
    <3>1. D \cap 1..(m + 1) = D \cap 1..m
      BY <2>4
    <3> QED BY <2>1, <2>2, <2>3, <2>4, <3>1
  <2>5. CASE m + 1 \in D
    <3> DEFINE g == [k \in 1..(l + 1) |-> IF k = l + 1 THEN m + 1 ELSE e[k]]
    <3>1. /\ f[m + 1] \in Seq(S) /\ Len(f[m + 1]) = l + 1
          /\ \A k \in 1..l : f[m + 1][k] = f[m][k]
          /\ f[m + 1][l + 1] = s[m + 1]
      BY <2>1, <2>3, <2>5, AppendProperties
    <3>2. Enumerates(g, l + 1, D \cap 1..(m + 1))
      <4> HIDE DEF l
      <4>1. Enumerates(e, l, D \cap 1..m)
        BY <2>2 DEF l
      <4> QED BY <1>0, <2>3, <2>5, <4>1, OneMore
    <3>3. ASSUME NEW k \in 1..(l + 1) PROVE f[m + 1][k] = s[g[k]]
      <4> HIDE DEF l
      <4>1. CASE k = l + 1
        BY <2>3, <3>1, <4>1
      <4>2. CASE k # l + 1
        <5>1. k \in 1..l /\ g[k] = e[k]
          BY <2>3, <4>2
        <5> HIDE DEF g
        <5> QED BY <2>2, <3>1, <5>1 DEF l
      <4> QED BY <4>1, <4>2
    <3> HIDE DEF g, l
    <3> QED BY <3>1, <3>2, <3>3
  <2> QED BY <2>4, <2>5
<1> HIDE DEF E
<1>6. 0 \in T /\ \A m \in Nat : m \in T => m + 1 \in T
  BY <1>0, <1>4, <1>5
<1> HIDE DEF T
<1>7. Len(s) \in T
  BY <1>0, <1>6, Induction
<1>8. E(Len(s))
  BY <1>0, <1>7 DEF T
<1>9. D \cap 1..Len(s) = D
  OBVIOUS
<1>10. /\ f[Len(s)] \in Seq(S)
       /\ \E e : /\ Enumerates(e, Len(f[Len(s)]), D)
                 /\ \A k \in 1..Len(f[Len(s)]) : f[Len(s)][k] = s[e[k]]
  BY <1>8, <1>9 DEF E
<1> QED BY <1>1, <1>10 DEF IsCollected

\* The place of an element is the number of those up to it.
LEMMA PlaceIsNumber ==
    ASSUME NEW l \in Nat, NEW D \in SUBSET Nat, NEW e, Enumerates(e, l, D), NEW m \in 1..l
    PROVE  Cardinality({d \in D : d <= e[m]}) = m
<1> DEFINE U == {d \in D : d <= e[m]}
           g == [i \in 1..m |-> e[i]]
<1>1. \A i \in 1..l : e[i] \in D /\ e[i] \in Nat
  BY DEF Enumerates
<1>2. \A i, j \in 1..l : i < j => e[i] < e[j]
  BY DEF Enumerates
<1>3. \A i \in 1..m : i \in 1..l /\ e[i] \in U
  <2> SUFFICES ASSUME NEW i \in 1..m PROVE i \in 1..l /\ e[i] \in U
    OBVIOUS
  <2>1. i \in 1..l /\ (i < m \/ i = m)
    OBVIOUS
  <2> QED BY <1>1, <1>2, <2>1
<1>4. g \in [1..m -> U]
  BY <1>3
<1>5. \A i, j \in 1..m : g[i] = g[j] => i = j
  <2> SUFFICES ASSUME NEW i \in 1..m, NEW j \in 1..m, i # j PROVE e[i] # e[j]
    OBVIOUS
  <2>1. (i < j \/ j < i) /\ i \in 1..l /\ j \in 1..l
    OBVIOUS
  <2> QED BY <1>1, <1>2, <2>1
<1>6. \A d \in U : \E i \in 1..m : g[i] = d
  <2> SUFFICES ASSUME NEW d \in U PROVE \E i \in 1..m : g[i] = d
    OBVIOUS
  <2>1. PICK i \in 1..l : e[i] = d
    BY DEF Enumerates
  <2>2. i <= m
    BY <1>1, <1>2, <2>1
  <2>3. i \in 1..m
    BY <2>2
  <2> QED BY <2>1, <2>3
<1> HIDE DEF g, U
<1>7. g \in Bijection(1..m, U)
  BY <1>4, <1>5, <1>6 DEF Bijection, Injection, Surjection, IsInjective
<1>8. m \in Nat /\ ExistsBijection(1..m, U)
  BY <1>7 DEF ExistsBijection
<1> QED BY <1>8, FS_CountingElements DEF U

\* What is collected of what was collected.
Twice(s, D, X) ==
    Collected(Collected(s, D), {k \in DOMAIN Collected(s, D) : Collected(s, D)[k] \in X})

LEMMA CollectedTwice ==
    ASSUME NEW S, NEW s \in Seq(S), NEW D, D \subseteq 1..Len(s), NEW X
    PROVE  Twice(s, D, X) \in Seq(S) /\ IsCollected(Twice(s, D, X), s, {n \in D : s[n] \in X})
<1> DEFINE c == Collected(s, D)
           t == Twice(s, D, X)
           Q == {k \in DOMAIN c : c[k] \in X}
           W == {n \in D : s[n] \in X}
<1>0. c \in Seq(S) /\ IsCollected(c, s, D)
  BY CollectedIs
<1>1. PICK e : /\ c \in Seq(S)
               /\ Enumerates(e, Len(c), D)
               /\ \A k \in 1..Len(c) : c[k] = s[e[k]]
  BY <1>0, Zenon DEF IsCollected
<1>2. /\ DOMAIN c = 1..Len(c) /\ Len(c) \in Nat /\ Q \subseteq 1..Len(c)
      /\ \A k \in 1..Len(c) : k \in Q <=> s[e[k]] \in X
  <2> HIDE DEF c
  <2> QED BY <1>1
<1>3. t = Collected(c, Q)
  BY DEF Twice
<1> HIDE DEF c, t, Q
<1>4. PICK g : /\ t \in Seq(S)
               /\ Enumerates(g, Len(t), Q)
               /\ \A k \in 1..Len(t) : t[k] = c[g[k]]
  <2>1. t \in Seq(S) /\ IsCollected(t, c, Q)
    BY <1>1, <1>2, <1>3, CollectedIs
  <2> QED BY <2>1, Zenon DEF IsCollected
<1> DEFINE h == [k \in 1..Len(t) |-> e[g[k]]]
<1>5. /\ \A k \in 1..Len(t) : g[k] \in Q /\ g[k] \in 1..Len(c)
      /\ \A i, j \in 1..Len(t) : i < j => g[i] < g[j]
      /\ \A q \in Q : \E i \in 1..Len(t) : g[i] = q
  BY <1>2, <1>4 DEF Enumerates
<1>6. /\ \A k \in 1..Len(c) : e[k] \in D
      /\ \A i, j \in 1..Len(c) : i < j => e[i] < e[j]
      /\ \A d \in D : \E i \in 1..Len(c) : e[i] = d
  BY <1>1 DEF Enumerates
<1>7. h \in [1..Len(t) -> W]
  BY <1>2, <1>5, <1>6
<1>8. ASSUME NEW i \in 1..Len(t), NEW j \in 1..Len(t), i < j PROVE h[i] < h[j]
  <2>1. g[i] \in 1..Len(c) /\ g[j] \in 1..Len(c) /\ g[i] < g[j]
    BY <1>5, <1>8
  <2>2. e[g[i]] < e[g[j]]
    BY <1>6, <2>1
  <2> QED BY <2>2
<1>9. ASSUME NEW d \in W PROVE \E i \in 1..Len(t) : h[i] = d
  <2>1. PICK k \in 1..Len(c) : e[k] = d
    BY <1>6
  <2>2. k \in Q
    BY <1>2, <2>1
  <2>3. PICK i \in 1..Len(t) : g[i] = k
    BY <1>5, <2>2
  <2> QED BY <2>1, <2>3
<1>10. ASSUME NEW k \in 1..Len(t) PROVE t[k] = s[h[k]]
  <2>1. h[k] = e[g[k]] /\ g[k] \in 1..Len(c)
    BY <1>5
  <2>2. t[k] = c[g[k]]
    BY <1>4
  <2>3. c[g[k]] = s[e[g[k]]]
    BY <1>1, <2>1
  <2> HIDE DEF h
  <2> QED BY <2>1, <2>2, <2>3
<1> HIDE DEF h, W
<1>11. Enumerates(h, Len(t), W)
  BY <1>7, <1>8, <1>9 DEF Enumerates
<1>12. IsCollected(t, s, W)
  BY <1>10, <1>11 DEF IsCollected
<1> QED BY <1>4, <1>12, Zenon DEF W, t

-----------------------------------------------------------------------------
(* Blocks.                                                                  *)

NativeOf(b, i) == IF b.txs[i].value > 0 THEN 1 ELSE 0
TokensOf(b, i) == {j \in DOMAIN b.logs : b.logs[j].txIndex = b.txs[i].index
                                         /\ IsTransferLog(b.logs[j])}

LEMMA BlockTypes ==
    ASSUME NEW b \in RpcBlocks
    PROVE  /\ b.txs \in Seq(Range(b.txs)) /\ b.logs \in Seq(Range(b.logs))
           /\ DOMAIN b.logs = 1..Len(b.logs) /\ Len(b.logs) \in Nat
<1>1. b.txs \in Seq(Range(b.txs)) /\ b.logs \in Seq(Range(b.logs))
  BY RpcBlocksAssumption, Zenon
<1> QED BY <1>1

\* c holds the transfers that transaction i logged, the k-th one at e[k].
TokensAt(b, i, c, e, l) ==
    /\ Enumerates(e, l, TokensOf(b, i))
    /\ DOMAIN c = 1..l
    /\ \A k \in 1..l : c[k] = DecodeLogAsTransfer(b.txs[i], b.logs[e[k]])

\* r holds the native transfer of transaction i, if it has one, and those after it.
TransfersAt(b, i, r, e, l) ==
    /\ Enumerates(e, l, TokensOf(b, i))
    /\ DOMAIN r = 1..(NativeOf(b, i) + l)
    /\ NativeOf(b, i) = 1 => r[1] = ConvertNativeTransfer(b.txs[i])
    /\ \A k \in 1..l : r[NativeOf(b, i) + k] = DecodeLogAsTransfer(b.txs[i], b.logs[e[k]])

TokenTransfersOf(b, i) == ConvertERC20Transfer(b.txs[i], Grouped(b.txs, b.logs)[b.txs[i].index])

\* ConvertERC20Transfer of the group of a transaction: its token transfers.
LEMMA TokenTransfers ==
    ASSUME NEW b \in RpcBlocks, NEW i \in DOMAIN b.txs
    PROVE  \E l \in Nat : \E e : TokensAt(b, i, TokenTransfersOf(b, i), e, l)
<1> DEFINE c == TokenTransfersOf(b, i)
           n == b.txs[i].index
           D == LogsOf(n, b.logs)
           g == Collected(b.logs, D)
           X == {x \in Range(b.logs) : IsTransferLog(x)}
           t == Collected(g, {k \in DOMAIN g : g[k] \in X})
<1>1. b.logs \in Seq(Range(b.logs)) /\ DOMAIN b.logs = 1..Len(b.logs)
  BY BlockTypes
<1>2. Grouped(b.txs, b.logs)[n] = g
  BY DEF Grouped, Range
<1>3. D \subseteq 1..Len(b.logs)
  BY <1>1 DEF LogsOf
<1> HIDE DEF D
<1>4. g \in Seq(Range(b.logs))
  BY <1>1, <1>3, CollectedIs
<1>5. PICK e : /\ t \in Seq(Range(b.logs))
               /\ Enumerates(e, Len(t), {m \in D : b.logs[m] \in X})
               /\ \A k \in 1..Len(t) : t[k] = b.logs[e[k]]
  <2> HIDE DEF X
  <2>1. t = Twice(b.logs, D, X)
    BY DEF Twice
  <2> HIDE DEF t
  <2>2. t \in Seq(Range(b.logs)) /\ IsCollected(t, b.logs, {m \in D : b.logs[m] \in X})
    BY <1>1, <1>3, <2>1, CollectedTwice
  <2> QED BY <2>2, Zenon DEF IsCollected
<1>6. {k \in DOMAIN g : g[k] \in X} = {k \in DOMAIN g : IsTransferLog(g[k])}
  <2> HIDE DEF g
  <2>1. \A k \in DOMAIN g : g[k] \in Range(b.logs)
    BY <1>4
  <2> QED BY <2>1
<1>7. {m \in D : b.logs[m] \in X} = TokensOf(b, i)
  BY DEF D, LogsOf, TokensOf, Range
<1>8. c = [k \in DOMAIN t |-> DecodeLogAsTransfer(b.txs[i], t[k])]
  BY <1>2, <1>6 DEF ConvertERC20Transfer, TokenTransfersOf
<1> HIDE DEF t, X, c
<1>9. DOMAIN t = 1..Len(t) /\ Len(t) \in Nat
  BY <1>5
<1>10. Enumerates(e, Len(t), TokensOf(b, i))
  BY <1>5, <1>7
<1>11. DOMAIN c = 1..Len(t)
  BY <1>8, <1>9
<1>12. \A k \in 1..Len(t) : c[k] = DecodeLogAsTransfer(b.txs[i], b.logs[e[k]])
  BY <1>5, <1>8, <1>9
<1>13. TokensAt(b, i, c, e, Len(t))
  BY <1>10, <1>11, <1>12 DEF TokensAt
<1> QED BY <1>9, <1>13 DEF c

\* Convert: the native transfer, if there is one, and then the tokens'.
LEMMA Transfers ==
    ASSUME NEW b \in RpcBlocks, NEW i \in DOMAIN b.txs
    PROVE  \E l \in Nat : \E e : TransfersAt(b, i, EthBlockToProto(b)[i].transfers, e, l)
<1> DEFINE r == EthBlockToProto(b)[i].transfers
           tx == b.txs[i]
           c == TokenTransfersOf(b, i)
           d == ConvertNativeTransfer(tx)
           a == IF tx.value > 0 THEN <<d>> ELSE <<>>
<1>1. r = a \o c
  BY Zenon DEF EthBlockToProto, ConvertTx, TokenTransfersOf
<1>a. PICK l \in Nat : \E e : TokensAt(b, i, c, e, l)
  BY TokenTransfers
<1>0. PICK e : TokensAt(b, i, c, e, l)
  BY <1>a
<1>2. /\ Enumerates(e, l, TokensOf(b, i))
      /\ DOMAIN c = 1..l
      /\ \A k \in 1..l : c[k] = DecodeLogAsTransfer(tx, b.logs[e[k]])
  BY <1>0 DEF TokensAt
<1> DEFINE S == {d} \cup {c[k] : k \in 1..l}
<1>3. c = [k \in DOMAIN c |-> c[k]]
  BY DEF ConvertERC20Transfer, TokenTransfersOf
<1>4. /\ a = IF NativeOf(b, i) = 1 THEN <<d>> ELSE <<>>
      /\ NativeOf(b, i) \in {0, 1}
  BY DEF NativeOf
<1> HIDE DEF r, c, d, a
<1>5. c \in Seq(S) /\ Len(c) = l
  <2>1. c \in [1..l -> S]
    BY <1>2, <1>3
  <2> HIDE DEF S
  <2> QED BY <2>1
<1>6. a \in Seq(S) /\ Len(a) = NativeOf(b, i) /\ (NativeOf(b, i) = 1 => a[1] = d)
  <2>1. <<d>> \in Seq(S) /\ Len(<<d>>) = 1 /\ <<d>>[1] = d
    BY DEF S
  <2>2. <<>> \in Seq(S) /\ Len(<<>>) = 0
    BY EmptySeq
  <2> QED BY <1>4, <2>1, <2>2
<1> HIDE DEF S
<1>7. /\ r \in Seq(S) /\ Len(r) = NativeOf(b, i) + l
      /\ \A k \in 1..(NativeOf(b, i) + l) :
            r[k] = IF k <= NativeOf(b, i) THEN a[k] ELSE c[k - NativeOf(b, i)]
  <2>1. /\ a \o c \in Seq(S) /\ Len(a \o c) = Len(a) + Len(c)
        /\ \A k \in 1..(Len(a) + Len(c)) :
              (a \o c)[k] = IF k <= Len(a) THEN a[k] ELSE c[k - Len(a)]
    BY <1>5, <1>6, ConcatProperties, Zenon
  <2> QED BY <1>1, <1>5, <1>6, <2>1
<1>8. DOMAIN r = 1..(NativeOf(b, i) + l)
  BY <1>7
<1>9. NativeOf(b, i) = 1 => r[1] = d
  BY <1>6, <1>7
<1>10. ASSUME NEW k \in 1..l
       PROVE  r[NativeOf(b, i) + k] = DecodeLogAsTransfer(tx, b.logs[e[k]])
  <2>1. /\ NativeOf(b, i) + k \in 1..(NativeOf(b, i) + l)
        /\ ~ (NativeOf(b, i) + k <= NativeOf(b, i))
        /\ (NativeOf(b, i) + k) - NativeOf(b, i) = k
    BY <1>4
  <2>2. r[NativeOf(b, i) + k] = c[k]
    BY <1>7, <2>1
  <2> QED BY <1>2, <2>2
<1>11. NativeOf(b, i) = 1 => r[1] = ConvertNativeTransfer(b.txs[i])
  BY <1>9 DEF d
<1>12. TransfersAt(b, i, r, e, l)
  BY <1>2, <1>8, <1>10, <1>11 DEF TransfersAt
<1> QED BY <1>12 DEF r

-----------------------------------------------------------------------------
(* What moves in a block.                                                   *)

NativeMove(b, i) ==
    [tx |-> b.txs[i].hash, place |-> 1, of |-> [address |-> Empty, token |-> Empty],
     from |-> b.txs[i].from, to |-> b.txs[i].to, value |-> b.txs[i].value]
TokenMove(b, i, j) ==
    [tx |-> b.txs[i].hash,
     place |-> NativeOf(b, i) + Cardinality({k \in TokensOf(b, i) : k <= j}),
     of |-> [address |-> b.logs[j].address, token |-> Empty],
     from |-> b.logs[j].topics[2], to |-> b.logs[j].topics[3], value |-> b.logs[j].data]
ToldMove(p, i, k) ==
    [tx |-> p[i].id, place |-> k, of |-> ChainCurrencyFromString(p[i].transfers[k].currency),
     from |-> p[i].transfers[k].from, to |-> p[i].transfers[k].to,
     value |-> p[i].transfers[k].value]

LEMMA MovesOfBlock ==
    ASSUME NEW b, NEW x
    PROVE  x \in MovesOf(b) <=>
              \E i \in DOMAIN b.txs : \/ (NativeOf(b, i) = 1 /\ x = NativeMove(b, i))
                                      \/ (\E j \in TokensOf(b, i) : x = TokenMove(b, i, j))
<1>1. MovesOf(b) = {NativeMove(b, i) : i \in {n \in DOMAIN b.txs : NativeOf(b, n) = 1}}
                   \cup UNION {{TokenMove(b, i, j) : j \in TokensOf(b, i)} : i \in DOMAIN b.txs}
  BY DEF MovesOf, NativeMove, TokenMove, NativeOf, TokensOf
<1> QED BY <1>1

LEMMA MovesToldOfBlock ==
    ASSUME NEW p, NEW x
    PROVE  x \in MovesTold(p) <=>
              \E i \in DOMAIN p : \E k \in DOMAIN p[i].transfers : x = ToldMove(p, i, k)
<1>1. MovesTold(p) = UNION {{ToldMove(p, i, k) : k \in DOMAIN p[i].transfers} : i \in DOMAIN p}
  BY DEF MovesTold, ToldMove
<1> QED BY <1>1

\* Of each transaction: its first transfer is the native one, if there is one, and
\* the others are its tokens' at the places of their logs.
LEMMA MovesOfTransaction ==
    ASSUME NEW b \in RpcBlocks, NEW i \in DOMAIN b.txs, NEW p, p = EthBlockToProto(b), NEW x
    PROVE  (\E k \in DOMAIN p[i].transfers : x = ToldMove(p, i, k)) <=>
              \/ NativeOf(b, i) = 1 /\ x = NativeMove(b, i)
              \/ \E j \in TokensOf(b, i) : x = TokenMove(b, i, j)
<1> DEFINE n == NativeOf(b, i)
           r == p[i].transfers
<1>a. PICK l \in Nat : \E e : TransfersAt(b, i, r, e, l)
  BY Transfers
<1>0. PICK e : TransfersAt(b, i, r, e, l)
  BY <1>a
<1>1. /\ Enumerates(e, l, TokensOf(b, i))
      /\ DOMAIN r = 1..(n + l)
      /\ n = 1 => r[1] = ConvertNativeTransfer(b.txs[i])
      /\ \A k \in 1..l : r[n + k] = DecodeLogAsTransfer(b.txs[i], b.logs[e[k]])
  BY <1>0 DEF TransfersAt
<1>2. n \in {0, 1}
  BY DEF NativeOf
<1>3. p[i].id = b.txs[i].hash
  BY DEF EthBlockToProto, ConvertTx
<1>4. TokensOf(b, i) \in SUBSET Nat
  BY BlockTypes DEF TokensOf
<1>5. ASSUME n = 1 PROVE 1 \in DOMAIN r /\ ToldMove(p, i, 1) = NativeMove(b, i)
  <2>1. r[1] = ConvertNativeTransfer(b.txs[i]) /\ 1 \in DOMAIN r
    BY <1>1, <1>5
  <2>2. ChainCurrencyFromString(<<Empty>>) = [address |-> Empty, token |-> Empty]
    BY DEF ChainCurrencyFromString
  <2> HIDE DEF n
  <2> QED BY <1>3, <2>1, <2>2 DEF ToldMove, NativeMove, ConvertNativeTransfer
<1>6. ASSUME NEW m \in 1..l
      PROVE  n + m \in DOMAIN r /\ e[m] \in TokensOf(b, i)
             /\ ToldMove(p, i, n + m) = TokenMove(b, i, e[m])
  <2>1. e[m] \in TokensOf(b, i)
    BY <1>1 DEF Enumerates
  <2>2. Cardinality({k \in TokensOf(b, i) : k <= e[m]}) = m
    <3>1. Enumerates(e, l, TokensOf(b, i))
      BY <1>1
    <3> QED BY <1>4, <3>1, PlaceIsNumber, Zenon
  <2>3. r[n + m] = DecodeLogAsTransfer(b.txs[i], b.logs[e[m]]) /\ n + m \in DOMAIN r
    <3> HIDE DEF n, r
    <3>1. n + m \in 1..(n + l)
      BY <1>2
    <3> QED BY <1>1, <3>1, Zenon
  <2>4. ChainCurrencyFromString(<<b.logs[e[m]].address>>)
        = [address |-> b.logs[e[m]].address, token |-> Empty]
    BY DEF ChainCurrencyFromString
  <2> HIDE DEF n
  <2>5. ToldMove(p, i, n + m) = TokenMove(b, i, e[m])
    BY <1>3, <2>2, <2>3, <2>4 DEF ToldMove, TokenMove, DecodeLogAsTransfer, n
  <2> QED BY <2>1, <2>3, <2>5
<1>7. ASSUME NEW k \in DOMAIN r, ~ (n = 1 /\ k = 1) PROVE \E m \in 1..l : k = n + m
  <2>1. k \in 1..(n + l) /\ k - n \in 1..l /\ k = n + (k - n)
    BY <1>1, <1>2, <1>7
  <2> QED BY <2>1
<1>8. \A j \in TokensOf(b, i) : \E m \in 1..l : e[m] = j
  BY <1>1 DEF Enumerates
<1> HIDE DEF n, r
<1>9. ASSUME NEW k \in DOMAIN r, x = ToldMove(p, i, k)
      PROVE  \/ n = 1 /\ x = NativeMove(b, i)
             \/ \E j \in TokensOf(b, i) : x = TokenMove(b, i, j)
  <2>1. CASE n = 1 /\ k = 1
    BY <1>5, <1>9, <2>1
  <2>2. CASE ~ (n = 1 /\ k = 1)
    <3>1. PICK m \in 1..l : k = n + m
      BY <1>7, <2>2
    <3> QED BY <1>6, <1>9, <3>1
  <2> QED BY <2>1, <2>2
<1>10. ASSUME n = 1, x = NativeMove(b, i) PROVE \E k \in DOMAIN r : x = ToldMove(p, i, k)
  BY <1>5, <1>10
<1>11. ASSUME NEW j \in TokensOf(b, i), x = TokenMove(b, i, j)
       PROVE  \E k \in DOMAIN r : x = ToldMove(p, i, k)
  <2>1. PICK m \in 1..l : e[m] = j
    BY <1>8
  <2> QED BY <1>6, <1>11, <2>1
<1> QED BY <1>9, <1>10, <1>11 DEF n, r

LEMMA MovesAreTold ==
    ASSUME NEW b \in RpcBlocks
    PROVE  MovesTold(EthBlockToProto(b)) = MovesOf(b)
<1> DEFINE p == EthBlockToProto(b)
<1>1. DOMAIN p = DOMAIN b.txs
  BY DEF EthBlockToProto
<1> HIDE DEF p
<1>2. ASSUME NEW x PROVE x \in MovesTold(p) <=> x \in MovesOf(b)
  <2>1. p = EthBlockToProto(b)
    BY DEF p
  <2>2. \A i \in DOMAIN b.txs :
          (\E k \in DOMAIN p[i].transfers : x = ToldMove(p, i, k)) <=>
              \/ NativeOf(b, i) = 1 /\ x = NativeMove(b, i)
              \/ \E j \in TokensOf(b, i) : x = TokenMove(b, i, j)
    BY <2>1, MovesOfTransaction
  <2> QED BY <1>1, <2>2, MovesOfBlock, MovesToldOfBlock
<1>3. MovesTold(p) = MovesOf(b)
  BY <1>2
<1> QED BY <1>3 DEF p

BlockInv ==
    /\ form = "rpcBlock" => value \in RpcBlocks /\ meaning = MovesOf(value)
    /\ form = "protoBlock" =>
         \E b \in RpcBlocks : value = EthBlockToProto(b) /\ meaning = MovesOf(b)

LEMMA BlockActions ==
    ASSUME Next
    PROVE  ConvertBlock \/ form' \notin {"rpcBlock", "protoBlock"}
BY DEF Next, ParseCurrency, PrintCurrency, NormCurrency, ParseToken, PrintToken, ParseChain,
       PrintChain, PrintProto, NormChain, ReadHex, PrintHex, Fix, ReadQuantity, PrintQuantity,
       Pad, Trim, ReadUint256, MakeUint256, ReadJson, Step

LEMMA BlockInvHolds == Spec => []BlockInv
<1>1. Init => BlockInv
  BY DEF Init, BlockInv, Starts, Meaning
<1>2. BlockInv /\ [Next]_vars => BlockInv'
  <2> SUFFICES ASSUME BlockInv, [Next]_vars PROVE BlockInv' OBVIOUS
  <2>1. CASE ConvertBlock
    <3>1. /\ form = "rpcBlock" /\ form' = "protoBlock" /\ meaning' = meaning
          /\ value' = EthBlockToProto(value)
      BY <2>1 DEF ConvertBlock, Step
    <3> QED BY <3>1 DEF BlockInv
  <2>2. CASE form' \notin {"rpcBlock", "protoBlock"}
    BY <2>2 DEF BlockInv
  <2>3. CASE UNCHANGED vars
    BY <2>3 DEF BlockInv, vars
  <2> QED BY <2>1, <2>2, <2>3, BlockActions
<1> QED BY <1>1, <1>2, PTL DEF Spec

\* A converted block tells every move, once, in order and under its transaction,
\* for blocks with any number of transactions and logs (loadAndGroupLogs,
\* EthBlockToProto, ConvertNativeTransfer, ConvertERC20Transfer).
THEOREM TransfersAreKept == Spec => []TransfersKept
<1>1. BlockInv => TransfersKept
  BY MovesAreTold DEF BlockInv, TransfersKept, Meaning
<1> QED BY <1>1, BlockInvHolds, PTL

-----------------------------------------------------------------------------
(* The identities of transfers.                                             *)

LEMMA IdParts ==
    ASSUME NEW h, NEW g, NEW d \in Seq(Bytes), NEW f \in Seq(Bytes), <<h>> \o d = <<g>> \o f
    PROVE  h = g /\ d = f
<1> DEFINE S == {h, g} \cup Bytes
           s == <<h>>
           t == <<g>>
<1>1. d \in Seq(S) /\ f \in Seq(S) /\ Len(d) \in Nat /\ Len(f) \in Nat
  <2>1. Bytes \subseteq S
    OBVIOUS
  <2> HIDE DEF S
  <2>2. d \in Seq(S) /\ f \in Seq(S)
    BY <2>1, SeqMonotonic, Zenon
  <2> QED BY <2>2
<1>2. s \in Seq(S) /\ t \in Seq(S) /\ Len(s) = 1 /\ Len(t) = 1 /\ s[1] = h /\ t[1] = g
  OBVIOUS
<1>3. s \o d = t \o f
  OBVIOUS
<1> HIDE DEF S, s, t
<1>4. /\ Len(s \o d) = 1 + Len(d)
      /\ \A i \in 1..(1 + Len(d)) : (s \o d)[i] = IF i <= 1 THEN s[i] ELSE d[i - 1]
  <2>1. /\ Len(s \o d) = Len(s) + Len(d)
        /\ \A i \in 1..(Len(s) + Len(d)) :
              (s \o d)[i] = IF i <= Len(s) THEN s[i] ELSE d[i - Len(s)]
    BY <1>1, <1>2, ConcatProperties, Zenon
  <2> QED BY <1>1, <1>2, <2>1
<1>5. /\ Len(t \o f) = 1 + Len(f)
      /\ \A i \in 1..(1 + Len(f)) : (t \o f)[i] = IF i <= 1 THEN t[i] ELSE f[i - 1]
  <2>1. /\ Len(t \o f) = Len(t) + Len(f)
        /\ \A i \in 1..(Len(t) + Len(f)) :
              (t \o f)[i] = IF i <= Len(t) THEN t[i] ELSE f[i - Len(t)]
    BY <1>1, <1>2, ConcatProperties, Zenon
  <2> QED BY <1>1, <1>2, <2>1
<1>6. Len(d) = Len(f)
  BY <1>1, <1>3, <1>4, <1>5
<1>7. h = g
  <2>1. 1 \in 1..(1 + Len(d)) /\ 1 \in 1..(1 + Len(f))
    BY <1>1
  <2> QED BY <1>2, <1>3, <1>4, <1>5, <2>1
<1>8. ASSUME NEW i \in 1..Len(d) PROVE d[i] = f[i]
  <2>1. i + 1 \in 1..(1 + Len(d)) /\ i + 1 \in 1..(1 + Len(f)) /\ ~ (i + 1 <= 1) /\ (i + 1) - 1 = i
    BY <1>1, <1>6
  <2>2. (s \o d)[i + 1] = d[i] /\ (t \o f)[i + 1] = f[i]
    BY <1>4, <1>5, <2>1
  <2> QED BY <1>3, <2>2
<1>9. d = f
  BY <1>6, <1>8, SeqEqual
<1> QED BY <1>7, <1>9

\* The bytes after the hash in an identity are a zero for the native transfer,
\* and no zero comes first in those of a token.
TellsIts(t, hash) ==
    \E d \in Seq(Bytes) :
        /\ t.id = <<hash>> \o d
        /\ IF t.currency = <<Empty>> THEN d = <<0>> ELSE d # <<0>>

LEMMA IdOfTransfer ==
    ASSUME NEW b \in RpcBlocks, NEW i \in DOMAIN b.txs,
           NEW k \in DOMAIN EthBlockToProto(b)[i].transfers
    PROVE  TellsIts(EthBlockToProto(b)[i].transfers[k], b.txs[i].hash)
<1> DEFINE n == NativeOf(b, i)
           r == EthBlockToProto(b)[i].transfers
           tx == b.txs[i]
<1>a. PICK l \in Nat : \E e : TransfersAt(b, i, r, e, l)
  BY Transfers
<1>0. PICK e : TransfersAt(b, i, r, e, l)
  BY <1>a
<1>1. /\ Enumerates(e, l, TokensOf(b, i))
      /\ DOMAIN r = 1..(n + l)
      /\ n = 1 => r[1] = ConvertNativeTransfer(tx)
      /\ \A m \in 1..l : r[n + m] = DecodeLogAsTransfer(tx, b.logs[e[m]])
  BY <1>0 DEF TransfersAt
<1>2. n \in {0, 1}
  BY DEF NativeOf
<1> HIDE DEF r, n
<1>3. CASE n = 1 /\ k = 1
  <2>1. r[k].id = <<tx.hash>> \o <<0>> /\ r[k].currency = <<Empty>>
    BY <1>1, <1>3 DEF ConvertNativeTransfer
  <2>2. <<0>> \in Seq(Bytes)
    BY DigitsAreNumbers
  <2> QED BY <2>1, <2>2 DEF TellsIts, r
<1>4. CASE ~ (n = 1 /\ k = 1)
  <2>1. k \in 1..(n + l)
    BY <1>1 DEF r
  <2>2. k - n \in 1..l /\ k = n + (k - n)
    BY <1>2, <1>4, <2>1
  <2> DEFINE log == b.logs[e[k - n]]
  <2>3. e[k - n] \in TokensOf(b, i)
    BY <1>1, <2>2 DEF Enumerates
  <2>4. log.txIndex \in Nat /\ log.address # Empty
    BY <2>3, RpcBlocksAssumption DEF TokensOf
  <2> DEFINE d == TxIndexBytes(log.txIndex)
  <2>5. d \in Seq(Bytes) /\ d # <<0>>
    <3>1. Base * Base \in Nat \ {0, 1}
      <4>1. Base \in Nat /\ Base >= 2
        BY BaseAssumption
      <4> QED BY <4>1
    <3>2. d \in Seq(Bytes) /\ (d # <<>> => d[1] # 0)
      <4> HIDE DEF log
      <4> QED BY <2>4, <3>1, DigitsOfNumber DEF TxIndexBytes, Bytes
    <3> HIDE DEF d
    <3> QED BY <3>2
  <2>6. r[k] = DecodeLogAsTransfer(tx, log)
    BY <1>1, <2>2
  <2> HIDE DEF log
  <2>7. r[k].id = <<tx.hash>> \o d /\ r[k].currency = <<log.address>>
    BY <2>6 DEF DecodeLogAsTransfer
  <2>8. <<log.address>> # <<Empty>>
    BY <2>4
  <2> HIDE DEF d
  <2> QED BY <2>5, <2>7, <2>8 DEF TellsIts, r
<1> QED BY <1>3, <1>4

IdsTellIn(p) ==
    \A i, j \in DOMAIN p : \A k \in DOMAIN p[i].transfers, l \in DOMAIN p[j].transfers :
        p[i].transfers[k].id = p[j].transfers[l].id =>
            /\ i = j
            /\ p[i].transfers[k].currency = <<Empty>> <=> p[j].transfers[l].currency = <<Empty>>

LEMMA IdsTell ==
    ASSUME NEW b \in RpcBlocks
    PROVE  IdsTellIn(EthBlockToProto(b))
<1> DEFINE p == EthBlockToProto(b)
<1>0. DOMAIN p = DOMAIN b.txs
  BY DEF EthBlockToProto
<1>1. \A i \in DOMAIN p : \A k \in DOMAIN p[i].transfers :
        i \in DOMAIN b.txs /\ TellsIts(p[i].transfers[k], b.txs[i].hash)
  BY <1>0, IdOfTransfer
<1> HIDE DEF p
<1> SUFFICES ASSUME NEW i \in DOMAIN p, NEW j \in DOMAIN p,
                    NEW k \in DOMAIN p[i].transfers, NEW l \in DOMAIN p[j].transfers,
                    p[i].transfers[k].id = p[j].transfers[l].id
             PROVE  /\ i = j
                    /\ p[i].transfers[k].currency = <<Empty>>
                         <=> p[j].transfers[l].currency = <<Empty>>
  BY Zenon DEF IdsTellIn, p
<1> DEFINE t == p[i].transfers[k]
           u == p[j].transfers[l]
           h == b.txs[i].hash
           g == b.txs[j].hash
<1>2. t.id = u.id /\ TellsIts(t, h) /\ TellsIts(u, g)
  BY <1>1
<1> HIDE DEF t, u
<1>3. PICK d \in Seq(Bytes) : /\ t.id = <<h>> \o d
                              /\ IF t.currency = <<Empty>> THEN d = <<0>> ELSE d # <<0>>
  BY <1>2 DEF TellsIts
<1>4. PICK f \in Seq(Bytes) : /\ u.id = <<g>> \o f
                              /\ IF u.currency = <<Empty>> THEN f = <<0>> ELSE f # <<0>>
  BY <1>2 DEF TellsIts
<1>5. h = g /\ d = f
  <2>1. <<h>> \o d = <<g>> \o f
    BY <1>2, <1>3, <1>4, Zenon
  <2> HIDE DEF h, g
  <2>2. \A x, y : <<x>> \o d = <<y>> \o f => x = y /\ d = f
    BY IdParts
  <2> QED BY <2>1, <2>2, Zenon
<1>6. i = j
  BY <1>0, <1>5, RpcBlocksAssumption
<1>7. t.currency = <<Empty>> <=> u.currency = <<Empty>>
  BY <1>3, <1>4, <1>5
<1> QED BY <1>6, <1>7 DEF t, u

\* The identity of a transfer tells its transaction and whether it is a token's
\* (ConvertNativeTransfer, DecodeLogAsTransfer), for any number of transactions:
\* the bytes of a number never are the one zero of a native transfer.
THEOREM IdsTellTheirTransactions == Spec => []IdsTellTransactions
<1>1. BlockInv => IdsTellTransactions
  <2>1. IdsTellTransactions <=> (form = "protoBlock" => IdsTellIn(value))
    BY DEF IdsTellTransactions, IdsTellIn
  <2> QED BY <2>1, IdsTell DEF BlockInv
<1> QED BY <1>1, BlockInvHolds, PTL

-----------------------------------------------------------------------------
(* Types.                                                                   *)

Forms == {"currencyText", "tokenText", "chainText", "currency", "token", "chain", "hex",
          "quantity", "bytes", "number", "panic", "json", "error", "object", "rpcBlock",
          "protoBlock"}

LEMMA FormsHold == Spec => [](form \in Forms)
<1>1. Init => form \in Forms
  BY DEF Init, Forms
<1>2. form \in Forms /\ [Next]_vars => (form \in Forms)'
  BY DEF Forms, Next, ParseCurrency, PrintCurrency, NormCurrency, ParseToken, PrintToken,
         ParseChain, PrintChain, PrintProto, NormChain, ReadHex, PrintHex, Fix, ReadQuantity,
         PrintQuantity, Pad, Trim, ReadUint256, MakeUint256, ReadJson, ConvertBlock, Step, vars
<1> QED BY <1>1, <1>2, PTL DEF Spec

\* Each form of a value has its type.
THEOREM ConversionsTypes == Spec => []TypeOK
<1>1. /\ form \in Forms /\ TokenInv /\ ChainInv /\ CurrencyInv /\ NumberInv /\ FieldsInv
      /\ BlockInv
      => TypeOK
  <2> SUFFICES ASSUME form \in Forms, TokenInv, ChainInv, CurrencyInv, NumberInv, FieldsInv,
                      BlockInv
               PROVE  TypeOK
    OBVIOUS
  <2>1. CASE form \in {"currencyText", "tokenText", "chainText"}
    <3>1. value \in Seq(Parts)
      BY <2>1 DEF TokenInv, ChainInv, CurrencyInv
    <3>2. \A i \in DOMAIN value : value[i] \in Parts
      BY <3>1
    <3> QED BY <2>1, <3>2 DEF TypeOK
  <2>2. CASE form = "currency"
    BY <2>2 DEF TypeOK, CurrencyInv, NormalCurrency
  <2>3. CASE form = "token"
    BY <2>3 DEF TypeOK, TokenInv
  <2>4. CASE form = "chain"
    BY <2>4 DEF TypeOK, ChainInv
  <2>5. CASE form \in {"hex", "quantity"}
    <3>1. value \in Seq(Digits)
      BY <2>5 DEF NumberInv
    <3>2. \A i \in DOMAIN value : value[i] \in Digits
      BY <3>1
    <3> QED BY <2>5, <3>2 DEF TypeOK
  <2>6. CASE form = "bytes"
    <3>1. value \in Seq(Bytes)
      BY <2>6 DEF NumberInv
    <3> QED BY <2>6, <3>1 DEF TypeOK
  <2>7. CASE form \in {"number", "panic"}
    BY <2>7 DEF TypeOK, NumberInv
  <2>8. CASE form \in {"json", "error"}
    <3>1. \A p \in DOMAIN value : value[p] \in FieldTexts
      BY <2>8 DEF FieldsInv
    <3> QED BY <2>8, <3>1 DEF TypeOK
  <2>9. CASE form = "object"
    BY <2>9 DEF TypeOK, FieldsInv
  <2>10. CASE form = "rpcBlock"
    BY <2>10 DEF TypeOK, BlockInv
  <2>11. CASE form = "protoBlock"
    <3>1. PICK b \in RpcBlocks : value = EthBlockToProto(b)
      BY <2>11 DEF BlockInv
    <3>2. ASSUME NEW i \in DOMAIN value PROVE value[i].amount \in Nat
      <4>1. i \in DOMAIN b.txs /\ value[i].amount = b.txs[i].value
        BY <3>1 DEF EthBlockToProto, ConvertTx
      <4> QED BY <4>1, RpcBlocksAssumption
    <3> QED BY <2>11, <3>2 DEF TypeOK
  <2> QED BY <2>1, <2>2, <2>3, <2>4, <2>5, <2>6, <2>7, <2>8, <2>9, <2>10, <2>11 DEF Forms
<1> QED BY <1>1, FormsHold, TokenInvHolds, ChainInvHolds, CurrencyInvHolds, NumberInvHolds,
           FieldsInvHolds, BlockInvHolds, PTL
=============================================================================
