------------------------- MODULE BlockServiceProofs -------------------------
(***************************************************************************)
(* What a client that follows the chain with ListBlocks can rely on, for   *)
(* any ages, counts and width of the integers: InOrder and FinalIsForGood. *)
(***************************************************************************)
EXTENDS BlockService, TLAPS

\* The block the loop is at is the one the client lacks.
AtNext == pc # "idle" => idx = Len(received)

\* What the age of the batch says of its blocks, before the status is computed.
BatchIsYoung == InLoop => now - fetched <= MaxCall
ReplacedIsYoung ==
    InLoop =>
        \A n \in start..(end - 1) : batch[n] = "replaced" => fetched - n <= ReorgAge

\* What the status says, however much time passes until the logs arrive.
StatusIsForGood ==
    pc \in {"logs", "converted"} =>
        /\ batch[idx] # Missing
        /\ status = Finalized => batch[idx] = "canonical"

IInv == TypeOK /\ InOrder /\ AtNext
        /\ BatchIsYoung /\ ReplacedIsYoung /\ StatusIsForGood /\ FinalIsForGood

\* The number the client asks for is the count of the blocks it has.
LEMMA NextNumberIsCount ==
    ASSUME received \in Seq(Blocks), InOrder
    PROVE  NextNumber = Len(received)
<1>1. CASE received = <<>>
  BY <1>1 DEF NextNumber
<1>2. CASE received # <<>>
  <2>1. Len(received) \in 1..Len(received) BY <1>2
  <2> QED BY <2>1, <1>2 DEF NextNumber, InOrder
<1> QED BY <1>1, <1>2

\* endNumber is a uint64, whatever the request says.
LEMMA EndOfIsWord ==
    ASSUME NEW s \in Nat, NEW count \in Counts, NEW t \in Nat
    PROVE  EndOf(s, count, t) \in 0..(Word - 1)
<1>1. Limit(count) \in Nat BY CountAssumption, WordAssumption DEF Limit
<1>2. \A x \in Nat : x % Word \in 0..(Word - 1) BY WordAssumption
<1> QED BY <1>1, <1>2 DEF EndOf

\* The finality status of a block is one of the three.
LEMMA StatusOfType ==
    ASSUME NEW n \in Nat, now \in Nat
    PROVE  StatusOf(n) \in Unsafe..Finalized
BY AgeAssumption DEF StatusOf, Unsafe, Safe, Finalized

THEOREM InitHolds == Init => IInv
<1> SUFFICES ASSUME Init PROVE IInv OBVIOUS
<1>1. received = <<>> /\ Len(received) = 0 /\ received \in Seq(Blocks)
  BY DEF Init
<1>2. TypeOK
  BY <1>1, WordAssumption DEF Init, TypeOK, InLoop, Unsafe, Finalized
<1>3. InOrder /\ FinalIsForGood
  BY <1>1 DEF InOrder, FinalIsForGood
<1>4. AtNext /\ BatchIsYoung /\ ReplacedIsYoung /\ StatusIsForGood
  BY DEF Init, AtNext, BatchIsYoung, ReplacedIsYoung, StatusIsForGood, InLoop
<1> QED BY <1>2, <1>3, <1>4 DEF IInv

\* A call begins: the range starts at the first block that the client lacks.
LEMMA GetTopHolds ==
    ASSUME IInv, NEW count \in Counts, NEW t \in Heads, GetTop(count, t)
    PROVE  IInv'
<1>1. TypeOK /\ InOrder /\ FinalIsForGood BY DEF IInv
<1>2. NextNumber = Len(received) /\ NextNumber \in Nat
  BY <1>1, NextNumberIsCount DEF TypeOK, InLoop
<1>3. now \in Nat /\ t \in 0..now BY <1>1, WordAssumption DEF Heads, TypeOK, InLoop
<1> DEFINE e == EndOf(NextNumber, count, t)
<1>4. e \in 0..(Word - 1) BY <1>2, <1>3, EndOfIsWord
<1>5. /\ start' = NextNumber /\ top' = t /\ end' = e /\ idx' = NextNumber
      /\ IF NextNumber >= e THEN pc' = "idle" /\ answer' = "outOfRange"
                            ELSE pc' = "batch" /\ answer' = answer
      /\ UNCHANGED <<now, batch, fetched, status, received>>
  BY DEF GetTop, Finish
<1> HIDE DEF e
<1>6. pc' = "batch" => NextNumber < e
  BY <1>2, <1>4, <1>5, WordAssumption
<1>7. TypeOK'
  BY <1>1, <1>2, <1>3, <1>4, <1>5, <1>6, WordAssumption DEF TypeOK, InLoop
<1>8. InOrder' /\ FinalIsForGood'
  BY <1>1, <1>5 DEF InOrder, FinalIsForGood
<1>9. AtNext' /\ BatchIsYoung' /\ ReplacedIsYoung' /\ StatusIsForGood'
  BY <1>2, <1>5 DEF AtNext, BatchIsYoung, ReplacedIsYoung, StatusIsForGood, InLoop
<1> QED BY <1>7, <1>8, <1>9 DEF IInv

\* The batch is answered: it holds only blocks that may be what they are now.
LEMMA GetBatchHolds ==
    ASSUME IInv, NEW h \in Heads, GetBatch(h)
    PROVE  IInv'
<1>1. TypeOK /\ InOrder /\ FinalIsForGood /\ AtNext BY DEF IInv
<1>2. now \in Nat /\ start \in Nat /\ end \in Nat
  BY <1>1, WordAssumption DEF TypeOK, InLoop
<1>3. PICK kinds \in [start..(end - 1) -> Kinds] :
        /\ \A n \in start..(end - 1) : kinds[n] = "replaced" => MayBeReplaced(n)
        /\ batch' = [n \in start..(end - 1) |-> IF n <= h THEN kinds[n] ELSE Missing]
  BY DEF GetBatch, BlockReqs, BatchCallContext, Answered
<1>4. /\ pc = "batch" /\ pc' = "process" /\ fetched' = now
      /\ UNCHANGED <<now, start, top, end, idx, status, answer, received>>
  BY DEF GetBatch
<1>5. batch' \in [start..(end - 1) -> Kinds \cup {Missing}]
  BY <1>3 DEF Kinds, Missing
<1>6. TypeOK'
  <2>1. /\ now' \in 0..MaxNow /\ top' \in 0..now' /\ fetched' \in 0..now'
        /\ start' \in Nat /\ end' \in 0..(Word - 1) /\ idx' \in Nat
        /\ status' \in Unsafe..Finalized /\ received' \in Seq(Blocks)
        /\ answer' \in {"none", "ok", "outOfRange", "error"}
    BY <1>1, <1>2, <1>4 DEF TypeOK
  <2>2. pc' = "process" /\ idx' \in start'..(end' - 1) BY <1>1, <1>4 DEF TypeOK
  <2>3. batch' \in [start'..(end' - 1) -> Kinds \cup {Missing}] BY <1>4, <1>5
  <2> QED BY <2>1, <2>2, <2>3 DEF TypeOK
<1>7. ReplacedIsYoung'
  <2> SUFFICES ASSUME NEW n \in start..(end - 1), batch'[n] = "replaced"
               PROVE  now - n <= ReorgAge
    BY <1>4 DEF ReplacedIsYoung, InLoop
  <2>1. kinds[n] = "replaced" BY <1>2, <1>3 DEF Missing
  <2> QED BY <1>3, <2>1 DEF MayBeReplaced
<1>8. BatchIsYoung'
  BY <1>2, <1>4, AgeAssumption DEF BatchIsYoung, InLoop
<1>9. AtNext' /\ StatusIsForGood' /\ InOrder' /\ FinalIsForGood'
  BY <1>1, <1>4 DEF AtNext, StatusIsForGood, InOrder, FinalIsForGood
<1> QED BY <1>6, <1>7, <1>8, <1>9 DEF IInv

\* The status is computed: a block old enough to be final was too old to be
\* replaced when the batch was answered, at most MaxCall slots ago.
LEMMA ConvertHolds ==
    ASSUME IInv, Convert
    PROVE  IInv'
<1>1. TypeOK /\ InOrder /\ FinalIsForGood /\ AtNext /\ BatchIsYoung /\ ReplacedIsYoung
  BY DEF IInv
<1>2. /\ now \in Nat /\ fetched \in Nat /\ idx \in Nat /\ start \in Nat /\ end \in Nat
      /\ idx \in start..(end - 1)
      /\ batch \in [start..(end - 1) -> Kinds \cup {Missing}]
  BY <1>1, WordAssumption DEF TypeOK, InLoop, Convert
<1>3. /\ pc = "process" /\ pc' = "logs" /\ status' = StatusOf(idx) /\ batch[idx] # Missing
      /\ UNCHANGED <<now, start, top, end, batch, fetched, idx, answer, received>>
  BY DEF Convert, ProcessRes
<1>4. TypeOK'
  BY <1>1, <1>2, <1>3, StatusOfType DEF TypeOK, InLoop
<1>5. StatusIsForGood'
  <2> SUFFICES ASSUME StatusOf(idx) = Finalized PROVE batch[idx] = "canonical"
    BY <1>3 DEF StatusIsForGood
  <2>1. now - idx > FinalAge
    BY <1>2, AgeAssumption DEF StatusOf, Unsafe, Safe, Finalized
  <2>2. now - fetched <= MaxCall
    BY <1>1, <1>3 DEF BatchIsYoung, InLoop
  <2>3. ~(fetched - idx <= ReorgAge)
    BY <1>2, <2>1, <2>2, AgeAssumption
  <2>4. batch[idx] # "replaced"
    BY <1>1, <1>2, <1>3, <2>3 DEF ReplacedIsYoung, InLoop
  <2>5. batch[idx] \in {"canonical", "replaced"}
    BY <1>2, <1>3 DEF Kinds
  <2> QED BY <2>4, <2>5
<1>6. AtNext' /\ BatchIsYoung' /\ ReplacedIsYoung' /\ InOrder' /\ FinalIsForGood'
  BY <1>1, <1>3 DEF AtNext, BatchIsYoung, ReplacedIsYoung, InOrder, FinalIsForGood, InLoop
<1> QED BY <1>4, <1>5, <1>6 DEF IInv

\* The logs arrive: the block and its status stay what they are.
LEMMA LoadLogsHolds ==
    ASSUME IInv, LoadLogs
    PROVE  IInv'
<1>1. /\ TypeOK /\ InOrder /\ FinalIsForGood /\ AtNext /\ BatchIsYoung /\ ReplacedIsYoung
      /\ StatusIsForGood
  BY DEF IInv
<1>2. /\ pc = "logs" /\ pc' = "converted"
      /\ UNCHANGED <<now, start, top, end, batch, fetched, idx, status, answer, received>>
  BY DEF LoadLogs
<1>3. TypeOK' BY <1>1, <1>2 DEF TypeOK, InLoop
<1>4. AtNext' /\ BatchIsYoung' /\ ReplacedIsYoung' /\ StatusIsForGood'
  BY <1>1, <1>2 DEF AtNext, BatchIsYoung, ReplacedIsYoung, StatusIsForGood, InLoop
<1>5. InOrder' /\ FinalIsForGood' BY <1>1, <1>2 DEF InOrder, FinalIsForGood
<1> QED BY <1>3, <1>4, <1>5 DEF IInv

\* A block is sent: it is the next one, and for good if it has to be.
LEMMA SendHolds ==
    ASSUME IInv, Send
    PROVE  IInv'
<1>1. /\ TypeOK /\ InOrder /\ FinalIsForGood /\ AtNext /\ BatchIsYoung /\ ReplacedIsYoung
      /\ StatusIsForGood
  BY DEF IInv
<1> DEFINE b == [number |-> idx, kind |-> batch[idx]]
<1>2. /\ idx \in Nat /\ start \in Nat /\ end \in Nat /\ idx \in start..(end - 1)
      /\ batch \in [start..(end - 1) -> Kinds \cup {Missing}]
      /\ received \in Seq(Blocks) /\ status \in Unsafe..Finalized
  BY <1>1, WordAssumption DEF TypeOK, InLoop, Send
<1>3. /\ pc = "converted" /\ status >= Want /\ received' = Append(received, b) /\ idx' = idx + 1
      /\ IF idx + 1 < end THEN pc' = "process" /\ answer' = answer
                          ELSE pc' = "idle" /\ answer' = "ok"
      /\ UNCHANGED <<now, start, top, end, batch, fetched, status>>
  BY DEF Send, Finish, More
<1>4. idx = Len(received) /\ batch[idx] \in Kinds /\ (status = Finalized => batch[idx] = "canonical")
  BY <1>1, <1>2, <1>3 DEF AtNext, StatusIsForGood
<1>5. b \in Blocks BY <1>2, <1>4 DEF Blocks
<1>6. b.number = idx /\ b.kind = batch[idx] OBVIOUS
<1> HIDE DEF b
<1>7. /\ received' \in Seq(Blocks) /\ Len(received') = idx + 1
      /\ \A i \in 1..Len(received') :
            received'[i] = IF i = Len(received) + 1 THEN b ELSE received[i]
      /\ Len(received) \in Nat
  BY <1>2, <1>3, <1>4, <1>5
<1>8. TypeOK'
  BY <1>1, <1>2, <1>3, <1>7 DEF TypeOK, InLoop
<1>9. InOrder'
  <2> SUFFICES ASSUME NEW i \in 1..Len(received') PROVE received'[i].number = i - 1
    BY DEF InOrder
  <2>1. CASE i = Len(received) + 1 BY <1>2, <1>4, <1>6, <1>7, <2>1
  <2>2. CASE i # Len(received) + 1
    <3>1. i \in 1..Len(received) BY <1>4, <1>7, <2>2
    <3> QED BY <1>1, <1>7, <2>2, <3>1 DEF InOrder
  <2> QED BY <2>1, <2>2
<1>10. FinalIsForGood'
  <2> SUFFICES ASSUME Want = Finalized, NEW i \in 1..Len(received')
               PROVE  received'[i].kind = "canonical"
    BY DEF FinalIsForGood
  <2>1. CASE i = Len(received) + 1
    <3>1. status = Finalized BY <1>2, <1>3 DEF Unsafe, Finalized
    <3> QED BY <1>4, <1>6, <1>7, <2>1, <3>1
  <2>2. CASE i # Len(received) + 1
    <3>1. i \in 1..Len(received) BY <1>4, <1>7, <2>2
    <3> QED BY <1>1, <1>7, <2>2, <3>1 DEF FinalIsForGood
  <2> QED BY <2>1, <2>2
<1>11. AtNext' /\ BatchIsYoung' /\ ReplacedIsYoung' /\ StatusIsForGood'
  BY <1>1, <1>2, <1>3, <1>7 DEF AtNext, BatchIsYoung, ReplacedIsYoung, StatusIsForGood, InLoop
<1> QED BY <1>8, <1>9, <1>10, <1>11 DEF IInv

\* A call ends, with an error or because the block is too young.
LEMMA EndHolds ==
    ASSUME IInv, BatchFails \/ NoBlock \/ TooYoung \/ Fails
    PROVE  IInv'
<1>1. /\ TypeOK /\ InOrder /\ FinalIsForGood
  BY DEF IInv
<1>2. /\ pc' = "idle" /\ answer' \in {"ok", "outOfRange", "error"}
      /\ UNCHANGED <<now, start, top, end, fetched, idx, status, received>>
  BY DEF BatchFails, NoBlock, TooYoung, Fails, Finish
<1>3. TypeOK' BY <1>1, <1>2 DEF TypeOK, InLoop
<1>4. InOrder' /\ FinalIsForGood' BY <1>1, <1>2 DEF InOrder, FinalIsForGood
<1>5. AtNext' /\ BatchIsYoung' /\ ReplacedIsYoung' /\ StatusIsForGood'
  BY <1>2 DEF AtNext, BatchIsYoung, ReplacedIsYoung, StatusIsForGood, InLoop
<1> QED BY <1>3, <1>4, <1>5 DEF IInv

\* Time passes, but not too much while a call is at work.
LEMMA TickHolds ==
    ASSUME IInv, Tick
    PROVE  IInv'
<1>1. /\ TypeOK /\ InOrder /\ FinalIsForGood /\ AtNext /\ BatchIsYoung /\ ReplacedIsYoung
      /\ StatusIsForGood
  BY DEF IInv
<1>2. /\ now < MaxNow /\ now' = now + 1
      /\ InLoop => now - fetched < MaxCall
      /\ UNCHANGED <<pc, start, top, end, batch, fetched, idx, status, answer, received>>
  BY DEF Tick
<1>3. now \in Nat /\ fetched \in Nat BY <1>1, WordAssumption DEF TypeOK, InLoop
<1>4. TypeOK' BY <1>1, <1>2, <1>3, WordAssumption DEF TypeOK, InLoop
<1>5. BatchIsYoung' BY <1>2, <1>3, AgeAssumption DEF BatchIsYoung, InLoop
<1>6. AtNext' /\ ReplacedIsYoung' /\ StatusIsForGood' /\ InOrder' /\ FinalIsForGood'
  BY <1>1, <1>2 DEF AtNext, ReplacedIsYoung, StatusIsForGood, InOrder, InLoop, FinalIsForGood
<1> QED BY <1>4, <1>5, <1>6 DEF IInv

LEMMA StutterHolds == ASSUME IInv, UNCHANGED vars PROVE IInv'
BY DEF IInv, vars, InLoop, TypeOK, InOrder, AtNext, BatchIsYoung, ReplacedIsYoung,
       StatusIsForGood, FinalIsForGood

THEOREM InvariantHolds == Spec => []IInv
<1>1. IInv /\ [Next]_vars => IInv'
  <2> SUFFICES ASSUME IInv, [Next]_vars PROVE IInv' OBVIOUS
  <2>1. CASE \E count \in Counts, t \in Heads : GetTop(count, t) BY <2>1, GetTopHolds
  <2>2. CASE \E h \in Heads : GetBatch(h) BY <2>2, GetBatchHolds
  <2>3. CASE Convert BY <2>3, ConvertHolds
  <2>4. CASE Send BY <2>4, SendHolds
  <2>5. CASE BatchFails \/ NoBlock \/ TooYoung \/ Fails BY <2>5, EndHolds
  <2>6. CASE Tick BY <2>6, TickHolds
  <2>7. CASE UNCHANGED vars BY <2>7, StutterHolds
  <2>8. CASE LoadLogs BY <2>8, LoadLogsHolds
  <2> QED BY <2>1, <2>2, <2>3, <2>4, <2>5, <2>6, <2>7, <2>8 DEF Next
<1> QED BY InitHolds, <1>1, PTL DEF Spec

\* All variables keep their types; the loop stays within its range.
THEOREM FeedTypes == Spec => []TypeOK
<1>1. IInv => TypeOK BY DEF IInv
<1> QED BY <1>1, InvariantHolds, PTL

\* The client gets every block once and in order: the loop is always at the
\* block that the client lacks, and leaves when it cannot send it.
THEOREM FeedIsInOrder == Spec => []InOrder
<1>1. IInv => InOrder BY DEF IInv
<1> QED BY <1>1, InvariantHolds, PTL

\* What is sent as finalised is never replaced, if calls take at most MaxCall
\* slots and ReorgAge + MaxCall <= FinalAge.
THEOREM FinalisedStays == Spec => []FinalIsForGood
<1>1. IInv => FinalIsForGood BY DEF IInv
<1> QED BY <1>1, InvariantHolds, PTL
=============================================================================
