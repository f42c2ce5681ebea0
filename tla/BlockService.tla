---------------------------- MODULE BlockService ----------------------------
(***************************************************************************)
(* ListBlocks of the Ethereum agent (agents/eth/server/server.go and       *)
(* block.go) and a client that follows the chain with it: the client asks  *)
(* for the blocks after the last one it has received, again and again.     *)
(*                                                                         *)
(* Every RPC call of ListBlocks goes to whatever upstream the balancer     *)
(* selects, so each answer is a choice over what some upstream may say at  *)
(* that moment: upstreams lag behind, and recent blocks may be replaced.   *)
(* Time is counted in slots, and block n is made in slot n. The status of a *)
(* block follows from its age when it is converted, but which block it is   *)
(* was settled when its batch was answered; so what the status promises     *)
(* depends on how long a call may take, MaxCall.                            *)
(***************************************************************************)
EXTENDS Integers, Sequences

CONSTANTS
    Word,          \* 2^64
    DefaultCount,  \* blocks for a request without count (10)
    SafeAge,       \* slots until a block counts as safe (32)
    FinalAge,      \* slots until a block counts as finalised (54)
    ReorgAge,      \* older blocks are never replaced, on any upstream
    MaxCall,       \* slots a call takes at most after its batch is answered
    Want,          \* FinalityStatus the client asks for
    Counts,        \* values of Count it uses; 0 is the same as none
    MaxNow         \* bound: end of time

Unsafe == 1   Safe == 2   Finalized == 3

ASSUME WordAssumption == Word \in Nat \ {0} /\ MaxNow \in Nat
ASSUME AgeAssumption  == /\ SafeAge \in Nat /\ FinalAge \in Nat /\ ReorgAge \in Nat
                         /\ MaxCall \in Nat
                         /\ SafeAge <= FinalAge /\ ReorgAge + MaxCall <= FinalAge
ASSUME WantAssumption == Want \in 0..Finalized
ASSUME CountAssumption == Counts \subseteq 0..(Word - 1) /\ DefaultCount \in 1..(Word - 1)

VARIABLES
    now,       \* time.Now, in slots
    pc,        \* where the call is
    start,     \* req.StartNumber
    top, end,  \* topBlockNumber, endNumber
    batch,     \* the answers to the batch: block number -> block
    fetched,   \* when it was answered
    idx,       \* number of the block in the loop
    status,    \* block.Header.FinalityStatus of that block
    answer,    \* how the last call ended
    received   \* all blocks the client got

vars == <<now, pc, start, top, end, batch, fetched, idx, status, answer, received>>

\* A block is on the chain for good or was replaced; or the upstream has none.
Missing == "missing"
Unanswered == "unanswered"
Kinds == {"canonical", "replaced"}
Blocks == [number : Nat, kind : Kinds]

Init ==
    /\ now = 0
    /\ pc = "idle"
    /\ start = 0 /\ top = 0 /\ end = 0 /\ idx = 0 /\ fetched = 0
    /\ batch = [n \in {} |-> Missing]
    /\ status = Unsafe
    /\ answer = "none"
    /\ received = <<>>

Finish(a) == pc' = "idle" /\ answer' = a

-----------------------------------------------------------------------------

\* The client asks for what follows the last block it has.
NextNumber == IF received = <<>> THEN 0 ELSE received[Len(received)].number + 1

LimitForgotten(count) == count
Limit(count) == IF count = 0 THEN DefaultCount ELSE count

\* endNumber, for a top block of some upstream; all sums are of uint64.
EndOf(s, count, t) ==
    LET stop == (s + Limit(count)) % Word
        past == (t + 1) % Word
    IN  IF stop < past THEN stop ELSE past

\* eth_blockNumber, as an upstream that may lag behind the present slot says it.
Heads == 0..now

GetTop(count, t) ==
    /\ pc = "idle"
    /\ start' = NextNumber /\ top' = t /\ end' = EndOf(NextNumber, count, t)
    /\ idx' = NextNumber
    /\ IF NextNumber >= EndOf(NextNumber, count, t)
       THEN Finish("outOfRange")
       ELSE pc' = "batch" /\ UNCHANGED answer
    /\ UNCHANGED <<now, batch, fetched, status, received>>

\* Where the loop over the batch is.
InLoop == pc \in {"process", "logs", "converted"}

MayBeReplaced(n) == now - n <= ReorgAge

\* The calls of the batch, one for each number, and what becomes of raw.Result
\* and raw.Error: the upstream answers null for what it does not have, which
\* fails to unmarshal as a block; without an answer neither is set.
BlockReqs == start..(end - 1)
Answered(n, h, kind) == IF n <= h THEN kind ELSE Missing
BatchCallContext(h, kinds) == [n \in BlockReqs |-> Answered(n, h, kinds[n])]

\* One batch to one upstream, whose head is h.
GetBatch(h) ==
    /\ pc = "batch"
    /\ \E kinds \in [BlockReqs -> Kinds] :
         /\ \A n \in BlockReqs : kinds[n] = "replaced" => MayBeReplaced(n)
         /\ batch' = BatchCallContext(h, kinds)
    /\ fetched' = now
    /\ pc' = "process"
    /\ UNCHANGED <<now, start, top, end, idx, status, answer, received>>

\* The batch fails as a whole; its calls know nothing of that.
BatchFails ==
    /\ pc = "batch"
    /\ batch' = [n \in BlockReqs |-> Unanswered]
    /\ Finish("error")
    /\ UNCHANGED <<now, start, top, end, fetched, idx, status, received>>

\* RpcCall.ProcessRes: the error of this call of the batch, if it has one.
ProcessRes(n) == batch[n] # Missing

NoBlock ==
    /\ pc = "process" /\ ~ ProcessRes(idx)
    /\ Finish("error")
    /\ UNCHANGED <<now, start, top, end, batch, fetched, idx, status, received>>

\* getBlockFinalityStatus: by the age of the block.
StatusOfEarly(n) == IF now - n >= FinalAge THEN Finalized
                    ELSE IF now - n >= SafeAge THEN Safe ELSE Unsafe
StatusOf(n) == IF now - n > FinalAge THEN Finalized
               ELSE IF now - n > SafeAge THEN Safe ELSE Unsafe

\* EthBlockToProto, up to the request for the logs.
Convert ==
    /\ pc = "process" /\ ProcessRes(idx)
    /\ status' = StatusOf(idx)
    /\ pc' = "logs"
    /\ UNCHANGED <<now, start, top, end, batch, fetched, idx, answer, received>>

\* loadAndGroupLogs has its answer and the transactions are converted.
LoadLogs ==
    /\ pc = "logs"
    /\ pc' = "converted"
    /\ UNCHANGED <<now, start, top, end, batch, fetched, idx, status, answer, received>>

\* The block is not final enough.
TooYoungSkipped ==
    /\ pc = "converted" /\ status < Want
    /\ idx' = idx + 1
    /\ IF idx + 1 < end THEN pc' = "process" /\ UNCHANGED answer ELSE Finish("ok")
    /\ UNCHANGED <<now, start, top, end, batch, fetched, status, received>>
TooYoung ==
    /\ pc = "converted" /\ status < Want
    /\ Finish(IF idx > start THEN "ok" ELSE "outOfRange")
    /\ UNCHANGED <<now, start, top, end, batch, fetched, idx, status, received>>

MoreInclusive == idx + 1 <= end
More == idx + 1 < end

Send ==
    /\ pc = "converted" /\ status >= Want
    /\ received' = Append(received, [number |-> idx, kind |-> batch[idx]])
    /\ idx' = idx + 1
    /\ IF More THEN pc' = "process" /\ UNCHANGED answer ELSE Finish("ok")
    /\ UNCHANGED <<now, start, top, end, batch, fetched, status>>

\* Another RPC call fails, or the client is gone when a block is sent.
Fails ==
    /\ pc \in {"idle", "logs", "converted"}
    /\ Finish("error")
    /\ UNCHANGED <<now, start, top, end, batch, fetched, idx, status, received>>

Tick ==
    /\ now < MaxNow
    /\ InLoop => now - fetched < MaxCall
    /\ now' = now + 1
    /\ UNCHANGED <<pc, start, top, end, batch, fetched, idx, status, answer, received>>

Next == \/ \E count \in Counts, t \in Heads : GetTop(count, t)
        \/ \E h \in Heads : GetBatch(h)
        \/ BatchFails \/ NoBlock \/ Convert \/ LoadLogs \/ TooYoung \/ Send \/ Fails
        \/ Tick

Spec == Init /\ [][Next]_vars

\* StartNumber + Count does not wrap.
Fits(count) == NextNumber + Limit(count) < Word

\* The scheduler runs the call; the client keeps asking, with any counts, and not
\* in the end with such ones only that wrap; an upstream that is up to date
\* answers again and again, and so does one that has the logs.
FairSpec ==
    /\ Spec
    /\ WF_vars(Tick) /\ WF_vars(NoBlock \/ Convert \/ TooYoung)
    /\ SF_vars(\E count \in Counts : Fits(count) /\ GetTop(count, now))
    /\ SF_vars(GetBatch(now))
    /\ SF_vars(LoadLogs) /\ SF_vars(Send)

-----------------------------------------------------------------------------
(* Properties.                                                              *)

TypeOK ==
    /\ now \in 0..MaxNow
    /\ pc \in {"idle", "batch", "process", "logs", "converted"}
    /\ start \in Nat /\ top \in 0..now /\ end \in 0..(Word - 1) /\ idx \in Nat
    /\ fetched \in 0..now
    /\ status \in Unsafe..Finalized
    /\ answer \in {"none", "ok", "outOfRange", "error"}
    /\ received \in Seq(Blocks)
    /\ pc # "idle" => idx \in start..(end - 1)
    /\ InLoop =>
         batch \in [start..(end - 1) -> Kinds \cup {Missing}]

\* The client gets each block number once and in order, without a gap, through
\* errors, lagging upstreams and blocks that are not final yet but become so
\* while the call is at work: the loop of ListBlocks leaves at the first block it
\* cannot send (222-247).
InOrder == \A i \in 1..Len(received) : received[i].number = i - 1

\* A client that asks for finalised blocks never gets one that is replaced,
\* although its status is computed after the batch was answered and before the
\* logs are loaded, as long as calls take at most MaxCall (block.go 28-39, 74;
\* server.go 217-235).
FinalIsForGood ==
    Want = Finalized => \A i \in 1..Len(received) : received[i].kind = "canonical"

\* The client gets every block that is old enough (196-249).
WantAge == IF Want = Finalized THEN FinalAge ELSE IF Want = Safe THEN SafeAge ELSE -1
Follows == \A n \in 0..MaxNow : (now - n > WantAge) ~> (Len(received) > n)
=============================================================================
