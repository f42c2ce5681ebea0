------------------------------ MODULE Balancer ------------------------------
(***************************************************************************)
(* The rate-limiting load balancer of commons/balancer/balancer.go: a      *)
(* fixed list of upstreams, a rotation of the connected ones, a quota per  *)
(* upstream and per second, a goroutine that reconnects, and callers.      *)
(*                                                                         *)
(* Each critical section of c.mu (selectClient, markDisconnected, the      *)
(* publication of a new rotation) is one step.  Everything the code does   *)
(* without the lock (connectClients before line 101, the read of           *)
(* client.client after a selection, CallEveryUpstream, Close) is cut into  *)
(* one step per access of shared state.                                    *)
(***************************************************************************)
EXTENDS Integers, Sequences, SequencesExt

CONSTANTS
    NumClients,   \* the upstreams are 1..NumClients, in configuration order
    Limit,        \* GetLimitRps() of each upstream; 0 means unlimited
    Callers,      \* goroutines that use the balancer
    Handles,      \* connections a Dial may return
    NoHandle,     \* the zero value of T: what a failed Dial returns
    TicksPerSec,  \* clock resolution of the model
    MaxInt64,     \* the quota of an unlimited upstream
    MaxSent,      \* bound: selections of one unlimited upstream per second
    Ops,          \* which entry points the callers use
    Faults        \* "dial": a Dial may fail; "break": a connection may die

Clients == 1..NumClients

ASSUME NumClientsAssumption  == NumClients \in Nat \ {0}
ASSUME LimitAssumption       == Limit \in [Clients -> Nat]
ASSUME HandlesAssumption     == NoHandle \notin Handles
ASSUME TicksPerSecAssumption == TicksPerSec \in Nat \ {0}
ASSUME MaxInt64Assumption    == /\ MaxInt64 \in Nat \ {0}
                                /\ MaxSent \in Nat
                                /\ \A c \in Clients : Limit[c] < MaxInt64
ASSUME OpsAssumption         == /\ Ops \subseteq {"Call", "CallW", "CallEveryUpstream", "Close"}
                                /\ Faults \subseteq {"dial", "break"}

VARIABLES
    connected,     \* c.connected: the rotation
    isConnected,   \* clientRecord.connected
    bucket,        \* clientRecord.bucket
    client,        \* clientRecord.client
    index,         \* c.index (from 0)
    phase,         \* now, in ticks since the start of the calendar second
    elapsed,       \* now - c.lastUpdated, capped at TicksPerSec
    started,       \* Start has returned
    rpc,           \* where connectClients is
    rpos,          \* its loop variable
    newConnected,  \* its local newConnected
    observed,      \* last status given to OnConnectionStatusChange
    pc, cur, use,  \* per caller: position, client record, handle given to op
    quit,          \* handles whose operations end with a connection error
    sent           \* ghost: selections in the current calendar second

rotationVars == <<connected, isConnected, client>>
quotaVars    == <<bucket, index, elapsed, sent>>
passVars     == <<started, rpc, rpos, newConnected>>
callerVars   == <<pc, cur, use>>
vars == <<rotationVars, quotaVars, phase, passVars, observed, callerVars, quit>>

PcValues == {"idle", "chosen", "op", "mark", "sleep", "expired", "panicked",
             "every", "everychosen", "everyop", "close", "closechosen", "closeop"}

Rotation == ToSet(connected)

\* NewBalancerWLog, then Start up to the first iteration of its own pass over
\* the clients: nobody calls the balancer before that pass has ended.
Init ==
    /\ connected = <<>>
    /\ isConnected = [c \in Clients |-> FALSE]
    /\ bucket = Limit
    /\ client = [c \in Clients |-> NoHandle]
    /\ index = 0
    /\ phase \in 0..(TicksPerSec - 1)
    /\ elapsed = phase                     \* lastUpdated = now.Truncate(1s)
    /\ started = FALSE
    /\ rpc = "visit" /\ rpos = 1 /\ newConnected = <<>>
    /\ observed = [c \in Clients |-> FALSE]
    /\ pc = [p \in Callers |-> "idle"]
    /\ cur = [p \in Callers |-> 1]
    /\ use = [p \in Callers |-> NoHandle]
    /\ quit = {}
    /\ sent = [c \in Clients |-> 0]

-----------------------------------------------------------------------------
(* connectClients, run by Start and then by reconnectLoop.                  *)

\* The timer fires and the rotation is not complete (read without the lock).
PassNeededWhenEmpty == connected = <<>>
PassNeeded == Len(connected) # NumClients

ConnectStart ==
    /\ started /\ rpc = "idle"
    /\ PassNeeded
    /\ rpc' = "visit" /\ rpos' = 1 /\ newConnected' = <<>>
    /\ UNCHANGED <<started, rotationVars, quotaVars, phase, observed, callerVars, quit>>

\* if !client.connected
NeedsDialAlways(c) == TRUE
NeedsDial(c) == ~ isConnected[c]

VisitConnected ==
    /\ rpc = "visit" /\ rpos \in Clients
    /\ ~ NeedsDial(rpos)
    /\ newConnected' = Append(newConnected, rpos)
    /\ rpos' = rpos + 1
    /\ UNCHANGED <<started, rpc, rotationVars, quotaVars, phase, observed, callerVars, quit>>

Fresh == Handles \ (Range(client) \cup Range(use))

DialOk(c) ==
    /\ rpc = "visit" /\ rpos = c
    /\ NeedsDial(c)
    /\ \E h \in Fresh :
         /\ client' = [client EXCEPT ![c] = h]
         /\ quit' = quit \ {h}
    /\ newConnected' = Append(newConnected, c)
    /\ isConnected' = [isConnected EXCEPT ![c] = TRUE]
    /\ rpc' = "observe"
    /\ UNCHANGED <<started, rpos, connected, quotaVars, phase, observed, callerVars>>

\* The assignment at line 87 stores the zero value before err is looked at.
DialFail ==
    /\ "dial" \in Faults
    /\ rpc = "visit" /\ rpos \in Clients
    /\ NeedsDial(rpos)
    /\ client' = [client EXCEPT ![rpos] = NoHandle]
    /\ rpos' = rpos + 1
    /\ UNCHANGED <<started, rpc, newConnected, connected, isConnected, quotaVars,
                   phase, observed, callerVars, quit>>

Observe ==
    /\ rpc = "observe"
    /\ observed' = [observed EXCEPT ![rpos] = TRUE]
    /\ rpc' = "visit" /\ rpos' = rpos + 1
    /\ UNCHANGED <<started, newConnected, rotationVars, quotaVars, phase, callerVars, quit>>

NextRotationAppended == connected \o newConnected
NextRotation == newConnected

Publish ==
    /\ rpc = "visit" /\ rpos \notin Clients
    /\ connected' = NextRotation
    /\ started' = TRUE
    /\ rpc' = "idle" /\ rpos' = 1 /\ newConnected' = <<>>
    /\ UNCHANGED <<isConnected, client, quotaVars, phase, observed, callerVars, quit>>

-----------------------------------------------------------------------------
(* selectClient, under c.mu.  The three disjuncts are its three results;    *)
(* "none" is where Call and CallW go on when the result is nil.             *)

DueEarly == elapsed >= TicksPerSec - 1
Due == elapsed >= TicksPerSec

EffLimit(c) == IF Limit[c] > 0 THEN Limit[c] ELSE MaxInt64

\* The buckets after lines 134-144: only members of the rotation are refilled.
RefilledForgotten == bucket
Refilled ==
    [c \in Clients |-> IF Due /\ c \in Rotation THEN EffLimit(c) ELSE bucket[c]]

\* client.bucket > 0
HasQuotaOrZero(c) == Refilled[c] >= 0
HasQuota(c) == Refilled[c] > 0

Exhausted == \A i \in DOMAIN connected : ~ HasQuota(connected[i])

\* c.lastUpdated becomes the start of the current calendar second.
SinceRefillExact == IF Due THEN 0 ELSE elapsed
SinceRefill == IF Due THEN phase ELSE elapsed

First == IF index >= Len(connected) THEN 0 ELSE index

AfterStaying(i) == i
After(i) == (i + 1) % Len(connected)

\* The first position whose client has the largest bucket.
Richest(i) ==
    /\ HasQuota(connected[i])
    /\ \A j \in DOMAIN connected :
         /\ Refilled[connected[j]] <= Refilled[connected[i]]
         /\ j < i => Refilled[connected[j]] < Refilled[connected[i]]

Take(p, c) ==
    /\ Limit[c] > 0 \/ sent[c] < MaxSent
    /\ bucket' = [Refilled EXCEPT ![c] = @ - 1]
    /\ sent' = [sent EXCEPT ![c] = @ + 1]
    /\ elapsed' = SinceRefill
    /\ cur' = [cur EXCEPT ![p] = c]
    /\ pc' = [pc EXCEPT ![p] = "chosen"]
    /\ UNCHANGED <<rotationVars, phase, passVars, observed, use, quit>>

TakeNext(p) ==
    /\ connected # <<>>
    /\ HasQuota(connected[First + 1])
    /\ index' = After(First)
    /\ Take(p, connected[First + 1])

TakeRichest(p) ==
    /\ connected # <<>>
    /\ ~ HasQuota(connected[First + 1])
    /\ \E i \in DOMAIN connected : Richest(i) /\ Take(p, connected[i])
    /\ index' = First

TakeNone(p, none) ==
    /\ Exhausted
    /\ bucket' = Refilled
    /\ elapsed' = SinceRefill
    /\ index' = First
    /\ pc' = [pc EXCEPT ![p] = none]
    /\ UNCHANGED <<rotationVars, sent, phase, passVars, observed, cur, use, quit>>

SelectClient(p, none) == TakeNext(p) \/ TakeRichest(p) \/ TakeNone(p, none)

-----------------------------------------------------------------------------
(* Call and CallW                                                           *)

Call(p) ==
    /\ "Call" \in Ops /\ started /\ pc[p] = "idle"
    /\ SelectClient(p, "idle")             \* nil: return ErrNoUpstream

CallW(p) ==
    /\ "CallW" \in Ops /\ started /\ pc[p] = "idle"
    /\ SelectClient(p, "sleep")

\* sleepContext ran to its end and the context is still live: next iteration.
Retry(p) ==
    /\ pc[p] = "sleep"
    /\ SelectClient(p, "sleep")

\* The context is consulted by the sleep and right after it, nowhere else.
CtxDone(p) ==
    /\ pc[p] = "sleep"
    /\ pc' = [pc EXCEPT ![p] = "expired"]
    /\ UNCHANGED <<rotationVars, quotaVars, phase, passVars, observed, cur, use, quit>>

CtxReturn(p) ==
    /\ pc[p] = "expired"
    /\ pc' = [pc EXCEPT ![p] = "idle"]
    /\ UNCHANGED <<rotationVars, quotaVars, phase, passVars, observed, cur, use, quit>>

\* client.client is read after the lock was given back (194, 218), or without
\* any lock at all (231, 239).
ReadClient(p) ==
    /\ \/ pc[p] = "chosen"      /\ pc' = [pc EXCEPT ![p] = "op"]
       \/ pc[p] = "everychosen" /\ pc' = [pc EXCEPT ![p] = "everyop"]
       \/ pc[p] = "closechosen" /\ pc' = [pc EXCEPT ![p] = "closeop"]
    /\ use' = [use EXCEPT ![p] = client[cur[p]]]
    /\ UNCHANGED <<rotationVars, quotaVars, phase, passVars, observed, cur, quit>>

\* What op of CallContext and BatchCallContext does with the handle: the zero
\* Upstream has no Client to call, and a dead one gives ErrClientQuit, for which
\* IsConnectionError holds; any other error is the caller's.
OpOutcome(h) == CASE h = NoHandle -> "panicked"
                  [] h \in quit   -> "mark"
                  [] OTHER        -> "idle"

OpReturns(p) ==
    /\ pc[p] = "op"
    /\ pc' = [pc EXCEPT ![p] = OpOutcome(use[p])]
    /\ cur' = [cur EXCEPT ![p] = IF pc'[p] = "mark" THEN @ ELSE 1]
    /\ use' = [use EXCEPT ![p] = NoHandle]
    /\ UNCHANGED <<rotationVars, quotaVars, phase, passVars, observed, quit>>

FlagsWithoutKept(c) == isConnected
FlagsWithout(c) == [isConnected EXCEPT ![c] = FALSE]

\* markDisconnected, under c.mu: it looks for the client, not for the handle
\* whose operation failed.
MarkDisconnected(p) ==
    /\ pc[p] = "mark"
    /\ pc' = [pc EXCEPT ![p] = "idle"]
    /\ cur' = [cur EXCEPT ![p] = 1]
    /\ \/ /\ cur[p] \notin Rotation
          /\ UNCHANGED <<connected, isConnected, observed>>
       \/ \E i \in DOMAIN connected :
            /\ connected[i] = cur[p]
            /\ \A j \in 1..(i - 1) : connected[j] # cur[p]
            /\ connected' = RemoveAt(connected, i)
            /\ isConnected' = FlagsWithout(cur[p])
            /\ observed' = [observed EXCEPT ![cur[p]] = FALSE]
    /\ UNCHANGED <<client, quotaVars, phase, passVars, use, quit>>

-----------------------------------------------------------------------------
(* CallEveryUpstream and Close walk over c.clients without the lock.        *)

WalkStart(p) ==
    /\ started /\ pc[p] = "idle"
    /\ \/ "CallEveryUpstream" \in Ops /\ pc' = [pc EXCEPT ![p] = "every"]
       \/ "Close" \in Ops /\ pc' = [pc EXCEPT ![p] = "close"]
    /\ cur' = [cur EXCEPT ![p] = 1]
    /\ UNCHANGED <<rotationVars, quotaVars, phase, passVars, observed, use, quit>>

\* if client.connected (228, 238): go on with its handle, else continue.
WalkNext(p) ==
    /\ pc[p] \in {"every", "close"} /\ cur[p] \in Clients
    /\ \/ /\ isConnected[cur[p]]
          /\ pc' = [pc EXCEPT ![p] = IF @ = "every" THEN "everychosen" ELSE "closechosen"]
          /\ UNCHANGED cur
       \/ /\ ~ isConnected[cur[p]]
          /\ cur' = [cur EXCEPT ![p] = @ + 1]
          /\ UNCHANGED pc
    /\ UNCHANGED <<rotationVars, quotaVars, phase, passVars, observed, use, quit>>

\* The error of op is kept for the result; no client is marked disconnected.
EveryOpReturns(p) ==
    /\ pc[p] = "everyop"
    /\ pc' = [pc EXCEPT ![p] = IF use[p] = NoHandle THEN "panicked" ELSE "every"]
    /\ cur' = [cur EXCEPT ![p] = @ + 1]
    /\ use' = [use EXCEPT ![p] = NoHandle]
    /\ UNCHANGED <<rotationVars, quotaVars, phase, passVars, observed, quit>>

\* client.client.Close(): the record stays connected and in the rotation.
CloseHandle(p) ==
    /\ pc[p] = "closeop"
    /\ pc' = [pc EXCEPT ![p] = IF use[p] = NoHandle THEN "panicked" ELSE "close"]
    /\ quit' = quit \cup ({use[p]} \ {NoHandle})
    /\ cur' = [cur EXCEPT ![p] = @ + 1]
    /\ use' = [use EXCEPT ![p] = NoHandle]
    /\ UNCHANGED <<rotationVars, quotaVars, phase, passVars, observed>>

WalkDone(p) ==
    /\ pc[p] \in {"every", "close"} /\ cur[p] \notin Clients
    /\ pc' = [pc EXCEPT ![p] = "idle"]
    /\ cur' = [cur EXCEPT ![p] = 1]
    /\ UNCHANGED <<rotationVars, quotaVars, phase, passVars, observed, use, quit>>

-----------------------------------------------------------------------------
(* The environment: connections die, the wall clock advances.               *)

ConnBreaks(c) ==
    /\ "break" \in Faults
    /\ client[c] \in Handles \ quit
    /\ quit' = quit \cup {client[c]}
    /\ UNCHANGED <<rotationVars, quotaVars, phase, passVars, observed, callerVars>>

Tick ==
    /\ phase' = (phase + 1) % TicksPerSec
    /\ elapsed' = IF Due THEN elapsed ELSE elapsed + 1
    /\ sent' = IF phase' = 0 THEN [c \in Clients |-> 0] ELSE sent
    /\ UNCHANGED <<rotationVars, bucket, index, passVars, observed, callerVars, quit>>

Reconnector == \/ ConnectStart \/ VisitConnected \/ DialFail \/ Observe \/ Publish
               \/ \E c \in Clients : DialOk(c)

Caller(p) == \/ Call(p) \/ CallW(p) \/ Retry(p) \/ CtxDone(p) \/ CtxReturn(p)
             \/ ReadClient(p) \/ OpReturns(p) \/ MarkDisconnected(p)
             \/ WalkStart(p) \/ WalkNext(p) \/ EveryOpReturns(p)
             \/ CloseHandle(p) \/ WalkDone(p)

Next == \/ Reconnector
        \/ \E p \in Callers : Caller(p)
        \/ \E c \in Clients : ConnBreaks(c)
        \/ Tick

Spec == Init /\ [][Next]_vars

-----------------------------------------------------------------------------
(* Fairness: the Go scheduler runs every goroutine that is not blocked, the  *)
(* clock advances, the context of a CallW ends, and an upstream that is      *)
(* dialed again and again eventually accepts.  Callers need not make calls.  *)

CallerProgress(p) == \/ Retry(p) \/ CtxReturn(p) \/ ReadClient(p) \/ OpReturns(p)
                     \/ MarkDisconnected(p) \/ WalkNext(p) \/ EveryOpReturns(p)
                     \/ CloseHandle(p) \/ WalkDone(p)

SystemFairness ==
    /\ WF_vars(Tick)
    /\ WF_vars(Reconnector)
    /\ \A c \in Clients : SF_vars(DialOk(c))
    /\ \A p \in Callers : WF_vars(CallerProgress(p))

FairSpec == Spec /\ SystemFairness

-----------------------------------------------------------------------------
(* Properties                                                               *)

\* Every variable keeps its type: indexes and loop variables stay in range,
\* and the rotation only ever holds configured clients (records at 21-42).
TypeOK ==
    /\ connected \in Seq(Clients)
    /\ isConnected \in [Clients -> BOOLEAN]
    /\ bucket \in [Clients -> Nat]
    /\ client \in [Clients -> Handles \cup {NoHandle}]
    /\ index \in Nat
    /\ phase \in 0..(TicksPerSec - 1)
    /\ elapsed \in 0..TicksPerSec
    /\ started \in BOOLEAN
    /\ rpc \in {"idle", "visit", "observe"}
    /\ rpos \in 1..(NumClients + 1)
    /\ rpc = "observe" => rpos \in Clients
    /\ newConnected \in Seq(Clients)
    /\ observed \in [Clients -> BOOLEAN]
    /\ pc \in [Callers -> PcValues]
    /\ cur \in [Callers -> 1..(NumClients + 1)]
    /\ \A p \in Callers : pc[p] \notin {"every", "close", "panicked"} => cur[p] \in Clients
    /\ use \in [Callers -> Handles \cup {NoHandle}]
    /\ quit \subseteq Handles
    /\ sent \in [Clients -> Nat]

\* The order of the configuration is kept and no upstream is in the rotation
\* twice, whatever reconnections and removals do to it (84-103, 109-111).
RotationOrdered ==
    \A i, j \in DOMAIN connected : i < j => connected[i] < connected[j]

\* A connected upstream is never forgotten: between two passes it is in the
\* rotation, and during a pass it is already in the next rotation or it is
\* still ahead of the loop and in the present one.  connectClients rebuilds the
\* rotation from flags that markDisconnected clears at the same time (85-103).
NoLostUpstream ==
    \A c \in Clients : isConnected[c] =>
        CASE rpc = "idle" -> c \in Rotation
          [] rpc # "idle" /\ c < rpos -> c \in ToSet(newConnected)
          [] rpc = "observe" /\ c = rpos -> c \in ToSet(newConnected)
          [] OTHER -> c \in Rotation

\* The flag is never set on a record without a connection, although every
\* failed Dial overwrites the handle (87-93).
FlaggedHasHandle ==
    \A c \in Clients : isConnected[c] => client[c] # NoHandle

\* The status callback is told of every connection: a record that is marked
\* connected was last reported as up, or the report is the next step of the
\* pass, even when markDisconnected reports in between (93-96, 112-115).
UpIsReported ==
    \A c \in Clients : isConnected[c] => observed[c] \/ (rpc = "observe" /\ rpos = c)

\* What a mark stands for, whoever changed the record in between (85-119).
MarkedIsUp == FlaggedHasHandle /\ UpIsReported

\* In no calendar second does an upstream with a limit get more operations
\* than GetLimitRps allows, through refills, reconnections and selections by
\* either rule (134-170).
CalendarRate ==
    \A c \in Clients : Limit[c] > 0 => sent[c] <= Limit[c]

\* The balancer implements the quota it promises: see UpstreamQuota.
Quota == INSTANCE UpstreamQuota WITH Upstreams <- Clients, members <- Rotation, used <- sent

\* Selections only go to members with quota left, and only the clock gives
\* quota back; reconnecting, marking and closing never do (79-173).
ImplementsQuota == Quota!Spec

\* With equal quotas and stable connections the upstreams share the load: their
\* remaining quotas never differ by more than one (127-131, 145-153).
EvenLoad ==
    \A c, d \in Rotation : bucket[c] - bucket[d] \in {-1, 0, 1}

\* Nobody is refused while there is quota: when selectClient would return nil,
\* every limited upstream of the rotation was used to its limit in this very
\* calendar second (134-172).  Holds while connections are stable.
RefusedOnlyWhenUsed ==
    Exhausted => \A c \in Rotation : Limit[c] > 0 => sent[c] = Limit[c]

\* An upstream that is out of the rotation comes back (60-104).
Reconnects == \A c \in Clients : c \notin Rotation ~> c \in Rotation

\* CallW: as long as callers sleep for lack of quota or of connections, one of
\* them is served again (205-216), although its context need not end; which one
\* is not promised.
NoGlobalStall ==
    (\E p \in Callers : pc[p] = "sleep") ~> (\E p \in Callers : pc[p] \in {"chosen", "expired"})

-----------------------------------------------------------------------------
(* What the comments of balancer.go promise and the code does not do.       *)

\* Call and CallW "find available client and call op with it" (186): op is given
\* the connection of a client.
OpGetsAvailableClient ==
    \A p \in Callers : pc[p] = "op" => use[p] # NoHandle
=============================================================================
