--------------------------- MODULE BalancedClient ---------------------------
(***************************************************************************)
(* The balanced RPC client (commons/jsonrpc/client/balancedclient.go): the *)
(* balancer with JSON-RPC connections, and the metrics of each upstream in *)
(* the registry of the process.                                            *)
(*                                                                         *)
(* A panic is not recovered from: whichever goroutine it happens in, it    *)
(* ends the process.  Connections are only ever ended by Close, the one    *)
(* cause of rpc.ErrClientQuit; go-ethereum's client renews by itself a     *)
(* connection that breaks.                                                 *)
(***************************************************************************)
EXTENDS Balancer

CONSTANT Label     \* Labels of each upstream

ASSUME LabelAssumption == \A c, d \in Clients : Label[c] = Label[d] => c = d
ASSUME ConnectionAssumption == "break" \notin Faults /\ "Call" \notin Ops

VARIABLES
    registered,    \* labels with metrics in the registry
    alive,         \* the process has not ended
    closed         \* Close has been called

clientVars == <<registered, alive, closed>>
allVars == <<vars, clientVars>>

\* NewBalancedClient, then Start.
ClientInit == Init /\ registered = {} /\ alive = TRUE /\ closed = FALSE

\* A step of the balancer; an op without a connection is a nil dereference.
Step(A) ==
    /\ alive /\ A
    /\ alive' = (\A p \in Callers : pc'[p] # "panicked")
    /\ UNCHANGED <<registered, closed>>

Panics == alive /\ alive' = FALSE /\ UNCHANGED <<vars, registered, closed>>

-----------------------------------------------------------------------------
(* Dial and the metrics.                                                    *)

Registers(c) == Label[c] \notin registered

Dial(c) ==
    /\ alive /\ Registers(c)
    /\ DialOk(c)
    /\ registered' = registered \cup {Label[c]}
    /\ UNCHANGED <<alive, closed>>

\* promauto panics on labels that the registry has, also those of the dial that
\* connected this upstream before.
DialPanics ==
    /\ rpc = "visit" /\ rpos \in Clients /\ NeedsDial(rpos)
    /\ ~ Registers(rpos)
    /\ Panics

\* OnConnectionStatusChange: the record of a failed dial has no gauge.
StatusPanics(p) ==
    /\ pc[p] = "mark" /\ cur[p] \in Rotation
    /\ client[cur[p]] = NoHandle
    /\ Panics

Mark(p) ==
    /\ cur[p] \in Rotation => client[cur[p]] # NoHandle
    /\ Step(MarkDisconnected(p))

-----------------------------------------------------------------------------
(* Calls.                                                                   *)

CallContext(p) == Step(CallW(p))

CallEveryUpstream(p) == Step(WalkStart(p) /\ pc'[p] = "every")

Close(p) ==
    /\ alive
    /\ WalkStart(p) /\ pc'[p] = "close"
    /\ closed' = TRUE
    /\ UNCHANGED <<registered, alive>>

IsConnectionErrorAny(err) == TRUE
IsConnectionError(err) == err = "ErrClientQuit"

\* The upstream answers with an error, or does not answer in time.
OpErrs(p) ==
    /\ alive
    /\ pc[p] = "op" /\ use[p] \in Handles \ quit
    /\ pc' = [pc EXCEPT ![p] = IF IsConnectionError("upstream") THEN "mark" ELSE "idle"]
    /\ cur' = [cur EXCEPT ![p] = IF pc'[p] = "mark" THEN @ ELSE 1]
    /\ use' = [use EXCEPT ![p] = NoHandle]
    /\ UNCHANGED <<rotationVars, quotaVars, phase, passVars, observed, quit, clientVars>>

Goes(p) == \/ Step(\/ Retry(p) \/ CtxReturn(p) \/ ReadClient(p) \/ OpReturns(p)
                   \/ WalkNext(p) \/ EveryOpReturns(p) \/ CloseHandle(p) \/ WalkDone(p))
           \/ OpErrs(p) \/ Mark(p) \/ StatusPanics(p)

Uses(p) == \/ CallContext(p) \/ CallEveryUpstream(p) \/ Close(p)
           \/ Step(CtxDone(p)) \/ Goes(p)

ClientReconnector ==
    \/ Step(ConnectStart \/ VisitConnected \/ DialFail \/ Observe \/ Publish)
    \/ \E c \in Clients : Dial(c)
    \/ DialPanics

ClientNext == \/ ClientReconnector
              \/ \E p \in Callers : Uses(p)
              \/ Step(Tick)

ClientFairness ==
    /\ WF_allVars(ClientReconnector)
    /\ \A c \in Clients : SF_allVars(Dial(c))
    /\ \A p \in Callers : WF_allVars(Goes(p))

ClientSpec == ClientInit /\ [][ClientNext]_allVars /\ ClientFairness

-----------------------------------------------------------------------------
(* Properties                                                               *)

\* Until it is closed the client never ends the process, although a second dial
\* of an upstream does: no failure of a call or of a dial leads to one, since an
\* upstream is only taken out for ErrClientQuit (54-67, balancer.go:79-119).
LivesUntilClosed == alive \/ closed

\* An upstream that could not be dialed at the start joins later (67-104).
JoinsInTheEnd ==
    \A c \in Clients : alive /\ ~ closed ~> (c \in Rotation \/ closed)

\* A connection that a record gives up, to a redial or to the zero value of a
\* failed one, has been closed: neither the removal of an upstream nor its redial
\* closes it, so an error that removes it must say that it is (87, 106-119).
NoneAbandoned ==
    [][\A c \in Clients :
          client[c] # NoHandle /\ client'[c] # client[c] => client[c] \in quit]_allVars
=============================================================================
