------------------------ MODULE BalancedClientProofs ------------------------
(***************************************************************************)
(* The balanced client, for any number of upstreams, callers and           *)
(* connections: it is a balancer, nothing ends its process before Close,   *)
(* and it gives up no connection that is open.                             *)
(***************************************************************************)
EXTENDS BalancedClient, BalancerProofs

-----------------------------------------------------------------------------
(* The client is a balancer.                                                *)

\* An error of an upstream ends an operation as its success does.
LEMMA ErrorsAreReturns == \A p \in Callers : OpErrs(p) => OpReturns(p)
<1> SUFFICES ASSUME NEW p \in Callers, OpErrs(p) PROVE OpReturns(p)
  OBVIOUS
<1>1. OpOutcome(use[p]) = "idle"
  BY HandlesAssumption DEF OpErrs, OpOutcome
<1>2. ~ IsConnectionError("upstream")
  BY DEF IsConnectionError
<1> QED BY <1>1, <1>2 DEF OpErrs, OpReturns

LEMMA ClientStepIsStep == [ClientNext]_allVars => [Next]_vars
<1> SUFFICES ASSUME [ClientNext]_allVars PROVE [Next]_vars
  OBVIOUS
<1>1. CASE ClientReconnector
  BY <1>1 DEF ClientReconnector, Step, Dial, DialPanics, Panics, Next, Reconnector
<1>2. ASSUME NEW p \in Callers, Goes(p) PROVE [Next]_vars
  BY <1>2, ErrorsAreReturns DEF Goes, Step, Mark, StatusPanics, Panics, Next, Caller
<1>3. ASSUME NEW p \in Callers, CallContext(p) \/ CallEveryUpstream(p) \/ Close(p) \/ Step(CtxDone(p))
      PROVE  [Next]_vars
  BY <1>3 DEF CallContext, CallEveryUpstream, Close, Step, Next, Caller
<1>4. CASE Step(Tick)
  BY <1>4 DEF Step, Next
<1>5. CASE UNCHANGED allVars
  BY <1>5 DEF allVars
<1> QED BY <1>1, <1>2, <1>3, <1>4, <1>5 DEF ClientNext, Uses

\* What holds of every balancer holds of the one with JSON-RPC connections and
\* metrics, panics included.
THEOREM ClientIsBalancer == ClientSpec => Spec
<1>1. ClientInit => Init
  BY DEF ClientInit
<1> QED BY <1>1, ClientStepIsStep, PTL DEF ClientSpec, Spec

\* No connected upstream is lost by the client either.
THEOREM ClientLosesNothing == ClientSpec => []NoLostUpstream
BY ClientIsBalancer, NothingIsLost

\* The client sends no upstream more requests per calendar second than its
\* limit, and only the clock gives quota back, also after it is closed.
THEOREM ClientKeepsQuota == ClientSpec => []CalendarRate /\ ImplementsQuota
BY ClientIsBalancer, RateIsBounded, BalancerImplementsQuota

-----------------------------------------------------------------------------
(* The steps by what they do to records, connections and callers.           *)

\* Most steps of a caller leave the records and the registry alone.
Moves(p) ==
    \/ CallContext(p) \/ CallEveryUpstream(p) \/ Step(CtxDone(p))
    \/ Step(\/ Retry(p) \/ CtxReturn(p) \/ ReadClient(p) \/ OpReturns(p)
            \/ WalkNext(p) \/ EveryOpReturns(p) \/ WalkDone(p))
    \/ OpErrs(p)

LEMMA MovesKeepRecords ==
    ASSUME TypeOK, NEW p \in Callers, Moves(p)
    PROVE  /\ UNCHANGED <<Records, quit, registered, closed>>
           /\ \A q \in Callers \ {p} : pc'[q] = pc[q] /\ cur'[q] = cur[q] /\ use'[q] = use[q]
<1>1. CASE CallContext(p) \/ Step(Retry(p))
  <2>1. SelectClient(p, "sleep") /\ UNCHANGED <<registered, closed>>
    BY <1>1 DEF CallContext, CallW, Retry, Step
  <2> QED BY <2>1, Selects DEF TypeOK
<1>2. CASE \/ CallEveryUpstream(p)
           \/ Step(\/ CtxDone(p) \/ CtxReturn(p) \/ ReadClient(p) \/ OpReturns(p)
                   \/ WalkNext(p) \/ EveryOpReturns(p) \/ WalkDone(p))
  <2>1. \/ WalkStart(p) \/ CtxDone(p) \/ CtxReturn(p) \/ ReadClient(p) \/ OpReturns(p)
        \/ WalkNext(p) \/ EveryOpReturns(p) \/ WalkDone(p)
    BY <1>2 DEF CallEveryUpstream, Step
  <2>2. UNCHANGED <<Records, quit>>
    BY <2>1 DEF WalkStart, CtxDone, CtxReturn, ReadClient, OpReturns, WalkNext,
                EveryOpReturns, WalkDone, Records, passVars
  <2>3. \A q \in Callers \ {p} : pc'[q] = pc[q] /\ cur'[q] = cur[q] /\ use'[q] = use[q]
    BY <2>1 DEF WalkStart, CtxDone, CtxReturn, ReadClient, OpReturns, WalkNext,
                EveryOpReturns, WalkDone, TypeOK
  <2> QED BY <1>2, <2>2, <2>3 DEF CallEveryUpstream, Step
<1>3. CASE OpErrs(p)
  BY <1>3 DEF OpErrs, Records, passVars, clientVars, TypeOK
<1> QED BY <1>1, <1>2, <1>3 DEF Moves, Step

-----------------------------------------------------------------------------
(* What holds in all states: an upstream is dialed once, so a record keeps  *)
(* its connection until the connection has ended.                           *)

HandleCaller(p) ==
    /\ pc[p] \in {"chosen", "op", "mark"} => Label[cur[p]] \in registered
    /\ pc[p] = "op" => client[cur[p]] \in {NoHandle, use[p]} \/ use[p] = NoHandle
    /\ pc[p] = "mark" => client[cur[p]] \in quit \cup {NoHandle}

HandleRecord(c) ==
    /\ isConnected[c] \/ c \in Rotation \cup ToSet(newConnected) => Label[c] \in registered
    /\ ~ isConnected[c] => client[c] \in quit \cup {NoHandle}

HandleInv == (\A c \in Clients : HandleRecord(c)) /\ (\A p \in Callers : HandleCaller(p))

LEMMA HandleMoves ==
    ASSUME TypeOK, HandleInv, NEW p \in Callers, Moves(p)
    PROVE  HandleInv'
<1>1. /\ UNCHANGED <<Records, quit, registered, closed>>
      /\ \A q \in Callers \ {p} : pc'[q] = pc[q] /\ cur'[q] = cur[q] /\ use'[q] = use[q]
  BY MovesKeepRecords
<1>2. \A c \in Clients : HandleRecord(c)'
  BY <1>1 DEF HandleInv, HandleRecord, Records, rotationVars, Rotation
<1>3. \A q \in Callers \ {p} : HandleCaller(q)'
  BY <1>1 DEF HandleInv, HandleCaller, Records, rotationVars
<1>4. HandleCaller(p) /\ pc[p] \in PcValues /\ UNCHANGED <<client, quit, registered>>
  BY <1>1 DEF HandleInv, TypeOK, Records, rotationVars
<1>5. HandleCaller(p)'
  <2>1. CASE CallContext(p) \/ Step(Retry(p))
    <3>1. SelectClient(p, "sleep")
      BY <2>1 DEF CallContext, CallW, Retry, Step
    <3>2. ASSUME NEW c \in Rotation, pc' = [pc EXCEPT ![p] = "chosen"], cur' = [cur EXCEPT ![p] = c]
          PROVE  HandleCaller(p)'
      <4>1. c \in Clients /\ HandleRecord(c)
        BY DEF HandleInv, Rotation, ToSet, TypeOK
      <4> QED BY <3>2, <4>1, <1>4 DEF HandleRecord, HandleCaller, TypeOK
    <3>3. CASE pc' = [pc EXCEPT ![p] = "sleep"]
      BY <3>3, <1>4 DEF HandleCaller, TypeOK
    <3> QED BY <3>1, <3>2, <3>3, Selects
  <2>2. CASE CallEveryUpstream(p)
    BY <2>2 DEF CallEveryUpstream, Step, WalkStart, HandleCaller, TypeOK
  <2>3. CASE Step(\/ CtxDone(p) \/ CtxReturn(p) \/ WalkNext(p) \/ EveryOpReturns(p) \/ WalkDone(p))
    BY <2>3, <1>4
    DEF Step, CtxDone, CtxReturn, WalkNext, EveryOpReturns, WalkDone, HandleCaller, TypeOK
  <2>4. CASE Step(ReadClient(p))
    BY <2>4, <1>4 DEF Step, ReadClient, HandleCaller, TypeOK
  <2>5. CASE OpReturns(p)
    <3>1. pc[p] = "op" /\ pc'[p] = OpOutcome(use[p]) /\ (pc'[p] = "mark" => cur'[p] = cur[p])
      BY <2>5 DEF OpReturns, TypeOK
    <3>2. CASE use[p] \in quit /\ use[p] # NoHandle
      BY <3>1, <3>2, <1>4 DEF HandleCaller, OpOutcome
    <3>3. CASE ~ (use[p] \in quit /\ use[p] # NoHandle)
      <4>1. OpOutcome(use[p]) \in {"panicked", "idle"}
        BY <3>3, HandlesAssumption DEF OpOutcome, TypeOK
      <4> QED BY <3>1, <4>1 DEF HandleCaller
    <3> QED BY <3>2, <3>3
  <2> QED BY <2>1, <2>2, <2>3, <2>4, <2>5, ErrorsAreReturns DEF Moves, Step
<1> QED BY <1>2, <1>3, <1>5 DEF HandleInv

\* The steps of the reconnecting goroutine, of the clock, and those that end.
Passes == Step(ConnectStart \/ VisitConnected \/ DialFail \/ Observe \/ Publish \/ Tick)

LEMMA HandlePasses ==
    ASSUME TypeOK, HandleInv, Passes
    PROVE  HandleInv'
<1>1. UNCHANGED <<callerVars, isConnected, quit, registered>>
  BY DEF Passes, Step, ConnectStart, VisitConnected, DialFail, Observe, Publish, Tick,
         rotationVars
<1>2. \A c \in Clients : client'[c] \in {client[c], NoHandle}
  BY DEF Passes, Step, ConnectStart, VisitConnected, DialFail, Observe, Publish, Tick,
         rotationVars, TypeOK
<1>3. \A p \in Callers : HandleCaller(p)'
  <2> SUFFICES ASSUME NEW p \in Callers PROVE HandleCaller(p)'
    OBVIOUS
  <2>1. HandleCaller(p)
    BY DEF HandleInv
  <2>2. pc[p] \in {"chosen", "op", "mark"} => cur[p] \in Clients
    BY DEF TypeOK
  <2> QED BY <1>1, <1>2, <2>1, <2>2 DEF HandleCaller, callerVars
<1>4. ASSUME NEW c \in Clients, c \in Rotation' \cup ToSet(newConnected')
      PROVE  Label[c] \in registered
  <2>1. HandleRecord(c)
    BY DEF HandleInv
  <2>2. CASE Step(VisitConnected)
    <3>1. ToSet(newConnected') = ToSet(newConnected) \cup {rpos} /\ isConnected[rpos]
      BY <2>2, AppendRange DEF Step, VisitConnected, NeedsDial, TypeOK
    <3> QED BY <1>4, <2>1, <2>2, <3>1 DEF Step, VisitConnected, HandleRecord, rotationVars, Rotation
  <2>3. CASE Step(ConnectStart \/ Publish)
    <3>1. ToSet(newConnected') = {}
      BY <2>3 DEF Step, ConnectStart, Publish, ToSet
    <3>2. Rotation' \in {Rotation, ToSet(newConnected)}
      BY <2>3 DEF Step, ConnectStart, Publish, NextRotation, rotationVars, Rotation
    <3> QED BY <1>4, <2>1, <3>1, <3>2 DEF HandleRecord
  <2>4. CASE Step(DialFail \/ Observe \/ Tick)
    BY <1>4, <2>1, <2>4 DEF Step, DialFail, Observe, Tick, HandleRecord, rotationVars, passVars, Rotation
  <2> QED BY <2>2, <2>3, <2>4 DEF Passes, Step
<1>5. \A c \in Clients : HandleRecord(c)'
  BY <1>1, <1>2, <1>4 DEF HandleInv, HandleRecord
<1> QED BY <1>3, <1>5 DEF HandleInv

LEMMA HandleDial ==
    ASSUME TypeOK, HandleInv, NEW c \in Clients, Dial(c)
    PROVE  HandleInv'
<1>1. PICK h \in Fresh : client' = [client EXCEPT ![c] = h] /\ quit' = quit \ {h}
  BY DEF Dial, DialOk
<1>2. /\ newConnected' = Append(newConnected, c) /\ isConnected' = [isConnected EXCEPT ![c] = TRUE]
      /\ registered' = registered \cup {Label[c]} /\ Label[c] \notin registered
      /\ UNCHANGED <<connected, callerVars>>
  BY DEF Dial, DialOk, Registers
<1>3. h \in Handles /\ (\A d \in Clients : h # client[d]) /\ (\A p \in Callers : h # use[p])
  BY DEF Fresh, Range, TypeOK
<1>4. ToSet(newConnected') = ToSet(newConnected) \cup {c}
  BY <1>2, AppendRange DEF TypeOK
<1>5. ASSUME NEW d \in Clients PROVE HandleRecord(d)'
  <2>1. HandleRecord(d)
    BY DEF HandleInv
  <2>2. CASE d = c
    BY <1>2, <2>2 DEF HandleRecord, TypeOK
  <2>3. CASE d # c
    BY <1>1, <1>2, <1>3, <1>4, <2>1, <2>3 DEF HandleRecord, TypeOK, Rotation
  <2> QED BY <2>2, <2>3
<1>6. ASSUME NEW p \in Callers PROVE HandleCaller(p)'
  <2>1. HandleCaller(p)
    BY DEF HandleInv
  <2>2. CASE pc[p] \in {"chosen", "op", "mark"}
    <3>1. cur[p] \in Clients /\ cur[p] # c
      BY <1>2, <2>1, <2>2 DEF HandleCaller, TypeOK
    <3>2. client'[cur[p]] = client[cur[p]] /\ client[cur[p]] # h
      BY <1>1, <1>3, <3>1 DEF TypeOK
    <3> QED BY <1>1, <1>2, <2>1, <3>2 DEF HandleCaller, callerVars
  <2>3. CASE pc[p] \notin {"chosen", "op", "mark"}
    BY <1>2, <2>3 DEF HandleCaller, callerVars
  <2> QED BY <2>2, <2>3
<1> QED BY <1>5, <1>6 DEF HandleInv

\* Close, and the removal of an upstream whose connection has ended.
LEMMA HandleEnds ==
    ASSUME TypeOK, HandleInv, NEW p \in Callers,
           Close(p) \/ Step(CloseHandle(p)) \/ Mark(p)
    PROVE  HandleInv'
<1>1. /\ UNCHANGED <<client, newConnected, registered>>
      /\ quit \subseteq quit'
  BY DEF Close, WalkStart, Step, CloseHandle, Mark, MarkDisconnected, rotationVars, passVars
<1>2. /\ \A q \in Callers \ {p} : pc'[q] = pc[q] /\ cur'[q] = cur[q] /\ use'[q] = use[q]
      /\ pc'[p] \notin {"chosen", "op", "mark"}
  BY DEF Close, WalkStart, Step, CloseHandle, Mark, MarkDisconnected, TypeOK
<1>3. ASSUME NEW q \in Callers PROVE HandleCaller(q)'
  BY <1>1, <1>2 DEF HandleInv, HandleCaller
<1>4. ASSUME NEW c \in Clients PROVE HandleRecord(c)'
  <2>1. HandleRecord(c)
    BY DEF HandleInv
  <2>2. CASE UNCHANGED <<connected, isConnected>>
    BY <1>1, <2>1, <2>2 DEF HandleRecord, Rotation
  <2>3. ASSUME NEW i \in DOMAIN connected, pc[p] = "mark", connected[i] = cur[p],
               connected' = RemoveAt(connected, i), isConnected' = FlagsWithout(cur[p])
        PROVE  HandleRecord(c)'
    <3>1. Rotation' \subseteq Rotation
      BY <2>3, RemoveAtRange DEF Rotation, TypeOK
    <3>2. client[cur[p]] \in quit \cup {NoHandle}
      BY <2>3 DEF HandleInv, HandleCaller
    <3>3. c # cur[p] => isConnected'[c] = isConnected[c]
      BY <2>3 DEF FlagsWithout, TypeOK
    <3>4. isConnected'[c] => isConnected[c]
      BY <2>3 DEF FlagsWithout, TypeOK
    <3> QED BY <1>1, <2>1, <3>1, <3>2, <3>3, <3>4 DEF HandleRecord
  <2> QED
    BY <2>2, <2>3 DEF Close, WalkStart, Step, CloseHandle, Mark, MarkDisconnected, rotationVars
<1> QED BY <1>3, <1>4 DEF HandleInv

LEMMA HandleStep == TypeOK /\ HandleInv /\ [ClientNext]_allVars => HandleInv'
<1> SUFFICES ASSUME TypeOK, HandleInv, [ClientNext]_allVars PROVE HandleInv'
  OBVIOUS
<1>1. ASSUME UNCHANGED <<vars, registered>> PROVE HandleInv'
  BY <1>1 DEF vars, rotationVars, passVars, callerVars, HandleInv, HandleRecord, HandleCaller, Rotation
<1>2. CASE ClientReconnector \/ Step(Tick)
  BY <1>1, <1>2, HandlePasses, HandleDial
  DEF ClientReconnector, Passes, Step, DialPanics, Panics
<1>3. ASSUME NEW p \in Callers, Uses(p) PROVE HandleInv'
  <2>1. Moves(p) \/ Close(p) \/ Step(CloseHandle(p)) \/ Mark(p) \/ StatusPanics(p)
    BY <1>3 DEF Uses, Goes, Moves, Step
  <2> QED BY <1>1, <2>1, HandleMoves, HandleEnds DEF StatusPanics, Panics
<1>4. CASE UNCHANGED allVars
  BY <1>1, <1>4 DEF allVars, clientVars
<1> QED BY <1>2, <1>3, <1>4 DEF ClientNext

\* A connection that is replaced, or lost to a failed dial, has ended.
THEOREM NothingIsAbandoned == ClientSpec => NoneAbandoned
<1>1. ClientInit => HandleInv
  BY DEF ClientInit, Init, HandleInv, HandleRecord, HandleCaller, Rotation, ToSet
<1>2. TypeOK /\ HandleInv /\ [ClientNext]_allVars =>
        [\A c \in Clients : client[c] # NoHandle /\ client'[c] # client[c] => client[c] \in quit]_allVars
  <2> SUFFICES ASSUME TypeOK, HandleInv, [ClientNext]_allVars,
                      NEW c \in Clients, client[c] # NoHandle, client'[c] # client[c]
               PROVE  client[c] \in quit
    OBVIOUS
  <2>1. \A p \in Callers : ~ Uses(p)
    <3> SUFFICES ASSUME NEW p \in Callers, Uses(p) PROVE UNCHANGED client
      OBVIOUS
    <3>1. Moves(p) \/ Close(p) \/ Step(CloseHandle(p)) \/ Mark(p) \/ StatusPanics(p)
      BY DEF Uses, Goes, Moves, Step
    <3> QED
      BY <3>1, MovesKeepRecords
      DEF Records, rotationVars, vars, Close, WalkStart, Step, CloseHandle, Mark,
          MarkDisconnected, StatusPanics, Panics
  <2>2. (\E d \in Clients : Dial(d)) \/ Step(DialFail)
    BY <2>1 DEF ClientNext, ClientReconnector, DialPanics, Panics, Step, ConnectStart,
                VisitConnected, Observe, Publish, Tick, rotationVars, vars, allVars
  <2>3. ~ isConnected[c]
    BY <2>2 DEF Dial, DialOk, Step, DialFail, NeedsDial, TypeOK
  <2> QED BY <2>3 DEF HandleInv, HandleRecord
<1>3. ClientSpec => []TypeOK
  BY ClientIsBalancer, TypeCorrect
<1> QED BY <1>1, <1>2, <1>3, HandleStep, PTL DEF ClientSpec, NoneAbandoned

-----------------------------------------------------------------------------
(* Until Close nothing ends the process: no connection ends, so no upstream *)
(* is taken out, none is dialed twice, and no operation lacks a connection. *)

OpenCaller(p) ==
    /\ pc[p] \in {"idle", "chosen", "op", "sleep", "expired", "every", "everychosen", "everyop"}
    /\ pc[p] \in {"chosen", "everychosen"} => isConnected[cur[p]]
    /\ pc[p] \in {"op", "everyop"} => use[p] # NoHandle

OpenRecord(c) ==
    Label[c] \in registered \/ c \in Rotation \cup ToSet(newConnected) => isConnected[c]

OpenInv == ~ closed => /\ alive /\ quit = {}
                       /\ \A c \in Clients : OpenRecord(c)
                       /\ \A p \in Callers : OpenCaller(p)

LEMMA OpenMoves ==
    ASSUME TypeOK, FlaggedHasHandle, OpenInv, ~ closed, NEW p \in Callers, Moves(p)
    PROVE  OpenInv'
<1>1. /\ UNCHANGED <<Records, quit, registered, closed>>
      /\ \A q \in Callers \ {p} : pc'[q] = pc[q] /\ cur'[q] = cur[q] /\ use'[q] = use[q]
  BY MovesKeepRecords
<1>2. /\ alive /\ quit = {} /\ \A c \in Clients : OpenRecord(c)
      /\ \A q \in Callers : OpenCaller(q)
  BY DEF OpenInv
<1>3. \A c \in Clients : OpenRecord(c)'
  BY <1>1, <1>2 DEF OpenRecord, Records, rotationVars, Rotation
<1>4. UNCHANGED isConnected
  BY <1>1 DEF Records, rotationVars
<1>5. OpenCaller(p)'
  <2>1. CASE CallContext(p) \/ Step(Retry(p))
    <3>1. SelectClient(p, "sleep")
      BY <2>1 DEF CallContext, CallW, Retry, Step
    <3>2. ASSUME NEW c \in Rotation, pc' = [pc EXCEPT ![p] = "chosen"], cur' = [cur EXCEPT ![p] = c]
          PROVE  OpenCaller(p)'
      <4>1. c \in Clients /\ OpenRecord(c)
        BY <1>2 DEF Rotation, ToSet, TypeOK
      <4> QED BY <3>2, <4>1, <1>4 DEF OpenRecord, OpenCaller, TypeOK
    <3>3. CASE pc' = [pc EXCEPT ![p] = "sleep"]
      BY <3>3 DEF OpenCaller, TypeOK
    <3> QED BY <3>1, <3>2, <3>3, Selects
  <2>2. CASE CallEveryUpstream(p)
    BY <2>2 DEF CallEveryUpstream, Step, WalkStart, OpenCaller, TypeOK
  <2>3. CASE Step(CtxDone(p) \/ CtxReturn(p) \/ WalkDone(p))
    BY <2>3 DEF Step, CtxDone, CtxReturn, WalkDone, OpenCaller, TypeOK
  <2>4. CASE Step(WalkNext(p))
    BY <2>4, <1>2, <1>4 DEF Step, WalkNext, OpenCaller, TypeOK
  <2>5. CASE Step(EveryOpReturns(p))
    BY <2>5, <1>2 DEF Step, EveryOpReturns, OpenCaller, TypeOK
  <2>6. CASE Step(ReadClient(p))
    <3>1. pc[p] \in {"chosen", "everychosen"} /\ cur[p] \in Clients
      BY <2>6, <1>2 DEF Step, ReadClient, OpenCaller, TypeOK
    <3>2. client[cur[p]] # NoHandle
      BY <3>1, <1>2 DEF OpenCaller, FlaggedHasHandle
    <3> QED BY <2>6, <3>1, <3>2 DEF Step, ReadClient, OpenCaller, TypeOK
  <2>7. CASE OpReturns(p)
    <3>1. pc[p] = "op" /\ pc'[p] = OpOutcome(use[p])
      BY <2>7 DEF OpReturns, TypeOK
    <3>2. OpOutcome(use[p]) = "idle"
      BY <3>1, <1>2 DEF OpenCaller, OpOutcome
    <3> QED BY <3>1, <3>2 DEF OpenCaller
  <2> QED BY <2>1, <2>2, <2>3, <2>4, <2>5, <2>6, <2>7, ErrorsAreReturns DEF Moves, Step
<1>6. \A q \in Callers : OpenCaller(q)'
  BY <1>1, <1>2, <1>4, <1>5 DEF OpenCaller
<1>7. alive'
  <2>1. \A q \in Callers : pc'[q] # "panicked"
    BY <1>6 DEF OpenCaller
  <2> QED BY <2>1, <1>2 DEF Moves, CallContext, CallEveryUpstream, Step, OpErrs, clientVars
<1> QED BY <1>1, <1>2, <1>3, <1>6, <1>7 DEF OpenInv

LEMMA OpenPasses ==
    ASSUME TypeOK, OpenInv, ~ closed, Passes
    PROVE  OpenInv'
<1>1. UNCHANGED <<callerVars, isConnected, quit, registered, closed>>
  BY DEF Passes, Step, ConnectStart, VisitConnected, DialFail, Observe, Publish, Tick,
         rotationVars
<1>2. /\ alive /\ quit = {} /\ \A c \in Clients : OpenRecord(c)
      /\ \A p \in Callers : OpenCaller(p)
  BY DEF OpenInv
<1>3. \A p \in Callers : OpenCaller(p)'
  BY <1>1, <1>2 DEF OpenCaller, callerVars
<1>4. alive'
  BY <1>3 DEF Passes, Step, OpenCaller
<1>5. ASSUME NEW c \in Clients PROVE OpenRecord(c)'
  <2>1. OpenRecord(c)
    BY <1>2
  <2>2. CASE Step(VisitConnected)
    <3>1. ToSet(newConnected') = ToSet(newConnected) \cup {rpos} /\ isConnected[rpos]
      BY <2>2, AppendRange DEF Step, VisitConnected, NeedsDial, TypeOK
    <3> QED BY <1>1, <2>1, <2>2, <3>1 DEF Step, VisitConnected, OpenRecord, rotationVars, Rotation
  <2>3. CASE Step(ConnectStart \/ Publish)
    <3>1. ToSet(newConnected') = {}
      BY <2>3 DEF Step, ConnectStart, Publish, ToSet
    <3>2. Rotation' \in {Rotation, ToSet(newConnected)}
      BY <2>3 DEF Step, ConnectStart, Publish, NextRotation, rotationVars, Rotation
    <3> QED BY <1>1, <2>1, <3>1, <3>2 DEF OpenRecord
  <2>4. CASE Step(DialFail \/ Observe \/ Tick)
    BY <1>1, <2>1, <2>4 DEF Step, DialFail, Observe, Tick, OpenRecord, rotationVars, passVars, Rotation
  <2> QED BY <2>2, <2>3, <2>4 DEF Passes, Step
<1> QED BY <1>1, <1>2, <1>3, <1>4, <1>5 DEF OpenInv

LEMMA OpenDial ==
    ASSUME TypeOK, OpenInv, ~ closed, NEW c \in Clients, Dial(c)
    PROVE  OpenInv'
<1>1. /\ newConnected' = Append(newConnected, c) /\ isConnected' = [isConnected EXCEPT ![c] = TRUE]
      /\ registered' = registered \cup {Label[c]}
      /\ UNCHANGED <<connected, callerVars, alive, closed>> /\ quit' \subseteq quit
  BY DEF Dial, DialOk
<1>2. ToSet(newConnected') = ToSet(newConnected) \cup {c}
  BY <1>1, AppendRange DEF TypeOK
<1>3. \A d \in Clients : isConnected[d] => isConnected'[d]
  BY <1>1 DEF TypeOK
<1>4. \A d \in Clients : OpenRecord(d)'
  BY <1>1, <1>2, <1>3, LabelAssumption DEF OpenInv, OpenRecord, Rotation, TypeOK
<1>5. \A p \in Callers : OpenCaller(p)'
  BY <1>1, <1>3 DEF OpenInv, OpenCaller, callerVars, TypeOK
<1> QED BY <1>1, <1>4, <1>5 DEF OpenInv

LEMMA ClosedForGood == closed /\ [ClientNext]_allVars => closed'
BY DEF ClientNext, ClientReconnector, Uses, Goes, Step, Dial, DialPanics, Panics, CallContext,
       CallEveryUpstream, Close, OpErrs, Mark, StatusPanics, allVars, clientVars

LEMMA OpenStep == TypeOK /\ FlaggedHasHandle /\ OpenInv /\ [ClientNext]_allVars => OpenInv'
<1> SUFFICES ASSUME TypeOK, FlaggedHasHandle, OpenInv, [ClientNext]_allVars, ~ closed'
             PROVE  OpenInv'
  BY DEF OpenInv
<1>1. ~ closed
  BY ClosedForGood
<1>2. CASE ClientReconnector \/ Step(Tick)
  <2>1. ~ DialPanics
    BY <1>1 DEF DialPanics, NeedsDial, Registers, OpenInv, OpenRecord
  <2> QED BY <1>1, <1>2, <2>1, OpenPasses, OpenDial DEF ClientReconnector, Passes, Step
<1>3. ASSUME NEW p \in Callers, Uses(p) PROVE OpenInv'
  <2>1. OpenCaller(p)
    BY <1>1 DEF OpenInv
  <2>2. ~ (Close(p) \/ Step(CloseHandle(p)) \/ Mark(p) \/ StatusPanics(p))
    BY <2>1 DEF OpenCaller, Close, Step, CloseHandle, Mark, MarkDisconnected, StatusPanics
  <2> QED BY <1>1, <1>3, <2>2, OpenMoves DEF Uses, Goes, Moves, Step
<1>4. CASE UNCHANGED allVars
  BY <1>4 DEF allVars, vars, rotationVars, passVars, callerVars, clientVars, OpenInv, OpenRecord,
              OpenCaller, Rotation
<1> QED BY <1>2, <1>3, <1>4 DEF ClientNext

LEMMA OpenInvariant == ClientSpec => []OpenInv
<1>1. ClientInit => OpenInv
  <2> SUFFICES ASSUME ClientInit PROVE OpenInv
    OBVIOUS
  <2>1. Rotation = {} /\ ToSet(newConnected) = {} /\ registered = {}
    BY DEF ClientInit, Init, Rotation, ToSet
  <2> QED BY <2>1 DEF ClientInit, Init, OpenInv, OpenRecord, OpenCaller
<1>2. ClientSpec => [](TypeOK /\ FlaggedHasHandle)
  BY ClientIsBalancer, TypeCorrect, FlagInvariant, PTL
<1> QED BY <1>1, <1>2, OpenStep, PTL DEF ClientSpec

\* No failure of a call or of a dial, and no number of them, ends the process
\* before somebody closes the client.
THEOREM ClientLivesUntilClosed == ClientSpec => []LivesUntilClosed
<1>1. OpenInv => LivesUntilClosed
  BY DEF OpenInv, LivesUntilClosed
<1> QED BY <1>1, OpenInvariant, PTL

\* Until the client is closed, op is given the connection of a client whatever
\* dials fail: no upstream is dialed again once it has connected, so the zero
\* value of a failed dial only meets records that were never selected.
THEOREM ClientOpsGetConnections == ClientSpec => [](~ closed => OpGetsAvailableClient)
<1>1. OpenInv => (~ closed => OpGetsAvailableClient)
  BY DEF OpenInv, OpenCaller, OpGetsAvailableClient
<1> QED BY <1>1, OpenInvariant, PTL

\* Until Close a call is refused, or put to sleep, only for a quota that is used
\* up in the present calendar second: dials may fail, upstreams answer with
\* errors or not at all, and join at any time.
THEOREM ClientRefusesHonestly == ClientSpec => [](~ closed => RefusedOnlyWhenUsed)
<1>1. OpenInv => closed \/ NobodyMarks
  BY DEF OpenInv, OpenCaller, NobodyMarks
<1>2. ClientSpec => [](TypeOK /\ QuotaInv /\ NoLostUpstream)
  BY ClientIsBalancer, TypeCorrect, QuotaInvariant, NothingIsLost, PTL
<1>3. ClientInit => KeptInv
  BY KeptInit DEF ClientInit
<1>4. /\ TypeOK /\ QuotaInv /\ NoLostUpstream /\ OpenInv
      /\ closed \/ KeptInv
      /\ [ClientNext]_allVars
      => closed' \/ KeptInv'
  BY <1>1, ClosedForGood, ClientStepIsStep, KeptStep
<1>5. ClientSpec => [](closed \/ KeptInv)
  BY <1>2, <1>3, <1>4, OpenInvariant, PTL DEF ClientSpec
<1> QED BY <1>2, <1>5, KeptIsHonest, PTL

\* With equal limits, and upstreams that can be dialed at the start, the client
\* shares its load evenly until it is closed, whatever errors they answer with.
THEOREM ClientSharesLoad ==
    ASSUME Faults = {}, EqualLimits
    PROVE  ClientSpec => [](~ closed => EvenLoad)
<1>1. OpenInv => closed \/ StableInv
  BY DEF OpenInv, OpenCaller, StableInv
<1>2. ClientSpec => []TypeOK
  BY ClientIsBalancer, TypeCorrect, PTL
<1>3. ClientInit => StartInv /\ RoundInv
  BY RoundInit DEF ClientInit
<1>4. /\ TypeOK /\ OpenInv
      /\ closed \/ (StartInv /\ RoundInv)
      /\ [ClientNext]_allVars
      => closed' \/ (StartInv' /\ RoundInv')
  BY <1>1, ClosedForGood, ClientStepIsStep, StartStep, RoundStep
<1>5. ClientSpec => [](closed \/ (StartInv /\ RoundInv))
  BY <1>2, <1>3, <1>4, OpenInvariant, PTL DEF ClientSpec
<1> QED BY <1>2, <1>5, RoundIsEven, PTL
=============================================================================
