-------------------------- MODULE Lifecycle_proofs --------------------------
(***************************************************************************)
(* Proofs about Lifecycle, for any number of requests, messages and        *)
(* faults.                                                                 *)
(*                                                                         *)
(* DatabaseOutlivesRequests is not inductive: that no request is left when *)
(* Run returns drained says something about later states only because the  *)
(* server accepts none any more, and a request that ends does not close    *)
(* the database only because its copy of the handle has a session.         *)
(***************************************************************************)
EXTENDS Lifecycle, FormationListener_proofs

\* Each request that is not over holds a copy of the handle with a session.
RequestsHoldCopies == \A r \in Requests : request[r] # "none" => dbConn[r] = "open"

\* Only Run's return closes the database, and Run is over with its process.
RunClosesDatabase ==
    /\ database = "closed" => run \in Returned \union {"off"}
    /\ process = "off" <=> run = "off"

\* After the select the server accepts nothing, so that what was drained stays so.
DrainedStays ==
    /\ run # "select" => server = "closed"
    /\ run = "drained" => \A r \in Requests : request[r] = "none"

\* A result of the server is there only after it stopped, and is gone with the process.
ServerStopped == (serverErrors # 0 => server = "closed") /\ (process = "off" => serverErrors = 0)

LInv ==
    LifecycleTypeOK /\ RequestsHoldCopies /\ RunClosesDatabase /\ DrainedStays /\ ServerStopped

-----------------------------------------------------------------------------
\* The process starts with no request and an open database.
LEMMA InitLInv == LifecycleInit => LInv
BY DEF LifecycleInit, Init, LInv, LifecycleTypeOK, RequestsHoldCopies, RunClosesDatabase,
       DrainedStays, ServerStopped, ChannelRoom

\* The chain, the client and its callbacks, while the process runs on.
LEMMA ListenStep ==
    ASSUME LInv, (\E tx \in Txs : Publish(tx)) \/ Disconnect \/ Listen, UNCHANGED lifecycle
    PROVE  LInv'
<1>1. process' = process
  BY DEF Publish, Disconnect, Listen, Connect, Callback, AcceptRegister, HandleTx,
         FetchFormation, PutFormation, SaveFails
<1>2. QED
  BY <1>1 DEF lifecycle, channels, requests, LInv, LifecycleTypeOK, RequestsHoldCopies,
              RunClosesDatabase, DrainedStays, ServerStopped

\* A request is accepted while Run waits in the select, and gets a copy.
LEMMA AcceptStep == ASSUME LInv, NEW r \in Requests, Accept(r) PROVE LInv'
<1>1. request' = [request EXCEPT ![r] = "working"] /\ dbConn' = [dbConn EXCEPT ![r] = "open"]
      /\ run = "select" /\ UNCHANGED <<vars, run, server, channels, spyNode, database>>
  BY DEF Accept, Copy, LInv, DrainedStays
<1>2. LifecycleTypeOK'
  BY <1>1 DEF LInv, LifecycleTypeOK, channels
<1>3. RequestsHoldCopies'
  BY <1>1 DEF LInv, LifecycleTypeOK, RequestsHoldCopies
<1>4. RunClosesDatabase' /\ DrainedStays' /\ ServerStopped'
  BY <1>1 DEF LInv, RunClosesDatabase, DrainedStays, ServerStopped, vars, channels
<1>5. QED
  BY <1>2, <1>3, <1>4 DEF LInv

\* A request that ends closes its copy and leaves the database to the others.
LEMMA EndRequestStep == ASSUME LInv, NEW r \in Requests, EndRequest(r) PROVE LInv'
<1>1. dbConn[r] = "open"
  BY DEF EndRequest, LInv, RequestsHoldCopies
<1>2. request' = [request EXCEPT ![r] = "none"] /\ dbConn' = [dbConn EXCEPT ![r] = "none"]
      /\ UNCHANGED <<vars, run, server, channels, spyNode, database>>
  BY <1>1 DEF EndRequest, CloseCopy
<1>3. LifecycleTypeOK'
  BY <1>2 DEF LInv, LifecycleTypeOK, channels
<1>4. RequestsHoldCopies'
  BY <1>2 DEF LInv, LifecycleTypeOK, RequestsHoldCopies
<1>5. RunClosesDatabase' /\ DrainedStays' /\ ServerStopped'
  BY <1>2 DEF LInv, LifecycleTypeOK, RunClosesDatabase, DrainedStays, ServerStopped, vars, channels
<1>6. QED
  BY <1>3, <1>4, <1>5 DEF LInv

\* A request that hangs keeps its copy.
LEMMA HangStep == ASSUME LInv, NEW r \in Requests, Hang(r) PROVE LInv'
<1>1. request[r] = "working" /\ request' = [request EXCEPT ![r] = "stuck"]
      /\ UNCHANGED <<process, run, server, channels, spyNode, database, dbConn>>
  BY DEF Hang
<1>2. LifecycleTypeOK'
  BY <1>1 DEF LInv, LifecycleTypeOK, channels
<1>3. RequestsHoldCopies'
  BY <1>1 DEF LInv, LifecycleTypeOK, RequestsHoldCopies
<1>4. RunClosesDatabase' /\ DrainedStays' /\ ServerStopped'
  BY <1>1 DEF LInv, RunClosesDatabase, DrainedStays, ServerStopped, channels
<1>5. QED
  BY <1>2, <1>3, <1>4 DEF LInv

\* An interrupt, the end of the server or of the spynode: the sender finds room.
LEMMA EndingStep ==
    ASSUME LInv, Interrupt \/ ServerFails \/ SpyNodeFails \/ SpyNodeStopped \/ SpyNodeSends
    PROVE  LInv'
<1>1. UNCHANGED <<process, run, database, request, dbConn>> /\ (server = "closed" => server' = "closed")
  BY DEF Interrupt, ServerFails, ServerReturns, SpyNodeFails, SpyNodeStopped, SpyNodeSends,
         vars, requests
<1>2. LifecycleTypeOK'
  <2>1. CASE ServerFails
    BY <1>1, <2>1 DEF LInv, LifecycleTypeOK, ServerStopped, ServerFails, ServerReturns, channels,
                      ChannelRoom
  <2>2. CASE Interrupt
    BY <1>1, <2>2 DEF LInv, LifecycleTypeOK, Interrupt, channels, ChannelRoom
  <2>3. CASE SpyNodeFails \/ SpyNodeStopped
    BY <1>1, <2>3 DEF LInv, LifecycleTypeOK, SpyNodeFails, SpyNodeStopped, channels
  <2>4. CASE SpyNodeSends
    BY <1>1, <2>4 DEF LInv, LifecycleTypeOK, SpyNodeSends, ChannelRoom
  <2>5. QED
    BY <2>1, <2>2, <2>3, <2>4
<1>3. RequestsHoldCopies' /\ RunClosesDatabase' /\ DrainedStays'
  BY <1>1 DEF LInv, RequestsHoldCopies, RunClosesDatabase, DrainedStays
<1>4. ServerStopped'
  <2>1. CASE ServerFails
    <3>1. process # "off"
      BY <2>1 DEF ServerFails, LInv, RunClosesDatabase, DrainedStays
    <3>2. QED
      BY <1>1, <2>1, <3>1 DEF ServerStopped, ServerFails, ServerReturns
  <2>2. CASE Interrupt \/ SpyNodeFails \/ SpyNodeStopped \/ SpyNodeSends
    <3>1. UNCHANGED serverErrors
      BY <2>2 DEF Interrupt, SpyNodeFails, SpyNodeStopped, SpyNodeSends, channels
    <3>2. QED
      BY <1>1, <3>1 DEF LInv, LifecycleTypeOK, ServerStopped
  <2>3. QED
    BY <2>1, <2>2
<1>5. QED
  BY <1>2, <1>3, <1>4 DEF LInv

\* Run closes the database only as it returns, drained only without requests.
LEMMA RunStepStep == ASSUME LInv, RunStep PROVE LInv'
<1>1. UNCHANGED <<process, request, dbConn>>
  BY DEF RunStep, ReceiveSpyNodeError, ReceiveSignal, ReceiveServerError, Drained, TimedOut,
         vars, requests
<1>2. LifecycleTypeOK'
  <2>1. CASE ReceiveSpyNodeError
    BY <1>1, <2>1 DEF ReceiveSpyNodeError, ServerReturns, LInv, LifecycleTypeOK, ServerStopped,
                      ChannelRoom
  <2>2. CASE ReceiveSignal
    BY <1>1, <2>2 DEF ReceiveSignal, ServerReturns, LInv, LifecycleTypeOK, ServerStopped, ChannelRoom
  <2>3. CASE ReceiveServerError
    BY <1>1, <2>3 DEF ReceiveServerError, Return, Returned, LInv, LifecycleTypeOK, ChannelRoom
  <2>4. CASE Drained \/ TimedOut
    BY <1>1, <2>4 DEF Drained, TimedOut, Return, Returned, channels, LInv, LifecycleTypeOK
  <2>5. QED
    BY <2>1, <2>2, <2>3, <2>4 DEF RunStep
<1>3. RequestsHoldCopies'
  BY <1>1 DEF LInv, RequestsHoldCopies
<1>4. RunClosesDatabase'
  BY <1>1 DEF LInv, RunClosesDatabase, RunStep, ReceiveSpyNodeError, ReceiveSignal,
              ReceiveServerError, Drained, TimedOut, Return, Returned
<1>5. run' # "select" /\ server' = "closed"
  <2>1. CASE ReceiveSpyNodeError \/ ReceiveSignal
    BY <2>1 DEF ReceiveSpyNodeError, ReceiveSignal, ServerReturns
  <2>2. CASE ReceiveServerError
    BY <2>2 DEF ReceiveServerError, Return, LInv, ServerStopped
  <2>3. CASE Drained \/ TimedOut
    BY <2>3 DEF Drained, TimedOut, Return, LInv, DrainedStays
  <2>4. QED
    BY <2>1, <2>2, <2>3 DEF RunStep
<1>6. run' = "drained" => \A r \in Requests : request'[r] = "none"
  BY <1>1 DEF RunStep, ReceiveSpyNodeError, ReceiveSignal, ReceiveServerError, Drained, TimedOut,
              Return, Active
<1>7. process # "off"
  BY DEF RunStep, ReceiveSpyNodeError, ReceiveSignal, ReceiveServerError, Drained, TimedOut,
         LInv, RunClosesDatabase
<1>8. ServerStopped'
  BY <1>1, <1>5, <1>7 DEF ServerStopped
<1>9. QED
  BY <1>2, <1>3, <1>4, <1>5, <1>6, <1>8 DEF LInv, DrainedStays

\* main stops the client, saves, and ends; a new process starts with everything open.
LEMMA MainStep ==
    ASSUME LInv, StopSpyNode \/ StopSpyNodeFails \/ SaveCursor \/ ExitMain \/ Die \/ StartMain
    PROVE  LInv'
<1>1. CASE StopSpyNode \/ SaveCursor
  <2>1. UNCHANGED lifecycle /\ process # "off" /\ process' # "off"
    BY <1>1 DEF StopSpyNode, StopClient, SaveCursor, Save
  <2>2. QED
    BY <2>1 DEF lifecycle, channels, requests, LInv, LifecycleTypeOK, RequestsHoldCopies,
                RunClosesDatabase, DrainedStays, ServerStopped
<1>0. CASE StopSpyNodeFails
  <2>1. /\ process = "running" /\ process' = "stopping"
        /\ spyNode' \in {spyNode, "unstopped"}
        /\ UNCHANGED <<run, server, osSignals, serverErrors, spyNodeErrors, database,
                       request, dbConn>>
    BY <1>0 DEF StopSpyNodeFails, channels, requests
  <2>2. LifecycleTypeOK'
    BY <2>1 DEF LInv, LifecycleTypeOK
  <2>3. RequestsHoldCopies' /\ RunClosesDatabase' /\ DrainedStays' /\ ServerStopped'
    BY <2>1 DEF LInv, RequestsHoldCopies, RunClosesDatabase, DrainedStays, ServerStopped
  <2>4. QED
    BY <2>2, <2>3 DEF LInv
<1>2. CASE ExitMain \/ Die
  <2>1. Down /\ process' = "off"
    BY <1>2 DEF ExitMain, Die, Crash, TurnOff
  <2>2. QED
    BY <2>1 DEF Down, LInv, LifecycleTypeOK, RequestsHoldCopies, RunClosesDatabase,
                DrainedStays, ServerStopped, ChannelRoom
<1>3. CASE StartMain
  BY <1>3 DEF StartMain, Start, channels, requests, LInv, LifecycleTypeOK, RequestsHoldCopies,
              RunClosesDatabase, DrainedStays, ServerStopped
<1>4. QED
  BY <1>0, <1>1, <1>2, <1>3

LEMMA NextLInv == LInv /\ [LifecycleNext]_allVars => LInv'
<1> SUFFICES ASSUME LInv, [LifecycleNext]_allVars PROVE LInv'
  OBVIOUS
<1>1. CASE UNCHANGED allVars
  BY <1>1 DEF allVars, vars, lifecycle, channels, requests, LInv, LifecycleTypeOK,
              RequestsHoldCopies, RunClosesDatabase, DrainedStays, ServerStopped
<1>2. CASE LifecycleNext
  BY <1>2, ListenStep, AcceptStep, EndRequestStep, HangStep, EndingStep, RunStepStep, MainStep
     DEF LifecycleNext
<1>3. QED
  BY <1>1, <1>2

THEOREM LifecycleInvariance == LifecycleSpec => []LInv
BY InitLInv, NextLInv, PTL DEF LifecycleSpec

\* Types, and no channel is ever given more than it has room for (bootstrap.go:116-118).
THEOREM LifecycleTypeCorrect == LifecycleSpec => []LifecycleTypeOK
<1>1. LInv => LifecycleTypeOK
  BY DEF LInv
<1>2. QED
  BY <1>1, LifecycleInvariance, PTL

\* However many requests there are, only Run closes the database, and after a drained
\* server no request is left (bootstrap.go:114, db.go:123-145).
THEOREM DatabaseOutlives == LifecycleSpec => []DatabaseOutlivesRequests
<1>1. LInv => DatabaseOutlivesRequests
  BY DEF LInv, LifecycleTypeOK, RunClosesDatabase, DrainedStays, DatabaseOutlivesRequests, Active
<1>2. QED
  BY <1>1, LifecycleInvariance, PTL

-----------------------------------------------------------------------------
(* The listener within the process.                                         *)

\* When the goroutine of the spynode is past its callbacks, none is at work and none comes.
SpyNodeIdle == spyNode \notin {"running", "unstopped"} => work = <<>> /\ session = "down"

\* A client that was stopped is not connected.
StoppedIsDown ==
    process \in {"stopping", "saved"} /\ spyNode # "unstopped" => session = "down"

\* Steps of requests, of Run and of the goroutine's end leave the listener alone.
Aside ==
    \/ \E r \in Requests : Accept(r) \/ EndRequest(r) \/ Hang(r)
    \/ Interrupt \/ ServerFails \/ SpyNodeStopped \/ SpyNodeSends \/ RunStep

\* They may only be a fault.
LEMMA AsideStep ==
    ASSUME FInv, Aside
    PROVE  /\ UNCHANGED <<chain, session, next, process, handler, storage>>
           /\ faults' \in 0 .. MaxFaults
<1>0. faults \in 0 .. MaxFaults
  BY DEF FInv, TypeOK
<1>1. CASE \E r \in Requests : Accept(r) \/ EndRequest(r)
  BY <1>0, <1>1 DEF Accept, EndRequest, vars
<1>2. CASE SpyNodeStopped \/ SpyNodeSends \/ RunStep
  BY <1>0, <1>2 DEF SpyNodeStopped, SpyNodeSends, RunStep, ReceiveSpyNodeError, ReceiveSignal,
                    ReceiveServerError, Drained, TimedOut, vars
<1>3. CASE \E r \in Requests : Hang(r)
  BY <1>0, <1>3, FaultStep DEF Hang
<1>4. CASE Interrupt \/ ServerFails
  BY <1>0, <1>4, FaultStep DEF Interrupt, ServerFails
<1>5. QED
  BY <1>1, <1>2, <1>3, <1>4 DEF Aside

\* A failed spynode ends the connection.
LEMMA SpyNodeFailsStep == ASSUME FInv, SpyNodeFails PROVE faults' \in 0 .. MaxFaults
BY FaultStep DEF SpyNodeFails, FInv, TypeOK

\* A Stop that fails leaves the client as it is.
LEMMA StopFailsStep ==
    ASSUME FInv, StopSpyNodeFails
    PROVE  /\ UNCHANGED <<chain, session, next, handler, storage>>
           /\ process = "running" /\ process' = "stopping" /\ faults' \in 0 .. MaxFaults
BY FaultStep DEF StopSpyNodeFails, FInv, TypeOK

LEMMA LifecycleFInv == FInv /\ [LifecycleNext]_allVars => FInv'
<1> SUFFICES ASSUME FInv, [LifecycleNext]_allVars PROVE FInv'
  OBVIOUS
<1>0. faults \in 0 .. MaxFaults
  BY DEF FInv, TypeOK
<1>1. CASE UNCHANGED allVars
  BY <1>1, NextFInv DEF allVars
<1>2. CASE (\E tx \in Txs : Publish(tx)) \/ Disconnect \/ Listen
  BY <1>2, NextFInv DEF Listen, Next
<1>3. CASE Aside
  BY <1>3, AsideStep, ControlStep DEF storage, FInv, TypeOK
<1>4. CASE SpyNodeFails
  BY <1>4, SpyNodeFailsStep, ControlStep DEF SpyNodeFails, storage, FInv, TypeOK
<1>5. CASE StopSpyNode \/ SaveCursor \/ StartMain
  BY <1>0, <1>5, MainSteps DEF StopSpyNode, SaveCursor, StartMain
<1>9. CASE StopSpyNodeFails
  BY <1>9, StopFailsStep, ControlStep DEF storage, FInv, TypeOK
<1>6. CASE ExitMain
  BY <1>0, <1>6, TurnOffStep DEF ExitMain
<1>7. CASE Die
  BY <1>7, NextFInv DEF Die, Next
<1>8. QED
  BY <1>1, <1>2, <1>3, <1>4, <1>5, <1>6, <1>7, <1>9 DEF LifecycleNext, Aside

\* The types of the listener hold within the process.
THEOREM ListenerTypeCorrect == LifecycleSpec => []TypeOK
<1>1. LifecycleInit => FInv
  BY InitFInv DEF LifecycleInit
<1>2. FInv => TypeOK
  BY DEF FInv
<1>3. QED
  BY <1>1, <1>2, LifecycleFInv, PTL DEF LifecycleSpec

LEMMA LifecycleLatestStep == FInv /\ [LifecycleNext]_allVars => [Latest!Next]_(Latest!vars)
<1> SUFFICES ASSUME FInv, [LifecycleNext]_allVars PROVE [Latest!Next]_(Latest!vars)
  OBVIOUS
<1>1. CASE (\E tx \in Txs : Publish(tx)) \/ Disconnect \/ Listen
  BY <1>1, LatestStep DEF Listen, Next
<1>2. CASE Aside
  BY <1>2, AsideStep, LatestStays DEF chain, storage
<1>3. CASE \/ UNCHANGED allVars \/ SpyNodeFails \/ StopSpyNode \/ StopSpyNodeFails
           \/ SaveCursor \/ ExitMain \/ Die \/ StartMain
  <2>1. UNCHANGED <<published, stored>>
    BY <1>3 DEF allVars, vars, SpyNodeFails, StopSpyNode, StopSpyNodeFails, StopClient, SaveCursor, Save, ExitMain,
                Die, Crash, TurnOff, StartMain, Start, chain, storage
  <2>2. QED
    BY <2>1, LatestStays
<1>4. QED
  BY <1>1, <1>2, <1>3 DEF LifecycleNext, Aside

\* However the process ends and starts again, what GetContractFormation returns moves
\* only to published formations that are not older (listener.go:323-350).
THEOREM LifecycleOnlyAdvances == LifecycleSpec => OnlyAdvances
<1>1. LifecycleInit => FInv /\ Latest!Init
  BY InitFInv, InitLatest DEF LifecycleInit
<1>2. QED
  BY <1>1, LifecycleFInv, LifecycleLatestStep, PTL DEF LifecycleSpec, OnlyAdvances, Latest!Spec

-----------------------------------------------------------------------------
(* The cursor within the process.                                           *)

LCInv == CInv /\ SpyNodeIdle /\ StoppedIsDown

\* Steps that keep the client as it is, or end its connection, keep a stopped client down.
LEMMA StaysDown ==
    ASSUME SpyNodeIdle, StoppedIsDown, UNCHANGED work,
           session' = session \/ session' = "down",
           \/ UNCHANGED <<process, spyNode>>
           \/ session' = "down" /\ UNCHANGED spyNode
           \/ UNCHANGED spyNode /\ process = "stopping" /\ process' = "saved"
    PROVE  SpyNodeIdle' /\ StoppedIsDown'
BY DEF SpyNodeIdle, StoppedIsDown

\* main waits for the goroutine of the spynode, so that no callback is at work when
\* the process ends with its cursor saved.
LEMMA LifecycleCInv ==
    ASSUME "storage" \notin FaultKinds
    PROVE  LCInv /\ [LifecycleNext]_allVars => LCInv'
<1> SUFFICES ASSUME LCInv, [LifecycleNext]_allVars PROVE LCInv'
  OBVIOUS
<1>0. CInv /\ FInv /\ FInv' /\ SpyNodeIdle /\ StoppedIsDown /\ ClientNeedsProcess
  BY LifecycleFInv DEF LCInv, CInv
<1>1. CASE UNCHANGED allVars
  <2>1. CInv'
    BY <1>0, <1>1, SessionCursor DEF allVars, vars, ClientNeedsProcess
  <2>2. SpyNodeIdle' /\ StoppedIsDown'
    BY <1>0, <1>1, StaysDown DEF allVars, vars, lifecycle, handler
  <2>3. QED
    BY <2>1, <2>2 DEF LCInv
<1>2. CASE ((\E tx \in Txs : Publish(tx)) \/ Disconnect) /\ UNCHANGED lifecycle
  <2>1. CInv'
    BY <1>0, <1>2, PublishCursor, SessionCursor DEF Disconnect
  <2>2. SpyNodeIdle' /\ StoppedIsDown'
    BY <1>0, <1>2, StaysDown DEF Publish, Disconnect, lifecycle, handler
  <2>3. QED
    BY <2>1, <2>2 DEF LCInv
<1>3. CASE Listen /\ UNCHANGED lifecycle
  <2>1. CInv'
    BY <1>0, <1>3, CallbackCursor, SessionCursor DEF Listen, Connect
  <2>2. /\ spyNode \in {"running", "unstopped"} /\ UNCHANGED <<process, spyNode>>
        /\ session' = session \/ session # "down" \/ process = "running"
    BY <1>0, <1>3 DEF Listen, Connect, Callback, AcceptRegister, HandleTx, FetchFormation,
                      PutFormation, SaveFails, SpyNodeIdle, FInv, TypeOK, lifecycle
  <2>3. SpyNodeIdle' /\ StoppedIsDown'
    BY <1>0, <2>2 DEF SpyNodeIdle, StoppedIsDown
  <2>4. QED
    BY <2>1, <2>3 DEF LCInv
<1>4. CASE Aside
  <2>1. UNCHANGED <<chain, session, next, process, handler, storage>>
    BY <1>0, <1>4, AsideStep
  <2>2. CInv'
    BY <1>0, <2>1, SessionCursor DEF ClientNeedsProcess
  <2>3. CASE SpyNodeStopped
    BY <1>0, <2>1, <2>2, <2>3 DEF SpyNodeStopped, LCInv, SpyNodeIdle, StoppedIsDown, handler
  <2>4. CASE SpyNodeSends
    BY <1>0, <2>1, <2>2, <2>4 DEF SpyNodeSends, LCInv, SpyNodeIdle, StoppedIsDown, handler
  <2>5. CASE \/ \E r \in Requests : Accept(r) \/ EndRequest(r) \/ Hang(r)
             \/ Interrupt \/ ServerFails \/ RunStep
    <3>1. UNCHANGED spyNode
      BY <2>5 DEF Accept, EndRequest, Hang, Interrupt, ServerFails, RunStep, ReceiveSpyNodeError,
                  ReceiveSignal, ReceiveServerError, Drained, TimedOut
    <3>2. QED
      BY <1>0, <2>1, <2>2, <3>1, StaysDown DEF LCInv, handler
  <2>6. QED
    BY <1>4, <2>3, <2>4, <2>5 DEF Aside
<1>5. CASE SpyNodeFails
  <2>1. CInv'
    BY <1>0, <1>5, SessionCursor DEF SpyNodeFails
  <2>2. SpyNodeIdle' /\ StoppedIsDown'
    BY <1>5 DEF SpyNodeFails, SpyNodeIdle, StoppedIsDown, handler
  <2>3. QED
    BY <2>1, <2>2 DEF LCInv
<1>6. CASE StopSpyNode \/ SaveCursor
  <2>1. CInv'
    BY <1>0, <1>6, StopClientCursor, SaveCursorStep DEF StopSpyNode, StopClient, SaveCursor
  <2>2. /\ UNCHANGED <<spyNode, work>>
        /\ \/ session' = "down"
           \/ UNCHANGED session /\ process = "stopping" /\ process' = "saved"
    BY <1>6 DEF StopSpyNode, StopClient, SaveCursor, Save, lifecycle, handler
  <2>3. QED
    BY <1>0, <2>1, <2>2, StaysDown DEF LCInv
<1>9. CASE StopSpyNodeFails
  <2>1. CInv'
    BY <1>0, <1>9, StopFailsStep, StopClientCursor
  <2>2. /\ UNCHANGED <<session, work>>
        /\ spyNode' = IF spyNode = "running" THEN "unstopped" ELSE spyNode
    BY <1>9 DEF StopSpyNodeFails, handler
  <2>3. SpyNodeIdle' /\ StoppedIsDown'
    BY <1>0, <2>2 DEF SpyNodeIdle, StoppedIsDown
  <2>4. QED
    BY <2>1, <2>3 DEF LCInv
<1>7. CASE ExitMain \/ Die
  <2>1. TurnOff /\ (process = "running" \/ (process = "saved" /\ work = <<>>))
    BY <1>0, <1>7 DEF ExitMain, Die, Crash, SpyNodeIdle
  <2>2. QED
    BY <1>0, <2>1, TurnOffCursor DEF LCInv, SpyNodeIdle, StoppedIsDown, TurnOff
<1>8. CASE StartMain
  BY <1>0, <1>8, StartCursor DEF StartMain, Start, LCInv, SpyNodeIdle, StoppedIsDown
<1>10. QED
  BY <1>1, <1>2, <1>3, <1>4, <1>5, <1>6, <1>7, <1>8, <1>9 DEF LifecycleNext, Aside

\* Whatever ends the running process, and however many requests hang, the messages below
\* the saved cursor have been saved when it is down (main.go:113-128), unless storage fails
\* while a formation is saved: then a formation is lost.
THEOREM LifecycleSkipsNothing ==
    ASSUME "storage" \notin FaultKinds
    PROVE  LifecycleSpec => []CursorSkipsNothing
<1>1. LifecycleInit => LCInv
  BY InitCInv DEF LifecycleInit, Init, LCInv, SpyNodeIdle, StoppedIsDown
<1>2. LCInv /\ [LifecycleNext]_allVars => LCInv'
  BY LifecycleCInv
<1>3. LCInv => CursorSkipsNothing
  BY DEF LCInv, CInv, CursorIsHandled, Handled, CursorSkipsNothing
<1>4. QED
  BY <1>1, <1>2, <1>3, PTL DEF LifecycleSpec
=============================================================================
