----------------------------- MODULE Lifecycle -----------------------------
(***************************************************************************)
(* The process around the listener: the goroutines of main                 *)
(* (cmd/identityoracled/main.go), Run and the HTTP server (bootstrap.go),  *)
(* their channels, and the database that requests use (platform/db).       *)
(* Three things end it: an interrupt, the spynode, or the server; each of  *)
(* them takes another way through Run.  It composes with                   *)
(* FormationListener: its StopClient and Save are steps of main, and its   *)
(* callbacks run in the goroutine of the spynode, for which main waits.    *)
(*                                                                         *)
(* net/http and the spynode's Run are external: Shutdown returns when no   *)
(* request is left or its context is done, Close cuts the connections of   *)
(* requests whose handlers then run on, and Run returns between callbacks. *)
(***************************************************************************)
EXTENDS FormationListener

CONSTANT Requests   \* goroutines of the HTTP server

VARIABLES
    run,             \* where Run is; "drained", "timedOut", "abandoned" when it returned
    server,          \* "listening", or "closed": it accepts no requests
    osSignals,       \* channel: signals in it
    serverErrors,    \* channel: results of ListenAndServe in it
    spyNodeErrors,   \* channel: results of spyNode.Run in it
    spyNode,         \* its goroutine: "running", "unstopped" (it runs, and Stop failed),
                     \* "sending" its result, "done"
    database,        \* the handle all sessions share is open
    request,         \* what each request does: "none", "working" or "stuck"
    dbConn           \* the session of each request's copy of the handle, or none

channels == <<osSignals, serverErrors, spyNodeErrors>>
requests == <<request, dbConn>>
lifecycle == <<run, server, channels, spyNode, database, requests>>
allVars == <<vars, lifecycle>>

Returned == {"drained", "timedOut", "abandoned"}
Active == {r \in Requests : request[r] # "none"}

\* make(chan error, 1), make(chan os.Signal, 1)
ChannelRoom == 1

LifecycleInit ==
    /\ Init /\ run = "select" /\ server = "listening" /\ spyNode = "running" /\ database = "open"
    /\ osSignals = 0 /\ serverErrors = 0 /\ spyNodeErrors = 0
    /\ request = [r \in Requests |-> "none"] /\ dbConn = [r \in Requests |-> "none"]

-----------------------------------------------------------------------------
(* Requests.  Copy makes a session; the deferred Close of a copy forgets    *)
(* it, while Close of a handle without one closes the database for all.     *)

\* Mutant: the copy has the session of the master, which is none.
CopyOfMaster(r) == dbConn' = [dbConn EXCEPT ![r] = "none"]

Copy(r) == dbConn' = [dbConn EXCEPT ![r] = "open"]

CloseCopy(r) ==
    \/ dbConn[r] = "open" /\ dbConn' = [dbConn EXCEPT ![r] = "none"] /\ UNCHANGED database
    \/ dbConn[r] = "none" /\ database' = "closed" /\ UNCHANGED dbConn

Accept(r) ==
    /\ server = "listening" /\ request[r] = "none" /\ request' = [request EXCEPT ![r] = "working"]
    /\ Copy(r) /\ UNCHANGED <<vars, run, server, channels, spyNode, database>>

\* The handler returns; on a closed database its next statement fails.
EndRequest(r) ==
    /\ request[r] = "working" /\ request' = [request EXCEPT ![r] = "none"]
    /\ CloseCopy(r) /\ UNCHANGED <<vars, run, server, channels, spyNode>>

\* A statement or a call of the approver never comes back: neither has a deadline.
Hang(r) ==
    /\ request[r] = "working" /\ Fault("hang") /\ request' = [request EXCEPT ![r] = "stuck"]
    /\ UNCHANGED <<chain, session, next, process, handler, storage>>
    /\ UNCHANGED <<run, server, channels, spyNode, database, dbConn>>

-----------------------------------------------------------------------------
(* What can end the process.                                                *)

Interrupt ==
    /\ process # "off" /\ osSignals < ChannelRoom /\ osSignals' = osSignals + 1 /\ Fault("interrupt")
    /\ UNCHANGED <<chain, session, next, process, handler, storage>>
    /\ UNCHANGED <<run, server, serverErrors, spyNodeErrors, spyNode, database, requests>>

\* Mutant: the goroutine reports a server that had already failed again.
ServerReturnsTwice == server' = "closed" /\ serverErrors' = serverErrors + 1

\* ListenAndServe returns; its goroutine puts the result into serverErrors.
ServerReturns ==
    /\ server' = "closed"
    /\ serverErrors' = IF server = "listening" THEN serverErrors + 1 ELSE serverErrors

\* The listener fails by itself; requests it has accepted go on.
ServerFails ==
    /\ server = "listening" /\ Fault("server") /\ ServerReturns
    /\ UNCHANGED <<chain, session, next, process, handler, storage>>
    /\ UNCHANGED <<run, osSignals, spyNodeErrors, spyNode, database, requests>>

\* spyNode.Run returns, by an error or after Stop.
SpyNodeFails ==
    /\ (spyNode = "running" /\ process = "running") \/ spyNode = "unstopped"
    /\ work = <<>> /\ Fault("spynode") /\ spyNode' = "sending" /\ session' = "down"
    /\ UNCHANGED <<chain, next, process, handler, storage>>
    /\ UNCHANGED <<run, server, channels, database, requests>>

SpyNodeStopped ==
    /\ spyNode = "running" /\ work = <<>> /\ process \in {"stopping", "saved"}
    /\ spyNode' = "sending"
    /\ UNCHANGED <<vars, run, server, channels, database, requests>>

\* Mutant: the channel has no buffer, and nobody receives after Run returned.
SpyNodeSendsUnbuffered ==
    /\ spyNode = "sending" /\ spyNodeErrors < ChannelRoom /\ run = "select"
    /\ spyNode' = "done" /\ spyNodeErrors' = spyNodeErrors + 1
    /\ UNCHANGED <<vars, run, server, osSignals, serverErrors, database, requests>>

SpyNodeSends ==
    /\ spyNode = "sending" /\ spyNodeErrors < ChannelRoom
    /\ spyNode' = "done" /\ spyNodeErrors' = spyNodeErrors + 1
    /\ UNCHANGED <<vars, run, server, osSignals, serverErrors, database, requests>>

-----------------------------------------------------------------------------
(* Run: the select, and what follows each of its cases.                     *)

\* server.Shutdown(ctx) with the context of main, which has no deadline.
ReceiveSpyNodeError ==
    /\ run = "select" /\ spyNodeErrors > 0 /\ spyNodeErrors' = spyNodeErrors - 1
    /\ run' = "draining" /\ ServerReturns
    /\ UNCHANGED <<vars, osSignals, spyNode, database, requests>>

\* server.Shutdown(ctx) with ShutdownTimeout.
ReceiveSignal ==
    /\ run = "select" /\ osSignals > 0 /\ osSignals' = osSignals - 1
    /\ run' = "drainingTimed" /\ ServerReturns
    /\ UNCHANGED <<vars, spyNodeErrors, spyNode, database, requests>>

\* Run returns: the deferred Close is that of the master handle.
Return(outcome) == run' = outcome /\ database' = "closed"

\* The server failed: nothing waits for its requests.
ReceiveServerError ==
    /\ run = "select" /\ serverErrors > 0 /\ serverErrors' = serverErrors - 1
    /\ Return("abandoned")
    /\ UNCHANGED <<vars, server, osSignals, spyNodeErrors, spyNode, requests>>

\* Mutant: Close instead of Shutdown.
DrainedAtOnce ==
    /\ run \in {"draining", "drainingTimed"} /\ Return("drained")
    /\ UNCHANGED <<vars, server, channels, spyNode, requests>>

Drained ==
    /\ run \in {"draining", "drainingTimed"} /\ Active = {} /\ Return("drained")
    /\ UNCHANGED <<vars, server, channels, spyNode, requests>>

\* The deadline: server.Close, and the handlers at work lose the database.
TimedOut ==
    /\ run = "drainingTimed" /\ Active # {} /\ Return("timedOut")
    /\ UNCHANGED <<vars, server, channels, spyNode, requests>>

RunStep == ReceiveSpyNodeError \/ ReceiveSignal \/ ReceiveServerError \/ Drained \/ TimedOut

-----------------------------------------------------------------------------
(* main.                                                                    *)

\* oracleWait.Wait(), spyNode.Stop(ctx)
StopSpyNode == run \in Returned /\ StopClient /\ UNCHANGED <<faults, lifecycle>>

\* An error of Stop is only logged: the client keeps its connection, its callbacks go
\* on, and Run returns by itself or never.
StopSpyNodeFails ==
    /\ run \in Returned /\ process = "running" /\ process' = "stopping" /\ Fault("stopSpyNode")
    /\ spyNode' = IF spyNode = "running" THEN "unstopped" ELSE spyNode
    /\ UNCHANGED <<chain, session, next, handler, storage>>
    /\ UNCHANGED <<run, server, channels, database, requests>>

SaveCursor == Save /\ UNCHANGED lifecycle

\* What the process held is gone.
Down ==
    /\ run' = "off" /\ server' = "closed" /\ spyNode' = "done" /\ database' = "closed"
    /\ osSignals' = 0 /\ serverErrors' = 0 /\ spyNodeErrors' = 0
    /\ request' = [r \in Requests |-> "none"] /\ dbConn' = [r \in Requests |-> "none"]

\* Mutant: main does not wait for the goroutine of the spynode.
ExitMainAtOnce == process = "saved" /\ TurnOff /\ Down /\ UNCHANGED faults

\* spynodeWait.Wait(): the goroutine of the spynode has sent its result.
ExitMain == process = "saved" /\ spyNode = "done" /\ TurnOff /\ Down /\ UNCHANGED faults

Die == Crash /\ Down

StartMain ==
    /\ Start /\ run' = "select" /\ server' = "listening" /\ spyNode' = "running"
    /\ database' = "open" /\ UNCHANGED <<channels, requests>>

-----------------------------------------------------------------------------
Listen == (spyNode = "running" /\ Connect) \/ Callback

LifecycleNext ==
    \/ ((\E tx \in Txs : Publish(tx)) \/ Disconnect \/ Listen) /\ UNCHANGED lifecycle
    \/ \E r \in Requests : Accept(r) \/ EndRequest(r) \/ Hang(r)
    \/ Interrupt \/ ServerFails \/ SpyNodeFails \/ SpyNodeStopped \/ SpyNodeSends
    \/ RunStep \/ StopSpyNode \/ StopSpyNodeFails \/ SaveCursor \/ ExitMain \/ Die \/ StartMain

LifecycleSpec == LifecycleInit /\ [][LifecycleNext]_allVars

\* Goroutines that can go on do; a deadline passes; requests end unless they are
\* stuck; the process is started again.
LifecycleFairness ==
    /\ WF_allVars(spyNode = "running" /\ Connect /\ UNCHANGED lifecycle)
    /\ WF_allVars(Callback /\ UNCHANGED lifecycle)
    /\ WF_allVars(SpyNodeStopped) /\ WF_allVars(SpyNodeSends) /\ WF_allVars(RunStep)
    /\ WF_allVars(StopSpyNode) /\ WF_allVars(SaveCursor) /\ WF_allVars(ExitMain)
    /\ WF_allVars(StartMain)
    /\ \A r \in Requests : WF_allVars(EndRequest(r))

FairLifecycle == LifecycleSpec /\ LifecycleFairness

-----------------------------------------------------------------------------
(* Properties.                                                              *)

\* Every variable holds a value of its kind, and no channel more than it has room for,
\* so that no goroutine is left waiting to send (bootstrap.go:116-118, main.go:90).
LifecycleTypeOK ==
    /\ run \in {"select", "draining", "drainingTimed", "off"} \union Returned
    /\ server \in {"listening", "closed"} /\ osSignals \in 0 .. ChannelRoom
    /\ serverErrors \in 0 .. ChannelRoom /\ spyNodeErrors \in 0 .. ChannelRoom
    /\ spyNode \in {"running", "unstopped", "sending", "done"} /\ database \in {"open", "closed"}
    /\ request \in [Requests -> {"none", "working", "stuck"}]
    /\ dbConn \in [Requests -> {"none", "open"}]

\* Only the end of Run closes the database, and if the server was drained no
\* request is left that needs it: one that ends never takes the database from
\* another (bootstrap.go:114, 151, 172; db.go:123-145).
DatabaseOutlivesRequests ==
    process # "off" /\ database = "closed" =>
        run \in Returned /\ (run = "drained" => Active = {})

\* Something asks the process to end.
Ending == process # "off" /\ (osSignals > 0 \/ serverErrors > 0 \/ spyNode # "running")

\* The two ways a shutdown does not end: Run waits for requests without a deadline,
\* or main waits for a spynode it could not stop.
Stuck ==
    \/ run = "draining" /\ \E r \in Requests : request[r] = "stuck"
    \/ process = "saved" /\ spyNode = "unstopped"

\* Then it does end, whatever the requests do, with two exceptions: after the spynode
\* failed, Run waits for a request that is stuck, and after Stop failed, main waits for
\* the spynode (bootstrap.go:146-178, main.go:96-129).  No send on a channel blocks on
\* the way.
EndsUnlessStuck == Ending ~> (process = "off" \/ Stuck)

\* Whatever ends the process, the one started after it resumes, until the newest
\* published formation of each contract is returned (listener.go:35, main.go:113-128).
CollectsUnlessStuck == []<>(Stuck \/ \A f \in published : Kept(f))
=============================================================================
