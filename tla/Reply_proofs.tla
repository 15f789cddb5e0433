---------------------------- MODULE Reply_proofs ----------------------------
(***************************************************************************)
(* Proofs about Reply, for every set of requests and every number of times *)
(* a part of the service goes down or comes back.                          *)
(*                                                                         *)
(* What the client and the log are told at the end rests on how far a      *)
(* request has come: nothing is answered before the handler returns its    *)
(* error, and /health has asked the database before it asks the storage.   *)
(* Progress says so for each place a request can be.                       *)
(***************************************************************************)
EXTENDS Reply, TLAPS

USE ChangesAssumption

\* No status is written yet.
NotAnswered(r) == sent[r] = NoStatus /\ logged[r] = 404

\* The log has the status the client got, or will get from net/http, or is one of the
\* exceptions LogTellsTheReply lists.
LogAgrees(r) ==
    \/ sent[r] = logged[r]
    \/ /\ logged[r] = 404 /\ sent[r] \in {NoStatus, 200} /\ outcome[r] = "nil"
       /\ route[r] \in {"options", "handler"}
    \/ logged[r] = 200 /\ sent[r] = 500 /\ route[r] = "health"

\* A part that was down all the time has been noticed.
Noticed(r) == downAll[r] = {} \/ sent[r] = 500

\* What is so while the handler is at work, when it has returned, and afterwards.
Working(r) ==
    /\ at[r] \in {"route", "handler", "health", "fetch", "unhealthy"} => NotAnswered(r)
    /\ at[r] \in {"route", "handler", "health", "fetch", "unhealthy", "healthy"} =>
          outcome[r] = "nil"
    /\ at[r] = "handler" => route[r] = "handler"
    /\ at[r] \in {"health", "fetch", "unhealthy", "healthy"} => route[r] = "health"
    /\ at[r] = "fetch" => "database" \notin downAll[r]
    /\ at[r] = "healthy" => sent[r] = 500 \/ (NotAnswered(r) /\ downAll[r] = {})

Returned(r) ==
    at[r] = "returned" =>
        /\ route[r] = "health" => outcome[r] = "nil" /\ Noticed(r)
        /\ IF outcome[r] = "nil" THEN LogAgrees(r) ELSE NotAnswered(r)

Reported(r) ==
    at[r] \in {"log", "end", "idle"} =>
        /\ route[r] = "health" => outcome[r] = "nil" /\ Noticed(r)
        /\ outcome[r] # "nil" => sent[r] = StatusOf(outcome[r])
        /\ LogAgrees(r)

Progress(r) ==
    /\ Working(r) /\ Returned(r) /\ Reported(r)
    /\ audited[r] => at[r] \in {"end", "idle"} /\ sent[r] = 401

RInv == TypeOK /\ \A r \in Requests : Progress(r)

-----------------------------------------------------------------------------
\* Requests share no variable but the parts that are down: a step of one is no step of
\* another.
Alone(r) ==
    \A q \in Requests \ {r} :
        /\ at'[q] = at[q] /\ route'[q] = route[q] /\ outcome'[q] = outcome[q]
        /\ sent'[q] = sent[q] /\ logged'[q] = logged[q] /\ audited'[q] = audited[q]
        /\ downAll'[q] = downAll[q]

LEMMA OneRequest ==
    ASSUME RInv, TypeOK', NEW r \in Requests, Alone(r), Progress(r)' PROVE RInv'
<1> SUFFICES ASSUME NEW q \in Requests, q # r PROVE Progress(q)'
  BY DEF RInv
<1>1. Progress(q)
  BY DEF RInv
<1>2. /\ at'[q] = at[q] /\ route'[q] = route[q] /\ outcome'[q] = outcome[q]
      /\ sent'[q] = sent[q] /\ logged'[q] = logged[q] /\ audited'[q] = audited[q]
      /\ downAll'[q] = downAll[q]
  BY DEF Alone
<1>3. QED
  BY <1>1, <1>2 DEF Progress, Working, Returned, Reported, NotAnswered, LogAgrees, Noticed

LEMMA AcceptStep ==
    ASSUME RInv, NEW r \in Requests, NEW path \in Routes, Accept(r, path) PROVE RInv'
<1>1. TypeOK' /\ Alone(r)
  BY DEF RInv, TypeOK, Alone, Accept, Goto, Codes, NoStatus
<1>2. Progress(r)'
  BY DEF RInv, TypeOK, Accept, Goto, Progress, Working, Returned, Reported, NotAnswered
<1>3. QED
  BY <1>1, <1>2, OneRequest

LEMMA RouteStep ==
    ASSUME RInv, NEW r \in Requests, Preflight(r) \/ NoRoute(r) \/ CallHandler(r) PROVE RInv'
<1>0. Progress(r)
  BY DEF RInv
<1>1. TypeOK' /\ Alone(r)
  BY DEF RInv, TypeOK, Alone, Preflight, NoRoute, CallHandler, WriteHeader, Goto, Unchanged,
         reply, Codes
<1>2. Progress(r)'
  BY <1>0 DEF RInv, TypeOK, Preflight, NoRoute, CallHandler, WriteHeader, Goto, Unchanged, reply,
         Progress, Working, Returned, Reported, NotAnswered, LogAgrees, Noticed
<1>3. QED
  BY <1>1, <1>2, OneRequest

\* A handler answers and returns nil, or returns without an answer.
LEMMA HandlerStep ==
    ASSUME RInv, NEW r \in Requests, Replies(r) \/ Fails(r) PROVE RInv'
<1>0. Progress(r)
  BY DEF RInv
<1>1. CASE Replies(r)
  <2>1. PICK code \in {200, 403, 422, 500} : WriteHeader(r, code)
    BY <1>1 DEF Replies, RespondData, Respond
  <2>2. TypeOK' /\ Alone(r)
    BY <1>1, <2>1 DEF RInv, TypeOK, Alone, Replies, Returns, WriteHeader, Goto, Unchanged, Codes
  <2>3. Progress(r)'
    BY <1>0, <1>1, <2>1 DEF RInv, TypeOK, Replies, Returns, WriteHeader, Goto, Unchanged,
           Progress, Working, Returned, Reported, NotAnswered, LogAgrees, Noticed
  <2>4. QED
    BY <2>2, <2>3, OneRequest
<1>2. CASE Fails(r)
  <2>1. TypeOK' /\ Alone(r)
    BY <1>2 DEF RInv, TypeOK, Alone, Fails, Returns, Goto, Unchanged, reply
  <2>2. Progress(r)'
    BY <1>0, <1>2 DEF RInv, TypeOK, Fails, Returns, Goto, Unchanged, reply,
           Progress, Working, Returned, Reported, NotAnswered, LogAgrees, Noticed
  <2>3. QED
    BY <2>1, <2>2, OneRequest
<1>3. QED
  BY <1>1, <1>2

\* /health: a part that is found up was not down all the time.
LEMMA HealthStep ==
    ASSUME RInv, NEW r \in Requests,
           CheckDatabase(r) \/ CheckStorage(r) \/ Unhealthy(r) \/ Healthy(r)
    PROVE  RInv'
<1>0. Progress(r) /\ (at[r] # "idle" => downAll[r] \subseteq down) /\ down \subseteq Parts
  BY DEF RInv, TypeOK
<1>1. CASE CheckDatabase(r) \/ CheckStorage(r)
  <2>1. TypeOK' /\ Alone(r)
    BY <1>1 DEF RInv, TypeOK, Alone, CheckDatabase, CheckStorage, Goto, Unchanged, reply
  <2>2. Progress(r)'
    <3>1. CASE CheckDatabase(r)
      BY <1>0, <3>1 DEF RInv, TypeOK, CheckDatabase, Goto, Unchanged, reply,
             Progress, Working, Returned, Reported, NotAnswered
    <3>2. CASE CheckStorage(r)
      <4>1. "storage" \notin down => downAll[r] = {}
        BY <1>0, <3>2 DEF CheckStorage, Parts, Progress, Working
      <4>2. QED
        BY <1>0, <3>2, <4>1 DEF RInv, TypeOK, CheckStorage, Goto, Unchanged, reply,
               Progress, Working, Returned, Reported, NotAnswered
    <3>3. QED
      BY <1>1, <3>1, <3>2
  <2>3. QED
    BY <2>1, <2>2, OneRequest
<1>2. CASE Unhealthy(r)
  <2>1. WriteHeader(r, 500)
    BY <1>2 DEF Unhealthy, RespondData, Respond
  <2>2. TypeOK' /\ Alone(r)
    BY <1>2, <2>1 DEF RInv, TypeOK, Alone, Unhealthy, WriteHeader, Goto, Unchanged, Codes
  <2>3. sent'[r] = 500
    BY <1>0, <1>2, <2>1 DEF RInv, TypeOK, Unhealthy, WriteHeader, Progress, Working, NotAnswered
  <2>4. /\ at'[r] = "healthy" /\ route'[r] = "health" /\ outcome'[r] = "nil"
        /\ ~audited'[r]
    BY <1>0, <1>2, <2>1 DEF RInv, TypeOK, Unhealthy, WriteHeader, Goto, Unchanged,
           Progress, Working
  <2>5. Progress(r)'
    BY <2>3, <2>4 DEF Progress, Working, Returned, Reported
  <2>6. QED
    BY <2>2, <2>5, OneRequest
<1>3. CASE Healthy(r)
  <2>1. TypeOK' /\ Alone(r)
    BY <1>3 DEF RInv, TypeOK, Alone, Healthy, Respond, WriteHeader, Returns, Goto,
           Unchanged, Codes
  <2>2. Progress(r)'
    BY <1>0, <1>3 DEF RInv, TypeOK, Healthy, Respond, WriteHeader, Returns, Goto, Unchanged,
           Progress, Working, Returned, Reported, NotAnswered, LogAgrees, Noticed, NoStatus
  <2>3. QED
    BY <2>1, <2>2, OneRequest
<1>4. QED
  BY <1>1, <1>2, <1>3

\* Every kind of failure has a status.
LEMMA StatusOfFailure ==
    ASSUME NEW kind \in Errors \union {"panic"}
    PROVE  StatusOf(kind) \in Codes /\ StatusOf(kind) # NoStatus
<1>1. CASE kind = "notFound"
  BY <1>1 DEF StatusOf, Codes, NoStatus
<1>2. CASE kind = "unauthorized"
  BY <1>2 DEF StatusOf, Codes, NoStatus
<1>3. CASE kind = "fields"
  BY <1>3 DEF StatusOf, Codes, NoStatus
<1>4. CASE kind \in {"other", "panic"}
  BY <1>4 DEF StatusOf, Codes, NoStatus
<1>5. QED
  BY <1>1, <1>2, <1>3, <1>4 DEF Errors

\* An error is answered when it is returned, and nil is not.
LEMMA ReturnStep ==
    ASSUME RInv, NEW r \in Requests, ReportError(r) \/ ReturnNil(r) PROVE RInv'
<1>0. Progress(r)
  BY DEF RInv
<1>1. CASE ReportError(r)
  <2>1. StatusOf(outcome[r]) \in Codes
    BY <1>1, StatusOfFailure DEF ReportError, RInv, TypeOK
  <2>2. TypeOK' /\ Alone(r)
    BY <1>1, <2>1 DEF RInv, TypeOK, Alone, ReportError, Respond, WriteHeader, Goto, Unchanged
  <2>3. Progress(r)'
    BY <1>0, <1>1, <2>1 DEF RInv, TypeOK, ReportError, Respond, WriteHeader, Goto, Unchanged,
           Progress, Working, Returned, Reported, NotAnswered, LogAgrees, Noticed
  <2>4. QED
    BY <2>2, <2>3, OneRequest
<1>2. CASE ReturnNil(r)
  <2>1. TypeOK' /\ Alone(r)
    BY <1>2 DEF RInv, TypeOK, Alone, ReturnNil, Goto, Unchanged, reply
  <2>2. Progress(r)'
    BY <1>0, <1>2 DEF RInv, TypeOK, ReturnNil, Goto, Unchanged, reply,
           Progress, Working, Returned, Reported, NotAnswered, LogAgrees, Noticed
  <2>3. QED
    BY <2>1, <2>2, OneRequest
<1>3. QED
  BY <1>1, <1>2

\* The warning of a failed login is of the status that was sent: of the exceptions in
\* the log none is a 401.
LEMMA EndStep ==
    ASSUME RInv, NEW r \in Requests,
           FinishRequest(r) \/ \E hasUser \in BOOLEAN : Log(r, hasUser)
    PROVE  RInv'
<1>0. Progress(r)
  BY DEF RInv
<1>1. CASE FinishRequest(r)
  <2>1. outcome[r] # "nil" => StatusOf(outcome[r]) # NoStatus
    BY StatusOfFailure DEF RInv, TypeOK
  <2>2. TypeOK' /\ Alone(r)
    BY <1>1 DEF RInv, TypeOK, Alone, FinishRequest, Goto, Unchanged, Codes, NoStatus
  <2>3. Progress(r)'
    BY <1>0, <1>1, <2>1 DEF RInv, TypeOK, FinishRequest, Goto, Unchanged, Codes, NoStatus,
           Progress, Working, Returned, Reported, NotAnswered, LogAgrees, Noticed
  <2>4. QED
    BY <2>2, <2>3, OneRequest
<1>2. ASSUME NEW hasUser \in BOOLEAN, Log(r, hasUser) PROVE RInv'
  <2>1. TypeOK' /\ Alone(r)
    BY <1>2 DEF RInv, TypeOK, Alone, Log, Goto, Unchanged
  <2>2. Progress(r)'
    BY <1>0, <1>2 DEF RInv, TypeOK, Log, Goto, Unchanged,
           Progress, Working, Returned, Reported, NotAnswered, LogAgrees, Noticed
  <2>3. QED
    BY <2>1, <2>2, OneRequest
<1>3. QED
  BY <1>1, <1>2

\* The parts that were down all the time become fewer, and stay down while a request
\* is served.
LEMMA ChangeStep ==
    ASSUME RInv, NEW part \in Parts, Change(part) PROVE RInv'
<1>1. /\ UNCHANGED <<at, route, outcome, sent, logged, audited>>
      /\ downAll' = [r \in Requests |-> downAll[r] \ {part}]
  BY DEF Change, reply
<1>2. TypeOK'
  <2>1. downAll' \in [Requests -> SUBSET Parts] /\ down' \subseteq Parts
    BY <1>1 DEF RInv, TypeOK, Change
  <2>2. changes' \in 0 .. MaxChanges
    BY DEF RInv, TypeOK, Change
  <2>3. \A r \in Requests : at'[r] # "idle" => downAll'[r] \subseteq down'
    BY <1>1 DEF RInv, TypeOK, Change
  <2>4. QED
    BY <1>1, <2>1, <2>2, <2>3 DEF RInv, TypeOK
<1>3. ASSUME NEW r \in Requests PROVE Progress(r)'
  <2>1. Progress(r) /\ downAll'[r] \subseteq downAll[r]
    BY <1>1 DEF RInv
  <2>2. QED
    BY <1>1, <2>1 DEF Progress, Working, Returned, Reported, NotAnswered, LogAgrees, Noticed
<1>4. QED
  BY <1>2, <1>3 DEF RInv

LEMMA InitRInv == Init => RInv
<1> SUFFICES ASSUME Init PROVE RInv
  OBVIOUS
<1>1. TypeOK
  BY DEF Init, TypeOK, Routes, Codes, NoStatus
<1>2. ASSUME NEW r \in Requests PROVE Progress(r)
  <2>1. /\ at[r] = "idle" /\ route[r] = "options" /\ outcome[r] = "nil"
        /\ sent[r] = 200 /\ logged[r] = 200 /\ ~audited[r]
    BY DEF Init
  <2>2. QED
    BY <2>1 DEF Progress, Working, Returned, Reported, LogAgrees
<1>3. QED
  BY <1>1, <1>2 DEF RInv

LEMMA NextRInv == RInv /\ [Next]_vars => RInv'
<1> SUFFICES ASSUME RInv, [Next]_vars PROVE RInv'
  OBVIOUS
<1>1. CASE \E r \in Requests, path \in Routes : Accept(r, path)
  BY <1>1, AcceptStep
<1>2. ASSUME NEW r \in Requests, Serve(r) PROVE RInv'
  BY <1>2, RouteStep, HandlerStep, HealthStep, ReturnStep, EndStep DEF Serve
<1>3. CASE \E part \in Parts : Change(part)
  BY <1>3, ChangeStep
<1>4. CASE UNCHANGED vars
  <2>1. UNCHANGED <<at, route, outcome, sent, logged, audited, down, changes, downAll>>
    BY <1>4 DEF vars, reply
  <2>2. TypeOK'
    BY <2>1 DEF RInv, TypeOK
  <2>3. ASSUME NEW r \in Requests PROVE Progress(r)'
    <3>1. Progress(r)
      BY DEF RInv
    <3>2. QED
      BY <2>1, <3>1 DEF Progress, Working, Returned, Reported, NotAnswered, LogAgrees, Noticed
  <2>4. QED
    BY <2>2, <2>3 DEF RInv
<1>5. QED
  BY <1>1, <1>2, <1>3, <1>4 DEF Next

THEOREM Invariance == Spec => []RInv
BY InitRInv, NextRInv, PTL DEF Spec

\* Every variable keeps its type, and a request ends with a status.
THEOREM TypeCorrect == Spec => []TypeOK
<1>1. RInv => TypeOK
  BY DEF RInv
<1>2. QED
  BY <1>1, Invariance, PTL

\* A handler's error or panic reaches the client as its status: nothing is written
\* before it (web.go:69-71, errors.go:28-43).
THEOREM FailuresReachTheClient == Spec => []FailuresAreReported
<1>1. RInv => FailuresAreReported
  BY DEF RInv, Progress, Reported, FailuresAreReported, Ended
<1>2. QED
  BY <1>1, Invariance, PTL

\* However the database and the storage come and go, one that was down all the time
\* /health looked is answered with 500 (health.go:23-28, db.go:98-116).
THEOREM IllnessReachesTheClient == Spec => []IllnessIsNoticed
<1>1. RInv => IllnessIsNoticed
  BY DEF RInv, Progress, Reported, Noticed, IllnessIsNoticed, Ended
<1>2. QED
  BY <1>1, Invariance, PTL

\* The log tells the status the client got, but for the cases LogTellsTheReply names.
THEOREM LogIsTrue == Spec => []LogTellsTheReply
<1>1. RInv => LogTellsTheReply
  <2> SUFFICES ASSUME RInv, NEW r \in Requests
               PROVE  /\ audited[r] => sent[r] = 401
                      /\ Ended(r) /\ logged[r] # sent[r] =>
                          \/ /\ logged[r] = 404 /\ sent[r] = 200 /\ outcome[r] = "nil"
                             /\ route[r] \in {"options", "handler"}
                          \/ logged[r] = 200 /\ sent[r] = 500 /\ route[r] = "health"
    BY DEF LogTellsTheReply
  <2>1. Progress(r) /\ (at[r] = "idle" => sent[r] # NoStatus)
    BY DEF RInv, TypeOK
  <2>2. QED
    BY <2>1 DEF Progress, Reported, LogAgrees, Ended
<1>2. QED
  BY <1>1, Invariance, PTL
=============================================================================
