------------------------------- MODULE Reply -------------------------------
(***************************************************************************)
(* The way of a request through the web framework: the request logger      *)
(* (internal/mid/request_logging.go), the routes, the wrapper of           *)
(* App.Handle, ErrorHandler and CORS around each handler, and Respond      *)
(* (internal/platform/web).  A status may be written more than once: the   *)
(* first one is sent to the client and the last one is logged.             *)
(*                                                                         *)
(* Handlers are what they do to the reply: they respond and return nil,    *)
(* return an error, return nil alone, or panic; Registry has what leads    *)
(* there.  The handler of /health is whole: the database and the storage   *)
(* may go down and come back while it asks them.                           *)
(***************************************************************************)
EXTENDS Naturals

CONSTANTS
    Requests,
    MaxChanges   \* bound: how often a part goes down or comes back

ASSUME ChangesAssumption == MaxChanges \in Nat

VARIABLES
    at,        \* where each request is
    route,     \* what it asks for
    outcome,   \* what its handler returned: "nil", a kind of error, or "panic"
    sent,      \* the status the client was sent, NoStatus before
    logged,    \* the status in the logger's writer
    audited,   \* its log entry is the warning of a failed login
    down,      \* the parts of the service that are down
    changes,   \* how often that changed
    downAll    \* those that were down all the time since the request began

reply == <<sent, logged, audited>>
vars == <<at, route, outcome, reply, down, changes, downAll>>

Parts == {"database", "storage"}
Routes == {"options", "unmatched", "health", "handler"}
Errors == {"notFound", "unauthorized", "fields", "other"}
NoStatus == 0
Codes == {200, 401, 403, 404, 405, 422, 500}

Init ==
    /\ at = [r \in Requests |-> "idle"] /\ route = [r \in Requests |-> "options"]
    /\ outcome = [r \in Requests |-> "nil"]
    /\ sent = [r \in Requests |-> 200] /\ logged = [r \in Requests |-> 200]
    /\ audited = [r \in Requests |-> FALSE]
    /\ down = {} /\ changes = 0 /\ downAll = [r \in Requests |-> {}]

-----------------------------------------------------------------------------
Goto(r, label) == at' = [at EXCEPT ![r] = label]

\* loggingResponseWriter.WriteHeader; net/http ignores all but the first.
WriteHeader(r, code) ==
    /\ logged' = [logged EXCEPT ![r] = code]
    /\ sent' = [sent EXCEPT ![r] = IF @ = NoStatus THEN code ELSE @]
    /\ UNCHANGED audited

\* Respond: the status alone, or data, which may fail to marshal.
Respond(r, code) == WriteHeader(r, code)
RespondData(r, code) == Respond(r, code) \/ Respond(r, 500)

\* Mutant: what is not a known error has no status.
StatusOfKnown(kind) ==
    CASE kind = "notFound" -> 404 [] kind = "unauthorized" -> 401 [] kind = "fields" -> 422
      [] OTHER -> NoStatus

\* Error: the status of each kind of error a handler returns.
StatusOf(kind) ==
    CASE kind = "notFound" -> 404 [] kind = "unauthorized" -> 401 [] kind = "fields" -> 422
      [] kind \in {"other", "panic"} -> 500

Unchanged == UNCHANGED <<route, down, changes, downAll>>

-----------------------------------------------------------------------------
\* RequestLoggingMiddleware: the logger's status is 404 until one is written.
Accept(r, path) ==
    /\ at[r] = "idle" /\ Goto(r, "route") /\ route' = [route EXCEPT ![r] = path]
    /\ outcome' = [outcome EXCEPT ![r] = "nil"]
    /\ sent' = [sent EXCEPT ![r] = NoStatus] /\ logged' = [logged EXCEPT ![r] = 404]
    /\ audited' = [audited EXCEPT ![r] = FALSE]
    /\ downAll' = [downAll EXCEPT ![r] = down] /\ UNCHANGED <<down, changes>>

\* CORSHandler alone for OPTIONS: it writes headers and no status.
Preflight(r) ==
    /\ at[r] = "route" /\ route[r] = "options" /\ Goto(r, "log")
    /\ UNCHANGED <<outcome, reply>> /\ Unchanged

\* No route, or none for the method.
NoRoute(r) ==
    /\ at[r] = "route" /\ route[r] = "unmatched" /\ Goto(r, "log")
    /\ \E code \in {404, 405} : WriteHeader(r, code)
    /\ UNCHANGED outcome /\ Unchanged

\* App.Handle, through ErrorHandler and CORS.
CallHandler(r) ==
    /\ at[r] = "route" /\ route[r] \in {"health", "handler"} /\ Goto(r, route[r])
    /\ UNCHANGED <<outcome, reply>> /\ Unchanged

-----------------------------------------------------------------------------
(* Handlers.                                                                *)

Returns(r, result) == outcome' = [outcome EXCEPT ![r] = result] /\ Goto(r, "returned")

\* Mutant: a denial is answered and also returned as an error.
RepliesAndFails(r) ==
    /\ at[r] = "handler" /\ RespondData(r, 403) /\ Returns(r, "other") /\ Unchanged

\* Done, denied by the approver, or a private key.
Replies(r) ==
    /\ at[r] = "handler" /\ Returns(r, "nil") /\ Unchanged
    /\ \E code \in {200, 403, 422} : RespondData(r, code)

\* An error or a panic before a reply, or no reply (the error of ApproveTransfer).
Fails(r) ==
    /\ at[r] = "handler" /\ \E result \in Errors \union {"nil", "panic"} : Returns(r, result)
    /\ UNCHANGED reply /\ Unchanged

\* checkDB: Ping, then a fetch of a key that does not exist.
CheckDatabase(r) ==
    /\ at[r] = "health" /\ Goto(r, IF "database" \in down THEN "unhealthy" ELSE "fetch")
    /\ UNCHANGED <<outcome, reply>> /\ Unchanged

\* Mutant: any error of the fetch is taken for "not found".
CheckStorageNot(r) ==
    /\ at[r] = "fetch" /\ Goto(r, "healthy")
    /\ UNCHANGED <<outcome, reply>> /\ Unchanged

CheckStorage(r) ==
    /\ at[r] = "fetch" /\ Goto(r, IF "storage" \in down THEN "unhealthy" ELSE "healthy")
    /\ UNCHANGED <<outcome, reply>> /\ Unchanged

\* Health responds with the error and does not return.
Unhealthy(r) ==
    /\ at[r] = "unhealthy" /\ RespondData(r, 500) /\ Goto(r, "healthy")
    /\ UNCHANGED outcome /\ Unchanged

Healthy(r) == at[r] = "healthy" /\ Respond(r, 200) /\ Returns(r, "nil") /\ Unchanged

-----------------------------------------------------------------------------
\* Mutant: ErrorHandler recovers and leaves the reply to nobody.
ReportErrorsOnly(r) ==
    /\ at[r] = "returned" /\ outcome[r] # "nil" /\ Goto(r, "log")
    /\ IF outcome[r] = "panic" THEN UNCHANGED reply ELSE Respond(r, StatusOf(outcome[r]))
    /\ UNCHANGED outcome /\ Unchanged

\* App.Handle responds to an error, ErrorHandler to a panic.
ReportError(r) ==
    /\ at[r] = "returned" /\ outcome[r] # "nil" /\ Goto(r, "log")
    /\ Respond(r, StatusOf(outcome[r])) /\ UNCHANGED outcome /\ Unchanged

ReturnNil(r) ==
    /\ at[r] = "returned" /\ outcome[r] = "nil" /\ Goto(r, "log")
    /\ UNCHANGED <<outcome, reply>> /\ Unchanged

\* logHTTPRequest: with a user name, a 401 is logged as a failed login.
Log(r, hasUser) ==
    /\ at[r] = "log" /\ Goto(r, "end")
    /\ audited' = [audited EXCEPT ![r] = hasUser /\ logged[r] = 401]
    /\ UNCHANGED <<outcome, sent, logged>> /\ Unchanged

\* net/http sends 200 if nobody wrote a status.
FinishRequest(r) ==
    /\ at[r] = "end" /\ Goto(r, "idle")
    /\ sent' = [sent EXCEPT ![r] = IF @ = NoStatus THEN 200 ELSE @]
    /\ UNCHANGED <<outcome, logged, audited>> /\ Unchanged

\* A part goes down or comes back.
Change(part) ==
    /\ changes < MaxChanges /\ changes' = changes + 1
    /\ down' = IF part \in down THEN down \ {part} ELSE down \union {part}
    /\ downAll' = [r \in Requests |-> downAll[r] \ {part}]
    /\ UNCHANGED <<at, route, outcome, reply>>

Serve(r) ==
    \/ Preflight(r) \/ NoRoute(r) \/ CallHandler(r) \/ Replies(r) \/ Fails(r)
    \/ CheckDatabase(r) \/ CheckStorage(r) \/ Unhealthy(r) \/ Healthy(r)
    \/ ReportError(r) \/ ReturnNil(r) \/ FinishRequest(r)
    \/ \E hasUser \in BOOLEAN : Log(r, hasUser)

Next ==
    \/ \E r \in Requests, path \in Routes : Accept(r, path)
    \/ \E r \in Requests : Serve(r)
    \/ \E part \in Parts : Change(part)

Spec == Init /\ [][Next]_vars

-----------------------------------------------------------------------------
(* Properties.                                                              *)

\* Every variable holds a value of its kind; a request ends with a status.
TypeOK ==
    /\ at \in [Requests -> {"idle", "route", "handler", "health", "fetch", "unhealthy",
                            "healthy", "returned", "log", "end"}]
    /\ route \in [Requests -> Routes] /\ outcome \in [Requests -> Errors \union {"nil", "panic"}]
    /\ sent \in [Requests -> Codes \union {NoStatus}] /\ logged \in [Requests -> Codes]
    /\ \A r \in Requests : at[r] = "idle" => sent[r] # NoStatus
    /\ audited \in [Requests -> BOOLEAN] /\ changes \in 0 .. MaxChanges
    /\ down \subseteq Parts /\ downAll \in [Requests -> SUBSET Parts]
    /\ \A r \in Requests : at[r] # "idle" => downAll[r] \subseteq down

Ended(r) == at[r] = "idle"

\* A handler that fails, by an error or a panic, is answered with the status of that
\* failure: no reply was begun before it (web.go:69-71, errors.go:28-43).
FailuresAreReported ==
    \A r \in Requests : Ended(r) /\ outcome[r] # "nil" => sent[r] = StatusOf(outcome[r])

\* If a part of the service is down all the time /health looks, the client is told
\* 500, though 200 is written after it (health.go:23-28, db.go:98-116).
IllnessIsNoticed ==
    \A r \in Requests :
        Ended(r) /\ route[r] = "health" /\ downAll[r] # {} => sent[r] = 500

\* The log has the status the client got, and its warnings are of refused logins,
\* but for three cases: a preflight, a handler that returned nil without a reply
\* (both 404 in the log for a 200), and /health when it is not healthy (200 for a 500).
LogTellsTheReply ==
    \A r \in Requests :
        /\ audited[r] => sent[r] = 401
        /\ Ended(r) /\ logged[r] # sent[r] =>
            \/ /\ logged[r] = 404 /\ sent[r] = 200 /\ outcome[r] = "nil"
               /\ route[r] \in {"options", "handler"}
            \/ logged[r] = 200 /\ sent[r] = 500 /\ route[r] = "health"
=============================================================================
