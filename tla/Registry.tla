------------------------------ MODULE Registry ------------------------------
(***************************************************************************)
(* The users and xpubs tables and the HTTP handlers over them              *)
(* (cmd/identityoracled/handlers, internal/oracle).  Each request runs on  *)
(* its own goroutine: one step per SQL statement and per call of the       *)
(* approver, and no transaction spans two of them, so other requests come  *)
(* in between.  What a request signs is thus made of what several moments  *)
(* said about the user, the approver's identity and the xpub.              *)
(*                                                                         *)
(* The approver (ApproverInterface) and PostgreSQL are external.           *)
(***************************************************************************)
EXTENDS EntityField, Naturals, FiniteSets

CONSTANTS
    Requests,            \* request goroutines
    UserIds, Keys, XPubs, Signers,
    Entities,            \* what users register
    Claims,              \* what requests ask to be attested
    Contract,            \* a claim to be the issuer of an entity contract
    None,
    Ops,                 \* the handlers called in this instance
    FaultKinds, MaxFaults, MaxCalls  \* bounds: faults, their number, requests

ASSUME RegistryAssumption ==
    None \notin UserIds /\ None \notin Entities /\ Contract \notin Claims
ASSUME OpsAssumption ==
    Ops \subseteq {"Register", "AddXPub", "UpdateIdentity", "PubKeySignature", "XPubSignature",
                   "AdminCertificate", "TransferSignature", "User"}

VARIABLES
    users,     \* table users: None or the row of each user id
    xpubs,     \* table xpubs
    accepted,  \* approver: every entity it ever approved for each user id
    identity,  \* approver: the one it approved last
    call,      \* the request of each goroutine, its locals and its reply
    calls, faults  \* requests and faults so far

tables == <<users, xpubs>>
approver == <<accepted, identity>>
vars == <<tables, approver, call, calls, faults>>

UserRow == [entity : Entities, key : Keys, deleted : BOOLEAN]
XPubRow == [user : UserIds, xpub : XPubs, signers : Signers]

ASSUME RowAssumption == None \notin UserRow

\* A call before its handler has found anything out.
NewCall(op, args) ==
    [op |-> op, at |-> "begin", args |-> args, user |-> None, entity |-> None,
     vetted |-> None, signers |-> None, claim |-> None, approved |-> TRUE,
     signed |-> FALSE, failed |-> FALSE, status |-> 0]

Args(id, entity, xpub, signers, key, signer) ==
    [id |-> id, entity |-> entity, xpub |-> xpub, signers |-> signers,
     key |-> key, signer |-> signer]
NoArgs == Args(None, None, None, None, None, None)
Idle == [NewCall("none", NoArgs) EXCEPT !.at = "done"]

\* The arguments each handler is called with; the signer is the key that signed.
ArgsOf(op) ==
    CASE op = "Register" ->
            {Args(None, e, None, None, k, s) : e \in Entities, k \in Keys, s \in Keys}
      [] op = "AddXPub" ->
            {Args(u, None, x, n, None, s) : u \in UserIds, x \in XPubs, n \in Signers, s \in Keys}
      [] op = "UpdateIdentity" ->
            {Args(u, e, None, None, None, s) : u \in UserIds, e \in Entities, s \in Keys}
      [] op \in {"PubKeySignature", "XPubSignature"} ->
            {Args(None, e, x, None, None, None) : e \in Claims, x \in XPubs}
      [] op = "AdminCertificate" ->
            {Args(None, e, x, None, None, None) : e \in Claims \union {Contract}, x \in XPubs}
      [] op \in {"TransferSignature", "User"} ->
            {Args(None, None, x, None, None, None) : x \in XPubs}

Init ==
    /\ users = [u \in UserIds |-> None] /\ xpubs = {}
    /\ accepted = [u \in UserIds |-> {}] /\ identity = [u \in UserIds |-> None]
    /\ call = [r \in Requests |-> Idle]
    /\ calls = 0 /\ faults = 0

-----------------------------------------------------------------------------
Fault(kind) == kind \in FaultKinds /\ faults < MaxFaults /\ faults' = faults + 1

At(r, label) == call[r].at = label

\* The goroutine goes on with call c, sends its reply, or refuses the request and
\* keeps none of its locals.
Continue(r, c, label) == call' = [call EXCEPT ![r] = [c EXCEPT !.at = label]]
Respond(r, c, status) == call' = [call EXCEPT ![r] = [c EXCEPT !.at = "done", !.status = status]]
Refuse(r, status) == Respond(r, NewCall(call[r].op, NoArgs), status)

\* A statement fails: an error other than not found is answered with a 500.
ReadFails(r) == Fault("read") /\ Refuse(r, 500)
WriteFails(r) == Fault("write") /\ Refuse(r, 500) /\ UNCHANGED tables

Begin(r, op, args) ==
    /\ call[r].at = "done" /\ calls < MaxCalls /\ calls' = calls + 1
    /\ call' = [call EXCEPT ![r] = NewCall(op, args)]
    /\ UNCHANGED <<tables, approver, faults>>

\* Nothing in the service deletes a user; the column is set by an operator.
DeleteUser(u) ==
    /\ users[u] # None /\ ~users[u].deleted /\ Fault("delete")
    /\ users' = [users EXCEPT ![u].deleted = TRUE]
    /\ UNCHANGED <<xpubs, approver, call, calls>>

-----------------------------------------------------------------------------
(* Register, AddXPub, UpdateIdentity.                                       *)

\* The entity must be signed by the key that registers; the id is a new uuid.
CheckRegistration(r) ==
    /\ At(r, "begin")
    /\ \/ call[r].args.signer # call[r].args.key /\ Refuse(r, 401)
       \/ /\ call[r].args.signer = call[r].args.key
          /\ \E u \in UserIds :
              /\ users[u] = None /\ accepted[u] = {}
              /\ \A q \in Requests : call[q].user # u
              /\ Continue(r, [call[r] EXCEPT !.user = u], "approve")
    /\ UNCHANGED <<tables, approver, calls, faults>>

\* FetchUser finds the users that are not deleted.
Live(u) == users[u] # None /\ ~users[u].deleted

\* Mutant: the signature is not verified.
FetchUserUnverified(r) ==
    /\ At(r, "begin") /\ Live(call[r].args.id)
    /\ Continue(r, [call[r] EXCEPT !.user = call[r].args.id,
                                   !.entity = users[call[r].args.id].entity],
                IF call[r].op = "AddXPub" THEN "write" ELSE "approve")
    /\ UNCHANGED <<tables, approver, calls, faults>>

\* FetchUser, then the signature over the request against the user's key.
FetchUser(r) ==
    /\ At(r, "begin")
    /\ LET u == call[r].args.id
           found == [call[r] EXCEPT !.user = u, !.entity = users[u].entity]
           label == IF call[r].op = "AddXPub" THEN "write" ELSE "approve"
       IN  \/ /\ Live(u) /\ call[r].args.signer = users[u].key
              /\ Continue(r, found, label) /\ UNCHANGED faults
           \/ /\ Live(u) /\ call[r].args.signer # users[u].key
              /\ Refuse(r, 401) /\ UNCHANGED faults
           \/ ~Live(u) /\ Refuse(r, 404) /\ UNCHANGED faults
           \/ ReadFails(r)
    /\ UNCHANGED <<tables, approver, calls>>

\* Mutant: the answer of the approver is not looked at.
ApproveChangeAnyway(r) ==
    /\ At(r, "approve")
    /\ \/ /\ accepted' = [accepted EXCEPT ![call[r].user] = @ \union {call[r].args.entity}]
          /\ identity' = [identity EXCEPT ![call[r].user] = call[r].args.entity]
       \/ UNCHANGED approver
    /\ Continue(r, call[r], "write") /\ UNCHANGED <<tables, calls, faults>>

\* ApproveRegistration or UpdateIdentity of the approver.
ApproveChange(r) ==
    /\ At(r, "approve")
    /\ LET u == call[r].user
           e == call[r].args.entity
       IN  \/ /\ accepted' = [accepted EXCEPT ![u] = @ \union {e}]
              /\ identity' = [identity EXCEPT ![u] = e]
              /\ Continue(r, call[r], "write") /\ UNCHANGED faults
           \/ Refuse(r, 403) /\ UNCHANGED <<approver, faults>>
           \/ /\ Fault("approver") /\ UNCHANGED approver
              /\ Respond(r, [call[r] EXCEPT !.failed = TRUE], 500)
    /\ UNCHANGED <<tables, calls>>

\* Mutant: an error of the statement is dropped.
CreateUserUnchecked(r) ==
    /\ At(r, "write") /\ Respond(r, call[r], 200)
    /\ \/ /\ users' = [users EXCEPT ![call[r].user] =
                [entity |-> call[r].args.entity, key |-> call[r].args.key, deleted |-> FALSE]]
          /\ UNCHANGED faults
       \/ Fault("write") /\ UNCHANGED users
    /\ UNCHANGED <<xpubs, approver, calls>>

CreateUser(r) ==
    /\ At(r, "write")
    /\ \/ /\ users' = [users EXCEPT ![call[r].user] =
                [entity |-> call[r].args.entity, key |-> call[r].args.key, deleted |-> FALSE]]
          /\ Respond(r, call[r], 200) /\ UNCHANGED faults
       \/ WriteFails(r)
    /\ UNCHANGED <<xpubs, approver, calls>>

\* Mutants: the number of signers of the second request is stored, and an insert with
\* its columns swapped.
CreateXPubUpserts(r) ==
    /\ At(r, "write") /\ Respond(r, call[r], 200)
    /\ xpubs' = {row \in xpubs : row.user # call[r].user \/ row.xpub # call[r].args.xpub}
                \union {[user |-> call[r].user, xpub |-> call[r].args.xpub,
                         signers |-> call[r].args.signers]}
    /\ UNCHANGED <<users, approver, calls, faults>>
CreateXPubSwapped(r) ==
    /\ At(r, "write") /\ Respond(r, call[r], 200)
    /\ xpubs' = xpubs \union {[user |-> call[r].user, xpub |-> call[r].args.signers,
                              signers |-> call[r].args.xpub]}
    /\ UNCHANGED <<users, approver, calls, faults>>

\* ON CONFLICT (user_id, xpub) DO NOTHING.
CreateXPub(r) ==
    /\ At(r, "write")
    /\ LET row == [user |-> call[r].user, xpub |-> call[r].args.xpub, signers |-> call[r].args.signers]
       IN  \/ /\ xpubs' = IF \E q \in xpubs : q.user = row.user /\ q.xpub = row.xpub
                          THEN xpubs ELSE xpubs \union {row}
              /\ Respond(r, call[r], 200) /\ UNCHANGED faults
           \/ WriteFails(r)
    /\ UNCHANGED <<users, approver, calls>>

\* UPDATE users SET entity ... WHERE id: the row is not compared with what was
\* fetched, and a user deleted meanwhile is updated like any other.
UpdateUser(r) ==
    /\ At(r, "write")
    /\ \/ /\ users' = [users EXCEPT ![call[r].user].entity = call[r].args.entity]
          /\ Respond(r, call[r], 200) /\ UNCHANGED faults
       \/ WriteFails(r)
    /\ UNCHANGED <<xpubs, approver, calls>>

-----------------------------------------------------------------------------
(* PubKeySignature, XPubSignature, AdminCertificate, TransferSignature, User. *)

Verifying == {"PubKeySignature", "XPubSignature", "AdminCertificate"}

\* The rows of an xpub; nothing in the service deletes one.
RowsOf(r) == {row \in xpubs : row.xpub = call[r].args.xpub}
LiveRowsOf(r) == {row \in RowsOf(r) : ~users[row.user].deleted}

\* The first row of the join: any of them, where users share the xpub.
FetchUserByXPub(r) ==
    /\ At(r, "begin")
    /\ \/ /\ \E row \in LiveRowsOf(r) :
              Continue(r, [call[r] EXCEPT !.user = row.user, !.entity = users[row.user].entity],
                       "approve")
          /\ UNCHANGED faults
       \/ LiveRowsOf(r) = {} /\ Refuse(r, 404) /\ UNCHANGED faults
       \/ ReadFails(r)
    /\ UNCHANGED <<tables, approver, calls>>

\* Nothing here asks whether the user is deleted.
FetchUserIDByXPub(r) ==
    /\ At(r, "begin")
    /\ \/ /\ \E row \in RowsOf(r) : Respond(r, [call[r] EXCEPT !.user = row.user], 200)
          /\ UNCHANGED faults
       \/ RowsOf(r) = {} /\ Refuse(r, 404) /\ UNCHANGED faults
       \/ ReadFails(r)
    /\ UNCHANGED <<tables, approver, calls>>

\* The approver judges the identity it has at this moment.
ApproveIdentity(r) ==
    /\ At(r, "approve")
    /\ LET next == IF call[r].op = "AdminCertificate" THEN "row" ELSE "sign"
       IN  \/ Continue(r, [call[r] EXCEPT !.vetted = identity[call[r].user]], next)
              /\ UNCHANGED faults
           \/ Refuse(r, 403) /\ UNCHANGED faults
           \/ Fault("approver") /\ Respond(r, [call[r] EXCEPT !.failed = TRUE], 500)
    /\ UNCHANGED <<tables, approver, calls>>

\* A refusal is signed too.  An error wraps the nil error of the fetch above it:
\* the handler returns nil, and the reply is an empty 200.
ApproveTransfer(r) ==
    /\ At(r, "approve")
    /\ \/ /\ \E approved \in BOOLEAN :
              Continue(r, [call[r] EXCEPT !.approved = approved], "row")
          /\ UNCHANGED faults
       \/ Fault("approver") /\ Respond(r, [call[r] EXCEPT !.failed = TRUE], 200)
    /\ UNCHANGED <<tables, approver, calls>>

\* FetchXPubByXPub, for the number of signers of the address: any user's row.
FetchXPubByXPub(r) ==
    /\ At(r, "row")
    /\ \/ /\ \E row \in RowsOf(r) :
              Continue(r, [call[r] EXCEPT !.signers = row.signers], "sign")
          /\ UNCHANGED faults
       \/ ReadFails(r)
    /\ UNCHANGED <<tables, approver, calls>>

\* What is checked against the user: the claim, or the issuer in the formation
\* of the entity contract.
Checked(r) == IF call[r].args.entity = Contract THEN Claims ELSE {call[r].args.entity}

\* VerifyPubKey, VerifyXPub, or the rest of CreateAdminCertificate.  Without a
\* full window of headers, or a contract formation with an issuer, there is no
\* signature; otherwise whether the claim is a subset is part of what is signed.
Attest(r) ==
    /\ At(r, "sign")
    /\ \/ /\ \E claim \in Checked(r) :
              Respond(r, [call[r] EXCEPT !.signed = TRUE, !.claim = claim,
                          !.approved = IsSubset(claim, call[r].entity)], 200)
          /\ UNCHANGED faults
       \/ call[r].args.entity = Contract /\ Refuse(r, 500) /\ UNCHANGED faults
       \/ Fault("listener") /\ Refuse(r, 500)
    /\ UNCHANGED <<tables, approver, calls>>

CreateReceiveSignature(r) ==
    /\ At(r, "sign")
    /\ \/ Respond(r, [call[r] EXCEPT !.signed = TRUE], 200) /\ UNCHANGED faults
       \/ Fault("listener") /\ Refuse(r, 500)
    /\ UNCHANGED <<tables, approver, calls>>

-----------------------------------------------------------------------------
(* The handlers, by the steps each of them takes.                           *)
Register(r) ==
    call[r].op = "Register" /\ (CheckRegistration(r) \/ ApproveChange(r) \/ CreateUser(r))
AddXPub(r) == call[r].op = "AddXPub" /\ (FetchUser(r) \/ CreateXPub(r))
UpdateIdentity(r) ==
    call[r].op = "UpdateIdentity" /\ (FetchUser(r) \/ ApproveChange(r) \/ UpdateUser(r))
User(r) == call[r].op = "User" /\ FetchUserIDByXPub(r)

PubKeySignature(r) ==
    call[r].op = "PubKeySignature" /\ (FetchUserByXPub(r) \/ ApproveIdentity(r) \/ Attest(r))
XPubSignature(r) ==
    call[r].op = "XPubSignature" /\ (FetchUserByXPub(r) \/ ApproveIdentity(r) \/ Attest(r))
AdminCertificate(r) ==
    /\ call[r].op = "AdminCertificate"
    /\ FetchUserByXPub(r) \/ ApproveIdentity(r) \/ FetchXPubByXPub(r) \/ Attest(r)
TransferSignature(r) ==
    /\ call[r].op = "TransferSignature"
    /\ FetchUserByXPub(r) \/ ApproveTransfer(r) \/ FetchXPubByXPub(r) \/ CreateReceiveSignature(r)

Handle(r) ==
    \/ Register(r) \/ AddXPub(r) \/ UpdateIdentity(r) \/ User(r)
    \/ PubKeySignature(r) \/ XPubSignature(r) \/ AdminCertificate(r) \/ TransferSignature(r)

Next ==
    \/ \E r \in Requests : Handle(r) \/ \E op \in Ops : \E args \in ArgsOf(op) : Begin(r, op, args)
    \/ \E u \in UserIds : DeleteUser(u)

Spec == Init /\ [][Next]_vars

-----------------------------------------------------------------------------
(* Properties.                                                              *)

\* Every variable holds a value of its kind.
TypeOK ==
    /\ users \in [UserIds -> UserRow \union {None}] /\ xpubs \subseteq XPubRow
    /\ accepted \in [UserIds -> SUBSET Entities]
    /\ identity \in [UserIds -> Entities \union {None}]
    /\ \A r \in Requests :
        /\ call[r].at \in {"begin", "approve", "write", "row", "sign", "done"}
        /\ call[r].user \in UserIds \union {None} /\ call[r].entity \in Entities \union {None}
        /\ call[r].signers \in Signers \union {None}
        /\ call[r].claim \in Claims \union {None}
        /\ call[r].status \in {0, 200, 401, 403, 404, 500}

\* An approving signature is only ever given for a claim that an entity the
\* approver approved for that user says in full, however registrations, updates
\* and verifications interleave (handlers/identity.go:60-87, oracle.go:307-331).
ApprovedClaimsWereAccepted ==
    \A r \in Requests :
        call[r].signed /\ call[r].approved /\ call[r].op \in Verifying =>
            \E e \in accepted[call[r].user] : IsSubset(call[r].claim, e)

\* A 200 means the row is there: the user, and the user's xpub (oracle.go:120-132,
\* 200-207).
AcknowledgedIsStored ==
    \A r \in Requests : call[r].status = 200 =>
        /\ call[r].op = "Register" => users[call[r].user] # None
        /\ call[r].op = "AddXPub" =>
              \E row \in xpubs : row.user = call[r].user /\ row.xpub = call[r].args.xpub

\* The number of signers that a certificate or a transfer signature is made with
\* (internal/oracle/identity.go:114-124, transfer.go:31-66) is registered from the
\* statement that finds it to ever after, whoever adds the xpub before, between and
\* after: the address is, and stays, one of the user the request is for, or of another
\* user who has added the same xpub, whose row FetchXPubByXPub may take (xpub.go:34, 57).
AddressesStayRegistered ==
    \A r \in Requests :
        call[r].signed /\ call[r].op \in {"AdminCertificate", "TransferSignature"} =>
            \E own \in RowsOf(r) :
                /\ own.user = call[r].user
                /\ \/ own.signers = call[r].signers
                   \/ \E other \in RowsOf(r) :
                        other.user # own.user /\ other.signers = call[r].signers

\* What is stored for a user changes only while a request signed with that user's
\* key is at work (oracle.go:189-203 and 303-331).
OnlyTheOwnerWrites ==
    [][\A u \in UserIds : users[u] # None =>
        \/ /\ users'[u].entity = users[u].entity
           /\ {row \in xpubs' : row.user = u} = {row \in xpubs : row.user = u}
        \/ \E r \in Requests : /\ call[r].at = "write" /\ call[r].user = u
                               /\ call[r].args.signer = users[u].key]_vars

\* The identity a signature is about is the one the approver judged for it
\* (handlers/identity.go:61-82; interfaces.go:28, "approves that an identity is
\* verified and ready to use").
SignedIdentityIsVetted ==
    \A r \in Requests :
        call[r].signed /\ call[r].op \in Verifying => call[r].entity = call[r].vetted

\* An error of the approver is returned to the caller (interfaces.go:40).
ApproverErrorIsReturned ==
    \A r \in Requests : call[r].failed => call[r].status = 500
=============================================================================
