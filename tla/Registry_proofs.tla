-------------------------- MODULE Registry_proofs --------------------------
(***************************************************************************)
(* Proofs about Registry, for every set of requests, users, keys, xpubs    *)
(* and entities, any faults and any number of requests.                    *)
(*                                                                         *)
(* No transaction spans two statements of a handler, so what a request has *)
(* in its locals was true of the tables earlier.  What the properties rest *)
(* on is that some of it stays true: a user keeps its key, a row of xpubs  *)
(* is never changed, what was accepted once stays accepted, and the id of  *)
(* a new user is that request's alone until it is written.                 *)
(***************************************************************************)
EXTENDS Registry, TLAPS

USE RegistryAssumption, RowAssumption

Handlers == {"Register", "AddXPub", "UpdateIdentity", "PubKeySignature", "XPubSignature",
             "AdminCertificate", "TransferSignature", "User"}

\* A request's arguments and its locals.
ArgRecord == [id : UserIds \union {None}, entity : Entities \union Claims \union {Contract, None},
              xpub : XPubs \union {None}, signers : Signers \union {None},
              key : Keys \union {None}, signer : Keys \union {None}]
Call == [op : Handlers \union {"none"},
         at : {"begin", "approve", "write", "row", "sign", "done"},
         args : ArgRecord, user : UserIds \union {None}, entity : Entities \union {None},
         vetted : Entities \union {None}, signers : Signers \union {None},
         claim : Claims \union {None}, approved : BOOLEAN, signed : BOOLEAN, failed : BOOLEAN,
         status : {0, 200, 401, 403, 404, 500}]

\* The arguments are those of the handler.
ArgsFit(c) ==
    /\ c.op = "Register" => c.args.entity \in Entities /\ c.args.key \in Keys
    /\ c.op = "AddXPub" =>
          c.args.id \in UserIds /\ c.args.xpub \in XPubs /\ c.args.signers \in Signers
    /\ c.op = "UpdateIdentity" => c.args.id \in UserIds /\ c.args.entity \in Entities
    /\ c.op \in Verifying => c.args.entity \in Claims \union {Contract}

\* A call that is not answered yet has its arguments and no result.
Underway(c) ==
    /\ c.at # "done" => ArgsFit(c) /\ c.status = 0 /\ ~c.signed
    /\ c.at \in {"approve", "write", "row", "sign"} => c.user \in UserIds

\* A registration holds an id that is not written yet.
Registering(c) == c.op = "Register" /\ c.at \in {"approve", "write"}

\* The other two are for a user that exists, and signed with its key.
Owned(c) ==
    c.op \in {"AddXPub", "UpdateIdentity"} /\ c.at \in {"approve", "write"} =>
        users[c.user] # None /\ c.args.signer = users[c.user].key

\* What is to be written, and what a claim is compared with, was accepted.
WasAccepted(c) ==
    /\ c.op \in {"Register", "UpdateIdentity"} /\ c.at = "write" =>
          c.args.entity \in accepted[c.user]
    /\ c.op \in Verifying /\ c.user # None => c.entity \in accepted[c.user]
    /\ c.op \in Verifying /\ c.signed /\ c.approved => c.user # None /\ IsSubset(c.claim, c.entity)

\* What was acknowledged is there.
IsStored(c) ==
    /\ c.op = "Register" /\ c.status = 200 => c.user # None /\ users[c.user] # None
    /\ c.op = "AddXPub" /\ c.status = 200 =>
          \E row \in xpubs : row.user = c.user /\ row.xpub = c.args.xpub

\* What makes an address is registered: the user's row of the xpub, and from the moment
\* it is found the number of signers.
Addressed(c) ==
    c.op \in {"AdminCertificate", "TransferSignature"} =>
        /\ c.user # None => \E own \in xpubs : own.user = c.user /\ own.xpub = c.args.xpub
        /\ c.at = "sign" \/ c.signed =>
              /\ c.user # None
              /\ \E row \in xpubs : row.xpub = c.args.xpub /\ row.signers = c.signers

CallOK(c) ==
    /\ c \in Call /\ Underway(c) /\ Owned(c) /\ WasAccepted(c) /\ IsStored(c) /\ Addressed(c)
    /\ Registering(c) => users[c.user] = None

\* The tables and the approver: every xpub has a user and one row with it, and what is
\* stored for a user was accepted for it.
TablesOK ==
    /\ users \in [UserIds -> UserRow \union {None}] /\ xpubs \subseteq XPubRow
    /\ accepted \in [UserIds -> SUBSET Entities]
    /\ identity \in [UserIds -> Entities \union {None}]
    /\ \A row \in xpubs : users[row.user] # None
    /\ \A row, row2 \in xpubs : row.user = row2.user /\ row.xpub = row2.xpub => row = row2
    /\ \A u \in UserIds : users[u] # None => users[u].entity \in accepted[u]

\* The id of a registration is in the locals of no other request.
IdsAreFresh ==
    \A r, q \in Requests : r # q /\ Registering(call[r]) => call[q].user # call[r].user

RInv ==
    /\ TablesOK /\ IdsAreFresh
    /\ call \in [Requests -> Call] /\ \A r \in Requests : CallOK(call[r])

\* What no step takes back.
Lasting ==
    /\ \A u \in UserIds : users[u] # None => users'[u] # None /\ users'[u].key = users[u].key
    /\ \A u \in UserIds : accepted[u] \subseteq accepted'[u]
    /\ xpubs \subseteq xpubs'

-----------------------------------------------------------------------------
\* What a request knows stays true, but for the id of a registration that is written.
LEMMA CallLasts ==
    ASSUME TablesOK, Lasting, NEW c, CallOK(c), Registering(c) => users'[c.user] = None
    PROVE  CallOK(c)'
<1>1. c \in Call /\ Underway(c) /\ Owned(c) /\ WasAccepted(c) /\ IsStored(c) /\ Addressed(c)
  BY DEF CallOK
<1>2. c.user \in UserIds \union {None}
  BY <1>1 DEF Call
<1>3. Owned(c)'
  BY <1>1 DEF Owned, Underway, Lasting
<1>4. WasAccepted(c)'
  BY <1>1, <1>2 DEF WasAccepted, Underway, Lasting
<1>5. IsStored(c)'
  BY <1>1, <1>2 DEF IsStored, Lasting
<1>6. Addressed(c)'
  BY <1>1 DEF Addressed, Lasting
<1>7. QED
  BY <1>1, <1>3, <1>4, <1>5, <1>6 DEF CallOK, Underway, Registering, ArgsFit

\* A step of request r that writes c to its locals.
LEMMA RequestStep ==
    ASSUME RInv, TablesOK', Lasting, NEW r \in Requests, NEW c,
           call' = [call EXCEPT ![r] = c], CallOK(c)',
           \A q \in Requests \ {r} :
              /\ Registering(call[q]) =>
                    users'[call[q].user] = None /\ c.user # call[q].user
              /\ Registering(c) => call[q].user # c.user
    PROVE  RInv'
<1>1. call \in [Requests -> Call] /\ c \in Call
  BY DEF RInv, CallOK
<1>2. call' \in [Requests -> Call] /\ call'[r] = c /\ \A q \in Requests \ {r} : call'[q] = call[q]
  BY <1>1
<1>3. ASSUME NEW q \in Requests PROVE CallOK(call[q])' /\ (q # r => CallOK(call[q]))
  <2>1. CASE q = r
    <3>1. CallOK(c)' /\ call'[q] = c
      BY <1>2, <2>1
    <3>2. QED
      BY <2>1, <3>1 DEF CallOK, Underway, Owned, WasAccepted, IsStored, Addressed,
         Registering, ArgsFit
  <2>2. CASE q # r
    <3>1. CallOK(call[q]) /\ (Registering(call[q]) => users'[call[q].user] = None)
      BY <2>2 DEF RInv
    <3>2. \A d : CallOK(d) /\ (Registering(d) => users'[d.user] = None) => CallOK(d)'
      BY CallLasts DEF RInv
    <3>3. PICK d : d = call[q]
      OBVIOUS
    <3>4. CallOK(d)' /\ call'[q] = d
      BY <1>2, <2>2, <3>1, <3>2, <3>3 DEF CallOK, Underway, Owned, WasAccepted,
         IsStored, Addressed, Registering, ArgsFit
    <3>5. QED
      BY <3>1, <3>4 DEF CallOK, Underway, Owned, WasAccepted, IsStored, Addressed,
         Registering, ArgsFit
  <2>3. QED
    BY <2>1, <2>2
<1>4. IdsAreFresh'
  BY <1>2 DEF RInv, IdsAreFresh, Registering
<1>5. QED
  BY <1>2, <1>3, <1>4 DEF RInv

\* A step that writes to no table: the request keeps its user, loses it, or has just
\* found one.
LEMMA LocalStep ==
    ASSUME RInv, UNCHANGED <<tables, approver>>, NEW r \in Requests, NEW c, CallOK(c),
           call' = [call EXCEPT ![r] = c],
           \/ c.user = None
           \/ c.user = call[r].user /\ (Registering(c) => Registering(call[r]))
           \/ c.user \in UserIds /\ users[c.user] # None /\ ~Registering(c)
    PROVE  RInv'
<1>1. UNCHANGED <<users, xpubs, accepted, identity>>
  BY DEF tables, approver
<1>2. TablesOK' /\ Lasting
  BY <1>1 DEF RInv, TablesOK, Lasting
<1>3. \A d : CallOK(d) => CallOK(d)'
  BY <1>1 DEF CallOK, Underway, Owned, WasAccepted, IsStored, Addressed, Registering, ArgsFit
<1>4. ASSUME NEW q \in Requests \ {r}
      PROVE  /\ Registering(call[q]) => users'[call[q].user] = None /\ c.user # call[q].user
             /\ Registering(c) => call[q].user # c.user
  <2>1. Registering(call[q]) => call[q].user \in UserIds /\ users[call[q].user] = None
    BY DEF RInv, CallOK, Underway, Registering
  <2>2. Registering(call[q]) => call[r].user # call[q].user
    BY DEF RInv, IdsAreFresh
  <2>3. Registering(call[r]) => call[q].user # call[r].user
    BY DEF RInv, IdsAreFresh
  <2>4. Registering(c) => c.user \in UserIds
    BY DEF CallOK, Underway, Registering
  <2>5. QED
    BY <1>1, <2>1, <2>2, <2>3, <2>4
<1>5. QED
  BY <1>2, <1>3, <1>4, RequestStep

\* Going on and answering change where the request is, and nothing it knows.
SameLocals(d, c) ==
    /\ d.op = c.op /\ d.args = c.args /\ d.user = c.user /\ d.entity = c.entity
    /\ d.signers = c.signers /\ d.claim = c.claim /\ d.approved = c.approved /\ d.signed = c.signed

GoesOn(d, c, label) == d \in Call /\ d.at = label /\ d.status = c.status /\ SameLocals(d, c)
Answers(d, c, status) == d \in Call /\ d.at = "done" /\ d.status = status /\ SameLocals(d, c)

LEMMA ContinueFields ==
    ASSUME NEW r \in Requests, NEW c \in Call, NEW label \in {"approve", "write", "row", "sign"},
           Continue(r, c, label)
    PROVE  \E d : call' = [call EXCEPT ![r] = d] /\ GoesOn(d, c, label)
<1>1. PICK d : d = [c EXCEPT !.at = label]
  OBVIOUS
<1>2. GoesOn(d, c, label)
  BY <1>1 DEF Call, SameLocals, GoesOn
<1>3. QED
  BY <1>1, <1>2 DEF Continue

LEMMA RespondFields ==
    ASSUME NEW r \in Requests, NEW c \in Call, NEW status \in {200, 401, 403, 404, 500},
           Respond(r, c, status)
    PROVE  \E d : call' = [call EXCEPT ![r] = d] /\ Answers(d, c, status)
<1>1. PICK e : e = [c EXCEPT !.at = "done"]
  OBVIOUS
<1>2. e \in Call /\ e.at = "done" /\ SameLocals(e, c)
  BY <1>1 DEF Call, SameLocals
<1>3. PICK d : d = [e EXCEPT !.status = status]
  OBVIOUS
<1>4. d \in Call /\ d.at = e.at /\ d.status = status /\ SameLocals(d, e)
  BY <1>2, <1>3 DEF Call, SameLocals
<1>5. d = [c EXCEPT !.at = "done", !.status = status]
  BY <1>1, <1>3
<1>6. Answers(d, c, status)
  BY <1>2, <1>4 DEF Answers, SameLocals
<1>7. QED
  BY <1>5, <1>6 DEF Respond

\* A refused request knows nothing.
LEMMA RefuseStep ==
    ASSUME RInv, UNCHANGED <<tables, approver>>, NEW r \in Requests,
           NEW status \in {401, 403, 404, 500}, Refuse(r, status)
    PROVE  RInv'
<1>1. PICK n : n = NewCall(call[r].op, NoArgs)
  OBVIOUS
<1>2. n \in Call /\ n.user = None /\ n.signed = FALSE
  <2>1. call[r].op \in Handlers \union {"none"}
    BY DEF RInv, Call
  <2>2. NoArgs \in ArgRecord
    BY DEF NoArgs, Args, ArgRecord
  <2>3. QED
    BY <1>1, <2>1, <2>2 DEF NewCall, Call
<1>3. PICK d : call' = [call EXCEPT ![r] = d] /\ Answers(d, n, status)
  BY <1>1, <1>2, RespondFields DEF Refuse
<1>4. CallOK(d) /\ d.user = None
  BY <1>2, <1>3 DEF CallOK, Underway, Owned, WasAccepted, IsStored, Addressed, Registering,
     Answers, SameLocals
<1>5. QED
  BY <1>3, <1>4, LocalStep

\* Every handler is called with arguments of its kind.
LEMMA ArgsOfFit ==
    ASSUME NEW op \in Ops, NEW args \in ArgsOf(op)
    PROVE  op \in Handlers /\ args \in ArgRecord /\ ArgsFit(NewCall(op, args))
<1>1. op \in Handlers
  BY OpsAssumption DEF Handlers
<1>2. NewCall(op, args).op = op /\ NewCall(op, args).args = args
  BY DEF NewCall
<1>3. CASE op = "Register"
  BY <1>2, <1>3 DEF ArgsOf, Args, ArgRecord, ArgsFit, Verifying, Handlers
<1>4. CASE op = "AddXPub"
  BY <1>2, <1>4 DEF ArgsOf, Args, ArgRecord, ArgsFit, Verifying, Handlers
<1>5. CASE op = "UpdateIdentity"
  BY <1>2, <1>5 DEF ArgsOf, Args, ArgRecord, ArgsFit, Verifying, Handlers
<1>6. CASE op \in {"PubKeySignature", "XPubSignature"}
  BY <1>2, <1>6 DEF ArgsOf, Args, ArgRecord, ArgsFit, Verifying, Handlers
<1>7. CASE op = "AdminCertificate"
  BY <1>2, <1>7 DEF ArgsOf, Args, ArgRecord, ArgsFit, Verifying, Handlers
<1>8. CASE op \in {"TransferSignature", "User"}
  BY <1>2, <1>8 DEF ArgsOf, Args, ArgRecord, ArgsFit, Verifying, Handlers
<1>9. QED
  BY <1>1, <1>3, <1>4, <1>5, <1>6, <1>7, <1>8 DEF Handlers

LEMMA BeginStep ==
    ASSUME RInv, NEW r \in Requests, NEW op \in Ops, NEW args \in ArgsOf(op), Begin(r, op, args)
    PROVE  RInv'
<1> DEFINE c == NewCall(op, args)
<1>1. call' = [call EXCEPT ![r] = c] /\ UNCHANGED <<tables, approver>>
  BY DEF Begin
<1>2. op \in Handlers /\ args \in ArgRecord /\ ArgsFit(c)
  BY ArgsOfFit
<1>3. c.at = "begin" /\ c.user = None /\ c.status = 0 /\ c.signed = FALSE /\ c \in Call
  BY <1>2 DEF NewCall, Call
<1> HIDE DEF c
<1>4. CallOK(c)
  BY <1>2, <1>3 DEF CallOK, Underway, Owned, WasAccepted, IsStored, Addressed, Registering
<1>5. QED
  BY <1>1, <1>3, <1>4, LocalStep

LEMMA ReadFailsStep ==
    ASSUME RInv, UNCHANGED <<tables, approver>>, NEW r \in Requests, ReadFails(r) PROVE RInv'
BY RefuseStep DEF ReadFails

LEMMA WriteFailsStep ==
    ASSUME RInv, UNCHANGED approver, NEW r \in Requests, WriteFails(r) PROVE RInv'
BY RefuseStep DEF WriteFails

\* Everything the proof of a step uses of the request it belongs to.
LEMMA RequestFacts ==
    ASSUME RInv, NEW r \in Requests
    PROVE  /\ call[r] \in Call /\ CallOK(call[r])
           /\ Underway(call[r]) /\ Owned(call[r]) /\ WasAccepted(call[r])
           /\ call[r].at # "done" => ArgsFit(call[r]) /\ call[r].status = 0 /\ ~call[r].signed
BY DEF RInv, CallOK, Underway

-----------------------------------------------------------------------------
(* Register, AddXPub, UpdateIdentity.                                       *)

\* The id is taken before the approver is asked: no other request has it, and none can
\* find it in the tables.
LEMMA CheckRegistrationStep ==
    ASSUME RInv, NEW r \in Requests, call[r].op = "Register", CheckRegistration(r) PROVE RInv'
<1>1. UNCHANGED <<tables, approver>>
  BY DEF CheckRegistration
<1>2. CASE Refuse(r, 401)
  BY <1>1, <1>2, RefuseStep
<1>3. ASSUME NEW u \in UserIds, At(r, "begin"), users[u] = None,
             \A q \in Requests : call[q].user # u,
             Continue(r, [call[r] EXCEPT !.user = u], "approve")
      PROVE  RInv'
  <2>1. PICK e : e = [call[r] EXCEPT !.user = u]
    OBVIOUS
  <2>2. /\ e \in Call /\ e.op = "Register" /\ e.args = call[r].args /\ e.user = u
        /\ e.status = 0 /\ ~e.signed /\ ArgsFit(call[r])
    BY <1>3, <2>1, RequestFacts DEF Call, At
  <2>3. PICK d : call' = [call EXCEPT ![r] = d] /\ GoesOn(d, e, "approve")
    BY <1>3, <2>1, <2>2, ContinueFields
  <2>4. CallOK(d)
    BY <1>3, <2>2, <2>3 DEF CallOK, Underway, Owned, WasAccepted, IsStored, Addressed,
       Registering, GoesOn, SameLocals, ArgsFit, Verifying
  <2>5. UNCHANGED <<users, xpubs, accepted, identity>>
    BY <1>1 DEF tables, approver
  <2>6. TablesOK' /\ Lasting
    BY <2>5 DEF RInv, TablesOK, Lasting
  <2>7. CallOK(d)'
    BY <2>4, <2>5 DEF CallOK, Underway, Owned, WasAccepted, IsStored, Addressed,
       Registering, ArgsFit
  <2>8. \A q \in Requests \ {r} :
          /\ Registering(call[q]) => users'[call[q].user] = None /\ d.user # call[q].user
          /\ Registering(d) => call[q].user # d.user
    BY <1>3, <2>2, <2>3, <2>5 DEF RInv, CallOK, GoesOn, SameLocals
  <2>9. QED
    BY <2>3, <2>6, <2>7, <2>8, RequestStep
<1>4. QED
  BY <1>2, <1>3 DEF CheckRegistration

\* What is found of a user is what the tables have now.
LEMMA FoundFields ==
    ASSUME NEW c \in Call, NEW u \in UserIds, NEW entity \in Entities
    PROVE  \E f \in Call :
              /\ f = [c EXCEPT !.user = u, !.entity = entity]
              /\ f.op = c.op /\ f.args = c.args /\ f.user = u /\ f.entity = entity
              /\ f.status = c.status /\ f.signed = c.signed
<1>1. PICK e : e = [c EXCEPT !.user = u]
  OBVIOUS
<1>2. /\ e \in Call /\ e.op = c.op /\ e.args = c.args /\ e.user = u
      /\ e.status = c.status /\ e.signed = c.signed
  BY <1>1 DEF Call
<1>3. PICK f : f = [e EXCEPT !.entity = entity]
  OBVIOUS
<1>4. /\ f \in Call /\ f.op = e.op /\ f.args = e.args /\ f.user = e.user /\ f.entity = entity
      /\ f.status = e.status /\ f.signed = e.signed
  BY <1>2, <1>3 DEF Call
<1>5. f = [c EXCEPT !.user = u, !.entity = entity]
  BY <1>1, <1>3
<1>6. QED
  BY <1>2, <1>4, <1>5

\* Each flag keeps its kind.
LEMMA FlagFields ==
    ASSUME NEW c \in Call, NEW x \in BOOLEAN
    PROVE  /\ [c EXCEPT !.failed = x] \in Call /\ [c EXCEPT !.signed = x] \in Call
           /\ [c EXCEPT !.approved = x] \in Call
BY DEF Call

\* A call that ends with an error of the approver.
LEMMA FailedFields ==
    ASSUME NEW c \in Call
    PROVE  \E f \in Call : f = [c EXCEPT !.failed = TRUE] /\ SameLocals(f, c)
<1>1. PICK f : f = [c EXCEPT !.failed = TRUE]
  OBVIOUS
<1>2. f \in Call
  BY <1>1, FlagFields
<1>3. SameLocals(f, c)
  BY <1>1 DEF Call, SameLocals
<1>4. QED
  BY <1>1, <1>2, <1>3

LEMMA FetchUserStep ==
    ASSUME RInv, NEW r \in Requests, call[r].op \in {"AddXPub", "UpdateIdentity"}, FetchUser(r)
    PROVE  RInv'
<1> DEFINE u == call[r].args.id
           label == IF call[r].op = "AddXPub" THEN "write" ELSE "approve"
<1>1. UNCHANGED <<tables, approver>> /\ call[r].at = "begin"
  BY DEF FetchUser, At
<1>2. CASE Refuse(r, 401) \/ Refuse(r, 404)
  BY <1>1, <1>2, RefuseStep
<1>3. CASE ReadFails(r)
  BY <1>1, <1>3, ReadFailsStep
<1>4. CASE /\ Live(u) /\ call[r].args.signer = users[u].key
           /\ Continue(r, [call[r] EXCEPT !.user = u, !.entity = users[u].entity], label)
  <2>1. /\ call[r] \in Call /\ ArgsFit(call[r]) /\ call[r].status = 0 /\ ~call[r].signed
        /\ u \in UserIds
    BY <1>1, RequestFacts DEF ArgsFit
  <2>2. users[u] # None /\ users[u] \in UserRow /\ users[u].entity \in Entities
    BY <1>4, <2>1 DEF Live, RInv, TablesOK, UserRow
  <2>3. PICK f \in Call :
          /\ f = [call[r] EXCEPT !.user = u, !.entity = users[u].entity]
          /\ f.op = call[r].op /\ f.args = call[r].args /\ f.user = u
          /\ f.status = 0 /\ ~f.signed
    <3>1. PICK c \in Call, v \in UserIds, x \in Entities :
            c = call[r] /\ v = u /\ x = users[u].entity
      BY <2>1, <2>2
    <3>2. PICK f \in Call :
            /\ f = [c EXCEPT !.user = v, !.entity = x]
            /\ f.op = c.op /\ f.args = c.args /\ f.user = v /\ f.entity = x
            /\ f.status = c.status /\ f.signed = c.signed
      BY FoundFields
    <3>3. f = [call[r] EXCEPT !.user = u, !.entity = users[u].entity]
      BY <3>1, <3>2
    <3>4. QED
      BY <2>1, <3>1, <3>2, <3>3
  <2>4. PICK d : call' = [call EXCEPT ![r] = d] /\ GoesOn(d, f, label)
    BY <1>4, <2>3, ContinueFields
  <2>5. /\ d \in Call /\ d.op = call[r].op /\ d.args = call[r].args /\ d.user = u
        /\ d.at = label /\ d.status = 0 /\ ~d.signed
    BY <2>3, <2>4 DEF GoesOn, SameLocals
  <2>6. ~Registering(d)
    BY <2>5 DEF Registering
  <2>7. CallOK(d)
    BY <1>4, <2>1, <2>2, <2>5, <2>6
       DEF CallOK, Underway, Owned, WasAccepted, IsStored, Addressed, ArgsFit, Verifying
  <2>8. QED
    BY <1>1, <2>1, <2>2, <2>4, <2>5, <2>6, <2>7, LocalStep
<1>5. QED
  BY <1>2, <1>3, <1>4 DEF FetchUser

\* The approver's answer is what makes an entity an accepted one.
LEMMA ApproveChangeStep ==
    ASSUME RInv, NEW r \in Requests, call[r].op \in {"Register", "UpdateIdentity"},
           ApproveChange(r)
    PROVE  RInv'
<1> DEFINE u == call[r].user
           e == call[r].args.entity
<1>1. /\ UNCHANGED tables /\ call[r].at = "approve" /\ call[r] \in Call /\ CallOK(call[r])
      /\ ArgsFit(call[r]) /\ call[r].status = 0 /\ ~call[r].signed
      /\ u \in UserIds /\ e \in Entities
  BY RequestFacts DEF ApproveChange, At, Underway, ArgsFit
<1>2. CASE Refuse(r, 403) /\ UNCHANGED approver
  BY <1>1, <1>2, RefuseStep
<1>3. CASE UNCHANGED approver /\ Respond(r, [call[r] EXCEPT !.failed = TRUE], 500)
  <2>1. PICK f \in Call : f = [call[r] EXCEPT !.failed = TRUE] /\ SameLocals(f, call[r])
    BY <1>1, FailedFields
  <2>2. f.op = call[r].op /\ f.user = u
    BY <2>1 DEF SameLocals
  <2>3. PICK d : call' = [call EXCEPT ![r] = d] /\ Answers(d, f, 500)
    BY <1>3, <2>1, <2>2, RespondFields
  <2>4. CallOK(d) /\ d.user = u /\ ~Registering(d)
    BY <2>2, <2>3 DEF CallOK, Underway, Owned, WasAccepted, IsStored, Addressed,
       Registering, Answers, SameLocals, Verifying
  <2>5. QED
    BY <1>1, <1>3, <2>3, <2>4, LocalStep
<1>4. CASE /\ accepted' = [accepted EXCEPT ![u] = @ \union {e}]
           /\ identity' = [identity EXCEPT ![u] = e]
           /\ Continue(r, call[r], "write")
  <2>1. PICK d : call' = [call EXCEPT ![r] = d] /\ GoesOn(d, call[r], "write")
    BY <1>1, <1>4, ContinueFields
  <2>2. UNCHANGED <<users, xpubs>>
    BY <1>1 DEF tables
  <2>3. /\ accepted' \in [UserIds -> SUBSET Entities] /\ e \in accepted'[u]
        /\ identity' \in [UserIds -> Entities \union {None}]
        /\ \A v \in UserIds : accepted[v] \subseteq accepted'[v]
    BY <1>1, <1>4 DEF RInv, TablesOK
  <2>4. TablesOK' /\ Lasting
    BY <2>2, <2>3 DEF RInv, TablesOK, Lasting
  <2>5. /\ d \in Call /\ d.op = call[r].op /\ d.args = call[r].args /\ d.user = u
        /\ d.at = "write" /\ d.status = 0 /\ ~d.signed
    BY <1>1, <2>1 DEF GoesOn, SameLocals
  <2>6. CallOK(d)'
    <3>1. Underway(d)
      BY <1>1, <2>5 DEF Underway, ArgsFit
    <3>2. Owned(d)' /\ (Registering(d) => users'[d.user] = None)
      BY <1>1, <2>2, <2>5 DEF CallOK, Owned, Registering
    <3>3. WasAccepted(d)' /\ IsStored(d)' /\ Addressed(d)'
      BY <1>1, <2>3, <2>5 DEF WasAccepted, IsStored, Addressed, Verifying
    <3>4. QED
      BY <2>5, <3>1, <3>2, <3>3 DEF CallOK, Underway, ArgsFit, Registering
  <2>7. ASSUME NEW q \in Requests \ {r}
        PROVE  /\ Registering(call[q]) => users'[call[q].user] = None /\ d.user # call[q].user
               /\ Registering(d) => call[q].user # d.user
    <3>1. Registering(call[q]) => users[call[q].user] = None /\ u # call[q].user
      BY DEF RInv, CallOK, IdsAreFresh
    <3>2. Registering(d) => Registering(call[r])
      BY <1>1, <2>5 DEF Registering
    <3>3. Registering(call[r]) => call[q].user # u
      BY DEF RInv, IdsAreFresh
    <3>4. QED
      BY <2>2, <2>5, <3>1, <3>2, <3>3
  <2>8. QED
    BY <2>1, <2>4, <2>6, <2>7, RequestStep
<1>5. QED
  BY <1>2, <1>3, <1>4 DEF ApproveChange

\* The row of a new user is written where there was none.
LEMMA CreateUserStep ==
    ASSUME RInv, NEW r \in Requests, call[r].op = "Register", CreateUser(r) PROVE RInv'
<1> DEFINE u == call[r].user
           row == [entity |-> call[r].args.entity, key |-> call[r].args.key, deleted |-> FALSE]
<1>1. /\ UNCHANGED <<xpubs, approver>> /\ call[r].at = "write" /\ call[r] \in Call
      /\ ArgsFit(call[r]) /\ call[r].status = 0 /\ ~call[r].signed
      /\ u \in UserIds /\ users[u] = None /\ call[r].args.entity \in accepted[u]
  BY RequestFacts DEF CreateUser, At, Underway, CallOK, Registering, WasAccepted
<1>2. CASE WriteFails(r)
  BY <1>1, <1>2, WriteFailsStep
<1>3. CASE users' = [users EXCEPT ![u] = row] /\ Respond(r, call[r], 200)
  <2>1. row \in UserRow /\ row.entity \in accepted[u] /\ row # None
    <3>1. call[r].args.entity \in Entities /\ call[r].args.key \in Keys
      BY <1>1 DEF ArgsFit
    <3>2. row \in UserRow /\ row.entity = call[r].args.entity
      BY <3>1 DEF UserRow
    <3> HIDE DEF row
    <3>3. QED
      BY <1>1, <3>2
  <2>2. PICK d : call' = [call EXCEPT ![r] = d] /\ Answers(d, call[r], 200)
    BY <1>1, <1>3, RespondFields
  <2>3. /\ users' \in [UserIds -> UserRow \union {None}] /\ users'[u] = row
        /\ \A v \in UserIds \ {u} : users'[v] = users[v]
        /\ UNCHANGED <<accepted, identity>>
    BY <1>1, <1>3, <2>1 DEF RInv, TablesOK, approver
  <2> HIDE DEF row
  <2>4. Lasting
    BY <1>1, <2>3 DEF Lasting
  <2>5. TablesOK'
    <3>1. \A w \in xpubs' : users'[w.user] # None
      BY <1>1, <2>4 DEF RInv, TablesOK, Lasting, XPubRow
    <3>2. \A v \in UserIds : users'[v] # None => users'[v].entity \in accepted'[v]
      BY <2>1, <2>3 DEF RInv, TablesOK
    <3>3. QED
      BY <1>1, <2>3, <3>1, <3>2 DEF RInv, TablesOK
  <2>6. /\ d \in Call /\ d.op = "Register" /\ d.user = u /\ d.at = "done" /\ d.status = 200
        /\ ~Registering(d)
    BY <2>2 DEF Answers, SameLocals, Registering
  <2>7. CallOK(d)'
    BY <1>1, <2>1, <2>3, <2>6 DEF CallOK, Underway, Owned, WasAccepted, IsStored,
       Addressed, Registering, Verifying
  <2>8. \A q \in Requests \ {r} :
          Registering(call[q]) => users'[call[q].user] = None /\ d.user # call[q].user
    <3> SUFFICES ASSUME NEW q \in Requests \ {r}, Registering(call[q])
                 PROVE  users'[call[q].user] = None /\ d.user # call[q].user
      OBVIOUS
    <3>1. /\ call[q].user \in UserIds /\ users[call[q].user] = None
          /\ u # call[q].user
      BY DEF RInv, CallOK, Underway, Registering, IdsAreFresh
    <3>2. QED
      BY <2>3, <2>6, <3>1
  <2>9. \A q \in Requests \ {r} :
          /\ Registering(call[q]) => users'[call[q].user] = None /\ d.user # call[q].user
          /\ Registering(d) => call[q].user # d.user
    BY <2>6, <2>8
  <2>10. QED
    BY <2>2, <2>4, <2>5, <2>7, <2>9, RequestStep
<1>4. QED
  BY <1>2, <1>3 DEF CreateUser

\* A row of xpubs is put beside those there are, unless the user has that xpub.
LEMMA CreateXPubStep ==
    ASSUME RInv, NEW r \in Requests, call[r].op = "AddXPub", CreateXPub(r) PROVE RInv'
<1> DEFINE u == call[r].user
           row == [user |-> u, xpub |-> call[r].args.xpub, signers |-> call[r].args.signers]
<1>1. /\ UNCHANGED <<users, approver>> /\ call[r].at = "write" /\ call[r] \in Call
      /\ ArgsFit(call[r]) /\ call[r].status = 0 /\ ~call[r].signed
      /\ u \in UserIds /\ users[u] # None
  BY RequestFacts DEF CreateXPub, At, Underway, Owned
<1>2. CASE WriteFails(r)
  BY <1>1, <1>2, WriteFailsStep
<1>3. CASE /\ xpubs' = IF \E q \in xpubs : q.user = row.user /\ q.xpub = row.xpub
                       THEN xpubs ELSE xpubs \union {row}
           /\ Respond(r, call[r], 200)
  <2>1. row \in XPubRow /\ row.user = u /\ row.xpub = call[r].args.xpub
    BY <1>1 DEF XPubRow, ArgsFit
  <2>2. PICK d : call' = [call EXCEPT ![r] = d] /\ Answers(d, call[r], 200)
    BY <1>1, <1>3, RespondFields
  <2>3. UNCHANGED <<users, accepted, identity>>
    BY <1>1 DEF approver
  <2> HIDE DEF row
  <2>4. /\ xpubs' \subseteq XPubRow
        /\ \A w \in xpubs' : users'[w.user] # None
        /\ \A w, w2 \in xpubs' : w.user = w2.user /\ w.xpub = w2.xpub => w = w2
        /\ \E w \in xpubs' : w.user = u /\ w.xpub = call[r].args.xpub
    BY <1>1, <1>3, <2>1, <2>3 DEF RInv, TablesOK
  <2>5. TablesOK'
    BY <2>3, <2>4 DEF RInv, TablesOK
  <2>6. /\ d \in Call /\ d.op = "AddXPub" /\ d.user = u /\ d.at = "done" /\ d.status = 200
        /\ d.args = call[r].args /\ ~Registering(d)
    BY <2>2 DEF Answers, SameLocals, Registering
  <2>7. CallOK(d)'
    BY <2>4, <2>6 DEF CallOK, Underway, Owned, WasAccepted, IsStored, Addressed,
       Registering, Verifying
  <2>8. \A q \in Requests \ {r} :
          /\ Registering(call[q]) => users'[call[q].user] = None /\ d.user # call[q].user
          /\ Registering(d) => call[q].user # d.user
    BY <1>1, <2>3, <2>6 DEF RInv, CallOK
  <2>9. Lasting
    BY <1>3, <2>3 DEF Lasting
  <2>10. QED
    BY <2>2, <2>5, <2>7, <2>8, <2>9, RequestStep
<1>4. QED
  BY <1>2, <1>3 DEF CreateXPub

\* A step that changes the row of one user, and neither its key nor the others.
LEMMA UserRowStep ==
    ASSUME RInv, NEW u \in UserIds, users[u] # None, NEW row \in UserRow,
           users' = [users EXCEPT ![u] = row], row.key = users[u].key, row.entity \in accepted[u],
           UNCHANGED <<xpubs, accepted, identity>>
    PROVE  /\ TablesOK' /\ Lasting
           /\ \A q \in Requests : Registering(call[q]) => users'[call[q].user] = None
<1>1. /\ users' \in [UserIds -> UserRow \union {None}] /\ users'[u] = row
      /\ \A v \in UserIds \ {u} : users'[v] = users[v]
  BY DEF RInv, TablesOK
<1>2. Lasting
  BY <1>1 DEF Lasting
<1>3. TablesOK'
  <2>1. \A w \in xpubs' : users'[w.user] # None
    BY <1>1, <1>2 DEF RInv, TablesOK, Lasting, XPubRow
  <2>2. \A v \in UserIds : users'[v] # None => users'[v].entity \in accepted'[v]
    BY <1>1 DEF RInv, TablesOK
  <2>3. QED
    BY <1>1, <2>1, <2>2 DEF RInv, TablesOK
<1>4. ASSUME NEW q \in Requests, Registering(call[q]) PROVE users'[call[q].user] = None
  <2>1. call[q].user \in UserIds /\ users[call[q].user] = None
    BY <1>4 DEF RInv, CallOK, Underway, Registering
  <2>2. QED
    BY <1>1, <2>1
<1>5. QED
  BY <1>2, <1>3, <1>4

LEMMA UpdateUserStep ==
    ASSUME RInv, NEW r \in Requests, call[r].op = "UpdateIdentity", UpdateUser(r) PROVE RInv'
<1> DEFINE u == call[r].user
<1>1. /\ UNCHANGED <<xpubs, approver>> /\ call[r].at = "write" /\ call[r] \in Call
      /\ ArgsFit(call[r]) /\ u \in UserIds /\ users[u] # None
      /\ call[r].args.entity \in accepted[u]
  BY RequestFacts DEF UpdateUser, At, Underway, Owned, WasAccepted
<1>2. CASE WriteFails(r)
  BY <1>1, <1>2, WriteFailsStep
<1>3. CASE /\ users' = [users EXCEPT ![u].entity = call[r].args.entity]
           /\ Respond(r, call[r], 200)
  <2>1. users[u] \in UserRow /\ call[r].args.entity \in Entities
    BY <1>1 DEF RInv, TablesOK, ArgsFit
  <2>2. PICK row : row = [users[u] EXCEPT !.entity = call[r].args.entity]
    OBVIOUS
  <2>3. /\ row \in UserRow /\ row.key = users[u].key /\ row.entity \in accepted[u]
        /\ users' = [users EXCEPT ![u] = row]
    BY <1>1, <1>3, <2>1, <2>2 DEF UserRow, RInv, TablesOK
  <2>4. PICK d : call' = [call EXCEPT ![r] = d] /\ Answers(d, call[r], 200)
    BY <1>1, <1>3, RespondFields
  <2>5. d \in Call /\ d.op = "UpdateIdentity" /\ d.user = u /\ d.at = "done" /\ d.status = 200
    BY <2>4 DEF Answers, SameLocals
  <2>6. CallOK(d)' /\ ~Registering(d)
    BY <2>5 DEF CallOK, Underway, Owned, WasAccepted, IsStored, Addressed, Registering,
       Verifying
  <2>7. /\ TablesOK' /\ Lasting
        /\ \A q \in Requests : Registering(call[q]) => users'[call[q].user] = None
    BY <1>1, <2>3, UserRowStep DEF approver
  <2>8. \A q \in Requests \ {r} :
          /\ Registering(call[q]) => users'[call[q].user] = None /\ d.user # call[q].user
          /\ Registering(d) => call[q].user # d.user
    BY <1>1, <2>5, <2>6, <2>7 DEF RInv, CallOK
  <2>9. QED
    BY <2>4, <2>6, <2>7, <2>8, RequestStep
<1>4. QED
  BY <1>2, <1>3 DEF UpdateUser

LEMMA DeleteUserStep ==
    ASSUME RInv, NEW u \in UserIds, DeleteUser(u) PROVE RInv'
<1>1. /\ users[u] # None /\ users' = [users EXCEPT ![u].deleted = TRUE]
      /\ UNCHANGED <<xpubs, accepted, identity, call>>
  BY DEF DeleteUser, approver
<1>2. users[u] \in UserRow /\ users[u].entity \in accepted[u]
  BY <1>1 DEF RInv, TablesOK
<1>3. PICK row : row = [users[u] EXCEPT !.deleted = TRUE]
  OBVIOUS
<1>4. /\ row \in UserRow /\ row.key = users[u].key /\ row.entity \in accepted[u]
      /\ users' = [users EXCEPT ![u] = row]
  BY <1>1, <1>2, <1>3 DEF UserRow, RInv, TablesOK
<1>5. /\ TablesOK' /\ Lasting
      /\ \A q \in Requests : Registering(call[q]) => users'[call[q].user] = None
  BY <1>1, <1>4, UserRowStep
<1>6. \A d : CallOK(d) /\ (Registering(d) => users'[d.user] = None) => CallOK(d)'
  BY <1>5, CallLasts DEF RInv
<1>7. ASSUME NEW q \in Requests PROVE CallOK(call[q])'
  <2>1. PICK d : d = call[q]
    OBVIOUS
  <2>2. CallOK(d)' /\ call'[q] = d
    BY <1>1, <1>5, <1>6, <2>1 DEF RInv, CallOK, Underway, Owned, WasAccepted, IsStored,
       Addressed, Registering, ArgsFit
  <2>3. QED
    BY <2>2 DEF CallOK, Underway, Owned, WasAccepted, IsStored, Addressed, Registering, ArgsFit
<1>8. IdsAreFresh' /\ call' \in [Requests -> Call]
  BY <1>1 DEF RInv, IdsAreFresh, Registering
<1>9. QED
  BY <1>5, <1>7, <1>8 DEF RInv

-----------------------------------------------------------------------------
(* PubKeySignature, XPubSignature, AdminCertificate, TransferSignature, User. *)

\* A row of xpubs leads to a user that exists, with an entity accepted for it.
LEMMA RowsHaveUsers ==
    ASSUME RInv, NEW r \in Requests, NEW row \in RowsOf(r)
    PROVE  /\ row \in XPubRow /\ row.user \in UserIds /\ users[row.user] # None
           /\ users[row.user].entity \in Entities
           /\ users[row.user].entity \in accepted[row.user]
<1>1. row \in XPubRow /\ row.user \in UserIds /\ users[row.user] # None
  BY DEF RowsOf, RInv, TablesOK, XPubRow
<1>2. users[row.user] \in UserRow
  BY <1>1 DEF RInv, TablesOK
<1>3. QED
  BY <1>1, <1>2 DEF RInv, TablesOK, UserRow

LEMMA FetchUserByXPubStep ==
    ASSUME RInv, NEW r \in Requests, call[r].op \in Verifying \union {"TransferSignature"},
           FetchUserByXPub(r)
    PROVE  RInv'
<1>1. UNCHANGED <<tables, approver>> /\ call[r].at = "begin"
  BY DEF FetchUserByXPub, At
<1>2. CASE Refuse(r, 404)
  BY <1>1, <1>2, RefuseStep
<1>3. CASE ReadFails(r)
  BY <1>1, <1>3, ReadFailsStep
<1>4. ASSUME NEW row \in LiveRowsOf(r),
             Continue(r, [call[r] EXCEPT !.user = row.user, !.entity = users[row.user].entity],
                      "approve")
      PROVE  RInv'
  <2>1. call[r] \in Call /\ ArgsFit(call[r]) /\ call[r].status = 0 /\ ~call[r].signed
    BY <1>1, RequestFacts
  <2>2. /\ row.user \in UserIds /\ users[row.user] # None /\ users[row.user].entity \in Entities
        /\ users[row.user].entity \in accepted[row.user]
        /\ row \in xpubs /\ row.xpub = call[r].args.xpub
    BY RowsHaveUsers DEF LiveRowsOf, RowsOf
  <2>3. PICK f \in Call :
          /\ f = [call[r] EXCEPT !.user = row.user, !.entity = users[row.user].entity]
          /\ f.op = call[r].op /\ f.args = call[r].args /\ f.user = row.user
          /\ f.entity = users[row.user].entity /\ f.status = 0 /\ ~f.signed
    <3>1. PICK c \in Call, v \in UserIds, x \in Entities :
            c = call[r] /\ v = row.user /\ x = users[row.user].entity
      BY <2>1, <2>2
    <3>2. PICK f \in Call :
            /\ f = [c EXCEPT !.user = v, !.entity = x]
            /\ f.op = c.op /\ f.args = c.args /\ f.user = v /\ f.entity = x
            /\ f.status = c.status /\ f.signed = c.signed
      BY FoundFields
    <3>3. f = [call[r] EXCEPT !.user = row.user, !.entity = users[row.user].entity]
      BY <3>1, <3>2
    <3>4. QED
      BY <2>1, <3>1, <3>2, <3>3
  <2>4. PICK d : call' = [call EXCEPT ![r] = d] /\ GoesOn(d, f, "approve")
    BY <1>4, <2>3, ContinueFields
  <2>5. /\ d \in Call /\ d.op = call[r].op /\ d.args = call[r].args /\ d.user = row.user
        /\ d.entity = users[row.user].entity /\ d.at = "approve" /\ d.status = 0 /\ ~d.signed
    BY <2>3, <2>4 DEF GoesOn, SameLocals
  <2>6. CallOK(d) /\ ~Registering(d)
    BY <2>1, <2>2, <2>5 DEF CallOK, Underway, Owned, WasAccepted, IsStored, Addressed,
       Registering, ArgsFit, Verifying
  <2>7. QED
    BY <1>1, <2>2, <2>4, <2>5, <2>6, LocalStep
<1>5. QED
  BY <1>2, <1>3, <1>4 DEF FetchUserByXPub

LEMMA FetchUserIDByXPubStep ==
    ASSUME RInv, NEW r \in Requests, call[r].op = "User", FetchUserIDByXPub(r) PROVE RInv'
<1>1. UNCHANGED <<tables, approver>> /\ call[r] \in Call
  BY RequestFacts DEF FetchUserIDByXPub
<1>2. CASE Refuse(r, 404)
  BY <1>1, <1>2, RefuseStep
<1>3. CASE ReadFails(r)
  BY <1>1, <1>3, ReadFailsStep
<1>4. ASSUME NEW row \in RowsOf(r), Respond(r, [call[r] EXCEPT !.user = row.user], 200)
      PROVE  RInv'
  <2>1. row.user \in UserIds /\ users[row.user] # None
    BY RowsHaveUsers
  <2>2. PICK f : f = [call[r] EXCEPT !.user = row.user]
    OBVIOUS
  <2>3. f \in Call /\ f.op = "User" /\ f.user = row.user
    BY <1>1, <2>1, <2>2 DEF Call
  <2>4. PICK d : call' = [call EXCEPT ![r] = d] /\ Answers(d, f, 200)
    BY <1>4, <2>2, <2>3, RespondFields
  <2>5. CallOK(d) /\ ~Registering(d) /\ d.user = row.user
    BY <2>3, <2>4 DEF CallOK, Underway, Owned, WasAccepted, IsStored, Addressed,
       Registering, Verifying, Answers, SameLocals
  <2>6. QED
    BY <1>1, <2>1, <2>4, <2>5, LocalStep
<1>5. QED
  BY <1>2, <1>3, <1>4 DEF FetchUserIDByXPub

\* A call goes on with what it has found out, and keeps its user.
LEMMA SigningGoesOn ==
    ASSUME RInv, UNCHANGED <<tables, approver>>, NEW r \in Requests,
           call[r].op \in Verifying \union {"TransferSignature"},
           call[r].at \in {"approve", "row", "sign"},
           NEW f \in Call, f.op = call[r].op, f.args = call[r].args, f.user = call[r].user,
           f.entity = call[r].entity, f.signed = call[r].signed, f.status = call[r].status,
           NEW label \in {"row", "sign"}, Continue(r, f, label),
           label = "sign" /\ f.op \in {"AdminCertificate", "TransferSignature"} =>
              \E row \in xpubs : row.xpub = f.args.xpub /\ row.signers = f.signers
    PROVE  RInv'
<1>1. /\ CallOK(call[r]) /\ ArgsFit(call[r]) /\ call[r].status = 0 /\ ~call[r].signed
      /\ call[r].user \in UserIds
  BY RequestFacts DEF Underway
<1>2. PICK d : call' = [call EXCEPT ![r] = d] /\ GoesOn(d, f, label)
  BY ContinueFields
<1>3. /\ d \in Call /\ d.op = call[r].op /\ d.args = call[r].args /\ d.user = call[r].user
      /\ d.entity = call[r].entity /\ d.at = label /\ d.status = 0 /\ ~d.signed
      /\ d.signers = f.signers
  BY <1>1, <1>2 DEF GoesOn, SameLocals
<1>4. Addressed(d)
  BY <1>1, <1>3 DEF CallOK, Addressed
<1>5. CallOK(d) /\ ~Registering(d)
  BY <1>1, <1>3, <1>4 DEF CallOK, Underway, Owned, WasAccepted, IsStored, Registering, ArgsFit,
     Verifying
<1>6. QED
  BY <1>2, <1>3, <1>5, LocalStep

\* A call ends; what it has signed, if it approves, is a part of its user's entity.
LEMMA SigningEnds ==
    ASSUME RInv, UNCHANGED <<tables, approver>>, NEW r \in Requests,
           call[r].op \in Verifying \union {"TransferSignature"},
           call[r].at \in {"approve", "sign"},
           NEW f \in Call, f.op = call[r].op, f.args = call[r].args, f.user = call[r].user,
           f.entity = call[r].entity, f.signers = call[r].signers,
           f.signed => call[r].at = "sign",
           f.op \in Verifying /\ f.signed /\ f.approved => IsSubset(f.claim, f.entity),
           NEW status \in {200, 500}, Respond(r, f, status)
    PROVE  RInv'
<1>1. CallOK(call[r]) /\ call[r].user \in UserIds
  BY RequestFacts DEF Underway
<1>2. PICK d : call' = [call EXCEPT ![r] = d] /\ Answers(d, f, status)
  BY RespondFields
<1>3. /\ d \in Call /\ d.op = f.op /\ d.user = call[r].user /\ d.entity = call[r].entity
      /\ d.args = call[r].args /\ d.signers = call[r].signers /\ d.at = "done"
      /\ d.claim = f.claim /\ d.approved = f.approved /\ d.signed = f.signed
  BY <1>2 DEF Answers, SameLocals
<1>4. WasAccepted(d)
  <2>1. d.op \in Verifying => d.entity \in accepted[d.user]
    BY <1>1, <1>3 DEF CallOK, WasAccepted
  <2>2. d.op \in Verifying /\ d.signed /\ d.approved => IsSubset(d.claim, d.entity)
    BY <1>3
  <2>3. QED
    BY <1>1, <1>3, <2>1, <2>2 DEF WasAccepted
<1>5. Addressed(d)
  BY <1>1, <1>3 DEF CallOK, Addressed
<1>6. CallOK(d) /\ ~Registering(d)
  BY <1>3, <1>4, <1>5 DEF CallOK, Underway, Owned, IsStored, Registering, Verifying
<1>7. QED
  BY <1>2, <1>3, <1>6, LocalStep

\* The approver fails: the call ends without a signature, whatever its status.
LEMMA ApproverFails ==
    ASSUME RInv, UNCHANGED <<tables, approver>>, NEW r \in Requests,
           call[r].op \in Verifying \union {"TransferSignature"}, call[r].at = "approve",
           NEW status \in {200, 500}, Respond(r, [call[r] EXCEPT !.failed = TRUE], status)
    PROVE  RInv'
<1>1. PICK f \in Call : f = [call[r] EXCEPT !.failed = TRUE] /\ SameLocals(f, call[r])
  BY RequestFacts, FailedFields
<1>2. ~call[r].signed
  BY RequestFacts
<1>3. /\ ~f.signed /\ f.op = call[r].op /\ f.user = call[r].user /\ f.entity = call[r].entity
      /\ f.args = call[r].args /\ f.signers = call[r].signers
  BY <1>1, <1>2 DEF SameLocals
<1>4. Respond(r, f, status)
  BY <1>1
<1>5. QED
  BY <1>3, <1>4, SigningEnds

LEMMA ApproveIdentityStep ==
    ASSUME RInv, NEW r \in Requests, call[r].op \in Verifying, ApproveIdentity(r) PROVE RInv'
<1>1. /\ UNCHANGED <<tables, approver>> /\ call[r].at = "approve" /\ call[r] \in Call
      /\ call[r].user \in UserIds
  BY RequestFacts DEF ApproveIdentity, At, Underway
<1>2. CASE Refuse(r, 403)
  BY <1>1, <1>2, RefuseStep
<1>3. CASE Respond(r, [call[r] EXCEPT !.failed = TRUE], 500)
  BY <1>1, <1>3, ApproverFails
<1>4. ASSUME NEW next \in {"row", "sign"}, next = "sign" => call[r].op # "AdminCertificate",
             Continue(r, [call[r] EXCEPT !.vetted = identity[call[r].user]], next)
      PROVE  RInv'
  <2>1. PICK vetted \in Entities \union {None} : vetted = identity[call[r].user]
    BY <1>1 DEF RInv, TablesOK
  <2>2. PICK f : f = [call[r] EXCEPT !.vetted = vetted]
    OBVIOUS
  <2>3. /\ f \in Call /\ f.op = call[r].op /\ f.args = call[r].args /\ f.user = call[r].user
        /\ f.entity = call[r].entity /\ f.signed = call[r].signed /\ f.status = call[r].status
    BY <1>1, <2>2 DEF Call
  <2>4. QED
    BY <1>1, <1>4, <2>1, <2>2, <2>3, SigningGoesOn DEF Verifying
<1>5. QED
  BY <1>2, <1>3, <1>4 DEF ApproveIdentity

LEMMA ApproveTransferStep ==
    ASSUME RInv, NEW r \in Requests, call[r].op = "TransferSignature", ApproveTransfer(r)
    PROVE  RInv'
<1>1. UNCHANGED <<tables, approver>> /\ call[r].at = "approve" /\ call[r] \in Call
  BY RequestFacts DEF ApproveTransfer, At
<1>2. CASE Respond(r, [call[r] EXCEPT !.failed = TRUE], 200)
  BY <1>1, <1>2, ApproverFails
<1>3. ASSUME NEW approved \in BOOLEAN,
             Continue(r, [call[r] EXCEPT !.approved = approved], "row")
      PROVE  RInv'
  <2>1. PICK f : f = [call[r] EXCEPT !.approved = approved]
    OBVIOUS
  <2>2. /\ f \in Call /\ f.op = call[r].op /\ f.args = call[r].args /\ f.user = call[r].user
        /\ f.entity = call[r].entity /\ f.signed = call[r].signed /\ f.status = call[r].status
    BY <1>1, <2>1 DEF Call
  <2>3. QED
    BY <1>1, <1>3, <2>1, <2>2, SigningGoesOn
<1>4. QED
  BY <1>2, <1>3 DEF ApproveTransfer

LEMMA FetchXPubByXPubStep ==
    ASSUME RInv, NEW r \in Requests, call[r].op \in {"AdminCertificate", "TransferSignature"},
           FetchXPubByXPub(r)
    PROVE  RInv'
<1>1. UNCHANGED <<tables, approver>> /\ call[r].at = "row" /\ call[r] \in Call
  BY RequestFacts DEF FetchXPubByXPub, At
<1>2. CASE ReadFails(r)
  BY <1>1, <1>2, ReadFailsStep
<1>3. ASSUME NEW row \in RowsOf(r),
             Continue(r, [call[r] EXCEPT !.signers = row.signers], "sign")
      PROVE  RInv'
  <2>1. row.signers \in Signers /\ row \in xpubs /\ row.xpub = call[r].args.xpub
    BY RowsHaveUsers DEF XPubRow, RowsOf
  <2>2. PICK f : f = [call[r] EXCEPT !.signers = row.signers]
    OBVIOUS
  <2>3. /\ f \in Call /\ f.op = call[r].op /\ f.args = call[r].args /\ f.user = call[r].user
        /\ f.entity = call[r].entity /\ f.signed = call[r].signed /\ f.status = call[r].status
        /\ f.signers = row.signers
    BY <1>1, <2>1, <2>2 DEF Call
  <2>4. QED
    BY <1>1, <1>3, <2>1, <2>2, <2>3, SigningGoesOn DEF Verifying
<1>4. QED
  BY <1>2, <1>3 DEF FetchXPubByXPub

\* What is signed: the claim, and whether it is a part of the entity that was fetched.
LEMMA AttestStep ==
    ASSUME RInv, NEW r \in Requests, call[r].op \in Verifying, Attest(r) PROVE RInv'
<1>1. /\ UNCHANGED <<tables, approver>> /\ call[r].at = "sign" /\ call[r] \in Call
      /\ call[r].args.entity \in Claims \union {Contract}
  BY RequestFacts DEF Attest, At, ArgsFit
<1>2. CASE Refuse(r, 500)
  BY <1>1, <1>2, RefuseStep
<1>3. ASSUME NEW claim \in Checked(r),
             Respond(r, [call[r] EXCEPT !.signed = TRUE, !.claim = claim,
                         !.approved = IsSubset(claim, call[r].entity)], 200)
      PROVE  RInv'
  <2>1. claim \in Claims
    BY <1>1 DEF Checked
  <2>2. PICK e : e = [call[r] EXCEPT !.signed = TRUE]
    OBVIOUS
  <2>3. e \in Call
    BY <1>1, <2>2, FlagFields
  <2>4. /\ e.op = call[r].op /\ e.user = call[r].user /\ e.entity = call[r].entity
        /\ e.args = call[r].args /\ e.signers = call[r].signers
    BY <1>1, <2>2 DEF Call
  <2>5. PICK g : g = [e EXCEPT !.claim = claim]
    OBVIOUS
  <2>6. /\ g \in Call /\ g.op = e.op /\ g.user = e.user /\ g.entity = e.entity /\ g.claim = claim
        /\ g.args = e.args /\ g.signers = e.signers
    BY <2>1, <2>3, <2>5 DEF Call
  <2>7. PICK f \in Call :
          /\ f = [g EXCEPT !.approved = IsSubset(claim, call[r].entity)]
          /\ f.op = g.op /\ f.user = g.user /\ f.entity = g.entity /\ f.claim = claim
          /\ f.args = g.args /\ f.signers = g.signers
          /\ ~IsSubset(claim, call[r].entity) => ~f.approved
    <3>1. CASE IsSubset(claim, call[r].entity)
      <4>1. PICK f : f = [g EXCEPT !.approved = TRUE]
        OBVIOUS
      <4>2. f \in Call
        BY <2>6, <4>1, FlagFields
      <4>3. /\ f.op = g.op /\ f.user = g.user /\ f.entity = g.entity /\ f.claim = claim
            /\ f.args = g.args /\ f.signers = g.signers
        BY <2>6, <4>1 DEF Call
      <4>4. IsSubset(claim, call[r].entity) = TRUE
        BY <3>1 DEF IsSubset
      <4>5. QED
        BY <3>1, <4>1, <4>2, <4>3, <4>4
    <3>2. CASE ~IsSubset(claim, call[r].entity)
      <4>1. PICK f : f = [g EXCEPT !.approved = FALSE]
        OBVIOUS
      <4>2. f \in Call
        BY <2>6, <4>1, FlagFields
      <4>3. /\ f.op = g.op /\ f.user = g.user /\ f.entity = g.entity /\ f.claim = claim
            /\ f.args = g.args /\ f.signers = g.signers
        BY <2>6, <4>1 DEF Call
      <4>4. ~f.approved
        BY <2>6, <4>1 DEF Call
      <4>5. IsSubset(claim, call[r].entity) = FALSE
        BY <3>2 DEF IsSubset
      <4>6. QED
        BY <4>1, <4>2, <4>3, <4>4, <4>5
    <3>3. QED
      BY <3>1, <3>2
  <2>8. Respond(r, f, 200)
    BY <1>3, <2>2, <2>5, <2>7
  <2>9. /\ f.op = call[r].op /\ f.user = call[r].user /\ f.entity = call[r].entity
        /\ f.args = call[r].args /\ f.signers = call[r].signers
        /\ f.op \in Verifying /\ f.signed /\ f.approved => IsSubset(f.claim, f.entity)
    BY <2>4, <2>6, <2>7
  <2>10. QED
    BY <1>1, <2>8, <2>9, SigningEnds
<1>4. QED
  BY <1>2, <1>3 DEF Attest

LEMMA CreateReceiveSignatureStep ==
    ASSUME RInv, NEW r \in Requests, call[r].op = "TransferSignature", CreateReceiveSignature(r)
    PROVE  RInv'
<1>1. UNCHANGED <<tables, approver>> /\ call[r].at = "sign" /\ call[r] \in Call
  BY RequestFacts DEF CreateReceiveSignature, At
<1>2. CASE Refuse(r, 500)
  BY <1>1, <1>2, RefuseStep
<1>3. CASE Respond(r, [call[r] EXCEPT !.signed = TRUE], 200)
  <2>1. PICK f : f = [call[r] EXCEPT !.signed = TRUE]
    OBVIOUS
  <2>2. f \in Call
    BY <1>1, <2>1, FlagFields
  <2>3. /\ f.op = call[r].op /\ f.user = call[r].user /\ f.entity = call[r].entity
        /\ f.args = call[r].args /\ f.signers = call[r].signers /\ f.op \notin Verifying
    BY <1>1, <2>1 DEF Call, Verifying
  <2>4. QED
    BY <1>1, <1>3, <2>1, <2>2, <2>3, SigningEnds
<1>4. QED
  BY <1>2, <1>3 DEF CreateReceiveSignature

-----------------------------------------------------------------------------
(* Every step keeps the invariant, and the theorems follow from it.         *)

LEMMA HandleStep == ASSUME RInv, NEW r \in Requests, Handle(r) PROVE RInv'
<1>1. CASE Register(r)
  BY <1>1, CheckRegistrationStep, ApproveChangeStep, CreateUserStep DEF Register
<1>2. CASE AddXPub(r)
  BY <1>2, FetchUserStep, CreateXPubStep DEF AddXPub
<1>3. CASE UpdateIdentity(r)
  BY <1>3, FetchUserStep, ApproveChangeStep, UpdateUserStep DEF UpdateIdentity
<1>4. CASE User(r)
  BY <1>4, FetchUserIDByXPubStep DEF User
<1>5. CASE PubKeySignature(r) \/ XPubSignature(r)
  BY <1>5, FetchUserByXPubStep, ApproveIdentityStep, AttestStep
     DEF PubKeySignature, XPubSignature, Verifying
<1>6. CASE AdminCertificate(r)
  BY <1>6, FetchUserByXPubStep, ApproveIdentityStep, FetchXPubByXPubStep, AttestStep
     DEF AdminCertificate, Verifying
<1>7. CASE TransferSignature(r)
  BY <1>7, FetchUserByXPubStep, ApproveTransferStep, FetchXPubByXPubStep,
     CreateReceiveSignatureStep DEF TransferSignature
<1>8. QED
  BY <1>1, <1>2, <1>3, <1>4, <1>5, <1>6, <1>7 DEF Handle

LEMMA InitRInv == Init => RInv
<1> SUFFICES ASSUME Init PROVE RInv
  OBVIOUS
<1>1. NoArgs \in ArgRecord
  BY DEF NoArgs, Args, ArgRecord
<1>2. PICK n : n = NewCall("none", NoArgs)
  OBVIOUS
<1>3. n \in Call /\ n.op = "none" /\ n.user = None /\ ~n.signed /\ n.status = 0
  BY <1>1, <1>2 DEF NewCall, Call
<1>4. PICK d : d = [n EXCEPT !.at = "done"]
  OBVIOUS
<1>5. d \in Call /\ d.op = "none" /\ d.at = "done"
  BY <1>3, <1>4 DEF Call
<1>6. \A r \in Requests : call[r] = d
  BY <1>2, <1>4 DEF Init, Idle
<1>7. call \in [Requests -> Call]
  BY <1>2, <1>4, <1>5 DEF Init, Idle
<1>8. TablesOK
  BY DEF Init, TablesOK
<1>9. CallOK(d) /\ ~Registering(d)
  BY <1>5 DEF CallOK, Underway, Owned, WasAccepted, IsStored, Addressed, Registering, Verifying
<1>10. QED
  BY <1>6, <1>7, <1>8, <1>9 DEF RInv, IdsAreFresh

LEMMA NextRInv == RInv /\ [Next]_vars => RInv'
<1> SUFFICES ASSUME RInv, [Next]_vars PROVE RInv'
  OBVIOUS
<1>1. ASSUME NEW r \in Requests, Handle(r) PROVE RInv'
  BY <1>1, HandleStep
<1>2. ASSUME NEW r \in Requests, NEW op \in Ops, NEW args \in ArgsOf(op), Begin(r, op, args)
      PROVE  RInv'
  BY <1>2, BeginStep
<1>3. CASE \E u \in UserIds : DeleteUser(u)
  BY <1>3, DeleteUserStep
<1>4. CASE UNCHANGED vars
  BY <1>4 DEF vars, tables, approver, RInv, TablesOK, IdsAreFresh, CallOK, Underway, Owned,
     WasAccepted, IsStored, Addressed, Registering, ArgsFit
<1>5. QED
  BY <1>1, <1>2, <1>3, <1>4 DEF Next

THEOREM Invariance == Spec => []RInv
BY InitRInv, NextRInv, PTL DEF Spec

\* The tables hold rows, and the locals of every request values of their kind.
THEOREM TypeCorrect == Spec => []TypeOK
<1>1. RInv => TypeOK
  BY DEF RInv, TablesOK, Call, TypeOK
<1>2. QED
  BY <1>1, Invariance, PTL

\* However registrations, updates and verifications of a user interleave, an approving
\* signature is of a claim that an entity accepted for that user says in full
\* (handlers/identity.go:60-87, oracle.go:307-331).
THEOREM ApprovalsAreBacked == Spec => []ApprovedClaimsWereAccepted
<1>1. RInv => ApprovedClaimsWereAccepted
  BY DEF RInv, CallOK, WasAccepted, ApprovedClaimsWereAccepted
<1>2. QED
  BY <1>1, Invariance, PTL

\* A 200 of Register or AddXPub stays true of the tables (oracle.go:120-132, 200-207).
THEOREM AcknowledgementsHold == Spec => []AcknowledgedIsStored
<1>1. RInv => AcknowledgedIsStored
  BY DEF RInv, CallOK, IsStored, AcknowledgedIsStored
<1>2. QED
  BY <1>1, Invariance, PTL

\* The number of signers of a certificate or a transfer signature is of the user's own row
\* of the xpub, or of another user's, and that row never changes again, whoever adds the
\* xpub before, between and after (identity.go:114-124, transfer.go:31-66, xpub.go:34, 57).
THEOREM SignedAddressesStay == Spec => []AddressesStayRegistered
<1>1. RInv => AddressesStayRegistered
  <2> SUFFICES ASSUME RInv, NEW r \in Requests, call[r].signed,
                      call[r].op \in {"AdminCertificate", "TransferSignature"}
               PROVE  \E own \in RowsOf(r) :
                        /\ own.user = call[r].user
                        /\ \/ own.signers = call[r].signers
                           \/ \E other \in RowsOf(r) :
                                other.user # own.user /\ other.signers = call[r].signers
    BY DEF AddressesStayRegistered
  <2>1. Addressed(call[r])
    BY DEF RInv, CallOK
  <2>2. PICK own \in xpubs : own.user = call[r].user /\ own.xpub = call[r].args.xpub
    BY <2>1 DEF Addressed
  <2>3. PICK row \in xpubs : row.xpub = call[r].args.xpub /\ row.signers = call[r].signers
    BY <2>1 DEF Addressed
  <2>4. row.user = own.user => row = own
    BY <2>2, <2>3 DEF RInv, TablesOK
  <2>5. QED
    BY <2>2, <2>3, <2>4 DEF RowsOf
<1>2. QED
  BY <1>1, Invariance, PTL

-----------------------------------------------------------------------------
(* What a step may never do: the statements that write, and for whom.       *)

\* Three statements of the handlers write to the tables, and an operator does.
LEMMA Writers ==
    ASSUME [Next]_vars
    PROVE  \/ UNCHANGED tables
           \/ \E r \in Requests :
                \/ call[r].op = "Register" /\ CreateUser(r)
                \/ call[r].op = "AddXPub" /\ CreateXPub(r)
                \/ call[r].op = "UpdateIdentity" /\ UpdateUser(r)
           \/ \E u \in UserIds : DeleteUser(u)
<1>1. ASSUME NEW r \in Requests, Handle(r)
      PROVE  \/ UNCHANGED tables
             \/ call[r].op = "Register" /\ CreateUser(r)
             \/ call[r].op = "AddXPub" /\ CreateXPub(r)
             \/ call[r].op = "UpdateIdentity" /\ UpdateUser(r)
  <2>1. CASE Register(r) \/ AddXPub(r) \/ UpdateIdentity(r)
    BY <2>1 DEF Register, AddXPub, UpdateIdentity, CheckRegistration, FetchUser, ApproveChange
  <2>2. CASE User(r)
    BY <2>2 DEF User, FetchUserIDByXPub
  <2>3. CASE PubKeySignature(r) \/ XPubSignature(r) \/ AdminCertificate(r)
    BY <2>3 DEF PubKeySignature, XPubSignature, AdminCertificate, FetchUserByXPub,
       ApproveIdentity, FetchXPubByXPub, Attest
  <2>4. CASE TransferSignature(r)
    BY <2>4 DEF TransferSignature, FetchUserByXPub, ApproveTransfer, FetchXPubByXPub,
       CreateReceiveSignature
  <2>5. QED
    BY <1>1, <2>1, <2>2, <2>3, <2>4 DEF Handle
<1>2. ASSUME NEW r \in Requests, NEW op, NEW args, Begin(r, op, args) PROVE UNCHANGED tables
  BY <1>2 DEF Begin
<1>3. CASE UNCHANGED vars
  BY <1>3 DEF vars
<1>4. QED
  BY <1>1, <1>2, <1>3 DEF Next

\* Nothing deletes or changes a row of xpubs.
LEMMA XPubRowsLast == ASSUME [Next]_vars PROVE xpubs \subseteq xpubs'
<1>1. CASE UNCHANGED tables
  BY <1>1 DEF tables
<1>2. ASSUME NEW r \in Requests, CreateUser(r) \/ UpdateUser(r) PROVE xpubs \subseteq xpubs'
  BY <1>2 DEF CreateUser, UpdateUser
<1>3. ASSUME NEW r \in Requests, CreateXPub(r) PROVE xpubs \subseteq xpubs'
  BY <1>3 DEF CreateXPub, WriteFails, tables
<1>4. ASSUME NEW u \in UserIds, DeleteUser(u) PROVE xpubs \subseteq xpubs'
  BY <1>4 DEF DeleteUser
<1>5. QED
  BY <1>1, <1>2, <1>3, <1>4, Writers

\* What is stored for u stays as it is.
Kept(u) ==
    /\ users'[u].entity = users[u].entity
    /\ {row \in xpubs' : row.user = u} = {row \in xpubs : row.user = u}

\* Request r is signed with the key of u, and about to write.
WritesAsOwner(r, u) ==
    call[r].at = "write" /\ call[r].user = u /\ call[r].args.signer = users[u].key

LEMMA WritesAreOwned ==
    ASSUME RInv, [Next]_vars, NEW u \in UserIds, users[u] # None
    PROVE  Kept(u) \/ \E r \in Requests : WritesAsOwner(r, u)
<1>1. CASE UNCHANGED tables
  BY <1>1 DEF tables, Kept
<1>2. ASSUME NEW r \in Requests, call[r].op = "Register", CreateUser(r) PROVE Kept(u)
  <2>1. call[r].user # u
    BY <1>2, RequestFacts DEF CreateUser, At, CallOK, Registering
  <2>2. CASE WriteFails(r)
    BY <2>2 DEF WriteFails, tables, Kept
  <2>3. users'[u] = users[u] \/ WriteFails(r)
    BY <1>2, <2>1 DEF CreateUser, RInv, TablesOK
  <2>4. QED
    BY <1>2, <2>2, <2>3 DEF CreateUser, Kept
<1>3. ASSUME NEW r \in Requests, call[r].op = "AddXPub", CreateXPub(r)
      PROVE  Kept(u) \/ WritesAsOwner(r, u)
  <2>1. CASE call[r].user = u
    BY <1>3, <2>1, RequestFacts DEF CreateXPub, At, Owned, WritesAsOwner
  <2>2. CASE call[r].user # u
    <3>1. users' = users
      BY <1>3 DEF CreateXPub
    <3>2. \A row : row \in xpubs' /\ row.user = u => row \in xpubs
      BY <1>3, <2>2 DEF CreateXPub, WriteFails, tables
    <3>3. QED
      BY <3>1, <3>2, XPubRowsLast DEF Kept
  <2>3. QED
    BY <2>1, <2>2
<1>4. ASSUME NEW r \in Requests, call[r].op = "UpdateIdentity", UpdateUser(r)
      PROVE  Kept(u) \/ WritesAsOwner(r, u)
  <2>1. CASE call[r].user = u
    BY <1>4, <2>1, RequestFacts DEF UpdateUser, At, Owned, WritesAsOwner
  <2>2. CASE call[r].user # u
    BY <1>4, <2>2 DEF UpdateUser, WriteFails, tables, Kept, RInv, TablesOK
  <2>3. QED
    BY <2>1, <2>2
<1>5. ASSUME NEW v \in UserIds, DeleteUser(v) PROVE Kept(u)
  <2>1. users' = [users EXCEPT ![v].deleted = TRUE] /\ xpubs' = xpubs
    BY <1>5 DEF DeleteUser
  <2>2. users'[u].entity = users[u].entity
    <3>1. PICK row \in UserRow : row = users[u]
      BY DEF RInv, TablesOK
    <3>2. [row EXCEPT !.deleted = TRUE].entity = row.entity
      BY DEF UserRow
    <3>3. users'[u] = IF u = v THEN [users[u] EXCEPT !.deleted = TRUE] ELSE users[u]
      BY <2>1 DEF RInv, TablesOK
    <3>4. QED
      BY <3>1, <3>2, <3>3
  <2>3. QED
    BY <2>1, <2>2 DEF Kept
<1>6. QED
  BY <1>1, <1>2, <1>3, <1>4, <1>5, Writers

\* No interleaving of requests, and no failing statement, changes what is stored for a
\* user but a request signed with that user's key (oracle.go:189-203, 303-331).
THEOREM OwnersWriteAlone == Spec => OnlyTheOwnerWrites
<1> DEFINE A == \A u \in UserIds : users[u] # None =>
        \/ /\ users'[u].entity = users[u].entity
           /\ {row \in xpubs' : row.user = u} = {row \in xpubs : row.user = u}
        \/ \E r \in Requests : /\ call[r].at = "write" /\ call[r].user = u
                               /\ call[r].args.signer = users[u].key
<1>1. RInv /\ [Next]_vars => [A]_vars
  BY WritesAreOwned DEF Kept, WritesAsOwner
<1>2. QED
  BY <1>1, Invariance, PTL DEF Spec, OnlyTheOwnerWrites
=============================================================================
