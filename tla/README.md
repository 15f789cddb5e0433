# Identity oracle: TLA+ models and proofs

The identity oracle is a web service that registers users with the entities and extended public
keys (xpubs) that are theirs, and signs statements about them: that a key or an xpub belongs to an
entity, that an address may administer a contract, that a receiver may take a transfer. Every
signature commits to a recent block hash, which the service learns from a Bitcoin node (the
*spynode*). The models here are translated from the Go source; paths below are relative to the
repository.

## 1. Inventory

| component | state | operations | modules |
|---|---|---|---|
| header window (`internal/oracle/listener.go`) | `hashes`, `height` under `hashesLock` | `HandleHeaders`, `cleanHashes`, `InitializeHeaders`, `RecentSigHash`, `HandleMessage` | `HeaderListener`, `SigHashPointer` |
| contract formations and message cursor (`listener.go`, `cmd/identityoracled/main.go`, `bootstrap.go`) | one stored formation per contract, one stored message id | `HandleTx`, `SaveContractFormation`, `GetContractFormation`, `GetNextMessageID`, `SaveNextMessageID`, the shutdown of `main` | `FormationListener`, `LatestFormation` |
| entity subset check (`internal/oracle/entity.go`) | none | `VerifyEntityIsSubset` and the two list searches | `EntityField`, `EntityScan` |
| registry and handlers (`cmd/identityoracled/handlers`, `internal/oracle/{user,xpub,identity,transfer}.go`) | tables `users`, `xpubs`; the approver's view of each user; the locals of each request | `Register`, `AddXPub`, `User`, `UpdateIdentity`, `PubKeySignature`, `XPubSignature`, `AdminCertificate`, `TransferSignature` | `Registry` |
| process lifecycle (`main.go`, `bootstrap.go`) | goroutines, channels, wait groups, the HTTP server | start, interrupt, failure of the spynode or the server, shutdown, restart | `Lifecycle` on top of `FormationListener` |
| database sessions (`internal/platform/db`) | master and copied handles | `Copy`, `Close`, `StatusCheck`, statements, storage | `Copy` and `Close` in `Lifecycle`, `StatusCheck` in `Reply`, statements in `Registry`, storage in `FormationListener` |
| web framework, middleware (`internal/platform/web`, `internal/mid`) | the reply of a request, the status its log entry has | request logging, routes, `App.Handle`, `ErrorHandler`, `CORS`, `Error`, `Respond` | `Reply`; what leads to an error, `Registry` |
| health check (`handlers/health.go`) | none of its own | `Health` | `Reply` |
| configuration, API description, migrations, `conf/` | none | | not modelled |

How they interact:

* The spynode client calls the listener back (`HandleMessage`, `HandleHeaders`, `HandleTx`); the
  listener calls the client (`SubscribeHeaders`, `Ready`, `GetHeaders`).
* Each HTTP request runs on a goroutine of its own. It reads and writes the tables one statement at
  a time, without transactions, calls the approver in between, and asks the listener for the block
  hash (`Headers`) and the formation of a contract (`Contracts`).
* `main` starts the server and the client. `Run` waits in a select for the client, the server or a
  signal, shuts the server down and closes the database; then `main` stops the client, saves the
  message id and waits for the client's goroutine.
* Each request copies the database handle; the copies share one database with the master handle,
  which `Run` closes.

What is hard about it, and what should be true in spite of it:

* *Reorganisations and interleaved callbacks.* The window is fetched without the lock and installed
  later; header messages repeat, skip or replace headers. A signature must commit to a block that
  is buried in one branch, at the height that is returned with it, and the window should get back to
  the tip of the node: with one goroutine it does, with two it may have to wait for the next block
  (section 5).
* *Crashes and redelivery.* The cursor is saved only at shutdown. No formation may be skipped, none
  may be replaced by an older one.
* *Check, then act, across two authorities.* The approver and the database each have an idea of who
  a user is, and a request asks them at different moments. An approving signature must rest on an
  entity that was approved, the entity that is signed should be the one that was judged, only the
  owner of a key may change what is stored for it, an acknowledged request must be stored, and what
  an address was certified with must stay registered.
* *Shared memory.* `RecentSigHash` returns a pointer into the window's array and unlocks. What a
  request signs and what it returns are read from there later, while callbacks write.
* *Shutdown.* Three goroutines may end the process at once, requests may hang, and one deadline is
  missing. The process should end, close nothing under a request it waited for, and save a cursor
  that skips nothing.
* *Error paths.* Many errors are logged and otherwise ignored; what a run shows after each of them
  is part of what follows.

The full list of hazards, each at its line and with the properties that would catch it, is
`hazards` in `PROJECT.json`.

## 2. Modules

### HeaderListener

A block is a height and the branch it was mined on; its parent follows from them (`PrevBlock`), so
a hash is the block itself. The node (`tip`, `session`, `feed`) is external: its chain grows, or
moves to a higher branch, and a subscribed client is sent the headers above the last shared block.
A message may be delivered in parts, and it may overlap with what `GetHeaders` already returned.

| code | model |
|---|---|
| `Listener.hashes`, `height` | `hashes`, `height` |
| `hashesLock` | `HashesLocked`: some thread is in `"loop"`; the other critical sections are single steps that wait for it |
| a goroutine in `HandleHeaders` | `pc[t]`: `"recv"` (before the lock), `"loop"` (over the headers), `"clean"`, `"fetch"`, `"install"`; its locals are `batch`, `latest`, `linked` (`appendedCount # 0`) |
| the body of the loop | `AppendHeader`, `ReorgHeader`, `SkipHeader` |
| `cleanHashes` | `TrimHashes`, `KeepHashes` |
| `InitializeHeaders` | `GetHeaders` / `GetNoHeaders`, then `InstallHeaders` |
| `HandleMessage(AcceptRegister)` | `AcceptRegister`, with the errors it logs as faults: `"subscribe"`, `"ready"`, and `"register"` when both calls fail and no window is fetched |
| `RecentSigHash` | `SigHashReady`: the lock is free and the window has exactly `Offset` hashes |
| a panic in a callback | `Panic`: the process ends, as nothing in the client's goroutine recovers it |

`ReorgHeader` keeps `hashes[1 .. i-1]` because the code keeps `l.hashes[:i]` for a 0-based `i`: the
block the branches share is dropped, too (see section 5). `HandleInSync` only logs.

### SigHashPointer

`HeaderListener` has the window as a sequence. `SigHashPointer` extends it with the memory below: the
`array` of the slice and the cell the window starts at (`first`). Each step that changes the window is
joined with what the code does to the array: `AppendTo` is Go's `append`, in place while there is
capacity and to an array of twice the size when there is none; `TrimArray` only moves `first`;
`InstallArray` is the `make` of `InitializeHeaders`. `ReorgHeaderTo` is `append` on `l.hashes[:i]`: it
writes over the array in place.

`reader[r]` is a request of `CreateReceiveSignature` (`transfer.go`; `identity.go` does the same):
`RecentSigHash` takes the pointer, `Sign` and `Reply` read through it without the lock. The pointer is a
cell of the array, or, once the window has moved to another array, the hash it points to, which
nothing writes any more. A read while a reorganisation writes that cell may return `Torn`, the data
race's other outcome.

### FormationListener and LatestFormation

`LatestFormation` is the promise of the `Contracts` interface: for each contract the formation
returned moves only to published formations that are not older, and in the end is the newest one.
`FormationListener` is the code: `FetchFormation` and `PutFormation` are the two storage calls of
`SaveContractFormation`, a transaction's formations are saved one after the other (`work`), and a
message counts as received when its callback starts (`next`). `Stop`, `Save`, `Exit` are the end of
`main` as far as the listener sees it; `Crash` and `CrashInShutdown` end the process anywhere. Storage
survives, the rest does not. An error of `SubscribeContracts` is logged and registration goes on (fault
`"contracts"`): the session is silent, and no transaction comes until the next connection.
`OnlyAdvances` and `ReturnsMostRecent` state that it implements `Latest!Spec` and
`Latest!FairSpec` with `current` refined by what `GetContractFormation` would return.

Assumed of the client: messages are numbered from 1, a client that is `Ready(n)` gets the n-th on,
and its transaction callbacks run one at a time. `ResetNode` happens only when the listener has
stored all that was published, since a node that forgets a message nobody received loses it
whatever the listener does.

### Lifecycle

`Lifecycle` extends `FormationListener` with the rest of the process: the callbacks are the work of
the goroutine of the spynode, and `StopClient` and `Save` are steps of `main`.

| code | model |
|---|---|
| `osSignals`, `serverErrors`, `spyNodeErrors`, each with room for one | the number of values in each |
| where `Run` is | `run`: `"select"`; `"draining"` and `"drainingTimed"` (`server.Shutdown` without and with a deadline); `"drained"`, `"timedOut"`, `"abandoned"` (how it returned) |
| the three cases of the select | `ReceiveSpyNodeError`, `ReceiveServerError`, `ReceiveSignal` |
| `Shutdown` returning nil / at its deadline, then `server.Close` | `Drained` / `TimedOut` |
| the goroutine of `ListenAndServe` | `server`, `ServerReturns`: it sends one result when the server closes |
| the goroutine of `spyNode.Run` | `spyNode`: it returns by itself or after `Stop`, then sends its result |
| `oracleWait.Wait`, `Stop` / save the message id / `spynodeWait.Wait` | `StopSpyNode` / `SaveCursor` / `ExitMain` |
| `MasterDB.Copy`, the deferred `Close` of a request | `Copy`, `CloseCopy`: the session of a copy is forgotten, a handle without one closes the database |
| an error of `spyNode.Stop`, which is logged | `StopSpyNodeFails`: a client that was running stays so (`"unstopped"`), and `main` goes on to `SaveCursor` |
| a request that never returns | `Hang`: no statement and no call of the approver has a deadline |

`net/http` is external: `Shutdown` closes the listener at once and returns when no request is left, and
handlers run on after `Close`. A client that could not be stopped keeps the connection it has and
makes no new one. The HTTP server of a failed listener keeps the requests it had. A crash
of the process while it is already stopping is in `FormationListener`'s run `formations_faults` only.

### Reply

The way of a request through `RequestLoggingMiddleware`, the router, the wrapper of `App.Handle`,
`ErrorHandler` and `CORS`, down to a handler and back up. `reply` is what `Respond` writes to: `sent` is
the status the client gets (the first one written, or 200 if none was), `logged` the one of the logger's
writer (the last one written, 404 before). A handler is reduced to its outcome: a reply and nil, an
error of each kind `Error` knows, nil without a reply, or a panic. `Health` is whole, because it goes on
after it responded with an error; the database and the storage go down and come back (`Change`) between
its steps.

### EntityField and EntityScan

`IsSubset` says what "all of the data in sub is specified in full" means, on records and ranges of
lists. `EntityScan` is `VerifyEntityIsSubset` as it runs: text fields, administrators, managers, the
two last text fields, one comparison a step, returning at the first mismatch. `TextFields` are the
14 fields of the API's schema of an entity, `Leading` and `Trailing` those the code compares, in its
order; that they leave none out is checked and proved. `Entities`, the entities that are compared, is
the parameter.

### Registry

One step per SQL statement and per call of the approver, because nothing holds the database between
two of them. `call[r]` is the request on goroutine `r`: its arguments, what its handler has found so
far (`user`, `entity`, `signers`), and its reply. `vetted` is a history variable in it: the identity
the approver had when it judged the user. A handler is the disjunction of the steps it takes
(`Register`, `AddXPub`, ...), which are shared where the code shares a function.

* A signature over a request is the key that made it (`args.signer`); verifying compares it with
  the key of the row.
* `Claims` are the entities requests ask about; `Contract` stands for an entity contract, whose
  issuer is any of them, or missing (a panic that is answered with a 500). A subset check is `IsSubset`, one step: it reads only locals.
* Where several rows match a query without an order, any of them is returned.
* The approver is external and may answer anything; it keeps the last entity it approved for a user
  (`identity`) and all it ever did (`accepted`). Without an approver the handlers skip it, which is
  an approver that always approves.
* `DeleteUser` is external: no handler sets `is_deleted`, the queries respect it.

## 3. Runs

`CHECK_DEADLOCK FALSE` is in every configuration but that of `reply` because their instances may stop:
the chain reaches `MaxHeight`, no message or request is left to begin (`MaxMessages`, `MaxCalls`), the scan
has returned, or `Run` waits for requests that hang.

| run | module | checks | what it shows |
|---|---|---|---|
| `headers_reorg` | `MCHeaderListener` | `FollowsTip` | two goroutines, a fork, and one disconnection, crash or failed subscription: the window ends at the tip, with two exceptions (below) |
| `headers_threads` | `MCSigHashPointer` | `TypeOK`, `WindowIsAncestry`, `SigHashIsBuried`, `WindowStaysFilled`, `PointeeBuildsOnGiven`, `OnlyReorgOverwrites` | two goroutines, a fork, any one fault, and a request that signs meanwhile: window, array and pointer |
| `formations_restart` | `MCFormationListener` | `CursorSkipsNothing`, `ReturnsMostRecent` | crashes, clean shutdowns and disconnections |
| `formations_faults` | `MCFormationListener` | `TypeOK`, `OnlyAdvances` | three of all faults |
| `entity_scan` | `MCEntityScan` | `TypeOK`, `VerdictIsSubset` | all pairs of 106 entities: a full and an empty one with any one text field changed or left out, and with all pairs of five lists of roles |
| `registry` | `MCRegistry` | `TypeOK`, `ApprovedClaimsWereAccepted`, `AcknowledgedIsStored`, `AddressesStayRegistered`, `OnlyTheOwnerWrites` | all handlers, two requests at a time, five in all; one failing statement, approver or listener, or a deleted user |
| `lifecycle` | `MCLifecycle` | `LifecycleTypeOK`, `DatabaseOutlivesRequests`, `CursorSkipsNothing`, `EndsUnlessStuck`, `CollectsUnlessStuck` | four of: interrupt, failed spynode, failed stop, failed server, crash, disconnection, a request that hangs; in any order, with restarts |
| `reply` | `MCReply` | `TypeOK`, `FailuresAreReported`, `IllnessIsNoticed`, `LogTellsTheReply` | two requests of any kind, again and again, while the database and the storage go down and come back |

The other four runs end in a violation and are section 5.

`FollowsTip` has two exceptions, both real and both in section 5. A session may be silent for ever,
because `SubscribeHeaders` failed. And two goroutines may handle things out of order (`Overtaken`): one
holds an older answer or message while the other brings the window to the tip. TLC refutes the property
without either of them. With one goroutine there is nothing to overtake, and it holds without the
second.

Bounds. `Offset` is 3 instead of 5: windows that are empty, short, full, and longer by one or more
all occur, as do forks inside the window, at its oldest block, and below it. Chains of 4 blocks let a
full window be trimmed and be reorganised at its oldest block, which is where memory is written over,
or below all it has left; what two forks, more blocks or more goroutines would add to the consistency
of the window is proved (section 4). The branches part at height 1 in `headers_reorg`, so that a
reorganisation two blocks deep or more fits into the chain. Two goroutines suffice for a fetch and an
append, a fetch and a reorganisation, or two header messages, to interleave. For the formations, two
contracts, four formations (an older one, two with one timestamp, one of the other contract) and two
or three messages allow a redelivery out of order after every kind of restart. For the registry two
users, keys, entities, numbers of signers and one xpub are what a confusion of users needs; five
requests are two registrations, an xpub, an update and a signature. For the lifecycle two
requests are one that is left when another ends, and four faults are what ends the process, a
second reason at the same time, a hanging request, and one fault in the process started after it; one
contract with an old and a new formation suffices for the cursor, whose own runs have more. Four
changes of the database and the storage let each go down and come back during one `/health`. Symmetry is used only in runs
without liveness properties.

Fairness. `HeaderListener!Fairness` and `FormationListener!Fairness` ask that the client reconnects,
that goroutines which can go on do, and that a process that ended is started again; the number of
faults is bounded, so that in the end there are none. Nothing asks the chain to grow, a shutdown to
be requested, or a fault to happen. `Callback(t)` is one weakly fair action per goroutine because a
goroutine has one next step at a time; while it waits for the lock the holder goes on. `Lifecycle!LifecycleFairness` asks the same of the steps of `Run`, `main` and the
goroutine of the spynode (a `RunStep` that can be taken includes the passing of the deadline), that
requests end unless they are stuck, and that the process is started again. Nothing is asked of a
signal, a failure, or a request that hangs.

## 4. Proofs

| module | theorem | |
|---|---|---|
| `HeaderListener_proofs` | `TypeCorrect` | `Spec => []TypeOK` |
| | `WindowNeverMixesBranches` | `Spec => []WindowIsAncestry` |
| | `SigHashStaysBuried` | `Spec => []SigHashIsBuried` |
| | `WindowIsNeverEmptied` | `Spec => WindowStaysFilled` |
| `SigHashPointer_proofs` | `MemoryKeepsTheWindow` | `SigHashSpec => Spec`: the listener with its memory implements the listener |
| | `WindowIsSafeToPointInto` | the four properties above, of `SigHashSpec` |
| | `PointersStayOnTheirChain` | `SigHashSpec => []PointeeBuildsOnGiven` |
| | `PointeesChangeInReorgsOnly` | `SigHashSpec => OnlyReorgOverwrites` |
| `FormationListener_proofs` | `TypeCorrect` | `Spec => []TypeOK` |
| | `ListenerOnlyAdvances` | `Spec => OnlyAdvances`: the listener implements the safety of `LatestFormation` |
| | `NothingIsSkipped` | without `SkippingFaults`, `Spec => []CursorSkipsNothing` |
| `Lifecycle_proofs` | `LifecycleTypeCorrect` | `LifecycleSpec => []LifecycleTypeOK`, channels never overfull |
| | `DatabaseOutlives` | `LifecycleSpec => []DatabaseOutlivesRequests` |
| | `ListenerTypeCorrect` | `LifecycleSpec => []TypeOK` |
| | `LifecycleOnlyAdvances` | `LifecycleSpec => OnlyAdvances` |
| | `LifecycleSkipsNothing` | if storage does not fail, `LifecycleSpec => []CursorSkipsNothing` |
| `Registry_proofs` | `TypeCorrect` | `Spec => []TypeOK` |
| | `ApprovalsAreBacked` | `Spec => []ApprovedClaimsWereAccepted` |
| | `AcknowledgementsHold` | `Spec => []AcknowledgedIsStored` |
| | `SignedAddressesStay` | `Spec => []AddressesStayRegistered` |
| | `OwnersWriteAlone` | `Spec => OnlyTheOwnerWrites` |
| `Reply_proofs` | `TypeCorrect` | `Spec => []TypeOK` |
| | `FailuresReachTheClient` | `Spec => []FailuresAreReported` |
| | `IllnessReachesTheClient` | `Spec => []IllnessIsNoticed` |
| | `LogIsTrue` | `Spec => []LogTellsTheReply` |
| `EntityScan_proofs` | `TypeCorrect` | `Spec => []TypeOK` |
| | `ScanDecidesSubset` | `Spec => []VerdictIsSubset` |
| | `SubsetReflexive`, `SubsetTransitive` | what `IsSubset` is |

They hold for every value of the constants that satisfies the named assumptions: any number of
branches, threads, faults, any positive `Offset`, any texts and lists of roles, any requests, users,
keys and xpubs, any contracts, formations and messages. The assumptions say that a bound is a number
(`BoundAssumption`, `BoundsAssumption`, `ChangesAssumption`), that a marker such as `None`, `Invalid` or
`Torn` is not a value it stands beside (a null column, an error and a torn read are none), that `Ops`
are handlers of the service, that the fields of an entity are those of the API, and what data is: a formation has one contract and a timestamp, and those
of a transaction are of one contract. The two theorems about the cursor have a hypothesis on
`FaultKinds`, explained below; no other theorem excludes a fault.

*HeaderListener.* `WindowIsAncestry` is not inductive. A thread appends when its local `latest` is
the parent, so `latest` must be the newest of the window while the thread has the lock, and only one
thread may have it; and the batch that is installed later must be one branch already when it is
fetched. `IInv` adds these three. The argument about blocks is separate: `Buries` is transitive
(`BuriesTransitive`, the case that needs `ForkHeight`), a chain is an ancestry (`ChainIsAncestry`),
and appending to an ancestry, cutting one, and doing both at a reorganisation keep it one. Each
action then has a lemma. `SigHashIsBuried` is the instance of the ancestry at the two ends of a full
window.

`WindowStaysFilled` follows from `Offset` being positive and from a fetched batch never being empty.

*SigHashPointer.* Each step is a step of `HeaderListener` or leaves its variables alone
(`SigHashStep`), so its specification implies that of `HeaderListener` and its theorems carry over.
About the memory, `MInv` adds to what the runs check `IInv` of the listener, which says that
what is appended builds on the newest of the window, and `PointersFollow`, that a pointer into the array
is to the cell of the window's oldest hash or to one before it. That the array under the slice holds
the window (`WindowIsSlice`) is an invariant of how the model is built, not a property of the code; it is
part of `MInv` because the proofs need it. The window only moves on in its array, so
an append writes after all the cells that requests point to; only a reorganisation at the oldest block
writes into such a cell. The window is compared with the array cell by cell (`InCells`; `SliceIsCells`
says that this is the slice), and where a new array is allocated the pointers become copies
(`AllocateStep`).

*FormationListener.* That a put is never of an older formation depends on what was fetched before it:
`FoundIsLatest` says that between the two storage has nothing later, which holds because the callbacks
run one at a time, and `OnlyPublished` that storage, the callback and the log have nothing that was not
published. From these each step is a step of `LatestFormation` or a stutter (`LatestStep`), whatever
fails.

`CursorSkipsNothing` speaks of a process that is down, and `CInv` says what leads there: all messages
before `next` are in storage or in the callback at work (`NextIsHandled`), and a saved cursor is ahead of
storage by that callback alone, until `main` has waited for it (`CursorIsHandled`). Three faults break
this, and `NothingIsSkipped` excludes exactly these (`SkippingFaults`): an error of storage while a
formation is saved, which is logged and the formation dropped (`listener.go:119`), a node that numbers
its messages anew, and a crash between the save of the cursor and the end of the callback
(`main.go:124`). They are real and are described in section 5; crashes at any other time, shutdowns,
disconnections and clients that are never ready are all included.

*Lifecycle.* `DatabaseOutlivesRequests` is not inductive. That no request is left when `Run` returns
after a drained server says something about later states only because the server accepts none any
more (`DrainedStays`), and a request that ends leaves the database open only because its copy has a
session (`RequestsHoldCopies`). `LInv` adds these, that only the return of `Run` closes the database
(`RunClosesDatabase`), and that the server sends one result, after it closed (`ServerStopped`), which is
why its channel has room for it. Each action, or group of actions that disturb the same conjuncts, has
a lemma.

The theorems about the listener within the process reuse the lemmas of `FormationListener_proofs`,
which are stated for the parts of its actions that `Lifecycle` takes. For the cursor `SpyNodeIdle` is
added: a goroutine of the spynode that is past its callbacks has none at work, so the wait of `main`
does wait for them. A reset of the node and a crash in the middle of the shutdown are no steps of
`Lifecycle`; that storage does not fail is the hypothesis.

*Registry.* No transaction spans two statements of a handler, so what a request has in its locals was
true of the tables earlier, and each property is about what became of it. `Lasting` is what no step
takes back: a user keeps its key, a row of xpubs stays as it is, what was accepted stays accepted.
`RInv` then says of each request, by where it is, which of these facts it relies on: a request for a
user was signed with that user's key (`Owned`), what it will write and what it compares a claim with was
accepted (`WasAccepted`), what it acknowledged is stored (`IsStored`), the number of signers it found is
that of a row of the xpub, and its user has a row (`Addressed`); and of the tables, that a stored
entity was accepted for its user, and that the rows of xpubs obey their constraint. `CallLasts` shows
once for all handlers that another request's step keeps these. The one thing that does not last is that a
new user has no row: `IdsAreFresh` (a uuid is in one request only) is what keeps any other request from
writing it. `WritesAreOwned` then goes through the three statements that write.

*Reply.* The properties are about a request that has ended. `Progress` says for each place on its way
what was answered and logged until there: nothing before the handler returns its error, so that the
error's status is the first one written; and in `/health`, that the storage is asked only when the
database was not down all the time, so that a reply without a 500 has found both up.

*EntityScan.* The verdict says nothing while the scan runs; `Scanned` adds that all items before the
current one are in the other entity. A mismatch refutes the subset (`MismatchRefutes`), and a scan
that reaches the end has compared everything, because the two lists of the code name every text field
(`AllFieldsAreCompared`).

Every invariant and every action property of the passing runs is thus proved. Only model-checked is
liveness, which the prover does not reach: `FollowsTip`, `ReturnsMostRecent`, `EndsUnlessStuck` and
`CollectsUnlessStuck`.

## 5. Where code and words disagree

| run | what it shows |
|---|---|
| `headers_reorg_height` | `SigHashAtTipOffset`: after a reorganisation the window lacks the shared block while `height` counts it (`listener.go:158`); once the window is full again, hash and height are of different blocks. With two goroutines, or when `GetHeaders` fails, a header that was delivered twice has the same effect without any reorganisation. |
| `sighash_overwritten` | `ReturnedHashIsSigned`: a header that follows the oldest block of a full window takes the cell a request points to between its two reads (`listener.go:70`, `transfer.go:74`, `83`); the reply names another block than the one that was signed. |
| `registry_identity_race` | `SignedIdentityIsVetted`: the approver judges an identity that was updated after the one to be signed was read (`handlers/identity.go:61`). The run also has failing writes: one goroutine, an update that is approved and not stored (`handlers/oracle.go:329`), and a signature after it violate the property too. |
| `registry_transfer_error` | `ApproverErrorIsReturned`: an error of `ApproveTransfer` is answered with an empty 200 (`transfers.go:74`). |

The passing runs leave out no more than the run table says: `headers_threads` and `formations_faults`
have all faults of their modules, with the properties that hold in spite of them. The liveness of
`headers_reorg` is checked with disconnections, crashes and failed subscriptions, without errors of
`GetHeaders` and `Ready`; that of `formations_restart` with disconnections and crashes, without errors
of the client's calls, errors of storage, or a reset.

Known from the models, without a run of its own:

* With two goroutines in the callbacks the window may be taken back from the tip. An answer of
  `GetHeaders` that was asked for before a block came may be installed after that block was appended
  (`listener.go:272-292`, the request is made without the lock); and a header message that is handled
  after a newer one looks like a reorganisation to the older branch (`listener.go:152-163`). The window
  is one branch all the while (`WindowIsAncestry`), but it is not at the tip until the next header message
  comes, and if the chain stops there, for ever. These are the exception `Overtaken` in `FollowsTip`. No
  fault is needed. Whether the client library calls back from more than one goroutine is not said in the
  repository; the lock suggests that it may.
* A failed `SubscribeHeaders` (`listener.go:211`) leaves a session in which the window does not follow the
  tip, the other exception in `FollowsTip`; a failed `SubscribeContracts` (`listener.go:206`) leaves one in
  which no formation is collected. Both are only logged, and last until the next connection.
* A crash between the save of the cursor and the end of the callback at work loses that message
  (`main.go:124`). `CursorSkipsNothing` is refuted with it and states what holds without it.
* `HandleHeaders` on a window that was never filled panics (`listener.go:139`), though "no headers yet"
  is a normal outcome (`listener.go:280`). `Panic` is a step of `HeaderListener`; `WindowStaysFilled` says
  that this is the only way there.
* A reset node that has messages again is resumed in the middle of its new numbering
  (`listener.go:216` only takes a node without any message to be reset).
* The number of signers of a certified address is taken from any user's row of the xpub (`xpub.go:57`),
  the alternative in `AddressesStayRegistered`. A second `AddXPub` with another number of signers stores
  nothing and is answered with 200 (`xpub.go:34`); `AcknowledgedIsStored` asks for the row, not its number.
* A user who is deleted while a request of his is at work is still given the xpub or the entity
  (`handlers/oracle.go:170`); nothing in the repository says that he should not, so no property does.
* After a failure of the spynode the server is shut down with a context without a deadline
  (`bootstrap.go:151`), so a request that hangs keeps the process from ending, and the cursor from being
  saved, for ever. An error of `spyNode.Stop` is only logged (`main.go:120`): the cursor is saved, and if
  the client runs on, the wait for its goroutine never ends. These are the two exceptions in
  `EndsUnlessStuck` and `CollectsUnlessStuck` (`Stuck`); TLC refutes both properties
  if either is left out. When the server fails by itself (`bootstrap.go:158`),
  or the deadline passes, the database is closed under the requests at work.
* `/health` of a service that is down responds 500 and then 200: the client gets the 500, the log the
  200 (`health.go:23-28`). A preflight, and a handler that returns nil without a reply, are logged as 404
  and sent as 200. These are the exceptions in `LogTellsTheReply`. "Set the status code for the request
  logger middleware" (`response.go:100`) sets a field that no code reads.
* An error of storage loses a formation for good (`listener.go:119`), and an update the approver
  accepted and the database then failed to store leaves the two different (`handlers/oracle.go:329`), as
  do two updates of one user that reach the approver and the database in different orders. That what was
  signed was accepted at some time (`ApprovedClaimsWereAccepted`) is true all the same.

## 6. Plan

Done, the most important behaviour first: `HeaderListener` with its proofs (what a signature commits
to), `LatestFormation` and `FormationListener` (what survives a restart), `EntityField` and
`EntityScan` with its proof (what a signature says), `Registry` (the requests, with `EntityField`'s
`IsSubset` as their subset check), `SigHashPointer` (the memory a request points into), `Lifecycle` with
its proofs (how the process ends), `Reply` (what the client and the log are told).

A composition of `Registry` with the two listeners is left out on purpose: a request reads each of
them once, under its lock or in one fetch, and compares nothing between them. What such a reading is
worth is stated in the listener's own module, and what happens to it later in `SigHashPointer`.

`FormationListener`, `Registry`, `SigHashPointer` and `Reply` have since got their proofs.

To come:

1. What `ListenerOnlyAdvances` and `WindowNeverMixesBranches` say step by step, for two moments that are
   far apart: the formation of a contract at one time is no older than at any earlier time.
2. `Registry`: with `SubsetTransitive`, that everything claimed in part of an approved claim was
   accepted; and the violation of `registry_identity_race` narrowed down: the identity that is signed is
   the one that was judged, or an update of that user came between.
3. `FormationListener`: what `"reset"` loses, as an invariant that holds with it.
4. `HeaderListener`: that a window that was overtaken is at the tip again after the next block, which
   narrows the exception in `FollowsTip` down.

The runs stay few: one for each question, and a run of something new takes the place of a violation
that is understood, which then stays in section 5 in words.

## 7. Not modelled

Parsing and validation of requests, private keys in a request (422), the derivation of keys and
addresses, signature hashes, JSON, CORS headers, trace ids and the text of log entries: they change no
state that a property here is about. Configuration is read once, before the goroutines start.
Expiration times are data.

`BeginTransaction`, `Commit`, `Rollback`, `Query`, `SelectIn` and `Remove` (`internal/platform/db`) and
`RespondRedirect` and `RespondHTML` (`internal/platform/web`) have no caller. `Execute` prepares a
statement for every call and does not close it (`db.go:213`), which leaks in the driver and not in any
state here. `HandleInSync` and `HandleTxUpdate` only log or do nothing.
