------------------------- MODULE FormationListener -------------------------
(***************************************************************************)
(* How the oracle collects contract formations: HandleTx and               *)
(* SaveContractFormation of internal/oracle/listener.go write them to      *)
(* storage, and the cursor of SaveNextMessageID decides where the spynode  *)
(* resumes after a restart (HandleMessage, GetNextMessageID, and the       *)
(* shutdown sequence of main.go).  Nothing else makes up for a message     *)
(* that was missed, so the two must agree across crashes.                  *)
(*                                                                         *)
(* The node's message log and the client's NextMessageID are external: a   *)
(* message counts as received when its callback starts, and a client that  *)
(* is Ready(n) is sent the messages from the n-th on, one at a time.       *)
(***************************************************************************)
EXTENDS Naturals, Sequences, SequencesExt

CONSTANTS
    Contracts, Formations, ContractOf, TimestampOf, None,
    Txs,           \* the formations in the outputs of each transaction
    Invalid,       \* stored bytes that are not a contract formation
    MaxMessages,   \* bound: transactions published
    FaultKinds, MaxFaults  \* bound: the faults of this instance, how many

ASSUME FormationAssumption ==
    /\ ContractOf \in [Formations -> Contracts] /\ TimestampOf \in [Formations -> Nat]
    /\ \A tx \in Txs : tx \in Seq(Formations)
    /\ \A tx \in Txs : \A f, g \in Range(tx) : ContractOf[f] = ContractOf[g]
ASSUME StoredAssumption ==
    Invalid \notin Formations /\ None \notin Formations /\ Invalid # None
ASSUME BoundsAssumption == MaxMessages \in Nat /\ MaxFaults \in Nat

VARIABLES
    log,         \* the node's messages since it was last reset
    published,   \* every formation that was ever in one
    session,     \* "down", "accepted", "silent" (no messages come) or "open"
    next,        \* the client's NextMessageID
    process,     \* "running", "stopping", "saved" or "off"
    work,        \* outputs HandleTx has still to save
    found,       \* SaveContractFormation read the stored formation and will put
    stored,      \* storage: the formation under each contract's key
    cursor,      \* storage: the next message id, None before it was saved
    sent,        \* transactions published so far
    faults       \* faults so far

chain == <<log, published, sent>>
storage == <<stored, cursor>>
handler == <<work, found>>
vars == <<chain, session, next, process, handler, storage, faults>>

Fault(kind) == kind \in FaultKinds /\ faults < MaxFaults /\ faults' = faults + 1

Init ==
    /\ log = <<>> /\ published = {} /\ sent = 0
    /\ session = "down" /\ next = 1 /\ process = "running"
    /\ work = <<>> /\ found = FALSE
    /\ stored \in [Contracts -> {None, Invalid}] /\ cursor = None
    /\ faults = 0

-----------------------------------------------------------------------------
(* The chain, the node and the connection.                                  *)

Publish(tx) ==
    /\ sent < MaxMessages /\ sent' = sent + 1
    /\ log' = Append(log, tx) /\ published' = published \union Range(tx)
    /\ UNCHANGED <<session, next, process, handler, storage, faults>>

\* Storage holds formation f of its contract, or one that is not older.
Kept(f) ==
    LET current == stored[ContractOf[f]]
    IN  current \in Formations /\ TimestampOf[current] >= TimestampOf[f]

\* The node loses its state and numbers its messages from 1 again; not while it
\* has messages nobody else could recover.
ResetNode ==
    /\ Fault("reset") /\ log' = <<>> /\ session' = "down"
    /\ \A f \in published : Kept(f)
    /\ UNCHANGED <<published, sent, next, process, handler, storage>>

Disconnect ==
    /\ session # "down" /\ Fault("disconnect") /\ session' = "down"
    /\ UNCHANGED <<chain, next, process, handler, storage>>

Connect ==
    /\ process = "running" /\ session = "down" /\ session' = "accepted"
    /\ UNCHANGED <<chain, next, process, handler, storage, faults>>

-----------------------------------------------------------------------------
(* Callbacks.                                                               *)

GetNextMessageID == IF cursor = None THEN 1 ELSE cursor

\* HandleMessage(AcceptRegister): the saved cursor, unless the node has no
\* messages.  GetNextMessageID or Ready may fail, and then nothing is asked for;
\* an error of SubscribeContracts is only logged, and no contracts come.

AcceptRegister ==
    /\ session = "accepted" /\ work = <<>>
    /\ \/ /\ \/ session' = "open" /\ UNCHANGED faults
             \/ session' = "silent" /\ Fault("contracts")
          /\ next' = IF log = <<>> THEN 1 ELSE GetNextMessageID
       \/ session' = "silent" /\ Fault("ready") /\ UNCHANGED next
    /\ UNCHANGED <<chain, process, handler, storage>>

HandleTx ==
    /\ session = "open" /\ work = <<>> /\ next =< Len(log)
    /\ work' = log[next] /\ next' = next + 1
    /\ UNCHANGED <<chain, session, process, found, storage, faults>>

\* Mutant: what was found for one output is used for the next.
NextOutputKeepingFound == work' = Tail(work) /\ UNCHANGED found

\* The current output is done with, saved or not.
NextOutput == work' = Tail(work) /\ found' = FALSE

\* Mutant: the timestamps are not compared.
FetchFormationAnyAge ==
    /\ work # <<>> /\ ~found /\ found' = TRUE
    /\ UNCHANGED <<chain, session, next, process, work, storage, faults>>

\* SaveContractFormation fetches what it has under the contract's key.
FetchFormation ==
    /\ work # <<>> /\ ~found
    /\ LET f == Head(work)
           current == stored[ContractOf[f]]
       IN  IF current \in Formations /\ TimestampOf[current] > TimestampOf[f]
           THEN NextOutput                          \* already have a later version
           ELSE found' = TRUE /\ UNCHANGED work     \* none, invalid or not later
    /\ UNCHANGED <<chain, session, next, process, storage, faults>>

PutFormation ==
    /\ found /\ NextOutput
    /\ stored' = [stored EXCEPT ![ContractOf[Head(work)]] = Head(work)]
    /\ UNCHANGED <<chain, session, next, process, cursor, faults>>

\* The fetch or the put fails: HandleTx logs it and goes on to the next output.
SaveFails ==
    /\ work # <<>> /\ Fault("storage") /\ NextOutput
    /\ UNCHANGED <<chain, session, next, process, storage>>

-----------------------------------------------------------------------------
(* main.go: interrupt, spyNode.Stop, server.Save, spynodeWait.Wait.         *)

StopClient ==
    /\ process = "running" /\ process' = "stopping" /\ session' = "down"
    /\ UNCHANGED <<chain, next, handler, storage>>

Stop == Fault("stop") /\ StopClient

\* Mutant: the cursor is the message after the next one.
SaveOneMore ==
    /\ process = "stopping" /\ process' = "saved"
    /\ cursor' = next + 1 /\ UNCHANGED <<chain, session, next, handler, stored, faults>>

\* A callback may still be at work; a failed save is only logged.
Save ==
    /\ process = "stopping" /\ process' = "saved"
    /\ \/ cursor' = next /\ UNCHANGED faults
       \/ Fault("storage") /\ UNCHANGED cursor
    /\ UNCHANGED <<chain, session, next, handler, stored>>

TurnOff ==
    /\ process' = "off" /\ session' = "down" /\ work' = <<>> /\ found' = FALSE
    /\ UNCHANGED <<chain, next, storage>>

\* Mutant: main does not wait for the client's goroutine.
ExitAtOnce == process = "saved" /\ TurnOff /\ UNCHANGED faults

Exit == process = "saved" /\ work = <<>> /\ TurnOff /\ UNCHANGED faults

Crash == process = "running" /\ Fault("crash") /\ TurnOff

CrashInShutdown ==
    process \in {"stopping", "saved"} /\ Fault("crashInShutdown") /\ TurnOff

Start ==
    /\ process = "off" /\ process' = "running" /\ next' = 1
    /\ UNCHANGED <<chain, session, handler, storage, faults>>

-----------------------------------------------------------------------------
Callback == AcceptRegister \/ HandleTx \/ FetchFormation \/ PutFormation \/ SaveFails

Next ==
    \/ \E tx \in Txs : Publish(tx)
    \/ ResetNode \/ Disconnect \/ Connect \/ Callback
    \/ Stop \/ Save \/ Exit \/ Crash \/ CrashInShutdown \/ Start

Spec == Init /\ [][Next]_vars

\* The client reconnects and runs its callbacks, a shutdown goes through, and
\* the process is started again.
Fairness ==
    WF_vars(Connect) /\ WF_vars(Callback) /\ WF_vars(Save) /\ WF_vars(Exit) /\ WF_vars(Start)

FairSpec == Spec /\ Fairness

-----------------------------------------------------------------------------
(* Properties.                                                              *)

\* Every variable holds a value of its kind.
TypeOK ==
    /\ log \in Seq(Txs) /\ published \subseteq Formations /\ sent \in 0 .. MaxMessages
    /\ session \in {"down", "accepted", "silent", "open"} /\ next \in Nat \ {0}
    /\ process \in {"running", "stopping", "saved", "off"}
    /\ work \in Seq(Formations) /\ found \in BOOLEAN /\ (found => work # <<>>)
    /\ stored \in [Contracts -> Formations \union {None, Invalid}]
    /\ cursor \in (Nat \ {0}) \union {None} /\ faults \in 0 .. MaxFaults

\* What GetContractFormation returns, None for an error (listener.go:73-94).
GetContractFormation(c) == IF stored[c] \in Formations THEN stored[c] ELSE None

\* Whenever the process is down, the messages below the saved cursor, which the
\* node will not send again, have been saved (main.go:120-128, listener.go:361-405).
CursorSkipsNothing ==
    process = "off" /\ cursor # None =>
        \A k \in 1 .. Len(log) : k < cursor => \A f \in Range(log[k]) : Kept(f)

Latest == INSTANCE LatestFormation WITH
    current <- [c \in Contracts |-> GetContractFormation(c)]

\* GetContractFormation moves only to formations that were published and are not
\* older, through redeliveries, crashes and every failure (listener.go:323-350).
OnlyAdvances == Latest!Spec

\* And in the end it returns the newest of those published (listener.go:35).
ReturnsMostRecent == Latest!FairSpec
=============================================================================
