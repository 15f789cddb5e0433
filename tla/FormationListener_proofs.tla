---------------------- MODULE FormationListener_proofs ----------------------
(***************************************************************************)
(* Proofs about FormationListener, for any contracts, formations and       *)
(* transactions, any number of messages, and faults.                       *)
(*                                                                         *)
(* The actions are taken one by one, with the parts of main as Lifecycle   *)
(* uses them (StopClient, TurnOff), so that its proofs cite the same       *)
(* lemmas.                                                                 *)
(***************************************************************************)
EXTENDS FormationListener, SequenceTheorems, TLAPS

\* What is delivered, saved and stored was published before.
OnlyPublished ==
    /\ \A k \in 1 .. Len(log) : Range(log[k]) \subseteq published
    /\ Range(work) \subseteq published
    /\ \A c \in Contracts : stored[c] \in Formations => stored[c] \in published

\* Between the fetch and the put of a formation, storage has no later one.
FoundIsLatest ==
    found => LET f == Head(work)
                 current == stored[ContractOf[f]]
             IN  current \in Formations => TimestampOf[f] >= TimestampOf[current]

FInv == TypeOK /\ OnlyPublished /\ FoundIsLatest

\* All formations of the messages below n are in storage or in pending.
Handled(n, pending) ==
    \A k \in 1 .. Len(log) : k < n => \A f \in Range(log[k]) : Kept(f) \/ f \in pending

\* The client gets messages only while the process runs.
ClientNeedsProcess == session # "down" => process # "off"

\* What was received is in storage or will be put there by the callback at work.
NextIsHandled ==
    /\ next =< Len(log) + 1
    /\ process \in {"running", "stopping"} => Handled(next, Range(work))

\* The saved cursor may be ahead of storage only until main has waited for the callback.
CursorIsHandled ==
    cursor # None =>
        cursor =< Len(log) + 1 /\ Handled(cursor, IF process = "saved" THEN Range(work) ELSE {})

CInv == FInv /\ ClientNeedsProcess /\ NextIsHandled /\ CursorIsHandled

-----------------------------------------------------------------------------
(* Sequences.                                                               *)

\* The outputs of a transaction are its first one and the others.
LEMMA RangeOfHeadTail ==
    ASSUME NEW S, NEW s \in Seq(S), s # <<>>
    PROVE  /\ Head(s) \in S /\ Tail(s) \in Seq(S)
           /\ Range(s) = {Head(s)} \union Range(Tail(s))
<1>1. Head(s) \in S /\ Tail(s) \in Seq(S)
  OBVIOUS
<1>2. Range(s) \subseteq {Head(s)} \union Range(Tail(s))
  <2> SUFFICES ASSUME NEW i \in DOMAIN s PROVE s[i] = Head(s) \/ s[i] \in Range(Tail(s))
    BY DEF Range
  <2>1. CASE i = 1
    BY <2>1
  <2>2. CASE i # 1
    <3>1. i - 1 \in DOMAIN Tail(s) /\ Tail(s)[i - 1] = s[i]
      BY <2>2
    <3>2. QED
      BY <3>1 DEF Range
  <2>3. QED
    BY <2>1, <2>2
<1>3. {Head(s)} \union Range(Tail(s)) \subseteq Range(s)
  <2>1. Head(s) \in Range(s)
    <3>1. 1 \in DOMAIN s /\ s[1] = Head(s)
      OBVIOUS
    <3>2. QED
      BY <3>1 DEF Range
  <2>2. ASSUME NEW i \in DOMAIN Tail(s) PROVE Tail(s)[i] \in Range(s)
    <3>1. i + 1 \in DOMAIN s /\ s[i + 1] = Tail(s)[i]
      OBVIOUS
    <3>2. QED
      BY <3>1 DEF Range
  <2>3. QED
    BY <2>1, <2>2 DEF Range
<1>4. QED
  BY <1>1, <1>2, <1>3

LEMMA RangeOfEmpty == Range(<<>>) = {}
BY DEF Range

-----------------------------------------------------------------------------
(* Types, and where formations come from.                                   *)

LEMMA FaultStep == ASSUME faults \in 0 .. MaxFaults, NEW kind, Fault(kind)
                   PROVE  faults' \in 0 .. MaxFaults
BY BoundsAssumption DEF Fault

\* The process starts with what storage has, and that is no formation.
LEMMA InitFInv == Init => FInv
<1> SUFFICES ASSUME Init PROVE FInv
  OBVIOUS
<1>1. TypeOK
  <2>1. stored \in [Contracts -> Formations \union {None, Invalid}] /\ cursor = None
    BY DEF Init
  <2>2. sent \in 0 .. MaxMessages /\ faults \in 0 .. MaxFaults
    BY BoundsAssumption DEF Init
  <2>3. log \in Seq(Txs) /\ work \in Seq(Formations)
    BY EmptySeq DEF Init
  <2>4. next \in Nat \ {0} /\ cursor \in (Nat \ {0}) \union {None}
    BY DEF Init
  <2>5. QED
    BY <2>1, <2>2, <2>3, <2>4 DEF Init, TypeOK
<1>2. OnlyPublished
  BY StoredAssumption, RangeOfEmpty DEF Init, OnlyPublished
<1>3. FoundIsLatest
  BY DEF Init, FoundIsLatest
<1>4. QED
  BY <1>1, <1>2, <1>3 DEF FInv

\* A transaction appears: the log and what is published grow together.
LEMMA PublishStep == ASSUME FInv, NEW tx \in Txs, Publish(tx) PROVE FInv'
<1>1. tx \in Seq(Formations) /\ Range(tx) \subseteq Formations
  BY FormationAssumption, RangeOfSeq
<1>2. TypeOK'
  BY <1>1, BoundsAssumption DEF Publish, FInv, TypeOK, handler, storage
<1>3. OnlyPublished'
  <2>1. \A k \in 1 .. Len(log') : log'[k] = tx \/ (k \in 1 .. Len(log) /\ log'[k] = log[k])
    BY DEF Publish, FInv, TypeOK
  <2>2. \A k \in 1 .. Len(log') : Range(log'[k]) \subseteq published'
    BY <2>1 DEF Publish, FInv, OnlyPublished
  <2>3. QED
    BY <2>2 DEF Publish, FInv, OnlyPublished, handler, storage
<1>4. FoundIsLatest'
  BY DEF Publish, FInv, FoundIsLatest, handler, storage
<1>5. QED
  BY <1>2, <1>3, <1>4 DEF FInv

\* Steps that do not touch the log, the callback and the formations in storage.
LEMMA ControlStep ==
    ASSUME FInv, UNCHANGED <<chain, handler, stored>>,
           session' \in {"down", "accepted", "silent", "open"}, next' \in Nat \ {0},
           process' \in {"running", "stopping", "saved", "off"},
           cursor' \in (Nat \ {0}) \union {None}, faults' \in 0 .. MaxFaults
    PROVE  FInv'
<1>1. TypeOK'
  BY DEF FInv, TypeOK, chain, handler
<1>2. OnlyPublished' /\ FoundIsLatest'
  BY DEF FInv, OnlyPublished, FoundIsLatest, chain, handler
<1>3. QED
  BY <1>1, <1>2 DEF FInv

\* The next message is taken from the log.
LEMMA HandleTxStep == ASSUME FInv, HandleTx PROVE FInv'
<1>1. next \in 1 .. Len(log) /\ log[next] \in Seq(Formations) /\ ~found
  BY FormationAssumption DEF HandleTx, FInv, TypeOK
<1>2. TypeOK'
  BY <1>1 DEF HandleTx, FInv, TypeOK, chain, storage
<1>3. OnlyPublished'
  BY <1>1 DEF HandleTx, FInv, OnlyPublished, chain, storage
<1>4. FoundIsLatest'
  BY <1>1 DEF HandleTx, FInv, FoundIsLatest
<1>5. QED
  BY <1>2, <1>3, <1>4 DEF FInv

\* An output is done with; what is stored stays what it was or becomes the output.
LEMMA NextOutputStep ==
    ASSUME FInv, work # <<>>, NextOutput, UNCHANGED <<chain, session, next, process, cursor>>,
           faults' \in 0 .. MaxFaults,
           \/ UNCHANGED stored
           \/ stored' = [stored EXCEPT ![ContractOf[Head(work)]] = Head(work)]
    PROVE  FInv'
<1>1. /\ Head(work) \in Formations /\ Tail(work) \in Seq(Formations)
      /\ Range(work) = {Head(work)} \union Range(Tail(work))
  BY RangeOfHeadTail DEF FInv, TypeOK
<1>2. TypeOK'
  BY <1>1 DEF NextOutput, FInv, TypeOK, chain
<1>3. OnlyPublished'
  BY <1>1 DEF NextOutput, FInv, TypeOK, OnlyPublished, chain
<1>4. FoundIsLatest'
  BY DEF NextOutput, FoundIsLatest
<1>5. QED
  BY <1>2, <1>3, <1>4 DEF FInv

\* The fetch finds out whether storage has a later formation.
LEMMA FetchStep == ASSUME FInv, FetchFormation PROVE FInv'
<1>1. Head(work) \in Formations /\ ContractOf[Head(work)] \in Contracts
  BY RangeOfHeadTail, FormationAssumption DEF FetchFormation, FInv, TypeOK
<1> DEFINE f == Head(work)
           current == stored[ContractOf[f]]
<1>2. CASE current \in Formations /\ TimestampOf[current] > TimestampOf[f]
  BY <1>2, NextOutputStep DEF FetchFormation, FInv, TypeOK, storage
<1>3. CASE ~(current \in Formations /\ TimestampOf[current] > TimestampOf[f])
  <2>1. found' /\ UNCHANGED <<chain, session, next, process, work, storage, faults>>
    BY <1>3 DEF FetchFormation
  <2>2. TypeOK'
    <3>1. work # <<>>
      BY DEF FetchFormation
    <3>2. found' \in BOOLEAN
      BY <1>3 DEF FetchFormation
    <3>3. QED
      BY <2>1, <3>1, <3>2 DEF FInv, TypeOK, chain, storage
  <2>3. OnlyPublished'
    BY <2>1 DEF FInv, OnlyPublished, chain, storage
  <2>4. current \in Formations => TimestampOf[f] >= TimestampOf[current]
    BY <1>1, <1>3, FormationAssumption
  <2>5. FoundIsLatest'
    BY <2>1, <2>4 DEF FoundIsLatest, storage
  <2>6. QED
    BY <2>2, <2>3, <2>5 DEF FInv
<1>4. QED
  BY <1>2, <1>3

\* What the client calls back.
LEMMA CallbackStep == ASSUME FInv, Callback PROVE FInv'
<1>1. CASE AcceptRegister
  <2>1. next' \in Nat \ {0}
    BY <1>1 DEF AcceptRegister, GetNextMessageID, FInv, TypeOK
  <2>2. faults' \in 0 .. MaxFaults
    BY <1>1, FaultStep DEF AcceptRegister, FInv, TypeOK
  <2>3. QED
    BY <1>1, <2>1, <2>2, ControlStep DEF AcceptRegister, storage, FInv, TypeOK
<1>2. CASE HandleTx
  BY <1>2, HandleTxStep
<1>3. CASE FetchFormation
  BY <1>3, FetchStep
<1>4. CASE PutFormation
  BY <1>4, NextOutputStep DEF PutFormation, FInv, TypeOK
<1>5. CASE SaveFails
  <2>1. faults' \in 0 .. MaxFaults
    BY <1>5, FaultStep DEF SaveFails, FInv, TypeOK
  <2>2. QED
    BY <1>5, <2>1, NextOutputStep DEF SaveFails, storage
<1>6. QED
  BY <1>1, <1>2, <1>3, <1>4, <1>5 DEF Callback

\* The process ends: what it held is gone, storage stays.
LEMMA TurnOffStep == ASSUME FInv, TurnOff, faults' \in 0 .. MaxFaults PROVE FInv'
<1>1. TypeOK'
  BY EmptySeq DEF TurnOff, FInv, TypeOK, chain, storage
<1>2. OnlyPublished' /\ FoundIsLatest'
  BY RangeOfEmpty DEF TurnOff, FInv, OnlyPublished, FoundIsLatest, chain, storage
<1>3. QED
  BY <1>1, <1>2 DEF FInv

\* The node forgets its messages, but not that they were published.
LEMMA ResetStep == ASSUME FInv, ResetNode PROVE FInv'
<1>1. TypeOK'
  <2>1. faults' \in 0 .. MaxFaults
    BY FaultStep DEF ResetNode, FInv, TypeOK
  <2>2. QED
    BY <2>1, EmptySeq DEF ResetNode, FInv, TypeOK, handler, storage
<1>2. OnlyPublished' /\ FoundIsLatest'
  BY DEF ResetNode, FInv, OnlyPublished, FoundIsLatest, handler, storage
<1>3. QED
  BY <1>1, <1>2 DEF FInv

\* main stops the client, saves the cursor and ends, and the process starts again.
LEMMA MainSteps ==
    ASSUME FInv,
           \/ StopClient /\ faults' \in 0 .. MaxFaults
           \/ Save \/ Start
    PROVE  FInv'
<1>1. CASE StopClient /\ faults' \in 0 .. MaxFaults
  BY <1>1, ControlStep DEF StopClient, storage, FInv, TypeOK
<1>2. CASE Save
  <2>1. faults' \in 0 .. MaxFaults
    BY <1>2, FaultStep DEF Save, FInv, TypeOK
  <2>2. QED
    BY <1>2, <2>1, ControlStep DEF Save, FInv, TypeOK
<1>3. CASE Start
  BY <1>3, ControlStep DEF Start, storage, FInv, TypeOK
<1>4. QED
  BY <1>1, <1>2, <1>3

LEMMA NextFInv == FInv /\ [Next]_vars => FInv'
<1> SUFFICES ASSUME FInv, [Next]_vars PROVE FInv'
  OBVIOUS
<1>0. faults \in 0 .. MaxFaults
  BY DEF FInv, TypeOK
<1>1. CASE UNCHANGED vars
  BY <1>0, <1>1, ControlStep DEF vars, chain, handler, storage, FInv, TypeOK
<1>2. CASE \E tx \in Txs : Publish(tx)
  BY <1>2, PublishStep
<1>3. CASE ResetNode
  BY <1>3, ResetStep
<1>4. CASE Disconnect \/ Connect
  <2>1. faults' \in 0 .. MaxFaults
    BY <1>0, <1>4, FaultStep DEF Disconnect, Connect
  <2>2. QED
    BY <1>4, <2>1, ControlStep DEF Disconnect, Connect, storage, FInv, TypeOK
<1>5. CASE Callback
  BY <1>5, CallbackStep
<1>6. CASE Stop \/ Save \/ Start
  <2>1. Stop => StopClient /\ faults' \in 0 .. MaxFaults
    BY <1>0, FaultStep DEF Stop
  <2>2. QED
    BY <1>6, <2>1, MainSteps
<1>7. CASE Exit \/ Crash \/ CrashInShutdown
  <2>1. TurnOff
    BY <1>7 DEF Exit, Crash, CrashInShutdown
  <2>2. faults' \in 0 .. MaxFaults
    BY <1>0, <1>7, FaultStep DEF Exit, Crash, CrashInShutdown
  <2>3. QED
    BY <2>1, <2>2, TurnOffStep
<1>8. QED
  BY <1>1, <1>2, <1>3, <1>4, <1>5, <1>6, <1>7 DEF Next

THEOREM Invariance == Spec => []FInv
BY InitFInv, NextFInv, PTL DEF Spec

\* Every variable keeps to its kind, whatever the transactions and the faults.
THEOREM TypeCorrect == Spec => []TypeOK
<1>1. FInv => TypeOK
  BY DEF FInv
<1>2. QED
  BY <1>1, Invariance, PTL

-----------------------------------------------------------------------------
(* What is kept, and what GetContractFormation returns.                     *)

\* An output that is put is not older than what it replaces, so that nothing that
\* was kept is lost, and it is kept itself.
LEMMA PutKeeps ==
    ASSUME FInv, PutFormation, NEW g \in Formations, g = Head(work)
    PROVE  /\ \A f \in Formations : Kept(f) => Kept(f)'
           /\ Kept(g)'
<1>1. /\ ContractOf[g] \in Contracts /\ TimestampOf[g] \in Nat
      /\ stored' = [stored EXCEPT ![ContractOf[g]] = g]
  BY RangeOfHeadTail, FormationAssumption DEF PutFormation, FInv, TypeOK
<1>2. \A c \in Contracts : stored'[c] = IF c = ContractOf[g] THEN g ELSE stored[c]
  BY <1>1 DEF FInv, TypeOK
<1>3. Kept(g)'
  BY <1>1, <1>2 DEF Kept
<1>4. ASSUME NEW f \in Formations, Kept(f) PROVE Kept(f)'
  <2>1. ContractOf[f] \in Contracts /\ TimestampOf[f] \in Nat
    BY FormationAssumption
  <2>2. CASE ContractOf[f] # ContractOf[g]
    BY <1>2, <1>4, <2>1, <2>2 DEF Kept
  <2>3. CASE ContractOf[f] = ContractOf[g]
    <3>1. /\ stored[ContractOf[g]] \in Formations
          /\ TimestampOf[stored[ContractOf[g]]] >= TimestampOf[f]
      BY <1>4, <2>3 DEF Kept
    <3>2. TimestampOf[g] >= TimestampOf[stored[ContractOf[g]]]
      BY <3>1 DEF PutFormation, FInv, FoundIsLatest
    <3>3. TimestampOf[stored[ContractOf[g]]] \in Nat
      BY <3>1, FormationAssumption
    <3>4. TimestampOf[g] >= TimestampOf[f]
      BY <1>1, <2>1, <3>1, <3>2, <3>3
    <3>5. QED
      BY <1>1, <1>2, <2>1, <2>3, <3>4 DEF Kept
  <2>4. QED
    BY <2>2, <2>3
<1>5. QED
  BY <1>3, <1>4

\* An output that is skipped because storage has a later one of its contract is kept.
LEMMA FetchKeeps ==
    ASSUME FInv, FetchFormation
    PROVE  /\ UNCHANGED stored
           /\ UNCHANGED work \/ (NextOutput /\ Kept(Head(work)))
<1>1. Head(work) \in Formations /\ TimestampOf[Head(work)] \in Nat
  BY RangeOfHeadTail, FormationAssumption DEF FetchFormation, FInv, TypeOK
<1> DEFINE current == stored[ContractOf[Head(work)]]
<1>2. CASE current \in Formations /\ TimestampOf[current] > TimestampOf[Head(work)]
  <2>1. TimestampOf[current] \in Nat
    BY <1>2, FormationAssumption
  <2>2. QED
    BY <1>1, <1>2, <2>1 DEF FetchFormation, Kept, storage
<1>3. CASE ~(current \in Formations /\ TimestampOf[current] > TimestampOf[Head(work)])
  BY <1>3 DEF FetchFormation, storage
<1>4. QED
  BY <1>2, <1>3

\* Nothing is returned at first: what storage may hold is no formation.
LEMMA InitLatest == Init => Latest!Init
BY StoredAssumption DEF Init, Latest!Init, GetContractFormation

\* Where neither storage nor the chain changes, what is returned does not either.
LEMMA LatestStays == ASSUME UNCHANGED <<published, stored>> PROVE UNCHANGED Latest!vars
BY DEF Latest!vars, GetContractFormation

\* A put is an advance to a published formation that is not older.
LEMMA LatestAdvances == ASSUME FInv, PutFormation PROVE Latest!Next
<1> DEFINE g == Head(work)
           c == ContractOf[g]
           returned == [d \in Contracts |-> GetContractFormation(d)]
<1>1. /\ g \in Formations /\ c \in Contracts /\ g \in Range(work)
      /\ stored' = [stored EXCEPT ![c] = g] /\ UNCHANGED published
  BY RangeOfHeadTail, FormationAssumption DEF PutFormation, FInv, TypeOK, chain
<1>2. g \in published
  BY <1>1 DEF FInv, OnlyPublished
<1>3. Latest!NoOlder(g, returned[c])
  <2>1. CASE stored[c] \in Formations
    BY <1>1, <2>1 DEF PutFormation, FInv, FoundIsLatest, Latest!NoOlder, GetContractFormation
  <2>2. CASE stored[c] \notin Formations
    BY <1>1, <2>2 DEF Latest!NoOlder, GetContractFormation
  <2>3. QED
    BY <2>1, <2>2
<1>4. returned' = [returned EXCEPT ![c] = g]
  BY <1>1 DEF FInv, TypeOK, GetContractFormation
<1>5. Latest!Advance(g)
  BY <1>1, <1>2, <1>3, <1>4 DEF Latest!Advance
<1>6. QED
  BY <1>1, <1>5 DEF Latest!Next

\* A callback advances what is returned or leaves it alone.
LEMMA LatestCallback == ASSUME FInv, Callback PROVE [Latest!Next]_(Latest!vars)
<1>1. CASE PutFormation
  BY <1>1, LatestAdvances
<1>2. CASE AcceptRegister \/ HandleTx \/ FetchFormation \/ SaveFails
  <2>1. UNCHANGED <<published, stored>>
    BY <1>2, FetchKeeps DEF AcceptRegister, HandleTx, FetchFormation, SaveFails, chain, storage
  <2>2. QED
    BY <2>1, LatestStays
<1>3. QED
  BY <1>1, <1>2 DEF Callback

LEMMA LatestPublish == ASSUME NEW tx \in Txs, Publish(tx) PROVE Latest!Next
<1>1. Range(tx) \in SUBSET Formations
  BY FormationAssumption, RangeOfSeq
<1>2. Latest!Publish(Range(tx))
  BY DEF Publish, Latest!Publish, storage, GetContractFormation
<1>3. QED
  BY <1>1, <1>2 DEF Latest!Next

LEMMA LatestStep == FInv /\ [Next]_vars => [Latest!Next]_(Latest!vars)
<1> SUFFICES ASSUME FInv, [Next]_vars PROVE [Latest!Next]_(Latest!vars)
  OBVIOUS
<1>1. CASE \E tx \in Txs : Publish(tx)
  BY <1>1, LatestPublish
<1>2. CASE Callback
  BY <1>2, LatestCallback
<1>3. CASE \/ UNCHANGED vars \/ ResetNode \/ Disconnect \/ Connect
           \/ Stop \/ Save \/ Exit \/ Crash \/ CrashInShutdown \/ Start
  <2>1. UNCHANGED <<published, stored>>
    BY <1>3 DEF vars, ResetNode, Disconnect, Connect, Stop, StopClient, Save, Exit, Crash,
                CrashInShutdown, Start, TurnOff, chain, storage
  <2>2. QED
    BY <2>1, LatestStays
<1>4. QED
  BY <1>1, <1>2, <1>3 DEF Next

\* What GetContractFormation returns moves only to published formations that are not
\* older, whatever fails (listener.go:323-350): the listener implements the safety of
\* LatestFormation.
THEOREM ListenerOnlyAdvances == Spec => OnlyAdvances
BY Invariance, InitLatest, LatestStep, PTL DEF Spec, OnlyAdvances, Latest!Spec

-----------------------------------------------------------------------------
(* The cursor.                                                              *)

\* A fault that makes the cursor skip messages: an error of storage while a formation
\* is saved, a node that numbers its messages again, a crash between the save of the
\* cursor and the end of the callback.
SkippingFaults == {"storage", "reset", "crashInShutdown"}

LEMMA InitCInv == Init => CInv
<1> SUFFICES ASSUME Init PROVE CInv
  OBVIOUS
<1>1. FInv
  BY InitFInv
<1>2. Len(log) = 0 /\ next = 1 /\ cursor = None /\ session = "down"
  BY DEF Init
<1>3. QED
  BY <1>1, <1>2 DEF CInv, ClientNeedsProcess, NextIsHandled, CursorIsHandled, Handled

\* A new message is the next one at the earliest.
LEMMA PublishCursor == ASSUME CInv, NEW tx \in Txs, Publish(tx) PROVE CInv'
<1>1. FInv'
  BY PublishStep DEF CInv
<1>2. /\ Len(log') = Len(log) + 1
      /\ \A k \in 1 .. Len(log') : log'[k] = tx \/ (k \in 1 .. Len(log) /\ log'[k] = log[k])
      /\ \A k \in 1 .. Len(log') : k =< Len(log) => k \in 1 .. Len(log) /\ log'[k] = log[k]
      /\ Len(log) \in Nat
  BY DEF Publish, CInv, FInv, TypeOK
<1>3. UNCHANGED <<session, next, process, work, stored, cursor>>
  BY DEF Publish, handler, storage
<1>4. \A f : Kept(f)' <=> Kept(f)
  BY <1>3 DEF Kept
<1>5. ASSUME NEW n \in Nat, NEW pending, n =< Len(log) + 1, Handled(n, pending)
      PROVE  Handled(n, pending)'
  <2> SUFFICES ASSUME NEW k \in 1 .. Len(log'), k < n, NEW f \in Range(log'[k])
               PROVE  Kept(f)' \/ f \in pending'
    BY DEF Handled
  <2>1. k \in 1 .. Len(log) /\ log'[k] = log[k]
    BY <1>2, <1>5
  <2>2. QED
    BY <1>4, <1>5, <2>1 DEF Handled
<1>6. QED
  BY <1>1, <1>2, <1>3, <1>5
     DEF CInv, ClientNeedsProcess, NextIsHandled, CursorIsHandled, FInv, TypeOK

\* The formations of messages are formations.
LEMMA LoggedFormations ==
    ASSUME FInv PROVE \A k \in 1 .. Len(log) : Range(log[k]) \subseteq Formations
BY DEF FInv, TypeOK, OnlyPublished

\* An output is done with, and it is kept.
LEMMA NextOutputCursor ==
    ASSUME CInv, work # <<>>, NextOutput, UNCHANGED <<chain, session, next, process, cursor>>,
           \A f \in Formations : Kept(f) => Kept(f)',
           \A f \in Formations : f = Head(work) => Kept(f)'
    PROVE  ClientNeedsProcess' /\ NextIsHandled' /\ CursorIsHandled'
<1>1. /\ Head(work) \in Formations /\ Range(work) = {Head(work)} \union Range(work')
      /\ UNCHANGED log
  BY RangeOfHeadTail DEF CInv, FInv, TypeOK, NextOutput, chain
<1>2. \A k \in 1 .. Len(log) : \A f \in Range(log[k]) :
          /\ Kept(f) => Kept(f)'
          /\ Kept(f) \/ f \in Range(work) => Kept(f)' \/ f \in Range(work')
  BY <1>1, LoggedFormations DEF CInv
<1>3. ClientNeedsProcess'
  BY DEF CInv, ClientNeedsProcess
<1>4. NextIsHandled'
  BY <1>1, <1>2 DEF CInv, NextIsHandled, Handled
<1>5. CursorIsHandled'
  BY <1>1, <1>2 DEF CInv, CursorIsHandled, Handled
<1>6. QED
  BY <1>3, <1>4, <1>5

\* The callback asks for the messages from the saved cursor on, which skips nothing.
LEMMA AcceptRegisterCursor == ASSUME CInv, AcceptRegister PROVE CInv'
<1>1. FInv'
  BY CallbackStep DEF CInv, Callback
<1>2. /\ process # "off" /\ work = <<>> /\ UNCHANGED <<log, process, work, stored, cursor>>
      /\ next' = next \/ next' = 1 \/ (cursor # None /\ next' = cursor)
  BY DEF AcceptRegister, GetNextMessageID, CInv, ClientNeedsProcess, chain, handler, storage
<1>3. \A f : Kept(f)' <=> Kept(f)
  BY <1>2 DEF Kept
<1>4. NextIsHandled'
  <2>1. CASE next' = next
    BY <1>2, <1>3, <2>1 DEF CInv, NextIsHandled, Handled
  <2>2. CASE next' = 1
    BY <1>2, <2>2 DEF CInv, FInv, TypeOK, NextIsHandled, Handled
  <2>3. CASE cursor # None /\ next' = cursor
    BY <1>2, <1>3, <2>3 DEF CInv, NextIsHandled, CursorIsHandled, Handled
  <2>4. QED
    BY <1>2, <2>1, <2>2, <2>3
<1>5. CursorIsHandled'
  BY <1>2, <1>3 DEF CInv, CursorIsHandled, Handled
<1>6. ClientNeedsProcess'
  BY <1>2 DEF ClientNeedsProcess
<1>7. QED
  BY <1>1, <1>4, <1>5, <1>6 DEF CInv

\* A message that is received is pending.
LEMMA HandleTxCursor == ASSUME CInv, HandleTx PROVE CInv'
<1>1. FInv'
  BY HandleTxStep DEF CInv
<1>2. /\ process # "off" /\ work = <<>> /\ work' = log[next] /\ next' = next + 1
      /\ next \in 1 .. Len(log) /\ Len(log) \in Nat
      /\ UNCHANGED <<log, session, process, stored, cursor>>
  BY DEF HandleTx, CInv, FInv, TypeOK, ClientNeedsProcess, chain, storage
<1>3. \A f : Kept(f)' <=> Kept(f)
  BY <1>2 DEF Kept
<1>4. NextIsHandled'
  <2> SUFFICES ASSUME process \in {"running", "stopping"}, NEW k \in 1 .. Len(log),
                      k < next + 1, NEW f \in Range(log[k])
               PROVE  Kept(f) \/ f \in Range(log[next])
    BY <1>2, <1>3 DEF NextIsHandled, Handled
  <2>1. CASE k = next
    BY <2>1
  <2>2. CASE k < next
    BY <1>2, <2>2, RangeOfEmpty DEF CInv, NextIsHandled, Handled
  <2>3. QED
    BY <1>2, <2>1, <2>2
<1>5. CursorIsHandled'
  BY <1>2, <1>3, RangeOfEmpty DEF CInv, CursorIsHandled, Handled
<1>6. ClientNeedsProcess'
  BY <1>2 DEF ClientNeedsProcess
<1>7. QED
  BY <1>1, <1>4, <1>5, <1>6 DEF CInv

\* A callback never leaves a formation that is not kept, unless storage fails.
LEMMA CallbackCursor == ASSUME CInv, "storage" \notin FaultKinds, Callback PROVE CInv'
<1>1. FInv'
  BY CallbackStep DEF CInv
<1>2. CASE AcceptRegister
  BY <1>2, AcceptRegisterCursor
<1>3. CASE HandleTx
  BY <1>3, HandleTxCursor
<1>4. CASE FetchFormation
  <2>1. \A f : Kept(f)' <=> Kept(f)
    BY <1>4, FetchKeeps DEF CInv, Kept
  <2>2. CASE UNCHANGED work
    BY <1>1, <1>4, <2>1, <2>2 DEF FetchFormation, CInv, ClientNeedsProcess, NextIsHandled,
                                  CursorIsHandled, Handled, chain, storage
  <2>3. CASE NextOutput /\ Kept(Head(work))
    BY <1>1, <1>4, <2>1, <2>3, NextOutputCursor DEF FetchFormation, CInv, chain, storage
  <2>4. QED
    BY <1>4, <2>2, <2>3, FetchKeeps DEF CInv
<1>5. CASE PutFormation
  <2>1. work # <<>> /\ Head(work) \in Formations
    BY <1>5, RangeOfHeadTail DEF PutFormation, CInv, FInv, TypeOK
  <2>2. /\ \A f \in Formations : Kept(f) => Kept(f)'
        /\ \A f \in Formations : f = Head(work) => Kept(f)'
    BY <1>5, <2>1, PutKeeps DEF CInv
  <2>3. QED
    BY <1>1, <1>5, <2>1, <2>2, NextOutputCursor DEF PutFormation, CInv
<1>6. CASE SaveFails
  BY <1>6 DEF SaveFails, Fault
<1>7. QED
  BY <1>2, <1>3, <1>4, <1>5, <1>6 DEF Callback

\* The connection comes and goes.
LEMMA SessionCursor ==
    ASSUME CInv, FInv', UNCHANGED <<chain, next, process, handler, storage>>,
           session' # "down" => process # "off"
    PROVE  CInv'
<1>1. UNCHANGED <<log, work, stored, cursor, next, process>>
  BY DEF chain, handler, storage
<1>2. \A f : Kept(f)' <=> Kept(f)
  BY <1>1 DEF Kept
<1>3. QED
  BY <1>1, <1>2 DEF CInv, ClientNeedsProcess, NextIsHandled, CursorIsHandled, Handled

\* main stops the client; its callback may go on, and, when Stop fails, more may come.
LEMMA StopClientCursor ==
    ASSUME CInv, FInv', process = "running", process' = "stopping",
           UNCHANGED <<chain, next, handler, storage>>
    PROVE  CInv'
<1>1. UNCHANGED <<log, work, stored, cursor, next>>
  BY DEF chain, handler, storage
<1>2. \A f : Kept(f)' <=> Kept(f)
  BY <1>1 DEF Kept
<1>3. QED
  BY <1>1, <1>2 DEF CInv, ClientNeedsProcess, NextIsHandled, CursorIsHandled, Handled

\* The cursor that is saved is the client's: what is below it is kept or pending.
LEMMA SaveCursorStep == ASSUME CInv, Save PROVE CInv'
<1>1. FInv'
  BY MainSteps DEF CInv
<1>2. /\ UNCHANGED <<log, work, stored, next, session>>
      /\ process = "stopping" /\ process' = "saved"
      /\ cursor' = next \/ cursor' = cursor
  BY DEF Save, chain, handler
<1>3. \A f : Kept(f)' <=> Kept(f)
  BY <1>2 DEF Kept
<1>4. CursorIsHandled'
  <2>1. CASE cursor' = next
    BY <1>2, <1>3, <2>1 DEF CInv, NextIsHandled, CursorIsHandled, Handled
  <2>2. CASE cursor' = cursor
    BY <1>2, <1>3, <2>2 DEF CInv, CursorIsHandled, Handled
  <2>3. QED
    BY <1>2, <2>1, <2>2
<1>5. ClientNeedsProcess' /\ NextIsHandled'
  BY <1>2 DEF CInv, ClientNeedsProcess, NextIsHandled
<1>6. QED
  BY <1>1, <1>4, <1>5 DEF CInv

\* The process ends while it runs, or after its cursor was saved and its callback ended.
LEMMA TurnOffCursor ==
    ASSUME CInv, FInv', TurnOff, process = "running" \/ (process = "saved" /\ work = <<>>)
    PROVE  CInv'
<1>1. UNCHANGED <<log, stored, cursor, next>> /\ session' = "down" /\ process' = "off"
  BY DEF TurnOff, chain, storage
<1>2. \A f : Kept(f)' <=> Kept(f)
  BY <1>1 DEF Kept
<1>3. CursorIsHandled'
  BY <1>1, <1>2, RangeOfEmpty DEF CInv, CursorIsHandled, Handled
<1>4. ClientNeedsProcess' /\ NextIsHandled'
  BY <1>1 DEF CInv, ClientNeedsProcess, NextIsHandled
<1>5. QED
  BY <1>3, <1>4 DEF CInv

\* A new process knows nothing, and the client connects later.
LEMMA StartCursor == ASSUME CInv, Start PROVE CInv'
<1>1. FInv'
  BY MainSteps DEF CInv
<1>2. /\ UNCHANGED <<log, work, stored, cursor, session>> /\ next' = 1
      /\ process = "off" /\ process' = "running" /\ Len(log) \in Nat
  BY DEF Start, chain, handler, storage, CInv, FInv, TypeOK
<1>3. \A f : Kept(f)' <=> Kept(f)
  BY <1>2 DEF Kept
<1>4. NextIsHandled'
  BY <1>2 DEF NextIsHandled, Handled
<1>5. ClientNeedsProcess' /\ CursorIsHandled'
  BY <1>2, <1>3 DEF CInv, ClientNeedsProcess, CursorIsHandled, Handled
<1>6. QED
  BY <1>1, <1>4, <1>5 DEF CInv

LEMMA NextCInv ==
    ASSUME SkippingFaults \intersect FaultKinds = {}
    PROVE  CInv /\ [Next]_vars => CInv'
<1> SUFFICES ASSUME CInv, [Next]_vars PROVE CInv'
  OBVIOUS
<1>0. FInv'
  BY NextFInv DEF CInv
<1>1. CASE UNCHANGED vars
  BY <1>0, <1>1, SessionCursor DEF vars, CInv, ClientNeedsProcess
<1>2. CASE \E tx \in Txs : Publish(tx)
  BY <1>2, PublishCursor
<1>3. CASE Disconnect \/ Connect
  BY <1>0, <1>3, SessionCursor DEF Disconnect, Connect
<1>4. CASE Callback
  BY <1>4, CallbackCursor DEF SkippingFaults
<1>5. CASE Stop
  BY <1>0, <1>5, StopClientCursor DEF Stop, StopClient
<1>6. CASE Save \/ Start
  BY <1>6, SaveCursorStep, StartCursor
<1>7. CASE Exit \/ Crash
  BY <1>0, <1>7, TurnOffCursor DEF Exit, Crash
<1>8. CASE ResetNode \/ CrashInShutdown
  BY <1>8 DEF ResetNode, CrashInShutdown, Fault, SkippingFaults
<1>9. QED
  BY <1>1, <1>2, <1>3, <1>4, <1>5, <1>6, <1>7, <1>8 DEF Next

\* The messages below the saved cursor, which the node will not send again, have been
\* saved whenever the process is down (main.go:120-128, listener.go:361-405): through
\* crashes, disconnections, shutdowns and clients that are never ready.  The three
\* faults that are excluded do lose messages.
THEOREM NothingIsSkipped ==
    ASSUME SkippingFaults \intersect FaultKinds = {}
    PROVE  Spec => []CursorSkipsNothing
<1>1. CInv => CursorSkipsNothing
  BY DEF CInv, CursorIsHandled, Handled, CursorSkipsNothing
<1>2. CInv /\ [Next]_vars => CInv'
  BY NextCInv
<1>3. QED
  BY <1>1, <1>2, InitCInv, PTL DEF Spec
=============================================================================
