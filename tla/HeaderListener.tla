--------------------------- MODULE HeaderListener ---------------------------
(***************************************************************************)
(* The window of recent block header hashes that the oracle keeps in       *)
(* internal/oracle/listener.go, and the spynode it follows.  Every         *)
(* signature the oracle issues commits to the oldest hash of that window   *)
(* (RecentSigHash), so the window must be the last Offset headers of one   *)
(* chain however the chain is reorganised, however the callbacks of the    *)
(* spynode client interleave, and whatever calls to the node fail.         *)
(*                                                                         *)
(* The node (tip, feed, session) is external: it is modelled from the      *)
(* calls listener.go makes and the callbacks it implements.  A callback    *)
(* runs on a thread; hashesLock is held exactly while a thread is in       *)
(* "loop" (the other critical sections are single steps).                  *)
(***************************************************************************)
EXTENDS Integers, Sequences

CONSTANTS
    Offset,        \* NewListener: the wanted length of the window (5 in the code)
    Branches,      \* the competing branches of the block chain
    Main,          \* the branch the others fork from
    ForkHeight,    \* the last height each branch shares with Main
    MaxHeight,     \* bound: the chain stops growing at this height
    Threads,       \* goroutines of the spynode client that run callbacks
    FaultKinds,    \* the kinds of fault that may happen in this instance
    MaxFaults      \* bound: how many of them happen

ASSUME OffsetAssumption == Offset \in Nat \ {0}
ASSUME ChainAssumption == Main \in Branches /\ ForkHeight \in [Branches -> Nat]
ASSUME BoundAssumption == MaxHeight \in Nat /\ MaxFaults \in Nat

VARIABLES
    tip,       \* the node's best block, NoBlock before it has any
    session,   \* the client's connection: "down", "accepted", "silent", "subscribed"
    feed,      \* header messages sent to the client and not yet handled
    up,        \* the process runs (a panic in a callback ends it)
    faults,    \* faults so far
    hashes,    \* Listener.hashes, oldest first
    height,    \* Listener.height
    pc,        \* where each thread is in its callback
    batch,     \* each thread's headers: still to link, or fetched to install
    latest,    \* each thread's latest, NoBlock outside the loop of HandleHeaders
    linked     \* each thread's appendedCount # 0

node == <<tip, session, feed>>
window == <<hashes, height>>
threads == <<pc, batch, latest, linked>>
vars == <<node, up, faults, window, threads>>

-----------------------------------------------------------------------------
(* Blocks.  A block is named by its height and the branch it was mined on,  *)
(* which determine its hash and its parent's.                               *)

Block == {x \in [height : Nat, branch : Branches] :
            x.branch # Main => x.height > ForkHeight[x.branch]}
BlockAt(b, h) == [height |-> h, branch |-> IF h > ForkHeight[b] THEN b ELSE Main]
NoBlock == BlockAt(Main, -1)
PrevBlock(x) == BlockAt(x.branch, x.height - 1)

\* The blocks from height lo to height hi of the chain of branch b.
Chain(b, lo, hi) == [i \in 1 .. (hi - lo + 1) |-> BlockAt(b, lo + i - 1)]

\* y descends from x through at least n blocks.
Buries(x, y, n) == x = BlockAt(y.branch, x.height) /\ x.height + n =< y.height

\* Every header of w is an ancestor of the later ones, at least as deep below
\* each of them as it is in w.
IsAncestry(w) == \A i, j \in 1 .. Len(w) : i < j => Buries(w[i], w[j], j - i)

Newest == hashes[Len(hashes)]

-----------------------------------------------------------------------------
HashesLocked == \E t \in Threads : pc[t] = "loop"

\* One more of the faults this instance may still have.
Fault(kind) == kind \in FaultKinds /\ faults < MaxFaults /\ faults' = faults + 1

Goto(t, label) == pc' = [pc EXCEPT ![t] = label]

Init ==
    /\ tip \in {BlockAt(Main, h) : h \in -1 .. MaxHeight}
    /\ session = "down" /\ feed = <<>> /\ up = TRUE /\ faults = 0
    /\ hashes = <<>> /\ height = 0
    /\ pc = [t \in Threads |-> "idle"]
    /\ batch = [t \in Threads |-> <<>>]
    /\ latest = [t \in Threads |-> NoBlock]
    /\ linked = [t \in Threads |-> FALSE]

-----------------------------------------------------------------------------
(* The node and the connection to it.                                       *)

\* The node's chain grows, or is reorganised to a higher branch; a subscribed
\* client is sent the headers above the last block the two chains share.
ChainGrows(b, h) ==
    /\ h > tip.height
    /\ tip' = BlockAt(b, h)
    /\ \E shared \in -1 .. tip.height :
        /\ BlockAt(b, shared) = BlockAt(tip.branch, shared)
        /\ shared < tip.height => BlockAt(b, shared + 1) # BlockAt(tip.branch, shared + 1)
        /\ feed' = IF session = "subscribed"
                   THEN Append(feed, Chain(b, shared + 1, h)) ELSE feed
    /\ UNCHANGED <<session, up, faults, window, threads>>

\* The client connects and the node's AcceptRegister is on its way.
Connect ==
    /\ up /\ session = "down" /\ session' = "accepted"
    /\ UNCHANGED <<tip, feed, up, faults, window, threads>>

Disconnect ==
    /\ session # "down" /\ Fault("disconnect")
    /\ session' = "down" /\ feed' = <<>>
    /\ UNCHANGED <<tip, up, window, threads>>

\* The process dies and everything the listener holds in memory with it.
Die ==
    /\ up' = FALSE /\ session' = "down" /\ feed' = <<>>
    /\ hashes' = <<>> /\ height' = 0
    /\ pc' = [t \in Threads |-> "idle"]
    /\ batch' = [t \in Threads |-> <<>>]
    /\ latest' = [t \in Threads |-> NoBlock]
    /\ linked' = [t \in Threads |-> FALSE]
    /\ UNCHANGED tip

Crash == up /\ Fault("crash") /\ Die

Start == ~up /\ up' = TRUE /\ UNCHANGED <<node, faults, window, threads>>

-----------------------------------------------------------------------------
(* HandleMessage(AcceptRegister).  An error of SubscribeHeaders is only     *)
(* logged; one of GetNextMessageID or Ready ends the handler before         *)
(* InitializeHeaders ("register": both happen).                             *)
AcceptRegister(t) ==
    /\ up /\ pc[t] = "idle" /\ session = "accepted"
    /\ \/ session' = "subscribed" /\ Goto(t, "fetch") /\ UNCHANGED faults
       \/ session' = "silent" /\ Goto(t, "fetch") /\ Fault("subscribe")
       \/ session' = "subscribed" /\ Goto(t, "idle") /\ Fault("ready")
       \/ session' = "silent" /\ Goto(t, "idle") /\ Fault("register")
    /\ UNCHANGED <<tip, feed, up, window, batch, latest, linked>>

-----------------------------------------------------------------------------
(* HandleHeaders.                                                           *)

\* The client delivers a message, or the first part of one.
Receive(t) ==
    /\ up /\ pc[t] = "idle" /\ feed # <<>>
    /\ \E n \in 1 .. Len(Head(feed)) :
        /\ batch' = [batch EXCEPT ![t] = SubSeq(Head(feed), 1, n)]
        /\ feed' = IF n = Len(Head(feed)) THEN Tail(feed)
                   ELSE <<SubSeq(Head(feed), n + 1, Len(Head(feed)))>> \o Tail(feed)
    /\ Goto(t, "recv")
    /\ UNCHANGED <<tip, session, up, faults, window, latest, linked>>

\* latest := l.hashes[len(l.hashes)-1] needs a header in the window ...
LockWindow(t) ==
    /\ pc[t] = "recv" /\ ~HashesLocked /\ hashes # <<>>
    /\ Goto(t, "loop")
    /\ latest' = [latest EXCEPT ![t] = Newest]
    /\ linked' = [linked EXCEPT ![t] = FALSE]
    /\ UNCHANGED <<node, up, faults, window, batch>>

\* ... and panics without one.
Panic(t) == pc[t] = "recv" /\ ~HashesLocked /\ hashes = <<>> /\ Die /\ UNCHANGED faults

\* The header just taken by t follows block prev of the window.
NextHeader(t, prev) ==
    /\ pc[t] = "loop" /\ batch[t] # <<>>
    /\ PrevBlock(Head(batch[t])) = prev
    /\ batch' = [batch EXCEPT ![t] = Tail(@)]
    /\ latest' = [latest EXCEPT ![t] = Head(batch[t])]
    /\ linked' = [linked EXCEPT ![t] = TRUE]
    /\ UNCHANGED <<node, up, faults, pc>>

AppendHeader(t) ==
    /\ NextHeader(t, latest[t])
    /\ hashes' = Append(hashes, Head(batch[t]))
    /\ height' = height + 1

\* Mutants: a reorg that keeps the abandoned branch, and one that keeps the
\* first header of it.
ReorgHeaderKeepingAll(t) ==
    /\ pc[t] = "loop" /\ batch[t] # <<>> /\ PrevBlock(Head(batch[t])) # latest[t]
    /\ \E i \in 1 .. Len(hashes) : NextHeader(t, hashes[i])
    /\ hashes' = Append(hashes, Head(batch[t])) /\ height' = height + 1
ReorgHeaderKeepingOne(t) ==
    /\ pc[t] = "loop" /\ batch[t] # <<>> /\ PrevBlock(Head(batch[t])) # latest[t]
    /\ \E i \in 1 .. Len(hashes) - 1 :
        /\ NextHeader(t, hashes[i])
        /\ hashes' = Append(SubSeq(hashes, 1, i + 1), Head(batch[t]))
        /\ height' = height - (Len(hashes) - i) + 1

\* An earlier header of the window is the parent: the newer ones are dropped,
\* and with l.hashes[:i] the parent itself.
ReorgHeader(t) ==
    /\ pc[t] = "loop" /\ batch[t] # <<>> /\ PrevBlock(Head(batch[t])) # latest[t]
    /\ \E i \in 1 .. Len(hashes) :
        /\ NextHeader(t, hashes[i])
        /\ \A k \in 1 .. (i - 1) : hashes[k] # hashes[i]
        /\ hashes' = Append(SubSeq(hashes, 1, i - 1), Head(batch[t]))
        /\ height' = height - (Len(hashes) - i) + 1

\* A header that follows nothing in the window is passed over.
SkipHeader(t) ==
    /\ pc[t] = "loop" /\ batch[t] # <<>>
    /\ PrevBlock(Head(batch[t])) # latest[t]
    /\ \A i \in 1 .. Len(hashes) : hashes[i] # PrevBlock(Head(batch[t]))
    /\ batch' = [batch EXCEPT ![t] = Tail(@)]
    /\ UNCHANGED <<node, up, faults, window, pc, latest, linked>>

\* Mutant: headers of which none was appended do not lead to a new window.
UnlockOnly(t) ==
    /\ pc[t] = "loop" /\ batch[t] = <<>>
    /\ Goto(t, "clean")
    /\ latest' = [latest EXCEPT ![t] = NoBlock]
    /\ UNCHANGED <<node, up, faults, window, batch, linked>>

Unlock(t) ==
    /\ pc[t] = "loop" /\ batch[t] = <<>>
    /\ Goto(t, IF linked[t] THEN "clean" ELSE "fetch")
    /\ latest' = [latest EXCEPT ![t] = NoBlock]
    /\ UNCHANGED <<node, up, faults, window, batch, linked>>

-----------------------------------------------------------------------------
(* cleanHashes.                                                             *)
TrimHashes(t) ==
    /\ pc[t] = "clean" /\ ~HashesLocked /\ Len(hashes) > Offset
    /\ hashes' = SubSeq(hashes, Len(hashes) - Offset + 1, Len(hashes))
    /\ Goto(t, "idle")
    /\ UNCHANGED <<node, up, faults, height, batch, latest, linked>>

\* Mutant: a window that is too short is cleared before it is fetched anew.
KeepHashesCleared(t) ==
    /\ pc[t] = "clean" /\ ~HashesLocked /\ Len(hashes) =< Offset
    /\ Goto(t, IF Len(hashes) < Offset THEN "fetch" ELSE "idle")
    /\ hashes' = (IF Len(hashes) < Offset THEN <<>> ELSE hashes)
    /\ UNCHANGED <<node, up, faults, height, batch, latest, linked>>

KeepHashes(t) ==
    /\ pc[t] = "clean" /\ ~HashesLocked /\ Len(hashes) =< Offset
    /\ Goto(t, IF Len(hashes) < Offset THEN "fetch" ELSE "idle")
    /\ UNCHANGED <<node, up, faults, window, batch, latest, linked>>

-----------------------------------------------------------------------------
(* InitializeHeaders.  GetHeaders(-1, offset) is answered without           *)
(* hashesLock; its answer is installed later, under the lock.               *)

\* The node's last Offset headers, fewer when it does not have as many.
RecentHeaders ==
    Chain(tip.branch, IF tip.height < Offset THEN 0 ELSE tip.height - Offset + 1, tip.height)

\* Mutant: an empty answer is installed like any other.
GetHeadersEvenNone(t) ==
    /\ pc[t] = "fetch" /\ session # "down"
    /\ batch' = [batch EXCEPT ![t] = RecentHeaders] /\ Goto(t, "install")
    /\ UNCHANGED <<node, up, faults, window, latest, linked>>

GetHeaders(t) ==
    /\ pc[t] = "fetch" /\ session # "down" /\ tip # NoBlock
    /\ batch' = [batch EXCEPT ![t] = RecentHeaders] /\ Goto(t, "install")
    /\ UNCHANGED <<node, up, faults, window, latest, linked>>

\* No headers yet, or an error that the callers log: the window stays as it is.
GetNoHeaders(t) ==
    /\ pc[t] = "fetch"
    /\ \/ (tip = NoBlock \/ session = "down") /\ UNCHANGED faults
       \/ Fault("getHeaders")
    /\ Goto(t, "idle")
    /\ UNCHANGED <<node, up, window, batch, latest, linked>>

InstallHeaders(t) ==
    /\ pc[t] = "install" /\ ~HashesLocked
    /\ hashes' = batch[t] /\ height' = batch[t][Len(batch[t])].height
    /\ batch' = [batch EXCEPT ![t] = <<>>] /\ Goto(t, "idle")
    /\ UNCHANGED <<node, up, faults, latest, linked>>

-----------------------------------------------------------------------------
HandleHeaders(t) ==
    \/ Receive(t) \/ LockWindow(t) \/ Panic(t)
    \/ AppendHeader(t) \/ ReorgHeader(t) \/ SkipHeader(t) \/ Unlock(t)
    \/ TrimHashes(t) \/ KeepHashes(t)

InitializeHeaders(t) == GetHeaders(t) \/ GetNoHeaders(t) \/ InstallHeaders(t)

Callback(t) == AcceptRegister(t) \/ HandleHeaders(t) \/ InitializeHeaders(t)

Next ==
    \/ \E b \in Branches, h \in 0 .. MaxHeight : ChainGrows(b, h)
    \/ Connect \/ Disconnect \/ Crash \/ Start
    \/ \E t \in Threads : Callback(t)

Spec == Init /\ [][Next]_vars

\* The client reconnects, the process is restarted, and the goroutines of the
\* client run; the chain need not grow and nothing need fail.
Fairness ==
    /\ WF_vars(Connect) /\ WF_vars(Start)
    /\ \A t \in Threads : WF_vars(Callback(t))

FairSpec == Spec /\ Fairness

-----------------------------------------------------------------------------
(* Properties.                                                              *)

\* Every variable holds a value of its kind; the headers in hand, in flight
\* and in the window are blocks, and a fetched batch is never empty.
TypeOK ==
    /\ tip \in Block \union {NoBlock}
    /\ session \in {"down", "accepted", "silent", "subscribed"}
    /\ feed \in Seq(Seq(Block) \ {<<>>})
    /\ up \in BOOLEAN /\ faults \in 0 .. MaxFaults
    /\ hashes \in Seq(Block) /\ height \in Int
    /\ pc \in [Threads -> {"idle", "recv", "loop", "clean", "fetch", "install"}]
    /\ batch \in [Threads -> Seq(Block)]
    /\ latest \in [Threads -> Block \union {NoBlock}]
    /\ linked \in [Threads -> BOOLEAN]
    /\ \A t \in Threads : pc[t] = "install" => batch[t] # <<>>

\* The state in which RecentSigHash answers: it takes hashesLock and refuses a
\* window of any other length (listener.go:62-71).
SigHashReady == ~HashesLocked /\ Len(hashes) = Offset

\* Whatever the reorgs, duplicates, faults and interleavings, the block a
\* signature commits to is an ancestor of the newest block of the window, with
\* at least Offset - 1 blocks on top of it (listener.go:30, "current tip -4").
SigHashIsBuried == SigHashReady => Buries(hashes[1], Newest, Offset - 1)

\* The window never mixes two branches (listener.go:141-168 and 273-293).
WindowIsAncestry == IsAncestry(hashes)

\* The hash RecentSigHash returns is the one at the height it returns with it,
\* l.height - offset + 1, on the chain of the window's newest block.
SigHashAtTipOffset ==
    SigHashReady => hashes[1] = BlockAt(Newest.branch, height - Offset + 1)

\* Once filled, the window is never empty again while the process runs, so that
\* HandleHeaders can take its last header (listener.go:139): only the first header
\* message of a process may find it empty, when the node had none ("no headers
\* yet", listener.go:280) or could not be asked.
WindowStaysFilled == [][hashes # <<>> /\ up' => hashes' # <<>>]_vars

\* A header message, or an answer to GetHeaders, that ends before the tip is in
\* the hands of one goroutine while another brings the window to the tip.
Overtaken ==
    \E t, u \in Threads :
        /\ t # u
        /\ pc[t] \in {"recv", "install"} /\ batch[t][Len(batch[t])] # tip
        /\ \/ pc[u] = "loop" /\ Newest = tip
           \/ pc[u] = "install" /\ batch[u][Len(batch[u])] = tip

\* Once the chain has stopped, the window ends at its last block and stays there,
\* through reorganisations, missed headers, disconnections and crashes; a chain
\* that moves moves to a greater height.
\* There are two exceptions: SubscribeHeaders failed for the connection that
\* lasts (listener.go:211), and a goroutine that was overtaken puts its older
\* headers in place of the newer ones (listener.go:272-292 and 152-163).
FollowsTip ==
    \A h \in 0 .. MaxHeight :
        <>[](tip.height = h) => \/ <>[](hashes # <<>> /\ Newest = tip)
                               \/ <>[](session = "silent")
                               \/ <>(tip.height = h /\ Overtaken)
=============================================================================
