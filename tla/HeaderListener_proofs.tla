----------------------- MODULE HeaderListener_proofs -----------------------
(***************************************************************************)
(* Proofs about HeaderListener, for every window length, chain, set of     *)
(* threads and number of faults.                                           *)
(*                                                                         *)
(* WindowIsAncestry is not inductive alone: a thread links a header to its *)
(* own copy latest of the newest hash, which is the newest hash only       *)
(* because hashesLock keeps the other threads out, and InitializeHeaders   *)
(* installs headers it fetched earlier.  IInv adds what that rests on.     *)
(***************************************************************************)
EXTENDS HeaderListener, TLAPS

USE OffsetAssumption, ChainAssumption, BoundAssumption

\* hashesLock admits one thread to the loop of HandleHeaders.
LockIsExclusive == \A t, u \in Threads : pc[t] = "loop" /\ pc[u] = "loop" => t = u

\* In the loop the window has a newest header, and latest is that header.
LatestIsNewest == \A t \in Threads : pc[t] = "loop" => hashes # <<>> /\ latest[t] = Newest

\* What was fetched is one chain.
FetchedIsAncestry == \A t \in Threads : pc[t] = "install" => IsAncestry(batch[t])

IInv == TypeOK /\ LockIsExclusive /\ LatestIsNewest /\ FetchedIsAncestry /\ WindowIsAncestry

-----------------------------------------------------------------------------
(* Lemmas on blocks and on sequences of them.                               *)

\* BlockAt names a block at every height, and the block below the first is NoBlock.
LEMMA BlockAtIsBlock ==
    ASSUME NEW b \in Branches, NEW h \in Nat
    PROVE  BlockAt(b, h) \in Block /\ BlockAt(b, h).height = h
BY DEF BlockAt, Block

\* Ancestry composes, across a fork too, and depths add up.
LEMMA BuriesTransitive ==
    ASSUME NEW x \in Block, NEW y \in Block, NEW z \in Block, NEW m \in Nat, NEW n \in Nat,
           Buries(x, y, m), Buries(y, z, n)
    PROVE  Buries(x, z, m + n)
<1>1. x.height + m =< y.height /\ y.height + n =< z.height
  BY DEF Buries
<1>2. x = BlockAt(y.branch, x.height) /\ y = BlockAt(z.branch, y.height)
  BY DEF Buries
<1>3. x.height \in Nat /\ y.height \in Nat /\ z.height \in Nat /\ z.branch \in Branches
  BY DEF Block
<1>4. ForkHeight[z.branch] \in Nat
  BY <1>3
<1>5. CASE y.height > ForkHeight[z.branch]
  <2>1. y.branch = z.branch
    BY <1>2, <1>5 DEF BlockAt
  <2>2. QED
    BY <2>1, <1>1, <1>2, <1>3 DEF Buries
<1>6. CASE ~(y.height > ForkHeight[z.branch])
  <2>1. y.branch = Main
    BY <1>2, <1>6 DEF BlockAt
  <2>2. x.branch = Main /\ ~(x.height > ForkHeight[z.branch])
    BY <2>1, <1>1, <1>2, <1>3, <1>4, <1>6 DEF BlockAt
  <2>3. x = BlockAt(z.branch, x.height)
    BY <2>1, <2>2, <1>2 DEF BlockAt
  <2>4. QED
    BY <2>3, <1>1, <1>3 DEF Buries
<1>7. QED
  BY <1>5, <1>6

\* A deeper ancestor is an ancestor.
LEMMA BuriesWeaken ==
    ASSUME NEW x \in Block, NEW y \in Block, NEW m \in Nat, NEW n \in Nat, n =< m, Buries(x, y, m)
    PROVE  Buries(x, y, n)
BY DEF Buries, Block

\* The parent is an ancestor.
LEMMA ParentBuries ==
    ASSUME NEW x \in Block, NEW y \in Block, PrevBlock(y) = x
    PROVE  Buries(x, y, 1)
BY DEF Buries, Block, BlockAt, PrevBlock

\* Of two blocks of one branch the lower is an ancestor of the higher.
LEMMA BranchBuries ==
    ASSUME NEW b \in Branches, NEW g \in Nat, NEW h \in Nat, NEW n \in Nat, g + n =< h
    PROVE  Buries(BlockAt(b, g), BlockAt(b, h), n)
<1>1. BlockAt(b, g).height = g /\ BlockAt(b, h).height = h
  BY DEF BlockAt
<1>2. BlockAt(b, g) = BlockAt(BlockAt(b, h).branch, g)
  <2>1. ForkHeight[b] \in Nat
    OBVIOUS
  <2>2. CASE h > ForkHeight[b]
    BY <2>2 DEF BlockAt
  <2>3. CASE ~(h > ForkHeight[b])
    BY <2>1, <2>3 DEF BlockAt
  <2>4. QED
    BY <2>2, <2>3
<1>3. QED
  BY <1>1, <1>2 DEF Buries

\* The headers of one branch between two heights are one chain.
LEMMA ChainIsAncestry ==
    ASSUME NEW b \in Branches, NEW lo \in Nat, NEW hi \in Nat, lo =< hi
    PROVE  /\ Chain(b, lo, hi) \in Seq(Block) \ {<<>>}
           /\ Len(Chain(b, lo, hi)) = hi - lo + 1
           /\ IsAncestry(Chain(b, lo, hi))
<1> DEFINE c == Chain(b, lo, hi)
           n == hi - lo + 1
<1>1. n \in Nat /\ n > 0
  OBVIOUS
<1>2. c = [i \in 1 .. n |-> BlockAt(b, lo + i - 1)]
  BY DEF Chain
<1>3. \A i \in 1 .. n : lo + i - 1 \in Nat
  OBVIOUS
<1>4. \A i \in 1 .. n : BlockAt(b, lo + i - 1) \in Block
  BY <1>3, BlockAtIsBlock
<1>5. c \in Seq(Block) /\ Len(c) = n
  <2> HIDE DEF n, c
  <2> QED BY <1>1, <1>2, <1>4
<1>6. ASSUME NEW i \in 1 .. n, NEW j \in 1 .. n, i < j
      PROVE  Buries(c[i], c[j], j - i)
  <2>1. c[i] = BlockAt(b, lo + i - 1) /\ c[j] = BlockAt(b, lo + j - 1)
    BY <1>2
  <2>2. lo + i - 1 \in Nat /\ lo + j - 1 \in Nat /\ j - i \in Nat
    BY <1>6
  <2>3. (lo + i - 1) + (j - i) =< lo + j - 1
    BY <1>6
  <2>4. QED
    BY <2>1, <2>2, <2>3, BranchBuries
<1>7. QED
  BY <1>1, <1>5, <1>6 DEF IsAncestry

\* A part of a chain is a chain.
LEMMA SubSeqIsAncestry ==
    ASSUME NEW w \in Seq(Block), IsAncestry(w), NEW m \in 1 .. Len(w) + 1, NEW n \in 0 .. Len(w)
    PROVE  SubSeq(w, m, n) \in Seq(Block) /\ IsAncestry(SubSeq(w, m, n))
<1> DEFINE s == SubSeq(w, m, n)
<1>1. s \in Seq(Block) /\ Len(s) = IF m =< n THEN n - m + 1 ELSE 0
  OBVIOUS
<1>2. \A i \in 1 .. Len(s) : s[i] = w[m + i - 1] /\ m + i - 1 \in 1 .. Len(w)
  BY <1>1
<1>3. ASSUME NEW i \in 1 .. Len(s), NEW j \in 1 .. Len(s), i < j
      PROVE  Buries(s[i], s[j], j - i)
  <2>1. Buries(w[m + i - 1], w[m + j - 1], (m + j - 1) - (m + i - 1))
    <3>1. m + i - 1 \in 1 .. Len(w) /\ m + j - 1 \in 1 .. Len(w) /\ m + i - 1 < m + j - 1
      BY <1>2, <1>3
    <3>2. QED
      BY <3>1 DEF IsAncestry
  <2>2. (m + j - 1) - (m + i - 1) = j - i
    OBVIOUS
  <2>3. QED
    BY <1>2, <2>1, <2>2
<1>4. QED
  BY <1>1, <1>3 DEF IsAncestry

\* A chain grows by a block that descends from its newest one.
LEMMA AppendIsAncestry ==
    ASSUME NEW w \in Seq(Block), IsAncestry(w), NEW y \in Block,
           w # <<>> => Buries(w[Len(w)], y, 1)
    PROVE  Append(w, y) \in Seq(Block) /\ IsAncestry(Append(w, y))
<1> DEFINE a == Append(w, y)
<1>1. a \in Seq(Block) /\ Len(a) = Len(w) + 1 /\ Len(w) \in Nat /\ a[Len(w) + 1] = y
  OBVIOUS
<1>2. \A i \in 1 .. Len(w) : a[i] = w[i] /\ w[i] \in Block
  OBVIOUS
<1>3. ASSUME NEW i \in 1 .. Len(a), NEW j \in 1 .. Len(a), i < j
      PROVE  Buries(a[i], a[j], j - i)
  <2>1. CASE j =< Len(w)
    BY <1>1, <1>2, <1>3, <2>1 DEF IsAncestry
  <2>2. CASE j = Len(w) + 1
    <3>1. i \in 1 .. Len(w) /\ w # <<>>
      BY <1>1, <1>3, <2>2
    <3>2. Buries(w[Len(w)], y, 1)
      BY <3>1
    <3>3. CASE i = Len(w)
      BY <1>1, <1>2, <2>2, <3>1, <3>2, <3>3
    <3>4. CASE i < Len(w)
      <4>1. Buries(w[i], w[Len(w)], Len(w) - i)
        BY <1>1, <3>1, <3>4 DEF IsAncestry
      <4>2. Len(w) - i \in Nat /\ (Len(w) - i) + 1 = j - i
        BY <1>1, <2>2, <3>4
      <4>3. w[i] \in Block /\ w[Len(w)] \in Block
        BY <1>1, <1>2, <3>1
      <4>4. Buries(w[i], y, (Len(w) - i) + 1)
        BY <3>2, <4>1, <4>2, <4>3, BuriesTransitive
      <4>5. QED
        BY <1>1, <1>2, <2>2, <3>1, <4>2, <4>4
    <3>5. QED
      BY <1>1, <3>1, <3>3, <3>4
  <2>3. QED
    BY <1>1, <2>1, <2>2
<1>4. QED
  BY <1>1, <1>3 DEF IsAncestry

\* What l.hashes[:i] keeps of a chain, with a child of the header at i on top,
\* is a chain: the parent is missing, its ancestors are not wrong.
LEMMA ReorgIsAncestry ==
    ASSUME NEW w \in Seq(Block), IsAncestry(w), NEW i \in 1 .. Len(w), NEW y \in Block,
           PrevBlock(y) = w[i]
    PROVE  /\ Append(SubSeq(w, 1, i - 1), y) \in Seq(Block)
           /\ IsAncestry(Append(SubSeq(w, 1, i - 1), y))
<1> DEFINE s == SubSeq(w, 1, i - 1)
<1>1. s \in Seq(Block) /\ IsAncestry(s)
  <2>1. 1 \in 1 .. Len(w) + 1 /\ i - 1 \in 0 .. Len(w)
    OBVIOUS
  <2>2. QED
    BY <2>1, SubSeqIsAncestry
<1>2. w[i] \in Block /\ Buries(w[i], y, 1)
  BY ParentBuries
<1>3. ASSUME s # <<>>
      PROVE  Buries(s[Len(s)], y, 1)
  <2>1. i - 1 \in 1 .. Len(w) /\ s[Len(s)] = w[i - 1]
    BY <1>3
  <2>2. w[i - 1] \in Block /\ Buries(w[i - 1], w[i], 1)
    <3>1. i \in 1 .. Len(w) /\ i - 1 < i /\ i - (i - 1) = 1
      OBVIOUS
    <3>2. Buries(w[i - 1], w[i], i - (i - 1))
      BY <2>1, <3>1 DEF IsAncestry
    <3>3. w[i - 1] \in Block
      BY <2>1
    <3>4. QED
      BY <3>1, <3>2, <3>3
  <2>3. Buries(w[i - 1], y, 1 + 1)
    BY <1>2, <2>2, BuriesTransitive
  <2>4. Buries(w[i - 1], y, 1)
    BY <2>2, <2>3, BuriesWeaken
  <2>5. QED
    BY <2>1, <2>4
<1>4. QED
  BY <1>1, <1>3, AppendIsAncestry

-----------------------------------------------------------------------------
(* The inductive invariant.                                                 *)

LEMMA InitIInv == Init => IInv
<1> SUFFICES ASSUME Init PROVE IInv
  OBVIOUS
<1>1. TypeOK
  <2>1. tip \in Block \union {NoBlock}
    <3>1. PICK h \in -1 .. MaxHeight : tip = BlockAt(Main, h)
      BY DEF Init
    <3>2. CASE h = -1
      BY <3>1, <3>2 DEF NoBlock
    <3>3. CASE h \in Nat
      BY <3>1, <3>3, BlockAtIsBlock
    <3>4. QED
      BY <3>1, <3>2, <3>3
  <2>2. QED
    BY <2>1 DEF Init, TypeOK
<1>2. LockIsExclusive /\ LatestIsNewest /\ FetchedIsAncestry
  BY DEF Init, LockIsExclusive, LatestIsNewest, FetchedIsAncestry
<1>3. WindowIsAncestry
  BY DEF Init, WindowIsAncestry, IsAncestry
<1>4. QED
  BY <1>1, <1>2, <1>3 DEF IInv

\* A step that leaves the window alone and moves no thread into the loop or to
\* the installation of a batch keeps the invariants of the lock and the window.
LEMMA QuietStep ==
    ASSUME IInv, TypeOK', UNCHANGED hashes,
           \A t \in Threads : pc'[t] = "loop" => pc[t] = "loop" /\ latest'[t] = latest[t],
           \A t \in Threads : pc'[t] = "install" => pc[t] = "install" /\ batch'[t] = batch[t]
    PROVE  IInv'
<1>1. LockIsExclusive'
  BY DEF IInv, LockIsExclusive
<1>2. LatestIsNewest'
  BY DEF IInv, LatestIsNewest, Newest
<1>3. FetchedIsAncestry'
  BY DEF IInv, FetchedIsAncestry, IsAncestry
<1>4. WindowIsAncestry'
  BY DEF IInv, WindowIsAncestry, IsAncestry
<1>5. QED
  BY <1>1, <1>2, <1>3, <1>4 DEF IInv

\* The death of the process leaves nothing to go wrong.
LEMMA DieStep == IInv /\ Die /\ faults' \in 0 .. MaxFaults => IInv'
<1> SUFFICES ASSUME IInv, Die, faults' \in 0 .. MaxFaults PROVE IInv'
  OBVIOUS
<1>1. TypeOK'
  <2>1. /\ pc' \in [Threads -> {"idle"}]
        /\ batch' \in [Threads -> Seq(Block)]
        /\ latest' \in [Threads -> Block \union {NoBlock}]
        /\ linked' \in [Threads -> BOOLEAN]
    BY DEF Die
  <2>2. tip' \in Block \union {NoBlock}
    BY DEF IInv, TypeOK, Die
  <2>3. feed' \in Seq(Seq(Block) \ {<<>>}) /\ hashes' \in Seq(Block) /\ height' \in Int
    BY DEF Die
  <2>4. session' \in {"down", "accepted", "silent", "subscribed"} /\ up' \in BOOLEAN
    BY DEF Die
  <2>5. QED
    BY <2>1, <2>2, <2>3, <2>4 DEF TypeOK
<1>2. (LockIsExclusive /\ LatestIsNewest /\ FetchedIsAncestry)'
  BY DEF Die, LockIsExclusive, LatestIsNewest, FetchedIsAncestry
<1>3. WindowIsAncestry'
  BY DEF Die, WindowIsAncestry, IsAncestry
<1>4. QED
  BY <1>1, <1>2, <1>3 DEF IInv

\* The node, the connection and the process.
LEMMA ChainGrowsStep ==
    ASSUME IInv, NEW b \in Branches, NEW h \in 0 .. MaxHeight, ChainGrows(b, h)
    PROVE  IInv'
<1>1. tip' \in Block
  BY BlockAtIsBlock DEF ChainGrows
<1>2. tip.height \in Int /\ tip.height >= -1
  BY DEF IInv, TypeOK, Block, NoBlock, BlockAt
<1>3. feed' \in Seq(Seq(Block) \ {<<>>})
  <2>1. PICK shared \in -1 .. tip.height :
          feed' = IF session = "subscribed" THEN Append(feed, Chain(b, shared + 1, h)) ELSE feed
    BY DEF ChainGrows
  <2>2. shared + 1 \in Nat /\ shared + 1 =< h /\ h \in Nat
    BY <1>2, <2>1 DEF ChainGrows
  <2>3. Chain(b, shared + 1, h) \in Seq(Block) \ {<<>>}
    BY <2>2, ChainIsAncestry
  <2>4. feed \in Seq(Seq(Block) \ {<<>>})
    BY DEF IInv, TypeOK
  <2>5. QED
    BY <2>1, <2>3, <2>4
<1>4. UNCHANGED <<session, up, faults, window, threads>>
  BY DEF ChainGrows
<1>5. TypeOK'
  BY <1>1, <1>3, <1>4 DEF IInv, TypeOK, window, threads
<1>6. QED
  BY <1>4, <1>5, QuietStep DEF window, threads

LEMMA ConnectionStep ==
    ASSUME IInv, Connect \/ Disconnect \/ Crash \/ Start PROVE IInv'
<1>1. CASE Connect
  <2>1. TypeOK' /\ UNCHANGED <<window, threads>>
    BY <1>1 DEF IInv, TypeOK, Connect, window, threads
  <2>2. QED
    BY <2>1, QuietStep DEF window, threads
<1>2. CASE Disconnect
  <2>1. TypeOK' /\ UNCHANGED <<window, threads>>
    BY <1>2 DEF IInv, TypeOK, Disconnect, Fault, window, threads
  <2>2. QED
    BY <2>1, QuietStep DEF window, threads
<1>3. CASE Crash
  <2>1. faults' \in 0 .. MaxFaults
    BY <1>3 DEF IInv, TypeOK, Crash, Fault
  <2>2. QED
    BY <1>3, <2>1, DieStep DEF Crash
<1>4. CASE Start
  <2>1. TypeOK' /\ UNCHANGED <<window, threads>>
    BY <1>4 DEF IInv, TypeOK, Start, node, window, threads
  <2>2. QED
    BY <2>1, QuietStep DEF window, threads
<1>5. QED
  BY <1>1, <1>2, <1>3, <1>4

\* What is left of a message once its first headers were taken is a message ...
LEMMA RestIsMessage ==
    ASSUME NEW S, NEW m \in Seq(S), NEW n \in 1 .. Len(m), n # Len(m)
    PROVE  SubSeq(m, n + 1, Len(m)) \in Seq(S) \ {<<>>}
<1> DEFINE r == SubSeq(m, n + 1, Len(m))
<1>1. n + 1 \in 1 .. Len(m) /\ Len(m) \in Nat
  OBVIOUS
<1>2. r \in Seq(S) /\ Len(r) = Len(m) - n
  BY <1>1
<1>3. Len(m) - n # 0
  BY <1>1
<1>4. r # <<>>
  <2> HIDE DEF r
  <2> QED BY <1>2, <1>3
<1>5. QED
  BY <1>2, <1>4

\* ... and goes back to the front of the feed.
LEMMA PushFront ==
    ASSUME NEW S, NEW x \in S, NEW s \in Seq(S)
    PROVE  <<x>> \o s \in Seq(S)
<1>1. <<x>> \in Seq(S)
  OBVIOUS
<1>2. QED
  BY <1>1

\* The steps of a callback.  Those of the other threads are left alone, so each
\* proof is about the window and about t.
LEMMA AcceptRegisterStep ==
    ASSUME IInv, NEW t \in Threads, AcceptRegister(t) PROVE IInv'
<1>1. TypeOK'
  <2>1. pc' \in [Threads -> {"idle", "recv", "loop", "clean", "fetch", "install"}]
    BY DEF IInv, TypeOK, AcceptRegister, Goto
  <2>2. session' \in {"silent", "subscribed"} /\ faults' \in 0 .. MaxFaults
    BY DEF IInv, TypeOK, AcceptRegister, Fault
  <2>3. UNCHANGED <<tip, feed, up, hashes, height, batch, latest, linked>>
    BY DEF AcceptRegister, window
  <2>4. \A u \in Threads : pc'[u] = "install" => pc[u] = "install"
    BY DEF IInv, TypeOK, AcceptRegister, Goto
  <2>5. QED
    BY <2>1, <2>2, <2>3, <2>4 DEF IInv, TypeOK
<1>2. UNCHANGED <<hashes, batch, latest>>
  BY DEF AcceptRegister, window
<1>3. \A u \in Threads : pc'[u] \in {"loop", "install"} => pc'[u] = pc[u]
  BY DEF IInv, TypeOK, AcceptRegister, Goto
<1>4. QED
  BY <1>1, <1>2, <1>3, QuietStep

LEMMA ReceiveStep ==
    ASSUME IInv, NEW t \in Threads, Receive(t) PROVE IInv'
<1> DEFINE m == Head(feed)
<1>1. m \in Seq(Block) /\ m # <<>> /\ Tail(feed) \in Seq(Seq(Block) \ {<<>>})
  BY DEF IInv, TypeOK, Receive
<1>2. PICK n \in 1 .. Len(m) :
        /\ batch' = [batch EXCEPT ![t] = SubSeq(m, 1, n)]
        /\ feed' = IF n = Len(m) THEN Tail(feed)
                   ELSE <<SubSeq(m, n + 1, Len(m))>> \o Tail(feed)
  BY DEF Receive
<1>3. SubSeq(m, 1, n) \in Seq(Block)
  BY <1>1, <1>2
<1>4. feed' \in Seq(Seq(Block) \ {<<>>})
  <2>1. CASE n = Len(m)
    BY <1>1, <1>2, <2>1
  <2>2. CASE n # Len(m)
    <3> DEFINE rest == SubSeq(m, n + 1, Len(m))
    <3>1. rest \in Seq(Block) \ {<<>>}
      BY <1>1, <2>2, RestIsMessage
    <3>2. feed' = <<rest>> \o Tail(feed)
      BY <1>2, <2>2
    <3>3. QED
      <4> HIDE DEF rest
      <4> QED BY <1>1, <3>1, <3>2, PushFront
  <2>3. QED
    BY <2>1, <2>2
<1>5. pc[t] = "idle" /\ pc' = [pc EXCEPT ![t] = "recv"]
      /\ UNCHANGED <<tip, session, up, faults, window, latest, linked>>
  BY DEF Receive, Goto
<1>6. TypeOK'
  BY <1>2, <1>3, <1>4, <1>5 DEF IInv, TypeOK, window
<1>7. \A u \in Threads : pc'[u] \in {"loop", "install"} => u # t /\ pc'[u] = pc[u]
  BY <1>5 DEF IInv, TypeOK
<1>8. \A u \in Threads : u # t => batch'[u] = batch[u]
  BY <1>2 DEF IInv, TypeOK
<1>9. QED
  BY <1>5, <1>6, <1>7, <1>8, QuietStep DEF window

LEMMA LockWindowStep ==
    ASSUME IInv, NEW t \in Threads, LockWindow(t) PROVE IInv'
<1>1. Newest \in Block
  BY DEF IInv, TypeOK, LockWindow, Newest
<1>2. /\ pc' = [pc EXCEPT ![t] = "loop"] /\ latest' = [latest EXCEPT ![t] = Newest]
      /\ UNCHANGED <<hashes, batch>> /\ hashes # <<>>
      /\ \A u \in Threads : pc[u] # "loop"
  BY DEF LockWindow, Goto, HashesLocked, window
<1>3. TypeOK'
  BY <1>1 DEF IInv, TypeOK, LockWindow, Goto, node, window
<1>4. \A u \in Threads : pc'[u] = "loop" => u = t
  BY <1>2 DEF IInv, TypeOK
<1>5. LockIsExclusive'
  BY <1>4 DEF LockIsExclusive
<1>6. LatestIsNewest'
  BY <1>2, <1>4 DEF IInv, TypeOK, LatestIsNewest, Newest
<1>7. FetchedIsAncestry'
  <2>1. \A u \in Threads : pc'[u] = "install" => pc[u] = "install"
    BY <1>2 DEF IInv, TypeOK
  <2>2. QED
    BY <1>2, <2>1 DEF IInv, FetchedIsAncestry
<1>8. WindowIsAncestry'
  BY <1>2 DEF IInv, WindowIsAncestry
<1>9. QED
  BY <1>3, <1>5, <1>6, <1>7, <1>8 DEF IInv

\* What AppendHeader and ReorgHeader have in common: t, which holds the lock, puts
\* its next header on top of the part w of the window.
LEMMA LinkStep ==
    ASSUME IInv, NEW t \in Threads, NEW x, NextHeader(t, x), NEW w \in Seq(Block),
           hashes' = Append(w, Head(batch[t])), height' \in Int, IsAncestry(hashes')
    PROVE  IInv'
<1> DEFINE y == Head(batch[t])
<1>1. batch[t] \in Seq(Block) /\ batch[t] # <<>>
  BY DEF IInv, TypeOK, NextHeader
<1>2. y \in Block /\ Tail(batch[t]) \in Seq(Block)
  BY <1>1
<1>3. /\ pc[t] = "loop"
      /\ batch' = [batch EXCEPT ![t] = Tail(@)]
      /\ latest' = [latest EXCEPT ![t] = y]
      /\ linked' = [linked EXCEPT ![t] = TRUE]
      /\ UNCHANGED <<tip, session, feed, up, faults, pc>>
  BY DEF NextHeader, node
<1>4. hashes' \in Seq(Block) /\ hashes' # <<>> /\ Newest' = y
  <2> HIDE DEF y
  <2>1. hashes' = Append(w, y)
    BY DEF y
  <2>2. QED
    BY <1>2, <2>1 DEF Newest
<1>5. TypeOK'
  <2>1. batch' \in [Threads -> Seq(Block)] /\ latest' \in [Threads -> Block \union {NoBlock}]
    BY <1>2, <1>3 DEF IInv, TypeOK
  <2>2. linked' \in [Threads -> BOOLEAN]
    BY <1>3 DEF IInv, TypeOK
  <2>3. \A u \in Threads : pc'[u] = "install" => batch'[u] # <<>>
    BY <1>3 DEF IInv, TypeOK
  <2>4. QED
    BY <1>3, <1>4, <2>1, <2>2, <2>3 DEF IInv, TypeOK
<1>6. LockIsExclusive'
  BY <1>3 DEF IInv, LockIsExclusive
<1>7. LatestIsNewest'
  <2>1. latest'[t] = y
    BY <1>3 DEF IInv, TypeOK
  <2>2. \A u \in Threads : pc'[u] = "loop" => u = t
    BY <1>3 DEF IInv, LockIsExclusive
  <2>3. QED
    BY <1>4, <2>1, <2>2 DEF LatestIsNewest
<1>8. FetchedIsAncestry'
  <2>1. \A u \in Threads : pc'[u] = "install" => u # t /\ pc[u] = "install"
    BY <1>3
  <2>2. \A u \in Threads : u # t => batch'[u] = batch[u]
    BY <1>3 DEF IInv, TypeOK
  <2>3. QED
    BY <2>1, <2>2 DEF IInv, FetchedIsAncestry
<1>9. QED
  BY <1>5, <1>6, <1>7, <1>8 DEF IInv, WindowIsAncestry

LEMMA AppendHeaderStep ==
    ASSUME IInv, NEW t \in Threads, AppendHeader(t) PROVE IInv'
<1> DEFINE y == Head(batch[t])
<1>1. pc[t] = "loop" /\ batch[t] # <<>> /\ PrevBlock(y) = latest[t]
  BY DEF AppendHeader, NextHeader
<1>2. y \in Block /\ hashes \in Seq(Block) /\ height \in Int
  BY <1>1 DEF IInv, TypeOK
<1>3. hashes # <<>> /\ latest[t] = hashes[Len(hashes)]
  BY <1>1 DEF IInv, LatestIsNewest, Newest
<1>4. hashes[Len(hashes)] \in Block
  BY <1>2, <1>3
<1>5. Buries(hashes[Len(hashes)], y, 1)
  BY <1>1, <1>2, <1>3, <1>4, ParentBuries
<1>6. IsAncestry(Append(hashes, y))
  BY <1>2, <1>5, AppendIsAncestry DEF IInv, WindowIsAncestry
<1>7. hashes' = Append(hashes, y) /\ height' \in Int /\ NextHeader(t, latest[t])
  BY <1>2 DEF AppendHeader
<1>8. QED
  BY <1>2, <1>6, <1>7, LinkStep

LEMMA ReorgHeaderStep ==
    ASSUME IInv, NEW t \in Threads, ReorgHeader(t) PROVE IInv'
<1> DEFINE y == Head(batch[t])
<1>1. PICK i \in 1 .. Len(hashes) :
        /\ NextHeader(t, hashes[i])
        /\ hashes' = Append(SubSeq(hashes, 1, i - 1), y)
        /\ height' = height - (Len(hashes) - i) + 1
  BY DEF ReorgHeader
<1>2. batch[t] # <<>> /\ PrevBlock(y) = hashes[i]
  BY <1>1 DEF NextHeader
<1>3. y \in Block /\ hashes \in Seq(Block) /\ height \in Int
  BY <1>2 DEF IInv, TypeOK
<1>4. IsAncestry(Append(SubSeq(hashes, 1, i - 1), y))
  BY <1>1, <1>2, <1>3, ReorgIsAncestry DEF IInv, WindowIsAncestry
<1>5. SubSeq(hashes, 1, i - 1) \in Seq(Block) /\ height' \in Int
  BY <1>1, <1>3
<1>6. QED
  BY <1>1, <1>4, <1>5, LinkStep

LEMMA SkipHeaderStep ==
    ASSUME IInv, NEW t \in Threads, SkipHeader(t) PROVE IInv'
<1>1. /\ pc[t] = "loop" /\ batch[t] # <<>> /\ batch' = [batch EXCEPT ![t] = Tail(@)]
      /\ UNCHANGED <<tip, session, feed, up, faults, hashes, height, pc, latest, linked>>
  BY DEF SkipHeader, node, window
<1>2. batch' \in [Threads -> Seq(Block)] /\ \A u \in Threads : u # t => batch'[u] = batch[u]
  BY <1>1 DEF IInv, TypeOK
<1>3. \A u \in Threads : pc'[u] = "install" => pc[u] = "install" /\ batch'[u] = batch[u]
  BY <1>1, <1>2
<1>4. TypeOK'
  BY <1>1, <1>2, <1>3 DEF IInv, TypeOK
<1>5. QED
  BY <1>1, <1>3, <1>4, QuietStep

LEMMA UnlockStep ==
    ASSUME IInv, NEW t \in Threads, Unlock(t) PROVE IInv'
<1>1. /\ pc' \in [Threads -> {"idle", "recv", "loop", "clean", "fetch", "install"}]
      /\ pc'[t] \notin {"loop", "install"} /\ \A u \in Threads : u # t => pc'[u] = pc[u]
  BY DEF IInv, TypeOK, Unlock, Goto
<1>2. /\ latest' \in [Threads -> Block \union {NoBlock}]
      /\ \A u \in Threads : u # t => latest'[u] = latest[u]
  BY DEF IInv, TypeOK, Unlock
<1>3. UNCHANGED <<tip, session, feed, up, faults, hashes, height, batch, linked>>
  BY DEF Unlock, node, window
<1>4. TypeOK'
  BY <1>1, <1>2, <1>3 DEF IInv, TypeOK
<1>5. QED
  BY <1>1, <1>2, <1>3, <1>4, QuietStep

\* A step that writes the window while no thread is in the loop.
LEMMA UnlockedWriteStep ==
    ASSUME IInv, TypeOK', ~HashesLocked, IsAncestry(hashes'), UNCHANGED batch,
           \A t \in Threads : pc'[t] \in {"loop", "install"} => pc'[t] = pc[t]
    PROVE  IInv'
<1>1. \A t \in Threads : pc'[t] # "loop"
  BY DEF HashesLocked
<1>2. LockIsExclusive' /\ LatestIsNewest'
  BY <1>1 DEF LockIsExclusive, LatestIsNewest
<1>3. FetchedIsAncestry'
  BY DEF IInv, FetchedIsAncestry
<1>4. QED
  BY <1>2, <1>3 DEF IInv, WindowIsAncestry

LEMMA TrimHashesStep ==
    ASSUME IInv, NEW t \in Threads, TrimHashes(t) PROVE IInv'
<1>1. /\ hashes \in Seq(Block) /\ Len(hashes) > Offset
      /\ hashes' = SubSeq(hashes, Len(hashes) - Offset + 1, Len(hashes))
  BY DEF IInv, TypeOK, TrimHashes
<1>2. hashes' \in Seq(Block) /\ IsAncestry(hashes')
  <2>1. Len(hashes) - Offset + 1 \in 1 .. Len(hashes) + 1 /\ Len(hashes) \in 0 .. Len(hashes)
    BY <1>1
  <2>2. QED
    BY <1>1, <2>1, SubSeqIsAncestry DEF IInv, WindowIsAncestry
<1>3. /\ pc' = [pc EXCEPT ![t] = "idle"] /\ ~HashesLocked
      /\ UNCHANGED <<tip, session, feed, up, faults, height, batch, latest, linked>>
  BY DEF TrimHashes, Goto, node
<1>4. /\ pc' \in [Threads -> {"idle", "recv", "loop", "clean", "fetch", "install"}]
      /\ \A u \in Threads : pc'[u] \in {"loop", "install"} => pc'[u] = pc[u]
  BY <1>3 DEF IInv, TypeOK
<1>5. TypeOK'
  BY <1>2, <1>3, <1>4 DEF IInv, TypeOK
<1>6. QED
  BY <1>2, <1>3, <1>4, <1>5, UnlockedWriteStep

LEMMA KeepHashesStep ==
    ASSUME IInv, NEW t \in Threads, KeepHashes(t) PROVE IInv'
<1>1. UNCHANGED <<tip, session, feed, up, faults, hashes, height, batch, latest, linked>>
  BY DEF KeepHashes, node, window
<1>2. /\ pc' \in [Threads -> {"idle", "recv", "loop", "clean", "fetch", "install"}]
      /\ \A u \in Threads : pc'[u] \in {"loop", "install"} => pc'[u] = pc[u]
  BY DEF IInv, TypeOK, KeepHashes, Goto
<1>3. TypeOK'
  BY <1>1, <1>2 DEF IInv, TypeOK
<1>4. QED
  BY <1>1, <1>2, <1>3, QuietStep

LEMMA GetHeadersStep ==
    ASSUME IInv, NEW t \in Threads, GetHeaders(t) PROVE IInv'
<1>1. tip \in Block
  BY DEF IInv, TypeOK, GetHeaders
<1>2. RecentHeaders \in Seq(Block) \ {<<>>} /\ IsAncestry(RecentHeaders)
  <2> DEFINE lo == IF tip.height < Offset THEN 0 ELSE tip.height - Offset + 1
  <2>1. tip.branch \in Branches /\ tip.height \in Nat /\ lo \in Nat /\ lo =< tip.height
    BY <1>1 DEF Block
  <2>2. QED
    BY <2>1, ChainIsAncestry DEF RecentHeaders
<1>3. /\ pc[t] = "fetch" /\ pc' = [pc EXCEPT ![t] = "install"]
      /\ batch' = [batch EXCEPT ![t] = RecentHeaders]
      /\ UNCHANGED <<tip, session, feed, up, faults, hashes, height, latest, linked>>
  BY DEF GetHeaders, Goto, node, window
<1>4. /\ pc' \in [Threads -> {"idle", "recv", "loop", "clean", "fetch", "install"}]
      /\ pc'[t] = "install" /\ \A u \in Threads : u # t => pc'[u] = pc[u]
  BY <1>3 DEF IInv, TypeOK
<1>5. /\ batch' \in [Threads -> Seq(Block)]
      /\ batch'[t] = RecentHeaders /\ \A u \in Threads : u # t => batch'[u] = batch[u]
  BY <1>2, <1>3 DEF IInv, TypeOK
<1>6. TypeOK'
  <2>1. \A u \in Threads : pc'[u] = "install" => batch'[u] # <<>>
    BY <1>2, <1>4, <1>5 DEF IInv, TypeOK
  <2>2. QED
    BY <1>3, <1>4, <1>5, <2>1 DEF IInv, TypeOK
<1>7. LockIsExclusive' /\ LatestIsNewest'
  <2>1. \A u \in Threads : pc'[u] = "loop" => pc[u] = "loop"
    BY <1>4
  <2>2. LatestIsNewest'
    BY <1>3, <2>1 DEF IInv, LatestIsNewest, Newest
  <2>3. QED
    BY <2>1, <2>2 DEF IInv, LockIsExclusive
<1>8. FetchedIsAncestry'
  <2>1. ASSUME NEW u \in Threads, pc'[u] = "install" PROVE IsAncestry(batch'[u])
    <3>1. CASE u = t
      BY <1>2, <1>5, <3>1
    <3>2. CASE u # t
      BY <1>4, <1>5, <2>1, <3>2 DEF IInv, FetchedIsAncestry
    <3>3. QED
      BY <3>1, <3>2
  <2>2. QED
    BY <2>1 DEF FetchedIsAncestry
<1>9. WindowIsAncestry'
  BY <1>3 DEF IInv, WindowIsAncestry
<1>10. QED
  BY <1>6, <1>7, <1>8, <1>9 DEF IInv

LEMMA GetNoHeadersStep ==
    ASSUME IInv, NEW t \in Threads, GetNoHeaders(t) PROVE IInv'
<1>1. UNCHANGED <<tip, session, feed, up, hashes, height, batch, latest, linked>>
  BY DEF GetNoHeaders, node, window
<1>2. faults' \in 0 .. MaxFaults
  BY DEF IInv, TypeOK, GetNoHeaders, Fault
<1>3. /\ pc' \in [Threads -> {"idle", "recv", "loop", "clean", "fetch", "install"}]
      /\ \A u \in Threads : pc'[u] \in {"loop", "install"} => pc'[u] = pc[u]
  BY DEF IInv, TypeOK, GetNoHeaders, Goto
<1>4. TypeOK'
  BY <1>1, <1>2, <1>3 DEF IInv, TypeOK
<1>5. QED
  BY <1>1, <1>3, <1>4, QuietStep

LEMMA InstallHeadersStep ==
    ASSUME IInv, NEW t \in Threads, InstallHeaders(t) PROVE IInv'
<1> DEFINE b == batch[t]
<1>1. pc[t] = "install" /\ b \in Seq(Block) /\ b # <<>> /\ IsAncestry(b)
  BY DEF IInv, TypeOK, InstallHeaders, FetchedIsAncestry
<1>2. b[Len(b)].height \in Int
  <2>1. b[Len(b)] \in Block
    BY <1>1
  <2>2. QED
    BY <2>1 DEF Block
<1>3. /\ hashes' = b /\ height' = b[Len(b)].height /\ ~HashesLocked
      /\ batch' = [batch EXCEPT ![t] = <<>>] /\ pc' = [pc EXCEPT ![t] = "idle"]
      /\ UNCHANGED <<tip, session, feed, up, faults, latest, linked>>
  BY DEF InstallHeaders, Goto, node
<1>4. /\ pc' \in [Threads -> {"idle", "recv", "loop", "clean", "fetch", "install"}]
      /\ \A u \in Threads : pc'[u] \in {"loop", "install"} => u # t /\ pc'[u] = pc[u]
  BY <1>3 DEF IInv, TypeOK
<1>5. /\ batch' \in [Threads -> Seq(Block)]
      /\ \A u \in Threads : u # t => batch'[u] = batch[u]
  BY <1>3 DEF IInv, TypeOK
<1>6. TypeOK'
  BY <1>1, <1>2, <1>3, <1>4, <1>5 DEF IInv, TypeOK
<1>7. LockIsExclusive' /\ LatestIsNewest'
  BY <1>3, <1>4 DEF HashesLocked, LockIsExclusive, LatestIsNewest
<1>8. FetchedIsAncestry'
  BY <1>4, <1>5 DEF IInv, FetchedIsAncestry
<1>9. WindowIsAncestry'
  BY <1>1, <1>3 DEF WindowIsAncestry
<1>10. QED
  BY <1>6, <1>7, <1>8, <1>9 DEF IInv

-----------------------------------------------------------------------------
(* Every step keeps the invariant, and the theorems follow from it.         *)

LEMMA CallbackStep ==
    ASSUME IInv, NEW t \in Threads, Callback(t) PROVE IInv'
<1>1. CASE AcceptRegister(t)
  BY <1>1, AcceptRegisterStep
<1>2. CASE HandleHeaders(t)
  <2>1. CASE Panic(t)
    BY <2>1, DieStep DEF Panic, IInv, TypeOK
  <2>2. CASE Receive(t) \/ LockWindow(t) \/ Unlock(t)
    BY <2>2, ReceiveStep, LockWindowStep, UnlockStep
  <2>3. CASE AppendHeader(t) \/ ReorgHeader(t) \/ SkipHeader(t)
    BY <2>3, AppendHeaderStep, ReorgHeaderStep, SkipHeaderStep
  <2>4. CASE TrimHashes(t) \/ KeepHashes(t)
    BY <2>4, TrimHashesStep, KeepHashesStep
  <2>5. QED
    BY <1>2, <2>1, <2>2, <2>3, <2>4 DEF HandleHeaders
<1>3. CASE InitializeHeaders(t)
  BY <1>3, GetHeadersStep, GetNoHeadersStep, InstallHeadersStep DEF InitializeHeaders
<1>4. QED
  BY <1>1, <1>2, <1>3 DEF Callback

LEMMA NextIInv == IInv /\ [Next]_vars => IInv'
<1> SUFFICES ASSUME IInv, [Next]_vars PROVE IInv'
  OBVIOUS
<1>1. CASE \E b \in Branches, h \in 0 .. MaxHeight : ChainGrows(b, h)
  BY <1>1, ChainGrowsStep
<1>2. CASE Connect \/ Disconnect \/ Crash \/ Start
  BY <1>2, ConnectionStep
<1>3. CASE \E t \in Threads : Callback(t)
  BY <1>3, CallbackStep
<1>4. CASE UNCHANGED vars
  <2>1. TypeOK' /\ UNCHANGED <<hashes, pc, batch, latest>>
    BY <1>4 DEF IInv, TypeOK, vars, node, window, threads
  <2>2. QED
    BY <2>1, QuietStep
<1>5. QED
  BY <1>1, <1>2, <1>3, <1>4 DEF Next

THEOREM Invariance == Spec => []IInv
BY InitIInv, NextIInv, PTL DEF Spec

\* The window and everything in flight keep their types, and InitializeHeaders
\* never installs an empty window.
THEOREM TypeCorrect == Spec => []TypeOK
<1>1. IInv => TypeOK
  BY DEF IInv
<1>2. QED
  BY <1>1, Invariance, PTL

\* No reorg, duplicate, failed call or interleaving of callbacks puts headers of
\* two branches into the window.
THEOREM WindowNeverMixesBranches == Spec => []WindowIsAncestry
<1>1. IInv => WindowIsAncestry
  BY DEF IInv
<1>2. QED
  BY <1>1, Invariance, PTL

\* What RecentSigHash answers is a block of the newest header's own chain, at
\* least Offset - 1 blocks down.
THEOREM SigHashStaysBuried == Spec => []SigHashIsBuried
<1>1. IInv => SigHashIsBuried
  <2> SUFFICES ASSUME IInv, SigHashReady PROVE Buries(hashes[1], Newest, Offset - 1)
    BY DEF SigHashIsBuried
  <2>1. Len(hashes) = Offset /\ hashes \in Seq(Block)
    BY DEF SigHashReady, IInv, TypeOK
  <2>2. CASE Offset = 1
    <3>1. Newest = hashes[1] /\ hashes[1] \in Block
      <4>1. Len(hashes) = 1 /\ 1 \in 1 .. Len(hashes)
        BY <2>1, <2>2
      <4>2. \A i \in 1 .. Len(hashes) : hashes[i] \in Block
        BY <2>1
      <4>3. QED
        BY <4>1, <4>2 DEF Newest
    <3>2. Buries(hashes[1], hashes[1], 0)
      BY <3>1 DEF Buries, Block, BlockAt
    <3>3. QED
      BY <2>2, <3>1, <3>2
  <2>3. CASE Offset > 1
    BY <2>1, <2>3 DEF IInv, WindowIsAncestry, IsAncestry, Newest
  <2>4. QED
    BY <2>2, <2>3
<1>2. QED
  BY <1>1, Invariance, PTL

\* A window that has a header keeps one while the process runs: no append, reorganisation,
\* trim or fetch empties it (listener.go:139, 280).
THEOREM WindowIsNeverEmptied == Spec => WindowStaysFilled
<1>1. IInv /\ [Next]_vars => [hashes # <<>> /\ up' => hashes' # <<>>]_vars
  <2> SUFFICES ASSUME IInv, [Next]_vars, hashes # <<>>, up' PROVE hashes' # <<>>
    OBVIOUS
  <2>0. hashes \in Seq(Block)
    BY DEF IInv, TypeOK
  <2>1. CASE \E b \in Branches, h \in 0 .. MaxHeight : ChainGrows(b, h)
    BY <2>1 DEF ChainGrows, window
  <2>2. CASE Connect \/ Disconnect \/ Start
    BY <2>2 DEF Connect, Disconnect, Start, window
  <2>3. CASE Crash
    BY <2>3 DEF Crash, Die
  <2>4. ASSUME NEW t \in Threads, Callback(t) PROVE hashes' # <<>>
    <3>1. CASE \/ AcceptRegister(t) \/ Receive(t) \/ LockWindow(t) \/ SkipHeader(t)
               \/ Unlock(t) \/ KeepHashes(t) \/ GetHeaders(t) \/ GetNoHeaders(t)
      BY <3>1 DEF AcceptRegister, Receive, LockWindow, SkipHeader, Unlock, KeepHashes,
                  GetHeaders, GetNoHeaders, window
    <3>2. CASE Panic(t)
      BY <3>2 DEF Panic
    <3>3. CASE AppendHeader(t)
      <4>1. Head(batch[t]) \in Block
        BY <3>3 DEF AppendHeader, NextHeader, IInv, TypeOK
      <4>2. QED
        BY <3>3, <4>1, <2>0 DEF AppendHeader
    <3>4. CASE ReorgHeader(t)
      <4>1. PICK i \in 1 .. Len(hashes) :
                hashes' = Append(SubSeq(hashes, 1, i - 1), Head(batch[t]))
        BY <3>4 DEF ReorgHeader
      <4>2. Head(batch[t]) \in Block
        BY <3>4 DEF ReorgHeader, NextHeader, IInv, TypeOK
      <4>3. SubSeq(hashes, 1, i - 1) \in Seq(Block)
        BY <2>0
      <4>4. QED
        BY <4>1, <4>2, <4>3
    <3>5. CASE TrimHashes(t)
      <4>1. Len(hashes') = Offset
        BY <3>5, <2>0 DEF TrimHashes
      <4>2. QED
        BY <4>1
    <3>6. CASE InstallHeaders(t)
      BY <3>6 DEF InstallHeaders, IInv, TypeOK
    <3>7. QED
      BY <2>4, <3>1, <3>2, <3>3, <3>4, <3>5, <3>6
         DEF Callback, HandleHeaders, InitializeHeaders
  <2>5. QED
    BY <2>1, <2>2, <2>3, <2>4 DEF Next, vars, window
<1>2. QED
  BY <1>1, Invariance, PTL DEF Spec, WindowStaysFilled
=============================================================================
