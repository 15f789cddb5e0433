----------------------- MODULE SigHashPointer_proofs -----------------------
(***************************************************************************)
(* SigHashPointer adds memory and requests to HeaderListener and takes     *)
(* nothing from it: each of its steps is a step of HeaderListener or none, *)
(* so that what is proved of the window holds in it, too.                  *)
(*                                                                         *)
(* What a request reads is safe because the window's start never moves     *)
(* back in its array: the cell a request points to is the first of the     *)
(* window or one the window has left (PointersFollow), and the first cell  *)
(* is only written again by a reorganisation at the block in it.           *)
(***************************************************************************)
EXTENDS SigHashPointer, HeaderListener_proofs, SequenceTheorems

USE OffsetAssumption

\* What a cell of the array may hold, and the locals of a request.
Cell == Block \union {NoBlock}
Locals == [at : {"idle", "sign", "reply"}, cell : Nat, left : Cell, given : Cell,
           signed : Cell \union {Torn}, agree : BOOLEAN]

\* Every variable of the memory holds a value of its kind; a request points to a block.
MemoryTypeOK ==
    /\ array \in Seq(Cell) /\ first \in 1 .. Len(array) + 1
    /\ reader \in [Readers -> Locals]
    /\ \A r \in Holding : reader[r].given \in Block /\ Pointee(r) \in Block

\* The window has not moved back behind a cell that was its first.
PointersFollow == \A r \in Holding : reader[r].cell =< first /\ reader[r].cell =< Len(array)

\* The two views of the window agree: as a sequence (hashes) and as a slice (array and
\* first).  This ties what is proved of the one to the other; it says nothing of which
\* hashes the window should hold.
WindowIsSlice ==
    /\ Len(hashes) =< Capacity
    /\ hashes = SubSeq(array, first, first + Len(hashes) - 1)

MInv == IInv /\ MemoryTypeOK /\ PointersFollow /\ WindowIsSlice /\ PointeeBuildsOnGiven

\* A request that goes on reading reads what it would have read before, or the header
\* that has just replaced it in a reorganisation.
PointeesKept ==
    \A r \in Holding : r \in Holding' =>
        \/ Pointee(r)' = Pointee(r)
        \/ PrevBlock(Pointee(r)') = Pointee(r) /\ hashes' = <<Pointee(r)'>>

\* A step on the array is the step on the window it belongs to, and requests do not
\* touch the window (listener.go:62-71, 141-168, 241-252, 283-298).
LEMMA SigHashStep == [SigHashNext]_allVars => [Next]_vars
<1> SUFFICES ASSUME [SigHashNext]_allVars PROVE [Next]_vars
  OBVIOUS
<1>1. CASE NodeStep
  BY <1>1 DEF NodeStep, Next
<1>2. CASE FreeArray
  BY <1>2 DEF FreeArray, Next, Callback, HandleHeaders
<1>3. ASSUME NEW t \in Threads, KeepArray(t) PROVE Next
  BY <1>3 DEF KeepArray, Next, Callback, HandleHeaders, InitializeHeaders
<1>4. ASSUME NEW t \in Threads,
             AppendHeaderTo(t) \/ ReorgHeaderTo(t) \/ TrimArray(t) \/ InstallArray(t)
      PROVE  Next
  <2>1. AppendHeader(t) \/ ReorgHeader(t) \/ TrimHashes(t) \/ InstallHeaders(t)
    BY <1>4 DEF AppendHeaderTo, ReorgHeaderTo, TrimArray, InstallArray
  <2>2. QED
    BY <2>1 DEF Next, Callback, HandleHeaders, InitializeHeaders
<1>5. CASE \E r \in Readers : RecentSigHash(r) \/ Sign(r) \/ Reply(r)
  BY <1>5 DEF RecentSigHash, Sign, Reply
<1>6. CASE UNCHANGED allVars
  BY <1>6 DEF allVars
<1>7. QED
  BY <1>1, <1>2, <1>3, <1>4, <1>5, <1>6 DEF SigHashNext

\* The listener with its memory implements the listener with its window.
THEOREM MemoryKeepsTheWindow == SigHashSpec => Spec
<1>1. SigHashInit => Init
  BY DEF SigHashInit
<1>2. QED
  BY <1>1, SigHashStep, PTL DEF SigHashSpec, Spec

\* So the window never mixes branches, keeps a header, and what is signed is buried,
\* with requests reading its memory (listener.go:30, 139).
THEOREM WindowIsSafeToPointInto ==
    SigHashSpec => [](TypeOK /\ WindowIsAncestry /\ SigHashIsBuried) /\ WindowStaysFilled
BY MemoryKeepsTheWindow, TypeCorrect, WindowNeverMixesBranches, SigHashStaysBuried,
   WindowIsNeverEmptied, PTL

-----------------------------------------------------------------------------
(* The array and the pointers into it.                                      *)

\* Each hash of the window is in its cell.
InCells(w, a, f) == \A i \in 1 .. Len(w) : w[i] = a[f + i - 1]

\* To be a slice of the array is to be in its cells one by one.
LEMMA SliceIsCells ==
    ASSUME NEW w \in Seq(Cell), NEW a \in Seq(Cell), NEW f \in 1 .. Len(a) + 1,
           Len(w) =< Len(a) - f + 1
    PROVE  w = SubSeq(a, f, f + Len(w) - 1) <=> InCells(w, a, f)
<1> DEFINE s == SubSeq(a, f, f + Len(w) - 1)
<1>1. s \in Seq(Cell) /\ Len(s) = Len(w)
  OBVIOUS
<1>2. \A i \in 1 .. Len(w) : s[i] = a[f + i - 1]
  OBVIOUS
<1>3. ASSUME InCells(w, a, f) PROVE w = s
  <2>1. \A i \in 1 .. Len(w) : w[i] = s[i]
    BY <1>2, <1>3 DEF InCells
  <2>2. QED
    BY <1>1, <2>1, SeqEqual
<1>4. QED
  BY <1>2, <1>3 DEF InCells

\* The window and the array, as facts on cells.
LEMMA WindowInCells ==
    ASSUME MInv
    PROVE  /\ hashes \in Seq(Block) /\ hashes \in Seq(Cell) /\ Len(hashes) \in Nat
           /\ Len(hashes) =< Capacity /\ Capacity \in Nat /\ InCells(hashes, array, first)
<1>1. hashes \in Seq(Block) /\ hashes \in Seq(Cell)
  BY DEF MInv, IInv, TypeOK, Cell
<1>2. Len(hashes) =< Capacity /\ Capacity \in Nat
  BY DEF MInv, WindowIsSlice, MemoryTypeOK, Capacity
<1>3. InCells(hashes, array, first)
  BY <1>1, <1>2, SliceIsCells DEF MInv, WindowIsSlice, MemoryTypeOK, Capacity
<1>4. QED
  BY <1>1, <1>2, <1>3

\* Conversely, the parts of MInv that are about the array.
LEMMA CellsMakeWindow ==
    ASSUME IInv', array' \in Seq(Cell), first' \in 1 .. Len(array') + 1,
           Len(hashes') =< Len(array') - first' + 1, InCells(hashes', array', first')
    PROVE  WindowIsSlice'
<1>1. hashes' \in Seq(Cell)
  BY DEF IInv, TypeOK, Cell
<1>2. QED
  BY <1>1, SliceIsCells DEF WindowIsSlice, Capacity

\* A new array: the requests keep the hash they pointed to.
LEMMA AllocateStep ==
    ASSUME MInv, IInv', NEW cells \in Seq(Cell), Allocate(cells),
           Len(hashes') =< Len(cells), InCells(hashes', cells, 1)
    PROVE  MInv' /\ PointeesKept
<1>1. array' = cells /\ first' = 1
  BY DEF Allocate
<1>2. reader \in [Readers -> Locals] /\ \A r \in Holding : Pointee(r) \in Block
  BY DEF MInv, MemoryTypeOK
<1>3. /\ reader' \in [Readers -> Locals]
      /\ \A r \in Readers : r \in Holding' <=> r \in Holding
      /\ \A r \in Holding : /\ reader'[r].cell = NotInArray /\ reader'[r].left = Pointee(r)
                            /\ reader'[r].given = reader[r].given
  BY <1>2 DEF Allocate, Locals, Cell, Holding, NotInArray
<1>4. \A r \in Holding : Pointee(r)' = Pointee(r)
  BY <1>3 DEF Pointee
<1>5. MemoryTypeOK'
  BY <1>1, <1>2, <1>3, <1>4 DEF MemoryTypeOK, MInv, Holding
<1>6. PointersFollow'
  BY <1>1, <1>3 DEF PointersFollow, NotInArray, Holding
<1>7. WindowIsSlice'
  BY <1>1, CellsMakeWindow
<1>8. PointeeBuildsOnGiven'
  BY <1>3, <1>4 DEF PointeeBuildsOnGiven, MInv, Holding
<1>9. QED
  BY <1>4, <1>5, <1>6, <1>7, <1>8 DEF MInv, PointeesKept

\* A write to a cell of the array: only the first cell of the window can be one that
\* a request points to, and then the header written is a child of the one in it.
LEMMA WriteInPlace ==
    ASSUME MInv, IInv', NEW n \in Nat, n =< Len(hashes), n < Capacity, NEW x \in Block,
           array' = [array EXCEPT ![first + n] = x], UNCHANGED <<first, reader>>,
           hashes' = Append(SubSeq(hashes, 1, n), x),
           n = 0 => hashes # <<>> /\ PrevBlock(x) = hashes[1]
    PROVE  MInv' /\ PointeesKept
<1>1. /\ hashes \in Seq(Block) /\ Len(hashes) =< Len(array) - first + 1
      /\ InCells(hashes, array, first)
  BY WindowInCells DEF Capacity
<1>2. /\ array \in Seq(Cell) /\ first \in 1 .. Len(array) + 1
      /\ reader \in [Readers -> Locals]
  BY DEF MInv, MemoryTypeOK
<1>3. first + n \in 1 .. Len(array)
  BY <1>2 DEF Capacity
<1>4. /\ array' \in Seq(Cell) /\ Len(array') = Len(array) /\ array'[first + n] = x
      /\ \A c \in 1 .. Len(array) : c # first + n => array'[c] = array[c]
  BY <1>2, <1>3 DEF Cell
<1>5. /\ Len(hashes') = n + 1 /\ hashes'[n + 1] = x
      /\ \A i \in 1 .. n : hashes'[i] = hashes[i]
  BY <1>1
<1>6. WindowIsSlice'
  <2>1. Len(hashes') =< Len(array') - first' + 1 /\ first' \in 1 .. Len(array') + 1
    BY <1>2, <1>4, <1>5 DEF Capacity
  <2>2. InCells(hashes', array', first')
    <3> SUFFICES ASSUME NEW i \in 1 .. Len(hashes')
                 PROVE  hashes'[i] = array'[first' + i - 1]
      BY DEF InCells
    <3>1. CASE i = n + 1
      <4>1. first' + i - 1 = first + n
        BY <1>2, <3>1
      <4>2. QED
        BY <1>4, <1>5, <3>1, <4>1
    <3>2. CASE i # n + 1
      <4>1. i \in 1 .. n /\ i \in 1 .. Len(hashes)
        BY <1>1, <1>5, <3>2
      <4>2. first + i - 1 \in 1 .. Len(array) /\ first + i - 1 # first + n
        BY <1>2, <1>3, <4>1
      <4>3. hashes[i] = array[first + i - 1]
        BY <1>1, <4>1 DEF InCells
      <4>4. QED
        BY <1>4, <1>5, <4>1, <4>2, <4>3
    <3>3. QED
      BY <3>1, <3>2
  <2>3. QED
    BY <1>4, <2>1, <2>2, CellsMakeWindow
<1>7. ASSUME NEW r \in Holding
      PROVE  /\ Pointee(r) \in Block /\ Pointee(r)' \in Block
             /\ Buries(reader[r].given, Pointee(r)', 0)
             /\ \/ Pointee(r)' = Pointee(r)
                \/ PrevBlock(Pointee(r)') = Pointee(r) /\ hashes' = <<Pointee(r)'>>
  <2>1. /\ r \in Readers /\ reader[r].given \in Block /\ Pointee(r) \in Block
        /\ Buries(reader[r].given, Pointee(r), 0)
        /\ reader[r].cell \in Nat /\ reader[r].cell =< first /\ reader[r].cell =< Len(array)
    BY <1>2 DEF MInv, MemoryTypeOK, PointersFollow, PointeeBuildsOnGiven, Holding, Locals
  <2>2. CASE reader[r].cell # first + n
    <3>1. Pointee(r)' = Pointee(r)
      BY <1>4, <2>1, <2>2 DEF Pointee, NotInArray
    <3>2. QED
      BY <2>1, <3>1
  <2>3. CASE reader[r].cell = first + n
    <3>1. n = 0 /\ reader[r].cell = first /\ reader[r].cell # NotInArray
      BY <1>2, <2>1, <2>3 DEF NotInArray
    <3>2. Pointee(r) = hashes[1] /\ Pointee(r)' = x
      <4>1. Pointee(r) = array[first] /\ Pointee(r)' = array'[first]
        BY <3>1 DEF Pointee
      <4>2. hashes[1] = array[first + 1 - 1]
        BY <1>1, <3>1 DEF InCells
      <4>3. QED
        BY <1>2, <1>4, <3>1, <4>1, <4>2
    <3>3. PrevBlock(x) = Pointee(r)
      BY <3>1, <3>2
    <3>4. Buries(reader[r].given, x, 0 + 1)
      BY <2>1, <3>3, ParentBuries, BuriesTransitive
    <3>5. Buries(reader[r].given, x, 0)
      BY <2>1, <3>4, BuriesWeaken
    <3>6. hashes' = <<x>>
      <4>1. hashes' \in Seq(Block) /\ Len(hashes') = 1 /\ hashes'[1] = x
        BY <1>5, <3>1 DEF IInv, TypeOK
      <4>2. <<x>> \in Seq(Block) /\ Len(<<x>>) = 1 /\ <<x>>[1] = x
        OBVIOUS
      <4>3. \A i \in 1 .. Len(hashes') : hashes'[i] = <<x>>[i]
        BY <4>1, <4>2
      <4>4. QED
        BY <4>1, <4>2, <4>3, SeqEqual
    <3>7. QED
      BY <2>1, <3>2, <3>3, <3>5, <3>6
  <2>4. QED
    BY <2>2, <2>3
<1>8. MemoryTypeOK'
  BY <1>2, <1>4, <1>7 DEF MInv, MemoryTypeOK, Holding
<1>9. PointersFollow'
  BY <1>4 DEF MInv, PointersFollow, Holding
<1>10. PointeeBuildsOnGiven'
  BY <1>7 DEF PointeeBuildsOnGiven, Holding
<1>11. QED
  BY <1>6, <1>7, <1>8, <1>9, <1>10 DEF MInv, PointeesKept

\* The cells that a new array has to spare.
LEMMA EmptyCells ==
    ASSUME NEW S, NEW c \in S, NEW m \in Int PROVE [i \in 1 .. m |-> c] \in Seq(S)
<1>1. CASE m \in Nat
  BY <1>1
<1>2. CASE m \notin Nat
  <2>1. 1 .. m = 1 .. 0
    BY <1>2
  <2>2. [i \in 1 .. 0 |-> c] \in Seq(S)
    OBVIOUS
  <2>3. QED
    BY <2>1, <2>2
<1>3. QED
  BY <1>1, <1>2

\* A full array is copied to one with room for more: its slice is the window, and the
\* header is put behind it.
LEMMA GrowArray ==
    ASSUME MInv, IInv', NEW n \in Nat, n =< Len(hashes), n = Capacity, NEW x \in Block,
           Allocate(Grown(Append(SubSeq(array, first, Len(array)), x))),
           hashes' = Append(SubSeq(hashes, 1, n), x)
    PROVE  MInv' /\ PointeesKept
<1> DEFINE s == SubSeq(array, first, Len(array))
           a == Append(s, x)
           room == [i \in 1 .. (Len(a) - 2) |-> NoBlock]
<1>1. /\ hashes \in Seq(Block) /\ Len(hashes) = n
      /\ InCells(hashes, array, first)
  BY WindowInCells
<1>2. /\ array \in Seq(Cell) /\ first \in 1 .. Len(array) + 1 /\ Len(array) = first + n - 1
  BY DEF MInv, MemoryTypeOK, Capacity
<1>3. s \in Seq(Cell) /\ Len(s) = n /\ \A i \in 1 .. n : s[i] = array[first + i - 1]
  <2>1. Len(array) \in Nat /\ first \in Nat
    BY <1>2
  <2>2. s \in Seq(Cell)
    BY <1>2
  <2>3. Len(s) = n
    BY <1>2, <2>1
  <2>4. \A i \in 1 .. n : s[i] = array[first + i - 1]
    BY <1>2, <2>1
  <2>5. QED
    BY <2>2, <2>3, <2>4
<1>4. /\ a \in Seq(Cell) /\ Len(a) = n + 1 /\ a[n + 1] = x
      /\ \A i \in 1 .. n : a[i] = array[first + i - 1]
  <2> HIDE DEF s
  <2> QED BY <1>3 DEF Cell
<1>5. room \in Seq(Cell)
  <2>1. Len(a) - 2 \in Int /\ NoBlock \in Cell
    <3> HIDE DEF a
    <3> QED BY <1>4 DEF Cell
  <2>2. QED
    BY <2>1, EmptyCells
<1> HIDE DEF room, a
<1>6. /\ Grown(a) \in Seq(Cell) /\ Len(Grown(a)) >= n + 1
      /\ \A i \in 1 .. n + 1 : Grown(a)[i] = a[i]
  <2>1. Grown(a) = a \o room
    BY DEF Grown, room
  <2>2. QED
    BY <1>4, <1>5, <2>1
<1>7. /\ Len(hashes') = n + 1 /\ hashes'[n + 1] = x
      /\ \A i \in 1 .. n : hashes'[i] = hashes[i]
  BY <1>1
<1>8. InCells(hashes', Grown(a), 1)
  <2>1. \A i \in 1 .. n : hashes[i] = array[first + i - 1]
    BY <1>1 DEF InCells
  <2>2. \A i \in 1 .. n + 1 : hashes'[i] = Grown(a)[i]
    BY <1>4, <1>6, <1>7, <2>1
  <2>3. QED
    BY <1>7, <2>2 DEF InCells
<1>9. QED
  BY <1>6, <1>7, <1>8, AllocateStep DEF a

\* append, in place or not.
LEMMA AppendToStep ==
    ASSUME MInv, IInv', NEW n \in Nat, n =< Len(hashes), NEW x \in Block, AppendTo(n, x),
           hashes' = Append(SubSeq(hashes, 1, n), x),
           n = 0 => hashes # <<>> /\ PrevBlock(x) = hashes[1]
    PROVE  MInv' /\ PointeesKept
<1>1. CASE n < Capacity /\ array' = [array EXCEPT ![first + n] = x] /\ UNCHANGED <<first, reader>>
  BY <1>1, WriteInPlace
<1>2. CASE n = Capacity /\ Allocate(Grown(Append(SubSeq(array, first, Len(array)), x)))
  BY <1>2, GrowArray
<1>3. QED
  BY <1>1, <1>2 DEF AppendTo

-----------------------------------------------------------------------------
(* The steps.                                                               *)

LEMMA AppendHeaderToStep ==
    ASSUME MInv, IInv', NEW t \in Threads, AppendHeaderTo(t) PROVE MInv' /\ PointeesKept
<1> DEFINE x == Head(batch[t])
<1>1. pc[t] = "loop" /\ batch[t] # <<>> /\ hashes' = Append(hashes, x) /\ AppendTo(Len(hashes), x)
  BY DEF AppendHeaderTo, AppendHeader, NextHeader
<1>2. x \in Block /\ hashes \in Seq(Block) /\ hashes # <<>>
  BY <1>1 DEF MInv, IInv, TypeOK, LatestIsNewest
<1>3. Len(hashes) \in Nat /\ Len(hashes) # 0 /\ SubSeq(hashes, 1, Len(hashes)) = hashes
  BY <1>2
<1> HIDE DEF x
<1>4. QED
  BY <1>1, <1>2, <1>3, AppendToStep

LEMMA ReorgHeaderToStep ==
    ASSUME MInv, IInv', NEW t \in Threads, ReorgHeaderTo(t) PROVE MInv' /\ PointeesKept
<1> DEFINE x == Head(batch[t])
<1>1. PICK i \in 1 .. Len(hashes) :
        NextHeader(t, hashes[i]) /\ hashes' = Append(SubSeq(hashes, 1, i - 1), x)
  BY DEF ReorgHeaderTo, ReorgHeader
<1>2. batch[t] # <<>> /\ PrevBlock(x) = hashes[i] /\ AppendTo(Len(hashes') - 1, x)
  BY <1>1 DEF ReorgHeaderTo, NextHeader
<1>3. x \in Block /\ hashes \in Seq(Block) /\ hashes # <<>>
  BY <1>1, <1>2 DEF MInv, IInv, TypeOK
<1> HIDE DEF x
<1>4. Len(hashes') - 1 = i - 1 /\ i - 1 \in Nat /\ i - 1 =< Len(hashes)
  BY <1>1, <1>3
<1>5. AppendTo(i - 1, x) /\ (i - 1 = 0 => PrevBlock(x) = hashes[1])
  BY <1>2, <1>4
<1>6. QED
  BY <1>1, <1>3, <1>4, <1>5, AppendToStep

\* The cells before the new start of the window are not written any more.
LEMMA TrimArrayStep ==
    ASSUME MInv, IInv', NEW t \in Threads, TrimArray(t) PROVE MInv' /\ PointeesKept
<1>1. /\ hashes \in Seq(Block) /\ Len(hashes) > Offset /\ Len(hashes) =< Len(array) - first + 1
      /\ InCells(hashes, array, first)
  BY WindowInCells DEF TrimArray, TrimHashes, Capacity
<1>2. /\ hashes' = SubSeq(hashes, Len(hashes) - Offset + 1, Len(hashes))
      /\ first' = first + Len(hashes) - Offset /\ UNCHANGED <<array, reader>>
  BY DEF TrimArray, TrimHashes
<1>3. array \in Seq(Cell) /\ first \in 1 .. Len(array) + 1
  BY DEF MInv, MemoryTypeOK
<1>4. first' \in 1 .. Len(array) + 1 /\ first =< first'
  BY <1>1, <1>2, <1>3
<1>5. Len(hashes') = Offset /\ \A i \in 1 .. Offset : hashes'[i] = hashes[Len(hashes) - Offset + i]
  BY <1>1, <1>2
<1>6. WindowIsSlice'
  <2>1. Len(hashes') =< Len(array') - first' + 1
    BY <1>1, <1>2, <1>3, <1>5
  <2>2. InCells(hashes', array', first')
    <3> SUFFICES ASSUME NEW i \in 1 .. Offset PROVE hashes'[i] = array[first' + i - 1]
      BY <1>2, <1>5 DEF InCells
    <3>1. Len(hashes) - Offset + i \in 1 .. Len(hashes)
      BY <1>1
    <3>2. hashes[Len(hashes) - Offset + i] = array[first + (Len(hashes) - Offset + i) - 1]
      BY <1>1, <3>1 DEF InCells
    <3>3. first + (Len(hashes) - Offset + i) - 1 = first' + i - 1
      BY <1>1, <1>2, <1>3
    <3>4. QED
      BY <1>5, <3>2, <3>3
  <2>3. QED
    BY <1>2, <1>3, <1>4, <2>1, <2>2, CellsMakeWindow
<1>7. /\ \A r \in Readers : r \in Holding' <=> r \in Holding
      /\ \A r \in Holding : Pointee(r)' = Pointee(r)
  BY <1>2 DEF Holding, Pointee
<1>8. MemoryTypeOK' /\ PointeeBuildsOnGiven'
  BY <1>2, <1>4, <1>7 DEF MInv, MemoryTypeOK, PointeeBuildsOnGiven, Holding
<1>9. PointersFollow'
  <2>1. \A r \in Holding : reader[r].cell \in Nat
    BY DEF MInv, MemoryTypeOK, Holding, Locals
  <2>2. QED
    BY <1>1, <1>2, <1>3, <1>4, <1>7, <2>1 DEF MInv, PointersFollow, Holding
<1>10. QED
  BY <1>6, <1>7, <1>8, <1>9 DEF MInv, PointeesKept

LEMMA InstallArrayStep ==
    ASSUME MInv, IInv', NEW t \in Threads, InstallArray(t) PROVE MInv' /\ PointeesKept
<1> DEFINE b == batch[t]
<1>1. b \in Seq(Block) /\ hashes' = b /\ Allocate(b)
  BY DEF InstallArray, InstallHeaders, MInv, IInv, TypeOK
<1> HIDE DEF b
<1>2. b \in Seq(Cell) /\ Len(hashes') =< Len(b) /\ InCells(hashes', b, 1)
  BY <1>1 DEF Cell, InCells
<1>3. QED
  BY <1>1, <1>2, AllocateStep

\* With the process, its memory and its requests are gone.
LEMMA FreeArrayStep == ASSUME MInv, IInv', FreeArray PROVE MInv' /\ PointeesKept
<1>1. /\ hashes' = <<>> /\ array' = <<>> /\ first' = 1
      /\ reader' = [r \in Readers |-> NoRead]
  BY DEF FreeArray, Crash, Panic, Die
<1>2. Holding' = {}
  BY <1>1 DEF Holding, NoRead
<1>3. NoBlock \in Cell
  BY DEF Cell
<1>4. MemoryTypeOK'
  BY <1>1, <1>2, <1>3, EmptySeq DEF MemoryTypeOK, NoRead, Locals, NotInArray
<1>5. WindowIsSlice'
  BY <1>1 DEF WindowIsSlice, Capacity
<1>6. QED
  BY <1>2, <1>4, <1>5 DEF MInv, PointersFollow, PointeeBuildsOnGiven, PointeesKept

\* A step that leaves the window and its memory as they are.
LEMMA MemoryStays ==
    ASSUME MInv, IInv', UNCHANGED <<hashes, array, first, reader>> PROVE MInv' /\ PointeesKept
<1>1. MemoryTypeOK' /\ PointersFollow' /\ PointeeBuildsOnGiven'
  BY DEF MInv, MemoryTypeOK, PointersFollow, PointeeBuildsOnGiven, Holding, Pointee
<1>2. WindowIsSlice'
  BY DEF MInv, WindowIsSlice, Capacity
<1>3. QED
  BY <1>1, <1>2 DEF MInv, PointeesKept, Holding, Pointee

\* What the pointer among a request's locals points to.
Target(local) == IF local.cell = NotInArray THEN local.left ELSE array[local.cell]

\* A step of one request.
LEMMA ReaderStep ==
    ASSUME MInv, IInv', UNCHANGED <<hashes, array, first>>, NEW r \in Readers,
           NEW local \in Locals, reader' = [reader EXCEPT ![r] = local],
           local.at # "idle" =>
              /\ local.cell =< first /\ local.cell =< Len(array) /\ local.given \in Block
              /\ Target(local) \in Block /\ Buries(local.given, Target(local), 0)
              /\ r \in Holding => Target(local) = Pointee(r)
    PROVE  MInv' /\ PointeesKept
<1>1. reader' \in [Readers -> Locals] /\ reader'[r] = local
  BY DEF MInv, MemoryTypeOK
<1>2. \A q \in Readers : q # r => reader'[q] = reader[q]
  BY DEF MInv, MemoryTypeOK
<1>3. ASSUME NEW q \in Holding'
      PROVE  /\ reader'[q].given \in Block /\ Pointee(q)' \in Block
             /\ reader'[q].cell =< first /\ reader'[q].cell =< Len(array)
             /\ Buries(reader'[q].given, Pointee(q)', 0)
             /\ q \in Holding => Pointee(q)' = Pointee(q)
  <2>1. CASE q = r
    <3>1. Pointee(r)' = Target(local) /\ reader'[q] = local /\ local.at # "idle"
      BY <1>1, <1>3, <2>1 DEF Holding, Pointee, Target
    <3>2. QED
      BY <2>1, <3>1
  <2>2. CASE q # r
    <3>1. q \in Holding /\ reader'[q] = reader[q] /\ Pointee(q)' = Pointee(q)
      BY <1>2, <1>3, <2>2 DEF Holding, Pointee
    <3>2. QED
      BY <3>1 DEF MInv, MemoryTypeOK, PointersFollow, PointeeBuildsOnGiven
  <2>3. QED
    BY <2>1, <2>2
<1>4. MemoryTypeOK'
  BY <1>1, <1>3 DEF MInv, MemoryTypeOK
<1>5. PointersFollow' /\ PointeeBuildsOnGiven'
  BY <1>3 DEF PointersFollow, PointeeBuildsOnGiven
<1>6. WindowIsSlice'
  BY DEF MInv, WindowIsSlice, Capacity
<1>7. QED
  BY <1>3, <1>4, <1>5, <1>6 DEF MInv, PointeesKept

\* RecentSigHash points to the first cell of a full window.
LEMMA RecentSigHashStep ==
    ASSUME MInv, IInv', NEW r \in Readers, RecentSigHash(r) PROVE MInv' /\ PointeesKept
<1> DEFINE local == [NoRead EXCEPT !.at = "sign", !.cell = first, !.given = array[first]]
<1>1. /\ r \notin Holding /\ Len(hashes) = Offset /\ reader' = [reader EXCEPT ![r] = local]
      /\ UNCHANGED <<hashes, array, first>>
  BY DEF RecentSigHash, SigHashReady, vars, window, memory
<1>2. /\ hashes \in Seq(Block) /\ Len(hashes) =< Len(array) - first + 1
      /\ InCells(hashes, array, first) /\ array \in Seq(Cell) /\ first \in 1 .. Len(array) + 1
  BY WindowInCells DEF Capacity, MInv, MemoryTypeOK
<1>3. first \in 1 .. Len(array) /\ array[first] = hashes[1] /\ hashes[1] \in Block
  <2>1. 1 \in 1 .. Len(hashes) /\ first \in 1 .. Len(array)
    BY <1>1, <1>2
  <2>2. hashes[1] = array[first + 1 - 1] /\ first + 1 - 1 = first
    BY <1>2, <2>1 DEF InCells
  <2>3. QED
    BY <1>2, <2>1, <2>2
<1>4. /\ local.at = "sign" /\ local.cell = first /\ local.given = array[first]
      /\ local \in Locals /\ Target(local) = hashes[1]
  <2>1. first \in Nat /\ first # 0 /\ array[first] \in Cell /\ NoBlock \in Cell
    BY <1>2, <1>3 DEF Cell
  <2>2. /\ local.at = "sign" /\ local.cell = first /\ local.given = array[first]
        /\ local \in Locals
    BY <2>1 DEF NoRead, Locals, NotInArray
  <2>3. QED
    BY <1>3, <2>1, <2>2 DEF Target, NotInArray
<1>5. Buries(hashes[1], hashes[1], 0)
  BY <1>3 DEF Buries, Block, BlockAt
<1> HIDE DEF local
<1>6. QED
  <2>1. local.cell =< first /\ local.cell =< Len(array) /\ local.given \in Block
    BY <1>2, <1>3, <1>4
  <2>2. QED
    BY <1>1, <1>3, <1>4, <1>5, <2>1, ReaderStep

\* Reading changes no pointer and no cell.
LEMMA ReadStep ==
    ASSUME MInv, IInv', NEW r \in Readers, Sign(r) \/ Reply(r) PROVE MInv' /\ PointeesKept
<1>1. UNCHANGED <<hashes, array, first>>
  BY DEF Sign, Reply, vars, window, memory
<1>2. r \in Holding /\ reader[r] \in Locals
  BY DEF Sign, Reply, Holding, MInv, MemoryTypeOK
<1>3. /\ reader[r].given \in Block /\ Pointee(r) \in Block
      /\ reader[r].cell =< first /\ reader[r].cell =< Len(array)
      /\ Buries(reader[r].given, Pointee(r), 0)
  BY <1>2 DEF MInv, MemoryTypeOK, PointersFollow, PointeeBuildsOnGiven
<1>4. CASE Sign(r)
  <2>1. PICK x \in Reads(r) :
          reader' = [reader EXCEPT ![r] = [reader[r] EXCEPT !.at = "reply", !.signed = x]]
    BY <1>2, <1>4 DEF Sign, Locals, MInv, MemoryTypeOK
  <2> DEFINE local == [reader[r] EXCEPT !.at = "reply", !.signed = x]
  <2>2. x \in Cell \union {Torn}
    BY <1>3, <2>1 DEF Reads, Cell
  <2>3. /\ local \in Locals /\ local.cell = reader[r].cell /\ local.left = reader[r].left
        /\ local.given = reader[r].given
    BY <1>2, <2>2 DEF Locals
  <2>4. reader' = [reader EXCEPT ![r] = local]
    BY <2>1
  <2> HIDE DEF local
  <2>5. Target(local) = Pointee(r)
    BY <2>3 DEF Pointee, Target
  <2>6. QED
    BY <1>1, <1>3, <2>3, <2>4, <2>5, ReaderStep
<1>5. CASE Reply(r)
  <2>1. PICK agree \in BOOLEAN : reader' = [reader EXCEPT ![r] = [NoRead EXCEPT !.agree = agree]]
    BY <1>5 DEF Reply
  <2> DEFINE local == [NoRead EXCEPT !.agree = agree]
  <2>2. local \in Locals /\ local.at = "idle"
    BY DEF NoRead, Locals, Cell, NotInArray
  <2> HIDE DEF local
  <2>3. QED
    BY <1>1, <2>1, <2>2, ReaderStep DEF local
<1>6. QED
  BY <1>4, <1>5

LEMMA InitMInv == SigHashInit => MInv
<1> SUFFICES ASSUME SigHashInit PROVE MInv
  OBVIOUS
<1>1. IInv /\ hashes = <<>> /\ array = <<>> /\ first = 1 /\ reader = [r \in Readers |-> NoRead]
  BY InitIInv DEF SigHashInit, Init
<1>2. Holding = {}
  BY <1>1 DEF Holding, NoRead
<1>3. MemoryTypeOK
  BY <1>1, <1>2, EmptySeq DEF MemoryTypeOK, NoRead, Locals, Cell, NotInArray
<1>4. WindowIsSlice
  BY <1>1 DEF WindowIsSlice, Capacity
<1>5. QED
  BY <1>1, <1>2, <1>3, <1>4 DEF MInv, PointersFollow, PointeeBuildsOnGiven

LEMMA NextMInv == MInv /\ [SigHashNext]_allVars => MInv' /\ PointeesKept
<1> SUFFICES ASSUME MInv, [SigHashNext]_allVars PROVE MInv' /\ PointeesKept
  OBVIOUS
<1>0. IInv'
  BY SigHashStep, NextIInv DEF MInv
<1>1. CASE NodeStep /\ UNCHANGED <<memory, reader>>
  <2>1. UNCHANGED hashes
    BY <1>1 DEF NodeStep, ChainGrows, Connect, Disconnect, Start, window
  <2>2. QED
    BY <1>0, <1>1, <2>1, MemoryStays DEF memory
<1>2. CASE FreeArray
  BY <1>0, <1>2, FreeArrayStep
<1>3. ASSUME NEW t \in Threads, KeepArray(t), UNCHANGED <<memory, reader>>
      PROVE  MInv' /\ PointeesKept
  <2>1. UNCHANGED hashes
    BY <1>3 DEF KeepArray, AcceptRegister, Receive, LockWindow, SkipHeader, Unlock,
                KeepHashes, GetHeaders, GetNoHeaders, window
  <2>2. QED
    BY <1>0, <1>3, <2>1, MemoryStays DEF memory
<1>4. ASSUME NEW t \in Threads,
             AppendHeaderTo(t) \/ ReorgHeaderTo(t) \/ TrimArray(t) \/ InstallArray(t)
      PROVE  MInv' /\ PointeesKept
  BY <1>0, <1>4, AppendHeaderToStep, ReorgHeaderToStep, TrimArrayStep, InstallArrayStep
<1>5. ASSUME NEW r \in Readers, RecentSigHash(r) \/ Sign(r) \/ Reply(r)
      PROVE  MInv' /\ PointeesKept
  BY <1>0, <1>5, RecentSigHashStep, ReadStep
<1>6. CASE UNCHANGED allVars
  BY <1>0, <1>6, MemoryStays DEF allVars, vars, window, memory
<1>7. QED
  BY <1>1, <1>2, <1>3, <1>4, <1>5, <1>6 DEF SigHashNext

THEOREM MemoryInvariance == SigHashSpec => []MInv
BY InitMInv, NextMInv, PTL DEF SigHashSpec

\* What a request reads through its pointer is the block RecentSigHash gave it or one
\* mined on top of that, however long it holds the pointer (listener.go:70).
THEOREM PointersStayOnTheirChain == SigHashSpec => []PointeeBuildsOnGiven
<1>1. MInv => PointeeBuildsOnGiven
  BY DEF MInv
<1>2. QED
  BY <1>1, MemoryInvariance, PTL

\* A hash that a request points to changes in a reorganisation at that very block, and
\* in no other step (listener.go:158-162).
THEOREM PointeesChangeInReorgsOnly == SigHashSpec => OnlyReorgOverwrites
<1> DEFINE A == \A r \in Holding : r \in Holding' /\ Pointee(r)' # Pointee(r) =>
                    PrevBlock(Pointee(r)') = Pointee(r) /\ hashes' = <<Pointee(r)'>>
<1>1. MInv /\ [SigHashNext]_allVars => [A]_allVars
  BY NextMInv DEF PointeesKept
<1>2. QED
  BY <1>1, MemoryInvariance, PTL DEF SigHashSpec, OnlyReorgOverwrites
=============================================================================
