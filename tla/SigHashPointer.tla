--------------------------- MODULE SigHashPointer ---------------------------
(***************************************************************************)
(* The memory under the header window.  RecentSigHash                      *)
(* (internal/oracle/listener.go) returns &l.hashes[0], a pointer into the  *)
(* array of the slice, and unlocks.  A request reads through it twice, for *)
(* the hash it signs and for the hash it returns (transfer.go, and alike   *)
(* in identity.go), while callbacks go on writing to the array.            *)
(*                                                                         *)
(* HeaderListener has the window as a sequence; here each of its steps     *)
(* also does to the array what Go's append, slicing and make do.           *)
(***************************************************************************)
EXTENDS HeaderListener

CONSTANTS
    Readers,   \* request goroutines
    Torn       \* bytes of two hashes, read while one overwrites the other

ASSUME TornAssumption == Torn \notin Block \union {NoBlock}

VARIABLES
    array,     \* the array under l.hashes; NoBlock in cells not written yet
    first,     \* the cell l.hashes[0] is in
    reader     \* the locals of each request

memory == <<array, first>>
allVars == <<vars, memory, reader>>

\* A pointer is a cell of the array, or what it points to in an array the window
\* has left: nothing writes to that any more.
NotInArray == 0
NoRead == [at |-> "idle", cell |-> NotInArray, left |-> NoBlock, given |-> NoBlock,
           signed |-> NoBlock, agree |-> TRUE]

Holding == {r \in Readers : reader[r].at # "idle"}
Pointee(r) == IF reader[r].cell = NotInArray THEN reader[r].left ELSE array[reader[r].cell]

SigHashInit ==
    /\ Init /\ array = <<>> /\ first = 1 /\ reader = [r \in Readers |-> NoRead]

-----------------------------------------------------------------------------
(* Slices.                                                                  *)

Capacity == Len(array) - first + 1

\* append doubles the capacity of a full slice of this size.
Grown(cells) == cells \o [i \in 1 .. (Len(cells) - 2) |-> NoBlock]

\* The window moves to a new array.
Allocate(cells) ==
    /\ array' = cells /\ first' = 1
    /\ reader' = [r \in Readers |->
        IF r \in Holding THEN [reader[r] EXCEPT !.cell = NotInArray, !.left = Pointee(r)]
        ELSE reader[r]]

\* append(l.hashes[:n], x): in place while there is room, whoever points there.
AppendTo(n, x) ==
    \/ /\ n < Capacity /\ array' = [array EXCEPT ![first + n] = x]
       /\ UNCHANGED <<first, reader>>
    \/ /\ n = Capacity
       /\ Allocate(Grown(Append(SubSeq(array, first, Len(array)), x)))

AppendHeaderTo(t) == AppendHeader(t) /\ AppendTo(Len(hashes), Head(batch[t]))

ReorgHeaderTo(t) == ReorgHeader(t) /\ AppendTo(Len(hashes') - 1, Head(batch[t]))

\* Mutant: the kept hashes are moved down to the start of the array.
TrimArrayMovingDown(t) ==
    /\ TrimHashes(t) /\ UNCHANGED <<first, reader>>
    /\ array' = [i \in 1 .. Len(array) |->
        IF i >= first /\ i < first + Offset THEN array[i + Len(hashes) - Offset] ELSE array[i]]

\* l.hashes[trimCount:]
TrimArray(t) ==
    /\ TrimHashes(t) /\ first' = first + Len(hashes) - Offset /\ UNCHANGED <<array, reader>>

\* Mutant: the headers are written to the array there is.
InstallArrayInPlace(t) ==
    /\ InstallHeaders(t)
    /\ IF Len(batch[t]) =< Capacity
       THEN /\ array' = [i \in 1 .. Len(array) |->
                    IF i >= first /\ i < first + Len(batch[t]) THEN batch[t][i - first + 1]
                    ELSE array[i]]
            /\ UNCHANGED <<first, reader>>
       ELSE Allocate(batch[t])

\* make([]bitcoin.Hash32, len(headers.Headers))
InstallArray(t) == InstallHeaders(t) /\ Allocate(batch[t])

\* The requests end with the process.
FreeArray ==
    /\ Crash \/ \E t \in Threads : Panic(t)
    /\ array' = <<>> /\ first' = 1 /\ reader' = [r \in Readers |-> NoRead]

-----------------------------------------------------------------------------
(* A request that signs.                                                    *)

RecentSigHash(r) ==
    /\ up /\ r \notin Holding /\ SigHashReady
    /\ reader' = [reader EXCEPT ![r] =
        [NoRead EXCEPT !.at = "sign", !.cell = first, !.given = array[first]]]
    /\ UNCHANGED <<vars, memory>>

\* A callback is just writing to this cell: a header replaces the one it follows.
BeingWritten(cell) ==
    \E t \in Threads, i \in 1 .. Len(hashes) :
        /\ pc[t] = "loop" /\ batch[t] # <<>> /\ PrevBlock(Head(batch[t])) # latest[t]
        /\ PrevBlock(Head(batch[t])) = hashes[i] /\ cell = first + i - 1

\* What a read through the pointer returns; it does not take hashesLock.
Reads(r) == {Pointee(r)} \union (IF BeingWritten(reader[r].cell) THEN {Torn} ELSE {})

\* The hash in the signature: TransferOracleSigHash(..., *blockHash, ...).
Sign(r) ==
    /\ reader[r].at = "sign"
    /\ \E x \in Reads(r) : reader' = [reader EXCEPT ![r].at = "reply", ![r].signed = x]
    /\ UNCHANGED <<vars, memory>>

\* The hash in the reply: return sigHash, height, *blockHash, nil.
Reply(r) ==
    /\ reader[r].at = "reply"
    /\ \E x \in Reads(r) :
        reader' = [reader EXCEPT ![r] = [NoRead EXCEPT !.agree = (x = reader[r].signed)]]
    /\ UNCHANGED <<vars, memory>>

-----------------------------------------------------------------------------
\* The steps of the node and of callbacks that leave the array alone.
NodeStep ==
    \/ \E b \in Branches, h \in 0 .. MaxHeight : ChainGrows(b, h)
    \/ Connect \/ Disconnect \/ Start

KeepArray(t) ==
    \/ AcceptRegister(t) \/ Receive(t) \/ LockWindow(t) \/ SkipHeader(t) \/ Unlock(t)
    \/ KeepHashes(t) \/ GetHeaders(t) \/ GetNoHeaders(t)

SigHashNext ==
    \/ NodeStep /\ UNCHANGED <<memory, reader>>
    \/ FreeArray
    \/ \E t \in Threads :
        \/ KeepArray(t) /\ UNCHANGED <<memory, reader>>
        \/ AppendHeaderTo(t) \/ ReorgHeaderTo(t) \/ TrimArray(t) \/ InstallArray(t)
    \/ \E r \in Readers : RecentSigHash(r) \/ Sign(r) \/ Reply(r)

SigHashSpec == SigHashInit /\ [][SigHashNext]_allVars

-----------------------------------------------------------------------------
(* Properties.                                                              *)

\* The hash under a request's pointer changes in one case only: a reorganisation
\* at that very block, whose first header takes its cell (listener.go:158-162).
\* Growing and trimming the window, and fetching a new one, leave it alone.
OnlyReorgOverwrites ==
    [][\A r \in Holding : r \in Holding' /\ Pointee(r)' # Pointee(r) =>
            PrevBlock(Pointee(r)') = Pointee(r) /\ hashes' = <<Pointee(r)'>>]_allVars

\* What a request reads (if whole) is the block it was given or one that was mined
\* on top of it: never one of a branch it was not given (listener.go:70).
PointeeBuildsOnGiven ==
    \A r \in Holding : Buries(reader[r].given, Pointee(r), 0)

\* The hash that is returned is the "block hash included in signature hash"
\* (transfer.go:18).
ReturnedHashIsSigned == \A r \in Readers : reader[r].agree
=============================================================================
