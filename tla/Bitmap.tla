------------------------------- MODULE Bitmap -------------------------------
(***************************************************************************)
(* The bitmap of CommonLib (bitmap.c) as a function from bit indices to    *)
(* BOOLEAN.  Indices are DWORDs: MAX_DWORD doubles as "not found".         *)
(***************************************************************************)
EXTENDS Integers

CONSTANT MAX_DWORD

ASSUME DwordAssumption == MAX_DWORD \in Nat \ {0}

\* A bitmap of BitCount bits.
IsBitmap(b) == \E n \in 1 .. MAX_DWORD - 1 : b \in [0 .. n - 1 -> BOOLEAN]

\* BitmapPreinit and BitmapInitEx(Set): the padding of the last byte is not indexed.
BitmapInit(BitCount, Set) == [i \in 0 .. BitCount - 1 |-> Set]

BitCount(b) == CHOOSE n \in 0 .. MAX_DWORD : DOMAIN b = 0 .. n - 1

\* _BitmapChangeBits
ChangeBits(b, Index, Set, Count) ==
    [i \in DOMAIN b |-> IF Index <= i /\ i < Index + Count THEN Set ELSE b[i]]

\* The assertions of BitmapSetBitsValue.  BitCount - Count is a DWORD and wraps.
CanSetBits(b, Index, Count) ==
    /\ Index < BitCount(b)
    /\ (BitCount(b) - Count) % (MAX_DWORD + 1) >= Index

\* Mutant: the last position is left out.
ScanStopsEarly(b, StartIndex, FirstInvalidBitIndex, ConsecutiveBits, Set) ==
    LET lastIndex == FirstInvalidBitIndex - ConsecutiveBits
        scan[i \in 0 .. lastIndex] ==
            IF i >= lastIndex THEN MAX_DWORD
            ELSE IF \A j \in 0 .. ConsecutiveBits - 1 : b[i + j] = Set THEN i
            ELSE scan[i + 1]
    IN IF FirstInvalidBitIndex - StartIndex < ConsecutiveBits THEN MAX_DWORD ELSE scan[StartIndex]

\* _BitmapScanInternal
ScanInternal(b, StartIndex, FirstInvalidBitIndex, ConsecutiveBits, Set) ==
    LET lastIndex == FirstInvalidBitIndex - ConsecutiveBits
        scan[i \in 0 .. lastIndex + 1] ==
            IF i > lastIndex THEN MAX_DWORD
            ELSE IF \A j \in 0 .. ConsecutiveBits - 1 : b[i + j] = Set THEN i
            ELSE scan[i + 1]
    IN IF FirstInvalidBitIndex - StartIndex < ConsecutiveBits THEN MAX_DWORD ELSE scan[StartIndex]

\* BitmapScanFromTo (BitmapScan and BitmapScanFrom pass 0 and BitCount)
ScanFromTo(b, Index, FirstInvalidBitIndex, ConsecutiveBits, Set) ==
    IF \/ ConsecutiveBits = 0
       \/ Index > FirstInvalidBitIndex
       \/ FirstInvalidBitIndex > BitCount(b)
    THEN MAX_DWORD
    ELSE ScanInternal(b, Index, FirstInvalidBitIndex, ConsecutiveBits, Set)

\* The bitmap BitmapScanFromToAndFlip leaves when its scan returned idx.
Flip(b, idx, ConsecutiveBits, Set) ==
    IF idx = MAX_DWORD THEN b ELSE ChangeBits(b, idx, ~Set, ConsecutiveBits)

----------------------------------------------------------------------------
\* What a scan promises: the first run of ConsecutiveBits bits equal to Set that
\* lies between Index and FirstInvalidBitIndex, MAX_DWORD if there is none.
Runs(b, Index, FirstInvalidBitIndex, ConsecutiveBits, Set) ==
    {i \in DOMAIN b : /\ ConsecutiveBits > 0
                      /\ Index <= i /\ i + ConsecutiveBits <= FirstInvalidBitIndex
                      /\ \A k \in i .. i + ConsecutiveBits - 1 : k \in DOMAIN b /\ b[k] = Set}

IsFirstRun(idx, b, Index, FirstInvalidBitIndex, ConsecutiveBits, Set) ==
    LET runs == Runs(b, Index, FirstInvalidBitIndex, ConsecutiveBits, Set)
    IN IF runs = {} THEN idx = MAX_DWORD ELSE idx \in runs /\ \A i \in runs : idx <= i

=============================================================================
