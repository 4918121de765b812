----------------------------- MODULE FloatSizes -----------------------------
(***************************************************************************)
(* The arithmetic klb_image_header and klb_imageIO do on sizes: quotients  *)
(* of floats, products of 32 bits, products of ints.  The widths are       *)
(* parameters, so that small ones bring the limits within reach of small   *)
(* images: a float has 24 bits of mantissa, an integer 32 bits.            *)
(***************************************************************************)
EXTENDS Products, FiniteSetsExt, SequencesExt

CONSTANTS Mantissa, Bits,
          CompressionOverhead   \* bytes a block may grow by: 50

\* The powers of 2 that occur.
Pow2[k \in 0 .. Bits + 2] == IF k = 0 THEN 1 ELSE 2 * Pow2[k - 1]

ASSUME FloatSizesAssumption ==
    /\ Mantissa \in Nat \ {0} /\ Bits \in Nat /\ Bits > Mantissa
    /\ CompressionOverhead \in 0 .. Pow2[Bits]

Exact == Pow2[Mantissa]         \* up to here every integer is a float
UInt == Pow2[Bits]
Words == 0 .. UInt - 1          \* what 32 bits hold
IntMax == UInt \div 2 - 1

Ceil(a, b) == (a + b - 1) \div b
Smaller(a, b) == IF a < b THEN a ELSE b
Larger(a, b) == IF a > b THEN a ELSE b

\* The integer nearest to a / b, the even one of two.
Nearest(a, b) ==
    LET q == a \div b
        r == 2 * (a % b)
    IN  IF r < b \/ (r = b /\ q % 2 = 0) THEN q ELSE q + 1

\* How many halvings bring a / b below Exact, and doublings above half of it.
Halvings(a, b) == Min({k \in 0 .. Bits + 2 - Mantissa : a < b * Exact * Pow2[k]})
Doublings(a, b) == Max({k \in 0 .. Mantissa : a * Pow2[k] < b * Exact})

\* (float)n of an integer.
ToFloat(n) == LET k == Halvings(n, 1) IN Nearest(n, Pow2[k]) * Pow2[k]

\* ceil(a / b) of floats that are integers, b at most a: the quotient is rounded first.
CeilQuotient(a, b) ==
    LET k == Halvings(a, b)
        d == Doublings(a, b)
    IN  IF k > 0 THEN Nearest(a, b * Pow2[k]) * Pow2[k]
        ELSE Ceil(Nearest(a * Pow2[d], b), Pow2[d])

-----------------------------------------------------------------------------
\* Mutant of BlocksAlong: a quotient of integers.
BlocksAlong_Down(size, block) == IF size = 0 \/ block = 0 THEN 0 ELSE size \div block

\* calculateNumBlocks in one dimension, of a block no larger than the image.  n / 0 is
\* infinite and 0 / 0 no number: as a size_t, the build makes 0 of the first, and of the
\* second what numBlocks is 0 or too large to allocate with.  Either stops the program.
BlocksAlong(size, block) ==
    IF size = 0 \/ block = 0 THEN 0 ELSE CeilQuotient(ToFloat(size), ToFloat(block))

calculateNumBlocks(xyzct, blockSize) ==
    ProductOf([ii \in DOMAIN xyzct |-> BlocksAlong(xyzct[ii], blockSize[ii])])

\* getBlockSizeBytes returns 32 bits.
getBlockSizeBytes(blockSize, bytesPerPixel) == (ProductOf(blockSize) * bytesPerPixel) % UInt

\* Mutant of maximumBlockSizeCompressedInBytes: blocks never grow.
maximumBlockSizeCompressedInBytes_NoOverhead(blockSize, bytesPerPixel, compressed) ==
    getBlockSizeBytes(blockSize, bytesPerPixel)

\* Twice the block and the overhead, as a float; 32 bits of it.
maximumBlockSizeCompressedInBytes(blockSize, bytesPerPixel, compressed) ==
    LET bytes == getBlockSizeBytes(blockSize, bytesPerPixel)
    IN  IF compressed THEN ToFloat(2 * ToFloat(bytes) + CompressionOverhead) % UInt ELSE bytes

\* An int that has the low bits of n.
ToInt(n) == IF n % UInt > IntMax THEN (n % UInt) - UInt ELSE n % UInt

\* The bytes of a queue, a product of ints: if it is none, it is either cut to 32
\* bits or not.
queueBytes(slotBytes, slots) ==
    {ToInt(ToInt(slotBytes) * slots), ToInt(slotBytes) * slots}
=============================================================================
