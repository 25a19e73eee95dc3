------------------------------ MODULE MCVector -------------------------------
\* A vector of up to four items of two kinds, in 4 bit arithmetic; the
\* callers' indices reach past the end, and up to the largest.
EXTENDS Vector

MCIndices == 0 .. MaxLength + 1 \union {UINT64 - 1}
=============================================================================
