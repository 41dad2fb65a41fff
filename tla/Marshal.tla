-------------------------------- MODULE Marshal ------------------------------
(***************************************************************************)
(* Byte arrays at the foreign-function interface, and the ML side of how   *)
(* numbers cross it: descriptors in eight bytes and counts in two, the     *)
(* most significant first.  A byte has Base values (256) and a C int four  *)
(* bytes, so that small values of Base show what happens at the edges.     *)
(***************************************************************************)
EXTENDS Integers, Sequences

CONSTANT
  Base    \* values of a byte

ASSUME BaseAssumption == Base \in Nat /\ Base > 1 /\ Base % 2 = 0

\* How many numbers k bytes have.
Power[k \in 0 .. 8] == IF k = 0 THEN 1 ELSE Power[k - 1] * Base

\* A long long shifted right k bytes, and its low byte.
ByteOf(n, k) == (n \div Power[k]) % Base
\* Eight bytes as a long long, the most significant first.
LongLong(b) ==
  b[1] * Power[7] + b[2] * Power[6] + b[3] * Power[5] + b[4] * Power[4]
  + b[5] * Power[3] + b[6] * Power[2] + b[7] * Power[1] + b[8]
IntRange == Power[4]
\* The int with the low four bytes of n.
AsInt(n) == LET low == n % IntRange
            IN  IF 2 * low < IntRange THEN low ELSE low - IntRange

\* n bytes of an array from offset off.  Bytes b written at offset off: what
\* is past the end of the array makes it longer, for a property to notice.
At(a, off, n) == SubSeq(a, off + 1, off + n)
Put(a, off, b) ==
  LET end == off + Len(b)
  IN  [j \in 1 .. (IF end < Len(a) THEN Len(a) ELSE end) |->
         IF off < j /\ j <= end THEN b[j - off] ELSE a[j]]
Zeros(k) == [j \in 1 .. k |-> 0]

\* What C takes for a string: the bytes before the first zero, and there is
\* always one, because the last word of a byte array is filled up with zeros.
UpToNul(c) ==
  LET ends == {j \in 1 .. Len(c) : c[j] = 0}
  IN  IF ends = {} THEN c ELSE SubSeq(c, 1, (CHOOSE j \in ends : \A k \in ends : j <= k) - 1)

\* Marshalling.n2w2, w22n and n2w8: Word8.fromInt keeps the low byte.
n2w2(n) == <<ByteOf(n, 1), ByteOf(n, 0)>>
w22n(b) == b[1] * Base + b[2]
n2w8(n) == [k \in 1 .. 8 |-> ByteOf(n, 8 - k)]

\* What a foreign function leaves: the system, its array, and how it ended.
Back(os, a) == [os |-> os, a |-> a, how |-> "return", status |-> 0]
Abort(os, a) == [os |-> os, a |-> a, how |-> "abort", status |-> 0]
Exit(os, a, n) == [os |-> os, a |-> a, how |-> "exit", status |-> n]
=============================================================================
