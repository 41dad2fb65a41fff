----------------------------- MODULE DoubleCalls -----------------------------
(***************************************************************************)
(* The Double module: its functions share one array of 256 bytes, which    *)
(* still holds what earlier calls left in it.  A double is a bit pattern   *)
(* of eight bytes.  got is the last result: function, argument, value.     *)
(***************************************************************************)
EXTENDS Calls

CONSTANTS
  Texts,    \* the strings a program asks the value of
  Ints,     \* and the integers
  Minus, Tilde   \* two characters

ASSUME TextAssumption ==
  {Minus, Tilde} \subseteq 1 .. Base - 1 /\ Texts \subseteq Seq(0 .. Base - 1) /\ Ints \subseteq Int

prepareString(s) == [j \in 1 .. Len(s) |-> IF s[j] = Tilde THEN Minus ELSE s[j]]
\* Least significant byte first.
write_bytes(b, offset, d) == Put(b, offset, [k \in 1 .. 8 |-> ByteOf(d, k - 1)])
read_bytes(b, offset) == LongLong([k \in 1 .. 8 |-> b[offset + 9 - k]])
Word64(n) == n % Power[8]
toIntSigned(w) == IF 2 * w < Power[8] THEN w ELSE w - Power[8]

\* What the C library makes of a number is a double too.
IsLong(d) == d \in Nat /\ d < Power[8]
ASSUME DoubleAssumption ==
  /\ \A s \in Texts : IsLong(Strtod(UpToNul(prepareString(s))).num)
  /\ \A n \in Ints : IsLong(FromInt(toIntSigned(Word64(n))))
  /\ \A d \in Doubles :
       /\ IsLong(d) /\ IsLong(Ln(d)) /\ IsLong(Exp(d)) /\ IsLong(Floor(d))
       /\ \A i \in ToInt(d) : IsLong(i)
       /\ \A e \in Doubles : IsLong(Pow(d, e))

\* The foreign function that each calls.
foreign == [fromString |-> "double_fromString", toString |-> "double_toString",
            fromInt |-> "double_fromInt", toInt |-> "double_toInt", pow |-> "double_pow",
            ln |-> "double_ln", exp |-> "double_exp", floor |-> "double_floor"]

Result(fn, arg, value) == Finish(a, [fn |-> fn, arg |-> arg, value |-> value])
AskDouble(fn, arg, c, b) ==
  /\ CanStart("doubles")
  /\ Ask([fn |-> fn, arg |-> arg], foreign[fn], c, b)
  /\ UNCHANGED got

fromString(s) == AskDouble("fromString", s, prepareString(s), a)
\* Some d, or None.
ReadString ==
  /\ Returned("doubles", "fromString")
  /\ Result("fromString", task.arg, IF a[1] = 0 THEN <<read_bytes(a, 1)>> ELSE <<>>)

toString(d) == AskDouble("toString", d, <<>>, write_bytes(a, 0, d))
\* The bytes before the first zero.
ReadText ==
  /\ Returned("doubles", "toString")
  /\ LET zeros == {j \in 1 .. Len(a) : a[j] = 0}
         n     == (CHOOSE j \in zeros : \A k \in zeros : j <= k) - 1
     IN  Result("toString", task.arg, At(a, 0, n))

fromInt(n) == AskDouble("fromInt", n, <<>>, write_bytes(a, 0, Word64(n)))
toInt(d) == AskDouble("toInt", d, <<>>, write_bytes(a, 0, d))
ReadInt ==
  Returned("doubles", "toInt") /\ Result("toInt", task.arg, toIntSigned(read_bytes(a, 0)))

pow(x, y) == AskDouble("pow", <<x, y>>, <<>>, write_bytes(write_bytes(a, 0, x), 8, y))
\* ln, exp and floor.
function(fn, d) == AskDouble(fn, d, <<>>, write_bytes(a, 0, d))
ReadDouble ==
  \E fn \in {"fromInt", "pow", "ln", "exp", "floor"} :
    Returned("doubles", fn) /\ Result(fn, task.arg, read_bytes(a, 0))

DoublesNext ==
  \/ \E s \in Texts : fromString(s)
  \/ \E d \in Doubles : toString(d)
  \/ /\ main = "basis"
     /\ \/ \E n \in Ints : fromInt(n)
        \/ \E d \in Doubles : toInt(d) \/ \E fn \in {"ln", "exp", "floor"} : function(fn, d)
        \/ \E x, y \in Doubles : pow(x, y)
  \/ ReadString \/ ReadText \/ ReadInt \/ ReadDouble

------------------------------------------------------------------------------
\* The texts C and ML agree to be texts: at least a character, and no zero.
Plain(s) == s # <<>> /\ \A j \in 1 .. Len(s) : s[j] # 0

\* Each function gives the program what the C library makes of its argument:
\* nothing of an earlier call, of the other argument or of an error flag.
Right(r) ==
  CASE r.fn = "fromString" ->
         LET t == Strtod(prepareString(r.arg))
         IN  Plain(r.arg) => r.value = (IF t.rest \/ t.range THEN <<>> ELSE <<t.num>>)
    [] r.fn = "toString" -> r.value = Format(r.arg)
    [] r.fn = "fromInt" -> r.arg = toIntSigned(Word64(r.arg)) => r.value = FromInt(r.arg)
    [] r.fn = "toInt" -> r.value \in {toIntSigned(i) : i \in ToInt(r.arg)}
    [] r.fn = "pow" -> r.value = Pow(r.arg[1], r.arg[2])
    [] r.fn = "ln" -> r.value = Ln(r.arg)
    [] r.fn = "exp" -> r.value = Exp(r.arg)
    [] r.fn = "floor" -> r.value = Floor(r.arg)
DoublesExact == use = "doubles" /\ got # <<>> => Right(got)
=============================================================================
