----------------------------- MODULE BasisRuntime ----------------------------
(***************************************************************************)
(* The functions of basis_ffi.c on the bytes they are given: c is the      *)
(* constant first argument of a call, a the array that the answer is       *)
(* written into.  A function returns the set of its outcomes.              *)
(***************************************************************************)
EXTENDS Marshal

CONSTANTS Names, Byte, MaxFD,
  Doubles,                 \* bit patterns of doubles, as 64-bit numbers
  Strtod(_), Format(_),    \* of the C library: text to number and back
  FromInt(_), ToInt(_),    \* casts; ToInt gives the set of what may come out
  Ln(_), Exp(_), Floor(_), Pow(_, _)

P == INSTANCE Posix

\* Numbers in two and eight bytes; the bytes of the high half in the wrong place.
int_to_byte2(i) == <<ByteOf(i, 1), ByteOf(i, 0)>>
byte2_to_int(b) == b[1] * Base + b[2]
int_to_byte8_swapped(i) == [k \in 1 .. 8 |-> ByteOf(i, (12 - k) % 8)]
int_to_byte8(i) == [k \in 1 .. 8 |-> ByteOf(i, 8 - k)]
\* Eight bytes as a long long, returned as an int.
byte8_to_int(b) == AsInt(LongLong(b))

ffiget_arg_count(os, argv, a) == {Back(os, Put(a, 0, <<ByteOf(Len(argv), 0), ByteOf(Len(argv), 1)>>))}

\* argv[i] for the i in the first two bytes, the low one first.
Asked(argv, a) == argv[a[1] + a[2] * Base + 1]
ffiget_arg_length(os, argv, a) ==
  LET k == Len(Asked(argv, a)) IN {Back(os, Put(a, 0, <<ByteOf(k, 0), ByteOf(k, 1)>>))}
ffiget_arg(os, argv, a) == {Back(os, Put(a, 0, Asked(argv, a)))}

Assert(condition, os, a, outcomes) == IF condition THEN outcomes ELSE {Abort(os, a)}

OpenReply(r, a) ==
  Back(r.os, IF 0 <= r.ret THEN Put(Put(a, 0, <<0>>), 1, int_to_byte8(r.ret)) ELSE Put(a, 0, <<1>>))
ffiopen_in(os, c, a) ==
  Assert(9 <= Len(a), os, a, {OpenReply(r, a) : r \in P!open_rdonly(os, c)})
ffiopen_out(os, c, a) ==
  Assert(9 <= Len(a), os, a, {OpenReply(r, a) : r \in P!open_creat_trunc(os, c)})

\* The bytes put at the beginning of the array.
ffiread_no_offset(os, c, a) ==
  LET n == byte2_to_int(a)
  IN  Assert(Len(c) = 8 /\ n + 4 <= Len(a), os, a,
        {Back(r.os, IF r.ret < 0 THEN Put(a, 0, <<1>>)
                    ELSE Put(Put(a, 3, r.data), 0, <<0>> \o int_to_byte2(r.ret))) :
           r \in P!posix_read(os, byte8_to_int(c), n)})
ffiread(os, c, a) ==
  LET n == byte2_to_int(a)
  IN  Assert(Len(c) = 8 /\ n + 4 <= Len(a), os, a,
        {Back(r.os, IF r.ret < 0 THEN Put(a, 0, <<1>>)
                    ELSE Put(Put(a, 4, r.data), 0, <<0>> \o int_to_byte2(r.ret))) :
           r \in P!posix_read(os, byte8_to_int(c), n)})

WriteReply(r, a) ==
  Back(r.os, Put(a, 0, IF r.ret < 0 THEN <<1>> ELSE <<0>> \o int_to_byte2(r.ret)))
ffiwrite(os, c, a) ==
  LET n   == byte2_to_int(a)
      off == byte2_to_int(At(a, 2, 2))
  IN  Assert(Len(c) = 8 /\ n + off + 4 <= Len(a), os, a,
        {WriteReply(r, a) : r \in P!posix_write(os, byte8_to_int(c), At(a, 4 + off, n))})

fficlose(os, c, a) ==
  Assert(1 <= Len(a) /\ Len(c) = 8, os, a,
    {Back(r.os, Put(a, 0, IF r.ret = 0 THEN <<0>> ELSE <<1>>)) :
       r \in P!posix_close(os, byte8_to_int(c))})

\* The process ends with the code; cml_err is where a call ends that enters
\* ML code when it cannot be entered.
cml_exit(os, a, arg) == {Exit(os, a, arg)}
cml_err(os, a, arg) == cml_exit(os, a, arg)
ffiexit(os, a) == Assert(Len(a) = 1, os, a, {Exit(os, a, a[1])})

\* A double in memory, the least significant byte first.
Bytes(d) == [k \in 1 .. 8 |-> ByteOf(d, k - 1)]
Number(b) == LongLong([k \in 1 .. 8 |-> b[9 - k]])

\* The number written over the error flag.
ffidouble_fromString_flag(os, c, a) ==
  LET r == Strtod(UpToNul(c))
  IN  {Back(os, IF r.range \/ r.rest THEN Put(a, 0, <<1>>) ELSE Put(Put(a, 0, <<0>>), 0, Bytes(r.num)))}
ffidouble_fromString(os, c, a) ==
  LET r == Strtod(UpToNul(c))
  IN  {Back(os, IF r.range \/ r.rest THEN Put(a, 0, <<1>>) ELSE Put(Put(a, 0, <<0>>), 1, Bytes(r.num)))}
ffidouble_toString(os, a) == {Back(os, Put(a, 0, Format(Number(At(a, 0, 8))) \o <<0>>))}
ffidouble_fromInt(os, a) ==
  LET i == Number(At(a, 0, 8))
  IN  {Back(os, Put(a, 0, Bytes(FromInt(IF 2 * i < Power[8] THEN i ELSE i - Power[8]))))}
ffidouble_toInt(os, a) == {Back(os, Put(a, 0, Bytes(i))) : i \in ToInt(Number(At(a, 0, 8)))}
ffidouble_pow(os, a) ==
  {Back(os, Put(a, 0, Bytes(Pow(Number(At(a, 0, 8)), Number(At(a, 8, 8))))))}
ffidouble_ln(os, a) == {Back(os, Put(a, 0, Bytes(Ln(Number(At(a, 0, 8))))))}
ffidouble_exp(os, a) == {Back(os, Put(a, 0, Bytes(Exp(Number(At(a, 0, 8))))))}
ffidouble_floor(os, a) == {Back(os, Put(a, 0, Bytes(Floor(Number(At(a, 0, 8))))))}

\* The functions by their names in a program.
Call(name, os, argv, c, a) ==
  CASE name = "get_arg_count" -> ffiget_arg_count(os, argv, a)
    [] name = "get_arg_length" -> ffiget_arg_length(os, argv, a)
    [] name = "get_arg" -> ffiget_arg(os, argv, a)
    [] name = "open_in" -> ffiopen_in(os, c, a)
    [] name = "open_out" -> ffiopen_out(os, c, a)
    [] name = "read" -> ffiread(os, c, a)
    [] name = "write" -> ffiwrite(os, c, a)
    [] name = "close" -> fficlose(os, c, a)
    [] name = "exit" -> ffiexit(os, a)
    [] name = "double_fromString" -> ffidouble_fromString(os, c, a)
    [] name = "double_toString" -> ffidouble_toString(os, a)
    [] name = "double_fromInt" -> ffidouble_fromInt(os, a)
    [] name = "double_toInt" -> ffidouble_toInt(os, a)
    [] name = "double_pow" -> ffidouble_pow(os, a)
    [] name = "double_ln" -> ffidouble_ln(os, a)
    [] name = "double_exp" -> ffidouble_exp(os, a)
    [] name = "double_floor" -> ffidouble_floor(os, a)
=============================================================================
