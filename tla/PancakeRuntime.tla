---------------------------- MODULE PancakeRuntime ---------------------------
(***************************************************************************)
(* The C runtime of the timed automata in src/pancake: a copy of an        *)
(* earlier basis_ffi.c with its assertions and an earlier protocol for two *)
(* functions on doubles.  Its clock and signals are in TimeToPan.          *)
(***************************************************************************)
EXTENDS Marshal

CONSTANTS Names, Byte, MaxFD, Doubles, Strtod(_), Format(_)

P == INSTANCE Posix

int_to_byte2(i) == <<ByteOf(i, 1), ByteOf(i, 0)>>
byte2_to_int(b) == b[1] * Base + b[2]
int_to_byte8(i) == [k \in 1 .. 8 |-> ByteOf(i, 8 - k)]
byte8_to_int(b) == AsInt(LongLong(b))

ffiget_arg_count(os, argv, a) == {Back(os, Put(a, 0, <<ByteOf(Len(argv), 0), ByteOf(Len(argv), 1)>>))}
Asked(argv, a) == argv[a[1] + a[2] * Base + 1]
ffiget_arg_length(os, argv, a) ==
  LET k == Len(Asked(argv, a)) IN {Back(os, Put(a, 0, <<ByteOf(k, 0), ByteOf(k, 1)>>))}
ffiget_arg(os, argv, a) == {Back(os, Put(a, 0, Asked(argv, a)))}

Assert(condition, os, a, outcomes) == IF condition THEN outcomes ELSE {Abort(os, a)}

OpenReply(r, a) ==
  Back(r.os, IF 0 <= r.ret THEN Put(Put(a, 0, <<0>>), 1, int_to_byte8(r.ret)) ELSE Put(a, 0, <<1>>))
ffiopen_in(os, c, a) ==
  Assert(9 <= Len(a), os, a, {OpenReply(r, a) : r \in P!open_rdonly(os, c)})
ffiopen_out(os, c, a) ==
  Assert(9 <= Len(a), os, a, {OpenReply(r, a) : r \in P!open_creat_trunc(os, c)})

ffiread(os, c, a) ==
  LET n == byte2_to_int(a)
  IN  Assert(Len(c) = 8 /\ n + 4 <= Len(a), os, a,
        {Back(r.os, IF r.ret < 0 THEN Put(a, 0, <<1>>)
                    ELSE Put(Put(a, 4, r.data), 0, <<0>> \o int_to_byte2(r.ret))) :
           r \in P!posix_read(os, byte8_to_int(c), n)})

WriteReply(r, a) ==
  Back(r.os, Put(a, 0, IF r.ret < 0 THEN <<1>> ELSE <<0>> \o int_to_byte2(r.ret)))
ffiwrite(os, c, a) ==
  LET n   == byte2_to_int(a)
      off == byte2_to_int(At(a, 2, 2))
  IN  Assert(Len(c) = 8 /\ n + off + 4 <= Len(a), os, a,
        {WriteReply(r, a) : r \in P!posix_write(os, byte8_to_int(c), At(a, 4 + off, n))})

fficlose(os, c, a) ==
  Assert(1 <= Len(a) /\ Len(c) = 8, os, a,
    {Back(r.os, Put(a, 0, IF r.ret = 0 THEN <<0>> ELSE <<1>>)) :
       r \in P!posix_close(os, byte8_to_int(c))})

cml_exit(os, a, arg) == {Exit(os, a, arg)}
ffiexit(os, a) == Assert(Len(a) = 1, os, a, {Exit(os, a, a[1])})

\* The empty foreign function of a runtime built for debugging.
ffi(rt, clen) ==
  IF clen # 0 THEN [rt EXCEPT !.hasT = 1]
  ELSE IF rt.inGC = 1 THEN [rt EXCEPT !.numGC = @ + 1, !.inGC = 0]
  ELSE [rt EXCEPT !.inGC = 1]

Bytes(d) == [k \in 1 .. 8 |-> ByteOf(d, k - 1)]
Number(b) == LongLong([k \in 1 .. 8 |-> b[9 - k]])

\* sscanf: the number a string begins with, and if there is none whatever the
\* variable held.  No flag: the array has room for the number only.
ffidouble_fromString(os, c, a) ==
  LET r == Strtod(UpToNul(c))
  IN  Assert(Len(a) = 8, os, a,
        {Back(os, Put(a, 0, Bytes(d))) : d \in IF r.parsed THEN {r.num} ELSE Doubles})
ffidouble_toString(os, a, most) ==
  Assert(Len(a) = most, os, a, {Back(os, Put(a, 0, Format(Number(At(a, 0, 8))) \o <<0>>))})

Call(name, os, argv, c, a, most) ==
  CASE name = "get_arg_count" -> ffiget_arg_count(os, argv, a)
    [] name = "get_arg_length" -> ffiget_arg_length(os, argv, a)
    [] name = "get_arg" -> ffiget_arg(os, argv, a)
    [] name = "open_in" -> ffiopen_in(os, c, a)
    [] name = "open_out" -> ffiopen_out(os, c, a)
    [] name = "read" -> ffiread(os, c, a)
    [] name = "write" -> ffiwrite(os, c, a)
    [] name = "close" -> fficlose(os, c, a)
    [] name = "exit" -> ffiexit(os, a)
    [] name = "double_fromString" -> ffidouble_fromString(os, c, a)
    [] name = "double_toString" -> ffidouble_toString(os, a, most)
=============================================================================
