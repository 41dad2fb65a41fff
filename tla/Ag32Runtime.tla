----------------------------- MODULE Ag32Runtime -----------------------------
(***************************************************************************)
(* The C runtime that goes with the ag32 compiler: a copy of an earlier    *)
(* basis_ffi.c, without assertions and without functions on doubles.       *)
(***************************************************************************)
EXTENDS Marshal

CONSTANTS Names, Byte, MaxFD

P == INSTANCE Posix

int_to_byte2(i) == <<ByteOf(i, 1), ByteOf(i, 0)>>
byte2_to_int(b) == b[1] * Base + b[2]
int_to_byte8(i) == [k \in 1 .. 8 |-> ByteOf(i, 8 - k)]
byte8_to_int(b) == AsInt(LongLong(b))

ffiget_arg_count(os, argv, a) == {Back(os, Put(a, 0, <<ByteOf(Len(argv), 0), ByteOf(Len(argv), 1)>>))}
Asked(argv, a) == argv[a[1] + a[2] * Base + 1]
ffiget_arg_length(os, argv, a) ==
  LET k == Len(Asked(argv, a)) IN {Back(os, Put(a, 0, <<ByteOf(k, 0), ByteOf(k, 1)>>))}
ffiget_arg(os, argv, a) == {Back(os, Put(a, 0, Asked(argv, a)))}

\* The code of a failure is another one for each kind of opening.
ffiopen_in(os, c, a) ==
  {Back(r.os, IF 0 <= r.ret THEN Put(Put(a, 0, <<0>>), 1, int_to_byte8(r.ret)) ELSE Put(a, 0, <<1>>)) :
     r \in P!open_rdonly(os, c)}
ffiopen_out(os, c, a) ==
  {Back(r.os, IF 0 <= r.ret THEN Put(Put(a, 0, <<0>>), 1, int_to_byte8(r.ret))
              ELSE Put(a, 0, <<Base - 1>>)) :
     r \in P!open_creat_trunc(os, c)}

ffiread(os, c, a) ==
  {Back(r.os, IF r.ret < 0 THEN Put(a, 0, <<1>>)
              ELSE Put(Put(a, 4, r.data), 0, <<0>> \o int_to_byte2(r.ret))) :
     r \in P!posix_read(os, byte8_to_int(c), byte2_to_int(a))}

\* The offset left out.
ffiwrite_start(os, c, a) ==
  {Back(r.os, Put(a, 0, IF r.ret < 0 THEN <<1>> ELSE <<0>> \o int_to_byte2(r.ret))) :
     r \in P!posix_write(os, byte8_to_int(c), At(a, 4, byte2_to_int(a)))}
ffiwrite(os, c, a) ==
  {Back(r.os, Put(a, 0, IF r.ret < 0 THEN <<1>> ELSE <<0>> \o int_to_byte2(r.ret))) :
     r \in P!posix_write(os, byte8_to_int(c),
                         At(a, 4 + byte2_to_int(At(a, 2, 2)), byte2_to_int(a)))}

fficlose(os, c, a) ==
  {Back(r.os, Put(a, 0, IF r.ret = 0 THEN <<0>> ELSE <<1>>)) :
     r \in P!posix_close(os, byte8_to_int(c))}

\* Without an array the process fails (EXIT_FAILURE).
cml_exit(os, a, arg) == {Exit(os, a, arg)}
ffiexit(os, a) == cml_exit(os, a, IF Len(a) > 0 THEN a[1] ELSE 1)

\* The empty foreign function of a runtime built for debugging: calls of
\* length 0 begin and end a collection in turn, others print a message.
ffi(rt, clen) ==
  IF clen # 0 THEN [rt EXCEPT !.hasT = 1]
  ELSE IF rt.inGC = 1 THEN [rt EXCEPT !.numGC = @ + 1, !.inGC = 0]
  ELSE [rt EXCEPT !.inGC = 1]

Call(name, os, argv, c, a) ==
  CASE name = "get_arg_count" -> ffiget_arg_count(os, argv, a)
    [] name = "get_arg_length" -> ffiget_arg_length(os, argv, a)
    [] name = "get_arg" -> ffiget_arg(os, argv, a)
    [] name = "open_in" -> ffiopen_in(os, c, a)
    [] name = "open_out" -> ffiopen_out(os, c, a)
    [] name = "read" -> ffiread(os, c, a)
    [] name = "write" -> ffiwrite(os, c, a)
    [] name = "close" -> fficlose(os, c, a)
    [] name = "exit" -> ffiexit(os, a)
=============================================================================
