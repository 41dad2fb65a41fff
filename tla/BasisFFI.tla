------------------------------ MODULE BasisFFI -------------------------------
(***************************************************************************)
(* The file functions of the C runtime, basis_ffi.c, as the ML program     *)
(* sees them: a function returns the set of outcomes the system may        *)
(* choose, each the new system state and the reply the function leaves in  *)
(* the byte array: its code (0 or 1), a number (descriptor or count) and   *)
(* the bytes read.  BasisRuntime models how these travel as bytes.         *)
(***************************************************************************)
EXTENDS Posix

Reply(code, n, data) == [code |-> code, n |-> n, data |-> data]
Outcome(r) ==
  [os |-> r.os, reply |-> IF 0 <= r.ret THEN Reply(0, r.ret, r.data) ELSE Reply(1, 0, <<>>)]

ffiopen_in(os, name) == {Outcome(r) : r \in open_rdonly(os, name)}

\* Without O_TRUNC.
ffiopen_out_keep(os, name) == {Outcome(r) : r \in open_creat(os, name)}
ffiopen_out(os, name) == {Outcome(r) : r \in open_creat_trunc(os, name)}

ffiread(os, fd, n) == {Outcome(r) : r \in posix_read(os, fd, n)}

\* write(2) of n bytes of s.
ffiwrite(os, fd, n, s) == {Outcome(r) : r \in posix_write(os, fd, SubSeq(s, 1, n))}

fficlose(os, fd) == {Outcome(r) : r \in posix_close(os, fd)}
=============================================================================
