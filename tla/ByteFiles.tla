------------------------------ MODULE ByteFiles ------------------------------
(***************************************************************************)
(* TextIO at the level of bytes: iobuff, one array for arguments, replies  *)
(* and data of read, write and close, and a small array for each opening.  *)
(* TextIO models what its loops do; here is how they talk to a runtime,    *)
(* and that each runtime answers as BasisFFI, on which TextIO is built.    *)
(* got.streams is the set of streams the program has opened, each with its *)
(* kind and its handle of eight bytes; closing does not take it away.      *)
(***************************************************************************)
EXTENDS Calls

CONSTANTS
  BufSize,    \* data bytes of iobuff (2048)
  Strings,    \* what a program outputs
  Lengths,    \* how much it asks input for
  MaxOps      \* bound: on what a program does

F == INSTANCE BasisFFI

\* What read and write are asked for fits the array and its counts, and a
\* descriptor fits a C int.
ASSUME FilesAssumption ==
  /\ BufSize \in Nat /\ BufSize < Power[2] /\ Lengths \subseteq 0 .. BufSize
  /\ MaxFD \in Nat /\ MaxFD >= 2 /\ 2 * MaxFD < IntRange
  /\ Strings \subseteq Seq(0 .. Base - 1) \ {<<>>} /\ Contents \subseteq Seq(0 .. Base - 1)

iobuff == 4 + BufSize

\* Bounds: a program leaves the standard streams alone, and does MaxOps things.
NoStreams == [streams |-> {}, ops |-> 0]
Operation(t, name, c, b) ==
  /\ CanStart("files") /\ got.ops < MaxOps
  /\ Ask(t, name, c, b)
  /\ got' = [got EXCEPT !.ops = @ + 1]

openIn(name) == Operation([fn |-> "open", kind |-> "in", kept |-> a], "open_in", name, Zeros(9))
openOut(name) == Operation([fn |-> "open", kind |-> "out", kept |-> a], "open_out", name, Zeros(9))
\* A stream, or BadFileName is raised.
Opened ==
  /\ Returned("files", "open")
  /\ Finish(task.kept, IF a[1] = 0 THEN [got EXCEPT !.streams = @ \cup {<<task.kind, At(a, 1, 8)>>}]
                      ELSE got)

\* closeIn and closeOut.
close(fd) == Operation([fn |-> "close"], "close", fd, a)
read(fd, n) == Operation([fn |-> "read"], "read", fd, Put(a, 0, n2w2(n)))

\* write fd n i, with rest still to be put out after it.
Writing(fd, n, i, rest) == [fn |-> "write", fd |-> fd, n |-> n, i |-> i, rest |-> rest]
WriteArray(n, i, b) == Put(Put(b, 0, n2w2(n)), 2, n2w2(i))
Chunk(s) == IF Len(s) < BufSize THEN Len(s) ELSE BufSize
After(s) == SubSeq(s, Chunk(s) + 1, Len(s))
ChunkArray(s) == WriteArray(Chunk(s), 0, Put(a, 4, At(s, 0, Chunk(s))))

\* output fd s: its first bytes into iobuff; output1 is that of one byte.
output(fd, s) == Operation(Writing(fd, Chunk(s), 0, After(s)), "write", fd, ChunkArray(s))

\* InvalidFD, nothing or only part of it written, or all: then the rest of s.
Written ==
  /\ Returned("files", "write")
  /\ LET nw   == w22n(At(a, 1, 2))
         n    == task.n - nw
         i    == task.i + nw
         rest == task.rest
     IN  \/ a[1] = 1 /\ Finish(a, got)
         \/ /\ a[1] # 1 /\ n > 0
            /\ Ask(Writing(task.fd, n, i, rest), "write", task.fd, WriteArray(n, i, a))
            /\ UNCHANGED got
         \/ /\ a[1] # 1 /\ n <= 0 /\ rest # <<>>
            /\ Ask(Writing(task.fd, Chunk(rest), 0, After(rest)), "write", task.fd, ChunkArray(rest))
            /\ UNCHANGED got
         \/ a[1] # 1 /\ n <= 0 /\ rest = <<>> /\ Finish(a, got)

\* What close and read find does not matter to what they do next.
Done == \E fn \in {"close", "read"} : Returned("files", fn) /\ Finish(a, got)

FilesNext ==
  \/ \E name \in Names : openIn(name) \/ openOut(name)
  \/ use = "files" /\ \E stream \in got.streams :
       \/ close(stream[2])
       \/ stream[1] = "in" /\ \E n \in Lengths : read(stream[2], n)
       \/ stream[1] = "out" /\ \E s \in Strings : output(stream[2], s)
  \/ Opened \/ Written \/ Done

------------------------------------------------------------------------------
\* What a call asks for, as the ML side meant it.
Asked == CHOOSE fd \in Posix!FD : n2w8(fd) = call.c
Length == w22n(At(a, 0, 2))
Promised ==
  CASE call.name = "open_in" -> F!ffiopen_in(os, call.c)
    [] call.name = "open_out" -> F!ffiopen_out(os, call.c)
    [] call.name = "read" -> F!ffiread(os, Asked, Length)
    [] call.name = "write" -> F!ffiwrite(os, Asked, Length, At(a, 4 + w22n(At(a, 2, 2)), Length))
    [] call.name = "close" -> F!fficlose(os, Asked)

\* What the ML side reads out of the array b.
Says(b, reply) ==
  CASE call.name \in {"open_in", "open_out"} ->
         /\ (b[1] = 0) = (reply.code = 0)
         /\ reply.code = 0 => At(b, 1, 8) = n2w8(reply.n)
    [] call.name = "close" -> (b[1] = 0) = (reply.code = 0)
    [] OTHER ->
         /\ (b[1] = 1) = (reply.code = 1)
         /\ reply.code = 0 => w22n(At(b, 1, 2)) = reply.n
         /\ call.name = "read" => At(b, 4, reply.n) = reply.data

\* The file functions of every runtime do to the files what BasisFFI says, and
\* the bytes they leave in the array say so to the ML side, which keeps its
\* arguments, the replies and the data in the same bytes: handles come back as
\* they were given, counts in two bytes, data after four, from an offset.
FileCalls ==
  [][use = "files" /\ call.name # "none" /\ call'.name = "none" =>
       \E o \in Promised : os' = o.os /\ Says(a', o.reply)]_call_vars
=============================================================================
