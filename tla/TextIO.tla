------------------------------- MODULE TextIO --------------------------------
(***************************************************************************)
(* The unbuffered part of the basis library's TextIO: programs that open,  *)
(* close, read, write and copy files through the functions of BasisFFI.    *)
(* All of TextIO shares one byte array, iobuff, for arguments, replies and *)
(* data; a call writes its arguments over the reply of the one before, so  *)
(* only the data part (bytes 4 onwards) is kept here.                      *)
(*                                                                         *)
(* ml is what the ML program is doing: nothing, or a loop around write or  *)
(* read, with the rest of its computation (then).                          *)
(***************************************************************************)
EXTENDS BasisFFI, TLC

CONSTANTS
  BufSize,    \* data bytes of iobuff (2048)
  Strings,    \* what a program outputs
  Lengths,    \* what it asks input for
  MaxLen,     \* bound: no inode grows past this by output
  Contents,   \* initial contents of files and of stdin
  Uses        \* what programs do beyond the plain use of files

ASSUME UseAssumption ==
  /\ BufSize \in Nat \ {0} /\ MaxLen \in [Inodes -> Nat] /\ Lengths \subseteq Nat
  /\ Strings \subseteq Seq(Byte) /\ Contents \subseteq Seq(Byte)
  /\ Uses \subseteq {"Create", "CloseStd", "Reopen"}

VARIABLES
  os,         \* the system
  iobuff,     \* data bytes of the shared array
  ml,         \* the state of the ML program
  result,     \* what the last operation returned, once it has
  event       \* the last FFI call and its reply

vars == <<os, iobuff, ml, result, event>>

Idle == [pc |-> "idle"]
Answer(kind, value) == [kind |-> kind, value |-> value]
Unit == Answer("unit", <<>>)
\* What input returns, with the length it was asked for.
Input(len, bytes) == Answer("bytes", <<len, bytes>>)

Return(answer) == ml' = Idle /\ result' = answer
Raise(exn) == Return(Answer(exn, <<>>))

\* #(call) arg: one FFI call, one of its outcomes o.
Call(name, arg, o) ==
  /\ os' = o.os
  /\ event' = [call |-> name, arg |-> arg, code |-> o.reply.code,
               n |-> o.reply.n, data |-> o.reply.data]

\* The ML program goes on by itself.
NoCall == [call |-> "none", arg |-> 0, code |-> 0, n |-> 0, data |-> <<>>]
Silent == event' = NoCall /\ UNCHANGED os
NoAnswer == result' = Unit

\* s copied over the first bytes of iobuff's data.
Fill(buff, s) == s \o SubSeq(buff, Len(s) + 1, BufSize)
Prefix(s, n) == SubSeq(s, 1, IF n < Len(s) THEN n ELSE Len(s))
Rest(s, n) == SubSeq(s, n + 1, Len(s))

Writers == {fd \in DOMAIN os.infds : os.infds[fd].mode = "WriteMode"}
Readers == DOMAIN os.infds \ Writers
OpenFor(name, fds) == {fd \in fds : os.infds[fd].ino = name}

Init ==
  /\ \E there \in SUBSET Names : \E c \in [there \cup {"stdin"} -> Contents] :
       os = [files |-> there,
             inode_tbl |-> [ino \in Inodes |-> IF ino \in DOMAIN c THEN c[ino] ELSE <<>>],
             infds |-> StdFds]
  /\ iobuff = [j \in 1 .. BufSize |-> 0]
  /\ ml = Idle
  /\ result = Unit
  /\ event = NoCall

------------------------------------------------------------------------------
(* Opening and closing.                                                    *)

openIn(name) ==
  /\ ml = Idle
  /\ \E o \in ffiopen_in(os, name) :
       /\ Call("open_in", name, o)
       /\ IF o.reply.code = 0 THEN Return(Answer("stream", <<o.reply.n>>)) ELSE Raise("BadFileName")
  /\ UNCHANGED iobuff

openOut(name) ==
  /\ ml = Idle
  /\ name \in os.files \/ "Create" \in Uses
  /\ OpenFor(name, DOMAIN os.infds) = {} \/ "Reopen" \in Uses
  /\ \E o \in ffiopen_out(os, name) :
       /\ Call("open_out", name, o)
       /\ IF o.reply.code = 0 THEN Return(Answer("stream", <<o.reply.n>>)) ELSE Raise("BadFileName")
  /\ UNCHANGED iobuff

\* closeIn and closeOut; a program may close a descriptor twice.
close(fd) ==
  /\ ml = Idle
  /\ fd > 2 \/ "CloseStd" \in Uses
  /\ \E o \in fficlose(os, fd) :
       /\ Call("close", fd, o)
       /\ IF o.reply.code = 0 THEN Return(Unit) ELSE Raise("InvalidFD")
  /\ UNCHANGED iobuff

------------------------------------------------------------------------------
(* write fd n i: n bytes of iobuff from i; then what is left to do.        *)

StartWrite(fd, n, then) == ml' = [pc |-> "write", fd |-> fd, n |-> n, i |-> 0, then |-> then]

\* The bound on files is on what a program may begin to write.
Fits(fd, n) ==
  fd \in DOMAIN os.infds =>
    LET ino == os.infds[fd].ino IN Len(os.inode_tbl[ino]) + n <= MaxLen[ino]

\* One chunk of output fd s.
Chunk(fd, s) ==
  LET now == Prefix(s, BufSize)
  IN  /\ iobuff' = Fill(iobuff, now)
      /\ StartWrite(fd, Len(now), [op |-> "output", fd |-> fd, rest |-> Rest(s, BufSize)])
      /\ Silent /\ NoAnswer

output(fd, s) ==
  /\ ml = Idle /\ Fits(fd, Len(s))
  /\ IF s = <<>>
     THEN Return(Unit) /\ Silent /\ UNCHANGED iobuff
     ELSE Chunk(fd, s)

output1(fd, c) == 
  /\ ml = Idle /\ Fits(fd, 1)
  /\ iobuff' = Fill(iobuff, <<c>>)
  /\ StartWrite(fd, 1, [op |-> "output", fd |-> fd, rest |-> <<>>])
  /\ Silent /\ NoAnswer

\* A retry that starts again from the first byte.
write_from_start ==
  /\ ml.pc = "write" /\ ml.n > 0
  /\ LET s == SubSeq(iobuff, 1, ml.n)
     IN  \E o \in ffiwrite(os, ml.fd, ml.n, s) :
           /\ Call("write", <<ml.fd, s>>, o)
           /\ IF o.reply.code = 1 THEN Raise("InvalidFD")
              ELSE /\ ml' = [ml EXCEPT !.n = @ - o.reply.n]
                   /\ UNCHANGED result
  /\ UNCHANGED iobuff

\* writei calls #(write) until it has written something; write goes on with
\* the rest of the buffer.
write ==
  /\ ml.pc = "write" /\ ml.n > 0
  /\ LET s == SubSeq(iobuff, ml.i + 1, ml.i + ml.n)
     IN  \E o \in ffiwrite(os, ml.fd, ml.n, s) :
           /\ Call("write", <<ml.fd, s>>, o)
           /\ IF o.reply.code = 1 THEN Raise("InvalidFD")
              ELSE /\ ml' = [ml EXCEPT !.n = @ - o.reply.n, !.i = @ + o.reply.n]
                   /\ UNCHANGED result
  /\ UNCHANGED iobuff

\* write returns: the rest of the string, or the next chunk of a copy.
written ==
  /\ ml.pc = "write" /\ ml.n = 0
  /\ CASE ml.then.op = "output" /\ ml.then.rest = <<>> ->
            Return(Unit) /\ Silent /\ UNCHANGED iobuff
       [] ml.then.op = "output" /\ ml.then.rest # <<>> -> Chunk(ml.then.fd, ml.then.rest)
       [] ml.then.op = "copy" ->
            /\ ml' = [pc |-> "read", fd |-> ml.then.inp, n |-> BufSize, then |-> ml.then]
            /\ Silent /\ NoAnswer /\ UNCHANGED iobuff

------------------------------------------------------------------------------
(* read fd n, then what is done with the bytes.                            *)

Least(a, b) == IF a < b THEN a ELSE b
StartRead(fd, n, then) ==
  /\ ml' = [pc |-> "read", fd |-> fd, n |-> n, then |-> then]
  /\ Silent /\ NoAnswer /\ UNCHANGED iobuff

input1(fd) == ml = Idle /\ StartRead(fd, 1, [op |-> "input1"])

input(fd, len) ==
  ml = Idle /\ StartRead(fd, Least(len, BufSize), [op |-> "input", left |-> len, got |-> <<>>])

\* The bound on files keeps a program from copying more than fits.
copy(inp, out) ==
  /\ ml = Idle
  /\ inp \in DOMAIN os.infds /\ out \in DOMAIN os.infds => 
       /\ os.infds[inp].ino # os.infds[out].ino
       /\ Fits(out, Len(os.inode_tbl[os.infds[inp].ino]))
  /\ StartRead(inp, BufSize, [op |-> "copy", inp |-> inp, out |-> out])

\* An input that does not know the end of the file.
HaveReadNoEof(bytes, then) ==
  CASE then.op = "input1" -> Return(Input(1, bytes))
    [] then.op = "input" /\ then.left = 0 -> Return(Input(then.left + Len(then.got), then.got))
    [] then.op = "input" /\ then.left > 0 ->
         LET left == then.left - Len(bytes)
         IN  /\ ml' = [ml EXCEPT !.n = Least(left, BufSize),
                                 !.then = [op |-> "input", left |-> left,
                                           got |-> then.got \o bytes]]
             /\ UNCHANGED result
    [] then.op = "copy" /\ bytes = <<>> -> Return(Unit)
    [] then.op = "copy" /\ bytes # <<>> ->
         StartWrite(then.out, Len(bytes), then) /\ UNCHANGED result

\* bytes is what this call brought.
HaveRead(bytes, then) ==
  CASE then.op = "input1" -> Return(Input(1, bytes))
    [] then.op = "input" /\ bytes = <<>> -> Return(Input(then.left + Len(then.got), then.got))
    [] then.op = "input" /\ bytes # <<>> ->
         LET left == then.left - Len(bytes)
         IN  /\ ml' = [ml EXCEPT !.n = Least(left, BufSize),
                                 !.then = [op |-> "input", left |-> left,
                                           got |-> then.got \o bytes]]
             /\ UNCHANGED result
    [] then.op = "copy" /\ bytes = <<>> -> Return(Unit)
    [] then.op = "copy" /\ bytes # <<>> ->
         StartWrite(then.out, Len(bytes), then) /\ UNCHANGED result

read ==
  /\ ml.pc = "read"
  /\ \E o \in ffiread(os, ml.fd, ml.n) :
       /\ Call("read", <<ml.fd, ml.n>>, o)
       /\ iobuff' = Fill(iobuff, o.reply.data)
       /\ IF o.reply.code = 1 THEN Raise("InvalidFD")
          ELSE HaveRead(SubSeq(iobuff', 1, o.reply.n), ml.then)

------------------------------------------------------------------------------
\* The descriptors a program holds in an instream or an outstream: those it
\* has opened, and any it has closed since.
Program ==
  \/ \E name \in Names : openIn(name) \/ openOut(name)
  \/ \E fd \in FD : close(fd)
  \/ \E fd \in FD \ Readers : \/ \E s \in Strings : output(fd, s)
                              \/ \E c \in Byte : output1(fd, c)
  \/ \E fd \in FD \ Writers : input1(fd) \/ \E len \in Lengths : input(fd, len)
  \/ \E inp \in FD \ Writers, out \in FD \ Readers : copy(inp, out)

Next == Program \/ write \/ written \/ read

\* liveFS: the stream of counts is not zero for ever, so a write that is
\* tried again and again moves something; the program itself runs on.
Fairness ==
  /\ WF_vars(write) /\ WF_vars(written) /\ WF_vars(read)
  /\ SF_vars(write /\ os' # os)
Spec == Init /\ [][Next]_vars /\ Fairness
=============================================================================
