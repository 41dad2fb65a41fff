----------------------------- MODULE TextStreams -----------------------------
(***************************************************************************)
(* What TextIO promises its callers: output puts the whole string at the   *)
(* stream's position in one step, input takes as many bytes as are there   *)
(* up to what was asked, copy moves bytes from one stream to another, and  *)
(* an operation that raises an exception has changed nothing, but that a   *)
(* copy to a closed stream has taken bytes from the other.                 *)
(***************************************************************************)
EXTENDS Integers, Sequences

CONSTANTS Strings, Lengths, Names, FD

VARIABLES
  contents,   \* the bytes of every file and standard stream
  streams,    \* the open streams: inode, mode, position
  result      \* what the last operation returned, once it has

vars == <<contents, streams, result>>

Bytes(fd) == contents[streams[fd].ino]
Ahead(fd) == SubSeq(Bytes(fd), streams[fd].off + 1, Len(Bytes(fd)))
First(s, n) == SubSeq(s, 1, IF n < Len(s) THEN n ELSE Len(s))

Exceptions == {"BadFileName", "InvalidFD"}
Init == result.kind = "unit" /\ \A fd \in DOMAIN streams : streams[fd].off = 0

\* s at the position of fd, which may not lie past the end; others are the
\* streams after what else the step does.
Put(fd, s, others) ==
  LET off == streams[fd].off
  IN  /\ streams[fd].mode = "WriteMode" /\ off <= Len(Bytes(fd))
      /\ contents' = [contents EXCEPT ![streams[fd].ino] =
           SubSeq(@, 1, off) \o s \o SubSeq(@, off + Len(s) + 1, Len(@))]
      /\ streams' = [others EXCEPT ![fd].off = off + Len(s)]

Output(fd, s) == Put(fd, s, streams) /\ result'.kind = "unit"

Done == result'.kind = "unit" /\ UNCHANGED <<contents, streams>>

Input(fd, n) ==
  /\ streams[fd].mode = "ReadMode"
  /\ result' = [kind |-> "bytes", value |-> <<n, First(Ahead(fd), n)>>]
  /\ streams' = [streams EXCEPT ![fd].off = @ + Len(result'.value[2])]
  /\ UNCHANGED contents

Move(inp, out, n) ==
  /\ inp # out /\ streams[inp].mode = "ReadMode" /\ n <= Len(Ahead(inp))
  /\ Put(out, First(Ahead(inp), n), [streams EXCEPT ![inp].off = @ + n])
  /\ result'.kind = "unit"

OpenIn(name, fd) ==
  /\ fd \notin DOMAIN streams
  /\ result' = [kind |-> "stream", value |-> <<fd>>]
  /\ DOMAIN streams' = DOMAIN streams \cup {fd}
  /\ \A g \in DOMAIN streams : streams'[g] = streams[g]
  /\ streams'[fd] = [ino |-> name, mode |-> "ReadMode", off |-> 0]
  /\ UNCHANGED contents

OpenOut(name, fd) ==
  /\ fd \notin DOMAIN streams
  /\ result' = [kind |-> "stream", value |-> <<fd>>]
  /\ DOMAIN streams' = DOMAIN streams \cup {fd}
  /\ \A g \in DOMAIN streams : streams'[g] = streams[g]
  /\ streams'[fd] = [ino |-> name, mode |-> "WriteMode", off |-> 0]
  /\ contents' = [contents EXCEPT ![name] = <<>>]

Close(fd) ==
  /\ result'.kind = "unit"
  /\ streams' = [g \in DOMAIN streams \ {fd} |-> streams[g]]
  /\ UNCHANGED contents

Fail ==
  result'.kind \in Exceptions /\ UNCHANGED <<contents, streams>>

Lose(inp, n) ==
  /\ result'.kind = "InvalidFD" /\ DOMAIN streams # FD
  /\ streams[inp].mode = "ReadMode" /\ n <= Len(Ahead(inp))
  /\ streams' = [streams EXCEPT ![inp].off = @ + n]
  /\ UNCHANGED contents

Next ==
  \/ Done \/ Fail
  \/ \E fd \in DOMAIN streams :
       \/ Close(fd)
       \/ \E s \in Strings : Output(fd, s)
       \/ \E n \in Lengths : Input(fd, n)
       \/ \E n \in 1 .. Len(Ahead(fd)) :
            Lose(fd, n) \/ \E out \in DOMAIN streams : Move(fd, out, n)
  \/ \E fd \in FD, name \in Names : OpenIn(name, fd) \/ OpenOut(name, fd)

Spec == Init /\ [][Next]_vars
=============================================================================
