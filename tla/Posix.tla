-------------------------------- MODULE Posix --------------------------------
(***************************************************************************)
(* The part of a POSIX system that the C runtimes use for files.  Not code *)
(* of this repository.  A system state is a record os of                   *)
(*   files      the names that exist (a file's inode is its name),         *)
(*   inode_tbl  the bytes of each inode and of the three standard streams, *)
(*   infds      the open descriptors: inode, mode and position.            *)
(* A call returns the set of outcomes the system may choose: the new os,   *)
(* the number the call returns, -1 for an error, and the bytes read.       *)
(***************************************************************************)
EXTENDS Integers, Sequences, FiniteSetsExt

CONSTANTS
  Names,     \* file names
  Byte,      \* the bytes a program writes
  MaxFD      \* the highest descriptor the system hands out

ASSUME FDAssumption == MaxFD \in Nat /\ MaxFD >= 2 /\ 0 \notin Byte

Std == {"stdin", "stdout", "stderr"}
ASSUME NameAssumption == Names \cap Std = {}
Inodes == Names \cup Std
FD == 0 .. MaxFD

\* 0, 1 and 2 as the kernel opens them.
StdFds == [fd \in 0 .. 2 |->
             [ino  |-> CASE fd = 0 -> "stdin" [] fd = 1 -> "stdout" [] fd = 2 -> "stderr",
              mode |-> IF fd = 0 THEN "ReadMode" ELSE "WriteMode", off |-> 0]]

Returns(os, n, data) == [os |-> os, ret |-> n, data |-> data]
Error(os) == {Returns(os, -1, <<>>)}

Free(os) == FD \ DOMAIN os.infds
Readable(os, fd) == fd \in DOMAIN os.infds
Writable(os, fd) == fd \in DOMAIN os.infds /\ os.infds[fd].mode = "WriteMode"

\* The lowest free descriptor, at position 0.
Opened(os, name, mode) ==
  LET fd == Min(Free(os))
      new == [ino |-> name, mode |-> mode, off |-> 0]
  IN  {Returns([os EXCEPT !.infds = [g \in DOMAIN @ \cup {fd} |-> IF g = fd THEN new ELSE @[g]]],
               fd, <<>>)}

\* open(2) with O_RDONLY.
open_rdonly(os, name) ==
  IF name \notin os.files \/ Free(os) = {} THEN Error(os) ELSE Opened(os, name, "ReadMode")

\* open(2) with O_RDWR|O_CREAT, and O_TRUNC.
open_creat(os, name) ==
  IF Free(os) = {} THEN Error(os)
  ELSE Opened([os EXCEPT !.files = @ \cup {name}], name, "WriteMode")
open_creat_trunc(os, name) ==
  IF Free(os) = {} THEN Error(os)
  ELSE Opened([os EXCEPT !.files = @ \cup {name}, !.inode_tbl[name] = <<>>], name, "WriteMode")

\* read(2): fewer bytes than asked for, but none only at the end of the file.
posix_read(os, fd, n) ==
  IF ~Readable(os, fd) THEN Error(os)
  ELSE LET d    == os.infds[fd]
           rest == SubSeq(os.inode_tbl[d.ino], d.off + 1, Len(os.inode_tbl[d.ino]))
           most == IF n < Len(rest) THEN n ELSE Len(rest)
       IN  {Returns([os EXCEPT !.infds[fd].off = @ + k], k, SubSeq(rest, 1, k)) :
              k \in IF most = 0 THEN {0} ELSE 1 .. most}

\* s written at position off; past the end that leaves a hole of zeros.
WriteAt(bytes, off, s) ==
  LET hole == [j \in 1 .. off - Len(bytes) |-> 0]
  IN  IF s = <<>> THEN bytes
      ELSE SubSeq(bytes \o hole, 1, off) \o s \o SubSeq(bytes, off + Len(s) + 1, Len(bytes))

\* write(2): a prefix of the bytes s.
posix_write(os, fd, s) ==
  IF ~Writable(os, fd) THEN Error(os)
  ELSE LET d == os.infds[fd]
       IN  {Returns([os EXCEPT !.inode_tbl[d.ino] = WriteAt(@, d.off, SubSeq(s, 1, k)),
                               !.infds[fd].off = @ + k], k, <<>>) : k \in 0 .. Len(s)}

posix_close(os, fd) ==
  IF ~Readable(os, fd) THEN Error(os)
  ELSE {Returns([os EXCEPT !.infds = [g \in DOMAIN @ \ {fd} |-> @[g]]], 0, <<>>)}
=============================================================================
