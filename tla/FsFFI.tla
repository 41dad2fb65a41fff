-------------------------------- MODULE FsFFI --------------------------------
(***************************************************************************)
(* The logical model of the file system that the proofs about CakeML       *)
(* programs use (fsFFIScript.sml): what each FFI call promises.  The last  *)
(* call and its reply are part of the state (the trace of FFI events), so  *)
(* that an implementation is held to what it answers as well as to what    *)
(* it does.                                                                *)
(***************************************************************************)
EXTENDS Integers, Sequences, FiniteSetsExt, TLC

CONSTANTS Names, Std, Byte, maxFD

VARIABLES
  files,       \* the names that exist
  inode_tbl,   \* contents
  infds,       \* descriptors
  event        \* the last call, its argument and its reply

vars == <<files, inode_tbl, infds, event>>

Take(n, s) == SubSeq(s, 1, Min({n, Len(s)}))
Drop(n, s) == SubSeq(s, n + 1, Len(s))

isFile(ino) == ino \in Names
nextFD == CHOOSE n \in 0 .. maxFD + 1 :
            n \notin DOMAIN infds /\ \A m \in 0 .. n - 1 : m \in DOMAIN infds

Event(call, arg, code, n, data) ==
  event' = [call |-> call, arg |-> arg, code |-> code, n |-> n, data |-> data]
Error(call, arg) == Event(call, arg, 1, 0, <<>>) /\ UNCHANGED <<files, inode_tbl, infds>>

CanOpen(name) == nextFD <= maxFD /\ name \in files
openFile(name, mode) ==
  infds' = infds @@ nextFD :> [ino |-> name, mode |-> mode, off |-> 0]

ffi_open_in(name) ==
  IF CanOpen(name)
  THEN /\ openFile(name, "ReadMode")
       /\ Event("open_in", name, 0, nextFD, <<>>)
       /\ UNCHANGED <<files, inode_tbl>>
  ELSE Error("open_in", name)

ffi_open_out(name) ==
  IF CanOpen(name) /\ nextFD <= 255
  THEN /\ openFile(name, "WriteMode")
       /\ inode_tbl' = [inode_tbl EXCEPT ![name] = <<>>]
       /\ Event("open_out", name, 0, nextFD, <<>>)
       /\ UNCHANGED files
  ELSE Error("open_out", name)

\* strm is the head of numchars, the stream that decides how much is moved.
ffi_read(fd, n, strm) ==
  IF fd \in DOMAIN infds /\ infds[fd].mode = "ReadMode"
  THEN LET d       == infds[fd]
           content == inode_tbl[d.ino]
           k       == Min({n, Max({0, Len(content) - d.off}), strm + 1})
       IN  /\ infds' = [infds EXCEPT ![fd].off = @ + k]
           /\ Event("read", <<fd, n>>, 0, k, Take(k, Drop(d.off, content)))
           /\ UNCHANGED <<files, inode_tbl>>
  ELSE Error("read", <<fd, n>>)

ffi_write(fd, chars, strm) ==
  IF fd \in DOMAIN infds /\ infds[fd].mode = "WriteMode"
  THEN LET d       == infds[fd]
           content == inode_tbl[d.ino]
           k       == Min({Len(chars), strm})
       IN  /\ inode_tbl' = [inode_tbl EXCEPT ![d.ino] =
                Take(d.off, content) \o Take(k, chars) \o Drop(d.off + k, content)]
           /\ infds' = [infds EXCEPT ![fd].off = @ + k]
           /\ Event("write", <<fd, chars>>, 0, k, <<>>)
           /\ UNCHANGED files
  ELSE Error("write", <<fd, chars>>)

ffi_close(fd) ==
  IF fd \in DOMAIN infds /\ isFile(infds[fd].ino)
  THEN /\ infds' = [g \in DOMAIN infds \ {fd} |-> infds[g]]
       /\ Event("close", fd, 0, 0, <<>>)
       /\ UNCHANGED <<files, inode_tbl>>
  ELSE Error("close", fd)

Init ==
  /\ DOMAIN infds = 0 .. 2
  /\ \A fd \in 0 .. 2 : infds[fd].off = 0 /\ infds[fd].ino \in Std
  /\ event.call = "none"

\* The call the event names, with a strm that explains the reply.
Next ==
  \/ event'.call = "none" /\ UNCHANGED <<files, inode_tbl, infds>>
  \/ event'.call = "open_in" /\ ffi_open_in(event'.arg)
  \/ event'.call = "open_out" /\ ffi_open_out(event'.arg)
  \/ /\ event'.call = "read"
     /\ \E strm \in {0, event'.n - 1} \cap Nat :
          ffi_read(event'.arg[1], event'.arg[2], strm)
  \/ /\ event'.call = "write"
     /\ ffi_write(event'.arg[1], event'.arg[2], event'.n)
  \/ event'.call = "close" /\ ffi_close(event'.arg)

Spec == Init /\ [][Next]_vars
=============================================================================
