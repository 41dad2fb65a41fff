----------------------------- MODULE TextIOProps -----------------------------
(***************************************************************************)
(* What is checked of TextIO: it keeps to the logical model of the file    *)
(* system call by call (FsFFI), and above that its loops hide short reads  *)
(* and writes (TextStreams).                                               *)
(***************************************************************************)
EXTENDS TextIO

Fs == INSTANCE FsFFI WITH files <- os.files, inode_tbl <- os.inode_tbl,
                          infds <- os.infds, maxFD <- MaxFD

\* Every FFI call does and answers what fsFFIScript says (ffi_open_in,
\* ffi_open_out, ffi_read, ffi_write, ffi_close).
ImplementsFsFFI == Fs!Spec

\* The write calls alone: fsFFI's write puts the bytes at the position, or at
\* the end of a file that has become shorter.
WriteAsModelled ==
  [][event'.call = "write" =>
       Fs!ffi_write(event'.arg[1], event'.arg[2], event'.n)]_<<os, event>>

\* The bytes an operation in progress is committed to write, and where.
Pending ==
  IF ml.pc # "write" THEN <<>>
  ELSE SubSeq(iobuff, ml.i + 1, ml.i + ml.n) \o
       (IF ml.then.op = "output" THEN ml.then.rest ELSE <<>>)
Target ==
  IF ml.pc = "write" /\ ml.fd \in Writers THEN {ml.fd} ELSE {}
\* The bytes an operation in progress has taken but not yet returned, or has
\* taken to no avail.
Taken(fd) ==
  CASE ml.pc = "read" /\ ml.then.op = "input" /\ ml.fd = fd -> Len(ml.then.got)
    [] ml.pc = "write" /\ Target = {} /\ ml.then.op = "copy" /\ ml.then.inp = fd -> ml.n
    [] OTHER -> 0

Streams == INSTANCE TextStreams WITH
  contents <- [ino \in Inodes |->
    IF \E fd \in Target : os.infds[fd].ino = ino
    THEN WriteAt(os.inode_tbl[ino], os.infds[ml.fd].off, Pending)
    ELSE os.inode_tbl[ino]],
  streams <- [fd \in DOMAIN os.infds |->
    [os.infds[fd] EXCEPT !.off =
       IF fd \in Target THEN @ + Len(Pending) ELSE @ - Taken(fd)]],
  Strings <- Strings \cup {<<c>> : c \in Byte},
  Lengths <- Lengths \cup {1}

\* A caller of TextIO cannot tell its loops and the system's short reads and
\* writes from single steps: nothing is lost, repeated or out of order, and
\* input returns less than it was asked for only at the end of the file.
ImplementsStreams == Streams!Spec

\* output, input and copy return, as long as writes do not bring nothing for
\* ever (fsFFIProps liveFS).
OperationsReturn == ml.pc # "idle" ~> ml.pc = "idle"
=============================================================================
