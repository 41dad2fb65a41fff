------------------------------- MODULE Program -------------------------------
(***************************************************************************)
(* Programs from main to exit on the C runtimes: basis_ffi.c, the copy of  *)
(* it that goes with ag32, and the one of Pancake.                         *)
(***************************************************************************)
EXTENDS CommandLine, ByteFiles, DoubleCalls, HostEntry

CONSTANTS
  Codes,         \* with which a program may exit
  MaxCollections \* bound: on those that the copies of ffi count

ASSUME CodeAssumption == Codes \subseteq Int

VARIABLE rt   \* inGC, numGC and hasT of a runtime built for debugging

vars == <<start_vars, call_vars, host_vars, rt>>

Init ==
  /\ StartInit /\ CallInit /\ HostInit
  /\ rt = [inGC |-> 0, numGC |-> 0, hasT |-> 0]

\* What programs there are for a runtime.
UseFiles ==
  /\ main \in {"basis", "ag32", "pancake"}
  /\ \E there \in SUBSET Names, c \in [Names -> Contents] :
       os' = [os EXCEPT !.files = there,
                        !.inode_tbl = [ino \in DOMAIN @ |-> IF ino \in there THEN c[ino] ELSE @[ino]]]
  /\ Begin("files", Zeros(iobuff), NoStreams) /\ UNCHANGED argv
UseDoubles ==
  /\ main \in {"basis", "pancake"}
  /\ Begin("doubles", Zeros(BytesLength), <<>>) /\ UNCHANGED <<argv, os>>
UseArguments ==
  /\ main \in {"basis", "ag32", "pancake"}
  /\ argv' \in Argvs
  /\ Begin("arguments", <<>>, <<>>) /\ UNCHANGED os
UseExit ==
  /\ main \in {"basis", "ag32", "pancake"}
  /\ Begin("exit", <<>>, <<>>) /\ UNCHANGED <<argv, os>>
UseDebug ==
  /\ main \in {"ag32", "pancake"}
  /\ Begin("debug", <<>>, <<>>) /\ UNCHANGED <<argv, os>>
UseHost ==
  /\ main = "basis"
  /\ Begin("host", <<>>, <<>>) /\ UNCHANGED <<argv, os>>
Use == UseFiles \/ UseDoubles \/ UseArguments \/ UseExit \/ UseDebug \/ UseHost

\* A call of the empty foreign function: by the code around a collection, with
\* length 0, or by Runtime.debugMsg, with the length of the message, which may
\* be 0 too.  GcTrace has the function of basis_ffi.c, and what calls it.
EmptyFFI(clen) ==
  /\ CanStart("debug") /\ rt.numGC < MaxCollections
  /\ rt' = IF main = "ag32" THEN Ag32!ffi(rt, clen) ELSE Pancake!ffi(rt, clen)
  /\ UNCHANGED <<start_vars, call_vars, host_vars>>

Client == CommandLineNext \/ FilesNext \/ DoublesNext \/ (\E i \in Codes : exit(i)) \/ FFI

Next ==
  \/ Start /\ UNCHANGED <<call_vars, host_vars, rt>>
  \/ (Use \/ Client) /\ UNCHANGED <<host_vars, rt>>
  \/ HostNext /\ UNCHANGED rt
  \/ \E clen \in {0, 1} : EmptyFFI(clen)

Spec == Init /\ [][Next]_vars

------------------------------------------------------------------------------
\* No call is beyond what a runtime expects: no assertion of it fails, it
\* writes to no byte outside the array it is given, and it ends the process
\* only when asked to, with the byte of the code.  Except that the runtime of
\* Pancake wants the Double module's array to have eight bytes, and aborts.
CallsFit ==
  /\ task # Idle => Len(a) = task.len
  /\ end.how = "abort" => main = "pancake" /\ task.fn = "fromString"
  /\ end.how = "exit" /\ use # "host" => task.fn = "exit" /\ end.status = task.code % Base
=============================================================================
