-------------------------------- MODULE Calls --------------------------------
(***************************************************************************)
(* A program and the C runtime it is linked with.  After the start, ML     *)
(* code prepares a byte array and calls a foreign function by its name,    *)
(* the runtime answers in the array, and the ML function that called goes  *)
(* on with what it finds there.  CommandLine, ByteFiles, Doubles and       *)
(* HostEntry are the ML sides; Program puts them together.                 *)
(***************************************************************************)
EXTENDS Startup, Marshal, FiniteSets, TLC

CONSTANTS
  Names, Byte, MaxFD,      \* as in Posix
  Doubles, Strtod(_), Format(_), FromInt(_), ToInt(_),
  Ln(_), Exp(_), Floor(_), Pow(_, _),
  BytesLength,             \* of the array the Double module uses (256)
  Argvs,                   \* argument vectors: wfcl of CommandLineProof
  Contents                 \* what files may contain at first

ASSUME CallAssumption ==
  /\ BytesLength \in Nat /\ BytesLength >= 16
  /\ \A argv \in Argvs :
       /\ argv \in Seq(Seq(1 .. Base - 1)) /\ Len(argv) \in 1 .. Power[2] - 1
       /\ \A k \in 1 .. Len(argv) : Len(argv[k]) < Power[2]
  /\ \A d \in Doubles : Format(d) \in Seq(1 .. Base - 1) /\ Len(Format(d)) < BytesLength

Basis == INSTANCE BasisRuntime
Ag32 == INSTANCE Ag32Runtime
Pancake == INSTANCE PancakeRuntime
Posix == INSTANCE Posix

VARIABLES
  use,    \* what this program does with its runtime
  argv, os,
  a,      \* the array of the call, or the one the ML module keeps
  call,   \* the call the runtime is to answer
  task,   \* the ML function that made it; len is its array's length
  got,    \* what the program has been given
  end     \* how the process ended, if not "return"

call_vars == <<use, argv, os, a, call, task, got, end>>

NoCall == [name |-> "none", c |-> <<>>]
Idle == [fn |-> "idle", len |-> 0]

CallInit ==
  /\ use = "none" /\ argv = <<>>
  /\ os = [files |-> {}, inode_tbl |-> [ino \in Posix!Inodes |-> <<>>], infds |-> Posix!StdFds]
  /\ a = <<>> /\ call = NoCall /\ task = Idle /\ got = <<>>
  /\ end = [how |-> "return", status |-> 0]

\* Bound: of all ways to start, what follows looks at one for each runtime.
OneStart ==
  main = "ag32" \/
    /\ block.first = B /\ heap_sz = stack_sz
    /\ heap_sz \in Compiled /\ \A u \in Compiled : heap_sz <= u

\* Bound: a program has one use for its runtime.  kept is the array its ML
\* module made, holding what that module has in the beginning.
Begin(what, kept, holding) ==
  /\ pc = "ml" /\ use = "none" /\ OneStart
  /\ use' = what /\ a' = kept /\ got' = holding
  /\ UNCHANGED <<start_vars, call, task, end>>

Running(what) == use = what /\ call.name = "none" /\ end.how = "return"
CanStart(what) == Running(what) /\ task.fn = "idle"
Returned(what, fn) == Running(what) /\ task.fn = fn

\* #(name) c b from the function and state t.
Ask(t, name, c, b) ==
  /\ task' = [f \in DOMAIN t \cup {"len"} |-> IF f = "len" THEN Len(b) ELSE t[f]]
  /\ call' = [name |-> name, c |-> c]
  /\ a' = b
  /\ UNCHANGED <<start_vars, use, argv, os, end>>

\* The ML function ends: it leaves the program an array and what it holds.
Finish(b, holding) ==
  /\ task' = Idle /\ a' = b /\ got' = holding
  /\ UNCHANGED <<start_vars, use, argv, os, call, end>>

Outcomes ==
  CASE main = "basis" -> Basis!Call(call.name, os, argv, call.c, a)
    [] main = "ag32" -> Ag32!Call(call.name, os, argv, call.c, a)
    [] main = "pancake" -> Pancake!Call(call.name, os, argv, call.c, a, BytesLength)

FFI ==
  /\ call.name # "none" /\ end.how = "return"
  /\ \E r \in Outcomes :
       os' = r.os /\ a' = r.a /\ end' = [how |-> r.how, status |-> r.status]
  /\ call' = NoCall
  /\ UNCHANGED <<start_vars, use, argv, task, got>>

------------------------------------------------------------------------------
(* RuntimeProg.exit.                                                       *)

exit(i) ==
  /\ CanStart("exit")
  /\ Ask([fn |-> "exit", code |-> i], "exit", <<>>, <<ByteOf(i, 0)>>)
  /\ UNCHANGED got
=============================================================================
