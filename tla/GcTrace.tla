------------------------------- MODULE GcTrace -------------------------------
(***************************************************************************)
(* A program compiled with call_empty_ffi and linked with a runtime built  *)
(* for debugging: the code data_to_word emits calls the empty foreign      *)
(* function before and after every collection, with the bytes between      *)
(* CurrHeap and NextFree as its first argument and length 0, and the       *)
(* runtime counts collections and allocated bytes.  Runtime.debugMsg calls *)
(* the same function with a string, which for the empty string is what a   *)
(* collection's call looks like.  When the program ends, cml_exit reports  *)
(* the counters.                                                           *)
(*                                                                         *)
(* The times the function takes and prints are left out.                   *)
(***************************************************************************)
EXTENDS HeapSpace

CONSTANTS
  Messages,  \* lengths of the strings given to debugMsg
  Texts,     \* their addresses
  Codes,     \* bytes given to Runtime.exit
  MaxGC      \* bound: collections and empty messages, together

ASSUME MessageAssumption ==
  Messages \subseteq Nat /\ Texts \subseteq Nat /\ Codes \subseteq Nat

VARIABLES
  inGC,           \* the call before a collection has been made
  numGC,          \* collections ended
  prevOcc,        \* bytes occupied after the last one
  numAllocBytes,  \* bytes allocated up to the last one
  hasT,           \* a message has been printed
  exit,           \* exit code, or -1 while the program runs
  data,           \* history: bytes of elements put at the left end
  empty           \* history: empty messages printed

counters == <<inGC, numGC, prevOcc, numAllocBytes, hasT>>
traced == <<vars, counters, exit, data, empty>>

TraceInit ==
  /\ Init
  /\ inGC = 0 /\ numGC = 0 /\ prevOcc = 0 /\ numAllocBytes = 0 /\ hasT = 0
  /\ exit = -1
  /\ data = 0 /\ empty = 0

\* Mutant: what the collection left is forgotten.
GcStopsKeepOcc(c) ==
  /\ inGC = 1
  /\ inGC' = 0 /\ numGC' = numGC + 1
  /\ UNCHANGED <<prevOcc, numAllocBytes, hasT>>

\* The end of a collection: c is the number of bytes in use.
GcStops(c) ==
  /\ inGC = 1
  /\ inGC' = 0 /\ numGC' = numGC + 1 /\ prevOcc' = c
  /\ UNCHANGED <<numAllocBytes, hasT>>

\* The beginning: what is in use and was not after the last one is new.
GcStarts(c) ==
  /\ inGC = 0
  /\ inGC' = 1 /\ numAllocBytes' = numAllocBytes + (c - prevOcc)
  /\ UNCHANGED <<numGC, prevOcc, hasT>>

\* ffi, the empty foreign function, given c and the length clen.
ffi(c, clen) ==
  \/ clen = 0 /\ (GcStops(c) \/ GcStarts(c))
  \/ clen # 0 /\ hasT' = 1 /\ UNCHANGED <<inGC, numGC, prevOcc, numAllocBytes>>

\* The calls around Alloc in MakeSpace, AllocVar and ConfigGC.
SilentFFI ==
  \/ pc = "run" /\ pc' = "gc" /\ ffi(NextFree, 0)
  \/ pc = "gc" /\ pc' = "run" /\ ffi(NextFree', 0)

\* A step of the program between the calls.
Compute ==
  /\ pc # "halt" /\ Next /\ pc' = pc
  /\ data' = data + (NextFree' - NextFree)
  /\ UNCHANGED <<counters, exit, empty>>

\* The bound is on what the program begins, not on what it has begun.
More == numGC + empty < MaxGC

Allocate ==
  /\ pc = "run" /\ (op # "none" \/ More)
  /\ Next /\ pc' = "gc" /\ SilentFFI
  /\ UNCHANGED <<exit, data, empty>>

Collect ==
  /\ pc = "gc" /\ Next /\ pc' = "run" /\ SilentFFI
  /\ UNCHANGED <<exit, data, empty>>

cml_exit(arg) == exit' = arg /\ UNCHANGED <<counters, data, empty>>

\* Code 1: heap space exhausted.
Exhausted == pc = "gc" /\ Next /\ pc' = "halt" /\ cml_exit(1)

\* Code 0 at the end of the program; code 2 when the stack is exhausted.
Finish(arg) == pc = "run" /\ cml_exit(arg) /\ UNCHANGED vars

\* Runtime.exit: the process ends without cml_exit, so nothing is reported.
ffiexit(a) == exit' = a /\ UNCHANGED <<counters, data, empty>>
Exit(a) == pc = "run" /\ op = "none" /\ ffiexit(a) /\ UNCHANGED vars

debugMsg(n) ==
  /\ pc = "run" /\ op = "none"
  /\ IF n = 0 THEN More /\ empty' = empty + 1 ELSE UNCHANGED empty
  /\ \E c \in Texts : ffi(c, n)
  /\ UNCHANGED <<vars, exit, data>>

TraceNext ==
  \/ /\ exit = -1
     /\ \/ Compute \/ Allocate \/ Collect \/ Exhausted
        \/ \E arg \in {0, 2} : Finish(arg)
        \/ \E a \in Codes : Exit(a)
        \/ \E n \in Messages : debugMsg(n)
  \/ exit # -1 /\ UNCHANGED traced

\* What the program has begun is straight-line code, and the collector is a
\* subroutine of it: an operation that has asked for space goes on.
Proceed ==
  /\ exit = -1 /\ (pc = "gc" \/ op # "none")
  /\ Compute \/ Allocate \/ Collect \/ Exhausted

TraceSpec == TraceInit /\ [][TraceNext]_traced /\ WF_traced(Proceed)

-----------------------------------------------------------------------------
(* What the runtime reports as allocated is every byte put at the left end,
   except those put there since the last collection: the differences taken at
   the beginning and at the end of each collection add up, whatever the
   collections freed.  So when the heap is exhausted the report is exact, and
   a program that never collects reports nothing.  That is so as long as no
   empty message has been printed: the runtime takes one for the beginning or
   the end of a collection, and from then on it knows where it is only if it
   has printed an even number of them. *)
AllocationCounted ==
  /\ inGC = ((IF pc = "run" THEN 0 ELSE 1) + empty) % 2
  /\ empty = 0 =>
       data - numAllocBytes = (IF pc = "run" THEN NextFree - prevOcc ELSE 0)

(* An operation that has asked for space ends, or the program does.  For an
   append this is that it does not go round for ever: it throws its copy
   away, asks for room, collects or not, and starts again from the beginning,
   and only what it asked for decides whether it will be back. *)
OperationEnds == op # "none" ~> (op = "none" \/ exit # -1)
=============================================================================
