------------------------------ MODULE HeapSpace ------------------------------
(***************************************************************************)
(* The space registers of the CakeML heap and the code that moves them:    *)
(* the allocation sequences data_to_word emits (MakeSpace, AllocVar, and   *)
(* the bumps of NextFree and EndOfHeap after them), and the end of the     *)
(* collector stub of stack_alloc, which decides between the minor and the  *)
(* major collection, resets the trigger and halts when memory is short.    *)
(*                                                                         *)
(* Registers hold byte offsets from CurrHeap and arithmetic is that of the *)
(* machine word (modulus W) where the code can leave the range.  What a    *)
(* collection finds alive is not known here: it is any amount that is not  *)
(* more than what was allocated.  GenHeap refines it to a copying of       *)
(* objects.                                                                *)
(***************************************************************************)
EXTENDS Integers, Sequences

CONSTANTS
  B,           \* bytes_in_word
  W,           \* dimword: one more than the largest machine word
  HeapLength,  \* bytes in one semispace
  GcKinds,     \* values of conf.gc_kind: "None", "Simple", "Generational"
  GenSizes,    \* the sizes, in words, of Generational (only the first is read)
  Requests,    \* words a MakeSpace asks for
  VarLengths,  \* lengths given to the operations that call AllocVar
  VarLimit,    \* the limit those operations pass to AllocVar
  Lists,       \* lengths of the lists given to Append
  AppendLimit  \* the limit Append passes to AllocVar

ASSUME WordAssumption == B \in Nat \ {0} /\ W \in Nat /\ B <= W
ASSUME HeapAssumption == HeapLength \in Nat /\ HeapLength < W - B
ASSUME KindAssumption ==
  GcKinds \subseteq {"None", "Simple", "Generational"} /\ GenSizes \in Seq(Nat)
ASSUME RequestAssumption == Requests \subseteq Nat /\ VarLengths \subseteq Nat
ASSUME VarAssumption ==
  VarLimit \in Nat /\ \A v \in VarLengths : v < VarLimit => (v + 1) * B < W
ASSUME AppendAssumption ==
  Lists \subseteq Nat \ {0} /\ AppendLimit \in Nat /\ AppendLimit * B < W

VARIABLES
  gc_kind,     \* the collector the program was compiled for
  NextFree,    \* where the next data element goes
  TriggerGC,   \* allocation past this address runs the collector first
  EndOfHeap,   \* lowest reference
  GenStart,    \* end of the old generation
  AllocSize,   \* bytes the interrupted allocation asked for
  space,       \* bytes the program has been granted and not yet used
  op,          \* the AllocVar operation in progress
  cells,       \* the length of the list it appends, if that is what it does
  pc           \* "run", "gc" or "halt"

registers == <<NextFree, TriggerGC, EndOfHeap, GenStart>>
vars == <<gc_kind, NextFree, TriggerGC, EndOfHeap, GenStart, AllocSize, space, op,
          cells, pc>>

Word == 0 .. W - 1
Offset == 0 .. HeapLength
Address == {x \in Offset : x % B = 0}
Ops == {"none", "FromList", "RefByte", "ConsExtend", "AnyArith", "RefArray", "ListAppend"}

Init ==
  /\ gc_kind \in GcKinds
  /\ NextFree = 0
  /\ TriggerGC = IF gc_kind = "Generational" THEN 0 ELSE HeapLength
  /\ EndOfHeap = HeapLength
  /\ GenStart = 0
  /\ AllocSize = 0
  /\ space = 0
  /\ op = "none" /\ cells = 0
  /\ pc = "run"

(***************************************************************************)
(* Requests, in bytes.  A request that does not fit a word becomes the     *)
(* largest word, which no heap can satisfy.                                *)
(***************************************************************************)
\* Mutant: no clamp.
MakeSpaceBytesWraps(k) == (k * B) % W

MakeSpaceBytes(k) == IF k * B < W THEN k * B ELSE W - 1
AllocVarBytes(v, limit) == IF v < limit THEN ((v + 1) * B) % W ELSE W - 1

\* The test both sequences begin with: enough is left, or the collector runs.
Ask(bytes) ==
  IF TriggerGC - NextFree < bytes
  THEN AllocSize' = bytes /\ pc' = "gc" /\ UNCHANGED space
  ELSE space' = bytes /\ UNCHANGED <<AllocSize, pc>>

MakeSpace(k) ==
  /\ pc = "run" /\ op = "none"
  /\ Ask(MakeSpaceBytes(k))
  /\ UNCHANGED <<gc_kind, registers, op, cells>>

\* Only an array may be empty; FromList of an empty list returns at once.
AllocVar(name, v) ==
  /\ pc = "run" /\ op = "none"
  /\ v = 0 => name = "RefArray"
  /\ op' = name
  /\ Ask(AllocVarBytes(v, VarLimit))
  /\ UNCHANGED <<gc_kind, registers, cells>>

\* The program asks for a collection.
ConfigGC ==
  /\ pc = "run" /\ op = "none"
  /\ AllocSize' = 0 /\ pc' = "gc"
  /\ UNCHANGED <<gc_kind, registers, space, op, cells>>

\* Data elements go to the left end, references to the right one.
BumpLeft(bytes) ==
  /\ NextFree' = NextFree + bytes
  /\ UNCHANGED <<gc_kind, TriggerGC, EndOfHeap, GenStart>>
BumpRight(bytes) ==
  /\ TriggerGC' = TriggerGC - bytes
  /\ EndOfHeap' = EndOfHeap - bytes
  /\ UNCHANGED <<gc_kind, NextFree, GenStart>>

\* consume_space: an element of k words (header included) within the grant.
Consume(k) ==
  /\ pc = "run" /\ op = "none"
  /\ k * B <= space
  /\ space' = space - k * B
  /\ UNCHANGED <<AllocSize, op, cells, pc>>

Cons(k) == Consume(k) /\ BumpLeft(k * B)
Ref(k) == Consume(k) /\ BumpRight(k * B)

\* The body of the operation; what it leaves of its grant is lost.
FinishVar(name) ==
  /\ pc = "run" /\ op = name
  /\ space' = 0
  /\ op' = "none" /\ cells' = 0
  /\ UNCHANGED <<AllocSize, pc>>

FromList == FinishVar("FromList") /\ BumpLeft(space)
RefByte == FinishVar("RefByte") /\ BumpLeft(space)
ConsExtend == FinishVar("ConsExtend") /\ BumpLeft(space)
RefArray == FinishVar("RefArray") /\ BumpRight(space)
\* The result of an arithmetic operation may be shorter than its operands.
AnyArith(bytes) == FinishVar("AnyArith") /\ bytes <= space /\ BumpLeft(bytes)

(***************************************************************************)
(* Append copies a list over the free words, three words a cell, and       *)
(* commits them when the whole list is there.  If they do not suffice it   *)
(* counts the cells that are left (AppendLenLoop), asks for those and for  *)
(* as much as was free, and starts again.                                  *)
(***************************************************************************)
Room == TriggerGC - NextFree
Cell == 3 * B
CellsLeft(m) == m - Room \div Cell

\* Mutant: only the cells that are left are asked for.
AppendWordsLeft(m) == 3 * CellsLeft(m)

AppendWords(m) == 3 * CellsLeft(m) + Room \div B

AppendStartsAgain(m) ==
  /\ m * Cell > Room
  /\ op' = "ListAppend" /\ cells' = m
  /\ Ask(AllocVarBytes(AppendWords(m), AppendLimit))
  /\ UNCHANGED <<gc_kind, registers>>

AppendCommits(m) ==
  /\ m * Cell <= Room
  /\ BumpLeft(m * Cell)
  /\ space' = 0
  /\ op' = "none" /\ cells' = 0
  /\ UNCHANGED <<AllocSize, pc>>

ListAppend(m) ==
  /\ pc = "run" /\ (op = "none" \/ (op = "ListAppend" /\ m = cells))
  /\ AppendCommits(m) \/ AppendStartsAgain(m)

(***************************************************************************)
(* The collector stub.                                                     *)
(***************************************************************************)
GenSize ==
  IF GenSizes # <<>> /\ B * GenSizes[1] < W THEN B * GenSizes[1] ELSE W - B

\* Mutant: the size of the request does not count.
NewTriggerSizeOnly(room, bytes) == IF room < GenSize THEN room ELSE GenSize

\* new_trig (SetNewTrigger): how far the trigger is put past the live data.
NewTrigger(room, bytes) ==
  IF bytes <= GenSize THEN IF room < GenSize THEN room ELSE GenSize
  ELSE IF room < bytes \/ bytes % B # 0 THEN room
  ELSE bytes

CanDoPartial == GenSizes # <<>> /\ AllocSize <= EndOfHeap - TriggerGC

\* The stub returns to the allocation, which now owns AllocSize bytes.
Return == space' = AllocSize /\ pc' = "run"
\* Mutant: the check for room is forgotten.
ReturnAlways(room) == Return

\* Mutant: an exact fit counts as no fit.
HaltOnExactFit(room) ==
  IF room <= AllocSize THEN pc' = "halt" /\ UNCHANGED space ELSE Return

ReturnOrHalt(room) ==
  IF room < AllocSize THEN pc' = "halt" /\ UNCHANGED space ELSE Return

GcNone ==
  /\ pc = "gc" /\ gc_kind = "None"
  /\ NextFree' = 0 /\ TriggerGC' = 0 /\ EndOfHeap' = 0
  /\ ReturnOrHalt(0)
  /\ UNCHANGED <<gc_kind, GenStart, AllocSize, op, cells>>

\* Everything alive ends up at the left; live is what was copied.
GcSimple(live) ==
  /\ pc = "gc" /\ gc_kind = "Simple"
  /\ live <= NextFree + (HeapLength - EndOfHeap)
  /\ NextFree' = live
  /\ TriggerGC' = HeapLength /\ EndOfHeap' = HeapLength
  /\ ReturnOrHalt(HeapLength - live)
  /\ UNCHANGED <<gc_kind, GenStart, AllocSize, op, cells>>

\* The minor collection compacts [GenStart, NextFree) and leaves the
\* references alone.  It makes no memory check: it returns at once.
GcPartial(a) ==
  /\ pc = "gc" /\ gc_kind = "Generational" /\ CanDoPartial
  /\ a \in GenStart .. NextFree
  /\ NextFree' = a /\ GenStart' = a
  /\ TriggerGC' = a + NewTrigger(EndOfHeap - a, AllocSize)
  /\ Return
  /\ UNCHANGED <<gc_kind, EndOfHeap, AllocSize, op, cells>>

\* The major collection leaves live data in [0, a), live references in
\* [b, HeapLength).
GcFull(a, b) ==
  /\ pc = "gc" /\ gc_kind = "Generational" /\ ~CanDoPartial
  /\ a <= NextFree /\ EndOfHeap <= b
  /\ NextFree' = a /\ GenStart' = a
  /\ EndOfHeap' = b
  /\ TriggerGC' = a + NewTrigger(b - a, AllocSize)
  /\ ReturnOrHalt(NewTrigger(b - a, AllocSize))
  /\ UNCHANGED <<gc_kind, AllocSize, op, cells>>

Gc ==
  \/ GcNone
  \/ \E a \in Address : GcSimple(a) \/ GcPartial(a)
  \/ \E a, b \in Address : GcFull(a, b)

\* The heap is exhausted and the program has stopped.
Stopped == pc = "halt" /\ UNCHANGED vars

Next ==
  \/ \E k \in Requests : MakeSpace(k)
  \/ \E v \in VarLengths, name \in Ops \ {"none", "ListAppend"} : AllocVar(name, v)
  \/ \E k \in 1 .. HeapLength : Cons(k) \/ Ref(k)
  \/ FromList \/ RefByte \/ ConsExtend \/ RefArray \/ ConfigGC
  \/ \E bytes \in Address : AnyArith(bytes)
  \/ \E m \in Lists : ListAppend(m)
  \/ Gc
  \/ Stopped

Spec == Init /\ [][Next]_vars

-----------------------------------------------------------------------------
(* One type invariant for the registers. *)
TypeOK ==
  /\ gc_kind \in GcKinds
  /\ NextFree \in Offset /\ TriggerGC \in Offset
  /\ EndOfHeap \in Offset /\ GenStart \in Offset
  /\ AllocSize \in Word /\ space \in Word
  /\ op \in Ops /\ cells \in Nat
  /\ pc \in {"run", "gc", "halt"}

(* The registers stay in the order abs_ml_inv draws them in: old data,
   young data, free words up to the trigger, free words beyond it, and
   references.  Every bump and every collection must keep it. *)
Layout ==
  /\ GenStart <= NextFree
  /\ NextFree <= TriggerGC
  /\ TriggerGC <= EndOfHeap

(* What the program has been granted is there: it can use the whole grant,
   at either end, without another look at the trigger.  After a minor
   collection nothing checks this; it rests on the choice of when to do one
   ("even if nothing is collected by the partial collection, the requested
   space still exists") and on new_trig. *)
GrantFits == pc # "halt" => space <= TriggerGC - NextFree

(* The program is stopped for lack of memory only when the request does not
   fit between the live data and the live references: no choice of trigger
   makes it stop earlier.  This is what the space-cost theorems need of the
   collector. *)
HaltOnlyWhenFull == pc = "halt" => AllocSize > EndOfHeap - NextFree

(* Append starts again at most once: when it does, the words it asked for
   are enough for the whole list, so it neither collects again nor copies the
   list for ever. *)
AppendOnce == op = "ListAppend" /\ pc = "run" => cells * Cell <= Room

(* A request is put to the heap as it is, or as one that no heap can meet: it
   is never cut down to a small one that would be granted instead. *)
GrantWhole ==
  [][\A k \in Requests : MakeSpace(k) =>
       IF pc' = "run" THEN space' = k * B
       ELSE AllocSize' = k * B \/ (AllocSize' > HeapLength /\ k * B > HeapLength)]_vars
=============================================================================
