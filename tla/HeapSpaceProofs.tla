--------------------------- MODULE HeapSpaceProofs ---------------------------
(***************************************************************************)
(* Proofs about the space registers, for every word size, heap size,       *)
(* collector and choice of generation sizes; and, at the end, about the    *)
(* counters of GcTrace, whose programs take the same steps.                *)
(***************************************************************************)
EXTENDS GcTrace, TLAPS

(* Only the generational collector has an old generation. *)
OneGeneration == gc_kind # "Generational" => GenStart = 0

(* What ListAppend asks for, and is given, covers the list, unless it is the
   request no heap satisfies. *)
Covers(bytes) == cells * Cell <= bytes \/ bytes = W - 1
AppendAsked ==
  op = "ListAppend" => /\ pc = "gc" => Covers(AllocSize)
                       /\ pc = "run" => Covers(space)

(* What the safety proofs rest on. *)
IInv == /\ TypeOK /\ Layout /\ GrantFits /\ HaltOnlyWhenFull
        /\ OneGeneration /\ AppendAsked

(* Requests are words, whatever the program asks for (MakeSpace's and
   AllocVar's clamps). *)
LEMMA RequestIsWord ==
  /\ \A k \in Requests : MakeSpaceBytes(k) \in Word
  /\ \A v \in Nat, limit \in Nat : AllocVarBytes(v, limit) \in Word
<1> USE WordAssumption, RequestAssumption
<1>1. ASSUME NEW k \in Requests PROVE MakeSpaceBytes(k) \in Word
  <2>1. k * B \in Nat
    OBVIOUS
  <2> QED BY <2>1 DEF MakeSpaceBytes, Word
<1>2. ASSUME NEW v \in Nat, NEW limit \in Nat PROVE AllocVarBytes(v, limit) \in Word
  <2>1. (v + 1) * B \in Nat
    OBVIOUS
  <2>2. \A x \in Nat : x % W \in 0 .. W - 1
    OBVIOUS
  <2> QED BY <2>1, <2>2 DEF AllocVarBytes, Word
<1> QED BY <1>1, <1>2

(* new_trig never puts the trigger past the room it is given, and leaves the
   requested bytes before the trigger whenever the room has them. *)
LEMMA NewTriggerFits ==
  ASSUME NEW room \in Nat, NEW bytes \in Nat
  PROVE  /\ NewTrigger(room, bytes) \in 0 .. room
         /\ bytes <= room => bytes <= NewTrigger(room, bytes)
<1>1. GenSize \in Nat
  <2>1. CASE GenSizes = <<>>
    BY <2>1, WordAssumption DEF GenSize
  <2>2. CASE GenSizes # <<>>
    <3>1. GenSizes[1] \in Nat
      BY <2>2, KindAssumption
    <3>2. B * GenSizes[1] \in Nat
      BY <3>1, WordAssumption
    <3> QED BY <3>2, WordAssumption DEF GenSize
  <2> QED BY <2>1, <2>2
<1> QED BY <1>1 DEF NewTrigger

(* The words still free and the cells still to be copied, asked for together,
   make up the whole list: rounding down both loses no more than the one word
   AllocVar adds. *)
LEMMA AppendWordsCover ==
  ASSUME NEW m \in Nat, Room \in Nat, m * Cell > Room
  PROVE  /\ AppendWords(m) \in Nat
         /\ m * Cell <= (AppendWords(m) + 1) * B
<1> DEFINE q == Room \div Cell
           p == Room \div B
<1>1. B \in Nat /\ B > 0 /\ Cell = 3 * B /\ Cell \in Nat /\ Cell > 0
  BY WordAssumption DEF Cell
<1>2. \A d \in Nat : d > 0 => /\ Room \div d \in Nat
                              /\ d * (Room \div d) <= Room
                              /\ Room < d * (Room \div d) + d
  OBVIOUS
<1>3. q \in Nat /\ Cell * q <= Room
  BY <1>1, <1>2
<1>4. p \in Nat /\ Room < B * p + B
  BY <1>1, <1>2
<1> HIDE DEF p, q
<1>5. m - q \in Nat
  <2>1. Cell * q < Cell * m
    BY <1>1, <1>3
  <2> QED BY <2>1, <1>1, <1>3
<1>6. AppendWords(m) = 3 * (m - q) + p
  BY DEF AppendWords, CellsLeft, p, q
<1>7. (3 * (m - q) + p + 1) * B = m * Cell - Cell * q + (B * p + B)
  BY <1>1, <1>3, <1>4, <1>5
<1> QED BY <1>1, <1>3, <1>4, <1>5, <1>6, <1>7

LEMMA InitInv == Init => IInv
BY WordAssumption, HeapAssumption
   DEF Init, IInv, TypeOK, Layout, GrantFits, HaltOnlyWhenFull, OneGeneration, AppendAsked,
       Offset, Word, Ops

(* The sequences data_to_word emits: asking, and using what was granted. *)
LEMMA MutatorInv ==
  ASSUME IInv,
         \/ \E k \in Requests : MakeSpace(k)
         \/ \E v \in VarLengths, name \in Ops \ {"none", "ListAppend"} : AllocVar(name, v)
         \/ \E k \in 1 .. HeapLength : Cons(k) \/ Ref(k)
         \/ FromList \/ RefByte \/ ConsExtend \/ RefArray \/ ConfigGC
         \/ \E bytes \in Address : AnyArith(bytes)
  PROVE  IInv'
<1> USE WordAssumption, HeapAssumption DEF IInv, TypeOK, Layout, GrantFits,
        HaltOnlyWhenFull, OneGeneration, AppendAsked, Offset, Word, Ops, registers
<1>1. ASSUME NEW k \in Requests, MakeSpace(k) PROVE IInv'
  <2>1. MakeSpaceBytes(k) \in Word
    BY RequestIsWord
  <2> QED BY <1>1, <2>1 DEF MakeSpace, Ask
<1>2. ASSUME NEW v \in VarLengths, NEW name \in Ops \ {"none", "ListAppend"},
             AllocVar(name, v)
      PROVE  IInv'
  <2>1. AllocVarBytes(v, VarLimit) \in Word
    BY RequestIsWord, RequestAssumption, VarAssumption
  <2> QED BY <1>2, <2>1 DEF AllocVar, Ask
<1>3. ASSUME NEW k \in 1 .. HeapLength, Cons(k) \/ Ref(k) PROVE IInv'
  <2>1. k * B \in Nat
    BY HeapAssumption, WordAssumption
  <2> QED BY <1>3, <2>1 DEF Cons, Ref, Consume, BumpLeft, BumpRight
<1>4. CASE FromList \/ RefByte \/ ConsExtend \/ RefArray
  BY <1>4 DEF FromList, RefByte, ConsExtend, RefArray, FinishVar, BumpLeft, BumpRight
<1>5. ASSUME NEW bytes \in Address, AnyArith(bytes) PROVE IInv'
  BY <1>5 DEF AnyArith, FinishVar, BumpLeft, Address
<1>6. CASE ConfigGC
  BY <1>6 DEF ConfigGC
<1> QED BY <1>1, <1>2, <1>3, <1>4, <1>5, <1>6

(* A list is copied, or asked for again with a request that covers it. *)
LEMMA AppendInv == ASSUME IInv, NEW m \in Lists, ListAppend(m) PROVE IInv'
<1> USE WordAssumption, HeapAssumption DEF IInv, TypeOK, Layout, GrantFits,
        HaltOnlyWhenFull, OneGeneration, AppendAsked, Offset, Word, Ops, registers
<1>1. m \in Nat /\ m # 0 /\ Room \in Nat /\ m * Cell \in Nat /\ pc = "run"
  BY AppendAssumption DEF Room, Cell, ListAppend
<1>2. CASE AppendCommits(m)
  BY <1>1, <1>2 DEF AppendCommits, BumpLeft, Room
<1>3. CASE AppendStartsAgain(m)
  <2> DEFINE v == AppendWords(m)
             bytes == AllocVarBytes(v, AppendLimit)
  <2>1. v \in Nat /\ m * Cell <= (v + 1) * B
    BY <1>1, <1>3, AppendWordsCover DEF AppendStartsAgain
  <2>2. bytes \in Word
    BY <2>1, RequestIsWord, AppendAssumption
  <2>3. m * Cell <= bytes \/ bytes = W - 1
    <3>1. CASE v < AppendLimit
      <4>1. (v + 1) * B <= AppendLimit * B
        BY <3>1, <2>1, AppendAssumption
      <4>2. (v + 1) * B \in 0 .. W - 1
        BY <4>1, <2>1, AppendAssumption
      <4>3. ((v + 1) * B) % W = (v + 1) * B
        BY <4>2
      <4> QED BY <3>1, <4>3, <2>1 DEF AllocVarBytes
    <3>2. CASE ~(v < AppendLimit)
      BY <3>2 DEF AllocVarBytes
    <3> QED BY <3>1, <3>2
  <2>4. op' = "ListAppend" /\ cells' = m /\ Ask(bytes) /\ UNCHANGED <<gc_kind, registers>>
    BY <1>3 DEF AppendStartsAgain
  <2> HIDE DEF v, bytes
  <2>5. /\ pc' = "gc" => Covers(AllocSize)'
        /\ pc' = "run" => Covers(space)'
    BY <1>1, <2>3, <2>4 DEF Ask, Covers, Cell
  <2> QED BY <1>1, <2>2, <2>4, <2>5 DEF Ask
<1> QED BY <1>2, <1>3 DEF ListAppend

(* The collector stub. *)
LEMMA CollectorInv == ASSUME IInv, Gc PROVE IInv'
<1> USE WordAssumption, HeapAssumption DEF IInv, TypeOK, Layout, GrantFits,
        HaltOnlyWhenFull, OneGeneration, AppendAsked, Covers, Cell, Offset, Word, Ops,
        Return, ReturnOrHalt, Address
<1>1. CASE GcNone
  BY <1>1 DEF GcNone
<1>2. ASSUME NEW a \in Address, GcSimple(a) PROVE IInv'
  BY <1>2 DEF GcSimple
<1>3. ASSUME NEW a \in Address, GcPartial(a) PROVE IInv'
  <2>1. EndOfHeap - a \in Nat /\ AllocSize \in Nat /\ AllocSize <= EndOfHeap - a
    BY <1>3 DEF GcPartial, CanDoPartial
  <2>2. /\ NewTrigger(EndOfHeap - a, AllocSize) \in 0 .. EndOfHeap - a
        /\ AllocSize <= NewTrigger(EndOfHeap - a, AllocSize)
    BY <2>1, NewTriggerFits
  <2> QED BY <1>3, <2>1, <2>2 DEF GcPartial
<1>4. ASSUME NEW a \in Address, NEW b \in Address, GcFull(a, b) PROVE IInv'
  <2>1. b - a \in Nat /\ AllocSize \in Nat
    BY <1>4 DEF GcFull
  <2>2. /\ NewTrigger(b - a, AllocSize) \in 0 .. b - a
        /\ AllocSize <= b - a => AllocSize <= NewTrigger(b - a, AllocSize)
    BY <2>1, NewTriggerFits
  <2> QED BY <1>4, <2>1, <2>2 DEF GcFull
<1> QED BY <1>1, <1>2, <1>3, <1>4 DEF Gc

(* Every step keeps the invariant. *)
LEMMA NextInv == IInv /\ [Next]_vars => IInv'
<1> SUFFICES ASSUME IInv, [Next]_vars PROVE IInv'
  OBVIOUS
<1>1. CASE UNCHANGED vars \/ Stopped
  BY <1>1 DEF vars, Stopped, IInv, TypeOK, Layout, GrantFits, HaltOnlyWhenFull, OneGeneration,
     AppendAsked, Covers
<1>2. CASE Gc
  BY <1>2, CollectorInv
<1>3. CASE \E m \in Lists : ListAppend(m)
  BY <1>3, AppendInv
<1>4. CASE Next /\ ~Gc /\ ~Stopped /\ ~\E m \in Lists : ListAppend(m)
  BY <1>4, MutatorInv DEF Next
<1> QED BY <1>1, <1>2, <1>3, <1>4

LEMMA InvHolds == Spec => []IInv
BY InitInv, NextInv, PTL DEF Spec

(* The registers stay in order, and every grant is covered by free memory in
   front of the trigger, although the minor collection checks nothing. *)
THEOREM SpaceSafe == Spec => [](TypeOK /\ Layout /\ GrantFits)
<1>1. IInv => TypeOK /\ Layout /\ GrantFits
  BY DEF IInv
<1> QED BY <1>1, InvHolds, PTL

(* A program is stopped for lack of memory only when its request does not fit
   between the live data and the live references. *)
THEOREM HaltsWhenFull == Spec => []HaltOnlyWhenFull
<1>1. IInv => HaltOnlyWhenFull
  BY DEF IInv
<1> QED BY <1>1, InvHolds, PTL

(* A list append that starts again has room for the list. *)
THEOREM AppendsOnce == Spec => []AppendOnce
<1>1. IInv => AppendOnce
  <2>1. ASSUME IInv, op = "ListAppend", pc = "run" PROVE cells * Cell <= Room
    <3>1. space <= Room /\ Room < W - 1
      BY <2>1, WordAssumption, HeapAssumption
         DEF IInv, TypeOK, GrantFits, Layout, Offset, Word, Room
    <3>2. cells * Cell <= space \/ space = W - 1
      BY <2>1 DEF IInv, AppendAsked, Covers
    <3>3. cells * Cell \in Nat /\ space \in Nat /\ Room \in Int
      BY <2>1, WordAssumption, HeapAssumption DEF IInv, TypeOK, Cell, Word, Offset, Room
    <3> QED BY <3>1, <3>2, <3>3, WordAssumption
  <2> QED BY <2>1 DEF IInv, AppendOnce
<1> QED BY <1>1, InvHolds, PTL

(* A MakeSpace is granted as much as it asks for, or calls the collector for
   that much or for what no heap can give: it is never cut down to a word. *)
THEOREM GrantsAreWhole == Spec => GrantWhole
<1> DEFINE Whole(k) ==
      IF pc' = "run" THEN space' = k * B
      ELSE AllocSize' = k * B \/ (AllocSize' > HeapLength /\ k * B > HeapLength)
<1>1. ASSUME IInv, NEW k \in Requests, MakeSpace(k) PROVE Whole(k)
  <2>1. k * B \in Nat /\ W \in Nat /\ HeapLength \in Nat /\ HeapLength < W - 1
    BY WordAssumption, HeapAssumption, RequestAssumption
  <2>2. pc = "run" /\ Ask(MakeSpaceBytes(k))
    BY <1>1 DEF MakeSpace
  <2>3. CASE k * B < W
    BY <2>2, <2>3 DEF Ask, MakeSpaceBytes
  <2>4. CASE ~(k * B < W)
    <3>1. MakeSpaceBytes(k) = W - 1
      BY <2>4 DEF MakeSpaceBytes
    <3>2. TriggerGC - NextFree <= HeapLength
      BY <1>1, HeapAssumption DEF IInv, TypeOK, Offset
    <3>3. TriggerGC - NextFree \in Int
      BY <1>1, HeapAssumption DEF IInv, TypeOK, Offset
    <3>4. AllocSize' = W - 1 /\ pc' = "gc"
      BY <2>1, <2>2, <3>1, <3>2, <3>3 DEF Ask
    <3> QED BY <2>1, <2>4, <3>4
  <2> QED BY <2>3, <2>4
<1>2. IInv => \A k \in Requests : MakeSpace(k) => Whole(k)
  BY <1>1
<1> QED BY <1>2, InvHolds, PTL DEF Spec, GrantWhole

------------------------------------------------------------------------------
(***************************************************************************)
(* The counters of the debugging runtime.  AllocationCounted is inductive  *)
(* once the numbers in it are known to be integers; for NextFree the       *)
(* invariant above gives that.  With an empty message the flag changes and *)
(* the program goes on, so their number counts for it as a collection in   *)
(* progress does.                                                          *)
(***************************************************************************)
CountersInt ==
  /\ prevOcc \in Int /\ numAllocBytes \in Int /\ data \in Int /\ empty \in Nat

\* One call of length 0 more.
LEMMA Flips ==
  ASSUME NEW k \in Nat
  PROVE  k % 2 \in {0, 1} /\ (k % 2 = 0 <=> (k + 1) % 2 = 1)
OBVIOUS

TraceInv == IInv /\ CountersInt /\ AllocationCounted

LEMMA TraceInitInv == TraceInit => TraceInv
<1> SUFFICES ASSUME TraceInit PROVE TraceInv
  OBVIOUS
<1>1. IInv
  BY InitInv DEF TraceInit
<1> QED BY <1>1 DEF TraceInit, Init, TraceInv, CountersInt, AllocationCounted

(* A traced program takes the steps of HeapSpace. *)
LEMMA TraceStep == TraceNext => [Next]_vars
BY DEF TraceNext, Compute, Allocate, Collect, Exhausted, Finish, Exit, debugMsg, traced

(* The collector returns or stops the program. *)
LEMMA CollectorLeaves == pc = "gc" /\ Next => pc' # "gc"
<1> SUFFICES ASSUME pc = "gc", Next PROVE pc' # "gc"
  OBVIOUS
<1>1. CASE Gc
  BY <1>1 DEF Gc, GcNone, GcSimple, GcPartial, GcFull, Return, ReturnOrHalt
<1>2. CASE ~Gc
  BY <1>2 DEF Next, MakeSpace, AllocVar, Cons, Ref, Consume, FromList, RefByte, ConsExtend,
     RefArray, FinishVar, ConfigGC, AnyArith, ListAppend, Stopped
<1> QED BY <1>1, <1>2

LEMMA TraceNextInv == TraceInv /\ [TraceNext]_traced => TraceInv'
<1> SUFFICES ASSUME TraceInv, [TraceNext]_traced PROVE TraceInv'
  OBVIOUS
<1>1. IInv'
  BY TraceStep, NextInv DEF TraceInv, traced
<1>2. NextFree \in Int /\ NextFree' \in Int
  BY <1>1, HeapAssumption DEF TraceInv, IInv, TypeOK, Offset
<1> USE DEF TraceInv, CountersInt, AllocationCounted
<1>3. CASE UNCHANGED traced
  <2>1. UNCHANGED vars /\ UNCHANGED counters /\ UNCHANGED <<data, empty>>
    BY <1>3 DEF traced
  <2>2. UNCHANGED <<pc, NextFree, inGC, prevOcc, numAllocBytes, data, empty>>
    BY <2>1 DEF vars, registers, counters
  <2> QED BY <1>1, <2>2
<1>4. CASE Compute
  <2>1. IInv => pc \in {"run", "gc", "halt"}
    BY DEF IInv, TypeOK
  <2>2. pc = "run" /\ pc' = "run"
    BY <1>4, <2>1, CollectorLeaves DEF Compute
  <2> QED BY <1>1, <1>2, <1>4, <2>2 DEF Compute, counters
<1>5. CASE Allocate
  <2>1. pc = "run" /\ pc' = "gc" /\ ffi(NextFree, 0) /\ UNCHANGED <<data, empty>>
    BY <1>5 DEF Allocate, SilentFFI
  <2>2. inGC = empty % 2 /\ inGC' = (1 + empty) % 2
    BY <2>1, Flips DEF ffi, GcStops, GcStarts
  <2>3. CountersInt'
    BY <1>2, <2>1 DEF ffi, GcStops, GcStarts
  <2>4. ASSUME empty = 0 PROVE data' - numAllocBytes' = 0
    <3>1. GcStarts(NextFree)
      BY <2>1, <2>2, <2>4 DEF ffi, GcStops
    <3> QED BY <1>2, <2>1, <2>4, <3>1 DEF GcStarts
  <2> QED BY <1>1, <2>1, <2>2, <2>3, <2>4
<1>6. CASE Collect
  <2>1. pc = "gc" /\ pc' = "run" /\ ffi(NextFree', 0) /\ UNCHANGED <<data, empty>>
    BY <1>6 DEF Collect, SilentFFI
  <2>2. inGC = (1 + empty) % 2 /\ inGC' = empty % 2
    BY <2>1, Flips DEF ffi, GcStops, GcStarts
  <2>3. CountersInt'
    BY <1>2, <2>1 DEF ffi, GcStops, GcStarts
  <2>4. ASSUME empty = 0 PROVE data' - numAllocBytes' = NextFree' - prevOcc'
    <3>1. GcStops(NextFree')
      BY <2>1, <2>2, <2>4 DEF ffi, GcStarts
    <3>2. prevOcc' = NextFree' /\ numAllocBytes' = numAllocBytes /\ data - numAllocBytes = 0
      BY <2>1, <2>4, <3>1 DEF GcStops
    <3>3. data' - numAllocBytes' = 0
      BY <2>1, <3>2
    <3>4. \A x \in Int : x - x = 0
      OBVIOUS
    <3>5. NextFree' - prevOcc' = 0
      BY <1>2, <3>2, <3>4, Zenon
    <3> QED BY <3>3, <3>5
  <2> QED BY <1>1, <2>1, <2>2, <2>3, <2>4
<1>7. CASE Exhausted
  <2>1. pc = "gc" /\ pc' = "halt" /\ UNCHANGED counters /\ UNCHANGED <<data, empty>>
    BY <1>7 DEF Exhausted, cml_exit
  <2>2. UNCHANGED <<inGC, prevOcc, numAllocBytes>>
    BY <2>1 DEF counters
  <2> QED BY <1>1, <2>1, <2>2
<1>8. ASSUME NEW arg \in {0, 2}, Finish(arg) PROVE TraceInv'
  BY <1>1, <1>2, <1>8 DEF Finish, cml_exit, counters, vars, registers
<1>9. ASSUME NEW a \in Codes, Exit(a) PROVE TraceInv'
  BY <1>1, <1>2, <1>9 DEF Exit, ffiexit, counters, vars, registers
<1>10. ASSUME NEW n \in Messages, debugMsg(n) PROVE TraceInv'
  <2>1. pc = "run" /\ UNCHANGED <<pc, NextFree, data>>
    BY <1>10 DEF debugMsg, vars
  <2>2. CASE n # 0
    BY <1>1, <1>10, <2>1, <2>2 DEF debugMsg, ffi
  <2>3. CASE n = 0
    <3>1. PICK c \in Texts : ffi(c, 0)
      BY <1>10, <2>3 DEF debugMsg
    <3>2. empty' = empty + 1 /\ c \in Nat
      BY <1>10, <2>3, MessageAssumption DEF debugMsg
    <3>3. inGC' = (empty + 1) % 2
      BY <2>1, <3>1, Flips DEF ffi, GcStops, GcStarts
    <3>4. CountersInt' /\ empty' # 0
      BY <2>1, <3>1, <3>2 DEF ffi, GcStops, GcStarts
    <3> QED BY <1>1, <2>1, <3>2, <3>3, <3>4
  <2> QED BY <2>2, <2>3
<1> QED BY <1>3, <1>4, <1>5, <1>6, <1>7, <1>8, <1>9, <1>10 DEF TraceNext

(* Whatever the collector frees and however often it runs, the bytes the
   runtime has counted and the bytes in use since the last collection make up
   what the program has put at the left end, as long as it has printed no
   empty message; and after an even number of those the runtime knows again
   whether it is in a collection. *)
THEOREM AllocationExact == TraceSpec => []AllocationCounted
<1>1. TraceInv => AllocationCounted
  BY DEF TraceInv
<1> QED BY <1>1, TraceInitInv, TraceNextInv, PTL DEF TraceSpec
=============================================================================
