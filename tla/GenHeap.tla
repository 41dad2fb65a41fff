------------------------------- MODULE GenHeap -------------------------------
(***************************************************************************)
(* The CakeML heap and its copying collectors, one pointer at a time.      *)
(*                                                                         *)
(* The program (data_to_word's code for dataLang) allocates immutable data *)
(* at NextFree, from the left, and mutable references below EndOfHeap,     *)
(* from the right.  A MakeSpace that does not find room calls the          *)
(* collector, which is either                                              *)
(*   - the simple copying collector (copying_gc): everything to the left;  *)
(*   - the major collection (gen_gc): data to the left, references to the  *)
(*     right, alternating between the two scans; or                        *)
(*   - the minor collection (gen_gc_partial): data allocated since the     *)
(*     last collection only, with all references as further roots.         *)
(* Sizes and addresses are in words, relative to CurrHeap.  A heap maps    *)
(* each address to the element that starts there, or to Unused.            *)
(***************************************************************************)
EXTENDS Integers, Sequences, FiniteSets

CONSTANTS
  Limit,      \* conf.limit: words in one semispace
  NRoots,     \* length of the root list (Globals and the live variables)
  MaxPtrs,    \* most pointers in one element
  RawLens,    \* payloads of elements without pointers (boxed words, say)
  Requests,   \* words a MakeSpace asks for
  GcKinds,    \* values of conf.gc_kind: "Simple", "Generational"
  GenSizes    \* the sizes of Generational, in words

ASSUME LimitAssumption == Limit \in Nat \ {0}
ASSUME ShapeAssumption ==
  NRoots \in Nat \ {0} /\ MaxPtrs \in Nat \ {0} /\ RawLens \subseteq Nat
ASSUME KindAssumption ==
  /\ GcKinds \subseteq {"Simple", "Generational"}
  /\ GenSizes \in Seq(Nat) /\ Requests \subseteq Nat

VARIABLES
  gc_kind,    \* the collector the program was compiled for
  heap,       \* the semispace in use; during a collection, the old heap
  to,         \* the heap a collection builds
  root,       \* the root list
  NextFree, TriggerGC, EndOfHeap, GenStart,  \* the registers of HeapSpace
  AllocSize, space,
  phase,      \* "run", "halt", or where the collector is
  partial,    \* do_partial: a minor collection
  a, n,       \* next free word of to, and how many are free there
  h1,         \* end of the processed data: [h1, a) is h2
  r3, r2, r1, \* where these lists of references start; r4 starts at a + n
  i,          \* the next pointer of the list being moved
  clock,      \* gc_move_loop's
  ok          \* the collector's internal checks so far

registers == <<gc_kind, NextFree, TriggerGC, EndOfHeap, GenStart>>
collector == <<to, phase, partial, a, n, h1, r3, r2, r1, i, clock, ok>>
vars == <<heap, root, AllocSize, space, registers, collector>>

Addr == 0 .. Limit - 1
Data == -1                    \* any word that is not a pointer
Val == Addr \cup {Data}
RootList == 1 .. NRoots
Id == 1 .. Limit + 1            \* what distinguishes the elements of a heap

Unused == [kind |-> "unused", ptrs |-> <<>>, len |-> 0, to |-> Data, id |-> 0]
DataElement(kind, ptrs, len, id) ==
  [kind |-> kind, ptrs |-> ptrs, len |-> len, to |-> Data, id |-> id]
ForwardPointer(ptr, len) ==
  [kind |-> "fwd", ptrs |-> <<>>, len |-> len, to |-> ptr, id |-> 0]

isDataElement(e) == e.kind \in {"data", "ref"}
el_length(e) == e.len + 1

Init ==
  /\ gc_kind \in GcKinds
  /\ heap = [x \in Addr |-> Unused] /\ to = heap
  /\ root = [r \in RootList |-> Data]
  /\ NextFree = 0
  /\ TriggerGC = IF gc_kind = "Generational" THEN 0 ELSE Limit
  /\ EndOfHeap = Limit
  /\ GenStart = 0
  /\ AllocSize = 0 /\ space = 0
  /\ phase = "run" /\ partial = FALSE
  /\ a = 0 /\ n = 0 /\ h1 = 0 /\ r3 = 0 /\ r2 = 0 /\ r1 = 0 /\ i = 1
  /\ clock = 0 /\ ok = TRUE

(***************************************************************************)
(* The program.                                                            *)
(***************************************************************************)
CanDoPartial(alloc) ==
  gc_kind = "Generational" /\ GenSizes # <<>> /\ alloc <= EndOfHeap - TriggerGC

\* Mutant: the references are not roots of a minor collection.
StartMinorNoRefs ==
  /\ partial' = TRUE
  /\ to' = [x \in Addr |->
             IF x < GenStart \/ EndOfHeap <= x THEN heap[x] ELSE Unused]
  /\ a' = GenStart /\ n' = EndOfHeap - GenStart /\ h1' = GenStart
  /\ r3' = Limit /\ r2' = Limit /\ r1' = Limit

\* The collectors' initial states.  The references of a minor collection are
\* processed where they are, as r2; the old generation is never touched.
StartMinor ==
  /\ partial' = TRUE
  /\ to' = [x \in Addr |->
             IF x < GenStart \/ EndOfHeap <= x THEN heap[x] ELSE Unused]
  /\ a' = GenStart /\ n' = EndOfHeap - GenStart /\ h1' = GenStart
  /\ r3' = EndOfHeap /\ r2' = EndOfHeap /\ r1' = Limit

StartMajor ==
  /\ partial' = FALSE
  /\ to' = [x \in Addr |-> Unused]
  /\ a' = 0 /\ n' = Limit /\ h1' = 0
  /\ r3' = Limit /\ r2' = Limit /\ r1' = Limit

CallCollector(alloc) ==
  /\ AllocSize' = alloc
  /\ phase' = "roots"
  /\ i' = 1 /\ ok' = TRUE /\ clock' = Limit
  /\ IF CanDoPartial(alloc) THEN StartMinor ELSE StartMajor

\* MakeSpace k names: only the variables in names survive it.
MakeSpace(k, names) ==
  /\ phase = "run"
  /\ root' = [r \in RootList |-> IF r \in names THEN root[r] ELSE Data]
  /\ IF TriggerGC - NextFree < k
     THEN CallCollector(k) /\ UNCHANGED space
     ELSE space' = k /\ UNCHANGED <<AllocSize, collector>>
  /\ UNCHANGED <<heap, registers>>

\* The program asks for a collection.
ConfigGC(names) ==
  /\ phase = "run"
  /\ root' = [r \in RootList |-> IF r \in names THEN root[r] ELSE Data]
  /\ CallCollector(0)
  /\ UNCHANGED <<heap, space, registers>>

FreshId == CHOOSE d \in Id : \A x \in Addr : heap[x].id # d

\* What the program can put in an element: words and values it holds.
Held == {Data} \cup {root[r] : r \in RootList}
PtrLists == UNION {[1 .. k -> Held] : k \in 1 .. MaxPtrs}

Allocate(r, x, e) ==
  /\ phase = "run"
  /\ el_length(e) <= space
  /\ space' = space - el_length(e)
  /\ heap' = [heap EXCEPT ![x] = e]
  /\ root' = [root EXCEPT ![r] = x]
  /\ UNCHANGED <<AllocSize, collector>>

AllocateLeft(r, e) ==
  /\ Allocate(r, NextFree, e)
  /\ NextFree' = NextFree + el_length(e)
  /\ UNCHANGED <<gc_kind, TriggerGC, EndOfHeap, GenStart>>

Cons(r, ptrs) == AllocateLeft(r, DataElement("data", ptrs, Len(ptrs), FreshId))
Box(r, len) == AllocateLeft(r, DataElement("data", <<>>, len, FreshId))

Ref(r, ptrs) ==
  LET e == DataElement("ref", ptrs, Len(ptrs), FreshId)
  IN  /\ Allocate(r, EndOfHeap - el_length(e), e)
      /\ TriggerGC' = TriggerGC - el_length(e)
      /\ EndOfHeap' = EndOfHeap - el_length(e)
      /\ UNCHANGED <<gc_kind, NextFree, GenStart>>

\* Only references are written to after they are allocated.
Update(r, j, v) ==
  /\ phase = "run"
  /\ root[r] # Data /\ heap[root[r]].kind = "ref" /\ j <= Len(heap[root[r]].ptrs)
  /\ heap' = [heap EXCEPT ![root[r]].ptrs[j] = v]
  /\ UNCHANGED <<root, AllocSize, space, registers, collector>>

El(r, s, j) ==
  /\ phase = "run"
  /\ root[s] # Data /\ j <= Len(heap[root[s]].ptrs)
  /\ root' = [root EXCEPT ![r] = heap[root[s]].ptrs[j]]
  /\ UNCHANGED <<heap, AllocSize, space, registers, collector>>

Move(r, s) ==
  /\ phase = "run"
  /\ root' = [root EXCEPT ![r] = root[s]]
  /\ UNCHANGED <<heap, AllocSize, space, registers, collector>>

(***************************************************************************)
(* gc_move: what becomes of a pointer, and of the state.                   *)
(***************************************************************************)
\* Mutant: the first young element is taken for an old one.
OutsideOffByOne(ptr) == partial /\ (ptr <= GenStart \/ EndOfHeap <= ptr)

\* Pointers a minor collection leaves as they are.
Outside(ptr) == partial /\ (ptr < GenStart \/ EndOfHeap <= ptr)

\* References go to the right end of the new heap, except in copying_gc.
ToRight(e) == e.kind = "ref" /\ ~partial /\ gc_kind = "Generational"

Minus(x, y) == IF y <= x THEN x - y ELSE 0    \* subtraction of numbers in HOL

\* Mutant: no forward pointer is left behind.
gc_copy_twice(ptr, e) ==
  LET m == Minus(n, el_length(e))
      dest == IF ToRight(e) THEN a + m ELSE a
  IN  [val  |-> dest,
       heap |-> heap,
       to   |-> [to EXCEPT ![dest] = e],
       a    |-> IF ToRight(e) THEN a ELSE a + el_length(e),
       n    |-> m,
       ok   |-> /\ ok /\ el_length(e) <= n
                /\ gc_kind = "Simple" => a + n = Limit
                /\ partial => e.kind # "ref"]

gc_copy(ptr, e) ==
  LET m == Minus(n, el_length(e))
      dest == IF ToRight(e) THEN a + m ELSE a
  IN  [val  |-> dest,
       heap |-> [heap EXCEPT ![ptr] = ForwardPointer(dest, e.len)],
       to   |-> [to EXCEPT ![dest] = e],
       a    |-> IF ToRight(e) THEN a ELSE a + el_length(e),
       n    |-> m,
       ok   |-> /\ ok /\ el_length(e) <= n
                /\ gc_kind = "Simple" => a + n = Limit
                /\ partial => e.kind # "ref"]

gc_same(v, good) ==
  [val |-> v, heap |-> heap, to |-> to, a |-> a, n |-> n, ok |-> ok /\ good]

gc_move(v) ==
  CASE v = Data                        -> gc_same(v, TRUE)
    [] v # Data /\ Outside(v)          -> gc_same(v, TRUE)
    [] v # Data /\ ~Outside(v) /\ isDataElement(heap[v])  -> gc_copy(v, heap[v])
    [] v # Data /\ ~Outside(v) /\ heap[v].kind = "fwd"    -> gc_same(heap[v].to, TRUE)
    [] v # Data /\ ~Outside(v) /\ heap[v].kind = "unused" -> gc_same(v, FALSE)

\* The part of the state gc_move changes, but for to.
Moved(m) == heap' = m.heap /\ a' = m.a /\ n' = m.n

\* Mutant: the moved root is not written back.
MoveRootLost ==
  /\ phase = "roots" /\ i <= NRoots
  /\ LET m == gc_move(root[i]) IN
       Moved(m) /\ ok' = m.ok /\ to' = m.to /\ root' = root
  /\ i' = i + 1
  /\ UNCHANGED <<AllocSize, space, registers, phase, partial, h1, r3, r2, r1, clock>>

MoveRoot ==
  /\ phase = "roots" /\ i <= NRoots
  /\ LET m == gc_move(root[i]) IN
       Moved(m) /\ ok' = m.ok /\ to' = m.to /\ root' = [root EXCEPT ![i] = m.val]
  /\ i' = i + 1
  /\ UNCHANGED <<AllocSize, space, registers, phase, partial, h1, r3, r2, r1, clock>>

RootsDone ==
  /\ phase = "roots" /\ i > NRoots
  /\ phase' = IF partial THEN "refs" ELSE "loop"
  /\ i' = 1
  /\ UNCHANGED <<heap, root, AllocSize, space, registers,
                 to, partial, a, n, h1, r3, r2, r1, clock, ok>>

\* One pointer of the element of the new heap at x.
MoveField(x) ==
  /\ i <= Len(to[x].ptrs)
  /\ LET m == gc_move(to[x].ptrs[i]) IN
       /\ Moved(m) /\ ok' = m.ok
       /\ to' = [m.to EXCEPT ![x].ptrs[i] = m.val]
  /\ i' = i + 1
  /\ UNCHANGED <<root, AllocSize, space, registers, phase, partial, h1, r3, r2, r1, clock>>

\* Nothing but data elements, and no more of them than fit.
NextElement(x, fits) ==
  /\ i > Len(to[x].ptrs)
  /\ i' = 1
  /\ ok' = (ok /\ isDataElement(to[x]) /\ fits)
  /\ UNCHANGED <<heap, root, AllocSize, space, registers,
                 to, phase, partial, a, n, r3, r1, clock>>

(***************************************************************************)
(* gc_move_refs and gc_move_ref_list: the references of r2, into r3.       *)
(***************************************************************************)
MoveRefField == phase = "refs" /\ r2 < r1 /\ MoveField(r2)

NextRef ==
  /\ phase = "refs" /\ r2 < r1
  /\ NextElement(r2, TRUE)
  /\ r2' = r2 + el_length(to[r2])
  /\ UNCHANGED h1

\* The rounds of gc_move_loop count down its clock.
Round ==
  phase' = "loop" /\ clock' = Minus(clock, 1) /\ ok' = (ok /\ clock # 0)

RefsDone ==
  /\ phase = "refs" /\ r2 >= r1
  /\ r1' = r3 /\ r2' = r3
  /\ IF partial THEN phase' = "data" /\ UNCHANGED <<clock, ok>> ELSE Round
  /\ UNCHANGED <<heap, root, AllocSize, space, registers,
                 to, partial, a, n, h1, r3, i>>

(***************************************************************************)
(* gc_move_data: the data of h2, into h1.                                  *)
(***************************************************************************)
MoveDataField == phase = "data" /\ h1 < a /\ MoveField(h1)

NextData ==
  /\ phase = "data" /\ h1 < a
  /\ NextElement(h1, a - (IF partial THEN GenStart ELSE 0) <= Limit)
  /\ h1' = h1 + el_length(to[h1])
  /\ UNCHANGED r2

DataDone ==
  /\ phase = "data" /\ h1 >= a
  /\ IF partial THEN phase' = "done" /\ UNCHANGED <<clock, ok>> ELSE Round
  /\ UNCHANGED <<heap, root, AllocSize, space, registers,
                 to, partial, a, n, h1, r3, r2, r1, i>>

(***************************************************************************)
(* gc_move_loop: references first, then data, until neither is left.       *)
(***************************************************************************)
LoopRefs ==
  /\ phase = "loop" /\ a + n < r3
  /\ r3' = a + n /\ r2' = a + n
  /\ phase' = "refs"
  /\ UNCHANGED <<heap, root, AllocSize, space, registers,
                 to, partial, a, n, h1, r1, i, clock, ok>>

\* Mutant: the loop goes on when there is nothing left to scan.
LoopEndLate ==
  /\ phase = "loop" /\ a + n >= r3
  /\ phase' = IF h1 <= a THEN "data" ELSE "done"
  /\ UNCHANGED <<heap, root, AllocSize, space, registers,
                 to, partial, a, n, h1, r3, r2, r1, i, clock, ok>>

LoopEnd ==
  /\ phase = "loop" /\ a + n >= r3
  /\ phase' = IF h1 < a THEN "data" ELSE "done"
  /\ UNCHANGED <<heap, root, AllocSize, space, registers,
                 to, partial, a, n, h1, r3, r2, r1, i, clock, ok>>

(***************************************************************************)
(* word_gc_fun: the new registers, and the check after a major collection. *)
(***************************************************************************)
GenSize == IF GenSizes = <<>> THEN Limit + 1 ELSE GenSizes[1]

\* Mutant: the size of the request does not count.
new_trig_size_only(room, alloc) == IF room < GenSize THEN room ELSE GenSize

new_trig(room, alloc) ==
  IF alloc <= GenSize THEN IF room < GenSize THEN room ELSE GenSize
  ELSE IF room < alloc THEN room ELSE alloc

Finish ==
  /\ phase = "done"
  /\ heap' = to /\ NextFree' = a
  /\ IF gc_kind = "Simple"
     THEN TriggerGC' = Limit /\ EndOfHeap' = Limit /\ UNCHANGED GenStart
     ELSE /\ GenStart' = a
          /\ EndOfHeap' = IF partial THEN EndOfHeap ELSE a + n
          /\ TriggerGC' = a + new_trig(EndOfHeap' - a, AllocSize)
  /\ IF ~partial /\ TriggerGC' - a < AllocSize
     THEN phase' = "halt" /\ UNCHANGED space
     ELSE phase' = "run" /\ space' = AllocSize
  /\ to' = [x \in Addr |-> Unused]
  /\ a' = 0 /\ n' = 0 /\ h1' = 0 /\ r3' = 0 /\ r2' = 0 /\ r1' = 0 /\ i' = 1
  /\ partial' = FALSE /\ clock' = 0
  /\ UNCHANGED <<gc_kind, root, AllocSize, ok>>

\* NotEnoughSpace: the program has stopped.
Halted == phase = "halt" /\ UNCHANGED vars

Collect ==
  \/ MoveRoot \/ RootsDone
  \/ MoveRefField \/ NextRef \/ RefsDone
  \/ MoveDataField \/ NextData \/ DataDone
  \/ LoopRefs \/ LoopEnd \/ Finish

Program ==
  \/ \E k \in Requests, names \in SUBSET RootList : MakeSpace(k, names)
  \/ \E names \in SUBSET RootList : ConfigGC(names)
  \/ \E r \in RootList, ptrs \in PtrLists : Cons(r, ptrs) \/ Ref(r, ptrs)
  \/ \E r \in RootList, len \in RawLens : Box(r, len)
  \/ \E r \in RootList, j \in 1 .. MaxPtrs, v \in Held : Update(r, j, v)
  \/ \E r, s \in RootList, j \in 1 .. MaxPtrs : El(r, s, j)
  \/ \E r, s \in RootList : Move(r, s)

Next == Program \/ Collect \/ Halted

\* The collector is a subroutine: once called, it runs.
Spec == Init /\ [][Next]_vars /\ WF_vars(Collect)

-----------------------------------------------------------------------------
Element ==
  [kind : {"unused", "data", "ref", "fwd"}, ptrs : Seq(Val), len : Nat,
   to : Int, id : Nat]

(* One type invariant, checked as part of HeapOk.  That addresses computed by
   a collection stay in the semispace is not part of it: see CollectorOk. *)
TypeOK ==
  /\ heap \in [Addr -> Element] /\ to \in [Addr -> Element]
  /\ root \in [RootList -> Val]
  /\ phase \in {"run", "roots", "loop", "refs", "data", "done", "halt"}
  /\ partial \in BOOLEAN /\ ok \in BOOLEAN
  /\ registers \in GcKinds \X Int \X Int \X Int \X Int
  /\ AllocSize \in Nat /\ space \in Nat /\ clock \in Nat
  /\ a \in Nat /\ n \in Nat /\ h1 \in Nat /\ i \in Nat
  /\ r3 \in Nat /\ r2 \in Nat /\ r1 \in Nat

Running == phase \in {"run", "halt"}

Starts(h) == {x \in Addr : h[x].kind # "unused"}
Words(h, x) == x .. x + h[x].len
Points(h, x) == {h[x].ptrs[j] : j \in 1 .. Len(h[x].ptrs)} \ {Data}

(* The collector's own checks (the field ok of gc_state: room for every
   object copied, no pointer to anything but an element, no young reference
   in a minor collection, the clock of gc_move_loop) never fail.  The code
   the compiler emits does not have them.  The one for room rests on gc_inv's
   account of it: what is still to be copied fits in what is left, whatever
   turns out to be alive. *)
RoomForTheRest ==
  phase \in {"roots", "loop", "refs", "data"} =>
    LET Left == {x \in Addr : ~Outside(x) /\ isDataElement(heap[x])}
    IN  Cardinality(UNION {Words(heap, x) : x \in Left}) <= n
CollectorOk == ok /\ RoomForTheRest

(* unused_space_inv: nothing lies between NextFree and EndOfHeap, and what
   lies on either side is tiled by elements without a gap, so the next
   collection can walk it. *)
NoGaps == UNION {Words(heap, x) : x \in Starts(heap)} = Addr \ (NextFree .. EndOfHeap - 1)

(* gc_kind_inv for the generational collector: references are exactly the
   elements at the right, and nothing in the old generation points into the
   young one, so a minor collection need not look at it. *)
GenerationsOk ==
  gc_kind = "Generational" =>
    /\ \A x \in Starts(heap) : heap[x].kind = "ref" <=> EndOfHeap <= x
    /\ \A x \in Starts(heap) : x < GenStart =>
         \A p \in Points(heap, x) : p < GenStart \/ EndOfHeap <= p

(* heap_ok and roots_ok, whenever the program runs: elements do not overlap
   or leave the heap, none is a forward pointer left by a collection, every
   pointer leads to the start of an element, and the regions are in order. *)
HeapOk ==
  /\ TypeOK
  /\ Running =>
       /\ \A x \in Starts(heap) : isDataElement(heap[x]) /\ Words(heap, x) \subseteq Addr
       /\ \A x, y \in Starts(heap) : x # y => Words(heap, x) \cap Words(heap, y) = {}
       /\ \A x \in Starts(heap) : Points(heap, x) \subseteq Starts(heap)
       /\ \A r \in RootList : root[r] \in Starts(heap) \cup {Data}
       /\ NoGaps
       /\ GenerationsOk

(* The forward pointers of gc_inv: during a collection they are a bijection
   onto the elements copied so far, so nothing is copied twice or lost, and
   sharing and cycles survive. *)
Copied == {x \in Starts(to) : ~Outside(x)}
Forwarded == {x \in Addr : heap[x].kind = "fwd"}
ForwardBijection ==
  ~Running =>
    /\ \A x \in Forwarded : heap[x].to \in Copied /\ to[heap[x].to].len = heap[x].len
    /\ \A x, y \in Forwarded : heap[x].to = heap[y].to => x = y
    /\ \A y \in Copied : \E x \in Forwarded : heap[x].to = y

(* A collection, once called, gives the program back its turn or stops it. *)
CollectionEnds == phase = "roots" ~> Running
=============================================================================
