---------------------------- MODULE GenHeapProofs -----------------------------
(***************************************************************************)
(* The heap is well formed between collections, a collection copies each   *)
(* element once, keeps no garbage and never runs out of room, the          *)
(* registers move as HeapSpace says, and the program sees the store of     *)
(* MLStore, whatever the sizes of heap and generation and whatever the     *)
(* program does.                                                           *)
(***************************************************************************)
EXTENDS GenHeapRefinement, FiniteSetTheorems, SequenceTheorems, WellFoundedInduction, TLAPS

(***************************************************************************)
(* The words from lo to hi - 1 are those of elements, one after the other, *)
(* or of none.                                                             *)
(***************************************************************************)
Begins(h, x) == h[x].kind # "unused"
Tiled(h, lo, hi) ==
  /\ \A x \in lo .. hi - 1 : Begins(h, x) => x + h[x].len < hi
  /\ \A x, y \in lo .. hi - 1 : Begins(h, x) /\ Begins(h, y) /\ x < y => x + h[x].len < y
  /\ \A y \in lo .. hi - 1 : \E x \in lo .. y : Begins(h, x) /\ y <= x + h[x].len
Free(h, lo, hi) == \A x \in lo .. hi - 1 : ~Begins(h, x)

(***************************************************************************)
(* The inductive invariant.  What holds whenever the program runs:         *)
(***************************************************************************)
InOrder ==
  /\ gc_kind \in GcKinds
  /\ GenStart \in Nat /\ NextFree \in Nat /\ TriggerGC \in Nat /\ EndOfHeap \in Nat
  /\ GenStart <= NextFree /\ NextFree <= TriggerGC /\ TriggerGC <= EndOfHeap
  /\ EndOfHeap <= Limit
  /\ gc_kind = "Simple" => GenStart = 0

\* The heap on both sides of the gap, and its old generation.
Shape(h) ==
  /\ h \in [Addr -> Element]
  /\ Tiled(h, 0, NextFree) /\ Tiled(h, 0, GenStart)
  /\ Free(h, NextFree, EndOfHeap) /\ Tiled(h, EndOfHeap, Limit)

Lead(h, x) == Points(h, x) \subseteq Starts(h)
AtRest ==
  /\ Shape(heap) /\ GenerationsOk
  /\ \A x \in Starts(heap) : isDataElement(heap[x]) /\ Lead(heap, x)
  /\ \A r \in RootList : root[r] \in Starts(heap) \cup {Data}
  /\ \A x \in Starts(heap) : x < GenStart =>
       \A p \in Points(heap, x) : p < GenStart \/ EndOfHeap <= p
  /\ phase = "run" => space <= TriggerGC - NextFree

(***************************************************************************)
(* During a collection, of the old heap: every element is there, or the    *)
(* forward pointer it left, of the same length;                            *)
(***************************************************************************)
Old(h) ==
  /\ Shape(h)
  /\ \A x \in Starts(h) : Outside(x) => isDataElement(h[x])
  /\ \A x \in Starts(h) : isDataElement(h[x]) => Lead(h, x)
  /\ gc_kind = "Generational" =>
       \A x \in Starts(h) : isDataElement(h[x]) => (h[x].kind = "ref" <=> EndOfHeap <= x)

\* what is left to be copied fits in what is left of the new heap, and at
\* either end in the words there were;
Left(h) == {x \in Addr : ~Outside(x) /\ isDataElement(h[x])}
LeftWords(h, kinds) == UNION {Words(h, x) : x \in {y \in Left(h) : h[y].kind \in kinds}}
Kinds == {"data", "ref"}
Room(h, s, m) ==
  /\ Cardinality(LeftWords(h, Kinds)) <= m
  /\ gc_kind = "Simple" =>
       Cardinality(LeftWords(h, Kinds)) <= NextFree + (Limit - EndOfHeap) - s
  /\ gc_kind = "Generational" =>
       /\ Cardinality(LeftWords(h, {"data"})) <= NextFree - s
       /\ Cardinality(LeftWords(h, {"ref"})) <= s + m - EndOfHeap

(***************************************************************************)
(* of the new heap, with s its next free word and m the free words: it is  *)
(* tiled up to s and from s + m, and so is what is still to be scanned;    *)
(***************************************************************************)
Base == IF partial THEN GenStart ELSE 0
Built(t, s, m) ==
  /\ t \in [Addr -> Element]
  /\ s \in Nat /\ m \in Nat /\ Base <= h1 /\ h1 <= s /\ s + m <= r3
  /\ Tiled(t, 0, s) /\ Free(t, s, s + m) /\ Tiled(t, s + m, Limit)
  /\ Tiled(t, h1, s) /\ Tiled(t, s + m, r3) /\ Tiled(t, r2, r1)
  /\ \A x \in Starts(t) : isDataElement(t[x])
  /\ gc_kind = "Generational" => \A x \in Starts(t) : t[x].kind = "ref" <=> s + m <= x
  /\ gc_kind = "Simple" => s + m = Limit
  /\ partial => s + m = EndOfHeap

\* of both: the forward pointers, and what a minor collection leaves alone;
Forwards(h, t) ==
  /\ \A x \in Addr : h[x].kind = "fwd" =>
       /\ h[x].to \in Starts(t) /\ ~Outside(h[x].to) /\ t[h[x].to].len = h[x].len
       /\ \A y \in Addr : h[y].kind = "fwd" /\ h[x].to = h[y].to => x = y
  /\ \A y \in Starts(t) : ~Outside(y) => \E x \in Addr : h[x].kind = "fwd" /\ h[x].to = y
  /\ \A x \in Addr : Outside(x) => (x \in Starts(h) <=> x \in Starts(t))

\* and of the pointers: those that have been moved lead to the new heap.
Scanned(x, j) ==
  \/ x < h1
  \/ x = h1 /\ h1 < a /\ phase = "data" /\ j < i
  \/ r3 <= x /\ x < r2
  \/ x = r2 /\ r2 < r1 /\ phase = "refs" /\ j < i
  \/ r1 <= x
FieldsLead ==
  \A x \in Starts(to) : \A j \in 1 .. Len(to[x].ptrs) :
    to[x].ptrs[j] = Data \/
      to[x].ptrs[j] \in IF Scanned(x, j) THEN Starts(to) ELSE Starts(heap)
Roots ==
  \A r \in RootList :
    root[r] = Data \/
      root[r] \in IF phase = "roots" /\ i <= r THEN Starts(heap) ELSE Starts(to)

(***************************************************************************)
(* Where the scans are, and the rounds the clock has left: each scans at   *)
(* least a word.                                                           *)
(***************************************************************************)
Positions ==
  /\ r3 <= r2 /\ r2 <= r1 /\ r1 <= Limit /\ 1 <= i
  /\ partial => r3 = EndOfHeap /\ gc_kind = "Generational"
                /\ AllocSize <= EndOfHeap - TriggerGC
  /\ phase = "roots" => r3 = r2 /\ (partial \/ r2 = r1)
  /\ phase = "loop" => ~partial
  /\ phase \in {"loop", "data", "done"} => r3 = r2 /\ r2 = r1
  /\ phase \in {"loop", "done"} => i = 1
  /\ phase = "refs" /\ r2 = r1 => i = 1
  /\ phase = "data" /\ h1 = a => i = 1
  /\ phase = "done" => h1 = a /\ a + n = r3
Clock ==
  ~partial =>
    /\ phase \in {"roots", "loop", "refs"} => r1 - h1 <= clock
    /\ phase = "refs" => r3 < r1
    /\ phase = "data" => (h1 < a /\ r1 - h1 <= clock) \/ r1 - h1 < clock

InCollection ==
  /\ ok /\ Old(heap) /\ Built(to, a, n) /\ Forwards(heap, to) /\ Room(heap, a, n)
  /\ FieldsLead /\ Roots /\ Positions /\ Clock

IInv == TypeOK /\ InOrder /\ (IF Running THEN ok /\ AtRest ELSE InCollection)

------------------------------------------------------------------------------
(***************************************************************************)
(* Tilings.                                                                *)
(***************************************************************************)
Heaps == [Addr -> Element]

LEMMA ElementFacts ==
  ASSUME NEW h \in Heaps, NEW x \in Addr
  PROVE  h[x] \in Element /\ h[x].len \in Nat /\ h[x].ptrs \in Seq(Val)
BY DEF Heaps, Element

LEMMA NothingTiled == ASSUME NEW h, NEW x \in Nat PROVE Tiled(h, x, x) /\ Free(h, x, x)
<1>1. x .. x - 1 = {}
  OBVIOUS
<1> QED BY <1>1 DEF Tiled, Free

\* Only where elements begin and how long they are matters.
LEMMA SameTiling ==
  ASSUME NEW h, NEW g, NEW lo, NEW hi, Tiled(h, lo, hi),
         \A x \in lo .. hi - 1 : Begins(g, x) <=> Begins(h, x),
         \A x \in lo .. hi - 1 : g[x].len = h[x].len, lo \in Nat, hi \in Nat
  PROVE  Tiled(g, lo, hi)
<1>1. \A y \in lo .. hi - 1 : \A x \in lo .. y : x \in lo .. hi - 1
  OBVIOUS
<1> QED BY <1>1 DEF Tiled

LEMMA TiledRight ==
  ASSUME NEW h \in Heaps, NEW e \in Element, NEW lo \in Nat, NEW hi \in Nat,
         lo <= hi, hi + el_length(e) <= Limit, Limit \in Nat,
         Tiled(h, lo, hi), Free(h, hi, hi + el_length(e)), e.kind # "unused"
  PROVE  Tiled([h EXCEPT ![hi] = e], lo, hi + el_length(e))
<1> DEFINE g == [h EXCEPT ![hi] = e]
           end == hi + (e.len + 1)
<1>1. /\ e.len \in Nat /\ end \in Nat /\ end = hi + el_length(e) /\ end <= Limit
      /\ hi + e.len = end - 1 /\ hi < end
  BY DEF Element, el_length
<1>2. hi \in Addr
  BY <1>1 DEF Addr
<1>3. g[hi] = e /\ \A x \in Addr : x # hi => g[x] = h[x]
  BY <1>2 DEF Heaps
<1>4. Free(h, hi, end)
  BY <1>1
<1> HIDE DEF g, end
<1>5. \A x \in lo .. end - 1 : x \in Addr /\ (x \in lo .. hi - 1 \/ x = hi \/ x \in hi .. end - 1)
  BY <1>1 DEF Addr
<1>6. \A x \in lo .. hi - 1 : x \in lo .. end - 1 /\ x # hi
  BY <1>1
<1>7. \A x \in lo .. end - 1 : Begins(g, x) => x \in lo .. hi - 1 \/ x = hi
  BY <1>3, <1>4, <1>5 DEF Free, Begins
<1>8. \A x \in lo .. hi - 1 : g[x] = h[x] /\ (Begins(g, x) <=> Begins(h, x)) /\ x \in Addr
  BY <1>3, <1>5, <1>6 DEF Begins
<1>9. \A x \in lo .. hi - 1 : Begins(h, x) => x + h[x].len < hi
  BY DEF Tiled
<1>10. ASSUME NEW x \in lo .. end - 1, Begins(g, x) PROVE x + g[x].len < end
  <2>1. CASE x = hi
    BY <1>1, <1>3, <2>1
  <2>2. CASE x # hi
    <3>1. x \in lo .. hi - 1 /\ g[x] = h[x] /\ x + h[x].len < hi /\ x \in Addr
      BY <1>7, <1>8, <1>9, <1>10, <2>2
    <3>2. h[x].len \in Nat
      BY <3>1, ElementFacts
    <3> QED BY <1>1, <3>1, <3>2
  <2> QED BY <2>1, <2>2
<1>11. ASSUME NEW x \in lo .. end - 1, NEW y \in lo .. end - 1, Begins(g, x), Begins(g, y), x < y
       PROVE  x + g[x].len < y
  <2>1. x # hi
    <3>1. \A z \in lo .. hi - 1 : ~(hi < z)
      OBVIOUS
    <3> QED BY <1>7, <1>11, <3>1
  <2>2. x \in lo .. hi - 1 /\ g[x] = h[x] /\ Begins(h, x)
    BY <1>7, <1>8, <1>11, <2>1
  <2>3. CASE y = hi
    BY <1>9, <2>2, <2>3
  <2>4. CASE y # hi
    <3>1. y \in lo .. hi - 1 /\ Begins(h, y)
      BY <1>7, <1>8, <1>11, <2>4
    <3> QED BY <1>11, <2>2, <3>1 DEF Tiled
  <2> QED BY <2>3, <2>4
<1>12. ASSUME NEW y \in lo .. end - 1 PROVE \E x \in lo .. y : Begins(g, x) /\ y <= x + g[x].len
  <2>1. CASE y < hi
    <3>1. PICK x \in lo .. y : Begins(h, x) /\ y <= x + h[x].len
      BY <2>1 DEF Tiled
    <3>2. x \in lo .. hi - 1
      BY <2>1
    <3> QED BY <1>8, <3>1, <3>2
  <2>2. CASE y >= hi
    <3>1. hi \in lo .. y /\ y <= hi + e.len
      BY <1>1, <2>2
    <3> QED BY <1>3, <3>1 DEF Begins
  <2> QED BY <1>1, <2>1, <2>2
<1>13. Tiled(g, lo, end)
  BY <1>10, <1>11, <1>12 DEF Tiled
<1> QED BY <1>1, <1>13 DEF g

LEMMA TiledLeft ==
  ASSUME NEW h \in Heaps, NEW e \in Element, NEW at \in Nat, NEW hi \in Nat,
         at + el_length(e) <= hi, hi <= Limit, Limit \in Nat,
         Tiled(h, at + el_length(e), hi), Free(h, at, at + el_length(e)), e.kind # "unused"
  PROVE  Tiled([h EXCEPT ![at] = e], at, hi)
<1> DEFINE g == [h EXCEPT ![at] = e]
           lo == at + (e.len + 1)
<1>1. e.len \in Nat /\ at \in Addr /\ lo \in Nat /\ lo = at + el_length(e) /\ lo <= hi
  BY DEF Element, Addr, el_length
<1>2. /\ g[at] = e
      /\ \A x \in Addr : x # at => g[x] = h[x]
  BY <1>1 DEF Heaps
<1>3. Tiled(h, lo, hi) /\ Free(h, at, lo)
  BY <1>1
<1>4. \A x \in at .. hi - 1 : x \in Addr /\ (x = at \/ x \in at + 1 .. lo - 1 \/ x \in lo .. hi - 1)
  BY <1>1 DEF Addr
<1>5. \A x \in at .. hi - 1 : x # at => g[x] = h[x]
  BY <1>2, <1>4
<1>6. \A x \in at .. hi - 1 : Begins(g, x) => x \in lo .. hi - 1 \/ x = at
  <2>1. \A x \in at + 1 .. lo - 1 : x \in at .. lo - 1 /\ x # at
    BY <1>1
  <2>2. ASSUME NEW x \in at .. hi - 1, x \in at + 1 .. lo - 1 PROVE ~Begins(g, x)
    BY <1>3, <1>5, <2>1, <2>2 DEF Free, Begins
  <2> QED BY <1>4, <2>2
<1>7. \A x \in lo .. hi - 1 : x \in at .. hi - 1 /\ x # at /\ x > at + e.len
  BY <1>1
<1>8. at + e.len = lo - 1
  BY <1>1
<1> HIDE DEF g, lo
<1>9. ASSUME NEW x \in at .. hi - 1, Begins(g, x) PROVE x + g[x].len < hi
  <2>1. CASE x = at
    BY <1>1, <1>2, <1>8, <2>1
  <2>2. CASE x # at
    BY <1>3, <1>5, <1>6, <1>9, <2>2 DEF Tiled, Begins
  <2> QED BY <2>1, <2>2
<1>10. ASSUME NEW x \in at .. hi - 1, NEW y \in at .. hi - 1, Begins(g, x), Begins(g, y), x < y
       PROVE  x + g[x].len < y
  <2>1. y # at
    BY <1>1, <1>10
  <2>2. y \in lo .. hi - 1 /\ Begins(h, y)
    BY <1>5, <1>6, <1>10, <2>1 DEF Begins
  <2>3. CASE x = at
    BY <1>2, <1>7, <2>2, <2>3
  <2>4. CASE x # at
    BY <1>3, <1>5, <1>6, <1>10, <2>2, <2>4 DEF Tiled, Begins
  <2> QED BY <2>3, <2>4
<1>11. ASSUME NEW y \in at .. hi - 1 PROVE \E x \in at .. y : Begins(g, x) /\ y <= x + g[x].len
  <2>1. CASE y < lo
    <3>1. at \in at .. y /\ y <= at + e.len
      BY <1>1, <1>8, <2>1
    <3> QED BY <1>2, <3>1 DEF Begins
  <2>2. CASE y >= lo
    <3>1. PICK x \in lo .. y : Begins(h, x) /\ y <= x + h[x].len
      BY <1>1, <1>3, <2>2 DEF Tiled
    <3>2. x \in at .. y /\ x \in lo .. hi - 1
      BY <1>1, <1>8, <2>2
    <3> QED BY <1>5, <1>7, <3>1, <3>2 DEF Begins
  <2> QED BY <1>1, <2>1, <2>2
<1>12. Tiled(g, at, hi)
  BY <1>9, <1>10, <1>11 DEF Tiled
<1> QED BY <1>12 DEF g

\* The scan of a tiling goes from element to element.
LEMMA TiledNext ==
  ASSUME NEW h \in Heaps, NEW lo \in Nat, NEW hi \in Nat, lo < hi, hi <= Limit, Limit \in Nat,
         Tiled(h, lo, hi)
  PROVE  /\ lo \in Addr /\ Begins(h, lo) /\ lo + el_length(h[lo]) \in Nat
         /\ lo + el_length(h[lo]) <= hi
         /\ \A x \in lo + 1 .. lo + h[lo].len : ~Begins(h, x)
         /\ Tiled(h, lo + el_length(h[lo]), hi)
<1>1. lo \in Addr /\ lo \in lo .. hi - 1
  BY DEF Addr
<1>2. h[lo].len \in Nat
  BY <1>1, ElementFacts
<1>3. Begins(h, lo)
  <2>1. PICK x \in lo .. lo : Begins(h, x)
    BY <1>1 DEF Tiled
  <2> QED BY <2>1
<1>4. lo + h[lo].len < hi
  BY <1>1, <1>3 DEF Tiled
<1> DEFINE mid == lo + (h[lo].len + 1)
<1>5. mid \in Nat /\ mid <= hi /\ mid = lo + el_length(h[lo]) /\ lo + h[lo].len = mid - 1
      /\ lo < mid
  BY <1>2, <1>4 DEF el_length
<1> HIDE DEF mid
<1>6. ASSUME NEW x \in lo + 1 .. mid - 1 PROVE ~Begins(h, x)
  <2>1. x \in lo .. hi - 1 /\ lo < x /\ ~(mid - 1 < x)
    BY <1>5
  <2> QED BY <1>1, <1>3, <1>5, <2>1 DEF Tiled
<1>7. \A x \in mid .. hi - 1 : x \in lo .. hi - 1
  BY <1>5
<1>8. ASSUME NEW y \in mid .. hi - 1 PROVE \E x \in mid .. y : Begins(h, x) /\ y <= x + h[x].len
  <2>1. PICK x \in lo .. y : Begins(h, x) /\ y <= x + h[x].len
    BY <1>7 DEF Tiled
  <2>2. x # lo
    BY <1>5, <2>1
  <2>3. ~(x \in lo + 1 .. mid - 1)
    BY <1>6, <2>1
  <2>4. x \in mid .. y
    BY <1>5, <2>2, <2>3
  <2> QED BY <2>1, <2>4
<1>9. Tiled(h, mid, hi)
  BY <1>7, <1>8 DEF Tiled
<1> QED BY <1>1, <1>3, <1>5, <1>6, <1>9

------------------------------------------------------------------------------
(***************************************************************************)
(* What is left to be copied.                                              *)
(***************************************************************************)
LEMMA Limits == Limit \in Nat \ {0} /\ \A x : x \in Addr <=> x \in 0 .. Limit - 1
BY LimitAssumption DEF Addr

LEMMA StartsApart ==
  ASSUME InOrder, NEW h, Shape(h)
  PROVE  /\ \A x \in Starts(h) : /\ x \in Nat /\ h[x].len \in Nat /\ x + h[x].len < Limit
                                 /\ \/ x < NextFree /\ x + h[x].len < NextFree
                                    \/ EndOfHeap <= x
         /\ \A x, y \in Starts(h) : x < y => x + h[x].len < y
<1>1. /\ NextFree \in Nat /\ EndOfHeap \in Nat /\ NextFree <= EndOfHeap /\ EndOfHeap <= Limit
      /\ Limit \in Nat
  BY Limits DEF InOrder
<1>2. /\ h \in Heaps /\ Tiled(h, 0, NextFree) /\ Free(h, NextFree, EndOfHeap)
      /\ Tiled(h, EndOfHeap, Limit)
  BY DEF Shape, Heaps
<1>3. \A x \in Starts(h) : x \in Addr /\ Begins(h, x) /\ x \in 0 .. Limit - 1
  BY Limits DEF Starts, Begins
<1>4. \A x \in Starts(h) : x \in 0 .. NextFree - 1 \/ x \in EndOfHeap .. Limit - 1
  <2>1. ASSUME NEW x \in Starts(h), ~(x \in 0 .. NextFree - 1), ~(x \in EndOfHeap .. Limit - 1)
        PROVE  FALSE
    <3>1. x \in NextFree .. EndOfHeap - 1
      BY <1>1, <1>3, <2>1
    <3> QED BY <1>2, <1>3, <3>1 DEF Free
  <2> QED BY <2>1
<1>5. ASSUME NEW x \in Starts(h)
      PROVE  /\ x \in Nat /\ h[x].len \in Nat /\ x + h[x].len < Limit
             /\ \/ x < NextFree /\ x + h[x].len < NextFree
                \/ EndOfHeap <= x
  <2>1. x \in Addr /\ Begins(h, x) /\ x \in Nat /\ h[x].len \in Nat
    BY <1>2, <1>3, ElementFacts
  <2>2. CASE x \in 0 .. NextFree - 1
    <3>1. x + h[x].len < NextFree
      BY <1>2, <2>1, <2>2 DEF Tiled
    <3> QED BY <1>1, <2>1, <2>2, <3>1
  <2>3. CASE x \in EndOfHeap .. Limit - 1
    <3>1. x + h[x].len < Limit
      BY <1>2, <2>1, <2>3 DEF Tiled
    <3> QED BY <1>1, <2>1, <2>3, <3>1
  <2> QED BY <1>4, <2>2, <2>3
<1>6. ASSUME NEW x \in Starts(h), NEW y \in Starts(h), x < y PROVE x + h[x].len < y
  <2>1. Begins(h, x) /\ Begins(h, y) /\ x \in Nat /\ y \in Nat /\ h[x].len \in Nat
    BY <1>3, <1>5
  <2>2. CASE y \in 0 .. NextFree - 1
    <3>1. x \in 0 .. NextFree - 1
      BY <1>1, <1>6, <2>1, <2>2
    <3> QED BY <1>2, <1>6, <2>1, <2>2, <3>1 DEF Tiled
  <2>3. CASE y \in EndOfHeap .. Limit - 1
    <3>1. CASE x \in EndOfHeap .. Limit - 1
      BY <1>2, <1>6, <2>1, <2>3, <3>1 DEF Tiled
    <3>2. CASE x \in 0 .. NextFree - 1
      <4>1. x + h[x].len < NextFree \/ EndOfHeap <= x
        BY <1>5
      <4> QED BY <1>1, <2>1, <2>3, <3>2, <4>1
    <3> QED BY <1>4, <3>1, <3>2
  <2> QED BY <1>4, <2>2, <2>3
<1> QED BY <1>5, <1>6

LEMMA Interval ==
  ASSUME NEW lo \in Nat, NEW hi \in Nat, lo <= hi
  PROVE  IsFiniteSet(lo .. hi - 1) /\ Cardinality(lo .. hi - 1) = hi - lo
<1>1. PICK top \in Int : top = hi - 1
  OBVIOUS
<1>2. IsFiniteSet(lo .. top) /\ Cardinality(lo .. top) = IF lo > top THEN 0 ELSE top - lo + 1
  BY FS_Interval
<1> QED BY <1>1, <1>2

LEMMA LeftFacts ==
  ASSUME InOrder, NEW h, Shape(h), NEW K
  PROVE  /\ LeftWords(h, K) \subseteq Addr
         /\ IsFiniteSet(LeftWords(h, K)) /\ Cardinality(LeftWords(h, K)) \in Nat
<1>1. Left(h) \subseteq Starts(h)
  BY DEF Left, Starts, isDataElement
<1>2. LeftWords(h, K) \subseteq Addr
  <2>1. ASSUME NEW x \in Left(h), NEW w \in Words(h, x) PROVE w \in Addr
    <3>1. x \in Nat /\ h[x].len \in Nat /\ x + h[x].len < Limit /\ w \in x .. x + h[x].len
      BY <1>1, StartsApart DEF Words
    <3> QED BY <3>1, Limits
  <2> QED BY <2>1 DEF LeftWords
<1>3. IsFiniteSet(Addr)
  BY Limits, Interval DEF Addr
<1> QED BY <1>2, <1>3, FS_Subset, FS_CardinalityType

LEMMA Fits ==
  ASSUME InOrder, NEW h, Shape(h), NEW v \in Left(h), NEW K
  PROVE  /\ h[v].len \in Nat /\ el_length(h[v]) \in Nat
         /\ Cardinality(Words(h, v)) = el_length(h[v])
         /\ h[v].kind \in K => /\ Words(h, v) \subseteq LeftWords(h, K)
                               /\ el_length(h[v]) <= Cardinality(LeftWords(h, K))
<1>1. v \in Nat /\ h[v].len \in Nat
  <2>1. v \in Starts(h)
    BY DEF Left, Starts, isDataElement
  <2> QED BY <2>1, StartsApart
<1>2. h[v].kind \in K => Words(h, v) \subseteq LeftWords(h, K)
  BY DEF LeftWords
<1>3. Cardinality(Words(h, v)) = h[v].len + 1
  BY <1>1, FS_Interval DEF Words
<1>4. IsFiniteSet(LeftWords(h, K))
  BY LeftFacts
<1> QED BY <1>1, <1>2, <1>3, <1>4, FS_Subset DEF el_length

\* An element that is copied is no longer left, and no others are touched.
LEMMA OneLess ==
  ASSUME InOrder, NEW h, Shape(h), NEW v \in Left(h), NEW K,
         NEW g, ~isDataElement(g[v]), \A x \in Addr : x # v => g[x] = h[x]
  PROVE  /\ h[v].kind \in K =>
              Cardinality(LeftWords(g, K)) = Cardinality(LeftWords(h, K)) - el_length(h[v])
         /\ h[v].kind \notin K => LeftWords(g, K) = LeftWords(h, K)
<1> DEFINE Of(s) == {y \in Left(s) : s[y].kind \in K}
<1>1. /\ Left(h) \subseteq Starts(h) /\ v \in Addr /\ v \in Starts(h)
      /\ h \in [Addr -> Element]
  BY DEF Left, Starts, isDataElement, Shape
<1>2. v \in Nat /\ h[v].len \in Nat
  BY <1>1, StartsApart
<1>3. (\A x \in Addr : x # v => g[x] = h[x]) /\ ~isDataElement(g[v])
  OBVIOUS
<1>4. Of(g) = Of(h) \ {v}
  BY <1>1, <1>3 DEF Left
<1>5. ASSUME NEW x \in Of(g)
      PROVE  x \in Of(h) /\ Words(g, x) = Words(h, x) \ Words(h, v) /\ Words(g, x) = Words(h, x)
  <2>1. x \in Of(h) /\ x # v /\ x \in Starts(h) /\ x \in Addr
    BY <1>1, <1>4 DEF Left
  <2>2. Words(g, x) = Words(h, x)
    BY <1>3, <2>1 DEF Words
  <2>3. x \in Nat /\ h[x].len \in Nat
    BY <2>1, StartsApart
  <2>4. x + h[x].len < v \/ v + h[v].len < x
    BY <1>1, <1>2, <2>1, <2>3, StartsApart
  <2>5. Words(h, x) \cap Words(h, v) = {}
    BY <1>2, <2>3, <2>4 DEF Words
  <2> QED BY <2>1, <2>2, <2>5
<1>6. LeftWords(g, K) = UNION {Words(g, x) : x \in Of(g)}
      /\ LeftWords(h, K) = UNION {Words(h, x) : x \in Of(h)}
  BY DEF LeftWords
<1>7. v \in Of(h) <=> h[v].kind \in K
  OBVIOUS
<1> HIDE DEF Of
<1>8. h[v].kind \notin K => LeftWords(g, K) = LeftWords(h, K)
  <2>1. ASSUME v \notin Of(h) PROVE LeftWords(g, K) = LeftWords(h, K)
    <3>1. Of(g) = Of(h)
      BY <1>4, <2>1
    <3> QED BY <1>5, <1>6, <3>1
  <2> QED BY <1>7, <2>1
<1>9. LeftWords(g, K) = LeftWords(h, K) \ Words(h, v) \/ v \notin Of(h)
  <2>1. LeftWords(g, K) \subseteq LeftWords(h, K) \ Words(h, v)
    BY <1>5, <1>6
  <2>2. LeftWords(h, K) \ Words(h, v) \subseteq LeftWords(g, K)
    BY <1>4, <1>5, <1>6
  <2> QED BY <2>1, <2>2
<1>10. IsFiniteSet(LeftWords(h, K)) /\ Cardinality(LeftWords(h, K)) \in Nat
  BY LeftFacts
<1>11. ASSUME v \in Of(h)
       PROVE  Cardinality(LeftWords(g, K)) = Cardinality(LeftWords(h, K)) - el_length(h[v])
  <2>1. Words(h, v) \subseteq LeftWords(h, K) /\ Cardinality(Words(h, v)) = el_length(h[v])
    BY <1>7, <1>11, Fits
  <2>2. LeftWords(h, K) \cap Words(h, v) = Words(h, v)
    BY <2>1
  <2>3. Cardinality(LeftWords(h, K) \ Words(h, v))
          = Cardinality(LeftWords(h, K)) - Cardinality(LeftWords(h, K) \cap Words(h, v))
    BY <1>10, FS_Difference
  <2> QED BY <1>9, <1>11, <2>1, <2>2, <2>3
<1> QED BY <1>7, <1>8, <1>11

------------------------------------------------------------------------------
(***************************************************************************)
(* gc_move.                                                                *)
(***************************************************************************)
Now == /\ TypeOK /\ InOrder /\ Positions /\ ok
       /\ Old(heap) /\ Built(to, a, n) /\ Forwards(heap, to) /\ Room(heap, a, n)

LEMMA NowNumbers ==
  ASSUME Now
  PROVE  /\ Limit \in Nat /\ Limit # 0 /\ partial \in BOOLEAN
         /\ a \in Nat /\ n \in Nat /\ h1 \in Nat /\ i \in Nat /\ 1 <= i
         /\ r3 \in Nat /\ r2 \in Nat /\ r1 \in Nat /\ a + n \in Nat
         /\ GenStart \in Nat /\ NextFree \in Nat /\ TriggerGC \in Nat /\ EndOfHeap \in Nat
         /\ h1 <= a /\ a <= a + n /\ a + n <= r3 /\ r3 <= r2 /\ r2 <= r1 /\ r1 <= Limit
         /\ GenStart <= NextFree /\ NextFree <= TriggerGC /\ TriggerGC <= EndOfHeap
         /\ EndOfHeap <= Limit /\ (partial => GenStart <= h1 /\ a + n = EndOfHeap)
         /\ heap \in Heaps /\ to \in Heaps
BY Limits DEF Now, TypeOK, InOrder, Positions, Built, Old, Shape, Heaps, Base

LEMMA StartsAre ==
  ASSUME NEW h, NEW x
  PROVE  /\ x \in Starts(h) <=> x \in Addr /\ Begins(h, x)
         /\ isDataElement(h[x]) => Begins(h, x)
BY DEF Starts, Begins, isDataElement

\* Where a copy goes: to the next free word, or to the last ones.
LEMMA Destination ==
  ASSUME Now, NEW v \in Left(heap)
  PROVE  LET e == heap[v]
             m == gc_copy(v, e)
             len == el_length(e)
             dest == m.val
         IN  /\ e \in Element /\ isDataElement(e) /\ len = e.len + 1 /\ e.len \in Nat
             /\ len <= n /\ m.n = n - len /\ m.n \in Nat
             /\ dest = IF ToRight(e) THEN a + (n - len) ELSE a
             /\ m.a = IF ToRight(e) THEN a ELSE a + len
             /\ dest \in Addr /\ dest \in Nat /\ a <= dest /\ dest < a + n
             /\ m.to = [to EXCEPT ![dest] = e]
             /\ m.heap = [heap EXCEPT ![v] = ForwardPointer(dest, e.len)]
             /\ m.ok
<1> DEFINE e == heap[v]
           m == gc_copy(v, e)
           len == el_length(e)
<1>1. v \in Addr /\ ~Outside(v) /\ isDataElement(e)
  BY DEF Left
<1>2. e \in Element /\ e.len \in Nat /\ len = e.len + 1
  BY <1>1, NowNumbers, ElementFacts DEF el_length
<1>3. len <= Cardinality(LeftWords(heap, Kinds)) /\ Cardinality(LeftWords(heap, Kinds)) \in Nat
  <2>1. e.kind \in Kinds
    BY <1>1 DEF isDataElement, Kinds
  <2> QED BY <2>1, Fits, LeftFacts DEF Now, Old
<1>4. len <= n
  BY <1>2, <1>3, NowNumbers DEF Now, Room
<1>5. Minus(n, len) = n - len /\ n - len \in Nat
  BY <1>2, <1>4, NowNumbers DEF Minus
<1> DEFINE dest == m.val
<1>6. /\ m.n = n - len
      /\ dest = IF ToRight(e) THEN a + (n - len) ELSE a
      /\ m.a = IF ToRight(e) THEN a ELSE a + len
      /\ m.to = [to EXCEPT ![dest] = e]
      /\ m.heap = [heap EXCEPT ![v] = ForwardPointer(dest, e.len)]
      /\ m.ok = /\ ok /\ len <= n
                /\ gc_kind = "Simple" => a + n = Limit
                /\ partial => e.kind # "ref"
  BY <1>5 DEF gc_copy
<1>7. m.ok
  <2>1. gc_kind = "Simple" => a + n = Limit
    BY DEF Now, Built
  <2>2. ASSUME partial PROVE e.kind # "ref"
    <3>1. ~(EndOfHeap <= v) /\ gc_kind = "Generational"
      BY <1>1, <2>2 DEF Outside, Now, Positions
    <3> QED BY <1>1, <3>1, StartsAre DEF Now, Old
  <2> QED BY <1>4, <1>6, <2>1, <2>2 DEF Now
<1> HIDE DEF len
<1>8. dest \in Nat /\ a <= dest /\ dest < a + n
  BY <1>2, <1>4, <1>6, NowNumbers
<1>9. dest \in Addr
  BY <1>8, NowNumbers, Limits
<1> QED BY <1>1, <1>2, <1>4, <1>5, <1>6, <1>7, <1>8, <1>9 DEF len

\* The old heap has a forward pointer more.
LEMMA CopyOld ==
  ASSUME Now, NEW v \in Left(heap), NEW d \in Nat
  PROVE  LET g == [heap EXCEPT ![v] = ForwardPointer(d, heap[v].len)]
         IN  /\ Old(g) /\ Starts(g) = Starts(heap)
             /\ g[v].kind = "fwd" /\ g[v].to = d /\ g[v].len = heap[v].len
             /\ \A x \in Addr : x # v => g[x] = heap[x]
<1> DEFINE g == [heap EXCEPT ![v] = ForwardPointer(d, heap[v].len)]
<1>1. v \in Addr /\ ~Outside(v) /\ isDataElement(heap[v]) /\ heap[v].len \in Nat
      /\ heap \in Heaps /\ heap \in [Addr -> Element]
  BY NowNumbers, ElementFacts DEF Left, Heaps
<1>2. ForwardPointer(d, heap[v].len) \in Element
  BY <1>1, EmptySeq DEF ForwardPointer, Element
<1>3. /\ g \in [Addr -> Element]
      /\ \A x \in Addr : x # v => g[x] = heap[x]
      /\ g[v].kind = "fwd" /\ g[v].to = d /\ g[v].len = heap[v].len
  BY <1>1, <1>2 DEF ForwardPointer
<1> HIDE DEF g
<1>4. \A x \in Addr : (Begins(g, x) <=> Begins(heap, x)) /\ g[x].len = heap[x].len
  BY <1>1, <1>3 DEF Begins, isDataElement
<1>5. Starts(g) = Starts(heap)
  BY <1>4, StartsAre
<1>6. Shape(g)
  <2>1. \A x \in 0 .. Limit - 1 : (Begins(g, x) <=> Begins(heap, x)) /\ g[x].len = heap[x].len
    BY <1>4, Limits
  <2>2. /\ \A x \in 0 .. NextFree - 1 : x \in 0 .. Limit - 1
        /\ \A x \in 0 .. GenStart - 1 : x \in 0 .. Limit - 1
        /\ \A x \in EndOfHeap .. Limit - 1 : x \in 0 .. Limit - 1
        /\ \A x \in NextFree .. EndOfHeap - 1 : x \in 0 .. Limit - 1
    BY NowNumbers
  <2>3. /\ Tiled(heap, 0, NextFree) /\ Tiled(heap, 0, GenStart)
        /\ Free(heap, NextFree, EndOfHeap) /\ Tiled(heap, EndOfHeap, Limit)
    BY DEF Now, Old, Shape
  <2>4. Tiled(g, 0, NextFree)
    BY <2>1, <2>2, <2>3, NowNumbers, SameTiling
  <2>5. Tiled(g, 0, GenStart)
    BY <2>1, <2>2, <2>3, NowNumbers, SameTiling
  <2>6. Tiled(g, EndOfHeap, Limit)
    BY <2>1, <2>2, <2>3, NowNumbers, SameTiling
  <2>7. Free(g, NextFree, EndOfHeap)
    BY <2>1, <2>2, <2>3 DEF Free
  <2> QED BY <1>3, <2>4, <2>5, <2>6, <2>7 DEF Shape
<1>7. \A x \in Addr : isDataElement(g[x]) => x # v /\ g[x] = heap[x]
  BY <1>3 DEF isDataElement
<1>8. Old(g)
  <2>1. \A x \in Starts(g) : Outside(x) => isDataElement(g[x])
    BY <1>1, <1>3, <1>5, StartsAre DEF Now, Old
  <2>2. \A x \in Starts(g) : isDataElement(g[x]) => Lead(g, x)
    BY <1>5, <1>7, StartsAre DEF Now, Old, Lead, Points
  <2>3. gc_kind = "Generational" =>
          \A x \in Starts(g) : isDataElement(g[x]) => (g[x].kind = "ref" <=> EndOfHeap <= x)
    BY <1>5, <1>7, StartsAre DEF Now, Old
  <2> QED BY <1>6, <2>1, <2>2, <2>3 DEF Old
<1> QED BY <1>3, <1>5, <1>8 DEF g

\* The new heap has an element more, at its free words' end.
LEMMA CopyNew ==
  ASSUME Now, NEW v \in Left(heap)
  PROVE  LET m == gc_copy(v, heap[v])
         IN  /\ Built(m.to, m.a, m.n) /\ m.a + m.n <= a + n /\ a <= m.a
             /\ \A x \in Addr : x # m.val => m.to[x] = to[x]
             /\ m.to[m.val] = heap[v]
             /\ \A x : x \in Starts(m.to) <=> x \in Starts(to) \/ x = m.val
             /\ m.val \notin Starts(to)
<1> DEFINE m == gc_copy(v, heap[v])
<1>1. PICK e : e = heap[v]
  OBVIOUS
<1>2. PICK len : len = el_length(e)
  OBVIOUS
<1>3. PICK d : d = m.val
  OBVIOUS
<1>4. PICK t : t = [to EXCEPT ![d] = e]
  OBVIOUS
<1>5. /\ e \in Element /\ isDataElement(e) /\ len = e.len + 1 /\ e.len \in Nat
      /\ len <= n /\ m.n = n - len /\ m.n \in Nat
      /\ d = IF ToRight(e) THEN a + (n - len) ELSE a
      /\ m.a = IF ToRight(e) THEN a ELSE a + len
      /\ d \in Addr /\ d \in Nat /\ a <= d /\ d < a + n
      /\ m.to = t
  BY <1>1, <1>2, <1>3, <1>4, Destination
<1>6. to \in Heaps /\ to \in [Addr -> Element]
  BY NowNumbers DEF Heaps
<1>7. /\ t \in [Addr -> Element] /\ t[d] = e
      /\ \A x \in Addr : x # d => t[x] = to[x]
  BY <1>4, <1>5, <1>6
<1>8. e.kind # "unused" /\ Begins(t, d)
  BY <1>5, <1>7 DEF isDataElement, Begins
<1>9. /\ Tiled(to, 0, a) /\ Free(to, a, a + n) /\ Tiled(to, a + n, Limit)
      /\ Tiled(to, h1, a) /\ Tiled(to, a + n, r3) /\ Tiled(to, r2, r1)
  BY DEF Now, Built
<1>10. d \in a .. a + n - 1 /\ d \notin Starts(to)
  <2>1. d \in a .. a + n - 1
    BY <1>5, NowNumbers
  <2>2. ~Begins(to, d)
    BY <1>9, <2>1, NowNumbers DEF Free
  <2> QED BY <2>1, <2>2, StartsAre
<1>11. \A x : x \in Starts(t) <=> x \in Starts(to) \/ x = d
  <2>1. ASSUME NEW x PROVE x \in Starts(t) <=> x \in Starts(to) \/ x = d
    <3>1. /\ x \in Starts(t) <=> x \in Addr /\ Begins(t, x)
          /\ x \in Starts(to) <=> x \in Addr /\ Begins(to, x)
      BY StartsAre
    <3> QED BY <1>5, <1>7, <1>8, <3>1 DEF Begins
  <2> QED BY <2>1
<1>12. \A x \in 0 .. Limit - 1 : x # d => t[x] = to[x] /\ (Begins(t, x) <=> Begins(to, x))
  BY <1>7, Limits DEF Begins
<1>13. ASSUME NEW lo \in Nat, NEW hi \in Nat, hi <= Limit, Tiled(to, lo, hi), ~(d \in lo .. hi - 1)
       PROVE  Tiled(t, lo, hi)
  <2>1. \A x \in lo .. hi - 1 : x \in 0 .. Limit - 1 /\ x # d
    BY <1>13, NowNumbers
  <2> QED BY <1>12, <1>13, <2>1, SameTiling
<1>14. Tiled(t, r2, r1)
  <2>1. ~(d \in r2 .. r1 - 1)
    BY <1>5, NowNumbers
  <2> QED BY <1>9, <1>13, <2>1, NowNumbers
<1>15. /\ \A x \in Starts(t) : isDataElement(t[x])
  BY <1>5, <1>7, <1>11, StartsAre DEF Now, Built
<1>16. ASSUME gc_kind = "Generational", NEW x \in Starts(to) PROVE to[x].kind = "ref" <=> a + n <= x
  BY <1>16 DEF Now, Built
<1>17. \A x \in Starts(to) : x < a \/ a + n <= x
  <2>1. \A x \in Starts(to) : x \in Nat
    BY StartsAre, Limits
  <2>2. \A x \in Nat : ~(x < a \/ a + n <= x) => x \in a .. a + n - 1
    BY NowNumbers
  <2>3. \A x \in a .. a + n - 1 : ~Begins(to, x)
    BY <1>9, NowNumbers DEF Free
  <2>4. \A x \in Starts(to) : Begins(to, x)
    BY StartsAre
  <2> QED BY <2>1, <2>2, <2>3, <2>4
<1>18. CASE ~ToRight(e)
  <2>1. PICK s \in Nat, k \in Nat : s = a + len /\ k = n - len
    BY <1>5, NowNumbers
  <2>2. /\ m.a = s /\ m.n = k /\ d = a /\ s + k = a + n /\ a < s /\ s <= a + n
        /\ s \in Nat /\ k \in Nat /\ s = a + el_length(e)
    BY <1>2, <1>5, <1>18, <2>1, NowNumbers
  <2>3. Free(to, a, s) /\ Free(t, s, s + k)
    <3>1. \A x \in a .. s - 1 : x \in a .. a + n - 1
      BY <2>2, NowNumbers
    <3>2. \A x \in s .. s + k - 1 : x \in a .. a + n - 1 /\ x # d /\ x \in 0 .. Limit - 1
      BY <2>2, NowNumbers
    <3>3. \A x \in a .. a + n - 1 : ~Begins(to, x)
      BY <1>9, NowNumbers DEF Free
    <3>4. \A x \in s .. s + k - 1 : ~Begins(t, x)
      BY <1>12, <3>2, <3>3
    <3> QED BY <3>1, <3>3, <3>4 DEF Free
  <2>10. ASSUME NEW lo \in Nat, lo <= a, Tiled(to, lo, a) PROVE Tiled(t, lo, s)
    <3>1. s <= Limit /\ Limit \in Nat /\ a \in Nat
      BY <2>2, NowNumbers
    <3>2. Free(to, a, a + el_length(e)) /\ a + el_length(e) <= Limit
      BY <2>2, <2>3, <3>1
    <3>3. Tiled([to EXCEPT ![a] = e], lo, a + el_length(e))
      BY <1>5, <1>6, <1>8, <2>10, <3>1, <3>2, TiledRight
    <3> QED BY <1>4, <2>2, <3>3
  <2>4. Tiled(t, 0, s)
    BY <1>9, <2>10, NowNumbers
  <2>5. Tiled(t, h1, s)
    BY <1>9, <2>10, NowNumbers
  <2>6. Tiled(t, s + k, Limit) /\ Tiled(t, s + k, r3)
    <3>1. ~(d \in a + n .. Limit - 1) /\ ~(d \in a + n .. r3 - 1) /\ r3 <= Limit
      BY <1>5, NowNumbers
    <3> QED BY <1>9, <1>13, <2>2, <3>1, NowNumbers
  <2>7. gc_kind = "Generational" => \A x \in Starts(t) : t[x].kind = "ref" <=> s + k <= x
    <3>1. ASSUME gc_kind = "Generational" PROVE e.kind # "ref"
      <4>1. CASE partial
        <5>1. v \in Addr /\ ~(EndOfHeap <= v) /\ isDataElement(heap[v])
          BY <4>1 DEF Left, Outside
        <5> QED BY <1>1, <3>1, <5>1, StartsAre DEF Now, Old
      <4>2. CASE ~partial
        BY <1>18, <3>1, <4>2 DEF ToRight
      <4> QED BY <4>1, <4>2
    <3>2. ~(s + k <= d)
      BY <1>5, <2>2, NowNumbers
    <3>3. \A x \in Starts(to) : x # d /\ t[x] = to[x]
      BY <1>7, <1>10, StartsAre
    <3> QED BY <1>7, <1>11, <1>16, <2>2, <3>1, <3>2, <3>3
  <2>8. Built(t, s, k)
    <3>1. Base <= h1 /\ h1 <= s /\ s + k <= r3
      BY <2>2, NowNumbers DEF Now, Built
    <3>2. (gc_kind = "Simple" => s + k = Limit) /\ (partial => s + k = EndOfHeap)
      BY <2>2 DEF Now, Built
    <3> QED BY <1>7, <1>14, <1>15, <2>3, <2>4, <2>5, <2>6, <2>7, <3>1, <3>2 DEF Built
  <2>9. m.a + m.n <= a + n /\ a <= m.a
    BY <2>2, NowNumbers
  <2> QED BY <1>1, <1>3, <1>5, <1>7, <1>10, <1>11, <2>2, <2>8, <2>9
<1>19. CASE ToRight(e)
  <2>1. PICK k \in Nat : k = n - len
    BY <1>5
  <2>2. /\ m.a = a /\ m.n = k /\ d = a + k /\ d + el_length(e) = a + n /\ k < n
        /\ k \in Nat /\ d \in Nat
    BY <1>2, <1>5, <1>19, <2>1, NowNumbers
  <2>3. Free(to, d, d + el_length(e)) /\ Free(t, a, d)
    <3>1. \A x \in d .. a + n - 1 : x \in a .. a + n - 1
      BY <1>5, NowNumbers
    <3>2. \A x \in a .. d - 1 : x \in a .. a + n - 1 /\ x # d /\ x \in 0 .. Limit - 1
      BY <1>5, NowNumbers
    <3>3. \A x \in a .. a + n - 1 : ~Begins(to, x)
      BY <1>9, NowNumbers DEF Free
    <3>4. \A x \in a .. d - 1 : ~Begins(t, x)
      BY <1>12, <3>2, <3>3
    <3>5. Free(to, d, a + n)
      BY <3>1, <3>3, NowNumbers DEF Free
    <3> QED BY <2>2, <3>4, <3>5 DEF Free
  <2>10. ASSUME NEW hi \in Nat, a + n <= hi, hi <= Limit, Tiled(to, a + n, hi)
         PROVE  Tiled(t, d, hi)
    <3>1. d + el_length(e) <= hi /\ Tiled(to, d + el_length(e), hi) /\ Limit \in Nat
      BY <2>2, <2>10, NowNumbers
    <3>2. Tiled([to EXCEPT ![d] = e], d, hi)
      BY <1>5, <1>6, <1>8, <2>2, <2>3, <2>10, <3>1, TiledLeft
    <3> QED BY <1>4, <3>2
  <2>4. Tiled(t, d, Limit)
    BY <1>9, <2>10, NowNumbers
  <2>5. Tiled(t, d, r3)
    <3>1. r3 \in Nat /\ a + n <= r3 /\ r3 <= Limit
      BY NowNumbers
    <3> QED BY <1>9, <2>10, <3>1
  <2>6. Tiled(t, 0, a) /\ Tiled(t, h1, a)
    <3>1. ~(d \in 0 .. a - 1) /\ ~(d \in h1 .. a - 1) /\ a <= Limit
      BY <1>5, NowNumbers
    <3> QED BY <1>9, <1>13, <3>1, NowNumbers
  <2>7. \A x \in Starts(t) : t[x].kind = "ref" <=> d <= x
    <3>1. e.kind = "ref" /\ gc_kind = "Generational"
      BY <1>19 DEF ToRight
    <3>2. \A x \in Starts(to) : x # d /\ t[x] = to[x]
      BY <1>7, <1>10, StartsAre
    <3>3. \A x \in Starts(to) : x \in Nat /\ (a + n <= x <=> d <= x)
      <4>1. \A x \in Starts(to) : x \in Nat
        BY StartsAre, Limits
      <4> QED BY <1>5, <1>17, <4>1, NowNumbers
    <3> QED BY <1>5, <1>7, <1>11, <1>16, <3>1, <3>2, <3>3
  <2>8. Built(t, a, k)
    <3>1. Base <= h1 /\ h1 <= a /\ d <= r3
      BY <1>5, NowNumbers DEF Now, Built
    <3>2. gc_kind # "Simple" /\ ~partial
      BY <1>19 DEF ToRight
    <3> QED BY <1>7, <1>14, <1>15, <2>2, <2>3, <2>4, <2>5, <2>6, <2>7, <3>1, <3>2, NowNumbers
        DEF Built
  <2>9. m.a + m.n <= a + n /\ a <= m.a
    BY <1>5, <2>2, NowNumbers
  <2> QED BY <1>1, <1>3, <1>5, <1>7, <1>10, <1>11, <2>2, <2>8, <2>9
<1> QED BY <1>18, <1>19

LEMMA CopyForwards ==
  ASSUME Now, NEW v \in Left(heap)
  PROVE  LET m == gc_copy(v, heap[v])
         IN  Forwards(m.heap, m.to) /\ Room(m.heap, m.a, m.n)
<1> DEFINE m == gc_copy(v, heap[v])
<1>1. PICK d \in Nat : d = m.val /\ a <= d /\ d < a + n /\ d \in Addr
  BY Destination
<1>2. PICK h : h = [heap EXCEPT ![v] = ForwardPointer(d, heap[v].len)]
  OBVIOUS
<1>3. PICK t : t = m.to
  OBVIOUS
<1>4. m.heap = h
  BY <1>1, <1>2, Destination
<1>5. /\ Starts(h) = Starts(heap)
      /\ h[v].kind = "fwd" /\ h[v].to = d /\ h[v].len = heap[v].len
      /\ \A x \in Addr : x # v => h[x] = heap[x]
  <2> DEFINE g == [heap EXCEPT ![v] = ForwardPointer(d, heap[v].len)]
  <2>1. /\ Starts(g) = Starts(heap)
        /\ g[v].kind = "fwd" /\ g[v].to = d /\ g[v].len = heap[v].len
        /\ \A x \in Addr : x # v => g[x] = heap[x]
    BY <1>1, CopyOld
  <2> HIDE DEF g
  <2>2. h = g
    BY <1>2 DEF g
  <2> QED BY <2>1, <2>2
<1>6. /\ \A x \in Addr : x # d => t[x] = to[x]
      /\ t[d] = heap[v]
      /\ \A x : x \in Starts(t) <=> x \in Starts(to) \/ x = d
      /\ d \notin Starts(to)
  BY <1>1, <1>3, CopyNew
<1>7. ~Outside(d)
  <2>1. ASSUME partial PROVE GenStart <= d /\ ~(EndOfHeap <= d)
    BY <1>1, <2>1, NowNumbers
  <2> QED BY <1>1, <2>1, NowNumbers DEF Outside
<1>8. v \in Addr /\ heap[v].kind # "fwd"
  BY DEF Left, isDataElement
<1>9. /\ \A x \in Addr : heap[x].kind = "fwd" =>
           /\ heap[x].to \in Starts(to) /\ ~Outside(heap[x].to) /\ to[heap[x].to].len = heap[x].len
           /\ \A y \in Addr : heap[y].kind = "fwd" /\ heap[x].to = heap[y].to => x = y
      /\ \A y \in Starts(to) : ~Outside(y) => \E x \in Addr : heap[x].kind = "fwd" /\ heap[x].to = y
      /\ \A x \in Addr : Outside(x) => (x \in Starts(heap) <=> x \in Starts(to))
  BY DEF Now, Forwards
<1>10. \A x \in Starts(to) : x \in Addr /\ x # d /\ t[x] = to[x]
  BY <1>6, StartsAre
<1>11. ASSUME NEW x \in Addr, h[x].kind = "fwd"
       PROVE  /\ h[x].to \in Starts(t) /\ ~Outside(h[x].to) /\ t[h[x].to].len = h[x].len
              /\ \A y \in Addr : h[y].kind = "fwd" /\ h[x].to = h[y].to => x = y
  <2>1. CASE x = v
    BY <1>5, <1>6, <1>7, <1>9, <2>1
  <2>2. CASE x # v
    <3>1. h[x] = heap[x] /\ heap[x].to \in Starts(to)
      BY <1>5, <1>9, <1>11, <2>2
    <3>2. h[x].to \in Starts(t) /\ ~Outside(h[x].to) /\ t[h[x].to].len = h[x].len
      BY <1>6, <1>9, <1>10, <1>11, <3>1
    <3>3. ASSUME NEW y \in Addr, h[y].kind = "fwd", h[x].to = h[y].to PROVE x = y
      <4>1. y # v
        BY <1>5, <1>6, <3>1, <3>3
      <4> QED BY <1>5, <1>9, <1>11, <3>1, <3>3, <4>1
    <3> QED BY <3>2, <3>3
  <2> QED BY <2>1, <2>2
<1>12. ASSUME NEW y \in Starts(t), ~Outside(y)
       PROVE  \E x \in Addr : h[x].kind = "fwd" /\ h[x].to = y
  <2>1. CASE y = d
    BY <1>5, <1>8, <2>1
  <2>2. CASE y # d
    <3>1. PICK x \in Addr : heap[x].kind = "fwd" /\ heap[x].to = y
      BY <1>6, <1>9, <1>12, <2>2
    <3> QED BY <1>5, <1>8, <3>1
  <2> QED BY <2>1, <2>2
<1>13. \A x \in Addr : Outside(x) => (x \in Starts(h) <=> x \in Starts(t))
  BY <1>5, <1>6, <1>7, <1>9
<1>14. Forwards(h, t)
  BY <1>11, <1>12, <1>13 DEF Forwards
<1>15. Room(h, m.a, m.n)
  <2>1. PICK len \in Nat : len = el_length(heap[v])
    BY Fits DEF Now, Old
  <2>2. PICK card : card = [K \in SUBSET Kinds |-> Cardinality(LeftWords(heap, K))]
    OBVIOUS
  <2>3. \A K \in SUBSET Kinds : card[K] \in Nat /\ card[K] = Cardinality(LeftWords(heap, K))
    BY <2>2, LeftFacts DEF Now, Old
  <2>4. \A K \in SUBSET Kinds :
          Cardinality(LeftWords(h, K)) = IF heap[v].kind \in K THEN card[K] - len ELSE card[K]
    <3>1. InOrder /\ Shape(heap)
      BY DEF Now, Old
    <3>2. ~isDataElement(h[v])
      BY <1>5 DEF isDataElement
    <3> QED BY <1>5, <2>1, <2>3, <3>1, <3>2, OneLess
  <2>5. /\ m.n = n - len /\ m.a = (IF ToRight(heap[v]) THEN a ELSE a + len)
        /\ m.n \in Nat
    BY <2>1, Destination
  <2>6. heap[v].kind \in Kinds
    BY DEF Left, isDataElement, Kinds
  <2>7. gc_kind = "Generational" => (ToRight(heap[v]) <=> heap[v].kind = "ref")
    <3>1. ASSUME gc_kind = "Generational", partial PROVE heap[v].kind # "ref"
      <4>1. v \in Addr /\ ~(EndOfHeap <= v) /\ isDataElement(heap[v])
        BY <3>1 DEF Left, Outside
      <4> QED BY <3>1, <4>1, StartsAre DEF Now, Old
    <3> QED BY <3>1 DEF ToRight
  <2>8. gc_kind = "Simple" => ~ToRight(heap[v])
    BY DEF ToRight
  <2>9. Kinds \in SUBSET Kinds /\ {"data"} \in SUBSET Kinds /\ {"ref"} \in SUBSET Kinds
    BY DEF Kinds
  <2>10. /\ card[Kinds] <= n
         /\ gc_kind = "Simple" => card[Kinds] <= NextFree + (Limit - EndOfHeap) - a
         /\ gc_kind = "Generational" =>
              card[{"data"}] <= NextFree - a /\ card[{"ref"}] <= a + n - EndOfHeap
    BY <2>3, <2>9 DEF Now, Room
  <2>11. Cardinality(LeftWords(h, Kinds)) <= m.n
    BY <2>3, <2>4, <2>5, <2>6, <2>9, <2>10, NowNumbers
  <2>12. ASSUME gc_kind = "Simple"
         PROVE  Cardinality(LeftWords(h, Kinds)) <= NextFree + (Limit - EndOfHeap) - m.a
    <3>1. m.a = a + len
      BY <2>5, <2>8, <2>12
    <3> QED BY <2>3, <2>4, <2>6, <2>9, <2>10, <2>12, <3>1, NowNumbers
  <2>13. ASSUME gc_kind = "Generational"
         PROVE  /\ Cardinality(LeftWords(h, {"data"})) <= NextFree - m.a
                /\ Cardinality(LeftWords(h, {"ref"})) <= m.a + m.n - EndOfHeap
    <3>1. CASE heap[v].kind = "ref"
      <4>1. m.a = a /\ m.n = n - len
        BY <2>5, <2>7, <2>13, <3>1
      <4>2. /\ Cardinality(LeftWords(h, {"data"})) = card[{"data"}]
            /\ Cardinality(LeftWords(h, {"ref"})) = card[{"ref"}] - len
        BY <2>4, <2>9, <3>1
      <4> QED BY <2>3, <2>5, <2>9, <2>10, <2>13, <4>1, <4>2, NowNumbers
    <3>2. CASE heap[v].kind = "data"
      <4>1. m.a = a + len /\ m.n = n - len
        BY <2>5, <2>7, <2>13, <3>2
      <4>2. /\ Cardinality(LeftWords(h, {"data"})) = card[{"data"}] - len
            /\ Cardinality(LeftWords(h, {"ref"})) = card[{"ref"}]
        BY <2>4, <2>9, <3>2
      <4> QED BY <2>3, <2>5, <2>9, <2>10, <2>13, <4>1, <4>2, NowNumbers
    <3> QED BY <2>6, <3>1, <3>2 DEF Kinds
  <2> QED BY <2>11, <2>12, <2>13 DEF Room
<1> QED BY <1>3, <1>4, <1>14, <1>15

LEMMA CopyOk == ASSUME Now, NEW v \in Left(heap) PROVE gc_copy(v, heap[v]).ok = TRUE
<1>1. gc_copy(v, heap[v]).ok \in BOOLEAN
  BY DEF gc_copy
<1> QED BY <1>1, Destination

(* What gc_move gives: the heaps are as they should be again, the answer leads
   to the new one, and whatever is copied is what the answer leads to and is
   still to be scanned. *)
Result(m) ==
  /\ Old(m.heap) /\ Built(m.to, m.a, m.n) /\ Forwards(m.heap, m.to)
  /\ Room(m.heap, m.a, m.n) /\ m.ok = TRUE
  /\ m.val = Data \/ m.val \in Starts(m.to)
  /\ Starts(m.heap) = Starts(heap)
  /\ \A x \in Starts(to) : x \in Starts(m.to) /\ m.to[x] = to[x]
  /\ \A x \in Starts(m.to) : x \notin Starts(to) =>
       /\ x = m.val /\ a <= x /\ x < a + n
       /\ \A j \in 1 .. Len(m.to[x].ptrs) :
            m.to[x].ptrs[j] = Data \/ m.to[x].ptrs[j] \in Starts(heap)
  /\ a <= m.a /\ m.a + m.n <= a + n

LEMMA SameResult ==
  ASSUME Now, NEW w, w = Data \/ w \in Starts(to)
  PROVE  Result(gc_same(w, TRUE))
<1> DEFINE m == gc_same(w, TRUE)
<1>1. (ok /\ TRUE) = TRUE
  BY DEF Now, TypeOK
<1>2. m.heap = heap /\ m.to = to /\ m.a = a /\ m.n = n /\ m.val = w /\ m.ok = (ok /\ TRUE)
  BY DEF gc_same
<1> HIDE DEF m
<1>3. m.ok = TRUE
  BY <1>1, <1>2
<1>4. Old(heap) /\ Built(to, a, n) /\ Forwards(heap, to) /\ Room(heap, a, n)
  BY DEF Now
<1>5. a <= m.a /\ m.a + m.n <= a + n
  BY <1>2, NowNumbers
<1>6. Result(m)
  BY <1>2, <1>3, <1>4, <1>5 DEF Result
<1> QED BY <1>6 DEF m

LEMMA CopyResult ==
  ASSUME Now, NEW v \in Left(heap)
  PROVE  Result(gc_copy(v, heap[v]))
<1> DEFINE m == gc_copy(v, heap[v])
           g(d) == [heap EXCEPT ![v] = ForwardPointer(d, heap[v].len)]
<1>1. m.val \in Nat /\ a <= m.val /\ m.val < a + n /\ m.heap = g(m.val)
  BY Destination
<1>2. ASSUME NEW d \in Nat PROVE Old(g(d)) /\ Starts(g(d)) = Starts(heap)
  BY CopyOld
<1>3. /\ Built(m.to, m.a, m.n) /\ m.a + m.n <= a + n /\ a <= m.a
      /\ \A x \in Addr : x # m.val => m.to[x] = to[x]
      /\ m.to[m.val] = heap[v]
      /\ \A x : x \in Starts(m.to) <=> x \in Starts(to) \/ x = m.val
      /\ m.val \notin Starts(to)
  BY CopyNew
<1>4. Forwards(m.heap, m.to) /\ Room(m.heap, m.a, m.n)
  BY CopyForwards
<1>5. m.ok = TRUE
  BY CopyOk
<1> HIDE DEF m, g
<1>6. Old(m.heap) /\ Starts(m.heap) = Starts(heap)
  BY <1>1, <1>2
<1>7. \A x \in Starts(to) : x \in Starts(m.to) /\ m.to[x] = to[x]
  BY <1>3, StartsAre
<1>8. \A j \in 1 .. Len(heap[v].ptrs) : heap[v].ptrs[j] = Data \/ heap[v].ptrs[j] \in Starts(heap)
  BY StartsAre DEF Left, Now, Old, Lead, Points
<1>9. \A x \in Starts(m.to) : x \notin Starts(to) =>
        /\ x = m.val /\ a <= x /\ x < a + n
        /\ \A j \in 1 .. Len(m.to[x].ptrs) :
             m.to[x].ptrs[j] = Data \/ m.to[x].ptrs[j] \in Starts(heap)
  BY <1>1, <1>3, <1>8
<1>10. m.val = Data \/ m.val \in Starts(m.to)
  BY <1>3
<1>11. Result(m)
  BY <1>3, <1>4, <1>5, <1>6, <1>7, <1>9, <1>10 DEF Result
<1> QED BY <1>11 DEF m

\* Of a word, or of a pointer to an element of the old heap.
LEMMA MoveOne ==
  ASSUME Now, NEW v, v = Data \/ v \in Starts(heap)
  PROVE  Result(gc_move(v))
<1>1. v # Data => v \in Starts(heap) /\ v \in Addr
  BY StartsAre
<1>2. CASE v = Data
  <2>1. gc_move(v) = gc_same(v, TRUE)
    BY <1>2 DEF gc_move
  <2> QED BY <1>2, <2>1, SameResult
<1>3. CASE v # Data /\ Outside(v)
  <2>1. gc_move(v) = gc_same(v, TRUE)
    BY <1>3 DEF gc_move
  <2>2. v \in Starts(to)
    BY <1>1, <1>3 DEF Now, Forwards
  <2> QED BY <2>1, <2>2, SameResult
<1>4. CASE v # Data /\ ~Outside(v) /\ heap[v].kind = "fwd"
  <2>1. gc_move(v) = gc_same(heap[v].to, TRUE)
    <3>1. ~isDataElement(heap[v]) /\ heap[v].kind # "unused"
      BY <1>4 DEF isDataElement
    <3> QED BY <1>4, <3>1 DEF gc_move
  <2>2. heap[v].to \in Starts(to)
    BY <1>1, <1>4 DEF Now, Forwards
  <2> QED BY <2>1, <2>2, SameResult
<1>5. CASE v # Data /\ ~Outside(v) /\ isDataElement(heap[v])
  <2>1. gc_move(v) = gc_copy(v, heap[v])
    <3>1. heap[v].kind # "fwd" /\ heap[v].kind # "unused"
      BY <1>5 DEF isDataElement
    <3> QED BY <1>5, <3>1 DEF gc_move
  <2>2. v \in Left(heap)
    BY <1>1, <1>5 DEF Left
  <2> QED BY <2>1, <2>2, CopyResult
<1>6. v # Data => heap[v].kind \in {"unused", "data", "ref", "fwd"} /\ heap[v].kind # "unused"
  BY <1>1, NowNumbers, ElementFacts, StartsAre DEF Element, Begins
<1>7. v = Data \/ Outside(v) \/ heap[v].kind = "fwd" \/ isDataElement(heap[v])
  BY <1>6 DEF isDataElement
<1> QED BY <1>2, <1>3, <1>4, <1>5, <1>7

------------------------------------------------------------------------------
(***************************************************************************)
(* The steps of a collection.                                              *)
(***************************************************************************)
\* What is said of heaps, a step later.
LEMMA FrameOld ==
  ASSUME UNCHANGED <<registers, partial>>
  PROVE  /\ \A x : Outside(x)' <=> Outside(x)
         /\ Old(heap') => Old(heap)'
         /\ Forwards(heap', to') => Forwards(heap, to)'
         /\ Room(heap', a', n') => Room(heap, a, n)'
<1>1. partial' = partial /\ gc_kind' = gc_kind /\ GenStart' = GenStart
      /\ EndOfHeap' = EndOfHeap /\ NextFree' = NextFree
  BY DEF registers
<1>2. \A x : Outside(x)' <=> Outside(x)
  BY <1>1 DEF Outside
<1>3. Left(heap)' = Left(heap')
  BY <1>1 DEF Left, Outside
<1>4. \A K : LeftWords(heap, K)' = LeftWords(heap', K)
  BY <1>3 DEF LeftWords
<1>5. Room(heap', a', n') => Room(heap, a, n)'
  BY <1>1, <1>4 DEF Room
<1>6. Old(heap') => Old(heap)'
  BY <1>1 DEF Old, Shape, Outside
<1>7. Forwards(heap', to') => Forwards(heap, to)'
  BY <1>1 DEF Forwards, Outside
<1> QED BY <1>2, <1>5, <1>6, <1>7

LEMMA FrameNew ==
  ASSUME UNCHANGED <<registers, partial, h1, r3, r2, r1>>, Built(to', a', n')
  PROVE  Built(to, a, n)'
BY DEF Built, registers, Base

\* The new heap may also have a pointer of an element replaced.
LEMMA SameShape ==
  ASSUME Now, NEW t, NEW s, NEW k, Built(t, s, k), NEW h, Forwards(h, t), NEW u \in Heaps,
         \A x \in Addr : u[x].kind = t[x].kind /\ u[x].len = t[x].len
  PROVE  Built(u, s, k) /\ Forwards(h, u) /\ Starts(u) = Starts(t)
<1>1. t \in Heaps /\ s \in Nat /\ k \in Nat /\ s + k <= r3
  BY DEF Built, Heaps
<1>2. s + k \in Nat /\ s <= s + k /\ s <= Limit /\ s + k <= Limit
  BY <1>1, NowNumbers
<1>3. \A x \in Addr : /\ Begins(u, x) <=> Begins(t, x)
                      /\ isDataElement(u[x]) <=> isDataElement(t[x])
  BY DEF Begins, isDataElement
<1>4. \A x \in 0 .. Limit - 1 : (Begins(u, x) <=> Begins(t, x)) /\ u[x].len = t[x].len
  BY <1>3, Limits
<1>5. Starts(u) = Starts(t)
  BY <1>3, StartsAre
<1>6. ASSUME NEW lo \in Nat, NEW hi \in Nat, hi <= Limit, Tiled(t, lo, hi) PROVE Tiled(u, lo, hi)
  <2>1. \A x \in lo .. hi - 1 : x \in 0 .. Limit - 1
    BY <1>6, NowNumbers
  <2> QED BY <1>4, <1>6, <2>1, SameTiling
<1>7. Free(u, s, s + k)
  <2>1. \A x \in s .. s + k - 1 : x \in 0 .. Limit - 1
    BY <1>1, <1>2, NowNumbers
  <2> QED BY <1>1, <1>2, <1>4, <2>1 DEF Built, Free
<1>8. /\ Tiled(u, 0, s) /\ Tiled(u, s + k, Limit)
      /\ Tiled(u, h1, s) /\ Tiled(u, s + k, r3) /\ Tiled(u, r2, r1)
  <2>1. /\ Tiled(t, 0, s) /\ Tiled(t, s + k, Limit)
        /\ Tiled(t, h1, s) /\ Tiled(t, s + k, r3) /\ Tiled(t, r2, r1)
    BY DEF Built
  <2>2. r3 <= Limit
    BY NowNumbers
  <2> QED BY <1>1, <1>2, <1>6, <2>1, <2>2, NowNumbers
<1>9. Built(u, s, k)
  <2>1. \A x \in Starts(u) : isDataElement(u[x])
    BY <1>3, <1>5, StartsAre DEF Built
  <2>2. gc_kind = "Generational" => \A x \in Starts(u) : u[x].kind = "ref" <=> s + k <= x
    BY <1>5, StartsAre DEF Built
  <2>3. u \in [Addr -> Element]
    BY DEF Heaps
  <2> QED BY <1>7, <1>8, <2>1, <2>2, <2>3 DEF Built
<1>10. Forwards(h, u)
  <2>1. \A x \in Addr : h[x].kind = "fwd" =>
          h[x].to \in Starts(u) /\ ~Outside(h[x].to) /\ u[h[x].to].len = h[x].len
    <3>1. ASSUME NEW x \in Addr, h[x].kind = "fwd"
          PROVE  h[x].to \in Starts(u) /\ ~Outside(h[x].to) /\ u[h[x].to].len = h[x].len
      <4>1. h[x].to \in Starts(t) /\ ~Outside(h[x].to) /\ t[h[x].to].len = h[x].len
        BY <3>1 DEF Forwards
      <4>2. h[x].to \in Addr
        BY <4>1, StartsAre
      <4> QED BY <1>5, <4>1, <4>2
    <3> QED BY <3>1
  <2> QED BY <1>5, <2>1 DEF Forwards
<1> QED BY <1>5, <1>9, <1>10

\* The heaps after a pointer is moved, and perhaps written into the new heap.
LEMMA Moving ==
  ASSUME Now, NEW m, Result(m), Moved(m), ok' = m.ok, to' \in Heaps,
         \A x \in Addr : to'[x].kind = m.to[x].kind /\ to'[x].len = m.to[x].len,
         UNCHANGED <<registers, partial, h1, r3, r2, r1>>
  PROVE  /\ ok' = TRUE /\ Old(heap)' /\ Built(to, a, n)' /\ Forwards(heap, to)' /\ Room(heap, a, n)'
         /\ Starts(heap)' = Starts(heap) /\ Starts(to)' = Starts(m.to)
         /\ Starts(to) \subseteq Starts(to)'
         /\ heap' \in [Addr -> Element] /\ a' \in Nat /\ n' \in Nat
<1>1. heap' = m.heap /\ a' = m.a /\ n' = m.n
  BY DEF Moved
<1>2. Built(m.to, m.a, m.n) /\ Forwards(m.heap, m.to) /\ Old(m.heap) /\ Room(m.heap, m.a, m.n)
      /\ m.ok = TRUE /\ Starts(m.heap) = Starts(heap) /\ Starts(to) \subseteq Starts(m.to)
  BY DEF Result
<1>3. Built(to', a', n') /\ Forwards(heap', to') /\ Starts(to') = Starts(m.to)
  BY <1>1, <1>2, SameShape
<1>4. Old(heap') /\ Room(heap', a', n')
  BY <1>1, <1>2
<1>5. Built(to, a, n)'
  BY <1>3, FrameNew
<1>6. Old(heap)' /\ Forwards(heap, to)' /\ Room(heap, a, n)'
  BY <1>3, <1>4, FrameOld
<1>7. heap' \in [Addr -> Element] /\ a' \in Nat /\ n' \in Nat
  BY <1>3, <1>4 DEF Old, Shape, Built
<1>8. Starts(heap)' = Starts(heap) /\ Starts(to)' = Starts(m.to)
  BY <1>1, <1>2, <1>3
<1> QED BY <1>2, <1>5, <1>6, <1>7, <1>8

LEMMA InGc ==
  ASSUME IInv, ~Running
  PROVE  Now /\ FieldsLead /\ Roots /\ Clock /\ InCollection /\ ok = TRUE
BY DEF IInv, InCollection, Now, TypeOK

\* Where a scan is.
ScannedAt(x) ==
  \/ x = h1 /\ phase = "data" /\ h1 < a
  \/ x = r2 /\ phase = "refs" /\ r2 < r1

\* The pointer a scan has reached has not been moved yet.
LEMMA NotMovedYet ==
  ASSUME Now, FieldsLead, NEW x, ScannedAt(x), i <= Len(to[x].ptrs)
  PROVE  /\ x \in Starts(to) /\ i \in 1 .. Len(to[x].ptrs)
         /\ to[x].ptrs[i] = Data \/ to[x].ptrs[i] \in Starts(heap)
<1>1. x \in Addr /\ Begins(to, x)
  <2>1. CASE x = h1 /\ phase = "data" /\ h1 < a
    <3>1. Tiled(to, h1, a) /\ h1 < a /\ a <= Limit
      BY <2>1, NowNumbers DEF Now, Built
    <3> QED BY <2>1, <3>1, NowNumbers, TiledNext
  <2>2. CASE x = r2 /\ phase = "refs" /\ r2 < r1
    <3>1. Tiled(to, r2, r1) /\ r2 < r1
      BY <2>2 DEF Now, Built
    <3> QED BY <2>2, <3>1, NowNumbers, TiledNext
  <2> QED BY <2>1, <2>2 DEF ScannedAt
<1>2. x \in Starts(to)
  BY <1>1, StartsAre
<1>3. to[x].ptrs \in Seq(Val) /\ Len(to[x].ptrs) \in Nat
  BY <1>1, NowNumbers, ElementFacts, LenProperties
<1>4. i \in 1 .. Len(to[x].ptrs)
  BY <1>3, NowNumbers
<1>5. ~Scanned(x, i)
  <2>1. CASE x = h1 /\ phase = "data" /\ h1 < a
    BY <2>1, NowNumbers DEF Scanned
  <2>2. CASE x = r2 /\ phase = "refs" /\ r2 < r1
    BY <2>2, NowNumbers DEF Scanned
  <2> QED BY <2>1, <2>2 DEF ScannedAt
<1> QED BY <1>2, <1>4, <1>5 DEF FieldsLead

LEMMA MoveRootKeeps ==
  ASSUME IInv, MoveRoot
  PROVE  IInv'
<1>1. phase = "roots" /\ i <= NRoots /\ ~Running
  BY DEF MoveRoot, Running
<1>2. Now /\ FieldsLead /\ Roots /\ Clock /\ InCollection /\ TypeOK /\ InOrder
  BY <1>1, InGc DEF IInv
<1>3. PICK m : m = gc_move(root[i])
  OBVIOUS
<1>4. /\ Moved(m) /\ ok' = m.ok /\ to' = m.to /\ root' = [root EXCEPT ![i] = m.val]
      /\ i' = i + 1
      /\ UNCHANGED <<AllocSize, space, registers, phase, partial, h1, r3, r2, r1, clock>>
  BY <1>3 DEF MoveRoot
<1>5. UNCHANGED <<registers, partial, h1, r3, r2, r1>>
  BY <1>4
<1>6. i \in RootList /\ root \in [RootList -> Val]
  BY <1>1, <1>2, NowNumbers, ShapeAssumption DEF RootList, TypeOK
<1>7. Result(m)
  <2>1. root[i] = Data \/ root[i] \in Starts(heap)
    BY <1>1, <1>2, <1>6, NowNumbers DEF Roots
  <2> QED BY <1>2, <1>3, <2>1, MoveOne
<1>8. to' \in Heaps /\ to' \in [Addr -> Element]
  BY <1>4, <1>7 DEF Result, Built, Heaps
<1>9. /\ ok' = TRUE /\ Old(heap)' /\ Built(to, a, n)' /\ Forwards(heap, to)' /\ Room(heap, a, n)'
      /\ Starts(heap)' = Starts(heap) /\ Starts(to)' = Starts(m.to)
      /\ Starts(to) \subseteq Starts(to)'
      /\ heap' \in [Addr -> Element] /\ a' \in Nat /\ n' \in Nat
  BY <1>2, <1>4, <1>5, <1>7, <1>8, Moving
<1>10. FieldsLead'
  <2>1. \A x, j : Scanned(x, j)' <=> Scanned(x, j)
    BY <1>1, <1>4 DEF Scanned
  <2>2. ASSUME NEW x \in Starts(to'), NEW j \in 1 .. Len(to'[x].ptrs), to'[x].ptrs[j] # Data
        PROVE  to'[x].ptrs[j] \in IF Scanned(x, j) THEN Starts(to') ELSE Starts(heap')
    <3>1. CASE x \in Starts(to)
      <4>1. to'[x] = to[x]
        BY <1>4, <1>7, <3>1 DEF Result
      <4> QED BY <1>2, <1>9, <2>2, <3>1, <4>1 DEF FieldsLead
    <3>2. CASE x \notin Starts(to)
      <4>1. a <= x /\ x < a + n /\ to'[x].ptrs[j] \in Starts(heap)
        BY <1>4, <1>7, <2>2, <3>2 DEF Result
      <4>2. x \in Nat
        BY <2>2, StartsAre, Limits
      <4>3. ~Scanned(x, j)
        BY <1>1, <1>2, <4>1, <4>2, NowNumbers DEF Scanned
      <4> QED BY <1>9, <4>1, <4>3
    <3> QED BY <3>1, <3>2
  <2> QED BY <2>1, <2>2 DEF FieldsLead
<1>11. m.val = Data \/ m.val \in Starts(to')
  BY <1>4, <1>7 DEF Result
<1>12. Roots'
  <2>1. ASSUME NEW r \in RootList, root'[r] # Data
        PROVE  root'[r] \in IF i' <= r THEN Starts(heap') ELSE Starts(to')
    <3>1. r \in Nat
      BY ShapeAssumption DEF RootList
    <3>2. CASE r = i
      BY <1>2, <1>4, <1>6, <1>11, <2>1, <3>1, <3>2, NowNumbers
    <3>3. CASE r # i
      <4>1. root'[r] = root[r] /\ (i' <= r <=> i <= r)
        BY <1>2, <1>4, <1>6, <3>1, <3>3, NowNumbers
      <4> QED BY <1>1, <1>2, <1>9, <2>1, <4>1 DEF Roots
    <3> QED BY <3>2, <3>3
  <2> QED BY <1>1, <1>4, <2>1 DEF Roots
<1>13. Positions' /\ Clock'
  BY <1>1, <1>2, <1>4, NowNumbers DEF Now, Positions, Clock, registers
<1>14. TypeOK'
  <2>1. root' \in [RootList -> Val]
    <3>1. m.val \in Val
      BY <1>11, StartsAre DEF Val
    <3> QED BY <1>4, <1>6, <3>1
  <2>2. i' \in Nat
    BY <1>2, <1>4, NowNumbers
  <2> QED BY <1>2, <1>4, <1>8, <1>9, <2>1, <2>2 DEF TypeOK, registers
<1>15. InOrder'
  BY <1>2, <1>4 DEF InOrder, registers
<1>16. ~Running'
  BY <1>1, <1>4 DEF Running
<1> QED BY <1>9, <1>10, <1>12, <1>13, <1>14, <1>15, <1>16 DEF IInv, InCollection

(* The element at x after a pointer of it is moved: m is what gc_move gave, and
   one pointer more has been scanned. *)
FieldStep(x, m) ==
  /\ Result(m) /\ Moved(m) /\ ok' = m.ok
  /\ x \in Starts(to) /\ i \in 1 .. Len(to[x].ptrs)
  /\ to' \in Heaps /\ Starts(to)' = Starts(m.to)
  /\ \A y \in Addr : to'[y].kind = m.to[y].kind /\ to'[y].len = m.to[y].len
  /\ m = gc_move(to[x].ptrs[i]) /\ to'[x].id = m.to[x].id
  /\ \A y \in Addr : y # x => to'[y] = m.to[y]
  /\ Len(to'[x].ptrs) = Len(to[x].ptrs)
  /\ \A j \in 1 .. Len(to[x].ptrs) :
       to'[x].ptrs[j] = IF j = i THEN m.val ELSE to[x].ptrs[j]
  /\ \A y, j : y # x /\ j \in Nat => (Scanned(y, j)' <=> Scanned(y, j))
  /\ \A j \in Nat : (Scanned(x, j)' <=> j < i + 1) /\ (Scanned(x, j) <=> j < i)

LEMMA FieldSteps ==
  ASSUME IInv, ~Running, NEW x, ScannedAt(x), MoveField(x)
  PROVE  \E m : FieldStep(x, m)
<1>0. /\ phase \in {"refs", "data"}
      /\ (phase = "data" => x = h1 /\ h1 < a) /\ (phase = "refs" => x = r2 /\ r2 < r1)
  BY DEF ScannedAt
<1>1. Now /\ FieldsLead /\ Roots /\ Clock /\ InCollection /\ TypeOK /\ InOrder
  BY InGc DEF IInv
<1>2. PICK v : v = to[x].ptrs[i]
  OBVIOUS
<1>3. PICK m : m = gc_move(v)
  OBVIOUS
<1>4. /\ i <= Len(to[x].ptrs) /\ Moved(m) /\ ok' = m.ok
      /\ to' = [m.to EXCEPT ![x].ptrs[i] = m.val]
      /\ i' = i + 1
      /\ UNCHANGED <<root, AllocSize, space, registers, phase, partial, h1, r3, r2, r1, clock>>
  BY <1>2, <1>3 DEF MoveField
<1>5. UNCHANGED <<registers, partial, h1, r3, r2, r1>>
  BY <1>4
<1>6. x \in Starts(to) /\ x \in Addr /\ i \in 1 .. Len(to[x].ptrs) /\ (v = Data \/ v \in Starts(heap))
  BY <1>1, <1>2, <1>4, NotMovedYet, StartsAre
<1>7. Result(m)
  BY <1>1, <1>3, <1>6, MoveOne
<1>8. /\ m.to \in Heaps /\ m.to \in [Addr -> Element] /\ m.to[x] = to[x]
      /\ \A y \in Starts(to) : y \in Starts(m.to) /\ m.to[y] = to[y]
      /\ m.val = Data \/ m.val \in Starts(m.to)
  BY <1>6, <1>7 DEF Result, Built, Heaps
<1>9. m.val \in Val
  BY <1>8, StartsAre DEF Val
<1>10. /\ to' \in Heaps
       /\ \A y \in Addr : to'[y].kind = m.to[y].kind /\ to'[y].len = m.to[y].len
       /\ to'[x].id = m.to[x].id
       /\ \A y \in Addr : y # x => to'[y] = m.to[y]
       /\ Len(to'[x].ptrs) = Len(to[x].ptrs)
       /\ \A j \in 1 .. Len(to[x].ptrs) :
            to'[x].ptrs[j] = IF j = i THEN m.val ELSE to[x].ptrs[j]
  <2>1. PICK q : q = [to[x].ptrs EXCEPT ![i] = m.val]
    OBVIOUS
  <2>2. to[x].ptrs \in Seq(Val)
    BY <1>1, <1>6, NowNumbers, ElementFacts
  <2>3. /\ q \in Seq(Val) /\ Len(q) = Len(to[x].ptrs)
        /\ \A j \in 1 .. Len(to[x].ptrs) : q[j] = IF j = i THEN m.val ELSE to[x].ptrs[j]
    BY <1>6, <1>9, <2>1, <2>2, ExceptSeq
  <2>4. PICK e : e = [m.to[x] EXCEPT !.ptrs = q]
    OBVIOUS
  <2>5. e \in Element /\ e.kind = m.to[x].kind /\ e.len = m.to[x].len /\ e.id = m.to[x].id /\ e.ptrs = q
    BY <1>6, <1>8, <2>3, <2>4 DEF Element
  <2>6. to' = [m.to EXCEPT ![x] = e]
    BY <1>4, <1>8, <2>1, <2>4
  <2>7. to' \in [Addr -> Element] /\ to'[x] = e /\ \A y \in Addr : y # x => to'[y] = m.to[y]
    BY <1>6, <1>8, <2>5, <2>6
  <2> QED BY <2>3, <2>5, <2>7 DEF Heaps
<1>11. /\ ok' = TRUE /\ Old(heap)' /\ Built(to, a, n)' /\ Forwards(heap, to)' /\ Room(heap, a, n)'
       /\ Starts(heap)' = Starts(heap) /\ Starts(to)' = Starts(m.to)
       /\ Starts(to) \subseteq Starts(to)'
       /\ heap' \in [Addr -> Element] /\ a' \in Nat /\ n' \in Nat
  BY <1>1, <1>4, <1>5, <1>7, <1>10, Moving
<1>12. a <= a' /\ a' \in Nat
  BY <1>4, <1>7, <1>11 DEF Moved, Result
<1>13. x \in Nat
  BY <1>6, Limits
<1>14. ASSUME NEW y, NEW j \in Nat, y # x PROVE Scanned(y, j)' <=> Scanned(y, j)
  <2>1. phase' = phase /\ h1' = h1 /\ r3' = r3 /\ r2' = r2 /\ r1' = r1
    BY <1>4
  <2>2. phase = "data" => y # h1
    BY <1>0, <1>14
  <2>3. phase = "refs" => y # r2
    BY <1>0, <1>14
  <2> QED BY <2>1, <2>2, <2>3 DEF Scanned
<1>15. ASSUME NEW j \in Nat PROVE Scanned(x, j)' <=> j < i + 1
  <2>1. CASE x = h1 /\ phase = "data" /\ h1 < a
    BY <1>1, <1>4, <1>12, <1>15, <2>1, NowNumbers DEF Scanned
  <2>2. CASE x = r2 /\ phase = "refs" /\ r2 < r1
    BY <1>1, <1>4, <1>12, <1>15, <2>2, NowNumbers DEF Scanned
  <2> QED BY <2>1, <2>2 DEF ScannedAt
<1>16. ASSUME NEW j \in Nat PROVE Scanned(x, j) <=> j < i
  <2>1. CASE x = h1 /\ phase = "data" /\ h1 < a
    BY <1>1, <1>16, <2>1, NowNumbers DEF Scanned
  <2>2. CASE x = r2 /\ phase = "refs" /\ r2 < r1
    BY <1>1, <1>16, <2>2, NowNumbers DEF Scanned
  <2> QED BY <2>1, <2>2 DEF ScannedAt
<1>17. m = gc_move(to[x].ptrs[i])
  BY <1>2, <1>3
<1>18. FieldStep(x, m)
  BY <1>4, <1>6, <1>7, <1>10, <1>11, <1>14, <1>15, <1>16, <1>17, Zenon DEF FieldStep
<1> QED BY <1>18

LEMMA MoveFieldKeeps ==
  ASSUME IInv, ~Running, NEW x, ScannedAt(x), MoveField(x)
  PROVE  IInv'
<1>0. /\ phase \in {"refs", "data"}
      /\ (phase = "data" => x = h1 /\ h1 < a) /\ (phase = "refs" => x = r2 /\ r2 < r1)
  BY DEF ScannedAt
<1>1. Now /\ FieldsLead /\ Roots /\ Clock /\ InCollection /\ TypeOK /\ InOrder
  BY InGc DEF IInv
<1>2. PICK m : FieldStep(x, m)
  BY FieldSteps
<1>4. /\ i' = i + 1
      /\ UNCHANGED <<root, AllocSize, space, registers, phase, partial, h1, r3, r2, r1, clock>>
  BY DEF MoveField
<1>5. UNCHANGED <<registers, partial, h1, r3, r2, r1>>
  BY <1>4
<1>6. x \in Starts(to) /\ x \in Addr /\ i \in 1 .. Len(to[x].ptrs)
  BY <1>2, StartsAre DEF FieldStep
<1>7. Result(m)
  BY <1>2 DEF FieldStep
<1>8. /\ \A y \in Starts(to) : y \in Starts(m.to) /\ m.to[y] = to[y]
      /\ m.val = Data \/ m.val \in Starts(m.to)
  BY SMTT(30), <1>7 DEF Result
<1>10. /\ to' \in Heaps
       /\ \A y \in Addr : to'[y].kind = m.to[y].kind /\ to'[y].len = m.to[y].len
       /\ to'[x].id = m.to[x].id
       /\ \A y \in Addr : y # x => to'[y] = m.to[y]
       /\ Len(to'[x].ptrs) = Len(to[x].ptrs)
       /\ \A j \in 1 .. Len(to[x].ptrs) :
            to'[x].ptrs[j] = IF j = i THEN m.val ELSE to[x].ptrs[j]
  BY <1>2 DEF FieldStep
<1>11. /\ ok' = TRUE /\ Old(heap)' /\ Built(to, a, n)' /\ Forwards(heap, to)' /\ Room(heap, a, n)'
       /\ Starts(heap)' = Starts(heap) /\ Starts(to)' = Starts(m.to)
       /\ Starts(to) \subseteq Starts(to)'
       /\ heap' \in [Addr -> Element] /\ a' \in Nat /\ n' \in Nat
  <2>1. Moved(m) /\ ok' = m.ok
    BY SMTT(30), <1>2 DEF FieldStep
  <2> QED BY <1>1, <1>5, <1>7, <1>10, <2>1, Moving
<1>12. a <= a' /\ a' \in Nat
  BY Zenon, <1>2, <1>7, <1>11 DEF FieldStep, Moved, Result
<1>13. x \in Nat
  BY <1>6, Limits
<1>14. \A y, j : y # x /\ j \in Nat => (Scanned(y, j)' <=> Scanned(y, j))
  BY <1>2 DEF FieldStep
<1>15. \A j \in Nat : Scanned(x, j)' <=> j < i + 1
  BY <1>2 DEF FieldStep
<1>16. \A j \in Nat : Scanned(x, j) <=> j < i
  BY <1>2 DEF FieldStep
<1>17. FieldsLead'
  <2>1. ASSUME NEW y \in Starts(to'), NEW j \in 1 .. Len(to'[y].ptrs), to'[y].ptrs[j] # Data
        PROVE  to'[y].ptrs[j] \in IF Scanned(y, j)' THEN Starts(to') ELSE Starts(heap')
    <3>1. y \in Addr /\ j \in Nat /\ y \in Starts(m.to)
      BY <1>11, <2>1, StartsAre
    <3>2. CASE y = x /\ j = i
      <4>1. to'[y].ptrs[j] = m.val
        BY <1>6, <1>10, <3>2
      <4> QED BY <1>1, <1>8, <1>11, <1>15, <2>1, <3>2, <4>1, NowNumbers
    <3>3. CASE y = x /\ j # i
      <4>1. to'[y].ptrs[j] = to[x].ptrs[j] /\ j \in 1 .. Len(to[x].ptrs)
        BY <1>10, <2>1, <3>3
      <4>2. j < i + 1 <=> j < i
        BY <1>1, <3>1, <3>3, NowNumbers
      <4> QED BY <1>1, <1>6, <1>11, <1>15, <1>16, <2>1, <3>1, <3>3, <4>1, <4>2 DEF FieldsLead
    <3>4. CASE y # x /\ y \in Starts(to)
      <4>1. to'[y] = to[y]
        BY <1>8, <1>10, <3>1, <3>4
      <4> QED BY <1>1, <1>11, <1>14, <2>1, <3>1, <3>4, <4>1 DEF FieldsLead
    <3>5. CASE y # x /\ y \notin Starts(to)
      <4>1. to'[y] = m.to[y]
        BY <1>10, <3>1, <3>5
      <4>2. a <= y /\ y < a + n /\ to'[y].ptrs[j] \in Starts(heap)
        BY <1>7, <2>1, <3>1, <3>5, <4>1 DEF Result
      <4>3. y \in Nat
        BY <3>1, Limits
      <4>4. ~Scanned(y, j)
        <5>1. phase = "data" => h1 < a
          BY <1>0
        <5>2. ~(y < h1) /\ ~(r3 <= y) /\ ~(r1 <= y) /\ y # r2
          BY <1>1, <4>2, <4>3, NowNumbers
        <5>3. phase = "data" => y # h1
          BY <1>1, <4>2, <4>3, <5>1, NowNumbers
        <5> QED BY <5>2, <5>3 DEF Scanned
      <4> QED BY <1>11, <1>14, <3>1, <3>5, <4>2, <4>4
    <3> QED BY <3>2, <3>3, <3>4, <3>5
  <2> QED BY <2>1 DEF FieldsLead
<1>18. Roots'
  <2>1. phase # "roots"
    BY <1>0
  <2>2. root' = root /\ phase' = phase
    BY <1>4
  <2> QED BY <1>1, <1>11, <2>1, <2>2 DEF Roots
<1>19. Positions' /\ Clock'
  <2>2. i' = i + 1 /\ i \in Nat /\ 1 <= i
    BY <1>1, <1>4, NowNumbers
  <2>3. phase = "data" => h1 < a /\ h1 < a'
    BY <1>0, <1>1, <1>12, NowNumbers
  <2>4. /\ UNCHANGED <<r3, r2, r1, h1, phase, partial, gc_kind, AllocSize, EndOfHeap, TriggerGC, clock>>
        /\ phase \in {"refs", "data"} /\ (phase = "refs" => r2 < r1)
    BY <1>0, <1>4 DEF registers
  <2>5. Positions'
    BY <1>1, <2>2, <2>3, <2>4, NowNumbers DEF Now, Positions
  <2>6. Clock'
    BY <1>1, <2>3, <2>4 DEF Clock
  <2> QED BY <2>5, <2>6
<1>20. TypeOK'
  <2>1. i' \in Nat
    BY <1>1, <1>4, NowNumbers
  <2>2. to' \in [Addr -> Element]
    BY <1>10 DEF Heaps
  <2> QED BY <1>1, <1>4, <1>11, <2>1, <2>2 DEF TypeOK, registers
<1>21. InOrder'
  BY <1>1, <1>4 DEF InOrder, registers
<1>22. ~Running'
  BY <1>4 DEF Running
<1> QED BY <1>11, <1>17, <1>18, <1>19, <1>20, <1>21, <1>22 DEF IInv, InCollection

\* A step that moves nothing, but may go on to something else.
Phases == {"roots", "loop", "refs", "data", "done"}
LEMMA ScanKeeps ==
  ASSUME IInv, ~Running,
         UNCHANGED <<heap, to, a, n, registers, partial, root, AllocSize, space>>,
         phase' \in Phases, ok' = TRUE, Built(to, a, n)', Positions', Clock', Roots',
         h1' \in Nat, r3' \in Nat, r2' \in Nat, r1' \in Nat, i' \in Nat, clock' \in Nat,
         \A x \in Starts(to) : \A j \in 1 .. Len(to[x].ptrs) : Scanned(x, j)' <=> Scanned(x, j)
  PROVE  IInv'
<1>1. Old(heap)' /\ Forwards(heap, to)' /\ Room(heap, a, n)'
  <2>1. Old(heap') /\ Forwards(heap', to') /\ Room(heap', a', n')
    BY InGc DEF Now
  <2> QED BY <2>1, FrameOld
<1>2. FieldsLead'
  <2>1. heap' = heap /\ to' = to
    OBVIOUS
  <2>2. FieldsLead
    BY InGc
  <2> QED BY <2>1, <2>2 DEF FieldsLead
<1>3. TypeOK'
  BY DEF IInv, TypeOK, registers, Phases
<1>4. InOrder'
  BY DEF IInv, InOrder, registers
<1>5. ~Running'
  BY DEF Running, Phases
<1> QED BY <1>1, <1>2, <1>3, <1>4, <1>5 DEF IInv, InCollection

\* The element a scan has reached, and where the next one begins.
LEMMA Reached ==
  ASSUME Now, NEW lo \in {h1, r2}, NEW hi \in {a, r1}, lo < hi, Tiled(to, lo, hi),
         i > Len(to[lo].ptrs)
  PROVE  /\ lo \in Starts(to) /\ isDataElement(to[lo])
         /\ lo + el_length(to[lo]) \in Nat /\ lo < lo + el_length(to[lo])
         /\ lo + el_length(to[lo]) <= hi
         /\ Tiled(to, lo + el_length(to[lo]), hi)
         /\ \A x \in Starts(to) : x < lo + el_length(to[lo]) <=> x < lo \/ x = lo
         /\ \A j \in 1 .. Len(to[lo].ptrs) : j < i
<1>1. to \in Heaps /\ lo \in Nat /\ hi \in Nat /\ hi <= Limit /\ Limit \in Nat
  BY NowNumbers
<1>2. /\ lo \in Addr /\ Begins(to, lo) /\ lo + el_length(to[lo]) \in Nat
      /\ lo + el_length(to[lo]) <= hi
      /\ \A x \in lo + 1 .. lo + to[lo].len : ~Begins(to, x)
      /\ Tiled(to, lo + el_length(to[lo]), hi)
  BY <1>1, TiledNext
<1>3. to[lo].len \in Nat /\ to[lo].ptrs \in Seq(Val) /\ Len(to[lo].ptrs) \in Nat
  BY <1>1, <1>2, ElementFacts, LenProperties
<1>4. lo \in Starts(to) /\ isDataElement(to[lo])
  BY <1>2, StartsAre DEF Now, Built
<1>5. ASSUME NEW x \in Starts(to) PROVE x < lo + el_length(to[lo]) <=> x < lo \/ x = lo
  <2>1. x \in Nat /\ Begins(to, x)
    BY StartsAre, Limits
  <2>2. PICK k \in Nat : k = to[lo].len
    BY <1>3
  <2>3. ~(x \in lo + 1 .. lo + k)
    BY <1>2, <2>1, <2>2
  <2> QED BY <1>1, <2>1, <2>2, <2>3 DEF el_length
<1>6. lo < lo + el_length(to[lo])
  BY <1>1, <1>3 DEF el_length
<1>7. \A j \in 1 .. Len(to[lo].ptrs) : j < i
  BY <1>3, NowNumbers
<1> QED BY <1>2, <1>4, <1>5, <1>6, <1>7

\* What the collector does between two pointers does not change which of
\* them it has passed.
Bookkeeping == RootsDone \/ NextRef \/ RefsDone \/ NextData \/ DataDone \/ LoopRefs \/ LoopEnd

LEMMA ScannedSame ==
  ASSUME IInv, Bookkeeping, NEW x \in Starts(to), NEW j \in 1 .. Len(to[x].ptrs)
  PROVE  Scanned(x, j)' <=> Scanned(x, j)
<1>1. ~Running
  BY DEF Bookkeeping, RootsDone, NextRef, RefsDone, NextData, DataDone, LoopRefs, LoopEnd, Running
<1>2. Now /\ x \in Nat /\ ~(j < 1)
  BY <1>1, InGc, StartsAre, Limits
<1>3. CASE RootsDone
  <2>1. ~(j < i') /\ phase = "roots" /\ UNCHANGED <<h1, r3, r2, r1>>
    BY <1>2, <1>3 DEF RootsDone
  <2> QED BY <2>1 DEF Scanned
<1>4. CASE NextRef
  <2>1. phase = "refs" /\ r2 < r1 /\ i > Len(to[r2].ptrs) /\ i' = 1
        /\ r2' = r2 + el_length(to[r2]) /\ UNCHANGED <<phase, h1, r3, r1>>
    BY <1>4 DEF NextRef, NextElement
  <2>2. (x < r2' <=> x < r2 \/ x = r2) /\ (x = r2 => j < i)
    BY <1>2, <2>1, Reached DEF Now, Built
  <2>3. x = r2 => r3 <= x
    BY <1>2, NowNumbers
  <2> QED BY <1>2, <2>1, <2>2, <2>3 DEF Scanned
<1>5. CASE RefsDone
  <2>1. phase = "refs" /\ r2 >= r1 /\ r1' = r3 /\ r2' = r3 /\ UNCHANGED <<h1, r3, i>>
    BY <1>5 DEF RefsDone
  <2>2. r2 = r1 /\ i = 1
    BY <1>2, <2>1, NowNumbers DEF Now, Positions
  <2>3. (r3 <= x <=> (r3 <= x /\ x < r2) \/ r1 <= x) /\ ~(r3 <= x /\ x < r3)
    BY <1>2, <2>2, NowNumbers
  <2> QED BY <1>2, <2>1, <2>2, <2>3 DEF Scanned
<1>6. CASE NextData
  <2>1. phase = "data" /\ h1 < a /\ i > Len(to[h1].ptrs) /\ i' = 1
        /\ h1' = h1 + el_length(to[h1]) /\ UNCHANGED <<phase, r3, r2, r1>>
    BY <1>6 DEF NextData, NextElement
  <2>2. (x < h1' <=> x < h1 \/ x = h1) /\ (x = h1 => j < i)
    BY <1>2, <2>1, Reached DEF Now, Built
  <2> QED BY <1>2, <2>1, <2>2 DEF Scanned
<1>7. CASE DataDone
  <2>1. phase = "data" /\ h1 >= a /\ phase' # "refs" /\ UNCHANGED <<h1, r3, r2, r1>>
    BY <1>7 DEF DataDone, Round
  <2>2. ~(h1 < a) /\ i = 1 /\ i' = i
    BY <1>2, <1>7, <2>1, NowNumbers DEF Now, Positions, DataDone
  <2> QED BY <1>2, <2>1, <2>2 DEF Scanned
<1>8. CASE LoopRefs
  <2>1. phase = "loop" /\ phase' = "refs" /\ r3' = a + n /\ r2' = a + n /\ UNCHANGED <<h1, r1, i>>
    BY <1>8 DEF LoopRefs
  <2>2. r3 = r2 /\ r2 = r1 /\ i = 1
    BY <1>2, <2>1 DEF Now, Positions
  <2>3. ~(r3 <= x /\ x < r2) /\ ~(a + n <= x /\ x < a + n)
    BY <1>2, <2>2, NowNumbers
  <2> QED BY <1>2, <2>1, <2>2, <2>3 DEF Scanned
<1>9. CASE LoopEnd
  <2>1. phase = "loop" /\ phase' # "refs" /\ UNCHANGED <<h1, r3, r2, r1, i>> /\ i = 1
    BY <1>2, <1>9 DEF LoopEnd, Now, Positions
  <2> QED BY <1>2, <2>1 DEF Scanned
<1> QED BY <1>3, <1>4, <1>5, <1>6, <1>7, <1>8, <1>9 DEF Bookkeeping

LEMMA RootsDoneKeeps ==
  ASSUME IInv, RootsDone
  PROVE  IInv'
<1>1. /\ phase = "roots" /\ ~Running /\ i > NRoots /\ i' = 1
      /\ phase' = IF partial THEN "refs" ELSE "loop"
      /\ UNCHANGED <<heap, root, AllocSize, space, registers, to, partial, a,
                     n, h1, r3, r2, r1, clock, ok>>
  BY DEF RootsDone, Running
<1>2. Now /\ FieldsLead /\ Roots /\ Clock /\ TypeOK /\ ok = TRUE
  BY <1>1, InGc DEF IInv
<1>3. phase' \in Phases /\ ok' = TRUE /\ clock' \in Nat /\ i' \in Nat
  BY <1>1, <1>2 DEF Phases, TypeOK, Now
<1>4. Built(to, a, n)'
  BY <1>1, <1>2, FrameNew DEF Now
<1>5. Positions' /\ Clock'
  BY <1>1, <1>2, NowNumbers DEF Now, Positions, Clock, registers
<1>6. Roots'
  <2>1. \A r \in RootList : ~(i <= r)
    BY <1>1, <1>2, NowNumbers, ShapeAssumption DEF RootList
  <2> QED BY <1>1, <1>2, <2>1 DEF Roots
<1>7. Bookkeeping
  BY DEF Bookkeeping
<1> QED BY <1>1, <1>2, <1>3, <1>4, <1>5, <1>6, <1>7, NowNumbers, ScanKeeps, ScannedSame

LEMMA RefsDoneKeeps ==
  ASSUME IInv, RefsDone
  PROVE  IInv'
<1>1. /\ phase = "refs" /\ ~Running /\ r2 >= r1 /\ r1' = r3 /\ r2' = r3
      /\ IF partial THEN phase' = "data" /\ UNCHANGED <<clock, ok>> ELSE Round
      /\ UNCHANGED <<heap, root, AllocSize, space, registers, to, partial, a, n, h1, r3, i>>
  BY DEF RefsDone, Running
<1>2. Now /\ FieldsLead /\ Roots /\ Clock /\ TypeOK /\ ok = TRUE
  BY <1>1, InGc DEF IInv
<1>3. r2 = r1 /\ i = 1 /\ i' = 1 /\ clock \in Nat /\ (partial => r3 = EndOfHeap)
  BY <1>1, <1>2, NowNumbers DEF Now, Positions, TypeOK
<1>4. ~partial => r3 < r1 /\ r1 - h1 <= clock
  BY <1>1, <1>2 DEF Clock
<1>5. ~partial => clock # 0 /\ clock' = clock - 1
  <2>1. ~partial => clock # 0 /\ 1 <= clock
    BY <1>2, <1>3, <1>4, NowNumbers
  <2> QED BY <1>1, <2>1 DEF Round, Minus
<1>6. phase' = (IF partial THEN "data" ELSE "loop") /\ ok' = TRUE /\ clock' \in Nat
  <2>1. CASE partial
    BY <1>1, <1>2, <1>3, <2>1
  <2>2. CASE ~partial
    <3>1. (ok /\ clock # 0) = TRUE
      BY <1>2, <1>5, <2>2
    <3>2. phase' = "loop" /\ ok' = (ok /\ clock # 0)
      BY <1>1, <2>2 DEF Round
    <3>3. ok' = TRUE
      BY <3>1, <3>2
    <3>4. clock' \in Nat
      BY <1>3, <1>5, <2>2
    <3> QED BY <2>2, <3>2, <3>3, <3>4
  <2> QED BY <2>1, <2>2
<1>7. Built(to, a, n)'
  <2>1. Tiled(to, r3, r3)
    BY <1>2, NowNumbers, NothingTiled
  <2> QED BY <1>1, <1>2, <2>1 DEF Now, Built, registers, Base
<1>8. Positions'
  BY <1>1, <1>2, <1>3, <1>6, NowNumbers DEF Now, Positions, registers
<1>9. Clock'
  BY <1>1, <1>2, <1>3, <1>4, <1>5, <1>6, NowNumbers DEF Clock
<1>10. Roots'
  BY <1>1, <1>2, <1>6 DEF Roots
<1>11. Bookkeeping
  BY DEF Bookkeeping
<1>12. phase' \in Phases
  BY <1>6 DEF Phases
<1> QED BY <1>1, <1>2, <1>3, <1>6, <1>7, <1>8, <1>9, <1>10, <1>11, <1>12, NowNumbers,
           ScanKeeps, ScannedSame

LEMMA DataDoneKeeps ==
  ASSUME IInv, DataDone
  PROVE  IInv'
<1>1. /\ phase = "data" /\ ~Running /\ h1 >= a
      /\ IF partial THEN phase' = "done" /\ UNCHANGED <<clock, ok>> ELSE Round
      /\ UNCHANGED <<heap, root, AllocSize, space, registers, to, partial, a, n, h1, r3, r2, r1, i>>
  BY DEF DataDone, Running
<1>2. Now /\ FieldsLead /\ Roots /\ Clock /\ TypeOK /\ ok = TRUE
  BY <1>1, InGc DEF IInv
<1>3. h1 = a /\ i = 1 /\ i' = 1 /\ clock \in Nat
  BY <1>1, <1>2, NowNumbers DEF Now, Positions, TypeOK
<1>4. ~partial => r1 - h1 < clock
  BY <1>1, <1>2, <1>3, NowNumbers DEF Clock
<1>5. ~partial => clock # 0 /\ clock' = clock - 1
  <2>1. ~partial => clock # 0 /\ 1 <= clock
    BY <1>2, <1>3, <1>4, NowNumbers
  <2> QED BY <1>1, <2>1 DEF Round, Minus
<1>6. phase' = (IF partial THEN "done" ELSE "loop") /\ ok' = TRUE /\ clock' \in Nat
  <2>1. CASE partial
    BY <1>1, <1>2, <1>3, <2>1
  <2>2. CASE ~partial
    <3>1. (ok /\ clock # 0) = TRUE
      BY <1>2, <1>5, <2>2
    <3>2. phase' = "loop" /\ ok' = (ok /\ clock # 0)
      BY <1>1, <2>2 DEF Round
    <3>3. ok' = TRUE
      BY <3>1, <3>2
    <3>4. clock' \in Nat
      BY <1>3, <1>5, <2>2
    <3> QED BY <2>2, <3>2, <3>3, <3>4
  <2> QED BY <2>1, <2>2
<1>7. Built(to, a, n)'
  BY <1>1, <1>2, FrameNew DEF Now
<1>8. Positions'
  BY <1>1, <1>2, <1>3, <1>6, NowNumbers DEF Now, Positions, registers
<1>9. Clock'
  BY <1>1, <1>2, <1>3, <1>4, <1>5, <1>6, NowNumbers DEF Clock
<1>10. Roots'
  BY <1>1, <1>2, <1>6 DEF Roots
<1>11. Bookkeeping
  BY DEF Bookkeeping
<1>12. phase' \in Phases
  BY <1>6 DEF Phases
<1> QED BY <1>1, <1>2, <1>3, <1>6, <1>7, <1>8, <1>9, <1>10, <1>11, <1>12, NowNumbers,
           ScanKeeps, ScannedSame

LEMMA LoopRefsKeeps ==
  ASSUME IInv, LoopRefs
  PROVE  IInv'
<1>1. /\ phase = "loop" /\ ~Running /\ a + n < r3
      /\ r3' = a + n /\ r2' = a + n /\ phase' = "refs"
      /\ UNCHANGED <<heap, root, AllocSize, space, registers, to, partial, a, n, h1, r1, i, clock, ok>>
  BY DEF LoopRefs, Running
<1>2. Now /\ FieldsLead /\ Roots /\ Clock /\ TypeOK /\ ok = TRUE
  BY <1>1, InGc DEF IInv
<1>3. ~partial /\ r3 = r2 /\ r2 = r1 /\ i = 1 /\ i' = 1 /\ clock \in Nat
  BY <1>1, <1>2 DEF Now, Positions, TypeOK
<1>4. Built(to, a, n)'
  <2>1. Tiled(to, a + n, a + n) /\ Tiled(to, a + n, r1) /\ a + n <= a + n
    BY <1>2, <1>3, NowNumbers, NothingTiled DEF Now, Built
  <2> QED BY <1>1, <1>2, <1>3, <2>1 DEF Now, Built, registers, Base
<1>5. Positions'
  BY <1>1, <1>2, <1>3, NowNumbers DEF Now, Positions, registers
<1>6. Clock'
  BY <1>1, <1>2, <1>3, NowNumbers DEF Clock
<1>7. Roots'
  BY <1>1, <1>2 DEF Roots
<1>8. Bookkeeping
  BY DEF Bookkeeping
<1>9. phase' \in Phases /\ ok' = TRUE
  BY <1>1, <1>2 DEF Phases
<1> QED BY <1>1, <1>2, <1>3, <1>4, <1>5, <1>6, <1>7, <1>8, <1>9, NowNumbers, ScanKeeps, ScannedSame

LEMMA LoopEndKeeps ==
  ASSUME IInv, LoopEnd
  PROVE  IInv'
<1>1. /\ phase = "loop" /\ ~Running /\ a + n >= r3
      /\ phase' = IF h1 < a THEN "data" ELSE "done"
      /\ UNCHANGED <<heap, root, AllocSize, space, registers, to, partial, a,
                     n, h1, r3, r2, r1, i, clock, ok>>
  BY DEF LoopEnd, Running
<1>2. Now /\ FieldsLead /\ Roots /\ Clock /\ TypeOK /\ ok = TRUE
  BY <1>1, InGc DEF IInv
<1>3. /\ ~partial /\ r3 = r2 /\ r2 = r1 /\ i = 1 /\ i' = 1 /\ clock \in Nat
      /\ a + n = r3 /\ (~(h1 < a) => h1 = a)
  BY <1>1, <1>2, NowNumbers DEF Now, Positions, TypeOK
<1>4. Built(to, a, n)'
  BY <1>1, <1>2, FrameNew DEF Now
<1>5. Positions'
  BY <1>1, <1>2, <1>3, NowNumbers DEF Now, Positions, registers
<1>6. Clock'
  BY <1>1, <1>2, <1>3, NowNumbers DEF Clock
<1>7. Roots'
  BY <1>1, <1>2 DEF Roots
<1>8. Bookkeeping
  BY DEF Bookkeeping
<1>9. phase' \in Phases /\ ok' = TRUE
  BY <1>1, <1>2 DEF Phases
<1> QED BY <1>1, <1>2, <1>3, <1>4, <1>5, <1>6, <1>7, <1>8, <1>9, NowNumbers, ScanKeeps, ScannedSame

LEMMA NextRefKeeps ==
  ASSUME IInv, NextRef
  PROVE  IInv'
<1>1. /\ phase = "refs" /\ ~Running /\ r2 < r1
      /\ i > Len(to[r2].ptrs) /\ i' = 1 /\ ok' = (ok /\ isDataElement(to[r2]) /\ TRUE)
      /\ r2' = r2 + el_length(to[r2])
      /\ UNCHANGED <<heap, root, AllocSize, space, registers,
                     to, phase, partial, a, n, h1, r3, r1, clock>>
  BY DEF NextRef, NextElement, Running
<1>2. Now /\ FieldsLead /\ Roots /\ Clock /\ TypeOK /\ ok = TRUE
  BY <1>1, InGc DEF IInv
<1>3. Tiled(to, r2, r1)
  BY <1>2 DEF Now, Built
<1>4. /\ r2 \in Starts(to) /\ isDataElement(to[r2])
      /\ r2' \in Nat /\ r2 < r2' /\ r2' <= r1 /\ Tiled(to, r2', r1)
      /\ \A x \in Starts(to) : x < r2' <=> x < r2 \/ x = r2
      /\ \A j \in 1 .. Len(to[r2].ptrs) : j < i
  BY <1>1, <1>2, <1>3, Reached
<1>5. ok' = TRUE
  <2>1. (ok /\ isDataElement(to[r2]) /\ TRUE) = TRUE
    BY <1>2, <1>4
  <2> QED BY <1>1, <2>1
<1>6. Built(to, a, n)'
  BY <1>1, <1>2, <1>4 DEF Now, Built, registers, Base
<1>7. Positions'
  BY <1>1, <1>2, <1>4, NowNumbers DEF Now, Positions, registers
<1>8. Clock'
  BY <1>1, <1>2 DEF Clock
<1>9. Roots'
  BY <1>1, <1>2 DEF Roots
<1>10. Bookkeeping
  BY DEF Bookkeeping
<1>11. phase' \in Phases
  BY <1>1 DEF Phases
<1>12. clock' \in Nat /\ i' \in Nat
  BY <1>1, <1>2 DEF TypeOK
<1> QED BY <1>1, <1>2, <1>4, <1>5, <1>6, <1>7, <1>8, <1>9, <1>10, <1>11, <1>12, NowNumbers,
           ScanKeeps, ScannedSame

LEMMA NextDataKeeps ==
  ASSUME IInv, NextData
  PROVE  IInv'
<1> DEFINE fits == a - (IF partial THEN GenStart ELSE 0) <= Limit
<1>1. /\ phase = "data" /\ ~Running /\ h1 < a
      /\ i > Len(to[h1].ptrs) /\ i' = 1 /\ ok' = (ok /\ isDataElement(to[h1]) /\ fits)
      /\ h1' = h1 + el_length(to[h1])
      /\ UNCHANGED <<heap, root, AllocSize, space, registers,
                     to, phase, partial, a, n, r3, r2, r1, clock>>
  BY DEF NextData, NextElement, Running
<1>2. Now /\ FieldsLead /\ Roots /\ Clock /\ TypeOK /\ ok = TRUE
  BY <1>1, InGc DEF IInv
<1>3. Tiled(to, h1, a)
  BY <1>2 DEF Now, Built
<1>4. /\ h1 \in Starts(to) /\ isDataElement(to[h1])
      /\ h1' \in Nat /\ h1 < h1' /\ h1' <= a /\ Tiled(to, h1', a)
      /\ \A x \in Starts(to) : x < h1' <=> x < h1 \/ x = h1
      /\ \A j \in 1 .. Len(to[h1].ptrs) : j < i
  BY <1>1, <1>2, <1>3, Reached
<1>5. ok' = TRUE
  <2>1. fits = TRUE
    BY <1>2, NowNumbers
  <2>2. (ok /\ isDataElement(to[h1]) /\ fits) = TRUE
    BY <1>2, <1>4, <2>1
  <2> QED BY <1>1, <2>2
<1>6. Built(to, a, n)'
  <2>1. Base <= h1'
    <3>1. Base <= h1 /\ Base \in Nat
      BY <1>2, NowNumbers DEF Base
    <3> QED BY <1>2, <1>4, <3>1, NowNumbers
  <2> QED BY <1>1, <1>2, <1>4, <2>1 DEF Now, Built, registers, Base
<1>7. Positions'
  BY <1>1, <1>2, <1>4, NowNumbers DEF Now, Positions, registers
<1>8. Clock'
  <2>1. clock \in Nat /\ r1 \in Nat /\ h1 \in Nat
    BY <1>2, NowNumbers DEF TypeOK
  <2>2. ~partial => r1 - h1 <= clock
    BY <1>1, <1>2, <2>1 DEF Clock
  <2>3. ~partial => r1 - h1' < clock
    <3>1. h1' \in Nat /\ h1 < h1'
      BY <1>4
    <3>2. ASSUME NEW k \in Nat, h1 < k, r1 - h1 <= clock PROVE r1 - k < clock
      BY <2>1, <3>2
    <3> QED BY <2>2, <3>1, <3>2
  <2> QED BY <1>1, <2>3 DEF Clock
<1>9. Roots'
  BY <1>1, <1>2 DEF Roots
<1>10. Bookkeeping
  BY DEF Bookkeeping
<1>11. phase' \in Phases
  BY <1>1 DEF Phases
<1>12. clock' \in Nat /\ i' \in Nat
  BY <1>1, <1>2 DEF TypeOK
<1> HIDE DEF fits
<1> QED BY <1>1, <1>2, <1>4, <1>5, <1>6, <1>7, <1>8, <1>9, <1>10, <1>11, <1>12, NowNumbers,
           ScanKeeps, ScannedSame

LEMMA NothingIsElement == Unused \in Element
<1>1. <<>> \in Seq(Val)
  BY EmptySeq
<1> QED BY <1>1 DEF Unused, Element, Data

\* The new trigger is within the room there is, and past the request if that fits.
LEMMA NewTrigger ==
  ASSUME NEW room \in Nat, NEW alloc \in Nat
  PROVE  /\ new_trig(room, alloc) \in Nat /\ new_trig(room, alloc) <= room
         /\ alloc <= room => alloc <= new_trig(room, alloc)
<1>1. GenSize \in Nat
  <2>1. CASE GenSizes = <<>>
    BY <2>1, LimitAssumption DEF GenSize
  <2>2. CASE GenSizes # <<>>
    <3>1. GenSizes \in Seq(Nat) /\ Len(GenSizes) \in Nat /\ Len(GenSizes) # 0
      BY <2>2, KindAssumption, EmptySeq, LenProperties
    <3>2. 1 \in 1 .. Len(GenSizes)
      BY <3>1
    <3>3. GenSizes[1] \in Nat
      BY <3>1, <3>2, ElementOfSeq
    <3> QED BY <2>2, <3>3 DEF GenSize
  <2> QED BY <2>1, <2>2
<1> QED BY <1>1 DEF new_trig

\* When a collection is over, everything has been moved.
LEMMA AllMoved ==
  ASSUME IInv, phase = "done"
  PROVE  /\ \A x \in Starts(to) : /\ x \in Nat /\ (x < a \/ a + n <= x) /\ isDataElement(to[x])
                                  /\ Lead(to, x)
         /\ \A r \in RootList : root[r] \in Starts(to) \cup {Data}
<1>1. ~Running
  BY DEF Running
<1>2. Now /\ FieldsLead /\ Roots /\ TypeOK
  BY <1>1, InGc DEF IInv
<1>3. h1 = a /\ a + n = r3 /\ r3 = r2 /\ r2 = r1
  BY <1>2 DEF Now, Positions
<1>4. ASSUME NEW x \in Starts(to) PROVE x \in Nat /\ (x < a \/ a + n <= x)
  <2>1. x \in Nat /\ Begins(to, x)
    BY StartsAre, Limits
  <2>2. ~(x < a \/ a + n <= x) => x \in a .. a + n - 1
    BY <1>2, <2>1, NowNumbers
  <2>3. \A y \in a .. a + n - 1 : ~Begins(to, y)
    BY <1>2, NowNumbers DEF Now, Built, Free
  <2> QED BY <2>1, <2>2, <2>3
<1>5. ASSUME NEW x \in Starts(to), NEW j \in 1 .. Len(to[x].ptrs)
      PROVE  to[x].ptrs[j] = Data \/ to[x].ptrs[j] \in Starts(to)
  <2>1. Scanned(x, j)
    <3>1. x < h1 \/ r1 <= x
      BY <1>3, <1>4
    <3> QED BY <3>1 DEF Scanned
  <2> QED BY <1>2, <2>1 DEF FieldsLead
<1>6. ASSUME NEW x \in Starts(to) PROVE isDataElement(to[x]) /\ Lead(to, x)
  <2>1. Lead(to, x)
    BY <1>5 DEF Lead, Points
  <2> QED BY <1>2, <2>1 DEF Now, Built
<1>7. \A r \in RootList : root[r] \in Starts(to) \cup {Data}
  BY <1>2 DEF Roots
<1> QED BY <1>4, <1>6, <1>7

\* There are no more words in use at either end than there were.
LEMMA WordsInUse ==
  ASSUME Now
  PROVE  /\ gc_kind = "Simple" => a <= NextFree + (Limit - EndOfHeap)
         /\ gc_kind = "Generational" => a <= NextFree /\ EndOfHeap <= a + n
<1>1. \A K : Cardinality(LeftWords(heap, K)) \in Nat
  BY LeftFacts DEF Now, Old
<1>2. PICK c \in Nat, d \in Nat, r \in Nat :
        /\ c = Cardinality(LeftWords(heap, Kinds))
        /\ d = Cardinality(LeftWords(heap, {"data"}))
        /\ r = Cardinality(LeftWords(heap, {"ref"}))
  BY <1>1
<1>3. /\ gc_kind = "Simple" => c <= NextFree + (Limit - EndOfHeap) - a
      /\ gc_kind = "Generational" => d <= NextFree - a /\ r <= a + n - EndOfHeap
  BY <1>2 DEF Now, Room
<1> QED BY <1>2, <1>3, NowNumbers

\* The new trigger is past the request if that fits.
LEMMA TriggerAfter ==
  ASSUME IInv, Finish
  PROVE  /\ EndOfHeap' = a + n /\ (gc_kind = "Simple" => a + n = Limit /\ GenStart = 0 /\ ~partial)
         /\ TriggerGC' \in Nat /\ a <= TriggerGC' /\ TriggerGC' <= a + n
         /\ AllocSize <= n => AllocSize <= TriggerGC' - a
<1>1. /\ phase = "done" /\ ~Running
      /\ IF gc_kind = "Simple"
         THEN TriggerGC' = Limit /\ EndOfHeap' = Limit
         ELSE /\ EndOfHeap' = IF partial THEN EndOfHeap ELSE a + n
              /\ TriggerGC' = a + new_trig(EndOfHeap' - a, AllocSize)
  BY DEF Finish, Running
<1>2. Now /\ InOrder /\ AllocSize \in Nat
  BY <1>1, InGc DEF IInv, TypeOK
<1>3. EndOfHeap' = a + n /\ (gc_kind = "Simple" => a + n = Limit /\ GenStart = 0 /\ ~partial)
  <2>1. gc_kind = "Simple" => a + n = Limit /\ GenStart = 0 /\ ~partial
    BY <1>2 DEF Now, Built, InOrder, Positions
  <2>2. partial => a + n = EndOfHeap
    BY <1>2 DEF Now, Built
  <2> QED BY <1>1, <2>1, <2>2
<1>4. EndOfHeap' - a = n
  BY <1>2, <1>3, NowNumbers
<1>5. /\ TriggerGC' \in Nat /\ a <= TriggerGC' /\ TriggerGC' <= a + n
      /\ AllocSize <= n => AllocSize <= TriggerGC' - a
  <2>1. CASE gc_kind = "Simple"
    BY <1>1, <1>2, <1>3, <2>1, NowNumbers
  <2>2. CASE gc_kind # "Simple"
    <3>1. PICK t : t = new_trig(n, AllocSize)
      OBVIOUS
    <3>2. TriggerGC' = a + t
      BY <1>1, <1>4, <2>2, <3>1
    <3>3. t \in Nat /\ t <= n /\ (AllocSize <= n => AllocSize <= t)
      BY <1>2, <3>1, NewTrigger, NowNumbers
    <3> QED BY <1>2, <3>2, <3>3, NowNumbers
  <2> QED BY <2>1, <2>2
<1> QED BY <1>3, <1>5

LEMMA FinishKeeps ==
  ASSUME IInv, Finish
  PROVE  IInv'
<1>1. /\ phase = "done" /\ ~Running
      /\ heap' = to /\ NextFree' = a
      /\ IF gc_kind = "Simple"
         THEN TriggerGC' = Limit /\ EndOfHeap' = Limit /\ GenStart' = GenStart
         ELSE /\ GenStart' = a
              /\ EndOfHeap' = IF partial THEN EndOfHeap ELSE a + n
              /\ TriggerGC' = a + new_trig(EndOfHeap' - a, AllocSize)
      /\ IF ~partial /\ TriggerGC' - a < AllocSize
         THEN phase' = "halt" /\ UNCHANGED space
         ELSE phase' = "run" /\ space' = AllocSize
      /\ to' = [x \in Addr |-> Unused]
      /\ a' = 0 /\ n' = 0 /\ h1' = 0 /\ r3' = 0 /\ r2' = 0 /\ r1' = 0 /\ i' = 1
      /\ partial' = FALSE /\ clock' = 0
      /\ UNCHANGED <<gc_kind, root, AllocSize, ok>>
  BY DEF Finish, Running
<1>2. Now /\ TypeOK /\ InOrder /\ ok = TRUE /\ AllocSize \in Nat /\ space \in Nat
  BY <1>1, InGc DEF IInv, TypeOK
<1>3. gc_kind \in {"Simple", "Generational"} /\ gc_kind \in GcKinds
  BY <1>2, KindAssumption DEF InOrder
<1>4. EndOfHeap' = a + n /\ (gc_kind = "Simple" => a + n = Limit /\ GenStart = 0 /\ ~partial)
  BY TriggerAfter
<1>5. /\ TriggerGC' \in Nat /\ a <= TriggerGC' /\ TriggerGC' <= a + n
      /\ AllocSize <= n => AllocSize <= TriggerGC' - a
  BY TriggerAfter
<1>6. GenStart' = IF gc_kind = "Simple" THEN 0 ELSE a
  BY <1>1, <1>4
<1>7. InOrder'
  BY <1>1, <1>2, <1>3, <1>4, <1>5, <1>6, NowNumbers DEF InOrder
<1>8. partial => AllocSize <= n
  <2>1. partial => a <= NextFree /\ AllocSize <= EndOfHeap - TriggerGC /\ a + n = EndOfHeap
    BY <1>2, WordsInUse DEF Now, Positions, Built
  <2>2. ASSUME a <= NextFree, AllocSize <= EndOfHeap - TriggerGC, a + n = EndOfHeap
        PROVE  AllocSize <= n
    BY <1>2, <2>2, NowNumbers
  <2> QED BY <2>1, <2>2
<1>9. phase' = "run" => space' <= TriggerGC' - NextFree'
  <2>1. ASSUME phase' = "run" PROVE space' <= TriggerGC' - a
    <3>1. space' = AllocSize /\ ~(~partial /\ TriggerGC' - a < AllocSize)
      BY <1>1, <2>1
    <3>2. CASE partial
      BY <1>5, <1>8, <3>1, <3>2
    <3>3. CASE ~partial
      BY <1>2, <1>5, <3>1, <3>3, NowNumbers
    <3> QED BY <3>2, <3>3
  <2> QED BY <1>1, <2>1
<1>10. Shape(heap)'
  <2>1. /\ to \in [Addr -> Element] /\ Tiled(to, 0, a) /\ Free(to, a, a + n)
        /\ Tiled(to, a + n, Limit)
    BY <1>2 DEF Now, Built
  <2>2. Tiled(to, 0, 0)
    BY NothingTiled
  <2>3. Tiled(to, 0, GenStart')
    BY <1>6, <2>1, <2>2
  <2> QED BY <1>1, <1>4, <2>1, <2>3 DEF Shape
<1>11. /\ \A x \in Starts(to) : /\ x \in Nat /\ (x < a \/ a + n <= x) /\ isDataElement(to[x])
                                /\ Lead(to, x)
       /\ \A r \in RootList : root[r] \in Starts(to) \cup {Data}
  BY <1>1, AllMoved
<1>12. \A x \in Starts(to) : x < GenStart' =>
         \A p \in Points(to, x) : p < GenStart' \/ EndOfHeap' <= p
  <2>1. CASE gc_kind = "Simple"
    BY <1>6, <1>11, <2>1
  <2>2. CASE gc_kind # "Simple"
    BY <1>4, <1>6, <1>11, <2>2 DEF Lead
  <2> QED BY <2>1, <2>2
<1>13. gc_kind = "Generational" => \A x \in Starts(to) : to[x].kind = "ref" <=> EndOfHeap' <= x
  BY <1>2, <1>4 DEF Now, Built
<1>14. GenerationsOk'
  BY <1>1, <1>12, <1>13 DEF GenerationsOk
<1>15. AtRest'
  BY <1>1, <1>9, <1>10, <1>11, <1>12, <1>14 DEF AtRest
<1>16. TypeOK'
  <2>1. to' \in [Addr -> Element] /\ heap' \in [Addr -> Element]
    BY <1>1, <1>2, NothingIsElement DEF TypeOK
  <2>2. registers' \in GcKinds \X Int \X Int \X Int \X Int
    BY <1>7 DEF InOrder, registers
  <2>3. phase' \in {"run", "halt"} /\ space' \in Nat
    BY <1>1, <1>2
  <2> QED BY <1>1, <1>2, <2>1, <2>2, <2>3 DEF TypeOK
<1>17. Running' /\ ok' = TRUE
  BY <1>1, <1>2 DEF Running
<1> QED BY <1>7, <1>15, <1>16, <1>17 DEF IInv

------------------------------------------------------------------------------
(***************************************************************************)
(* The steps of the program.                                               *)
(***************************************************************************)
\* There are more ids than elements.
LEMMA FreshIdIsId == FreshId \in Id /\ \A x \in Addr : heap[x].id # FreshId
<1>1. \E d \in Id : \A x \in Addr : heap[x].id # d
  <2> SUFFICES ASSUME \A d \in Id : \E x \in Addr : heap[x].id = d PROVE FALSE
    OBVIOUS
  <2> DEFINE f == [d \in Id |-> CHOOSE x \in Addr : heap[x].id = d]
  <2>1. \A d \in Id : f[d] \in Addr /\ heap[f[d]].id = d
    OBVIOUS
  <2>2. f \in [Id -> Addr]
    OBVIOUS
  <2>3. IsFiniteSet(Addr) /\ Cardinality(Addr) = Limit
    BY Limits, Interval DEF Addr
  <2>4. IsFiniteSet(Id) /\ Cardinality(Id) = Limit + 1
    BY Limits, FS_Interval DEF Id
  <2>5. Cardinality(Addr) < Cardinality(Id)
    BY <2>3, <2>4, Limits
  <2> HIDE DEF f
  <2>6. \E d, e \in Id : d # e /\ f[d] = f[e]
    BY <2>2, <2>3, <2>4, <2>5, FS_PigeonHole
  <2> QED BY <2>1, <2>6
<1> QED BY <1>1 DEF FreshId

LEMMA Resting ==
  ASSUME IInv, Running
  PROVE  /\ AtRest /\ ok = TRUE /\ TypeOK /\ InOrder /\ Shape(heap) /\ heap \in Heaps
         /\ Limit \in Nat /\ GenStart \in Nat /\ NextFree \in Nat /\ TriggerGC \in Nat
         /\ EndOfHeap \in Nat /\ space \in Nat /\ GenStart <= NextFree
         /\ NextFree <= TriggerGC /\ TriggerGC <= EndOfHeap /\ EndOfHeap <= Limit
         /\ (phase = "run" => space <= TriggerGC - NextFree)
BY Limits DEF IInv, AtRest, TypeOK, InOrder, Shape, Heaps

\* What the program holds leads to elements.
LEMMA HeldLead ==
  ASSUME IInv, Running, NEW v \in Held
  PROVE  v \in Starts(heap) \cup {Data} /\ v \in Val
<1>1. v \in Starts(heap) \cup {Data}
  BY Resting DEF Held, AtRest
<1> QED BY <1>1, StartsAre DEF Val

LEMMA RootsChange ==
  ASSUME IInv, Running, phase' = phase, root' \in [RootList -> Starts(heap) \cup {Data}],
         UNCHANGED <<heap, AllocSize, registers, collector>>, space' \in Nat,
         phase = "run" => space' <= TriggerGC - NextFree
  PROVE  IInv'
<1>1. AtRest /\ ok = TRUE /\ TypeOK /\ InOrder
  BY Resting
<1>2. gc_kind' = gc_kind /\ NextFree' = NextFree /\ TriggerGC' = TriggerGC
      /\ EndOfHeap' = EndOfHeap /\ GenStart' = GenStart /\ ok' = ok
  BY DEF registers, collector
<1>3. AtRest'
  BY <1>1, <1>2 DEF AtRest, Shape, GenerationsOk
<1>4. InOrder'
  BY <1>1, <1>2 DEF InOrder
<1>5. root' \in [RootList -> Val]
  BY StartsAre DEF Val
<1>6. TypeOK'
  BY <1>1, <1>5 DEF TypeOK, registers, collector
<1>7. Running'
  BY DEF Running
<1> QED BY <1>1, <1>2, <1>3, <1>4, <1>6, <1>7 DEF IInv

LEMMA ElKeeps ==
  ASSUME IInv, NEW r \in RootList, NEW s \in RootList, NEW j \in 1 .. MaxPtrs,
         El(r, s, j) \/ Move(r, s)
  PROVE  IInv'
<1>1. /\ phase = "run" /\ Running
      /\ UNCHANGED <<heap, AllocSize, space, registers, collector>>
      /\ phase' = phase
  BY DEF El, Move, Running, collector
<1>2. AtRest /\ root \in [RootList -> Val]
  BY <1>1, Resting DEF TypeOK
<1>3. root \in [RootList -> Starts(heap) \cup {Data}]
  BY <1>2 DEF AtRest
<1>4. root' \in [RootList -> Starts(heap) \cup {Data}]
  <2>1. CASE Move(r, s)
    BY <1>3, <2>1 DEF Move
  <2>2. CASE El(r, s, j)
    <3>1. /\ root[s] \in Starts(heap) /\ j <= Len(heap[root[s]].ptrs)
          /\ root' = [root EXCEPT ![r] = heap[root[s]].ptrs[j]]
      BY <1>3, <2>2 DEF El
    <3>2. j \in 1 .. Len(heap[root[s]].ptrs)
      <4>1. heap[root[s]].ptrs \in Seq(Val)
        BY <1>1, <3>1, Resting, StartsAre, ElementFacts
      <4> QED BY <3>1, <4>1, LenProperties
    <3>3. heap[root[s]].ptrs[j] \in Starts(heap) \cup {Data}
      BY <1>2, <3>1, <3>2 DEF AtRest, Lead, Points
    <3> QED BY <1>3, <3>1, <3>3
  <2> QED BY <2>1, <2>2
<1> QED BY <1>1, <1>4, Resting, RootsChange

\* The variables that survive a MakeSpace.
LEMMA Survivors ==
  ASSUME IInv, Running, NEW names \in SUBSET RootList,
         root' = [r \in RootList |-> IF r \in names THEN root[r] ELSE Data]
  PROVE  root' \in [RootList -> Starts(heap) \cup {Data}]
BY Resting DEF AtRest

(***************************************************************************)
(* A collection begins.                                                    *)
(***************************************************************************)
\* The words of elements that are within bounds.
LEMMA WordsWithin ==
  ASSUME NEW W, NEW lo \in Nat, NEW hi \in Nat, lo <= hi, W \subseteq lo .. hi - 1
  PROVE  IsFiniteSet(W) /\ Cardinality(W) \in Nat /\ Cardinality(W) <= hi - lo
<1>1. IsFiniteSet(lo .. hi - 1) /\ Cardinality(lo .. hi - 1) = hi - lo
  BY Interval
<1> QED BY Zenon, <1>1, FS_Subset, FS_CardinalityType

LEMMA WordsBelow ==
  ASSUME NEW W, NEW hi \in Nat, W \subseteq 0 .. hi - 1
  PROVE  Cardinality(W) <= hi
<1>1. PICK lo \in Nat : lo = 0
  OBVIOUS
<1>2. W \subseteq lo .. hi - 1 /\ lo <= hi
  BY <1>1
<1>3. Cardinality(W) \in Nat /\ Cardinality(W) <= hi - lo
  BY <1>2, WordsWithin
<1> QED BY <1>1, <1>3

LEMMA EitherSide ==
  ASSUME IInv, Running, NEW x \in Starts(heap)
  PROVE  /\ x < EndOfHeap => Words(heap, x) \subseteq 0 .. NextFree - 1
         /\ x < EndOfHeap /\ GenStart <= x => Words(heap, x) \subseteq GenStart .. NextFree - 1
         /\ EndOfHeap <= x => Words(heap, x) \subseteq EndOfHeap .. Limit - 1
         /\ x < EndOfHeap \/ EndOfHeap <= x
         /\ gc_kind = "Generational" => (heap[x].kind = "ref" <=> EndOfHeap <= x)
<1>1. /\ x \in Nat /\ heap[x].len \in Nat /\ x + heap[x].len < Limit
      /\ \/ x < NextFree /\ x + heap[x].len < NextFree
         \/ EndOfHeap <= x
  BY Resting, StartsApart
<1>2. gc_kind = "Generational" => (heap[x].kind = "ref" <=> EndOfHeap <= x)
  BY Resting DEF AtRest, GenerationsOk
<1> QED BY <1>1, <1>2, Resting DEF Words

LEMMA MajorBegins ==
  ASSUME IInv, Running, StartMajor, UNCHANGED <<heap, registers>>, phase' = "roots", clock' = Limit
  PROVE  /\ to' \in [Addr -> Element] /\ a' = 0 /\ n' = Limit /\ h1' = 0
         /\ r3' = Limit /\ r2' = Limit /\ r1' = Limit
         /\ Built(to, a, n)' /\ Forwards(heap, to)' /\ Room(heap, a, n)' /\ FieldsLead' /\ Clock'
<1>1. /\ partial' = FALSE /\ to' = [x \in Addr |-> Unused]
      /\ a' = 0 /\ n' = Limit /\ h1' = 0
      /\ r3' = Limit /\ r2' = Limit /\ r1' = Limit
      /\ heap' = heap /\ gc_kind' = gc_kind
  BY DEF StartMajor, registers
<1>2. to' \in [Addr -> Element] /\ \A x \in Addr : ~Begins(to', x)
  BY <1>1, NothingIsElement DEF Unused, Begins
<1>3. Starts(to') = {}
  BY <1>2, StartsAre
<1>4. Built(to, a, n)'
  <2>1. Tiled(to', 0, 0) /\ Tiled(to', Limit, Limit)
    BY Limits, NothingTiled
  <2>2. Free(to', 0, 0 + Limit)
    BY <1>2, Limits DEF Free
  <2>3. 0 + Limit = Limit /\ 0 <= Limit /\ Limit \in Nat
    BY Limits
  <2> QED BY <1>1, <1>2, <1>3, <2>1, <2>2, <2>3 DEF Built, Base
<1>5. ~Outside(0)' /\ \A x : ~Outside(x)'
  BY <1>1 DEF Outside
<1>6. \A x \in Addr : heap[x].kind # "fwd"
  <2>1. \A x \in Addr : heap[x].kind = "fwd" => x \in Starts(heap) /\ ~isDataElement(heap[x])
    BY StartsAre DEF Begins, isDataElement
  <2> QED BY <2>1, Resting DEF AtRest
<1>7. Forwards(heap, to)'
  BY <1>1, <1>3, <1>5, <1>6 DEF Forwards
<1>8. Room(heap, a, n)'
  <2>1. PICK W : W = [K \in SUBSET Kinds |-> LeftWords(heap, K)']
    OBVIOUS
  <2>2. Kinds \in SUBSET Kinds /\ {"data"} \in SUBSET Kinds /\ {"ref"} \in SUBSET Kinds
    BY DEF Kinds
  <2>3. ASSUME NEW K \in SUBSET Kinds, NEW w \in W[K]
        PROVE  \E x \in Starts(heap) : heap[x].kind \in K /\ w \in Words(heap, x)
    <3>1. w \in LeftWords(heap, K)'
      BY <2>1, <2>3
    <3>2. Left(heap)' \subseteq Starts(heap)
      BY <1>1, StartsAre DEF Left
    <3> QED BY <1>1, <3>1, <3>2 DEF LeftWords
  <2>4. W[Kinds] \subseteq (0 .. NextFree - 1) \cup (EndOfHeap .. Limit - 1)
    BY <2>2, <2>3, EitherSide
  <2>5. Cardinality(W[Kinds]) <= NextFree + (Limit - EndOfHeap)
    <3>1. /\ IsFiniteSet(0 .. NextFree - 1) /\ Cardinality(0 .. NextFree - 1) = NextFree
          /\ IsFiniteSet(EndOfHeap .. Limit - 1)
          /\ Cardinality(EndOfHeap .. Limit - 1) = Limit - EndOfHeap
      BY Resting, Interval
    <3> DEFINE Low == 0 .. NextFree - 1
               High == EndOfHeap .. Limit - 1
    <3>2. IsFiniteSet(Low) /\ IsFiniteSet(High) /\ W[Kinds] \subseteq Low \cup High
      BY <2>4, <3>1
    <3>3. /\ IsFiniteSet(Low \cup High)
          /\ Cardinality(Low \cup High) = Cardinality(Low) + Cardinality(High) - Cardinality(Low \cap High)
      BY <3>2, FS_Union
    <3>4. Cardinality(Low \cap High) \in Nat
      BY <3>2, FS_Intersection, FS_CardinalityType
    <3>5. Cardinality(W[Kinds]) <= Cardinality(Low \cup High) /\ Cardinality(W[Kinds]) \in Nat
      BY <3>2, <3>3, FS_Subset, FS_CardinalityType
    <3>6. Cardinality(Low) = NextFree /\ Cardinality(High) = Limit - EndOfHeap
      BY <3>1
    <3> HIDE DEF Low, High
    <3> QED BY <3>3, <3>4, <3>5, <3>6, Resting
  <2>6. Cardinality(W[Kinds]) <= Limit
    <3>1. W[Kinds] \subseteq 0 .. Limit - 1
      BY <2>4, Resting
    <3> QED BY <3>1, Limits, WordsBelow
  <2>7. ASSUME gc_kind = "Generational"
        PROVE  Cardinality(W[{"data"}]) <= NextFree /\ Cardinality(W[{"ref"}]) <= Limit - EndOfHeap
    <3>1. W[{"data"}] \subseteq 0 .. NextFree - 1
      BY <2>2, <2>3, <2>7, EitherSide
    <3>2. W[{"ref"}] \subseteq EndOfHeap .. Limit - 1
      BY <2>2, <2>3, <2>7, EitherSide
    <3>3. Cardinality(W[{"data"}]) <= NextFree
      BY <3>1, Resting, WordsBelow
    <3>4. Cardinality(W[{"ref"}]) <= Limit - EndOfHeap
      BY <3>2, Resting, WordsWithin
    <3> QED BY <3>3, <3>4
  <2>8. /\ LeftWords(heap, Kinds)' = W[Kinds] /\ LeftWords(heap, {"data"})' = W[{"data"}]
        /\ LeftWords(heap, {"ref"})' = W[{"ref"}]
    BY <2>1, <2>2
  <2>9. NextFree' = NextFree /\ EndOfHeap' = EndOfHeap
    BY DEF registers
  <2> HIDE DEF Kinds
  <2> QED BY <1>1, <2>5, <2>6, <2>7, <2>8, <2>9, Resting DEF Room
<1>9. FieldsLead'
  BY <1>3 DEF FieldsLead
<1>10. Clock'
  BY <1>1, Limits DEF Clock
<1> QED BY <1>1, <1>2, <1>4, <1>7, <1>8, <1>9, <1>10

LEMMA MinorBegins ==
  ASSUME IInv, Running, StartMinor, gc_kind = "Generational",
         UNCHANGED <<heap, registers>>, phase' = "roots"
  PROVE  /\ to' \in [Addr -> Element] /\ a' \in Nat /\ n' \in Nat /\ h1' \in Nat
         /\ r3' = EndOfHeap /\ r2' = EndOfHeap /\ r1' = Limit
         /\ Built(to, a, n)' /\ Forwards(heap, to)' /\ Room(heap, a, n)' /\ FieldsLead' /\ Clock'
<1>1. /\ partial' = TRUE
      /\ to' = [x \in Addr |-> IF x < GenStart \/ EndOfHeap <= x THEN heap[x] ELSE Unused]
      /\ a' = GenStart /\ n' = EndOfHeap - GenStart /\ h1' = GenStart
      /\ r3' = EndOfHeap /\ r2' = EndOfHeap /\ r1' = Limit
      /\ heap' = heap /\ gc_kind' = gc_kind /\ GenStart' = GenStart /\ EndOfHeap' = EndOfHeap
      /\ NextFree' = NextFree
  BY DEF StartMinor, registers
<1>2. /\ to' \in [Addr -> Element]
      /\ \A x \in Addr : (x < GenStart \/ EndOfHeap <= x) => to'[x] = heap[x]
      /\ \A x \in Addr : ~(x < GenStart \/ EndOfHeap <= x) => to'[x] = Unused
  BY <1>1, NothingIsElement, Resting DEF TypeOK
<1>3. \A x : Outside(x)' <=> x < GenStart \/ EndOfHeap <= x
  BY <1>1 DEF Outside
<1>4. \A x : x \in Starts(to') <=> x \in Starts(heap) /\ (x < GenStart \/ EndOfHeap <= x)
  BY <1>2, StartsAre DEF Unused, Begins
<1>5. n' \in Nat /\ a' + n' = EndOfHeap
  BY <1>1, Resting
<1>6. ASSUME NEW lo \in Nat, NEW hi \in Nat, Tiled(heap, lo, hi), hi <= Limit,
             \A x \in lo .. hi - 1 : x < GenStart \/ EndOfHeap <= x
      PROVE  Tiled(to', lo, hi)
  <2>1. \A x \in lo .. hi - 1 : x \in Addr
    BY <1>6, Limits DEF Addr
  <2>2. \A x \in lo .. hi - 1 : to'[x] = heap[x]
    BY <1>2, <1>6, <2>1
  <2>3. \A x \in lo .. hi - 1 : (Begins(to', x) <=> Begins(heap, x)) /\ to'[x].len = heap[x].len
    BY <2>2 DEF Begins
  <2> QED BY <1>6, <2>3, SameTiling
<1>7. Built(to, a, n)'
  <2>1. Tiled(to', 0, GenStart)
    <3>1. \A x \in 0 .. GenStart - 1 : x < GenStart
      BY Resting
    <3>2. Tiled(heap, 0, GenStart) /\ GenStart <= Limit
      BY Resting DEF Shape
    <3> QED BY <1>6, <3>1, <3>2, Resting
  <2>2. Tiled(to', EndOfHeap, Limit)
    <3>1. \A x \in EndOfHeap .. Limit - 1 : EndOfHeap <= x
      BY Resting
    <3>2. Tiled(heap, EndOfHeap, Limit)
      BY Resting DEF Shape
    <3> QED BY <1>6, <3>1, <3>2, Resting
  <2>3. Free(to', GenStart, EndOfHeap)
    <3>1. \A x \in GenStart .. EndOfHeap - 1 : x \in Addr /\ ~(x < GenStart \/ EndOfHeap <= x)
      BY Resting DEF Addr
    <3>2. \A x \in GenStart .. EndOfHeap - 1 : ~Begins(to', x)
      BY <1>2, <3>1 DEF Begins, Unused
    <3> QED BY <3>2 DEF Free
  <2>4. Tiled(to', GenStart, GenStart) /\ Tiled(to', EndOfHeap, EndOfHeap)
    BY Resting, NothingTiled
  <2>5. \A x \in Starts(to') : isDataElement(to'[x])
    BY <1>2, <1>4, StartsAre, Resting DEF AtRest
  <2>6. \A x \in Starts(to') : to'[x].kind = "ref" <=> EndOfHeap <= x
    BY <1>2, <1>4, StartsAre, Resting DEF AtRest, GenerationsOk
  <2>7. /\ GenStart \in Nat /\ GenStart <= GenStart /\ EndOfHeap <= EndOfHeap
    BY Resting
  <2> QED BY <1>1, <1>2, <1>5, <2>1, <2>2, <2>3, <2>4, <2>5, <2>6, <2>7 DEF Built, Base
<1>8. \A x \in Addr : heap[x].kind # "fwd"
  <2>1. \A x \in Addr : heap[x].kind = "fwd" => x \in Starts(heap) /\ ~isDataElement(heap[x])
    BY StartsAre DEF Begins, isDataElement
  <2> QED BY <2>1, Resting DEF AtRest
<1>9. Forwards(heap, to)'
  BY <1>1, <1>3, <1>4, <1>8 DEF Forwards
<1>10. Room(heap, a, n)'
  <2>1. PICK W : W = [K \in SUBSET Kinds |-> LeftWords(heap, K)']
    OBVIOUS
  <2>2. Kinds \in SUBSET Kinds /\ {"data"} \in SUBSET Kinds /\ {"ref"} \in SUBSET Kinds
    BY DEF Kinds
  <2>3. ASSUME NEW K \in SUBSET Kinds, NEW w \in W[K]
        PROVE  \E x \in Starts(heap) :
                 heap[x].kind \in K /\ w \in Words(heap, x) /\ GenStart <= x /\ x < EndOfHeap
    <3>1. w \in LeftWords(heap, K)'
      BY <2>1, <2>3
    <3>2. \A x \in Left(heap)' : x \in Starts(heap) /\ ~(x < GenStart \/ EndOfHeap <= x)
      BY <1>1, <1>3, StartsAre DEF Left
    <3>3. PICK x \in Left(heap)' : heap[x].kind \in K /\ w \in Words(heap, x)
      BY <1>1, <3>1 DEF LeftWords
    <3>4. x \in Starts(heap) /\ x \in Nat
      BY <3>2, StartsAre, Limits
    <3>5. GenStart <= x /\ x < EndOfHeap
      BY <3>2, <3>4, Resting
    <3> QED BY <3>3, <3>4, <3>5
  <2>4. \A K \in SUBSET Kinds : W[K] \subseteq GenStart .. NextFree - 1
    BY <2>3, EitherSide
  <2>5. \A K \in SUBSET Kinds : Cardinality(W[K]) <= NextFree - GenStart /\ Cardinality(W[K]) \in Nat
    BY <2>4, Resting, WordsWithin
  <2>6. W[{"ref"}] = {}
    <3>1. \A x \in Starts(heap) : x \in Nat
      BY StartsAre, Limits
    <3>2. ASSUME NEW w \in W[{"ref"}] PROVE FALSE
      <4>1. PICK x \in Starts(heap) : heap[x].kind = "ref" /\ x < EndOfHeap
        BY <2>2, <2>3, <3>2
      <4> QED BY <3>1, <4>1, EitherSide, Resting
    <3> QED BY <3>2
  <2>7. Cardinality(W[{"ref"}]) = 0
    BY <2>6, FS_EmptySet
  <2>8. /\ LeftWords(heap, Kinds)' = W[Kinds] /\ LeftWords(heap, {"data"})' = W[{"data"}]
        /\ LeftWords(heap, {"ref"})' = W[{"ref"}]
    BY <2>1, <2>2
  <2>9. Cardinality(W[Kinds]) <= EndOfHeap - GenStart
    BY <2>2, <2>5, Resting
  <2> HIDE DEF Kinds
  <2> QED BY <1>1, <1>5, <2>2, <2>5, <2>7, <2>8, <2>9, Resting DEF Room
<1>11. FieldsLead'
  <2>1. ASSUME NEW x \in Starts(to'), NEW j \in 1 .. Len(to'[x].ptrs), to'[x].ptrs[j] # Data
        PROVE  to'[x].ptrs[j] \in IF Scanned(x, j)' THEN Starts(to') ELSE Starts(heap')
    <3>1. x \in Starts(heap) /\ to'[x] = heap[x] /\ x \in Addr /\ x \in Nat /\ x < Limit
      BY <1>2, <1>4, StartsAre, Limits
    <3>2. to'[x].ptrs[j] \in Points(heap, x)
      BY <2>1, <3>1 DEF Points
    <3>3. to'[x].ptrs[j] \in Starts(heap)
      BY <3>1, <3>2, Resting DEF AtRest, Lead
    <3>4. CASE x < GenStart
      <4>1. to'[x].ptrs[j] \in Starts(to')
        BY <1>4, <3>1, <3>2, <3>3, <3>4, Resting DEF AtRest
      <4>2. Scanned(x, j)'
        BY <1>1, <3>4 DEF Scanned
      <4> QED BY <4>1, <4>2
    <3>5. CASE EndOfHeap <= x
      <4>1. ~Scanned(x, j)'
        BY <1>1, <3>1, <3>5, Resting DEF Scanned
      <4> QED BY <1>1, <3>3, <4>1
    <3> QED BY <1>4, <3>4, <3>5
  <2> QED BY <2>1 DEF FieldsLead
<1>12. Clock'
  BY <1>1 DEF Clock
<1> QED BY <1>1, <1>2, <1>5, <1>7, <1>9, <1>10, <1>11, <1>12, Resting

LEMMA CallKeeps ==
  ASSUME IInv, Running, NEW alloc \in Nat, NEW names \in SUBSET RootList,
         root' = [r \in RootList |-> IF r \in names THEN root[r] ELSE Data],
         CallCollector(alloc), UNCHANGED <<heap, space, registers>>
  PROVE  IInv'
<1>1. /\ AllocSize' = alloc /\ phase' = "roots" /\ i' = 1 /\ ok' = TRUE /\ clock' = Limit
      /\ IF CanDoPartial(alloc) THEN StartMinor ELSE StartMajor
      /\ heap' = heap /\ space' = space /\ UNCHANGED <<heap, registers>>
      /\ gc_kind' = gc_kind /\ EndOfHeap' = EndOfHeap /\ NextFree' = NextFree
      /\ TriggerGC' = TriggerGC /\ GenStart' = GenStart
  BY DEF CallCollector, registers
<1>2. root' \in [RootList -> Starts(heap) \cup {Data}]
  BY Survivors
<1>3. Roots'
  BY <1>1, <1>2, ShapeAssumption DEF Roots, RootList
<1>4. Old(heap)'
  <2>1. Shape(heap)'
    BY <1>1, Resting DEF Shape
  <2> QED BY <1>1, <2>1, Resting DEF Old, AtRest, GenerationsOk
<1>5. /\ to' \in [Addr -> Element] /\ a' \in Nat /\ n' \in Nat /\ h1' \in Nat
      /\ r3' \in Nat /\ r2' \in Nat /\ r1' \in Nat
      /\ partial' \in BOOLEAN
      /\ Built(to, a, n)' /\ Forwards(heap, to)' /\ Room(heap, a, n)' /\ FieldsLead' /\ Clock'
      /\ Positions'
  <2>1. CASE CanDoPartial(alloc)
    <3>1. gc_kind = "Generational" /\ alloc <= EndOfHeap - TriggerGC
      BY <2>1 DEF CanDoPartial
    <3>2. /\ to' \in [Addr -> Element] /\ a' \in Nat /\ n' \in Nat /\ h1' \in Nat
          /\ r3' = EndOfHeap /\ r2' = EndOfHeap /\ r1' = Limit
          /\ Built(to, a, n)' /\ Forwards(heap, to)' /\ Room(heap, a, n)' /\ FieldsLead' /\ Clock'
      BY <1>1, <2>1, <3>1, MinorBegins
    <3>3. partial' = TRUE
      BY <1>1, <2>1 DEF StartMinor
    <3>4. Positions'
      BY <1>1, <3>1, <3>2, <3>3, Resting DEF Positions
    <3> QED BY <3>2, <3>3, <3>4, Resting
  <2>2. CASE ~CanDoPartial(alloc)
    <3>1. /\ to' \in [Addr -> Element] /\ a' = 0 /\ n' = Limit /\ h1' = 0
          /\ r3' = Limit /\ r2' = Limit /\ r1' = Limit
          /\ Built(to, a, n)' /\ Forwards(heap, to)' /\ Room(heap, a, n)' /\ FieldsLead' /\ Clock'
      BY <1>1, <2>2, MajorBegins
    <3>2. partial' = FALSE
      BY <1>1, <2>2 DEF StartMajor
    <3>3. Positions'
      BY <1>1, <3>1, <3>2, Limits DEF Positions
    <3> QED BY <3>1, <3>2, <3>3, Limits
  <2> QED BY <2>1, <2>2
<1>6. TypeOK'
  <2>1. root' \in [RootList -> Val]
    BY <1>2, StartsAre DEF Val
  <2>2. registers' = registers
    BY <1>1
  <2> QED BY <1>1, <1>5, <2>1, <2>2, Resting, Limits DEF TypeOK
<1>7. InOrder'
  BY <1>1, Resting DEF InOrder
<1>8. ~Running'
  BY <1>1 DEF Running
<1> QED BY <1>1, <1>3, <1>4, <1>5, <1>6, <1>7, <1>8 DEF IInv, InCollection

LEMMA MakeSpaceKeeps ==
  ASSUME IInv, NEW k \in Requests, NEW names \in SUBSET RootList, MakeSpace(k, names)
  PROVE  IInv'
<1>1. /\ phase = "run" /\ Running /\ k \in Nat
      /\ root' = [r \in RootList |-> IF r \in names THEN root[r] ELSE Data]
      /\ UNCHANGED <<heap, registers>>
  BY KindAssumption DEF MakeSpace, Running
<1>2. CASE TriggerGC - NextFree < k
  <2>1. CallCollector(k) /\ UNCHANGED space
    BY <1>2 DEF MakeSpace
  <2> QED BY <1>1, <2>1, CallKeeps
<1>3. CASE ~(TriggerGC - NextFree < k)
  <2>1. space' = k /\ UNCHANGED <<AllocSize, collector>> /\ phase' = phase
    BY <1>3 DEF MakeSpace, collector
  <2>2. k <= TriggerGC - NextFree
    BY <1>1, <1>3, Resting
  <2>3. root' \in [RootList -> Starts(heap) \cup {Data}]
    BY <1>1, Survivors
  <2> QED BY <1>1, <2>1, <2>2, <2>3, RootsChange
<1> QED BY <1>2, <1>3

LEMMA ConfigGCKeeps ==
  ASSUME IInv, NEW names \in SUBSET RootList, ConfigGC(names)
  PROVE  IInv'
<1>1. /\ phase = "run" /\ Running
      /\ root' = [r \in RootList |-> IF r \in names THEN root[r] ELSE Data]
      /\ CallCollector(0) /\ UNCHANGED <<heap, space, registers>>
  BY DEF ConfigGC, Running
<1> QED BY <1>1, CallKeeps

\* An element more, and a variable that leads to it.
LEMMA AllocatedRests ==
  ASSUME IInv, NEW r \in RootList, NEW x \in Addr, NEW e \in Element, Allocate(r, x, e),
         isDataElement(e), x \notin Starts(heap), GenStart <= x,
         \A j \in 1 .. Len(e.ptrs) : e.ptrs[j] \in Starts(heap) \cup {Data},
         gc_kind' = gc_kind, GenStart' = GenStart, EndOfHeap' \in Nat, EndOfHeap' <= EndOfHeap,
         InOrder', Shape(heap)', space' <= TriggerGC' - NextFree',
         gc_kind = "Generational" =>
           /\ e.kind = "ref" <=> EndOfHeap' <= x
           /\ \A y \in Starts(heap) : EndOfHeap' <= y <=> EndOfHeap <= y
  PROVE  IInv'
<1>1. /\ phase = "run" /\ Running /\ el_length(e) <= space /\ space' = space - el_length(e)
      /\ heap' = [heap EXCEPT ![x] = e] /\ root' = [root EXCEPT ![r] = x]
      /\ UNCHANGED <<AllocSize, collector>> /\ phase' = phase /\ ok' = ok
  BY DEF Allocate, Running, collector
<1>2. AtRest /\ ok = TRUE /\ TypeOK /\ heap \in [Addr -> Element]
      /\ root \in [RootList -> Starts(heap) \cup {Data}]
  BY <1>1, Resting DEF AtRest, TypeOK
<1>3. /\ heap' \in [Addr -> Element] /\ heap'[x] = e
      /\ \A y \in Addr : y # x => heap'[y] = heap[y]
  BY <1>1, <1>2
<1>4. \A y : y \in Starts(heap') <=> y \in Starts(heap) \/ y = x
  <2>1. e.kind # "unused"
    BY DEF isDataElement
  <2> QED BY <1>3, <2>1, StartsAre DEF Begins
<1>5. \A y \in Starts(heap) : y # x /\ y \in Addr /\ heap'[y] = heap[y]
  BY <1>3, StartsAre
<1>6. Points(heap', x) \subseteq Starts(heap)
  BY <1>3 DEF Points
<1>7. \A y \in Starts(heap) : Points(heap', y) = Points(heap, y)
  BY <1>5 DEF Points
<1>8. \A y \in Starts(heap') : isDataElement(heap'[y]) /\ Lead(heap', y)
  BY <1>2, <1>3, <1>4, <1>5, <1>6, <1>7 DEF AtRest, Lead
<1>9. x \in Nat /\ \A y \in Starts(heap) : y \in Nat
  BY StartsAre, Limits
<1>10. \A y \in Starts(heap') : y < GenStart' =>
         \A p \in Points(heap', y) : p < GenStart' \/ EndOfHeap' <= p
  <2>1. ASSUME NEW y \in Starts(heap'), y < GenStart, NEW p \in Points(heap', y)
        PROVE  p < GenStart \/ EndOfHeap' <= p
    <3>1. y \in Starts(heap) /\ p \in Points(heap, y)
      <4>1. ~(x < GenStart)
        BY <1>1, <1>9, Resting
      <4>2. y \in Starts(heap)
        BY <1>4, <2>1, <4>1
      <4> QED BY <1>7, <2>1, <4>2
    <3>2. p \in Starts(heap) /\ (p < GenStart \/ EndOfHeap <= p)
      BY <1>2, <2>1, <3>1 DEF AtRest, Lead
    <3> QED BY <1>1, <1>9, <3>2, Resting
  <2> QED BY <2>1
<1>11. gc_kind = "Generational" => \A y \in Starts(heap') : heap'[y].kind = "ref" <=> EndOfHeap' <= y
  BY <1>2, <1>3, <1>4, <1>5 DEF AtRest, GenerationsOk
<1>12. \A s \in RootList : root'[s] \in Starts(heap') \cup {Data}
  BY <1>1, <1>2, <1>4
<1>13. AtRest'
  <2>1. GenerationsOk'
    BY <1>10, <1>11 DEF GenerationsOk
  <2> QED BY <1>1, <1>8, <1>10, <1>12, <2>1 DEF AtRest
<1>14. TypeOK'
  <2>1. root' \in [RootList -> Val]
    <3>1. \A s \in RootList : root'[s] \in Val
      BY <1>12, StartsAre DEF Val
    <3> QED BY <1>1, <1>2, <3>1 DEF TypeOK
  <2>2. space' \in Nat
    BY <1>1, Resting DEF Element, el_length
  <2>3. registers' \in GcKinds \X Int \X Int \X Int \X Int
    BY DEF InOrder, registers
  <2> QED BY <1>1, <1>2, <1>3, <2>1, <2>2, <2>3 DEF TypeOK, collector
<1>15. Running'
  BY <1>1 DEF Running
<1> QED BY <1>1, <1>2, <1>13, <1>14, <1>15 DEF IInv

\* What a program puts in an element.
LEMMA FilledElement ==
  ASSUME IInv, Running, NEW ptrs \in PtrLists, NEW kind \in {"data", "ref"}
  PROVE  LET e == DataElement(kind, ptrs, Len(ptrs), FreshId)
         IN  /\ e \in Element /\ isDataElement(e) /\ e.kind = kind
             /\ \A j \in 1 .. Len(e.ptrs) : e.ptrs[j] \in Starts(heap) \cup {Data}
<1> DEFINE e == DataElement(kind, ptrs, Len(ptrs), FreshId)
<1>1. PICK k \in 1 .. MaxPtrs : ptrs \in [1 .. k -> Held]
  BY DEF PtrLists
<1>2. k \in Nat
  BY <1>1, ShapeAssumption
<1>3. ptrs \in Seq(Held) /\ Len(ptrs) = k
  BY <1>1, <1>2
<1>4. \A j \in 1 .. k : ptrs[j] \in Starts(heap) \cup {Data} /\ ptrs[j] \in Val
  BY <1>1, HeldLead
<1>5. ptrs \in Seq(Val)
  <2>1. ptrs \in [1 .. k -> Val]
    BY <1>1, <1>4
  <2> QED BY <1>2, <2>1
<1>6. e.kind = kind /\ e.ptrs = ptrs
  BY DEF DataElement
<1>7. e \in Element
  BY <1>2, <1>3, <1>5, FreshIdIsId DEF DataElement, Element, Id, Data
<1> QED BY <1>3, <1>4, <1>6, <1>7 DEF isDataElement

LEMMA BoxElement ==
  ASSUME NEW len \in RawLens
  PROVE  LET e == DataElement("data", <<>>, len, FreshId)
         IN  e \in Element /\ isDataElement(e) /\ e.kind = "data" /\ Len(e.ptrs) = 0
<1>1. len \in Nat /\ <<>> \in Seq(Val)
  BY ShapeAssumption, EmptySeq
<1> QED BY <1>1, FreshIdIsId DEF DataElement, Element, Id, Data, isDataElement

LEMMA LeftKeeps ==
  ASSUME IInv, NEW r \in RootList, NEW e \in Element, AllocateLeft(r, e),
         isDataElement(e), e.kind = "data",
         \A j \in 1 .. Len(e.ptrs) : e.ptrs[j] \in Starts(heap) \cup {Data}
  PROVE  IInv'
<1>1. /\ Allocate(r, NextFree, e) /\ phase = "run" /\ Running
      /\ el_length(e) <= space /\ space' = space - el_length(e)
      /\ heap' = [heap EXCEPT ![NextFree] = e]
      /\ NextFree' = NextFree + el_length(e)
      /\ gc_kind' = gc_kind /\ TriggerGC' = TriggerGC /\ EndOfHeap' = EndOfHeap
      /\ GenStart' = GenStart
  BY DEF AllocateLeft, Allocate, Running
<1>2. PICK len \in Nat : len = el_length(e) /\ 0 < len
  BY DEF Element, el_length
<1>3. /\ heap \in Heaps /\ Limit \in Nat /\ GenStart \in Nat /\ NextFree \in Nat
      /\ TriggerGC \in Nat /\ EndOfHeap \in Nat /\ space \in Nat /\ GenStart <= NextFree
      /\ NextFree <= TriggerGC /\ TriggerGC <= EndOfHeap /\ EndOfHeap <= Limit
      /\ space <= TriggerGC - NextFree /\ Shape(heap)
  BY <1>1, Resting
<1>4. NextFree + len <= TriggerGC /\ NextFree + len <= EndOfHeap /\ NextFree < EndOfHeap
      /\ NextFree + len <= Limit /\ NextFree + len \in Nat
  BY <1>1, <1>2, <1>3
<1>0. PICK mid \in Nat : mid = NextFree + len
  BY <1>4
<1>5. NextFree \in Addr
  BY <1>3, <1>4, Limits
<1>6. /\ heap' \in [Addr -> Element]
      /\ \A x \in Addr : x # NextFree => heap'[x] = heap[x]
  BY <1>1, <1>3, <1>5 DEF Heaps
<1>7. /\ Tiled(heap, 0, NextFree) /\ Tiled(heap, 0, GenStart)
      /\ Free(heap, NextFree, EndOfHeap) /\ Tiled(heap, EndOfHeap, Limit)
  BY <1>3 DEF Shape
<1>8. Free(heap, NextFree, mid)
  <2>1. \A x \in NextFree .. mid - 1 : x \in NextFree .. EndOfHeap - 1
    BY <1>0, <1>2, <1>3, <1>4
  <2> QED BY <1>7, <2>1 DEF Free
<1>9. Tiled(heap', 0, mid)
  <2>1. /\ 0 <= NextFree /\ NextFree + el_length(e) <= Limit /\ NextFree + el_length(e) = mid
        /\ Free(heap, NextFree, NextFree + el_length(e)) /\ e.kind # "unused"
    BY <1>0, <1>2, <1>3, <1>4, <1>8 DEF isDataElement
  <2>2. Tiled([heap EXCEPT ![NextFree] = e], 0, NextFree + el_length(e))
    BY <1>3, <1>7, <2>1, TiledRight
  <2> QED BY <1>1, <2>1, <2>2
<1>10. Free(heap', mid, EndOfHeap)
  <2>1. \A x \in mid .. EndOfHeap - 1 :
          x \in NextFree .. EndOfHeap - 1 /\ x # NextFree /\ x \in Addr
    BY <1>0, <1>2, <1>3, <1>4, Limits
  <2> QED BY <1>6, <1>7, <2>1 DEF Free, Begins
<1>11. ASSUME NEW lo \in Nat, NEW hi \in Nat, Tiled(heap, lo, hi), hi <= Limit,
              ~(NextFree \in lo .. hi - 1)
       PROVE  Tiled(heap', lo, hi)
  <2>1. \A x \in lo .. hi - 1 : x \in Addr /\ x # NextFree
    BY <1>11, Limits DEF Addr
  <2>2. \A x \in lo .. hi - 1 : (Begins(heap', x) <=> Begins(heap, x)) /\ heap'[x].len = heap[x].len
    BY <1>6, <2>1 DEF Begins
  <2> QED BY <1>11, <2>2, SameTiling
<1>12. Tiled(heap', 0, GenStart) /\ Tiled(heap', EndOfHeap, Limit)
  <2>1. /\ ~(NextFree \in 0 .. GenStart - 1) /\ ~(NextFree \in EndOfHeap .. Limit - 1)
        /\ GenStart <= Limit
    BY <1>3, <1>4
  <2> QED BY <1>3, <1>7, <1>11, <2>1
<1>13. Shape(heap)'
  BY <1>0, <1>1, <1>2, <1>6, <1>9, <1>10, <1>12 DEF Shape
<1>14. InOrder'
  BY <1>1, <1>2, <1>3, <1>4, Resting DEF InOrder
<1>15. NextFree \notin Starts(heap)
  <2>1. NextFree \in NextFree .. EndOfHeap - 1
    BY <1>3, <1>4
  <2> QED BY <1>7, <2>1, StartsAre DEF Free
<1>16. space' <= TriggerGC' - NextFree'
  BY <1>1, <1>2, <1>3, <1>4
<1>17. e.kind = "ref" <=> EndOfHeap' <= NextFree
  BY <1>1, <1>3, <1>4
<1>18. EndOfHeap' \in Nat /\ EndOfHeap' <= EndOfHeap /\ \A y : EndOfHeap' <= y <=> EndOfHeap <= y
  BY <1>1, <1>3
<1> QED BY <1>1, <1>3, <1>5, <1>13, <1>14, <1>15, <1>16, <1>17, <1>18, AllocatedRests

LEMMA RefKeeps ==
  ASSUME IInv, NEW r \in RootList, NEW ptrs \in PtrLists, Ref(r, ptrs)
  PROVE  IInv'
<1>1. PICK e : e = DataElement("ref", ptrs, Len(ptrs), FreshId)
  OBVIOUS
<1>2. PICK x : x = EndOfHeap - el_length(e)
  OBVIOUS
<1>3. /\ Allocate(r, x, e) /\ phase = "run" /\ Running
      /\ el_length(e) <= space /\ space' = space - el_length(e)
      /\ heap' = [heap EXCEPT ![x] = e]
      /\ gc_kind' = gc_kind /\ TriggerGC' = TriggerGC - el_length(e) /\ EndOfHeap' = x
      /\ GenStart' = GenStart /\ NextFree' = NextFree
  BY <1>1, <1>2 DEF Ref, Allocate, Running
<1>4. /\ e \in Element /\ isDataElement(e) /\ e.kind = "ref" /\ e.kind # "unused"
      /\ \A j \in 1 .. Len(e.ptrs) : e.ptrs[j] \in Starts(heap) \cup {Data}
  BY <1>1, <1>3, FilledElement DEF isDataElement
<1>5. PICK len \in Nat : len = el_length(e) /\ 0 < len
  BY <1>4 DEF Element, el_length
<1>6. /\ heap \in Heaps /\ Limit \in Nat /\ GenStart \in Nat /\ NextFree \in Nat
      /\ TriggerGC \in Nat /\ EndOfHeap \in Nat /\ space \in Nat /\ GenStart <= NextFree
      /\ NextFree <= TriggerGC /\ TriggerGC <= EndOfHeap /\ EndOfHeap <= Limit
      /\ space <= TriggerGC - NextFree /\ Shape(heap)
  BY <1>3, Resting
<1>7. /\ x \in Nat /\ x + len = EndOfHeap /\ NextFree <= x /\ x < EndOfHeap /\ x < Limit
      /\ TriggerGC' \in Nat /\ NextFree <= TriggerGC' /\ TriggerGC' <= x
  BY <1>2, <1>3, <1>5, <1>6
<1>8. x \in Addr
  BY <1>6, <1>7, Limits
<1>9. /\ heap' \in [Addr -> Element]
      /\ \A y \in Addr : y # x => heap'[y] = heap[y]
  BY <1>3, <1>4, <1>6, <1>8 DEF Heaps
<1>10. /\ Tiled(heap, 0, NextFree) /\ Tiled(heap, 0, GenStart)
       /\ Free(heap, NextFree, EndOfHeap) /\ Tiled(heap, EndOfHeap, Limit)
  BY <1>6 DEF Shape
<1>11. Tiled(heap', x, Limit)
  <2>1. Free(heap, x, EndOfHeap)
    <3>1. \A y \in x .. EndOfHeap - 1 : y \in NextFree .. EndOfHeap - 1
      BY <1>6, <1>7
    <3> QED BY <1>10, <3>1 DEF Free
  <2>2. x + el_length(e) = EndOfHeap
    BY <1>5, <1>7
  <2>3. Tiled([heap EXCEPT ![x] = e], x, Limit)
    BY <1>4, <1>6, <1>7, <1>10, <2>1, <2>2, TiledLeft
  <2> QED BY <1>3, <2>3
<1>12. Free(heap', NextFree, x)
  <2>1. \A y \in NextFree .. x - 1 : y \in NextFree .. EndOfHeap - 1 /\ y # x /\ y \in Addr
    BY <1>6, <1>7, Limits
  <2> QED BY <1>9, <1>10, <2>1 DEF Free, Begins
<1>13. ASSUME NEW hi \in Nat, Tiled(heap, 0, hi), hi <= NextFree PROVE Tiled(heap', 0, hi)
  <2>1. \A y \in 0 .. hi - 1 : y \in Addr /\ y # x
    BY <1>6, <1>7, <1>13, Limits
  <2>2. \A y \in 0 .. hi - 1 : (Begins(heap', y) <=> Begins(heap, y)) /\ heap'[y].len = heap[y].len
    BY <1>9, <2>1 DEF Begins
  <2> QED BY <1>13, <2>2, SameTiling
<1>14. Tiled(heap', 0, NextFree) /\ Tiled(heap', 0, GenStart)
  BY <1>6, <1>10, <1>13
<1>15. Shape(heap)'
  BY <1>3, <1>9, <1>11, <1>12, <1>14 DEF Shape
<1>16. InOrder'
  BY <1>3, <1>6, <1>7, Resting DEF InOrder
<1>17. x \notin Starts(heap)
  <2>1. x \in NextFree .. EndOfHeap - 1
    BY <1>6, <1>7
  <2> QED BY <1>10, <2>1, StartsAre DEF Free
<1>18. space' <= TriggerGC' - NextFree'
  BY <1>3, <1>5, <1>6, <1>7
<1>19. GenStart <= x
  BY <1>6, <1>7
<1>20. EndOfHeap' \in Nat /\ EndOfHeap' <= EndOfHeap /\ EndOfHeap' <= x
  BY <1>3, <1>6, <1>7
<1>21. ASSUME NEW y \in Starts(heap) PROVE EndOfHeap' <= y <=> EndOfHeap <= y
  <2>1. y \in Nat /\ (y < NextFree \/ EndOfHeap <= y)
    BY <1>3, <1>6, Resting, StartsApart
  <2> QED BY <1>3, <1>6, <1>7, <2>1
<1> QED BY <1>3, <1>4, <1>8, <1>15, <1>16, <1>17, <1>18, <1>19, <1>20, <1>21, AllocatedRests

\* An update writes one pointer of one element.
Rewrites(x, j, v, e) ==
  /\ x # Data /\ x \in Starts(heap) /\ heap[x].kind = "ref" /\ j \in 1 .. Len(heap[x].ptrs)
  /\ e.kind = "ref" /\ e.len = heap[x].len /\ e.id = heap[x].id
  /\ e.ptrs = [heap[x].ptrs EXCEPT ![j] = v] /\ Len(e.ptrs) = Len(heap[x].ptrs)
  /\ \A k \in 1 .. Len(heap[x].ptrs) : e.ptrs[k] = IF k = j THEN v ELSE heap[x].ptrs[k]
  /\ heap' \in Heaps /\ heap'[x] = e /\ \A y \in Addr : y # x => heap'[y] = heap[y]

LEMMA Written ==
  ASSUME IInv, NEW r \in RootList, NEW j \in 1 .. MaxPtrs, NEW v \in Held, Update(r, j, v)
  PROVE  \E e \in Element : Rewrites(root[r], j, v, e)
<1>1. PICK x : x = root[r]
  OBVIOUS
<1>2. /\ phase = "run" /\ Running /\ x # Data /\ heap[x].kind = "ref"
      /\ j <= Len(heap[x].ptrs) /\ heap' = [heap EXCEPT ![x].ptrs[j] = v]
  BY <1>1 DEF Update, Running
<1>3. AtRest /\ heap \in Heaps
  BY <1>2, Resting
<1>4. x \in Starts(heap) /\ x \in Addr
  BY <1>1, <1>2, <1>3, StartsAre DEF AtRest
<1>5. v \in Val
  BY <1>2, HeldLead
<1>6. heap[x].ptrs \in Seq(Val) /\ j \in 1 .. Len(heap[x].ptrs)
  BY <1>2, <1>3, <1>4, ElementFacts, LenProperties
<1>7. PICK q : q = [heap[x].ptrs EXCEPT ![j] = v]
  OBVIOUS
<1>8. /\ q \in Seq(Val) /\ Len(q) = Len(heap[x].ptrs)
      /\ \A k \in 1 .. Len(heap[x].ptrs) : q[k] = IF k = j THEN v ELSE heap[x].ptrs[k]
  BY <1>5, <1>6, <1>7, ExceptSeq
<1>9. PICK e : e = [heap[x] EXCEPT !.ptrs = q]
  OBVIOUS
<1>10. e \in Element /\ e.kind = "ref" /\ e.len = heap[x].len /\ e.id = heap[x].id /\ e.ptrs = q
  BY <1>2, <1>3, <1>4, <1>8, <1>9 DEF Element, Heaps
<1>11. heap' = [heap EXCEPT ![x] = e]
  BY <1>2, <1>3, <1>4, <1>7, <1>9 DEF Heaps
<1>12. /\ heap' \in Heaps /\ heap'[x] = e
       /\ \A y \in Addr : y # x => heap'[y] = heap[y]
  BY <1>3, <1>4, <1>10, <1>11 DEF Heaps
<1> QED BY <1>1, <1>2, <1>4, <1>6, <1>7, <1>8, <1>10, <1>12 DEF Rewrites

LEMMA UpdateKeeps ==
  ASSUME IInv, NEW r \in RootList, NEW j \in 1 .. MaxPtrs, NEW v \in Held, Update(r, j, v)
  PROVE  IInv'
<1>1. PICK x : x = root[r]
  OBVIOUS
<1>2. phase = "run" /\ Running /\ UNCHANGED <<root, AllocSize, space, registers, collector>>
  BY DEF Update, Running
<1>3. AtRest /\ TypeOK /\ InOrder /\ ok = TRUE /\ heap \in [Addr -> Element] /\ heap \in Heaps
  BY <1>2, Resting DEF Heaps
<1>4. PICK e \in Element : Rewrites(x, j, v, e)
  BY <1>1, Written
<1>5. v \in Starts(heap) \cup {Data} /\ x \in Addr /\ x \in Nat
  BY <1>2, <1>4, HeldLead, StartsAre, Limits DEF Rewrites
<1>6. heap' \in [Addr -> Element] /\ heap'[x] = e /\ \A y \in Addr : y # x => heap'[y] = heap[y]
  BY <1>4 DEF Heaps, Rewrites
<1>7. \A y \in Addr : /\ Begins(heap', y) <=> Begins(heap, y)
                      /\ heap'[y].kind = heap[y].kind /\ heap'[y].len = heap[y].len
  BY <1>4, <1>6 DEF Begins, Rewrites
<1>8. Starts(heap') = Starts(heap)
  BY <1>7, StartsAre
<1>9. /\ gc_kind' = gc_kind /\ GenStart' = GenStart /\ NextFree' = NextFree
      /\ TriggerGC' = TriggerGC /\ EndOfHeap' = EndOfHeap
      /\ root' = root /\ space' = space /\ phase' = phase /\ ok' = ok
  BY <1>2 DEF registers, collector
<1>10. Shape(heap)'
  <2>1. ASSUME NEW lo \in Nat, NEW hi \in Nat, hi <= Limit, Tiled(heap, lo, hi)
        PROVE  Tiled(heap', lo, hi)
    <3>1. \A y \in lo .. hi - 1 : y \in Addr
      BY <2>1, Limits DEF Addr
    <3> QED BY <1>7, <2>1, <3>1, SameTiling
  <2>2. /\ Tiled(heap, 0, NextFree) /\ Tiled(heap, 0, GenStart)
        /\ Free(heap, NextFree, EndOfHeap) /\ Tiled(heap, EndOfHeap, Limit)
    BY <1>3 DEF AtRest, Shape
  <2>3. Free(heap', NextFree, EndOfHeap)
    <3>1. \A y \in NextFree .. EndOfHeap - 1 : y \in Addr
      BY <1>2, Resting, Limits
    <3> QED BY <1>7, <2>2, <3>1 DEF Free
  <2>4. NextFree \in Nat /\ GenStart \in Nat /\ EndOfHeap \in Nat /\ Limit \in Nat
        /\ NextFree <= Limit /\ GenStart <= Limit
    BY <1>2, Resting
  <2>5. Tiled(heap', 0, NextFree) /\ Tiled(heap', 0, GenStart) /\ Tiled(heap', EndOfHeap, Limit)
    BY <2>1, <2>2, <2>4
  <2> QED BY <1>6, <1>9, <2>3, <2>5 DEF Shape
<1>11. \A y \in Starts(heap) : y # x => Points(heap', y) = Points(heap, y)
  BY <1>6, StartsAre DEF Points
<1>12. Points(heap', x) \subseteq Starts(heap)
  <2>1. Points(heap, x) \subseteq Starts(heap)
    BY <1>3, <1>4 DEF AtRest, Lead, Rewrites
  <2>2. \A k \in 1 .. Len(e.ptrs) : e.ptrs[k] # Data => e.ptrs[k] \in Starts(heap)
    BY <1>4, <1>5, <2>1 DEF Points, Rewrites
  <2> QED BY <1>4, <2>2 DEF Points, Rewrites
<1>13. \A y \in Starts(heap') : isDataElement(heap'[y]) /\ Lead(heap', y)
  <2>1. \A y \in Starts(heap) : isDataElement(heap'[y])
    BY <1>3, <1>7, StartsAre DEF AtRest, isDataElement
  <2>2. \A y \in Starts(heap) : Lead(heap', y)
    BY <1>3, <1>8, <1>11, <1>12 DEF AtRest, Lead
  <2> QED BY <1>8, <2>1, <2>2
<1>14. ~(x < GenStart)
  <2>1. CASE gc_kind = "Generational"
    <3>1. EndOfHeap <= x
      BY <1>3, <1>4, <2>1 DEF AtRest, GenerationsOk, Rewrites
    <3> QED BY <1>2, <1>5, <3>1, Resting
  <2>2. CASE gc_kind = "Simple"
    BY <1>3, <1>5, <2>2 DEF InOrder
  <2> QED BY <1>3, <2>1, <2>2, KindAssumption DEF InOrder
<1>15. \A y \in Starts(heap') : y < GenStart' =>
         \A p \in Points(heap', y) : p < GenStart' \/ EndOfHeap' <= p
  BY <1>3, <1>8, <1>9, <1>11, <1>14 DEF AtRest
<1>16. gc_kind = "Generational" => \A y \in Starts(heap') : heap'[y].kind = "ref" <=> EndOfHeap' <= y
  BY <1>3, <1>7, <1>8, <1>9, StartsAre DEF AtRest, GenerationsOk
<1>17. AtRest'
  <2>1. GenerationsOk'
    BY <1>9, <1>15, <1>16 DEF GenerationsOk
  <2>2. \A s \in RootList : root'[s] \in Starts(heap') \cup {Data}
    BY <1>3, <1>8, <1>9 DEF AtRest
  <2>3. phase' = "run" => space' <= TriggerGC' - NextFree'
    BY <1>3, <1>9 DEF AtRest
  <2> QED BY <1>10, <1>13, <1>15, <2>1, <2>2, <2>3 DEF AtRest
<1>18. TypeOK'
  BY <1>2, <1>3, <1>6 DEF TypeOK, registers, collector
<1>19. InOrder' /\ Running' /\ ok' = TRUE
  BY <1>2, <1>3, <1>9 DEF InOrder, Running
<1> QED BY <1>17, <1>18, <1>19 DEF IInv

------------------------------------------------------------------------------
(***************************************************************************)
(* The invariant holds, and what follows from it.                          *)
(***************************************************************************)
LEMMA InitHolds == Init => IInv
<1> SUFFICES ASSUME Init PROVE IInv
  OBVIOUS
<1>1. /\ gc_kind \in GcKinds /\ heap = [x \in Addr |-> Unused] /\ to = heap
      /\ root = [r \in RootList |-> Data] /\ NextFree = 0
      /\ TriggerGC = IF gc_kind = "Generational" THEN 0 ELSE Limit
      /\ EndOfHeap = Limit /\ GenStart = 0 /\ AllocSize = 0 /\ space = 0
      /\ phase = "run" /\ partial = FALSE
      /\ a = 0 /\ n = 0 /\ h1 = 0 /\ r3 = 0 /\ r2 = 0 /\ r1 = 0 /\ i = 1
      /\ clock = 0 /\ ok = TRUE
  BY DEF Init
<1>2. heap \in [Addr -> Element] /\ \A x \in Addr : ~Begins(heap, x)
  BY <1>1, NothingIsElement DEF Unused, Begins
<1>3. Starts(heap) = {}
  BY <1>2, StartsAre
<1>4. TriggerGC \in Nat /\ TriggerGC <= Limit
  BY <1>1, Limits
<1>5. InOrder
  BY <1>1, <1>4, Limits DEF InOrder
<1>6. TypeOK
  <2>1. root \in [RootList -> Val]
    BY <1>1 DEF Val
  <2>2. registers \in GcKinds \X Int \X Int \X Int \X Int
    BY <1>1, <1>4, Limits DEF registers
  <2> QED BY <1>1, <1>2, <2>1, <2>2 DEF TypeOK
<1>7. Shape(heap)
  <2>1. Tiled(heap, 0, 0) /\ Tiled(heap, Limit, Limit)
    BY Limits, NothingTiled
  <2>2. Free(heap, 0, Limit)
    BY <1>2, Limits DEF Free
  <2> QED BY <1>1, <1>2, <2>1, <2>2 DEF Shape
<1>8. AtRest
  BY <1>1, <1>3, <1>4, <1>7 DEF AtRest, GenerationsOk
<1> QED BY <1>1, <1>5, <1>6, <1>8 DEF IInv, Running

LEMMA NextKeeps == IInv /\ [Next]_vars => IInv'
<1> SUFFICES ASSUME IInv, [Next]_vars PROVE IInv'
  OBVIOUS
<1>1. CASE UNCHANGED vars
  <2>1. /\ UNCHANGED <<heap, root, AllocSize, space, registers, collector>>
        /\ UNCHANGED <<gc_kind, NextFree, TriggerGC, EndOfHeap, GenStart>>
        /\ UNCHANGED <<to, phase, partial, a, n, h1, r3, r2, r1, i, clock, ok>>
    BY <1>1 DEF vars, registers, collector
  <2>2. TypeOK' /\ InOrder' /\ (Running' <=> Running)
    BY <2>1 DEF IInv, TypeOK, InOrder, Running
  <2>3. AtRest => AtRest'
    BY <2>1 DEF AtRest, Shape, GenerationsOk
  <2>4. ASSUME InCollection PROVE InCollection'
    <3>1. /\ Old(heap) => Old(heap)'
          /\ Forwards(heap, to) => Forwards(heap, to)'
          /\ Room(heap, a, n) => Room(heap, a, n)'
      BY <2>1, FrameOld
    <3>2. Built(to, a, n) => Built(to, a, n)'
      BY <2>1, FrameNew
    <3>3. FieldsLead => FieldsLead'
      BY <2>1 DEF FieldsLead, Scanned
    <3>4. (Roots => Roots') /\ (Positions => Positions') /\ (Clock => Clock')
      BY <2>1 DEF Roots, Positions, Clock
    <3> QED BY <2>1, <2>4, <3>1, <3>2, <3>3, <3>4 DEF InCollection
  <2> QED BY <2>1, <2>2, <2>3, <2>4 DEF IInv
<1>2. CASE Program
  <2>1. ASSUME NEW k \in Requests, NEW names \in SUBSET RootList, MakeSpace(k, names) PROVE IInv'
    BY <2>1, MakeSpaceKeeps
  <2>2. ASSUME NEW names \in SUBSET RootList, ConfigGC(names) PROVE IInv'
    BY <2>2, ConfigGCKeeps
  <2>3. ASSUME NEW r \in RootList, NEW ptrs \in PtrLists, Cons(r, ptrs) PROVE IInv'
    <3>1. PICK e : e = DataElement("data", ptrs, Len(ptrs), FreshId)
      OBVIOUS
    <3>2. AllocateLeft(r, e) /\ Running
      BY <2>3, <3>1 DEF Cons, AllocateLeft, Allocate, Running
    <3>3. /\ e \in Element /\ isDataElement(e) /\ e.kind = "data"
          /\ \A j \in 1 .. Len(e.ptrs) : e.ptrs[j] \in Starts(heap) \cup {Data}
      BY <3>1, <3>2, FilledElement
    <3> QED BY <3>2, <3>3, LeftKeeps
  <2>4. ASSUME NEW r \in RootList, NEW ptrs \in PtrLists, Ref(r, ptrs) PROVE IInv'
    BY <2>4, RefKeeps
  <2>5. ASSUME NEW r \in RootList, NEW len \in RawLens, Box(r, len) PROVE IInv'
    <3>1. PICK e : e = DataElement("data", <<>>, len, FreshId)
      OBVIOUS
    <3>2. AllocateLeft(r, e)
      BY <2>5, <3>1 DEF Box
    <3>3. e \in Element /\ isDataElement(e) /\ e.kind = "data" /\ Len(e.ptrs) = 0
      BY <3>1, BoxElement
    <3>4. \A j \in 1 .. Len(e.ptrs) : e.ptrs[j] \in Starts(heap) \cup {Data}
      BY <3>3
    <3> QED BY <3>2, <3>3, <3>4, LeftKeeps
  <2>6. ASSUME NEW r \in RootList, NEW j \in 1 .. MaxPtrs, NEW v \in Held, Update(r, j, v) PROVE IInv'
    BY <2>6, UpdateKeeps
  <2>7. ASSUME NEW r \in RootList, NEW s \in RootList, NEW j \in 1 .. MaxPtrs, El(r, s, j) PROVE IInv'
    BY <2>7, ElKeeps
  <2>8. ASSUME NEW r \in RootList, NEW s \in RootList, Move(r, s) PROVE IInv'
    <3>1. 1 \in 1 .. MaxPtrs
      BY ShapeAssumption
    <3> QED BY <2>8, <3>1, ElKeeps
  <2> QED BY <1>2, <2>1, <2>2, <2>3, <2>4, <2>5, <2>6, <2>7, <2>8 DEF Program
<1>3. CASE Collect
  <2>1. MoveRefField => IInv'
    <3>1. ASSUME MoveRefField PROVE IInv'
      <4>1. phase = "refs" /\ r2 < r1 /\ MoveField(r2) /\ ~Running
        BY <3>1 DEF MoveRefField, Running
      <4> QED BY <4>1, MoveFieldKeeps DEF ScannedAt
    <3> QED BY <3>1
  <2>2. MoveDataField => IInv'
    <3>1. ASSUME MoveDataField PROVE IInv'
      <4>1. phase = "data" /\ h1 < a /\ MoveField(h1) /\ ~Running
        BY <3>1 DEF MoveDataField, Running
      <4> QED BY <4>1, MoveFieldKeeps DEF ScannedAt
    <3> QED BY <3>1
  <2> QED BY <1>3, <2>1, <2>2, MoveRootKeeps, RootsDoneKeeps, NextRefKeeps, RefsDoneKeeps,
             NextDataKeeps, DataDoneKeeps, LoopRefsKeeps, LoopEndKeeps, FinishKeeps DEF Collect
<1>4. CASE Halted
  BY <1>1, <1>4 DEF Halted
<1> QED BY <1>1, <1>2, <1>3, <1>4 DEF Next

LEMMA IInvHolds == Spec => []IInv
BY InitHolds, NextKeeps, PTL DEF Spec

(* copying_gc, gen_gc and gen_gc_partial leave a heap the program can work on
   and the next collection can walk: elements tile it on both sides of the
   free space, every pointer and every root leads to the start of one, and no
   old element points to a young one. *)
LEMMA RestIsOk == IInv => HeapOk
<1> SUFFICES ASSUME IInv PROVE HeapOk
  OBVIOUS
<1> SUFFICES ASSUME Running
             PROVE  /\ \A x \in Starts(heap) : isDataElement(heap[x]) /\ Words(heap, x) \subseteq Addr
                    /\ \A x, y \in Starts(heap) : x # y => Words(heap, x) \cap Words(heap, y) = {}
                    /\ \A x \in Starts(heap) : Points(heap, x) \subseteq Starts(heap)
                    /\ \A r \in RootList : root[r] \in Starts(heap) \cup {Data}
                    /\ NoGaps /\ GenerationsOk
  BY DEF HeapOk, IInv
<1>1. AtRest /\ InOrder /\ Shape(heap)
  BY Resting
<1>2. \A x \in Starts(heap) : /\ x \in Nat /\ heap[x].len \in Nat /\ x + heap[x].len < Limit
                              /\ \/ x < NextFree /\ x + heap[x].len < NextFree
                                 \/ EndOfHeap <= x
  BY <1>1, StartsApart
<1>3. \A x, y \in Starts(heap) : x < y => x + heap[x].len < y
  BY <1>1, StartsApart
<1>4. ASSUME NEW x \in Starts(heap) PROVE Words(heap, x) \subseteq Addr \ (NextFree .. EndOfHeap - 1)
  <2>1. ASSUME NEW w \in Words(heap, x) PROVE w \in Addr /\ w \notin NextFree .. EndOfHeap - 1
    <3>1. w \in x .. x + heap[x].len
      BY <2>1 DEF Words
    <3>2. w \in 0 .. Limit - 1
      BY <1>2, <3>1, Resting
    <3>3. w \notin NextFree .. EndOfHeap - 1
      BY <1>2, <3>1, Resting
    <3> QED BY <3>2, <3>3, Limits
  <2> QED BY <2>1
<1>5. ASSUME NEW x \in Starts(heap), NEW y \in Starts(heap), x # y
      PROVE  Words(heap, x) \cap Words(heap, y) = {}
  <2>1. x < y \/ y < x
    BY <1>2, <1>5
  <2>2. x + heap[x].len < y \/ y + heap[y].len < x
    BY <1>3, <2>1
  <2> QED BY <1>2, <2>2 DEF Words
<1>6. ASSUME NEW w \in Addr, w \notin NextFree .. EndOfHeap - 1
      PROVE  \E x \in Starts(heap) : w \in Words(heap, x)
  <2>1. w \in Nat /\ w \in 0 .. Limit - 1
    BY Limits
  <2>2. w \in 0 .. NextFree - 1 \/ w \in EndOfHeap .. Limit - 1
    BY <1>6, <2>1, Resting
  <2>3. /\ \A y \in 0 .. NextFree - 1 : \E x \in 0 .. y : Begins(heap, x) /\ y <= x + heap[x].len
        /\ \A y \in EndOfHeap .. Limit - 1 :
             \E x \in EndOfHeap .. y : Begins(heap, x) /\ y <= x + heap[x].len
    BY <1>1 DEF Shape, Tiled
  <2>4. \E x \in Nat : x <= w /\ Begins(heap, x) /\ w <= x + heap[x].len
    <3>1. CASE w \in 0 .. NextFree - 1
      <4>1. PICK x \in 0 .. w : Begins(heap, x) /\ w <= x + heap[x].len
        BY <2>3, <3>1
      <4>2. x \in Nat /\ x <= w
        BY <2>1
      <4> QED BY <4>1, <4>2
    <3>2. CASE w \in EndOfHeap .. Limit - 1
      <4>1. PICK x \in EndOfHeap .. w : Begins(heap, x) /\ w <= x + heap[x].len
        BY <2>3, <3>2
      <4>2. x \in Nat /\ x <= w
        BY <2>1, Resting
      <4> QED BY <4>1, <4>2
    <3> QED BY <2>2, <3>1, <3>2
  <2>5. PICK x \in Nat : x <= w /\ Begins(heap, x) /\ w <= x + heap[x].len
    BY <2>4
  <2>6. x \in Starts(heap)
    <3>1. x \in 0 .. Limit - 1
      BY <2>1, <2>5, Resting
    <3> QED BY <2>5, <3>1, StartsAre, Limits
  <2>7. w \in Words(heap, x)
    BY <1>2, <2>1, <2>5, <2>6 DEF Words
  <2> QED BY <2>6, <2>7
<1>7. NoGaps
  <2>1. UNION {Words(heap, x) : x \in Starts(heap)} \subseteq Addr \ (NextFree .. EndOfHeap - 1)
    BY <1>4
  <2>2. Addr \ (NextFree .. EndOfHeap - 1) \subseteq UNION {Words(heap, x) : x \in Starts(heap)}
    BY <1>6
  <2> QED BY <2>1, <2>2 DEF NoGaps
<1> QED BY <1>1, <1>4, <1>5, <1>7 DEF AtRest, Lead

THEOREM HeapWellFormed == Spec => []HeapOk
BY IInvHolds, RestIsOk, PTL

(* gc_inv: during a collection the forward pointers of the old heap are a
   bijection onto the elements copied to the new one, of the same lengths. *)
THEOREM CopiedOnce == Spec => []ForwardBijection
<1>1. IInv => ForwardBijection
  <2> SUFFICES ASSUME IInv, ~Running
               PROVE  /\ \A x \in Forwarded : heap[x].to \in Copied /\ to[heap[x].to].len = heap[x].len
                      /\ \A x, y \in Forwarded : heap[x].to = heap[y].to => x = y
                      /\ \A y \in Copied : \E x \in Forwarded : heap[x].to = y
    BY DEF ForwardBijection
  <2>1. Forwards(heap, to)
    BY InGc DEF Now
  <2> QED BY <2>1 DEF Forwards, Forwarded, Copied
<1> QED BY <1>1, IInvHolds, PTL

(* The checks in gc_move, gc_move_data and gc_move_loop, which the compiled
   collector leaves out, never fail: what is left to be copied always fits in
   what is left of the new heap, and the clock does not run out. *)
THEOREM CollectorNeverFails == Spec => []CollectorOk
<1>1. IInv => CollectorOk
  <2> SUFFICES ASSUME IInv PROVE CollectorOk
    OBVIOUS
  <2>1. ok
    BY DEF IInv, InCollection
  <2>2. ASSUME phase \in {"roots", "loop", "refs", "data"} PROVE Cardinality(LeftWords(heap, Kinds)) <= n
    <3>1. ~Running
      BY <2>2 DEF Running
    <3> QED BY <3>1, InGc DEF Now, Room
  <2>3. {y \in Left(heap) : heap[y].kind \in Kinds} = {x \in Addr : ~Outside(x) /\ isDataElement(heap[x])}
    BY DEF Left, isDataElement, Kinds
  <2>4. RoomForTheRest
    BY <2>2, <2>3 DEF RoomForTheRest, LeftWords
  <2> QED BY <2>1, <2>4 DEF CollectorOk
<1> QED BY <1>1, IInvHolds, PTL

------------------------------------------------------------------------------
(***************************************************************************)
(* The registers move as in HeapSpace.  A collection is a minor one if the *)
(* registers, which it leaves alone until it ends, say it can be.          *)
(***************************************************************************)
Choice == ~Running => (partial <=> CanDoPartial(AllocSize))

\* What a step of a collection leaves alone, but for the last one.
StillRegisters == UNCHANGED <<registers, AllocSize, space, partial>> /\ ~Running /\ ~Running'

LEMMA CollectStill == Collect => Finish \/ StillRegisters
<1>1. MoveRoot => StillRegisters
  BY DEF MoveRoot, StillRegisters, Running
<1>2. RootsDone => StillRegisters
  BY DEF RootsDone, StillRegisters, Running
<1>3. MoveRefField \/ MoveDataField => StillRegisters
  BY Zenon DEF MoveRefField, MoveDataField, MoveField, StillRegisters, Running
<1>4. NextRef \/ NextData => StillRegisters
  BY DEF NextRef, NextData, NextElement, StillRegisters, Running
<1>5. RefsDone \/ DataDone => StillRegisters
  BY DEF RefsDone, DataDone, Round, StillRegisters, Running
<1>6. LoopRefs \/ LoopEnd => StillRegisters
  BY DEF LoopRefs, LoopEnd, StillRegisters, Running
<1> QED BY <1>1, <1>2, <1>3, <1>4, <1>5, <1>6 DEF Collect

LEMMA StartsAsChosen ==
  ASSUME NEW alloc, CallCollector(alloc), UNCHANGED registers
  PROVE  AllocSize' = alloc /\ phase' = "roots" /\ Choice'
<1>1. AllocSize' = alloc /\ phase' = "roots"
  BY DEF CallCollector
<1>2. CanDoPartial(AllocSize)' <=> CanDoPartial(alloc)
  BY <1>1 DEF CanDoPartial, registers
<1>3. partial' = TRUE <=> CanDoPartial(alloc)
  BY DEF CallCollector, StartMinor, StartMajor
<1>4. partial' \in BOOLEAN
  BY DEF CallCollector, StartMinor, StartMajor
<1> QED BY <1>1, <1>2, <1>3, <1>4 DEF Choice

LEMMA ChoiceHolds == Spec => []Choice
<1>1. Init => Choice
  BY DEF Init, Choice, Running
<1>2. Choice /\ [Next]_vars => Choice'
  <2> SUFFICES ASSUME Choice, [Next]_vars PROVE Choice'
    OBVIOUS
  <2>1. Running' => Choice'
    BY DEF Choice
  <2>2. CASE UNCHANGED vars
    BY <2>2 DEF Choice, Running, CanDoPartial, vars, registers, collector
  <2>3. CASE Program
    <3>1. ASSUME NEW k \in Requests, NEW names \in SUBSET RootList, MakeSpace(k, names) PROVE Choice'
      <4>1. CASE CallCollector(k)
        BY <3>1, <4>1, StartsAsChosen DEF MakeSpace
      <4>2. CASE UNCHANGED collector
        <5>1. Running'
          BY <3>1, <4>2 DEF MakeSpace, collector, Running
        <5> QED BY <2>1, <5>1
      <4> QED BY <3>1, <4>1, <4>2 DEF MakeSpace
    <3>2. ASSUME NEW names \in SUBSET RootList, ConfigGC(names) PROVE Choice'
      BY <3>2, StartsAsChosen DEF ConfigGC
    <3>3. ASSUME phase = "run", UNCHANGED collector PROVE Choice'
      <4>1. Running'
        BY <3>3 DEF collector, Running
      <4> QED BY <2>1, <4>1
    <3>4. ASSUME NEW r \in RootList, NEW ptrs \in PtrLists, Cons(r, ptrs) \/ Ref(r, ptrs)
          PROVE  Choice'
      BY <3>3, <3>4 DEF Cons, Ref, AllocateLeft, Allocate
    <3>5. ASSUME NEW r \in RootList, NEW len \in RawLens, Box(r, len) PROVE Choice'
      BY <3>3, <3>5 DEF Box, AllocateLeft, Allocate
    <3>6. ASSUME NEW r, NEW j, NEW v, Update(r, j, v) \/ El(r, v, j) \/ Move(r, v) PROVE Choice'
      BY <3>3, <3>6 DEF Update, El, Move
    <3> QED BY <2>3, <3>1, <3>2, <3>4, <3>5, <3>6 DEF Program
  <2>4. CASE Collect
    <3>1. Finish => Running'
      BY DEF Finish, Running
    <3>2. StillRegisters => Choice'
      BY DEF StillRegisters, Choice, CanDoPartial, registers
    <3> QED BY <2>1, <2>4, <3>1, <3>2, CollectStill
  <2>5. CASE Halted
    BY <2>2, <2>5 DEF Halted
  <2> QED BY <2>2, <2>3, <2>4, <2>5 DEF Next
<1> QED BY <1>1, <1>2, PTL DEF Spec

LEMMA SpaceStutters ==
  ASSUME UNCHANGED <<registers, AllocSize, space>>, phase' = phase \/ (~Running /\ ~Running')
  PROVE  UNCHANGED Space!vars
BY DEF Space!vars, registers, Running

\* Asking for words.
LEMMA SpaceAsks ==
  ASSUME IInv, phase = "run", NEW k \in Nat, UNCHANGED registers,
         \/ TriggerGC - NextFree < k /\ AllocSize' = k /\ phase' = "roots" /\ UNCHANGED space
         \/ ~(TriggerGC - NextFree < k) /\ space' = k /\ UNCHANGED <<AllocSize, phase>>
  PROVE  Space!Ask(k)
BY DEF Space!Ask

LEMMA SpaceMakeSpace ==
  ASSUME IInv, NEW k \in Requests, NEW names \in SUBSET RootList, MakeSpace(k, names)
  PROVE  Space!MakeSpace(k)
<1>1. k \in Nat /\ k < Dimword
  BY KindAssumption, DimwordAssumption
<1>2. k * 1 = k
  BY <1>1
<1>3. Space!MakeSpaceBytes(k) = k
  BY <1>1, <1>2 DEF Space!MakeSpaceBytes
<1>4. phase = "run" /\ UNCHANGED registers
  BY DEF MakeSpace
<1>5. \/ TriggerGC - NextFree < k /\ AllocSize' = k /\ phase' = "roots" /\ UNCHANGED space
      \/ ~(TriggerGC - NextFree < k) /\ space' = k /\ UNCHANGED <<AllocSize, phase>>
  BY DEF MakeSpace, CallCollector, collector
<1>6. Space!Ask(k)
  BY <1>1, <1>4, <1>5, SpaceAsks
<1> QED BY <1>3, <1>4, <1>6 DEF Space!MakeSpace, Space!registers, registers

LEMMA SpaceConfigGC ==
  ASSUME NEW names \in SUBSET RootList, ConfigGC(names)
  PROVE  Space!ConfigGC
BY DEF ConfigGC, CallCollector, registers, Space!ConfigGC, Space!registers

LEMMA SpaceConsume ==
  ASSUME IInv, NEW r, NEW x, NEW e \in Element, Allocate(r, x, e)
  PROVE  el_length(e) \in 1 .. Limit /\ el_length(e) * 1 = el_length(e)
         /\ Space!Consume(el_length(e))
<1>1. el_length(e) \in Nat /\ 1 <= el_length(e)
  BY DEF Element, el_length
<1>2. phase = "run" /\ el_length(e) <= space /\ space' = space - el_length(e)
      /\ AllocSize' = AllocSize /\ phase' = phase
  BY DEF Allocate, collector
<1>3. el_length(e) <= Limit
  BY <1>1, <1>2, Resting DEF Running
<1>4. el_length(e) * 1 = el_length(e)
  BY <1>1
<1> QED BY <1>1, <1>2, <1>3, <1>4, Resting DEF Running, Space!Consume

LEMMA SpaceCons ==
  ASSUME IInv, NEW r, NEW e \in Element, AllocateLeft(r, e)
  PROVE  \E k \in 1 .. Limit : Space!Cons(k)
<1>1. el_length(e) \in 1 .. Limit /\ el_length(e) * 1 = el_length(e)
      /\ Space!Consume(el_length(e))
  BY SpaceConsume DEF AllocateLeft
<1>2. Space!Cons(el_length(e))
  BY <1>1 DEF AllocateLeft, Space!Cons, Space!BumpLeft
<1> QED BY <1>1, <1>2

LEMMA SpaceRef ==
  ASSUME IInv, NEW r \in RootList, NEW ptrs \in PtrLists, Ref(r, ptrs)
  PROVE  \E k \in 1 .. Limit : Space!Ref(k)
<1>1. PICK e : e = DataElement("ref", ptrs, Len(ptrs), FreshId)
  OBVIOUS
<1>2. /\ Allocate(r, EndOfHeap - el_length(e), e)
      /\ TriggerGC' = TriggerGC - el_length(e)
      /\ EndOfHeap' = EndOfHeap - el_length(e)
      /\ UNCHANGED <<gc_kind, NextFree, GenStart>>
  BY <1>1 DEF Ref
<1>3. e \in Element
  BY <1>1, <1>2, FilledElement DEF Allocate, Running
<1>4. el_length(e) \in 1 .. Limit /\ el_length(e) * 1 = el_length(e)
      /\ Space!Consume(el_length(e))
  BY <1>2, <1>3, SpaceConsume
<1>5. Space!Ref(el_length(e))
  BY <1>2, <1>4 DEF Space!Ref, Space!BumpRight
<1> QED BY <1>4, <1>5

\* new_trig reads the same in both modules: the room is never all of memory.
LEMMA SpaceTrigger ==
  ASSUME NEW room \in Nat, room <= Limit, NEW alloc \in Nat
  PROVE  Space!NewTrigger(room, alloc) = new_trig(room, alloc)
<1>1. alloc % 1 = 0
  OBVIOUS
<1>2. CASE GenSizes = <<>>
  <2>1. GenSize = Limit + 1 /\ Space!GenSize = Dimword - 1
    BY <1>2 DEF GenSize, Space!GenSize
  <2> QED BY <1>1, <2>1, Limits, DimwordAssumption DEF new_trig, Space!NewTrigger
<1>3. CASE GenSizes # <<>>
  <2>1. PICK g \in Nat : g = GenSizes[1]
    <3>1. GenSizes \in Seq(Nat) /\ Len(GenSizes) \in Nat /\ Len(GenSizes) # 0
      BY <1>3, KindAssumption, EmptySeq, LenProperties
    <3>2. 1 \in 1 .. Len(GenSizes)
      BY <3>1
    <3> QED BY <3>1, <3>2, ElementOfSeq
  <2>2. GenSize = g /\ 1 * g = g
    BY <1>3, <2>1 DEF GenSize
  <2>3. Space!GenSize = IF g < Dimword THEN g ELSE Dimword - 1
    BY <1>3, <2>1, <2>2 DEF Space!GenSize
  <2> QED BY <1>1, <2>2, <2>3, Limits, DimwordAssumption DEF new_trig, Space!NewTrigger
<1> QED BY <1>2, <1>3

LEMMA SpaceFinish ==
  ASSUME IInv, Choice, Finish
  PROVE  Space!Gc
<1>1. /\ phase = "done" /\ ~Running /\ NextFree' = a
      /\ IF gc_kind = "Simple"
         THEN TriggerGC' = Limit /\ EndOfHeap' = Limit /\ GenStart' = GenStart
         ELSE /\ GenStart' = a
              /\ EndOfHeap' = IF partial THEN EndOfHeap ELSE a + n
              /\ TriggerGC' = a + new_trig(EndOfHeap' - a, AllocSize)
      /\ IF ~partial /\ TriggerGC' - a < AllocSize
         THEN phase' = "halt" /\ UNCHANGED space
         ELSE phase' = "run" /\ space' = AllocSize
      /\ gc_kind' = gc_kind /\ AllocSize' = AllocSize
  BY DEF Finish, Running
<1>2. Now /\ AllocSize \in Nat /\ gc_kind \in {"Simple", "Generational"}
  BY <1>1, InGc, KindAssumption DEF IInv, TypeOK, InOrder
<1>3. /\ Limit \in Nat /\ a \in Nat /\ n \in Nat /\ a + n \in Nat /\ a <= a + n /\ a + n <= Limit
      /\ NextFree \in Nat /\ EndOfHeap \in Nat /\ GenStart \in Nat
      /\ (partial => GenStart <= a /\ a + n = EndOfHeap)
      /\ EndOfHeap <= Limit
  BY <1>2, NowNumbers
<1>4. PICK b \in Nat : b = a + n /\ a <= b /\ b <= Limit /\ b - a = n
  BY <1>3
<1>5. a \in Space!Address /\ b \in Space!Address
  <2>1. a % 1 = 0 /\ b % 1 = 0
    BY <1>3, <1>4
  <2>2. a \in 0 .. Limit /\ b \in 0 .. Limit
    BY <1>3, <1>4
  <2> QED BY <2>1, <2>2 DEF Space!Address, Space!Offset
<1>6. /\ gc_kind = "Simple" => a <= NextFree + (Limit - EndOfHeap)
      /\ gc_kind = "Generational" => a <= NextFree /\ EndOfHeap <= b
  BY <1>2, <1>4, WordsInUse
<1>7. partial <=> CanDoPartial(AllocSize)
  BY <1>1 DEF Choice
<1>8. CASE gc_kind = "Simple"
  <2>1. ~partial
    BY <1>7, <1>8 DEF CanDoPartial
  <2>2. IF Limit - a < AllocSize THEN phase' = "halt" /\ UNCHANGED space
        ELSE phase' = "run" /\ space' = AllocSize
    BY <1>1, <1>8, <2>1
  <2>3. Space!ReturnOrHalt(Limit - a)
    BY <2>2 DEF Space!ReturnOrHalt, Space!Return
  <2>4. Space!GcSimple(a)
    BY <1>1, <1>6, <1>8, <2>3 DEF Space!GcSimple
  <2> QED BY <1>5, <2>4 DEF Space!Gc
<1>9. CASE gc_kind = "Generational"
  <2>1. partial <=> Space!CanDoPartial
    BY <1>7, <1>9 DEF CanDoPartial, Space!CanDoPartial
  <2>2. PICK t \in Nat : t = new_trig(n, AllocSize) /\ t <= n
    BY <1>2, <1>3, NewTrigger
  <2>3. Space!NewTrigger(n, AllocSize) = t
    <3>1. n <= Limit
      BY <1>3, <1>4
    <3> QED BY <1>2, <1>3, <2>2, <3>1, SpaceTrigger
  <2>4. EndOfHeap' = b /\ GenStart' = a
    BY <1>1, <1>3, <1>4, <1>9
  <2>5. TriggerGC' = a + t
    BY <1>1, <1>4, <1>9, <2>2, <2>4
  <2>6. CASE partial
    <3>1. b = EndOfHeap
      BY <1>3, <1>4, <2>6
    <3>2. a \in GenStart .. NextFree
      BY <1>3, <1>6, <1>9, <2>6
    <3>3. Space!NewTrigger(EndOfHeap - a, AllocSize) = t
      BY <1>4, <2>3, <3>1
    <3>4. Space!Return
      BY <1>1, <2>6 DEF Space!Return
    <3>5. Space!GcPartial(a)
      BY <1>1, <1>9, <2>1, <2>4, <2>5, <2>6, <3>1, <3>2, <3>3, <3>4 DEF Space!GcPartial
    <3> QED BY <1>5, <3>5 DEF Space!Gc
  <2>7. CASE ~partial
    <3>1. TriggerGC' - a = t
      BY <1>3, <2>2, <2>5
    <3>2. Space!ReturnOrHalt(t)
      BY <1>1, <2>7, <3>1 DEF Space!ReturnOrHalt, Space!Return
    <3>3. Space!NewTrigger(b - a, AllocSize) = t
      BY <1>4, <2>3
    <3>4. Space!GcFull(a, b)
      BY <1>1, <1>6, <1>9, <2>1, <2>4, <2>5, <2>7, <3>2, <3>3 DEF Space!GcFull
    <3> QED BY <1>5, <3>4 DEF Space!Gc
  <2> QED BY <2>6, <2>7
<1> QED BY <1>2, <1>8, <1>9

LEMMA SpaceInit == Init => Space!Init
BY DEF Init, Space!Init

LEMMA SpaceStep == IInv /\ Choice /\ [Next]_vars => [Space!Next]_(Space!vars)
<1> SUFFICES ASSUME IInv, Choice, [Next]_vars PROVE Space!Next \/ UNCHANGED Space!vars
  OBVIOUS
<1>1. CASE UNCHANGED vars
  BY <1>1, SpaceStutters DEF vars, collector
<1>2. CASE Program
  <2>1. ASSUME NEW k \in Requests, NEW names \in SUBSET RootList, MakeSpace(k, names)
        PROVE  Space!Next
    BY <2>1, SpaceMakeSpace DEF Space!Next
  <2>2. ASSUME NEW names \in SUBSET RootList, ConfigGC(names) PROVE Space!Next
    BY <2>2, SpaceConfigGC DEF Space!Next
  <2>3. ASSUME NEW r \in RootList, NEW ptrs \in PtrLists, Cons(r, ptrs) PROVE Space!Next
    <3>1. PICK e : e = DataElement("data", ptrs, Len(ptrs), FreshId)
      OBVIOUS
    <3>2. AllocateLeft(r, e) /\ Running
      BY <2>3, <3>1 DEF Cons, AllocateLeft, Allocate, Running
    <3>3. e \in Element
      BY <3>1, <3>2, FilledElement
    <3> QED BY <3>2, <3>3, SpaceCons DEF Space!Next
  <2>4. ASSUME NEW r \in RootList, NEW ptrs \in PtrLists, Ref(r, ptrs) PROVE Space!Next
    BY <2>4, SpaceRef DEF Space!Next
  <2>5. ASSUME NEW r \in RootList, NEW len \in RawLens, Box(r, len) PROVE Space!Next
    <3>1. PICK e : e = DataElement("data", <<>>, len, FreshId)
      OBVIOUS
    <3>2. AllocateLeft(r, e)
      BY <2>5, <3>1 DEF Box
    <3>3. e \in Element
      BY <3>1, BoxElement
    <3> QED BY <3>2, <3>3, SpaceCons DEF Space!Next
  <2>6. ASSUME NEW r, NEW j, NEW v, Update(r, j, v) \/ El(r, v, j) \/ Move(r, v)
        PROVE  UNCHANGED Space!vars
    <3>1. UNCHANGED <<registers, AllocSize, space>> /\ phase' = phase
      BY <2>6 DEF Update, El, Move, collector
    <3> QED BY <3>1, SpaceStutters
  <2> QED BY <1>2, <2>1, <2>2, <2>3, <2>4, <2>5, <2>6 DEF Program
<1>3. CASE Collect
  <2>1. StillRegisters => UNCHANGED Space!vars
    BY SpaceStutters DEF StillRegisters
  <2>2. Finish => Space!Next
    BY SpaceFinish DEF Space!Next
  <2> QED BY <1>3, <2>1, <2>2, CollectStill
<1>4. CASE Halted
  BY <1>1, <1>4 DEF Halted
<1> QED BY <1>1, <1>2, <1>3, <1>4 DEF Next

(* What stack_alloc's registers do around a collection is what HeapSpace,
   which knows nothing of objects, allows: at either end it leaves no more
   words in use than there were, minor exactly when can_do_partial held, and
   it sets the trigger, returns or halts by the room that is left. *)
THEOREM ImplementsHeapSpace == Spec => ImplementsSpace
<1>1. Spec => Space!Init /\ [][Space!Next]_(Space!vars)
  BY SpaceInit, SpaceStep, IInvHolds, ChoiceHolds, PTL DEF Spec
<1> QED BY <1>1 DEF ImplementsSpace

------------------------------------------------------------------------------
(***************************************************************************)
(* What a collection keeps.  Any set that holds the roots moved so far     *)
(* and, in a minor collection, the references, and that the pointers moved *)
(* so far do not lead out of, holds all that was copied.                   *)
(***************************************************************************)
MovedRoots == {root[r] : r \in {s \in RootList : RootMoved(s)}} \ {Data}
References == IF partial THEN {x \in Starts(to) : EndOfHeap <= x} ELSE {}
Encloses(X) ==
  \A x \in X : x \in Starts(to) =>
    \A j \in 1 .. Len(to[x].ptrs) : Scanned(x, j) /\ to[x].ptrs[j] # Data => to[x].ptrs[j] \in X
Traced ==
  ~Running =>
    \A X \in SUBSET Addr :
      MovedRoots \subseteq X /\ References \subseteq X /\ Encloses(X) => Kept \subseteq X

LEMMA ScanTraces ==
  ASSUME IInv, Traced, Bookkeeping
  PROVE  Traced'
<1>1. ~Running
  BY DEF Bookkeeping, RootsDone, NextRef, RefsDone, NextData, DataDone, LoopRefs, LoopEnd, Running
<1>2. UNCHANGED <<root, registers, to, partial>>
  BY DEF Bookkeeping, RootsDone, NextRef, RefsDone, NextData, DataDone, LoopRefs, LoopEnd, NextElement
<1>3. Kept' = Kept /\ References' = References /\ Starts(to)' = Starts(to)
  BY <1>2 DEF Kept, References, Starts, Outside, registers
<1>4. MovedRoots \subseteq MovedRoots'
  <2>1. ASSUME NEW r \in RootList, RootMoved(r), ~Running' PROVE RootMoved(r)'
    <3>1. phase' = "roots" => phase = "roots" /\ i' = i
      BY DEF Bookkeeping, RootsDone, NextRef, RefsDone, Round, NextData, DataDone, LoopRefs,
         LoopEnd, NextElement
    <3> QED BY <2>1, <3>1 DEF RootMoved, Collecting
  <2>2. ~Running'
    BY DEF Bookkeeping, RootsDone, NextRef, RefsDone, Round, NextData, DataDone, LoopRefs,
       LoopEnd, NextElement, Running
  <2> QED BY <1>2, <2>1, <2>2 DEF MovedRoots
<1>5. ASSUME NEW X, Encloses(X)' PROVE Encloses(X)
  <2>1. ASSUME NEW x \in X, x \in Starts(to), NEW j \in 1 .. Len(to[x].ptrs),
               Scanned(x, j), to[x].ptrs[j] # Data
        PROVE  to[x].ptrs[j] \in X
    <3>1. Scanned(x, j)'
      BY <2>1, ScannedSame
    <3> QED BY <1>2, <1>3, <1>5, <2>1, <3>1 DEF Encloses
  <2> QED BY <2>1 DEF Encloses
<1>6. ASSUME NEW X \in SUBSET Addr, MovedRoots' \subseteq X, References' \subseteq X, Encloses(X)'
      PROVE  Kept' \subseteq X
  BY <1>1, <1>3, <1>4, <1>5, <1>6 DEF Traced
<1> QED BY <1>6 DEF Traced

(* Whatever gc_move copies is held by any set that holds what it answers. *)
LEMMA KeptGrows ==
  ASSUME Now, NEW m, Result(m), Starts(to)' = Starts(m.to), UNCHANGED <<registers, partial>>
  PROVE  /\ Kept \subseteq Kept'
         /\ \A z \in Kept' : z \in Kept \/ (z = m.val /\ z # Data)
         /\ References \subseteq References'
<1>1. \A z : Outside(z)' <=> Outside(z)
  BY DEF Outside, registers
<1>2. Starts(to) \subseteq Starts(to)' /\ \A z \in Starts(to)' : z \in Starts(to) \/ z = m.val
  BY DEF Result
<1>3. \A z \in Starts(to)' : z # Data
  BY StartsAre, Limits DEF Data
<1>4. \A z \in Kept' : z \in Starts(to)' /\ ~Outside(z)
  BY <1>1 DEF Kept
<1>5. \A z \in Starts(to) : ~Outside(z) => z \in Kept
  BY DEF Kept
<1>6. Kept \subseteq Kept'
  BY <1>1, <1>2 DEF Kept
<1>7. References \subseteq References'
  BY <1>2 DEF References, registers
<1> QED BY <1>2, <1>3, <1>4, <1>5, <1>6, <1>7

LEMMA MoveRootTraces ==
  ASSUME IInv, Traced, MoveRoot
  PROVE  Traced'
<1>1. phase = "roots" /\ i <= NRoots /\ ~Running
  BY DEF MoveRoot, Running
<1>2. Now /\ Roots /\ TypeOK
  BY <1>1, InGc DEF IInv
<1>3. PICK m : m = gc_move(root[i])
  OBVIOUS
<1>4. /\ to' = m.to /\ root' = [root EXCEPT ![i] = m.val] /\ i' = i + 1
      /\ UNCHANGED <<registers, phase, partial, h1, r3, r2, r1>>
  BY <1>3 DEF MoveRoot
<1>5. i \in RootList /\ i \in Nat /\ root \in [RootList -> Val]
  BY <1>1, <1>2, NowNumbers, ShapeAssumption DEF RootList, TypeOK
<1>6. Result(m)
  <2>1. root[i] = Data \/ root[i] \in Starts(heap)
    BY <1>1, <1>2, <1>5 DEF Roots
  <2> QED BY <1>2, <1>3, <2>1, MoveOne
<1>7. Starts(to)' = Starts(m.to)
  BY <1>4 DEF Starts
<1>8. /\ \A z \in Kept' : z \in Kept \/ (z = m.val /\ z # Data)
      /\ References \subseteq References'
  BY <1>2, <1>4, <1>6, <1>7, KeptGrows
<1>9. \A r \in RootList : r \in Nat
  BY ShapeAssumption DEF RootList
<1>10. Collecting /\ Collecting'
  BY <1>1, <1>4 DEF Collecting, Running
<1>11. \A r \in RootList : RootMoved(r) => RootMoved(r)' /\ root'[r] = root[r]
  <2>1. ASSUME NEW r \in RootList, RootMoved(r) PROVE RootMoved(r)' /\ root'[r] = root[r]
    <3>1. r < i
      BY <1>1, <2>1 DEF RootMoved
    <3>2. r < i + 1 /\ r # i
      BY <1>5, <1>9, <3>1
    <3>3. root'[r] = root[r]
      BY <1>4, <1>5, <3>2
    <3> QED BY <1>4, <1>10, <3>2, <3>3 DEF RootMoved
  <2> QED BY <2>1
<1>12. MovedRoots \subseteq MovedRoots'
  BY <1>11 DEF MovedRoots
<1>13. PICK k \in RootList : k = i
  BY <1>5
<1>14. m.val # Data => m.val \in MovedRoots'
  <2>1. RootMoved(k)'
    BY <1>4, <1>5, <1>10, <1>13 DEF RootMoved
  <2>2. root'[k] = m.val
    BY <1>4, <1>5, <1>13
  <2> QED BY <2>1, <2>2 DEF MovedRoots
<1>15. ASSUME NEW X, Encloses(X)' PROVE Encloses(X)
  <2>1. ASSUME NEW x \in X, x \in Starts(to), NEW j \in 1 .. Len(to[x].ptrs),
               Scanned(x, j), to[x].ptrs[j] # Data
        PROVE  to[x].ptrs[j] \in X
    <3>1. Scanned(x, j)'
      BY <1>1, <1>4, <2>1 DEF Scanned
    <3>2. x \in Starts(to)' /\ to'[x] = to[x]
      BY <1>4, <1>6, <1>7, <2>1 DEF Result
    <3> QED BY <1>15, <2>1, <3>1, <3>2 DEF Encloses
  <2> QED BY <2>1 DEF Encloses
<1>16. ASSUME NEW X \in SUBSET Addr, MovedRoots' \subseteq X, References' \subseteq X, Encloses(X)'
       PROVE  Kept' \subseteq X
  <2>1. Kept \subseteq X
    BY <1>1, <1>8, <1>12, <1>15, <1>16 DEF Traced
  <2> QED BY <1>8, <1>14, <1>16, <2>1
<1> QED BY <1>16 DEF Traced

LEMMA MoveFieldTraces ==
  ASSUME IInv, Traced, ~Running, NEW x, ScannedAt(x), MoveField(x)
  PROVE  Traced'
<1>1. Now
  BY InGc
<1>2. PICK m : FieldStep(x, m)
  BY FieldSteps
<1>3. UNCHANGED <<root, registers, phase, partial>> /\ i' = i + 1
  BY DEF MoveField
<1>4. Result(m) /\ Starts(to)' = Starts(m.to)
  BY <1>2 DEF FieldStep
<1>5. /\ \A z \in Kept' : z \in Kept \/ (z = m.val /\ z # Data)
      /\ References \subseteq References'
  BY <1>1, <1>3, <1>4, KeptGrows
<1>6. /\ x \in Starts(to) /\ x \in Addr /\ i \in Nat /\ i \in 1 .. Len(to[x].ptrs)
      /\ m.to[x] = to[x] /\ x \in Starts(to)'
  BY Zenon, <1>1, <1>2, <1>4, NowNumbers, StartsAre DEF FieldStep, Result
<1>7. MovedRoots' = MovedRoots
  <2>1. phase # "roots" /\ Running' = Running
    BY <1>3 DEF ScannedAt, Running
  <2>2. \A r : RootMoved(r)' <=> RootMoved(r)
    BY <1>3, <2>1 DEF RootMoved, Collecting
  <2> QED BY <1>3, <2>2 DEF MovedRoots
<1>8. ASSUME NEW X, Encloses(X)' PROVE Encloses(X)
  <2>1. ASSUME NEW y \in X, y \in Starts(to), NEW j \in 1 .. Len(to[y].ptrs),
               Scanned(y, j), to[y].ptrs[j] # Data
        PROVE  to[y].ptrs[j] \in X
    <3>1. y \in Addr /\ j \in Nat /\ y \in Starts(to)' /\ m.to[y] = to[y]
      BY <1>4, <2>1, StartsAre DEF Result
    <3>2. CASE y = x
      <4>1. j \in 1 .. Len(to[x].ptrs) /\ Scanned(x, j) /\ to[x].ptrs[j] # Data /\ x \in X
        BY <2>1, <3>2
      <4>2. \A k \in Nat : (Scanned(x, k)' <=> k < i + 1) /\ (Scanned(x, k) <=> k < i)
        BY <1>2 DEF FieldStep
      <4>3. j < i /\ j # i /\ j < i + 1
        BY SMTT(30), <1>6, <3>1, <4>1, <4>2
      <4>4. Len(to'[x].ptrs) = Len(to[x].ptrs)
            /\ \A k \in 1 .. Len(to[x].ptrs) :
                 to'[x].ptrs[k] = IF k = i THEN m.val ELSE to[x].ptrs[k]
        BY <1>2 DEF FieldStep
      <4>5. to'[x].ptrs[j] = to[x].ptrs[j] /\ Scanned(x, j)'
        BY <3>1, <4>1, <4>2, <4>3, <4>4
      <4>6. to'[x].ptrs[j] \in X
        BY <1>6, <1>8, <4>1, <4>4, <4>5 DEF Encloses
      <4> QED BY <3>2, <4>5, <4>6
    <3>3. CASE y # x
      <4>1. to'[y] = to[y] /\ Scanned(y, j)'
        BY <1>2, <2>1, <3>1, <3>3 DEF FieldStep
      <4> QED BY SMTT(30), <1>8, <2>1, <3>1, <4>1 DEF Encloses
    <3> QED BY <3>2, <3>3
  <2> QED BY <2>1 DEF Encloses
<1>9. Outside(x) => x \in References
  <2>1. CASE phase = "data" /\ x = h1
    BY <1>1, <1>6, <2>1, NowNumbers DEF Outside, References
  <2>2. CASE phase = "refs" /\ x = r2
    BY <1>1, <1>6, <2>2, NowNumbers DEF Outside, References
  <2> QED BY <2>1, <2>2 DEF ScannedAt
<1>10. ASSUME NEW X \in SUBSET Addr, MovedRoots' \subseteq X, References' \subseteq X, Encloses(X)'
       PROVE  Kept' \subseteq X
  <2>1. Kept \subseteq X
    BY <1>5, <1>7, <1>8, <1>10 DEF Traced
  <2>2. x \in X
    BY <1>5, <1>6, <1>9, <1>10, <2>1 DEF Kept
  <2>3. PICK k \in Nat : k = i /\ k < i + 1
    BY <1>6
  <2>4. Len(to'[x].ptrs) = Len(to[x].ptrs) /\ to'[x].ptrs[k] = m.val /\ Scanned(x, k)'
    BY <1>2, <1>6, <2>3 DEF FieldStep
  <2>5. m.val # Data => m.val \in X
    BY <1>6, <1>10, <2>2, <2>3, <2>4 DEF Encloses
  <2> QED BY <1>5, <2>1, <2>5
<1> QED BY <1>10 DEF Traced

\* When a collection begins nothing has been kept, nor any root moved.
LEMMA BeginTraces ==
  ASSUME NEW alloc, CallCollector(alloc), UNCHANGED registers
  PROVE  Traced'
<1>1. CASE StartMinor
  <2>1. \A x \in Starts(to)' : Outside(x)'
    <3>1. to' = [x \in Addr |-> IF x < GenStart \/ EndOfHeap <= x THEN heap[x] ELSE Unused]
      BY <1>1 DEF StartMinor
    <3>2. ASSUME NEW x \in Starts(to') PROVE x < GenStart \/ EndOfHeap <= x
      <4>1. x \in Addr /\ to'[x].kind # "unused"
        BY DEF Starts
      <4> QED BY <3>1, <4>1 DEF Unused
    <3>3. partial' = TRUE
      BY <1>1 DEF StartMinor
    <3> QED BY <3>2, <3>3 DEF Starts, Outside, registers
  <2> QED BY <2>1 DEF Traced, Kept
<1>2. CASE StartMajor
  <2>1. Starts(to') = {}
    BY <1>2 DEF StartMajor, Starts, Unused
  <2> QED BY <2>1 DEF Traced, Kept, Starts
<1> QED BY <1>1, <1>2 DEF CallCollector

LEMMA TracedHolds == Spec => []Traced
<1>1. Init => Traced
  BY DEF Init, Traced, Running
<1>2. IInv /\ Traced /\ [Next]_vars => Traced'
  <2> SUFFICES ASSUME IInv, Traced, [Next]_vars PROVE Traced'
    OBVIOUS
  <2>1. Running' => Traced'
    BY DEF Traced
  <2>2. CASE UNCHANGED vars
    <3>1. UNCHANGED <<root, registers, collector>>
      BY <2>2 DEF vars
    <3>2. UNCHANGED <<to, phase, partial, a, h1, r3, r2, r1, i, GenStart, EndOfHeap>>
      BY <3>1 DEF registers, collector
    <3>3. Kept' = Kept /\ References' = References /\ Starts(to)' = Starts(to) /\ Running' = Running
      BY <3>2 DEF Kept, References, Starts, Outside, Running
    <3>4. MovedRoots' = MovedRoots
      BY <3>1, <3>2, <3>3 DEF MovedRoots, RootMoved, Collecting
    <3>5. \A X : Encloses(X)' <=> Encloses(X)
      BY <3>2, <3>3 DEF Encloses, Scanned
    <3> QED BY <3>3, <3>4, <3>5 DEF Traced
  <2>3. CASE Program
    <3>1. ASSUME NEW k \in Requests, NEW names \in SUBSET RootList, MakeSpace(k, names) PROVE Traced'
      <4>1. CASE CallCollector(k)
        BY <3>1, <4>1, BeginTraces DEF MakeSpace
      <4>2. CASE UNCHANGED collector
        <5>1. Running'
          BY <3>1, <4>2 DEF MakeSpace, collector, Running
        <5> QED BY <2>1, <5>1
      <4> QED BY <3>1, <4>1, <4>2 DEF MakeSpace
    <3>2. ASSUME NEW names \in SUBSET RootList, ConfigGC(names) PROVE Traced'
      BY <3>2, BeginTraces DEF ConfigGC
    <3>3. ASSUME phase = "run", UNCHANGED collector PROVE Traced'
      <4>1. Running'
        BY <3>3 DEF collector, Running
      <4> QED BY <2>1, <4>1
    <3>4. ASSUME NEW r \in RootList, NEW ptrs \in PtrLists, Cons(r, ptrs) \/ Ref(r, ptrs)
          PROVE  Traced'
      BY <3>3, <3>4 DEF Cons, Ref, AllocateLeft, Allocate
    <3>5. ASSUME NEW r \in RootList, NEW len \in RawLens, Box(r, len) PROVE Traced'
      BY <3>3, <3>5 DEF Box, AllocateLeft, Allocate
    <3>6. ASSUME NEW r, NEW j, NEW v, Update(r, j, v) \/ El(r, v, j) \/ Move(r, v) PROVE Traced'
      BY <3>3, <3>6 DEF Update, El, Move
    <3> QED BY <2>3, <3>1, <3>2, <3>4, <3>5, <3>6 DEF Program
  <2>4. CASE Collect
    <3>1. MoveRefField => Traced'
      <4>1. ASSUME MoveRefField PROVE Traced'
        <5>1. phase = "refs" /\ r2 < r1 /\ MoveField(r2) /\ ~Running
          BY <4>1 DEF MoveRefField, Running
        <5> QED BY <5>1, MoveFieldTraces DEF ScannedAt
      <4> QED BY <4>1
    <3>2. MoveDataField => Traced'
      <4>1. ASSUME MoveDataField PROVE Traced'
        <5>1. phase = "data" /\ h1 < a /\ MoveField(h1) /\ ~Running
          BY <4>1 DEF MoveDataField, Running
        <5> QED BY <5>1, MoveFieldTraces DEF ScannedAt
      <4> QED BY <4>1
    <3>3. Finish => Running'
      BY DEF Finish, Running
    <3> QED BY <2>1, <2>4, <3>1, <3>2, <3>3, MoveRootTraces, ScanTraces DEF Collect, Bookkeeping
  <2>5. CASE Halted
    BY <2>2, <2>5 DEF Halted
  <2> QED BY <2>2, <2>3, <2>4, <2>5 DEF Next
<1> QED BY <1>1, <1>2, IInvHolds, PTL DEF Spec

------------------------------------------------------------------------------
(***************************************************************************)
(* Closures.  on adds to a set what its members lead to; a recursion that  *)
(* goes on until nothing is added has a solution, and ends with the least  *)
(* set that holds the first one and that nothing leads out of.             *)
(***************************************************************************)
LessOnNat == {xy \in Nat \X Nat : xy[1] < xy[2]}

LEMMA Least ==
  ASSUME NEW S \in SUBSET Nat, S # {}
  PROVE  \E x \in S : \A y \in S : x <= y
<1>1. OpToRel(<, Nat) = LessOnNat
  BY DEF OpToRel, LessOnNat
<1>2. IsWellFoundedOn(LessOnNat, Nat)
  BY <1>1, NatLessThanWellFounded
<1>3. PICK x \in S : \A y \in S : ~ (<<y, x>> \in LessOnNat)
  BY <1>2, WFMin
<1>4. ASSUME NEW y \in S PROVE x <= y
  <2>1. <<y, x>> \notin LessOnNat /\ x \in Nat /\ y \in Nat
    BY <1>3
  <2>2. ~(y < x)
    BY <2>1 DEF LessOnNat
  <2> QED BY <2>1, <2>2
<1> QED BY <1>4

Grows(S, on) ==
  /\ IsFiniteSet(S) /\ on \in [SUBSET S -> SUBSET S]
  /\ \A X \in SUBSET S : X \subseteq on[X]
  /\ \A X, Z \in SUBSET S : X \subseteq Z => on[X] \subseteq on[Z]
Recurs(S, on, fin, G) ==
  G = [X \in SUBSET S |-> IF on[X] = X THEN fin[X] ELSE G[on[X]]]
Around(S, on, X) == {Z \in SUBSET S : X \subseteq Z /\ on[Z] = Z}

LEMMA ClosureExists ==
  ASSUME NEW S, NEW on, Grows(S, on), NEW fin
  PROVE  \E G : Recurs(S, on, fin, G)
<1> DEFINE C(X) == {y \in S : \A Z \in Around(S, on, X) : y \in Z}
           F == [X \in SUBSET S |-> fin[C(X)]]
<1>1. ASSUME NEW X \in SUBSET S PROVE F[X] = IF on[X] = X THEN fin[X] ELSE F[on[X]]
  <2>1. F[X] = fin[C(X)] /\ on[X] \in SUBSET S
    BY DEF Grows
  <2>2. CASE on[X] = X
    <3>1. X \in Around(S, on, X)
      BY <2>2 DEF Around
    <3>2. C(X) = X
      BY <3>1 DEF Around
    <3> QED BY <2>1, <2>2, <3>2
  <2>3. CASE on[X] # X
    <3>1. Around(S, on, on[X]) = Around(S, on, X)
      BY <2>1 DEF Around, Grows
    <3>2. C(on[X]) = C(X)
      BY <3>1
    <3>3. F[on[X]] = fin[C(on[X])]
      BY <2>1
    <3> QED BY <2>1, <2>3, <3>2, <3>3
  <2> QED BY <2>2, <2>3
<1>2. PICK G : G = F
  OBVIOUS
<1>3. G = [X \in SUBSET S |-> IF on[X] = X THEN fin[X] ELSE G[on[X]]]
  <2>1. G = [X \in SUBSET S |-> G[X]]
    BY <1>2
  <2>2. \A X \in SUBSET S : G[X] = IF on[X] = X THEN fin[X] ELSE G[on[X]]
    BY <1>1, <1>2
  <2> HIDE DEF F
  <2> QED BY <2>1, <2>2
<1> HIDE DEF F
<1> QED BY <1>3 DEF Recurs

LEMMA Closure ==
  ASSUME NEW S, NEW on, Grows(S, on), NEW fin,
         NEW G, Recurs(S, on, fin, G),
         NEW R \in SUBSET S
  PROVE  \E C \in SUBSET S :
           /\ R \subseteq C /\ on[C] = C /\ G[R] = fin[C]
           /\ \A Z \in Around(S, on, R) : C \subseteq Z
<1> DEFINE Good(X) == \E C \in SUBSET S :
                        /\ X \subseteq C /\ on[C] = C /\ G[X] = fin[C]
                        /\ \A Z \in Around(S, on, X) : C \subseteq Z
           Size(X) == Cardinality(S) - Cardinality(X)
           Bad == {X \in SUBSET S : ~Good(X)}
<1>1. \A X \in SUBSET S : G[X] = IF on[X] = X THEN fin[X] ELSE G[on[X]]
  BY DEF Recurs
<1>2. IsFiniteSet(S) /\ Cardinality(S) \in Nat
  BY FS_CardinalityType DEF Grows
<1>3. ASSUME NEW X \in SUBSET S
      PROVE  /\ Cardinality(X) \in Nat /\ Size(X) \in Nat
             /\ on[X] \in SUBSET S /\ X \subseteq on[X]
  BY <1>2, FS_Subset, FS_CardinalityType DEF Grows
<1>4. ASSUME NEW X \in SUBSET S, on[X] # X PROVE Size(on[X]) < Size(X)
  <2>1. IsFiniteSet(on[X])
    BY <1>2, <1>3, FS_Subset
  <2>2. Cardinality(X) < Cardinality(on[X])
    BY <1>3, <1>4, <2>1, FS_Subset
  <2> QED BY <1>2, <1>3, <2>2
<1>5. ASSUME NEW X \in SUBSET S, on[X] = X PROVE Good(X)
  BY <1>1, <1>5 DEF Around
<1>6. ASSUME NEW X \in SUBSET S, on[X] # X, Good(on[X]) PROVE Good(X)
  <2>1. PICK C \in SUBSET S : /\ on[X] \subseteq C /\ on[C] = C /\ G[on[X]] = fin[C]
                              /\ \A Z \in Around(S, on, on[X]) : C \subseteq Z
    BY <1>6
  <2>2. X \subseteq C /\ G[X] = fin[C]
    BY <1>1, <1>3, <1>6, <2>1
  <2>3. Around(S, on, X) \subseteq Around(S, on, on[X])
    BY <1>3 DEF Around, Grows
  <2> QED BY <2>1, <2>2, <2>3
<1> HIDE DEF Good
<1>7. ASSUME Bad # {} PROVE FALSE
  <2>1. {Size(X) : X \in Bad} \in SUBSET Nat /\ {Size(X) : X \in Bad} # {}
    BY <1>3, <1>7
  <2>2. PICK k \in {Size(X) : X \in Bad} : \A l \in {Size(X) : X \in Bad} : k <= l
    BY <2>1, Least
  <2>3. PICK X \in Bad : \A Y \in Bad : Size(X) <= Size(Y)
    <3> HIDE DEF Bad, Size
    <3> QED BY <2>2
  <2>4. on[X] \in SUBSET S /\ on[X] # X
    BY <1>3, <1>5
  <2>5. ~(Size(X) <= Size(on[X]))
    BY <1>3, <1>4, <2>4
  <2>6. Good(on[X])
    BY <2>3, <2>4, <2>5
  <2> QED BY <1>6, <2>4, <2>6
<1>8. Good(R)
  BY <1>7
<1> QED BY <1>8 DEF Good

LEMMA OnwardIn ==
  ASSUME to \in Heaps, NEW X \in SUBSET Addr
  PROVE  Onward(X) \in SUBSET Addr /\ X \subseteq Onward(X)
<1>1. ASSUME NEW x \in X PROVE Points(to, x) \subseteq Addr
  <2>1. to[x].ptrs \in Seq(Val)
    BY ElementFacts
  <2>2. \A j \in 1 .. Len(to[x].ptrs) : to[x].ptrs[j] \in Val
    BY <2>1, ElementOfSeq
  <2> QED BY <2>2 DEF Points, Val
<1> QED BY <1>1 DEF Onward

LEMMA SeenFromCloses ==
  ASSUME to \in Heaps, NEW R \in SUBSET Addr
  PROVE  /\ SeenFrom[R] \in SUBSET Addr /\ R \subseteq SeenFrom[R]
         /\ \A x \in SeenFrom[R] : Points(to, x) \subseteq SeenFrom[R]
<1>1. PICK on : on = [X \in SUBSET Addr |-> Onward(X)]
  OBVIOUS
<1>2. PICK fin : fin = [X \in SUBSET Addr |-> X]
  OBVIOUS
<1>3. Grows(Addr, on)
  <2>1. IsFiniteSet(Addr)
    BY Limits, FS_Interval DEF Addr
  <2>2. \A X, Z \in SUBSET Addr : X \subseteq Z => Onward(X) \subseteq Onward(Z)
    BY DEF Onward
  <2> QED BY <1>1, <2>1, <2>2, OnwardIn DEF Grows
<1>4. ASSUME NEW G
      PROVE  Recurs(Addr, on, fin, G)
             <=> G = [X \in SUBSET Addr |-> IF Onward(X) = X THEN X ELSE G[Onward(X)]]
  BY <1>1, <1>2 DEF Recurs
<1>5. PICK G : Recurs(Addr, on, fin, G)
  BY <1>3, ClosureExists
<1>6. SeenFrom = [X \in SUBSET Addr |-> IF Onward(X) = X THEN X ELSE SeenFrom[Onward(X)]]
  <2>1. G = [X \in SUBSET Addr |-> IF Onward(X) = X THEN X ELSE G[Onward(X)]]
    BY <1>4, <1>5
  <2> QED BY <2>1, Zenon DEF SeenFrom
<1>7. PICK S : S = SeenFrom
  OBVIOUS
<1>8. Recurs(Addr, on, fin, S)
  <2>1. S = [X \in SUBSET Addr |-> IF Onward(X) = X THEN X ELSE S[Onward(X)]]
    BY <1>6, <1>7, Zenon
  <2> QED BY <1>4, <2>1
<1>9. PICK C \in SUBSET Addr : R \subseteq C /\ on[C] = C /\ S[R] = fin[C]
  BY <1>3, <1>8, Closure
<1>10. SeenFrom[R] = C
  BY <1>2, <1>7, <1>9, Zenon
<1>11. \A x \in C : Points(to, x) \subseteq C
  <2>1. Onward(C) = C
    BY <1>1, <1>9
  <2> QED BY <2>1 DEF Onward
<1> QED BY <1>9, <1>10, <1>11, Zenon

(* A major collection leaves only what can be reached from the roots, and a
   minor one only what can be reached from the roots and the references. *)
THEOREM NoGarbageKept == Spec => []CollectsGarbage
<1>1. IInv /\ Traced => CollectsGarbage
  <2> SUFFICES ASSUME IInv, Traced, phase = "done" PROVE CollectsGarbage
    BY DEF CollectsGarbage
  <2>1. ~Running /\ Now /\ to \in Heaps /\ TypeOK
    <3>1. ~Running
      BY DEF Running
    <3> QED BY <3>1, InGc, NowNumbers DEF IInv
  <2>2. PICK R : R = Pointers \cup References
    OBVIOUS
  <2>3. R \in SUBSET Addr
    <3>1. Pointers \subseteq Addr
      BY <2>1 DEF Pointers, TypeOK, Val
    <3>2. References \subseteq Addr
      BY DEF References, Starts
    <3> QED BY <2>2, <3>1, <3>2
  <2>4. PICK S : S = SeenFrom[R]
    OBVIOUS
  <2>5. S \in SUBSET Addr /\ R \subseteq S /\ \A x \in S : Points(to, x) \subseteq S
    BY <2>1, <2>3, <2>4, SeenFromCloses
  <2>6. MovedRoots \subseteq S /\ References \subseteq S
    BY <2>2, <2>5 DEF MovedRoots, Pointers
  <2>7. Encloses(S)
    BY <2>5 DEF Encloses, Points
  <2>8. Kept \subseteq S
    BY <2>1, <2>5, <2>6, <2>7 DEF Traced
  <2> QED BY <2>2, <2>4, <2>8 DEF CollectsGarbage, References
<1> QED BY <1>1, IInvHolds, TracedHolds, PTL

------------------------------------------------------------------------------
(***************************************************************************)
(* The store of dataLang.  Homes are the places of elements: the starts of *)
(* the heap or, during a collection, of the new heap and of what is left   *)
(* to be copied in the old one.                                            *)
(***************************************************************************)
Homes ==
  IF Collecting THEN Left(heap) \cup {New(x) : x \in Starts(to)} ELSE Starts(heap)
PointerAt(l, j) == j \in 1 .. Len(At(l).ptrs) /\ At(l).ptrs[j] # Data
RootHere(r) == r \in RootList /\ root[r] # Data

\* Every element has an identity of its own.
Named ==
  /\ \A l \in Homes : At(l).id \in Id
  /\ \A l, k \in Homes : At(l).id = At(k).id => l = k

LEMMA PlacesAre ==
  /\ \A x \in Addr : x \in Places /\ New(x) \in Places /\ x < Limit /\ ~(New(x) < Limit)
                     /\ New(x) - Limit = x /\ At(x) = heap[x] /\ At(New(x)) = to[x]
  /\ \A x, y \in Addr : (New(x) = New(y) <=> x = y) /\ New(x) # y
BY Limits DEF Places, New, At

LEMMA HomesAre ==
  ASSUME IInv
  PROVE  /\ Homes \subseteq Places /\ Left(heap) \subseteq Addr
         /\ Starts(heap) \subseteq Addr /\ Starts(to) \subseteq Addr
         /\ heap \in Heaps /\ to \in Heaps
         /\ Collecting => Now /\ FieldsLead /\ Roots
         /\ \A l \in Homes : At(l) \in Element /\ At(l).ptrs \in Seq(Val) /\ Len(At(l).ptrs) \in Nat
                             /\ isDataElement(At(l))
<1>1. /\ Left(heap) \subseteq Addr /\ Starts(heap) \subseteq Addr /\ Starts(to) \subseteq Addr
      /\ heap \in Heaps /\ to \in Heaps
  BY DEF Left, Starts, IInv, TypeOK, Heaps
<1>2. Collecting => Now /\ FieldsLead /\ Roots
  BY InGc DEF Collecting
<1>3. Homes \subseteq Places
  BY <1>1, PlacesAre DEF Homes
<1>4. ASSUME NEW l \in Homes
      PROVE  At(l) \in Element /\ isDataElement(At(l))
  <2>1. CASE Collecting /\ l \in Left(heap)
    BY <1>1, <2>1, PlacesAre, ElementFacts DEF Left
  <2>2. CASE Collecting /\ l \in {New(x) : x \in Starts(to)}
    <3>1. PICK x \in Starts(to) : l = New(x)
      BY <2>2
    <3> QED BY <1>1, <1>2, <2>2, <3>1, PlacesAre, ElementFacts DEF Now, Built
  <2>3. CASE ~Collecting
    <3>1. l \in Starts(heap) /\ Running
      BY <2>3 DEF Homes, Collecting
    <3> QED BY <1>1, <3>1, PlacesAre, ElementFacts, Resting DEF AtRest
  <2> QED BY <2>1, <2>2, <2>3 DEF Homes
<1>5. ASSUME NEW l \in Homes PROVE At(l).ptrs \in Seq(Val) /\ Len(At(l).ptrs) \in Nat
  <2>1. At(l).ptrs \in Seq(Val)
    BY <1>4 DEF Element
  <2> QED BY <2>1, LenProperties
<1> QED BY <1>1, <1>2, <1>3, <1>4, <1>5

\* A pointer of the new heap has been moved if a scan has passed it.
LEMMA MovedIsScanned ==
  ASSUME Now, NEW x \in Starts(to), NEW j \in Nat, 1 <= j
  PROVE  FieldMoved(x, j) <=> Scanned(x, j)
<1>1. x \in Nat
  BY StartsAre, Limits
<1>2. h1 = a /\ phase = "data" => i = 1
  BY DEF Now, Positions
<1>3. r2 = r1 \/ r2 < r1
  BY NowNumbers
<1>4. h1 = a \/ h1 < a
  BY NowNumbers
<1>5. ~(j < 1)
  OBVIOUS
<1> QED BY <1>1, <1>2, <1>3, <1>4, <1>5, NowNumbers DEF FieldMoved, Scanned

\* A pointer to an element of the old heap is read as leading to its home.
LEMMA SeenIsHome ==
  ASSUME IInv, NEW p \in Starts(heap)
  PROVE  Seen(p) \in Homes
<1>1. p \in Addr
  BY HomesAre
<1>2. CASE ~Collecting
  BY <1>2 DEF Seen, Homes
<1>3. CASE Collecting /\ Outside(p)
  <2>1. p \in Starts(to)
    BY <1>1, <1>3, HomesAre DEF Now, Forwards
  <2> QED BY <1>3, <2>1 DEF Seen, Homes
<1>4. CASE Collecting /\ ~Outside(p) /\ heap[p].kind = "fwd"
  <2>1. heap[p].to \in Starts(to)
    BY <1>1, <1>4, HomesAre DEF Now, Forwards
  <2> QED BY <1>4, <2>1 DEF Seen, Homes
<1>5. CASE Collecting /\ ~Outside(p) /\ heap[p].kind # "fwd"
  <2>1. heap[p].kind \in {"unused", "data", "ref", "fwd"} /\ heap[p].kind # "unused"
    BY <1>1, HomesAre DEF Heaps, Element, Starts
  <2>2. p \in Left(heap)
    BY <1>1, <1>5, <2>1 DEF Left, isDataElement
  <2> QED BY <1>5, <2>2 DEF Seen, Homes
<1> QED BY <1>2, <1>3, <1>4, <1>5

LEMMA HomesLead ==
  ASSUME IInv
  PROVE  /\ \A r : RootHere(r) => RootAt(r) \in Homes
         /\ \A l \in Homes : \A j : PointerAt(l, j) => Field(l, j) \in Homes
<1>1. ASSUME NEW r, RootHere(r) PROVE RootAt(r) \in Homes
  <2>1. r \in RootList /\ root[r] # Data
    BY <1>1 DEF RootHere
  <2>2. CASE ~Collecting
    <3>1. root[r] \in Starts(heap)
      BY <2>1, <2>2, Resting DEF AtRest, Collecting
    <3> QED BY <2>2, <3>1, SeenIsHome DEF RootAt, RootMoved
  <2>3. CASE Collecting
    <3>1. root[r] \in IF phase = "roots" /\ i <= r THEN Starts(heap) ELSE Starts(to)
      BY <2>1, <2>3, HomesAre DEF Roots
    <3>2. i <= r <=> ~(r < i)
      BY <2>1, <2>3, HomesAre, NowNumbers, ShapeAssumption DEF RootList
    <3>3. CASE RootMoved(r)
      BY <2>3, <3>1, <3>2, <3>3 DEF RootMoved, RootAt, Homes
    <3>4. CASE ~RootMoved(r)
      BY <2>3, <3>1, <3>2, <3>4, SeenIsHome DEF RootMoved, RootAt
    <3> QED BY <3>3, <3>4
  <2> QED BY <2>2, <2>3
<1>2. ASSUME NEW l \in Homes, NEW j, PointerAt(l, j) PROVE Field(l, j) \in Homes
  <2>1. j \in 1 .. Len(At(l).ptrs) /\ At(l).ptrs[j] # Data /\ j \in Nat /\ 1 <= j
    BY <1>2, HomesAre DEF PointerAt
  <2>2. CASE ~Collecting
    <3>1. l \in Starts(heap) /\ l \in Addr /\ Running
      BY <2>2, HomesAre DEF Homes, Collecting
    <3>2. At(l) = heap[l] /\ l < Limit
      BY <3>1, PlacesAre
    <3>3. heap[l].ptrs[j] \in Starts(heap)
      BY <2>1, <3>1, <3>2, Resting DEF AtRest, Lead, Points
    <3>4. ~(l >= Limit)
      BY <3>1, Limits
    <3> QED BY <3>2, <3>3, <3>4, SeenIsHome DEF Field
  <2>3. CASE Collecting /\ l \in Left(heap)
    <3>1. l \in Addr /\ At(l) = heap[l] /\ ~(l >= Limit)
      BY <2>3, HomesAre, PlacesAre, Limits
    <3>2. heap[l].ptrs[j] \in Starts(heap)
      BY <2>1, <2>3, <3>1, HomesAre, StartsAre DEF Left, Now, Old, Lead, Points
    <3> QED BY <3>1, <3>2, SeenIsHome DEF Field
  <2>4. CASE Collecting /\ l \in {New(x) : x \in Starts(to)}
    <3>1. PICK x \in Starts(to) : l = New(x)
      BY <2>4
    <3>2. x \in Addr /\ At(l) = to[x] /\ l >= Limit /\ l - Limit = x
      BY <3>1, HomesAre, PlacesAre, Limits DEF New
    <3>3. to[x].ptrs[j] \in IF Scanned(x, j) THEN Starts(to) ELSE Starts(heap)
      BY <2>1, <2>4, <3>2, HomesAre DEF FieldsLead
    <3>4. FieldMoved(x, j) <=> Scanned(x, j)
      BY <2>1, <2>4, HomesAre, MovedIsScanned
    <3>5. CASE FieldMoved(x, j)
      BY <2>4, <3>2, <3>3, <3>4, <3>5 DEF Field, Homes
    <3>6. CASE ~FieldMoved(x, j)
      BY <3>2, <3>3, <3>4, <3>6, SeenIsHome DEF Field
    <3> QED BY <3>5, <3>6
  <2> QED BY <2>2, <2>3, <2>4 DEF Homes
<1> QED BY <1>1, <1>2

(***************************************************************************)
(* The places the program can reach: the least set that the roots lead to  *)
(* and that no pointer leads out of.                                       *)
(***************************************************************************)
RootsIn(Z) == \A r : RootHere(r) => RootAt(r) \in Z
FieldsIn(C, Z) == \A l \in C : l \in Z => \A j : PointerAt(l, j) => Field(l, j) \in Z
AliveIn(C) ==
  /\ C \subseteq Homes /\ RootsIn(C) /\ FieldsIn(C, C)
  /\ \A Z : RootsIn(Z) /\ FieldsIn(C, Z) => C \subseteq Z
  /\ objects = ObjectsAt(C)

LEMMA PlacesOnIn ==
  ASSUME IInv, NEW L \in SUBSET Places
  PROVE  PlacesOn(L) \in SUBSET Places /\ L \subseteq PlacesOn(L)
<1>1. ASSUME NEW p \in Addr PROVE Seen(p) \in Places
  <2>1. CASE Collecting /\ ~Outside(p) /\ heap[p].kind = "fwd"
    <3>1. heap[p].to \in Addr
      BY <2>1, HomesAre DEF Now, Forwards
    <3> QED BY <2>1, <3>1, PlacesAre DEF Seen
  <2> QED BY <2>1, PlacesAre DEF Seen
<1>2. ASSUME NEW l \in Places PROVE At(l) \in Element
  <2>1. CASE l < Limit
    <3>1. l \in Addr
      BY <2>1, Limits DEF Places
    <3> QED BY <2>1, <3>1, HomesAre, ElementFacts DEF At
  <2>2. CASE ~(l < Limit)
    <3>1. l - Limit \in Addr
      BY <2>2, Limits DEF Places
    <3> QED BY <2>2, <3>1, HomesAre, ElementFacts DEF At
  <2> QED BY <2>1, <2>2
<1>3. ASSUME NEW l \in Places PROVE FieldsOf(l) \subseteq Places
  <2>1. ASSUME NEW j \in 1 .. Len(At(l).ptrs), At(l).ptrs[j] # Data PROVE Field(l, j) \in Places
    <3>1. At(l).ptrs \in Seq(Val)
      BY <1>2 DEF Element
    <3>2. At(l).ptrs[j] \in Val
      BY <3>1, ElementOfSeq
    <3>3. At(l).ptrs[j] \in Addr
      BY <2>1, <3>2 DEF Val
    <3> QED BY <1>1, <3>3, PlacesAre DEF Field
  <2> QED BY <2>1 DEF FieldsOf
<1> QED BY <1>3 DEF PlacesOn

LEMMA SomeAlive ==
  ASSUME IInv
  PROVE  \E C : AliveIn(C)
<1>1. PICK on : on = [L \in SUBSET Places |-> PlacesOn(L)]
  OBVIOUS
<1>2. PICK fin : fin = [L \in SUBSET Places |-> ObjectsAt(L)]
  OBVIOUS
<1>3. Grows(Places, on)
  <2>1. IsFiniteSet(Places)
    <3>1. 2 * Limit - 1 \in Int
      BY Limits
    <3> QED BY <3>1, FS_Interval DEF Places
  <2>2. \A X, Z \in SUBSET Places : X \subseteq Z => PlacesOn(X) \subseteq PlacesOn(Z)
    BY DEF PlacesOn
  <2> QED BY <1>1, <2>1, <2>2, PlacesOnIn DEF Grows
<1>4. ASSUME NEW G
      PROVE  Recurs(Places, on, fin, G)
             <=> G = [L \in SUBSET Places |->
                       IF PlacesOn(L) = L THEN ObjectsAt(L) ELSE G[PlacesOn(L)]]
  BY <1>1, <1>2 DEF Recurs
<1>5. PICK G : Recurs(Places, on, fin, G)
  BY <1>3, ClosureExists
<1>6. ObjectsFrom = [L \in SUBSET Places |->
                      IF PlacesOn(L) = L THEN ObjectsAt(L) ELSE ObjectsFrom[PlacesOn(L)]]
  <2>1. G = [L \in SUBSET Places |->
              IF PlacesOn(L) = L THEN ObjectsAt(L) ELSE G[PlacesOn(L)]]
    BY <1>4, <1>5
  <2> QED BY <2>1, Zenon DEF ObjectsFrom
<1>7. PICK S : S = ObjectsFrom
  OBVIOUS
<1>8. Recurs(Places, on, fin, S)
  <2>1. S = [L \in SUBSET Places |->
              IF PlacesOn(L) = L THEN ObjectsAt(L) ELSE S[PlacesOn(L)]]
    BY <1>6, <1>7, Zenon
  <2> QED BY <1>4, <2>1
<1>9. PICK R : R = {RootAt(r) : r \in {s \in RootList : root[s] # Data}}
  OBVIOUS
<1>10. R \subseteq Homes /\ R \in SUBSET Places
  BY <1>9, HomesAre, HomesLead DEF RootHere
<1>11. PICK C \in SUBSET Places : /\ R \subseteq C /\ on[C] = C /\ S[R] = fin[C]
                                  /\ \A Z \in Around(Places, on, R) : C \subseteq Z
  BY <1>3, <1>8, <1>10, Closure
<1>12. objects = ObjectsAt(C)
  <2>1. objects = S[R]
    BY <1>7, <1>9, Zenon DEF objects
  <2> QED BY <1>2, <1>11, <2>1
<1>13. \A l, j : PointerAt(l, j) => Field(l, j) \in FieldsOf(l)
  BY DEF PointerAt, FieldsOf
<1>14. \A Z : RootsIn(Z) <=> R \subseteq Z
  BY <1>9 DEF RootsIn, RootHere
<1>15. \A l \in C : FieldsOf(l) \subseteq C
  <2>1. PlacesOn(C) = C
    BY <1>1, <1>11
  <2> QED BY <2>1 DEF PlacesOn
<1>16. ASSUME NEW Z, RootsIn(Z), FieldsIn(C, Z) PROVE C \subseteq Z
  <2>1. PICK X : X = Z \cap C
    OBVIOUS
  <2>2. \A l \in X : FieldsOf(l) \subseteq X
    <3>1. \A l \in X : FieldsOf(l) \subseteq Z
      BY <1>16, <2>1 DEF FieldsIn, PointerAt, FieldsOf
    <3> QED BY <1>15, <2>1, <3>1
  <2>3. X \in SUBSET Places /\ PlacesOn(X) = X
    BY <2>1, <2>2 DEF PlacesOn
  <2>4. X \in Around(Places, on, R)
    BY <1>1, <1>11, <1>14, <1>16, <2>1, <2>3 DEF Around
  <2> QED BY <1>11, <2>1, <2>4
<1>17. RootsIn(C) /\ FieldsIn(C, C)
  BY <1>11, <1>13, <1>14, <1>15 DEF FieldsIn
<1>18. C \subseteq Homes
  <2>1. RootsIn(Homes) /\ FieldsIn(C, Homes)
    BY HomesLead DEF RootsIn, FieldsIn
  <2> QED BY <1>16, <2>1
<1> QED BY <1>12, <1>16, <1>17, <1>18 DEF AliveIn

\* The store, from the places.
LEMMA ObjectsAre ==
  ASSUME IInv, Named, NEW C, AliveIn(C)
  PROVE  /\ DOMAIN objects = {At(l).id : l \in C} /\ DOMAIN objects \subseteq Id
         /\ \A l \in C : objects[At(l).id] = ObjectAt(l)
         /\ objects = [d \in DOMAIN objects |-> objects[d]]
<1>1. \A l \in C : \A k \in C : At(k).id = At(l).id => k = l
  BY DEF AliveIn, Named
<1>2. objects = [d \in {At(l).id : l \in C} |-> ObjectAt(CHOOSE l \in C : At(l).id = d)]
  BY DEF AliveIn, ObjectsAt
<1>3. PICK O : O = objects
  OBVIOUS
<1>4. O = [d \in {At(l).id : l \in C} |-> ObjectAt(CHOOSE l \in C : At(l).id = d)]
  BY <1>2, <1>3
<1>5. DOMAIN O = {At(l).id : l \in C}
  BY <1>4
<1>6. ASSUME NEW l \in C PROVE O[At(l).id] = ObjectAt(l)
  <2>1. O[At(l).id] = ObjectAt(CHOOSE k \in C : At(k).id = At(l).id)
    BY <1>4
  <2>2. (CHOOSE k \in C : At(k).id = At(l).id) = l
    BY <1>1
  <2> QED BY <2>1, <2>2
<1>7. DOMAIN O \subseteq Id
  BY <1>5 DEF AliveIn, Named
<1>8. O = [d \in DOMAIN O |-> O[d]]
  BY <1>4
<1> QED BY <1>3, <1>5, <1>6, <1>7, <1>8, Zenon

(***************************************************************************)
(* Live, of a store s none of whose objects leads out of it.               *)
(***************************************************************************)
Whole(s) == DOMAIN s \subseteq Id /\ \A d \in DOMAIN s : Store!Fields(s[d]) \subseteq DOMAIN s
NamesIn(v) == {v[r] : r \in RootList} \ {0}

LEMMA LiveIs ==
  ASSUME NEW s, Whole(s), NEW v, NamesIn(v) \subseteq DOMAIN s
  PROVE  \E D \in SUBSET DOMAIN s :
           /\ NamesIn(v) \subseteq D
           /\ \A d \in D : Store!Fields(s[d]) \subseteq D
           /\ \A Z \in SUBSET DOMAIN s :
                NamesIn(v) \subseteq Z /\ (\A d \in Z : Store!Fields(s[d]) \subseteq Z) => D \subseteq Z
           /\ Store!Live(s, v) = [d \in D |-> s[d]]
<1>1. PICK S : S = DOMAIN s
  OBVIOUS
<1>2. PICK on : on = [D \in SUBSET S |-> Store!Onward(s, D)]
  OBVIOUS
<1>3. PICK fin : fin = [D \in SUBSET S |-> D]
  OBVIOUS
<1>4. \A D \in SUBSET S : Store!Onward(s, D) \in SUBSET S /\ D \subseteq Store!Onward(s, D)
  BY <1>1 DEF Store!Onward, Whole
<1>5. Grows(S, on)
  <2>1. IsFiniteSet(S)
    <3>1. IsFiniteSet(Id)
      BY Limits, FS_Interval DEF Id
    <3> QED BY <1>1, <3>1, FS_Subset DEF Whole
  <2>2. \A X, Z \in SUBSET S : X \subseteq Z => Store!Onward(s, X) \subseteq Store!Onward(s, Z)
    BY DEF Store!Onward
  <2> QED BY <1>2, <1>4, <2>1, <2>2 DEF Grows
<1>6. ASSUME NEW G
      PROVE  Recurs(S, on, fin, G)
             <=> G = [D \in SUBSET S |->
                       IF Store!Onward(s, D) = D THEN D ELSE G[Store!Onward(s, D)]]
  BY <1>2, <1>3 DEF Recurs
<1>7. PICK F : F = [D \in SUBSET DOMAIN s |->
                     IF Store!Onward(s, D) = D THEN D ELSE F[Store!Onward(s, D)]]
  <2>1. PICK G : Recurs(S, on, fin, G)
    BY <1>5, ClosureExists
  <2>2. G = [D \in SUBSET S |->
              IF Store!Onward(s, D) = D THEN D ELSE G[Store!Onward(s, D)]]
    BY <1>6, <2>1
  <2> QED BY <1>1, <2>2, Zenon
<1>8. PICK G : /\ G = [D \in SUBSET DOMAIN s |->
                        IF Store!Onward(s, D) = D THEN D ELSE G[Store!Onward(s, D)]]
               /\ Store!Live(s, v) = [d \in G[{v[r] : r \in RootList} \ {Store!Word}] |-> s[d]]
  BY <1>7, Zenon DEF Store!Live
<1>9. Recurs(S, on, fin, G)
  <2>1. G = [D \in SUBSET S |->
              IF Store!Onward(s, D) = D THEN D ELSE G[Store!Onward(s, D)]]
    BY <1>1, <1>8, Zenon
  <2> QED BY <1>6, <2>1
<1>10. PICK R : R = NamesIn(v)
  OBVIOUS
<1>11. PICK D \in SUBSET S : /\ R \subseteq D /\ on[D] = D /\ G[R] = fin[D]
                             /\ \A Z \in Around(S, on, R) : D \subseteq Z
  BY <1>1, <1>5, <1>9, <1>10, Closure
<1>12. Store!Live(s, v) = [d \in D |-> s[d]]
  <2>1. G[R] = D
    BY <1>3, <1>11
  <2>2. {v[r] : r \in RootList} \ {Store!Word} = R
    BY <1>10 DEF NamesIn, Store!Word
  <2>3. Store!Live(s, v) = [d \in G[R] |-> s[d]]
    BY <1>8, <2>2, Zenon
  <2> QED BY <2>1, <2>3, Zenon
<1>13. \A Z \in SUBSET S : (\A d \in Z : Store!Fields(s[d]) \subseteq Z) <=> on[Z] = Z
  BY <1>2 DEF Store!Onward
<1>14. \A Z \in SUBSET S : R \subseteq Z /\ (\A d \in Z : Store!Fields(s[d]) \subseteq Z) => D \subseteq Z
  BY <1>11, <1>13 DEF Around
<1> QED BY <1>1, <1>10, <1>11, <1>12, <1>13, <1>14

\* The fields of an object are the identities its element's pointers lead to.
LEMMA FieldsNamed ==
  ASSUME IInv, NEW l \in Homes
  PROVE  /\ ObjectAt(l).kind = At(l).kind /\ ObjectAt(l).len = At(l).len
         /\ ObjectAt(l).ptrs = [j \in 1 .. Len(At(l).ptrs) |->
                                 IF At(l).ptrs[j] = Data THEN 0 ELSE At(Field(l, j)).id]
         /\ Len(ObjectAt(l).ptrs) = Len(At(l).ptrs)
         /\ \A d \in Store!Fields(ObjectAt(l)) : \E j : PointerAt(l, j) /\ d = At(Field(l, j)).id
         /\ \A j : PointerAt(l, j) /\ At(Field(l, j)).id # 0 =>
              At(Field(l, j)).id \in Store!Fields(ObjectAt(l))
<1>1. PICK k \in Nat : k = Len(At(l).ptrs)
  BY HomesAre
<1>2. PICK q : q = [j \in 1 .. k |-> IF At(l).ptrs[j] = Data THEN 0 ELSE At(Field(l, j)).id]
  OBVIOUS
<1>3. Len(q) = k
  <2>1. PICK T : T = {q[j] : j \in 1 .. k}
    OBVIOUS
  <2>2. q \in [1 .. k -> T]
    BY <1>2, <2>1
  <2>3. q \in Seq(T)
    BY <1>1, <2>2, SeqDef
  <2>4. DOMAIN q = 1 .. k /\ DOMAIN q = 1 .. Len(q) /\ Len(q) \in Nat
    BY <2>2, <2>3, LenProperties
  <2> QED BY <1>1, <2>4
<1>4. ObjectAt(l).ptrs = q /\ ObjectAt(l).kind = At(l).kind /\ ObjectAt(l).len = At(l).len
  BY <1>1, <1>2 DEF ObjectAt
<1>5. \A j : PointerAt(l, j) <=> j \in 1 .. k /\ At(l).ptrs[j] # Data
  BY <1>1 DEF PointerAt
<1>6. Store!Fields(ObjectAt(l)) = {q[j] : j \in 1 .. k} \ {0}
  BY <1>3, <1>4 DEF Store!Fields, Store!Word
<1>7. \A j \in 1 .. k : q[j] = IF At(l).ptrs[j] = Data THEN 0 ELSE At(Field(l, j)).id
  BY <1>2
<1> QED BY <1>1, <1>2, <1>3, <1>4, <1>5, <1>6, <1>7

Agrees(s) == \A d \in DOMAIN objects : d \in DOMAIN s /\ objects[d] = s[d]

\* The store has what of s the variables lead to if it has nothing else.
LEMMA KeepsStore ==
  IInv /\ Named => \A s : Whole(s) /\ Agrees(s) => objects = Store!Live(s, variables)
<1> SUFFICES ASSUME IInv, Named, NEW s, Whole(s), Agrees(s)
             PROVE  objects = Store!Live(s, variables)
  OBVIOUS
<1>1. PICK C : AliveIn(C)
  BY SomeAlive
<1>2. /\ DOMAIN objects = {At(l).id : l \in C} /\ DOMAIN objects \subseteq Id
      /\ \A l \in C : objects[At(l).id] = ObjectAt(l)
      /\ objects = [d \in DOMAIN objects |-> objects[d]]
  BY <1>1, ObjectsAre
<1>3. C \subseteq Homes /\ RootsIn(C) /\ FieldsIn(C, C)
      /\ \A Z : RootsIn(Z) /\ FieldsIn(C, Z) => C \subseteq Z
  BY <1>1 DEF AliveIn
<1>4. \A r \in RootList : variables[r] = IF root[r] = Data THEN 0 ELSE At(RootAt(r)).id
  BY DEF variables
<1>5. NamesIn(variables) \subseteq DOMAIN objects
  BY <1>2, <1>3, <1>4 DEF NamesIn, RootsIn, RootHere
<1>6. DOMAIN objects \subseteq DOMAIN s
  BY DEF Agrees
<1>7. PICK D \in SUBSET DOMAIN s :
        /\ NamesIn(variables) \subseteq D
        /\ \A d \in D : Store!Fields(s[d]) \subseteq D
        /\ \A Z \in SUBSET DOMAIN s :
             NamesIn(variables) \subseteq Z /\ (\A d \in Z : Store!Fields(s[d]) \subseteq Z) => D \subseteq Z
        /\ Store!Live(s, variables) = [d \in D |-> s[d]]
  BY <1>5, <1>6, LiveIs
<1>8. \A l \in C : s[At(l).id] = ObjectAt(l)
  BY <1>2 DEF Agrees
<1>9. D \subseteq DOMAIN objects
  <2>1. ASSUME NEW l \in C PROVE Store!Fields(s[At(l).id]) \subseteq DOMAIN objects
    <3>1. \A d \in Store!Fields(ObjectAt(l)) : \E j : PointerAt(l, j) /\ d = At(Field(l, j)).id
      BY <1>3, FieldsNamed
    <3>2. \A j : PointerAt(l, j) => Field(l, j) \in C
      BY <1>3 DEF FieldsIn
    <3> QED BY <1>2, <1>8, <3>1, <3>2
  <2>2. PICK Z : Z = DOMAIN objects
    OBVIOUS
  <2>3. \A d \in Z : Store!Fields(s[d]) \subseteq Z
    BY <1>2, <2>1, <2>2
  <2>4. Z \in SUBSET DOMAIN s /\ NamesIn(variables) \subseteq Z
    BY <1>5, <1>6, <2>2
  <2> QED BY <1>7, <2>2, <2>3, <2>4
<1>10. DOMAIN objects \subseteq D
  <2>1. PICK Z : Z = {l \in C : At(l).id \in D}
    OBVIOUS
  <2>2. \A l \in C : At(l).id # 0
    BY <1>3 DEF Named, Id
  <2>3. RootsIn(Z)
    <3>1. ASSUME NEW r, RootHere(r) PROVE RootAt(r) \in Z
      <4>1. RootAt(r) \in C /\ r \in RootList /\ root[r] # Data
        BY <1>3, <3>1 DEF RootsIn, RootHere
      <4>2. At(RootAt(r)).id \in NamesIn(variables)
        BY <1>4, <2>2, <4>1 DEF NamesIn
      <4> QED BY <1>7, <2>1, <4>1, <4>2
    <3> QED BY <3>1 DEF RootsIn
  <2>4. FieldsIn(C, Z)
    <3>1. ASSUME NEW l \in C, l \in Z, NEW j, PointerAt(l, j) PROVE Field(l, j) \in Z
      <4>1. Field(l, j) \in C
        BY <1>3, <3>1 DEF FieldsIn
      <4>2. At(Field(l, j)).id \in Store!Fields(ObjectAt(l))
        BY <1>3, <2>2, <3>1, <4>1, FieldsNamed
      <4>3. At(Field(l, j)).id \in D
        BY <1>7, <1>8, <2>1, <3>1, <4>2
      <4> QED BY <2>1, <4>1, <4>3
    <3> QED BY <3>1 DEF FieldsIn
  <2>5. C \subseteq Z
    BY <1>3, <2>3, <2>4
  <2> QED BY <1>2, <2>1, <2>5
<1>11. [d \in D |-> s[d]] = [d \in DOMAIN objects |-> objects[d]]
  <2>1. D = DOMAIN objects
    BY <1>9, <1>10
  <2> QED BY <2>1 DEF Agrees
<1> QED BY <1>2, <1>7, <1>11, Zenon

LEMMA KeepsStoreNext ==
  IInv' /\ Named' => \A s : Whole(s) /\ Agrees(s)' => objects' = Store!Live(s, variables')
<1>1. (IInv /\ Named => \A s : Whole(s) /\ Agrees(s) => objects = Store!Live(s, variables))'
  BY KeepsStore, PTL
<1> QED BY <1>1

\* The store is what s is if every place of Z, which the roots lead to and no
\* pointer leads out of, is where s has its object.
StandsFor(s, Z) ==
  /\ Whole(s) /\ RootsIn(Z) /\ FieldsIn(Z, Z)
  /\ \A l \in Z : l \in Homes => At(l).id \in DOMAIN s /\ ObjectAt(l) = s[At(l).id]

LEMMA Stands == IInv /\ Named => \A s, Z : StandsFor(s, Z) => objects = Store!Live(s, variables)
<1> SUFFICES ASSUME IInv, Named, NEW s, NEW Z, StandsFor(s, Z)
             PROVE  objects = Store!Live(s, variables)
  OBVIOUS
<1>1. PICK C : AliveIn(C)
  BY SomeAlive
<1>2. /\ DOMAIN objects = {At(l).id : l \in C}
      /\ \A l \in C : objects[At(l).id] = ObjectAt(l)
  BY <1>1, ObjectsAre
<1>3. C \subseteq Z /\ C \subseteq Homes
  <2>1. FieldsIn(C, Z)
    <3>1. FieldsIn(Z, Z)
      BY DEF StandsFor
    <3> QED BY <3>1 DEF FieldsIn
  <2> QED BY <1>1, <2>1 DEF AliveIn, StandsFor
<1>4. Agrees(s)
  BY <1>2, <1>3 DEF Agrees, StandsFor
<1> QED BY <1>4, KeepsStore DEF StandsFor

LEMMA StandsNext ==
  IInv' /\ Named' => \A s, Z : StandsFor(s, Z)' => objects' = Store!Live(s, variables')
<1>1. (IInv /\ Named => \A s, Z : StandsFor(s, Z) => objects = Store!Live(s, variables))'
  BY Stands, PTL
<1> QED BY <1>1

\* The store is whole, and all of it is alive.
LEMMA StoreIsWhole ==
  ASSUME IInv, Named
  PROVE  Whole(objects) /\ objects = Store!Live(objects, variables)
<1>1. PICK C : AliveIn(C)
  BY SomeAlive
<1>2. /\ DOMAIN objects = {At(l).id : l \in C} /\ DOMAIN objects \subseteq Id
      /\ \A l \in C : objects[At(l).id] = ObjectAt(l)
  BY <1>1, ObjectsAre
<1>3. ASSUME NEW l \in C PROVE Store!Fields(objects[At(l).id]) \subseteq DOMAIN objects
  <2>1. l \in Homes
    BY <1>1 DEF AliveIn
  <2>2. \A d \in Store!Fields(ObjectAt(l)) : \E j : PointerAt(l, j) /\ d = At(Field(l, j)).id
    BY <2>1, FieldsNamed
  <2>3. \A j : PointerAt(l, j) => Field(l, j) \in C
    BY <1>1 DEF AliveIn, FieldsIn
  <2> QED BY <1>2, <2>2, <2>3
<1>4. Whole(objects)
  BY <1>2, <1>3 DEF Whole
<1>5. Agrees(objects)
  BY DEF Agrees
<1> QED BY <1>4, <1>5, KeepsStore

(***************************************************************************)
(* A step carries the places of D to where f has them: each is a home,     *)
(* there is no other, and the element and where its pointers lead are the  *)
(* same up to f.                                                           *)
(***************************************************************************)
CarriesPlace(f, D, l) ==
  /\ At(f[l])'.id = At(l).id /\ At(f[l])'.kind = At(l).kind /\ At(f[l])'.len = At(l).len
  /\ Len(At(f[l])'.ptrs) = Len(At(l).ptrs)
  /\ \A j \in 1 .. Len(At(l).ptrs) : At(f[l])'.ptrs[j] = Data <=> At(l).ptrs[j] = Data
  /\ \A j : PointerAt(l, j) => Field(l, j) \in D /\ Field(f[l], j)' = f[Field(l, j)]
Carries(f, D) ==
  /\ D \subseteq Homes /\ \A k : k \in Homes' <=> \E l \in D : k = f[l]
  /\ \A l \in D : CarriesPlace(f, D, l)

LEMMA CarriesNames ==
  ASSUME Named, NEW f, NEW D, Carries(f, D)
  PROVE  Named'
<1>1. \A k \in Homes' : \E l \in D : k = f[l] /\ At(k)'.id = At(l).id
  BY DEF Carries, CarriesPlace
<1>2. D \subseteq Homes
  BY DEF Carries
<1>3. \A l \in D : At(l).id \in Id
  BY <1>2 DEF Named
<1>4. \A l, k \in D : At(l).id = At(k).id => l = k
  BY <1>2 DEF Named
<1>5. \A k \in Homes' : At(k)'.id \in Id
  BY <1>1, <1>3 DEF Id
<1>6. \A k, g \in Homes' : At(k)'.id = At(g)'.id => k = g
  BY <1>1, <1>4
<1>7. Id' = Id
  BY DEF Id
<1> QED BY <1>5, <1>6, <1>7 DEF Named

LEMMA SameObject ==
  ASSUME NEW f, NEW D, Carries(f, D), NEW l \in D
  PROVE  ObjectAt(f[l])' = ObjectAt(l)
<1>1. CarriesPlace(f, D, l)
  BY DEF Carries
<1>2. PICK k : k = f[l]
  OBVIOUS
<1>3. \A j \in 1 .. Len(At(l).ptrs) : At(l).ptrs[j] # Data => At(Field(k, j))'.id = At(Field(l, j)).id
  <2>1. ASSUME NEW j \in 1 .. Len(At(l).ptrs), At(l).ptrs[j] # Data
        PROVE  At(Field(k, j))'.id = At(Field(l, j)).id
    <3>1. Field(l, j) \in D /\ Field(k, j)' = f[Field(l, j)]
      BY <1>1, <1>2, <2>1 DEF CarriesPlace, PointerAt
    <3>2. PICK g : g = Field(l, j)
      OBVIOUS
    <3>3. At(f[g])'.id = At(g).id
      BY <3>1, <3>2 DEF Carries, CarriesPlace
    <3>4. PICK h : h = Field(k, j)'
      OBVIOUS
    <3>5. At(Field(k, j))' = At(h)'
      BY <3>4 DEF At
    <3> QED BY <3>1, <3>2, <3>3, <3>4, <3>5
  <2> QED BY <2>1
<1>4. ObjectAt(k)' = [kind |-> At(k)'.kind, len |-> At(k)'.len,
                      ptrs |-> [j \in 1 .. Len(At(k)'.ptrs) |->
                                 IF At(k)'.ptrs[j] = Data THEN 0 ELSE At(Field(k, j))'.id]]
  BY DEF ObjectAt, Data
<1>5. [j \in 1 .. Len(At(k)'.ptrs) |-> IF At(k)'.ptrs[j] = Data THEN 0 ELSE At(Field(k, j))'.id]
      = [j \in 1 .. Len(At(l).ptrs) |-> IF At(l).ptrs[j] = Data THEN 0 ELSE At(Field(l, j)).id]
  BY <1>1, <1>2, <1>3 DEF CarriesPlace
<1> QED BY <1>1, <1>2, <1>4, <1>5 DEF ObjectAt, CarriesPlace

\* A step that carries the store, and whose new roots were alive.
LEMMA CarriesStore ==
  ASSUME IInv, Named, IInv', NEW f, NEW D, Carries(f, D),
         \A r : RootHere(r) => RootAt(r) \in D,
         NEW C, AliveIn(C), \A r : RootHere(r)' => \E l \in C : RootAt(r)' = f[l]
  PROVE  objects' = Store!Live(objects, variables')
<1>1. PICK Z : \A k : k \in Z <=> \E l \in C : k = f[l]
  <2>1. \A k : k \in {f[l] : l \in C} <=> \E l \in C : k = f[l]
    OBVIOUS
  <2> QED BY <2>1
<1>2. C \subseteq D
  <2>1. RootsIn(D)
    BY DEF RootsIn
  <2>2. C \subseteq Homes /\ \A G : RootsIn(G) /\ FieldsIn(C, G) => C \subseteq G
    BY DEF AliveIn
  <2>3. FieldsIn(C, D)
    BY DEF FieldsIn, Carries, CarriesPlace
  <2> QED BY <2>1, <2>2, <2>3
<1>3. RootsIn(Z)'
  BY <1>1 DEF RootsIn
<1>4. ASSUME NEW k, k \in Z, NEW j, PointerAt(k, j)' PROVE Field(k, j)' \in Z
  <2>1. PICK l \in C : k = f[l]
    BY <1>1, <1>4
  <2>2. CarriesPlace(f, D, l)
    BY <1>2, <2>1 DEF Carries
  <2>3. j \in 1 .. Len(At(k)'.ptrs) /\ At(k)'.ptrs[j] # Data
    BY <1>4 DEF PointerAt, Data
  <2>4. PointerAt(l, j)
    BY <2>1, <2>2, <2>3 DEF PointerAt, CarriesPlace
  <2>5. Field(l, j) \in C
    BY <2>1, <2>4 DEF AliveIn, FieldsIn
  <2>6. Field(k, j)' = f[Field(l, j)]
    BY <2>1, <2>2, <2>4 DEF CarriesPlace
  <2> QED BY <1>1, <2>5, <2>6
<1>5. FieldsIn(Z, Z)'
  BY <1>4 DEF FieldsIn
<1>6. DOMAIN objects = {At(l).id : l \in C} /\ \A l \in C : objects[At(l).id] = ObjectAt(l)
  BY ObjectsAre
<1>7. PICK s : s = objects
  OBVIOUS
<1>8. ASSUME NEW k \in Z PROVE At(k)'.id \in DOMAIN s /\ ObjectAt(k)' = s[At(k)'.id]
  <2>1. PICK l \in C : k = f[l]
    BY <1>1
  <2>2. ObjectAt(k)' = ObjectAt(l) /\ At(k)'.id = At(l).id
    BY <1>2, <2>1, SameObject DEF Carries, CarriesPlace
  <2> QED BY <1>6, <1>7, <2>1, <2>2
<1>9. Whole(s)
  BY <1>7, StoreIsWhole
<1>10. StandsFor(s, Z)'
  <2>1. Whole(s)'
    BY <1>9 DEF Whole
  <2> QED BY <1>3, <1>5, <1>8, <2>1 DEF StandsFor
<1>11. Named'
  BY CarriesNames
<1>12. objects' = Store!Live(s, variables')
  BY <1>10, <1>11, StandsNext
<1> QED BY <1>7, <1>12

\* A step of the collector: the roots lead where they led.
CarriesRoots(f, D) ==
  \A r : /\ RootHere(r)' <=> RootHere(r)
         /\ RootHere(r) => RootAt(r) \in D /\ RootAt(r)' = f[RootAt(r)]

LEMMA NothingSeen ==
  ASSUME IInv, Named, IInv', NEW f, NEW D, Carries(f, D), CarriesRoots(f, D)
  PROVE  Named' /\ UNCHANGED <<objects, variables>>
<1>1. PICK C : AliveIn(C)
  BY SomeAlive
<1>2. \A r : RootHere(r)' => \E l \in C : RootAt(r)' = f[l]
  BY <1>1 DEF CarriesRoots, AliveIn, RootsIn
<1>3. objects' = Store!Live(objects, variables')
  BY <1>1, <1>2, CarriesStore DEF CarriesRoots
<1>4. ASSUME NEW r \in RootList
      PROVE  (IF root'[r] = Data THEN 0 ELSE At(RootAt(r))'.id) = (IF root[r] = Data THEN 0 ELSE At(RootAt(r)).id)
  <2>1. root'[r] = Data <=> root[r] = Data
    BY DEF CarriesRoots, RootHere, RootList, Data
  <2>2. ASSUME root[r] # Data PROVE At(RootAt(r))'.id = At(RootAt(r)).id
    <3>1. RootAt(r) \in D /\ RootAt(r)' = f[RootAt(r)]
      BY <2>2 DEF CarriesRoots, RootHere
    <3>2. PICK g : g = RootAt(r)
      OBVIOUS
    <3>3. At(f[g])'.id = At(g).id
      BY <3>1, <3>2 DEF Carries, CarriesPlace
    <3>4. PICK h : h = RootAt(r)'
      OBVIOUS
    <3>5. At(RootAt(r))' = At(h)'
      BY <3>4 DEF At
    <3> QED BY <3>1, <3>2, <3>3, <3>4, <3>5
  <2> QED BY <2>1, <2>2
<1>5. variables' = variables
  <2>1. variables' = [r \in RootList |-> IF root'[r] = Data THEN 0 ELSE At(RootAt(r))'.id]
    BY DEF variables, Data, RootList
  <2> QED BY <1>4, <2>1 DEF variables
<1>6. objects = Store!Live(objects, variables)
  BY StoreIsWhole
<1>7. PICK s, v : s = objects /\ v = variables
  OBVIOUS
<1> QED BY <1>3, <1>5, <1>6, <1>7, CarriesNames

(***************************************************************************)
(* What a step of the collector does to the places, in terms of the two    *)
(* heaps.                                                                  *)
(***************************************************************************)
\* Where the pointers of a home lead during a collection.
NewField(x, j) ==
  j \in 1 .. Len(to[x].ptrs) /\ to[x].ptrs[j] # Data =>
    /\ to[x].ptrs[j] \in IF Scanned(x, j) THEN Starts(to) ELSE Starts(heap)
    /\ Field(New(x), j) = IF Scanned(x, j) THEN New(to[x].ptrs[j]) ELSE Seen(to[x].ptrs[j])
OldField(l, j) ==
  j \in 1 .. Len(heap[l].ptrs) /\ heap[l].ptrs[j] # Data =>
    heap[l].ptrs[j] \in Starts(heap) /\ Field(l, j) = Seen(heap[l].ptrs[j])
FieldsAre ==
  /\ \A x \in Starts(to) : \A j : NewField(x, j)
  /\ \A l \in Left(heap) : \A j : OldField(l, j)

LEMMA FieldsOfHomes == IInv /\ Collecting => FieldsAre
<1> SUFFICES ASSUME IInv, Collecting PROVE FieldsAre
  OBVIOUS
<1>1. ASSUME NEW x \in Starts(to), NEW j PROVE NewField(x, j)
  <2> SUFFICES ASSUME j \in 1 .. Len(to[x].ptrs), to[x].ptrs[j] # Data
               PROVE  /\ to[x].ptrs[j] \in IF Scanned(x, j) THEN Starts(to) ELSE Starts(heap)
                      /\ Field(New(x), j) = IF Scanned(x, j) THEN New(to[x].ptrs[j]) ELSE Seen(to[x].ptrs[j])
    BY DEF NewField
  <2>1. x \in Addr /\ At(New(x)) = to[x] /\ New(x) >= Limit /\ New(x) - Limit = x
    BY HomesAre, PlacesAre, Limits DEF New
  <2>2. to[x].ptrs[j] \in IF Scanned(x, j) THEN Starts(to) ELSE Starts(heap)
    BY HomesAre DEF FieldsLead
  <2>3. FieldMoved(x, j) <=> Scanned(x, j)
    <3>1. j \in Nat /\ 1 <= j
      OBVIOUS
    <3> QED BY <3>1, HomesAre, MovedIsScanned
  <2> QED BY <2>1, <2>2, <2>3 DEF Field
<1>2. ASSUME NEW l \in Left(heap), NEW j PROVE OldField(l, j)
  <2> SUFFICES ASSUME j \in 1 .. Len(heap[l].ptrs), heap[l].ptrs[j] # Data
               PROVE  heap[l].ptrs[j] \in Starts(heap) /\ Field(l, j) = Seen(heap[l].ptrs[j])
    BY DEF OldField
  <2>1. l \in Addr /\ At(l) = heap[l] /\ ~(l >= Limit)
    BY HomesAre, PlacesAre, Limits
  <2>2. heap[l].ptrs[j] \in Starts(heap)
    BY <2>1, HomesAre, StartsAre DEF Left, Now, Old, Lead, Points
  <2> QED BY <2>1, <2>2 DEF Field
<1> QED BY <1>1, <1>2 DEF FieldsAre

LEMMA FieldsOfHomesNext == IInv' /\ Collecting' => FieldsAre'
<1>1. (IInv /\ Collecting => FieldsAre)'
  BY FieldsOfHomes, PTL
<1> QED BY <1>1

\* An element of the new heap stays where it is, and its pointers are moved
\* or left as they are.
StaysNew(f, x) ==
  /\ x \in Starts(to)' /\ f[New(x)] = New(x)
  /\ to'[x].id = to[x].id /\ to'[x].kind = to[x].kind /\ to'[x].len = to[x].len
  /\ Len(to'[x].ptrs) = Len(to[x].ptrs)
  /\ \A j \in 1 .. Len(to[x].ptrs) :
       \/ (Scanned(x, j)' <=> Scanned(x, j)) /\ to'[x].ptrs[j] = to[x].ptrs[j]
       \/ ~Scanned(x, j) /\ Scanned(x, j)' /\ to[x].ptrs[j] = Data /\ to'[x].ptrs[j] = Data
       \/ /\ ~Scanned(x, j) /\ Scanned(x, j)' /\ to[x].ptrs[j] # Data /\ to'[x].ptrs[j] # Data
          /\ New(to'[x].ptrs[j]) = f[Seen(to[x].ptrs[j])]

\* One of the old heap stays, or is copied as it is.
StaysOld(f, l) ==
  \/ f[l] = l /\ l \in Left(heap)' /\ heap'[l] = heap[l]
  \/ \E d \in Starts(to)' :
       f[l] = New(d) /\ to'[d] = heap[l] /\ \A j \in Nat : 1 <= j => ~Scanned(d, j)'

HeapsCarry(f) ==
  /\ \A k : k \in Homes' <=> \E l \in Homes : k = f[l]
  /\ \A p \in Starts(heap) : Seen(p)' = f[Seen(p)]
  /\ \A x \in Starts(to) : StaysNew(f, x)
  /\ \A l \in Left(heap) : StaysOld(f, l)

LEMMA HeapsCarryPlaces ==
  ASSUME IInv, IInv', Collecting, Collecting', NEW f, HeapsCarry(f)
  PROVE  Carries(f, Homes)
<1>1. FieldsAre /\ FieldsAre'
  BY FieldsOfHomes, FieldsOfHomesNext
<1>2. Starts(heap) \subseteq Addr /\ Starts(to) \subseteq Addr /\ Left(heap) \subseteq Addr
  BY HomesAre
<1>3. \A l \in Homes : \A j : PointerAt(l, j) => Field(l, j) \in Homes
  BY HomesLead
<1>4. \A x \in Addr : At(x)' = heap'[x] /\ At(New(x))' = to'[x] /\ At(x) = heap[x] /\ At(New(x)) = to[x]
  <2>1. \A x \in Addr : x < Limit /\ ~(New(x) < Limit) /\ New(x) - Limit = x
    BY PlacesAre
  <2> QED BY <2>1 DEF At
<1>5. ASSUME NEW x \in Starts(to) PROVE CarriesPlace(f, Homes, New(x))
  <2>1. StaysNew(f, x) /\ x \in Addr /\ New(x) \in Homes
    BY <1>2, <1>5 DEF HeapsCarry, Homes
  <2>2. At(New(x)) = to[x] /\ At(f[New(x)])' = to'[x] /\ f[New(x)] = New(x)
    BY <1>4, <2>1 DEF StaysNew
  <2>3. ASSUME NEW j, j \in 1 .. Len(to[x].ptrs), to[x].ptrs[j] # Data
        PROVE  to'[x].ptrs[j] # Data /\ Field(New(x), j)' = f[Field(New(x), j)]
    <3>1. /\ to[x].ptrs[j] \in IF Scanned(x, j) THEN Starts(to) ELSE Starts(heap)
          /\ Field(New(x), j) = IF Scanned(x, j) THEN New(to[x].ptrs[j]) ELSE Seen(to[x].ptrs[j])
      BY <1>1, <2>3 DEF FieldsAre, NewField
    <3>2. PICK q : q = to'[x].ptrs[j]
      OBVIOUS
    <3>3. PICK p : p = to[x].ptrs[j]
      OBVIOUS
    <3>4. q # Data => Field(New(x), j)' = IF Scanned(x, j)' THEN New(q) ELSE Seen(q)'
      <4>1. NewField(x, j)' /\ j \in 1 .. Len(to'[x].ptrs)
        BY <1>1, <2>1, <2>3 DEF FieldsAre, StaysNew
      <4>2. q # Data =>
              Field(New(x), j)' = IF Scanned(x, j)' THEN New(to[x].ptrs[j])' ELSE Seen(to[x].ptrs[j])'
        BY <3>2, <4>1 DEF NewField, Data, New
      <4>3. New(to[x].ptrs[j])' = New(q) /\ Seen(to[x].ptrs[j])' = Seen(q)'
        BY <3>2 DEF Seen, Outside, New
      <4> QED BY <4>2, <4>3
    <3>5. CASE (Scanned(x, j)' <=> Scanned(x, j)) /\ to'[x].ptrs[j] = p
      <4>1. to'[x].ptrs[j] # Data
        BY <2>3, <3>3, <3>5
      <4>2. CASE Scanned(x, j)
        <5>1. p \in Starts(to) /\ f[New(p)] = New(p)
          BY <3>1, <3>3, <4>2 DEF HeapsCarry, StaysNew
        <5> QED BY <3>1, <3>2, <3>3, <3>4, <3>5, <4>1, <4>2, <5>1
      <4>3. CASE ~Scanned(x, j)
        <5>1. p \in Starts(heap) /\ Seen(p)' = f[Seen(p)]
          BY <3>1, <3>3, <4>3 DEF HeapsCarry
        <5> QED BY <3>1, <3>2, <3>3, <3>4, <3>5, <4>1, <4>3, <5>1
      <4> QED BY <4>1, <4>2, <4>3
    <3>6. CASE ~Scanned(x, j) /\ Scanned(x, j)' /\ p # Data /\ to'[x].ptrs[j] # Data
               /\ New(to'[x].ptrs[j]) = f[Seen(p)]
      BY <3>1, <3>2, <3>3, <3>4, <3>6
    <3> QED BY <2>1, <2>3, <3>3, <3>5, <3>6 DEF StaysNew
  <2>4. \A j \in 1 .. Len(to[x].ptrs) : to[x].ptrs[j] = Data => to'[x].ptrs[j] = Data
    BY <2>1 DEF StaysNew
  <2>5. \A j : PointerAt(New(x), j) => j \in 1 .. Len(to[x].ptrs) /\ to[x].ptrs[j] # Data
    BY <2>2 DEF PointerAt
  <2> QED BY <1>3, <2>1, <2>2, <2>3, <2>4, <2>5 DEF CarriesPlace, StaysNew
<1>6. ASSUME NEW l \in Left(heap) PROVE CarriesPlace(f, Homes, l)
  <2>1. StaysOld(f, l) /\ l \in Addr /\ l \in Homes /\ At(l) = heap[l]
    BY <1>2, <1>4, <1>6 DEF HeapsCarry, Homes
  <2>2. At(f[l])' = heap[l]
    <3>1. CASE f[l] = l /\ l \in Left(heap)' /\ heap'[l] = heap[l]
      BY <1>4, <2>1, <3>1
    <3>2. ASSUME NEW d \in Starts(to)', f[l] = New(d), to'[d] = heap[l] PROVE At(f[l])' = heap[l]
      <4>1. d \in Addr
        BY <3>2 DEF Starts, Addr
      <4> QED BY <1>4, <3>2, <4>1
    <3> QED BY <2>1, <3>1, <3>2 DEF StaysOld
  <2>3. ASSUME NEW j, j \in 1 .. Len(heap[l].ptrs), heap[l].ptrs[j] # Data
        PROVE  Field(f[l], j)' = f[Field(l, j)]
    <3>1. heap[l].ptrs[j] \in Starts(heap) /\ Field(l, j) = Seen(heap[l].ptrs[j])
      BY <1>1, <2>3 DEF FieldsAre, OldField
    <3>2. PICK p : p = heap[l].ptrs[j]
      OBVIOUS
    <3>3. Seen(p)' = f[Seen(p)]
      BY <3>1, <3>2 DEF HeapsCarry
    <3>4. CASE f[l] = l /\ l \in Left(heap)' /\ heap'[l] = heap[l]
      <4>1. OldField(l, j)'
        BY <1>1, <3>4 DEF FieldsAre
      <4>2. Field(l, j)' = Seen(heap[l].ptrs[j])'
        BY <2>3, <3>4, <4>1 DEF OldField, Data
      <4>3. Seen(heap[l].ptrs[j])' = Seen(p)'
        BY <3>2, <3>4 DEF Seen, Outside
      <4> QED BY <3>1, <3>2, <3>3, <3>4, <4>2, <4>3
    <3>5. ASSUME NEW d \in Starts(to)', f[l] = New(d), to'[d] = heap[l],
                 \A k \in Nat : 1 <= k => ~Scanned(d, k)'
          PROVE  Field(f[l], j)' = f[Field(l, j)]
      <4>1. NewField(d, j)'
        BY <1>1, <3>5 DEF FieldsAre
      <4>2. ~Scanned(d, j)'
        <5>1. j \in Nat /\ 1 <= j
          BY <2>3
        <5> QED BY <3>5, <5>1
      <4>3. Field(New(d), j)' = Seen(to[d].ptrs[j])'
        BY <2>3, <3>5, <4>1, <4>2 DEF NewField, Data, New
      <4>4. Seen(to[d].ptrs[j])' = Seen(p)'
        BY <3>2, <3>5 DEF Seen, Outside
      <4> QED BY <3>1, <3>2, <3>3, <3>5, <4>3, <4>4
    <3> QED BY <2>1, <3>4, <3>5 DEF StaysOld
  <2>4. \A j : PointerAt(l, j) => j \in 1 .. Len(heap[l].ptrs) /\ heap[l].ptrs[j] # Data
    BY <2>1 DEF PointerAt
  <2> QED BY <1>3, <2>1, <2>2, <2>3, <2>4 DEF CarriesPlace
<1>7. \A l \in Homes : l \in Left(heap) \/ \E x \in Starts(to) : l = New(x)
  BY DEF Homes
<1> QED BY <1>5, <1>6, <1>7 DEF Carries, HeapsCarry

\* Between two pointers the collector does nothing to the heaps.
LEMMA BookkeepingUnseen ==
  ASSUME IInv, IInv', Named, Bookkeeping
  PROVE  Named' /\ UNCHANGED <<objects, variables>>
<1>1. /\ UNCHANGED <<root, registers, heap, to, partial>> /\ Collecting /\ Collecting'
      /\ (phase' = phase /\ phase # "roots") \/ (phase = "roots" /\ i > NRoots /\ phase' # "roots")
         \/ (phase # "roots" /\ phase' # "roots")
  BY DEF Bookkeeping, RootsDone, NextRef, RefsDone, Round, NextData, DataDone, LoopRefs, LoopEnd,
         NextElement, Collecting, Running
<1>2. PICK f : f = [l \in Places |-> l]
  OBVIOUS
<1>3. \A l \in Places : f[l] = l
  BY <1>2
<1>4. (\A p : Seen(p)' = Seen(p)) /\ Left(heap)' = Left(heap) /\ Starts(to)' = Starts(to) /\ Homes' = Homes
  BY <1>1 DEF Seen, Outside, registers, Left, Starts, Homes, New
<1>5. Homes \subseteq Places /\ Starts(heap) \subseteq Addr /\ Starts(to) \subseteq Addr
      /\ Left(heap) \subseteq Addr
  BY HomesAre
<1>6. ASSUME NEW x \in Starts(to) PROVE StaysNew(f, x)
  <2>1. f[New(x)] = New(x)
    BY <1>3, <1>5, PlacesAre
  <2>2. \A j \in 1 .. Len(to[x].ptrs) : Scanned(x, j)' <=> Scanned(x, j)
    BY ScannedSame
  <2> QED BY <1>1, <1>4, <2>1, <2>2 DEF StaysNew
<1>7. ASSUME NEW l \in Left(heap) PROVE StaysOld(f, l)
  BY <1>1, <1>3, <1>4, <1>5, PlacesAre DEF StaysOld
<1>8. \A p \in Starts(heap) : Seen(p)' = f[Seen(p)]
  BY <1>3, <1>4, <1>5, SeenIsHome
<1>9. HeapsCarry(f)
  BY <1>3, <1>4, <1>5, <1>6, <1>7, <1>8 DEF HeapsCarry
<1>10. Carries(f, Homes)
  BY <1>1, <1>9, HeapsCarryPlaces
<1>11. ASSUME NEW r, RootHere(r) PROVE RootAt(r) \in Homes /\ RootAt(r)' = f[RootAt(r)]
  <2>1. RootMoved(r)' <=> RootMoved(r)
    <3>1. r \in RootList
      BY <1>11 DEF RootHere
    <3>2. phase = "roots" /\ i > NRoots => r < i
      BY <1>1, <3>1, HomesAre, NowNumbers, ShapeAssumption DEF RootList
    <3> QED BY <1>1, <3>2 DEF RootMoved
  <2>2. RootAt(r) \in Homes
    BY <1>11, HomesLead
  <2>3. RootAt(r)' = RootAt(r)
    <3>1. PICK p : p = root[r]
      OBVIOUS
    <3>2. RootAt(r) = IF RootMoved(r) THEN New(p) ELSE Seen(p)
      BY <3>1 DEF RootAt
    <3>3. RootAt(r)' = IF RootMoved(r)' THEN New(p) ELSE Seen(p)'
      BY <1>1, <3>1 DEF RootAt, New, Seen, Outside
    <3> QED BY <1>4, <2>1, <3>2, <3>3
  <2> QED BY <1>3, <1>5, <2>2, <2>3
<1>12. \A r : RootHere(r)' <=> RootHere(r)
  BY <1>1 DEF RootHere, RootList, Data
<1> QED BY <1>10, <1>11, <1>12, NothingSeen DEF CarriesRoots

\* What gc_move does with v: nothing, if it needs no copy, or copy its element.
MoveIs(v, m) ==
  \/ /\ v \notin Left(heap) /\ m.heap = heap /\ m.to = to
     /\ IF v = Data THEN m.val = Data ELSE m.val \in Starts(to) /\ New(m.val) = Seen(v)
  \/ /\ v \in Left(heap) /\ m.heap = [heap EXCEPT ![v] = ForwardPointer(m.val, heap[v].len)]
     /\ m.val \notin Starts(to) /\ m.to[m.val] = heap[v] /\ a <= m.val /\ m.val < a + n
     /\ \A x : x \in Starts(m.to) <=> x \in Starts(to) \/ x = m.val

LEMMA MoveCases ==
  ASSUME Now, Collecting, NEW v, v = Data \/ v \in Starts(heap), NEW m, m = gc_move(v)
  PROVE  MoveIs(v, m)
<1>1. v # Data => v \in Addr
  BY StartsAre
<1>2. CASE v = Data
  <2>1. m = gc_same(v, TRUE) /\ v \notin Left(heap)
    BY <1>2, Limits DEF gc_move, Left, Data
  <2> QED BY <1>2, <2>1 DEF gc_same, MoveIs
<1>3. CASE v # Data /\ Outside(v)
  <2>1. m = gc_same(v, TRUE)
    BY <1>3 DEF gc_move
  <2>2. v \in Starts(to) /\ v \notin Left(heap) /\ Seen(v) = New(v)
    BY <1>1, <1>3 DEF Now, Forwards, Left, Seen
  <2> QED BY <1>3, <2>1, <2>2 DEF gc_same, MoveIs
<1>4. CASE v # Data /\ ~Outside(v) /\ heap[v].kind = "fwd"
  <2>1. ~isDataElement(heap[v]) /\ heap[v].kind # "unused"
    BY <1>4 DEF isDataElement
  <2>2. m = gc_same(heap[v].to, TRUE)
    BY <1>4, <2>1 DEF gc_move
  <2>3. heap[v].to \in Starts(to) /\ v \notin Left(heap) /\ Seen(v) = New(heap[v].to)
    BY <1>1, <1>4, <2>1 DEF Now, Forwards, Left, Seen
  <2> QED BY <1>4, <2>2, <2>3 DEF gc_same, MoveIs
<1>5. CASE v # Data /\ ~Outside(v) /\ isDataElement(heap[v])
  <2>1. heap[v].kind # "fwd" /\ heap[v].kind # "unused"
    BY <1>5 DEF isDataElement
  <2>2. m = gc_copy(v, heap[v])
    BY <1>5, <2>1 DEF gc_move
  <2>3. v \in Left(heap)
    BY <1>1, <1>5 DEF Left
  <2>4. m.heap = [heap EXCEPT ![v] = ForwardPointer(m.val, heap[v].len)] /\ a <= m.val /\ m.val < a + n
    BY <2>2, <2>3, Destination
  <2>5. m.val \notin Starts(to) /\ m.to[m.val] = heap[v]
        /\ \A x : x \in Starts(m.to) <=> x \in Starts(to) \/ x = m.val
    BY <2>2, <2>3, CopyNew
  <2> QED BY <2>3, <2>4, <2>5 DEF MoveIs
<1>6. v # Data => heap[v].kind \in {"unused", "data", "ref", "fwd"} /\ heap[v].kind # "unused"
  BY <1>1, NowNumbers, ElementFacts, StartsAre DEF Element, Begins
<1>7. v = Data \/ Outside(v) \/ heap[v].kind = "fwd" \/ isDataElement(heap[v])
  BY <1>6 DEF isDataElement
<1> QED BY <1>2, <1>3, <1>4, <1>5, <1>7

\* Where a move takes the places.
Taken(v, m) == [l \in Places |-> IF l = v /\ v \in Left(heap) THEN New(m.val) ELSE l]

LEMMA MoveTakes ==
  ASSUME IInv, Collecting, Collecting', NEW v, v = Data \/ v \in Starts(heap),
         NEW m, m = gc_move(v), Moved(m), Starts(to)' = Starts(m.to), UNCHANGED <<registers, partial>>,
         NEW f, f = Taken(v, m)
  PROVE  /\ \A k : k \in Homes' <=> \E l \in Homes : k = f[l]
         /\ \A p \in Starts(heap) : Seen(p)' = f[Seen(p)]
         /\ \A x \in Starts(to) : x \in Starts(to)' /\ f[New(x)] = New(x)
         /\ IF v = Data THEN m.val = Data ELSE m.val \in Starts(to)' /\ New(m.val) = f[Seen(v)]
         /\ \A l \in Left(heap) :
              \/ f[l] = l /\ l \in Left(heap)' /\ heap'[l] = heap[l]
              \/ /\ f[l] = New(m.val) /\ m.val \in Starts(to)' /\ m.val \notin Starts(to)
                 /\ m.to[m.val] = heap[l] /\ a <= m.val /\ m.val < a + n
<1>1. /\ Homes \subseteq Places /\ Starts(heap) \subseteq Addr /\ Starts(to) \subseteq Addr
      /\ Left(heap) \subseteq Addr /\ heap \in Heaps /\ Now
  BY HomesAre
<1>2. MoveIs(v, m)
  BY <1>1, MoveCases
<1>3. heap' = m.heap
  BY DEF Moved
<1>4. \A x : Outside(x)' <=> Outside(x)
  BY DEF Outside, registers
<1>5. \A l \in Places : f[l] = IF l = v /\ v \in Left(heap) THEN New(m.val) ELSE l
  BY DEF Taken
<1>6. \A x \in Starts(to) : f[New(x)] = New(x)
  BY <1>1, <1>5, PlacesAre
<1>7. Seen(v) \in Homes \/ v = Data
  BY SeenIsHome
<1>8. \A l : l \in Homes <=> l \in Left(heap) \/ \E x \in Starts(to) : l = New(x)
  BY DEF Homes
<1>9. \A l : l \in Homes' <=> l \in Left(heap)' \/ \E x \in Starts(to)' : l = New(x)
  BY DEF Homes, New
<1>10. CASE /\ v \notin Left(heap) /\ m.heap = heap /\ m.to = to
            /\ IF v = Data THEN m.val = Data ELSE m.val \in Starts(to) /\ New(m.val) = Seen(v)
  <2>1. \A l \in Places : f[l] = l
    BY <1>5, <1>10
  <2>2. Starts(to)' = Starts(to) /\ heap' = heap /\ Left(heap)' = Left(heap)
    BY <1>3, <1>4, <1>10 DEF Left
  <2>3. \A p : Seen(p)' = Seen(p)
    BY <1>4, <2>2 DEF Seen, New
  <2>4. \A p \in Starts(heap) : f[Seen(p)] = Seen(p)
    BY <1>1, <2>1, SeenIsHome
  <2>5. \A k : k \in Homes' <=> \E l \in Homes : k = f[l]
    BY <1>1, <1>8, <1>9, <2>1, <2>2
  <2> QED BY <1>1, <1>6, <1>10, <2>1, <2>2, <2>3, <2>4, <2>5, PlacesAre
<1>11. CASE /\ v \in Left(heap) /\ m.heap = [heap EXCEPT ![v] = ForwardPointer(m.val, heap[v].len)]
            /\ m.val \notin Starts(to) /\ m.to[m.val] = heap[v] /\ a <= m.val /\ m.val < a + n
            /\ \A x : x \in Starts(m.to) <=> x \in Starts(to) \/ x = m.val
  <2>1. v \in Addr /\ v # Data /\ ~Outside(v) /\ isDataElement(heap[v]) /\ heap[v].kind # "fwd"
    BY <1>1, <1>11, Limits DEF Left, Data, isDataElement
  <2>2. /\ heap'[v].kind = "fwd" /\ heap'[v].to = m.val
        /\ \A x \in Addr : x # v => heap'[x] = heap[x]
    BY <1>1, <1>3, <1>11, <2>1 DEF Heaps, ForwardPointer
  <2>3. Seen(v) = v /\ Seen(v)' = New(m.val) /\ f[v] = New(m.val)
    <3>1. Seen(v) = v
      BY <2>1 DEF Seen
    <3>2. Seen(v)' = New(m.val)
      BY <1>4, <2>1, <2>2 DEF Seen, New
    <3>3. f[v] = New(m.val)
      BY <1>5, <1>11, <2>1, PlacesAre
    <3> QED BY <3>1, <3>2, <3>3
  <2>4. ASSUME NEW p \in Starts(heap), p # v PROVE Seen(p)' = f[Seen(p)]
    <3>1. p \in Addr /\ heap'[p] = heap[p] /\ Seen(p) \in Homes /\ Seen(p) \in Places
      BY <1>1, <2>2, <2>4, SeenIsHome
    <3>2. Seen(p)' = Seen(p)
      BY <1>4, <3>1 DEF Seen, New
    <3>3. Seen(p) # v
      <4>1. \A x \in Addr : New(x) # v
        BY <2>1, PlacesAre
      <4>2. CASE Outside(p)
        BY <3>1, <4>1, <4>2 DEF Seen
      <4>3. CASE ~Outside(p) /\ heap[p].kind = "fwd"
        <5>1. heap[p].to \in Addr
          BY <1>1, <3>1, <4>3 DEF Now, Forwards
        <5> QED BY <4>1, <4>3, <5>1 DEF Seen
      <4>4. CASE ~Outside(p) /\ heap[p].kind # "fwd"
        BY <2>4, <4>4 DEF Seen
      <4> QED BY <4>2, <4>3, <4>4
    <3> QED BY <1>5, <3>1, <3>2, <3>3
  <2>5. \A x : x \in Starts(to)' <=> x \in Starts(to) \/ x = m.val
    BY <1>11
  <2>6. \A l : l \in Left(heap)' <=> l \in Left(heap) /\ l # v
    <3>1. ~isDataElement(heap'[v])
      BY <2>2 DEF isDataElement
    <3>2. \A l : l \in Left(heap)' <=> l \in Addr /\ ~Outside(l) /\ isDataElement(heap'[l])
      BY <1>4 DEF Left, Addr, isDataElement
    <3>3. \A l : l \in Left(heap) <=> l \in Addr /\ ~Outside(l) /\ isDataElement(heap[l])
      BY DEF Left
    <3> QED BY <2>2, <3>1, <3>2, <3>3
  <2>7. \A l \in Left(heap) : l # v => f[l] = l /\ heap'[l] = heap[l]
    BY <1>1, <1>5, <2>2, PlacesAre
  <2>8. \A k : k \in Homes' <=> \E l \in Homes : k = f[l]
    <3>1. ASSUME NEW k \in Homes' PROVE \E l \in Homes : k = f[l]
      BY <1>6, <1>8, <1>9, <1>11, <2>3, <2>5, <2>6, <2>7, <3>1
    <3>2. ASSUME NEW l \in Homes PROVE f[l] \in Homes'
      BY <1>6, <1>8, <1>9, <2>3, <2>5, <2>6, <2>7, <3>2
    <3> QED BY <3>1, <3>2
  <2> QED BY <1>6, <1>11, <2>1, <2>3, <2>4, <2>5, <2>6, <2>7, <2>8
<1> QED BY <1>2, <1>10, <1>11 DEF MoveIs

\* What is put between the two ends of the new heap has not been scanned.
LEMMA NotScannedBetween ==
  ASSUME Now, NEW d \in Nat, a <= d, d < a + n, NEW j \in Nat
  PROVE  ~Scanned(d, j)
BY NowNumbers DEF Scanned

LEMMA MoveRootUnseen ==
  ASSUME IInv, IInv', Named, MoveRoot
  PROVE  Named' /\ UNCHANGED <<objects, variables>>
<1>1. phase = "roots" /\ i <= NRoots /\ Collecting /\ Collecting'
  BY DEF MoveRoot, Collecting, Running
<1>2. Now /\ Roots /\ root \in [RootList -> Val]
  BY <1>1, HomesAre DEF IInv, TypeOK
<1>3. i \in RootList /\ i \in Nat
  BY <1>1, <1>2, NowNumbers, ShapeAssumption DEF RootList
<1>4. PICK v : v = root[i]
  OBVIOUS
<1>5. PICK m : m = gc_move(v)
  OBVIOUS
<1>6. /\ Moved(m) /\ to' = m.to /\ root' = [root EXCEPT ![i] = m.val] /\ i' = i + 1
      /\ UNCHANGED <<registers, phase, partial, h1, r3, r2, r1>>
  BY <1>4, <1>5 DEF MoveRoot
<1>7. v = Data \/ v \in Starts(heap)
  BY <1>1, <1>2, <1>3, <1>4, NowNumbers DEF Roots
<1>8. Starts(to)' = Starts(m.to)
  BY <1>6 DEF Starts
<1>9. \A x \in Starts(to) : to'[x] = to[x]
  BY <1>2, <1>5, <1>6, <1>7, MoveOne DEF Result
<1>10. PICK f : f = Taken(v, m)
  OBVIOUS
<1>11. /\ \A k : k \in Homes' <=> \E l \in Homes : k = f[l]
       /\ \A p \in Starts(heap) : Seen(p)' = f[Seen(p)]
       /\ \A x \in Starts(to) : x \in Starts(to)' /\ f[New(x)] = New(x)
       /\ IF v = Data THEN m.val = Data ELSE m.val \in Starts(to)' /\ New(m.val) = f[Seen(v)]
       /\ \A l \in Left(heap) :
            \/ f[l] = l /\ l \in Left(heap)' /\ heap'[l] = heap[l]
            \/ /\ f[l] = New(m.val) /\ m.val \in Starts(to)' /\ m.val \notin Starts(to)
               /\ m.to[m.val] = heap[l] /\ a <= m.val /\ m.val < a + n
  BY <1>1, <1>5, <1>6, <1>7, <1>8, <1>10, MoveTakes
<1>12. \A x, j : Scanned(x, j)' <=> Scanned(x, j)
  BY <1>1, <1>6 DEF Scanned
<1>13. ASSUME NEW x \in Starts(to) PROVE StaysNew(f, x)
  BY <1>9, <1>11, <1>12 DEF StaysNew
<1>14. ASSUME NEW l \in Left(heap) PROVE StaysOld(f, l)
  <2>1. CASE f[l] = l /\ l \in Left(heap)' /\ heap'[l] = heap[l]
    BY <2>1 DEF StaysOld
  <2>2. CASE /\ f[l] = New(m.val) /\ m.val \in Starts(to)' /\ m.val \notin Starts(to)
             /\ m.to[m.val] = heap[l] /\ a <= m.val /\ m.val < a + n
    <3>1. PICK d \in Starts(to)' : d = m.val
      BY <2>2
    <3>2. d \in Nat
      BY <3>1, Limits DEF Starts, Addr
    <3>3. \A j \in Nat : ~Scanned(d, j)'
      BY <1>2, <1>12, <2>2, <3>1, <3>2, NotScannedBetween
    <3> QED BY <1>6, <2>2, <3>1, <3>3 DEF StaysOld
  <2> QED BY <1>11, <2>1, <2>2
<1>15. Carries(f, Homes)
  <2>1. HeapsCarry(f)
    BY <1>11, <1>13, <1>14 DEF HeapsCarry
  <2> QED BY <1>1, <2>1, HeapsCarryPlaces
<1>16. ASSUME NEW r \in RootList, r # i
       PROVE  /\ root'[r] = root[r]
              /\ root[r] # Data => RootAt(r)' = f[RootAt(r)]
  <2>1. root'[r] = root[r]
    BY <1>2, <1>6, <1>16
  <2>2. PICK p : p = root[r]
    OBVIOUS
  <2>3. RootAt(r) = IF r < i THEN New(p) ELSE Seen(p)
    BY <1>1, <2>2 DEF RootAt, RootMoved
  <2>4. RootAt(r)' = IF r < i' THEN New(p) ELSE Seen(p)'
    <3>1. RootMoved(r)' <=> r < i'
      BY <1>1, <1>6 DEF RootMoved
    <3> QED BY <2>1, <2>2, <3>1 DEF RootAt, New, Seen, Outside
  <2>5. r < i' <=> r < i
    BY <1>3, <1>6, <1>16 DEF RootList
  <2>6. p # Data => p \in IF i <= r THEN Starts(heap) ELSE Starts(to)
    BY <1>1, <1>2, <2>2 DEF Roots
  <2>7. i <= r <=> ~(r < i)
    BY <1>3 DEF RootList
  <2> QED BY <1>11, <2>1, <2>2, <2>3, <2>4, <2>5, <2>6, <2>7
<1>17. ASSUME NEW r \in RootList, r = i
       PROVE  /\ root'[r] = Data <=> root[r] = Data
              /\ root[r] # Data => RootAt(r)' = f[RootAt(r)]
  <2>1. root'[r] = m.val /\ root[r] = v
    BY <1>2, <1>3, <1>4, <1>6, <1>17
  <2>2. \A x \in Starts(to)' : x # Data
    BY Limits DEF Starts, Addr, Data
  <2>3. RootAt(r) = Seen(v)
    BY <1>1, <1>3, <1>17, <2>1 DEF RootAt, RootMoved
  <2>4. RootMoved(r)'
    BY <1>1, <1>3, <1>6, <1>17 DEF RootMoved
  <2>5. RootAt(r)' = New(m.val)
    BY <2>1, <2>4 DEF RootAt, New
  <2> QED BY <1>11, <2>1, <2>2, <2>3, <2>5
<1>18. CarriesRoots(f, Homes)
  <2>1. \A r \in RootList : root'[r] = Data <=> root[r] = Data
    BY <1>16, <1>17
  <2>2. \A r : RootHere(r)' <=> RootHere(r)
    BY <2>1 DEF RootHere, RootList, Data
  <2>3. \A r : RootHere(r) => RootAt(r) \in Homes
    BY HomesLead
  <2> QED BY <1>16, <1>17, <2>2, <2>3 DEF CarriesRoots, RootHere
<1> QED BY <1>15, <1>18, NothingSeen

LEMMA MoveFieldUnseen ==
  ASSUME IInv, IInv', Named, ~Running, NEW x, ScannedAt(x), MoveField(x)
  PROVE  Named' /\ UNCHANGED <<objects, variables>>
<1>1. /\ UNCHANGED <<root, registers, phase, partial, h1, r3, r2, r1>>
      /\ phase # "roots" /\ Collecting /\ Collecting'
  BY DEF MoveField, ScannedAt, Collecting, Running
<1>2. Now /\ FieldsLead /\ Roots
  BY <1>1, HomesAre
<1>3. PICK m : FieldStep(x, m)
  BY FieldSteps
<1>4. PICK v : v = to[x].ptrs[i]
  OBVIOUS
<1>5. m = gc_move(v) /\ Result(m) /\ Moved(m) /\ Starts(to)' = Starts(m.to)
  BY <1>3, <1>4 DEF FieldStep
<1>6. x \in Starts(to) /\ i \in 1 .. Len(to[x].ptrs) /\ i \in Nat /\ (v = Data \/ v \in Starts(heap))
  <2>1. x \in Starts(to) /\ i \in 1 .. Len(to[x].ptrs)
    BY <1>3 DEF FieldStep
  <2> QED BY SMTT(30), <1>2, <1>4, <2>1, NotMovedYet, NowNumbers
<1>7. PICK f : f = Taken(v, m)
  OBVIOUS
<1>8. /\ \A k : k \in Homes' <=> \E l \in Homes : k = f[l]
      /\ \A p \in Starts(heap) : Seen(p)' = f[Seen(p)]
      /\ \A y \in Starts(to) : y \in Starts(to)' /\ f[New(y)] = New(y)
      /\ IF v = Data THEN m.val = Data ELSE m.val \in Starts(to)' /\ New(m.val) = f[Seen(v)]
      /\ \A l \in Left(heap) :
           \/ f[l] = l /\ l \in Left(heap)' /\ heap'[l] = heap[l]
           \/ /\ f[l] = New(m.val) /\ m.val \in Starts(to)' /\ m.val \notin Starts(to)
              /\ m.to[m.val] = heap[l] /\ a <= m.val /\ m.val < a + n
  BY <1>1, <1>5, <1>6, <1>7, MoveTakes
<1>9. \A y \in Starts(to) : m.to[y] = to[y] /\ y \in Addr
  BY <1>5, StartsAre DEF Result
<1>10. ASSUME NEW y \in Starts(to), y # x PROVE StaysNew(f, y)
  <2>1. to'[y] = to[y]
    BY <1>3, <1>9, <1>10 DEF FieldStep
  <2>2. \A j \in 1 .. Len(to[y].ptrs) : Scanned(y, j)' <=> Scanned(y, j)
    BY <1>3, <1>10 DEF FieldStep
  <2> QED BY SMTT(30), <1>8, <2>1, <2>2 DEF StaysNew
<1>11. StaysNew(f, x)
  <2>1. /\ to'[x].id = to[x].id /\ to'[x].kind = to[x].kind /\ to'[x].len = to[x].len
        /\ Len(to'[x].ptrs) = Len(to[x].ptrs)
        /\ \A j \in 1 .. Len(to[x].ptrs) :
             to'[x].ptrs[j] = IF j = i THEN m.val ELSE to[x].ptrs[j]
        /\ \A j \in Nat : (Scanned(x, j)' <=> j < i + 1) /\ (Scanned(x, j) <=> j < i)
    BY <1>3, <1>6, <1>9 DEF FieldStep
  <2>2. \A y \in Starts(to)' : y # Data
    BY Limits DEF Starts, Addr, Data
  <2>3. ASSUME NEW j \in 1 .. Len(to[x].ptrs), j # i
        PROVE  (Scanned(x, j)' <=> Scanned(x, j)) /\ to'[x].ptrs[j] = to[x].ptrs[j]
    <3>1. j < i + 1 <=> j < i
      BY <1>6, <2>3
    <3> QED BY <2>1, <2>3, <3>1
  <2>4. ASSUME NEW j \in 1 .. Len(to[x].ptrs), j = i
        PROVE  /\ ~Scanned(x, j) /\ Scanned(x, j)' /\ to[x].ptrs[j] = v /\ to'[x].ptrs[j] = m.val
               /\ IF v = Data THEN m.val = Data ELSE m.val # Data /\ New(m.val) = f[Seen(v)]
    <3>1. j < i + 1 /\ ~(j < i)
      BY <1>6, <2>4
    <3> QED BY <1>4, <1>8, <2>1, <2>2, <2>4, <3>1
  <2>5. ASSUME NEW j \in 1 .. Len(to[x].ptrs)
        PROVE  \/ (Scanned(x, j)' <=> Scanned(x, j)) /\ to'[x].ptrs[j] = to[x].ptrs[j]
               \/ ~Scanned(x, j) /\ Scanned(x, j)' /\ to[x].ptrs[j] = Data /\ to'[x].ptrs[j] = Data
               \/ /\ ~Scanned(x, j) /\ Scanned(x, j)' /\ to[x].ptrs[j] # Data /\ to'[x].ptrs[j] # Data
                  /\ New(to'[x].ptrs[j]) = f[Seen(to[x].ptrs[j])]
    <3>1. CASE j = i
      <4>1. PICK p, q : p = to[x].ptrs[j] /\ q = to'[x].ptrs[j]
        OBVIOUS
      <4>2. p = v /\ q = m.val
        BY <2>4, <3>1, <4>1
      <4> QED BY <2>4, <3>1, <4>1, <4>2
    <3>2. CASE j # i
      BY <2>3, <3>2
    <3> QED BY <3>1, <3>2
  <2> QED BY SMTT(30), <1>6, <1>8, <2>1, <2>5 DEF StaysNew
<1>12. ASSUME NEW l \in Left(heap) PROVE StaysOld(f, l)
  <2>1. CASE f[l] = l /\ l \in Left(heap)' /\ heap'[l] = heap[l]
    BY <2>1 DEF StaysOld
  <2>2. CASE /\ f[l] = New(m.val) /\ m.val \in Starts(to)' /\ m.val \notin Starts(to)
             /\ m.to[m.val] = heap[l] /\ a <= m.val /\ m.val < a + n
    <3>1. PICK d \in Starts(to)' : d = m.val
      BY <2>2
    <3>2. d \in Nat /\ d \in Addr /\ d # x
      BY SMTT(30), <1>6, <2>2, <3>1, Limits DEF Starts, Addr
    <3>3. to'[d] = heap[l]
      BY SMTT(30), <1>3, <2>2, <3>1, <3>2 DEF FieldStep
    <3>4. \A j \in Nat : ~Scanned(d, j)'
      <4>1. \A j \in Nat : ~Scanned(d, j)
        BY <1>2, <2>2, <3>1, <3>2, NotScannedBetween
      <4> QED BY <1>3, <3>2, <4>1 DEF FieldStep
    <3> QED BY <2>2, <3>1, <3>3, <3>4 DEF StaysOld
  <2> QED BY <1>8, <2>1, <2>2
<1>13. Carries(f, Homes)
  <2>1. HeapsCarry(f)
    BY <1>8, <1>10, <1>11, <1>12 DEF HeapsCarry
  <2> QED BY <1>1, <2>1, HeapsCarryPlaces
<1>14. ASSUME NEW r, RootHere(r) PROVE RootAt(r) \in Homes /\ RootAt(r)' = f[RootAt(r)]
  <2>1. r \in RootList /\ root[r] \in Starts(to)
    BY <1>1, <1>2, <1>14 DEF RootHere, Roots
  <2>2. RootAt(r) = New(root[r]) /\ RootAt(r)' = New(root[r])
    BY <1>1 DEF RootAt, RootMoved, New
  <2> QED BY <1>8, <1>14, <2>1, <2>2, HomesLead
<1>15. \A r : RootHere(r)' <=> RootHere(r)
  BY <1>1 DEF RootHere, RootList, Data
<1> QED BY <1>13, <1>14, <1>15, NothingSeen DEF CarriesRoots

\* At the end of a collection every home is in the new heap, which becomes
\* the heap.
LEMMA FinishUnseen ==
  ASSUME IInv, IInv', Named, Finish
  PROVE  Named' /\ UNCHANGED <<objects, variables>>
<1>1. phase = "done" /\ Collecting /\ ~Collecting' /\ heap' = to /\ root' = root
  BY DEF Finish, Collecting, Running
<1>2. Now /\ FieldsLead /\ Starts(to) \subseteq Addr
  BY <1>1, HomesAre
<1>3. /\ \A x \in Starts(to) : /\ x \in Nat /\ (x < a \/ a + n <= x) /\ isDataElement(to[x])
                               /\ Lead(to, x)
      /\ \A r \in RootList : root[r] \in Starts(to) \cup {Data}
  BY <1>1, AllMoved
<1>4. PICK f : f = [l \in Places |-> l - Limit]
  OBVIOUS
<1>5. PICK D : D = {New(x) : x \in Starts(to)}
  OBVIOUS
<1>6. \A x \in Starts(to) : f[New(x)] = x /\ New(x) \in D /\ New(x) \in Homes
  BY <1>1, <1>2, <1>4, <1>5, PlacesAre DEF Homes
<1>7. \A x \in Starts(to) : At(New(x)) = to[x] /\ At(x)' = to[x]
  <2>1. \A x \in Addr : x < Limit /\ At(New(x)) = to[x]
    BY PlacesAre
  <2> QED BY <1>1, <1>2, <2>1 DEF At
<1>8. \A k : k \in Homes' <=> \E l \in D : k = f[l]
  <2>1. Homes' = Starts(to)
    BY <1>1 DEF Homes, Starts
  <2> QED BY <1>5, <1>6, <2>1
<1>9. ASSUME NEW x \in Starts(to) PROVE CarriesPlace(f, D, New(x))
  <2>1. ASSUME NEW j, PointerAt(New(x), j)
        PROVE  Field(New(x), j) \in D /\ Field(f[New(x)], j)' = f[Field(New(x), j)]
    <3>1. j \in 1 .. Len(to[x].ptrs) /\ to[x].ptrs[j] # Data
      BY <1>7, <2>1 DEF PointerAt
    <3>2. Scanned(x, j)
      <4>1. h1 = a /\ a + n = r3 /\ r3 = r2 /\ r2 = r1
        BY <1>1, <1>2 DEF Now, Positions
      <4> QED BY <1>3, <4>1 DEF Scanned
    <3>3. PICK p : p = to[x].ptrs[j]
      OBVIOUS
    <3>4. p \in Starts(to) /\ Field(New(x), j) = New(p)
      BY <1>1, <3>1, <3>2, <3>3, FieldsOfHomes DEF FieldsAre, NewField
    <3>5. Field(x, j)' = p
      <4>1. ~(x >= Limit)
        BY <1>2, Limits
      <4>2. At(x)' = to[x]
        BY <1>7
      <4> QED BY <1>1, <3>3, <4>1, <4>2 DEF Field, Seen
    <3> QED BY <1>6, <3>4, <3>5
  <2> QED BY <1>6, <1>7, <2>1 DEF CarriesPlace
<1>10. Carries(f, D)
  BY <1>5, <1>6, <1>8, <1>9 DEF Carries
<1>11. ASSUME NEW r, RootHere(r) PROVE RootAt(r) \in D /\ RootAt(r)' = f[RootAt(r)]
  <2>1. root[r] \in Starts(to)
    BY <1>3, <1>11 DEF RootHere
  <2>2. RootAt(r) = New(root[r])
    BY <1>1 DEF RootAt, RootMoved
  <2>3. RootAt(r)' = root[r]
    BY <1>1 DEF RootAt, RootMoved, Seen
  <2> QED BY <1>6, <2>1, <2>2, <2>3
<1>12. \A r : RootHere(r)' <=> RootHere(r)
  BY <1>1 DEF RootHere, RootList, Data
<1> QED BY <1>10, <1>11, <1>12, NothingSeen DEF CarriesRoots

LEMMA CollectUnseen ==
  ASSUME IInv, IInv', Named, Collect
  PROVE  Named' /\ UNCHANGED <<objects, variables>>
<1>1. CASE Bookkeeping
  BY <1>1, BookkeepingUnseen
<1>2. CASE MoveRefField
  <2>1. ~Running /\ ScannedAt(r2) /\ MoveField(r2)
    BY <1>2 DEF MoveRefField, Running, ScannedAt
  <2>2. PICK x : x = r2
    OBVIOUS
  <2> QED BY <2>1, <2>2, MoveFieldUnseen
<1>3. CASE MoveDataField
  <2>1. ~Running /\ ScannedAt(h1) /\ MoveField(h1)
    BY <1>3 DEF MoveDataField, Running, ScannedAt
  <2>2. PICK x : x = h1
    OBVIOUS
  <2> QED BY <2>1, <2>2, MoveFieldUnseen
<1> QED BY <1>1, <1>2, <1>3, MoveRootUnseen, FinishUnseen DEF Collect, Bookkeeping

(***************************************************************************)
(* The program's steps.  Between collections a place is an address.        *)
(***************************************************************************)
Between ==
  /\ Homes = Starts(heap) /\ \A r : RootAt(r) = root[r]
  /\ \A x \in Starts(heap) : /\ x \in Addr /\ x # Data /\ At(x) = heap[x]
                             /\ \A j : Field(x, j) = heap[x].ptrs[j]
LEMMA IsBetween == IInv /\ Running => Between
<1> SUFFICES ASSUME IInv, Running PROVE Between
  OBVIOUS
<1>1. ~Collecting
  BY DEF Collecting
<1>2. ASSUME NEW x \in Starts(heap)
      PROVE  x \in Addr /\ x # Data /\ At(x) = heap[x] /\ \A j : Field(x, j) = heap[x].ptrs[j]
  <2>1. x \in Addr /\ At(x) = heap[x] /\ ~(x >= Limit) /\ x # Data
    BY HomesAre, PlacesAre, Limits DEF Data
  <2> QED BY <1>1, <2>1 DEF Field, Seen
<1> QED BY <1>1, <1>2 DEF Between, Homes, RootAt, RootMoved, Seen

LEMMA IsBetweenNext == IInv' /\ Running' => Between'
<1>1. (IInv /\ Running => Between)'
  BY IsBetween, PTL
<1> QED BY <1>1

\* The value the program's view gives to a value of the heap.
NameOf(v) == IF v = Data THEN 0 ELSE heap[v].id

LEMMA VariablesBetween ==
  ASSUME IInv, Running
  PROVE  /\ variables = [r \in RootList |-> NameOf(root[r])]
         /\ \A r \in RootList : root[r] # Data => root[r] \in Starts(heap)
<1>1. Between /\ \A r \in RootList : root[r] # Data => root[r] \in Starts(heap)
  BY IsBetween, Resting DEF AtRest
<1>2. \A r \in RootList : (IF root[r] = Data THEN 0 ELSE At(RootAt(r)).id) = NameOf(root[r])
  BY <1>1 DEF Between, NameOf
<1> QED BY <1>1, <1>2 DEF variables

\* The element at an address the roots lead to, and the object it stands for.
LEMMA ObjectBetween ==
  ASSUME IInv, Named, Running, NEW C, AliveIn(C), NEW x \in C
  PROVE  /\ x \in Starts(heap) /\ heap[x].id \in DOMAIN objects /\ heap[x].id # 0
         /\ objects[heap[x].id] = ObjectAt(x)
         /\ ObjectAt(x).kind = heap[x].kind /\ ObjectAt(x).len = heap[x].len
         /\ Len(heap[x].ptrs) \in Nat /\ Len(ObjectAt(x).ptrs) = Len(heap[x].ptrs)
         /\ ObjectAt(x).ptrs = [j \in 1 .. Len(heap[x].ptrs) |-> NameOf(heap[x].ptrs[j])]
         /\ \A j \in 1 .. Len(heap[x].ptrs) : heap[x].ptrs[j] # Data => heap[x].ptrs[j] \in C
<1>1. Between /\ C \subseteq Homes /\ FieldsIn(C, C)
  BY IsBetween DEF AliveIn
<1>2. x \in Homes /\ x \in Starts(heap) /\ At(x) = heap[x] /\ \A j : Field(x, j) = heap[x].ptrs[j]
  BY <1>1 DEF Between
<1>3. /\ ObjectAt(x).kind = At(x).kind /\ ObjectAt(x).len = At(x).len
      /\ ObjectAt(x).ptrs = [j \in 1 .. Len(At(x).ptrs) |->
                              IF At(x).ptrs[j] = Data THEN 0 ELSE At(Field(x, j)).id]
      /\ Len(ObjectAt(x).ptrs) = Len(At(x).ptrs)
  BY <1>2, FieldsNamed
<1>4. ASSUME NEW j \in 1 .. Len(heap[x].ptrs), heap[x].ptrs[j] # Data PROVE heap[x].ptrs[j] \in C
  <2>1. PointerAt(x, j)
    BY <1>2, <1>4 DEF PointerAt
  <2> QED BY <1>1, <1>2, <2>1 DEF FieldsIn
<1>5. \A j \in 1 .. Len(heap[x].ptrs) :
        (IF At(x).ptrs[j] = Data THEN 0 ELSE At(Field(x, j)).id) = NameOf(heap[x].ptrs[j])
  <2>1. \A y \in C : At(y) = heap[y]
    BY <1>1 DEF Between
  <2> QED BY <1>2, <1>4, <2>1 DEF NameOf
<1>6. heap[x].id \in DOMAIN objects /\ objects[heap[x].id] = ObjectAt(x)
  <2>1. DOMAIN objects = {At(l).id : l \in C} /\ \A l \in C : objects[At(l).id] = ObjectAt(l)
    BY ObjectsAre
  <2>2. At(x).id \in DOMAIN objects /\ objects[At(x).id] = ObjectAt(x)
    BY <2>1
  <2>3. At(x) = heap[x]
    BY <1>2
  <2> QED BY <2>2, <2>3
<1>7. heap[x].id # 0
  BY <1>1, <1>2 DEF Named, Id
<1>8. Len(heap[x].ptrs) \in Nat
  BY <1>2, HomesAre
<1> QED BY <1>2, <1>3, <1>4, <1>5, <1>6, <1>7, <1>8

\* A step that only chooses among values the program holds.
LEMMA RootsCarry ==
  ASSUME IInv, IInv', Named, Running, UNCHANGED <<heap, phase>>,
         NEW C, AliveIn(C), \A r \in RootList : root'[r] = Data \/ root'[r] \in C
  PROVE  Named' /\ Store!Keep(objects) /\ variables' = [r \in RootList |-> NameOf(root'[r])]
<1>1. Running' /\ Between /\ Between'
  BY IsBetween, IsBetweenNext DEF Running
<1>2. PICK f : f = [l \in Places |-> l]
  OBVIOUS
<1>3. \A l \in Starts(heap) : f[l] = l
  BY <1>2, HomesAre, PlacesAre
<1>4. Starts(heap)' = Starts(heap)
  BY DEF Starts
<1>5. ASSUME NEW l \in Starts(heap) PROVE CarriesPlace(f, Homes, l)
  <2>1. f[l] = l /\ At(l)' = heap[l] /\ At(l) = heap[l] /\ \A j : Field(l, j) = heap[l].ptrs[j]
    BY <1>1, <1>3, <1>4 DEF Between
  <2>2. \A j : Field(l, j)' = heap[l].ptrs[j]
    BY <1>1, <1>4 DEF Between
  <2>3. \A j : PointerAt(l, j) => Field(l, j) \in Starts(heap)
    BY <1>1, HomesLead DEF Between
  <2> QED BY <1>1, <1>3, <2>1, <2>2, <2>3 DEF CarriesPlace, Between
<1>6. Carries(f, Homes)
  BY <1>1, <1>3, <1>4, <1>5 DEF Carries, Between
<1>7. \A r : RootHere(r) => RootAt(r) \in Homes
  BY HomesLead
<1>8. ASSUME NEW r, RootHere(r)' PROVE \E l \in C : RootAt(r)' = f[l]
  <2>1. root'[r] \in C
    BY <1>8 DEF RootHere, RootList, Data
  <2>2. RootAt(r)' = root'[r] /\ C \subseteq Starts(heap)
    BY <1>1 DEF Between, AliveIn
  <2> QED BY <1>3, <2>1, <2>2
<1>9. objects' = Store!Live(objects, variables') /\ Named'
  BY <1>6, <1>7, <1>8, CarriesStore, CarriesNames
<1>10. variables' = [r \in RootList |-> NameOf(root'[r])]
  <2>1. \A r \in RootList : (IF root'[r] = Data THEN 0 ELSE At(RootAt(r))'.id) = NameOf(root'[r])
    <3>1. ASSUME NEW r \in RootList, root'[r] # Data PROVE At(RootAt(r))'.id = heap[root'[r]].id
      <4>1. root'[r] \in C /\ C \subseteq Starts(heap)
        BY <1>1, <3>1 DEF Between, AliveIn
      <4>2. PICK l : l = root'[r]
        OBVIOUS
      <4>3. RootAt(r)' = l /\ At(l)' = heap[l]
        BY <1>1, <1>4, <4>1, <4>2 DEF Between
      <4>4. At(RootAt(r))' = At(l)'
        BY <4>3 DEF At
      <4> QED BY <4>2, <4>3, <4>4
    <3> QED BY <3>1 DEF NameOf
  <2>2. variables' = [r \in RootList |-> IF root'[r] = Data THEN 0 ELSE At(RootAt(r))'.id]
    BY DEF variables, Data, RootList
  <2> QED BY <2>1, <2>2
<1> QED BY <1>9, <1>10 DEF Store!Keep

\* The roots are alive.
LEMMA RootsAlive ==
  ASSUME IInv, Running, NEW C, AliveIn(C)
  PROVE  C \subseteq Starts(heap) /\ \A r \in RootList : root[r] = Data \/ root[r] \in C
BY IsBetween DEF Between, AliveIn, RootsIn, RootHere

LEMMA StoreMove ==
  ASSUME IInv, IInv', Named, NEW r \in RootList, NEW s \in RootList, Move(r, s)
  PROVE  Named' /\ Store!Move(r, s)
<1>1. /\ Running /\ UNCHANGED <<heap, phase>> /\ root' = [root EXCEPT ![r] = root[s]]
      /\ root \in [RootList -> Val]
  BY DEF Move, Running, collector, IInv, TypeOK
<1>2. PICK C : AliveIn(C)
  BY SomeAlive
<1>3. \A q \in RootList : root'[q] = IF q = r THEN root[s] ELSE root[q]
  BY <1>1
<1>4. Named' /\ Store!Keep(objects) /\ variables' = [q \in RootList |-> NameOf(root'[q])]
  BY <1>1, <1>2, <1>3, RootsAlive, RootsCarry
<1>5. variables = [q \in RootList |-> NameOf(root[q])]
  BY <1>1, VariablesBetween
<1>6. variables' = [variables EXCEPT ![r] = variables[s]]
  BY <1>3, <1>4, <1>5
<1> QED BY <1>4, <1>6 DEF Store!Move

LEMMA StoreEl ==
  ASSUME IInv, IInv', Named, NEW r \in RootList, NEW s \in RootList, NEW j \in 1 .. MaxPtrs, El(r, s, j)
  PROVE  Named' /\ Store!El(r, s, j)
<1>1. /\ Running /\ UNCHANGED <<heap, phase>> /\ root[s] # Data /\ j <= Len(heap[root[s]].ptrs)
      /\ root' = [root EXCEPT ![r] = heap[root[s]].ptrs[j]] /\ root \in [RootList -> Val]
  BY DEF El, Running, collector, IInv, TypeOK
<1>2. PICK C : AliveIn(C)
  BY SomeAlive
<1>3. PICK x : x = root[s]
  OBVIOUS
<1>4. x \in C
  BY <1>1, <1>2, <1>3, RootsAlive
<1>5. /\ heap[x].id \in DOMAIN objects /\ heap[x].id # 0 /\ objects[heap[x].id] = ObjectAt(x)
      /\ Len(heap[x].ptrs) \in Nat /\ Len(ObjectAt(x).ptrs) = Len(heap[x].ptrs)
      /\ ObjectAt(x).ptrs = [k \in 1 .. Len(heap[x].ptrs) |-> NameOf(heap[x].ptrs[k])]
      /\ \A k \in 1 .. Len(heap[x].ptrs) : heap[x].ptrs[k] # Data => heap[x].ptrs[k] \in C
  BY <1>1, <1>2, <1>4, ObjectBetween
<1>6. j \in 1 .. Len(heap[x].ptrs)
  BY <1>1, <1>3, <1>5, ShapeAssumption
<1>7. \A q \in RootList : root'[q] = IF q = r THEN heap[x].ptrs[j] ELSE root[q]
  BY <1>1, <1>3
<1>8. \A q \in RootList : root'[q] = Data \/ root'[q] \in C
  BY <1>1, <1>2, <1>5, <1>6, <1>7, RootsAlive
<1>9. Named' /\ Store!Keep(objects) /\ variables' = [q \in RootList |-> NameOf(root'[q])]
  BY <1>1, <1>2, <1>8, RootsCarry
<1>10. variables = [q \in RootList |-> NameOf(root[q])]
  BY <1>1, VariablesBetween
<1>11. variables[s] = heap[x].id
  BY <1>1, <1>3, <1>10 DEF NameOf
<1>12. objects[variables[s]].ptrs[j] = NameOf(heap[x].ptrs[j])
  BY <1>5, <1>6, <1>11
<1>13. variables' = [variables EXCEPT ![r] = objects[variables[s]].ptrs[j]]
  BY <1>7, <1>9, <1>10, <1>12
<1>14. variables[s] # 0 /\ j <= Len(objects[variables[s]].ptrs)
  BY <1>1, <1>3, <1>5, <1>11
<1> QED BY <1>9, <1>13, <1>14 DEF Store!El, Store!Word

\* The start of a collection: what it will not move is already in the new heap.
LEMMA BeginCarries ==
  ASSUME IInv, IInv', Named, phase = "run", NEW alloc, CallCollector(alloc), UNCHANGED <<heap, registers>>,
         NEW C, AliveIn(C), \A r \in RootList : root'[r] = Data \/ root'[r] \in C
  PROVE  Named' /\ Store!Keep(objects) /\ variables' = [r \in RootList |-> NameOf(root'[r])]
<1>1. Running /\ ~Collecting /\ Collecting' /\ phase' = "roots" /\ i' = 1 /\ ~(phase' = "halt")
  BY DEF Running, Collecting, CallCollector
<1>2. Between /\ AtRest
  BY <1>1, IsBetween, Resting
<1>3. FieldsAre'
  BY <1>1, FieldsOfHomesNext
<1>4. C \subseteq Starts(heap) /\ Starts(heap) \subseteq Addr /\ Homes = Starts(heap)
  BY <1>1, <1>2, RootsAlive, HomesAre DEF Between
<1>5. \A x : x \in Starts(to)' <=> x \in Starts(heap) /\ Outside(x)'
  <2>1. CASE StartMajor
    <3>1. (\A x : ~Outside(x)') /\ \A x \in Addr : to'[x].kind = "unused"
      BY <2>1 DEF StartMajor, Outside, Unused
    <3> QED BY <3>1 DEF Starts, Addr
  <2>2. CASE StartMinor
    <3>1. \A x : Outside(x)' <=> x < GenStart \/ EndOfHeap <= x
      BY <2>2 DEF StartMinor, Outside, registers
    <3>2. \A x \in Addr : to'[x] = IF x < GenStart \/ EndOfHeap <= x THEN heap[x] ELSE Unused
      BY <2>2 DEF StartMinor
    <3>3. Unused.kind = "unused"
      BY DEF Unused
    <3> QED BY <3>1, <3>2, <3>3 DEF Starts, Addr
  <2> QED BY <2>1, <2>2 DEF CallCollector
<1>6. \A x \in Starts(heap) : Outside(x)' => to'[x] = heap[x]
  <2>1. CASE StartMajor
    BY <2>1 DEF StartMajor, Outside
  <2>2. CASE StartMinor
    <3>1. \A x : Outside(x)' <=> x < GenStart \/ EndOfHeap <= x
      BY <2>2 DEF StartMinor, Outside, registers
    <3> QED BY <1>4, <2>2, <3>1 DEF StartMinor
  <2> QED BY <2>1, <2>2 DEF CallCollector
<1>7. \A x : x \in Left(heap)' <=> x \in Starts(heap) /\ ~Outside(x)'
  <2>1. \A x \in Addr : isDataElement(heap[x]) <=> x \in Starts(heap)
    BY <1>2, StartsAre DEF AtRest, Begins
  <2>2. \A x : x \in Left(heap)' <=> x \in Addr /\ ~Outside(x)' /\ isDataElement(heap[x])
    BY DEF Left, Addr, isDataElement
  <2> QED BY <1>4, <2>1, <2>2
<1>8. PICK f : f = [l \in Places |-> IF Outside(l)' THEN New(l) ELSE l]
  OBVIOUS
<1>9. \A l \in Starts(heap) : f[l] = IF Outside(l)' THEN New(l) ELSE l
  BY <1>4, <1>8, PlacesAre
<1>10. ASSUME NEW p \in Starts(heap) PROVE Seen(p)' = f[p]
  <2>1. heap'[p].kind # "fwd"
    BY <1>2, <1>10 DEF AtRest, isDataElement
  <2> QED BY <1>1, <1>9, <2>1 DEF Seen, New
<1>11. \A k : k \in Homes' <=> \E l \in Homes : k = f[l]
  <2>1. \A k : k \in Homes' <=> k \in Left(heap)' \/ \E x \in Starts(to)' : k = New(x)
    BY <1>1 DEF Homes, New
  <2> QED BY <1>4, <1>5, <1>7, <1>9, <2>1
<1>12. ASSUME NEW l \in Starts(heap) PROVE At(f[l])' = heap[l]
  <2>1. l < Limit /\ ~(New(l) < Limit) /\ New(l) - Limit = l
    BY <1>4, PlacesAre
  <2> QED BY <1>6, <1>9, <2>1 DEF At
<1>13. ASSUME NEW l \in Starts(heap), NEW j, j \in 1 .. Len(heap[l].ptrs), heap[l].ptrs[j] # Data
       PROVE  heap[l].ptrs[j] \in Starts(heap) /\ Field(f[l], j)' = f[heap[l].ptrs[j]]
  <2>1. PICK p : p = heap[l].ptrs[j]
    OBVIOUS
  <2>2. p \in Starts(heap)
    BY <1>2, <1>13, <2>1 DEF AtRest, Lead, Points
  <2>3. CASE Outside(l)'
    <3>1. l \in Starts(to)' /\ to'[l] = heap[l] /\ f[l] = New(l)
      BY <1>5, <1>6, <1>9, <2>3
    <3>2. NewField(l, j)'
      BY <1>3, <3>1 DEF FieldsAre
    <3>3. /\ p \in IF Scanned(l, j)' THEN Starts(to)' ELSE Starts(heap)'
          /\ Field(New(l), j)' = IF Scanned(l, j)' THEN New(p) ELSE Seen(to[l].ptrs[j])'
      BY <1>13, <2>1, <3>1, <3>2 DEF NewField, New, Data
    <3>4. Seen(to[l].ptrs[j])' = Seen(p)'
      BY <2>1, <3>1 DEF Seen, Outside, New
    <3>5. p \in Starts(to)' => f[p] = New(p)
      BY <1>5, <1>9
    <3> QED BY <1>10, <2>1, <2>2, <3>1, <3>3, <3>4, <3>5
  <2>4. CASE ~Outside(l)'
    <3>1. l \in Left(heap)' /\ f[l] = l
      BY <1>7, <1>9, <2>4
    <3>2. OldField(l, j)'
      BY <1>3, <3>1 DEF FieldsAre
    <3>3. Field(l, j)' = Seen(heap[l].ptrs[j])'
      BY <1>13, <3>2 DEF OldField, Data
    <3>4. Seen(heap[l].ptrs[j])' = Seen(p)'
      BY <2>1 DEF Seen, Outside, New
    <3> QED BY <1>10, <2>1, <2>2, <3>1, <3>3, <3>4
  <2> QED BY <2>3, <2>4
<1>14. ASSUME NEW l \in Starts(heap) PROVE CarriesPlace(f, Homes, l)
  <2>1. At(l) = heap[l] /\ \A j : Field(l, j) = heap[l].ptrs[j]
    BY <1>2 DEF Between
  <2> QED BY <1>4, <1>12, <1>13, <2>1 DEF CarriesPlace, PointerAt
<1>15. Carries(f, Homes)
  BY <1>4, <1>11, <1>14 DEF Carries
<1>16. ASSUME NEW r \in RootList, root'[r] # Data
       PROVE  root'[r] \in C /\ RootAt(r)' = f[root'[r]]
  <2>1. PICK p : p = root'[r]
    OBVIOUS
  <2>2. p \in C /\ p \in Starts(heap)
    BY <1>4, <1>16, <2>1
  <2>3. ~RootMoved(r)'
    BY <1>1 DEF RootMoved, RootList
  <2>4. RootAt(r)' = Seen(p)'
    BY <2>1, <2>3 DEF RootAt, Seen, Outside, New
  <2> QED BY <1>10, <2>1, <2>2, <2>4
<1>17. objects' = Store!Live(objects, variables')
  <2>1. \A r : RootHere(r) => RootAt(r) \in Homes
    BY HomesLead
  <2>2. \A r : RootHere(r)' => \E l \in C : RootAt(r)' = f[l]
    BY <1>16 DEF RootHere, RootList, Data
  <2> QED BY <1>15, <2>1, <2>2, CarriesStore
<1>18. variables' = [r \in RootList |-> NameOf(root'[r])]
  <2>1. ASSUME NEW r \in RootList, root'[r] # Data PROVE At(RootAt(r))'.id = heap[root'[r]].id
    <3>1. PICK l : l = root'[r]
      OBVIOUS
    <3>2. PICK k : k = f[l]
      OBVIOUS
    <3>3. l \in Starts(heap) /\ RootAt(r)' = k
      BY <1>4, <1>16, <2>1, <3>1, <3>2
    <3>4. At(RootAt(r))' = At(k)'
      BY <3>3 DEF At
    <3> QED BY <1>12, <3>1, <3>2, <3>3, <3>4
  <2>2. \A r \in RootList : (IF root'[r] = Data THEN 0 ELSE At(RootAt(r))'.id) = NameOf(root'[r])
    BY <2>1 DEF NameOf
  <2>3. variables' = [r \in RootList |-> IF root'[r] = Data THEN 0 ELSE At(RootAt(r))'.id]
    BY DEF variables, Data, RootList
  <2> QED BY <2>2, <2>3
<1>19. UNCHANGED (phase = "halt")
  BY <1>1
<1> QED BY <1>15, <1>17, <1>18, <1>19, CarriesNames DEF Store!Keep

\* The program lets go of all variables but names, with or without a collection.
LEMMA StoreMakeSpace ==
  ASSUME IInv, IInv', Named, phase = "run", NEW k \in Nat, NEW names \in SUBSET RootList,
         root' = [r \in RootList |-> IF r \in names THEN root[r] ELSE Data], UNCHANGED <<heap, registers>>,
         phase' = phase \/ CallCollector(k)
  PROVE  Named' /\ Store!MakeSpace(k, names)
<1>1. Running
  BY DEF Running
<1>2. PICK C : AliveIn(C)
  BY SomeAlive
<1>3. \A r \in RootList : root'[r] = Data \/ root'[r] \in C
  BY <1>1, <1>2, RootsAlive
<1>4. Named' /\ Store!Keep(objects) /\ variables' = [r \in RootList |-> NameOf(root'[r])]
  <2>1. CASE phase' = phase
    BY <1>1, <1>2, <1>3, <2>1, RootsCarry
  <2>2. CASE CallCollector(k)
    BY <1>2, <1>3, <2>2, BeginCarries
  <2> QED BY <2>1, <2>2
<1>5. variables = [r \in RootList |-> NameOf(root[r])]
  BY <1>1, VariablesBetween
<1>6. \A r \in RootList : NameOf(root'[r]) = IF r \in names THEN variables[r] ELSE 0
  BY <1>5 DEF NameOf
<1>7. variables' = [r \in RootList |-> IF r \in names THEN variables[r] ELSE 0]
  BY <1>4, <1>6
<1>8. asked = -1 /\ asked' \in {-1, k}
  BY DEF asked, CallCollector
<1> QED BY <1>4, <1>7, <1>8 DEF Store!MakeSpace, Store!Word, Store!Nothing, asked

LEMMA LenIs ==
  ASSUME NEW k \in Nat, NEW T, NEW q \in [1 .. k -> T]
  PROVE  Len(q) = k
<1>1. q \in Seq(T)
  BY SeqDef
<1>2. DOMAIN q = 1 .. k /\ DOMAIN q = 1 .. Len(q) /\ Len(q) \in Nat
  BY <1>1, LenProperties
<1> QED BY <1>2

\* The object an element of the program's heap stands for.
Shown(e) ==
  [kind |-> e.kind, len |-> e.len, ptrs |-> [j \in 1 .. Len(e.ptrs) |-> NameOf(e.ptrs[j])]]

LEMMA ObjectsShown == IInv /\ Running => \A x \in Starts(heap) : ObjectAt(x) = Shown(heap[x])
<1> SUFFICES ASSUME IInv, Running, NEW x \in Starts(heap) PROVE ObjectAt(x) = Shown(heap[x])
  OBVIOUS
<1>1. Between
  BY IsBetween
<1>2. At(x) = heap[x] /\ x \in Homes /\ \A j : Field(x, j) = heap[x].ptrs[j]
  BY <1>1 DEF Between
<1>3. ASSUME NEW j \in 1 .. Len(heap[x].ptrs)
      PROVE  (IF At(x).ptrs[j] = Data THEN 0 ELSE At(Field(x, j)).id) = NameOf(heap[x].ptrs[j])
  <2>1. CASE heap[x].ptrs[j] # Data
    <3>1. Field(x, j) \in Homes
      BY <1>2, <2>1, HomesLead DEF PointerAt
    <3>2. At(Field(x, j)) = heap[Field(x, j)]
      BY <1>1, <3>1 DEF Between
    <3> QED BY <1>2, <2>1, <3>2 DEF NameOf
  <2> QED BY <1>2, <2>1 DEF NameOf
<1> QED BY <1>2, <1>3 DEF ObjectAt, Shown

LEMMA ObjectsShownNext == IInv' /\ Running' => \A x \in Starts(heap)' : ObjectAt(x)' = Shown(heap[x])'
<1>1. (IInv /\ Running => \A x \in Starts(heap) : ObjectAt(x) = Shown(heap[x]))'
  BY ObjectsShown, PTL
<1> QED BY <1>1

LEMMA VariablesBetweenNext ==
  IInv' /\ Running' => /\ variables' = [r \in RootList |-> NameOf(root[r])']
                       /\ \A r \in RootList : root'[r] # Data => root'[r] \in Starts(heap)'
<1>1. IInv /\ Running => /\ variables = [r \in RootList |-> NameOf(root[r])]
                         /\ \A r \in RootList : root[r] # Data => root[r] \in Starts(heap)
  BY VariablesBetween
<1>2. (IInv /\ Running => /\ variables = [r \in RootList |-> NameOf(root[r])]
                          /\ \A r \in RootList : root[r] # Data => root[r] \in Starts(heap))'
  BY <1>1, PTL
<1> QED BY <1>2 DEF RootList, Data

\* One element, new or not, is written.
WritesOne(C, x, d, s) ==
  /\ Starts(heap)' = Starts(heap) \cup {x} /\ x \in Addr
  /\ \A y \in Starts(heap) : y # x => heap'[y] = heap[y] /\ heap[y].id # d
  /\ heap'[x].id = d /\ d \in Id /\ (x \in Starts(heap) => x \in C /\ heap[x].id = d)
  /\ \A j \in 1 .. Len(heap'[x].ptrs) : heap'[x].ptrs[j] = Data \/ heap'[x].ptrs[j] \in C \cup {x}
  /\ \A r \in RootList : root'[r] = Data \/ root'[r] \in C \cup {x}
  /\ DOMAIN s = DOMAIN objects \cup {d} /\ s[d] = Shown(heap[x])'
  /\ \A e \in DOMAIN objects : e # d => s[e] = objects[e]

LEMMA WriteCarries ==
  ASSUME IInv, IInv', Named, Running, Running', NEW C, AliveIn(C),
         NEW x, NEW d, NEW s, WritesOne(C, x, d, s)
  PROVE  Named' /\ objects' = Store!Live(s, variables')
<1>1. Between /\ Between' /\ C \subseteq Starts(heap)
  BY IsBetween, IsBetweenNext, RootsAlive
<1>2. /\ \A y : y \in Starts(heap)' <=> y \in Starts(heap) \/ y = x
      /\ \A y \in Starts(heap) : heap'[y].id = heap[y].id /\ (y # x => heap[y].id # d)
  BY DEF WritesOne
<1>3. Named'
  <2>1. \A y \in Starts(heap) : heap[y].id \in Id
    BY <1>1 DEF Named, Between
  <2>2. \A y, z \in Starts(heap) : heap[y].id = heap[z].id => y = z
    BY <1>1 DEF Named, Between
  <2>3. Id' = Id /\ Homes' = Starts(heap)' /\ \A y \in Starts(heap)' : At(y)' = heap'[y]
    BY <1>1 DEF Between, Id
  <2>4. heap'[x].id = d /\ d \in Id
    BY DEF WritesOne
  <2>5. \A y \in Starts(heap)' : heap'[y].id \in Id
    BY <1>2, <2>1, <2>4
  <2>6. \A y, z \in Starts(heap)' : heap'[y].id = heap'[z].id => y = z
    BY <1>2, <2>2, <2>4
  <2> QED BY <2>3, <2>5, <2>6 DEF Named
<1>4. PICK Z : Z = C \cup {x}
  OBVIOUS
<1>5. \A l \in Z : l \in Starts(heap)' /\ At(l)' = heap'[l] /\ \A j : Field(l, j)' = heap'[l].ptrs[j]
  BY <1>1, <1>2, <1>4 DEF Between
<1>6. RootsIn(Z)'
  <2>1. \A r : RootAt(r)' = root'[r]
    BY <1>1 DEF Between
  <2> QED BY <1>4, <2>1 DEF RootsIn, RootHere, RootList, Data, WritesOne
<1>7. ASSUME NEW l \in C, l # x
      PROVE  /\ heap'[l] = heap[l] /\ objects[heap[l].id] = Shown(heap[l]) /\ heap[l].id \in DOMAIN objects
             /\ \A j \in 1 .. Len(heap[l].ptrs) : heap[l].ptrs[j] # Data => heap[l].ptrs[j] \in C
  BY <1>1, <1>7, ObjectBetween, ObjectsShown DEF WritesOne
<1>8. ASSUME NEW l \in Z, NEW j \in 1 .. Len(heap'[l].ptrs)
      PROVE  heap'[l].ptrs[j] = Data \/ heap'[l].ptrs[j] \in Z
  <2>1. CASE l = x
    BY <1>4, <1>8, <2>1 DEF WritesOne
  <2>2. CASE l # x
    BY <1>4, <1>7, <1>8, <2>2
  <2> QED BY <2>1, <2>2
<1>9. FieldsIn(Z, Z)'
  BY <1>5, <1>8 DEF FieldsIn, PointerAt, Data
<1>10. \A e \in DOMAIN s : e \in DOMAIN objects \/ e = d
  BY DEF WritesOne
<1>11. \A l \in Z : heap'[l].id \in DOMAIN s
  BY <1>2, <1>4, <1>7 DEF WritesOne
<1>12. ASSUME NEW l \in Z PROVE ObjectAt(l)' = s[heap'[l].id]
  <2>1. ObjectAt(l)' = Shown(heap[l])'
    BY <1>5, ObjectsShownNext
  <2>2. CASE l = x
    BY <2>1, <2>2 DEF WritesOne, Shown, NameOf
  <2>3. CASE l # x
    <3>1. l \in C /\ heap'[l] = heap[l] /\ heap[l].id # d
      BY <1>1, <1>4, <2>3 DEF WritesOne
    <3>2. \A j \in 1 .. Len(heap[l].ptrs) : NameOf(heap[l].ptrs[j])' = NameOf(heap[l].ptrs[j])
      <4>1. ASSUME NEW j \in 1 .. Len(heap[l].ptrs)
            PROVE  NameOf(heap[l].ptrs[j])' = NameOf(heap[l].ptrs[j])
        <5>1. PICK p : p = heap[l].ptrs[j]
          OBVIOUS
        <5>2. p = Data \/ heap'[p].id = heap[p].id
          BY <1>1, <1>2, <1>7, <2>3, <3>1, <5>1
        <5>3. NameOf(heap[l].ptrs[j])' = IF p = Data THEN 0 ELSE heap'[p].id
          BY <3>1, <5>1 DEF NameOf, Data
        <5> QED BY <5>1, <5>2, <5>3 DEF NameOf
      <4> QED BY <4>1
    <3>3. Shown(heap[l])' = Shown(heap[l])
      BY <3>1, <3>2 DEF Shown
    <3> QED BY <1>7, <2>1, <2>3, <3>1, <3>3 DEF WritesOne
  <2> QED BY <2>2, <2>3
<1>13. Whole(s)
  <2>1. Whole(objects)
    BY StoreIsWhole
  <2>2. DOMAIN s \subseteq Id
    BY <2>1 DEF Whole, WritesOne
  <2>3. ASSUME NEW e \in DOMAIN objects, e # d PROVE Store!Fields(s[e]) \subseteq DOMAIN s
    BY <2>1, <2>3 DEF Whole, WritesOne
  <2>4. Store!Fields(s[d]) \subseteq DOMAIN s
    <3>1. PICK k \in Nat : k = Len(heap'[x].ptrs)
      <4>1. heap' \in Heaps /\ x \in Addr
        BY DEF IInv, TypeOK, Heaps, Element, Addr, Val, WritesOne, Data
      <4> QED BY <4>1, ElementFacts, LenProperties
    <3>2. PICK q : q = s[d].ptrs
      OBVIOUS
    <3>3. s[d].ptrs = [j \in 1 .. k |-> NameOf(heap[x].ptrs[j])']
      BY <3>1 DEF WritesOne, Shown
    <3>4. \A j \in 1 .. k : q[j] = 0 \/ q[j] \in DOMAIN s
      <4>1. ASSUME NEW j \in 1 .. k PROVE q[j] = 0 \/ q[j] \in DOMAIN s
        <5>1. q[j] = IF heap'[x].ptrs[j] = Data THEN 0 ELSE heap'[heap'[x].ptrs[j]].id
          BY <3>2, <3>3 DEF NameOf, Data
        <5> QED BY <1>4, <1>8, <1>11, <3>1, <5>1
      <4> QED BY <4>1
    <3>5. Len(q) = k
      <4>1. q \in [1 .. k -> DOMAIN s \cup {0}]
        BY <3>2, <3>3, <3>4
      <4> QED BY <4>1, LenIs
    <3> QED BY <3>2, <3>4, <3>5 DEF Store!Fields, Store!Word
  <2> QED BY <1>10, <2>2, <2>3, <2>4 DEF Whole
<1>14. StandsFor(s, Z)'
  <2>1. Whole(s)'
    BY <1>13 DEF Whole
  <2>2. \A l \in Z : At(l)'.id \in DOMAIN s /\ ObjectAt(l)' = s[At(l)'.id]
    BY <1>5, <1>11, <1>12
  <2> QED BY <1>6, <1>9, <2>1, <2>2 DEF StandsFor
<1> QED BY <1>3, <1>14, StandsNext

\* A new object, from values the program holds.
LEMMA StoreNew ==
  ASSUME IInv, IInv', Named, NEW r \in RootList, NEW x, NEW e \in Element, Allocate(r, x, e),
         NextFree <= x, x < EndOfHeap, x \in Nat, e.id = FreshId, isDataElement(e),
         \A j \in 1 .. Len(e.ptrs) : e.ptrs[j] \in Held
  PROVE  Named' /\ Store!New(r, Shown(e))
<1>1. /\ phase = "run" /\ phase' = phase /\ Running /\ Running'
      /\ heap' = [heap EXCEPT ![x] = e] /\ root' = [root EXCEPT ![r] = x]
  BY DEF Allocate, Running, collector
<1>2. /\ heap \in Heaps /\ Limit \in Nat /\ NextFree \in Nat /\ EndOfHeap \in Nat /\ EndOfHeap <= Limit
      /\ Free(heap, NextFree, EndOfHeap) /\ root \in [RootList -> Val]
  BY <1>1, Resting DEF Shape, IInv, TypeOK
<1>3. x \in Addr /\ x \notin Starts(heap) /\ x # Data
  <2>1. x \in Addr
    BY <1>2, Limits
  <2>2. x \in NextFree .. EndOfHeap - 1
    BY <1>2
  <2> QED BY <1>2, <2>1, <2>2, StartsAre, Limits DEF Free, Data
<1>4. heap'[x] = e /\ \A y \in Addr : y # x => heap'[y] = heap[y]
  BY <1>1, <1>2, <1>3 DEF Heaps
<1>5. \A y : y \in Starts(heap)' <=> y \in Starts(heap) \/ y = x
  <2>1. e.kind # "unused"
    BY DEF isDataElement
  <2> QED BY <1>3, <1>4, <2>1 DEF Starts, Addr
<1>6. PICK d : d = FreshId
  OBVIOUS
<1>7. d \in Id /\ (\A y \in Addr : heap[y].id # d) /\ e.id = d
  BY <1>6, FreshIdIsId
<1>8. PICK C : AliveIn(C)
  BY SomeAlive
<1>9. C \subseteq Starts(heap) /\ Starts(heap) \subseteq Addr
      /\ \A q \in RootList : root[q] = Data \/ root[q] \in C
  BY <1>1, <1>8, RootsAlive, HomesAre
<1>10. \A v : v \in Held => v = Data \/ v \in C
  BY <1>9 DEF Held
<1>11. \A q \in RootList : root'[q] = IF q = r THEN x ELSE root[q]
  BY <1>1, <1>2
<1>12. \A v : v = Data \/ v \in C => NameOf(v)' = NameOf(v)
  BY <1>3, <1>4, <1>9 DEF NameOf, Data
<1>13. Shown(heap[x])' = Shown(e)
  <2>1. \A j \in 1 .. Len(e.ptrs) : NameOf(heap[x].ptrs[j])' = NameOf(e.ptrs[j])
    <3>1. ASSUME NEW j \in 1 .. Len(e.ptrs) PROVE NameOf(heap[x].ptrs[j])' = NameOf(e.ptrs[j])
      <4>1. PICK v : v = e.ptrs[j]
        OBVIOUS
      <4>2. NameOf(v)' = NameOf(v)
        BY <1>10, <1>12, <4>1
      <4>3. NameOf(heap[x].ptrs[j])' = NameOf(v)'
        BY <1>4, <4>1 DEF NameOf
      <4> QED BY <4>1, <4>2, <4>3
    <3> QED BY <3>1
  <2> QED BY <1>4, <2>1 DEF Shown
<1>14. PICK s : s = [k \in DOMAIN objects \cup {d} |-> IF k = d THEN Shown(e) ELSE objects[k]]
  OBVIOUS
<1>15. WritesOne(C, x, d, s)
  <2>1. Starts(heap)' = Starts(heap) \cup {x}
    BY <1>5
  <2>2. \A y \in Starts(heap) : y # x => heap'[y] = heap[y] /\ heap[y].id # d
    BY <1>4, <1>7, <1>9
  <2>3. \A j \in 1 .. Len(heap'[x].ptrs) : heap'[x].ptrs[j] = Data \/ heap'[x].ptrs[j] \in C \cup {x}
    BY <1>4, <1>10
  <2>4. \A q \in RootList : root'[q] = Data \/ root'[q] \in C \cup {x}
    BY <1>9, <1>11
  <2>5. DOMAIN s = DOMAIN objects \cup {d} /\ s[d] = Shown(heap[x])'
        /\ \A k \in DOMAIN objects : k # d => s[k] = objects[k]
    BY <1>13, <1>14
  <2> QED BY <1>3, <1>4, <1>7, <2>1, <2>2, <2>3, <2>4, <2>5 DEF WritesOne
<1>16. Named' /\ objects' = Store!Live(s, variables')
  BY <1>1, <1>8, <1>15, WriteCarries
<1>17. variables' = [variables EXCEPT ![r] = d]
  <2>1. variables = [q \in RootList |-> NameOf(root[q])]
    BY <1>1, VariablesBetween
  <2>2. variables' = [q \in RootList |-> NameOf(root[q])']
    BY <1>1, VariablesBetweenNext
  <2>3. ASSUME NEW q \in RootList PROVE NameOf(root[q])' = IF q = r THEN d ELSE NameOf(root[q])
    <3>1. PICK v : v = root'[q]
      OBVIOUS
    <3>2. NameOf(root[q])' = IF v = Data THEN 0 ELSE heap'[v].id
      BY <3>1 DEF NameOf, Data
    <3>3. CASE q = r
      BY <1>3, <1>4, <1>7, <1>11, <3>1, <3>2, <3>3
    <3>4. CASE q # r
      <4>1. v = root[q] /\ (v = Data \/ (v \in Addr /\ v # x))
        BY <1>3, <1>9, <1>11, <3>1, <3>4
      <4> QED BY <1>4, <3>2, <3>4, <4>1 DEF NameOf
    <3> QED BY <3>3, <3>4
  <2>4. variables' = [q \in RootList |-> IF q = r THEN d ELSE NameOf(root[q])]
    BY <2>2, <2>3
  <2> QED BY <2>1, <2>4
<1>18. d \notin DOMAIN objects
  <2>1. DOMAIN objects = {At(l).id : l \in C}
    BY <1>8, ObjectsAre
  <2>2. \A l \in C : At(l) = heap[l]
    BY <1>1, <1>9, IsBetween DEF Between
  <2> QED BY <1>7, <1>9, <2>1, <2>2
<1>19. Store!Keep(s)
  BY <1>1, <1>16 DEF Store!Keep
<1> QED BY <1>7, <1>14, <1>16, <1>17, <1>18, <1>19, Zenon DEF Store!New

\* What the program puts in an object is what the program of MLStore puts there.
LEMMA NamesHeld ==
  ASSUME IInv, Running, NEW v \in Held
  PROVE  NameOf(v) \in Store!Held
<1>1. variables = [q \in RootList |-> NameOf(root[q])]
  BY VariablesBetween
<1>2. CASE v = Data
  BY <1>2 DEF NameOf, Store!Held, Store!Word
<1>3. CASE v # Data
  <2>1. PICK q \in RootList : v = root[q]
    BY <1>3 DEF Held
  <2>2. NameOf(v) = variables[q]
    BY <1>1, <2>1
  <2> QED BY <2>2 DEF Store!Held
<1> QED BY <1>2, <1>3

LEMMA NamesOfPointers ==
  ASSUME IInv, Running, NEW ptrs \in PtrLists, NEW kind, NEW id,
         NEW e, e = DataElement(kind, ptrs, Len(ptrs), id)
  PROVE  /\ \A j \in 1 .. Len(e.ptrs) : e.ptrs[j] \in Held
         /\ \E names \in Store!PtrLists : Shown(e) = Store!Object(kind, names, Len(names))
<1>1. PICK k \in 1 .. MaxPtrs : ptrs \in [1 .. k -> Held]
  BY DEF PtrLists
<1>2. k \in Nat /\ Len(ptrs) = k
  BY <1>1, ShapeAssumption, LenIs
<1>3. PICK q : q = [j \in 1 .. k |-> NameOf(ptrs[j])]
  OBVIOUS
<1>4. q \in [1 .. k -> Store!Held]
  BY <1>1, <1>3, NamesHeld
<1>5. Len(q) = k
  BY <1>2, <1>4, LenIs
<1>6. q \in Store!PtrLists
  BY <1>1, <1>4 DEF Store!PtrLists
<1>7. e.ptrs = ptrs /\ e.kind = kind /\ e.len = k
  BY <1>2 DEF DataElement
<1>8. Shown(e) = Store!Object(kind, q, Len(q))
  BY <1>2, <1>3, <1>5, <1>7 DEF Shown, Store!Object
<1> QED BY <1>1, <1>2, <1>6, <1>7, <1>8

LEMMA StoreAlloc ==
  ASSUME IInv, IInv', Named, NEW r \in RootList, NEW ptrs \in PtrLists, Cons(r, ptrs) \/ Ref(r, ptrs)
  PROVE  Named' /\ \E names \in Store!PtrLists : Store!Cons(r, names) \/ Store!Ref(r, names)
<1>1. Running
  BY DEF Cons, Ref, AllocateLeft, Allocate, Running
<1>2. /\ NextFree \in Nat /\ EndOfHeap \in Nat /\ TriggerGC \in Nat /\ NextFree <= TriggerGC
      /\ TriggerGC <= EndOfHeap /\ space \in Nat /\ (phase = "run" => space <= TriggerGC - NextFree)
  BY <1>1, Resting
<1>3. CASE Cons(r, ptrs)
  <2>1. PICK e : e = DataElement("data", ptrs, Len(ptrs), FreshId)
    OBVIOUS
  <2>2. e \in Element /\ isDataElement(e) /\ e.id = FreshId
    BY <1>1, <2>1, FilledElement DEF DataElement
  <2>3. Allocate(r, NextFree, e) /\ phase = "run" /\ el_length(e) <= space
    BY <1>3, <2>1 DEF Cons, AllocateLeft, Allocate
  <2>4. NextFree < EndOfHeap
    <3>1. el_length(e) \in Nat /\ 0 < el_length(e)
      BY <2>2 DEF Element, el_length
    <3> QED BY <1>2, <2>3, <3>1
  <2>5. /\ \A j \in 1 .. Len(e.ptrs) : e.ptrs[j] \in Held
        /\ \E names \in Store!PtrLists : Shown(e) = Store!Object("data", names, Len(names))
    BY <1>1, <2>1, NamesOfPointers
  <2>6. Named' /\ Store!New(r, Shown(e))
    BY <1>2, <2>2, <2>3, <2>4, <2>5, StoreNew
  <2> QED BY <2>5, <2>6 DEF Store!Cons
<1>4. CASE Ref(r, ptrs)
  <2>1. PICK e : e = DataElement("ref", ptrs, Len(ptrs), FreshId)
    OBVIOUS
  <2>2. e \in Element /\ isDataElement(e) /\ e.id = FreshId
    BY <1>1, <2>1, FilledElement DEF DataElement
  <2>3. Allocate(r, EndOfHeap - el_length(e), e) /\ phase = "run" /\ el_length(e) <= space
    BY <1>4, <2>1 DEF Ref, Allocate
  <2>4. PICK x : x = EndOfHeap - el_length(e)
    OBVIOUS
  <2>5. x \in Nat /\ NextFree <= x /\ x < EndOfHeap
    <3>1. el_length(e) \in Nat /\ 0 < el_length(e)
      BY <2>2 DEF Element, el_length
    <3> QED BY <1>2, <2>3, <2>4, <3>1
  <2>6. /\ \A j \in 1 .. Len(e.ptrs) : e.ptrs[j] \in Held
        /\ \E names \in Store!PtrLists : Shown(e) = Store!Object("ref", names, Len(names))
    BY <1>1, <2>1, NamesOfPointers
  <2>7. Named' /\ Store!New(r, Shown(e))
    BY <2>2, <2>3, <2>4, <2>5, <2>6, StoreNew
  <2> QED BY <2>6, <2>7 DEF Store!Ref
<1> QED BY <1>3, <1>4

LEMMA StoreBox ==
  ASSUME IInv, IInv', Named, NEW r \in RootList, NEW len \in RawLens, Box(r, len)
  PROVE  Named' /\ Store!Box(r, len)
<1>1. Running
  BY DEF Box, AllocateLeft, Allocate, Running
<1>2. /\ NextFree \in Nat /\ EndOfHeap \in Nat /\ TriggerGC \in Nat /\ NextFree <= TriggerGC
      /\ TriggerGC <= EndOfHeap /\ space \in Nat /\ (phase = "run" => space <= TriggerGC - NextFree)
  BY <1>1, Resting
<1>3. PICK e : e = DataElement("data", <<>>, len, FreshId)
  OBVIOUS
<1>4. e \in Element /\ isDataElement(e) /\ e.id = FreshId /\ Len(e.ptrs) = 0
  BY <1>3, BoxElement DEF DataElement
<1>5. Allocate(r, NextFree, e) /\ phase = "run" /\ el_length(e) <= space
  BY <1>3, Zenon DEF Box, AllocateLeft, Allocate
<1>6. NextFree < EndOfHeap
  <2>1. el_length(e) \in Nat /\ 0 < el_length(e)
    BY <1>4 DEF Element, el_length
  <2> QED BY <1>2, <1>5, <2>1
<1>7. \A j \in 1 .. Len(e.ptrs) : e.ptrs[j] \in Held
  BY <1>4
<1>8. Shown(e) = Store!Object("data", <<>>, len)
  <2>1. PICK q : q = [j \in 1 .. Len(e.ptrs) |-> NameOf(e.ptrs[j])]
    OBVIOUS
  <2>2. q = <<>>
    <3>1. DOMAIN q = 1 .. 0 /\ q \in [1 .. 0 -> {}]
      BY <1>4, <2>1
    <3>2. Len(q) = 0
      BY <3>1, LenIs
    <3>3. q \in Seq({})
      BY <3>1, SeqDef
    <3> QED BY <3>2, <3>3, EmptySeq
  <2> QED BY <1>3, <2>1, <2>2 DEF Shown, DataElement, Store!Object
<1>9. Named' /\ Store!New(r, Shown(e))
  BY <1>2, <1>4, <1>5, <1>6, <1>7, StoreNew
<1> QED BY <1>8, <1>9 DEF Store!Box

LEMMA StoreUpdate ==
  ASSUME IInv, IInv', Named, NEW r \in RootList, NEW j \in 1 .. MaxPtrs, NEW v \in Held, Update(r, j, v)
  PROVE  Named' /\ \E w \in Store!Held : Store!Update(r, j, w)
<1>1. PICK x : x = root[r]
  OBVIOUS
<1>2. phase = "run" /\ phase' = phase /\ Running /\ Running' /\ root' = root
  BY DEF Update, Running, collector
<1>3. PICK e \in Element : Rewrites(x, j, v, e)
  BY <1>1, Written
<1>4. PICK k \in Nat : k = Len(heap[x].ptrs)
  BY <1>2, <1>3, HomesAre, IsBetween DEF Rewrites, Between
<1>5. /\ x # Data /\ x \in Starts(heap) /\ heap[x].kind = "ref" /\ j \in 1 .. k
      /\ e.kind = "ref" /\ e.len = heap[x].len /\ e.id = heap[x].id /\ Len(e.ptrs) = k
      /\ \A l \in 1 .. k : e.ptrs[l] = IF l = j THEN v ELSE heap[x].ptrs[l]
      /\ heap'[x] = e /\ \A y \in Addr : y # x => heap'[y] = heap[y]
  BY <1>3, <1>4 DEF Rewrites
<1>6. Starts(heap) \subseteq Addr /\ Between /\ x \in Addr
  BY <1>2, <1>5, HomesAre, IsBetween
<1>7. \A y : y \in Starts(heap)' <=> y \in Starts(heap)
  <2>1. heap[x].kind # "unused" /\ heap'[x].kind # "unused"
    BY <1>5
  <2> QED BY <1>5, <1>6, <2>1 DEF Starts, Addr
<1>8. PICK C : AliveIn(C)
  BY SomeAlive
<1>9. C \subseteq Starts(heap) /\ \A q \in RootList : root[q] = Data \/ root[q] \in C
  BY <1>2, <1>8, RootsAlive
<1>10. x \in C /\ (v = Data \/ v \in C)
  BY <1>1, <1>5, <1>9 DEF Held
<1>11. PICK d, w : d = heap[x].id /\ w = NameOf(v)
  OBVIOUS
<1>12. w \in Store!Held
  BY <1>2, <1>11, NamesHeld
<1>13. /\ d \in DOMAIN objects /\ d # 0 /\ objects[d] = ObjectAt(x) /\ Len(ObjectAt(x).ptrs) = k
       /\ ObjectAt(x).kind = "ref"
       /\ \A l \in 1 .. k : heap[x].ptrs[l] # Data => heap[x].ptrs[l] \in C
  BY <1>2, <1>4, <1>5, <1>8, <1>10, <1>11, ObjectBetween
<1>14. objects[d] = [kind |-> "ref", len |-> e.len,
                     ptrs |-> [l \in 1 .. k |-> NameOf(heap[x].ptrs[l])]]
  BY <1>2, <1>4, <1>5, <1>13, ObjectsShown DEF Shown
<1>15. d \in Id /\ \A y \in Starts(heap) : y # x => heap[y].id # d
  BY <1>5, <1>6, <1>11 DEF Named, Between
<1>16. \A y \in Starts(heap) : heap'[y].id = heap[y].id
  BY <1>5, <1>6
<1>17. \A u : u = Data \/ u \in C => NameOf(u)' = NameOf(u)
  BY <1>9, <1>16 DEF NameOf, Data
<1>18. Shown(heap[x])' = [kind |-> "ref", len |-> e.len,
                          ptrs |-> [l \in 1 .. k |-> IF l = j THEN w ELSE NameOf(heap[x].ptrs[l])]]
  <2>1. ASSUME NEW l \in 1 .. k
        PROVE  NameOf(heap[x].ptrs[l])' = IF l = j THEN w ELSE NameOf(heap[x].ptrs[l])
    <3>1. PICK u : u = e.ptrs[l]
      OBVIOUS
    <3>2. NameOf(heap[x].ptrs[l])' = NameOf(u)'
      BY <1>5, <3>1 DEF NameOf
    <3>3. u = IF l = j THEN v ELSE heap[x].ptrs[l]
      BY <1>5, <3>1
    <3>4. NameOf(u)' = NameOf(u)
      BY <1>10, <1>13, <1>17, <3>3
    <3> QED BY <1>11, <3>2, <3>3, <3>4
  <2>2. Shown(heap[x])' = [kind |-> heap'[x].kind, len |-> heap'[x].len,
                           ptrs |-> [l \in 1 .. Len(heap'[x].ptrs) |-> NameOf(heap[x].ptrs[l])']]
    BY DEF Shown
  <2>3. Shown(heap[x])' = [kind |-> "ref", len |-> e.len,
                           ptrs |-> [l \in 1 .. k |-> NameOf(heap[x].ptrs[l])']]
    BY <1>5, <2>2
  <2> QED BY <2>1, <2>3
<1>19. PICK s : s = [objects EXCEPT ![d].ptrs[j] = w]
  OBVIOUS
<1>20. objects = [f \in DOMAIN objects |-> objects[f]]
  BY <1>8, ObjectsAre
<1>21. s[d] = Shown(heap[x])'
  <2>1. PICK p : p = [l \in 1 .. k |-> NameOf(heap[x].ptrs[l])]
    OBVIOUS
  <2>2. objects[d] = [kind |-> "ref", len |-> e.len, ptrs |-> p]
    BY <1>14, <2>1
  <2>3. s[d] = [kind |-> "ref", len |-> e.len, ptrs |-> [p EXCEPT ![j] = w]]
    BY <1>13, <1>19, <2>2
  <2>4. [p EXCEPT ![j] = w] = [l \in 1 .. k |-> IF l = j THEN w ELSE NameOf(heap[x].ptrs[l])]
    BY <2>1
  <2> QED BY <1>18, <2>3, <2>4
<1>22. DOMAIN s = DOMAIN objects \cup {d} /\ \A f \in DOMAIN objects : f # d => s[f] = objects[f]
  BY <1>13, <1>19, <1>20
<1>23. WritesOne(C, x, d, s)
  <2>1. Starts(heap)' = Starts(heap) \cup {x}
    BY <1>5, <1>7
  <2>2. \A y \in Starts(heap) : y # x => heap'[y] = heap[y] /\ heap[y].id # d
    BY <1>5, <1>6, <1>15
  <2>3. \A l \in 1 .. Len(heap'[x].ptrs) : heap'[x].ptrs[l] = Data \/ heap'[x].ptrs[l] \in C \cup {x}
    BY <1>5, <1>10, <1>13
  <2>4. \A q \in RootList : root'[q] = Data \/ root'[q] \in C \cup {x}
    BY <1>2, <1>9
  <2> QED BY <1>5, <1>6, <1>10, <1>11, <1>15, <1>21, <1>22, <2>1, <2>2, <2>3, <2>4 DEF WritesOne
<1>24. Named' /\ objects' = Store!Live(s, variables')
  BY <1>2, <1>8, <1>23, WriteCarries
<1>25. variables[r] = d
  <2>1. variables = [q \in RootList |-> NameOf(root[q])]
    BY <1>2, VariablesBetween
  <2> QED BY <1>1, <1>5, <1>11, <2>1 DEF NameOf
<1>26. variables' = variables
  <2>1. variables = [q \in RootList |-> NameOf(root[q])]
    BY <1>2, VariablesBetween
  <2>2. variables' = [q \in RootList |-> NameOf(root[q])']
    BY <1>2, VariablesBetweenNext
  <2>3. ASSUME NEW q \in RootList PROVE NameOf(root[q])' = NameOf(root[q])
    <3>1. PICK u : u = root[q]
      OBVIOUS
    <3>2. NameOf(root[q])' = NameOf(u)'
      BY <1>2, <3>1 DEF NameOf
    <3> QED BY <1>9, <1>17, <3>1, <3>2
  <2> QED BY <2>1, <2>2, <2>3
<1>27. Store!Keep([objects EXCEPT ![variables[r]].ptrs[j] = w])
  BY <1>2, <1>19, <1>24, <1>25, Zenon DEF Store!Keep
<1>28. j <= Len(objects[variables[r]].ptrs) /\ objects[variables[r]].kind = "ref" /\ variables[r] # Store!Word
  BY <1>5, <1>13, <1>25 DEF Store!Word
<1> QED BY <1>12, <1>24, <1>26, <1>27, <1>28 DEF Store!Update

------------------------------------------------------------------------------
(***************************************************************************)
(* A collection that stops the program.  The size of a store is the number *)
(* of its cells, one for each word of each object.                         *)
(***************************************************************************)
Cells(s, D) == UNION {{d} \X (0 .. s[d].len) : d \in D}
First(D) == CHOOSE d \in D : TRUE
Adds(s, S, G) ==
  G = [D \in SUBSET S |-> IF D = {} THEN 0 ELSE s[First(D)].len + 1 + G[D \ {First(D)}]]

LEMMA CellsAre ==
  ASSUME NEW s, NEW D, IsFiniteSet(D), \A d \in D : s[d].len \in Nat
  PROVE  IsFiniteSet(Cells(s, D)) /\ Cardinality(Cells(s, D)) \in Nat
<1>1. PICK T : T = {{d} \X (0 .. s[d].len) : d \in D}
  OBVIOUS
<1>2. PICK f : f = [d \in D |-> {d} \X (0 .. s[d].len)]
  OBVIOUS
<1>3. f \in Surjection(D, T)
  BY <1>1, <1>2 DEF Surjection
<1>4. IsFiniteSet(T)
  BY <1>3, FS_Surjection
<1>5. \A X \in T : IsFiniteSet(X)
  <2>1. ASSUME NEW d \in D PROVE IsFiniteSet({d} \X (0 .. s[d].len))
    <3>1. PICK k \in Nat : k = s[d].len
      OBVIOUS
    <3>2. IsFiniteSet({d})
      BY FS_Singleton
    <3>3. IsFiniteSet(0 .. k)
      BY FS_Interval
    <3>4. IsFiniteSet({d} \X (0 .. k))
      BY <3>2, <3>3, FS_Product
    <3> QED BY <3>1, <3>4
  <2> QED BY <1>1, <2>1
<1>6. IsFiniteSet(UNION T)
  BY <1>4, <1>5, FS_UNION
<1> QED BY <1>1, <1>6, FS_CardinalityType DEF Cells

LEMMA CellsAdd ==
  ASSUME NEW s, NEW D, IsFiniteSet(D), \A d \in D : s[d].len \in Nat, NEW d \in D
  PROVE  Cardinality(Cells(s, D)) = s[d].len + 1 + Cardinality(Cells(s, D \ {d}))
<1>1. PICK X, Y : X = Cells(s, D \ {d}) /\ Y = {d} \X (0 .. s[d].len)
  OBVIOUS
<1>2. Cells(s, D) = X \cup Y
  BY <1>1 DEF Cells
<1>3. X \cap Y = {}
  BY <1>1 DEF Cells
<1>4. IsFiniteSet(D \ {d})
  BY FS_Subset
<1>5. IsFiniteSet(X) /\ Cardinality(X) \in Nat
  BY <1>1, <1>4, CellsAre
<1>6. PICK k \in Nat : k = s[d].len
  OBVIOUS
<1>7. IsFiniteSet(Y) /\ Cardinality(Y) = k + 1
  <2>1. IsFiniteSet({d}) /\ Cardinality({d}) = 1
    BY FS_Singleton
  <2>2. IsFiniteSet(0 .. k) /\ Cardinality(0 .. k) = k + 1
    BY FS_Interval
  <2>3. PICK U : U = {d} \X (0 .. k)
    OBVIOUS
  <2>4. IsFiniteSet(U) /\ Cardinality(U) = Cardinality({d}) * Cardinality(0 .. k)
    BY <2>1, <2>2, <2>3, FS_Product, Zenon
  <2>5. U = Y
    BY <1>1, <1>6, <2>3
  <2>6. 1 * (k + 1) = k + 1
    OBVIOUS
  <2> QED BY <2>1, <2>2, <2>4, <2>5, <2>6
<1>8. Cardinality(X \cup Y) = Cardinality(X) + Cardinality(Y) - 0
  <2>1. Cardinality(X \cap Y) = 0
    BY <1>3, FS_EmptySet
  <2>2. Cardinality(X \cup Y) = Cardinality(X) + Cardinality(Y) - Cardinality(X \cap Y)
    BY <1>5, <1>7, FS_Union
  <2> QED BY <2>1, <2>2
<1> QED BY <1>1, <1>2, <1>5, <1>6, <1>7, <1>8

LEMMA SizeIs ==
  ASSUME NEW s, IsFiniteSet(DOMAIN s), \A d \in DOMAIN s : s[d].len \in Nat
  PROVE  Store!Size(s) = Cardinality(Cells(s, DOMAIN s))
<1>1. PICK S : S = DOMAIN s
  OBVIOUS
<1>2. \A D \in SUBSET S : IsFiniteSet(D) /\ Cardinality(D) \in Nat
  BY <1>1, FS_Subset, FS_CardinalityType
<1>3. \A D \in SUBSET S : D # {} => First(D) \in D
  BY DEF First
<1>4. PICK F : F = [D \in SUBSET S |-> Cardinality(Cells(s, D))]
  OBVIOUS
<1>5. Cells(s, {}) = {}
  BY DEF Cells
<1>6. ASSUME NEW D \in SUBSET S
      PROVE  F[D] = IF D = {} THEN 0 ELSE s[First(D)].len + 1 + F[D \ {First(D)}]
  <2>1. CASE D = {}
    BY <1>4, <1>5, <2>1, FS_EmptySet
  <2>2. CASE D # {}
    <3>1. PICK d \in D : d = First(D)
      BY <1>3, <2>2
    <3>2. Cardinality(Cells(s, D)) = s[d].len + 1 + Cardinality(Cells(s, D \ {d}))
      BY <1>1, <1>2, CellsAdd
    <3> QED BY <1>4, <2>2, <3>1, <3>2
  <2> QED BY <2>1, <2>2
<1>7. Adds(s, S, F)
  <2>1. F = [D \in SUBSET S |-> F[D]]
    BY <1>4
  <2> QED BY <1>6, <2>1 DEF Adds
<1>8. PICK G : Adds(s, S, G) /\ Store!Size(s) = G[S]
  <2>1. F = [D \in SUBSET DOMAIN s |->
              IF D = {} THEN 0
              ELSE s[CHOOSE d \in D : TRUE].len + 1 + F[D \ {CHOOSE d \in D : TRUE}]]
    BY <1>1, <1>7 DEF Adds, First
  <2>2. \E G : /\ G = [D \in SUBSET DOMAIN s |->
                        IF D = {} THEN 0
                        ELSE s[CHOOSE d \in D : TRUE].len + 1 + G[D \ {CHOOSE d \in D : TRUE}]]
               /\ Store!Size(s) = G[DOMAIN s]
    BY <2>1, Zenon DEF Store!Size
  <2> QED BY <1>1, <2>2 DEF Adds, First
<1>9. PICK Bad : Bad = {D \in SUBSET S : G[D] # F[D]}
  OBVIOUS
<1>10. ASSUME Bad # {} PROVE FALSE
  <2>1. {Cardinality(D) : D \in Bad} \in SUBSET Nat /\ {Cardinality(D) : D \in Bad} # {}
    BY <1>2, <1>9, <1>10
  <2>2. PICK k \in {Cardinality(D) : D \in Bad} : \A l \in {Cardinality(D) : D \in Bad} : k <= l
    BY <2>1, Least
  <2>3. PICK D \in Bad : \A E \in Bad : Cardinality(D) <= Cardinality(E)
    BY <2>2
  <2>4. D \in SUBSET S /\ G[D] # F[D]
    BY <1>9, <2>3
  <2>5. G[D] = IF D = {} THEN 0 ELSE s[First(D)].len + 1 + G[D \ {First(D)}]
    BY <1>8, <2>4 DEF Adds
  <2>6. D # {} /\ G[D \ {First(D)}] # F[D \ {First(D)}]
    BY <1>6, <2>4, <2>5
  <2>7. PICK E : E = D \ {First(D)}
    OBVIOUS
  <2>8. E \in Bad /\ Cardinality(E) = Cardinality(D) - 1
    BY <1>2, <1>3, <1>9, <2>4, <2>6, <2>7, FS_RemoveElement
  <2>9. Cardinality(D) <= Cardinality(D) - 1 /\ Cardinality(D) \in Nat
    BY <1>2, <2>3, <2>4, <2>8
  <2> QED BY <2>9
<1>11. G[S] = F[S]
  BY <1>9, <1>10
<1> QED BY <1>1, <1>4, <1>8, <1>11

\* After a major collection everything in the new heap is alive.
LEMMA AllAlive ==
  ASSUME IInv, Traced, phase = "done", partial = FALSE, NEW C, AliveIn(C), NEW x \in Starts(to)
  PROVE  New(x) \in C
<1>1. Collecting /\ ~Running
  BY DEF Collecting, Running
<1>2. PICK X : X = {y \in Addr : New(y) \in C}
  OBVIOUS
<1>3. RootsIn(C) /\ FieldsIn(C, C)
  BY DEF AliveIn
<1>4. MovedRoots \subseteq X
  <2>1. ASSUME NEW r \in RootList, RootMoved(r), root[r] # Data PROVE root[r] \in X
    <3>1. RootAt(r) \in C /\ RootAt(r) = New(root[r])
      BY <1>3, <2>1 DEF RootsIn, RootHere, RootAt
    <3>2. root[r] \in Addr
      BY <2>1 DEF IInv, TypeOK, Val
    <3> QED BY <1>2, <3>1, <3>2
  <2> QED BY <2>1 DEF MovedRoots
<1>5. References \subseteq X
  BY DEF References
<1>6. ASSUME NEW y \in X, y \in Starts(to), NEW j \in 1 .. Len(to[y].ptrs), Scanned(y, j), to[y].ptrs[j] # Data
      PROVE  to[y].ptrs[j] \in X
  <2>1. PICK p : p = to[y].ptrs[j]
    OBVIOUS
  <2>2. p \in Starts(to) /\ Field(New(y), j) = New(p)
    BY <1>1, <1>6, <2>1, FieldsOfHomes DEF FieldsAre, NewField
  <2>3. PointerAt(New(y), j) /\ New(y) \in C
    BY <1>2, <1>6, PlacesAre DEF PointerAt
  <2>4. New(p) \in C
    BY <1>3, <2>2, <2>3 DEF FieldsIn
  <2>5. p \in Addr
    BY <2>2 DEF Starts
  <2> QED BY <1>2, <2>1, <2>4, <2>5
<1>7. Encloses(X)
  BY <1>6 DEF Encloses
<1>8. Kept \subseteq X
  <2>1. X \in SUBSET Addr
    BY <1>2
  <2> QED BY <1>1, <1>4, <1>5, <1>7, <2>1 DEF Traced
<1>9. x \in Kept
  BY DEF Kept, Outside
<1> QED BY <1>2, <1>8, <1>9

\* Then the live objects take all the words that are not free.
LEMMA LiveFills ==
  ASSUME IInv, Named, Traced, phase = "done", partial = FALSE
  PROVE  Store!Size(objects) \in Nat /\ Limit - n <= Store!Size(objects)
<1>1. Collecting /\ ~Running
  BY DEF Collecting, Running
<1>2. Now /\ Starts(to) \subseteq Addr /\ to \in Heaps
  BY <1>1, HomesAre
<1>3. PICK C : AliveIn(C)
  BY SomeAlive
<1>4. /\ DOMAIN objects = {At(l).id : l \in C} /\ DOMAIN objects \subseteq Id
      /\ \A l \in C : objects[At(l).id] = ObjectAt(l)
  BY <1>3, ObjectsAre
<1>5. \A d \in DOMAIN objects : objects[d].len \in Nat
  <2>1. ASSUME NEW l \in C PROVE ObjectAt(l).len \in Nat
    <3>1. l \in Homes
      BY <1>3 DEF AliveIn
    <3>2. At(l) \in Element
      BY <3>1, HomesAre
    <3> QED BY <3>2 DEF ObjectAt, Element
  <2> QED BY <1>4, <2>1
<1>6. PICK D, s : D = DOMAIN objects /\ s = objects
  OBVIOUS
<1>7. IsFiniteSet(D)
  <2>1. IsFiniteSet(Id)
    BY Limits, FS_Interval DEF Id
  <2> QED BY <1>4, <1>6, <2>1, FS_Subset
<1>8. PICK T : T = Cells(s, D)
  OBVIOUS
<1>9. IsFiniteSet(T) /\ Cardinality(T) \in Nat /\ Store!Size(s) = Cardinality(T)
  BY <1>5, <1>6, <1>7, <1>8, CellsAre, SizeIs
<1>10. \A x \in Starts(to) : to[x].id \in D /\ s[to[x].id].len = to[x].len
  <2>1. ASSUME NEW x \in Starts(to) PROVE to[x].id \in D /\ s[to[x].id].len = to[x].len
    <3>1. New(x) \in C /\ At(New(x)) = to[x]
      BY <1>2, <1>3, AllAlive, PlacesAre
    <3>2. to[x].id \in D /\ s[to[x].id] = ObjectAt(New(x))
      BY <1>4, <1>6, <3>1
    <3> QED BY <3>1, <3>2 DEF ObjectAt
  <2> QED BY <2>1
<1>11. PICK Used : Used = Addr \ (a .. a + n - 1)
  OBVIOUS
<1>12. a \in Nat /\ n \in Nat /\ a + n <= Limit /\ Limit \in Nat
  BY <1>2, NowNumbers, Limits DEF Now, Built, Positions
<1>13. IsFiniteSet(Used) /\ Cardinality(Used) = Limit - n
  <2>1. IsFiniteSet(Addr) /\ Cardinality(Addr) = Limit - 0
    BY <1>12, Interval DEF Addr
  <2>2. Cardinality(a .. a + n - 1) = n
    <3>1. PICK top \in Nat : top = a + n
      BY <1>12
    <3>2. a <= top /\ top - a = n
      BY <1>12, <3>1
    <3>3. Cardinality(a .. top - 1) = top - a
      BY <1>12, <3>2, Interval
    <3>4. a + n - 1 = top - 1
      BY <1>12, <3>1
    <3> QED BY <3>2, <3>3, <3>4
  <2>3. Addr \cap (a .. a + n - 1) = a .. a + n - 1
    BY <1>12 DEF Addr
  <2>4. PICK G : G = a .. a + n - 1
    OBVIOUS
  <2>5. IsFiniteSet(Addr \ G) /\ Cardinality(Addr \ G) = Cardinality(Addr) - Cardinality(Addr \cap G)
    BY <2>1, FS_Difference
  <2>6. Cardinality(Addr \cap G) = n
    BY <2>2, <2>3, <2>4
  <2> QED BY <1>11, <1>12, <2>1, <2>4, <2>5, <2>6
<1>14. ASSUME NEW y \in Used PROVE \E x \in Starts(to) : x <= y /\ y - x \in 0 .. to[x].len
  <2>1. y \in Addr /\ (y \in 0 .. a - 1 \/ y \in a + n .. Limit - 1)
    BY <1>11, <1>12 DEF Addr
  <2>2. Tiled(to, 0, a) /\ Tiled(to, a + n, Limit)
    BY <1>2 DEF Now, Built
  <2>3. \E x \in 0 .. y : Begins(to, x) /\ y <= x + to[x].len
    <3>1. CASE y \in 0 .. a - 1
      BY <2>2, <3>1 DEF Tiled
    <3>2. CASE y \in a + n .. Limit - 1
      <4>1. PICK x \in a + n .. y : Begins(to, x) /\ y <= x + to[x].len
        BY <2>2, <3>2 DEF Tiled
      <4>2. x \in 0 .. y
        BY <1>12
      <4> QED BY <4>1, <4>2
    <3> QED BY <2>1, <3>1, <3>2
  <2>4. PICK x \in 0 .. y : Begins(to, x) /\ y <= x + to[x].len
    BY <2>3
  <2>5. x \in Addr /\ x <= y /\ x \in Nat /\ y \in Nat
    BY <1>12, <2>1 DEF Addr
  <2>6. to[x].len \in Nat /\ x \in Starts(to)
    BY <1>2, <2>4, <2>5, ElementFacts, StartsAre
  <2>7. y - x \in 0 .. to[x].len
    BY <2>4, <2>5, <2>6
  <2> QED BY <2>5, <2>6, <2>7
<1>15. PICK own : own = [y \in Used |-> CHOOSE x \in Starts(to) : x <= y /\ y - x \in 0 .. to[x].len]
  OBVIOUS
<1>16. \A y \in Used : own[y] \in Starts(to) /\ own[y] <= y /\ y - own[y] \in 0 .. to[own[y]].len
  BY <1>14, <1>15
<1>17. PICK g : g = [y \in Used |-> <<to[own[y]].id, y - own[y]>>]
  OBVIOUS
<1>18. g \in [Used -> T]
  <2>1. ASSUME NEW y \in Used PROVE <<to[own[y]].id, y - own[y]>> \in T
    <3>1. PICK x \in Starts(to) : x = own[y]
      BY <1>16
    <3>2. PICK d \in D : d = to[x].id
      BY <1>10
    <3>3. y - x \in 0 .. s[d].len
      BY <1>10, <1>16, <3>1, <3>2
    <3>4. <<d, y - x>> \in {d} \X (0 .. s[d].len)
      BY <3>3
    <3> QED BY <1>8, <3>1, <3>2, <3>4 DEF Cells
  <2> QED BY <1>17, <2>1
<1>19. ASSUME NEW y \in Used, NEW z \in Used, g[y] = g[z] PROVE y = z
  <2>1. to[own[y]].id = to[own[z]].id /\ y - own[y] = z - own[z]
    BY <1>17, <1>19
  <2>2. \A u, v \in Starts(to) : to[u].id = to[v].id => u = v
    <3>1. ASSUME NEW u \in Starts(to), NEW v \in Starts(to), to[u].id = to[v].id PROVE u = v
      <4>1. New(u) \in Homes /\ New(v) \in Homes
        BY <1>1 DEF Homes
      <4>2. At(New(u)) = to[u] /\ At(New(v)) = to[v]
        BY <1>2, PlacesAre
      <4>3. New(u) = New(v)
        BY <3>1, <4>1, <4>2 DEF Named
      <4> QED BY <1>2, <4>3, PlacesAre
    <3> QED BY <3>1
  <2>3. own[y] = own[z] /\ own[y] \in Nat
    BY <1>2, <1>12, <1>16, <2>1, <2>2 DEF Addr
  <2>4. y \in Nat /\ z \in Nat
    BY <1>11, <1>12 DEF Addr
  <2> QED BY <2>1, <2>3, <2>4
<1>20. g \in Injection(Used, T)
  BY <1>18, <1>19 DEF Injection, IsInjective
<1>21. Cardinality(Used) <= Cardinality(T)
  BY <1>9, <1>20, FS_Injection
<1> QED BY <1>6, <1>9, <1>13, <1>21

LEMMA StoreStop ==
  ASSUME IInv, IInv', Named, Traced, Finish, phase' = "halt"
  PROVE  Named' /\ Store!Stop
<1>1. Named' /\ UNCHANGED <<objects, variables>>
  BY FinishUnseen
<1>2. PICK t : t = TriggerGC'
  OBVIOUS
<1>3. phase = "done" /\ partial = FALSE /\ t - a < AllocSize
  BY <1>2 DEF Finish, IInv, TypeOK
<1>4. Collecting /\ Now
  BY <1>3, HomesAre DEF Collecting, Running
<1>5. /\ t \in Nat /\ a <= t /\ (AllocSize <= n => AllocSize <= t - a)
      /\ AllocSize \in Nat /\ a \in Nat /\ n \in Nat /\ Limit \in Nat
  BY <1>2, <1>4, NowNumbers, TriggerAfter, Limits DEF IInv, TypeOK
<1>6. asked = AllocSize /\ asked' = asked /\ asked # -1
  BY <1>3, <1>5 DEF Finish, asked
<1>7. PICK z : z = Store!Size(objects)
  OBVIOUS
<1>8. z \in Nat /\ Limit - n <= z
  BY <1>3, <1>7, LiveFills
<1>9. z + AllocSize > Limit
  BY <1>3, <1>5, <1>8
<1> QED BY <1>1, <1>6, <1>7, <1>9 DEF Store!Stop, Store!Nothing, asked

LEMMA StoreGrant ==
  ASSUME IInv, IInv', Named, Finish, phase' # "halt"
  PROVE  Named' /\ Store!Grant
<1>1. Named' /\ UNCHANGED <<objects, variables>>
  BY FinishUnseen
<1>2. phase = "done" /\ phase' = "run" /\ AllocSize \in Nat
  BY DEF Finish, IInv, TypeOK
<1>3. asked # -1 /\ asked' = -1
  BY <1>2 DEF asked
<1> QED BY <1>1, <1>2, <1>3 DEF Store!Grant, Store!Nothing, asked

------------------------------------------------------------------------------
(***************************************************************************)
(* GenHeap implements MLStore.                                             *)
(***************************************************************************)
LEMMA StoreInit == Init => Named /\ Store!Init
<1> SUFFICES ASSUME Init PROVE Named /\ Store!Init
  OBVIOUS
<1>1. IInv /\ phase = "run" /\ Running
  BY InitHolds DEF Init, Running
<1>2. Starts(heap) = {} /\ \A r \in RootList : root[r] = Data
  BY DEF Init, Starts, Unused
<1>3. Between
  BY <1>1, IsBetween
<1>4. Named
  BY <1>2, <1>3 DEF Named, Between
<1>5. PICK C : AliveIn(C)
  BY <1>1, SomeAlive
<1>6. C = {}
  BY <1>2, <1>3, <1>5 DEF AliveIn, Between
<1>7. DOMAIN objects = {At(l).id : l \in C} /\ objects = [d \in DOMAIN objects |-> objects[d]]
  BY <1>1, <1>4, <1>5, ObjectsAre
<1>8. objects = [d \in {} |-> Store!Object("data", <<>>, 0)]
  <2>1. DOMAIN objects = {}
    BY <1>6, <1>7
  <2> QED BY <1>7, <2>1
<1>9. variables = [r \in RootList |-> 0]
  BY <1>2 DEF variables
<1>10. asked = -1
  BY <1>1 DEF Init, asked
<1> QED BY <1>1, <1>4, <1>8, <1>9, <1>10 DEF Store!Init, Store!Word, Store!Nothing

\* A step of nothing the program's view is made of.
LEMMA StoreStutters ==
  ASSUME IInv, IInv', Named, UNCHANGED <<heap, root, registers, collector>>
  PROVE  Named' /\ UNCHANGED <<objects, variables>>
<1>1. UNCHANGED <<heap, root, to, phase, partial, a, n, h1, r3, r2, r1, i, GenStart, EndOfHeap>>
  BY DEF registers, collector
<1>2. PICK f : f = [l \in Places |-> l]
  OBVIOUS
<1>3. Homes \subseteq Places /\ \A l \in Homes : f[l] = l
  BY <1>2, HomesAre
<1>4. /\ Collecting' = Collecting /\ Homes' = Homes
      /\ (\A p : Seen(p)' = Seen(p)) /\ (\A l : At(l)' = At(l))
      /\ \A x, j : FieldMoved(x, j)' = FieldMoved(x, j)
  BY <1>1 DEF Collecting, Running, Homes, Left, Starts, Seen, At, Outside, New, FieldMoved
<1>5. ASSUME NEW l, NEW j PROVE Field(l, j)' = Field(l, j)
  <2>1. PICK p : p = At(l).ptrs[j]
    OBVIOUS
  <2>2. Field(l, j) = IF l >= Limit /\ FieldMoved(l - Limit, j) THEN New(p) ELSE Seen(p)
    BY <2>1 DEF Field
  <2>3. Field(l, j)' = IF l >= Limit /\ FieldMoved(l - Limit, j)' THEN New(p) ELSE Seen(p)'
    BY <1>4, <2>1 DEF Field, New, Seen, Outside
  <2> QED BY <1>4, <2>2, <2>3
<1>6. ASSUME NEW l \in Homes PROVE CarriesPlace(f, Homes, l)
  <2>1. f[l] = l /\ At(l)' = At(l) /\ \A j : Field(l, j)' = Field(l, j)
    BY <1>3, <1>4, <1>5
  <2>2. \A j : PointerAt(l, j) => Field(l, j) \in Homes /\ f[Field(l, j)] = Field(l, j)
    BY <1>3, HomesLead
  <2> QED BY <2>1, <2>2 DEF CarriesPlace
<1>7. Carries(f, Homes)
  BY <1>3, <1>4, <1>6 DEF Carries
<1>8. ASSUME NEW r, RootHere(r) PROVE RootAt(r) \in Homes /\ RootAt(r)' = f[RootAt(r)]
  <2>1. RootAt(r) \in Homes
    BY <1>8, HomesLead
  <2>2. RootAt(r)' = RootAt(r)
    <3>1. PICK p : p = root[r]
      OBVIOUS
    <3>2. RootAt(r) = IF RootMoved(r) THEN New(p) ELSE Seen(p)
      BY <3>1 DEF RootAt
    <3>3. RootAt(r)' = IF RootMoved(r)' THEN New(p) ELSE Seen(p)'
      BY <1>1, <3>1 DEF RootAt, New, Seen, Outside
    <3>4. RootMoved(r)' <=> RootMoved(r)
      BY <1>1, <1>4 DEF RootMoved
    <3> QED BY <1>4, <3>2, <3>3, <3>4
  <2> QED BY <1>3, <2>1, <2>2
<1>9. \A r : RootHere(r)' <=> RootHere(r)
  BY <1>1 DEF RootHere, RootList, Data
<1> QED BY <1>7, <1>8, <1>9, NothingSeen DEF CarriesRoots

LEMMA StoreProgram ==
  ASSUME IInv, IInv', Named, Program
  PROVE  Named' /\ Store!Next
<1>1. phase = "run" /\ ~(phase = "halt")
  BY DEF Program, MakeSpace, ConfigGC, Cons, Ref, Box, AllocateLeft, Allocate, Update, El, Move
<1>2. ASSUME NEW k \in Requests, NEW names \in SUBSET RootList, MakeSpace(k, names)
      PROVE  Named' /\ Store!Next
  <2>1. phase' = phase \/ CallCollector(k)
    BY <1>2 DEF MakeSpace, collector
  <2>2. Named' /\ Store!MakeSpace(k, names)
    BY <1>1, <1>2, <2>1, KindAssumption, StoreMakeSpace DEF MakeSpace
  <2> QED BY <1>1, <2>2 DEF Store!Next
<1>3. ASSUME NEW names \in SUBSET RootList, ConfigGC(names) PROVE Named' /\ Store!Next
  <2>1. CallCollector(0)
    BY <1>3 DEF ConfigGC
  <2>2. Named' /\ Store!MakeSpace(0, names)
    BY <1>1, <1>3, <2>1, StoreMakeSpace DEF ConfigGC
  <2> QED BY <1>1, <2>2 DEF Store!Next
<1>4. ASSUME phase' = phase, Store!Operation PROVE Store!Next
  <2>1. asked = -1 /\ asked' = -1
    BY <1>1, <1>4 DEF asked
  <2> QED BY <1>1, <1>4, <2>1 DEF Store!Next, Store!Nothing
<1>5. ASSUME NEW r \in RootList, NEW e, NEW x, Allocate(r, x, e) PROVE phase' = phase
  BY <1>5 DEF Allocate, collector
<1>6. ASSUME NEW r \in RootList, NEW ptrs \in PtrLists, Cons(r, ptrs) \/ Ref(r, ptrs)
      PROVE  Named' /\ Store!Next
  <2>1. Named' /\ \E names \in Store!PtrLists : Store!Cons(r, names) \/ Store!Ref(r, names)
    BY <1>6, StoreAlloc
  <2>2. phase' = phase
    BY <1>6, <1>5 DEF Cons, Ref, AllocateLeft
  <2> QED BY <1>4, <2>1, <2>2 DEF Store!Operation
<1>7. ASSUME NEW r \in RootList, NEW len \in RawLens, Box(r, len) PROVE Named' /\ Store!Next
  <2>1. Named' /\ Store!Box(r, len)
    BY <1>7, StoreBox
  <2>2. phase' = phase
    BY <1>7, <1>5 DEF Box, AllocateLeft
  <2> QED BY <1>4, <2>1, <2>2 DEF Store!Operation
<1>8. ASSUME NEW r \in RootList, NEW j \in 1 .. MaxPtrs, NEW v \in Held, Update(r, j, v)
      PROVE  Named' /\ Store!Next
  <2>1. Named' /\ \E w \in Store!Held : Store!Update(r, j, w)
    BY <1>8, StoreUpdate
  <2>2. phase' = phase
    BY <1>8 DEF Update, collector
  <2> QED BY <1>4, <2>1, <2>2 DEF Store!Operation
<1>9. ASSUME NEW r \in RootList, NEW s \in RootList, NEW j \in 1 .. MaxPtrs, El(r, s, j)
      PROVE  Named' /\ Store!Next
  <2>1. Named' /\ Store!El(r, s, j)
    BY <1>9, StoreEl
  <2>2. phase' = phase
    BY <1>9 DEF El, collector
  <2> QED BY <1>4, <2>1, <2>2 DEF Store!Operation
<1>10. ASSUME NEW r \in RootList, NEW s \in RootList, Move(r, s) PROVE Named' /\ Store!Next
  <2>1. Named' /\ Store!Move(r, s)
    BY <1>10, StoreMove
  <2>2. phase' = phase
    BY <1>10 DEF Move, collector
  <2> QED BY <1>4, <2>1, <2>2 DEF Store!Operation
<1> QED BY <1>2, <1>3, <1>6, <1>7, <1>8, <1>9, <1>10 DEF Program

LEMMA StoreStep ==
  IInv /\ IInv' /\ Traced /\ Named /\ [Next]_vars => Named' /\ [Store!Next]_(Store!vars)
<1> SUFFICES ASSUME IInv, IInv', Traced, Named, [Next]_vars
             PROVE  Named' /\ (Store!Next \/ UNCHANGED Store!vars)
  BY DEF Store!vars
<1>1. CASE UNCHANGED vars
  <2>1. Named' /\ UNCHANGED <<objects, variables>>
    BY <1>1, StoreStutters DEF vars
  <2>2. phase' = phase /\ asked' = asked
    BY <1>1 DEF vars, collector, asked
  <2> QED BY <2>1, <2>2 DEF Store!vars
<1>2. CASE Program
  BY <1>2, StoreProgram
<1>3. CASE Collect
  <2>1. Named' /\ UNCHANGED <<objects, variables>>
    BY <1>3, CollectUnseen
  <2>2. CASE Finish
    <3>1. CASE phase' = "halt"
      <4>1. Store!Stop /\ ~(phase = "halt")
        BY <2>2, <3>1, StoreStop DEF Finish
      <4> QED BY <2>1, <4>1 DEF Store!Next
    <3>2. CASE phase' # "halt"
      <4>1. Store!Grant /\ ~(phase = "halt")
        BY <2>2, <3>2, StoreGrant DEF Finish
      <4> QED BY <2>1, <4>1 DEF Store!Next
    <3> QED BY <3>1, <3>2
  <2>3. CASE StillRegisters
    <3>1. phase # "halt" /\ phase' # "halt" /\ asked' = asked
      BY <2>3 DEF StillRegisters, Running, asked
    <3> QED BY <2>1, <3>1 DEF Store!vars
  <2> QED BY <1>3, <2>2, <2>3, CollectStill
<1>4. CASE Halted
  BY <1>1, <1>4 DEF Halted
<1> QED BY <1>1, <1>2, <1>3, <1>4 DEF Next

(* What a program computes does not depend on when the collector runs, which
   objects it moves or where to: no step of a collection changes, merges,
   duplicates or loses an object the program can reach, every step of the
   program does to its objects what dataLang says, a collection grants or
   refuses the request that called it and no other, and refuses it only if the
   live objects and that request exceed the semispace (safe_for_space). *)
THEOREM ImplementsMLStore == Spec => ImplementsStore
<1>1. Spec => [](IInv /\ Traced)
  BY IInvHolds, TracedHolds, PTL
<1>2. Spec => Store!Init /\ [][Store!Next]_(Store!vars)
  BY <1>1, StoreInit, StoreStep, PTL DEF Spec
<1>3. Spec => Store!Spec
  BY <1>2 DEF Store!Spec
<1> QED BY <1>3 DEF ImplementsStore
==============================================================================
