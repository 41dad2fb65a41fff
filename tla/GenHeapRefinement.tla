-------------------------- MODULE GenHeapRefinement --------------------------
(***************************************************************************)
(* GenHeap implements MLStore and HeapSpace.                               *)
(*                                                                         *)
(* While the collector runs an object is found in the new heap if it has   *)
(* been copied and in the old heap otherwise, and a pointer leads to the   *)
(* one or the other according to whether it has been moved.  Under that    *)
(* reading every step of a collection leaves the objects the program can   *)
(* see as they are.                                                        *)
(***************************************************************************)
EXTENDS GenHeap

CONSTANT Dimword  \* one more than the largest machine word

(* What HeapSpace assumes of its words and of its heap; and a request is here
   a number of words that a word can hold: one that is larger is made into
   the largest word by HeapSpace's MakeSpaceBytes. *)
ASSUME DimwordAssumption ==
  Dimword \in Nat /\ Limit + 1 < Dimword /\ Requests \subseteq 0 .. Dimword - 1

Collecting == ~Running

\* A place is an address of the old heap, or Limit more than one of the new.
Places == 0 .. 2 * Limit - 1
New(p) == Limit + p
At(l) == IF l < Limit THEN heap[l] ELSE to[l - Limit]

\* Where the element is that a pointer of the old heap stands for.
Seen(p) ==
  IF ~Collecting THEN p
  ELSE IF Outside(p) THEN New(p)
  ELSE IF heap[p].kind = "fwd" THEN New(heap[p].to)
  ELSE p

\* Has gc_move been applied to pointer j of the element at x of the new heap?
FieldMoved(x, j) ==
  \/ x < h1
  \/ x = h1 /\ phase = "data" /\ j < i
  \/ r3 <= x /\ x < r2
  \/ x = r2 /\ phase = "refs" /\ j < i
  \/ r1 <= x

Field(l, j) ==
  IF l >= Limit /\ FieldMoved(l - Limit, j) THEN New(At(l).ptrs[j])
  ELSE Seen(At(l).ptrs[j])

FieldsOf(l) ==
  {Field(l, j) : j \in {k \in 1 .. Len(At(l).ptrs) : At(l).ptrs[k] # Data}}

RootMoved(r) == Collecting /\ (phase = "roots" => r < i)
RootAt(r) == IF RootMoved(r) THEN New(root[r]) ELSE Seen(root[r])

\* The object of the store that the element at place l stands for.
ObjectAt(l) ==
  [kind |-> At(l).kind, len |-> At(l).len,
   ptrs |-> [j \in 1 .. Len(At(l).ptrs) |->
              IF At(l).ptrs[j] = Data THEN 0 ELSE At(Field(l, j)).id]]

\* The places the program can reach, and the objects there, by identity.
PlacesOn(L) == L \cup UNION {FieldsOf(l) : l \in L}
ObjectsAt(L) ==
  [d \in {At(l).id : l \in L} |-> ObjectAt(CHOOSE l \in L : At(l).id = d)]
ObjectsFrom[L \in SUBSET Places] ==
  LET next == PlacesOn(L) IN IF next = L THEN ObjectsAt(L) ELSE ObjectsFrom[next]
objects == ObjectsFrom[{RootAt(r) : r \in {s \in RootList : root[s] # Data}}]

variables == [r \in RootList |-> IF root[r] = Data THEN 0 ELSE At(RootAt(r)).id]

\* While the program waits for the collector, it is for what AllocSize says.
asked == IF phase = "run" THEN -1 ELSE AllocSize

Store == INSTANCE MLStore WITH
  Vars <- RootList, Names <- Id,
  store <- objects, var <- variables, stopped <- (phase = "halt"),
  asked <- asked

(* The program cannot tell that there is a collector: collections, minor and
   major, between any two of its steps, never change, merge, duplicate or
   lose an object it can reach.  They grant or refuse the one request that
   called them, and refuse it only if the live objects and that request
   exceed the semispace. *)
ImplementsStore == Store!Spec

Space == INSTANCE HeapSpace WITH
  B <- 1, W <- Dimword, HeapLength <- Limit,
  VarLengths <- {}, VarLimit <- 0, Lists <- {}, AppendLimit <- 0, op <- "none", cells <- 0,
  pc <- IF phase \in {"run", "halt"} THEN phase ELSE "gc"

(* The registers move as HeapSpace says they do: a collection ends with no
   more words in use at either end than there were. *)
ImplementsSpace == Space!Init /\ [][Space!Next]_(Space!vars)

(* A major collection leaves no garbage, and a minor one only garbage it
   could not see: whatever is kept of the young generation was reachable
   from the variables or from some reference. *)
Kept == {x \in Starts(to) : ~Outside(x)}
Onward(X) == X \cup UNION {Points(to, x) : x \in X}
SeenFrom[X \in SUBSET Addr] ==
  LET next == Onward(X) IN IF next = X THEN X ELSE SeenFrom[next]
Pointers == {root[r] : r \in RootList} \ {Data}
CollectsGarbage ==
  phase = "done" =>
    Kept \subseteq SeenFrom[Pointers \cup
                            (IF partial THEN {x \in Starts(to) : EndOfHeap <= x} ELSE {})]
=============================================================================
