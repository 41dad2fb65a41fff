------------------------------- MODULE MLStore -------------------------------
(***************************************************************************)
(* What dataLang programs see of memory: objects with an identity, in a    *)
(* store without addresses, and no collector.  Objects no variable leads   *)
(* to are not part of the state.  A program may be stopped for lack of     *)
(* memory, but only while a request of its waits to be granted, and only   *)
(* when its live objects and that very request exceed the heap             *)
(* (safe_for_space).                                                       *)
(***************************************************************************)
EXTENDS Integers, Sequences

CONSTANTS
  Limit,     \* words of heap
  Vars,      \* the variables of the program
  Names,     \* identities objects can have
  MaxPtrs,   \* most fields of an object
  RawLens,   \* payloads of objects without fields
  Requests   \* words a MakeSpace asks for

VARIABLES
  store,     \* the live objects, by identity
  var,       \* the value of each variable
  asked,     \* the words the program waits for, or Nothing
  stopped    \* the program met NotEnoughSpace

vars == <<store, var, asked, stopped>>

Nothing == -1

Word == 0                     \* any value that is not an object
Object(kind, ptrs, len) == [kind |-> kind, ptrs |-> ptrs, len |-> len]
Fields(obj) == {obj.ptrs[j] : j \in 1 .. Len(obj.ptrs)} \ {Word}

\* The objects of s that the variables of v lead to.
Onward(s, D) == D \cup UNION {Fields(s[d]) : d \in D}
Live(s, v) ==
  LET reach[D \in SUBSET DOMAIN s] ==
        LET next == Onward(s, D) IN IF next = D THEN D ELSE reach[next]
  IN  [d \in reach[{v[r] : r \in Vars} \ {Word}] |-> s[d]]

\* The program goes on with objects s, less the garbage.
Keep(s) == store' = Live(s, var') /\ UNCHANGED stopped

Size(s) ==
  LET add[D \in SUBSET DOMAIN s] ==
        IF D = {} THEN 0
        ELSE LET d == CHOOSE d \in D : TRUE IN s[d].len + 1 + add[D \ {d}]
  IN  add[DOMAIN s]

Init == store = [d \in {} |-> Object("data", <<>>, 0)]
        /\ var = [r \in Vars |-> Word] /\ asked = Nothing /\ stopped = FALSE

Held == {Word} \cup {var[r] : r \in Vars}
PtrLists == UNION {[1 .. k -> Held] : k \in 1 .. MaxPtrs}

New(r, obj) ==
  \E d \in Names :
    /\ var' = [var EXCEPT ![r] = d]
    /\ d \notin DOMAIN store
    /\ Keep([e \in DOMAIN store \cup {d} |-> IF e = d THEN obj ELSE store[e]])

Cons(r, ptrs) == New(r, Object("data", ptrs, Len(ptrs)))
Ref(r, ptrs) == New(r, Object("ref", ptrs, Len(ptrs)))
Box(r, len) == New(r, Object("data", <<>>, len))

Update(r, j, v) ==
  /\ UNCHANGED var
  /\ var[r] # Word /\ store[var[r]].kind = "ref" /\ j <= Len(store[var[r]].ptrs)
  /\ Keep([store EXCEPT ![var[r]].ptrs[j] = v])

El(r, s, j) ==
  /\ var[s] # Word /\ j <= Len(store[var[s]].ptrs)
  /\ var' = [var EXCEPT ![r] = store[var[s]].ptrs[j]]
  /\ Keep(store)

Move(r, s) == var' = [var EXCEPT ![r] = var[s]] /\ Keep(store)

\* The operations that take no space but what they have been granted.
Operation ==
  \/ \E r, s \in Vars : Move(r, s)
  \/ \E r \in Vars, len \in RawLens : Box(r, len)
  \/ \E r \in Vars, ptrs \in PtrLists : Cons(r, ptrs) \/ Ref(r, ptrs)
  \/ \E r \in Vars, j \in 1 .. MaxPtrs, v \in Held : Update(r, j, v)
  \/ \E r, s \in Vars, j \in 1 .. MaxPtrs : El(r, s, j)

\* The program asks for k words: it has them at once, or it has to wait.
MakeSpace(k, names) ==
  /\ asked = Nothing /\ asked' \in {Nothing, k}
  /\ var' = [r \in Vars |-> IF r \in names THEN var[r] ELSE Word]
  /\ Keep(store)

\* What it waits for is granted.
Grant ==
  /\ asked # Nothing /\ asked' = Nothing
  /\ UNCHANGED <<store, var, stopped>>

\* What it waits for is refused: there is no room for it.
Stop ==
  /\ asked # Nothing /\ Size(store) + asked > Limit
  /\ stopped' = TRUE
  /\ UNCHANGED <<store, var, asked>>

\* A request for nothing is a collection the program asks for.
Next ==
  /\ ~stopped
  /\ \/ asked = Nothing /\ UNCHANGED asked /\ Operation
     \/ \E k \in Requests \cup {0}, names \in SUBSET Vars : MakeSpace(k, names)
     \/ Grant \/ Stop

Spec == Init /\ [][Next]_vars
=============================================================================
