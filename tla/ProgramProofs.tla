---------------------------- MODULE ProgramProofs ----------------------------
(***************************************************************************)
(* Proofs about whole programs: that ML code is entered by one caller at a *)
(* time, and that it starts with a layout inside the block that was        *)
(* allocated, whatever sizes were asked for; then, with what numbers are   *)
(* as bytes of an array, that arguments and the results of the functions   *)
(* on doubles arrive as they are, that the file functions do and answer    *)
(* what BasisFFI says, and that no call goes beyond what a runtime         *)
(* expects.                                                                *)
(***************************************************************************)
EXTENDS Program, FiniteSetTheorems, SequenceTheorems, WellFoundedInduction, TLAPS

(***************************************************************************)
(* A program has one use for its runtime, so the parts of Program do not   *)
(* get into each other's way.                                              *)
(***************************************************************************)
NoFFI == {"none", "host", "debug"}

\* Foreign functions are called only by a program that uses one, and nothing
\* ends a program that has not begun.
OneUse ==
  /\ use \in NoFFI => call.name = "none"
  /\ use = "none" => end.how = "return"

LEMMA InitOneUse == Init => OneUse
BY DEF Init, CallInit, NoCall, OneUse, NoFFI

\* What calls foreign functions leaves the use as it is, and has one.
LEMMA ClientUses ==
  ASSUME OneUse, Client
  PROVE  use' = use /\ use \notin NoFFI
<1> USE DEF OneUse, NoFFI, CanStart, Returned, Running, Ask, Finish
<1>1. CASE CommandLineNext
  BY <1>1 DEF CommandLineNext, cline, Counted, cloop, AskArg, TakeArg
<1>2. CASE FilesNext
  BY <1>2 DEF FilesNext, openIn, openOut, close, read, output, Operation, Opened, Written, Done
<1>3. CASE DoublesNext
  BY <1>3 DEF DoublesNext, fromString, toString, fromInt, toInt, pow, function, AskDouble,
     ReadString, ReadText, ReadInt, ReadDouble, Result
<1>4. CASE \E c \in Codes : exit(c)
  BY <1>4 DEF exit
<1>5. CASE FFI
  BY <1>5 DEF FFI
<1> QED BY <1>1, <1>2, <1>3, <1>4, <1>5 DEF Client

LEMMA UseBegins ==
  ASSUME Use
  PROVE  use = "none" /\ UNCHANGED <<call, end>>
BY DEF Use, UseFiles, UseDoubles, UseArguments, UseExit, UseDebug, UseHost, Begin

LEMMA NextOneUse == OneUse /\ [Next]_vars => OneUse'
<1> SUFFICES ASSUME OneUse, [Next]_vars PROVE OneUse'
  OBVIOUS
<1> USE DEF OneUse
<1>1. CASE UNCHANGED <<use, call, end>>
  BY <1>1
<1>2. CASE Use
  BY <1>2, UseBegins DEF NoFFI
<1>3. CASE Client
  BY <1>3, ClientUses DEF NoFFI
<1>4. CASE HostNext
  BY <1>4 DEF HostNext, cml_main, cake_enter, cake_err3, cake_return, CallC, ReturnC, HostOnly, Top
<1>5. CASE \E clen \in {0, 1} : EmptyFFI(clen)
  BY <1>5 DEF EmptyFFI, call_vars
<1> QED BY <1>1, <1>2, <1>3, <1>4, <1>5 DEF Next, vars, call_vars

------------------------------------------------------------------------------
(***************************************************************************)
(* Entering ML code.                                                       *)
(***************************************************************************)
Active == {k \in 1 .. Len(frames) : frames[k] = "ml"}

\* What the runtime knows is what the stack says.
Entered ==
  /\ frames \in Seq({"C", "ml"}) /\ Len(frames) > 0 /\ frames[1] = "C"
  /\ can_enter \in {0, 1} /\ ready \in BOOLEAN
  /\ \A j, k \in Active : j = k
  /\ can_enter = 1 <=> (ready /\ Active = {})
  /\ ~ready => Active = {}
TurnedAway == use = "host" /\ end.how = "exit" => end.status = 3 /\ can_enter = 0

HostInv == OneUse /\ Entered /\ TurnedAway

LEMMA InitHostInv == Init => HostInv
<1> SUFFICES ASSUME Init PROVE HostInv
  OBVIOUS
<1>1. frames = <<"C">> /\ can_enter = 0 /\ ready = FALSE /\ use = "none"
  BY DEF Init, HostInit, CallInit
<1>2. Len(frames) = 1 /\ frames[1] = "C" /\ frames \in Seq({"C", "ml"})
  BY <1>1
<1>3. Active = {}
  BY <1>2 DEF Active
<1>4. /\ can_enter \in {0, 1} /\ ready \in BOOLEAN
      /\ \A j, k \in Active : j = k
      /\ can_enter = 1 <=> (ready /\ Active = {})
      /\ ~ready => Active = {}
  <2>1. (can_enter = 1) = FALSE /\ ~ready
    BY <1>1
  <2> QED BY <1>1, <1>3, <2>1
<1>5. Entered
  BY <1>2, <1>3, <1>4 DEF Entered
<1> QED BY <1>1, <1>5, InitOneUse DEF HostInv, TurnedAway

\* What a call and a return do to the stack.
LEMMA PushFacts ==
  ASSUME Entered, NEW who \in {"C", "ml"}, Push(who)
  PROVE  /\ frames' \in Seq({"C", "ml"}) /\ Len(frames') > 0 /\ frames'[1] = "C"
         /\ Active' = IF who = "ml" THEN Active \cup {Len(frames) + 1} ELSE Active
<1>1. /\ frames \in Seq({"C", "ml"}) /\ Len(frames) \in Nat /\ Len(frames) > 0 /\ frames[1] = "C"
      /\ frames' = Append(frames, who)
  BY DEF Entered, Push
<1>2. /\ frames' \in Seq({"C", "ml"}) /\ Len(frames') = Len(frames) + 1
      /\ \A k \in 1 .. Len(frames) : frames'[k] = frames[k]
      /\ frames'[Len(frames) + 1] = who
  BY <1>1
<1>3. Active' = {k \in 1 .. Len(frames) + 1 : frames'[k] = "ml"}
  BY <1>2 DEF Active
<1>4. CASE who = "ml"
  <2>1. Active' = Active \cup {Len(frames) + 1}
    BY <1>1, <1>2, <1>3, <1>4 DEF Active
  <2> QED BY <1>1, <1>2, <1>4, <2>1
<1>5. CASE who = "C"
  <2>1. Active' = Active
    BY <1>1, <1>2, <1>3, <1>5 DEF Active
  <2> QED BY <1>1, <1>2, <1>5, <2>1
<1> QED BY <1>4, <1>5

LEMMA PopFacts ==
  ASSUME Entered, Pop, Len(frames) > 1
  PROVE  /\ frames' \in Seq({"C", "ml"}) /\ Len(frames') > 0 /\ frames'[1] = "C"
         /\ Active' = Active \ {Len(frames)}
<1>1. /\ frames \in Seq({"C", "ml"}) /\ Len(frames) \in Nat /\ frames[1] = "C"
      /\ frames' = SubSeq(frames, 1, Len(frames) - 1)
  BY DEF Entered, Pop
<1>2. /\ frames' \in Seq({"C", "ml"}) /\ Len(frames') = Len(frames) - 1
      /\ \A k \in 1 .. Len(frames) - 1 : frames'[k] = frames[k]
  BY <1>1
<1>3. \A k : k \in Active' <=> k \in Active /\ k # Len(frames)
  BY <1>1, <1>2 DEF Active
<1> QED BY <1>1, <1>2, <1>3

LEMMA EnterStep ==
  ASSUME HostInv, HostNext
  PROVE  Entered' /\ TurnedAway'
<1> DEFINE n == Len(frames)
<1>1. /\ n \in Nat /\ n > 0 /\ can_enter \in {0, 1} /\ ready \in BOOLEAN /\ frames[1] = "C"
      /\ \A j, k \in Active : j = k
      /\ can_enter = 1 <=> (ready /\ Active = {})
      /\ ~ready => Active = {}
  BY DEF HostInv, Entered
<1>2. n \in Active <=> frames[n] = "ml"
  BY <1>1 DEF Active
<1> USE DEF HostInv, Entered, TurnedAway
<1>3. CASE cml_main
  <2>1. ~ready /\ ready' = TRUE /\ Push("ml") /\ can_enter' = can_enter
        /\ end.how = "return" /\ UNCHANGED <<use, end>>
    BY <1>3 DEF cml_main, Top, HostOnly
  <2>2. Active' = {n + 1} /\ can_enter = 0
    BY <1>1, <2>1, PushFacts
  <2> QED BY <1>1, <2>1, <2>2, PushFacts
<1>4. CASE cake_enter
  <2>1. can_enter = 1 /\ Push("ml") /\ can_enter' = 0 /\ ready' = ready
        /\ end.how = "return" /\ UNCHANGED <<use, end>>
    BY <1>1, <1>4 DEF cake_enter, Top, HostOnly
  <2>2. Active' = {n + 1}
    BY <1>1, <2>1, PushFacts
  <2> QED BY <1>1, <2>1, <2>2, PushFacts
<1>5. CASE cake_err3
  <2>1. can_enter = 0 /\ end'.status = 3 /\ UNCHANGED <<frames, can_enter, ready>>
    BY <1>5 DEF cake_err3, host_vars, Basis!cml_err, Basis!cml_exit, Basis!Exit
  <2> QED BY <2>1 DEF Active
<1>6. CASE cake_return
  <2>1. n \in Active /\ Pop /\ can_enter' = 1 /\ ready' = ready
        /\ end.how = "return" /\ UNCHANGED <<use, end>>
    BY <1>2, <1>6 DEF cake_return, Top, HostOnly
  <2>2. n > 1
    BY <2>1, <1>1 DEF Active
  <2>3. Active' = {} /\ ready
    BY <1>1, <2>1, <2>2, PopFacts
  <2> QED BY <1>1, <2>1, <2>2, <2>3, PopFacts
<1>7. CASE CallC
  <2>1. Push("C") /\ UNCHANGED <<can_enter, ready>>
        /\ end.how = "return" /\ UNCHANGED <<use, end>>
    BY <1>7 DEF CallC, Top, HostOnly
  <2>2. Active' = Active
    BY <1>1, <2>1, PushFacts
  <2> QED BY <1>1, <2>1, <2>2, PushFacts
<1>8. CASE ReturnC
  <2>1. n > 1 /\ n \notin Active /\ Pop /\ UNCHANGED <<can_enter, ready>>
        /\ end.how = "return" /\ UNCHANGED <<use, end>>
    BY <1>2, <1>8 DEF ReturnC, Top, HostOnly
  <2>2. Active' = Active
    BY <1>1, <2>1, PopFacts
  <2> QED BY <1>1, <2>1, <2>2, PopFacts
<1> QED BY <1>3, <1>4, <1>5, <1>6, <1>7, <1>8 DEF HostNext

LEMMA NextHostInv == HostInv /\ [Next]_vars => HostInv'
<1> SUFFICES ASSUME HostInv, [Next]_vars PROVE HostInv'
  OBVIOUS
<1>1. OneUse'
  BY NextOneUse DEF HostInv
<1>2. ASSUME UNCHANGED host_vars PROVE Entered'
  BY <1>2 DEF HostInv, Entered, Active, host_vars
<1>3. CASE UNCHANGED host_vars /\ UNCHANGED <<use, end>>
  BY <1>1, <1>2, <1>3 DEF HostInv, TurnedAway, host_vars
<1>4. CASE UNCHANGED host_vars /\ Use
  BY <1>1, <1>2, <1>4, UseBegins DEF HostInv, TurnedAway, OneUse
<1>5. CASE UNCHANGED host_vars /\ Client
  BY <1>1, <1>2, <1>5, ClientUses DEF HostInv, TurnedAway, NoFFI
<1>6. CASE HostNext
  BY <1>1, <1>6, EnterStep DEF HostInv
<1>7. CASE \E clen \in {0, 1} : EmptyFFI(clen)
  BY <1>3, <1>7 DEF EmptyFFI, call_vars
<1> QED BY <1>3, <1>4, <1>5, <1>6, <1>7 DEF Next, vars, call_vars

(* However the host calls the program, and the program calls C functions that
   call it again, at most one activation of ML code is on the stack, and a
   caller is turned away exactly when there is one or nothing is initialised. *)
THEOREM OneEntry == Spec => []EntryExclusive
<1>1. HostInv => EntryExclusive
  <2> SUFFICES ASSUME HostInv PROVE EntryExclusive
    OBVIOUS
  <2>1. \A j, k \in Active : j = k
    BY DEF HostInv, Entered
  <2>2. Cardinality(Active) <= 1
    <3>1. CASE Active = {}
      BY <3>1, FS_EmptySet
    <3>2. CASE Active # {}
      <4>1. PICK k \in Active : TRUE
        BY <3>2
      <4>2. Active = {k}
        BY <4>1, <2>1
      <4>3. Cardinality({k}) = 1
        BY FS_Singleton
      <4> QED BY <4>2, <4>3
    <3> QED BY <3>1, <3>2
  <2>3. (can_enter = 1) = (ready /\ Active = {})
    BY DEF HostInv, Entered
  <2>4. use = "host" /\ end.how = "exit" => end.status = 3 /\ (Active # {} \/ ~ready)
    BY <2>3 DEF HostInv, Entered, TurnedAway
  <2> QED BY <2>2, <2>3, <2>4 DEF EntryExclusive, Active
<1> QED BY <1>1, InitHostInv, NextHostInv, PTL DEF Spec

------------------------------------------------------------------------------
(***************************************************************************)
(* The layout of a program's memory.                                       *)
(***************************************************************************)
\* m * q + r is cut in one way only.
LEMMA Division ==
  ASSUME NEW x \in Int, NEW m \in Nat \ {0}
  PROVE  x \div m \in Int /\ x % m \in 0 .. m - 1 /\ x = m * (x \div m) + (x % m)
OBVIOUS

LEMMA AtLeastOne ==
  ASSUME NEW m \in Nat \ {0}, NEW k \in Int, k > 0
  PROVE  m * k >= m
OBVIOUS

LEMMA OneQuotient ==
  ASSUME NEW m \in Nat \ {0}, NEW q \in Int, NEW r \in 0 .. m - 1
  PROVE  (m * q + r) % m = r /\ (m * q + r) \div m = q
<1> DEFINE x == m * q + r
           p == x \div m
           s == x % m
<1>1. x \in Int /\ p \in Int /\ s \in 0 .. m - 1 /\ x = m * p + s
  BY Division
<1>2. m * q - m * p = s - r
  <2>1. m * q \in Int /\ m * p \in Int /\ m * q + r = m * p + s
    BY <1>1
  <2> HIDE DEF x, p, s
  <2> QED BY <1>1, <2>1
<1>3. m * (q - p) = m * q - m * p /\ m * (p - q) = m * p - m * q
  BY <1>1
<1>4. ~(q - p > 0)
  BY <1>1, <1>2, <1>3, AtLeastOne
<1>5. ~(p - q > 0)
  BY <1>1, <1>2, <1>3, AtLeastOne
<1>6. p = q
  BY <1>1, <1>4, <1>5
<1> QED BY <1>1, <1>6

Multiple(x, m) == \E q \in Int : x = m * q

LEMMA Multiples ==
  ASSUME NEW m \in Nat \ {0}, NEW x \in Int, NEW y \in Int, Multiple(x, m), Multiple(y, m)
  PROVE  Multiple(x + y, m) /\ Multiple(x - y, m)
<1>1. PICK p \in Int, q \in Int : x = m * p /\ y = m * q
  BY DEF Multiple
<1>2. x + y = m * (p + q) /\ x - y = m * (p - q) /\ p + q \in Int /\ p - q \in Int
  BY <1>1
<1> QED BY <1>2 DEF Multiple

LEMMA MultipleRest ==
  ASSUME NEW m \in Nat \ {0}, NEW x \in Int
  PROVE  Multiple(x, m) <=> x % m = 0
<1>1. ASSUME NEW q \in Int, x = m * q PROVE x % m = 0
  BY <1>1, OneQuotient
<1>2. ASSUME x % m = 0 PROVE x = m * (x \div m)
  BY <1>2, Division
<1> QED BY <1>1, <1>2, Division DEF Multiple

\* Words, and what cutting a sum or a difference down to one does.
LEMMA Constants ==
  /\ W \in Nat \ {0} /\ B \in Nat \ {0} /\ Multiple(W, B)
  /\ Unit \in Nat /\ Multiple(Unit, B) /\ MaxStackAlloc \in Nat /\ MaxHeap \in Nat
  /\ DefaultUnits \subseteq Nat /\ EnvUnits \subseteq Nat
<1>1. W \in Nat \ {0} /\ B \in Nat \ {0} /\ 2 * B \in Nat \ {0} /\ Unit \in Nat
  BY StartAssumption
<1>2. PICK w \in Int : W = (2 * B) * w
  <2>1. W % (2 * B) = 0
    BY StartAssumption
  <2>2. Multiple(W, 2 * B)
    BY <1>1, <2>1, MultipleRest
  <2> QED BY <2>2 DEF Multiple
<1>3. W = B * (2 * w) /\ 2 * w \in Int
  BY <1>1, <1>2
<1>4. Multiple(Unit, B)
  BY <1>1, StartAssumption, MultipleRest
<1>5. Multiple(W, B)
  BY <1>3 DEF Multiple
<1>6. MaxStackAlloc \in Nat /\ MaxHeap \in Nat /\ DefaultUnits \subseteq Nat /\ EnvUnits \subseteq Nat
  BY <1>1, StartAssumption
<1> QED BY <1>1, <1>4, <1>5, <1>6

LEMMA WordOf ==
  ASSUME NEW x \in Int
  PROVE  /\ x % W \in 0 .. W - 1
         /\ Multiple(x, B) => Multiple(x % W, B)
         /\ x \in 0 .. W - 1 => x % W = x
<1>1. W \in Nat \ {0} /\ B \in Nat \ {0} /\ Multiple(W, B)
  BY Constants
<1>2. x \div W \in Int /\ x % W \in 0 .. W - 1 /\ x = W * (x \div W) + (x % W)
  BY <1>1, Division
<1>3. PICK w \in Int : W = B * w
  BY <1>1 DEF Multiple
<1>4. W * (x \div W) \in Int /\ Multiple(W * (x \div W), B)
  <2> DEFINE d == x \div W
  <2>1. d \in Int /\ W \in Int /\ B \in Int
    BY <1>1, <1>2
  <2> HIDE DEF d
  <2>2. W * d = B * (w * d) /\ w * d \in Int /\ W * d \in Int
    BY <1>3, <2>1
  <2> QED BY <2>2 DEF Multiple, d
<1>5. x % W = x - W * (x \div W)
  BY <1>2, <1>4
<1>6. Multiple(x, B) => Multiple(x % W, B)
  BY <1>1, <1>4, <1>5, Multiples
<1>7. x \in 0 .. W - 1 => x % W = x
  BY <1>1
<1> QED BY <1>2, <1>6, <1>7

\* A sum of two words, or of three, that comes round to a word.
LEMMA Lap ==
  ASSUME NEW y \in Int, NEW x \in 0 .. W - 1, y = x \/ y = x + W \/ y = x - W
  PROVE  y % W = x
<1>1. W \in Nat \ {0}
  BY Constants
<1>2. PICK k \in Int : y = W * k + x
  <2>1. x = W * 0 + x /\ x + W = W * 1 + x /\ x - W = W * (-1) + x
    BY <1>1
  <2> QED BY <2>1
<1> QED BY <1>1, <1>2, OneQuotient

LEMMA SumOfWords ==
  ASSUME NEW x \in 0 .. W - 1, NEW y \in 0 .. W - 1
  PROVE  /\ (x + y) % W \in 0 .. W - 1
         /\ (x + y) % W = IF x + y < W THEN x + y ELSE x + y - W
<1>1. W \in Nat \ {0} /\ x + y \in Int
  BY Constants
<1>2. CASE x + y < W
  <2>1. x + y \in 0 .. W - 1
    BY <1>1, <1>2
  <2> QED BY <1>2, <2>1, WordOf
<1>3. CASE ~(x + y < W)
  <2>1. x + y - W \in 0 .. W - 1 /\ x + y = (x + y - W) + W
    BY <1>1, <1>3
  <2>2. \A z \in 0 .. W - 1 : x + y = z + W => (x + y) % W = z
    BY <1>1, Lap
  <2> QED BY <1>3, <2>1, <2>2
<1> QED BY <1>2, <1>3

LEMMA TwoSums ==
  ASSUME NEW f \in 0 .. W - 1, NEW h \in 0 .. W - 1, NEW s \in 0 .. W - 1,
         NEW t \in 0 .. W - 1, t = h + s \/ t = h + s - W, f + t < W
  PROVE  (((f + h) % W) + s) % W = f + t
<1> DEFINE r == (f + h) % W
<1>1. r \in 0 .. W - 1 /\ (r = f + h \/ r = f + h - W) /\ W \in Nat
  BY SumOfWords, Constants
<1> HIDE DEF r
<1>2. /\ (r + s) % W \in 0 .. W - 1
      /\ (r + s) % W = r + s \/ (r + s) % W = r + s - W
  BY <1>1, SumOfWords
<1>3. (r + s) % W = f + t
  BY <1>1, <1>2
<1> QED BY <1>3 DEF r

LEMMA UnitsWords ==
  ASSUME NEW n \in Nat
  PROVE  Units(n) \in 0 .. W - 1 /\ Multiple(Units(n), B)
<1>1. PICK u \in Int : Unit = B * u
  BY Constants DEF Multiple
<1>2. n * Unit \in Int /\ n * Unit = B * (n * u) /\ n * u \in Int
  BY <1>1, Constants
<1> QED BY <1>2, WordOf DEF Units, Multiple

\* The sizes are words and multiples of the word's bytes; past the checks they
\* leave room for what init_code needs; then the block is what Allocate found.
Sizes ==
  /\ heap_sz \in 0 .. W - 1 /\ stack_sz \in 0 .. W - 1
  /\ Multiple(heap_sz, B) /\ Multiple(stack_sz, B)
Checked ==
  pc \in {"malloc", "init"} =>
    Total >= MinTotal /\ (main = "yes" => Total >= heap_sz)
Placed ==
  pc = "init" =>
    /\ block.first \in 1 .. W - 1 /\ Multiple(block.first, B)
    /\ block.len = Total /\ block.first + Total < W
    /\ regs = Blocks(block.first)
StartInv ==
  /\ pc \in {"main", "check", "malloc", "init", "ml", "exit"}
  /\ main \in {"basis", "yes", "pancake", "ag32"}
  /\ main = "ag32" => pc \in {"main", "ml"}
  /\ Sizes /\ Checked /\ Placed /\ (pc = "ml" => LayoutSafe)

LEMMA TotalWord ==
  ASSUME Sizes
  PROVE  /\ Total \in 0 .. W - 1 /\ Multiple(Total, B)
         /\ Total = heap_sz + stack_sz \/ Total = heap_sz + stack_sz - W
<1>1. heap_sz + stack_sz \in Int /\ Multiple(heap_sz + stack_sz, B)
  BY Constants, Multiples DEF Sizes
<1>2. Multiple(Total, B)
  BY <1>1, WordOf DEF Total, Add
<1> QED BY <1>2, SumOfWords DEF Total, Add, Sizes

\* Where the registers point: the end of the stack is the end of the block even
\* when the sum of the sizes has wrapped.
LEMMA Registers ==
  ASSUME StartInv, pc = "init"
  PROVE  /\ regs.r2 = block.first /\ regs.r4 = block.first + Total
         /\ regs.r3 \in 0 .. W - 1 /\ Multiple(regs.r3, B)
         /\ Total = heap_sz + stack_sz => regs.r3 = block.first + heap_sz
<1>1. PICK addr : addr = block.first
  OBVIOUS
<1>2. /\ addr \in 0 .. W - 1 /\ Multiple(addr, B) /\ addr + Total < W /\ regs = Blocks(addr)
      /\ heap_sz \in 0 .. W - 1 /\ stack_sz \in 0 .. W - 1
      /\ Multiple(heap_sz, B) /\ Multiple(stack_sz, B)
  BY <1>1 DEF StartInv, Placed, Sizes
<1>3. /\ Total \in 0 .. W - 1
      /\ Total = heap_sz + stack_sz \/ Total = heap_sz + stack_sz - W
  BY TotalWord DEF StartInv
<1>4. /\ regs.r2 = addr /\ regs.r3 = (addr + heap_sz) % W
      /\ regs.r4 = (((addr + heap_sz) % W) + stack_sz) % W
  BY <1>2 DEF Blocks, Add
<1>5. regs.r3 \in 0 .. W - 1 /\ Multiple(regs.r3, B)
  <2>1. addr \in Int /\ heap_sz \in Int /\ addr + heap_sz \in Int /\ B \in Nat \ {0}
    BY <1>2, Constants
  <2>2. Multiple(addr + heap_sz, B)
    BY <1>2, <2>1, Multiples
  <2> QED BY <1>4, <2>1, <2>2, WordOf
<1>6. (((addr + heap_sz) % W) + stack_sz) % W = addr + Total
  BY <1>2, <1>3, TwoSums
<1>7. Total = heap_sz + stack_sz => addr + heap_sz < W
  BY <1>2, <1>3, Constants
<1>8. Total = heap_sz + stack_sz => (addr + heap_sz) % W = addr + heap_sz
  BY <1>2, <1>7, SumOfWords
<1> QED BY <1>1, <1>4, <1>5, <1>6, <1>8

\* The block has room for what is kept free on both sides of register 3.
LEMMA RoomForStack ==
  ASSUME StartInv, pc = "init"
  PROVE  /\ MaxStackAlloc * B \in Nat /\ Multiple(MaxStackAlloc * B, B)
         /\ StoreLength * B \in Nat /\ Multiple(StoreLength * B, B)
         /\ StoreLength * B <= MaxStackAlloc * B - 2 * B
         /\ Total > 2 * (MaxStackAlloc * B) + 2 * B
<1>1. B \in Nat \ {0} /\ MaxStackAlloc \in Nat /\ StoreLength \in 0 .. MaxStackAlloc - 2
  BY StartAssumption
<1>2. (2 * MaxStackAlloc + 2) * B = 2 * (MaxStackAlloc * B) + 2 * B
  BY <1>1
<1>3. Total >= MinTotal /\ MinTotal > (2 * MaxStackAlloc + 2) * B
  BY StartAssumption DEF StartInv, Checked
<1>4. PICK k \in Nat : StoreLength + k + 2 = MaxStackAlloc
  <2>1. MaxStackAlloc - 2 - StoreLength \in Nat
    BY <1>1
  <2> QED BY <1>1, <2>1
<1>5. MaxStackAlloc * B = StoreLength * B + k * B + 2 * B /\ k * B \in Nat
  BY <1>1, <1>4
<1>6. \A n \in Nat : n * B = B * n /\ n * B \in Nat
  BY <1>1
<1>7. \A n \in Nat : Multiple(n * B, B)
  BY <1>6 DEF Multiple
<1>8. StoreLength * B <= MaxStackAlloc * B - 2 * B
  BY <1>1, <1>5, <1>6
<1>9. Total > 2 * (MaxStackAlloc * B) + 2 * B
  <2>1. 2 * (MaxStackAlloc * B) + 2 * B \in Nat /\ Total \in Nat /\ MinTotal \in Nat
    BY <1>1, <1>6, StartAssumption, TotalWord DEF StartInv
  <2> QED BY <1>2, <1>3, <2>1
<1> QED BY <1>1, <1>6, <1>7, <1>8, <1>9

LEMMA DownToMultiple ==
  ASSUME NEW x \in Nat, NEW m \in Nat \ {0}
  PROVE  \E p \in Nat : DownTo(x, m) = m * p /\ m * p <= x /\ x < m * p + m
<1>1. PICK p : p = x \div m
  OBVIOUS
<1>2. p \in Int /\ m * p \in Int /\ x % m \in 0 .. m - 1 /\ x = m * p + (x % m)
  BY <1>1, Division
<1>3. DownTo(x, m) = m * p /\ m * p <= x /\ x < m * p + m
  BY <1>2 DEF DownTo
<1>4. ~(0 - p > 0)
  <2>1. ASSUME 0 - p > 0 PROVE m * (0 - p) >= m
    BY <2>1, <1>2, AtLeastOne
  <2>2. m * (0 - p) = 0 - m * p
    BY <1>2
  <2> QED BY <1>2, <1>3, <2>1, <2>2
<1>5. p \in Nat
  BY <1>2, <1>4
<1> QED BY <1>3, <1>5

LEMMA DownToWhole ==
  ASSUME NEW x \in Nat
  PROVE  \E p \in Nat : /\ DownTo(x, 2 * B) = 2 * (B * p) /\ DownTo(x, 2 * B) \div 2 = B * p
                        /\ B * p \in Nat /\ 2 * (B * p) <= x /\ x < 2 * (B * p) + 2 * B
<1>1. B \in Nat \ {0} /\ 2 * B \in Nat \ {0}
  BY Constants
<1>2. PICK p \in Nat : /\ DownTo(x, 2 * B) = (2 * B) * p
                       /\ (2 * B) * p <= x /\ x < (2 * B) * p + 2 * B
  BY <1>1, DownToMultiple
<1>3. (2 * B) * p = 2 * (B * p) /\ B * p \in Nat
  BY <1>1
<1>4. (2 * (B * p)) \div 2 = B * p
  BY <1>3
<1> QED BY <1>1, <1>2, <1>3, <1>4

\* A difference of two words that is not negative.
LEMMA Difference ==
  ASSUME NEW x \in 0 .. W - 1, NEW y \in 0 .. W - 1, y <= x
  PROVE  Sub(x, y) = x - y
<1>1. x - y \in Int /\ x - y \in 0 .. W - 1
  BY Constants
<1> QED BY <1>1, WordOf DEF Sub

\* Register 3 is kept or put in the middle: it leaves room on both sides.
LEMMA SplitInBlock ==
  ASSUME StartInv, pc = "init"
  PROVE  /\ Split \in 0 .. W - 1 /\ Multiple(Split, B)
         /\ block.first + MaxStackAlloc * B <= Split
         /\ Split <= block.first + Total - MaxStackAlloc * B
<1>1. PICK addr, T, M : addr = block.first /\ T = Total /\ M = MaxStackAlloc * B
  OBVIOUS
<1>2. /\ addr \in 1 .. W - 1 /\ Multiple(addr, B) /\ addr + T < W /\ T \in 0 .. W - 1
      /\ regs.r2 = addr /\ regs.r4 = addr + T /\ regs.r3 \in 0 .. W - 1 /\ Multiple(regs.r3, B)
  BY <1>1, Registers, TotalWord DEF StartInv, Placed
<1>3. M \in Nat /\ T > 2 * M + 2 * B /\ W \in Nat /\ B \in Nat \ {0}
  BY <1>1, RoomForStack, Constants
<1>4. Add(addr, M) = addr + M /\ addr + M \in 0 .. W - 1 /\ addr + T \in 0 .. W - 1
  <2>1. addr + M \in Int /\ addr + M \in 0 .. W - 1 /\ addr + T \in 0 .. W - 1
    BY <1>2, <1>3
  <2> QED BY <2>1, WordOf DEF Add
<1>5. Sub(addr + T, M) = addr + T - M /\ Sub(addr + T, addr) = T
  <2>1. /\ M \in 0 .. W - 1 /\ M <= addr + T /\ addr \in 0 .. W - 1 /\ addr <= addr + T
        /\ (addr + T) - addr = T
    BY <1>2, <1>3
  <2> QED BY <1>4, <2>1, Difference
<1>6. PICK p \in Nat : /\ DownTo(T, 2 * B) \div 2 = B * p
                       /\ B * p \in Nat /\ 2 * (B * p) <= T /\ T < 2 * (B * p) + 2 * B
  BY <1>2, DownToWhole
<1>7. PICK H \in Nat : H = B * p
  BY <1>6
<1>8. addr + H \in 0 .. W - 1 /\ addr + M <= addr + H /\ addr + H <= addr + T - M
  BY <1>2, <1>3, <1>6, <1>7
<1>9. Multiple(addr + H, B) /\ Add(addr, H) = addr + H
  <2>1. Multiple(H, B) /\ addr \in Int
    BY <1>2, <1>7 DEF Multiple
  <2>2. H \in Int /\ addr + H \in Int /\ B \in Nat \ {0}
    BY <1>2, <1>3
  <2>3. Multiple(addr + H, B)
    BY <1>2, <2>1, <2>2, Multiples
  <2>4. (addr + H) % W = addr + H
    BY <1>8, <2>2, WordOf
  <2> QED BY <2>3, <2>4 DEF Add
<1>10. Split = IF regs.r3 < addr + M \/ addr + T - M < regs.r3 THEN addr + H ELSE regs.r3
  BY <1>1, <1>2, <1>4, <1>5, <1>6, <1>7, <1>9 DEF Split
<1> QED BY <1>1, <1>2, <1>3, <1>8, <1>9, <1>10

\* What is left as heap after the limit, and that its two halves are whole words.
LEMMA SemispacesInBlock ==
  ASSUME StartInv, pc = "init"
  PROVE  LET size == Semispaces(LimitHeap(Split))
         IN  \E p \in Nat : /\ size = 2 * (B * p) /\ size \div 2 = B * p /\ B * p \in Nat
                           /\ 2 * (B * p) <= Total - MaxStackAlloc * B
                           /\ 2 * (B * p) <= MaxHeap * B
<1>1. PICK addr, T, M, r : addr = block.first /\ T = Total /\ M = MaxStackAlloc * B /\ r = Split
  OBVIOUS
<1>2. /\ addr \in 1 .. W - 1 /\ addr + T < W /\ T \in 0 .. W - 1 /\ regs.r2 = addr
  BY <1>1, Registers, TotalWord DEF StartInv, Placed
<1>3. M \in Nat /\ T > 2 * M + 2 * B /\ W \in Nat \ {0} /\ B \in Nat \ {0}
  BY <1>1, RoomForStack, Constants
<1>4. r \in 0 .. W - 1 /\ addr + M <= r /\ r <= addr + T - M
  BY <1>1, SplitInBlock
<1>5. PICK mhb \in 0 .. W - 1 : mhb = MaxHeapBytes /\ (mhb <= MaxHeap * B) /\ MaxHeap * B \in Nat
  <2>1. MaxHeap * B \in Nat
    BY Constants
  <2> QED BY <1>3, <2>1 DEF MaxHeapBytes
<1>6. Sub(r, addr) = r - addr
  BY <1>2, <1>3, <1>4, Difference
<1>7. PICK l \in 0 .. W - 1 : l = IF mhb < r - addr THEN mhb ELSE r - addr
  <2>1. r - addr \in 0 .. W - 1
    BY <1>2, <1>3, <1>4
  <2> QED BY <1>5, <2>1
<1>8. l <= mhb /\ l <= T - M /\ addr + l \in 0 .. W - 1 /\ addr <= addr + l /\ (addr + l) - addr = l
  BY <1>2, <1>3, <1>4, <1>7
<1>9. LimitHeap(r) = addr + l
  <2>1. CASE mhb < r - addr
    <3>1. LimitHeap(r) = Add(addr, mhb) /\ l = mhb
      BY <1>2, <1>5, <1>6, <1>7, <2>1 DEF LimitHeap
    <3>2. Add(addr, mhb) = addr + mhb
      BY <1>8, <1>2, <3>1, WordOf DEF Add
    <3> QED BY <3>1, <3>2
  <2>2. CASE ~(mhb < r - addr)
    <3>1. LimitHeap(r) = r /\ l = r - addr
      BY <1>2, <1>5, <1>6, <1>7, <2>2 DEF LimitHeap
    <3> QED BY <1>2, <1>4, <3>1
  <2> QED BY <2>1, <2>2
<1>10. Semispaces(LimitHeap(r)) = DownTo(l, 2 * B)
  <2>1. Sub(addr + l, addr) = l
    BY <1>2, <1>8, Difference
  <2> QED BY <1>2, <1>9, <2>1 DEF Semispaces
<1>11. PICK p \in Nat : /\ DownTo(l, 2 * B) = 2 * (B * p) /\ DownTo(l, 2 * B) \div 2 = B * p
                        /\ B * p \in Nat /\ 2 * (B * p) <= l
  BY DownToWhole
<1>12. 2 * (B * p) <= T - M /\ 2 * (B * p) <= MaxHeap * B
  BY <1>2, <1>3, <1>5, <1>8, <1>11
<1> QED BY <1>1, <1>10, <1>11, <1>12

LEMMA CutLayout ==
  ASSUME StartInv, init_code
  PROVE  LayoutSafe'
<1>0. pc = "init" /\ pc' = "ml" /\ UNCHANGED <<main, heap_sz, stack_sz, block, regs>>
  BY DEF init_code
<1>1. PICK addr, T, M, S : /\ addr = block.first /\ T = Total /\ M = MaxStackAlloc * B
                       /\ S = StoreLength * B
  OBVIOUS
<1>2. /\ addr \in 1 .. W - 1 /\ Multiple(addr, B) /\ addr + T < W /\ T \in 0 .. W - 1 /\ Multiple(T, B)
      /\ regs.r2 = addr /\ regs.r4 = addr + T /\ block.len = T
  BY <1>0, <1>1, Registers, TotalWord DEF StartInv, Placed
<1>3. /\ M \in Nat /\ T > 2 * M + 2 * B /\ W \in Nat \ {0} /\ B \in Nat \ {0}
      /\ S \in Nat /\ Multiple(S, B) /\ S <= M - 2 * B
  BY <1>0, <1>1, RoomForStack, Constants
<1>4. PICK size, p \in Nat : /\ size = Semispaces(LimitHeap(Split))
                            /\ size = 2 * (B * p) /\ size \div 2 = B * p /\ B * p \in Nat
                            /\ 2 * (B * p) <= T - M /\ 2 * (B * p) <= MaxHeap * B
  BY <1>0, <1>1, SemispacesInBlock
<1>5. PICK H \in Nat : H = B * p /\ size = H + H /\ size \div 2 = H /\ Multiple(H, B)
  BY <1>3, <1>4 DEF Multiple
<1>6. H + H <= T - M /\ H + H <= MaxHeap * B
  BY <1>4, <1>5
<1>7. /\ addr + H \in 0 .. W - 1 /\ addr + size \in 0 .. W - 1 /\ addr + size + S \in 0 .. W - 1
      /\ B <= addr + T /\ addr + T \in 0 .. W - 1 /\ B \in 0 .. W - 1
      /\ addr + size + S < (addr + T) - B
  BY <1>2, <1>3, <1>5, <1>6
<1>8. /\ Add(addr, H) = addr + H /\ Add(addr, size) = addr + size
      /\ Add(addr + size, S) = addr + size + S /\ Sub(addr + T, B) = (addr + T) - B
  <2>1. addr + H \in Int /\ addr + size \in Int /\ addr + size + S \in Int
    BY <1>7
  <2>2. \A x, y \in 0 .. W - 1 : y <= x => Sub(x, y) = x - y
    BY Difference
  <2>3. Sub(addr + T, B) = (addr + T) - B
    BY <1>7, <2>2
  <2>4. \A x \in 0 .. W - 1 : x % W = x
    BY <1>3, WordOf
  <2>5. (addr + H) % W = addr + H /\ (addr + size) % W = addr + size /\ (addr + size + S) % W = addr + size + S
    BY <1>7, <2>4
  <2> QED BY <2>3, <2>5 DEF Add
<1>9. /\ Multiple(addr + H, B) /\ Multiple(addr + size + S, B) /\ Multiple((addr + T) - B, B)
  <2>1. addr \in Int /\ H \in Int /\ S \in Int /\ T \in Int /\ B \in Int /\ Multiple(B, B)
    <3>1. B = B * 1
      BY <1>3
    <3> QED BY <1>2, <1>3, <1>5, <3>1 DEF Multiple
  <2>2. addr + H \in Int /\ Multiple(addr + H, B)
    BY <1>2, <1>3, <1>5, <2>1, Multiples
  <2>3. H + H \in Int /\ Multiple(H + H, B)
    BY <1>3, <1>5, <2>1, Multiples
  <2>4. addr + (H + H) \in Int /\ Multiple(addr + (H + H), B)
    BY <1>2, <1>3, <2>1, <2>3, Multiples
  <2>5. Multiple((addr + (H + H)) + S, B)
    BY <1>3, <2>1, <2>4, Multiples
  <2>6. addr + T \in Int /\ Multiple(addr + T, B)
    BY <1>2, <1>3, <2>1, Multiples
  <2>7. Multiple((addr + T) - B, B)
    BY <1>3, <2>1, <2>6, Multiples
  <2>8. addr + size + S = (addr + (H + H)) + S
    BY <1>5
  <2>9. Multiple(addr + size + S, B)
    BY <2>5, <2>8 DEF Multiple
  <2> QED BY <2>2, <2>7, <2>9
<1>10. /\ addr % B = 0 /\ (addr + H) % B = 0 /\ H % B = 0
       /\ (addr + size + S) % B = 0 /\ ((addr + T) - B) % B = 0
  <2>1. /\ addr \in Int /\ addr + H \in Int /\ H \in Int /\ addr + size + S \in Int /\ (addr + T) - B \in Int
    BY <1>2, <1>3, <1>5, <1>7
  <2> QED BY <1>2, <1>3, <1>5, <1>9, <2>1, MultipleRest
<1>11. ml' = [CurrHeap |-> addr, OtherHeap |-> addr + H, HeapLength |-> H,
              base |-> addr + size + S, top |-> (addr + T) - B]
  BY <1>1, <1>2, <1>4, <1>5, <1>8 DEF init_code
<1>12. \A f \in {"CurrHeap", "OtherHeap", "HeapLength", "base", "top"} : ml'[f] % B = 0
  BY <1>10, <1>11
<1>13. /\ ml'.CurrHeap = addr /\ ml'.OtherHeap = addr + H /\ ml'.HeapLength = H
       /\ ml'.base = addr + size + S /\ ml'.top = (addr + T) - B /\ block'.first = addr /\ block'.len = T
  BY <1>0, <1>1, <1>2, <1>11
<1>14. /\ addr + H + H + S <= addr + size + S /\ addr + size + S < (addr + T) - B
       /\ ((addr + T) - B) + B = addr + T /\ 2 * H <= MaxHeap * B
  BY <1>2, <1>3, <1>5, <1>6, <1>7
<1> QED BY <1>0, <1>1, <1>12, <1>13, <1>14 DEF LayoutSafe

\* A main function that compares the sum with one part lets none through that
\* has wrapped.
LEMMA PlaceLayout ==
  ASSUME StartInv, pc = "init"
  PROVE  main = "yes" => ExpectedLayout
<1> SUFFICES ASSUME main = "yes" PROVE ExpectedLayout
  OBVIOUS
<1>1. /\ heap_sz \in 0 .. W - 1 /\ stack_sz \in 0 .. W - 1 /\ Total \in 0 .. W - 1
      /\ Total = heap_sz + stack_sz \/ Total = heap_sz + stack_sz - W
      /\ Total >= heap_sz /\ W \in Nat
  BY TotalWord, Constants DEF StartInv, Sizes, Checked
<1>2. Total = heap_sz + stack_sz
  BY <1>1
<1>3. /\ regs.r2 = block.first /\ regs.r4 = block.first + Total
      /\ regs.r3 = block.first + heap_sz /\ block.first \in 1 .. W - 1
  BY <1>2, Registers DEF StartInv, Placed
<1> QED BY <1>1, <1>2, <1>3 DEF ExpectedLayout

LEMMA StartStep ==
  ASSUME StartInv, Start
  PROVE  StartInv'
<1>1. CASE ReadSizes
  <2>1. /\ pc' = "check" /\ pc = "main" /\ main # "ag32"
        /\ main \in {"basis", "yes", "pancake", "ag32"} /\ main' = main
    BY <1>1 DEF ReadSizes, StartInv
  <2>2. \A x \in Compiled \cup {Units(n) : n \in EnvUnits} : x \in 0 .. W - 1 /\ Multiple(x, B)
    BY UnitsWords, Constants DEF Compiled
  <2>3. heap_sz' \in Compiled \cup {Units(n) : n \in EnvUnits}
        /\ stack_sz' \in Compiled \cup {Units(n) : n \in EnvUnits}
    BY <1>1, <2>1 DEF ReadSizes, basis_sizes, pancake_sizes, yes_sizes
  <2>4. Sizes'
    BY <2>2, <2>3 DEF Sizes, Multiple
  <2> QED BY <2>1, <2>4 DEF StartInv, Checked, Placed
<1>2. CASE CheckSizes
  <2>1. /\ pc = "check" /\ pc' \in {"exit", "malloc"}
        /\ UNCHANGED <<main, heap_sz, stack_sz, block, regs, ml>>
    BY <1>2 DEF CheckSizes, Goto
  <2>2. pc' = "malloc" => ~(Total < MinTotal) /\ (main = "yes" => ~(Total < heap_sz))
    <3>1. main \in {"basis", "yes", "pancake"}
      BY <2>1 DEF StartInv
    <3> QED BY <1>2, <2>1, <3>1
         DEF CheckSizes, Goto, basis_refuses, pancake_refuses, yes_refuses
  <2>3. Total \in Nat /\ MinTotal \in Nat /\ heap_sz \in Nat
    BY StartAssumption, TotalWord DEF StartInv, Sizes
  <2>4. Checked'
    BY <2>1, <2>2, <2>3 DEF Checked, Total, Add
  <2>5. Sizes' /\ Placed'
    BY <2>1 DEF StartInv, Sizes, Multiple, Placed
  <2> QED BY <2>1, <2>4, <2>5 DEF StartInv
<1>3. CASE Allocate
  <2>1. pc = "malloc" /\ UNCHANGED <<main, heap_sz, stack_sz, ml>>
    BY <1>3 DEF Allocate, Goto
  <2>2. Sizes' /\ (Total' = Total)
    BY <2>1 DEF StartInv, Sizes, Multiple, Total, Add
  <2>3. CASE Goto("exit")
    BY <2>1, <2>2, <2>3 DEF Goto, StartInv, Checked, Placed
  <2>4. ASSUME NEW first \in 1 .. W - 1, first % B = 0, first + Total < W,
               block' = [first |-> first, len |-> Total], regs' = Blocks(first), pc' = "init"
        PROVE  StartInv'
    <3>1. Multiple(first, B) /\ B \in Nat \ {0}
      BY <2>4, MultipleRest, Constants
    <3>2. block'.first = first /\ block'.len = Total /\ Blocks(first)' = Blocks(first)
      BY <2>1, <2>4 DEF Blocks, Add
    <3>3. Placed'
      BY <2>2, <2>4, <3>1, <3>2, Zenon DEF Placed, Blocks, Multiple
    <3>4. Checked'
      BY <2>1, <2>2 DEF StartInv, Checked
    <3>5. /\ Sizes /\ Total >= MinTotal /\ (main = "yes" => Total >= heap_sz)
          /\ main \in {"basis", "yes", "pancake", "ag32"} /\ main # "ag32"
      BY <2>1 DEF StartInv, Checked
    <3> QED BY <2>1, <2>2, <2>4, <3>3, <3>4, <3>5 DEF StartInv
  <2> QED BY <1>3, <2>3, <2>4 DEF Allocate
<1>4. CASE init_code
  <2>1. LayoutSafe' /\ pc = "init" /\ pc' = "ml" /\ UNCHANGED <<main, heap_sz, stack_sz>>
    BY <1>4, CutLayout DEF init_code
  <2> QED BY <2>1 DEF StartInv, Sizes, Multiple, Checked, Placed
<1>5. CASE StartAg32
  <2>1. /\ pc = "main" /\ main = "ag32" /\ pc' = "ml"
        /\ UNCHANGED <<main, heap_sz, stack_sz, block, regs, ml>>
    BY <1>5 DEF StartAg32, Goto
  <2> QED BY <2>1 DEF StartInv, Sizes, Multiple, Checked, Placed, LayoutSafe
<1> QED BY <1>1, <1>2, <1>3, <1>4, <1>5 DEF Start

LEMMA StartInitInv == StartInit => StartInv
<1> SUFFICES ASSUME StartInit PROVE StartInv
  OBVIOUS
<1>1. Multiple(0, B) /\ 0 \in 0 .. W - 1
  <2>1. 0 = B * 0
    BY Constants
  <2> QED BY <2>1, Constants DEF Multiple
<1>2. Sizes
  BY <1>1 DEF StartInit, Sizes
<1> QED BY <1>2, StartAssumption DEF StartInit, StartInv, Checked, Placed

LEMMA StartHolds == StartInv => LayoutSafe
<1> SUFFICES ASSUME StartInv PROVE LayoutSafe
  OBVIOUS
<1>1. CASE pc = "ml"
  BY <1>1 DEF StartInv
<1>2. CASE pc # "ml"
  BY <1>2, PlaceLayout DEF LayoutSafe
<1> QED BY <1>1, <1>2

\* Nothing but the start changes the layout.
LEMMA OthersKeepStart ==
  ASSUME [Next]_vars, ~Start
  PROVE  UNCHANGED start_vars
<1>1. CASE Use
  BY <1>1 DEF Use, UseFiles, UseDoubles, UseArguments, UseExit, UseDebug, UseHost, Begin
<1>2. CASE Client
  <2> USE DEF Ask, Finish
  <2>1. CASE CommandLineNext
    BY <2>1 DEF CommandLineNext, cline, Counted, cloop, AskArg, TakeArg
  <2>2. CASE FilesNext
    BY <2>2 DEF FilesNext, openIn, openOut, close, read, output, Operation, Opened, Written, Done
  <2>3. CASE DoublesNext
    BY <2>3 DEF DoublesNext, fromString, toString, fromInt, toInt, pow, function, AskDouble,
       ReadString, ReadText, ReadInt, ReadDouble, Result
  <2>4. CASE (\E c \in Codes : exit(c)) \/ FFI
    BY <2>4 DEF exit, FFI
  <2> QED BY <1>2, <2>1, <2>2, <2>3, <2>4 DEF Client
<1>3. CASE HostNext
  BY <1>3 DEF HostNext, cml_main, cake_enter, cake_err3, cake_return, CallC, ReturnC, HostOnly
<1>4. CASE \E clen \in {0, 1} : EmptyFFI(clen)
  BY <1>4 DEF EmptyFFI
<1> QED BY <1>1, <1>2, <1>3, <1>4 DEF Next, vars

LEMMA NextStartInv == StartInv /\ [Next]_vars => StartInv'
<1>1. ASSUME StartInv, UNCHANGED start_vars PROVE StartInv'
  BY <1>1 DEF start_vars, StartInv, Sizes, Multiple, Checked, Placed, Blocks, Add, Total, LayoutSafe,
     ExpectedLayout
<1> QED BY <1>1, StartStep, OthersKeepStart

(* Whatever sizes the compiler and the environment give, even sizes that do not
   fit a word or whose sum does not, ML code starts with two aligned semispaces,
   the store array and a stack inside the block that was allocated, and
   yes_ffi.c gives a program the layout it expects. *)
THEOREM LayoutHolds == Spec => []LayoutSafe
<1>1. Init => StartInv
  BY StartInitInv DEF Init
<1> QED BY <1>1, NextStartInv, StartHolds, PTL DEF Spec

------------------------------------------------------------------------------
(***************************************************************************)
(* Numbers as bytes.                                                       *)
(***************************************************************************)
LEMMA BaseFacts == Base \in Nat \ {0, 1}
BY BaseAssumption

LEMMA PowerIs ==
  /\ Power = [k \in 0 .. 8 |-> IF k = 0 THEN 1 ELSE Power[k - 1] * Base]
  /\ Power \in [0 .. 8 -> Nat \ {0}]
<1> DEFINE S == Nat \ {0}
           Is(p) == p = [k \in 0 .. 8 |-> IF k = 0 THEN 1 ELSE p[k - 1] * Base]
<1>0. \A x \in S : x * Base \in S
  BY BaseFacts
<1>1. \E p \in [0 .. 8 -> S] : Is(p)
  <2>1. PICK p1 \in S : p1 = 1 * Base
    BY <1>0
  <2>2. PICK p2 \in S : p2 = p1 * Base
    BY <1>0
  <2>3. PICK p3 \in S : p3 = p2 * Base
    BY <1>0
  <2>4. PICK p4 \in S : p4 = p3 * Base
    BY <1>0
  <2>5. PICK p5 \in S : p5 = p4 * Base
    BY <1>0
  <2>6. PICK p6 \in S : p6 = p5 * Base
    BY <1>0
  <2>7. PICK p7 \in S : p7 = p6 * Base
    BY <1>0
  <2>8. PICK p8 \in S : p8 = p7 * Base
    BY <1>0
  <2> DEFINE p == [k \in 0 .. 8 |->
                     IF k = 0 THEN 1 ELSE IF k = 1 THEN p1 ELSE IF k = 2 THEN p2
                     ELSE IF k = 3 THEN p3 ELSE IF k = 4 THEN p4 ELSE IF k = 5 THEN p5
                     ELSE IF k = 6 THEN p6 ELSE IF k = 7 THEN p7 ELSE p8]
  <2>9. /\ p[0] = 1 /\ p[1] = p1 /\ p[2] = p2 /\ p[3] = p3 /\ p[4] = p4
        /\ p[5] = p5 /\ p[6] = p6 /\ p[7] = p7 /\ p[8] = p8
    OBVIOUS
  <2>10. p \in [0 .. 8 -> S]
    OBVIOUS
  <2>11. ASSUME NEW k \in 0 .. 8
         PROVE  p[k] = (IF k = 0 THEN 1 ELSE p[k - 1] * Base)
    <3>9. k \in {0, 1, 2, 3, 4, 5, 6, 7, 8}
      OBVIOUS
    <3> HIDE DEF p
    <3>0. CASE k = 0
      BY <3>0, <2>9
    <3>1. CASE k = 1
      BY <3>1, <2>1, <2>9
    <3>2. CASE k = 2
      BY <3>2, <2>2, <2>9
    <3>3. CASE k = 3
      BY <3>3, <2>3, <2>9
    <3>4. CASE k = 4
      BY <3>4, <2>4, <2>9
    <3>5. CASE k = 5
      BY <3>5, <2>5, <2>9
    <3>6. CASE k = 6
      BY <3>6, <2>6, <2>9
    <3>7. CASE k = 7
      BY <3>7, <2>7, <2>9
    <3>8. CASE k = 8
      BY <3>8, <2>8, <2>9
    <3> QED BY <3>0, <3>1, <3>2, <3>3, <3>4, <3>5, <3>6, <3>7, <3>8, <3>9
  <2>12. p = [k \in 0 .. 8 |-> p[k]]
    OBVIOUS
  <2>13. Is(p)
    <3> HIDE DEF p
    <3> QED BY <2>11, <2>12
  <2> HIDE DEF p, Is
  <2> QED BY <2>10, <2>13
<1>4. Power = CHOOSE q : Is(q)
  BY DEF Power
<1>5. Is(Power)
  <2> HIDE DEF Is, S
  <2> QED BY <1>1, <1>4
<1>6. Power \in [0 .. 8 -> S]
  <2>1. Power[0] = 1 /\ \A k \in 1 .. 8 : Power[k] = Power[k - 1] * Base
    BY <1>5
  <2>2. \A x \in S : x * Base \in S
    BY <1>0
  <2>3. 1 \in S
    OBVIOUS
  <2> HIDE DEF Is, S
  <2>4. Power[1] \in S
    BY <2>1, <2>2, <2>3
  <2>5. Power[2] \in S
    BY <2>1, <2>2, <2>4
  <2>6. Power[3] \in S
    BY <2>1, <2>2, <2>5
  <2>7. Power[4] \in S
    BY <2>1, <2>2, <2>6
  <2>8. Power[5] \in S
    BY <2>1, <2>2, <2>7
  <2>9. Power[6] \in S
    BY <2>1, <2>2, <2>8
  <2>10. Power[7] \in S
    BY <2>1, <2>2, <2>9
  <2>11. Power[8] \in S
    BY <2>1, <2>2, <2>10
  <2>12. ASSUME NEW k \in 0 .. 8 PROVE Power[k] \in S
    <3>1. k \in {0, 1, 2, 3, 4, 5, 6, 7, 8}
      OBVIOUS
    <3> QED BY <3>1, <2>1, <2>3, <2>4, <2>5, <2>6, <2>7, <2>8, <2>9, <2>10, <2>11
  <2>13. Power = [k \in 0 .. 8 |-> Power[k]]
    BY <1>5 DEF Is
  <2> QED BY <2>12, <2>13
<1> QED BY <1>0, <1>5, <1>6

LEMMA Powers ==
  /\ \A k \in 0 .. 8 : Power[k] \in Nat \ {0}
  /\ Power[0] = 1 /\ Power[1] = Base /\ Power[2] = Base * Base
  /\ \A k \in 0 .. 7 : Power[k + 1] = Power[k] * Base
<1>1. \A k \in 1 .. 8 : Power[k] = Power[k - 1] * Base
  BY PowerIs
<1>2. Power[0] = 1
  BY PowerIs
<1>3. \A k \in 0 .. 7 : k + 1 \in 1 .. 8 /\ (k + 1) - 1 = k
  OBVIOUS
<1>4. Power[1] = Power[0] * Base /\ Power[2] = Power[1] * Base
  BY <1>1
<1> QED BY PowerIs, <1>1, <1>2, <1>3, <1>4, BaseFacts

\* What is below the bytes from k + 1 on is byte k and what is below it.
LEMMA NextByte ==
  ASSUME NEW n \in Int, NEW k \in 0 .. 7
  PROVE  /\ ByteOf(n, k) \in 0 .. Base - 1
         /\ n % Power[k] \in 0 .. Power[k] - 1
         /\ n % Power[k + 1] = ByteOf(n, k) * Power[k] + (n % Power[k])
<1> DEFINE p == Power[k]
           q == n \div p
           r == n % p
           c == q % Base
           t == q \div Base
<1>1. p \in Nat \ {0} /\ Power[k + 1] = p * Base
  BY Powers
<1>2. q \in Int /\ r \in 0 .. p - 1 /\ n = p * q + r
  BY <1>1, Division
<1>3. t \in Int /\ c \in 0 .. Base - 1 /\ q = Base * t + c
  BY <1>2, BaseFacts, Division
<1>4. ByteOf(n, k) = c
  BY DEF ByteOf
<1> HIDE DEF p, q, r, c, t
<1>5. p * c \in Nat /\ p * c + r \in 0 .. p * Base - 1
  <2>1. p * (Base - 1 - c) >= 0 /\ p * c >= 0 /\ p * c \in Int
    BY <1>1, <1>3, BaseFacts
  <2>2. p * (Base - 1 - c) = p * Base - p - p * c /\ p * Base \in Int
    BY <1>1, <1>3, BaseFacts
  <2> QED BY <1>1, <1>2, <2>1, <2>2
<1>6. n = (p * Base) * t + (p * c + r)
  <2>1. p * (Base * t + c) = (p * Base) * t + p * c
    BY <1>1, <1>3, BaseFacts
  <2>2. p * q = (p * Base) * t + p * c
    BY <1>3, <2>1
  <2>3. (p * Base) * t \in Int
    BY <1>1, <1>3, BaseFacts
  <2> QED BY <1>2, <1>5, <2>2, <2>3
<1>7. p * Base \in Nat \ {0}
  BY <1>1, BaseFacts
<1>8. n % (p * Base) = p * c + r
  <2> DEFINE m == p * Base
             s == p * c + r
  <2>1. m \in Nat \ {0} /\ s \in 0 .. m - 1 /\ n = m * t + s
    BY <1>5, <1>6, <1>7
  <2> HIDE DEF m, s
  <2>2. n % m = s
    BY <1>3, <2>1, OneQuotient
  <2> QED BY <2>2 DEF m, s
<1>9. p * c = c * p
  BY <1>1, <1>3
<1>10. n % Power[k + 1] = c * p + r /\ r = n % Power[k]
  BY <1>1, <1>8, <1>9 DEF r, p
<1> QED BY <1>1, <1>2, <1>3, <1>4, <1>10 DEF p

LEMMA Small ==
  ASSUME NEW m \in Nat \ {0}, NEW n \in 0 .. m - 1
  PROVE  n % m = n /\ n \div m = 0
<1>1. m * 0 + n = n
  OBVIOUS
<1>2. (m * 0 + n) % m = n /\ (m * 0 + n) \div m = 0
  BY OneQuotient
<1> QED BY <1>1, <1>2

LEMMA LongLongOf ==
  ASSUME NEW n \in Int, NEW b, \A k \in 1 .. 8 : b[k] = ByteOf(n, 8 - k)
  PROVE  LongLong(b) = n % Power[8] /\ n % Power[8] \in 0 .. Power[8] - 1
<1>1. /\ b[1] = ByteOf(n, 7) /\ b[2] = ByteOf(n, 6) /\ b[3] = ByteOf(n, 5) /\ b[4] = ByteOf(n, 4)
      /\ b[5] = ByteOf(n, 3) /\ b[6] = ByteOf(n, 2) /\ b[7] = ByteOf(n, 1) /\ b[8] = ByteOf(n, 0)
  OBVIOUS
<1> DEFINE Digit(k) == ByteOf(n, k) * Power[k]
           Low(k) == n % Power[k]
           Step(k) == Digit(k) \in Int /\ Low(k) \in Int /\ Low(k + 1) = Digit(k) + Low(k)
<1>2. Low(0) = 0 /\ Digit(0) = ByteOf(n, 0) /\ Digit(0) \in Int
  <2>1. Power[0] = 1
    BY Powers
  <2>2. n % 1 = 0
    OBVIOUS
  <2>3. ByteOf(n, 0) \in Int
    BY BaseFacts, Powers DEF ByteOf
  <2> QED BY <2>1, <2>2, <2>3
<1>3. ASSUME NEW k \in 0 .. 7 PROVE Step(k)
  <2>0. ByteOf(n, k) \in 0 .. Base - 1 /\ n % Power[k] \in 0 .. Power[k] - 1
    BY NextByte
  <2>1. ByteOf(n, k) \in Nat /\ Power[k] \in Nat /\ n % Power[k] \in Int
    BY <2>0, Powers, BaseFacts
  <2>2. n % Power[k + 1] = ByteOf(n, k) * Power[k] + (n % Power[k])
    BY NextByte
  <2> QED BY <2>1, <2>2
<1>4. LongLong(b) = Digit(7) + Digit(6) + Digit(5) + Digit(4) + Digit(3) + Digit(2) + Digit(1) + ByteOf(n, 0)
  BY <1>1 DEF LongLong
<1> HIDE DEF Digit, Low, Step
<1>5. Step(0) /\ Step(1) /\ Step(2) /\ Step(3) /\ Step(4) /\ Step(5) /\ Step(6) /\ Step(7)
  BY <1>3
<1>6. /\ Digit(0) \in Int /\ Digit(1) \in Int /\ Digit(2) \in Int /\ Digit(3) \in Int
      /\ Digit(4) \in Int /\ Digit(5) \in Int /\ Digit(6) \in Int /\ Digit(7) \in Int
      /\ Low(1) = Digit(0) + Low(0) /\ Low(2) = Digit(1) + Low(1) /\ Low(3) = Digit(2) + Low(2)
      /\ Low(4) = Digit(3) + Low(3) /\ Low(5) = Digit(4) + Low(4) /\ Low(6) = Digit(5) + Low(5)
      /\ Low(7) = Digit(6) + Low(6) /\ Low(8) = Digit(7) + Low(7)
  BY <1>5 DEF Step
<1>7. LongLong(b) = Low(8)
  BY <1>2, <1>4, <1>6
<1>8. Power[8] \in Nat \ {0}
  BY Powers
<1> QED BY <1>7, <1>8, Division DEF Low

\* A number in two bytes.
LEMMA TwoBytes ==
  ASSUME NEW n \in 0 .. Power[2] - 1
  PROVE  /\ ByteOf(n, 1) * Base + ByteOf(n, 0) = n
         /\ ByteOf(n, 0) + ByteOf(n, 1) * Base = n
         /\ ByteOf(n, 0) \in 0 .. Base - 1 /\ ByteOf(n, 1) \in 0 .. Base - 1
<1>1. Power[2] \in Nat \ {0} /\ n \in Int
  BY Powers
<1>2. n % Power[2] = n
  BY <1>1, Small
<1> DEFINE Step(k) == /\ ByteOf(n, k) \in 0 .. Base - 1
                      /\ n % Power[k + 1] = ByteOf(n, k) * Power[k] + (n % Power[k])
<1>6. \A k \in 0 .. 7 : Step(k)
  BY <1>1, NextByte
<1>7. Step(0) /\ Step(1)
  <2> HIDE DEF Step
  <2> QED BY <1>6
<1>3. /\ ByteOf(n, 0) \in 0 .. Base - 1 /\ ByteOf(n, 1) \in 0 .. Base - 1
      /\ n % Power[1] = ByteOf(n, 0) * Power[0] + (n % Power[0])
      /\ n % Power[2] = ByteOf(n, 1) * Power[1] + (n % Power[1])
  BY <1>7
<1>4. n % Power[0] = 0 /\ ByteOf(n, 0) * Power[0] = ByteOf(n, 0)
  <2>1. Power[0] = 1 /\ ByteOf(n, 0) \in Int
    BY <1>3, Powers
  <2>2. n % 1 = 0
    BY <1>1
  <2> QED BY <2>1, <2>2
<1>5. ByteOf(n, 1) * Base \in Int
  BY <1>3, BaseFacts
<1> QED BY <1>2, <1>3, <1>4, <1>5, Powers

\* A descriptor in eight bytes, as an int.
LEMMA Handles ==
  ASSUME NEW fd \in Nat, 2 * fd < IntRange
  PROVE  AsInt(LongLong(n2w8(fd))) = fd
<1>1. \A k \in 1 .. 8 : n2w8(fd)[k] = ByteOf(fd, 8 - k)
  BY DEF n2w8
<1>2. LongLong(n2w8(fd)) = fd % Power[8]
  BY <1>1, LongLongOf
<1>3. /\ Power[4] \in Nat \ {0} /\ Power[5] = Power[4] * Base /\ Power[6] = Power[5] * Base
      /\ Power[7] = Power[6] * Base /\ Power[8] = Power[7] * Base
  BY Powers
<1>4. \A x \in Nat \ {0} : x * Base \in Nat \ {0} /\ x * Base >= x
  BY BaseFacts
<1>5. Power[8] \in Nat \ {0} /\ Power[8] >= Power[4]
  <2>1. Power[5] \in Nat \ {0} /\ Power[5] >= Power[4]
    BY <1>3, <1>4
  <2>2. Power[6] \in Nat \ {0} /\ Power[6] >= Power[5]
    BY <1>3, <1>4, <2>1
  <2>3. Power[7] \in Nat \ {0} /\ Power[7] >= Power[6]
    BY <1>3, <1>4, <2>2
  <2>4. Power[8] \in Nat \ {0} /\ Power[8] >= Power[7]
    BY <1>3, <1>4, <2>3
  <2> QED BY <1>3, <2>1, <2>2, <2>3, <2>4
<1>6. fd \in 0 .. Power[4] - 1 /\ fd \in 0 .. Power[8] - 1
  BY <1>3, <1>5 DEF IntRange
<1>7. fd % Power[8] = fd /\ fd % Power[4] = fd
  BY <1>3, <1>5, <1>6, Small
<1> QED BY <1>2, <1>7 DEF AsInt, IntRange

------------------------------------------------------------------------------
\* Bytes put inside an array: it keeps its length, and they are there.
Cells == 0 .. Base - 1

LEMMA PutFacts ==
  ASSUME NEW S, NEW b \in Seq(S), NEW off \in Nat, NEW v \in Seq(S), off + Len(v) <= Len(b)
  PROVE  /\ Put(b, off, v) \in Seq(S) /\ Len(Put(b, off, v)) = Len(b)
         /\ \A j \in 1 .. Len(v) : Put(b, off, v)[off + j] = v[j]
         /\ \A j \in 1 .. Len(b) : j <= off \/ off + Len(v) < j => Put(b, off, v)[j] = b[j]
         /\ At(Put(b, off, v), off, Len(v)) = v
<1> DEFINE c == [j \in 1 .. Len(b) |-> IF off < j /\ j <= off + Len(v) THEN v[j - off] ELSE b[j]]
<1>1. Len(b) \in Nat /\ Len(v) \in Nat
  OBVIOUS
<1>2. Put(b, off, v) = c
  BY <1>1 DEF Put
<1>3. \A j \in 1 .. Len(b) : c[j] \in S
  OBVIOUS
<1>4. c \in Seq(S) /\ Len(c) = Len(b)
  BY <1>1, <1>3
<1>5. \A j \in 1 .. Len(v) : c[off + j] = v[j]
  BY <1>1
<1>6. \A j \in 1 .. Len(b) : j <= off \/ off + Len(v) < j => c[j] = b[j]
  BY <1>1
<1> HIDE DEF c
<1>7. SubSeq(c, off + 1, off + Len(v)) = v
  BY <1>1, <1>4, <1>5
<1> QED BY <1>2, <1>4, <1>5, <1>6, <1>7 DEF At

\* What At finds where Put has written.
LEMMA PutAt ==
  ASSUME NEW b \in Seq(Cells), NEW off \in Nat, NEW v \in Seq(Cells), off + Len(v) <= Len(b)
  PROVE  /\ Put(b, off, v) \in Seq(Cells) /\ Len(Put(b, off, v)) = Len(b)
         /\ At(Put(b, off, v), off, Len(v)) = v
<1> DEFINE p == Put(b, off, v)
<1>1. /\ p \in Seq(Cells) /\ Len(p) = Len(b)
      /\ \A j \in 1 .. Len(v) : p[off + j] = v[j]
  BY PutFacts
<1>2. Len(v) \in Nat
  OBVIOUS
<1> HIDE DEF p
<1>3. SubSeq(p, off + 1, off + Len(v)) = v
  BY <1>1, <1>2
<1> QED BY <1>1, <1>3 DEF p, At

LEMMA AtFacts ==
  ASSUME NEW S, NEW b \in Seq(S), NEW off \in Nat, NEW n \in Nat, off + n <= Len(b)
  PROVE  /\ At(b, off, n) \in Seq(S) /\ Len(At(b, off, n)) = n
         /\ \A j \in 1 .. n : At(b, off, n)[j] = b[off + j]
<1>1. Len(b) \in Nat
  OBVIOUS
<1> QED BY <1>1 DEF At

LEMMA ZerosFacts ==
  ASSUME NEW n \in Nat
  PROVE  Zeros(n) \in Seq(Cells) /\ Len(Zeros(n)) = n
BY BaseFacts DEF Zeros, Cells

------------------------------------------------------------------------------
(***************************************************************************)
(* Calls, and the command line.                                            *)
(***************************************************************************)
\* What a question leaves, and the fields of the function that asks it.
LEMMA AskFacts ==
  ASSUME NEW t, NEW name, NEW c, NEW b, Ask(t, name, c, b), "len" \notin DOMAIN t
  PROVE  /\ \A f \in DOMAIN t : task'[f] = t[f]
         /\ task'.len = Len(b) /\ call'.name = name /\ call'.c = c /\ a' = b
         /\ use' = use /\ argv' = argv /\ os' = os /\ end' = end /\ main' = main
<1>3. task' = [f \in DOMAIN t \cup {"len"} |-> IF f = "len" THEN Len(b) ELSE t[f]]
  BY DEF Ask
<1>4. /\ \A f \in DOMAIN t : task'[f] = t[f]
      /\ task'["len"] = Len(b)
  BY <1>3, Zenon
<1>5. /\ call'.name = name /\ call'.c = c /\ a' = b
      /\ use' = use /\ argv' = argv /\ os' = os /\ end' = end /\ main' = main
  BY DEF Ask, start_vars
<1> QED BY <1>4, <1>5

LEMMA FinishFacts ==
  ASSUME NEW b, NEW holding, Finish(b, holding)
  PROVE  /\ task' = Idle /\ a' = b /\ got' = holding /\ call' = call
         /\ use' = use /\ argv' = argv /\ os' = os /\ end' = end /\ main' = main
BY DEF Finish, start_vars

CRuntimes == {"basis", "ag32", "pancake"}

\* The answers to the questions about arguments are the same on each runtime.
Reply16(k) == Back(os, Put(a, 0, <<ByteOf(k, 0), ByteOf(k, 1)>>))
LEMMA CountOutcome ==
  ASSUME main \in CRuntimes, call.name = "get_arg_count"
  PROVE  Outcomes = {Reply16(Len(argv))}
<1>1. CASE main = "basis"
  BY <1>1 DEF Outcomes, Reply16, Basis!Call, Basis!ffiget_arg_count, Basis!Back, Back, Basis!Put, Put, Basis!ByteOf, ByteOf, Basis!Power, Power
<1>2. CASE main = "ag32"
  BY <1>2 DEF Outcomes, Reply16, Ag32!Call, Ag32!ffiget_arg_count, Ag32!Back, Back, Ag32!Put, Put, Ag32!ByteOf, ByteOf, Ag32!Power, Power
<1>3. CASE main = "pancake"
  BY <1>3 DEF Outcomes, Reply16, Pancake!Call, Pancake!ffiget_arg_count, Pancake!Back, Back, Pancake!Put, Put, Pancake!ByteOf, ByteOf, Pancake!Power, Power
<1> QED BY <1>1, <1>2, <1>3 DEF CRuntimes

LEMMA LengthOutcome ==
  ASSUME main \in CRuntimes, call.name = "get_arg_length"
  PROVE  Outcomes = {Reply16(Len(argv[a[1] + a[2] * Base + 1]))}
<1>1. CASE main = "basis"
  BY <1>1 DEF Outcomes, Reply16, Basis!Call, Basis!ffiget_arg_length, Basis!Asked, Basis!Back, Back,
     Basis!Put, Put, Basis!ByteOf, ByteOf, Basis!Power, Power
<1>2. CASE main = "ag32"
  BY <1>2 DEF Outcomes, Reply16, Ag32!Call, Ag32!ffiget_arg_length, Ag32!Asked, Ag32!Back, Back,
     Ag32!Put, Put, Ag32!ByteOf, ByteOf, Ag32!Power, Power
<1>3. CASE main = "pancake"
  BY <1>3 DEF Outcomes, Reply16, Pancake!Call, Pancake!ffiget_arg_length, Pancake!Asked, Pancake!Back, Back,
     Pancake!Put, Put, Pancake!ByteOf, ByteOf, Pancake!Power, Power
<1> QED BY <1>1, <1>2, <1>3 DEF CRuntimes

LEMMA ArgOutcome ==
  ASSUME main \in CRuntimes, call.name = "get_arg"
  PROVE  Outcomes = {Back(os, Put(a, 0, argv[a[1] + a[2] * Base + 1]))}
<1>1. CASE main = "basis"
  BY <1>1 DEF Outcomes, Reply16, Basis!Call, Basis!ffiget_arg, Basis!Asked, Basis!Back, Back,
     Basis!Put, Put
<1>2. CASE main = "ag32"
  BY <1>2 DEF Outcomes, Reply16, Ag32!Call, Ag32!ffiget_arg, Ag32!Asked, Ag32!Back, Back,
     Ag32!Put, Put
<1>3. CASE main = "pancake"
  BY <1>3 DEF Outcomes, Reply16, Pancake!Call, Pancake!ffiget_arg, Pancake!Asked, Pancake!Back, Back,
     Pancake!Put, Put
<1> QED BY <1>1, <1>2, <1>3 DEF CRuntimes

\* Argument n in the middle of cline: those after it are there, the array has
\* the question or the answer, and room for it.
Later(n) == SubSeq(argv, n + 2, Len(argv))
Counting ==
  /\ task.fn = "count" /\ got = <<>> /\ task.len = 2
  /\ \/ call.name = "get_arg_count"
     \/ call.name = "none" /\ read16bit(a) = Len(argv)
Measuring(n) ==
  /\ task.fn = "length" /\ task.n = n /\ got = Later(n) /\ task.len = 2
  /\ \/ call.name = "get_arg_length" /\ read16bit(a) = n
     \/ call.name = "none" /\ read16bit(a) = Len(argv[n + 1])
Fetching(n) ==
  /\ task.fn = "arg" /\ task.n = n /\ got = Later(n)
  /\ task.l = Len(argv[n + 1]) /\ task.len = AtLeast2(task.l)
  /\ \/ call.name = "get_arg" /\ read16bit(a) = n
     \/ call.name = "none" /\ At(a, 0, task.l) = argv[n + 1]
Asking ==
  /\ a \in Seq(Cells) /\ Len(a) = task.len
  /\ Counting \/ \E n \in 0 .. Len(argv) - 1 : Measuring(n) \/ Fetching(n)
ArgInv ==
  use = "arguments" =>
    /\ main \in CRuntimes /\ argv \in Argvs /\ end.how = "return"
    /\ \/ task = Idle /\ call.name = "none" /\ got \in {<<>>, argv}
       \/ Asking

LEMMA Write16 ==
  ASSUME NEW b \in Seq(Cells), Len(b) >= 2, NEW k \in 0 .. Power[2] - 1
  PROVE  /\ write16bit(b, k) \in Seq(Cells) /\ Len(write16bit(b, k)) = Len(b)
         /\ read16bit(write16bit(b, k)) = k
<1> DEFINE v == <<ByteOf(k, 0), ByteOf(k, 1)>>
<1>1. /\ ByteOf(k, 0) \in Cells /\ ByteOf(k, 1) \in Cells
      /\ ByteOf(k, 0) + ByteOf(k, 1) * Base = k
  BY TwoBytes DEF Cells
<1>2. v \in Seq(Cells) /\ Len(v) = 2 /\ v[1] = ByteOf(k, 0) /\ v[2] = ByteOf(k, 1)
  BY <1>1
<1> DEFINE p == Put(b, 0, v)
<1>3. p \in Seq(Cells) /\ Len(p) = Len(b) /\ p[1] = ByteOf(k, 0) /\ p[2] = ByteOf(k, 1)
  <2> HIDE DEF v
  <2>1. Len(b) \in Nat /\ 0 \in Nat /\ 0 + Len(v) <= Len(b)
    BY <1>2
  <2>2. p \in Seq(Cells) /\ Len(p) = Len(b) /\ \A j \in 1 .. Len(v) : p[0 + j] = v[j]
    BY <1>2, <2>1, PutFacts
  <2> HIDE DEF p
  <2>3. 1 \in 1 .. Len(v) /\ 2 \in 1 .. Len(v) /\ 0 + 1 = 1 /\ 0 + 2 = 2
    BY <1>2
  <2> QED BY <1>2, <2>2, <2>3
<1>4. write16bit(b, k) = p
  BY DEF write16bit
<1> HIDE DEF p
<1> QED BY <1>1, <1>3, <1>4 DEF read16bit

LEMMA ArgvFacts ==
  ASSUME argv \in Argvs
  PROVE  /\ Len(argv) \in 1 .. Power[2] - 1 /\ argv \in Seq(Seq(1 .. Base - 1))
         /\ \A k \in 1 .. Len(argv) :
              argv[k] \in Seq(Cells) /\ Len(argv[k]) \in 0 .. Power[2] - 1
<1>1. argv \in Seq(Seq(1 .. Base - 1)) /\ Len(argv) \in 1 .. Power[2] - 1
  BY CallAssumption
<1>2. ASSUME NEW k \in 1 .. Len(argv)
      PROVE  argv[k] \in Seq(Cells) /\ Len(argv[k]) \in 0 .. Power[2] - 1
  <2>1. argv[k] \in Seq(1 .. Base - 1) /\ Len(argv[k]) < Power[2]
    BY <1>1, CallAssumption
  <2>2. 1 .. Base - 1 \subseteq Cells
    BY BaseFacts DEF Cells
  <2>3. argv[k] \in Seq(Cells)
    BY <2>1, <2>2, SeqMonotonic
  <2>4. Power[2] \in Nat
    BY Powers
  <2> QED BY <2>1, <2>3, <2>4
<1> QED BY <1>1, <1>2

\* Taking one more argument before those that are there.
LEMMA LaterFacts ==
  ASSUME argv \in Argvs
  PROVE  /\ SubSeq(argv, 1, Len(argv)) = argv /\ Later(Len(argv) - 1) = <<>>
         /\ \A n \in 0 .. Len(argv) - 1 :
              <<argv[n + 1]>> \o Later(n) = SubSeq(argv, n + 1, Len(argv))
<1>1. Len(argv) \in Nat \ {0} /\ argv \in Seq(Seq(1 .. Base - 1))
  BY ArgvFacts, Powers
<1>2. ASSUME NEW n \in 0 .. Len(argv) - 1
      PROVE  <<argv[n + 1]>> \o Later(n) = SubSeq(argv, n + 1, Len(argv))
  <2> DEFINE r == <<argv[n + 1]>> \o Later(n)
             s == SubSeq(argv, n + 1, Len(argv))
  <2>1. Later(n) \in Seq(Seq(1 .. Base - 1)) /\ Len(Later(n)) = Len(argv) - n - 1
    BY <1>1 DEF Later
  <2>2. \A j \in 1 .. Len(argv) - n - 1 : Later(n)[j] = argv[n + 1 + j]
    BY <1>1 DEF Later
  <2>3. <<argv[n + 1]>> \in Seq(Seq(1 .. Base - 1)) /\ Len(<<argv[n + 1]>>) = 1
        /\ <<argv[n + 1]>>[1] = argv[n + 1]
    BY <1>1
  <2>4. r \in Seq(Seq(1 .. Base - 1)) /\ Len(r) = Len(argv) - n
    BY <1>1, <2>1, <2>3
  <2>5. ASSUME NEW j \in 1 .. Len(argv) - n PROVE r[j] = argv[n + j]
    <3>1. CASE j = 1
      BY <2>1, <2>3, <3>1
    <3>2. CASE j # 1
      <4>1. j - 1 \in 1 .. Len(argv) - n - 1 /\ n + 1 + (j - 1) = n + j
        BY <1>1, <3>2
      <4>2. r[j] = Later(n)[j - 1]
        BY <1>1, <2>1, <2>3, <3>2, <4>1
      <4> QED BY <2>2, <4>1, <4>2
    <3> QED BY <3>1, <3>2
  <2>6. s \in Seq(Seq(1 .. Base - 1)) /\ Len(s) = Len(argv) - n
    BY <1>1
  <2>7. \A j \in 1 .. Len(argv) - n : s[j] = argv[n + j]
    BY <1>1
  <2> HIDE DEF r, s
  <2>8. r = s
    BY <1>1, <2>4, <2>5, <2>6, <2>7, SeqEqual
  <2> QED BY <2>8 DEF r, s
<1>3. SubSeq(argv, 1, Len(argv)) = argv
  BY <1>1
<1>4. Later(Len(argv) - 1) = <<>>
  BY <1>1 DEF Later
<1> QED BY <1>2, <1>3, <1>4

LEMMA CloopFacts ==
  ASSUME use = "arguments", main \in CRuntimes, argv \in Argvs, end.how = "return",
         call.name = "none",
         NEW b \in Seq(Cells), Len(b) = 2, NEW n \in 0 .. Len(argv),
         cloop(b, n, SubSeq(argv, n + 1, Len(argv)))
  PROVE  ArgInv'
<1> DEFINE acc == SubSeq(argv, n + 1, Len(argv))
<1>0. Len(argv) \in 1 .. Power[2] - 1 /\ Power[2] \in Nat
  BY ArgvFacts, Powers
<1>1. CASE n = 0
  <2>1. acc = argv
    BY <1>1, LaterFacts
  <2>2. Finish(<<>>, argv)
    BY <1>1, <2>1 DEF cloop
  <2>3. /\ task' = Idle /\ got' = argv /\ call' = call /\ argv' = argv /\ end' = end /\ main' = main
    BY <2>2, FinishFacts
  <2> QED BY <2>3 DEF ArgInv
<1>2. CASE n # 0
  <2> DEFINE t == [fn |-> "length", n |-> n - 1]
             q == write16bit(b, n - 1)
  <2>1. Ask(t, "get_arg_length", <<>>, q) /\ got' = acc
    BY <1>2 DEF cloop
  <2>2. n - 1 \in 0 .. Len(argv) - 1 /\ n - 1 \in 0 .. Power[2] - 1
    BY <1>0, <1>2
  <2>3. q \in Seq(Cells) /\ Len(q) = 2 /\ read16bit(q) = n - 1
    <3>1. Len(b) >= 2
      OBVIOUS
    <3> QED BY <2>2, <3>1, Write16
  <2>4. DOMAIN t = {"fn", "n"} /\ t["fn"] = "length" /\ t["n"] = n - 1
    OBVIOUS
  <2>5. acc = Later(n - 1)
    BY <1>0 DEF Later
  <2> HIDE DEF t, q, acc
  <2>6. /\ task'["fn"] = "length" /\ task'["n"] = n - 1 /\ task'.len = Len(q)
        /\ call'.name = "get_arg_length" /\ a' = q /\ use' = use /\ argv' = argv /\ end' = end /\ main' = main
    BY <2>1, <2>4, AskFacts
  <2>7. Measuring(n - 1)'
    BY <2>1, <2>3, <2>5, <2>6 DEF Measuring, Later, read16bit
  <2>8. Asking'
    BY <2>2, <2>3, <2>6, <2>7 DEF Asking, Cells
  <2> QED BY <2>6, <2>8 DEF ArgInv
<1> QED BY <1>1, <1>2

\* What uses the runtime goes on using it for the same.
LEMMA ClientUse ==
  ASSUME Client
  PROVE  use' = use
<1> USE DEF Ask, Finish
<1>1. CASE CommandLineNext
  BY <1>1 DEF CommandLineNext, cline, Counted, cloop, AskArg, TakeArg
<1>2. CASE FilesNext
  BY <1>2 DEF FilesNext, openIn, openOut, close, read, output, Operation, Opened, Written, Done
<1>3. CASE DoublesNext
  BY <1>3 DEF DoublesNext, fromString, toString, fromInt, toInt, pow, function, AskDouble,
     ReadString, ReadText, ReadInt, ReadDouble, Result
<1>4. CASE \E c \in Codes : exit(c)
  BY <1>4 DEF exit
<1>5. CASE FFI
  BY <1>5 DEF FFI
<1> QED BY <1>1, <1>2, <1>3, <1>4, <1>5 DEF Client

\* A program that has not begun has asked nothing.
Fresh == use = "none" => task = Idle /\ call.name = "none" /\ end.how = "return"

LEMMA NextFresh == OneUse /\ Fresh /\ [Next]_vars => Fresh'
<1> SUFFICES ASSUME OneUse, Fresh, [Next]_vars PROVE Fresh'
  OBVIOUS
<1> USE DEF Fresh
<1>1. CASE UNCHANGED <<use, call, task, end>>
  BY <1>1
<1>2. CASE Use
  BY <1>2 DEF Use, UseFiles, UseDoubles, UseArguments, UseExit, UseDebug, UseHost, Begin
<1>3. CASE Client
  BY <1>3, ClientUses DEF NoFFI
<1>4. CASE HostNext
  BY <1>4 DEF HostNext, cml_main, cake_enter, cake_err3, cake_return, CallC, ReturnC, HostOnly, Top
<1>5. CASE \E clen \in {0, 1} : EmptyFFI(clen)
  BY <1>5 DEF EmptyFFI, call_vars
<1> QED BY <1>1, <1>2, <1>3, <1>4, <1>5 DEF Next, vars, call_vars

LEMMA ArgUses ==
  ASSUME use = "arguments", Client
  PROVE  cline \/ Counted \/ AskArg \/ TakeArg \/ FFI
<1> USE DEF CanStart, Returned, Running
<1>1. CASE FilesNext
  BY <1>1 DEF FilesNext, openIn, openOut, close, read, output, Operation, Opened, Written, Done
<1>2. CASE DoublesNext
  BY <1>2 DEF DoublesNext, fromString, toString, fromInt, toInt, pow, function, AskDouble,
     ReadString, ReadText, ReadInt, ReadDouble, Result
<1>3. CASE \E c \in Codes : exit(c)
  BY <1>3 DEF exit
<1> QED BY <1>1, <1>2, <1>3 DEF Client, CommandLineNext

LEMMA ArgFacts ==
  ASSUME ArgInv, use = "arguments"
  PROVE  /\ main \in CRuntimes /\ argv \in Argvs /\ end.how = "return"
         /\ Len(argv) \in 1 .. Power[2] - 1 /\ Power[2] \in Nat
         /\ \/ task = Idle /\ call.name = "none" /\ got \in {<<>>, argv}
            \/ Asking
BY ArgvFacts, Powers DEF ArgInv

LEMMA ClineStep ==
  ASSUME ArgInv, use = "arguments", cline
  PROVE  ArgInv'
<1> DEFINE t == [fn |-> "count"]
           q == Zeros(2)
<1>1. Ask(t, "get_arg_count", <<>>, q) /\ got' = got /\ got = <<>>
  BY DEF cline
<1>2. q \in Seq(Cells) /\ Len(q) = 2
  BY ZerosFacts
<1>3. DOMAIN t = {"fn"} /\ t["fn"] = "count"
  OBVIOUS
<1> HIDE DEF t, q
<1>4. /\ task'["fn"] = "count" /\ task'.len = Len(q) /\ call'.name = "get_arg_count" /\ a' = q
      /\ use' = use /\ argv' = argv /\ end' = end /\ main' = main
  BY <1>1, <1>3, AskFacts
<1>5. Counting'
  BY <1>1, <1>2, <1>4 DEF Counting
<1>6. Asking'
  BY <1>2, <1>4, <1>5 DEF Asking, Cells
<1> QED BY <1>4, <1>6, ArgFacts DEF ArgInv

LEMMA CountedStep ==
  ASSUME ArgInv, use = "arguments", Counted
  PROVE  ArgInv'
<1>1. task.fn = "count" /\ call.name = "none" /\ cloop(a, read16bit(a), <<>>)
  BY DEF Counted, Returned, Running
<1>2. Asking /\ Counting
  BY <1>1, ArgFacts DEF Idle, Asking, Counting, Measuring, Fetching
<1>3. read16bit(a) = Len(argv) /\ a \in Seq(Cells) /\ Len(a) = 2
  BY <1>1, <1>2 DEF Asking, Counting
<1>4. SubSeq(argv, Len(argv) + 1, Len(argv)) = <<>>
  BY ArgFacts, LaterFacts DEF Later
<1>5. cloop(a, Len(argv), SubSeq(argv, Len(argv) + 1, Len(argv)))
  BY <1>1, <1>3, <1>4
<1>6. Len(argv) \in 0 .. Len(argv)
  BY ArgFacts
<1> QED BY <1>1, <1>3, <1>5, <1>6, ArgFacts, CloopFacts

LEMMA AskArgStep ==
  ASSUME ArgInv, use = "arguments", AskArg
  PROVE  ArgInv'
<1> DEFINE l == read16bit(a)
           t == [fn |-> "arg", n |-> task.n, l |-> l]
           q == write16bit(Zeros(AtLeast2(l)), task.n)
<1>1. /\ task.fn = "length" /\ call.name = "none" /\ got' = got
      /\ Ask(t, "get_arg", <<>>, q)
  BY DEF AskArg, Returned, Running
<1>2. PICK n \in 0 .. Len(argv) - 1 : Measuring(n)
  BY <1>1, ArgFacts DEF Idle, Asking, Counting, Measuring, Fetching
<1>3. task.n = n /\ l = Len(argv[n + 1]) /\ got = Later(n)
  BY <1>1, <1>2 DEF Measuring
<1>4. l \in 0 .. Power[2] - 1 /\ n \in 0 .. Power[2] - 1
  <2>1. n + 1 \in 1 .. Len(argv)
    BY ArgFacts
  <2>2. Len(argv[n + 1]) \in 0 .. Power[2] - 1
    BY <2>1, ArgFacts, ArgvFacts
  <2> HIDE DEF l
  <2> QED BY <2>2, <1>3, ArgFacts
<1>5. q \in Seq(Cells) /\ Len(q) = AtLeast2(l) /\ read16bit(q) = n
  <2>1. AtLeast2(l) \in Nat /\ AtLeast2(l) >= 2
    <3> HIDE DEF l
    <3> QED BY <1>4 DEF AtLeast2
  <2> DEFINE z == Zeros(AtLeast2(l))
  <2>2. z \in Seq(Cells) /\ Len(z) = AtLeast2(l)
    BY <2>1, ZerosFacts
  <2> HIDE DEF z, l
  <2>3. write16bit(z, n) \in Seq(Cells) /\ Len(write16bit(z, n)) = Len(z) /\ read16bit(write16bit(z, n)) = n
    BY <1>4, <2>1, <2>2, Write16
  <2> QED BY <1>3, <2>2, <2>3 DEF z
<1>6. DOMAIN t = {"fn", "n", "l"} /\ t["fn"] = "arg" /\ t["n"] = task.n /\ t["l"] = l
  OBVIOUS
<1> HIDE DEF t, q, l
<1>7. /\ task'["fn"] = "arg" /\ task'["n"] = n /\ task'["l"] = l /\ task'.len = Len(q)
      /\ call'.name = "get_arg" /\ a' = q /\ use' = use /\ argv' = argv /\ end' = end /\ main' = main
  BY <1>1, <1>3, <1>6, AskFacts
<1>8. Fetching(n)'
  BY <1>1, <1>3, <1>5, <1>7 DEF Fetching, Later, read16bit, AtLeast2
<1>9. Asking'
  BY <1>5, <1>7, <1>8 DEF Asking, Cells
<1> QED BY <1>7, <1>9, ArgFacts DEF ArgInv

LEMMA TakeArgStep ==
  ASSUME ArgInv, use = "arguments", TakeArg
  PROVE  ArgInv'
<1>1. /\ task.fn = "arg" /\ call.name = "none"
      /\ cloop(Zeros(2), task.n, <<At(a, 0, task.l)>> \o got)
  BY DEF TakeArg, Returned, Running
<1>2. PICK n \in 0 .. Len(argv) - 1 : Fetching(n)
  BY <1>1, ArgFacts DEF Idle, Asking, Counting, Measuring, Fetching
<1>3. task.n = n /\ At(a, 0, task.l) = argv[n + 1] /\ got = Later(n)
  BY <1>1, <1>2 DEF Fetching
<1>4. <<At(a, 0, task.l)>> \o got = SubSeq(argv, n + 1, Len(argv))
  BY <1>3, ArgFacts, LaterFacts
<1>5. cloop(Zeros(2), n, SubSeq(argv, n + 1, Len(argv)))
  BY <1>1, <1>3, <1>4
<1>6. n \in 0 .. Len(argv)
  BY ArgFacts
<1>7. Zeros(2) \in Seq(Cells) /\ Len(Zeros(2)) = 2
  BY ZerosFacts
<1> QED BY <1>1, <1>5, <1>6, <1>7, ArgFacts, CloopFacts

\* A runtime that has one answer, and returns.
LEMMA OneAnswer ==
  ASSUME FFI, NEW b, Outcomes = {Back(os, b)}
  PROVE  a' = b /\ os' = os /\ end'.how = "return"
<1>1. PICK r \in Outcomes : os' = r.os /\ a' = r.a /\ end' = [how |-> r.how, status |-> r.status]
  BY DEF FFI
<1>2. r = Back(os, b)
  BY <1>1
<1> QED BY <1>1, <1>2 DEF Back

LEMMA FFIKeeps ==
  ASSUME FFI
  PROVE  /\ call.name # "none" /\ call' = NoCall /\ call'.name = "none"
         /\ use' = use /\ argv' = argv /\ task' = task /\ got' = got /\ main' = main
BY DEF FFI, NoCall, start_vars

LEMMA Reply16Facts ==
  ASSUME FFI, a \in Seq(Cells), Len(a) = 2, NEW k \in 0 .. Power[2] - 1, Outcomes = {Reply16(k)}
  PROVE  a' \in Seq(Cells) /\ Len(a') = 2 /\ read16bit(a') = k /\ end'.how = "return"
<1>1. a' = write16bit(a, k) /\ end'.how = "return"
  BY OneAnswer DEF Reply16, write16bit
<1>2. Len(a) >= 2
  OBVIOUS
<1> QED BY <1>1, <1>2, Write16

LEMMA ArgFFIStep ==
  ASSUME ArgInv, use = "arguments", FFI
  PROVE  ArgInv'
<1>1. Asking
  BY ArgFacts, FFIKeeps
<1>2. CASE Counting
  <2>1. call.name = "get_arg_count" /\ a \in Seq(Cells) /\ Len(a) = 2
    BY <1>1, <1>2, FFIKeeps DEF Counting, Asking
  <2>2. Outcomes = {Reply16(Len(argv))}
    BY <2>1, ArgFacts, CountOutcome
  <2>3. Len(argv) \in 0 .. Power[2] - 1
    BY ArgFacts
  <2>4. a' \in Seq(Cells) /\ Len(a') = 2 /\ read16bit(a') = Len(argv) /\ end'.how = "return"
    BY <2>1, <2>2, <2>3, Reply16Facts
  <2>5. Counting'
    BY <1>2, <2>4, FFIKeeps DEF Counting, read16bit
  <2>6. Len(a') = task'.len
    BY <1>1, <2>1, <2>4, FFIKeeps DEF Asking
  <2> QED BY <2>4, <2>5, <2>6, FFIKeeps, ArgFacts DEF ArgInv, Asking, Cells
<1>3. ASSUME NEW n \in 0 .. Len(argv) - 1, Measuring(n) PROVE ArgInv'
  <2>1. call.name = "get_arg_length" /\ a \in Seq(Cells) /\ Len(a) = 2 /\ a[1] + a[2] * Base = n
    BY <1>1, <1>3, FFIKeeps DEF Measuring, Asking, read16bit
  <2>2. Outcomes = {Reply16(Len(argv[n + 1]))}
    BY <2>1, ArgFacts, LengthOutcome
  <2>3. Len(argv[n + 1]) \in 0 .. Power[2] - 1
    <3>1. n + 1 \in 1 .. Len(argv)
      BY ArgFacts
    <3> QED BY <3>1, ArgFacts, ArgvFacts
  <2>4. /\ a' \in Seq(Cells) /\ Len(a') = 2 /\ read16bit(a') = Len(argv[n + 1])
        /\ end'.how = "return"
    BY <2>1, <2>2, <2>3, Reply16Facts
  <2>5. Measuring(n)'
    BY <1>3, <2>4, FFIKeeps DEF Measuring, read16bit, Later
  <2>6. Len(a') = task'.len
    BY <1>1, <2>1, <2>4, FFIKeeps DEF Asking
  <2> QED BY <2>4, <2>5, <2>6, FFIKeeps, ArgFacts DEF ArgInv, Asking, Cells
<1>4. ASSUME NEW n \in 0 .. Len(argv) - 1, Fetching(n) PROVE ArgInv'
  <2> DEFINE v == argv[n + 1]
  <2>1. call.name = "get_arg" /\ a \in Seq(Cells) /\ a[1] + a[2] * Base = n
    BY <1>1, <1>4, FFIKeeps DEF Fetching, Asking, read16bit
  <2>2. Outcomes = {Back(os, Put(a, 0, v))}
    BY <2>1, ArgFacts, ArgOutcome
  <2>3. v \in Seq(Cells) /\ Len(v) \in Nat
    <3>1. n + 1 \in 1 .. Len(argv)
      BY ArgFacts
    <3> QED BY <3>1, ArgFacts, ArgvFacts
  <2>4. task.l = Len(v) /\ Len(a) = AtLeast2(Len(v))
    BY <1>1, <1>4 DEF Fetching, Asking
  <2> HIDE DEF v
  <2>5. 0 + Len(v) <= Len(a) /\ 0 \in Nat
    BY <2>3, <2>4 DEF AtLeast2
  <2>6. a' = Put(a, 0, v) /\ end'.how = "return"
    BY <2>2, OneAnswer
  <2>7. a' \in Seq(Cells) /\ Len(a') = Len(a) /\ At(a', 0, Len(v)) = v
    BY <2>1, <2>3, <2>5, <2>6, PutFacts
  <2>8. At(a, 0, task.l)' = v
    BY <2>4, <2>7, FFIKeeps DEF At
  <2>9. Fetching(n)'
    BY <1>4, <2>8, FFIKeeps DEF Fetching, Later, AtLeast2, v
  <2>10. Len(a') = task'.len
    BY <1>1, <2>7, FFIKeeps DEF Asking
  <2> QED BY <2>6, <2>7, <2>9, <2>10, FFIKeeps, ArgFacts DEF ArgInv, Asking, Cells
<1> QED BY <1>1, <1>2, <1>3, <1>4 DEF Asking

LEMMA NextArgInv == Fresh /\ ArgInv /\ [Next]_vars => ArgInv'
<1> SUFFICES ASSUME Fresh, ArgInv, [Next]_vars PROVE ArgInv'
  OBVIOUS
<1>1. CASE UNCHANGED <<use, main, argv, a, call, task, got, end>>
  BY <1>1 DEF ArgInv, Asking, Counting, Measuring, Fetching, Later, read16bit, At, AtLeast2, Cells
<1>2. CASE Start /\ UNCHANGED call_vars
  BY <1>1, <1>2 DEF call_vars, Start, ReadSizes, CheckSizes, Allocate, init_code, StartAg32, Goto
<1>3. CASE Use
  <2>1. CASE UseArguments
    <3>1. use = "none" /\ main \in CRuntimes /\ argv' \in Argvs /\ got' = <<>>
      BY <2>1 DEF UseArguments, Begin, CRuntimes
    <3>2. task' = task /\ call' = call /\ end' = end /\ main' = main
      BY <2>1 DEF UseArguments, Begin, start_vars
    <3> QED BY <3>1, <3>2 DEF ArgInv, Fresh
  <2>2. CASE UseFiles \/ UseDoubles \/ UseExit \/ UseDebug \/ UseHost
    BY <2>2 DEF UseFiles, UseDoubles, UseExit, UseDebug, UseHost, Begin, ArgInv
  <2> QED BY <1>3, <2>1, <2>2 DEF Use
<1>4. CASE Client
  <2>1. CASE use = "arguments"
    BY <1>4, <2>1, ArgUses, ClineStep, CountedStep, AskArgStep, TakeArgStep, ArgFFIStep
  <2>2. CASE use # "arguments"
    BY <1>4, <2>2, ClientUse DEF ArgInv
  <2> QED BY <2>1, <2>2
<1>5. CASE HostNext
  BY <1>5 DEF HostNext, cml_main, cake_enter, cake_err3, cake_return, CallC, ReturnC, HostOnly, Top, ArgInv
<1>6. CASE \E clen \in {0, 1} : EmptyFFI(clen)
  BY <1>1, <1>6 DEF EmptyFFI, call_vars, start_vars
<1> QED BY <1>1, <1>2, <1>3, <1>4, <1>5, <1>6 DEF Next, vars, call_vars, start_vars

\* Every argument arrives as it is, on every runtime.
THEOREM ArgumentsArrive == Spec => []ArgumentsExact
<1>1. Init => OneUse /\ Fresh /\ ArgInv
  BY InitOneUse DEF Init, CallInit, ArgInv, Fresh, NoCall
<1>2. ArgInv => ArgumentsExact
  BY DEF ArgInv, ArgumentsExact, Asking, Counting, Measuring, Fetching, Idle
<1> QED BY <1>1, <1>2, NextOneUse, NextFresh, NextArgInv, PTL DEF Spec

------------------------------------------------------------------------------
(***************************************************************************)
(* Doubles.                                                                *)
(***************************************************************************)
\* The bytes from offset off of an array are those of d.
Holds(b, off, d) == \A k \in 1 .. 8 : b[off + k] = ByteOf(d, k - 1)
Kept(b) == b \in Seq(Cells) /\ Len(b) = BytesLength

\* Each function between its call and its result: the array holds the argument
\* as the runtime reads it, or the answer as ML reads it.
StringTask ==
  LET t == Strtod(UpToNul(prepareString(task.arg)))
  IN  /\ task.fn = "fromString" /\ task.arg \in Texts
      /\ \/ /\ call.name = "double_fromString" /\ call.c = prepareString(task.arg)
            /\ end.how = "return"
         \/ call.name = "none" /\ end.how = "abort" /\ main = "pancake"
         \/ /\ call.name = "none" /\ end.how = "return"
            /\ IF t.rest \/ t.range THEN a[1] # 0 ELSE a[1] = 0 /\ Holds(a, 1, t.num)
TextTask ==
  LET f == Format(task.arg)
  IN  /\ task.fn = "toString" /\ task.arg \in Doubles /\ end.how = "return"
      /\ \/ call.name = "double_toString" /\ Holds(a, 0, task.arg)
         \/ call.name = "none" /\ At(a, 0, Len(f)) = f /\ a[Len(f) + 1] = 0
FromIntTask ==
  /\ task.fn = "fromInt" /\ task.arg \in Ints
  /\ \/ call.name = "double_fromInt" /\ Holds(a, 0, Word64(task.arg))
     \/ call.name = "none" /\ Holds(a, 0, FromInt(toIntSigned(Word64(task.arg))))
ToIntTask ==
  /\ task.fn = "toInt" /\ task.arg \in Doubles
  /\ \/ call.name = "double_toInt" /\ Holds(a, 0, task.arg)
     \/ call.name = "none" /\ \E i \in ToInt(task.arg) : Holds(a, 0, i)
PowTask ==
  /\ task.fn = "pow" /\ task.arg \in Doubles \X Doubles
  /\ \/ call.name = "double_pow" /\ Holds(a, 0, task.arg[1]) /\ Holds(a, 8, task.arg[2])
     \/ call.name = "none" /\ Holds(a, 0, Pow(task.arg[1], task.arg[2]))
Library(fn, d) == CASE fn = "ln" -> Ln(d) [] fn = "exp" -> Exp(d) [] fn = "floor" -> Floor(d)
FunctionTask ==
  /\ task.fn \in {"ln", "exp", "floor"} /\ task.arg \in Doubles
  /\ \/ call.name = foreign[task.fn] /\ Holds(a, 0, task.arg)
     \/ call.name = "none" /\ Holds(a, 0, Library(task.fn, task.arg))
DoubleTask ==
  /\ task.len = BytesLength
  /\ \/ StringTask \/ TextTask
     \/ /\ main = "basis" /\ end.how = "return"
        /\ FromIntTask \/ ToIntTask \/ PowTask \/ FunctionTask
DoubleInv ==
  use = "doubles" =>
    /\ main \in {"basis", "pancake"} /\ Kept(a)
    /\ got = <<>> \/ Right(got)
    /\ DoubleTask \/ (task = Idle /\ call.name = "none" /\ end.how = "return")

LEMMA LongFacts ==
  ASSUME NEW d, IsLong(d)
  PROVE  d \in Int /\ d % Power[8] = d
BY Powers, Small DEF IsLong

LEMMA WriteFacts ==
  ASSUME NEW b \in Seq(Cells), NEW off \in Nat, off + 8 <= Len(b), NEW d \in Int
  PROVE  /\ write_bytes(b, off, d) \in Seq(Cells) /\ Len(write_bytes(b, off, d)) = Len(b)
         /\ Holds(write_bytes(b, off, d), off, d)
         /\ \A j \in 1 .. Len(b) : j <= off \/ off + 8 < j => write_bytes(b, off, d)[j] = b[j]
<1> DEFINE v == [k \in 1 .. 8 |-> ByteOf(d, k - 1)]
<1>1. \A k \in 1 .. 8 : ByteOf(d, k - 1) \in Cells
  <2>1. \A k \in 0 .. 7 : ByteOf(d, k) \in Cells
    BY NextByte DEF Cells
  <2>2. \A k \in 1 .. 8 : k - 1 \in 0 .. 7
    OBVIOUS
  <2> QED BY <2>1, <2>2
<1>2. v \in Seq(Cells) /\ Len(v) = 8 /\ \A k \in 1 .. 8 : v[k] = ByteOf(d, k - 1)
  BY <1>1
<1>3. write_bytes(b, off, d) = Put(b, off, v)
  BY DEF write_bytes
<1> HIDE DEF v
<1> DEFINE p == Put(b, off, v)
<1>4. /\ p \in Seq(Cells) /\ Len(p) = Len(b)
      /\ \A j \in 1 .. 8 : p[off + j] = v[j]
      /\ \A j \in 1 .. Len(b) : j <= off \/ off + 8 < j => p[j] = b[j]
  <2>1. v \in Seq(Cells) /\ off + Len(v) <= Len(b)
    BY <1>2
  <2>2. /\ p \in Seq(Cells) /\ Len(p) = Len(b)
        /\ \A j \in 1 .. Len(v) : p[off + j] = v[j]
        /\ \A j \in 1 .. Len(b) : j <= off \/ off + Len(v) < j => p[j] = b[j]
    BY <2>1, PutFacts
  <2> HIDE DEF p
  <2> QED BY <1>2, <2>2
<1> HIDE DEF p
<1> QED BY <1>2, <1>3, <1>4 DEF Holds, p

LEMMA ReadFacts ==
  ASSUME NEW b, NEW off \in Nat, NEW d, IsLong(d), Holds(b, off, d)
  PROVE  read_bytes(b, off) = d
<1> DEFINE c == [k \in 1 .. 8 |-> b[off + 9 - k]]
<1>1. ASSUME NEW k \in 1 .. 8 PROVE c[k] = ByteOf(d, 8 - k)
  <2>1. 9 - k \in 1 .. 8 /\ off + (9 - k) = off + 9 - k /\ (9 - k) - 1 = 8 - k
    OBVIOUS
  <2>2. b[off + (9 - k)] = ByteOf(d, (9 - k) - 1)
    BY <2>1 DEF Holds
  <2> QED BY <2>1, <2>2
<1> HIDE DEF c
<1>2. LongLong(c) = d % Power[8]
  BY <1>1, LongFacts, LongLongOf
<1> QED BY <1>2, LongFacts DEF read_bytes, c

\* A double in memory, as the runtime takes it.
Number(b) == LongLong([k \in 1 .. 8 |-> b[9 - k]])
LEMMA NumberFacts ==
  ASSUME NEW b \in Seq(Cells), NEW off \in Nat, off + 8 <= Len(b), NEW d, IsLong(d), Holds(b, off, d)
  PROVE  Number(At(b, off, 8)) = d
<1> DEFINE m == At(b, off, 8)
<1>1. \A j \in 1 .. 8 : m[j] = b[off + j]
  BY AtFacts
<1> HIDE DEF m
<1> DEFINE c == [k \in 1 .. 8 |-> m[9 - k]]
<1>2. ASSUME NEW k \in 1 .. 8 PROVE c[k] = ByteOf(d, 8 - k)
  <2>1. 9 - k \in 1 .. 8 /\ (9 - k) - 1 = 8 - k
    OBVIOUS
  <2>2. m[9 - k] = b[off + (9 - k)] /\ b[off + (9 - k)] = ByteOf(d, (9 - k) - 1)
    BY <1>1, <2>1 DEF Holds
  <2> QED BY <2>1, <2>2
<1> HIDE DEF c
<1>3. LongLong(c) = d % Power[8]
  BY <1>2, LongFacts, LongLongOf
<1> QED BY <1>3, LongFacts DEF Number, c, m

LEMMA AskDoubleFacts ==
  ASSUME NEW fn, NEW arg, NEW c, NEW b, AskDouble(fn, arg, c, b)
  PROVE  /\ task'.fn = fn /\ task'.arg = arg /\ task'.len = Len(b)
         /\ call'.name = foreign[fn] /\ call'.c = c /\ a' = b /\ got' = got /\ end' = end
         /\ main' = main /\ use' = use /\ end.how = "return"
<1> DEFINE t == [fn |-> fn, arg |-> arg]
<1>1. Ask(t, foreign[fn], c, b) /\ got' = got /\ end.how = "return"
  BY DEF AskDouble, CanStart, Running
<1>2. DOMAIN t = {"fn", "arg"} /\ t["fn"] = fn /\ t["arg"] = arg
  OBVIOUS
<1> HIDE DEF t
<1>3. task'["fn"] = fn /\ task'["arg"] = arg /\ task'.len = Len(b)
  BY <1>1, <1>2, AskFacts
<1> QED BY <1>1, <1>2, <1>3, AskFacts

LEMMA ResultFacts ==
  ASSUME NEW fn, NEW arg, NEW value, Result(fn, arg, value)
  PROVE  /\ task' = Idle /\ a' = a /\ got' = [fn |-> fn, arg |-> arg, value |-> value]
         /\ call' = call /\ end' = end /\ main' = main /\ use' = use
BY FinishFacts DEF Result

LEMMA DoubleFacts ==
  ASSUME DoubleInv, use = "doubles"
  PROVE  /\ main \in {"basis", "pancake"} /\ a \in Seq(Cells) /\ Len(a) = BytesLength
         /\ BytesLength \in Nat /\ BytesLength >= 16 /\ (got = <<>> \/ Right(got))
         /\ DoubleTask \/ (task = Idle /\ call.name = "none" /\ end.how = "return")
BY CallAssumption DEF DoubleInv, Kept

LEMMA Foreign ==
  /\ foreign["fromString"] = "double_fromString" /\ foreign["toString"] = "double_toString"
  /\ foreign["fromInt"] = "double_fromInt" /\ foreign["toInt"] = "double_toInt"
  /\ foreign["pow"] = "double_pow" /\ foreign["ln"] = "double_ln"
  /\ foreign["exp"] = "double_exp" /\ foreign["floor"] = "double_floor"
BY DEF foreign

\* An argument in the first eight bytes.
LEMMA ArgumentWritten ==
  ASSUME DoubleInv, use = "doubles", NEW d \in Int
  PROVE  Kept(write_bytes(a, 0, d)) /\ Holds(write_bytes(a, 0, d), 0, d)
<1>1. a \in Seq(Cells) /\ Len(a) = BytesLength /\ 0 \in Nat /\ 0 + 8 <= Len(a)
  BY DoubleFacts
<1> QED BY <1>1, WriteFacts DEF Kept

LEMMA DoubleTypes ==
  /\ \A d \in Doubles : d \in Int /\ IsLong(d)
  /\ \A n \in Ints : n \in Int /\ IsLong(Word64(n))
<1>1. \A d \in Doubles : d \in Int /\ IsLong(d)
  BY DoubleAssumption, LongFacts
<1>2. ASSUME NEW n \in Ints PROVE n \in Int /\ IsLong(Word64(n))
  <2>1. n \in Int /\ Power[8] \in Nat \ {0}
    BY TextAssumption, Powers
  <2>2. n % Power[8] \in 0 .. Power[8] - 1
    BY <2>1, Division
  <2> QED BY <2>1, <2>2 DEF IsLong, Word64
<1> QED BY <1>1, <1>2

LEMMA AskTextStep ==
  ASSUME DoubleInv, use = "doubles",
         (\E s \in Texts : fromString(s)) \/ (\E d \in Doubles : toString(d))
  PROVE  DoubleInv'
<1>1. ASSUME NEW s \in Texts, fromString(s) PROVE DoubleInv'
  <2>1. AskDouble("fromString", s, prepareString(s), a)
    BY <1>1 DEF fromString
  <2>2. /\ task'.fn = "fromString" /\ task'.arg = s /\ task'.len = Len(a)
        /\ call'.name = "double_fromString" /\ call'.c = prepareString(s)
        /\ a' = a /\ got' = got /\ end' = end /\ main' = main /\ end.how = "return"
    BY <2>1, AskDoubleFacts, Foreign
  <2>3. StringTask'
    BY <2>2 DEF StringTask
  <2>4. DoubleTask'
    BY <2>2, <2>3, DoubleFacts DEF DoubleTask
  <2> QED BY <2>2, <2>4, DoubleFacts DEF DoubleInv, Kept
<1>2. ASSUME NEW d \in Doubles, toString(d) PROVE DoubleInv'
  <2> DEFINE w == write_bytes(a, 0, d)
  <2>1. AskDouble("toString", d, <<>>, w)
    BY <1>2 DEF toString
  <2>2. Kept(w) /\ Holds(w, 0, d)
    BY DoubleTypes, ArgumentWritten
  <2> HIDE DEF w
  <2>3. /\ task'.fn = "toString" /\ task'.arg = d /\ task'.len = Len(w)
        /\ call'.name = "double_toString"
        /\ a' = w /\ got' = got /\ end' = end /\ main' = main /\ end.how = "return"
    BY <2>1, AskDoubleFacts, Foreign
  <2>4. TextTask'
    BY <2>2, <2>3 DEF TextTask
  <2>5. DoubleTask'
    BY <2>2, <2>3, <2>4 DEF DoubleTask, Kept
  <2> QED BY <2>2, <2>3, <2>5, DoubleFacts DEF DoubleInv
<1> QED BY <1>1, <1>2

LEMMA AskNumberStep ==
  ASSUME DoubleInv, use = "doubles", main = "basis",
         \/ \E n \in Ints : fromInt(n)
         \/ \E d \in Doubles : toInt(d) \/ \E fn \in {"ln", "exp", "floor"} : function(fn, d)
  PROVE  DoubleInv'
<1>1. ASSUME NEW n \in Ints, fromInt(n) PROVE DoubleInv'
  <2> DEFINE w == write_bytes(a, 0, Word64(n))
  <2>1. AskDouble("fromInt", n, <<>>, w)
    BY <1>1 DEF fromInt
  <2>2. Kept(w) /\ Holds(w, 0, Word64(n))
    <3>1. Word64(n) \in Int
      BY DoubleTypes, LongFacts
    <3> QED BY <3>1, ArgumentWritten
  <2> HIDE DEF w
  <2>3. /\ task'.fn = "fromInt" /\ task'.arg = n /\ task'.len = Len(w)
        /\ call'.name = "double_fromInt"
        /\ a' = w /\ got' = got /\ end' = end /\ main' = main /\ end.how = "return"
    BY <2>1, AskDoubleFacts, Foreign
  <2>4. FromIntTask'
    BY <2>2, <2>3 DEF FromIntTask
  <2>5. DoubleTask'
    BY <2>2, <2>3, <2>4 DEF DoubleTask, Kept
  <2> QED BY <2>2, <2>3, <2>5, DoubleFacts DEF DoubleInv
<1>2. ASSUME NEW d \in Doubles, toInt(d) PROVE DoubleInv'
  <2> DEFINE w == write_bytes(a, 0, d)
  <2>1. AskDouble("toInt", d, <<>>, w)
    BY <1>2 DEF toInt
  <2>2. Kept(w) /\ Holds(w, 0, d)
    BY DoubleTypes, ArgumentWritten
  <2> HIDE DEF w
  <2>3. /\ task'.fn = "toInt" /\ task'.arg = d /\ task'.len = Len(w)
        /\ call'.name = "double_toInt"
        /\ a' = w /\ got' = got /\ end' = end /\ main' = main /\ end.how = "return"
    BY <2>1, AskDoubleFacts, Foreign
  <2>4. ToIntTask'
    BY <2>2, <2>3 DEF ToIntTask
  <2>5. DoubleTask'
    BY <2>2, <2>3, <2>4 DEF DoubleTask, Kept
  <2> QED BY <2>2, <2>3, <2>5, DoubleFacts DEF DoubleInv
<1>3. ASSUME NEW d \in Doubles, NEW fn \in {"ln", "exp", "floor"}, function(fn, d) PROVE DoubleInv'
  <2> DEFINE w == write_bytes(a, 0, d)
  <2>1. AskDouble(fn, d, <<>>, w)
    BY <1>3 DEF function
  <2>2. Kept(w) /\ Holds(w, 0, d)
    BY DoubleTypes, ArgumentWritten
  <2> HIDE DEF w
  <2>3. /\ task'.fn = fn /\ task'.arg = d /\ task'.len = Len(w)
        /\ call'.name = foreign[fn]
        /\ a' = w /\ got' = got /\ end' = end /\ main' = main /\ end.how = "return"
    BY <2>1, AskDoubleFacts
  <2>4. FunctionTask'
    BY <2>2, <2>3 DEF FunctionTask
  <2>5. DoubleTask'
    BY <2>2, <2>3, <2>4 DEF DoubleTask, Kept
  <2> QED BY <2>2, <2>3, <2>5, DoubleFacts DEF DoubleInv
<1> QED BY <1>1, <1>2, <1>3

LEMMA AskPowStep ==
  ASSUME DoubleInv, use = "doubles", main = "basis", NEW x \in Doubles, NEW y \in Doubles, pow(x, y)
  PROVE  DoubleInv'
<1> DEFINE u == write_bytes(a, 0, x)
           w == write_bytes(u, 8, y)
<1>1. AskDouble("pow", <<x, y>>, <<>>, w)
  BY DEF pow
<1>2. Kept(u) /\ Holds(u, 0, x)
  BY DoubleTypes, ArgumentWritten
<1> HIDE DEF u
<1>3. u \in Seq(Cells) /\ Len(u) = BytesLength /\ 8 \in Nat /\ 8 + 8 <= Len(u) /\ y \in Int
  BY <1>2, DoubleTypes, DoubleFacts DEF Kept
<1>4. /\ Kept(w) /\ Holds(w, 8, y)
      /\ \A j \in 1 .. Len(u) : j <= 8 \/ 8 + 8 < j => w[j] = u[j]
  BY <1>3, WriteFacts DEF Kept
<1> HIDE DEF w
<1>5. \A k \in 1 .. 8 : 0 + k \in 1 .. Len(u) /\ 0 + k <= 8
  BY <1>3, DoubleFacts
<1>6. Holds(w, 0, x)
  BY <1>2, <1>4, <1>5 DEF Holds
<1>7. /\ task'.fn = "pow" /\ task'.arg = <<x, y>> /\ task'.len = Len(w)
      /\ call'.name = "double_pow"
      /\ a' = w /\ got' = got /\ end' = end /\ main' = main /\ end.how = "return"
  BY <1>1, AskDoubleFacts, Foreign
<1>8. <<x, y>> \in Doubles \X Doubles /\ <<x, y>>[1] = x /\ <<x, y>>[2] = y
  OBVIOUS
<1>9. PowTask'
  BY <1>4, <1>6, <1>7, <1>8 DEF PowTask
<1>10. DoubleTask'
  BY <1>4, <1>7, <1>9 DEF DoubleTask, Kept
<1> QED BY <1>4, <1>7, <1>10, DoubleFacts DEF DoubleInv

\* What the runtimes make of the array for each function.
Abandoned == [os |-> os, a |-> a, how |-> "abort", status |-> 0]
LEMMA StringOutcome ==
  ASSUME call.name = "double_fromString", main \in {"basis", "pancake"}, Len(a) # 8
  PROVE  LET t == Strtod(UpToNul(call.c))
         IN  /\ main = "basis" =>
                  Outcomes = {Back(os, IF t.range \/ t.rest THEN Put(a, 0, <<1>>)
                                       ELSE write_bytes(Put(a, 0, <<0>>), 1, t.num))}
             /\ main = "pancake" => Outcomes = {Abandoned}
<1>1. CASE main = "basis"
  BY <1>1 DEF Outcomes, Basis!Call, Basis!ffidouble_fromString, Basis!UpToNul, UpToNul,
     Basis!Back, Back, Basis!Put, Put, Basis!ByteOf, ByteOf, Basis!Power, Power,
     Basis!Bytes, Basis!Number, Number, Basis!LongLong, LongLong, Basis!At, At, write_bytes
<1>2. CASE main = "pancake"
  BY <1>2 DEF Outcomes, Pancake!Call, Pancake!ffidouble_fromString, Pancake!Assert, Pancake!Abort, Abandoned
<1> QED BY <1>1, <1>2

LEMMA TextOutcome ==
  ASSUME call.name = "double_toString", main \in {"basis", "pancake"}, Len(a) = BytesLength
  PROVE  Outcomes = {Back(os, Put(a, 0, Format(Number(At(a, 0, 8))) \o <<0>>))}
<1>1. CASE main = "basis"
  BY <1>1 DEF Outcomes, Basis!Call, Basis!ffidouble_toString,
     Basis!Back, Back, Basis!Put, Put, Basis!ByteOf, ByteOf, Basis!Power, Power,
     Basis!Bytes, Basis!Number, Number, Basis!LongLong, LongLong, Basis!At, At, write_bytes
<1>2. CASE main = "pancake"
  BY <1>2 DEF Outcomes, Pancake!Call, Pancake!ffidouble_toString, Pancake!Assert,
     Pancake!Back, Back, Pancake!Put, Put, Pancake!ByteOf, ByteOf, Pancake!Power, Power,
     Pancake!Number, Number, Pancake!LongLong, LongLong, Pancake!At, At, write_bytes
<1> QED BY <1>1, <1>2

LEMMA NumberOutcomes ==
  ASSUME main = "basis"
  PROVE  LET d == Number(At(a, 0, 8))
             Left(i) == Back(os, write_bytes(a, 0, i))
         IN  /\ call.name = "double_fromInt" => Outcomes = {Left(FromInt(toIntSigned(d)))}
             /\ call.name = "double_toInt" => Outcomes = {Left(i) : i \in ToInt(d)}
             /\ call.name = "double_pow" => Outcomes = {Left(Pow(d, Number(At(a, 8, 8))))}
             /\ call.name = "double_ln" => Outcomes = {Left(Ln(d))}
             /\ call.name = "double_exp" => Outcomes = {Left(Exp(d))}
             /\ call.name = "double_floor" => Outcomes = {Left(Floor(d))}
<1>1. CASE call.name = "double_fromInt"
  BY <1>1 DEF Outcomes, Basis!Call, Basis!ffidouble_fromInt, toIntSigned,
     Basis!Back, Back, Basis!Put, Put, Basis!ByteOf, ByteOf, Basis!Power, Power,
     Basis!Bytes, Basis!Number, Number, Basis!LongLong, LongLong, Basis!At, At, write_bytes
<1>2. CASE call.name = "double_toInt"
  BY <1>2 DEF Outcomes, Basis!Call, Basis!ffidouble_toInt,
     Basis!Back, Back, Basis!Put, Put, Basis!ByteOf, ByteOf, Basis!Power, Power,
     Basis!Bytes, Basis!Number, Number, Basis!LongLong, LongLong, Basis!At, At, write_bytes
<1>3. CASE call.name = "double_pow"
  BY <1>3 DEF Outcomes, Basis!Call, Basis!ffidouble_pow,
     Basis!Back, Back, Basis!Put, Put, Basis!ByteOf, ByteOf, Basis!Power, Power,
     Basis!Bytes, Basis!Number, Number, Basis!LongLong, LongLong, Basis!At, At, write_bytes
<1>4. CASE call.name = "double_ln"
  BY <1>4 DEF Outcomes, Basis!Call, Basis!ffidouble_ln,
     Basis!Back, Back, Basis!Put, Put, Basis!ByteOf, ByteOf, Basis!Power, Power,
     Basis!Bytes, Basis!Number, Number, Basis!LongLong, LongLong, Basis!At, At, write_bytes
<1>5. CASE call.name = "double_exp"
  BY <1>5 DEF Outcomes, Basis!Call, Basis!ffidouble_exp,
     Basis!Back, Back, Basis!Put, Put, Basis!ByteOf, ByteOf, Basis!Power, Power,
     Basis!Bytes, Basis!Number, Number, Basis!LongLong, LongLong, Basis!At, At, write_bytes
<1>6. CASE call.name = "double_floor"
  BY <1>6 DEF Outcomes, Basis!Call, Basis!ffidouble_floor,
     Basis!Back, Back, Basis!Put, Put, Basis!ByteOf, ByteOf, Basis!Power, Power,
     Basis!Bytes, Basis!Number, Number, Basis!LongLong, LongLong, Basis!At, At, write_bytes
<1> QED BY <1>1, <1>2, <1>3, <1>4, <1>5, <1>6

\* The text without a zero that C sees is the one that ML wrote.
LEMMA WholeText ==
  ASSUME NEW s \in Texts, Plain(s)
  PROVE  UpToNul(prepareString(s)) = prepareString(s)
<1>1. s \in Seq(0 .. Base - 1) /\ Len(s) \in Nat
  BY TextAssumption
<1>2. \A j \in 1 .. Len(s) : s[j] # 0
  BY DEF Plain
<1>3. Minus # 0
  BY TextAssumption, BaseFacts
<1> DEFINE c == prepareString(s)
<1>4. Len(c) = Len(s) /\ \A j \in 1 .. Len(c) : c[j] # 0
  BY <1>1, <1>2, <1>3 DEF prepareString
<1> HIDE DEF c
<1>5. {j \in 1 .. Len(c) : c[j] = 0} = {}
  BY <1>4
<1>6. UpToNul(c) = c
  BY <1>5 DEF UpToNul
<1> QED BY <1>6 DEF c

LEMMA OneByte ==
  ASSUME DoubleInv, use = "doubles", NEW x \in {0, 1}
  PROVE  Kept(Put(a, 0, <<x>>)) /\ Put(a, 0, <<x>>)[1] = x
<1> DEFINE v == <<x>>
           p == Put(a, 0, v)
<1>1. x \in Cells
  BY BaseFacts DEF Cells
<1>2. v \in Seq(Cells) /\ Len(v) = 1 /\ v[1] = x
  BY <1>1
<1> HIDE DEF v
<1>3. a \in Seq(Cells) /\ 0 \in Nat /\ v \in Seq(Cells) /\ 0 + Len(v) <= Len(a)
  BY <1>2, DoubleFacts
<1>7. Len(a) = BytesLength
  BY DoubleFacts
<1>4. p \in Seq(Cells) /\ Len(p) = Len(a) /\ \A j \in 1 .. Len(v) : p[0 + j] = v[j]
  BY <1>3, PutFacts
<1> HIDE DEF p
<1>5. p[1] = x
  <2>1. 1 \in 1 .. Len(v) /\ 0 + 1 = 1
    BY <1>2
  <2> QED BY <1>2, <1>4, <2>1
<1>6. Kept(p)
  BY <1>4, <1>7 DEF Kept
<1> QED BY <1>5, <1>6 DEF p, v

LEMMA StringAnswer ==
  ASSUME DoubleInv, use = "doubles", FFI, StringTask
  PROVE  DoubleInv'
<1> DEFINE t == Strtod(UpToNul(prepareString(task.arg)))
<1>1. /\ call.name = "double_fromString" /\ call.c = prepareString(task.arg)
      /\ task.fn = "fromString" /\ task.arg \in Texts
  BY FFIKeeps DEF StringTask
<1>2. IsLong(t.num)
  BY <1>1, DoubleAssumption
<1>3. main \in {"basis", "pancake"} /\ Len(a) # 8 /\ task.len = BytesLength
  <2>1. DoubleTask
    BY <1>1, DoubleFacts DEF Idle
  <2> QED BY <2>1, DoubleFacts DEF DoubleTask
<1>4. CASE main = "pancake"
  <2>1. Outcomes = {Abandoned}
    BY <1>1, <1>3, <1>4, StringOutcome
  <2>2. a' = a /\ end'.how = "abort"
    BY <2>1 DEF FFI, Abandoned
  <2>3. StringTask'
    BY <1>1, <1>4, <2>2, FFIKeeps DEF StringTask
  <2>4. DoubleTask'
    BY <1>3, <2>3, FFIKeeps DEF DoubleTask
  <2> QED BY <2>2, <2>4, DoubleFacts, FFIKeeps DEF DoubleInv, Kept
<1>5. CASE main = "basis"
  <2>1. Outcomes = {Back(os, IF t.range \/ t.rest THEN Put(a, 0, <<1>>)
                             ELSE write_bytes(Put(a, 0, <<0>>), 1, t.num))}
    BY <1>1, <1>3, <1>5, StringOutcome
  <2>2. CASE t.range \/ t.rest
    <3>1. a' = Put(a, 0, <<1>>) /\ end'.how = "return"
      BY <2>1, <2>2, OneAnswer
    <3>2. Kept(a') /\ a'[1] # 0
      BY <3>1, OneByte
    <3>3. StringTask'
      BY <1>1, <2>2, <3>1, <3>2, FFIKeeps DEF StringTask
    <3>4. DoubleTask'
      BY <1>3, <3>3, FFIKeeps DEF DoubleTask
    <3> QED BY <3>2, <3>4, DoubleFacts, FFIKeeps DEF DoubleInv
  <2>3. CASE ~(t.range \/ t.rest)
    <3> DEFINE p == Put(a, 0, <<0>>)
               w == write_bytes(p, 1, t.num)
    <3>1. a' = w /\ end'.how = "return"
      BY <2>1, <2>3, OneAnswer
    <3>2. Kept(p) /\ p[1] = 0
      BY OneByte
    <3> HIDE DEF p
    <3>3. p \in Seq(Cells) /\ Len(p) = BytesLength /\ 1 \in Nat /\ 1 + 8 <= Len(p) /\ t.num \in Int
      BY <1>2, <3>2, DoubleFacts, LongFacts DEF Kept
    <3>4. /\ w \in Seq(Cells) /\ Len(w) = Len(p) /\ Holds(w, 1, t.num)
          /\ \A j \in 1 .. Len(p) : j <= 1 \/ 1 + 8 < j => w[j] = p[j]
      BY <3>3, WriteFacts
    <3> HIDE DEF w, t
    <3>5. Kept(w) /\ w[1] = 0
      BY <3>2, <3>3, <3>4, DoubleFacts DEF Kept
    <3>6. StringTask'
      BY <1>1, <2>3, <3>1, <3>4, <3>5, FFIKeeps DEF StringTask, t
    <3>7. DoubleTask'
      BY <1>3, <3>6, FFIKeeps DEF DoubleTask
    <3> QED BY <3>1, <3>5, <3>7, DoubleFacts, FFIKeeps DEF DoubleInv
  <2> QED BY <2>2, <2>3
<1> QED BY <1>3, <1>4, <1>5

LEMMA TextAnswer ==
  ASSUME DoubleInv, use = "doubles", FFI, TextTask, task.len = BytesLength
  PROVE  DoubleInv'
<1> DEFINE f == Format(task.arg)
           v == f \o <<0>>
           p == Put(a, 0, v)
<1>1. /\ call.name = "double_toString" /\ Holds(a, 0, task.arg)
      /\ task.fn = "toString" /\ task.arg \in Doubles
  BY FFIKeeps DEF TextTask
<1>2. Number(At(a, 0, 8)) = task.arg
  <2>1. a \in Seq(Cells) /\ 0 \in Nat /\ 0 + 8 <= Len(a)
    BY DoubleFacts
  <2> QED BY <1>1, <2>1, DoubleTypes, NumberFacts
<1>3. a' = p /\ end'.how = "return"
  <2>1. Outcomes = {Back(os, p)}
    BY <1>1, <1>2, DoubleFacts, TextOutcome
  <2> QED BY <2>1, OneAnswer
<1>4. f \in Seq(Cells) /\ Len(f) \in Nat /\ Len(f) < BytesLength
  <2>1. f \in Seq(1 .. Base - 1) /\ Len(f) < BytesLength
    BY <1>1, CallAssumption
  <2>2. 1 .. Base - 1 \subseteq Cells
    BY BaseFacts DEF Cells
  <2>3. f \in Seq(Cells)
    BY <2>1, <2>2, SeqMonotonic
  <2> QED BY <2>1, <2>3
<1> HIDE DEF f
<1>5. /\ v \in Seq(Cells) /\ Len(v) = Len(f) + 1 /\ v[Len(f) + 1] = 0
      /\ \A j \in 1 .. Len(f) : v[j] = f[j]
  <2>1. <<0>> \in Seq(Cells) /\ Len(<<0>>) = 1 /\ <<0>>[1] = 0
    BY BaseFacts DEF Cells
  <2> QED BY <1>4, <2>1
<1> HIDE DEF v
<1>6. a \in Seq(Cells) /\ 0 \in Nat /\ v \in Seq(Cells) /\ 0 + Len(v) <= Len(a)
  BY <1>4, <1>5, DoubleFacts
<1>7. p \in Seq(Cells) /\ Len(p) = Len(a) /\ \A j \in 1 .. Len(v) : p[0 + j] = v[j]
  BY <1>6, PutFacts
<1> HIDE DEF p
<1>8. p[Len(f) + 1] = 0 /\ \A j \in 1 .. Len(f) : p[j] = f[j]
  <2>1. \A j \in 1 .. Len(v) : p[j] = v[j]
    BY <1>4, <1>5, <1>7
  <2> QED BY <1>4, <1>5, <2>1
<1>9. At(p, 0, Len(f)) = f
  <2> DEFINE m == At(p, 0, Len(f))
  <2>1. Len(f) \in Nat /\ 0 + Len(f) <= Len(p)
    BY <1>4, <1>5, <1>6, <1>7
  <2>2. m \in Seq(Cells) /\ Len(m) = Len(f) /\ \A j \in 1 .. Len(f) : m[j] = p[0 + j]
    BY <1>7, <2>1, AtFacts
  <2> HIDE DEF m
  <2>3. \A j \in 1 .. Len(m) : m[j] = f[j]
    BY <1>8, <2>2
  <2>4. m = f
    BY <1>4, <2>2, <2>3, SeqEqual
  <2> QED BY <2>4 DEF m
<1>10. TextTask'
  BY <1>1, <1>3, <1>8, <1>9, FFIKeeps DEF TextTask, f
<1>11. DoubleTask'
  BY <1>10, FFIKeeps DEF DoubleTask
<1> QED BY <1>3, <1>7, <1>11, DoubleFacts, FFIKeeps DEF DoubleInv, Kept

LEMMA NumberAnswer ==
  ASSUME DoubleInv, use = "doubles", FFI, main = "basis", end.how = "return", task.len = BytesLength,
         FromIntTask \/ ToIntTask \/ PowTask \/ FunctionTask
  PROVE  DoubleInv'
<1>1. a \in Seq(Cells) /\ Len(a) = BytesLength /\ 0 \in Nat /\ 0 + 8 <= Len(a) /\ 8 \in Nat /\ 8 + 8 <= Len(a)
  BY DoubleFacts
<1>2. \A d : IsLong(d) /\ Holds(a, 0, d) => Number(At(a, 0, 8)) = d
  BY <1>1, NumberFacts
<1>3. ASSUME NEW i, IsLong(i), a' = write_bytes(a, 0, i), end'.how = "return"
      PROVE  /\ Kept(a') /\ Holds(a', 0, i)
             /\ (FromIntTask \/ ToIntTask \/ PowTask \/ FunctionTask)' => DoubleInv'
  <2>1. i \in Int
    BY <1>3, LongFacts
  <2>2. Kept(a') /\ Holds(a', 0, i)
    BY <1>3, <2>1, ArgumentWritten
  <2>3. ASSUME (FromIntTask \/ ToIntTask \/ PowTask \/ FunctionTask)' PROVE DoubleTask'
    BY <1>3, <2>3, FFIKeeps DEF DoubleTask
  <2> QED BY <2>2, <2>3, DoubleFacts, FFIKeeps DEF DoubleInv
<1>4. CASE FromIntTask
  <2> DEFINE i == FromInt(toIntSigned(Word64(task.arg)))
  <2>1. call.name = "double_fromInt" /\ Holds(a, 0, Word64(task.arg)) /\ task.arg \in Ints
    BY <1>4, FFIKeeps DEF FromIntTask
  <2>2. Number(At(a, 0, 8)) = Word64(task.arg)
    BY <1>2, <2>1, DoubleTypes
  <2>3. Outcomes = {Back(os, write_bytes(a, 0, i))}
    BY <2>1, <2>2, NumberOutcomes
  <2>4. a' = write_bytes(a, 0, i) /\ end'.how = "return" /\ IsLong(i)
    BY <2>1, <2>3, OneAnswer, DoubleAssumption
  <2>5. Holds(a', 0, i) /\ (FromIntTask' => DoubleInv')
    BY <1>3, <2>4
  <2>6. FromIntTask'
    BY <1>4, <2>5, FFIKeeps DEF FromIntTask
  <2> QED BY <2>5, <2>6
<1>5. CASE ToIntTask
  <2>1. call.name = "double_toInt" /\ Holds(a, 0, task.arg) /\ task.arg \in Doubles
    BY <1>5, FFIKeeps DEF ToIntTask
  <2>2. Number(At(a, 0, 8)) = task.arg
    BY <1>2, <2>1, DoubleTypes
  <2>3. Outcomes = {Back(os, write_bytes(a, 0, i)) : i \in ToInt(task.arg)}
    BY <2>1, <2>2, NumberOutcomes
  <2>4. PICK i \in ToInt(task.arg) : a' = write_bytes(a, 0, i) /\ end'.how = "return"
    BY <2>3 DEF FFI, Back
  <2>5. IsLong(i)
    BY <2>1, DoubleAssumption
  <2>6. Holds(a', 0, i) /\ (ToIntTask' => DoubleInv')
    BY <1>3, <2>4, <2>5
  <2>7. ToIntTask'
    BY <1>5, <2>6, FFIKeeps DEF ToIntTask
  <2> QED BY <2>6, <2>7
<1>6. CASE PowTask
  <2> DEFINE x == task.arg[1]
             y == task.arg[2]
             i == Pow(x, y)
  <2>1. /\ call.name = "double_pow" /\ Holds(a, 0, x) /\ Holds(a, 8, y)
        /\ task.arg \in Doubles \X Doubles
    BY <1>6, FFIKeeps DEF PowTask
  <2>2. x \in Doubles /\ y \in Doubles
    BY <2>1
  <2>3. Number(At(a, 0, 8)) = x /\ Number(At(a, 8, 8)) = y
    BY <1>1, <1>2, <2>1, <2>2, DoubleTypes, NumberFacts
  <2>4. Outcomes = {Back(os, write_bytes(a, 0, i))}
    BY <2>1, <2>3, NumberOutcomes
  <2>5. a' = write_bytes(a, 0, i) /\ end'.how = "return" /\ IsLong(i)
    BY <2>2, <2>4, OneAnswer, DoubleAssumption
  <2>6. Holds(a', 0, i) /\ (PowTask' => DoubleInv')
    BY <1>3, <2>5
  <2>7. PowTask'
    BY <1>6, <2>6, FFIKeeps DEF PowTask
  <2> QED BY <2>6, <2>7
<1>7. CASE FunctionTask
  <2> DEFINE i == Library(task.fn, task.arg)
  <2>1. /\ call.name = foreign[task.fn] /\ Holds(a, 0, task.arg)
        /\ task.fn \in {"ln", "exp", "floor"} /\ task.arg \in Doubles
    BY <1>7, FFIKeeps DEF FunctionTask
  <2>2. Number(At(a, 0, 8)) = task.arg
    BY <1>2, <2>1, DoubleTypes
  <2>3. Outcomes = {Back(os, write_bytes(a, 0, i))} /\ IsLong(i)
    <3>1. CASE task.fn = "ln"
      BY <2>1, <2>2, <3>1, Foreign, NumberOutcomes, DoubleAssumption DEF Library
    <3>2. CASE task.fn = "exp"
      BY <2>1, <2>2, <3>2, Foreign, NumberOutcomes, DoubleAssumption DEF Library
    <3>3. CASE task.fn = "floor"
      BY <2>1, <2>2, <3>3, Foreign, NumberOutcomes, DoubleAssumption DEF Library
    <3> QED BY <2>1, <3>1, <3>2, <3>3
  <2>4. a' = write_bytes(a, 0, i) /\ end'.how = "return"
    BY <2>3, OneAnswer
  <2>5. Holds(a', 0, i) /\ (FunctionTask' => DoubleInv')
    BY <1>3, <2>3, <2>4
  <2>6. FunctionTask'
    BY <1>7, <2>5, FFIKeeps DEF FunctionTask
  <2> QED BY <2>5, <2>6
<1> QED BY <1>4, <1>5, <1>6, <1>7

LEMMA DoubleFFIStep ==
  ASSUME DoubleInv, use = "doubles", FFI
  PROVE  DoubleInv'
<1>1. DoubleTask
  BY DoubleFacts, FFIKeeps
<1> QED BY <1>1, StringAnswer, TextAnswer, NumberAnswer DEF DoubleTask

\* The results.
LEMMA ReadStringStep ==
  ASSUME DoubleInv, use = "doubles", ReadString
  PROVE  DoubleInv'
<1> DEFINE value == IF a[1] = 0 THEN <<read_bytes(a, 1)>> ELSE <<>>
           r == [fn |-> "fromString", arg |-> task.arg, value |-> value]
           t == Strtod(UpToNul(prepareString(task.arg)))
<1>1. /\ task.fn = "fromString" /\ call.name = "none" /\ end.how = "return"
      /\ Result("fromString", task.arg, value)
  BY DEF ReadString, Returned, Running
<1>2. StringTask
  BY <1>1, DoubleFacts DEF DoubleTask, Idle, TextTask, FromIntTask, ToIntTask, PowTask, FunctionTask
<1>3. task.arg \in Texts /\ IF t.rest \/ t.range THEN a[1] # 0 ELSE a[1] = 0 /\ Holds(a, 1, t.num)
  BY <1>1, <1>2 DEF StringTask
<1>4. value = (IF t.rest \/ t.range THEN <<>> ELSE <<t.num>>)
  <2>1. IsLong(t.num)
    BY <1>3, DoubleAssumption
  <2>2. Holds(a, 1, t.num) => read_bytes(a, 1) = t.num
    BY <2>1, ReadFacts
  <2> QED BY <1>3, <2>2
<1>5. Plain(task.arg) => value = (LET u == Strtod(prepareString(task.arg)) IN IF u.rest \/ u.range THEN <<>> ELSE <<u.num>>)
  BY <1>3, <1>4, WholeText
<1> HIDE DEF value
<1>6. Right(r)
  BY <1>5 DEF Right
<1> HIDE DEF r
<1>7. got' = r /\ task' = Idle /\ a' = a /\ call' = call /\ end' = end /\ main' = main
  BY <1>1, ResultFacts DEF r
<1> QED BY <1>1, <1>6, <1>7, DoubleFacts DEF DoubleInv, Kept

LEMMA ReadTextStep ==
  ASSUME DoubleInv, use = "doubles", ReadText
  PROVE  DoubleInv'
<1> DEFINE zeros == {j \in 1 .. Len(a) : a[j] = 0}
           first == CHOOSE j \in zeros : \A k \in zeros : j <= k
           n == first - 1
           r == [fn |-> "toString", arg |-> task.arg, value |-> At(a, 0, n)]
           f == Format(task.arg)
<1>1. /\ task.fn = "toString" /\ call.name = "none" /\ end.how = "return"
      /\ Result("toString", task.arg, At(a, 0, n))
  BY DEF ReadText, Returned, Running
<1>2. TextTask
  BY <1>1, DoubleFacts DEF DoubleTask, Idle, StringTask, FromIntTask, ToIntTask, PowTask, FunctionTask
<1>3. task.arg \in Doubles /\ At(a, 0, Len(f)) = f /\ a[Len(f) + 1] = 0
  BY <1>1, <1>2 DEF TextTask
<1>4. f \in Seq(1 .. Base - 1) /\ Len(f) < BytesLength /\ Len(f) \in Nat
  BY <1>3, CallAssumption
<1> HIDE DEF f
<1>5. a \in Seq(Cells) /\ Len(a) = BytesLength /\ BytesLength \in Nat
  BY DoubleFacts
<1>6. \A j \in 1 .. Len(f) : a[j] # 0
  <2> DEFINE m == At(a, 0, Len(f))
  <2>1. 0 \in Nat /\ 0 + Len(f) <= Len(a)
    BY <1>4, <1>5
  <2>2. \A j \in 1 .. Len(f) : m[j] = a[0 + j]
    BY <1>4, <1>5, <2>1, AtFacts
  <2>3. m = f
    BY <1>3
  <2> HIDE DEF m
  <2>4. ASSUME NEW j \in 1 .. Len(f) PROVE f[j] # 0
    <3>1. f[j] \in 1 .. Base - 1
      BY <1>4, ElementOfSeq
    <3> QED BY <3>1, BaseFacts
  <2> QED BY <1>4, <2>2, <2>3, <2>4
<1>7. Len(f) + 1 \in zeros /\ \A k \in zeros : Len(f) + 1 <= k
  BY <1>3, <1>4, <1>5, <1>6
<1>8. \A j \in zeros : (\A k \in zeros : j <= k) => j = Len(f) + 1
  BY <1>4, <1>5, <1>7
<1> HIDE DEF zeros
<1>9. first = Len(f) + 1
  BY <1>7, <1>8
<1> HIDE DEF first
<1>10. n = Len(f)
  BY <1>4, <1>9
<1> HIDE DEF n
<1>11. Right(r)
  BY <1>3, <1>10 DEF Right, f
<1> HIDE DEF r
<1>12. got' = r /\ task' = Idle /\ a' = a /\ call' = call /\ end' = end /\ main' = main
  BY <1>1, ResultFacts DEF r
<1> QED BY <1>1, <1>11, <1>12, DoubleFacts DEF DoubleInv, Kept

LEMMA ReadIntStep ==
  ASSUME DoubleInv, use = "doubles", ReadInt
  PROVE  DoubleInv'
<1> DEFINE value == toIntSigned(read_bytes(a, 0))
           r == [fn |-> "toInt", arg |-> task.arg, value |-> value]
<1>1. /\ task.fn = "toInt" /\ call.name = "none" /\ end.how = "return"
      /\ Result("toInt", task.arg, value)
  BY DEF ReadInt, Returned, Running
<1>2. ToIntTask
  BY <1>1, DoubleFacts DEF DoubleTask, Idle, StringTask, TextTask, FromIntTask, PowTask, FunctionTask
<1>3. PICK i \in ToInt(task.arg) : Holds(a, 0, i)
  BY <1>1, <1>2 DEF ToIntTask
<1>4. IsLong(i)
  BY <1>2, <1>3, DoubleAssumption DEF ToIntTask
<1>5. read_bytes(a, 0) = i
  BY <1>3, <1>4, ReadFacts
<1>6. value \in {toIntSigned(j) : j \in ToInt(task.arg)}
  BY <1>3, <1>5
<1> HIDE DEF value
<1>7. Right(r)
  BY <1>6 DEF Right
<1> HIDE DEF r
<1>8. got' = r /\ task' = Idle /\ a' = a /\ call' = call /\ end' = end /\ main' = main
  BY <1>1, ResultFacts DEF r
<1> QED BY <1>1, <1>7, <1>8, DoubleFacts DEF DoubleInv, Kept

LEMMA ReadDoubleStep ==
  ASSUME DoubleInv, use = "doubles", ReadDouble
  PROVE  DoubleInv'
<1> DEFINE value == read_bytes(a, 0)
           r == [fn |-> task.fn, arg |-> task.arg, value |-> value]
<1>1. /\ task.fn \in {"fromInt", "pow", "ln", "exp", "floor"} /\ call.name = "none"
      /\ end.how = "return" /\ Result(task.fn, task.arg, value)
  BY DEF ReadDouble, Returned, Running
<1>2. FromIntTask \/ PowTask \/ FunctionTask
  BY <1>1, DoubleFacts DEF DoubleTask, Idle, StringTask, TextTask, ToIntTask
<1>3. \A d : IsLong(d) /\ Holds(a, 0, d) => value = d
  BY ReadFacts
<1> HIDE DEF value
<1>4. ASSUME FromIntTask PROVE Right(r)
  <2> DEFINE d == FromInt(toIntSigned(Word64(task.arg)))
  <2>1. task.fn = "fromInt" /\ task.arg \in Ints /\ Holds(a, 0, d)
    BY <1>1, <1>4 DEF FromIntTask
  <2>2. value = d
    BY <1>3, <2>1, DoubleAssumption
  <2> QED BY <2>1, <2>2 DEF Right
<1>5. ASSUME PowTask PROVE Right(r)
  <2> DEFINE d == Pow(task.arg[1], task.arg[2])
  <2>1. task.fn = "pow" /\ task.arg \in Doubles \X Doubles /\ Holds(a, 0, d)
    BY <1>1, <1>5 DEF PowTask
  <2>2. task.arg[1] \in Doubles /\ task.arg[2] \in Doubles
    BY <2>1
  <2>3. value = d
    BY <1>3, <2>1, <2>2, DoubleAssumption
  <2> QED BY <2>1, <2>3 DEF Right
<1>6. ASSUME FunctionTask PROVE Right(r)
  <2>1. /\ task.fn \in {"ln", "exp", "floor"} /\ task.arg \in Doubles
        /\ Holds(a, 0, Library(task.fn, task.arg))
    BY <1>1, <1>6, Foreign DEF FunctionTask
  <2>2. CASE task.fn = "ln"
    <3>1. value = Ln(task.arg)
      BY <1>3, <2>1, <2>2, DoubleAssumption DEF Library
    <3> QED BY <2>2, <3>1 DEF Right
  <2>3. CASE task.fn = "exp"
    <3>1. value = Exp(task.arg)
      BY <1>3, <2>1, <2>3, DoubleAssumption DEF Library
    <3> QED BY <2>3, <3>1 DEF Right
  <2>4. CASE task.fn = "floor"
    <3>1. value = Floor(task.arg)
      BY <1>3, <2>1, <2>4, DoubleAssumption DEF Library
    <3> QED BY <2>4, <3>1 DEF Right
  <2> QED BY <2>1, <2>2, <2>3, <2>4
<1>7. Right(r)
  BY <1>2, <1>4, <1>5, <1>6
<1> HIDE DEF r
<1>8. got' = r /\ task' = Idle /\ a' = a /\ call' = call /\ end' = end /\ main' = main
  BY <1>1, ResultFacts DEF r
<1> QED BY <1>1, <1>7, <1>8, DoubleFacts DEF DoubleInv, Kept

LEMMA DoubleUses ==
  ASSUME use = "doubles", Client
  PROVE  DoublesNext \/ FFI
<1> USE DEF CanStart, Returned, Running
<1>1. CASE FilesNext
  BY <1>1 DEF FilesNext, openIn, openOut, close, read, output, Operation, Opened, Written, Done
<1>2. CASE CommandLineNext
  BY <1>2 DEF CommandLineNext, cline, Counted, AskArg, TakeArg
<1>3. CASE \E c \in Codes : exit(c)
  BY <1>3 DEF exit
<1> QED BY <1>1, <1>2, <1>3 DEF Client

LEMMA NextDoubleInv == Fresh /\ DoubleInv /\ [Next]_vars => DoubleInv'
<1> SUFFICES ASSUME Fresh, DoubleInv, [Next]_vars PROVE DoubleInv'
  OBVIOUS
<1>1. CASE UNCHANGED <<use, main, a, call, task, got, end>>
  BY <1>1 DEF DoubleInv, DoubleTask, StringTask, TextTask, FromIntTask, ToIntTask, PowTask, FunctionTask
<1>2. CASE Start /\ UNCHANGED call_vars
  BY <1>1, <1>2 DEF call_vars, Start, ReadSizes, CheckSizes, Allocate, init_code, StartAg32, Goto
<1>3. CASE Use
  <2>1. CASE UseDoubles
    <3>1. BytesLength \in Nat
      BY CallAssumption
    <3>2. Kept(Zeros(BytesLength))
      BY <3>1, ZerosFacts DEF Kept
    <3>3. /\ use = "none" /\ main \in {"basis", "pancake"} /\ a' = Zeros(BytesLength) /\ got' = <<>>
          /\ task' = task /\ call' = call /\ end' = end /\ main' = main
      BY <2>1 DEF UseDoubles, Begin, start_vars
    <3> QED BY <3>2, <3>3 DEF DoubleInv, Fresh
  <2>2. CASE UseFiles \/ UseArguments \/ UseExit \/ UseDebug \/ UseHost
    BY <2>2 DEF UseFiles, UseArguments, UseExit, UseDebug, UseHost, Begin, DoubleInv
  <2> QED BY <1>3, <2>1, <2>2 DEF Use
<1>4. CASE Client
  <2>1. CASE use = "doubles"
    <3>1. CASE FFI
      BY <2>1, <3>1, DoubleFFIStep
    <3>2. CASE DoublesNext
      BY <2>1, <3>2, AskTextStep, AskNumberStep, AskPowStep, ReadStringStep, ReadTextStep,
         ReadIntStep, ReadDoubleStep DEF DoublesNext
    <3> QED BY <1>4, <2>1, <3>1, <3>2, DoubleUses
  <2>2. CASE use # "doubles"
    BY <1>4, <2>2, ClientUse DEF DoubleInv
  <2> QED BY <2>1, <2>2
<1>5. CASE HostNext
  BY <1>5 DEF HostNext, cml_main, cake_enter, cake_err3, cake_return, CallC, ReturnC, HostOnly, Top, DoubleInv
<1>6. CASE \E clen \in {0, 1} : EmptyFFI(clen)
  BY <1>1, <1>6 DEF EmptyFFI, call_vars, start_vars
<1> QED BY <1>1, <1>2, <1>3, <1>4, <1>5, <1>6 DEF Next, vars, call_vars, start_vars

\* The functions of the Double module give what the C library makes of their
\* arguments, on both runtimes, whatever the shared array held before.
THEOREM DoublesCross == Spec => []DoublesExact
<1>1. Init => OneUse /\ Fresh /\ DoubleInv
  BY InitOneUse DEF Init, CallInit, DoubleInv, Fresh, NoCall
<1>2. DoubleInv => DoublesExact
  BY DEF DoubleInv, DoublesExact
<1> QED BY <1>1, <1>2, NextOneUse, NextFresh, NextDoubleInv, PTL DEF Spec

------------------------------------------------------------------------------
(***************************************************************************)
(* Files.                                                                  *)
(***************************************************************************)
Entries == [ino : Posix!Inodes, mode : {"ReadMode", "WriteMode"}, off : Nat]
Tables == UNION {[D -> Entries] : D \in SUBSET Posix!FD}
Systems == [files : SUBSET Names, inode_tbl : [Posix!Inodes -> Seq(Cells)], infds : Tables]

\* The answers about files are the same on each runtime but for the code of a
\* file that cannot be opened.
OpenAnswer(r, code) ==
  Back(r.os, IF 0 <= r.ret THEN Put(Put(a, 0, <<0>>), 1, n2w8(r.ret)) ELSE Put(a, 0, <<code>>))
ReadAnswer(r) ==
  Back(r.os, IF r.ret < 0 THEN Put(a, 0, <<1>>)
             ELSE Put(Put(a, 4, r.data), 0, <<0>> \o n2w2(r.ret)))
WriteAnswer(r) == Back(r.os, Put(a, 0, IF r.ret < 0 THEN <<1>> ELSE <<0>> \o n2w2(r.ret)))
CloseAnswer(r) == Back(r.os, Put(a, 0, IF r.ret = 0 THEN <<0>> ELSE <<1>>))
Target == AsInt(LongLong(call.c))

OpenInAnswers == Outcomes = {OpenAnswer(r, 1) : r \in F!open_rdonly(os, call.c)}
OpenOutAnswers ==
  \E code \in Cells \ {0} : Outcomes = {OpenAnswer(r, code) : r \in F!open_creat_trunc(os, call.c)}
ReadAnswers == Outcomes = {ReadAnswer(r) : r \in F!posix_read(os, Target, w22n(a))}
WriteAnswers ==
  LET off == w22n(At(a, 2, 2))
  IN  Outcomes = {WriteAnswer(r) : r \in F!posix_write(os, Target, At(a, 4 + off, w22n(a)))}
CloseAnswers == Outcomes = {CloseAnswer(r) : r \in F!posix_close(os, Target)}
Answers ==
  /\ call.name = "open_in" /\ 9 <= Len(a) => OpenInAnswers
  /\ call.name = "open_out" /\ 9 <= Len(a) => OpenOutAnswers
  /\ call.name = "read" /\ Len(call.c) = 8 /\ w22n(a) + 4 <= Len(a) => ReadAnswers
  /\ call.name = "write" /\ Len(call.c) = 8 /\ w22n(a) + w22n(At(a, 2, 2)) + 4 <= Len(a) => WriteAnswers
  /\ call.name = "close" /\ Len(call.c) = 8 /\ 1 <= Len(a) => CloseAnswers

LEMMA BasisFiles ==
  ASSUME NEW s, NEW x, NEW y
  PROVE  /\ Basis!P!open_rdonly(s, x) = F!open_rdonly(s, x)
         /\ Basis!P!open_creat_trunc(s, x) = F!open_creat_trunc(s, x)
         /\ Basis!P!posix_read(s, x, y) = F!posix_read(s, x, y)
         /\ Basis!P!posix_write(s, x, y) = F!posix_write(s, x, y)
         /\ Basis!P!posix_close(s, x) = F!posix_close(s, x)
<1> USE DEF Basis!P!Free, F!Free, Basis!P!FD, F!FD, Basis!P!Error, F!Error, Basis!P!Opened, F!Opened,
     Basis!P!Returns, F!Returns, Basis!P!Min, F!Min, Basis!P!Readable, F!Readable, Basis!P!Writable, F!Writable,
     Basis!P!WriteAt, F!WriteAt
<1>1. Basis!P!open_rdonly(s, x) = F!open_rdonly(s, x)
  BY DEF Basis!P!open_rdonly, F!open_rdonly
<1>2. Basis!P!open_creat_trunc(s, x) = F!open_creat_trunc(s, x)
  BY DEF Basis!P!open_creat_trunc, F!open_creat_trunc
<1>3. Basis!P!posix_read(s, x, y) = F!posix_read(s, x, y)
  BY DEF Basis!P!posix_read, F!posix_read
<1>4. Basis!P!posix_write(s, x, y) = F!posix_write(s, x, y)
  BY DEF Basis!P!posix_write, F!posix_write
<1>5. Basis!P!posix_close(s, x) = F!posix_close(s, x)
  BY DEF Basis!P!posix_close, F!posix_close
<1> QED BY <1>1, <1>2, <1>3, <1>4, <1>5

LEMMA BasisBytes ==
  ASSUME NEW b, NEW n, NEW k
  PROVE  /\ Basis!At(b, n, k) = At(b, n, k) /\ Basis!byte2_to_int(b) = w22n(b)
         /\ Basis!byte8_to_int(b) = AsInt(LongLong(b))
BY DEF Basis!At, At, Basis!Power, Power, Basis!byte2_to_int, w22n, Basis!byte8_to_int, Basis!AsInt, AsInt, Basis!LongLong, LongLong,
   Basis!IntRange, IntRange

LEMMA BasisAnswers ==
  ASSUME main = "basis"
  PROVE  Answers
<1> USE DEF Outcomes, Basis!Call
<1> DEFINE n == w22n(a)
           off == w22n(At(a, 2, 2))
<1>1. ASSUME call.name = "open_in", 9 <= Len(a) PROVE OpenInAnswers
  <2>1. Outcomes = Basis!ffiopen_in(os, call.c, a)
    BY <1>1
  <2>2. \A r : Basis!OpenReply(r, a) = OpenAnswer(r, 1)
    BY DEF OpenAnswer, Basis!OpenReply, Basis!Put, Put, Basis!int_to_byte8, n2w8, Basis!int_to_byte2, n2w2, Basis!ByteOf, ByteOf,
       Basis!Power, Power, Basis!Back, Back
  <2> QED BY <1>1, <2>1, <2>2, BasisFiles, BasisBytes DEF Basis!ffiopen_in, Basis!Assert, OpenInAnswers
<1>2. ASSUME call.name = "open_out", 9 <= Len(a) PROVE OpenOutAnswers
  <2>1. Outcomes = Basis!ffiopen_out(os, call.c, a)
    BY <1>2
  <2>2. \A r : Basis!OpenReply(r, a) = OpenAnswer(r, 1)
    BY DEF OpenAnswer, Basis!OpenReply, Basis!Put, Put, Basis!int_to_byte8, n2w8, Basis!int_to_byte2, n2w2, Basis!ByteOf, ByteOf,
       Basis!Power, Power, Basis!Back, Back
  <2>3. 1 \in Cells \ {0}
    BY BaseFacts DEF Cells
  <2> QED BY <1>2, <2>1, <2>2, <2>3, BasisFiles, BasisBytes DEF Basis!ffiopen_out, Basis!Assert, OpenOutAnswers
<1>3. ASSUME call.name = "read", Len(call.c) = 8, n + 4 <= Len(a) PROVE ReadAnswers
  <2>1. Outcomes = Basis!ffiread(os, call.c, a)
    BY <1>3
  <2>2. \A r : Basis!Back(r.os, IF r.ret < 0 THEN Basis!Put(a, 0, <<1>>)
                    ELSE Basis!Put(Basis!Put(a, 4, r.data), 0, <<0>> \o Basis!int_to_byte2(r.ret))) = ReadAnswer(r)
    BY DEF ReadAnswer, Basis!Put, Put, Basis!int_to_byte8, n2w8, Basis!int_to_byte2, n2w2, Basis!ByteOf, ByteOf,
       Basis!Power, Power, Basis!Back, Back
  <2>3. Basis!P!posix_read(os, Basis!byte8_to_int(call.c), Basis!byte2_to_int(a)) = F!posix_read(os, Target, n)
    BY BasisFiles, BasisBytes DEF Target
  <2>4. Basis!byte2_to_int(a) = n
    BY BasisBytes
  <2> QED BY <1>3, <2>1, <2>2, <2>3, <2>4 DEF Basis!ffiread, Basis!Assert, ReadAnswers
<1>4. ASSUME call.name = "write", Len(call.c) = 8, n + off + 4 <= Len(a) PROVE WriteAnswers
  <2>1. Outcomes = Basis!ffiwrite(os, call.c, a)
    BY <1>4
  <2>2. \A r : Basis!WriteReply(r, a) = WriteAnswer(r)
    BY DEF WriteAnswer, Basis!WriteReply, Basis!Put, Put, Basis!int_to_byte8, n2w8, Basis!int_to_byte2, n2w2, Basis!ByteOf, ByteOf,
       Basis!Power, Power, Basis!Back, Back
  <2>3. Basis!byte2_to_int(a) = n /\ Basis!byte2_to_int(Basis!At(a, 2, 2)) = off
    BY BasisBytes
  <2>4. Basis!P!posix_write(os, Basis!byte8_to_int(call.c), Basis!At(a, 4 + off, n)) = F!posix_write(os, Target, At(a, 4 + off, n))
    BY BasisFiles, BasisBytes DEF Target
  <2> QED BY <1>4, <2>1, <2>2, <2>3, <2>4 DEF Basis!ffiwrite, Basis!Assert, WriteAnswers
<1>5. ASSUME call.name = "close", Len(call.c) = 8, 1 <= Len(a) PROVE CloseAnswers
  <2>1. Outcomes = Basis!fficlose(os, call.c, a)
    BY <1>5
  <2>2. \A r : Basis!Back(r.os, Basis!Put(a, 0, IF r.ret = 0 THEN <<0>> ELSE <<1>>)) = CloseAnswer(r)
    BY DEF CloseAnswer, Basis!Put, Put, Basis!int_to_byte8, n2w8, Basis!int_to_byte2, n2w2, Basis!ByteOf, ByteOf,
       Basis!Power, Power, Basis!Back, Back
  <2> QED BY <1>5, <2>1, <2>2, BasisFiles, BasisBytes DEF Basis!fficlose, Basis!Assert, CloseAnswers, Target
<1> QED BY <1>1, <1>2, <1>3, <1>4, <1>5 DEF Answers

LEMMA Ag32Files ==
  ASSUME NEW s, NEW x, NEW y
  PROVE  /\ Ag32!P!open_rdonly(s, x) = F!open_rdonly(s, x)
         /\ Ag32!P!open_creat_trunc(s, x) = F!open_creat_trunc(s, x)
         /\ Ag32!P!posix_read(s, x, y) = F!posix_read(s, x, y)
         /\ Ag32!P!posix_write(s, x, y) = F!posix_write(s, x, y)
         /\ Ag32!P!posix_close(s, x) = F!posix_close(s, x)
<1> USE DEF Ag32!P!Free, F!Free, Ag32!P!FD, F!FD, Ag32!P!Error, F!Error, Ag32!P!Opened, F!Opened,
     Ag32!P!Returns, F!Returns, Ag32!P!Min, F!Min, Ag32!P!Readable, F!Readable, Ag32!P!Writable, F!Writable,
     Ag32!P!WriteAt, F!WriteAt
<1>1. Ag32!P!open_rdonly(s, x) = F!open_rdonly(s, x)
  BY DEF Ag32!P!open_rdonly, F!open_rdonly
<1>2. Ag32!P!open_creat_trunc(s, x) = F!open_creat_trunc(s, x)
  BY DEF Ag32!P!open_creat_trunc, F!open_creat_trunc
<1>3. Ag32!P!posix_read(s, x, y) = F!posix_read(s, x, y)
  BY DEF Ag32!P!posix_read, F!posix_read
<1>4. Ag32!P!posix_write(s, x, y) = F!posix_write(s, x, y)
  BY DEF Ag32!P!posix_write, F!posix_write
<1>5. Ag32!P!posix_close(s, x) = F!posix_close(s, x)
  BY DEF Ag32!P!posix_close, F!posix_close
<1> QED BY <1>1, <1>2, <1>3, <1>4, <1>5

LEMMA Ag32Bytes ==
  ASSUME NEW b, NEW n, NEW k
  PROVE  /\ Ag32!At(b, n, k) = At(b, n, k) /\ Ag32!byte2_to_int(b) = w22n(b)
         /\ Ag32!byte8_to_int(b) = AsInt(LongLong(b))
BY DEF Ag32!At, At, Ag32!Power, Power, Ag32!byte2_to_int, w22n, Ag32!byte8_to_int, Ag32!AsInt, AsInt, Ag32!LongLong, LongLong,
   Ag32!IntRange, IntRange

LEMMA Ag32Answers ==
  ASSUME main = "ag32"
  PROVE  Answers
<1> USE DEF Outcomes, Ag32!Call
<1> DEFINE n == w22n(a)
           off == w22n(At(a, 2, 2))
<1>1. ASSUME call.name = "open_in", 9 <= Len(a) PROVE OpenInAnswers
  <2>1. Outcomes = Ag32!ffiopen_in(os, call.c, a)
    BY <1>1
  <2>2. \A r : Ag32!Back(r.os, IF 0 <= r.ret THEN Ag32!Put(Ag32!Put(a, 0, <<0>>), 1, Ag32!int_to_byte8(r.ret))
                           ELSE Ag32!Put(a, 0, <<1>>)) = OpenAnswer(r, 1)
    BY DEF OpenAnswer, Ag32!Put, Put, Ag32!int_to_byte8, n2w8, Ag32!int_to_byte2, n2w2, Ag32!ByteOf, ByteOf,
       Ag32!Power, Power, Ag32!Back, Back
  <2> QED BY <1>1, <2>1, <2>2, Ag32Files, Ag32Bytes DEF Ag32!ffiopen_in, OpenInAnswers
<1>2. ASSUME call.name = "open_out", 9 <= Len(a) PROVE OpenOutAnswers
  <2> DEFINE reply(r) ==
        Ag32!Back(r.os, IF 0 <= r.ret THEN Ag32!Put(Ag32!Put(a, 0, <<0>>), 1, Ag32!int_to_byte8(r.ret))
                        ELSE Ag32!Put(a, 0, <<Base - 1>>))
  <2>1. Outcomes = {reply(r) : r \in F!open_creat_trunc(os, call.c)}
    BY <1>2, Ag32Files DEF Ag32!ffiopen_out
  <2>2. \A r : reply(r) = OpenAnswer(r, Base - 1)
    BY DEF OpenAnswer, Ag32!Put, Put, Ag32!int_to_byte8, n2w8, Ag32!ByteOf, ByteOf,
       Ag32!Power, Power, Ag32!Back, Back
  <2>3. Base - 1 \in Cells \ {0}
    BY BaseFacts DEF Cells
  <2> HIDE DEF reply
  <2>4. Outcomes = {OpenAnswer(r, Base - 1) : r \in F!open_creat_trunc(os, call.c)}
    BY <2>1, <2>2
  <2> QED BY <2>3, <2>4 DEF OpenOutAnswers
<1>3. ASSUME call.name = "read", Len(call.c) = 8, n + 4 <= Len(a) PROVE ReadAnswers
  <2>1. Outcomes = Ag32!ffiread(os, call.c, a)
    BY <1>3
  <2>2. \A r : Ag32!Back(r.os, IF r.ret < 0 THEN Ag32!Put(a, 0, <<1>>)
                    ELSE Ag32!Put(Ag32!Put(a, 4, r.data), 0, <<0>> \o Ag32!int_to_byte2(r.ret))) = ReadAnswer(r)
    BY DEF ReadAnswer, Ag32!Put, Put, Ag32!int_to_byte8, n2w8, Ag32!int_to_byte2, n2w2, Ag32!ByteOf, ByteOf,
       Ag32!Power, Power, Ag32!Back, Back
  <2>3. Ag32!P!posix_read(os, Ag32!byte8_to_int(call.c), Ag32!byte2_to_int(a)) = F!posix_read(os, Target, n)
    BY Ag32Files, Ag32Bytes DEF Target
  <2>4. Ag32!byte2_to_int(a) = n
    BY Ag32Bytes
  <2> QED BY <1>3, <2>1, <2>2, <2>3, <2>4 DEF Ag32!ffiread, ReadAnswers
<1>4. ASSUME call.name = "write", Len(call.c) = 8, n + off + 4 <= Len(a) PROVE WriteAnswers
  <2>1. Outcomes = Ag32!ffiwrite(os, call.c, a)
    BY <1>4
  <2>2. \A r : Ag32!Back(r.os, Ag32!Put(a, 0, IF r.ret < 0 THEN <<1>> ELSE <<0>> \o Ag32!int_to_byte2(r.ret))) = WriteAnswer(r)
    BY DEF WriteAnswer, Ag32!Put, Put, Ag32!int_to_byte8, n2w8, Ag32!int_to_byte2, n2w2, Ag32!ByteOf, ByteOf,
       Ag32!Power, Power, Ag32!Back, Back
  <2>3. Ag32!byte2_to_int(a) = n /\ Ag32!byte2_to_int(Ag32!At(a, 2, 2)) = off
    BY Ag32Bytes
  <2>4. Ag32!P!posix_write(os, Ag32!byte8_to_int(call.c), Ag32!At(a, 4 + off, n)) = F!posix_write(os, Target, At(a, 4 + off, n))
    BY Ag32Files, Ag32Bytes DEF Target
  <2> QED BY <1>4, <2>1, <2>2, <2>3, <2>4 DEF Ag32!ffiwrite, WriteAnswers
<1>5. ASSUME call.name = "close", Len(call.c) = 8, 1 <= Len(a) PROVE CloseAnswers
  <2>1. Outcomes = Ag32!fficlose(os, call.c, a)
    BY <1>5
  <2>2. \A r : Ag32!Back(r.os, Ag32!Put(a, 0, IF r.ret = 0 THEN <<0>> ELSE <<1>>)) = CloseAnswer(r)
    BY DEF CloseAnswer, Ag32!Put, Put, Ag32!int_to_byte8, n2w8, Ag32!int_to_byte2, n2w2, Ag32!ByteOf, ByteOf,
       Ag32!Power, Power, Ag32!Back, Back
  <2> QED BY <1>5, <2>1, <2>2, Ag32Files, Ag32Bytes DEF Ag32!fficlose, CloseAnswers, Target
<1> QED BY <1>1, <1>2, <1>3, <1>4, <1>5 DEF Answers

LEMMA PancakeFiles ==
  ASSUME NEW s, NEW x, NEW y
  PROVE  /\ Pancake!P!open_rdonly(s, x) = F!open_rdonly(s, x)
         /\ Pancake!P!open_creat_trunc(s, x) = F!open_creat_trunc(s, x)
         /\ Pancake!P!posix_read(s, x, y) = F!posix_read(s, x, y)
         /\ Pancake!P!posix_write(s, x, y) = F!posix_write(s, x, y)
         /\ Pancake!P!posix_close(s, x) = F!posix_close(s, x)
<1> USE DEF Pancake!P!Free, F!Free, Pancake!P!FD, F!FD, Pancake!P!Error, F!Error, Pancake!P!Opened, F!Opened,
     Pancake!P!Returns, F!Returns, Pancake!P!Min, F!Min, Pancake!P!Readable, F!Readable, Pancake!P!Writable, F!Writable,
     Pancake!P!WriteAt, F!WriteAt
<1>1. Pancake!P!open_rdonly(s, x) = F!open_rdonly(s, x)
  BY DEF Pancake!P!open_rdonly, F!open_rdonly
<1>2. Pancake!P!open_creat_trunc(s, x) = F!open_creat_trunc(s, x)
  BY DEF Pancake!P!open_creat_trunc, F!open_creat_trunc
<1>3. Pancake!P!posix_read(s, x, y) = F!posix_read(s, x, y)
  BY DEF Pancake!P!posix_read, F!posix_read
<1>4. Pancake!P!posix_write(s, x, y) = F!posix_write(s, x, y)
  BY DEF Pancake!P!posix_write, F!posix_write
<1>5. Pancake!P!posix_close(s, x) = F!posix_close(s, x)
  BY DEF Pancake!P!posix_close, F!posix_close
<1> QED BY <1>1, <1>2, <1>3, <1>4, <1>5

LEMMA PancakeBytes ==
  ASSUME NEW b, NEW n, NEW k
  PROVE  /\ Pancake!At(b, n, k) = At(b, n, k) /\ Pancake!byte2_to_int(b) = w22n(b)
         /\ Pancake!byte8_to_int(b) = AsInt(LongLong(b))
BY DEF Pancake!At, At, Pancake!Power, Power, Pancake!byte2_to_int, w22n, Pancake!byte8_to_int, Pancake!AsInt, AsInt, Pancake!LongLong, LongLong,
   Pancake!IntRange, IntRange

LEMMA PancakeAnswers ==
  ASSUME main = "pancake"
  PROVE  Answers
<1> USE DEF Outcomes, Pancake!Call
<1> DEFINE n == w22n(a)
           off == w22n(At(a, 2, 2))
<1>1. ASSUME call.name = "open_in", 9 <= Len(a) PROVE OpenInAnswers
  <2>1. Outcomes = Pancake!ffiopen_in(os, call.c, a)
    BY <1>1
  <2>2. \A r : Pancake!OpenReply(r, a) = OpenAnswer(r, 1)
    BY DEF OpenAnswer, Pancake!OpenReply, Pancake!Put, Put, Pancake!int_to_byte8, n2w8, Pancake!int_to_byte2, n2w2, Pancake!ByteOf, ByteOf,
       Pancake!Power, Power, Pancake!Back, Back
  <2> QED BY <1>1, <2>1, <2>2, PancakeFiles, PancakeBytes DEF Pancake!ffiopen_in, Pancake!Assert, OpenInAnswers
<1>2. ASSUME call.name = "open_out", 9 <= Len(a) PROVE OpenOutAnswers
  <2>1. Outcomes = Pancake!ffiopen_out(os, call.c, a)
    BY <1>2
  <2>2. \A r : Pancake!OpenReply(r, a) = OpenAnswer(r, 1)
    BY DEF OpenAnswer, Pancake!OpenReply, Pancake!Put, Put, Pancake!int_to_byte8, n2w8, Pancake!int_to_byte2, n2w2, Pancake!ByteOf, ByteOf,
       Pancake!Power, Power, Pancake!Back, Back
  <2>3. 1 \in Cells \ {0}
    BY BaseFacts DEF Cells
  <2> QED BY <1>2, <2>1, <2>2, <2>3, PancakeFiles, PancakeBytes DEF Pancake!ffiopen_out, Pancake!Assert, OpenOutAnswers
<1>3. ASSUME call.name = "read", Len(call.c) = 8, n + 4 <= Len(a) PROVE ReadAnswers
  <2>1. Outcomes = Pancake!ffiread(os, call.c, a)
    BY <1>3
  <2>2. \A r : Pancake!Back(r.os, IF r.ret < 0 THEN Pancake!Put(a, 0, <<1>>)
                    ELSE Pancake!Put(Pancake!Put(a, 4, r.data), 0, <<0>> \o Pancake!int_to_byte2(r.ret))) = ReadAnswer(r)
    BY DEF ReadAnswer, Pancake!Put, Put, Pancake!int_to_byte8, n2w8, Pancake!int_to_byte2, n2w2, Pancake!ByteOf, ByteOf,
       Pancake!Power, Power, Pancake!Back, Back
  <2>3. Pancake!P!posix_read(os, Pancake!byte8_to_int(call.c), Pancake!byte2_to_int(a)) = F!posix_read(os, Target, n)
    BY PancakeFiles, PancakeBytes DEF Target
  <2>4. Pancake!byte2_to_int(a) = n
    BY PancakeBytes
  <2> QED BY <1>3, <2>1, <2>2, <2>3, <2>4 DEF Pancake!ffiread, Pancake!Assert, ReadAnswers
<1>4. ASSUME call.name = "write", Len(call.c) = 8, n + off + 4 <= Len(a) PROVE WriteAnswers
  <2>1. Outcomes = Pancake!ffiwrite(os, call.c, a)
    BY <1>4
  <2>2. \A r : Pancake!WriteReply(r, a) = WriteAnswer(r)
    BY DEF WriteAnswer, Pancake!WriteReply, Pancake!Put, Put, Pancake!int_to_byte8, n2w8, Pancake!int_to_byte2, n2w2, Pancake!ByteOf, ByteOf,
       Pancake!Power, Power, Pancake!Back, Back
  <2>3. Pancake!byte2_to_int(a) = n /\ Pancake!byte2_to_int(Pancake!At(a, 2, 2)) = off
    BY PancakeBytes
  <2>4. Pancake!P!posix_write(os, Pancake!byte8_to_int(call.c), Pancake!At(a, 4 + off, n)) = F!posix_write(os, Target, At(a, 4 + off, n))
    BY PancakeFiles, PancakeBytes DEF Target
  <2> QED BY <1>4, <2>1, <2>2, <2>3, <2>4 DEF Pancake!ffiwrite, Pancake!Assert, WriteAnswers
<1>5. ASSUME call.name = "close", Len(call.c) = 8, 1 <= Len(a) PROVE CloseAnswers
  <2>1. Outcomes = Pancake!fficlose(os, call.c, a)
    BY <1>5
  <2>2. \A r : Pancake!Back(r.os, Pancake!Put(a, 0, IF r.ret = 0 THEN <<0>> ELSE <<1>>)) = CloseAnswer(r)
    BY DEF CloseAnswer, Pancake!Put, Put, Pancake!int_to_byte8, n2w8, Pancake!int_to_byte2, n2w2, Pancake!ByteOf, ByteOf,
       Pancake!Power, Power, Pancake!Back, Back
  <2> QED BY <1>5, <2>1, <2>2, PancakeFiles, PancakeBytes DEF Pancake!fficlose, Pancake!Assert, CloseAnswers, Target
<1> QED BY <1>1, <1>2, <1>3, <1>4, <1>5 DEF Answers

LEMMA AnswersHold ==
  ASSUME main \in CRuntimes
  PROVE  Answers
BY BasisAnswers, Ag32Answers, PancakeAnswers DEF CRuntimes

------------------------------------------------------------------------------
\* What the system does to descriptors and files.
LEMMA SystemFacts ==
  ASSUME NEW s \in Systems
  PROVE  /\ s.files \in SUBSET Names /\ s.inode_tbl \in [Posix!Inodes -> Seq(Cells)]
         /\ DOMAIN s.infds \subseteq Posix!FD /\ s.infds \in [DOMAIN s.infds -> Entries]
BY DEF Systems, Tables

\* A record with one of its fields changed.
LEMMA Systems1 ==
  ASSUME NEW s \in Systems, NEW d \in Tables
  PROVE  [s EXCEPT !.infds = d] \in Systems
BY DEF Systems

LEMMA Systems2 ==
  ASSUME NEW s \in Systems, NEW ino \in Posix!Inodes, NEW v \in Seq(Cells)
  PROVE  [s EXCEPT !.inode_tbl[ino] = v] \in Systems
BY DEF Systems

\* The least member of a set of numbers.
LessOnNat == {p \in Nat \X Nat : p[1] < p[2]}
LEMMA Least ==
  ASSUME NEW S \in SUBSET Nat, S # {}
  PROVE  \E x \in S : \A y \in S : x <= y
<1>1. OpToRel(<, Nat) = LessOnNat
  BY DEF OpToRel, LessOnNat
<1>2. IsWellFoundedOn(LessOnNat, Nat)
  BY <1>1, NatLessThanWellFounded
<1>3. PICK x \in S : \A y \in S : ~ (<<y, x>> \in LessOnNat)
  BY <1>2, WFMin
<1>4. ASSUME NEW y \in S PROVE x <= y
  <2>1. <<y, x>> \notin LessOnNat /\ x \in Nat /\ y \in Nat
    BY <1>3
  <2>2. ~(y < x)
    BY <2>1 DEF LessOnNat
  <2> QED BY <2>1, <2>2
<1> QED BY <1>4

LEMMA LowestFree ==
  ASSUME NEW s, F!Free(s) # {}
  PROVE  F!Min(F!Free(s)) \in Posix!FD
<1> DEFINE S == F!Free(s)
<1>1. S \in SUBSET Nat /\ S \subseteq Posix!FD
  BY FilesAssumption DEF F!Free, F!FD, Posix!FD
<1> HIDE DEF S
<1>2. \E x \in S : \A y \in S : x <= y
  BY <1>1, Least DEF S
<1>3. F!Min(S) \in S
  BY <1>2 DEF F!Min
<1> QED BY <1>1, <1>3 DEF S

LEMMA OpenedFacts ==
  ASSUME NEW s \in Systems, F!Free(s) # {}, NEW name \in Names, NEW mode \in {"ReadMode", "WriteMode"},
         NEW r \in F!Opened(s, name, mode)
  PROVE  r.os \in Systems /\ r.ret \in Posix!FD
<1> DEFINE fd == F!Min(F!Free(s))
           new == [ino |-> name, mode |-> mode, off |-> 0]
           d == [g \in DOMAIN s.infds \cup {fd} |-> IF g = fd THEN new ELSE s.infds[g]]
<1>1. fd \in Posix!FD
  BY LowestFree
<1>2. new \in Entries
  BY DEF Entries, Posix!Inodes
<1>3. DOMAIN s.infds \subseteq Posix!FD /\ \A g \in DOMAIN s.infds : s.infds[g] \in Entries
  BY SystemFacts
<1>4. r = [os |-> [s EXCEPT !.infds = d], ret |-> fd, data |-> <<>>]
  BY DEF F!Opened, F!Returns
<1> HIDE DEF fd, new
<1>5. d \in [DOMAIN s.infds \cup {fd} -> Entries] /\ DOMAIN s.infds \cup {fd} \in SUBSET Posix!FD
  BY <1>1, <1>2, <1>3
<1> HIDE DEF d
<1>6. d \in Tables
  BY <1>5 DEF Tables
<1>7. r.os = [s EXCEPT !.infds = d] /\ r.ret = fd
  BY <1>4
<1> QED BY <1>1, <1>6, <1>7, Systems1

LEMMA OpenFacts ==
  ASSUME NEW s \in Systems, NEW name \in Names,
         NEW r \in F!open_rdonly(s, name) \cup F!open_creat_trunc(s, name)
  PROVE  r.os \in Systems /\ (r.ret = -1 \/ r.ret \in Posix!FD)
<1>1. CASE r \in F!Error(s)
  BY <1>1 DEF F!Error, F!Returns
<1>2. CASE r \notin F!Error(s) /\ r \in F!open_rdonly(s, name)
  <2>1. F!Free(s) # {} /\ r \in F!Opened(s, name, "ReadMode")
    BY <1>2 DEF F!open_rdonly
  <2> QED BY <2>1, OpenedFacts
<1>3. CASE r \notin F!Error(s) /\ r \in F!open_creat_trunc(s, name)
  <2> DEFINE t == [s EXCEPT !.files = @ \cup {name}, !.inode_tbl[name] = <<>>]
  <2>1. F!Free(s) # {} /\ r \in F!Opened(t, name, "WriteMode")
    BY <1>3 DEF F!open_creat_trunc
  <2>2. t \in Systems
    <3>1. s.files \cup {name} \in SUBSET Names
      BY SystemFacts
    <3>2. name \in Posix!Inodes /\ <<>> \in Seq(Cells)
      BY DEF Posix!Inodes
    <3>3. [s.inode_tbl EXCEPT ![name] = <<>>] \in [Posix!Inodes -> Seq(Cells)]
      BY <3>2, SystemFacts
    <3> QED BY <3>1, <3>3 DEF Systems
  <2>3. F!Free(t) = F!Free(s)
    BY DEF F!Free, Systems
  <2> HIDE DEF t
  <2> QED BY <2>1, <2>2, <2>3, OpenedFacts
<1> QED BY <1>1, <1>2, <1>3

\* A descriptor moved to another position.
Moved(s, fd, off) == [s EXCEPT !.infds[fd].off = off]
LEMMA MovedFacts ==
  ASSUME NEW s \in Systems, NEW fd \in DOMAIN s.infds, NEW off \in Nat
  PROVE  Moved(s, fd, off) \in Systems
<1> DEFINE e == [s.infds[fd] EXCEPT !.off = off]
           d == [s.infds EXCEPT ![fd] = e]
<1>1. DOMAIN s.infds \in SUBSET Posix!FD /\ s.infds \in [DOMAIN s.infds -> Entries]
  BY SystemFacts
<1>2. e \in Entries
  BY <1>1 DEF Entries
<1> HIDE DEF e
<1>3. d \in Tables
  BY <1>1, <1>2 DEF Tables
<1>4. Moved(s, fd, off) = [s EXCEPT !.infds = d]
  BY DEF Moved, e
<1> HIDE DEF d
<1> QED BY <1>3, <1>4, Systems1

LEMMA ReadFileFacts ==
  ASSUME NEW s \in Systems, NEW fd, NEW n \in Nat, NEW r \in F!posix_read(s, fd, n)
  PROVE  /\ r.os \in Systems
         /\ r.ret = -1 \/ (r.ret \in 0 .. n /\ r.data \in Seq(Cells) /\ Len(r.data) = r.ret)
<1>1. CASE ~F!Readable(s, fd)
  BY <1>1 DEF F!posix_read, F!Error, F!Returns
<1>2. CASE F!Readable(s, fd)
  <2> DEFINE d == s.infds[fd]
             file == s.inode_tbl[d.ino]
             rest == SubSeq(file, d.off + 1, Len(file))
             most == IF n < Len(rest) THEN n ELSE Len(rest)
  <2>1. fd \in DOMAIN s.infds
    BY <1>2 DEF F!Readable
  <2>2. d.ino \in Posix!Inodes /\ d.off \in Nat
    BY <2>1, SystemFacts DEF Entries
  <2>3. file \in Seq(Cells)
    BY <2>2, SystemFacts
  <2> DEFINE Got(k) == F!Returns([s EXCEPT !.infds[fd].off = @ + k], k, SubSeq(rest, 1, k))
             ks == IF most = 0 THEN {0} ELSE 1 .. most
  <2>4. r \in {Got(k) : k \in ks}
    BY <1>2 DEF F!posix_read
  <2> HIDE DEF Got
  <2> HIDE DEF file
  <2>5. rest \in Seq(Cells) /\ Len(rest) \in Nat
    BY <2>2, <2>3
  <2> HIDE DEF rest
  <2>6. most \in 0 .. n /\ most <= Len(rest)
    BY <2>5
  <2> HIDE DEF most
  <2>7. PICK k \in 0 .. most : r = Got(k)
    <3>1. ks \subseteq 0 .. most
      BY <2>6
    <3> HIDE DEF ks
    <3> QED BY <2>4, <3>1
  <2>8. r.os = [s EXCEPT !.infds[fd].off = @ + k] /\ r.ret = k /\ r.data = SubSeq(rest, 1, k)
    BY <2>7 DEF Got, F!Returns
  <2>9. r.os = Moved(s, fd, d.off + k)
    BY <2>1, <2>8, SystemFacts DEF Moved
  <2>10. k \in 0 .. n /\ k <= Len(rest) /\ d.off + k \in Nat
    BY <2>2, <2>6
  <2>11. r.data \in Seq(Cells) /\ Len(r.data) = k
    BY <2>5, <2>8, <2>10
  <2> QED BY <2>1, <2>8, <2>9, <2>10, <2>11, MovedFacts
<1> QED BY <1>1, <1>2

LEMMA WriteAtFacts ==
  ASSUME NEW b \in Seq(Cells), NEW off \in Nat, NEW v \in Seq(Cells)
  PROVE  F!WriteAt(b, off, v) \in Seq(Cells)
<1> DEFINE hole == [j \in 1 .. off - Len(b) |-> 0]
           long == b \o hole
<1>1. 0 \in Cells
  BY BaseFacts DEF Cells
<1>2. CASE off <= Len(b)
  <2>1. hole = <<>>
    BY <1>2
  <2>2. long = b
    BY <2>1, ConcatEmptySeq
  <2> HIDE DEF long
  <2>3. SubSeq(long, 1, off) \in Seq(Cells)
    BY <1>2, <2>2
  <2>4. SubSeq(b, off + Len(v) + 1, Len(b)) \in Seq(Cells)
    OBVIOUS
  <2>5. F!WriteAt(b, off, v) = IF v = <<>> THEN b
                               ELSE SubSeq(long, 1, off) \o v \o SubSeq(b, off + Len(v) + 1, Len(b))
    BY DEF F!WriteAt, long
  <2> QED BY <2>3, <2>4, <2>5
<1>3. CASE off > Len(b)
  <2>1. hole \in Seq(Cells) /\ Len(hole) = off - Len(b)
    BY <1>1, <1>3
  <2> HIDE DEF hole
  <2>2. long \in Seq(Cells) /\ Len(long) = off
    <3>1. Len(b) \in Nat /\ Len(b) + (off - Len(b)) = off
      OBVIOUS
    <3>2. long \in Seq(Cells) /\ Len(long) = Len(b) + Len(hole)
      BY <2>1
    <3> HIDE DEF long
    <3> QED BY <2>1, <3>1, <3>2
  <2> HIDE DEF long
  <2>3. SubSeq(long, 1, off) \in Seq(Cells)
    BY <2>2
  <2>4. SubSeq(b, off + Len(v) + 1, Len(b)) \in Seq(Cells)
    OBVIOUS
  <2>5. F!WriteAt(b, off, v) = IF v = <<>> THEN b
                               ELSE SubSeq(long, 1, off) \o v \o SubSeq(b, off + Len(v) + 1, Len(b))
    BY DEF F!WriteAt, long, hole
  <2> QED BY <2>3, <2>4, <2>5
<1> QED BY <1>2, <1>3

LEMMA WriteFileFacts ==
  ASSUME NEW s \in Systems, NEW fd, NEW v \in Seq(Cells), NEW r \in F!posix_write(s, fd, v)
  PROVE  r.os \in Systems /\ (r.ret = -1 \/ r.ret \in 0 .. Len(v))
<1>1. CASE ~F!Writable(s, fd)
  BY <1>1 DEF F!posix_write, F!Error, F!Returns
<1>2. CASE F!Writable(s, fd)
  <2> DEFINE d == s.infds[fd]
             new(k) == F!WriteAt(s.inode_tbl[d.ino], d.off, SubSeq(v, 1, k))
             t(k) == [s EXCEPT !.inode_tbl[d.ino] = new(k)]
  <2>1. fd \in DOMAIN s.infds
    BY <1>2 DEF F!Writable
  <2>2. d.ino \in Posix!Inodes /\ d.off \in Nat
    BY <2>1, SystemFacts DEF Entries
  <2>3. PICK k \in 0 .. Len(v) :
          r = F!Returns([s EXCEPT !.inode_tbl[d.ino] = F!WriteAt(@, d.off, SubSeq(v, 1, k)),
                                  !.infds[fd].off = @ + k], k, <<>>)
    BY <1>2 DEF F!posix_write
  <2>4. r.os = [s EXCEPT !.inode_tbl[d.ino] = new(k), !.infds[fd].off = d.off + k] /\ r.ret = k
    BY <2>1, <2>2, <2>3, SystemFacts DEF F!Returns
  <2>5. SubSeq(v, 1, k) \in Seq(Cells)
    OBVIOUS
  <2>6. new(k) \in Seq(Cells)
    BY <2>2, <2>5, SystemFacts, WriteAtFacts
  <2> HIDE DEF new
  <2>7. t(k) \in Systems
    BY <2>2, <2>6, Systems2
  <2>8. t(k).infds = s.infds
    BY DEF Systems
  <2>9. r.os = Moved(t(k), fd, d.off + k)
    BY <2>4 DEF Moved
  <2> HIDE DEF t
  <2>10. d.off + k \in Nat
    BY <2>2
  <2> QED BY <2>1, <2>4, <2>7, <2>8, <2>9, <2>10, MovedFacts
<1> QED BY <1>1, <1>2

LEMMA CloseFileFacts ==
  ASSUME NEW s \in Systems, NEW fd, NEW r \in F!posix_close(s, fd)
  PROVE  r.os \in Systems /\ r.ret \in {-1, 0}
<1>1. CASE ~F!Readable(s, fd)
  BY <1>1 DEF F!posix_close, F!Error, F!Returns
<1>2. CASE F!Readable(s, fd)
  <2> DEFINE d == [g \in DOMAIN s.infds \ {fd} |-> s.infds[g]]
  <2>1. r = [os |-> [s EXCEPT !.infds = d], ret |-> 0, data |-> <<>>]
    BY <1>2 DEF F!posix_close, F!Returns
  <2>2. d \in [DOMAIN s.infds \ {fd} -> Entries] /\ DOMAIN s.infds \ {fd} \in SUBSET Posix!FD
    BY SystemFacts
  <2> HIDE DEF d
  <2>3. d \in Tables
    BY <2>2 DEF Tables
  <2> QED BY <2>1, <2>3, Systems1
<1> QED BY <1>1, <1>2

------------------------------------------------------------------------------
\* Each function between its call and its end: what is in the array, and which
\* handle and what numbers the call was given.
Handled == {n2w8(fd) : fd \in Posix!FD}
Buffer(b) == b \in Seq(Cells) /\ Len(b) = iobuff
OpenTask ==
  /\ task.fn = "open" /\ task.kind \in {"in", "out"} /\ Buffer(task.kept)
  /\ a \in Seq(Cells) /\ Len(a) = 9 /\ task.len = 9
  /\ \/ call.name \in {"open_in", "open_out"} /\ call.c \in Names
     \/ call.name = "none" /\ (a[1] = 0 => At(a, 1, 8) \in Handled)
CloseTask ==
  /\ task.fn = "close" /\ Buffer(a) /\ task.len = iobuff
  /\ call.name = "none" \/ (call.name = "close" /\ call.c \in Handled)
ReadTask ==
  /\ task.fn = "read" /\ Buffer(a) /\ task.len = iobuff
  /\ call.name = "none" \/ (call.name = "read" /\ call.c \in Handled /\ w22n(a) \in 0 .. BufSize)
WriteTask ==
  /\ task.fn = "write" /\ Buffer(a) /\ task.len = iobuff
  /\ task.fd \in Handled /\ task.rest \in Seq(Cells)
  /\ task.n \in Nat /\ task.i \in Nat /\ task.n + task.i <= BufSize
  /\ \/ call.name = "write" /\ call.c = task.fd /\ w22n(a) = task.n /\ w22n(At(a, 2, 2)) = task.i
     \/ call.name = "none" /\ (a[1] # 1 => w22n(At(a, 1, 2)) \in 0 .. task.n)
FileTask == OpenTask \/ CloseTask \/ ReadTask \/ WriteTask

Holdings == [streams : SUBSET ({"in", "out"} \X Handled), ops : Nat]
FileInv ==
  /\ use = "none" => os \in Systems
  /\ use = "files" =>
       /\ main \in CRuntimes /\ os \in Systems /\ end.how = "return" /\ got \in Holdings
       /\ FileTask \/ (task = Idle /\ call.name = "none" /\ Buffer(a))

LEMMA FileConstants ==
  /\ BufSize \in Nat /\ iobuff = BufSize + 4 /\ Power[2] \in Nat /\ BufSize \in 0 .. Power[2] - 1
  /\ Lengths \subseteq 0 .. BufSize /\ Strings \subseteq Seq(Cells)
  /\ Posix!FD \subseteq Nat /\ \A fd \in Posix!FD : 2 * fd < IntRange
<1>1. Power[2] \in Nat /\ IntRange \in Nat
  BY Powers DEF IntRange
<1> QED BY <1>1, FilesAssumption DEF iobuff, Cells, Posix!FD

LEMMA HandleFacts ==
  ASSUME NEW h \in Handled
  PROVE  /\ h \in Seq(Cells) /\ Len(h) = 8
         /\ AsInt(LongLong(h)) \in Posix!FD /\ n2w8(AsInt(LongLong(h))) = h
         /\ \A fd \in Posix!FD : n2w8(fd) = h => fd = AsInt(LongLong(h))
<1>1. ASSUME NEW fd \in Posix!FD PROVE AsInt(LongLong(n2w8(fd))) = fd
  BY FileConstants, Handles
<1>2. PICK fd \in Posix!FD : h = n2w8(fd)
  BY DEF Handled
<1>3. fd \in Int
  BY FileConstants
<1>4. ASSUME NEW k \in 1 .. 8 PROVE ByteOf(fd, 8 - k) \in Cells
  <2>1. 8 - k \in 0 .. 7
    OBVIOUS
  <2> QED BY <1>3, <2>1, NextByte DEF Cells
<1>5. h = [k \in 1 .. 8 |-> ByteOf(fd, 8 - k)]
  BY <1>2 DEF n2w8
<1>6. h \in Seq(Cells) /\ Len(h) = 8
  BY <1>4, <1>5
<1> QED BY <1>1, <1>2, <1>6

LEMMA TwoBytesAt ==
  ASSUME NEW b \in Seq(Cells), NEW off \in Nat, off + 2 <= Len(b), NEW n \in 0 .. Power[2] - 1
  PROVE  LET p == Put(b, off, n2w2(n))
         IN  /\ p \in Seq(Cells) /\ Len(p) = Len(b)
             /\ p[off + 1] * Base + p[off + 2] = n
             /\ \A j \in 1 .. Len(b) : j <= off \/ off + 2 < j => p[j] = b[j]
<1> DEFINE v == n2w2(n)
           p == Put(b, off, v)
<1>1. /\ ByteOf(n, 1) * Base + ByteOf(n, 0) = n
      /\ ByteOf(n, 0) \in Cells /\ ByteOf(n, 1) \in Cells
  BY TwoBytes DEF Cells
<1>2. v = <<ByteOf(n, 1), ByteOf(n, 0)>>
  BY DEF n2w2
<1>3. v \in Seq(Cells) /\ Len(v) = 2 /\ v[1] = ByteOf(n, 1) /\ v[2] = ByteOf(n, 0)
  BY <1>1, <1>2
<1> HIDE DEF v
<1>4. v \in Seq(Cells) /\ off + Len(v) <= Len(b)
  BY <1>3
<1>5. /\ p \in Seq(Cells) /\ Len(p) = Len(b)
      /\ \A j \in 1 .. Len(v) : p[off + j] = v[j]
      /\ \A j \in 1 .. Len(b) : j <= off \/ off + Len(v) < j => p[j] = b[j]
  BY <1>4, PutFacts
<1> HIDE DEF p
<1>6. p[off + 1] = ByteOf(n, 1) /\ p[off + 2] = ByteOf(n, 0)
  BY <1>3, <1>5
<1> QED BY <1>1, <1>3, <1>5, <1>6 DEF p, v

LEMMA ReadAsked ==
  ASSUME NEW b, Buffer(b), NEW n \in 0 .. BufSize
  PROVE  Buffer(Put(b, 0, n2w2(n))) /\ w22n(Put(b, 0, n2w2(n))) = n
<1> DEFINE p == Put(b, 0, n2w2(n))
<1>1. b \in Seq(Cells) /\ 0 + 2 <= Len(b) /\ n \in 0 .. Power[2] - 1
  BY FileConstants DEF Buffer
<1>2. p \in Seq(Cells) /\ Len(p) = Len(b) /\ p[0 + 1] * Base + p[0 + 2] = n
  BY <1>1, TwoBytesAt
<1> HIDE DEF p
<1>3. p[1] * Base + p[2] = n
  BY <1>2
<1> QED BY <1>2, <1>3 DEF Buffer, w22n, p

LEMMA WriteAsked ==
  ASSUME NEW b, Buffer(b), NEW n \in 0 .. BufSize, NEW i \in 0 .. BufSize
  PROVE  LET p == WriteArray(n, i, b)
         IN  Buffer(p) /\ w22n(p) = n /\ w22n(At(p, 2, 2)) = i
<1> DEFINE q == Put(b, 0, n2w2(n))
           p == Put(q, 2, n2w2(i))
<1>1. b \in Seq(Cells) /\ 0 + 2 <= Len(b) /\ 2 + 2 <= Len(b) /\ n \in 0 .. Power[2] - 1 /\ i \in 0 .. Power[2] - 1
  BY FileConstants DEF Buffer
<1>2. Buffer(q) /\ w22n(q) = n
  BY ReadAsked
<1> HIDE DEF q
<1>3. q \in Seq(Cells) /\ 2 + 2 <= Len(q)
  BY <1>2, FileConstants DEF Buffer
<1>4. /\ p \in Seq(Cells) /\ Len(p) = Len(q) /\ p[2 + 1] * Base + p[2 + 2] = i
      /\ \A j \in 1 .. Len(q) : j <= 2 \/ 2 + 2 < j => p[j] = q[j]
  BY <1>1, <1>3, TwoBytesAt
<1> HIDE DEF p
<1>5. p[1] = q[1] /\ p[2] = q[2] /\ Len(q) >= 4
  BY <1>3, <1>4
<1> DEFINE m == At(p, 2, 2)
<1>6. \A j \in 1 .. 2 : m[j] = p[2 + j]
  <2>1. p \in Seq(Cells) /\ 2 + 2 <= Len(p) /\ 2 \in Nat
    BY <1>3, <1>4
  <2> QED BY <2>1, AtFacts
<1> HIDE DEF m
<1>7. m[1] = p[2 + 1] /\ m[2] = p[2 + 2]
  BY <1>6
<1>8. Buffer(p) /\ w22n(p) = n /\ w22n(m) = i
  BY <1>2, <1>4, <1>5, <1>7 DEF Buffer, w22n
<1> QED BY <1>8 DEF WriteArray, p, q, m

LEMMA ChunkAsked ==
  ASSUME NEW b, Buffer(b), NEW s \in Seq(Cells)
  PROVE  /\ Chunk(s) \in 0 .. BufSize /\ After(s) \in Seq(Cells)
         /\ Buffer(Put(b, 4, At(s, 0, Chunk(s))))
<1> DEFINE n == Chunk(s)
           v == At(s, 0, n)
<1>1. Len(s) \in Nat
  OBVIOUS
<1>2. n \in 0 .. BufSize /\ n <= Len(s)
  BY <1>1, FileConstants DEF Chunk
<1> HIDE DEF n
<1>3. 0 + n <= Len(s) /\ n \in Nat /\ 0 \in Nat
  BY <1>2
<1>4. v \in Seq(Cells) /\ Len(v) = n
  BY <1>3, AtFacts
<1> HIDE DEF v
<1>5. b \in Seq(Cells) /\ 4 \in Nat /\ v \in Seq(Cells) /\ 4 + Len(v) <= Len(b)
  BY <1>2, <1>4, FileConstants DEF Buffer
<1>6. Put(b, 4, v) \in Seq(Cells) /\ Len(Put(b, 4, v)) = Len(b)
  BY <1>5, PutFacts
<1>7. After(s) \in Seq(Cells)
  <2>1. \A k \in Nat : SubSeq(s, k + 1, Len(s)) \in Seq(Cells)
    OBVIOUS
  <2> QED BY <1>3, <2>1 DEF After, n
<1> QED BY <1>2, <1>6, <1>7 DEF Buffer, n, v

------------------------------------------------------------------------------
\* What a program asks for.
LEMMA FileFacts ==
  ASSUME FileInv, use = "files"
  PROVE  /\ main \in CRuntimes /\ os \in Systems /\ end.how = "return" /\ got \in Holdings
         /\ FileTask \/ (task = Idle /\ call.name = "none" /\ Buffer(a))
         /\ task.fn \in {"idle", "open", "close", "read", "write"}
BY DEF FileInv, FileTask, OpenTask, CloseTask, ReadTask, WriteTask, Idle

LEMMA OperationFacts ==
  ASSUME FileInv, NEW t, NEW name, NEW c, NEW b, Operation(t, name, c, b), "len" \notin DOMAIN t
  PROVE  /\ use = "files" /\ Buffer(a) /\ got \in Holdings /\ got' \in Holdings /\ got'.streams = got.streams
         /\ main' \in CRuntimes /\ os' \in Systems /\ end'.how = "return" /\ use' = use
         /\ \A f \in DOMAIN t : task'[f] = t[f]
         /\ task'.len = Len(b) /\ call'.name = name /\ call'.c = c /\ a' = b
<1>1. /\ use = "files" /\ call.name = "none" /\ task.fn = "idle" /\ Ask(t, name, c, b)
      /\ got' = [got EXCEPT !.ops = @ + 1]
  BY DEF Operation, CanStart, Running
<1>2. /\ main \in CRuntimes /\ os \in Systems /\ end.how = "return" /\ got \in Holdings /\ Buffer(a)
  BY <1>1, FileFacts DEF FileTask, OpenTask, CloseTask, ReadTask, WriteTask
<1>3. got' \in Holdings /\ got'.streams = got.streams
  <2>1. got.ops + 1 \in Nat /\ got' = [got EXCEPT !.ops = got.ops + 1]
    BY <1>1, <1>2 DEF Holdings
  <2> QED BY <1>2, <2>1 DEF Holdings
<1> QED BY <1>1, <1>2, <1>3, AskFacts

LEMMA OpenStep ==
  ASSUME FileInv, NEW name \in Names, openIn(name) \/ openOut(name)
  PROVE  FileInv'
<1>1. PICK kind \in {"in", "out"}, call_name \in {"open_in", "open_out"} :
        Operation([fn |-> "open", kind |-> kind, kept |-> a], call_name, name, Zeros(9))
  BY DEF openIn, openOut
<1> DEFINE t == [fn |-> "open", kind |-> kind, kept |-> a]
<1>2. DOMAIN t = {"fn", "kind", "kept"} /\ t["fn"] = "open" /\ t["kind"] = kind /\ t["kept"] = a
  OBVIOUS
<1> HIDE DEF t
<1>3. Operation(t, call_name, name, Zeros(9)) /\ "len" \notin DOMAIN t
  BY <1>1, <1>2 DEF t
<1>4. /\ task'.fn = "open" /\ task'.kept = a /\ task'.kind = kind
  <2>1. \A f \in DOMAIN t : task'[f] = t[f]
    BY <1>3, OperationFacts
  <2>2. task'["fn"] = t["fn"] /\ task'["kept"] = t["kept"] /\ task'["kind"] = t["kind"]
    BY <1>2, <2>1
  <2> QED BY <1>2, <2>2
<1>5. 9 \in Nat
  OBVIOUS
<1>6. Zeros(9) \in Seq(Cells) /\ Len(Zeros(9)) = 9
  BY <1>5, ZerosFacts
<1>7. OpenTask'
  <2>1. task'.fn = "open" /\ Buffer(a) /\ task'.kept = a /\ task'.kind \in {"in", "out"}
    BY <1>3, <1>4, OperationFacts
  <2>2. Buffer(task.kept)'
    BY <2>1 DEF Buffer, iobuff, Cells
  <2>3. a' = Zeros(9) /\ task'.len = Len(Zeros(9)) /\ call'.name = call_name /\ call'.c = name
    BY <1>3, OperationFacts
  <2> QED BY <1>6, <2>1, <2>2, <2>3 DEF OpenTask, Cells
<1> QED BY <1>3, <1>7, OperationFacts DEF FileInv, FileTask

LEMMA CloseStep ==
  ASSUME FileInv, NEW h \in Handled, close(h)
  PROVE  FileInv'
<1> DEFINE t == [fn |-> "close"]
<1>1. DOMAIN t = {"fn"} /\ t["fn"] = "close"
  OBVIOUS
<1> HIDE DEF t
<1>2. Operation(t, "close", h, a) /\ "len" \notin DOMAIN t
  BY <1>1 DEF close, t
<1>3. /\ Buffer(a) /\ task'["fn"] = t["fn"] /\ task'.len = Len(a) /\ call'.name = "close" /\ call'.c = h
      /\ a' = a
  BY <1>1, <1>2, OperationFacts
<1>4. CloseTask'
  BY <1>1, <1>3 DEF CloseTask, Buffer, iobuff, Handled, Cells
<1> QED BY <1>2, <1>4, OperationFacts DEF FileInv, FileTask

LEMMA ReadStep ==
  ASSUME FileInv, NEW h \in Handled, NEW n \in Lengths, read(h, n)
  PROVE  FileInv'
<1> DEFINE t == [fn |-> "read"]
           b == Put(a, 0, n2w2(n))
<1>1. DOMAIN t = {"fn"} /\ t["fn"] = "read"
  OBVIOUS
<1> HIDE DEF t
<1>2. Operation(t, "read", h, b) /\ "len" \notin DOMAIN t
  BY <1>1 DEF read, t
<1>3. n \in 0 .. BufSize
  BY FileConstants
<1>4. Buffer(a)
  BY <1>2, OperationFacts
<1>5. Buffer(b) /\ w22n(b) = n
  BY <1>3, <1>4, ReadAsked
<1> HIDE DEF b
<1>6. task'["fn"] = t["fn"] /\ task'.len = Len(b) /\ call'.name = "read" /\ call'.c = h /\ a' = b
  BY <1>1, <1>2, OperationFacts
<1>7. ReadTask'
  BY <1>1, <1>3, <1>5, <1>6 DEF ReadTask, Buffer, iobuff, Handled, Cells, w22n
<1> QED BY <1>2, <1>7, OperationFacts DEF FileInv, FileTask

\* A call to write n bytes from offset i, with rest to come.
LEMMA WriteCalled ==
  ASSUME NEW h \in Handled, NEW n \in Nat, NEW i \in Nat, n + i <= BufSize, NEW rest \in Seq(Cells),
         NEW b, Buffer(b), NEW t, t = Writing(h, n, i, rest),
         \A f \in DOMAIN t : task'[f] = t[f],
         task'.len = Len(WriteArray(n, i, b)), call'.name = "write", call'.c = h, a' = WriteArray(n, i, b)
  PROVE  WriteTask'
<1> DEFINE p == WriteArray(n, i, b)
<1>1. n \in 0 .. BufSize /\ i \in 0 .. BufSize
  BY FileConstants
<1>2. Buffer(p) /\ w22n(p) = n /\ w22n(At(p, 2, 2)) = i
  BY <1>1, WriteAsked
<1>3. a' = p /\ task'.len = Len(p)
  OBVIOUS
<1> HIDE DEF p
<1>4. DOMAIN t = {"fn", "fd", "n", "i", "rest"} /\ t["fn"] = "write" /\ t["fd"] = h /\ t["n"] = n /\ t["i"] = i /\ t["rest"] = rest
  BY DEF Writing
<1>5. task'["fn"] = t["fn"] /\ task'["fd"] = t["fd"] /\ task'["n"] = t["n"] /\ task'["i"] = t["i"] /\ task'["rest"] = t["rest"]
  BY <1>4
<1>6. task'.fn = "write" /\ task'.fd = h /\ task'.n = n /\ task'.i = i /\ task'.rest = rest
  BY <1>4, <1>5
<1> QED BY <1>2, <1>3, <1>6 DEF WriteTask, Buffer, iobuff, Handled, Cells, w22n, At

LEMMA OutputStep ==
  ASSUME FileInv, NEW h \in Handled, NEW s \in Strings, output(h, s)
  PROVE  FileInv'
<1> DEFINE t == Writing(h, Chunk(s), 0, After(s))
           b == Put(a, 4, At(s, 0, Chunk(s)))
<1>1. DOMAIN t = {"fn", "fd", "n", "i", "rest"}
  BY DEF Writing
<1> HIDE DEF t
<1>2. Operation(t, "write", h, WriteArray(Chunk(s), 0, b)) /\ "len" \notin DOMAIN t
  BY <1>1 DEF output, ChunkArray, t
<1>3. Buffer(a) /\ s \in Seq(Cells)
  BY <1>2, OperationFacts, FileConstants
<1>4. Chunk(s) \in 0 .. BufSize /\ After(s) \in Seq(Cells) /\ Buffer(b)
  BY <1>3, ChunkAsked
<1> HIDE DEF b
<1>5. Chunk(s) \in Nat /\ 0 \in Nat /\ Chunk(s) + 0 <= BufSize
  BY <1>4, FileConstants
<1>6. /\ \A f \in DOMAIN t : task'[f] = t[f]
      /\ task'.len = Len(WriteArray(Chunk(s), 0, b)) /\ call'.name = "write" /\ call'.c = h
      /\ a' = WriteArray(Chunk(s), 0, b)
  BY <1>2, OperationFacts
<1>7. WriteTask'
  BY <1>4, <1>5, <1>6, WriteCalled DEF t
<1> QED BY <1>2, <1>7, OperationFacts DEF FileInv, FileTask

\* What a program does with an answer.
LEMMA ReturnedFacts ==
  ASSUME FileInv, NEW fn, Returned("files", fn)
  PROVE  /\ use = "files" /\ call.name = "none" /\ task.fn = fn /\ end.how = "return"
         /\ main \in CRuntimes /\ os \in Systems /\ got \in Holdings
         /\ fn = "open" => OpenTask
         /\ fn = "close" => CloseTask
         /\ fn = "read" => ReadTask
         /\ fn = "write" => WriteTask
BY FileFacts DEF Returned, Running, FileTask, OpenTask, CloseTask, ReadTask, WriteTask, Idle

LEMMA EndStep ==
  ASSUME FileInv, use = "files", call.name = "none", NEW b, Buffer(b), NEW holding \in Holdings, Finish(b, holding)
  PROVE  FileInv'
<1>1. /\ task' = Idle /\ a' = b /\ got' = holding /\ call' = call
      /\ use' = use /\ os' = os /\ end' = end /\ main' = main
  BY FinishFacts
<1>2. Buffer(a)'
  BY <1>1 DEF Buffer, iobuff, Cells
<1> QED BY <1>1, <1>2, FileFacts DEF FileInv

LEMMA OpenedStep ==
  ASSUME FileInv, Opened
  PROVE  FileInv'
<1>1. OpenTask /\ use = "files" /\ call.name = "none" /\ got \in Holdings
  BY ReturnedFacts DEF Opened
<1> DEFINE h == At(a, 1, 8)
           more == [got EXCEPT !.streams = @ \cup {<<task.kind, h>>}]
<1>2. Buffer(task.kept) /\ task.kind \in {"in", "out"} /\ (a[1] = 0 => h \in Handled)
  BY <1>1 DEF OpenTask
<1>3. Finish(task.kept, IF a[1] = 0 THEN more ELSE got)
  BY DEF Opened
<1> HIDE DEF h
<1>4. a[1] = 0 => more \in Holdings
  BY <1>1, <1>2 DEF Holdings
<1> HIDE DEF more
<1> QED BY <1>1, <1>2, <1>3, <1>4, EndStep

LEMMA DoneStep ==
  ASSUME FileInv, Done
  PROVE  FileInv'
<1>1. PICK fn \in {"close", "read"} : Returned("files", fn) /\ Finish(a, got)
  BY DEF Done
<1>2. use = "files" /\ call.name = "none" /\ got \in Holdings /\ Buffer(a)
  BY <1>1, ReturnedFacts DEF CloseTask, ReadTask
<1> QED BY <1>1, <1>2, EndStep

LEMMA WrittenStep ==
  ASSUME FileInv, Written
  PROVE  FileInv'
<1> DEFINE nw == w22n(At(a, 1, 2))
           n == task.n - nw
           i == task.i + nw
           more == Put(a, 4, At(task.rest, 0, Chunk(task.rest)))
<1>1. /\ WriteTask /\ use = "files" /\ call.name = "none" /\ got \in Holdings /\ end.how = "return"
      /\ main \in CRuntimes /\ os \in Systems
  BY ReturnedFacts DEF Written
<1>2. /\ Buffer(a) /\ task.fd \in Handled /\ task.rest \in Seq(Cells)
      /\ task.n \in Nat /\ task.i \in Nat /\ task.n + task.i <= BufSize
      /\ a[1] # 1 => nw \in 0 .. task.n
  BY <1>1 DEF WriteTask
<1>3. \/ Finish(a, got)
      \/ /\ a[1] # 1 /\ n > 0 /\ got' = got
         /\ Ask(Writing(task.fd, n, i, task.rest), "write", task.fd, WriteArray(n, i, a))
      \/ /\ got' = got
         /\ Ask(Writing(task.fd, Chunk(task.rest), 0, After(task.rest)), "write", task.fd,
                WriteArray(Chunk(task.rest), 0, more))
  BY DEF Written, ChunkArray
<1> HIDE DEF nw
<1>4. ASSUME NEW m \in Nat, NEW j \in Nat, m + j <= BufSize, NEW rest \in Seq(Cells), NEW b, Buffer(b),
             got' = got, Ask(Writing(task.fd, m, j, rest), "write", task.fd, WriteArray(m, j, b))
      PROVE  FileInv'
  <2> DEFINE t == Writing(task.fd, m, j, rest)
             p == WriteArray(m, j, b)
  <2>1. DOMAIN t = {"fn", "fd", "n", "i", "rest"}
    BY DEF Writing
  <2> HIDE DEF t, p
  <2>2. Ask(t, "write", task.fd, p) /\ "len" \notin DOMAIN t
    BY <1>4, <2>1 DEF t, p
  <2>3. /\ \A f \in DOMAIN t : task'[f] = t[f]
        /\ task'.len = Len(p) /\ call'.name = "write" /\ call'.c = task.fd /\ a' = p
        /\ use' = use /\ os' = os /\ end' = end /\ main' = main
    BY <2>2, AskFacts
  <2>4. WriteTask'
    BY <1>2, <1>4, <2>3, WriteCalled DEF t, p
  <2> QED BY <1>1, <1>4, <2>3, <2>4 DEF FileInv, FileTask
<1>5. CASE Finish(a, got)
  BY <1>1, <1>2, <1>5, EndStep
<1>6. CASE /\ a[1] # 1 /\ n > 0 /\ got' = got
           /\ Ask(Writing(task.fd, n, i, task.rest), "write", task.fd, WriteArray(n, i, a))
  <2>1. n \in Nat /\ i \in Nat /\ n + i <= BufSize
    BY <1>2, <1>6, FileConstants
  <2> HIDE DEF n, i
  <2> QED BY <1>2, <1>4, <1>6, <2>1
<1>7. CASE /\ got' = got
           /\ Ask(Writing(task.fd, Chunk(task.rest), 0, After(task.rest)), "write", task.fd,
                  WriteArray(Chunk(task.rest), 0, more))
  <2>1. Chunk(task.rest) \in 0 .. BufSize /\ After(task.rest) \in Seq(Cells) /\ Buffer(more)
    BY <1>2, ChunkAsked
  <2>2. Chunk(task.rest) \in Nat /\ Chunk(task.rest) + 0 <= BufSize /\ 0 \in Nat
    BY <2>1, FileConstants
  <2> HIDE DEF more
  <2> QED BY <1>4, <1>7, <2>1, <2>2
<1> QED BY <1>3, <1>5, <1>6, <1>7

------------------------------------------------------------------------------
\* What the runtimes answer.
Promise == \E o \in Promised : os' = o.os /\ Says(a', o.reply)

LEMMA FlagPut ==
  ASSUME NEW b \in Seq(Cells), Len(b) >= 1, NEW x \in Cells
  PROVE  /\ Put(b, 0, <<x>>) \in Seq(Cells) /\ Len(Put(b, 0, <<x>>)) = Len(b)
         /\ Put(b, 0, <<x>>)[1] = x
<1> DEFINE v == <<x>>
           p == Put(b, 0, v)
<1>1. v \in Seq(Cells) /\ Len(v) = 1 /\ v[1] = x
  OBVIOUS
<1> HIDE DEF v
<1>2. 0 \in Nat /\ v \in Seq(Cells) /\ 0 + Len(v) <= Len(b)
  BY <1>1
<1>3. p \in Seq(Cells) /\ Len(p) = Len(b) /\ \A j \in 1 .. Len(v) : p[0 + j] = v[j]
  BY <1>2, PutFacts
<1> HIDE DEF p
<1>4. 1 \in 1 .. Len(v) /\ 0 + 1 = 1
  BY <1>1
<1>5. p[1] = x
  BY <1>1, <1>3, <1>4
<1> QED BY <1>3, <1>5 DEF p, v

LEMMA PutAfterFlag ==
  ASSUME NEW b \in Seq(Cells), NEW v \in Seq(Cells), 1 + Len(v) <= Len(b)
  PROVE  LET p == Put(b, 1, v)
         IN  p \in Seq(Cells) /\ Len(p) = Len(b) /\ At(p, 1, Len(v)) = v /\ p[1] = b[1]
<1> DEFINE p == Put(b, 1, v)
<1>1. /\ p \in Seq(Cells) /\ Len(p) = Len(b) /\ At(p, 1, Len(v)) = v
      /\ \A j \in 1 .. Len(b) : j <= 1 \/ 1 + Len(v) < j => p[j] = b[j]
  BY PutFacts
<1> HIDE DEF p
<1>2. p[1] = b[1]
  BY <1>1
<1> QED BY <1>1, <1>2 DEF p

\* A zero and a count.
CountPut(b, n) == Put(b, 0, <<0>> \o n2w2(n))
LEMMA CountPutFacts ==
  ASSUME NEW b \in Seq(Cells), Len(b) >= 3, NEW n \in 0 .. Power[2] - 1
  PROVE  /\ CountPut(b, n) \in Seq(Cells) /\ Len(CountPut(b, n)) = Len(b)
         /\ CountPut(b, n)[1] = 0 /\ w22n(At(CountPut(b, n), 1, 2)) = n
         /\ \A j \in 1 .. Len(b) : 3 < j => CountPut(b, n)[j] = b[j]
<1> DEFINE w == n2w2(n)
           v == <<0>> \o w
           p == Put(b, 0, v)
<1>1. /\ ByteOf(n, 1) * Base + ByteOf(n, 0) = n
      /\ ByteOf(n, 0) \in Cells /\ ByteOf(n, 1) \in Cells /\ 0 \in Cells
  BY TwoBytes, BaseFacts DEF Cells
<1>2. w \in Seq(Cells) /\ Len(w) = 2 /\ w[1] = ByteOf(n, 1) /\ w[2] = ByteOf(n, 0)
  BY <1>1 DEF n2w2
<1> HIDE DEF w
<1>3. v \in Seq(Cells) /\ Len(v) = 3 /\ v[1] = 0 /\ v[2] = ByteOf(n, 1) /\ v[3] = ByteOf(n, 0)
  <2> DEFINE z == <<0>>
  <2>1. z \in Seq(Cells) /\ Len(z) = 1 /\ z[1] = 0
    BY <1>1
  <2> HIDE DEF z
  <2>2. z \o w \in Seq(Cells) /\ Len(z \o w) = 3 /\ (z \o w)[1] = z[1] /\ (z \o w)[2] = w[1] /\ (z \o w)[3] = w[2]
    <3>1. /\ z \o w \in Seq(Cells) /\ Len(z \o w) = Len(z) + Len(w)
          /\ \A j \in 1 .. Len(z) + Len(w) : (z \o w)[j] = IF j <= Len(z) THEN z[j] ELSE w[j - Len(z)]
      BY <1>2, <2>1, ConcatProperties
    <3> DEFINE c == z \o w
    <3> HIDE DEF c
    <3>2. c \in Seq(Cells) /\ Len(c) = 3 /\ \A j \in 1 .. 3 : c[j] = IF j <= 1 THEN z[j] ELSE w[j - 1]
      BY <1>2, <2>1, <3>1 DEF c
    <3>3. c[1] = z[1] /\ c[2] = w[1] /\ c[3] = w[2]
      BY <3>2
    <3> QED BY <3>2, <3>3 DEF c
  <2> QED BY <1>2, <2>1, <2>2 DEF z
<1> HIDE DEF v
<1>4. 0 \in Nat /\ v \in Seq(Cells) /\ 0 + Len(v) <= Len(b)
  BY <1>3
<1>5. /\ p \in Seq(Cells) /\ Len(p) = Len(b)
      /\ \A j \in 1 .. Len(v) : p[0 + j] = v[j]
      /\ \A j \in 1 .. Len(b) : j <= 0 \/ 0 + Len(v) < j => p[j] = b[j]
  BY <1>4, PutFacts
<1> HIDE DEF p
<1>6. p[1] = 0 /\ p[2] = ByteOf(n, 1) /\ p[3] = ByteOf(n, 0)
  <2>1. p[0 + 1] = v[1] /\ p[0 + 2] = v[2] /\ p[0 + 3] = v[3]
    BY <1>3, <1>5
  <2> QED BY <1>3, <2>1
<1> DEFINE m == At(p, 1, 2)
<1>7. m[1] = p[2] /\ m[2] = p[3]
  <2>1. p \in Seq(Cells) /\ 1 + 2 <= Len(p) /\ 1 \in Nat /\ 2 \in Nat
    BY <1>5
  <2>2. \A j \in 1 .. 2 : m[j] = p[1 + j]
    BY <2>1, AtFacts
  <2> HIDE DEF m
  <2>3. m[1] = p[1 + 1] /\ m[2] = p[1 + 2]
    BY <2>2
  <2> QED BY <2>3
<1> HIDE DEF m
<1>8. w22n(m) = n
  BY <1>1, <1>6, <1>7 DEF w22n
<1>9. \A j \in 1 .. Len(b) : 3 < j => p[j] = b[j]
  BY <1>3, <1>5
<1>10. CountPut(b, n) = p
  BY DEF CountPut, p, v, w
<1> QED BY <1>5, <1>6, <1>8, <1>9, <1>10 DEF m

LEMMA OpenFFIStep ==
  ASSUME FileInv, use = "files", FFI, OpenTask
  PROVE  FileInv' /\ Promise
<1>1. /\ call.name \in {"open_in", "open_out"} /\ call.c \in Names /\ task.kind \in {"in", "out"}
      /\ Buffer(task.kept) /\ a \in Seq(Cells) /\ Len(a) = 9 /\ 9 <= Len(a)
      /\ main \in CRuntimes /\ os \in Systems /\ got \in Holdings
  BY FFIKeeps, FileFacts DEF OpenTask
<1> DEFINE S == IF call.name = "open_in" THEN F!open_rdonly(os, call.c) ELSE F!open_creat_trunc(os, call.c)
<1>2. \E code \in Cells \ {0} : Outcomes = {OpenAnswer(r, code) : r \in S}
  <2>1. CASE call.name = "open_in"
    <3>1. 1 \in Cells \ {0}
      BY BaseFacts DEF Cells
    <3>2. OpenInAnswers
      BY <1>1, <2>1, AnswersHold DEF Answers
    <3> QED BY <2>1, <3>1, <3>2 DEF OpenInAnswers
  <2>2. CASE call.name = "open_out"
    <3>1. OpenOutAnswers
      BY <1>1, <2>2, AnswersHold DEF Answers
    <3> QED BY <2>2, <3>1 DEF OpenOutAnswers
  <2> QED BY <1>1, <2>1, <2>2
<1>3. PICK code \in Cells \ {0} : Outcomes = {OpenAnswer(r, code) : r \in S}
  BY <1>2
<1>4. Promised = {F!Outcome(r) : r \in S}
  BY <1>1 DEF Promised, F!ffiopen_in, F!ffiopen_out
<1>5. \A r \in S : r.os \in Systems /\ (r.ret = -1 \/ r.ret \in Posix!FD)
  BY <1>1, OpenFacts
<1> HIDE DEF S
<1> DEFINE G(r) == IF 0 <= r.ret THEN Put(Put(a, 0, <<0>>), 1, n2w8(r.ret)) ELSE Put(a, 0, <<code>>)
<1>6. PICK r \in S : os' = r.os /\ a' = G(r) /\ end'.how = "return"
  <2>1. PICK q \in Outcomes : os' = q.os /\ a' = q.a /\ end' = [how |-> q.how, status |-> q.status]
    BY DEF FFI
  <2>2. PICK r \in S : q = OpenAnswer(r, code)
    BY <1>3, <2>1
  <2> QED BY <2>1, <2>2 DEF OpenAnswer, Back
<1> DEFINE o == F!Outcome(r)
<1>7. o \in Promised
  BY <1>4, <1>6
<1>8. CASE r.ret = -1
  <2>1. a' = Put(a, 0, <<code>>) /\ o.os = r.os /\ o.reply.code = 1
    BY <1>6, <1>8 DEF F!Outcome, F!Reply
  <2>2. a' \in Seq(Cells) /\ Len(a') = 9 /\ a'[1] = code
    <3>1. a \in Seq(Cells) /\ Len(a) >= 1 /\ code \in Cells
      BY <1>1
    <3>2. a' \in Seq(Cells) /\ Len(a') = Len(a) /\ a'[1] = code
      BY <2>1, <3>1, FlagPut
    <3> QED BY <1>1, <3>2
  <2> HIDE DEF o
  <2>3. a'[1] # 0
    BY <2>2
  <2>4. Says(a', o.reply)
    BY <1>1, <2>1, <2>3 DEF Says
  <2>5. OpenTask'
    BY <1>1, <2>2, <2>3, FFIKeeps DEF OpenTask, Buffer, iobuff, Cells
  <2> QED BY <1>1, <1>5, <1>6, <1>7, <2>1, <2>4, <2>5, FFIKeeps DEF Promise, FileInv, FileTask
<1>9. CASE r.ret \in Posix!FD
  <2> DEFINE b == Put(a, 0, <<0>>)
             v == n2w8(r.ret)
  <2>1. 0 <= r.ret
    <3>1. Posix!FD \subseteq Nat
      BY FileConstants
    <3>2. r.ret \in Nat
      BY <1>9, <3>1
    <3> QED BY <3>2
  <2>2. a' = Put(b, 1, v) /\ o.os = r.os /\ o.reply = [code |-> 0, n |-> r.ret, data |-> r.data]
    BY <1>6, <2>1 DEF F!Outcome, F!Reply
  <2>3. 0 \in Cells
    BY BaseFacts DEF Cells
  <2>4. b \in Seq(Cells) /\ Len(b) = 9 /\ b[1] = 0
    <3>1. a \in Seq(Cells) /\ Len(a) >= 1
      BY <1>1
    <3>2. b \in Seq(Cells) /\ Len(b) = Len(a) /\ b[1] = 0
      BY <2>3, <3>1, FlagPut
    <3> QED BY <1>1, <3>2
  <2> HIDE DEF b
  <2>5. v \in Handled
    BY <1>9 DEF Handled
  <2>6. v \in Seq(Cells) /\ Len(v) = 8
    BY <2>5, HandleFacts
  <2> HIDE DEF v
  <2> DEFINE p == Put(b, 1, v)
  <2>7. 1 \in Nat /\ b \in Seq(Cells) /\ v \in Seq(Cells) /\ 1 + Len(v) <= Len(b)
    BY <2>4, <2>6
  <2>8. /\ p \in Seq(Cells) /\ Len(p) = Len(b) /\ At(p, 1, Len(v)) = v /\ p[1] = b[1]
    BY <2>7, PutAfterFlag
  <2> HIDE DEF p
  <2>9. p[1] = 0 /\ At(p, 1, 8) = v /\ Len(p) = 9
    BY <2>4, <2>6, <2>8
  <2>10. a' = p
    BY <2>2 DEF p
  <2>11. Says(a', o.reply)
    BY <1>1, <2>2, <2>9, <2>10 DEF Says, v
  <2>12. OpenTask'
    BY <1>1, <2>5, <2>8, <2>9, <2>10, FFIKeeps DEF OpenTask, Buffer, iobuff, Cells, At, Handled
  <2> HIDE DEF o
  <2> QED BY <1>1, <1>5, <1>6, <1>7, <2>2, <2>11, <2>12, FFIKeeps DEF Promise, FileInv, FileTask
<1> QED BY <1>5, <1>6, <1>8, <1>9

\* The descriptor that ML means is the one that the runtime makes of the handle.
LEMMA AskedFacts ==
  ASSUME call.c \in Handled
  PROVE  Asked = Target /\ Target \in Posix!FD /\ Len(call.c) = 8
<1>1. /\ Len(call.c) = 8 /\ Target \in Posix!FD /\ n2w8(Target) = call.c
      /\ \A fd \in Posix!FD : n2w8(fd) = call.c => fd = Target
  BY HandleFacts DEF Target
<1>2. Asked = Target
  <2> HIDE DEF Target
  <2> QED BY <1>1 DEF Asked
<1> QED BY <1>1, <1>2

LEMMA LengthFacts ==
  ASSUME Buffer(a)
  PROVE  Length = w22n(a)
<1>1. a \in Seq(Cells) /\ 0 + 2 <= Len(a) /\ 0 \in Nat /\ 2 \in Nat
  BY FileConstants DEF Buffer
<1> DEFINE m == At(a, 0, 2)
<1>2. \A j \in 1 .. 2 : m[j] = a[0 + j]
  BY <1>1, AtFacts
<1> HIDE DEF m
<1>3. m[1] = a[1] /\ m[2] = a[2]
  <2>1. m[1] = a[0 + 1] /\ m[2] = a[0 + 2]
    BY <1>2
  <2> QED BY <2>1
<1> QED BY <1>3 DEF Length, w22n, m

LEMMA CloseFFIStep ==
  ASSUME FileInv, use = "files", FFI, CloseTask
  PROVE  FileInv' /\ Promise
<1>1. /\ call.name = "close" /\ call.c \in Handled /\ Buffer(a) /\ task.len = iobuff
      /\ main \in CRuntimes /\ os \in Systems /\ got \in Holdings
  BY FFIKeeps, FileFacts DEF CloseTask
<1> DEFINE S == F!posix_close(os, Target)
<1>2. a \in Seq(Cells) /\ Len(a) >= 1 /\ 1 <= Len(a)
  BY <1>1, FileConstants DEF Buffer
<1>3. Outcomes = {CloseAnswer(r) : r \in S}
  <2>1. CloseAnswers
    BY <1>1, <1>2, AskedFacts, AnswersHold DEF Answers
  <2> QED BY <2>1 DEF CloseAnswers
<1>4. Promised = {F!Outcome(r) : r \in S}
  <2>1. Promised = F!fficlose(os, Asked)
    BY <1>1 DEF Promised
  <2> QED BY <1>1, <2>1, AskedFacts DEF F!fficlose
<1>5. \A r \in S : r.os \in Systems /\ r.ret \in {-1, 0}
  BY <1>1, CloseFileFacts
<1> HIDE DEF S
<1>6. PICK r \in S : os' = r.os /\ a' = Put(a, 0, IF r.ret = 0 THEN <<0>> ELSE <<1>>) /\ end'.how = "return"
  <2>1. PICK q \in Outcomes : os' = q.os /\ a' = q.a /\ end' = [how |-> q.how, status |-> q.status]
    BY DEF FFI
  <2>2. PICK r \in S : q = CloseAnswer(r)
    BY <1>3, <2>1
  <2> QED BY <2>1, <2>2 DEF CloseAnswer, Back
<1> DEFINE o == F!Outcome(r)
           x == IF r.ret = 0 THEN 0 ELSE 1
<1>7. o \in Promised
  BY <1>4, <1>6
<1>8. x \in Cells /\ a' = Put(a, 0, <<x>>)
  BY <1>6, BaseFacts DEF Cells
<1>9. o.os = r.os /\ o.reply.code = x
  BY <1>5, <1>6 DEF F!Outcome, F!Reply
<1> HIDE DEF o, x
<1>10. a' \in Seq(Cells) /\ Len(a') = Len(a) /\ a'[1] = x
  BY <1>2, <1>8, FlagPut
<1>11. Says(a', o.reply)
  BY <1>1, <1>9, <1>10 DEF Says
<1>12. CloseTask'
  BY <1>1, <1>10, FFIKeeps DEF CloseTask, Buffer, iobuff, Cells, CloseTask
<1> QED BY <1>1, <1>5, <1>6, <1>7, <1>9, <1>11, <1>12, FFIKeeps, FileFacts DEF Promise, FileInv, FileTask

LEMMA ReadFFIStep ==
  ASSUME FileInv, use = "files", FFI, ReadTask
  PROVE  FileInv' /\ Promise
<1> DEFINE n == w22n(a)
<1>1. /\ call.name = "read" /\ call.c \in Handled /\ Buffer(a) /\ task.len = iobuff
      /\ main \in CRuntimes /\ os \in Systems /\ got \in Holdings /\ n \in 0 .. BufSize
  BY FFIKeeps, FileFacts DEF ReadTask
<1> DEFINE S == F!posix_read(os, Target, n)
<1>2. a \in Seq(Cells) /\ Len(a) >= 4 /\ n + 4 <= Len(a) /\ n \in Nat /\ n <= Power[2] - 1
  BY <1>1, FileConstants DEF Buffer
<1>3. Outcomes = {ReadAnswer(r) : r \in S}
  <2>1. ReadAnswers
    BY <1>1, <1>2, AskedFacts, AnswersHold DEF Answers
  <2> QED BY <2>1 DEF ReadAnswers
<1>4. Promised = {F!Outcome(r) : r \in S}
  <2>1. Promised = F!ffiread(os, Asked, Length)
    BY <1>1 DEF Promised
  <2> QED BY <1>1, <2>1, AskedFacts, LengthFacts DEF F!ffiread
<1>5. \A r \in S : /\ r.os \in Systems
                   /\ r.ret = -1 \/ (r.ret \in 0 .. n /\ r.data \in Seq(Cells) /\ Len(r.data) = r.ret)
  <2> HIDE DEF n
  <2> QED BY <1>1, <1>2, ReadFileFacts
<1> HIDE DEF S, n
<1>6. PICK r \in S : /\ os' = r.os /\ end'.how = "return"
                     /\ a' = IF r.ret < 0 THEN Put(a, 0, <<1>>) ELSE CountPut(Put(a, 4, r.data), r.ret)
  <2>1. PICK q \in Outcomes : os' = q.os /\ a' = q.a /\ end' = [how |-> q.how, status |-> q.status]
    BY DEF FFI
  <2>2. PICK r \in S : q = ReadAnswer(r)
    BY <1>3, <2>1
  <2> QED BY <2>1, <2>2 DEF ReadAnswer, Back, CountPut
<1> DEFINE o == F!Outcome(r)
<1>7. o \in Promised
  BY <1>4, <1>6
<1>8. ASSUME a' \in Seq(Cells), Len(a') = Len(a), o.os = r.os, Says(a', o.reply)
      PROVE  FileInv' /\ Promise
  <2> HIDE DEF o
  <2>1. ReadTask'
    BY <1>1, <1>8, FFIKeeps DEF ReadTask, Buffer, iobuff, Cells
  <2> QED BY <1>1, <1>5, <1>6, <1>7, <1>8, <2>1, FFIKeeps, FileFacts DEF Promise, FileInv, FileTask
<1>9. CASE r.ret = -1
  <2>1. a' = Put(a, 0, <<1>>) /\ o.os = r.os /\ o.reply = [code |-> 1, n |-> 0, data |-> <<>>]
    BY <1>6, <1>9 DEF F!Outcome, F!Reply
  <2>2. 1 \in Cells /\ Len(a) >= 1
    BY <1>2, BaseFacts DEF Cells
  <2>3. a' \in Seq(Cells) /\ Len(a') = Len(a) /\ a'[1] = 1
    BY <1>2, <2>1, <2>2, FlagPut
  <2>4. At(a', 4, 0) = <<>>
    BY <2>3 DEF At
  <2>5. Says(a', o.reply)
    BY <1>1, <2>1, <2>3, <2>4 DEF Says
  <2> HIDE DEF o
  <2> QED BY <1>8, <2>1, <2>3, <2>5
<1>10. CASE r.ret \in 0 .. n /\ r.data \in Seq(Cells) /\ Len(r.data) = r.ret
  <2> DEFINE k == r.ret
             v == r.data
             b == Put(a, 4, v)
             p == CountPut(b, k)
  <2>1. k \in Nat /\ ~(k < 0) /\ k <= n /\ k \in 0 .. Power[2] - 1
    BY <1>2, <1>10, FileConstants
  <2>2. a' = p /\ o.os = r.os /\ o.reply = [code |-> 0, n |-> k, data |-> v]
    BY <1>6, <2>1 DEF F!Outcome, F!Reply
  <2>3. v \in Seq(Cells) /\ Len(v) = k
    BY <1>10
  <2> HIDE DEF k, v
  <2>4. 4 \in Nat /\ 4 + Len(v) <= Len(a)
    BY <1>2, <2>1, <2>3
  <2>5. b \in Seq(Cells) /\ Len(b) = Len(a) /\ At(b, 4, Len(v)) = v
    <3> HIDE DEF p
    <3>1. a \in Seq(Cells) /\ v \in Seq(Cells)
      BY <1>2, <2>3
    <3>2. /\ Put(a, 4, v) \in Seq(Cells) /\ Len(Put(a, 4, v)) = Len(a)
          /\ At(Put(a, 4, v), 4, Len(v)) = v
      BY <2>4, <3>1, PutAt
    <3> QED BY <3>2
  <2> HIDE DEF b
  <2>6. b \in Seq(Cells) /\ Len(b) >= 3
    BY <1>2, <2>5
  <2>7. /\ p \in Seq(Cells) /\ Len(p) = Len(b) /\ p[1] = 0 /\ w22n(At(p, 1, 2)) = k
        /\ \A j \in 1 .. Len(b) : 3 < j => p[j] = b[j]
    BY <2>1, <2>6, CountPutFacts
  <2> HIDE DEF p
  <2>8. At(p, 4, k) = v
    <3>1. At(b, 4, k) = v
      BY <2>3, <2>5
    <3>2. /\ p \in Seq(Cells) /\ b \in Seq(Cells) /\ 4 \in Nat /\ k \in Nat /\ 4 + k <= Len(p) /\ 4 + k <= Len(b)
      BY <2>1, <2>3, <2>4, <2>5, <2>7
    <3>3. /\ At(p, 4, k) \in Seq(Cells) /\ Len(At(p, 4, k)) = k /\ \A j \in 1 .. k : At(p, 4, k)[j] = p[4 + j]
      BY <3>2, AtFacts
    <3>4. /\ At(b, 4, k) \in Seq(Cells) /\ Len(At(b, 4, k)) = k /\ \A j \in 1 .. k : At(b, 4, k)[j] = b[4 + j]
      BY <3>2, AtFacts
    <3>5. \A j \in 1 .. k : p[4 + j] = b[4 + j]
      BY <2>7, <3>2
    <3> QED BY <3>1, <3>3, <3>4, <3>5, SeqEqual
  <2>9. Says(a', o.reply)
    BY <1>1, <2>2, <2>7, <2>8 DEF Says
  <2>10. a' \in Seq(Cells) /\ Len(a') = Len(a)
    BY <2>2, <2>5, <2>7
  <2> HIDE DEF o
  <2> QED BY <1>8, <2>2, <2>9, <2>10
<1> QED BY <1>5, <1>6, <1>9, <1>10

LEMMA WriteFFIStep ==
  ASSUME FileInv, use = "files", FFI, WriteTask
  PROVE  FileInv' /\ Promise
<1> DEFINE n == task.n
           i == task.i
           v == At(a, 4 + i, n)
           S == F!posix_write(os, Target, v)
<1>1. /\ call.name = "write" /\ call.c = task.fd /\ task.fd \in Handled /\ task.rest \in Seq(Cells)
      /\ Buffer(a) /\ task.fn = "write" /\ task.len = iobuff
      /\ n \in Nat /\ i \in Nat /\ n + i <= BufSize /\ w22n(a) = n /\ w22n(At(a, 2, 2)) = i
      /\ main \in CRuntimes /\ os \in Systems /\ got \in Holdings
  BY FFIKeeps, FileFacts DEF WriteTask
<1>2. /\ a \in Seq(Cells) /\ Len(a) >= 4 /\ n + i + 4 <= Len(a) /\ n <= Power[2] - 1 /\ n \in 0 .. Power[2] - 1
      /\ 4 + i \in Nat /\ (4 + i) + n <= Len(a)
  BY <1>1, FileConstants DEF Buffer
<1>3. v \in Seq(Cells) /\ Len(v) = n
  <2> HIDE DEF n, i
  <2> QED BY <1>1, <1>2, AtFacts
<1>4. Outcomes = {WriteAnswer(r) : r \in S}
  <2>1. WriteAnswers
    BY <1>1, <1>2, AskedFacts, AnswersHold DEF Answers
  <2> QED BY <1>1, <2>1 DEF WriteAnswers
<1>5. Promised = {F!Outcome(r) : r \in S}
  <2>1. Promised = F!ffiwrite(os, Asked, Length, At(a, 4 + w22n(At(a, 2, 2)), Length))
    BY <1>1 DEF Promised
  <2>2. Promised = F!ffiwrite(os, Target, n, v)
    BY <1>1, <2>1, AskedFacts, LengthFacts
  <2>3. SubSeq(v, 1, n) = v
    <3> HIDE DEF v, n
    <3> QED BY <1>3
  <2> HIDE DEF v
  <2> QED BY <2>2, <2>3 DEF F!ffiwrite
<1> HIDE DEF v
<1>6. \A r \in S : r.os \in Systems /\ (r.ret = -1 \/ r.ret \in 0 .. n)
  <2>1. \A r \in S : r.os \in Systems /\ (r.ret = -1 \/ r.ret \in 0 .. Len(v))
    BY <1>1, <1>3, WriteFileFacts
  <2> QED BY <1>3, <2>1
<1> HIDE DEF S
<1>7. PICK r \in S : /\ os' = r.os /\ end'.how = "return"
                     /\ a' = IF r.ret < 0 THEN Put(a, 0, <<1>>) ELSE CountPut(a, r.ret)
  <2>1. PICK q \in Outcomes : os' = q.os /\ a' = q.a /\ end' = [how |-> q.how, status |-> q.status]
    BY DEF FFI
  <2>2. PICK r \in S : q = WriteAnswer(r)
    BY <1>4, <2>1
  <2> QED BY <2>1, <2>2 DEF WriteAnswer, Back, CountPut
<1> DEFINE o == F!Outcome(r)
<1>8. o \in Promised
  BY <1>5, <1>7
<1>9. ASSUME a' \in Seq(Cells), Len(a') = Len(a), o.os = r.os, Says(a', o.reply),
             a'[1] # 1 => w22n(At(a', 1, 2)) \in 0 .. n
      PROVE  FileInv' /\ Promise
  <2> HIDE DEF o
  <2>1. WriteTask'
    BY <1>1, <1>9, FFIKeeps DEF WriteTask, Buffer, iobuff, Cells, Handled, w22n, At
  <2> QED BY <1>1, <1>6, <1>7, <1>8, <1>9, <2>1, FFIKeeps, FileFacts DEF Promise, FileInv, FileTask
<1>10. CASE r.ret = -1
  <2>1. a' = Put(a, 0, <<1>>) /\ o.os = r.os /\ o.reply = [code |-> 1, n |-> 0, data |-> <<>>]
    BY <1>7, <1>10 DEF F!Outcome, F!Reply
  <2>2. 1 \in Cells /\ Len(a) >= 1
    BY <1>2, BaseFacts DEF Cells
  <2>3. a' \in Seq(Cells) /\ Len(a') = Len(a) /\ a'[1] = 1
    BY <1>2, <2>1, <2>2, FlagPut
  <2>4. Says(a', o.reply)
    BY <1>1, <2>1, <2>3 DEF Says
  <2> HIDE DEF o
  <2> QED BY <1>9, <2>1, <2>3, <2>4
<1>11. CASE r.ret \in 0 .. n
  <2> DEFINE k == r.ret
             p == CountPut(a, k)
  <2>1. k \in Nat /\ ~(k < 0) /\ k <= n /\ k \in 0 .. Power[2] - 1
    BY <1>1, <1>2, <1>11, FileConstants
  <2>2. a' = p /\ o.os = r.os /\ o.reply = [code |-> 0, n |-> k, data |-> r.data]
    BY <1>7, <2>1 DEF F!Outcome, F!Reply
  <2> HIDE DEF k
  <2>3. Len(a) >= 3
    BY <1>2
  <2>4. p \in Seq(Cells) /\ Len(p) = Len(a) /\ p[1] = 0 /\ w22n(At(p, 1, 2)) = k
    BY <1>2, <2>1, <2>3, CountPutFacts
  <2> HIDE DEF p
  <2>5. Says(a', o.reply)
    BY <1>1, <2>2, <2>4 DEF Says
  <2>6. w22n(At(a', 1, 2)) \in 0 .. n
    BY <1>1, <2>1, <2>2, <2>4
  <2> HIDE DEF o
  <2> QED BY <1>9, <2>2, <2>4, <2>5, <2>6
<1> QED BY <1>6, <1>7, <1>10, <1>11

LEMMA FileFFIStep ==
  ASSUME FileInv, use = "files", FFI
  PROVE  FileInv' /\ Promise
BY FileFacts, FFIKeeps, OpenFFIStep, CloseFFIStep, ReadFFIStep, WriteFFIStep DEF FileTask

LEMMA FileUses ==
  ASSUME use = "files", Client
  PROVE  FilesNext \/ FFI
<1> USE DEF CanStart, Returned, Running
<1>1. CASE CommandLineNext
  BY <1>1 DEF CommandLineNext, cline, Counted, AskArg, TakeArg
<1>2. CASE DoublesNext
  BY <1>2 DEF DoublesNext, fromString, toString, fromInt, toInt, pow, function, AskDouble,
     ReadString, ReadText, ReadInt, ReadDouble
<1>3. CASE \E c \in Codes : exit(c)
  BY <1>3 DEF exit
<1> QED BY <1>1, <1>2, <1>3 DEF Client

LEMMA FilesStep ==
  ASSUME FileInv, use = "files", FilesNext
  PROVE  FileInv'
<1>1. \A stream \in got.streams : stream[2] \in Handled
  BY FileFacts DEF Holdings
<1>2. CASE \E name \in Names : openIn(name) \/ openOut(name)
  BY <1>2, OpenStep
<1>3. CASE \E stream \in got.streams :
             \/ close(stream[2])
             \/ \E n \in Lengths : read(stream[2], n)
             \/ \E s \in Strings : output(stream[2], s)
  BY <1>1, <1>3, CloseStep, ReadStep, OutputStep
<1>4. CASE Opened \/ Written \/ Done
  BY <1>4, OpenedStep, WrittenStep, DoneStep
<1> QED BY <1>2, <1>3, <1>4 DEF FilesNext

\* What files and descriptors there are when a program begins.
LEMMA UseFilesStep ==
  ASSUME Fresh, FileInv, UseFiles
  PROVE  FileInv'
<1>1. PICK there \in SUBSET Names, c \in [Names -> Contents] :
        os' = [os EXCEPT !.files = there,
                         !.inode_tbl = [ino \in DOMAIN @ |-> IF ino \in there THEN c[ino] ELSE @[ino]]]
  BY DEF UseFiles
<1>2. /\ use = "none" /\ main \in CRuntimes /\ a' = Zeros(iobuff) /\ got' = NoStreams
      /\ task' = task /\ call' = call /\ end' = end /\ main' = main /\ use' = "files"
  BY DEF UseFiles, Begin, start_vars, CRuntimes
<1>3. os \in Systems
  BY <1>2 DEF FileInv
<1> DEFINE tbl == [ino \in DOMAIN os.inode_tbl |-> IF ino \in there THEN c[ino] ELSE os.inode_tbl[ino]]
<1>4. tbl \in [Posix!Inodes -> Seq(Cells)]
  <2>1. os.inode_tbl \in [Posix!Inodes -> Seq(Cells)] /\ Contents \subseteq Seq(Cells)
    BY <1>3, SystemFacts, FilesAssumption DEF Cells
  <2> QED BY <2>1
<1>5. os' = [os EXCEPT !.files = there, !.inode_tbl = tbl]
  BY <1>1, <1>3 DEF Systems
<1> HIDE DEF tbl
<1>6. os' \in Systems
  BY <1>3, <1>4, <1>5 DEF Systems
<1>7. iobuff \in Nat
  BY FileConstants
<1>8. Buffer(Zeros(iobuff))
  BY <1>7, ZerosFacts DEF Buffer
<1>9. NoStreams \in Holdings
  BY DEF NoStreams, Holdings
<1> QED BY <1>2, <1>6, <1>8, <1>9 DEF FileInv, Fresh, Systems, Buffer, Holdings

LEMMA NextFileInv == OneUse /\ Fresh /\ FileInv /\ [Next]_vars => FileInv'
<1> SUFFICES ASSUME OneUse, Fresh, FileInv, [Next]_vars PROVE FileInv'
  OBVIOUS
<1>1. CASE UNCHANGED <<use, main, os, a, call, task, got, end>>
  BY <1>1 DEF FileInv, FileTask, OpenTask, CloseTask, ReadTask, WriteTask, Buffer, w22n, At
<1>2. CASE Start /\ UNCHANGED call_vars
  BY <1>1, <1>2 DEF call_vars, Start, ReadSizes, CheckSizes, Allocate, init_code, StartAg32, Goto
<1>3. CASE Use
  <2>1. CASE UseFiles
    BY <2>1, UseFilesStep
  <2>2. CASE UseDoubles \/ UseArguments \/ UseExit \/ UseDebug \/ UseHost
    BY <2>2 DEF UseDoubles, UseArguments, UseExit, UseDebug, UseHost, Begin, FileInv
  <2> QED BY <1>3, <2>1, <2>2 DEF Use
<1>4. CASE Client
  <2>1. CASE use = "files"
    BY <1>4, <2>1, FileUses, FilesStep, FileFFIStep
  <2>2. CASE use # "files"
    BY <1>4, <2>2, ClientUses DEF FileInv, NoFFI
  <2> QED BY <2>1, <2>2
<1>5. CASE HostNext
  BY <1>5 DEF HostNext, cml_main, cake_enter, cake_err3, cake_return, CallC, ReturnC, HostOnly, Top, FileInv
<1>6. CASE \E clen \in {0, 1} : EmptyFFI(clen)
  BY <1>1, <1>6 DEF EmptyFFI, call_vars, start_vars
<1> QED BY <1>1, <1>2, <1>3, <1>4, <1>5, <1>6 DEF Next, vars, call_vars, start_vars

LEMMA InitFileInv == Init => FileInv
<1> SUFFICES ASSUME Init PROVE FileInv
  OBVIOUS
<1>1. use = "none" /\ os = [files |-> {}, inode_tbl |-> [ino \in Posix!Inodes |-> <<>>], infds |-> Posix!StdFds]
  BY DEF Init, CallInit
<1> DEFINE tbl == [ino \in Posix!Inodes |-> <<>>]
<1>2. tbl \in [Posix!Inodes -> Seq(Cells)]
  OBVIOUS
<1>3. Posix!StdFds \in Tables
  <2>1. 0 .. 2 \subseteq Posix!FD
    BY FilesAssumption DEF Posix!FD
  <2>2. \A fd \in 0 .. 2 : Posix!StdFds[fd] \in Entries
    BY DEF Posix!StdFds, Entries, Posix!Inodes, Posix!Std
  <2>3. Posix!StdFds = [fd \in 0 .. 2 |-> Posix!StdFds[fd]]
    BY DEF Posix!StdFds
  <2>4. Posix!StdFds \in [0 .. 2 -> Entries]
    BY <2>2, <2>3
  <2> QED BY <2>1, <2>4 DEF Tables
<1> HIDE DEF tbl
<1>4. os = [files |-> {}, inode_tbl |-> tbl, infds |-> Posix!StdFds]
  BY <1>1 DEF tbl
<1>5. os \in Systems
  BY <1>2, <1>3, <1>4 DEF Systems
<1> QED BY <1>1, <1>5 DEF FileInv

\* Only the runtime ends a call of a program that uses files.
LEMMA OnlyFFI ==
  ASSUME [Next]_vars, use = "files", call.name # "none", call'.name = "none"
  PROVE  FFI
<1>1. CASE UNCHANGED call
  BY <1>1
<1>2. CASE Use
  BY <1>2 DEF Use, UseFiles, UseDoubles, UseArguments, UseExit, UseDebug, UseHost, Begin
<1>3. CASE Client
  <2>1. ~FilesNext
    BY DEF FilesNext, openIn, openOut, close, read, output, Operation, Opened, Written, Done,
       CanStart, Returned, Running
  <2> QED BY <1>3, <2>1, FileUses
<1>4. CASE HostNext
  BY <1>4 DEF HostNext, cml_main, cake_enter, cake_err3, cake_return, CallC, ReturnC, HostOnly, Top
<1>5. CASE \E clen \in {0, 1} : EmptyFFI(clen)
  BY <1>5 DEF EmptyFFI, call_vars
<1> QED BY <1>1, <1>2, <1>3, <1>4, <1>5 DEF Next, vars, call_vars

\* The file functions of every runtime do to the files what BasisFFI says, and
\* leave in the array what says so to the ML side.
THEOREM FilesCalled == Spec => FileCalls
<1>1. Init => OneUse /\ Fresh /\ FileInv
  BY InitOneUse, InitFileInv DEF Init, CallInit, Fresh, NoCall
<1>2. FileInv /\ [Next]_vars =>
        [use = "files" /\ call.name # "none" /\ call'.name = "none" =>
           \E o \in Promised : os' = o.os /\ Says(a', o.reply)]_call_vars
  BY OnlyFFI, FileFFIStep DEF Promise
<1> QED BY <1>1, <1>2, NextOneUse, NextFresh, NextFileInv, PTL DEF Spec, FileCalls

------------------------------------------------------------------------------
(***************************************************************************)
(* No call goes beyond what a runtime expects: the arrays of each use of   *)
(* it are in its own invariant; what is left is RuntimeProg.exit, and the  *)
(* programs that call no foreign function.                                 *)
(***************************************************************************)
ExitTask ==
  /\ task.fn = "exit" /\ task.len = 1 /\ a = <<task.code % Base>>
  /\ \/ call.name = "exit" /\ end.how = "return"
     \/ call.name = "none" /\ end.how = "exit" /\ end.status = task.code % Base
ExitInv ==
  use = "exit" =>
    /\ main \in CRuntimes
    /\ ExitTask \/ (task = Idle /\ call.name = "none" /\ end.how = "return")
QuietInv ==
  /\ use \in NoFFI \cup {"files", "doubles", "arguments", "exit"}
  /\ use \in NoFFI => task = Idle /\ end.how # "abort"
  /\ use = "debug" => end.how = "return"

LEMMA ExitOutcome ==
  ASSUME main \in CRuntimes, call.name = "exit", Len(a) = 1
  PROVE  Outcomes = {Exit(os, a, a[1])}
<1>1. CASE main = "basis"
  BY <1>1 DEF Outcomes, Basis!Call, Basis!ffiexit, Basis!Assert, Basis!Exit, Exit
<1>2. CASE main = "ag32"
  BY <1>2 DEF Outcomes, Ag32!Call, Ag32!ffiexit, Ag32!cml_exit, Ag32!Exit, Exit
<1>3. CASE main = "pancake"
  BY <1>3 DEF Outcomes, Pancake!Call, Pancake!ffiexit, Pancake!Assert, Pancake!Exit, Exit
<1> QED BY <1>1, <1>2, <1>3 DEF CRuntimes

LEMMA ExitStep ==
  ASSUME ExitInv, use = "exit", NEW i \in Codes, exit(i)
  PROVE  ExitInv'
<1> DEFINE t == [fn |-> "exit", code |-> i]
           q == <<ByteOf(i, 0)>>
<1>1. Ask(t, "exit", <<>>, q) /\ task.fn = "idle" /\ end.how = "return"
  BY DEF exit, CanStart, Running
<1>2. ByteOf(i, 0) = i % Base
  <2>1. i \div Power[0] = i
    BY Powers, CodeAssumption
  <2> QED BY <2>1 DEF ByteOf
<1>3. q = <<i % Base>> /\ Len(q) = 1
  BY <1>2
<1>4. DOMAIN t = {"fn", "code"} /\ t["fn"] = "exit" /\ t["code"] = i
  OBVIOUS
<1> HIDE DEF t, q
<1>5. /\ task'["fn"] = "exit" /\ task'["code"] = i /\ task'.len = Len(q) /\ call'.name = "exit" /\ a' = q
      /\ use' = use /\ end' = end /\ main' = main
  BY <1>1, <1>4, AskFacts
<1>6. ExitTask'
  BY <1>1, <1>3, <1>5 DEF ExitTask
<1> QED BY <1>5, <1>6 DEF ExitInv

LEMMA ExitFFIStep ==
  ASSUME ExitInv, use = "exit", FFI
  PROVE  ExitInv'
<1>1. ExitTask /\ call.name = "exit" /\ main \in CRuntimes
  BY FFIKeeps DEF ExitInv, ExitTask
<1>2. a = <<task.code % Base>> /\ Len(a) = 1 /\ a[1] = task.code % Base
  BY <1>1 DEF ExitTask
<1>3. Outcomes = {Exit(os, a, a[1])}
  BY <1>1, <1>2, ExitOutcome
<1>4. PICK r \in Outcomes : os' = r.os /\ a' = r.a /\ end' = [how |-> r.how, status |-> r.status]
  BY DEF FFI
<1>5. a' = a /\ end'.how = "exit" /\ end'.status = task.code % Base
  BY <1>2, <1>3, <1>4 DEF Exit
<1>6. ExitTask'
  BY <1>1, <1>5, FFIKeeps DEF ExitTask
<1> QED BY <1>1, <1>6, FFIKeeps DEF ExitInv

LEMMA ExitUses ==
  ASSUME use = "exit", Client
  PROVE  (\E i \in Codes : exit(i)) \/ FFI
<1> USE DEF CanStart, Returned, Running
<1>1. CASE FilesNext
  BY <1>1 DEF FilesNext, openIn, openOut, close, read, output, Operation, Opened, Written, Done
<1>2. CASE CommandLineNext
  BY <1>2 DEF CommandLineNext, cline, Counted, AskArg, TakeArg
<1>3. CASE DoublesNext
  BY <1>3 DEF DoublesNext, fromString, toString, fromInt, toInt, pow, function, AskDouble,
     ReadString, ReadText, ReadInt, ReadDouble
<1> QED BY <1>1, <1>2, <1>3 DEF Client

LEMMA NextExitInv == Fresh /\ ExitInv /\ [Next]_vars => ExitInv'
<1> SUFFICES ASSUME Fresh, ExitInv, [Next]_vars PROVE ExitInv'
  OBVIOUS
<1>1. CASE UNCHANGED <<use, main, a, call, task, end>>
  BY <1>1 DEF ExitInv, ExitTask
<1>2. CASE Start /\ UNCHANGED call_vars
  BY <1>1, <1>2 DEF call_vars, Start, ReadSizes, CheckSizes, Allocate, init_code, StartAg32, Goto
<1>3. CASE Use
  <2>1. CASE UseExit
    BY <2>1 DEF UseExit, Begin, start_vars, CRuntimes, Fresh, ExitInv
  <2>2. CASE UseFiles \/ UseDoubles \/ UseArguments \/ UseDebug \/ UseHost
    BY <2>2 DEF UseFiles, UseDoubles, UseArguments, UseDebug, UseHost, Begin, ExitInv
  <2> QED BY <1>3, <2>1, <2>2 DEF Use
<1>4. CASE Client
  <2>1. CASE use = "exit"
    BY <1>4, <2>1, ExitUses, ExitStep, ExitFFIStep
  <2>2. CASE use # "exit"
    BY <1>4, <2>2, ClientUse DEF ExitInv
  <2> QED BY <2>1, <2>2
<1>5. CASE HostNext
  BY <1>5 DEF HostNext, cml_main, cake_enter, cake_err3, cake_return, CallC, ReturnC, HostOnly, Top, ExitInv
<1>6. CASE \E clen \in {0, 1} : EmptyFFI(clen)
  BY <1>1, <1>6 DEF EmptyFFI, call_vars, start_vars
<1> QED BY <1>1, <1>2, <1>3, <1>4, <1>5, <1>6 DEF Next, vars, call_vars, start_vars

LEMMA NextQuietInv == OneUse /\ Fresh /\ QuietInv /\ [Next]_vars => QuietInv'
<1> SUFFICES ASSUME OneUse, Fresh, QuietInv, [Next]_vars PROVE QuietInv'
  OBVIOUS
<1>1. CASE UNCHANGED <<use, task, end>>
  BY <1>1 DEF QuietInv
<1>2. CASE Use
  BY <1>2 DEF Use, UseFiles, UseDoubles, UseArguments, UseExit, UseDebug, UseHost, Begin, Fresh, QuietInv, NoFFI
<1>3. CASE Client
  BY <1>3, ClientUses DEF QuietInv, NoFFI
<1>4. CASE HostNext
  <2>1. CASE cake_err3
    <3>1. PICK r \in Basis!cml_err(os, a, 3) : end' = [how |-> r.how, status |-> r.status]
      BY <2>1 DEF cake_err3
    <3>2. r.how = "exit"
      BY <3>1 DEF Basis!cml_err, Basis!cml_exit, Basis!Exit
    <3>3. use = "host" /\ use' = use /\ task' = task /\ end'.how = "exit"
      BY <2>1, <3>1, <3>2 DEF cake_err3, Top
    <3> QED BY <3>3 DEF QuietInv
  <2>2. CASE cml_main \/ cake_enter \/ cake_return \/ CallC \/ ReturnC
    BY <1>1, <2>2 DEF cml_main, cake_enter, cake_return, CallC, ReturnC, HostOnly
  <2> QED BY <1>4, <2>1, <2>2 DEF HostNext
<1>5. CASE \E clen \in {0, 1} : EmptyFFI(clen)
  BY <1>1, <1>5 DEF EmptyFFI, call_vars
<1> QED BY <1>1, <1>2, <1>3, <1>4, <1>5 DEF Next, vars, call_vars

\* A file function's array is as long as it was, and the process goes on.
LEMMA FileFit ==
  ASSUME FileInv, use = "files"
  PROVE  end.how = "return" /\ (task # Idle => Len(a) = task.len)
BY FileFacts DEF FileTask, OpenTask, CloseTask, ReadTask, WriteTask, Buffer

LEMMA Fit ==
  ASSUME Fresh, ArgInv, DoubleInv, FileInv, ExitInv, QuietInv
  PROVE  CallsFit
<1>1. CASE use = "files"
  BY <1>1, FileFit DEF CallsFit
<1>2. CASE use = "doubles"
  <2>1. CASE task = Idle
    BY <1>2, <2>1 DEF DoubleInv, DoubleTask, StringTask, TextTask, Idle, CallsFit
  <2>2. CASE task # Idle
    <3>1. DoubleTask /\ Kept(a)
      BY <1>2, <2>2 DEF DoubleInv
    <3>2. Len(a) = task.len
      BY <3>1 DEF DoubleTask, Kept
    <3>3. end.how # "exit" /\ (end.how = "abort" => main = "pancake" /\ task.fn = "fromString")
      BY <3>1 DEF DoubleTask, StringTask, TextTask
    <3> QED BY <3>2, <3>3 DEF CallsFit
  <2> QED BY <2>1, <2>2
<1>3. CASE use = "arguments"
  BY <1>3 DEF ArgInv, Asking, CallsFit
<1>4. CASE use = "exit"
  <2>1. CASE ExitTask
    <3>1. Len(a) = task.len
      BY <2>1 DEF ExitTask
    <3> QED BY <2>1, <3>1 DEF ExitTask, CallsFit
  <2>2. CASE task = Idle /\ end.how = "return"
    BY <2>2 DEF CallsFit
  <2> QED BY <1>4, <2>1, <2>2 DEF ExitInv
<1>5. CASE use \in NoFFI
  BY <1>5 DEF QuietInv, Fresh, NoFFI, CallsFit
<1> QED BY <1>1, <1>2, <1>3, <1>4, <1>5 DEF QuietInv

\* No assertion of a runtime fails but the one of Pancake on the array of the
\* Double module, no call writes outside its array, and a process ends with
\* the byte of the code, and only when asked to.
THEOREM CallsAreFit == Spec => []CallsFit
<1>1. Init => OneUse /\ Fresh /\ ArgInv /\ DoubleInv /\ FileInv /\ ExitInv /\ QuietInv
  BY InitOneUse, InitFileInv DEF Init, CallInit, Fresh, NoCall, ArgInv, DoubleInv, ExitInv, QuietInv, NoFFI
<1> QED
  BY <1>1, Fit, NextOneUse, NextFresh, NextArgInv, NextDoubleInv, NextFileInv, NextExitInv, NextQuietInv, PTL DEF Spec
==============================================================================
