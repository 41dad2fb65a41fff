------------------------------- MODULE Startup -------------------------------
(***************************************************************************)
(* From main to the first ML instruction: the C runtime sizes and          *)
(* allocates one block for heap and stack (basis_ffi.c, the runtime of     *)
(* Pancake, and yes_ffi.c without environment variables), and init_code of *)
(* stack_remove cuts it into two semispaces, the store array and the       *)
(* stack.  The ag32 runtime has no main: its start is not in C.            *)
(*                                                                         *)
(* All arithmetic is that of the machine word; a size in megabytes that    *)
(* the user asks for may wrap around, and so may the sum of two sizes.     *)
(***************************************************************************)
EXTENDS Integers

CONSTANTS
  W,             \* dimword
  B,             \* bytes in a word
  Unit,          \* sz: bytes in a megabyte
  DefaultUnits,  \* sizes compiled in: 1024
  EnvUnits,      \* what strtoul may make of an environment variable
  MinTotal,      \* 8192
  MaxStackAlloc, \* 255
  StoreLength,   \* words of the store array, store_length
  MaxHeap,       \* the most words of heap this code can address
  Mains          \* the runtimes: of basis, yes_ffi.c, Pancake, ag32

ASSUME StartAssumption ==
  /\ B \in Nat \ {0} /\ W \in Nat /\ W % (2 * B) = 0
  /\ Unit \in 1 .. W - 1 /\ DefaultUnits \subseteq Nat
  /\ EnvUnits \subseteq 0 .. W - 1
  /\ MaxStackAlloc \in Nat /\ MaxHeap \in Nat
  /\ StoreLength \in 0 .. MaxStackAlloc - 2
  /\ Unit % B = 0 /\ MinTotal \in Nat /\ MinTotal > (2 * MaxStackAlloc + 2) * B
  /\ Mains \subseteq {"basis", "yes", "pancake", "ag32"}

VARIABLES
  main,        \* the main function the program is linked with
  pc,          \* where main, then init_code, is; "ml" when ML code starts
  heap_sz, stack_sz,
  block,       \* what malloc returned: first address, bytes
  regs,        \* registers 2, 3 and 4: cml_heap, cml_stack, cml_stackend
  ml           \* CurrHeap, OtherHeap, HeapLength, base and top of the stack

start_vars == <<main, pc, heap_sz, stack_sz, block, regs, ml>>

NoLayout == [CurrHeap |-> 0, OtherHeap |-> 0, HeapLength |-> 0, base |-> 0, top |-> 0]

Add(x, y) == (x + y) % W
Sub(x, y) == (x - y) % W
Units(n) == (n * Unit) % W
Total == Add(heap_sz, stack_sz)
Goto(l) == pc' = l /\ UNCHANGED <<main, heap_sz, stack_sz, block, regs, ml>>

StartInit ==
  /\ main \in Mains
  /\ pc = "main"
  /\ heap_sz = 0 /\ stack_sz = 0
  /\ block = [first |-> 0, len |-> 0]
  /\ regs = [r2 |-> 0, r3 |-> 0, r4 |-> 0]
  /\ ml = NoLayout

\* The sizes each main may begin with: those compiled in, or those of
\* CML_HEAP_SIZE and CML_STACK_SIZE if they are set and it looks at them.
Compiled == {Units(n) : n \in DefaultUnits}
basis_sizes == Compiled \cup {Units(n) : n \in EnvUnits}
pancake_sizes == Compiled \cup {Units(n) : n \in EnvUnits}
yes_sizes == Compiled

\* When it ends at once: at least a megabyte each, and a global minimum;
\* yes_ffi.c has no environment to distrust, but compares the sum with one part.
basis_refuses == heap_sz < Unit \/ stack_sz < Unit \/ Total < MinTotal
pancake_refuses == heap_sz < Unit \/ stack_sz < Unit \/ Total < MinTotal
yes_refuses_no_wrap == Total < MinTotal
yes_refuses == Total < heap_sz \/ Total < MinTotal

ReadSizes ==
  /\ pc = "main" /\ main # "ag32"
  /\ LET sizes == CASE main = "basis" -> basis_sizes
                    [] main = "pancake" -> pancake_sizes
                    [] main = "yes" -> yes_sizes
     IN  heap_sz' \in sizes /\ stack_sz' \in sizes
  /\ pc' = "check"
  /\ UNCHANGED <<main, block, regs, ml>>

CheckSizes ==
  /\ pc = "check"
  /\ IF \/ main = "basis" /\ basis_refuses
        \/ main = "pancake" /\ pancake_refuses
        \/ main = "yes" /\ yes_refuses
     THEN Goto("exit") ELSE Goto("malloc")

\* What starts a program on ag32.
StartAg32 == pc = "main" /\ main = "ag32" /\ Goto("ml")

\* One block for heap and stack, which come one after the other.
Blocks(first) == [r2 |-> first, r3 |-> Add(first, heap_sz),
                  r4 |-> Add(Add(first, heap_sz), stack_sz)]

\* A block of Total bytes that ends below the last address, or none.
Allocate ==
  /\ pc = "malloc"
  /\ \/ Goto("exit")
     \/ \E first \in 1 .. W - 1 :
          /\ first % B = 0 /\ first + Total < W
          /\ block' = [first |-> first, len |-> Total]
          /\ regs' = Blocks(first)
          /\ pc' = "init"
          /\ UNCHANGED <<main, heap_sz, stack_sz, ml>>

\* right_shift_inst by n words, then left_shift_inst: down to a multiple.
DownTo(x, m) == x - (x % m)

\* reg3 is kept if it leaves room on both sides, else it is put in the middle.
Split ==
  LET low    == Add(regs.r2, MaxStackAlloc * B)
      high   == Sub(regs.r4, MaxStackAlloc * B)
      middle == Add(regs.r2, DownTo(Sub(regs.r4, regs.r2), 2 * B) \div 2)
  IN  IF regs.r3 < low \/ high < regs.r3 THEN middle ELSE regs.r3

\* max_heap, or all ones when that many bytes are not a word.
MaxHeapBytes == IF MaxHeap * B < W THEN MaxHeap * B ELSE W - 1

\* The heap cut down to what the code can address.
LimitHeap(r3) ==
  IF MaxHeapBytes < Sub(r3, regs.r2) THEN Add(regs.r2, MaxHeapBytes) ELSE r3

\* The shift for an even number of words left out.
SemispacesOdd(r3) == Sub(r3, regs.r2)

\* An even number of words of heap.
Semispaces(r3) == DownTo(Sub(r3, regs.r2), 2 * B)

init_code ==
  /\ pc = "init"
  /\ LET size == Semispaces(LimitHeap(Split))
         r3   == Add(regs.r2, size)
     IN  ml' = [CurrHeap |-> regs.r2, OtherHeap |-> Add(regs.r2, size \div 2),
                HeapLength |-> size \div 2,
                base |-> Add(r3, StoreLength * B),  \* past the store array
                top |-> Sub(regs.r4, B)]            \* a 0 is pushed
  /\ pc' = "ml"
  /\ UNCHANGED <<main, heap_sz, stack_sz, block, regs>>

Start == ReadSizes \/ CheckSizes \/ Allocate \/ init_code \/ StartAg32

------------------------------------------------------------------------------
\* basis_ffi.c: "CakeML and its default assembly wrapper expects the following
\* memory layout": heap and stack of the sizes asked for, one after the other.
ExpectedLayout ==
  /\ regs.r2 + heap_sz = regs.r3
  /\ regs.r3 + stack_sz = regs.r4

\* ML code starts with two aligned semispaces of one length, the store array
\* and a stack, one after the other inside the block that was allocated, and
\* with no more heap than pointers can encode, whatever was asked for.  The
\* main function that compares the sum with one part lets no sum through that
\* has wrapped, so its programs do get the layout they expect.
LayoutSafe ==
  /\ pc = "ml" /\ main # "ag32" =>
       /\ ml.CurrHeap = block.first
       /\ ml.OtherHeap = ml.CurrHeap + ml.HeapLength
       /\ ml.OtherHeap + ml.HeapLength + StoreLength * B <= ml.base
       /\ ml.base < ml.top
       /\ ml.top + B = block.first + block.len
       /\ \A f \in {"CurrHeap", "OtherHeap", "HeapLength", "base", "top"} : ml[f] % B = 0
       /\ 2 * ml.HeapLength <= MaxHeap * B
  /\ pc = "init" /\ main = "yes" => ExpectedLayout
=============================================================================
