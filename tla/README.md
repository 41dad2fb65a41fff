# CakeML in TLA+

A verification project for the CakeML compiler and its runtime. CakeML is an
ML compiler written and proved correct in the HOL theorem prover, with a C
runtime (`src/basis/basis_ffi.c`) that is not part of that proof. The project
takes up the parts that change state over time and whose correctness is a
matter of order: memory and its collectors, input and output, interrupts, the
start and end of a program, the protocols between ML and C, timed automata on a
clock that runs out, and two algorithms of the backend that work by small steps:
the parallel move and the lengths of jumps.

HOL sources (`*Script.sml`) are read as code: the functions in them are what the
compiler runs (it is extracted from them), and the programs quoted in them (the
basis library, the `*_code` definitions) are what ends up in a binary.

Contents: [inventory](#inventory), [modules](#modules-and-their-code),
[runs](#runs), [fairness](#fairness), [what is proved](#what-is-proved),
[what the code and its descriptions disagree about](#disagreements),
[what is not modelled](#what-is-not-modelled), [plan](#plan).

## Inventory

### Parts of the system

| part | where | state | operations |
|---|---|---|---|
| heap registers | `data_to_wordScript.sml`, `stack_allocScript.sml`, `stack_removeScript.sml` | NextFree, TriggerGC, EndOfHeap, GenStart, AllocSize | MakeSpace, AllocVar and its seven users, the bumps of Cons and Ref, the collector stub for three collectors |
| collectors | `gc/*.sml`, `proofs/word_gcFunctionsScript.sml` | two heaps, root list, scan pointers | gc_move, and the scans built on it; minor and major collection |
| store of dataLang | `semantics/dataSemScript.sml` | variables, references, what is live | the abstract view of the two parts above |
| file functions | `basis_ffi.c` | descriptors and files of the operating system | open_in, open_out, read, write, close |
| logical file system | `fsFFIScript.sml` | files, inode table, descriptors, stream of counts | the same calls, as the proofs of programs assume them |
| TextIO, unbuffered | `TextIOProgScript.sml` | one shared byte array `iobuff` | open, close, output, input, copy: loops around calls |
| TextIO, buffered input | `TextIOProgScript.sml` | a byte array and two indices per stream | b_input, b_input1, b_peekChar, b_inputLine, b_closeIn |
| interrupts | `basis_ffi.c`, `repl/repl_moduleProgScript.sml` | the flag, the reply byte, count and freq | the signal handler, poll_sigint, poll, check |
| tracing and exit | `basis_ffi.c`, SilentFFI in `data_to_wordScript.sml` | counters of collections and bytes | the empty foreign function, debugMsg, cml_exit, exit |
| start of a program | `basis_ffi.c` and its variants' main, `init_code` | sizes, the block, three registers, the layout | read the environment, check, allocate, divide |
| marshalling, command line | `basis_ffi.c`, `MarshallingScript.sml`, `CommandLineProgScript.sml` | two byte arrays, an index | numbers in two and eight bytes; get_arg_count, get_arg_length, get_arg |
| doubles | `basis_ffi.c`, `DoubleProgScript.sml` | one shared array of 256 bytes | fromString, toString, fromInt, toInt, pow, ln, exp, floor |
| copies of the runtime | `compiler/bootstrap/compilation/ag32/32/basis_ffi.c`, `pancake/temp/basis_ffi.c` | as `basis_ffi.c` | the same functions, with older checks, codes and protocols |
| programs as libraries | `x64/export_x64Script.sml`, `cml_err` | the flag can_enter, the C stack | cml_main, cake_enter, cake_return, calls back and forth |
| parallel moves | `parmoveScript.sml`, `word_to_stackScript.sml` | three lists of moves; then registers and frame | the six results of fstep; the four kinds of wMoveSingle |
| `lab_to_target` | `lab_to_targetScript.sml` | encoded lengths and offsets, label positions | the passes of remove_labels |
| timed automata | `time_to_panScript.sml`, `timeFunSemScript.sml`, `get_time_input` | clocks, wake-up time, location, the runtime's clock | polling, calling a location, resetting clocks, panic |
| register allocator | `reg_allocScript.sml` | worklists and degrees | not modelled |
| parser, inference, middle passes, encoders | the rest of `src/compiler` | none between calls | pure functions |
| REPL, Candle kernel, Pancake's passes, translator | `src/compiler/repl`, `src/candle`, `src/pancake`, `src/translator` | see `PROJECT.json` | not modelled |

### How they interact

    ML program ── MakeSpace / AllocVar ──> heap registers ── no room ──> collector stub ──> collector
        │                                       ▲                                             │
        │                                       └────────── registers, roots rewritten ───────┘
        ├── TextIO loops ── #(call) with bytes in iobuff ──> basis_ffi.c ──> operating system
        ├── Interrupt.poll ── every freq calls ──> poll_sigint <── flag ── signal handler
        ├── CommandLine.cline ── two-byte questions and answers ──> basis_ffi.c
        └── Double.* ── numbers and text in one shared array ──> basis_ffi.c ──> C library
    host (C) ── cml_main, cake_enter ──> ML program ── #(call) ──> host (C) ── cake_enter ──> refused
    main (C) ── block, three addresses ──> init_code ── semispaces, stack ──> ML program
    compiler: Move ── parmove ──> ordered moves ── wMove ──> moves, loads and stores
    compiler: labels ── remove_labels ──> offsets and lengths that agree
    compiler: automaton ── time_to_pan ──> polling loop ── get_time_input ──> clock, inputs

Calls are synchronous. The only thing that runs at any moment is the signal
handler; what looks like concurrency elsewhere is interleaving inside one
thread: a collection between two steps of a program, a retry after a short
write, a refill between two reads of one buffer.

### What is hard, and what makes each part correct

- **Heap registers.** The emitted code trusts its grant: after MakeSpace it
  writes without looking. Correct when the words are there (*GrantFits*), after a
  minor collection too, where nothing checks it; when the program stops only if the
  request does not fit (*HaltOnlyWhenFull*), which the space-cost results rest
  on; and when list append, which throws away its work, collects and tries again,
  does so at most once (*AppendOnce*), so that it ends (*OperationEnds*).
- **Collectors.** In the middle of a collection half of the pointers lead to the
  old heap and half to the new; both scans make work for each other. Correct when
  the program cannot tell that it ran (*ImplementsStore*), when its
  own checks never fail, as the emitted code leaves them out (*CollectorOk*), and
  when it ends (*CollectionEnds*).
- **File functions and TextIO.** read and write may bring or take less than
  asked. Correct when each call is one the logical file system makes
  (*ImplementsFsFFI*) and when the loops hide all of it from their caller
  (*ImplementsStreams*, *OperationsReturn*).
- **Buffered input.** Two indices and a file position move at different times.
  Correct when the buffer cannot be told from the file (*ImplementsStream*).
- **Interrupts.** Correct when a signal that is seen is answered once
  (*NoSpuriousInterrupt*, *FlagAnswered*), and polling is never put off
  (*CheckedInTime*).
- **Tracing.** The runtime built for debugging is told nothing but a number before
  and after each collection, and takes differences. Correct when they add up to what
  the program allocated, for as long as the program itself calls that function with no empty message
  (*AllocationCounted*).
- **Start.** Sizes come from the environment and their arithmetic wraps. Correct
  when ML code starts inside the block with sound semispaces and stack, or not
  at all (*LayoutSafe*).
- **Command line.** A question is written over the array the answer
  comes back in. Correct when the list is the argument vector (*ArgumentsExact*).
- **File functions, byte by byte.** Descriptors travel in eight bytes, counts in two,
  arguments, replies and data in the same array, and three runtimes that are copies of one
  another must agree. Correct when each call is, to ML, the call TextIO is built on
  (*FileCalls*), and asks for nothing a runtime refuses or writes outside (*CallsFit*).
- **Doubles.** An array that is never cleared carries numbers, a text, a flag. Correct
  when each result is that of its argument alone (*DoublesExact*).
- **Entry.** A host may call ML code that calls the host. Correct when ML code is active
  at most once and can be entered again afterwards (*EntryExclusive*).
- **Parallel moves.** Correct when moves one after the other do what they were to
  do at once (*MeaningKept*, *MovedAtOnce*), with a single temporary and without
  it meeting the other scratch register.
- **Jump lengths.** Lengths depend on positions and positions on lengths, and alignment
  moves labels after lengths are settled. Correct when the iteration gives up only if jumps
  grew more often than its clock allows (*ClockSpent*), the last encoding changes no length (*FinalDone*) and
  every offset is the distance in the bytes that are written (*OffsetsExact*).
- **Timed automata.** The loop waits for equality of two words. Correct when no reading passes a
  wake-up by (*NeverMissed*, *WakesUp*) and every step is one of the automaton's
  (*ImplementsTimeSem*).

## Modules and their code

Mapping in detail, definition by definition, in `PROJECT.json` under `map`.
Operators whose comment begins with "Mutant" or that are named for a mistake
(`PopAlways`, `ffiwrite_start`, ...) are wrong versions of the definition after them:
replacing the definition by one of them makes the property named in
`PROJECT.json` fail. Nothing uses them otherwise.

**HeapSpace** (`MCHeapSpace`, `HeapSpaceProofs`). The registers as byte offsets
from CurrHeap, the arithmetic that of the machine word. One action for each
sequence data_to_word emits: `MakeSpace` and `AllocVar` (the comparison and the
clamp of requests that do not fit a word), `Cons`, `Ref`, `FromList`, `RefByte`,
`ConsExtend`, `RefArray`, `AnyArith` and `ListAppend` (the bumps), and one for
each branch of word_gc_code: `GcNone`, `GcSimple`, `GcPartial`, `GcFull`, with
`NewTrigger` and `CanDoPartial` between them. What is alive is any amount not more
than what was allocated; GenHeap makes it precise. `gc_kind` is chosen at the
start and stays.

**GcTrace** (`MCHeapSpace`, `HeapSpaceProofs`). HeapSpace's program compiled with
call_empty_ffi, with the debugging runtime's counters: each step of HeapSpace that
enters or leaves the collector makes the call of `ffi` that SilentFFI emits there. A
step into `halt` is cml_exit(1); a program may also end by itself, for want of
stack, or by Runtime.exit, which does not report the counters. `data` is a history
variable. `debugMsg` calls the same function; an empty message is to it what a collection's call is,
and `empty` counts those (see [disagreements](#disagreements)).

**GenHeap** (`GenHeapRefinement`, `GenHeapProofs`, `MCGenHeap`). The same registers, and a heap of
elements in words. A collection is one step per pointer: `MoveRoot`,
`MoveRefField`, `MoveDataField` call `gc_move`, which leaves a pointer alone
(a word; outside the young part in a minor collection), follows a forward
pointer, or copies the element and leaves a forward pointer. The rest of the
actions are the scans' bookkeeping (`NextRef`, `RefsDone`, `NextData`, `DataDone`,
`LoopRefs`, `LoopEnd`) and `Finish`, which writes the registers. The minor
collection treats every reference as a root; the simple collector is the same
machine with everything on the left. The program between collections allocates,
reads, updates and drops.
Two deliberate abstractions: what a minor collection leaves alone (the old data
and the references) is copied into the new heap when it starts, where the
code copies the young part back at its end; and the words of the emitted
assembly (`word_gc_code`) are those of its functional version (`word_gc_fun`).

**MLStore**. What dataLang promises: objects with identities, and no
addresses, no collections. A request is granted at once or the program waits for it
(`asked`); it stops only while it waits, and only when its live objects and that very
request exceed the limit. `GenHeapRefinement` maps GenHeap to it: an object is its
identity, wherever it is and however often it has moved, and the request it waits for is in
AllocSize; the middle of a collection is a stutter, its end grants or refuses.

**Posix**, **BasisFFI**, **FsFFI**, **TextIO**, **TextStreams**, **TextIOProps**
(`MCTextIO`). Posix is the operating system: the set of outcomes of each call, any count
from one to what was asked, an error on a bad descriptor or when there is none left.
BasisFFI has the C functions on top of it, with replies as records. TextIO has the ML loops as actions around
them; `ml` is the loop in progress with its continuation, `iobuff` the array all of TextIO
shares. FsFFI is the logical file system, in which each call is one step with its
reply. TextStreams is what a caller sees: one step per operation. TextIOProps
instantiates both under refinement mappings; for TextStreams an output in
progress counts as done and an input in progress as not begun.

**BufferedIO**, **ByteStream** (`MCBufferedIO`, `BufferedIOProofs`). The buffer with its
indices, one action per read call or per stretch of ML code between two of them. Closing a second
time raises InvalidFD: the descriptor number is not given to another file here.
ByteStream is a stream without a buffer. The mapping puts together what the
operation has in hand, what is buffered, and what is left of the file.

**Interrupt** (`InterruptProofs`). The handler may run between any two steps;
poll_sigint's read and its clearing of the flag are two steps.

**Program** (`MCProgram`, `ProgramProofs`): programs from main to exit, in eight modules.

- **Startup**: main's arithmetic on sizes and init_code's on addresses, modulo the
  word. `Mains`: `"basis"` and `"pancake"` read the environment, `"yes"`
  (`examples/cost/yes_ffi.c`) has constants and checks the sum, `"ag32"` has no main in C.
- **Marshal**: byte arrays, and ML's numbers as bytes of `Base` values; a C int has four.
- **BasisRuntime**, **Ag32Runtime**, **PancakeRuntime**: the functions of the three C
  files on the bytes they are given. A write past the end of an array makes it longer,
  which `CallsFit` notices. An assertion that fails ends the process.
- **Calls**: ML code asks (`Ask`), the runtime answers (`FFI`), and the ML function goes on.
- **CommandLine**, **ByteFiles**, **DoubleCalls**: the ML sides, each with the array its
  module keeps between calls. ByteFiles is TextIO's protocol with a runtime; what TextIO's
  loops achieve is the subject of TextIO, whose runtime BasisFFI is. `FileCalls` is the
  link between the two: each runtime's call is a call of BasisFFI.
- **HostEntry**: the C stack of a program used as a library, and the flag of the export.
- Program itself calls the copies of the tracing function, `EmptyFFI`, with any length; unlike the one in GcTrace
  they count collections only, and nothing is claimed of them but that they touch nothing else.

**ParMove** (`MCParMove`, `ParMoveProofs`). The three lists of parmove, one action
per result of fstep; then the list it returns run as the instructions wMove
makes of it, on registers and a stack frame.

**JumpLengths** (`MCJumpLengths`, `JumpLengthsProofs`). remove_labels line by line: each
pass is a scan with a position. An encoder is how long it makes a jump for each offset: a base
length and three windows around 0, which has every encoder of the repository as an instance.
`fixed` jumps go to foreign functions and the runtime's stubs, before the code. What
`labs` has from earlier compilations is before the code too. Calls, and jumps to sections that do not
exist, have `ok` FALSE: they are encoded like the others and then refused (`AllOk`). `Nops` is the
padding that `pad_code` appends, a whole Skip for each padded label.

**TimeToPan** (`TimeSem`, `MCTimeToPan`, `TimeToPanProofs`). The program that time_to_pan makes: a
reading of the clock, a test of the loop, a call of a location's function. Its
variables are the Pancake locals. TimeSem is eval_step of `timeFunSemScript.sml`, a partial
function: where it has no value it allows anything with the right kind of label, and from the
last but one instant on, where eval_steps stops, anything (`TimeOver`: the controller looks at the clock
between the outputs of that instant, so time may pass where an output is due; the automaton of
the check that never waits does this). As in the repository's theorem its bound `m` is one less than
the number of words. The mapping takes a clock to the time since its reset and the
wake-up to the time left.

Which composes which: `TextIOProps` EXTENDS `TextIO` EXTENDS `BasisFFI` and
instantiates `FsFFI` and `TextStreams`; `GenHeapRefinement` EXTENDS `GenHeap` and
instantiates `MLStore` and `HeapSpace`; `BufferedIO` instantiates `ByteStream`;
`Program` EXTENDS `CommandLine`, `ByteFiles`, `DoubleCalls` and `HostEntry`, which all
EXTEND `Calls`, which EXTENDS `Startup` and `Marshal` and instantiates the three runtimes,
and these `Posix`; `ByteFiles` instantiates `BasisFFI`, which EXTENDS `Posix`;
`TimeToPan` instantiates `TimeSem`; `GcTrace` EXTENDS `HeapSpace`.

## Runs

Every run covers all reachable states of its instance. Times are for two workers.

| run | question | states | time |
|---|---|---|---|
| Space | registers: safe under each collector, operations end; the runtime's counters | 550 thousand | 100 s |
| HeapGen | generational collector: well-formedness, its own checks, no garbage; refines HeapSpace | 820 thousand | 55 s |
| HeapStore | both copying collectors refine MLStore, and end | 360 thousand | 95 s |
| TextIOModel | C functions refine FsFFI, TextIO refines TextStreams, operations return | 360 thousand | 75 s |
| TextIOReopen | *violated*: writing after a second open for output | - | 3 s |
| Buffered | buffered input refines ByteStream, operations return | 7.8 thousand | seconds |
| Interrupt | polling and answering | 720 | seconds |
| InterruptLost | *violated*: no signal is forgotten | - | 1 s |
| Program | start, files, arguments, doubles, exit and entry on three runtimes | 340 thousand | 40 s |
| ParMove | ordering and instructions | 93 thousand | 7 s |
| Timed | compiled automata refine their semantics and wake in time | 46 thousand | 11 s |
| JumpLengths | jump lengths settle unless a chain of jumps outlasts the clock; offsets are right | 880 thousand | 13 s |

Properties are stated, with what they mean, at the end of the module (or in its
`Props` / `Refinement` module). Bounds, and why they suffice:

- **Space.** Six words of two bytes on a machine whose largest word is 17: a
  heap small enough to be full after two requests, and requests (7 and 9 words)
  that exceed the heap and the word. One generation size (2 words)
  puts requests on both sides of it, which is every branch of `NewTrigger`.
  `MaxGC = 2` lets a collection begin with what another one left, which is what the
  counters' differences and the old generation need; empty messages count as collections do. Messages of
  length 0 and 1. The theorems below remove all of these bounds, `OperationEnds` aside.
- **HeapGen.** Six words are three objects of two words. Three objects
  are enough for a shared object, a cycle through a reference, old data beside
  young, and an old reference to young data. Two roots let a program hold two and
  drop one. With requests of three words the choice between the trigger's three
  branches matters. Elements without pointers (`RawLens`) are left to HeapStore: the
  collectors treat them as they do an element whose fields hold words.
- **HeapStore**, whose mapping is costly, has five words, but objects of two fields and
  without pointers too, so that sharing can come from one object; and both collectors.
- **TextIOModel.** An iobuff of two bytes and strings of three: output
  needs two chunks and each can be cut in two; copy and input go round twice. One file
  beside the standard streams, and one descriptor beside theirs, so that opening fails
  when it is in use.
- **TextIOReopen** needs two descriptors on one file.
- **Buffered.** A buffer of three bytes, files of up to six, requests for up to
  five: what is asked for may lie in the buffer, reach past it by less than
  it holds, or by more (which is read through iobuff, of two). Line ends in the
  middle, at the end, twice, and nowhere.
- **Interrupt.** Frequencies 0, 1, 2, 4, a count that starts at 3: below, at and above
  the count that is running. `polls` is bounded by the property itself.
- **Program.** Starts: words of 256 values, a "megabyte" of 16 bytes: products and sums wrap
  for the larger `EnvUnits`, and every address a block can start at is tried. Of all these,
  what follows looks at one for each runtime (`OneStart`): it does not depend on addresses.
  A program has one use for its runtime, as no module touches another's array. Bytes of four
  values: counts above three fill both of their bytes, an int is a byte of the real one. An
  iobuff of five bytes and strings of six make output two chunks; `MaxOps = 4` is open, write, open
  again, read. Streams are those opened (TextIOModel has the standard ones). Arguments of up to five bytes and up to
  five of them: shorter than an index, and longer than one byte can count. Doubles of one, two and ten digits with
  either sign, so that a text is shorter than the one before it, and texts that are
  out of range, end in garbage, are empty or hold a zero byte. `MaxFrames = 5` is a
  host, ML, a call out, a refused or a later entry, and one more; `MaxCollections = 3`.
- **Timed.** A word of 32 values and a start at 3 ticks: the clock goes through
  every instant to the last two, which have code of their own. Each waiting time is up to 15, and the
  inputs are those the automata know. The three automata of `pancake/ta_progs`, one in which
  every wait is one the semantics accepts, one with differences of clocks and several waits, and
  one whose outputs follow each other without a wait up to the end of time.
- **JumpLengths.** Two sections of four and two lines around their labels; jumps to each label, to the own
  section's beginning and before the code; encoders of one length (x64), two (riscv, arm8,
  mips) and four, with windows small enough for lengths to change; Skip of one byte
  (padding needed) or two. A call, and a jump to no section, in one program each. `InitClock = 5` as every target has;
  a chain of five jumps, each of which grows because the one after it did, just passes, and with a sixth the
  clock runs out.
- **ParMove.** All 7889 lists of up to four moves over four variables, two in
  registers and two in the frame: cycles of two, three and four, two cycles at once,
  trees hanging off cycles.

`Uses` in TextIO keeps the runs to programs that FsFFI speaks about:
a program that opens a missing file for output (`"Create"`), closes a standard
stream (`"CloseStd"`) or opens for output a file that is open (`"Reopen"`) meets
behaviour of the C functions that FsFFI does not have (it refuses the first two).
TextIOModel has `Uses = {}`; TextIOReopen has the last two, for what the third does.

CHECK_DEADLOCK is off for Program, Timed and JumpLengths: a process ends, the clock
runs out, the assembler returns. Others have an explicit stuttering action for a stopped
program (`Stopped`, `Halted`, `Done`).

## Fairness

- `WF(Proceed)` in GcTrace: an operation that has asked for space goes on, as it is straight-line code and the
  collector a subroutine of it; `WF(Collect)` in GenHeap for the same reason. None for beginning an operation.
  HeapSpace by itself has no fairness.
- TextIO, BufferedIO: weak fairness of the steps of an operation that has begun,
  for the same reason. `OperationsReturn` of TextIO also needs that write does not
  take nothing for ever: the same assumption (liveFS) the proofs in
  `fsFFIPropsScript.sml` make of the stream of counts, here strong fairness of a write
  that takes something. No fairness for the start of an operation.
- Interrupt: weak fairness of the steps inside poll and check; strong fairness of
  `poll`, as the Interrupt module asks of functions that run for ever
  (`repl_moduleProgScript.sml:28`). None for signals.
- Timed: weak fairness of the whole program, which polls without end; the clock moves with each
  reading, as it does in `get_time_input`, so nothing is assumed of the environment.
- Program, JumpLengths and ParMove have
  no fairness: `ClockSpent` is an invariant, and `Shrinks` says that the ordering can only go on for so long, which is
  how the code's own termination proof goes.

## What is proved

By TLAPS, for every value of the constants that satisfies the ASSUMEs of the
module.

- **HeapSpaceProofs, `SpaceSafe`, `HaltsWhenFull`, `AppendsOnce`**: `Spec => []` of
  TypeOK, Layout and GrantFits; of HaltOnlyWhenFull; of AppendOnce. None of them is
  inductive alone. The invariant
  `IInv` adds that only the generational collector has an old generation (else the
  reset of NextFree would undercut GenStart) and what an interrupted append has asked
  for (`AppendAsked`: enough for the whole list, or the request no heap satisfies). The
  lemmas are the arithmetic: `RequestIsWord`, `NewTriggerFits` (the trigger lies within the room,
  past the request if that fits) and `AppendWordsCover` (rounding down twice
  loses no more than the word AllocVar adds). The minor collection
  is the delicate case: `CanDoPartial` gives `AllocSize <= EndOfHeap - TriggerGC`,
  and after it the room is at least that, so `NewTriggerFits` applies.
  **`GrantsAreWhole`**: `Spec => GrantWhole`, from the same invariant: what MakeSpace
  asks for is clamped, never wrapped.
  **`AllocationExact`**: `TraceSpec => []AllocationCounted`, of GcTrace. It is
  inductive with IInv beside it: a traced program takes HeapSpace's steps
  (`TraceStep`), so IInv is kept by `NextInv`, and gives that NextFree is a number and
  that the collector leaves its state in one step (`CollectorLeaves`). The sums are exact as long as no empty
  message was printed; the toggle is what it should be plus their number, modulo 2 (`Flips`).
- **GenHeapProofs, `HeapWellFormed`, `CopiedOnce`, `CollectorNeverFails`**: `Spec => []` of HeapOk, of
  ForwardBijection and of CollectorOk. They are one induction: the invariant `IInv` is gc_inv for a
  concrete heap. While the program runs (`AtRest`), elements tile the words on both sides of the gap and
  those of the old generation (`Tiled`, `Free`), everything that starts an element is one the program
  can have, and every pointer leads to a start. During a collection (`InCollection`) it says of the old
  heap that it is tiled as before, by elements and forward pointers of the same lengths (`Old`); of
  the new heap that it is tiled up to `a` and from `a + n`, and that so are the two stretches the scans have
  still to go through, so a scan is always at a start (`Built`); of both that the forward pointers are a
  bijection (`Forwards`); of the pointers that those a scan has passed lead to the new heap and the others to
  the old one (`FieldsLead`, `Roots`); and what is left to be copied fits (`Room`). The last is the delicate
  one: copying an element takes as many words from what is left as from what is free (`OneLess`, `Fits`).
  `Clock`: each round of gc_move_loop scans at least one word, so a clock of Limit rounds suffices. `MoveOne` is
  the lemma about gc_move for all its callers: whatever it returns is in the new heap, and all of the above is kept.
  A new element has an identity nobody has because there is one more of them than words (`FreshIdIsId`).
  **`ImplementsHeapSpace`**: `Spec => ImplementsSpace`. `Room` bounds each end by the words that were
  in use there, so when nothing is left `a` and `n` are what HeapSpace allows (`WordsInUse`); `Choice`, an
  invariant of its own, says that a minor collection is still one that can_do_partial allows when
  it ends; `SpaceTrigger` that the two versions of new_trig agree. With it what is proved of
  HeapSpace's registers is proved of a heap that has objects in it.
  **`NoGarbageKept`**: `Spec => []CollectsGarbage`. The invariant is `Traced`: any set that
  holds the roots moved so far (in a minor collection the references too), and that no
  pointer already scanned leads out of (`Encloses`), holds all that has been copied. What
  can be reached from the roots is such a set, and when a collection is done everything is scanned.
  `Closure` is about the recursion both are defined by: going on until
  nothing is added has a solution, and it is the least closed set.
  **`ImplementsMLStore`**: `Spec => ImplementsStore`, the correctness of the collectors: the program
  cannot tell that they ran. An element lives at a place, in the old heap or the new (`Places`);
  the *homes* are those no element has moved away from, and a pointer is followed through the forward
  pointer it may meet (`Seen`, `Field`). `Named` says that identities are distinct, `AliveIn` which homes the program
  can reach: the least set. A step carries homes to homes (`Carries`) if each keeps its
  element and where its pointers lead; then objects and variables are as they were
  (`NothingSeen`). Moving a root or a field carries the element that gc_move copies and leaves the rest; copying the
  new heap back carries all of it. A step of the program does what MLStore's operation does to its variables, and
  the store keeps what they still lead to (`CarriesStore`, `StoreNew`, `StoreUpdate`).
  When the program is stopped, `Traced` gives that all that was copied is alive
  (`AllAlive`), so the live objects are as many words as the new heap has in use (`LiveFills`), and the request
  that called the collector, which AllocSize still holds, does not fit in the rest (`StoreStop`).
- **BufferedIOProofs, `BufferIsWindow`**: `Spec => []BufferIsFile`. While an operation is in
  progress the property says nothing, so `BufInv` says what holds then: a line being
  read has collected no end of line and refills only when nothing is unread; an input
  being read directly or through a refill has nothing unread, and what the fill has put in the array
  so far is what precedes the descriptor. Short reads move the descriptor and the index together.
  **`StreamImplemented`**: `Spec => ImplementsStream`: each action is a step of ByteStream or leaves its
  variables alone. What the program has in hand, what is buffered and what is left of the file are three
  pieces of one sequence; the lemmas say that an action moves the cuts and not the sequence
  (`Grouped` for associativity), and that the first end of a line in a piece is the first in the
  whole if the pieces before it have none.
- **ProgramProofs, `OneEntry`**: `Spec => []EntryExclusive`; `HostInv` relates the flag `can_enter` to the
  C stack: it is 1 exactly when the runtime is ready and no frame is ML code.
  **`LayoutHolds`**: `Spec => []LayoutSafe`; `StartInv` carries the sizes from
  main's arithmetic modulo the word (a multiple of the alignment stays one, `WordOf`, because the word is one) to
  the boundary that init_code moves to the middle when it lies outside the block.
  **`ArgumentsArrive`**: `Spec => []ArgumentsExact`. `Power` says how many numbers so many bytes have, so that
  what is below byte `k + 1` is byte `k` and what is below it (`NextByte`): two bytes are their number
  (`TwoBytes`), eight are it modulo `Power[8]` (`LongLongOf`), and a byte written in an array leaves the others
  (`PutFacts`). `ArgInv` says for each question of cline (`Counting`, `Measuring`, `Fetching`) what the buffer holds
  before and after the answer, and that `got` has the arguments behind the one asked for.
  **`DoublesCross`**: `Spec => []DoublesExact`. `DoubleInv` says for each function (`StringTask` to `FunctionTask`)
  which bytes of the shared array are its argument's until the runtime answers, and the answer's then. A
  text ends where ML looks for a zero because Format's has none (`ReadTextStep`).
  **`FilesCalled`**: `Spec => FileCalls`. The three runtimes decode a call alike and leave the same bytes, but for the
  code of a file that cannot be opened (`Answers`, `AnswersHold`); so what each file function leaves
  is proved once (`OpenFFIStep` to `WriteFFIStep`). What a system may choose keeps the descriptors below `MaxFD` and
  the positions and contents of files what they are (`Systems`). `FileInv` says for each function (`OpenTask` to
  `WriteTask`) what the array holds between call and reply, and that a handle of eight bytes is one a
  runtime gave (`Handled`): read as a C int it is the descriptor again (`HandleFacts`), because descriptors are below
  half of `IntRange`. A write asks for `n` bytes from `i` on with `n + i` at most `BufSize`; what is written
  is at most `n`, so the same holds of the next (`WrittenStep`).
  **`CallsAreFit`**: `Spec => []CallsFit`, from the invariants of the four uses: each has the
  length of its array and how the process may have ended (`ExitInv` for RuntimeProg.exit), and a program that calls
  no foreign function ends only by cml_err (`QuietInv`).
- **JumpLengthsProofs, `LastEncodingDone`**: `Spec => []FinalDone`: the comment in
  `lab_to_targetScript.sml:303`, "it ought to be impossible for done to be false here". The
  invariant says what each table of positions is in terms of the lengths (`Exact`, `Ordered`, `Loose`). Once
  the iteration is done every offset is that of the table; alignment then only shortens
  labels (`LabelsLong`: each was as long as Skip, at least a byte), so positions come no further apart (`Closer`),
  every offset is between 0 and the one before, and no encoder needs more for it
  (`LengthMonotone`, from windows that contain 0). **`OffsetsRight`**: `Spec => []OffsetsExact`. `OffsetsInv` says
  that labels have the padding their positions need (`Aligned`; the pass that aligns keeps its positions to itself, so
  there it is "some table T"), that the second table is of the lengths with padding, and that what has been
  encoded again used it. `PaddingMoves` is the last step: giving a label's padding to the instruction before
  moves the end of that instruction and of nothing else. `End` is defined by recursion: `EndIsUnique`. A Skip
  of more than a byte is as even as everything else (`Evens`), so no label then needs padding.
  **`PassesAreGrowths`**: `Spec => []ClockSpent`. `Rounds` counts: each pass that was not the last made some jump
  longer, and a jump gets no length twice, so `Growths` has as many elements as clock was spent, and one
  more when it is out. Its lengths are finitely many, as an encoder's change only at the ends of windows
  (`EdgeBelow`, `LengthKnown`).
- **TimeToPanProofs, `NotOverrun`**: `Spec => NeverMissed`. The controller's time is the runtime's, not yet
  the last instant, and moves by at most one; so the time left to a wake-up that has not
  come cannot wrap (`Closer`). **`RunsTheAutomaton`**: `Spec => ImplementsTimeSem`. The invariant
  adds that an input is read only while the automaton is not due (`Heard`, `Asleep`: no time
  passes with an input), so that a location is left by an input exactly when the wait is not 0. A reading is a
  delay of one instant or nothing (`PollMaps`; where the semantics has a value no clock wraps,
  `Older`, `Nearer`), a call is the first matching term or a panic (`CallMaps`): word
  arithmetic agrees with that of numbers where the bounds of machine_bounds hold (`ExprSame`, `CondSame`,
  `TermsSame`, `WaitsSame`), and elsewhere only the kind of label matters. Nothing is assumed of the
  automaton but that terms name its own locations and clocks, and words.
- **InterruptProofs, `PollsInTime`**: `Spec => []CheckedInTime`, with a
  strengthening for the steps of poll_sigint. **`InterruptsAreSignals`**:
  `Spec => NoSpuriousInterrupt`; the invariant relates the flag, the byte and
  the signal that is unanswered.
- **ParMoveProofs, `OrderingEnds`**: `Spec => Shrinks`: each step of the ordering makes
  `2 * Len(mu) + Len(sigma)` smaller. It rests on what fstep's operations on lists do to
  lengths (`WithoutOne`, `BrokenTail`). **`OrderWellFormed`**: `Spec => []WellFormed`.
  WellFormed speaks of the concatenation of two lists; the invariant
  takes it apart into distinct destinations in each, none in common, no temporary in
  mu, and sigma a path. One lemma for each thing that happens to a list: a move
  taken out (`FewerMoves`), the first taken off (`ShorterPath`, also for a cut
  cycle), one put in front (`LongerPath`). **`StepsImplemented`**: `Spec => ImplementsSteps`:
  cutting a cycle is the algorithm's save of the last source, then a pop.
  **`MovesAtOnce`**: `Spec => []MovedAtOnce`, the correctness of the whole: parmove, then wMove's
  instructions. A list of moves leads from one environment (what is in every place a move
  can name) to another if there are environments between its moves (`Led`, `Leads`).
  While the moves are ordered, the processed ones lead from what the machine holds to an
  environment from which what waits still *means* the parallel move (`Means`: each waiting move finds its
  value at its source, and everything else is where it should be; `StepKeeps`); then an
  instruction is the first move of what is left (`InstructionMoves`), because scratch
  registers and slots are apart (`Registers`, `SlotsApart`).
  **`MeaningIsKept`**: `Spec => []MeaningKept`, the same of each step of the ordering and of names. `SeqsemIs` says that
  the fold in seqsem is where a list of moves leads: the recursion of the library's fold has a solution on all
  sets of positions (`SomeFold`), and on those up to `k` it is the environment after `k` moves.

Assumptions on constants are those the code makes: a heap shorter than a word can
count (in GenHeap `Dimword`, which counts words, as its Requests do), words of at least one byte, AllocVar's limit such that its sum fits (the
callers' limits do), destinations of a Move distinct (`evaluate` of Move is
defined only then), wfcl of the argument vector; files are sequences of bytes, and the size main.c insists on
is a number. Texts are bytes, doubles and what the C library makes of them are 64-bit patterns
(`DoubleAssumption`), and a formatted double is shorter than the array. iobuff's data and what a program asks input
for are counted in two bytes, and a descriptor is a C int that is not negative (`FilesAssumption`).
In JumpLengths the Skip instruction is one byte or of even length, and then every instruction is of even length: enc_ok
(`asmPropsScript.sml:28`) has every instruction a multiple of the length of Skip, a power of 2.

Model-checked only: everything about liveness, and the refinements ImplementsFsFFI and ImplementsStreams.
Of functions defined by recursion (`Live`, `Size`, `End`, a fold) the proofs first show that one exists,
then use its equation. Induction is over sets of numbers, by their least member (`Least`).

## Disagreements

- **InterruptLost.** poll_sigint reads the flag into its reply and clears it in the
  next statement. A signal in between is erased. The comment on `check` promises
  an exception for every trapped signal.
- **TextIOReopen.** open_out truncates. If the file was already open for output, the
  first descriptor's position is then past its end, and the next write leaves
  a hole of zeros; `fsFFIScript.sml`'s write puts the bytes at the end instead.

Met while modelling, and not runs:

- `Runtime.debugMsg ""` calls the empty foreign function with length 0, as the code
  around a collection does (`data_to_wordScript.sml:2061`). The debugging runtime then
  takes the address of the string for the "number of bytes in occupied in heap"
  (`basis_ffi.c:257`), and the beginning of the next collection for its end. The model prints such messages:
  AllocationCounted says that the count of bytes is right until the first of them, and that the toggle is right after
  an even number.
- The comment on remove_labels says of `init_clock` that "in many cases, clock = 0 should be enough" and that to hit
  the limit means "something is badly wrong" for large values. The targets have 5, which is not large: six
  jumps in a row, each at the edge of its window and each over the next one, grow one in each pass, and a legal program has
  no code. `ClockSpent` says that it takes as many growths as that. An instance is in `MCJumpLengths` (`Chains`).
- What that runtime reports as "Total allocated heap data" is what was put at the left
  end: references, at the right end, are not in it, nor is anything since
  the last collection.
- `DoubleFFIScript.sml`'s logical ffi_fromString wants an array of eight bytes and writes the number at its
  beginning. That is the protocol of Pancake's runtime; `basis_ffi.c` and the Double module
  use 256 bytes and a flag. A program of the basis linked with Pancake's runtime aborts in
  Double.fromString (`CallsFit` names the exception).
- Double.fromString of "" is Some 0.0, as strtod reads nothing and leaves nothing; and a text with a zero byte is
  read up to it. `DoublesExact` speaks of texts without (`Plain`).
- The ag32 runtime says its argc and argv are "exported in cake.S"; the ag32 export does not have them.
  Its open_out fails with code 255 where the others have 1; ML only looks for 0.
- The Pancake copy has no cml_err, which the x64 export refers to.
- `timeFunSemScript.sml`'s eval_term compares a term's waits with the clocks before it
  resets them (lines 28-30 and 45-47), so it has no value for terms of the repository's own LED automata that
  reset a clock and wait on it; the compiled program does what they mean. It also has
  no value once clock and time add up to a word, about half way through the time that can be counted.
- `src/pancake/sketch.txt:33` waits while `sys_time < wake_up_at`; the code tests for equality.
- The main function of the basis does not check the
  sum of the two sizes, so when it wraps (CML_HEAP_SIZE + CML_STACK_SIZE of 2^64 bytes and more) the
  layout that main describes in its comment does not hold, `ExpectedLayout` in
  Startup; yes_ffi.c has the check. init_code moves such a boundary to the middle of
  the block, so `LayoutSafe` still holds.

## What is not modelled

See `components` in `PROJECT.json` for each. In short: passes that are pure
functions from programs to programs (their correctness is a simulation, proved in the
repository); tables of instruction encodings; the parts of the C runtime that
print, take times, or clear the instruction cache (`ffikernel_ffi` prints with buffered
stdio beside TextIO's write(2), and is not a function of the basis library); a host that
calls cml_main twice; numbers and strings in the heap, which differ from other data only
in their payload; timestamps of blocks; TextIO functions composed of the modelled
ones (inputAll, b_inputLines, foldChars, print). `get_arg` with an argument of 65536 bytes or more
is outside wfcl and so outside the model.

Read and write on a descriptor that is open do not fail in Posix (EIO, ENOSPC): they bring or take some bytes. FsFFI has
no such error either, and the refinement would not hold of it; so the branches of `ffiread` and `ffiwrite`
that report an error are taken only for a bad descriptor.

Expressions of automata in TimeToPan are a literal, a clock, or one difference of two of these (`Exprs`). timeLang nests
differences to any depth, and time_to_pan follows by recursion; the automata of the repository have no
difference at all. And in the last two instants of time TimeSem permits anything (`TimeOver`), because eval_steps stops there
(`timeFunSemScript.sml:204`): the two tests of the controller for those instants (`time_to_panScript.sml:223`
and `252`) are in the model, but no property depends on their being right.

## Plan

Done, in this order: memory (HeapSpace, GenHeap, MLStore); input
and output (BasisFFI to BufferedIO); Interrupt, parallel moves; then whole programs on
the three runtimes (Program), JumpLengths and TimeToPan.

Left:

1. **Coalescing**: reg_alloc's worklists (simplify, freeze, spill, coalesce) with
   degrees and the move lists, as a state machine; invariants: the worklists
   partition the nodes, degrees count live neighbours. Abstract specification: any
   colouring that respects the graph.
2. Composition of Interrupt with the REPL's loop, and of Startup's layout with
   HeapSpace's Init (a refinement of the initial state).

Worth proving next: TextIO's refinements. ImplementsFsFFI holds because no file is opened for output while it is open, so
the invariant has to say that no position is past the end of its file.
