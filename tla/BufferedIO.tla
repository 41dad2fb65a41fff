------------------------------ MODULE BufferedIO -----------------------------
(***************************************************************************)
(* The buffered input streams of TextIO (InstreamBuffered): a byte array   *)
(* filled by read calls, the index of the next byte to hand out (rref) and *)
(* the end of what was read (wref).  The array's first four bytes carry    *)
(* the FFI's arguments, so data begins at index 4.                         *)
(***************************************************************************)
EXTENDS Integers, Sequences

CONSTANTS
  Size,       \* data bytes of the buffer: length surplus - 4, at least 1024
  IOBuff,     \* data bytes of iobuff, which input reads through
  Files,      \* contents of the file
  Lengths,    \* what b_input is asked for
  Rooms,      \* free bytes in the array it is given
  Chars       \* line ends

ASSUME BufferAssumption ==
  /\ Size \in Nat \ {0} /\ IOBuff \in Nat \ {0}
  /\ Files \subseteq Seq(Int)
  /\ Lengths \subseteq Nat /\ Rooms \subseteq Nat

VARIABLES
  file,       \* bytes of the file (nobody writes to it)
  off,        \* position of the descriptor
  isOpen,     \* the descriptor is open
  surplus,    \* the buffer's data bytes
  rref, wref, \* the indices
  ml,         \* the operation in progress
  result      \* what the last operation returned

fs == <<file, off, isOpen>>
buffer == <<surplus, rref, wref>>
vars == <<file, off, isOpen, surplus, rref, wref, ml, result>>

Base == 4
Least(a, b) == IF a < b THEN a ELSE b

Idle == [pc |-> "idle"]
Answer(op, arg, bytes) == [op |-> op, arg |-> arg, bytes |-> bytes]
Nothing == Answer("none", 0, <<>>)
Return(op, arg, bytes) == ml' = Idle /\ result' = Answer(op, arg, bytes)
GoOn(next) == ml' = next /\ result' = Nothing

\* Word8Array.substring surplus from (n).
Slice(from, n) == [j \in 1 .. n |-> surplus[from + j - 1]]
Buffered == Slice(rref, wref - rref)

Init ==
  /\ file \in Files /\ off = 0 /\ isOpen = TRUE
  /\ surplus = [j \in Base .. Base + Size - 1 |-> 0]
  /\ rref = Base /\ wref = Base
  /\ ml = Idle /\ result = Nothing

\* #(read) of n bytes from an open descriptor: how many it may bring.
Counts(n) ==
  LET most == Least(n, Len(file) - off) IN IF most = 0 THEN {0} ELSE 1 .. most
Stored(at, k) ==
  surplus' = [j \in DOMAIN surplus |->
                IF j \in at .. at + k - 1 THEN file[off + 1 + j - at] ELSE surplus[j]]

\* b_refillBuffer_with_read, then what the caller does with the new wref; a
\* read that fails leaves the buffer as it is.
Refill(Then(_)) ==
  IF isOpen
  THEN \E k \in Counts(Size) :
         /\ off' = off + k /\ Stored(Base, k)
         /\ wref' = Base + k
         /\ UNCHANGED <<file, isOpen>>
         /\ Then(k)
  ELSE Return("InvalidFD", 0, <<>>) /\ UNCHANGED <<fs, buffer>>

------------------------------------------------------------------------------
\* b_closeIn leaves the buffer alone.  The descriptor is not given to another
\* file, so that closing it again fails.
b_closeIn ==
  /\ ml = Idle
  /\ isOpen' = FALSE
  /\ Return(IF isOpen THEN "close" ELSE "InvalidFD", 0, <<>>)
  /\ UNCHANGED <<file, off, buffer>>

\* b_input1 and b_peekChar: refill an empty buffer once.
One(op, step) ==
  /\ ml = Idle
  /\ IF rref # wref
     THEN /\ Return(op, 0, <<surplus[rref]>>)
          /\ rref' = rref + step
          /\ UNCHANGED <<fs, surplus, wref>>
     ELSE Refill(LAMBDA k :
            IF k = 0 THEN Return(op, 0, <<>>) /\ rref' = Base
            ELSE Return(op, 0, <<surplus'[Base]>>) /\ rref' = Base + step)

b_input1 == One("input1", 1)
b_peekChar == One("peek", 0)

------------------------------------------------------------------------------
\* b_inputLine chr: b_inputUntil_2 with the pieces so far (acc) in order.
b_inputLine(chr) ==
  ml = Idle /\ GoOn([pc |-> "scan", chr |-> chr, acc |-> <<>>]) /\ UNCHANGED <<fs, buffer>>

\* b_inputUntil_1: the buffer up to the first chr, or all of it.
b_inputUntil ==
  /\ ml.pc = "scan"
  /\ LET found == {j \in rref .. wref - 1 : surplus[j] = ml.chr}
         i     == CHOOSE j \in found : \A k \in found : j <= k
     IN  IF found # {}
         THEN /\ rref' = i + 1
              /\ Return("line", ml.chr, ml.acc \o Slice(rref, i + 1 - rref))
         ELSE /\ rref' = wref
              /\ GoOn([ml EXCEPT !.pc = "refill", !.acc = @ \o Buffered])
  /\ UNCHANGED <<fs, surplus, wref>>

b_inputRefill_NoEof ==
  /\ ml.pc = "refill"
  /\ Refill(LAMBDA k : rref' = Base /\ GoOn([ml EXCEPT !.pc = "scan"]))

b_inputRefill ==
  /\ ml.pc = "refill"
  /\ Refill(LAMBDA k :
       /\ rref' = Base
       /\ IF k = 0
          THEN Return("line", ml.chr, IF ml.acc = <<>> THEN <<>> ELSE ml.acc \o <<ml.chr>>)
          ELSE GoOn([ml EXCEPT !.pc = "scan"]))

------------------------------------------------------------------------------
\* The buffered bytes handed out but not taken out of the buffer.
b_inputKeep(len, room) ==
  /\ ml = Idle
  /\ LET here == wref - rref
     IN  CASE room < len ->
                Return("IllegalArgument", 0, <<>>) /\ UNCHANGED rref
           [] room >= len /\ (Size < len \/ len > here) ->
                /\ UNCHANGED rref
                /\ GoOn([pc |-> IF Size < len THEN "direct" ELSE "fill", len |-> len,
                         got |-> Buffered, n |-> 0])
           [] room >= len /\ len <= Size /\ len <= here ->
                /\ rref' = rref + len
                /\ Return("input", len, Slice(rref, len))
  /\ UNCHANGED <<fs, surplus, wref>>

\* b_input with len bytes wanted and room for them in the caller's array: the
\* buffered bytes first, then the file itself or a full buffer.
b_input(len, room) ==
  /\ ml = Idle
  /\ LET here == wref - rref
     IN  CASE room < len ->
                Return("IllegalArgument", 0, <<>>) /\ UNCHANGED rref
           [] room >= len /\ (Size < len \/ len > here) ->
                /\ rref' = wref
                /\ GoOn([pc |-> IF Size < len THEN "direct" ELSE "fill", len |-> len,
                         got |-> Buffered, n |-> 0])
           [] room >= len /\ len <= Size /\ len <= here ->
                /\ rref' = rref + len
                /\ Return("input", len, Slice(rref, len))
  /\ UNCHANGED <<fs, surplus, wref>>

\* input fd buff: reads through iobuff until it has all or meets the end.
b_inputDirect ==
  /\ ml.pc = "direct"
  /\ IF isOpen
     THEN \E k \in Counts(Least(ml.len - Len(ml.got), IOBuff)) :
            /\ off' = off + k
            /\ IF k = 0 THEN Return("input", ml.len, ml.got)
               ELSE GoOn([ml EXCEPT !.got = @ \o SubSeq(file, off + 1, off + k)])
            /\ UNCHANGED <<file, isOpen>>
     ELSE Return("InvalidFD", 0, <<>>) /\ UNCHANGED fs
  /\ UNCHANGED buffer

\* A refill after which the bytes just handed out come again.
b_inputFillTwice ==
  /\ ml.pc = "fill"
  /\ IF isOpen
     THEN \E k \in Counts(Least(Size - ml.n, IOBuff)) :
            /\ off' = off + k /\ Stored(Base + ml.n, k)
            /\ IF k = 0
               THEN LET more == Least(ml.n, ml.len - Len(ml.got))
                    IN  /\ wref' = Base + ml.n
                        /\ rref' = Base
                        /\ Return("input", ml.len, ml.got \o Slice(Base, more))
               ELSE GoOn([ml EXCEPT !.n = @ + k]) /\ UNCHANGED <<rref, wref>>
            /\ UNCHANGED <<file, isOpen>>
     ELSE Return("InvalidFD", 0, <<>>) /\ UNCHANGED <<fs, buffer>>

\* input fd surplus 4 Size (n bytes of it so far), then the rest of the request.
b_inputFill ==
  /\ ml.pc = "fill"
  /\ IF isOpen
     THEN \E k \in Counts(Least(Size - ml.n, IOBuff)) :
            /\ off' = off + k /\ Stored(Base + ml.n, k)
            /\ IF k = 0
               THEN LET more == Least(ml.n, ml.len - Len(ml.got))
                    IN  /\ wref' = Base + ml.n
                        /\ rref' = Base + more
                        /\ Return("input", ml.len, ml.got \o Slice(Base, more))
               ELSE GoOn([ml EXCEPT !.n = @ + k]) /\ UNCHANGED <<rref, wref>>
            /\ UNCHANGED <<file, isOpen>>
     ELSE Return("InvalidFD", 0, <<>>) /\ UNCHANGED <<fs, buffer>>

------------------------------------------------------------------------------
Next ==
  \/ b_closeIn \/ b_input1 \/ b_peekChar
  \/ \E chr \in Chars : b_inputLine(chr)
  \/ \E len \in Lengths, room \in Rooms : b_input(len, room)
  \/ b_inputUntil \/ b_inputRefill \/ b_inputDirect \/ b_inputFill

\* An operation that has begun runs on; every read of an open descriptor
\* brings something or meets the end.
Spec == Init /\ [][Next]_vars
        /\ WF_vars(b_inputUntil) /\ WF_vars(b_inputRefill)
        /\ WF_vars(b_inputDirect) /\ WF_vars(b_inputFill)

------------------------------------------------------------------------------
\* One type invariant, part of BufferIsFile: the indices stay in the buffer and in order, and the
\* descriptor stands inside its file.
TypeOK ==
  /\ surplus \in [Base .. Base + Size - 1 -> Int]
  /\ off \in 0 .. Len(file)
  /\ rref \in Base .. wref /\ wref \in Base .. Base + Size
  /\ ml.pc = "fill" => rref = wref /\ ml.n \in 0 .. Size

\* The unread part of the buffer is the part of the file just before the
\* descriptor's position, but while the buffer is being filled.
BufferIsFile ==
  /\ TypeOK
  /\ ml.pc # "fill" =>
       /\ wref - rref <= off
       /\ \A j \in rref .. wref - 1 : surplus[j] = file[off - (wref - j) + 1]

\* What the operation in progress has taken out of the stream.
InHand ==
  CASE ml.pc = "idle" -> <<>>
    [] ml.pc \in {"scan", "refill"} -> ml.acc
    [] ml.pc = "direct" -> ml.got
    [] ml.pc = "fill" -> ml.got \o Slice(Base, ml.n)

Stream == INSTANCE ByteStream WITH
  rest <- InHand \o Buffered \o
            (IF isOpen THEN SubSeq(file, off + 1, Len(file)) ELSE <<>>)

\* The buffer cannot be told from reading the file byte by byte: no byte is
\* skipped or given twice, whatever mixture of b_input, b_input1, b_peekChar
\* and b_inputLine, and whatever the sizes of the reads.
ImplementsStream == Stream!Spec

\* Every operation returns.
OperationsReturn == ml.pc # "idle" ~> ml.pc = "idle"
=============================================================================
