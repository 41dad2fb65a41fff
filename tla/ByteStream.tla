------------------------------ MODULE ByteStream -----------------------------
(***************************************************************************)
(* An input stream without a buffer: what is still to be read, and what    *)
(* the last operation returned.  After an exception the bytes the failed   *)
(* operation had taken are gone; only a closed stream raises one.          *)
(***************************************************************************)
EXTENDS Integers, Sequences

CONSTANT Lengths

VARIABLES rest, isOpen, result

vars == <<rest, isOpen, result>>

First(s, n) == SubSeq(s, 1, IF n < Len(s) THEN n ELSE Len(s))
Drop(s, n) == SubSeq(s, n + 1, Len(s))

Returns(op, arg, bytes) == result' = [op |-> op, arg |-> arg, bytes |-> bytes]

Init == isOpen = TRUE /\ result = [op |-> "none", arg |-> 0, bytes |-> <<>>]

Input(n) ==
  /\ Returns("input", n, First(rest, n))
  /\ rest' = Drop(rest, n) /\ UNCHANGED isOpen

Input1 ==
  /\ Returns("input1", 0, First(rest, 1))
  /\ rest' = Drop(rest, 1) /\ UNCHANGED isOpen

Peek == Returns("peek", 0, First(rest, 1)) /\ UNCHANGED <<rest, isOpen>>

\* Up to and with the first chr; a last line without one is given one.
InputLine(chr) ==
  LET here == {j \in 1 .. Len(rest) : rest[j] = chr}
      end  == CHOOSE j \in here : \A k \in here : j <= k
  IN  /\ UNCHANGED isOpen
      /\ IF here # {} THEN Returns("line", chr, First(rest, end)) /\ rest' = Drop(rest, end)
         ELSE /\ Returns("line", chr, IF rest = <<>> THEN <<>> ELSE rest \o <<chr>>)
              /\ rest' = <<>>

Close == isOpen = TRUE /\ isOpen' = FALSE /\ Returns("close", 0, <<>>) /\ rest' = First(rest, Len(rest'))

Raise ==
  /\ isOpen = FALSE
  /\ Returns("InvalidFD", 0, <<>>)
  /\ \E n \in 0 .. Len(rest) : rest' = Drop(rest, n)
  /\ UNCHANGED isOpen

Refuse == Returns("IllegalArgument", 0, <<>>) /\ UNCHANGED <<rest, isOpen>>

Begin == Returns("none", 0, <<>>) /\ UNCHANGED <<rest, isOpen>>

Next ==
  \/ Input1 \/ Peek \/ Close \/ Raise \/ Refuse \/ Begin
  \/ \E n \in Lengths : Input(n)
  \/ result'.op = "line" /\ InputLine(result'.arg)

Spec == Init /\ [][Next]_vars
=============================================================================
