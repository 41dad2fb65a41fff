---------------------------- MODULE MCJumpLengths ----------------------------
(***************************************************************************)
(* Two sections of four and two lines of instructions and labels.  With a  *)
(* Skip of one byte, instructions of odd length, and jumps of one length   *)
(* (x64) or of several; with a Skip of two, even lengths and jumps that are  *)
(* longer beyond a window (riscv, arm8, mips, with smaller windows).       *)
(***************************************************************************)
EXTENDS JumpLengths

Sec == [is |-> "section"]
Lab == [is |-> "label"]
Asm(n) == [is |-> "asm", len |-> n]
To(enc, k) == [is |-> "jump", enc |-> enc, ok |-> TRUE, fixed |-> FALSE, to |-> k]
Fixed(enc, a) == [is |-> "jump", enc |-> enc, ok |-> TRUE, fixed |-> TRUE, to |-> a]
\* A call, and a jump to a section that does not exist.
Call(enc, k) == [To(enc, k) EXCEPT !.ok = FALSE]
Nowhere(enc) == [Fixed(enc, 0) EXCEPT !.ok = FALSE]

Beside(low, high, more) == [low |-> low, high |-> high, more |-> more]
Always == Beside(0, 0, 0)
Constant == [base |-> 5, first |-> Always, second |-> Always, third |-> Always, reach |-> 100]
Short == [base |-> 2, first |-> Beside(-4, 5, 2), second |-> Always, third |-> Always, reach |-> 100]
Steps == [base |-> 1, first |-> Beside(-2, 2, 1), second |-> Beside(-5, 6, 3),
          third |-> Beside(-11, 9, 1), reach |-> 17]

\* Lines 1 and 7 begin sections, 6 and 9 are labels; 3 is one sometimes.
Targets == {1, 6, 7, 9}
Lines1(enc) == {To(enc, k) : k \in Targets} \cup {Fixed(enc, -2)}
Program(a, b, c, d, e) == <<Sec, a, b, c, d, Lab, Sec, e, Lab>>
Programs(encs, plain) ==
  LET jumps == UNION {Lines1(enc) : enc \in encs}
  IN  {Program(a, b, c, d, e) : a \in jumps, b \in {Lab} \cup plain, c \in jumps,
                                d \in plain, e \in jumps}

Wrong == {Program(jump, Lab, To(Steps, 6), Asm(1), To(Steps, 9)) :
            jump \in {Call(Steps, 9), Nowhere(Steps)}}

\* Each jump is to the label after the next one, at the edge of its window.
\* The last jump is beyond it, and makes them grow one after the other: one
\* pass for each, the clock's for five, and one too many for six.
Near(high) == [Short EXCEPT !.first = Beside(-4, high, 2)]
Chain(head) ==
  <<Sec, head, To(Near(8), 6), Lab, To(Near(8), 8), Lab, To(Near(8), 10), Lab, To(Near(8), 12), Lab,
    To(Near(6), 14), Lab, Asm(2), Lab>>
Chains == {Chain(Asm(2)), Chain(To(Near(6), 4))}

MCCodes ==
  [s \in {1, 2} |->
    IF s = 1 THEN Programs({Constant, Steps}, {Asm(1), Asm(3)}) \cup Wrong
    ELSE Programs({Short, [Short EXCEPT !.base = 4]}, {Asm(2), Asm(4)}) \cup Chains]
=============================================================================
