------------------------------ MODULE MCProgram ------------------------------
(***************************************************************************)
(* Bytes of four values, so that an int is a byte of the real one, a long  *)
(* long two of them, and counts above three need both of their bytes.      *)
(* Doubles are a sign and a number of digits; a text is its digits, all    *)
(* alike, after a minus or a tilde.                                        *)
(***************************************************************************)
EXTENDS Program

MCStrings == {<<1>>, <<2, 1, 3, 2, 3, 1>>}
MCContents == {<<>>, <<1, 3, 2, 2, 1>>}
MCArguments == {<<>>, <<1>>, <<1, 1, 1>>, <<1, 1, 1, 1, 1>>}
MCArgvs == UNION {[1 .. k -> MCArguments] : k \in 1 .. 3} \cup {[j \in 1 .. 5 |-> <<1>>]}

Sign == 32768
Value(neg, k) == (IF neg THEN Sign ELSE 0) + 1111 * (k - 1)
MCDoubles == {Value(neg, k) : neg \in BOOLEAN, k \in {1, 2, 10}}
Digits(k) == [j \in 1 .. k |-> 3]
MCFormat(d) ==
  (IF d >= Sign THEN <<1>> ELSE <<>>) \o Digits((d % Sign) \div 1111 + 1)

\* A minus and digits; more than ten are out of range.
MCStrtod(s) ==
  LET neg  == s # <<>> /\ s[1] = 1
      from == IF neg THEN 2 ELSE 1
      ends == {j \in from .. Len(s) : s[j] # 3}
      k    == (IF ends = {} THEN Len(s) ELSE (CHOOSE j \in ends : \A i \in ends : j <= i) - 1)
              - (from - 1)
      near == IF k >= 10 THEN 10 ELSE IF k >= 2 THEN 2 ELSE 1
  IN  [num |-> IF k = 0 THEN 0 ELSE Value(neg, near), parsed |-> k > 0,
       rest |-> IF k = 0 THEN s # <<>> ELSE ends # {}, range |-> k > 10]

MCTexts == {<<>>, <<1>>, <<3, 0, 3>>, <<3, 1>>} \cup
           {sign \o Digits(k) : sign \in {<<>>, <<1>>, <<2>>}, k \in {1, 2, 10, 11}}
MCInts == {0, 1, -1, 2222, -32768, 40000}
MCFromInt(i) == IF i = 0 THEN 0 ELSE IF i > 0 THEN Value(FALSE, 2) ELSE Value(TRUE, 10)
\* A cast of a double that is out of range may give anything.
MCToInt(d) == IF (d % Sign) >= 9999 THEN {0, Sign} ELSE {IF d >= Sign THEN 65535 ELSE d}
MCPow(x, y) == IF x = 0 THEN y ELSE Value(y > x, 2)
MCLn(d) == IF d >= Sign THEN Value(TRUE, 10) ELSE d
MCExp(d) == Value(FALSE, 10)
MCFloor(d) == IF d >= Sign THEN Value(TRUE, 2) ELSE 0
=============================================================================
