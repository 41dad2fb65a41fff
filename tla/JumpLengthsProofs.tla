-------------------------- MODULE JumpLengthsProofs --------------------------
(***************************************************************************)
(* That the last encoding changes no length, for every program and every   *)
(* encoder whose instructions do not get longer when the target comes      *)
(* closer.  Between two lines the new positions are no further apart than  *)
(* the old ones, because only the padding before labels changed and it     *)
(* only got shorter; so every offset is between 0 and the one before.      *)
(***************************************************************************)
EXTENDS JumpLengths, FiniteSetTheorems, WellFoundedInduction, TLAPS

\* What is known of a line of a program.
LEMMA LineFacts ==
  ASSUME NEW s \in Skips, NEW c \in Codes[s], NEW k \in DOMAIN c
  PROVE  /\ Len(c) \in Nat /\ Len(c) > 0 /\ DOMAIN c = 1 .. Len(c)
         /\ s \in Nat /\ s >= 1
         /\ c[k].is = "asm" => c[k].len \in Nat
         /\ c[k].is = "jump" =>
              /\ c[k].enc \in Encoder
              /\ c[k].fixed \in BOOLEAN
              /\ ~c[k].fixed => c[k].to \in DOMAIN c
              /\ c[k].fixed => c[k].to \in Int /\ c[k].to <= StartPos
<1>1. c \in Seq(Line(Len(c))) /\ Len(c) > 0 /\ s \in Nat \ {0}
  BY CodeAssumption
<1>2. Len(c) \in Nat /\ DOMAIN c = 1 .. Len(c) /\ c[k] \in Line(Len(c))
  BY <1>1
<1>3. c[k].is = "asm" => c[k].len \in Nat
  BY <1>2 DEF Line
<1>4. c[k].is = "jump" =>
        \/ c[k] \in [is : {"jump"}, enc : Encoder, ok : BOOLEAN, fixed : {FALSE}, to : 1 .. Len(c)]
        \/ c[k] \in [is : {"jump"}, enc : Encoder, ok : BOOLEAN, fixed : {TRUE}, to : {a \in Int : a <= StartPos}]
  BY <1>2 DEF Line
<1>5. ASSUME c[k].is = "jump"
      PROVE  /\ c[k].enc \in Encoder
             /\ c[k].fixed \in BOOLEAN
             /\ ~c[k].fixed => c[k].to \in DOMAIN c
             /\ c[k].fixed => c[k].to \in Int /\ c[k].to <= StartPos
  <2>1. CASE c[k] \in [is : {"jump"}, enc : Encoder, ok : BOOLEAN, fixed : {FALSE}, to : 1 .. Len(c)]
    <3>1. c[k].enc \in Encoder /\ c[k].to \in 1 .. Len(c) /\ c[k].fixed \in {FALSE}
      BY <2>1
    <3> QED BY <3>1, <1>2
  <2>2. CASE c[k] \in [is : {"jump"}, enc : Encoder, ok : BOOLEAN, fixed : {TRUE}, to : {a \in Int : a <= StartPos}]
    <3>1. /\ c[k].enc \in Encoder /\ c[k].to \in {a \in Int : a <= StartPos}
          /\ c[k].fixed \in {TRUE}
      BY <2>2
    <3> QED BY <3>1
  <2> QED BY <1>4, <1>5, <2>1, <2>2
<1>6. Len(c) > 0 /\ s \in Nat /\ s >= 1
  BY <1>1
<1> QED BY <1>2, <1>3, <1>5, <1>6

\* An instruction gets no longer when its offset comes closer to 0.
LEMMA LengthMonotone ==
  ASSUME NEW enc \in Encoder, NEW v \in Int, NEW u \in Int,
         (0 <= v /\ v <= u) \/ (u <= v /\ v <= 0)
  PROVE  EncLen(enc, v) \in Nat /\ EncLen(enc, u) \in Nat /\ EncLen(enc, v) <= EncLen(enc, u)
<1>1. ASSUME NEW win \in Window
      PROVE  /\ Beyond(v, win) \in Nat /\ Beyond(u, win) \in Nat
             /\ Beyond(v, win) <= Beyond(u, win)
  BY <1>1 DEF Window, Beyond
<1>2. enc.base \in Nat /\ enc.first \in Window /\ enc.second \in Window /\ enc.third \in Window
  BY DEF Encoder
<1>3. /\ Beyond(v, enc.first) \in Nat /\ Beyond(u, enc.first) \in Nat
      /\ Beyond(v, enc.first) <= Beyond(u, enc.first)
  BY <1>1, <1>2
<1>4. /\ Beyond(v, enc.second) \in Nat /\ Beyond(u, enc.second) \in Nat
      /\ Beyond(v, enc.second) <= Beyond(u, enc.second)
  BY <1>1, <1>2
<1>5. /\ Beyond(v, enc.third) \in Nat /\ Beyond(u, enc.third) \in Nat
      /\ Beyond(v, enc.third) <= Beyond(u, enc.third)
  BY <1>1, <1>2
<1> QED BY <1>2, <1>3, <1>4, <1>5 DEF EncLen

------------------------------------------------------------------------------
Running == {"labels", "encode", "align", "relabel", "reencode"}

Types ==
  /\ skip \in Skips /\ code \in Codes[skip]
  /\ len \in [Lines -> Nat] /\ w \in [Lines -> Int]
  /\ labs \in [Lines -> Int] /\ again \in [Lines -> Int]
  /\ i \in 1 .. Len(code) + 1 /\ pos \in Nat
  /\ done \in BOOLEAN /\ clock \in Nat
  /\ phase \in Running \cup {"done", "refused", "undone", "clock"}

\* Every instruction has room for the offset it was encoded with last.
Room == \A k \in Lines : Jump(k) => EncLen(code[k].enc, w[k]) <= len[k]

\* Labels keep the length of Skip until they are aligned.
LabelsLong ==
  \A k \in Lines :
    Label(k) /\ (phase \in {"labels", "encode"} \/ (phase = "align" /\ i <= k)) => len[k] = skip

Before(table, k) == IF k = 1 THEN StartPos ELSE table[k - 1]

\* A table of the first m positions fits the lengths, or leaves them room.
Exact(table, m) == \A k \in Lines : k <= m => table[k] = Before(table, k) + len[k]
Loose(table) == \A k \in Lines : Before(table, k) + len[k] <= table[k]
Ordered(table, m) ==
  \A k \in Lines : k <= m =>
    /\ StartPos + len[k] <= table[k]
    /\ \A j \in Lines : j < k => table[j] + len[k] <= table[k]

\* The jumps from line m on were encoded with the positions of the loop.
Encoded(m) == \A k \in Lines : Jump(k) /\ m <= k => w[k] = Target(labs, k) - (labs[k] - len[k])

\* The final positions are no further apart than those of the loop.
Closer(m) ==
  \A k \in Lines : k <= m =>
    /\ again[k] <= labs[k]
    /\ \A j \in Lines : j < k => again[k] - again[j] <= labs[k] - labs[j]

InLabels == phase = "labels" => pos = Before(labs, i) /\ Exact(labs, i - 1) /\ Ordered(labs, i - 1)
InEncode ==
  phase = "encode" /\ done =>
    /\ pos = Before(labs, i)
    /\ Exact(labs, Len(code)) /\ Ordered(labs, Len(code))
    /\ \A k \in Lines : Jump(k) /\ k < i => w[k] = Target(labs, k) - (labs[k] - len[k])
Settled == Loose(labs) /\ Ordered(labs, Len(code))
InAlign == phase = "align" => Settled /\ Encoded(1)
InRelabel ==
  phase = "relabel" =>
    /\ Settled /\ Encoded(1)
    /\ pos = Before(again, i)
    /\ Exact(again, i - 1) /\ Ordered(again, i - 1) /\ Closer(i - 1)
InReencode ==
  phase = "reencode" =>
    /\ Settled /\ Encoded(i)
    /\ pos = Before(again, i)
    /\ Exact(again, Len(code)) /\ Ordered(again, Len(code)) /\ Closer(Len(code))
    /\ done

IInv ==
  /\ Types /\ Room /\ LabelsLong
  /\ InLabels /\ InEncode /\ InAlign /\ InRelabel /\ InReencode
  /\ FinalDone

------------------------------------------------------------------------------
LEMMA InitIInv == Init => IInv
<1> SUFFICES ASSUME Init PROVE IInv
  OBVIOUS
<1>1. /\ Len(code) \in Nat /\ Len(code) > 0 /\ Lines = 1 .. Len(code)
      /\ skip \in Nat /\ skip >= 1
  <2>1. 1 \in Lines
    BY CodeAssumption DEF Init, Lines
  <2> QED BY <2>1, LineFacts DEF Init, Lines
<1>2. \A k \in Lines : Jump(k) => EncLen(code[k].enc, 0) \in Nat
  BY LineFacts, LengthMonotone DEF Init, Lines, Jump
<1>3. \A k \in Lines : code[k].is = "asm" => code[k].len \in Nat
  BY LineFacts DEF Init, Lines
<1>4. len \in [Lines -> Nat]
  BY <1>1, <1>2, <1>3 DEF Init
<1>5. Types
  BY <1>1, <1>4, CodeAssumption DEF Init, Types, Running
<1>6. Room
  BY <1>2 DEF Init, Room
<1>7. LabelsLong
  BY DEF Init, LabelsLong, Jump, Label
<1>8. InLabels
  BY <1>1 DEF Init, InLabels, Before, Exact, Ordered
<1> QED
  BY <1>5, <1>6, <1>7, <1>8 DEF Init, IInv, InEncode, InAlign, InRelabel, InReencode, FinalDone

\* The shape of the state, for the steps below.
LEMMA Shape ==
  ASSUME Types
  PROVE  /\ Len(code) \in Nat /\ Len(code) >= 1 /\ Lines = 1 .. Len(code)
         /\ skip \in Nat /\ skip >= 1 /\ StartPos \in Nat
         /\ \A k \in Lines :
              Jump(k) => /\ code[k].enc \in Encoder
                         /\ ~code[k].fixed => code[k].to \in Lines
                         /\ code[k].fixed => code[k].to \in Int /\ code[k].to <= StartPos
<1>1. 1 \in Lines
  BY CodeAssumption DEF Types, Lines
<1> QED BY <1>1, LineFacts, CodeAssumption DEF Types, Lines, Jump

\* A pass that writes the next entry of a table keeps what is known of it.
LEMMA TableStep ==
  ASSUME Types, i \in Lines, NEW T \in [Lines -> Int], NEW U,
         pos = Before(T, i), Exact(T, i - 1), Ordered(T, i - 1),
         U = [T EXCEPT ![i] = pos + len[i]]
  PROVE  /\ U \in [Lines -> Int] /\ pos + len[i] = Before(U, i + 1)
         /\ Exact(U, i) /\ Ordered(U, i)
<1>1. /\ Len(code) \in Nat /\ Lines = 1 .. Len(code) /\ i \in Int /\ StartPos \in Nat
      /\ len \in [Lines -> Nat] /\ pos \in Nat
  BY Shape DEF Types
<1>2. U \in [Lines -> Int] /\ U[i] = pos + len[i] /\ \A k \in Lines : k # i => U[k] = T[k]
  BY <1>1
<1>3. pos + len[i] = Before(U, i + 1)
  BY <1>1, <1>2 DEF Before
<1>4. ASSUME NEW k \in Lines, k < i
      PROVE  /\ k <= i - 1 /\ T[k] = Before(T, k) + len[k] /\ Before(U, k) = Before(T, k)
             /\ StartPos + len[k] <= T[k]
             /\ \A j \in Lines : j < k => T[j] + len[k] <= T[k]
  <2>1. k <= i - 1
    BY <1>1, <1>4
  <2>2. T[k] = Before(T, k) + len[k]
    BY <2>1 DEF Exact
  <2>3. Before(U, k) = Before(T, k)
    BY <1>1, <1>2, <1>4 DEF Before
  <2> QED BY <2>1, <2>2, <2>3 DEF Ordered
<1>5. Before(U, i) = pos
  BY <1>1, <1>2 DEF Before
<1>6. Exact(U, i)
  <2>1. ASSUME NEW k \in Lines, k <= i PROVE U[k] = Before(U, k) + len[k]
    <3>1. CASE k = i
      BY <3>1, <1>2, <1>5
    <3>2. CASE k < i
      BY <3>2, <1>2, <1>4
    <3> QED BY <2>1, <3>1, <3>2, <1>1
  <2> QED BY <2>1 DEF Exact
<1>7. StartPos <= pos /\ \A j \in Lines : j < i => T[j] <= pos
  <2>1. CASE i = 1
    BY <2>1, <1>1 DEF Before
  <2>2. CASE i # 1
    <3>1. i - 1 \in Lines /\ i - 1 < i /\ pos = T[i - 1] /\ len[i - 1] \in Nat
      BY <2>2, <1>1 DEF Before
    <3>2. StartPos <= pos
      BY <3>1, <1>1, <1>4
    <3>3. ASSUME NEW j \in Lines, j < i PROVE T[j] <= pos
      <4>1. CASE j = i - 1
        BY <4>1, <3>1, <1>1
      <4>2. CASE j < i - 1
        <5>1. T[j] + len[i - 1] <= T[i - 1]
          BY <4>2, <3>1, <1>4
        <5> QED BY <5>1, <3>1, <1>1
      <4> QED BY <4>1, <4>2, <3>3, <1>1
    <3> QED BY <3>2, <3>3
  <2> QED BY <2>1, <2>2
<1>8. Ordered(U, i)
  <2>1. ASSUME NEW k \in Lines, k <= i
        PROVE  /\ StartPos + len[k] <= U[k]
               /\ \A j \in Lines : j < k => U[j] + len[k] <= U[k]
    <3>1. CASE k = i
      BY <3>1, <1>1, <1>2, <1>7
    <3>2. CASE k < i
      <4>1. \A j \in Lines : j < k => U[j] = T[j]
        BY <3>2, <1>1, <1>2
      <4> QED BY <3>2, <4>1, <1>2, <1>4
    <3> QED BY <2>1, <3>1, <3>2, <1>1
  <2> QED BY <2>1 DEF Ordered
<1> QED BY <1>2, <1>3, <1>6, <1>8

LEMMA LabelsStep ==
  ASSUME IInv, phase = "labels", compute_labels_alt, More
  PROVE  IInv'
<1> USE DEF IInv
<1>1. /\ Len(code) \in Nat /\ Lines = 1 .. Len(code) /\ i \in Lines /\ i + 1 \in 1 .. Len(code) + 1
      /\ len \in [Lines -> Nat] /\ pos \in Nat /\ len[i] \in Nat
  BY Shape DEF Types, More
<1>2. /\ pos' = pos + len[i] /\ i' = i + 1 /\ labs' = [labs EXCEPT ![i] = pos + len[i]] /\ again' = again
      /\ skip' = skip /\ code' = code /\ len' = len /\ w' = w /\ done' = done
      /\ clock' = clock /\ phase' = phase
  BY DEF compute_labels_alt, Pass
<1>3. Types'
  BY <1>1, <1>2 DEF Types, Lines
<1>4. Room' /\ LabelsLong'
  BY <1>2 DEF Room, LabelsLong, Lines, Jump, Label
<1>5. InLabels'
  <2>1. pos + len[i] = Before(labs', i + 1) /\ Exact(labs', i) /\ Ordered(labs', i)
    BY <1>1, <1>2, TableStep DEF InLabels, Types
  <2>2. i' - 1 = i
    BY <1>1, <1>2
  <2> QED BY <2>1, <2>2, <1>2 DEF InLabels, Before, Exact, Ordered, Lines
<1> QED
  BY <1>2, <1>3, <1>4, <1>5 DEF InEncode, InAlign, InRelabel, InReencode, FinalDone

LEMMA RelabelStep ==
  ASSUME IInv, phase = "relabel", compute_labels_alt, More
  PROVE  IInv'
<1> USE DEF IInv
<1>1. /\ Len(code) \in Nat /\ Lines = 1 .. Len(code) /\ i \in Lines /\ i + 1 \in 1 .. Len(code) + 1
      /\ len \in [Lines -> Nat] /\ pos \in Nat /\ len[i] \in Nat /\ StartPos \in Nat
      /\ labs \in [Lines -> Int] /\ again \in [Lines -> Int]
  BY Shape DEF Types, More
<1>2. /\ pos' = pos + len[i] /\ i' = i + 1 /\ again' = [again EXCEPT ![i] = pos + len[i]] /\ labs' = labs
      /\ skip' = skip /\ code' = code /\ len' = len /\ w' = w /\ done' = done
      /\ clock' = clock /\ phase' = phase
  BY DEF compute_labels_alt, Pass
<1>3. Types'
  BY <1>1, <1>2 DEF Types, Lines
<1>4. Room' /\ LabelsLong'
  BY <1>2 DEF Room, LabelsLong, Lines, Jump, Label
<1>5. pos = Before(again, i) /\ Loose(labs) /\ Closer(i - 1)
  BY DEF InRelabel, Settled
<1>6. pos + len[i] = Before(again', i + 1) /\ Exact(again', i) /\ Ordered(again', i)
  BY <1>1, <1>2, TableStep DEF InRelabel, Types
<1>7. again'[i] = pos + len[i] /\ \A k \in Lines : k # i => again'[k] = again[k]
  BY <1>1, <1>2
<1>8. Before(labs, i) + len[i] <= labs[i]
  BY <1>1, <1>5 DEF Loose
<1>9. ASSUME NEW k \in Lines, k < i
      PROVE  /\ k <= i - 1 /\ again[k] <= labs[k]
             /\ \A j \in Lines : j < k => again[k] - again[j] <= labs[k] - labs[j]
  <2>1. k <= i - 1
    BY <1>1, <1>9
  <2> QED BY <2>1, <1>5 DEF Closer
<1>10. ASSUME i # 1
       PROVE  /\ i - 1 \in Lines /\ i - 1 < i /\ pos = again[i - 1]
              /\ labs[i - 1] + len[i] <= labs[i] /\ again[i - 1] <= labs[i - 1]
              /\ labs[i - 1] \in Int /\ again[i - 1] \in Int /\ labs[i] \in Int
  <2>1. i - 1 \in Lines /\ i - 1 < i
    BY <1>1, <1>10
  <2>2. pos = again[i - 1] /\ labs[i - 1] + len[i] <= labs[i]
    BY <1>5, <1>8, <1>10 DEF Before
  <2>3. again[i - 1] <= labs[i - 1]
    BY <2>1, <1>9
  <2> QED BY <2>1, <2>2, <2>3, <1>1
<1>11. again'[i] = pos + len[i] /\ again'[i] <= labs[i]
  <2>1. CASE i = 1
    BY <2>1, <1>5, <1>7, <1>8 DEF Before
  <2>2. CASE i # 1
    BY <2>2, <1>1, <1>7, <1>10
  <2> QED BY <2>1, <2>2
<1>12. ASSUME NEW j \in Lines, j < i PROVE again'[i] - again[j] <= labs[i] - labs[j]
  <2>1. i # 1 /\ labs[j] \in Int /\ again[j] \in Int
    BY <1>1, <1>12
  <2>2. again[i - 1] - again[j] <= labs[i - 1] - labs[j]
    <3>1. CASE j = i - 1
      BY <3>1, <2>1
    <3>2. CASE j < i - 1
      BY <3>2, <2>1, <1>9, <1>10
    <3> QED BY <3>1, <3>2, <1>12, <1>1
  <2>3. again'[i] = again[i - 1] + len[i]
    BY <2>1, <1>10, <1>11
  <2>4. /\ labs[i - 1] + len[i] <= labs[i] /\ len[i] \in Int
        /\ labs[i - 1] \in Int /\ again[i - 1] \in Int /\ labs[i] \in Int
    BY <2>1, <1>1, <1>10
  <2> QED BY <2>1, <2>2, <2>3, <2>4
<1>13. ASSUME NEW k \in Lines, k <= i
       PROVE  /\ again'[k] <= labs[k]
              /\ \A j \in Lines : j < k => again'[k] - again'[j] <= labs[k] - labs[j]
  <2>1. CASE k = i
    <3>1. \A j \in Lines : j < i => again'[j] = again[j]
      BY <1>1, <1>7
    <3> QED BY <2>1, <3>1, <1>11, <1>12
  <2>2. CASE k < i
    <3>1. again'[k] = again[k] /\ \A j \in Lines : j < k => again'[j] = again[j]
      BY <2>2, <1>1, <1>7
    <3> QED BY <2>2, <3>1, <1>9
  <2> QED BY <1>13, <2>1, <2>2, <1>1
<1>14. InRelabel'
  <2>1. i' - 1 = i
    BY <1>1, <1>2
  <2>2. Settled' /\ Encoded(1)'
    BY <1>2 DEF InRelabel, Settled, Loose, Ordered, Encoded, Target, Before, Lines, Jump
  <2>3. /\ (pos = Before(again, i))' /\ Exact(again, i - 1)' /\ Ordered(again, i - 1)'
    BY <2>1, <1>2, <1>6 DEF Before, Exact, Ordered, Lines
  <2>4. Closer(i - 1)'
    <3>1. Lines' = Lines /\ labs' = labs
      BY <1>2 DEF Lines
    <3> QED BY <3>1, <2>1, <1>13 DEF Closer
  <2> QED BY <2>2, <2>3, <2>4 DEF InRelabel
<1> QED
  BY <1>2, <1>3, <1>4, <1>14 DEF InLabels, InEncode, InAlign, InReencode, FinalDone

\* A pass has ended, and the next begins at the first line.
LEMMA PassFacts ==
  ASSUME Types, NEW next, Pass(next)
  PROVE  /\ i = Len(code) + 1 /\ i' = 1 /\ pos' = StartPos /\ phase' = next
         /\ skip' = skip /\ code' = code
         /\ Len(code) \in Nat /\ Len(code) >= 1 /\ Lines = 1 .. Len(code)
         /\ StartPos \in Nat /\ i' \in 1 .. Len(code) + 1 /\ i - 1 = Len(code)
         /\ \A T : pos' = Before(T, i')
  BY Shape DEF Types, Pass, More, Before

LEMMA LabelsEnd ==
  ASSUME IInv, phase = "labels", compute_labels_alt, ~More
  PROVE  IInv'
<1> USE DEF IInv
<1>1. /\ Pass("encode") /\ done' = TRUE
      /\ len' = len /\ w' = w /\ labs' = labs /\ again' = again /\ clock' = clock
  BY DEF compute_labels_alt
<1>2. /\ i = Len(code) + 1 /\ i' = 1 /\ pos' = StartPos /\ phase' = "encode"
      /\ skip' = skip /\ code' = code
      /\ Len(code) \in Nat /\ Len(code) >= 1 /\ Lines = 1 .. Len(code)
      /\ StartPos \in Nat /\ i' \in 1 .. Len(code) + 1 /\ i - 1 = Len(code)
      /\ pos' = Before(labs, i')
  BY <1>1, PassFacts
<1>3. Types'
  BY <1>1, <1>2 DEF Types, Lines, Running
<1>4. Room' /\ LabelsLong'
  BY <1>1, <1>2 DEF Room, LabelsLong, Lines, Jump, Label
<1>5. InEncode'
  <2>1. Exact(labs, Len(code)) /\ Ordered(labs, Len(code))
    BY <1>2 DEF InLabels
  <2>2. \A k \in Lines : ~(k < 1)
    BY <1>2
  <2> QED BY <2>1, <2>2, <1>1, <1>2 DEF InEncode, Exact, Ordered, Before, Lines
<1> QED
  BY <1>1, <1>2, <1>3, <1>4, <1>5 DEF InLabels, InAlign, InRelabel, InReencode, FinalDone

LEMMA RelabelEnd ==
  ASSUME IInv, phase = "relabel", compute_labels_alt, ~More
  PROVE  IInv'
<1> USE DEF IInv
<1>1. /\ Pass("reencode") /\ done' = TRUE
      /\ len' = len /\ w' = w /\ labs' = labs /\ again' = again /\ clock' = clock
  BY DEF compute_labels_alt
<1>2. /\ i = Len(code) + 1 /\ i' = 1 /\ pos' = StartPos /\ phase' = "reencode"
      /\ skip' = skip /\ code' = code
      /\ Len(code) \in Nat /\ Len(code) >= 1 /\ Lines = 1 .. Len(code)
      /\ StartPos \in Nat /\ i' \in 1 .. Len(code) + 1 /\ i - 1 = Len(code)
      /\ pos' = Before(again, i')
  BY <1>1, PassFacts
<1>3. Types'
  BY <1>1, <1>2 DEF Types, Lines, Running
<1>4. Room' /\ LabelsLong'
  BY <1>1, <1>2 DEF Room, LabelsLong, Lines, Jump, Label
<1>5. InReencode'
  <2>1. /\ Settled /\ Encoded(1)
        /\ Exact(again, Len(code)) /\ Ordered(again, Len(code)) /\ Closer(Len(code))
    BY <1>2 DEF InRelabel
  <2>2. Settled' /\ Encoded(i)'
    BY <2>1, <1>1, <1>2 DEF Settled, Loose, Ordered, Encoded, Target, Before, Lines, Jump
  <2>3. Exact(again, Len(code))' /\ Ordered(again, Len(code))' /\ Closer(Len(code))'
    BY <2>1, <1>1, <1>2 DEF Exact, Ordered, Closer, Before, Lines
  <2>4. (pos = Before(again, i))'
    BY <1>1, <1>2 DEF Before
  <2> QED BY <2>2, <2>3, <2>4, <1>1 DEF InReencode
<1> QED
  BY <1>1, <1>2, <1>3, <1>4, <1>5 DEF InLabels, InEncode, InAlign, InRelabel, FinalDone

LEMMA EncodeStep ==
  ASSUME IInv, phase = "encode", enc_lines_again
  PROVE  IInv'
<1> USE DEF IInv
<1>1. /\ Len(code) \in Nat /\ Lines = 1 .. Len(code) /\ i \in Lines /\ i + 1 \in 1 .. Len(code) + 1
      /\ len \in [Lines -> Nat] /\ w \in [Lines -> Int] /\ pos \in Nat /\ len[i] \in Nat
      /\ labs \in [Lines -> Int]
  BY Shape DEF Types, More, enc_lines_again
<1>2. /\ i' = i + 1 /\ skip' = skip /\ code' = code /\ labs' = labs /\ again' = again
      /\ clock' = clock /\ phase' = phase
  BY DEF enc_lines_again
<1>3. ASSUME done'
      PROVE  done /\ len' = len /\ pos' = pos + len[i]
             /\ (Jump(i) => w' = [w EXCEPT ![i] = Target(labs, i) - pos])
             /\ (~Jump(i) => w' = w)
  <2>1. CASE Jump(i)
    <3>1. enc_line_again(labs)
      BY <2>1 DEF enc_lines_again
    <3> DEFINE w1 == Target(labs, i) - pos
               l1 == IF w[i] = w1 THEN len[i] ELSE AtLeast(EncLen(code[i].enc, w1), len[i])
    <3>2. /\ w' = [w EXCEPT ![i] = w1] /\ len' = [len EXCEPT ![i] = l1]
          /\ done' = (done /\ l1 = len[i]) /\ pos' = pos + l1
      BY <3>1 DEF enc_line_again, get_jump_offset
    <3> HIDE DEF l1
    <3>3. done /\ l1 = len[i]
      BY <3>2, <1>3
    <3> QED BY <2>1, <3>2, <3>3, <1>1
  <2>2. CASE ~Jump(i)
    BY <2>2, <1>3 DEF enc_lines_again
  <2> QED BY <2>1, <2>2
<1>4. /\ len' \in [Lines -> Nat] /\ w' \in [Lines -> Int] /\ pos' \in Nat /\ done' \in BOOLEAN
      /\ \A k \in Lines : k # i \/ ~Jump(i) => len'[k] = len[k] /\ w'[k] = w[k]
      /\ Jump(i) => EncLen(code[i].enc, w'[i]) <= len'[i]
  <2>1. CASE Jump(i)
    <3>1. enc_line_again(labs)
      BY <2>1 DEF enc_lines_again
    <3> DEFINE w1 == Target(labs, i) - pos
               l1 == IF w[i] = w1 THEN len[i] ELSE AtLeast(EncLen(code[i].enc, w1), len[i])
    <3>2. /\ w' = [w EXCEPT ![i] = w1] /\ len' = [len EXCEPT ![i] = l1]
          /\ done' = (done /\ l1 = len[i]) /\ pos' = pos + l1
      BY <3>1 DEF enc_line_again, get_jump_offset
    <3>3. w1 \in Int
      BY <2>1, <1>1, Shape DEF Target
    <3>4. EncLen(code[i].enc, w1) \in Nat
      BY <2>1, <3>3, <1>1, Shape, LengthMonotone
    <3>5. w[i] = w1 => EncLen(code[i].enc, w1) <= len[i]
      BY <2>1, <1>1 DEF Room
    <3> HIDE DEF w1
    <3>6. l1 \in Nat /\ EncLen(code[i].enc, w1) <= l1
      BY <3>4, <3>5, <1>1 DEF AtLeast
    <3> HIDE DEF l1
    <3>7. len'[i] = l1 /\ w'[i] = w1
      BY <3>2, <1>1
    <3> QED BY <2>1, <3>2, <3>3, <3>6, <3>7, <1>1 DEF Types
  <2>2. CASE ~Jump(i)
    BY <2>2, <1>1 DEF enc_lines_again, Types
  <2> QED BY <2>1, <2>2
<1>5. Types'
  BY <1>1, <1>2, <1>4 DEF Types, Lines
<1>6. Room'
  <2>1. ASSUME NEW k \in Lines, Jump(k) PROVE EncLen(code[k].enc, w'[k]) <= len'[k]
    BY <2>1, <1>4 DEF Room
  <2> QED BY <2>1, <1>2 DEF Room, Lines, Jump
<1>7. LabelsLong'
  <2>1. ASSUME NEW k \in Lines, Label(k) PROVE len'[k] = len[k]
    BY <2>1, <1>4 DEF Label, Jump
  <2> QED BY <2>1, <1>2 DEF LabelsLong, Lines, Label
<1>8. InEncode'
  <2> SUFFICES ASSUME done' PROVE InEncode'
    BY DEF InEncode
  <2>1. /\ pos = Before(labs, i) /\ Exact(labs, Len(code)) /\ Ordered(labs, Len(code))
        /\ \A k \in Lines : Jump(k) /\ k < i => w[k] = Target(labs, k) - (labs[k] - len[k])
        /\ len' = len /\ pos' = pos + len[i]
        /\ (Jump(i) => w' = [w EXCEPT ![i] = Target(labs, i) - pos])
        /\ (~Jump(i) => w' = w)
    BY <1>3 DEF InEncode
  <2>2. labs[i] = pos + len[i] /\ labs[i] \in Int
    BY <2>1, <1>1 DEF Exact
  <2>3. pos' = Before(labs, i + 1)
    BY <2>1, <2>2, <1>1 DEF Before
  <2>4. ASSUME NEW k \in Lines, Jump(k), k < i + 1
        PROVE  w'[k] = Target(labs, k) - (labs[k] - len[k])
    <3>1. CASE k = i
      <4>1. w'[i] = Target(labs, i) - pos
        BY <3>1, <2>1, <2>4, <1>1
      <4>2. pos = labs[i] - len[i]
        BY <2>2, <1>1
      <4> QED BY <4>1, <4>2, <3>1
    <3>2. CASE k < i
      <4>1. w'[k] = w[k]
        BY <3>2, <2>1, <1>1
      <4> QED BY <4>1, <3>2, <2>1, <2>4
    <3> QED BY <3>1, <3>2, <2>4, <1>1
  <2>5. Exact(labs, Len(code))' /\ Ordered(labs, Len(code))' /\ (pos = Before(labs, i))'
    BY <2>1, <2>3, <1>2 DEF Exact, Ordered, Before, Lines
  <2> QED BY <2>1, <2>4, <2>5, <1>2 DEF InEncode, Target, Lines, Jump
<1> QED
  BY <1>2, <1>5, <1>6, <1>7, <1>8 DEF InLabels, InAlign, InRelabel, InReencode, FinalDone

\* In the last encoding every offset is between 0 and the one before it.
LEMMA OffsetCloser ==
  ASSUME IInv, phase = "reencode", i \in Lines, Jump(i),
         NEW w1, w1 = Target(again, i) - pos
  PROVE  /\ w1 \in Int /\ w[i] \in Int
         /\ (0 <= w1 /\ w1 <= w[i]) \/ (w[i] <= w1 /\ w1 <= 0)
<1> USE DEF IInv
<1>1. /\ Len(code) \in Nat /\ Lines = 1 .. Len(code) /\ StartPos \in Nat
      /\ labs \in [Lines -> Int] /\ again \in [Lines -> Int] /\ len \in [Lines -> Nat]
      /\ (~code[i].fixed => code[i].to \in Lines)
      /\ (code[i].fixed => code[i].to \in Int /\ code[i].to <= StartPos)
  BY Shape DEF Types
<1>2. /\ len[i] \in Nat /\ again[i] \in Int /\ labs[i] \in Int /\ i <= Len(code)
  BY <1>1
<1>3. /\ w[i] = Target(labs, i) - (labs[i] - len[i])
      /\ pos = Before(again, i) /\ Ordered(again, Len(code)) /\ Closer(Len(code))
  BY <1>1 DEF InReencode, Encoded
<1>4. again[i] = pos + len[i]
  BY <1>2, <1>3 DEF InReencode, Exact
<1>5. pos = again[i] - len[i] /\ pos \in Int
  BY <1>2, <1>4 DEF Types
<1>6. again[i] <= labs[i] /\ StartPos + len[i] <= again[i]
  BY <1>2, <1>3 DEF Closer, Ordered
<1>7. CASE code[i].fixed
  <2>1. w1 = code[i].to - (again[i] - len[i]) /\ w[i] = code[i].to - (labs[i] - len[i])
    BY <1>3, <1>5, <1>7 DEF Target
  <2> QED BY <2>1, <1>1, <1>2, <1>6, <1>7
<1>8. CASE ~code[i].fixed
  <2> DEFINE t == code[i].to
  <2>1. /\ w1 = again[t] - (again[i] - len[i]) /\ w[i] = labs[t] - (labs[i] - len[i])
    BY <1>3, <1>5, <1>8 DEF Target
  <2>2. t \in Lines /\ t <= Len(code)
    BY <1>1, <1>8
  <2> HIDE DEF t
  <2>3. again[t] \in Int /\ labs[t] \in Int /\ len[t] \in Nat
    BY <2>2, <1>1
  <2>4. CASE t < i
    <3>1. again[i] - again[t] <= labs[i] - labs[t] /\ again[t] + len[i] <= again[i]
      BY <2>2, <2>4, <1>2, <1>3 DEF Closer, Ordered
    <3>2. w1 \in Int /\ w[i] \in Int
      BY <2>1, <2>3, <1>2
    <3>3. w1 <= 0
      BY <3>1, <2>1, <2>3, <1>2
    <3>4. w[i] <= w1
      BY <3>1, <2>1, <2>3, <1>2
    <3> QED BY <3>2, <3>3, <3>4
  <2>5. CASE t > i
    <3>1. again[t] - again[i] <= labs[t] - labs[i] /\ again[i] + len[t] <= again[t]
      BY <2>2, <2>5, <1>2, <1>3 DEF Closer, Ordered
    <3>2. w1 \in Int /\ w[i] \in Int
      BY <2>1, <2>3, <1>2
    <3>3. 0 <= w1
      BY <3>1, <2>1, <2>3, <1>2
    <3>4. w1 <= w[i]
      BY <3>1, <2>1, <2>3, <1>2
    <3> QED BY <3>2, <3>3, <3>4
  <2>6. CASE t = i
    BY <2>6, <2>1, <1>2
  <2> QED BY <2>2, <2>4, <2>5, <2>6, <1>1
<1> QED BY <1>7, <1>8

LEMMA ReencodeStep ==
  ASSUME IInv, phase = "reencode", enc_lines_again
  PROVE  IInv'
<1> USE DEF IInv
<1>1. /\ Len(code) \in Nat /\ Lines = 1 .. Len(code) /\ i \in Lines /\ i + 1 \in 1 .. Len(code) + 1
      /\ len \in [Lines -> Nat] /\ w \in [Lines -> Int] /\ pos \in Nat /\ len[i] \in Nat
      /\ labs \in [Lines -> Int] /\ again \in [Lines -> Int]
  BY Shape DEF Types, More, enc_lines_again
<1>2. /\ i' = i + 1 /\ skip' = skip /\ code' = code /\ labs' = labs /\ again' = again
      /\ clock' = clock /\ phase' = phase
  BY DEF enc_lines_again
<1>3. /\ len' = len /\ done' = done /\ pos' = pos + len[i]
      /\ w' \in [Lines -> Int] /\ \A k \in Lines : k # i => w'[k] = w[k]
      /\ Jump(i) => EncLen(code[i].enc, w'[i]) <= len[i]
  <2>1. CASE Jump(i)
    <3>1. enc_line_again(again)
      BY <2>1 DEF enc_lines_again
    <3> DEFINE w1 == Target(again, i) - pos
               l1 == IF w[i] = w1 THEN len[i] ELSE AtLeast(EncLen(code[i].enc, w1), len[i])
    <3>2. /\ w' = [w EXCEPT ![i] = w1] /\ len' = [len EXCEPT ![i] = l1]
          /\ done' = (done /\ l1 = len[i]) /\ pos' = pos + l1
      BY <3>1 DEF enc_line_again, get_jump_offset
    <3>3. /\ w1 \in Int /\ w[i] \in Int
          /\ (0 <= w1 /\ w1 <= w[i]) \/ (w[i] <= w1 /\ w1 <= 0)
      BY <2>1, <1>1, OffsetCloser
    <3>4. EncLen(code[i].enc, w[i]) <= len[i] /\ code[i].enc \in Encoder
      BY <2>1, <1>1, Shape DEF Room
    <3> HIDE DEF w1
    <3>5. /\ EncLen(code[i].enc, w1) \in Nat /\ EncLen(code[i].enc, w[i]) \in Nat
          /\ EncLen(code[i].enc, w1) <= EncLen(code[i].enc, w[i])
      BY <3>3, <3>4, LengthMonotone
    <3>6. EncLen(code[i].enc, w1) <= len[i] /\ l1 = len[i]
      BY <3>4, <3>5, <1>1 DEF AtLeast
    <3> HIDE DEF l1
    <3>7. len' = len /\ w'[i] = w1 /\ done \in BOOLEAN
      BY <3>2, <3>6, <1>1 DEF Types
    <3> QED BY <2>1, <3>2, <3>3, <3>6, <3>7, <1>1
  <2>2. CASE ~Jump(i)
    BY <2>2, <1>1 DEF enc_lines_again
  <2> QED BY <2>1, <2>2
<1>4. Types'
  BY <1>1, <1>2, <1>3 DEF Types, Lines
<1>5. Room'
  <2>1. ASSUME NEW k \in Lines, Jump(k) PROVE EncLen(code[k].enc, w'[k]) <= len'[k]
    BY <2>1, <1>3 DEF Room
  <2> QED BY <2>1, <1>2 DEF Room, Lines, Jump
<1>6. LabelsLong'
  BY <1>2 DEF LabelsLong
<1>7. InReencode'
  <2>1. /\ Settled /\ Encoded(i) /\ pos = Before(again, i) /\ done
        /\ Exact(again, Len(code)) /\ Ordered(again, Len(code)) /\ Closer(Len(code))
    BY DEF InReencode
  <2>2. pos' = Before(again, i + 1)
    <3>1. again[i] = Before(again, i) + len[i]
      BY <2>1, <1>1 DEF Exact
    <3> QED BY <3>1, <2>1, <1>1, <1>3 DEF Before
  <2>3. ASSUME NEW k \in Lines, Jump(k), i + 1 <= k
        PROVE  w'[k] = Target(labs, k) - (labs[k] - len[k])
    <3>1. i <= k /\ k # i
      BY <2>3, <1>1
    <3> QED BY <3>1, <2>1, <2>3, <1>3 DEF Encoded
  <2>4. Encoded(i)'
    BY <2>3, <1>2, <1>3 DEF Encoded, Target, Lines, Jump
  <2>5. Settled' /\ Exact(again, Len(code))' /\ Ordered(again, Len(code))' /\ Closer(Len(code))'
    BY <2>1, <1>2, <1>3 DEF Settled, Loose, Exact, Ordered, Closer, Before, Lines
  <2>6. (pos = Before(again, i))'
    BY <2>2, <1>2 DEF Before
  <2> QED BY <2>1, <2>4, <2>5, <2>6, <1>3 DEF InReencode
<1> QED
  BY <1>2, <1>4, <1>5, <1>6, <1>7 DEF InLabels, InEncode, InAlign, InRelabel, FinalDone

LEMMA RepeatStep ==
  ASSUME IInv, Repeat
  PROVE  IInv'
<1> USE DEF IInv
<1>1. /\ phase = "encode" /\ ~More
      /\ skip' = skip /\ code' = code /\ len' = len /\ w' = w /\ labs' = labs /\ again' = again
      /\ done' = done
  BY DEF Repeat, Pass
<1>2. \/ Pass("align") /\ done /\ clock' = clock
      \/ Pass("clock") /\ clock' = clock
      \/ Pass("labels") /\ clock # 0 /\ clock' = clock - 1
  BY DEF Repeat
<1>3. Room'
  BY <1>1 DEF Room, Lines, Jump
<1>4. CASE Pass("align") /\ done /\ clock' = clock
  <2>1. /\ i = Len(code) + 1 /\ i' = 1 /\ phase' = "align" /\ pos' = StartPos
        /\ Len(code) \in Nat /\ Lines = 1 .. Len(code) /\ i' \in 1 .. Len(code) + 1 /\ StartPos \in Nat
    BY <1>4, PassFacts
  <2>2. Types'
    BY <1>1, <1>4, <2>1 DEF Types, Lines, Running
  <2>3. LabelsLong'
    BY <1>1, <2>1 DEF LabelsLong, Lines, Label
  <2>4. InAlign'
    <3>1. /\ Exact(labs, Len(code)) /\ Ordered(labs, Len(code))
          /\ \A k \in Lines : Jump(k) /\ k < i => w[k] = Target(labs, k) - (labs[k] - len[k])
      BY <1>1, <1>4 DEF InEncode
    <3>2. Loose(labs)
      <4>1. ASSUME NEW k \in Lines PROVE Before(labs, k) + len[k] <= labs[k]
        <5>1. labs[k] = Before(labs, k) + len[k] /\ labs[k] \in Int
          BY <3>1, <2>1 DEF Exact, Types
        <5> QED BY <5>1
      <4> QED BY <4>1 DEF Loose
    <3>3. Encoded(1)
      BY <3>1, <2>1 DEF Encoded
    <3> QED
      BY <3>1, <3>2, <3>3, <1>1 DEF InAlign, Settled, Loose, Ordered, Encoded, Target, Before, Lines, Jump
  <2> QED
    BY <1>3, <2>1, <2>2, <2>3, <2>4 DEF InLabels, InEncode, InRelabel, InReencode, FinalDone
<1>5. CASE Pass("clock") /\ clock' = clock
  <2>1. i' \in 1 .. Len(code) + 1 /\ phase' = "clock" /\ pos' = StartPos /\ StartPos \in Nat
    BY <1>5, PassFacts
  <2>2. Types'
    BY <1>1, <1>5, <2>1 DEF Types, Lines
  <2> QED
    BY <1>3, <2>1, <2>2
    DEF LabelsLong, InLabels, InEncode, InAlign, InRelabel, InReencode, FinalDone
<1>6. CASE Pass("labels") /\ clock # 0 /\ clock' = clock - 1
  <2>1. /\ i' = 1 /\ i' \in 1 .. Len(code) + 1 /\ phase' = "labels" /\ pos' = StartPos
        /\ StartPos \in Nat /\ Lines = 1 .. Len(code) /\ Len(code) \in Nat
    BY <1>6, PassFacts
  <2>2. Types'
    BY <1>1, <1>6, <2>1 DEF Types, Lines, Running
  <2>3. LabelsLong'
    BY <1>1, <2>1 DEF LabelsLong, Lines, Label
  <2>4. InLabels'
    <3>1. \A k \in Lines : ~(k <= i' - 1)
      BY <2>1
    <3>2. Lines' = Lines
      BY <1>1 DEF Lines
    <3> QED BY <3>1, <3>2, <2>1 DEF InLabels, Exact, Ordered, Before
  <2> QED
    BY <1>3, <2>1, <2>2, <2>3, <2>4 DEF InEncode, InAlign, InRelabel, InReencode, FinalDone
<1> QED BY <1>2, <1>4, <1>5, <1>6

\* Only labels change their length, and none gets longer.
LEMMA AlignStep ==
  ASSUME IInv, phase = "align", upd_lab_len, More
  PROVE  IInv'
<1> USE DEF IInv
<1>1. /\ Len(code) \in Nat /\ Lines = 1 .. Len(code) /\ i \in Lines /\ i + 1 \in 1 .. Len(code) + 1
      /\ len \in [Lines -> Nat] /\ pos \in Nat /\ len[i] \in Nat /\ skip \in Nat /\ skip >= 1
      /\ labs \in [Lines -> Int] /\ StartPos \in Nat
  BY Shape DEF Types, More
<1>2. /\ len' = (IF Label(i) THEN [len EXCEPT ![i] = Padding(pos)] ELSE len)
      /\ pos' = pos + len'[i] /\ i' = i + 1
      /\ skip' = skip /\ code' = code /\ labs' = labs /\ again' = again /\ w' = w /\ done' = done
      /\ clock' = clock /\ phase' = phase
  BY DEF upd_lab_len, Pass
<1>3. Padding(pos) \in Nat /\ Padding(pos) <= 1
  BY <1>1 DEF Padding
<1>4. /\ len' \in [Lines -> Nat] /\ len'[i] \in Nat /\ pos' \in Nat
  BY <1>1, <1>2, <1>3
<1>5. \A k \in Lines : k # i \/ ~Label(k) => len'[k] = len[k]
  BY <1>1, <1>2
<1>6. \A k \in Lines : len'[k] <= len[k]
  <2>1. ASSUME NEW k \in Lines PROVE len'[k] <= len[k]
    <3>1. CASE k = i /\ Label(i)
      <4>1. len[i] = skip /\ len'[i] = Padding(pos)
        BY <3>1, <1>1, <1>2 DEF LabelsLong
      <4> QED BY <3>1, <4>1, <1>1, <1>3
    <3>2. CASE ~(k = i /\ Label(i))
      BY <3>2, <1>1, <1>5
    <3> QED BY <3>1, <3>2
  <2> QED BY <2>1
<1>7. Types'
  BY <1>1, <1>2, <1>4 DEF Types, Lines
<1>8. Room'
  <2>1. ASSUME NEW k \in Lines, Jump(k) PROVE EncLen(code[k].enc, w[k]) <= len'[k]
    BY <2>1, <1>5 DEF Room, Jump, Label
  <2> QED BY <2>1, <1>2 DEF Room, Lines, Jump
<1>9. LabelsLong'
  <2>1. ASSUME NEW k \in Lines, Label(k), i + 1 <= k PROVE len'[k] = skip
    BY <2>1, <1>1, <1>5 DEF LabelsLong
  <2> QED BY <2>1, <1>2 DEF LabelsLong, Lines, Label
<1>10. InAlign'
  <2>1. Loose(labs) /\ Ordered(labs, Len(code)) /\ Encoded(1)
    BY DEF InAlign, Settled
  <2>2. ASSUME NEW k \in Lines PROVE Before(labs, k) \in Int /\ Before(labs, k) + len'[k] <= labs[k]
    <3>1. len[k] \in Nat /\ labs[k] \in Int
      BY <1>1
    <3>2. len'[k] \in Nat
      BY <1>4
    <3>3. Before(labs, k) \in Int
      <4>1. CASE k = 1
        BY <4>1, <1>1 DEF Before
      <4>2. CASE k # 1
        <5>1. k - 1 \in Lines
          BY <4>2, <1>1
        <5> QED BY <4>2, <5>1, <1>1 DEF Before
      <4> QED BY <4>1, <4>2
    <3>4. Before(labs, k) + len[k] <= labs[k] /\ len'[k] <= len[k]
      BY <2>1, <1>6 DEF Loose
    <3> QED BY <3>1, <3>2, <3>3, <3>4
  <2>3. ASSUME NEW k \in Lines, k <= Len(code)
        PROVE  /\ StartPos + len'[k] <= labs[k]
               /\ \A j \in Lines : j < k => labs[j] + len'[k] <= labs[k]
    <3>1. len[k] \in Nat /\ len'[k] \in Nat /\ labs[k] \in Int /\ len'[k] <= len[k]
      BY <1>1, <1>4, <1>6
    <3>2. /\ StartPos + len[k] <= labs[k]
          /\ \A j \in Lines : j < k => labs[j] + len[k] <= labs[k]
      BY <2>1, <2>3 DEF Ordered
    <3>3. ASSUME NEW j \in Lines, j < k PROVE labs[j] + len'[k] <= labs[k]
      <4>1. labs[j] + len[k] <= labs[k] /\ labs[j] \in Int
        BY <3>2, <3>3, <1>1
      <4> QED BY <4>1, <3>1
    <3>4. StartPos + len'[k] <= labs[k]
      BY <3>1, <3>2, <1>1
    <3> QED BY <3>3, <3>4
  <2>4. ASSUME NEW k \in Lines, Jump(k), 1 <= k
        PROVE  w[k] = Target(labs, k) - (labs[k] - len'[k])
    <3>1. len'[k] = len[k]
      BY <2>4, <1>5 DEF Jump, Label
    <3> QED BY <3>1, <2>1, <2>4 DEF Encoded
  <2>5. Loose(labs)' /\ Ordered(labs, Len(code))'
    BY <2>2, <2>3, <1>2 DEF Loose, Ordered, Before, Lines
  <2>6. Encoded(1)'
    BY <2>4, <1>2 DEF Encoded, Target, Lines, Jump
  <2> QED BY <2>5, <2>6 DEF InAlign, Settled
<1> QED
  BY <1>2, <1>7, <1>8, <1>9, <1>10 DEF InLabels, InEncode, InRelabel, InReencode, FinalDone

LEMMA AlignEnd ==
  ASSUME IInv, phase = "align", upd_lab_len, ~More
  PROVE  IInv'
<1> USE DEF IInv
<1>1. /\ Pass("relabel")
      /\ len' = len /\ w' = w /\ labs' = labs /\ again' = again /\ clock' = clock /\ done' = done
  BY DEF upd_lab_len
<1>2. /\ i' = 1 /\ pos' = StartPos /\ phase' = "relabel"
      /\ skip' = skip /\ code' = code
      /\ Len(code) \in Nat /\ Lines = 1 .. Len(code)
      /\ StartPos \in Nat /\ i' \in 1 .. Len(code) + 1
      /\ pos' = Before(again, i')
  BY <1>1, PassFacts
<1>3. Types'
  BY <1>1, <1>2 DEF Types, Lines, Running
<1>4. Room' /\ LabelsLong'
  BY <1>1, <1>2 DEF Room, LabelsLong, Lines, Jump
<1>5. InRelabel'
  <2>1. Settled' /\ Encoded(1)'
    BY <1>1, <1>2 DEF InAlign, Settled, Loose, Ordered, Encoded, Target, Before, Lines, Jump
  <2>2. (pos = Before(again, i))'
    BY <1>1, <1>2 DEF Before
  <2>3. \A k \in Lines : ~(k <= i' - 1)
    BY <1>2
  <2>4. Lines' = Lines
    BY <1>2 DEF Lines
  <2> QED BY <2>1, <2>2, <2>3, <2>4 DEF InRelabel, Exact, Ordered, Closer
<1> QED
  BY <1>1, <1>2, <1>3, <1>4, <1>5 DEF InLabels, InEncode, InAlign, InReencode, FinalDone

LEMMA FinishStep ==
  ASSUME IInv, Finish
  PROVE  IInv'
<1> USE DEF IInv
<1>1. done /\ phase = "reencode" /\ len' = pad_code
      /\ w' = w /\ labs' = labs /\ again' = again /\ done' = done /\ clock' = clock
  BY DEF Finish, InReencode
<1>2. PICK result \in {"done", "refused"} : Pass(result)
  BY <1>1 DEF Finish
<1>3. /\ i' \in 1 .. Len(code) + 1 /\ pos' = StartPos /\ StartPos \in Nat /\ phase' = result
      /\ skip' = skip /\ code' = code /\ Len(code) \in Nat /\ Lines = 1 .. Len(code)
  BY <1>2, PassFacts
<1>4. ASSUME NEW j \in Lines
      PROVE  Nops(j) \in Nat
  <2>1. IsFiniteSet(Lines)
    BY <1>3, FS_Interval
  <2>2. IsFiniteSet(PaddingOf(j))
    BY <2>1, FS_Subset DEF PaddingOf
  <2>3. Cardinality(PaddingOf(j)) \in Nat /\ skip \in Nat
    BY <2>2, Shape, FS_CardinalityType
  <2> QED BY <2>3 DEF Nops
<1>5. len' \in [Lines -> Nat]
  BY <1>1, <1>4 DEF pad_code, Types
<1>6. Types'
  BY <1>1, <1>3, <1>5 DEF Types, Lines
<1>7. Room'
  <2>1. ASSUME NEW k \in Lines, Jump(k) PROVE EncLen(code[k].enc, w[k]) <= len'[k]
    <3>1. len'[k] = len[k] + Nops(k)
      BY <2>1, <1>1 DEF pad_code, Label, Jump
    <3>2. w[k] \in Int /\ len[k] \in Nat /\ code[k].enc \in Encoder
      BY <2>1, Shape DEF Types
    <3>3. EncLen(code[k].enc, w[k]) \in Nat
      BY <3>2, LengthMonotone
    <3>4. EncLen(code[k].enc, w[k]) <= len[k]
      BY <2>1 DEF Room
    <3> QED BY <3>1, <3>2, <3>3, <3>4, <1>4
  <2> QED BY <2>1, <1>1, <1>3 DEF Room, Lines, Jump
<1> QED
  BY <1>3, <1>6, <1>7
  DEF LabelsLong, InLabels, InEncode, InAlign, InRelabel, InReencode, FinalDone

LEMMA IInvStep == IInv /\ [Next]_vars => IInv'
<1> SUFFICES ASSUME IInv, [Next]_vars PROVE IInv'
  OBVIOUS
<1>1. CASE compute_labels_alt
  <2>1. phase \in {"labels", "relabel"}
    BY <1>1 DEF compute_labels_alt
  <2> QED BY <1>1, <2>1, LabelsStep, LabelsEnd, RelabelStep, RelabelEnd
<1>2. CASE enc_lines_again
  <2>1. phase \in {"encode", "reencode"}
    BY <1>2 DEF enc_lines_again
  <2> QED BY <1>2, <2>1, EncodeStep, ReencodeStep
<1>3. CASE upd_lab_len
  <2>1. phase = "align"
    BY <1>3 DEF upd_lab_len
  <2> QED BY <1>3, <2>1, AlignStep, AlignEnd
<1>4. CASE UNCHANGED vars
  BY <1>4
  DEF vars, IInv, Types, Room, LabelsLong, InLabels, InEncode, InAlign, InRelabel, InReencode,
      FinalDone, Settled, Exact, Ordered, Loose, Encoded, Closer, Before, Target, Lines, Jump, Label
<1> QED BY <1>1, <1>2, <1>3, <1>4, RepeatStep, FinishStep DEF Next

\* The final encoding, after labels are aligned, changes no length of an
\* instruction: "it ought to be impossible for done to be false here"
\* (lab_to_targetScript.sml:303).
THEOREM LastEncodingDone == Spec => []FinalDone
<1>1. IInv => FinalDone
  BY DEF IInv
<1> QED BY InitIInv, IInvStep, <1>1, PTL DEF Spec

------------------------------------------------------------------------------
(***************************************************************************)
(* The offsets are those of the code that is written.  Labels are given    *)
(* the padding their positions need, the second table of positions is that *)
(* of the lengths with this padding, and the last encoding uses it; to     *)
(* give the padding to the instruction before moves the end of nothing but *)
(* that instruction.                                                       *)
(***************************************************************************)
\* Every label has the padding that the position before it in T needs.
Aligned(T, m) == \A k \in Lines : k <= m /\ Label(k) => len[k] = Before(T, k) % 2

SectionsEmpty ==
  \A k \in Lines : code[k].is = "section" /\ phase \in Running => len[k] = 0

\* The positions of the pass that aligns are written down only by the next.
AlignKnown ==
  phase = "align" =>
    \E T \in [Lines -> Int] : Exact(T, i - 1) /\ Aligned(T, i - 1) /\ pos = Before(T, i)
RelabelKnown ==
  phase = "relabel" =>
    \E T \in [Lines -> Int] :
      /\ Exact(T, Len(code)) /\ Aligned(T, Len(code))
      /\ \A k \in Lines : k < i => again[k] = T[k]
ReencodeKnown ==
  phase = "reencode" =>
    /\ Aligned(again, Len(code))
    /\ \A k \in Lines : Jump(k) /\ k < i => w[k] = Target(again, k) - (again[k] - len[k])

\* E says where each line ends, and what is written agrees with it.
Ends(E) ==
  /\ E \in [0 .. Len(code) -> Int] /\ E[0] = StartPos
  /\ \A k \in Lines : E[k] = E[k - 1] + len[k]
Agrees(E) ==
  \A k \in Lines :
    /\ Label(k) => E[k] % 2 = 0
    /\ Jump(k) => w[k] = (IF code[k].fixed THEN code[k].to ELSE E[code[k].to]) - E[k - 1]
WrittenKnown == phase = "done" => \E E : Ends(E) /\ Agrees(E)

OffsetsInv ==
  /\ SectionsEmpty /\ AlignKnown /\ RelabelKnown /\ ReencodeKnown /\ WrittenKnown

LEMMA InitOffsets == Init => OffsetsInv
BY DEF Init, OffsetsInv, SectionsEmpty, AlignKnown, RelabelKnown, ReencodeKnown, WrittenKnown,
       Lines, Jump, Label

\* A step of the align pass.
LEMMA AlignOffsets ==
  ASSUME IInv, IInv', OffsetsInv, phase = "align", upd_lab_len, More
  PROVE  OffsetsInv'
<1>1. /\ Len(code) \in Nat /\ Lines = 1 .. Len(code) /\ i \in Lines
      /\ len \in [Lines -> Nat] /\ pos \in Nat /\ StartPos \in Nat
  BY Shape DEF IInv, Types, More
<1>2. /\ len' = (IF Label(i) THEN [len EXCEPT ![i] = Padding(pos)] ELSE len)
      /\ pos' = pos + len'[i] /\ i' = i + 1
      /\ skip' = skip /\ code' = code /\ phase' = phase
  BY DEF upd_lab_len, Pass
<1>3. len' \in [Lines -> Nat]
  BY <1>1, <1>2 DEF Padding
<1>4. \A k \in Lines : k # i \/ ~Label(k) => len'[k] = len[k]
  BY <1>1, <1>2
<1>5. SectionsEmpty'
  BY <1>2, <1>4 DEF SectionsEmpty, Lines, Label, OffsetsInv
<1>6. PICK T \in [Lines -> Int] : Exact(T, i - 1) /\ Aligned(T, i - 1) /\ pos = Before(T, i)
  BY DEF OffsetsInv, AlignKnown
<1>7. PICK U : U = [T EXCEPT ![i] = pos + len'[i]]
  OBVIOUS
<1>8. /\ U \in [Lines -> Int] /\ U[i] = pos + len'[i] /\ \A k \in Lines : k # i => U[k] = T[k]
  BY <1>1, <1>3, <1>6, <1>7
<1>9. \A k \in Lines : k <= i => Before(U, k) = Before(T, k)
  BY <1>1, <1>8 DEF Before
<1>10. pos' = Before(U, i + 1)
  BY <1>1, <1>2, <1>8 DEF Before
<1>11. ASSUME NEW k \in Lines, k <= i
       PROVE  /\ U[k] = Before(U, k) + len'[k]
              /\ Label(k) => len'[k] = Before(U, k) % 2
  <2>1. CASE k = i
    <3>1. Before(U, k) = pos
      BY <1>1, <1>6, <1>9, <2>1
    <3>2. Label(i) => len'[i] = pos % 2
      BY <1>1, <1>2 DEF Padding
    <3> QED BY <1>8, <2>1, <3>1, <3>2
  <2>2. CASE k # i
    <3>1. k <= i - 1 /\ k <= i
      BY <1>1, <1>11, <2>2
    <3>2. T[k] = Before(T, k) + len[k] /\ (Label(k) => len[k] = Before(T, k) % 2)
      BY <1>6, <3>1 DEF Exact, Aligned
    <3> QED BY <1>4, <1>8, <1>9, <2>2, <3>1, <3>2
  <2> QED BY <2>1, <2>2
<1>12. AlignKnown'
  <2>1. i' - 1 = i /\ Lines' = Lines
    BY <1>1, <1>2 DEF Lines
  <2>2. Exact(U, i - 1)' /\ Aligned(U, i - 1)'
    BY <1>2, <1>11, <2>1 DEF Exact, Aligned, Before, Label
  <2>3. (pos = Before(U, i))'
    BY <1>2, <1>10 DEF Before
  <2> QED BY <1>8, <2>1, <2>2, <2>3 DEF AlignKnown
<1> QED
  BY <1>2, <1>5, <1>12 DEF OffsetsInv, RelabelKnown, ReencodeKnown, WrittenKnown

\* A pass that begins with nothing written down.
LEMMA AlignBegins ==
  ASSUME IInv, OffsetsInv, Repeat
  PROVE  OffsetsInv'
<1>1. /\ phase = "encode" /\ ~More /\ UNCHANGED <<len, w, labs, again>>
      /\ \E next \in {"align", "clock", "labels"} : Pass(next)
  BY DEF Repeat, Pass
<1>2. PICK next \in {"align", "clock", "labels"} : Pass(next)
  BY <1>1
<1>3. /\ i' = 1 /\ pos' = StartPos /\ phase' = next /\ UNCHANGED <<skip, code, len>>
      /\ Len(code) \in Nat /\ Lines = 1 .. Len(code) /\ StartPos \in Nat
  BY <1>1, <1>2, Shape DEF Pass, IInv
<1>4. SectionsEmpty'
  BY <1>1, <1>3 DEF OffsetsInv, SectionsEmpty, Lines, Running
<1>5. AlignKnown'
  <2>1. PICK T : T = [k \in Lines |-> 0]
    OBVIOUS
  <2>2. T \in [Lines' -> Int]
    BY <1>3, <2>1 DEF Lines
  <2>3. \A k \in Lines' : ~(k <= i' - 1)
    BY <1>3 DEF Lines
  <2>4. Exact(T, i - 1)' /\ Aligned(T, i - 1)'
    BY <2>3 DEF Exact, Aligned
  <2>5. (pos = Before(T, i))'
    BY <1>3 DEF Before
  <2> QED BY <2>2, <2>4, <2>5 DEF AlignKnown
<1> QED BY <1>3, <1>4, <1>5 DEF OffsetsInv, RelabelKnown, ReencodeKnown, WrittenKnown

LEMMA RelabelBegins ==
  ASSUME IInv, OffsetsInv, phase = "align", upd_lab_len, ~More
  PROVE  OffsetsInv'
<1>1. /\ Pass("relabel") /\ UNCHANGED <<len, w, labs, again>>
  BY DEF upd_lab_len
<1>2. /\ i' = 1 /\ phase' = "relabel" /\ UNCHANGED <<skip, code, len>>
      /\ i = Len(code) + 1 /\ i - 1 = Len(code)
      /\ Len(code) \in Nat /\ Lines = 1 .. Len(code)
  BY <1>1, PassFacts, Shape DEF Pass, IInv
<1>3. PICK T \in [Lines -> Int] : Exact(T, i - 1) /\ Aligned(T, i - 1)
  BY DEF OffsetsInv, AlignKnown
<1>4. Lines' = Lines
  BY <1>2 DEF Lines
<1>5. RelabelKnown'
  <2>1. Exact(T, Len(code))' /\ Aligned(T, Len(code))'
    BY <1>2, <1>3, <1>4 DEF Exact, Aligned, Before, Label
  <2>2. \A k \in Lines' : k < i' => again'[k] = T[k]
    BY <1>2, <1>4
  <2> QED BY <1>3, <1>4, <2>1, <2>2 DEF RelabelKnown
<1>6. SectionsEmpty'
  BY <1>2, <1>4 DEF OffsetsInv, SectionsEmpty, Running
<1> QED BY <1>2, <1>5, <1>6 DEF OffsetsInv, AlignKnown, ReencodeKnown, WrittenKnown

LEMMA RelabelOffsets ==
  ASSUME IInv, OffsetsInv, phase = "relabel", compute_labels_alt, More
  PROVE  OffsetsInv'
<1>1. /\ Len(code) \in Nat /\ Lines = 1 .. Len(code) /\ i \in Lines
      /\ len \in [Lines -> Nat] /\ pos \in Nat /\ again \in [Lines -> Int]
      /\ pos = Before(again, i)
  BY Shape DEF IInv, Types, More, InRelabel
<1>2. /\ pos' = pos + len[i] /\ i' = i + 1 /\ again' = [again EXCEPT ![i] = pos + len[i]]
      /\ skip' = skip /\ code' = code /\ len' = len /\ phase' = phase
  BY DEF compute_labels_alt, Pass
<1>3. PICK T \in [Lines -> Int] :
        /\ Exact(T, Len(code)) /\ Aligned(T, Len(code))
        /\ \A k \in Lines : k < i => again[k] = T[k]
  BY DEF OffsetsInv, RelabelKnown
<1>4. Before(again, i) = Before(T, i)
  <2>1. CASE i = 1
    BY <2>1 DEF Before
  <2>2. CASE i # 1
    <3>1. i - 1 \in Lines /\ i - 1 < i
      BY <1>1, <2>2
    <3> QED BY <1>3, <2>2, <3>1 DEF Before
  <2> QED BY <2>1, <2>2
<1>5. T[i] = Before(T, i) + len[i]
  <2>1. i <= Len(code)
    BY <1>1
  <2> QED BY <1>1, <1>3, <2>1 DEF Exact
<1>6. \A k \in Lines : k < i + 1 => again'[k] = T[k]
  <2>1. ASSUME NEW k \in Lines, k < i + 1 PROVE again'[k] = T[k]
    <3>1. CASE k = i
      BY <1>1, <1>2, <1>4, <1>5, <3>1
    <3>2. CASE k # i
      <4>1. k < i
        BY <1>1, <2>1, <3>2
      <4> QED BY <1>1, <1>2, <1>3, <3>2, <4>1
    <3> QED BY <3>1, <3>2
  <2> QED BY <2>1
<1>7. Lines' = Lines
  BY <1>2 DEF Lines
<1>8. RelabelKnown'
  <2>1. Exact(T, Len(code))' /\ Aligned(T, Len(code))'
    BY <1>2, <1>3, <1>7 DEF Exact, Aligned, Before, Label
  <2> QED BY <1>2, <1>3, <1>6, <1>7, <2>1 DEF RelabelKnown
<1>9. SectionsEmpty'
  BY <1>2, <1>7 DEF OffsetsInv, SectionsEmpty
<1> QED BY <1>2, <1>8, <1>9 DEF OffsetsInv, AlignKnown, ReencodeKnown, WrittenKnown

LEMMA ReencodeBegins ==
  ASSUME IInv, OffsetsInv, phase = "relabel", compute_labels_alt, ~More
  PROVE  OffsetsInv'
<1>1. Pass("reencode") /\ UNCHANGED <<len, w, labs, again>>
  BY DEF compute_labels_alt
<1>2. /\ i' = 1 /\ phase' = "reencode" /\ UNCHANGED <<skip, code, len, again>>
      /\ i = Len(code) + 1 /\ Len(code) \in Nat /\ Lines = 1 .. Len(code)
  BY <1>1, PassFacts DEF IInv
<1>3. PICK T \in [Lines -> Int] :
        /\ Exact(T, Len(code)) /\ Aligned(T, Len(code))
        /\ \A k \in Lines : k < i => again[k] = T[k]
  BY DEF OffsetsInv, RelabelKnown
<1>4. again = T
  <2>1. again \in [Lines -> Int]
    BY DEF IInv, Types
  <2>2. \A k \in Lines : k < i
    BY <1>2
  <2>3. \A k \in Lines : again[k] = T[k]
    BY <1>3, <2>2
  <2> QED BY <1>3, <2>1, <2>3
<1>5. Lines' = Lines
  BY <1>2 DEF Lines
<1>6. ReencodeKnown'
  <2>1. Aligned(again, Len(code))'
    BY <1>2, <1>3, <1>4, <1>5 DEF Aligned, Before, Label
  <2>2. \A k \in Lines : ~(k < i')
    BY <1>2
  <2> QED BY <1>5, <2>1, <2>2 DEF ReencodeKnown
<1>7. SectionsEmpty'
  BY <1>2, <1>5 DEF OffsetsInv, SectionsEmpty, Running
<1> QED BY <1>2, <1>6, <1>7 DEF OffsetsInv, AlignKnown, RelabelKnown, WrittenKnown

LEMMA ReencodeOffsets ==
  ASSUME IInv, IInv', OffsetsInv, phase = "reencode", enc_lines_again
  PROVE  OffsetsInv'
<1>1. /\ Len(code) \in Nat /\ Lines = 1 .. Len(code) /\ i \in Lines
      /\ len \in [Lines -> Nat] /\ w \in [Lines -> Int] /\ pos \in Nat
      /\ pos = Before(again, i) /\ again[i] = Before(again, i) + len[i]
      /\ again \in [Lines -> Int] /\ again[i] \in Int /\ len[i] \in Nat
  <2>1. Types /\ i <= Len(code)
    BY DEF IInv, More, enc_lines_again
  <2>2. /\ Len(code) \in Nat /\ Lines = 1 .. Len(code) /\ i \in Lines
        /\ len \in [Lines -> Nat] /\ w \in [Lines -> Int] /\ pos \in Nat /\ again \in [Lines -> Int]
    BY <2>1, Shape DEF Types
  <2> QED BY <2>1, <2>2 DEF IInv, InReencode, Exact
<1>2. /\ i' = i + 1 /\ skip' = skip /\ code' = code /\ labs' = labs /\ again' = again
      /\ phase' = phase
  BY DEF enc_lines_again
<1>3. done'
  BY <1>2 DEF IInv, InReencode
<1>4. /\ len' = len /\ \A k \in Lines : k # i => w'[k] = w[k]
      /\ Jump(i) => w'[i] = Target(again, i) - pos
  <2>1. CASE Jump(i)
    <3> DEFINE w1 == Target(again, i) - pos
               l1 == IF w[i] = w1 THEN len[i] ELSE AtLeast(EncLen(code[i].enc, w1), len[i])
    <3>1. /\ w' = [w EXCEPT ![i] = w1] /\ len' = [len EXCEPT ![i] = l1]
          /\ done' = (done /\ l1 = len[i])
      BY <2>1 DEF enc_lines_again, enc_line_again, get_jump_offset
    <3> HIDE DEF w1
    <3>2. l1 = len[i]
      BY <1>3, <3>1
    <3> HIDE DEF l1
    <3>3. len' = len
      BY <1>1, <3>1, <3>2
    <3>4. w'[i] = w1 /\ \A k \in Lines : k # i => w'[k] = w[k]
      BY <1>1, <3>1
    <3> QED BY <3>3, <3>4 DEF w1
  <2>2. CASE ~Jump(i)
    BY <2>2 DEF enc_lines_again
  <2> QED BY <2>1, <2>2
<1>5. ASSUME NEW k \in Lines, Jump(k), k < i + 1
      PROVE  w'[k] = Target(again, k) - (again[k] - len[k])
  <2>1. CASE k = i
    <3>1. again[i] - len[i] = pos
      BY <1>1
    <3> QED BY <1>4, <1>5, <2>1, <3>1
  <2>2. CASE k # i
    <3>1. k < i
      BY <1>1, <1>5, <2>2
    <3> QED BY <1>4, <1>5, <2>2, <3>1 DEF OffsetsInv, ReencodeKnown
  <2> QED BY <2>1, <2>2
<1>6. Lines' = Lines
  BY <1>2 DEF Lines
<1>7. ReencodeKnown'
  <2>1. Aligned(again, Len(code))'
    BY <1>2, <1>4, <1>6 DEF OffsetsInv, ReencodeKnown, Aligned, Before, Label
  <2>2. \A k \in Lines' : Jump(k)' /\ k < i' => w'[k] = Target(again, k)' - (again'[k] - len'[k])
    BY <1>2, <1>4, <1>5, <1>6 DEF Jump, Target
  <2> QED BY <2>1, <2>2 DEF ReencodeKnown
<1>8. SectionsEmpty'
  BY <1>2, <1>4, <1>6 DEF OffsetsInv, SectionsEmpty
<1> QED BY <1>2, <1>7, <1>8 DEF OffsetsInv, AlignKnown, RelabelKnown, WrittenKnown

\* The first iteration: only sections and results are spoken of.
LEMMA LoopOffsets ==
  ASSUME IInv, OffsetsInv, phase \in {"labels", "encode"}, compute_labels_alt \/ enc_lines_again
  PROVE  OffsetsInv'
<1>1. code' = code /\ phase' \in {"labels", "encode"}
  BY DEF compute_labels_alt, enc_lines_again, Pass
<1>2. \A k \in Lines : code[k].is = "section" => len'[k] = len[k]
  <2>1. len \in [Lines -> Nat]
    BY DEF IInv, Types
  <2>2. CASE len' = len
    BY <2>2
  <2>3. CASE len' # len
    <3>1. Jump(i) /\ \E l : len' = [len EXCEPT ![i] = l]
      BY <2>3 DEF compute_labels_alt, enc_lines_again, enc_line_again
    <3> QED BY <2>1, <3>1 DEF Jump
  <2> QED BY <2>2, <2>3
<1>3. SectionsEmpty'
  BY <1>1, <1>2 DEF OffsetsInv, SectionsEmpty, Lines, Running
<1> QED
  BY <1>1, <1>3 DEF OffsetsInv, AlignKnown, RelabelKnown, ReencodeKnown, WrittenKnown

\* A Skip of more than one byte belongs to a target whose instructions all have
\* an even length, so no label needs padding.
AllEven == pos % 2 = 0 /\ \A k \in Lines : len[k] % 2 = 0
Evens == skip # 1 /\ phase \in Running => AllEven

LEMMA EvenSum ==
  ASSUME NEW m \in Nat, NEW n \in Nat, m % 2 = 0, n % 2 = 0
  PROVE  (m + n) % 2 = 0
OBVIOUS

LEMMA EvenLines ==
  ASSUME Types, skip # 1, NEW k \in Lines
  PROVE  /\ skip % 2 = 0 /\ StartPos % 2 = 0
         /\ code[k].is = "asm" => code[k].len % 2 = 0
         /\ Jump(k) => \A v \in Int : EncLen(code[k].enc, v) % 2 = 0
<1>1. /\ skip \in Skips /\ code \in Codes[skip] /\ Lines = 1 .. Len(code)
  BY Shape DEF Types
<1>2. skip % 2 = 0 /\ StartPos % 2 = 0 /\ EvenLine(code[k])
  BY <1>1, CodeAssumption
<1>3. ASSUME Jump(k), NEW v \in Int PROVE EncLen(code[k].enc, v) % 2 = 0
  <2>1. /\ code[k].enc.base % 2 = 0 /\ code[k].enc.first.more % 2 = 0
        /\ code[k].enc.second.more % 2 = 0 /\ code[k].enc.third.more % 2 = 0
    BY <1>2, <1>3 DEF EvenLine, Jump
  <2>2. code[k].enc \in Encoder
    BY <1>3, Shape
  <2>3. ASSUME NEW win \in Window, win.more % 2 = 0
        PROVE  Beyond(v, win) \in Nat /\ Beyond(v, win) % 2 = 0
    BY <2>3 DEF Beyond, Window
  <2>4. PICK e : e = code[k].enc
    OBVIOUS
  <2>5. e.base \in Nat /\ e.first \in Window /\ e.second \in Window /\ e.third \in Window
    BY <2>2, <2>4 DEF Encoder
  <2>6. /\ Beyond(v, e.first) \in Nat /\ Beyond(v, e.first) % 2 = 0
        /\ Beyond(v, e.second) \in Nat /\ Beyond(v, e.second) % 2 = 0
        /\ Beyond(v, e.third) \in Nat /\ Beyond(v, e.third) % 2 = 0
    BY <2>1, <2>3, <2>4, <2>5
  <2>7. (e.base + Beyond(v, e.first)) % 2 = 0
    BY <2>1, <2>4, <2>5, <2>6, EvenSum
  <2>8. (e.base + Beyond(v, e.first) + Beyond(v, e.second)) % 2 = 0
    BY <2>5, <2>6, <2>7, EvenSum
  <2>9. (e.base + Beyond(v, e.first) + Beyond(v, e.second) + Beyond(v, e.third)) % 2 = 0
    BY <2>5, <2>6, <2>8, EvenSum
  <2> QED BY <2>4, <2>9 DEF EncLen
<1> QED BY <1>2, <1>3 DEF EvenLine

LEMMA InitEvens == Init => Evens
<1> SUFFICES ASSUME Init, skip # 1 PROVE Evens
  BY DEF Evens
<1>1. Types
  BY InitIInv DEF IInv
<1>2. pos % 2 = 0
  BY CodeAssumption DEF Init
<1>3. ASSUME NEW k \in Lines PROVE len[k] % 2 = 0
  <2>1. skip % 2 = 0 /\ (code[k].is = "asm" => code[k].len % 2 = 0)
    BY <1>1, EvenLines
  <2>2. Jump(k) => EncLen(code[k].enc, 0) % 2 = 0
    BY <1>1, EvenLines
  <2>3. len[k] = IF Jump(k) THEN EncLen(code[k].enc, 0)
                 ELSE IF Label(k) THEN skip ELSE IF code[k].is = "asm" THEN code[k].len ELSE 0
    BY DEF Init
  <2>4. CASE Jump(k)
    BY <2>2, <2>3, <2>4
  <2>5. CASE ~Jump(k)
    <3>1. len[k] \in {skip, 0} \/ (code[k].is = "asm" /\ len[k] = code[k].len)
      BY <2>3, <2>5
    <3>2. 0 % 2 = 0
      OBVIOUS
    <3> QED BY <2>1, <3>1, <3>2
  <2> QED BY <2>4, <2>5
<1> QED BY <1>2, <1>3 DEF Evens, AllEven

LEMMA StepEvens == IInv /\ Evens /\ [Next]_vars => Evens'
<1> SUFFICES ASSUME IInv, Evens, [Next]_vars PROVE Evens'
  OBVIOUS
<1> SUFFICES ASSUME skip # 1, phase \in Running, phase' \in Running
             PROVE  AllEven'
  <2>1. compute_labels_alt => skip' = skip /\ phase \in Running
    BY DEF compute_labels_alt, Pass, Running
  <2>2. enc_lines_again => skip' = skip /\ phase \in Running
    BY DEF enc_lines_again, Running
  <2>3. Repeat => skip' = skip /\ phase \in Running
    BY DEF Repeat, Pass, Running
  <2>4. upd_lab_len => skip' = skip /\ phase \in Running
    BY DEF upd_lab_len, Pass, Running
  <2>5. Finish => skip' = skip /\ phase \in Running
    BY DEF Finish, Pass, Running
  <2>6. UNCHANGED vars => skip' = skip /\ phase' = phase
    BY DEF vars
  <2>7. skip' = skip /\ (phase' \in Running => phase \in Running)
    BY <2>1, <2>2, <2>3, <2>4, <2>5, <2>6 DEF Next
  <2>8. CASE skip # 1 /\ phase \in Running /\ phase' \in Running
    BY <2>8 DEF Evens
  <2>9. CASE ~(skip' # 1 /\ phase' \in Running)
    BY <2>9 DEF Evens, Running
  <2> QED BY <2>7, <2>8, <2>9
<1>1. /\ pos % 2 = 0 /\ \A k \in Lines : len[k] % 2 = 0
      /\ Len(code) \in Nat /\ Lines = 1 .. Len(code) /\ i \in 1 .. Len(code) + 1
      /\ len \in [Lines -> Nat] /\ w \in [Lines -> Int] /\ pos \in Nat
      /\ labs \in [Lines -> Int] /\ again \in [Lines -> Int]
  BY Shape DEF Evens, AllEven, IInv, Types
<1>2. StartPos % 2 = 0
  BY CodeAssumption
<1>3. ASSUME code' = code, len' = len, pos' = StartPos
      PROVE  AllEven'
  BY <1>1, <1>2, <1>3 DEF AllEven, Lines
<1>4. ASSUME code' = code, len' = len, i \in Lines, pos' = pos + len[i]
      PROVE  AllEven'
  <2>1. len[i] \in Nat /\ len[i] % 2 = 0
    BY <1>1, <1>4
  <2>2. (pos + len[i]) % 2 = 0
    BY <1>1, <2>1, EvenSum
  <2> QED BY <1>1, <1>4, <2>2 DEF AllEven, Lines
<1>5. ASSUME NEW n \in Nat, n % 2 = 0, code' = code, i \in Lines,
             len' = [len EXCEPT ![i] = n], pos' = pos + n
      PROVE  AllEven'
  <2>1. (pos + n) % 2 = 0
    BY <1>1, <1>5, EvenSum
  <2>2. \A k \in Lines : len'[k] = IF k = i THEN n ELSE len[k]
    BY <1>1, <1>5
  <2> QED BY <1>1, <1>5, <2>1, <2>2 DEF AllEven, Lines
<1>6. More => i \in Lines
  BY <1>1 DEF More
<1>7. CASE compute_labels_alt
  <2>1. \/ More /\ pos' = pos + len[i] /\ code' = code /\ len' = len
        \/ pos' = StartPos /\ code' = code /\ len' = len
    BY <1>7 DEF compute_labels_alt, Pass
  <2> QED BY <1>3, <1>4, <1>6, <2>1
<1>8. CASE enc_lines_again
  <2>1. i \in Lines /\ code' = code
    BY <1>6, <1>8 DEF enc_lines_again
  <2>2. CASE ~Jump(i)
    <3>1. pos' = pos + len[i] /\ len' = len
      BY <1>8, <2>2 DEF enc_lines_again
    <3> QED BY <1>4, <2>1, <3>1
  <2>3. CASE Jump(i)
    <3>1. PICK table \in {labs, again} : enc_line_again(table)
      BY <1>8, <2>3 DEF enc_lines_again
    <3>2. PICK w1 : w1 = Target(table, i) - pos
      OBVIOUS
    <3>3. w1 \in Int
      BY <1>1, <2>1, <2>3, <3>1, <3>2, Shape DEF Target, IInv
    <3>4. PICK l1 : l1 = IF w[i] = w1 THEN len[i] ELSE AtLeast(EncLen(code[i].enc, w1), len[i])
      OBVIOUS
    <3>5. EncLen(code[i].enc, w1) \in Nat /\ EncLen(code[i].enc, w1) % 2 = 0
      BY <2>1, <2>3, <3>3, EvenLines, LengthMonotone, Shape DEF IInv
    <3>6. l1 \in Nat /\ l1 % 2 = 0
      BY <1>1, <2>1, <3>4, <3>5 DEF AtLeast
    <3>7. len' = [len EXCEPT ![i] = l1] /\ pos' = pos + l1
      BY <3>1, <3>2, <3>4 DEF enc_line_again, get_jump_offset
    <3> QED BY <1>5, <2>1, <3>6, <3>7
  <2> QED BY <2>2, <2>3
<1>9. CASE Repeat
  <2>1. pos' = StartPos /\ code' = code /\ len' = len
    BY <1>9 DEF Repeat, Pass
  <2> QED BY <1>3, <2>1
<1>10. CASE upd_lab_len
  <2>1. CASE ~More
    <3>1. pos' = StartPos /\ code' = code /\ len' = len
      BY <1>10, <2>1 DEF upd_lab_len, Pass
    <3> QED BY <1>3, <3>1
  <2>2. CASE More
    <3>1. i \in Lines /\ code' = code /\ pos' = pos + len'[i]
          /\ len' = (IF Label(i) THEN [len EXCEPT ![i] = Padding(pos)] ELSE len)
      BY <1>6, <1>10, <2>2 DEF upd_lab_len, Pass
    <3>2. CASE ~Label(i)
      <4>1. len' = len /\ pos' = pos + len[i]
        BY <3>1, <3>2
      <4> QED BY <1>4, <3>1, <4>1
    <3>3. CASE Label(i)
      <4>1. len' = [len EXCEPT ![i] = 0] /\ pos' = pos + 0
        BY <1>1, <3>1, <3>3 DEF Padding
      <4>2. 0 \in Nat /\ 0 % 2 = 0
        OBVIOUS
      <4> QED BY <1>5, <3>1, <4>1, <4>2
    <3> QED BY <3>2, <3>3
  <2> QED BY <2>1, <2>2
<1>11. CASE Finish
  <2>1. phase' \in {"undone", "done", "refused"}
    BY <1>11 DEF Finish, Pass
  <2> QED BY <2>1 DEF Running
<1>12. CASE UNCHANGED vars
  BY <1>1, <1>12 DEF vars, AllEven, Lines
<1> QED BY <1>7, <1>8, <1>9, <1>10, <1>11, <1>12 DEF Next

\* Where the lines end once the instruction before a label has its padding
\* and the label nothing.
WrittenEnds ==
  [k \in 0 .. Len(code) |->
    IF k = 0 THEN StartPos
    ELSE again[k] + (IF Label(k) THEN 0 ELSE Nops(k))]

LEMMA PaddingMoves ==
  ASSUME IInv, OffsetsInv, Evens, phase = "reencode", NEW E, E = WrittenEnds
  PROVE  /\ E \in [0 .. Len(code) -> Int] /\ E[0] = StartPos
         /\ \A k \in Lines : E[k] = E[k - 1] + pad_code[k]
         /\ \A k \in Lines : ~Label(k) => E[k - 1] = Before(again, k)
         /\ \A k \in Lines : code[k].is \in {"section", "label"} => E[k] = again[k]
         /\ \A k \in Lines : Label(k) => again[k] % 2 = 0
<1>1. /\ Len(code) \in Nat /\ Len(code) >= 1 /\ Lines = 1 .. Len(code)
      /\ len \in [Lines -> Nat] /\ again \in [Lines -> Int] /\ StartPos \in Nat /\ StartPos % 2 = 0
      /\ skip \in Nat /\ (skip # 1 => \A k \in Lines : len[k] # 1)
  BY Shape, CodeAssumption DEF IInv, Types, Evens, AllEven, Running
<1>2. /\ code[1].is = "section"
      /\ \A k \in Lines : code[k].is \in {"section", "label", "asm", "jump"}
      /\ \A k \in Lines : k # 1 /\ code[k].is = "section" => Label(k - 1)
  <2>1. /\ skip \in Skips /\ code \in Codes[skip]
    BY DEF IInv, Types
  <2>2. /\ code \in Seq(Line(Len(code))) /\ code[1].is = "section"
        /\ \A k \in 2 .. Len(code) : code[k].is = "section" => code[k - 1].is = "label"
    BY <2>1, CodeAssumption
  <2>3. \A k \in Lines : code[k] \in Line(Len(code))
    BY <2>2 DEF Lines
  <2>4. \A k \in Lines : code[k].is \in {"section", "label", "asm", "jump"}
    BY <2>3 DEF Line
  <2>5. \A k \in Lines : k # 1 => k \in 2 .. Len(code)
    BY <1>1
  <2> QED BY <2>2, <2>4, <2>5 DEF Label
<1>3. \A k \in Lines : /\ again[k] = Before(again, k) + len[k]
                       /\ Label(k) => len[k] = Before(again, k) % 2
                       /\ code[k].is = "section" => len[k] = 0
  <2>1. \A k \in Lines : k <= Len(code)
    BY <1>1
  <2> QED BY <2>1 DEF IInv, InReencode, Exact, OffsetsInv, ReencodeKnown, Aligned, SectionsEmpty, Running
<1>4. \A k \in Lines : k # 1 => k - 1 \in Lines /\ Before(again, k) = again[k - 1]
  BY <1>1 DEF Before
<1>5. \A k \in Lines : Before(again, k) \in Int /\ again[k] \in Int /\ len[k] \in Nat
  BY <1>1, <1>4 DEF Before
<1>6. ASSUME NEW k \in Lines, Label(k)
      PROVE  again[k] % 2 = 0 /\ len[k] \in {0, 1}
  <2>1. PICK p \in Int : p = Before(again, k)
    BY <1>5
  <2>2. len[k] = p % 2 /\ again[k] = p + (p % 2)
    BY <1>3, <1>6, <2>1
  <2> QED BY <2>2
<1>7. ASSUME NEW k \in Lines, Label(k), k # 1, code[k - 1].is \in {"section", "label"}
      PROVE  len[k] = 0
  <2>1. k - 1 \in Lines /\ Before(again, k) = again[k - 1] /\ len[k] = again[k - 1] % 2
    BY <1>3, <1>4, <1>7
  <2>2. CASE Label(k - 1)
    BY <1>6, <2>1, <2>2
  <2>3. CASE code[k - 1].is = "section" /\ k - 1 = 1
    <3>1. again[k - 1] = StartPos + 0
      BY <1>3, <2>1, <2>3 DEF Before
    <3> QED BY <1>1, <2>1, <3>1
  <2>4. CASE code[k - 1].is = "section" /\ k - 1 # 1
    <3>1. again[k - 1] = Before(again, k - 1) + 0 /\ Label(k - 1 - 1) /\ k - 1 - 1 \in Lines
          /\ Before(again, k - 1) = again[k - 1 - 1]
      BY <1>2, <1>3, <1>4, <2>1, <2>4
    <3>2. again[k - 1 - 1] % 2 = 0 /\ again[k - 1 - 1] \in Int
      BY <1>1, <1>6, <3>1
    <3> QED BY <2>1, <3>1, <3>2
  <2> QED BY <1>7, <2>2, <2>3, <2>4 DEF Label
<1>8. ASSUME NEW j \in Lines, code[j].is \notin {"asm", "jump"} \/ ~Label(j + 1) \/ j + 1 \notin Lines
      PROVE  Nops(j) = 0
  <2>1. ASSUME NEW k \in PaddingOf(j) PROVE FALSE
    <3>1. /\ k \in Lines /\ Label(k) /\ j < k /\ code[j].is \in {"asm", "jump"}
          /\ \A m \in j + 1 .. k - 1 : Label(m)
      BY DEF PaddingOf, Padded
    <3>2. j + 1 \in Lines
      BY <1>1, <3>1
    <3>3. CASE k = j + 1
      BY <1>8, <3>1, <3>2, <3>3
    <3>4. CASE k # j + 1
      <4>1. j + 1 \in j + 1 .. k - 1
        BY <1>1, <3>1, <3>4
      <4> QED BY <1>8, <3>1, <3>2, <4>1
    <3> QED BY <3>3, <3>4
  <2>2. PaddingOf(j) = {}
    BY <2>1
  <2>3. Cardinality(PaddingOf(j)) = 0
    BY <2>2, FS_EmptySet
  <2> QED BY <1>1, <2>3 DEF Nops
<1>9. ASSUME NEW j \in Lines, code[j].is \in {"asm", "jump"}, j + 1 \in Lines, Label(j + 1)
      PROVE  Nops(j) = len[j + 1]
  <2>1. ASSUME NEW k \in PaddingOf(j) PROVE k = j + 1 /\ len[j + 1] = 1
    <3>1. /\ k \in Lines /\ Label(k) /\ j < k /\ len[k] = 1
          /\ \A m \in j + 1 .. k - 1 : Label(m)
      BY DEF PaddingOf, Padded
    <3>2. CASE k # j + 1
      <4>1. k - 1 \in j + 1 .. k - 1 /\ k # 1
        BY <1>1, <3>1, <3>2
      <4>2. code[k - 1].is = "label"
        BY <3>1, <4>1 DEF Label
      <4> QED BY <1>7, <3>1, <4>1, <4>2
    <3> QED BY <3>1, <3>2
  <2>2. CASE len[j + 1] = 1
    <3>1. j + 1 \in PaddingOf(j)
      <4>1. PICK b \in Nat : b = j + 1 /\ j < b
        BY <1>1
      <4>2. \A m \in b .. b - 1 : Label(m)
        BY <4>1
      <4>3. Padded(j, b)
        BY <1>9, <4>1, <4>2 DEF Padded
      <4> QED BY <1>9, <2>2, <4>1, <4>3 DEF PaddingOf
    <3>2. PaddingOf(j) = {j + 1}
      BY <2>1, <3>1
    <3>3. Cardinality(PaddingOf(j)) = 1 /\ skip = 1
      BY <1>1, <1>9, <2>2, <3>2, FS_Singleton
    <3> QED BY <2>2, <3>3 DEF Nops
  <2>3. CASE len[j + 1] # 1
    <3>1. PaddingOf(j) = {}
      BY <2>1, <2>3
    <3>2. len[j + 1] = 0
      BY <1>6, <1>9, <2>3
    <3>3. Cardinality(PaddingOf(j)) = 0
      BY <3>1, FS_EmptySet
    <3> QED BY <1>1, <3>2, <3>3 DEF Nops
  <2> QED BY <2>2, <2>3
<1>10. \A k \in Lines : Nops(k) \in Nat
  <2>1. ASSUME NEW k \in Lines PROVE Nops(k) \in Nat
    <3>1. CASE code[k].is \in {"asm", "jump"} /\ k + 1 \in Lines /\ Label(k + 1)
      BY <1>5, <1>9, <3>1
    <3>2. CASE ~(code[k].is \in {"asm", "jump"} /\ k + 1 \in Lines /\ Label(k + 1))
      BY <1>8, <3>2
    <3> QED BY <3>1, <3>2
  <2> QED BY <2>1
<1>11. /\ E \in [0 .. Len(code) -> Int] /\ E[0] = StartPos
       /\ \A k \in Lines : E[k] = again[k] + (IF Label(k) THEN 0 ELSE Nops(k))
  <2>1. \A k \in 0 .. Len(code) : k # 0 => k \in Lines
    BY <1>1
  <2>2. 0 \in 0 .. Len(code) /\ \A k \in Lines : k \in 0 .. Len(code) /\ k # 0
    BY <1>1
  <2>3. \A k \in Lines : again[k] + (IF Label(k) THEN 0 ELSE Nops(k)) \in Int
    BY <1>5, <1>10
  <2>4. \A k \in 0 .. Len(code) :
          E[k] = IF k = 0 THEN StartPos
                 ELSE again[k] + (IF Label(k) THEN 0 ELSE Nops(k))
    BY DEF WrittenEnds
  <2>5. \A k \in 0 .. Len(code) : E[k] \in Int
    BY <1>1, <2>1, <2>3, <2>4
  <2> QED BY <2>2, <2>4, <2>5 DEF WrittenEnds
<1>12. ASSUME NEW k \in Lines, code[k].is \in {"section", "label"} PROVE E[k] = again[k]
  <2>1. Label(k) \/ Nops(k) = 0
    BY <1>8, <1>12 DEF Label
  <2>2. E[k] = again[k] + 0
    BY <1>11, <2>1
  <2> QED BY <1>5, <2>2
<1>13. ASSUME NEW k \in Lines, ~Label(k) PROVE E[k - 1] = Before(again, k)
  <2>1. CASE k = 1
    BY <1>11, <2>1 DEF Before
  <2>2. CASE k # 1
    <3>1. k - 1 \in Lines /\ Before(again, k) = again[k - 1] /\ k - 1 + 1 = k
      BY <1>1, <1>4, <2>2
    <3>2. Label(k - 1) \/ Nops(k - 1) = 0
      BY <1>8, <1>13, <3>1
    <3>3. E[k - 1] = again[k - 1] + 0
      BY <1>11, <3>1, <3>2
    <3> QED BY <1>5, <3>1, <3>3
  <2> QED BY <2>1, <2>2
<1>14. ASSUME NEW k \in Lines PROVE E[k] = E[k - 1] + pad_code[k]
  <2>1. pad_code[k] = IF Label(k) THEN 0 ELSE len[k] + Nops(k)
    BY DEF pad_code
  <2>2. CASE ~Label(k)
    <3>1. E[k - 1] = Before(again, k) /\ E[k] = again[k] + Nops(k)
      BY <1>11, <1>13, <2>2
    <3> QED BY <1>3, <1>5, <1>10, <2>1, <2>2, <3>1
  <2>3. CASE Label(k)
    <3>1. k # 1
      BY <1>2, <2>3 DEF Label
    <3>2. k - 1 \in Lines /\ Before(again, k) = again[k - 1] /\ k - 1 + 1 = k
      BY <1>1, <1>4, <3>1
    <3>3. E[k - 1] = again[k - 1] + len[k]
      <4>1. CASE code[k - 1].is \in {"section", "label"}
        <5>1. E[k - 1] = again[k - 1] /\ len[k] = 0
          BY <1>7, <1>12, <2>3, <3>1, <3>2, <4>1
        <5> QED BY <1>5, <3>2, <5>1
      <4>2. CASE code[k - 1].is \in {"asm", "jump"}
        <5>1. Nops(k - 1) = len[k]
          BY <1>9, <2>3, <3>2, <4>2
        <5> QED BY <1>11, <3>2, <4>2, <5>1 DEF Label
      <4> QED BY <1>2, <3>2, <4>1, <4>2
    <3>4. E[k] = again[k] /\ again[k] = again[k - 1] + len[k]
      BY <1>3, <1>12, <2>3, <3>2 DEF Label
    <3>5. E[k - 1] \in Int
      BY <1>5, <3>2, <3>3
    <3> QED BY <2>1, <2>3, <3>3, <3>4, <3>5
  <2> QED BY <2>2, <2>3
<1> QED BY <1>6, <1>11, <1>12, <1>13, <1>14

LEMMA FinishOffsets ==
  ASSUME IInv, OffsetsInv, Evens, Finish
  PROVE  OffsetsInv'
<1>1. /\ phase = "reencode" /\ len' = pad_code /\ ~More /\ done
      /\ UNCHANGED <<skip, code, w, again>> /\ phase' \notin Running
      /\ Len(code) \in Nat /\ Lines = 1 .. Len(code) /\ i \in Nat
  BY Shape DEF Finish, Pass, IInv, InReencode, Running, Types
<1>2. PICK E : E = WrittenEnds
  OBVIOUS
<1>3. /\ E \in [0 .. Len(code) -> Int] /\ E[0] = StartPos
      /\ \A k \in Lines : E[k] = E[k - 1] + pad_code[k]
      /\ \A k \in Lines : ~Label(k) => E[k - 1] = Before(again, k)
      /\ \A k \in Lines : code[k].is \in {"section", "label"} => E[k] = again[k]
      /\ \A k \in Lines : Label(k) => again[k] % 2 = 0
  BY <1>1, <1>2, PaddingMoves
<1>4. Lines' = Lines
  BY <1>1 DEF Lines
<1>5. Ends(E)'
  BY <1>1, <1>3, <1>4 DEF Ends
<1>6. ASSUME NEW k \in Lines, Jump(k)
      PROVE  w[k] = (IF code[k].fixed THEN code[k].to ELSE E[code[k].to]) - E[k - 1]
  <2>1. k < i /\ k <= Len(code)
    BY <1>1 DEF More
  <2>2. w[k] = Target(again, k) - (again[k] - len[k])
    BY <1>1, <1>6, <2>1 DEF OffsetsInv, ReencodeKnown
  <2>3. again[k] = Before(again, k) + len[k] /\ len[k] \in Nat /\ again[k] \in Int
    BY <1>1, <2>1 DEF IInv, InReencode, Exact, Types
  <2>4. E[k - 1] = Before(again, k)
    BY <1>3, <1>6 DEF Jump, Label
  <2>5. Before(again, k) \in Int
    <3>1. k # 1 => k - 1 \in Lines
      BY <1>1
    <3> QED BY <3>1, Shape DEF Before, IInv, Types
  <2>6. again[k] - len[k] = E[k - 1]
    BY <2>3, <2>4, <2>5
  <2>7. ~code[k].fixed => code[k].to \in Lines /\ code[code[k].to].is \in {"section", "label"}
    <3>1. skip \in Skips /\ code \in Codes[skip] /\ k \in 1 .. Len(code)
      BY <1>1 DEF IInv, Types
    <3>2. ~code[k].fixed => code[code[k].to].is \in {"section", "label"}
      BY <1>6, <3>1, CodeAssumption DEF Jump
    <3> QED BY <1>6, <3>2, Shape DEF IInv
  <2>8. ~code[k].fixed => again[code[k].to] = E[code[k].to]
    BY <1>3, <2>7
  <2> QED BY <2>2, <2>6, <2>8 DEF Target
<1>7. \A k \in Lines : Label(k) => E[k] % 2 = 0
  BY <1>3 DEF Label
<1>8. Agrees(E)'
  BY <1>1, <1>4, <1>6, <1>7 DEF Agrees, Label, Jump
<1>9. WrittenKnown' /\ SectionsEmpty'
  BY <1>1, <1>5, <1>8 DEF WrittenKnown, SectionsEmpty
<1> QED
  BY <1>1, <1>9 DEF OffsetsInv, AlignKnown, RelabelKnown, ReencodeKnown, Running

LEMMA StepOffsets == IInv /\ IInv' /\ OffsetsInv /\ Evens /\ [Next]_vars => OffsetsInv'
<1> SUFFICES ASSUME IInv, IInv', OffsetsInv, Evens, [Next]_vars PROVE OffsetsInv'
  OBVIOUS
<1>1. CASE compute_labels_alt
  <2>1. phase \in {"labels", "relabel"}
    BY <1>1 DEF compute_labels_alt
  <2> QED BY <1>1, <2>1, LoopOffsets, RelabelOffsets, ReencodeBegins
<1>2. CASE enc_lines_again
  <2>1. phase \in {"encode", "reencode"}
    BY <1>2 DEF enc_lines_again
  <2> QED BY <1>2, <2>1, LoopOffsets, ReencodeOffsets
<1>3. CASE upd_lab_len
  <2>1. phase = "align"
    BY <1>3 DEF upd_lab_len
  <2> QED BY <1>3, <2>1, AlignOffsets, RelabelBegins
<1>4. CASE UNCHANGED vars
  BY <1>4
  DEF vars, OffsetsInv, SectionsEmpty, AlignKnown, RelabelKnown, ReencodeKnown, WrittenKnown,
      Ends, Agrees, Exact, Aligned, Before, Target, Lines, Jump, Label
<1> QED BY <1>1, <1>2, <1>3, <1>4, AlignBegins, FinishOffsets DEF Next

------------------------------------------------------------------------------
(***************************************************************************)
(* End is defined by recursion.  The library's theorems on induction have  *)
(* an operator for a parameter; a set of numbers has a least element for   *)
(* the same reason, and that can be cited.                                 *)
(***************************************************************************)
LessOnNat == {xy \in Nat \X Nat : xy[1] < xy[2]}

LEMMA Least ==
  ASSUME NEW S \in SUBSET Nat, S # {}
  PROVE  \E x \in S : \A y \in S : x <= y
<1>1. OpToRel(<, Nat) = LessOnNat
  BY DEF OpToRel, LessOnNat
<1>2. IsWellFoundedOn(LessOnNat, Nat)
  BY <1>1, NatLessThanWellFounded
<1>3. PICK x \in S : \A y \in S : ~ (<<y, x>> \in LessOnNat)
  BY <1>2, WFMin
<1>4. ASSUME NEW y \in S PROVE x <= y
  <2>1. <<y, x>> \notin LessOnNat /\ x \in Nat /\ y \in Nat
    BY <1>3
  <2>2. ~(y < x)
    BY <2>1 DEF LessOnNat
  <2> QED BY <2>1, <2>2
<1> QED BY <1>4

\* There is a function as End is defined, and End is the only one.
LEMMA EndIsUnique ==
  ASSUME IInv, NEW E, Ends(E)
  PROVE  \A k \in 0 .. Len(code) : End[k] = E[k]
<1>1. Len(code) \in Nat /\ Lines = 1 .. Len(code) /\ 0 \in 0 .. Len(code)
  BY Shape DEF IInv
<1>2. \A k \in 0 .. Len(code) : k # 0 => k \in Lines /\ k - 1 \in 0 .. Len(code) /\ k - 1 < k
  BY <1>1
<1>3. E = [k \in 0 .. Len(code) |-> IF k = 0 THEN StartPos ELSE E[k - 1] + len[k]]
  <2>1. E = [k \in 0 .. Len(code) |-> E[k]]
    BY DEF Ends
  <2>2. \A k \in 0 .. Len(code) : E[k] = IF k = 0 THEN StartPos ELSE E[k - 1] + len[k]
    BY <1>2 DEF Ends
  <2> QED BY <2>1, <2>2
<1>4. End = [k \in 0 .. Len(code) |-> IF k = 0 THEN StartPos ELSE End[k - 1] + len[k]]
  BY <1>3, Zenon DEF End
<1>5. \A k \in 0 .. Len(code) : /\ End[k] = IF k = 0 THEN StartPos ELSE End[k - 1] + len[k]
                                /\ E[k] = IF k = 0 THEN StartPos ELSE E[k - 1] + len[k]
  <2> HIDE DEF End
  <2> QED BY <1>3, <1>4
<1>6. PICK S : S = {k \in 0 .. Len(code) : End[k] # E[k]}
  OBVIOUS
<1>7. CASE S # {}
  <2>1. S \subseteq Nat
    BY <1>1, <1>6
  <2>2. PICK k \in S : \A m \in S : k <= m
    BY <1>7, <2>1, Least
  <2>3. k \in 0 .. Len(code) /\ End[k] # E[k] /\ k \in Nat
    BY <1>6, <2>1, <2>2
  <2>4. k # 0
    BY <1>5, <2>3
  <2>5. k - 1 \in 0 .. Len(code) /\ k - 1 \notin S
    <3>1. k - 1 \in 0 .. Len(code) /\ ~(k <= k - 1)
      BY <1>2, <2>3, <2>4
    <3> QED BY <2>2, <3>1
  <2>6. End[k - 1] = E[k - 1]
    BY <1>6, <2>5
  <2> QED BY <1>5, <2>3, <2>4, <2>6
<1> QED BY <1>6, <1>7

(* Every offset remove_labels writes is the distance from its instruction to
   its target in the bytes that are written, it has the bytes it needs, and
   labels are at even positions: the last encoding was for these positions. *)
THEOREM OffsetsRight == Spec => []OffsetsExact
<1>1. IInv /\ OffsetsInv => OffsetsExact
  <2> SUFFICES ASSUME IInv, OffsetsInv, phase = "done", NEW k \in Lines
               PROVE  /\ Label(k) => End[k] % 2 = 0
                      /\ Jump(k) =>
                           /\ w[k] = (IF code[k].fixed THEN code[k].to ELSE End[code[k].to]) - End[k - 1]
                           /\ EncLen(code[k].enc, w[k]) <= len[k]
    BY DEF OffsetsExact
  <2>1. PICK E : Ends(E) /\ Agrees(E)
    BY DEF OffsetsInv, WrittenKnown
  <2>2. \A m \in 0 .. Len(code) : End[m] = E[m]
    BY <2>1, EndIsUnique
  <2>3. /\ k \in 0 .. Len(code) /\ k - 1 \in 0 .. Len(code)
        /\ Jump(k) /\ ~code[k].fixed => code[k].to \in 0 .. Len(code)
    <3>1. Len(code) \in Nat /\ Lines = 1 .. Len(code)
      BY Shape DEF IInv
    <3>2. Jump(k) /\ ~code[k].fixed => code[k].to \in 1 .. Len(code)
      BY <3>1, Shape DEF IInv
    <3> QED BY <3>1, <3>2
  <2>4. /\ Label(k) => E[k] % 2 = 0
        /\ Jump(k) => w[k] = (IF code[k].fixed THEN code[k].to ELSE E[code[k].to]) - E[k - 1]
    BY <2>1 DEF Agrees
  <2>5. End[k] = E[k] /\ End[k - 1] = E[k - 1]
        /\ (Jump(k) /\ ~code[k].fixed => End[code[k].to] = E[code[k].to])
    BY <2>2, <2>3
  <2>6. Jump(k) => EncLen(code[k].enc, w[k]) <= len[k]
    BY DEF IInv, Room
  <2> HIDE DEF End
  <2> QED BY <2>4, <2>5, <2>6
<1> QED
  BY InitIInv, IInvStep, InitOffsets, StepOffsets, InitEvens, StepEvens, <1>1, PTL DEF Spec

------------------------------------------------------------------------------
(***************************************************************************)
(* The clock.  A pass that is not the last makes some instruction longer,  *)
(* and each length it gets it gets once.                                   *)
(***************************************************************************)
\* Of the ends of windows at or before v the last one is as v for all windows;
\* before all of them, the position before the first.
LEMMA EdgeBelow ==
  ASSUME NEW v \in Int, NEW a \in Int, NEW b \in Int, NEW c \in Int, NEW d \in Int,
         NEW f \in Int, NEW g \in Int, a < b, c < d, f < g
  PROVE  \E e \in {a - 1, a, b} \cup {c - 1, c, d} \cup {f - 1, f, g} :
           /\ a <= v <=> a <= e
           /\ b <= v <=> b <= e
           /\ c <= v <=> c <= e
           /\ d <= v <=> d <= e
           /\ f <= v <=> f <= e
           /\ g <= v <=> g <= e
<1> DEFINE Like(e) ==
             /\ a <= v <=> a <= e
             /\ b <= v <=> b <= e
             /\ c <= v <=> c <= e
             /\ d <= v <=> d <= e
             /\ f <= v <=> f <= e
             /\ g <= v <=> g <= e
<1>1. \/ Like(a - 1) \/ Like(a) \/ Like(b)
      \/ Like(c - 1) \/ Like(c) \/ Like(d)
      \/ Like(f - 1) \/ Like(f) \/ Like(g)
  OBVIOUS
<1> HIDE DEF Like
<1>2. \E e \in {a - 1, a, b} \cup {c - 1, c, d} \cup {f - 1, f, g} : Like(e)
  BY <1>1
<1> QED BY <1>2 DEF Like

LEMMA LengthKnown ==
  ASSUME NEW enc \in Encoder, NEW v \in Int
  PROVE  EncLen(enc, v) \in Lengths(enc)
<1>1. enc.base \in Nat /\ enc.first \in Window /\ enc.second \in Window /\ enc.third \in Window
  BY DEF Encoder
<1>2. ASSUME NEW win \in Window
      PROVE  /\ win.low \in Int /\ win.high \in Int /\ win.high + 1 \in Int
             /\ win.low < win.high + 1
  BY DEF Window
<1>3. PICK e \in {enc.first.low - 1, enc.first.low, enc.first.high + 1}
               \cup {enc.second.low - 1, enc.second.low, enc.second.high + 1}
               \cup {enc.third.low - 1, enc.third.low, enc.third.high + 1} :
        /\ enc.first.low <= v <=> enc.first.low <= e
        /\ enc.first.high + 1 <= v <=> enc.first.high + 1 <= e
        /\ enc.second.low <= v <=> enc.second.low <= e
        /\ enc.second.high + 1 <= v <=> enc.second.high + 1 <= e
        /\ enc.third.low <= v <=> enc.third.low <= e
        /\ enc.third.high + 1 <= v <=> enc.third.high + 1 <= e
  <2>1. /\ enc.first.low \in Int /\ enc.first.high + 1 \in Int
        /\ enc.second.low \in Int /\ enc.second.high + 1 \in Int
        /\ enc.third.low \in Int /\ enc.third.high + 1 \in Int
        /\ enc.first.low < enc.first.high + 1
        /\ enc.second.low < enc.second.high + 1
        /\ enc.third.low < enc.third.high + 1
    BY <1>1, <1>2
  <2> QED BY <2>1, EdgeBelow
<1>4. e \in Int
  BY <1>1, <1>2, <1>3
<1>5. ASSUME NEW win \in Window, win.low <= v <=> win.low <= e, win.high + 1 <= v <=> win.high + 1 <= e
      PROVE  Beyond(v, win) = Beyond(e, win)
  BY <1>2, <1>4, <1>5 DEF Beyond
<1>6. EncLen(enc, v) = EncLen(enc, e)
  BY <1>1, <1>3, <1>5 DEF EncLen
<1>7. e \in Edges(enc)
  BY <1>3, Zenon DEF Edges
<1> QED BY <1>6, <1>7 DEF Lengths

\* An encoder has lengths in Nat, none less than the first.
LEMMA LengthsFrom ==
  ASSUME NEW enc \in Encoder, NEW v \in Int
  PROVE  EncLen(enc, v) \in Nat /\ enc.base <= EncLen(enc, v) /\ EncLen(enc, 0) = enc.base
<1>1. EncLen(enc, 0) = enc.base /\ enc.base \in Nat
  <2>1. enc.base \in Nat /\ enc.first \in Window /\ enc.second \in Window /\ enc.third \in Window
    BY DEF Encoder
  <2>2. ASSUME NEW win \in Window PROVE Beyond(0, win) = 0
    BY DEF Beyond, Window
  <2> QED BY <2>1, <2>2 DEF EncLen
<1>2. EncLen(enc, v) \in Nat /\ EncLen(enc, 0) <= EncLen(enc, v)
  <2>1. (0 <= 0 /\ 0 <= v) \/ (v <= 0 /\ 0 <= 0)
    OBVIOUS
  <2> QED BY <2>1, LengthMonotone
<1> QED BY <1>1, <1>2

LEMMA LengthsNat ==
  ASSUME NEW enc \in Encoder
  PROVE  Lengths(enc) \subseteq Nat
<1>1. Edges(enc) \subseteq Int
  <2>1. \A win \in Window : win.low \in Int /\ win.high \in Int
    BY DEF Window
  <2>2. enc.first \in Window /\ enc.second \in Window /\ enc.third \in Window
    BY DEF Encoder
  <2>3. ASSUME NEW v \in Edges(enc) PROVE v \in Int
    <3>1. PICK win \in {enc.first, enc.second, enc.third} : v \in {win.low - 1, win.low, win.high + 1}
      BY <2>3, Zenon DEF Edges
    <3>2. win \in Window
      BY <2>2, <3>1
    <3> QED BY <2>1, <3>1, <3>2
  <2> QED BY <2>3
<1>2. ASSUME NEW m \in Lengths(enc) PROVE m \in Nat
  <2>1. PICK v \in Edges(enc) : m = EncLen(enc, v)
    BY <1>2 DEF Lengths
  <2> QED BY <1>1, <2>1, LengthsFrom
<1> QED BY <1>2

\* What a jump may have grown to.
LEMMA GrowthsAre ==
  \A x : x \in Growths <=>
           \E k \in Lines : \E m \in Lengths(code[k].enc) :
             x = <<k, m>> /\ Jump(k) /\ code[k].enc.base < m /\ m <= len[k]
<1> DEFINE Longer(k) == {m \in Lengths(code[k].enc) : code[k].enc.base < m /\ m <= len[k]}
           Of(k) == {<<k, m>> : m \in Longer(k)}
           Jumps == {k \in Lines : Jump(k)}
<1>1. Growths = UNION {Of(k) : k \in Jumps}
  BY Zenon DEF Growths
<1> HIDE DEF Of
<1>2. \A x : x \in Growths <=> \E k \in Jumps : x \in Of(k)
  BY <1>1, Zenon
<1>3. \A k : \A x : x \in Of(k) <=> \E m \in Longer(k) : x = <<k, m>>
  BY Zenon DEF Of
<1> QED BY <1>2, <1>3, Zenon

\* Every pass that was not the last has a growth of its own.
Rounds ==
  phase \in {"labels", "encode", "clock"} =>
    /\ IsFiniteSet(Growths)
    /\ Cardinality(Growths) >= InitClock - clock
    /\ phase # "labels" /\ ~done => Cardinality(Growths) > InitClock - clock
    /\ phase = "clock" => clock = 0 /\ ~done

LEMMA InitRounds == Init => Rounds
<1> SUFFICES ASSUME Init PROVE Rounds
  OBVIOUS
<1>1. Types
  BY InitIInv DEF IInv
<1>2. ASSUME NEW x \in Growths PROVE FALSE
  <2>1. PICK k \in Lines : \E m \in Lengths(code[k].enc) :
          Jump(k) /\ code[k].enc.base < m /\ m <= len[k]
    BY <1>2, GrowthsAre
  <2>2. len[k] = EncLen(code[k].enc, 0)
    BY <2>1 DEF Init
  <2>3. code[k].enc \in Encoder
    BY <1>1, <2>1, Shape
  <2>4. len[k] = code[k].enc.base /\ len[k] \in Nat
    BY <2>2, <2>3, LengthsFrom
  <2>5. PICK m \in Lengths(code[k].enc) : code[k].enc.base < m /\ m <= len[k]
    BY <2>1
  <2>6. m \in Nat
    BY <2>3, LengthsNat
  <2> QED BY <2>4, <2>5, <2>6
<1>3. Growths = {}
  BY <1>2
<1>4. IsFiniteSet(Growths) /\ Cardinality(Growths) = 0
  BY <1>3, FS_EmptySet
<1> QED BY <1>4, CodeAssumption DEF Init, Rounds

\* One instruction is encoded again.
LEMMA EncodeRounds ==
  ASSUME IInv, Rounds, phase = "encode", enc_lines_again
  PROVE  Rounds'
<1> USE DEF IInv
<1>1. /\ Len(code) \in Nat /\ Lines = 1 .. Len(code) /\ i \in Lines
      /\ len \in [Lines -> Nat] /\ w \in [Lines -> Int] /\ pos \in Nat
      /\ labs \in [Lines -> Int] /\ clock \in Nat /\ InitClock \in Nat
  BY Shape, CodeAssumption DEF Types, More, enc_lines_again
<1>2. /\ code' = code /\ clock' = clock /\ phase' = "encode" /\ Lines' = Lines
  BY DEF enc_lines_again, Lines
<1>3. IsFiniteSet(Growths) /\ Cardinality(Growths) >= InitClock - clock
      /\ (~done => Cardinality(Growths) > InitClock - clock)
      /\ Cardinality(Growths) \in Nat
  BY FS_CardinalityType DEF Rounds
<1>4. CASE len' = len /\ done' = done
  <2>1. Growths' = Growths
    BY <1>2, <1>4 DEF Growths, Jump
  <2> QED BY <1>2, <1>3, <1>4, <2>1 DEF Rounds
<1>5. CASE ~(len' = len /\ done' = done)
  <2>1. Jump(i) /\ enc_line_again(labs)
    BY <1>5 DEF enc_lines_again
  <2>2. PICK w1 : w1 = Target(labs, i) - pos
    OBVIOUS
  <2>3. w1 \in Int
    BY <1>1, <2>1, <2>2, Shape DEF Target
  <2>4. PICK l1 : l1 = IF w[i] = w1 THEN len[i] ELSE AtLeast(EncLen(code[i].enc, w1), len[i])
    OBVIOUS
  <2>5. /\ len' = [len EXCEPT ![i] = l1] /\ done' = (done /\ l1 = len[i])
    BY <2>1, <2>2, <2>4 DEF enc_line_again, get_jump_offset
  <2>6. l1 # len[i]
    <3>1. CASE l1 = len[i]
      BY <1>1, <1>5, <2>5, <3>1 DEF Types
    <3> QED BY <3>1
  <2>7. code[i].enc \in Encoder /\ w[i] \in Int /\ len[i] \in Nat
    BY <1>1, <2>1, Shape
  <2>8. EncLen(code[i].enc, w1) \in Nat
    BY <2>3, <2>7, LengthsFrom
  <2>9. l1 = EncLen(code[i].enc, w1) /\ len[i] < l1
    BY <2>4, <2>6, <2>7, <2>8 DEF AtLeast
  <2>10. code[i].enc.base <= len[i] /\ code[i].enc.base \in Nat
    <3>1. EncLen(code[i].enc, w[i]) <= len[i]
      BY <1>1, <2>1 DEF Room
    <3>2. EncLen(code[i].enc, w[i]) \in Nat /\ code[i].enc.base <= EncLen(code[i].enc, w[i])
      BY <2>7, LengthsFrom
    <3>3. code[i].enc.base \in Nat
      BY <2>7 DEF Encoder
    <3> QED BY <2>7, <3>1, <3>2, <3>3
  <2>11. \A k \in Lines : len'[k] = IF k = i THEN l1 ELSE len[k]
    BY <1>1, <2>5
  <2>12. \A x : x \in Growths' <=>
                  \E k \in Lines : \E m \in Lengths(code[k].enc) :
                    x = <<k, m>> /\ Jump(k) /\ code[k].enc.base < m /\ m <= len'[k]
    <3>1. (\A x : x \in Growths <=>
                    \E k \in Lines : \E m \in Lengths(code[k].enc) :
                      x = <<k, m>> /\ Jump(k) /\ code[k].enc.base < m /\ m <= len[k])'
      BY GrowthsAre, PTL
    <3> QED BY <1>2, <3>1 DEF Jump
  <2>13. <<i, l1>> \in Growths' /\ <<i, l1>> \notin Growths
    <3>1. l1 \in Lengths(code[i].enc)
      BY <2>3, <2>7, <2>9, LengthKnown
    <3>2. <<i, l1>> \in Growths'
      BY <1>1, <2>1, <2>9, <2>7, <2>8, <2>10, <2>11, <2>12, <3>1
    <3>3. ASSUME <<i, l1>> \in Growths PROVE FALSE
      <4>1. PICK k \in Lines : \E m \in Lengths(code[k].enc) :
              <<i, l1>> = <<k, m>> /\ Jump(k) /\ code[k].enc.base < m /\ m <= len[k]
        BY <3>3, GrowthsAre
      <4>2. k = i /\ l1 <= len[i]
        BY <4>1
      <4> QED BY <2>7, <2>8, <2>9, <4>2
    <3> QED BY <3>2, <3>3
  <2>14. Growths \subseteq Growths'
    <3>1. ASSUME NEW x \in Growths PROVE x \in Growths'
      <4>1. PICK k \in Lines : \E m \in Lengths(code[k].enc) :
              x = <<k, m>> /\ Jump(k) /\ code[k].enc.base < m /\ m <= len[k]
        BY <3>1, GrowthsAre
      <4>2. PICK m \in Lengths(code[k].enc) :
              x = <<k, m>> /\ Jump(k) /\ code[k].enc.base < m /\ m <= len[k]
        BY <4>1
      <4>3. m \in Nat
        <5>1. code[k].enc \in Encoder
          BY <4>2, Shape
        <5> QED BY <4>2, <5>1, LengthsNat
      <4>4. m <= len'[k]
        BY <1>1, <2>7, <2>8, <2>9, <2>11, <4>2, <4>3
      <4> QED BY <2>12, <4>2, <4>4
    <3> QED BY <3>1
  <2>15. Growths' \subseteq Growths \cup ({i} \X (0 .. l1))
    <3>1. ASSUME NEW x \in Growths', x \notin Growths PROVE x \in {i} \X (0 .. l1)
      <4>1. PICK k \in Lines : \E m \in Lengths(code[k].enc) :
              x = <<k, m>> /\ Jump(k) /\ code[k].enc.base < m /\ m <= len'[k]
        BY <3>1, <2>12
      <4>2. PICK m \in Lengths(code[k].enc) :
              x = <<k, m>> /\ Jump(k) /\ code[k].enc.base < m /\ m <= len'[k]
        BY <4>1
      <4>3. m \in Nat
        <5>1. code[k].enc \in Encoder
          BY <4>2, Shape
        <5> QED BY <4>2, <5>1, LengthsNat
      <4>4. k = i
        <5>1. CASE k # i
          <6>1. m <= len[k]
            BY <2>11, <4>2, <5>1
          <6>2. x \in Growths
            BY <4>2, <6>1, GrowthsAre
          <6> QED BY <3>1, <6>2
        <5> QED BY <5>1
      <4>5. m \in 0 .. l1
        BY <1>1, <2>8, <2>9, <2>11, <4>2, <4>3, <4>4
      <4> QED BY <4>2, <4>4, <4>5
    <3> QED BY <3>1
  <2>16. IsFiniteSet(Growths')
    <3>1. IsFiniteSet({i}) /\ IsFiniteSet(0 .. l1)
      <4>1. 0 \in Int /\ l1 \in Int
        BY <2>8, <2>9
      <4>2. IsFiniteSet(0 .. l1)
        BY <4>1, FS_Interval
      <4> QED BY <4>2, FS_Singleton
    <3>2. IsFiniteSet({i} \X (0 .. l1))
      BY <3>1, FS_Product
    <3>3. IsFiniteSet(Growths \cup ({i} \X (0 .. l1)))
      BY <1>3, <3>2, FS_Union
    <3> QED BY <2>15, <3>3, FS_Subset
  <2>17. Cardinality(Growths') \in Nat /\ Cardinality(Growths') >= Cardinality(Growths) + 1
    <3>1. Growths \cup {<<i, l1>>} \subseteq Growths'
      BY <2>13, <2>14
    <3>2. Cardinality(Growths \cup {<<i, l1>>}) = Cardinality(Growths) + 1
      BY <1>3, <2>13, FS_AddElement
    <3>3. Cardinality(Growths \cup {<<i, l1>>}) <= Cardinality(Growths')
      BY <2>16, <3>1, FS_Subset
    <3>4. Cardinality(Growths') \in Nat
      BY <2>16, FS_CardinalityType
    <3> QED BY <1>3, <3>2, <3>3, <3>4
  <2>18. Cardinality(Growths') > InitClock - clock
    BY <1>1, <1>3, <2>17
  <2> QED BY <1>1, <1>2, <2>16, <2>17, <2>18 DEF Rounds
<1> QED BY <1>4, <1>5

LEMMA StepRounds == IInv /\ Rounds /\ [Next]_vars => Rounds'
<1> SUFFICES ASSUME IInv, Rounds, [Next]_vars PROVE Rounds'
  OBVIOUS
<1>1. ASSUME code' = code, len' = len
      PROVE  Growths' = Growths
  BY <1>1 DEF Growths, Lines, Jump
<1>2. clock \in Nat /\ InitClock \in Nat /\ done \in BOOLEAN
  BY CodeAssumption DEF IInv, Types
<1>3. ASSUME phase \in {"labels", "encode", "clock"}
      PROVE  Cardinality(Growths) \in Nat
  BY <1>3, FS_CardinalityType DEF Rounds
<1>4. CASE compute_labels_alt
  <2>1. code' = code /\ len' = len /\ clock' = clock
    BY <1>4 DEF compute_labels_alt, Pass
  <2>2. \/ phase = "labels" /\ phase' = "labels"
        \/ phase = "labels" /\ phase' = "encode" /\ done'
        \/ phase' \in {"relabel", "reencode"}
    BY <1>4 DEF compute_labels_alt, Pass
  <2>3. Growths' = Growths
    BY <1>1, <2>1
  <2> QED BY <2>1, <2>2, <2>3 DEF Rounds
<1>5. CASE enc_lines_again
  <2>1. CASE phase = "encode"
    BY <1>5, <2>1, EncodeRounds
  <2>2. CASE phase = "reencode"
    <3>1. phase' = "reencode"
      BY <1>5, <2>2 DEF enc_lines_again
    <3> QED BY <3>1 DEF Rounds
  <2> QED BY <1>5, <2>1, <2>2 DEF enc_lines_again
<1>6. CASE Repeat
  <2>1. phase = "encode" /\ code' = code /\ len' = len /\ done' = done
    BY <1>6 DEF Repeat, Pass
  <2>2. \/ phase' = "align"
        \/ phase' = "clock" /\ ~done /\ clock = 0 /\ clock' = clock
        \/ phase' = "labels" /\ ~done /\ clock # 0 /\ clock' = clock - 1
    BY <1>6 DEF Repeat, Pass
  <2>3. Growths' = Growths
    BY <1>1, <2>1
  <2>4. CASE phase' = "align"
    BY <2>4 DEF Rounds
  <2>5. CASE phase' = "clock" /\ ~done /\ clock = 0 /\ clock' = clock
    BY <2>1, <2>3, <2>5 DEF Rounds
  <2>6. CASE phase' = "labels" /\ ~done /\ clock # 0 /\ clock' = clock - 1
    <3>1. Cardinality(Growths) > InitClock - clock /\ IsFiniteSet(Growths)
      BY <2>1, <2>6 DEF Rounds
    <3>2. Cardinality(Growths) >= InitClock - (clock - 1)
      BY <1>2, <1>3, <2>1, <3>1
    <3> QED BY <2>3, <2>6, <3>1, <3>2 DEF Rounds
  <2> QED BY <2>2, <2>4, <2>5, <2>6
<1>7. CASE upd_lab_len
  <2>1. phase' \in {"align", "relabel"}
    BY <1>7 DEF upd_lab_len, Pass
  <2> QED BY <2>1 DEF Rounds
<1>8. CASE Finish
  <2>1. phase' \in {"undone", "done", "refused"}
    BY <1>8 DEF Finish, Pass
  <2> QED BY <2>1 DEF Rounds
<1>9. CASE UNCHANGED vars
  <2>1. Growths' = Growths
    BY <1>1, <1>9 DEF vars
  <2> QED BY <1>9, <2>1 DEF vars, Rounds
<1> QED BY <1>4, <1>5, <1>6, <1>7, <1>8, <1>9 DEF Next

(* remove_labels gives up for want of clock only when its jumps have grown
   more often than the clock is long: every pass that is not the last makes
   some jump longer, and a jump has no length twice. *)
THEOREM PassesAreGrowths == Spec => []ClockSpent
<1>1. Rounds => ClockSpent
  BY CodeAssumption DEF Rounds, ClockSpent
<1> QED BY InitIInv, IInvStep, InitRounds, StepRounds, <1>1, PTL DEF Spec
=============================================================================
