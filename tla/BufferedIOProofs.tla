-------------------------- MODULE BufferedIOProofs --------------------------
(***************************************************************************)
(* Proofs about the buffered input streams: the buffer is a window on the  *)
(* file, and a stream with a buffer cannot be told from one without.       *)
(***************************************************************************)
EXTENDS BufferedIO, SequenceTheorems, WellFoundedInduction, TLAPS

(***************************************************************************)
(* Sequences that are put together from two.                               *)
(***************************************************************************)
LEMMA FirstOf ==
  ASSUME NEW s \in Seq(Int), NEW t \in Seq(Int)
  PROVE  Stream!First(s \o t, Len(s)) = s /\ Stream!Drop(s \o t, Len(s)) = t
<1>1. /\ s \o t \in Seq(Int) /\ Len(s \o t) = Len(s) + Len(t) /\ Len(s) \in Nat /\ Len(t) \in Nat
      /\ \A i \in 1 .. Len(s) + Len(t) : (s \o t)[i] = IF i <= Len(s) THEN s[i] ELSE t[i - Len(s)]
      /\ \A i \in 1 .. Len(s) : s[i] \in Int
      /\ \A i \in 1 .. Len(t) : t[i] \in Int
  BY ConcatProperties, LenProperties, ElementOfSeq
<1>2. Stream!First(s \o t, Len(s)) = SubSeq(s \o t, 1, Len(s))
  BY <1>1 DEF Stream!First
<1>3. SubSeq(s \o t, 1, Len(s)) = s
  <2> DEFINE u == SubSeq(s \o t, 1, Len(s))
  <2>1. /\ u \in Seq(Int) /\ Len(u) = Len(s) /\ \A i \in 1 .. Len(s) : u[i] = (s \o t)[i]
    BY <1>1
  <2>2. \A i \in 1 .. Len(u) : u[i] = s[i]
    BY <1>1, <2>1
  <2> HIDE DEF u
  <2>3. u = s
    BY <2>1, <2>2, SeqEqual
  <2> QED BY <2>3 DEF u
<1>4. SubSeq(s \o t, Len(s) + 1, Len(s \o t)) = t
  <2> DEFINE u == SubSeq(s \o t, Len(s) + 1, Len(s) + Len(t))
  <2>1. /\ u \in Seq(Int) /\ Len(u) = Len(t)
        /\ \A i \in 1 .. Len(t) : u[i] = (s \o t)[i + Len(s)]
    BY <1>1
  <2>2. \A i \in 1 .. Len(u) : u[i] = t[i]
    BY <1>1, <2>1
  <2> HIDE DEF u
  <2>3. u = t
    BY <2>1, <2>2, SeqEqual
  <2> QED BY <1>1, <2>3 DEF u
<1> QED BY <1>2, <1>3, <1>4 DEF Stream!Drop

\* More is asked for than there is.
LEMMA AllOf ==
  ASSUME NEW s \in Seq(Int), NEW n \in Nat, Len(s) <= n
  PROVE  Stream!First(s, n) = s /\ Stream!Drop(s, n) = <<>>
<1>1. Len(s) \in Nat /\ SubSeq(s, 1, Len(s)) = s
  BY SubSeqFull, LenProperties
<1>2. (IF n < Len(s) THEN n ELSE Len(s)) = Len(s)
  <2>1. Len(s) \in Nat
    BY LenProperties
  <2> QED BY <2>1
<1>3. SubSeq(s, n + 1, Len(s)) = <<>>
  BY <1>1, SubSeqEmpty
<1> QED BY <1>1, <1>2, <1>3 DEF Stream!First, Stream!Drop

\* The part of the file that is not read yet, and a read from its front.
From(s, o) == SubSeq(s, o + 1, Len(s))

LEMMA FromFacts ==
  ASSUME NEW s \in Seq(Int), NEW o \in 0 .. Len(s), NEW k \in 0 .. Len(s) - o
  PROVE  /\ From(s, o) \in Seq(Int) /\ Len(From(s, o)) = Len(s) - o
         /\ SubSeq(s, o + 1, o + k) \in Seq(Int) /\ Len(SubSeq(s, o + 1, o + k)) = k
         /\ \A j \in 1 .. k : SubSeq(s, o + 1, o + k)[j] = s[o + j]
         /\ From(s, o) = SubSeq(s, o + 1, o + k) \o From(s, o + k)
<1>1. /\ Len(s) \in Nat /\ \A i \in 1 .. Len(s) : s[i] \in Int
  BY LenProperties, ElementOfSeq
<1>2. From(s, o) \in Seq(Int) /\ Len(From(s, o)) = Len(s) - o
  BY <1>1 DEF From
<1>3. /\ SubSeq(s, o + 1, o + k) \in Seq(Int) /\ Len(SubSeq(s, o + 1, o + k)) = k
      /\ \A j \in 1 .. k : SubSeq(s, o + 1, o + k)[j] = s[o + j]
  BY <1>1
<1>4. SubSeq(s, o + 1, o + k) \o SubSeq(s, (o + k) + 1, Len(s)) = SubSeq(s, o + 1, Len(s))
  <2>1. o + 1 \in 1 .. Len(s) + 1 /\ o + k \in (o + 1) - 1 .. Len(s) /\ Len(s) \in o + k .. Len(s)
    BY <1>1
  <2> QED BY <2>1, ConcatAdjacentSubSeq
<1> QED BY <1>2, <1>3, <1>4 DEF From

\* The data bytes of the buffer, and slices of it.
Data == Base .. Base + Size - 1
Inside(from, n) == from \in Int /\ n \in Nat /\ Base <= from /\ from + n <= Base + Size

Cut(b, from, n) == [j \in 1 .. n |-> b[from + j - 1]]

LEMMA CutFacts ==
  ASSUME NEW b \in [Data -> Int], NEW from, NEW n, Inside(from, n)
  PROVE  /\ Cut(b, from, n) \in Seq(Int) /\ Len(Cut(b, from, n)) = n
         /\ \A j \in 1 .. n : Cut(b, from, n)[j] = b[from + j - 1]
<1>1. \A j \in 1 .. n : from + j - 1 \in Data
  BY BufferAssumption DEF Inside, Data, Base
<1>2. \A j \in 1 .. n : b[from + j - 1] \in Int
  BY <1>1
<1> QED BY <1>2 DEF Cut, Inside

LEMMA CutSplit ==
  ASSUME NEW b \in [Data -> Int], NEW from, NEW n, Inside(from, n), NEW k \in 0 .. n
  PROVE  Cut(b, from, n) = Cut(b, from, k) \o Cut(b, from + k, n - k)
<1> DEFINE s == Cut(b, from, k)
           t == Cut(b, from + k, n - k)
           u == Cut(b, from, n)
<1>1. Inside(from, k) /\ Inside(from + k, n - k) /\ n \in Nat /\ from \in Int /\ k \in Nat
  BY BufferAssumption DEF Inside, Base
<1>a. \A x, y : Inside(x, y) =>
        /\ Cut(b, x, y) \in Seq(Int) /\ Len(Cut(b, x, y)) = y
        /\ \A j \in 1 .. y : Cut(b, x, y)[j] = b[x + j - 1]
  BY CutFacts
<1>2. /\ s \in Seq(Int) /\ Len(s) = k /\ \A j \in 1 .. k : s[j] = b[from + j - 1]
  BY <1>1, <1>a
<1>3. /\ t \in Seq(Int) /\ Len(t) = n - k
      /\ \A j \in 1 .. n - k : t[j] = b[(from + k) + j - 1]
  BY <1>1, <1>a
<1>4. /\ u \in Seq(Int) /\ Len(u) = n /\ \A j \in 1 .. n : u[j] = b[from + j - 1]
  BY <1>a
<1> HIDE DEF s, t, u
<1>5. /\ s \o t \in Seq(Int) /\ Len(s \o t) = n
      /\ \A j \in 1 .. n : (s \o t)[j] = IF j <= k THEN s[j] ELSE t[j - k]
  <2>1. /\ s \o t \in Seq(Int) /\ Len(s \o t) = Len(s) + Len(t)
        /\ \A j \in 1 .. Len(s) + Len(t) : (s \o t)[j] = IF j <= Len(s) THEN s[j] ELSE t[j - Len(s)]
    BY <1>2, <1>3, ConcatProperties
  <2>2. Len(s) + Len(t) = n
    BY <1>1, <1>2, <1>3
  <2> QED BY <1>2, <2>1, <2>2
<1>6. \A j \in 1 .. n : (s \o t)[j] = u[j]
  <2>1. ASSUME NEW j \in 1 .. n, j > k PROVE (s \o t)[j] = u[j]
    <3>1. j - k \in 1 .. n - k /\ (from + k) + (j - k) - 1 = from + j - 1
      BY <1>1, <2>1
    <3>2. (s \o t)[j] = t[j - k]
      BY <1>1, <1>5, <2>1
    <3>3. t[j - k] = b[(from + k) + (j - k) - 1]
      BY <1>3, <3>1
    <3>4. u[j] = b[from + j - 1]
      BY <1>4
    <3> QED BY <3>1, <3>2, <3>3, <3>4
  <2>2. ASSUME NEW j \in 1 .. n, ~(j > k) PROVE (s \o t)[j] = u[j]
    <3>1. j \in 1 .. k
      BY <1>1, <2>2
    <3>2. (s \o t)[j] = s[j]
      BY <1>1, <1>5, <3>1
    <3> QED BY <1>2, <1>4, <3>1, <3>2
  <2> QED BY <2>1, <2>2
<1>7. u = s \o t
  BY <1>1, <1>4, <1>5, <1>6, SeqEqual
<1> QED BY <1>7 DEF s, t, u

LEMMA CutInTwo ==
  ASSUME NEW b \in [Data -> Int], NEW from, NEW n, Inside(from, n), NEW k \in 0 .. n
  PROVE  /\ Cut(b, from, n) = Cut(b, from, k) \o Cut(b, from + k, n - k)
         /\ Cut(b, from, k) \in Seq(Int) /\ Len(Cut(b, from, k)) = k
         /\ Cut(b, from + k, n - k) \in Seq(Int) /\ Len(Cut(b, from + k, n - k)) = n - k
<1>1. Inside(from, k) /\ Inside(from + k, n - k)
  BY BufferAssumption DEF Inside, Base
<1>2. \A x, y : Inside(x, y) => Cut(b, x, y) \in Seq(Int) /\ Len(Cut(b, x, y)) = y
  BY CutFacts
<1>3. Cut(b, from, n) = Cut(b, from, k) \o Cut(b, from + k, n - k)
  BY CutSplit
<1> QED BY <1>1, <1>2, <1>3

LEMMA SliceFacts ==
  ASSUME surplus \in [Data -> Int], NEW from, NEW n, Inside(from, n)
  PROVE  /\ Slice(from, n) \in Seq(Int) /\ Len(Slice(from, n)) = n
         /\ \A j \in 1 .. n : Slice(from, n)[j] = surplus[from + j - 1]
<1>1. Slice(from, n) = Cut(surplus, from, n)
  BY DEF Cut, Slice
<1>2. /\ Cut(surplus, from, n) \in Seq(Int) /\ Len(Cut(surplus, from, n)) = n
      /\ \A j \in 1 .. n : Cut(surplus, from, n)[j] = surplus[from + j - 1]
  BY CutFacts
<1> QED BY <1>1, <1>2

\* A part of the buffer that holds what follows position o of a file.
LEMMA CutOfFile ==
  ASSUME NEW b \in [Data -> Int], NEW from, NEW n, Inside(from, n),
         NEW f \in Seq(Int), NEW o \in Nat, o + n <= Len(f),
         \A j \in from .. from + n - 1 : b[j] = f[o + (j - from) + 1]
  PROVE  Cut(b, from, n) = SubSeq(f, o + 1, o + n)
<1> DEFINE u == Cut(b, from, n)
           v == SubSeq(f, o + 1, o + n)
<1>1. from \in Int /\ n \in Nat /\ Len(f) \in Nat
  BY LenProperties DEF Inside
<1>2. u \in Seq(Int) /\ Len(u) = n /\ \A j \in 1 .. n : u[j] = b[from + j - 1]
  BY CutFacts
<1>3. o \in 0 .. Len(f) /\ n \in 0 .. Len(f) - o
  BY <1>1
<1>4. v \in Seq(Int) /\ Len(v) = n /\ \A j \in 1 .. n : v[j] = f[o + j]
  BY <1>3, FromFacts
<1> HIDE DEF u, v
<1>5. ASSUME NEW j \in 1 .. n PROVE u[j] = v[j]
  <2>1. /\ from + j - 1 \in from .. from + n - 1
        /\ o + ((from + j - 1) - from) + 1 = o + j
    BY <1>1
  <2>2. b[from + j - 1] = f[o + ((from + j - 1) - from) + 1]
    BY <2>1
  <2> QED BY <1>2, <1>4, <2>1, <2>2
<1>6. u = v
  BY <1>2, <1>4, <1>5, SeqEqual
<1> QED BY <1>6 DEF u, v

------------------------------------------------------------------------------
(***************************************************************************)
(* The inductive invariant.  While input fills the buffer, what it has put *)
(* there so far is the part of the file just before the descriptor; while  *)
(* a line is read, no piece of it has the line's end.                      *)
(***************************************************************************)
Scanning == [pc : {"scan", "refill"}, chr : Chars, acc : Seq(Int)]
Reading == [pc : {"direct", "fill"}, len : Nat, got : Seq(Int), n : Nat]

Types ==
  /\ file \in Seq(Int) /\ isOpen \in BOOLEAN /\ off \in 0 .. Len(file)
  /\ surplus \in [Data -> Int]
  /\ rref \in Base .. wref /\ wref \in Base .. Base + Size
Unread ==
  /\ wref - rref <= off
  /\ \A j \in rref .. wref - 1 : surplus[j] = file[off - (wref - j) + 1]
AtRest == ml = Idle /\ Unread
OnLine ==
  /\ ml \in Scanning /\ Unread
  /\ ml.pc = "refill" => rref = wref
  /\ \A j \in 1 .. Len(ml.acc) : ml.acc[j] # ml.chr
OnInput ==
  /\ ml \in Reading /\ rref = wref
  /\ ml.len \in Lengths /\ Len(ml.got) <= ml.len
  /\ ml.pc = "fill" =>
       /\ ml.n <= Size /\ ml.n <= off /\ ml.len <= Size
       /\ \A j \in Base .. Base + ml.n - 1 : surplus[j] = file[off - (Base + ml.n - j) + 1]

BufInv == Types /\ (AtRest \/ OnLine \/ OnInput)

LEMMA Numbers ==
  ASSUME Types
  PROVE  /\ Size \in Nat \ {0} /\ IOBuff \in Nat \ {0} /\ Len(file) \in Nat /\ off \in Nat
         /\ rref \in Int /\ wref \in Int /\ Base = 4 /\ wref - rref \in Nat
         /\ Base <= rref /\ rref <= wref /\ wref <= Base + Size
         /\ Inside(rref, wref - rref)
<1>1. Len(file) \in Nat
  BY LenProperties DEF Types
<1> QED BY <1>1, BufferAssumption DEF Types, Base, Inside

LEMMA LeastFacts ==
  ASSUME NEW a \in Nat, NEW b \in Nat
  PROVE  /\ Least(a, b) \in Nat /\ Least(a, b) <= a /\ Least(a, b) <= b
         /\ Least(a, b) = a \/ Least(a, b) = b
BY DEF Least

LEMMA InvBuffer == BufInv => BufferIsFile
<1> SUFFICES ASSUME BufInv PROVE BufferIsFile
  OBVIOUS
<1>1. TypeOK
  <2>1. ml.pc = "fill" => rref = wref /\ ml.n \in 0 .. Size
    BY BufferAssumption DEF BufInv, AtRest, OnLine, OnInput, Idle, Scanning, Reading
  <2> QED BY <2>1 DEF BufInv, Types, TypeOK, Data
<1>2. ml.pc # "fill" => Unread
  <2>1. ASSUME OnInput PROVE Unread
    <3>1. wref - rref = 0 /\ \A j \in rref .. wref - 1 : FALSE
      BY <2>1, Numbers DEF BufInv, OnInput
    <3> QED BY <3>1, Numbers DEF BufInv, Unread
  <2> QED BY <2>1 DEF BufInv, AtRest, OnLine
<1> QED BY <1>1, <1>2 DEF BufferIsFile, Unread

LEMMA CountFacts ==
  ASSUME Types, NEW n \in Nat, NEW k \in Counts(n)
  PROVE  /\ k \in Nat /\ k <= n /\ off + k <= Len(file)
         /\ k = 0 => n = 0 \/ off = Len(file)
<1>1. Len(file) \in Nat /\ off \in 0 .. Len(file)
  BY Numbers DEF Types
<1> QED BY <1>1 DEF Counts, Least

LEMMA StoredFacts ==
  ASSUME Types, NEW at, NEW k, Inside(at, k), off + k <= Len(file), Stored(at, k)
  PROVE  /\ surplus' \in [Data -> Int]
         /\ \A j \in Data : surplus'[j] = IF j \in at .. at + k - 1 THEN file[off + 1 + j - at]
                                         ELSE surplus[j]
<1>1. at \in Int /\ k \in Nat /\ off \in Nat /\ \A i \in 1 .. Len(file) : file[i] \in Int
  BY Numbers, ElementOfSeq DEF Inside, Types
<1>2. DOMAIN surplus = Data /\ \A j \in Data : surplus[j] \in Int /\ j \in Int
  BY BufferAssumption DEF Types, Data, Base
<1>3. surplus' = [j \in Data |-> IF j \in at .. at + k - 1 THEN file[off + 1 + j - at]
                                 ELSE surplus[j]]
  BY <1>2 DEF Stored
<1>4. \A j \in at .. at + k - 1 : off + 1 + j - at \in 1 .. Len(file)
  BY <1>1, Numbers
<1> QED BY <1>1, <1>2, <1>3, <1>4

\* A refill puts the next bytes of the file at the beginning of the buffer.
LEMMA Refilled ==
  ASSUME Types, NEW k \in Counts(Size), off' = off + k, Stored(Base, k), wref' = Base + k,
         UNCHANGED <<file, isOpen>>, rref' \in Base .. Base + k
  PROVE  Types' /\ Unread'
<1>1. k \in Nat /\ k <= Size /\ off + k <= Len(file)
  BY CountFacts, Numbers
<1>2. Inside(Base, k)
  BY <1>1, Numbers DEF Inside
<1>3. /\ surplus' \in [Data -> Int]
      /\ \A j \in Data : surplus'[j] = IF j \in Base .. Base + k - 1 THEN file[off + 1 + j - Base]
                                      ELSE surplus[j]
  BY <1>1, <1>2, StoredFacts
<1>4. Types'
  BY <1>1, <1>3, Numbers DEF Types, Data
<1>5. ASSUME NEW j \in rref' .. wref' - 1 PROVE surplus'[j] = file'[off' - (wref' - j) + 1]
  <2>1. j \in Base .. Base + k - 1 /\ j \in Data /\ j \in Int
    BY <1>1, Numbers DEF Data
  <2>2. surplus'[j] = file[off + 1 + j - Base]
    BY <1>3, <2>1
  <2>3. off + 1 + j - Base = off' - (wref' - j) + 1
    <3>1. off \in Int /\ Base = 4 /\ j \in Int /\ k \in Int
      BY <1>1, <2>1, Numbers
    <3>2. off' = off + k /\ wref' = Base + k
      OBVIOUS
    <3> QED BY <3>1, <3>2
  <2> QED BY <2>2, <2>3
<1> QED BY <1>1, <1>4, <1>5, Numbers DEF Unread

LEMMA Smallest ==
  ASSUME NEW T, T \subseteq Nat, T # {}
  PROVE  \E x \in T : \A y \in T : x <= y
<1>1. PICK x \in T : \A y \in T : ~(<<y, x>> \in OpToRel(<, Nat))
  BY NatLessThanWellFounded, WFMin
<1>2. \A y \in T : ~(y < x)
  BY <1>1 DEF OpToRel
<1> QED BY <1>2

LEMMA JoinNone ==
  ASSUME NEW s \in Seq(Int), NEW t \in Seq(Int), NEW c,
         \A j \in 1 .. Len(s) : s[j] # c, \A j \in 1 .. Len(t) : t[j] # c
  PROVE  s \o t \in Seq(Int) /\ \A j \in 1 .. Len(s \o t) : (s \o t)[j] # c
<1>1. /\ s \o t \in Seq(Int) /\ Len(s \o t) = Len(s) + Len(t) /\ Len(s) \in Nat /\ Len(t) \in Nat
      /\ \A i \in 1 .. Len(s) + Len(t) : (s \o t)[i] = IF i <= Len(s) THEN s[i] ELSE t[i - Len(s)]
  BY ConcatProperties, LenProperties
<1>2. ASSUME NEW j \in 1 .. Len(s \o t) PROVE (s \o t)[j] # c
  <2>1. CASE j <= Len(s)
    BY <1>1, <2>1
  <2>2. CASE ~(j <= Len(s))
    <3>1. j - Len(s) \in 1 .. Len(t) /\ (s \o t)[j] = t[j - Len(s)]
      BY <1>1, <2>2
    <3> QED BY <3>1
  <2> QED BY <2>1, <2>2
<1> QED BY <1>1, <1>2

\* Bytes are handed out from the front of the buffer.
LEMMA HandedOut ==
  ASSUME Types, Unread, UNCHANGED <<file, off, isOpen, surplus, wref>>, rref' \in rref .. wref
  PROVE  Types' /\ Unread'
<1>1. Types'
  BY Numbers DEF Types, Data
<1>2. rref' \in rref .. wref /\ wref' = wref /\ rref' \in Int /\ off' = off
  BY Numbers
<1>3. wref' - rref' <= off'
  BY <1>2, Numbers DEF Unread
<1>4. ASSUME NEW j \in rref' .. wref' - 1 PROVE surplus'[j] = file'[off' - (wref' - j) + 1]
  <2>1. j \in rref .. wref - 1
    BY <1>2, Numbers
  <2> QED BY <1>2, <2>1 DEF Unread
<1> QED BY <1>1, <1>3, <1>4 DEF Unread

LEMMA Untouched ==
  ASSUME Types, UNCHANGED <<file, isOpen, surplus, rref, wref>>, off' \in 0 .. Len(file)
  PROVE  Types'
BY DEF Types, Data

LEMMA MlIs ==
  ASSUME BufInv
  PROVE  /\ ml.pc = "idle" => AtRest
         /\ ml.pc \in {"scan", "refill"} => OnLine
         /\ ml.pc \in {"direct", "fill"} => OnInput
         /\ ml.pc \in {"idle", "scan", "refill", "direct", "fill"}
BY DEF BufInv, AtRest, OnLine, OnInput, Idle, Scanning, Reading

LEMMA OneInv ==
  ASSUME BufInv, NEW op, NEW step \in {0, 1}, One(op, step)
  PROVE  BufInv'
<1>1. ml = Idle /\ Types /\ Unread
  BY MlIs DEF One, Idle, BufInv, AtRest
<1>2. CASE rref # wref
  <2>1. /\ ml' = Idle /\ UNCHANGED <<file, off, isOpen, surplus, wref>>
        /\ rref' = rref + step
    BY <1>2 DEF One, Return, fs
  <2>2. rref' \in rref .. wref
    BY <1>1, <1>2, <2>1, Numbers
  <2> QED BY <1>1, <2>1, <2>2, HandedOut DEF BufInv, AtRest
<1>3. CASE rref = wref /\ isOpen
  <2>1. PICK k \in Counts(Size) :
          /\ off' = off + k /\ Stored(Base, k) /\ wref' = Base + k
          /\ UNCHANGED <<file, isOpen>> /\ ml' = Idle
          /\ rref' = IF k = 0 THEN Base ELSE Base + step
    BY <1>3 DEF One, Refill, Return
  <2>2. rref' \in Base .. Base + k
    BY <1>1, <2>1, CountFacts, Numbers
  <2>3. Types' /\ Unread'
    BY <1>1, <2>1, <2>2, Refilled
  <2> QED BY <2>1, <2>3 DEF BufInv, AtRest
<1>4. CASE rref = wref /\ ~isOpen
  <2>1. ml' = Idle /\ UNCHANGED <<file, off, isOpen, surplus, rref, wref>>
    BY <1>4 DEF One, Refill, Return, fs, buffer
  <2> QED BY <1>1, <2>1 DEF BufInv, Types, AtRest, Unread
<1> QED BY <1>2, <1>3, <1>4

LEMMA LineInv ==
  ASSUME BufInv, (\E chr \in Chars : b_inputLine(chr)) \/ b_inputUntil \/ b_inputRefill
  PROVE  BufInv'
<1>1. ASSUME NEW chr \in Chars, b_inputLine(chr) PROVE BufInv'
  <2>1. ml = Idle /\ Types /\ Unread
    BY <1>1, MlIs DEF b_inputLine, Idle, BufInv, AtRest
  <2>2. ml' = [pc |-> "scan", chr |-> chr, acc |-> <<>>]
        /\ UNCHANGED <<file, off, isOpen, surplus, rref, wref>>
    BY <1>1 DEF b_inputLine, GoOn, fs, buffer
  <2>3. ml' \in Scanning /\ ml'.pc = "scan" /\ Len(ml'.acc) = 0
    BY <2>2 DEF Scanning
  <2>4. Types' /\ Unread'
    BY <2>1, <2>2 DEF Types, Unread
  <2>5. \A j \in 1 .. Len(ml'.acc) : FALSE
    BY <2>3
  <2> QED BY <2>3, <2>4, <2>5 DEF BufInv, OnLine
<1>2. CASE b_inputUntil
  <2> DEFINE found == {j \in rref .. wref - 1 : surplus[j] = ml.chr}
             i == CHOOSE j \in found : \A k \in found : j <= k
  <2>1. ml.pc = "scan" /\ UNCHANGED <<file, off, isOpen, surplus, wref>>
    BY <1>2 DEF b_inputUntil, fs
  <2>2. Types /\ OnLine /\ Unread
    BY <2>1, MlIs DEF BufInv, OnLine
  <2>3. CASE found # {}
    <3>1. i \in rref .. wref - 1
      <4>1. \E j \in found : \A k \in found : j <= k
        <5>1. found \subseteq Nat
          BY <2>2, Numbers DEF Types
        <5> HIDE DEF found
        <5> QED BY <2>3, <5>1, Smallest
      <4> QED BY <4>1
    <3>2. rref' = i + 1 /\ ml' = Idle
      BY <1>2, <2>3 DEF b_inputUntil, Return
    <3>3. rref' \in rref .. wref
      BY <2>2, <3>1, <3>2, Numbers
    <3> QED BY <2>1, <2>2, <3>2, <3>3, HandedOut DEF BufInv, AtRest
  <2>4. CASE found = {}
    <3>1. rref' = wref /\ ml' = [ml EXCEPT !.pc = "refill", !.acc = @ \o Buffered]
      BY <1>2, <2>4 DEF b_inputUntil, GoOn
    <3>2. rref' \in rref .. wref
      BY <2>2, <3>1, Numbers
    <3>3. Types' /\ Unread'
      BY <2>1, <2>2, <3>2, HandedOut
    <3>4. /\ Buffered \in Seq(Int) /\ Len(Buffered) = wref - rref
          /\ \A j \in 1 .. wref - rref : Buffered[j] = surplus[rref + j - 1]
      BY <2>2, Numbers, SliceFacts DEF Types, Buffered
    <3>5. \A j \in 1 .. Len(Buffered) : Buffered[j] # ml.chr
      <4>1. ASSUME NEW j \in 1 .. Len(Buffered) PROVE Buffered[j] # ml.chr
        <5>1. rref + j - 1 \in rref .. wref - 1 /\ j \in 1 .. wref - rref
          BY <2>2, <3>4, Numbers
        <5>2. rref + j - 1 \notin found
          BY <2>4
        <5> QED BY <3>4, <5>1, <5>2
      <4> QED BY <4>1
    <3>6. /\ ml.acc \in Seq(Int) /\ \A j \in 1 .. Len(ml.acc) : ml.acc[j] # ml.chr
          /\ ml \in Scanning
      BY <2>2 DEF OnLine, Scanning
    <3>7. PICK s : s = ml.acc \o Buffered
      OBVIOUS
    <3>8. s \in Seq(Int) /\ \A j \in 1 .. Len(s) : s[j] # ml.chr
      BY <3>4, <3>5, <3>6, <3>7, JoinNone
    <3>9. ml' \in Scanning /\ ml'.acc = s /\ ml'.chr = ml.chr /\ ml'.pc = "refill"
      BY <3>1, <3>6, <3>7, <3>8 DEF Scanning
    <3> QED BY <2>1, <3>1, <3>3, <3>8, <3>9 DEF BufInv, OnLine
  <2> QED BY <2>3, <2>4
<1>3. CASE b_inputRefill
  <2>1. ml.pc = "refill" /\ Types /\ OnLine /\ Unread
    BY <1>3, MlIs DEF b_inputRefill, BufInv, OnLine
  <2>2. CASE isOpen
    <3>1. PICK k \in Counts(Size) :
            /\ off' = off + k /\ Stored(Base, k) /\ wref' = Base + k /\ rref' = Base
            /\ UNCHANGED <<file, isOpen>>
            /\ ml' = IF k = 0 THEN Idle ELSE [ml EXCEPT !.pc = "scan"]
      BY <1>3, <2>2 DEF b_inputRefill, Refill, Return, GoOn
    <3>2. rref' \in Base .. Base + k
      BY <2>1, <3>1, CountFacts, Numbers
    <3>3. Types' /\ Unread'
      BY <2>1, <3>1, <3>2, Refilled
    <3>4. CASE k = 0
      BY <3>1, <3>3, <3>4 DEF BufInv, AtRest
    <3>5. CASE k # 0
      <4>1. /\ ml' \in Scanning /\ ml'.pc = "scan" /\ ml'.acc = ml.acc /\ ml'.chr = ml.chr
        BY <2>1, <3>1, <3>5 DEF OnLine, Scanning
      <4> QED BY <2>1, <3>3, <4>1 DEF BufInv, OnLine
    <3> QED BY <3>4, <3>5
  <2>3. CASE ~isOpen
    <3>1. ml' = Idle /\ UNCHANGED <<file, off, isOpen, surplus, rref, wref>>
      BY <1>3, <2>3 DEF b_inputRefill, Refill, Return, fs, buffer
    <3> QED BY <2>1, <3>1 DEF BufInv, AtRest, Types, Unread
  <2> QED BY <2>2, <2>3
<1> QED BY <1>1, <1>2, <1>3

LEMMA InputInv ==
  ASSUME BufInv, NEW len \in Lengths, NEW room \in Rooms, b_input(len, room)
  PROVE  BufInv'
<1> DEFINE here == wref - rref
<1>1. ml = Idle /\ Types /\ Unread
  BY MlIs DEF b_input, Idle, BufInv, AtRest
<1>2. /\ len \in Nat /\ room \in Nat /\ here \in Nat
      /\ UNCHANGED <<file, off, isOpen, surplus, wref>>
  BY <1>1, Numbers, BufferAssumption DEF b_input, fs
<1>3. CASE room < len
  <2>1. ml' = Idle /\ rref' = rref
    <3>1. ~(room >= len)
      BY <1>2, <1>3
    <3> QED BY <1>3, <3>1 DEF b_input, Return
  <2> QED BY <1>1, <1>2, <2>1 DEF BufInv, AtRest, Types, Unread
<1>4. CASE room >= len /\ (Size < len \/ len > here)
  <2>1. /\ rref' = wref
        /\ ml' = [pc |-> IF Size < len THEN "direct" ELSE "fill", len |-> len,
                  got |-> Buffered, n |-> 0]
    <3>1. ~(room < len) /\ ~(len <= Size /\ len <= here)
      BY <1>1, <1>2, <1>4, Numbers
    <3> QED BY <1>4, <3>1 DEF b_input, GoOn
  <2>2. Buffered \in Seq(Int) /\ Len(Buffered) = here
    BY <1>1, Numbers, SliceFacts DEF Types, Buffered
  <2>3. ml' \in Reading /\ ml'.len = len /\ ml'.got = Buffered /\ ml'.n = 0
        /\ (ml'.pc = "fill" => len <= Size)
    BY <1>1, <1>2, <2>1, <2>2, Numbers DEF Reading
  <2>4. here <= len
    BY <1>1, <1>2, <1>4, Numbers DEF Types
  <2>5. Types'
    BY <1>1, <1>2, <2>1, Numbers DEF Types
  <2>6. \A j \in Base .. Base + 0 - 1 : FALSE
    BY DEF Base
  <2>7. OnInput'
    BY <1>1, <1>2, <2>1, <2>2, <2>3, <2>4, <2>6, Numbers DEF OnInput
  <2> QED BY <2>5, <2>7 DEF BufInv
<1>5. CASE room >= len /\ len <= Size /\ len <= here
  <2>1. rref' = rref + len /\ ml' = Idle
    <3>1. ~(room < len) /\ ~(Size < len \/ len > here)
      BY <1>1, <1>2, <1>5, Numbers
    <3> QED BY <1>5, <3>1 DEF b_input, Return
  <2>2. rref' \in rref .. wref
    BY <1>1, <1>2, <1>5, <2>1, Numbers
  <2> QED BY <1>1, <1>2, <2>1, <2>2, HandedOut DEF BufInv, AtRest
<1> QED BY <1>1, <1>2, <1>3, <1>4, <1>5, Numbers

LEMMA DirectInv ==
  ASSUME BufInv, b_inputDirect
  PROVE  BufInv'
<1>1. /\ ml.pc = "direct" /\ Types /\ OnInput /\ UNCHANGED <<surplus, rref, wref>>
  BY MlIs DEF b_inputDirect, BufInv, buffer
<1>2. ml.len \in Nat /\ ml.got \in Seq(Int) /\ Len(ml.got) \in Nat /\ Len(ml.got) <= ml.len
  BY <1>1, LenProperties DEF OnInput, Reading
<1>3. \A j \in rref .. wref - 1 : FALSE
  BY <1>1, Numbers DEF OnInput
<1>4. CASE isOpen
  <2> DEFINE most == Least(ml.len - Len(ml.got), IOBuff)
  <2>1. PICK k \in Counts(most) :
          /\ off' = off + k /\ UNCHANGED <<file, isOpen>>
          /\ ml' = IF k = 0 THEN Idle ELSE [ml EXCEPT !.got = @ \o SubSeq(file, off + 1, off + k)]
    BY <1>1, <1>4 DEF b_inputDirect, Return, GoOn
  <2>2. most \in Nat /\ most <= ml.len - Len(ml.got)
    BY <1>1, <1>2, Numbers DEF Least
  <2>3. k \in Nat /\ k <= most /\ off + k <= Len(file)
    BY <1>1, <2>2, CountFacts
  <2>4. off' \in 0 .. Len(file)
    BY <1>1, <2>1, <2>3, Numbers
  <2>5. Types'
    BY <1>1, <2>1, <2>4, Untouched
  <2>6. CASE k = 0
    <3>1. ml' = Idle
      BY <2>1, <2>6
    <3>2. Unread'
      BY <1>1, <1>3, <2>1, <2>4, Numbers DEF Unread, OnInput
    <3> QED BY <2>5, <3>1, <3>2 DEF BufInv, AtRest
  <2>7. CASE k # 0
    <3>1. PICK s : s = SubSeq(file, off + 1, off + k)
      OBVIOUS
    <3>2. s \in Seq(Int) /\ Len(s) = k
      <4>1. k \in 0 .. Len(file) - off
        BY <1>1, <2>3, Numbers
      <4> QED BY <1>1, <3>1, <4>1, FromFacts DEF Types
    <3>3. ml.got \o s \in Seq(Int) /\ Len(ml.got \o s) = Len(ml.got) + k
      BY <1>2, <3>2, ConcatProperties
    <3>4. PICK g \in Seq(Int) : g = ml.got \o s /\ Len(g) = Len(ml.got) + k
      BY <3>3
    <3>5. ml' = [ml EXCEPT !.got = g]
      BY <2>1, <2>7, <3>1, <3>4
    <3>6. ml' \in Reading /\ ml'.got = g /\ ml'.len = ml.len /\ ml'.pc = "direct"
      BY <1>1, <3>4, <3>5 DEF OnInput, Reading
    <3>7. Len(g) <= ml.len
      BY <1>2, <2>2, <2>3, <3>4
    <3>8. rref' = wref'
      BY <1>1 DEF OnInput
    <3> QED BY <1>1, <2>5, <3>6, <3>7, <3>8 DEF BufInv, OnInput
  <2> QED BY <2>6, <2>7
<1>5. CASE ~isOpen
  <2>1. ml' = Idle /\ UNCHANGED <<file, off, isOpen, surplus, rref, wref>>
    BY <1>1, <1>5 DEF b_inputDirect, Return, fs
  <2>2. Unread'
    BY <1>1, <1>3, <2>1, Numbers DEF Unread, OnInput
  <2> QED BY <1>1, <2>1, <2>2 DEF BufInv, AtRest, Types
<1> QED BY <1>4, <1>5

\* Another piece of the file behind those already in the buffer.
LEMMA FillMore ==
  ASSUME Types, NEW n \in Nat, NEW k \in Nat, n + k <= Size, off + k <= Len(file),
         \A j \in Base .. Base + n - 1 : surplus[j] = file[off - (Base + n - j) + 1],
         off' = off + k, Stored(Base + n, k), UNCHANGED file
  PROVE  /\ off' \in 0 .. Len(file) /\ surplus' \in [Data -> Int]
         /\ \A j \in Data : j < Base + n => surplus'[j] = surplus[j]
         /\ \A j \in Base .. Base + (n + k) - 1 :
              surplus'[j] = file[off' - (Base + (n + k) - j) + 1]
<1>1. Base = 4 /\ off \in Int /\ Size \in Nat /\ off \in Nat /\ Len(file) \in Nat
  BY Numbers
<1>2. Inside(Base + n, k)
  BY <1>1 DEF Inside
<1>3. /\ surplus' \in [Data -> Int]
      /\ \A j \in Data : surplus'[j] = IF j \in Base + n .. (Base + n) + k - 1
                                       THEN file[off + 1 + j - (Base + n)] ELSE surplus[j]
  BY <1>2, StoredFacts
<1>4. \A j \in Data : j \in Int /\ j >= Base
  BY <1>1 DEF Data
<1>5. ASSUME NEW j \in Data, j < Base + n PROVE surplus'[j] = surplus[j]
  <2>1. j \notin Base + n .. (Base + n) + k - 1
    BY <1>1, <1>4, <1>5
  <2> QED BY <1>3, <2>1
<1>6. ASSUME NEW j \in Base .. Base + (n + k) - 1
      PROVE  surplus'[j] = file[off' - (Base + (n + k) - j) + 1]
  <2>1. j \in Data /\ j \in Int
    BY <1>1 DEF Data
  <2>2. CASE j < Base + n
    <3>1. surplus'[j] = surplus[j] /\ j \in Base .. Base + n - 1
      BY <1>1, <1>5, <2>1, <2>2
    <3>2. off - (Base + n - j) + 1 = off' - (Base + (n + k) - j) + 1
      BY <1>1, <2>1
    <3> QED BY <3>1, <3>2
  <2>3. CASE ~(j < Base + n)
    <3>1. j \in Base + n .. (Base + n) + k - 1
      BY <1>1, <2>1, <2>3
    <3>2. surplus'[j] = file[off + 1 + j - (Base + n)]
      BY <1>3, <2>1, <3>1
    <3>3. off + 1 + j - (Base + n) = off' - (Base + (n + k) - j) + 1
      BY <1>1, <2>1
    <3> QED BY <3>2, <3>3
  <2> QED BY <2>2, <2>3
<1>7. off' \in 0 .. Len(file)
  BY <1>1
<1> QED BY <1>3, <1>5, <1>6, <1>7

LEMMA FillInv ==
  ASSUME BufInv, b_inputFill
  PROVE  BufInv'
<1>1. ml.pc = "fill" /\ Types /\ OnInput
  BY MlIs DEF b_inputFill, BufInv
<1>2. PICK n \in Nat, len \in Nat, got \in Seq(Int) :
        /\ n = ml.n /\ len = ml.len /\ got = ml.got /\ Len(got) \in Nat /\ Len(got) <= len
        /\ len <= Size /\ ml \in Reading
  BY <1>1, LenProperties DEF OnInput, Reading
<1>3. CASE isOpen
  <2>1. PICK k \in Counts(Least(Size - n, IOBuff)) :
          /\ off' = off + k /\ Stored(Base + n, k) /\ UNCHANGED <<file, isOpen>>
          /\ IF k = 0
             THEN /\ wref' = Base + n /\ rref' = Base + Least(n, len - Len(got))
                  /\ ml' = Idle
             ELSE ml' = [ml EXCEPT !.n = n + k] /\ UNCHANGED <<rref, wref>>
    BY <1>1, <1>2, <1>3 DEF b_inputFill, Return, GoOn
  <2>3. n <= off /\ n <= Size
        /\ \A j \in Base .. Base + n - 1 : surplus[j] = file[off - (Base + n - j) + 1]
    BY <1>1, <1>2 DEF OnInput
  <2>2. /\ k \in Nat /\ n + k <= Size /\ off' \in 0 .. Len(file)
        /\ surplus' \in [Data -> Int]
        /\ \A j \in Base .. Base + (n + k) - 1 :
             surplus'[j] = file[off' - (Base + (n + k) - j) + 1]
    <3>1. Size - n \in Nat /\ IOBuff \in Nat
      BY <1>1, <1>2, <2>3, Numbers
    <3>2. Least(Size - n, IOBuff) \in Nat /\ Least(Size - n, IOBuff) <= Size - n
      BY <3>1, LeastFacts
    <3>3. k \in Nat /\ k <= Size - n /\ off + k <= Len(file)
      BY <1>1, <3>1, <3>2, CountFacts
    <3>4. n + k <= Size
      <4>1. Size \in Nat /\ n \in Nat
        BY <1>1, <1>2, Numbers
      <4> QED BY <3>3, <4>1
    <3> QED BY <1>1, <2>1, <2>3, <3>3, <3>4, FillMore
  <2>4. CASE k = 0
    <3>1. wref' = Base + n /\ rref' = Base + Least(n, len - Len(got)) /\ ml' = Idle
      BY <2>1, <2>4
    <3>2. rref' \in Base .. wref' /\ wref' \in Base .. Base + Size
      <4>1. len - Len(got) \in Nat
        BY <1>2
      <4>2. Least(n, len - Len(got)) \in Nat /\ Least(n, len - Len(got)) <= n
        BY <1>2, <4>1, LeastFacts
      <4>3. Base = 4 /\ Size \in Nat /\ n \in Nat /\ n <= Size
        BY <1>1, <2>3, Numbers
      <4> QED BY <3>1, <4>2, <4>3
    <3>3. Types'
      BY <1>1, <2>1, <2>2, <3>2 DEF Types, Data
    <3>4. wref' - rref' <= off'
      <4>1. Base = 4 /\ off' = off + 0 /\ off \in Nat /\ rref' \in Nat
        BY <1>1, <2>1, <2>4, <3>2, Numbers
      <4> QED BY <1>2, <2>3, <3>1, <3>2, <4>1
    <3>5. ASSUME NEW j \in rref' .. wref' - 1 PROVE surplus'[j] = file'[off' - (wref' - j) + 1]
      <4>1. j \in Base .. Base + (n + k) - 1 /\ Base + (n + k) = wref'
        <5>1. Base = 4 /\ n + k = n
          BY <1>1, <1>2, <2>4, Numbers
        <5> QED BY <1>2, <3>1, <3>2, <5>1
      <4>2. surplus'[j] = file[off' - (Base + (n + k) - j) + 1] /\ file' = file
        BY <2>1, <2>2, <4>1
      <4>3. off' - (Base + (n + k) - j) + 1 = off' - (wref' - j) + 1
        <5>1. /\ off' \in Int /\ j \in Int /\ n \in Int /\ k \in Int /\ Base = 4
              /\ wref' = 4 + (n + k)
          BY <1>1, <1>2, <2>2, <4>1, Numbers
        <5> QED BY <5>1
      <4> QED BY <4>2, <4>3
    <3> QED BY <3>1, <3>3, <3>4, <3>5 DEF BufInv, AtRest, Unread
  <2>5. CASE k # 0
    <3>1. ml' = [ml EXCEPT !.n = n + k] /\ UNCHANGED <<rref, wref>>
      BY <2>1, <2>5
    <3>2. /\ ml' \in Reading /\ ml'.n = n + k /\ ml'.len = len /\ ml'.got = got
      <4>1. n + k \in Nat
        BY <1>2, <2>2
      <4> QED BY <1>2, <3>1, <4>1 DEF Reading
    <3>3. Types'
      BY <1>1, <2>1, <2>2, <3>1 DEF Types, Data
    <3>4. n + k <= off' /\ rref' = wref'
      BY <1>1, <2>1, <2>2, <2>3, <3>1, Numbers DEF OnInput
    <3>5. OnInput'
      <4>1. ml.len \in Lengths
        BY <1>1 DEF OnInput
      <4> QED BY <1>2, <2>1, <2>2, <3>2, <3>4, <4>1 DEF OnInput
    <3> QED BY <3>3, <3>5 DEF BufInv
  <2> QED BY <2>4, <2>5
<1>4. CASE ~isOpen
  <2>1. ml' = Idle /\ UNCHANGED <<file, off, isOpen, surplus, rref, wref>>
    BY <1>1, <1>4 DEF b_inputFill, Return, fs, buffer
  <2>2. rref = wref
    BY <1>1 DEF OnInput
  <2>3. Unread'
    BY <1>1, <2>1, <2>2, Numbers DEF Unread
  <2> QED BY <1>1, <2>1, <2>3 DEF BufInv, AtRest, Types
<1> QED BY <1>3, <1>4

LEMMA NextBufInv == BufInv /\ [Next]_vars => BufInv'
<1> SUFFICES ASSUME BufInv, [Next]_vars PROVE BufInv'
  OBVIOUS
<1>1. CASE UNCHANGED vars
  BY <1>1 DEF vars, BufInv, Types, AtRest, OnLine, OnInput, Unread
<1>2. CASE b_closeIn
  <2>1. ml = Idle /\ Types /\ Unread
    BY <1>2, MlIs DEF b_closeIn, Idle, BufInv, AtRest
  <2>2. ml' = Idle /\ isOpen' = FALSE /\ UNCHANGED <<file, off, surplus, rref, wref>>
    BY <1>2 DEF b_closeIn, Return, buffer
  <2> QED BY <2>1, <2>2 DEF BufInv, Types, AtRest, Unread
<1>3. CASE b_input1 \/ b_peekChar
  BY <1>3, OneInv DEF b_input1, b_peekChar
<1>4. CASE (\E chr \in Chars : b_inputLine(chr)) \/ b_inputUntil \/ b_inputRefill
  BY <1>4, LineInv
<1>5. CASE \E len \in Lengths, room \in Rooms : b_input(len, room)
  BY <1>5, InputInv
<1>6. CASE b_inputDirect \/ b_inputFill
  BY <1>6, DirectInv, FillInv
<1> QED BY <1>1, <1>2, <1>3, <1>4, <1>5, <1>6 DEF Next

LEMMA InitBufInv == Init => BufInv
<1> SUFFICES ASSUME Init PROVE BufInv
  OBVIOUS
<1>1. file \in Seq(Int) /\ Len(file) \in Nat /\ Size \in Nat \ {0}
  BY BufferAssumption, LenProperties DEF Init
<1>2. Types
  BY <1>1 DEF Init, Types, Data, Base
<1>3. Unread
  BY <1>1 DEF Init, Unread, Base
<1> QED BY <1>2, <1>3 DEF Init, BufInv, AtRest

LEMMA BufInvHolds == Spec => []BufInv
BY InitBufInv, NextBufInv, PTL DEF Spec

(* The unread bytes in the buffer are those of the file just before the
   descriptor's position, whatever the reads bring and the program asks for. *)
THEOREM BufferIsWindow == Spec => []BufferIsFile
BY BufInvHolds, InvBuffer, PTL

------------------------------------------------------------------------------
(***************************************************************************)
(* The refinement.  What a stream without a buffer still has to read is    *)
(* what the operation in progress has taken, then the unread bytes of the  *)
(* buffer, then the rest of the file, if it is still open.                 *)
(***************************************************************************)
Unfetched == IF isOpen THEN From(file, off) ELSE <<>>
Rest == InHand \o Buffered \o Unfetched

Shape ==
  /\ InHand \in Seq(Int) /\ Buffered \in Seq(Int) /\ Unfetched \in Seq(Int)
  /\ Len(Buffered) = wref - rref /\ (rref = wref => Buffered = <<>>)
  /\ Rest = InHand \o (Buffered \o Unfetched) /\ Buffered \o Unfetched \in Seq(Int)
  /\ ml.pc = "idle" => Rest = Buffered \o Unfetched

LEMMA InvShape == BufInv => Shape
<1> SUFFICES ASSUME BufInv PROVE Shape
  OBVIOUS
<1>1. Types /\ file \in Seq(Int) /\ off \in 0 .. Len(file) /\ isOpen \in BOOLEAN
  BY DEF BufInv, Types
<1>2. Buffered \in Seq(Int) /\ Len(Buffered) = wref - rref
  BY <1>1, Numbers, SliceFacts DEF Types, Buffered
<1>3. From(file, off) \in Seq(Int)
  <2>1. 0 \in 0 .. Len(file) - off
    BY <1>1, Numbers
  <2> QED BY <1>1, <2>1, FromFacts
<1>4. Unfetched \in Seq(Int)
  BY <1>3 DEF Unfetched
<1>5. InHand \in Seq(Int)
  <2>1. CASE AtRest
    BY <2>1 DEF AtRest, Idle, InHand
  <2>2. CASE OnLine
    BY <2>2 DEF OnLine, Scanning, InHand
  <2>3. CASE OnInput /\ ml.pc = "direct"
    BY <2>3 DEF OnInput, Reading, InHand
  <2>4. CASE OnInput /\ ml.pc = "fill"
    <3>1. Inside(Base, ml.n) /\ ml.got \in Seq(Int)
      BY <1>1, <2>4, Numbers DEF OnInput, Reading, Inside
    <3>2. Slice(Base, ml.n) \in Seq(Int)
      BY <1>1, <3>1, SliceFacts DEF Types
    <3>3. InHand = ml.got \o Slice(Base, ml.n)
      BY <2>4 DEF InHand
    <3> QED BY <3>1, <3>2, <3>3, ConcatProperties
  <2> QED BY <2>1, <2>2, <2>3, <2>4, MlIs DEF BufInv, OnInput, Reading
<1>6. rref = wref => Buffered = <<>>
  <2>1. ASSUME rref = wref PROVE Len(Buffered) = 0
    BY <1>1, <1>2, <2>1, Numbers
  <2> QED BY <1>2, <2>1, EmptySeq
<1>7. Rest = InHand \o (Buffered \o Unfetched) /\ Buffered \o Unfetched \in Seq(Int)
  <2>1. (InHand \o Buffered) \o Unfetched = InHand \o (Buffered \o Unfetched)
    BY <1>2, <1>4, <1>5, ConcatAssociative
  <2>2. Buffered \o Unfetched \in Seq(Int)
    BY <1>2, <1>4, ConcatProperties
  <2> QED BY <2>1, <2>2 DEF Rest
<1>8. ml.pc = "idle" => InHand = <<>>
  BY DEF InHand
<1> QED BY <1>2, <1>4, <1>5, <1>6, <1>7, <1>8, ConcatEmptySeq DEF Shape

LEMMA NextShape == BufInv /\ [Next]_vars => Shape /\ Shape'
<1>1. BufInv' => Shape'
  BY InvShape, PTL
<1> QED BY <1>1, InvShape, NextBufInv

(***************************************************************************)
(* The steps of the stream, in terms of what is taken from its front.      *)
(***************************************************************************)
Pieces(x, z) == x \in Seq(Int) /\ z \in Seq(Int) /\ Rest = x \o z

LEMMA IsInput ==
  ASSUME NEW n \in Nat, NEW x, NEW z, Pieces(x, z), Rest' = z,
         result' = Answer("input", n, x), UNCHANGED isOpen,
         Len(x) = n \/ (Len(x) <= n /\ z = <<>>)
  PROVE  Stream!Input(n)
<1>1. Stream!First(Rest, n) = x /\ Stream!Drop(Rest, n) = z
  <2>1. CASE Len(x) = n
    BY <2>1, FirstOf DEF Pieces
  <2>2. CASE Len(x) <= n /\ z = <<>>
    <3>1. Rest = x /\ x \in Seq(Int)
      BY <2>2, ConcatEmptySeq DEF Pieces
    <3> QED BY <2>2, <3>1, AllOf
  <2> QED BY <2>1, <2>2
<1> QED BY <1>1 DEF Stream!Input, Stream!Returns, Answer, Rest, Unfetched, From

LEMMA IsInput1 ==
  ASSUME NEW x, NEW z, Pieces(x, z), Rest' = z,
         result' = Answer("input1", 0, x), UNCHANGED isOpen,
         Len(x) = 1 \/ (x = <<>> /\ z = <<>>)
  PROVE  Stream!Input1
<1>1. Stream!First(Rest, 1) = x /\ Stream!Drop(Rest, 1) = z
  <2>1. CASE Len(x) = 1
    BY <2>1, FirstOf DEF Pieces
  <2>2. CASE x = <<>> /\ z = <<>>
    <3>1. Rest = x /\ x \in Seq(Int) /\ Len(x) = 0
      BY <2>2, ConcatEmptySeq, EmptySeq DEF Pieces
    <3>2. Len(x) <= 1 /\ 1 \in Nat
      BY <3>1
    <3>3. Stream!First(x, 1) = x /\ Stream!Drop(x, 1) = <<>>
      BY <3>1, <3>2, AllOf
    <3> QED BY <2>2, <3>1, <3>3
  <2> QED BY <2>1, <2>2
<1> QED BY <1>1 DEF Stream!Input1, Stream!Returns, Answer, Rest, Unfetched, From

LEMMA IsPeek ==
  ASSUME NEW x, NEW z, Pieces(x, z), Rest' = Rest,
         result' = Answer("peek", 0, x), UNCHANGED isOpen,
         Len(x) = 1 \/ (x = <<>> /\ z = <<>>)
  PROVE  Stream!Peek
<1>1. Stream!First(Rest, 1) = x
  <2>1. CASE Len(x) = 1
    BY <2>1, FirstOf DEF Pieces
  <2>2. CASE x = <<>> /\ z = <<>>
    <3>1. Rest = x /\ x \in Seq(Int) /\ Len(x) = 0
      BY <2>2, ConcatEmptySeq, EmptySeq DEF Pieces
    <3>2. Len(x) <= 1 /\ 1 \in Nat
      BY <3>1
    <3>3. Stream!First(x, 1) = x /\ Stream!Drop(x, 1) = <<>>
      BY <3>1, <3>2, AllOf
    <3> QED BY <2>2, <3>1, <3>3
  <2> QED BY <2>1, <2>2
<1> QED BY <1>1 DEF Stream!Peek, Stream!Returns, Answer, Rest, Unfetched, From

LEMMA IsBegin ==
  ASSUME Rest' = Rest, result' = Nothing, UNCHANGED isOpen
  PROVE  Stream!Begin
BY DEF Stream!Begin, Stream!Returns, Nothing, Answer, Rest, Unfetched, From

LEMMA IsRefuse ==
  ASSUME Rest' = Rest, result' = Answer("IllegalArgument", 0, <<>>), UNCHANGED isOpen
  PROVE  Stream!Refuse
BY DEF Stream!Refuse, Stream!Returns, Answer, Rest, Unfetched, From

LEMMA IsRaise ==
  ASSUME NEW x, NEW z, Pieces(x, z), Rest' = z, isOpen = FALSE,
         result' = Answer("InvalidFD", 0, <<>>), UNCHANGED isOpen
  PROVE  Stream!Raise
<1>1. Len(x) \in 0 .. Len(Rest) /\ Stream!Drop(Rest, Len(x)) = z
  BY FirstOf, LenProperties, ConcatProperties DEF Pieces
<1>2. Rest' = Stream!Drop(Rest, Len(x))
  BY <1>1
<1> QED BY <1>1, <1>2 DEF Stream!Raise, Stream!Returns, Answer, Rest, Unfetched, From

LEMMA IsClose ==
  ASSUME NEW x, NEW z, Pieces(x, z), Rest' = x, isOpen = TRUE, isOpen' = FALSE,
         result' = Answer("close", 0, <<>>)
  PROVE  Stream!Close
<1>1. Stream!First(Rest, Len(x)) = x
  BY FirstOf DEF Pieces
<1>2. Rest' = Stream!First(Rest, Len(Rest'))
  BY <1>1
<1> QED BY <1>2 DEF Stream!Close, Stream!Returns, Answer, Rest, Unfetched, From

LEMMA IsLine ==
  ASSUME NEW chr \in Int, NEW y \in Seq(Int), NEW z \in Seq(Int),
         \A j \in 1 .. Len(y) : y[j] # chr,
         Rest = (y \o <<chr>>) \o z, Rest' = z,
         result' = Answer("line", chr, y \o <<chr>>), UNCHANGED isOpen
  PROVE  Stream!InputLine(chr)
<1> DEFINE here == {j \in 1 .. Len(Rest) : Rest[j] = chr}
           end == CHOOSE j \in here : \A k \in here : j <= k
           x == y \o <<chr>>
<1>1. /\ x \in Seq(Int) /\ Len(x) = Len(y) + 1 /\ Len(y) \in Nat /\ Len(z) \in Nat
      /\ \A j \in 1 .. Len(x) : x[j] = IF j <= Len(y) THEN y[j] ELSE chr
  <2>1. <<chr>> \in Seq(Int) /\ Len(<<chr>>) = 1 /\ <<chr>>[1] = chr
    OBVIOUS
  <2>2. Len(y) \in Nat /\ Len(z) \in Nat
    BY LenProperties
  <2>3. /\ x \in Seq(Int) /\ Len(x) = Len(y) + 1
        /\ \A j \in 1 .. Len(y) + 1 : x[j] = IF j <= Len(y) THEN y[j] ELSE <<chr>>[j - Len(y)]
    BY <2>1, ConcatProperties
  <2>4. \A j \in 1 .. Len(y) + 1 : ~(j <= Len(y)) => j - Len(y) = 1
    BY <2>2
  <2> QED BY <2>1, <2>2, <2>3, <2>4
<1> HIDE DEF x
<1>2. /\ Rest \in Seq(Int) /\ Len(Rest) = Len(x) + Len(z)
      /\ \A j \in 1 .. Len(x) + Len(z) : Rest[j] = IF j <= Len(x) THEN x[j] ELSE z[j - Len(x)]
  BY <1>1, ConcatProperties DEF x
<1>3. Len(x) \in here
  <2>1. Len(x) \in 1 .. Len(Rest) /\ Rest[Len(x)] = x[Len(x)] /\ x[Len(x)] = chr
    BY <1>1, <1>2
  <2> QED BY <2>1
<1>4. \A j \in here : j \in Nat /\ Len(x) <= j
  <2>1. ASSUME NEW j \in 1 .. Len(Rest), j < Len(x) PROVE Rest[j] # chr
    <3>1. j \in 1 .. Len(y) /\ j <= Len(x) /\ j \in 1 .. Len(x) + Len(z) /\ j \in 1 .. Len(x)
      BY <1>1, <1>2, <2>1
    <3>2. Rest[j] = x[j] /\ x[j] = y[j]
      BY <1>1, <1>2, <3>1
    <3> QED BY <3>1, <3>2
  <2> QED BY <1>1, <1>2, <2>1
<1>5. end = Len(x) /\ here # {}
  <2>1. end \in here /\ \A k \in here : end <= k
    BY <1>3, <1>4
  <2> HIDE DEF end, here
  <2> QED BY <1>1, <1>3, <1>4, <2>1
<1>6. Stream!First(Rest, end) = x /\ Stream!Drop(Rest, end) = z
  BY <1>1, <1>5, FirstOf DEF x
<1>7. /\ here # {} /\ result' = Answer("line", chr, Stream!First(Rest, end))
      /\ Rest' = Stream!Drop(Rest, end)
  BY <1>5, <1>6 DEF x
<1> HIDE DEF end
<1> QED BY <1>7 DEF Stream!InputLine, Stream!Returns, Answer, Rest, Unfetched, From, end

\* A last line, or none.
LEMMA IsLastLine ==
  ASSUME NEW chr, Rest \in Seq(Int), \A j \in 1 .. Len(Rest) : Rest[j] # chr, Rest' = <<>>,
         result' = Answer("line", chr, IF Rest = <<>> THEN <<>> ELSE Rest \o <<chr>>),
         UNCHANGED isOpen
  PROVE  Stream!InputLine(chr)
<1>1. {j \in 1 .. Len(Rest) : Rest[j] = chr} = {}
  OBVIOUS
<1> QED BY <1>1 DEF Stream!InputLine, Stream!Returns, Answer, Rest, Unfetched, From

(***************************************************************************)
(* What the unread bytes are after a step.                                 *)
(***************************************************************************)
\* Bytes are handed out from the front of the buffer.
LEMMA HandedPieces ==
  ASSUME Types, UNCHANGED <<file, off, isOpen, surplus, wref>>,
         NEW n \in Nat, n <= wref - rref, rref' = rref + n
  PROVE  /\ Buffered = Slice(rref, n) \o Buffered' /\ Unfetched' = Unfetched
         /\ Slice(rref, n) \in Seq(Int) /\ Len(Slice(rref, n)) = n
         /\ Buffered' \in Seq(Int)
<1>1. wref - rref \in Nat /\ Inside(rref, wref - rref) /\ rref \in Int /\ wref \in Int
  BY Numbers
<1>2. n \in 0 .. wref - rref /\ Inside(rref, n) /\ Inside(rref + n, (wref - rref) - n)
  BY <1>1, Numbers DEF Inside
<1>3. surplus \in [Data -> Int]
  BY DEF Types
<1>4. Cut(surplus, rref, wref - rref)
        = Cut(surplus, rref, n) \o Cut(surplus, rref + n, (wref - rref) - n)
  <2>1. \A b \in [Data -> Int] : \A x, y : Inside(x, y) => \A k \in 0 .. y :
          Cut(b, x, y) = Cut(b, x, k) \o Cut(b, x + k, y - k)
    BY CutSplit
  <2>2. PICK x, y : x = rref /\ y = wref - rref
    OBVIOUS
  <2>3. Inside(x, y) /\ n \in 0 .. y
    BY <1>1, <1>2, <2>2
  <2>4. Cut(surplus, x, y) = Cut(surplus, x, n) \o Cut(surplus, x + n, y - n)
    BY <1>3, <2>1, <2>3
  <2> QED BY <2>2, <2>4
<1>5. \A x, y : Slice(x, y) = Cut(surplus, x, y) /\ (Slice(x, y))' = Cut(surplus', x', y')
  BY DEF Slice, Cut
<1>6. Buffered = Cut(surplus, rref, wref - rref)
  BY <1>5 DEF Buffered
<1>7. Buffered' = Cut(surplus, rref + n, (wref - rref) - n)
  <2>1. Buffered' = Cut(surplus', rref', wref' - rref')
    BY DEF Buffered, Slice, Cut
  <2>2. wref' - rref' = (wref - rref) - n
    BY <1>1
  <2> QED BY <2>1, <2>2
<1>8. Slice(rref, n) \in Seq(Int) /\ Len(Slice(rref, n)) = n
  BY <1>2, <1>3, SliceFacts
<1>9. Buffered' \in Seq(Int)
  BY <1>2, <1>3, <1>7, CutFacts
<1>10. Unfetched' = Unfetched
  BY DEF Unfetched, From
<1> QED BY <1>4, <1>5, <1>6, <1>7, <1>8, <1>9, <1>10

\* A refill of an empty buffer, of which d bytes are handed out at once.
LEMMA RefilledPieces ==
  ASSUME Types, isOpen = TRUE, NEW k \in Counts(Size), off' = off + k, Stored(Base, k),
         wref' = Base + k, UNCHANGED <<file, isOpen>>,
         NEW d \in Nat, d <= k, rref' = Base + d
  PROVE  Buffered' \o Unfetched' = From(file, off + d)
<1>1. /\ k \in Nat /\ k <= Size /\ off + k <= Len(file) /\ Base = 4
      /\ off \in Nat /\ Size \in Nat /\ Len(file) \in Nat
  BY CountFacts, Numbers
<1>2. Inside(Base, k) /\ Inside(Base + d, k - d)
  BY <1>1 DEF Inside
<1>3. /\ surplus' \in [Data -> Int]
      /\ \A j \in Data : surplus'[j] = IF j \in Base .. Base + k - 1 THEN file[off + 1 + j - Base]
                                      ELSE surplus[j]
  BY <1>1, <1>2, StoredFacts
<1>4. file \in Seq(Int) /\ off + d \in Nat /\ (off + d) + (k - d) = off + k
  BY <1>1 DEF Types
<1>5. ASSUME NEW j \in Base + d .. (Base + d) + (k - d) - 1
      PROVE  surplus'[j] = file[(off + d) + (j - (Base + d)) + 1]
  <2>1. j \in Base .. Base + k - 1 /\ j \in Data
    BY <1>1 DEF Data
  <2>2. surplus'[j] = file[off + 1 + j - Base]
    BY <1>3, <2>1
  <2>3. off + 1 + j - Base = (off + d) + (j - (Base + d)) + 1
    BY <1>1, <2>1
  <2> QED BY <2>2, <2>3
<1>6. Cut(surplus', Base + d, k - d) = SubSeq(file, (off + d) + 1, (off + d) + (k - d))
  <2>1. (off + d) + (k - d) <= Len(file)
    BY <1>1
  <2>2. \A b \in [Data -> Int], f \in Seq(Int), o \in Nat : \A x, y :
          /\ Inside(x, y) /\ o + y <= Len(f)
          /\ \A j \in x .. x + y - 1 : b[j] = f[o + (j - x) + 1]
          => Cut(b, x, y) = SubSeq(f, o + 1, o + y)
    BY CutOfFile
  <2>3. PICK x, y, o : x = Base + d /\ y = k - d /\ o = off + d
    OBVIOUS
  <2>4. Inside(x, y) /\ o \in Nat /\ o + y <= Len(file)
    BY <1>2, <1>4, <2>1, <2>3
  <2>5. \A j \in x .. x + y - 1 : surplus'[j] = file[o + (j - x) + 1]
    BY <1>5, <2>3
  <2>6. Cut(surplus', x, y) = SubSeq(file, o + 1, o + y)
    BY <1>3, <1>4, <2>2, <2>4, <2>5
  <2> QED BY <2>3, <2>6
<1>7. Buffered' = Cut(surplus', Base + d, k - d)
  <2>1. Buffered' = Cut(surplus', rref', wref' - rref')
    BY DEF Buffered, Slice, Cut
  <2>2. wref' - rref' = k - d
    BY <1>1
  <2> QED BY <2>1, <2>2
<1>8. Unfetched' = From(file, (off + d) + (k - d))
  BY <1>4 DEF Unfetched, From
<1>9. From(file, off + d) = SubSeq(file, (off + d) + 1, (off + d) + (k - d))
                              \o From(file, (off + d) + (k - d))
  <2>1. off + d \in 0 .. Len(file) /\ k - d \in 0 .. Len(file) - (off + d)
    BY <1>1
  <2> QED BY <1>4, <2>1, FromFacts
<1> QED BY <1>6, <1>7, <1>8, <1>9

(***************************************************************************)
(* Every step is one of the stream's.                                      *)
(***************************************************************************)
LEMMA SameRest ==
  ASSUME Shape, Shape', UNCHANGED <<ml, file, off, isOpen, surplus, rref, wref>>
  PROVE  Rest' = Rest
BY DEF Rest, InHand, Buffered, Slice, Unfetched, From

\* input1 and peek: one byte, or none at the end.
LEMMA OneIs ==
  ASSUME BufInv, Shape, Shape', NEW op, NEW step \in {0, 1}, One(op, step),
         op = (IF step = 1 THEN "input1" ELSE "peek")
  PROVE  Stream!Next
<1>1. /\ ml = Idle /\ ml.pc = "idle" /\ Types
  BY DEF One, Idle, BufInv
<1>2. Rest = Buffered \o Unfetched
  BY <1>1 DEF Shape
<1>3. Buffered' \o Unfetched' \in Seq(Int)
  BY DEF Shape
<1>4. ASSUME NEW x, NEW z, Pieces(x, z), result' = Answer(op, 0, x), UNCHANGED isOpen,
             Len(x) = 1 \/ (x = <<>> /\ z = <<>>), Rest' = IF step = 1 THEN z ELSE Rest
      PROVE  Stream!Next
  <2>1. CASE step = 1
    <3>1. Rest' = z /\ op = "input1"
      BY <1>4, <2>1
    <3> QED BY <1>4, <3>1, IsInput1 DEF Stream!Next
  <2>2. CASE step = 0
    <3>1. Rest' = Rest /\ op = "peek"
      BY <1>4, <2>2
    <3> QED BY <1>4, <3>1, IsPeek DEF Stream!Next
  <2> QED BY <2>1, <2>2
<1>5. CASE rref # wref
  <2>1. /\ ml' = Idle /\ ml'.pc = "idle" /\ UNCHANGED <<file, off, isOpen, surplus, wref>>
        /\ rref' = rref + step /\ result' = Answer(op, 0, <<surplus[rref]>>)
    BY <1>5 DEF One, Return, fs, Idle
  <2>2. /\ rref \in Int /\ wref \in Int /\ 1 <= wref - rref /\ step <= wref - rref
        /\ Inside(rref, 1) /\ rref \in Data
    <3>1. /\ rref \in Int /\ wref \in Int /\ Size \in Nat /\ Base = 4
          /\ Base <= rref /\ rref <= wref /\ wref <= Base + Size
      BY <1>1, Numbers
    <3>2. 1 <= wref - rref /\ step <= wref - rref
      BY <1>5, <3>1
    <3>3. Inside(rref, 1)
      BY <3>1, <3>2 DEF Inside
    <3>4. rref \in Data
      BY <3>1, <3>2 DEF Data
    <3> QED BY <3>1, <3>2, <3>3, <3>4
  <2>3. PICK x, y : x = Slice(rref, 1) /\ y = Cut(surplus, rref + 1, (wref - rref) - 1)
    OBVIOUS
  <2>4. surplus \in [Data -> Int]
    BY <1>1 DEF Types
  <2>5. Buffered = x \o y /\ x \in Seq(Int) /\ Len(x) = 1 /\ y \in Seq(Int)
    <3>1. \A u, v : Inside(u, v) => \A k \in 0 .. v :
            /\ Cut(surplus, u, v) = Cut(surplus, u, k) \o Cut(surplus, u + k, v - k)
            /\ Cut(surplus, u, k) \in Seq(Int) /\ Len(Cut(surplus, u, k)) = k
            /\ Cut(surplus, u + k, v - k) \in Seq(Int)
      BY <2>4, CutInTwo
    <3>2. PICK u, v : u = rref /\ v = wref - rref
      OBVIOUS
    <3>3. Inside(u, v) /\ 1 \in 0 .. v
      BY <1>1, <2>2, <3>2, Numbers
    <3>4. /\ Cut(surplus, u, v) = Cut(surplus, u, 1) \o Cut(surplus, u + 1, v - 1)
          /\ Cut(surplus, u, 1) \in Seq(Int) /\ Len(Cut(surplus, u, 1)) = 1
          /\ Cut(surplus, u + 1, v - 1) \in Seq(Int)
      BY <3>1, <3>3
    <3>5. x = Cut(surplus, u, 1) /\ y = Cut(surplus, u + 1, v - 1) /\ Buffered = Cut(surplus, u, v)
      BY <2>3, <3>2 DEF Cut, Slice, Buffered
    <3> QED BY <3>4, <3>5
  <2>6. x = <<surplus[rref]>>
    <3>1. x[1] = surplus[rref]
      BY <2>2, <2>3, <2>4, SliceFacts
    <3> QED BY <2>5, <3>1
  <2>7. Unfetched \in Seq(Int) /\ Unfetched' = Unfetched
    BY <2>1 DEF Shape, Unfetched, From
  <2>8. Pieces(x, y \o Unfetched)
    <3>1. (x \o y) \o Unfetched = x \o (y \o Unfetched)
      <4>1. \A u, v, w \in Seq(Int) : (u \o v) \o w = u \o (v \o w)
        BY ConcatAssociative
      <4> QED BY <2>5, <2>7, <4>1
    <3>2. y \o Unfetched \in Seq(Int)
      BY <2>5, <2>7, ConcatProperties
    <3> QED BY <1>2, <2>5, <3>1, <3>2 DEF Pieces
  <2>9. Rest' = IF step = 1 THEN y \o Unfetched ELSE Rest
    <3>1. Rest' = Buffered' \o Unfetched
      BY <2>1, <2>7 DEF Shape
    <3>2. CASE step = 1
      <4>1. wref' - rref' = (wref - rref) - 1
        BY <2>1, <2>2, <3>2
      <4>2. Buffered' = Cut(surplus', rref', wref' - rref')
        BY DEF Buffered, Slice, Cut
      <4> QED BY <2>1, <2>3, <3>1, <3>2, <4>1, <4>2
    <3>3. CASE step = 0
      <4>1. rref' = rref
        BY <2>1, <2>2, <3>3
      <4>2. Buffered' = Buffered
        BY <2>1, <4>1 DEF Buffered, Slice
      <4> QED BY <1>2, <3>1, <3>3, <4>2
    <3> QED BY <3>2, <3>3
  <2> QED BY <1>4, <2>1, <2>5, <2>6, <2>8, <2>9
<1>6. CASE rref = wref /\ isOpen = TRUE
  <2>1. PICK k \in Counts(Size) :
          /\ off' = off + k /\ Stored(Base, k) /\ wref' = Base + k
          /\ UNCHANGED <<file, isOpen>> /\ ml' = Idle
          /\ IF k = 0 THEN result' = Answer(op, 0, <<>>) /\ rref' = Base
             ELSE result' = Answer(op, 0, <<surplus'[Base]>>) /\ rref' = Base + step
    BY <1>6 DEF One, Refill, Return
  <2>2. /\ k \in Nat /\ off + k <= Len(file) /\ (k = 0 => off = Len(file)) /\ k <= Size
        /\ off \in 0 .. Len(file) /\ file \in Seq(Int) /\ Base = 4 /\ Len(file) \in Nat
        /\ Size \in Nat \ {0}
    BY <1>1, <2>1, CountFacts, Numbers DEF Types
  <2>3. Rest = From(file, off) /\ Rest' = Buffered' \o Unfetched'
    <3>1. Buffered = <<>> /\ Unfetched = From(file, off) /\ Unfetched \in Seq(Int)
      BY <1>6 DEF Shape, Unfetched
    <3>2. ml'.pc = "idle"
      BY <2>1 DEF Idle
    <3> QED BY <1>2, <3>1, <3>2, ConcatEmptySeq DEF Shape
  <2>4. CASE k = 0
    <3>1. From(file, off) = <<>>
      BY <2>2, <2>4, SubSeqEmpty DEF From
    <3>2. rref' = Base + 0 /\ off + 0 = off
      BY <2>1, <2>2, <2>4
    <3>3. Buffered' \o Unfetched' = From(file, off + 0)
      BY <1>1, <1>6, <2>1, <2>2, <3>2, RefilledPieces
    <3>4. Rest = <<>> /\ Rest' = <<>> /\ <<>> \in Seq(Int)
      BY <2>3, <3>1, <3>2, <3>3, EmptySeq
    <3>5. Pieces(<<>>, <<>>)
      BY <3>4, ConcatEmptySeq DEF Pieces
    <3>6. Rest' = IF step = 1 THEN <<>> ELSE Rest
      BY <3>4
    <3> QED BY <1>4, <2>1, <2>4, <3>5, <3>6
  <2>5. CASE k # 0
    <3>1. PICK x, z : x = SubSeq(file, off + 1, off + 1) /\ z = From(file, off + 1)
      OBVIOUS
    <3>2. 1 \in 0 .. Len(file) - off /\ off + 1 \in 0 .. Len(file) /\ 0 \in 0 .. Len(file) - (off + 1)
      BY <2>2, <2>5
    <3>3. /\ x \in Seq(Int) /\ Len(x) = 1 /\ x[1] = file[off + 1] /\ z \in Seq(Int)
          /\ From(file, off) = x \o z
      <4>1. z \in Seq(Int)
        BY <2>2, <3>1, <3>2, FromFacts
      <4>2. \A o \in 0 .. Len(file), k_ \in Nat : k_ \in 0 .. Len(file) - o =>
              /\ SubSeq(file, o + 1, o + k_) \in Seq(Int) /\ Len(SubSeq(file, o + 1, o + k_)) = k_
              /\ \A j \in 1 .. k_ : SubSeq(file, o + 1, o + k_)[j] = file[o + j]
              /\ From(file, o) = SubSeq(file, o + 1, o + k_) \o From(file, o + k_)
        BY <2>2, FromFacts
      <4>3. /\ SubSeq(file, off + 1, off + 1) \in Seq(Int) /\ Len(SubSeq(file, off + 1, off + 1)) = 1
            /\ \A j \in 1 .. 1 : SubSeq(file, off + 1, off + 1)[j] = file[off + j]
            /\ From(file, off) = SubSeq(file, off + 1, off + 1) \o From(file, off + 1)
        BY <2>2, <3>2, <4>2
      <4>4. 1 \in 1 .. 1
        OBVIOUS
      <4> QED BY <3>1, <4>1, <4>3, <4>4
    <3>4. surplus'[Base] = file[off + 1]
      <4>1. Base \in Data /\ Inside(Base, k) /\ Base \in Base .. Base + k - 1
            /\ off + 1 + Base - Base = off + 1
        BY <2>2, <2>5 DEF Data, Inside
      <4> QED BY <1>1, <2>1, <2>2, <4>1, StoredFacts
    <3>5. x = <<surplus'[Base]>>
      BY <3>3, <3>4
    <3>6. Pieces(x, z)
      BY <2>3, <3>3 DEF Pieces
    <3>7. step \in Nat /\ step <= k /\ rref' = Base + step
      BY <2>1, <2>2, <2>5
    <3>8. Buffered' \o Unfetched' = From(file, off + step)
      BY <1>1, <1>6, <2>1, <2>2, <3>7, RefilledPieces
    <3>9. Rest' = IF step = 1 THEN z ELSE Rest
      <4>1. CASE step = 1
        BY <2>3, <3>1, <3>8, <4>1
      <4>2. CASE step = 0
        <5>1. off + 0 = off
          BY <2>2
        <5> QED BY <2>3, <3>8, <4>2, <5>1
      <4> QED BY <4>1, <4>2
    <3>10. result' = Answer(op, 0, x)
      BY <2>1, <2>5, <3>5
    <3> QED BY <1>4, <2>1, <3>3, <3>6, <3>9, <3>10
  <2> QED BY <2>4, <2>5
<1>7. CASE rref = wref /\ isOpen = FALSE
  <2>1. /\ ml' = Idle /\ UNCHANGED <<file, off, isOpen, surplus, rref, wref>>
        /\ result' = Answer("InvalidFD", 0, <<>>)
    BY <1>7 DEF One, Refill, Return, fs, buffer
  <2>2. Rest' = Rest /\ Rest \in Seq(Int)
    BY <1>1, <2>1, SameRest, <1>2 DEF Shape
  <2>3. Pieces(<<>>, Rest)
    BY <2>2, ConcatEmptySeq, EmptySeq DEF Pieces
  <2> QED BY <1>7, <2>1, <2>2, <2>3, IsRaise DEF Stream!Next
<1> QED BY <1>1, <1>5, <1>6, <1>7 DEF Types

LEMMA Grouped == \A u, v, w \in Seq(Int) : (u \o v) \o w = u \o (v \o w)
BY ConcatAssociative

\* Four pieces of the stream; named so that the provers meet it in one form.
TwoAndOne(w, x, y) == (w \o x) \o y = w \o (x \o y)
TwoAndTwo(w, x, y, z) == w \o ((x \o y) \o z) = (w \o x) \o (y \o z)

LEMMA FourPieces ==
  \A w, x, y, z \in Seq(Int) : TwoAndTwo(w, x, y, z)
<1> SUFFICES ASSUME NEW w \in Seq(Int), NEW x \in Seq(Int), NEW y \in Seq(Int), NEW z \in Seq(Int)
             PROVE  TwoAndTwo(w, x, y, z)
  OBVIOUS
<1>1. (x \o y) \o z = x \o (y \o z)
  BY Grouped
<1>2. y \o z \in Seq(Int)
  BY ConcatProperties
<1>3. \A u, v, r \in Seq(Int) : TwoAndOne(u, v, r)
  BY Grouped DEF TwoAndOne
<1>4. TwoAndOne(w, x, y \o z)
  BY <1>2, <1>3
<1> QED BY <1>1, <1>4 DEF TwoAndOne, TwoAndTwo

LEMMA Joined ==
  /\ \A u, v, w \in Seq(Int) : (u \o v) \o w = u \o (v \o w)
  /\ \A u, v \in Seq(Int) : u \o v \in Seq(Int) /\ Len(u \o v) = Len(u) + Len(v)
  /\ \A u \in Seq(Int) : u \o <<>> = u /\ <<>> \o u = u /\ Len(u) \in Nat
  /\ <<>> \in Seq(Int) /\ Len(<<>>) = 0
BY ConcatAssociative, ConcatProperties, ConcatEmptySeq, LenProperties, EmptySeq

\* An exception: what was taken is gone, and there is nothing but the buffer.
LEMMA RaiseIs ==
  ASSUME Shape, Shape', isOpen = FALSE, UNCHANGED <<file, off, isOpen, surplus, rref, wref>>,
         ml' = Idle, result' = Answer("InvalidFD", 0, <<>>)
  PROVE  Stream!Next
<1>1. Rest' = Buffered' \o Unfetched'
  BY DEF Shape, Idle
<1>2. Buffered' = Buffered /\ Unfetched' = Unfetched
  BY DEF Buffered, Slice, Unfetched, From
<1>3. Pieces(InHand, Buffered \o Unfetched)
  BY DEF Shape, Pieces
<1> QED BY <1>1, <1>2, <1>3, IsRaise DEF Stream!Next

LEMMA UntilIs ==
  ASSUME BufInv, Shape, Shape', b_inputUntil
  PROVE  Stream!Next
<1> DEFINE found == {j \in rref .. wref - 1 : surplus[j] = ml.chr}
           i == CHOOSE j \in found : \A k \in found : j <= k
<1>1. ml.pc = "scan" /\ UNCHANGED <<file, off, isOpen, surplus, wref>>
  BY DEF b_inputUntil, fs
<1>2. /\ Types /\ OnLine /\ InHand = ml.acc /\ ml.acc \in Seq(Int) /\ ml.chr \in Chars
      /\ \A j \in 1 .. Len(ml.acc) : ml.acc[j] # ml.chr
      /\ surplus \in [Data -> Int] /\ ml \in Scanning
  BY <1>1, MlIs DEF BufInv, OnLine, InHand, Scanning, Types
<1>3. /\ rref \in Int /\ wref \in Int /\ Base = 4 /\ Size \in Nat /\ wref - rref \in Nat
      /\ Base <= rref /\ rref <= wref /\ wref <= Base + Size
  BY <1>2, Numbers
<1>4. /\ Buffered \in Seq(Int) /\ Unfetched \in Seq(Int) /\ Rest = ml.acc \o (Buffered \o Unfetched)
  BY <1>2 DEF Shape
<1>5. CASE found # {}
  <2>1. i \in found /\ \A k \in found : i <= k
    <3>1. found \subseteq Nat
      BY <1>3
    <3>2. \E j \in found : \A k \in found : j <= k
      <4> HIDE DEF found
      <4> QED BY <1>5, <3>1, Smallest
    <3> QED BY <3>2
  <2> HIDE DEF i
  <2>2. /\ rref' = i + 1 /\ ml' = Idle
        /\ result' = Answer("line", ml.chr, ml.acc \o Slice(rref, i + 1 - rref))
    BY <1>5 DEF b_inputUntil, Return, i
  <2>3. /\ i \in rref .. wref - 1 /\ i \in Int /\ surplus[i] = ml.chr
        /\ \A j \in rref .. i - 1 : surplus[j] # ml.chr
    <3>1. i \in rref .. wref - 1 /\ i \in Int /\ surplus[i] = ml.chr
      BY <1>3, <2>1
    <3>2. ASSUME NEW j \in rref .. i - 1, surplus[j] = ml.chr PROVE FALSE
      <4>1. j \in found /\ j < i /\ j \in Int
        BY <1>3, <3>1, <3>2
      <4> QED BY <2>1, <3>1, <4>1
    <3> QED BY <3>1, <3>2
  <2>4. PICK n \in Nat : n = i + 1 - rref /\ n >= 1 /\ n <= wref - rref /\ rref' = rref + n
    <3>1. i + 1 - rref \in Nat /\ i + 1 - rref >= 1 /\ i + 1 - rref <= wref - rref
          /\ rref + (i + 1 - rref) = i + 1
      BY <1>3, <2>3
    <3> QED BY <2>2, <3>1
  <2>5. PICK s, t : s = Slice(rref, n) /\ t = Buffered'
    OBVIOUS
  <2>6. /\ Buffered = s \o t /\ Unfetched' = Unfetched
        /\ s \in Seq(Int) /\ Len(s) = n /\ t \in Seq(Int)
    BY <1>1, <1>2, <2>4, <2>5, HandedPieces
  <2>7. Inside(rref, n) /\ n - 1 \in 0 .. n /\ rref + (n - 1) = i /\ n - (n - 1) = 1
    BY <1>3, <2>3, <2>4 DEF Inside
  <2>8. PICK c \in Seq(Int) : /\ s = c \o <<ml.chr>> /\ Len(c) = n - 1
                             /\ \A j \in 1 .. Len(c) : c[j] # ml.chr
    <3>1. PICK r, p : r = rref /\ p = n - 1
      OBVIOUS
    <3>2. Inside(r, n) /\ p \in 0 .. n /\ r + p = i /\ n - p = 1 /\ Inside(r, p) /\ Inside(i, 1)
      BY <1>3, <2>3, <2>4, <2>7, <3>1 DEF Inside
    <3>3. \A x, y : Inside(x, y) => \A k \in 0 .. y :
            /\ Cut(surplus, x, y) = Cut(surplus, x, k) \o Cut(surplus, x + k, y - k)
            /\ Cut(surplus, x, k) \in Seq(Int) /\ Len(Cut(surplus, x, k)) = k
      BY <1>2, CutInTwo
    <3>4. /\ Cut(surplus, r, n) = Cut(surplus, r, p) \o Cut(surplus, r + p, n - p)
          /\ Cut(surplus, r, p) \in Seq(Int) /\ Len(Cut(surplus, r, p)) = p
      BY <3>2, <3>3
    <3>5. \A x, y : Inside(x, y) =>
            /\ Cut(surplus, x, y) \in Seq(Int) /\ Len(Cut(surplus, x, y)) = y
            /\ \A j \in 1 .. y : Cut(surplus, x, y)[j] = surplus[x + j - 1]
      BY <1>2, CutFacts
    <3>6. PICK q \in Seq(Int) : q = Cut(surplus, i, 1) /\ Len(q) = 1 /\ q[1] = surplus[i]
      <4>1. i + 1 - 1 = i /\ 1 \in 1 .. 1
        BY <2>3
      <4>2. /\ Cut(surplus, i, 1) \in Seq(Int) /\ Len(Cut(surplus, i, 1)) = 1
            /\ \A j \in 1 .. 1 : Cut(surplus, i, 1)[j] = surplus[i + j - 1]
        BY <3>2, <3>5
      <4> QED BY <4>1, <4>2
    <3>7. q = <<ml.chr>>
      BY <2>3, <3>6
    <3>8. \A j \in 1 .. p : Cut(surplus, r, p)[j] # ml.chr
      <4>1. ASSUME NEW j \in 1 .. p PROVE Cut(surplus, r, p)[j] # ml.chr
        <5>1. Cut(surplus, r, p)[j] = surplus[r + j - 1]
          BY <3>2, <3>5
        <5>2. r + j - 1 \in rref .. i - 1
          BY <1>3, <2>3, <2>4, <3>1, <3>2
        <5> QED BY <2>3, <5>1, <5>2
      <4> QED BY <4>1
    <3>9. s = Cut(surplus, r, n)
      BY <2>5, <3>1 DEF Slice, Cut
    <3> QED BY <3>1, <3>2, <3>4, <3>6, <3>7, <3>8, <3>9
  <2>9. PICK y \in Seq(Int) : y = ml.acc \o c /\ \A j \in 1 .. Len(y) : y[j] # ml.chr
    BY <1>2, <2>8, JoinNone
  <2>10. ml.chr \in Int /\ <<ml.chr>> \in Seq(Int)
    <3>1. i \in Data
      BY <1>3, <2>3 DEF Data
    <3> QED BY <1>2, <2>3, <3>1
  <2>11. ml.acc \o s = y \o <<ml.chr>>
    <3>1. ml.acc \o (c \o <<ml.chr>>) = (ml.acc \o c) \o <<ml.chr>>
      BY <1>2, <2>8, <2>10, Grouped
    <3> QED BY <2>8, <2>9, <3>1
  <2>12. Rest = (y \o <<ml.chr>>) \o (t \o Unfetched)
    <3>1. PICK acc \in Seq(Int), far \in Seq(Int) : acc = ml.acc /\ far = Unfetched
      BY <1>2, <1>4
    <3>2. TwoAndTwo(acc, s, t, far)
      BY <2>6, FourPieces
    <3>3. Rest = acc \o ((s \o t) \o far)
      BY <1>4, <2>6, <3>1
    <3> QED BY <2>11, <3>1, <3>2, <3>3 DEF TwoAndTwo
  <2>13. Rest' = t \o Unfetched /\ t \o Unfetched \in Seq(Int)
    <3>1. ml'.pc = "idle"
      BY <2>2 DEF Idle
    <3> QED BY <1>4, <2>5, <2>6, <3>1, Joined DEF Shape
  <2>14. result' = Answer("line", ml.chr, y \o <<ml.chr>>)
    BY <2>2, <2>4, <2>5, <2>11
  <2>15. Stream!InputLine(ml.chr)
    BY <1>1, <2>9, <2>10, <2>12, <2>13, <2>14, IsLine
  <2>16. result'.op = "line" /\ result'.arg = ml.chr
    BY <2>14 DEF Answer
  <2> QED BY <2>15, <2>16 DEF Stream!Next
<1>6. CASE found = {}
  <2>1. rref' = wref /\ ml' = [ml EXCEPT !.pc = "refill", !.acc = @ \o Buffered] /\ result' = Nothing
    BY <1>6 DEF b_inputUntil, GoOn
  <2>2. ml'.pc = "refill" /\ ml'.acc = ml.acc \o Buffered
    BY <1>2, <2>1 DEF Scanning
  <2>3. InHand' = ml.acc \o Buffered
    BY <2>2 DEF InHand
  <2>4. Unfetched' = Unfetched /\ Buffered' = <<>>
    BY <1>1, <2>1 DEF Shape, Unfetched, From
  <2>5. Rest' = (ml.acc \o Buffered) \o Unfetched
    BY <1>4, <2>3, <2>4, Joined DEF Shape
  <2>6. Rest' = Rest
    <3>1. (ml.acc \o Buffered) \o Unfetched = ml.acc \o (Buffered \o Unfetched)
      BY <1>2, <1>4, Grouped
    <3> QED BY <1>4, <2>5, <3>1
  <2> QED BY <1>1, <2>1, <2>6, IsBegin DEF Stream!Next
<1> QED BY <1>5, <1>6

LEMMA LineRefillIs ==
  ASSUME BufInv, Shape, Shape', b_inputRefill
  PROVE  Stream!Next
<1>1. /\ ml.pc = "refill" /\ Types /\ OnLine /\ InHand = ml.acc /\ ml.acc \in Seq(Int)
      /\ \A j \in 1 .. Len(ml.acc) : ml.acc[j] # ml.chr
      /\ ml \in Scanning /\ rref = wref
  BY MlIs DEF b_inputRefill, BufInv, OnLine, InHand, Scanning
<1>2. Buffered = <<>> /\ Unfetched \in Seq(Int) /\ Rest = ml.acc \o Unfetched
  BY <1>1, Joined DEF Shape
<1>3. CASE isOpen = TRUE
  <2>1. PICK k \in Counts(Size) :
          /\ off' = off + k /\ Stored(Base, k) /\ wref' = Base + k /\ rref' = Base
          /\ UNCHANGED <<file, isOpen>>
          /\ IF k = 0
             THEN /\ ml' = Idle
                  /\ result' = Answer("line", ml.chr,
                                 IF ml.acc = <<>> THEN <<>> ELSE ml.acc \o <<ml.chr>>)
             ELSE ml' = [ml EXCEPT !.pc = "scan"] /\ result' = Nothing
    BY <1>3 DEF b_inputRefill, Refill, Return, GoOn
  <2>2. /\ k \in Nat /\ (k = 0 => off = Len(file)) /\ Base = 4 /\ off \in Nat /\ Len(file) \in Nat
        /\ off + 0 = off /\ rref' = Base + 0 /\ 0 <= k
    BY <1>1, <2>1, CountFacts, Numbers
  <2>3. Unfetched = From(file, off)
    BY <1>3 DEF Unfetched
  <2>4. Buffered' \o Unfetched' = From(file, off)
    <3>1. Buffered' \o Unfetched' = From(file, off + 0)
      BY <1>1, <1>3, <2>1, <2>2, RefilledPieces
    <3> QED BY <2>2, <3>1
  <2>5. CASE k = 0
    <3>1. Unfetched = <<>>
      BY <2>2, <2>3, <2>5, SubSeqEmpty DEF From
    <3>2. Rest = ml.acc /\ ml'.pc = "idle"
      BY <1>1, <1>2, <2>1, <2>5, <3>1, Joined DEF Idle
    <3>3. Rest' = <<>>
      BY <2>3, <2>4, <3>1, <3>2 DEF Shape
    <3>4. Stream!InputLine(ml.chr)
      BY <1>1, <2>1, <2>5, <3>2, <3>3, IsLastLine
    <3>5. result'.op = "line" /\ result'.arg = ml.chr
      BY <2>1, <2>5 DEF Answer
    <3> QED BY <3>4, <3>5 DEF Stream!Next
  <2>6. CASE k # 0
    <3>1. ml'.pc = "scan" /\ ml'.acc = ml.acc /\ result' = Nothing
      BY <1>1, <2>1, <2>6 DEF Scanning
    <3>2. InHand' = ml.acc
      BY <3>1 DEF InHand
    <3>3. Rest' = Rest
      BY <1>2, <2>3, <2>4, <3>2 DEF Shape
    <3> QED BY <2>1, <3>1, <3>3, IsBegin DEF Stream!Next
  <2> QED BY <2>5, <2>6
<1>4. CASE isOpen = FALSE
  <2>1. /\ ml' = Idle /\ UNCHANGED <<file, off, isOpen, surplus, rref, wref>>
        /\ result' = Answer("InvalidFD", 0, <<>>)
    BY <1>4 DEF b_inputRefill, Refill, Return, fs, buffer
  <2> QED BY <1>4, <2>1, RaiseIs
<1> QED BY <1>1, <1>3, <1>4 DEF Types

LEMMA BeginLine ==
  ASSUME NEW chr, b_inputLine(chr)
  PROVE  Stream!Next
<1>1. /\ ml = Idle /\ ml' = [pc |-> "scan", chr |-> chr, acc |-> <<>>] /\ result' = Nothing
      /\ UNCHANGED <<file, off, isOpen, surplus, rref, wref>>
  BY DEF b_inputLine, GoOn, fs, buffer
<1>2. InHand = <<>> /\ InHand' = <<>>
  BY <1>1 DEF InHand, Idle
<1>3. Rest' = Rest
  BY <1>1, <1>2 DEF Rest, Buffered, Slice, Unfetched, From
<1> QED BY <1>1, <1>3, IsBegin DEF Stream!Next

LEMMA NoCut ==
  ASSUME NEW b \in [Data -> Int]
  PROVE  Cut(b, Base, 0) = <<>>
<1>1. Inside(Base, 0)
  BY BufferAssumption DEF Inside, Base
<1>2. Cut(b, Base, 0) \in Seq(Int) /\ Len(Cut(b, Base, 0)) = 0
  BY <1>1, CutFacts
<1> QED BY <1>2, EmptySeq

LEMMA InputIs ==
  ASSUME BufInv, Shape, Shape', NEW len \in Lengths, NEW room \in Rooms, b_input(len, room)
  PROVE  Stream!Next
<1>1. /\ ml = Idle /\ ml.pc = "idle" /\ Types /\ len \in Nat /\ room \in Nat
      /\ UNCHANGED <<file, off, isOpen, surplus, wref>> /\ wref - rref \in Nat /\ Size \in Nat
  BY Numbers, BufferAssumption DEF b_input, Idle, BufInv, fs
<1>2. Rest = Buffered \o Unfetched /\ Unfetched \in Seq(Int) /\ Buffered \in Seq(Int)
  BY <1>1 DEF Shape
<1>3. Unfetched' = Unfetched
  BY <1>1 DEF Unfetched, From
<1>4. CASE room < len
  <2>1. ml' = ml /\ rref' = rref /\ result' = Answer("IllegalArgument", 0, <<>>)
    <3>1. ~(room >= len)
      BY <1>1, <1>4
    <3> QED BY <1>1, <1>4, <3>1 DEF b_input, Return
  <2>2. Rest' = Rest
    BY <1>1, <2>1, SameRest
  <2> QED BY <1>1, <2>1, <2>2, IsRefuse DEF Stream!Next
<1>5. CASE room >= len /\ (Size < len \/ len > wref - rref)
  <2>1. /\ rref' = wref /\ result' = Nothing
        /\ ml' = [pc |-> IF Size < len THEN "direct" ELSE "fill", len |-> len,
                  got |-> Buffered, n |-> 0]
    <3>1. ~(room < len) /\ ~(len <= Size /\ len <= wref - rref)
      BY <1>1, <1>5
    <3> QED BY <1>5, <3>1 DEF b_input, GoOn
  <2>2. Buffered' = <<>>
    BY <1>1, <2>1 DEF Shape
  <2>3. InHand' = Buffered
    <3>1. CASE Size < len
      BY <2>1, <3>1 DEF InHand
    <3>2. CASE ~(Size < len)
      <4>1. ml'.pc = "fill" /\ ml'.got = Buffered /\ ml'.n = 0
        BY <2>1, <3>2
      <4>2. InHand' = Buffered \o Cut(surplus', Base, 0)
        BY <4>1 DEF InHand, Slice, Cut, Base
      <4>3. surplus' \in [Data -> Int]
        BY <1>1 DEF Types
      <4> QED BY <1>2, <4>2, <4>3, NoCut, ConcatEmptySeq
    <3> QED BY <3>1, <3>2
  <2>4. Rest' = Rest
    <3>1. <<>> \o Unfetched = Unfetched
      BY <1>2, ConcatEmptySeq
    <3>2. Rest' = InHand' \o (Buffered' \o Unfetched')
      BY DEF Shape
    <3> QED BY <1>2, <1>3, <2>2, <2>3, <3>1, <3>2
  <2> QED BY <1>1, <2>1, <2>4, IsBegin DEF Stream!Next
<1>6. CASE room >= len /\ len <= Size /\ len <= wref - rref
  <2>1. /\ rref' = rref + len /\ ml' = Idle /\ ml'.pc = "idle"
        /\ result' = Answer("input", len, Slice(rref, len))
    <3>1. ~(room < len) /\ ~(Size < len \/ len > wref - rref)
      BY <1>1, <1>6
    <3> QED BY <1>6, <3>1 DEF b_input, Return, Idle
  <2>2. PICK x \in Seq(Int), y \in Seq(Int) :
          /\ x = Slice(rref, len) /\ y = Buffered' /\ Buffered = x \o y /\ Len(x) = len
    BY <1>1, <1>6, <2>1, HandedPieces
  <2>3. Pieces(x, y \o Unfetched)
    <3>1. (x \o y) \o Unfetched = x \o (y \o Unfetched)
      BY <1>2, Grouped
    <3>2. y \o Unfetched \in Seq(Int)
      BY <1>2, ConcatProperties
    <3> QED BY <1>2, <2>2, <3>1, <3>2 DEF Pieces
  <2>4. Rest' = y \o Unfetched
    BY <1>3, <2>1, <2>2 DEF Shape
  <2>5. Stream!Input(len)
    BY <1>1, <2>1, <2>2, <2>3, <2>4, IsInput
  <2> QED BY <2>5 DEF Stream!Next
<1> QED BY <1>1, <1>4, <1>5, <1>6

LEMMA DirectIs ==
  ASSUME BufInv, Shape, Shape', b_inputDirect
  PROVE  Stream!Next
<1>1. /\ ml.pc = "direct" /\ Types /\ OnInput /\ ml \in Reading
      /\ UNCHANGED <<surplus, rref, wref>> /\ isOpen \in BOOLEAN
  BY MlIs DEF b_inputDirect, BufInv, buffer, OnInput, Types
<1>2. PICK got \in Seq(Int), len \in Nat :
        got = ml.got /\ len = ml.len /\ len \in Lengths /\ Len(got) <= len /\ Len(got) \in Nat
  BY <1>1, LenProperties DEF OnInput, Reading
<1>3. InHand = got /\ Buffered = <<>> /\ Buffered' = <<>>
  BY <1>1, <1>2 DEF Shape, InHand, OnInput
<1>4. /\ Unfetched \in Seq(Int) /\ <<>> \o Unfetched = Unfetched
      /\ Unfetched' \in Seq(Int) /\ <<>> \o Unfetched' = Unfetched'
  BY ConcatEmptySeq DEF Shape
<1>5. Rest = got \o Unfetched /\ Rest' = InHand' \o Unfetched'
      /\ (ml'.pc = "idle" => Rest' = Unfetched')
  BY <1>3, <1>4 DEF Shape
<1>6. CASE isOpen = TRUE
  <2>1. PICK k \in Counts(Least(len - Len(got), IOBuff)) :
          /\ off' = off + k /\ UNCHANGED <<file, isOpen>>
          /\ IF k = 0 THEN ml' = Idle /\ result' = Answer("input", len, got)
             ELSE /\ ml' = [ml EXCEPT !.got = got \o SubSeq(file, off + 1, off + k)]
                  /\ result' = Nothing
    BY <1>2, <1>6 DEF b_inputDirect, Return, GoOn
  <2>2. /\ off \in 0 .. Len(file) /\ file \in Seq(Int) /\ Len(file) \in Nat
        /\ IOBuff \in Nat \ {0} /\ len - Len(got) \in Nat
    BY <1>1, <1>2, Numbers DEF Types
  <2>3. /\ k \in Nat /\ off + k <= Len(file)
        /\ k = 0 => len = Len(got) \/ off = Len(file)
    <3>1. Least(len - Len(got), IOBuff) \in Nat
          /\ (Least(len - Len(got), IOBuff) = 0 => len - Len(got) = 0)
      BY <2>2, LeastFacts
    <3>2. len - Len(got) = 0 => len = Len(got)
      BY <1>2
    <3> QED BY <1>1, <3>1, <3>2, CountFacts
  <2>4. Unfetched = From(file, off) /\ Unfetched' = From(file, off + k)
    BY <1>6, <2>1 DEF Unfetched
  <2>5. CASE k = 0
    <3>1. Unfetched' = Unfetched
      <4>1. off + k = off
        BY <2>2, <2>5
      <4> QED BY <2>4, <4>1
    <3>2. Rest' = Unfetched /\ result' = Answer("input", len, got)
      BY <1>5, <2>1, <2>5, <3>1 DEF Idle
    <3>3. len = Len(got) \/ Unfetched = <<>>
      <4>1. off = Len(file) => From(file, off) = <<>>
        BY <2>2, SubSeqEmpty DEF From
      <4> QED BY <2>3, <2>4, <2>5, <4>1
    <3>4. Pieces(got, Unfetched)
      BY <1>4, <1>5 DEF Pieces
    <3>5. Stream!Input(len)
      BY <1>2, <2>1, <3>2, <3>3, <3>4, IsInput
    <3> QED BY <1>2, <3>5 DEF Stream!Next
  <2>6. CASE k # 0
    <3>1. PICK x, z : x = SubSeq(file, off + 1, off + k) /\ z = From(file, off + k)
      OBVIOUS
    <3>2. x \in Seq(Int) /\ From(file, off) = x \o z
      <4>1. k \in 0 .. Len(file) - off
        BY <2>2, <2>3
      <4> QED BY <2>2, <3>1, <4>1, FromFacts
    <3>3. ml'.pc = "direct" /\ ml'.got = got \o x /\ result' = Nothing
      BY <1>1, <2>1, <2>6, <3>1 DEF Reading
    <3>4. InHand' = got \o x
      BY <3>3 DEF InHand
    <3>5. z \in Seq(Int) /\ Unfetched' = z
      BY <1>4, <2>4, <3>1
    <3>6. TwoAndOne(got, x, z)
      BY <3>2, <3>5, Grouped DEF TwoAndOne
    <3>7. Rest' = Rest
      BY <1>5, <2>4, <3>2, <3>4, <3>5, <3>6 DEF TwoAndOne
    <3> QED BY <2>1, <3>3, <3>7, IsBegin DEF Stream!Next
  <2> QED BY <2>5, <2>6
<1>7. CASE isOpen = FALSE
  <2>1. /\ ml' = Idle /\ UNCHANGED <<file, off, isOpen, surplus, rref, wref>>
        /\ result' = Answer("InvalidFD", 0, <<>>)
    BY <1>1, <1>7 DEF b_inputDirect, Return, fs
  <2> QED BY <1>7, <2>1, RaiseIs
<1> QED BY <1>1, <1>6, <1>7

\* CutInTwo and CutOfFile for any buffer, file and place.
LEMMA CutsInTwo ==
  \A b \in [Data -> Int] : \A from, n : Inside(from, n) => \A k : k \in 0 .. n =>
    /\ Cut(b, from, n) = Cut(b, from, k) \o Cut(b, from + k, n - k)
    /\ Cut(b, from, k) \in Seq(Int) /\ Len(Cut(b, from, k)) = k
    /\ Cut(b, from + k, n - k) \in Seq(Int) /\ Len(Cut(b, from + k, n - k)) = n - k
BY CutInTwo

LEMMA CutsOfFiles ==
  \A b \in [Data -> Int], f \in Seq(Int), o \in Nat : \A from, n :
    /\ Inside(from, n) /\ o + n <= Len(f)
    /\ \A j \in from .. from + n - 1 : b[j] = f[o + (j - from) + 1]
    => Cut(b, from, n) = SubSeq(f, o + 1, o + n)
BY CutOfFile

\* input fills the buffer: the pieces it reads join the unread bytes in hand,
\* and at the end of the file the request takes its part of them.
LEMMA FillIs ==
  ASSUME BufInv, Shape, Shape', b_inputFill
  PROVE  Stream!Next
<1>1. /\ ml.pc = "fill" /\ Types /\ OnInput /\ ml \in Reading /\ isOpen \in BOOLEAN
      /\ surplus \in [Data -> Int] /\ file \in Seq(Int)
  BY MlIs DEF b_inputFill, BufInv, OnInput, Types
<1>2. PICK n \in Nat, len \in Nat, got \in Seq(Int) :
        /\ n = ml.n /\ len = ml.len /\ got = ml.got /\ len \in Lengths
        /\ Len(got) \in Nat /\ Len(got) <= len /\ len <= Size /\ n <= Size /\ n <= off
        /\ \A j \in Base .. Base + n - 1 : surplus[j] = file[off - (Base + n - j) + 1]
  BY <1>1, LenProperties DEF OnInput, Reading
<1>3. /\ Base = 4 /\ Size \in Nat /\ IOBuff \in Nat \ {0} /\ off \in 0 .. Len(file)
      /\ Len(file) \in Nat /\ len - Len(got) \in Nat /\ Size - n \in Nat
  <2>1. /\ Base = 4 /\ Size \in Nat /\ IOBuff \in Nat \ {0} /\ off \in 0 .. Len(file)
        /\ Len(file) \in Nat
    BY <1>1, Numbers DEF Types
  <2> QED BY <1>2, <2>1
<1>4. PICK s : s = Cut(surplus, Base, n)
  OBVIOUS
<1>5. InHand = got \o s /\ Buffered = <<>> /\ s \in Seq(Int) /\ Inside(Base, n)
  <2>1. InHand = got \o s
    BY <1>1, <1>2, <1>4 DEF InHand, Slice, Cut
  <2>2. Buffered = <<>>
    BY <1>1 DEF Shape, OnInput
  <2>3. Inside(Base, n)
    BY <1>2, <1>3 DEF Inside
  <2> QED BY <1>1, <1>4, <2>1, <2>2, <2>3, CutFacts
<1>6. /\ Unfetched \in Seq(Int) /\ <<>> \o Unfetched = Unfetched
      /\ Unfetched' \in Seq(Int) /\ <<>> \o Unfetched' = Unfetched'
  BY ConcatEmptySeq DEF Shape
<1>7. Rest = (got \o s) \o Unfetched
  BY <1>5, <1>6 DEF Shape
<1>8. CASE isOpen = TRUE
  <2>1. PICK k \in Counts(Least(Size - n, IOBuff)) :
          /\ off' = off + k /\ Stored(Base + n, k) /\ UNCHANGED <<file, isOpen>>
          /\ IF k = 0
             THEN /\ wref' = Base + n /\ rref' = Base + Least(n, len - Len(got)) /\ ml' = Idle
                  /\ result' = Answer("input", len, got \o Slice(Base, Least(n, len - Len(got))))
             ELSE ml' = [ml EXCEPT !.n = n + k] /\ result' = Nothing /\ UNCHANGED <<rref, wref>>
    BY <1>1, <1>2, <1>8 DEF b_inputFill, Return, GoOn
  <2>2. /\ k \in Nat /\ n + k <= Size /\ off + k <= Len(file)
        /\ k = 0 => n = Size \/ off = Len(file)
    <3>1. Least(Size - n, IOBuff) \in Nat /\ Least(Size - n, IOBuff) <= Size - n
          /\ (Least(Size - n, IOBuff) = 0 => Size - n = 0)
      BY <1>3, LeastFacts
    <3>2. /\ k \in Nat /\ k <= Least(Size - n, IOBuff) /\ off + k <= Len(file)
          /\ k = 0 => Least(Size - n, IOBuff) = 0 \/ off = Len(file)
      BY <1>1, <3>1, CountFacts
    <3>3. Size - n = 0 => n = Size
      BY <1>2, <1>3
    <3>4. n + k <= Size
      BY <1>2, <1>3, <3>1, <3>2
    <3> QED BY <3>1, <3>2, <3>3, <3>4
  <2>3. Unfetched = From(file, off) /\ Unfetched' = From(file, off + k)
    BY <1>8, <2>1 DEF Unfetched
  <2>4. /\ surplus' \in [Data -> Int]
        /\ \A j \in Data : j < Base + n => surplus'[j] = surplus[j]
        /\ \A j \in Base .. Base + (n + k) - 1 :
             surplus'[j] = file[(off + k) - (Base + (n + k) - j) + 1]
    BY <1>1, <1>2, <2>1, <2>2, FillMore
  <2>c. \A x : \A y, m \in Nat : Inside(x, y) /\ m <= y =>
          /\ Cut(surplus', x, y) = Cut(surplus', x, m) \o Cut(surplus', x + m, y - m)
          /\ Cut(surplus', x, m) \in Seq(Int) /\ Len(Cut(surplus', x, m)) = m
          /\ Cut(surplus', x + m, y - m) \in Seq(Int) /\ Len(Cut(surplus', x + m, y - m)) = y - m
    <3>1. surplus' \in [Data -> Int]
      BY <2>4
    <3>2. ASSUME NEW x, NEW y \in Nat, NEW m \in Nat, Inside(x, y), m <= y
          PROVE  /\ Cut(surplus', x, y) = Cut(surplus', x, m) \o Cut(surplus', x + m, y - m)
                 /\ Cut(surplus', x, m) \in Seq(Int) /\ Len(Cut(surplus', x, m)) = m
                 /\ Cut(surplus', x + m, y - m) \in Seq(Int)
                 /\ Len(Cut(surplus', x + m, y - m)) = y - m
      <4>1. PICK v, w : v = y /\ w = m
        OBVIOUS
      <4>2. Inside(x, v) /\ w \in 0 .. v
        BY <3>2, <4>1
      <4>3. /\ Cut(surplus', x, v) = Cut(surplus', x, w) \o Cut(surplus', x + w, v - w)
            /\ Cut(surplus', x, w) \in Seq(Int) /\ Len(Cut(surplus', x, w)) = w
            /\ Cut(surplus', x + w, v - w) \in Seq(Int) /\ Len(Cut(surplus', x + w, v - w)) = v - w
        BY <3>1, <4>2, CutsInTwo
      <4> QED BY <4>1, <4>3
    <3> QED BY <3>2
  <2>5. Cut(surplus', Base, n) = s
    <3>1. \A j \in 1 .. n : surplus'[Base + j - 1] = surplus[Base + j - 1]
      <4>1. ASSUME NEW j \in 1 .. n PROVE surplus'[Base + j - 1] = surplus[Base + j - 1]
        <5>1. Base + j - 1 \in Data /\ Base + j - 1 < Base + n
          BY <1>2, <1>3 DEF Data
        <5> QED BY <2>4, <5>1
      <4> QED BY <4>1
    <3> QED BY <1>4, <3>1 DEF Cut
  <2>6. CASE k = 0
    <3>1. PICK more \in Nat :
            /\ more = Least(n, len - Len(got)) /\ more <= n /\ more <= len - Len(got)
            /\ more = n \/ more = len - Len(got)
      <4>1. PICK m \in Nat : m = len - Len(got)
        BY <1>3
      <4>2. /\ Least(n, m) \in Nat /\ Least(n, m) <= n /\ Least(n, m) <= m
            /\ Least(n, m) = n \/ Least(n, m) = m
        BY LeastFacts
      <4> QED BY <4>1, <4>2
    <3>2. PICK a, b : a = Cut(surplus', Base, more) /\ b = Cut(surplus', Base + more, n - more)
      OBVIOUS
    <3>3. /\ s = a \o b /\ a \in Seq(Int) /\ Len(a) = more /\ b \in Seq(Int) /\ Len(b) = n - more
          /\ a = Slice(Base, more)
      <4>1. more \in 0 .. n
        BY <3>1
      <4>2. /\ Cut(surplus', Base, n) = Cut(surplus', Base, more) \o Cut(surplus', Base + more, n - more)
            /\ Cut(surplus', Base, more) \in Seq(Int) /\ Len(Cut(surplus', Base, more)) = more
            /\ Cut(surplus', Base + more, n - more) \in Seq(Int)
            /\ Len(Cut(surplus', Base + more, n - more)) = n - more
        <5>1. PICK x : x = Base
          OBVIOUS
        <5>2. Inside(x, n) /\ more <= n
          BY <1>5, <3>1, <5>1
        <5>3. /\ Cut(surplus', x, n) = Cut(surplus', x, more) \o Cut(surplus', x + more, n - more)
              /\ Cut(surplus', x, more) \in Seq(Int) /\ Len(Cut(surplus', x, more)) = more
              /\ Cut(surplus', x + more, n - more) \in Seq(Int)
              /\ Len(Cut(surplus', x + more, n - more)) = n - more
          BY <2>c, <5>2
        <5> QED BY <5>1, <5>3
      <4>3. \A j \in 1 .. more : surplus'[Base + j - 1] = surplus[Base + j - 1]
        <5>1. ASSUME NEW j \in 1 .. more PROVE surplus'[Base + j - 1] = surplus[Base + j - 1]
          <6>1. Base + j - 1 \in Data /\ Base + j - 1 < Base + n
            BY <1>2, <1>3, <3>1 DEF Data
          <6> QED BY <2>4, <6>1
        <5> QED BY <5>1
      <4>4. a = Slice(Base, more)
        BY <3>2, <4>3 DEF Slice, Cut
      <4> QED BY <2>5, <3>2, <4>2, <4>4
    <3>4. Buffered' = b /\ Unfetched' = Unfetched /\ ml'.pc = "idle"
          /\ result' = Answer("input", len, got \o a)
      <4>1. wref' = Base + n /\ rref' = Base + more /\ ml' = Idle
            /\ result' = Answer("input", len, got \o a)
        BY <2>1, <2>6, <3>1, <3>3
      <4>2. wref' - rref' = n - more
        BY <1>3, <3>1, <4>1
      <4>3. Buffered' = Cut(surplus', rref', wref' - rref')
        BY DEF Buffered, Slice, Cut
      <4>4. off + k = off
        BY <1>3, <2>6
      <4> QED BY <2>3, <3>2, <4>1, <4>2, <4>3, <4>4 DEF Idle
    <3>5. PICK x \in Seq(Int), z \in Seq(Int) : x = got \o a /\ z = b \o Unfetched
      BY <1>6, <3>3, ConcatProperties
    <3>6. Len(x) = Len(got) + more
      BY <3>3, <3>5, ConcatProperties
    <3>7. Rest = x \o z
      <4>1. TwoAndTwo(got, a, b, Unfetched)
        BY <1>6, <3>3, FourPieces
      <4>2. TwoAndOne(got, s, Unfetched)
        BY <1>5, <1>6, Grouped DEF TwoAndOne
      <4> QED BY <1>7, <3>3, <3>5, <4>1, <4>2 DEF TwoAndOne, TwoAndTwo
    <3>8. Rest' = z
      BY <3>4, <3>5 DEF Shape
    <3>9. Len(x) = len \/ (Len(x) <= len /\ z = <<>>)
      <4>1. CASE more = len - Len(got)
        BY <1>2, <3>6, <4>1
      <4>2. CASE more = n /\ more < len - Len(got)
        <5>1. Len(x) <= len /\ n # Size
          <6>1. /\ Len(got) \in Nat /\ len \in Nat /\ n \in Nat /\ Size \in Nat /\ len <= Size
                /\ n < len - Len(got) /\ Len(x) = Len(got) + n
            BY <1>2, <1>3, <3>6, <4>2
          <6> QED BY <6>1
        <5>2. Unfetched = <<>>
          BY <1>3, <2>2, <2>3, <2>6, <5>1, SubSeqEmpty DEF From
        <5>3. b = <<>>
          <6>1. Len(b) = 0
            BY <3>3, <4>2
          <6> QED BY <3>3, <6>1, EmptySeq
        <5> QED BY <1>6, <3>5, <5>1, <5>2, <5>3
      <4> QED BY <1>2, <1>3, <3>1, <4>1, <4>2
    <3>10. Stream!Input(len)
      BY <2>1, <3>4, <3>5, <3>7, <3>8, <3>9, IsInput DEF Pieces
    <3> QED BY <1>2, <3>10 DEF Stream!Next
  <2>7. CASE k # 0
    <3>1. PICK p, z : p = SubSeq(file, off + 1, off + k) /\ z = From(file, off + k)
      OBVIOUS
    <3>2. p \in Seq(Int) /\ From(file, off) = p \o z
      <4>1. k \in 0 .. Len(file) - off
        BY <1>3, <2>2
      <4> QED BY <1>1, <1>3, <3>1, <4>1, FromFacts
    <3>3. z \in Seq(Int) /\ Unfetched' = z /\ Unfetched = p \o z
      BY <1>6, <2>3, <3>1, <3>2
    <3>4. PICK N \in Nat : N = n + k /\ n \in 0 .. N /\ N - n = k /\ Inside(Base, N)
                          /\ Inside(Base + n, k)
      <4>1. n + k \in Nat /\ n \in 0 .. n + k /\ (n + k) - n = k
        BY <2>2
      <4>2. Inside(Base, n + k) /\ Inside(Base + n, k)
        BY <1>3, <2>2 DEF Inside
      <4> QED BY <4>1, <4>2
    <3>5. Cut(surplus', Base, N) = s \o Cut(surplus', Base + n, k)
      <4>1. Cut(surplus', Base, N) = Cut(surplus', Base, n) \o Cut(surplus', Base + n, N - n)
        <5>1. PICK x : x = Base
          OBVIOUS
        <5>2. Inside(x, N) /\ n <= N
          BY <3>4, <5>1
        <5>3. Cut(surplus', x, N) = Cut(surplus', x, n) \o Cut(surplus', x + n, N - n)
          BY <2>c, <5>2
        <5> QED BY <5>1, <5>3
      <4> QED BY <2>5, <3>4, <4>1
    <3>6. Cut(surplus', Base + n, k) = p
      <4>1. ASSUME NEW j \in Base + n .. (Base + n) + k - 1
            PROVE  surplus'[j] = file[off + (j - (Base + n)) + 1]
        <5>1. j \in Base .. Base + (n + k) - 1
          BY <1>3, <2>2
        <5>2. (off + k) - (Base + (n + k) - j) + 1 = off + (j - (Base + n)) + 1
          BY <1>3, <2>2
        <5> QED BY <2>4, <5>1, <5>2
      <4>2. PICK x : x = Base + n
        OBVIOUS
      <4>3. \A j \in x .. x + k - 1 : surplus'[j] = file[off + (j - x) + 1]
        BY <4>1, <4>2
      <4>4. Inside(x, k) /\ off \in Nat /\ off + k <= Len(file)
        BY <1>3, <2>2, <3>4, <4>2
      <4>a. \A v, w : /\ Inside(v, w) /\ off + w <= Len(file)
                      /\ \A j \in v .. v + w - 1 : surplus'[j] = file[off + (j - v) + 1]
                      => Cut(surplus', v, w) = SubSeq(file, off + 1, off + w)
        <5>1. surplus' \in [Data -> Int] /\ file \in Seq(Int) /\ off \in Nat
          BY <1>1, <1>3, <2>4
        <5> QED BY <5>1, CutsOfFiles
      <4>5. Cut(surplus', x, k) = SubSeq(file, off + 1, off + k)
        BY <4>3, <4>4, <4>a      <4> QED BY <3>1, <4>2, <4>5
    <3>7. InHand' = got \o (s \o p) /\ result' = Nothing
      <4>1. /\ ml'.pc = "fill" /\ ml'.got = got /\ ml'.n = N /\ result' = Nothing
            /\ rref' = wref'
        BY <1>1, <1>2, <2>1, <2>7, <3>4 DEF Reading, OnInput
      <4>2. InHand' = got \o Cut(surplus', Base, N)
        BY <4>1 DEF InHand, Slice, Cut, Base
      <4> QED BY <3>5, <3>6, <4>1, <4>2
    <3>8. Buffered' = <<>>
      BY <1>1, <2>1, <2>7 DEF Shape, OnInput
    <3>9. PICK q \in Seq(Int) : q = s \o p
      BY <1>5, <3>2, ConcatProperties
    <3>10. Rest' = (got \o q) \o z
      BY <1>6, <3>3, <3>7, <3>8, <3>9 DEF Shape
    <3>11. TwoAndOne(got, q, z) /\ TwoAndTwo(got, s, p, z)
      <4>1. TwoAndOne(got, q, z)
        BY <3>3, Grouped DEF TwoAndOne
      <4> QED BY <1>5, <3>2, <3>3, <4>1, FourPieces
    <3>12. Rest' = Rest
      BY <1>7, <3>3, <3>9, <3>10, <3>11 DEF TwoAndOne, TwoAndTwo
    <3> QED BY <2>1, <3>7, <3>12, IsBegin DEF Stream!Next
  <2> QED BY <2>6, <2>7
<1>9. CASE isOpen = FALSE
  <2>1. /\ ml' = Idle /\ UNCHANGED <<file, off, isOpen, surplus, rref, wref>>
        /\ result' = Answer("InvalidFD", 0, <<>>)
    BY <1>1, <1>9 DEF b_inputFill, Return, fs, buffer
  <2> QED BY <1>9, <2>1, RaiseIs
<1> QED BY <1>1, <1>8, <1>9

\* b_closeIn leaves what is buffered, and fails on a closed descriptor.
LEMMA CloseIs ==
  ASSUME BufInv, Shape, Shape', b_closeIn
  PROVE  Stream!Next
<1>1. /\ ml = Idle /\ ml' = Idle /\ isOpen' = FALSE
      /\ UNCHANGED <<file, off, surplus, rref, wref>>
      /\ result' = Answer(IF isOpen THEN "close" ELSE "InvalidFD", 0, <<>>)
  BY DEF b_closeIn, Return, buffer
<1>2. ml.pc = "idle" /\ ml'.pc = "idle"
  BY <1>1 DEF Idle
<1>3. Buffered' = Buffered /\ Unfetched' = <<>>
  BY <1>1 DEF Buffered, Slice, Unfetched
<1>4. Rest' = Buffered
  BY <1>2, <1>3, ConcatEmptySeq DEF Shape
<1>5. Pieces(Buffered, Unfetched)
  BY <1>2 DEF Shape, Pieces
<1>6. CASE isOpen = TRUE
  <2>1. Stream!Close
    BY <1>1, <1>4, <1>5, <1>6, IsClose
  <2> QED BY <2>1 DEF Stream!Next
<1>7. CASE isOpen = FALSE
  <2>1. UNCHANGED isOpen /\ result' = Answer("InvalidFD", 0, <<>>)
    BY <1>1, <1>7
  <2> QED BY <1>1, <1>7, <2>1, RaiseIs
<1> QED BY <1>6, <1>7 DEF BufInv, Types

LEMMA StepIs == BufInv /\ [Next]_vars => [Stream!Next]_(Stream!vars)
<1> SUFFICES ASSUME BufInv, [Next]_vars PROVE [Stream!Next]_(Stream!vars)
  OBVIOUS
<1>1. Shape /\ Shape'
  BY NextShape
<1>2. CASE UNCHANGED vars
  BY <1>2 DEF vars, Stream!vars, InHand, Buffered, Slice
<1>3. CASE b_closeIn
  BY <1>1, <1>3, CloseIs
<1>4. CASE b_input1
  BY <1>1, <1>4, OneIs DEF b_input1
<1>5. CASE b_peekChar
  BY <1>1, <1>5, OneIs DEF b_peekChar
<1>6. CASE \E chr \in Chars : b_inputLine(chr)
  BY <1>6, BeginLine
<1>7. CASE \E len \in Lengths, room \in Rooms : b_input(len, room)
  BY <1>1, <1>7, InputIs
<1>8. CASE b_inputUntil
  BY <1>1, <1>8, UntilIs
<1>9. CASE b_inputRefill
  BY <1>1, <1>9, LineRefillIs
<1>10. CASE b_inputDirect
  BY <1>1, <1>10, DirectIs
<1>11. CASE b_inputFill
  BY <1>1, <1>11, FillIs
<1> QED BY <1>2, <1>3, <1>4, <1>5, <1>6, <1>7, <1>8, <1>9, <1>10, <1>11 DEF Next

LEMMA BeginsAsStream == Init => Stream!Init
BY DEF Init, Stream!Init, Nothing, Answer

(* A stream with a buffer returns what one without would, whatever the mixture
   of b_input, b_input1, b_peekChar and b_inputLine, the sizes of the reads and
   the place of b_closeIn among them. *)
THEOREM StreamImplemented == Spec => ImplementsStream
BY BeginsAsStream, StepIs, BufInvHolds, PTL DEF Spec, ImplementsStream, Stream!Spec
============================================================================
