---------------------------- MODULE ParMoveProofs -----------------------------
(* The ordering of a parallel move ends, keeps its moves well formed and their
   meaning, and its instructions do them, whatever the moves and however many. *)
EXTENDS ParMove, SequenceTheorems, WellFoundedInduction, TLAPS

(* parmove's two lists of waiting moves are lists of moves. *)
Lists == mu \in Seq(Move) /\ sigma \in Seq(Move)

(* Taking the move at j off a list leaves one move less, of the same list. *)
LEMMA WithoutOne ==
  ASSUME NEW ms \in Seq(Move), NEW j \in 1 .. Len(ms)
  PROVE  Without(ms, j) \in Seq(Move) /\ Len(Without(ms, j)) = Len(ms) - 1
<1> DEFINE front == SubSeq(ms, 1, j - 1)
           back == SubSeq(ms, j + 1, Len(ms))
<1>1. Len(ms) \in Nat /\ \A k \in 1 .. Len(ms) : ms[k] \in Move
  BY ElementOfSeq, LenProperties
<1>2. front \in Seq(Move) /\ Len(front) = j - 1
  BY <1>1, SubSeqProperties
<1>3. back \in Seq(Move) /\ Len(back) = Len(ms) - j
  BY <1>1, SubSeqProperties
<1>4. Without(ms, j) = front \o back
  BY DEF Without
<1> HIDE DEF front, back
<1>5. front \o back \in Seq(Move) /\ Len(front \o back) = Len(front) + Len(back)
  BY <1>2, <1>3, ConcatProperties, Zenon
<1> QED BY <1>1, <1>2, <1>3, <1>4, <1>5

(* The temporary in place of the source of the last move: as many moves. *)
LEMMA BrokenTail ==
  ASSUME NEW ms \in Seq(Move), Len(ms) > 1
  PROVE  Cut(ms) \in Seq(Move) /\ Len(Cut(ms)) = Len(ms) - 1
<1>1. Last(ms) \in Move
  BY DEF Last
<1>2. [Last(ms) EXCEPT !.s = NONE] \in Move
  BY <1>1 DEF Move
<1>3. Tail(ms) \in Seq(Move) /\ Len(Tail(ms)) = Len(ms) - 1
  OBVIOUS
<1>4. Front(Tail(ms)) \in Seq(Move) /\ Len(Front(Tail(ms))) = Len(ms) - 2
  BY <1>3 DEF Front
<1> QED BY <1>2, <1>4 DEF Cut

(* The elements of the lists fstep builds. *)
LEMMA WithoutElements ==
  ASSUME NEW ms \in Seq(Move), NEW j \in 1 .. Len(ms), NEW k \in 1 .. Len(ms) - 1
  PROVE  Without(ms, j)[k] = IF k < j THEN ms[k] ELSE ms[k + 1]
<1> DEFINE front == SubSeq(ms, 1, j - 1)
           back == SubSeq(ms, j + 1, Len(ms))
<1>1. Len(ms) \in Nat /\ \A i \in 1 .. Len(ms) : ms[i] \in Move
  BY ElementOfSeq, LenProperties
<1>2. /\ front \in Seq(Move) /\ Len(front) = j - 1
      /\ \A i \in 1 .. j - 1 : front[i] = ms[i]
  BY <1>1, SubSeqProperties
<1>3. /\ back \in Seq(Move) /\ Len(back) = Len(ms) - j
      /\ \A i \in 1 .. Len(ms) - j : back[i] = ms[j + i]
  BY <1>1, SubSeqProperties
<1>4. Without(ms, j) = front \o back
  BY DEF Without
<1> HIDE DEF front, back
<1>5. \A i \in 1 .. Len(front) + Len(back) :
        (front \o back)[i] = IF i <= Len(front) THEN front[i] ELSE back[i - Len(front)]
  BY <1>2, <1>3, ConcatProperties, Zenon
<1>6. k \in 1 .. Len(front) + Len(back)
  BY <1>1, <1>2, <1>3
<1>7. CASE k < j
  BY <1>1, <1>2, <1>4, <1>5, <1>6, <1>7
<1>8. CASE ~(k < j)
  <2>1. Without(ms, j)[k] = back[k - (j - 1)]
    BY <1>1, <1>2, <1>4, <1>5, <1>6, <1>8
  <2>2. k - (j - 1) \in 1 .. Len(ms) - j /\ j + (k - (j - 1)) = k + 1
    BY <1>1, <1>8
  <2> QED BY <2>1, <2>2, <1>3, <1>8
<1> QED BY <1>7, <1>8

LEMMA BrokenElements ==
  ASSUME NEW ms \in Seq(Move), Len(ms) > 1
  PROVE  /\ \A k \in 1 .. Len(ms) - 2 : Cut(ms)[k] = ms[k + 1]
         /\ Cut(ms)[Len(ms) - 1].d = ms[Len(ms)].d
         /\ Cut(ms)[Len(ms) - 1] = [Last(ms) EXCEPT !.s = NONE]
<1>1. Tail(ms) \in Seq(Move) /\ Len(Tail(ms)) = Len(ms) - 1
  OBVIOUS
<1>2. /\ Front(Tail(ms)) \in Seq(Move) /\ Len(Front(Tail(ms))) = Len(ms) - 2
      /\ \A k \in 1 .. Len(ms) - 2 : Front(Tail(ms))[k] = ms[k + 1]
  BY <1>1 DEF Front
<1>3. [Last(ms) EXCEPT !.s = NONE].d = ms[Len(ms)].d
  <2>1. ms[Len(ms)] \in Move
    OBVIOUS
  <2> QED BY <2>1 DEF Last, Move
<1>4. Cut(ms)[Len(ms) - 1] = [Last(ms) EXCEPT !.s = NONE]
  BY <1>2 DEF Cut
<1> QED BY <1>2, <1>3, <1>4 DEF Cut

(* Each result of fstep is again two lists, with a smaller measure. *)
LEMMA StepShrinks == ASSUME Lists, fstep PROVE Lists' /\ Measure' < Measure
<1> USE DEF Lists, Measure
<1>1. CASE Skip
  BY <1>1 DEF Skip
<1>2. CASE Start
  <2>1. /\ mu' \in Seq(Move) /\ Len(mu') = Len(mu) - 1
        /\ sigma' \in Seq(Move) /\ Len(sigma') = 1 /\ Len(sigma) = 0
    BY <1>2 DEF Start
  <2> QED BY <2>1
<1>3. CASE Push
  <2>1. PICK j \in Readers(sigma[1].d) :
          /\ mu' = Without(mu, j)
          /\ sigma' = <<mu[j]>> \o sigma
    BY <1>3 DEF Push
  <2>2. j \in 1 .. Len(mu) /\ mu[j] \in Move
    BY <2>1 DEF Readers
  <2>3. mu' \in Seq(Move) /\ Len(mu') = Len(mu) - 1
    BY <2>1, <2>2, WithoutOne
  <2>4. sigma' \in Seq(Move) /\ Len(sigma') = Len(sigma) + 1
    BY <2>1, <2>2
  <2> QED BY <2>3, <2>4
<1>4. CASE Finish
  BY <1>4 DEF Finish, Ready
<1>5. CASE Pop
  BY <1>5 DEF Pop, Ready
<1>6. CASE Break
  <2>1. sigma' \in Seq(Move) /\ Len(sigma') = Len(sigma) - 1 /\ mu' = mu
    BY <1>6, BrokenTail DEF Break
  <2> QED BY <2>1
<1> QED BY <1>1, <1>2, <1>3, <1>4, <1>5, <1>6 DEF fstep

(* The lists stay lists of moves. *)
LEMMA ListsInv == Spec => []Lists
<1>1. Init => Lists
  <2> SUFFICES ASSUME Init PROVE Lists
    OBVIOUS
  <2>1. [d : Var, s : Var] \subseteq Move
    BY DEF Move
  <2>2. mu \in Seq([d : Var, s : Var]) /\ sigma = <<>>
    BY MovesAssumption DEF Init
  <2> QED BY <2>1, <2>2, SeqMonotonic, EmptySeq DEF Lists
<1>2. Lists /\ [Next]_vars => Lists'
  <2> SUFFICES ASSUME Lists, [Next]_vars PROVE Lists'
    OBVIOUS
  <2>1. CASE fstep
    BY <2>1, StepShrinks
  <2>2. CASE UNCHANGED <<mu, sigma>>
    BY <2>2 DEF Lists
  <2>3. Next => fstep \/ UNCHANGED <<mu, sigma>>
    BY DEF Next, Ordered, Run, Done, vars, RegisterMove, StackLoad, StackStore,
           StackCopy, Instruction
  <2> QED BY <2>1, <2>2, <2>3 DEF vars
<1> QED BY <1>1, <1>2, PTL DEF Spec

(* pmov terminates: every step of the ordering makes the measure smaller (it
   is a natural number), for every list of moves. *)
THEOREM OrderingEnds == Spec => Shrinks
<1>1. Lists /\ [Next]_vars => [pc = "order" /\ pc' = "order" => Measure' < Measure]_vars
  <2> SUFFICES ASSUME Lists, Next, pc = "order", pc' = "order", vars' # vars
               PROVE  Measure' < Measure
    OBVIOUS
  <2>1. fstep
    BY DEF Next, Ordered, Run, Done, vars, RegisterMove, StackLoad, StackStore,
           StackCopy, Instruction
  <2> QED BY <2>1, StepShrinks
<1> QED BY <1>1, ListsInv, PTL DEF Spec, Shrinks

(* WellFormed in parts that speak of one list, or of one move of each. *)
Apart == \A i \in 1 .. Len(mu), j \in 1 .. Len(sigma) : mu[i].d # sigma[j].d
RealMoves == \A j \in 1 .. Len(mu) : mu[j].d # NONE /\ mu[j].s # NONE
Path(ms) ==
  /\ \A j \in 1 .. Len(ms) : ms[j].d # NONE
  /\ \A j \in 1 .. Len(ms) : j < Len(ms) => ms[j].s # NONE /\ ms[j].s = ms[j + 1].d
Distinct(ms) == \A i, j \in 1 .. Len(ms) : ms[i].d = ms[j].d => i = j
IInv == Lists /\ Distinct(mu) /\ Distinct(sigma) /\ Apart /\ RealMoves /\ Path(sigma)

LEMMA PartsOfWellFormed == ASSUME IInv PROVE WellFormed
<1>1. /\ mu \in Seq(Move) /\ sigma \in Seq(Move)
      /\ DOMAIN mu = 1 .. Len(mu) /\ Len(mu) \in Nat
      /\ DOMAIN sigma = 1 .. Len(sigma) /\ Len(sigma) \in Nat
  BY LenProperties DEF IInv, Lists
<1> DEFINE both == mu \o sigma
<1>2. /\ both \in Seq(Move) /\ Len(both) = Len(mu) + Len(sigma)
      /\ \A i \in 1 .. Len(mu) + Len(sigma) :
           both[i] = IF i <= Len(mu) THEN mu[i] ELSE sigma[i - Len(mu)]
  BY <1>1, ConcatProperties, Zenon
<1>3. DOMAIN both = 1 .. Len(mu) + Len(sigma)
  BY <1>2, LenProperties
<1> HIDE DEF both
<1>4. ASSUME NEW i \in DOMAIN both, NEW j \in DOMAIN both, both[i].d = both[j].d
      PROVE  i = j
  <2>1. CASE i <= Len(mu) /\ j <= Len(mu)
    BY <1>1, <1>2, <1>3, <1>4, <2>1 DEF IInv, Distinct
  <2>2. CASE i <= Len(mu) /\ ~(j <= Len(mu))
    <3>1. j - Len(mu) \in 1 .. Len(sigma) /\ i \in 1 .. Len(mu)
      BY <1>1, <1>3, <2>2
    <3> QED BY <1>2, <1>3, <1>4, <2>2, <3>1 DEF IInv, Apart
  <2>3. CASE ~(i <= Len(mu)) /\ j <= Len(mu)
    <3>1. i - Len(mu) \in 1 .. Len(sigma) /\ j \in 1 .. Len(mu)
      BY <1>1, <1>3, <2>3
    <3> QED BY <1>2, <1>3, <1>4, <2>3, <3>1 DEF IInv, Apart
  <2>4. CASE ~(i <= Len(mu)) /\ ~(j <= Len(mu))
    <3>1. i - Len(mu) \in 1 .. Len(sigma) /\ j - Len(mu) \in 1 .. Len(sigma)
      BY <1>1, <1>3, <2>4
    <3>2. i - Len(mu) = j - Len(mu)
      BY <1>2, <1>3, <1>4, <2>4, <3>1 DEF IInv, Distinct
    <3> QED BY <1>1, <1>3, <3>2
  <2> QED BY <2>1, <2>2, <2>3, <2>4
<1>5. Windmill(mu \o sigma)
  BY <1>4 DEF Windmill, both
<1> QED BY <1>1, <1>5 DEF WellFormed, IInv, RealMoves, Path

(* mu without one of its moves. *)
LEMMA FewerMoves ==
  ASSUME NEW ms, NEW j, NEW fewer, Len(ms) \in Nat, j \in 1 .. Len(ms),
         Len(fewer) = Len(ms) - 1,
         \A k \in 1 .. Len(ms) - 1 : fewer[k] = IF k < j THEN ms[k] ELSE ms[k + 1],
         Distinct(ms)
  PROVE  /\ Distinct(fewer)
         /\ \A k \in 1 .. Len(fewer) : \E i \in 1 .. Len(ms) : i # j /\ fewer[k] = ms[i]
<1> DEFINE From(k) == IF k < j THEN k ELSE k + 1
<1>1. ASSUME NEW k \in 1 .. Len(fewer)
      PROVE  From(k) \in 1 .. Len(ms) /\ From(k) # j /\ fewer[k] = ms[From(k)]
  OBVIOUS
<1>2. \A k, l \in 1 .. Len(fewer) : From(k) = From(l) => k = l
  OBVIOUS
<1>3. Len(fewer) \in Nat
  OBVIOUS
<1> HIDE DEF From
<1>4. ASSUME NEW k \in 1 .. Len(fewer), NEW l \in 1 .. Len(fewer), fewer[k].d = fewer[l].d
      PROVE  k = l
  <2>1. ms[From(k)].d = ms[From(l)].d /\ From(k) \in 1 .. Len(ms) /\ From(l) \in 1 .. Len(ms)
    BY <1>1, <1>4
  <2>2. From(k) = From(l)
    BY <2>1 DEF Distinct
  <2> QED BY <1>2, <2>2
<1>5. Distinct(fewer)
  BY <1>4 DEF Distinct
<1>6. ASSUME NEW k \in 1 .. Len(fewer)
      PROVE  \E i \in 1 .. Len(ms) : i # j /\ fewer[k] = ms[i]
  BY <1>1, Zenon
<1> QED BY <1>5, <1>6

(* sigma without its first move, whatever its last move now reads. *)
LEMMA ShorterPath ==
  ASSUME NEW ms, NEW cut, Len(ms) \in Nat, Len(cut) = Len(ms) - 1,
         \A k \in 1 .. Len(cut) : cut[k].d = ms[k + 1].d,
         \A k \in 1 .. Len(cut) : k < Len(cut) => cut[k].s = ms[k + 1].s,
         Distinct(ms), Path(ms)
  PROVE  Distinct(cut) /\ Path(cut)
<1>1. \A k \in 1 .. Len(cut) : k + 1 \in 1 .. Len(ms)
  OBVIOUS
<1>2. Distinct(cut)
  BY <1>1 DEF Distinct
<1>3. ASSUME NEW j \in 1 .. Len(cut), j < Len(cut)
      PROVE  cut[j].s # NONE /\ cut[j].s = cut[j + 1].d
  <2>1. j + 1 \in 1 .. Len(ms) /\ j + 1 < Len(ms) /\ j + 1 \in 1 .. Len(cut)
    BY <1>3
  <2>2. cut[j].s = ms[j + 1].s /\ cut[j + 1].d = ms[(j + 1) + 1].d
    BY <1>3, <2>1
  <2> QED BY <2>1, <2>2 DEF Path
<1> QED BY <1>1, <1>2, <1>3 DEF Path

(* sigma with a move in front that reads what its first move writes. *)
LEMMA LongerPath ==
  ASSUME NEW ms, NEW m, NEW longer, Len(ms) \in Nat \ {0}, Len(longer) = Len(ms) + 1,
         longer[1] = m, \A k \in 2 .. Len(ms) + 1 : longer[k] = ms[k - 1],
         m.d # NONE, m.s # NONE, m.s = ms[1].d,
         \A k \in 1 .. Len(ms) : ms[k].d # m.d,
         Distinct(ms), Path(ms)
  PROVE  Distinct(longer) /\ Path(longer)
<1>1. \A k \in 2 .. Len(longer) : k - 1 \in 1 .. Len(ms)
  OBVIOUS
<1>2. \A k \in 1 .. Len(longer) : k = 1 \/ k \in 2 .. Len(longer)
  OBVIOUS
<1>3. Distinct(longer)
  BY <1>1, <1>2 DEF Distinct
<1>4. ASSUME NEW j \in 1 .. Len(longer) PROVE longer[j].d # NONE
  BY <1>1, <1>2 DEF Path
<1>5. ASSUME NEW j \in 1 .. Len(longer), j < Len(longer)
      PROVE  longer[j].s # NONE /\ longer[j].s = longer[j + 1].d
  <2>1. longer[j + 1] = ms[j] /\ j \in 1 .. Len(ms)
    BY <1>5
  <2>2. CASE j = 1
    BY <2>1, <2>2
  <2>3. CASE j # 1
    <3>1. longer[j] = ms[j - 1] /\ j - 1 \in 1 .. Len(ms) /\ j - 1 < Len(ms)
      BY <1>5, <2>3
    <3>2. ms[j - 1].s # NONE /\ ms[j - 1].s = ms[(j - 1) + 1].d
      BY <3>1 DEF Path
    <3> QED BY <2>1, <3>1, <3>2
  <2> QED BY <2>2, <2>3
<1> QED BY <1>3, <1>4, <1>5 DEF Path

LEMMA StepKeepsParts == ASSUME IInv, fstep PROVE IInv'
<1> USE DEF IInv, Lists
<1>1. /\ mu \in Seq(Move) /\ sigma \in Seq(Move)
      /\ DOMAIN mu = 1 .. Len(mu) /\ Len(mu) \in Nat
      /\ DOMAIN sigma = 1 .. Len(sigma) /\ Len(sigma) \in Nat
  BY LenProperties
<1>2. Lists'
  BY StepShrinks
<1>3. CASE Skip
  <2>1. /\ Len(mu') = Len(mu) - 1 /\ \A k \in 1 .. Len(mu) - 1 : mu'[k] = mu[k + 1]
        /\ sigma' = sigma /\ Len(mu) > 0
    BY <1>1, <1>3 DEF Skip
  <2>2. /\ 1 \in 1 .. Len(mu) /\ Distinct(mu)
        /\ \A k \in 1 .. Len(mu) - 1 : mu'[k] = IF k < 1 THEN mu[k] ELSE mu[k + 1]
    BY <1>1, <2>1
  <2>3. /\ Distinct(mu')
        /\ \A k \in 1 .. Len(mu') : \E i \in 1 .. Len(mu) : i # 1 /\ mu'[k] = mu[i]
    BY <1>1, <2>1, <2>2, FewerMoves
  <2>4. Apart' /\ RealMoves'
    BY <2>1, <2>3 DEF Apart, RealMoves
  <2> QED BY <1>2, <2>1, <2>3, <2>4
<1>4. CASE Start
  <2>1. /\ Len(mu') = Len(mu) - 1 /\ \A k \in 1 .. Len(mu) - 1 : mu'[k] = mu[k + 1]
        /\ Len(sigma') = 1 /\ sigma'[1] = mu[1] /\ Len(mu) > 0
    BY <1>1, <1>4 DEF Start
  <2>2. /\ 1 \in 1 .. Len(mu) /\ Distinct(mu)
        /\ \A k \in 1 .. Len(mu) - 1 : mu'[k] = IF k < 1 THEN mu[k] ELSE mu[k + 1]
    BY <1>1, <2>1
  <2>3. /\ Distinct(mu')
        /\ \A k \in 1 .. Len(mu') : \E i \in 1 .. Len(mu) : i # 1 /\ mu'[k] = mu[i]
    BY <1>1, <2>1, <2>2, FewerMoves
  <2>4. \A k \in 1 .. Len(mu') : mu'[k].d # mu[1].d
    BY <1>1, <2>1, <2>3 DEF Distinct
  <2>5. RealMoves' /\ Apart'
    BY <2>1, <2>3, <2>4 DEF RealMoves, Apart
  <2>6. Distinct(sigma') /\ Path(sigma')
    BY <1>1, <2>1 DEF Distinct, Path, RealMoves
  <2> QED BY <1>2, <2>3, <2>5, <2>6
<1>5. CASE Push
  <2>1. PICK j \in Readers(sigma[1].d) : mu' = Without(mu, j) /\ sigma' = <<mu[j]>> \o sigma
    BY <1>5 DEF Push
  <2>2. j \in 1 .. Len(mu) /\ mu[j] \in Move /\ mu[j].s = sigma[1].d
    BY <1>1, <2>1 DEF Readers
  <2>3. /\ Len(mu') = Len(mu) - 1
        /\ \A k \in 1 .. Len(mu) - 1 : mu'[k] = IF k < j THEN mu[k] ELSE mu[k + 1]
    BY <2>1, <2>2, <1>1, WithoutOne, WithoutElements
  <2>4. /\ Len(sigma') = Len(sigma) + 1 /\ sigma'[1] = mu[j]
        /\ \A k \in 2 .. Len(sigma) + 1 : sigma'[k] = sigma[k - 1]
    BY <1>1, <2>1, <2>2
  <2>5. Distinct(mu) /\ Len(mu) \in Nat /\ j \in 1 .. Len(mu)
    BY <1>1, <2>2
  <2>6. /\ Distinct(mu')
        /\ \A k \in 1 .. Len(mu') : \E i \in 1 .. Len(mu) : i # j /\ mu'[k] = mu[i]
    <3> DEFINE fewer == Without(mu, j)
    <3>1. /\ Len(fewer) = Len(mu) - 1
          /\ \A k \in 1 .. Len(mu) - 1 : fewer[k] = IF k < j THEN mu[k] ELSE mu[k + 1]
      BY <2>1, <2>3
    <3> HIDE DEF fewer
    <3>2. /\ Distinct(fewer)
          /\ \A k \in 1 .. Len(fewer) : \E i \in 1 .. Len(mu) : i # j /\ fewer[k] = mu[i]
      BY ONLY <3>1, <2>5, FewerMoves
    <3> QED BY <2>1, <3>2 DEF fewer
  <2>7. RealMoves'
    BY <2>6 DEF RealMoves
  <2>8. Distinct(sigma') /\ Path(sigma')
    <3>1. /\ mu[j].d # NONE /\ mu[j].s # NONE /\ \A k \in 1 .. Len(sigma) : sigma[k].d # mu[j].d
      BY <2>2 DEF RealMoves, Apart
    <3>2. Len(sigma) \in Nat \ {0}
      BY <1>1, <1>5 DEF Push
    <3> QED BY <2>2, <2>4, <3>1, <3>2, LongerPath
  <2>9. Apart'
    <3>1. ASSUME NEW k \in 1 .. Len(mu'), NEW l \in 1 .. Len(sigma')
          PROVE  mu'[k].d # sigma'[l].d
      <4>1. PICK i \in 1 .. Len(mu) : i # j /\ mu'[k] = mu[i]
        BY <2>6
      <4>2. CASE l = 1
        BY <2>2, <2>4, <4>1, <4>2 DEF Distinct
      <4>3. CASE l # 1
        <5>1. l - 1 \in 1 .. Len(sigma) /\ sigma'[l] = sigma[l - 1]
          BY <1>1, <2>4, <4>3
        <5> QED BY <4>1, <5>1 DEF Apart
      <4> QED BY <4>2, <4>3
    <3> QED BY <3>1 DEF Apart
  <2> QED BY <1>2, <2>6, <2>7, <2>8, <2>9
<1>6. CASE Finish
  <2>1. Len(sigma') = 0 /\ mu' = mu
    BY <1>6 DEF Finish
  <2> QED BY <1>1, <1>2, <2>1 DEF Distinct, Apart, RealMoves, Path
<1>7. CASE Pop
  <2>1. /\ Len(sigma') = Len(sigma) - 1 /\ mu' = mu
        /\ \A k \in 1 .. Len(sigma') : sigma'[k] = sigma[k + 1]
    BY <1>1, <1>7 DEF Pop
  <2>2. Distinct(sigma') /\ Path(sigma')
    BY <1>1, <2>1, ShorterPath
  <2>3. Apart'
    BY <1>1, <2>1 DEF Apart
  <2> QED BY <1>2, <2>1, <2>2, <2>3 DEF RealMoves
<1>8. CASE Break
  <2>1. mu' = mu /\ Len(sigma) > 1
    BY <1>8 DEF Break
  <2>2. sigma' = Cut(sigma)
    BY <1>8 DEF Break
  <2>3. /\ Len(sigma') = Len(sigma) - 1
        /\ \A k \in 1 .. Len(sigma) - 2 : sigma'[k] = sigma[k + 1]
        /\ sigma'[Len(sigma) - 1].d = sigma[Len(sigma)].d
    BY <1>1, <2>1, <2>2, BrokenTail, BrokenElements
  <2>4. ASSUME NEW k \in 1 .. Len(sigma') PROVE sigma'[k].d = sigma[k + 1].d
    <3>1. Len(sigma) \in Nat /\ k \in 1 .. Len(sigma) - 1
      BY <1>1, <2>3
    <3>2. k \in 1 .. Len(sigma) - 2 \/ (k = Len(sigma) - 1 /\ k + 1 = Len(sigma))
      BY <3>1
    <3> QED BY <2>3, <3>2
  <2>5. \A k \in 1 .. Len(sigma') : k < Len(sigma') => sigma'[k].s = sigma[k + 1].s
    BY <1>1, <2>1, <2>3
  <2>6. Distinct(sigma') /\ Path(sigma')
    BY <1>1, <2>3, <2>4, <2>5, ShorterPath
  <2>7. Apart'
    BY <1>1, <2>1, <2>3, <2>4 DEF Apart
  <2> QED BY <1>2, <2>1, <2>6, <2>7 DEF RealMoves
<1> QED BY <1>3, <1>4, <1>5, <1>6, <1>7, <1>8 DEF fstep

(* The parts hold throughout. *)
LEMMA IInvHolds == Spec => []IInv
<1>1. Init => IInv
  <2> SUFFICES ASSUME Init PROVE IInv
    OBVIOUS
  <2>1. /\ mu \in Seq([d : Var, s : Var]) /\ Windmill(mu) /\ sigma = <<>>
    BY MovesAssumption DEF Init
  <2>2. DOMAIN mu = 1 .. Len(mu) /\ \A j \in 1 .. Len(mu) : mu[j] \in [d : Var, s : Var]
    BY <2>1, LenProperties, ElementOfSeq
  <2>3. [d : Var, s : Var] \subseteq Move /\ NONE \notin Var
    BY DEF Move, Var, NONE
  <2>4. Lists
    BY <2>1, <2>3, SeqMonotonic, EmptySeq DEF Lists
  <2>5. RealMoves /\ Distinct(mu)
    BY <2>1, <2>2, <2>3 DEF RealMoves, Distinct, Windmill
  <2>6. Len(sigma) = 0
    BY <2>1
  <2> QED BY <2>4, <2>5, <2>6 DEF IInv, Distinct, Apart, Path
<1>2. IInv /\ [Next]_vars => IInv'
  <2> SUFFICES ASSUME IInv, [Next]_vars PROVE IInv'
    OBVIOUS
  <2>1. CASE fstep
    BY <2>1, StepKeepsParts
  <2>2. CASE UNCHANGED <<mu, sigma>>
    BY <2>2 DEF IInv, Lists, Distinct, Apart, RealMoves, Path
  <2>3. Next => fstep \/ UNCHANGED <<mu, sigma>>
    BY DEF Next, Ordered, Run, Done, vars, RegisterMove, StackLoad, StackStore,
           StackCopy, Instruction
  <2> QED BY <2>1, <2>2, <2>3 DEF vars
<1> QED BY <1>1, <1>2, PTL DEF Spec

(* While parmove orders the moves, the destinations that wait are distinct
   variables, sigma is a path of moves each of which reads what the next one
   writes, and only its last move may read the temporary: one temporary is
   enough for any number of cycles. *)
THEOREM OrderWellFormed == Spec => []WellFormed
BY IInvHolds, PartsOfWellFormed, PTL

------------------------------------------------------------------------------
(***************************************************************************)
(* The algorithm parmove is proved correct by.                             *)
(***************************************************************************)
Ordering == IInv /\ tau \in Seq(Move)

LEMMA StepKeepsTau == ASSUME Ordering, fstep PROVE tau' \in Seq(Move)
<1>1. /\ sigma \in Seq(Move) /\ tau \in Seq(Move)
      /\ (sigma # <<>> => sigma[1] \in Move)
  BY DEF Ordering, IInv, Lists
<1>2. CASE Break
  <2>1. [d |-> NONE, s |-> sigma[1].d] \in Move /\ sigma[1] \in Move
    BY <1>1, <1>2 DEF Break, Ready, Move
  <2>2. tau' = <<sigma[1], [d |-> NONE, s |-> sigma[1].d]>> \o tau
    BY <1>2 DEF Break
  <2>3. <<sigma[1], [d |-> NONE, s |-> sigma[1].d]>> \in Seq(Move)
    BY <2>1
  <2> QED BY <1>1, <2>2, <2>3, ConcatProperties, Zenon
<1>3. CASE Finish \/ Pop
  <2>1. PICK done \in Seq(Move) : tau' = done \o tau
    <3>1. CASE Finish
      BY <1>1, <3>1 DEF Finish
    <3>2. CASE Pop
      <4>1. sigma[1] \in Move /\ tau' = <<sigma[1]>> \o tau
        BY <1>1, <3>2 DEF Pop, Ready
      <4>2. <<sigma[1]>> \in Seq(Move)
        BY <4>1
      <4> QED BY <4>1, <4>2
    <3> QED BY <1>3, <3>1, <3>2
  <2> QED BY <1>1, <2>1, ConcatProperties, Zenon
<1>4. CASE Skip \/ Start \/ Push
  BY <1>1, <1>4 DEF Skip, Start, Push
<1> QED BY <1>2, <1>3, <1>4 DEF fstep

LEMMA OtherSteps == ASSUME [Next]_vars PROVE fstep \/ UNCHANGED <<moves, mu, sigma, tau>>
BY DEF Next, Ordered, Run, Done, vars, RegisterMove, StackLoad, StackStore,
       StackCopy, Instruction

LEMMA OrderingHolds == Spec => []Ordering
<1>1. Init => tau \in Seq(Move)
  BY EmptySeq DEF Init
<1>2. IInv /\ tau \in Seq(Move) /\ [Next]_vars => (tau \in Seq(Move))'
  BY StepKeepsTau, OtherSteps DEF Ordering
<1> QED BY <1>1, <1>2, IInvHolds, PTL DEF Spec, Ordering

(* Lists that fstep and the algorithm build in different ways. *)
LEMMA FirstOut ==
  ASSUME NEW ms \in Seq(Move), ms # <<>>
  PROVE  Tail(ms) = Without(ms, 1) /\ 1 \in DOMAIN ms
<1>1. Len(ms) \in Nat /\ DOMAIN ms = 1 .. Len(ms) /\ Len(ms) # 0
  BY LenProperties, EmptySeq
<1>2. 1 \in 1 .. Len(ms)
  BY <1>1
<1>3. /\ Tail(ms) \in Seq(Move) /\ Len(Tail(ms)) = Len(ms) - 1
      /\ \A k \in 1 .. Len(ms) - 1 : Tail(ms)[k] = ms[k + 1]
  BY <1>1
<1>4. Without(ms, 1) \in Seq(Move) /\ Len(Without(ms, 1)) = Len(ms) - 1
  BY <1>2, WithoutOne
<1>5. ASSUME NEW k \in 1 .. Len(ms) - 1 PROVE Without(ms, 1)[k] = ms[k + 1]
  <2>1. ~(k < 1)
    BY <1>1
  <2> QED BY <1>2, <2>1, WithoutElements
<1>6. \A k \in 1 .. Len(Tail(ms)) : Tail(ms)[k] = Without(ms, 1)[k]
  BY <1>3, <1>5
<1> QED BY <1>1, <1>2, <1>3, <1>4, <1>6, SeqEqual

LEMMA CutFirst ==
  ASSUME NEW ms \in Seq(Move), Len(ms) > 1, NEW x \in Move
  PROVE  LET mid == Append(Front(ms), x)
         IN  /\ mid \in Seq(Move) /\ Len(mid) = Len(ms) /\ mid[1] = ms[1] /\ Last(mid) = x
             /\ Tail(mid) = Append(Front(Tail(ms)), x)
<1> DEFINE mid == Append(Front(ms), x)
           one == Tail(mid)
           two == Append(Front(Tail(ms)), x)
<1>1. Len(ms) \in Nat /\ \A k \in 1 .. Len(ms) : ms[k] \in Move
  BY LenProperties, ElementOfSeq
<1>2. /\ Front(ms) \in Seq(Move) /\ Len(Front(ms)) = Len(ms) - 1
      /\ \A k \in 1 .. Len(ms) - 1 : Front(ms)[k] = ms[k]
  BY <1>1 DEF Front
<1>3. /\ mid \in Seq(Move) /\ Len(mid) = Len(ms) /\ mid[Len(ms)] = x
      /\ \A k \in 1 .. Len(ms) - 1 : mid[k] = ms[k]
  BY <1>1, <1>2
<1>4. /\ Tail(ms) \in Seq(Move) /\ Len(Tail(ms)) = Len(ms) - 1
      /\ \A k \in 1 .. Len(ms) - 1 : Tail(ms)[k] = ms[k + 1]
  BY <1>1
<1>5. /\ Front(Tail(ms)) \in Seq(Move) /\ Len(Front(Tail(ms))) = Len(ms) - 2
      /\ \A k \in 1 .. Len(ms) - 2 : Front(Tail(ms))[k] = ms[k + 1]
  BY <1>1, <1>4 DEF Front
<1>6. /\ two \in Seq(Move) /\ Len(two) = Len(ms) - 1 /\ two[Len(ms) - 1] = x
      /\ \A k \in 1 .. Len(ms) - 2 : two[k] = ms[k + 1]
  BY <1>1, <1>5
<1> HIDE DEF mid, two
<1>7. /\ one \in Seq(Move) /\ Len(one) = Len(ms) - 1
      /\ \A k \in 1 .. Len(ms) - 1 : one[k] = mid[k + 1]
  BY <1>1, <1>3
<1> HIDE DEF one
<1>8. ASSUME NEW k \in 1 .. Len(ms) - 1 PROVE one[k] = two[k]
  <2>1. CASE k = Len(ms) - 1
    <3>1. k + 1 = Len(ms)
      BY <1>1, <2>1
    <3> QED BY <1>3, <1>6, <1>7, <2>1, <3>1
  <2>2. CASE k # Len(ms) - 1
    <3>1. k \in 1 .. Len(ms) - 2 /\ k + 1 \in 1 .. Len(ms) - 1
      BY <1>1, <2>2
    <3> QED BY <1>3, <1>6, <1>7, <3>1
  <2> QED BY <2>1, <2>2
<1>9. one = two
  BY <1>6, <1>7, <1>8, SeqEqual
<1>10. mid[1] = ms[1] /\ Last(mid) = x
  BY <1>1, <1>3 DEF Last
<1> QED BY <1>3, <1>9, <1>10 DEF mid, one, two

LEMMA OneMove ==
  ASSUME NEW ms \in Seq(Move), Len(ms) = 1
  PROVE  ms = <<ms[1]>> /\ Tail(ms) = <<>> /\ 1 \in DOMAIN ms
<1>1. PICK one : one = <<ms[1]>>
  OBVIOUS
<1>2. ms[1] \in Move /\ 1 \in DOMAIN ms
  BY ElementOfSeq
<1>3. one \in Seq(Move) /\ Len(one) = 1 /\ one[1] = ms[1]
  BY <1>1, <1>2
<1>4. \A k \in 1 .. Len(ms) : ms[k] = one[k]
  BY <1>3
<1>5. ms = one
  BY <1>3, <1>4, SeqEqual
<1>6. Tail(ms) \in Seq(Move) /\ Len(Tail(ms)) = 0
  <2>1. ms # <<>>
    BY EmptySeq
  <2> QED BY <2>1, HeadTailProperties
<1> QED BY <1>1, <1>2, <1>5, <1>6, EmptySeq

LEMMA TwoMoves ==
  ASSUME NEW f \in Move, NEW g \in Move, NEW t \in Seq(Move)
  PROVE  <<f, g>> \o t = <<f>> \o (<<g>> \o t)
<1>1. PICK one, two : one = <<f>> /\ two = <<g>>
  OBVIOUS
<1>2. PICK pair : pair = <<f, g>>
  OBVIOUS
<1>10. one \in Seq(Move) /\ Len(one) = 1 /\ one[1] = f
  BY <1>1
<1>11. two \in Seq(Move) /\ Len(two) = 1 /\ two[1] = g
  BY <1>1
<1>12. pair \in Seq(Move) /\ Len(pair) = 2 /\ pair[1] = f /\ pair[2] = g
  BY <1>2
<1>3. /\ one \o two \in Seq(Move) /\ Len(one \o two) = 2
      /\ \A k \in 1 .. 2 : (one \o two)[k] = IF k <= 1 THEN one[k] ELSE two[k - 1]
  <2>1. /\ one \o two \in Seq(Move) /\ Len(one \o two) = Len(one) + Len(two)
        /\ \A k \in 1 .. Len(one) + Len(two) :
             (one \o two)[k] = IF k <= Len(one) THEN one[k] ELSE two[k - Len(one)]
    BY <1>10, <1>11, ConcatProperties, Zenon
  <2> QED BY <1>10, <1>11, <2>1
<1>4. \A k \in 1 .. 2 : k = 1 \/ k = 2
  OBVIOUS
<1>5. (one \o two)[1] = f /\ (one \o two)[2] = g
  BY <1>10, <1>11, <1>3
<1>6. pair = one \o two
  BY <1>12, <1>3, <1>4, <1>5, SeqEqual
<1>7. (one \o two) \o t = one \o (two \o t)
  BY <1>10, <1>11, ConcatAssociative
<1> QED BY <1>1, <1>2, <1>6, <1>7

(* The nondeterministic algorithm's moves. *)
LEMMA Dropped ==
  ASSUME NEW m, NEW s, NEW t, NEW j \in DOMAIN m, m[j].d = m[j].s
  PROVE  <<Without(m, j), s, t>> \in Steps(<<m, s, t>>)
BY DEF Steps

LEMMA Begun ==
  ASSUME NEW m, NEW t, NEW j \in DOMAIN m
  PROVE  <<Without(m, j), <<m[j]>>, t>> \in Steps(<<m, <<>>, t>>)
BY DEF Steps

LEMMA Pushed ==
  ASSUME NEW m, NEW s, NEW t, NEW j \in DOMAIN m, s # <<>>, m[j].s = s[1].d
  PROVE  <<Without(m, j), <<m[j]>> \o s, t>> \in Steps(<<m, s, t>>)
BY DEF Steps

LEMMA Saved ==
  ASSUME NEW m, NEW s, NEW t, Len(s) \in DOMAIN s
  PROVE  <<m, Append(Front(s), [Last(s) EXCEPT !.s = NONE]), <<[d |-> NONE, s |-> Last(s).s]>> \o t>>
           \in Steps(<<m, s, t>>)
<1>1. Last(s) \in {s[k] : k \in {k \in DOMAIN s : k = Len(s)}}
  BY DEF Last
<1> QED BY <1>1 DEF Steps

LEMMA Popped ==
  ASSUME NEW m, NEW s, NEW t, 1 \in DOMAIN s, NoRead(m, s[1].d),
         Len(s) > 1 => s[1].d # Last(s).s
  PROVE  <<m, Tail(s), <<s[1]>> \o t>> \in Steps(<<m, s, t>>)
<1>1. s[1] \in {s[k] : k \in {k \in DOMAIN s : k = 1 /\ NoRead(m, s[1].d)
                                                /\ (Len(s) > 1 => s[1].d # Last(s).s)}}
  OBVIOUS
<1> QED BY <1>1 DEF Steps

LEMMA StepIsSteps ==
  ASSUME Ordering, fstep
  PROVE  LET st == <<mu, sigma, tau>>
         IN  st' \in Steps(st) \/ \E mid \in Steps(st) : st' \in Steps(mid)
<1> DEFINE st == <<mu, sigma, tau>>
<1>1. /\ mu \in Seq(Move) /\ sigma \in Seq(Move) /\ tau \in Seq(Move)
      /\ DOMAIN mu = 1 .. Len(mu) /\ DOMAIN sigma = 1 .. Len(sigma) /\ Len(sigma) \in Nat
      /\ Path(sigma)
  BY LenProperties DEF Ordering, IInv, Lists
<1>2. st' = <<mu', sigma', tau'>>
  OBVIOUS
<1>3. CASE Skip
  <2>1. mu' = Without(mu, 1) /\ 1 \in DOMAIN mu /\ mu[1].d = mu[1].s /\ UNCHANGED <<sigma, tau>>
    BY <1>1, <1>3, FirstOut DEF Skip
  <2>2. <<Without(mu, 1), sigma, tau>> \in Steps(st)
    BY <2>1, Dropped
  <2> QED BY <1>2, <2>1, <2>2
<1>4. CASE Start
  <2>1. /\ mu' = Without(mu, 1) /\ 1 \in DOMAIN mu /\ sigma = <<>> /\ sigma' = <<mu[1]>>
        /\ tau' = tau
    BY <1>1, <1>4, FirstOut DEF Start
  <2>2. <<Without(mu, 1), <<mu[1]>>, tau>> \in Steps(st)
    BY <2>1, Begun
  <2> QED BY <1>2, <2>1, <2>2
<1>5. CASE Push
  <2>1. PICK j \in Readers(sigma[1].d) :
          mu' = Without(mu, j) /\ sigma' = <<mu[j]>> \o sigma /\ tau' = tau /\ sigma # <<>>
    BY <1>5 DEF Push
  <2>2. j \in DOMAIN mu /\ mu[j].s = sigma[1].d
    BY <2>1 DEF Readers
  <2>3. <<Without(mu, j), <<mu[j]>> \o sigma, tau>> \in Steps(st)
    BY <2>1, <2>2, Pushed
  <2> QED BY <1>2, <2>1, <2>3
<1>6. CASE Finish
  <2>1. /\ mu' = mu /\ sigma' = Tail(sigma) /\ tau' = <<sigma[1]>> \o tau /\ 1 \in DOMAIN sigma
        /\ NoRead(mu, sigma[1].d) /\ ~(Len(sigma) > 1)
    <3>1. Len(sigma) = 1 /\ sigma' = <<>> /\ tau' = sigma \o tau /\ mu' = mu
          /\ NoRead(mu, sigma[1].d)
      BY <1>6 DEF Finish, Ready
    <3>2. sigma = <<sigma[1]>> /\ Tail(sigma) = <<>> /\ 1 \in DOMAIN sigma
      BY <1>1, <3>1, OneMove
    <3>3. tau' = <<sigma[1]>> \o tau
      <4>1. PICK one : one = <<sigma[1]>>
        OBVIOUS
      <4>2. sigma = one /\ tau' = sigma \o tau
        BY <3>1, <3>2, <4>1
      <4> QED BY <4>1, <4>2
    <3> QED BY <3>1, <3>2, <3>3
  <2>2. <<mu, Tail(sigma), <<sigma[1]>> \o tau>> \in Steps(st)
    BY <2>1, Popped
  <2> QED BY <1>2, <2>1, <2>2
<1>7. CASE Pop
  <2>1. /\ mu' = mu /\ sigma' = Tail(sigma) /\ tau' = <<sigma[1]>> \o tau /\ 1 \in DOMAIN sigma
        /\ NoRead(mu, sigma[1].d) /\ sigma[1].d # Last(sigma).s
    BY <1>1, <1>7 DEF Pop, Ready, Closes
  <2>2. <<mu, Tail(sigma), <<sigma[1]>> \o tau>> \in Steps(st)
    BY <2>1, Popped
  <2> QED BY <1>2, <2>1, <2>2
<1>8. CASE Break
  <2> DEFINE x == [Last(sigma) EXCEPT !.s = NONE]
             half == Append(Front(sigma), x)
             save == [d |-> NONE, s |-> Last(sigma).s]
  <2>1. /\ Len(sigma) > 1 /\ Last(sigma).s = sigma[1].d /\ NoRead(mu, sigma[1].d)
        /\ mu' = mu /\ sigma' = Append(Front(Tail(sigma)), x)
        /\ tau' = <<sigma[1], [d |-> NONE, s |-> sigma[1].d]>> \o tau
    BY <1>8 DEF Break, Ready, Closes, Cut
  <2>2. Last(sigma) \in Move /\ sigma[1] \in Move /\ sigma[1].d # NONE
        /\ Len(sigma) \in DOMAIN sigma
    BY <1>1, <2>1 DEF Last, Path
  <2>3. x \in Move /\ x.s = NONE /\ save \in Move
    BY <2>2 DEF Move
  <2>4. /\ half \in Seq(Move) /\ Len(half) = Len(sigma) /\ half[1] = sigma[1] /\ Last(half) = x
        /\ Tail(half) = sigma'
    BY <1>1, <2>1, <2>3, CutFirst
  <2>5. <<mu, half, <<save>> \o tau>> \in Steps(st)
    BY <2>2, Saved
  <2>6. tau' = <<half[1]>> \o (<<save>> \o tau)
    <3>1. PICK f \in Move, g \in Move : f = sigma[1] /\ g = save
      BY <2>2, <2>3
    <3>2. <<f, g>> \o tau = <<f>> \o (<<g>> \o tau)
      BY <1>1, TwoMoves
    <3>3. tau' = <<f, g>> \o tau /\ half[1] = f
      BY <2>1, <2>4, <3>1
    <3> QED BY <3>1, <3>2, <3>3
  <2>7. <<mu, Tail(half), <<half[1]>> \o (<<save>> \o tau)>> \in Steps(<<mu, half, <<save>> \o tau>>)
    <3> HIDE DEF half, save, x
    <3>1. 1 \in DOMAIN half /\ NoRead(mu, half[1].d) /\ half[1].d # Last(half).s
      <4>1. DOMAIN half = 1 .. Len(half) /\ 1 \in 1 .. Len(half)
        BY <1>1, <2>1, <2>4, LenProperties
      <4> QED BY <2>1, <2>2, <2>3, <2>4, <4>1
    <3> QED BY <3>1, Popped
  <2>8. st' = <<mu, Tail(half), <<half[1]>> \o (<<save>> \o tau)>>
    BY <1>2, <2>1, <2>4, <2>6
  <2> QED BY <2>5, <2>7, <2>8
<1> QED BY <1>3, <1>4, <1>5, <1>6, <1>7, <1>8 DEF fstep

(* Each move of the functional algorithm is one or two moves of the
   nondeterministic one, for every list of moves (fstep_dstep, dstep_step). *)
THEOREM StepsImplemented == Spec => ImplementsSteps
<1> DEFINE A == pc' = pc /\ pc = "order" =>
                  LET st == <<mu, sigma, tau>>
                  IN  st' \in Steps(st) \/ \E mid \in Steps(st) : st' \in Steps(mid)
<1>1. Ordering /\ [Next]_vars => [A]_<<mu, sigma, tau>>
  BY OtherSteps, StepIsSteps
<1> QED BY <1>1, OrderingHolds, PTL DEF Spec, ImplementsSteps

------------------------------------------------------------------------------
(***************************************************************************)
(* What the moves do.  An environment says what is in every place a move   *)
(* can name: a name, or what the machine's places held first; a list of    *)
(* moves leads from one environment to another when there are environments *)
(* between its moves.                                                      *)
(***************************************************************************)
Places == Var \cup {NONE}
Value == Places \cup ({"register", "slot"} \X Int)
Env == [Places -> Value]
Apply(m, e) == [e EXCEPT ![m.d] = e[m.s]]

\* The processed moves, latest first, and the instructions, in order.
Led(t, a, b) ==
  \E h \in [0 .. Len(t) -> Env] :
    /\ h[0] = a /\ h[Len(t)] = b
    /\ \A i \in 1 .. Len(t) : h[i] = Apply(t[Len(t) + 1 - i], h[i - 1])
Leads(c, a, b) ==
  \E h \in [0 .. Len(c) -> Env] :
    /\ h[0] = a /\ h[Len(c)] = b
    /\ \A i \in 1 .. Len(c) : h[i] = Apply(c[i], h[i - 1])

LEMMA ApplyFacts ==
  ASSUME NEW m \in Move, NEW e \in Env
  PROVE  /\ Apply(m, e) \in Env
         /\ \A x \in Places : Apply(m, e)[x] = IF x = m.d THEN e[m.s] ELSE e[x]
BY DEF Apply, Env, Places, Move

LEMMA LedNowhere ==
  ASSUME NEW a \in Env
  PROVE  Led(<<>>, a, a)
<1> DEFINE h == [i \in 0 .. 0 |-> a]
<1>1. Len(<<>>) = 0 /\ h \in [0 .. 0 -> Env] /\ h[0] = a /\ 1 .. 0 = {}
  OBVIOUS
<1> HIDE DEF h
<1> QED BY <1>1 DEF Led

LEMMA LedOneMore ==
  ASSUME NEW t \in Seq(Move), NEW m \in Move, NEW a, NEW b \in Env, Led(t, a, b)
  PROVE  Led(<<m>> \o t, a, Apply(m, b))
<1>1. PICK n \in Nat : n = Len(t)
  BY LenProperties
<1>2. PICK h \in [0 .. n -> Env] :
        /\ h[0] = a /\ h[n] = b
        /\ \A i \in 1 .. n : h[i] = Apply(t[n + 1 - i], h[i - 1])
  BY <1>1 DEF Led
<1>3. PICK u \in Seq(Move) :
        /\ u = <<m>> \o t /\ Len(u) = n + 1 /\ u[1] = m
        /\ \A i \in 2 .. n + 1 : u[i] = t[i - 1]
  <2>1. /\ <<m>> \o t \in Seq(Move) /\ Len(<<m>> \o t) = n + 1 /\ (<<m>> \o t)[1] = m
        /\ \A i \in 2 .. n + 1 : (<<m>> \o t)[i] = t[i - 1]
    BY <1>1
  <2> QED BY <2>1
<1>4. PICK c \in Env : c = Apply(m, b)
  BY ApplyFacts
<1> DEFINE g == [i \in 0 .. n + 1 |-> IF i = n + 1 THEN c ELSE h[i]]
<1>5. g \in [0 .. n + 1 -> Env]
  <2>1. \A i \in 0 .. n + 1 : i # n + 1 => i \in 0 .. n
    OBVIOUS
  <2> QED BY <2>1
<1>6. g[0] = a /\ g[n + 1] = c /\ \A i \in 0 .. n : g[i] = h[i]
  <2>1. \A i \in 0 .. n : i # n + 1 /\ i \in 0 .. n + 1
    OBVIOUS
  <2>2. 0 \in 0 .. n /\ n + 1 \in 0 .. n + 1
    OBVIOUS
  <2> QED BY <1>2, <2>1, <2>2
<1> HIDE DEF g
<1>7. ASSUME NEW i \in 1 .. n + 1 PROVE g[i] = Apply(u[(n + 1) + 1 - i], g[i - 1])
  <2>1. CASE i = n + 1
    <3>1. (n + 1) + 1 - i = 1 /\ i - 1 = n /\ n \in 0 .. n
      BY <2>1
    <3>2. g[i] = c /\ u[(n + 1) + 1 - i] = m /\ g[i - 1] = b
      BY <1>2, <1>3, <1>6, <2>1, <3>1
    <3> QED BY <1>4, <3>2
  <2>2. CASE i # n + 1
    <3>1. i \in 1 .. n /\ i \in 0 .. n /\ i - 1 \in 0 .. n
      BY <2>2
    <3>2. (n + 1) + 1 - i \in 2 .. n + 1 /\ ((n + 1) + 1 - i) - 1 = n + 1 - i
      BY <3>1
    <3>3. g[i] = h[i] /\ g[i - 1] = h[i - 1] /\ u[(n + 1) + 1 - i] = t[n + 1 - i]
      BY <1>3, <1>6, <3>1, <3>2
    <3> QED BY <1>2, <3>1, <3>3
  <2> QED BY <2>1, <2>2
<1>8. Led(u, a, c)
  <2>1. g \in [0 .. Len(u) -> Env] /\ g[0] = a /\ g[Len(u)] = c
    BY <1>3, <1>5, <1>6
  <2>2. \A i \in 1 .. Len(u) : g[i] = Apply(u[Len(u) + 1 - i], g[i - 1])
    BY <1>3, <1>7
  <2> QED BY <2>1, <2>2 DEF Led
<1> QED BY <1>3, <1>4, <1>8

LEMMA LedForwards ==
  ASSUME NEW t \in Seq(Move), NEW a, NEW b, Led(t, a, b)
  PROVE  Reverse(t) \in Seq(Move) /\ Leads(Reverse(t), a, b)
<1>1. PICK n \in Nat : n = Len(t) /\ \A i \in 1 .. n : t[i] \in Move
  BY LenProperties, ElementOfSeq
<1>2. PICK r : r = [i \in 1 .. n |-> t[(n - i) + 1]]
  OBVIOUS
<1>3. r = Reverse(t)
  BY <1>1, <1>2 DEF Reverse
<1>4. \A i \in 1 .. n : (n - i) + 1 \in 1 .. n /\ (n - i) + 1 = n + 1 - i
  OBVIOUS
<1>5. r \in Seq(Move) /\ Len(r) = n /\ \A i \in 1 .. n : r[i] = t[n + 1 - i]
  BY <1>1, <1>2, <1>4
<1>6. PICK h \in [0 .. n -> Env] :
        /\ h[0] = a /\ h[n] = b
        /\ \A i \in 1 .. n : h[i] = Apply(t[n + 1 - i], h[i - 1])
  BY <1>1 DEF Led
<1>7. \A i \in 1 .. n : h[i] = Apply(r[i], h[i - 1])
  BY <1>5, <1>6
<1>8. Leads(r, a, b)
  BY <1>5, <1>6, <1>7 DEF Leads
<1> QED BY <1>3, <1>5, <1>8

LEMMA LeadsOneLess ==
  ASSUME NEW c \in Seq(Move), c # <<>>, NEW a, NEW b, Leads(c, a, b)
  PROVE  Tail(c) \in Seq(Move) /\ c[1] \in Move /\ Leads(Tail(c), Apply(c[1], a), b)
<1>1. PICK n \in Nat : Len(c) = n + 1
  <2>1. Len(c) \in Nat \ {0}
    BY EmptySeq
  <2>2. Len(c) - 1 \in Nat /\ (Len(c) - 1) + 1 = Len(c)
    BY <2>1
  <2> QED BY <2>2
<1>2. PICK u \in Seq(Move) : u = Tail(c) /\ Len(u) = n /\ \A i \in 1 .. n : u[i] = c[i + 1]
  <2>1. /\ Tail(c) \in Seq(Move) /\ Len(Tail(c)) = Len(c) - 1
        /\ \A i \in 1 .. Len(Tail(c)) : Tail(c)[i] = c[i + 1]
    BY HeadTailProperties
  <2>2. Len(Tail(c)) = n
    BY <1>1, <2>1
  <2> QED BY <2>1, <2>2
<1>3. PICK h \in [0 .. n + 1 -> Env] :
        /\ h[0] = a /\ h[n + 1] = b
        /\ \A i \in 1 .. n + 1 : h[i] = Apply(c[i], h[i - 1])
  BY <1>1 DEF Leads
<1> DEFINE g == [i \in 0 .. n |-> h[i + 1]]
<1>4. g \in [0 .. n -> Env]
  <2>1. \A i \in 0 .. n : i + 1 \in 0 .. n + 1
    OBVIOUS
  <2> QED BY <2>1
<1>5. g[0] = Apply(c[1], a) /\ g[n] = b
  <2>1. 0 \in 0 .. n /\ n \in 0 .. n /\ 1 \in 1 .. n + 1 /\ 0 + 1 = 1 /\ 1 - 1 = 0
    OBVIOUS
  <2> QED BY <1>3, <2>1
<1>6. ASSUME NEW i \in 1 .. n PROVE g[i] = Apply(u[i], g[i - 1])
  <2>1. /\ i \in 0 .. n /\ i - 1 \in 0 .. n /\ i + 1 \in 1 .. n + 1
        /\ (i + 1) - 1 = i /\ (i - 1) + 1 = i
    OBVIOUS
  <2>2. g[i] = h[i + 1] /\ g[i - 1] = h[i]
    BY <2>1
  <2>3. h[i + 1] = Apply(c[i + 1], h[i])
    BY <1>3, <2>1
  <2> QED BY <1>2, <2>2, <2>3
<1> HIDE DEF g
<1>7. Leads(u, Apply(c[1], a), b)
  BY <1>2, <1>4, <1>5, <1>6 DEF Leads
<1>8. 1 \in 1 .. Len(c)
  BY <1>1
<1> QED BY <1>2, <1>7, <1>8, ElementOfSeq

\* What is still to be done, from environment e to have w in the variables:
\* the moves that wait have their values at hand, and everything else is where
\* it should be.
Means(ms, e, w) ==
  /\ \A m \in ms : e[m.s] = w[m.d]
  /\ \A x \in Var : (\A m \in ms : m.d # x) => e[x] = w[x]

Of(ms) == {ms[j] : j \in 1 .. Len(ms)}

LEMMA MeansDropped ==
  ASSUME NEW ms, NEW m, NEW e, NEW w, m.d = m.s, Means(ms \cup {m}, e, w)
  PROVE  Means(ms, e, w)
BY DEF Means

LEMMA MeansDone ==
  ASSUME NEW ms \in SUBSET Move, NEW m \in Move, m.d # NONE, NEW e \in Env, NEW w,
         \A k \in ms : k.s # m.d, Means(ms \cup {m}, e, w)
  PROVE  Means(ms, Apply(m, e), w)
<1>1. \A x \in Places : Apply(m, e)[x] = IF x = m.d THEN e[m.s] ELSE e[x]
  BY ApplyFacts
<1>2. \A k \in ms : Apply(m, e)[k.s] = w[k.d]
  <2>1. ASSUME NEW k \in ms PROVE Apply(m, e)[k.s] = w[k.d]
    <3>1. k.s \in Places /\ k.s # m.d
      BY DEF Move, Places
    <3> QED BY <1>1, <3>1 DEF Means
  <2> QED BY <2>1
<1>3. ASSUME NEW x \in Var, \A k \in ms : k.d # x PROVE Apply(m, e)[x] = w[x]
  <2>1. Apply(m, e)[x] = IF x = m.d THEN e[m.s] ELSE e[x]
    BY <1>1 DEF Places
  <2> QED BY <1>3, <2>1 DEF Means
<1> QED BY <1>2, <1>3 DEF Means

LEMMA MeansSaved ==
  ASSUME NEW ms \in SUBSET Move, \A k \in ms : k.s # NONE, NEW last \in Move, NEW e \in Env, NEW w,
         Means(ms \cup {last}, e, w)
  PROVE  Means(ms \cup {[last EXCEPT !.s = NONE]}, Apply([d |-> NONE, s |-> last.s], e), w)
<1> DEFINE save == [d |-> NONE, s |-> last.s]
           x == [last EXCEPT !.s = NONE]
<1>1. save \in Move /\ x.s = NONE /\ x.d = last.d /\ NONE \in Places /\ NONE \notin Var
  BY DEF Move, Places, Var, NONE
<1>2. \A y \in Places : Apply(save, e)[y] = IF y = NONE THEN e[last.s] ELSE e[y]
  BY <1>1, ApplyFacts
<1> HIDE DEF save, x
<1>3. ASSUME NEW k \in ms PROVE Apply(save, e)[k.s] = w[k.d]
  <2>1. k.s \in Places /\ k.s # NONE
    BY DEF Move, Places
  <2> QED BY <1>2, <2>1 DEF Means
<1>4. Apply(save, e)[x.s] = w[x.d]
  BY <1>1, <1>2 DEF Means
<1>5. ASSUME NEW y \in Var, \A k \in ms \cup {x} : k.d # y PROVE Apply(save, e)[y] = w[y]
  <2>1. \A k \in ms \cup {last} : k.d # y
    BY <1>1, <1>5
  <2>2. y \in Places /\ y # NONE
    BY <1>1 DEF Places
  <2> QED BY <1>2, <2>1, <2>2 DEF Means
<1>6. Means(ms \cup {x}, Apply(save, e), w)
  BY <1>3, <1>4, <1>5 DEF Means
<1> QED BY <1>6 DEF save, x

(* The moves of the lists fstep builds. *)
LEMMA OfMoves ==
  ASSUME NEW ms \in Seq(Move)
  PROVE  Of(ms) \in SUBSET Move
BY ElementOfSeq DEF Of

LEMMA OfFewer ==
  ASSUME NEW ms \in Seq(Move), NEW j \in 1 .. Len(ms)
  PROVE  Of(ms) = Of(Without(ms, j)) \cup {ms[j]}
<1> DEFINE u == Without(ms, j)
<1>1. PICK n \in Nat : Len(ms) = n
  BY LenProperties
<1>2. Len(u) = n - 1
  BY <1>1, WithoutOne
<1>3. \A k \in 1 .. n - 1 : u[k] = IF k < j THEN ms[k] ELSE ms[k + 1]
  BY <1>1, WithoutElements
<1> HIDE DEF u
<1>4. ASSUME NEW k \in 1 .. n PROVE ms[k] \in Of(u) \cup {ms[j]}
  <2>1. CASE k < j
    <3>1. k \in 1 .. n - 1 /\ u[k] = ms[k]
      BY <1>1, <1>3, <2>1
    <3> QED BY <1>2, <3>1 DEF Of
  <2>2. CASE k > j
    <3>1. k - 1 \in 1 .. n - 1 /\ ~(k - 1 < j) /\ (k - 1) + 1 = k
      BY <1>1, <2>2
    <3>2. u[k - 1] = ms[k]
      BY <1>3, <3>1
    <3> QED BY <1>2, <3>1, <3>2 DEF Of
  <2> QED BY <1>1, <2>1, <2>2
<1>5. ASSUME NEW k \in 1 .. n - 1 PROVE u[k] \in Of(ms)
  <2>1. k \in 1 .. n /\ k + 1 \in 1 .. n
    BY <1>1
  <2> QED BY <1>1, <1>3, <2>1 DEF Of
<1>6. Of(u) \subseteq Of(ms) /\ Of(ms) \subseteq Of(u) \cup {ms[j]} /\ ms[j] \in Of(ms)
  BY <1>1, <1>2, <1>4, <1>5 DEF Of
<1> QED BY <1>1, <1>6 DEF u

LEMMA OfMore ==
  ASSUME NEW ms \in Seq(Move), NEW m \in Move
  PROVE  Of(<<m>> \o ms) = Of(ms) \cup {m}
<1> DEFINE u == <<m>> \o ms
<1>1. PICK n \in Nat : Len(ms) = n
  BY LenProperties
<1>2. Len(u) = n + 1 /\ u[1] = m /\ \A k \in 1 .. n : u[k + 1] = ms[k]
  BY <1>1
<1> HIDE DEF u
<1>3. \A k \in 1 .. n + 1 : k = 1 \/ (k - 1 \in 1 .. n /\ (k - 1) + 1 = k)
  OBVIOUS
<1>4. \A k \in 1 .. n : k + 1 \in 1 .. n + 1
  OBVIOUS
<1>5. ASSUME NEW k \in 1 .. n + 1 PROVE u[k] \in Of(ms) \cup {m}
  <2>1. CASE k = 1
    BY <1>2, <2>1
  <2>2. CASE k # 1
    <3>1. k - 1 \in 1 .. n /\ u[k] = ms[k - 1]
      BY <1>2, <1>3, <2>2
    <3> QED BY <1>1, <3>1 DEF Of
  <2> QED BY <2>1, <2>2
<1>6. Of(u) \subseteq Of(ms) \cup {m}
  BY <1>2, <1>5 DEF Of
<1>7. m \in Of(u)
  <2>1. 1 \in 1 .. n + 1
    OBVIOUS
  <2> QED BY <1>2, <2>1 DEF Of
<1>8. Of(ms) \subseteq Of(u)
  BY <1>1, <1>2, <1>4 DEF Of
<1> QED BY <1>6, <1>7, <1>8 DEF u

\* A list without its last move, and that move with another source.
LEMMA OfCut ==
  ASSUME NEW ms \in Seq(Move), Len(ms) > 1
  PROVE  \E rest \in SUBSET Move :
           /\ rest = {ms[j] : j \in 2 .. Len(ms) - 1}
           /\ Of(ms) = (rest \cup {ms[1]}) \cup {Last(ms)}
           /\ Of(Cut(ms)) = rest \cup {[Last(ms) EXCEPT !.s = NONE]}
<1> DEFINE u == Cut(ms)
           x == [Last(ms) EXCEPT !.s = NONE]
<1>1. PICK n \in Nat : n = Len(ms)
  BY LenProperties
<1>2. Len(u) = n - 1 /\ u[n - 1] = x /\ \A k \in 1 .. n - 2 : u[k] = ms[k + 1]
  BY <1>1, BrokenTail, BrokenElements
<1> HIDE DEF u, x
<1>3. PICK rest : rest = {ms[j] : j \in 2 .. n - 1}
  OBVIOUS
<1>4. rest \in SUBSET Move
  <2>1. \A j \in 2 .. n - 1 : j \in 1 .. n
    OBVIOUS
  <2> QED BY <1>1, <1>3, <2>1, ElementOfSeq
<1>5. Of(ms) = (rest \cup {ms[1]}) \cup {ms[n]}
  <2>1. \A j \in 1 .. n : j \in 2 .. n - 1 \/ j = 1 \/ j = n
    OBVIOUS
  <2>2. 1 \in 1 .. n /\ n \in 1 .. n /\ \A j \in 2 .. n - 1 : j \in 1 .. n
    BY <1>1
  <2> QED BY <1>1, <1>3, <2>1, <2>2 DEF Of
<1>6. Of(u) = rest \cup {x}
  <2>1. ASSUME NEW k \in 1 .. n - 1 PROVE u[k] \in rest \cup {x}
    <3>1. CASE k = n - 1
      BY <1>2, <3>1
    <3>2. CASE k # n - 1
      <4>1. k \in 1 .. n - 2 /\ k + 1 \in 2 .. n - 1
        BY <3>2
      <4> QED BY <1>2, <1>3, <4>1
    <3> QED BY <3>1, <3>2
  <2>2. ASSUME NEW j \in 2 .. n - 1 PROVE ms[j] \in Of(u)
    <3>1. j - 1 \in 1 .. n - 2 /\ j - 1 \in 1 .. n - 1 /\ (j - 1) + 1 = j
      OBVIOUS
    <3>2. u[j - 1] = ms[j]
      BY <1>2, <3>1
    <3> QED BY <1>2, <3>1, <3>2 DEF Of
  <2>3. x \in Of(u)
    <3>1. n - 1 \in 1 .. n - 1
      BY <1>1
    <3> QED BY <1>2, <3>1 DEF Of
  <2>4. Of(u) \subseteq rest \cup {x}
    BY <1>2, <2>1 DEF Of
  <2> QED BY <1>3, <2>2, <2>3, <2>4
<1> QED BY <1>1, <1>3, <1>4, <1>5, <1>6 DEF Last, u, x

(* A step of the ordering: what waits still means the same from where the
   processed moves now lead. *)
Waiting == Of(mu) \cup Of(sigma)
Kept(a, w) == \E e \in Env : Led(tau, a, e) /\ Means(Waiting, e, w)

LEMMA StepKeeps ==
  ASSUME Ordering, fstep, NEW a, NEW w, Kept(a, w)
  PROVE  \E e \in Env : Led(tau', a, e) /\ Means(Waiting', e, w)
<1>1. /\ mu \in Seq(Move) /\ sigma \in Seq(Move) /\ tau \in Seq(Move)
      /\ DOMAIN mu = 1 .. Len(mu) /\ DOMAIN sigma = 1 .. Len(sigma) /\ Len(sigma) \in Nat
      /\ Path(sigma) /\ Distinct(sigma) /\ RealMoves
  BY LenProperties DEF Ordering, IInv, Lists
<1>2. PICK e \in Env : Led(tau, a, e) /\ Means(Of(mu) \cup Of(sigma), e, w)
  BY DEF Kept, Waiting
<1>5. ASSUME NEW f \in Env, Led(tau', a, f), Means(Of(mu') \cup Of(sigma'), f, w)
      PROVE  \E d \in Env : Led(tau', a, d) /\ Means(Waiting', d, w)
  <2>1. Waiting' = Of(mu') \cup Of(sigma')
    BY DEF Waiting, Of
  <2> QED BY <1>5, <2>1
<1>6. Of(mu) \in SUBSET Move /\ Of(sigma) \in SUBSET Move
  BY <1>1, OfMoves
<1>7. CASE Skip
  <2>1. /\ mu' = Without(mu, 1) /\ 1 \in 1 .. Len(mu) /\ mu[1].d = mu[1].s
        /\ UNCHANGED <<sigma, tau>>
    BY <1>1, <1>7, FirstOut DEF Skip
  <2>2. Of(mu) = Of(mu') \cup {mu[1]}
    BY <1>1, <2>1, OfFewer
  <2>3. Of(mu) \cup Of(sigma) = (Of(mu') \cup Of(sigma')) \cup {mu[1]}
    BY <2>1, <2>2
  <2>4. Means(Of(mu') \cup Of(sigma'), e, w)
    BY <1>2, <2>1, <2>3, MeansDropped
  <2> QED BY <1>2, <1>5, <2>1, <2>4
<1>8. CASE Start
  <2>1. /\ mu' = Without(mu, 1) /\ 1 \in 1 .. Len(mu) /\ mu[1] \in Move /\ sigma = <<>>
        /\ sigma' = <<mu[1]>> /\ tau' = tau
    BY <1>1, <1>8, FirstOut DEF Start
  <2>2. Of(mu) = Of(mu') \cup {mu[1]}
    BY <1>1, <2>1, OfFewer
  <2>3. Of(sigma') = {mu[1]} /\ Of(sigma) = {}
    BY <2>1 DEF Of
  <2>4. Of(mu') \cup Of(sigma') = Of(mu) \cup Of(sigma)
    BY <2>2, <2>3
  <2> QED BY <1>2, <1>5, <2>1, <2>4
<1>9. CASE Push
  <2>1. PICK j \in Readers(sigma[1].d) :
          mu' = Without(mu, j) /\ sigma' = <<mu[j]>> \o sigma /\ tau' = tau
    BY <1>9 DEF Push
  <2>2. j \in 1 .. Len(mu) /\ mu[j] \in Move
    BY <1>1, <2>1 DEF Readers
  <2>3. Of(mu) = Of(mu') \cup {mu[j]}
    BY <1>1, <2>1, <2>2, OfFewer
  <2>4. Of(sigma') = Of(sigma) \cup {mu[j]}
    BY <1>1, <2>1, <2>2, OfMore
  <2>5. Of(mu') \cup Of(sigma') = Of(mu) \cup Of(sigma)
    BY <2>3, <2>4
  <2> QED BY <1>2, <1>5, <2>1, <2>5
<1>10. CASE Finish \/ Pop
  <2>1. /\ mu' = mu /\ sigma' = Without(sigma, 1) /\ tau' = <<sigma[1]>> \o tau
        /\ 1 \in 1 .. Len(sigma) /\ NoRead(mu, sigma[1].d) /\ sigma[1] \in Move
        /\ Len(sigma') = Len(sigma) - 1
        /\ (Len(sigma) > 1 => sigma[1].d # Last(sigma).s)
    <3>1. /\ sigma # <<>> /\ mu' = mu /\ NoRead(mu, sigma[1].d)
          /\ (Len(sigma) > 1 => sigma[1].d # Last(sigma).s)
      BY <1>10 DEF Finish, Pop, Ready, Closes
    <3>2. Tail(sigma) = Without(sigma, 1) /\ 1 \in 1 .. Len(sigma)
      BY <1>1, <3>1, FirstOut
    <3>3. sigma' = Tail(sigma) /\ tau' = <<sigma[1]>> \o tau
      <4>1. CASE Finish
        <5>1. Len(sigma) = 1 /\ sigma' = <<>> /\ tau' = sigma \o tau
          BY <4>1 DEF Finish
        <5>2. PICK one : one = <<sigma[1]>>
          OBVIOUS
        <5>3. sigma = one /\ Tail(sigma) = <<>>
          BY <1>1, <5>1, <5>2, OneMove
        <5> QED BY <5>1, <5>2, <5>3
      <4>2. CASE Pop
        BY <4>2 DEF Pop
      <4> QED BY <1>10, <4>1, <4>2
    <3>4. sigma[1] \in Move
      BY <1>1, <3>2, ElementOfSeq
    <3>5. Len(Without(sigma, 1)) = Len(sigma) - 1
      BY <1>1, <3>2, WithoutOne
    <3> QED BY <3>1, <3>2, <3>3, <3>4, <3>5
  <2> DEFINE m == sigma[1]
             ms == Of(mu) \cup Of(sigma')
  <2>2. Of(sigma) = Of(sigma') \cup {m} /\ sigma' \in Seq(Move)
    BY <1>1, <2>1, OfFewer, WithoutOne
  <2>3. ms \in SUBSET Move /\ Of(mu) \cup Of(sigma) = ms \cup {m}
    BY <1>6, <2>2
  <2>4. ASSUME NEW k \in ms PROVE k.s # m.d
    <3>1. CASE k \in Of(mu)
      BY <1>1, <2>1, <3>1 DEF NoRead, Of
    <3>2. CASE k \in Of(sigma')
      <4>1. PICK i \in 1 .. Len(sigma) - 1 : k = sigma'[i]
        BY <2>1, <3>2 DEF Of
      <4>2. k = sigma[i + 1]
        <5>1. ~(i < 1)
          BY <1>1
        <5> QED BY <1>1, <2>1, <4>1, <5>1, WithoutElements
      <4>3. /\ i + 1 \in 1 .. Len(sigma) /\ Len(sigma) > 1 /\ i + 1 <= Len(sigma)
            /\ i \in Nat /\ i >= 1
        BY <1>1
      <4>4. CASE i + 1 = Len(sigma)
        BY <2>1, <4>2, <4>3, <4>4 DEF Last
      <4>5. CASE i + 1 # Len(sigma)
        <5>1. i + 1 < Len(sigma) /\ (i + 1) + 1 \in 1 .. Len(sigma) /\ (i + 1) + 1 # 1
          <6>1. Len(sigma) \in Nat
            BY <1>1
          <6> QED BY <4>3, <4>5, <6>1
        <5>2. sigma[i + 1].s = sigma[(i + 1) + 1].d
          BY <1>1, <4>3, <5>1 DEF Path
        <5>3. sigma[(i + 1) + 1].d # sigma[1].d
          BY <1>1, <2>1, <5>1 DEF Distinct
        <5> QED BY <4>2, <5>2, <5>3
      <4> QED BY <4>4, <4>5
    <3> QED BY <3>1, <3>2
  <2>5. m \in Move /\ m.d # NONE
    BY <1>1, <2>1 DEF Path
  <2> HIDE DEF m, ms
  <2>6. Means(ms, Apply(m, e), w)
    BY <1>2, <2>3, <2>4, <2>5, MeansDone
  <2>7. Led(<<m>> \o tau, a, Apply(m, e)) /\ Apply(m, e) \in Env
    BY <1>1, <1>2, <2>5, LedOneMore, ApplyFacts
  <2> QED BY <1>5, <2>1, <2>6, <2>7 DEF m, ms
<1>11. CASE Break
  <2> DEFINE x == [Last(sigma) EXCEPT !.s = NONE]
             save == [d |-> NONE, s |-> Last(sigma).s]
             m == sigma[1]
  <2>1. /\ Len(sigma) > 1 /\ Last(sigma).s = sigma[1].d /\ NoRead(mu, sigma[1].d)
        /\ mu' = mu /\ sigma' = Cut(sigma)
        /\ tau' = <<m, save>> \o tau
    BY <1>11 DEF Break, Ready, Closes
  <2>2. /\ Last(sigma) \in Move /\ m \in Move /\ m.d # NONE /\ m.s # NONE
        /\ x \in Move /\ x.s = NONE /\ save \in Move /\ 1 \in 1 .. Len(sigma)
    <3>1. 1 \in 1 .. Len(sigma) /\ 1 < Len(sigma) /\ Len(sigma) \in 1 .. Len(sigma)
      BY <1>1, <2>1
    <3>2. Last(sigma) \in Move /\ m \in Move /\ m.d # NONE /\ m.s # NONE
      BY <1>1, <3>1 DEF Last, Path
    <3> QED BY <3>1, <3>2 DEF Move
  <2>3. PICK rest \in SUBSET Move :
          /\ rest = {sigma[j] : j \in 2 .. Len(sigma) - 1}
          /\ Of(sigma) = (rest \cup {m}) \cup {Last(sigma)}
          /\ Of(sigma') = rest \cup {x}
    BY <1>1, <2>1, OfCut
  <2>4. ASSUME NEW k \in rest PROVE k.s # NONE /\ k.s # m.d
    <3>1. PICK j \in 2 .. Len(sigma) - 1 : k = sigma[j]
      BY <2>3
    <3>2. j \in 1 .. Len(sigma) /\ j < Len(sigma) /\ j + 1 \in 1 .. Len(sigma) /\ j + 1 # 1
      BY <1>1
    <3>3. k.s # NONE /\ k.s = sigma[j + 1].d
      BY <1>1, <3>1, <3>2 DEF Path
    <3>4. sigma[j + 1].d # sigma[1].d
      BY <1>1, <2>2, <3>2 DEF Distinct
    <3> QED BY <3>3, <3>4
  <2>5. \A k \in Of(mu) : k.s # NONE /\ k.s # m.d
    BY <1>1, <2>1 DEF Of, RealMoves, NoRead
  <2> DEFINE ms == (Of(mu) \cup rest) \cup {m}
             ts == (Of(mu) \cup rest) \cup {x}
             half == Apply(save, e)
  <2>6. /\ ms \in SUBSET Move /\ ts \in SUBSET Move
        /\ \A k \in ms : k.s # NONE
        /\ Of(mu) \cup Of(sigma) = ms \cup {Last(sigma)}
        /\ ms \cup {x} = ts \cup {m} /\ Of(mu') \cup Of(sigma') = ts
    BY <1>6, <2>1, <2>2, <2>3, <2>4, <2>5
  <2>7. \A k \in ts : k.s # m.d
    BY <2>2, <2>4, <2>5
  <2> HIDE DEF ms, ts, m
  <2>8. Means(ms \cup {x}, half, w)
    BY <1>2, <2>2, <2>6, MeansSaved
  <2>9. half \in Env /\ Led(<<save>> \o tau, a, half) /\ <<save>> \o tau \in Seq(Move)
    <3>1. <<save>> \in Seq(Move)
      BY <2>2
    <3> HIDE DEF save
    <3>2. <<save>> \o tau \in Seq(Move)
      BY <1>1, <3>1, ConcatProperties
    <3> QED BY <1>1, <1>2, <2>2, <3>2, LedOneMore, ApplyFacts
  <2> HIDE DEF half, save, x
  <2>10. Means(ts, Apply(m, half), w)
    BY <2>2, <2>6, <2>7, <2>8, <2>9, MeansDone
  <2>11. Led(<<m>> \o (<<save>> \o tau), a, Apply(m, half)) /\ Apply(m, half) \in Env
    BY <2>2, <2>9, LedOneMore, ApplyFacts
  <2>12. tau' = <<m>> \o (<<save>> \o tau)
    BY <1>1, <2>1, <2>2, TwoMoves DEF save
  <2> QED BY <1>5, <2>6, <2>10, <2>11, <2>12
<1> QED BY <1>7, <1>8, <1>9, <1>10, <1>11 DEF fstep

(* The machine's places, and what they are to hold when all is done. *)
Held == [x \in Places |-> IF x = NONE THEN reg[K + 1] ELSE Holds(x)]
Wanted == [x \in Var |-> Place(parsem(moves, Names)[x])]

(* Where the machine keeps what a move names. *)
LEMMA Register ==
  ASSUME NEW x \in Places, ~OnStack(x)
  PROVE  format_var(x) \in 0 .. K + 1 /\ format_var(x) # K
<1>1. K \in Nat /\ V \in Nat
  BY PlaceAssumption
<1>2. CASE x = NONE
  BY <1>1, <1>2 DEF format_var
<1>3. CASE x # NONE
  <2>1. x \in 0 .. V - 1 /\ x < K /\ format_var(x) = x
    BY <1>3 DEF Places, Var, OnStack, InRegister, format_var
  <2> QED BY <1>1, <2>1
<1> QED BY <1>2, <1>3

LEMMA Registers ==
  ASSUME NEW x \in Places, NEW y \in Places, ~OnStack(x), ~OnStack(y),
         format_var(x) = format_var(y)
  PROVE  x = y
<1>1. K \in Nat /\ V \in Nat
  BY PlaceAssumption
<1>2. \A z \in Places : ~OnStack(z) /\ z # NONE => z \in Nat /\ z < K
  BY <1>1 DEF Places, Var, OnStack, InRegister
<1> QED BY <1>1, <1>2 DEF format_var

LEMMA Slots ==
  ASSUME NEW x \in Places, OnStack(x)
  PROVE  x \in Var /\ Slot(x) \in 0 .. F - 1
<1>1. K \in Nat /\ V \in Nat /\ F \in Nat /\ V <= K + F
  BY PlaceAssumption
<1>2. x \in 0 .. V - 1 /\ ~(x < K)
  BY DEF Places, Var, OnStack, InRegister
<1> QED BY <1>1, <1>2 DEF Slot, Var

LEMMA SlotsApart ==
  ASSUME NEW x \in Places, NEW y \in Places, OnStack(x), OnStack(y), Slot(x) = Slot(y)
  PROVE  x = y
<1>1. K \in Nat /\ V \in Nat /\ F \in Nat /\ V <= K + F
  BY PlaceAssumption
<1>2. x \in 0 .. V - 1 /\ y \in 0 .. V - 1
  BY Slots DEF Var
<1> QED BY <1>1, <1>2 DEF Slot

Machine == reg \in [0 .. K + 1 -> Value] /\ stack \in [0 .. F - 1 -> Value]

LEMMA HeldAt ==
  ASSUME NEW x \in Places
  PROVE  Held[x] = IF OnStack(x) THEN stack[Slot(x)] ELSE reg[format_var(x)]
BY DEF Held, Places, OnStack, format_var, Holds, InRegister

LEMMA HeldIsEnv == ASSUME Machine PROVE Held \in Env
<1>1. ASSUME NEW x \in Places PROVE Held[x] \in Value
  <2>1. CASE OnStack(x)
    BY <2>1, HeldAt, Slots DEF Machine
  <2>2. CASE ~OnStack(x)
    BY <2>2, HeldAt, Register DEF Machine
  <2> QED BY <2>1, <2>2
<1>2. Held \in [Places -> Value]
  <2>1. Held = [x \in Places |-> Held[x]]
    BY DEF Held
  <2> QED BY <1>1, <2>1
<1> QED BY <1>2 DEF Env

(* An instruction does its move, and touches no slot but its destination's. *)
LEMMA InstructionMoves ==
  ASSUME Machine, NEW m \in Move,
         RegisterMove(m) \/ StackLoad(m) \/ StackStore(m) \/ StackCopy(m)
  PROVE  /\ Machine' /\ Held' = Apply(m, Held)
         /\ \A w \in 0 .. F - 1 : w \notin {Slot(x) : x \in Var} => stack'[w] = stack[w]
<1>1. m.d \in Places /\ m.s \in Places
  BY DEF Move, Places
<1>2. PICK v \in Value : v = Held[m.s]
  BY <1>1, HeldIsEnv DEF Env
<1>3. CASE ~OnStack(m.d)
  <2>1. reg' = [reg EXCEPT ![format_var(m.d)] = v] /\ stack' = stack
    BY <1>1, <1>2, <1>3, HeldAt DEF RegisterMove, StackLoad, StackStore, StackCopy
  <2>2. format_var(m.d) \in 0 .. K + 1
    BY <1>1, <1>3, Register
  <2>3. Machine'
    BY <2>1, <2>2 DEF Machine
  <2>4. ASSUME NEW x \in Places PROVE Held'[x] = IF x = m.d THEN v ELSE Held[x]
    <3>1. Held'[x] = IF OnStack(x) THEN stack'[Slot(x)] ELSE reg'[format_var(x)]
      BY DEF Held, Places, OnStack, format_var, Holds, InRegister
    <3>2. CASE OnStack(x)
      BY <1>3, <2>1, <3>1, <3>2, HeldAt
    <3>3. CASE ~OnStack(x)
      <4>1. format_var(x) \in 0 .. K + 1
        BY <3>3, Register
      <4>2. reg'[format_var(x)] = IF format_var(x) = format_var(m.d) THEN v ELSE reg[format_var(x)]
        BY <2>1, <4>1 DEF Machine
      <4>3. format_var(x) = format_var(m.d) <=> x = m.d
        BY <1>1, <1>3, <3>3, Registers
      <4> QED BY <3>1, <3>3, <4>2, <4>3, HeldAt
    <3> QED BY <3>2, <3>3
  <2>5. Held' = Apply(m, Held)
    BY <2>4, <1>2 DEF Apply, Held
  <2> QED BY <2>1, <2>3, <2>5
<1>4. CASE OnStack(m.d)
  <2>1. PICK r : reg' = r /\ (r = reg \/ r = [reg EXCEPT ![K] = v])
    BY <1>1, <1>2, <1>4, HeldAt DEF RegisterMove, StackLoad, StackStore, StackCopy
  <2>2. K \in 0 .. K + 1
    BY PlaceAssumption
  <2>3. /\ r \in [0 .. K + 1 -> Value]
        /\ \A i \in 0 .. K + 1 : i # K => r[i] = reg[i]
    BY <2>1, <2>2 DEF Machine
  <2>4. stack' = [stack EXCEPT ![Slot(m.d)] = v]
    <3>1. CASE StackStore(m)
      BY <1>1, <1>2, <3>1, HeldAt DEF StackStore
    <3>2. CASE StackCopy(m)
      <4>1. stack' = [stack EXCEPT ![Slot(m.d)] = reg'[K]] /\ reg' = [reg EXCEPT ![K] = v]
        BY <1>1, <1>2, <3>2, HeldAt DEF StackCopy
      <4>2. reg'[K] = v
        BY <2>2, <4>1 DEF Machine
      <4> QED BY <4>1, <4>2
    <3> QED BY <1>4, <3>1, <3>2 DEF RegisterMove, StackLoad
  <2>5. m.d \in Var /\ Slot(m.d) \in 0 .. F - 1
    BY <1>1, <1>4, Slots
  <2>6. Machine'
    BY <2>1, <2>3, <2>4, <2>5 DEF Machine
  <2>7. ASSUME NEW x \in Places PROVE Held'[x] = IF x = m.d THEN v ELSE Held[x]
    <3>1. Held'[x] = IF OnStack(x) THEN stack'[Slot(x)] ELSE reg'[format_var(x)]
      BY DEF Held, Places, OnStack, format_var, Holds, InRegister
    <3>2. CASE OnStack(x)
      <4>1. Slot(x) \in 0 .. F - 1
        BY <3>2, Slots
      <4>2. stack'[Slot(x)] = IF Slot(x) = Slot(m.d) THEN v ELSE stack[Slot(x)]
        BY <2>4, <4>1 DEF Machine
      <4>3. Slot(x) = Slot(m.d) <=> x = m.d
        BY <1>1, <1>4, <3>2, SlotsApart
      <4> QED BY <3>1, <3>2, <4>2, <4>3, HeldAt
    <3>3. CASE ~OnStack(x)
      <4>1. format_var(x) \in 0 .. K + 1 /\ format_var(x) # K
        BY <3>3, Register
      <4> QED BY <1>4, <2>1, <2>3, <3>1, <3>3, <4>1, HeldAt
    <3> QED BY <3>2, <3>3
  <2>8. \A w \in 0 .. F - 1 : w \notin {Slot(x) : x \in Var} => stack'[w] = stack[w]
    BY <2>4, <2>5 DEF Machine
  <2> QED BY <2>6, <2>7, <2>8, <1>2 DEF Apply, Held
<1> QED BY <1>3, <1>4

\* While the moves are ordered the machine waits; then it is always an
\* environment the rest of the code leads from to what is wanted.
Untouched ==
  \A w \in 0 .. F - 1 : w \notin {Slot(x) : x \in Var} => stack[w] = <<"slot", w>>
Arrives == \E e \in Env : Leads(code, Held, e) /\ \A x \in Var : e[x] = Wanted[x]
MoveInv ==
  /\ Machine /\ Untouched
  /\ pc \in {"order", "run"}
  /\ (pc = "order" => Kept(Held, Wanted))
  /\ (pc = "run" => code \in Seq(Move) /\ Arrives)

(* At first the parallel move is still to be done, to names and so to what
   the places named hold. *)
LEMMA NamesAreEnv == Names \in Env /\ DOMAIN Names = Places /\ \A x \in Places : Names[x] = x
<1>1. /\ Names = [x \in Places |-> x] /\ DOMAIN Names = Places
      /\ \A x \in Places : Names[x] = x
  BY DEF Names, Places
<1>2. Names \in [Places -> Value]
  BY <1>1 DEF Value
<1> QED BY <1>1, <1>2 DEF Env

LEMMA FirstMeans ==
  ASSUME Init
  PROVE  /\ Means(Waiting, Names, parsem(moves, Names))
         /\ \A m \in Waiting : m.d \in Var /\ m.s \in Var
<1>1. moves \in Seq([d : Var, s : Var]) /\ Windmill(moves)
  BY MovesAssumption DEF Init
<1>2. DOMAIN moves = 1 .. Len(moves) /\ \A j \in 1 .. Len(moves) : moves[j] \in [d : Var, s : Var]
  BY <1>1, LenProperties, ElementOfSeq
<1>3. Waiting = {moves[j] : j \in DOMAIN moves}
  BY <1>2 DEF Init, Waiting, Of
<1>4. ASSUME NEW j \in DOMAIN moves
      PROVE  parsem(moves, Names)[moves[j].d] = Names[moves[j].s]
  <2>1. moves[j].d \in Places
    BY <1>2, <1>4 DEF Places
  <2>2. (CHOOSE k \in DOMAIN moves : moves[k].d = moves[j].d) = j
    BY <1>1, <1>4 DEF Windmill
  <2> QED BY <1>4, <2>1, <2>2, NamesAreEnv DEF parsem
<1>5. ASSUME NEW x \in Var, \A j \in DOMAIN moves : moves[j].d # x
      PROVE  parsem(moves, Names)[x] = Names[x]
  <2>1. x \in Places
    BY DEF Places
  <2> QED BY <1>5, <2>1, NamesAreEnv DEF parsem
<1>6. \A m \in Waiting : m.d \in Var /\ m.s \in Var
  BY <1>2, <1>3
<1>7. \A m \in Waiting : Names[m.s] = parsem(moves, Names)[m.d]
  BY <1>3, <1>4
<1>8. ASSUME NEW x \in Var, \A m \in Waiting : m.d # x PROVE Names[x] = parsem(moves, Names)[x]
  BY <1>3, <1>5, <1>8
<1> QED BY <1>6, <1>7, <1>8 DEF Means

LEMMA FirstWanted == ASSUME Init PROVE Kept(Held, Wanted)
<1>1. tau = <<>>
  BY DEF Init
<1>2. \A x \in Var : x \in Places /\ x # NONE /\ Names[x] = x
  BY NamesAreEnv DEF Places, Var, NONE
<1>3. ASSUME NEW x \in Var PROVE Held[x] = Place(x)
  <2>1. CASE OnStack(x)
    BY <1>2, <2>1, HeldAt, Slots DEF Init, OnStack, Place
  <2>2. CASE ~OnStack(x)
    BY <1>2, <2>2, HeldAt, Register DEF Init, OnStack, Place, format_var
  <2> QED BY <2>1, <2>2
<1>4. \A x \in Var : Wanted[x] = Place(parsem(moves, Names)[x])
  BY DEF Wanted
<1>5. \A m \in Waiting : Held[m.s] = Wanted[m.d]
  <2>1. ASSUME NEW m \in Waiting PROVE Held[m.s] = Wanted[m.d]
    <3>1. m.d \in Var /\ m.s \in Var /\ parsem(moves, Names)[m.d] = Names[m.s]
      BY FirstMeans DEF Means
    <3> QED BY <1>2, <1>3, <1>4, <3>1
  <2> QED BY <2>1
<1>6. ASSUME NEW x \in Var, \A m \in Waiting : m.d # x PROVE Held[x] = Wanted[x]
  <2>1. parsem(moves, Names)[x] = Names[x]
    BY <1>6, FirstMeans DEF Means
  <2> QED BY <1>2, <1>3, <1>4, <2>1
<1>7. Means(Waiting, Held, Wanted)
  BY <1>5, <1>6 DEF Means
<1>8. Machine
  BY DEF Init, Machine, Value
<1> QED BY <1>1, <1>7, <1>8, HeldIsEnv, LedNowhere DEF Kept

LEMMA MovesHold == ASSUME Ordering, MoveInv, [Next]_vars PROVE MoveInv'
<1> SUFFICES ASSUME Ordering, Machine, Untouched, pc \in {"order", "run"},
                    pc = "order" => Kept(Held, Wanted),
                    pc = "run" => code \in Seq(Move) /\ Arrives,
                    [Next]_vars
             PROVE  MoveInv'
  BY DEF MoveInv
<1>1. CASE fstep
  <2>1. UNCHANGED <<moves, pc, code, reg, stack>> /\ pc = "order"
    BY <1>1 DEF fstep, Skip, Start, Push, Finish, Pop, Break, Ready, machine
  <2>2. PICK h, w : h = Held /\ w = Wanted
    OBVIOUS
  <2>3. Held' = h /\ Wanted' = w
    BY <2>1, <2>2 DEF Held, Holds, Wanted, Place
  <2>4. Kept(h, w)
    BY <2>1, <2>2
  <2>5. \E e \in Env : Led(tau', h, e) /\ Means(Waiting', e, w)
    BY <1>1, <2>4, StepKeeps
  <2>6. Kept(Held, Wanted)'
    BY <2>3, <2>5 DEF Kept
  <2> QED BY <2>1, <2>6 DEF MoveInv, Machine, Untouched
<1>2. CASE Ordered
  <2>1. /\ pc = "order" /\ pc' = "run" /\ mu = <<>> /\ sigma = <<>>
        /\ code' = Reverse(tau) /\ UNCHANGED <<moves, reg, stack>>
    BY <1>2 DEF Ordered
  <2>2. PICK e \in Env : Led(tau, Held, e) /\ Means(Waiting, e, Wanted)
    BY <2>1 DEF Kept
  <2>3. Waiting = {}
    BY <2>1 DEF Waiting, Of
  <2>4. \A x \in Var : e[x] = Wanted[x]
    BY <2>2, <2>3 DEF Means
  <2>5. tau \in Seq(Move)
    BY DEF Ordering
  <2>6. Reverse(tau) \in Seq(Move) /\ Leads(Reverse(tau), Held, e)
    BY <2>2, <2>5, LedForwards
  <2>7. Held' = Held /\ Wanted' = Wanted
    BY <2>1 DEF Held, Holds, Wanted, Place
  <2>8. Arrives'
    BY <2>1, <2>4, <2>6, <2>7 DEF Arrives, Leads
  <2> QED BY <2>1, <2>6, <2>8 DEF MoveInv, Machine, Untouched
<1>3. CASE Run
  <2>1. PICK m \in Move : RegisterMove(m) \/ StackLoad(m) \/ StackStore(m) \/ StackCopy(m)
    BY <1>3 DEF Run
  <2>2. /\ pc = "run" /\ code # <<>> /\ m = code[1] /\ code' = Tail(code)
        /\ UNCHANGED <<moves, pc>>
    BY <2>1 DEF RegisterMove, StackLoad, StackStore, StackCopy, Instruction
  <2>3. /\ Machine' /\ Held' = Apply(m, Held)
        /\ \A w \in 0 .. F - 1 : w \notin {Slot(x) : x \in Var} => stack'[w] = stack[w]
    BY <2>1, InstructionMoves
  <2>4. PICK e \in Env : Leads(code, Held, e) /\ \A x \in Var : e[x] = Wanted[x]
    BY <2>2 DEF Arrives
  <2>5. Tail(code) \in Seq(Move) /\ Leads(Tail(code), Apply(m, Held), e)
    BY <2>2, <2>4, LeadsOneLess
  <2>6. Wanted' = Wanted
    BY <2>2 DEF Wanted, Place
  <2>7. Arrives'
    BY <2>2, <2>3, <2>4, <2>5, <2>6 DEF Arrives, Leads
  <2>8. Untouched'
    BY <2>3 DEF Untouched
  <2> QED BY <2>2, <2>3, <2>5, <2>7, <2>8 DEF MoveInv
<1>4. CASE UNCHANGED vars
  <2>1. Held' = Held /\ Wanted' = Wanted /\ Waiting' = Waiting
    BY <1>4 DEF vars, Held, Holds, Wanted, Place, Waiting, Of
  <2>2. pc = "order" => Kept(Held, Wanted)'
    BY <1>4, <2>1 DEF vars, Kept, Led, Means
  <2>3. pc = "run" => Arrives'
    BY <1>4, <2>1 DEF vars, Arrives, Leads
  <2> QED BY <1>4, <2>2, <2>3 DEF vars, MoveInv, Machine, Untouched
<1> QED BY <1>1, <1>2, <1>3, <1>4 DEF Next, Done

LEMMA MovesInv == Spec => []MoveInv
<1>1. Init => MoveInv
  <2> SUFFICES ASSUME Init PROVE MoveInv
    OBVIOUS
  <2>1. Machine /\ Untouched /\ pc = "order"
    BY DEF Init, Machine, Value, Untouched
  <2> QED BY <2>1, FirstWanted DEF MoveInv
<1>2. Ordering /\ MoveInv /\ [Next]_vars => MoveInv'
  BY MovesHold
<1> QED BY <1>1, <1>2, OrderingHolds, PTL DEF Spec

(* When the instructions have run, every variable holds what the variable it
   was to be moved from held before, and the rest of the frame is untouched:
   for every number of registers, slots and variables and every parallel move.
   The state says that the environment the machine holds leads, through the
   moves still to be executed, to the one that is wanted. *)
THEOREM MovesAtOnce == Spec => []MovedAtOnce
<1>1. MoveInv => MovedAtOnce
  <2> SUFFICES ASSUME MoveInv, pc = "run", code = <<>> PROVE
        /\ \A x \in Var : Holds(x) = Place(parsem(moves, Names)[x])
        /\ \A w \in DOMAIN stack : w \notin {Slot(x) : x \in Var} => stack[w] = <<"slot", w>>
    BY DEF MovedAtOnce
  <2>1. PICK e \in Env : Leads(code, Held, e) /\ \A x \in Var : e[x] = Wanted[x]
    BY DEF MoveInv, Arrives
  <2>2. e = Held
    BY <2>1 DEF Leads
  <2>3. \A x \in Var : x \in Places /\ x # NONE
    BY DEF Var, NONE, Places
  <2>4. \A x \in Var : Held[x] = Holds(x) /\ Wanted[x] = Place(parsem(moves, Names)[x])
    BY <2>3 DEF Held, Wanted
  <2>5. DOMAIN stack = 0 .. F - 1 /\ Untouched
    BY DEF MoveInv, Machine
  <2> QED BY <2>1, <2>2, <2>4, <2>5 DEF Untouched
<1> QED BY <1>1, MovesInv, PTL

------------------------------------------------------------------------------
(***************************************************************************)
(* seqsem is a fold: a recursion over the sets of positions of a list that *)
(* takes the greatest away.  What it is for a set of positions is where    *)
(* the moves at these lead, the others left out.                           *)
(***************************************************************************)
LessOnNat == {xy \in Nat \X Nat : xy[1] < xy[2]}

LEMMA Least ==
  ASSUME NEW S \in SUBSET Nat, S # {}
  PROVE  \E x \in S : \A y \in S : x <= y
<1>1. OpToRel(<, Nat) = LessOnNat
  BY DEF OpToRel, LessOnNat
<1>2. IsWellFoundedOn(LessOnNat, Nat)
  BY <1>1, NatLessThanWellFounded
<1>3. PICK x \in S : \A y \in S : ~ (<<y, x>> \in LessOnNat)
  BY <1>2, WFMin
<1>4. ASSUME NEW y \in S PROVE x <= y
  <2>1. <<y, x>> \notin LessOnNat /\ x \in Nat /\ y \in Nat
    BY <1>3
  <2>2. ~(y < x)
    BY <2>1 DEF LessOnNat
  <2> QED BY <2>1, <2>2
<1> QED BY <1>4

\* What holds of 0 and of k + 1 if it does of k has no least exception.
LEMMA UpTo ==
  ASSUME NEW n \in Nat, NEW Good, 0 \in Good,
         \A k \in 0 .. n : k + 1 \in 0 .. n /\ k \in Good => k + 1 \in Good
  PROVE  \A k \in 0 .. n : k \in Good
<1> SUFFICES ASSUME {k \in 0 .. n : k \notin Good} # {} PROVE FALSE
  OBVIOUS
<1>1. PICK Bad : Bad = {k \in 0 .. n : k \notin Good}
  OBVIOUS
<1>2. Bad \in SUBSET Nat /\ Bad # {}
  BY <1>1
<1>3. PICK k \in Bad : \A l \in Bad : k <= l
  BY <1>2, Least
<1>4. k \in 0 .. n /\ k \notin Good /\ k # 0
  BY <1>1
<1>5. k - 1 \in 0 .. n /\ (k - 1) + 1 = k /\ ~(k <= k - 1)
  BY <1>4
<1>6. k - 1 \in Good
  BY <1>1, <1>3, <1>5
<1> QED BY <1>4, <1>5, <1>6

LEMMA GreatestOf ==
  ASSUME NEW n \in Nat, NEW D \in SUBSET (1 .. n), D # {}
  PROVE  Max(D) \in D /\ \A y \in D : y <= Max(D)
<1>1. PICK B : B = {k \in 0 .. n : \A y \in D : y <= k}
  OBVIOUS
<1>2. n \in B /\ B \in SUBSET Nat
  BY <1>1
<1>3. PICK x \in B : \A k \in B : x <= k
  BY <1>2, Least
<1>4. x \in 0 .. n /\ \A y \in D : y <= x
  BY <1>1
<1>5. x \in D
  <2> SUFFICES ASSUME x \notin D PROVE FALSE
    OBVIOUS
  <2>1. \A y \in D : y <= x - 1
    BY <1>4
  <2>2. PICK y \in D : y <= x - 1 /\ y \in 1 .. n
    BY <2>1
  <2>3. x - 1 \in 0 .. n /\ ~(x <= x - 1)
    BY <1>4, <2>2
  <2> QED BY <1>1, <1>3, <2>1, <2>3
<1>6. \A y \in D : x >= y
  BY <1>4
<1>7. \A z \in D : (\A y \in D : z >= y) => z = x
  BY <1>5, <1>6
<1>8. Max(D) = x
  BY <1>5, <1>6, <1>7 DEF Max
<1> QED BY <1>4, <1>5, <1>8

\* Through the moves of c at D, from a.
Made(c, D, a, h) ==
  /\ h \in [0 .. Len(c) -> Env] /\ h[0] = a
  /\ \A i \in 1 .. Len(c) : h[i] = IF i \in D THEN Apply(c[i], h[i - 1]) ELSE h[i - 1]

LEMMA SomeMade ==
  ASSUME NEW c \in Seq(Move), NEW D, NEW a \in Env
  PROVE  \E h : Made(c, D, a, h)
<1>1. PICK n \in Nat : n = Len(c) /\ \A i \in 1 .. n : c[i] \in Move
  BY LenProperties, ElementOfSeq
<1> DEFINE Through(k, h) ==
             /\ h \in [0 .. k -> Env] /\ h[0] = a
             /\ \A i \in 1 .. k : h[i] = IF i \in D THEN Apply(c[i], h[i - 1]) ELSE h[i - 1]
<1>2. PICK Good : Good = {k \in Nat : \E h : Through(k, h)}
  OBVIOUS
<1>3. 0 \in Good
  <2>1. Through(0, [i \in 0 .. 0 |-> a])
    OBVIOUS
  <2> QED BY <1>2, <2>1
<1>4. ASSUME NEW k \in 0 .. n, k + 1 \in 0 .. n, k \in Good PROVE k + 1 \in Good
  <2>1. PICK h : Through(k, h)
    BY <1>2, <1>4
  <2>2. k \in Nat /\ k \in 0 .. k /\ k + 1 \in 1 .. n /\ h[k] \in Env
    BY <1>4, <2>1
  <2>3. PICK e \in Env : e = IF k + 1 \in D THEN Apply(c[k + 1], h[k]) ELSE h[k]
    BY <1>1, <2>2, ApplyFacts
  <2>4. PICK g : g = [i \in 0 .. k + 1 |-> IF i = k + 1 THEN e ELSE h[i]]
    OBVIOUS
  <2>5. /\ k + 1 \in 0 .. k + 1 /\ 0 \in 0 .. k + 1 /\ 0 \in 0 .. k /\ 0 # k + 1
        /\ \A i \in 0 .. k + 1 : i # k + 1 => i \in 0 .. k
        /\ \A i \in 0 .. k : i \in 0 .. k + 1 /\ i # k + 1
    BY <2>2
  <2>6. g[k + 1] = e /\ (\A i \in 0 .. k : g[i] = h[i]) /\ g \in [0 .. k + 1 -> Env] /\ g[0] = a
    BY <2>1, <2>4, <2>5
  <2>7. ASSUME NEW i \in 1 .. k + 1
        PROVE  g[i] = IF i \in D THEN Apply(c[i], g[i - 1]) ELSE g[i - 1]
    <3>1. CASE i = k + 1
      <4>1. i - 1 = k
        BY <2>2, <3>1
      <4> QED BY <2>2, <2>3, <2>6, <3>1, <4>1
    <3>2. CASE i # k + 1
      <4>1. i \in 1 .. k /\ i \in 0 .. k /\ i - 1 \in 0 .. k
        BY <2>2, <3>2
      <4> QED BY <2>1, <2>6, <4>1
    <3> QED BY <3>1, <3>2
  <2>8. Through(k + 1, g)
    BY <2>6, <2>7
  <2> QED BY <1>2, <2>2, <2>8
<1>5. \A k \in 0 .. n : k \in Good
  BY <1>3, <1>4, UpTo
<1>6. n \in 0 .. n
  OBVIOUS
<1> QED BY <1>1, <1>2, <1>5, <1>6 DEF Made

\* Up to where they make the same moves, two are the same.
LEMMA MadeSame ==
  ASSUME NEW c \in Seq(Move), NEW D, NEW E, NEW a, NEW h, NEW g,
         Made(c, D, a, h), Made(c, E, a, g),
         NEW k \in 0 .. Len(c), \A i \in 1 .. k : i \in D <=> i \in E
  PROVE  h[k] = g[k]
<1>1. PICK n \in Nat : n = Len(c)
  BY LenProperties
<1>2. PICK Good : Good = {i \in 0 .. k : h[i] = g[i]}
  OBVIOUS
<1>3. k \in Nat /\ k <= n /\ k \in 0 .. k /\ 0 \in 0 .. k
  BY <1>1
<1>4. 0 \in Good
  BY <1>2, <1>3 DEF Made
<1>5. ASSUME NEW i \in 0 .. k, i + 1 \in 0 .. k, i \in Good PROVE i + 1 \in Good
  <2>1. i + 1 \in 1 .. n /\ i + 1 \in 1 .. k /\ (i + 1) - 1 = i
    BY <1>3, <1>5
  <2>2. h[i + 1] = IF i + 1 \in D THEN Apply(c[i + 1], h[i]) ELSE h[i]
    BY <1>1, <2>1 DEF Made
  <2>3. g[i + 1] = IF i + 1 \in E THEN Apply(c[i + 1], g[i]) ELSE g[i]
    BY <1>1, <2>1 DEF Made
  <2>4. i + 1 \in D <=> i + 1 \in E
    BY <2>1
  <2> QED BY <1>2, <1>5, <2>2, <2>3, <2>4
<1>6. k \in Good
  BY <1>3, <1>4, <1>5, UpTo
<1> QED BY <1>2, <1>6

\* After the last move it makes, one stays as it is.
LEMMA MadeRests ==
  ASSUME NEW c \in Seq(Move), NEW D, NEW a, NEW h, Made(c, D, a, h),
         NEW k \in 0 .. Len(c), \A i \in D : i <= k
  PROVE  h[Len(c)] = h[k]
<1>1. PICK n \in Nat : n = Len(c)
  BY LenProperties
<1>2. PICK Good : Good = {i \in 0 .. n : k <= i => h[i] = h[k]}
  OBVIOUS
<1>3. k \in 0 .. n /\ k \in Nat /\ 0 \in 0 .. n /\ n \in 0 .. n /\ k <= n /\ (k <= 0 => k = 0)
  BY <1>1
<1>4. 0 \in Good
  BY <1>2, <1>3
<1>5. ASSUME NEW i \in 0 .. n, i + 1 \in 0 .. n, i \in Good PROVE i + 1 \in Good
  <2>1. i \in Nat /\ i + 1 \in 1 .. n /\ (i + 1) - 1 = i
    BY <1>5
  <2>2. CASE k <= i
    <3>1. i + 1 \notin D
      BY <1>3, <2>1, <2>2
    <3>2. h[i + 1] = h[i]
      BY <1>1, <2>1, <3>1 DEF Made
    <3> QED BY <1>2, <1>5, <2>2, <3>2
  <2>3. CASE ~(k <= i)
    <3>1. k <= i + 1 => k = i + 1
      BY <1>3, <2>1, <2>3
    <3> QED BY <1>2, <1>5, <3>1
  <2> QED BY <2>2, <2>3
<1>6. n \in Good
  BY <1>3, <1>4, <1>5, UpTo
<1> QED BY <1>1, <1>2, <1>3, <1>6

Folds(c, a, G) ==
  G = [D \in SUBSET DOMAIN c |->
         IF D = {} THEN a ELSE Apply(c[Max(D)], G[D \ {Max(D)}])]

LEMMA SomeFold ==
  ASSUME NEW c \in Seq(Move), NEW a \in Env
  PROVE  \E G : Folds(c, a, G)
<1>1. PICK n \in Nat : n = Len(c) /\ DOMAIN c = 1 .. n
  BY LenProperties
<1>2. PICK H : H = [D \in SUBSET (1 .. n) |-> CHOOSE h : Made(c, D, a, h)]
  OBVIOUS
<1>3. \A D \in SUBSET (1 .. n) : Made(c, D, a, H[D])
  <2>1. ASSUME NEW D \in SUBSET (1 .. n) PROVE Made(c, D, a, H[D])
    <3>1. \E h : Made(c, D, a, h)
      BY SomeMade
    <3> QED BY <1>2, <3>1
  <2> QED BY <2>1
<1>4. PICK G : G = [D \in SUBSET (1 .. n) |-> H[D][n]]
  OBVIOUS
<1>5. n \in 0 .. n /\ 0 \in 0 .. n
  OBVIOUS
<1>6. ASSUME NEW D \in SUBSET (1 .. n), D = {} PROVE G[D] = a
  <2>1. H[D][n] = H[D][0]
    BY <1>1, <1>3, <1>5, <1>6, MadeRests
  <2> QED BY <1>3, <1>4, <2>1 DEF Made
<1>7. ASSUME NEW D \in SUBSET (1 .. n), D # {} PROVE G[D] = Apply(c[Max(D)], G[D \ {Max(D)}])
  <2>1. PICK x \in D : x = Max(D) /\ \A y \in D : y <= x
    BY <1>7, GreatestOf
  <2>2. PICK E \in SUBSET (1 .. n) : E = D \ {x}
    OBVIOUS
  <2>3. /\ x \in 1 .. n /\ x \in 0 .. n /\ x - 1 \in 0 .. n
        /\ \A y \in E : y <= x - 1
        /\ \A i \in 1 .. x - 1 : i \in D <=> i \in E
    <3>1. x \in 1 .. n /\ D \in SUBSET Int
      OBVIOUS
    <3>2. ASSUME NEW y \in E PROVE y <= x - 1
      <4>1. y \in D /\ y # x /\ y \in Int /\ y <= x
        BY <2>1, <2>2
      <4> QED BY <3>1, <4>1
    <3>3. \A i \in 1 .. x - 1 : i # x
      BY <3>1
    <3> QED BY <2>2, <3>1, <3>2, <3>3
  <2>4. H[D][n] = H[D][x]
    BY <1>1, <1>3, <2>1, <2>3, MadeRests
  <2>5. H[E][n] = H[E][x - 1]
    <3>1. PICK k : k = x - 1
      OBVIOUS
    <3>2. PICK h : h = H[E]
      OBVIOUS
    <3>3. k \in 0 .. Len(c)
      BY <1>1, <2>3, <3>1
    <3>4. \A y \in E : y <= k
      BY <2>3, <3>1
    <3>5. Made(c, E, a, h)
      BY <1>3, <3>2
    <3>6. h[Len(c)] = h[k]
      BY <3>3, <3>4, <3>5, MadeRests
    <3> QED BY <1>1, <3>1, <3>2, <3>6
  <2>6. H[D][x - 1] = H[E][x - 1]
    BY <1>1, <1>3, <2>3, MadeSame
  <2>7. H[D][x] = Apply(c[x], H[D][x - 1])
    BY <1>1, <1>3, <2>3 DEF Made
  <2> QED BY <1>4, <2>1, <2>2, <2>4, <2>5, <2>6, <2>7
<1>8. G = [D \in SUBSET (1 .. n) |-> IF D = {} THEN a ELSE Apply(c[Max(D)], G[D \ {Max(D)}])]
  BY <1>4, <1>6, <1>7
<1> QED BY <1>1, <1>8 DEF Folds

\* Where a list leads is what it means, one move after the other.
LEMMA SeqsemIs ==
  ASSUME NEW c \in Seq(Move), NEW a \in Env, NEW b, Leads(c, a, b)
  PROVE  seqsem(c, a) = b
<1>1. PICK n \in Nat : n = Len(c) /\ DOMAIN c = 1 .. n
  BY LenProperties
<1>2. PICK h \in [0 .. n -> Env] :
        h[0] = a /\ h[n] = b /\ \A i \in 1 .. n : h[i] = Apply(c[i], h[i - 1])
  BY <1>1 DEF Leads
<1>3. PICK G : Folds(c, a, G) /\ seqsem(c, a) = G[1 .. n]
  <2>1. PICK G : G = CHOOSE I : I = [D \in SUBSET DOMAIN c |->
           IF D = {} THEN a ELSE Apply(c[Max(D)], I[D \ {Max(D)}])]
    OBVIOUS
  <2>2. Folds(c, a, G)
    BY <2>1, SomeFold DEF Folds
  <2>3. seqsem(c, a) = G[DOMAIN c]
    BY <2>1 DEF seqsem, FoldLeft, MapThenFoldSet, Apply
  <2> QED BY <1>1, <2>2, <2>3
<1>4. \A D \in SUBSET (1 .. n) :
        G[D] = IF D = {} THEN a ELSE Apply(c[Max(D)], G[D \ {Max(D)}])
  BY <1>1, <1>3 DEF Folds
<1>5. PICK Good : Good = {k \in 0 .. n : G[1 .. k] = h[k]}
  OBVIOUS
<1>6. 0 \in Good
  <2>1. 1 .. 0 = {} /\ 0 \in 0 .. n /\ {} \in SUBSET (1 .. n)
    OBVIOUS
  <2> QED BY <1>2, <1>4, <1>5, <2>1
<1>7. ASSUME NEW k \in 0 .. n, k + 1 \in 0 .. n, k \in Good PROVE k + 1 \in Good
  <2>1. PICK D \in SUBSET (1 .. n) : D = 1 .. k + 1
    BY <1>7
  <2>2. k + 1 \in D /\ k + 1 \in 1 .. n /\ D \ {k + 1} = 1 .. k /\ (k + 1) - 1 = k
    BY <1>7, <2>1
  <2>3. Max(D) = k + 1
    <3>1. Max(D) \in D /\ k + 1 <= Max(D)
      BY <2>2, GreatestOf
    <3> QED BY <2>1, <3>1
  <2>4. G[D] = Apply(c[k + 1], G[1 .. k])
    BY <1>4, <2>2, <2>3
  <2>5. h[k + 1] = Apply(c[k + 1], h[k])
    BY <1>2, <2>2
  <2> QED BY <1>5, <1>7, <2>1, <2>4, <2>5
<1>8. n \in Good
  <2>1. n \in 0 .. n
    OBVIOUS
  <2> QED BY <1>6, <1>7, <2>1, UpTo
<1> QED BY <1>2, <1>3, <1>5, <1>8

(* Every step of the ordering keeps the meaning of the parallel move: what the
   processed moves do one after the other, and then the others at once, is what
   all of them were to do at once, whatever the moves and however many.  From
   where the processed moves lead from the names, the others still mean it. *)
THEOREM MeaningIsKept == Spec => []MeaningKept
<1> DEFINE Meant == Kept(Names, parsem(moves, Names))
<1>1. Init => Meant
  <2> SUFFICES ASSUME Init PROVE Meant
    OBVIOUS
  <2>1. tau = <<>>
    BY DEF Init
  <2> QED BY <2>1, FirstMeans, NamesAreEnv, LedNowhere DEF Kept
<1>2. Ordering /\ Meant /\ [Next]_vars => Meant'
  <2> SUFFICES ASSUME Ordering, Meant, [Next]_vars PROVE Meant'
    OBVIOUS
  <2>1. PICK w : w = parsem(moves, Names)
    OBVIOUS
  <2>2. moves' = moves
    BY DEF Next, fstep, Skip, Start, Push, Finish, Pop, Break, Ordered, Run, Instruction,
           RegisterMove, StackLoad, StackStore, StackCopy, Done, vars
  <2>3. parsem(moves, Names)' = w
    BY <2>1, <2>2 DEF parsem, Names
  <2>4. CASE fstep
    <3>1. \E e \in Env : Led(tau', Names, e) /\ Means(Waiting', e, w)
      BY <2>1, <2>4, StepKeeps
    <3> QED BY <2>3, <3>1 DEF Kept, Names
  <2>5. CASE UNCHANGED <<moves, mu, sigma, tau>>
    <3>1. Waiting' = Waiting /\ tau' = tau
      BY <2>5 DEF Waiting, Of
    <3> QED BY <2>1, <2>3, <3>1 DEF Kept, Names
  <2> QED BY <2>4, <2>5, OtherSteps
<1>3. Ordering /\ Meant => MeaningKept
  <2> SUFFICES ASSUME Ordering, Meant, NEW x \in Var PROVE sem[x] = parsem(moves, Names)[x]
    BY DEF MeaningKept
  <2>1. PICK w : w = parsem(moves, Names)
    OBVIOUS
  <2>2. PICK e \in Env : Led(tau, Names, e) /\ Means(Waiting, e, w)
    BY <2>1 DEF Kept
  <2>3. tau \in Seq(Move) /\ mu \in Seq(Move) /\ sigma \in Seq(Move)
    BY DEF Ordering, IInv, Lists
  <2>4. seqsem(Reverse(tau), Names) = e
    BY <2>2, <2>3, LedForwards, SeqsemIs, NamesAreEnv
  <2>5. PICK ms \in Seq(Move) : ms = mu \o sigma
    BY <2>3, ConcatProperties
  <2>6. {ms[j] : j \in DOMAIN ms} = Waiting
    <3>1. /\ Len(ms) = Len(mu) + Len(sigma) /\ Len(mu) \in Nat /\ Len(sigma) \in Nat
          /\ DOMAIN ms = 1 .. Len(ms)
          /\ \A j \in 1 .. Len(ms) :
               ms[j] = IF j <= Len(mu) THEN mu[j] ELSE sigma[j - Len(mu)]
      BY <2>3, <2>5, ConcatProperties, LenProperties
    <3>2. ASSUME NEW j \in DOMAIN ms PROVE ms[j] \in Waiting
      <4>1. CASE j <= Len(mu)
        <5>1. j \in 1 .. Len(mu) /\ ms[j] = mu[j]
          BY <3>1, <4>1
        <5> QED BY <5>1 DEF Waiting, Of
      <4>2. CASE ~(j <= Len(mu))
        <5>1. j - Len(mu) \in 1 .. Len(sigma) /\ ms[j] = sigma[j - Len(mu)]
          BY <3>1, <4>2
        <5> QED BY <5>1 DEF Waiting, Of
      <4> QED BY <4>1, <4>2
    <3>3. ASSUME NEW j \in 1 .. Len(mu) PROVE \E k \in DOMAIN ms : ms[k] = mu[j]
      <4>1. j \in 1 .. Len(ms) /\ j <= Len(mu)
        BY <3>1
      <4> QED BY <3>1, <4>1
    <3>4. ASSUME NEW j \in 1 .. Len(sigma) PROVE \E k \in DOMAIN ms : ms[k] = sigma[j]
      <4>1. Len(mu) + j \in 1 .. Len(ms) /\ ~(Len(mu) + j <= Len(mu)) /\ (Len(mu) + j) - Len(mu) = j
        BY <3>1
      <4> QED BY <3>1, <4>1
    <3> QED BY <3>2, <3>3, <3>4 DEF Waiting, Of
  <2>7. x \in DOMAIN e
    BY DEF Env, Places
  <2>8. sem[x] = IF \E j \in DOMAIN ms : ms[j].d = x
                 THEN e[ms[CHOOSE j \in DOMAIN ms : ms[j].d = x].s] ELSE e[x]
    BY <2>4, <2>5, <2>7 DEF sem, parsem
  <2>9. CASE \E j \in DOMAIN ms : ms[j].d = x
    <3>1. PICK j \in DOMAIN ms : j = (CHOOSE k \in DOMAIN ms : ms[k].d = x) /\ ms[j].d = x
      BY <2>9
    <3>2. ms[j] \in Waiting
      BY <2>6
    <3>3. e[ms[j].s] = w[x]
      BY <2>2, <3>1, <3>2 DEF Means
    <3> QED BY <2>1, <2>8, <2>9, <3>1, <3>3
  <2>10. CASE ~\E j \in DOMAIN ms : ms[j].d = x
    <3>1. \A m \in Waiting : m.d # x
      BY <2>6, <2>10
    <3>2. e[x] = w[x]
      BY <2>2, <3>1 DEF Means
    <3> QED BY <2>1, <2>8, <2>10, <3>2
  <2> QED BY <2>9, <2>10
<1> HIDE DEF Meant
<1> QED BY <1>1, <1>2, <1>3, OrderingHolds, PTL DEF Spec
=============================================================================
