-------------------------------- MODULE ParMove -------------------------------
(***************************************************************************)
(* Parallel moves: how the compiler orders the moves of a Move instruction *)
(* (parmove), turns each into an instruction on registers or the stack     *)
(* frame (wMove of word_to_stack), and what these instructions do.         *)
(*                                                                         *)
(* parmove's state is three lists of moves: to process, being processed    *)
(* and processed (latest first).  A move being processed waits for the one *)
(* in front of it, which reads its destination; when the first of them     *)
(* would overwrite what the last one reads, that is saved in a temporary.  *)
(***************************************************************************)
EXTENDS Integers, SequencesExt

CONSTANTS
  K,      \* registers for variables; K and K+1 are scratch registers
  F,      \* words in the stack frame
  V,      \* variables: the first K in registers, the others in the frame
  Moves   \* the lists of moves to compile

NONE == -1                      \* the temporary
Var == 0 .. V - 1
Move == [d : Var \cup {NONE}, s : Var \cup {NONE}]

\* The destinations of a parallel move are distinct (evaluate of Move).
Windmill(ms) == \A i, j \in DOMAIN ms : ms[i].d = ms[j].d => i = j

ASSUME PlaceAssumption == K \in Nat /\ V \in Nat /\ F \in Nat /\ V <= K + F
ASSUME MovesAssumption ==
  \A ms \in Moves : ms \in Seq([d : Var, s : Var]) /\ Windmill(ms)

VARIABLES
  moves,            \* the list being compiled
  mu, sigma, tau,   \* parmove's state
  pc,               \* "order", then "run"
  code,             \* the moves still to be executed, in order
  reg, stack        \* the machine

vars == <<moves, mu, sigma, tau, pc, code, reg, stack>>
machine == <<code, reg, stack>>

Slot(x) == F - 1 - (x - K)
InRegister(x) == x < K

\* Each place starts with a value of its own.
Init ==
  /\ moves \in Moves
  /\ mu = moves /\ sigma = <<>> /\ tau = <<>>
  /\ pc = "order" /\ code = <<>>
  /\ reg = [r \in 0 .. K + 1 |-> <<"register", r>>]
  /\ stack = [w \in 0 .. F - 1 |-> <<"slot", w>>]

(***************************************************************************)
(* fstep, one action for each of its results.                              *)
(***************************************************************************)
NoRead(ms, x) == \A j \in DOMAIN ms : ms[j].s # x
Without(ms, j) == SubSeq(ms, 1, j - 1) \o SubSeq(ms, j + 1, Len(ms))
Readers(x) == {j \in DOMAIN mu : mu[j].s = x}

Skip ==
  /\ pc = "order" /\ sigma = <<>> /\ mu # <<>>
  /\ mu[1].d = mu[1].s
  /\ mu' = Tail(mu)
  /\ UNCHANGED <<moves, sigma, tau, pc, machine>>

Start ==
  /\ pc = "order" /\ sigma = <<>> /\ mu # <<>>
  /\ mu[1].d # mu[1].s
  /\ mu' = Tail(mu) /\ sigma' = <<mu[1]>>
  /\ UNCHANGED <<moves, tau, pc, machine>>

\* Mutant: the move is not taken off the list.
PushKeep ==
  /\ pc = "order" /\ sigma # <<>>
  /\ \E j \in Readers(sigma[1].d) :
       /\ \A k \in Readers(sigma[1].d) : j <= k
       /\ sigma' = <<mu[j]>> \o sigma
  /\ UNCHANGED <<moves, mu, tau, pc, machine>>

\* The first move that reads what the first of sigma will overwrite goes first.
Push ==
  /\ pc = "order" /\ sigma # <<>>
  /\ \E j \in Readers(sigma[1].d) :
       /\ \A k \in Readers(sigma[1].d) : j <= k
       /\ mu' = Without(mu, j)
       /\ sigma' = <<mu[j]>> \o sigma
  /\ UNCHANGED <<moves, tau, pc, machine>>

\* Nobody but the last of sigma may still read what the first one overwrites.
Ready == pc = "order" /\ sigma # <<>> /\ NoRead(mu, sigma[1].d)

Finish ==
  /\ Ready /\ Len(sigma) = 1
  /\ sigma' = <<>> /\ tau' = sigma \o tau
  /\ UNCHANGED <<moves, mu, pc, machine>>

Closes == Last(sigma).s = sigma[1].d

\* Mutant: a cycle is not noticed.
PopAlways ==
  /\ Ready /\ Len(sigma) > 1
  /\ sigma' = Tail(sigma) /\ tau' = <<sigma[1]>> \o tau
  /\ UNCHANGED <<moves, mu, pc, machine>>

Pop ==
  /\ Ready /\ Len(sigma) > 1 /\ ~Closes
  /\ sigma' = Tail(sigma) /\ tau' = <<sigma[1]>> \o tau
  /\ UNCHANGED <<moves, mu, pc, machine>>

\* The moves but the first, with the last reading the temporary.
Cut(ms) == Append(Front(Tail(ms)), [Last(ms) EXCEPT !.s = NONE])

\* Mutant: the value is saved after it is overwritten.
BreakLate ==
  /\ Ready /\ Len(sigma) > 1 /\ Closes
  /\ sigma' = Cut(sigma)
  /\ tau' = <<[d |-> NONE, s |-> sigma[1].d], sigma[1]>> \o tau
  /\ UNCHANGED <<moves, mu, pc, machine>>

\* The cycle is cut: the last move will read the temporary.
Break ==
  /\ Ready /\ Len(sigma) > 1 /\ Closes
  /\ sigma' = Cut(sigma)
  /\ tau' = <<sigma[1], [d |-> NONE, s |-> sigma[1].d]>> \o tau
  /\ UNCHANGED <<moves, mu, pc, machine>>

fstep == Skip \/ Start \/ Push \/ Finish \/ Pop \/ Break

\* parmove returns the processed moves in the order they were processed.
Ordered ==
  /\ pc = "order" /\ mu = <<>> /\ sigma = <<>>
  /\ pc' = "run" /\ code' = Reverse(tau)
  /\ UNCHANGED <<moves, mu, sigma, tau, reg, stack>>

(***************************************************************************)
(* The instructions: format_var says where a variable is, and wMoveSingle  *)
(* chooses between a register move, a load, a store, and a load and a      *)
(* store through register K.                                               *)
(***************************************************************************)
\* Mutant: the temporary is the register that slots are copied through.
format_var_clash(x) == IF x = NONE THEN K ELSE x
format_var(x) == IF x = NONE THEN K + 1 ELSE x

OnStack(x) == x # NONE /\ ~InRegister(x)

Instruction(m) ==
  /\ pc = "run" /\ code # <<>> /\ m = code[1] /\ code' = Tail(code)
  /\ UNCHANGED <<moves, mu, sigma, tau, pc>>

RegisterMove(m) ==
  /\ Instruction(m) /\ ~OnStack(m.d) /\ ~OnStack(m.s)
  /\ reg' = [reg EXCEPT ![format_var(m.d)] = reg[format_var(m.s)]]
  /\ UNCHANGED stack

StackLoad(m) ==
  /\ Instruction(m) /\ ~OnStack(m.d) /\ OnStack(m.s)
  /\ reg' = [reg EXCEPT ![format_var(m.d)] = stack[Slot(m.s)]]
  /\ UNCHANGED stack

StackStore(m) ==
  /\ Instruction(m) /\ OnStack(m.d) /\ ~OnStack(m.s)
  /\ stack' = [stack EXCEPT ![Slot(m.d)] = reg[format_var(m.s)]]
  /\ UNCHANGED reg

StackCopy(m) ==
  /\ Instruction(m) /\ OnStack(m.d) /\ OnStack(m.s)
  /\ reg' = [reg EXCEPT ![K] = stack[Slot(m.s)]]
  /\ stack' = [stack EXCEPT ![Slot(m.d)] = reg'[K]]

Run ==
  \E m \in Move : RegisterMove(m) \/ StackLoad(m) \/ StackStore(m) \/ StackCopy(m)

Done == pc = "run" /\ code = <<>> /\ UNCHANGED vars

Next == fstep \/ Ordered \/ Run \/ Done
Spec == Init /\ [][Next]_vars

------------------------------------------------------------------------------
(***************************************************************************)
(* What a list of moves means, done at once (parsem) and one after the     *)
(* other (seqsem), for variables that hold their own names.                *)
(***************************************************************************)
parsem(ms, env) ==
  [x \in DOMAIN env |->
     IF \E j \in DOMAIN ms : ms[j].d = x
     THEN env[ms[CHOOSE j \in DOMAIN ms : ms[j].d = x].s] ELSE env[x]]
seqsem(ms, env) == FoldLeft(LAMBDA e, m : [e EXCEPT ![m.d] = e[m.s]], env, ms)

Names == [x \in Var \cup {NONE} |-> x]
sem == parsem(mu \o sigma, seqsem(Reverse(tau), Names))

\* One type invariant: which moves may use the temporary (wf).  The
\* destinations still to be written are distinct variables, sigma is a path,
\* and only its last move may read the temporary.
WellFormed ==
  /\ Windmill(mu \o sigma)
  /\ \A j \in DOMAIN mu : mu[j].d # NONE /\ mu[j].s # NONE
  /\ \A j \in DOMAIN sigma : sigma[j].d # NONE
  /\ \A j \in DOMAIN sigma : j < Len(sigma) =>
       sigma[j].s # NONE /\ sigma[j].s = sigma[j + 1].d

\* Every step of the ordering keeps the meaning of the parallel move, whatever
\* has been processed so far: it is the same for all variables (step_sem).
MeaningKept == \A x \in Var : sem[x] = parsem(moves, Names)[x]

\* The moves the functional algorithm makes are moves of the nondeterministic
\* algorithm it is proved correct by; cutting a cycle is two of them
\* (fstep_dstep, dstep_step).
Steps(st) ==
  LET m == st[1]  s == st[2]  t == st[3]
  IN  {<<Without(m, j), s, t>> : j \in {k \in DOMAIN m : m[k].d = m[k].s}}
      \cup {<<Without(m, j), <<m[j]>>, t>> : j \in {k \in DOMAIN m : s = <<>>}}
      \cup {<<Without(m, j), <<m[j]>> \o s, t>> :
              j \in {k \in DOMAIN m : s # <<>> /\ m[k].s = s[1].d}}
      \cup {<<m, Append(Front(s), [l EXCEPT !.s = NONE]), <<[d |-> NONE, s |-> l.s]>> \o t>> :
              l \in {s[k] : k \in {k \in DOMAIN s : k = Len(s)}}}
      \cup {<<m, Tail(s), <<f>> \o t>> :
              f \in {s[k] : k \in {k \in DOMAIN s : k = 1 /\ NoRead(m, s[1].d)
                                                  /\ (Len(s) > 1 => s[1].d # Last(s).s)}}}
ImplementsSteps ==
  [][pc' = pc /\ pc = "order" =>
       LET st == <<mu, sigma, tau>>
       IN  \/ st' \in Steps(st)
           \/ \E mid \in Steps(st) : st' \in Steps(mid)]_<<mu, sigma, tau>>

\* The measure that makes pmov terminate goes down with every step.
Measure == 2 * Len(mu) + Len(sigma)
Shrinks == [][pc = "order" /\ pc' = "order" => Measure' < Measure]_vars

\* When the instructions have run, every variable holds what the variable it
\* was to be moved from held before, and nothing else in the frame has changed.
Place(x) == IF InRegister(x) THEN <<"register", x>> ELSE <<"slot", Slot(x)>>
Holds(x) == IF InRegister(x) THEN reg[x] ELSE stack[Slot(x)]
MovedAtOnce ==
  pc = "run" /\ code = <<>> =>
    /\ \A x \in Var : Holds(x) = Place(parsem(moves, Names)[x])
    /\ \A w \in DOMAIN stack :
         w \notin {Slot(x) : x \in Var} => stack[w] = <<"slot", w>>
=============================================================================
