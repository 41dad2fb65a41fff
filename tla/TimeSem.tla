------------------------------- MODULE TimeSem -------------------------------
(***************************************************************************)
(* The meaning of a timed automaton (timeLang): eval_step of               *)
(* timeFunSemScript.sml.  Time is a natural number, clocks grow together,  *)
(* a location may have to be left after a time, and every step has a       *)
(* label.  eval_step is a partial function: where it has no value the      *)
(* semantics promises nothing, and here any successor with a label of that *)
(* kind is allowed.  The last instant it looks at is m - 2.                *)
(***************************************************************************)
EXTENDS Integers, Sequences

CONSTANT m    \* times, clocks and waits are below it

VARIABLES
  prog,       \* [locs |-> [locations -> sequences of terms], init, wait |-> first wait]
  now,        \* n
  clocks, location, waitTime,
  label       \* of the last step: <<what, signal>>

vars == <<prog, now, clocks, location, waitTime, label>>

None == -1
NoLabel == <<"none", 0>>
DelayLabel == <<"delay", 1>>

Value(cs, atom) == IF atom.clock THEN cs[atom.of] ELSE atom.of

\* An expression is one atom, or the difference (ESub) of two.
evalExpr(cs, e) ==
  CASE Len(e) = 1 -> Value(cs, e[1])
    [] Len(e) = 2 /\ Value(cs, e[2]) <= Value(cs, e[1]) -> Value(cs, e[1]) - Value(cs, e[2])
    [] OTHER -> None

evalCond(cs, cnd) ==
  LET l == evalExpr(cs, cnd.left)
      r == evalExpr(cs, cnd.right)
  IN  l # None /\ r # None /\ IF cnd.strict THEN l < r ELSE l <= r

resetClocks(cs, tm) == [c \in DOMAIN cs |-> IF c \in tm.clks THEN 0 ELSE cs[c]]

Least(S, x) == x \in S /\ \A y \in S : x <= y

\* What is left of each wait after the reset, and the shortest of them.
Remaining(cs, tm) == {w.time - resetClocks(cs, tm)[w.clock] : w \in tm.wt}
calculate_wtime(cs, tm, t) ==
  IF tm.wt = {} THEN t = None ELSE Least(Remaining(cs, tm), t)

\* evalTerm compares the waits with the clocks as they were before the reset.
WaitsAhead(cs, tm) == \A w \in tm.wt : cs[w.clock] <= w.time

\* A wait that is over (THE NONE in the source) is within no bound.
machine_bounds(cs, tms) ==
  /\ \A c \in DOMAIN cs : cs[c] < m
  /\ \A k \in DOMAIN tms :
       /\ \A cnd \in tms[k].cnds : \A e \in {cnd.left, cnd.right} : evalExpr(cs, e) \in 0 .. m - 1
       /\ Remaining(cs, tms[k]) \subseteq 0 .. m - 1
       /\ \A w \in tms[k].wt : w.time < m
       /\ tms[k].io[1] = "input" => tms[k].io[2] + 1 < m

Terms == prog.locs[location]

\* The terms an input or, when the wait is over, an output may use.
Matching(kind, i) ==
  {k \in DOMAIN Terms : /\ Terms[k].io[1] = kind
                        /\ kind = "input" => Terms[k].io[2] = i
                        /\ \A cnd \in Terms[k].cnds : evalCond(clocks, cnd)}

eval_term(tm) ==
  /\ label' = tm.io
  /\ WaitsAhead(clocks, tm) => /\ clocks' = resetClocks(clocks, tm)
                               /\ location' = tm.dest
                               /\ calculate_wtime(clocks, tm, waitTime')
                               /\ UNCHANGED <<prog, now>>

\* pick_eval_input_term and pick_eval_output_term: the first term that
\* matches, or a panic, after which a program is not looked at again.
pick_eval_term(kind, i) ==
  IF machine_bounds(clocks, Terms)
  THEN \/ \E k \in DOMAIN Terms : Least(Matching(kind, i), k) /\ eval_term(Terms[k])
       \/ /\ Matching(kind, i) = {}
          /\ label' = <<"panic", i>>
          /\ waitTime' = None
          /\ UNCHANGED <<prog, now, clocks, location>>
  ELSE label' # DelayLabel

eval_input(i) == waitTime # 0 /\ pick_eval_term("input", i)

eval_output == waitTime = 0 /\ pick_eval_term("output", None)

eval_delay ==
  /\ waitTime # 0
  /\ label' = DelayLabel
  /\ (now + 1 < m /\ \A c \in DOMAIN clocks : clocks[c] + now + 1 < m) =>
       /\ now' = now + 1
       /\ clocks' = [c \in DOMAIN clocks |-> clocks[c] + 1]
       /\ waitTime' = (IF waitTime = None THEN None ELSE waitTime - 1)
       /\ UNCHANGED <<prog, location>>

\* eval_steps stops when time has all but run out: what comes then is no
\* step of the automaton.
TimeOver == m - 1 <= now /\ now <= now' /\ UNCHANGED prog

Init ==
  /\ clocks = [c \in DOMAIN clocks |-> 0]
  /\ location = prog.init /\ waitTime = prog.wait
  /\ label = NoLabel

Next == TimeOver \/ eval_delay \/ (\E i \in 0 .. m - 1 : eval_input(i)) \/ eval_output
Spec == Init /\ [][Next]_vars
=============================================================================
