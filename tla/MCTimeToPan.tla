----------------------------- MODULE MCTimeToPan -----------------------------
(***************************************************************************)
(* The three automata of src/pancake/ta_progs, with clocks x and y, and    *)
(* three more: one whose waits the semantics always accepts, one that      *)
(* compares differences of clocks and has a choice of waits and of terms,  *)
(* and one that never waits once time is nearly over.                      *)
(***************************************************************************)
EXTENDS TimeToPan

Lit(n) == <<[clock |-> FALSE, of |-> n]>>
Clk(c) == <<[clock |-> TRUE, of |-> c]>>
Le(l, r) == [left |-> l, right |-> r, strict |-> FALSE]
Lt(l, r) == [left |-> l, right |-> r, strict |-> TRUE]
Eq(l, r) == {Le(l, r), Le(r, l)}
Tm(io, cnds, reset, dest, wt) ==
  [io |-> io, cnds |-> cnds, clks |-> reset, dest |-> dest, wt |-> wt]
In(i) == <<"input", i>>
Out(i) == <<"output", i>>
Until(t, c) == {[time |-> t, clock |-> c]}
X == Clk("x")
Y == Clk("y")
True == Le(Lit(0), Lit(1))

OnAtOne == Eq(X, Lit(1)) \cup {Le(X, Lit(2))}
OffAtTwo == Eq(X, Lit(2)) \cup {True}

flashing_led ==
  [locs |-> [l \in 0 .. 1 |->
     IF l = 0 THEN <<Tm(Out(1), OnAtOne, {}, 1, Until(2, "x"))>>
     ELSE <<Tm(Out(0), OffAtTwo, {"x"}, 0, Until(1, "x"))>>],
   init |-> 0, wait |-> -1]

Button(first, pushed, reset, again, held, initial) ==
  [locs |-> [l \in 0 .. 3 |->
     CASE l = 0 -> <<Tm(Out(1), OnAtOne, {}, 2, Until(2, "x")),
                     Tm(In(0), first, reset, 1, pushed)>>
       [] l = 1 -> <<Tm(In(1), {True}, {"x"}, 0, Until(1, "x"))>>
       [] l = 2 -> <<Tm(Out(0), OffAtTwo, {"x"}, 0, Until(1, "x")),
                     Tm(In(0), {Le(X, Lit(2))}, reset, 3, Until(2, "x"))>>
       [] l = 3 -> <<Tm(In(1), {Le(X, Lit(2))}, {}, 2, Until(2, "x")),
                     Tm(Out(2), Eq(X, Lit(2)) \cup again, {}, 1, held)>>],
   init |-> 0, wait |-> initial]

flashing_led_with_button == Button({}, {}, {}, {}, {}, 10)
flashing_led_with_invariant ==
  Button({Lt(Lit(0), Lit(5))}, Until(5, "y"), {"y"}, {Lt(Y, Lit(5))}, Until(5, "y"), 1)

\* Each output resets one clock and waits on the other.
Alternating ==
  [locs |-> [l \in 0 .. 1 |->
     IF l = 0 THEN <<Tm(Out(1), Eq(X, Lit(1)), {"x"}, 1, Until(2, "y"))>>
     ELSE <<Tm(Out(0), Eq(X, Lit(1)), {"y"}, 0, Until(2, "x")),
            Tm(In(1), {Lt(X, Lit(1))}, {}, 1, Until(2, "y"))>>],
   init |-> 0, wait |-> 1]

\* Two waits, differences of clocks, and terms only the order of which decides.
Racing ==
  [locs |-> [l \in 0 .. 1 |->
     IF l = 0 THEN <<Tm(In(0), {Lt(X, Lit(2))}, {"y"}, 1, Until(4, "x") \cup Until(3, "y")),
                     Tm(In(0), {}, {"x"}, 1, Until(7, "y")),
                     Tm(Out(0), {}, {"x", "y"}, 0, Until(4, "x"))>>
     ELSE <<Tm(Out(1), {Le(X \o Y, Lit(1))}, {}, 0, Until(12, "x")),
            Tm(Out(2), {}, {"x"}, 0, Until(15, "y") \cup Until(3, "x"))>>],
   init |-> 0, wait |-> 5]

\* Outputs without a wait between them, up to the end of time.
Hurried ==
  [locs |-> [l \in 0 .. 1 |->
     IF l = 0 THEN <<Tm(Out(1), {}, {"y"}, 1, Until(0, "y"))>>
     ELSE <<Tm(Out(2), {}, {"y"}, 1, Until(0, "y"))>>],
   init |-> 0, wait |-> 27]

MCPrograms == {Hurried, flashing_led, flashing_led_with_button, flashing_led_with_invariant,
               Alternating, Racing}
=============================================================================
