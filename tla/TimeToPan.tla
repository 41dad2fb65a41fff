------------------------------ MODULE TimeToPan ------------------------------
(***************************************************************************)
(* A timed automaton as the Pancake program that time_to_panScript.sml     *)
(* makes of it, on the clock of the runtime.  The program polls the clock  *)
(* until an input or the exact time of its next wake-up, then calls the    *)
(* function of its location.  A clock is kept as the time of its last      *)
(* reset, and all arithmetic is that of machine words.                     *)
(*                                                                         *)
(* The repository's proofs assume of the environment that an input comes   *)
(* with no time passed since the reading before (input_time_rel), and none *)
(* at the first reading (init_ffi) or in the last two instants a word can  *)
(* count (action_rel).                                                     *)
(***************************************************************************)
EXTENDS Integers, Sequences

CONSTANTS
  W,          \* dimword
  Start,      \* time when the program starts: 400 in the C file
  Inputs,     \* signals the environment may report; the C file reports none
  Clocks,     \* clksOf prog
  Programs    \* automata

Words == 0 .. W - 1
Atoms == [clock : {TRUE}, of : Clocks] \cup [clock : {FALSE}, of : Words]
Exprs == [1 .. 1 -> Atoms] \cup [1 .. 2 -> Atoms]
Conds == [left : Exprs, right : Exprs, strict : BOOLEAN]
TermsOver(locs) ==
  [io : ({"input"} \X (0 .. W - 2)) \cup ({"output"} \X Words), cnds : SUBSET Conds,
   clks : SUBSET Clocks, dest : locs, wt : SUBSET [time : Words, clock : Clocks]]

ASSUME TimedAssumption ==
  /\ W \in Nat /\ W > 4
  /\ Start \in Nat /\ Start < 4 * (W - 4)
  /\ Inputs \subseteq 0 .. W - 2
  /\ \A p \in Programs :
       /\ p.init \in DOMAIN p.locs
       /\ p.wait \in Words \cup {-1}
       /\ \A l \in DOMAIN p.locs : p.locs[l] \in Seq(TermsOver(DOMAIN p.locs))

VARIABLES
  prog,
  time,                  \* of the C file, a quarter of a tick
  loc, waitSet, event, isInput, wakeUpAt, sysTime, clks,  \* locals of start_controller
  pc,                    \* "start", "wait", "call", "returned" or "panic"
  label                  \* what the environment has seen last

locals == <<loc, waitSet, event, isInput, wakeUpAt, sysTime, clks>>
vars == <<prog, time, locals, pc, label>>

Sub(x, y) == IF y <= x THEN x - y ELSE W + x - y
Add(x, y) == IF x + y < W THEN x + y ELSE x + y - W

NoLabel == <<"none", 0>>
DelayLabel == <<"delay", 1>>

Init ==
  /\ prog \in Programs
  /\ time = Start
  /\ loc = prog.init
  /\ waitSet = (IF prog.wait = -1 THEN 1 ELSE 0)   \* active low, as isInput
  /\ event = 0 /\ isInput = 1 /\ wakeUpAt = 0 /\ sysTime = 0
  /\ clks = [c \in Clocks |-> 0]
  /\ pc = "start" /\ label = NoLabel

\* A reading that takes more than a tick.
get_time_input_late(input) ==
  /\ time' = time + 5
  /\ sysTime' = time' \div 4
  /\ event' = input
  /\ input # 0 => sysTime' = time \div 4 /\ sysTime' < W - 2

\* An input n is reported as n + 1.
get_time_input(input) ==
  /\ time' = time + 1
  /\ sysTime' = time' \div 4
  /\ event' = input
  /\ input # 0 => sysTime' = time \div 4 /\ sysTime' < W - 2

Reported == IF pc = "start" THEN {} ELSE Inputs

\* The program ends when time does.  A delay is seen between two readings.
check_input_time(next) ==
  \E input \in {0} \cup {i + 1 : i \in Reported} :
    /\ get_time_input(input)
    /\ isInput' = (IF input = 0 THEN 1 ELSE 0)
    /\ pc' = (IF sysTime' = W - 1 THEN "returned" ELSE next)
    /\ label' = (IF pc = "start" \/ sysTime' = sysTime THEN label ELSE DelayLabel)

start_controller ==
  /\ pc = "start"
  /\ check_input_time("wait")
  /\ clks' = [c \in Clocks |-> sysTime']
  /\ wakeUpAt' = (IF prog.wait = -1 THEN sysTime' ELSE Add(sysTime', prog.wait))
  /\ UNCHANGED <<prog, loc, waitSet>>

wait == isInput = 1 /\ (waitSet = 1 \/ sysTime # wakeUpAt)

wait_input_time_limit ==
  /\ pc = "wait" /\ wait
  /\ check_input_time("wait")
  /\ UNCHANGED <<prog, loc, waitSet, wakeUpAt, clks>>

\* An instant before the last, the controller looks at the clock once more.
CheckAgain ==
  /\ pc = "wait" /\ ~wait /\ sysTime = W - 2
  /\ check_input_time("call")
  /\ UNCHANGED <<prog, loc, waitSet, wakeUpAt, clks>>

Value(cs, atom) == IF atom.clock THEN cs[atom.of] ELSE atom.of
compExp(cs, e) == IF Len(e) = 1 THEN Value(cs, e[1]) ELSE Sub(Value(cs, e[1]), Value(cs, e[2]))
compCondition(cs, cnd) ==
  LET l == compExp(cs, cnd.left)
      r == compExp(cs, cnd.right)
  IN  l < r \/ (~cnd.strict /\ l = r)

compAction(io) == IF io[1] = "output" THEN 0 ELSE io[2] + 1

\* The clocks as the function of a location gets them.
normalisedClks == [c \in Clocks |-> Sub(sysTime, clks[c])]

Least(S, x) == x \in S /\ \A y \in S : x <= y

\* compTerms: the terms whose test succeeds, of which the first is taken.
pick_term(cs) ==
  {k \in DOMAIN prog.locs[loc] :
     /\ \A cnd \in prog.locs[loc][k].cnds : compCondition(cs, cnd)
     /\ event = compAction(prog.locs[loc][k].io)}

resetTermClocks(cs, tm) == [c \in Clocks |-> IF c \in tm.clks THEN 0 ELSE cs[c]]

\* minExp: the least of the times left, or 0 when there is none.
minExp(new, tm, wake) ==
  IF tm.wt = {} THEN wake = 0 ELSE Least({Sub(w.time, new[w.clock]) : w \in tm.wt}, wake)

\* compTerm: the wait counted from the clocks before they are reset.
compTermOldClocks(tm) ==
  LET new == resetTermClocks(normalisedClks, tm)
  IN  /\ \E wake \in Words : /\ minExp(normalisedClks, tm, wake)
                             /\ wakeUpAt' = Add(sysTime, wake)
      /\ waitSet' = (IF tm.wt = {} THEN 1 ELSE 0)
      /\ clks' = [c \in Clocks |-> Sub(sysTime, new[c])]
      /\ loc' = tm.dest
      /\ label' = tm.io

\* What the function of a location returns, and what the controller makes of it.
compTerm(tm) ==
  LET new == resetTermClocks(normalisedClks, tm)
  IN  /\ \E wake \in Words : /\ minExp(new, tm, wake)
                             /\ wakeUpAt' = Add(sysTime, wake)
      /\ waitSet' = (IF tm.wt = {} THEN 1 ELSE 0)
      /\ clks' = [c \in Clocks |-> Sub(sysTime, new[c])]
      /\ loc' = tm.dest
      /\ label' = tm.io

AtCall == pc = "call" \/ (pc = "wait" /\ ~wait /\ sysTime # W - 2)

task_controller ==
  /\ AtCall
  /\ \E k \in DOMAIN prog.locs[loc] :
       /\ Least(pick_term(normalisedClks), k)
       /\ compTerm(prog.locs[loc][k])
  /\ isInput' = 1 /\ event' = 0 /\ pc' = "wait"
  /\ UNCHANGED <<prog, time, sysTime>>

\* No term: the exception that ta_controller turns into 1.
RaisePanic ==
  /\ AtCall
  /\ pick_term(normalisedClks) = {}
  /\ pc' = "panic"
  /\ label' = <<"panic", event - 1>>
  /\ UNCHANGED <<prog, time, locals>>

Next ==
  \/ start_controller \/ wait_input_time_limit \/ CheckAgain
  \/ task_controller \/ RaisePanic
Spec == Init /\ [][Next]_vars /\ WF_vars(Next)

------------------------------------------------------------------------------
\* How long the program still has before its wake-up.
TimeLeft == Sub(wakeUpAt, sysTime)

\* The test for the wake-up is an equality: the program never waits past it,
\* which would leave it asleep until the clock comes round.
NeverMissed ==
  [][(pc = "wait" /\ wait /\ waitSet = 0) => TimeLeft' <= TimeLeft]_vars

\* A program that has to wake up while time can still be counted leaves its
\* loop for the function of its location, and does not poll until time ends.
WakesUp ==
  (pc = "wait" /\ waitSet = 0 /\ sysTime <= wakeUpAt /\ wakeUpAt < W - 2) ~> AtCall

\* The clock, the clocks and the wait of the automaton.  Before the first
\* reading the time is the one it will give.
Now == IF pc = "start" THEN (time + 1) \div 4 ELSE sysTime
ClocksNow == IF pc = "start" THEN clks ELSE normalisedClks
WaitNow ==
  CASE pc = "start" -> prog.wait
    [] pc # "start" /\ (pc = "panic" \/ waitSet = 1) -> -1
    [] OTHER -> TimeLeft

\* The compiled program is a run of the automaton: every delay, input, output
\* and panic is one the semantics allows, wherever it says anything.  As in
\* the repository's theorem, that is for times below the last word.
Automaton == INSTANCE TimeSem WITH
  m <- W - 1, now <- Now, clocks <- ClocksNow, location <- loc, waitTime <- WaitNow
ImplementsTimeSem == Automaton!Spec
=============================================================================
