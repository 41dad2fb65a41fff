--------------------------- MODULE TimeToPanProofs ---------------------------
(* A wait of a compiled timed automaton is never overrun, for every word
   size, automaton, set of inputs and time to start at. *)
EXTENDS TimeToPan, TLAPS

(* What the proof rests on: while the controller runs, its idea of the time
   is the runtime's and has not reached the last instant, and the time to wake
   up at is a word. *)
InTime == sysTime = time \div 4 /\ sysTime \in 0 .. W - 2 /\ wakeUpAt \in Words
IInv ==
  /\ prog \in Programs
  /\ time \in Nat
  /\ pc \in {"start", "wait", "call", "returned", "panic"}
  /\ pc = "start" => time < 4 * (W - 4)
  /\ pc \in {"wait", "call"} => InTime

(* A reading of the clock takes a quarter of an instant. *)
LEMMA Quarter ==
  ASSUME NEW t \in Nat
  PROVE  /\ t \div 4 \in Nat /\ (t + 1) \div 4 \in Nat
         /\ (t + 1) \div 4 = t \div 4 \/ (t + 1) \div 4 = t \div 4 + 1
         /\ t < 4 * (W - 4) /\ W \in Nat => (t + 1) \div 4 < W - 3
  OBVIOUS

(* Where one instant more leads. *)
LEMMA OneInstant ==
  ASSUME NEW w \in Nat, NEW s \in 0 .. w - 2, NEW t, t = s \/ t = s + 1
  PROVE  t # w - 1 => t \in 0 .. w - 2
  OBVIOUS

LEMMA Early ==
  ASSUME NEW w \in Nat, NEW s \in Nat, s < w - 3
  PROVE  s # w - 1 /\ s \in 0 .. w - 2 /\ s \in 0 .. w - 1
  OBVIOUS

(* Of two instants that are not the time to wake up, the later is closer. *)
LEMMA Closer ==
  ASSUME NEW s \in 0 .. W - 2, NEW wake \in 0 .. W - 1, s # wake, NEW t, t = s \/ t = s + 1
  PROVE  Sub(wake, t) <= Sub(wake, s)
<1>1. W \in Nat
  BY TimedAssumption
<1> QED BY <1>1 DEF Sub

LEMMA AddIsWord ==
  ASSUME NEW x \in Words, NEW y \in Words
  PROVE  Add(x, y) \in Words
  BY TimedAssumption DEF Add, Words

(* What looking at the clock changes. *)
LEMMA Reading ==
  ASSUME NEW next, time \in Nat, check_input_time(next)
  PROVE  /\ time' = time + 1 /\ sysTime' = time' \div 4
         /\ time' \in Nat /\ sysTime' \in Nat
         /\ sysTime' = time \div 4 \/ sysTime' = time \div 4 + 1
         /\ pc' = IF sysTime' = W - 1 THEN "returned" ELSE next
<1>1. time' = time + 1 /\ sysTime' = time' \div 4
  BY DEF check_input_time, get_time_input
<1>2. pc' = IF sysTime' = W - 1 THEN "returned" ELSE next
  BY DEF check_input_time
<1> QED BY <1>1, <1>2, Quarter

LEMMA InitIInv == Init => IInv
  BY TimedAssumption DEF Init, IInv

(* The first reading sets the time to wake up. *)
LEMMA StartStep == IInv /\ start_controller => IInv' /\ pc' = "wait"
<1> SUFFICES ASSUME IInv, start_controller PROVE IInv' /\ pc' = "wait"
  OBVIOUS
<1>1. time \in Nat /\ time < 4 * (W - 4) /\ pc = "start" /\ W \in Nat /\ W > 4 /\ prog \in Programs
  BY TimedAssumption DEF IInv, start_controller
<1>2. check_input_time("wait")
  BY DEF start_controller
<1>3. sysTime' < W - 3 /\ sysTime' \in Nat /\ sysTime' = time' \div 4 /\ time' \in Nat
  BY <1>1, <1>2, Reading, Quarter
<1>a. sysTime' # W - 1 /\ sysTime' \in 0 .. W - 2 /\ sysTime' \in 0 .. W - 1
  BY <1>1, <1>3, Early
<1>b. pc' = IF sysTime' = W - 1 THEN "returned" ELSE "wait"
  BY <1>1, <1>2, Reading
<1>4. pc' = "wait"
  BY <1>a, <1>b
<1>5. prog.wait \in Words \cup {-1}
  BY <1>1, TimedAssumption
<1>6. sysTime' \in Words
  BY <1>a DEF Words
<1>7. wakeUpAt' \in Words
  <2>1. CASE prog.wait = -1
    BY <1>6, <2>1 DEF start_controller
  <2>2. CASE prog.wait # -1
    BY <1>5, <1>6, <2>2, AddIsWord DEF start_controller
  <2> QED BY <2>1, <2>2
<1>8. prog' = prog
  BY DEF start_controller
<1> QED BY <1>1, <1>3, <1>a, <1>4, <1>7, <1>8 DEF IInv, InTime

(* A further reading moves the time by at most an instant. *)
LEMMA PollStep ==
  ASSUME IInv, pc = "wait", NEW next \in {"wait", "call"}, check_input_time(next),
         UNCHANGED <<prog, wakeUpAt>>
  PROVE  /\ IInv'
         /\ sysTime' \in {sysTime, sysTime + 1}
<1>1. /\ time \in Nat /\ sysTime = time \div 4 /\ sysTime \in 0 .. W - 2 /\ wakeUpAt \in Words
      /\ W \in Nat /\ W > 4 /\ prog \in Programs
  BY TimedAssumption DEF IInv, InTime
<1>2. sysTime' \in {sysTime, sysTime + 1} /\ sysTime' = time' \div 4 /\ time' \in Nat
  BY <1>1, Reading
<1>3. pc' = IF sysTime' = W - 1 THEN "returned" ELSE next
  BY <1>1, Reading
<1>4. sysTime' # W - 1 => sysTime' \in 0 .. W - 2
  BY <1>1, <1>2, OneInstant
<1>5. wakeUpAt' \in Words /\ prog' \in Programs
  BY <1>1
<1> QED BY <1>2, <1>3, <1>4, <1>5 DEF IInv, InTime

(* A location's function sets the next time to wake up at. *)
LEMMA CallStep == IInv /\ task_controller => IInv'
<1> SUFFICES ASSUME IInv, task_controller PROVE IInv'
  OBVIOUS
<1>1. InTime /\ time \in Nat /\ prog \in Programs
  BY DEF IInv, task_controller, AtCall
<1>2. sysTime \in Words
  BY <1>1, TimedAssumption DEF InTime, Words
<1>3. wakeUpAt' \in Words
  <2>1. PICK k \in DOMAIN prog.locs[loc] : compTerm(prog.locs[loc][k])
    BY DEF task_controller
  <2>2. \E wake \in Words : wakeUpAt' = Add(sysTime, wake)
    BY <2>1 DEF compTerm
  <2> QED BY <1>2, <2>2, AddIsWord
<1>4. pc' = "wait" /\ prog' = prog /\ time' = time /\ sysTime' = sysTime
  BY DEF task_controller
<1> QED BY <1>1, <1>3, <1>4 DEF IInv, InTime

LEMMA NextIInv == IInv /\ [Next]_vars => IInv'
<1> SUFFICES ASSUME IInv, [Next]_vars PROVE IInv'
  OBVIOUS
<1>1. CASE start_controller
  BY <1>1, StartStep
<1>2. CASE wait_input_time_limit
  BY <1>2, PollStep DEF wait_input_time_limit
<1>3. CASE CheckAgain
  BY <1>3, PollStep DEF CheckAgain
<1>4. CASE task_controller
  BY <1>4, CallStep
<1>5. CASE RaisePanic
  <2>1. pc' = "panic" /\ prog' = prog /\ time' = time
    BY <1>5 DEF RaisePanic
  <2> QED BY <2>1 DEF IInv
<1>6. CASE UNCHANGED vars
  BY <1>6 DEF vars, locals, IInv, InTime
<1> QED BY <1>1, <1>2, <1>3, <1>4, <1>5, <1>6 DEF Next

(* While the program waits for a time, each step brings it closer or leaves
   it where it is: the equality it tests for cannot be jumped over. *)
LEMMA WaitStep ==
  ASSUME IInv, [Next]_vars, pc = "wait", wait, waitSet = 0
  PROVE  TimeLeft' <= TimeLeft
<1>1. /\ sysTime \in 0 .. W - 2 /\ wakeUpAt \in 0 .. W - 1 /\ W \in Nat /\ W > 4
      /\ sysTime # wakeUpAt
  BY TimedAssumption DEF IInv, InTime, Words, wait
<1>2. CASE wait_input_time_limit
  <2>1. sysTime' \in {sysTime, sysTime + 1} /\ wakeUpAt' = wakeUpAt
    BY <1>2, PollStep DEF wait_input_time_limit
  <2> QED BY <1>1, <2>1, Closer DEF TimeLeft
<1>3. CASE UNCHANGED vars
  BY <1>1, <1>3 DEF vars, locals, TimeLeft, Sub
<1>4. ~start_controller /\ ~CheckAgain /\ ~AtCall
  BY DEF start_controller, CheckAgain, AtCall
<1> QED BY <1>2, <1>3, <1>4 DEF Next, task_controller, RaisePanic

(* No reading of the clock takes a program that waits past its wake-up: it
   would sleep until the clock comes round. *)
THEOREM NotOverrun == Spec => NeverMissed
<1>1. Init => IInv
  BY InitIInv
<1>2. IInv /\ [Next]_vars => IInv'
  BY NextIInv
<1>3. IInv /\ [Next]_vars =>
        [(pc = "wait" /\ wait /\ waitSet = 0) => TimeLeft' <= TimeLeft]_vars
  BY WaitStep
<1> QED BY <1>1, <1>2, <1>3, PTL DEF Spec, NeverMissed

------------------------------------------------------------------------------
(* The compiled program is a run of the automaton.  Besides IInv, that rests on
   the types of the controller's locals, on what an input is, and on an input
   being read only while the automaton is not due to leave its location. *)
Asleep == waitSet = 1 \/ sysTime # wakeUpAt
Heard ==
  \/ isInput = 1 /\ event = 0
  \/ isInput = 0 /\ Asleep /\ \E i \in Inputs : event = i + 1
SInv ==
  /\ loc \in DOMAIN prog.locs
  /\ waitSet \in {0, 1}
  /\ pc = "start" => /\ waitSet = (IF prog.wait = -1 THEN 1 ELSE 0)
                     /\ clks = [c \in Clocks |-> 0]
                     /\ isInput = 1
  /\ pc \in {"wait", "call"} => clks \in [Clocks -> Words]
  /\ pc = "wait" => Heard
  /\ pc = "call" => sysTime = W - 2
RInv == IInv /\ SInv

(* Arithmetic of words: a difference undoes a sum and itself, and grows with
   what is taken from as long as it does not wrap. *)
LEMMA SubIsWord ==
  ASSUME NEW x \in Words, NEW y \in Words
  PROVE  Sub(x, y) \in Words
  BY TimedAssumption DEF Sub, Words

LEMMA SubSub ==
  ASSUME NEW x \in Words, NEW y \in Words
  PROVE  Sub(x, Sub(x, y)) = y
  BY TimedAssumption DEF Sub, Words

LEMMA SubAdd ==
  ASSUME NEW x \in Words, NEW y \in Words
  PROVE  Sub(Add(x, y), x) = y
  BY TimedAssumption DEF Sub, Add, Words

LEMMA SubZero ==
  ASSUME NEW x \in Words, NEW y \in Words
  PROVE  Sub(x, y) = 0 <=> x = y
  BY TimedAssumption DEF Sub, Words

LEMMA Older ==
  ASSUME NEW s \in Words, NEW c \in Words, s + 1 < W - 1, Sub(s, c) + s + 1 < W - 1
  PROVE  Sub(s + 1, c) = Sub(s, c) + 1
  BY TimedAssumption DEF Sub, Words

LEMMA Nearer ==
  ASSUME NEW s \in Words, NEW wake \in Words, s + 1 < W - 1, wake # s
  PROVE  Sub(wake, s + 1) = Sub(wake, s) - 1
  BY TimedAssumption DEF Sub, Words

(* What a term of a location is made of. *)
LEMMA TermTypes ==
  ASSUME RInv, NEW k \in DOMAIN prog.locs[loc]
  PROVE  /\ prog.locs[loc][k] \in TermsOver(DOMAIN prog.locs)
         /\ prog.locs[loc][k].cnds \subseteq Conds
         /\ prog.locs[loc][k].wt \subseteq [time : Words, clock : Clocks]
         /\ prog.locs[loc][k].clks \subseteq Clocks
         /\ prog.locs[loc][k].dest \in DOMAIN prog.locs
         /\ prog.locs[loc][k].io \in ({"input"} \X (0 .. W - 2)) \cup ({"output"} \X Words)
<1>1. prog.locs[loc] \in Seq(TermsOver(DOMAIN prog.locs))
  BY TimedAssumption DEF RInv, IInv, SInv
<1>2. prog.locs[loc][k] \in TermsOver(DOMAIN prog.locs)
  BY <1>1
<1> QED BY <1>2 DEF TermsOver

LEMMA NormalisedTypes ==
  ASSUME sysTime \in Words, clks \in [Clocks -> Words]
  PROVE  normalisedClks \in [Clocks -> Words]
  BY SubIsWord DEF normalisedClks

(* Where the semantics gives an expression a value that is a word, the
   compiled expression has it. *)
LEMMA ExprSame ==
  ASSUME NEW cs \in [Clocks -> Words], NEW e \in Exprs,
         Automaton!evalExpr(cs, e) \in 0 .. W - 1 - 1
  PROVE  compExp(cs, e) = Automaton!evalExpr(cs, e)
<1>1. -1 \notin 0 .. W - 1 - 1
  BY TimedAssumption
<1>2. \A atom : Automaton!Value(cs, atom) = Value(cs, atom)
  BY DEF Automaton!Value, Value
<1>3. CASE e \in [1 .. 1 -> Atoms]
  <2>1. Len(e) = 1
    BY <1>3
  <2> QED BY <1>2, <2>1 DEF compExp, Automaton!evalExpr
<1>4. CASE e \in [1 .. 2 -> Atoms]
  <2>1. Len(e) = 2
    BY <1>4
  <2>2. Automaton!Value(cs, e[2]) <= Automaton!Value(cs, e[1])
    BY <1>1, <2>1 DEF Automaton!evalExpr, Automaton!None
  <2> QED BY <1>2, <2>1, <2>2 DEF compExp, Automaton!evalExpr, Sub
<1> QED BY <1>3, <1>4 DEF Exprs

LEMMA CondSame ==
  ASSUME NEW cs \in [Clocks -> Words], NEW cnd \in Conds,
         \A e \in {cnd.left, cnd.right} : Automaton!evalExpr(cs, e) \in 0 .. W - 1 - 1
  PROVE  compCondition(cs, cnd) <=> Automaton!evalCond(cs, cnd)
<1>1. cnd.left \in Exprs /\ cnd.right \in Exprs /\ cnd.strict \in BOOLEAN
  BY DEF Conds
<1>2. /\ compExp(cs, cnd.left) = Automaton!evalExpr(cs, cnd.left)
      /\ compExp(cs, cnd.right) = Automaton!evalExpr(cs, cnd.right)
  BY <1>1, ExprSame
<1> DEFINE l == Automaton!evalExpr(cs, cnd.left)
           r == Automaton!evalExpr(cs, cnd.right)
<1>3. l \in Nat /\ r \in Nat
  OBVIOUS
<1> HIDE DEF l, r
<1>4. compCondition(cs, cnd) <=> (l < r \/ (~cnd.strict /\ l = r))
  BY <1>2 DEF compCondition, l, r
<1>5. Automaton!evalCond(cs, cnd) <=> (IF cnd.strict THEN l < r ELSE l <= r)
  BY <1>3 DEF Automaton!evalCond, Automaton!None, l, r
<1> QED BY <1>1, <1>3, <1>4, <1>5

(* The invariant of the second proof. *)
LEMMA InitSInv == Init => SInv
  BY TimedAssumption DEF Init, SInv

LEMMA SysTimeWord == IInv /\ pc \in {"wait", "call"} => sysTime \in Words
  BY TimedAssumption DEF IInv, InTime, Words

(* What a reading of the clock says to the controller. *)
LEMMA Listening ==
  ASSUME NEW next, check_input_time(next), pc # "start" \/ isInput' = 1
  PROVE  \/ isInput' = 1 /\ event' = 0
         \/ isInput' = 0 /\ \E i \in Inputs : event' = i + 1
<1>1. PICK input \in {0} \cup {i + 1 : i \in Reported} :
        get_time_input(input) /\ isInput' = IF input = 0 THEN 1 ELSE 0
  BY DEF check_input_time
<1>2. event' = input
  BY <1>1 DEF get_time_input
<1> QED BY <1>1, <1>2 DEF Reported

(* With an input, no time has passed since the reading before. *)
LEMMA InputAtOnce ==
  ASSUME IInv, pc = "wait", NEW next, check_input_time(next), isInput' # 1
  PROVE  sysTime' = sysTime /\ sysTime' < W - 2
  BY DEF IInv, InTime, check_input_time, get_time_input

LEMMA FirstSilent ==
  ASSUME NEW next, check_input_time(next), pc = "start"
  PROVE  isInput' = 1 /\ event' = 0 /\ label' = label
  BY DEF check_input_time, get_time_input, Reported

LEMMA StartSInv == RInv /\ start_controller => SInv'
<1> SUFFICES ASSUME RInv, start_controller PROVE SInv'
  OBVIOUS
<1>1. pc = "start" /\ check_input_time("wait")
  BY DEF start_controller
<1>2. isInput' = 1 /\ event' = 0
  BY <1>1, FirstSilent
<1>3. IInv'
  BY StartStep DEF RInv
<1>4. pc' \in {"wait", "returned"}
  BY <1>1 DEF check_input_time
<1>5. pc' = "wait" => clks' \in [Clocks -> Words]
  <2> SUFFICES ASSUME pc' = "wait" PROVE clks' \in [Clocks -> Words]
    OBVIOUS
  <2>1. sysTime' \in 0 .. W - 2
    BY <1>3 DEF IInv, InTime
  <2>2. clks' = [c \in Clocks |-> sysTime']
    BY DEF start_controller
  <2>3. sysTime' \in Words
    BY <2>1, TimedAssumption DEF Words
  <2> QED BY <2>2, <2>3
<1>6. prog' = prog /\ loc' = loc /\ waitSet' = waitSet
  BY DEF start_controller
<1>7. SInv
  BY DEF RInv
<1> QED BY <1>2, <1>4, <1>5, <1>6, <1>7 DEF SInv, Heard

LEMMA PollSInv ==
  ASSUME RInv, pc = "wait", NEW next \in {"wait", "call"}, check_input_time(next),
         UNCHANGED <<prog, loc, waitSet, wakeUpAt, clks>>, next = "wait" => wait,
         next = "call" => sysTime = W - 2
  PROVE  SInv'
<1>1. SInv /\ IInv
  BY DEF RInv
<1>2. pc' \in {next, "returned"}
  BY DEF check_input_time
<1>3. next = "wait" => Heard'
  <2> SUFFICES ASSUME next = "wait" PROVE Heard'
    OBVIOUS
  <2>1. Asleep
    BY DEF wait, Asleep
  <2>2. isInput' # 1 => sysTime' = sysTime
    BY <1>1, InputAtOnce
  <2>3. isInput' # 1 => Asleep'
    BY <2>1, <2>2 DEF Asleep
  <2> QED BY <2>3, Listening DEF Heard
<1>4. clks \in [Clocks -> Words] /\ loc \in DOMAIN prog.locs /\ waitSet \in {0, 1}
  BY <1>1 DEF SInv
<1>5. pc' = "call" => sysTime' = W - 2
  <2> SUFFICES ASSUME pc' = "call" PROVE sysTime' = W - 2
    OBVIOUS
  <2>1. sysTime = W - 2
    BY <1>2
  <2>2. sysTime' \in {sysTime, sysTime + 1}
    BY <1>1, PollStep
  <2>3. sysTime' # W - 1
    BY DEF check_input_time
  <2> QED BY <2>1, <2>2, <2>3, TimedAssumption
<1> QED BY <1>2, <1>3, <1>4, <1>5 DEF SInv

LEMMA CallSInv == RInv /\ task_controller => SInv'
<1> SUFFICES ASSUME RInv, task_controller PROVE SInv'
  OBVIOUS
<1>1. pc \in {"wait", "call"} /\ SInv /\ IInv
  BY DEF RInv, task_controller, AtCall
<1>2. sysTime \in Words /\ clks \in [Clocks -> Words]
  BY <1>1, SysTimeWord DEF SInv
<1>3. PICK k \in DOMAIN prog.locs[loc] : compTerm(prog.locs[loc][k])
  BY DEF task_controller
<1> DEFINE tm == prog.locs[loc][k]
           new == resetTermClocks(normalisedClks, tm)
<1>4. tm.dest \in DOMAIN prog.locs
  BY TermTypes
<1>5. normalisedClks \in [Clocks -> Words]
  BY <1>2, NormalisedTypes
<1>6. new \in [Clocks -> Words]
  BY <1>5, TimedAssumption DEF resetTermClocks, Words
<1> HIDE DEF tm, new
<1>7. /\ clks' = [c \in Clocks |-> Sub(sysTime, new[c])] /\ loc' = tm.dest
      /\ waitSet' \in {0, 1}
  BY <1>3 DEF compTerm, tm, new
<1>8. clks' \in [Clocks -> Words]
  BY <1>2, <1>6, <1>7, SubIsWord
<1>9. isInput' = 1 /\ event' = 0 /\ pc' = "wait" /\ prog' = prog
  BY DEF task_controller
<1> QED BY <1>4, <1>7, <1>8, <1>9 DEF SInv, Heard

LEMMA NextRInv == RInv /\ [Next]_vars => RInv'
<1> SUFFICES ASSUME RInv, [Next]_vars PROVE SInv'
  BY NextIInv DEF RInv
<1>1. CASE start_controller
  BY <1>1, StartSInv
<1>2. CASE wait_input_time_limit
  BY <1>2, PollSInv DEF wait_input_time_limit
<1>3. CASE CheckAgain
  BY <1>3, PollSInv DEF CheckAgain
<1>4. CASE task_controller
  BY <1>4, CallSInv
<1>5. CASE RaisePanic
  BY <1>5 DEF RInv, SInv, RaisePanic, locals
<1>6. CASE UNCHANGED vars
  BY <1>6 DEF vars, locals, RInv, SInv, Heard, Asleep
<1> QED BY <1>1, <1>2, <1>3, <1>4, <1>5, <1>6 DEF Next

(* A term the compiled code would take is one the automaton may take, when
   what the semantics asks of its numbers holds. *)
LEMMA TermsSame ==
  ASSUME RInv, pc = "wait", NEW kind, NEW i,
         \/ kind = "output" /\ event = 0
         \/ kind = "input" /\ i \in Inputs /\ event = i + 1,
         Automaton!machine_bounds(ClocksNow, Automaton!Terms)
  PROVE  pick_term(normalisedClks) = Automaton!Matching(kind, i)
<1>1. sysTime \in Words /\ clks \in [Clocks -> Words]
  BY SysTimeWord DEF RInv, SInv
<1>2. ClocksNow = normalisedClks /\ normalisedClks \in [Clocks -> Words]
  BY <1>1, NormalisedTypes DEF ClocksNow
<1>3. Automaton!Terms = prog.locs[loc]
  BY DEF Automaton!Terms
<1> SUFFICES ASSUME NEW k \in DOMAIN prog.locs[loc]
             PROVE  k \in pick_term(normalisedClks) <=> k \in Automaton!Matching(kind, i)
  BY <1>3 DEF pick_term, Automaton!Matching
<1> DEFINE tm == prog.locs[loc][k]
<1>4. tm.cnds \subseteq Conds /\ tm.io \in ({"input"} \X (0 .. W - 2)) \cup ({"output"} \X Words)
  BY TermTypes
<1>5. \A cnd \in tm.cnds : \A e \in {cnd.left, cnd.right} :
        Automaton!evalExpr(normalisedClks, e) \in 0 .. W - 1 - 1
  BY <1>2, <1>3 DEF Automaton!machine_bounds
<1>6. \A cnd \in tm.cnds :
        compCondition(normalisedClks, cnd) <=> Automaton!evalCond(normalisedClks, cnd)
  BY <1>2, <1>4, <1>5, CondSame
<1>7. event = compAction(tm.io) <=> (tm.io[1] = kind /\ (kind = "input" => tm.io[2] = i))
  <2>1. Inputs \subseteq Nat
    BY TimedAssumption
  <2>2. CASE tm.io \in {"input"} \X (0 .. W - 2)
    <3> DEFINE signal == tm.io[2]
    <3>1. tm.io[1] = "input" /\ signal \in Nat
      BY <2>2
    <3>2. compAction(tm.io) = signal + 1
      BY <3>1 DEF compAction
    <3> HIDE DEF tm, signal
    <3>3. CASE kind = "output" /\ event = 0
      <4>1. event # signal + 1
        BY <3>1, <3>3
      <4> QED BY <3>1, <3>2, <3>3, <4>1
    <3>4. CASE kind = "input" /\ i \in Inputs /\ event = i + 1
      <4>1. event = signal + 1 <=> signal = i
        BY <2>1, <3>1, <3>4
      <4>2. tm.io[2] = signal
        BY DEF signal
      <4> QED BY <3>1, <3>2, <3>4, <4>1, <4>2
    <3> QED BY <3>3, <3>4
  <2>3. CASE tm.io \in {"output"} \X Words
    <3>1. tm.io[1] = "output" /\ compAction(tm.io) = 0
      BY <2>3 DEF compAction
    <3> HIDE DEF tm
    <3>2. CASE kind = "output" /\ event = 0
      BY <3>1, <3>2
    <3>3. CASE kind = "input" /\ i \in Inputs /\ event = i + 1
      <4>1. event # 0
        BY <2>1, <3>3
      <4> QED BY <3>1, <3>3, <4>1
    <3> QED BY <3>2, <3>3
  <2> QED BY <1>4, <2>2, <2>3
<1>8. k \in pick_term(normalisedClks) <=>
        (\A cnd \in tm.cnds : compCondition(normalisedClks, cnd)) /\ event = compAction(tm.io)
  BY DEF pick_term
<1>9. k \in Automaton!Matching(kind, i) <=>
        /\ tm.io[1] = kind /\ (kind = "input" => tm.io[2] = i)
        /\ \A cnd \in tm.cnds : Automaton!evalCond(normalisedClks, cnd)
  BY <1>2, <1>3 DEF Automaton!Matching
<1> HIDE DEF tm
<1> QED BY <1>6, <1>7, <1>8, <1>9

(* The first reading is no step of the automaton: it gives the time and the
   wait the automaton starts from. *)
LEMMA StartMaps == RInv /\ start_controller => UNCHANGED Automaton!vars
<1> SUFFICES ASSUME RInv, start_controller PROVE UNCHANGED Automaton!vars
  OBVIOUS
<1>1. pc = "start" /\ check_input_time("wait")
  BY DEF start_controller
<1>2. IInv' /\ pc' = "wait"
  BY StartStep DEF RInv
<1>3. sysTime' \in Words
  <2>1. sysTime' \in 0 .. W - 2
    BY <1>2 DEF IInv, InTime
  <2> QED BY <2>1, TimedAssumption DEF Words
<1>4. label' = label /\ prog' = prog /\ loc' = loc /\ waitSet' = waitSet
  BY <1>1, FirstSilent DEF start_controller
<1>5. Now' = Now
  BY <1>1, <1>2, Reading DEF Now, RInv, IInv
<1>6. clks = [c \in Clocks |-> 0] /\ waitSet = (IF prog.wait = -1 THEN 1 ELSE 0)
  BY <1>1 DEF RInv, SInv
<1>7. ClocksNow' = ClocksNow
  <2>1. clks' = [c \in Clocks |-> sysTime']
    BY DEF start_controller
  <2>2. Sub(sysTime', sysTime') = 0
    BY <1>3, SubZero
  <2>3. normalisedClks' = [c \in Clocks |-> 0]
    BY <2>1, <2>2 DEF normalisedClks
  <2> QED BY <1>1, <1>2, <1>6, <2>3 DEF ClocksNow
<1>8. WaitNow' = WaitNow
  <2>1. WaitNow = prog.wait
    BY <1>1 DEF WaitNow
  <2>2. CASE prog.wait = -1
    <3>1. waitSet' = 1
      BY <1>4, <1>6, <2>2
    <3> QED BY <1>2, <2>1, <2>2, <3>1 DEF WaitNow
  <2>3. CASE prog.wait # -1
    <3>1. prog.wait \in Words
      BY <2>3, TimedAssumption DEF RInv, IInv
    <3>2. waitSet' = 0 /\ wakeUpAt' = Add(sysTime', prog.wait)
      BY <1>4, <1>6, <2>3 DEF start_controller
    <3>3. TimeLeft' = prog.wait
      BY <1>3, <3>1, <3>2, SubAdd DEF TimeLeft
    <3> QED BY <1>2, <2>1, <3>2, <3>3 DEF WaitNow
  <2> QED BY <2>2, <2>3
<1> QED BY <1>4, <1>5, <1>7, <1>8 DEF Automaton!vars

(* What the automaton's variables are once the controller runs. *)
LEMMA Running ==
  ASSUME pc \in {"wait", "call", "returned"}
  PROVE  /\ Now = sysTime /\ ClocksNow = normalisedClks
         /\ waitSet = 1 => WaitNow = -1
         /\ waitSet # 1 => WaitNow = TimeLeft
  BY DEF Now, ClocksNow, WaitNow
LEMMA RunningNext ==
  ASSUME pc' \in {"wait", "call", "returned"}
  PROVE  /\ Now' = sysTime' /\ ClocksNow' = normalisedClks'
         /\ waitSet' = 1 => WaitNow' = -1
         /\ waitSet' # 1 => WaitNow' = TimeLeft'
  BY DEF Now, ClocksNow, WaitNow

(* A further reading is a delay of one instant or nothing. *)
LEMMA PollMaps ==
  ASSUME RInv, pc = "wait", NEW next \in {"wait", "call"}, check_input_time(next),
         UNCHANGED <<prog, loc, waitSet, wakeUpAt, clks>>, sysTime < W - 2 => Asleep
  PROVE  [Automaton!Next]_(Automaton!vars)
<1>1. IInv /\ SInv /\ pc' \in {"wait", "call", "returned"}
  BY DEF RInv, check_input_time
<1>2. sysTime' \in {sysTime, sysTime + 1}
  BY <1>1, PollStep
<1>3. sysTime \in Words /\ wakeUpAt \in Words /\ clks \in [Clocks -> Words] /\ waitSet \in {0, 1}
  BY <1>1, SysTimeWord DEF IInv, InTime, SInv
<1>4. /\ Now = sysTime /\ Now' = sysTime'
      /\ ClocksNow = normalisedClks /\ ClocksNow' = normalisedClks'
  BY <1>1, Running, RunningNext
<1>5. CASE sysTime' = sysTime
  <2>1. label' = label
    BY <1>5 DEF check_input_time
  <2>2. normalisedClks' = normalisedClks /\ TimeLeft' = TimeLeft
    BY <1>5 DEF normalisedClks, TimeLeft
  <2>3. WaitNow' = WaitNow
    BY <1>1, <2>2, Running, RunningNext
  <2> QED BY <1>4, <1>5, <2>1, <2>2, <2>3 DEF Automaton!vars
<1>6. CASE sysTime' = sysTime + 1 /\ W - 1 - 1 <= sysTime
  <2>1. Now <= Now'
    BY <1>3, <1>4, <1>6, TimedAssumption DEF Words
  <2> QED BY <1>4, <1>6, <2>1 DEF Automaton!Next, Automaton!TimeOver
<1>7. CASE sysTime' = sysTime + 1 /\ ~(W - 1 - 1 <= sysTime)
  <2>1. sysTime \in Nat /\ W \in Nat /\ sysTime + 1 < W - 1 /\ sysTime < W - 2 /\ sysTime' # sysTime
    BY <1>3, <1>7, TimedAssumption DEF Words
  <2>2. Asleep
    BY <2>1
  <2>3. label' = Automaton!DelayLabel
    BY <1>1, <2>1 DEF check_input_time, Automaton!DelayLabel, DelayLabel
  <2>4. WaitNow # 0
    <3>1. CASE waitSet = 1
      BY <3>1, <1>1, Running
    <3>2. CASE waitSet # 1
      <4>1. TimeLeft # 0
        BY <1>3, <2>2, <3>2, SubZero DEF Asleep, TimeLeft
      <4> QED BY <3>2, <4>1, <1>1, Running
    <3> QED BY <3>1, <3>2
  <2>5. WaitNow' = (IF WaitNow = Automaton!None THEN Automaton!None ELSE WaitNow - 1)
    <3>1. CASE waitSet = 1
      BY <3>1, <1>1, Running, RunningNext DEF Automaton!None
    <3>2. CASE waitSet # 1
      <4>1. TimeLeft' = TimeLeft - 1
        BY <1>3, <1>7, <2>1, <2>2, <3>2, Nearer DEF Asleep, TimeLeft
      <4>2. TimeLeft # -1
        BY <1>3, SubIsWord, TimedAssumption DEF TimeLeft, Words
      <4> QED BY <3>2, <4>1, <4>2, <1>1, Running, RunningNext DEF Automaton!None
    <3> QED BY <3>1, <3>2
  <2>6. ASSUME \A c \in DOMAIN ClocksNow : ClocksNow[c] + Now + 1 < W - 1
        PROVE  ClocksNow' = [c \in DOMAIN ClocksNow |-> ClocksNow[c] + 1]
    <3>1. ASSUME NEW c \in Clocks
          PROVE  Sub(sysTime', clks[c]) = Sub(sysTime, clks[c]) + 1
      <4>1. Sub(sysTime, clks[c]) + sysTime + 1 < W - 1
        BY <1>4, <2>6 DEF normalisedClks
      <4> QED BY <1>3, <1>7, <2>1, <4>1, Older
    <3>2. normalisedClks' = [c \in Clocks |-> Sub(sysTime', clks[c])]
      BY DEF normalisedClks
    <3> QED BY <1>4, <3>1, <3>2 DEF normalisedClks
  <2>7. Now' = Now + 1
    BY <1>4, <1>7
  <2> QED BY <2>3, <2>4, <2>5, <2>6, <2>7 DEF Automaton!Next, Automaton!eval_delay
<1> QED BY <1>2, <1>5, <1>6, <1>7

(* The wait counted by the compiled term is the one the semantics calculates,
   as long as no wait is over. *)
LEMMA WaitsSame ==
  ASSUME NEW cs \in [Clocks -> Words], NEW tm,
         tm.wt \subseteq [time : Words, clock : Clocks],
         Automaton!Remaining(cs, tm) \subseteq 0 .. W - 1 - 1
  PROVE  Automaton!Remaining(cs, tm) =
           {Sub(w.time, resetTermClocks(cs, tm)[w.clock]) : w \in tm.wt}
<1> DEFINE new == resetTermClocks(cs, tm)
<1>1. Automaton!resetClocks(cs, tm) = new
  BY DEF Automaton!resetClocks, resetTermClocks
<1>2. new \in [Clocks -> Words]
  BY TimedAssumption DEF resetTermClocks, Words
<1> HIDE DEF new
<1>3. Automaton!Remaining(cs, tm) = {w.time - new[w.clock] : w \in tm.wt}
  BY <1>1 DEF Automaton!Remaining
<1>4. ASSUME NEW w \in tm.wt
      PROVE  Sub(w.time, new[w.clock]) = w.time - new[w.clock]
  <2>1. w.time \in Words /\ new[w.clock] \in Words
    BY <1>2
  <2>2. w.time - new[w.clock] \in 0 .. W - 1 - 1
    BY <1>3
  <2> QED BY <2>1, <2>2, TimedAssumption DEF Sub, Words
<1>5. Automaton!Remaining(cs, tm) = {Sub(w.time, new[w.clock]) : w \in tm.wt}
  BY <1>3, <1>4
<1> QED BY <1>5 DEF new

(* What a location's function does with its term is what the semantics does. *)
LEMMA TermMaps ==
  ASSUME RInv, pc = "wait", task_controller,
         Automaton!machine_bounds(ClocksNow, Automaton!Terms),
         NEW k \in DOMAIN prog.locs[loc], compTerm(prog.locs[loc][k])
  PROVE  Automaton!eval_term(prog.locs[loc][k])
<1> DEFINE tm == prog.locs[loc][k]
           new == resetTermClocks(normalisedClks, tm)
<1>1. sysTime \in Words /\ clks \in [Clocks -> Words]
  BY SysTimeWord DEF RInv, SInv
<1>2. normalisedClks \in [Clocks -> Words]
  BY <1>1, NormalisedTypes
<1>3. new \in [Clocks -> Words]
  BY <1>2, TimedAssumption DEF resetTermClocks, Words
<1>4. tm.wt \subseteq [time : Words, clock : Clocks]
  BY TermTypes
<1>5. Now = sysTime /\ ClocksNow = normalisedClks
  BY Running
<1>6. pc' = "wait" /\ prog' = prog /\ sysTime' = sysTime
  BY DEF task_controller
<1>7. Automaton!Remaining(normalisedClks, tm) \subseteq 0 .. W - 1 - 1
  BY <1>5 DEF Automaton!machine_bounds, Automaton!Terms
<1>8. Automaton!Remaining(normalisedClks, tm) = {Sub(w.time, new[w.clock]) : w \in tm.wt}
  BY <1>2, <1>4, <1>7, WaitsSame
<1>9. Automaton!resetClocks(normalisedClks, tm) = new
  BY <1>2 DEF Automaton!resetClocks, resetTermClocks
<1> HIDE DEF tm, new
<1>10. PICK wake \in Words : minExp(new, tm, wake) /\ wakeUpAt' = Add(sysTime, wake)
  BY DEF compTerm, tm, new
<1>11. /\ waitSet' = (IF tm.wt = {} THEN 1 ELSE 0)
       /\ clks' = [c \in Clocks |-> Sub(sysTime, new[c])]
       /\ loc' = tm.dest /\ label' = tm.io
  BY DEF compTerm, tm, new
<1>12. Now' = Now
  BY <1>5, <1>6, RunningNext
<1>13. ClocksNow' = new
  <2>1. ClocksNow' = [c \in Clocks |-> Sub(sysTime, clks'[c])]
    BY <1>6, RunningNext DEF normalisedClks
  <2>2. \A c \in Clocks : Sub(sysTime, clks'[c]) = new[c]
    BY <1>1, <1>3, <1>11, SubSub
  <2> QED BY <1>3, <2>1, <2>2
<1>14. Automaton!calculate_wtime(normalisedClks, tm, WaitNow')
  <2>1. CASE tm.wt = {}
    <3>1. WaitNow' = -1
      BY <1>6, <1>11, <2>1, RunningNext
    <3> QED BY <2>1, <3>1 DEF Automaton!calculate_wtime, Automaton!None
  <2>2. CASE tm.wt # {}
    <3>1. WaitNow' = TimeLeft'
      BY <1>6, <1>11, <2>2, RunningNext
    <3>2. TimeLeft' = wake
      BY <1>1, <1>6, <1>10, SubAdd DEF TimeLeft
    <3>3. Least(Automaton!Remaining(normalisedClks, tm), wake)
      BY <1>8, <1>10, <2>2 DEF minExp
    <3> QED BY <2>2, <3>1, <3>2, <3>3 DEF Automaton!calculate_wtime, Automaton!Least, Least
  <2> QED BY <2>1, <2>2
<1>15. Automaton!eval_term(tm)
  BY <1>5, <1>6, <1>9, <1>11, <1>12, <1>13, <1>14 DEF Automaton!eval_term
<1> QED BY <1>15 DEF tm

LEMMA CallPicks ==
  ASSUME RInv, pc = "wait", NEW kind, NEW i,
         \/ kind = "output" /\ event = 0
         \/ kind = "input" /\ i \in Inputs /\ event = i + 1,
         task_controller
  PROVE  Automaton!pick_eval_term(kind, i)
<1>1. PICK k \in DOMAIN prog.locs[loc] :
        Least(pick_term(normalisedClks), k) /\ compTerm(prog.locs[loc][k])
  BY DEF task_controller
<1>2. CASE Automaton!machine_bounds(ClocksNow, Automaton!Terms)
  <2>1. pick_term(normalisedClks) = Automaton!Matching(kind, i)
    BY <1>2, TermsSame
  <2>2. Automaton!Least(Automaton!Matching(kind, i), k)
    BY <1>1, <2>1 DEF Automaton!Least, Least
  <2>3. Automaton!eval_term(prog.locs[loc][k])
    BY <1>1, <1>2, TermMaps
  <2> QED BY <1>2, <2>2, <2>3 DEF Automaton!pick_eval_term, Automaton!Terms
<1>3. CASE ~Automaton!machine_bounds(ClocksNow, Automaton!Terms)
  <2>1. label' = prog.locs[loc][k].io
    BY <1>1 DEF compTerm
  <2>2. prog.locs[loc][k].io \in ({"input"} \X (0 .. W - 2)) \cup ({"output"} \X Words)
    BY TermTypes
  <2>3. label'[1] \in {"input", "output"}
    BY <2>1, <2>2
  <2>4. label' # Automaton!DelayLabel
    BY <2>3 DEF Automaton!DelayLabel
  <2> QED BY <1>3, <2>4 DEF Automaton!pick_eval_term
<1> QED BY <1>2, <1>3

LEMMA PanicPicks ==
  ASSUME RInv, pc = "wait", NEW kind, NEW i,
         \/ kind = "output" /\ i = Automaton!None /\ event = 0
         \/ kind = "input" /\ i \in Inputs /\ event = i + 1,
         RaisePanic
  PROVE  Automaton!pick_eval_term(kind, i)
<1>1. pick_term(normalisedClks) = {} /\ pc' = "panic" /\ label' = <<"panic", event - 1>>
  BY DEF RaisePanic
<1>2. UNCHANGED <<prog, sysTime, clks, loc>>
  BY DEF RaisePanic, locals
<1>3. event - 1 = i
  <2>1. CASE kind = "output" /\ i = Automaton!None /\ event = 0
    BY <2>1 DEF Automaton!None
  <2>2. CASE kind = "input" /\ i \in Inputs /\ event = i + 1
    <3>1. i \in 0 .. W - 2
      BY <2>2, TimedAssumption
    <3> QED BY <2>2, <3>1
  <2> QED BY <2>1, <2>2
<1>4. Now' = Now /\ ClocksNow' = ClocksNow
  BY <1>1, <1>2 DEF Now, ClocksNow, normalisedClks
<1>5. WaitNow' = Automaton!None
  BY <1>1 DEF WaitNow, Automaton!None
<1>6. CASE Automaton!machine_bounds(ClocksNow, Automaton!Terms)
  <2>1. Automaton!Matching(kind, i) = {}
    BY <1>1, <1>6, TermsSame
  <2> QED BY <1>1, <1>2, <1>3, <1>4, <1>5, <1>6, <2>1 DEF Automaton!pick_eval_term
<1>7. CASE ~Automaton!machine_bounds(ClocksNow, Automaton!Terms)
  <2>1. label' # Automaton!DelayLabel
    BY <1>1 DEF Automaton!DelayLabel
  <2> QED BY <1>7, <2>1 DEF Automaton!pick_eval_term
<1> QED BY <1>6, <1>7

(* Leaving a location, by one of its terms or in panic. *)
LEMMA CallMaps ==
  ASSUME RInv, task_controller \/ RaisePanic
  PROVE  Automaton!Next
<1>1. AtCall /\ pc' \in {"wait", "panic"} /\ UNCHANGED <<prog, sysTime>>
  BY DEF task_controller, RaisePanic, locals
<1>2. pc \in {"wait", "call"} /\ sysTime \in Words /\ wakeUpAt \in Words /\ waitSet \in {0, 1}
  BY <1>1, SysTimeWord DEF AtCall, RInv, IInv, SInv, InTime
<1>3. Now = sysTime /\ Now' = sysTime
  BY <1>1, <1>2 DEF Now
<1>4. CASE W - 1 - 1 <= sysTime
  <2>1. Now <= Now'
    BY <1>2, <1>3, TimedAssumption DEF Words
  <2> QED BY <1>1, <1>3, <1>4, <2>1 DEF Automaton!Next, Automaton!TimeOver
<1>5. CASE ~(W - 1 - 1 <= sysTime)
  <2>1. pc = "wait"
    BY <1>2, <1>5, TimedAssumption DEF RInv, SInv
  <2>2. Heard /\ ~wait
    BY <1>1, <2>1 DEF RInv, SInv, AtCall
  <2>3. CASE isInput = 1 /\ event = 0
    <3>1. waitSet # 1 /\ sysTime = wakeUpAt
      BY <2>2, <2>3 DEF wait
    <3>2. WaitNow = 0
      BY <1>2, <2>1, <3>1, SubZero, Running DEF TimeLeft
    <3>3. Automaton!pick_eval_term("output", Automaton!None)
      BY <2>1, <2>3, CallPicks, PanicPicks
    <3> QED BY <3>2, <3>3 DEF Automaton!Next, Automaton!eval_output
  <2>4. ASSUME isInput = 0, Asleep, NEW i \in Inputs, event = i + 1
        PROVE  Automaton!Next
    <3>1. WaitNow # 0
      <4>1. CASE waitSet = 1
        BY <2>1, <4>1, Running
      <4>2. CASE waitSet # 1
        BY <1>2, <2>1, <2>4, <4>2, SubZero, Running DEF Asleep, TimeLeft
      <4> QED BY <4>1, <4>2
    <3>2. Automaton!pick_eval_term("input", i)
      BY <2>1, <2>4, CallPicks, PanicPicks
    <3>3. i \in 0 .. W - 1 - 1
      BY TimedAssumption
    <3> QED BY <3>1, <3>2, <3>3 DEF Automaton!Next, Automaton!eval_input
  <2> QED BY <2>2, <2>3, <2>4 DEF Heard
<1> QED BY <1>4, <1>5

LEMMA StepMaps == RInv /\ [Next]_vars => [Automaton!Next]_(Automaton!vars)
<1> SUFFICES ASSUME RInv, [Next]_vars PROVE [Automaton!Next]_(Automaton!vars)
  OBVIOUS
<1>1. CASE start_controller
  BY <1>1, StartMaps
<1>2. CASE wait_input_time_limit
  <2>1. Asleep
    BY <1>2 DEF wait_input_time_limit, wait, Asleep
  <2> QED BY <1>2, <2>1, PollMaps DEF wait_input_time_limit
<1>3. CASE CheckAgain
  <2>1. ~(sysTime < W - 2)
    BY <1>3, TimedAssumption DEF CheckAgain
  <2> QED BY <1>3, <2>1, PollMaps DEF CheckAgain
<1>4. CASE task_controller
  BY <1>4, CallMaps
<1>5. CASE RaisePanic
  BY <1>5, CallMaps
<1>6. CASE UNCHANGED vars
  BY <1>6 DEF vars, locals, Automaton!vars, Now, ClocksNow, WaitNow, normalisedClks, TimeLeft
<1> QED BY <1>1, <1>2, <1>3, <1>4, <1>5, <1>6 DEF Next

LEMMA InitMaps == Init => Automaton!Init
  BY DEF Init, Automaton!Init, ClocksNow, WaitNow, NoLabel, Automaton!NoLabel

(* The compiled program is a run of its automaton, for every automaton, word
   size, set of inputs and time to start at: what it does at each instant and
   for how long it waits is what eval_step says, as long as that says anything. *)
THEOREM RunsTheAutomaton == Spec => ImplementsTimeSem
<1>1. Init => RInv
  BY InitIInv, InitSInv DEF RInv
<1>2. RInv /\ [Next]_vars => RInv'
  BY NextRInv
<1>3. Init => Automaton!Init
  BY InitMaps
<1>4. RInv /\ [Next]_vars => [Automaton!Next]_(Automaton!vars)
  BY StepMaps
<1> QED BY <1>1, <1>2, <1>3, <1>4, PTL DEF Spec, ImplementsTimeSem, Automaton!Spec
=============================================================================
