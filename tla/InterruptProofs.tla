--------------------------- MODULE InterruptProofs ---------------------------
(* Proofs about the polling of signals, for every default frequency and
   every set of frequencies a program may choose. *)
EXTENDS Interrupt, TLAPS

(* A poll_sigint starts the count of polls again. *)
CountStarted == pc \in {"clear", "decide", "raise"} => polls = 0

(* The flag, or a byte about to be looked at, stands for a signal that is
   still to be answered. *)
FlagIsSignal ==
  /\ caught_sigint = 1 => unanswered
  /\ pc = "clear" /\ sigint = 1 => unanswered

IInv == TypeOK /\ CheckedInTime /\ CountStarted /\ FlagIsSignal

LEMMA InitInv == Init => IInv
<1> SUFFICES ASSUME Init PROVE IInv
  OBVIOUS
<1>1. /\ caught_sigint = 0 /\ sigint = 0 /\ count = Default /\ freq = Default
      /\ pc = "run" /\ polls = 0
  BY DEF Init
<1>2. unanswered \in BOOLEAN
  BY DEF Init
<1> QED BY <1>1, <1>2, FreqAssumption
        DEF IInv, TypeOK, CheckedInTime, CountStarted, FlagIsSignal

(* A freq below 1 counts as 1, and none is above the largest. *)
LEMMA FreqBounded ==
  ASSUME TypeOK PROVE AtLeast1(freq) \in 1 .. MaxFreq
<1>1. freq \in Int /\ freq <= MaxFreq
  BY FreqAssumption DEF TypeOK
<1> QED BY <1>1, FreqAssumption DEF AtLeast1

LEMMA StepInv == ASSUME IInv, [Next]_vars PROVE IInv'
<1> USE FreqAssumption DEF IInv, TypeOK, CheckedInTime, CountStarted, FlagIsSignal
<1>1. CASE do_sigint
  BY <1>1 DEF do_sigint
<1>2. CASE SetFreq
  BY <1>2 DEF SetFreq
<1>3. CASE poll
  BY <1>3, FreqBounded DEF poll
<1>4. CASE check
  BY <1>4 DEF check
<1>5. CASE poll_sigint_read
  BY <1>5 DEF poll_sigint_read
<1>6. CASE poll_sigint_clear
  <2>1. unanswered' \in BOOLEAN
    BY <1>6 DEF poll_sigint_clear, Answering
  <2>2. caught_sigint' = 0 /\ pc' = "decide"
    BY <1>6 DEF poll_sigint_clear
  <2> QED BY <1>6, <2>1, <2>2 DEF poll_sigint_clear
<1>7. CASE Decide
  BY <1>7 DEF Decide
<1>8. CASE Handle
  BY <1>8 DEF Handle
<1>9. CASE UNCHANGED vars
  BY <1>9 DEF vars
<1> QED BY <1>1, <1>2, <1>3, <1>4, <1>5, <1>6, <1>7, <1>8, <1>9 DEF Next, Program

(* Whatever values Interrupt.freq is given and whenever it is given them, no
   more than the largest of them separates two looks at the flag. *)
THEOREM PollsInTime == Spec => [](TypeOK /\ CheckedInTime)
<1>1. IInv => TypeOK /\ CheckedInTime
  BY DEF IInv
<1> QED BY InitInv, StepInv, <1>1, PTL DEF Spec

(* No Interrupt is raised unless a signal came that none was raised for. *)
THEOREM InterruptsAreSignals == Spec => NoSpuriousInterrupt
<1>1. IInv => (pc = "clear" /\ pc' = "decide" /\ sigint = 1 => unanswered)
  BY DEF IInv, FlagIsSignal
<1>2. IInv => [pc = "clear" /\ pc' = "decide" /\ sigint = 1 => unanswered]_vars
  BY <1>1
<1> QED BY InitInv, StepInv, <1>2, PTL DEF Spec, NoSpuriousInterrupt
=============================================================================
