------------------------------ MODULE Interrupt ------------------------------
(***************************************************************************)
(* How the REPL notices Ctrl-C: the signal handler of basis_ffi.c sets a   *)
(* flag, and ML code that calls Interrupt.poll reads and clears it through *)
(* the poll_sigint call once every freq calls.  The handler may run        *)
(* between any two instructions of the program, so poll_sigint's read and  *)
(* its clearing are two steps.                                             *)
(***************************************************************************)
EXTENDS Integers

CONSTANTS
  Default,      \* initial count and freq (1000)
  Freqs,        \* values a program gives Interrupt.freq
  MaxFreq       \* the largest of them

ASSUME FreqAssumption ==
  /\ MaxFreq \in Nat /\ Default \in 1 .. MaxFreq
  /\ Freqs \subseteq Int /\ \A f \in Freqs : f <= MaxFreq

VARIABLES
  caught_sigint,  \* the flag of the C runtime
  sigint,         \* the byte poll_sigint answers in
  count, freq,    \* the references of the Interrupt module
  pc,             \* where the ML program is
  unanswered,     \* a signal was trapped that no Interrupt is on its way for
  polls           \* calls of poll since the last check

vars == <<caught_sigint, sigint, count, freq, pc, unanswered, polls>>

AtLeast1(n) == IF n < 1 THEN 1 ELSE n

Init ==
  /\ caught_sigint = 0 /\ sigint = 0
  /\ count = Default /\ freq = Default
  /\ pc = "run"
  /\ unanswered = FALSE
  /\ polls = 0

\* The kernel runs the handler.
do_sigint ==
  /\ caught_sigint' = 1
  /\ unanswered' = TRUE
  /\ UNCHANGED <<sigint, count, freq, pc, polls>>

\* The program assigns Interrupt.freq.
SetFreq ==
  /\ pc = "run"
  /\ freq' \in Freqs
  /\ UNCHANGED <<caught_sigint, sigint, count, pc, unanswered, polls>>

\* A poll that adds freq to what is left.
poll_accumulate ==
  /\ pc = "run"
  /\ IF count < 2
     THEN count' = count + AtLeast1(freq) /\ pc' = "check"
     ELSE count' = count - 1 /\ pc' = "run"
  /\ polls' = polls + 1
  /\ UNCHANGED <<caught_sigint, sigint, freq, unanswered>>

\* poll: inc counts down, and starts again from freq when it is time to check.
poll ==
  /\ pc = "run"
  /\ IF count < 2
     THEN count' = AtLeast1(freq) /\ pc' = "check"
     ELSE count' = count - 1 /\ pc' = "run"
  /\ polls' = polls + 1
  /\ UNCHANGED <<caught_sigint, sigint, freq, unanswered>>

\* A program may also call check itself.
check ==
  /\ pc = "run"
  /\ pc' = "check"
  /\ UNCHANGED <<caught_sigint, sigint, count, freq, unanswered, polls>>

\* The flag cleared before it is read.
poll_sigint_clears_first ==
  /\ pc = "check"
  /\ sigint' = 0 /\ caught_sigint' = 0
  /\ pc' = "clear"
  /\ polls' = 0
  /\ UNCHANGED <<count, freq, unanswered>>

\* a[0] = caught_sigint
poll_sigint_read ==
  /\ pc = "check"
  /\ sigint' = caught_sigint
  /\ pc' = "clear"
  /\ polls' = 0
  /\ UNCHANGED <<caught_sigint, count, freq, unanswered>>

\* The Interrupt that follows answers all signals trapped so far.
Answering == unanswered' = (unanswered /\ sigint = 0)

\* caught_sigint left as it is.
poll_sigint_keep ==
  /\ pc = "clear"
  /\ pc' = "decide"
  /\ Answering
  /\ UNCHANGED <<caught_sigint, sigint, count, freq, polls>>

\* caught_sigint = 0
poll_sigint_clear ==
  /\ pc = "clear"
  /\ caught_sigint' = 0
  /\ pc' = "decide"
  /\ Answering
  /\ UNCHANGED <<sigint, count, freq, polls>>

\* check looks at the byte.
Decide ==
  /\ pc = "decide"
  /\ pc' = IF sigint = 1 THEN "raise" ELSE "run"
  /\ UNCHANGED <<caught_sigint, sigint, count, freq, unanswered, polls>>

\* The loop of the REPL handles the exception and goes on.
Handle ==
  /\ pc = "raise"
  /\ pc' = "run"
  /\ UNCHANGED <<caught_sigint, sigint, count, freq, unanswered, polls>>

Program == poll \/ check \/ poll_sigint_read \/ poll_sigint_clear \/ Decide \/ Handle

Next == do_sigint \/ SetFreq \/ Program

\* The functions that run for ever call poll at their start, as the Interrupt
\* module asks of them, however often freq is assigned.
Spec == Init /\ [][Next]_vars
        /\ SF_vars(poll) /\ WF_vars(poll_sigint_read) /\ WF_vars(poll_sigint_clear)
        /\ WF_vars(Decide) /\ WF_vars(Handle)

------------------------------------------------------------------------------
\* One type invariant: count is never below 1, so inc has something to count.
TypeOK ==
  /\ caught_sigint \in {0, 1} /\ sigint \in {0, 1}
  /\ count \in 1 .. MaxFreq /\ freq \in Freqs \cup {Default}
  /\ pc \in {"run", "check", "clear", "decide", "raise"}
  /\ unanswered \in BOOLEAN /\ polls \in Nat

\* poll calls the runtime at least once in as many calls as the largest freq
\* it was given; a freq below 1 counts as 1.
CheckedInTime == pc = "run" => polls + count <= MaxFreq

\* A poll that finds the flag set, and so raises Interrupt, does it for a
\* signal no other Interrupt was raised for.
NoSpuriousInterrupt ==
  [][pc = "clear" /\ pc' = "decide" /\ sigint = 1 => unanswered]_vars

\* A signal the flag still shows when no poll_sigint is under way is answered.
FlagAnswered ==
  (caught_sigint = 1 /\ pc # "clear") ~> pc = "raise"

\* repl_moduleProg: check "checks whether an INT signal has been trapped by the
\* runtime, and raises the Interrupt exception if that has happened": until it
\* is raised a trapped signal is recorded in the flag or in the byte.
SignalKept == unanswered => caught_sigint = 1 \/ sigint = 1
=============================================================================
