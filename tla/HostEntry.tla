------------------------------ MODULE HostEntry ------------------------------
(***************************************************************************)
(* A CakeML program as a library: the host's main calls cml_main, and C    *)
(* code calls exported ML functions through cake_enter of the x64 export,  *)
(* which lets it in only when no ML code is under way.  ML code calls C    *)
(* functions, and these may call exported functions in turn.               *)
(***************************************************************************)
EXTENDS Calls

CONSTANT MaxFrames   \* bound: activations on the C stack

VARIABLES
  frames,     \* who is active, the running one last: "C" or "ml"
  can_enter,  \* of the export
  ready       \* cml_main has been called

host_vars == <<frames, can_enter, ready>>

HostInit == frames = <<"C">> /\ can_enter = 0 /\ ready = FALSE

Top(who) == use = "host" /\ end.how = "return" /\ frames[Len(frames)] = who
Push(who) == Len(frames) < MaxFrames /\ frames' = Append(frames, who)
Pop == frames' = SubSeq(frames, 1, Len(frames) - 1)
HostOnly == UNCHANGED <<start_vars, use, argv, os, a, call, task, got, end>>

cml_main ==
  /\ Top("C") /\ Len(frames) = 1 /\ ~ready
  /\ ready' = TRUE
  /\ Push("ml") /\ HostOnly /\ UNCHANGED can_enter

\* The flag left as it was.
cake_enter_open ==
  /\ Top("C") /\ can_enter # 0
  /\ Push("ml")
  /\ HostOnly /\ UNCHANGED <<ready, can_enter>>
cake_enter ==
  /\ Top("C") /\ can_enter # 0
  /\ Push("ml") /\ can_enter' = 0
  /\ HostOnly /\ UNCHANGED ready

\* cml_err with code 3.
cake_err3 ==
  /\ Top("C") /\ can_enter = 0
  /\ \E r \in Basis!cml_err(os, a, 3) : end' = [how |-> r.how, status |-> r.status]
  /\ UNCHANGED <<start_vars, use, argv, os, a, call, task, got, host_vars>>

\* cml_return after cml_main, cake_return after an exported function.
cake_return ==
  /\ Top("ml")
  /\ Pop /\ can_enter' = 1
  /\ HostOnly /\ UNCHANGED ready

CallC == Top("ml") /\ Push("C") /\ HostOnly /\ UNCHANGED <<can_enter, ready>>
ReturnC ==
  /\ Top("C") /\ Len(frames) > 1
  /\ Pop /\ HostOnly /\ UNCHANGED <<can_enter, ready>>

HostNext == cml_main \/ cake_enter \/ cake_err3 \/ cake_return \/ CallC \/ ReturnC

\* The registers of ML code are kept in one place: at most one activation of ML
\* code is on the stack at any time, and a host is turned away exactly when
\* there is one or the program has not been initialised, as cml_err says:
\* "You may have not run the init code yet, or be trying to enter during an
\* FFI call."
EntryExclusive ==
  LET active == {k \in 1 .. Len(frames) : frames[k] = "ml"}
  IN  /\ Cardinality(active) <= 1
      /\ (can_enter = 1) = (ready /\ active = {})
      /\ use = "host" /\ end.how = "exit" => end.status = 3 /\ (active # {} \/ ~ready)
=============================================================================
