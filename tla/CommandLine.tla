----------------------------- MODULE CommandLine -----------------------------
(***************************************************************************)
(* CommandLine.cline: the ML program asks the C runtime for the number of  *)
(* arguments, then from the last to the first for the length and the bytes *)
(* of each.  Numbers travel in two bytes, the low one first; a buffer is   *)
(* used for the question and overwritten by the answer.  got is acc.       *)
(***************************************************************************)
EXTENDS Calls

read16bit(b) == b[1] + b[2] * Base
write16bit(b, k) == Put(b, 0, <<ByteOf(k, 0), ByteOf(k, 1)>>)
AtLeast2(k) == IF k < 2 THEN 2 ELSE k

\* The program asks once.
cline ==
  /\ CanStart("arguments") /\ got = <<>>
  /\ Ask([fn |-> "count"], "get_arg_count", <<>>, Zeros(2))
  /\ UNCHANGED got

\* One turn of cloop a n acc: write16bit a n, and the length of argument n.
cloop(b, n, acc) ==
  /\ IF n = 0 THEN Finish(<<>>, acc)
     ELSE /\ Ask([fn |-> "length", n |-> n - 1], "get_arg_length", <<>>, write16bit(b, n - 1))
          /\ got' = acc

Counted == Returned("arguments", "count") /\ cloop(a, read16bit(a), <<>>)

\* The array one byte short.
AskArgShort ==
  /\ Returned("arguments", "length")
  /\ LET l == read16bit(a)
     IN  Ask([fn |-> "arg", n |-> task.n, l |-> l], "get_arg", <<>>,
             write16bit(Zeros(AtLeast2(l - 1)), task.n))
  /\ UNCHANGED got
\* An array for an argument of that length, and the index written over it.
AskArg ==
  /\ Returned("arguments", "length")
  /\ LET l == read16bit(a)
     IN  Ask([fn |-> "arg", n |-> task.n, l |-> l], "get_arg", <<>>,
             write16bit(Zeros(AtLeast2(l)), task.n))
  /\ UNCHANGED got

\* The answer taken to be as long as its array.
TakeArgWhole == Returned("arguments", "arg") /\ cloop(Zeros(2), task.n, <<a>> \o got)
\* a is overwritten by the next question, so its bytes do not matter.
TakeArg == Returned("arguments", "arg") /\ cloop(Zeros(2), task.n, <<At(a, 0, task.l)>> \o got)

CommandLineNext == cline \/ Counted \/ AskArg \/ TakeArg

\* The list cline returns is the argument vector, on every runtime, whatever
\* the bytes of an index and of an argument have in common in the buffer.
ArgumentsExact == use = "arguments" /\ task = Idle /\ got # <<>> => got = argv
=============================================================================
