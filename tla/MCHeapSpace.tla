----------------------------- MODULE MCHeapSpace -----------------------------
(* Small instances of HeapSpace and GcTrace: a six-word semispace of two-byte words
   on a machine whose words reach only half as far again, so that requests that
   do not fit a word are as easy to meet as requests that fit. *)
EXTENDS GcTrace

MCGenSizes == <<2>>
MCRequests == {0, 1, 2, 3, 5, 9}
MCVarLengths == {0, 2, 8}
MCLists == {1, 2}
=============================================================================
