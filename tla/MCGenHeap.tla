------------------------------ MODULE MCGenHeap ------------------------------
(* Small instances of GenHeap: six or seven words, so three objects of two
   words, and a generation of one such object. *)
EXTENDS GenHeapRefinement
MCGenSizes == <<2>>
=============================================================================
