------------------------------- MODULE MCParMove ------------------------------
\* Up to four moves between two variables in registers and two in the frame:
\* cycles of two and three, two cycles, and trees with several readers.
EXTENDS ParMove

MCMoves ==
  {ms \in UNION {[1 .. k -> [d : Var, s : Var]] : k \in 0 .. 4} : Windmill(ms)}
=============================================================================
