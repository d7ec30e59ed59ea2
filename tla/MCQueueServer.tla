--------------------------- MODULE MCQueueServer ---------------------------
(* Model-checking instance of QueueServer: the constants are given as sets *)
(* of model values in the .cfg files.                                      *)
EXTENDS QueueServer, TLC

\* Entry ids and connections are interchangeable model values; the spec
\* never orders them or picks one with CHOOSE.  Used only by safety runs.
Symmetry == Permutations(Ids) \cup Permutations(Conns)
=============================================================================
