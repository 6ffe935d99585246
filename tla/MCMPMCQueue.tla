------------------------------ MODULE MCMPMCQueue ------------------------------
(* Instances of MPMCQueue for TLC: two threads that each push and pop, two  *)
(* cells and four pushes, so that every cell is used for two laps while a  *)
(* delayed thread still holds an old position.  RingProofs covers any      *)
(* number of threads and cells.                                            *)
EXTENDS MPMCQueue, TLC

CONSTANTS t1, t2

=============================================================================
