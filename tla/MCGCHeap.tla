-------------------------------- MODULE MCGCHeap --------------------------------
(* Instances of GCHeap for TLC. *)
EXTENDS GCHeap
=============================================================================
