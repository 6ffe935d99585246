------------------------ MODULE MCTriPriorityScheduler ------------------------
(* An instance of TriPriorityScheduler for TLC. *)
EXTENDS TriPriorityScheduler, TLC

CONSTANTS k1, k2

(* A HIGH task that may spawn a LOW one, which the clients may spawn too.  *)
MCPriority == (k1 :> "high") @@ (k2 :> "low")
MCChildren == (k1 :> {k2}) @@ (k2 :> {})

=============================================================================
