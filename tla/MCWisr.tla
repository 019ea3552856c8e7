-------------------------------- MODULE MCWisr --------------------------------
EXTENDS Wisr, TLC

CONSTANTS c1, c2

(* One collector uses the base object, the other only the objects of the threads. *)
SafeOps == (c1 :> {"now", "delayed", "copy"}) @@ (c2 :> {"unmerged", "foreach"})

(* Writers are interchangeable.                                            *)
Symmetry == Permutations(Writers)

=============================================================================
