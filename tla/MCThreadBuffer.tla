---------------------------- MODULE MCThreadBuffer ----------------------------
EXTENDS ThreadBuffer, TLC

CONSTANT NumSlots

MCSlots == 1 .. NumSlots

(* Threads and buffers are interchangeable; slots are taken in their order. *)
Symmetry == Permutations(Threads) \cup Permutations(Buffers)

=============================================================================
