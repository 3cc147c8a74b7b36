---------------------------- MODULE MCTripStore ----------------------------
(* TLC instances of TripStore.                                             *)
EXTENDS TripStore, TLC

TripSymmetry == Permutations(Tab) \cup Permutations(Item)

=============================================================================
