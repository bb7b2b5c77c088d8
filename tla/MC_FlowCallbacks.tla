-------------------------- MODULE MC_FlowCallbacks --------------------------
(***************************************************************************)
(* FlowCallbacks for TLC: two goroutines creating flows concurrently.       *)
(***************************************************************************)
EXTENDS FlowCallbacks, TLC

\* The creators are interchangeable goroutines.
CreatorSymmetry == Permutations(Creators)
=============================================================================
