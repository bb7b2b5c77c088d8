-------------------------- MODULE MC_DirectReceiver --------------------------
(***************************************************************************)
(* Instantiates DirectReceiver for TLC.  The constants are given in each   *)
(* .cfg: producer and receiver threads as model values, strategy, capacity *)
(* and message bound as ordinary values.                                   *)
(***************************************************************************)
EXTENDS DirectReceiver, TLC

\* Producers are interchangeable transport threads, receivers interchangeable
\* application threads.
Symmetry == Permutations(Producers) \cup Permutations(Receivers)
=============================================================================
