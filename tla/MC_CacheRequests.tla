--------------------------- MODULE MC_CacheRequests ---------------------------
(* TLC instance of CacheRequests; see the CacheRequests_*.cfg files.       *)
EXTENDS CacheRequests, TLC

\* Submitters are interchangeable threads.
SubmitterSymmetry == Permutations(Submitters)
=============================================================================
