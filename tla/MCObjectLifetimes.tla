------------------------- MODULE MCObjectLifetimes -------------------------
(***************************************************************************)
(* Model-checking instances of ObjectLifetimes.                            *)
(***************************************************************************)
EXTENDS ObjectLifetimesInvariant, TLC

\* MongoCrypts, contexts and requests are interchangeable among themselves: no
\* property names one.
Symmetry == Permutations(Crypts) \cup Permutations(Contexts) \cup Permutations(Requests)
=============================================================================
