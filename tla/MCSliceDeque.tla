---------------------------- MODULE MCSliceDeque ----------------------------
(* SliceDeque with model values for the elements.                          *)
EXTENDS SliceDeque

\* The deques are alike and never look at their elements.
Symmetry == Permutations(Elem) \cup Permutations(DEQS)
=============================================================================
