------------------------- MODULE MCDequeConversions -------------------------
(* DequeConversions with model values for the elements.                    *)
EXTENDS DequeConversions

\* The deques are alike and never look at their elements.
Symmetry == Permutations(Elem) \cup Permutations(DEQS)
=============================================================================
