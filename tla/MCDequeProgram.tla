--------------------------- MODULE MCDequeProgram ---------------------------
(* DequeProgram with model values for the elements.                        *)
EXTENDS DequeProgram

\* Deques and iterators never look at the elements.
Symmetry == Permutations(Elem)
=============================================================================
