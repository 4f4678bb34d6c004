--------------------------- MODULE MCDequeIntoIter ---------------------------
(* DequeIntoIter with model values for the elements and the iterators.     *)
EXTENDS DequeIntoIter

\* The iterators are alike and never look at the elements.
Symmetry == Permutations(Elem) \cup Permutations(ITERS)
=============================================================================
