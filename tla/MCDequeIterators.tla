-------------------------- MODULE MCDequeIterators --------------------------
(* DequeIterators with model values for the elements.                      *)
EXTENDS DequeIterators

\* The deque, and its iterators, never look at the elements.
Symmetry == Permutations(Elem)
=============================================================================
