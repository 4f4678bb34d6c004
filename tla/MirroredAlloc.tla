--------------------------- MODULE MirroredAlloc ---------------------------
(***************************************************************************)
(* What allocate_mirrored and deallocate_mirrored promise, on every        *)
(* platform: a call either fails, or returns a region that overlaps no     *)
(* other region and no memory of other code, and that stays so until it is *)
(* given back.  The address space is counted in halves of a region.        *)
(***************************************************************************)
EXTENDS Integers

CONSTANTS THREADS, SPACE, NoPtr

VARIABLES
  region,   \* the first half of the region each thread has, or NoPtr
  pending,  \* the threads inside allocate_mirrored
  foreign   \* the addresses that other code of the process uses

vars == <<region, pending, foreign>>

Halves(a) == IF a = NoPtr THEN {} ELSE {a, a + 1}

Init ==
  /\ region  = [t \in THREADS |-> NoPtr]
  /\ pending = {}
  /\ foreign = {}

Call(t) ==
  /\ region[t] = NoPtr /\ t \notin pending
  /\ pending' = pending \cup {t}
  /\ UNCHANGED <<region, foreign>>

Succeed(t, a) ==
  /\ t \in pending
  /\ Halves(a) \cap foreign = {}
  /\ \A u \in THREADS : Halves(a) \cap Halves(region[u]) = {}
  /\ region'  = [region EXCEPT ![t] = a]
  /\ pending' = pending \ {t}
  /\ UNCHANGED foreign

Fail(t) ==
  /\ t \in pending
  /\ pending' = pending \ {t}
  /\ UNCHANGED <<region, foreign>>

Deallocate(t) ==
  /\ region[t] # NoPtr
  /\ region' = [region EXCEPT ![t] = NoPtr]
  /\ UNCHANGED <<pending, foreign>>

\* Other code maps addresses that are in no region, or unmaps its own.
OtherCode ==
  /\ foreign' \subseteq 0 .. SPACE - 1
  /\ \A t \in THREADS : Halves(region[t]) \cap foreign' = {}
  /\ UNCHANGED <<region, pending>>

Next ==
  \/ \E t \in THREADS : Call(t) \/ Fail(t) \/ Deallocate(t)
  \/ \E t \in THREADS, a \in 0 .. SPACE - 2 : Succeed(t, a)
  \/ OtherCode

Spec == Init /\ [][Next]_vars
=============================================================================
