---------------------------- MODULE DequeProgram ----------------------------
(***************************************************************************)
(* A program that uses everything that takes elements out of a deque step  *)
(* by step: the borrowing iterators and loops of DequeIterators, and the   *)
(* IntoIter of DequeIntoIter, which a deque turns into and can be made of  *)
(* again, with the conversions of DequeConversions in between.             *)
(***************************************************************************)
EXTENDS DequeIterators, DequeIntoIter

programvars == <<allvars, iters>>

ProgramInit == IterInit /\ iters = [i \in ITERS |-> Gone]

\* An IntoIter shares nothing with a deque that is borrowed: they are used
\* one after the other.  Leaked values are out of every later call's reach, so
\* the calls that are not about leaks are made as long as there are none.
NoneUsed == \A i \in ITERS : ~iters[i].used

ProgramNext ==
  \/ NoneUsed /\ SoundIterNext /\ UNCHANGED iters
  \/ Idle /\ leaked = {} /\ Consumes /\ UNCHANGED <<it, leaked>>
  \/ Idle /\ Collects /\ UNCHANGED <<it, leaked>>
  \/ /\ Idle /\ NoneUsed /\ leaked = {} /\ UNCHANGED <<it, leaked, iters>>
     /\ \E d \in DEQS, oom \in BOOLEAN : Refills(d, oom)
  \/ ~NoneUsed /\ UNCHANGED <<it, leaked>> /\ \E d \in DEQS : Builds(d)

ProgramSpec == ProgramInit /\ [][ProgramNext]_programvars

-----------------------------------------------------------------------------
\* When no deque is borrowed, every live value is in exactly one deque or
\* IntoIter, exactly once, unless an iterator was forgotten or its Drop was
\* left by a panic: no closure, panic or failed allocation makes a deque lose
\* elements, nor does a replacement iterator, whatever it yields and whatever
\* its size_hint() says, unless the tail of the splice moves to a new buffer
\* (TailStays in SoundIterNext).  An element that was given away is not
\* dropped again, and one that was not is dropped once.
NothingLost == NEEDS_DROP /\ Idle =>
  LET owners == DEQS \cup ITERS
      q(o)   == IF o \in DEQS THEN dq[o] ELSE iters[o]
  IN  /\ live = Held \cup HeldByIters \cup leaked
      /\ \A o, p \in owners : \A i \in 0 .. q(o).len - 1, j \in 0 .. q(p).len - 1 :
           Read(q(o), i) = Read(q(p), j) => o = p /\ i = j
=============================================================================
