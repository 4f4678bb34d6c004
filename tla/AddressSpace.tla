---------------------------- MODULE AddressSpace ----------------------------
(***************************************************************************)
(* The address space of the process, as the allocators of src/mirrored see *)
(* it through the system calls they make, and the threads that make them.  *)
(* The address space is counted in halves of a region.  An address holds   *)
(* Free, Foreign (memory of other code), a thread (memory it has reserved  *)
(* that is no shared memory), or the object (memfd, file mapping, System V *)
(* segment, Mach memory) that is mapped there.  An object exists as long   *)
(* as a handle to it is open or it is mapped somewhere.                    *)
(*                                                                         *)
(* A system call that acquires something is one step, and may fail.  One   *)
(* that releases what the caller has does not fail, and the releases of an *)
(* error path are one step with the call that failed.                      *)
(***************************************************************************)
EXTENDS Integers

CONSTANTS
  THREADS,  \* the threads that allocate
  OBJECTS,  \* identities for memory objects
  Free, Foreign,
  NoPtr,    \* no address
  SPACE     \* bound: the size of the address space

ASSUME SpaceAssumption ==
  /\ SPACE \in Nat /\ NoPtr \notin Int
  /\ Free # Foreign
  /\ Free \notin THREADS \cup OBJECTS /\ Foreign \notin THREADS \cup OBJECTS
  /\ THREADS \cap OBJECTS = {}

VARIABLES
  vm,       \* what is mapped at each address
  handles,  \* the objects with an open descriptor, handle or segment id
  th        \* each thread: pc, its object, its address, its failed attempts

spacevars == <<vm, handles, th>>

Addr == 0 .. SPACE - 1

\* A thread outside the allocator, with no region and no object.
Outside == [pc |-> "idle", obj |-> Free, ptr |-> NoPtr, n |-> 0]

SpaceInit ==
  /\ vm      = [a \in Addr |-> Free]
  /\ handles = {}
  /\ th      = [t \in THREADS |-> Outside]

-----------------------------------------------------------------------------
(* System calls.                                                           *)

Goes(t, pc) == th' = [th EXCEPT ![t].pc = pc]

\* The call ends with an error, and the thread forgets what it had.
Fails(t) == th' = [th EXCEPT ![t] = Outside]

Unused == {o \in OBJECTS : o \notin handles /\ \A a \in Addr : vm[a] # o}

\* A new object with a handle.
Creates(t, o, pc) ==
  /\ o \in Unused
  /\ handles' = handles \cup {o}
  /\ th' = [th EXCEPT ![t] = [Outside EXCEPT !.pc = pc, !.obj = o]]
  /\ UNCHANGED vm

\* Memory for a whole region, wherever the system finds it.
Places == {a \in 0 .. SPACE - 2 : vm[a] = Free /\ vm[a + 1] = Free}

\* The two halves at a hold x and y.
MapsRegion(a, x, y) == vm' = [vm EXCEPT ![a] = x, ![a + 1] = y]

MapsHalf(a, x) == vm' = [vm EXCEPT ![a] = x]

Closes(t) == handles' = handles \ {th[t].obj}

\* The caller of allocate_mirrored.
Calls(t, first) ==
  /\ th[t].pc = "idle"
  /\ Goes(t, first) /\ UNCHANGED <<vm, handles>>

\* Other code of the process maps memory where it is free, or unmaps it.
OtherCode == \E a \in Addr :
  /\ \/ vm[a] = Free    /\ MapsHalf(a, Foreign)
     \/ vm[a] = Foreign /\ MapsHalf(a, Free)
  /\ UNCHANGED <<handles, th>>

-----------------------------------------------------------------------------
(* Properties of every allocator.                                          *)

Busy(t) == th[t].pc \notin {"idle", "held"}

Freeing(t) == th[t].pc = "free"

Has(t) == IF th[t].ptr = NoPtr THEN {} ELSE {th[t].ptr, th[t].ptr + 1}

\* Handles that no call is using, and memory that is mapped and is neither in
\* a region nor of a call: what no thread will ever release.
LostHandles == {o \in handles : \A t \in THREADS : Busy(t) => th[t].obj # o}

LostMemory == {a \in Addr :
  /\ vm[a] \notin {Free, Foreign}
  /\ \A t \in THREADS : a \in Has(t) => vm[a] \notin {t, th[t].obj}}

\* Both halves of a region that a thread was given map the same memory, which
\* is mapped nowhere else, whatever other threads map and unmap meanwhile.
Mirrored == \A t \in THREADS : th[t].pc = "held" =>
  {a \in Addr : vm[a] = th[t].obj} = Has(t)

\* The allocator keeps the promise of the module MirroredAlloc: no region
\* that allocate_mirrored returns overlaps another one or memory of other
\* code, however the system calls of several threads interleave.
Promise == INSTANCE MirroredAlloc WITH
  region  <- [t \in THREADS |-> IF th[t].pc = "held" THEN th[t].ptr ELSE NoPtr],
  pending <- {t \in THREADS : Busy(t) /\ ~Freeing(t)},
  foreign <- {a \in Addr : vm[a] = Foreign}

KeepsPromise == Promise!Spec

\* Every call of allocate_mirrored and deallocate_mirrored returns, however
\* often other code takes the addresses that are about to be mapped: the
\* attempts are bounded.
Returns == \A t \in THREADS : Busy(t) ~> ~Busy(t)
=============================================================================
