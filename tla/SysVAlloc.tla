------------------------------ MODULE SysVAlloc ------------------------------
(***************************************************************************)
(* allocate_mirrored and deallocate_mirrored of src/mirrored/sysv.rs: a    *)
(* region is found with mmap, given back with munmap, and a shared memory  *)
(* segment is attached to its halves if they are still free.               *)
(***************************************************************************)
EXTENDS AddressSpace

CONSTANT MAX_NO_ITERS

\* SharedMemory::allocate
shmget(t) ==
  /\ th[t].pc = "create"
  /\ \/ \E o \in OBJECTS : Creates(t, o, "reserve")
     \/ Fails(t) /\ UNCHANGED <<vm, handles>>

\* The attempts are not counted.
ReserveForever(t) ==
  /\ th[t].pc = "reserve"
  /\ \/ \E a \in Places :
          /\ MapsRegion(a, t, t)
          /\ th' = [th EXCEPT ![t].pc = "unmap", ![t].ptr = a]
          /\ UNCHANGED handles
     \/ Fails(t) /\ Closes(t) /\ UNCHANGED vm

\* The head of the loop.  On return the segment is dropped.
reserve(t) ==
  /\ th[t].pc = "reserve"
  /\ \/ \E a \in Places :
          /\ th[t].n + 1 <= MAX_NO_ITERS
          /\ MapsRegion(a, t, t)
          /\ th' = [th EXCEPT ![t].pc = "unmap", ![t].ptr = a, ![t].n = @ + 1]
          /\ UNCHANGED handles
     \/ Fails(t) /\ Closes(t) /\ UNCHANGED vm

unmap(t) ==
  /\ th[t].pc = "unmap"
  /\ MapsRegion(th[t].ptr, Free, Free)
  /\ Goes(t, "attach") /\ UNCHANGED handles

\* The system detaches whatever is in the way.
AttachReplaces(t, a, pc) == MapsHalf(a, th[t].obj) /\ Goes(t, pc)

\* SharedMemory::attach: shmat does not replace what is mapped at a.
attach(t, a, pc) == vm[a] = Free /\ MapsHalf(a, th[t].obj) /\ Goes(t, pc)

\* Drop for MemoryMap: shmdt.
detach(a) == MapsHalf(a, Free)

\* The loop goes on: what the turn had is dropped.
Again(t) == th' = [th EXCEPT ![t].pc = "reserve", ![t].ptr = NoPtr]

attach_first(t) ==
  /\ th[t].pc = "attach" /\ UNCHANGED handles
  /\ \/ attach(t, th[t].ptr, "mirror")
     \/ Again(t) /\ UNCHANGED vm

attach_second(t) ==
  /\ th[t].pc = "mirror" /\ UNCHANGED handles
  /\ \/ attach(t, th[t].ptr + 1, "close")
     \/ Again(t) /\ detach(th[t].ptr)

\* Drop for SharedMemory: the segment goes when it is detached.
shmctl(t) ==
  /\ th[t].pc = "close"
  /\ Closes(t) /\ Goes(t, "held") /\ UNCHANGED vm

\* The maps of the first and of the second half are rebuilt and dropped.
deallocate_mirrored(t) ==
  /\ UNCHANGED handles
  /\ \/ /\ th[t].pc = "held"
        /\ detach(th[t].ptr) /\ Goes(t, "free")
     \/ /\ th[t].pc = "free"
        /\ detach(th[t].ptr + 1) /\ Fails(t)

-----------------------------------------------------------------------------
Step(t) ==
  \/ shmget(t)
  \/ reserve(t)
  \/ unmap(t)
  \/ attach_first(t)
  \/ attach_second(t)
  \/ shmctl(t)

Next ==
  \/ \E t \in THREADS : Calls(t, "create")
  \/ \E t \in THREADS : Step(t)
  \/ \E t \in THREADS : deallocate_mirrored(t)
  \/ OtherCode

Spec == SpaceInit /\ [][Next]_spacevars
=============================================================================
