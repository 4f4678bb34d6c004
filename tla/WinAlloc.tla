------------------------------ MODULE WinAlloc ------------------------------
(***************************************************************************)
(* allocate_mirrored and deallocate_mirrored of src/mirrored/winapi.rs: a  *)
(* region is found with VirtualAlloc, given back with VirtualFree, and a   *)
(* file mapping is viewed through its halves if they are still free.       *)
(***************************************************************************)
EXTENDS AddressSpace

CONSTANT MAX_NO_ALLOC_ITERS

create_file_mapping(t) ==
  /\ th[t].pc = "create"
  /\ \/ \E o \in OBJECTS : Creates(t, o, "loop")
     \/ Fails(t) /\ UNCHANGED <<vm, handles>>

\* The file mapping is not closed after too many attempts.
ExceededKeepsFile(t) ==
  /\ th[t].pc = "loop" /\ th[t].n > MAX_NO_ALLOC_ITERS
  /\ Fails(t) /\ UNCHANGED <<vm, handles>>

\* The head of the loop, after too many attempts.
exceeded(t) ==
  /\ th[t].pc = "loop" /\ th[t].n > MAX_NO_ALLOC_ITERS
  /\ Fails(t) /\ Closes(t) /\ UNCHANGED vm

\* VirtualAlloc, in reserve_virtual_memory.
VirtualAlloc(t) ==
  /\ th[t].pc = "loop" /\ th[t].n <= MAX_NO_ALLOC_ITERS
  /\ \E a \in Places :
       /\ MapsRegion(a, t, t)
       /\ th' = [th EXCEPT ![t].pc = "unmap", ![t].ptr = a]
       /\ UNCHANGED handles

\* When VirtualAlloc fails, the operator ? returns: the file mapping is open.
reserve_fails(t) ==
  /\ th[t].pc = "loop" /\ th[t].n <= MAX_NO_ALLOC_ITERS
  /\ Fails(t) /\ UNCHANGED <<vm, handles>>

\* VirtualFree, in reserve_virtual_memory.
VirtualFree(t) ==
  /\ th[t].pc = "unmap"
  /\ MapsRegion(th[t].ptr, Free, Free)
  /\ Goes(t, "map") /\ UNCHANGED handles

\* MapViewOfFileEx does not replace what is mapped at a.
map_view_of_file(t, a, pc) ==
  vm[a] = Free /\ MapsHalf(a, th[t].obj) /\ Goes(t, pc)

unmap_view_of_file(a) == MapsHalf(a, Free)

\* The loop goes on.
Again(t) ==
  th' = [th EXCEPT ![t].pc = "loop", ![t].ptr = NoPtr, ![t].n = @ + 1]

map_first(t) ==
  /\ th[t].pc = "map" /\ UNCHANGED handles
  /\ \/ map_view_of_file(t, th[t].ptr, "mirror")
     \/ Again(t) /\ UNCHANGED vm

map_second(t) ==
  /\ th[t].pc = "mirror" /\ UNCHANGED handles
  /\ \/ map_view_of_file(t, th[t].ptr + 1, "close")
     \/ Again(t) /\ unmap_view_of_file(th[t].ptr)

close_file_mapping(t) ==
  /\ th[t].pc = "close"
  /\ Closes(t) /\ Goes(t, "held") /\ UNCHANGED vm

\* The first and the second half.
deallocate_mirrored(t) ==
  /\ UNCHANGED handles
  /\ \/ /\ th[t].pc = "held"
        /\ unmap_view_of_file(th[t].ptr) /\ Goes(t, "free")
     \/ /\ th[t].pc = "free"
        /\ unmap_view_of_file(th[t].ptr + 1) /\ Fails(t)

-----------------------------------------------------------------------------
Step(t) ==
  \/ create_file_mapping(t)
  \/ exceeded(t)
  \/ VirtualAlloc(t)
  \/ reserve_fails(t)
  \/ VirtualFree(t)
  \/ map_first(t)
  \/ map_second(t)
  \/ close_file_mapping(t)

Next ==
  \/ \E t \in THREADS : Calls(t, "create")
  \/ \E t \in THREADS : Step(t)
  \/ \E t \in THREADS : deallocate_mirrored(t)
  \/ OtherCode

Spec == SpaceInit /\ [][Next]_spacevars
=============================================================================
