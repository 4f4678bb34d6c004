----------------------------- MODULE LinuxAlloc -----------------------------
(***************************************************************************)
(* allocate_mirrored and deallocate_mirrored of src/mirrored/linux.rs: a   *)
(* memory file is mapped over the whole region, and again, with MAP_FIXED, *)
(* over its second half.                                                   *)
(***************************************************************************)
EXTENDS AddressSpace

\* memfd_create, or mkstemp and unlink where it is not implemented.
memfd_create(t) ==
  /\ th[t].pc = "create"
  /\ \/ \E o \in OBJECTS : Creates(t, o, "truncate")
     \/ Fails(t) /\ UNCHANGED <<vm, handles>>

\* A file that cannot get its size is closed.
ftruncate(t) ==
  /\ th[t].pc = "truncate" /\ UNCHANGED vm
  /\ \/ Goes(t, "mmap") /\ UNCHANGED handles
     \/ Fails(t) /\ Closes(t)

\* The file is half as long as the region: behind its end there is no memory.
mmap_first(t) ==
  /\ th[t].pc = "mmap"
  /\ \/ \E a \in Places :
          /\ MapsRegion(a, th[t].obj, t)
          /\ th' = [th EXCEPT ![t].pc = "fixed", ![t].ptr = a]
          /\ UNCHANGED handles
     \/ Fails(t) /\ Closes(t) /\ UNCHANGED vm

\* The file is mapped again where it already is.
SecondAtStart(t) ==
  /\ th[t].pc = "fixed"
  /\ \/ MapsHalf(th[t].ptr, th[t].obj) /\ Goes(t, "close") /\ UNCHANGED handles
     \/ Fails(t) /\ Closes(t) /\ MapsRegion(th[t].ptr, Free, Free)

mmap_second(t) ==
  /\ th[t].pc = "fixed"
  /\ \/ MapsHalf(th[t].ptr + 1, th[t].obj) /\ Goes(t, "close") /\ UNCHANGED handles
     \/ Fails(t) /\ Closes(t) /\ MapsRegion(th[t].ptr, Free, Free)

close(t) ==
  /\ th[t].pc = "close"
  /\ Closes(t) /\ Goes(t, "held") /\ UNCHANGED vm

deallocate_mirrored(t) ==
  /\ th[t].pc = "held"
  /\ MapsRegion(th[t].ptr, Free, Free) /\ Fails(t) /\ UNCHANGED handles

-----------------------------------------------------------------------------
Step(t) ==
  \/ memfd_create(t)
  \/ ftruncate(t)
  \/ mmap_first(t)
  \/ mmap_second(t)
  \/ close(t)

Next ==
  \/ \E t \in THREADS : Calls(t, "create")
  \/ \E t \in THREADS : Step(t)
  \/ \E t \in THREADS : deallocate_mirrored(t)
  \/ OtherCode

Spec == SpaceInit /\ [][Next]_spacevars
=============================================================================
