------------------------------ MODULE MachAlloc ------------------------------
(***************************************************************************)
(* allocate_mirrored and deallocate_mirrored of src/mirrored/macos.rs:     *)
(* memory is allocated for the whole region, again for its first half      *)
(* alone, and the first half is mapped over the second.                    *)
(*                                                                         *)
(* The memory of the first half is an object of its own from the second    *)
(* allocation on.  The port of its memory entry is not modelled: it is not *)
(* used to map the memory, and the code notes itself that it stays open.   *)
(***************************************************************************)
EXTENDS AddressSpace

\* mach_vm_allocate, of the whole region.
mach_vm_allocate(t) ==
  /\ th[t].pc = "create" /\ UNCHANGED handles
  /\ \/ \E a \in Places :
          /\ MapsRegion(a, t, t)
          /\ th' = [th EXCEPT ![t].pc = "first", ![t].ptr = a]
     \/ Fails(t) /\ UNCHANGED vm

\* mach_vm_allocate with VM_FLAGS_OVERWRITE, of the first half.
allocate_first(t) ==
  /\ th[t].pc = "first" /\ UNCHANGED handles
  /\ \E o \in Unused :
       /\ MapsHalf(th[t].ptr, o)
       /\ th' = [th EXCEPT ![t].pc = "entry", ![t].obj = o]

\* When that fails, the call returns at once: the region stays allocated.
first_fails(t) ==
  /\ th[t].pc = "first"
  /\ Fails(t) /\ UNCHANGED <<vm, handles>>

dealloc(t) == MapsRegion(th[t].ptr, Free, Free) /\ Fails(t)

mach_make_memory_entry_64(t) ==
  /\ th[t].pc = "entry" /\ UNCHANGED handles
  /\ \/ Goes(t, "remap") /\ UNCHANGED vm
     \/ dealloc(t)

\* mach_vm_remap with VM_FLAGS_OVERWRITE and copy false.
mach_vm_remap(t) ==
  /\ th[t].pc = "remap" /\ UNCHANGED handles
  /\ \/ MapsHalf(th[t].ptr + 1, th[t].obj) /\ Goes(t, "held")
     \/ dealloc(t)

deallocate_mirrored(t) ==
  /\ th[t].pc = "held"
  /\ dealloc(t) /\ UNCHANGED handles

-----------------------------------------------------------------------------
Step(t) ==
  \/ mach_vm_allocate(t)
  \/ allocate_first(t)
  \/ first_fails(t)
  \/ mach_make_memory_entry_64(t)
  \/ mach_vm_remap(t)

Next ==
  \/ \E t \in THREADS : Calls(t, "create")
  \/ \E t \in THREADS : Step(t)
  \/ \E t \in THREADS : deallocate_mirrored(t)
  \/ OtherCode

Spec == SpaceInit /\ [][Next]_spacevars
=============================================================================
