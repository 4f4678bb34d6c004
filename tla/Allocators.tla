----------------------------- MODULE Allocators -----------------------------
(***************************************************************************)
(* src/mirrored/mod.rs: the program has the allocator of the platform that *)
(* it was compiled for.                                                    *)
(***************************************************************************)
EXTENDS AddressSpace

CONSTANTS MAX_NO_ITERS, MAX_NO_ALLOC_ITERS

ASSUME ItersAssumption == MAX_NO_ITERS \in Nat /\ MAX_NO_ALLOC_ITERS \in Nat

VARIABLE platform

allocvars == <<spacevars, platform>>

linux  == INSTANCE LinuxAlloc
sysv   == INSTANCE SysVAlloc
macos  == INSTANCE MachAlloc
winapi == INSTANCE WinAlloc

AllocInit ==
  /\ SpaceInit
  /\ platform \in {"linux", "sysv", "macos", "windows"}

\* A step of the thread t inside allocate_mirrored.
allocate_mirrored(t) ==
  /\ UNCHANGED platform
  /\ \/ platform = "linux"   /\ linux!Step(t)
     \/ platform = "sysv"    /\ sysv!Step(t)
     \/ platform = "macos"   /\ macos!Step(t)
     \/ platform = "windows" /\ winapi!Step(t)

deallocate_mirrored(t) ==
  /\ UNCHANGED platform
  /\ \/ platform = "linux"   /\ linux!deallocate_mirrored(t)
     \/ platform = "sysv"    /\ sysv!deallocate_mirrored(t)
     \/ platform = "macos"   /\ macos!deallocate_mirrored(t)
     \/ platform = "windows" /\ winapi!deallocate_mirrored(t)

AllocNext ==
  \/ \E t \in THREADS : Calls(t, "create") /\ UNCHANGED platform
  \/ \E t \in THREADS : allocate_mirrored(t)
  \/ \E t \in THREADS : deallocate_mirrored(t)
  \/ OtherCode /\ UNCHANGED platform

\* A thread inside the allocator goes on.
AllocSpec ==
  /\ AllocInit /\ [][AllocNext]_allocvars
  /\ \A t \in THREADS :
       /\ WF_allocvars(allocate_mirrored(t))
       /\ WF_allocvars(Freeing(t) /\ deallocate_mirrored(t))

-----------------------------------------------------------------------------
\* The two returns that forget something: the operator ? at winapi.rs:88, the
\* file mapping, and the return at macos.rs:90, the region.
LeavesFile(t) == platform = "windows" /\ winapi!reserve_fails(t)

LeavesRegion(t) == platform = "macos" /\ macos!first_fails(t)

\* Whichever system call fails, and at whichever attempt, no step of any thread
\* makes a handle or memory one that nobody will release, except that the two
\* returns above leave exactly the file mapping and the region of their call.
\* The port of the memory entry on macOS is not among the handles.
ErrorsRelease ==
  [][/\ \A o \in LostHandles' \ LostHandles :
          \E t \in THREADS : LeavesFile(t) /\ o = th[t].obj
     /\ \A a \in LostMemory' \ LostMemory :
          \E t \in THREADS : LeavesRegion(t) /\ a \in Has(t)]_allocvars
=============================================================================
