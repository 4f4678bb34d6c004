-------------------------- MODULE AllocatorProofs --------------------------
(***************************************************************************)
(* Proofs that the four allocators of src/mirrored are right for every     *)
(* number of threads and objects, every size of the address space and      *)
(* every number of attempts.                                               *)
(***************************************************************************)
EXTENDS Allocators, TLAPS

-----------------------------------------------------------------------------
(* The inductive invariant says what is at every address and who has every *)
(* handle, from where each thread is.  A program counter means the same on *)
(* each platform that has it.                                              *)

\* The thread has an object.
HasObject(t) == th[t].pc \notin {"idle", "create", "first"}

\* The thread has the handle of its object.
HasHandle(t) == th[t].pc \in {"truncate", "mmap", "fixed", "reserve", "loop", "unmap",
                              "attach", "map", "mirror", "close"}

\* Its object is mapped at a.
Mapped(t, a) ==
  \/ /\ th[t].pc \in {"fixed", "entry", "remap", "mirror", "close", "held"}
     /\ a = th[t].ptr
  \/ /\ th[t].pc \in {"close", "held", "free"}
     /\ a = th[t].ptr + 1

\* The thread has memory at a that is no object.
Reserved(t, a) ==
  \/ /\ th[t].pc \in {"unmap", "first"}
     /\ a = th[t].ptr
  \/ /\ th[t].pc \in {"unmap", "first", "fixed", "entry", "remap"}
     /\ a = th[t].ptr + 1

\* The thread has chosen an address for its region.
Placed(t) == th[t].pc \notin {"idle", "create", "truncate", "mmap", "reserve", "loop"}

Pcs == {"idle", "create", "truncate", "mmap", "fixed", "reserve", "loop", "unmap", "attach",
        "map", "mirror", "close", "first", "entry", "remap", "held", "free"}

ThreadOK(t) ==
  /\ th[t] = [pc |-> th[t].pc, obj |-> th[t].obj, ptr |-> th[t].ptr, n |-> th[t].n]
  /\ th[t].pc \in Pcs
  /\ IF HasObject(t) THEN th[t].obj \in OBJECTS ELSE th[t].obj = Free
  /\ IF Placed(t) THEN th[t].ptr \in 0 .. SPACE - 2 ELSE th[t].ptr = NoPtr

Contents == {Free, Foreign} \cup THREADS \cup OBJECTS

Types ==
  /\ platform \in {"linux", "sysv", "macos", "windows"}
  /\ vm \in [Addr -> Contents]
  /\ handles \subseteq OBJECTS
  /\ DOMAIN th = THREADS
  /\ \A t \in THREADS : ThreadOK(t)

\* No two threads have the same object.
ObjectsApart == \A t, u \in THREADS :
  t # u /\ HasObject(t) => th[t].obj # th[u].obj

\* An object is mapped exactly where its thread has mapped it.
ObjectsMapped ==
  /\ \A t \in THREADS, a \in Addr : HasObject(t) => (vm[a] = th[t].obj <=> Mapped(t, a))
  /\ \A a \in Addr : vm[a] \in OBJECTS => \E t \in THREADS : HasObject(t) /\ vm[a] = th[t].obj

\* A thread has reserved the memory that it will release.  What macos.rs:90
\* leaves behind is no longer where the thread has its region.
MemoryReserved == \A t \in THREADS, a \in Addr :
  /\ Reserved(t, a) => vm[a] = t
  /\ vm[a] = t /\ a \in Has(t) => Reserved(t, a)

\* The handle to a thread's object is open as long as the thread has it.  The
\* object whose handle winapi.rs:88 leaves open is no longer the thread's.
HandlesHeld == \A t \in THREADS : HasObject(t) => (HasHandle(t) <=> th[t].obj \in handles)

AInv == Types /\ ObjectsApart /\ ObjectsMapped /\ MemoryReserved /\ HandlesHeld

-----------------------------------------------------------------------------
\* Before the first call nothing is mapped and no handle is open.
LEMMA InitAInv == AllocInit => AInv
<1> SUFFICES ASSUME AllocInit PROVE AInv
  OBVIOUS
<1>1. /\ vm = [a \in Addr |-> Free] /\ handles = {}
      /\ th = [t \in THREADS |-> Outside]
      /\ platform \in {"linux", "sysv", "macos", "windows"}
  BY DEF AllocInit, SpaceInit
<1>2. \A t \in THREADS : /\ th[t].pc = "idle" /\ th[t].obj = Free /\ th[t].ptr = NoPtr
                         /\ th[t] = [pc |-> th[t].pc, obj |-> th[t].obj, ptr |-> th[t].ptr, n |-> th[t].n]
  BY <1>1 DEF Outside
<1>4. Types
  BY <1>1, <1>2 DEF Contents, Types, ThreadOK, HasObject, Placed, Pcs
<1>5. ObjectsApart /\ ObjectsMapped /\ MemoryReserved /\ HandlesHeld
  BY <1>1, <1>2, SpaceAssumption
  DEF ObjectsApart, ObjectsMapped, MemoryReserved, HandlesHeld, HasObject, HasHandle, Reserved, Mapped
<1> QED
  BY <1>4, <1>5 DEF AInv

-----------------------------------------------------------------------------
(* What the invariant says of one thread.                                  *)

\* The address of a region leaves room for both of its halves.
LEMMA InSpace ==
  ASSUME AInv, NEW t \in THREADS, Placed(t)
  PROVE  th[t].ptr \in 0 .. SPACE - 2 /\ th[t].ptr \in Addr /\ th[t].ptr + 1 \in Addr
BY SpaceAssumption DEF AInv, Types, ThreadOK, Addr

\* A thread's object is not one that a system call could make anew: there is a
\* handle to it, or it is mapped.
LEMMA NotUnused ==
  ASSUME AInv, NEW t \in THREADS, HasObject(t)
  PROVE  th[t].obj \in OBJECTS \ Unused
<1>1. th[t].obj \in OBJECTS /\ th[t].pc \in Pcs
  BY DEF AInv, Types, ThreadOK
<1>2. CASE HasHandle(t)
  BY <1>1, <1>2 DEF AInv, HandlesHeld, Unused
<1>3. CASE ~HasHandle(t)
  <2>1. Placed(t)
    BY <1>1, <1>3 DEF HasObject, HasHandle, Placed, Pcs
  <2>2. Mapped(t, th[t].ptr) \/ Mapped(t, th[t].ptr + 1)
    BY <1>1, <1>3 DEF HasObject, HasHandle, Mapped, Pcs
  <2>3. \E a \in Addr : vm[a] = th[t].obj
    BY <2>1, <2>2, InSpace DEF AInv, ObjectsMapped
  <2> QED
    BY <1>1, <2>3 DEF Unused
<1> QED
  BY <1>2, <1>3

\* What is mapped where the thread has memory.
LEMMA OneThread ==
  ASSUME AInv, NEW t \in THREADS, NEW a \in Addr
  PROVE  /\ HasObject(t) => (vm[a] = th[t].obj <=> Mapped(t, a))
         /\ Reserved(t, a) => vm[a] = t
         /\ vm[a] = t /\ a \in Has(t) => Reserved(t, a)
BY DEF AInv, ObjectsMapped, MemoryReserved

\* Mapping one half changes that half.
LEMMA HalfMapped ==
  ASSUME AInv, NEW a \in Addr, NEW x \in Contents, MapsHalf(a, x)
  PROVE  vm' \in [Addr -> Contents] /\ vm'[a] = x /\ \A b \in Addr \ {a} : vm'[b] = vm[b]
BY DEF AInv, Types, MapsHalf

\* Mapping a region changes its two halves.
LEMMA RegionMapped ==
  ASSUME AInv, NEW a \in 0 .. SPACE - 2, NEW x \in Contents, NEW y \in Contents,
         MapsRegion(a, x, y)
  PROVE  /\ vm' \in [Addr -> Contents] /\ vm'[a] = x /\ vm'[a + 1] = y
         /\ \A b \in Addr \ {a, a + 1} : vm'[b] = vm[b]
<1>1. a \in Addr /\ a + 1 \in Addr /\ a # a + 1
  BY SpaceAssumption DEF Addr
<1> QED
  BY <1>1 DEF AInv, Types, MapsRegion

-----------------------------------------------------------------------------
(* A step of a thread keeps the invariant if it touches nothing that other *)
(* threads rely on, and is right for the thread itself.                    *)

\* The thread t goes to pc with the object o and the address p, and the other
\* threads stay where they are.
Moves(t, pc, o, p) ==
  /\ DOMAIN th' = THREADS
  /\ th'[t] = [pc |-> pc, obj |-> o, ptr |-> p, n |-> th'[t].n]
  /\ \A u \in THREADS \ {t} : th'[u] = th[u]
  /\ UNCHANGED platform

\* The memory that t maps or unmaps was and is its own or free, an object that
\* it lets go is no longer mapped, and so is all memory that it had and has no
\* more, except at macos.rs:90.
OwnMemory(t) == \A a \in Addr :
  /\ vm'[a] # vm[a] =>
       /\ vm[a]  \in {Free, t} \/ (HasObject(t)  /\ vm[a]  = th[t].obj)
       /\ vm'[a] = Free \/ Reserved(t, a)' \/ (HasObject(t)' /\ vm'[a] = th'[t].obj)
  /\ HasObject(t)' => (vm'[a] = th'[t].obj <=> Mapped(t, a)')
  /\ HasObject(t) /\ ~HasObject(t)' => vm'[a] # th[t].obj
  /\ Reserved(t, a)' => vm'[a] = t
  /\ vm'[a] = t /\ a \in Has(t)' => Reserved(t, a)'
  /\ Reserved(t, a) \/ Mapped(t, a) =>
       LeavesRegion(t) \/ vm'[a] = Free \/ Reserved(t, a)' \/ Mapped(t, a)'

\* The handle that t opens or closes is that of its object, and it closes what
\* it had and has no more, except at winapi.rs:88.
OwnHandle(t) ==
  /\ handles' \subseteq OBJECTS
  /\ \A o \in OBJECTS :
       /\ o \in handles' => o \in handles  \/ (HasHandle(t)' /\ o = th'[t].obj)
       /\ o \in handles  => o \in handles' \/ (HasObject(t)  /\ o = th[t].obj)
  /\ HasObject(t)' => (HasHandle(t)' <=> th'[t].obj \in handles')
  /\ HasHandle(t) /\ ~HasHandle(t)' => LeavesFile(t) \/ th[t].obj \notin handles'

\* It keeps its object, drops it, or takes an unused one.
OwnObject(t) ==
  HasObject(t)' => \/ HasObject(t) /\ th'[t].obj = th[t].obj
                   \/ ~HasObject(t) /\ th'[t].obj \in Unused

\* The steps of one thread do not disturb another: whatever a system call of t
\* maps, unmaps, opens or closes is not what another thread has.
LEMMA OneMoves ==
  ASSUME AInv, NEW t \in THREADS, NEW pc \in Pcs, NEW o, NEW p, Moves(t, pc, o, p),
         ThreadOK(t)', vm' \in [Addr -> Contents],
         OwnMemory(t), OwnHandle(t), OwnObject(t)
  PROVE  AInv'
<1>1. Types'
  BY DEF AInv, Types, ThreadOK, HasObject, Placed, OwnHandle, Moves, Contents, Addr
<1>2. \A u \in THREADS \ {t} :
         /\ th'[u] = th[u]
         /\ HasObject(u)' <=> HasObject(u)
         /\ HasHandle(u)' <=> HasHandle(u)
         /\ \A a \in Addr : (Mapped(u, a)' <=> Mapped(u, a)) /\ (Reserved(u, a)' <=> Reserved(u, a))
  BY DEF Moves, HasObject, HasHandle, Mapped, Reserved
<1>3. ASSUME NEW u \in THREADS \ {t}, HasObject(u)
      PROVE  /\ th[u].obj \in OBJECTS
             /\ HasObject(t)  => th[u].obj # th[t].obj
             /\ HasObject(t)' => th[u].obj # th'[t].obj
  BY <1>3, NotUnused DEF AInv, ObjectsApart, OwnObject
<1>4. ASSUME NEW u \in THREADS, NEW v \in THREADS, u # v, HasObject(u)'
      PROVE  th'[u].obj # th'[v].obj
  <2>1. CASE HasObject(v)'
    BY <1>2, <1>3, <1>4, <2>1 DEF AInv, ObjectsApart
  <2>2. CASE ~HasObject(v)'
    BY <1>1, <1>4, <2>2, SpaceAssumption DEF Types, ThreadOK
  <2> QED
    BY <2>1, <2>2
<1>5. ASSUME NEW u \in THREADS, HasObject(u)', NEW a \in Addr
      PROVE  vm'[a] = th'[u].obj <=> Mapped(u, a)'
  <2>1. CASE u = t
    BY <1>5, <2>1 DEF OwnMemory
  <2>2. CASE u # t
    <3>1. HasObject(u) /\ (vm[a] = th[u].obj <=> Mapped(u, a))
      BY <1>2, <1>5, <2>2 DEF AInv, ObjectsMapped
    <3>2. vm'[a] # vm[a] => vm[a] # th[u].obj /\ vm'[a] # th[u].obj
      BY <1>3, <2>2, <3>1, SpaceAssumption DEF OwnMemory
    <3> QED
      BY <1>2, <2>2, <3>1, <3>2
  <2> QED
    BY <2>1, <2>2
<1>6. ASSUME NEW a \in Addr, vm'[a] \in OBJECTS
      PROVE  \E u \in THREADS : HasObject(u)' /\ vm'[a] = th'[u].obj
  <2>1. CASE vm'[a] # vm[a]
    BY <1>6, <2>1, SpaceAssumption DEF OwnMemory
  <2>2. CASE vm'[a] = vm[a]
    <3>1. PICK u \in THREADS : HasObject(u) /\ vm[a] = th[u].obj
      BY <1>6, <2>2 DEF AInv, ObjectsMapped
    <3>2. CASE u # t
      BY <1>2, <2>2, <3>1, <3>2
    <3>3. CASE u = t
      BY <2>2, <3>1, <3>3, NotUnused DEF OwnMemory, OwnObject
    <3> QED
      BY <3>2, <3>3
  <2> QED
    BY <2>1, <2>2
<1>7. ObjectsMapped'
  BY <1>5, <1>6 DEF ObjectsMapped, Addr
<1>15. ObjectsApart'
  BY <1>4 DEF ObjectsApart
<1>8. ASSUME NEW u \in THREADS, NEW a \in Addr
      PROVE  /\ Reserved(u, a)' => vm'[a] = u
             /\ vm'[a] = u /\ a \in Has(u)' => Reserved(u, a)'
  <2>1. CASE u = t
    BY <2>1 DEF OwnMemory
  <2>2. CASE u # t
    <3>1. vm'[a] # vm[a] => vm[a] # u /\ vm'[a] # u
      BY <2>2, <1>1, SpaceAssumption DEF OwnMemory, AInv, Types, ThreadOK
    <3>2. Has(u)' = Has(u)
      BY <1>2, <2>2 DEF Has
    <3> QED
      BY <1>2, <2>2, <3>1, <3>2 DEF AInv, MemoryReserved
  <2> QED
    BY <2>1, <2>2
<1>9. MemoryReserved'
  BY <1>8 DEF MemoryReserved, Moves, Addr
<1>10. ASSUME NEW u \in THREADS, HasObject(u)'
       PROVE  HasHandle(u)' <=> th'[u].obj \in handles'
  <2>1. CASE u = t
    BY <1>10, <2>1 DEF OwnHandle
  <2>2. CASE u # t
    <3>1. HasObject(u) /\ (HasHandle(u) <=> th[u].obj \in handles)
      BY <1>2, <1>10, <2>2 DEF AInv, HandlesHeld
    <3>2. /\ HasObject(t)  => th[u].obj # th[t].obj
          /\ HasObject(t)' => th[u].obj # th'[t].obj
          /\ th[u].obj \in OBJECTS
      BY <1>3, <2>2, <3>1
    <3>3. HasHandle(t)' => HasObject(t)'
      BY DEF HasHandle, HasObject
    <3> QED
      BY <1>2, <2>2, <3>1, <3>2, <3>3 DEF OwnHandle
  <2> QED
    BY <2>1, <2>2
<1>12. HandlesHeld'
  BY <1>10 DEF HandlesHeld
<1> QED
  BY <1>1, <1>7, <1>15, <1>9, <1>12 DEF AInv

-----------------------------------------------------------------------------
(* The promise of MirroredAlloc, of which every step of a thread is a step *)
(* or a stutter.                                                           *)

PromiseStep == [Promise!Next]_(Promise!vars)

TheRegion == [t \in THREADS |-> IF th[t].pc = "held" THEN th[t].ptr ELSE NoPtr]

ThePending == {t \in THREADS : Busy(t) /\ ~Freeing(t)}

TheForeign == {a \in Addr : vm[a] = Foreign}

\* The two halves of a region are where its object is mapped.
HeldMapped == \A t \in THREADS : th[t].pc = "held" =>
  /\ th[t].ptr \in 0 .. SPACE - 2 /\ th[t].obj \in OBJECTS
  /\ Promise!Halves(th[t].ptr) = {th[t].ptr, th[t].ptr + 1}
  /\ Promise!Halves(th[t].ptr) \subseteq Addr
  /\ \A a \in Addr : a \in Promise!Halves(th[t].ptr) <=> vm[a] = th[t].obj

\* A region that allocate_mirrored has returned is mapped as it should be.
LEMMA HeldIsMapped == AInv => HeldMapped
<1> SUFFICES ASSUME AInv, NEW t \in THREADS, th[t].pc = "held"
             PROVE  /\ th[t].ptr \in 0 .. SPACE - 2 /\ th[t].obj \in OBJECTS
                    /\ Promise!Halves(th[t].ptr) = {th[t].ptr, th[t].ptr + 1}
                    /\ Promise!Halves(th[t].ptr) \subseteq Addr
                    /\ \A a \in Addr : a \in Promise!Halves(th[t].ptr) <=> vm[a] = th[t].obj
  BY DEF HeldMapped
<1>1. HasObject(t) /\ Placed(t)
  BY DEF HasObject, Placed
<1>2. th[t].ptr \in 0 .. SPACE - 2 /\ th[t].ptr \in Addr /\ th[t].ptr + 1 \in Addr
  BY <1>1, InSpace
<1>3. Promise!Halves(th[t].ptr) = {th[t].ptr, th[t].ptr + 1}
  BY <1>2, SpaceAssumption DEF Promise!Halves
<1>4. \A a \in Addr : vm[a] = th[t].obj <=> a \in {th[t].ptr, th[t].ptr + 1}
  BY <1>1, OneThread DEF Mapped
<1>5. th[t].obj \in OBJECTS
  BY <1>1 DEF AInv, Types, ThreadOK
<1> QED
  BY <1>2, <1>3, <1>4, <1>5

\* A thread that changes only its own memory, and is given a region only from
\* within a call and loses it only by giving it back, abides by the promise.
LEMMA Abides ==
  ASSUME AInv, AInv', NEW t \in THREADS, NEW pc, NEW o, NEW p, Moves(t, pc, o, p), OwnMemory(t),
         th[t].pc = "held" => pc \in {"idle", "free"},
         th[t].pc \in {"idle", "free"} => pc # "held"
  PROVE  PromiseStep
<1>0. HeldMapped /\ HeldMapped'
  BY HeldIsMapped, PTL
<1>1. TheForeign' = TheForeign
  <2>1. \A a \in Addr : vm[a] = Foreign <=> vm'[a] = Foreign
    <3> TAKE a \in Addr
    <3>1. HasObject(t) => th[t].obj # Foreign
      BY SpaceAssumption DEF AInv, Types, ThreadOK
    <3>2. HasObject(t)' => th'[t].obj # Foreign
      BY SpaceAssumption DEF AInv, Types, ThreadOK
    <3> QED
      BY <3>1, <3>2, SpaceAssumption DEF OwnMemory
  <2> QED
    BY <2>1 DEF TheForeign, Addr
<1>2. \A u \in THREADS \ {t} : TheRegion'[u] = TheRegion[u] /\ (u \in ThePending' <=> u \in ThePending)
  BY DEF TheRegion, ThePending, Busy, Freeing, Moves
<1>3. /\ TheRegion'[t] = IF pc = "held" THEN p ELSE NoPtr
      /\ TheRegion[t] = IF th[t].pc = "held" THEN th[t].ptr ELSE NoPtr
      /\ t \in ThePending  <=> th[t].pc \notin {"idle", "held", "free"}
      /\ t \in ThePending' <=> pc \notin {"idle", "held", "free"}
  BY DEF TheRegion, ThePending, Busy, Freeing, Moves
<1>4. TheRegion' = [TheRegion EXCEPT ![t] = TheRegion'[t]]
  BY <1>2 DEF TheRegion
<1>5. CASE pc = "held" /\ th[t].pc \notin {"idle", "held", "free"}
  <2>1. th'[t].pc = "held" /\ th'[t].ptr = p /\ TheRegion'[t] = p
    BY <1>3, <1>5 DEF Moves
  <2>2. /\ p \in 0 .. SPACE - 2 /\ th'[t].obj \in OBJECTS
        /\ \A a \in Addr : a \in Promise!Halves(p) <=> vm'[a] = th'[t].obj
        /\ Promise!Halves(p) \subseteq Addr
    BY <1>0, <2>1 DEF HeldMapped, Addr
  <2>3. Promise!Halves(p) \cap TheForeign = {}
    BY <1>1, <2>2, SpaceAssumption DEF TheForeign
  <2>4. ASSUME NEW u \in THREADS
        PROVE  Promise!Halves(p) \cap Promise!Halves(TheRegion[u]) = {}
    <3>1. CASE th[u].pc = "held"
      <4>1. u # t /\ th'[u] = th[u] /\ TheRegion[u] = th[u].ptr
        BY <1>5, <3>1 DEF Moves, TheRegion
      <4>2. \A a \in Addr : a \in Promise!Halves(th[u].ptr) <=> vm'[a] = th[u].obj
        BY <1>0, <3>1, <4>1 DEF HeldMapped, Addr
      <4>3. th'[t].obj # th[u].obj
        BY <2>1, <4>1 DEF AInv, ObjectsApart, HasObject
      <4> QED
        BY <2>2, <4>1, <4>2, <4>3
    <3>2. CASE th[u].pc # "held"
      BY <3>2 DEF TheRegion, Promise!Halves
    <3> QED
      BY <3>1, <3>2
  <2>5. ThePending' = ThePending \ {t}
    BY <1>2, <1>3, <1>5 DEF ThePending
  <2>6. Promise!Succeed(t, p)
    BY <1>1, <1>3, <1>4, <1>5, <2>1, <2>3, <2>4, <2>5
    DEF Promise!Succeed, TheRegion, ThePending, TheForeign
  <2> QED
    BY <2>2, <2>6 DEF PromiseStep, Promise!Next
<1>6. CASE pc \notin {"idle", "held", "free"} /\ th[t].pc \in {"idle", "free"}
  <2>1. ThePending' = ThePending \cup {t}
    BY <1>2, <1>3, <1>6 DEF ThePending
  <2>2. TheRegion' = TheRegion
    BY <1>3, <1>4, <1>6 DEF TheRegion
  <2>3. Promise!Call(t)
    BY <1>1, <1>3, <1>6, <2>1, <2>2 DEF Promise!Call, TheRegion, ThePending, TheForeign
  <2> QED
    BY <2>3 DEF PromiseStep, Promise!Next
<1>7. CASE pc \in {"idle", "free"} /\ th[t].pc \notin {"idle", "held", "free"}
  <2>1. ThePending' = ThePending \ {t}
    BY <1>2, <1>3, <1>7 DEF ThePending
  <2>2. TheRegion' = TheRegion
    BY <1>3, <1>4, <1>7 DEF TheRegion
  <2>3. Promise!Fail(t)
    BY <1>1, <1>3, <1>7, <2>1, <2>2 DEF Promise!Fail, TheRegion, ThePending, TheForeign
  <2> QED
    BY <2>3 DEF PromiseStep, Promise!Next
<1>8. CASE pc \in {"idle", "free"} /\ th[t].pc = "held"
  <2>1. ThePending' = ThePending
    BY <1>2, <1>3, <1>8 DEF ThePending
  <2>2. TheRegion' = [TheRegion EXCEPT ![t] = NoPtr]
    BY <1>3, <1>4, <1>8
  <2>3. TheRegion[t] # NoPtr
    BY <1>0, <1>3, <1>8, SpaceAssumption DEF HeldMapped
  <2>4. Promise!Deallocate(t)
    BY <1>1, <2>1, <2>2, <2>3 DEF Promise!Deallocate, TheRegion, ThePending, TheForeign
  <2> QED
    BY <2>4 DEF PromiseStep, Promise!Next
<1>9. CASE \/ pc \in {"idle", "free"} /\ th[t].pc \in {"idle", "free"}
           \/ pc \notin {"idle", "held", "free"} /\ th[t].pc \notin {"idle", "held", "free"}
  <2>1. ThePending' = ThePending
    BY <1>2, <1>3, <1>9 DEF ThePending
  <2>2. TheRegion' = TheRegion
    BY <1>3, <1>4, <1>9 DEF TheRegion
  <2> QED
    BY <1>1, <2>1, <2>2 DEF PromiseStep, Promise!vars, TheRegion, ThePending, TheForeign
<1> QED
  BY <1>5, <1>6, <1>7, <1>8, <1>9

-----------------------------------------------------------------------------
(* What ErrorsRelease says of a step.                                      *)

ReleaseStep ==
  [/\ \A o \in LostHandles' \ LostHandles :
        \E t \in THREADS : LeavesFile(t) /\ o = th[t].obj
   /\ \A a \in LostMemory' \ LostMemory :
        \E t \in THREADS : LeavesRegion(t) /\ a \in Has(t)]_allocvars

\* What a thread has mapped or reserved is where its region is.
LEMMA HasIts ==
  ASSUME AInv, NEW t \in THREADS, NEW a \in Addr, Reserved(t, a) \/ Mapped(t, a)
  PROVE  a \in Has(t)
<1>1. Placed(t)
  BY DEF Reserved, Mapped, Placed
<1>2. th[t].ptr # NoPtr
  BY <1>1, InSpace, SpaceAssumption
<1> QED
  BY <1>2 DEF Has, Reserved, Mapped

\* So it is after a step.
LEMMA HasItsThen ==
  ASSUME AInv', NEW t \in THREADS, NEW a \in Addr, (Reserved(t, a) \/ Mapped(t, a))'
  PROVE  a \in Has(t)'
<1>1. Placed(t)'
  BY DEF Reserved, Mapped, Placed
<1>2. th'[t].ptr # NoPtr
  BY <1>1, SpaceAssumption DEF AInv, Types, ThreadOK
<1> QED
  BY <1>2 DEF Has, Reserved, Mapped

\* A thread that closes its handle and unmaps its memory before it forgets
\* them, or is at one of the two returns, loses nothing else.
LEMMA Releases ==
  ASSUME AInv, AInv', NEW t \in THREADS, NEW pc, NEW o, NEW p, Moves(t, pc, o, p),
         OwnMemory(t), OwnHandle(t), OwnObject(t)
  PROVE  ReleaseStep
<1>0. \A u \in THREADS \ {t} : th'[u] = th[u] /\ Has(u)' = Has(u) /\ (Busy(u)' <=> Busy(u))
  BY DEF Moves, Has, Busy
<1>1. ASSUME NEW h \in LostHandles', h \notin LostHandles
      PROVE  \E u \in THREADS : LeavesFile(u) /\ h = th[u].obj
  <2>1. h \in handles' /\ h \in OBJECTS /\ \A u \in THREADS : Busy(u)' => th'[u].obj # h
    BY <1>1 DEF LostHandles, OwnHandle
  <2>2. h \in handles
    BY <2>1 DEF OwnHandle, HasHandle, Busy
  <2>3. PICK u \in THREADS : Busy(u) /\ th[u].obj = h
    BY <1>1, <2>2 DEF LostHandles
  <2>4. u = t
    BY <1>0, <2>1, <2>3
  <2>5. HasObject(t)
    BY <2>1, <2>3, <2>4, SpaceAssumption DEF AInv, Types, ThreadOK
  <2>6. HasHandle(t)
    BY <2>2, <2>3, <2>4, <2>5 DEF AInv, HandlesHeld
  <2>7. ~HasHandle(t)'
    <3> SUFFICES ASSUME HasHandle(t)' PROVE FALSE
      OBVIOUS
    <3>1. HasObject(t)' /\ Busy(t)'
      BY DEF HasHandle, HasObject, Busy
    <3>2. th'[t].obj = h
      BY <2>3, <2>4, <2>5, <3>1 DEF OwnObject
    <3> QED
      BY <2>1, <3>1, <3>2
  <2> QED
    BY <2>1, <2>3, <2>4, <2>6, <2>7 DEF OwnHandle
<1>2. ASSUME NEW a \in LostMemory', a \notin LostMemory
      PROVE  \E u \in THREADS : LeavesRegion(u) /\ a \in Has(u)
  <2>1. /\ a \in Addr /\ vm'[a] \notin {Free, Foreign}
        /\ \A u \in THREADS : a \in Has(u)' => vm'[a] \notin {u, th'[u].obj}
    BY <1>2 DEF LostMemory, Addr
  <2>2. ~Reserved(t, a)' /\ ~Mapped(t, a)'
    <3> SUFFICES ASSUME Reserved(t, a)' \/ Mapped(t, a)' PROVE FALSE
      OBVIOUS
    <3>1. a \in Has(t)'
      BY <2>1, HasItsThen
    <3>2. Reserved(t, a)' => vm'[a] = t
      BY <2>1 DEF OwnMemory
    <3>3. Mapped(t, a)' => HasObject(t)'
      BY DEF Mapped, HasObject
    <3>4. Mapped(t, a)' => vm'[a] = th'[t].obj
      BY <2>1, <3>3 DEF OwnMemory
    <3> QED
      BY <2>1, <3>1, <3>2, <3>4
  <2>3. vm'[a] = vm[a]
    BY <2>1, <2>2 DEF OwnMemory
  <2>4. PICK u \in THREADS : a \in Has(u) /\ vm[a] \in {u, th[u].obj}
    BY <1>2, <2>1, <2>3 DEF LostMemory
  <2>5. u = t
    BY <1>0, <2>1, <2>3, <2>4
  <2>6. Reserved(t, a) \/ Mapped(t, a)
    <3>1. CASE vm[a] = t
      BY <2>1, <2>4, <2>5, <3>1, OneThread
    <3>2. CASE vm[a] = th[t].obj
      <4>1. HasObject(t)
        BY <2>1, <2>3, <3>2 DEF AInv, Types, ThreadOK
      <4> QED
        BY <2>1, <3>2, <4>1, OneThread
    <3> QED
      BY <2>4, <2>5, <3>1, <3>2
  <2> QED
    BY <2>1, <2>2, <2>4, <2>5, <2>6 DEF OwnMemory
<1> QED
  BY <1>1, <1>2 DEF ReleaseStep

\* What every step abides by.
SafeStep == PromiseStep /\ ReleaseStep

-----------------------------------------------------------------------------
(* The steps of the four allocators have a few shapes, each proved once.   *)

\* No handle stays open to the object of a region.
LEMMA NoHandle ==
  ASSUME AInv, NEW t \in THREADS, ~HasHandle(t)
  PROVE  th[t].obj \notin handles
BY SpaceAssumption DEF AInv, Types, ThreadOK, HandlesHeld

\* A call enters allocate_mirrored, or goes on with what it has: ftruncate of
\* linux.rs and mach_make_memory_entry_64 of macos.rs change no mapping.
LEMMA GoesOn ==
  ASSUME AInv, NEW t \in THREADS, NEW pc,
         \/ th[t].pc = "idle" /\ pc = "create"
         \/ th[t].pc = "truncate" /\ pc = "mmap"
         \/ th[t].pc = "entry" /\ pc = "remap",
         Moves(t, pc, th[t].obj, th[t].ptr), UNCHANGED <<vm, handles>>
  PROVE  AInv' /\ SafeStep
<1>1. th[t].pc \in Pcs /\ ThreadOK(t) /\ (HasObject(t) => th[t].obj \in OBJECTS)
  BY DEF AInv, Types, ThreadOK
<1>2. ThreadOK(t)'
  BY <1>1, SpaceAssumption DEF ThreadOK, HasObject, Placed, Pcs, Moves, Places, Unused
<1>3. vm' = vm /\ vm' \in [Addr -> Contents]
  BY DEF AInv, Types
<1>4. Placed(t) => th[t].ptr \in Addr /\ th[t].ptr + 1 \in Addr
  BY InSpace
<1>5. OwnMemory(t)
  BY <1>1, <1>3, <1>4, OneThread, SpaceAssumption
  DEF OwnMemory, Has, HasObject, Mapped, Reserved, Moves, Places, Unused
<1>6. OwnHandle(t)
  BY <1>1, NoHandle, SpaceAssumption DEF OwnHandle, AInv, Types, ThreadOK, HandlesHeld, HasObject, HasHandle, Closes, Moves, Unused
<1>7. OwnObject(t)
  BY DEF OwnObject, HasObject, Moves
<1>8. AInv'
  BY <1>1, <1>2, <1>3, <1>4, <1>5, <1>6, <1>7, OneMoves DEF Pcs
<1> QED
  BY <1>5, <1>6, <1>7, <1>8, Abides, Releases DEF SafeStep

\* A new object is nobody's: memfd_create, shmget, CreateFileMappingW.
LEMMA CreatesObject ==
  ASSUME AInv, NEW t \in THREADS, NEW pc \in {"truncate", "reserve", "loop"}, NEW o \in Unused,
         th[t].pc = "create",
         Moves(t, pc, o, NoPtr), handles' = handles \cup {o}, UNCHANGED vm
  PROVE  AInv' /\ SafeStep
<1>1. th[t].pc \in Pcs /\ ThreadOK(t) /\ (HasObject(t) => th[t].obj \in OBJECTS)
  BY DEF AInv, Types, ThreadOK
<1>2. ThreadOK(t)'
  BY <1>1, SpaceAssumption DEF ThreadOK, HasObject, Placed, Pcs, Moves, Places, Unused
<1>3. vm' = vm /\ vm' \in [Addr -> Contents]
  BY DEF AInv, Types
<1>4. Placed(t) => th[t].ptr \in Addr /\ th[t].ptr + 1 \in Addr
  BY InSpace
<1>5. OwnMemory(t)
  BY <1>1, <1>3, <1>4, OneThread, SpaceAssumption
  DEF OwnMemory, Has, HasObject, Mapped, Reserved, Moves, Places, Unused
<1>6. OwnHandle(t)
  BY <1>1, NoHandle, SpaceAssumption DEF OwnHandle, AInv, Types, ThreadOK, HandlesHeld, HasObject, HasHandle, Closes, Moves, Unused
<1>7. OwnObject(t)
  BY DEF OwnObject, HasObject, Moves
<1>8. AInv'
  BY <1>1, <1>2, <1>3, <1>4, <1>5, <1>6, <1>7, OneMoves DEF Pcs
<1> QED
  BY <1>5, <1>6, <1>7, <1>8, Abides, Releases DEF SafeStep

\* A call that has mapped nothing ends with an error and closes its handle.
\* winapi.rs:88 does not close it, and macos.rs:90 leaves its region.
LEMMA FailsEarly ==
  ASSUME AInv, NEW t \in THREADS,
         \/ th[t].pc = "create" /\ UNCHANGED handles
         \/ th[t].pc \in {"truncate", "mmap", "reserve", "loop"} /\ Closes(t)
         \/ th[t].pc = "loop" /\ LeavesFile(t) /\ UNCHANGED handles
         \/ th[t].pc = "first" /\ LeavesRegion(t) /\ UNCHANGED handles,
         Moves(t, "idle", Free, NoPtr), UNCHANGED vm
  PROVE  AInv' /\ SafeStep
<1>1. th[t].pc \in Pcs /\ ThreadOK(t) /\ (HasObject(t) => th[t].obj \in OBJECTS)
  BY DEF AInv, Types, ThreadOK
<1>2. ThreadOK(t)'
  BY <1>1, SpaceAssumption DEF ThreadOK, HasObject, Placed, Pcs, Moves, Places, Unused
<1>3. vm' = vm /\ vm' \in [Addr -> Contents]
  BY DEF AInv, Types
<1>4. Placed(t) => th[t].ptr \in Addr /\ th[t].ptr + 1 \in Addr
  BY InSpace
<1>5. OwnMemory(t)
  BY <1>1, <1>3, <1>4, OneThread, SpaceAssumption
  DEF OwnMemory, Has, HasObject, Mapped, Reserved, Moves, Places, Unused
<1>6. OwnHandle(t)
  BY <1>1, NoHandle, SpaceAssumption DEF OwnHandle, AInv, Types, ThreadOK, HandlesHeld, HasObject, HasHandle, Closes, Moves, Unused
<1>7. OwnObject(t)
  BY DEF OwnObject, HasObject, Moves
<1>8. AInv'
  BY <1>1, <1>2, <1>3, <1>4, <1>5, <1>6, <1>7, OneMoves DEF Pcs
<1> QED
  BY <1>5, <1>6, <1>7, <1>8, Abides, Releases DEF SafeStep

\* The first mmap of linux.rs puts the file over the whole region.
LEMMA MapsFile ==
  ASSUME AInv, NEW t \in THREADS, NEW a \in Places,
         th[t].pc = "mmap",
         Moves(t, "fixed", th[t].obj, a), MapsRegion(a, th[t].obj, t), UNCHANGED handles
  PROVE  AInv' /\ SafeStep
<1>1. th[t].pc \in Pcs /\ ThreadOK(t) /\ (HasObject(t) => th[t].obj \in OBJECTS)
  BY DEF AInv, Types, ThreadOK
<1>2. ThreadOK(t)'
  BY <1>1, SpaceAssumption DEF ThreadOK, HasObject, Placed, Pcs, Moves, Places, Unused
<1>3. {th[t].obj, t} \subseteq Contents /\ a \in 0 .. SPACE - 2 /\ a \in Addr /\ a + 1 \in Addr
  BY <1>1, InSpace, SpaceAssumption DEF Placed, HasObject, Contents, Places, Addr
<1>4. /\ vm' \in [Addr -> Contents] /\ vm'[a] = th[t].obj /\ vm'[a + 1] = t
      /\ \A b \in Addr \ {a, a + 1} : vm'[b] = vm[b]
  BY <1>3, RegionMapped
<1>5. OwnMemory(t)
  BY <1>1, <1>3, <1>4, OneThread, SpaceAssumption
  DEF OwnMemory, Has, HasObject, Mapped, Reserved, Moves, Places, Unused
<1>6. OwnHandle(t)
  BY <1>1, NoHandle, SpaceAssumption DEF OwnHandle, AInv, Types, ThreadOK, HandlesHeld, HasObject, HasHandle, Closes, Moves, Unused
<1>7. OwnObject(t)
  BY DEF OwnObject, HasObject, Moves
<1>8. AInv'
  BY <1>1, <1>2, <1>3, <1>4, <1>5, <1>6, <1>7, OneMoves DEF Pcs
<1> QED
  BY <1>5, <1>6, <1>7, <1>8, Abides, Releases DEF SafeStep

\* A region is reserved: mmap of sysv.rs, VirtualAlloc, mach_vm_allocate.
LEMMA Reserves ==
  ASSUME AInv, NEW t \in THREADS, NEW a \in Places, NEW pc,
         \/ th[t].pc \in {"reserve", "loop"} /\ pc = "unmap"
         \/ th[t].pc = "create" /\ pc = "first",
         Moves(t, pc, th[t].obj, a), MapsRegion(a, t, t), UNCHANGED handles
  PROVE  AInv' /\ SafeStep
<1>1. th[t].pc \in Pcs /\ ThreadOK(t) /\ (HasObject(t) => th[t].obj \in OBJECTS)
  BY DEF AInv, Types, ThreadOK
<1>2. ThreadOK(t)'
  BY <1>1, SpaceAssumption DEF ThreadOK, HasObject, Placed, Pcs, Moves, Places, Unused
<1>3. {t, t} \subseteq Contents /\ a \in 0 .. SPACE - 2 /\ a \in Addr /\ a + 1 \in Addr
  BY <1>1, InSpace, SpaceAssumption DEF Placed, HasObject, Contents, Places, Addr
<1>4. /\ vm' \in [Addr -> Contents] /\ vm'[a] = t /\ vm'[a + 1] = t
      /\ \A b \in Addr \ {a, a + 1} : vm'[b] = vm[b]
  BY <1>3, RegionMapped
<1>5. OwnMemory(t)
  BY <1>1, <1>3, <1>4, OneThread, SpaceAssumption
  DEF OwnMemory, Has, HasObject, Mapped, Reserved, Moves, Places, Unused
<1>6. OwnHandle(t)
  BY <1>1, NoHandle, SpaceAssumption DEF OwnHandle, AInv, Types, ThreadOK, HandlesHeld, HasObject, HasHandle, Closes, Moves, Unused
<1>7. OwnObject(t)
  BY DEF OwnObject, HasObject, Moves
<1>8. AInv'
  BY <1>1, <1>2, <1>3, <1>4, <1>5, <1>6, <1>7, OneMoves DEF Pcs
<1> QED
  BY <1>5, <1>6, <1>7, <1>8, Abides, Releases DEF SafeStep

\* The reserved region is given back, so that its halves can be mapped: munmap
\* of sysv.rs, VirtualFree.
LEMMA Unreserves ==
  ASSUME AInv, NEW t \in THREADS, NEW pc \in {"attach", "map"},
         th[t].pc = "unmap",
         Moves(t, pc, th[t].obj, th[t].ptr), MapsRegion(th[t].ptr, Free, Free), UNCHANGED handles
  PROVE  AInv' /\ SafeStep
<1>1. th[t].pc \in Pcs /\ ThreadOK(t) /\ (HasObject(t) => th[t].obj \in OBJECTS)
  BY DEF AInv, Types, ThreadOK
<1>2. ThreadOK(t)'
  BY <1>1, SpaceAssumption DEF ThreadOK, HasObject, Placed, Pcs, Moves, Places, Unused
<1>3. {Free, Free} \subseteq Contents /\ th[t].ptr \in 0 .. SPACE - 2 /\ th[t].ptr \in Addr /\ th[t].ptr + 1 \in Addr
  BY <1>1, InSpace, SpaceAssumption DEF Placed, HasObject, Contents, Places, Addr
<1>4. /\ vm' \in [Addr -> Contents] /\ vm'[th[t].ptr] = Free /\ vm'[th[t].ptr + 1] = Free
      /\ \A b \in Addr \ {th[t].ptr, th[t].ptr + 1} : vm'[b] = vm[b]
  BY <1>3, RegionMapped
<1>5. OwnMemory(t)
  BY <1>1, <1>3, <1>4, OneThread, SpaceAssumption
  DEF OwnMemory, Has, HasObject, Mapped, Reserved, Moves, Places, Unused
<1>6. OwnHandle(t)
  BY <1>1, NoHandle, SpaceAssumption DEF OwnHandle, AInv, Types, ThreadOK, HandlesHeld, HasObject, HasHandle, Closes, Moves, Unused
<1>7. OwnObject(t)
  BY DEF OwnObject, HasObject, Moves
<1>8. AInv'
  BY <1>1, <1>2, <1>3, <1>4, <1>5, <1>6, <1>7, OneMoves DEF Pcs
<1> QED
  BY <1>5, <1>6, <1>7, <1>8, Abides, Releases DEF SafeStep

\* The first half is mapped if no other code has taken it: shmat,
\* MapViewOfFileEx.
LEMMA MapsFirst ==
  ASSUME AInv, NEW t \in THREADS, th[t].pc \in {"attach", "map"}, vm[th[t].ptr] = Free,
         Moves(t, "mirror", th[t].obj, th[t].ptr), MapsHalf(th[t].ptr, th[t].obj), UNCHANGED handles
  PROVE  AInv' /\ SafeStep
<1>1. th[t].pc \in Pcs /\ ThreadOK(t) /\ (HasObject(t) => th[t].obj \in OBJECTS)
  BY DEF AInv, Types, ThreadOK
<1>2. ThreadOK(t)'
  BY <1>1, SpaceAssumption DEF ThreadOK, HasObject, Placed, Pcs, Moves, Places, Unused
<1>3. /\ Placed(t) /\ th[t].obj \in Contents
      /\ th[t].ptr \in 0 .. SPACE - 2 /\ th[t].ptr \in Addr /\ th[t].ptr + 1 \in Addr
  BY <1>1, InSpace DEF Placed, HasObject, Contents, Unused
<1>4. vm' \in [Addr -> Contents] /\ vm'[th[t].ptr] = th[t].obj /\ \A b \in Addr \ {th[t].ptr} : vm'[b] = vm[b]
  BY <1>3, HalfMapped
<1>5. OwnMemory(t)
  BY <1>1, <1>3, <1>4, OneThread, SpaceAssumption
  DEF OwnMemory, Has, HasObject, Mapped, Reserved, Moves, Places, Unused
<1>6. OwnHandle(t)
  BY <1>1, NoHandle, SpaceAssumption DEF OwnHandle, AInv, Types, ThreadOK, HandlesHeld, HasObject, HasHandle, Closes, Moves, Unused
<1>7. OwnObject(t)
  BY DEF OwnObject, HasObject, Moves
<1>8. AInv'
  BY <1>1, <1>2, <1>3, <1>4, <1>5, <1>6, <1>7, OneMoves DEF Pcs
<1> QED
  BY <1>5, <1>6, <1>7, <1>8, Abides, Releases DEF SafeStep

\* The first half of macos.rs is allocated again, over the reserved one.
LEMMA AllocatesFirst ==
  ASSUME AInv, NEW t \in THREADS, NEW o \in Unused, th[t].pc = "first",
         Moves(t, "entry", o, th[t].ptr), MapsHalf(th[t].ptr, o), UNCHANGED handles
  PROVE  AInv' /\ SafeStep
<1>1. th[t].pc \in Pcs /\ ThreadOK(t) /\ (HasObject(t) => th[t].obj \in OBJECTS)
  BY DEF AInv, Types, ThreadOK
<1>2. ThreadOK(t)'
  BY <1>1, SpaceAssumption DEF ThreadOK, HasObject, Placed, Pcs, Moves, Places, Unused
<1>3. /\ Placed(t) /\ o \in Contents
      /\ th[t].ptr \in 0 .. SPACE - 2 /\ th[t].ptr \in Addr /\ th[t].ptr + 1 \in Addr
  BY <1>1, InSpace DEF Placed, HasObject, Contents, Unused
<1>4. vm' \in [Addr -> Contents] /\ vm'[th[t].ptr] = o /\ \A b \in Addr \ {th[t].ptr} : vm'[b] = vm[b]
  BY <1>3, HalfMapped
<1>5. OwnMemory(t)
  BY <1>1, <1>3, <1>4, OneThread, SpaceAssumption
  DEF OwnMemory, Has, HasObject, Mapped, Reserved, Moves, Places, Unused
<1>6. OwnHandle(t)
  BY <1>1, NoHandle, SpaceAssumption DEF OwnHandle, AInv, Types, ThreadOK, HandlesHeld, HasObject, HasHandle, Closes, Moves, Unused
<1>7. OwnObject(t)
  BY DEF OwnObject, HasObject, Moves
<1>8. AInv'
  BY <1>1, <1>2, <1>3, <1>4, <1>5, <1>6, <1>7, OneMoves DEF Pcs
<1> QED
  BY <1>5, <1>6, <1>7, <1>8, Abides, Releases DEF SafeStep

\* The second half is mapped: over what the thread has reserved there, or if
\* no other code has taken it.
LEMMA MapsSecond ==
  ASSUME AInv, NEW t \in THREADS, NEW pc,
         \/ th[t].pc = "fixed" /\ pc = "close"
         \/ th[t].pc = "mirror" /\ pc = "close" /\ vm[th[t].ptr + 1] = Free
         \/ th[t].pc = "remap" /\ pc = "held",
         Moves(t, pc, th[t].obj, th[t].ptr), MapsHalf(th[t].ptr + 1, th[t].obj), UNCHANGED handles
  PROVE  AInv' /\ SafeStep
<1>1. th[t].pc \in Pcs /\ ThreadOK(t) /\ (HasObject(t) => th[t].obj \in OBJECTS)
  BY DEF AInv, Types, ThreadOK
<1>2. ThreadOK(t)'
  BY <1>1, SpaceAssumption DEF ThreadOK, HasObject, Placed, Pcs, Moves, Places, Unused
<1>3. /\ Placed(t) /\ th[t].obj \in Contents
      /\ th[t].ptr \in 0 .. SPACE - 2 /\ th[t].ptr \in Addr /\ th[t].ptr + 1 \in Addr
  BY <1>1, InSpace DEF Placed, HasObject, Contents, Unused
<1>4. vm' \in [Addr -> Contents] /\ vm'[th[t].ptr + 1] = th[t].obj /\ \A b \in Addr \ {th[t].ptr + 1} : vm'[b] = vm[b]
  BY <1>3, HalfMapped
<1>5. OwnMemory(t)
  BY <1>1, <1>3, <1>4, OneThread, SpaceAssumption
  DEF OwnMemory, Has, HasObject, Mapped, Reserved, Moves, Places, Unused
<1>6. OwnHandle(t)
  BY <1>1, NoHandle, SpaceAssumption DEF OwnHandle, AInv, Types, ThreadOK, HandlesHeld, HasObject, HasHandle, Closes, Moves, Unused
<1>7. OwnObject(t)
  BY DEF OwnObject, HasObject, Moves
<1>8. AInv'
  BY <1>1, <1>2, <1>3, <1>4, <1>5, <1>6, <1>7, OneMoves DEF Pcs
<1> QED
  BY <1>5, <1>6, <1>7, <1>8, Abides, Releases DEF SafeStep

\* Other code was faster, and the loop goes on with nothing mapped.
LEMMA TriesAgain ==
  ASSUME AInv, NEW t \in THREADS, NEW pc \in {"reserve", "loop"},
         \/ th[t].pc \in {"attach", "map"} /\ UNCHANGED vm
         \/ th[t].pc = "mirror" /\ MapsHalf(th[t].ptr, Free),
         Moves(t, pc, th[t].obj, NoPtr), UNCHANGED handles
  PROVE  AInv' /\ SafeStep
<1>1. th[t].pc \in Pcs /\ ThreadOK(t) /\ (HasObject(t) => th[t].obj \in OBJECTS)
  BY DEF AInv, Types, ThreadOK
<1>2. ThreadOK(t)'
  BY <1>1, SpaceAssumption DEF ThreadOK, HasObject, Placed, Pcs, Moves, Places, Unused
<1>3. Placed(t) /\ Free \in Contents /\ th[t].ptr \in Addr /\ vm \in [Addr -> Contents]
  BY <1>1, InSpace DEF Placed, Contents, AInv, Types
<1>4. /\ vm' \in [Addr -> Contents] /\ (th[t].pc = "mirror" => vm'[th[t].ptr] = Free)
      /\ th[t].pc # "mirror" => vm' = vm
      /\ \A b \in Addr \ {th[t].ptr} : vm'[b] = vm[b]
  BY <1>3, HalfMapped
<1>5. OwnMemory(t)
  BY <1>1, <1>3, <1>4, OneThread, SpaceAssumption
  DEF OwnMemory, Has, HasObject, Mapped, Reserved, Moves, Places, Unused
<1>6. OwnHandle(t)
  BY <1>1, NoHandle, SpaceAssumption DEF OwnHandle, AInv, Types, ThreadOK, HandlesHeld, HasObject, HasHandle, Closes, Moves, Unused
<1>7. OwnObject(t)
  BY DEF OwnObject, HasObject, Moves
<1>8. AInv'
  BY <1>1, <1>2, <1>3, <1>4, <1>5, <1>6, <1>7, OneMoves DEF Pcs
<1> QED
  BY <1>5, <1>6, <1>7, <1>8, Abides, Releases DEF SafeStep

\* The handle is closed at the end: the mappings keep the object alive.
LEMMA ClosesHandle ==
  ASSUME AInv, NEW t \in THREADS, th[t].pc = "close",
         Moves(t, "held", th[t].obj, th[t].ptr), Closes(t), UNCHANGED vm
  PROVE  AInv' /\ SafeStep
<1>1. th[t].pc \in Pcs /\ ThreadOK(t) /\ (HasObject(t) => th[t].obj \in OBJECTS)
  BY DEF AInv, Types, ThreadOK
<1>2. ThreadOK(t)'
  BY <1>1, SpaceAssumption DEF ThreadOK, HasObject, Placed, Pcs, Moves, Places, Unused
<1>3. vm' = vm /\ vm' \in [Addr -> Contents]
  BY DEF AInv, Types
<1>4. Placed(t) => th[t].ptr \in Addr /\ th[t].ptr + 1 \in Addr
  BY InSpace
<1>5. OwnMemory(t)
  BY <1>1, <1>3, <1>4, OneThread, SpaceAssumption
  DEF OwnMemory, Has, HasObject, Mapped, Reserved, Moves, Places, Unused
<1>6. OwnHandle(t)
  BY <1>1, NoHandle, SpaceAssumption DEF OwnHandle, AInv, Types, ThreadOK, HandlesHeld, HasObject, HasHandle, Closes, Moves, Unused
<1>7. OwnObject(t)
  BY DEF OwnObject, HasObject, Moves
<1>8. AInv'
  BY <1>1, <1>2, <1>3, <1>4, <1>5, <1>6, <1>7, OneMoves DEF Pcs
<1> QED
  BY <1>5, <1>6, <1>7, <1>8, Abides, Releases DEF SafeStep

\* The region is unmapped as a whole, on an error or by deallocate_mirrored.
LEMMA UnmapsRegion ==
  ASSUME AInv, NEW t \in THREADS,
         \/ th[t].pc = "fixed" /\ Closes(t)
         \/ th[t].pc \in {"entry", "remap", "held"} /\ UNCHANGED handles,
         Moves(t, "idle", Free, NoPtr), MapsRegion(th[t].ptr, Free, Free)
  PROVE  AInv' /\ SafeStep
<1>1. th[t].pc \in Pcs /\ ThreadOK(t) /\ (HasObject(t) => th[t].obj \in OBJECTS)
  BY DEF AInv, Types, ThreadOK
<1>2. ThreadOK(t)'
  BY <1>1, SpaceAssumption DEF ThreadOK, HasObject, Placed, Pcs, Moves, Places, Unused
<1>3. {Free, Free} \subseteq Contents /\ th[t].ptr \in 0 .. SPACE - 2 /\ th[t].ptr \in Addr /\ th[t].ptr + 1 \in Addr
  BY <1>1, InSpace, SpaceAssumption DEF Placed, HasObject, Contents, Places, Addr
<1>4. /\ vm' \in [Addr -> Contents] /\ vm'[th[t].ptr] = Free /\ vm'[th[t].ptr + 1] = Free
      /\ \A b \in Addr \ {th[t].ptr, th[t].ptr + 1} : vm'[b] = vm[b]
  BY <1>3, RegionMapped
<1>5. OwnMemory(t)
  BY <1>1, <1>3, <1>4, OneThread, SpaceAssumption
  DEF OwnMemory, Has, HasObject, Mapped, Reserved, Moves, Places, Unused
<1>6. OwnHandle(t)
  BY <1>1, NoHandle, SpaceAssumption DEF OwnHandle, AInv, Types, ThreadOK, HandlesHeld, HasObject, HasHandle, Closes, Moves, Unused
<1>7. OwnObject(t)
  BY DEF OwnObject, HasObject, Moves
<1>8. AInv'
  BY <1>1, <1>2, <1>3, <1>4, <1>5, <1>6, <1>7, OneMoves DEF Pcs
<1> QED
  BY <1>5, <1>6, <1>7, <1>8, Abides, Releases DEF SafeStep

\* deallocate_mirrored of sysv.rs and winapi.rs unmaps the first half.
LEMMA UnmapsFirst ==
  ASSUME AInv, NEW t \in THREADS, th[t].pc = "held",
         Moves(t, "free", th[t].obj, th[t].ptr), MapsHalf(th[t].ptr, Free), UNCHANGED handles
  PROVE  AInv' /\ SafeStep
<1>1. th[t].pc \in Pcs /\ ThreadOK(t) /\ (HasObject(t) => th[t].obj \in OBJECTS)
  BY DEF AInv, Types, ThreadOK
<1>2. ThreadOK(t)'
  BY <1>1, SpaceAssumption DEF ThreadOK, HasObject, Placed, Pcs, Moves, Places, Unused
<1>3. /\ Placed(t) /\ Free \in Contents
      /\ th[t].ptr \in 0 .. SPACE - 2 /\ th[t].ptr \in Addr /\ th[t].ptr + 1 \in Addr
  BY <1>1, InSpace DEF Placed, HasObject, Contents, Unused
<1>4. vm' \in [Addr -> Contents] /\ vm'[th[t].ptr] = Free /\ \A b \in Addr \ {th[t].ptr} : vm'[b] = vm[b]
  BY <1>3, HalfMapped
<1>5. OwnMemory(t)
  BY <1>1, <1>3, <1>4, OneThread, SpaceAssumption
  DEF OwnMemory, Has, HasObject, Mapped, Reserved, Moves, Places, Unused
<1>6. OwnHandle(t)
  BY <1>1, NoHandle, SpaceAssumption DEF OwnHandle, AInv, Types, ThreadOK, HandlesHeld, HasObject, HasHandle, Closes, Moves, Unused
<1>7. OwnObject(t)
  BY DEF OwnObject, HasObject, Moves
<1>8. AInv'
  BY <1>1, <1>2, <1>3, <1>4, <1>5, <1>6, <1>7, OneMoves DEF Pcs
<1> QED
  BY <1>5, <1>6, <1>7, <1>8, Abides, Releases DEF SafeStep

\* And then the second half.
LEMMA UnmapsSecond ==
  ASSUME AInv, NEW t \in THREADS, th[t].pc = "free",
         Moves(t, "idle", Free, NoPtr), MapsHalf(th[t].ptr + 1, Free), UNCHANGED handles
  PROVE  AInv' /\ SafeStep
<1>1. th[t].pc \in Pcs /\ ThreadOK(t) /\ (HasObject(t) => th[t].obj \in OBJECTS)
  BY DEF AInv, Types, ThreadOK
<1>2. ThreadOK(t)'
  BY <1>1, SpaceAssumption DEF ThreadOK, HasObject, Placed, Pcs, Moves, Places, Unused
<1>3. /\ Placed(t) /\ Free \in Contents
      /\ th[t].ptr \in 0 .. SPACE - 2 /\ th[t].ptr \in Addr /\ th[t].ptr + 1 \in Addr
  BY <1>1, InSpace DEF Placed, HasObject, Contents, Unused
<1>4. vm' \in [Addr -> Contents] /\ vm'[th[t].ptr + 1] = Free /\ \A b \in Addr \ {th[t].ptr + 1} : vm'[b] = vm[b]
  BY <1>3, HalfMapped
<1>5. OwnMemory(t)
  BY <1>1, <1>3, <1>4, OneThread, SpaceAssumption
  DEF OwnMemory, Has, HasObject, Mapped, Reserved, Moves, Places, Unused
<1>6. OwnHandle(t)
  BY <1>1, NoHandle, SpaceAssumption DEF OwnHandle, AInv, Types, ThreadOK, HandlesHeld, HasObject, HasHandle, Closes, Moves, Unused
<1>7. OwnObject(t)
  BY DEF OwnObject, HasObject, Moves
<1>8. AInv'
  BY <1>1, <1>2, <1>3, <1>4, <1>5, <1>6, <1>7, OneMoves DEF Pcs
<1> QED
  BY <1>5, <1>6, <1>7, <1>8, Abides, Releases DEF SafeStep
-----------------------------------------------------------------------------
(* Every action of every platform has one of these shapes.                 *)

\* The ways in which a system call moves its thread.
LEMMA ThreadMoves ==
  ASSUME AInv, NEW t \in THREADS, UNCHANGED platform, NEW pc, NEW o, NEW p
  PROVE  /\ Goes(t, pc) => Moves(t, pc, th[t].obj, th[t].ptr)
         /\ Fails(t) => Moves(t, "idle", Free, NoPtr)
         /\ th' = [th EXCEPT ![t] = [Outside EXCEPT !.pc = pc, !.obj = o]] => Moves(t, pc, o, NoPtr)
         /\ th' = [th EXCEPT ![t].pc = pc, ![t].ptr = p] => Moves(t, pc, th[t].obj, p)
         /\ th' = [th EXCEPT ![t].pc = pc, ![t].ptr = p, ![t].n = @ + 1] => Moves(t, pc, th[t].obj, p)
         /\ th' = [th EXCEPT ![t].pc = pc, ![t].obj = o] => Moves(t, pc, o, th[t].ptr)
<1>1. /\ DOMAIN th = THREADS
      /\ th[t] = [pc |-> th[t].pc, obj |-> th[t].obj, ptr |-> th[t].ptr, n |-> th[t].n]
  BY DEF AInv, Types, ThreadOK
<1>2. Goes(t, pc) => Moves(t, pc, th[t].obj, th[t].ptr)
  BY <1>1 DEF Goes, Moves
<1>3. Fails(t) => Moves(t, "idle", Free, NoPtr)
  BY <1>1 DEF Fails, Outside, Moves
<1>4. th' = [th EXCEPT ![t] = [Outside EXCEPT !.pc = pc, !.obj = o]] => Moves(t, pc, o, NoPtr)
  <2> HAVE th' = [th EXCEPT ![t] = [Outside EXCEPT !.pc = pc, !.obj = o]]
  <2>1. /\ DOMAIN th' = THREADS /\ \A u \in THREADS \ {t} : th'[u] = th[u]
        /\ th'[t] = [Outside EXCEPT !.pc = pc, !.obj = o]
    BY <1>1
  <2>2. th'[t] = [pc |-> pc, obj |-> o, ptr |-> NoPtr, n |-> 0]
    BY <2>1 DEF Outside
  <2> QED
    BY <2>1, <2>2 DEF Moves
<1>5. th' = [th EXCEPT ![t].pc = pc, ![t].ptr = p] => Moves(t, pc, th[t].obj, p)
  <2> HAVE th' = [th EXCEPT ![t].pc = pc, ![t].ptr = p]
  <2>1. /\ DOMAIN th' = THREADS /\ \A u \in THREADS \ {t} : th'[u] = th[u]
        /\ th'[t] = [th[t] EXCEPT !.pc = pc, !.ptr = p]
    BY <1>1
  <2> QED
    BY <1>1, <2>1 DEF Moves
<1>6. th' = [th EXCEPT ![t].pc = pc, ![t].ptr = p, ![t].n = @ + 1] => Moves(t, pc, th[t].obj, p)
  <2> HAVE th' = [th EXCEPT ![t].pc = pc, ![t].ptr = p, ![t].n = @ + 1]
  <2>1. /\ DOMAIN th' = THREADS /\ \A u \in THREADS \ {t} : th'[u] = th[u]
        /\ th'[t] = [th[t] EXCEPT !.pc = pc, !.ptr = p, !.n = @ + 1]
    BY <1>1
  <2> QED
    BY <1>1, <2>1 DEF Moves
<1>7. th' = [th EXCEPT ![t].pc = pc, ![t].obj = o] => Moves(t, pc, o, th[t].ptr)
  <2> HAVE th' = [th EXCEPT ![t].pc = pc, ![t].obj = o]
  <2>1. /\ DOMAIN th' = THREADS /\ \A u \in THREADS \ {t} : th'[u] = th[u]
        /\ th'[t] = [th[t] EXCEPT !.pc = pc, !.obj = o]
    BY <1>1
  <2> QED
    BY <1>1, <2>1 DEF Moves
<1> QED
  BY <1>2, <1>3, <1>4, <1>5, <1>6, <1>7

\* allocate_mirrored of linux.rs.
LEMMA LinuxStep ==
  ASSUME AInv, NEW t \in THREADS, UNCHANGED platform, linux!Step(t)
  PROVE  AInv' /\ SafeStep
<1>1. CASE linux!memfd_create(t)
  BY <1>1, ThreadMoves, CreatesObject, FailsEarly
  DEF linux!memfd_create, linux!Creates, linux!Unused, linux!Addr, Unused, Addr, linux!Fails, Fails, linux!Outside, Outside
<1>2. CASE linux!ftruncate(t)
  BY <1>2, ThreadMoves, GoesOn, FailsEarly
  DEF linux!ftruncate, linux!Goes, Goes, linux!Fails, Fails, linux!Outside, Outside, linux!Closes, Closes
<1>3. CASE linux!mmap_first(t)
  BY <1>3, ThreadMoves, MapsFile, FailsEarly
  DEF linux!mmap_first, linux!Places, Places, linux!MapsRegion, MapsRegion,
      linux!Fails, Fails, linux!Outside, Outside, linux!Closes, Closes
<1>4. CASE linux!mmap_second(t)
  BY <1>4, ThreadMoves, MapsSecond, UnmapsRegion
  DEF linux!mmap_second, linux!MapsHalf, MapsHalf, linux!MapsRegion, MapsRegion,
      linux!Goes, Goes, linux!Fails, Fails, linux!Outside, Outside, linux!Closes, Closes
<1>5. CASE linux!close(t)
  BY <1>5, ThreadMoves, ClosesHandle DEF linux!close, linux!Closes, Closes, linux!Goes, Goes
<1> QED
  BY <1>1, <1>2, <1>3, <1>4, <1>5 DEF linux!Step
\* allocate_mirrored of sysv.rs.
LEMMA SysVStep ==
  ASSUME AInv, NEW t \in THREADS, UNCHANGED platform, sysv!Step(t)
  PROVE  AInv' /\ SafeStep
<1>1. CASE sysv!shmget(t)
  BY <1>1, ThreadMoves, CreatesObject, FailsEarly
  DEF sysv!shmget, sysv!Creates, sysv!Unused, sysv!Addr, Unused, Addr, sysv!Fails, Fails,
      sysv!Outside, Outside
<1>2. CASE sysv!reserve(t)
  BY <1>2, ThreadMoves, Reserves, FailsEarly, ZenonT(30)
  DEF sysv!reserve, sysv!Places, Places, sysv!MapsRegion, MapsRegion,
      sysv!Fails, Fails, sysv!Outside, Outside, sysv!Closes, Closes
<1>3. CASE sysv!unmap(t)
  BY <1>3, ThreadMoves, Unreserves
  DEF sysv!unmap, sysv!MapsRegion, MapsRegion, sysv!Goes, Goes
<1>4. CASE sysv!attach_first(t)
  BY <1>4, ThreadMoves, MapsFirst, TriesAgain, ZenonT(30)
  DEF sysv!attach_first, sysv!attach, sysv!MapsHalf, MapsHalf, sysv!Goes, Goes, sysv!Again
<1>5. CASE sysv!attach_second(t)
  BY <1>5, ThreadMoves, MapsSecond, TriesAgain, ZenonT(30)
  DEF sysv!attach_second, sysv!attach, sysv!detach, sysv!MapsHalf, MapsHalf, sysv!Goes, Goes,
      sysv!Again
<1>6. CASE sysv!shmctl(t)
  BY <1>6, ThreadMoves, ClosesHandle DEF sysv!shmctl, sysv!Closes, Closes, sysv!Goes, Goes
<1> QED
  BY <1>1, <1>2, <1>3, <1>4, <1>5, <1>6 DEF sysv!Step

\* allocate_mirrored of winapi.rs.
LEMMA WindowsStep ==
  ASSUME AInv, NEW t \in THREADS, UNCHANGED platform, platform = "windows", winapi!Step(t)
  PROVE  AInv' /\ SafeStep
<1>1. CASE winapi!create_file_mapping(t)
  BY <1>1, ThreadMoves, CreatesObject, FailsEarly
  DEF winapi!create_file_mapping, winapi!Creates, winapi!Unused, winapi!Addr, Unused, Addr,
      winapi!Fails, Fails, winapi!Outside, Outside
<1>2. CASE winapi!exceeded(t)
  BY <1>2, ThreadMoves, FailsEarly
  DEF winapi!exceeded, winapi!Fails, Fails, winapi!Outside, Outside, winapi!Closes, Closes
<1>3. CASE winapi!VirtualAlloc(t)
  BY <1>3, ThreadMoves, Reserves
  DEF winapi!VirtualAlloc, winapi!Places, Places, winapi!MapsRegion, MapsRegion
<1>4. CASE winapi!reserve_fails(t)
  BY <1>4, ThreadMoves, FailsEarly
  DEF LeavesFile, winapi!reserve_fails, winapi!Fails, Fails, winapi!Outside, Outside
<1>5. CASE winapi!VirtualFree(t)
  BY <1>5, ThreadMoves, Unreserves, ZenonT(30)
  DEF winapi!VirtualFree, winapi!MapsRegion, MapsRegion, winapi!Goes, Goes
<1>6. CASE winapi!map_first(t)
  BY <1>6, ThreadMoves, MapsFirst, TriesAgain, ZenonT(30)
  DEF winapi!map_first, winapi!map_view_of_file, winapi!MapsHalf, MapsHalf, winapi!Goes, Goes,
      winapi!Again
<1>7. CASE winapi!map_second(t)
  BY <1>7, ThreadMoves, MapsSecond, TriesAgain, ZenonT(30)
  DEF winapi!map_second, winapi!map_view_of_file, winapi!unmap_view_of_file, winapi!MapsHalf,
      MapsHalf, winapi!Goes, Goes, winapi!Again
<1>8. CASE winapi!close_file_mapping(t)
  BY <1>8, ThreadMoves, ClosesHandle
  DEF winapi!close_file_mapping, winapi!Closes, Closes, winapi!Goes, Goes
<1> QED
  BY <1>1, <1>2, <1>3, <1>4, <1>5, <1>6, <1>7, <1>8 DEF winapi!Step

\* allocate_mirrored of macos.rs.
LEMMA MacStep ==
  ASSUME AInv, NEW t \in THREADS, UNCHANGED platform, platform = "macos", macos!Step(t)
  PROVE  AInv' /\ SafeStep
<1>1. CASE macos!mach_vm_allocate(t)
  BY <1>1, ThreadMoves, Reserves, FailsEarly
  DEF macos!mach_vm_allocate, macos!Places, Places, macos!MapsRegion, MapsRegion,
      macos!Fails, Fails, macos!Outside, Outside
<1>2. CASE macos!allocate_first(t)
  BY <1>2, ThreadMoves, AllocatesFirst
  DEF macos!allocate_first, macos!Unused, macos!Addr, Unused, Addr, macos!MapsHalf, MapsHalf
<1>3. CASE macos!first_fails(t)
  BY <1>3, ThreadMoves, FailsEarly
  DEF LeavesRegion, macos!first_fails, macos!Fails, Fails, macos!Outside, Outside
<1>4. CASE macos!mach_make_memory_entry_64(t)
  BY <1>4, ThreadMoves, GoesOn, UnmapsRegion
  DEF macos!mach_make_memory_entry_64, macos!dealloc, macos!MapsRegion, MapsRegion,
      macos!Goes, Goes, macos!Fails, Fails, macos!Outside, Outside
<1>5. CASE macos!mach_vm_remap(t)
  BY <1>5, ThreadMoves, MapsSecond, UnmapsRegion
  DEF macos!mach_vm_remap, macos!dealloc, macos!MapsRegion, MapsRegion, macos!MapsHalf, MapsHalf,
      macos!Goes, Goes, macos!Fails, Fails, macos!Outside, Outside
<1> QED
  BY <1>1, <1>2, <1>3, <1>4, <1>5 DEF macos!Step

\* deallocate_mirrored of every platform.
LEMMA Deallocates ==
  ASSUME AInv, NEW t \in THREADS, deallocate_mirrored(t)
  PROVE  AInv' /\ SafeStep
<1> platform' = platform
  BY DEF deallocate_mirrored
<1>1. CASE linux!deallocate_mirrored(t)
  BY <1>1, ThreadMoves, UnmapsRegion
  DEF linux!deallocate_mirrored, linux!MapsRegion, MapsRegion, linux!Fails, Fails,
      linux!Outside, Outside
<1>2. CASE sysv!deallocate_mirrored(t)
  BY <1>2, ThreadMoves, UnmapsFirst, UnmapsSecond
  DEF sysv!deallocate_mirrored, sysv!detach, sysv!MapsHalf, MapsHalf, sysv!Goes, Goes,
      sysv!Fails, Fails, sysv!Outside, Outside
<1>3. CASE macos!deallocate_mirrored(t)
  BY <1>3, ThreadMoves, UnmapsRegion
  DEF macos!deallocate_mirrored, macos!dealloc, macos!MapsRegion, MapsRegion,
      macos!Fails, Fails, macos!Outside, Outside
<1>4. CASE winapi!deallocate_mirrored(t)
  BY <1>4, ThreadMoves, UnmapsFirst, UnmapsSecond
  DEF winapi!deallocate_mirrored, winapi!unmap_view_of_file, winapi!MapsHalf, MapsHalf,
      winapi!Goes, Goes, winapi!Fails, Fails, winapi!Outside, Outside
<1> QED
  BY <1>1, <1>2, <1>3, <1>4 DEF deallocate_mirrored

\* Other code takes only memory that no allocator has.
LEMMA OthersKeepAInv ==
  ASSUME AInv, OtherCode, UNCHANGED platform
  PROVE  AInv' /\ SafeStep
<1>1. PICK a \in Addr : \/ vm[a] = Free    /\ MapsHalf(a, Foreign)
                        \/ vm[a] = Foreign /\ MapsHalf(a, Free)
  BY DEF OtherCode
<1>2. /\ vm' \in [Addr -> Contents] /\ vm[a] \in {Free, Foreign} /\ vm'[a] \in {Free, Foreign}
      /\ \A b \in Addr \ {a} : vm'[b] = vm[b]
  BY <1>1, HalfMapped DEF Contents
<1>3. handles' = handles /\ th' = th
  BY DEF OtherCode
<1>4. Types'
  BY <1>2, <1>3 DEF AInv, Types, ThreadOK, HasObject, Placed, Contents, Addr
<1>5. ObjectsApart' /\ HandlesHeld'
  BY <1>3 DEF AInv, ObjectsApart, HandlesHeld, HasObject, HasHandle
<1>6. ObjectsMapped'
  BY <1>2, <1>3, SpaceAssumption DEF AInv, Types, ThreadOK, ObjectsMapped, HasObject, Mapped, Addr
<1>7. MemoryReserved'
  BY <1>2, <1>3, SpaceAssumption DEF AInv, MemoryReserved, Reserved, Has, Addr
<1>8. AInv'
  BY <1>4, <1>5, <1>6, <1>7 DEF AInv
<1>9. HeldMapped /\ HeldMapped'
  BY <1>8, HeldIsMapped, PTL
<1>10. TheForeign' \subseteq 0 .. SPACE - 1
  BY DEF TheForeign, Addr
<1>11. \A t \in THREADS : Promise!Halves(TheRegion[t]) \cap TheForeign' = {}
  BY <1>3, <1>9, SpaceAssumption DEF HeldMapped, TheRegion, TheForeign, Addr, Promise!Halves
<1>12. TheRegion' = TheRegion /\ ThePending' = ThePending
  BY <1>3 DEF TheRegion, ThePending, Busy, Freeing
<1>13. Promise!OtherCode
  BY <1>10, <1>11, <1>12 DEF Promise!OtherCode, TheRegion, ThePending, TheForeign
<1>14. LostHandles' = LostHandles
  BY <1>3 DEF LostHandles, Busy
<1>15. LostMemory' = LostMemory
  <2>1. \A t \in THREADS : Has(t)' = Has(t)
    BY <1>3 DEF Has
  <2>2. \A b \in Addr : b \in LostMemory' <=> b \in LostMemory
    BY <1>2, <1>3, <2>1 DEF LostMemory, Addr
  <2> QED
    BY <2>2 DEF LostMemory, Addr
<1>16. ReleaseStep
  BY <1>14, <1>15 DEF ReleaseStep
<1> QED
  BY <1>8, <1>13, <1>16 DEF SafeStep, PromiseStep, Promise!Next

\* The invariant is inductive on every platform, and every step abides by the
\* promise and releases what it has.
LEMMA NextAInv == AInv /\ [AllocNext]_allocvars => AInv' /\ SafeStep
<1> SUFFICES ASSUME AInv, [AllocNext]_allocvars PROVE AInv' /\ SafeStep
  BY Zenon
<1>1. ASSUME NEW t \in THREADS, Calls(t, "create"), UNCHANGED platform PROVE AInv' /\ SafeStep
  BY <1>1, ThreadMoves, GoesOn, ZenonT(30) DEF Calls
<1>2. ASSUME NEW t \in THREADS, allocate_mirrored(t) PROVE AInv' /\ SafeStep
  BY <1>2, LinuxStep, SysVStep, MacStep, WindowsStep DEF allocate_mirrored
<1>3. ASSUME NEW t \in THREADS, deallocate_mirrored(t) PROVE AInv' /\ SafeStep
  BY <1>3, Deallocates
<1>4. CASE OtherCode /\ UNCHANGED platform
  BY <1>4, OthersKeepAInv
<1>5. CASE UNCHANGED allocvars
  <2>1. AInv'
    BY <1>5 DEF allocvars, spacevars, AInv, Types, ThreadOK, ObjectsApart, ObjectsMapped,
       MemoryReserved, HandlesHeld, HasObject, HasHandle, Placed, Mapped, Reserved, Has, Contents, Addr
  <2>2. PromiseStep
    BY <1>5 DEF allocvars, spacevars, PromiseStep, Promise!vars, Busy, Freeing, Addr
  <2>3. ReleaseStep
    BY <1>5 DEF ReleaseStep
  <2> QED
    BY <2>1, <2>2, <2>3 DEF SafeStep
<1> QED
  BY <1>1, <1>2, <1>3, <1>4, <1>5 DEF AllocNext

-----------------------------------------------------------------------------
\* What the invariant implies.

\* Both halves of a held region, and no other address, map its object.
LEMMA MirroredFromInv == AInv => Mirrored
<1> SUFFICES ASSUME AInv, NEW t \in THREADS, th[t].pc = "held"
             PROVE  {a \in Addr : vm[a] = th[t].obj} = Has(t)
  BY DEF Mirrored
<1>1. HeldMapped
  BY HeldIsMapped
<1> QED
  BY <1>1, SpaceAssumption DEF HeldMapped, Has

\* Before the first call no thread has a region.
LEMMA PromiseInit == AllocInit => Promise!Init
BY SpaceAssumption DEF AllocInit, SpaceInit, Outside, Promise!Init, Busy, Freeing, Addr

\* The invariant holds in every behaviour of the allocators.
THEOREM AInvCorrect == AllocSpec => []AInv
BY InitAInv, NextAInv, PTL DEF AllocSpec

\* Both halves of a region that allocate_mirrored returned map the same memory,
\* which is mapped nowhere else, until deallocate_mirrored is called: on every
\* platform, whatever the other threads and other code map and unmap meanwhile.
THEOREM MirroredCorrect == AllocSpec => []Mirrored
BY AInvCorrect, MirroredFromInv, PTL

\* Whichever system call of allocate_mirrored fails, at whichever attempt and
\* whatever the other threads do, no step leaves a handle or memory that nobody
\* will release, but for the returns at winapi.rs:88 and macos.rs:90, which leave
\* the file mapping and the region of their own call and nothing else.
THEOREM ErrorsReleaseCorrect == AllocSpec => ErrorsRelease
<1>1. AInv /\ [AllocNext]_allocvars => ReleaseStep
  BY NextAInv DEF SafeStep
<1> QED
  BY <1>1, AInvCorrect, PTL DEF AllocSpec, ErrorsRelease, ReleaseStep

\* The allocator of every platform implements the promise of MirroredAlloc: a
\* region that is returned overlaps no other region and no memory of other code.
THEOREM KeepsPromiseCorrect == AllocSpec => KeepsPromise
<1>1. AllocInit => Promise!Init
  BY PromiseInit
<1>2. AInv /\ [AllocNext]_allocvars => [Promise!Next]_(Promise!vars)
  BY NextAInv DEF SafeStep, PromiseStep
<1> QED
  BY <1>1, <1>2, AInvCorrect, PTL DEF AllocSpec, KeepsPromise, Promise!Spec

=============================================================================
