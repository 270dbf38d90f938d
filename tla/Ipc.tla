---------------------------------- MODULE Ipc ----------------------------------
(***************************************************************************)
(* shared_memory and semaphore (ipc.cc), used the way test_ipc.cc combines *)
(* them.  When the session is gated (44-123) the parent opens the segment, *)
(* constructs the object in it, opens the semaphore and releases it; a     *)
(* child opens and acquires the semaphore before it opens the segment.     *)
(* When it is not (258-325) every process opens the segment, the one that  *)
(* created it constructs the object, and all use it at once.  In both, who *)
(* created an object unlinks its name.  A process may die at any step.     *)
(*                                                                         *)
(* A name may come to stand for another object, so objects are told apart: *)
(* each is identified by the process that created it.                      *)
(***************************************************************************)
EXTENDS Naturals, FiniteSets

CONSTANTS Procs,      \* processes
          Parent,     \* the one that forked the others
          None,       \* no object
          Gated,      \* the semaphore is used
          Need,       \* permits each child acquires, acquire(count)
          MaxCrashes  \* bound: processes that die

ASSUME ProcsAssumption == IsFiniteSet(Procs) /\ Cardinality(Procs) > 1
ASSUME ParentAssumption == Parent \in Procs /\ None \notin Procs /\ Gated \in BOOLEAN
ASSUME NeedAssumption == Need \in Nat \ {0} /\ MaxCrashes \in Nat

Names == {"shm", "sem"}

VARIABLES pc,       \* where each process is
          name,     \* the object its constructor is opening
          named,    \* the object each name stands for
          handle,   \* the objects a process has opened, by name
          segment,  \* the state of each shared memory
          permits,  \* the value of each semaphore
          count     \* permits a process has still to release or acquire

vars == <<pc, name, named, handle, segment, permits, count>>

Init ==
    /\ pc = [p \in Procs |-> "open"]
    /\ name = [p \in Procs |-> IF Gated /\ p # Parent THEN "sem" ELSE "shm"]
    /\ named = [n \in Names |-> None]
    /\ handle = [p \in Procs |-> [n \in Names |-> None]]
    /\ segment = [o \in Procs |-> "none"] /\ permits = [o \in Procs |-> 0]
    /\ count = [p \in Procs |-> 0]

Goto(p, l) == pc' = [pc EXCEPT ![p] = l]

Over == {"done", "failed", "dead"}

-----------------------------------------------------------------------------
(* The constructors of shared_memory and semaphore. *)

\* Who constructs the object in the segment.
Builds(p, o) == IF Gated THEN p = Parent ELSE o = p

\* The constructor returns with object o, and the process goes on: the semaphore
\* is released by the parent and acquired by a child, the segment is built or used.
Opened(p, o) ==
    /\ handle' = [handle EXCEPT ![p][name[p]] = o]
    /\ \/ /\ name[p] = "sem"
          /\ Goto(p, IF p = Parent THEN "release" ELSE "acquire")
          /\ count' = [count EXCEPT ![p] =
                          IF p = Parent THEN Need * (Cardinality(Procs) - 1) ELSE Need]
       \/ /\ name[p] = "shm"
          /\ Goto(p, IF Builds(p, o) THEN "construct" ELSE "use")
          /\ UNCHANGED count

\* The first shm_open or sem_open, without O_CREAT.
Open(p) ==
    /\ pc[p] = "open"
    /\ \/ named[name[p]] # None /\ Opened(p, named[name[p]])
       \/ named[name[p]] = None /\ Goto(p, "create") /\ UNCHANGED <<handle, count>>
    /\ UNCHANGED <<name, named, segment, permits>>

\* The second, with O_CREAT | O_EXCL: it creates the object or fails with EEXIST.
\* The name of a segment is visible before the segment has a size.
Create(p) ==
    /\ pc[p] = "create"
    /\ \/ /\ named[name[p]] # None
          /\ Goto(p, "again") /\ UNCHANGED <<named, handle, count>>
       \/ /\ named[name[p]] = None
          /\ named' = [named EXCEPT ![name[p]] = p]
          /\ IF name[p] = "shm"
             THEN Goto(p, "size") /\ UNCHANGED <<handle, count>>
             ELSE Opened(p, p)
    /\ UNCHANGED <<name, segment, permits>>

\* The third, after EEXIST: it throws unless the name is still there.
Again(p) ==
    /\ pc[p] = "again"
    /\ \/ named[name[p]] # None /\ Opened(p, named[name[p]])
       \/ named[name[p]] = None /\ Goto(p, "failed") /\ UNCHANGED <<handle, count>>
    /\ UNCHANGED <<name, named, segment, permits>>

\* The creator of a segment gives it its size, ...
Size(p) ==
    /\ pc[p] = "size"
    /\ segment' = [segment EXCEPT ![p] = "raw"] /\ Goto(p, "clear")
    /\ UNCHANGED <<name, named, handle, permits, count>>

\* ... maps it and clears it.
Clear(p) ==
    /\ pc[p] = "clear"
    /\ segment' = [segment EXCEPT ![p] = "zero"] /\ Opened(p, p)
    /\ UNCHANGED <<name, named, permits>>

\* shared_memory::construct; the parent goes on to the semaphore.
Construct(p) ==
    /\ pc[p] = "construct"
    /\ segment' = [segment EXCEPT ![handle[p]["shm"]] = "ready"]
    /\ Goto(p, IF Gated THEN "open" ELSE "use")
    /\ name' = [name EXCEPT ![p] = IF Gated THEN "sem" ELSE @]
    /\ UNCHANGED <<named, handle, permits, count>>

Constructor(p) == Open(p) \/ Create(p) \/ Again(p) \/ Size(p) \/ Clear(p) \/ Construct(p)

-----------------------------------------------------------------------------
(* semaphore::release and acquire, a permit at a time. *)

\* A call of sem_post or sem_wait; after the last the parent uses the object and a
\* child opens the segment.
Counted(p) ==
    /\ count' = [count EXCEPT ![p] = @ - 1]
    /\ Goto(p, IF count[p] > 1 THEN pc[p] ELSE IF p = Parent THEN "use" ELSE "open")
    /\ name' = [name EXCEPT ![p] = IF count[p] > 1 THEN @ ELSE "shm"]

Release(p) ==
    /\ pc[p] = "release"
    /\ permits' = [permits EXCEPT ![handle[p]["sem"]] = @ + 1]
    /\ Counted(p)
    /\ UNCHANGED <<named, handle, segment>>

\* Mutant: a sem_wait that fails is counted as well.
AcquireUnchecked(p) ==
    /\ pc[p] = "acquire"
    /\ \/ /\ permits[handle[p]["sem"]] > 0
          /\ permits' = [permits EXCEPT ![handle[p]["sem"]] = @ - 1]
       \/ UNCHANGED permits
    /\ Counted(p)
    /\ UNCHANGED <<named, handle, segment>>

\* sem_wait blocks without a permit; try_acquire fails, and is called again.
Acquire(p) ==
    /\ pc[p] = "acquire" /\ permits[handle[p]["sem"]] > 0
    /\ permits' = [permits EXCEPT ![handle[p]["sem"]] = @ - 1]
    /\ Counted(p)
    /\ UNCHANGED <<named, handle, segment>>

\* A signal interrupts sem_wait, and acquire throws.
Interrupted(p) ==
    /\ pc[p] = "acquire" /\ Goto(p, "failed")
    /\ UNCHANGED <<name, named, handle, segment, permits, count>>

-----------------------------------------------------------------------------
\* What a process waits for at its end: the parent for its children to end, or all
\* for each other at the barrier in the segment.
MayLeave(p) ==
    \A q \in Procs \ {p} :
        IF Gated THEN p = Parent => pc[q] \in Over ELSE pc[q] \in {"use"} \cup Over

\* The end of a process: it unlinks the names of the objects it created.
Leave(p) ==
    /\ pc[p] = "use" /\ MayLeave(p)
    /\ named' = [n \in Names |-> IF handle[p][n] = p THEN None ELSE named[n]]
    /\ Goto(p, "done")
    /\ UNCHANGED <<name, handle, segment, permits, count>>

Dead == {p \in Procs : pc[p] = "dead"}

Crash(p) ==
    /\ pc[p] \notin Over /\ Cardinality(Dead) < MaxCrashes
    /\ Goto(p, "dead")
    /\ UNCHANGED <<name, named, handle, segment, permits, count>>

Process(p) == Constructor(p) \/ Release(p) \/ Acquire(p) \/ Leave(p)

Next == \E p \in Procs : Process(p) \/ Interrupted(p) \/ Crash(p)

Spec == Init /\ [][Next]_vars

-----------------------------------------------------------------------------
\* Nobody uses the object in the segment before it has been constructed: a segment
\* is sized, cleared and filled after its name is visible (ipc.cc:17-62), in the
\* middle of which another process may open it.
UsedWhenReady == \A p \in Procs : pc[p] = "use" => segment[handle[p]["shm"]] = "ready"
=============================================================================
