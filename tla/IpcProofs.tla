------------------------------ MODULE IpcProofs ------------------------------
(***************************************************************************)
(* What processes share.  The hand-over of the segment, for any number of  *)
(* children, permits and deaths; the guards of a pshared_rwlock, for any   *)
(* number of users; pshared_one_time_fence and pshared_barrier, each by    *)
(* itself and both in one segment, for any set of threads, any count and   *)
(* number of calls; and the whole session, which is made of these.         *)
(***************************************************************************)
EXTENDS Session, FiniteSetTheorems, TLAPS

Running == {"open", "create", "again", "size", "clear", "construct", "release", "acquire", "use"}
Objects == Procs \cup {None}

\* The loops of release and acquire have a semaphore and a permit to go.
Counting ==
    \A p \in Procs :
        pc[p] \in {"release", "acquire"} => count[p] > 0 /\ handle[p]["sem"] \in Procs

TypeOK ==
    /\ pc \in [Procs -> Running \cup Over]
    /\ name \in [Procs -> Names]
    /\ named \in [Names -> Objects]
    /\ handle \in [Procs -> [Names -> Objects]]
    /\ segment \in [Procs -> {"none", "raw", "zero", "ready"}]
    /\ permits \in [Procs -> Nat]
    /\ count \in [Procs -> Nat]
    /\ Counting

\* The parent has built the object in its own segment.
Filled == segment[Parent] = "ready" /\ handle[Parent]["shm"] = Parent

\* The parent creates the segment, since nobody else comes to it so soon, and goes
\* on to the semaphore when the object is there.
ParentInv ==
    /\ pc[Parent] \in {"open", "create"} /\ name[Parent] = "shm" =>
            named["shm"] = None /\ segment[Parent] # "ready"
    /\ pc[Parent] \in {"size", "clear", "construct"} =>
            named["shm"] = Parent /\ segment[Parent] # "ready" /\ name[Parent] = "shm"
    /\ pc[Parent] = "construct" => handle[Parent]["shm"] = Parent
    /\ pc[Parent] = "again" => name[Parent] = "sem"
    /\ pc[Parent] # "acquire"
    /\ pc[Parent] \in {"release", "use"} \/ name[Parent] = "sem" => Filled

\* A child comes to the segment with a permit, and there is one only then.
ChildInv ==
    \A p \in Procs \ {Parent} :
        /\ pc[p] \notin {"size", "clear", "construct", "release"}
        /\ name[p] = "shm" => Filled /\ pc[p] \in {"open", "use"} \cup Over
        /\ handle[p]["shm"] \in {None, Parent}
        /\ pc[p] = "use" => handle[p]["shm"] = Parent /\ name[p] = "shm"

\* The name of the segment stands for the parent's as long as a child may open it.
NameInv ==
    /\ named["shm"] \in {None, Parent}
    /\ Filled /\ (\E p \in Procs \ {Parent} : pc[p] \notin Over) => named["shm"] = Parent

PermitInv == \A o \in Procs : permits[o] > 0 => Filled

GateInv == TypeOK /\ ParentInv /\ ChildInv /\ NameInv /\ PermitInv

-----------------------------------------------------------------------------
(* Types. *)

\* The permits the parent releases, one share for each of its children.
LEMMA SharesPositive ==
    Need * (Cardinality(Procs) - 1) \in Nat /\ Need * (Cardinality(Procs) - 1) > 0
<1> DEFINE c == Cardinality(Procs)
<1>1. c \in Nat /\ c > 1
  BY ProcsAssumption, FS_CardinalityType
<1> HIDE DEF c
<1>2. c - 1 \in Nat /\ c - 1 > 0
  BY <1>1
<1>3. \A m, n \in Nat : m > 0 /\ n > 0 => m * n \in Nat /\ m * n > 0
  OBVIOUS
<1> QED BY <1>2, <1>3, NeedAssumption DEF c

\* At the start no process has opened anything.
LEMMA InitTypes == Init => TypeOK
<1> SUFFICES ASSUME Init PROVE TypeOK
  OBVIOUS
<1>1. None \in Objects
  BY DEF Objects
<1>2. /\ name \in [Procs -> Names] /\ named \in [Names -> Objects]
      /\ handle \in [Procs -> [Names -> Objects]]
  BY <1>1 DEF Init, Names
<1>3. Counting
  BY DEF Init, Counting
<1> QED BY <1>2, <1>3 DEF Init, TypeOK, Running

\* What the return of a constructor changes: the process has a handle and a place
\* to go on, with a permit to go where it counts them.
LEMMA OpenedTypes ==
    ASSUME TypeOK, NEW p \in Procs, NEW o \in Procs, Opened(p, o)
    PROVE  /\ handle' \in [Procs -> [Names -> Objects]]
           /\ count' \in [Procs -> Nat]
           /\ pc' \in [Procs -> Running \cup Over]
           /\ Counting'
<1>1. /\ handle \in [Procs -> [Names -> Objects]] /\ name[p] \in Names
      /\ count \in [Procs -> Nat] /\ pc \in [Procs -> Running \cup Over] /\ Counting
  BY DEF TypeOK
<1>2. /\ handle' \in [Procs -> [Names -> Objects]] /\ handle'[p][name[p]] = o
      /\ \A q \in Procs : q # p => handle'[q] = handle[q]
  BY <1>1 DEF Opened, Objects
<1>3. CASE name[p] = "sem"
  <2>1. PICK k \in Nat, l \in {"release", "acquire"} :
          /\ k > 0 /\ count' = [count EXCEPT ![p] = k] /\ pc' = [pc EXCEPT ![p] = l]
    BY <1>3, SharesPositive, NeedAssumption DEF Opened, Goto
  <2>2. count' \in [Procs -> Nat] /\ pc' \in [Procs -> Running \cup Over]
    BY <1>1, <2>1 DEF Running
  <2>3. Counting'
    BY <1>1, <1>2, <1>3, <2>1 DEF Counting
  <2> QED BY <1>2, <2>2, <2>3
<1>4. CASE name[p] = "shm"
  <2>1. PICK l \in {"construct", "use"} : pc' = [pc EXCEPT ![p] = l] /\ count' = count
    BY <1>4 DEF Opened, Goto
  <2>2. count' \in [Procs -> Nat] /\ pc' \in [Procs -> Running \cup Over]
    BY <1>1, <2>1 DEF Running
  <2>3. Counting'
    BY <1>1, <1>2, <2>1 DEF Counting
  <2> QED BY <1>2, <2>2, <2>3
<1> QED BY <1>1, <1>3, <1>4 DEF Names

\* Every step keeps the types.
LEMMA NextTypes == TypeOK /\ [Next]_vars => TypeOK'
<1> SUFFICES ASSUME TypeOK, [Next]_vars PROVE TypeOK'
  OBVIOUS
<1>1. /\ pc \in [Procs -> Running \cup Over] /\ name \in [Procs -> Names]
      /\ named \in [Names -> Objects] /\ handle \in [Procs -> [Names -> Objects]]
      /\ segment \in [Procs -> {"none", "raw", "zero", "ready"}]
      /\ permits \in [Procs -> Nat] /\ count \in [Procs -> Nat]
      /\ Counting
  BY DEF TypeOK
<1>2. ASSUME NEW p \in Procs, NEW l \in (Running \cup Over) \ {"release", "acquire"},
             pc' = [pc EXCEPT ![p] = l], count' = count, handle' = handle
      PROVE  /\ pc' \in [Procs -> Running \cup Over] /\ count' \in [Procs -> Nat]
             /\ handle' \in [Procs -> [Names -> Objects]] /\ Counting'
  <2>1. pc' \in [Procs -> Running \cup Over]
    BY <1>1, <1>2
  <2> QED BY <1>1, <1>2, <2>1 DEF Counting
<1>3. \A p \in Procs : named[name[p]] # None => named[name[p]] \in Procs
  BY <1>1 DEF Objects
<1>4. ASSUME NEW p \in Procs, Open(p) \/ Again(p) PROVE TypeOK'
  <2>1. UNCHANGED <<name, named, segment, permits>>
    BY <1>4 DEF Open, Again
  <2>2. CASE named[name[p]] # None
    <3>1. named[name[p]] \in Procs /\ Opened(p, named[name[p]])
      BY <1>3, <1>4, <2>2 DEF Open, Again
    <3> QED BY <1>1, <2>1, <3>1, OpenedTypes DEF TypeOK
  <2>3. CASE named[name[p]] = None
    <3>1. PICK l \in {"create", "failed"} :
            pc' = [pc EXCEPT ![p] = l] /\ UNCHANGED <<handle, count>>
      BY <1>4, <2>3 DEF Open, Again, Goto
    <3> QED BY <1>1, <1>2, <2>1, <3>1 DEF TypeOK, Running, Over
  <2> QED BY <2>2, <2>3
<1>5. ASSUME NEW p \in Procs, Create(p) PROVE TypeOK'
  <2>1. UNCHANGED <<name, segment, permits>> /\ name[p] \in Names
    BY <1>1, <1>5 DEF Create
  <2>2. named' \in [Names -> Objects]
    BY <1>1, <1>5, <2>1 DEF Create, Objects
  <2>3. CASE Opened(p, p)
    BY <1>1, <2>1, <2>2, <2>3, OpenedTypes DEF TypeOK
  <2>4. CASE ~Opened(p, p)
    <3>1. PICK l \in {"again", "size"} :
            pc' = [pc EXCEPT ![p] = l] /\ UNCHANGED <<handle, count>>
      BY <1>5, <2>4 DEF Create, Goto
    <3> QED BY <1>1, <1>2, <2>1, <2>2, <3>1 DEF TypeOK, Running
  <2> QED BY <2>3, <2>4
<1>6. ASSUME NEW p \in Procs, Size(p) PROVE TypeOK'
  BY <1>1, <1>2, <1>6 DEF Size, Goto, TypeOK, Running
<1>7. ASSUME NEW p \in Procs, Clear(p) PROVE TypeOK'
  <2>1. Opened(p, p) /\ UNCHANGED <<name, named, permits>>
    BY <1>7 DEF Clear
  <2>2. segment' \in [Procs -> {"none", "raw", "zero", "ready"}]
    BY <1>1, <1>7 DEF Clear
  <2> QED BY <1>1, <2>1, <2>2, OpenedTypes DEF TypeOK
<1>8. ASSUME NEW p \in Procs, Construct(p) PROVE TypeOK'
  <2>1. PICK l \in {"open", "use"} : pc' = [pc EXCEPT ![p] = l]
    BY <1>8 DEF Construct, Goto
  <2>2. name' \in [Procs -> Names]
    BY <1>1, <1>8 DEF Construct, Names
  <2>3. segment' \in [Procs -> {"none", "raw", "zero", "ready"}]
    BY <1>1, <1>8 DEF Construct
  <2> QED BY <1>1, <1>2, <1>8, <2>1, <2>2, <2>3 DEF Construct, TypeOK, Running
<1>9. ASSUME NEW p \in Procs, Release(p) \/ Acquire(p) PROVE TypeOK'
  <2>1. /\ pc[p] \in {"release", "acquire"} /\ UNCHANGED <<named, handle, segment>>
        /\ Counted(p)
    BY <1>9 DEF Release, Acquire
  <2>2. permits' \in [Procs -> Nat]
    <3>1. PICK h \in Procs : h = handle[p]["sem"]
      BY <1>1, <2>1 DEF Counting
    <3>2. PICK n \in Nat : permits' = [permits EXCEPT ![h] = n]
      <4>1. permits[h] \in Nat
        BY <1>1
      <4>2. CASE Release(p)
        <5>1. permits[h] + 1 \in Nat /\ permits' = [permits EXCEPT ![h] = permits[h] + 1]
          BY <3>1, <4>1, <4>2 DEF Release
        <5> QED BY <5>1
      <4>3. CASE Acquire(p)
        <5>1. permits[h] - 1 \in Nat /\ permits' = [permits EXCEPT ![h] = permits[h] - 1]
          BY <3>1, <4>1, <4>3 DEF Acquire
        <5> QED BY <5>1
      <4> QED BY <1>9, <4>2, <4>3
    <3> QED BY <1>1, <3>2
  <2>3. count[p] \in Nat /\ count[p] > 0 /\ count[p] - 1 \in Nat
    BY <1>1, <2>1 DEF Counting
  <2>4. count' \in [Procs -> Nat] /\ name' \in [Procs -> Names]
    BY <1>1, <2>1, <2>3 DEF Counted, Names
  <2>5. pc' \in [Procs -> Running \cup Over]
    BY <1>1, <2>1 DEF Counted, Goto, Running
  <2>6. Counting'
    BY <1>1, <2>1, <2>3 DEF Counting, Counted, Goto
  <2> QED BY <1>1, <2>1, <2>2, <2>4, <2>5, <2>6 DEF TypeOK
<1>10. ASSUME NEW p \in Procs, Interrupted(p) PROVE TypeOK'
  BY <1>1, <1>2, <1>10 DEF Interrupted, Goto, TypeOK, Over
<1>11. ASSUME NEW p \in Procs, Leave(p) PROVE TypeOK'
  <2>1. named' \in [Names -> Objects]
    BY <1>1, <1>11 DEF Leave, Objects
  <2> QED BY <1>1, <1>2, <1>11, <2>1 DEF Leave, Goto, TypeOK, Over
<1>12. ASSUME NEW p \in Procs, Crash(p) PROVE TypeOK'
  BY <1>1, <1>2, <1>12 DEF Crash, Goto, TypeOK, Over
<1>13. CASE UNCHANGED vars
  BY <1>13 DEF vars, TypeOK, Counting
<1> QED BY <1>4, <1>5, <1>6, <1>7, <1>8, <1>9, <1>10, <1>11, <1>12, <1>13
        DEF Next, Process, Constructor

\* The state of a session keeps its types, gated or not.
THEOREM TypeCorrect == Spec => []TypeOK
  BY InitTypes, NextTypes, PTL DEF Spec

-----------------------------------------------------------------------------
(* The gate. *)

\* At the start no process has opened anything, and the children begin with the
\* semaphore.
LEMMA GateInit ==
    ASSUME Gated, Init
    PROVE  GateInv
<1>1. TypeOK
  BY InitTypes
<1>2. /\ Parent \in Procs /\ None # Parent /\ named["shm"] = None
      /\ pc[Parent] = "open" /\ name[Parent] = "shm" /\ segment[Parent] = "none"
  BY ParentAssumption DEF Init, Names
<1>3. ASSUME NEW p \in Procs
      PROVE  /\ pc[p] = "open" /\ handle[p]["shm"] = None /\ permits[p] = 0
             /\ p # Parent => name[p] = "sem"
  BY DEF Init, Names
<1>4. ~Filled
  BY <1>2 DEF Filled
<1>5. ParentInv
  BY <1>2 DEF ParentInv
<1>6. ChildInv
  BY <1>3 DEF ChildInv
<1>7. NameInv
  BY <1>2, <1>4 DEF NameInv
<1>8. PermitInv
  BY <1>3 DEF PermitInv
<1> QED BY <1>1, <1>5, <1>6, <1>7, <1>8 DEF GateInv

\* What a step of p leaves alone: the other processes, and all segments but the one
\* it writes to.
Others(p) ==
    \A q \in Procs : q # p => pc'[q] = pc[q] /\ name'[q] = name[q] /\ handle'[q] = handle[q]

\* A step of a child, which touches neither the parent's segment nor the name of it,
\* keeps what is said of the others.
ChildStep(p) ==
    /\ Others(p) /\ pc[p] \notin Over
    /\ segment'[Parent] = segment[Parent] /\ named'["shm"] = named["shm"]
    /\ \A o \in Procs : permits'[o] > 0 => permits[o] > 0
    /\ pc'[p] \notin {"size", "clear", "construct", "release"}
    /\ name'[p] = "shm" => Filled /\ pc'[p] \in {"open", "use"} \cup Over
    /\ handle'[p]["shm"] \in {None, Parent}
    /\ pc'[p] = "use" => handle'[p]["shm"] = Parent /\ name'[p] = "shm"

\* Such a step keeps the invariant.
LEMMA ChildKeeps ==
    ASSUME GateInv, TypeOK', NEW p \in Procs, p # Parent, ChildStep(p)
    PROVE  GateInv'
<1>1. /\ Parent \in Procs /\ pc'[Parent] = pc[Parent]
      /\ name'[Parent] = name[Parent] /\ handle'[Parent] = handle[Parent]
      /\ segment'[Parent] = segment[Parent] /\ named'["shm"] = named["shm"]
  BY ParentAssumption DEF ChildStep, Others
<1>2. Filled' <=> Filled
  BY <1>1 DEF Filled
<1>3. ParentInv'
  BY <1>1, <1>2 DEF GateInv, ParentInv
<1>4. ChildInv'
  <2> SUFFICES ASSUME NEW q \in Procs \ {Parent}
               PROVE  /\ pc'[q] \notin {"size", "clear", "construct", "release"}
                      /\ name'[q] = "shm" => Filled /\ pc'[q] \in {"open", "use"} \cup Over
                      /\ handle'[q]["shm"] \in {None, Parent}
                      /\ pc'[q] = "use" => handle'[q]["shm"] = Parent /\ name'[q] = "shm"
    BY <1>2 DEF ChildInv
  <2>1. CASE q = p
    BY <2>1 DEF ChildStep
  <2>2. CASE q # p
    BY <2>2 DEF ChildStep, Others, GateInv, ChildInv
  <2> QED BY <2>1, <2>2
<1>5. NameInv'
  <2>1. ASSUME Filled', NEW q \in Procs \ {Parent}, pc'[q] \notin Over
        PROVE  named["shm"] = Parent
    BY <1>2, <2>1 DEF ChildStep, GateInv, NameInv
  <2> QED BY <1>1, <2>1 DEF GateInv, NameInv
<1>6. PermitInv'
  BY <1>2 DEF ChildStep, GateInv, PermitInv
<1> QED BY <1>3, <1>4, <1>5, <1>6 DEF GateInv

\* A step of the parent, which leaves the children alone, does not take the object
\* back and releases the semaphore when it is there.
ParentStep ==
    /\ Others(Parent) /\ ParentInv' /\ (Filled => Filled')
    /\ named'["shm"] \in {None, Parent}
    /\ Filled' /\ (\E p \in Procs \ {Parent} : pc[p] \notin Over) => named'["shm"] = Parent
    /\ \A o \in Procs : permits'[o] > 0 => permits[o] > 0 \/ Filled

\* Such a step keeps the invariant.
LEMMA ParentKeeps ==
    ASSUME GateInv, TypeOK', ParentStep
    PROVE  GateInv'
<1>1. ChildInv'
  <2> SUFFICES ASSUME NEW q \in Procs \ {Parent}
               PROVE  /\ pc'[q] \notin {"size", "clear", "construct", "release"}
                      /\ name'[q] = "shm" => Filled' /\ pc'[q] \in {"open", "use"} \cup Over
                      /\ handle'[q]["shm"] \in {None, Parent}
                      /\ pc'[q] = "use" => handle'[q]["shm"] = Parent /\ name'[q] = "shm"
    BY DEF ChildInv
  <2> QED BY DEF ParentStep, Others, GateInv, ChildInv
<1>2. NameInv'
  <2>1. ASSUME NEW q \in Procs \ {Parent}, pc'[q] \notin Over PROVE pc[q] \notin Over
    BY <2>1 DEF ParentStep, Others
  <2> QED BY <2>1 DEF ParentStep, NameInv
<1>3. PermitInv'
  BY DEF ParentStep, GateInv, PermitInv
<1> QED BY <1>1, <1>2, <1>3 DEF GateInv, ParentStep

\* What the types say of the maps a step updates.
LEMMA Maps ==
    ASSUME TypeOK
    PROVE  /\ pc \in [Procs -> Running \cup Over] /\ name \in [Procs -> Names]
           /\ handle \in [Procs -> [Names -> Objects]] /\ named \in [Names -> Objects]
           /\ segment \in [Procs -> {"none", "raw", "zero", "ready"}]
           /\ permits \in [Procs -> Nat] /\ count \in [Procs -> Nat]
           /\ Parent \in Procs /\ None \notin Procs /\ "shm" \in Names /\ "sem" \in Names
  BY ParentAssumption DEF TypeOK, Names

\* The return of a constructor, for the parent and for a child.
LEMMA OpenedGoesOn ==
    ASSUME Gated, TypeOK, NEW p \in Procs, NEW o \in Procs, Opened(p, o), UNCHANGED name
    PROVE  /\ Others(p)
           /\ name[p] = "sem" =>
                /\ pc'[p] = (IF p = Parent THEN "release" ELSE "acquire")
                /\ handle'[p]["shm"] = handle[p]["shm"]
           /\ name[p] = "shm" =>
                /\ pc'[p] = (IF p = Parent THEN "construct" ELSE "use")
                /\ handle'[p]["shm"] = o
<1>1. Others(p)
  BY Maps DEF Opened, Goto, Others
<1>2. CASE name[p] = "sem"
  <2>1. /\ pc' = [pc EXCEPT ![p] = IF p = Parent THEN "release" ELSE "acquire"]
        /\ handle' = [handle EXCEPT ![p]["sem"] = o]
    BY <1>2 DEF Opened, Goto
  <2>2. pc'[p] = IF p = Parent THEN "release" ELSE "acquire"
    BY <2>1, Maps
  <2>3. handle'[p]["shm"] = handle[p]["shm"]
    BY <2>1, Maps
  <2> QED BY <1>1, <1>2, <2>2, <2>3
<1>3. CASE name[p] = "shm"
  <2>1. /\ pc' = [pc EXCEPT ![p] = IF p = Parent THEN "construct" ELSE "use"]
        /\ handle' = [handle EXCEPT ![p]["shm"] = o]
    BY <1>3 DEF Opened, Goto, Builds
  <2>2. pc'[p] = IF p = Parent THEN "construct" ELSE "use"
    BY <2>1, Maps
  <2>3. handle'[p]["shm"] = o
    BY <2>1, Maps
  <2> QED BY <1>1, <1>3, <2>2, <2>3
<1> QED BY <1>2, <1>3, Maps DEF Names

\* A step that moves p alone and opens nothing.
LEMMA MovesOn ==
    ASSUME TypeOK, NEW p \in Procs, NEW l, pc' = [pc EXCEPT ![p] = l], UNCHANGED <<name, handle>>
    PROVE  Others(p) /\ pc'[p] = l /\ name'[p] = name[p] /\ handle'[p] = handle[p]
  BY Maps DEF Others

\* A child opens or creates the semaphore, or opens the segment of the parent.
LEMMA ChildOpens ==
    ASSUME Gated, GateInv, TypeOK', NEW p \in Procs, p # Parent, Constructor(p)
    PROVE  GateInv'
<1>1. TypeOK /\ p \in Procs \ {Parent}
  BY DEF GateInv
<1>2. /\ pc[p] \in {"open", "create", "again"} /\ UNCHANGED <<name, segment, permits>>
      /\ handle[p]["shm"] \in {None, Parent}
      /\ name[p] = "shm" => Filled /\ pc[p] \in {"open", "use"} \cup Over
  <2>1. /\ pc[p] \notin {"size", "clear", "construct"} /\ handle[p]["shm"] \in {None, Parent}
        /\ name[p] = "shm" => Filled /\ pc[p] \in {"open", "use"} \cup Over
    BY <1>1 DEF GateInv, ChildInv
  <2> QED BY <2>1 DEF Constructor, Open, Create, Again, Size, Clear, Construct
<1>3. pc[p] \notin Over /\ (pc[p] # "open" => name[p] = "sem")
  BY <1>1, <1>2, Maps DEF Over, Names
<1>4. name[p] = "shm" => Filled /\ named["shm"] = Parent
  BY <1>1, <1>2, <1>3 DEF GateInv, NameInv
<1>5. ASSUME NEW o \in Procs, Opened(p, o), name[p] = "shm" => o = Parent,
             named'["shm"] = named["shm"]
      PROVE  GateInv'
  <2>1. /\ Others(p)
        /\ name[p] = "sem" => pc'[p] = "acquire" /\ handle'[p]["shm"] = handle[p]["shm"]
        /\ name[p] = "shm" => pc'[p] = "use" /\ handle'[p]["shm"] = Parent
    <3>1. UNCHANGED name
      BY <1>2
    <3> QED BY <1>1, <1>5, <3>1, OpenedGoesOn
  <2>2. CASE name[p] = "sem"
    <3>1. ChildStep(p)
      BY <1>2, <1>3, <1>5, <2>1, <2>2 DEF ChildStep
    <3> QED BY <3>1, ChildKeeps
  <2>3. CASE name[p] = "shm"
    <3>1. ChildStep(p)
      BY <1>2, <1>3, <1>4, <1>5, <2>1, <2>3 DEF ChildStep
    <3> QED BY <3>1, ChildKeeps
  <2> QED BY <1>1, <2>2, <2>3, Maps DEF Names
<1>6. ASSUME NEW l \in {"create", "again", "failed"}, pc' = [pc EXCEPT ![p] = l],
             UNCHANGED <<handle, named>>, name[p] = "sem"
      PROVE  GateInv'
  <2>1. Others(p) /\ pc'[p] = l /\ name'[p] = name[p] /\ handle'[p] = handle[p]
    BY <1>1, <1>2, <1>6, MovesOn
  <2>2. ChildStep(p)
    BY <1>2, <1>3, <1>6, <2>1 DEF ChildStep
  <2> QED BY <2>2, ChildKeeps
<1>7. CASE Open(p) \/ Again(p)
  <2>1. CASE named[name[p]] # None
    <3>1. named[name[p]] \in Procs /\ (name[p] = "shm" => named[name[p]] = Parent)
      BY <1>1, <1>4, <2>1, Maps DEF Objects
    <3>2. Opened(p, named[name[p]]) /\ UNCHANGED named
      BY <1>7, <2>1 DEF Open, Again
    <3> QED BY <1>5, <3>1, <3>2
  <2>2. CASE named[name[p]] = None
    <3>1. name[p] = "sem"
      BY <1>1, <1>4, <2>2, Maps DEF Names
    <3>2. PICK l \in {"create", "failed"} :
            pc' = [pc EXCEPT ![p] = l] /\ UNCHANGED <<handle, named>>
      BY <1>7, <2>2 DEF Open, Again, Goto
    <3> QED BY <1>6, <3>1, <3>2
  <2> QED BY <2>1, <2>2
<1>8. CASE Create(p)
  <2>1. name[p] = "sem"
    BY <1>3, <1>8 DEF Create
  <2>2. CASE named[name[p]] # None
    <3>1. pc' = [pc EXCEPT ![p] = "again"] /\ UNCHANGED <<handle, named>>
      BY <1>8, <2>2 DEF Create, Goto
    <3> QED BY <1>6, <2>1, <3>1
  <2>3. CASE named[name[p]] = None
    <3>1. Opened(p, p) /\ named' = [named EXCEPT !["sem"] = p]
      BY <1>8, <2>1, <2>3 DEF Create
    <3>2. named'["shm"] = named["shm"]
      BY <1>1, <3>1, Maps
    <3> QED BY <1>5, <2>1, <3>1, <3>2
  <2> QED BY <2>2, <2>3
<1> QED BY <1>2, <1>7, <1>8 DEF Constructor, Size, Clear, Construct

\* A child acquires, is interrupted, ends or dies: it comes to the segment only with
\* a permit.
LEMMA ChildGoesOn ==
    ASSUME Gated, GateInv, TypeOK', NEW p \in Procs, p # Parent,
           Release(p) \/ Acquire(p) \/ Interrupted(p) \/ Leave(p) \/ Crash(p)
    PROVE  GateInv'
<1>1. TypeOK /\ p \in Procs \ {Parent}
  BY DEF GateInv
<1>2. /\ pc[p] # "release" /\ handle[p]["shm"] \in {None, Parent}
      /\ name[p] = "shm" => Filled /\ pc[p] \in {"open", "use"} \cup Over
  BY <1>1 DEF GateInv, ChildInv
<1>3. pc[p] \notin Over /\ UNCHANGED <<handle, segment>>
  BY DEF Release, Acquire, Interrupted, Leave, Crash, Over
<1>4. CASE Acquire(p)
  <2>1. PICK h \in Procs : h = handle[p]["sem"]
    BY <1>1, <1>4 DEF Acquire, TypeOK, Counting
  <2>2. /\ permits[h] > 0 /\ permits' = [permits EXCEPT ![h] = permits[h] - 1]
        /\ Counted(p) /\ named' = named /\ pc[p] = "acquire"
    BY <1>4, <2>1 DEF Acquire
  <2>3. Filled
    BY <2>2 DEF GateInv, PermitInv
  <2>4. \A o \in Procs : permits'[o] > 0 => permits[o] > 0
    BY <1>1, <2>2, Maps
  <2>5. Others(p)
    BY <1>1, <1>3, <2>2, Maps DEF Counted, Goto, Others
  <2>6. \/ pc'[p] = "acquire" /\ name'[p] = name[p]
        \/ pc'[p] = "open" /\ name'[p] = "shm"
    <3>1. CASE count[p] > 1
      <4>1. pc' = [pc EXCEPT ![p] = pc[p]] /\ name' = [name EXCEPT ![p] = name[p]]
        BY <2>2, <3>1 DEF Counted, Goto
      <4>2. pc'[p] = pc[p] /\ name'[p] = name[p]
        BY <1>1, <4>1, Maps
      <4> QED BY <2>2, <4>2
    <3>2. CASE ~(count[p] > 1)
      <4>1. pc' = [pc EXCEPT ![p] = "open"] /\ name' = [name EXCEPT ![p] = "shm"]
        BY <2>2, <3>2 DEF Counted, Goto
      <4> QED BY <1>1, <4>1, Maps
    <3> QED BY <3>1, <3>2
  <2>7. name[p] # "shm"
    BY <1>2, <2>2 DEF Over
  <2>8. ChildStep(p)
    BY <1>2, <1>3, <2>2, <2>3, <2>4, <2>5, <2>6, <2>7 DEF ChildStep
  <2> QED BY <2>8, ChildKeeps
<1>5. CASE Interrupted(p) \/ Leave(p) \/ Crash(p)
  <2>1. PICK l \in Over : pc' = [pc EXCEPT ![p] = l] /\ UNCHANGED <<name, permits>>
    BY <1>5 DEF Interrupted, Leave, Crash, Goto, Over
  <2>2. Others(p) /\ pc'[p] = l /\ name'[p] = name[p] /\ handle'[p] = handle[p]
    BY <1>1, <1>3, <2>1, MovesOn
  <2>3. named'["shm"] = named["shm"]
    <3>1. CASE Leave(p)
      BY <1>1, <1>2, <3>1, Maps DEF Leave
    <3>2. CASE ~Leave(p)
      BY <1>5, <3>2 DEF Interrupted, Crash
    <3> QED BY <3>1, <3>2
  <2>4. ChildStep(p)
    BY <1>2, <1>3, <2>1, <2>2, <2>3 DEF ChildStep, Over
  <2> QED BY <2>4, ChildKeeps
<1> QED BY <1>2, <1>4, <1>5 DEF Release

\* The parent opens or creates the semaphore: the object is there.
LEMMA ParentOpensSemaphore ==
    ASSUME Gated, GateInv, TypeOK', Constructor(Parent), name[Parent] = "sem"
    PROVE  GateInv'
<1> DEFINE Kept == /\ Others(Parent) /\ pc'[Parent] \in {"create", "again", "failed", "release"}
                   /\ handle'[Parent]["shm"] = handle[Parent]["shm"]
<1>1. TypeOK /\ Filled /\ pc[Parent] \notin {"size", "clear", "construct"} /\ Parent \in Procs
  BY ParentAssumption DEF GateInv, ParentInv
<1>2. Open(Parent) \/ Create(Parent) \/ Again(Parent)
  BY <1>1 DEF Constructor, Size, Clear, Construct
<1>3. UNCHANGED <<name, segment, permits>> /\ named'["shm"] = named["shm"]
  <2>1. UNCHANGED <<name, segment, permits>>
    BY <1>2 DEF Open, Create, Again
  <2>2. \/ UNCHANGED named
        \/ named' = [named EXCEPT !["sem"] = Parent]
    BY <1>2 DEF Open, Create, Again
  <2> QED BY <1>1, <2>1, <2>2, Maps
<1>4. ASSUME NEW l \in {"create", "again", "failed"}, pc' = [pc EXCEPT ![Parent] = l],
             UNCHANGED handle
      PROVE  Kept
  <2>1. UNCHANGED <<name, handle>>
    BY <1>3, <1>4
  <2> QED BY <1>1, <1>4, <2>1, MovesOn
<1>5. ASSUME NEW o \in Procs, Opened(Parent, o) PROVE Kept
  <2>1. UNCHANGED name
    BY <1>3
  <2> QED BY <1>1, <1>5, <2>1, OpenedGoesOn
<1>6. Kept
  <2>1. CASE named["sem"] = None
    <3>1. CASE Create(Parent)
      <4>1. Opened(Parent, Parent)
        BY <2>1, <3>1 DEF Create
      <4> QED BY <1>1, <1>5, <4>1
    <3>2. CASE ~Create(Parent)
      <4>1. PICK l \in {"create", "failed"} : pc' = [pc EXCEPT ![Parent] = l] /\ UNCHANGED handle
        BY <1>2, <2>1, <3>2 DEF Open, Again, Goto
      <4> QED BY <1>4, <4>1
    <3> QED BY <3>1, <3>2
  <2>2. CASE named["sem"] # None
    <3>1. named["sem"] \in Procs
      BY <1>1, <2>2, Maps DEF Objects
    <3>2. CASE Create(Parent)
      <4>1. pc' = [pc EXCEPT ![Parent] = "again"] /\ UNCHANGED handle
        BY <2>2, <3>2 DEF Create, Goto
      <4> QED BY <1>4, <4>1
    <3>3. CASE ~Create(Parent)
      <4>1. Opened(Parent, named["sem"])
        BY <1>2, <2>2, <3>3 DEF Open, Again
      <4> QED BY <1>5, <3>1, <4>1
    <3> QED BY <3>2, <3>3
  <2> QED BY <2>1, <2>2
<1>7. Filled'
  BY <1>1, <1>3, <1>6 DEF Filled
<1>8. ParentInv'
  BY <1>3, <1>6, <1>7 DEF ParentInv
<1>9. ParentStep
  BY <1>1, <1>3, <1>6, <1>7, <1>8 DEF ParentStep, GateInv, NameInv
<1> QED BY <1>9, ParentKeeps

\* The parent comes to the segment first: it creates it, sizes it, clears it and
\* constructs the object.
LEMMA ParentMakesSegment ==
    ASSUME Gated, GateInv, TypeOK', Constructor(Parent), name[Parent] = "shm"
    PROVE  GateInv'
<1>1. TypeOK /\ Parent \in Procs /\ None # Parent /\ pc[Parent] # "again"
  BY ParentAssumption DEF GateInv, ParentInv
<1>2. /\ pc[Parent] \in {"open", "create"} => named["shm"] = None
      /\ pc[Parent] \in {"size", "clear", "construct"} => named["shm"] = Parent
      /\ pc[Parent] = "construct" => handle[Parent]["shm"] = Parent
      /\ pc[Parent] \in {"open", "create", "size", "clear", "construct"} =>
            segment[Parent] # "ready"
  BY DEF GateInv, ParentInv
<1>3. ~Filled /\ UNCHANGED permits
  BY <1>1, <1>2 DEF Filled, Constructor, Open, Create, Again, Size, Clear, Construct
<1>4. CASE Open(Parent)
  <2>1. pc' = [pc EXCEPT ![Parent] = "create"] /\ UNCHANGED <<name, handle, named, segment>>
    BY <1>2, <1>4 DEF Open, Goto
  <2>2. Others(Parent) /\ pc'[Parent] = "create" /\ handle'[Parent] = handle[Parent]
    BY <1>1, <2>1, MovesOn
  <2>3. ~Filled' /\ ParentInv'
    BY <1>2, <1>3, <1>4, <2>1, <2>2 DEF Filled, ParentInv, Open
  <2>4. ParentStep
    BY <1>2, <1>3, <1>4, <2>1, <2>2, <2>3 DEF ParentStep, Open
  <2> QED BY <2>4, ParentKeeps
<1>5. CASE Create(Parent)
  <2>1. /\ pc' = [pc EXCEPT ![Parent] = "size"] /\ UNCHANGED <<name, handle, segment>>
        /\ named' = [named EXCEPT !["shm"] = Parent]
    BY <1>2, <1>5 DEF Create, Goto
  <2>2. Others(Parent) /\ pc'[Parent] = "size" /\ handle'[Parent] = handle[Parent]
    BY <1>1, <2>1, MovesOn
  <2>3. named'["shm"] = Parent
    BY <1>1, <2>1, Maps
  <2>4. ~Filled' /\ ParentInv'
    BY <1>2, <1>3, <1>5, <2>1, <2>2, <2>3 DEF Filled, ParentInv, Create
  <2>5. ParentStep
    BY <1>3, <2>2, <2>3, <2>4 DEF ParentStep
  <2> QED BY <2>5, ParentKeeps
<1>6. CASE Size(Parent)
  <2>1. /\ pc' = [pc EXCEPT ![Parent] = "clear"] /\ UNCHANGED <<name, handle, named>>
        /\ segment' = [segment EXCEPT ![Parent] = "raw"] /\ named["shm"] = Parent
    BY <1>2, <1>6 DEF Size, Goto
  <2>2. Others(Parent) /\ pc'[Parent] = "clear"
    BY <1>1, <2>1, MovesOn
  <2>3. segment'[Parent] = "raw"
    BY <1>1, <2>1, Maps
  <2>4. ~Filled' /\ ParentInv'
    BY <2>1, <2>2, <2>3 DEF Filled, ParentInv
  <2>5. ParentStep
    BY <1>3, <2>1, <2>2, <2>4 DEF ParentStep
  <2> QED BY <2>5, ParentKeeps
<1>7. CASE Clear(Parent)
  <2>1. /\ Opened(Parent, Parent) /\ UNCHANGED <<name, named>> /\ named["shm"] = Parent
        /\ segment' = [segment EXCEPT ![Parent] = "zero"]
    BY <1>2, <1>7 DEF Clear
  <2>2. Others(Parent) /\ pc'[Parent] = "construct" /\ handle'[Parent]["shm"] = Parent
    <3>1. UNCHANGED name
      BY <2>1
    <3> QED BY <1>1, <2>1, <3>1, OpenedGoesOn
  <2>3. segment'[Parent] = "zero"
    BY <1>1, <2>1, Maps
  <2>4. ~Filled' /\ ParentInv'
    BY <2>1, <2>2, <2>3 DEF Filled, ParentInv
  <2>5. ParentStep
    BY <1>3, <2>1, <2>2, <2>4 DEF ParentStep
  <2> QED BY <2>5, ParentKeeps
<1>8. CASE Construct(Parent)
  <2>1. /\ pc' = [pc EXCEPT ![Parent] = "open"] /\ name' = [name EXCEPT ![Parent] = "sem"]
        /\ UNCHANGED <<handle, named>> /\ named["shm"] = Parent
        /\ segment' = [segment EXCEPT ![Parent] = "ready"] /\ handle[Parent]["shm"] = Parent
    BY <1>2, <1>8 DEF Construct, Goto
  <2>2. Others(Parent) /\ pc'[Parent] = "open" /\ name'[Parent] = "sem"
    BY <1>1, <2>1, Maps DEF Others
  <2>3. segment'[Parent] = "ready"
    BY <1>1, <2>1, Maps
  <2>4. Filled' /\ ParentInv'
    BY <2>1, <2>2, <2>3 DEF Filled, ParentInv
  <2>5. ParentStep
    BY <1>3, <2>1, <2>2, <2>4 DEF ParentStep
  <2> QED BY <2>5, ParentKeeps
<1> QED BY <1>1, <1>4, <1>5, <1>6, <1>7, <1>8 DEF Constructor, Again

\* The parent releases, ends or dies: the object stays where it is, and the name of
\* the segment goes when no child is left.
LEMMA ParentGoesOn ==
    ASSUME Gated, GateInv, TypeOK',
           \/ Release(Parent) \/ Acquire(Parent) \/ Interrupted(Parent)
           \/ Leave(Parent) \/ Crash(Parent)
    PROVE  GateInv'
<1>1. TypeOK /\ Parent \in Procs /\ pc[Parent] # "acquire"
  BY ParentAssumption DEF GateInv, ParentInv
<1>2. UNCHANGED <<handle, segment>> /\ (Filled' <=> Filled)
  <2>1. UNCHANGED <<handle, segment>>
    BY DEF Release, Acquire, Interrupted, Leave, Crash
  <2> QED BY <2>1 DEF Filled
<1>3. CASE Release(Parent)
  <2>1. Filled /\ UNCHANGED named /\ Counted(Parent) /\ pc[Parent] = "release"
    BY <1>3 DEF Release, GateInv, ParentInv
  <2>2. Others(Parent)
    BY <1>1, <1>2, <2>1, Maps DEF Counted, Goto, Others
  <2>3. pc'[Parent] \in {"release", "use"}
    <3>1. PICK l \in {"release", "use"} : pc' = [pc EXCEPT ![Parent] = l]
      BY <2>1 DEF Counted, Goto
    <3> QED BY <1>1, <3>1, Maps
  <2>4. ParentInv'
    BY <1>2, <2>1, <2>3 DEF ParentInv
  <2>5. ParentStep
    BY <1>2, <2>1, <2>2, <2>4 DEF ParentStep, GateInv, NameInv
  <2> QED BY <2>5, ParentKeeps
<1>4. CASE Crash(Parent)
  <2>1. pc' = [pc EXCEPT ![Parent] = "dead"] /\ UNCHANGED <<name, handle, named, permits>>
    BY <1>4 DEF Crash, Goto
  <2>2. Others(Parent) /\ pc'[Parent] = "dead" /\ name'[Parent] = name[Parent]
    BY <1>1, <2>1, MovesOn
  <2>3. ParentInv'
    BY <1>2, <2>2 DEF GateInv, ParentInv
  <2>4. ParentStep
    BY <1>2, <2>1, <2>2, <2>3 DEF ParentStep, GateInv, NameInv
  <2> QED BY <2>4, ParentKeeps
<1>5. CASE Leave(Parent)
  <2>1. /\ pc' = [pc EXCEPT ![Parent] = "done"] /\ UNCHANGED <<name, handle, permits>>
        /\ MayLeave(Parent) /\ named'["shm"] \in {None, named["shm"]}
    BY <1>5 DEF Leave, Goto, Names
  <2>2. Others(Parent) /\ pc'[Parent] = "done" /\ name'[Parent] = name[Parent]
    BY <1>1, <2>1, MovesOn
  <2>3. \A q \in Procs \ {Parent} : pc[q] \in Over
    BY <2>1 DEF MayLeave
  <2>4. ParentInv'
    BY <1>2, <2>2 DEF GateInv, ParentInv
  <2>5. ParentStep
    BY <1>2, <2>1, <2>2, <2>3, <2>4 DEF ParentStep, GateInv, NameInv
  <2> QED BY <2>5, ParentKeeps
<1> QED BY <1>1, <1>3, <1>4, <1>5 DEF Acquire, Interrupted

\* Every step keeps the gate.
LEMMA GateNext ==
    ASSUME Gated, GateInv, [Next]_vars
    PROVE  GateInv'
<1>1. TypeOK /\ TypeOK'
  BY NextTypes DEF GateInv
<1>2. CASE UNCHANGED vars
  BY <1>1, <1>2 DEF vars, GateInv, ParentInv, ChildInv, NameInv, PermitInv, Filled
<1>3. ASSUME NEW p \in Procs, Process(p) \/ Interrupted(p) \/ Crash(p) PROVE GateInv'
  <2>1. CASE p # Parent
    BY <1>1, <1>3, <2>1, ChildOpens, ChildGoesOn DEF Process
  <2>2. CASE p = Parent
    <3>1. CASE Constructor(Parent)
      BY <1>1, <3>1, Maps, ParentOpensSemaphore, ParentMakesSegment DEF Names
    <3>2. CASE ~Constructor(Parent)
      BY <1>1, <1>3, <2>2, <3>2, ParentGoesOn DEF Process
    <3> QED BY <3>1, <3>2
  <2> QED BY <2>1, <2>2
<1> QED BY <1>2, <1>3 DEF Next

\* Who uses the segment has come to it with a permit, or filled it.
LEMMA ReadyForUse == GateInv => UsedWhenReady
<1> SUFFICES ASSUME GateInv, NEW p \in Procs, pc[p] = "use"
             PROVE  segment[handle[p]["shm"]] = "ready"
  BY DEF UsedWhenReady
<1>1. CASE p = Parent
  BY <1>1 DEF GateInv, ParentInv, Filled
<1>2. CASE p # Parent
  BY <1>2 DEF GateInv, ChildInv, Filled
<1> QED BY <1>1, <1>2

\* Behind the gate nobody uses the object in the segment before it has been
\* constructed, for any number of children and permits, whoever creates the
\* semaphore, whoever dies and whenever (ipc.cc, test_ipc.cc:44-123).
THEOREM UsedOnlyWhenReady ==
    ASSUME Gated
    PROVE  Spec => []UsedWhenReady
<1>1. Init => GateInv
  BY GateInit
<1>2. GateInv /\ [Next]_vars => GateInv'
  BY GateNext
<1> QED BY <1>1, <1>2, ReadyForUse, PTL DEF Spec

-----------------------------------------------------------------------------
(* The guards. *)

\* A user with a guard has exactly one that points to the lock.
RwTypeOK ==
    /\ readers \in Nat /\ writer \in BOOLEAN /\ stray \in BOOLEAN
    /\ upc \in [Users -> {"none", "in", "out", "dead"}]
    /\ guard \in [Users -> SUBSET {1, 2}] /\ kind \in [Users -> {"rd", "wr"}]
    /\ \A u \in Users : IF upc[u] \in {"in", "out"} THEN guard[u] \in {{1}, {2}} ELSE guard[u] = {}

\* The lock counts the guards that are inside.
LockInv ==
    ~stray => /\ readers = Cardinality(Holders("rd"))
              /\ writer <=> Holders("wr") # {}
              /\ writer => readers = 0
              /\ \A u, v \in Holders("wr") : u = v

RwInv == RwTypeOK /\ LockInv

\* Those inside are finitely many.
LEMMA HoldersFinite ==
    /\ IsFiniteSet(Holders("rd")) /\ Cardinality(Holders("rd")) \in Nat
    /\ Cardinality(Holders("rd")) = 0 <=> Holders("rd") = {}
<1>1. IsFiniteSet(Holders("rd"))
  BY UsersAssumption, FS_Subset DEF Holders
<1> QED BY <1>1, FS_CardinalityType, FS_EmptySet

\* A user comes to hold the lock, ...
LEMMA Enters ==
    ASSUME RwTypeOK, LockInv, ~stray, ~stray', NEW u \in Users, NEW k \in {"rd", "wr"}, Grant(k),
           u \notin Holders("rd") \cup Holders("wr"),
           Holders(k)' = Holders(k) \cup {u},
           \A j \in {"rd", "wr"} \ {k} : Holders(j)' = Holders(j)
    PROVE  LockInv'
<1>1. /\ readers = Cardinality(Holders("rd")) /\ (writer <=> Holders("wr") # {})
      /\ (writer => readers = 0) /\ \A v, w \in Holders("wr") : v = w
      /\ readers \in Nat /\ writer \in BOOLEAN
  BY DEF LockInv, RwTypeOK
<1>2. CASE k = "rd"
  <2>1. /\ Holders("rd")' = Holders("rd") \cup {u} /\ u \notin Holders("rd")
        /\ Holders("wr")' = Holders("wr")
        /\ ~writer /\ readers' = readers + 1 /\ writer' = writer
    BY <1>2 DEF Grant
  <2>2. Cardinality(Holders("rd")') = Cardinality(Holders("rd")) + 1
    BY <2>1, HoldersFinite, FS_AddElement
  <2>3. readers' = Cardinality(Holders("rd")') /\ readers' \in Nat
    BY <1>1, <2>1, <2>2
  <2> QED BY <1>1, <2>1, <2>3 DEF LockInv
<1>3. CASE k = "wr"
  <2>1. /\ Holders("wr")' = Holders("wr") \cup {u} /\ Holders("rd")' = Holders("rd")
        /\ ~writer /\ readers = 0 /\ writer' = TRUE /\ readers' = readers
    BY <1>3 DEF Grant
  <2>2. Holders("wr")' = {u}
    BY <1>1, <2>1
  <2>3. Cardinality(Holders("rd")') = readers'
    BY <1>1, <2>1
  <2> QED BY <1>1, <2>1, <2>2, <2>3 DEF LockInv
<1> QED BY <1>2, <1>3

\* ... and gives it back.
LEMMA Leaves ==
    ASSUME RwTypeOK, LockInv, ~stray, ~stray', NEW u \in Users, NEW k \in {"rd", "wr"}, Unlocked,
           u \in Holders(k), Holders(k)' = Holders(k) \ {u},
           \A j \in {"rd", "wr"} \ {k} : Holders(j)' = Holders(j)
    PROVE  LockInv'
<1>1. /\ readers = Cardinality(Holders("rd")) /\ (writer <=> Holders("wr") # {})
      /\ (writer => readers = 0) /\ \A v, w \in Holders("wr") : v = w
      /\ readers \in Nat /\ writer \in BOOLEAN
  BY DEF LockInv, RwTypeOK
<1>2. CASE k = "rd"
  <2>1. /\ Holders("rd")' = Holders("rd") \ {u} /\ u \in Holders("rd")
        /\ Holders("wr")' = Holders("wr")
    BY <1>2
  <2>2. Cardinality(Holders("rd")') = Cardinality(Holders("rd")) - 1
    BY <2>1, HoldersFinite, FS_RemoveElement
  <2>3. readers # 0
    BY <1>1, <2>1, HoldersFinite
  <2>4. ~writer /\ Holders("wr") = {}
    BY <1>1, <2>3
  <2>5. readers' = readers - 1 /\ writer' = FALSE
    BY <2>3, <2>4 DEF Unlocked
  <2>6. readers' = Cardinality(Holders("rd")') /\ readers' \in Nat
    BY <1>1, <2>2, <2>3, <2>5
  <2>7. Holders("wr")' = {}
    BY <2>1, <2>4
  <2> QED BY <2>5, <2>6, <2>7 DEF LockInv
<1>3. CASE k = "wr"
  <2>1. /\ Holders("wr")' = Holders("wr") \ {u} /\ u \in Holders("wr")
        /\ Holders("rd")' = Holders("rd")
    BY <1>3
  <2>2. writer /\ Holders("wr")' = {}
    BY <1>1, <2>1
  <2>3. readers' = readers /\ writer' = FALSE
    BY <2>2 DEF Unlocked
  <2>4. Cardinality(Holders("rd")') = readers'
    BY <1>1, <2>1, <2>3
  <2> QED BY <1>1, <2>2, <2>3, <2>4 DEF LockInv
<1> QED BY <1>2, <1>3

\* The lock keeps its types, stray or not.
LEMMA LockTypes ==
    ASSUME RwTypeOK, Unlocked \/ \E k \in {"rd", "wr"} : Grant(k)
    PROVE  readers' \in Nat /\ writer' \in BOOLEAN
<1>1. readers \in Nat /\ writer \in BOOLEAN
  BY DEF RwTypeOK
<1>2. CASE Unlocked
  <2>1. writer' \in BOOLEAN
    BY <1>2 DEF Unlocked
  <2>2. readers' \in Nat
    <3>1. CASE writer \/ readers = 0
      BY <1>1, <1>2, <3>1 DEF Unlocked
    <3>2. CASE ~(writer \/ readers = 0)
      <4>1. readers' = readers - 1 /\ readers # 0
        BY <1>2, <3>2 DEF Unlocked
      <4> QED BY <1>1, <4>1
    <3> QED BY <3>1, <3>2
  <2> QED BY <2>1, <2>2
<1>3. ASSUME NEW k \in {"rd", "wr"}, Grant(k) PROVE readers' \in Nat /\ writer' \in BOOLEAN
  <2>1. readers' \in Nat
    BY <1>1, <1>3 DEF Grant
  <2>2. writer' \in BOOLEAN
    <3>1. CASE writer' = TRUE
      BY <3>1
    <3>2. CASE writer' = writer
      BY <1>1, <3>2
    <3> QED BY <1>3, <3>1, <3>2 DEF Grant
  <2> QED BY <2>1, <2>2
<1> QED BY <1>2, <1>3

\* What becomes of the holders when u goes on to l with guards of kind k.
LEMMA HoldersMove ==
    ASSUME RwTypeOK, NEW u \in Users, NEW l, NEW k \in {"rd", "wr"},
           upc' = [upc EXCEPT ![u] = l], kind' = [kind EXCEPT ![u] = k]
    PROVE  \A j \in {"rd", "wr"} :
             Holders(j)' = IF l \in {"in", "dead"} /\ k = j THEN Holders(j) \cup {u}
                           ELSE Holders(j) \ {u}
<1>1. upc \in [Users -> {"none", "in", "out", "dead"}] /\ kind \in [Users -> {"rd", "wr"}]
  BY DEF RwTypeOK
<1> QED BY <1>1 DEF Holders

\* Every step keeps the guards with the lock.
LEMMA RwInductive == RwInv /\ [RwNext]_rwVars => RwInv'
<1> SUFFICES ASSUME RwInv, [RwNext]_rwVars PROVE RwInv'
  OBVIOUS
<1>1. RwTypeOK /\ LockInv
  BY DEF RwInv
<1>2. /\ upc \in [Users -> {"none", "in", "out", "dead"}] /\ kind \in [Users -> {"rd", "wr"}]
      /\ guard \in [Users -> SUBSET {1, 2}] /\ stray \in BOOLEAN
      /\ readers \in Nat /\ writer \in BOOLEAN
      /\ \A u \in Users : IF upc[u] \in {"in", "out"} THEN guard[u] \in {{1}, {2}} ELSE guard[u] = {}
  BY <1>1 DEF RwTypeOK
\* A user changes its place and perhaps its guards.
<1>3. ASSUME NEW u \in Users, NEW l \in {"none", "in", "out", "dead"}, NEW k \in {"rd", "wr"},
             NEW g \in SUBSET {1, 2},
             upc' = [upc EXCEPT ![u] = l], kind' = [kind EXCEPT ![u] = k],
             guard' = [guard EXCEPT ![u] = g],
             IF l \in {"in", "out"} THEN g \in {{1}, {2}} ELSE g = {},
             readers' \in Nat, writer' \in BOOLEAN, stray' \in BOOLEAN
      PROVE  RwTypeOK'
  <2>1. /\ upc' \in [Users -> {"none", "in", "out", "dead"}]
        /\ kind' \in [Users -> {"rd", "wr"}] /\ guard' \in [Users -> SUBSET {1, 2}]
    BY <1>2, <1>3
  <2>2. ASSUME NEW v \in Users
        PROVE  IF upc'[v] \in {"in", "out"} THEN guard'[v] \in {{1}, {2}} ELSE guard'[v] = {}
    <3>1. CASE v = u
      BY <1>2, <1>3, <3>1
    <3>2. CASE v # u
      <4>1. upc'[v] = upc[v] /\ guard'[v] = guard[v]
        BY <1>2, <1>3, <3>2
      <4> QED BY <1>2, <4>1
    <3> QED BY <3>1, <3>2
  <2> QED BY <1>3, <2>1, <2>2 DEF RwTypeOK
<1>4. ASSUME NEW u \in Users, NEW k \in {"rd", "wr"}, Lock(u, k) PROVE RwInv'
  <2>1. /\ upc' = [upc EXCEPT ![u] = "in"] /\ kind' = [kind EXCEPT ![u] = k]
        /\ guard' = [guard EXCEPT ![u] = {1}] /\ Grant(k) /\ stray' = stray /\ upc[u] = "none"
    BY <1>4 DEF Lock
  <2>2. RwTypeOK'
    BY <1>1, <1>2, <1>3, <2>1, LockTypes
  <2>3. u \notin Holders("rd") \cup Holders("wr")
    BY <2>1 DEF Holders
  <2>4. \A j \in {"rd", "wr"} :
          Holders(j)' = IF k = j THEN Holders(j) \cup {u} ELSE Holders(j) \ {u}
    BY <1>1, <2>1, HoldersMove
  <2>5. /\ Holders(k)' = Holders(k) \cup {u}
        /\ \A j \in {"rd", "wr"} \ {k} : Holders(j)' = Holders(j)
    BY <2>3, <2>4
  <2>6. LockInv'
    <3>1. CASE stray
      BY <2>1, <3>1 DEF LockInv
    <3>2. CASE ~stray
      BY <1>1, <2>1, <2>3, <2>5, <3>2, Enters
    <3> QED BY <3>1, <3>2
  <2> QED BY <2>2, <2>6 DEF RwInv
<1>5. ASSUME NEW u \in Users, Relock(u) PROVE RwInv'
  <2>1. PICK k \in {"rd", "wr"} : k = kind[u]
    BY <1>2
  <2>2. /\ upc' = [upc EXCEPT ![u] = "in"] /\ Grant(k) /\ upc[u] = "out"
        /\ stray' = stray /\ kind' = kind /\ guard' = guard
    BY <1>5, <2>1 DEF Relock
  <2>3. kind' = [kind EXCEPT ![u] = k] /\ guard' = [guard EXCEPT ![u] = guard[u]]
    BY <1>2, <2>1, <2>2
  <2>4. guard[u] \in {{1}, {2}}
    BY <1>2, <2>2
  <2>5. RwTypeOK'
    <3>1. readers' \in Nat /\ writer' \in BOOLEAN
      BY <1>1, <2>2, LockTypes
    <3>2. PICK g \in SUBSET {1, 2} : g \in {{1}, {2}} /\ guard' = [guard EXCEPT ![u] = g]
      BY <2>3, <2>4
    <3>3. stray' \in BOOLEAN
      BY <1>2, <2>2
    <3> QED BY <1>3, <2>2, <2>3, <3>1, <3>2, <3>3
  <2>6. u \notin Holders("rd") \cup Holders("wr")
    BY <2>2 DEF Holders
  <2>7. \A j \in {"rd", "wr"} :
          Holders(j)' = IF k = j THEN Holders(j) \cup {u} ELSE Holders(j) \ {u}
    BY <1>1, <2>2, <2>3, HoldersMove
  <2>8. /\ Holders(k)' = Holders(k) \cup {u}
        /\ \A j \in {"rd", "wr"} \ {k} : Holders(j)' = Holders(j)
    BY <2>6, <2>7
  <2>9. LockInv'
    <3>1. CASE stray
      BY <2>2, <3>1 DEF LockInv
    <3>2. CASE ~stray
      BY <1>1, <2>2, <2>6, <2>8, <3>2, Enters
    <3> QED BY <3>1, <3>2
  <2> QED BY <2>5, <2>9 DEF RwInv
\* A holder gives the lock back, with its guard or without it.
<1>6. ASSUME NEW u \in Users, NEW l \in {"none", "out"}, upc[u] = "in", Unlocked,
             stray' = stray, kind' = kind, upc' = [upc EXCEPT ![u] = l]
      PROVE  LockInv'
  <2>1. PICK k \in {"rd", "wr"} : k = kind[u]
    BY <1>2
  <2>2. kind' = [kind EXCEPT ![u] = k]
    BY <1>2, <1>6, <2>1
  <2>3. u \in Holders(k) /\ \A j : j # k => u \notin Holders(j)
    BY <1>6, <2>1 DEF Holders
  <2>4. \A j \in {"rd", "wr"} : Holders(j)' = Holders(j) \ {u}
    BY <1>1, <1>6, <2>2, HoldersMove
  <2>5. \A j \in {"rd", "wr"} \ {k} : Holders(j)' = Holders(j)
    BY <2>3, <2>4
  <2>6. CASE stray
    BY <1>6, <2>6 DEF LockInv
  <2>7. CASE ~stray
    BY <1>1, <1>6, <2>3, <2>4, <2>5, <2>7, Leaves
  <2> QED BY <2>6, <2>7
<1>7. ASSUME NEW u \in Users, Unlock(u) PROVE RwInv'
  <2>1. /\ upc' = [upc EXCEPT ![u] = "out"] /\ Unlocked /\ upc[u] = "in"
        /\ stray' = stray /\ kind' = kind /\ guard' = guard
    BY <1>7 DEF Unlock
  <2>2. /\ kind' = [kind EXCEPT ![u] = kind[u]] /\ guard' = [guard EXCEPT ![u] = guard[u]]
        /\ kind[u] \in {"rd", "wr"} /\ guard[u] \in {{1}, {2}}
    BY <1>2, <2>1
  <2>3. RwTypeOK'
    <3>1. readers' \in Nat /\ writer' \in BOOLEAN
      BY <1>1, <2>1, LockTypes
    <3>2. PICK g \in SUBSET {1, 2} : g \in {{1}, {2}} /\ guard' = [guard EXCEPT ![u] = g]
      BY <2>2
    <3>3. stray' \in BOOLEAN
      BY <1>2, <2>1
    <3> QED BY <1>3, <2>1, <2>2, <3>1, <3>2, <3>3
  <2> QED BY <1>6, <2>1, <2>3 DEF RwInv
<1>8. ASSUME NEW u \in Users, Destroy(u) PROVE RwInv'
  <2>1. upc[u] \in {"in", "out"} /\ kind' = kind
    BY <1>8 DEF Destroy
  <2>2. PICK g \in {1, 2} : guard[u] = {g}
    BY <1>2, <2>1
  <2>3. guard' = [guard EXCEPT ![u] = {}] /\ upc' = [upc EXCEPT ![u] = "none"]
    BY <1>2, <1>8, <2>2 DEF Destroy, Gone
  <2>4. kind' = [kind EXCEPT ![u] = kind[u]] /\ kind[u] \in {"rd", "wr"}
    BY <1>2, <2>1
  <2>5. CASE upc[u] = "in"
    <3>1. Unlocked /\ stray' = stray
      BY <1>8, <2>5 DEF Destroy
    <3>2. RwTypeOK'
      BY <1>1, <1>2, <1>3, <2>3, <2>4, <3>1, LockTypes
    <3> QED BY <1>6, <2>1, <2>3, <2>5, <3>1, <3>2 DEF RwInv
  <2>6. CASE upc[u] = "out"
    <3>1. readers' \in 0..Cardinality(Users) /\ writer' \in BOOLEAN /\ stray' = TRUE
      BY <1>8, <2>6 DEF Destroy
    <3>2. readers' \in Nat
      BY <3>1, UsersAssumption, FS_CardinalityType
    <3>3. RwTypeOK'
      BY <1>3, <2>3, <2>4, <3>1, <3>2
    <3> QED BY <3>1, <3>3 DEF RwInv, LockInv
  <2> QED BY <2>1, <2>5, <2>6
<1>9. ASSUME Holders("rd")' = Holders("rd"), Holders("wr")' = Holders("wr"),
             UNCHANGED <<readers, writer, stray>>
      PROVE  LockInv'
  <2>1. Cardinality(Holders("rd")') = Cardinality(Holders("rd"))
    BY <1>9
  <2> QED BY <1>1, <1>9, <2>1 DEF LockInv
<1>10. ASSUME NEW u \in Users, Move(u) PROVE RwInv'
  <2>1. /\ upc[u] \in {"in", "out"} /\ UNCHANGED <<readers, writer, upc, kind, stray>>
        /\ guard' = [guard EXCEPT ![u] = {1, 2} \ guard[u]]
    BY <1>10 DEF Move, Moved
  <2>2. {1, 2} \ guard[u] \in {{1}, {2}}
    BY <1>2, <2>1
  <2>3. upc' = [upc EXCEPT ![u] = upc[u]] /\ kind' = [kind EXCEPT ![u] = kind[u]]
    BY <1>2, <2>1
  <2>4. RwTypeOK'
    <3>1. readers' \in Nat /\ writer' \in BOOLEAN /\ stray' \in BOOLEAN
      BY <1>2, <2>1
    <3>2. {1, 2} \ guard[u] \in SUBSET {1, 2} /\ kind[u] \in {"rd", "wr"}
      BY <1>2, <2>2
    <3> QED BY <1>3, <2>1, <2>2, <2>3, <3>1, <3>2
  <2>5. Holders("rd")' = Holders("rd") /\ Holders("wr")' = Holders("wr")
    BY <2>1 DEF Holders
  <2> QED BY <1>9, <2>1, <2>4, <2>5 DEF RwInv
<1>11. ASSUME NEW D \in SUBSET Users, Die(D) PROVE RwInv'
  <2>1. /\ UNCHANGED <<readers, writer, kind, stray>> /\ \A u \in D : upc[u] = "in"
        /\ upc' = [u \in Users |-> IF u \in D THEN "dead" ELSE upc[u]]
        /\ guard' = [u \in Users |-> IF u \in D THEN {} ELSE guard[u]]
    BY <1>11 DEF Die
  <2>2. RwTypeOK'
    BY <1>1, <2>1 DEF RwTypeOK
  <2>3. Holders("rd")' = Holders("rd") /\ Holders("wr")' = Holders("wr")
    BY <1>2, <2>1 DEF Holders
  <2> QED BY <1>9, <2>1, <2>2, <2>3 DEF RwInv
<1>12. CASE UNCHANGED rwVars
  <2>1. RwTypeOK' /\ UNCHANGED <<readers, writer, stray>>
    BY <1>1, <1>12 DEF rwVars, RwTypeOK
  <2>2. Holders("rd")' = Holders("rd") /\ Holders("wr")' = Holders("wr")
    BY <1>12 DEF rwVars, Holders
  <2> QED BY <1>9, <2>1, <2>2 DEF RwInv
<1> QED BY <1>4, <1>5, <1>7, <1>8, <1>10, <1>11, <1>12 DEF RwNext, Operation

\* At first nobody has a guard.
LEMMA RwStarts == RwInit => RwInv
<1> SUFFICES ASSUME RwInit PROVE RwInv
  OBVIOUS
<1>1. Holders("rd") = {} /\ Holders("wr") = {}
  BY DEF RwInit, Holders
<1>2. Cardinality(Holders("rd")) = 0
  BY <1>1, FS_EmptySet
<1>3. RwTypeOK
  BY DEF RwInit, RwTypeOK
<1> QED BY <1>1, <1>2, <1>3 DEF RwInit, RwInv, LockInv

\* The inductive invariant holds throughout.
THEOREM RwInvHolds == RwSpec => []RwInv
  BY RwStarts, RwInductive, PTL DEF RwSpec

\* A writer excludes all, since the lock counts those inside.
LEMMA RwExcludes == RwInv => Exclusion
<1> SUFFICES ASSUME RwInv, ~stray, NEW u \in Holders("wr")
             PROVE  Holders("wr") \cup Holders("rd") = {u}
  BY DEF Exclusion
<1>1. Holders("wr") = {u} /\ readers = 0 /\ readers = Cardinality(Holders("rd"))
  BY DEF RwInv, LockInv
<1>2. Holders("rd") = {}
  BY <1>1, HoldersFinite
<1> QED BY <1>1, <1>2

\* A wrlockguard is inside alone, for any number of users, however the guards are
\* moved, unlocked, locked again and destroyed, until one is destroyed after its
\* unlock() (lock.cc:362-450).
THEOREM GuardsExclude == RwSpec => []Exclusion
  BY RwExcludes, RwInvHolds, PTL

\* The lock counts nobody when nobody is inside.
LEMMA RwFree == RwInv => FreeAfterwards
<1> SUFFICES ASSUME RwInv, ~stray, Holders("rd") \cup Holders("wr") = {}
             PROVE  readers = 0 /\ ~writer
  BY DEF FreeAfterwards
<1>1. Holders("rd") = {} /\ Holders("wr") = {}
  OBVIOUS
<1> QED BY <1>1, HoldersFinite DEF RwInv, LockInv

\* And the lock is free when nobody is inside: the pointer in the guard brings about
\* one unlock for each lock.
THEOREM LockIsFreeAfterwards == RwSpec => []FreeAfterwards
  BY RwFree, RwInvHolds, PTL

-----------------------------------------------------------------------------
(* The fence. *)

\* ok_ is set, and a notifier is past its first test, only after a notify()
\* has begun.
Begun == (ok \/ \E n \in Notifiers : npc[n] # "out") => noticed

EarlyInv == FenceTypeOK /\ Begun /\ NoneBefore

\* At first nobody has called notify().
LEMMA EarlyInit == FenceInit => EarlyInv
<1> SUFFICES ASSUME FenceInit PROVE EarlyInv
    OBVIOUS
<1>1. FenceTypeOK
    BY DEF FenceInit, FenceTypeOK
<1>2. Begun
    BY DEF FenceInit, Begun
<1>3. NoneBefore
    BY DEF FenceInit, NoneBefore
<1> QED BY <1>1, <1>2, <1>3 DEF EarlyInv

\* The flag, the notifiers and the waiters, step by step.
LEMMA EarlyInductive == EarlyInv /\ [FenceNext]_fenceVars => EarlyInv'
<1> SUFFICES ASSUME EarlyInv, [FenceNext]_fenceVars PROVE EarlyInv'
    OBVIOUS
<1> USE DEF EarlyInv, FenceTypeOK, Begun, NoneBefore
<1>1. ASSUME NEW w \in Waiters, Look(w) PROVE EarlyInv'
    BY <1>1 DEF Look, FenceLeave
<1>2. ASSUME NEW w \in Waiters, Decide(w) PROVE EarlyInv'
    BY <1>2 DEF Decide, FenceLeave
<1>3. ASSUME NEW w \in Waiters, FenceSpurious(w) PROVE EarlyInv'
    BY <1>3 DEF FenceSpurious
<1>4. ASSUME NEW n \in Notifiers, Check(n) PROVE EarlyInv'
    BY <1>4 DEF Check
<1>5. ASSUME NEW n \in Notifiers, Set(n) PROVE EarlyInv'
    BY <1>5 DEF Set, FenceAsleep
<1>6. CASE UNCHANGED fenceVars
    BY <1>6 DEF fenceVars
<1> QED BY <1>1, <1>2, <1>3, <1>4, <1>5, <1>6 DEF FenceNext

\* The inductive invariant holds throughout.
THEOREM EarlyInvHolds == FenceSpec => []EarlyInv
BY EarlyInit, EarlyInductive, PTL DEF FenceSpec

\* No pshared_one_time_fence::wait returns before a notify() has begun, for any
\* number of waiters.
THEOREM NoneBeforeHolds == FenceSpec => []NoneBefore
<1>1. EarlyInv => NoneBefore
    BY DEF EarlyInv
<1> QED BY <1>1, EarlyInvHolds, PTL

-----------------------------------------------------------------------------
\* How test_ipc.cc uses the fence.
OneWaiter == \A v, w \in Waiters : v = w

\* The one notify() that sets ok_ wakes the one thread that can be asleep.
LEMMA SleeperInductive ==
    OneWaiter /\ FenceTypeOK /\ NoLateSleeper /\ [FenceNext]_fenceVars => NoLateSleeper'
<1> SUFFICES ASSUME OneWaiter, FenceTypeOK, NoLateSleeper, [FenceNext]_fenceVars
             PROVE  NoLateSleeper'
    OBVIOUS
<1> USE DEF FenceTypeOK, NoLateSleeper, FenceAsleep
<1>1. ASSUME NEW w \in Waiters, Look(w) PROVE NoLateSleeper'
    BY <1>1 DEF Look, FenceLeave
<1>2. ASSUME NEW w \in Waiters, Decide(w) PROVE NoLateSleeper'
    BY <1>2 DEF Decide, FenceLeave
<1>3. ASSUME NEW w \in Waiters, FenceSpurious(w) PROVE NoLateSleeper'
    BY <1>3 DEF FenceSpurious
<1>4. ASSUME NEW n \in Notifiers, Check(n) PROVE NoLateSleeper'
    BY <1>4 DEF Check
<1>5. ASSUME NEW n \in Notifiers, Set(n) PROVE NoLateSleeper'
  <2>1. CASE FenceAsleep = {}
      BY <1>5, <2>1 DEF Set
  <2>2. CASE FenceAsleep # {}
    <3>1. PICK w \in FenceAsleep : wpc' = [wpc EXCEPT ![w] = "woken"]
        BY <1>5, <2>2 DEF Set
    <3> QED BY <3>1 DEF OneWaiter
  <2> QED BY <2>1, <2>2
<1>6. CASE UNCHANGED fenceVars
    BY <1>6 DEF fenceVars
<1> QED BY <1>1, <1>2, <1>3, <1>4, <1>5, <1>6 DEF FenceNext

\* With one waiter nobody sleeps once ok_ is set, although notify() wakes one
\* thread only and wait() first reads ok_ without the lock (lock.cc:221-241).
THEOREM NoLateSleeperHolds ==
    ASSUME OneWaiter
    PROVE  FenceSpec => []NoLateSleeper
<1>1. FenceInit => NoLateSleeper
    BY DEF FenceInit, NoLateSleeper
<1>2. EarlyInv => FenceTypeOK
    BY DEF EarlyInv
<1>3. FenceTypeOK /\ NoLateSleeper /\ [FenceNext]_fenceVars => NoLateSleeper'
    BY SleeperInductive
<1> QED BY <1>1, <1>2, <1>3, EarlyInvHolds, PTL DEF FenceSpec

-----------------------------------------------------------------------------
(* The barrier. *)

\* The counter is what the calls have left of it: what connects the predicate
\* of the sleepers, count_ == 0, with the number of calls.
CounterInv == bcount = Count - calls

BarrierInv == BarrierTypeOK /\ CounterInv /\ NoneEarly /\ CallsAddUp

\* The set of calls under way and its cardinality are the only things the
\* provers need help with: one call more, one call fewer, or the same.
LEMMA BusyFinite == IsFiniteSet(Busy)
BY ThreadsAssumption, FS_Subset DEF Busy

\* A call that goes to sleep.
LEMMA BusyMore ==
    ASSUME BarrierTypeOK, NEW t \in Threads, bpc[t] = "idle",
           NEW s \in {"asleep", "woken"}, bpc' = [bpc EXCEPT ![t] = s]
    PROVE  Cardinality(Busy') = Cardinality(Busy) + 1
<1>1. Busy' = Busy \cup {t} /\ t \notin Busy
    BY DEF Busy, BarrierTypeOK
<1> QED BY <1>1, BusyFinite, FS_AddElement

\* A call that returns.
LEMMA BusyLess ==
    ASSUME BarrierTypeOK, NEW t \in Threads, bpc[t] # "idle",
           bpc' = [bpc EXCEPT ![t] = "idle"]
    PROVE  Cardinality(Busy') = Cardinality(Busy) - 1
<1>1. Busy' = Busy \ {t} /\ t \in Busy
    BY DEF Busy, BarrierTypeOK
<1> QED BY <1>1, BusyFinite, FS_RemoveElement

\* At first there are no calls.
LEMMA BarrierStarts == BarrierInit => BarrierInv
<1> SUFFICES ASSUME BarrierInit PROVE BarrierInv
    OBVIOUS
<1>1. Busy = {}
    BY DEF BarrierInit, Busy
<1>2. Cardinality(Busy) = 0
    BY <1>1, FS_EmptySet
<1> QED BY <1>2, CountAssumption
        DEF BarrierInit, BarrierInv, BarrierTypeOK, CounterInv, NoneEarly, CallsAddUp

\* Arrivals, wake-ups and tests of count_ keep the account of the calls.
LEMMA BarrierInductive == BarrierInv /\ [BarrierNext]_barrierVars => BarrierInv'
<1> SUFFICES ASSUME BarrierInv, [BarrierNext]_barrierVars PROVE BarrierInv'
    OBVIOUS
<1> USE CountAssumption
<1>1. /\ calls \in Nat /\ passed \in Nat /\ thrown \in Nat
      /\ bcount = Count - calls
    BY DEF BarrierInv, BarrierTypeOK, CounterInv
<1>2. /\ calls = passed + thrown + Cardinality(Busy)
      /\ Cardinality(Busy) \in Nat
    BY BusyFinite, FS_CardinalityType DEF BarrierInv, CallsAddUp
<1>3. thrown = IF calls > Count THEN calls - Count ELSE 0
    BY DEF BarrierInv, CallsAddUp
<1>4. ASSUME NEW t \in Threads, Arrive(t) PROVE BarrierInv'
  <2>0. calls' = calls + 1 /\ bcount' = bcount - 1 /\ bpc[t] = "idle"
      BY <1>4 DEF Arrive
  <2>1. CASE bcount' = 0
    <3>1. /\ passed' = passed + 1 /\ thrown' = thrown
          /\ Cardinality(Busy') = Cardinality(Busy)
      <4>1. Busy' = Busy
          BY <1>4, <2>1 DEF Arrive, Busy, BarrierInv, BarrierTypeOK
      <4> QED BY <1>4, <2>1, <4>1 DEF Arrive
    <3>2. BarrierTypeOK' /\ CounterInv' /\ NoneEarly'
        BY <1>4, <2>1 DEF Arrive, BarrierInv, BarrierTypeOK, CounterInv, NoneEarly
    <3>3. calls' = passed' + thrown' + Cardinality(Busy')
        BY <1>1, <1>2, <2>0, <2>1, <3>1
    <3>4. thrown' = IF calls' > Count THEN calls' - Count ELSE 0
        BY <1>1, <1>3, <2>0, <2>1, <3>1
    <3> QED BY <3>2, <3>3, <3>4 DEF BarrierInv, CallsAddUp
  <2>2. CASE bcount' > 0
    <3>1. /\ passed' = passed /\ thrown' = thrown
          /\ Cardinality(Busy') = Cardinality(Busy) + 1
      <4>1. bpc' = [bpc EXCEPT ![t] = "asleep"]
          BY <1>4, <2>2 DEF Arrive
      <4>2. Cardinality(Busy') = Cardinality(Busy) + 1
          BY <2>0, <4>1, BusyMore DEF BarrierInv
      <4> QED BY <1>4, <2>2, <4>2 DEF Arrive
    <3>2. BarrierTypeOK' /\ CounterInv' /\ NoneEarly'
        BY <1>4, <2>2 DEF Arrive, BarrierInv, BarrierTypeOK, CounterInv, NoneEarly
    <3>3. calls' = passed' + thrown' + Cardinality(Busy')
        BY <1>1, <1>2, <2>0, <2>2, <3>1
    <3>4. thrown' = IF calls' > Count THEN calls' - Count ELSE 0
        BY <1>1, <1>3, <2>0, <2>2, <3>1
    <3> QED BY <3>2, <3>3, <3>4 DEF BarrierInv, CallsAddUp
  <2>3. CASE bcount' < 0
    <3>1. /\ passed' = passed /\ thrown' = thrown + 1
          /\ Cardinality(Busy') = Cardinality(Busy)
      <4>1. Busy' = Busy
          BY <1>4, <2>3 DEF Arrive, Busy
      <4> QED BY <1>4, <2>3, <4>1 DEF Arrive
    <3>2. BarrierTypeOK' /\ CounterInv' /\ NoneEarly'
        BY <1>4, <2>3 DEF Arrive, BarrierInv, BarrierTypeOK, CounterInv, NoneEarly
    <3>3. calls' = passed' + thrown' + Cardinality(Busy')
        BY <1>1, <1>2, <2>0, <2>3, <3>1
    <3>4. thrown' = IF calls' > Count THEN calls' - Count ELSE 0
        BY <1>1, <1>3, <2>0, <2>3, <3>1
    <3> QED BY <3>2, <3>3, <3>4 DEF BarrierInv, CallsAddUp
  <2> QED BY <1>4, <2>1, <2>2, <2>3 DEF Arrive
<1>5. ASSUME NEW t \in Threads, Spurious(t) PROVE BarrierInv'
  <2>1. Busy' = Busy
      BY <1>5 DEF Spurious, Busy, BarrierInv, BarrierTypeOK
  <2> QED BY <1>5, <2>1
          DEF Spurious, BarrierInv, BarrierTypeOK, CounterInv, NoneEarly, CallsAddUp
<1>6. ASSUME NEW t \in Threads, Retest(t) PROVE BarrierInv'
  <2>1. CASE bcount = 0
    <3>1. /\ passed' = passed + 1 /\ thrown' = thrown /\ calls' = calls
          /\ Cardinality(Busy') = Cardinality(Busy) - 1
      <4>1. bpc[t] # "idle" /\ bpc' = [bpc EXCEPT ![t] = "idle"]
          BY <1>6, <2>1 DEF Retest
      <4>2. Cardinality(Busy') = Cardinality(Busy) - 1
          BY <4>1, BusyLess DEF BarrierInv
      <4> QED BY <1>6, <2>1, <4>2 DEF Retest
    <3>2. BarrierTypeOK' /\ CounterInv' /\ NoneEarly'
        BY <1>6, <2>1 DEF Retest, BarrierInv, BarrierTypeOK, CounterInv, NoneEarly
    <3>3. calls' = passed' + thrown' + Cardinality(Busy')
        BY <1>1, <1>2, <3>1
    <3>4. thrown' = IF calls' > Count THEN calls' - Count ELSE 0
        BY <1>1, <1>3, <3>1
    <3> QED BY <3>2, <3>3, <3>4 DEF BarrierInv, CallsAddUp
  <2>2. CASE bcount # 0
    <3>1. Busy' = Busy
        BY <1>6, <2>2 DEF Retest, Busy, BarrierInv, BarrierTypeOK
    <3> QED BY <1>6, <2>2, <3>1
            DEF Retest, BarrierInv, BarrierTypeOK, CounterInv, NoneEarly, CallsAddUp
  <2> QED BY <2>1, <2>2
<1>7. CASE UNCHANGED barrierVars
    BY <1>7 DEF barrierVars, BarrierInv, BarrierTypeOK, CounterInv, NoneEarly, CallsAddUp, Busy
<1> QED BY <1>4, <1>5, <1>6, <1>7 DEF BarrierNext

\* The inductive invariant holds throughout.
THEOREM BarrierInvHolds == BarrierSpec => []BarrierInv
BY BarrierStarts, BarrierInductive, PTL DEF BarrierSpec

\* pshared_barrier::wait returns to nobody before Count calls have arrived,
\* whatever the condition variable does to the sleepers.
THEOREM NoneEarlyHolds == BarrierSpec => []NoneEarly
<1>1. BarrierInv => NoneEarly
    BY DEF BarrierInv
<1> QED BY <1>1, BarrierInvHolds, PTL

\* Every call of pshared_barrier::wait is sleeping, has returned or has thrown,
\* and exactly the calls beyond Count throw.
THEOREM CallsAddUpHolds == BarrierSpec => []CallsAddUp
<1>1. BarrierInv => CallsAddUp
    BY DEF BarrierInv
<1> QED BY <1>1, BarrierInvHolds, PTL

-----------------------------------------------------------------------------
(* Both in one segment. *)

\* A step of the composition is a step of the fence or of the barrier, and leaves
\* the other alone.
LEMMA Separate == [SyncNext]_syncVars => [FenceNext]_fenceVars /\ [BarrierNext]_barrierVars
<1> SUFFICES ASSUME [SyncNext]_syncVars PROVE [FenceNext]_fenceVars /\ [BarrierNext]_barrierVars
  OBVIOUS
<1>1. CASE FenceNext /\ UNCHANGED barrierVars
  BY <1>1
<1>2. CASE (\E t \in Threads : AtBarrier(t)) /\ UNCHANGED fenceVars
  BY <1>2 DEF AtBarrier, BarrierNext
<1>3. CASE UNCHANGED syncVars
  BY <1>3 DEF syncVars
<1> QED BY <1>1, <1>2, <1>3 DEF SyncNext

\* Processes that go through the fence and then to the barrier, as those of
\* test_ipc.cc do: nobody passes either early, and no call is lost.
THEOREM SyncHolds == SyncSpec => [](NoneBefore /\ NoneEarly /\ CallsAddUp)
<1>1. SyncInit => EarlyInv /\ BarrierInv
  BY EarlyInit, BarrierStarts DEF SyncInit
<1>2. EarlyInv /\ BarrierInv /\ [SyncNext]_syncVars => EarlyInv' /\ BarrierInv'
  BY EarlyInductive, BarrierInductive, Separate
<1>3. EarlyInv /\ BarrierInv => NoneBefore /\ NoneEarly /\ CallsAddUp
  BY DEF EarlyInv, BarrierInv
<1> QED BY <1>1, <1>2, <1>3, PTL DEF SyncSpec

\* And the one waiter does not sleep once somebody has notified it.
THEOREM SyncWakesWaiter ==
    ASSUME OneWaiter
    PROVE  SyncSpec => []NoLateSleeper
<1>1. SyncInit => EarlyInv /\ NoLateSleeper
  BY EarlyInit DEF SyncInit, FenceInit, NoLateSleeper
<1>2. EarlyInv /\ NoLateSleeper /\ [SyncNext]_syncVars => EarlyInv' /\ NoLateSleeper'
  BY EarlyInductive, SleeperInductive, Separate DEF EarlyInv
<1> QED BY <1>1, <1>2, PTL DEF SyncSpec

-----------------------------------------------------------------------------
(* The whole session. *)

\* A step of a session is, for each of its parts, a step of that part or none.
LEMMA Parts ==
    ASSUME [SessionNext]_sessionVars
    PROVE  /\ [Next]_vars /\ [RwNext]_rwVars
           /\ [FenceNext]_fenceVars /\ [BarrierNext]_barrierVars
<1>1. ASSUME NEW p \in Procs, Alone(p)
      PROVE  Next /\ UNCHANGED rwVars /\ UNCHANGED fenceVars /\ UNCHANGED barrierVars
  BY <1>1 DEF Alone, Next, Process, syncVars
<1>2. ASSUME NEW p \in Procs, Death(p)
      PROVE  Next /\ [RwNext]_rwVars /\ UNCHANGED fenceVars /\ UNCHANGED barrierVars
  <2>1. Crash(p) /\ UNCHANGED syncVars
    BY <1>2 DEF Death
  <2>2. [RwNext]_rwVars
    <3> DEFINE D == {u \in Users : Home[u] = p /\ upc[u] = "in"}
    <3>1. Die(D) \/ UNCHANGED rwVars
      BY <1>2 DEF Death
    <3>2. D \in SUBSET Users
      OBVIOUS
    <3> QED BY <3>1, <3>2 DEF RwNext
  <2> QED BY <2>1, <2>2 DEF Next, syncVars
<1>3. ASSUME NEW t \in Threads, Synchronise(t)
      PROVE  UNCHANGED vars /\ UNCHANGED rwVars /\ [FenceNext]_fenceVars /\ [BarrierNext]_barrierVars
  <2>1. UNCHANGED vars /\ UNCHANGED rwVars
    BY <1>3 DEF Synchronise
  <2>2. CASE AtFence(t) /\ UNCHANGED barrierVars
    BY <2>1, <2>2 DEF AtFence, FenceNext
  <2>3. CASE AtBarrier(t) /\ UNCHANGED fenceVars
    BY <2>1, <2>3 DEF AtBarrier, BarrierNext
  <2> QED BY <1>3, <2>2, <2>3 DEF Synchronise
<1>4. ASSUME NEW u \in Users, Guarded(u)
      PROVE  UNCHANGED vars /\ RwNext /\ UNCHANGED fenceVars /\ UNCHANGED barrierVars
  BY <1>4 DEF Guarded, RwNext, syncVars
<1>5. CASE UNCHANGED sessionVars
  BY <1>5 DEF sessionVars, syncVars
<1> QED BY <1>1, <1>2, <1>3, <1>4, <1>5 DEF SessionNext

\* In a session whose children wait at the semaphore the promises of all parts hold
\* together: the object is used only when it is constructed, guards exclude each
\* other, and nobody passes the fence or the barrier early, for any number of
\* processes and threads (ipc.cc, lock.cc:216-450).
THEOREM SessionHolds ==
    ASSUME Gated
    PROVE  SessionSpec =>
               [](UsedWhenReady /\ Exclusion /\ FreeAfterwards /\ NoneBefore /\ NoneEarly)
<1> DEFINE Whole == GateInv /\ RwInv /\ EarlyInv /\ BarrierInv
<1>1. SessionInit => Whole
  BY GateInit, RwStarts, EarlyInit, BarrierStarts DEF SessionInit, SyncInit
<1>2. Whole /\ [SessionNext]_sessionVars => Whole'
  BY Parts, GateNext, RwInductive, EarlyInductive, BarrierInductive
<1>3. Whole => UsedWhenReady /\ Exclusion /\ FreeAfterwards /\ NoneBefore /\ NoneEarly
  BY ReadyForUse, RwExcludes, RwFree DEF EarlyInv, BarrierInv
<1> QED BY <1>1, <1>2, <1>3, PTL DEF SessionSpec
=============================================================================
