-------------------------------- MODULE RwLock --------------------------------
(***************************************************************************)
(* pshared_rwlock with rdlockguard and wrlockguard (lock.cc): users, of    *)
(* one process or several, who lock through a guard, move the guard, call  *)
(* its unlock() and lock(), and destroy it.  The destructor unlocks if the *)
(* guard points to a lock, and unlock() leaves the pointer where it is: a  *)
(* guard that is destroyed after unlock() unlocks once more, which is      *)
(* undefined and leaves the lock in any state.                             *)
(***************************************************************************)
EXTENDS Naturals, FiniteSets

CONSTANT Users  \* threads, of one or of several processes

ASSUME UsersAssumption == IsFiniteSet(Users)

VARIABLES readers, writer,  \* the rwlock
          upc,    \* each user: no guard, "in" or "out" of the lock with one, dead inside
          guard,  \* its two guards: which of them point to the lock
          kind,   \* what they are, rdlockguard or wrlockguard
          stray   \* history: a guard was destroyed after unlock()

rwVars == <<readers, writer, upc, guard, kind, stray>>

RwInit ==
    /\ readers = 0 /\ writer = FALSE
    /\ upc = [u \in Users |-> "none"]
    /\ guard = [u \in Users |-> {}] /\ kind = [u \in Users |-> "rd"]
    /\ stray = FALSE

\* pthread_rwlock: rdlock and wrlock, their try forms, and unlock by a holder.
Grant(k) ==
    \/ k = "rd" /\ ~writer /\ readers' = readers + 1 /\ UNCHANGED writer
    \/ k = "wr" /\ ~writer /\ readers = 0 /\ writer' = TRUE /\ UNCHANGED readers

Unlocked ==
    /\ writer' = FALSE
    /\ readers' = IF writer \/ readers = 0 THEN readers ELSE readers - 1

\* The constructor of a guard.
Lock(u, k) ==
    /\ upc[u] = "none" /\ Grant(k)
    /\ upc' = [upc EXCEPT ![u] = "in"]
    /\ guard' = [guard EXCEPT ![u] = {1}] /\ kind' = [kind EXCEPT ![u] = k]
    /\ UNCHANGED stray

\* Mutant: the guard that is moved from keeps its pointer.
MovedKeeping(g) == {1, 2}

\* Move construction and move assignment: the pointer changes places.
Moved(g) == {1, 2} \ g

Move(u) ==
    /\ upc[u] \in {"in", "out"}
    /\ guard' = [guard EXCEPT ![u] = Moved(@)]
    /\ UNCHANGED <<readers, writer, upc, kind, stray>>

\* unlock() and lock() of a guard.
Unlock(u) ==
    /\ upc[u] = "in" /\ Unlocked
    /\ upc' = [upc EXCEPT ![u] = "out"]
    /\ UNCHANGED <<guard, kind, stray>>

Relock(u) ==
    /\ upc[u] = "out" /\ Grant(kind[u])
    /\ upc' = [upc EXCEPT ![u] = "in"]
    /\ UNCHANGED <<guard, kind, stray>>

\* The guard g is gone, and with the last one the scope ends.
Gone(u, g) ==
    /\ guard' = [guard EXCEPT ![u] = @ \ {g}]
    /\ upc' = [upc EXCEPT ![u] = IF guard[u] = {g} THEN "none" ELSE @]

\* Mutant: the destructor leaves the lock alone.
DestroyNot(u) ==
    /\ upc[u] = "in" /\ \E g \in guard[u] : Gone(u, g)
    /\ UNCHANGED <<readers, writer, kind, stray>>

\* The destructor of a guard that points to the lock.
Destroy(u) ==
    /\ \E g \in guard[u] : Gone(u, g)
    /\ \/ upc[u] = "in" /\ Unlocked /\ UNCHANGED stray
       \/ /\ upc[u] = "out"
          /\ readers' \in 0..Cardinality(Users) /\ writer' \in BOOLEAN
          /\ stray' = TRUE
    /\ UNCHANGED kind

\* A process dies with the users D inside: the lock is not robust and stays taken.
Die(D) ==
    /\ D # {} /\ \A u \in D : upc[u] = "in"
    /\ upc' = [u \in Users |-> IF u \in D THEN "dead" ELSE upc[u]]
    /\ guard' = [u \in Users |-> IF u \in D THEN {} ELSE guard[u]]
    /\ UNCHANGED <<readers, writer, kind, stray>>

\* The operations of a user on the lock.
Operation(u) ==
    \/ Move(u) \/ Unlock(u) \/ Relock(u) \/ Destroy(u)
    \/ \E k \in {"rd", "wr"} : Lock(u, k)

RwNext == (\E u \in Users : Operation(u)) \/ (\E D \in SUBSET Users : Die(D))

RwSpec == RwInit /\ [][RwNext]_rwVars

-----------------------------------------------------------------------------
\* Those the lock is taken by.
Holders(k) == {u \in Users : upc[u] \in {"in", "dead"} /\ kind[u] = k}

\* Guards exclude each other, however they are moved, unlocked and locked again
\* (lock.cc:362-450): a wrlockguard is inside alone, as long as nobody destroys a
\* guard after its unlock().
Exclusion ==
    ~stray => \A u \in Holders("wr") : Holders("wr") \cup Holders("rd") = {u}

\* "EXPECT_TRUE(rwlck.try_wrlock())" (test_lock.cc:47): a lock is unlocked once for
\* each time it was locked, so that it is free when nobody is inside, whichever
\* guard the pointer had come to.
FreeAfterwards ==
    ~stray /\ Holders("rd") \cup Holders("wr") = {} => readers = 0 /\ ~writer
=============================================================================
