---------------------------- MODULE ReactorProofs ----------------------------
(***************************************************************************)
(* The hand-over of connections and the order of shutdown(), for any       *)
(* number of workers, of acceptors or connectors and of connections.       *)
(***************************************************************************)
EXTENDS Reactor, FiniteSetTheorems, TLAPS

ThreadStates == {"new", "test", "wait", "hand", "serve", "opening", "ended"}
Kept == {"handed", "bare", "hooked", "open", "ending", "gone"}
Stages == {"away", "queued", "taken", "failed"} \cup Kept

TypeOK ==
    /\ phase \in Phases /\ at \in 0..NW + NS
    /\ tpc \in [Threads -> ThreadStates]
    /\ stop \in [Threads -> BOOLEAN]
    /\ pipe \in [Threads -> {"none", "hung"}]
    /\ stage \in [Conns -> Stages]
    /\ home \in [Conns -> 0..NW + NS]
    /\ batch \in [Workers -> SUBSET Conns]
    /\ late \in SUBSET Conns
    /\ turn \in [Sources -> 1..NW + 1] /\ step \in [Sources -> {"look", "note"}]
    /\ best \in [Sources -> 0..NW] /\ least \in [Sources -> Nat]

\* The threads the loops of run() and shutdown() are at.
AtInv ==
    /\ phase = "run" => at \in Threads /\ \A t \in Threads : t >= at => tpc[t] = "new"
    /\ phase \in {"serve", "stop_sources", "join_sources"} => at \in Sources
    /\ phase \in {"stop_workers", "join_workers"} => at \in Workers

Joined == {"stop_workers", "join_workers", "done"}

\* The sources end first: no worker is told to stop, nor its pipe hung up, before
\* they have been joined.
OrderInv ==
    /\ phase \notin Joined => \A w \in Workers : ~stop[w] /\ pipe[w] = "none"
    /\ phase = "join_sources" => \A s \in Sources : s < at => tpc[s] = "ended"
    /\ phase \in Joined => \A s \in Sources : tpc[s] = "ended"

\* Where a connection is: with nobody, with a source or with a worker.
HomeInv ==
    /\ \A c \in Conns :
        /\ stage[c] = "away" => home[c] = 0
        /\ stage[c] \in {"queued", "taken", "failed"} => home[c] \in Sources
        /\ stage[c] \in Kept => home[c] \in Workers
        /\ stage[c] = "taken" => tpc[home[c]] = "hand"
    /\ \A w \in Workers : \A c \in batch[w] : home[c] = w

\* A worker is in the middle of opening one connection at most.
OpeningInv ==
    /\ \A c \in Conns : stage[c] \in {"bare", "hooked"} => tpc[home[c]] = "opening"
    /\ \A c, d \in Conns :
        /\ stage[c] \in {"bare", "hooked"} /\ stage[d] \in {"bare", "hooked"}
        /\ home[c] = home[d]
        => c = d

Given(w) == {c \in Conns : home[c] = w}
Held(w) == {c \in Conns : home[c] = w /\ stage[c] # "gone"}

\* How far minloads_get_evlp is.  Nothing is less than the loads of a worker that
\* has never been given a connection.
ScanInv ==
    \A s \in Sources :
        /\ turn[s] = 1 => step[s] = "note"
        /\ turn[s] > 1 => tpc[s] = "hand" /\ best[s] \in Workers
        /\ turn[s] > 1 /\ step[s] = "note" => least[s] > 0
        /\ \A v \in Workers : turn[s] > v /\ Given(v) = {} => least[s] = 0

\* The sources that may be about to give a connection to w.
Aiming(w) == {s \in Sources : best[s] = w /\ least[s] = 0}

\* NoneOverlooked, with the connections on their way to a worker counted as its own.
SpreadInv ==
    \A v, w \in Workers :
        Given(v) = {} => Cardinality(Held(w)) + Cardinality(Aiming(w)) <= NS + 1

Inv == /\ TypeOK /\ AtInv /\ OrderInv /\ HomeInv /\ late = {}
       /\ OpeningInv /\ ScanInv /\ SpreadInv

-----------------------------------------------------------------------------
(* Numbers and sets. *)

\* Workers and sources are different threads, and none of them is 0.
LEMMA ThreadNumbers ==
    /\ NW \in Nat /\ NS \in Nat /\ NW > 0 /\ NS > 0
    /\ \A t : t \in Workers <=> t \in Nat /\ 1 <= t /\ t <= NW
    /\ \A t : t \in Sources <=> t \in Nat /\ NW + 1 <= t /\ t <= NW + NS
    /\ \A t : t \in Threads <=> t \in Nat /\ 1 <= t /\ t <= NW + NS
    /\ \A t \in Workers : t \notin Sources /\ t # 0
    /\ \A t \in Sources : t # 0
    /\ Workers \subseteq Threads /\ Sources \subseteq Threads
    /\ IsFiniteSet(Sources) /\ Cardinality(Sources) = NS
<1>1. NW \in Nat /\ NS \in Nat /\ NW > 0 /\ NS > 0
  BY ThreadsAssumption
<1>2. IsFiniteSet(Sources) /\ Cardinality(Sources) = NS
  <2> DEFINE a == NW + 1  b == NW + NS
  <2>1. a \in Int /\ b \in Int /\ ~(a > b) /\ b - a + 1 = NS
    BY <1>1
  <2>2. Sources = a..b
    BY DEF Sources
  <2> HIDE DEF a, b
  <2>3. IsFiniteSet(a..b) /\ Cardinality(a..b) = IF a > b THEN 0 ELSE b - a + 1
    BY <2>1, FS_Interval
  <2> QED BY <2>1, <2>2, <2>3
<1>3. /\ \A t : t \in Workers <=> t \in Nat /\ 1 <= t /\ t <= NW
      /\ \A t : t \in Sources <=> t \in Nat /\ NW + 1 <= t /\ t <= NW + NS
  BY <1>1 DEF Workers, Sources
<1>4. \A t : t \in Threads <=> t \in Nat /\ 1 <= t /\ t <= NW + NS
  BY <1>1, <1>3 DEF Threads
<1>5. \A t \in Workers : t \notin Sources /\ t # 0
  BY <1>1, <1>3
<1>6. \A t \in Sources : t # 0
  BY <1>1, <1>3
<1>7. Workers \subseteq Threads /\ Sources \subseteq Threads
  BY DEF Threads
<1> QED BY <1>1, <1>2, <1>3, <1>4, <1>5, <1>6, <1>7

\* Counting connections, and sources.
LEMMA Countable ==
    /\ \A S \in SUBSET Conns : IsFiniteSet(S) /\ Cardinality(S) \in Nat
    /\ \A S \in SUBSET Sources : IsFiniteSet(S) /\ Cardinality(S) \in Nat /\ Cardinality(S) <= NS
<1>1. \A S \in SUBSET Conns : IsFiniteSet(S) /\ Cardinality(S) \in Nat
  BY ConnsAssumption, FS_Subset, FS_CardinalityType
<1>2. ASSUME NEW S \in SUBSET Sources
      PROVE  IsFiniteSet(S) /\ Cardinality(S) \in Nat /\ Cardinality(S) <= NS
  BY ThreadNumbers, FS_Subset, FS_CardinalityType
<1> QED BY <1>1, <1>2

\* ev_loads() is a number.  It is 0 for a worker that was never given a connection,
\* and only while the worker holds no connection but the one it is just opening.
LEMMA LoadsBounds ==
    ASSUME Inv, NEW w \in Workers, pipe[w] = "none"
    PROVE  /\ Loads(w) \in Nat
           /\ Given(w) = {} => Loads(w) = 0
           /\ Loads(w) = 0 => Cardinality(Held(w)) <= 1
<1> DEFINE H == At(w, "handed") \cup At(w, "hooked")
           O == At(w, "open") \cup At(w, "ending")
<1>1. H \in SUBSET Conns /\ O \in SUBSET Conns /\ H \subseteq Given(w) /\ O \subseteq Given(w)
  BY DEF At, Given
<1>2. Cardinality(H) \in Nat /\ Cardinality(O) \in Nat /\ IsFiniteSet(H) /\ IsFiniteSet(O)
  BY <1>1, Countable
<1>3. Loads(w) = Cardinality(H) + 2 * Cardinality(O)
  BY <1>2 DEF Loads
<1>4. Held(w) \ {c \in Conns : home[c] = w /\ stage[c] = "bare"} \subseteq H \cup O
  <2>1. SUFFICES ASSUME NEW c \in Held(w), stage[c] # "bare" PROVE c \in H \cup O
    BY DEF Held
  <2>2. /\ c \in Conns /\ home[c] = w /\ stage[c] # "gone" /\ stage[c] \in Stages
        /\ w # 0 /\ w \notin Sources
    BY ThreadNumbers DEF Held, Inv, TypeOK
  <2>3. stage[c] \notin {"away", "queued", "taken", "failed"}
    BY <2>2 DEF Inv, HomeInv
  <2> QED BY <2>1, <2>2, <2>3 DEF At, Stages, Kept
<1> HIDE DEF H, O
<1>5. Given(w) = {} => Loads(w) = 0
  BY <1>1, <1>3, FS_EmptySet
<1>6. ASSUME Loads(w) = 0 PROVE Cardinality(Held(w)) <= 1
  <2>1. H = {} /\ O = {}
    <3>1. Cardinality(H) = 0 /\ Cardinality(O) = 0
      BY <1>2, <1>3, <1>6
    <3> QED BY <1>2, <3>1, FS_EmptySet
  <2>2. \A c, d \in Held(w) : c = d
    BY <1>4, <2>1 DEF Held, Inv, OpeningInv
  <2>3. CASE Held(w) = {}
    BY <2>3, FS_EmptySet
  <2>4. CASE Held(w) # {}
    <3>1. PICK c \in Held(w) : TRUE
      BY <2>4
    <3>2. Held(w) = {c}
      BY <2>2, <3>1
    <3>3. Cardinality(Held(w)) = 1
      BY <3>2, FS_Singleton
    <3> QED BY <3>3
  <2> QED BY <2>3, <2>4
<1> QED BY <1>2, <1>3, <1>5, <1>6

-----------------------------------------------------------------------------
(* The controlling thread. *)

\* Before run() starts the first thread.
LEMMA InitInv == Init => Inv
<1> SUFFICES ASSUME Init PROVE Inv
  OBVIOUS
<1>1. TypeOK
  <2>1. phase \in Phases /\ at \in 0..NW + NS
    BY ThreadNumbers DEF Init, Phases
  <2>2. /\ tpc \in [Threads -> ThreadStates]
        /\ stop \in [Threads -> BOOLEAN] /\ pipe \in [Threads -> {"none", "hung"}]
    BY DEF Init, ThreadStates
  <2>3. 0 \in 0..NW + NS /\ 0 \in 0..NW
    BY ThreadNumbers
  <2>4. /\ stage \in [Conns -> Stages]
        /\ home \in [Conns -> 0..NW + NS] /\ batch \in [Workers -> SUBSET Conns]
        /\ late \in SUBSET Conns
    BY <2>3 DEF Init, Stages
  <2>5. /\ turn \in [Sources -> 1..NW + 1] /\ step \in [Sources -> {"look", "note"}]
        /\ best \in [Sources -> 0..NW] /\ least \in [Sources -> Nat]
    BY <2>3, ThreadNumbers DEF Init
  <2> QED BY <2>1, <2>2, <2>4, <2>5 DEF TypeOK
<1>2. AtInv /\ OrderInv
  BY ThreadNumbers DEF Init, AtInv, OrderInv, Joined
<1>3. HomeInv /\ late = {} /\ OpeningInv
  BY DEF Init, HomeInv, OpeningInv, Kept
<1>4. ScanInv
  BY ThreadNumbers DEF Init, ScanInv
<1>5. SpreadInv
  <2> SUFFICES ASSUME NEW w \in Workers
               PROVE  Cardinality(Held(w)) + Cardinality(Aiming(w)) <= NS + 1
    BY DEF SpreadInv
  <2>1. Held(w) = {} /\ Aiming(w) = {}
    BY ThreadNumbers DEF Init, Held, Aiming
  <2> QED BY <2>1, FS_EmptySet, ThreadNumbers
<1> QED BY <1>1, <1>2, <1>3, <1>4, <1>5 DEF Inv

\* The reading of the loads is not disturbed while the source that reads goes on.
LEMMA ScanStays ==
    ASSUME Inv, UNCHANGED scanVars,
           \A w \in Workers : Given(w)' = {} => Given(w) = {},
           \A s \in Sources : tpc[s] = "hand" => tpc'[s] = "hand" \/ turn[s] = 1
    PROVE  ScanInv'
<1>1. SUFFICES ASSUME NEW s \in Sources
               PROVE  /\ turn[s] = 1 => step[s] = "note"
                      /\ turn[s] > 1 => tpc'[s] = "hand" /\ best[s] \in Workers
                      /\ turn[s] > 1 /\ step[s] = "note" => least[s] > 0
                      /\ \A v \in Workers : turn[s] > v /\ Given(v)' = {} => least[s] = 0
  BY DEF ScanInv, scanVars
<1>2. turn[s] > 1 => turn[s] # 1
  OBVIOUS
<1> QED BY <1>2 DEF Inv, ScanInv

\* A step that gives no worker a connection and picks none does not change what a
\* worker may come to hold.
LEMMA SpreadStays ==
    ASSUME Inv, UNCHANGED <<best, least>>,
           \A w \in Workers : Given(w)' = Given(w) /\ Held(w)' \subseteq Held(w)
    PROVE  SpreadInv'
<1> SUFFICES ASSUME NEW v \in Workers, NEW w \in Workers, Given(v)' = {}
             PROVE  Cardinality(Held(w)') + Cardinality(Aiming(w)') <= NS + 1
  BY DEF SpreadInv
<1>1. Cardinality(Held(w)) + Cardinality(Aiming(w)) <= NS + 1
  BY DEF Inv, SpreadInv
<1>2. Aiming(w)' = Aiming(w)
  BY DEF Aiming
<1>3. Held(w) \in SUBSET Conns /\ Aiming(w) \in SUBSET Sources
  BY DEF Held, Aiming
<1>4. Cardinality(Held(w)) \in Nat /\ IsFiniteSet(Held(w)) /\ Cardinality(Aiming(w)) \in Nat
  BY <1>3, Countable
<1>5. Cardinality(Held(w)') \in Nat /\ Cardinality(Held(w)') <= Cardinality(Held(w))
  BY <1>4, FS_Subset, FS_CardinalityType
<1> QED BY <1>1, <1>2, <1>4, <1>5, ThreadNumbers

\* What depends on the connections alone, when nobody is taken out of the middle
\* of handing over or opening one.
LEMMA ControlKeepsConns ==
    ASSUME Inv, UNCHANGED connVars, UNCHANGED scanVars,
           \A t \in Threads : /\ tpc[t] = "hand" => tpc'[t] = "hand"
                              /\ tpc[t] = "opening" => tpc'[t] = "opening"
    PROVE  HomeInv' /\ late' = {} /\ OpeningInv' /\ ScanInv' /\ SpreadInv'
<1>1. HomeInv'
  BY ThreadNumbers DEF Inv, HomeInv, connVars
<1>2. OpeningInv'
  <2>1. \A c \in Conns : stage[c] \in {"bare", "hooked"} => home[c] \in Threads
    BY ThreadNumbers DEF Inv, HomeInv, Kept
  <2> QED BY <2>1 DEF Inv, OpeningInv, connVars
<1>3. \A w : Given(w)' = Given(w) /\ Held(w)' = Held(w)
  BY DEF connVars, Given, Held
<1>4. ScanInv'
  BY <1>3, ScanStays, ThreadNumbers
<1>5. SpreadInv'
  BY <1>3, SpreadStays DEF scanVars
<1> QED BY <1>1, <1>2, <1>4, <1>5 DEF Inv, connVars

\* run() starts the threads one after the other.
LEMMA RunThreadKeepsInv ==
    ASSUME Inv, RunThread
    PROVE  Inv'
<1>1. /\ phase = "run" /\ at \in Threads /\ tpc[at] = "new"
      /\ tpc' = [tpc EXCEPT ![at] = "test"]
      /\ UNCHANGED <<stop, pipe>> /\ UNCHANGED connVars /\ UNCHANGED scanVars
      /\ \A t \in Threads : t >= at => tpc[t] = "new"
      /\ tpc \in [Threads -> ThreadStates]
      /\ \A w \in Workers : ~stop[w] /\ pipe[w] = "none"
  BY ThreadNumbers DEF Inv, TypeOK, AtInv, OrderInv, Joined, RunThread
<1>2. \/ at # NW + NS /\ at' = at + 1 /\ phase' = "run"
      \/ at = NW + NS /\ phase' = "serve" /\ at' = NW + 1
  BY <1>1 DEF RunThread, Advance
<1>3. tpc' \in [Threads -> ThreadStates]
  BY <1>1 DEF ThreadStates
<1>4. /\ at' \in Threads
      /\ phase' = "run" => \A t \in Threads : t >= at' => t >= at /\ t # at
      /\ phase' = "serve" => at' \in Sources
  BY <1>1, <1>2, ThreadNumbers
<1>5. at' \in 0..NW + NS
  BY <1>4, ThreadNumbers
<1>6. AtInv'
  BY <1>1, <1>2, <1>4 DEF AtInv
<1>7. OrderInv'
  BY <1>1, <1>2 DEF OrderInv, Joined
<1>8. TypeOK'
  BY <1>1, <1>2, <1>3, <1>5 DEF Inv, TypeOK, Phases, connVars, scanVars
<1>9. HomeInv' /\ late' = {} /\ OpeningInv' /\ ScanInv' /\ SpreadInv'
  BY <1>1, ControlKeepsConns
<1> QED BY <1>6, <1>7, <1>8, <1>9 DEF Inv

\* shutdown() walks through the sources, stops and then joins every one of them,
\* and only then comes to the workers.
LEMMA ShutdownKeepsInv ==
    ASSUME Inv, Shutdown \/ SetStop \/ HangUp \/ Join
    PROVE  Inv'
<1>1. /\ tpc \in [Threads -> ThreadStates] /\ stop \in [Threads -> BOOLEAN]
      /\ pipe \in [Threads -> {"none", "hung"}] /\ at \in 0..NW + NS
      /\ UNCHANGED tpc /\ UNCHANGED connVars /\ UNCHANGED scanVars
  BY DEF Inv, TypeOK, Shutdown, SetStop, HangUp, Join, loopVars
<1>2. HomeInv' /\ late' = {} /\ OpeningInv' /\ ScanInv' /\ SpreadInv'
  BY <1>1, ControlKeepsConns
<1>3. SUFFICES TypeOK' /\ AtInv' /\ OrderInv'
  BY <1>2 DEF Inv
<1>4. CASE Shutdown
  <2>1. phase = "serve" /\ at \in Sources /\ phase' = "stop_sources" /\ UNCHANGED <<at, stop, pipe>>
    BY <1>4 DEF Inv, AtInv, Shutdown, loopVars
  <2>2. TypeOK'
    BY <1>1, <2>1 DEF Inv, TypeOK, Phases, connVars, scanVars
  <2> QED BY <1>1, <2>1, <2>2 DEF Inv, AtInv, OrderInv, Joined
<1>5. CASE SetStop
  <2>1. Stopping /\ stop' = [stop EXCEPT ![at] = TRUE] /\ UNCHANGED <<phase, at, pipe>>
    BY <1>5 DEF SetStop, ctlVars
  <2>2. stop' \in [Threads -> BOOLEAN]
    BY <1>1, <2>1
  <2>3. TypeOK'
    BY <1>1, <2>1, <2>2 DEF Inv, TypeOK, connVars, scanVars
  <2>4. phase \notin Joined => \A w \in Workers : w # at
    BY <2>1, ThreadNumbers DEF Inv, AtInv, Stopping, Joined
  <2>5. \A w \in Workers : w # at => stop'[w] = stop[w]
    BY <1>1, <2>1, ThreadNumbers
  <2> QED BY <1>1, <2>1, <2>3, <2>4, <2>5 DEF Inv, AtInv, OrderInv
<1>6. CASE HangUp
  <2>1. /\ Stopping /\ pipe' = [pipe EXCEPT ![at] = "hung"] /\ UNCHANGED stop
        /\ Advance
    BY <1>6 DEF HangUp
  <2>2. pipe' \in [Threads -> {"none", "hung"}]
    BY <1>1, <2>1
  <2>3. \A w \in Workers : w # at => pipe'[w] = pipe[w]
    BY <1>1, <2>1, ThreadNumbers
  <2>4. CASE phase = "stop_sources"
    <3>1. \/ at # NW + NS /\ at' = at + 1 /\ phase' = "stop_sources"
          \/ at = NW + NS /\ at' = NW + 1 /\ phase' = "join_sources"
      BY <2>1, <2>4 DEF Advance
    <3>2. at \in Sources /\ \A w \in Workers : ~stop[w] /\ pipe[w] = "none" /\ w # at
      BY <2>4, ThreadNumbers DEF Inv, AtInv, OrderInv, Joined
    <3>3. at' \in Sources /\ (phase' = "join_sources" => \A s \in Sources : ~(s < at'))
      BY <3>1, <3>2, ThreadNumbers
    <3>4. at' \in 0..NW + NS
      BY <3>3, ThreadNumbers
    <3>5. TypeOK'
      BY <1>1, <2>1, <2>2, <3>1, <3>4 DEF Inv, TypeOK, Phases, connVars, scanVars
    <3> QED BY <2>1, <2>3, <3>1, <3>2, <3>3, <3>5 DEF AtInv, OrderInv, Joined
  <2>5. CASE phase = "stop_workers"
    <3>1. \/ at # NW /\ at' = at + 1 /\ phase' = "stop_workers"
          \/ at = NW /\ at' = 1 /\ phase' = "join_workers"
      BY <2>1, <2>5 DEF Advance
    <3>2. at \in Workers /\ \A s \in Sources : tpc[s] = "ended"
      BY <2>5 DEF Inv, AtInv, OrderInv, Joined
    <3>3. at' \in Workers
      BY <3>1, <3>2, ThreadNumbers
    <3>4. at' \in 0..NW + NS
      BY <3>3, ThreadNumbers
    <3>5. TypeOK'
      BY <1>1, <2>1, <2>2, <3>1, <3>4 DEF Inv, TypeOK, Phases, connVars, scanVars
    <3> QED BY <1>1, <3>1, <3>2, <3>3, <3>5 DEF AtInv, OrderInv, Joined
  <2> QED BY <2>1, <2>4, <2>5 DEF Stopping
<1>7. CASE Join
  <2>1. /\ phase \in {"join_sources", "join_workers"} /\ tpc[at] = "ended"
        /\ UNCHANGED <<stop, pipe>> /\ Advance
    BY <1>7 DEF Join, loopVars
  <2>2. CASE phase = "join_sources"
    <3>1. \/ at # NW + NS /\ at' = at + 1 /\ phase' = "join_sources"
          \/ at = NW + NS /\ at' = 1 /\ phase' = "stop_workers"
      BY <2>1, <2>2 DEF Advance
    <3>2. /\ at \in Sources /\ \A w \in Workers : ~stop[w] /\ pipe[w] = "none"
          /\ \A s \in Sources : s < at => tpc[s] = "ended"
      BY <2>2 DEF Inv, AtInv, OrderInv, Joined
    <3>3. /\ phase' = "join_sources" => at' \in Sources /\ \A s \in Sources : s < at' => s < at \/ s = at
          /\ phase' = "stop_workers" => at' \in Workers /\ \A s \in Sources : s < at \/ s = at
      BY <3>1, <3>2, ThreadNumbers
    <3>4. at' \in 0..NW + NS
      BY <3>1, <3>3, ThreadNumbers
    <3>5. TypeOK'
      BY <1>1, <2>1, <3>1, <3>4 DEF Inv, TypeOK, Phases, connVars, scanVars
    <3> QED BY <1>1, <2>1, <3>1, <3>2, <3>3, <3>5 DEF AtInv, OrderInv, Joined
  <2>3. CASE phase = "join_workers"
    <3>1. \/ at # NW /\ at' = at + 1 /\ phase' = "join_workers"
          \/ at = NW /\ at' = 0 /\ phase' = "done"
      BY <2>1, <2>3 DEF Advance
    <3>2. at \in Workers /\ \A s \in Sources : tpc[s] = "ended"
      BY <2>3 DEF Inv, AtInv, OrderInv, Joined
    <3>3. phase' = "join_workers" => at' \in Workers
      BY <3>1, <3>2, ThreadNumbers
    <3>4. at' \in 0..NW + NS
      BY <3>1, <3>3, ThreadNumbers
    <3>5. TypeOK'
      BY <1>1, <2>1, <3>1, <3>4 DEF Inv, TypeOK, Phases, connVars, scanVars
    <3> QED BY <1>1, <3>1, <3>2, <3>3, <3>5 DEF AtInv, OrderInv, Joined
  <2> QED BY <2>1, <2>2, <2>3
<1> QED BY <1>4, <1>5, <1>6, <1>7

-----------------------------------------------------------------------------
(* The loops. *)

\* A running thread does not disturb the order of run() and shutdown().
LEMMA ThreadKeepsOrder ==
    ASSUME Inv, NEW t \in Threads, tpc[t] \notin {"new", "ended"},
           NEW l \in ThreadStates, tpc' = [tpc EXCEPT ![t] = l],
           UNCHANGED <<phase, at, stop, pipe>>
    PROVE  AtInv' /\ OrderInv' /\ tpc' \in [Threads -> ThreadStates]
<1>1. tpc \in [Threads -> ThreadStates]
  BY DEF Inv, TypeOK
<1>2. /\ tpc' \in [Threads -> ThreadStates]
      /\ tpc'[t] = l /\ \A u \in Threads : u # t => tpc'[u] = tpc[u]
  BY <1>1
<1>3. AtInv'
  BY <1>2 DEF Inv, AtInv
<1>4. OrderInv'
  BY <1>2, ThreadNumbers DEF Inv, OrderInv
<1> QED BY <1>2, <1>3, <1>4

\* Nor does a step that leaves alone the connections that are being opened.
LEMMA OpeningStays ==
    ASSUME Inv,
           \A c \in Conns : stage'[c] \in {"bare", "hooked"} => stage'[c] = stage[c] /\ home'[c] = home[c],
           \A t \in Threads : tpc[t] = "opening" => tpc'[t] = "opening"
    PROVE  OpeningInv'
<1>1. \A c \in Conns : stage[c] \in {"bare", "hooked"} => home[c] \in Threads
  BY ThreadNumbers DEF Inv, HomeInv, Kept
<1> QED BY <1>1 DEF Inv, OpeningInv

\* The test of stop_, and the wake-up for the pipe.
LEMMA LoopKeepsInv ==
    ASSUME Inv, NEW t \in Threads, Test(t) \/ Wake(t)
    PROVE  Inv'
<1>1. PICK l \in {"ended", "wait", "test"} : tpc' = [tpc EXCEPT ![t] = l]
  BY DEF Test, Wake, Goto
<1>2. /\ tpc[t] \in {"test", "wait"}
      /\ UNCHANGED <<phase, at, stop, pipe>> /\ UNCHANGED connVars /\ UNCHANGED scanVars
  BY DEF Test, Wake, ctlVars
<1>3. AtInv' /\ OrderInv' /\ tpc' \in [Threads -> ThreadStates]
  BY <1>1, <1>2, ThreadKeepsOrder DEF ThreadStates
<1>4. \A u \in Threads : /\ tpc[u] = "hand" => tpc'[u] = "hand"
                         /\ tpc[u] = "opening" => tpc'[u] = "opening"
  BY <1>1, <1>2 DEF Inv, TypeOK
<1>5. HomeInv' /\ late' = {} /\ OpeningInv' /\ ScanInv' /\ SpreadInv'
  BY <1>2, <1>4, ControlKeepsConns
<1>6. TypeOK'
  BY <1>2, <1>3 DEF Inv, TypeOK, connVars, scanVars
<1> QED BY <1>3, <1>5, <1>6 DEF Inv

\* accept(), or the swap of the connector, takes connections of the source.
LEMMA TakeKeepsInv ==
    ASSUME Inv, NEW s \in Sources, Take(s)
    PROVE  Inv'
<1>1. PICK T \in SUBSET At(s, "queued") :
        stage' = [c \in Conns |-> IF c \in T THEN "taken" ELSE stage[c]]
  BY DEF Take
<1>2. /\ tpc[s] = "wait" /\ tpc' = [tpc EXCEPT ![s] = "hand"]
      /\ UNCHANGED <<phase, at, stop, pipe>>
      /\ UNCHANGED <<home, batch, late>> /\ UNCHANGED scanVars
      /\ s \in Threads
  BY ThreadNumbers DEF Take, Goto, ctlVars
<1>3. AtInv' /\ OrderInv' /\ tpc' \in [Threads -> ThreadStates]
  BY <1>2, ThreadKeepsOrder DEF ThreadStates
<1>4. \A c \in T : home[c] = s /\ stage[c] = "queued"
  BY <1>1 DEF At
<1>5. stage' \in [Conns -> Stages]
  BY <1>1 DEF Inv, TypeOK, Stages
<1>6. TypeOK'
  BY <1>2, <1>3, <1>5 DEF Inv, TypeOK, scanVars
<1>7. tpc'[s] = "hand" /\ \A u \in Threads : u # s => tpc'[u] = tpc[u]
  BY <1>2 DEF Inv, TypeOK
<1>8. HomeInv'
  <2>1. ASSUME NEW c \in Conns
        PROVE  /\ stage'[c] = "away" => home'[c] = 0
               /\ stage'[c] \in {"queued", "taken", "failed"} => home'[c] \in Sources
               /\ stage'[c] \in Kept => home'[c] \in Workers
               /\ stage'[c] = "taken" => tpc'[home'[c]] = "hand"
    <3>1. CASE c \in T
      BY <1>1, <1>2, <1>4, <1>7, <3>1 DEF Kept
    <3>2. CASE c \notin T
      BY <1>1, <1>2, <1>7, <3>2, ThreadNumbers DEF Inv, HomeInv
    <3> QED BY <3>1, <3>2
  <2> QED BY <1>2, <2>1 DEF Inv, HomeInv
<1>9. OpeningInv'
  BY <1>1, <1>2, <1>7, OpeningStays
<1>10. \A w \in Workers : Given(w)' = Given(w) /\ Held(w)' = Held(w)
  <2>1. SUFFICES ASSUME NEW w \in Workers, NEW c \in Conns, home[c] = w
                 PROVE  stage'[c] = stage[c]
    BY <1>2 DEF Given, Held
  <2>2. c \notin T
    BY <1>4, <2>1, ThreadNumbers
  <2> QED BY <1>1, <2>2
<1>11. ScanInv'
  BY <1>2, <1>7, <1>10, ScanStays, ThreadNumbers
<1>12. SpreadInv'
  BY <1>2, <1>10, SpreadStays DEF scanVars
<1> QED BY <1>2, <1>3, <1>6, <1>8, <1>9, <1>11, <1>12 DEF Inv

\* A source that reads the loads runs before the workers are told to stop, so that
\* no loop has the pipe of stop_loop_forever among its loads.
LEMMA NoPipes ==
    ASSUME Inv, NEW s \in Sources, tpc[s] = "hand"
    PROVE  \A w \in Workers : pipe[w] = "none" /\ ~stop[w]
<1>1. phase \notin Joined
  BY DEF Inv, OrderInv
<1> QED BY <1>1 DEF Inv, OrderInv

\* A step of minloads_get_evlp changes nothing but what the source has read.
LEMMA ReadKeeps ==
    ASSUME Inv, UNCHANGED <<phase, at, tpc, stop, pipe>>, UNCHANGED connVars
    PROVE  /\ AtInv' /\ OrderInv' /\ HomeInv' /\ OpeningInv' /\ late' = {}
           /\ \A w : Given(w)' = Given(w) /\ Held(w)' = Held(w)
<1>1. AtInv' /\ OrderInv' /\ HomeInv' /\ OpeningInv' /\ late' = {}
  BY DEF Inv, AtInv, OrderInv, HomeInv, OpeningInv, connVars
<1> QED BY <1>1 DEF Given, Held, connVars

\* The loads of a worker are compared with the least so far.  Those of a worker
\* that has no connection are passed over only if the least is 0 already.
LEMMA LookKeepsInv ==
    ASSUME Inv, NEW s \in Sources, Look(s)
    PROVE  Inv'
<1> DEFINE w == turn[s]
<1>1. /\ tpc[s] = "hand" /\ w \in Workers /\ step[s] = "look"
      /\ UNCHANGED <<phase, at, tpc, stop, pipe, best, least>> /\ UNCHANGED connVars
      /\ \/ /\ Loads(w) < least[s]
            /\ step' = [step EXCEPT ![s] = "note"] /\ UNCHANGED turn
         \/ /\ ~(Loads(w) < least[s])
            /\ turn' = [turn EXCEPT ![s] = w + 1] /\ UNCHANGED step
  BY DEF Look, ctlVars, loopVars
<1>2. /\ turn \in [Sources -> 1..NW + 1] /\ step \in [Sources -> {"look", "note"}]
      /\ least \in [Sources -> Nat] /\ best \in [Sources -> 0..NW] /\ w > 1
      /\ best[s] \in Workers
  <2>1. turn \in [Sources -> 1..NW + 1] /\ w # 1
    BY <1>1 DEF Inv, TypeOK, ScanInv
  <2>2. w > 1
    BY <1>1, <2>1, ThreadNumbers
  <2> QED BY <2>1, <2>2 DEF Inv, TypeOK, ScanInv
<1>3. /\ Loads(w) \in Nat /\ (Given(w) = {} => Loads(w) = 0) /\ w \in Nat /\ w <= NW
  BY <1>1, NoPipes, LoadsBounds, ThreadNumbers
<1> HIDE DEF w
<1>4. turn' \in [Sources -> 1..NW + 1] /\ step' \in [Sources -> {"look", "note"}]
  <2>1. w + 1 \in 1..NW + 1
    BY <1>3, ThreadNumbers
  <2> QED BY <1>1, <1>2, <2>1
<1>5. TypeOK'
  BY <1>1, <1>4 DEF Inv, TypeOK, connVars
<1>6. /\ AtInv' /\ OrderInv' /\ HomeInv' /\ OpeningInv' /\ late' = {}
      /\ \A u : Given(u)' = Given(u) /\ Held(u)' = Held(u)
  BY <1>1, ReadKeeps
<1>7. SpreadInv'
  BY <1>1, <1>6, SpreadStays
<1>8. ASSUME NEW r \in Sources
      PROVE  /\ turn'[r] = 1 => step'[r] = "note"
             /\ turn'[r] > 1 => tpc'[r] = "hand" /\ best'[r] \in Workers
             /\ turn'[r] > 1 /\ step'[r] = "note" => least'[r] > 0
             /\ \A v \in Workers : turn'[r] > v /\ Given(v)' = {} => least'[r] = 0
  <2>1. CASE r # s
    <3>1. turn'[r] = turn[r] /\ step'[r] = step[r]
      BY <1>1, <1>2, <2>1
    <3> QED BY <1>1, <1>6, <3>1 DEF Inv, ScanInv
  <2>2. CASE r = s /\ Loads(w) < least[s]
    <3>1. turn'[s] = w /\ step'[s] = "note" /\ least[s] > 0
      BY <1>1, <1>2, <1>3, <2>2 DEF w
    <3> QED BY <1>1, <1>2, <1>6, <2>2, <3>1 DEF Inv, ScanInv, w
  <2>3. CASE r = s /\ ~(Loads(w) < least[s])
    <3>1. turn'[s] = w + 1 /\ step'[s] = "look" /\ w + 1 # 1
      BY <1>1, <1>2, <1>3, <2>3
    <3>2. ASSUME NEW v \in Workers, w + 1 > v, Given(v) = {} PROVE least[s] = 0
      <4>1. CASE v = w
        BY <1>2, <1>3, <2>3, <3>2, <4>1
      <4>2. CASE v # w
        <5>1. w > v
          BY <1>3, <3>2, <4>2, ThreadNumbers
        <5> QED BY <3>2, <5>1 DEF Inv, ScanInv, w
      <4> QED BY <4>1, <4>2
    <3> QED BY <1>1, <1>2, <1>6, <2>3, <3>1, <3>2
  <2> QED BY <2>1, <2>2, <2>3
<1>9. ScanInv'
  BY <1>8 DEF ScanInv
<1> QED BY <1>5, <1>6, <1>7, <1>9 DEF Inv

\* The loads of a worker are noted.  Read as 0 they promise that the worker holds
\* at most the one connection it is opening.
LEMMA NoteKeepsInv ==
    ASSUME Inv, NEW s \in Sources, Note(s)
    PROVE  Inv'
<1> DEFINE w == turn[s]
<1>1. /\ tpc[s] = "hand" /\ w \in Workers /\ step[s] = "note"
      /\ best' = [best EXCEPT ![s] = w] /\ least' = [least EXCEPT ![s] = Loads(w)]
      /\ turn' = [turn EXCEPT ![s] = w + 1] /\ step' = [step EXCEPT ![s] = "look"]
      /\ UNCHANGED <<phase, at, tpc, stop, pipe>> /\ UNCHANGED connVars
  BY DEF Note, ctlVars, loopVars
<1>2. /\ turn \in [Sources -> 1..NW + 1] /\ step \in [Sources -> {"look", "note"}]
      /\ least \in [Sources -> Nat] /\ best \in [Sources -> 0..NW]
  BY DEF Inv, TypeOK
<1>3. /\ Loads(w) \in Nat /\ (Given(w) = {} => Loads(w) = 0) /\ w \in Nat /\ w <= NW
      /\ w > 1 \/ w = 1
      /\ Loads(w) = 0 => Cardinality(Held(w)) <= 1
  BY <1>1, NoPipes, LoadsBounds, ThreadNumbers
<1>4. w > 1 => least[s] > 0
  BY <1>1 DEF Inv, ScanInv
<1> HIDE DEF w
<1>5. TypeOK'
  <2>1. w + 1 \in 1..NW + 1 /\ w \in 0..NW
    BY <1>3, ThreadNumbers
  <2>2. /\ turn' \in [Sources -> 1..NW + 1] /\ step' \in [Sources -> {"look", "note"}]
        /\ best' \in [Sources -> 0..NW] /\ least' \in [Sources -> Nat]
    BY <1>1, <1>2, <1>3, <2>1
  <2> QED BY <1>1, <2>2 DEF Inv, TypeOK, connVars
<1>6. /\ AtInv' /\ OrderInv' /\ HomeInv' /\ OpeningInv' /\ late' = {}
      /\ \A u : Given(u)' = Given(u) /\ Held(u)' = Held(u)
  BY <1>1, ReadKeeps
<1>7. /\ turn'[s] = w + 1 /\ step'[s] = "look" /\ best'[s] = w /\ least'[s] = Loads(w)
      /\ \A r \in Sources : r # s => /\ turn'[r] = turn[r] /\ step'[r] = step[r]
                                    /\ best'[r] = best[r] /\ least'[r] = least[r]
  BY <1>1, <1>2
<1>8. ASSUME NEW r \in Sources
      PROVE  /\ turn'[r] = 1 => step'[r] = "note"
             /\ turn'[r] > 1 => tpc'[r] = "hand" /\ best'[r] \in Workers
             /\ turn'[r] > 1 /\ step'[r] = "note" => least'[r] > 0
             /\ \A v \in Workers : turn'[r] > v /\ Given(v)' = {} => least'[r] = 0
  <2>1. CASE r # s
    BY <1>1, <1>6, <1>7, <2>1 DEF Inv, ScanInv
  <2>2. CASE r = s
    <3>1. ASSUME NEW v \in Workers, w + 1 > v, Given(v) = {} PROVE Loads(w) = 0
      <4>1. CASE v = w
        BY <1>3, <3>1, <4>1
      <4>2. CASE v # w
        <5>1. w > v /\ w > 1
          BY <1>3, <3>1, <4>2, ThreadNumbers
        <5>2. least[s] = 0
          BY <3>1, <5>1 DEF Inv, ScanInv, w
        <5> QED BY <1>4, <5>1, <5>2
      <4> QED BY <4>1, <4>2
    <3>2. w + 1 # 1
      BY <1>3, ThreadNumbers, <1>1
    <3> QED BY <1>1, <1>6, <1>7, <2>2, <3>1, <3>2
  <2> QED BY <2>1, <2>2
<1>9. ScanInv'
  BY <1>8 DEF ScanInv
<1>10. ASSUME NEW v \in Workers, NEW u \in Workers, Given(v)' = {}
       PROVE  Cardinality(Held(u)') + Cardinality(Aiming(u)') <= NS + 1
  <2>1. /\ Aiming(u) \in SUBSET Sources /\ Aiming(u)' \in SUBSET Sources
        /\ Held(u) \in SUBSET Conns
    BY DEF Aiming, Held
  <2>2. /\ Cardinality(Aiming(u)) \in Nat /\ Cardinality(Held(u)) \in Nat
        /\ Cardinality(Aiming(u)') \in Nat /\ Cardinality(Aiming(u)') <= NS
        /\ IsFiniteSet(Aiming(u))
    BY <2>1, Countable
  <2>3. CASE u = w /\ Loads(w) = 0
    BY <1>3, <1>6, <2>2, <2>3, ThreadNumbers
  <2>4. CASE ~(u = w /\ Loads(w) = 0)
    <3>1. Aiming(u)' \subseteq Aiming(u)
      BY <1>7, <2>4 DEF Aiming
    <3>2. Cardinality(Aiming(u)') <= Cardinality(Aiming(u))
      BY <2>2, <3>1, FS_Subset
    <3>3. Cardinality(Held(u)) + Cardinality(Aiming(u)) <= NS + 1
      BY <1>6, <1>10 DEF Inv, SpreadInv
    <3> QED BY <1>6, <2>2, <3>2, <3>3, ThreadNumbers
  <2> QED BY <2>3, <2>4
<1>11. SpreadInv'
  BY <1>10 DEF SpreadInv
<1> QED BY <1>5, <1>6, <1>9, <1>11 DEF Inv

\* A source goes back to its loop after the last connection it has taken, and
\* not before.
LEMMA ProceedKeeps ==
    ASSUME Inv, NEW s \in Sources, tpc[s] = "hand", Proceed(s),
           NEW c \in At(s, "taken"), NEW st, stage' = [stage EXCEPT ![c] = st], st # "taken",
           \A d \in Conns : d # c => home'[d] = home[d],
           UNCHANGED <<phase, at, stop, pipe>>
    PROVE  /\ AtInv' /\ OrderInv' /\ tpc' \in [Threads -> ThreadStates]
           /\ \A d \in Conns : d # c => stage'[d] = stage[d]
           /\ \A d \in Conns : stage'[d] = "taken" => tpc'[home'[d]] = "hand"
<1>1. PICK l \in {"test", "hand"} :
        /\ tpc' = [tpc EXCEPT ![s] = l]
        /\ l = "test" => Cardinality(At(s, "taken")) = 1
  BY DEF Proceed, Goto
<1>2. s \in Threads
  BY ThreadNumbers
<1>3. AtInv' /\ OrderInv' /\ tpc' \in [Threads -> ThreadStates]
  BY <1>1, <1>2, ThreadKeepsOrder DEF ThreadStates
<1>4. \A d \in Conns : d # c => stage'[d] = stage[d]
  BY DEF Inv, TypeOK
<1>5. ASSUME NEW d \in Conns, stage'[d] = "taken" PROVE tpc'[home'[d]] = "hand"
  <2>1. d # c /\ stage[d] = "taken" /\ home'[d] = home[d]
    BY <1>4, <1>5 DEF Inv, TypeOK
  <2>2. home[d] \in Sources /\ tpc[home[d]] = "hand"
    BY <2>1 DEF Inv, HomeInv
  <2>3. CASE home[d] = s
    <3>1. d \in At(s, "taken")
      BY <2>1, <2>3 DEF At
    <3>2. IsFiniteSet(At(s, "taken"))
      BY Countable DEF At
    <3>3. l # "test"
      BY <1>1, <2>1, <3>1, <3>2, FS_Singleton
    <3> QED BY <1>1, <1>2, <2>1, <2>3, <3>3 DEF Inv, TypeOK
  <2>4. CASE home[d] # s
    BY <1>1, <1>2, <2>1, <2>2, <2>4, ThreadNumbers DEF Inv, TypeOK
  <2> QED BY <2>3, <2>4
<1> QED BY <1>3, <1>4, <1>5

\* fd_register with the worker that was picked: it has not been told to stop.
LEMMA HandKeepsInv ==
    ASSUME Inv, NEW s \in Sources, Hand(s)
    PROVE  Inv'
<1> DEFINE m == best[s]
<1>1. PICK c \in At(s, "taken") :
        /\ stage' = [stage EXCEPT ![c] = "handed"]
        /\ home' = [home EXCEPT ![c] = m]
        /\ late' = IF stop[m] THEN late \cup {c} ELSE late
  BY DEF Hand
<1>2. /\ tpc[s] = "hand" /\ turn[s] = NW + 1 /\ Proceed(s)
      /\ turn' = [turn EXCEPT ![s] = 1] /\ step' = [step EXCEPT ![s] = "note"]
      /\ best' = [best EXCEPT ![s] = 0] /\ least' = [least EXCEPT ![s] = 0]
      /\ UNCHANGED <<phase, at, stop, pipe, batch>>
  BY DEF Hand, ctlVars
<1>3. /\ stage \in [Conns -> Stages]
      /\ home \in [Conns -> 0..NW + NS] /\ batch \in [Workers -> SUBSET Conns]
      /\ turn \in [Sources -> 1..NW + 1] /\ step \in [Sources -> {"look", "note"}]
      /\ best \in [Sources -> 0..NW] /\ least \in [Sources -> Nat]
      /\ m \in Workers
      /\ \A v \in Workers : Given(v) = {} => least[s] = 0
  <2>1. turn[s] > 1 /\ \A v \in Workers : turn[s] > v
    BY <1>2, ThreadNumbers
  <2> QED BY <2>1 DEF Inv, TypeOK, ScanInv
<1>4. c \in Conns /\ stage[c] = "taken" /\ home[c] = s
  BY <1>1 DEF At
<1> HIDE DEF m
<1>5. /\ home'[c] = m /\ stage'[c] = "handed"
      /\ \A d \in Conns : d # c => home'[d] = home[d] /\ stage'[d] = stage[d]
  BY <1>1, <1>3, <1>4
<1>6. /\ AtInv' /\ OrderInv' /\ tpc' \in [Threads -> ThreadStates]
      /\ \A d \in Conns : stage'[d] = "taken" => tpc'[home'[d]] = "hand"
  BY <1>1, <1>2, <1>5, ProceedKeeps
<1>7. late' = {}
  <2>1. ~stop[m]
    BY <1>2, <1>3, NoPipes
  <2> QED BY <1>1, <2>1 DEF Inv
<1>8. TypeOK'
  <2>1. m \in 0..NW + NS /\ 0 \in 0..NW /\ 1 \in 1..NW + 1
    BY <1>3, ThreadNumbers
  <2>2. /\ turn' \in [Sources -> 1..NW + 1] /\ step' \in [Sources -> {"look", "note"}]
        /\ best' \in [Sources -> 0..NW] /\ least' \in [Sources -> Nat]
    BY <1>2, <1>3, <2>1
  <2>3. home' \in [Conns -> 0..NW + NS] /\ stage' \in [Conns -> Stages]
    BY <1>1, <1>3, <2>1 DEF Stages, Kept
  <2> QED BY <1>2, <1>6, <1>7, <2>2, <2>3 DEF Inv, TypeOK
<1>9. HomeInv'
  <2>1. \A w \in Workers : c \notin batch[w]
    BY <1>4, ThreadNumbers DEF Inv, HomeInv
  <2>2. \A w \in Workers : \A d \in batch'[w] : home'[d] = w
    BY <1>2, <1>3, <1>5, <2>1 DEF Inv, HomeInv
  <2>3. ASSUME NEW d \in Conns
        PROVE  /\ stage'[d] = "away" => home'[d] = 0
               /\ stage'[d] \in {"queued", "taken", "failed"} => home'[d] \in Sources
               /\ stage'[d] \in Kept => home'[d] \in Workers
    <3>1. CASE d = c
      BY <1>3, <1>5, <3>1 DEF Kept
    <3>2. CASE d # c
      BY <1>5, <3>2 DEF Inv, HomeInv
    <3> QED BY <3>1, <3>2
  <2> QED BY <1>6, <2>2, <2>3 DEF HomeInv
<1>10. OpeningInv'
  <2>1. \A t \in Threads : tpc[t] = "opening" => tpc'[t] = "opening"
    BY <1>2 DEF Proceed, Goto, Inv, TypeOK
  <2>2. \A d \in Conns : stage'[d] \in {"bare", "hooked"} => d # c
    BY <1>5
  <2> QED BY <1>5, <2>1, <2>2, OpeningStays
<1>11. ASSUME NEW u \in Workers
       PROVE  /\ u # m => /\ Given(u)' = Given(u) /\ Held(u)' = Held(u)
                          /\ Aiming(u)' = Aiming(u)
              /\ u = m => /\ Given(u)' # {}
                          /\ Held(u)' = Held(u) \cup {c} /\ c \notin Held(u)
                          /\ least[s] = 0 => Aiming(u)' = Aiming(u) \ {s} /\ s \in Aiming(u)
  <2>1. home[c] # u /\ u # 0
    BY <1>4, ThreadNumbers
  <2>2. u # m => Given(u)' = Given(u) /\ Held(u)' = Held(u)
    BY <1>4, <1>5, <2>1 DEF Given, Held
  <2>3. u # m => Aiming(u)' = Aiming(u)
    BY <1>2, <1>3, <2>1 DEF Aiming, m
  <2>4. u = m => Given(u)' # {} /\ Held(u)' = Held(u) \cup {c} /\ c \notin Held(u)
    BY <1>4, <1>5, <2>1 DEF Given, Held
  <2>5. u = m /\ least[s] = 0 => Aiming(u)' = Aiming(u) \ {s} /\ s \in Aiming(u)
    BY <1>2, <1>3, <2>1 DEF Aiming, m
  <2> QED BY <2>2, <2>3, <2>4, <2>5
<1>12. ASSUME NEW r \in Sources
       PROVE  /\ turn'[r] = 1 => step'[r] = "note"
              /\ turn'[r] > 1 => tpc'[r] = "hand" /\ best'[r] \in Workers
              /\ turn'[r] > 1 /\ step'[r] = "note" => least'[r] > 0
              /\ \A v \in Workers : turn'[r] > v /\ Given(v)' = {} => least'[r] = 0
  <2>1. CASE r = s
    <3>1. turn'[s] = 1 /\ step'[s] = "note" /\ least'[s] = 0
      BY <1>2, <1>3
    <3> QED BY <2>1, <3>1
  <2>2. CASE r # s
    <3>1. turn'[r] = turn[r] /\ step'[r] = step[r] /\ best'[r] = best[r] /\ least'[r] = least[r]
      BY <1>2, <1>3, <2>2
    <3>2. tpc'[r] = tpc[r]
      BY <1>2, <2>2, ThreadNumbers DEF Proceed, Goto, Inv, TypeOK
    <3>3. \A v \in Workers : Given(v)' = {} => Given(v) = {}
      BY <1>11
    <3> QED BY <3>1, <3>2, <3>3 DEF Inv, ScanInv
  <2> QED BY <2>1, <2>2
<1>13. ScanInv'
  BY <1>12 DEF ScanInv
<1>14. ASSUME NEW v \in Workers, NEW u \in Workers, Given(v)' = {}
       PROVE  Cardinality(Held(u)') + Cardinality(Aiming(u)') <= NS + 1
  <2>1. Given(v) = {} /\ least[s] = 0
    BY <1>3, <1>11, <1>14
  <2>2. Cardinality(Held(u)) + Cardinality(Aiming(u)) <= NS + 1
    BY <2>1 DEF Inv, SpreadInv
  <2>3. CASE u # m
    BY <1>11, <2>2, <2>3
  <2>4. CASE u = m
    <3>1. Held(u) \in SUBSET Conns /\ Aiming(u) \in SUBSET Sources
      BY DEF Held, Aiming
    <3>2. /\ IsFiniteSet(Held(u)) /\ Cardinality(Held(u)) \in Nat
          /\ IsFiniteSet(Aiming(u)) /\ Cardinality(Aiming(u)) \in Nat
      BY <3>1, Countable
    <3>3. Cardinality(Held(u)') = Cardinality(Held(u)) + 1
      BY <1>11, <2>4, <3>2, FS_AddElement
    <3>4. Cardinality(Aiming(u)') = Cardinality(Aiming(u)) - 1
      BY <1>11, <2>1, <2>4, <3>2, FS_RemoveElement
    <3> QED BY <2>2, <3>2, <3>3, <3>4, ThreadNumbers
  <2> QED BY <2>3, <2>4
<1>15. SpreadInv'
  BY <1>14 DEF SpreadInv
<1> QED BY <1>6, <1>7, <1>8, <1>9, <1>10, <1>13, <1>15 DEF Inv

\* A connect that fails at once, before any loads are read for it.
LEMMA ConnectFailsKeepsInv ==
    ASSUME Inv, NEW s \in Sources, ConnectFails(s)
    PROVE  Inv'
<1>1. PICK c \in At(s, "taken") : stage' = [stage EXCEPT ![c] = "failed"]
  BY DEF ConnectFails
<1>2. /\ tpc[s] = "hand" /\ Proceed(s) /\ turn[s] = 1
      /\ UNCHANGED <<phase, at, stop, pipe, home, batch, late>> /\ UNCHANGED scanVars
  BY DEF ConnectFails, Fresh, ctlVars
<1>3. c \in Conns /\ stage[c] = "taken" /\ home[c] = s
  BY <1>1 DEF At
<1>4. /\ AtInv' /\ OrderInv' /\ tpc' \in [Threads -> ThreadStates]
      /\ \A d \in Conns : d # c => stage'[d] = stage[d]
      /\ \A d \in Conns : stage'[d] = "taken" => tpc'[home'[d]] = "hand"
  BY <1>1, <1>2, ProceedKeeps
<1>5. stage'[c] = "failed" /\ stage' \in [Conns -> Stages]
  BY <1>1, <1>3 DEF Inv, TypeOK, Stages
<1>6. TypeOK'
  BY <1>2, <1>4, <1>5 DEF Inv, TypeOK, scanVars
<1>7. HomeInv'
  BY <1>2, <1>3, <1>4, <1>5 DEF Inv, HomeInv, Kept
<1>8. \A t \in Threads : /\ t # s => tpc'[t] = tpc[t]
                         /\ tpc[t] = "opening" => tpc'[t] = "opening"
  BY <1>2 DEF Proceed, Goto, Inv, TypeOK
<1>9. OpeningInv'
  BY <1>2, <1>4, <1>5, <1>8, OpeningStays
<1>10. \A w \in Workers : Given(w)' = Given(w) /\ Held(w)' = Held(w)
  BY <1>2, <1>3, <1>4, ThreadNumbers DEF Given, Held
<1>11. ScanInv'
  <2>1. \A r \in Sources : tpc[r] = "hand" => tpc'[r] = "hand" \/ turn[r] = 1
    BY <1>2, <1>8, ThreadNumbers
  <2> QED BY <1>2, <1>10, <2>1, ScanStays
<1>12. SpreadInv'
  BY <1>2, <1>10, SpreadStays DEF scanVars
<1> QED BY <1>2, <1>4, <1>6, <1>7, <1>9, <1>11, <1>12 DEF Inv

\* What a worker does, it does to the connections it was given.
WorkerStep(w, l) ==
    /\ tpc[w] \notin {"new", "ended"} /\ l \in ThreadStates
    /\ tpc' = [tpc EXCEPT ![w] = l]
    /\ UNCHANGED <<phase, at, stop, pipe, home, late>> /\ UNCHANGED scanVars
    /\ batch' \in [Workers -> SUBSET Conns]
    /\ \A v \in Workers : \A c \in batch'[v] : home[c] = v
    /\ stage' \in [Conns -> Stages]
    /\ \A c \in Conns :
        \/ stage'[c] = stage[c]
        \/ home[c] = w /\ stage'[c] \in Kept /\ stage[c] # "gone"
    /\ OpeningInv'

\* Such a step keeps the invariant.
LEMMA WorkerKeepsInv ==
    ASSUME Inv, NEW w \in Workers, NEW l, WorkerStep(w, l)
    PROVE  Inv'
<1> USE DEF WorkerStep
<1>1. w \in Threads /\ w \notin Sources
  BY ThreadNumbers
<1>2. AtInv' /\ OrderInv' /\ tpc' \in [Threads -> ThreadStates]
  BY <1>1, ThreadKeepsOrder
<1>3. \A t \in Threads : t # w => tpc'[t] = tpc[t]
  BY <1>1 DEF Inv, TypeOK
<1>4. TypeOK'
  BY <1>2 DEF Inv, TypeOK, scanVars
<1>5. HomeInv'
  <2>1. ASSUME NEW c \in Conns
        PROVE  /\ stage'[c] = "away" => home'[c] = 0
               /\ stage'[c] \in {"queued", "taken", "failed"} => home'[c] \in Sources
               /\ stage'[c] \in Kept => home'[c] \in Workers
               /\ stage'[c] = "taken" => tpc'[home'[c]] = "hand"
    <3>1. CASE stage'[c] = stage[c]
      BY <1>1, <1>3, <3>1, ThreadNumbers DEF Inv, HomeInv
    <3>2. CASE stage'[c] # stage[c]
      BY <3>2 DEF Kept
    <3> QED BY <3>1, <3>2
  <2> QED BY <2>1 DEF HomeInv
<1>6. \A v \in Workers : Given(v)' = Given(v) /\ Held(v)' \subseteq Held(v)
  BY DEF Given, Held
<1>7. ScanInv'
  BY <1>1, <1>3, <1>6, ScanStays, ThreadNumbers
<1>8. SpreadInv'
  BY <1>6, SpreadStays DEF scanVars
<1> QED BY <1>2, <1>4, <1>5, <1>7, <1>8 DEF Inv

\* The callbacks are queued.
LEMMA WorkerWakeKeepsInv ==
    ASSUME Inv, NEW w \in Workers, WorkerWake(w)
    PROVE  Inv'
<1>1. /\ tpc[w] = "wait" /\ tpc' = [tpc EXCEPT ![w] = "serve"]
      /\ UNCHANGED <<phase, at, stop, pipe, home, late>> /\ UNCHANGED scanVars
      /\ batch' = [batch EXCEPT ![w] = Due(w)] /\ stage' = stage
  BY DEF WorkerWake, Goto, ctlVars
<1>2. Due(w) \in SUBSET Conns /\ \A c \in Due(w) : home[c] = w
  BY DEF Due, At
<1>3. /\ batch' \in [Workers -> SUBSET Conns] /\ stage' \in [Conns -> Stages]
      /\ \A v \in Workers : \A c \in batch'[v] : home[c] = v
  BY <1>1, <1>2 DEF Inv, TypeOK, HomeInv
<1>4. OpeningInv'
  BY <1>1, OpeningStays DEF Inv, TypeOK
<1>5. WorkerStep(w, "serve")
  BY <1>1, <1>3, <1>4 DEF WorkerStep, ThreadStates
<1> QED BY <1>5, WorkerKeepsInv

\* A callback begins: a new connection is taken apart, an ended one is dropped.
LEMMA ServeKeepsInv ==
    ASSUME Inv, NEW w \in Workers, Serve(w)
    PROVE  Inv'
<1>1. /\ tpc[w] = "serve"
      /\ UNCHANGED <<phase, at, stop, pipe, home, late>> /\ UNCHANGED scanVars
  BY DEF Serve, ctlVars
<1>2. PICK c \in batch[w], l \in ThreadStates, st \in {"bare", "gone"} :
        /\ batch' = [batch EXCEPT ![w] = @ \ {c}]
        /\ stage[c] \in {"handed", "ending"}
        /\ stage' = [stage EXCEPT ![c] = st]
        /\ tpc' = [tpc EXCEPT ![w] = l]
        /\ st = "bare" => l = "opening"
  BY DEF Serve, Onward, Goto, ThreadStates
<1>3. /\ batch \in [Workers -> SUBSET Conns] /\ c \in Conns /\ home[c] = w
      /\ stage \in [Conns -> Stages] /\ tpc \in [Threads -> ThreadStates]
      /\ \A v \in Workers : \A d \in batch[v] : home[d] = v
  BY <1>2 DEF Inv, TypeOK, HomeInv
<1>4. batch' \in [Workers -> SUBSET Conns] /\ \A v \in Workers : batch'[v] \subseteq batch[v]
  BY <1>2, <1>3
<1>5. stage' \in [Conns -> Stages]
  BY <1>2, <1>3 DEF Stages, Kept
<1>6. stage'[c] = st /\ \A d \in Conns : d # c => stage'[d] = stage[d]
  BY <1>2, <1>3
<1>7. \A d \in Conns : stage[d] \in {"bare", "hooked"} => home[d] # w /\ home[d] \in Threads
  BY <1>1, ThreadNumbers DEF Inv, OpeningInv, HomeInv, Kept
<1>8. tpc'[w] = l /\ \A t \in Threads : t # w => tpc'[t] = tpc[t]
  BY <1>2, <1>3, ThreadNumbers
<1>9. OpeningInv'
  <2>1. ASSUME NEW d \in Conns, stage'[d] \in {"bare", "hooked"}
        PROVE  /\ d = c \/ (stage[d] \in {"bare", "hooked"} /\ home[d] # w)
               /\ tpc'[home[d]] = "opening"
    <3>1. CASE d = c
      BY <1>2, <1>3, <1>6, <1>8, <2>1, <3>1
    <3>2. CASE d # c
      BY <1>6, <1>7, <1>8, <2>1, <3>2 DEF Inv, OpeningInv
    <3> QED BY <3>1, <3>2
  <2> QED BY <1>1, <1>3, <2>1 DEF Inv, OpeningInv
<1>10. WorkerStep(w, l)
  BY <1>1, <1>2, <1>3, <1>4, <1>5, <1>6, <1>9 DEF WorkerStep, Kept
<1> QED BY <1>10, WorkerKeepsInv

\* The handler of a new connection goes on, or ends.
LEMMA OpenKeepsInv ==
    ASSUME Inv, NEW w \in Workers, Hook(w) \/ Open(w)
    PROVE  Inv'
<1>1. /\ tpc[w] = "opening"
      /\ UNCHANGED <<phase, at, stop, pipe, home, batch, late>> /\ UNCHANGED scanVars
  BY DEF Hook, Open, ctlVars
<1>2. tpc \in [Threads -> ThreadStates] /\ w \in Threads
  BY ThreadNumbers DEF Inv, TypeOK
<1>3. tpc = [tpc EXCEPT ![w] = "opening"]
  BY <1>1, <1>2
<1>4. PICK c \in Conns, l \in {"opening", "serve", "test"}, st \in {"hooked", "open", "gone"} :
        /\ home[c] = w /\ stage[c] \in {"bare", "hooked"}
        /\ stage' = [stage EXCEPT ![c] = st]
        /\ tpc' = [tpc EXCEPT ![w] = l]
        /\ st = "hooked" => l = "opening"
  <2>1. CASE Open(w)
    BY <2>1 DEF Open, Onward, Goto, At
  <2>2. CASE Hook(w)
    <3>1. PICK c \in At(w, "bare") :
            \/ stage' = [stage EXCEPT ![c] = "hooked"] /\ UNCHANGED tpc
            \/ Client /\ stage' = [stage EXCEPT ![c] = "gone"] /\ Onward(w, batch[w])
      BY <2>2 DEF Hook
    <3>2. c \in Conns /\ home[c] = w /\ stage[c] = "bare"
      BY DEF At
    <3>3. CASE stage' = [stage EXCEPT ![c] = "hooked"] /\ UNCHANGED tpc
      BY <1>3, <3>2, <3>3
    <3>4. CASE stage' = [stage EXCEPT ![c] = "gone"] /\ Onward(w, batch[w])
      BY <3>2, <3>4 DEF Onward, Goto
    <3> QED BY <3>1, <3>3, <3>4
  <2> QED BY <2>1, <2>2
<1>5. /\ batch' \in [Workers -> SUBSET Conns] /\ stage' \in [Conns -> Stages]
      /\ \A v \in Workers : \A d \in batch'[v] : home[d] = v
  BY <1>1, <1>4 DEF Inv, TypeOK, HomeInv, Stages, Kept
<1>6. stage'[c] = st /\ \A d \in Conns : d # c => stage'[d] = stage[d]
  BY <1>4 DEF Inv, TypeOK
<1>7. tpc'[w] = l /\ \A t \in Threads : t # w => tpc'[t] = tpc[t]
  BY <1>2, <1>4
<1>8. OpeningInv'
  <2>1. ASSUME NEW d \in Conns, stage'[d] \in {"bare", "hooked"}
        PROVE  stage[d] \in {"bare", "hooked"} /\ tpc'[home[d]] = "opening"
    <3>1. stage[d] \in {"bare", "hooked"}
      BY <1>4, <1>6, <2>1
    <3>2. home[d] \in Threads /\ tpc[home[d]] = "opening"
      BY <3>1, ThreadNumbers DEF Inv, OpeningInv, HomeInv, Kept
    <3>3. home[d] = w => d = c
      BY <1>4, <3>1 DEF Inv, OpeningInv
    <3>4. d = c => l = "opening"
      BY <1>4, <1>6, <2>1
    <3> QED BY <1>7, <3>1, <3>2, <3>3, <3>4
  <2> QED BY <1>1, <2>1 DEF Inv, OpeningInv
<1>9. WorkerStep(w, l)
  BY <1>1, <1>4, <1>5, <1>6, <1>8 DEF WorkerStep, Kept, ThreadStates
<1> QED BY <1>9, WorkerKeepsInv

\* A connection arrives at a source, or its peer ends it.
LEMMA PeersKeepInv ==
    ASSUME Inv, NEW c \in Conns, PeerEnds(c) \/ \E s \in Via[c] : Arrive(c, s)
    PROVE  Inv'
<1>1. /\ UNCHANGED <<phase, at, tpc, stop, pipe, batch, late>> /\ UNCHANGED scanVars
      /\ stage[c] \in {"away", "open"}
  BY DEF PeerEnds, Arrive, ctlVars, loopVars
<1>2. /\ stage \in [Conns -> Stages]
      /\ home \in [Conns -> 0..NW + NS] /\ batch \in [Workers -> SUBSET Conns]
  BY DEF Inv, TypeOK
<1>3. \/ /\ stage[c] = "open" /\ home' = home
         /\ stage' = [stage EXCEPT ![c] = "ending"]
      \/ /\ stage[c] = "away" /\ stage' = [stage EXCEPT ![c] = "queued"]
         /\ \E s \in Sources : home' = [home EXCEPT ![c] = s]
  BY ViaAssumption DEF PeerEnds, Arrive
<1>4. /\ \A d \in Conns : d # c => stage'[d] = stage[d] /\ home'[d] = home[d]
      /\ \/ stage[c] = "open" /\ stage'[c] = "ending" /\ home'[c] = home[c]
         \/ stage[c] = "away" /\ stage'[c] = "queued" /\ home'[c] \in Sources
  BY <1>2, <1>3
<1>5. TypeOK'
  <2>1. \A s \in Sources : s \in 0..NW + NS
    BY ThreadNumbers
  <2>2. home' \in [Conns -> 0..NW + NS]
    BY <1>2, <1>3, <2>1
  <2>3. stage' \in [Conns -> Stages]
    BY <1>2, <1>3 DEF Stages, Kept
  <2> QED BY <1>1, <2>2, <2>3 DEF Inv, TypeOK, scanVars
<1>6. AtInv' /\ OrderInv'
  BY <1>1 DEF Inv, AtInv, OrderInv
<1>7. HomeInv'
  <2>1. \A w \in Workers : \A d \in batch'[w] : home'[d] = w
    <3>1. SUFFICES ASSUME NEW w \in Workers, NEW d \in batch[w] PROVE home'[d] = w
      BY <1>1
    <3>2. d \in Conns /\ home[d] = w
      BY <1>2 DEF Inv, HomeInv
    <3>3. CASE d = c
      BY <1>4, <3>2, <3>3, ThreadNumbers DEF Inv, HomeInv, Kept
    <3> QED BY <1>4, <3>2, <3>3
  <2>2. ASSUME NEW d \in Conns
        PROVE  /\ stage'[d] = "away" => home'[d] = 0
               /\ stage'[d] \in {"queued", "taken", "failed"} => home'[d] \in Sources
               /\ stage'[d] \in Kept => home'[d] \in Workers
               /\ stage'[d] = "taken" => tpc'[home'[d]] = "hand"
    <3>1. CASE d = c
      BY <1>1, <1>4, <3>1 DEF Inv, HomeInv, Kept
    <3>2. CASE d # c
      BY <1>1, <1>4, <3>2 DEF Inv, HomeInv
    <3> QED BY <3>1, <3>2
  <2> QED BY <2>1, <2>2 DEF HomeInv
<1>8. OpeningInv'
  BY <1>1, <1>4, OpeningStays
<1>9. \A w \in Workers : Given(w)' = Given(w) /\ Held(w)' = Held(w)
  <2>1. \A w \in Workers : /\ home'[c] = w <=> home[c] = w
                           /\ home[c] = w => stage[c] # "gone" /\ stage'[c] # "gone"
    BY <1>1, <1>4, ThreadNumbers DEF Inv, HomeInv
  <2> QED BY <1>4, <2>1 DEF Given, Held
<1>10. ScanInv'
  BY <1>1, <1>9, ScanStays
<1>11. SpreadInv'
  BY <1>1, <1>9, SpreadStays DEF scanVars
<1> QED BY <1>1, <1>5, <1>6, <1>7, <1>8, <1>10, <1>11 DEF Inv

-----------------------------------------------------------------------------
\* Every step of every thread and of the peers keeps the invariant.
LEMMA NextInv == Inv /\ [Next]_vars => Inv'
<1> SUFFICES ASSUME Inv, [Next]_vars PROVE Inv'
  OBVIOUS
<1>1. CASE RunThread
  BY <1>1, RunThreadKeepsInv
<1>2. CASE Shutdown \/ SetStop \/ HangUp \/ Join
  BY <1>2, ShutdownKeepsInv
<1>3. ASSUME NEW s \in Sources, Source(s) PROVE Inv'
  <2>1. CASE Test(s) \/ Wake(s)
    BY <2>1, LoopKeepsInv, ThreadNumbers
  <2> QED BY <1>3, <2>1, TakeKeepsInv, LookKeepsInv, NoteKeepsInv, HandKeepsInv,
            ConnectFailsKeepsInv DEF Source
<1>4. ASSUME NEW w \in Workers, Worker(w) PROVE Inv'
  <2>1. CASE Test(w) \/ Wake(w)
    BY <2>1, LoopKeepsInv, ThreadNumbers
  <2> QED BY <1>4, <2>1, WorkerWakeKeepsInv, ServeKeepsInv, OpenKeepsInv DEF Worker
<1>5. ASSUME NEW c \in Conns, PeerEnds(c) \/ \E s \in Via[c] : Arrive(c, s) PROVE Inv'
  BY <1>5, PeersKeepInv
<1>6. CASE UNCHANGED vars
  <2>1. UNCHANGED <<phase, at, tpc, stop, pipe>> /\ UNCHANGED connVars /\ UNCHANGED scanVars
    BY <1>6 DEF vars, ctlVars, loopVars
  <2>2. HomeInv' /\ late' = {} /\ OpeningInv' /\ ScanInv' /\ SpreadInv'
    BY <2>1, ControlKeepsConns
  <2>3. TypeOK' /\ AtInv' /\ OrderInv'
    BY <2>1 DEF Inv, TypeOK, AtInv, OrderInv, connVars, scanVars
  <2> QED BY <2>2, <2>3 DEF Inv
<1> QED BY <1>1, <1>2, <1>3, <1>4, <1>5, <1>6 DEF Next, Control

\* So it holds from run() to the end of shutdown().
THEOREM Invariance == Spec => []Inv
  BY InitInv, NextInv, PTL DEF Spec

\* The state of the server or client keeps its types.
THEOREM TypeCorrect == Spec => []TypeOK
<1>1. Inv => TypeOK
  BY DEF Inv
<1> QED BY <1>1, Invariance, PTL

\* No connection is registered with a loop that has been told to stop, and none
\* is left between two threads when shutdown() has returned.
THEOREM NoneIsLate == Spec => []NoneLate
<1>1. ASSUME Inv PROVE NoneLate
  <2>1. ASSUME phase = "done", NEW c \in Conns, stage[c] = "taken" PROVE FALSE
    <3>1. home[c] \in Sources /\ tpc[home[c]] = "hand"
      BY <1>1, <2>1 DEF Inv, HomeInv
    <3>2. tpc[home[c]] = "ended"
      BY <1>1, <2>1, <3>1 DEF Inv, OrderInv, Joined
    <3> QED BY <3>1, <3>2
  <2> QED BY <1>1, <2>1 DEF NoneLate, Inv
<1> QED BY <1>1, Invariance, PTL

\* However stale the loads that minloads_get_evlp reads, no worker is overlooked
\* while the others are given connection after connection.
THEOREM NoneIsOverlooked == Spec => []NoneOverlooked
<1>1. ASSUME Inv, NEW v \in Workers, NEW w \in Workers, \A c \in Conns : home[c] # v
      PROVE  Cardinality(Held(w)) <= NS + 1
  <2>1. Held(w) \in SUBSET Conns /\ Aiming(w) \in SUBSET Sources /\ Given(v) = {}
    BY <1>1 DEF Held, Aiming, Given
  <2>2. Cardinality(Held(w)) \in Nat /\ Cardinality(Aiming(w)) \in Nat
    BY <2>1, Countable
  <2>3. Cardinality(Held(w)) + Cardinality(Aiming(w)) <= NS + 1
    BY <1>1, <2>1 DEF Inv, SpreadInv
  <2> QED BY <2>2, <2>3, ThreadNumbers
<1>2. Inv => NoneOverlooked
  BY <1>1 DEF NoneOverlooked, Held
<1> QED BY <1>2, Invariance, PTL
=============================================================================
