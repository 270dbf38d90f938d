--------------------------- MODULE ConnectionProofs ---------------------------
(***************************************************************************)
(* The server that answers: its callbacks do nothing on opening, may write *)
(* an answer when a request has been read, do nothing when it has been     *)
(* written, and never close.  For it no system call of a handler fails, no *)
(* connection is stranded, on_closed is final and no output is dropped, on *)
(* epoll and on kqueue, for any number of connections, descriptors and     *)
(* loops, whatever the peers do.                                           *)
(***************************************************************************)
EXTENDS Connection, SequenceTheorems, TLAPS

Answering ==
    /\ OnOpen \subseteq {"idle"} /\ OnRead \subseteq {"idle", "write"}
    /\ OnWritten \subseteq {"idle"}

-----------------------------------------------------------------------------
(* Where a handler can be: the steps it has left. *)

FromAccept  == <<"remove", "prepare", "on_open", "start_read", "release">>
FromConnect == <<"remove", "check_connect", "prepare", "on_open", "start_read", "release">>
AtConnect   == <<"check_connect", "prepare", "on_open", "start_read", "release">>
AtPrepare   == <<"prepare", "on_open", "start_read", "release">>
AtOpen      == <<"on_open", "start_read", "release">>
AtStart     == <<"start_read", "release">>
AtRead      == <<"read", "on_read_complete", "finish_read", "release">>
AtRequest   == <<"on_read_complete", "finish_read", "release">>
AtAnswer    == <<"write", "settle", "finish_read", "release">>
AtSettle    == <<"settle", "finish_read", "release">>
AtAnswered  == <<"on_write_complete", "finish_read", "release">>
AtFinishRd  == <<"finish_read", "release">>
AtWrite     == <<"write", "finish_write", "check_write", "release">>
AtFinishWr  == <<"finish_write", "check_write", "release">>
AtWritten   == <<"on_write_complete", "resume_read", "check_write", "release">>
AtResume    == <<"resume_read", "check_write", "release">>
AtCheck     == <<"check_write", "release">>
AtClosed    == <<"on_closed", "remove", "release">>
AtRemove    == <<"remove", "release">>
AtRelease   == <<"release">>

-----------------------------------------------------------------------------
(* Short sequences. *)

\* A sequence that begins with s and goes on with t.
Joins(u, s, t) ==
    /\ Len(u) = Len(s) + Len(t)
    /\ \A i \in 1..Len(s) : u[i] = s[i]
    /\ \A i \in 1..Len(t) : u[Len(s) + i] = t[i]

\* It is the concatenation.
LEMMA Joined ==
    ASSUME NEW S, NEW s \in Seq(S), NEW t \in Seq(S), NEW u \in Seq(S), Joins(u, s, t)
    PROVE  s \o t = u
<1> DEFINE v == s \o t
<1>1. /\ v \in Seq(S) /\ Len(v) = Len(s) + Len(t)
      /\ \A i \in 1..Len(s) + Len(t) : v[i] = IF i <= Len(s) THEN s[i] ELSE t[i - Len(s)]
  BY ConcatProperties
<1>2. Len(s) \in Nat /\ Len(t) \in Nat
  BY LenProperties
<1> HIDE DEF v
<1>3. ASSUME NEW i \in 1..Len(v) PROVE v[i] = u[i]
  <2>1. CASE i <= Len(s)
    BY <1>1, <1>2, <2>1 DEF Joins
  <2>2. CASE ~(i <= Len(s))
    <3>1. i - Len(s) \in 1..Len(t) /\ Len(s) + (i - Len(s)) = i
      BY <1>1, <1>2, <2>2
    <3>2. u[Len(s) + (i - Len(s))] = t[i - Len(s)]
      BY <3>1 DEF Joins
    <3> QED BY <1>1, <2>2, <3>1, <3>2
  <2> QED BY <2>1, <2>2
<1>4. v = u
  BY <1>1, <1>3, SeqEqual DEF Joins
<1> QED BY <1>4 DEF v

Places == {FromAccept, FromConnect, AtConnect, AtPrepare, AtOpen, AtStart, AtRead, AtRequest,
           AtAnswer, AtSettle, AtAnswered, AtFinishRd, AtWrite, AtFinishWr, AtWritten,
           AtResume, AtCheck, AtClosed, AtRemove, AtRelease}

\* The places are lists of steps.
LEMMA PlacesType == Places \subseteq Seq(Steps)
<1> DEFINE S == Steps
<1>1. {"on_open", "on_read_complete", "on_write_complete", "on_closed", "read", "finish_read",
       "write", "finish_write", "resume_read", "check_write", "settle", "remove",
       "check_connect", "prepare", "start_read", "release"} \subseteq S
  BY DEF Steps, Callbacks
<1> HIDE DEF S
<1>2. /\ FromAccept \in Seq(S) /\ FromConnect \in Seq(S) /\ AtConnect \in Seq(S)
      /\ AtPrepare \in Seq(S) /\ AtOpen \in Seq(S) /\ AtStart \in Seq(S)
  BY <1>1 DEF FromAccept, FromConnect, AtConnect, AtPrepare, AtOpen, AtStart
<1>3. /\ AtRead \in Seq(S) /\ AtRequest \in Seq(S) /\ AtAnswer \in Seq(S)
      /\ AtSettle \in Seq(S) /\ AtAnswered \in Seq(S) /\ AtFinishRd \in Seq(S)
  BY <1>1 DEF AtRead, AtRequest, AtAnswer, AtSettle, AtAnswered, AtFinishRd
<1>4. /\ AtWrite \in Seq(S) /\ AtFinishWr \in Seq(S) /\ AtWritten \in Seq(S)
      /\ AtResume \in Seq(S) /\ AtCheck \in Seq(S)
  BY <1>1 DEF AtWrite, AtFinishWr, AtWritten, AtResume, AtCheck
<1>5. AtClosed \in Seq(S) /\ AtRemove \in Seq(S) /\ AtRelease \in Seq(S)
  BY <1>1 DEF AtClosed, AtRemove, AtRelease
<1> QED BY <1>2, <1>3, <1>4, <1>5 DEF Places, S

\* The step each of them is at.
LEMMA Heads ==
    /\ Head(FromAccept) = "remove" /\ Head(FromConnect) = "remove"
    /\ Head(AtConnect) = "check_connect" /\ Head(AtPrepare) = "prepare"
    /\ Head(AtOpen) = "on_open" /\ Head(AtStart) = "start_read"
    /\ Head(AtRead) = "read" /\ Head(AtRequest) = "on_read_complete"
    /\ Head(AtAnswer) = "write" /\ Head(AtSettle) = "settle"
    /\ Head(AtAnswered) = "on_write_complete" /\ Head(AtFinishRd) = "finish_read"
    /\ Head(AtWrite) = "write" /\ Head(AtFinishWr) = "finish_write"
    /\ Head(AtWritten) = "on_write_complete" /\ Head(AtResume) = "resume_read"
    /\ Head(AtCheck) = "check_write" /\ Head(AtClosed) = "on_closed"
    /\ Head(AtRemove) = "remove" /\ Head(AtRelease) = "release"
BY DEF FromAccept, FromConnect, AtConnect, AtPrepare, AtOpen, AtStart, AtRead, AtRequest,
       AtAnswer, AtSettle, AtAnswered, AtFinishRd, AtWrite, AtFinishWr, AtWritten, AtResume,
       AtCheck, AtClosed, AtRemove, AtRelease

\* And the one that follows when nothing is pushed in front.
LEMMA Tails ==
    /\ Tail(FromAccept) = AtPrepare /\ Tail(FromConnect) = AtConnect
    /\ Tail(AtConnect) = AtPrepare /\ Tail(AtPrepare) = AtOpen /\ Tail(AtOpen) = AtStart
    /\ Tail(AtStart) = AtRelease /\ Tail(AtRead) = AtRequest /\ Tail(AtRequest) = AtFinishRd
    /\ Tail(AtAnswer) = AtSettle /\ Tail(AtSettle) = AtFinishRd /\ Tail(AtAnswered) = AtFinishRd
    /\ Tail(AtFinishRd) = AtRelease /\ Tail(AtWrite) = AtFinishWr /\ Tail(AtFinishWr) = AtCheck
    /\ Tail(AtWritten) = AtResume /\ Tail(AtResume) = AtCheck /\ Tail(AtCheck) = AtRelease
    /\ Tail(AtClosed) = AtRemove /\ Tail(AtRemove) = AtRelease /\ Tail(AtRelease) = <<>>
<1>1. /\ Tail(FromAccept) = AtPrepare /\ Tail(FromConnect) = AtConnect
      /\ Tail(AtConnect) = AtPrepare /\ Tail(AtPrepare) = AtOpen /\ Tail(AtOpen) = AtStart
      /\ Tail(AtStart) = AtRelease
  BY DEF FromAccept, FromConnect, AtConnect, AtPrepare, AtOpen, AtStart, AtRelease
<1>2. /\ Tail(AtRead) = AtRequest /\ Tail(AtRequest) = AtFinishRd
      /\ Tail(AtAnswer) = AtSettle /\ Tail(AtSettle) = AtFinishRd /\ Tail(AtAnswered) = AtFinishRd
      /\ Tail(AtFinishRd) = AtRelease
  BY DEF AtRead, AtRequest, AtAnswer, AtSettle, AtAnswered, AtFinishRd, AtRelease
<1>3. /\ Tail(AtWrite) = AtFinishWr /\ Tail(AtFinishWr) = AtCheck
      /\ Tail(AtWritten) = AtResume /\ Tail(AtResume) = AtCheck /\ Tail(AtCheck) = AtRelease
  BY DEF AtWrite, AtFinishWr, AtWritten, AtResume, AtCheck, AtRelease
<1>4. Tail(AtClosed) = AtRemove /\ Tail(AtRemove) = AtRelease /\ Tail(AtRelease) = <<>>
  BY DEF AtClosed, AtRemove, AtRelease
<1> QED BY <1>1, <1>2, <1>3, <1>4

\* What is pushed in front leads to a place again.
LEMMA Pushes ==
    /\ AsyncWrite \o AtFinishRd = AtAnswer
    /\ <<"on_write_complete">> \o AtFinishRd = AtAnswered
    /\ <<"on_write_complete", "resume_read">> \o AtCheck = AtWritten
    /\ <<"on_closed", "remove">> \o AtRelease = AtClosed
    /\ \A t \in Places : <<>> \o t = t
<1> DEFINE S == Steps
<1>1. {"on_write_complete", "on_closed", "finish_read", "write", "resume_read", "check_write",
       "settle", "remove", "release"} \subseteq S
  BY DEF Steps, Callbacks
<1> HIDE DEF S
<1>2. AsyncWrite \o AtFinishRd = AtAnswer
  <2> DEFINE s == <<"write", "settle">>  t == AtFinishRd  u == AtAnswer
  <2>1. s \in Seq(S) /\ t \in Seq(S) /\ u \in Seq(S)
    BY <1>1, PlacesType DEF S, Places
  <2>2. Joins(u, s, t)
    BY DEF Joins, AtFinishRd, AtAnswer
  <2> HIDE DEF s, t, u
  <2>3. s \o t = u
    BY <2>1, <2>2, Joined
  <2> QED BY <2>3 DEF s, t, u, AsyncWrite
<1>3. <<"on_write_complete">> \o AtFinishRd = AtAnswered
  <2> DEFINE s == <<"on_write_complete">>  t == AtFinishRd  u == AtAnswered
  <2>1. s \in Seq(S) /\ t \in Seq(S) /\ u \in Seq(S)
    BY <1>1, PlacesType DEF S, Places
  <2>2. Joins(u, s, t)
    BY DEF Joins, AtFinishRd, AtAnswered
  <2> HIDE DEF s, t, u
  <2>3. s \o t = u
    BY <2>1, <2>2, Joined
  <2> QED BY <2>3 DEF s, t, u
<1>4. <<"on_write_complete", "resume_read">> \o AtCheck = AtWritten
  <2> DEFINE s == <<"on_write_complete", "resume_read">>  t == AtCheck  u == AtWritten
  <2>1. s \in Seq(S) /\ t \in Seq(S) /\ u \in Seq(S)
    BY <1>1, PlacesType DEF S, Places
  <2>2. Joins(u, s, t)
    BY DEF Joins, AtCheck, AtWritten
  <2> HIDE DEF s, t, u
  <2>3. s \o t = u
    BY <2>1, <2>2, Joined
  <2> QED BY <2>3 DEF s, t, u
<1>5. <<"on_closed", "remove">> \o AtRelease = AtClosed
  <2> DEFINE s == <<"on_closed", "remove">>  t == AtRelease  u == AtClosed
  <2>1. s \in Seq(S) /\ t \in Seq(S) /\ u \in Seq(S)
    BY <1>1, PlacesType DEF S, Places
  <2>2. Joins(u, s, t)
    BY DEF Joins, AtRelease, AtClosed
  <2> HIDE DEF s, t, u
  <2>3. s \o t = u
    BY <2>1, <2>2, Joined
  <2> QED BY <2>3 DEF s, t, u
<1>6. \A t \in Places : <<>> \o t = t
  BY PlacesType, ConcatEmptySeq
<1> QED BY <1>2, <1>3, <1>4, <1>5, <1>6

-----------------------------------------------------------------------------
(* The invariant. *)

\* The callback a connection is registered with.
First(c) == IF c \in Dialled THEN "cont_writable" ELSE "acpt_writable"
Both == {"readable", "writable"}

Stored(c, l, f, h) == [fd |-> f, conn |-> c, cb |-> h] \in fds[l]

\* The callbacks stored for c are H, in its loop and under its number.
Hooked(c, H) ==
    \A l \in Loops, f \in Fds, h \in Handlers :
        Stored(c, l, f, h) <=> (l = loopOf[c] /\ f = fdOf[c] /\ h \in H)

\* The events watched for c are E, in its loop.
Watching(c, E) == \A l \in Loops : interest[l][fdOf[c]].on = IF l = loopOf[c] THEN E ELSE {}

Posture(c, H, E) == Hooked(c, H) /\ Watching(c, E)

\* The event to wait for: writable exactly while output is pending.
Waits(c) == IF wbuf[c] > 0 THEN "w" ELSE "r"

\* An edge that kqueue will not report again.
Unseen(c, e) == backend = "kqueue" /\ Ready(c, e) /\ e \notin interest[loopOf[c]][fdOf[c]].hot

\* The connection is found to have ended.
Told(c, F) == flags[c] \cap F # {}

\* What holds of a connection at each place of its handlers.
Opening(c, t) ==
    /\ wbuf[c] = 0
    /\ \/ t \in {FromAccept, FromConnect} /\ Posture(c, {First(c)}, {"w"})
       \/ t \in {AtConnect, AtPrepare} /\ Posture(c, {}, {})
       \/ t \in {AtOpen, AtStart} /\ Posture(c, {"writable"}, {})

Reading(c, t) ==
    \/ t = AtRead /\ Posture(c, Both, {"r"}) /\ wbuf[c] = 0
    \/ /\ t \in {AtRequest, AtAnswer, AtSettle, AtAnswered} /\ Posture(c, Both, {"r"})
       /\ t \in {AtRequest, AtAnswered} => wbuf[c] = 0
       /\ Unseen(c, "r") => Told(c, {"eof", "reset"})
    \/ /\ t = AtFinishRd /\ Posture(c, Both, {Waits(c)})
       /\ Unseen(c, Waits(c)) => Told(c, {"eof", "reset"})

Writing(c, t) ==
    \/ t = AtWrite /\ Posture(c, Both, {"w"})
    \/ /\ t = AtFinishWr /\ Posture(c, Both, {"w"})
       /\ wbuf[c] > 0 /\ Unseen(c, "w") => Told(c, {"eop", "reset"})
    \/ t \in {AtWritten, AtResume} /\ Posture(c, Both, {}) /\ wbuf[c] = 0
    \/ /\ t = AtCheck /\ Posture(c, Both, {Waits(c)})
       /\ Unseen(c, Waits(c)) => Told(c, {"eop", "reset"})

Leaving(c, t) ==
    \/ t = AtClosed /\ Posture(c, Both, {Waits(c)}) /\ link[c].peer # "open"
    \/ t = AtRelease /\ Posture(c, Both, {Waits(c)}) /\ ~Unseen(c, Waits(c))
    \/ t = AtRelease /\ Posture(c, {}, {}) /\ wbuf[c] = 0

Ending(c, t) ==
    /\ link[c].peer # "open"
    /\ \/ t = AtRemove /\ Posture(c, Both, {Waits(c)})
       \/ t = AtRelease /\ Posture(c, {}, {})

Doing(c, t) ==
    \/ ended[c] = 0 /\ (Opening(c, t) \/ Reading(c, t) \/ Writing(c, t) \/ Leaving(c, t))
    \/ ended[c] = 1 /\ Ending(c, t)

Busy(c) == \E t \in {todo[loopOf[c]]} : Doing(c, t)

Queued(c) == \E h \in Handlers : <<c, h>> \in batch[loopOf[c]]

\* What holds of a live connection that no handler is working on.
Waiting(c) ==
    /\ ended[c] = 0
    /\ \/ Posture(c, {First(c)}, {"w"}) /\ wbuf[c] = 0 /\ (Unseen(c, "w") => Queued(c))
       \/ Posture(c, Both, {Waits(c)}) /\ (Unseen(c, Waits(c)) => Queued(c))

\* A queued callback is stored, and its event the one that is watched: no other
\* handler of the connection has run since the poll.
QueueInv(c) ==
    \A l \in Loops, h \in Handlers : <<c, h>> \in batch[l] =>
        /\ stage[c] = "live" /\ l = loopOf[c] /\ cur[l] # c
        /\ Watching(c, {Event(h)}) /\ Stored(c, l, fdOf[c], h)

Held == {"accepted", "stored", "live"}

\* From the hand-over to the end.
LifeInv(c) ==
    /\ Owns(c) <=> stage[c] \in Held
    /\ closed[c] <=> stage[c] = "gone"
    /\ stage[c] \in {"unborn", "accepted", "stored"} => wbuf[c] = 0 /\ ended[c] = 0
    /\ stage[c] \in {"unborn", "accepted", "gone"} => Hooked(c, {})
    /\ stage[c] \in {"accepted", "stored"} => Watching(c, {})
    /\ stage[c] = "stored" => Hooked(c, {First(c)})
    /\ stage[c] \in {"stored", "live"} => loopOf[c] \in Loops
    /\ stage[c] = "gone" => ended[c] \in {0, 1} /\ (wbuf[c] > 0 => link[c].peer # "open")
    /\ flags[c] # {} => link[c].peer # "open"

ConnInv(c) ==
    /\ LifeInv(c)
    /\ \A l \in Loops : cur[l] = c => stage[c] = "live" /\ l = loopOf[c]
    /\ QueueInv(c)
    /\ stage[c] = "live" =>
        IF cur[loopOf[c]] = c THEN Busy(c) ELSE Waiting(c)

\* The descriptor table, and what the kernel and fd_events_ know of a number.
FileInv == \A f \in Fds : file[f] # None => fdOf[file[f]] = f
FreeInv == \A f \in Fds : file[f] = None => \A l \in Loops : interest[l][f].on = {}
RecordInv == backend = "kqueue" => \A l \in Loops, f \in Fds : events[l][f] = interest[l][f].on
HotInv == \A l \in Loops, f \in Fds : interest[l][f].hot \subseteq interest[l][f].on
TableInv == FileInv /\ FreeInv /\ RecordInv /\ HotInv

Inv == TypeOK /\ NoFault /\ TableInv /\ \A c \in Conns : ConnInv(c)

-----------------------------------------------------------------------------
(* What a step leaves alone. *)

\* Nothing of connection d moves.
SameConn(d) ==
    /\ stage'[d] = stage[d] /\ fdOf'[d] = fdOf[d] /\ loopOf'[d] = loopOf[d]
    /\ closed'[d] = closed[d] /\ flags'[d] = flags[d] /\ wbuf'[d] = wbuf[d]
    /\ ended'[d] = ended[d] /\ link'[d] = link[d] /\ backend' = backend
    /\ Owns(d)' <=> Owns(d)
    /\ Owns(d) => \A l \in Loops :
        /\ interest'[l][fdOf[d]].on = interest[l][fdOf[d]].on
        /\ stage[d] = "live" /\ l = loopOf[d] => interest'[l][fdOf[d]] = interest[l][fdOf[d]]
    /\ \A l \in Loops, f \in Fds, h \in Handlers : Stored(d, l, f, h)' <=> Stored(d, l, f, h)
    /\ \A l \in Loops, h \in Handlers : <<d, h>> \in batch'[l] <=> <<d, h>> \in batch[l]
    /\ \A l \in Loops : (cur'[l] = d <=> cur[l] = d) /\ (cur[l] = d => todo'[l] = todo[l])

\* Then its part of the invariant stays.
LEMMA SameConnInv ==
    ASSUME TypeOK, NEW d \in Conns, ConnInv(d), SameConn(d)
    PROVE  ConnInv(d)'
<1>1. /\ stage'[d] = stage[d] /\ fdOf'[d] = fdOf[d] /\ loopOf'[d] = loopOf[d]
      /\ closed'[d] = closed[d] /\ flags'[d] = flags[d] /\ wbuf'[d] = wbuf[d]
      /\ ended'[d] = ended[d] /\ link'[d] = link[d] /\ backend' = backend
      /\ Owns(d)' <=> Owns(d)
  BY DEF SameConn
<1>2. \A H : Hooked(d, H)' <=> Hooked(d, H)
  BY <1>1 DEF SameConn, Hooked
<1>3. Owns(d) => \A E : Watching(d, E)' <=> Watching(d, E)
  BY <1>1 DEF SameConn, Watching
<1>4. Owns(d) => \A H, E : Posture(d, H, E)' <=> Posture(d, H, E)
  BY <1>2, <1>3 DEF Posture
<1>5. Owns(d) /\ loopOf[d] \in Loops /\ stage[d] = "live" => \A e : Unseen(d, e)' <=> Unseen(d, e)
  BY <1>1 DEF SameConn, Unseen, Ready
<1>6. Waits(d)' = Waits(d) /\ \A F : Told(d, F)' <=> Told(d, F)
  BY <1>1 DEF Waits, Told
<1>7. LifeInv(d)
  BY DEF ConnInv
<1>8. LifeInv(d)'
  BY <1>1, <1>2, <1>3, <1>7 DEF LifeInv, Held
<1>9. \A l \in Loops : cur'[l] = d => stage'[d] = "live" /\ l = loopOf'[d]
  BY <1>1 DEF SameConn, ConnInv
<1>10. QueueInv(d)'
  <2> SUFFICES ASSUME NEW l \in Loops, NEW h \in Handlers, <<d, h>> \in batch'[l]
               PROVE  /\ stage'[d] = "live" /\ l = loopOf'[d] /\ cur'[l] # d
                      /\ Watching(d, {Event(h)})' /\ Stored(d, l, fdOf[d], h)'
    BY <1>1 DEF QueueInv, Event, Stored
  <2>1. <<d, h>> \in batch[l]
    BY DEF SameConn
  <2>2. /\ stage[d] = "live" /\ l = loopOf[d] /\ cur[l] # d
        /\ Watching(d, {Event(h)}) /\ Stored(d, l, fdOf[d], h)
    BY <2>1 DEF ConnInv, QueueInv
  <2>3. Owns(d)
    BY <1>7, <2>2 DEF LifeInv, Held
  <2>4. fdOf[d] \in Fds
    BY <2>3 DEF TypeOK, Owns
  <2> QED BY <1>1, <1>3, <2>2, <2>3, <2>4 DEF SameConn
<1>11. ASSUME stage[d] = "live"
       PROVE  IF cur'[loopOf[d]] = d THEN Busy(d)' ELSE Waiting(d)'
  <2>1. Owns(d) /\ loopOf[d] \in Loops
    BY <1>7, <1>11 DEF LifeInv, Held
  <2> DEFINE w == Waits(d)
  <2>2. /\ \A H, E : Posture(d, H, E)' <=> Posture(d, H, E)
        /\ \A e : Unseen(d, e)' <=> Unseen(d, e)
        /\ \A F : Told(d, F)' <=> Told(d, F)
        /\ Waits(d)' = w
    BY <1>4, <1>5, <1>6, <1>11, <2>1
  <2>3. \A t : Opening(d, t)' <=> Opening(d, t)
    BY <1>1, <2>2 DEF Opening, First
  <2>4. \A t : Reading(d, t)' <=> Reading(d, t)
    BY <1>1, <2>2 DEF Reading
  <2>5. \A t : Writing(d, t)' <=> Writing(d, t)
    BY <1>1, <2>2 DEF Writing
  <2>6. \A t : (Leaving(d, t)' <=> Leaving(d, t)) /\ (Ending(d, t)' <=> Ending(d, t))
    BY <1>1, <2>2 DEF Leaving, Ending
  <2>7. \A t : Doing(d, t)' <=> Doing(d, t)
    BY <1>1, <2>3, <2>4, <2>5, <2>6 DEF Doing
  <2>8. Queued(d)' <=> Queued(d)
    BY <1>1, <2>1 DEF SameConn, Queued
  <2>9. Waiting(d)' <=> Waiting(d)
    BY <1>1, <2>2, <2>8 DEF Waiting, First
  <2>10. /\ cur'[loopOf[d]] = d <=> cur[loopOf[d]] = d
         /\ cur[loopOf[d]] = d => todo'[loopOf[d]] = todo[loopOf[d]]
    BY <2>1 DEF SameConn
  <2>11. IF cur[loopOf[d]] = d THEN Busy(d) ELSE Waiting(d)
    BY <1>11 DEF ConnInv
  <2> QED BY <1>1, <2>7, <2>9, <2>10, <2>11 DEF Busy
<1> QED BY <1>1, <1>8, <1>9, <1>10, <1>11 DEF ConnInv

\* Where a handler of connection c is, on loop l: c is live and owns its number, no callback of it
\* is queued, and the steps left are one of the places.
Position(l, c) ==
    /\ stage[c] = "live" /\ l = loopOf[c] /\ cur[l] = c /\ Owns(c) /\ fdOf[c] \in Fds /\ ~closed[c]
    /\ Doing(c, todo[l])
    /\ \A k \in Loops, h \in Handlers : <<c, h>> \notin batch[k]

\* A loop that runs a handler of a connection has that connection live, its number its own.
LEMMA Positioned ==
    ASSUME Inv, NEW l \in Loops, NEW c \in Conns, cur[l] = c
    PROVE  Position(l, c)
<1>1. ConnInv(c) /\ LifeInv(c) /\ TypeOK
  BY DEF Inv, ConnInv
<1>2. stage[c] = "live" /\ l = loopOf[c]
  BY <1>1 DEF ConnInv
<1>3. Owns(c) /\ ~closed[c]
  BY <1>1, <1>2 DEF LifeInv, Held
<1>4. fdOf[c] \in Fds
  BY <1>1, <1>3 DEF TypeOK, Owns
<1>5. Doing(c, todo[l])
  BY <1>1, <1>2 DEF ConnInv, Busy
<1>6. \A k \in Loops, h \in Handlers : <<c, h>> \notin batch[k]
  BY <1>1, <1>2 DEF ConnInv, QueueInv
<1> QED BY <1>2, <1>3, <1>4, <1>5, <1>6 DEF Position

\* Two connections that own their numbers have different ones.
LEMMA OwnersDiffer ==
    ASSUME NEW c \in Conns, NEW d \in Conns \ {c}, Owns(c), Owns(d)
    PROVE  fdOf[c] # fdOf[d]
BY DEF Owns

\* A step of a handler that stays on its own connection: of the shared tables it
\* changes the entries of that number only.
Confined(l, c) ==
    /\ UNCHANGED <<stage, fdOf, loopOf, closed, file, batch, cur, backend, fault>>
    /\ \A d \in Conns \ {c} :
        /\ flags'[d] = flags[d] /\ wbuf'[d] = wbuf[d] /\ link'[d] = link[d] /\ ended'[d] = ended[d]
        /\ \A k \in Loops, f \in Fds, h \in Handlers : Stored(d, k, f, h)' <=> Stored(d, k, f, h)
    /\ \A k \in Loops \ {l} : todo'[k] = todo[k]
    /\ \A k \in Loops, f \in Fds : k # l \/ f # fdOf[c] =>
        interest'[k][f] = interest[k][f] /\ events'[k][f] = events[k][f]
    /\ interest'[l][fdOf[c]].hot \subseteq interest'[l][fdOf[c]].on
    /\ backend = "kqueue" => events'[l][fdOf[c]] = interest'[l][fdOf[c]].on
    /\ flags'[c] # {} => link'[c].peer # "open"

\* Such a step need only bring its handler to the next place.
LEMMA HandlerKeeps ==
    ASSUME Inv, NEW l \in Loops, NEW c \in Conns, cur[l] = c, Confined(l, c), Busy(c)', TypeOK'
    PROVE  Inv'
<1>1. Position(l, c)
  BY Positioned
<1>2. Owns(c) /\ fdOf[c] \in Fds /\ l = loopOf[c] /\ stage[c] = "live"
  BY <1>1 DEF Position
<1>3. TypeOK /\ NoFault /\ TableInv /\ \A d \in Conns : ConnInv(d)
  BY DEF Inv
<1>4. /\ stage' = stage /\ fdOf' = fdOf /\ loopOf' = loopOf /\ closed' = closed /\ file' = file
      /\ batch' = batch /\ cur' = cur /\ backend' = backend /\ fault' = fault
  BY DEF Confined
<1>5. \A d \in Conns : Owns(d)' <=> Owns(d)
  BY <1>4 DEF Owns
<1>6. ASSUME NEW d \in Conns \ {c} PROVE ConnInv(d)'
  <2>1. ConnInv(d) /\ LifeInv(d)
    BY <1>3 DEF ConnInv
  <2>2. Owns(d) => fdOf[d] \in Fds /\ fdOf[d] # fdOf[c]
    BY <1>2, <1>3, OwnersDiffer DEF TypeOK, Owns
  <2>3. Owns(d) => \A k \in Loops : interest'[k][fdOf[d]] = interest[k][fdOf[d]]
    BY <2>2 DEF Confined
  <2>4. \A k \in Loops : cur[k] = d => todo'[k] = todo[k]
    BY DEF Confined
  <2>5. /\ flags'[d] = flags[d] /\ wbuf'[d] = wbuf[d] /\ link'[d] = link[d] /\ ended'[d] = ended[d]
        /\ \A k \in Loops, f \in Fds, h \in Handlers : Stored(d, k, f, h)' <=> Stored(d, k, f, h)
    BY DEF Confined
  <2>6. SameConn(d)
    BY <1>4, <1>5, <2>3, <2>4, <2>5 DEF SameConn
  <2> QED BY <1>3, <2>1, <2>6, SameConnInv
<1>7. ConnInv(c)'
  <2>1. ConnInv(c) /\ LifeInv(c)
    BY <1>3 DEF ConnInv
  <2>2. LifeInv(c)'
    BY <1>2, <1>4, <1>5, <2>1 DEF LifeInv, Held, Confined
  <2>3. QueueInv(c)'
    BY <1>1, <1>4 DEF QueueInv, Position
  <2>4. \A k \in Loops : cur'[k] = c => stage'[c] = "live" /\ k = loopOf'[c]
    BY <1>4, <2>1 DEF ConnInv
  <2> QED BY <1>2, <1>4, <2>2, <2>3, <2>4 DEF ConnInv
<1>8. TableInv'
  <2>1. FileInv'
    BY <1>3, <1>4 DEF TableInv, FileInv
  <2>2. FreeInv'
    BY <1>2, <1>3, <1>4, NoneAssumption DEF TableInv, FreeInv, Confined, Owns
  <2>3. RecordInv'
    BY <1>2, <1>3, <1>4 DEF TableInv, RecordInv, Confined
  <2>4. HotInv'
    BY <1>2, <1>3, <1>4 DEF TableInv, HotInv, Confined
  <2> QED BY <2>1, <2>2, <2>3, <2>4 DEF TableInv
<1>9. NoFault'
  BY <1>3, <1>4 DEF NoFault
<1> QED BY <1>6, <1>7, <1>8, <1>9 DEF Inv

-----------------------------------------------------------------------------
(* What epoll_ctl and kevent do to the tables. *)

\* The events watched for c on loop l are now E, each with its edge if it is ready, and
\* fd_events_ says so too; no other entry moved.
Rewatched(l, c, E) ==
    /\ \A k \in Loops, f \in Fds : k # l \/ f # fdOf[c] =>
        interest'[k][f] = interest[k][f] /\ events'[k][f] = events[k][f]
    /\ interest'[l][fdOf[c]].on = E
    /\ interest'[l][fdOf[c]].hot \subseteq E
    /\ backend = "kqueue" =>
        /\ events'[l][fdOf[c]] = E
        /\ \A i \in E : Ready(c, i) => i \in interest'[l][fdOf[c]].hot
    /\ interest' \in [Loops -> [Fds -> [on : SUBSET {"r", "w"}, hot : SUBSET {"r", "w"}]]]
    /\ events' \in [Loops -> [Fds -> SUBSET {"r", "w"}]]

\* So it is whenever what is taken away is all that was watched.
LEMMA WatchAll ==
    ASSUME TypeOK, TableInv, NEW l \in Loops, NEW c \in Conns, fdOf[c] \in Fds,
           NEW out, NEW E \in SUBSET {"r", "w"}, Watch(l, c, out, E),
           Watched(l, c) \subseteq out
    PROVE  Rewatched(l, c, E)
<1> DEFINE f0 == fdOf[c]
           r == [on |-> (interest[l][f0].on \ out) \cup E,
                 hot |-> IF backend = "epoll" THEN {}
                         ELSE (interest[l][f0].hot \ out) \cup {i \in E : Ready(c, i)}]
           v == IF backend = "epoll" THEN {} ELSE (events[l][f0] \ out) \cup E
<1>1. /\ interest \in [Loops -> [Fds -> [on : SUBSET {"r", "w"}, hot : SUBSET {"r", "w"}]]]
      /\ events \in [Loops -> [Fds -> SUBSET {"r", "w"}]] /\ backend \in {"epoll", "kqueue"}
      /\ f0 \in Fds
  BY PolicyAssumption DEF TypeOK
<1>2. /\ interest[l][f0].on \in SUBSET {"r", "w"} /\ interest[l][f0].hot \in SUBSET {"r", "w"}
      /\ events[l][f0] \in SUBSET {"r", "w"}
  BY <1>1
<1>3. interest[l][f0].on \subseteq out /\ interest[l][f0].hot \subseteq interest[l][f0].on
  BY <1>1 DEF Watched, TableInv, HotInv
<1>4. backend = "kqueue" => events[l][f0] \subseteq out
  BY <1>1, <1>3 DEF TableInv, RecordInv
<1>5. /\ r.on = E /\ r.hot \subseteq E
      /\ backend = "kqueue" => \A i \in E : Ready(c, i) => i \in r.hot
  BY <1>1, <1>3
<1>6. v \in SUBSET {"r", "w"} /\ (backend = "kqueue" => v = E)
  BY <1>1, <1>2, <1>4
<1>7. r \in [on : SUBSET {"r", "w"}, hot : SUBSET {"r", "w"}]
  BY <1>1, <1>2
<1>8. /\ interest' = [interest EXCEPT ![l] = [interest[l] EXCEPT ![f0] = r]]
      /\ events' = [events EXCEPT ![l] = [events[l] EXCEPT ![f0] = v]]
  BY DEF Watch
<1> HIDE DEF r, v
<1>9. /\ \A k \in Loops, f \in Fds : k # l \/ f # f0 =>
            interest'[k][f] = interest[k][f] /\ events'[k][f] = events[k][f]
      /\ interest'[l][f0] = r /\ events'[l][f0] = v
  BY <1>1, <1>8
<1>10. /\ interest' \in [Loops -> [Fds -> [on : SUBSET {"r", "w"}, hot : SUBSET {"r", "w"}]]]
       /\ events' \in [Loops -> [Fds -> SUBSET {"r", "w"}]]
  BY <1>1, <1>6, <1>7, <1>8
<1> QED BY <1>5, <1>6, <1>9, <1>10 DEF Rewatched

\* fd_remove takes out all that was watched, and the kernel does not refuse it
\* where something is watched.
LEMMA RemovedAll ==
    ASSUME TypeOK, TableInv, NEW l \in Loops, NEW c \in Conns, fdOf[c] \in Fds
    PROVE  /\ Watched(l, c) \subseteq Removed(l, c)
           /\ Owns(c) /\ Watched(l, c) # {} => CanDel(l, c)
<1>1. backend \in {"epoll", "kqueue"}
  BY PolicyAssumption DEF TypeOK
<1>2. backend = "kqueue" => Recorded(l, c) = Watched(l, c)
  BY DEF TableInv, RecordInv, Recorded, Watched
<1> QED BY <1>1, <1>2 DEF Removed, CanDel, EpollCanDel, KqueueCanDel

\* What is stored for a connection is stored in its loop, under the number it owns.
LEMMA HooksAt ==
    ASSUME Inv, NEW d \in Conns, NEW k \in Loops, NEW f \in Fds, NEW h \in Handlers,
           Stored(d, k, f, h)
    PROVE  k = loopOf[d] /\ f = fdOf[d] /\ stage[d] \in {"stored", "live"} /\ Owns(d)
<1>1. ConnInv(d) /\ LifeInv(d) /\ TypeOK
  BY DEF Inv, ConnInv
<1>2. \E H : Hooked(d, H)
  <2>1. CASE stage[d] \in {"unborn", "accepted", "gone", "stored"}
    BY <1>1, <2>1 DEF LifeInv
  <2>2. CASE stage[d] = "live"
    <3>1. Busy(d) \/ Waiting(d)
      BY <1>1, <2>2 DEF ConnInv
    <3>2. CASE Busy(d)
      BY <3>2 DEF Busy, Doing, Opening, Reading, Writing, Leaving, Ending, Posture
    <3>3. CASE Waiting(d)
      BY <3>3 DEF Waiting, Posture
    <3> QED BY <3>1, <3>2, <3>3
  <2> QED BY <1>1, <2>1, <2>2 DEF TypeOK
<1>3. k = loopOf[d] /\ f = fdOf[d]
  BY <1>2 DEF Hooked
<1>4. ~Hooked(d, {})
  BY DEF Hooked
<1>5. stage[d] \in {"stored", "live"}
  BY <1>1, <1>4 DEF LifeInv, TypeOK
<1>6. Owns(d)
  BY <1>1, <1>5 DEF LifeInv, Held
<1> QED BY <1>3, <1>5, <1>6

\* So nothing is stored under the number of a connection for another one.
LEMMA NotOthers ==
    ASSUME Inv, NEW c \in Conns, Owns(c), NEW d \in Conns \ {c},
           NEW k \in Loops, NEW f \in Fds, NEW h \in Handlers, Stored(d, k, f, h)
    PROVE  f # fdOf[c]
BY HooksAt, OwnersDiffer

-----------------------------------------------------------------------------
(* The steps of the handlers. *)

\* Going on with p.
LEMMA Goes ==
    ASSUME TypeOK, NEW l \in Loops, NEW s, Then(l, s), NEW p \in Places, s \o Tail(todo[l]) = p
    PROVE  /\ todo'[l] = p /\ todo' \in [Loops -> Seq(Steps)]
           /\ \A k \in Loops \ {l} : todo'[k] = todo[k]
<1>1. todo \in [Loops -> Seq(Steps)] /\ p \in Seq(Steps)
  BY PlacesType DEF TypeOK
<1>2. todo' = [todo EXCEPT ![l] = p]
  BY DEF Then
<1> QED BY <1>1, <1>2

\* Going on with what is left.
LEMMA GoesOn ==
    ASSUME TypeOK, NEW l \in Loops, Then(l, <<>>), NEW p \in Places, Tail(todo[l]) = p
    PROVE  /\ todo'[l] = p /\ todo' \in [Loops -> Seq(Steps)]
           /\ \A k \in Loops \ {l} : todo'[k] = todo[k]
BY Goes, Pushes

\* A step that leaves the tables alone leaves a connection's posture.
LEMMA PostureKept ==
    ASSUME NEW c \in Conns, UNCHANGED <<fdOf, loopOf, fds, interest>>
    PROVE  \A H, E : Posture(c, H, E)' <=> Posture(c, H, E)
BY DEF Posture, Hooked, Watching, Stored

\* The places a step can be at, and what holds there.
LEMMA Reached ==
    ASSUME NEW c \in Conns, NEW t, Doing(c, t)
    PROVE  /\ t \in Places
           /\ Head(t) = "read" => t = AtRead
           /\ Head(t) = "write" => t \in {AtAnswer, AtWrite}
           /\ Head(t) = "settle" => t = AtSettle
           /\ Head(t) = "finish_read" => t = AtFinishRd
           /\ Head(t) = "finish_write" => t = AtFinishWr
           /\ Head(t) = "resume_read" => t = AtResume
           /\ Head(t) = "check_write" => t = AtCheck
           /\ Head(t) = "remove" => t \in {FromAccept, FromConnect, AtRemove}
           /\ Head(t) = "check_connect" => t = AtConnect
           /\ Head(t) = "prepare" => t = AtPrepare
           /\ Head(t) = "start_read" => t = AtStart
           /\ Head(t) = "release" => t = AtRelease
           /\ Head(t) = "on_open" => t = AtOpen
           /\ Head(t) = "on_read_complete" => t = AtRequest
           /\ Head(t) = "on_write_complete" => t \in {AtAnswered, AtWritten}
           /\ Head(t) = "on_closed" => t = AtClosed
           /\ Head(t) \notin {"unhook", "close"}
<1>1. t \in Places
  BY DEF Doing, Opening, Reading, Writing, Leaving, Ending, Places
<1> QED BY <1>1, Heads DEF Places

\* The kernel's side of a connection.
Sides == [peer : {"open", "fin", "reset"}, in : Nat, out : Nat, sent : Nat]

\* read_all in on_readable: after it, with kqueue, the edge of a stream that has ended is
\* used up, and eof_ or reset_ says so.
LEMMA ReadKeeps ==
    ASSUME Inv, NEW l \in Loops, NEW c \in Conns, Read(l, c)
    PROVE  Inv'
<1>1. TypeOK /\ TableInv /\ LifeInv(c) /\ cur[l] = c /\ Position(l, c)
  BY Positioned DEF Inv, ConnInv, Read, At
<1>2. todo[l] = AtRead
  BY <1>1, Reached DEF Position, Read, At
<1>3. ended[c] = 0 /\ Posture(c, Both, {"r"}) /\ wbuf[c] = 0
  BY <1>1, <1>2, Heads DEF Position, Doing, Opening, Reading, Writing, Leaving, Ending
<1>4. /\ \/ link[c].peer = "open" /\ flags' = flags
         \/ link[c].peer \in {"fin", "reset"} /\ \E r \in {"eof", "reset"} :
                flags' = [flags EXCEPT ![c] = @ \cup {r}]
      /\ link' = [link EXCEPT ![c].in = 0] /\ Then(l, <<>>)
      /\ UNCHANGED <<stage, fdOf, loopOf, closed, wbuf, file, interest, fds, events, batch, cur, histVars, procVars>>
  BY <1>1 DEF Position, Read
<1>5. /\ todo'[l] = AtRequest /\ todo' \in [Loops -> Seq(Steps)]
      /\ \A k \in Loops \ {l} : todo'[k] = todo[k]
  BY <1>1, <1>2, <1>4, Goes, Tails, Pushes DEF Places
<1>6. /\ flags' \in [Conns -> SUBSET {"eof", "eop", "reset"}]
      /\ \A d \in Conns \ {c} : flags'[d] = flags[d]
      /\ link[c].peer # "open" => Told(c, {"eof", "reset"})'
      /\ link[c].peer = "open" => flags'[c] = flags[c]
  <2>1. flags \in [Conns -> SUBSET {"eof", "eop", "reset"}]
    BY <1>1 DEF TypeOK
  <2>2. CASE link[c].peer = "open" /\ flags' = flags
    BY <2>1, <2>2
  <2>3. ASSUME link[c].peer # "open", NEW r \in {"eof", "reset"},
               flags' = [flags EXCEPT ![c] = @ \cup {r}]
        PROVE  <1>6!1 /\ <1>6!2 /\ Told(c, {"eof", "reset"})'
    <3>1. flags[c] \cup {r} \in SUBSET {"eof", "eop", "reset"}
      BY <2>1
    <3> QED BY <2>1, <2>3, <3>1 DEF Told
  <2> QED BY <1>4, <2>2, <2>3
<1>7. /\ link' \in [Conns -> Sides] /\ \A d \in Conns \ {c} : link'[d] = link[d]
      /\ link'[c].in = 0 /\ link'[c].peer = link[c].peer
  <2>1. link \in [Conns -> Sides] /\ link[c] \in Sides
    BY <1>1 DEF TypeOK, Sides
  <2>2. [link[c] EXCEPT !.in = 0] \in Sides
    BY <2>1 DEF Sides
  <2> QED BY <1>4, <2>1, <2>2 DEF Sides
<1>8. TypeOK'
  BY <1>1, <1>4, <1>5, <1>6, <1>7 DEF TypeOK, Sides, histVars, procVars
<1>9. Confined(l, c)
  BY <1>1, <1>4, <1>5, <1>6, <1>7 DEF Confined, LifeInv, Position, TableInv, HotInv, RecordInv, Stored,
     histVars, procVars
<1>10. Busy(c)'
  <2>1. Posture(c, Both, {"r"})'
    BY <1>3, <1>4, PostureKept
  <2>2. Unseen(c, "r")' => Told(c, {"eof", "reset"})'
    BY <1>6, <1>7 DEF Unseen, Ready
  <2>3. Reading(c, AtRequest)'
    BY <1>3, <1>4, <2>1, <2>2 DEF Reading
  <2> QED BY <1>1, <1>3, <1>4, <1>5, <2>3 DEF Busy, Doing, Position, histVars
<1> QED BY <1>1, <1>8, <1>9, <1>10, HandlerKeeps

\* write_all, in async_write and in on_writable: it stops with the buffer empty, with the
\* kernel's buffer full, so that a writable edge is still to come, or with the error noted.
LEMMA WriteKeeps ==
    ASSUME Inv, NEW l \in Loops, NEW c \in Conns, Write(l, c)
    PROVE  Inv'
<1>1. TypeOK /\ TableInv /\ LifeInv(c) /\ cur[l] = c /\ Position(l, c)
  BY Positioned DEF Inv, ConnInv, Write, At
<1>2. todo[l] \in {AtAnswer, AtWrite}
  BY <1>1, Reached DEF Position, Write, At
<1>3. /\ ended[c] = 0
      /\ todo[l] = AtAnswer =>
            Posture(c, Both, {"r"}) /\ (Unseen(c, "r") => Told(c, {"eof", "reset"}))
      /\ todo[l] = AtWrite => Posture(c, Both, {"w"})
  <2>1. CASE todo[l] = AtAnswer
    <3>1. ended[c] = 0 /\ Reading(c, AtAnswer)
      BY <1>1, <2>1, Heads, Tails DEF Position, Doing, Opening, Writing, Leaving, Ending
    <3> QED BY <2>1, <3>1, Heads, Tails DEF Reading
  <2>2. CASE todo[l] = AtWrite
    <3>1. ended[c] = 0 /\ Writing(c, AtWrite)
      BY <1>1, <2>2, Heads, Tails DEF Position, Doing, Opening, Reading, Leaving, Ending
    <3> QED BY <2>2, <3>1, Heads, Tails DEF Writing
  <2> QED BY <1>2, <2>1, <2>2
<1>4. UNCHANGED <<stage, fdOf, loopOf, closed, file, interest, fds, events, batch, cur, histVars, procVars>>
  BY <1>1 DEF Position, Write
<1>5. Posture(c, Both, {"r"})' <=> Posture(c, Both, {"r"})
  BY <1>4, PostureKept
<1>6. Posture(c, Both, {"w"})' <=> Posture(c, Both, {"w"})
  BY <1>4, PostureKept
<1>7. link \in [Conns -> Sides] /\ link[c] \in Sides /\ wbuf \in [Conns -> Nat] /\ Capacity \in Nat
      /\ flags \in [Conns -> SUBSET {"eof", "eop", "reset"}] /\ todo \in [Loops -> Seq(Steps)]
  BY <1>1, SizesAssumption DEF TypeOK, Sides
<1>8. ASSUME /\ flags' \in [Conns -> SUBSET {"eof", "eop", "reset"}]
             /\ wbuf' \in [Conns -> Nat] /\ link' \in [Conns -> Sides]
             /\ todo' \in [Loops -> Seq(Steps)]
             /\ \A k \in Loops \ {l} : todo'[k] = todo[k]
             /\ \A d \in Conns \ {c} : flags'[d] = flags[d] /\ wbuf'[d] = wbuf[d] /\ link'[d] = link[d]
             /\ flags'[c] # {} => link'[c].peer # "open"
             /\ Busy(c)'
      PROVE  Inv'
  <2>1. TypeOK'
    BY <1>1, <1>4, <1>8 DEF TypeOK, Sides, histVars, procVars
  <2>2. Confined(l, c)
    BY <1>1, <1>4, <1>8 DEF Confined, LifeInv, Position, TableInv, HotInv, RecordInv, Stored,
       histVars, procVars
  <2> QED BY <1>1, <1>8, <2>1, <2>2, HandlerKeeps
<1>9. CASE /\ wbuf[c] > 0 /\ link[c].peer # "reset" /\ link[c].out < Capacity
           /\ wbuf' = [wbuf EXCEPT ![c] = @ - 1]
           /\ link' = [link EXCEPT ![c].out = @ + 1]
           /\ UNCHANGED <<flags, todo>>
  <2>1. wbuf[c] - 1 \in Nat
    BY <1>7, <1>9
  <2>2. [link[c] EXCEPT !.out = @ + 1] \in Sides
    <3>1. link[c] \in Sides
      BY <1>7
    <3>2. link[c].out + 1 \in Nat
      BY <3>1 DEF Sides
    <3> QED BY <3>1, <3>2 DEF Sides
  <2>3. /\ link' \in [Conns -> Sides] /\ wbuf' \in [Conns -> Nat]
        /\ \A d \in Conns \ {c} : wbuf'[d] = wbuf[d] /\ link'[d] = link[d]
        /\ link'[c].peer = link[c].peer /\ link'[c].in = link[c].in
    BY <1>7, <1>9, <2>1, <2>2 DEF Sides
  <2>4. flags'[c] # {} => link'[c].peer # "open"
    BY <1>1, <1>9, <2>3 DEF LifeInv
  <2>5. CASE todo[l] = AtAnswer
    <3>1. (Unseen(c, "r")' <=> Unseen(c, "r")) /\ (Told(c, {"eof", "reset"})' <=> Told(c, {"eof", "reset"}))
      BY <1>4, <1>9, <2>3 DEF Unseen, Told, Ready, procVars
    <3>2. Reading(c, AtAnswer)'
      BY <1>3, <1>5, <2>5, <3>1, Heads DEF Reading
    <3>3. Busy(c)'
      BY <1>1, <1>3, <1>4, <1>9, <2>5, <3>2 DEF Busy, Doing, Position, histVars
    <3> QED BY <1>7, <1>8, <1>9, <2>3, <2>4, <3>3
  <2>6. CASE todo[l] = AtWrite
    <3>1. Writing(c, AtWrite)'
      BY <1>3, <1>6, <2>6 DEF Writing
    <3>2. Busy(c)'
      BY <1>1, <1>3, <1>4, <1>9, <2>6, <3>1 DEF Busy, Doing, Position, histVars
    <3> QED BY <1>7, <1>8, <1>9, <2>3, <2>4, <3>2
  <2> QED BY <1>2, <2>5, <2>6
<1>10. ASSUME Then(l, <<>>), UNCHANGED <<wbuf, link>>,
              /\ flags' \in [Conns -> SUBSET {"eof", "eop", "reset"}]
              /\ \A d \in Conns \ {c} : flags'[d] = flags[d]
              /\ flags[c] \subseteq flags'[c]
              /\ flags'[c] # {} => link[c].peer # "open"
              /\ wbuf[c] > 0 /\ Ready(c, "w") => Told(c, {"eop", "reset"})'
       PROVE  Inv'
  <2>1. CASE todo[l] = AtAnswer
    <3>1. /\ todo'[l] = AtSettle /\ todo' \in [Loops -> Seq(Steps)]
          /\ \A k \in Loops \ {l} : todo'[k] = todo[k]
      <4>1. AtSettle \in Places /\ Tail(todo[l]) = AtSettle
        BY <2>1, Tails DEF Places
      <4> QED BY <1>1, <1>10, <4>1, GoesOn
    <3>2. (Unseen(c, "r")' <=> Unseen(c, "r")) /\ (Told(c, {"eof", "reset"}) => Told(c, {"eof", "reset"})')
      BY <1>4, <1>10 DEF Unseen, Told, Ready, procVars
    <3>3. Reading(c, AtSettle)'
      BY <1>3, <1>5, <2>1, <3>2, Heads DEF Reading
    <3>4. Busy(c)'
      BY <1>1, <1>3, <1>4, <3>1, <3>3 DEF Busy, Doing, Position, histVars
    <3> QED BY <1>7, <1>8, <1>10, <3>1, <3>4
  <2>2. CASE todo[l] = AtWrite
    <3>1. /\ todo'[l] = AtFinishWr /\ todo' \in [Loops -> Seq(Steps)]
          /\ \A k \in Loops \ {l} : todo'[k] = todo[k]
      <4>1. AtFinishWr \in Places /\ Tail(todo[l]) = AtFinishWr
        BY <2>2, Tails DEF Places
      <4> QED BY <1>1, <1>10, <4>1, GoesOn
    <3>2. wbuf'[c] > 0 /\ Unseen(c, "w")' => Told(c, {"eop", "reset"})'
      BY <1>4, <1>10 DEF Unseen, Ready, procVars
    <3>3. Writing(c, AtFinishWr)'
      BY <1>3, <1>6, <2>2, <3>2 DEF Writing
    <3>4. Busy(c)'
      BY <1>1, <1>3, <1>4, <3>1, <3>3 DEF Busy, Doing, Position, histVars
    <3> QED BY <1>7, <1>8, <1>10, <3>1, <3>4
  <2> QED BY <1>2, <2>1, <2>2
<1>11. ASSUME link[c].peer = "reset", NEW r \in {"eop", "reset"},
              flags' = [flags EXCEPT ![c] = @ \cup {r}], Then(l, <<>>), UNCHANGED <<wbuf, link>>
       PROVE  Inv'
  <2>1. flags[c] \cup {r} \in SUBSET {"eof", "eop", "reset"}
    BY <1>7
  <2>2. /\ flags' \in [Conns -> SUBSET {"eof", "eop", "reset"}]
        /\ \A d \in Conns \ {c} : flags'[d] = flags[d]
        /\ flags'[c] = flags[c] \cup {r}
    BY <1>7, <1>11, <2>1
  <2> QED BY <1>10, <1>11, <2>2 DEF Told
<1>12. CASE /\ wbuf[c] = 0 \/ (link[c].peer # "reset" /\ link[c].out = Capacity)
            /\ Then(l, <<>>)
            /\ UNCHANGED <<wbuf, flags, link>>
  <2>1. wbuf[c] > 0 => ~Ready(c, "w")
    BY <1>7, <1>12 DEF Ready
  <2>2. flags[c] # {} => link[c].peer # "open"
    BY <1>1 DEF LifeInv
  <2> QED BY <1>7, <1>10, <1>12, <2>1, <2>2
<1> QED BY <1>1, <1>9, <1>11, <1>12 DEF Position, Write

\* A step that changes nothing the kernel or the loop keeps of the connection.
LEMMA QuietKeeps ==
    ASSUME Inv, NEW l \in Loops, NEW c \in Conns, cur[l] = c,
           UNCHANGED <<stage, fdOf, loopOf, closed, flags, kernelVars, fds, events, batch, cur, procVars>>,
           wbuf' \in [Conns -> Nat], msgs' \in [Conns -> Nat], ended' \in [Conns -> Nat],
           todo' \in [Loops -> Seq(Steps)],
           \A d \in Conns \ {c} : wbuf'[d] = wbuf[d] /\ ended'[d] = ended[d],
           \A k \in Loops \ {l} : todo'[k] = todo[k],
           Busy(c)'
    PROVE  Inv'
<1>1. TypeOK /\ TableInv /\ LifeInv(c) /\ Position(l, c)
  BY Positioned DEF Inv, ConnInv
<1>2. TypeOK'
  BY <1>1 DEF TypeOK, kernelVars, procVars
<1>3. Confined(l, c)
  BY <1>1 DEF Confined, LifeInv, Position, TableInv, HotInv, RecordInv, Stored, kernelVars, procVars
<1> QED BY <1>2, <1>3, HandlerKeeps

\* What the callbacks of an answering server may do.
LEMMA MayDo ==
    ASSUME Answering, NEW c \in Conns, NEW step \in Callbacks, NEW act \in UserMay(c, step)
    PROVE  act = "idle" \/ (act = "write" /\ step = "on_read_complete")
<1> DEFINE policy == [on_open |-> OnOpen, on_read_complete |-> OnRead,
                      on_write_complete |-> OnWritten, on_closed |-> {"idle"}]
<1>1. act \in policy[step] \cup {"idle"}
  BY DEF UserMay
<1>2. step \in {"on_open", "on_read_complete", "on_write_complete", "on_closed"}
  BY DEF Callbacks
<1>3. /\ policy["on_open"] \subseteq {"idle"} /\ policy["on_write_complete"] \subseteq {"idle"}
      /\ policy["on_closed"] \subseteq {"idle"}
  BY DEF Answering
<1>4. step # "on_read_complete" => policy[step] \subseteq {"idle"}
  <2> HIDE DEF policy
  <2> QED BY <1>2, <1>3
<1>5. policy["on_read_complete"] \subseteq {"idle", "write"}
  BY DEF Answering
<1> QED BY <1>1, <1>4, <1>5

\* A user callback: after on_read_complete an answer may be under way, after on_closed
\* only the removal is left.
LEMMA CallbackKeeps ==
    ASSUME Answering, Inv, NEW l \in Loops, NEW c \in Conns, NEW step \in Callbacks,
           Callback(l, c, step)
    PROVE  Inv'
<1>1. TypeOK /\ cur[l] = c /\ Position(l, c)
  BY Positioned DEF Inv, Callback, At
<1>2. /\ UNCHANGED <<stage, fdOf, loopOf, closed, flags, kernelVars, fds, events, batch, cur, procVars>>
      /\ ended' = IF step = "on_closed" THEN [ended EXCEPT ![c] = @ + 1] ELSE ended
  BY DEF Callback
<1>3. \A H, E : Posture(c, H, E)' <=> Posture(c, H, E)
  BY <1>2, PostureKept DEF kernelVars
<1>4. /\ \A e : Unseen(c, e)' <=> Unseen(c, e)
      /\ \A F : Told(c, F)' <=> Told(c, F)
      /\ link' = link /\ loopOf'[c] = l
  BY <1>1, <1>2 DEF Unseen, Told, Ready, Position, kernelVars, procVars
<1>5. /\ wbuf \in [Conns -> Nat] /\ msgs \in [Conns -> Nat] /\ ended \in [Conns -> Nat]
      /\ todo \in [Loops -> Seq(Steps)] /\ MsgLen \in Nat
  BY <1>1, SizesAssumption DEF TypeOK
<1>6. PICK act \in UserMay(c, step) :
        /\ wbuf' = IF act = "write" THEN [wbuf EXCEPT ![c] = @ + MsgLen] ELSE wbuf
        /\ msgs' = IF act = "write" THEN [msgs EXCEPT ![c] = @ + 1] ELSE msgs
        /\ Then(l, CASE act = "idle"  -> <<>>
                     [] act = "write" -> AsyncWrite
                     [] act = "close" -> SafelyClose)
  BY DEF Callback
<1>7. CASE act = "idle"
  <2>1. wbuf' = wbuf /\ msgs' = msgs /\ Then(l, <<>>)
    BY <1>6, <1>7
  <2>2. ended' \in [Conns -> Nat] /\ \A d \in Conns \ {c} : ended'[d] = ended[d]
    BY <1>2, <1>5
  <2>3. Waits(c)' = Waits(c)
    BY <2>1 DEF Waits
  <2>4. ASSUME NEW p \in Places, Tail(todo[l]) = p, Doing(c, p)'
        PROVE  Inv'
    <3>1. /\ todo'[l] = p /\ todo' \in [Loops -> Seq(Steps)]
          /\ \A k \in Loops \ {l} : todo'[k] = todo[k]
      BY <1>1, <2>1, <2>4, GoesOn
    <3>2. Busy(c)'
      BY <1>4, <2>4, <3>1 DEF Busy
    <3> QED BY <1>1, <1>2, <1>5, <2>1, <2>2, <3>1, <3>2, QuietKeeps
  <2>5. CASE step = "on_open"
    <3>1. todo[l] = AtOpen
      BY <1>1, <2>5, Reached DEF Position, Callback, At
    <3>2. ended[c] = 0 /\ Opening(c, AtOpen)
      BY <1>1, <3>1, Heads DEF Position, Doing, Reading, Writing, Leaving, Ending
    <3>3. ended'[c] = 0 /\ Opening(c, AtStart)'
      BY <1>2, <1>3, <2>1, <2>5, <3>2, Heads DEF Opening
    <3> QED BY <2>4, <3>1, <3>3, Tails DEF Doing, Places
  <2>6. CASE step = "on_read_complete"
    <3>1. todo[l] = AtRequest
      BY <1>1, <2>6, Reached DEF Position, Callback, At
    <3>2. ended[c] = 0 /\ Reading(c, AtRequest)
      BY <1>1, <3>1, Heads DEF Position, Doing, Opening, Writing, Leaving, Ending
    <3>3. Posture(c, Both, {"r"}) /\ wbuf[c] = 0 /\ (Unseen(c, "r") => Told(c, {"eof", "reset"}))
      BY <3>2, Heads DEF Reading
    <3>4. Waits(c)' = "r"
      BY <2>1, <3>3 DEF Waits
    <3>5. Reading(c, AtFinishRd)'
      BY <1>3, <1>4, <3>3, <3>4 DEF Reading
    <3>6. ended'[c] = 0
      BY <1>2, <2>6, <3>2
    <3> QED BY <2>4, <3>1, <3>5, <3>6, Tails DEF Doing, Places
  <2>7. CASE step = "on_write_complete"
    <3>1. todo[l] \in {AtAnswered, AtWritten} /\ ended' = ended
      BY <1>1, <1>2, <2>7, Reached DEF Position, Callback, At
    <3>2. CASE todo[l] = AtAnswered
      <4>1. ended[c] = 0 /\ Reading(c, AtAnswered)
        BY <1>1, <3>2, Heads, Tails DEF Position, Doing, Opening, Writing, Leaving, Ending
      <4>2. Posture(c, Both, {"r"}) /\ wbuf[c] = 0 /\ (Unseen(c, "r") => Told(c, {"eof", "reset"}))
        BY <4>1, Heads DEF Reading
      <4>3. Waits(c)' = "r"
        BY <2>1, <4>2 DEF Waits
      <4>4. Reading(c, AtFinishRd)'
        BY <1>3, <1>4, <4>2, <4>3 DEF Reading
      <4> QED BY <2>4, <3>1, <3>2, <4>1, <4>4, Tails DEF Doing, Places
    <3>3. CASE todo[l] = AtWritten
      <4>1. ended[c] = 0 /\ Writing(c, AtWritten)
        BY <1>1, <3>3, Heads, Tails DEF Position, Doing, Opening, Reading, Leaving, Ending
      <4>2. Writing(c, AtResume)'
        BY <1>3, <1>4, <2>1, <4>1, Heads DEF Writing
      <4> QED BY <2>4, <3>1, <3>3, <4>1, <4>2, Tails DEF Doing, Places
    <3> QED BY <3>1, <3>2, <3>3
  <2>8. CASE step = "on_closed"
    <3>1. todo[l] = AtClosed
      BY <1>1, <2>8, Reached DEF Position, Callback, At
    <3>2. ended[c] = 0 /\ Leaving(c, AtClosed)
      BY <1>1, <3>1, Heads DEF Position, Doing, Opening, Reading, Writing, Ending
    <3>3. Ending(c, AtRemove)'
      BY <1>3, <1>4, <2>3, <3>2, Heads DEF Leaving, Ending
    <3>4. ended'[c] = 1
      BY <1>2, <1>5, <2>8, <3>2
    <3> QED BY <2>4, <3>1, <3>3, <3>4, Tails DEF Doing, Places
  <2> QED BY <2>5, <2>6, <2>7, <2>8 DEF Callbacks
<1>8. CASE act = "write" /\ step = "on_read_complete"
  <2>1. /\ wbuf' = [wbuf EXCEPT ![c] = @ + MsgLen] /\ msgs' = [msgs EXCEPT ![c] = @ + 1]
        /\ Then(l, AsyncWrite) /\ ended' = ended
    BY <1>2, <1>6, <1>8
  <2>2. /\ wbuf' \in [Conns -> Nat] /\ \A d \in Conns \ {c} : wbuf'[d] = wbuf[d]
    BY <1>5, <2>1
  <2>3. msgs' \in [Conns -> Nat]
    BY <1>5, <2>1
  <2>4. todo[l] = AtRequest
    BY <1>1, <1>8, Reached DEF Position, Callback, At
  <2>5. ended[c] = 0 /\ Reading(c, AtRequest)
    BY <1>1, <2>4, Heads DEF Position, Doing, Opening, Writing, Leaving, Ending
  <2>6. AtAnswer \in Places /\ AsyncWrite \o Tail(todo[l]) = AtAnswer
    BY <2>4, Tails, Pushes DEF Places
  <2>7. /\ todo'[l] = AtAnswer /\ todo' \in [Loops -> Seq(Steps)]
        /\ \A k \in Loops \ {l} : todo'[k] = todo[k]
    BY <1>1, <2>1, <2>6, Goes
  <2>8. Reading(c, AtAnswer)'
    BY <1>3, <1>4, <2>5, Heads DEF Reading
  <2>9. Busy(c)'
    BY <1>4, <2>1, <2>5, <2>7, <2>8 DEF Busy, Doing
  <2>10. ended' \in [Conns -> Nat] /\ \A d \in Conns \ {c} : wbuf'[d] = wbuf[d] /\ ended'[d] = ended[d]
    BY <1>5, <2>1, <2>2
  <2> QED BY <1>1, <1>2, <2>2, <2>3, <2>7, <2>9, <2>10, QuietKeeps
<1> QED BY <1>7, <1>8, MayDo

\* The end of on_readable: a stream that has ended goes on to on_closed and fd_remove, and any
\* other is left waiting for an event that will be reported.
LEMMA FinishReadKeeps ==
    ASSUME Inv, NEW l \in Loops, NEW c \in Conns, FinishRead(l, c)
    PROVE  Inv'
<1>1. TypeOK /\ LifeInv(c) /\ cur[l] = c /\ Position(l, c)
  BY Positioned DEF Inv, ConnInv, FinishRead, At
<1>2. /\ UNCHANGED <<sockVars, kernelVars, fds, events, batch, cur, histVars, procVars>>
      /\ Then(l, IF flags[c] \cap {"eof", "reset"} # {} THEN <<"on_closed", "remove">> ELSE <<>>)
  BY DEF FinishRead
<1>3. /\ \A H, E : Posture(c, H, E)' <=> Posture(c, H, E)
      /\ \A e : Unseen(c, e)' <=> Unseen(c, e)
      /\ Waits(c)' = Waits(c) /\ link' = link /\ loopOf'[c] = l /\ wbuf' = wbuf
      /\ msgs' = msgs /\ ended' = ended
  BY <1>1, <1>2, PostureKept DEF Unseen, Waits, Ready, Position, sockVars, kernelVars, histVars, procVars
<1>4. todo[l] = AtFinishRd
  BY <1>1, Reached DEF Position, FinishRead, At
<1>5. /\ ended[c] = 0 /\ Posture(c, Both, {Waits(c)})
      /\ Unseen(c, Waits(c)) => Told(c, {"eof", "reset"})
  BY <1>1, <1>4, Heads DEF Position, Doing, Opening, Reading, Writing, Leaving, Ending
<1>6. ASSUME NEW p \in Places, NEW s, Then(l, s), s \o Tail(todo[l]) = p, Leaving(c, p)'
      PROVE  Inv'
  <2>1. /\ todo'[l] = p /\ todo' \in [Loops -> Seq(Steps)]
        /\ \A k \in Loops \ {l} : todo'[k] = todo[k]
    BY <1>1, <1>6, Goes
  <2>2. Busy(c)'
    BY <1>3, <1>5, <1>6, <2>1 DEF Busy, Doing
  <2>3. wbuf' \in [Conns -> Nat] /\ msgs' \in [Conns -> Nat] /\ ended' \in [Conns -> Nat]
    BY <1>1, <1>3 DEF TypeOK
  <2> QED BY <1>1, <1>2, <1>3, <2>1, <2>2, <2>3, QuietKeeps DEF sockVars
<1>7. CASE Told(c, {"eof", "reset"})
  <2>1. link[c].peer # "open"
    BY <1>1, <1>7 DEF LifeInv, Told
  <2>2. Leaving(c, AtClosed)'
    BY <1>3, <1>5, <2>1 DEF Leaving
  <2>3. AtClosed \in Places /\ <<"on_closed", "remove">> \o Tail(todo[l]) = AtClosed
    BY <1>4, Tails, Pushes DEF Places
  <2> QED BY <1>2, <1>6, <1>7, <2>2, <2>3 DEF Told
<1>8. CASE ~Told(c, {"eof", "reset"})
  <2>1. Leaving(c, AtRelease)'
    BY <1>3, <1>5, <1>8 DEF Leaving
  <2>2. AtRelease \in Places /\ <<>> \o Tail(todo[l]) = AtRelease
    BY <1>4, Tails, Pushes DEF Places
  <2> QED BY <1>2, <1>6, <1>8, <2>1, <2>2 DEF Told
<1> QED BY <1>7, <1>8


\* The end of on_writable, likewise.
LEMMA CheckWriteKeeps ==
    ASSUME Inv, NEW l \in Loops, NEW c \in Conns, CheckWrite(l, c)
    PROVE  Inv'
<1>1. TypeOK /\ LifeInv(c) /\ cur[l] = c /\ Position(l, c)
  BY Positioned DEF Inv, ConnInv, CheckWrite, At
<1>2. /\ UNCHANGED <<sockVars, kernelVars, fds, events, batch, cur, histVars, procVars>>
      /\ Then(l, IF flags[c] \cap {"eop", "reset"} # {} THEN <<"on_closed", "remove">> ELSE <<>>)
  BY DEF CheckWrite
<1>3. /\ \A H, E : Posture(c, H, E)' <=> Posture(c, H, E)
      /\ \A e : Unseen(c, e)' <=> Unseen(c, e)
      /\ Waits(c)' = Waits(c) /\ link' = link /\ loopOf'[c] = l /\ wbuf' = wbuf
      /\ msgs' = msgs /\ ended' = ended
  BY <1>1, <1>2, PostureKept DEF Unseen, Waits, Ready, Position, sockVars, kernelVars, histVars, procVars
<1>4. todo[l] = AtCheck
  BY <1>1, Reached DEF Position, CheckWrite, At
<1>5. /\ ended[c] = 0 /\ Posture(c, Both, {Waits(c)})
      /\ Unseen(c, Waits(c)) => Told(c, {"eop", "reset"})
  BY <1>1, <1>4, Heads DEF Position, Doing, Opening, Reading, Writing, Leaving, Ending
<1>6. ASSUME NEW p \in Places, NEW s, Then(l, s), s \o Tail(todo[l]) = p, Leaving(c, p)'
      PROVE  Inv'
  <2>1. /\ todo'[l] = p /\ todo' \in [Loops -> Seq(Steps)]
        /\ \A k \in Loops \ {l} : todo'[k] = todo[k]
    BY <1>1, <1>6, Goes
  <2>2. Busy(c)'
    BY <1>3, <1>5, <1>6, <2>1 DEF Busy, Doing
  <2>3. wbuf' \in [Conns -> Nat] /\ msgs' \in [Conns -> Nat] /\ ended' \in [Conns -> Nat]
    BY <1>1, <1>3 DEF TypeOK
  <2> QED BY <1>1, <1>2, <1>3, <2>1, <2>2, <2>3, QuietKeeps DEF sockVars
<1>7. CASE Told(c, {"eop", "reset"})
  <2>1. link[c].peer # "open"
    BY <1>1, <1>7 DEF LifeInv, Told
  <2>2. Leaving(c, AtClosed)'
    BY <1>3, <1>5, <2>1 DEF Leaving
  <2>3. AtClosed \in Places /\ <<"on_closed", "remove">> \o Tail(todo[l]) = AtClosed
    BY <1>4, Tails, Pushes DEF Places
  <2> QED BY <1>2, <1>6, <1>7, <2>2, <2>3 DEF Told
<1>8. CASE ~Told(c, {"eop", "reset"})
  <2>1. Leaving(c, AtRelease)'
    BY <1>3, <1>5, <1>8 DEF Leaving
  <2>2. AtRelease \in Places /\ <<>> \o Tail(todo[l]) = AtRelease
    BY <1>4, Tails, Pushes DEF Places
  <2> QED BY <1>2, <1>6, <1>8, <2>1, <2>2 DEF Told
<1> QED BY <1>7, <1>8


\* The check of the connect: a failed one leaves only the release of a socket that is
\* neither stored nor watched.
LEMMA CheckConnectKeeps ==
    ASSUME Inv, NEW l \in Loops, NEW c \in Conns, CheckConnect(l, c)
    PROVE  Inv'
<1>1. TypeOK /\ cur[l] = c /\ Position(l, c)
  BY Positioned DEF Inv, CheckConnect, At
<1>2. /\ UNCHANGED <<sockVars, kernelVars, fds, events, batch, cur, histVars, procVars>>
      /\ Then(l, <<>>) \/ todo' = [todo EXCEPT ![l] = AtRelease]
  BY DEF CheckConnect, AtRelease
<1>3. /\ \A H, E : Posture(c, H, E)' <=> Posture(c, H, E)
      /\ loopOf'[c] = l /\ wbuf' = wbuf /\ msgs' = msgs /\ ended' = ended
  BY <1>1, <1>2, PostureKept DEF Position, sockVars, kernelVars, histVars
<1>4. todo[l] = AtConnect
  BY <1>1, Reached DEF Position, CheckConnect, At
<1>5. ended[c] = 0 /\ Posture(c, {}, {}) /\ wbuf[c] = 0
  BY <1>1, <1>4, Heads DEF Position, Doing, Opening, Reading, Writing, Leaving, Ending
<1>6. ASSUME todo' \in [Loops -> Seq(Steps)], \A k \in Loops \ {l} : todo'[k] = todo[k],
             \/ Doing(c, AtPrepare)' /\ todo'[l] = AtPrepare
             \/ Doing(c, AtRelease)' /\ todo'[l] = AtRelease
      PROVE  Inv'
  <2>1. Busy(c)'
    BY <1>3, <1>6 DEF Busy
  <2>2. wbuf' \in [Conns -> Nat] /\ msgs' \in [Conns -> Nat] /\ ended' \in [Conns -> Nat]
    BY <1>1, <1>3 DEF TypeOK
  <2> QED BY <1>1, <1>2, <1>3, <1>6, <2>1, <2>2, QuietKeeps DEF sockVars
<1>7. CASE Then(l, <<>>)
  <2>1. AtPrepare \in Places /\ Tail(todo[l]) = AtPrepare
    BY <1>4, Tails DEF Places
  <2>2. /\ todo'[l] = AtPrepare /\ todo' \in [Loops -> Seq(Steps)]
        /\ \A k \in Loops \ {l} : todo'[k] = todo[k]
    BY <1>1, <1>7, <2>1, GoesOn
  <2>3. Doing(c, AtPrepare)'
    BY <1>3, <1>5 DEF Doing, Opening
  <2> QED BY <1>6, <2>2, <2>3
<1>8. CASE todo' = [todo EXCEPT ![l] = AtRelease]
  <2>1. todo \in [Loops -> Seq(Steps)] /\ AtRelease \in Seq(Steps)
    BY <1>1, PlacesType DEF TypeOK, Places
  <2>2. Doing(c, AtRelease)'
    BY <1>3, <1>5 DEF Doing, Leaving
  <2>3. /\ todo'[l] = AtRelease /\ todo' \in [Loops -> Seq(Steps)]
        /\ \A k \in Loops \ {l} : todo'[k] = todo[k]
    BY <1>8, <2>1
  <2> QED BY <1>6, <2>2, <2>3
<1> QED BY <1>2, <1>7, <1>8

\* A step that asks the kernel for other events, and may store or erase callbacks
\* of its own connection.
LEMMA RewatchKeeps ==
    ASSUME Inv, NEW l \in Loops, NEW c \in Conns, cur[l] = c,
           NEW E \in SUBSET {"r", "w"}, Rewatched(l, c, E),
           UNCHANGED <<sockVars, file, link, batch, cur, histVars, procVars>>,
           fds' \in [Loops -> SUBSET [fd : Fds, conn : Conns, cb : Handlers]],
           \A d \in Conns \ {c}, k \in Loops, f \in Fds, h \in Handlers :
                Stored(d, k, f, h)' <=> Stored(d, k, f, h),
           todo' \in [Loops -> Seq(Steps)], \A k \in Loops \ {l} : todo'[k] = todo[k],
           Busy(c)'
    PROVE  Inv'
<1>1. TypeOK /\ LifeInv(c) /\ Position(l, c)
  BY Positioned DEF Inv, ConnInv
<1>2. TypeOK'
  BY <1>1 DEF TypeOK, Rewatched, sockVars, histVars, procVars
<1>3. Confined(l, c)
  BY <1>1 DEF Confined, LifeInv, Rewatched, sockVars, histVars, procVars
<1> QED BY <1>2, <1>3, HandlerKeeps

\* It leaves the connection watching what was asked for, with no edge missed.
LEMMA Rewatching ==
    ASSUME NEW l \in Loops, NEW c \in Conns, l = loopOf[c], fdOf[c] \in Fds,
           NEW E0, NEW E, Watching(c, E0), Rewatched(l, c, E), UNCHANGED <<fdOf, loopOf, link, backend>>
    PROVE  Watching(c, E)' /\ \A e \in E : ~Unseen(c, e)'
<1>1. l = loopOf[c] /\ fdOf[c] \in Fds
  OBVIOUS
<1>2. Watching(c, E)'
  <2> SUFFICES ASSUME NEW k \in Loops
               PROVE  interest'[k][fdOf'[c]].on = IF k = loopOf'[c] THEN E ELSE {}
    BY DEF Watching
  <2>1. CASE k = l
    BY <1>1, <2>1 DEF Rewatched
  <2>2. CASE k # l
    <3>1. interest'[k][fdOf[c]] = interest[k][fdOf[c]]
      BY <1>1, <2>2 DEF Rewatched
    <3> QED BY <1>1, <2>2, <3>1 DEF Watching
  <2> QED BY <2>1, <2>2
<1>3. ASSUME NEW e \in E PROVE ~Unseen(c, e)'
  BY <1>1 DEF Rewatched, Unseen, Ready
<1> QED BY <1>2, <1>3

\* The end of async_write: fd_remove does not fail, readable being watched, and the writable
\* interest replaces it exactly when output is left.
LEMMA SettleKeeps ==
    ASSUME Inv, NEW l \in Loops, NEW c \in Conns, Settle(l, c)
    PROVE  Inv'
<1>1. TypeOK /\ TableInv /\ cur[l] = c /\ Position(l, c)
  BY Positioned DEF Inv, Settle, At
<1>2. todo[l] = AtSettle
  BY <1>1, Reached DEF Position, Settle, At
<1>3. /\ ended[c] = 0 /\ Posture(c, Both, {"r"}) /\ (Unseen(c, "r") => Told(c, {"eof", "reset"}))
  BY <1>1, <1>2, Heads DEF Position, Doing, Opening, Reading, Writing, Leaving, Ending
<1>4. /\ fdOf[c] \in Fds /\ Owns(c) /\ loopOf[c] = l /\ Watched(l, c) = {"r"}
  BY <1>1, <1>3 DEF Position, Posture, Watching, Watched
<1>5. CanDel(l, c) /\ Watched(l, c) \subseteq Removed(l, c)
  BY <1>1, <1>4, RemovedAll
<1>6. wbuf \in [Conns -> Nat] /\ UNCHANGED <<sockVars, file, link, fds, batch, cur, histVars, procVars>>
  BY <1>1, <1>5 DEF Settle, TypeOK
<1>7. CASE wbuf[c] = 0
  <2>1. UNCHANGED <<interest, events>> /\ Then(l, <<"on_write_complete">>)
    BY <1>7 DEF Settle
  <2>2. AtAnswered \in Places /\ <<"on_write_complete">> \o Tail(todo[l]) = AtAnswered
    BY <1>2, Tails, Pushes DEF Places
  <2>3. /\ todo'[l] = AtAnswered /\ todo' \in [Loops -> Seq(Steps)]
        /\ \A k \in Loops \ {l} : todo'[k] = todo[k]
    BY <1>1, <2>1, <2>2, Goes
  <2>4. Posture(c, Both, {"r"})'
    BY <1>3, <1>6, <2>1, PostureKept DEF sockVars
  <2>5. Unseen(c, "r")' => Told(c, {"eof", "reset"})'
    BY <1>3, <1>6, <2>1 DEF Unseen, Told, Ready, sockVars, procVars
  <2>6. Reading(c, AtAnswered)'
    BY <1>6, <1>7, <2>4, <2>5 DEF Reading, sockVars
  <2>7. Busy(c)'
    BY <1>3, <1>4, <1>6, <2>3, <2>6 DEF Busy, Doing, sockVars, histVars
  <2>8. wbuf' \in [Conns -> Nat] /\ msgs' \in [Conns -> Nat] /\ ended' \in [Conns -> Nat]
    BY <1>1, <1>6 DEF TypeOK, sockVars, histVars
  <2> QED BY <1>1, <1>6, <2>1, <2>3, <2>7, <2>8, QuietKeeps DEF sockVars, kernelVars, histVars
<1>8. CASE wbuf[c] > 0
  <2>1. Watch(l, c, Removed(l, c), {"w"}) /\ Then(l, <<>>)
    BY <1>5, <1>6, <1>8 DEF Settle
  <2>2. Rewatched(l, c, {"w"})
    BY <1>1, <1>4, <1>5, <2>1, WatchAll
  <2>3. AtFinishRd \in Places /\ Tail(todo[l]) = AtFinishRd
    BY <1>2, Tails DEF Places
  <2>4. /\ todo'[l] = AtFinishRd /\ todo' \in [Loops -> Seq(Steps)]
        /\ \A k \in Loops \ {l} : todo'[k] = todo[k]
    BY <1>1, <2>1, <2>3, GoesOn
  <2>5. Watching(c, {"w"})' /\ ~Unseen(c, "w")'
    BY <1>1, <1>3, <1>6, <2>2, Rewatching DEF Position, Posture, sockVars, procVars
  <2>6. Hooked(c, Both)'
    BY <1>3, <1>6 DEF Posture, Hooked, Stored, sockVars
  <2>7. Waits(c)' = "w"
    BY <1>6, <1>8 DEF Waits, sockVars
  <2>8. Reading(c, AtFinishRd)'
    BY <2>5, <2>6, <2>7 DEF Reading, Posture
  <2>9. Busy(c)'
    BY <1>3, <1>4, <1>6, <2>4, <2>8 DEF Busy, Doing, sockVars, histVars
  <2>10. /\ fds' \in [Loops -> SUBSET [fd : Fds, conn : Conns, cb : Handlers]]
         /\ \A d \in Conns \ {c}, k \in Loops, f \in Fds, h \in Handlers :
                Stored(d, k, f, h)' <=> Stored(d, k, f, h)
    BY <1>1, <1>6 DEF TypeOK, Stored
  <2> QED BY <1>1, <1>6, <2>2, <2>4, <2>9, <2>10, RewatchKeeps
<1> QED BY <1>6, <1>7, <1>8

\* on_writable after write_all: fd_remove does not fail, writable being watched.
LEMMA FinishWriteKeeps ==
    ASSUME Inv, NEW l \in Loops, NEW c \in Conns, FinishWrite(l, c)
    PROVE  Inv'
<1>1. TypeOK /\ TableInv /\ cur[l] = c /\ Position(l, c)
  BY Positioned DEF Inv, FinishWrite, At
<1>2. todo[l] = AtFinishWr
  BY <1>1, Reached DEF Position, FinishWrite, At
<1>3. /\ ended[c] = 0 /\ Posture(c, Both, {"w"})
      /\ wbuf[c] > 0 /\ Unseen(c, "w") => Told(c, {"eop", "reset"})
  BY <1>1, <1>2, Heads DEF Position, Doing, Opening, Reading, Writing, Leaving, Ending
<1>4. fdOf[c] \in Fds /\ Owns(c) /\ loopOf[c] = l /\ Watched(l, c) = {"w"}
  BY <1>1, <1>3 DEF Position, Posture, Watching, Watched
<1>5. CanDel(l, c) /\ Watched(l, c) \subseteq Removed(l, c)
  BY <1>1, <1>4, RemovedAll
<1>6. wbuf \in [Conns -> Nat] /\ UNCHANGED <<sockVars, file, link, fds, batch, cur, histVars, procVars>>
  BY <1>1, <1>5 DEF FinishWrite, TypeOK
<1>7. CASE wbuf[c] > 0
  <2>1. UNCHANGED <<interest, events>> /\ Then(l, <<>>)
    BY <1>6, <1>7 DEF FinishWrite
  <2>2. AtCheck \in Places /\ Tail(todo[l]) = AtCheck
    BY <1>2, Tails DEF Places
  <2>3. /\ todo'[l] = AtCheck /\ todo' \in [Loops -> Seq(Steps)]
        /\ \A k \in Loops \ {l} : todo'[k] = todo[k]
    BY <1>1, <2>1, <2>2, GoesOn
  <2>4. Posture(c, Both, {"w"})'
    BY <1>3, <1>6, <2>1, PostureKept DEF sockVars
  <2>5. Unseen(c, "w")' => Told(c, {"eop", "reset"})'
    BY <1>3, <1>6, <1>7, <2>1 DEF Unseen, Told, Ready, sockVars, procVars
  <2>6. Waits(c)' = "w"
    BY <1>6, <1>7 DEF Waits, sockVars
  <2>7. Writing(c, AtCheck)'
    BY <2>4, <2>5, <2>6 DEF Writing
  <2>8. Busy(c)'
    BY <1>3, <1>4, <1>6, <2>3, <2>7 DEF Busy, Doing, sockVars, histVars
  <2>9. wbuf' \in [Conns -> Nat] /\ msgs' \in [Conns -> Nat] /\ ended' \in [Conns -> Nat]
    BY <1>1, <1>6 DEF TypeOK, sockVars, histVars
  <2> QED BY <1>1, <1>6, <2>1, <2>3, <2>8, <2>9, QuietKeeps DEF sockVars, kernelVars, histVars
<1>8. CASE wbuf[c] = 0
  <2>1. Watch(l, c, Removed(l, c), {}) /\ Then(l, <<"on_write_complete", "resume_read">>)
    BY <1>5, <1>8 DEF FinishWrite
  <2>2. Rewatched(l, c, {})
    BY <1>1, <1>4, <1>5, <2>1, WatchAll
  <2>3. AtWritten \in Places /\ <<"on_write_complete", "resume_read">> \o Tail(todo[l]) = AtWritten
    BY <1>2, Tails, Pushes DEF Places
  <2>4. /\ todo'[l] = AtWritten /\ todo' \in [Loops -> Seq(Steps)]
        /\ \A k \in Loops \ {l} : todo'[k] = todo[k]
    BY <1>1, <2>1, <2>3, Goes
  <2>5. Watching(c, {})'
    BY <1>1, <1>3, <1>6, <2>2, Rewatching DEF Position, Posture, sockVars, procVars
  <2>6. Hooked(c, Both)'
    BY <1>3, <1>6 DEF Posture, Hooked, Stored, sockVars
  <2>7. Writing(c, AtWritten)'
    BY <1>6, <1>8, <2>5, <2>6 DEF Writing, Posture, sockVars
  <2>8. Busy(c)'
    BY <1>3, <1>4, <1>6, <2>4, <2>7 DEF Busy, Doing, sockVars, histVars
  <2>9. /\ fds' \in [Loops -> SUBSET [fd : Fds, conn : Conns, cb : Handlers]]
        /\ \A d \in Conns \ {c}, k \in Loops, f \in Fds, h \in Handlers :
                Stored(d, k, f, h)' <=> Stored(d, k, f, h)
    BY <1>1, <1>6 DEF TypeOK, Stored
  <2> QED BY <1>1, <1>6, <2>2, <2>4, <2>8, <2>9, RewatchKeeps
<1> QED BY <1>6, <1>7, <1>8

\* on_writable goes back to reading: fd_register does not fail, nothing being watched.
LEMMA ResumeReadKeeps ==
    ASSUME Inv, NEW l \in Loops, NEW c \in Conns, ResumeRead(l, c)
    PROVE  Inv'
<1>1. TypeOK /\ TableInv /\ cur[l] = c /\ Position(l, c)
  BY Positioned DEF Inv, ResumeRead, At
<1>2. todo[l] = AtResume
  BY <1>1, Reached DEF Position, ResumeRead, At
<1>3. ended[c] = 0 /\ Posture(c, Both, {}) /\ wbuf[c] = 0
  BY <1>1, <1>2, Heads DEF Position, Doing, Opening, Reading, Writing, Leaving, Ending
<1>4. fdOf[c] \in Fds /\ Owns(c) /\ loopOf[c] = l /\ Watched(l, c) = {} /\ ~closed[c]
  BY <1>1, <1>3 DEF Position, Posture, Watching, Watched
<1>5. /\ UNCHANGED <<sockVars, file, link, fds, batch, cur, histVars, procVars>>
      /\ Watch(l, c, {}, {"r"}) /\ Then(l, <<>>)
  BY <1>4 DEF ResumeRead, CanAdd
<1>6. Rewatched(l, c, {"r"})
  BY <1>1, <1>4, <1>5, WatchAll
<1>7. AtCheck \in Places /\ Tail(todo[l]) = AtCheck
  BY <1>2, Tails DEF Places
<1>8. /\ todo'[l] = AtCheck /\ todo' \in [Loops -> Seq(Steps)]
      /\ \A k \in Loops \ {l} : todo'[k] = todo[k]
  BY <1>1, <1>5, <1>7, GoesOn
<1>9. Watching(c, {"r"})' /\ ~Unseen(c, "r")'
  BY <1>1, <1>3, <1>5, <1>6, Rewatching DEF Position, Posture, sockVars, procVars
<1>10. Hooked(c, Both)'
  BY <1>3, <1>5 DEF Posture, Hooked, Stored, sockVars
<1>11. Waits(c)' = "r"
  BY <1>3, <1>5 DEF Waits, sockVars
<1>12. Writing(c, AtCheck)'
  BY <1>9, <1>10, <1>11 DEF Writing, Posture
<1>13. Busy(c)'
  BY <1>3, <1>4, <1>5, <1>8, <1>12 DEF Busy, Doing, sockVars, histVars
<1>14. /\ fds' \in [Loops -> SUBSET [fd : Fds, conn : Conns, cb : Handlers]]
       /\ \A d \in Conns \ {c}, k \in Loops, f \in Fds, h \in Handlers :
                Stored(d, k, f, h)' <=> Stored(d, k, f, h)
  BY <1>1, <1>5 DEF TypeOK, Stored
<1> QED BY <1>1, <1>5, <1>6, <1>8, <1>13, <1>14, RewatchKeeps

\* Storing a callback of c in its loop.
LEMMA Storing ==
    ASSUME TypeOK, NEW l \in Loops, NEW c \in Conns, fdOf[c] \in Fds, loopOf'[c] = l,
           NEW g \in Handlers, NEW H, Hooked(c, H), H = {} \/ loopOf[c] = l,
           fds' = [fds EXCEPT ![l] = @ \cup {Entry(c, g)}], fdOf'[c] = fdOf[c]
    PROVE  /\ fds' \in [Loops -> SUBSET [fd : Fds, conn : Conns, cb : Handlers]]
           /\ \A d \in Conns \ {c}, k \in Loops, f \in Fds, h \in Handlers :
                Stored(d, k, f, h)' <=> Stored(d, k, f, h)
           /\ Hooked(c, H \cup {g})'
<1>1. fds \in [Loops -> SUBSET [fd : Fds, conn : Conns, cb : Handlers]]
  BY DEF TypeOK
<1>2. Entry(c, g) \in [fd : Fds, conn : Conns, cb : Handlers]
  BY DEF Entry
<1>3. fds' \in [Loops -> SUBSET [fd : Fds, conn : Conns, cb : Handlers]]
  BY <1>1, <1>2
<1>4. ASSUME NEW d \in Conns, NEW k \in Loops, NEW f \in Fds, NEW h \in Handlers
      PROVE  Stored(d, k, f, h)' <=>
                Stored(d, k, f, h) \/ (k = l /\ d = c /\ f = fdOf[c] /\ h = g)
  <2>1. ([fd |-> f, conn |-> d, cb |-> h] = Entry(c, g)) <=> (d = c /\ f = fdOf[c] /\ h = g)
    BY DEF Entry
  <2> QED BY <1>1, <2>1 DEF Stored
<1>5. Hooked(c, H \cup {g})'
  BY <1>4 DEF Hooked
<1> QED BY <1>3, <1>4, <1>5

\* on_acpt_writable and on_cont_writable start to read: fd_register does not fail.
LEMMA StartReadKeeps ==
    ASSUME Inv, NEW l \in Loops, NEW c \in Conns, StartRead(l, c)
    PROVE  Inv'
<1>1. TypeOK /\ TableInv /\ cur[l] = c /\ Position(l, c)
  BY Positioned DEF Inv, StartRead, At
<1>2. todo[l] = AtStart
  BY <1>1, Reached DEF Position, StartRead, At
<1>3. ended[c] = 0 /\ Posture(c, {"writable"}, {}) /\ wbuf[c] = 0
  BY <1>1, <1>2, Heads DEF Position, Doing, Opening, Reading, Writing, Leaving, Ending
<1>4. fdOf[c] \in Fds /\ Owns(c) /\ loopOf[c] = l /\ Watched(l, c) = {}
  BY <1>1, <1>3 DEF Position, Posture, Watching, Watched
<1>5. /\ UNCHANGED <<sockVars, file, link, batch, cur, histVars, procVars>>
      /\ fds' = [fds EXCEPT ![l] = @ \cup {Entry(c, "readable")}]
      /\ Watch(l, c, {}, {"r"}) /\ Then(l, <<>>)
  BY <1>4 DEF StartRead, CanAdd
<1>6. Rewatched(l, c, {"r"})
  BY <1>1, <1>4, <1>5, WatchAll
<1>7. AtRelease \in Places /\ Tail(todo[l]) = AtRelease
  BY <1>2, Tails DEF Places
<1>8. /\ todo'[l] = AtRelease /\ todo' \in [Loops -> Seq(Steps)]
      /\ \A k \in Loops \ {l} : todo'[k] = todo[k]
  BY <1>1, <1>5, <1>7, GoesOn
<1>9. Watching(c, {"r"})' /\ ~Unseen(c, "r")'
  BY <1>1, <1>3, <1>5, <1>6, Rewatching DEF Position, Posture, sockVars, procVars
<1>10. /\ fds' \in [Loops -> SUBSET [fd : Fds, conn : Conns, cb : Handlers]]
       /\ \A d \in Conns \ {c}, k \in Loops, f \in Fds, h \in Handlers :
                Stored(d, k, f, h)' <=> Stored(d, k, f, h)
       /\ Hooked(c, {"writable"} \cup {"readable"})'
  BY <1>1, <1>3, <1>4, <1>5, Storing DEF Posture, Handlers, sockVars
<1>11. Hooked(c, Both)' /\ Waits(c)' = "r"
  <2>1. {"writable"} \cup {"readable"} = Both
    BY DEF Both
  <2>2. Hooked(c, Both)'
    BY <1>10, <2>1
  <2>3. Waits(c)' = "r"
    BY <1>3, <1>5 DEF Waits, sockVars
  <2> QED BY <2>2, <2>3
<1>12. Leaving(c, AtRelease)'
  BY <1>9, <1>11 DEF Leaving, Posture
<1>13. Busy(c)'
  BY <1>3, <1>4, <1>5, <1>8, <1>12 DEF Busy, Doing, sockVars, histVars
<1> QED BY <1>1, <1>5, <1>6, <1>8, <1>10, <1>13, RewatchKeeps

\* fd_register of on_writable without its event stores the callback only.
LEMMA PrepareKeeps ==
    ASSUME Inv, NEW l \in Loops, NEW c \in Conns, Prepare(l, c)
    PROVE  Inv'
<1>1. TypeOK /\ TableInv /\ LifeInv(c) /\ cur[l] = c /\ Position(l, c)
  BY Positioned DEF Inv, ConnInv, Prepare, At
<1>2. todo[l] = AtPrepare
  BY <1>1, Reached DEF Position, Prepare, At
<1>3. ended[c] = 0 /\ Posture(c, {}, {}) /\ wbuf[c] = 0
  BY <1>1, <1>2, Heads DEF Position, Doing, Opening, Reading, Writing, Leaving, Ending
<1>4. /\ UNCHANGED <<sockVars, kernelVars, events, batch, cur, histVars, procVars>>
      /\ fds' = [fds EXCEPT ![l] = @ \cup {Entry(c, "writable")}] /\ Then(l, <<>>)
      /\ fdOf[c] \in Fds /\ loopOf[c] = l
  BY <1>1 DEF Prepare, Position
<1>5. AtOpen \in Places /\ Tail(todo[l]) = AtOpen
  BY <1>2, Tails DEF Places
<1>6. /\ todo'[l] = AtOpen /\ todo' \in [Loops -> Seq(Steps)]
      /\ \A k \in Loops \ {l} : todo'[k] = todo[k]
  BY <1>1, <1>4, <1>5, GoesOn
<1>7. /\ fds' \in [Loops -> SUBSET [fd : Fds, conn : Conns, cb : Handlers]]
      /\ \A d \in Conns \ {c}, k \in Loops, f \in Fds, h \in Handlers :
                Stored(d, k, f, h)' <=> Stored(d, k, f, h)
      /\ Hooked(c, {} \cup {"writable"})'
  BY <1>1, <1>3, <1>4, Storing DEF Posture, Handlers, sockVars
<1>8. Hooked(c, {"writable"})'
  <2>1. {} \cup {"writable"} = {"writable"}
    OBVIOUS
  <2> QED BY <1>7, <2>1
<1>9. Watching(c, {})'
  BY <1>3, <1>4 DEF Posture, Watching, sockVars, kernelVars
<1>10. Opening(c, AtOpen)'
  BY <1>3, <1>4, <1>8, <1>9 DEF Opening, Posture, sockVars
<1>11. Busy(c)'
  BY <1>3, <1>4, <1>6, <1>10 DEF Busy, Doing, sockVars, histVars
<1>12. TypeOK'
  BY <1>1, <1>4, <1>6, <1>7 DEF TypeOK, sockVars, kernelVars, histVars, procVars
<1>13. Confined(l, c)
  BY <1>1, <1>4, <1>6, <1>7 DEF Confined, LifeInv, TableInv, HotInv, RecordInv, sockVars, kernelVars,
     histVars, procVars
<1> QED BY <1>1, <1>11, <1>12, <1>13, HandlerKeeps

\* Erasing the callbacks stored under c's number erases c's and no other's.
LEMMA Erasing ==
    ASSUME Inv, NEW l \in Loops, NEW c \in Conns, Position(l, c), NEW H, Hooked(c, H),
           Erase(l, c), UNCHANGED <<fdOf, loopOf>>
    PROVE  /\ fds' \in [Loops -> SUBSET [fd : Fds, conn : Conns, cb : Handlers]]
           /\ \A d \in Conns \ {c}, k \in Loops, f \in Fds, h \in Handlers :
                Stored(d, k, f, h)' <=> Stored(d, k, f, h)
           /\ Hooked(c, {})'
<1>1. fds \in [Loops -> SUBSET [fd : Fds, conn : Conns, cb : Handlers]]
  BY DEF Inv, TypeOK
<1>2. fds' = [fds EXCEPT ![l] = {e \in fds[l] : e.fd # fdOf[c]}]
  BY DEF Erase
<1>3. fds' \in [Loops -> SUBSET [fd : Fds, conn : Conns, cb : Handlers]]
  BY <1>1, <1>2
<1>4. ASSUME NEW d \in Conns, NEW k \in Loops, NEW f \in Fds, NEW h \in Handlers
      PROVE  Stored(d, k, f, h)' <=> Stored(d, k, f, h) /\ (k = l => f # fdOf[c])
  BY <1>1, <1>2 DEF Stored
<1>5. ASSUME NEW d \in Conns \ {c}, NEW k \in Loops, NEW f \in Fds, NEW h \in Handlers
      PROVE  Stored(d, k, f, h)' <=> Stored(d, k, f, h)
  BY <1>4, NotOthers DEF Position
<1>6. Hooked(c, {})'
  BY <1>4 DEF Hooked, Position
<1> QED BY <1>3, <1>5, <1>6

\* fd_remove at the start of the first handler and after on_closed: it does not fail, and takes
\* away all that is watched and stored of the connection.
LEMMA RemoveKeeps ==
    ASSUME Inv, NEW l \in Loops, NEW c \in Conns, Remove(l, c)
    PROVE  Inv'
<1>1. TypeOK /\ TableInv /\ cur[l] = c /\ Position(l, c)
  BY Positioned DEF Inv, Remove, At
<1>2. todo[l] \in {FromAccept, FromConnect, AtRemove}
  BY <1>1, Reached DEF Position, Remove, At
<1>3. \/ todo[l] \in {FromAccept, FromConnect} /\ ended[c] = 0 /\ wbuf[c] = 0 /\ Posture(c, {First(c)}, {"w"})
      \/ todo[l] = AtRemove /\ ended[c] = 1 /\ link[c].peer # "open" /\ Posture(c, Both, {Waits(c)})
  <2>1. CASE todo[l] = AtRemove
    <3>1. AtRemove \notin {FromAccept, FromConnect}
      BY Heads, Tails
    <3> QED BY <1>1, <2>1, <3>1, Heads DEF Position, Doing, Opening, Reading, Writing, Leaving, Ending
  <2>2. CASE todo[l] \in {FromAccept, FromConnect}
    <3>1. AtRemove \notin {FromAccept, FromConnect}
      BY Heads, Tails
    <3> QED BY <1>1, <2>2, <3>1, Heads DEF Position, Doing, Opening, Reading, Writing, Leaving, Ending
  <2> QED BY <1>2, <2>1, <2>2
<1>4. PICK H, e : Posture(c, H, {e})
  BY <1>3
<1>5. fdOf[c] \in Fds /\ Owns(c) /\ loopOf[c] = l /\ Watched(l, c) # {}
  BY <1>1, <1>4 DEF Position, Posture, Watching, Watched
<1>6. CanDel(l, c) /\ Watched(l, c) \subseteq Removed(l, c)
  BY <1>1, <1>5, RemovedAll
<1>7. /\ UNCHANGED <<sockVars, file, link, batch, cur, histVars, procVars>>
      /\ Watch(l, c, Removed(l, c), {}) /\ Erase(l, c) /\ Then(l, <<>>)
  BY <1>6 DEF Remove
<1>8. Rewatched(l, c, {})
  BY <1>1, <1>5, <1>6, <1>7, WatchAll
<1>9. Watching(c, {})'
  BY <1>1, <1>4, <1>7, <1>8, Rewatching DEF Position, Posture, sockVars, procVars
<1>10. /\ fds' \in [Loops -> SUBSET [fd : Fds, conn : Conns, cb : Handlers]]
       /\ \A d \in Conns \ {c}, k \in Loops, f \in Fds, h \in Handlers :
                Stored(d, k, f, h)' <=> Stored(d, k, f, h)
       /\ Hooked(c, {})'
  BY <1>1, <1>4, <1>7, Erasing DEF Posture, sockVars
<1>11. Posture(c, {}, {})'
  BY <1>9, <1>10 DEF Posture
<1>12. ASSUME NEW p \in Places, Tail(todo[l]) = p, Doing(c, p)' PROVE Inv'
  <2>1. /\ todo'[l] = p /\ todo' \in [Loops -> Seq(Steps)]
        /\ \A k \in Loops \ {l} : todo'[k] = todo[k]
    BY <1>1, <1>7, <1>12, GoesOn
  <2>2. Busy(c)'
    BY <1>5, <1>7, <1>12, <2>1 DEF Busy, sockVars
  <2> QED BY <1>1, <1>7, <1>8, <1>10, <2>1, <2>2, RewatchKeeps
<1>13. CASE todo[l] = FromAccept
  <2>1. ended[c] = 0 /\ wbuf[c] = 0
    BY <1>3, <1>13, Tails, Heads
  <2>2. Doing(c, AtPrepare)'
    BY <1>7, <1>11, <2>1 DEF Doing, Opening, sockVars, histVars
  <2> QED BY <1>12, <1>13, <2>2, Tails DEF Places
<1>14. CASE todo[l] = FromConnect
  <2>1. ended[c] = 0 /\ wbuf[c] = 0
    BY <1>3, <1>14, Tails, Heads
  <2>2. Doing(c, AtConnect)'
    BY <1>7, <1>11, <2>1 DEF Doing, Opening, sockVars, histVars
  <2> QED BY <1>12, <1>14, <2>2, Tails DEF Places
<1>15. CASE todo[l] = AtRemove
  <2>1. ended[c] = 1 /\ link[c].peer # "open"
    BY <1>3, <1>15, Tails, Heads
  <2>2. Doing(c, AtRelease)'
    BY <1>7, <1>11, <2>1 DEF Doing, Ending, histVars
  <2> QED BY <1>12, <1>15, <2>2, Tails DEF Places
<1> QED BY <1>2, <1>13, <1>14, <1>15

\* The callbacks of an answering server never get to safely_close.
LEMMA NeverUnhooks ==
    ASSUME Inv, NEW l \in Loops, NEW c \in Conns
    PROVE  ~Unhook(l, c) /\ ~Close(l, c)
<1>1. SUFFICES ASSUME cur[l] = c, Head(todo[l]) \in {"unhook", "close"} PROVE FALSE
  BY DEF Unhook, Close, At
<1> QED BY <1>1, Positioned, Reached DEF Position

\* The end of a handler: the loop lets go, and of a connection nobody holds
\* any more the descriptor is closed.
LEMMA ReleaseKeeps ==
    ASSUME Inv, NEW l \in Loops, NEW c \in Conns, Release(l, c)
    PROVE  Inv'
<1>1. TypeOK /\ NoFault /\ TableInv /\ ConnInv(c) /\ LifeInv(c) /\ cur[l] = c /\ Position(l, c)
  BY Positioned DEF Inv, ConnInv, Release, At
<1>2. todo[l] = AtRelease
  BY <1>1, Reached DEF Position, Release, At
<1>3. /\ fdOf[c] \in Fds /\ Owns(c) /\ loopOf[c] = l /\ ~closed[c] /\ stage[c] = "live"
      /\ \A k \in Loops, h \in Handlers : <<c, h>> \notin batch[k]
  BY <1>1 DEF Position
<1>4. \/ ended[c] = 0 /\ Posture(c, Both, {Waits(c)}) /\ ~Unseen(c, Waits(c))
      \/ Posture(c, {}, {}) /\ ended[c] \in {0, 1} /\ (wbuf[c] > 0 => link[c].peer # "open")
  BY <1>1, <1>2, Heads DEF Position, Doing, Opening, Reading, Writing, Leaving, Ending
<1>5. /\ UNCHANGED <<fdOf, loopOf, flags, wbuf, link, fds, events, batch, histVars, procVars>>
      /\ cur' = [cur EXCEPT ![l] = None] /\ Then(l, <<>>)
  BY DEF Release
<1>6. todo' = [todo EXCEPT ![l] = <<>>] /\ todo' \in [Loops -> Seq(Steps)]
  <2>1. <<>> \o Tail(todo[l]) = <<>>
    BY <1>2, Tails
  <2>2. todo' = [todo EXCEPT ![l] = <<>>]
    BY <1>5, <2>1 DEF Then
  <2> QED BY <1>1, <2>2 DEF TypeOK
<1>7. /\ cur \in [Loops -> Conns \cup {None}] /\ cur' \in [Loops -> Conns \cup {None}]
      /\ cur'[l] = None /\ \A k \in Loops \ {l} : cur'[k] = cur[k] /\ todo'[k] = todo[k]
  BY <1>1, <1>5, <1>6 DEF TypeOK
<1>8. \A k \in Loops : cur'[k] # c
  BY <1>1, <1>3, <1>7, NoneAssumption DEF ConnInv
<1>9. QueueInv(c)'
  BY <1>3, <1>5 DEF QueueInv
<1>10. \A H : Hooked(c, H)' <=> Hooked(c, H)
  BY <1>5 DEF Hooked, Stored
<1> DEFINE last == /\ \A k \in Loops : \A e \in fds[k] : e.conn # c
                   /\ \A k \in Loops : \A x \in batch[k] : x[1] # c
<1>11. CASE ended[c] = 0 /\ Posture(c, Both, {Waits(c)}) /\ ~Unseen(c, Waits(c))
  <2>1. ~last
    <3>1. Stored(c, l, fdOf[c], "readable")
      BY <1>3, <1>11 DEF Posture, Hooked, Both, Handlers
    <3> QED BY <3>1 DEF Stored
  <2>2. UNCHANGED <<file, interest, closed, stage>>
    BY <2>1 DEF Release
  <2>3. ASSUME NEW d \in Conns \ {c} PROVE ConnInv(d)'
    <3>1. ConnInv(d)
      BY DEF Inv
    <3>2. \A k \in Loops : (cur'[k] = d <=> cur[k] = d) /\ (cur[k] = d => todo'[k] = todo[k])
      BY <1>1, <1>7, NoneAssumption
    <3>3. SameConn(d)
      BY <1>5, <2>2, <3>2 DEF SameConn, Stored, Owns, histVars, procVars
    <3> QED BY <1>1, <3>1, <3>3, SameConnInv
  <2>4. ConnInv(c)'
    <3>1. /\ \A H, E : Posture(c, H, E)' <=> Posture(c, H, E)
          /\ \A e : Unseen(c, e)' <=> Unseen(c, e)
          /\ Waits(c)' = Waits(c) /\ ended' = ended
      BY <1>5, <2>2, PostureKept DEF Unseen, Waits, Ready, histVars, procVars
    <3>2. Waiting(c)'
      BY <1>11, <3>1 DEF Waiting
    <3>3. LifeInv(c)'
      BY <1>1, <1>5, <1>10, <2>2 DEF LifeInv, Held, Owns, Watching, histVars
    <3> QED BY <1>3, <1>5, <1>8, <1>9, <3>2, <3>3 DEF ConnInv
  <2>5. TypeOK'
    BY <1>1, <1>5, <1>6, <1>7, <2>2 DEF TypeOK, histVars, procVars
  <2>6. TableInv' /\ NoFault'
    BY <1>1, <1>5, <2>2 DEF TableInv, FileInv, FreeInv, RecordInv, HotInv, NoFault, procVars
  <2> QED BY <2>3, <2>4, <2>5, <2>6 DEF Inv
<1>12. CASE Posture(c, {}, {}) /\ ended[c] \in {0, 1} /\ (wbuf[c] > 0 => link[c].peer # "open")
  <2>1. last
    <3>1. ASSUME NEW k \in Loops, NEW e \in fds[k], e.conn = c PROVE FALSE
      <4>1. e \in [fd : Fds, conn : Conns, cb : Handlers]
        BY <1>1 DEF TypeOK
      <4>2. e = [fd |-> e.fd, conn |-> c, cb |-> e.cb] /\ e.fd \in Fds /\ e.cb \in Handlers
        BY <3>1, <4>1
      <4> QED BY <1>12, <4>2 DEF Posture, Hooked, Stored
    <3>2. ASSUME NEW k \in Loops, NEW x \in batch[k], x[1] = c PROVE FALSE
      <4>1. x \in Conns \X Handlers
        BY <1>1 DEF TypeOK
      <4>2. x = <<c, x[2]>> /\ x[2] \in Handlers
        BY <3>2, <4>1
      <4> QED BY <1>3, <4>2
    <3> QED BY <3>1, <3>2
  <2>2. /\ file' = [file EXCEPT ![fdOf[c]] = None]
        /\ interest' = [k \in Loops |-> [interest[k] EXCEPT ![fdOf[c]] = Unwatched]]
        /\ closed' = [closed EXCEPT ![c] = TRUE] /\ stage' = [stage EXCEPT ![c] = "gone"]
    BY <1>3, <2>1 DEF Release, CloseFd
  <2> HIDE DEF last
  <2>3. /\ file \in [Fds -> Conns \cup {None}]
        /\ interest \in [Loops -> [Fds -> [on : SUBSET {"r", "w"}, hot : SUBSET {"r", "w"}]]]
        /\ closed \in [Conns -> BOOLEAN]
        /\ stage \in [Conns -> {"unborn", "accepted", "stored", "live", "gone"}]
        /\ Unwatched \in [on : SUBSET {"r", "w"}, hot : SUBSET {"r", "w"}]
    BY <1>1 DEF TypeOK, Unwatched
  <2>4. /\ file' \in [Fds -> Conns \cup {None}] /\ file'[fdOf[c]] = None
        /\ \A f \in Fds : f # fdOf[c] => file'[f] = file[f]
    BY <1>3, <2>2, <2>3
  <2>5. /\ interest' \in [Loops -> [Fds -> [on : SUBSET {"r", "w"}, hot : SUBSET {"r", "w"}]]]
        /\ \A k \in Loops : interest'[k][fdOf[c]] = Unwatched
        /\ \A k \in Loops, f \in Fds : f # fdOf[c] => interest'[k][f] = interest[k][f]
    BY <1>3, <2>2, <2>3
  <2>6. /\ closed' \in [Conns -> BOOLEAN] /\ closed'[c]
        /\ stage' \in [Conns -> {"unborn", "accepted", "stored", "live", "gone"}] /\ stage'[c] = "gone"
        /\ \A d \in Conns \ {c} : closed'[d] = closed[d] /\ stage'[d] = stage[d]
    BY <2>2, <2>3
  <2>7. ASSUME NEW d \in Conns \ {c} PROVE ConnInv(d)'
    <3>1. ConnInv(d)
      BY DEF Inv
    <3>2. \A k \in Loops : (cur'[k] = d <=> cur[k] = d) /\ (cur[k] = d => todo'[k] = todo[k])
      BY <1>1, <1>7, NoneAssumption
    <3>3. Owns(d) => fdOf[d] \in Fds /\ fdOf[d] # fdOf[c]
      BY <1>1, <1>3, OwnersDiffer DEF TypeOK, Owns
    <3>4. Owns(d)' <=> Owns(d)
      BY <1>1, <1>5, <2>4, <3>3, NoneAssumption DEF Owns, TypeOK
    <3>5. Owns(d) => \A k \in Loops : interest'[k][fdOf[d]] = interest[k][fdOf[d]]
      BY <2>5, <3>3
    <3>6. SameConn(d)
      BY <1>5, <2>6, <3>2, <3>4, <3>5 DEF SameConn, Stored, histVars, procVars
    <3> QED BY <1>1, <3>1, <3>6, SameConnInv
  <2>8. ConnInv(c)'
    <3>1. ~Owns(c)'
      BY <1>5, <2>4, NoneAssumption DEF Owns
    <3>2. Hooked(c, {})'
      BY <1>10, <1>12 DEF Posture
    <3>3. LifeInv(c)'
      BY <1>1, <1>5, <1>12, <2>6, <3>1, <3>2 DEF LifeInv, Held, histVars
    <3> QED BY <1>8, <1>9, <2>6, <3>3 DEF ConnInv
  <2>9. TypeOK'
    BY <1>1, <1>5, <1>6, <1>7, <2>4, <2>5, <2>6 DEF TypeOK, histVars, procVars
  <2>10. FileInv'
    BY <1>1, <1>5, <2>4 DEF TableInv, FileInv
  <2>11. FreeInv'
    <3> SUFFICES ASSUME NEW f \in Fds, file'[f] = None, NEW k \in Loops
                 PROVE  interest'[k][f].on = {}
      BY DEF FreeInv
    <3>1. CASE f = fdOf[c]
      <4>1. interest'[k][f] = Unwatched
        BY <2>5, <3>1
      <4> QED BY <4>1 DEF Unwatched
    <3>2. CASE f # fdOf[c]
      <4>1. file[f] = None /\ interest'[k][f] = interest[k][f]
        BY <2>4, <2>5, <3>2
      <4>2. interest[k][f].on = {}
        BY <1>1, <4>1 DEF TableInv, FreeInv
      <4> QED BY <4>1, <4>2
    <3> QED BY <3>1, <3>2
  <2>12. HotInv'
    <3> SUFFICES ASSUME NEW k \in Loops, NEW f \in Fds
                 PROVE  interest'[k][f].hot \subseteq interest'[k][f].on
      BY DEF HotInv
    <3>1. interest[k][f].hot \subseteq interest[k][f].on
      BY <1>1 DEF TableInv, HotInv
    <3>2. interest'[k][f] = IF f = fdOf[c] THEN Unwatched ELSE interest[k][f]
      BY <2>5
    <3> QED BY <3>1, <3>2 DEF Unwatched
  <2>13. RecordInv'
    <3>1. \A k \in Loops : interest[k][fdOf[c]].on = {}
      BY <1>12 DEF Posture, Watching
    <3> SUFFICES ASSUME backend = "kqueue", NEW k \in Loops, NEW f \in Fds
                 PROVE  events'[k][f] = interest'[k][f].on
      BY <1>5 DEF RecordInv, procVars
    <3>2. events'[k][f] = interest[k][f].on
      BY <1>1, <1>5 DEF TableInv, RecordInv
    <3>3. interest'[k][f] = IF f = fdOf[c] THEN Unwatched ELSE interest[k][f]
      BY <2>5
    <3>4. CASE f = fdOf[c]
      <4>1. interest'[k][f] = Unwatched /\ events'[k][f] = {}
        BY <3>1, <3>2, <3>3, <3>4
      <4> QED BY <4>1 DEF Unwatched
    <3>5. CASE f # fdOf[c]
      BY <3>2, <3>3, <3>5
    <3> QED BY <3>4, <3>5
  <2>14. NoFault'
    BY <1>1, <1>5 DEF NoFault, procVars
  <2> QED BY <2>7, <2>8, <2>9, <2>10, <2>11, <2>12, <2>13, <2>14 DEF Inv, TableInv
<1> QED BY <1>4, <1>11, <1>12

-----------------------------------------------------------------------------
(* The hand-over of a connection to its loop. *)

\* A connection that is not live yet has no handler and nothing queued.
LEMMA Untouched ==
    ASSUME Inv, NEW c \in Conns, stage[c] # "live"
    PROVE  /\ \A k \in Loops : cur[k] # c
           /\ \A k \in Loops, h \in Handlers : <<c, h>> \notin batch[k]
BY DEF Inv, ConnInv, QueueInv

\* accept and connect give a number that nothing is stored or watched for.
LEMMA AcceptKeeps ==
    ASSUME Inv, NEW c \in Conns, Accept(c)
    PROVE  Inv'
<1>1. TypeOK /\ NoFault /\ TableInv /\ LifeInv(c) /\ stage[c] = "unborn"
  BY DEF Inv, ConnInv, Accept
<1>2. PICK f0 \in Fds : /\ file[f0] = None /\ file' = [file EXCEPT ![f0] = c]
                        /\ fdOf' = [fdOf EXCEPT ![c] = f0]
  BY DEF Accept
<1>3. /\ stage' = [stage EXCEPT ![c] = "accepted"]
      /\ UNCHANGED <<loopOf, closed, flags, wbuf, interest, link, loopVars, histVars, procVars>>
  BY DEF Accept
<1>4. /\ file \in [Fds -> Conns \cup {None}] /\ fdOf \in [Conns -> Fds \cup {None}]
      /\ stage \in [Conns -> {"unborn", "accepted", "stored", "live", "gone"}]
  BY <1>1 DEF TypeOK
<1>5. /\ file' \in [Fds -> Conns \cup {None}] /\ file'[f0] = c
      /\ \A f \in Fds \ {f0} : file'[f] = file[f]
  BY <1>2, <1>4
<1>6. /\ fdOf' \in [Conns -> Fds \cup {None}] /\ fdOf'[c] = f0
      /\ stage' \in [Conns -> {"unborn", "accepted", "stored", "live", "gone"}] /\ stage'[c] = "accepted"
      /\ \A d \in Conns \ {c} : fdOf'[d] = fdOf[d] /\ stage'[d] = stage[d]
  BY <1>2, <1>3, <1>4
<1>7. ~Owns(c)
  BY <1>1 DEF LifeInv, Held
<1>8. \A f \in Fds : file[f] # c
  BY <1>1, <1>7, NoneAssumption DEF TableInv, FileInv, Owns
<1>9. ASSUME NEW d \in Conns \ {c} PROVE ConnInv(d)'
  <2>1. ConnInv(d)
    BY DEF Inv
  <2>2. fdOf[d] \in Fds \cup {None} /\ fdOf'[d] = fdOf[d]
    BY <1>4, <1>6
  <2>3. Owns(d)' <=> Owns(d)
    BY <1>2, <1>5, <2>2, NoneAssumption DEF Owns
  <2>4. SameConn(d)
    BY <1>3, <1>6, <2>3 DEF SameConn, Stored, loopVars, histVars, procVars
  <2> QED BY <1>1, <2>1, <2>4, SameConnInv
<1>10. ConnInv(c)'
  <2>1. Owns(c)'
    BY <1>5, <1>6, NoneAssumption DEF Owns
  <2>2. Hooked(c, {})'
    BY <1>1, <1>3 DEF LifeInv, Hooked, Stored, loopVars
  <2>3. Watching(c, {})'
    BY <1>1, <1>2, <1>3, <1>6 DEF TableInv, FreeInv, Watching
  <2>4. LifeInv(c)'
    BY <1>1, <1>3, <1>6, <2>1, <2>2, <2>3 DEF LifeInv, Held, histVars
  <2>5. QueueInv(c)' /\ \A k \in Loops : cur'[k] # c
    BY <1>1, <1>3, Untouched DEF QueueInv, loopVars
  <2> QED BY <1>6, <2>4, <2>5 DEF ConnInv
<1>11. TypeOK'
  BY <1>1, <1>3, <1>5, <1>6 DEF TypeOK, loopVars, histVars, procVars
<1>12. FileInv'
  <2> SUFFICES ASSUME NEW f \in Fds, file'[f] # None PROVE fdOf'[file'[f]] = f
    BY DEF FileInv
  <2>1. CASE f = f0
    BY <1>5, <1>6, <2>1
  <2>2. CASE f # f0
    <3>1. file'[f] = file[f] /\ file[f] # c /\ file[f] \in Conns
      BY <1>4, <1>5, <1>8, <2>2
    <3> QED BY <1>1, <1>6, <3>1 DEF TableInv, FileInv
  <2> QED BY <2>1, <2>2
<1>13. FreeInv'
  BY <1>1, <1>3, <1>5, NoneAssumption DEF TableInv, FreeInv
<1>14. RecordInv' /\ HotInv' /\ NoFault'
  BY <1>1, <1>3 DEF TableInv, RecordInv, HotInv, NoFault, loopVars, procVars
<1> QED BY <1>9, <1>10, <1>11, <1>12, <1>13, <1>14 DEF Inv, TableInv

\* fd_register in the acceptor's or connector's thread, first half: the callback.
LEMMA StoreKeeps ==
    ASSUME Inv, NEW c \in Conns, NEW l \in Loops, Store(c, l)
    PROVE  Inv'
<1>1. TypeOK /\ NoFault /\ TableInv /\ LifeInv(c) /\ stage[c] = "accepted"
  BY DEF Inv, ConnInv, Store
<1>2. /\ loopOf' = [loopOf EXCEPT ![c] = l]
      /\ fds' = [fds EXCEPT ![l] = @ \cup {Entry(c, First(c))}]
      /\ stage' = [stage EXCEPT ![c] = "stored"]
      /\ UNCHANGED <<fdOf, closed, flags, wbuf, kernelVars, events, batch, cur, todo, histVars, procVars>>
  BY DEF Store, First
<1>3. Owns(c) /\ Hooked(c, {}) /\ Watching(c, {}) /\ wbuf[c] = 0 /\ ended[c] = 0 /\ ~closed[c]
  BY <1>1 DEF LifeInv, Held
<1>4. fdOf[c] \in Fds /\ First(c) \in Handlers
  BY <1>1, <1>3 DEF TypeOK, Owns, First, Handlers
<1>5. /\ loopOf' \in [Conns -> Loops \cup {None}] /\ loopOf'[c] = l
      /\ stage' \in [Conns -> {"unborn", "accepted", "stored", "live", "gone"}] /\ stage'[c] = "stored"
      /\ \A d \in Conns \ {c} : loopOf'[d] = loopOf[d] /\ stage'[d] = stage[d]
  BY <1>1, <1>2 DEF TypeOK
<1>6. /\ fds' \in [Loops -> SUBSET [fd : Fds, conn : Conns, cb : Handlers]]
      /\ \A d \in Conns \ {c}, k \in Loops, f \in Fds, h \in Handlers :
                Stored(d, k, f, h)' <=> Stored(d, k, f, h)
      /\ Hooked(c, {} \cup {First(c)})'
  BY <1>1, <1>2, <1>3, <1>4, <1>5, Storing
<1>7. Hooked(c, {First(c)})'
  <2>1. {} \cup {First(c)} = {First(c)}
    OBVIOUS
  <2> QED BY <1>6, <2>1 DEF First
<1>8. \A d \in Conns : Owns(d)' <=> Owns(d)
  BY <1>2 DEF Owns, kernelVars
<1>9. ASSUME NEW d \in Conns \ {c} PROVE ConnInv(d)'
  <2>1. ConnInv(d)
    BY DEF Inv
  <2>2. SameConn(d)
    BY <1>2, <1>5, <1>6, <1>8 DEF SameConn, kernelVars, histVars, procVars
  <2> QED BY <1>1, <2>1, <2>2, SameConnInv
<1>10. ConnInv(c)'
  <2>1. Watching(c, {})'
    BY <1>2, <1>3 DEF Watching, kernelVars
  <2>2. LifeInv(c)'
    BY <1>1, <1>2, <1>3, <1>5, <1>7, <1>8, <2>1 DEF LifeInv, Held, kernelVars, histVars
  <2>3. QueueInv(c)' /\ \A k \in Loops : cur'[k] # c
    BY <1>1, <1>2, Untouched DEF QueueInv
  <2> QED BY <1>5, <2>2, <2>3 DEF ConnInv
<1>11. TypeOK'
  BY <1>1, <1>2, <1>5, <1>6 DEF TypeOK, kernelVars, histVars, procVars
<1>12. TableInv' /\ NoFault'
  BY <1>1, <1>2 DEF TableInv, FileInv, FreeInv, RecordInv, HotInv, NoFault, kernelVars, procVars
<1> QED BY <1>9, <1>10, <1>11, <1>12 DEF Inv

\* The second half: the kernel is told, with the callback already in place.
LEMMA PublishKeeps ==
    ASSUME Inv, NEW c \in Conns, Publish(c)
    PROVE  Inv'
<1> DEFINE l == loopOf[c]
<1>1. TypeOK /\ NoFault /\ TableInv /\ LifeInv(c) /\ stage[c] = "stored"
  BY DEF Inv, ConnInv, Publish
<1>2. /\ Watch(l, c, {}, {"w"}) /\ stage' = [stage EXCEPT ![c] = "live"]
      /\ UNCHANGED <<fdOf, loopOf, closed, flags, wbuf, file, link, fds, batch, cur, todo, histVars, procVars>>
  BY DEF Publish
<1>3. /\ Owns(c) /\ Hooked(c, {First(c)}) /\ Watching(c, {}) /\ l \in Loops
      /\ wbuf[c] = 0 /\ ended[c] = 0 /\ ~closed[c]
  BY <1>1 DEF LifeInv, Held
<1>4. fdOf[c] \in Fds
  BY <1>1, <1>3 DEF TypeOK, Owns
<1>5. Rewatched(l, c, {"w"})
  <2>1. Watched(l, c) \subseteq {}
    BY <1>3 DEF Watched, Watching
  <2> QED BY <1>1, <1>2, <1>3, <1>4, <2>1, WatchAll
<1>6. Watching(c, {"w"})' /\ ~Unseen(c, "w")'
  BY <1>2, <1>3, <1>4, <1>5, Rewatching DEF procVars
<1>7. /\ stage' \in [Conns -> {"unborn", "accepted", "stored", "live", "gone"}] /\ stage'[c] = "live"
      /\ \A d \in Conns \ {c} : stage'[d] = stage[d]
  BY <1>1, <1>2 DEF TypeOK
<1>8. \A d \in Conns : Owns(d)' <=> Owns(d)
  BY <1>2 DEF Owns
<1>9. ASSUME NEW d \in Conns \ {c} PROVE ConnInv(d)'
  <2>1. ConnInv(d)
    BY DEF Inv
  <2>2. Owns(d) => fdOf[d] \in Fds /\ fdOf[d] # fdOf[c]
    BY <1>1, <1>3, OwnersDiffer DEF TypeOK, Owns
  <2>3. Owns(d) => \A k \in Loops : interest'[k][fdOf[d]] = interest[k][fdOf[d]]
    BY <1>5, <2>2 DEF Rewatched
  <2>4. SameConn(d)
    BY <1>2, <1>7, <1>8, <2>3 DEF SameConn, Stored, histVars, procVars
  <2> QED BY <1>1, <2>1, <2>4, SameConnInv
<1>10. ConnInv(c)'
  <2>1. Hooked(c, {First(c)})'
    BY <1>2, <1>3 DEF Hooked, Stored, First
  <2>2. Waiting(c)'
    BY <1>2, <1>3, <1>6, <2>1 DEF Waiting, Posture, histVars
  <2>3. LifeInv(c)'
    BY <1>1, <1>2, <1>3, <1>7, <1>8 DEF LifeInv, Held, histVars
  <2>4. QueueInv(c)' /\ \A k \in Loops : cur'[k] # c
    BY <1>1, <1>2, Untouched DEF QueueInv
  <2> QED BY <1>2, <1>3, <2>2, <2>3, <2>4 DEF ConnInv
<1>11. TypeOK'
  BY <1>1, <1>2, <1>5, <1>7 DEF TypeOK, Rewatched, histVars, procVars
<1>12. FileInv' /\ NoFault'
  BY <1>1, <1>2 DEF TableInv, FileInv, NoFault, procVars
<1>13. FreeInv'
  BY <1>1, <1>2, <1>3, <1>4, <1>5, NoneAssumption DEF TableInv, FreeInv, Rewatched, Owns
<1>14. RecordInv' /\ HotInv'
  <2> HIDE DEF l
  <2>1. ASSUME NEW k \in Loops, NEW f \in Fds
        PROVE  \/ interest'[k][f] = interest[k][f] /\ events'[k][f] = events[k][f]
               \/ /\ interest'[k][f].hot \subseteq interest'[k][f].on
                  /\ backend = "kqueue" => events'[k][f] = interest'[k][f].on
    BY <1>3, <1>5 DEF Rewatched
  <2>2. RecordInv'
    BY <1>1, <1>2, <2>1 DEF TableInv, RecordInv, procVars
  <2>3. HotInv'
    BY <1>1, <2>1 DEF TableInv, HotInv
  <2> QED BY <2>2, <2>3
<1> QED BY <1>9, <1>10, <1>11, <1>12, <1>13, <1>14 DEF Inv, TableInv

-----------------------------------------------------------------------------
(* event_loop::loop_once. *)

\* The programs of the handlers are places.
LEMMA Programs ==
    /\ Program["acpt_writable"] = FromAccept /\ Program["cont_writable"] = FromConnect
    /\ Program["readable"] = AtRead /\ Program["writable"] = AtWrite
BY DEF Program, Handlers, FromAccept, FromConnect, AtRead, AtWrite

\* Of a connection that waits at most one callback can be queued.
LEMMA QueuedOnce ==
    ASSUME Inv, NEW c \in Conns, NEW l \in Loops, NEW h \in Handlers, <<c, h>> \in batch[l]
    PROVE  /\ stage[c] = "live" /\ l = loopOf[c] /\ cur[l] # c /\ Waiting(c)
           /\ Posture(c, {First(c)}, {"w"}) => h = First(c)
           /\ Posture(c, Both, {Waits(c)}) =>
                h = IF Waits(c) = "r" THEN "readable" ELSE "writable"
<1>1. /\ stage[c] = "live" /\ l = loopOf[c] /\ cur[l] # c
      /\ Watching(c, {Event(h)}) /\ Stored(c, l, fdOf[c], h)
  BY DEF Inv, ConnInv, QueueInv
<1>2. Waiting(c) /\ LifeInv(c) /\ TypeOK
  BY <1>1 DEF Inv, ConnInv
<1>3. fdOf[c] \in Fds
  BY <1>1, <1>2 DEF LifeInv, Held, Owns, TypeOK
<1>4. \A H : Hooked(c, H) => h \in H
  BY <1>1, <1>3 DEF Hooked
<1>5. \A E : Watching(c, E) => E = {Event(h)}
  BY <1>1 DEF Watching
<1>6. Posture(c, {First(c)}, {"w"}) => h = First(c)
  BY <1>4 DEF Posture
<1>7. ASSUME Posture(c, Both, {Waits(c)})
      PROVE  h = IF Waits(c) = "r" THEN "readable" ELSE "writable"
  <2>1. h \in {"readable", "writable"} /\ {Waits(c)} = {Event(h)}
    BY <1>4, <1>5, <1>7 DEF Posture, Both
  <2> QED BY <2>1 DEF Event
<1> QED BY <1>1, <1>2, <1>6, <1>7

\* A queued callback starts on a connection that is as the handler expects it.
LEMMA DispatchKeeps ==
    ASSUME Inv, NEW l \in Loops, Dispatch(l)
    PROVE  Inv'
<1>1. TypeOK /\ NoFault /\ TableInv /\ cur[l] = None
  BY DEF Inv, Dispatch
<1>2. PICK x \in batch[l] : /\ batch' = [batch EXCEPT ![l] = @ \ {x}]
                            /\ cur' = [cur EXCEPT ![l] = x[1]]
                            /\ todo' = [todo EXCEPT ![l] = Program[x[2]]]
  BY DEF Dispatch
<1> DEFINE c == x[1]  h == x[2]
<1>3. c \in Conns /\ h \in Handlers /\ x = <<c, h>>
  BY <1>1, <1>2 DEF TypeOK
<1> HIDE DEF c, h
<1>4. UNCHANGED <<sockVars, kernelVars, fds, events, histVars, procVars>>
  BY DEF Dispatch
<1>5. /\ batch \in [Loops -> SUBSET (Conns \X Handlers)] /\ cur \in [Loops -> Conns \cup {None}]
      /\ todo \in [Loops -> Seq(Steps)]
  BY <1>1 DEF TypeOK
<1>6. /\ cur' \in [Loops -> Conns \cup {None}] /\ cur'[l] = c
      /\ \A k \in Loops \ {l} : cur'[k] = cur[k]
  BY <1>2, <1>3, <1>5 DEF c
<1>7. Program[h] \in Places
  BY <1>3, Programs DEF Handlers, Places
<1>8. /\ todo' \in [Loops -> Seq(Steps)] /\ todo'[l] = Program[h]
      /\ \A k \in Loops \ {l} : todo'[k] = todo[k]
  <2>1. Program[h] \in Seq(Steps)
    BY <1>7, PlacesType
  <2> QED BY <1>2, <1>5, <2>1 DEF h
<1>9. /\ batch' \in [Loops -> SUBSET (Conns \X Handlers)] /\ batch'[l] = batch[l] \ {<<c, h>>}
      /\ \A k \in Loops \ {l} : batch'[k] = batch[k]
  BY <1>2, <1>3, <1>5
<1>10. \A d \in Conns : Owns(d)' <=> Owns(d)
  BY <1>4 DEF Owns, sockVars, kernelVars
<1>11. ASSUME NEW d \in Conns \ {c} PROVE ConnInv(d)'
  <2>1. ConnInv(d)
    BY DEF Inv
  <2>2. \A k \in Loops, g \in Handlers : <<d, g>> \in batch'[k] <=> <<d, g>> \in batch[k]
    BY <1>9
  <2>3. \A k \in Loops : (cur'[k] = d <=> cur[k] = d) /\ (cur[k] = d => todo'[k] = todo[k])
    BY <1>1, <1>6, <1>8, NoneAssumption
  <2>4. SameConn(d)
    BY <1>4, <1>10, <2>2, <2>3 DEF SameConn, Stored, sockVars, kernelVars, histVars, procVars
  <2> QED BY <1>1, <2>1, <2>4, SameConnInv
<1>12. ConnInv(c)'
  <2>1. ConnInv(c) /\ LifeInv(c) /\ <<c, h>> \in batch[l]
    BY <1>2, <1>3 DEF Inv, ConnInv
  <2>2. stage[c] = "live" /\ l = loopOf[c] /\ Waiting(c)
    BY <1>3, <2>1, QueuedOnce
  <2>3. QueueInv(c)'
    <3>1. ASSUME NEW k \in Loops, NEW g \in Handlers, <<c, g>> \in batch[k] PROVE k = l /\ g = h
      <4>1. k = loopOf[c] /\ Waiting(c)
        BY <1>3, <3>1, QueuedOnce
      <4>2. CASE Posture(c, {First(c)}, {"w"})
        <5>1. h = First(c)
          BY <1>3, <2>1, <4>2, QueuedOnce
        <5>2. g = First(c)
          BY <1>3, <3>1, <4>2, QueuedOnce
        <5> QED BY <2>2, <4>1, <5>1, <5>2
      <4>3. CASE Posture(c, Both, {Waits(c)})
        <5>1. h = IF Waits(c) = "r" THEN "readable" ELSE "writable"
          BY <1>3, <2>1, <4>3, QueuedOnce
        <5>2. g = IF Waits(c) = "r" THEN "readable" ELSE "writable"
          BY <1>3, <3>1, <4>3, QueuedOnce
        <5> QED BY <2>2, <4>1, <5>1, <5>2
      <4> QED BY <4>1, <4>2, <4>3 DEF Waiting
    <3>2. \A k \in Loops, g \in Handlers : <<c, g>> \notin batch'[k]
      BY <1>9, <3>1
    <3> QED BY <3>2 DEF QueueInv
  <2>4. \A k \in Loops : cur'[k] = c => stage'[c] = "live" /\ k = loopOf'[c]
    BY <1>4, <1>6, <2>1, <2>2 DEF ConnInv, sockVars
  <2>5. /\ \A H, E : Posture(c, H, E)' <=> Posture(c, H, E)
        /\ Waits(c)' = Waits(c) /\ ended' = ended /\ wbuf' = wbuf
    BY <1>3, <1>4, PostureKept DEF Waits, sockVars, kernelVars, histVars
  <2>6. LifeInv(c)'
    BY <1>3, <1>4, <1>10, <2>1, <2>2 DEF LifeInv, Held, sockVars, kernelVars, histVars
  <2>7. Doing(c, Program[h])'
    <3>1. CASE Posture(c, {First(c)}, {"w"}) /\ wbuf[c] = 0
      <4>1. h = First(c)
        BY <1>3, <2>1, <3>1, QueuedOnce
      <4>2. Program[h] \in {FromAccept, FromConnect}
        BY <4>1, Programs DEF First
      <4>3. \A t \in {FromAccept, FromConnect} : Doing(c, t)'
        BY <2>2, <2>5, <3>1 DEF Doing, Opening, Waiting, First
      <4> QED BY <4>2, <4>3
    <3>2. CASE Posture(c, Both, {Waits(c)})
      <4>1. h = IF Waits(c) = "r" THEN "readable" ELSE "writable"
        BY <1>3, <2>1, <3>2, QueuedOnce
      <4>2. CASE wbuf[c] > 0
        <5>1. Waits(c) = "w" /\ Program[h] = AtWrite
          BY <4>1, <4>2, Programs DEF Waits
        <5>2. Doing(c, AtWrite)'
          BY <2>2, <2>5, <3>2, <5>1 DEF Doing, Writing, Waiting
        <5> QED BY <5>1, <5>2
      <4>3. CASE ~(wbuf[c] > 0)
        <5>1. Waits(c) = "r" /\ Program[h] = AtRead /\ wbuf[c] = 0
          BY <1>1, <1>3, <4>1, <4>3, Programs DEF Waits, TypeOK
        <5>2. Doing(c, AtRead)'
          BY <2>2, <2>5, <3>2, <5>1 DEF Doing, Reading, Waiting
        <5> QED BY <5>1, <5>2
      <4> QED BY <4>2, <4>3
    <3> QED BY <2>2, <3>1, <3>2 DEF Waiting
  <2>8. Busy(c)'
    BY <1>4, <1>8, <2>2, <2>7 DEF Busy, sockVars
  <2> QED BY <1>4, <1>6, <2>2, <2>3, <2>4, <2>6, <2>8 DEF ConnInv, sockVars
<1>13. TypeOK'
  BY <1>1, <1>4, <1>6, <1>8, <1>9 DEF TypeOK, sockVars, kernelVars, histVars, procVars
<1>14. TableInv' /\ NoFault'
  BY <1>1, <1>4 DEF TableInv, FileInv, FreeInv, RecordInv, HotInv, NoFault, sockVars, kernelVars, procVars
<1> QED BY <1>3, <1>11, <1>12, <1>13, <1>14 DEF Inv

\* epoll_wait and kevent: the one event a connection waits for has a stored callback, which
\* is queued before kqueue forgets the edge.
LEMMA PollKeeps ==
    ASSUME Inv, NEW l \in Loops, Poll(l)
    PROVE  Inv'
<1>1. TypeOK /\ NoFault /\ TableInv /\ cur[l] = None /\ batch[l] = {}
  BY DEF Inv, Poll
<1>2. /\ batch' = [batch EXCEPT ![l] =
            {<<e.conn, e.cb>> : e \in {x \in fds[l] : Event(x.cb) \in Reported(l, x.fd)}}]
      /\ interest' = [interest EXCEPT ![l] = [f \in Fds |-> [interest[l][f] EXCEPT !.hot = {}]]]
      /\ UNCHANGED <<sockVars, file, link, fds, events, cur, todo, histVars, procVars>>
  BY DEF Poll
<1>3. /\ interest \in [Loops -> [Fds -> [on : SUBSET {"r", "w"}, hot : SUBSET {"r", "w"}]]]
      /\ fds \in [Loops -> SUBSET [fd : Fds, conn : Conns, cb : Handlers]]
      /\ batch \in [Loops -> SUBSET (Conns \X Handlers)]
      /\ backend \in {"epoll", "kqueue"}
  BY <1>1, PolicyAssumption DEF TypeOK
<1>4. /\ \A k \in Loops \ {l} : interest'[k] = interest[k]
      /\ \A f \in Fds : interest'[l][f] = [interest[l][f] EXCEPT !.hot = {}]
  BY <1>2, <1>3
<1>5. ASSUME NEW f \in Fds
      PROVE  /\ [interest[l][f] EXCEPT !.hot = {}] \in [on : SUBSET {"r", "w"}, hot : SUBSET {"r", "w"}]
             /\ interest'[l][f].on = interest[l][f].on /\ interest'[l][f].hot = {}
  <2>1. interest[l][f] \in [on : SUBSET {"r", "w"}, hot : SUBSET {"r", "w"}]
    BY <1>3
  <2> QED BY <1>4, <2>1
<1>6. interest' \in [Loops -> [Fds -> [on : SUBSET {"r", "w"}, hot : SUBSET {"r", "w"}]]]
  BY <1>2, <1>3, <1>5
<1>7. \A k \in Loops, f \in Fds : interest'[k][f].on = interest[k][f].on
  BY <1>4, <1>5
<1> DEFINE Q == {<<e.conn, e.cb>> : e \in {x \in fds[l] : Event(x.cb) \in Reported(l, x.fd)}}
<1>8. Q \subseteq Conns \X Handlers
  BY <1>3
<1>9. ASSUME NEW d \in Conns, NEW h \in Handlers, <<d, h>> \in Q
      PROVE  \E f \in Fds : Stored(d, l, f, h) /\ Event(h) \in Reported(l, f)
  <2>1. PICK e \in fds[l] : <<d, h>> = <<e.conn, e.cb>> /\ Event(e.cb) \in Reported(l, e.fd)
    BY <1>9
  <2>2. e \in [fd : Fds, conn : Conns, cb : Handlers]
    BY <1>3
  <2>3. e.conn = d /\ e.cb = h
    BY <2>1
  <2>4. e = [fd |-> e.fd, conn |-> d, cb |-> h] /\ e.fd \in Fds
    BY <2>2, <2>3
  <2>5. Stored(d, l, e.fd, h)
    BY <2>4 DEF Stored
  <2> QED BY <2>1, <2>3, <2>4, <2>5
<1>10. ASSUME NEW d \in Conns, NEW h \in Handlers, NEW f \in Fds,
              Stored(d, l, f, h), Event(h) \in Reported(l, f)
       PROVE  <<d, h>> \in Q
  <2> DEFINE e == [fd |-> f, conn |-> d, cb |-> h]
  <2>1. e \in fds[l] /\ e.conn = d /\ e.cb = h /\ e.fd = f
    BY <1>10 DEF Stored
  <2> QED BY <1>10, <2>1
<1>11. /\ batch' \in [Loops -> SUBSET (Conns \X Handlers)] /\ batch'[l] = Q
       /\ \A k \in Loops \ {l} : batch'[k] = batch[k]
  BY <1>2, <1>3, <1>8
<1> HIDE DEF Q
<1>12. ASSUME NEW f \in Fds PROVE Reported(l, f) \subseteq interest[l][f].on
  <2>1. interest[l][f].hot \subseteq interest[l][f].on
    BY <1>1 DEF TableInv, HotInv
  <2> QED BY <2>1 DEF Reported, EpollReported, KqueueReported, Holds
<1>13. ASSUME NEW d \in Conns, NEW h \in Handlers, <<d, h>> \in Q
       PROVE  /\ stage[d] = "live" /\ l = loopOf[d]
              /\ Watching(d, {Event(h)}) /\ Stored(d, l, fdOf[d], h)
  <2>1. PICK f \in Fds : Stored(d, l, f, h) /\ Event(h) \in Reported(l, f)
    BY <1>9, <1>13
  <2>2. l = loopOf[d] /\ f = fdOf[d] /\ stage[d] \in {"stored", "live"}
    BY <2>1, HooksAt
  <2>3. Event(h) \in interest[l][fdOf[d]].on
    BY <1>12, <2>1, <2>2
  <2>4. \A E : Watching(d, E) => Event(h) \in E
    BY <2>2, <2>3 DEF Watching
  <2>5. stage[d] = "live"
    BY <2>2, <2>4 DEF Inv, ConnInv, LifeInv
  <2>6. Waiting(d)
    BY <1>1, <2>2, <2>5, NoneAssumption DEF Inv, ConnInv
  <2>7. \E e : Watching(d, {e})
    BY <2>6 DEF Waiting, Posture
  <2> QED BY <2>1, <2>2, <2>4, <2>5, <2>7
<1>14. \A d \in Conns : Owns(d)' <=> Owns(d)
  BY <1>2 DEF Owns, sockVars
<1>15. ASSUME NEW d \in Conns, ~(stage[d] = "live" /\ loopOf[d] = l)
       PROVE  ConnInv(d)'
  <2>1. ConnInv(d)
    BY DEF Inv
  <2>2. \A k \in Loops, g \in Handlers : <<d, g>> \in batch'[k] <=> <<d, g>> \in batch[k]
    BY <1>1, <1>11, <1>13, <1>15
  <2>3. Owns(d) => fdOf[d] \in Fds
    BY <1>1 DEF Owns, TypeOK
  <2>4. Owns(d) => \A k \in Loops :
            /\ interest'[k][fdOf[d]].on = interest[k][fdOf[d]].on
            /\ stage[d] = "live" /\ k = loopOf[d] => interest'[k][fdOf[d]] = interest[k][fdOf[d]]
    BY <1>4, <1>7, <1>15, <2>3
  <2>5. SameConn(d)
    BY <1>2, <1>14, <2>2, <2>4 DEF SameConn, Stored, sockVars, histVars, procVars
  <2> QED BY <1>1, <2>1, <2>5, SameConnInv
<1>16. ASSUME NEW d \in Conns, stage[d] = "live", loopOf[d] = l
       PROVE  ConnInv(d)'
  <2>1. ConnInv(d) /\ LifeInv(d) /\ Waiting(d)
    BY <1>1, <1>16, NoneAssumption DEF Inv, ConnInv
  <2>2. Owns(d) /\ fdOf[d] \in Fds
    BY <1>1, <1>16, <2>1 DEF LifeInv, Held, Owns, TypeOK
  <2>3. \A H : Hooked(d, H)' <=> Hooked(d, H)
    BY <1>2 DEF Hooked, Stored, sockVars
  <2>4. \A E : Watching(d, E)' <=> Watching(d, E)
    <3>1. fdOf' = fdOf /\ loopOf' = loopOf
      BY <1>2 DEF sockVars
    <3>2. \A k \in Loops : interest'[k][fdOf[d]].on = interest[k][fdOf[d]].on
      BY <1>7, <2>2
    <3> QED BY <3>1, <3>2 DEF Watching
  <2>5. \A H, E : Posture(d, H, E)' <=> Posture(d, H, E)
    BY <2>3, <2>4 DEF Posture
  <2>6. QueueInv(d)'
    <3> SUFFICES ASSUME NEW k \in Loops, NEW h \in Handlers, <<d, h>> \in batch'[k]
                 PROVE  /\ stage'[d] = "live" /\ k = loopOf'[d] /\ cur'[k] # d
                        /\ Watching(d, {Event(h)})' /\ Stored(d, k, fdOf[d], h)'
      BY <1>2 DEF QueueInv, Event, Stored, sockVars
    <3>1. CASE k = l
      <4>1. Watching(d, {Event(h)}) /\ Stored(d, l, fdOf[d], h)
        BY <1>11, <1>13, <3>1
      <4> QED BY <1>1, <1>2, <1>16, <2>4, <3>1, <4>1, NoneAssumption DEF Stored, sockVars
    <3>2. CASE k # l
      BY <1>11, <1>16, <2>1, <3>2 DEF ConnInv, QueueInv
    <3> QED BY <3>1, <3>2
  <2>7. ASSUME NEW e, NEW h \in Handlers, Event(h) = e, Stored(d, l, fdOf[d], h),
               Unseen(d, e) => Queued(d), Unseen(d, e)'
        PROVE  Queued(d)'
    <3>1. backend = "kqueue" /\ Ready(d, e)
      BY <1>2, <2>7 DEF Unseen, Ready, sockVars, procVars
    <3>2. ~Queued(d)
      BY <1>1, <1>16 DEF Queued
    <3>3. e \in interest[l][fdOf[d]].hot
      BY <1>16, <2>7, <3>1, <3>2 DEF Unseen
    <3>4. e \in Reported(l, fdOf[d])
      <4>1. file[fdOf[d]] = d /\ d # None
        BY <2>2, NoneAssumption DEF Owns
      <4> QED BY <3>1, <3>3, <4>1 DEF Reported, KqueueReported, Holds
    <3>5. <<d, h>> \in batch'[l]
      BY <1>10, <1>11, <2>2, <2>7, <3>4
    <3> QED BY <1>2, <1>16, <3>5 DEF Queued, sockVars
  <2>8. Waits(d)' = Waits(d) /\ ended' = ended /\ wbuf' = wbuf
    BY <1>2 DEF Waits, sockVars, histVars
  <2>9. Waiting(d)'
    <3>1. CASE Posture(d, {First(d)}, {"w"}) /\ wbuf[d] = 0 /\ (Unseen(d, "w") => Queued(d))
      <4>1. First(d) \in Handlers /\ Event(First(d)) = "w"
        BY DEF First, Handlers, Event
      <4>2. Stored(d, l, fdOf[d], First(d))
        BY <1>16, <2>2, <3>1, <4>1 DEF Posture, Hooked
      <4>3. Unseen(d, "w")' => Queued(d)'
        BY <2>7, <3>1, <4>1, <4>2
      <4> QED BY <2>1, <2>5, <2>8, <3>1, <4>3 DEF Waiting, First
    <3>2. CASE Posture(d, Both, {Waits(d)}) /\ (Unseen(d, Waits(d)) => Queued(d))
      <4> DEFINE h == IF Waits(d) = "r" THEN "readable" ELSE "writable"
      <4>1. h \in Handlers /\ h \in Both /\ Event(h) = Waits(d)
        BY DEF Handlers, Both, Event, Waits
      <4> HIDE DEF h
      <4>2. Stored(d, l, fdOf[d], h)
        BY <1>16, <2>2, <3>2, <4>1 DEF Posture, Hooked
      <4>3. \A e : e = Waits(d) /\ Unseen(d, e)' => Queued(d)'
        BY <2>7, <3>2, <4>1, <4>2
      <4> QED BY <2>1, <2>5, <2>8, <3>2, <4>3 DEF Waiting
    <3> QED BY <2>1, <3>1, <3>2 DEF Waiting
  <2>10. LifeInv(d)'
    BY <1>2, <1>14, <1>16, <2>1 DEF LifeInv, Held, sockVars, histVars
  <2> QED BY <1>1, <1>2, <1>16, <2>1, <2>6, <2>9, <2>10, NoneAssumption DEF ConnInv, sockVars
<1>17. TypeOK'
  BY <1>1, <1>2, <1>6, <1>11 DEF TypeOK, sockVars, histVars, procVars
<1>18. FileInv' /\ FreeInv' /\ NoFault'
  BY <1>1, <1>2, <1>7 DEF TableInv, FileInv, FreeInv, NoFault, sockVars, procVars
<1>19. RecordInv'
  BY <1>1, <1>2, <1>7 DEF TableInv, RecordInv, procVars
<1>20. HotInv'
  BY <1>1, <1>4, <1>5 DEF TableInv, HotInv
<1> QED BY <1>15, <1>16, <1>17, <1>18, <1>19, <1>20 DEF Inv, TableInv

-----------------------------------------------------------------------------
(* The peer. *)

\* Whatever the peer does, the event it causes is noted where it is watched.
LEMMA PeerKeeps ==
    ASSUME Inv, NEW c \in Conns, Owns(c), NEW evs, Fire(c, evs), NEW r \in Sides,
           link' = [link EXCEPT ![c] = r], link[c].peer # "open" => r.peer # "open",
           \A i : Ready(c, i)' => Ready(c, i) \/ i \in evs,
           UNCHANGED <<sockVars, file, loopVars, histVars, procVars>>
    PROVE  Inv'
<1>1. TypeOK /\ NoFault /\ TableInv /\ ConnInv(c) /\ LifeInv(c)
  BY DEF Inv, ConnInv
<1>2. fdOf[c] \in Fds
  BY <1>1 DEF TypeOK, Owns
<1>3. /\ interest \in [Loops -> [Fds -> [on : SUBSET {"r", "w"}, hot : SUBSET {"r", "w"}]]]
      /\ link \in [Conns -> Sides] /\ backend \in {"epoll", "kqueue"}
  BY <1>1, PolicyAssumption DEF TypeOK, Sides
<1>4. /\ link' \in [Conns -> Sides] /\ link'[c] = r
      /\ \A d \in Conns \ {c} : link'[d] = link[d]
  BY <1>3
<1> DEFINE n(k) == [interest[k][fdOf[c]] EXCEPT !.hot =
                        IF backend = "epoll" THEN {} ELSE @ \cup (evs \cap Watched(k, c))]
<1>5. ASSUME NEW k \in Loops
      PROVE  /\ n(k) \in [on : SUBSET {"r", "w"}, hot : SUBSET {"r", "w"}]
             /\ n(k).on = interest[k][fdOf[c]].on
             /\ n(k).hot \subseteq n(k).on
             /\ backend = "kqueue" =>
                    n(k).hot = interest[k][fdOf[c]].hot \cup (evs \cap interest[k][fdOf[c]].on)
  <2>1. interest[k][fdOf[c]] \in [on : SUBSET {"r", "w"}, hot : SUBSET {"r", "w"}]
    BY <1>2, <1>3
  <2>2. interest[k][fdOf[c]].hot \subseteq interest[k][fdOf[c]].on
    BY <1>1, <1>2 DEF TableInv, HotInv
  <2> QED BY <1>3, <2>1, <2>2 DEF Watched
<1>6. interest' = [k \in Loops |-> [interest[k] EXCEPT ![fdOf[c]] = n(k)]]
  BY DEF Fire
<1> HIDE DEF n
<1>7. /\ interest' \in [Loops -> [Fds -> [on : SUBSET {"r", "w"}, hot : SUBSET {"r", "w"}]]]
      /\ \A k \in Loops : interest'[k][fdOf[c]] = n(k)
      /\ \A k \in Loops, f \in Fds : f # fdOf[c] => interest'[k][f] = interest[k][f]
  BY <1>2, <1>3, <1>5, <1>6
<1>8. \A k \in Loops, f \in Fds : interest'[k][f].on = interest[k][f].on
  BY <1>5, <1>7
<1>9. \A d \in Conns : Owns(d)' <=> Owns(d)
  BY DEF Owns, sockVars
<1>10. ASSUME NEW d \in Conns \ {c} PROVE ConnInv(d)'
  <2>1. ConnInv(d)
    BY DEF Inv
  <2>2. Owns(d) => fdOf[d] \in Fds /\ fdOf[d] # fdOf[c]
    BY <1>1, OwnersDiffer DEF TypeOK, Owns
  <2>3. Owns(d) => \A k \in Loops : interest'[k][fdOf[d]] = interest[k][fdOf[d]]
    BY <1>7, <2>2
  <2>4. SameConn(d)
    BY <1>4, <1>9, <2>3 DEF SameConn, Stored, sockVars, loopVars, histVars, procVars
  <2> QED BY <1>1, <2>1, <2>4, SameConnInv
<1>11. fdOf' = fdOf /\ loopOf' = loopOf /\ fds' = fds /\ stage' = stage /\ wbuf' = wbuf /\ flags' = flags
       /\ ended' = ended /\ backend' = backend /\ cur' = cur /\ todo' = todo /\ batch' = batch
       /\ closed' = closed
  BY DEF sockVars, loopVars, histVars, procVars
<1>12. ConnInv(c)'
  <2>1. \A H : Hooked(c, H)' <=> Hooked(c, H)
    BY <1>11 DEF Hooked, Stored
  <2>2. \A E : Watching(c, E)' <=> Watching(c, E)
    <3>1. \A k \in Loops : interest'[k][fdOf[c]].on = interest[k][fdOf[c]].on
      BY <1>2, <1>8
    <3> QED BY <1>11, <3>1 DEF Watching
  <2>3. LifeInv(c)'
    BY <1>1, <1>4, <1>9, <1>11, <2>1, <2>2 DEF LifeInv, Held
  <2>4. QueueInv(c)'
    <3>1. QueueInv(c)
      BY <1>1 DEF ConnInv
    <3> QED BY <1>11, <2>2, <3>1 DEF QueueInv, Stored, Event
  <2>5. ASSUME stage[c] = "live"
        PROVE  IF cur[loopOf[c]] = c THEN Busy(c)' ELSE Waiting(c)'
    <3>1. loopOf[c] \in Loops
      BY <1>1, <2>5 DEF LifeInv
    <3> DEFINE w == Waits(c)
    <3>2. ASSUME NEW H, NEW e, Posture(c, H, {e}), Unseen(c, e)' PROVE Unseen(c, e)
      <4>1. interest[loopOf[c]][fdOf[c]].on = {e}
        BY <3>1, <3>2 DEF Posture, Watching
      <4>2. backend = "kqueue" /\ Ready(c, e)' /\ e \notin n(loopOf[c]).hot
        BY <1>7, <1>11, <3>1, <3>2 DEF Unseen
      <4>3. e \notin evs /\ e \notin interest[loopOf[c]][fdOf[c]].hot
        BY <1>5, <3>1, <4>1, <4>2
      <4>4. Ready(c, e)
        BY <4>2, <4>3
      <4> QED BY <4>2, <4>3, <4>4 DEF Unseen
    <3>3. /\ \A H, E : Posture(c, H, E)' <=> Posture(c, H, E)
          /\ \A F : Told(c, F)' <=> Told(c, F)
          /\ Waits(c)' = w
      BY <1>11, <2>1, <2>2 DEF Posture, Told, Waits
    <3>4. link[c].peer # "open" => link'[c].peer # "open"
      BY <1>4
    <3>5. \A t : Opening(c, t) => Opening(c, t)'
      BY <1>11, <3>3 DEF Opening, First
    <3>6. \A t : Reading(c, t) => Reading(c, t)'
      BY <1>11, <3>2, <3>3 DEF Reading
    <3>7. \A t : Writing(c, t) => Writing(c, t)'
      BY <1>11, <3>2, <3>3 DEF Writing
    <3>8. \A t : Leaving(c, t) => Leaving(c, t)'
      BY <1>11, <3>2, <3>3, <3>4 DEF Leaving
    <3>9. \A t : Ending(c, t) => Ending(c, t)'
      BY <1>11, <3>3, <3>4 DEF Ending
    <3>10. \A t : Doing(c, t) => Doing(c, t)'
      BY <1>11, <3>5, <3>6, <3>7, <3>8, <3>9 DEF Doing
    <3>11. Busy(c) => Busy(c)'
      BY <1>11, <3>10 DEF Busy
    <3>12. Queued(c)' <=> Queued(c)
      BY <1>11 DEF Queued
    <3>13. Waiting(c) => Waiting(c)'
      BY <1>11, <3>2, <3>3, <3>12 DEF Waiting, First
    <3> QED BY <1>1, <2>5, <3>11, <3>13 DEF ConnInv
  <2>6. \A k \in Loops : cur[k] = c => stage[c] = "live" /\ k = loopOf[c]
    BY <1>1 DEF ConnInv
  <2> QED BY <1>11, <2>3, <2>4, <2>5, <2>6 DEF ConnInv
<1>13. TypeOK'
  BY <1>1, <1>4, <1>7 DEF TypeOK, Sides, sockVars, loopVars, histVars, procVars
<1>14. FileInv' /\ NoFault'
  BY <1>1 DEF TableInv, FileInv, NoFault, sockVars, procVars
<1>15. FreeInv'
  BY <1>1, <1>8 DEF TableInv, FreeInv
<1>16. RecordInv'
  BY <1>1, <1>8 DEF TableInv, RecordInv, loopVars, procVars
<1>17. HotInv'
  <2> SUFFICES ASSUME NEW k \in Loops, NEW f \in Fds
               PROVE  interest'[k][f].hot \subseteq interest'[k][f].on
    BY DEF HotInv
  <2>1. interest[k][f].hot \subseteq interest[k][f].on
    BY <1>1 DEF TableInv, HotInv
  <2>2. CASE f = fdOf[c]
    <3>1. interest'[k][f] = n(k)
      BY <1>7, <2>2
    <3> QED BY <1>5, <3>1
  <2>3. CASE f # fdOf[c]
    <3>1. interest'[k][f] = interest[k][f]
      BY <1>7, <2>3
    <3> QED BY <2>1, <3>1
  <2> QED BY <2>2, <2>3
<1> QED BY <1>10, <1>12, <1>13, <1>14, <1>15, <1>16, <1>17 DEF Inv, TableInv

\* A request, a byte taken, the end or a reset of the peer's stream.
LEMMA PeerSteps ==
    ASSUME Inv, NEW c \in Conns, PeerSend(c) \/ PeerTake(c) \/ \E how \in PeerMay : PeerEnd(c, how)
    PROVE  Inv'
<1>1. link \in [Conns -> Sides] /\ link[c] \in Sides /\ Capacity \in Nat
  BY SizesAssumption DEF Inv, TypeOK, Sides
<1>2. CASE PeerSend(c)
  <2> DEFINE r == [link[c] EXCEPT !.in = link[c].in + 1, !.sent = link[c].sent + 1]
  <2>1. r \in Sides /\ r.peer = link[c].peer /\ r.out = link[c].out
    <3>1. link[c].in + 1 \in Nat /\ link[c].sent + 1 \in Nat
      BY <1>1 DEF Sides
    <3> QED BY <1>1, <3>1 DEF Sides
  <2>2. link' = [link EXCEPT ![c] = r] /\ Owns(c) /\ Fire(c, {"r"})
        /\ UNCHANGED <<sockVars, file, loopVars, histVars, procVars>>
    BY <1>1, <1>2 DEF PeerSend, Reachable
  <2> HIDE DEF r
  <2>3. link'[c] = r
    BY <1>1, <2>2
  <2>4. \A i : Ready(c, i)' => Ready(c, i) \/ i \in {"r"}
    BY <2>1, <2>3 DEF Ready
  <2> QED BY <2>1, <2>2, <2>4, PeerKeeps
<1>3. CASE PeerTake(c)
  <2> DEFINE r == [link[c] EXCEPT !.out = link[c].out - 1]
  <2>1. r \in Sides /\ r.peer = link[c].peer /\ r.in = link[c].in
    <3>1. link[c].out - 1 \in Nat
      BY <1>1, <1>3 DEF PeerTake, Sides
    <3> QED BY <1>1, <3>1 DEF Sides
  <2>2. link' = [link EXCEPT ![c] = r] /\ Owns(c) /\ Fire(c, {"w"})
        /\ UNCHANGED <<sockVars, file, loopVars, histVars, procVars>>
    BY <1>1, <1>3 DEF PeerTake, Reachable
  <2> HIDE DEF r
  <2>3. link'[c] = r
    BY <1>1, <2>2
  <2>4. \A i : Ready(c, i)' => Ready(c, i) \/ i \in {"w"}
    BY <2>1, <2>3 DEF Ready
  <2> QED BY <2>1, <2>2, <2>4, PeerKeeps
<1>4. ASSUME NEW how \in PeerMay, PeerEnd(c, how) PROVE Inv'
  <2> DEFINE r == [link[c] EXCEPT !.peer = how, !.out = IF how = "reset" THEN 0 ELSE link[c].out]
  <2>1. r \in Sides /\ r.peer # "open"
    <3>1. how \in {"fin", "reset"}
      BY PolicyAssumption
    <3> QED BY <1>1, <3>1 DEF Sides
  <2>2. link' = [link EXCEPT ![c] = r] /\ Owns(c) /\ Fire(c, {"r", "w"})
        /\ UNCHANGED <<sockVars, file, loopVars, histVars, procVars>>
    BY <1>1, <1>4 DEF PeerEnd, Reachable
  <2> HIDE DEF r
  <2>3. \A i : Ready(c, i)' => Ready(c, i) \/ i \in {"r", "w"}
    BY DEF Ready
  <2> QED BY <2>1, <2>2, <2>3, PeerKeeps
<1> QED BY <1>2, <1>3, <1>4

-----------------------------------------------------------------------------
(* The theorems. *)

\* The invariant holds before the first connection.
LEMMA InitInv ==
    ASSUME Init
    PROVE  Inv
<1>1. TypeOK
  <2>1. <<>> \in Seq(Steps) /\ 0 \in Nat
    OBVIOUS
  <2>2. /\ todo \in [Loops -> Seq(Steps)] /\ msgs \in [Conns -> Nat] /\ ended \in [Conns -> Nat]
        /\ wbuf \in [Conns -> Nat]
    BY <2>1 DEF Init
  <2>3. link \in [Conns -> [peer : {"open", "fin", "reset"}, in : Nat, out : Nat, sent : Nat]]
    BY <2>1 DEF Init
  <2>4. interest \in [Loops -> [Fds -> [on : SUBSET {"r", "w"}, hot : SUBSET {"r", "w"}]]]
    BY DEF Init, Unwatched
  <2>5. /\ events \in [Loops -> [Fds -> SUBSET {"r", "w"}]]
        /\ batch \in [Loops -> SUBSET (Conns \X Handlers)] /\ cur \in [Loops -> Conns \cup {None}]
        /\ fds \in [Loops -> SUBSET [fd : Fds, conn : Conns, cb : Handlers]]
    BY DEF Init
  <2>6. /\ stage \in [Conns -> {"unborn", "accepted", "stored", "live", "gone"}]
        /\ fdOf \in [Conns -> Fds \cup {None}] /\ loopOf \in [Conns -> Loops \cup {None}]
        /\ closed \in [Conns -> BOOLEAN] /\ flags \in [Conns -> SUBSET {"eof", "eop", "reset"}]
        /\ file \in [Fds -> Conns \cup {None}] /\ backend \in Backends /\ fault \in BOOLEAN
    BY DEF Init
  <2> QED BY <2>2, <2>3, <2>4, <2>5, <2>6 DEF TypeOK
<1>2. TableInv /\ NoFault
  BY DEF Init, TableInv, FileInv, FreeInv, RecordInv, HotInv, NoFault, Unwatched
<1>3. ASSUME NEW c \in Conns PROVE ConnInv(c)
  <2>1. /\ stage[c] = "unborn" /\ ~Owns(c) /\ ~closed[c] /\ flags[c] = {} /\ wbuf[c] = 0 /\ ended[c] = 0
    BY DEF Init, Owns
  <2>2. Hooked(c, {})
    BY DEF Init, Hooked, Stored
  <2>3. LifeInv(c)
    BY <2>1, <2>2 DEF LifeInv, Held
  <2>4. QueueInv(c) /\ \A l \in Loops : cur[l] # c
    BY NoneAssumption DEF Init, QueueInv
  <2> QED BY <2>1, <2>3, <2>4 DEF ConnInv
<1> QED BY <1>1, <1>2, <1>3 DEF Inv

\* And while nothing happens.
LEMMA StutterInv ==
    ASSUME Inv, UNCHANGED vars
    PROVE  Inv'
<1>1. TypeOK /\ TableInv /\ NoFault
  BY DEF Inv
<1>2. TypeOK'
  BY <1>1 DEF TypeOK, vars, sockVars, kernelVars, loopVars, histVars, procVars
<1>3. TableInv' /\ NoFault'
  BY <1>1 DEF TableInv, FileInv, FreeInv, RecordInv, HotInv, NoFault, vars, sockVars, kernelVars,
     loopVars, procVars
<1>4. ASSUME NEW d \in Conns PROVE ConnInv(d)'
  <2>1. SameConn(d)
    BY DEF SameConn, Owns, Stored, vars, sockVars, kernelVars, loopVars, histVars, procVars
  <2> QED BY <1>1, <2>1, SameConnInv DEF Inv
<1> QED BY <1>2, <1>3, <1>4 DEF Inv

\* Every step of the loops, the other threads and the peers keeps it.
LEMMA NextInv ==
    ASSUME Answering, Inv, [Next]_vars
    PROVE  Inv'
<1>1. ASSUME NEW l \in Loops, NEW c \in Conns, HandlerStep(l, c) PROVE Inv'
  <2>1. CASE Read(l, c) \/ Write(l, c) \/ Settle(l, c) \/ FinishRead(l, c)
    BY <2>1, ReadKeeps, WriteKeeps, SettleKeeps, FinishReadKeeps
  <2>2. CASE FinishWrite(l, c) \/ ResumeRead(l, c) \/ CheckWrite(l, c) \/ Remove(l, c)
    BY <2>2, FinishWriteKeeps, ResumeReadKeeps, CheckWriteKeeps, RemoveKeeps
  <2>3. CASE CheckConnect(l, c) \/ Prepare(l, c) \/ StartRead(l, c) \/ Release(l, c)
    BY <2>3, CheckConnectKeeps, PrepareKeeps, StartReadKeeps, ReleaseKeeps
  <2>4. CASE Unhook(l, c) \/ Close(l, c)
    BY <2>4, NeverUnhooks
  <2>5. CASE \E step \in Callbacks : Callback(l, c, step)
    BY <2>5, CallbackKeeps
  <2> QED BY <1>1, <2>1, <2>2, <2>3, <2>4, <2>5 DEF HandlerStep
<1>2. ASSUME NEW l \in Loops, Worker(l) PROVE Inv'
  BY <1>1, <1>2, PollKeeps, DispatchKeeps DEF Worker
<1>3. ASSUME NEW c \in Conns, Hand(c) PROVE Inv'
  BY <1>3, StoreKeeps, PublishKeeps DEF Hand
<1>4. ASSUME NEW c \in Conns,
             Accept(c) \/ PeerSend(c) \/ PeerTake(c) \/ \E how \in PeerMay : PeerEnd(c, how)
      PROVE  Inv'
  BY <1>4, AcceptKeeps, PeerSteps
<1> QED BY <1>2, <1>3, <1>4, StutterInv DEF Next

\* The invariant holds of the answering server.
LEMMA AlwaysInv ==
    ASSUME Answering
    PROVE  Spec => []Inv
<1>1. Init => Inv
  BY InitInv
<1>2. Inv /\ [Next]_vars => Inv'
  BY NextInv
<1> QED BY <1>1, <1>2, PTL DEF Spec

\* What the callbacks stored for a connection are.
LEMMA HooksAre ==
    ASSUME TypeOK, NEW c \in Conns, fdOf[c] \in Fds, loopOf[c] \in Loops,
           NEW H \in SUBSET Handlers, Hooked(c, H)
    PROVE  Hooks(c) = H
<1> DEFINE l == loopOf[c]  f == fdOf[c]
<1>1. fds[l] \subseteq [fd : Fds, conn : Conns, cb : Handlers]
  BY DEF TypeOK
<1>2. ASSUME NEW h \in H PROVE h \in Hooks(c)
  <2> DEFINE e == [fd |-> f, conn |-> c, cb |-> h]
  <2>1. e \in fds[l] /\ e.conn = c /\ e.fd = f /\ e.cb = h
    BY DEF Hooked, Stored
  <2> QED BY <2>1 DEF Hooks
<1>3. ASSUME NEW e \in fds[l], e.conn = c, e.fd = f PROVE e.cb \in H
  <2>1. e.cb \in Handlers /\ e = [fd |-> f, conn |-> c, cb |-> e.cb]
    BY <1>1, <1>3
  <2> QED BY <2>1 DEF Hooked, Stored
<1>4. Hooks(c) \subseteq H
  BY <1>3 DEF Hooks
<1> QED BY <1>2, <1>4

\* What the invariant says of the connections.
LEMMA InvImplies ==
    ASSUME Inv
    PROVE  NeverStranded /\ ClosedIsFinal /\ NoOutputDropped
<1>1. TypeOK /\ TableInv
  BY DEF Inv
<1>2. NeverStranded
  <2> SUFFICES ASSUME NEW c \in Conns, stage[c] = "live", ~Served(c)
               PROVE  LET l == loopOf[c]
                          waiting(e) ==
                            /\ Watched(l, c) = {e}
                            /\ backend = "kqueue" =>
                                /\ Recorded(l, c) = {e}
                                /\ Ready(c, e) => \/ e \in interest[l][fdOf[c]].hot
                                                  \/ \E x \in batch[l] : x[1] = c
                      IN  /\ Owns(c)
                          /\ \/ Hooks(c) \in {{"acpt_writable"}, {"cont_writable"}} /\ waiting("w")
                             \/ /\ Hooks(c) = {"readable", "writable"}
                                /\ waiting(IF wbuf[c] > 0 THEN "w" ELSE "r")
    BY DEF NeverStranded
  <2> DEFINE l == loopOf[c]
             waiting(e) ==
                /\ Watched(l, c) = {e}
                /\ backend = "kqueue" =>
                    /\ Recorded(l, c) = {e}
                    /\ Ready(c, e) => \/ e \in interest[l][fdOf[c]].hot
                                      \/ \E x \in batch[l] : x[1] = c
  <2>1. ConnInv(c) /\ LifeInv(c)
    BY DEF Inv, ConnInv
  <2>2. Owns(c) /\ l \in Loops /\ fdOf[c] \in Fds
    BY <1>1, <2>1 DEF LifeInv, Held, Owns, TypeOK
  <2>3. Waiting(c)
    BY <2>1, <2>2 DEF ConnInv, Served
  <2>4. ASSUME NEW e, NEW H, Posture(c, H, {e}), Unseen(c, e) => Queued(c)
        PROVE  waiting(e)
    <3>1. Watched(l, c) = {e}
      BY <2>2, <2>4 DEF Posture, Watching, Watched
    <3>2. backend = "kqueue" => Recorded(l, c) = {e}
      BY <1>1, <2>2, <3>1 DEF TableInv, RecordInv, Recorded, Watched
    <3>3. Queued(c) => \E x \in batch[l] : x[1] = c
      BY DEF Queued
    <3> QED BY <2>4, <3>1, <3>2, <3>3 DEF Unseen
  <2> HIDE DEF waiting
  <2>5. CASE Posture(c, {First(c)}, {"w"}) /\ (Unseen(c, "w") => Queued(c))
    <3>1. Hooks(c) = {First(c)}
      BY <1>1, <2>2, <2>5, HooksAre DEF Posture, First, Handlers
    <3>2. waiting("w")
      BY <2>4, <2>5
    <3> QED BY <2>2, <3>1, <3>2 DEF First, waiting
  <2>6. CASE Posture(c, Both, {Waits(c)}) /\ (Unseen(c, Waits(c)) => Queued(c))
    <3>1. Both \in SUBSET Handlers
      BY DEF Both, Handlers
    <3>2. Hooks(c) = {"readable", "writable"}
      BY <1>1, <2>2, <2>6, <3>1, HooksAre DEF Posture, Both
    <3>3. waiting(Waits(c))
      BY <2>4, <2>6
    <3> QED BY <2>2, <3>2, <3>3 DEF Waits, waiting
  <2> QED BY <2>3, <2>5, <2>6 DEF Waiting
<1>3. ClosedIsFinal
  <2> SUFFICES ASSUME NEW c \in Conns, ended[c] > 0
               PROVE  /\ ended[c] = 1
                      /\ \A l \in Loops : cur[l] = c =>
                            \A i \in 1..Len(todo[l]) : todo[l][i] \notin Callbacks
                      /\ \A l \in Loops : \A x \in batch[l] : x[1] # c
                      /\ ~Served(c) => stage[c] = "gone" /\ ~Owns(c)
    BY DEF ClosedIsFinal
  <2>1. ConnInv(c) /\ LifeInv(c) /\ ended[c] # 0
    BY DEF Inv, ConnInv
  <2>2. ASSUME \A l \in Loops, h \in Handlers : <<c, h>> \notin batch[l],
               NEW l \in Loops, NEW x \in batch[l]
        PROVE  x[1] # c
    <3>1. x \in Conns \X Handlers
      BY <1>1 DEF TypeOK
    <3> QED BY <2>2, <3>1
  <2>3. CASE stage[c] = "live"
    <3>1. cur[loopOf[c]] = c /\ Busy(c) /\ loopOf[c] \in Loops
      BY <2>1, <2>3 DEF ConnInv, Waiting, LifeInv
    <3>2. ended[c] = 1 /\ Ending(c, todo[loopOf[c]])
      BY <2>1, <3>1 DEF Busy, Doing
    <3>3. Served(c) /\ \A l \in Loops : cur[l] = c => l = loopOf[c]
      BY <2>1, <3>1 DEF Served, ConnInv
    <3>4. \A l \in Loops, h \in Handlers : <<c, h>> \notin batch[l]
      BY <2>1, <3>1 DEF ConnInv, QueueInv
    <3>5. todo[loopOf[c]] \in {AtRemove, AtRelease}
      BY <3>2 DEF Ending
    <3>6. \A t \in {AtRemove, AtRelease} : \A i \in 1..Len(t) : t[i] \notin Callbacks
      BY DEF AtRemove, AtRelease, Callbacks
    <3> QED BY <2>2, <3>2, <3>3, <3>4, <3>5, <3>6
  <2>4. CASE stage[c] = "gone"
    <3>1. ended[c] = 1 /\ ~Owns(c)
      BY <2>1, <2>4 DEF LifeInv, Held
    <3>2. /\ \A k \in Loops : cur[k] # c
          /\ \A l \in Loops, h \in Handlers : <<c, h>> \notin batch[l]
      BY <2>4, Untouched
    <3> QED BY <2>2, <2>4, <3>1, <3>2
  <2> QED BY <1>1, <2>1, <2>3, <2>4 DEF LifeInv, TypeOK
<1>4. NoOutputDropped
  BY DEF NoOutputDropped, Inv, ConnInv, LifeInv
<1> QED BY <1>2, <1>3, <1>4

\* The state of sockets, kernel and loops keeps its shape: an answering server stores, watches
\* and queues only what there is.
THEOREM TypeCorrect ==
    ASSUME Answering
    PROVE  Spec => []TypeOK
<1>1. Inv => TypeOK
  BY DEF Inv
<1> QED BY <1>1, AlwaysInv, PTL

\* No epoll_ctl, kevent, read, write or close of a handler fails or reaches the number of another
\* socket, so nothing is thrown out of a worker thread (tcp.cc:34-193, event_loop_epoll.cc,
\* event_loop_kqueue.cc).
THEOREM NothingFails ==
    ASSUME Answering
    PROVE  Spec => []NoFault
<1>1. Inv => NoFault
  BY DEF Inv
<1> QED BY <1>1, AlwaysInv, PTL

\* Between its handlers a connection waits for exactly the event that moves it on, its callback is
\* stored, and with kqueue no edge is lost (tcp.cc:34-148).
THEOREM NoneIsStranded ==
    ASSUME Answering
    PROVE  Spec => []NeverStranded
<1>1. Inv => NeverStranded
  BY InvImplies
<1> QED BY <1>1, AlwaysInv, PTL

\* on_closed is called at most once, nothing of the connection is run after it, and the
\* descriptor is closed (tcp.cc:77-81, 102-106).
THEOREM ClosingIsFinal ==
    ASSUME Answering
    PROVE  Spec => []ClosedIsFinal
<1>1. Inv => ClosedIsFinal
  BY InvImplies
<1> QED BY <1>1, AlwaysInv, PTL

\* A connection is closed with output pending only if its peer has ended it.
THEOREM OutputIsKept ==
    ASSUME Answering
    PROVE  Spec => []NoOutputDropped
<1>1. Inv => NoOutputDropped
  BY InvImplies
<1> QED BY <1>1, AlwaysInv, PTL

=============================================================================
