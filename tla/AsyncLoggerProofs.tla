-------------------------- MODULE AsyncLoggerProofs --------------------------
(***************************************************************************)
(* The safety of async_logger, for any set of threads, any number of lines *)
(* and of pieces per line.                                                 *)
(***************************************************************************)
EXTENDS AsyncLogger, SequenceTheorems, TLAPS

\* What operator<< puts into a buffer.
PieceSet == [thr : Threads, kind : {"head", "text", "end"}]

\* The two parts of the type invariant: what holds pieces, and the rest.
PieceTypeOK ==
    /\ buffers \in [0..1 -> Seq(PieceSet)]
    /\ written \in Seq(PieceSet) /\ log \in Seq(PieceSet)

CtlTypeOK ==
    /\ owner \in Threads \cup {Writer, None} /\ depth \in Nat /\ recur \in Nat
    /\ curr \in 0..1 /\ prev \in 0..1
    /\ stop \in BOOLEAN /\ missed \in BOOLEAN
    /\ tpc \in [Threads -> {"log", "notify"}]
    /\ lines \in [Threads -> Nat]
    /\ wpc \in {"top", "lock", "test", "sleep", "asleep", "woken", "swap", "write", "clear", "done"}
    /\ dtor \in {"out", "notify", "join", "over"}

\* A sequence of pieces that starts with a line, and in which a header comes
\* after the end of a line and nowhere else.
WellFormed(s) ==
    \A i \in 1..Len(s) :
        IF i = 1 \/ s[i - 1].kind = "end"
        THEN s[i].kind = "head"
        ELSE s[i].kind # "head" /\ s[i].thr = s[i - 1].thr

\* It does not stop in the middle of a line.
Ended(s) == s # <<>> => s[Len(s)].kind = "end"

\* Who has the recursive lock: the writer around its swap, a thread from its
\* first piece to log::endl, at the depth that recur_level_ counts.
LockInv ==
    /\ depth = 0 <=> owner = None
    /\ owner = Writer <=> wpc \in {"test", "sleep", "swap"}
    /\ owner \in Threads => depth = recur /\ recur # 0
    /\ owner \notin Threads => recur = 0

\* The buffer that is not being filled belongs to the writer, and is empty
\* unless it is being written.
SwapInv ==
    IF wpc \in {"write", "clear"} THEN prev = 1 - curr ELSE buffers[1 - curr] = <<>>

\* The log is made of lines, the last of them open while a thread has the lock.
LogInv ==
    /\ WellFormed(log)
    /\ owner \notin Threads => Ended(log)
    /\ owner \in Threads =>
        /\ log # <<>>
        /\ log[Len(log)].kind # "end" /\ log[Len(log)].thr = owner

\* Only the buffer being filled may stop in the middle of a line.
CutInv ==
    /\ Ended(written)
    /\ Ended(buffers[1 - curr])
    /\ owner \notin Threads => Ended(buffers[curr])

Inv == TypeOK /\ LockInv /\ SwapInv /\ OrderKept /\ LogInv /\ CutInv

-----------------------------------------------------------------------------
\* The type invariant is its two parts, now ...
LEMMA TypeParts == TypeOK <=> PieceTypeOK /\ CtlTypeOK
  BY Zenon DEF TypeOK, PieceTypeOK, CtlTypeOK, PieceSet

\* ... and after a step.
LEMMA TypePartsNext == TypeOK' <=> PieceTypeOK' /\ CtlTypeOK'
  BY Zenon DEF TypeOK, PieceTypeOK, CtlTypeOK, PieceSet

(* Sequences of pieces. *)

\* A sequence of lines goes on to be one when the pieces put after it are in
\* order among themselves and the first of them begins a line exactly where
\* none is open.
LEMMA WellFormedConcat ==
    ASSUME NEW S, NEW s \in Seq(S), NEW p \in Seq(S), p # <<>>, WellFormed(s),
           Ended(s) => p[1].kind = "head",
           ~Ended(s) => p[1].kind # "head" /\ p[1].thr = s[Len(s)].thr,
           \A i \in 2..Len(p) :
             IF p[i - 1].kind = "end"
             THEN p[i].kind = "head"
             ELSE p[i].kind # "head" /\ p[i].thr = p[i - 1].thr
    PROVE  WellFormed(s \o p)
<1> DEFINE u == s \o p
<1>1. /\ Len(s) \in Nat /\ Len(p) \in Nat /\ Len(p) # 0
      /\ Len(u) = Len(s) + Len(p)
      /\ \A i \in 1..(Len(s) + Len(p)) :
            u[i] = IF i <= Len(s) THEN s[i] ELSE p[i - Len(s)]
  BY LenProperties, EmptySeq, ConcatProperties
<1>2. /\ \A i \in 1..Len(s) : u[i] = s[i]
      /\ \A j \in 1..Len(p) : u[Len(s) + j] = p[j]
  BY <1>1
<1> HIDE DEF u
<1> SUFFICES ASSUME NEW i \in 1..Len(u)
             PROVE  IF i = 1 \/ u[i - 1].kind = "end"
                    THEN u[i].kind = "head"
                    ELSE u[i].kind # "head" /\ u[i].thr = u[i - 1].thr
  BY DEF WellFormed, u
<1>3. CASE i \in 1..Len(s)
  <2>1. u[i] = s[i] /\ (i # 1 => u[i - 1] = s[i - 1])
    BY <1>1, <1>2, <1>3
  <2> QED BY <1>3, <2>1 DEF WellFormed
<1>4. CASE i = Len(s) + 1
  <2>1. u[i] = p[1]
    BY <1>1, <1>2, <1>4
  <2>2. CASE s = <<>>
    <3>1. Ended(s) /\ i = 1
      BY <1>4, <2>2, EmptySeq DEF Ended
    <3> QED BY <2>1, <3>1
  <2>3. CASE s # <<>>
    <3>1. Len(s) \in 1..Len(s) /\ i - 1 = Len(s) /\ i # 1
      BY <1>1, <1>4, <2>3, EmptySeq
    <3>2. u[i - 1] = s[Len(s)]
      BY <3>1, <1>2
    <3>3. Ended(s) <=> s[Len(s)].kind = "end"
      BY <2>3 DEF Ended
    <3> QED BY <2>1, <3>1, <3>2, <3>3
  <2> QED BY <2>2, <2>3
<1>5. CASE i > Len(s) + 1
  <2>1. PICK j \in 2..Len(p) : i = Len(s) + j
    <3>1. i - Len(s) \in 2..Len(p) /\ i = Len(s) + (i - Len(s))
      BY <1>1, <1>5
    <3> QED BY <3>1
  <2>2. j - 1 \in 1..Len(p) /\ j \in 1..Len(p) /\ i - 1 = Len(s) + (j - 1) /\ i # 1
    BY <1>1, <2>1
  <2>3. u[i] = p[j] /\ u[i - 1] = p[j - 1]
    BY <1>2, <2>1, <2>2
  <2> QED BY <2>2, <2>3
<1> QED BY <1>1, <1>3, <1>4, <1>5

\* What comes before the rest of a sequence of lines is one.
LEMMA WellFormedPrefix ==
    ASSUME NEW S, NEW s \in Seq(S), NEW p \in Seq(S), WellFormed(s \o p)
    PROVE  WellFormed(s)
<1> DEFINE u == s \o p
<1>1. /\ Len(s) \in Nat /\ Len(p) \in Nat
      /\ Len(u) = Len(s) + Len(p)
      /\ \A i \in 1..(Len(s) + Len(p)) :
            u[i] = IF i <= Len(s) THEN s[i] ELSE p[i - Len(s)]
  BY LenProperties, ConcatProperties
<1>2. \A i \in 1..Len(s) : i \in 1..Len(u) /\ u[i] = s[i] /\ (i # 1 => u[i - 1] = s[i - 1])
  BY <1>1
<1>3. WellFormed(u)
  OBVIOUS
<1> HIDE DEF u
<1> QED BY <1>2, <1>3 DEF WellFormed

\* The last piece of two sequences put together is the last of the second,
\* where that has one.
LEMMA LastOfConcat ==
    ASSUME NEW S, NEW s \in Seq(S), NEW p \in Seq(S)
    PROVE  /\ p # <<>> => s \o p # <<>> /\ (s \o p)[Len(s \o p)] = p[Len(p)]
           /\ Ended(s) /\ Ended(p) => Ended(s \o p)
<1>1. /\ Len(s) \in Nat /\ Len(p) \in Nat
      /\ s \o p \in Seq(S)
      /\ Len(s \o p) = Len(s) + Len(p)
      /\ \A i \in 1..(Len(s) + Len(p)) :
            (s \o p)[i] = IF i <= Len(s) THEN s[i] ELSE p[i - Len(s)]
  BY LenProperties, ConcatProperties
<1>2. ASSUME p # <<>> PROVE s \o p # <<>> /\ (s \o p)[Len(s \o p)] = p[Len(p)]
  <2>1. Len(p) # 0
    BY <1>2, EmptySeq
  <2>2. Len(s \o p) # 0
    BY <1>1, <2>1
  <2> QED BY <1>1, <2>1, <2>2, EmptySeq
<1>3. ASSUME p = <<>> PROVE s \o p = s
  BY <1>3, ConcatEmptySeq
<1> QED BY <1>2, <1>3 DEF Ended

-----------------------------------------------------------------------------
(* A thread puts pieces. *)

\* What one operator<< puts: a header in front exactly when recur_level_ is 0,
\* all of it of the same thread, and nothing after the end of the line.
LEMMA PiecesProperties ==
    ASSUME NEW t \in Threads, NEW kind \in {"text", "end"}
    PROVE  LET p == Pieces(t, kind) IN
           /\ p \in Seq(PieceSet) /\ p # <<>>
           /\ p[Len(p)] = Piece(t, kind)
           /\ recur = 0 => p[1].kind = "head"
           /\ recur # 0 => p[1].kind # "head" /\ p[1].thr = t
           /\ \A i \in 2..Len(p) :
                IF p[i - 1].kind = "end"
                THEN p[i].kind = "head"
                ELSE p[i].kind # "head" /\ p[i].thr = p[i - 1].thr
<1> DEFINE p == Pieces(t, kind)
<1>1. Piece(t, kind) \in PieceSet /\ Piece(t, "head") \in PieceSet
  BY DEF Piece, PieceSet
<1>2. /\ Piece(t, kind).kind = kind /\ Piece(t, kind).thr = t
      /\ Piece(t, "head").kind = "head" /\ Piece(t, "head").thr = t
  BY DEF Piece
<1>3. CASE recur = 0
  <2>1. p = <<Piece(t, "head"), Piece(t, kind)>>
    BY <1>3 DEF Pieces
  <2> HIDE DEF p
  <2>2. p \in Seq(PieceSet) /\ Len(p) = 2 /\ p[1] = Piece(t, "head") /\ p[2] = Piece(t, kind)
    BY <1>1, <2>1
  <2>3. p # <<>>
    BY <2>2, EmptySeq
  <2>4. \A i \in 2..Len(p) : i = 2 /\ p[i - 1] = Piece(t, "head") /\ p[i] = Piece(t, kind)
    BY <2>2
  <2>5. p[Len(p)] = Piece(t, kind)
    BY <2>2
  <2> QED BY <1>2, <1>3, <2>2, <2>3, <2>4, <2>5 DEF p
<1>4. CASE recur # 0
  <2>1. p = <<Piece(t, kind)>>
    BY <1>4 DEF Pieces
  <2> HIDE DEF p
  <2>2. p \in Seq(PieceSet) /\ Len(p) = 1 /\ p[1] = Piece(t, kind)
    BY <1>1, <2>1
  <2>3. p # <<>>
    BY <2>2, EmptySeq
  <2>4. 2..Len(p) = {}
    BY <2>2
  <2>5. p[Len(p)] = Piece(t, kind)
    BY <2>2
  <2> QED BY <1>2, <1>4, <2>2, <2>3, <2>4, <2>5 DEF p
<1> QED BY <1>3, <1>4

\* The variables that hold pieces, in the words of this module.
LEMMA PieceTypes ==
    ASSUME Inv
    PROVE  /\ buffers \in [0..1 -> Seq(PieceSet)]
           /\ written \in Seq(PieceSet) /\ log \in Seq(PieceSet)
           /\ curr \in 0..1 /\ 1 - curr \in 0..1 /\ 1 - curr # curr /\ prev \in 0..1
           /\ buffers[curr] \in Seq(PieceSet) /\ buffers[1 - curr] \in Seq(PieceSet)
           /\ recur \in Nat /\ depth \in Nat
<1>1. /\ buffers \in [0..1 -> Seq(PieceSet)]
      /\ written \in Seq(PieceSet) /\ log \in Seq(PieceSet)
      /\ curr \in 0..1 /\ prev \in 0..1
      /\ recur \in Nat /\ depth \in Nat
  BY DEF Inv, TypeOK, PieceSet
<1>2. 1 - curr \in 0..1 /\ 1 - curr # curr
  BY <1>1
<1> QED BY <1>1, <1>2

\* operator<< and log::endl alike leave the log made of lines, and the pieces
\* where the writer will find them, in their order.
LEMMA PuttingKeepsOrder ==
    ASSUME Inv, NEW t \in Threads, NEW kind \in {"text", "end"}, Free(t),
           buffers' = [buffers EXCEPT ![curr] = @ \o Pieces(t, kind)],
           log' = log \o Pieces(t, kind),
           UNCHANGED <<curr, prev, wpc, written>>
    PROVE  /\ buffers' \in [0..1 -> Seq(PieceSet)] /\ log' \in Seq(PieceSet)
           /\ SwapInv' /\ OrderKept'
           /\ WellFormed(log)'
           /\ log' # <<>> /\ log'[Len(log')] = Piece(t, kind)
           /\ Ended(written)' /\ Ended(buffers[1 - curr])'
           /\ kind = "end" => Ended(buffers[curr])'
<1> DEFINE p == Pieces(t, kind)
<1>1. /\ p \in Seq(PieceSet) /\ p # <<>>
      /\ p[Len(p)] = Piece(t, kind)
      /\ recur = 0 => p[1].kind = "head"
      /\ recur # 0 => p[1].kind # "head" /\ p[1].thr = t
      /\ \A i \in 2..Len(p) :
            IF p[i - 1].kind = "end"
            THEN p[i].kind = "head"
            ELSE p[i].kind # "head" /\ p[i].thr = p[i - 1].thr
  BY PiecesProperties
<1>2. /\ buffers \in [0..1 -> Seq(PieceSet)]
      /\ written \in Seq(PieceSet) /\ log \in Seq(PieceSet)
      /\ curr \in 0..1 /\ 1 - curr \in 0..1 /\ 1 - curr # curr
      /\ buffers[curr] \in Seq(PieceSet) /\ buffers[1 - curr] \in Seq(PieceSet)
  BY PieceTypes
<1>3. log' = log \o p /\ buffers' = [buffers EXCEPT ![curr] = buffers[curr] \o p]
  OBVIOUS
<1> HIDE DEF p
<1>4. log \o p \in Seq(PieceSet) /\ buffers[curr] \o p \in Seq(PieceSet)
  BY <1>1, <1>2, ConcatProperties
<1>5. /\ buffers' \in [0..1 -> Seq(PieceSet)]
      /\ buffers'[curr] = buffers[curr] \o p
      /\ buffers'[1 - curr] = buffers[1 - curr]
  BY <1>2, <1>3, <1>4
<1>6. SwapInv'
  BY <1>5 DEF Inv, SwapInv
<1>7. OrderKept'
  <2> DEFINE X == IF wpc = "clear" THEN <<>> ELSE buffers[1 - curr]
  <2>1. X \in Seq(PieceSet) /\ X' = X
    BY <1>2, <1>5, EmptySeq
  <2>2. log = (written \o X) \o buffers[curr]
    BY DEF Inv, OrderKept
  <2> HIDE DEF X
  <2>3. written \o X \in Seq(PieceSet)
    BY <1>2, <2>1, ConcatProperties
  <2>4. log' = (written \o X) \o (buffers[curr] \o p)
    <3> DEFINE W == written \o X  B == buffers[curr]
    <3>1. W \in Seq(PieceSet) /\ B \in Seq(PieceSet) /\ p \in Seq(PieceSet)
      BY <1>1, <1>2, <2>3
    <3>2. log' = (W \o B) \o p
      BY <1>3, <2>2
    <3> HIDE DEF W, B
    <3>3. (W \o B) \o p = W \o (B \o p)
      BY <3>1, ConcatAssociative
    <3> QED BY <3>2, <3>3 DEF W, B
  <2>5. log' = (written' \o X') \o buffers'[curr']
    BY <1>5, <2>1, <2>4
  <2> QED BY <2>5 DEF OrderKept, X
<1>8. WellFormed(log \o p)
  <2>1. WellFormed(log)
    BY DEF Inv, LogInv
  <2>2. CASE owner = None
    <3>1. recur = 0 /\ Ended(log)
      BY <2>2, WriterAssumption DEF Inv, LockInv, LogInv
    <3> QED BY <1>1, <1>2, <2>1, <3>1, WellFormedConcat
  <2>3. CASE owner = t
    <3>1. recur # 0 /\ ~Ended(log) /\ log[Len(log)].thr = t
      BY <2>3 DEF Inv, LockInv, LogInv, Ended
    <3> QED BY <1>1, <1>2, <2>1, <3>1, WellFormedConcat
  <2> QED BY <2>2, <2>3 DEF Free
<1>9. log \o p # <<>> /\ (log \o p)[Len(log \o p)] = Piece(t, kind)
  BY <1>1, <1>2, LastOfConcat
<1>10. Ended(written)' /\ Ended(buffers[1 - curr])'
  BY <1>5 DEF Inv, CutInv, Ended
<1>11. ASSUME kind = "end" PROVE Ended(buffers[curr])'
  <2>1. (buffers[curr] \o p)[Len(buffers[curr] \o p)] = Piece(t, kind)
    BY <1>1, <1>2, LastOfConcat
  <2>2. Piece(t, kind).kind = "end"
    BY <1>11 DEF Piece
  <2> QED BY <1>5, <2>1, <2>2 DEF Ended
<1> QED BY <1>3, <1>4, <1>5, <1>6, <1>7, <1>8, <1>9, <1>10, <1>11

-----------------------------------------------------------------------------
(* The invariant. *)

\* A logger that has just been constructed.
LEMMA InitInv == Init => Inv
<1> SUFFICES ASSUME Init PROVE Inv
  OBVIOUS
<1>1. TypeOK
  <2>1. PieceTypeOK
    BY EmptySeq DEF Init, PieceTypeOK
  <2>2. tpc \in [Threads -> {"log", "notify"}] /\ lines \in [Threads -> Nat]
    BY DEF Init
  <2>3. /\ owner \in Threads \cup {Writer, None} /\ depth \in Nat /\ recur \in Nat
        /\ curr \in 0..1 /\ prev \in 0..1
    BY DEF Init
  <2>4. stop \in BOOLEAN /\ missed \in BOOLEAN
    BY DEF Init
  <2>5. CtlTypeOK
    BY <2>2, <2>3, <2>4 DEF Init, CtlTypeOK
  <2> QED BY <2>1, <2>5, TypeParts
<1>2. LockInv
  BY WriterAssumption DEF Init, LockInv
<1>3. buffers[0] = <<>> /\ buffers[1] = <<>> /\ curr = 0 /\ 1 - curr = 1
  BY DEF Init
<1>4. SwapInv
  BY <1>3 DEF Init, SwapInv
<1>5. OrderKept
  BY <1>3, ConcatEmptySeq, EmptySeq DEF Init, OrderKept
<1>6. LogInv /\ CutInv
  BY <1>3, WriterAssumption DEF Init, LogInv, CutInv, WellFormed, Ended
<1> QED BY <1>1, <1>2, <1>4, <1>5, <1>6 DEF Inv

\* A thread that puts a piece holds the lock from then on.
LEMMA PutKeepsInv ==
    ASSUME Inv, NEW t \in Threads, Put(t)
    PROVE  Inv'
<1>1. /\ Free(t)
      /\ buffers' = [buffers EXCEPT ![curr] = @ \o Pieces(t, "text")]
      /\ log' = log \o Pieces(t, "text")
      /\ UNCHANGED <<curr, prev, wpc, written>>
      /\ owner' = t /\ depth' = depth + 1 /\ recur' = recur + 1
  BY DEF Put
<1>2. /\ buffers' \in [0..1 -> Seq(PieceSet)] /\ log' \in Seq(PieceSet)
      /\ SwapInv' /\ OrderKept'
      /\ WellFormed(log)'
      /\ log' # <<>> /\ log'[Len(log')] = Piece(t, "text")
      /\ Ended(written)' /\ Ended(buffers[1 - curr])'
  BY <1>1, PuttingKeepsOrder
<1>3. TypeOK'
  <2>1. PieceTypeOK'
    BY <1>1, <1>2, TypeParts DEF Inv, PieceTypeOK
  <2>2. CtlTypeOK'
    BY TypeParts DEF Inv, CtlTypeOK, Put
  <2> QED BY <2>1, <2>2, TypePartsNext
<1>4. LockInv'
  BY <1>1, WriterAssumption DEF Inv, TypeOK, LockInv, Free
<1>5. Piece(t, "text").kind = "text" /\ Piece(t, "text").thr = t
  BY DEF Piece
<1>6. LogInv'
  BY <1>1, <1>2, <1>5 DEF LogInv
<1>7. CutInv'
  BY <1>1, <1>2 DEF CutInv
<1> QED BY <1>2, <1>3, <1>4, <1>6, <1>7 DEF Inv

\* log::endl gives up every level of the lock, and with it the line is whole.
LEMMA EndLineKeepsInv ==
    ASSUME Inv, NEW t \in Threads, EndLine(t)
    PROVE  Inv'
<1>1. /\ Free(t)
      /\ buffers' = [buffers EXCEPT ![curr] = @ \o Pieces(t, "end")]
      /\ log' = log \o Pieces(t, "end")
      /\ UNCHANGED <<curr, prev, wpc, written>>
      /\ recur' = 0 /\ depth' = depth + 1 - (recur + 1)
      /\ owner' = IF depth' = 0 THEN None ELSE t
  BY DEF EndLine
<1>2. /\ buffers' \in [0..1 -> Seq(PieceSet)] /\ log' \in Seq(PieceSet)
      /\ SwapInv' /\ OrderKept'
      /\ WellFormed(log)'
      /\ log' # <<>> /\ log'[Len(log')] = Piece(t, "end")
      /\ Ended(written)' /\ Ended(buffers[1 - curr])' /\ Ended(buffers[curr])'
  BY <1>1, PuttingKeepsOrder
<1>3. depth \in Nat /\ recur \in Nat /\ depth = recur
  BY <1>1, WriterAssumption DEF Inv, TypeOK, LockInv, Free
<1>4. depth' = 0 /\ owner' = None
  BY <1>1, <1>3
<1>5. TypeOK'
  <2>1. PieceTypeOK'
    BY <1>1, <1>2, TypeParts DEF Inv, PieceTypeOK
  <2>2. CtlTypeOK'
    BY <1>4, TypeParts DEF Inv, CtlTypeOK, EndLine
  <2> QED BY <2>1, <2>2, TypePartsNext
<1>6. LockInv'
  BY <1>1, <1>4, WriterAssumption DEF Inv, TypeOK, LockInv, Free
<1>7. Piece(t, "end").kind = "end"
  BY DEF Piece
<1>8. LogInv'
  BY <1>2, <1>4, <1>7, WriterAssumption DEF LogInv, Ended
<1>9. CutInv'
  BY <1>2 DEF CutInv
<1> QED BY <1>2, <1>5, <1>6, <1>8, <1>9 DEF Inv

\* A step that moves neither pieces nor the lock, and neither enters nor leaves
\* the part of run_impl between the swap and the clear.
LEMMA IdleKeepsInv ==
    ASSUME Inv, TypeOK',
           UNCHANGED <<owner, depth, recur, buffers, curr, prev, written, log>>,
           wpc \in {"write", "clear"} \/ wpc' \in {"write", "clear"} => wpc' = wpc,
           wpc \in {"test", "sleep", "swap"} <=> wpc' \in {"test", "sleep", "swap"}
    PROVE  Inv'
<1>1. LockInv'
  BY DEF Inv, LockInv
<1>2. SwapInv' /\ OrderKept'
  BY DEF Inv, SwapInv, OrderKept
<1>3. LogInv' /\ CutInv'
  BY DEF Inv, LogInv, CutInv, WellFormed, Ended
<1> QED BY <1>1, <1>2, <1>3 DEF Inv

\* The writer takes the lock, or gives it up to sleep: nobody is in a line then.
LEMMA LockingKeepsInv ==
    ASSUME Inv, Lock \/ Sleep
    PROVE  Inv'
<1>1. /\ UNCHANGED <<recur, buffers, curr, prev, written, log>>
      /\ owner \notin Threads /\ owner' \notin Threads
      /\ wpc \notin {"write", "clear"} /\ wpc' \notin {"write", "clear"}
  BY WriterAssumption DEF Lock, Sleep, Inv, LockInv
<1>2. TypeOK'
  <2>1. PieceTypeOK'
    BY <1>1, TypeParts DEF Inv, PieceTypeOK
  <2>2. CtlTypeOK'
    BY TypeParts DEF Inv, CtlTypeOK, Lock, Sleep
  <2> QED BY <2>1, <2>2, TypePartsNext
<1>3. LockInv'
  BY <1>1, WriterAssumption DEF Inv, LockInv, Lock, Sleep
<1>4. SwapInv' /\ OrderKept'
  BY <1>1 DEF Inv, SwapInv, OrderKept
<1>5. LogInv' /\ CutInv'
  BY <1>1 DEF Inv, LogInv, CutInv, WellFormed, Ended
<1> QED BY <1>2, <1>3, <1>4, <1>5 DEF Inv

\* The swap hands over whole lines, and an empty buffer in exchange.
LEMMA SwapKeepsInv ==
    ASSUME Inv, Swap
    PROVE  Inv'
<1>1. /\ UNCHANGED <<recur, buffers, written, log>>
      /\ owner = Writer /\ owner' = None /\ depth' = 0
      /\ wpc = "swap" /\ wpc' = "write"
      /\ prev' = curr /\ curr' = 1 - curr
      /\ buffers[1 - curr] = <<>>
  BY DEF Swap, Inv, LockInv, SwapInv
<1>2. /\ curr \in 0..1 /\ 1 - curr \in 0..1 /\ 1 - (1 - curr) = curr
      /\ written \in Seq(PieceSet) /\ buffers[curr] \in Seq(PieceSet)
  BY PieceTypes
<1>3. TypeOK'
  <2>1. PieceTypeOK'
    BY <1>1, TypeParts DEF Inv, PieceTypeOK
  <2>2. CtlTypeOK'
    BY <1>1, <1>2, TypeParts DEF Inv, CtlTypeOK, Swap
  <2> QED BY <2>1, <2>2, TypePartsNext
<1>4. LockInv'
  BY <1>1, WriterAssumption DEF Inv, LockInv
<1>5. SwapInv'
  BY <1>1, <1>2 DEF SwapInv
<1>6. OrderKept'
  <2>1. log = (written \o <<>>) \o buffers[curr]
    BY <1>1 DEF Inv, OrderKept
  <2>2. written \o <<>> = written
    BY <1>2, ConcatEmptySeq
  <2>3. written \o buffers[curr] \in Seq(PieceSet)
    BY <1>2, ConcatProperties
  <2>4. log = (written \o buffers[curr]) \o <<>>
    BY <2>1, <2>2, <2>3, ConcatEmptySeq
  <2> QED BY <1>1, <1>2, <2>4 DEF OrderKept
<1>7. LogInv'
  BY <1>1, WriterAssumption DEF Inv, LogInv, WellFormed, Ended
<1>8. CutInv'
  BY <1>1, <1>2, WriterAssumption DEF Inv, CutInv, Ended
<1> QED BY <1>3, <1>4, <1>5, <1>6, <1>7, <1>8 DEF Inv

\* write() appends the buffer that is the writer's alone.
LEMMA WriteKeepsInv ==
    ASSUME Inv, Write
    PROVE  Inv'
<1>1. /\ UNCHANGED <<owner, depth, recur, buffers, curr, prev, log>>
      /\ wpc = "write" /\ wpc' = "clear"
      /\ prev = 1 - curr
      /\ written' = written \o buffers[1 - curr]
  BY DEF Write, Inv, SwapInv
<1>2. /\ written \in Seq(PieceSet) /\ buffers[1 - curr] \in Seq(PieceSet)
      /\ written' \in Seq(PieceSet)
  BY <1>1, PieceTypes, ConcatProperties
<1>3. TypeOK'
  <2>1. PieceTypeOK'
    BY <1>1, <1>2, TypeParts DEF Inv, PieceTypeOK
  <2>2. CtlTypeOK'
    BY TypeParts DEF Inv, CtlTypeOK, Write
  <2> QED BY <2>1, <2>2, TypePartsNext
<1>4. LockInv' /\ SwapInv'
  BY <1>1 DEF Inv, LockInv, SwapInv
<1>5. OrderKept'
  <2>1. log = written' \o buffers[curr]
    BY <1>1 DEF Inv, OrderKept
  <2>2. written' \o <<>> = written'
    BY <1>2, ConcatEmptySeq
  <2> QED BY <1>1, <2>1, <2>2 DEF OrderKept
<1>6. LogInv'
  BY <1>1 DEF Inv, LogInv, WellFormed, Ended
<1>7. CutInv'
  <2>1. Ended(written \o buffers[1 - curr])
    BY <1>2, LastOfConcat DEF Inv, CutInv
  <2> QED BY <1>1, <2>1 DEF Inv, CutInv, Ended
<1> QED BY <1>3, <1>4, <1>5, <1>6, <1>7 DEF Inv

\* clear() empties that buffer and no other.
LEMMA ClearKeepsInv ==
    ASSUME Inv, Clear
    PROVE  Inv'
<1>1. /\ UNCHANGED <<owner, depth, recur, curr, prev, written, log>>
      /\ wpc = "clear" /\ wpc' = "top"
      /\ prev = 1 - curr
      /\ buffers' = [buffers EXCEPT ![1 - curr] = <<>>]
  BY DEF Clear, Inv, SwapInv
<1>2. /\ buffers \in [0..1 -> Seq(PieceSet)]
      /\ curr \in 0..1 /\ 1 - curr \in 0..1 /\ 1 - curr # curr
      /\ <<>> \in Seq(PieceSet)
  BY PieceTypes, EmptySeq
<1>3. /\ buffers' \in [0..1 -> Seq(PieceSet)]
      /\ buffers'[1 - curr] = <<>> /\ buffers'[curr] = buffers[curr]
  BY <1>1, <1>2
<1>4. TypeOK'
  <2>1. PieceTypeOK'
    BY <1>1, <1>3, TypeParts DEF Inv, PieceTypeOK
  <2>2. CtlTypeOK'
    BY TypeParts DEF Inv, CtlTypeOK, Clear
  <2> QED BY <2>1, <2>2, TypePartsNext
<1>5. LockInv'
  BY <1>1 DEF Inv, LockInv
<1>6. SwapInv' /\ OrderKept'
  BY <1>1, <1>3 DEF Inv, SwapInv, OrderKept
<1>7. LogInv'
  BY <1>1 DEF Inv, LogInv, WellFormed, Ended
<1>8. CutInv'
  BY <1>1, <1>3 DEF Inv, CutInv, Ended
<1> QED BY <1>4, <1>5, <1>6, <1>7, <1>8 DEF Inv

\* Every step of a thread, of run_impl and of the destructor keeps the invariant.
LEMMA NextInv == Inv /\ [Next]_vars => Inv'
<1> SUFFICES ASSUME Inv, [Next]_vars PROVE Inv'
  OBVIOUS
<1>1. ASSUME NEW t \in Threads, Put(t) PROVE Inv'
  BY <1>1, PutKeepsInv
<1>2. ASSUME NEW t \in Threads, EndLine(t) PROVE Inv'
  BY <1>2, EndLineKeepsInv
<1>3. CASE Lock \/ Sleep
  BY <1>3, LockingKeepsInv
<1>4. CASE Swap
  BY <1>4, SwapKeepsInv
<1>5. CASE Write
  BY <1>5, WriteKeepsInv
<1>6. CASE Clear
  BY <1>6, ClearKeepsInv
<1>7. ASSUME \/ \E t \in Threads : Notify(t)
             \/ Top \/ Test \/ Spurious \/ Destroy \/ UNCHANGED vars
      PROVE  Inv'
  <2>1. /\ UNCHANGED <<owner, depth, recur, buffers, curr, prev, written, log>>
        /\ wpc \in {"write", "clear"} \/ wpc' \in {"write", "clear"} => wpc' = wpc
        /\ wpc \in {"test", "sleep", "swap"} <=> wpc' \in {"test", "sleep", "swap"}
    BY <1>7 DEF Notify, Wake, Top, Test, Spurious, Destroy, SetStop, StopNotify, Join, vars
  <2>2. PieceTypeOK'
    BY <2>1, TypeParts DEF Inv, PieceTypeOK
  <2>3. CtlTypeOK'
    <3>1. CtlTypeOK
      BY TypeParts DEF Inv
    <3>2. ASSUME NEW t \in Threads, Notify(t) PROVE CtlTypeOK'
      BY <3>1, <3>2 DEF CtlTypeOK, Notify, Wake
    <3>3. CASE Top \/ Test \/ Spurious
      BY <3>1, <3>3 DEF CtlTypeOK, Top, Test, Spurious
    <3>4. CASE SetStop \/ Join \/ UNCHANGED vars
      BY <3>1, <3>4 DEF CtlTypeOK, SetStop, Join, vars
    <3>5. CASE StopNotify
      BY <3>1, <3>5 DEF CtlTypeOK, StopNotify, Wake
    <3> QED BY <1>7, <3>2, <3>3, <3>4, <3>5 DEF Destroy
  <2>4. TypeOK'
    BY <2>2, <2>3, TypePartsNext
  <2> QED BY <2>1, <2>4, IdleKeepsInv
<1> QED BY <1>1, <1>2, <1>3, <1>4, <1>5, <1>6, <1>7 DEF Next, RunImpl

\* So it holds whatever threads, writer and destructor do.
THEOREM Invariance == Spec => []Inv
  BY InitInv, NextInv, PTL DEF Spec

-----------------------------------------------------------------------------
\* The state of the logger keeps its types.
THEOREM TypeCorrect == Spec => []TypeOK
<1>1. Inv => TypeOK
  BY DEF Inv
<1> QED BY <1>1, Invariance, PTL

\* Double buffering neither loses, doubles nor reorders a piece, and the writer
\* never clears one put while it wrote.
THEOREM OrderIsKept == Spec => []OrderKept
<1>1. Inv => OrderKept
  BY DEF Inv
<1> QED BY <1>1, Invariance, PTL

\* What reaches the descriptor are whole lines of one thread each, headers first.
THEOREM LinesAreWhole == Spec => []LinesWhole
<1>1. ASSUME Inv PROVE LinesWhole
  <2> DEFINE X == IF wpc = "clear" THEN <<>> ELSE buffers[1 - curr]
  <2>1. /\ written \in Seq(PieceSet) /\ X \in Seq(PieceSet)
        /\ buffers[curr] \in Seq(PieceSet)
    BY <1>1, PieceTypes, EmptySeq
  <2>2. WellFormed((written \o X) \o buffers[curr]) /\ Ended(written)
    BY <1>1 DEF Inv, OrderKept, LogInv, CutInv
  <2> HIDE DEF X
  <2>3. WellFormed(written \o X)
    BY <2>1, <2>2, ConcatProperties, WellFormedPrefix
  <2>4. WellFormed(written)
    BY <2>1, <2>3, WellFormedPrefix
  <2> QED BY <2>2, <2>4 DEF LinesWhole, WellFormed, Ended
<1> QED BY <1>1, Invariance, PTL
=============================================================================
