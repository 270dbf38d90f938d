-------------------------------- MODULE Buffer --------------------------------
(***************************************************************************)
(* class buffer (buffer.h): an array of cap bytes of which those from      *)
(* start up to, and not including, offset are filled.  A buffer is a value *)
(* here, as its copy constructor makes it; an operation maps a buffer to   *)
(* the buffer it leaves.                                                   *)
(***************************************************************************)
EXTENDS Naturals, Sequences, FiniteSetsExt

\* The byte every unused place holds: rawbuf() is read as a C string.
Nul == 0

\* buffer(cap), for cap at least one.
New(cap) == [cap |-> cap, start |-> 0, offset |-> 0,
             mem |-> [i \in 0..cap - 1 |-> Nul]]

Size(b) == b.offset - b.start

\* The filled bytes as a sequence, rawbuf() and size().
Content(b) == [i \in 1..Size(b) |-> b.mem[b.start + i - 1]]

\* The capacity of resize: doubled until it is large enough.
Pow2[k \in Nat] == IF k = 0 THEN 1 ELSE 2 * Pow2[k - 1]
Doubled(cap, n) ==
    LET from == IF cap = 0 THEN 1 ELSE cap
    IN  from * Pow2[Min({k \in 0..n : from * Pow2[k] >= n})]

\* resize: nothing but the filled bytes is copied.
Resize(b, n) ==
    IF b.cap >= n THEN b
    ELSE LET c == Doubled(b.cap, n)
         IN  [b EXCEPT !.cap = c,
                       !.mem = [i \in 0..c - 1 |->
                                   IF i \in b.start..b.offset - 1 THEN b.mem[i] ELSE Nul]]

\* Mutant: what the filled bytes leave behind is not wiped.
TinyUnwiped(b) ==
    [b EXCEPT !.mem = [i \in 0..b.cap - 1 |->
                          IF i < Size(b) THEN b.mem[i + b.start] ELSE b.mem[i]],
              !.start = 0,
              !.offset = Size(b)]

\* tiny: the filled bytes move to the front.
Tiny(b) ==
    [b EXCEPT !.mem = [i \in 0..b.cap - 1 |->
                          IF i < Size(b) THEN b.mem[i + b.start]
                          ELSE IF i < b.offset THEN Nul ELSE b.mem[i]],
              !.start = 0,
              !.offset = Size(b)]

Clear(b) == New(b.cap)

\* The bytes of s written behind the filled ones, where there is room for them.
Fill(b, s) ==
    [b EXCEPT !.mem = [i \in 0..b.cap - 1 |->
                          IF i \in b.offset..b.offset + Len(s) - 1
                          THEN s[i - b.offset + 1] ELSE b.mem[i]],
              !.offset = @ + Len(s)]

\* produce and put_string.
Produce(b, s) == Fill(Resize(b, b.offset + Len(s)), s)

\* consume, for n not above the size.
Consume(b, n) ==
    IF b.start + n = b.offset THEN Clear(b) ELSE [b EXCEPT !.start = @ + n]

\* What get_string(n) returns; it consumes the same bytes.
GetString(b, n) == SubSeq(Content(b), 1, n)
=============================================================================
