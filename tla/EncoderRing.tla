----------------------------- MODULE EncoderRing -----------------------------
(***************************************************************************)
(* The sliding window of the greedy and HQ encoders                        *)
(* (src/src/shared/ringbuffer.rs) and the byte comparisons that run over   *)
(* it (src/src/shared/match_len.rs).                                       *)
(*                                                                         *)
(* A window is a record.  data maps a buffer index to a byte; the two      *)
(* indices below zero are the bytes HEAD_ROOM reserves, those from         *)
(* RingSize on the tail mirror and the margin.  A stream that has not      *)
(* wrapped yet keeps only its written prefix.                              *)
(***************************************************************************)
EXTENDS Integers, Sequences, FiniteSets, SequencesExt

CONSTANTS
    RingSize,       \* 1 << rb_bits, a power of two
    TailSize,       \* 1 << lgblock: bytes of the window mirrored past it
    Slack,          \* SLACK_FOR_EIGHT_BYTE_HASHING
    NearEnd,        \* how far from the window's end the full layout is built
    Lap,            \* 2^30, the unit in which positions wrap
    Word,           \* bytes a scalar comparison takes at once (8)
    ScalarPrefix,   \* SCALAR_PREFIX_BYTES, a multiple of Word
    Stride          \* bytes of one vector comparison

ASSUME RingAssumption ==
    /\ RingSize \in Nat \ {0} /\ TailSize \in 1 .. RingSize
    /\ NearEnd \in Slack .. RingSize /\ Lap % RingSize = 0
    /\ ScalarPrefix % Word = 0 /\ Word > 0 /\ Stride > 0

\* A byte no input holds, for the reference's TAIL_SENTINEL; 0 is cleared memory.
Sentinel == 241
TotalSize == RingSize + TailSize
Mask(p) == p % RingSize
PosLap == 2 * Lap
Smaller(a, b) == IF a < b THEN a ELSE b

RingNew == [data |-> [i \in {} |-> 0], cur |-> 0, tail |-> 0, pos |-> 0]

\* buffer().get(i), zero outside the backing storage.
Byte(r, i) == IF i \in DOMAIN r.data THEN r.data[i] ELSE 0

\* The window's bytes as a slice: what is written of it, at most the ring.
WindowLen(r) == Smaller(RingSize, Cardinality(DOMAIN r.data) - 2)

IsAllocated(r) == r.cur # 0

\* The bytes stay where they are: only the bookkeeping is restored.
RingReset(r) == [r EXCEPT !.cur = 0, !.tail = 0, !.pos = 0]

\* Bytes appended to a window that still holds only its written prefix.
AppendPrefix(r, bytes) ==
    [r EXCEPT
        !.data = [i \in -2 .. r.pos + Len(bytes) + Slack - 1 |->
                    CASE i < 0 -> 0
                      [] i \in 0 .. r.pos - 1 -> Byte(r, i)
                      [] i \in r.pos .. r.pos + Len(bytes) - 1 -> bytes[i - r.pos + 1]
                      [] OTHER -> 0],
        !.cur = r.pos + Len(bytes),
        !.tail = IF r.pos # 0 THEN @
                 ELSE IF Len(bytes) < TailSize THEN Len(bytes) ELSE 0,
        !.pos = r.pos + Len(bytes)]

\* The backing storage grown to the full layout; what an earlier stream left
\* past the written prefix survives, head and margin are cleared.
InitBuffer(r) ==
    [r EXCEPT
        !.data = [i \in -2 .. TotalSize + Slack - 1 |->
                    IF i \in 0 .. TotalSize - 1 THEN Byte(r, i) ELSE 0],
        !.cur = TotalSize]

\* The full layout with the tail copies the prefix layout had deferred.
Materialize(r) ==
    [InitBuffer(r) EXCEPT
        !.data = [i \in DOMAIN @ |->
                    CASE i \in RingSize + r.tail ..
                               RingSize + Smaller(r.pos, TailSize) - 1 -> @[i - RingSize]
                      [] i = RingSize -> Sentinel
                      [] i \in {RingSize - 2, RingSize - 1} -> 0
                      [] OTHER -> @[i]]]

\* The head of the bytes, mirrored past the window.
WriteTail(r, bytes) ==
    IF Mask(r.pos) >= TailSize THEN r
    ELSE [r EXCEPT !.data = [i \in DOMAIN @ |->
            LET k == i - RingSize - Mask(r.pos)
            IN IF k \in 0 .. Smaller(Len(bytes), TailSize - Mask(r.pos)) - 1
               THEN bytes[k + 1] ELSE @[i]]]

\* Mutant: what crosses the ring's end is not kept past it.
WriteAroundRing(r, bytes) ==
    [r EXCEPT !.data = [i \in DOMAIN @ |->
        LET k == IF i < Mask(r.pos) THEN i + RingSize - Mask(r.pos) ELSE i - Mask(r.pos)
        IN IF i \in 0 .. RingSize - 1 /\ k \in 0 .. Len(bytes) - 1 THEN bytes[k + 1] ELSE @[i]]]

\* The bytes written around the ring: a run that crosses the end first goes
\* on into the tail, and its rest starts over at index zero.
WriteAround(r, bytes) ==
    [r EXCEPT !.data = [i \in DOMAIN @ |->
        LET straight == i - Mask(r.pos)
            wrapped == i + RingSize - Mask(r.pos)
        IN CASE i >= 0 /\ i < TotalSize /\ straight \in 0 .. Len(bytes) - 1
                  -> bytes[straight + 1]
             [] i \in 0 .. RingSize - 1 /\ wrapped \in 0 .. Len(bytes) - 1
                  -> bytes[wrapped + 1]
             [] OTHER -> @[i]]]

\* Positions keep a "not the first lap" bit once they have passed PosLap.
Advance(pos, n) ==
    LET sum == (pos % PosLap) + (n % PosLap)
    IN IF pos >= PosLap /\ sum < PosLap THEN sum + PosLap ELSE sum

HeadCopies(r) ==
    [r EXCEPT !.data[-2] = r.data[RingSize - 2], !.data[-1] = r.data[RingSize - 1]]

\* write: the prefix layout while the stream stays clear of the window's end,
\* the reference's layout from then on.
RingWrite(r, bytes) ==
    IF r.cur < TotalSize /\ r.pos + Len(bytes) < RingSize - NearEnd
    THEN AppendPrefix(r, bytes)
    ELSE [HeadCopies(WriteAround(WriteTail(
              IF r.cur < TotalSize THEN Materialize(r) ELSE r, bytes), bytes))
          EXCEPT !.pos = Advance(r.pos, Len(bytes))]

ClearMargin(r) ==
    IF r.pos > RingSize - 1 THEN r
    ELSE [r EXCEPT !.data = [i \in DOMAIN @ |->
            IF i \in r.pos .. r.pos + Slack - 1 THEN 0 ELSE @[i]]]

\* wrap_position: three laps in a row, then two of them in turn.
WrapPosition(p) ==
    IF p \div Lap > 2
    THEN (p % Lap) + ((((p \div Lap) - 1) % 2) + 1) * Lap
    ELSE p

-----------------------------------------------------------------------------
(* Comparisons.  A slice is present only when all of it lies in the buffer. *)

Present(r, i, n) == i >= 0 /\ (n = 0 \/ i + n - 1 \in DOMAIN r.data)

\* match_len_bytes: leading equal bytes of the n at a and at b.
CommonPrefix(r, a, b, n) ==
    CHOOSE k \in 0 .. n :
        /\ \A i \in 0 .. k - 1 : r.data[a + i] = r.data[b + i]
        /\ k = n \/ r.data[a + k] # r.data[b + k]

Floor(n, m) == n - (n % m)

\* The last bytes, compared as one word that overlaps what was compared.
OverlappedTail(r, a, b, limit) ==
    IF limit < Word THEN CommonPrefix(r, a, b, limit)
    ELSE LET k == CommonPrefix(r, a + limit - Word, b + limit - Word, Word)
         IN IF k = Word THEN limit ELSE limit - Word + k

\* What is left behind the vectors: whole words, then the overlapped word.
WordsThenTail(r, a, b, done, limit) ==
    LET words == Floor(limit - done, Word)
        k == CommonPrefix(r, a + done, b + done, words)
    IN IF k < words \/ done + k = limit THEN done + k
       ELSE OverlappedTail(r, a, b, limit)

VectorsThenWords(r, a, b, done, limit) ==
    LET whole == Floor(limit - done, Stride)
        k == CommonPrefix(r, a + done, b + done, whole)
    IN IF k < whole THEN done + k ELSE WordsThenTail(r, a, b, done + k, limit)

\* match_len_windows: a scalar prefix, vectors, words, one overlapped word.
MatchLenWindows(r, a, b, limit) ==
    LET prefix == Floor(Smaller(limit, ScalarPrefix), Word)
        k == CommonPrefix(r, a, b, prefix)
    IN IF k < prefix THEN k ELSE VectorsThenWords(r, a, b, prefix, limit)

\* match_len_at: nothing unless both windows are present, one word in front.
MatchLenAt(r, prev, cur, max) ==
    IF ~Present(r, cur, max) \/ ~Present(r, prev, max) THEN 0
    ELSE IF max < Word THEN MatchLenWindows(r, prev, cur, max)
    ELSE LET k == CommonPrefix(r, prev, cur, Word)
         IN IF k < Word THEN k
            ELSE Word + MatchLenWindows(r, prev + Word, cur + Word, max - Word)

-----------------------------------------------------------------------------
(***************************************************************************)
(* A prefix attached to the encoders of qualities 2 to 11: one or more     *)
(* segments in front of the window, each with an index of its own          *)
(* (src/src/compressor/core/rfc9841/prepared.rs, search.rs).               *)
(***************************************************************************)

CONSTANTS
    Segments,     \* the attached prefix's segments
    PrefixLimit,  \* BUCKET_LIMIT, positions indexed per key of a segment
    PrefixBytes   \* the bytes a key is made of

Prefix == FlattenSeq(Segments)
SegmentStart(n) == Len(FlattenSeq(SubSeq(Segments, 1, n - 1)))

\* The indexed positions of a segment with the window's bytes at i, newest
\* first, as many as a bucket keeps.
PrefixShows(r, i, segment) ==
    LET head(j) == \A k \in 0 .. PrefixBytes - 1 : segment[j + 1 + k] = Byte(r, i + k)
        found == SetToSortSeq({j \in 0 .. Len(segment) - PrefixBytes : head(j)},
                              LAMBDA x, y : x > y)
    IN SubSeq(found, 1, Smaller(Len(found), PrefixLimit))

SegmentMatch(r, i, segment, at, max) ==
    LET limit == Smaller(Len(segment) - at, max)
    IN CHOOSE k \in 0 .. limit :
        /\ \A j \in 0 .. k - 1 : Byte(r, i + j) = segment[at + j + 1]
        /\ k = limit \/ Byte(r, i + k) # segment[at + k + 1]

\* One index after the other: an attachment is searched for what is longer than
\* the last match of those before it.
AllInSegment(r, q, n, found) ==
    LET segment == Segments[n]
        offset == q.dict - SegmentStart(n)
        i == Mask(q.cur)
        consider(s, at) ==
            LET len == SegmentMatch(r, i, segment, at, q.max)
            IN IF \/ offset - at > q.furthest \/ i + s.best >= RingSize
                  \/ s.best >= Smaller(Len(segment) - at, q.max) \/ len <= s.best
                  \/ Byte(r, i + s.best) # segment[at + s.best + 1] THEN s
               ELSE [best |-> len,
                     found |-> Append(s.found, [dist |-> offset - at, len |-> len, code |-> len])]
    IN IF ~Present(r, i, PrefixBytes) THEN found
       ELSE FoldLeft(consider,
                [best |-> IF found = <<>> THEN q.least ELSE Last(found).len, found |-> found],
                PrefixShows(r, i, segment)).found

\* find_all_matches, in the order found: nearest of a length first, then longer.
FindAllInPrefix(r, q) ==
    FoldLeft(LAMBDA found, n : AllInSegment(r, q, n, found), <<>>,
             [n \in DOMAIN Segments |-> n])

=============================================================================
