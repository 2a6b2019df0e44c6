----------------------------- MODULE DecoderRing -----------------------------
(***************************************************************************)
(* The history buffer of the decoder as pure operators: delivery of the    *)
(* bytes decoded since the last flush, growth, writes and copies in pieces *)
(* that do not wrap, with the speculative tail of the SIMD copies, and the *)
(* cache of recent distances.                                              *)
(* Source: src/src/decompressor/core/{stream,distance}.rs.                 *)
(*                                                                         *)
(* A history is a record                                                   *)
(*   bytes    the ring, or the caller's slice for a linear member          *)
(*   pos      bytes decoded so far                                         *)
(*   flushed  bytes of them delivered                                      *)
(*   out      what delivery has copied to the caller                       *)
(***************************************************************************)
EXTENDS Integers, Sequences, SequencesExt

CONSTANTS
  Chunk,      \* bytes of one SIMD copy, and the gap between window and reach
  MinRing     \* smallest ring allocation (MIN_RING is 64)

(* A power of two has no odd divisor but 1 (checked_next_power_of_two). *)
PowerOfTwo(n) == n > 0 /\ \A d \in 1 .. n : n % d = 0 => d = 1 \/ d % 2 = 0

ASSUME RingAssumption ==
  Chunk \in Nat \ {0} /\ MinRing \in Nat /\ PowerOfTwo(MinRing)

Lesser(a, b)  == IF a <= b THEN a ELSE b
Greater(a, b) == IF a >= b THEN a ELSE b

(* The index of position p (history_mask): positions wrap at the length of *)
(* the buffer; an empty one has no mask, and a linear one holds every      *)
(* position it is asked for.                                               *)
Index(bytes, p) == IF bytes = <<>> THEN p ELSE p % Len(bytes)

At(bytes, p) == bytes[Index(bytes, p) + 1]

(* flush_ring: deliver what was decoded since flushed; the pending bytes   *)
(* are contiguous.                                                         *)
Flush(h, delivers) ==
  LET n == h.pos - h.flushed
      s == Index(h.bytes, h.flushed)
  IN  IF n = 0 THEN h
      ELSE [h EXCEPT !.flushed = h.pos,
                     !.out = IF delivers THEN @ \o SubSeq(h.bytes, s + 1, s + n) ELSE @]

(* write_ring: every byte in its slot, a flush whenever the end is reached. *)
Put(h, byte, delivers) ==
  LET w == [h EXCEPT !.bytes[Index(h.bytes, h.pos) + 1] = byte, !.pos = @ + 1]
  IN  IF w.pos % Len(w.bytes) = 0 THEN Flush(w, delivers) ELSE w

WriteRing(h, s, delivers) ==
  LET Written[k \in 0 .. Len(s)] ==
        IF k = 0 THEN h ELSE Put(Written[k - 1], s[k], delivers)
  IN  Written[Len(s)]

(* Moved(b, src, dst, n): n bytes from index src to index dst, as a copy of *)
(* a snapshot (copy_within, copy16, copy32).                                *)
Moved(b, src, dst, n) ==
  [i \in DOMAIN b |-> IF i - 1 \in dst .. dst + n - 1 THEN b[src + i - dst] ELSE b[i]]

(* copy_overlapping: the n bytes from dst repeat the distance bytes before. *)
Repeated(b, src, dst, n, distance) ==
  [i \in DOMAIN b |-> IF i - 1 \in dst .. dst + n - 1
                      THEN b[src + ((i - 1 - dst) % distance) + 1] ELSE b[i]]

(* The bytes of s from index dst on. *)
Overlaid(b, dst, s) ==
  [i \in DOMAIN b |-> IF i - dst \in DOMAIN s THEN s[i - dst] ELSE b[i]]

(* Whether n bytes from both indices lie inside the buffer. *)
Fits(b, src, dst, n) == src + n <= Len(b) /\ dst + n <= Len(b)

(* One piece of copy_ring: overlapping, a chunk with a speculative tail, or *)
(* a plain move.                                                            *)
Piece(b, src, dst, n, distance) ==
  IF src < dst /\ distance < n THEN Repeated(b, src, dst, n, distance)
  ELSE IF n <= Chunk /\ Fits(b, src, dst, Chunk) THEN Moved(b, src, dst, Chunk)
  ELSE Moved(b, src, dst, n)

(* copy_ring: length bytes from distance back, in pieces that wrap neither  *)
(* at the source nor at the destination.                                    *)
PutPiece(h, distance, end, delivers) ==
  LET size  == Len(h.bytes)
      dst   == Index(h.bytes, h.pos)
      src   == Index(h.bytes, h.pos - distance)
      n     == Lesser(end - h.pos, Lesser(size - dst, size - src))
      moved == [h EXCEPT !.bytes = Piece(@, src, dst, n, distance), !.pos = @ + n]
  IN  IF h.pos = end THEN h
      ELSE IF dst + n = size THEN Flush(moved, delivers) ELSE moved

CopyRing(h, distance, length, delivers) ==
  LET Piecewise[k \in 0 .. length] ==
        IF k = 0 THEN h ELSE PutPiece(Piecewise[k - 1], distance, h.pos + length, delivers)
  IN  Piecewise[length]

(* The copy of the command loop: one chunk, or two, with its tail; a copy   *)
(* that wraps on neither side; else the pieces of copy_ring.                *)
CopyFast(h, distance, n, linear, delivers) ==
  LET b     == h.bytes
      dst   == Index(b, h.pos)
      src   == Index(b, h.pos - distance)
      width == IF n <= Chunk THEN Chunk ELSE 2 * Chunk
      short == distance >= n /\ n <= width /\ Fits(b, src, dst, width)
      done  == [h EXCEPT !.pos = @ + n,
                         !.bytes = IF short THEN Moved(b, src, dst, width)
                                   ELSE IF distance >= n THEN Moved(b, src, dst, n)
                                   ELSE Repeated(b, src, dst, n, distance)]
  IN  IF short \/ Fits(b, src, dst, n)
      THEN IF ~linear /\ dst + n = Len(b) THEN Flush(done, delivers) ELSE done
      ELSE CopyRing(h, distance, n, delivers)

NextPowerOfTwo(n) ==
  LET S == {m \in 1 .. 2 * n : PowerOfTwo(m) /\ m >= n}
  IN  CHOOSE m \in S : \A k \in S : m <= k

(* ring_size *)
RingSize(len, window, end) ==
  Lesser(window, Greater(Greater(NextPowerOfTwo(end), 2 * len), MinRing))

(* Whether positions below end need a larger ring; a full ring wraps.       *)
Growing(bytes, window, end) == end > Len(bytes) /\ Len(bytes) < window

Filled(bytes, n, byte) == bytes \o [i \in 1 .. n - Len(bytes) |-> byte]

(* grow_ring: new slots hold zeros. *)
GrowRing(bytes, window, end) ==
  IF Growing(bytes, window, end) THEN Filled(bytes, RingSize(Len(bytes), window, end), 0)
  ELSE bytes

(* repeat_grow: the free slots and the new ones hold the repeated byte.     *)
RepeatGrow(bytes, window, pos, byte, end) ==
  Filled(SubSeq(bytes, 1, pos), RingSize(Len(bytes), window, end), byte)

-----------------------------------------------------------------------------
(* Recent distances: four slots and the number of pushes. *)

CacheDefault == [slots |-> <<16, 15, 11, 4>>, index |-> 0]

Recent(cache, back) == cache.slots[((cache.index - 1 - back) % 4) + 1]

Push(cache, d) ==
  [slots |-> [cache.slots EXCEPT ![(cache.index % 4) + 1] = d], index |-> (cache.index + 1) % 4]

Pop(cache) == [cache EXCEPT !.index = (@ - 1) % 4]

ShortIndex  == <<0, 1, 2, 3, 0, 0, 0, 0, 0, 0, 1, 1, 1, 1, 1, 1>>
ShortOffset == <<0, 0, 0, 0, -1, 1, -2, 2, -3, 3, -1, 1, -2, 2, -3, 3>>

(* DistanceLayout::short: one of the sixteen short codes; not positive is  *)
(* an error.                                                               *)
Short(cache, code) == Recent(cache, ShortIndex[code + 1]) + ShortOffset[code + 1]
=============================================================================
