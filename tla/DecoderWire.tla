----------------------------- MODULE DecoderWire -----------------------------
(***************************************************************************)
(* The decoder's bit reservoir: a word that the slow path fills one byte   *)
(* at a time, and the fast path with whole words read ahead of need.       *)
(* Source: src/src/decompressor/core/bits.rs.                              *)
(*                                                                         *)
(* A bit of the word is the set of stream bits OR-ed into its place, each  *)
(* named by its position in the compressed stream, so a place that mixes   *)
(* two stream bits, or holds the wrong one, shows whatever their values.   *)
(***************************************************************************)
EXTENDS Naturals, Integers, SequencesExt

CONSTANTS
  ByteBits,    \* bits of a byte (8)
  WordBytes    \* bytes of the reservoir (8)

ASSUME BitsAssumption == ByteBits \in Nat \ {0, 1} /\ WordBytes \in Nat \ {0, 1, 2}

Word     == WordBytes * ByteBits
MAX_PEEK == Word - ByteBits
Places   == 0 .. Word - 1

Empty == [value |-> [i \in Places |-> {}], count |-> 0]

Least(a, b) == IF a < b THEN a ELSE b

(* The stream bits from byte b on, shifted left by n and OR-ed into the    *)
(* places below `end`.                                                     *)
Ored(value, b, n, end) ==
  [i \in Places |-> value[i] \cup (IF i \in n .. end - 1 THEN {b * ByteBits + i - n} ELSE {})]

(* load_byte, k times: bytes b, b + 1, ... of the stream. *)
Load(bits, b, k) ==
  [value |-> Ored(bits.value, b, bits.count, bits.count + k * ByteBits),
   count |-> bits.count + k * ByteBits]

(* Bytes a refill accepts of the word it ORs in. *)
Accepted(bits) == (Word - 1 - bits.count) \div ByteBits

(* refill: the whole word goes in unmasked, whole bytes of it count. *)
Refill(bits, b) ==
  [value |-> Ored(bits.value, b, bits.count, Word),
   count |-> bits.count + Accepted(bits) * ByteBits]

Masked(value, n) == [i \in Places |-> IF i < n THEN value[i] ELSE {}]

(* Mutant: bits above count outlive the call. *)
SettleNothing(bits) == bits

Settle(bits) == [bits EXCEPT !.value = Masked(@, bits.count)]

(* drop, take, read *)
Drop(bits, n) ==
  [value |-> [i \in Places |-> IF i + n < Word THEN bits.value[i + n] ELSE {}],
   count |-> bits.count - n]

(* Whole bytes unread returns: only those this call accepted. *)
Unread(bits, consumed) == Least(bits.count \div ByteBits, Least(consumed, WordBytes))

(* What unread leaves in the reservoir. *)
Returned(bits, n) ==
  LET count == bits.count - n * ByteBits
  IN  [value |-> IF count < Word THEN Masked(bits.value, count) ELSE bits.value,
       count |-> count]

(* align: the padding of the byte in progress is dropped. *)
Aligned(bits) == Drop(bits, bits.count % ByteBits)

(* The input of one call: `base` bytes of the stream came before it, len   *)
(* are offered, limit bounds the bytes of the operation.                   *)
FastEnd(base, len, limit) == Least(len, IF limit > base THEN limit - base ELSE 0)

-----------------------------------------------------------------------------
(***************************************************************************)
(* A compressed stream as the decoder's stages take it apart: members,     *)
(* each a sequence of items.  What an item means is left out; how many     *)
(* bits it takes, how many bytes it yields, and which path may read it are *)
(* kept.                                                                   *)
(*   field    bits of a header or a table        (byte-exact path only)    *)
(*   symbol   bits of a command or distance      (either path)             *)
(*   literal  bits of a literal, yields one byte (either path)             *)
(*   copy     no bits, yields n bytes                                      *)
(*   align    padding up to a byte                                         *)
(*   raw      n bytes that are the output        (bypass the reservoir)    *)
(*   skip     n bytes of metadata                (bypass the reservoir)    *)
(*   bad      an invalid code: the decoder reports an error                *)
(* Source: the stages of src/src/decompressor/core/stream.rs.              *)
(***************************************************************************)

Ops == {"field", "symbol", "literal", "copy", "align", "raw", "skip", "bad"}
Bitwise == {"field", "symbol", "literal"}
Fast    == {"symbol", "literal"}

Item(op, n) == [op |-> op, n |-> n]
End == Item("end", 0)

(* Bytes that hold p bits. *)
Bytes(p) == (p + ByteBits - 1) \div ByteBits

(* The bit after an item that starts at bit p. *)
After(p, it) ==
  CASE it.op \in Bitwise         -> p + it.n
    [] it.op \in {"align", "end"} -> Bytes(p) * ByteBits
    [] it.op \in {"raw", "skip"}  -> p + it.n * ByteBits
    [] OTHER                      -> p

(* Bytes of output of an item. *)
Yield(it) ==
  CASE it.op = "literal"         -> 1
    [] it.op \in {"copy", "raw"} -> it.n
    [] OTHER                     -> 0

Items(wire)     == FlattenSeq([m \in 1 .. Len(wire) |-> Append(wire[m], End)])
BitsOf(items)   == FoldLeft(After, 0, items)
YieldOf(items)  == FoldLeft(LAMBDA n, it : n + Yield(it), 0, items)
BytesOf(wire)   == Bytes(BitsOf(Items(wire)))

=============================================================================
