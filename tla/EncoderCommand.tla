--------------------------- MODULE EncoderCommand ----------------------------
(***************************************************************************)
(* Commands: an insert and a copy, and the symbols and extra bits that     *)
(* carry them (src/src/shared/command.rs, src/src/shared/distance.rs, the  *)
(* length tables of src/src/shared/format.rs).  Numbers are the real ones. *)
(***************************************************************************)
EXTENDS Integers, Sequences

ShortCodes == 16

\* log2_floor_non_zero.
Log2(n) == CHOOSE k \in 0 .. 30 : 2^k <= n /\ n \div 2 < 2^k

InsBase == <<0, 1, 2, 3, 4, 5, 6, 8, 10, 14, 18, 26, 34, 50, 66, 98, 130, 194,
             322, 578, 1090, 2114, 6210, 22594>>
InsExtra == <<0, 0, 0, 0, 0, 0, 1, 1, 2, 2, 3, 3, 4, 4, 5, 5, 6, 7, 8, 9, 10,
              12, 14, 24>>
CopyBase == <<2, 3, 4, 5, 6, 7, 8, 9, 10, 12, 14, 18, 22, 30, 38, 54, 70, 102,
              134, 198, 326, 582, 1094, 2118>>
CopyExtra == <<0, 0, 0, 0, 0, 0, 0, 0, 1, 1, 2, 2, 3, 3, 4, 4, 5, 5, 6, 7, 8,
               9, 10, 24>>

InsertLengthCode(n) ==
    IF n < 6 THEN n
    ELSE IF n < 130
    THEN LET nbits == Log2(n - 2) - 1 IN 2 * nbits + ((n - 2) \div 2^nbits) + 2
    ELSE IF n < 2114 THEN Log2(n - 66) + 10
    ELSE IF n < 6210 THEN 21
    ELSE IF n < 22594 THEN 22 ELSE 23

\* The table is filled from CopyBase: the last code whose base is reached.
CopyLengthCode(n) ==
    IF n < 10 THEN n - 2
    ELSE IF n < 2118
    THEN CHOOSE c \in 0 .. 22 : CopyBase[c + 1] <= n /\ n < CopyBase[c + 2]
    ELSE 23

CombineLengthCodes(ins, copy, useLast) ==
    LET bits64 == (copy % 8) + 8 * (ins % 8)
        cell == 2 * ((copy \div 8) + 3 * (ins \div 8))
        offset == 32 * cell + 64 + 64 * ((5377344 \div 2^(cell + 6)) % 4)
    IN IF useLast /\ ins < 8 /\ copy < 16
       THEN IF copy < 8 THEN bits64 ELSE bits64 + 64
       ELSE offset + bits64

LengthCode(ins, copy, useLast) ==
    CombineLengthCodes(InsertLengthCode(ins), CopyLengthCode(copy), useLast)

\* A distance code as symbol, number of extra bits, and extra bits.
PrefixEncodeCopyDistance(code, direct, postfix) ==
    IF code < ShortCodes + direct THEN [sym |-> code, nbits |-> 0, extra |-> 0]
    ELSE LET dist == 2^(postfix + 2) + code - ShortCodes - direct
             bucket == Log2(dist) - 1
             prefix == (dist \div 2^bucket) % 2
             nbits == bucket - postfix
         IN [sym |-> ShortCodes + direct
                       + (2 * (nbits - 1) + prefix) * 2^postfix + (dist % 2^postfix),
             nbits |-> nbits,
             extra |-> (dist - (2 + prefix) * 2^bucket) \div 2^postfix]

\* Command::new.  The difference between the coded and the real copy length is
\* kept in seven bits; one below -64 is stored as the coded length itself.
Command(ins, copy, delta, code, direct, postfix) ==
    LET dist == PrefixEncodeCopyDistance(code, direct, postfix)
    IN [ins |-> ins, copy |-> copy,
        mod |-> IF delta < -64 THEN 32 + copy + delta ELSE delta % 128,
        prefix |-> LengthCode(ins, copy + delta, dist.sym = 0),
        dist |-> dist]

InsertOnly(ins) ==
    [ins |-> ins, copy |-> 0, mod |-> 4, prefix |-> LengthCode(ins, 4, FALSE),
     dist |-> [sym |-> ShortCodes, nbits |-> 0, extra |-> 0]]

CopyLenCode(c) ==
    IF c.mod \in 32 .. 63 THEN c.mod - 32
    ELSE c.copy + (IF c.mod >= 64 THEN c.mod - 128 ELSE c.mod)

HasDistance(c) == c.copy # 0 /\ c.prefix >= 128

\* The context a distance symbol is coded in.
DistanceContext(c) ==
    IF c.prefix \div 64 \in {0, 2, 4, 7} /\ c.prefix % 8 <= 2 THEN c.prefix % 8 ELSE 3

RestoreDistanceCode(c, direct, postfix) ==
    IF c.dist.sym < ShortCodes + direct THEN c.dist.sym
    ELSE LET base == c.dist.sym - direct - ShortCodes
             offset == (2 + ((base \div 2^postfix) % 2)) * 2^(c.dist.nbits) - 4
         IN (offset + c.dist.extra) * 2^postfix + (base % 2^postfix)
              + direct + ShortCodes

\* compute_distance_code: the short codes around the last two distances.
NearLast == <<8, 6, 4, 0, 5, 7, 9>>
NearSecond == <<14, 12, 10, 1, 11, 13, 15>>
ComputeDistanceCode(d, max, cache) ==
    CASE d <= max /\ d = cache[1] -> 0
      [] d <= max /\ d = cache[2] -> 1
      [] d <= max /\ d + 3 - cache[1] \in 0 .. 6 -> NearLast[d + 4 - cache[1]]
      [] d <= max /\ d + 3 - cache[2] \in 0 .. 6 -> NearSecond[d + 4 - cache[2]]
      [] d <= max /\ d = cache[3] -> 2
      [] d <= max /\ d = cache[4] -> 3
      [] OTHER -> d + ShortCodes - 1

\* The extra bits of both lengths, the insert's below the copy's.
ExtraBits(c) ==
    LET ins == InsertLengthCode(c.ins) + 1
        copy == CopyLengthCode(CopyLenCode(c)) + 1
    IN [n |-> InsExtra[ins] + CopyExtra[copy],
        bits |-> (CopyLenCode(c) - CopyBase[copy]) * 2^(InsExtra[ins])
                   + c.ins - InsBase[ins]]

\* The tail of extend_last_command: the copy grew, its symbol is computed anew.
Relength(c, more) ==
    [c EXCEPT !.copy = @ + more,
              !.prefix = LengthCode(c.ins, c.copy + more + c.mod, c.dist.sym = 0)]

-----------------------------------------------------------------------------
(* Block lengths and literal contexts, as both sides know them             *)

BlockLenOffset == <<1, 5, 9, 13, 17, 25, 33, 41, 49, 65, 81, 97, 113, 145, 177, 209, 241, 305,
                    369, 497, 753, 1265, 2289, 4337, 8433, 16625>>
BlockLenBits == <<2, 2, 2, 2, 3, 3, 3, 3, 4, 4, 4, 4, 5, 5, 5, 5, 6, 6, 7, 8, 9, 10, 11, 12, 13, 24>>

\* Modes as the header carries them.
Utf8 == 2

\* The class of the byte before, for the printable bytes from 32 on.
Utf8Printable == <<
    8, 12, 16, 12, 12, 20, 12, 16, 24, 28, 12, 12, 32, 12, 36, 12,
    44, 44, 44, 44, 44, 44, 44, 44, 44, 44, 32, 32, 24, 40, 28, 12,
    12, 48, 52, 52, 52, 48, 52, 52, 52, 48, 52, 52, 52, 52, 52, 48,
    52, 52, 52, 52, 52, 48, 52, 52, 52, 52, 52, 24, 12, 28, 12, 12,
    12, 56, 60, 60, 60, 56, 60, 60, 60, 56, 60, 60, 60, 60, 60, 56,
    60, 60, 60, 60, 60, 56, 60, 60, 60, 60, 60, 24, 12, 28, 12, 0>>
Utf8Last(b) ==
    CASE b \in {9, 10, 13} -> 4
      [] b \in 32 .. 127 -> Utf8Printable[b - 31]
      [] b \in 128 .. 191 -> b % 2
      [] b \in 192 .. 255 -> 2 + (b % 2)
      [] OTHER -> 0
\* Of the byte before that one, two bits.
Utf8Second(b) ==
    CASE b \in 97 .. 122 -> 3
      [] b \in (48 .. 57) \cup (65 .. 90) \cup (224 .. 255) -> 2
      [] b \in 33 .. 126 -> 1
      [] OTHER -> 0
SignedClass(b) ==
    CASE b = 0 -> 0
      [] b \in 1 .. 15 -> 1
      [] b \in 16 .. 63 -> 2
      [] b \in 64 .. 127 -> 3
      [] b \in 128 .. 191 -> 4
      [] b \in 192 .. 239 -> 5
      [] b \in 240 .. 254 -> 6
      [] OTHER -> 7
\* ContextMode::context: p1 is the last byte, p2 the one before.
LiteralContext(mode, p1, p2) ==
    IF mode = Utf8 THEN Utf8Last(p1) + Utf8Second(p2) ELSE 8 * SignedClass(p1) + SignedClass(p2)
=============================================================================
