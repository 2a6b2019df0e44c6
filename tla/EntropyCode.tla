----------------------------- MODULE EntropyCode -----------------------------
(***************************************************************************)
(* How the encoder builds a prefix code and writes its description         *)
(* (src/src/shared/huffman.rs, the tables of src/src/shared/tables.rs).    *)
(* A histogram is a function from the symbols that occur to their counts;  *)
(* a code is a function from symbols to the bits that stand for them, in   *)
(* the order they reach the wire, and outlives the block it was built for: *)
(* what the code does not overwrite is still there.  A wire is a sequence  *)
(* of bits.                                                                *)
(***************************************************************************)
EXTENDS Integers, SequencesExt

CodeLengthCodes == 18
RepeatPrevious == 16
RepeatZero == 17

\* FlattenSeq by halves: a wire has hundreds of parts.
RECURSIVE Concatenated(_)
Concatenated(parts) ==
    LET n == Len(parts)
    IN IF n = 0 THEN <<>>
       ELSE IF n = 1 THEN parts[1]
       ELSE Concatenated(SubSeq(parts, 1, n \div 2)) \o Concatenated(SubSeq(parts, n \div 2 + 1, n))
UpTo(n) == [i \in 1 .. n |-> i]

\* BitWriter::write: the low bit first.
Bits(n, v) == [i \in 1 .. n |-> (v \div 2^(i - 1)) % 2]
Zeros(n) == [i \in 1 .. n |-> 0]
\* The same for a constant of more bits than an integer has, low digit first.
HexBits(n, digits) == SubSeq(Concatenated([i \in 1 .. Len(digits) |-> Bits(4, digits[i])]), 1, n)

\* write pads the last byte of an aligned wire with zeros.
Padding(wire) == Zeros((8 - (Len(wire) % 8)) % 8)

Ascending(S, top) == SelectSeq([i \in 1 .. top |-> i - 1], LAMBDA s : s \in S)
Used(hist) == Ascending(DOMAIN hist, IF hist = <<>> \/ DOMAIN hist = {} THEN 0 ELSE Max(DOMAIN hist) + 1)
CountOf(hist, s) == IF s \in DOMAIN hist THEN hist[s] ELSE 0
DepthOf(code, s) == IF s \in DOMAIN code THEN Len(code[s]) ELSE 0

-----------------------------------------------------------------------------
(* Depths                                                                  *)

Leaf(count, s) == [count |-> count, sym |-> s, depth |-> s :> 0]
Least(count, floor) == IF count < floor THEN floor ELSE count
\* The used symbols from the last to the first, no count below the floor.
Leaves(hist, floor) ==
    LET used == Used(hist)
    IN <<>> \o Reverse([i \in DOMAIN used |-> Leaf(Least(hist[used[i]], floor), used[i])])

PrecedesByValue(a, b) == a.count < b.count \/ (a.count = b.count /\ a.sym > b.sym)
Precedes(a, b) == a.count < b.count

\* One insertion of the shell sort, with the gap it runs at.
RECURSIVE Sift(_, _, _)
Sift(items, gap, i) ==
    IF i > gap /\ Precedes(items[i], items[i - gap])
    THEN Sift([items EXCEPT ![i] = items[i - gap], ![i - gap] = items[i]], gap, i - gap)
    ELSE items

ShellGaps(n) == IF n < 57 THEN <<23, 10, 4, 1>> ELSE <<132, 57, 23, 10, 4, 1>>
ShellSort(items) ==
    FoldLeft(LAMBDA t, gap :
               FoldLeft(LAMBDA u, i : Sift(u, gap, i), t, [k \in 1 .. Len(t) - gap |-> k + gap]),
             items, ShellGaps(Len(items)))

\* Leaves of one count keep their places in the insertion sort of short lists.
SortItems(items, byValue) ==
    IF byValue \/ Len(items) < 13 THEN SortSeq(items, PrecedesByValue) ELSE ShellSort(items)

FromLeaves(leaves, parents) ==
    leaves # <<>> /\ (parents = <<>> \/ leaves[1].count <= parents[1].count)
Deeper(node) == [s \in DOMAIN node.depth |-> node.depth[s] + 1]
Parent(a, b) == [count |-> a.count + b.count, depth |-> Deeper(a) @@ Deeper(b)]

\* Both runs are in order, so the two lightest nodes are at their fronts.
Lightest(f) == IF FromLeaves(f.leaves, f.parents) THEN f.leaves[1] ELSE f.parents[1]
Without(f) ==
    IF FromLeaves(f.leaves, f.parents) THEN [f EXCEPT !.leaves = Tail(@)] ELSE [f EXCEPT !.parents = Tail(@)]
MergeTwo(f, left, rest) ==
    [Without(rest) EXCEPT !.parents = Append(@, Parent(left, Lightest(rest)))]
IsTree(f) == Len(f.leaves) + Len(f.parents) = 1
\* Up to 2^k merges.
RECURSIVE MergeNodes(_, _)
MergeNodes(f, k) ==
    IF IsTree(f) THEN f
    ELSE IF k = 0 THEN MergeTwo(f, Lightest(f), Without(f))
    ELSE MergeNodes(MergeNodes(f, k - 1), k - 1)
TreeOf(leaves) == MergeNodes([leaves |-> leaves, parents |-> <<>>], 10).parents[1].depth

\* The tree is rebuilt with twice the least count until it is shallow enough.
RECURSIVE LimitedDepths(_, _, _, _)
LimitedDepths(hist, limit, byValue, floor) ==
    LET depth == TreeOf(SortItems(Leaves(hist, floor), byValue))
    IN IF \A s \in DOMAIN depth : depth[s] <= limit THEN depth
       ELSE LimitedDepths(hist, limit, byValue, 2 * floor)

CreateHuffmanTree(hist, limit) ==
    IF Cardinality(DOMAIN hist) = 1 THEN [s \in DOMAIN hist |-> 1]
    ELSE LimitedDepths(hist, limit, TRUE, 1)

-----------------------------------------------------------------------------
(* Code words                                                              *)

Word(n, v) == [i \in 1 .. n |-> (v \div 2^(n - i)) % 2]
\* The first word of each depth from one on.
NextCode(depth) ==
    FoldLeft(LAMBDA acc, n : Append(acc, 2 * (acc[n] + Cardinality({s \in DOMAIN depth : depth[s] = n}))),
             <<0>>, UpTo(14))

\* Symbols of one depth take consecutive codes in ascending order.
WordsFrom(first, n, symbols) ==
    [s \in Range(symbols) |-> Word(n, first + (CHOOSE i \in DOMAIN symbols : symbols[i] = s) - 1)]
ConvertBitDepthsToSymbols(depth) ==
    LET first == NextCode(depth)
        used == Used(depth)
    IN FoldLeft(LAMBDA code, n :
                  code @@ WordsFrom(first[n], n, SelectSeq(used, LAMBDA s : depth[s] = n)),
                [s \in {} |-> <<>>], UpTo(15))

-----------------------------------------------------------------------------
(* Descriptions                                                            *)

\* The runs of equal depths over the alphabet, up to the last used symbol.
Starts(depth, end) ==
    Ascending({s \in 0 .. end - 1 : s = 0 \/ CountOf(depth, s) # CountOf(depth, s - 1)}, end)
RunsFrom(depth, starts, end) ==
    <<>> \o [i \in DOMAIN starts |->
               [value |-> CountOf(depth, starts[i]),
                reps |-> (IF i = Len(starts) THEN end ELSE starts[i + 1]) - starts[i]]]
Runs(depth) ==
    LET end == Max(DOMAIN depth) + 1 IN RunsFrom(depth, Starts(depth, end), end)

Token(sym, extra) == [sym |-> sym, extra |-> extra]
Copies(n, sym) == [i \in 1 .. n |-> Token(sym, 0)]
RECURSIVE Repeats(_, _, _)
Repeats(sym, n, base) ==
    IF n < base THEN <<Token(sym, n)>>
    ELSE Repeats(sym, (n \div base) - 1, base) \o <<Token(sym, n % base)>>

\* Mutant: a run repeats the length before it, whichever that was.
WriteRepetitionsBlindly(previous, value, reps) ==
    IF reps < 3 THEN Copies(reps, value) ELSE Repeats(RepeatPrevious, reps - 3, 4)
WriteRepetitions(previous, value, reps) ==
    LET once == IF previous = value THEN 0 ELSE 1
        lead == once + (IF reps - once = 7 THEN 1 ELSE 0)
        left == reps - lead
    IN Copies(lead, value)
         \o (IF left < 3 THEN Copies(left, value) ELSE Repeats(RepeatPrevious, left - 3, 4))
WriteZeroRepetitions(reps) ==
    LET lead == IF reps = 11 THEN 1 ELSE 0
    IN Copies(lead, 0)
         \o (IF reps - lead < 3 THEN Copies(reps - lead, 0)
             ELSE Repeats(RepeatZero, reps - lead - 3, 8))

\* Is it worth it: the lengths in long runs against twice one more than the runs.
DecideOverRleUse(runs) ==
    LET Long(zero) == SelectSeq(runs, LAMBDA r : IF zero THEN r.value = 0 /\ r.reps >= 3
                                                         ELSE r.value # 0 /\ r.reps >= 4)
        Pays(long) == FoldLeft(LAMBDA a, r : a + r.reps, 0, long) > 2 * (Len(long) + 1)
    IN [zero |-> Pays(Long(TRUE)), other |-> Pays(Long(FALSE))]

\* The depth a repeat would be of: the last that was not zero.
Previous(runs, i) ==
    LET used == SelectSeq(SubSeq(runs, 1, i - 1), LAMBDA r : r.value # 0)
    IN IF used = <<>> THEN 8 ELSE used[Len(used)].value
RunTokens(runs, i, rle) ==
    LET r == runs[i]
    IN IF r.value = 0 THEN (IF rle.zero THEN WriteZeroRepetitions(r.reps) ELSE Copies(r.reps, 0))
       ELSE (IF rle.other THEN WriteRepetitions(Previous(runs, i), r.value, r.reps)
             ELSE Copies(r.reps, r.value))
TokensOf(runs, rle) == Concatenated([i \in DOMAIN runs |-> RunTokens(runs, i, rle)])
TokensBy(runs, length) ==
    TokensOf(runs, IF length > 50 THEN DecideOverRleUse(runs) ELSE [zero |-> FALSE, other |-> FALSE])
WriteHuffmanTree(depth, length) == TokensBy(Runs(depth), length)

StorageOrder == <<1, 2, 3, 4, 0, 5, 17, 6, 16, 7, 8, 9, 10, 11, 12, 13, 14, 15>>
CodeLengthHuffmanSymbols == <<0, 7, 3, 2, 1, 15>>
CodeLengthHuffmanDepths == <<2, 4, 3, 2, 2, 4>>

\* The depths that are not zero come first in the storage order; a code of one
\* symbol is stored to the end.
StoreCodeLengthCode(single, code) ==
    LET stored == {i \in 1 .. CodeLengthCodes : DepthOf(code, StorageOrder[i]) # 0}
        toStore == IF single THEN CodeLengthCodes ELSE Max(stored)
        skip == IF {1, 2} \cap stored # {} THEN 0 ELSE IF 3 \in stored THEN 2 ELSE 3
        one(i) == LET d == DepthOf(code, StorageOrder[i]) + 1
                  IN Bits(CodeLengthHuffmanDepths[d], CodeLengthHuffmanSymbols[d])
    IN Bits(2, skip) \o Concatenated([i \in 1 .. toStore - skip |-> one(i + skip)])

TokenBits(t, code) ==
    code[t.sym] \o (CASE t.sym = RepeatPrevious -> Bits(2, t.extra)
                      [] t.sym = RepeatZero -> Bits(3, t.extra)
                      [] OTHER -> <<>>)

\* A code of one code length takes no bits of its own.
CountedTokens(tokens) ==
    [s \in {tokens[i].sym : i \in DOMAIN tokens} |-> Len(SelectSeq(tokens, LAMBDA t : t.sym = s))]
WordsOf(code) == IF Cardinality(DOMAIN code) = 1 THEN [s \in DOMAIN code |-> <<>>] ELSE code
StoreTokens(tokens, words) ==
    Concatenated([i \in DOMAIN tokens |-> TokenBits(tokens[i], words)])
StoreTokensBy(tokens, code) ==
    StoreCodeLengthCode(Cardinality(DOMAIN code) = 1, code) \o StoreTokens(tokens, WordsOf(code))
StoreCounted(tokens) ==
    StoreTokensBy(tokens, ConvertBitDepthsToSymbols(CreateHuffmanTree(CountedTokens(tokens), 5)))
StoreHuffmanTree(depth, length) == StoreCounted(WriteHuffmanTree(depth, length))

\* The exchange sort keeps no order among equal depths: it swaps across them.
ExchangeSort(depth, symbols) ==
    LET n == Len(symbols)
        pairs == SelectSeq([k \in 1 .. n * n |-> <<((k - 1) \div n) + 1, ((k - 1) % n) + 1>>],
                           LAMBDA p : p[1] < p[2])
    IN FoldLeft(LAMBDA t, p :
                  IF depth[t[p[2]]] < depth[t[p[1]]]
                  THEN [t EXCEPT ![p[1]] = t[p[2]], ![p[2]] = t[p[1]]] ELSE t,
                symbols, pairs)

StoreSimpleCode(depth, maxBits) ==
    LET symbols == ExchangeSort(depth, Used(depth))
        n == Len(symbols)
    IN Bits(2, 1) \o Bits(2, n - 1)
         \o Concatenated([i \in 1 .. n |-> Bits(maxBits, symbols[i])])
         \o (IF n = 4 THEN Bits(1, IF depth[symbols[1]] = 1 THEN 1 ELSE 0) ELSE <<>>)

\* No symbol, or one: it takes no bits, and the rest of the table stays as it was.
StoreSingle(old, hist, maxBits) ==
    LET only == IF Used(hist) = <<>> THEN 0 ELSE Used(hist)[1]
    IN [code |-> (only :> <<>>) @@ old, wire |-> Bits(4, 1) \o Bits(maxBits, only)]

BitWidth(n) == IF n = 0 THEN 0 ELSE CHOOSE k \in 1 .. 30 : 2^(k - 1) <= n /\ n < 2^k
\* What fill(0) leaves of the table, and the new words over it.
Replaced(old, length, new) == new @@ [s \in {t \in DOMAIN old : t >= length} |-> old[s]]

StoreDepths(old, depth, length, maxBits) ==
    [code |-> Replaced(old, length, ConvertBitDepthsToSymbols(depth)),
     wire |-> IF Cardinality(DOMAIN depth) <= 4 THEN StoreSimpleCode(depth, maxBits)
              ELSE StoreHuffmanTree(depth, length)]
BuildAndStoreHuffmanTree(old, hist, length, alphabet) ==
    LET maxBits == BitWidth(alphabet - 1)
    IN IF Cardinality(DOMAIN hist) <= 1 THEN StoreSingle(old, hist, maxBits)
       ELSE StoreDepths(old, CreateHuffmanTree(hist, 15), length, maxBits)

-----------------------------------------------------------------------------
(* The fast variant, with its static code for code lengths                 *)

CodeLengthDepth == <<4, 4, 4, 4, 4, 4, 4, 4, 4, 4, 4, 4, 4, 5, 5, 0, 4, 4>>
CodeLengthBits == <<0, 8, 4, 12, 2, 10, 6, 14, 1, 9, 5, 13, 3, 15, 31, 0, 11, 7>>
\* 0xFF_5555_5554, forty bits.
StaticCodeLengthCode == HexBits(40, <<4, 5, 5, 5, 5, 5, 5, 5, 15, 15>>)
StaticTokens == [s \in 0 .. 17 |-> Bits(CodeLengthDepth[s + 1], CodeLengthBits[s + 1])]

\* Three or more left over are repeats; seven get no special treatment here.
FastRepetitions(previous, value, reps) ==
    LET once == IF previous = value THEN 0 ELSE 1
        left == reps - once
    IN Copies(once, value)
         \o (IF left < 3 THEN Copies(left, value) ELSE Repeats(RepeatPrevious, left - 3, 4))

FastTokens(runs, i) ==
    IF runs[i].value = 0 THEN WriteZeroRepetitions(runs[i].reps)
    ELSE FastRepetitions(Previous(runs, i), runs[i].value, runs[i].reps)
StoreStaticTree(depth) ==
    LET runs == Runs(depth)
        tokens == Concatenated([i \in DOMAIN runs |-> FastTokens(runs, i)])
    IN StaticCodeLengthCode \o Concatenated([i \in DOMAIN tokens |-> TokenBits(tokens[i], StaticTokens)])

StoreDepthsFast(old, depth, length, maxBits) ==
    [code |-> Replaced(old, length, ConvertBitDepthsToSymbols(depth)),
     wire |-> IF Cardinality(DOMAIN depth) <= 4 THEN StoreSimpleCode(depth, maxBits)
              ELSE StoreStaticTree(depth)]
BuildAndStoreHuffmanTreeFast(old, hist, maxBits) ==
    IF Cardinality(DOMAIN hist) <= 1 THEN StoreSingle(old, hist, maxBits)
    ELSE StoreDepthsFast(old, LimitedDepths(hist, 14, FALSE, 1), Max(DOMAIN hist) + 1, maxBits)

-----------------------------------------------------------------------------
(***************************************************************************)
(* How the decoder reads a prefix code and looks symbols up in it          *)
(* (src/src/decompressor/core/huffman.rs).  A reader is the wire and a     *)
(* position in bits; what it reads past the end is zeros.  A table is the  *)
(* list of the code's entries: the two levels the code fills are the       *)
(* functions Root and Second of it.                                        *)
(***************************************************************************)

CONSTANT LengthBits  \* digits of a meta-block's length -> bits, 16, 20 and 24 for 4, 5 and 6

RootBits == 8
MaxLength == 15

BitAt(wire, i) == IF i < Len(wire) THEN wire[i + 1] ELSE 0
\* The n bits from pos on as a number, the first lowest.
RECURSIVE Peek(_, _, _)
Peek(wire, pos, n) == IF n = 0 THEN 0 ELSE BitAt(wire, pos) + 2 * Peek(wire, pos + 1, n - 1)

-----------------------------------------------------------------------------
(* Building the tables                                                     *)

Lists == [n \in 1 .. MaxLength |-> <<>>]
Counts(lists) == [n \in 1 .. MaxLength |-> Len(lists[n])]
Total(lists) == FoldFunction(+, 0, Counts(lists))
\* What is left of the code space: none in a complete code.
SpaceLeft(counts) == FoldLeft(LAMBDA s, n : IF s < 0 THEN s ELSE 2 * s - counts[n], 1,
                              UpTo(MaxLength))

\* The low bits of v in reverse.
RECURSIVE KeyOf(_, _)
KeyOf(v, n) == IF n = 0 THEN 0 ELSE (v % 2) * 2^(n - 1) + KeyOf(v \div 2, n - 1)

Entry(key, len, sym) == [key |-> key, len |-> len, sym |-> sym]
\* Codes count up within a length and double between lengths.
Entries(lists) ==
    IF Total(lists) = 1
    THEN LET n == CHOOSE m \in 1 .. MaxLength : lists[m] # <<>> IN <<Entry(0, 0, lists[n][1])>>
    ELSE FoldLeft(LAMBDA acc, n :
                    [code |-> 2 * (acc.code + Len(lists[n])),
                     out |-> acc.out \o [i \in DOMAIN lists[n] |->
                               Entry(KeyOf(acc.code + i - 1, n), n, lists[n][i])]],
                  [code |-> 0, out |-> <<>>], UpTo(MaxLength)).out

RECURSIVE NextTableBits(_, _, _)
NextTableBits(remaining, n, left) ==
    IF n = MaxLength \/ left <= remaining[n] THEN n - RootBits
    ELSE NextTableBits(remaining, n + 1, 2 * (left - remaining[n]))

\* A new second-level table for every new key of the root, as wide as the
\* codes still unplaced need.
Low(e) == e.key % 2^RootBits
TableStarts(long) ==
    SelectSeq(UpTo(Len(long) + 1),
              LAMBDA i : i \in {1, Len(long) + 1} \/ Low(long[i]) # Low(long[i - 1]))
Unplaced(counts, n, i) ==
    [counts EXCEPT ![n] = MapThenSumSet(LAMBDA m : counts[m], RootBits + 1 .. n) - (i - 1)]
SecondBits(counts, n, i) == NextTableBits(Unplaced(counts, n, i), n, 2^(n - RootBits))
\* FoldSeq(+) by halves: there may be a table for every key.
RECURSIVE SumOf(_)
SumOf(seq) ==
    LET n == Len(seq)
    IN IF n = 0 THEN 0 ELSE IF n = 1 THEN seq[1]
       ELSE SumOf(SubSeq(seq, 1, n \div 2)) + SumOf(SubSeq(seq, n \div 2 + 1, n))
TableSizes(long, starts, counts) ==
    <<>> \o [k \in 1 .. Len(starts) - 1 |-> 2^SecondBits(counts, long[starts[k]].len, starts[k])]
SecondTables(long, starts, sizes) ==
    <<>> \o [k \in DOMAIN sizes |->
               [low |-> Low(long[starts[k]]), start |-> SumOf(SubSeq(sizes, 1, k - 1)),
                bits |-> BitWidth(sizes[k]) - 1,
                codes |-> SubSeq(long, starts[k], starts[k + 1] - 1)]]

Levels(short, long, starts, sizes) ==
    [short |-> short, tables |-> SecondTables(long, starts, sizes), size |-> SumOf(sizes)]
Tabled(short, long, starts, counts) ==
    Levels(short, long, starts, TableSizes(long, starts, counts))
TableOf(entries, counts) ==
    LET long == SelectSeq(entries, LAMBDA e : e.len > RootBits)
    IN Tabled(SelectSeq(entries, LAMBDA e : e.len <= RootBits), long, TableStarts(long), counts)
Table(lists) == TableOf(Entries(lists), Counts(lists))

Slot(bits, value) == [bits |-> bits, value |-> value]
\* A slot nobody wrote: whatever an earlier code left, never one of its symbols.
Unwritten == Slot(0, -1)
LastOf(s) == s[Len(s)]

\* replicate: an entry of n bits fills every slot that begins with its key.
Root(table, i) ==
    LET short == SelectSeq(table.short, LAMBDA e : i % 2^(e.len) = e.key)
        far == SelectSeq(table.tables, LAMBDA t : t.low = i)
    IN IF far # <<>> THEN Slot(LastOf(far).bits + RootBits, LastOf(far).start)
       ELSE IF short # <<>> THEN Slot(LastOf(short).len, LastOf(short).sym) ELSE Unwritten
SecondIn(t, off) ==
    LET codes == SelectSeq(t.codes, LAMBDA e : off % 2^(e.len - RootBits) = e.key \div 2^RootBits)
    IN IF codes = <<>> THEN Unwritten ELSE Slot(LastOf(codes).len - RootBits, LastOf(codes).sym)
Second(table, i) ==
    LET at == SelectSeq(table.tables, LAMBDA t : t.start <= i /\ i < t.start + 2^(t.bits))
    IN IF at = <<>> THEN Unwritten ELSE SecondIn(at[1], i - at[1].start)

\* decode_fast: fifteen bits are there.
Beyond(far) == Slot(RootBits + far.bits, far.value)
FollowEntry(table, peek, entry) ==
    IF entry.bits <= RootBits THEN entry
    ELSE Beyond(Second(table, entry.value + ((peek \div 2^RootBits) % 2^(entry.bits - RootBits))))
DecodeFast(table, peek) == FollowEntry(table, peek, Root(table, peek % 2^RootBits))

\* try_decode: the reservoir holds that many bits and zeros above them.
NeedsMore == Slot(-1, -1)
IfThere(got, available) == IF got.bits > available THEN NeedsMore ELSE got
TryDecode(table, peek, available) == IfThere(DecodeFast(table, peek), available)

\* decode: a byte at a time, until what is there suffices.
RECURSIVE DecodeSlow(_, _, _, _)
OrMore(table, wire, pos, available, got) ==
    IF got # NeedsMore \/ available > MaxLength THEN got
    ELSE DecodeSlow(table, wire, pos, available + 8)
DecodeSlow(table, wire, pos, available) ==
    OrMore(table, wire, pos, available, TryDecode(table, Peek(wire, pos, available), available))

\* A symbol, and where the reader is after it; path tells which code reads it.
ReadTo(pos, got) == [sym |-> got.value, pos |-> pos + got.bits]
Decode(table, wire, pos, path) ==
    ReadTo(pos, IF path = "fast" THEN DecodeFast(table, Peek(wire, pos, MaxLength))
                ELSE DecodeSlow(table, wire, pos, (8 - (pos % 8)) % 8))

-----------------------------------------------------------------------------
(* Reading a description                                                   *)

Failed(pos) == [ok |-> FALSE, pos |-> pos, lists |-> Lists]
Insert(lists, n, sym) == [lists EXCEPT ![n] = Append(@, sym)]

SimpleLengths(count, shape) ==
    CASE count = 1 -> <<1>>
      [] count = 2 -> <<1, 1>>
      [] count = 3 -> <<1, 2, 2>>
      [] OTHER -> IF shape = 0 THEN <<2, 2, 2, 2>> ELSE <<1, 2, 3, 3>>

\* The symbols of one length must be listed in ascending order.
ReadSimple(wire, pos, alphabet) ==
    LET count == Peek(wire, pos, 2) + 1
        width == BitWidth(alphabet - 1)
        symbols == [i \in 1 .. count |-> Peek(wire, pos + 2 + (i - 1) * width, width)]
        after == pos + 2 + count * width
        lengths == SimpleLengths(count, IF count = 4 THEN Peek(wire, after, 1) ELSE 0)
        At(n) == SelectSeq(symbols, LAMBDA s : \E i \in 1 .. count : symbols[i] = s /\ lengths[i] = n)
    IN IF IsInjective(symbols) /\ \A i \in 1 .. count : symbols[i] < alphabet
       THEN [ok |-> TRUE, pos |-> after + (IF count = 4 THEN 1 ELSE 0),
             lists |-> [n \in 1 .. MaxLength |-> SortSeq(At(n), <)]]
       ELSE Failed(after)

\* The lengths of the code for code lengths have a fixed code of their own.
LengthOf(wire, pos) ==
    CASE Peek(wire, pos, 2) = 0 -> [bits |-> 2, value |-> 0]
      [] Peek(wire, pos, 2) = 1 -> [bits |-> 2, value |-> 4]
      [] Peek(wire, pos, 2) = 2 -> [bits |-> 2, value |-> 3]
      [] OTHER -> CASE Peek(wire, pos, 3) = 3 -> [bits |-> 3, value |-> 2]
                    [] Peek(wire, pos, 4) = 7 -> [bits |-> 4, value |-> 1]
                    [] OTHER -> [bits |-> 4, value |-> 5]

RECURSIVE ReadCodeLengths(_, _, _, _, _)
ReadCodeLengths(wire, pos, index, space, small) ==
    IF index = CodeLengthCodes \/ space <= 0
    THEN [pos |-> pos, small |-> small,
          ok |-> space = 0 \/ (space > 0 /\ Cardinality(DOMAIN small) = 1)]
    ELSE LET got == LengthOf(wire, pos)
         IN ReadCodeLengths(wire, pos + got.bits, index + 1,
                            space - (IF got.value = 0 THEN 0 ELSE 32 \div 2^(got.value)),
                            IF got.value = 0 THEN small
                            ELSE (StorageOrder[index + 1] :> got.value) @@ small)

\* At most five bits each, so one level; a code of one symbol takes no bits.
LengthTable(small) ==
    LET At(n) == Ascending({s \in DOMAIN small : small[s] = n}, CodeLengthCodes)
    IN Entries([n \in 1 .. MaxLength |-> IF n <= 5 THEN At(n) ELSE <<>>])
NextLength(entries, wire, pos) ==
    SelectSeq(entries, LAMBDA e : Peek(wire, pos, e.len) = e.key)[1]

PushRun(lists, n, from, upto) ==
    [lists EXCEPT ![n] = @ \o [i \in 1 .. upto - from |-> from + i - 1]]

Reading(r, alphabet) == r.space > 0 /\ r.index < alphabet
\* One of the lengths: a repeat of the same length right after a repeat counts
\* in the next digit of one number.
Pushed(wire, alphabet, r, got) ==
    LET pos == r.pos + got.len
        width == got.sym - 14
        length == IF got.sym = RepeatPrevious THEN r.previous ELSE 0
        before == IF r.repeatLength = length THEN r.repeat ELSE 0
        repeat == (IF before = 0 THEN 0 ELSE (before - 2) * 2^width) + Peek(wire, pos, width) + 3
        upto == r.index + repeat - before
    IN CASE got.sym = 0 -> [r EXCEPT !.pos = pos, !.index = @ + 1, !.repeat = 0]
         [] got.sym \in 1 .. 15 ->
              [r EXCEPT !.pos = pos, !.index = @ + 1, !.repeat = 0, !.previous = got.sym,
                        !.lists = Insert(@, got.sym, r.index), !.space = @ - 32768 \div 2^(got.sym)]
         [] OTHER ->
              IF upto > alphabet THEN [r EXCEPT !.pos = pos, !.space = -1]
              ELSE [r EXCEPT !.pos = pos + width, !.index = upto, !.repeat = repeat,
                             !.repeatLength = length,
                             !.lists = IF length = 0 THEN @ ELSE PushRun(@, length, r.index, upto),
                             !.space = IF length = 0 THEN @ ELSE @ - (repeat - before) * 2^(15 - length)]
ReadSymbol(wire, alphabet, entries, r) == Pushed(wire, alphabet, r, NextLength(entries, wire, r.pos))
\* Up to 2^k of them.
RECURSIVE ReadSymbols(_, _, _, _, _)
ReadSymbols(wire, alphabet, entries, r, k) ==
    IF ~Reading(r, alphabet) THEN r
    ELSE IF k = 0 THEN ReadSymbol(wire, alphabet, entries, r)
    ELSE ReadSymbols(wire, alphabet, entries, ReadSymbols(wire, alphabet, entries, r, k - 1), k - 1)
SpaceFilled(r) == IF r.space = 0 THEN [ok |-> TRUE, pos |-> r.pos, lists |-> r.lists] ELSE Failed(r.pos)

BehindLengths(wire, alphabet, head) ==
    IF ~head.ok THEN Failed(head.pos)
    ELSE SpaceFilled(ReadSymbols(wire, alphabet, LengthTable(head.small),
           [pos |-> head.pos, index |-> 0, space |-> 32768, previous |-> 8, repeat |-> 0,
            repeatLength |-> 0, lists |-> Lists], 11))
ReadComplex(wire, pos, alphabet, skip) ==
    BehindLengths(wire, alphabet, ReadCodeLengths(wire, pos, skip, 32, [s \in {} |-> 0]))

\* Builder::read, then fill: an empty or incomplete code is refused.
IsComplete(lists) ==
    Total(lists) > 0 /\ (Total(lists) = 1 \/ SpaceLeft(Counts(lists)) = 0)
Filled(got, ok) ==
    [ok |-> ok, pos |-> got.pos, table |-> Table(IF ok THEN got.lists ELSE Lists)]
Checked(got) == Filled(got, got.ok /\ IsComplete(got.lists))
ReadCode(wire, pos, alphabet) ==
    LET skip == Peek(wire, pos, 2)
    IN Checked(IF skip = 1 THEN ReadSimple(wire, pos + 2, alphabet)
               ELSE ReadComplex(wire, pos + 2, alphabet, skip))

=============================================================================
