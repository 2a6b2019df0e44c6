--------------------------- MODULE MetaBlockReader ---------------------------
(***************************************************************************)
(* How the decoder reads a meta-block: its header (header.rs), block       *)
(* switches (block.rs), context maps (context_map.rs), distances           *)
(* (distance.rs) and the stages of stream.rs that string them together     *)
(* (src/src/decompressor/core).  The path is "slow" for the byte-exact     *)
(* stages and "fast" for the command loop: they share the headers and      *)
(* differ in how they look up symbols, contexts and distances.             *)
(*                                                                         *)
(* A reader is a record                                                    *)
(*   ok      no error so far                                               *)
(*   pos     bits read                                                     *)
(*   text    what has been decoded                                         *)
(*   cache   the last four distances, latest first                         *)
(*   filled  the layout the table of distances was last filled for         *)
(*   last    whether the meta-block read was the last                      *)
(* and, inside a meta-block, what its header announced.                    *)
(***************************************************************************)
EXTENDS EntropyCode, EncoderCommand

CONSTANT MaxBackward  \* the furthest distance of the window

NoLayout == [postfix |-> 0, direct |-> 0, large |-> FALSE]
NewReader(cache) ==
    [ok |-> TRUE, pos |-> 0, text |-> <<>>, cache |-> cache, filled |-> NoLayout, last |-> FALSE]
Refused(r) == [r EXCEPT !.ok = FALSE]

\* Bits::align: the padding must be zeros.
NextByte(pos) == pos + ((8 - (pos % 8)) % 8)
Align(wire, r) ==
    [r EXCEPT !.pos = NextByte(r.pos),
              !.ok = @ /\ \A i \in r.pos .. NextByte(r.pos) - 1 : BitAt(wire, i) = 0]

-----------------------------------------------------------------------------
(* Headers                                                                 *)

Header(kind, ok, last, length, pos) ==
    [kind |-> kind, ok |-> ok, last |-> last, length |-> length, pos |-> pos]

\* A length of more digits than it needs is refused.
Metadata(wire, pos, last) ==
    LET bytes == Peek(wire, pos + 1, 2)
        length == Peek(wire, pos + 3, 8 * bytes)
    IN Header("metadata",
              BitAt(wire, pos) = 0 /\ (bytes > 1 => length >= 256^(bytes - 1)), last,
              IF bytes = 0 THEN 0 ELSE length + 1, pos + 3 + 8 * bytes)

Sized(wire, pos, nibbles, last) ==
    LET length == Peek(wire, pos, LengthBits[nibbles])
        after == pos + LengthBits[nibbles]
        ok == nibbles > 4 => length >= 2^LengthBits[nibbles - 1]
    IN IF last THEN Header("coded", ok, TRUE, length + 1, after)
       ELSE Header(IF BitAt(wire, after) = 1 THEN "raw" ELSE "coded", ok, FALSE, length + 1, after + 1)

MetaBlockHeader(wire, pos) ==
    LET last == BitAt(wire, pos) = 1
        at == IF last THEN pos + 2 ELSE pos + 1
        nibbles == Peek(wire, at, 2) + 4
    IN IF last /\ BitAt(wire, pos + 1) = 1 THEN Header("end", TRUE, TRUE, 0, pos + 2)
       ELSE IF nibbles = 7 THEN Metadata(wire, at + 2, last)
       ELSE Sized(wire, at + 2, nibbles, last)

\* A number below 256 and where it ends.
Uint8(wire, pos) ==
    LET n == Peek(wire, pos + 1, 3)
    IN IF BitAt(wire, pos) = 0 THEN [value |-> 0, pos |-> pos + 1]
       ELSE [value |-> 2^n + Peek(wire, pos + 4, n), pos |-> pos + 4 + n]

-----------------------------------------------------------------------------
(* Blocks                                                                  *)

\* Without a second type the block never ends: the count starts below zero.
Endless == -1
NoTable == Table(Lists)
FirstBlock == [count |-> 1, current |-> 0, previous |-> 1, remaining |-> Endless,
               types |-> NoTable, lengths |-> NoTable]

\* A block length behind its symbol.
LengthFrom(wire, r, i, got) ==
    [r EXCEPT !.pos = got.pos + BlockLenBits[got.sym + 1],
              !.blocks[i].remaining =
                  BlockLenOffset[got.sym + 1] + Peek(wire, got.pos, BlockLenBits[got.sym + 1])]
ReadLength(wire, r, i, path) ==
    LengthFrom(wire, r, i, Decode(r.blocks[i].lengths, wire, r.pos, path))

SwitchTo(block, symbol) ==
    LET next == CASE symbol = 0 -> block.previous
                  [] symbol = 1 -> block.current + 1
                  [] OTHER -> symbol - 2
    IN [block EXCEPT !.previous = block.current, !.current = next % block.count]
Switched(r, i, got) == [r EXCEPT !.pos = got.pos, !.blocks[i] = SwitchTo(@, got.sym)]

\* prepare, and switch_fast: when the block is used up.
Prepare(wire, r, i, path) ==
    IF r.blocks[i].remaining # 0 THEN r
    ELSE ReadLength(wire, Switched(r, i, Decode(r.blocks[i].types, wire, r.pos, path)), i, path)

\* One code after the other, each of its own alphabet.
WithCode(acc, code) ==
    [ok |-> code.ok, pos |-> code.pos, tables |-> Append(acc.tables, code.table)]
ReadCodes(wire, pos, alphabets) ==
    FoldLeft(LAMBDA acc, a : IF acc.ok THEN WithCode(acc, ReadCode(wire, acc.pos, a)) ELSE acc,
             [ok |-> TRUE, pos |-> pos, tables |-> <<>>], alphabets)

\* The first block of several types has a length only.
WithTables(wire, r, i, count, got) ==
    IF got.ok
    THEN ReadLength(wire, [r EXCEPT !.pos = got.pos,
                                    !.blocks[i] = [FirstBlock EXCEPT !.count = count,
                                                       !.types = got.tables[1], !.lengths = got.tables[2]]],
                    i, "slow")
    ELSE Refused(r)
WithCount(wire, r, i, n) ==
    IF n.value = 0 THEN [r EXCEPT !.pos = n.pos]
    ELSE WithTables(wire, r, i, n.value + 1, ReadCodes(wire, n.pos, <<n.value + 3, 26>>))
BlockHeader(wire, r, i) == WithCount(wire, r, i, Uint8(wire, r.pos))

-----------------------------------------------------------------------------
(* Context maps                                                            *)

NoMap == [ok |-> FALSE, trees |-> 0, values |-> <<>>, pos |-> 0]

RECURSIVE ReadEntries(_, _, _, _, _, _, _)
Entered(wire, table, run, trees, size, values, got) ==
    IF got.sym \in 1 .. run
    THEN ReadEntries(wire, table, run, trees, size,
                     values \o Zeros(2^(got.sym) + Peek(wire, got.pos, got.sym)), got.pos + got.sym)
    ELSE IF got.sym # 0 /\ got.sym - run >= trees THEN NoMap
    ELSE ReadEntries(wire, table, run, trees, size,
                     Append(values, IF got.sym = 0 THEN 0 ELSE got.sym - run), got.pos)
ReadEntries(wire, table, run, trees, size, values, pos) ==
    IF Len(values) > size THEN NoMap
    ELSE IF Len(values) = size THEN [ok |-> TRUE, trees |-> trees, values |-> values, pos |-> pos]
    ELSE Entered(wire, table, run, trees, size, values, Decode(table, wire, pos, "slow"))

\* Every value is the rank of a tree in a list it then moves to the front of.
ByRank(acc, v) ==
    [list |-> <<acc.list[v + 1]>> \o SubSeq(acc.list, 1, v) \o SubSeq(acc.list, v + 2, Len(acc.list)),
     out |-> Append(acc.out, acc.list[v + 1])]
\* Up to 2^k values more.
RECURSIVE ByRankFrom(_, _, _)
ByRankFrom(acc, values, k) ==
    IF Len(acc.out) = Len(values) THEN acc
    ELSE IF k = 0 THEN ByRank(acc, values[Len(acc.out) + 1])
    ELSE ByRankFrom(ByRankFrom(acc, values, k - 1), values, k - 1)
InverseTransform(values) ==
    ByRankFrom([list |-> <<>> \o [i \in 1 .. 256 |-> i - 1], out |-> <<>>], values, 14).out
Transformed(wire, map) ==
    IF ~map.ok THEN map
    ELSE [map EXCEPT !.pos = @ + 1,
                     !.values = IF BitAt(wire, map.pos) = 1 THEN InverseTransform(@) ELSE @]

WithTree(wire, run, trees, size, code) ==
    IF code.ok THEN Transformed(wire, ReadEntries(wire, code.table, run, trees, size, <<>>, code.pos))
    ELSE NoMap
WithTreeCount(wire, n, size) ==
    LET flag == BitAt(wire, n.pos)
        run == IF flag = 0 THEN 0 ELSE (Peek(wire, n.pos, 5) \div 2) + 1
        at == n.pos + (IF flag = 0 THEN 1 ELSE 5)
    IN IF n.value = 0 THEN [ok |-> TRUE, trees |-> 1, values |-> Zeros(size), pos |-> n.pos]
       ELSE WithTree(wire, run, n.value + 1, size, ReadCode(wire, at, n.value + 1 + run))
ReadMap(wire, pos, size) == WithTreeCount(wire, Uint8(wire, pos), size)

\* Types whose contexts all select one tree need no context to be decoded.
Trivial(values) ==
    {t \in 0 .. (Len(values) \div 64) - 1 :
       \A i \in 1 .. 64 : values[64 * t + i] = values[64 * t + 1]}

-----------------------------------------------------------------------------
(* Distances                                                               *)

LayoutOf(header, large) ==
    LET postfix == header % 4 IN [postfix |-> postfix, direct |-> (header \div 4) * 2^postfix, large |-> large]
DistanceAlphabet(l) == ShortCodes + l.direct + (IF l.large THEN 124 ELSE 48) * 2^(l.postfix)
DistanceExtraBits(l, symbol) ==
    IF symbol < ShortCodes + l.direct THEN 0
    ELSE 1 + (symbol - ShortCodes - l.direct) \div 2^(l.postfix + 1)
LongDistance(l, symbol, extra) ==
    LET code == symbol - ShortCodes - l.direct
        high == code \div 2^(l.postfix)
    IN IF symbol < ShortCodes + l.direct THEN symbol - ShortCodes + 1
       ELSE ((2 + (high % 2)) * 2^(DistanceExtraBits(l, symbol)) - 4 + extra) * 2^(l.postfix)
              + (code % 2^(l.postfix)) + l.direct + 1

\* The split of a symbol the command loop looks up: a base and a width.
DistanceEntry(l, symbol) ==
    IF symbol < ShortCodes THEN [width |-> 0, base |-> 0]
    ELSE [width |-> DistanceExtraBits(l, symbol), base |-> LongDistance(l, symbol, 0)]
IsStandard(l) == l = NoLayout
\* A table filled for one layout serves until another one is met; the standard
\* layout has a table of its own.
Fill(filled, l) == IF IsStandard(l) THEN filled ELSE l
TableLayout(filled, l) == IF IsStandard(l) THEN NoLayout ELSE filled

ShortIndex == <<0, 1, 2, 3, 0, 0, 0, 0, 0, 0, 1, 1, 1, 1, 1, 1>>
ShortOffset == <<0, 0, 0, 0, -1, 1, -2, 2, -3, 3, -1, 1, -2, 2, -3, 3>>
ShortDistance(cache, symbol) == cache[ShortIndex[symbol + 1] + 1] + ShortOffset[symbol + 1]

Resolved(r, symbol, extra) ==
    IF symbol < ShortCodes THEN ShortDistance(r.cache, symbol)
    ELSE LongDistance(r.layout, symbol, extra)
ResolvedFast(r, symbol, extra) ==
    IF symbol < ShortCodes THEN ShortDistance(r.cache, symbol)
    ELSE DistanceEntry(TableLayout(r.filled, r.layout), symbol).base
           + extra * 2^(r.layout.postfix)

-----------------------------------------------------------------------------
(* The stages                                                              *)

ReadModes(wire, r) ==
    LET n == r.blocks[1].count
    IN [r EXCEPT !.modes = [i \in 1 .. n |-> Peek(wire, r.pos + 2 * (i - 1), 2)], !.pos = @ + 2 * n]
ReadLayout(wire, r, large) ==
    LET l == LayoutOf(Peek(wire, r.pos, 6), large)
    IN [r EXCEPT !.layout = l, !.filled = Fill(@, l), !.pos = @ + 6]

Mapped(r, i, map) == [r EXCEPT !.ok = @ /\ map.ok, !.pos = map.pos, !.maps[i] = map]
MapSize(r, i) == IF i = 1 THEN 64 * r.blocks[1].count ELSE 4 * r.blocks[3].count
ReadMaps(wire, r) ==
    FoldLeft(LAMBDA acc, i : IF acc.ok THEN Mapped(acc, i, ReadMap(wire, acc.pos, MapSize(acc, i)))
                             ELSE acc, r, <<1, 2>>)

\* A group of trees for each kind of symbol.
Planted(r, i, got) == [r EXCEPT !.ok = got.ok, !.pos = got.pos, !.trees[i] = got.tables]
TreesOf(r) == <<r.maps[1].trees, r.blocks[2].count, r.maps[2].trees>>
AlphabetsOf(r) == <<256, 704, DistanceAlphabet(r.layout)>>
ReadGroups(wire, r) ==
    FoldLeft(LAMBDA acc, i :
               IF acc.ok
               THEN Planted(acc, i, ReadCodes(wire, acc.pos,
                              [k \in 1 .. TreesOf(r)[i] |-> AlphabetsOf(r)[i]]))
               ELSE acc, r, <<1, 2, 3>>)

ReadBlocks(wire, r) ==
    FoldLeft(LAMBDA acc, i : IF acc.ok THEN BlockHeader(wire, acc, i) ELSE acc, r, <<1, 2, 3>>)

Took(r, i, got) == [r EXCEPT !.pos = got.pos, !.sym = got.sym, !.blocks[i].remaining = @ - 1]
Symbol(wire, r, i, tree, path) == Took(r, i, Decode(r.trees[i][tree + 1], wire, r.pos, path))

Back(text, n) == IF n <= Len(text) THEN text[Len(text) - n + 1] ELSE 0
\* The tree of the next literal; the loop skips the context where there is one tree.
LiteralTree(r, path) ==
    LET block == r.blocks[1].current
        context == LiteralContext(r.modes[block + 1], Back(r.text, 1), Back(r.text, 2))
    IN IF path = "fast" /\ block \in Trivial(r.maps[1].values) THEN r.maps[1].values[64 * block + 1]
       ELSE r.maps[1].values[64 * block + context + 1]
LiteralAt(wire, r, path) == Symbol(wire, r, 1, LiteralTree(r, path), path)
Emitted(r) == [r EXCEPT !.text = Append(@, r.sym)]
ReadLiterals(wire, r, n, path) ==
    FoldLeft(LAMBDA acc, k : Emitted(LiteralAt(wire, Prepare(wire, acc, 1, path), path)),
             r, UpTo(n))

\* A copy within the text and the window; a remembered distance stays where it is.
CopyFrom(r, symbol, distance, copy) ==
    IF distance \notin 1 .. Min({Len(r.text), MaxBackward}) \/ Len(r.text) + copy > r.end THEN Refused(r)
    ELSE [r EXCEPT !.text = @ \o [i \in 1 .. copy |-> r.text[Len(r.text) - distance + 1 + ((i - 1) % distance)]],
                   !.cache = IF symbol = 0 THEN @ ELSE <<distance, @[1], @[2], @[3]>>]

DistanceContextOf(copy) == IF copy > 4 THEN 3 ELSE copy - 2
WithExtra(wire, r, copy, path) ==
    LET width == DistanceExtraBits(r.layout, r.sym)
        extra == Peek(wire, r.pos, width)
    IN CopyFrom([r EXCEPT !.pos = @ + width], r.sym,
                IF path = "fast" THEN ResolvedFast(r, r.sym, extra) ELSE Resolved(r, r.sym, extra), copy)
DistanceAt(wire, r, copy, path) ==
    Symbol(wire, r, 3, r.maps[2].values[4 * r.blocks[3].current + DistanceContextOf(copy) + 1], path)
ReadDistance(wire, r, implicit, copy, path) ==
    IF ~r.ok \/ Len(r.text) = r.end THEN r
    ELSE IF implicit THEN CopyFrom(r, 0, r.cache[1], copy)
    ELSE WithExtra(wire, DistanceAt(wire, Prepare(wire, r, 3, path), copy, path), copy, path)

Cells == <<0, 1, 0, 1, 8, 9, 2, 16, 10, 17, 18>>
InsertCode(symbol) == 8 * (Cells[(symbol \div 64) + 1] \div 8) + ((symbol \div 8) % 8)
CopyCode(symbol) == 8 * (Cells[(symbol \div 64) + 1] % 4) + (symbol % 8)

\* Both lengths behind the symbol, the literals, the distance.
ObeyLengths(wire, r, insert, copy, path) ==
    IF Len(r.text) + insert > r.end THEN Refused(r)
    ELSE ReadDistance(wire, ReadLiterals(wire, r, insert, path), r.sym < 128, copy, path)
ObeyCommand(wire, r, path) ==
    LET ins == InsertCode(r.sym) + 1
        copy == CopyCode(r.sym) + 1
        after == r.pos + InsExtra[ins]
    IN ObeyLengths(wire, [r EXCEPT !.pos = after + CopyExtra[copy]],
                   InsBase[ins] + Peek(wire, r.pos, InsExtra[ins]),
                   CopyBase[copy] + Peek(wire, after, CopyExtra[copy]), path)
CommandAt(wire, r, path) == Symbol(wire, r, 2, r.blocks[2].current, path)

RECURSIVE ReadCommands(_, _, _)
ReadCommands(wire, r, path) ==
    IF ~r.ok \/ Len(r.text) >= r.end THEN r
    ELSE ReadCommands(wire, ObeyCommand(wire, CommandAt(wire, Prepare(wire, r, 2, path), path), path), path)

\* What is kept of a reader between meta-blocks.
Between(r) ==
    [ok |-> r.ok, pos |-> r.pos, text |-> r.text, cache |-> r.cache, filled |-> r.filled, last |-> r.last]
Opened(r, h) ==
    [ok |-> r.ok, pos |-> h.pos, text |-> r.text, cache |-> r.cache, filled |-> r.filled,
     last |-> h.last, end |-> Len(r.text) + h.length, sym |-> 0, layout |-> NoLayout, modes |-> <<>>,
     blocks |-> <<FirstBlock, FirstBlock, FirstBlock>>, maps |-> <<NoMap, NoMap>>,
     trees |-> <<<<>>, <<>>, <<>>>>]

ReadTables(wire, r, large) ==
    IF r.ok THEN ReadGroups(wire, ReadMaps(wire, ReadModes(wire, ReadLayout(wire, r, large)))) ELSE r
ReadRaw(wire, r, h) ==
    [r EXCEPT !.pos = @ + 8 * h.length, !.last = FALSE,
              !.text = @ \o [i \in 1 .. h.length |-> Peek(wire, r.pos + 8 * (i - 1), 8)]]
Finished(wire, r) == IF r.last THEN Align(wire, r) ELSE r

Follow(wire, r, h, large, path) ==
    CASE ~h.ok -> Refused(r)
      [] h.kind = "end" -> Align(wire, [r EXCEPT !.pos = h.pos, !.last = TRUE])
      [] h.kind = "metadata" ->
           Finished(wire, [Align(wire, [r EXCEPT !.pos = h.pos, !.last = h.last])
                             EXCEPT !.pos = @ + 8 * h.length])
      [] h.kind = "raw" -> ReadRaw(wire, Align(wire, [r EXCEPT !.pos = h.pos]), h)
      [] OTHER -> Finished(wire, Between(ReadCommands(wire,
                    ReadTables(wire, ReadBlocks(wire, Opened(r, h)), large), path)))
ReadMetaBlock(wire, r, large, path) == Follow(wire, r, MetaBlockHeader(wire, r.pos), large, path)
=============================================================================
