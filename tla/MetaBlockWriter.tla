--------------------------- MODULE MetaBlockWriter ---------------------------
(***************************************************************************)
(* How a meta-block is put on the wire (src/src/shared/bitstream.rs):      *)
(* headers, block switches, context maps, prefix codes and the symbols,    *)
(* for a block that was split (WriteMetaBlock), for one that was not       *)
(* (Trivial) and for the quickest way to write one (Fast).  A wire is a    *)
(* sequence of bits; the text is indexed by absolute position, the ring    *)
(* it is read from being EncoderRing's.                                    *)
(*                                                                         *)
(* A meta-block is a record of its place in the text (start, len), its     *)
(* commands, the distance parameters they were made with, and whether it   *)
(* is the last.  A split adds the blocks of each kind of symbol, a record  *)
(* of types and lengths, the histograms and the context maps.              *)
(***************************************************************************)
EXTENDS EntropyCode, EncoderCommand

CONSTANT MaxStaticCommands  \* commands up to which the static codes are used

NumLiterals == 256
NumCommands == 704
NumBlockLens == 26
MaxSimpleDistance == 140
LiteralContextBits == 6
DistanceContextBits == 2

NoCode == [s \in {} |-> <<>>]
HistogramOf(symbols) ==
    [s \in Range(symbols) |-> Cardinality({i \in DOMAIN symbols : symbols[i] = s})]

-----------------------------------------------------------------------------
(* Parameters of the distance alphabet                                     *)

MaxDistanceBits == 24
NewDistanceParams(postfix, direct) ==
    LET size == ShortCodes + direct + MaxDistanceBits * 2^(postfix + 1)
    IN [postfix |-> postfix, direct |-> direct, max |-> size, limit |-> size,
        far |-> direct + 2^(MaxDistanceBits + postfix + 2) - 2^(postfix + 2)]

\* The last group of symbols whose distances all stay below the forbidden one, of
\* which only half is formed so that it fits in an integer here.
LastGroup(maxDistance, postfix, direct) ==
    LET halved == (((maxDistance - direct) \div 2^postfix) \div 2) + 2
        bits == Log2(halved)
    IN 2 * (bits - 1) + ((halved \div 2^(bits - 1)) % 2) - 1
NewLargeDistanceParams(maxDistance, postfix, direct) ==
    LET group == LastGroup(maxDistance, postfix, direct)
        bits == (group \div 2) + 1
        start == 2^(bits + 1) - 4 + (group % 2) * 2^bits
    IN [postfix |-> postfix, direct |-> direct,
        max |-> ShortCodes + direct + 62 * 2^(postfix + 1),
        limit |-> (group + 1) * 2^postfix + direct + ShortCodes,
        far |-> (start + (2^bits - 1)) * 2^postfix + 2^postfix - 1 + direct + 1]

-----------------------------------------------------------------------------
(* Headers                                                                 *)

Nibbles(len) == CHOOSE n \in 4 .. 6 : len <= 2^LengthBits[n] /\ (n > 4 => len > 2^LengthBits[n - 1])
EncodeMlen(len) == Bits(2, Nibbles(len) - 4) \o Bits(LengthBits[Nibbles(len)], len - 1)

StoreCompressedHeader(last, len) ==
    IF last THEN <<1, 0>> \o EncodeMlen(len) ELSE <<0>> \o EncodeMlen(len) \o <<0>>
StoreUncompressedHeader(len) == <<0>> \o EncodeMlen(len) \o <<1>>

Aligned(wire) == wire \o Padding(wire)

StoreUncompressed(wire, bytes, last) ==
    Aligned(wire \o StoreUncompressedHeader(Len(bytes)))
      \o Concatenated([i \in DOMAIN bytes |-> Bits(8, bytes[i])])
      \o (IF last THEN <<1, 1>> \o Zeros(6) ELSE <<>>)

\* What ends a flush: an empty metadata block, when a byte is begun.
InjectBytePadding(wire) ==
    IF Len(wire) % 8 = 0 THEN wire ELSE Aligned(wire \o Bits(6, 6))

StoreVarLenUint8(n) ==
    IF n = 0 THEN <<0>>
    ELSE <<1>> \o Bits(3, Log2(n)) \o Bits(Log2(n), n - 2^(Log2(n)))

-----------------------------------------------------------------------------
(* Block switches                                                          *)

BlockLengthPrefixCode(len) == Max({c \in 0 .. NumBlockLens - 1 : len >= BlockLenOffset[c + 1]})

\* The last two types, and the code of the next one against them.
NewCalculator == [last |-> 1, second |-> 0]
TypeCode(calc, type) ==
    IF type = calc.last + 1 THEN 1 ELSE IF type = calc.second THEN 0 ELSE type + 2
NextCalculator(calc, type) == [last |-> type, second |-> calc.last]

TypeCodes(types) ==
    FoldLeft(LAMBDA acc, t : [calc |-> NextCalculator(acc.calc, t),
                              out |-> Append(acc.out, TypeCode(acc.calc, t))],
             [calc |-> NewCalculator, out |-> <<>>], types).out

BlockLenWord(enc, len) ==
    LET code == BlockLengthPrefixCode(len)
    IN enc.lenCode[code] \o Bits(BlockLenBits[code + 1], len - BlockLenOffset[code + 1])

FirstLength(split) == IF split.lengths = <<>> THEN 0 ELSE split.lengths[1]
\* An encoder of one kind of symbol: where it is in its blocks, and its codes.
BlockEncoder(split) ==
    [types |-> split.types, lengths |-> split.lengths, ix |-> 1, left |-> FirstLength(split),
     type |-> 0, calc |-> NewCalculator, typeCode |-> NoCode, lenCode |-> NoCode,
     codes |-> <<>>]

\* A single type has neither codes nor switches; the first block writes its
\* length only.
TypeHistogram(split) == HistogramOf(Tail(TypeCodes(split.types)))
LengthHistogram(split) ==
    HistogramOf([i \in DOMAIN split.lengths |-> BlockLengthPrefixCode(split.lengths[i])])
Started(split, types, lens) ==
    [BlockEncoder(split) EXCEPT !.typeCode = types.code, !.lenCode = lens.code,
                                !.calc = NextCalculator(@, split.types[1])]
FirstSwitch(split, types, lens, enc) ==
    [enc |-> enc,
     wire |-> StoreVarLenUint8(split.numTypes - 1) \o types.wire \o lens.wire
                \o BlockLenWord(enc, split.lengths[1])]
WithSwitchCodes(split, types, lens) == FirstSwitch(split, types, lens, Started(split, types, lens))
StoreSwitchCodes(split) ==
    LET n == split.numTypes
    IN IF n = 1 THEN [enc |-> BlockEncoder(split), wire |-> StoreVarLenUint8(0)]
       ELSE WithSwitchCodes(split, BuildAndStoreHuffmanTree(NoCode, TypeHistogram(split), n + 2, n + 2),
              BuildAndStoreHuffmanTree(NoCode, LengthHistogram(split), NumBlockLens, NumBlockLens))

\* advance_block: the switch is written when the block before it is used up.
\* A symbol no code has a word for is written as nothing, the depth being zero.
WordOf(code, s) == IF s \in DOMAIN code THEN code[s] ELSE <<>>
AdvanceBlock(enc) ==
    LET type == enc.types[enc.ix + 1]
        len == enc.lengths[enc.ix + 1]
    IN IF enc.left # 0 THEN [enc |-> enc, wire |-> <<>>]
       ELSE [enc |-> [enc EXCEPT !.ix = @ + 1, !.left = len, !.type = type,
                                 !.calc = NextCalculator(@, type)],
             wire |-> WordOf(enc.typeCode, TypeCode(enc.calc, type)) \o
                      (IF enc.lenCode = NoCode THEN <<>> ELSE BlockLenWord(enc, len))]

\* A symbol, in the code its block's type and its context select.
StoreSymbol(enc, symbol, context, map, contexts) ==
    LET got == AdvanceBlock(enc)
        histogram == IF map = <<>> THEN got.enc.type ELSE map[got.enc.type * contexts + context + 1]
    IN [enc |-> [got.enc EXCEPT !.left = @ - 1],
        wire |-> got.wire \o WordOf(got.enc.codes[histogram + 1], symbol)]

CodesOf(stored) ==
    [codes |-> [i \in DOMAIN stored |-> stored[i].code],
     wire |-> Concatenated([i \in DOMAIN stored |-> stored[i].wire])]
StoreEntropyCodes(histograms, length, alphabet) ==
    CodesOf(<<>> \o [i \in DOMAIN histograms |->
              BuildAndStoreHuffmanTree(NoCode, histograms[i], length, alphabet)])

-----------------------------------------------------------------------------
(* Context maps                                                            *)

MoveToFront(list, i) == <<list[i]>> \o SubSeq(list, 1, i - 1) \o SubSeq(list, i + 1, Len(list))
InOrder(n) == [list |-> UpTo(n), out |-> <<>>]
Ranked(acc, v) ==
    LET i == CHOOSE j \in DOMAIN acc.list : acc.list[j] = v + 1
    IN [list |-> MoveToFront(acc.list, i), out |-> Append(acc.out, i - 1)]
\* Up to 2^k values more.
RECURSIVE RankFrom(_, _, _)
RankFrom(acc, map, k) ==
    IF Len(acc.out) = Len(map) THEN acc
    ELSE IF k = 0 THEN Ranked(acc, map[Len(acc.out) + 1])
    ELSE RankFrom(RankFrom(acc, map, k - 1), map, k - 1)
MoveToFrontTransform(map) == RankFrom(InOrder(Max(Range(map)) + 1), map, 14).out

Item(sym, extra) == [sym |-> sym, extra |-> extra]
RECURSIVE ZeroRun(_, _)
ZeroRun(reps, prefix) ==
    IF reps = 0 THEN <<>>
    ELSE IF reps < 2^(prefix + 1) THEN <<Item(Log2(reps), reps - 2^(Log2(reps)))>>
    ELSE <<Item(prefix, 2^prefix - 1)>> \o ZeroRun(reps - (2^(prefix + 1) - 1), prefix)

\* The runs of zeros and the values between them.
RunStart(v, i) == i = Len(v) + 1 \/ v[i] # 0 \/ i = 1 \/ v[i - 1] # 0
ZeroRuns(v) ==
    LET starts == SelectSeq(UpTo(Len(v) + 1), LAMBDA i : RunStart(v, i))
    IN <<>> \o [k \in 1 .. Len(starts) - 1 |->
                  [zero |-> v[starts[k]] = 0,
                   n |-> IF v[starts[k]] = 0 THEN starts[k + 1] - starts[k] ELSE v[starts[k]]]]
PrefixFor(runs, most) ==
    LET longest == Max({0} \cup {runs[i].n : i \in {j \in DOMAIN runs : runs[j].zero}})
    IN IF longest = 0 THEN 0 ELSE Min({Log2(longest), most})
ItemsOf(runs, prefix) ==
    [prefix |-> prefix,
     items |-> Concatenated([i \in DOMAIN runs |->
                 IF runs[i].zero THEN ZeroRun(runs[i].n, prefix) ELSE <<Item(runs[i].n + prefix, 0)>>])]
Coded(runs, most) == ItemsOf(runs, PrefixFor(runs, most))
RunLengthCodeZeros(v, most) == Coded(ZeroRuns(v), most)

ItemBits(item, code, prefix) ==
    code[item.sym] \o (IF item.sym \in 1 .. prefix THEN Bits(item.sym, item.extra) ELSE <<>>)

\* Returns the code too: the arena keeps it until the next map is written.
MapOf(rle, clusters, got) ==
    [arena |-> got.code,
     wire |-> StoreVarLenUint8(clusters - 1)
                \o (IF rle.prefix > 0 THEN <<1>> \o Bits(4, rle.prefix - 1) ELSE <<0>>)
                \o got.wire
                \o Concatenated([i \in DOMAIN rle.items |-> ItemBits(rle.items[i], got.code, rle.prefix)])
                \o <<1>>]
EncodeItems(arena, rle, clusters) ==
    MapOf(rle, clusters,
          BuildAndStoreHuffmanTree(arena, HistogramOf([i \in DOMAIN rle.items |-> rle.items[i].sym]),
                                   clusters + rle.prefix, clusters + rle.prefix))
EncodeContextMap(arena, map, clusters) ==
    IF clusters = 1 THEN [arena |-> arena, wire |-> StoreVarLenUint8(0)]
    ELSE EncodeItems(arena, RunLengthCodeZeros(MoveToFrontTransform(map), 6), clusters)

\* One histogram for each type: the type's number, then a run of zeros.
TrivialMapOf(types, repeat, got) ==
    LET one(i) == got.code[IF i = 0 THEN 0 ELSE i + repeat] \o got.code[repeat]
                    \o Bits(repeat, 2^repeat - 1)
    IN [arena |-> got.code,
        wire |-> StoreVarLenUint8(types - 1) \o <<1>> \o Bits(4, repeat - 1) \o got.wire
                   \o Concatenated([i \in 1 .. types |-> one(i - 1)]) \o <<1>>]
StoreTrivialContextMap(arena, types, bits) ==
    LET repeat == bits - 1
        size == types + repeat
        hist == [s \in {0, repeat} \cup bits .. size - 1 |-> IF s = repeat THEN types ELSE 1]
    IN IF types <= 1 THEN [arena |-> arena, wire |-> StoreVarLenUint8(0)]
       ELSE TrivialMapOf(types, repeat, BuildAndStoreHuffmanTree(arena, hist, size, size))

StoreMap(arena, map, histograms, bits) ==
    IF map = <<>> THEN StoreTrivialContextMap(arena, Len(histograms), bits)
    ELSE EncodeContextMap(arena, map, Len(histograms))

-----------------------------------------------------------------------------
(* Symbols                                                                 *)

ByteAt(text, pos) == IF pos \in 0 .. Len(text) - 1 THEN text[pos + 1] ELSE 0
Inserted(text, pos, c) == SubSeq(text, pos + 1, pos + c.ins)

\* The symbols of a meta-block as the wire carries them: of each kind in its own
\* order, with the raw context it has.
Symbols(text, m, mode) ==
    FoldLeft(LAMBDA acc, c :
      [pos |-> acc.pos + c.ins + c.copy,
       lit |-> acc.lit \o [i \in 1 .. c.ins |->
                 LET p == acc.pos + i - 1
                 IN [sym |-> text[p + 1],
                     context |-> LiteralContext(mode, ByteAt(text, p - 1), ByteAt(text, p - 2))]],
       cmd |-> Append(acc.cmd, [sym |-> c.prefix, context |-> 0]),
       dist |-> IF HasDistance(c)
                THEN Append(acc.dist, [sym |-> c.dist.sym, context |-> DistanceContext(c)])
                ELSE acc.dist],
      [pos |-> m.start, lit |-> <<>>, cmd |-> <<>>, dist |-> <<>>], m.cmds)

\* store_data_with_huffman_codes: one code of each kind.
DataBits(text, m, lit, cmd, dist) ==
    FoldLeft(LAMBDA acc, c :
      LET extra == ExtraBits(c)
          lits == Inserted(text, acc.pos, c)
      IN [pos |-> acc.pos + c.ins + c.copy,
          wire |-> acc.wire \o cmd[c.prefix] \o Bits(extra.n, extra.bits)
                     \o Concatenated([i \in DOMAIN lits |-> lit[lits[i]]])
                     \o (IF HasDistance(c) THEN dist[c.dist.sym] \o Bits(c.dist.nbits, c.dist.extra)
                         ELSE <<>>)],
      [pos |-> m.start, wire |-> <<>>], m.cmds).wire

Sealed(wire, m) == IF m.last THEN Aligned(wire) ELSE wire

\* Codes are kept for each kind of symbol between meta-blocks.
NewWriter == [lit |-> NoCode, cmd |-> NoCode, dist |-> NoCode, arena |-> NoCode]

CountedIn(symbols) == HistogramOf([i \in DOMAIN symbols |-> symbols[i].sym])
Kinds == {"lit", "cmd", "dist"}
BuildHistograms(symbols) == [k \in Kinds |-> CountedIn(symbols[k])]

\* One block of each kind, no context map, no postfix and no direct codes.
SimpleHead(wire, m) == wire \o StoreCompressedHeader(m.last, m.len) \o Bits(13, 0)

Simple(w, wire, text, m, got) ==
    [w |-> [w EXCEPT !.lit = got["lit"].code, !.cmd = got["cmd"].code, !.dist = got["dist"].code],
     wire |-> Sealed(SimpleHead(wire, m) \o got["lit"].wire \o got["cmd"].wire \o got["dist"].wire
                       \o DataBits(text, m, got["lit"].code, got["cmd"].code, got["dist"].code), m)]
CodesFor(w, hists, lengths, alphabets) ==
    [k \in Kinds |-> BuildAndStoreHuffmanTree(w[k], hists[k], lengths[k], alphabets[k])]
StoreTrivial(w, wire, text, m) ==
    Simple(w, wire, text, m,
      CodesFor(w, BuildHistograms(Symbols(text, m, Utf8)),
               [lit |-> NumLiterals, cmd |-> NumCommands, dist |-> MaxSimpleDistance],
               [lit |-> NumLiterals, cmd |-> NumCommands, dist |-> m.dist.max]))

\* The static codes and what announces them: 0x92_6244_1630_7003 and 0x369_DC03.
StaticCommandCode == ConvertBitDepthsToSymbols([s \in 0 .. NumCommands - 1 |-> IF s < 448 THEN 9 ELSE 11])
StaticDistanceCode == ConvertBitDepthsToSymbols([s \in 0 .. 63 |-> 6])
StaticCommandTree == HexBits(56, <<3, 0, 0, 7, 0, 3, 6, 1, 4, 4, 2, 6, 2, 9>>) \o Zeros(3)
StaticDistanceTree == HexBits(28, <<3, 0, 12, 13, 9, 6, 3>>)

WithStaticCodes(w, wire, text, m, lit) ==
    [w |-> [w EXCEPT !.lit = lit.code],
     wire |-> Sealed(SimpleHead(wire, m) \o lit.wire \o StaticCommandTree \o StaticDistanceTree
                \o DataBits(text, m, lit.code, StaticCommandCode, StaticDistanceCode), m)]
FastCodesFor(w, hists, bits) ==
    [k \in Kinds |-> BuildAndStoreHuffmanTreeFast(w[k], hists[k], bits[k])]
FastBy(w, wire, text, m, got) ==
    IF Len(m.cmds) <= MaxStaticCommands THEN WithStaticCodes(w, wire, text, m, got["lit"])
    ELSE Simple(w, wire, text, m, got)
StoreFast(w, wire, text, m) ==
    FastBy(w, wire, text, m,
      FastCodesFor(w, BuildHistograms(Symbols(text, m, Utf8)),
                   [lit |-> 8, cmd |-> 10, dist |-> Log2(m.dist.max - 1) + 1]))

\* One command of a split block: its symbol, its extra bits, its literals, its distance.
StoreCommand(acc, c, text, mb, mode) ==
    LET extra == ExtraBits(c)
        cmd == StoreSymbol(acc.cmd, c.prefix, 0, <<>>, 1)
        literal(a, p) ==
            LET got == StoreSymbol(a.enc, text[p + 1], LiteralContext(mode, ByteAt(text, p - 1), ByteAt(text, p - 2)),
                                   mb.litMap, 2^LiteralContextBits)
            IN [enc |-> got.enc, wire |-> a.wire \o got.wire]
        lits == FoldLeft(literal, [enc |-> acc.lit, wire |-> <<>>],
                         [i \in 1 .. c.ins |-> acc.pos + i - 1])
        dist == IF HasDistance(c)
                THEN StoreSymbol(acc.dist, c.dist.sym, DistanceContext(c), mb.distMap, 2^DistanceContextBits)
                ELSE [enc |-> acc.dist, wire |-> <<>>]
    IN [pos |-> acc.pos + c.ins + c.copy, cmd |-> cmd.enc, lit |-> lits.enc, dist |-> dist.enc,
        wire |-> acc.wire \o cmd.wire \o Bits(extra.n, extra.bits) \o lits.wire \o dist.wire
                   \o (IF HasDistance(c) THEN Bits(c.dist.nbits, c.dist.extra) ELSE <<>>)]

\* The literals' map leaves its code in the arena for the distances'.
WithMap(acc, got) == [arena |-> got.arena, wire |-> acc.wire \o got.wire]
MapsOf(arena, mb) ==
    FoldLeft(LAMBDA acc, i :
               WithMap(acc, StoreMap(acc.arena, <<mb.litMap, mb.distMap>>[i], <<mb.litHists, mb.distHists>>[i],
                                     <<LiteralContextBits, DistanceContextBits>>[i])),
             [arena |-> arena, wire |-> <<>>], <<1, 2>>)
EntropyCodesOf(mb, dist) ==
    LET hists == <<mb.litHists, mb.cmdHists, mb.distHists>>
        lengths == <<NumLiterals, NumCommands, dist.limit>>
        alphabets == <<NumLiterals, NumCommands, dist.max>>
    IN <<>> \o [i \in 1 .. 3 |-> StoreEntropyCodes(hists[i], lengths[i], alphabets[i])]
StoreCommands(text, m, mb, mode, switches, codes) ==
    FoldLeft(LAMBDA acc, c : StoreCommand(acc, c, text, mb, mode),
             [pos |-> m.start, wire |-> <<>>,
              lit |-> [switches[1].enc EXCEPT !.codes = codes[1].codes],
              cmd |-> [switches[2].enc EXCEPT !.codes = codes[2].codes],
              dist |-> [switches[3].enc EXCEPT !.codes = codes[3].codes]], m.cmds).wire
WiresOf(parts) == Concatenated([i \in DOMAIN parts |-> parts[i].wire])
Composed(w, wire, text, m, mb, mode, switches, maps, codes) ==
    [w |-> [w EXCEPT !.arena = maps.arena],
     wire |-> Sealed(wire \o StoreCompressedHeader(m.last, m.len) \o WiresOf(switches)
                       \o Bits(2, m.dist.postfix) \o Bits(4, m.dist.direct \div 2^(m.dist.postfix))
                       \o Concatenated([i \in 1 .. mb.lit.numTypes |-> Bits(2, mode)])
                       \o maps.wire \o WiresOf(codes)
                       \o StoreCommands(text, m, mb, mode, switches, codes), m)]
StoreMetaBlock(w, wire, text, m, mb, mode) ==
    Composed(w, wire, text, m, mb, mode,
             <<>> \o [i \in 1 .. 3 |-> StoreSwitchCodes(<<mb.lit, mb.cmd, mb.dist>>[i])],
             MapsOf(w.arena, mb), EntropyCodesOf(mb, m.dist))
=============================================================================
