----------------------------- MODULE FastEncoder ------------------------------
(***************************************************************************)
(* The encoders of qualities 0 and 1 (src/src/compressor/core/fast).  A    *)
(* fragment is scanned with a table of its own.  Quality 0 writes each     *)
(* command as it is found, in a prefix code made from the block before,    *)
(* goes on with a meta-block by rewriting its length, and takes back what  *)
(* it wrote where raw bytes are shorter.  Quality 1 keeps the commands of  *)
(* a block and counts them first.  An independent fragment is one of a     *)
(* parallel stream: it has no command code kept from another.              *)
(*                                                                         *)
(* An order is a quality, its least match, whether fragments are           *)
(* independent, and the fragments, each of some bytes and what follows     *)
(* them: "more", "flush" or "last".  Sampled costs are choices.            *)
(*                                                                         *)
(* Variables                                                               *)
(*   order   what is left to do             stage   what comes next        *)
(*   arena   codes and counts kept over blocks and fragments               *)
(*   s       the scan of the fragment       wire    the bits written       *)
(*   exact, ahead   the decoder, on either path       text  what was given *)
(***************************************************************************)
EXTENDS MetaBlockWriter, MetaBlockReader

CONSTANTS
    Orders,
    Reach,        \* the furthest a copy goes back, 2^18 - 16
    Literals,     \* the bytes there are, 0 .. 255
    FirstSize,   \* Q0_FIRST_BLOCK_SIZE
    MergeSize,   \* Q0_MERGE_BLOCK_SIZE
    MaxMerged,    \* Q0_MAX_MERGED_BLOCK_SIZE
    TwoPassSize, \* Q1_BLOCK_SIZE
    SampleLimit,  \* bytes from which literals are sampled, 2^15
    SampleRate,   \* LITERAL_SAMPLE_RATE
    Patience,     \* misses before the stride grows, 32
    ShortInsert,  \* SHORT_INSERT_LIMIT
    RawShare,     \* literals for one coded byte that make a run raw, 50
    Slack,        \* bits a fragment may be longer than its bytes, 31
    Slots         \* entries of the hash table

VARIABLES order, stage, arena, s, wire, exact, ahead, text
fastVars == <<order, stage, arena, s, wire, exact, ahead, text>>

Gap == 16  \* WINDOW_GAP
NoScan == <<>>
Fragment == order.ops[1]
FragmentData == Fragment.data
OnePass == order.quality = 0

-----------------------------------------------------------------------------
(* The compact alphabet of commands                                        *)

\* A command is "ins": an insert and a copy of two; "near": a copy at the last
\* distance; or "copy": a copy with its distance.
Order ==
    LET Run(kind, from) == [c \in 1 .. 8 |-> <<kind, from + c - 1>>]
    IN Run("near", 0) \o Run("near", 8) \o Run("copy", 0) \o Run("ins", 0) \o Run("copy", 8)
         \o Run("ins", 8) \o Run("copy", 16) \o Run("ins", 16)
Wire(kind, c) ==
    CASE kind = "near" -> IF c < 8 THEN c ELSE 56 + c
      [] kind = "copy" -> <<128, 192, 384>>[(c \div 8) + 1] + (c % 8)
      [] kind = "ins" -> <<128, 256, 448>>[(c \div 8) + 1] + 8 * (c % 8)
Compact(kind, c) ==
    CASE kind = "dist" -> 64 + c
      [] kind = "near" -> IF OnePass THEN c ELSE 24 + c
      [] kind = "copy" -> IF OnePass THEN 16 + c ELSE 40 + c
      [] kind = "ins" -> IF OnePass THEN 40 + c ELSE c

Packed(kind, c, nbits, extra) == [kind |-> kind, code |-> c, extra |-> Bits(nbits, extra)]
EmitInsertLen(n) ==
    LET c == InsertLengthCode(n) IN Packed("ins", c, InsExtra[c + 1], n - InsBase[c + 1])
CopyLen(kind, n) ==
    LET c == CopyLengthCode(n) IN Packed(kind, c, CopyExtra[c + 1], n - CopyBase[c + 1])
EmitDistance(d) ==
    LET p == PrefixEncodeCopyDistance(d + ShortCodes - 1, 0, 0) IN Packed("dist", p.sym, p.nbits, p.extra)
LastDistance == Packed("dist", 0, 0, 0)
EmitLiterals(from, to) == [i \in 1 .. to - from |-> Packed("lit", FragmentData[from + i], 0, 0)]

EmitInsertRun(from, to) == <<EmitInsertLen(to - from)>> \o EmitLiterals(from, to)
EmitCopy(n, d) == <<CopyLen("copy", n), EmitDistance(d)>>
\* What is left of a copy after the two bytes of its insert command.
EmitCopyLastDistance(n) ==
    IF CopyLengthCode(n - 2) < 16 THEN <<CopyLen("near", n - 2)>>
    ELSE <<CopyLen("copy", n - 2), LastDistance>>
EmitMatch(n, d, last) ==
    (IF ~order.independent /\ d = last THEN <<LastDistance>> ELSE <<EmitDistance(d)>>)
      \o (IF order.independent THEN EmitCopy(n - 2, d) ELSE EmitCopyLastDistance(n))

-----------------------------------------------------------------------------
(* Prefix codes                                                            *)

Part(hist, from) == [c \in {k - from : k \in DOMAIN hist \cap from .. from + 63} |-> hist[from + c]]
\* Mutant: an insert of nothing always takes the place of a copy of two.
SharesAlways(kind, c) == c = 0 /\ kind = "copy"
\* Depths by the place of the command on the wire; of the two that share one, an
\* insert of nothing and a copy of two, an encoder uses at most one.
Shares(kind, c) == c = 0 /\ kind = IF ~OnePass /\ order.independent THEN "ins" ELSE "copy"
WireDepths(depth) ==
    LET used == {k \in Range(Order) : Compact(k[1], k[2]) \in DOMAIN depth /\ ~Shares(k[1], k[2])}
    IN [w \in {Wire(k[1], k[2]) : k \in used} |->
          depth[LET k == CHOOSE k \in used : Wire(k[1], k[2]) = w IN Compact(k[1], k[2])]]
\* Words go by the order of the wire, as far as it was written down.
CommandWords(depth) ==
    LET at(i) == Compact(Order[i + 1][1], Order[i + 1][2])
        words == ConvertBitDepthsToSymbols([i \in {j \in 0 .. 63 : at(j) \in DOMAIN depth} |-> depth[at(i)]])
    IN [c \in DOMAIN depth |-> words[CHOOSE i \in DOMAIN words : at(i) = c]]
DistanceWords(depth) ==
    LET words == ConvertBitDepthsToSymbols(depth) IN [c \in {64 + d : d \in DOMAIN depth} |-> words[c - 64]]

CommandCode(cmd, dist) ==
    [cmd |-> CommandWords(cmd) @@ DistanceWords(dist),
     wire |-> StoreHuffmanTree(WireDepths(cmd), NumCommands) \o StoreHuffmanTree(dist, 64)]
BuildCommandCode(hist) ==
    CommandCode(CreateHuffmanTree(Part(hist, 0), 15), CreateHuffmanTree(Part(hist, 64), 14))

Seed == [c \in 0 .. 127 \ ({0, 16, 17, 18, 40} \cup 65 .. 79 \cup 124 .. 127) |-> 1]
\* An independent fragment needs the copies of three and four.
SeedHistogram == IF order.independent THEN (17 :> 1 @@ 18 :> 1) @@ Seed ELSE Seed
Count(hist, c) == IF c \in DOMAIN hist THEN [hist EXCEPT ![c] = @ + 1] ELSE (c :> 1) @@ hist
CountAll(hist, tokens) ==
    FoldLeft(LAMBDA h, t : IF t.kind = "lit" THEN h ELSE Count(h, Compact(t.kind, t.code)), hist, tokens)

\* The first samples of a byte weigh three times; where bytes are sampled, each
\* has at least one.
Weighed(n, least) == n + least + 2 * Min({n, 11})
LiteralHistogram(bytes) ==
    LET h == HistogramOf(bytes)
        sampled == HistogramOf([i \in 1 .. (Len(bytes) + SampleRate - 1) \div SampleRate |->
                                  bytes[SampleRate * (i - 1) + 1]])
    IN IF Len(bytes) < SampleLimit THEN [b \in DOMAIN h |-> Weighed(h[b], 0)]
       ELSE [b \in Literals |-> Weighed(IF b \in DOMAIN sampled THEN sampled[b] ELSE 0, 1)]
BuildLiteralCode(bytes) == BuildAndStoreHuffmanTreeFast(arena.lit, LiteralHistogram(bytes), 8)

DefaultDepths ==
    <<0, 4, 4, 5, 6, 6, 7, 7, 7, 7, 7, 8, 8, 8, 8, 8, 0, 0, 0, 4, 4, 4, 4, 4, 5, 5, 6, 6, 6, 6, 7, 7,
      7, 7, 10, 10, 10, 10, 10, 10, 0, 4, 4, 5, 5, 5, 6, 6, 7, 8, 8, 9, 10, 10, 10, 10, 10, 10, 10,
      10, 10, 10, 10, 10, 5, 0, 0, 0, 0, 0, 0, 0, 0, 0, 0, 0, 0, 0, 0, 0, 6, 6, 6, 6, 6, 6, 5, 5, 5,
      5, 5, 5, 4, 4, 4, 4, 4, 4, 4, 5, 5, 5, 5, 5, 5, 6, 6, 7, 7, 7, 8, 10, 12, 12, 12, 12, 12, 12,
      12, 12, 12, 12, 12, 12, 0, 0, 0, 0>>
DefaultPart(from) == [c \in {k \in 0 .. 63 : DefaultDepths[from + k + 1] # 0} |-> DefaultDepths[from + c + 1]]
DefaultCode == CommandCode(DefaultPart(0), DefaultPart(64))
NewArena == [lit |-> NoCode, hist |-> Seed, cmd |-> DefaultCode.cmd, stored |-> DefaultCode.wire]

FastInit ==
    /\ order \in Orders
    /\ stage = "begin" /\ s = NoScan /\ text = <<>>
    /\ arena = NewArena
    /\ wire = Zeros(order.head)
    /\ exact = [NewReader(<<4, 11, 15, 16>>) EXCEPT !.pos = order.head]
    /\ ahead = exact

-----------------------------------------------------------------------------
(* Fragments and blocks                                                    *)

\* A last fragment no longer than the code kept for it is not scanned.
StoresVerbatim ==
    OnePass /\ Fragment.op = "last"
      /\ (FragmentData = <<>> \/ (~order.independent /\ Len(FragmentData) <= Len(arena.stored) \div 8))
Ending(w) == Aligned(w \o <<1, 1>>)
StoreFinalVerbatim ==
    /\ stage = "begin" /\ order.ops # <<>> /\ StoresVerbatim
    /\ wire' = Ending(IF FragmentData = <<>> THEN wire ELSE StoreUncompressed(wire, FragmentData, FALSE))
    /\ stage' = "read"
    /\ UNCHANGED <<order, arena, s, exact, ahead, text>>

\* A flush of nothing only pads.
FlushNothing ==
    /\ stage = "begin" /\ order.ops # <<>> /\ Fragment.op = "flush" /\ FragmentData = <<>>
    /\ wire' = InjectBytePadding(wire) /\ stage' = "read"
    /\ UNCHANGED <<order, arena, s, exact, ahead, text>>

ClearTable == [k \in 0 .. Slots - 1 |-> 0]
BlockSize(from) == Min({Len(FragmentData) - from, IF OnePass THEN FirstSize ELSE TwoPassSize})
\* The scan of a block at input, behind what was emitted before.
StartScan(scan, input, size, emit) ==
    [scan EXCEPT !.input = input, !.size = size, !.emit = emit, !.next = input + 1,
                 !.skip = Patience, !.last = -1]
BeginFragment ==
    /\ stage = "begin" /\ order.ops # <<>> /\ ~StoresVerbatim
    /\ ~(Fragment.op = "flush" /\ FragmentData = <<>>)
    /\ s' = [start |-> Len(wire), table |-> ClearTable, input |-> 0, size |-> 0, emit |-> 0,
             ip |-> 0, next |-> 0, skip |-> Patience, last |-> -1, cand |-> 0, tokens |-> <<>>,
             meta |-> 0, mlen |-> 0, total |-> 0, ratio |-> FALSE]
    /\ stage' = IF FragmentData = <<>> THEN "end" ELSE "open"
    /\ UNCHANGED <<order, arena, wire, exact, ahead, text>>

\* The command code a meta-block starts with: the one kept from the last fragment,
\* or one made of the counts of the block before.
FirstCode ==
    IF s.input # 0 THEN BuildCommandCode(arena.hist)
    ELSE IF order.independent THEN BuildCommandCode(SeedHistogram)
    ELSE [cmd |-> arena.cmd, wire |-> arena.stored]
\* Of a meta-block of quality 0 the codes come first.  What its literals cost is
\* a choice.
OpenMetaBlock ==
    /\ stage = "open" /\ OnePass
    /\ \E size \in {BlockSize(s.input)}, ratio \in BOOLEAN :
       \E lit \in {BuildLiteralCode(SubSeq(FragmentData, s.input + 1, s.input + size))}, code \in {FirstCode} :
         /\ wire' = wire \o StoreCompressedHeader(FALSE, size) \o Zeros(13) \o lit.wire \o code.wire
         /\ arena' = [arena EXCEPT !.lit = lit.code, !.cmd = code.cmd, !.hist = SeedHistogram]
         /\ s' = [StartScan(s, s.input, size, s.input) EXCEPT
                    !.meta = s.input, !.mlen = Len(wire) + 3, !.total = size, !.ratio = ratio]
    /\ stage' = "scan"
    /\ UNCHANGED <<order, exact, ahead, text>>
OpenTwoPassBlock ==
    /\ stage = "open" /\ ~OnePass
    /\ s' = [StartScan(s, s.input, BlockSize(s.input), s.input) EXCEPT !.tokens = <<>>]
    /\ stage' = "scan"
    /\ UNCHANGED <<order, arena, wire, exact, ahead, text>>

-----------------------------------------------------------------------------
(* The scan                                                                *)

\* load_u64_le: eight bytes, or zeros where there are not as many.
Load(pos) == IF pos + 8 <= Len(FragmentData) THEN SubSeq(FragmentData, pos + 1, pos + order.min) ELSE Zeros(order.min)
Hash(word) == FoldLeft(LAMBDA h, b : (3 * h + b) % Slots, 0, word)
IsMatch(a, b) == Load(a) = Load(b)
MatchLength(a, b, limit) ==
    LET differ == {k \in 0 .. limit - 1 : FragmentData[a + k + 1] # FragmentData[b + k + 1]}
    IN IF differ = {} THEN limit ELSE Min(differ)

BlockEnd == s.input + s.size
IpLimit == s.input + Min({s.size - order.min, Len(FragmentData) - s.input - Gap})

\* One position: the last distance first, then the one the table remembers.
Probe ==
    /\ stage = "scan" /\ s.size >= Gap /\ s.next + (s.skip \div Patience) <= IpLimit
    /\ \E repeated \in {s.next - s.last}, slot \in {Hash(Load(s.next))} :
       \E again \in {repeated < s.next /\ IsMatch(s.next, repeated)} :
       \E cand \in {IF again THEN repeated ELSE s.table[slot]} :
         /\ s' = [s EXCEPT !.ip = s.next, !.next = @ + (s.skip \div Patience), !.skip = @ + 1,
                           !.table[slot] = s.next, !.cand = cand]
         /\ stage' = IF IsMatch(s.next, cand) /\ s.next - cand <= Reach THEN "match" ELSE "scan"
    /\ UNCHANGED <<order, arena, wire, exact, ahead, text>>
StopScan ==
    /\ stage = "scan" /\ (s.size < Gap \/ s.next + (s.skip \div Patience) > IpLimit)
    /\ stage' = "block"
    /\ UNCHANGED <<order, arena, s, wire, exact, ahead, text>>

\* Quality 0 writes with the code there is and counts for the next.
TokenWords(tokens, lit, cmd) ==
    Concatenated([i \in DOMAIN tokens |->
      IF tokens[i].kind = "lit" THEN WordOf(lit, tokens[i].code)
      ELSE WordOf(cmd, Compact(tokens[i].kind, tokens[i].code)) \o tokens[i].extra])
Emit(scan, tokens) ==
    IF OnePass
    THEN /\ wire' = wire \o TokenWords(tokens, arena.lit, arena.cmd)
         /\ arena' = [arena EXCEPT !.hist = CountAll(@, tokens)]
         /\ s' = scan
    ELSE /\ s' = [scan EXCEPT !.tokens = @ \o tokens]
         /\ UNCHANGED <<wire, arena>>

\* The positions behind the copy that are put into the table.  At a least match
\* of four the first time, the last of them goes by the hash of the first.
HashedAfterCopy(first) ==
    IF order.min = 6 THEN <<<<5, 5>>, <<4, 4>>, <<3, 3>>, <<2, 2>>, <<1, 1>>>>
    ELSE <<<<3, 3>>, <<2, 2>>, <<IF order.min = 4 /\ first THEN 3 ELSE 1, 1>>>>
UpdateHashes(table, ip, first) ==
    FoldLeft(LAMBDA t, h : [t EXCEPT ![Hash(Load(ip - h[1]))] = ip - h[2]], table, HashedAfterCopy(first))
AfterCopy(ip, last, first) ==
    LET table == UpdateHashes(s.table, ip, first)
        slot == Hash(Load(ip))
    IN IF ip >= IpLimit THEN [s EXCEPT !.ip = ip, !.emit = ip, !.last = last]
       ELSE [s EXCEPT !.ip = ip, !.emit = ip, !.last = last, !.cand = table[slot],
                      !.table = [table EXCEPT ![slot] = ip]]
MatchedAt(ip, cand) ==
    order.min + MatchLength(cand + order.min, ip + order.min, BlockEnd - ip - order.min)

\* should_use_uncompressed_mode: long runs of literals, little in front of them.
IsRaw(to) ==
    OnePass /\ to - s.emit >= ShortInsert
      /\ (s.emit - s.meta) * RawShare <= to - s.emit /\ s.ratio
\* emit_uncompressed_meta_block, back where the header begins.
Rewound(from, to) ==
    StoreUncompressed(SubSeq(wire, 1, s.mlen - 3), SubSeq(FragmentData, from + 1, to), FALSE)

EmitFound ==
    /\ stage = "match" /\ ~IsRaw(s.ip)
    /\ \E n \in {MatchedAt(s.ip, s.cand)}, d \in {s.ip - s.cand} :
         /\ Emit(AfterCopy(s.ip + n, d, TRUE), EmitInsertRun(s.emit, s.ip) \o EmitMatch(n, d, s.last))
         /\ stage' = IF s.ip + n >= IpLimit THEN "block" ELSE "chain"
    /\ UNCHANGED <<order, exact, ahead, text>>
\* The meta-block so far becomes raw, and the next begins at the match.
RestartRaw ==
    /\ stage = "match" /\ IsRaw(s.ip)
    /\ wire' = Rewound(s.meta, s.ip)
    /\ s' = [s EXCEPT !.input = s.ip, !.emit = s.ip] /\ stage' = "open"
    /\ UNCHANGED <<order, arena, exact, ahead, text>>

\* Matches without literals between them.
Follows == IsMatch(s.ip, s.cand) /\ s.ip - s.cand <= Reach
EmitNext ==
    /\ stage = "chain" /\ Follows
    /\ \E n \in {MatchedAt(s.ip, s.cand)}, d \in {s.ip - s.cand} :
         /\ Emit(AfterCopy(s.ip + n, d, FALSE), EmitCopy(n, d))
         /\ stage' = IF s.ip + n >= IpLimit THEN "block" ELSE "chain"
    /\ UNCHANGED <<order, exact, ahead, text>>
EndChain ==
    /\ stage = "chain" /\ ~Follows
    /\ s' = [s EXCEPT !.next = s.ip + 1, !.skip = Patience] /\ stage' = "scan"
    /\ UNCHANGED <<order, arena, wire, exact, ahead, text>>

-----------------------------------------------------------------------------
(* The end of a block                                                      *)

NextSize == Min({Len(FragmentData) - BlockEnd, MergeSize})
\* The next block goes into the same meta-block, whose length is rewritten.
MergeNext ==
    /\ stage = "block" /\ OnePass /\ NextSize > 0 /\ s.total + NextSize <= MaxMerged
    /\ wire' = SubSeq(wire, 1, s.mlen) \o Bits(LengthBits[5], s.total + NextSize - 1)
                 \o SubSeq(wire, s.mlen + LengthBits[5] + 1, Len(wire))
    /\ s' = [StartScan(s, BlockEnd, NextSize, s.emit) EXCEPT !.total = @ + NextSize]
    /\ arena' = [arena EXCEPT !.hist = SeedHistogram]
    /\ stage' = "scan"
    /\ UNCHANGED <<order, exact, ahead, text>>

BlockClosed == [s EXCEPT !.input = BlockEnd, !.emit = BlockEnd]
AfterBlock == IF BlockEnd < Len(FragmentData) THEN "open" ELSE "end"
CloseMetaBlock ==
    /\ stage = "block" /\ OnePass /\ ~IsRaw(BlockEnd)
    /\ Emit(BlockClosed, IF s.emit < BlockEnd THEN EmitInsertRun(s.emit, BlockEnd) ELSE <<>>)
    /\ stage' = AfterBlock
    /\ UNCHANGED <<order, exact, ahead, text>>
CloseRaw ==
    /\ stage = "block" /\ OnePass /\ s.emit < BlockEnd /\ IsRaw(BlockEnd)
    /\ wire' = Rewound(s.meta, BlockEnd) /\ s' = BlockClosed /\ stage' = AfterBlock
    /\ UNCHANGED <<order, arena, exact, ahead, text>>

\* The second pass.  Some commands are counted once more than they are used.
Kept == s.tokens \o (IF s.emit < BlockEnd THEN EmitInsertRun(s.emit, BlockEnd) ELSE <<>>)
Literal(t) == t.kind = "lit"
LiteralsOf(tokens) == LET lits == SelectSeq(tokens, Literal) IN [i \in DOMAIN lits |-> lits[i].code]
TwoPassCode(tokens) ==
    BuildCommandCode(FoldLeft(LAMBDA h, c : Count(h, c), CountAll(NoCode, tokens), <<1, 2, 64, 84>>))
StoreCommandsOf(tokens, lit, code) ==
    /\ wire' = wire \o StoreCompressedHeader(FALSE, s.size) \o Zeros(13) \o lit.wire \o code.wire
                 \o TokenWords(tokens, lit.code, code.cmd)
    /\ arena' = [arena EXCEPT !.lit = lit.code]
StoreBlock ==
    /\ stage = "block" /\ ~OnePass
    /\ \E tokens \in {Kept} :
       \E lit \in {BuildAndStoreHuffmanTreeFast(arena.lit, HistogramOf(LiteralsOf(tokens)), 8)},
          code \in {TwoPassCode(tokens)} : StoreCommandsOf(tokens, lit, code)
    /\ s' = BlockClosed /\ stage' = AfterBlock
    /\ UNCHANGED <<order, exact, ahead, text>>
\* should_compress: nearly all literals, and of a high sampled entropy.
StoreBlockRaw ==
    /\ stage = "block" /\ ~OnePass /\ 100 * Len(LiteralsOf(Kept)) >= 98 * s.size
    /\ wire' = StoreUncompressed(wire, SubSeq(FragmentData, s.input + 1, BlockEnd), FALSE)
    /\ s' = BlockClosed /\ stage' = AfterBlock
    /\ UNCHANGED <<order, arena, exact, ahead, text>>

\* The end of the fragment: the command code of the next one, raw bytes where the
\* code made it longer, and what follows.
Shortest ==
    IF Len(wire) - s.start > Slack + 8 * Len(FragmentData)
    THEN StoreUncompressed(SubSeq(wire, 1, s.start), FragmentData, FALSE) ELSE wire
EndFragment ==
    /\ stage = "end"
    /\ wire' = CASE Fragment.op = "last" -> Ending(Shortest)
                 [] Fragment.op = "flush" -> InjectBytePadding(Shortest)
                 [] OTHER -> Shortest
    /\ IF OnePass /\ Fragment.op # "last"
       THEN \E code \in {BuildCommandCode(arena.hist)} :
              arena' = [arena EXCEPT !.cmd = code.cmd, !.stored = code.wire]
       ELSE UNCHANGED arena
    /\ s' = NoScan /\ stage' = "read"
    /\ UNCHANGED <<order, exact, ahead, text>>

\* The decoder takes all there is.
RECURSIVE ReadAlong(_, _)
ReadAlong(r, path) ==
    IF ~r.ok \/ r.last \/ r.pos >= Len(wire) THEN r
    ELSE ReadAlong(ReadMetaBlock(wire, r, FALSE, path), path)
ReadFragment ==
    /\ stage = "read"
    /\ exact' = ReadAlong(exact, "slow") /\ ahead' = ReadAlong(ahead, "fast")
    /\ text' = text \o FragmentData
    /\ stage' = "begin" /\ order' = [order EXCEPT !.ops = Tail(@)]
    /\ UNCHANGED <<arena, s, wire>>

FastNext ==
    \/ StoreFinalVerbatim \/ FlushNothing \/ BeginFragment \/ OpenMetaBlock \/ OpenTwoPassBlock
    \/ Probe \/ StopScan \/ EmitFound \/ RestartRaw \/ EmitNext \/ EndChain
    \/ MergeNext \/ CloseMetaBlock \/ CloseRaw \/ StoreBlock \/ StoreBlockRaw \/ EndFragment \/ ReadFragment

-----------------------------------------------------------------------------
(* Properties                                                              *)

\* After every fragment, whatever was merged, taken back, written raw or coded
\* with a command code made of other data, the decoder reads the bytes given so
\* far to the last bit, on either path; a flush leaves no byte half written.
ReadsAll(r) == r.ok /\ r.text = text /\ r.pos = Len(wire)
FragmentsDecode ==
    stage = "begin" =>
      /\ ReadsAll(exact) /\ ReadsAll(ahead)
      /\ (order.ops = <<>> => exact.last /\ ahead.last)

\* The read window the scan promises: every position it looks at is followed by a
\* whole word of the fragment, the table only points behind it, and a copy ends
\* within its block.
ScanStaysInside ==
    /\ stage \in {"scan", "match", "chain"} /\ s.size >= Gap =>
         /\ stage = "scan" => s.next + 8 <= Len(FragmentData)
         /\ stage # "scan" => s.ip + 8 <= Len(FragmentData) /\ s.cand < s.ip
         /\ \A k \in DOMAIN s.table : s.table[k] <= s.ip
    /\ stage \in {"scan", "match", "chain", "block"} => s.emit <= BlockEnd

\* A fragment is scanned within its bounds and means its bytes.
FragmentsAreWhole == ScanStaysInside /\ FragmentsDecode
=============================================================================
