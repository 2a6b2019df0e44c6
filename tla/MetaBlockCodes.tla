---------------------------- MODULE MetaBlockCodes ----------------------------
(***************************************************************************)
(* A stream of meta-blocks from commands to text again: the encoder splits *)
(* (BlockSplit), codes (EntropyCode) and writes them                       *)
(* (MetaBlockWriter), the decoder builds its tables (EntropyCode) and      *)
(* reads them on both of its paths (MetaBlockReader).                      *)
(*                                                                         *)
(* A job is a stream: its text, the bits of its window header, the         *)
(* parameters and a sequence of blocks.  A block is a record               *)
(*   kind      "fast", "trivial", "greedy" or "hq", how it is written      *)
(*   cmds      inserts, copies and distances; hints for the models         *)
(*   last, flush   what follows it                                         *)
(* Other jobs are about one code or one distance alphabet only.            *)
(*                                                                         *)
(* Variables                                                               *)
(*   job       what is left of the stream       phase   what comes next    *)
(*   enc       codes kept by the writer, the distances it remembers and    *)
(*             those saved, the bits written                               *)
(*   blk       the meta-block at hand           work    its working state  *)
(*   slow, fast  the decoder, on either path                               *)
(***************************************************************************)
EXTENDS MetaBlockWriter, MetaBlockReader, BlockSplit

CONSTANTS
    Jobs,
    MinBlocks,   \* kind of symbol -> smallest block of the greedy splitters
    Iterations,  \* rounds of find_blocks, 3 or 10
    MinAnalysed  \* bytes below which literals are not modelled, 64

VARIABLES job, phase, enc, blk, work, slow, fast
vars == <<job, phase, enc, blk, work, slow, fast>>

InitialCache == <<4, 11, 15, 16>>
Nothing == <<>>

MetaBlockInit ==
    /\ job \in Jobs
    /\ phase = "begin" /\ blk = Nothing /\ work = Nothing
    /\ enc = [w |-> NewWriter, cache |-> InitialCache, saved |-> InitialCache,
              wire |-> Zeros(job.head), at |-> 0]
    /\ slow = [NewReader(InitialCache) EXCEPT !.pos = job.head]
    /\ fast = slow

Stream == job.kind = "stream"
Block == job.blocks[1]

-----------------------------------------------------------------------------
(* Commands                                                                *)

ParamsFor(large, postfix, direct) ==
    IF large THEN NewLargeDistanceParams(2147483644, postfix, direct)
    ELSE NewDistanceParams(postfix, direct)

\* The commands of a block, and the distances remembered behind them.
Made(cache, specs, dist) ==
    FoldLeft(LAMBDA acc, c :
      LET code == ComputeDistanceCode(c.back, c.back, acc.cache)
      IN IF c.copy = 0 THEN [acc EXCEPT !.cmds = Append(@, InsertOnly(c.ins))]
         ELSE [cache |-> IF code = 0 THEN acc.cache
                         ELSE <<c.back, acc.cache[1], acc.cache[2], acc.cache[3]>>,
               cmds |-> Append(acc.cmds, Command(c.ins, c.copy, 0, code, dist.direct, dist.postfix))],
      [cache |-> cache, cmds |-> <<>>], specs)
LengthOfSpecs(specs) == FoldLeft(LAMBDA n, c : n + c.ins + c.copy, 0, specs)

FirstPhase(kind) ==
    CASE kind = "greedy" -> "model" [] kind = "hq" -> "params" [] OTHER -> "store"
\* The next block of the stream, with its commands made.
BeginBlock ==
    /\ phase = "begin" /\ Stream /\ job.blocks # <<>> /\ Block.cmds # <<>>
    /\ \E dist \in {ParamsFor(job.large, job.postfix, job.direct)} :
       \E got \in {Made(enc.cache, Block.cmds, dist)} :
         /\ blk' = [start |-> enc.at, len |-> LengthOfSpecs(Block.cmds), last |-> Block.last,
                    cmds |-> got.cmds, dist |-> dist, mode |-> Utf8, mb |-> Nothing]
         /\ enc' = [enc EXCEPT !.cache = got.cache]
    /\ phase' = FirstPhase(Block.kind)
    /\ UNCHANGED <<job, work, slow, fast>>

\* should_compress: few bytes are not worth a code, several commands are; the
\* rest depends on a sample.
MustCode == Len(blk.cmds) >= (blk.len \div 256) + 2
Worth == IF blk.len <= 2 THEN {FALSE} ELSE IF MustCode THEN {TRUE} ELSE BOOLEAN

-----------------------------------------------------------------------------
(* The greedy split                                                        *)

\* What the splitters are fed, in the order of build_meta_block_greedy_into.
Feed(symbols, contexts, cmds) ==
    FoldLeft(LAMBDA acc, c :
      [lit |-> acc.lit + c.ins, dist |-> acc.dist + (IF HasDistance(c) THEN 1 ELSE 0),
       out |-> acc.out \o <<[of |-> "cmd", sym |-> c.prefix, context |-> 0]>>
                 \o [i \in 1 .. c.ins |->
                       [of |-> "lit", sym |-> symbols.lit[acc.lit + i].sym,
                        context |-> StaticMap(contexts, symbols.lit[acc.lit + i].context)]]
                 \o (IF HasDistance(c) THEN <<[of |-> "dist", sym |-> c.dist.sym, context |-> 0]>>
                     ELSE <<>>)],
      [lit |-> 0, dist |-> 0, out |-> <<>>], cmds).out

SymbolsOf(mode) == Symbols(job.text, blk, mode)

\* decide_over_literal_context_modeling and the splitters it leads to.
ChooseModel ==
    /\ phase = "model" /\ TRUE \in Worth
    /\ \E contexts \in Models(blk.len, MinAnalysed, Block.models, Block.hq, Block.long) :
       \E symbols \in {SymbolsOf(Utf8)} :
         work' = [lit |-> NewSplitter(contexts, MinBlocks["lit"], Len(symbols.lit)),
                  cmd |-> NewSplitter(1, MinBlocks["cmd"], Len(blk.cmds)),
                  dist |-> NewSplitter(1, MinBlocks["dist"], Len(blk.cmds)),
                  todo |-> Feed(symbols, contexts, blk.cmds)]
    /\ phase' = "split"
    /\ UNCHANGED <<job, enc, blk, slow, fast>>

\* add_symbol, which finishes a block that is full.
AfterSymbol(s) == IF IsFull(s) THEN {FinishBlock(s, look) : look \in Looks(s)} ELSE {s}
AddSymbol ==
    /\ phase = "split" /\ work.todo # <<>>
    /\ \E item \in {work.todo[1]} :
       \E s \in AfterSymbol(Gather(work[item.of], item.sym, item.context)) :
         work' = [work EXCEPT !.todo = Tail(@), ![item.of] = s]
    /\ UNCHANGED <<job, phase, enc, blk, slow, fast>>

\* The last finish_block of all three, and the map of the contexts.
Final(s) == {Ended(FinishBlock(s, look)) : look \in Looks(s)}
FinishSplit ==
    /\ phase = "split" /\ work.todo = <<>>
    /\ \E lit \in Final(work.lit), cmd \in Final(work.cmd), dist \in Final(work.dist) :
         blk' = [blk EXCEPT !.mb =
                   [lit |-> SplitOf(lit), cmd |-> SplitOf(cmd), dist |-> SplitOf(dist),
                    litMap |-> MapStaticContexts(lit.contexts, lit.numTypes), distMap |-> <<>>,
                    litHists |-> lit.hists, cmdHists |-> cmd.hists, distHists |-> dist.hists]]
    /\ phase' = "optimise" /\ work' = Nothing
    /\ UNCHANGED <<job, enc, slow, fast>>

-----------------------------------------------------------------------------
(* The high-quality split                                                  *)

Bare(symbols) == <<>> \o [i \in DOMAIN symbols |-> symbols[i].sym]
\* choose_distance_params and the rewriting of the commands.
ChooseDistanceParams ==
    /\ phase = "params" /\ TRUE \in Worth
    /\ \E dist \in {blk.dist} \cup {ParamsFor(job.large, p[1], p[2]) : p \in Block.params},
          mode \in Block.modes :
         /\ dist = blk.dist \/ Fits(blk.cmds, blk.dist, dist)
         /\ blk' = [blk EXCEPT !.dist = dist, !.mode = mode,
                               !.cmds = RecomputeDistancePrefixes(@, blk.dist, dist)]
    /\ phase' = "gather"
    /\ UNCHANGED <<job, enc, work, slow, fast>>

\* BlockSplitter::split gathers the symbols of all three kinds.
GatherSymbols ==
    /\ phase = "gather"
    /\ \E symbols \in {SymbolsOf(blk.mode)} :
         work' = [data |-> <<Bare(symbols.lit), Bare(symbols.cmd), Bare(symbols.dist)>>,
                  splits |-> <<>>, rounds |-> Iterations, histograms |-> 0]
    /\ phase' = "blocks"
    /\ UNCHANGED <<job, enc, blk, slow, fast>>

Kind == Len(work.splits) + 1
Data == work.data[Kind]
NextKind(split) ==
    /\ work' = [data |-> work.data, splits |-> Append(work.splits, split),
                rounds |-> Iterations, histograms |-> 0]
    /\ phase' = IF Kind = 3 THEN "contexts" ELSE "blocks"

\* Too short a stream is one block.
LeaveWhole ==
    /\ phase = "blocks" /\ ~Splits(Data) /\ NextKind(Unsplit(Data))
    /\ UNCHANGED <<job, enc, blk, slow, fast>>

\* One round: every symbol has a histogram that is the cheapest so far, and
\* others it would be worth changing from.
Histograms == IF work.rounds = Iterations THEN NumHistograms(Data) ELSE work.histograms
Found(found) ==
    /\ work' = [work EXCEPT !.rounds = @ - 1, !.histograms = found.histograms]
                 @@ [lengths |-> BlockLengths(found)]
    /\ phase' = IF work.rounds = 1 THEN "clusters" ELSE "blocks"
Assigned(n, histograms) ==
    {TracedBack(<<>> \o ids) : ids \in [1 .. n -> 1 .. Max({histograms, 1})]}
FindBlocks ==
    /\ phase = "blocks" /\ Splits(Data)
    /\ \E found \in Assigned(Len(Data), Histograms) : Found(RemapBlockIds(found))
    /\ UNCHANGED <<job, enc, blk, slow, fast>>

Hists == BlockHistograms(Data, work.lengths)
\* cluster_blocks: the first batch, and how a clustering goes on.
StartClusters ==
    /\ phase = "clusters"
    /\ work' = [work EXCEPT !.rounds = 0]
                 @@ [inputs |-> Hists, done |-> NoBatches, c |-> BatchFrom(Hists, 0), next |-> 0]
    /\ phase' = "batch"
    /\ UNCHANGED <<job, enc, blk, slow, fast>>

Combines == phase \in {"batch", "all"}
Becomes(c) == work' = [work EXCEPT !.c = c] /\ UNCHANGED <<job, phase, enc, blk, slow, fast>>
ComparePair ==
    /\ Combines /\ work.c.todo # <<>>
    /\ \E diff \in Diffs(work.c, NextPair(work.c).a, NextPair(work.c).b) :
         Becomes(Compared(work.c, diff))
MergePair ==
    /\ Combines /\ work.c.todo = <<>> /\ ~Enough(work.c) /\ Pays(work.c)
    /\ Becomes(Merged(work.c))
RaiseThreshold ==
    /\ Combines /\ work.c.todo = <<>> /\ ~Enough(work.c) /\ ~Pays(work.c)
    /\ Becomes(Raised(work.c))

Settled == work.c.todo = <<>> /\ Enough(work.c)
NextBatch ==
    /\ phase = "batch" /\ Settled
    /\ \E done \in {WithBatch(work.done, work.c)} :
       \E more \in {Len(done.symbols) < Len(work.inputs)} :
         /\ work' = [work EXCEPT !.done = done,
                       !.c = IF more THEN BatchFrom(work.inputs, Len(done.symbols)) ELSE AllBatches(done)]
         /\ phase' = IF more THEN "batch" ELSE "all"
    /\ UNCHANGED <<job, enc, blk, slow, fast>>
EndClusters ==
    /\ phase = "all" /\ Settled
    /\ work' = [work EXCEPT !.next = 1] /\ phase' = "assign"
    /\ UNCHANGED <<job, enc, blk, slow, fast>>

\* Each block takes a cluster; the last ends the split.
AssignBlock ==
    /\ phase = "assign"
    /\ \E out \in Assignable(work.c, work.next) :
       \E symbols \in {[work.c.symbols EXCEPT ![work.next] = out]} :
         IF work.next = Len(work.lengths) THEN NextKind(SplitOfBlocks(symbols, work.lengths))
         ELSE work' = [work EXCEPT !.c.symbols = symbols, !.next = @ + 1] /\ phase' = "assign"
    /\ UNCHANGED <<job, enc, blk, slow, fast>>

\* The rest of MetaBlockBuilder::build: the histograms of the literals' contexts
\* are clustered, and then those of the distances'.
LiteralContexts == IF Block.models THEN 64 ELSE 1
MaxClusters == 256
ClusterInputs(splits, pricing, inputs, before) ==
    work' = [splits |-> splits, pricing |-> pricing, inputs |-> inputs, before |-> before,
             clusters |-> <<>>, at |-> Min({Batch, Len(inputs)}),
             c |-> SideBatch(NewClusters(inputs, MaxClusters, BatchRoom), 0)]
StartContexts ==
    /\ phase = "contexts"
    /\ \E pricing \in {"alike", "apart"}, symbols \in {SymbolsOf(blk.mode)} :
         ClusterInputs(work.splits, pricing, ContextHistograms(symbols.lit, work.splits[1], LiteralContexts),
                       <<>>)
    /\ phase' = "side"
    /\ UNCHANGED <<job, enc, blk, slow, fast>>

\* A part of histogram_combine.
Slice == 4
CombineContexts ==
    /\ phase \in {"side", "sides"} /\ ~Halted(work.c)
    /\ work' = [work EXCEPT !.c = Combine(@, work.pricing, Slice)]
    /\ UNCHANGED <<job, phase, enc, blk, slow, fast>>
NextSide ==
    /\ phase = "side" /\ Halted(work.c)
    /\ \E clusters \in {work.clusters \o work.c.clusters}, more \in {work.at < Len(work.inputs)} :
         /\ work' = [work EXCEPT !.clusters = clusters, !.at = Min({@ + Batch, Len(work.inputs)}),
                       !.c = IF more THEN SideBatch(@, work.at) ELSE SideBySide(@, clusters)]
         /\ phase' = IF more THEN "side" ELSE "sides"
    /\ UNCHANGED <<job, enc, blk, slow, fast>>
\* Every context takes its cluster.
EndContexts ==
    /\ phase = "sides" /\ Halted(work.c)
    /\ \E got \in {Reassigned(work.c, work.inputs, work.pricing)}, symbols \in {SymbolsOf(blk.mode)} :
         IF work.before = <<>>
         THEN /\ ClusterInputs(work.splits, work.pricing,
                               ContextHistograms(symbols.dist, work.splits[3], 4), <<got>>)
              /\ phase' = "side" /\ UNCHANGED blk
         ELSE /\ blk' = [blk EXCEPT !.mb =
                    BuildMetaBlock(work.splits[1], work.splits[2], work.splits[3], work.before[1], got,
                                   ContextHistograms(symbols.cmd, work.splits[2], 1), LiteralContexts)]
              /\ phase' = "optimise" /\ work' = Nothing
    /\ UNCHANGED <<job, enc, slow, fast>>

-----------------------------------------------------------------------------
(* The wire                                                                *)

Optimise ==
    /\ phase = "optimise"
    /\ blk' = [blk EXCEPT !.mb = OptimizeHistograms(@, blk.dist.limit)]
    /\ phase' = "store"
    /\ UNCHANGED <<job, enc, work, slow, fast>>

StoreBy(kind) ==
    CASE kind = "fast" -> StoreFast(enc.w, enc.wire, job.text, blk)
      [] kind = "trivial" -> StoreTrivial(enc.w, enc.wire, job.text, blk)
      [] OTHER -> StoreMetaBlock(enc.w, enc.wire, job.text, blk, blk.mb, blk.mode)

\* More than the bytes themselves: the writer goes back to where it began.
TooLong(wire) == blk.len + 4 < (Len(wire) - 8 * (Len(enc.wire) \div 8)) \div 8
RawWire == StoreUncompressed(enc.wire, SubSeq(job.text, blk.start + 1, blk.start + blk.len), blk.last)
Sealing(wire) == IF Block.flush THEN InjectBytePadding(wire) ELSE wire
Wrote(w, wire, cache) ==
    /\ enc' = [w |-> w, cache |-> cache, saved |-> cache, wire |-> Sealing(wire), at |-> enc.at + blk.len]
    /\ phase' = "read" /\ work' = Nothing
    /\ UNCHANGED <<job, blk, slow, fast>>

StoreCoded ==
    /\ phase = "store" /\ TRUE \in Worth
    /\ \E got \in {StoreBy(Block.kind)} :
         IF TooLong(got.wire) THEN Wrote(got.w, RawWire, enc.saved)
         ELSE Wrote(got.w, got.wire, enc.cache)
StoreRaw ==
    /\ phase \in {"model", "params", "store"} /\ FALSE \in Worth
    /\ blk.mb = Nothing /\ Wrote(enc.w, RawWire, enc.saved)
\* Nothing to write: the end of the stream, or a flush.
StoreNothing ==
    /\ phase = "begin" /\ Stream /\ job.blocks # <<>> /\ Block.cmds = <<>>
    /\ enc' = [enc EXCEPT !.wire = IF Block.last THEN Aligned(@ \o <<1, 1>>) ELSE Sealing(@)]
    /\ phase' = "read"
    /\ UNCHANGED <<job, blk, work, slow, fast>>

\* The decoder takes all there is.
RECURSIVE ReadOn(_, _)
ReadOn(r, path) ==
    IF ~r.ok \/ r.last \/ r.pos >= Len(enc.wire) THEN r
    ELSE ReadOn(ReadMetaBlock(enc.wire, r, job.large, path), path)
Read ==
    /\ phase = "read" /\ Stream
    /\ \E got \in {[path \in {"slow", "fast"} |-> ReadOn(IF path = "slow" THEN slow ELSE fast, path)]} :
         slow' = got["slow"] /\ fast' = got["fast"]
    /\ phase' = "begin" /\ job' = [job EXCEPT !.blocks = Tail(@)]
    /\ blk' = Nothing
    /\ UNCHANGED <<enc, work>>

-----------------------------------------------------------------------------
(* Single codes and distance alphabets                                     *)

Histogram == IF job.rounded THEN OptimizeHistogram(job.hist, job.alphabet) ELSE job.hist
StoreCode ==
    /\ phase = "begin" /\ job.kind = "code"
    /\ work' = IF job.quick
               THEN BuildAndStoreHuffmanTreeFast(job.old, Histogram, BitWidth(job.alphabet - 1))
               ELSE BuildAndStoreHuffmanTree(job.old, Histogram, job.length, job.alphabet)
    /\ phase' = "read"
    /\ UNCHANGED <<job, enc, blk, slow, fast>>
ReadTable ==
    /\ phase = "read" /\ job.kind = "code"
    /\ work' = [code |-> work.code, wire |-> work.wire, got |-> ReadCode(work.wire, 0, job.alphabet)]
    /\ phase' = "done"
    /\ UNCHANGED <<job, enc, blk, slow, fast>>
SetDistances ==
    /\ phase = "begin" /\ job.kind = "distances"
    /\ work' = [params |-> ParamsFor(job.large, job.postfix, job.direct),
                layout |-> LayoutOf(job.postfix + 4 * (job.direct \div 2^(job.postfix)), job.large)]
    /\ phase' = "done"
    /\ UNCHANGED <<job, enc, blk, slow, fast>>

MetaBlockNext ==
    \/ BeginBlock \/ ChooseModel \/ AddSymbol \/ FinishSplit
    \/ ChooseDistanceParams \/ GatherSymbols \/ LeaveWhole \/ FindBlocks \/ StartClusters
    \/ ComparePair \/ MergePair \/ RaiseThreshold \/ NextBatch \/ EndClusters \/ AssignBlock
    \/ StartContexts \/ CombineContexts \/ NextSide \/ EndContexts \/ Optimise \/ StoreCoded \/ StoreRaw \/ StoreNothing \/ Read
    \/ StoreCode \/ ReadTable \/ SetDistances

-----------------------------------------------------------------------------
(* Properties                                                              *)

\* What the encoder wrote, as codes or as raw bytes, is what either path of the
\* decoder reads: the text, the end of the meta-block to the bit, the remembered
\* distances and the end of the stream.
ReadsBack(r) ==
    /\ r.ok /\ r.text = SubSeq(job.text, 1, enc.at) /\ r.cache = enc.cache
    /\ r.pos = Len(enc.wire)
MetaBlockDecodes ==
    (phase = "begin" /\ Stream) =>
      /\ ReadsBack(slow) /\ ReadsBack(fast)
      /\ slow.last = fast.last /\ (job.blocks = <<>> => slow.last)

\* The block a symbol falls into, from the lengths alone.
BlockAt(split, k) ==
    LET ends == StartsOf(split.lengths)
    IN CHOOSE b \in DOMAIN split.lengths : ends[b] <= k /\ k < ends[b + 1]
TypeAt(split, k) == IF split.numTypes = 1 THEN 0 ELSE split.types[BlockAt(split, k)]
HistogramAt(split, map, contexts, k, context) ==
    IF map = <<>> THEN TypeAt(split, k) + 1 ELSE map[contexts * TypeAt(split, k) + context + 1] + 1
AllCounted(symbols, split, map, contexts, hists) ==
    /\ split.numTypes > 1 => StartsOf(split.lengths)[Len(split.lengths) + 1] > Len(symbols)
    /\ Range(split.types) \subseteq 0 .. split.numTypes - 1
    /\ \A k \in DOMAIN symbols :
         symbols[k].sym \in DOMAIN hists[HistogramAt(split, map, contexts, k, symbols[k].context)]
\* Before a split meta-block is written, the histogram that its block and its
\* context select has counted every symbol: however the blocks were joined, the
\* contexts clustered and the counts rounded, each symbol has a word.
CountedBy(symbols, mb) ==
    /\ AllCounted(symbols.lit, mb.lit, mb.litMap, 64, mb.litHists)
    /\ AllCounted(symbols.cmd, mb.cmd, <<>>, 1, mb.cmdHists)
    /\ AllCounted(symbols.dist, mb.dist, mb.distMap, 4, mb.distHists)
EverySymbolIsCounted ==
    (phase = "store" /\ blk.mb # Nothing) => CountedBy(SymbolsOf(blk.mode), blk.mb)

\* A single prefix code, whatever table it was built over, is read back as a
\* table that finds every symbol behind its word, whatever bits follow; and a
\* distance code of any alphabet is read as the distance it was made from, up to
\* the furthest the encoder trusts it with.
Behind(word, table, path) ==
    {Decode(table, word \o tail, 0, path) : tail \in {Zeros(16), [i \in 1 .. 16 |-> 1]}}
TableFinds(s) ==
    \A path \in {"slow", "fast"} :
      \A got \in Behind(work.code[s], work.got.table, path) :
        got.sym = s /\ got.pos = Len(work.code[s])
DistanceCodes(top) == {c \in {ShortCodes + d : d \in 0 .. 40} \cup {150, 1000, 65536, 1000003} : c <= top}
DistanceIsRead(code, p, l) ==
    LET made == PrefixEncodeCopyDistance(code, p.direct, p.postfix)
        d == code - ShortCodes + 1
    IN /\ made.sym < p.limit /\ made.nbits = DistanceExtraBits(l, made.sym)
       /\ LongDistance(l, made.sym, made.extra) = d
       /\ DistanceEntry(l, made.sym).base + made.extra * 2^(l.postfix) = d
       /\ RestoreDistanceCode([dist |-> made], p.direct, p.postfix) = code
AlphabetsAgree(p, l) ==
    /\ p.max = DistanceAlphabet(l) /\ p.limit <= p.max
    /\ LongDistance(l, p.limit - 1, 2^(DistanceExtraBits(l, p.limit - 1)) - 1) = p.far
    /\ \A code \in DistanceCodes(p.far) : DistanceIsRead(code, p, l)
CodeTablesAgree ==
    phase = "done" =>
      IF job.kind = "code"
      THEN /\ work.got.ok /\ work.got.pos = Len(work.wire)
           /\ \A s \in DOMAIN job.hist : TableFinds(s)
      ELSE AlphabetsAgree(work.params, work.layout)

\* The queue of merges never names a cluster that was merged away and has the
\* best in front; it is not empty while merges are still asked for; and each
\* cluster that is left has counted exactly the inputs that are said to be in it.
Inputs == IF phase = "all" THEN work.inputs ELSE SubSeq(work.inputs, Len(work.done.symbols) + 1, Len(work.inputs))
PairsAreLive ==
    Combines =>
      /\ \A i \in DOMAIN work.c.pairs :
           /\ {work.c.pairs[i].a, work.c.pairs[i].b} \subseteq Range(work.c.clusters)
           /\ ~PairIsLess(work.c.pairs[1], work.c.pairs[i])
      /\ work.c.todo = <<>> /\ ~Enough(work.c) => work.c.pairs # <<>>
      /\ Range(work.c.symbols) \subseteq Range(work.c.clusters)
      /\ \A k \in Range(work.c.clusters) :
           work.c.hists[k] = FoldLeft(LAMBDA h, i : IF work.c.symbols[i] = k THEN Joined(h, Inputs[i]) ELSE h,
                                      Empty, Identity(Len(work.c.symbols)))

\* A meta-block counts every symbol it writes, and is read back from its bits.
MetaBlocksAreWhole == EverySymbolIsCounted /\ MetaBlockDecodes
=============================================================================
