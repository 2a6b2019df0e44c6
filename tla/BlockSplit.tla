------------------------------ MODULE BlockSplit ------------------------------
(***************************************************************************)
(* How the greedy encoder cuts a meta-block into blocks and what it does   *)
(* to the histograms before they become codes (src/src/compressor/core/    *)
(* greedy/split.rs, greedy/metablock.rs, greedy/context_model.rs;          *)
(* src/src/shared/histogram.rs, src/src/shared/metablock.rs).  What a      *)
(* block is found to look like is a choice: it depends on entropies, of    *)
(* which only the limits are kept.                                         *)
(*                                                                         *)
(* A splitter is a record                                                  *)
(*   min       the smallest block       contexts  histograms of one type   *)
(*   types, lengths                     the blocks closed so far           *)
(*   numTypes                           types given out                    *)
(*   hists     one per type and context, and those being gathered          *)
(*   room      histograms there may be  curr      the first being gathered *)
(*   last      the first of the last two types                             *)
(*   size      symbols of the open block                                   *)
(*   target    the size at which it is closed                              *)
(*   merges    blocks in a row that extended the one before                *)
(***************************************************************************)
EXTENDS EncoderCommand, EntropyCode

CONSTANT MaxTypes  \* contexts -> block types there can be, 256 \div contexts

Empty == [s \in {} |-> 0]
Counted(hist, s) == (s :> (IF s \in DOMAIN hist THEN hist[s] ELSE 0) + 1) @@ hist
Joined(a, b) == [s \in DOMAIN a \cap DOMAIN b |-> a[s] + b[s]] @@ a @@ b
Empties(n) == <<>> \o [i \in 1 .. n |-> Empty]

-----------------------------------------------------------------------------
(* Splitting                                                               *)

\* There is room for one type more than can be given out, if the symbols can
\* fill that many blocks.
NewSplitter(contexts, min, symbols) ==
    [min |-> min, contexts |-> contexts, types |-> <<>>, lengths |-> <<>>, numTypes |-> 0,
     hists |-> Empties(contexts),
     room |-> contexts * Min({(symbols \div min) + 1, MaxTypes[contexts] + 1}),
     curr |-> 0, last |-> <<0, 0>>, size |-> 0, target |-> min, merges |-> 0]

\* A symbol beyond the histograms there are is not counted.
Gather(s, symbol, context) ==
    LET at == s.curr + context + 1
    IN [s EXCEPT !.size = @ + 1,
                 !.hists = IF at <= Len(@) THEN [@ EXCEPT ![at] = Counted(@, symbol)] ELSE @]
IsFull(s) == s.size = s.target

\* The histograms of the next type: cleared if they are there, made if not.
AdvanceHistograms(s) ==
    LET next == s.curr + s.contexts
    IN [s EXCEPT !.curr = next,
                 !.hists = IF next >= s.room THEN @
                           ELSE SubSeq(@, 1, next) \o Empties(s.contexts)
                                  \o SubSeq(@, next + s.contexts + 1, Len(@))]

\* The open block goes into the type at target, and is cleared.
MergeCurrentInto(s, target) ==
    [s EXCEPT !.hists = <<>> \o [i \in DOMAIN s.hists |->
        CASE i - 1 \in s.curr .. s.curr + s.contexts - 1 -> Empty
          [] i - 1 \in target .. target + s.contexts - 1 ->
               Joined(s.hists[i], s.hists[s.curr + (i - target)])
          [] OTHER -> s.hists[i]]]

OpenBlock(s) == [s EXCEPT !.size = 0, !.target = s.min, !.merges = 0]
Closed(s, type, size) == [s EXCEPT !.types = Append(@, type), !.lengths = Append(@, size)]

FirstBlockOf(s, size) ==
    [AdvanceHistograms(Closed(s, 0, size)) EXCEPT !.numTypes = 1, !.size = 0]
NewType(s, size) ==
    OpenBlock(AdvanceHistograms([Closed(s, s.numTypes, size) EXCEPT
        !.last = <<s.numTypes * s.contexts, @[1]>>, !.numTypes = @ + 1]))
\* Mutant: the two last types do not change places.
SecondLastStays(s, size) ==
    OpenBlock(MergeCurrentInto(Closed(s, s.types[Len(s.types) - 1], size), s.last[2]))
SecondLast(s, size) ==
    OpenBlock(MergeCurrentInto([Closed(s, s.types[Len(s.types) - 1], size) EXCEPT
        !.last = <<@[2], @[1]>>], s.last[2]))
\* From the second such block on, the next question is asked later.
ExtendLast(s, size) ==
    [MergeCurrentInto([s EXCEPT !.lengths[Len(s.lengths)] = @ + size], s.last[1]) EXCEPT
        !.size = 0, !.merges = @ + 1, !.target = @ + (IF s.merges >= 1 THEN s.min ELSE 0)]

\* What the entropies may say of the open block.  It looks like neither of the
\* last two types only when it has symbols and there are types left; like the
\* second-last only when that is another one and it has symbols.
Looks(s) ==
    LET open == {i \in DOMAIN s.hists : i - 1 \in s.curr .. s.curr + s.contexts - 1}
        some == \E i \in open : s.hists[i] # Empty
    IN IF s.numTypes = 0 THEN {"first"}
       ELSE {"last"} \cup (IF some /\ s.numTypes < MaxTypes[s.contexts] THEN {"new"} ELSE {})
                     \cup (IF some /\ s.last[1] # s.last[2] THEN {"second"} ELSE {})

\* A block is never shorter than the least, even if the symbols were.
FinishBlock(s, look) ==
    LET size == Max({s.size, s.min})
    IN CASE look = "first" -> FirstBlockOf(s, size)
         [] look = "new" -> NewType(s, size)
         [] look = "second" -> SecondLast(s, size)
         [] OTHER -> ExtendLast(s, size)

\* The end of finish_block: what is beyond the types is dropped.
Ended(s) == [s EXCEPT !.hists = SubSeq(@, 1, s.numTypes * s.contexts)]
SplitOf(s) == [numTypes |-> s.numTypes, types |-> s.types, lengths |-> s.lengths]

-----------------------------------------------------------------------------
(* Context models                                                          *)

SimpleUtf8 == [i \in 0 .. 63 |-> IF i \in {2, 3} THEN 1 ELSE 0]
Continuation == [i \in 0 .. 63 |-> IF i \in {0, 1} THEN 1 ELSE IF i \in {2, 3} THEN 2 ELSE 0]
ComplexRows == <<11, 11, 12, 12, 0, 0, 0, 0, 1, 1, 9, 9, 2, 2, 2, 2,
                 1, 1, 1, 1, 8, 3, 3, 3, 1, 1, 1, 1, 2, 2, 2, 2,
                 8, 4, 4, 4, 8, 7, 4, 4, 8, 0, 0, 0, 3, 3, 3, 3,
                 5, 5, 10, 5, 5, 5, 10, 5, 6, 6, 6, 6, 6, 6, 6, 6>>
\* The map of a model by the number of its contexts.
StaticMap(contexts, raw) ==
    CASE contexts = 2 -> SimpleUtf8[raw]
      [] contexts = 3 -> Continuation[raw]
      [] contexts = 13 -> ComplexRows[raw + 1]
      [] OTHER -> 0

\* decide_over_literal_context_modeling: a short block is not sampled, a long
\* hint opens the complex map, and three contexts are for the better qualities.
Models(length, least, models, hq, long) ==
    IF ~models \/ length < least THEN {1}
    ELSE {1, 2} \cup (IF hq THEN {3} ELSE {}) \cup (IF long THEN {13} ELSE {})

\* map_static_contexts: an entry for every raw context of every type.
MapStaticContexts(contexts, types) ==
    IF contexts = 1 THEN <<>>
    ELSE <<>> \o [i \in 1 .. 64 * types |->
                    ((i - 1) \div 64) * contexts + StaticMap(contexts, (i - 1) % 64)]

-----------------------------------------------------------------------------
(* Rounding the counts                                                     *)

NonZero(counts) == SelectSeq(counts, LAMBDA c : c # 0)
\* The counts up to the last that is not zero.
Trimmed(counts) ==
    SubSeq(counts, 1, Max({0} \cup {i \in DOMAIN counts : counts[i] # 0}))

\* Single holes between symbols, when there are few.
IsHole(c, i) == i \in 2 .. Len(c) - 1 /\ c[i - 1] # 0 /\ c[i] = 0 /\ c[i + 1] # 0
FillHoles(counts) == <<>> \o [i \in DOMAIN counts |-> IF IsHole(counts, i) THEN 1 ELSE counts[i]]
FewHoles(counts) ==
    Len(counts) - Len(NonZero(counts)) < 6 /\ \E i \in DOMAIN counts : counts[i] \in 1 .. 3

\* Positions of runs that already code well: five zeros, seven of anything else.
InRun(counts, i, n) == \E from \in i - n + 1 .. i : from >= 1 /\ from + n - 1 <= Len(counts)
                         /\ \A k \in from .. from + n - 1 : counts[k] = counts[i]
GoodForRle(counts) == {i \in DOMAIN counts : InRun(counts, i, IF counts[i] = 0 THEN 5 ELSE 7)}

StreakLimit == 1240
\* One step over the counts, in 24.8 fixed point: a stride ends where a good run
\* begins or ends or where a count is far from the average, and is levelled.
Average(sum, stride) ==
    IF sum = 0 THEN 0 ELSE Max({1, (sum + (stride \div 2)) \div stride})
Levelled(c, i, stride, sum) ==
    IF stride >= 4 \/ (stride >= 3 /\ sum = 0)
    THEN [k \in DOMAIN c |-> IF k \in i - stride .. i - 1 THEN Average(sum, stride) ELSE c[k]]
    ELSE c
LimitAt(c, i, n) ==
    IF i + 2 <= n THEN ((256 * (c[i] + c[i + 1] + c[i + 2])) \div 3) + 420
    ELSE IF i <= n THEN 256 * c[i] ELSE 0
Streak(acc, i, n, good) ==
    LET off == 256 * (IF i > n THEN 0 ELSE acc.c[i]) - acc.limit
        breaks == i > n \/ i \in good \/ i - 1 \in good
                    \/ off < 0 - StreakLimit \/ off >= StreakLimit
        c == <<>> \o (IF breaks THEN Levelled(acc.c, i, acc.stride, acc.sum) ELSE acc.c)
    IN [c |-> c, i |-> i, breaks |-> breaks,
        stride |-> IF breaks THEN 0 ELSE acc.stride, sum |-> IF breaks THEN 0 ELSE acc.sum,
        limit |-> IF breaks THEN LimitAt(c, i, n) ELSE acc.limit]
Counting(acc, n) ==
    LET sum == acc.sum + (IF acc.i > n THEN 0 ELSE acc.c[acc.i])
        stride == acc.stride + 1
    IN IF acc.i > n THEN acc
       ELSE [acc EXCEPT !.stride = stride, !.sum = sum,
                        !.limit = IF stride < 4 THEN @
                                  ELSE ((256 * sum + (stride \div 2)) \div stride)
                                         + (IF stride = 4 THEN 120 ELSE 0)]
\* Up to 2^k steps.
RECURSIVE Collapsed(_, _, _, _)
Collapsed(acc, n, good, k) ==
    IF acc.i > n THEN acc
    ELSE IF k = 0 THEN Counting(Streak(acc, acc.i + 1, n, good), n)
    ELSE Collapsed(Collapsed(acc, n, good, k - 1), n, good, k - 1)
CollapseStrides(counts, good) ==
    Collapsed([c |-> counts, i |-> 0, breaks |-> FALSE, stride |-> 0, sum |-> 0,
               limit |-> LimitAt(counts, 1, 3)], Len(counts), good, 10).c

\* optimize_huffman_counts_for_rle over the first length counts.
OptimizeCounts(counts) ==
    LET trimmed == Trimmed(counts)
        filled == IF FewHoles(trimmed) THEN FillHoles(trimmed) ELSE trimmed
    IN IF Len(NonZero(counts)) < 16 THEN counts
       ELSE IF Len(NonZero(counts)) < 28 THEN filled
       ELSE CollapseStrides(filled, GoodForRle(filled))

CountsOf(hist, length) == <<>> \o [i \in 1 .. length |-> IF i - 1 \in DOMAIN hist THEN hist[i - 1] ELSE 0]
HistogramFrom(counts) ==
    [s \in {i - 1 : i \in {j \in DOMAIN counts : counts[j] # 0}} |-> counts[s + 1]]
OptimizeHistogram(hist, length) ==
    IF Cardinality(DOMAIN hist) < 16 THEN hist
    ELSE HistogramFrom(OptimizeCounts(CountsOf(hist, length)))
\* optimize_histograms, for all of a meta-block.
OptimizeHistograms(mb, distances) ==
    [mb EXCEPT !.litHists = <<>> \o [i \in DOMAIN @ |-> OptimizeHistogram(@[i], 256)],
               !.cmdHists = <<>> \o [i \in DOMAIN @ |-> OptimizeHistogram(@[i], 704)],
               !.distHists = <<>> \o [i \in DOMAIN @ |-> OptimizeHistogram(@[i], distances)]]

-----------------------------------------------------------------------------
(***************************************************************************)
(* How the high-quality encoder cuts a meta-block into blocks and clusters *)
(* histograms (src/src/compressor/core/hq/block_splitter.rs, hq/cluster.rs,*)
(* hq/metablock.rs).  Costs are left out: which histogram is the cheapest, *)
(* and what merging two of them would save, is a choice, of which the      *)
(* code's order of comparisons decides the rest.                           *)
(*                                                                         *)
(* A clustering is a record                                                *)
(*   hists, size   every cluster there was, with its inputs' number        *)
(*   symbols       input -> cluster       clusters  those that are left    *)
(*   pairs         the queue of merges, the best in front                  *)
(*   todo          comparisons to be made before the next merge            *)
(*   max           clusters there may be  room      pairs that are kept    *)
(*   raised        whether only the number of clusters counts by now       *)
(***************************************************************************)

CONSTANTS
    MinSplit,       \* symbols below which a stream is one block, 128
    PerHistogram,   \* symbols for each histogram, 530 to 544
    MaxHistograms,  \* 50, and 100 for literals
    Batch,          \* histograms clustered at a time, 64
    MaxBlockTypes   \* 256

\* Values in the order they are first met, and each value's place in it.
Met(seq) ==
    LET first == SelectSeq(UpTo(Len(seq)), LAMBDA i : \A k \in 1 .. i - 1 : seq[k] # seq[i])
    IN <<>> \o [i \in DOMAIN first |-> seq[first[i]]]
PlaceIn(order, x) == CHOOSE i \in DOMAIN order : order[i] = x
Renumbered(seq, order) == <<>> \o [i \in DOMAIN seq |-> PlaceIn(order, seq[i])]

-----------------------------------------------------------------------------
(* Blocks                                                                  *)

NumHistograms(symbols) == Min({(Len(symbols) \div PerHistogram) + 1, MaxHistograms})
Splits(symbols) == Len(symbols) >= MinSplit
\* A stream of nothing has a type, but no block.
Unsplit(symbols) ==
    [numTypes |-> 1, types |-> IF symbols = <<>> THEN <<>> ELSE <<0>>,
     lengths |-> IF symbols = <<>> THEN <<>> ELSE <<Len(symbols)>>]

\* The end of find_blocks: back from the last symbol, the histogram changes where
\* the way there had a change marked, and every change begins a block.  Any
\* sequence can come out.
Changes(ids) == Cardinality({i \in 2 .. Len(ids) : ids[i] # ids[i - 1]})
TracedBack(ids) == [blocks |-> Changes(ids) + 1, ids |-> ids]

\* remap_block_ids.
RemapBlockIds(found) ==
    LET order == Met(found.ids)
    IN [blocks |-> found.blocks, ids |-> Renumbered(found.ids, order), histograms |-> Len(order)]

\* Lengths of the runs, no more than there are blocks.
RunStarts(ids) == SelectSeq(UpTo(Len(ids) + 1), LAMBDA i : i \in {1, Len(ids) + 1} \/ ids[i] # ids[i - 1])
BlockLengths(found) ==
    LET starts == RunStarts(found.ids)
    IN <<>> \o [i \in 1 .. found.blocks |-> IF i < Len(starts) THEN starts[i + 1] - starts[i] ELSE 0]
StartsOf(lengths) ==
    FoldLeft(LAMBDA acc, n : Append(acc, acc[Len(acc)] + n), <<1>>, lengths)
HistogramOfRange(symbols, from, n) ==
    FoldLeft(Counted, Empty, SubSeq(symbols, from, from + n - 1))
\* A histogram for each block.
BlockHistograms(symbols, lengths) ==
    LET starts == StartsOf(lengths)
    IN <<>> \o [i \in DOMAIN lengths |-> HistogramOfRange(symbols, starts[i], lengths[i])]

-----------------------------------------------------------------------------
(* Clustering                                                              *)

Identity(n) == <<>> \o [i \in 1 .. n |-> i]
PairsAmong(clusters) ==
    Concatenated([i \in DOMAIN clusters |->
      <<>> \o [k \in 1 .. Len(clusters) - i |-> <<clusters[i], clusters[i + k]>>]])

Combining(hists, size, symbols, clusters, max, room) ==
    [hists |-> hists, size |-> size, symbols |-> symbols, clusters |-> clusters, pairs |-> <<>>,
     todo |-> PairsAmong(clusters), max |-> max, room |-> room, raised |-> FALSE]
NewClusters(hists, max, room) ==
    Combining(hists, <<>> \o [i \in DOMAIN hists |-> 1], Identity(Len(hists)), Identity(Len(hists)), max, room)

\* pair_is_less: the larger difference is worse, then the wider span.
PairIsLess(l, r) == l.diff > r.diff \/ (l.diff = r.diff /\ l.b - l.a > r.b - r.a)

\* Without symbols in one of them a merge always saves.
Diffs(c, a, b) == IF Empty \in {c.hists[a], c.hists[b]} THEN {-1} ELSE {-1, 0, 1}
IsGood(c, p) ==
    \/ Empty \in {c.hists[p.a], c.hists[p.b]}
    \/ c.pairs = <<>>
    \/ p.diff < Max({c.pairs[1].diff, 0})

\* The best of all goes to the front, the one that was there to the end.
Push(pairs, p, room) ==
    IF pairs # <<>> /\ PairIsLess(pairs[1], p)
    THEN [(IF Len(pairs) < room THEN Append(pairs, pairs[1]) ELSE pairs) EXCEPT ![1] = p]
    ELSE IF Len(pairs) < room THEN Append(pairs, p) ELSE pairs

\* compare_and_push_to_queue, for the next comparison.
NextPair(c) == [a |-> Min({c.todo[1][1], c.todo[1][2]}), b |-> Max({c.todo[1][1], c.todo[1][2]})]
Compared(c, diff) ==
    LET p == [a |-> NextPair(c).a, b |-> NextPair(c).b, diff |-> diff]
    IN [c EXCEPT !.todo = Tail(@),
                 !.pairs = IF p.a # p.b /\ IsGood(c, p) THEN Push(@, p, c.room) ELSE @]

\* The pairs that touch neither stay.  One that is better than all before it goes
\* to the front, and the one it displaces takes its place.
Untouched(pairs, gone) == SelectSeq(pairs, LAMBDA p : {p.a, p.b} \cap gone = {})
Leaders(pairs) ==
    SelectSeq(UpTo(Len(pairs)), LAMBDA i : \A k \in 1 .. i - 1 : PairIsLess(pairs[k], pairs[i]))
\* Mutant: what is left stays in its order.
InFrontNone(pairs, leaders) == pairs
InFront(pairs, leaders) ==
    <<>> \o [i \in DOMAIN pairs |->
       IF i = 1 THEN pairs[leaders[Len(leaders)]]
       ELSE IF i \in Range(leaders) THEN pairs[leaders[PlaceIn(leaders, i) - 1]]
       ELSE pairs[i]]
Purged(pairs, a, b) ==
    LET left == Untouched(pairs, {a, b}) IN InFront(left, Leaders(left))

\* Nothing left that pays: from now on only the number of clusters counts.
Pays(c) == c.pairs # <<>> /\ (c.raised \/ c.pairs[1].diff < 0)
Enough(c) == Len(c.clusters) <= (IF c.raised THEN c.max ELSE 1)
Raised(c) == [c EXCEPT !.raised = TRUE]

\* The second of the best pair goes into the first, which is compared with all.
Merged(c) ==
    LET p == c.pairs[1]
        left == SelectSeq(c.clusters, LAMBDA k : k # p.b)
    IN [c EXCEPT !.hists[p.a] = Joined(@, c.hists[p.b]),
                 !.size[p.a] = @ + c.size[p.b],
                 !.symbols = <<>> \o [i \in DOMAIN @ |-> IF c.symbols[i] = p.b THEN p.a ELSE c.symbols[i]],
                 !.clusters = left,
                 !.pairs = Purged(@, p.a, p.b),
                 !.todo = <<>> \o [i \in DOMAIN left |-> <<p.a, left[i]>>]]

\* The queue of the first pass takes every pair of a batch, that of the second
\* not always.
BatchRoom == (Batch * Batch) \div 2
FinalRoom(n) == Min({64 * n, (n \div 2) * n})

-----------------------------------------------------------------------------
(* From blocks to a split                                                  *)

\* A clustering of the blocks goes batch by batch: done has the clusters of the
\* batches before, and of each block the cluster it is in.
NoBatches == [hists |-> <<>>, size |-> <<>>, symbols |-> <<>>]
BatchFrom(hists, at) ==
    NewClusters(SubSeq(hists, at + 1, Min({Len(hists), at + Batch})), Batch, BatchRoom)
WithBatch(done, c) ==
    [hists |-> done.hists \o [i \in DOMAIN c.clusters |-> c.hists[c.clusters[i]]],
     size |-> done.size \o [i \in DOMAIN c.clusters |-> c.size[c.clusters[i]]],
     symbols |-> done.symbols
                   \o [i \in DOMAIN c.symbols |-> Len(done.hists) + PlaceIn(c.clusters, c.symbols[i])]]
AllBatches(done) ==
    LET n == Len(done.hists)
    IN Combining(done.hists, done.size, done.symbols, Identity(n), MaxBlockTypes, FinalRoom(n))

\* A block takes any cluster that is left, or the one its predecessor took.
Assignable(c, i) == Range(c.clusters) \cup {c.symbols[IF i = 1 THEN 1 ELSE i - 1]}

\* Neighbours of one type become one block.
SplitOfBlocks(symbols, lengths) ==
    LET order == Met(symbols)
        joined(acc, i) ==
          IF i > 1 /\ symbols[i] = symbols[i - 1]
          THEN [acc EXCEPT !.lengths[Len(acc.lengths)] = @ + lengths[i]]
          ELSE [acc EXCEPT !.types = Append(@, PlaceIn(order, symbols[i]) - 1),
                           !.lengths = Append(@, lengths[i])]
    IN FoldLeft(joined, [numTypes |-> Len(order), types |-> <<>>, lengths |-> <<>>],
                Identity(Len(symbols)))

-----------------------------------------------------------------------------
(* Contexts                                                                *)

\* What merging saves, when it is not left open: how the costs might lie.
Alike(a, b) == \E s \in DOMAIN a : s \in DOMAIN b
Priced(c, pricing) ==
    LET a == c.hists[NextPair(c).a]
        b == c.hists[NextPair(c).b]
    IN IF Empty \in {a, b} \/ (pricing = "alike" /\ Alike(a, b)) THEN -1 ELSE 1

\* histogram_combine with those costs, up to 2^k of its steps.
Halted(c) == c.todo = <<>> /\ Enough(c)
Advanced(c, pricing) ==
    IF c.todo # <<>> THEN Compared(c, Priced(c, pricing))
    ELSE IF Pays(c) THEN Merged(c) ELSE Raised(c)
RECURSIVE Combine(_, _, _)
Combine(c, pricing, k) ==
    IF Halted(c) THEN c
    ELSE IF k = 0 THEN Advanced(c, pricing)
    ELSE Combine(Combine(c, pricing, k - 1), pricing, k - 1)

\* The batches of cluster_histograms stay side by side in one list: the clusters
\* of the inputs from at, and then all that are left of them.
Side(c, clusters, room) ==
    Combining(c.hists, c.size, c.symbols, clusters, c.max, room)
SideBatch(c, at) ==
    Side(c, [i \in 1 .. Min({Batch, Len(c.hists) - at}) |-> at + i], BatchRoom)
SideBySide(c, clusters) == Side(c, clusters, FinalRoom(Len(clusters)))

\* An empty input costs the same everywhere and stays with its predecessor.
Cheapest(c, input, previous, pricing) ==
    IF input = Empty \/ (pricing = "alike" /\ Alike(input, c.hists[previous])) THEN previous
    ELSE LET near == {k \in Range(c.clusters) : Alike(input, c.hists[k])}
         IN IF pricing = "alike" THEN Min(near) ELSE Max(Range(c.clusters))

\* The next input, and up to 2^k of them.
RemapNext(acc, c, inputs, pricing) ==
    [symbols |-> [acc.symbols EXCEPT ![acc.i] =
        Cheapest(c, inputs[acc.i], acc.symbols[IF acc.i = 1 THEN 1 ELSE acc.i - 1], pricing)],
     i |-> acc.i + 1]
RECURSIVE Remapped(_, _, _, _, _)
Remapped(acc, c, inputs, pricing, k) ==
    IF acc.i > Len(inputs) THEN acc
    ELSE IF k = 0 THEN RemapNext(acc, c, inputs, pricing)
    ELSE Remapped(Remapped(acc, c, inputs, pricing, k - 1), c, inputs, pricing, k - 1)
\* histogram_remap empties the clusters and adds the inputs anew, and
\* histogram_reindex numbers them as they are first used.
Gathered(symbols, inputs, k) ==
    FoldLeft(LAMBDA h, i : Joined(h, inputs[i]), Empty,
             SelectSeq(Identity(Len(inputs)), LAMBDA i : symbols[i] = k /\ inputs[i] # Empty))
Reindexed(symbols, inputs) ==
    LET order == Met(symbols)
    IN [symbols |-> [i \in DOMAIN symbols |-> PlaceIn(order, symbols[i]) - 1],
        hists |-> <<>> \o [k \in DOMAIN order |-> Gathered(symbols, inputs, order[k])]]
Reassigned(c, inputs, pricing) ==
    Reindexed(Remapped([symbols |-> c.symbols, i |-> 1], c, inputs, pricing, BitWidth(Len(inputs))).symbols,
              inputs)

-----------------------------------------------------------------------------
(* The meta-block                                                          *)

\* Any alphabet that has all the distances.
Fits(cmds, original, new) ==
    \A i \in DOMAIN cmds :
      HasDistance(cmds[i]) =>
        RestoreDistanceCode(cmds[i], original.direct, original.postfix) <= new.far

RecomputeDistancePrefixes(cmds, original, new) ==
    IF original.direct = new.direct /\ original.postfix = new.postfix THEN cmds
    ELSE <<>> \o [i \in DOMAIN cmds |->
           IF ~HasDistance(cmds[i]) THEN cmds[i]
           ELSE [cmds[i] EXCEPT !.dist = PrefixEncodeCopyDistance(
                   RestoreDistanceCode(cmds[i], original.direct, original.postfix),
                   new.direct, new.postfix)]]

\* BlockSplitIterator: a block that is used up gives way to the next.
TypesOf(split, n) ==
    FoldLeft(LAMBDA it, k :
               LET moves == it.left = 0 /\ it.ix < Len(split.types)
                   ix == IF moves THEN it.ix + 1 ELSE it.ix
                   left == IF moves THEN split.lengths[ix] ELSE it.left
                   type == IF moves THEN split.types[ix] ELSE it.type
               IN [ix |-> ix, type |-> type, left |-> IF left = 0 THEN 0 ELSE left - 1,
                   out |-> Append(it.out, type)],
             [ix |-> 1, type |-> 0, left |-> IF split.lengths = <<>> THEN 0 ELSE split.lengths[1],
              out |-> <<>>], Identity(n)).out
\* A histogram for each type and context.
ContextHistograms(symbols, split, contexts) ==
    LET types == TypesOf(split, Len(symbols))
        at(i) == types[i] * contexts + (IF contexts = 1 THEN 0 ELSE symbols[i].context) + 1
    IN FoldLeft(LAMBDA hists, i : [hists EXCEPT ![at(i)] = Counted(@, symbols[i].sym)],
                Empties(split.numTypes * contexts), Identity(Len(symbols)))

\* Without context modelling the map is made as if there were one context.
Spread(map, contexts) ==
    IF contexts = 64 THEN map
    ELSE <<>> \o [i \in 1 .. 64 * Len(map) |-> map[((i - 1) \div 64) + 1]]
BuildMetaBlock(lit, cmd, dist, literals, distances, commands, contexts) ==
    [lit |-> lit, cmd |-> cmd, dist |-> dist,
     litMap |-> Spread(literals.symbols, contexts), distMap |-> distances.symbols,
     litHists |-> literals.hists, cmdHists |-> commands, distHists |-> distances.hists]

=============================================================================
