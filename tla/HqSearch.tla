------------------------------- MODULE HqSearch -------------------------------
(***************************************************************************)
(* The match finder of qualities 10 and 11                                 *)
(* (src/src/compressor/core/hq/h10.rs): per hash key a binary tree of      *)
(* positions, sorted by the bytes at them, newest at the root.             *)
(*                                                                         *)
(* A tree is a record: buckets maps a key to its root, links holds two     *)
(* children per position of the window.  A match is a record of distance,  *)
(* length and the length it is coded with.  Bytes are numbers of           *)
(* characters of Chars, in which the static dictionary is spelled.         *)
(***************************************************************************)
EXTENDS EncoderRing, EncoderBlock

CONSTANTS
    Window,           \* 1 << lgwin
    WindowGap,        \* WINDOW_GAP
    TreeKeys,         \* number of hash keys
    MaxComp,          \* MAX_TREE_COMP_LENGTH
    SearchDepth,      \* MAX_TREE_SEARCH_DEPTH
    DenseTail, SparseThreshold, SparseStride,
    MaxDistance,      \* the furthest distance the alphabet codes
    LongestWord,      \* MAX_STATIC_DICTIONARY_MATCH_LEN
    Chars, WordItems, WordCountBits

Never == 1000000   \* further back than any position
KeyBytes == 4      \* HASH_TYPE_LENGTH
Larger(a, b) == IF a > b THEN a ELSE b

ASSUME TreeAssumption ==
    /\ Window \in Nat /\ Window > 0 /\ WindowGap \in 1 .. Window /\ 2 * Window <= RingSize
    /\ KeyBytes <= MaxComp /\ SearchDepth > 0 /\ SparseStride > 0

Dict == INSTANCE DictionaryMatches

\* invalid_pos.
Invalid == Never
BackFrom(cur, prev) == IF prev > cur THEN Never ELSE cur - prev

TreeNew == [buckets |-> [k \in {} |-> Invalid], links |-> <<>>]

\* hash: the key of the bytes at a window index, zero where they are cut off.
KeyOf(r, i) ==
    IF ~Present(r, i, KeyBytes) THEN 0
    ELSE (Byte(r, i) + 3 * Byte(r, i + 1) + 5 * Byte(r, i + 2) + 7 * Byte(r, i + 3)) % TreeKeys

Root(t, key) == IF key \in DOMAIN t.buckets THEN t.buckets[key] ELSE Invalid

\* left, right, link and set_link; the forest starts at index zero.
LeftOf(p) == 2 * (p % Window)
RightOf(p) == 2 * (p % Window) + 1
Link(links, i) == IF i + 1 \in DOMAIN links THEN links[i + 1] ELSE Invalid
SetLink(links, i, p) == IF i + 1 \in DOMAIN links THEN [links EXCEPT ![i + 1] = p] ELSE links

\* prepare: every bucket is emptied; a forest large enough stays as it is.
PrepareTree(t, oneShot, size) ==
    LET nodes == IF oneShot THEN Smaller(size, Window) ELSE Window
    IN [buckets |-> TreeNew.buckets,
        links |-> IF Len(t.links) < 2 * nodes THEN [i \in 1 .. 2 * nodes |-> 0] ELSE t.links]

-----------------------------------------------------------------------------
(* The walk down a tree.  A query holds cur, max (bytes to compare), back  *)
(* (how far a copy may reach) and collect.  A walk holds the links, the    *)
(* node it is at, where the new root's two subtrees go on, how far both    *)
(* agree with the position, and the matches so far.                        *)

\* Mutant: a position is made a root though its order is not known yet.
RerootsAlways(q) == TRUE

\* should_reroot_tree.
Reroots(q) == q.max >= MaxComp

Ended(w, q, left, right) ==
    IF Reroots(q)
    THEN [w EXCEPT !.links = SetLink(SetLink(@, w.left, left), w.right, right)] ELSE w

\* A child that sorts before the position goes to the left subtree, and the
\* walk on to what sorts after it.
GoLeft(w, q, len) ==
    LET links == IF Reroots(q) THEN SetLink(w.links, w.left, w.prev) ELSE w.links
    IN [w EXCEPT !.links = links, !.bestLeft = len, !.left = RightOf(w.prev),
                 !.prev = Link(links, RightOf(w.prev))]
GoRight(w, q, len) ==
    LET links == IF Reroots(q) THEN SetLink(w.links, w.right, w.prev) ELSE w.links
    IN [w EXCEPT !.links = links, !.bestRight = len, !.right = LeftOf(w.prev),
                 !.prev = Link(links, LeftOf(w.prev))]

Known(w) == Smaller(w.bestLeft, w.bestRight)
Measured(w, r, q) ==
    Known(w) + MatchLenAt(r, Mask(w.prev) + Known(w), Mask(q.cur) + Known(w), q.max - Known(w))

Collected(w, q, len) ==
    IF q.collect /\ len > w.best
    THEN [w EXCEPT !.best = len,
                   !.found = Append(@, [dist |-> q.cur - w.prev, len |-> len, code |-> len])]
    ELSE w

RECURSIVE Descend(_, _, _, _)

\* One node, of which len bytes agree.
Visit(w, r, q, len, depth) ==
    CASE len >= Smaller(q.max, MaxComp) ->
           Ended(w, q, Link(w.links, LeftOf(w.prev)), Link(w.links, RightOf(w.prev)))
      [] len < Smaller(q.max, MaxComp) /\ Byte(r, Mask(q.cur) + len) > Byte(r, Mask(w.prev) + len) ->
           Descend(GoLeft(w, q, len), r, q, depth - 1)
      [] OTHER -> Descend(GoRight(w, q, len), r, q, depth - 1)

Measure(w, r, q, len, depth) == Visit(Collected(w, q, len), r, q, len, depth)

Descend(w, r, q, depth) ==
    IF BackFrom(q.cur, w.prev) = 0 \/ BackFrom(q.cur, w.prev) > q.back \/ depth = 0
    THEN Ended(w, q, Invalid, Invalid)
    ELSE Measure(w, r, q, Measured(w, r, q), depth)

Rooted(t, q, key) ==
    IF Reroots(q) THEN [x \in DOMAIN t.buckets \cup {key} |-> IF x = key THEN q.cur ELSE t.buckets[x]]
    ELSE t.buckets

Walk(t, r, q, best) ==
    Descend([links |-> t.links, prev |-> Root(t, KeyOf(r, Mask(q.cur))),
             left |-> LeftOf(q.cur), right |-> RightOf(q.cur), bestLeft |-> 0, bestRight |-> 0,
             best |-> best, found |-> <<>>], r, q, SearchDepth)

\* store_and_find_matches.
StoreAndFind(t, r, q, best) ==
    LET w == Walk(t, r, q, best)
    IN [t |-> [buckets |-> Rooted(t, q, KeyOf(r, Mask(q.cur))), links |-> w.links],
        best |-> w.best, found |-> w.found]

StoreBack(t, r, p, back) ==
    StoreAndFind(t, r, [cur |-> p, max |-> MaxComp, back |-> back, collect |-> FALSE], 0).t

TreeStore(t, r, p) == StoreBack(t, r, p, Window - WindowGap)

TreeStoreAll(t, r, positions) == FoldLeft(LAMBDA u, p : TreeStore(u, r, p), t, positions)

\* store_range: a long range is thinned out up to its dense tail.
TreeStoreRange(t, r, from, end) ==
    LET dense == IF from + DenseTail <= end THEN end - DenseTail ELSE from
        sparse == IF from + SparseThreshold > dense THEN 0
                  ELSE (dense - from + SparseStride - 1) \div SparseStride
    IN TreeStoreAll(t, r, [k \in 1 .. sparse |-> from + (k - 1) * SparseStride]
                            \o [k \in 1 .. Larger(end - dense, 0) |-> dense + k - 1])

\* The further behind the block, the less of the window may be read: its
\* oldest bytes are overwritten already.
StitchLimit(ix, position) == Window - 1 - Larger(WindowGap - 1, position - ix)

\* stitch_to_previous_block.
StitchTree(t, r, bytes, position) ==
    IF bytes < KeyBytes - 1 \/ position < MaxComp THEN t
    ELSE LET from == position - MaxComp + 1
         IN FoldLeft(LAMBDA u, ix : StoreBack(u, r, ix, StitchLimit(ix, position)), t,
                     [k \in 1 .. Smaller(position, from + bytes) - from |-> from + k - 1])

-----------------------------------------------------------------------------
(* All matches at a position.  Such a query also holds scan (how many      *)
(* recent positions are tried), dict (the distance the static dictionary   *)
(* begins behind, Never without one).                                      *)

ScanStep(r, q, s, back) ==
    LET i == Mask(q.cur)
        p == Mask(q.cur - back)
        len == MatchLenAt(r, p, i, q.max)
    IN IF s.best > 2 \/ Byte(r, p) # Byte(r, i) \/ Byte(r, p + 1) # Byte(r, i + 1) \/ len <= s.best
       THEN s
       ELSE [best |-> len, found |-> Append(s.found, [dist |-> back, len |-> len, code |-> len])]

\* scan_recent_positions: nearest first, until three bytes agree.
ScanRecent(r, q) ==
    LET span == Smaller(Smaller(q.scan - 1, Larger(q.cur - 1, 0)), q.back)
    IN FoldLeft(LAMBDA s, b : ScanStep(r, q, s, b), [best |-> 1, found |-> <<>>],
                [b \in 1 .. span |-> b])

InTree(t, r, q, s) ==
    IF s.best >= q.max THEN [t |-> t, best |-> s.best, found |-> s.found]
    ELSE LET w == StoreAndFind(t, r, q, s.best)
         IN [w EXCEPT !.found = s.found \o @]

Spelled(r, i, n) ==
    LET text[k \in 0 .. n] == IF k = 0 THEN "" ELSE text[k - 1] \o Dict!At(Chars, Byte(r, i + k - 1))
    IN text[n]

\* The words longer than any match so far, shortest first.
WordsAt(r, q, best) ==
    LET least == Larger(best + 1, 4)
        words == {w \in Dict!FindAllWords(Spelled(r, Mask(q.cur), q.max), least, q.max) :
                    w.len \in least .. Smaller(q.max, LongestWord)
                        /\ q.dict + w.id + 1 <= q.furthest}
        lens == SelectSeq([n \in 1 .. LongestWord |-> n], LAMBDA n : \E w \in words : w.len = n)
        word(k) == CHOOSE w \in words : w.len = lens[k]
    IN IF q.dict > q.furthest THEN <<>>
       ELSE [k \in DOMAIN lens |->
               [dist |-> q.dict + word(k).id + 1, len |-> lens[k], code |-> word(k).code]]

WithWords(r, q, s) == [t |-> s.t, found |-> s.found \o WordsAt(r, q, s.best)]

FindAllMatches(t, r, q) == WithWords(r, q, InTree(t, r, q, ScanRecent(r, q)))

\* Whether a match from the prefix stands before one of the finder's.
PrefixFirst(p, m) == p.len < m.len \/ (p.len = m.len /\ p.dist < m.dist)

\* merge_prefix_matches: the last of both goes to the end, again and again.
RECURSIVE MergePrefix(_, _)
MergePrefix(prefix, tree) ==
    IF prefix = <<>> THEN tree
    ELSE IF tree # <<>> /\ PrefixFirst(Last(prefix), Last(tree))
         THEN Append(MergePrefix(prefix, Front(tree)), Last(tree))
         ELSE Append(MergePrefix(Front(prefix), tree), Last(prefix))

-----------------------------------------------------------------------------
(***************************************************************************)
(* The dynamic program that chooses the commands of qualities 10 and 11    *)
(* (src/src/compressor/core/hq/zopfli.rs) over the nodes, start queue and  *)
(* prices of nodes.rs and cost.rs next to it.                              *)
(*                                                                         *)
(* A node is the command that arrives at a position the cheapest so far;   *)
(* pay is its cost while it may still change and, once it has been         *)
(* evaluated, the position whose command gave the last distance.  Node p   *)
(* is nodes[p + 1].  Costs are whole numbers.                              *)
(*                                                                         *)
(* A block x holds start, bytes, cache (the distances it starts with),     *)
(* price, steps (quality and kind of its encoder) and prefix.              *)
(***************************************************************************)

CONSTANTS
    QueueSize,   \* START_POS_QUEUE_SIZE
    QuickStep,   \* LONG_COPY_QUICK_STEP
    CmdSymbols,  \* NUM_COMMAND_SYMBOLS
    DistSymbols  \* alphabet_size_limit

ASSUME SearchAssumption == QueueSize > 1 /\ QuickStep > 0

Infinity == Never

-----------------------------------------------------------------------------
(* Nodes and the queue of starts.                                          *)

Stub == [len |-> 1, code |-> 10, dist |-> 0, ins |-> 0, short |-> 0, pay |-> Infinity]
Nodes(bytes) ==
    [i \in 1 .. bytes + 1 |-> IF i = 1 THEN [Stub EXCEPT !.len = 0, !.pay = 0] ELSE Stub]

DistanceCodeOf(node) == IF node.short = 0 THEN node.dist + ShortCodes - 1 ELSE node.short - 1

\* push: before its equals among the kept; a full queue loses its dearest.
QueuePush(queue, p) ==
    LET kept == SubSeq(queue, 1, Smaller(Len(queue), QueueSize - 1))
        k == Cardinality({i \in DOMAIN kept : kept[i].diff < p.diff})
    IN SubSeq(kept, 1, k) \o <<p>> \o SubSeq(kept, k + 1, Len(kept))

-----------------------------------------------------------------------------
(* Prices.  lits sums the literals up; cmd and dist price the symbols that *)
(* occurred, none has the rest.                                            *)

LogCost(n) == IF n = 0 THEN 0 ELSE Log2(n)

\* set_cost over the symbols seen, out of size of them; for other alphabets
\* than the literals' an unseen symbol is dearer the more there are of it.
SetCost(counts, size) ==
    LET sum == FoldFunction(LAMBDA a, b : a + b, 0, counts)
        shannon(n) == LogCost(sum) - LogCost(n)
    IN [seen |-> [s \in DOMAIN counts |-> IF shannon(counts[s]) < 1 THEN 1 ELSE shannon(counts[s])],
        none |-> LogCost(sum + size) + 2]

Priced(costs, s) == IF s \in DOMAIN costs.seen THEN costs.seen[s] ELSE costs.none

CommandCost(price, sym) == IF price.prior THEN Log2(11 + sym) ELSE Priced(price.cmd, sym)
DistanceCost(price, sym) == IF price.prior THEN Log2(20 + sym) ELSE Priced(price.dist, sym)
LiteralCosts(price, from, to) == price.lits[to + 1] - price.lits[from + 1]
MinCommandCost(price) ==
    IF price.prior THEN Log2(11)
    ELSE CHOOSE c \in {price.cmd.none} \cup {price.cmd.seen[s] : s \in DOMAIN price.cmd.seen} :
            \A s \in DOMAIN price.cmd.seen : c <= price.cmd.seen[s] /\ c <= price.cmd.none

\* accumulate_literal_costs.
Accumulated(cost, bytes) ==
    LET sum[i \in 0 .. bytes] == IF i = 0 THEN 0 ELSE sum[i - 1] + cost[i]
    IN [i \in 1 .. bytes + 1 |-> sum[i - 1]]

\* set_from_literal_costs.
FromLiteralCosts(cost, bytes) ==
    [prior |-> TRUE, lits |-> Accumulated(cost, bytes), cmd |-> <<>>, dist |-> <<>>]

Count(s) == [v \in {s[i] : i \in DOMAIN s} |-> Cardinality({i \in DOMAIN s : s[i] = v})]

\* set_from_commands: the literals from where the first command's began.
FromCommands(e, start, cmds, insert, bytes) ==
    LET symbols == Count([i \in DOMAIN cmds |-> cmds[i].prefix])
        withDist == SelectSeq(cmds, LAMBDA c : c.prefix >= 128)
        dists == Count([i \in DOMAIN withDist |-> withDist[i].dist.sym])
        lits == SetCost(Count(LiteralsOf(e, cmds, start - insert)), 0)
    IN [prior |-> FALSE,
        cmd |-> SetCost(symbols, CmdSymbols - Cardinality(DOMAIN symbols)),
        dist |-> SetCost(dists, DistSymbols - Cardinality(DOMAIN dists)),
        lits |-> Accumulated([i \in 1 .. bytes |-> Priced(lits, Byte(e.ring, Mask(start + i - 1)))],
                             bytes)]

-----------------------------------------------------------------------------
(* Evaluating a position.                                                  *)

MaxReach(x, at) == Smaller(x.start + at, MaxBackward)

\* compute_distance_shortcut: past commands that leave the distances alone.
DistanceShortcut(x, nodes, at) ==
    LET node == nodes[at + 1]
    IN IF at = 0 THEN 0
       ELSE IF /\ node.dist + node.len <= x.start + at + Len(x.prefix)
               /\ node.dist <= MaxBackward + Len(x.prefix)
               /\ DistanceCodeOf(node) > 0
       THEN at
       ELSE nodes[at - node.len - node.ins + 1].pay

RECURSIVE Chain(_, _, _)
Chain(nodes, p, n) ==
    IF n = 0 \/ p = 0 THEN <<>>
    ELSE <<nodes[p + 1].dist>> \o Chain(nodes, nodes[p - nodes[p + 1].len - nodes[p + 1].ins + 1].pay, n - 1)

\* Mutant: what the chain leaves open is taken from the same slot.
ParallelFallback(chain, cache) == chain \o SubSeq(cache, Len(chain) + 1, 4)

\* What the chain leaves open is taken from the block's first distances, in order.
Fallback(chain, cache) == chain \o SubSeq(cache, 1, 4 - Len(chain))

\* compute_distance_cache.
DistanceCache(x, nodes, at) == Fallback(Chain(nodes, nodes[at + 1].pay, 4), x.cache)

\* evaluate_node: the shortcut takes the cost's place.
Evaluated(x, s, at) ==
    LET cost == s.nodes[at + 1].pay
        nodes == [s.nodes EXCEPT ![at + 1].pay = DistanceShortcut(x, s.nodes, at)]
        alone == LiteralCosts(x.price, 0, at)
    IN [s EXCEPT !.nodes = nodes,
                 !.queue = IF cost > alone THEN @
                           ELSE QueuePush(@, [pos |-> at, cost |-> cost, diff |-> cost - alone,
                                              cache |-> DistanceCache(x, nodes, at)])]

EvaluatedAll(x, s, from, to) ==
    FoldLeft(LAMBDA u, at : Evaluated(x, u, at), s, [i \in 1 .. Larger(to - from + 1, 0) |-> from + i - 1])

\* compute_minimum_copy_length: with every length bucket a copy costs one more.
LengthBuckets == {10, 14, 22, 38, 70, 134}
RECURSIVE MinCopyLength(_, _, _, _, _)
MinCopyLength(nodes, bytes, at, len, cost) ==
    IF at + len > bytes \/ nodes[at + len + 1].pay > cost THEN len
    ELSE MinCopyLength(nodes, bytes, at, len + 1, cost + (IF len + 1 \in LengthBuckets THEN 1 ELSE 0))

-----------------------------------------------------------------------------
(* update_nodes: the copies that can start at a position.  s holds the     *)
(* nodes, the queue and result, the longest copy that improved a node.     *)

\* One start of the queue and the copies behind the literals from there.
Base(x, at, p) ==
    [pos |-> p.pos, cache |-> p.cache, ins |-> InsertLengthCode(at - p.pos),
     cost |-> p.diff + InsExtra[InsertLengthCode(at - p.pos) + 1] + LiteralCosts(x.price, 0, at)]

CopyCost(x, b, len, useLast) ==
    CopyExtra[CopyLengthCode(len) + 1]
        + CommandCost(x.price, CombineLengthCodes(b.ins, CopyLengthCode(len), useLast))

\* The nodes a family of copies makes cheaper.
Improved(s, at, lens, NodeFor(_)) ==
    LET better == {l \in lens : NodeFor(l).pay < s.nodes[at + l + 1].pay}
    IN IF better = {} THEN s
       ELSE [s EXCEPT !.nodes = <<>> \o [i \in DOMAIN @ |->
                            IF i - at - 1 \in better THEN NodeFor(i - at - 1) ELSE @[i]],
                      !.result = Larger(@, CHOOSE l \in better : \A m \in better : m <= l)]

ProbeSlot == <<1, 2, 3, 4, 1, 1, 1, 1, 1, 1, 2, 2, 2, 2, 2, 2>>
ProbeOffset == <<0, 0, 0, 0, -1, 1, -2, 2, -3, 3, -1, 1, -2, 2, -3, 3>>

\* prefix_copy_length: out of the segment the distance falls into, or nothing.
PrefixCopyLength(x, r, at, d, best) ==
    LET logical == MaxReach(x, at) + Len(x.prefix) - d
        n == CHOOSE k \in DOMAIN Segments :
                logical \in SegmentStart(k) .. SegmentStart(k) + Len(Segments[k]) - 1
        from == logical - SegmentStart(n)
        i == Mask(x.start + at)
    IN IF d <= MaxReach(x, at) \/ logical < 0 THEN 0
       ELSE IF best >= Smaller(Len(Segments[n]) - from, x.bytes - at)
               \/ Segments[n][from + best + 1] # Byte(r, i + best) THEN 0
       ELSE SegmentMatch(r, i, Segments[n], from, x.bytes - at)

\* How far a remembered distance leads, when it can be further than best.
ProbeLength(x, r, at, d, best) ==
    LET i == Mask(x.start + at)
        p == Mask(x.start + at - d)
    IN IF d \in 1 .. MaxReach(x, at)
       THEN IF p + best < WindowLen(r) /\ Byte(r, p + best) = Byte(r, i + best)
            THEN MatchLenAt(r, p, i, x.bytes - at) ELSE 0
       ELSE IF x.prefix = <<>> THEN 0 ELSE PrefixCopyLength(x, r, at, d, best)

ProbeNode(x, at, b, code, d, len) ==
    [len |-> len, code |-> len, dist |-> d, ins |-> at - b.pos, short |-> code + 1,
     pay |-> b.cost + (IF code = 0 /\ b.ins < 8 /\ CopyLengthCode(len) < 16 THEN 0
                       ELSE DistanceCost(x.price, code))
               + CopyCost(x, b, len, code = 0)]

Probed(x, at, b, t, code, d, len) ==
    IF len <= t.best THEN t
    ELSE [best |-> len,
          s |-> Improved(t.s, at, t.best + 1 .. len, LAMBDA l : ProbeNode(x, at, b, code, d, l))]

\* The sixteen short codes in turn, each for what the ones before left out.
Probe(x, r, at, b, t, code) ==
    LET d == b.cache[ProbeSlot[code + 1]] + ProbeOffset[code + 1]
    IN IF x.steps.alone \/ t.best >= x.bytes - at \/ Mask(x.start + at) + t.best >= WindowLen(r)
       THEN t
       ELSE Probed(x, at, b, t, code, d, ProbeLength(x, r, at, d, t.best))

ProbeAll(x, r, at, b, s, least) ==
    FoldLeft(LAMBDA t, i : Probe(x, r, at, b, t, i - 1), [best |-> least - 1, s |-> s],
             [i \in 1 .. ShortCodes |-> i]).s

MatchNode(x, at, b, m, full, len) ==
    LET sym == PrefixEncodeCopyDistance(m.dist + ShortCodes - 1, Direct, Postfix)
        code == IF full THEN m.code ELSE len
    IN [len |-> len, code |-> code, dist |-> m.dist, ins |-> at - b.pos, short |-> 0,
        pay |-> b.cost + sym.nbits + DistanceCost(x.price, sym.sym) + CopyCost(x, b, code, FALSE)]

\* A word has one length only, and of a very long copy only that is tried.
Match(x, at, b, t, m) ==
    LET word == m.dist > MaxReach(x, at) + Len(x.prefix)
        from == IF t.len < m.len /\ (word \/ m.len > x.steps.maxLen) THEN m.len ELSE t.len
    IN IF from > m.len THEN [t EXCEPT !.len = from]
       ELSE [len |-> m.len + 1,
             s |-> Improved(t.s, at, from .. m.len, LAMBDA l : MatchNode(x, at, b, m, word, l))]

MatchAll(x, at, b, s, least, matches) ==
    FoldLeft(LAMBDA t, m : Match(x, at, b, t, m), [len |-> least, s |-> s], matches).s

\* The k-th start; from the third on only remembered distances are tried.
FromStart(x, r, at, s, least, matches, k) ==
    LET probed == ProbeAll(x, r, at, Base(x, at, s.queue[k]), s, least)
    IN IF k > 2 THEN probed
       ELSE MatchAll(x, at, Base(x, at, s.queue[k]), probed, least, matches)

Least(x, s, at) ==
    MinCopyLength(s.nodes, x.bytes, at, 2,
        s.queue[1].cost + MinCommandCost(x.price) + LiteralCosts(x.price, s.queue[1].pos, at))

FromStarts(x, r, at, s, least, matches) ==
    FoldLeft(LAMBDA t, k : FromStart(x, r, at, t, least, matches, k), s,
             [k \in 1 .. Smaller(x.steps.starts, Len(s.queue)) |-> k])

UpdateEvaluated(x, r, at, s, matches) == FromStarts(x, r, at, s, Least(x, s, at), matches)
UpdateNodes(x, r, at, s, matches) ==
    UpdateEvaluated(x, r, at, Evaluated(x, [s EXCEPT !.result = 0], at), matches)

\* How many positions a very long copy settles.
Skip(x, s, matches) ==
    LET quick == IF s.result < QuickStep THEN 0 ELSE s.result
    IN IF Len(matches) = 1 /\ matches[1].len > x.steps.maxLen
       THEN Larger(quick, matches[1].len) ELSE quick

\* The positions settled are evaluated and left out, as far as any is searched.
Skipped(x, s, at, skip) == EvaluatedAll(x, s, at + 1, Smaller(at + skip - 1, x.bytes - KeyBytes))

-----------------------------------------------------------------------------
(* The chosen path.                                                        *)

\* Literals at the end belong to no command.
LastReached(nodes) ==
    CHOOSE i \in DOMAIN nodes :
        /\ i = 1 \/ nodes[i].ins # 0 \/ nodes[i].len # 1
        /\ \A j \in i + 1 .. Len(nodes) : nodes[j].ins = 0 /\ nodes[j].len = 1

\* compute_shortest_path_from_nodes.
RECURSIVE PathTo(_, _)
PathTo(nodes, at) ==
    IF at = 0 THEN <<>>
    ELSE PathTo(nodes, at - nodes[at + 1].len - nodes[at + 1].ins) \o <<nodes[at + 1]>>

NodeCommand(node, ins) ==
    Command(ins, node.len, node.code - node.len, DistanceCodeOf(node), Direct, Postfix)

\* create_commands; at is where the command begins.
Created(x, e, at, node, first) ==
    LET ins == node.ins + (IF first THEN e.insert ELSE 0)
        word == node.dist > MaxReach(x, at + node.ins) + Len(x.prefix)
    IN [e EXCEPT !.cmds = Append(@, NodeCommand(node, ins)), !.literals = @ + ins,
                 !.insert = IF first THEN 0 ELSE @,
                 !.cache = IF word \/ DistanceCodeOf(node) = 0 THEN @
                           ELSE <<node.dist, @[1], @[2], @[3]>>]

CreateCommands(x, e, path) ==
    LET done == FoldLeft(LAMBDA t, node :
                    [e |-> Created(x, t.e, t.at, node, t.at = 0), at |-> t.at + node.ins + node.len],
                    [e |-> e, at |-> 0], path)
    IN [done.e EXCEPT !.insert = @ + x.bytes - done.at]

=============================================================================
