------------------------------ MODULE HqEncoder ------------------------------
(***************************************************************************)
(* The encoder of qualities 10 and 11                                      *)
(* (src/src/compressor/core/hq/encoder.rs and the passes of zopfli.rs):    *)
(* quality 10 finds the matches of a position and prices it at once;       *)
(* quality 11 finds all of a block's first, then chooses commands twice,   *)
(* the second time by the prices of the first choice.                      *)
(*                                                                         *)
(* enc is the encoder, blk the block it is working on, job what its owner  *)
(* still asks of it; text and out are what went in and what came out of    *)
(* the current stream.                                                     *)
(***************************************************************************)
EXTENDS HqSearch

CONSTANTS
    Jobs,          \* what owners ask for: a plan and streams of calls
    BlockSize,     \* input_block_size()
    MaxMeta,       \* max_metablock_size()
    MaxSymbols,    \* an eighth of it: literals, and commands, of a meta-block
    MaxLenQ10, MaxLenQ11,       \* MAX_ZOPFLI_LEN_*
    StartsQ10, StartsQ11,       \* max_zopfli_candidates()
    ScanQ10, ScanQ11,           \* short_scan()
    LiteralPatterns, \* literal costs an estimate can give, repeated over a block
    InitialCache   \* ZopfliState::default()

ASSUME EncoderAssumption ==
    /\ 2 * BlockSize <= RingSize /\ BlockSize <= MaxMeta /\ MaxMeta <= RingSize
    /\ StartsQ10 <= QueueSize /\ StartsQ11 <= QueueSize

VARIABLES enc, blk, job, text, out
vars == <<enc, blk, job, text, out>>

Q11 == job.quality = 11
Fragment == job.kind = "fragment"
PrefixInUse == IF job.prefix THEN Prefix ELSE <<>>

Steps == IF Q11 THEN [maxLen |-> MaxLenQ11, starts |-> StartsQ11, scan |-> ScanQ11, alone |-> Fragment]
         ELSE [maxLen |-> MaxLenQ10, starts |-> StartsQ10, scan |-> ScanQ10, alone |-> Fragment]

\* HqEncoder::new around a window and a forest, which reset keeps.
Fresh(ring, tree) ==
    [ring |-> ring, tree |-> tree, prepared |-> FALSE, input |-> 0, done |-> 0, flushed |-> 0,
     cmds |-> <<>>, cache |-> InitialCache, saved |-> InitialCache, insert |-> 0,
     literals |-> 0, last |-> FALSE, finished |-> FALSE]

Idle == [pc |-> "idle"]

Init ==
    /\ job \in Jobs
    /\ enc = Fresh(RingNew, TreeNew)
    /\ blk = Idle /\ text = <<>> /\ out = <<>>

Calls == job.streams[1]

-----------------------------------------------------------------------------
(* The parts of encode_data before the search.                             *)

\* prepare_matcher.
Prepared(e, size, isLast) ==
    LET tree == IF e.prepared THEN e.tree
                ELSE PrepareTree(e.tree, WrapPosition(e.done) = 0 /\ isLast, size)
    IN [e EXCEPT !.tree = StitchTree(tree, e.ring, size, WrapPosition(e.done)), !.prepared = TRUE]

\* create_references, before its first pass; the cache, the literals in hand
\* and the commands are kept for the second one.
Opened(e, start, bytes, call) ==
    /\ enc' = e
    /\ blk' = [pc |-> IF Q11 THEN "find" ELSE "start", start |-> start, bytes |-> bytes,
               cache |-> e.cache, call |-> call, steps |-> Steps, prefix |-> PrefixInUse,
               pass |-> 1, at |-> 0, matches |-> <<>>,
               before |-> [cmds |-> e.cmds, insert |-> e.insert, literals |-> e.literals]]

Entered(e, bytes, call) ==
    \E p \in {Prepared(e, bytes, call = "last")} :
    \E more \in {Extension(p, PrefixInUse, bytes)} :
        Opened(Extended(p, more), WrapPosition(e.done) + Larger(more, 0), bytes - Larger(more, 0), call)

\* encode_block_with and flush_block, up to the search of the block.
Call ==
    /\ blk.pc = "idle" /\ ~enc.finished /\ Calls # <<>>
    /\ LET call == Head(Calls)
           isLast == call.op = "last"
           force == call.op \in {"flush", "prefix"}
       IN /\ job' = [job EXCEPT !.streams[1] = Tail(@)]
          /\ text' = text \o call.bytes
          /\ \E e \in {CopyInput(enc, call.bytes)} :
               CASE e.input = e.done /\ ~IsAllocated(e.ring) ->
                      /\ enc' = [e EXCEPT !.finished = isLast]
                      /\ out' = IF isLast THEN Append(out, [kind |-> "empty"]) ELSE out
                      /\ blk' = blk
                 [] e.input = e.done /\ IsAllocated(e.ring) /\ ~isLast /\ ~force ->
                      enc' = e /\ UNCHANGED <<blk, out>>
                 [] OTHER ->
                      out' = out /\ Entered([e EXCEPT !.last = isLast], e.input - e.done, call.op)

-----------------------------------------------------------------------------
(* Finding.                                                                *)

Query(at) ==
    LET reach == MaxReach(blk, at)
    IN [cur |-> blk.start + at, max |-> blk.bytes - at, back |-> reach, collect |-> TRUE,
        scan |-> blk.steps.scan, furthest |-> MaxDistance, least |-> 3,
        dict |-> IF Fragment THEN Never ELSE reach + Len(blk.prefix)]

OnlyLongest(matches) ==
    IF matches # <<>> /\ Last(matches).len > blk.steps.maxLen THEN <<Last(matches)>> ELSE matches

Merged(found, q) ==
    [t |-> found.t,
     matches |-> OnlyLongest(MergePrefix(IF blk.prefix = <<>> THEN <<>>
                                         ELSE FindAllInPrefix(enc.ring, q), found.found))]
FoundAt(at) == Merged(FindAllMatches(enc.tree, enc.ring, Query(at)), Query(at))

\* Positions of the block from here on have fewer bytes than a store needs.
StoreEnd == IF blk.bytes >= MaxComp THEN blk.start + blk.bytes - MaxComp + 1 ELSE blk.start

\* What a very long copy settles still goes into the tree.
SkippedStores(t, at, skip) ==
    IF skip <= 1 THEN t
    ELSE TreeStoreRange(t, enc.ring, blk.start + at + 1, Smaller(blk.start + at + skip, StoreEnd))

Remaining(at) == at + KeyBytes - 1 < blk.bytes

\* One turn of create_hq_zopfli_backward_references' first loop.
FindMatches ==
    /\ blk.pc = "find" /\ Remaining(blk.at)
    /\ \E f \in {FoundAt(blk.at)} :
       \E skip \in {IF f.matches # <<>> /\ Last(f.matches).len > blk.steps.maxLen
                    THEN Last(f.matches).len ELSE 1} :
         /\ enc' = [enc EXCEPT !.tree = SkippedStores(f.t, blk.at, skip)]
         /\ blk' = [blk EXCEPT !.at = @ + skip,
                               !.matches = @ \o <<f.matches>> \o [i \in 1 .. skip - 1 |-> <<>>]]
    /\ UNCHANGED <<job, text, out>>

-----------------------------------------------------------------------------
(* Choosing.                                                               *)

\* The state in which a pass begins: prices for the block and a first node.
Pass(price) ==
    [pc |-> "price", at |-> 0, pass |-> IF blk.pc = "start" \/ blk.pc = "find" THEN 1 ELSE 2,
     price |-> price, nodes |-> Nodes(blk.bytes), queue |-> <<>>, result |-> 0] @@ blk

StartPricing ==
    /\ blk.pc = "start" \/ (blk.pc = "find" /\ ~Remaining(blk.at))
    /\ \E pattern \in LiteralPatterns :
         blk' = Pass(FromLiteralCosts([i \in 1 .. blk.bytes |-> pattern[(i % Len(pattern)) + 1]],
                                      blk.bytes))
    /\ UNCHANGED <<enc, job, text, out>>

State == [nodes |-> blk.nodes, queue |-> blk.queue, result |-> blk.result]

\* The part of a turn both passes share, after the matches are known.
PricedWith(t, matches, s) ==
    LET skip == Skip(blk, s, matches)
    IN \E after \in {IF skip > 1 THEN Skipped(blk, s, blk.at, skip) ELSE s} :
        /\ blk' = after @@ [at |-> blk.at + Larger(skip, 1)] @@ blk
        /\ enc' = [enc EXCEPT !.tree = IF Q11 THEN t ELSE SkippedStores(t, blk.at, skip)]

\* One turn of zopfli_iterate, or of zopfli_compute_shortest_path.
PricePosition ==
    /\ blk.pc = "price" /\ Remaining(blk.at)
    /\ \E f \in {IF Q11 THEN [t |-> enc.tree, matches |-> blk.matches[blk.at + 1]]
                 ELSE FoundAt(blk.at)} :
       \E s \in {UpdateNodes(blk, enc.ring, blk.at, State, f.matches)} : PricedWith(f.t, f.matches, s)
    /\ UNCHANGED <<job, text, out>>

\* The state before the block, for the second pass.
Restored ==
    [enc EXCEPT !.cmds = blk.before.cmds, !.insert = blk.before.insert,
                !.literals = blk.before.literals, !.cache = blk.cache]

Chosen(e) == CreateCommands(blk, e, PathTo(blk.nodes, LastReached(blk.nodes) - 1))

\* The path becomes commands; quality 11 then prices them and starts over.
TracePath ==
    /\ blk.pc = "price" /\ ~Remaining(blk.at)
    /\ \E e \in {Chosen(Restored)} :
         IF Q11 /\ blk.pass = 1
         THEN /\ enc' = enc
              /\ blk' = Pass(FromCommands(enc, blk.start,
                                SubSeq(e.cmds, Len(blk.before.cmds) + 1, Len(e.cmds)),
                                blk.before.insert, blk.bytes))
         ELSE enc' = e /\ blk' = [pc |-> "end", call |-> blk.call]
    /\ UNCHANGED <<job, text, out>>

-----------------------------------------------------------------------------
(* The end of a block.                                                     *)

IsLast == blk.call = "last"

\* Whether the block's commands wait for more.
Waits(e) ==
    /\ blk.call = "block"
    /\ e.input - e.flushed + BlockSize <= MaxMeta
    /\ e.literals < MaxSymbols /\ Len(e.cmds) < MaxSymbols

Flushed(e) ==
    [e EXCEPT !.flushed = e.input, !.cmds = <<>>, !.literals = 0,
              !.saved = e.cache, !.finished = IsLast]

\* write_meta_block: the block, and the encoder behind it.
WriteMetaBlock(e, coded) ==
    [block |-> MetaBlock(e, coded), e |-> IF e.input = e.flushed THEN e ELSE Forgotten(e, coded)]

\* should_compress, and the comparison with the bytes as they are: both
\* outcomes, but for two bytes.
MayBeCoded(e) == IF e.input - e.flushed <= 2 THEN {FALSE} ELSE BOOLEAN

\* What a fragment's owner keeps of its first call: the bytes it writes itself.
Kept(block) == IF blk.call = "prefix" THEN <<>> ELSE <<block>>

\* encode_data from the search on.
EndBlock ==
    /\ blk.pc = "end"
    /\ blk' = Idle
    /\ IF Waits(enc) THEN enc' = Processed(enc) /\ out' = out
       ELSE \E e \in {Closed(enc)} :
            IF ~IsLast /\ e.input = e.flushed THEN enc' = e /\ out' = out
            ELSE \E coded \in MayBeCoded(e) : \E w \in {WriteMetaBlock(e, coded)} :
                 /\ enc' = Flushed(Processed(w.e))
                 /\ out' = out \o Kept(w.block)
    /\ UNCHANGED <<job, text>>

\* reset: the window and the forest stay as they are.
NextStream ==
    /\ blk.pc = "idle" /\ Len(job.streams) > 1
    /\ enc.finished \/ (Fragment /\ Calls = <<>>)
    /\ enc' = Fresh(RingReset(enc.ring), enc.tree)
    /\ job' = [job EXCEPT !.streams = Tail(@)]
    /\ text' = <<>> /\ out' = <<>>
    /\ UNCHANGED blk

Next == Call \/ FindMatches \/ StartPricing \/ PricePosition \/ TracePath \/ EndBlock \/ NextStream

Spec == Init /\ [][Next]_vars

-----------------------------------------------------------------------------
(* Properties.                                                             *)

Numbered(s) == [i \in 1 .. Len(s) |-> CHOOSE n \in 1 .. Len(Chars) : Dict!At(Chars, n) = Dict!At(s, i)]
WordBytes(id, code) == Numbered(Dict!Meaning(id, code))

D == INSTANCE CommandDecoder WITH StaticWord <- WordBytes

\* A fragment's text goes on behind text, and distances, it knows nothing of.
Before == IF Fragment THEN <<1, 1, 1>> ELSE <<>>
Start == D!NewDecoder(Before \o (IF Fragment THEN SubSeq(text, 1, Smaller(2, Len(text))) ELSE <<>>),
                      IF Fragment THEN <<1, 1, 1, 1>> ELSE InitialCache)

\* What is still to be written, as the meta-block it would become.
Pending == IF enc.input = enc.flushed THEN <<>> ELSE <<MetaBlock(Closed(enc), TRUE)>>
Meant == D!Decode(Start, out \o Pending, PrefixInUse)

\* Between two calls of encode_block and flush_block, the meta-blocks written
\* and the commands still held mean exactly the bytes given, and the distances
\* the encoder remembers, now and when it last wrote, are those a decoder does:
\* whatever the prices, the path, the raw fallback, an extended command, a
\* wrapped window or an encoder used before.
HqCommandsDecode ==
    blk.pc = "idle" /\ enc.done = enc.input =>
        /\ Meant.text = Before \o text
        /\ ~Fragment => enc.cache = Meant.cache
                        /\ enc.saved = D!Decode(Start, out, PrefixInUse).cache

\* A command at p behind its literals: what a decoder adds to its distances, and
\* what the command costs, read off the command itself.
Obeyed(s, node) ==
    LET c == NodeCommand(node, node.ins)
        implicit == c.prefix < 128
        d == D!DistanceOf([cache |-> s.cache], IF implicit THEN [sym |-> 0] ELSE c.dist)
        word == d > MaxReach(blk, s.at + node.ins) + Len(blk.prefix)
    IN [at |-> s.at + node.ins + node.len, same |-> s.same /\ d = node.dist,
        cache |-> IF word \/ c.dist.sym = 0 THEN s.cache
                  ELSE <<d, s.cache[1], s.cache[2], s.cache[3]>>,
        cost |-> s.cost + LiteralCosts(blk.price, s.at, s.at + node.ins) + ExtraBits(c).n
                   + CommandCost(blk.price, c.prefix)
                   + (IF implicit THEN 0 ELSE c.dist.nbits + DistanceCost(blk.price, c.dist.sym))]
PathMeans(p) ==
    FoldLeft(Obeyed, [at |-> 0, same |-> TRUE, cache |-> blk.cache, cost |-> 0], PathTo(blk.nodes, p))

Reached(p) == p = 0 \/ blk.nodes[p + 1].ins # 0 \/ blk.nodes[p + 1].len # 1
DiffOf(p) == PathMeans(p).cost - LiteralCosts(blk.price, 0, p)

\* The positions passed from which commands may start, by what they cost.
Passed == 0 .. Smaller(blk.at, Larger(blk.bytes - KeyBytes + 1, 0)) - 1
Worthy(diff) == {p \in Passed : Reached(p) /\ diff[p] <= 0}
Cheaper(diff, q, p) == diff[q] < diff[p] \/ (diff[q] = diff[p] /\ q > p)
Rank(diff, p) == 1 + Cardinality({q \in Worthy(diff) : Cheaper(diff, q, p)})

\* While a block is priced, every start in the queue carries the cost and the
\* four distances that a decoder obeying the commands on its path would have
\* (evaluate_node and compute_distance_cache never walk that path: they follow
\* shortcuts kept where costs stood), and all of the queue but its last entry
\* are the cheapest of all positions passed.
StartsFollowTheirPaths ==
    blk.pc = "price" =>
        /\ \A i \in DOMAIN blk.queue :
             \E m \in {PathMeans(blk.queue[i].pos)} :
                m.same /\ m.cost = blk.queue[i].cost /\ m.cache = blk.queue[i].cache
        /\ \E diff \in {[p \in Passed |-> IF Reached(p) THEN DiffOf(p) ELSE Infinity]} :
             \A p \in Worthy(diff) :
                \E i \in {Rank(diff, p)} :
                    i < QueueSize => i \in DOMAIN blk.queue /\ blk.queue[i].pos = p

Searching == blk.pc = "find" \/ (blk.pc = "price" /\ ~Q11)
Here == blk.start + blk.at

\* The positions a walk from p could come to, p's own children first.
Alive(p) == BackFrom(Here, p) \in 1 .. Window - WindowGap
Lower(p, c) == Alive(c) /\ c < p
RECURSIVE Under(_)
Under(p) ==
    {p} \cup UNION {Under(c) : c \in {d \in {Link(enc.tree.links, LeftOf(p)),
                                              Link(enc.tree.links, RightOf(p))} : Lower(p, d)}}
Below(p, i) == LET c == Link(enc.tree.links, i) IN IF Alive(c) THEN Under(c) ELSE {}

Agreeing(p, q, max) ==
    CHOOSE n \in 0 .. max :
        /\ \A j \in 0 .. n - 1 : Byte(enc.ring, Mask(p) + j) = Byte(enc.ring, Mask(q) + j)
        /\ n = max \/ Byte(enc.ring, Mask(p) + n) # Byte(enc.ring, Mask(q) + n)
SortsBefore(p, q) ==
    \E n \in {Agreeing(p, q, MaxComp)} :
        n < MaxComp /\ Byte(enc.ring, Mask(p) + n) < Byte(enc.ring, Mask(q) + n)

\* Before each search every tree is what its walks take it for: below a position
\* there are only older ones with the same hash, on the left those that sort
\* before it and on the right those that sort behind it, however often the
\* forest was cut at its depth, thinned out, stitched to a block or kept
\* uncleared for the next stream.
TreeIsOrdered ==
    Searching =>
        \A key \in DOMAIN enc.tree.buckets :
            \E nodes \in {IF Alive(Root(enc.tree, key)) THEN Under(Root(enc.tree, key)) ELSE {}} :
                \A p \in nodes :
                    /\ KeyOf(enc.ring, Mask(p)) = key
                    /\ \A c \in Below(p, LeftOf(p)) : c < p /\ SortsBefore(c, p)
                    /\ \A c \in Below(p, RightOf(p)) : c < p /\ SortsBefore(p, c)

\* The bytes a match says come next.
Says(m) ==
    LET reach == MaxReach(blk, blk.at)
        back == reach + Len(blk.prefix) - m.dist
    IN CASE m.dist <= reach -> [j \in 1 .. m.len |-> Byte(enc.ring, Mask(Here - m.dist) + j - 1)]
         [] m.dist > reach /\ back >= 0 -> SubSeq(blk.prefix, back + 1, back + m.len)
         [] OTHER -> WordBytes(-back - 1, m.code)

\* No walk can be longer than all there is to come to.
Small(key) == ~Alive(Root(enc.tree, key)) \/ Cardinality(Under(Root(enc.tree, key))) <= SearchDepth
Stored(key) == IF Alive(Root(enc.tree, key)) THEN Under(Root(enc.tree, key)) ELSE {}

\* What a search finds: every match spells the bytes that come next, as a
\* decoder would copy them out of the window, the prefix or the static
\* dictionary with its transforms; they come by length; and no position in a
\* small tree, within reach, agrees with more of the next bytes than the last,
\* one byte not being a match.
MatchesMean ==
    Searching /\ Remaining(blk.at) =>
        \E matches \in {FoundAt(blk.at).matches} :
            /\ \A m \in {matches[i] : i \in DOMAIN matches} :
                 m.len <= blk.bytes - blk.at /\ Says(m) = FromRing(enc, Here, m.len)
            /\ \A i \in 2 .. Len(matches) : matches[i - 1].len <= matches[i].len
            /\ \E key \in {KeyOf(enc.ring, Mask(Here))} :
                 Small(key) =>
                    \A p \in {p \in Stored(key) : Here - p <= MaxReach(blk, blk.at)} :
                        \E n \in {Agreeing(p, Here, Smaller(MaxComp, blk.bytes - blk.at))} :
                            n > 1 => matches # <<>> /\ Last(matches).len >= n

\* The tree is in order, and a search in it finds what is there.
SearchFindsWhatIsThere == TreeIsOrdered /\ MatchesMean
=============================================================================
