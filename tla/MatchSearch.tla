----------------------------- MODULE MatchSearch -----------------------------
(***************************************************************************)
(* The position tables of the greedy match finders                         *)
(* (src/src/compressor/core/greedy/hashers.rs): what a store leaves behind *)
(* and which positions a search is shown, for the three families and every *)
(* layout a table can be in.                                               *)
(*                                                                         *)
(*   quick   one slot per key, or Sweep slots; a small input's open         *)
(*           addressing map holds the same slots as the full table;         *)
(*   bucket  the newest positions of a key, as a linked list (compact), as  *)
(*           blocks handed out on demand and stamped with a generation      *)
(*           (sparse), or as one array per key (dense);                     *)
(*   chain   linked lists of distances inside banks of slots.               *)
(*                                                                         *)
(* A finder is a record; tables are total functions of the key.            *)
(***************************************************************************)
EXTENDS EncoderRing, SequencesExt, EncoderCommand

CONSTANTS
    HashBytes,      \* bytes a key is computed from
    LongType,       \* HASH_TYPE_LENGTH of the finders that read eight bytes
    Keys,           \* number of keys
    SweepStep,      \* distance of the slots a quick search sweeps over (8)
    PartialLimit,   \* longest input whose keys are cleared one by one
    SmallInput,     \* longest input a small quick finder is built for
    CompactInput,   \* COMPACT_INPUT_LIMIT
    BlockSlots,     \* BLOCK, positions kept per key
    StarterSlots,   \* STARTER_SLOTS
    CountMod,       \* 2^16, what a bucket's count is taken modulo
    MaxGeneration,  \* MAX_GENERATION
    DenseLimit,     \* expected input from which the dense table is allocated
    OrdinaryLimit,  \* ORDINARY_DENSE_LIMIT
    PromotionSlots, \* SLOTS / PROMOTION_SLOTS_PER_STORE
    Banks,          \* NUM_BANKS
    BankSize,       \* slots of a bank
    ShortMod        \* 2^16, the range of a chain's deltas and tiny hashes

ASSUME TableAssumption ==
    /\ BlockSlots \in Nat \ {0} /\ StarterSlots \in 1 .. BlockSlots
    /\ CountMod % BlockSlots = 0 /\ CountMod % StarterSlots = 0
    /\ Banks \in 1 .. Keys /\ MaxGeneration > 0

Huge == 1000000
KeySet == 0 .. Keys - 1

\* The first position a wrapping subtraction can be compared with.
Backward(cur, prev) == IF prev <= cur THEN cur - prev ELSE Huge

\* read_u32 / read_u64 and the multiplicative hash: a number computed from the
\* hashed bytes, zero where they are not all in the buffer.
Mix(r, i, k) ==
    LET byte(j) == Byte(r, i + j) * (2 * j + k)
    IN FoldFunction(+, 0, [j \in 0 .. HashBytes - 1 |-> byte(j)])
KeyAt(r, i) == IF Present(r, i, HashBytes) THEN Mix(r, i, 1) % Keys ELSE 0
TagAt(r, i) == IF Present(r, i, HashBytes) THEN Mix(r, i, 2) % 3 ELSE 0

-----------------------------------------------------------------------------
(* The quick family.                                                       *)

NewQuick(sweep, small) ==
    [fam |-> "quick", sweep |-> sweep, small |-> small, full |-> FALSE,
     slots |-> [k \in KeySet |-> 0]]

QuickSlot(f, key, ix) ==
    (key + SweepStep * ((ix \div SweepStep) % f.sweep)) % Keys

QuickStore(f, r, ix) ==
    [f EXCEPT !.slots[QuickSlot(f, KeyAt(r, Mask(ix)), ix)] = ix]

SweptSlots(f, key) == [s \in 1 .. f.sweep |-> (key + SweepStep * (s - 1)) % Keys]

\* Mutant: only the first slot of a key is cleared.
ClearFirstSlots(f, r, size) ==
    [f EXCEPT !.slots = [k \in KeySet |->
        IF \E i \in 0 .. size - 1 : k = KeyAt(r, i) THEN 0 ELSE @[k]]]

\* Clearing the slots of every key of the input.
ClearKeys(f, r, size) ==
    [f EXCEPT !.slots = [k \in KeySet |->
        IF \E i \in 0 .. size - 1 : k \in Range(SweptSlots(f, KeyAt(r, i))) THEN 0 ELSE @[k]]]

QuickPrepare(f, oneShot, size, r, clear) ==
    LET empty == [f EXCEPT !.slots = [k \in KeySet |-> 0]]
        partial == oneShot /\ size <= PartialLimit
    IN [sweep |-> IF partial THEN "partial" ELSE "full",
        f |-> IF ~f.full
              THEN IF ~f.small \/ clear \/ ~oneShot THEN [empty EXCEPT !.full = TRUE] ELSE f
              ELSE IF ~clear THEN f
              ELSE IF partial THEN ClearKeys(f, r, size) ELSE empty]

-----------------------------------------------------------------------------
(* The bucket family.                                                      *)

Compact == [kind |-> "compact", heads |-> [k \in KeySet |-> [n |-> 0, head |-> 0]],
            chain |-> <<>>]
Sparse == [kind |-> "sparse", entries |-> [k \in KeySet |-> [gen |-> 0, n |-> 0, off |-> 0]],
           gen |-> 1, blocks |-> <<>>, starters |-> <<>>,
           stores |-> 0, seen |-> 0, at |-> 0]
NoSlots(n) == [s \in 0 .. n - 1 |-> [ix |-> 0, tag |-> 0]]
Dense == [kind |-> "dense", num |-> [k \in KeySet |-> 0],
          slots |-> [k \in KeySet |-> NoSlots(BlockSlots)]]

NewBucket(tagged, hint) ==
    [fam |-> "bucket", tagged |-> tagged, hint |-> hint, streams |-> 0, lay |-> Compact]

\* The slot a bucket of n entries takes its next position in.
NextSlot(count, n) == n - 1 - (count % n)

PushChain(lay, key, ix) ==
    [lay EXCEPT !.chain = Append(@, [ix |-> ix, next |-> lay.heads[key].head]),
                !.heads[key] = [n |-> (@.n + 1) % CountMod, head |-> Len(lay.chain) + 1]]

\* decode_entry: a stale generation's count is zero, its block is kept.
Live(lay, key) == IF lay.entries[key].gen = lay.gen THEN lay.entries[key].n ELSE 0

\* Offsets: zero for no block, negative for a starter, positive for a full one.
Widened(starter) ==
    [s \in 0 .. BlockSlots - 1 |->
        IF s >= BlockSlots - StarterSlots THEN starter[s - (BlockSlots - StarterSlots)]
        ELSE [ix |-> 0, tag |-> 0]]

\* block_for_store: the block a store goes to, promoted once a starter is full.
BlockForStore(lay, key) ==
    LET off == lay.entries[key].off
    IN CASE off = 0 ->
              [lay EXCEPT !.starters = Append(@, NoSlots(StarterSlots)),
                          !.entries[key].off = - Len(lay.starters) - 1]
         [] off < 0 /\ Live(lay, key) >= StarterSlots ->
              [lay EXCEPT !.blocks = Append(@, Widened(lay.starters[-off])),
                          !.entries[key].off = Len(lay.blocks) + 1]
         [] OTHER -> lay

PushBlock(lay, key, count, e) ==
    LET off == lay.entries[key].off
    IN IF off < 0
       THEN [lay EXCEPT !.starters[-off][NextSlot(count, StarterSlots)] = e]
       ELSE [lay EXCEPT !.blocks[off][NextSlot(count, BlockSlots)] = e]

PushSparse(lay, key, e) ==
    LET count == Live(lay, key)
    IN [PushBlock(BlockForStore(lay, key), key, count, e)
        EXCEPT !.stores = @ + 1, !.entries[key].gen = lay.gen,
               !.entries[key].n = (count + 1) % CountMod]

PushDense(lay, key, e) ==
    [lay EXCEPT !.slots[key][NextSlot(lay.num[key], BlockSlots)] = e,
                !.num[key] = (@ + 1) % CountMod]

BucketStore(f, r, ix) ==
    LET key == KeyAt(r, Mask(ix))
        e == [ix |-> ix, tag |-> TagAt(r, Mask(ix))]
    IN [f EXCEPT !.lay = CASE @.kind = "compact" -> PushChain(@, key, ix)
                           [] @.kind = "sparse" -> PushSparse(@, key, e)
                           [] OTHER -> PushDense(@, key, e)]

\* The entries of one block, newest first.
Newest(bucket, count, n) ==
    [a \in 1 .. Smaller(count, n) |->
        bucket[(NextSlot((count - 1) % CountMod, n) + a - 1) % n]]

\* The linked list of a key; the count bounds how far it is followed.
RECURSIVE Links(_, _, _)
Links(chain, head, left) ==
    IF left = 0 \/ head = 0 THEN <<>>
    ELSE <<chain[head]>> \o Links(chain, chain[head].next, left - 1)

\* The positions a search of a key looks at, newest first.  Tags rule positions
\* out only where a whole block is compared at once.
BucketShows(f, key, tag) ==
    LET lay == f.lay
        same(e) == f.tagged => e.tag = tag
        ixs(s) == [i \in DOMAIN s |-> s[i].ix]
    IN CASE lay.kind = "compact" ->
              ixs(Links(lay.chain, lay.heads[key].head,
                        Smaller(lay.heads[key].n, BlockSlots)))
         [] lay.kind = "sparse" /\ lay.entries[key].off = 0 -> <<>>
         [] lay.kind = "sparse" /\ lay.entries[key].off < 0 ->
              ixs(Newest(lay.starters[- lay.entries[key].off], Live(lay, key), StarterSlots))
         [] lay.kind = "sparse" ->
              ixs(SelectSeq(Newest(lay.blocks[lay.entries[key].off], Live(lay, key),
                                   BlockSlots), same))
         [] OTHER ->
              ixs(SelectSeq(Newest(lay.slots[key], lay.num[key], BlockSlots), same))

\* wants_dense; outlook is what sampling the block says of its stores.
WantsDense(f, outlook, size) ==
    IF ~f.tagged THEN f.hint >= IF f.streams = 0 THEN DenseLimit ELSE DenseLimit \div 2
    ELSE IF f.hint = 0 THEN TRUE
    ELSE IF f.hint < OrdinaryLimit THEN FALSE
    ELSE CASE outlook = "repetitive" /\ f.hint \div 2 <= size -> FALSE
           [] outlook = "ordinary" -> TRUE
           [] OTHER -> f.hint >= DenseLimit

\* A sparse table for the next stream: a generation on, or wiped at the last.
NextGeneration(lay) ==
    IF lay.gen = MaxGeneration THEN Sparse
    ELSE [lay EXCEPT !.gen = @ + 1, !.stores = 0, !.seen = 0, !.at = 0]

\* select_layout: layouts only ever grow.
SelectLayout(f, oneShot, size, outlook) ==
    LET compact == f.lay.kind = "compact" /\ oneShot /\ size <= CompactInput
        dense == f.lay.kind = "dense" \/ (~compact /\ WantsDense(f, outlook, size))
    IN [f EXCEPT !.streams = @ + 1,
                 !.lay = CASE compact -> Compact
                           [] ~dense /\ @.kind = "compact" -> Sparse
                           [] ~dense /\ @.kind = "sparse" -> NextGeneration(@)
                           [] @.kind = "dense" -> [@ EXCEPT !.num = [k \in KeySet |-> 0]]
                           [] OTHER -> Dense]

\* DenseLayout::from(&SparseLayout): the live entries, as they are.
Densified(lay) ==
    [kind |-> "dense", num |-> [k \in KeySet |-> Live(lay, k)],
     slots |-> [k \in KeySet |->
        CASE lay.entries[k].gen # lay.gen \/ lay.entries[k].off = 0 -> NoSlots(BlockSlots)
          [] lay.entries[k].off > 0 -> lay.blocks[lay.entries[k].off]
          [] OTHER -> Widened(lay.starters[- lay.entries[k].off])]]

\* checkpoint: the sparse table is given up for the dense one once the stores
\* since the last look, carried on over what is left, would fill it.
Checkpoint(f, position, remaining) ==
    IF f.fam # "bucket" \/ (f.fam = "bucket" /\ f.lay.kind # "sparse")
    THEN [f |-> f, again |-> FALSE]
    ELSE LET span == IF position > f.lay.at THEN position - f.lay.at ELSE 0
             left == IF f.hint - position > remaining THEN f.hint - position ELSE remaining
             looked == [f EXCEPT !.lay.seen = f.lay.stores, !.lay.at = position]
             promote == span # 0 /\ (f.lay.stores - f.lay.seen) * left >= span * PromotionSlots
         IN IF promote THEN [f |-> [f EXCEPT !.lay = Densified(@)], again |-> FALSE]
            ELSE [f |-> looked, again |-> TRUE]

-----------------------------------------------------------------------------
(* The chain family.                                                       *)

NoAddr == -1

NewChain(last, hops) ==
    [fam |-> "chain", last |-> last, hops |-> hops,
     addr |-> [k \in KeySet |-> NoAddr], head |-> [k \in KeySet |-> 0],
     tiny |-> [i \in 0 .. ShortMod - 1 |-> 0],
     slots |-> [b \in 0 .. Banks - 1 |-> [i \in 0 .. BankSize - 1 |-> [delta |-> 0, next |-> 0]]],
     free |-> [b \in 0 .. Banks - 1 |-> 0]]

\* Slots of the banks stay as they are: nothing reaches them any more.
ChainPrepare(f, oneShot, size, r, clear) ==
    LET partial == oneShot /\ size <= PartialLimit
        gone(k) == ~partial \/ \E i \in 0 .. size - 1 : KeyAt(r, i) = k
    IN [sweep |-> IF partial THEN "partial" ELSE "full",
        f |-> IF ~clear THEN f
              ELSE [f EXCEPT !.addr = [k \in KeySet |-> IF gone(k) THEN NoAddr ELSE @[k]],
                             !.head = [k \in KeySet |-> IF gone(k) THEN 0 ELSE @[k]],
                             !.tiny = [i \in 0 .. ShortMod - 1 |-> 0],
                             !.free = [b \in 0 .. Banks - 1 |-> 0]]]

Delta(f, key, ix) == IF f.addr[key] = NoAddr THEN Huge ELSE Backward(ix, f.addr[key])

ChainStore(f, r, ix) ==
    LET key == KeyAt(r, Mask(ix))
        bank == key % Banks
        idx == f.free[bank] % BankSize
    IN [f EXCEPT !.free[bank] = (@ + 1) % ShortMod,
                 !.slots[bank][idx] = [delta |-> Smaller(Delta(f, key, ix), ShortMod - 1),
                                       next |-> f.head[key]],
                 !.tiny[ix % ShortMod] = key % 256,
                 !.addr[key] = ix, !.head[key] = idx]

\* The distances a search is led through, until one leaves the window.
RECURSIVE Hops(_, _, _, _, _, _, _)
Hops(f, bank, at, delta, slot, left, max) ==
    IF left = 0 \/ at + delta > max THEN <<>>
    ELSE LET node == f.slots[bank][slot % BankSize]
         IN <<at + delta>> \o Hops(f, bank, at + delta, node.delta, node.next, left - 1, max)

ChainShows(f, key, cur, max) ==
    Hops(f, key % Banks, 0, Delta(f, key, cur), f.head[key], f.hops, max)

-----------------------------------------------------------------------------
(* A finder of any family.                                                 *)

Store(f, r, ix) ==
    CASE f.fam = "quick" -> QuickStore(f, r, ix)
      [] f.fam = "bucket" -> BucketStore(f, r, ix)
      [] OTHER -> ChainStore(f, r, ix)

StoreRange(f, r, from, to) ==
    FoldLeft(LAMBDA g, i : Store(g, r, from + i - 1), f,
             [i \in 1 .. (IF to > from THEN to - from ELSE 0) |-> i])

Prepare(f, oneShot, size, r, clear, outlook) ==
    CASE f.fam = "quick" -> QuickPrepare(f, oneShot, size, r, clear)
      [] f.fam = "bucket" -> [sweep |-> "self", f |-> SelectLayout(f, oneShot, size, outlook)]
      [] OTHER -> ChainPrepare(f, oneShot, size, r, clear)

\* HASH_TYPE_LENGTH, which is also STORE_LOOKAHEAD.
TypeLength(f) == IF f.fam = "quick" THEN LongType ELSE HashBytes

StitchToPreviousBlock(f, r, bytes, position) ==
    IF bytes >= TypeLength(f) - 1 /\ position >= 3 THEN StoreRange(f, r, position - 3, position)
    ELSE f

\* for_input: a finder for a stream of the expected size.
ForInput(plan, size) ==
    CASE plan.fam = "quick" -> NewQuick(plan.sweep, size \in 1 .. SmallInput)
      [] plan.fam = "bucket" -> NewBucket(plan.tagged, size)
      [] OTHER -> NewChain(plan.last, plan.hops)

\* retarget: whether the finder can serve a stream of that size, and how.
CanRetarget(f, size) == f.fam = "quick" => f.small = (size \in 1 .. SmallInput)
Retarget(f, size) == IF f.fam = "bucket" THEN [f EXCEPT !.hint = size] ELSE f

\* What a search at a position would be shown: the finder as its user sees it.
Shows(f, r, cur, maxBackward) ==
    LET key == KeyAt(r, Mask(cur))
    IN CASE f.fam = "quick" -> [s \in 1 .. f.sweep |-> f.slots[SweptSlots(f, key)[s]]]
         [] f.fam = "bucket" -> BucketShows(f, key, TagAt(r, Mask(cur)))
         [] OTHER -> ChainShows(f, key, cur, maxBackward)

-----------------------------------------------------------------------------
(***************************************************************************)
(* One search of a greedy finder: the remembered distances, the positions  *)
(* its tables show, the static dictionary and an attached prefix, each     *)
(* candidate scored against the best so far (the searches of               *)
(* src/src/compressor/core/greedy/hashers.rs, src/src/shared/score.rs,     *)
(* src/src/shared/dictionary/mod.rs, core/rfc9841/search.rs, prepared.rs). *)
(*                                                                         *)
(* A query is a record: cur, max (bytes left), back (furthest position in  *)
(* the window), cache (the remembered distances), dict (the distance the   *)
(* static dictionary begins behind).  An outcome holds what SearchResult   *)
(* holds.  Scores are the real ones.                                       *)
(***************************************************************************)

CONSTANTS
    Words,        \* the static dictionary's hash buckets: <<key, probe>> -> item
    WordKeys,     \* number of its hash keys
    WordBits,     \* size_bits_by_length, the same for every length here
    CutOffs,      \* cut-off transforms: bytes left off -> transform id
    ProbeShare    \* a search is worth it while one lookup in that many matched

\* SCORE_BASE, MIN_SCORE and the scores.
MinScore == 2020
Score(len, distance) == 1920 + 135 * len - 30 * Log2(distance)
LastScore(len) == 1935 + 135 * len
Penalty(index) == 39 + 2 * ((117264 \div 2^(2 * (index \div 2) + 1)) % 8)

NoMatch == [len |-> 0, dist |-> 0, score |-> MinScore, delta |-> 0]
IsMatch(out) == out.score > MinScore

\* prepare_distance_cache: the neighbours of the last two distances.
Neighbours(d) == <<d - 1, d + 1, d - 2, d + 2, d - 3, d + 3>>
PrepareDistanceCache(cache, n) ==
    LET four == SubSeq(cache, 1, 4)
    IN IF n <= 4 THEN four
       ELSE IF n <= 10 THEN four \o Neighbours(four[1])
       ELSE four \o Neighbours(four[1]) \o Neighbours(four[2])

-----------------------------------------------------------------------------
(* The static dictionary.                                                  *)

WordKey(r, i) == (Byte(r, i) + Byte(r, i + 1) + Byte(r, i + 2) + Byte(r, i + 3)) % WordKeys

\* Equal leading bytes of a word and the window at i.
WordPrefix(r, i, word) ==
    CHOOSE k \in 0 .. Len(word) :
        /\ \A j \in 0 .. k - 1 : Byte(r, i + j) = word[j + 1]
        /\ k = Len(word) \/ Byte(r, i + k) # word[k + 1]

\* test_item: a word, or what is left of it when its end is cut off.
TestItem(r, q, item, out) ==
    LET len == Len(item.word)
        match == WordPrefix(r, Mask(q.cur), item.word)
        cut == len - match
        back == q.dict + 1 + item.idx + CutOffs[cut + 1] * 2^WordBits
    IN IF len > q.max \/ match = 0 \/ cut >= Len(CutOffs) THEN out
       ELSE IF Score(match, back) < out.score THEN out
       ELSE [len |-> match, dist |-> back, score |-> Score(match, back), delta |-> cut]

\* One hash bucket: the statistics count every lookup, empty or not.
Taken(s, out) ==
    [s EXCEPT !.out = out, !.stats.matches = @ + (IF out = s.out THEN 0 ELSE 1)]
ProbeBucket(r, q, at, s) ==
    [IF at \in DOMAIN Words THEN Taken(s, TestItem(r, q, Words[at], s.out)) ELSE s
     EXCEPT !.stats.lookups = @ + 1]

WorthProbing(stats) == stats.matches >= stats.lookups \div ProbeShare

SearchDictionary(r, q, s, shallow) ==
    IF ~WorthProbing(s.stats) THEN s
    ELSE LET key == WordKey(r, Mask(q.cur))
             first == ProbeBucket(r, q, <<key, 0>>, s)
         IN IF shallow THEN first ELSE ProbeBucket(r, q, <<key, 1>>, first)

\* The end of every search: its own position is stored whatever was found, and
\* the dictionary is asked when nothing beat what the search began with.
Concluded(f, r, q, s, out, asks, shallow) ==
    [f |-> Store(f, r, q.cur),
     s |-> IF asks /\ out.score = s.out.score
           THEN SearchDictionary(r, q, [s EXCEPT !.out = out], shallow)
           ELSE [s EXCEPT !.out = out]]

-----------------------------------------------------------------------------
(* Scoring.  best is the outcome so far, len the length a candidate has to *)
(* reach past before it is compared in full.                               *)

\* A remembered distance below the position and inside the window.
Reaches(q, d) == d > 0 /\ d <= q.cur

CachedScore(len, index) == LastScore(len) - IF index = 0 THEN 0 ELSE Penalty(index)

Better(b, len, dist, score) ==
    [b EXCEPT !.len = len,
              !.out = [len |-> len, dist |-> dist, score |-> score, delta |-> 0]]

\* A candidate of that length, taken when it scores higher than the best.
Offer(b, len, dist) ==
    IF len < 4 \/ b.out.score >= Score(len, dist) THEN b
    ELSE Better(b, len, dist, Score(len, dist))
OfferCached(b, least, len, dist, index) ==
    IF len < least \/ b.out.score >= CachedScore(len, index) THEN b
    ELSE Better(b, len, dist, CachedScore(len, index))

\* The four bytes ending with the one a longer match needs.
SameWord(r, a, b, len) ==
    \A j \in len - 3 .. len : Byte(r, a + j) = Byte(r, b + j)

\* find_longest_match of the quick family.
QuickCached(r, q, b) ==
    LET d == q.cache[1]
        prev == Mask(q.cur - d)
    IN IF ~Reaches(q, d) \/ Byte(r, Mask(q.cur) + b.len) # Byte(r, prev + b.len) THEN b
       ELSE OfferCached(b, 4, MatchLenAt(r, prev, Mask(q.cur), q.max), d, 0)

\* A position with the byte a longer match needs, inside the window.
QuickPasses(r, q, b, prev) ==
    /\ Byte(r, Mask(q.cur) + b.len) = Byte(r, Mask(prev) + b.len)
    /\ Backward(q.cur, prev) \in 1 .. q.back

QuickConsider(r, q, b, prev) ==
    IF ~QuickPasses(r, q, b, prev) THEN b
    ELSE Offer(b, MatchLenAt(r, Mask(prev), Mask(q.cur), q.max), Backward(q.cur, prev))

\* The slots of the key; with one slot a hit on the remembered distance ends
\* the search, and so does a slot that cannot match.
QuickSweep(f, r, q, b, cached) ==
    IF cached # b /\ f.sweep = 1 THEN cached
    ELSE FoldLeft(LAMBDA c, prev : QuickConsider(r, q, c, prev), cached,
                  Shows(f, r, q.cur, q.back))

QuickLooksUp(f, r, q, b) ==
    IF f.sweep = 1 THEN QuickPasses(r, q, b, Shows(f, r, q.cur, q.back)[1]) ELSE f.sweep # 2

QuickFind(f, r, q, s, start) ==
    Concluded(f, r, q, s, QuickSweep(f, r, q, start, QuickCached(r, q, start)).out,
              QuickLooksUp(f, r, q, start), TRUE)

\* probe_last_distances and accept_cached of the bucket family.
BucketCached(r, q, b, index) ==
    LET d == q.cache[index + 1]
        prev == Mask(q.cur - d)
    IN IF ~Reaches(q, d) \/ d > q.back \/ Mask(q.cur) + b.len >= WindowLen(r)
            \/ prev + b.len >= WindowLen(r) THEN b
       ELSE IF Byte(r, Mask(q.cur) + b.len) # Byte(r, prev + b.len) THEN b
       ELSE OfferCached(b, IF index < 2 THEN 2 ELSE 3,
                        MatchLenAt(r, prev, Mask(q.cur), q.max), d, index)

\* consider and accept_candidate; a position behind the window ends the scan.
BucketConsider(r, q, b, prev) ==
    IF b.stop \/ Backward(q.cur, prev) > q.back THEN [b EXCEPT !.stop = TRUE]
    ELSE IF \/ Mask(prev) + b.len >= WindowLen(r)
            \/ ~SameWord(r, Mask(q.cur), Mask(prev), b.len)
            \/ ~Present(r, Mask(prev), q.max) \/ ~Present(r, Mask(q.cur), q.max) THEN b
    ELSE Offer(b, MatchLenWindows(r, Mask(prev), Mask(q.cur), q.max), Backward(q.cur, prev))

AtLeastThree(b) == [b EXCEPT !.len = IF @ < 3 THEN 3 ELSE @]

CachedFirst(b, n, Try(_, _)) == FoldLeft(Try, b, [i \in 1 .. n |-> i - 1])

\* What the tables do not improve on keeps the length of the last search out of
\* the outcome: an outcome without a match has length zero.
WriteBack(s, out) == IF out.len # 0 THEN out ELSE [s.out EXCEPT !.len = 0, !.delta = 0]

BucketFind(f, r, q, s, start) ==
    LET cached == CachedFirst([start EXCEPT !.out.len = 0], Len(q.cache),
                              LAMBDA b, i : BucketCached(r, q, b, i))
        scanned == FoldLeft(LAMBDA b, prev : BucketConsider(r, q, b, prev),
                            AtLeastThree(cached), Shows(f, r, q.cur, q.back))
    IN Concluded(f, r, q, s, WriteBack(s, scanned.out), TRUE, FALSE)

\* find_longest_match of the chain family; the tiny hash stands in for a look
\* at the bytes, except for the last distance.
ChainCached(f, r, q, b, index) ==
    LET d == q.cache[index + 1]
    IN IF index > 0 /\ f.tiny[(q.cur - d) % ShortMod] # KeyAt(r, Mask(q.cur)) % 256 THEN b
       ELSE IF ~Reaches(q, d) \/ d > q.back THEN b
       ELSE OfferCached(b, 2, MatchLenAt(r, Mask(q.cur - d), Mask(q.cur), q.max), d, index)

ChainConsider(r, q, b, back) ==
    LET prev == Mask(q.cur - back)
    IN IF Mask(q.cur) + b.len >= RingSize \/ prev + b.len >= RingSize THEN b
       ELSE IF ~SameWord(r, Mask(q.cur), prev, b.len) THEN b
       ELSE Offer(b, MatchLenAt(r, prev, Mask(q.cur), q.max), back)

ChainFind(f, r, q, s, start) ==
    LET cached == CachedFirst([start EXCEPT !.out.len = 0], f.last,
                              LAMBDA b, i : ChainCached(f, r, q, b, i))
        walked == FoldLeft(LAMBDA b, back : ChainConsider(r, q, b, back),
                           AtLeastThree(cached), Shows(f, r, q.cur, q.back))
    IN Concluded(f, r, q, s, walked.out, TRUE, FALSE)

FindLongestMatch(f, r, q, s) ==
    LET start == [len |-> s.out.len, out |-> [s.out EXCEPT !.delta = 0], stop |-> FALSE]
    IN CASE f.fam = "quick" -> QuickFind(f, r, q, s, start)
         [] f.fam = "bucket" -> BucketFind(f, r, q, s, start)
         [] OTHER -> ChainFind(f, r, q, s, start)

\* last_distances_to_check.
LastDistances(f) ==
    CASE f.fam = "chain" -> f.last
      [] f.fam = "bucket" /\ ~f.tagged -> 10
      [] OTHER -> 4

-----------------------------------------------------------------------------
(* An attached prefix.                                                     *)

PrefixCached(r, q, segment, offset, b, index) ==
    LET d == q.cache[index + 1]
    IN IF d > offset \/ offset - d >= Len(segment) THEN b
       ELSE [OfferCached(b, 2, SegmentMatch(r, Mask(q.cur), segment, offset - d, q.max), d, index)
             EXCEPT !.len = IF b.len > @ THEN b.len ELSE @]

PrefixConsider(r, q, segment, offset, b, at) ==
    LET i == Mask(q.cur)
    IN IF i + b.len >= RingSize \/ b.len >= Smaller(Len(segment) - at, q.max) THEN b
       ELSE IF \E j \in b.len - 3 .. b.len : Byte(r, i + j) # segment[at + j + 1] THEN b
       ELSE Offer(b, SegmentMatch(r, i, segment, at, q.max), offset - at)

\* find_in_attachment; offset is the distance of the segment's first byte.
FindInSegment(r, q, n, out) ==
    LET segment == Segments[n]
        offset == q.dict - SegmentStart(n)
        cached == FoldLeft(LAMBDA b, i : PrefixCached(r, q, segment, offset, b, i - 1),
                           [len |-> out.len, out |-> out], <<1, 2, 3, 4>>)
    IN IF ~Present(r, Mask(q.cur), PrefixBytes) THEN out
       ELSE FoldLeft(LAMBDA b, at : PrefixConsider(r, q, segment, offset, b, at),
                     AtLeastThree(cached), PrefixShows(r, Mask(q.cur), segment)).out

\* find_match: the segments in turn, behind the finder's own outcome.
FindInPrefix(r, q, out) ==
    FoldLeft(LAMBDA o, n : FindInSegment(r, q, n, o), out, [n \in DOMAIN Segments |-> n])

=============================================================================
