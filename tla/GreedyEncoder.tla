---------------------------- MODULE GreedyEncoder ----------------------------
(***************************************************************************)
(* The encoder of qualities 2 to 9                                         *)
(* (src/src/compressor/core/greedy/encoder.rs, backward_references.rs,     *)
(* core/fragment.rs, core/driver.rs): blocks are copied into the window,   *)
(* searched position by position, collected as commands and written as     *)
(* meta-blocks; the encoder and its tables then serve the next stream.     *)
(*                                                                         *)
(* enc is the encoder, blk the block it is searching, job what its owner   *)
(* still asks of it.  text and out are what went in and what came out of   *)
(* the current stream; twin is a finder in the plainest layout, made for   *)
(* this stream alone and told of the same stores.                          *)
(***************************************************************************)
EXTENDS MatchSearch, EncoderBlock

CONSTANTS
    Jobs,          \* what owners ask for: a plan and streams of calls
    BlockSize,     \* input_block_size()
    MaxMeta,       \* max_metablock_size()
    MaxSymbols,    \* an eighth of it: literals, and commands, of a meta-block
    MaxDelayed,    \* MAX_NUM_DELAYED_SYMBOLS, for finders that do not split
    HeurWindow,    \* random_heuristics_window_size()
    CheckEvery,    \* CHECKPOINT_INTERVAL
    InitialCache   \* INITIAL_DISTANCE_CACHE

ASSUME GreedyAssumption ==
    /\ 2 * BlockSize <= RingSize /\ BlockSize <= MaxMeta /\ MaxMeta <= RingSize
    /\ \A i \in 1 .. 4 : InitialCache[i] <= MaxBackward
    /\ ShortMod > MaxBackward

VARIABLES enc, blk, job, text, out, twin
vars == <<enc, blk, job, text, out, twin>>

Fresh(plan, hint) ==
    [ring |-> RingNew, f |-> Retarget(ForInput(plan, hint), hint), prepared |-> FALSE,
     dirty |-> FALSE, cleanup |-> [kind |-> "nothing"], input |-> 0, done |-> 0,
     flushed |-> 0, cmds |-> <<>>, cache |-> InitialCache, saved |-> InitialCache,
     insert |-> 0, literals |-> 0, stats |-> [lookups |-> 0, matches |-> 0],
     last |-> FALSE, finished |-> FALSE]

Idle == [pc |-> "idle"]
Fragment == job.kind = "fragment"
PrefixInUse == IF job.prefix THEN Prefix ELSE <<>>
Gap == Len(PrefixInUse)

\* The layout every other one has to look like.
Twin(plan) ==
    CASE plan.fam = "quick" -> [NewQuick(plan.sweep, FALSE) EXCEPT !.full = TRUE]
      [] plan.fam = "bucket" -> [NewBucket(plan.tagged, 0) EXCEPT !.lay = Dense]
      [] OTHER -> ForInput(plan, 0)

Init ==
    /\ job \in Jobs
    /\ enc = Fresh(job.plan, job.streams[1].hint)
    /\ blk = Idle /\ text = <<>> /\ out = <<>>
    /\ twin = Twin(job.plan)

Calls == job.streams[1].calls

-----------------------------------------------------------------------------
(* The parts of encode_data.                                               *)

\* prepare_matcher.
OneShot(e, isLast) == WrapPosition(e.done) = 0 /\ isLast /\ ~e.dirty

Prepared(e, size, isLast, outlook) ==
    IF e.prepared THEN e
    ELSE LET p == Prepare(e.f, OneShot(e, isLast), size, e.ring, e.dirty, outlook)
         IN [e EXCEPT !.f = p.f, !.dirty = TRUE, !.prepared = TRUE,
                      !.cleanup = CASE p.sweep = "partial" -> [kind |-> "replay", size |-> size]
                                    [] p.sweep = "full" -> [kind |-> "wipe"]
                                    [] OTHER -> [kind |-> "nothing"]]

Stitched(e, size) ==
    [e EXCEPT !.f = StitchToPreviousBlock(@, e.ring, size, WrapPosition(e.done))]

\* create_backward_references up to its loop.
Opened(e, start, bytes, isLast, force) ==
    LET check == Checkpoint(e.f, start, bytes)
    IN /\ enc' = [e EXCEPT !.f = check.f,
                           !.cache = PrepareDistanceCache(@, LastDistances(e.f))]
       /\ blk' = [pc |-> "search", pos |-> start, end |-> start + bytes,
                  insert |-> e.insert, rand |-> start + HeurWindow,
                  store |-> IF bytes >= TypeLength(e.f)
                            THEN start + bytes - TypeLength(e.f) + 1 ELSE start,
                  yield |-> IF check.again THEN start + CheckEvery ELSE Huge,
                  isLast |-> isLast, force |-> force]

\* The state in which create_backward_references is entered, and the twin's:
\* a twin is cleared exactly when positions start over.
Entered(e, bytes, isLast, force, outlook) ==
    \E p \in {Stitched(Prepared(e, bytes, isLast, outlook), bytes)} :
    \E more \in {Extension(p, PrefixInUse, bytes)} :
        /\ Opened(Extended(p, more), WrapPosition(e.done) + (IF more < 0 THEN 0 ELSE more),
                  bytes - (IF more < 0 THEN 0 ELSE more), isLast, force)
        /\ twin' = StitchToPreviousBlock(IF e.prepared THEN twin ELSE Twin(job.plan),
                                         e.ring, bytes, WrapPosition(e.done))

\* begin_fragment: a fragment never looks into the static dictionary.
BeginFragment(e, op) ==
    IF op = "prefix" THEN [e EXCEPT !.stats = [lookups |-> ProbeShare, matches |-> 0]] ELSE e

\* The outcomes sampling a block can have.
Outlooks(bytes) ==
    IF bytes < 8 THEN {"none"} ELSE {"repetitive", "incompressible", "ordinary"}

\* encode_block_with and flush_block, up to the search of the block.
Call ==
    /\ blk.pc = "idle" /\ ~enc.finished /\ Calls # <<>>
    /\ LET call == Head(Calls)
           isLast == call.op = "last"
           force == call.op \in {"flush", "prefix"}
       IN /\ job' = [job EXCEPT !.streams[1].calls = Tail(@)]
          /\ text' = text \o call.bytes
          /\ \E e \in {CopyInput(BeginFragment(enc, call.op), call.bytes)} :
               CASE e.input = e.done /\ ~IsAllocated(e.ring) ->
                      /\ enc' = [e EXCEPT !.finished = isLast]
                      /\ out' = IF isLast THEN Append(out, [kind |-> "empty"]) ELSE out
                      /\ UNCHANGED <<blk, twin>>
                 [] e.input = e.done /\ IsAllocated(e.ring) /\ ~isLast /\ ~force ->
                      /\ enc' = e
                      /\ UNCHANGED <<blk, out, twin>>
                 [] OTHER ->
                      /\ out' = out
                      /\ \E outlook \in Outlooks(e.input - e.done) :
                           Entered([e EXCEPT !.last = isLast], e.input - e.done,
                                   isLast, call.op, outlook)

-----------------------------------------------------------------------------
(* The search of a block.                                                  *)

Query(e, position, max) ==
    [cur |-> position, max |-> max, back |-> Smaller(position, MaxBackward),
     cache |-> e.cache, dict |-> Smaller(position, MaxBackward) + Gap]

\* Block::search: the finder, then the attached prefix.
BehindTheWindow(e, q, found) ==
    [f |-> found.f, stats |-> found.s.stats,
     out |-> IF job.prefix THEN FindInPrefix(e.ring, q, found.s.out) ELSE found.s.out]
SearchFor(e, q, start) ==
    BehindTheWindow(e, q, FindLongestMatch(e.f, e.ring, q, [out |-> start, stats |-> e.stats]))
Search(e, position, max, start) == SearchFor(e, Query(e, position, max), start)

LoopEnd == Smaller(blk.end - TypeLength(enc.f), blk.yield)

\* Positions stored and skipped over once searching has not paid for long.
JumpStride == IF blk.pos + 1 > blk.rand + 4 * HeurWindow THEN 4 ELSE 2
JumpEnd ==
    LET margin == IF TypeLength(enc.f) - 1 > JumpStride THEN TypeLength(enc.f) - 1 ELSE JumpStride
    IN Smaller(blk.pos + 1 + 4 * JumpStride, blk.end - margin)

Jumps == IF blk.pos + 1 <= blk.rand \/ JumpEnd <= blk.pos + 1 THEN 0
         ELSE (JumpEnd - blk.pos - 1 + JumpStride - 1) \div JumpStride
StoreJumps(f) ==
    FoldLeft(LAMBDA g, i : Store(g, enc.ring, blk.pos + 1 + (i - 1) * JumpStride), f,
             [i \in 1 .. Jumps |-> i])

\* One turn of search_positions.
SearchPosition ==
    /\ blk.pc = "search" /\ blk.pos < LoopEnd
    /\ \E s \in {Search(enc, blk.pos, blk.end - blk.pos, NoMatch)} :
         IF IsMatch(s.out)
         THEN /\ enc' = [enc EXCEPT !.f = s.f, !.stats = s.stats]
              /\ twin' = Store(twin, enc.ring, blk.pos)
              /\ blk' = [blk EXCEPT !.pc = "lazy"] @@
                        [sr |-> s.out, delayed |-> 0, max |-> blk.end - blk.pos - 1]
         ELSE /\ enc' = [enc EXCEPT !.f = StoreJumps(s.f), !.stats = s.stats]
              /\ twin' = StoreJumps(Store(twin, enc.ring, blk.pos))
              /\ blk' = [blk EXCEPT !.pos = @ + 1 + Jumps * JumpStride,
                                    !.insert = @ + 1 + Jumps * JumpStride]
    /\ UNCHANGED <<job, text, out>>

\* The finder is asked whether its layout still fits, and the loop goes on.
YieldToCheckpoint ==
    /\ blk.pc = "search" /\ blk.pos >= LoopEnd
    /\ blk.pos + TypeLength(enc.f) < blk.end
    /\ \E c \in {Checkpoint(enc.f, blk.pos, blk.end - blk.pos)} :
         /\ enc' = [enc EXCEPT !.f = c.f]
         /\ blk' = [blk EXCEPT !.yield = IF c.again THEN blk.pos + CheckEvery ELSE Huge]
    /\ UNCHANGED <<job, text, out, twin>>

\* Mutant: a distance into the static dictionary is remembered too.
RemembersAll(e, d, max, code) ==
    IF code > 0
    THEN [e EXCEPT !.cache = PrepareDistanceCache(<<d, @[1], @[2], @[3]>>, LastDistances(e.f))]
    ELSE e

\* Distances into the window or the prefix are remembered, unless repeated.
Remembers(e, d, max, code) ==
    IF d <= max /\ code > 0
    THEN [e EXCEPT !.cache = PrepareDistanceCache(<<d, @[1], @[2], @[3]>>, LastDistances(e.f))]
    ELSE e

DistanceCode(e, d, max) ==
    IF Fragment THEN d + ShortCodes - 1 ELSE ComputeDistanceCode(d, max, e.cache)

\* The positions of the copy that are stored: not the first two, and of a run
\* of short period only the end.
RangeEnd(pos, sr) == Smaller(pos + sr.len, blk.store)
RangeStart(pos, sr) ==
    LET late == pos + sr.len - 4 * sr.dist
        first == IF pos + 2 > late THEN pos + 2 ELSE late
    IN IF sr.dist < sr.len \div 4 THEN Smaller(RangeEnd(pos, sr), first) ELSE pos + 2

\* The end of commit_match, for the match sr at pos behind insert literals.
Commit(e, t, pos, insert, sr) ==
    LET max == Smaller(pos, MaxBackward) + Gap
        code == DistanceCode(e, sr.dist, max)
        c == Command(insert, sr.len, sr.delta, code, Direct, Postfix)
    IN /\ enc' = [Remembers(e, sr.dist, max, code) EXCEPT
                    !.f = StoreRange(@, e.ring, RangeStart(pos, sr), RangeEnd(pos, sr)),
                    !.cmds = Append(@, c), !.literals = @ + insert]
       /\ twin' = StoreRange(t, e.ring, RangeStart(pos, sr), RangeEnd(pos, sr))
       /\ blk' = [pc |-> "search", pos |-> pos + sr.len, end |-> blk.end, insert |-> 0,
                  rand |-> pos + 2 * sr.len + HeurWindow, store |-> blk.store,
                  yield |-> blk.yield, isLast |-> blk.isLast, force |-> blk.force]

\* Where a lazy search starts: it has to beat the match it would replace.
LazyStart ==
    [NoMatch EXCEPT !.len = IF job.plan.extensive THEN 0 ELSE Smaller(blk.sr.len - 1, blk.max)]

\* One turn of commit_match: is the match one position on worth the delay?
LazySearch ==
    /\ blk.pc = "lazy"
    /\ \E s \in {Search(enc, blk.pos + 1, blk.max, LazyStart)} :
       \E e \in {[enc EXCEPT !.f = s.f, !.stats = s.stats]} :
       \E t \in {Store(twin, enc.ring, blk.pos + 1)} :
         IF s.out.score < blk.sr.score + 175 THEN Commit(e, t, blk.pos, blk.insert, blk.sr)
         ELSE IF blk.delayed + 1 < 4 /\ blk.pos + 1 + TypeLength(enc.f) < blk.end
         THEN /\ enc' = e /\ twin' = t
              /\ blk' = [blk EXCEPT !.pos = @ + 1, !.insert = @ + 1, !.sr = s.out,
                                    !.delayed = @ + 1, !.max = @ - 1]
         ELSE Commit(e, t, blk.pos + 1, blk.insert + 1, s.out)
    /\ UNCHANGED <<job, text, out>>

-----------------------------------------------------------------------------
(* The end of a block.                                                     *)

Searched == [enc EXCEPT !.insert = blk.insert + blk.end - blk.pos]

\* Whether the block's commands wait for more.
Waits(e) ==
    /\ ~blk.isLast /\ blk.force \notin {"flush", "prefix"}
    /\ job.plan.fam = "quick" => e.literals + Len(e.cmds) < MaxDelayed
    /\ e.input - e.flushed + BlockSize <= MaxMeta
    /\ e.literals < MaxSymbols /\ Len(e.cmds) < MaxSymbols

Flushed(e) ==
    [e EXCEPT !.flushed = e.input, !.cmds = <<>>, !.literals = 0,
              !.saved = SubSeq(e.cache, 1, 4), !.finished = blk.isLast]

\* What a fragment's owner keeps of its first call: the bytes it writes itself.
Kept(block) == IF blk.force = "prefix" THEN <<>> ELSE <<block>>

\* encode_data from the search on.  Whether a meta-block is stored raw depends
\* on its entropy and on the size of its coded form; two bytes always are.
EndBlock ==
    /\ blk.pc = "search" /\ blk.pos + TypeLength(enc.f) >= blk.end /\ blk.pos >= LoopEnd
    /\ blk' = Idle
    /\ IF Waits(Searched)
       THEN /\ enc' = Processed(Searched)
            /\ out' = out
       ELSE \E e \in {Closed(Searched)} :
            IF ~blk.isLast /\ e.input = e.flushed THEN enc' = e /\ out' = out
            ELSE \E coded \in (IF e.input - e.flushed <= 2 THEN {FALSE} ELSE BOOLEAN) :
                 /\ enc' = Flushed(Processed(IF e.input = e.flushed THEN e
                                             ELSE Forgotten(e, coded)))
                 /\ out' = out \o Kept(MetaBlock(e, coded))
    /\ UNCHANGED <<job, text, twin>>

-----------------------------------------------------------------------------
(* From one stream to the next.                                            *)

\* reset: a table that was filled from one short input is cleared by going
\* through that input once more; any other is wiped by its next user.
Reset(e) ==
    LET replay == e.cleanup.kind = "replay"
    IN [Fresh(job.plan, 0) EXCEPT
          !.ring = RingReset(e.ring),
          !.f = IF replay THEN Prepare(e.f, TRUE, e.cleanup.size, e.ring, TRUE, "none").f
                ELSE e.f,
          !.dirty = e.cleanup.kind = "wipe"]

\* reset_for: the encoder is kept where its finder suits the next input.
NextStream ==
    /\ blk.pc = "idle" /\ Len(job.streams) > 1
    /\ enc.finished \/ (Fragment /\ Calls = <<>>)
    /\ \E hint \in {job.streams[2].hint} :
         enc' = IF CanRetarget(enc.f, hint)
                THEN Reset([enc EXCEPT !.f = Retarget(@, hint)])
                ELSE Fresh(job.plan, hint)
    /\ job' = [job EXCEPT !.streams = Tail(@)]
    /\ text' = <<>> /\ out' = <<>> /\ twin' = Twin(job.plan)
    /\ UNCHANGED blk

Next ==
    \/ Call
    \/ SearchPosition
    \/ YieldToCheckpoint
    \/ LazySearch
    \/ EndBlock
    \/ NextStream

Spec == Init /\ [][Next]_vars

-----------------------------------------------------------------------------
(* Properties.                                                             *)

CONSTANT StaticWords   \* length -> word index -> word

\* A word of the static dictionary with its end left off.
CutWord(id, len) ==
    LET cut == (CHOOSE c \in DOMAIN CutOffs : CutOffs[c] = id \div 2^WordBits) - 1
    IN SubSeq(StaticWords[len][id % 2^WordBits], 1, len - cut)

D == INSTANCE CommandDecoder WITH StaticWord <- CutWord

\* The decoder starts behind other text when a fragment is one of many, and
\* remembers distances the fragment knows nothing of.
Before == IF Fragment THEN <<3, 3, 3>> ELSE <<>>
Start == D!NewDecoder(Before \o (IF Fragment THEN SubSeq(text, 1, Smaller(2, Len(text))) ELSE <<>>),
                      IF Fragment THEN <<1, 1, 1, 1>> ELSE InitialCache)

\* What is still to be written, as the meta-block it would become.
Pending == IF enc.input = enc.flushed THEN <<>> ELSE <<MetaBlock(Closed(enc), TRUE)>>
Meant == D!Decode(Start, out \o Pending, PrefixInUse)

\* Between two calls, the meta-blocks written and the commands still held mean
\* exactly the bytes given to encode_block and flush_block, whatever finder,
\* layout, raw fallback, wrapped window, extended command or reused table was
\* involved.
CommandsDecode ==
    blk.pc = "idle" /\ enc.done = enc.input => Meant.text = Before \o text

\* Between two calls the distances the encoder remembers are those a decoder
\* of its output remembers, with the commands still held and without them:
\* what a raw meta-block or the static dictionary left out is left out on both
\* sides (saved_dist_cache).
CachesAgree ==
    blk.pc = "idle" /\ enc.done = enc.input /\ ~Fragment =>
        /\ SubSeq(enc.cache, 1, 4) = Meant.cache
        /\ enc.saved = D!Decode(Start, out, PrefixInUse).cache

\* A position worth comparing: inside the window and with the same bytes.
Relevant(p, prev) ==
    /\ Backward(p, prev) \in 1 .. Smaller(p, MaxBackward)
    /\ \A j \in 0 .. HashBytes - 1 :
         Byte(enc.ring, Mask(prev) + j) = Byte(enc.ring, Mask(p) + j)

\* The search about to be made is shown the positions a table made for this
\* stream alone in the plainest layout would show, in the same order: compact,
\* sparse and small tables, promotion, generations, partial clearing and
\* replayed clearing never change what is found.
TwinAgrees ==
    blk.pc = "search" /\ blk.pos < LoopEnd =>
        LET back == Smaller(blk.pos, MaxBackward)
            shown(f) == SelectSeq(Shows(f, enc.ring, blk.pos, back),
                            LAMBDA x : Relevant(blk.pos,
                                IF f.fam = "chain" THEN blk.pos - x ELSE x))
        IN shown(enc.f) = shown(twin)

\* The window holds the text: every byte a search or a copy can reach is at
\* its masked position, and so are the mirrored bytes past the ring's end that
\* a comparison of the longest length runs into.
WindowIsText ==
    blk.pc # "idle" =>
        \A p \in (IF enc.input > RingSize THEN enc.input - RingSize ELSE 0) .. enc.input - 1 :
            /\ Byte(enc.ring, Mask(p)) = text[p + 1]
            /\ (enc.ring.cur = TotalSize /\ enc.input > RingSize /\ Mask(p) < TailSize
                /\ p - Mask(p) + RingSize > enc.input - 1 /\ p >= enc.input - Mask(enc.input)) =>
                 Byte(enc.ring, Mask(p) + RingSize) = text[p + 1]

\* The staged comparison finds the same length as one byte at a time, at
\* every pair of positions the next search can compare.
ScansAgree ==
    blk.pc = "search" /\ blk.pos < LoopEnd =>
        \A d \in 1 .. Smaller(blk.pos, MaxBackward) :
            MatchLenAt(enc.ring, Mask(blk.pos - d), Mask(blk.pos), blk.end - blk.pos)
                = CommonPrefix(enc.ring, Mask(blk.pos - d), Mask(blk.pos), blk.end - blk.pos)

\* A decoder of what was written ends where the encoder stands: with its bytes
\* and with its distances.
MeaningIsKept == CommandsDecode /\ CachesAgree

\* The window can be searched and compared as it is laid out.
WindowServes == WindowIsText /\ ScansAgree
=============================================================================
