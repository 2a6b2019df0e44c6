# A TLA+ verification of mbrotli

`mbrotli` is a Brotli encoder and decoder in Rust: one-shot and incremental
compression at qualities 0 to 11, shared dictionaries and framed streams
(RFC 9841), parallel compression on a caller-supplied executor, `io::Read` and
`io::Write` adapters, and a C ABI. This directory holds TLA+ specifications of
its state machines and of the algorithms they run, the TLC configurations that
check them, and TLAPS proofs of theorems about the concurrent part, the sessions
and their adapters, the decoder's state machine, and the framed writer.

## The system and its parts

| Part | State | Operations | Interacts through |
| --- | --- | --- | --- |
| Parallel compressor (`compressor/parallel`) | configuration, reservoir of idle workers | `reconfigure`, `trim`, `prepare_*` | a batch borrows it exclusively |
| Batch, the coordinator (`parallel/core/batch.rs`) | plan, tasks, completion slots, received ids, artifacts, failures | `take_tasks`, `poll`, `wait`, `wait_timeout`, `cancel`, `finish_*`, drop | channel of ids, one slot per task, one cancellation flag |
| Task (`parallel/core/task.rs`) | segment range, worker, artifact | `run`, drop | the same, from any thread |
| Compressor (`compressor/encoder.rs`, `core/driver.rs`) | cached encoder, staging and pending buffers, `active` | one-shot calls, `start`, `recover`, `reconfigure`, `trim` | lends itself to one session at a time |
| Encoder session (`core/session.rs`, `core/stream.rs`) | phase, restart flag, size hint | `process` with Process, Flush, Finish; `reinit`, drop | buffers of the compressor |
| Encoder writer and reader (`compressor/io`) | outbox or input buffer, adapter state | `write`, `flush`, `try_finish`; `read` | a sink or source that may fail at any call |
| Fast encoder (`core/fast`) | table, command code, counts | one fragment | called by the block scheduler |
| Greedy encoder (`core/greedy`) | match finder, window, commands, distance cache | one block, one meta-block | the same |
| HQ encoder (`core/hq`) | tree of matches, path, window, commands | one block, one meta-block | the same |
| Decoder (`decompressor/core`) | bit reservoir, resumable stage, history ring, tables, distance cache | `process` | caller's slices |
| Decoder session and adapters (`decompressor/session.rs`, `io`) | member flag, accounts, policies | `process`, `read`, `write`, one-shot calls | source and sink that may fail |
| Framed encoder (`compressor/framing`) | container, resource, queued chunk | commands, `process`, writer, driver | wraps the plain encoder |
| Framed decoder, seek reader (`decompressor/framing`) | phase, directory, retained content; index | `process`, readers, random access | wraps the plain decoder |
| Dictionaries (`compressor/dictionary`, `core/rfc9841`, `shared/decode_*`) | lists, serialized bytes, attachments | build, write, parse, attach, search, resolve | both codecs |
| Shared primitives (`shared`) | | prefix codes, histograms, window, commands, distances | the encoders |

What is hard to test in it is listed line by line under `hazards` in
`PROJECT.json`, with the properties that would catch it. Three kinds stand out.
In the parallel batch the owner, the tasks and the source change shared state
in any order, any step may fail, and workers outlive batches. In the
incremental machines a long series of legal calls with odd sizes, errors and
retries must never lose, repeat or reorder a byte. In the codecs two
implementations have to agree on something neither states: encoder and decoder
on what a symbol means, a fast path and a slow path on where they are, a reused
table and a fresh one on what a search is shown.

## Modules

| Modules | Model | Composed by |
| --- | --- | --- |
| `ParallelPlan`, `ParallelPrepare` | division of an input into tasks; `plan` and `prepare` in machine integers | itself |
| `ParallelPrepareProofs` | theorems about planning | |
| `ParallelBatch` | compressor, batch, tasks, source | itself |
| `ParallelBatchProofs` | theorems about joining tasks and what a batch leaves behind | |
| `EncoderStream` | compressor, session, block scheduler | `MCEncoderIO` |
| `EncoderAdapters` | the encoding adapters over the session | `MCEncoderIO` |
| `EncoderIOProofs` | theorems about the session and its adapters | |
| `DecoderRing`, `DecoderStream` | history, copies, stages and fast loop | itself |
| `DecoderHistoryProofs` | lemmas: what writes, growth and copies in pieces leave in a history; those operations in the decoder's buffer | |
| `DecoderStreamProofs` | theorems about the distance cache, the history and the output | |
| `DecoderWire`, `DecoderSession` | bit reservoir; session over a stream in slices | `MCDecoderSession` |
| `DecoderContract` | what a session promises: the abstract specification | `MCDecoderSession` |
| `DecoderAdapters` | Read and Write adapters, one-shot calls | `MCDecoderSession` |
| `DecoderSessionProofs` | theorems about the reservoir and the adapters | |
| `FramedWire` | chunks, directory and footer as both sides see them | |
| `FramedEncoder` | engine, container, resource; writer over a sink | `MCFraming` |
| `FramedDecoder`, `FramedSeek` | the decoder's phases; random access | `MCFraming`, whose peers send anything |
| `FramingProofs` | theorem about the framed writer and its sink | |
| `EncoderRing` | the encoders' window and comparisons | `MatchSearch`, `HqSearch` |
| `EncoderCommand`, `CommandDecoder` | commands and their symbols; what they mean to a decoder | both encoders |
| `EncoderBlock` | what greedy and HQ encoders do alike | both encoders |
| `MatchSearch`, `GreedyEncoder` | finders of qualities 2 to 9; the encoder around them | `MCGreedy` |
| `HqSearch`, `HqEncoder`, `DictionaryMatches` | tree and path search; the encoder; word lookup | `MCHq` |
| `BlockSplit` | splitters, clustering, context maps | `MetaBlockCodes` |
| `EntropyCode` | prefix codes: building, storing, reading, tables | both of the next |
| `MetaBlockWriter`, `MetaBlockReader` | meta-blocks to bits and back on both decoder paths | the next |
| `MetaBlockCodes`, `FastEncoder` | streams of meta-blocks; fragments of qualities 0 and 1 | `MCCodes` |
| `SharedDictionary`, `DecoderDictionary` | the two sides of RFC 9841 dictionaries | `MCDictionary` |

The `map` of `PROJECT.json` gives, for each definition, the lines it stands for. A
helper whose lines lie within those of the definition that uses it has no row of
its own.
Operators introduced by a comment `Mutant:` are deliberately wrong variants of
the definition that follows; they are used by nothing but the mutation table of
`PROJECT.json`, which records which property each of them breaks.

Composition is by shared variables: an adapter extends the module of the session
and drives its actions, and the composing module says who moves. Codec
components meet through values: what the writer leaves is what the reader gets.

### ParallelPlan, ParallelPrepare

`ParallelPrepare` runs `plan()` and then the loop of `prepare()` one task per
step. Checked operations yield `Overflow`, which is absorbing, against widths
`U64Max` and `UsizeMax` that are constants. With `U64Max = 40` and
`UsizeMax = 32` every overflow of the code is reached by some length. The
constants of the workspace estimate (bytes per descriptor, part, task, worker)
are parameters; the properties depend on nothing but the descriptor and the part
having a size.

### ParallelBatch

One action per access to state that another thread can see. A task is
`queued -> check -> read -> encode -> ... -> commit -> publish -> send -> done`,
with `fail` between a failure and the store to the cancellation flag. Filling
the slot and sending the id are two steps, as are sending and, for an abandoned
task, storing the flag. The coordinator is inside a call while `pc` is `drain`,
`recv`, `validate`, `assemble`; `drop` and `dropping` are its destructor.

A fragment is its segment, the version of the source it was read from, and the
configuration of the worker that encoded it. A worker is the configuration it
was built for and whether a panic interrupted it. The destination is a sequence
of fragments and terminators. All encoding and staging errors of a task are
`Encode`. The source may change at any step; its identity is its version, and a
source that reports none is the `VerifyLength` policy. The reader behind a
source is one atomic read, because its mutex is held across seek and read.

Relaxed atomics: the flag is only ever set, never cleared, and a load may
return an old `FALSE`; that is the schedule in which the load happens before
the store, so interleaving covers it. The one place where a stale load could
matter, `ready()` after all completions were received, is ordered behind the
stores by the channel.

### EncoderStream, EncoderAdapters, MCEncoderIO

`process()` is a loop; each turn is a `Drain` step followed by one of `Answer`,
`Hold`, `EncodeBlock`, `EncodeFails`. An input byte is its position, so losing,
repeating or reordering one is visible in `blocks`. An output unit is
`<<session, n>>`, so output of an earlier session is visible in `delivered`. A
block emits any number of units in `Sizes`; the last block emits at least one.
Sessions are started, dropped, leaked, recovered and re-initialised, with
one-shot calls in between. In `MCEncoderIO` a behaviour has one role: a caller
that uses a session in any legal or illegal order, the Write adapter over a sink
with short, failing and interrupted writes, or the Read adapter over such a
source.

### DecoderRing, DecoderStream

`DecoderStream` has the variables of `Stream` and one action per stage of
`run_stages` (several where a stage does several things), and the fast loop
`fast()` as four places `command`, `literals`, `distance` and, outside it, `no`.
The loop keeps its decoded bytes pending between `flushed` and `position` until
it leaves. A call ends at any stage that needs input or room; every choice of
symbols, every cut of input and every slice length in `Rooms` is explored, so
the stages and the loop interleave freely. Three deliveries are modelled: copy
out of the ring, collect in the ring (a fresh `Vec`), and decode straight into
the caller's slice.

The compressed input is abstracted here to the symbols it yields. A decoded
byte is the position it was first produced at, tagged with its member, or an
index into the external prefix; two different bytes are never confused. `text`
grows by what the format defines for a command: literals, or a copy out of
prefix and addressable history taken as one sequence. `recents` is the list of
the last four distances. Neither is looked at by the decoder's actions.

The sixteen bytes of a vector copy are `Chunk`, which is also the gap between
window and reach. `Chunk = 3`, window 8 and ten bytes of text let a copy wrap,
its tail wrap around to the oldest reachable byte, and the ring overwrite bytes
that were reachable; copies of up to two chunks take the path of `copy32`.

### DecoderWire, DecoderSession, DecoderContract, DecoderAdapters

The other half of the decoder: where its bits come from. The reservoir's word is
a sequence of places, each holding the set of stream bits or-ed into it, so a
bit kept too long, read twice or shifted wrongly is seen whatever its value. A
stream is a sequence of items (`field`, `symbol`, `literal`, `copy`, `raw`,
`align`, ...) with a length in bits, and a stage takes one. The slow path fills
byte by byte, the fast path word by word with read-ahead that `settle` and
`unread` give back at pauses and member ends.

`DecoderContract` says, call by call and without reservoir or stages, how many
of the offered bytes an answer may take, how many bytes of output it owes by
then, and when an operation may finish or fail and why. `MCDecoderSession`
instantiates it with a refinement mapping (`Contract`), and the run `session`
checks `KeepsContract == Contract!ContractSpec`: every step of the session maps
to a step of the contract or a stutter.

### Framing

A chunk keeps its kind, its length on the wire (varints in radix `Radix`), what
it decodes to and what it refers to; what its bytes spell is left out. The
encoder's `Container` queues one chunk at a time and `Resource` cuts content
into chunks of `ChunkBytes`; repeated metadata, padding, directory and a footer
that counts its own bytes follow the code. `FramedDecoder` is the phases of
`drive`, an operator per phase over a step record that says whether the call
goes on. `FramedSeek` scans the footer and the directory backwards, closes a
request over what it depends on and decodes just that, from a source that may
fail at any read.

`MCFraming` is end to end: a script of commands and resources goes through the
writer over a failing sink (stage `writer`) or the driver (`driver`); the result
is decoded by a session, a reader or a one-shot call (`decode`), or read at
random (`seek`). In stage `peer` the decoders meet a peer that sends any chunks
in any order, right or wrong, and the result is compared with the grammar of the
format, stated separately (`OrderIsTheGrammar`).

### Greedy and HQ encoders

`EncoderRing` is the window with its mirror, growth and margin, in bytes at
their real indices. `MatchSearch` has the three families of finders in every
layout: open-addressing maps and full tables, compact, sparse (stamped with a
generation) and dense buckets, banks of chains. A `twin` finder in the plainest
layout, made fresh for each stream and told of the same stores, is the
reference: `TwinAgrees` says a reused finder in any layout shows a search the
same positions. `GreedyEncoder` takes a block, searches it one position per
step with lazy matching and the last distances, extends the last command,
decides between compressed and raw meta-block, and is used for the next stream.

`HqSearch` has the trees, the candidates of the built-in dictionary
(`DictionaryMatches`, over all transforms) and the start queue with its distance
shortcuts; `HqEncoder` runs quality 10 (find and price at once) and quality 11
(find all, choose twice).

What comes out of both is held against `CommandDecoder`, a decoder of symbols
that shares no state with the encoders: the text it rebuilds, and the distances
it remembers, are those of the encoder.

### BlockSplit, EntropyCode, MetaBlock*, FastEncoder

`MetaBlockCodes` takes commands to bits and back: split, cluster, build codes,
write, then parse with both readers. `PairsAreLive` is about the clustering's
queue while it runs. `EntropyCode` builds length-limited codes from any small
histogram and stores them; `MetaBlockReader` builds two-level tables.
`FastEncoder` runs whole fragments of qualities 0 and 1: scanning, block
merging, rewriting of the length already written, raw fallback by rewinding,
and the command code carried to the next block and fragment.

### Dictionaries

Every description a builder accepts within the bounds is written, parsed by both
parsers, also with one byte damaged, and attached among others to a compressor's
builder and to a decoder; then every reference the encoder's static index finds
is resolved by the decoder. An operation that may refuse answers a set, empty
for a refusal.

## Runs

| Run | Bounds | Distinct states | Shows |
| --- | --- | --- | --- |
| `prepare` | u64 to 40, usize to 32, all lengths, sizes, counts | 268044 | an accepted plan never fails later, tiles the input, keeps its memory promise |
| `batch_faults` | 1 batch, 2 tasks, up to 3 segments, source changes once, all faults, all calls | 1550043 | internal errors unreachable, the originating error is reported and stays, output is one stream, vectors are transactional, sends never block |
| `batch_reuse` | 2 batches, 2 tasks, 2 configurations, 1 retained worker, panics | 2124425 | a late or damaged worker never reaches a later batch |
| `batch_live` | 1 batch, 2 tasks, failures | 24594 | calls return, tasks end, the destructor never waits |
| `encoder_io` | block limit 3; caller: 2 sessions, 4 bytes in cuts 0, 1, 4; adapters: outbox 2, buffer 3, units 0 or 3 | 1312344 | delivery and input order, answers, sink and reader contents, termination |
| `decoder` | 1 member, 10 bytes, window 8, chunk 3, prefix 0 or 2, all deliveries | 3947365 | output is the text, history and cache intact, unused slice untouched |
| `session` | 4 streams of two members, about 14 bytes of 2 bits, reservoir of 4 bytes; 4 clients | 102064 | refinement of the contract, reservoir, adapters, termination |
| `framing` | 6 scripts of up to 8 commands, chunks of 2 bytes, 1 sink and 1 source fault; peers of 5 chunks | 225385 | round trip, retried sinks, random access, grammar, termination |
| `search` | window 16 in a ring of 32, blocks of 9 to 16 bytes, streams of up to 8 blocks, up to 4 streams, all finder layouts | 147207 | commands mean the input, layouts agree, window serves |
| `hq` | window 32 in a ring of 64, blocks of up to 32 bytes, streams of up to 8 blocks, every built-in transform | 32971 | commands mean the input, starts follow their paths, trees stay sorted, matches spell the text |
| `codes` | streams of up to 6 short meta-blocks, codes and distance alphabets of the real sizes, fragments of up to a hundred bytes | 137112 | both readers get the text and the distances back, codes agree, queue is live |
| `dictionary` | 2 lists of each kind, up to 3 stringlets, words of 2 and 3 bytes, 3 calls and 3 attachments | 39283 | parsers agree, references resolve, attachments agree |

Two tasks are enough for every pairwise race between tasks, and the owner and
the source are two more actors. Three segments give one task two, so that it can
be interrupted between them. One batch is enough for the faults because nothing
of a batch survives it but the reservoir and detached tasks; `batch_reuse` has
two for those. Block limit 3 with cuts of 0, 1 and 4 makes a call end before, at
and after a block boundary and leaves a two-byte restart inside a block. A block of
three units is more than an outbox of two or a room of one, so output stays
pending across calls of every role: `flush()` and `try_finish()` pump twice, and a
`write()` whose staged block fills the outbox before it takes a byte tries again.
Sinks still take an outbox in two pieces. Outputs that need three turns are left
to the theorems, for safety only. After a second block of
a session nothing new can happen to its buffers (`LaterBlocks`). A reservoir of
four bytes is filled, drained, over-read and left partly full within one member;
the Read adapter's buffer of five lets it read a word ahead.
The run `decoder` has one member; what reset leaves of an earlier one is covered
by its theorems, for any number of members.
A ring twice the window is lapped twice by the longest streams of `search` and
`hq`. The sizes that thresholds of the code depend on (table sizes, sparse
limits, generations, sample rates) are scaled so that the branches on both sides
of each can be taken.

Deadlock checking is off where a caller may stop calling at any time.

Symmetry (`batch_reuse`) permutes the two configurations, which the model only
compares for equality; no temporal property is checked there.

### Fairness

`TaskFairness`: the executor runs or drops every task it was given, and threads
are scheduled. `CoordinatorFairness`: the owner's thread is scheduled inside a
call. Nothing obliges the owner to make another call, so no property assumes it
does; each part of `CallsAndTasksEnd` names only the fairness it needs, and
`DropNeverWaits` assumes nothing of tasks. In `encoder_io`, `session` and
`framing` the one fairness is that the thread inside a call is scheduled
(`Scheduler`, `WriterIsRun`, `ReaderIsRun`; `Run`; `EncoderRuns`) and that the
sink or source answers: a sink that returns `Interrupted` forever would keep
`drain()` in its loop, and nothing is said of it.

## Proofs

Each theorem rests on an inductive invariant that TLC found to hold in the run
of its module before it was proved. The proofs have one lemma per action and
under it one step per conjunct; the theorems hold for all values of the
constants that satisfy the assumptions named here.

### Batches

For all numbers of tasks, batches, segments, workers and configurations, and all
fault sets, from `BoundsAssumption` and `NoneAssumption`:

* `TypeCorrect`: `Spec => []TypeOK`. Types are not inductive by themselves: an
  encode step reads the worker, and `CopyFragment` the artifact, so the
  invariant `TInv` adds that a task that is working has a worker and that
  assembly starts only when every artifact is there.
* `PublishingNeverBlocks`: `Spec => []SendNeverBlocks`. `JoinInv` says where
  each task's completion is (with the task, in its slot, in the channel, or
  collected), that the channel's ids are distinct and that `completed` counts
  the received ids. A task about to send is in none of the last two, so fewer
  than `tasks` ids are in the channel, which has room for `tasks`. This is the
  argument of the comment in `Task::publish`.
* `ReportsTheCause`: `Spec => []OriginatingError`. `CauseInv` keeps, for a set
  flag that the owner did not set, a task whose result is a failure other than
  `Cancelled`, and says that received failures are recorded. When `ready()`
  runs, all tasks are received, so that failure is among the records and
  precedes every `Cancelled`.
* `FailureSettledOnce`: `Spec => FailureIsStable`, from the code's check that
  the failure is still unset.
* `FinishingCallsAreWhole`: `Spec => []ResultIsWhole`. `ArtifactInv` says what
  a task has made so far, where it is, and for which segments, source version
  and configuration; `OutInv` says which prefix of the stream the destination
  holds at each place of `assemble` and that a vector is shortened to where it
  was when the copy fails.
* `ReusedBatchesAreSound`: `Spec => []ReuseIsSound`. `WorkerInv` follows a lent
  worker from the reservoir to the task, its completion and back: a worker that
  a panic interrupted, or of another configuration, is never put back, and a
  task that is still running when its batch is gone gives its worker to nobody.

### Planning

For every integer width, every overhead, limit and request, from
`WidthAssumption`: `TasksTileTheInput` (`Spec => []TasksTile`) and
`AcceptedPlansHold` (`Spec => []PlanHolds`). The invariant `PrepareInv` says
what a request looks like before it is planned, what an accepted plan has
checked, and where the task loop stands (`Running`). It rests on lemmas of
`ParallelPlan` about the closed form of the division (`TaskSegmentsType`,
`TasksFollow`) and on `SegmentsCover`: every segment starts inside the input,
which is why no source range is empty.

### Encoding sessions and adapters

For every block limit, every size and cut of input, output and blocks, and every
number of sessions, from the `...Assumption`s of `EncoderStream`,
`EncoderAdapters` and `MCEncoderIO`:

* `SessionInvariant` proves `StreamInv`, a conjunction of what the buffers hold
  (`Queued`, `Settled`, `Consecutive`, `Cut`), of what the phases mean
  (`InCall`, `Finishes`, `HintOpen`) and of what the last answer promised. From
  it follow `UnitsArriveInOrder` (`Spec => []DeliveredInOrder`),
  `BytesArriveInOrder` (`Spec => []BlocksFollowTheInput`) and
  `CallsAnswerTruly` (`Spec => []AnswersAreTrue`). `DeliveredInOrder` alone is
  not inductive, because `Drain` moves units whose numbers only `Queued` knows;
  nor is `BlocksFollowTheInput`, which says nothing of a call in progress.
* `AdaptersAreFaithful`: `Spec => []AdaptersKeepTheirWord`. An adapter has an
  invariant only while it is the caller (`AdapterInv`). `WriterInv` relates sink
  and outbox to what the session delivered (`Shipped`) and what was acknowledged
  to what it consumed (`Acknowledged`), and says which places of the pump loop a
  flush or a finish passes before it may return. `ReaderInv` says that the
  buffered bytes are the last ones taken from the source (`Accounted`) and that
  what `read()` returned is what the session delivered (`HandedOut`).

### Decoding sessions and adapters

For every byte and word size of `BitsAssumption`, every stream and policy of
`SessionAssumption`, every client and every slicing. `SessionAssumption` bounds a
field by what one `peek` may ask for and says that a run of raw or metadata
bytes follows padding, as the decoder's stages align before they enter one.

* `ReservoirIsFaithful`: `Spec => []ReservoirIsTheStream`, from the inductive
  invariant `SessionInv`. The property says which bits are in the reservoir; to
  keep that, the proof has to know where they came from. `OnByte` says that
  whole bytes stand before a run and none at a member's end, so the bypass of
  the raw stage and the reset for the next member lose nothing. `Carry` says
  that earlier calls left bits only of an item that lacks some or of the byte in
  progress, so what `unread` gives back was accepted by the present call. Below
  it are lemmas on the reservoir itself (`LoadHolds`, `RefillHolds`,
  `SettleHolds`, `ReturnedHolds`, `PeekHolds`): each keeps the stream's bits, and
  the word never overflows.
* `DecodingAdaptersAreFaithful`: `Spec => [](ReaderAccounts /\ WriterDelivers)`,
  two of the three parts of `ClientsKeepTheirWord`, from `ClientInv`. An
  adapter's accounts are off by the session's last answer while it looks at it
  (`ReaderOpen`, `WriterBalance`), and `AnswerInv` says what an answer is worth:
  a call that asks for input took all it was offered, one that asks for room
  filled what it had. This is what the Read adapter's comment relies on when it
  overwrites its buffer, and `ReaderAssumption` (no empty slice gets that far)
  is needed for it. `WriterPlaces` and `WriterEnds` say what an operation of the
  Write adapter has passed before its place in the pump loop, so that a deferred
  error always belongs to a write that took bytes.

### The decoder's distance cache

For every window, ring, text, code, distance and dictionary of
`DecoderAssumption`:

* `CacheHoldsTheLastCopies`: `DecoderSpec => []CacheIsRecent`. `CacheInv` says
  that, before an error, the four slots read from the rotating index backwards
  are the format's list of recent distances, all of them positive, and gives the
  symbol in hand its type. Every action is one of four things to the cache (`CacheStep`): it keeps
  it, begins a stream, takes one copy as the format does, or fails. Only the
  fast loop has to be argued: for code 0 it pops the last distance before it
  knows what the reference is. `PopPushes` shows that pushing the popped
  distance again gives back the same slots and the same index, so a word, a
  reference left to the stages and a copy all leave it whole
  (`FastBeyondSteps`, `FastCopySteps`); only the errors do not, and after an
  error nobody reads it.

### The decoder's history and output

From the same assumptions, and `RingAssumption`: `MIN_RING`, which is 64 in the
code, may be any power of two, and windows are powers of two above the reach of
`copy32` (`Chunk`).

* `HistoryIsIntact`: `DecoderSpec => []HistoryHolds`, and
* `OutputIsExact`: `DecoderSpec => []OutputIsTheText`, both from the inductive
  invariant `CacheInv /\ StreamInv`. The two properties look at the buffer and at
  what was delivered; to keep them, the proof has to know what is still to be
  written, because `text` grows by a whole reference as soon as it is resolved
  while the bytes follow over several steps and calls.
  * `HistoryInv` is about the buffer alone. `Good` says that it holds the bytes
    of the text a reference may address, that there is room up to the position
    and that the undelivered bytes lie in one piece; `Lapped`, that between
    operations they never fill the ring, so that a flush is never due. In a
    caller's slice nothing beyond what the meta-block owes has been touched.
  * `CopyInv`, `PrefixInv` and `PendingInv` say, per stage, that the text beyond
    the position is what that stage goes on to write: the copied bytes recur at
    the distance (`Recurs`); a copy that starts in the prefix and runs into the
    history continues at the text's first byte (`LeadsFrom`), or, where its own
    output would overwrite what it still has to read, with the bytes saved when
    it was resolved (`Cyclic`).
  * `PlaceInv` and `BoundInv` say which states of call, stage and fast loop meet
    and that no length in hand exceeds what the meta-block owes.

  `DecoderHistoryProofs` has the lemmas on the ring, for every size, position and
  length: writes keep `Good` (`WritesRing`); so does growth, which happens only
  before a ring has wrapped (`Grows`); a copy in pieces writes what a copy byte
  by byte would (`CopiesRing`, `CopiesFast`), because what `copy16` and `copy32`
  write behind a piece hits only positions that are out of a reference's reach
  or still to be written (`Writes`). Lemmas on powers of two say that the next
  one exists and every ring has such a length, as its mask needs. The rounds of
  a write or a copy are a recursive function on `0 .. n`; that each round keeps
  what the lemma says follows from the least round that would not
  (`LeastNatural`, `Climb`). The module then applies them to the buffer of the
  call, and says what of the text a reference adds.

### The framed writer

For every chunk size, transport size, script, cut of the writes and number of
failures, from `RadixAssumption`, `EncoderAssumption` (a chunk holds at least a
byte), `WriterAssumption` (so does the transport) and `ClientAssumption`, which
says what a script is made of:

* `FramesReachTheSink`: `Spec => []SinkGetsTheFrames`, from the inductive
  invariant `FrameInv`. The property compares the sink with the session between
  calls, which no step of a call can be judged by. `Ledger` counts each byte
  once wherever it is: queued in the container, handed out by the session, on
  the way in the call in progress, held by the transport, or sunk. `Places` says
  who is calling whom: the session is called only with an empty transport and
  no deferred error, and the bytes of an answer are still owed to the transport
  when it returns. `Answers` says what a returned status is worth: `Finished`
  means a finished container with nothing queued, and a finish never asks for
  input; `Endings`, that nothing follows it. That every queued chunk has a
  length, a number (`BoxInv`), takes lemmas about sums over any list of fields
  and references (`SumsExist`, `PicksExist`, `LengthIsNat`): that the recursive
  functions behind them are defined at every argument again follows from the
  least one where they would not be.

### Only model-checked

Liveness under fairness (`CallsReturn`, `CallsAndTasksEnd`, `AdapterCallsReturn`
and the like) is out of the prover's reach. The refinement of `DecoderContract`
and the one-shot calls (`OneShotWhole`) compare a session with sums over its whole
stream, and what such a fold yields for every stream takes induction over data.
The decoding side of framing, what its whole chain from script to decoded content
yields, and every other property not named above are model-checked so far. The
modules of the codecs compute with recursive operators (`EntropyCode`,
`BlockSplit`, the searches, the parsers), of which the prover takes no induction;
they stay with TLC.

## Plan

Done: parallel compression, the encoder session with its adapters, and their
safety proofs; the decoder from bits to adapters with its abstract
specification; framing on both sides; the encoders of all qualities and what
they write; the dictionaries. What is left, in order:

1. The memory budgets and limits of framing and of dictionary preparation.
2. The custom static-dictionary index in the search of qualities 10 and 11.

## Not modelled

Components left out: static tables (data); SIMD kernels, each a variant of one
scalar function; configuration validation, getters and re-exports; error
formatting; benches, fuzz targets and the bindings to the C library they compare
with. The C ABI has no streaming machine: its calls are one-shot, check their
arguments, and enter the one-shot paths, the stored fallback or the size bound,
so no state outlives a call.

Inside the modelled components the following is abstracted.

*Session and adapters.* The output-size bounds of one-shot calls, and the choice
of an encoder by quality and size.

*Decoder.* The window header of a member; the extra validation of distances of
large windows; degenerate branches of the distance limit. `DecoderStream`
takes symbols, `DecoderSession` items; `MetaBlockReader` is the link between
bits and symbols, checked with the writers. Dictionary references are in
`DecoderStream` and `CommandDecoder`, not in `MetaBlockReader`.

*Framing.* The bytes that chunk contents spell, and digests of them;
malformed header bytes; memory budgets and all limits but an exact
output size; exact input sizes; external dictionary identifiers; a shared codec
without references over a large window; a directory entry cut short; the
hidden and checksum flags. That the seek reader's loops end is not stated as
liveness.

*Qualities 2 to 9.* Hashes are small functions of the bytes. Maps that grow on
demand are total functions. H54 is its twin H4. Raw or compressed, and the
outlook of a lazy match, are choices, because they depend on estimated costs.
The first distances remembered are scaled to the window. The prefix is searched
by the finders that do so in the driver. Custom static dictionaries are searched
in `dictionary` only. An encoder serves another stream after it finished one,
and another fragment at once.

*Meta-blocks.* Costs and entropies are choices: any block ids a trace may yield,
any pair that a queue may prefer, two pricings of context clustering. Block and
batch sizes are scaled, and so are the widths of lengths. Reversed bits are kept
in reading order. Counts do not wrap at 32 bits, type numbers not at 8.

*Qualities 0 and 1.* Sizes, sample rates, the patience of the scan and the
insert limits are scaled; whether literals are worth coding, whether a block is
merged into the last, and sampled entropies are choices; literals come from a
small alphabet. The bit writer's carry between bytes and the bound on its buffer
are left out; each job begins with a fresh arena, used for all its fragments.

*Qualities 10 and 11.* Costs are integers, and the estimate of literal costs is
one of a few patterns; lengths and depths are scaled. The payload union of a node
is its fields. The static index of a custom dictionary, the stream offset and
the limit of a match inside the prefix are left out. Per-block tuning of the
distance parameters is in `codes`.

*Dictionaries.* Lengths, counts, the base of varints and the ceilings of
prefixes are scaled, the index's hash is a scaled sum; the memory bound of
preparation, the gate in front of a probe and the decoder's bound on source
bytes are left out. The two sides treat a second description differently, as
`architecture/rfc9841-encoding.md` and `architecture/decompressor.md` describe:
the encoder's builder keeps a custom description when one that has only a
prefix follows and lets a second custom one replace the first, the decoder
returns to the built-in one and refuses the conflict. `AttachmentsAgree` is
about attachments both sides took, and what only one of them takes is not compared;
`ReferencesResolve` says nothing where only the encoder has a description.
