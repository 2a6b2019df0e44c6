---------------------------- MODULE FramedDecoder ----------------------------
(***************************************************************************)
(* The framed decoder's engine: the phases that drive walks through, the   *)
(* order of chunks it admits, the codec's state across chunks, the content *)
(* it keeps for dictionary references, repeated metadata, the directory    *)
(* and the footer.  An operator takes a step r = [e, len, room, ahead,     *)
(* used, made, tag] of a call and returns it with its outcome: tag "run"   *)
(* goes on to the next phase, any other ends the call.                     *)
(* Source: src/src/decompressor/framing/core/mod.rs.                       *)
(***************************************************************************)
EXTENDS FramedWire

Errors == {"UnexpectedEnd", "InvalidOrder", "InvalidChunk", "InvalidMetadata",
           "InvalidDirectory", "InvalidFooter", "InvalidReference", "Disabled",
           "SizeMismatch", "InvalidState", "TrailingData", "OutputTooSmall"}

(* An optional value: none, or one. *)
None == <<>>
Garbage == <<0, 0>>        \* a byte decoded with another dictionary

(* The parts of the engine that a session starts with. *)
NewEngine(retain, most) ==
  [phase |-> "detect", pend |-> 0, in |-> 0, out |-> 0, fin |-> -1, finished |-> FALSE,
   raw |-> FALSE, footer |-> FALSE, chunks |-> <<>>, left |-> 0, made |-> 0,
   active |-> FALSE, ended |-> FALSE, dict |-> <<>>,
   retain |-> retain, most |-> most,
   cache |-> <<>>, start |-> 0, contents |-> <<>>, scratch |-> <<>>,
   resources |-> <<>>, metadata |-> <<>>, pendingMeta |-> 0, previous |-> "none",
   partial |-> FALSE, repeats |-> 0, cursor |-> 1, repeatStart |-> 0,
   directory |-> 0, dcursor |-> 1, pointer |-> FALSE, listed |-> 0]

Tagged(r, tag)  == [r EXCEPT !.tag = tag]
At(r, phase)    == [r EXCEPT !.e.phase = phase]
Current(e)      == Last(e.chunks)

Wait(r) == Tagged(r, IF r.e.fin >= 0 THEN "UnexpectedEnd" ELSE "Input")

(* Takes up to n bytes of the input. *)
Least(a, b) == IF a < b THEN a ELSE b
Left(r)    == r.len - r.used
Take(r, n) == [r EXCEPT !.used = @ + n]

-----------------------------------------------------------------------------
(* Engine::add_resource *)
AddResource(e, at) ==
  [e EXCEPT !.pendingMeta = 0,
     !.resources = Append(@, [first |-> at, size |-> 0, meta |-> e.pendingMeta, footer |-> 0,
                              from |-> Len(e.cache), to |-> Len(e.cache), complete |-> FALSE,
                              index |-> Len(e.resources) + 1])]

(* Engine::validate_end: nothing is open, the size is the one promised,    *)
(* and repeated metadata repeats every original, field by field.           *)
Originals(e) == SelectSeq(e.metadata, LAMBDA m : m.original = 0 /\ m.kind # "global")
Copies(e)    == SelectSeq(e.metadata, LAMBDA m : m.original # 0)
RepeatsAgree(e) ==
  LET chosen == UNION {CodesOf(m.fields) : m \in Range(Copies(e))}
  IN \A i \in DOMAIN Copies(e), code \in chosen :
       OfCode(Originals(e)[i].fields, code) = OfCode(Copies(e)[i].fields, code)

ValidateEnd(r) ==
  LET e == r.e
  IN IF e.partial \/ e.pendingMeta # 0 \/ (e.active /\ ~e.ended) THEN Tagged(r, "UnexpectedEnd")
     ELSE IF e.most.exact >= 0 /\ e.out # e.most.exact THEN Tagged(r, "SizeMismatch")
     ELSE IF e.repeats = 0 THEN r
     ELSE IF Len(Originals(e)) # e.repeats \/ e.directory = 0 THEN Tagged(r, "InvalidDirectory")
     ELSE IF ~RepeatsAgree(e) THEN Tagged(r, "InvalidMetadata")
     ELSE r

(* Mutant: footer metadata anywhere behind a resource. *)
InOrderOnce(e, k) ==
  \/ k = "padding"
  \/ /\ e.footer \/ k \in DataKinds
     /\ e.partial => k \in {"middle", "last"}
     /\ e.pendingMeta # 0 => k \in {"data", "first"}
     /\ e.directory # 0 => k = "footer"
     /\ e.repeatStart # 0 /\ e.directory = 0 => k \in {"repeat", "directory"}
     /\ k \in {"data", "first"} /\ ~e.footer => e.resources = <<>>
     /\ k \in {"middle", "last"} => e.partial
     /\ k = "footerMeta" => e.resources # <<>>
(* Engine::order *)
InOrder(e, k) ==
  \/ k = "padding"
  \/ /\ e.footer \/ k \in DataKinds
     /\ e.partial => k \in {"middle", "last"}
     /\ e.pendingMeta # 0 => k \in {"data", "first"}
     /\ e.directory # 0 => k = "footer"
     /\ e.repeatStart # 0 /\ e.directory = 0 => k \in {"repeat", "directory"}
     /\ k \in {"data", "first"} /\ ~e.footer => e.resources = <<>>
     /\ k \in {"middle", "last"} => e.partial
     /\ k = "footerMeta" => e.previous \in {"data", "last"}
Ordered(e, c) ==
  CASE c.kind \in {"data", "first"} -> [AddResource(e, c.at) EXCEPT !.partial = (c.kind = "first")]
    [] c.kind = "last"              -> [e EXCEPT !.partial = FALSE]
    [] c.kind = "repeat"            -> [e EXCEPT !.repeatStart = IF @ = 0 THEN c.at ELSE @]
    [] OTHER                        -> e
Order(r) ==
  IF InOrder(r.e, Current(r.e).kind) THEN [r EXCEPT !.e = Ordered(r.e, Current(r.e))]
  ELSE Tagged(r, "InvalidOrder")

-----------------------------------------------------------------------------
(* Content kept for references: a metadata chunk's fields, or the part of  *)
(* the cache a data chunk or a resource decoded to.                        *)
Cached(e, from, to) == SubSeq(e.cache, from + 1, to)
Targets(e, at) == {k \in DOMAIN e.contents : e.contents[k].at = at}
Target(e, at) == e.contents[CHOOSE k \in Targets(e, at) : \A m \in Targets(e, at) : k <= m]
ResourceOf(e, t) == e.resources[t.resource]
Resolves(e, c, ref) ==
  /\ Targets(e, ref.at) # {}
  /\ c.kind = "repeat" => Target(e, ref.at).kind = "repeat"
  /\ ref.to # "chunk" =>
       /\ Target(e, ref.at).resource # 0
       /\ ResourceOf(e, Target(e, ref.at)).complete
       /\ ResourceOf(e, Target(e, ref.at)).first = ref.at
Resolve(e, ref) ==
  LET t == Target(e, ref.at)
      s == ResourceOf(e, t)
  IN IF ref.to # "chunk" THEN Cached(e, s.from, s.to)
     ELSE IF t.meta # 0 THEN e.metadata[t.meta].fields
     ELSE Cached(e, t.from, t.to)

(* Engine::prepare: the codec continues or starts over, with the           *)
(* dictionary of the chunk's references.                                   *)
Prepare(r) ==
  LET e == r.e
      c == Current(e)
      fresh == [e EXCEPT !.active = (c.codec # "raw"), !.ended = FALSE, !.dict = <<>>]
  IN IF ~HasCodec(c) THEN r
     ELSE IF c.codec = "keep"
       THEN IF ~e.active \/ e.ended \/ (c.kind = "repeat" /\ e.previous # "repeat")
            THEN Tagged(r, "InvalidChunk") ELSE r
     ELSE IF e.active /\ ~e.ended THEN Tagged(r, "InvalidChunk")
     ELSE IF c.refs # <<>> /\ ~e.retain THEN Tagged(r, "Disabled")
     ELSE IF \E k \in DOMAIN c.refs : ~Resolves(e, c, c.refs[k]) THEN Tagged(r, "InvalidReference")
     ELSE IF Len(SelectSeq(c.refs, LAMBDA x : x.to = "serialized")) > 1 THEN Tagged(r, "InvalidReference")
     ELSE [r EXCEPT !.e = [fresh EXCEPT !.dict = [k \in DOMAIN c.refs |-> Resolve(e, c.refs[k])]]]

(* Engine::register *)
Register(e, meta) ==
  LET c == Current(e)
  IN IF ~HasCodec(c) THEN e
     ELSE [e EXCEPT !.contents = Append(@, [at |-> c.at, kind |-> c.kind, meta |-> meta,
             from |-> e.start, to |-> Len(e.cache),
             resource |-> IF c.kind \in DataKinds THEN Len(e.resources) ELSE 0])]

(* Engine::finish_metadata: a copy repeats the next original.              *)
NextOriginal(e) == {i \in e.cursor .. Len(e.metadata) : e.metadata[i].original = 0 /\ e.metadata[i].kind # "global"}
FinishMetadata(r) ==
  LET e == r.e
      c == Current(e)
      kind == IF c.kind = "repeat" THEN c.of ELSE c.kind
      fields == e.scratch
      i == CHOOSE k \in NextOriginal(e) : \A m \in NextOriginal(e) : k <= m
      own == [kind |-> kind, fields |-> fields, source |-> c.at, original |-> 0,
              scope |-> CASE kind = "metadata" -> Len(e.resources) + 1
                          [] kind = "footerMeta" -> Len(e.resources)
                          [] OTHER -> 0]
      copy == [own EXCEPT !.original = e.metadata[i].source, !.scope = e.metadata[i].scope]
      n == Len(e.metadata) + 1
      kept(m) == Register([e EXCEPT !.metadata = Append(@, m), !.scratch = <<>>], n)
  IN IF ~ValidFields(fields, kind) THEN Tagged(r, "InvalidMetadata")
     ELSE IF c.kind = "repeat"
       THEN IF NextOriginal(e) = {} THEN Tagged(r, "InvalidMetadata")
            ELSE IF \/ e.metadata[i].kind # kind
                    \/ \E code \in CodesOf(fields) : OfCode(fields, code) # OfCode(e.metadata[i].fields, code)
              THEN Tagged(r, "InvalidMetadata")
            ELSE Tagged([r EXCEPT !.e = [kept(copy) EXCEPT !.repeats = @ + 1, !.cursor = i + 1]], "Metadata")
     ELSE Tagged([r EXCEPT !.e =
            CASE kind = "metadata"   -> [kept(own) EXCEPT !.pendingMeta = n]
              [] kind = "footerMeta" -> [kept(own) EXCEPT !.resources[Len(e.resources)].footer = n]
              [] OTHER               -> kept(own)], "Metadata")

-----------------------------------------------------------------------------
(* The codec (src/src/decompressor/core/stream.rs): the k-th byte of a     *)
(* chunk's content yields the k-th of its text, and the rest ends a block  *)
(* or the stream.  A stop for output may have read ahead.                  *)
Yields(c, bytes) == Least(Len(c.text), bytes)
Decoded(e, c, k) == IF e.dict = c.dict THEN c.text[k] ELSE Garbage
CodecRun(e, c, avail, room, allow, ahead) ==
  LET x == c.coded - e.left
      full == c.coded - c.extra
      reach == Least(x + avail, full)
      owed == Yields(c, reach) - e.made
      n == Least(owed, Least(room, allow))
      y == IF ahead \/ n = owed THEN reach ELSE Least(reach, IF x > e.made + n + 1 THEN x ELSE e.made + n + 1)
  IN [used |-> y - x, n |-> n,
      stop |-> CASE n < owed /\ n = allow -> "limit"
                 [] n < owed /\ n # allow -> "output"
                 [] n = owed /\ c.ends /\ y = full -> "member"
                 [] OTHER -> "input"]

(* Engine::payload *)
Uncompressed(e, c, avail, room, allow) ==
  LET n == Least(avail, Least(room, allow))
  IN [used |-> n, n |-> n, stop |-> IF n = e.left THEN "input" ELSE "output"]
Piece(e, c, n) == [k \in 1 .. n |-> IF c.codec = "raw" THEN c.text[e.made + k] ELSE Decoded(e, c, e.made + k)]
Store(e, data, piece) ==
  LET n == Len(piece)
      keeps == data /\ e.retain /\ ~e.raw
      cache == IF keeps THEN e.cache \o piece ELSE e.cache
  IN IF ~data THEN [e EXCEPT !.made = @ + n, !.scratch = @ \o piece]
     ELSE [e EXCEPT !.made = @ + n, !.out = @ + n, !.cache = cache,
             !.resources[Len(e.resources)].size = @ + n,
             !.resources[Len(e.resources)].to = IF keeps /\ n > 0 THEN Len(cache) ELSE @]
Applied(r, data, step, piece) ==
  [Take(r, step.used) EXCEPT
     !.e = [Store(r.e, data, piece) EXCEPT !.left = @ - step.used, !.ended = @ \/ step.stop = "member"],
     !.made = IF data THEN piece ELSE @]

(* What a step of the codec means for the chunk, and for a bare stream.    *)
Owned(s, n) == Tagged(s, IF n > 0 THEN "Data" ELSE "run")
RawOutcome(s, n, stop) ==
  IF stop = "member" THEN Owned(At(s, "resourceEnd"), n)
  ELSE IF stop = "input" /\ s.e.fin >= 0 THEN Tagged(s, "UnexpectedEnd")
  ELSE IF n > 0 THEN Tagged(s, "Data")
  ELSE IF stop = "output" THEN Tagged(s, "Output") ELSE Wait(s)
Outcome(s, c, n, stop) ==
  IF stop = "limit" THEN Tagged(s, "SizeMismatch")
  ELSE IF s.e.raw THEN RawOutcome(s, n, stop)
  ELSE IF Compressed(c) /\ s.e.made > c.declared THEN Tagged(s, "SizeMismatch")
  ELSE IF s.e.left = 0 /\ stop # "output"
    THEN IF Compressed(c) /\ s.e.made # c.declared THEN Tagged(s, "SizeMismatch")
         ELSE Owned(At(s, "semantic"), n)
  ELSE IF stop = "member" THEN Tagged(s, "InvalidChunk")
  ELSE IF n > 0 THEN Tagged(s, "Data")
  ELSE IF stop = "output" /\ c.kind \in DataKinds THEN Tagged(s, "Output")
  ELSE Wait(s)
Decode(r, c, data, room, avail, allow) ==
  LET step == IF c.codec = "raw" THEN Uncompressed(r.e, c, avail, room, allow)
              ELSE CodecRun(r.e, c, avail, room, allow, r.ahead)
      produced(n) == Outcome(Applied(r, data, step, Piece(r.e, c, n)), c, IF data THEN n ELSE 0, step.stop)
  IN produced(step.n)
Payload(r) ==
  LET c == Current(r.e)
      data == c.kind \in DataKinds
      room == IF data THEN r.room ELSE c.coded
      avail == Least(r.e.left, Left(r))
      allow == IF data /\ r.e.most.exact >= 0 THEN r.e.most.exact - r.e.out ELSE c.coded
  IN IF c.codec = "raw" /\ r.e.left = 0 THEN At(r, "semantic")
     ELSE IF c.codec = "raw" /\ allow = 0 THEN Tagged(r, "SizeMismatch")
     ELSE IF c.codec = "raw" /\ room = 0 THEN Tagged(r, "Output")
     ELSE IF c.codec = "raw" /\ avail = 0 THEN Wait(r)
     ELSE Decode(r, c, data, room, avail, allow)

-----------------------------------------------------------------------------
(* Engine::directory: the pointer to the copies, then one entry for every  *)
(* content chunk, in order, equal to its header.                           *)
Listable(e) == {i \in e.dcursor .. Len(e.chunks) - 1 : HasCodec(e.chunks[i])}
DirectoryEntry(r) ==
  LET e == r.e
      d == Current(e).entries[e.listed + 1]
      numbers == EntryNumbers(d)
      k == Least(Left(r), EntryBytes(d) - e.pend)
      i == CHOOSE n \in Listable(e) : \A m \in Listable(e) : n <= m
      c == e.chunks[i]
      read(n) == [Take(r, n) EXCEPT !.e.pend = @ + n, !.e.left = @ - n]
  IN IF e.pend + k < numbers THEN Wait(read(k))
     ELSE IF \/ Listable(e) = {}
             \/ d.at # c.at \/ d.header # Header(c)
       THEN Tagged(read(numbers - e.pend), "InvalidDirectory")
     ELSE IF e.pend + k < EntryBytes(d) THEN Wait(read(k))
     ELSE IF d # Entry(c) THEN Tagged(read(k), "InvalidDirectory")
     ELSE Tagged([read(k) EXCEPT !.e.pend = 0, !.e.listed = @ + 1, !.e.dcursor = i + 1], "DirectoryEntry")
Directory(r) ==
  LET e == r.e
      c == Current(e)
      k == Least(Left(r), Width(c.ptr) - e.pend)
      s == [Take(r, k) EXCEPT !.e.pend = @ + k, !.e.left = @ - k]
  IN IF ~e.pointer
     THEN IF e.pend + k < Width(c.ptr) THEN Wait(s)
          ELSE IF c.ptr # e.repeatStart THEN Tagged(s, "InvalidDirectory")
          ELSE Tagged([s EXCEPT !.e.directory = c.at, !.e.pointer = TRUE, !.e.pend = 0], "DirectoryStart")
     ELSE IF e.pend = 0 /\ e.left = 0
     THEN IF Listable(e) # {} THEN Tagged(r, "InvalidDirectory") ELSE At(r, "directoryEnd")
     ELSE DirectoryEntry(r)

-----------------------------------------------------------------------------
(* The phases of Engine::drive. *)
Detect(r, tape) ==
  LET k == Least(Left(r), Signature - r.e.pend)
      member == [Plain EXCEPT !.kind = "data", !.codec = "brotli", !.text = tape.chunks[1].text,
                   !.coded = tape.chunks[1].coded, !.ends = TRUE]
      raw == [AddResource(r.e, 0) EXCEPT !.raw = TRUE, !.chunks = <<member>>, !.left = member.coded,
                !.active = TRUE, !.phase = "begin"]
  IN IF tape.raw
     THEN IF Left(r) = 0 THEN Wait(r) ELSE Tagged([r EXCEPT !.e = raw], "Stream")
     ELSE IF r.e.pend + k < Signature THEN Wait([Take(r, k) EXCEPT !.e.pend = @ + k])
     ELSE Tagged(At([Take(r, k) EXCEPT !.e.pend = 0, !.e.footer = tape.footer], "header"), "Stream")

ReadHeader(r, tape) ==
  LET e == r.e
      c == tape.chunks[Len(e.chunks) + 1]
      k == Least(Left(r), Header(c) - e.pend)
      whole == Order([Take(r, k) EXCEPT !.e.pend = 0, !.e.left = Body(c), !.e.made = 0,
                        !.e.start = Len(e.cache), !.e.chunks = Append(@, c)])
  IN IF e.pend = 0 /\ Left(r) = 0
     THEN IF e.fin >= 0 /\ ~e.footer
          THEN IF Len(e.resources) # 1 THEN Tagged(r, "InvalidOrder") ELSE At(ValidateEnd(r), "finish")
          ELSE Wait(r)
     ELSE IF e.pend + k < Header(c) THEN Wait([Take(r, k) EXCEPT !.e.pend = @ + k])
     ELSE IF whole.tag # "run" THEN whole
     ELSE Tagged(At(whole, "begin"), "Header")

Begin(r) ==
  LET c == Current(r.e)
      s == Prepare(At(r, "content"))
  IN IF r.e.raw THEN Tagged(At(r, "content"), "Start")
     ELSE IF s.tag # "run" THEN s
     ELSE IF c.kind = "directory" THEN [At(s, "directory") EXCEPT !.e.pointer = FALSE]
     ELSE IF c.kind \in {"data", "first"} THEN Tagged(s, "Start")
     ELSE s

Content(r) ==
  LET k == Least(Left(r), r.e.left)
      s == [Take(r, k) EXCEPT !.e.left = @ - k]
  IN IF HasCodec(Current(r.e)) THEN Payload(r)
     ELSE IF s.e.left = 0 THEN At(s, "semantic") ELSE Wait(s)

Semantic(r) ==
  LET c == Current(r.e)
      s == At(r, "chunkEnd")
      end == ValidateEnd(s)
  IN CASE c.kind = "padding"   -> Tagged(s, "Padding")
       [] c.kind \in MetaKinds -> FinishMetadata(s)
       [] c.kind = "footer"    ->
            IF c.size \notin {0, EndOf(c)} \/ c.dir # r.e.directory THEN Tagged(s, "InvalidFooter")
            ELSE IF end.tag # "run" THEN end ELSE Tagged(end, "Footer")
       [] OTHER -> [s EXCEPT !.e = Register(s.e, 0)]

ChunkEnd(r) ==
  LET k == Current(r.e).kind
      next == CASE k \in {"data", "last"} -> "resourceEnd"
                [] k = "footer" -> "finish"
                [] OTHER -> "header"
  IN Tagged([At(r, next) EXCEPT !.e.previous = IF k = "padding" THEN @ ELSE k], "ChunkEnd")

ResourceEnd(r) ==
  Tagged([At(r, IF r.e.raw THEN "finish" ELSE "header")
            EXCEPT !.e.resources[Len(r.e.resources)].complete = TRUE], "End")

Finish(r) ==
  LET s == ValidateEnd(r)
  IN IF s.tag # "run" THEN s ELSE Tagged([s EXCEPT !.e.finished = TRUE], "Finished")

Phase(r, tape) ==
  CASE r.e.phase = "detect"      -> Detect(r, tape)
    [] r.e.phase = "header"      -> ReadHeader(r, tape)
    [] r.e.phase = "begin"       -> Begin(r)
    [] r.e.phase = "content"     -> Content(r)
    [] r.e.phase = "semantic"    -> Semantic(r)
    [] r.e.phase = "chunkEnd"    -> ChunkEnd(r)
    [] r.e.phase = "resourceEnd" -> ResourceEnd(r)
    [] r.e.phase = "directory"   -> Directory(r)
    [] r.e.phase = "directoryEnd" -> Tagged(At(r, "chunkEnd"), "DirectoryEnd")
    [] r.e.phase = "finish"      -> Finish(r)

(* The loop of Engine::drive: a call passes at most this many phases.      *)
PhasesPerCall == 5
Drive(r, tape) ==
  FoldLeft(LAMBDA s, i : IF s.tag = "run" THEN Phase(s, tape) ELSE s, r, [i \in 1 .. PhasesPerCall |-> i])

(* Engine::process: the end of the input is promised once.                 *)
Settled(s) == [s EXCEPT !.e.in = @ + s.used, !.e.phase = IF s.tag \in Errors THEN "failed" ELSE @]
Process(e, tape, len, room, fin, ahead) ==
  LET end == e.in + len
      r == [e |-> [e EXCEPT !.fin = IF fin THEN end ELSE @], len |-> len, room |-> room,
            ahead |-> ahead, used |-> 0, made |-> <<>>, tag |-> "run"]
  IN IF e.phase = "failed" THEN Tagged(r, "InvalidState")
     ELSE IF e.finished THEN Tagged([r EXCEPT !.e = e], "Finished")
     ELSE IF e.fin >= 0 /\ (~fin \/ end # e.fin) THEN Tagged([r EXCEPT !.e = [e EXCEPT !.phase = "failed"]], "InvalidState")
     ELSE Settled(Drive(r, tape))

-----------------------------------------------------------------------------
(***************************************************************************)
(* The framed decoder's callers over one encoded input: a session given    *)
(* slices, the event reader over a buffered source, and the one-shot calls *)
(* that collect or append whole resources.                                 *)
(* Sources: src/src/decompressor/framing/session.rs, reader.rs, owner.rs.  *)
(***************************************************************************)

VARIABLES
  tape,       \* the input: raw, footer flag, chunks, bytes after the end
  eng,        \* Engine
  got,        \* what ResourceData events brought, a text per resource
  heard,      \* the last call's tag
  shelf       \* the caller: how it reads, and what it ends with

sessionVars == <<tape, eng, got, heard, shelf>>

TapeBytes == (IF tape.raw THEN tape.chunks[1].coded ELSE WireEnd(tape.chunks)) + tape.trailing
Unread    == TapeBytes - eng.in

SessionStart(retain, most, how) ==
  /\ eng = NewEngine(retain, most)
  /\ got = <<>> /\ heard = "none"
  /\ shelf = [how |-> how, eof |-> FALSE, filled |-> 0, result |-> "none"]

(* The events of a call reach the caller. *)
Hear(r) ==
  /\ eng' = r.e
  /\ heard' = r.tag
  /\ got' = CASE r.tag = "Start" -> Append(got, <<>>)
              [] r.made # <<>>   -> [got EXCEPT ![Len(got)] = @ \o r.made]
              [] OTHER           -> got

(* FramedDecoderSession::process, flush and finish *)
SessionCall(len, room, fin, ahead) ==
  /\ shelf.how = "session" /\ eng.phase # "failed" /\ ~eng.finished
  /\ len \in 0 .. Unread
  /\ Hear(Process(eng, tape, len, room, fin, ahead))
  /\ UNCHANGED <<tape, shelf>>

(* FramedReader::next_event: pending events first, without the source;     *)
(* then what the source has, or its end.                                   *)
ReaderCall(fill, room, ahead) ==
  /\ shelf.how = "reader" /\ eng.phase # "failed" /\ ~eng.finished
  /\ fill \in (IF Unread = 0 THEN {0} ELSE 1 .. Unread)
  /\ \E quiet \in {Process(eng, tape, 0, room, shelf.eof, ahead)} :
       IF quiet.tag # "Input"
       THEN Hear(quiet) /\ shelf' = shelf
       ELSE /\ Hear(Process(quiet.e, tape, fill, room, shelf.eof \/ fill = 0, ahead))
            /\ shelf' = [shelf EXCEPT !.eof = @ \/ fill = 0]
  /\ tape' = tape

ShotResult(r) ==
  CASE r.tag \in Errors -> r.tag
    [] r.tag = "Output" /\ shelf.how = "slice" -> "OutputTooSmall"
    [] r.tag = "Finished" /\ TapeBytes # r.e.in -> "TrailingData"
    [] r.tag = "Finished" /\ TapeBytes = r.e.in -> "whole"
    [] OTHER -> "none"

(* FramedDecompressor::owned, append and slice: every call offers all that *)
(* is left and promises its end; a failure takes back what was appended.   *)
ShotCall(room, ahead) ==
  /\ shelf.how \in {"owned", "append", "slice"} /\ shelf.result = "none"
  /\ \E r \in {Process(eng, tape, Unread, IF shelf.how = "slice" THEN room - eng.out ELSE room, TRUE, ahead)} :
       /\ shelf' = [shelf EXCEPT !.result = ShotResult(r),
                      !.filled = IF shelf.how = "append" /\ ShotResult(r) \notin {"none", "whole"} THEN 0 ELSE r.e.out]
       /\ Hear(r)
  /\ tape' = tape

Ended == eng.phase = "failed" \/ eng.finished \/ shelf.result # "none"

(* Engine::result: every resource with its metadata, and the rest.         *)
FieldsAt(i)  == IF i = 0 THEN None ELSE <<eng.metadata[i].fields>>
Collected ==
  [resources |-> [i \in DOMAIN eng.resources |->
                    [text |-> got[i], meta |-> FieldsAt(eng.resources[i].meta),
                     footer |-> FieldsAt(eng.resources[i].footer)]],
   globals |-> [i \in DOMAIN SelectSeq(eng.metadata, LAMBDA m : m.kind = "global") |->
                  SelectSeq(eng.metadata, LAMBDA m : m.kind = "global")[i].fields]]

=============================================================================
