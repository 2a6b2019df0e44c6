------------------------------ MODULE MCFraming ------------------------------
(***************************************************************************)
(* Framed compression from end to end: a script of commands and resources  *)
(* is encoded through a writer over a failing sink, or by the driver; what *)
(* it produced is decoded by a session, an event reader or a one-shot      *)
(* call, or read at random through the directory.  In a stage of its own   *)
(* the decoder and the seek reader meet a peer that sends anything.        *)
(***************************************************************************)
EXTENDS FramedEncoder, FramedSeek

-----------------------------------------------------------------------------
(* A peer that sends anything: chunks of every kind in any order, decoders *)
(* kept or left open, references to earlier content, copies of metadata,   *)
(* directories and footers that are right or wrong, a bare stream, a       *)
(* promised size.  It adds a chunk when the decoder has taken all there is. *)

CONSTANTS
  Menus,      \* the sets of chunks a peer picks from
  MostChunks, \* bound: chunks of a container
  Exacts,     \* promised sizes, -1 for none
  PeerOffers, \* lengths of the slices offered
  PeerRooms   \* and of the ones decoded into

VARIABLES
  menu,
  closed,     \* the peer adds no more
  accepted    \* the sequential decoder finished

peerVars == <<menu, closed, accepted>>

-----------------------------------------------------------------------------
(* What a peer may add: a template, completed by what is there already.    *)
T(kind, codec) == [Plain EXCEPT !.kind = kind, !.codec = codec]
Raw(kind)      == [T(kind, "raw") EXCEPT !.coded = 1]
Coded(kind, codec, ends) == [T(kind, codec) EXCEPT !.coded = 2, !.ends = ends, !.declared = 1]
Fields(kind, of, value) == [Raw(kind) EXCEPT !.of = of, !.text = <<Field("aa", value)>>]
Refer(kind, to, at) == [Coded(kind, "shared", TRUE) EXCEPT !.refs = <<[to |-> to, at |-> at]>>]
Ends(what)     == [Plain EXCEPT !.kind = what]

Sequence == {Raw(k) : k \in {"data", "first", "middle", "last"}}
          \cup {Fields(k, "none", 1) : k \in {"metadata", "footerMeta", "global"}}
          \cup {[Plain EXCEPT !.coded = 1], Fields("repeat", "metadata", 1), Ends("directory"), Ends("footer")}
Codecs == {Raw("data"), Coded("data", "brotli", TRUE), Coded("data", "brotli", FALSE),
           Coded("data", "keep", TRUE), Coded("first", "brotli", FALSE), Coded("last", "keep", TRUE),
           Coded("middle", "keep", FALSE), Refer("data", "chunk", Signature), Refer("data", "resource", Signature),
           Refer("last", "chunk", Signature), [Coded("data", "brotli", TRUE) EXCEPT !.declared = 2],
           Ends("directory"), Ends("footer")}
Tails  == {Raw("data"), Fields("metadata", "none", 1), Fields("footerMeta", "none", 2),
           Fields("repeat", "metadata", 1), Fields("repeat", "metadata", 2), Fields("repeat", "footerMeta", 2),
           Ends("directory"), Ends("short"), Ends("astray"), Ends("footer"), Ends("sizeless"), Ends("dirless"),
           Ends("oversized")}
MCMenus == {Sequence, Codecs, Tails}
MCExacts == {-1, 1}

(* The directory that lists every content chunk, and the first copy.       *)
Listing(chunks) == LET content == SelectSeq(chunks, HasCodec)
                   IN [k \in DOMAIN content |-> Entry(content[k])]
FirstAt(chunks, kind) ==
  LET at == {k \in DOMAIN chunks : chunks[k].kind = kind}
  IN IF at = {} THEN 0 ELSE chunks[CHOOSE k \in at : \A m \in at : k <= m].at
KeptDict(chunks) == LET content == SelectSeq(chunks, HasCodec)
                    IN IF content = <<>> THEN <<>> ELSE Last(content).dict
Earlier(chunks, refs) == \A k \in DOMAIN refs :
  /\ \E c \in Range(chunks) : c.at = refs[k].at /\ HasCodec(c)
  /\ refs[k].to = "chunk" \/ \E c \in Range(chunks) : c.kind \in {"data", "last"}
Complete(t, chunks) ==
  LET at == WireEnd(chunks)
      dir == FirstAt(chunks, "directory")
      listing == [Plain EXCEPT !.kind = "directory", !.at = at, !.ptr = FirstAt(chunks, "repeat"),
                    !.entries = Listing(chunks)]
      short(es) == IF es = <<>> THEN es ELSE Front(es)
  IN CASE t.kind = "directory" -> listing
       [] t.kind = "short"     -> [listing EXCEPT !.entries = short(@)]
       [] t.kind = "astray"    -> [listing EXCEPT !.ptr = @ + 1]
       [] t.kind = "footer"    -> FooterChunk(at, FooterSize(at, dir), dir)
       [] t.kind = "sizeless"  -> FooterChunk(at, 0, dir)
       [] t.kind = "dirless"   -> FooterChunk(at, 0, IF dir = 0 THEN Signature ELSE 0)
       [] t.kind = "oversized" -> FooterChunk(at, FooterSize(at, dir) + 1, dir)
       [] OTHER -> [t EXCEPT !.at = at,
                      !.text = IF t.kind \in DataKinds THEN << <<Len(chunks) + 1, 1>> >> ELSE @,
                      !.dict = CASE t.codec = "keep" -> KeptDict(chunks)
                                 [] t.refs # <<>> /\ Earlier(chunks, t.refs) -> DictionaryOf(chunks, t.refs)
                                 [] OTHER -> <<>>]

Member == [Plain EXCEPT !.text = << <<1, 1>>, <<1, 2>> >>, !.coded = 4]
PeerInit ==
  /\ menu \in Menus
  /\ \E raw \in BOOLEAN, footer \in BOOLEAN, exact \in Exacts, retain \in BOOLEAN :
       /\ tape = [raw |-> raw, footer |-> footer, trailing |-> 0, chunks |-> IF raw THEN <<Member>> ELSE <<>>]
       /\ exact >= 0 => retain /\ menu = Sequence
       /\ ~retain => menu = Codecs
       /\ raw => footer /\ menu = Sequence
       /\ SessionStart(retain, [exact |-> exact], "session")
  /\ closed = FALSE /\ accepted = FALSE

(* The stage without a peer.                                                *)
NoPeer == menu = {} /\ closed = FALSE /\ accepted = FALSE

Adds ==
  /\ Unread = 0 /\ ~closed /\ ~Ended /\ eng.phase = "header" /\ eng.pend = 0 /\ heard = "Input"
  /\ Len(tape.chunks) < MostChunks
  /\ \E t \in menu :
       /\ ~tape.footer => t.kind \in DataKinds
       /\ tape' = [tape EXCEPT !.chunks = Append(@, Complete(t, @))]
  /\ heard' = "none"
  /\ UNCHANGED <<menu, closed, accepted, eng, got, shelf, seekVars>>
Closes ==
  /\ ~closed /\ ~Ended
  /\ Unread = 0 \/ tape.raw \/ (tape.chunks # <<>> /\ Last(tape.chunks).kind = "footer")
  /\ closed' = TRUE
  /\ UNCHANGED <<menu, accepted, sessionVars, seekVars>>
Decodes ==
  /\ ~Ended
  /\ \E len \in {Unread} \cup (IF closed THEN {} ELSE PeerOffers), room \in PeerRooms, ahead \in BOOLEAN :
       /\ len > 0 \/ closed \/ heard # "Input"
       /\ SessionCall(len, room, closed, ahead)
  /\ UNCHANGED <<menu, closed, accepted, seekVars>>

(* A container that was read to its end is then read at random, from a     *)
(* source that does not fail.                                              *)
Turns ==
  /\ Ended /\ ~index.open /\ index.error = "none"
  /\ ~tape.raw /\ tape.footer /\ tape.chunks # <<>> /\ Last(tape.chunks).kind = "footer"
  /\ accepted' = eng.finished
  /\ eng' = NewEngine(eng.retain, [exact |-> -1])
  /\ index' = OpenIndex(tape)
  /\ heard' = "none" /\ got' = <<>>
  /\ shelf' = [shelf EXCEPT !.how = "seek", !.result = "turned"]
  /\ UNCHANGED <<menu, closed, tape, task>>
Seeks ==
  /\ shelf.how = "seek"
  /\ \/ \E i \in 1 .. MostChunks : SeekResource(i) \/ (\E footer \in BOOLEAN : SeekMetadata(i, footer))
     \/ \E room \in PeerRooms : SeekRead(room)
     \/ SeekClose \/ SeekStep
  /\ index'.faults = 0
  /\ UNCHANGED <<menu, closed, accepted>>

PeerStep == Adds \/ Closes \/ Decodes \/ Turns \/ Seeks

-----------------------------------------------------------------------------
(* The order of chunks, as a relation between neighbours.                  *)
Unpadded(chunks) == SelectSeq(chunks, LAMBDA c : c.kind # "padding")
Follows(before, kind) ==
  CASE before \in {"first", "middle"} -> kind \in {"middle", "last"}
    [] before = "metadata"            -> kind \in {"data", "first"}
    [] before = "repeat"              -> kind \in {"repeat", "directory"}
    [] before = "directory"           -> kind = "footer"
    [] before \in {"data", "last"}    -> kind \notin {"middle", "last"}
    [] OTHER                          -> kind \notin {"middle", "last", "footerMeta"}
InSequence(chunks, footer) ==
  LET s == Unpadded(chunks)
  IN \A i \in DOMAIN s :
       /\ Follows(IF i = 1 THEN "none" ELSE s[i - 1].kind, s[i].kind)
       /\ ~footer => s[i].kind \in DataKinds /\ (i > 1 => s[i].kind \in {"middle", "last"})

(* What the chunks of a well-ordered container stand for.                  *)
StartsOf(chunks) == SelectSeq([k \in DOMAIN chunks |-> k], LAMBDA k : chunks[k].kind \in {"data", "first"})
LastOf(chunks, k) ==
  CHOOSE m \in k .. Len(chunks) :
    chunks[m].kind \in {"data", "last"} /\ \A j \in k .. m - 1 : chunks[j].kind \notin {"data", "last"}
MetaNear(s, k, kind) == IF k \in DOMAIN s /\ s[k].kind = kind THEN <<s[k].text>> ELSE None
Reading(chunks) ==
  LET s == Unpadded(chunks)
      starts == StartsOf(s)
  IN [i \in DOMAIN starts |->
        LET k == starts[i]
            m == LastOf(s, k)
        IN [text |-> FlattenSeq([j \in 1 .. m - k + 1 |-> s[k + j - 1].text]),
            meta |-> MetaNear(s, k - 1, "metadata"), footer |-> MetaNear(s, m + 1, "footerMeta")]]

(* Chunks out of order are refused as such, and only those: the flags that *)
(* the decoder keeps amount to what may stand next to what.                *)
OrderIsTheGrammar ==
  shelf.how = "session" /\ ~tape.raw =>
    /\ heard = "InvalidOrder" => ~InSequence(eng.chunks, tape.footer) \/ (~tape.footer /\ eng.resources = <<>>)
    /\ heard # "InvalidOrder" => InSequence(eng.chunks, tape.footer)

(* A container that is accepted is whole: it ends with its footer, its     *)
(* resources and metadata are the ones its chunks spell, decoded with the  *)
(* dictionaries they were coded with, and the size is the promised one.    *)
AcceptsTheWhole ==
  shelf.how = "session" /\ eng.finished =>
    /\ tape.raw => got = <<Member.text>>
    /\ ~tape.raw =>
         /\ Last(Unpadded(tape.chunks)).kind \in IF tape.footer THEN {"footer"} ELSE {"data", "last"}
         /\ Collected.resources = Reading(tape.chunks)
    /\ eng.most.exact >= 0 => Len(FlattenSeq(got)) = eng.most.exact

(* A directory that the sequential decoder accepted opens and serves every *)
(* resource; one that opens serves, of a resource, only what its chunks    *)
(* spell, also in a container the sequential decoder refuses.              *)
SeekServesTheSame ==
  shelf.how = "seek" =>
    /\ accepted => index.error \in {"none", "CentralDirectoryRequired"}
    /\ accepted => task.error \in {"none", "Io"}
    /\ index.open /\ task.what = "resource" =>
         /\ IsPrefix(task.text, Reading(tape.chunks)[task.of].text)
         /\ task.ended /\ task.error = "none" => task.text = Reading(tape.chunks)[task.of].text
    /\ index.open /\ task.what = "metadata" /\ task.ended /\ task.error = "none" =>
         task.text = IF task.footer THEN Reading(tape.chunks)[task.of].footer ELSE Reading(tape.chunks)[task.of].meta

-----------------------------------------------------------------------------
(* The whole. *)

CONSTANTS
  Scripts,    \* what the client wants to encode
  Pieces,     \* lengths of a write
  Offers,     \* lengths of the slices offered to the decoder
  Rooms,      \* and of the ones it decodes into
  Extras,     \* bytes after the end of the input, or missing
  Callers     \* who decodes

(* What a client may ask for. *)
Pointers == Seq([to : {"chunk", "resource", "serialized"}, at : Nat])
Commands ==
  [op : {"metadata"}, kind : {"metadata", "footerMeta", "global"}, codec : {"raw", "brotli", "shared"},
   fields : Seq([code : STRING, value : Nat]), refs : Pointers]
  \cup [op : {"resource"}, coding : {"raw", "brotli", "shared"}, refs : Pointers, len : Nat]
  \cup [op : {"padding"}, bytes : Nat]

ASSUME ClientAssumption == Pieces \subseteq Nat /\ \A s \in Scripts : s.items \in Seq(Commands)

VARIABLES
  stage,      \* "writer", "driver", "decode", "seek" or "peer"
  script,
  todo        \* the writer's client: its next item, what it is doing

vars == <<stage, script, todo, encoderVars, pipe, drive, sessionVars, seekVars, peerVars>>

-----------------------------------------------------------------------------
(* Scripts. *)
Meta(kind, fields, codec, refs) ==
  [op |-> "metadata", kind |-> kind, fields |-> fields, codec |-> codec, refs |-> refs]
Res(coding, refs, len) == [op |-> "resource", coding |-> coding, refs |-> refs, len |-> len]
Pad(n)      == [op |-> "padding", bytes |-> n]
To(to, at)  == [to |-> to, at |-> at]
Container(directory, repeat) == [container |-> TRUE, directory |-> directory, repeat |-> repeat]

(* Metadata around its resources, repeated in part at the end;             *)
(* resources that refer to an earlier resource and to a metadata chunk;    *)
(* a single resource without a footer; the limit of chunks; a refusal.     *)
Repeated ==
  [setup |-> Container(TRUE, TRUE), select |-> {"aa"},
   items |-> <<Meta("metadata", <<Field("id", 1), Field("aa", 1)>>, "raw", <<>>), Res("raw", <<>>, 1),
               Meta("footerMeta", <<Field("aa", 2), Field("bb", 1)>>, "brotli", <<>>), Res("brotli", <<>>, 1)>>]
Referring ==
  [setup |-> Container(TRUE, FALSE), select |-> {},
   items |-> <<Res("brotli", <<>>, 3), Pad(1),
               Meta("metadata", <<Field("bb", 3)>>, "shared", <<To("chunk", Signature)>>),
               Res("shared", <<To("resource", Signature)>>, 1)>>]
Chained ==
  [setup |-> Container(TRUE, FALSE), select |-> {},
   items |-> <<Meta("global", <<Field("bb", 3)>>, "raw", <<>>), Res("raw", <<>>, 2),
               Res("shared", <<To("chunk", Signature), To("serialized", 9)>>, 1)>>]
Single == [setup |-> [container |-> FALSE, directory |-> FALSE, repeat |-> FALSE], select |-> {},
           items |-> <<Res("brotli", <<>>, 2)>>]
TooMany == [setup |-> Container(FALSE, FALSE), select |-> {},
            items |-> [i \in 1 .. 8 |-> IF i = 8 THEN Res("raw", <<>>, 3) ELSE Pad(0)]]
Refused == [setup |-> Container(TRUE, TRUE), select |-> {},
            items |-> <<Pad(2), Meta("footerMeta", <<Field("aa", 1)>>, "raw", <<>>)>>]
MCExtras == {-3, 0, 1}
MCScripts == {Refused, Repeated, Referring, Chained, Single, TooMany}

(* What decoding it must bring.                                            *)
ResourceItems(s) == {i \in DOMAIN s.items : s.items[i].op = "resource"}
Ordinal(s, i)    == Cardinality({k \in ResourceItems(s) : k <= i})
MetaAt(s, i, kind) ==
  IF i \in DOMAIN s.items /\ s.items[i].op = "metadata" /\ s.items[i].kind = kind
  THEN <<s.items[i].fields>> ELSE None
Wanted(s) ==
  [resources |-> [n \in 1 .. Cardinality(ResourceItems(s)) |->
     LET i == CHOOSE k \in ResourceItems(s) : Ordinal(s, k) = n
     IN [text |-> [k \in 1 .. s.items[i].len |-> <<n, k>>],
         meta |-> MetaAt(s, i - 1, "metadata"), footer |-> MetaAt(s, i + 1, "footerMeta")]],
   globals |-> LET g == SelectSeq(s.items, LAMBDA x : x.op = "metadata" /\ x.kind = "global")
               IN [k \in DOMAIN g |-> g[k].fields]]

-----------------------------------------------------------------------------
NoTape == [raw |-> FALSE, footer |-> TRUE, chunks |-> <<>>, trailing |-> 0]
NoTodo == [item |-> 1, pc |-> "next"]

Init ==
  /\ \/ stage \in {"writer", "driver"} /\ script \in Scripts
        /\ tape = NoTape /\ SessionStart(TRUE, [exact |-> -1], "none")
        /\ NoPeer
     \/ stage = "peer" /\ script = Single
        /\ PeerInit
  /\ setup = script.setup
  /\ todo = NoTodo
  /\ EncoderStart /\ WriterInit
  /\ DriverInit(script.select, script.items)
  /\ SeekInit

(* The writer's client gives its commands in order, retries what the sink  *)
(* failed, flushes at any time, and may drop a resource after a failure.   *)
Orders == IF script.select = {} THEN script.items
          ELSE <<[op |-> "select", codes |-> script.select]>> \o script.items
NextOrder == Orders[todo.item]
ClientCommands ==
  /\ todo.pc = "next" /\ todo.item <= Len(Orders)
  /\ WriterCalls("command", NextOrder)
  /\ todo' = [todo EXCEPT !.pc = "asked"]
ClientLearns ==
  /\ todo.pc = "asked" /\ Idling
  /\ todo' = CASE pipe.ok /\ job.held    -> [todo EXCEPT !.pc = "resource"]
               [] pipe.ok /\ ~job.held   -> [todo EXCEPT !.pc = "next", !.item = @ + 1]
               [] ~pipe.ok /\ ~op.failed -> [todo EXCEPT !.pc = "next"]
               [] OTHER                  -> [todo EXCEPT !.pc = "stuck"]
  /\ UNCHANGED <<encoderVars, pipe>>
ClientWrites ==
  /\ todo.pc = "resource" /\ ~job.done /\ ~op.failed
  /\ \/ \E n \in Pieces : n + pipe.acked <= NextOrder.len /\ ResourceWriterCalls("write", n)
     \/ ResourceWriterCalls("rflush", 0)
     \/ pipe.acked = NextOrder.len /\ ResourceWriterCalls("rfinish", 0)
  /\ todo' = todo
ClientCloses ==
  /\ todo.pc = "resource" /\ (job.done \/ op.failed \/ pipe.faults > 0)
  /\ ResourceWriterDrops
  /\ todo' = [todo EXCEPT !.pc = "next", !.item = IF job.done THEN @ + 1 ELSE @]
ClientFinishes ==
  /\ todo.pc = "next" /\ todo.item > Len(Orders) /\ ~pipe.done /\ ~op.failed
  /\ \/ WriterCalls("finish", NoDoing.cmd)
     \/ WriterCalls("flush", NoDoing.cmd)
  /\ todo' = todo
WriterStage ==
  /\ stage = "writer"
  /\ \/ ClientCommands \/ ClientLearns \/ ClientWrites \/ ClientCloses \/ ClientFinishes
     \/ (~Idling /\ WriterStep /\ todo' = todo)
  /\ UNCHANGED <<stage, script, drive, sessionVars, seekVars, peerVars>>

DriverStage ==
  /\ stage = "driver"
  /\ \/ \E room \in Rooms : drive.status \notin {"Finished", "error"} /\ DriverReads(room)
     \/ drive.deferred /\ DriverReads(1)
     \/ DriverStep
  /\ UNCHANGED <<stage, script, todo, pipe, sessionVars, seekVars, peerVars>>

(* What was encoded is kept, and nothing else of the encoder; bytes may    *)
(* follow it, or be missing.                                               *)
Encoded == \/ stage = "writer" /\ Idling /\ pipe.done
           \/ stage = "driver" /\ drive.pc = "idle" /\ drive.status = "Finished"
Handover ==
  /\ Encoded
  /\ stage' \in {"decode", "seek"}
  /\ \E extra \in Extras, retain \in BOOLEAN, how \in Callers :
       /\ extra > 0 => setup.container
       /\ extra # 0 => retain /\ how # "owned"
       /\ stage' = "seek" => extra = 0 /\ how = "session"
       /\ tape' = [raw |-> FALSE, footer |-> setup.container, chunks |-> box.wire, trailing |-> extra]
       /\ eng' = NewEngine(retain, [exact |-> -1])
       /\ shelf' = [shelf EXCEPT !.how = how]
  /\ box' = Empty /\ job' = NoJob /\ call' = NoCall /\ reply' = NoReply
  /\ op' = [failed |-> FALSE, finishing |-> FALSE, out |-> 0]
  /\ pipe' = [pipe EXCEPT !.sunk = 0, !.acked = 0, !.faults = 0, !.ok = TRUE, !.done = FALSE]
  /\ drive' = [drive EXCEPT !.items = <<>>, !.item = 1, !.made = 0, !.room = 0, !.total = 0, !.status = "none",
                 !.selectionDone = FALSE, !.select = {}]
  /\ todo' = NoTodo
  /\ UNCHANGED <<setup, script, got, heard, seekVars, peerVars>>

DecodeStage ==
  /\ stage = "decode"
  /\ \/ \E len \in {Unread} \cup (IF eng.fin < 0 THEN Offers ELSE {}), room \in Rooms, ahead \in BOOLEAN :
          SessionCall(len, room, len = Unread, ahead)
     \/ \E fill \in Offers \cup {Unread}, room \in Rooms, ahead \in BOOLEAN : ReaderCall(fill, room, ahead)
     \/ \E room \in Rooms, ahead \in BOOLEAN : ShotCall(room, ahead)
  /\ UNCHANGED <<stage, script, todo, encoderVars, pipe, drive, seekVars, peerVars>>

SeekStage ==
  /\ stage = "seek"
  /\ \/ SeekOpen(eng.retain)
     \/ \E i \in 1 .. 2 : SeekResource(i) \/ (\E footer \in BOOLEAN : SeekMetadata(i, footer))
     \/ \E room \in Rooms : SeekRead(room)
     \/ SeekClose \/ SeekStep
  /\ UNCHANGED <<stage, script, todo, encoderVars, pipe, drive, peerVars>>

PeerStage == stage = "peer" /\ PeerStep /\ UNCHANGED <<stage, script, todo, encoderVars, pipe, drive>>

Next == WriterStage \/ DriverStage \/ Handover \/ DecodeStage \/ SeekStage \/ PeerStage

(* A call runs to its end once it is made. *)
EncoderRuns == \/ stage = "writer" /\ PipeSteps /\ UNCHANGED <<stage, script, todo, drive, sessionVars, seekVars, peerVars>>
               \/ stage = "driver" /\ DriverSteps /\ UNCHANGED <<stage, script, todo, pipe, sessionVars, seekVars, peerVars>>
Spec == Init /\ [][Next]_vars /\ WF_vars(EncoderRuns)

Refs == \E i \in DOMAIN script.items : script.items[i].op \in {"resource", "metadata"} /\ script.items[i].refs # <<>>

(* What the framed encoder finishes, the framed decoder takes: however the *)
(* input and the output are cut, it is refused only where references are   *)
(* not allowed, and it brings every resource, its metadata and the global  *)
(* ones; a container that is cut short is never taken for whole.           *)
FramesRoundTrip ==
  stage = "decode" =>
    /\ tape.trailing >= 0 /\ eng.phase = "failed" => heard = "Disabled" /\ Refs /\ ~eng.retain
    /\ tape.trailing >= 0 /\ eng.finished => Collected = Wanted(script)
    /\ tape.trailing < 0 => ~eng.finished
    /\ shelf.result = "whole" => tape.trailing = 0 /\ shelf.filled = Len(FlattenSeq(got))
    /\ shelf.result = "TrailingData" => tape.trailing > 0

(* The sink has what the session handed out but for what the transport     *)
(* holds, through every failure; a finished container is there to its last *)
(* byte, and the client was told of every byte the resource took.          *)
SinkGetsTheFrames ==
  stage = "writer" /\ call.who = "none" =>
    /\ pipe.doing.pc # "called" => pipe.sunk + pipe.held = op.out
    /\ pipe.done => pipe.sunk = box.offset /\ IsFinished(box)
    /\ job.held /\ pipe.doing.pc # "called" => pipe.acked = job.in

(* The loops of process and process_resource end: no call goes round       *)
(* without taking input, giving output or moving on.                       *)
FramingCallsReturn == (call.who # "none") ~> (call.who = "none")

(* Read at random, with a source that may fail, a resource and its         *)
(* metadata are what was encoded, whatever was read before.                *)
SeekAgrees ==
  stage = "seek" =>
    /\ index.error = IF script.setup.directory \/ index.error = "none" THEN "none" ELSE "CentralDirectoryRequired"
    /\ task.error = "none" \/ task.error = "Io" \/ (task.error = "Disabled" /\ Refs /\ ~eng.retain)
    /\ task.what = "resource" =>
         /\ IsPrefix(task.text, Wanted(script).resources[task.of].text)
         /\ task.ended /\ task.error = "none" => task.text = Wanted(script).resources[task.of].text
    /\ task.what = "metadata" /\ task.ended /\ task.error = "none" =>
         task.text = IF task.footer THEN Wanted(script).resources[task.of].footer
                                    ELSE Wanted(script).resources[task.of].meta

(* Also from any peer, what opens for random access is served as it was    *)
(* written, and what the sequential decoder accepted opens and is served.  *)
RandomReadsAgree == SeekAgrees /\ (stage = "peer" => SeekServesTheSame)

(* Whatever chunks a peer sends, the order is refused exactly where the    *)
(* grammar is broken, and what is accepted is whole.                       *)
PeersAreHeldToTheGrammar == stage = "peer" => OrderIsTheGrammar /\ AcceptsTheWhole
=============================================================================
