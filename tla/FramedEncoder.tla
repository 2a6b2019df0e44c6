---------------------------- MODULE FramedEncoder ----------------------------
(***************************************************************************)
(* The framed encoder: a container that queues one chunk at a time, the    *)
(* resource being encoded, and the engine that admits commands and calls.  *)
(* A command or a call that is refused without an effect has no step; the  *)
(* errors that end the session have one.                                   *)
(* Sources: src/src/compressor/framing/core.rs, core/engine.rs,            *)
(* core/resource.rs, core/metadata.rs, session.rs.                         *)
(***************************************************************************)
EXTENDS FramedWire, FiniteSets

CONSTANTS
  ChunkBytes,     \* FramingConfig::chunk_bytes
  MaxChunks       \* FramingConfig::max_chunks

ASSUME EncoderAssumption == ChunkBytes \in Nat \ {0} /\ MaxChunks \in Nat

VARIABLES
  setup,      \* FramingConfig: container, directory, repeat
  box,        \* Container
  job,        \* Resource
  op,         \* Engine: failed, finishing, bytes handed out
  call,       \* the call of process or process_resource in progress
  reply       \* what the last call returned

encoderVars == <<setup, box, job, op, call, reply>>

Empty == [pending |-> 0, wire |-> <<>>, offset |-> Signature, resources |-> 0,
          active |-> FALSE, after |-> FALSE, metaPending |-> FALSE,
          finishing |-> FALSE, cursor |-> 1, repeatOffset |-> 0,
          dirOffset |-> 0, dirDone |-> FALSE, finished |-> FALSE,
          all |-> TRUE, codes |-> {}]
NoJob == [held |-> FALSE, coding |-> "raw", refs |-> <<>>, dict |-> <<>>, input |-> <<>>,
          first |-> TRUE, queued |-> FALSE, done |-> FALSE, in |-> 0, promise |-> <<"none", 0>>]
NoCall  == [who |-> "none", act |-> "process", len |-> 0, room |-> 0, used |-> 0, made |-> 0, pc |-> "output"]
NoReply == [status |-> "none", used |-> 0, made |-> 0]

(* A started session: the signature is queued. *)
EncoderStart ==
  /\ box = [Empty EXCEPT !.pending = Signature]
  /\ job = NoJob
  /\ op = [failed |-> FALSE, finishing |-> FALSE, out |-> 0]
  /\ call = NoCall /\ reply = NoReply

IsFinished(b) == b.finished /\ b.pending = 0
Records(b)    == Chosen(b.wire, HasCodec)

-----------------------------------------------------------------------------
(* Container::queue: the next chunk, at the offset after the last.         *)
HasSlot(b) == Len(b.wire) < MaxChunks
Queue(b, c) ==
  LET q == [c EXCEPT !.at = b.offset]
  IN [b EXCEPT !.wire = Append(@, q), !.offset = @ + Length(q), !.pending = Length(q)]

(* Container::references: pointers to earlier content, one serialized.     *)
References(b, refs) ==
  /\ refs # <<>>
  /\ Cardinality({k \in DOMAIN refs : refs[k].to = "serialized"}) <= 1
  /\ \A k \in DOMAIN refs : \E r \in Range(Records(b)) :
       /\ r.at = refs[k].at
       /\ refs[k].to = "chunk" \/ r.kind \in {"data", "first"}

(* Engine::command and Container::idle *)
Idle == ~op.failed /\ ~op.finishing /\ ~box.active /\ ~box.finishing /\ box.pending = 0

(* Container::metadata *)
CanMetadata(cmd) ==
  /\ setup.container /\ ~box.metaPending
  /\ cmd.kind = "footerMeta" => box.after
  /\ ValidFields(cmd.fields, cmd.kind)
  /\ cmd.refs # <<>> => References(box, cmd.refs)
  /\ HasSlot(box)
MetadataChunk(cmd) ==
  [Plain EXCEPT !.kind = cmd.kind, !.codec = cmd.codec, !.text = cmd.fields,
     !.declared = Len(cmd.fields), !.coded = Len(cmd.fields) + (IF cmd.codec = "raw" THEN 0 ELSE 1),
     !.ends = cmd.codec # "raw", !.refs = cmd.refs,
     !.dict = DictionaryOf(box.wire, cmd.refs)]
AfterMetadata(cmd) ==
  [Queue(box, MetadataChunk(cmd)) EXCEPT !.metaPending = (cmd.kind = "metadata"), !.after = FALSE]

(* Container::repeat_metadata_fields *)
CanSelect == setup.repeat /\ \A r \in Range(Records(box)) : r.kind \notin MetaKinds

(* Container::begin and Resource::begin *)
CanResource(cmd) ==
  /\ HasSlot(box)
  /\ setup.container \/ box.resources = 0
  /\ cmd.coding = "shared" => References(box, cmd.refs)
NewJob(cmd) == [NoJob EXCEPT !.held = TRUE, !.coding = cmd.coding, !.refs = cmd.refs,
                  !.dict = DictionaryOf(box.wire, cmd.refs)]

(* The commands of a session. *)
Can(cmd) ==
  /\ Idle /\ call.who = "none"
  /\ CASE cmd.op = "metadata" -> CanMetadata(cmd)
       [] cmd.op = "select"   -> CanSelect
       [] cmd.op = "padding"  -> HasSlot(box)
       [] cmd.op = "resource" -> CanResource(cmd)
Execute(cmd) ==
  /\ Can(cmd)
  /\ CASE cmd.op = "metadata" -> box' = AfterMetadata(cmd) /\ job' = job
       [] cmd.op = "select"   -> box' = [box EXCEPT !.all = FALSE, !.codes = cmd.codes] /\ job' = job
       [] cmd.op = "padding"  -> box' = Queue(box, [Plain EXCEPT !.coded = cmd.bytes]) /\ job' = job
       [] cmd.op = "resource" -> /\ box' = [box EXCEPT !.active = TRUE, !.after = FALSE, !.metaPending = FALSE]
                                 /\ job' = NewJob(cmd)
  /\ UNCHANGED <<setup, op, call, reply>>

(* FramedResourceSession::drop: an unfinished resource stays active. *)
DropResource ==
  /\ job.held /\ call.who = "none"
  /\ job' = NoJob
  /\ UNCHANGED <<setup, box, op, call, reply>>

-----------------------------------------------------------------------------
(* A call ends with a status or with an error that ends the session.       *)
Answer(status) ==
  /\ reply' = [status |-> status, used |-> call'.used, made |-> call'.made]
Return(status) ==
  /\ call' = [call EXCEPT !.who = "none"]
  /\ Answer(status)
Break(error) ==
  /\ Return(error)
  /\ op' = [op EXCEPT !.failed = TRUE]

(* Container::output into what is left of the caller's slice. *)
Handed == IF box.pending < call.room - call.made THEN box.pending ELSE call.room - call.made

(* Engine::process *)
EngineCall(act, room) ==
  /\ call.who = "none"
  /\ LET open == [NoCall EXCEPT !.who = "engine", !.act = act, !.room = room]
         refuse(error) == /\ call' = [open EXCEPT !.who = "none"] /\ Answer(error)
                          /\ op' = [op EXCEPT !.failed = TRUE]
     IN IF op.failed THEN refuse("InvalidState")
        ELSE IF box.active THEN refuse("Abandoned")
        ELSE IF IsFinished(box)
          THEN call' = [open EXCEPT !.who = "none"] /\ Answer("Finished") /\ op' = op
        ELSE IF op.finishing /\ act # "finish" THEN refuse("InvalidState")
        ELSE /\ call' = open
             /\ op' = [op EXCEPT !.finishing = @ \/ act = "finish"]
             /\ reply' = reply
  /\ UNCHANGED <<setup, box, job>>

EngineOutput ==
  /\ call.who = "engine" /\ call.pc = "output"
  /\ LET n == Handed
         b == [box EXCEPT !.pending = @ - n]
         c == [call EXCEPT !.made = @ + n]
         status == CASE b.pending > 0 -> "NeedsOutput"
                     [] b.pending = 0 /\ b.finished -> "Finished"
                     [] b.pending = 0 /\ ~b.finished /\ call.act = "process" -> "NeedsInput"
                     [] OTHER -> "more"
     IN /\ box' = b
        /\ op' = [op EXCEPT !.out = @ + n]
        /\ IF status = "more" THEN call' = [c EXCEPT !.pc = "suffix"] /\ reply' = reply
           ELSE call' = [c EXCEPT !.who = "none"] /\ Answer(status)
  /\ UNCHANGED <<setup, job>>

(* Originals whose copies are still owed, and the copy of one. *)
Owed(b)    == {i \in b.cursor .. Len(Records(b)) : Records(b)[i].kind \in {"metadata", "footerMeta"}}
CopyOf(c, b) ==
  LET kept == IF b.all THEN c.text ELSE OfCodes(c.text, b.codes)
  IN [Plain EXCEPT !.kind = "repeat", !.codec = "raw", !.of = c.kind,
        !.text = kept, !.coded = Len(kept), !.declared = Len(kept)]
DirectoryChunk(b) ==
  [Plain EXCEPT !.kind = "directory", !.ptr = b.repeatOffset,
     !.entries = [i \in DOMAIN Records(b) |-> Entry(Records(b)[i])]]

(* Container::finish: one chunk of the suffix for each call. *)
Suffix(b) ==
  IF ~setup.container THEN [b EXCEPT !.finished = TRUE]
  ELSE IF setup.repeat /\ Owed(b) # {}
    THEN LET i == CHOOSE k \in Owed(b) : \A m \in Owed(b) : k <= m
         IN [Queue(b, CopyOf(Records(b)[i], b)) EXCEPT
               !.cursor = i + 1, !.repeatOffset = IF @ = 0 THEN b.offset ELSE @]
  ELSE IF setup.directory /\ ~b.dirDone
    THEN [Queue(b, DirectoryChunk(b)) EXCEPT !.dirOffset = b.offset, !.dirDone = TRUE]
  ELSE [Queue(b, FooterChunk(b.offset, FooterSize(b.offset, b.dirOffset), b.dirOffset))
          EXCEPT !.finished = TRUE]
EngineSuffix ==
  /\ call.who = "engine" /\ call.pc = "suffix"
  /\ IF \/ box.metaPending
        \/ ~setup.container /\ box.resources # 1
        \/ setup.container /\ ~HasSlot(box)
     THEN Break("Invalid") /\ box' = box
     ELSE /\ box' = Suffix([box EXCEPT !.finishing = TRUE])
          /\ call' = [call EXCEPT !.pc = "output"]
          /\ UNCHANGED <<op, reply>>
  /\ UNCHANGED <<setup, job>>

-----------------------------------------------------------------------------
(* Resource::process.  The text of the i-th resource is <<i, 1>>, <<i, 2>> *)
(* and so on; a call offers the next len of it.                            *)
Symbols(from, n) == [k \in 1 .. n |-> <<box.resources + 1, from + k>>]

ResourceCall(len, room, act) ==
  /\ call.who = "none" /\ job.held
  /\ LET open == [NoCall EXCEPT !.who = "resource", !.act = act, !.len = len, !.room = room]
         closed == [open EXCEPT !.who = "none"]
         bound == <<act, job.in + len>>
     IN \/ /\ op.failed
           /\ call' = closed /\ Answer("InvalidState") /\ UNCHANGED <<op, job>>
        \/ /\ ~op.failed /\ job.done
           /\ call' = closed /\ Answer("Finished") /\ UNCHANGED <<op, job>>
        \/ /\ ~op.failed /\ ~job.done /\ job.promise[1] # "none" /\ job.promise # bound
           /\ call' = closed /\ Answer("InvalidState")
           /\ op' = [op EXCEPT !.failed = TRUE] /\ job' = job
        \/ /\ ~op.failed /\ ~job.done /\ job.promise \in {<<"none", 0>>, bound}
           /\ call' = open
           /\ job' = [job EXCEPT !.promise = IF act = "process" THEN @ ELSE bound]
           /\ UNCHANGED <<op, reply>>
  /\ UNCHANGED <<setup, box>>

ResourceOutput ==
  /\ call.who = "resource" /\ call.pc = "output"
  /\ box' = [box EXCEPT !.pending = @ - Handed]
  /\ op' = [op EXCEPT !.out = @ + Handed]
  /\ IF box.pending > Handed
     THEN call' = [call EXCEPT !.made = @ + Handed, !.who = "none"] /\ Answer("NeedsOutput")
     ELSE call' = [call EXCEPT !.made = @ + Handed, !.pc = "pick"] /\ reply' = reply
  /\ UNCHANGED <<setup, job>>

ResourceDone ==
  /\ call.who = "resource" /\ call.pc = "pick" /\ job.queued
  /\ job' = [job EXCEPT !.done = TRUE]
  /\ box' = [box EXCEPT !.active = FALSE, !.after = TRUE, !.resources = @ + 1]
  /\ Return("Finished")
  /\ UNCHANGED <<setup, op>>

(* Mutant: a full buffer is filled again, with nothing. *)
ResourceFillFull ==
  /\ call.who = "resource" /\ call.pc = "pick" /\ ~job.queued
  /\ call.used < call.len /\ Len(job.input) <= ChunkBytes
  /\ LET room == ChunkBytes - Len(job.input)
         n == IF call.len - call.used < room THEN call.len - call.used ELSE room
     IN /\ job' = [job EXCEPT !.input = @ \o Symbols(job.in, n), !.in = @ + n]
        /\ call' = [call EXCEPT !.used = @ + n, !.pc = "output"]
  /\ UNCHANGED <<setup, box, op, reply>>

ResourceFill ==
  /\ call.who = "resource" /\ call.pc = "pick" /\ ~job.queued
  /\ call.used < call.len /\ Len(job.input) < ChunkBytes
  /\ LET room == ChunkBytes - Len(job.input)
         n == IF call.len - call.used < room THEN call.len - call.used ELSE room
     IN /\ job' = [job EXCEPT !.input = @ \o Symbols(job.in, n), !.in = @ + n]
        /\ call' = [call EXCEPT !.used = @ + n, !.pc = "output"]
  /\ UNCHANGED <<setup, box, op, reply>>

(* Resource::emit *)
PartKind(first, last) ==
  IF first THEN IF last THEN "data" ELSE "first" ELSE IF last THEN "last" ELSE "middle"
Part(last) ==
  LET raw == job.coding = "raw"
  IN [Plain EXCEPT !.kind = PartKind(job.first, last),
        !.codec = IF raw \/ job.first THEN job.coding ELSE "keep",
        !.text = job.input, !.declared = Len(job.input),
        !.coded = Len(job.input) + (IF raw THEN 0 ELSE 1), !.ends = last /\ ~raw,
        !.refs = IF job.first THEN job.refs ELSE <<>>, !.dict = job.dict]
Emit(last) ==
  IF HasSlot(box)
  THEN /\ box' = Queue(box, Part(last))
       /\ job' = [job EXCEPT !.input = <<>>, !.first = FALSE, !.queued = last]
       /\ call' = [call EXCEPT !.pc = "output"]
       /\ UNCHANGED <<op, reply>>
  ELSE Break("Limit") /\ UNCHANGED <<box, job>>
ResourceEmit ==
  /\ call.who = "resource" /\ call.pc = "pick" /\ ~job.queued
  /\ \/ call.used < call.len /\ Len(job.input) = ChunkBytes /\ Emit(FALSE)
     \/ call.used = call.len /\ call.act = "flush" /\ job.input # <<>> /\ Emit(FALSE)
     \/ call.used = call.len /\ call.act = "finish" /\ Emit(TRUE)
  /\ setup' = setup

ResourceWaits ==
  /\ call.who = "resource" /\ call.pc = "pick" /\ ~job.queued
  /\ call.used = call.len
  /\ call.act = "flush" => job.input = <<>>
  /\ call.act # "finish"
  /\ job' = [job EXCEPT !.promise = IF call.act = "flush" THEN <<"none", 0>> ELSE @]
  /\ Return("NeedsInput")
  /\ UNCHANGED <<setup, box, op>>

EncoderStep ==
  \/ EngineOutput \/ EngineSuffix
  \/ ResourceOutput \/ ResourceDone \/ ResourceFill \/ ResourceEmit \/ ResourceWaits

-----------------------------------------------------------------------------
(***************************************************************************)
(* The Write side of the framed encoder: a container writer and the writer *)
(* of one resource share a transport of fixed size in front of a sink that *)
(* may take part of a write or fail.  An operation that fails is retried   *)
(* or given up by its caller; what the transport holds stays.              *)
(* Source: src/src/compressor/framing/writer.rs.                           *)
(***************************************************************************)

CONSTANTS
  PipeBytes,      \* Transport::bytes
  MaxFaults       \* bound: failures of the sink in a behaviour

ASSUME WriterAssumption == PipeBytes \in Nat \ {0} /\ MaxFaults \in Nat

VARIABLE pipe
writerVars == <<encoderVars, pipe>>

(* doing is the operation in progress: drain(op), complete(op) or write.   *)
(* before: the transport is drained first; after: what it then returns.    *)
NoDoing == [what |-> "idle", cmd |-> [op |-> "none"], len |-> 0, pc |-> "before", status |-> "none"]
WriterInit ==
  pipe = [held |-> 0, deferred |-> FALSE, sunk |-> 0, acked |-> 0, faults |-> 0,
          doing |-> NoDoing, ok |-> TRUE, done |-> FALSE]

Doing(d)   == pipe' = [pipe EXCEPT !.doing = d]
Idling     == pipe.doing.what = "idle"
End(p, ok) == [p EXCEPT !.doing = NoDoing, !.ok = ok]

(* FramedWriter::resource, metadata_with_options, repeat_metadata_fields,  *)
(* padding, flush and try_finish all drain first.                          *)
WriterCalls(what, cmd) ==
  /\ Idling /\ ~job.held /\ call.who = "none"
  /\ Doing([NoDoing EXCEPT !.what = what, !.cmd = cmd])
  /\ UNCHANGED encoderVars

(* ResourceWriter::write, flush and try_finish *)
ResourceWriterCalls(what, len) ==
  /\ Idling /\ job.held /\ call.who = "none"
  /\ what = "write" => ~job.done
  /\ Doing([NoDoing EXCEPT !.what = what, !.len = len])
  /\ UNCHANGED encoderVars

(* ResourceWriter is dropped: nothing is written. *)
ResourceWriterDrops ==
  /\ Idling /\ DropResource
  /\ pipe' = pipe

(* Transport::drain: the sink takes bytes, or fails and ends the operation. *)
SinkTakes(n) ==
  /\ ~Idling /\ call.who = "none" /\ pipe.doing.pc # "called"
  /\ n \in 1 .. pipe.held
  /\ pipe' = [pipe EXCEPT !.held = @ - n, !.sunk = @ + n]
  /\ UNCHANGED encoderVars
(* Mutant: a failed write empties the transport. *)
SinkFailsAndForgets ==
  /\ ~Idling /\ call.who = "none" /\ pipe.doing.pc # "called"
  /\ pipe.held > 0 /\ pipe.faults < MaxFaults
  /\ pipe' = End([pipe EXCEPT !.faults = @ + 1, !.held = 0], FALSE)
  /\ UNCHANGED encoderVars
SinkFails ==
  /\ ~Idling /\ call.who = "none" /\ pipe.doing.pc # "called"
  /\ pipe.held > 0 /\ pipe.faults < MaxFaults
  /\ pipe' = End([pipe EXCEPT !.faults = @ + 1], FALSE)
  /\ UNCHANGED encoderVars
Deferred ==
  /\ ~Idling /\ pipe.doing.pc # "called" /\ pipe.held = 0 /\ pipe.deferred
  /\ pipe' = End([pipe EXCEPT !.deferred = FALSE], FALSE)
  /\ UNCHANGED encoderVars
Drained == ~Idling /\ pipe.held = 0 /\ ~pipe.deferred

(* The session is called with the whole transport as its output. *)
PipeCalls ==
  /\ Drained /\ pipe.doing.pc = "before" /\ call.who = "none"
  /\ CASE pipe.doing.what = "write"   -> ResourceCall(pipe.doing.len, PipeBytes, "process")
       [] pipe.doing.what = "rflush"  -> ResourceCall(0, PipeBytes, "flush")
       [] pipe.doing.what = "rfinish" -> ResourceCall(0, PipeBytes, "finish")
       [] pipe.doing.what = "finish"  -> EngineCall("finish", PipeBytes)
       [] OTHER                       -> EngineCall("process", PipeBytes)
  /\ Doing([pipe.doing EXCEPT !.pc = "called"])

PipeSteps == pipe.doing.pc = "called" /\ EncoderStep /\ UNCHANGED pipe

(* A write returns as soon as bytes were taken; the others drain on.       *)
Statuses == {"NeedsInput", "NeedsOutput", "Finished"}
PipeReturns ==
  /\ pipe.doing.pc = "called" /\ call.who = "none"
  /\ LET held == [pipe EXCEPT !.held = reply.made]
         failed == reply.status \notin Statuses
     IN pipe' =
          IF pipe.doing.what = "write"
          THEN IF reply.used > 0 THEN End([held EXCEPT !.acked = @ + reply.used, !.deferred = failed], TRUE)
               ELSE IF failed THEN End(held, FALSE)
               ELSE [held EXCEPT !.doing.pc = "before"]
          ELSE [held EXCEPT !.deferred = failed, !.doing.pc = "after", !.doing.status = reply.status]
  /\ UNCHANGED encoderVars

(* The drain loop goes on while the session has output; then the command   *)
(* is admitted or refused, or the operation is done.                       *)
PipeLoops ==
  /\ Drained /\ pipe.doing.pc = "after" /\ pipe.doing.status = "NeedsOutput"
  /\ Doing([pipe.doing EXCEPT !.pc = "before"])
  /\ UNCHANGED encoderVars
Completed == Drained /\ pipe.doing.pc = "after" /\ pipe.doing.status # "NeedsOutput"
PipeDone ==
  /\ Completed
  /\ LET commands == pipe.doing.what = "command"
         admits == commands /\ Can(pipe.doing.cmd)
     IN /\ IF admits THEN Execute(pipe.doing.cmd) ELSE UNCHANGED encoderVars
        /\ pipe' = End([pipe EXCEPT !.done = @ \/ pipe.doing.what = "finish",
                          !.acked = IF pipe.doing.what = "command" /\ pipe.doing.cmd.op = "resource" THEN 0 ELSE @],
                       commands => admits)

(* flush and try_finish flush the sink last. *)
SinkFlushFails ==
  /\ Completed /\ pipe.doing.what \in {"flush", "finish", "rflush"} /\ pipe.faults < MaxFaults
  /\ pipe' = End([pipe EXCEPT !.faults = @ + 1], FALSE)
  /\ UNCHANGED encoderVars

WriterStep ==
  \/ ResourceWriterDrops
  \/ \E n \in 1 .. PipeBytes : SinkTakes(n)
  \/ SinkFails \/ Deferred \/ PipeCalls \/ PipeSteps \/ PipeReturns \/ PipeLoops \/ PipeDone
  \/ SinkFlushFails

-----------------------------------------------------------------------------
(***************************************************************************)
(* The driver that encodes a given list of items: the Read side of the     *)
(* framed encoder and its one-shot calls.  Each call fills the caller's    *)
(* slice, opening the items as it reaches them.                            *)
(* Sources: src/src/compressor/framing/core/driver.rs, reader.rs,          *)
(* owner.rs.                                                               *)
(***************************************************************************)

VARIABLE drive

(* The selection of repeated fields, then the items: commands, a resource  *)
(* with the length of its text.                                            *)
DriverInit(selection, items) ==
  drive = [select |-> selection, items |-> items, item |-> 1, pc |-> "idle", room |-> 0,
           made |-> 0, total |-> 0, resourceActive |-> FALSE, offset |-> 0,
           selectionDone |-> FALSE, status |-> "none", failed |-> FALSE, deferred |-> FALSE]

ItemsLeft == drive.item <= Len(drive.items)
NextItem  == drive.items[drive.item]
Room      == drive.room - drive.made
Gives(d, status) ==
  [d EXCEPT !.pc = "idle", !.status = status, !.total = @ + d.made]

(* FramedEncoderReader::read and the loops of compress_into and            *)
(* compress_to_slice: an error after output is told by the next call.      *)
DriverReads(room) ==
  /\ drive.pc = "idle" /\ room > 0
  /\ drive' = IF drive.deferred THEN [drive EXCEPT !.deferred = FALSE, !.status = "error"]
              ELSE IF drive.failed THEN [drive EXCEPT !.status = "error"]
              ELSE [drive EXCEPT !.pc = IF drive.resourceActive THEN "resource" ELSE "session",
                      !.room = room, !.made = 0]
  /\ UNCHANGED encoderVars

(* Driver::process: the open resource, with all that is left of its text.  *)
DriverResource ==
  /\ drive.pc = "resource"
  /\ ResourceCall(NextItem.len - drive.offset, Room, "finish")
  /\ drive' = [drive EXCEPT !.pc = "inResource"]
DriverResourceReturns ==
  /\ drive.pc = "inResource" /\ call.who = "none"
  /\ LET d == [drive EXCEPT !.made = @ + reply.made, !.offset = @ + reply.used]
     IN drive' = CASE reply.status = "Finished" ->
                        [d EXCEPT !.pc = "session", !.resourceActive = FALSE, !.item = @ + 1, !.offset = 0]
                   [] reply.status = "NeedsOutput" -> Gives(d, reply.status)
                   [] OTHER -> Gives([d EXCEPT !.failed = TRUE, !.deferred = d.made > 0], "error")
  /\ UNCHANGED encoderVars

(* then the session, which finishes once the items are done, *)
DriverSession ==
  /\ drive.pc = "session"
  /\ EngineCall(IF ~ItemsLeft /\ drive.selectionDone THEN "finish" ELSE "process", Room)
  /\ drive' = [drive EXCEPT !.pc = "inSession"]
DriverSessionReturns ==
  /\ drive.pc = "inSession" /\ call.who = "none"
  /\ LET d == [drive EXCEPT !.made = @ + reply.made]
     IN drive' = CASE reply.status = "NeedsInput" -> [d EXCEPT !.pc = "next"]
                   [] reply.status \in {"NeedsOutput", "Finished"} -> Gives(d, reply.status)
                   [] OTHER -> Gives([d EXCEPT !.failed = TRUE, !.deferred = d.made > 0], "error")
  /\ UNCHANGED encoderVars
DriverSteps == drive.pc \in {"inResource", "inSession"} /\ EncoderStep /\ UNCHANGED drive

(* then the selection and the next item.  A refused command is an error.   *)
DriverNext ==
  /\ drive.pc = "next"
  /\ IF ~drive.selectionDone /\ drive.select # {}
     THEN LET cmd == [op |-> "select", codes |-> drive.select]
          IN IF Can(cmd) THEN Execute(cmd) /\ drive' = [drive EXCEPT !.selectionDone = TRUE]
             ELSE /\ drive' = Gives([drive EXCEPT !.failed = TRUE, !.deferred = drive.made > 0], "error")
                  /\ UNCHANGED encoderVars
     ELSE IF ~ItemsLeft
     THEN /\ drive' = [drive EXCEPT !.selectionDone = TRUE, !.pc = "session"]
          /\ UNCHANGED encoderVars
     ELSE IF Can(NextItem)
     THEN /\ Execute(NextItem)
          /\ drive' = IF NextItem.op = "resource"
                      THEN [drive EXCEPT !.selectionDone = TRUE, !.resourceActive = TRUE, !.pc = "resource"]
                      ELSE [drive EXCEPT !.selectionDone = TRUE, !.item = @ + 1, !.pc = "session"]
     ELSE /\ drive' = Gives([drive EXCEPT !.failed = TRUE, !.deferred = drive.made > 0], "error")
          /\ UNCHANGED encoderVars

DriverStep ==
  \/ DriverResource \/ DriverResourceReturns \/ DriverSession \/ DriverSessionReturns
  \/ DriverSteps \/ DriverNext
=============================================================================
