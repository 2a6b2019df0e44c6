--------------------------- MODULE DecoderAdapters ---------------------------
(***************************************************************************)
(* The clients of a decoding session that the library brings: the Read     *)
(* adapter, the Write adapter and the one-shot calls.                      *)
(*                                                                         *)
(* The decoding Read adapter: an owned buffer between a source that reads  *)
(* short, fails or ends, and the session.                                  *)
(* Source: src/src/decompressor/io/reader.rs.                              *)
(***************************************************************************)
EXTENDS DecoderSession

CONSTANTS
  ReadRooms,    \* lengths of the caller's slices
  Buffer        \* bytes of the buffer (8192)

(* read() of an empty slice returns before it reaches the session. *)
ASSUME ReaderAssumption == ReadRooms \subseteq Nat \ {0}

VARIABLES
  rd,      \* [pc, cursor, filled, eof, pending, failed]
  src,     \* [len, read]: what the source holds, what it gave
  got      \* [bytes, last]: what read delivered, its last result

readerVars == <<rd, src, got>>

NewReader == [pc |-> "idle", cursor |-> 0, filled |-> 0, eof |-> FALSE,
              pending |-> "none", failed |-> FALSE]
NoReader  == [NewReader EXCEPT !.pc = "none"]
NoSource  == [len |-> 0, read |-> 0]
NoBytes   == [bytes |-> 0, last |-> "none"]
ReaderInit == rd = NoReader /\ src = NoSource /\ got = NoBytes

(* Decompressor::reader; the source may end before the stream does. *)
ReaderStart ==
  /\ Start /\ rd' = NewReader
  /\ \E n \in {BytesOf(wire'), BytesOf(wire') - 1} : src' = [len |-> n, read |-> 0]
  /\ got' = NoBytes

Result(n, what) == got' = [bytes |-> got.bytes + n, last |-> what]

(* Read::read: a deferred error comes first. *)
Read ==
  /\ open /\ rd.pc = "idle" /\ pc = "idle"
  /\ \/ /\ rd.pending # "none" /\ Result(0, rd.pending)
        /\ rd' = [rd EXCEPT !.pending = "none"]
     \/ /\ rd.pending = "none" /\ rd.failed /\ Result(0, "InvalidState") /\ rd' = rd
     \/ /\ rd.pending = "none" /\ ~rd.failed /\ Result(0, "none")
        /\ rd' = [rd EXCEPT !.pc = "process"]
  /\ UNCHANGED <<sessionVars, src>>

ReaderProcess ==
  /\ rd.pc = "process" /\ rd' = [rd EXCEPT !.pc = "wait"]
  /\ \E room \in ReadRooms : Process(rd.filled - rd.cursor, room, rd.eof)
  /\ UNCHANGED <<src, got>>

Failure == reply.status \notin {"NeedsInput", "NeedsOutput", "Finished"}

(* Mutant: the bytes a failing call consumed are not skipped. *)
AnsweredLosingConsumed ==
  [rd EXCEPT !.cursor = IF Failure THEN @ ELSE @ + reply.consumed]

Answered == [rd EXCEPT !.cursor = @ + reply.consumed]

(* Progress is returned at once; an error behind output waits for the next *)
(* read; otherwise the source is asked.                                    *)
ReaderAnswer ==
  /\ rd.pc = "wait" /\ pc = "idle"
  /\ \/ /\ Failure /\ reply.produced = 0 /\ Result(0, reply.status)
        /\ rd' = [Answered EXCEPT !.pc = "idle", !.failed = TRUE]
     \/ /\ Failure /\ reply.produced > 0 /\ Result(reply.produced, "ok")
        /\ rd' = [Answered EXCEPT !.pc = "idle", !.failed = TRUE, !.pending = reply.status]
     \/ /\ ~Failure /\ (reply.produced > 0 \/ reply.status = "Finished")
        /\ Result(reply.produced, IF reply.produced > 0 THEN "ok" ELSE "end")
        /\ rd' = [Answered EXCEPT !.pc = "idle"]
     \/ /\ ~Failure /\ reply.produced = 0 /\ reply.status # "Finished"
        /\ Result(0, "none") /\ rd' = [Answered EXCEPT !.pc = "source"]
  /\ UNCHANGED <<sessionVars, src>>

(* The source reads into the whole buffer, or fails with an error that is  *)
(* not Interrupted; zero bytes are its end.                                *)
Source ==
  /\ rd.pc = "source"
  /\ \/ /\ rd' = [rd EXCEPT !.pc = "idle"] /\ Result(0, "io") /\ src' = src
     \/ \E n \in 0 .. Least(Buffer, src.len - src.read) :
          /\ n = 0 => src.read = src.len
          /\ rd' = [rd EXCEPT !.pc = "process", !.cursor = 0, !.filled = n, !.eof = n = 0]
          /\ src' = [src EXCEPT !.read = @ + n] /\ got' = got
  /\ UNCHANGED sessionVars

ReaderNext ==
  \/ ReaderStart \/ Read \/ ReaderProcess \/ ReaderAnswer \/ Source
  \/ DropSession /\ rd.pc = "idle" 
     /\ rd' = NoReader /\ src' = NoSource /\ got' = NoBytes
  \/ rd.pc = "wait" /\ Run /\ UNCHANGED readerVars

(* At every return, the bytes read from the source are those the session   *)
(* accepted and those into_parts hands back, no byte lost or seen twice,   *)
(* and read delivered what the session produced.  is_finished is only true *)
(* at the exact end of a member (DecoderReader::into_parts).               *)
ReaderAccounts ==
  (open /\ rd.pc = "idle") =>
    /\ src.read = op.in + (rd.filled - rd.cursor)
    /\ got.bytes = op.out
    /\ (op.finished /\ ~rd.failed) => Bytes(pos) = op.in
    /\ got.last = "end" => op.finished

-----------------------------------------------------------------------------
(***************************************************************************)
(* The decoding Write adapter: compressed bytes go in, decoded bytes go to *)
(* a sink that writes short or fails; errors behind accepted bytes wait.   *)
(* Source: src/src/decompressor/io/writer.rs.                              *)
(***************************************************************************)

CONSTANTS
  WriteLens,    \* lengths of the slices written
  Outbox        \* bytes of the buffer (8192)

ASSUME WriterAssumption == WriteLens \subseteq Nat

VARIABLES
  wr,      \* [pc, goal, cursor, filled, lifecycle, pending, input, pumped]
  sink,    \* bytes the sink took
  acked,   \* bytes write acknowledged
  outcome  \* the result of the last operation

writerVars == <<wr, sink, acked, outcome>>

NewWriter == [pc |-> "idle", goal |-> "none", cursor |-> 0, filled |-> 0,
              lifecycle |-> "Accepting", pending |-> "none", input |-> 0, pumped |-> FALSE]
NoWriter   == [NewWriter EXCEPT !.pc = "none"]
WriterInit == wr = NoWriter /\ sink = 0 /\ acked = 0 /\ outcome = "none"

WriterStart == Start /\ wr' = NewWriter /\ sink' = 0 /\ acked' = 0 /\ outcome' = "none"

(* An operation ends with result r, n more bytes acknowledged. *)
Ended(w, r, n) == wr' = [w EXCEPT !.pc = "idle"] /\ outcome' = r /\ acked' = acked + n

(* Entering write, flush or try_finish: check_error.  A deferred error is  *)
(* returned first, then the outbox is drained.                             *)
Entered(goal, n) ==
  LET w == [wr EXCEPT !.goal = goal, !.input = n, !.pumped = FALSE,
                      !.lifecycle = IF goal = "finish" /\ @ = "Accepting" THEN "Finishing" ELSE @]
  IN  /\ open /\ pc = "idle" /\ wr.pc = "idle"
      /\ IF w.pending # "none"
         THEN Ended([w EXCEPT !.pending = "none"], w.pending, 0)
         ELSE wr' = [w EXCEPT !.pc = "drain"] /\ outcome' = "none" /\ acked' = acked
      /\ UNCHANGED <<sessionVars, sink>>

Write == \E n \in WriteLens : n <= Unread0 /\ Entered("write", n)
Flush == Entered("flush", 0)
TryFinish == wr.lifecycle # "Finished" /\ Entered("finish", 0)

Bytes2Go == wr.filled - wr.cursor

(* A sink error after pump accepted input is deferred: the bytes count.    *)
SinkFails ==
  IF wr.pumped /\ reply.consumed > 0
  THEN /\ wr' = [wr EXCEPT !.pending = "sink", !.pc = "pumped"] /\ UNCHANGED <<outcome, acked>>
  ELSE Ended(wr, "sink", 0)

Drain ==
  /\ wr.pc = "drain"
  /\ \/ /\ Bytes2Go > 0
        /\ \/ SinkFails /\ sink' = sink
           \/ \E n \in 1 .. Bytes2Go :
                /\ sink' = sink + n /\ wr' = [wr EXCEPT !.cursor = @ + n]
                /\ UNCHANGED <<outcome, acked>>
     \/ /\ Bytes2Go = 0 /\ UNCHANGED <<sink, outcome, acked>>
        /\ wr' = [wr EXCEPT !.cursor = 0, !.filled = 0,
                            !.pc = IF wr.pumped THEN "pumped" ELSE "checked"]
  /\ UNCHANGED sessionVars

(* The rest of check_error, and what the operation does before it pumps. *)
Checked ==
  /\ wr.pc = "checked"
  /\ \/ /\ wr.lifecycle = "Failed" /\ Ended(wr, "InvalidState", 0)
     \/ /\ wr.goal = "write" /\ wr.lifecycle \in {"Finishing", "Finished"}
        /\ Ended(wr, "InvalidState", 0)
     \/ /\ wr.goal = "write" /\ wr.lifecycle = "Accepting" /\ op.finished
        /\ Ended(wr, "TrailingData", 0)
     \/ /\ wr.lifecycle # "Failed"
        /\ wr.goal = "write" => wr.lifecycle = "Accepting" /\ ~op.finished
        /\ wr' = [wr EXCEPT !.pc = IF op.finished THEN "flush" ELSE "pump",
                            !.goal = IF wr.lifecycle = "Finishing" THEN "finish" ELSE @]
        /\ UNCHANGED <<outcome, acked>>
  /\ UNCHANGED <<sessionVars, sink>>

(* pump: one call of the session into the whole outbox. *)
Pump ==
  /\ wr.pc = "pump" /\ wr' = [wr EXCEPT !.pc = "wait"]
  /\ Process(wr.input, Outbox, wr.goal = "finish")
  /\ UNCHANGED <<sink, acked, outcome>>

Broken == reply.status \notin {"NeedsInput", "NeedsOutput", "Finished"}

(* A failed codec keeps what it produced before the error in the outbox. *)
PumpAnswer ==
  /\ wr.pc = "wait" /\ pc = "idle"
  /\ LET w == [wr EXCEPT !.filled = reply.produced, !.pumped = TRUE]
         f == [w EXCEPT !.lifecycle = "Failed"]
     IN  \/ ~Broken /\ wr' = [w EXCEPT !.pc = "drain"] /\ UNCHANGED <<outcome, acked>>
         \/ /\ Broken /\ reply.consumed > 0
            /\ wr' = [f EXCEPT !.pending = reply.status, !.pc = "pumped"]
            /\ UNCHANGED <<outcome, acked>>
         \/ Broken /\ reply.consumed = 0 /\ Ended(f, reply.status, 0)
  /\ UNCHANGED <<sessionVars, sink>>

(* The operation's loop around pump. *)
Pumped ==
  /\ wr.pc = "pumped"
  /\ \/ wr.goal = "write" /\ reply.consumed > 0 /\ Ended(wr, "ok", reply.consumed)
     \/ wr.goal = "write" /\ reply.consumed = 0 /\ reply.status = "Finished"
        /\ Ended(wr, "TrailingData", 0)
     \/ /\ wr.goal = "write" /\ reply.consumed = 0 /\ reply.status # "Finished"
        /\ wr' = [wr EXCEPT !.pc = "pump"] /\ UNCHANGED <<outcome, acked>>
     \/ /\ wr.goal # "write"
        /\ LET over == op.finished \/ (wr.goal = "flush" /\ reply.status = "NeedsInput")
           IN  wr' = [wr EXCEPT !.pc = IF over THEN "flush" ELSE "pump"]
        /\ UNCHANGED <<outcome, acked>>
  /\ UNCHANGED <<sessionVars, sink>>

(* The sink's own flush ends flush and try_finish. *)
FlushSink ==
  /\ wr.pc = "flush"
  /\ \/ Ended(wr, "sink", 0)
     \/ Ended([wr EXCEPT !.lifecycle = IF wr.goal = "finish" THEN "Finished" ELSE @], "ok", 0)
  /\ UNCHANGED <<sessionVars, sink>>

WriterNext ==
  \/ WriterStart \/ Write \/ Flush \/ TryFinish \/ Drain \/ Checked \/ Pump
  \/ PumpAnswer \/ Pumped \/ FlushSink
  \/ DropSession /\ wr.pc = "idle" 
     /\ wr' = NoWriter /\ sink' = 0 /\ acked' = 0 /\ outcome' = "none"
  \/ wr.pc = "wait" /\ Run /\ UNCHANGED writerVars

(* Whatever the sink does, at every return the acknowledged bytes are the  *)
(* ones the session accepted, what it produced is in the sink or in the    *)
(* outbox, a successful flush leaves the outbox empty, and a finished      *)
(* adapter has the whole of a complete stream in its sink                  *)
(* (DecoderWriter::pump, drain, try_finish).                               *)
WriterDelivers ==
  (open /\ wr.pc = "idle") =>
    /\ acked = op.in
    /\ sink + wr.filled - wr.cursor = op.out
    /\ (wr.goal # "write" /\ outcome = "ok") => sink = op.out
    /\ wr.lifecycle = "Finished" => op.finished /\ sink = op.out /\ wr.pending = "none"

-----------------------------------------------------------------------------
(***************************************************************************)
(* The one-shot calls: a whole source in one slice, into a growing vector  *)
(* or a fixed slice, and the shortcut that borrows a stored member.        *)
(* Source: src/src/decompressor/decoder.rs and core/stored.rs.             *)
(***************************************************************************)

CONSTANTS
  Slices,     \* lengths of the caller's fixed slices
  Chunks      \* room the vector grows by

VARIABLES
  shot        \* [pc, kind, len, consumed, written, result]

NewShot == [pc |-> "idle", kind |-> "none", len |-> 0, room |-> 0, consumed |-> 0, written |-> 0,
            result |-> "none"]
ShotInit == shot = NewShot

(* A source that is the stream, one byte less of it, or its first member.  *)
Sources(w) == {BytesOf(w), BytesOf(w) - 1, BytesOf(<<w[1]>>)}

Stored(n) == shot' = [shot EXCEPT !.pc = "idle", !.result = "ok", !.written = n]

(* stored_payload: a window, a raw block and the end, nothing after it,    *)
(* with the default policies.                                              *)
IsStored ==
  /\ single /\ limit = NoSize /\ shot.len = BytesOf(<<wire[1]>>)
  /\ LET w == SelectSeq(wire[1], LAMBDA it : it.op # "align")
     IN  \/ Len(w) = 1 /\ w[1].op = "field"
         \/ Len(w) = 3 /\ w[1].op = "field" /\ w[2].op = "raw" /\ w[3].op = "field"

Payload == YieldOf(wire[1])

(* decompress, decompress_into, decompress_to_slice, decompress_to_uninit: *)
(* the operation of the call.                                              *)
ShotStart ==
  /\ shot.pc = "idle" /\ Start /\ exact' = NoSize
  /\ \E kind \in {"vec", "slice"}, n \in Sources(wire'), room \in Slices :
       shot' = [NewShot EXCEPT !.pc = "begin", !.kind = kind, !.len = n,
                               !.room = IF kind = "vec" THEN 0 ELSE room]

(* The shortcut does not touch the workspace. *)
Borrow ==
  /\ shot.pc = "begin" /\ IsStored /\ (shot.kind = "slice" => Payload <= shot.room)
  /\ Stored(Payload) /\ UNCHANGED sessionVars

(* decode_into probes with no room, then calls with a vector grown by a    *)
(* chunk; decode_to_slice is one call.                                     *)
ShotCall ==
  /\ shot.pc \in {"begin", "grow"}
  /\ \E room \in (IF shot.kind = "slice" \/ shot.pc = "begin" THEN {shot.room} ELSE Chunks) :
       Process(shot.len - shot.consumed, room, TRUE)
  /\ shot' = [shot EXCEPT !.pc = "wait"]

Done(result, n) == shot' = [shot EXCEPT !.pc = "idle", !.result = result, !.written = n]

(* An error truncates the vector to where it started. *)
ShotFails ==
  /\ shot.pc = "wait" /\ pc = "idle"
  /\ reply.status \notin {"NeedsInput", "NeedsOutput", "Finished"}
  /\ Done(reply.status, 0) /\ UNCHANGED sessionVars

Trailing == shot.consumed + reply.consumed # shot.len

ShotFinished ==
  /\ shot.pc = "wait" /\ pc = "idle" /\ reply.status = "Finished"
  /\ IF Trailing THEN Done("TrailingData", 0) ELSE Done("ok", shot.written + reply.produced)
  /\ UNCHANGED sessionVars

(* A vector grows and goes on; a slice is too small. *)
ShotGrows ==
  /\ shot.pc = "wait" /\ pc = "idle" /\ reply.status = "NeedsOutput"
  /\ IF shot.kind = "slice"
     THEN Done("OutputTooSmall", reply.produced)
     ELSE shot' = [shot EXCEPT !.pc = "grow", !.consumed = @ + reply.consumed,
                               !.written = @ + reply.produced]
  /\ UNCHANGED sessionVars

ShotNext ==
  \/ ShotStart \/ Borrow \/ ShotCall \/ ShotFails \/ ShotFinished \/ ShotGrows
  \/ DropSession /\ shot.pc = "idle" /\ shot' = NewShot
  \/ shot.pc = "wait" /\ Run /\ shot' = shot

Broken1(items) == \E i \in DOMAIN items : items[i].op = "bad"

(* A one-shot call succeeds exactly when the source is the whole of what   *)
(* it should be, and then with all of its output; trailing bytes, a cut    *)
(* source and an error are told apart, on the stored shortcut as on the    *)
(* streaming path (Decompressor::decode_into, one_shot_outcome,            *)
(* stored_one_shot).                                                       *)
OneShotWhole ==
  (open /\ shot.pc = "idle" /\ shot.result # "none") =>
    LET first == <<wire[1]>>
        whole == IF single \/ shot.len = BytesOf(first) THEN first ELSE wire
        valid == ~Broken1(Items(whole))
    IN  /\ shot.result = "ok" =>
             valid /\ shot.len = BytesOf(whole) /\ shot.written = YieldOf(Items(whole))
        /\ (valid /\ shot.len = BytesOf(whole) /\ limit = NoSize) =>
             shot.result \in {"ok", "OutputTooSmall"}
        /\ shot.result = "TrailingData" => single /\ shot.len > BytesOf(whole)
        /\ shot.result = "UnexpectedEnd" => shot.len < BytesOf(whole)

=============================================================================
