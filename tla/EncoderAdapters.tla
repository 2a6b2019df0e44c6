--------------------------- MODULE EncoderAdapters ---------------------------
(***************************************************************************)
(* The two I/O adapters over an encoder session.                           *)
(*                                                                         *)
(* EncoderWriter: an io::Write adapter that pushes what is written to it   *)
(* through an encoder session into a sink.  The sink may accept part of a  *)
(* buffer, accept nothing, or fail, at any point; the caller may retry any *)
(* call that failed.                                                       *)
(* Source: src/src/compressor/io/writer.rs.                                *)
(***************************************************************************)
EXTENDS EncoderStream

CONSTANT Pull   \* PULL_CHUNK, the size of the outbox

ASSUME PullAssumption == Pull \in Nat \ {0}

VARIABLES
  wpc,      \* "idle", or where the call in progress is
  wstate,   \* Open, Finishing, Finished
  outbox,   \* the compressed bytes not yet in the sink (head..end)
  wbase,     \* units the session had delivered when pump() called it
  writing,  \* length of the slice given to write()
  wret,     \* what the last call returned: <<call, result>>
  acked,    \* bytes write() reported as accepted
  sink,     \* what the sink accepted
  synced    \* length of the sink at its last successful flush

writerVars == <<wpc, wstate, outbox, wbase, writing, wret, acked, sink, synced>>

(* The writer is built over a fresh session. *)
WriterInit ==
  /\ wpc = "idle" /\ wstate = "Open" /\ outbox = <<>> /\ wbase = 0 /\ writing = 0
  /\ wret = <<"none", "ok">> /\ acked = 0 /\ sink = <<>> /\ synced = 0

Ready == open = "open" /\ wpc = "idle"

GoTo(l) == wpc' = l

WriterDone(c, r) == wpc' = "idle" /\ wret' = <<c, r>>

-----------------------------------------------------------------------------
(* The calls. *)

Write(n) ==
  /\ Ready
  /\ writing' = n
  /\ IF wstate = "Open" THEN GoTo("write.deliver") /\ UNCHANGED wret
     ELSE WriterDone("write", "InvalidInput")
  /\ UNCHANGED <<streamVars, wbase, wstate, outbox, acked, sink, synced>>

Flush ==
  /\ Ready
  /\ GoTo(IF wstate = "Open" THEN "flush.deliver" ELSE "flush.sync")
  /\ UNCHANGED <<streamVars, wbase, wstate, outbox, writing, wret, acked, sink, synced>>

(* try_finish; finish() is the same and gives the writer back on error. *)
TryFinish ==
  /\ Ready
  /\ IF wstate = "Finished" THEN WriterDone("finish", "ok")
     ELSE GoTo("finish.deliver") /\ UNCHANGED wret
  /\ UNCHANGED <<streamVars, wbase, wstate, outbox, writing, acked, sink, synced>>

-----------------------------------------------------------------------------
(* drain(): the outbox goes to the sink. *)

Delivering == wpc \in {"write.deliver", "write.accepted", "write.again",
                       "flush.deliver", "flush.pumped",
                       "finish.deliver", "finish.pumped"}

CallOf(l) == IF l \in {"write.deliver", "write.accepted", "write.again", "write.pump", "write.wait"}
             THEN "write"
             ELSE IF l \in {"flush.deliver", "flush.pumped", "flush.pump", "flush.wait", "flush.sync"}
             THEN "flush" ELSE "finish"

SinkAccepts ==
  /\ Delivering /\ outbox # <<>>
  /\ \E k \in 1 .. Len(outbox) :
       /\ sink' = sink \o SubSeq(outbox, 1, k)
       /\ outbox' = SubSeq(outbox, k + 1, Len(outbox))
  /\ UNCHANGED <<streamVars, wbase, wpc, wstate, writing, wret, acked, synced>>

(* Mutant: the error is returned even after the bytes were taken. *)
SinkFailsAtOnce ==
  /\ Delivering /\ outbox # <<>>
  /\ WriterDone(CallOf(wpc), "sink error")
  /\ UNCHANGED <<streamVars, wbase, wstate, outbox, writing, acked, sink, synced>>

(* Ok(0) or an error.  After write() accepted bytes the error is kept for
   the next drain: the bytes are ours, the caller must not repeat them. *)
SinkFails ==
  /\ Delivering /\ outbox # <<>>
  /\ IF wpc = "write.accepted"
     THEN WriterDone("write", "ok") /\ acked' = acked + consumed
     ELSE WriterDone(CallOf(wpc), "sink error") /\ UNCHANGED acked
  /\ UNCHANGED <<streamVars, wbase, wstate, outbox, writing, sink, synced>>

(* session.is_finished() *)
SessionFinished == phase = "Finished" /\ served >= Len(pending)

(* The outbox is empty: what the call does next. *)
Delivered ==
  /\ Delivering /\ outbox = <<>>
  /\ CASE wpc = "write.deliver" /\ writing = 0 -> WriterDone("write", "ok") /\ UNCHANGED acked
       [] wpc = "write.deliver" /\ writing # 0 -> GoTo("write.pump") /\ UNCHANGED <<wret, acked>>
       [] wpc = "write.accepted" -> WriterDone("write", "ok") /\ acked' = acked + consumed
       [] wpc = "write.again" -> GoTo("write.pump") /\ UNCHANGED <<wret, acked>>
       [] wpc = "flush.deliver" -> GoTo("flush.pump") /\ UNCHANGED <<wret, acked>>
       [] wpc = "flush.pumped" ->
            /\ GoTo(IF status = "NeedsOutput" THEN "flush.pump" ELSE "flush.sync")
            /\ UNCHANGED <<wret, acked>>
       [] OTHER ->
            /\ GoTo(IF SessionFinished THEN "finish.sync" ELSE "finish.pump")
            /\ UNCHANGED <<wret, acked>>
  /\ UNCHANGED <<streamVars, wbase, wstate, outbox, writing, sink, synced>>

(* sink.flush() *)
Sync ==
  /\ wpc \in {"flush.sync", "finish.sync"}
  /\ \/ /\ synced' = Len(sink)
        /\ wstate' = IF wpc = "finish.sync" THEN "Finished" ELSE wstate
        /\ WriterDone(CallOf(wpc), "ok")
     \/ /\ WriterDone(CallOf(wpc), "sink error")
        /\ UNCHANGED <<synced, wstate>>
  /\ UNCHANGED <<streamVars, wbase, outbox, writing, acked, sink>>

-----------------------------------------------------------------------------
(* pump(): one process() call with the whole outbox as room. *)

PumpArgs == CASE wpc = "write.pump"  -> <<writing, "Process", "write.wait">>
              [] wpc = "flush.pump"  -> <<0, "Flush", "flush.wait">>
              [] wpc = "finish.pump" -> <<0, "Finish", "finish.wait">>

Pump ==
  /\ wpc \in {"write.pump", "flush.pump", "finish.pump"}
  /\ \/ Call(PumpArgs[1], Pull, PumpArgs[2])
     \/ CallRejected(PumpArgs[1])
     \/ CallFails(PumpArgs[1], PumpArgs[2])
  /\ GoTo(PumpArgs[3])
  /\ wbase' = Len(delivered)
  /\ UNCHANGED <<wstate, outbox, writing, wret, acked, sink, synced>>

(* process() returned: end = produced, or its error is the call's. *)
Pumped ==
  /\ wpc \in {"write.wait", "flush.wait", "finish.wait"} /\ pc = "idle"
  /\ IF status \in {"NeedsInput", "NeedsOutput", "Finished"}
     THEN /\ outbox' = SubSeq(delivered, wbase + 1, Len(delivered))
          /\ GoTo(CASE wpc = "write.wait" /\ consumed # 0 -> "write.accepted"
                    [] wpc = "write.wait" /\ consumed = 0 -> "write.again"
                    [] wpc = "flush.wait" -> "flush.pumped"
                    [] wpc = "finish.wait" -> "finish.pumped")
          /\ wstate' = IF wpc = "finish.wait" THEN "Finishing" ELSE wstate
          /\ UNCHANGED wret
     ELSE /\ WriterDone(CallOf(wpc), status)
          /\ UNCHANGED <<outbox, wstate>>
  /\ UNCHANGED <<streamVars, wbase, writing, acked, sink, synced>>

WriterCall == (\E n \in Chunks : Write(n)) \/ Flush \/ TryFinish

(* What the thread inside a call, and the sink, do next. *)
WriterRuns == SinkAccepts \/ SinkFails \/ Delivered \/ Sync \/ Pump \/ Pumped
-----------------------------------------------------------------------------
(* Through short writes, failures and retries the sink receives the stream
   once and in order: its contents and the outbox together are what the
   session has delivered. *)
SinkGetsTheStream ==
  phase # "Failed" /\ wpc \notin {"write.wait", "flush.wait", "finish.wait"} =>
    sink \o outbox = delivered

(* write() reports exactly the bytes the session took, even when the sink
   fails right after: a caller that repeats the rest after an error neither
   duplicates nor loses a byte. *)
AckedIsAccepted == wpc = "idle" /\ phase # "Failed" => acked = pos

(* A successful flush() leaves everything that was accepted encoded, in the
   sink, and the sink flushed. *)
FlushReachesTheSink ==
  wpc = "idle" /\ wret = <<"flush", "ok">> /\ wstate = "Open" =>
    /\ staging = <<>> /\ pending = <<>> /\ outbox = <<>>
    /\ Len(sink) = emitted /\ synced = emitted
    /\ blocks # <<>> /\ blocks[Len(blocks)].op = "Flush"

(* A finished writer has put the whole terminated stream into the sink and
   flushed it; nothing is written to the sink afterwards. *)
FinishedIsWhole ==
  wstate = "Finished" =>
    /\ phase = "Finished" /\ Len(sink) = emitted /\ synced = emitted
    /\ blocks # <<>> /\ blocks[Len(blocks)].op = "Finish" /\ staging = <<>>

-----------------------------------------------------------------------------
(***************************************************************************)
(* EncoderReader: an io::Read adapter that pulls uncompressed bytes from a *)
(* source and hands out the compressed stream.  The source may return      *)
(* short reads or fail at any point and be read again.                     *)
(* Source: src/src/compressor/io/reader.rs.                                *)
(***************************************************************************)

CONSTANT Fill   \* FILL_CHUNK, the size of the input buffer

ASSUME FillAssumption == Fill \in Nat \ {0}

VARIABLES
  rpc,      \* "idle", or where the read() in progress is
  buffered, \* input[head..end]: read from the source, not yet consumed
  eof,      \* the source returned Ok(0)
  finished, \* the stream was handed out completely
  want,     \* length of the caller's buffer
  rbase,     \* units delivered before the process() call in progress
  rret,     \* what the last read() returned
  taken,    \* bytes the source gave out
  got       \* units read() reported to the caller

readerVars == <<rpc, buffered, eof, finished, want, rbase, rret, taken, got>>

(* The reader is built over a fresh session. *)
ReaderInit ==
  /\ rpc = "idle" /\ buffered = <<>> /\ eof = FALSE /\ finished = FALSE
  /\ want = 0 /\ rbase = 0 /\ rret = "none" /\ taken = 0 /\ got = <<>>

ReaderDone(r) == rpc' = "idle" /\ rret' = r

(* read(buf): nothing to do for an empty buffer or after the end. *)
Read(n) ==
  /\ open = "open" /\ rpc = "idle"
  /\ want' = n
  /\ IF n = 0 \/ finished THEN ReaderDone("zero")
     ELSE rpc' = "loop" /\ UNCHANGED rret
  /\ UNCHANGED <<streamVars, buffered, eof, finished, rbase, taken, got>>

NeedsFill == buffered = <<>> /\ ~eof

(* fill(): one successful read of the source; Ok(0) is the end for good. *)
SourceReads ==
  /\ rpc = "loop" /\ NeedsFill
  /\ \E k \in 0 .. Least(Fill, MaxInput - taken) :
       /\ buffered' = [i \in 1 .. k |-> taken + i]
       /\ taken' = taken + k
       /\ eof' = (k = 0)
  /\ rpc' = "process"
  /\ UNCHANGED <<streamVars, finished, want, rbase, rret, got>>

SourceFails ==
  /\ rpc = "loop" /\ NeedsFill
  /\ ReaderDone("source error")
  /\ UNCHANGED <<streamVars, buffered, eof, finished, want, rbase, taken, got>>

NoFill ==
  /\ rpc = "loop" /\ ~NeedsFill
  /\ rpc' = "process"
  /\ UNCHANGED <<streamVars, buffered, eof, finished, want, rbase, rret, taken, got>>

(* One process() call over the buffered input and the caller's buffer. *)
Process ==
  /\ rpc = "process"
  /\ LET n == Len(buffered)
         o == IF eof THEN "Finish" ELSE "Process"
     IN Call(n, want, o) \/ CallRejected(n) \/ CallFails(n, o)
  /\ rpc' = "wait"
  /\ rbase' = Len(delivered)
  /\ UNCHANGED <<buffered, eof, finished, want, rret, taken, got>>

Processed ==
  /\ rpc = "wait" /\ pc = "idle"
  /\ IF status \in {"NeedsInput", "NeedsOutput", "Finished"}
     THEN LET produced == SubSeq(delivered, rbase + 1, Len(delivered)) IN
          /\ buffered' = SubSeq(buffered, consumed + 1, Len(buffered))
          /\ finished' = (finished \/ status = "Finished")
          /\ IF produced # <<>>
             THEN ReaderDone("some") /\ got' = got \o produced
             ELSE /\ UNCHANGED got
                  /\ IF finished' THEN ReaderDone("zero") ELSE rpc' = "loop" /\ UNCHANGED rret
     ELSE ReaderDone(status) /\ UNCHANGED <<buffered, finished, got>>
  /\ UNCHANGED <<streamVars, eof, want, rbase, taken>>

ReaderCall == \E n \in Rooms : Read(n)

(* What the thread inside read(), and the source, do next. *)
ReaderRuns == SourceReads \/ SourceFails \/ NoFill \/ Process \/ Processed
-----------------------------------------------------------------------------
(* No byte of the source is lost or repeated across short reads, source
   errors and full output buffers: what the session consumed and what is
   buffered (the bytes into_parts gives back) is what the source gave out. *)
SourceIsAccountedFor ==
  rpc # "wait" /\ phase # "Failed" =>
    buffered = [i \in 1 .. taken - pos |-> pos + i]

(* The caller receives the stream once and in order. *)
ReaderGetsTheStream ==
  rpc # "wait" /\ phase # "Failed" => got = delivered

(* read() returns zero for a nonempty buffer only at the end of the stream:
   the source ended, all its bytes are in blocks, the last one finishing,
   and everything the encoder emitted was handed out. *)
ZeroIsTheEnd ==
  rpc = "idle" /\ rret = "zero" /\ want # 0 =>
    /\ eof /\ buffered = <<>> /\ staging = <<>>
    /\ blocks # <<>> /\ blocks[Len(blocks)].op = "Finish" /\ Len(got) = emitted
=============================================================================
