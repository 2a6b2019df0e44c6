---------------------------- MODULE MCEncoderIO ----------------------------
(***************************************************************************)
(* The encoder session under its three kinds of caller: a program that     *)
(* calls start, process, release, reinit in any order, the Write       *)
(* adapter and the Read adapter.  One behaviour has one kind of caller.    *)
(***************************************************************************)
EXTENDS EncoderAdapters

CONSTANT LaterBlocks   \* bound: blocks of a session after the first

ASSUME LaterAssumption == LaterBlocks \in Nat

VARIABLE role   \* "caller", "writer" or "reader"

adapterVars == <<writerVars, readerVars>>
vars == <<streamVars, writerVars, readerVars, role>>

Init ==
  /\ StreamInit /\ WriterInit /\ ReaderInit
  /\ role \in {"caller", "writer", "reader"}

(* An adapter is built over a fresh session of a stream at offset zero. *)
Open ==
  /\ role # "caller"
  /\ Begin /\ flint' = FALSE
  /\ UNCHANGED <<adapterVars, role>>

(* The thread inside process(). *)
Scheduler ==
  /\ role # "caller"
  /\ Drain \/ Turn
  /\ UNCHANGED <<adapterVars, role>>

SchedulerFails ==
  /\ role # "caller"
  /\ EncodeFails
  /\ UNCHANGED <<adapterVars, role>>

WriterIsCalled == role = "writer" /\ WriterCall /\ UNCHANGED <<readerVars, role>>
WriterIsRun    == role = "writer" /\ WriterRuns /\ UNCHANGED <<readerVars, role>>
ReaderIsCalled == role = "reader" /\ ReaderCall /\ UNCHANGED <<writerVars, role>>
ReaderIsRun    == role = "reader" /\ ReaderRuns /\ UNCHANGED <<writerVars, role>>

(* A later session is there to meet what the first one left behind. *)
CallerAlone ==
  /\ role = "caller" /\ StreamNext
  /\ session' > 1 => Len(blocks') <= LaterBlocks
  /\ UNCHANGED <<adapterVars, role>>

Next == Open \/ Scheduler \/ SchedulerFails \/ WriterIsCalled \/ WriterIsRun
        \/ ReaderIsCalled \/ ReaderIsRun \/ CallerAlone

(* The thread inside a call is scheduled; a source answers, and a sink that
   is asked again and again in the end accepts something or fails (no endless
   Interrupted).  Nobody is obliged to make another call. *)
Fairness == WF_vars(Scheduler) /\ WF_vars(WriterIsRun) /\ WF_vars(ReaderIsRun)

Spec == Init /\ [][Next]_vars /\ Fairness
-----------------------------------------------------------------------------
(* However the caller cuts its input, its flushes and its end: no byte is
   lost, repeated or reordered on the way into the blocks (InputInOrder), the
   cut into blocks is the one of a single call (BlocksAreFull), and the size
   hint is settled before a block has bytes (HintBeforeInput). *)
BlocksFollowTheInput == InputInOrder /\ BlocksAreFull /\ HintBeforeInput

(* What a call returns is true: a flush answered NeedsInput and a finish
   answered Finished are complete (PromiseKept), a caller that obeys the
   status makes progress (StatusIsHonest), and the internal error is never
   reached (EncoderPresent). *)
AnswersAreTrue == PromiseKept /\ StatusIsHonest /\ EncoderPresent

(* The Write adapter, through short writes, sink errors and calls repeated
   after them: the sink gets the stream once and in order, write() reports
   exactly what the session took, a flush that succeeds has flushed all of it
   and a finished writer has delivered the whole stream. *)
WriterKeepsItsWord ==
  role = "writer" =>
    SinkGetsTheStream /\ AckedIsAccepted /\ FlushReachesTheSink /\ FinishedIsWhole

(* The Read adapter, through short reads and source errors: no byte of the
   source is lost, the caller gets the stream once and in order, and zero
   means its end. *)
ReaderKeepsItsWord ==
  role = "reader" => SourceIsAccountedFor /\ ReaderGetsTheStream /\ ZeroIsTheEnd

(* Every call of an adapter returns: neither the scheduling loop of process()
   nor the loops of read(), write(), flush() and try_finish() run forever,
   also when a block yields more than the outbox holds. *)
AdapterCallsReturn == (wpc # "idle" \/ rpc # "idle") ~> (wpc = "idle" /\ rpc = "idle")

(* Both adapters deliver what they report, and report what they delivered. *)
AdaptersKeepTheirWord == WriterKeepsItsWord /\ ReaderKeepsItsWord
=============================================================================
