---------------------------- MODULE EncoderStream ----------------------------
(***************************************************************************)
(* The incremental encoder: a Compressor, the session that borrows or owns *)
(* it, and the block scheduler StreamState::process that turns arbitrary   *)
(* input and output chunks into encoder blocks.  The block encoders        *)
(* themselves are abstracted to what the scheduler sees of them: a block   *)
(* yields some number of output units.                                     *)
(* Source: src/src/compressor/core/{stream,session}.rs and                 *)
(*         src/src/compressor/encoder.rs.                                  *)
(*                                                                         *)
(* An input byte is its position in the caller's data, an output unit is   *)
(* <<session, n>>, the n-th unit the session's encoder emitted.            *)
(***************************************************************************)
EXTENDS Integers, Sequences

CONSTANTS
  Limit,        \* the encoder's block size limit
  MaxInput,     \* largest stream position (logical_position bound)
  Chunks,       \* lengths of input slices
  Rooms,        \* lengths of output slices
  Sizes,        \* units a block may yield
  Offsets,      \* {FALSE}, or with TRUE also streams at a nonzero offset
  Ops,          \* operations the caller asks for
  MaxSessions   \* bound: sessions started in a behaviour

ASSUME StreamAssumption ==
  /\ Limit \in Nat \ {0}
  /\ MaxInput \in Nat /\ MaxSessions \in Nat
  /\ Chunks \subseteq Nat /\ Rooms \subseteq Nat /\ Sizes \subseteq Nat
  /\ Offsets \subseteq BOOLEAN
  /\ (TRUE \in Offsets => Limit >= 2)
  /\ Ops \subseteq {"Process", "Flush", "Finish"}

VARIABLES
  \* Compressor
  active, workspace, staging, pending, served,
  \* session
  session, open, phase, flint, hint,
  \* the process() call in progress
  pc, op, input, consumed, room, status,
  \* history of the session
  pos, offered, blocks, emitted, delivered

compressorVars == <<active, workspace, staging, pending, served>>
sessionVars    == <<session, open, phase, flint, hint>>
callVars       == <<op, input, consumed, room>>
historyVars    == <<offered, blocks, emitted, delivered>>
streamVars == <<compressorVars, sessionVars, callVars, pc, status, pos, historyVars>>

StreamInit ==
  /\ active = FALSE /\ workspace = FALSE
  /\ staging = <<>> /\ pending = <<>> /\ served = 0
  /\ session = 0 /\ open = "closed" /\ phase = "Open" /\ flint = FALSE
  /\ hint = "settled"
  /\ pc = "idle" /\ op = "Process" /\ input = <<>> /\ consumed = 0 /\ room = 0
  /\ status = "none"
  /\ pos = 0 /\ offered = 0 /\ blocks = <<>> /\ emitted = 0 /\ delivered = <<>>

-----------------------------------------------------------------------------
(* The life of a session. *)

Cleared == staging' = <<>> /\ pending' = <<>> /\ served' = 0

(* Mutant: the buffers of the previous session are not cleared. *)
FreshWithoutClear ==
  /\ active' = TRUE /\ workspace' = TRUE
  /\ UNCHANGED <<staging, pending, served>>
  /\ session' = session + 1 /\ open' = "open" /\ phase' = "Open"
  /\ flint' \in Offsets
  /\ hint' \in {"open", "settled"}
  /\ status' = "none"
  /\ pos' = 0 /\ offered' = 0 /\ blocks' = <<>> /\ emitted' = 0 /\ delivered' = <<>>

(* OperationState::new over the buffers begin() cleared. *)
Fresh ==
  /\ active' = TRUE /\ workspace' = TRUE
  /\ Cleared
  /\ session' = session + 1 /\ open' = "open" /\ phase' = "Open"
  /\ flint' \in Offsets
  /\ hint' \in {"open", "settled"}
  /\ status' = "none"
  /\ pos' = 0 /\ offered' = 0 /\ blocks' = <<>> /\ emitted' = 0 /\ delivered' = <<>>

(* start / into_session: refused with AbandonedSession while active. *)
Begin ==
  /\ open = "closed" /\ ~active
  /\ session < MaxSessions
  /\ Fresh
  /\ UNCHANGED <<callVars, pc>>

(* OperationState::release, then finish_operation: an encoder that did not
   finish its stream is forgotten; retention may drop a finished one too. *)
Released ==
  /\ workspace' \in (IF phase = "Finished" THEN {workspace, FALSE} ELSE {FALSE})
  /\ Cleared
  /\ active' = FALSE

(* Dropping the session, or into_compressor. *)
Release ==
  /\ open = "open" /\ pc = "idle"
  /\ Released
  /\ open' = "closed"
  /\ UNCHANGED <<session, phase, flint, hint, callVars, pc, status, pos, historyVars>>

(* reinit of an owned session: release, begin again. *)
Reinit ==
  /\ open = "open" /\ pc = "idle"
  /\ session < MaxSessions
  /\ Fresh
  /\ UNCHANGED <<callVars, pc>>

(* reinit whose begin() fails: the session is poisoned, the compressor is
   released, and it may hold an encoder that was acquired before the error. *)
ReinitFails ==
  /\ open = "open" /\ pc = "idle"
  /\ workspace' \in BOOLEAN /\ active' = FALSE
  /\ Cleared
  /\ phase' = "Failed" /\ status' = "BeginError"
  /\ UNCHANGED <<session, open, flint, hint, callVars, pc, pos, historyVars>>

(* A borrowed session is leaked (mem::forget): no release ran. *)
Leak ==
  /\ open = "open" /\ pc = "idle" /\ active
  /\ open' = "leaked"
  /\ UNCHANGED <<compressorVars, session, phase, flint, hint, callVars, pc, status,
                 pos, historyVars>>

(* Compressor::recover, needed after a leak and harmless between sessions. *)
Recover ==
  /\ open # "open"
  /\ workspace' = FALSE /\ active' = FALSE
  /\ Cleared
  /\ open' = "closed"
  /\ UNCHANGED <<session, phase, flint, hint, callVars, pc, status, pos, historyVars>>

(* Compressor::reconfigure: the encoder of a leaked session may stay cached
   half-written; acquire() resets it before the next use. *)
Reconfigure ==
  /\ open # "open"
  /\ workspace' \in {workspace, FALSE} /\ active' = FALSE
  /\ Cleared
  /\ open' = "closed"
  /\ UNCHANGED <<session, phase, flint, hint, callVars, pc, status, pos, historyVars>>

(* Compressor::trim, when the policy asks for a release.  It does not clear
   active: a leaked session still has to be recovered. *)
Trim ==
  /\ open # "open"
  /\ workspace' = FALSE
  /\ Cleared
  /\ UNCHANGED <<active, sessionVars, callVars, pc, status, pos, historyVars>>

(* compress / compress_into / compress_to_slice between sessions: the one-shot
   path has buffers of its own, an error or the retention policy may drop
   the cached encoder.  A start() that begin() refuses does no more. *)
OneShot ==
  /\ open = "closed" /\ ~active
  /\ workspace' \in BOOLEAN
  /\ UNCHANGED <<active, staging, pending, served, sessionVars, callVars, pc, status,
                 pos, historyVars>>

-----------------------------------------------------------------------------
(* process() *)

BlockLimit == IF flint THEN 2 ELSE Limit

(* The size hint settles in the first call that can encode input. *)
Inferred(n, o) ==
  LET known == Len(staging) + n
  IN IF hint = "open" /\ known > 0 /\ (known >= BlockLimit \/ o # "Process")
     THEN "settled" ELSE hint

(* The caller offers the next n bytes of its data and r bytes of room. *)
Call(n, r, o) ==
  /\ open = "open" /\ pc = "idle" /\ phase # "Failed"
  /\ phase = "Finished" \/ pos + n <= MaxInput
  /\ hint' = Inferred(n, o)
  /\ op' = o /\ input' = [i \in 1 .. n |-> pos + i] /\ consumed' = 0 /\ room' = r
  /\ IF workspace
     THEN pc' = "drain" /\ status' = "none" /\ UNCHANGED phase
     ELSE pc' = "idle" /\ status' = "InternalInvariant" /\ phase' = "Failed"
  /\ offered' = IF phase = "Finished" \/ offered >= pos + n THEN offered ELSE pos + n
  /\ UNCHANGED <<compressorVars, session, open, flint, pos, blocks, emitted, delivered>>

(* Calls answered without touching the stream. *)
CallRejected(n) ==
  /\ open = "open" /\ pc = "idle"
  /\ status' =
       (IF phase = "Failed" THEN "InvalidState" ELSE "StreamPositionOverflow")
  /\ phase = "Failed" \/ (phase # "Finished" /\ pos + n > MaxInput)
  /\ UNCHANGED <<compressorVars, sessionVars, callVars, pc, pos, historyVars>>

(* Retargeting the encoder to the inferred size fails. *)
CallFails(n, o) ==
  /\ open = "open" /\ pc = "idle" /\ phase # "Failed"
  /\ phase = "Finished" \/ pos + n <= MaxInput
  /\ Inferred(n, o) # hint
  /\ hint' = "settled" /\ phase' = "Failed" /\ status' = "EncodeError"
  /\ UNCHANGED <<compressorVars, session, open, flint, callVars, pc, pos, historyVars>>

Return(s) == pc' = "idle" /\ status' = s

Least(a, b) == IF a <= b THEN a ELSE b

(* Mutant: what is left is asked of the buffer, not of the part not served. *)
DrainUntilEmpty ==
  /\ pc = "drain"
  /\ LET k == Least(room, Len(pending) - served) IN
       /\ delivered' = delivered \o SubSeq(pending, served + 1, served + k)
       /\ room' = room - k
       /\ IF pending # <<>>
          THEN /\ served' = served + k /\ UNCHANGED pending
               /\ Return("NeedsOutput")
               /\ pos' = pos + consumed
          ELSE /\ served' = 0 /\ pending' = <<>>
               /\ pc' = "turn" /\ UNCHANGED <<status, pos>>
  /\ UNCHANGED <<active, workspace, staging, sessionVars, op, input, consumed,
                 offered, blocks, emitted>>

(* Top of the loop: hand over what earlier blocks left pending. *)
Drain ==
  /\ pc = "drain"
  /\ LET k == Least(room, Len(pending) - served) IN
       /\ delivered' = delivered \o SubSeq(pending, served + 1, served + k)
       /\ room' = room - k
       /\ IF served + k < Len(pending)
          THEN /\ served' = served + k /\ UNCHANGED pending
               /\ Return("NeedsOutput")
               /\ pos' = pos + consumed
          ELSE /\ served' = 0 /\ pending' = <<>>
               /\ pc' = "turn" /\ UNCHANGED <<status, pos>>
  /\ UNCHANGED <<active, workspace, staging, sessionVars, op, input, consumed,
                 offered, blocks, emitted>>

(* Mutant: the bytes already staged are not counted. *)
TakeWholeBlock == Least(BlockLimit, Len(input) - consumed)

Take    == Least(BlockLimit - Len(staging), Len(input) - consumed)
AtEnd   == consumed + Take = Len(input)
Restart == flint /\ Len(staging) + Take = 2 /\ (~AtEnd \/ op # "Finish")

Taken   == SubSeq(input, consumed + 1, consumed + Take)

(* Mutant: a flush with no new input is answered without a block. *)
FlushIsDoneEarly == consumed = Len(input) /\ op = "Flush"

FlushIsDone == phase = "Flushed" /\ consumed = Len(input) /\ op = "Flush"

(* The stream is over, or the flush was already answered. *)
Answer ==
  /\ pc = "turn"
  /\ phase = "Finished" \/ FlushIsDone
  /\ Return(IF phase = "Finished" THEN "Finished" ELSE "NeedsInput")
  /\ pos' = pos + consumed
  /\ UNCHANGED <<compressorVars, sessionVars, callVars, historyVars>>

Encoding == pc = "turn" /\ phase # "Finished" /\ ~FlushIsDone

(* Process with the input used up: the tail, a full last block included, is
   staged until the next call says what to do with it. *)
Hold ==
  /\ Encoding /\ AtEnd /\ op = "Process" /\ ~Restart
  /\ staging' = staging \o Taken
  /\ consumed' = consumed + Take
  /\ phase' = IF Take # 0 THEN "Open" ELSE phase
  /\ Return("NeedsInput")
  /\ pos' = pos + consumed + Take
  /\ UNCHANGED <<active, workspace, pending, served, session, open, flint, hint,
                 op, input, room, historyVars>>

BlockOp == IF Restart THEN "Flush" ELSE IF AtEnd THEN op ELSE "Process"

(* Delivery::encode: m units come out of the block; what does not fit the
   room becomes pending. *)
EncodeBlock(m) ==
  /\ Encoding /\ ~(AtEnd /\ op = "Process" /\ ~Restart)
  /\ BlockOp = "Finish" => m > 0
  /\ LET units  == [j \in 1 .. m |-> <<session, emitted + j>>]
         direct == Least(room, m)
     IN /\ delivered' = delivered \o SubSeq(units, 1, direct)
        /\ pending' = SubSeq(units, direct + 1, m)
        /\ room' = room - direct
  /\ emitted' = emitted + m
  /\ served' = 0
  /\ blocks' = Append(blocks, [bytes |-> staging \o Taken, op |-> BlockOp, restart |-> Restart])
  /\ staging' = <<>>
  /\ consumed' = consumed + Take
  /\ phase' = CASE BlockOp = "Finish" -> "Finished"
                [] BlockOp = "Flush" /\ ~Restart -> "Flushed"
                [] OTHER -> "Open"
  /\ flint' = (flint /\ ~Restart)
  /\ pc' = "drain"
  /\ UNCHANGED <<active, workspace, session, open, hint, op, input, status, pos,
                 offered>>

(* The block encoder reports an error. *)
EncodeFails ==
  /\ Encoding /\ ~(AtEnd /\ op = "Process" /\ ~Restart)
  /\ phase' = "Failed"
  /\ Return("EncodeError")
  /\ staging' = IF staging = <<>> THEN <<>> ELSE staging \o Taken
  /\ UNCHANGED <<active, workspace, pending, served, session, open, flint, hint,
                 callVars, pos, historyVars>>

Turn == Answer \/ Hold \/ \E m \in Sizes : EncodeBlock(m)

LifeStep == Begin \/ Release \/ Reinit \/ ReinitFails \/ Leak \/ Recover \/ Reconfigure \/ Trim \/ OneShot

CallStep ==
  \E n \in Chunks, r \in Rooms, o \in Ops :
    Call(n, r, o) \/ CallRejected(n) \/ CallFails(n, o)

StreamNext == LifeStep \/ CallStep \/ Drain \/ Turn \/ EncodeFails

-----------------------------------------------------------------------------
(* Every unit the encoder emitted is delivered exactly once and in order:
   what the caller received, followed by what is pending, is the output of
   this session's encoder and of no earlier one, whatever room the caller
   offered and however a previous session ended. *)
DeliveredInOrder ==
  open = "open" /\ active =>
    delivered \o SubSeq(pending, served + 1, Len(pending))
      = [n \in 1 .. emitted |-> <<session, n>>]

(* No byte is lost, repeated or reordered between the caller, the staging
   buffer and the blocks: the blocks cover a prefix of the caller's data,
   block after block, and staging holds the bytes that follow it up to the
   ones reported as consumed. *)
InputInOrder ==
  open = "open" /\ active /\ phase # "Failed" =>
    LET start(k) == IF blocks[k].bytes = <<>> THEN 0 ELSE blocks[k].bytes[1]
        ends == {0} \cup {blocks[k].bytes[Len(blocks[k].bytes)] :
                           k \in {k \in 1 .. Len(blocks) : blocks[k].bytes # <<>>}}
        encoded == CHOOSE e \in ends : \A f \in ends : f <= e
        accepted == pos + (IF pc = "idle" THEN 0 ELSE consumed)
    IN /\ \A k \in 1 .. Len(blocks) : \A j \in 1 .. Len(blocks[k].bytes) :
            blocks[k].bytes[j] = start(k) + j - 1
       /\ \A k \in 1 .. Len(blocks) : blocks[k].bytes # <<>> =>
            start(k) - 1 \in ends /\ (\A l \in k + 1 .. Len(blocks) :
                                       blocks[l].bytes # <<>> => start(l) > start(k))
       /\ staging = [j \in 1 .. accepted - encoded |-> encoded + j]

(* The cut into blocks does not depend on how the caller cut its input: a
   block that neither a flush nor the end of the stream asked for is exactly
   full, and a stream at an offset flushes exactly its first two bytes.  The
   last block is never empty behind a full one, unless the caller withdrew
   bytes it had offered, so the encoder always sees which block is last.
   Staging never outgrows the limit in force, or the unsigned subtraction
   limit - staging.len() would wrap. *)
BlocksAreFull ==
  /\ open = "open" => Len(staging) <= BlockLimit
  /\ \A k \in 1 .. Len(blocks) :
       /\ blocks[k].op = "Process" => Len(blocks[k].bytes) = Limit
       /\ blocks[k].restart => Len(blocks[k].bytes) = 2 /\ blocks[k].op = "Flush"
       /\ Len(blocks[k].bytes) <= Limit
       /\ blocks[k].op = "Finish" /\ blocks[k].bytes = <<>> /\ k > 1 =>
            blocks[k-1].op = "Flush" \/ offered > pos

(* The encoder is aimed at the inferred size only while it has encoded no
   input: with the hint still open, no block has any byte. *)
HintBeforeInput ==
  open = "open" /\ hint = "open" =>
    \A k \in 1 .. Len(blocks) : blocks[k].bytes = <<>>

(* A flush that returns NeedsInput has made everything accepted decodable,
   and a call that returns Finished has delivered the whole stream: nothing
   is staged, nothing is pending, and the last block ends at the last byte
   consumed with the operation asked for. *)
PromiseKept ==
  open = "open" /\ active /\ pc = "idle" =>
    /\ status = "NeedsInput" /\ op = "Flush" =>
         /\ staging = <<>> /\ pending = <<>>
         /\ blocks # <<>> /\ blocks[Len(blocks)].op = "Flush"
         /\ consumed = Len(input)
    /\ status = "Finished" =>
         /\ staging = <<>> /\ pending = <<>>
         /\ blocks # <<>> /\ blocks[Len(blocks)].op = "Finish"

(* No call comes back empty-handed: NeedsInput means that all input was
   taken, NeedsOutput that all room was used.  A caller that obeys the
   status always makes progress. *)
StatusIsHonest ==
  open = "open" /\ pc = "idle" =>
    /\ status = "NeedsInput" => consumed = Len(input) /\ pending = <<>>
    /\ status = "NeedsOutput" => room = 0 /\ served < Len(pending)

(* A session never outlives the encoder it was started with: the internal
   error of run() is unreachable through release, failed reinit, leaks,
   recovery and one-shot calls. *)
EncoderPresent == status # "InternalInvariant"

=============================================================================
