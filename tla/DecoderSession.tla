---------------------------- MODULE DecoderSession ----------------------------
(***************************************************************************)
(* One decoding operation over a stream that arrives in slices: the bit    *)
(* reservoir that survives between calls, the lifecycle flags, the member  *)
(* boundary, and the decoder the operation claims and releases.            *)
(* Source: src/src/decompressor/core/session.rs, core/bits.rs, the input   *)
(*         side of core/stream.rs, session.rs and decoder.rs.              *)
(***************************************************************************)
EXTENDS DecoderWire

CONSTANTS
  Wires,      \* the streams an operation may be given
  Singles,    \* member modes: TRUE is Single, FALSE is Concatenated
  InLimits,   \* bounds on accepted bytes
  Exacts      \* exact output sizes; NoSize is OutputSize::Unknown

NoSize == 1000

ASSUME SessionAssumption ==
  /\ Singles \subseteq BOOLEAN /\ InLimits \subseteq Nat /\ Exacts \subseteq Nat
  /\ \A w \in Wires :
       /\ w \in Seq(Seq([op : Ops, n : 0 .. MAX_PEEK]))
       /\ \A m \in DOMAIN w : \A i \in DOMAIN w[m] :
            w[m][i].op \in {"raw", "skip"} => i > 1 /\ w[m][i - 1].op = "align"

VARIABLES
  wire, single, limit, exact,  \* the operation's stream and policies
  active,     \* Decompressor::active
  open,       \* a session borrows the decoder
  pc,         \* idle, run (inside process)
  call,       \* [len, consumed, room, produced]: the slices of the call
  bits,       \* Stream::bits
  member, item, left,          \* the stage: an item, and bytes left of it
  op,         \* OperationState
  reply,      \* the last DecodeProgress or DecodeFailure
  pos         \* the format's position: bits of the items done so far

sessionVars == <<wire, single, limit, exact, active, open, pc, call, bits, member, item,
                 left, op, reply, pos>>
policyVars  == <<wire, single, limit, exact, active, open>>
stageVars   == <<member, item, left, pos>>

NewOperation == [in |-> 0, out |-> 0, members |-> 0, finalEnd |-> 0, finishing |-> FALSE,
                 boundary |-> FALSE, finished |-> FALSE, failed |-> FALSE]
NoCall  == [len |-> 0, consumed |-> 0, room |-> 0, produced |-> 0]
NoReply == [status |-> "none", consumed |-> 0, produced |-> 0]

ItemAt(m, i) == IF m \in DOMAIN wire /\ i \in DOMAIN wire[m] THEN wire[m][i] ELSE End
Current == ItemAt(member, item)
Unread0 == BytesOf(wire) - op.in

-----------------------------------------------------------------------------
(* The lifecycle of an operation. *)

(* Stream::reset: an empty reservoir, the first stage. *)
ResetWorkspace == bits' = Empty /\ member' = 1 /\ item' = 1 /\ pos' = 0

(* OperationState::start; a decoder that is still claimed refuses it with  *)
(* AbandonedSession.                                                       *)
Start ==
  /\ ~open /\ ~active
  /\ \E w \in Wires, s \in Singles, l \in InLimits, e \in Exacts :
       wire' = w /\ single' = s /\ limit' = l /\ exact' = e
  /\ active' = TRUE /\ open' = TRUE
  /\ ResetWorkspace /\ left' = ItemAt(1, 1)'.n
  /\ UNCHANGED <<pc, call, op, reply>>

(* The session ends, and its state with it. *)
EndSession ==
  /\ open /\ pc = "idle" /\ open' = FALSE
  /\ wire' = <<>> /\ single' = TRUE /\ limit' = 0 /\ exact' = 0
  /\ op' = NewOperation /\ call' = NoCall /\ reply' = NoReply /\ pc' = pc /\ left' = 0

(* The session is dropped or hands its decoder back: release.  reinit is   *)
(* this and Start.                                                         *)
DropSession == EndSession /\ active' = FALSE /\ ResetWorkspace

(* The session is leaked: its destructor never runs. *)
Forget == EndSession /\ UNCHANGED <<active, bits, member, item, pos>>

(* Decompressor::recover or reconfigure, for a decoder whose session was   *)
(* leaked.                                                                 *)
Recover ==
  /\ ~open /\ active /\ active' = FALSE /\ ResetWorkspace
  /\ UNCHANGED <<wire, single, limit, exact, open, pc, call, left, op, reply>>

-----------------------------------------------------------------------------
(* One call. *)

Refused == [status |-> "InvalidState", consumed |-> 0, produced |-> 0]

(* The end declared by an earlier Finish is not the end of this input. *)
BreaksPromise(n, finish) == op.finishing /\ (~finish \/ op.in + n # op.finalEnd)

(* OperationState::run, up to its loop. *)
Process(n, room, finish) ==
  /\ open /\ pc = "idle" /\ n \in 0 .. Unread0 /\ room \in Nat
  /\ call' = [len |-> n, consumed |-> 0, room |-> room, produced |-> 0]
  /\ CASE op.failed -> reply' = Refused /\ UNCHANGED <<pc, op>>
       [] op.finished /\ ~op.failed ->
            reply' = [Refused EXCEPT !.status = "Finished"] /\ UNCHANGED <<pc, op>>
       [] OTHER ->
            IF BreaksPromise(n, finish)
            THEN reply' = Refused /\ op' = [op EXCEPT !.failed = TRUE] /\ pc' = pc
            ELSE /\ pc' = "run" /\ reply' = NoReply
                 /\ op' = IF finish /\ ~op.finishing
                          THEN [op EXCEPT !.finishing = TRUE, !.finalEnd = op.in + n]
                          ELSE op
  /\ UNCHANGED <<policyVars, bits, stageVars>>

(* The end of a call: the totals take its progress, an error poisons. *)
Return(status, o, c) ==
  /\ pc' = "idle" /\ call' = c
  /\ reply' = [status |-> status, consumed |-> c.consumed, produced |-> c.produced]
  /\ op' = [o EXCEPT !.in = @ + c.consumed, !.out = @ + c.produced,
                     !.failed = status \notin {"NeedsInput", "NeedsOutput", "Finished"}]

(* Mutant: an output pause keeps its read-ahead. *)
UnreadKept(b, c) == [bits |-> Settle(b), call |-> c]

(* Stream::run at an output pause or a member end: whole bytes read ahead  *)
(* in this call go back to the caller.                                     *)
UnreadCall(b, c) ==
  LET n == Unread(b, c.consumed)
  IN  [bits |-> Returned(b, n), call |-> [c EXCEPT !.consumed = @ - n]]

(* The workspace stops for room.                                           *)
StopOutput ==
  LET u == UnreadCall(bits, call)
  IN  /\ bits' = u.bits /\ Return("NeedsOutput", op, u.call)
      /\ UNCHANGED <<policyVars, stageVars>>

(* It stops in the middle of an item for input: accepted bytes stay.       *)
StopInput(b, c) ==
  /\ bits' = Settle(b)
  /\ Return(IF op.finishing THEN "UnexpectedEnd" ELSE "NeedsInput", op, c)
  /\ UNCHANGED <<policyVars, stageVars>>

Fail(error, b, c) ==
  /\ bits' = Settle(b) /\ Return(error, op, c)
  /\ UNCHANGED <<policyVars, stageVars>>

(* Stop::Member, then the loop's own test of the boundary. *)
EndMember ==
  LET b == Aligned(bits)
      u == UnreadCall(b, call)
  IN  /\ pc = "run" /\ ~op.boundary /\ Current = End
      /\ bits' = u.bits /\ call' = u.call
      /\ op' = [op EXCEPT !.members = @ + 1, !.boundary = TRUE]
      /\ pos' = After(pos, End)
      /\ UNCHANGED <<policyVars, pc, member, item, left, reply>>

SizeWrong == exact # NoSize /\ op.out + call.produced # exact

(* The member is the last one. *)
Over == single \/ (op.finishing /\ call.consumed = call.len)

AtBoundary == pc = "run" /\ op.boundary

Finish ==
  /\ AtBoundary /\ Over
  /\ IF SizeWrong THEN Return("OutputSizeMismatch", op, call)
                  ELSE Return("Finished", [op EXCEPT !.finished = TRUE], call)
  /\ UNCHANGED <<policyVars, bits, stageVars>>

BoundaryInput ==
  /\ AtBoundary /\ ~Over /\ call.consumed = call.len
  /\ Return("NeedsInput", op, call)
  /\ UNCHANGED <<policyVars, bits, stageVars>>

(* Another member: the workspace is reset. *)
NextMember ==
  /\ AtBoundary /\ ~Over /\ call.consumed < call.len
  /\ op' = [op EXCEPT !.boundary = FALSE]
  /\ bits' = Empty /\ member' = member + 1 /\ item' = 1 /\ left' = ItemAt(member + 1, 1).n
  /\ UNCHANGED <<policyVars, pc, call, reply, pos>>

-----------------------------------------------------------------------------
(* The stages, inside a call. *)

At(ops) == pc = "run" /\ ~op.boundary /\ Current.op \in ops

Have == call.len - call.consumed
Room == Least(call.room - call.produced, exact - op.out - call.produced)

(* Output::ready: the size policy, then the room. *)
TooLong == op.out + call.produced + 1 > exact
Full    == call.produced >= call.room

Advance ==
  /\ item' = item + 1 /\ left' = ItemAt(member, item + 1).n
  /\ pos' = After(pos, Current) /\ member' = member

(* Bytes still missing of a field of n bits, and how many of them may be   *)
(* accepted now.                                                           *)
Missing(n) == IF n > bits.count THEN Bytes(n - bits.count) ELSE 0
Loaded(n)  == Least(Missing(n), FastEnd(op.in + call.consumed, Have, limit))

(* Bits::peek: bytes go in one by one until the field is whole. *)
Peeked(n)   == Load(bits, op.in + call.consumed, Loaded(n))
Accepting(k) == [call EXCEPT !.consumed = @ + k]

(* peek did not get its field: no more input, or its limit. *)
ShortOf(n) ==
  IF Loaded(n) = Have THEN StopInput(Peeked(n), Accepting(Loaded(n)))
                      ELSE Fail("InputLimit", Peeked(n), Accepting(Loaded(n)))

(* A field or a symbol is read. *)
ReadBits ==
  /\ At({"field", "symbol"})
  /\ IF Loaded(Current.n) < Missing(Current.n)
     THEN ShortOf(Current.n)
     ELSE /\ bits' = Drop(Peeked(Current.n), Current.n)
          /\ call' = Accepting(Loaded(Current.n))
          /\ Advance /\ UNCHANGED <<policyVars, pc, op, reply>>

(* A stage that yields bytes first asks for room. *)
NoRoom ==
  /\ At({"literal", "copy", "raw"}) /\ left > 0
  /\ \/ TooLong /\ Fail("OutputSizeMismatch", bits, call)
     \/ ~TooLong /\ Full /\ StopOutput

Ready == left > 0 /\ ~TooLong /\ ~Full

Literal ==
  /\ At({"literal"}) /\ Ready
  /\ IF Loaded(Current.n) < Missing(Current.n)
     THEN ShortOf(Current.n)
     ELSE /\ bits' = Drop(Peeked(Current.n), Current.n)
          /\ call' = [Accepting(Loaded(Current.n)) EXCEPT !.produced = @ + 1]
          /\ Advance /\ UNCHANGED <<policyVars, pc, op, reply>>

(* A whole word lies before the fast end of the input. *)
WordFits == FastEnd(op.in + call.consumed, Have, limit) >= WordBytes

(* The fast loop refills before it decodes; how far it then gets before it *)
(* leaves the rest to the byte-exact stages is left open.                  *)
ReadAhead ==
  /\ At(Fast) /\ WordFits
  /\ bits' = Refill(bits, op.in + call.consumed) /\ bits' # bits
  /\ call' = Accepting(Accepted(bits))
  /\ UNCHANGED <<policyVars, pc, op, reply, stageVars>>

(* Stage::Copy and the other stages that produce without input. *)
Copy ==
  /\ At({"copy"}) /\ Ready
  /\ LET n == Least(left, Room)
     IN  /\ left' = left - n /\ call' = [call EXCEPT !.produced = @ + n]
  /\ UNCHANGED <<policyVars, pc, bits, member, item, pos, op, reply>>

(* Mutant: a finished metadata run is not left. *)
SkipStays ==
  /\ At({"copy", "raw"}) /\ left = 0
  /\ item' = item + 1 /\ left' = ItemAt(member, item + 1).n
  /\ UNCHANGED <<policyVars, pc, call, bits, member, pos, op, reply>>

(* The stage's run is over: its remaining count is zero. *)
ItemDone ==
  /\ At({"copy", "raw", "skip"}) /\ left = 0
  /\ item' = item + 1 /\ left' = ItemAt(member, item + 1).n
  /\ UNCHANGED <<policyVars, pc, call, bits, member, pos, op, reply>>

(* The padding before raw bytes and metadata. *)
Align ==
  /\ At({"align"}) /\ bits' = Aligned(bits) /\ Advance
  /\ UNCHANGED <<policyVars, pc, call, op, reply>>

(* One byte of a raw or metadata run, out of the reservoir; y bytes of     *)
(* output.                                                                 *)
ThroughBits(y) ==
  IF Loaded(ByteBits) < Missing(ByteBits)
  THEN ShortOf(ByteBits)
  ELSE /\ bits' = Drop(Peeked(ByteBits), ByteBits)
       /\ call' = [Accepting(Loaded(ByteBits)) EXCEPT !.produced = @ + y]
       /\ left' = left - 1 /\ pos' = pos + ByteBits
       /\ UNCHANGED <<policyVars, pc, member, item, op, reply>>

(* n bytes bypass the reservoir, which must stop holding them as bits read *)
(* ahead.                                                                  *)
Bypass(n, y) ==
  /\ bits' = Settle(bits)
  /\ call' = [Accepting(n) EXCEPT !.produced = @ + y]
  /\ left' = left - n /\ pos' = pos + n * ByteBits
  /\ UNCHANGED <<policyVars, pc, member, item, op, reply>>

InRun(most) == Least(most, FastEnd(op.in + call.consumed, Have, limit))

(* Stage::Raw *)
Raw ==
  /\ At({"raw"}) /\ Ready
  /\ LET n == InRun(Least(left, Room))
     IN  IF bits.count >= ByteBits \/ n = 0 THEN ThroughBits(1) ELSE Bypass(n, n)

(* Stage::Metadata *)
Skip ==
  /\ At({"skip"}) /\ left > 0
  /\ LET n == InRun(left)
     IN  IF bits.count >= ByteBits \/ n = 0 THEN ThroughBits(0) ELSE Bypass(n, 0)

Bad == At({"bad"}) /\ Fail("InvalidData", bits, call)

Run ==
  \/ EndMember \/ Finish \/ BoundaryInput \/ NextMember
  \/ ReadBits \/ NoRoom \/ Literal \/ ReadAhead \/ Copy \/ ItemDone
  \/ Align \/ Raw \/ Skip \/ Bad

SessionInit ==
  /\ wire = <<>> /\ single = TRUE /\ limit = 0 /\ exact = 0
  /\ active = FALSE /\ open = FALSE /\ pc = "idle" /\ call = NoCall
  /\ bits = Empty /\ member = 1 /\ item = 1 /\ left = 0
  /\ op = NewOperation /\ reply = NoReply /\ pos = 0
=============================================================================
