--------------------------- MODULE MCDecoderSession ---------------------------
(***************************************************************************)
(* The decoding session under each of its clients: a caller that offers    *)
(* any slices in any order of operations, the Read and Write adapters and  *)
(* the one-shot calls.                                                     *)
(***************************************************************************)
EXTENDS DecoderAdapters

CONSTANTS
  Clients,    \* the clients modelled by a run
  Offers,     \* lengths of the slices a caller offers
  Rooms       \* and of the ones it decodes into

VARIABLE client

vars == <<client, sessionVars, readerVars, writerVars, shot>>

(* Copies and literals behind a header; raw bytes and metadata after a     *)
(* read-ahead; a stored member; an invalid code behind a literal.          *)
Compressed == <<Item("field", 3), Item("symbol", 5), Item("literal", 2), Item("literal", 4),
                Item("copy", 2), Item("symbol", 3), Item("copy", 2)>>
Mixed      == <<Item("field", 1), Item("literal", 3), Item("align", 0), Item("raw", 3),
                Item("field", 2), Item("align", 0), Item("skip", 2)>>
StoredMember == <<Item("field", 3), Item("align", 0), Item("raw", 3), Item("field", 2)>>
Invalid    == <<Item("field", 2), Item("literal", 3), Item("bad", 0)>>

MCWires == {<<Compressed, Mixed>>, <<Mixed, StoredMember>>, <<StoredMember, Compressed>>,
            <<Compressed, Invalid>>}

(* Any caller: slices of the stream in order, a Finish that may come early *)
(* or twice, a session dropped, leaked, or its decoder recovered.          *)
CallerNext ==
  \/ Start \/ DropSession \/ Forget \/ Recover
  \/ \E n \in Offers, room \in Rooms, finish \in BOOLEAN : Process(n, room, finish)
  \/ Run

Init ==
  /\ client \in Clients
  /\ SessionInit /\ ReaderInit /\ WriterInit /\ ShotInit

Next ==
  /\ client' = client
  /\ \/ client = "caller" /\ CallerNext /\ UNCHANGED <<readerVars, writerVars, shot>>
     \/ client = "reader" /\ ReaderNext /\ UNCHANGED <<writerVars, shot>>
     \/ client = "writer" /\ WriterNext /\ UNCHANGED <<readerVars, shot>>
     \/ client = "oneshot" /\ ShotNext /\ UNCHANGED <<readerVars, writerVars>>

(* The decoder's loop runs to its end once it is called. *)
Fairness == WF_vars(client' = client /\ Run /\ UNCHANGED <<readerVars, writerVars, shot>>)

Spec == Init /\ [][Next]_vars /\ Fairness

-----------------------------------------------------------------------------
(* The reservoir holds the stream: its buffered bits are the ones that     *)
(* follow the decoder's position, each once; nothing sits above them when  *)
(* no call is open, and inside a call only the bits the stream has there.  *)
(* A byte that bypassed the reservoir, a byte returned to the caller or a  *)
(* bit of another operation would break it (Bits::settle, Bits::unread,    *)
(* Stream::reset).                                                         *)
ReservoirIsTheStream ==
  open =>
    /\ pos + bits.count = (op.in + IF pc = "run" THEN call.consumed ELSE 0) * ByteBits
    /\ \A i \in Places :
         IF i < bits.count THEN bits.value[i] = {pos + i}
         ELSE bits.value[i] \subseteq (IF pc = "run" THEN {pos + i} ELSE {})

(* The operation as its contract sees it: totals move when a call returns. *)
Contract == INSTANCE DecoderContract WITH
  stream <- wire, one <- single, most <- limit, size <- exact,
  taken <- op.in, given <- op.out, offered <- call.len, room <- call.room,
  final <- IF op.finishing THEN op.finalEnd ELSE -1,
  answer <- reply.status,
  phase <- CASE ~open -> "closed" [] op.failed -> "failed"
             [] op.finished -> "finished" [] pc = "run" -> "called" [] OTHER -> "open"

(* Refinement: through every client, path and slicing the session keeps    *)
(* its contract.  It takes no byte beyond the step in progress, asks for   *)
(* input only when all it was given is taken and all that is owed is       *)
(* delivered, finishes at the exact byte a member ends, and fails only for *)
(* a cause in the stream or the policies (OperationState::run).            *)
KeepsContract == Contract!ContractSpec

(* Every call returns (Stream::run_stages: every stage makes progress or   *)
(* stops).                                                                 *)
CallsReturn == pc = "run" ~> pc = "idle"

(* What the three clients of a session are told is what happened: the reader  *)
(* (ReaderAccounts), the writer over a failing sink (WriterDelivers) and the  *)
(* one-shot calls (OneShotWhole).                                             *)
ClientsKeepTheirWord == ReaderAccounts /\ WriterDelivers /\ OneShotWhole
=============================================================================
