--------------------------- MODULE DecoderContract ---------------------------
(***************************************************************************)
(* What a decoding operation promises its caller, call by call, without    *)
(* reservoir, stages or paths: how many of the offered bytes an answer may *)
(* take, how many bytes of output it owes by then, and when an operation   *)
(* may finish or fail.                                                     *)
(***************************************************************************)
EXTENDS DecoderWire

VARIABLES
  stream, one, most, size,  \* the stream, member mode, input and output policy
  phase,                    \* closed, open, called, finished or failed
  taken, given,             \* bytes of the operation so far
  offered, room, final,     \* the call: bytes, room, where Finish put the end
  answer

contractVars == <<stream, one, most, size, phase, taken, given, offered, room, final, answer>>
NoEnd == -1

(* Raw bytes and metadata are byte after byte. *)
Units(it) ==
  CASE it.op = "raw"  -> [i \in 1 .. it.n |-> Item("literal", ByteBits)]
    [] it.op = "skip" -> [i \in 1 .. it.n |-> Item("field", ByteBits)]
    [] OTHER          -> <<it>>
Steps     == FlattenSeq([i \in 1 .. Len(Items(stream)) |-> Units(Items(stream)[i])])
Prefix(k) == SubSeq(Steps, 1, k)
EndOf(k)   == BitsOf(Prefix(k))
YieldTo(k) == YieldOf(Prefix(k))

(* With t bytes taken and g given, some step is in progress: the steps     *)
(* before it are in the t bytes and their output is given, and no byte     *)
(* beyond those the step needs is taken.                                   *)
InStep(t, g) ==
  \E k \in 0 .. Len(Steps) :
    /\ YieldTo(k) <= g /\ EndOf(k) <= t * ByteBits
    /\ IF k = Len(Steps)
       THEN g = YieldTo(k) /\ t = Bytes(EndOf(k))
       ELSE /\ g <= YieldTo(k + 1) /\ t <= Bytes(EndOf(k + 1))
            /\ g > YieldTo(k) => EndOf(k + 1) <= t * ByteBits

(* Every step in the t bytes has given its output. *)
Drained(t, g) == \A k \in 0 .. Len(Steps) : EndOf(k) <= t * ByteBits => YieldTo(k) <= g

(* t bytes and g given end a member. *)
MemberEnd(t, g) ==
  \E k \in 1 .. Len(Steps) :
    Steps[k].op = "end" /\ EndOf(k) = t * ByteBits /\ YieldTo(k) = g

Open ==
  /\ phase' = "open" /\ taken' = 0 /\ given' = 0 /\ offered' = 0 /\ room' = 0
  /\ final' = NoEnd /\ answer' = "none"
  /\ stream' \in Seq(Seq([op : Ops, n : Nat])) /\ one' \in BOOLEAN /\ most' \in Nat /\ size' \in Nat

(* The session is gone; the next operation knows nothing of it. *)
Close == phase' = "closed"

(* A call offers the bytes that follow those taken. *)
Offer ==
  /\ phase = "open" /\ phase' = "called" /\ answer' = "none"
  /\ offered' \in Nat /\ room' \in Nat
  /\ final' \in {final} \cup (IF final = NoEnd THEN {taken + offered'} ELSE {})
  /\ final # NoEnd => taken + offered' = final
  /\ UNCHANGED <<stream, one, most, size, taken, given>>

(* A call that breaks the promise of an earlier Finish, or comes after the *)
(* end of the operation.                                                   *)
Misused ==
  /\ phase = "open" /\ final # NoEnd /\ phase' = "failed" /\ answer' = "InvalidState"
  /\ offered' \in Nat /\ room' \in Nat
  /\ UNCHANGED <<stream, one, most, size, taken, given, final>>
Late ==
  /\ phase \in {"finished", "failed"} /\ phase' = phase
  /\ answer' = IF phase = "finished" THEN "Finished" ELSE "InvalidState"
  /\ offered' \in Nat /\ room' \in Nat
  /\ UNCHANGED <<stream, one, most, size, taken, given, final>>

Progress ==
  /\ taken' \in taken .. taken + offered /\ given' \in given .. given + room
  /\ taken' <= most /\ given' <= size
  /\ UNCHANGED <<stream, one, most, size, offered, room, final>>

WantsInput ==
  /\ answer' = "NeedsInput" /\ phase' = "open" /\ final = NoEnd
  /\ taken' = taken + offered /\ Drained(taken', given') /\ InStep(taken', given')
WantsRoom ==
  /\ answer' = "NeedsOutput" /\ phase' = "open"
  /\ given' = given + room /\ InStep(taken', given')
Ends ==
  /\ answer' = "Finished" /\ phase' = "finished"
  /\ MemberEnd(taken', given') /\ size \in {given', 1000}
  /\ one \/ (final # NoEnd /\ taken' = final)

(* An error has its cause in the stream or in a policy. *)
Fails ==
  /\ phase' = "failed"
  /\ \/ /\ answer' = "UnexpectedEnd" /\ taken' = final
        /\ Drained(taken', given') /\ ~MemberEnd(taken', given')
     \/ /\ answer' = "InvalidData"
        /\ \E k \in 1 .. Len(Steps) : Steps[k].op = "bad" /\ YieldTo(k) = given'
     \/ /\ answer' = "InputLimit" /\ taken' = most /\ taken' < taken + offered
     \/ /\ answer' = "OutputSizeMismatch"
        /\ IF given' = size THEN given' < YieldOf(Steps) ELSE MemberEnd(taken', given')

Answer == phase = "called" /\ Progress /\ (WantsInput \/ WantsRoom \/ Ends \/ Fails)

ContractInit == phase = "closed" /\ taken = 0 /\ given = 0 /\ answer = "none"
ContractNext == Open \/ Close \/ Offer \/ Misused \/ Late \/ Answer
ContractSpec == ContractInit /\ [][ContractNext]_contractVars
=============================================================================
