---------------------------- MODULE DecoderStream ----------------------------
(***************************************************************************)
(* The decoder's resumable state machine over its history: the stages that *)
(* produce bytes one call at a time, the fast command loop that produces   *)
(* them in bulk and leaves a stage to resume from, and the three ways a    *)
(* call delivers (copy out of the ring, collect in the ring, decode        *)
(* straight into the caller's slice).                                      *)
(* Source: src/src/decompressor/core/stream.rs, with the delivery chosen   *)
(*         in core/session.rs and decoder.rs.                              *)
(*                                                                         *)
(* The compressed input is abstracted to the symbols it yields, chosen     *)
(* freely, and to the places where it may run out.  A decoded byte carries *)
(* where it came from: Literal(p) for a literal, raw byte or dictionary    *)
(* word byte produced at position p, PrefixByte(i) for the external        *)
(* dictionary's prefix.  text is what the format defines: the plain        *)
(* concatenation of literals and of copies from prefix and history.        *)
(***************************************************************************)
EXTENDS DecoderRing

CONSTANTS
  Windows,      \* window sizes a member may declare
  MaxText,      \* bound: bytes of a member
  Lengths,      \* lengths of data meta-blocks
  Inserts,      \* insert lengths
  Copies,       \* copy lengths
  Codes,        \* distance codes; 16 stands for every explicit one
  Distances,    \* explicit distances
  Words,        \* lengths of transformed dictionary words
  PrefixLens,   \* lengths of the attached prefix; 0 is no dictionary
  Singles,      \* member modes: TRUE is Single, FALSE is Concatenated
  Rooms,        \* lengths of the caller's slices
  Limits,       \* output budgets of an operation
  SmallDistance,\* below it a word without bytes is refused (120)
  MaxMembers    \* bound: members decoded with one workspace

ASSUME DecoderAssumption ==
  /\ Windows \subseteq Nat /\ \A w \in Windows : PowerOfTwo(w) /\ w > Chunk
  /\ MaxText \in Nat /\ MaxMembers \in Nat /\ SmallDistance \in Nat
  /\ Lengths \subseteq Nat \ {0} /\ Copies \subseteq Nat \ {0, 1}
  /\ Inserts \subseteq Nat /\ Codes \subseteq 0 .. 16 /\ Distances \subseteq Nat \ {0}
  /\ Words \subseteq Nat /\ PrefixLens \subseteq Nat
  /\ Singles \subseteq BOOLEAN /\ Rooms \subseteq Nat /\ Limits \subseteq Nat

VARIABLES
  \* the call
  mode,       \* idle, run, failed (an error), over (a one-shot call ended), done
  fault,      \* the error of a failed call
  delivery,   \* slice, collect or linear
  cap, allow, \* room left in the caller's slice, in the output policy
  slice,      \* the caller's slice of a linear call
  \* Stream
  stage, ring, position, flushed, out, window, remaining, last,
  literals, copy, implicit, distance, code, cache,
  offset, start, prefixHistory, scratch,
  \* the fast loop's place: no, command, literals, distance
  fast,
  \* the operation, and what the format defines
  prefix, single, fresh, member, text, recents

callVars    == <<delivery, cap, allow>>
historyVars == <<slice, ring, position, flushed, out>>
blockVars   == <<remaining, last>>
commandVars == <<literals, copy, implicit, distance, code>>
copyVars    == <<offset, start, prefixHistory, scratch>>
memberVars  == <<window, prefix, single, member>>
formatVars  == <<text, recents>>
decoderVars == <<mode, fault, callVars, historyVars, stage, blockVars, commandVars, cache,
                 copyVars, fast, memberVars, fresh, formatVars>>

Literal(p)    == member * MaxText + p + 1
PrefixByte(i) == -(i + 2)
Untouched     == -1

Reading  == {"Window", "Meta", "Tables", "Command", "InsertExtra", "CopyExtra",
             "Distance", "DistanceExtra"}
Stages   == Reading \cup {"Metadata", "Raw", "Literals", "Resolve", "Copy", "Prefix",
                          "PrefixHistory", "Dictionary", "EndBlock", "End"}

(* Mutant: the window has no gap for the speculative tail of a copy. *)
MaxBackwardWithoutGap == window

MaxBackward == window - Chunk
Available   == Lesser(position, MaxBackward)
Linear      == delivery = "linear"
Delivers    == delivery = "slice"

(* Output::fast_end, less what this call produced. *)
Space       == Lesser(cap, allow)

(* The buffer history positions index; a linear one ends with the meta-    *)
(* block or the room (Output::history_end).                                *)
View == IF Linear THEN SubSeq(slice, 1, position + Lesser(remaining, Space)) ELSE ring

History(bytes) == [bytes |-> bytes, pos |-> position, flushed |-> flushed, out |-> out]

Store(h) ==
  /\ position' = h.pos /\ flushed' = h.flushed /\ out' = h.out
  /\ IF Linear
     THEN slice' = h.bytes \o SubSeq(slice, Len(h.bytes) + 1, Len(slice)) /\ ring' = ring
     ELSE ring' = h.bytes /\ slice' = slice

(* n bytes of the meta-block and of the room are used. *)
Spend(n) ==
  /\ remaining' = remaining - n /\ cap' = cap - n /\ allow' = allow - n
  /\ UNCHANGED <<delivery, last>>

(* The bytes a copy of n from distance d stands for: prefix and addressable *)
(* history form one sequence, and a copy longer than d repeats.             *)
Copied(d, n) ==
  LET source == [i \in 1 .. prefix |-> PrefixByte(i - 1)]
                  \o SubSeq(text, position - Available + 1, position)
  IN  [k \in 1 .. n |-> source[Len(source) - d + 1 + ((k - 1) % d)]]

-----------------------------------------------------------------------------
(* Calls and operations. *)

(* Stream::reset: the ring keeps its length and its bytes. *)
ResetMember ==
  /\ stage' = "Window" /\ position' = 0 /\ flushed' = 0 /\ out' = <<>>
  /\ prefixHistory' = <<>> /\ cache' = CacheDefault
  /\ text' = <<>> /\ recents' = <<4, 11, 15, 16>>
  /\ UNCHANGED <<window, blockVars, commandVars, offset, start, scratch, fast>>

(* The previous operation is released and another starts; the ring is kept *)
(* or trimmed, as the retention policy and the workspace limit say.        *)
Start ==
  /\ mode \in {"idle", "failed", "over", "done"}
  /\ member < MaxMembers
  /\ member' = member + 1
  /\ mode' = "idle" /\ fault' = "none"
  /\ delivery' = "slice" /\ cap' = 0 /\ slice' = <<>>
  /\ allow' \in Limits /\ prefix' \in PrefixLens /\ single' \in Singles /\ fresh' = TRUE
  \* take_collected moved the ring into the caller's vector
  /\ ring' \in IF mode = "done" /\ delivery = "collect" THEN {<<>>} ELSE {ring, <<>>}
  /\ ResetMember

(* process: the caller offers another slice, a fresh Vec collects in the    *)
(* ring, and a one-shot call on a slice is linear while nothing was decoded. *)
Call ==
  /\ mode = "idle"
  /\ mode' = "run" /\ fresh' = FALSE
  /\ \/ /\ delivery' = "slice" /\ cap' \in Rooms /\ slice' = <<>>
     \/ /\ position = 0 /\ ring = <<>> /\ prefix = 0 /\ single /\ stage # "Window"
        /\ delivery' = "collect" /\ cap' = window /\ slice' = <<>>
     \/ /\ fresh
        /\ delivery' = "linear"
        /\ cap' \in Rooms /\ slice' = [i \in 1 .. cap' |-> Untouched]
  /\ UNCHANGED <<fault, allow, ring, position, flushed, out, stage, blockVars, commandVars,
                 cache, copyVars, fast, memberVars, formatVars>>

(* A call stops for input or output.  A linear call, and a collecting one   *)
(* out of input, were given everything; a full collecting one hands over    *)
(* the bytes it collected and goes on with slices.                          *)
Stop(input) ==
  /\ mode' = IF Linear \/ (input /\ delivery = "collect") THEN "over" ELSE "idle"
  /\ IF delivery = "collect" /\ ~input
     THEN out' = SubSeq(ring, 1, position) /\ delivery' = "slice"
     ELSE UNCHANGED <<out, delivery>>
  /\ UNCHANGED <<fault, cap, allow, slice, ring, position, flushed, stage, blockVars,
                 commandVars, cache, copyVars, fast, memberVars, fresh, formatVars>>

Fail(error) ==
  /\ mode' = "failed" /\ fault' = error
  /\ UNCHANGED <<callVars, historyVars, stage, blockVars, commandVars, cache, copyVars, fast,
                 memberVars, fresh, formatVars>>

In(s) == mode = "run" /\ fast = "no" /\ stage = s

(* Bytes wait to be written at this stage. *)
Producing ==
  \/ stage = "Raw" /\ remaining > 0
  \/ stage = "Literals" /\ literals > 0
  \/ stage = "Copy" /\ copy > 0
  \/ stage = "Prefix" /\ copy > 0 /\ offset < prefix
  \/ stage = "PrefixHistory" /\ copy > 0 /\ offset < Len(prefixHistory)
  \/ stage = "Dictionary" /\ scratch # <<>>

(* Output::ready: the policy first, then the room. *)
OutputStop ==
  /\ mode = "run" /\ fast = "no" /\ Producing
  /\ IF allow = 0 THEN Fail("limit") ELSE cap = 0 /\ Stop(FALSE)

(* The stage is about to read a field. *)
AtInput ==
  /\ mode = "run" /\ fast = "no"
  /\ \/ stage \in Reading \ {"Command", "Distance"}
     \/ stage \in {"Command", "Metadata"} /\ remaining > 0
     \/ stage = "Distance" /\ ~implicit
     \/ stage \in {"Raw", "Literals"} /\ Producing /\ Space > 0

NeedsInput == AtInput /\ Stop(TRUE)

(* A symbol or a header is invalid, the input limit is met, or the final    *)
(* padding is not zero.                                                     *)
InputFails == (AtInput \/ In("End")) /\ Fail("data")

-----------------------------------------------------------------------------
(* Headers. *)

(* Stage::Window *)
ReadWindow ==
  /\ In("Window")
  /\ window' \in Windows
  /\ stage' = "Meta"
  /\ UNCHANGED <<mode, fault, callVars, historyVars, blockVars, commandVars, cache, copyVars,
                 fast, prefix, single, member, fresh, formatVars>>

(* Stage::Meta *)
ReadMeta ==
  /\ In("Meta")
  /\ \/ stage' = "End" /\ UNCHANGED blockVars
     \/ /\ stage' = "Metadata" /\ remaining' \in {0, 1} /\ last' \in BOOLEAN
     \/ /\ remaining' \in {n \in Lengths : position + n <= MaxText}
        /\ \/ stage' = "Raw" /\ last' = FALSE
           \/ stage' = "Tables" /\ last' \in BOOLEAN
  /\ UNCHANGED <<mode, fault, callVars, historyVars, commandVars, cache, copyVars, fast,
                 memberVars, fresh, formatVars>>

Goto(s) ==
  /\ stage' = s
  /\ UNCHANGED <<mode, fault, callVars, historyVars, blockVars, commandVars, cache, copyVars,
                 fast, memberVars, fresh, formatVars>>

(* Stage::Metadata: bytes are skipped and never reach the output. *)
SkipMetadata ==
  /\ In("Metadata")
  /\ remaining' \in 0 .. remaining - 1
  /\ UNCHANGED <<mode, fault, callVars, historyVars, stage, last, commandVars, cache, copyVars,
                 fast, memberVars, fresh, formatVars>>

(* Stages Blocks to Trees: the tables of a compressed meta-block. *)
ReadTables == In("Tables") /\ (Goto("Command") \/ Fail("memory"))

(* The transitions that decode nothing. *)
BlockDone ==
  /\ \/ In("Metadata") \/ In("Raw") \/ In("Command")
     \/ In("Literals") /\ literals = 0
  /\ remaining = 0
  /\ Goto("EndBlock")

EndBlock == In("EndBlock") /\ Goto(IF last THEN "End" ELSE "Meta")

CopyDone ==
  /\ \/ copy = 0 /\ (In("Copy") \/ In("Prefix") \/ In("PrefixHistory"))
     \/ In("Dictionary") /\ scratch = <<>>
  /\ Goto("Command")

(* Stop::Member ends the operation, or starts the next member of a          *)
(* concatenation, in this call or in a later one.                           *)
EndMember ==
  /\ In("End")
  /\ \/ /\ mode' = "done"
        /\ UNCHANGED <<fault, callVars, historyVars, stage, blockVars, commandVars, cache,
                       copyVars, fast, memberVars, fresh, formatVars>>
     \/ /\ ~single /\ member < MaxMembers
        /\ member' = member + 1
        /\ mode' \in {"run", "idle"}
        /\ delivery' = "slice"
        /\ ResetMember
        /\ UNCHANGED <<fault, cap, allow, slice, ring, prefix, single, fresh>>

-----------------------------------------------------------------------------
(* Bytes one at a time. *)

(* emit: the byte enters the history and the caller's slice. *)
Emit(b) ==
  LET bytes == IF Linear THEN slice ELSE GrowRing(ring, window, position + 1)
      index == IF Linear THEN flushed ELSE Index(bytes, position)
  IN  /\ Store([bytes   |-> [bytes EXCEPT ![index + 1] = b],
                pos     |-> position + 1,
                flushed |-> flushed + 1,
                out     |-> IF Delivers THEN Append(out, b) ELSE out])
      /\ Spend(1)
      /\ UNCHANGED <<mode, fault, cache, fast, memberVars, fresh, recents>>

(* Growing the ring up to end may be refused. *)
NoMemory(end) == ~Linear /\ Growing(ring, window, end) /\ Fail("memory")

(* Stage::Raw out of the bit reservoir. *)
RawByte ==
  /\ In("Raw") /\ remaining > 0 /\ Space > 0
  /\ \/ NoMemory(position + 1)
     \/ /\ Emit(Literal(position))
        /\ text' = Append(text, Literal(position))
        /\ UNCHANGED <<stage, commandVars, copyVars>>

(* write_raw: growth takes the bytes themselves for its initial value.      *)
RawWritten(s) ==
  LET end == position + Len(s)
  IN  IF end > Len(ring) /\ end <= window
      THEN [History(Filled(SubSeq(ring, 1, position) \o s, RingSize(Len(ring), window, end), 0))
              EXCEPT !.pos = end]
      ELSE WriteRing(History(GrowRing(ring, window, end)), s, FALSE)

(* Stage::Raw in bulk: history and output both take the input bytes. *)
RawRun ==
  /\ In("Raw")
  /\ \E n \in 1 .. Lesser(remaining, Space) :
       LET s == [i \in 1 .. n |-> Literal(position + i - 1)]
           h == IF Linear THEN [History(Overlaid(slice, flushed, s)) EXCEPT !.pos = @ + n]
                ELSE RawWritten(s)
       IN  \/ NoMemory(position + n)
           \/ /\ Store([h EXCEPT !.flushed = h.pos,
                                 !.out = IF Delivers THEN @ \o s ELSE @])
              /\ Spend(n)
              /\ text' = text \o s
              /\ UNCHANGED <<mode, fault, stage, commandVars, cache, copyVars, fast, memberVars,
                             fresh, recents>>

(* Stage::Literals, the byte-exact path. *)
LiteralByte ==
  /\ In("Literals") /\ literals > 0 /\ Space > 0
  /\ \/ NoMemory(position + 1)
     \/ /\ Emit(Literal(position))
        /\ text' = Append(text, Literal(position))
        /\ literals' = literals - 1
        /\ UNCHANGED <<stage, copy, implicit, distance, code, copyVars>>

(* Stage::Dictionary *)
WordByte ==
  /\ In("Dictionary") /\ scratch # <<>> /\ Space > 0
  /\ \/ NoMemory(position + 1)
     \/ /\ Emit(Head(scratch))
        /\ scratch' = Tail(scratch)
        /\ UNCHANGED <<stage, text, commandVars, offset, start, prefixHistory>>

(* Stage::PrefixHistory: the history saved before it could be overwritten, *)
(* then the prefix again.                                                  *)
PrefixHistoryByte ==
  /\ In("PrefixHistory") /\ copy > 0
  /\ IF offset = Len(prefixHistory)
     THEN /\ stage' = "Prefix" /\ offset' = start
          /\ UNCHANGED <<mode, fault, callVars, historyVars, blockVars, commandVars, cache,
                         start, prefixHistory, scratch, fast, memberVars, fresh, formatVars>>
     ELSE /\ Space > 0
          /\ \/ NoMemory(position + 1)
             \/ /\ Emit(prefixHistory[offset + 1])
                /\ copy' = copy - 1 /\ offset' = offset + 1
                /\ UNCHANGED <<stage, text, literals, implicit, distance, code, start,
                               prefixHistory, scratch>>

-----------------------------------------------------------------------------
(* Commands. *)

(* Stage::Command without the fast loop, and InsertExtra. *)
ReadCommand ==
  /\ In("Command") /\ remaining > 0
  /\ implicit' \in BOOLEAN
  /\ stage' = "InsertExtra"
  /\ UNCHANGED <<mode, fault, callVars, historyVars, blockVars, literals, copy, distance, code,
                 cache, copyVars, fast, memberVars, fresh, formatVars>>

ReadInsert ==
  /\ In("InsertExtra")
  /\ \E n \in Inserts :
       IF n > remaining THEN Fail("data")
       ELSE /\ literals' = n /\ stage' = "CopyExtra"
            /\ UNCHANGED <<mode, fault, callVars, historyVars, blockVars, copy, implicit,
                           distance, code, cache, copyVars, fast, memberVars, fresh, formatVars>>

ReadCopy ==
  /\ In("CopyExtra")
  /\ copy' \in Copies /\ stage' = "Literals"
  /\ UNCHANGED <<mode, fault, callVars, historyVars, blockVars, literals, implicit, distance,
                 code, cache, copyVars, fast, memberVars, fresh, formatVars>>

LiteralsDone ==
  /\ In("Literals") /\ literals = 0 /\ remaining > 0
  /\ Goto("Distance")

(* Stage::Distance: the last distance, or a symbol. *)
ReadDistance ==
  /\ In("Distance")
  /\ \/ /\ implicit
        /\ code' = 0 /\ distance' = Recent(cache, 0) /\ stage' = "Resolve"
     \/ /\ ~implicit
        /\ code' \in Codes /\ stage' = "DistanceExtra" /\ UNCHANGED distance
  /\ UNCHANGED <<mode, fault, callVars, historyVars, blockVars, literals, copy, implicit,
                 cache, copyVars, fast, memberVars, fresh, formatVars>>

(* The distances a code may resolve to; none is an error. *)
Resolved(c) ==
  IF c = 16 THEN Distances ELSE {d \in {Short(cache, c)} : d > 0}

(* Stages DistanceExtra and DistanceExtraHigh *)
ReadDistanceExtra ==
  /\ In("DistanceExtra")
  /\ IF Resolved(code) = {} THEN Fail("data")
     ELSE /\ distance' \in Resolved(code) /\ stage' = "Resolve"
          /\ UNCHANGED <<mode, fault, callVars, historyVars, blockVars, literals, copy, implicit,
                         code, cache, copyVars, fast, memberVars, fresh, formatVars>>

(* What a copy from d adds to the text and to the recent distances. *)
Reference(d, c, n) ==
  /\ text' = text \o Copied(d, n)
  /\ recents' = IF c = 0 THEN recents ELSE <<d>> \o SubSeq(recents, 1, 3)

(* Mutant: the newest bytes are saved in place of the oldest. *)
SavedNewest(crossing) ==
  LET n == Lesser(crossing, Available)
  IN  [i \in 1 .. n |-> At(IF Linear THEN slice ELSE ring, position - n + i - 1)]

(* The oldest addressable bytes a copy that leaves the prefix will read. *)
Saved(crossing) ==
  [i \in 1 .. Lesser(crossing, Available) |->
     At(IF Linear THEN slice ELSE ring, position - Available + i - 1)]

(* Stage::Resolve, a reference into the prefix. *)
ResolvePrefix ==
  /\ In("Resolve")
  /\ distance > Available /\ distance - Available <= prefix
  /\ IF copy > remaining THEN Fail("data")
     ELSE \/ distance > MaxBackward /\ Fail("memory")
          \/ LET o == prefix - (distance - Available)
             IN  /\ offset' = o /\ start' = o
                 /\ prefixHistory' = IF distance > MaxBackward
                                     THEN Saved(Greater(copy - (prefix - o), 0))
                                     ELSE prefixHistory
                 /\ cache' = IF code # 0 THEN Push(cache, distance) ELSE cache
                 /\ Reference(distance, code, copy)
                 /\ stage' = "Prefix"
                 /\ UNCHANGED <<mode, fault, callVars, historyVars, blockVars, commandVars, scratch,
                                fast, memberVars, fresh>>

(* A dictionary word of n bytes. *)
Word(n) == [i \in 1 .. n |-> Literal(position + i - 1)]
WordRefused(n, d) == n > remaining \/ (n = 0 /\ d <= SmallDistance)

(* Stage::Resolve, a dictionary word: never a recent distance. *)
ResolveWord ==
  /\ In("Resolve")
  /\ distance > Available + prefix
  /\ \/ Fail("data")
     \/ \E n \in Words :
          IF WordRefused(n, distance) THEN Fail("data")
          ELSE /\ scratch' = Word(n) /\ text' = text \o Word(n)
               /\ stage' = "Dictionary"
               /\ UNCHANGED <<mode, fault, callVars, historyVars, blockVars, commandVars, cache,
                              offset, start, prefixHistory, fast, memberVars, fresh, recents>>

(* Stage::Resolve, a copy from history. *)
ResolveCopy ==
  /\ In("Resolve")
  /\ distance <= Available
  /\ IF copy > remaining THEN Fail("data")
     ELSE /\ cache' = IF code # 0 THEN Push(cache, distance) ELSE cache
          /\ Reference(distance, code, copy)
          /\ stage' = "Copy"
          /\ UNCHANGED <<mode, fault, callVars, historyVars, blockVars, commandVars, copyVars,
                         fast, memberVars, fresh>>

(* A unit-distance copy whose growth is the fill (repeat_growing). *)
Repeating(d, end) == ~Linear /\ d = 1 /\ end > Len(ring) /\ end <= window
RepeatGrown(end) ==
  [History(RepeatGrow(ring, window, position, ring[position], end)) EXCEPT !.pos = end]

(* Stage::Copy: as much of the copy as the room takes. *)
CopyRun ==
  /\ In("Copy") /\ copy > 0 /\ Space > 0
  /\ LET n == Lesser(copy, Space)
         h == IF Repeating(distance, position + n) THEN RepeatGrown(position + n)
              ELSE CopyRing(History(IF Linear THEN View ELSE GrowRing(ring, window, position + n)),
                            distance, n, Delivers)
     IN  \/ NoMemory(position + n)
         \/ /\ Store(Flush(h, Delivers)) /\ Spend(n)
            /\ copy' = copy - n
            /\ stage' = IF copy = n THEN "Command" ELSE "Copy"
            /\ UNCHANGED <<mode, fault, literals, implicit, distance, code, cache, copyVars, fast,
                           memberVars, fresh, formatVars>>

(* Stage::Prefix: a run of one prefix segment; past its end the copy goes   *)
(* on in the history, or in what was saved of it.                           *)
PrefixRun ==
  /\ In("Prefix") /\ copy > 0
  /\ IF offset = prefix
     THEN /\ IF distance <= MaxBackward THEN stage' = "Copy" /\ UNCHANGED offset
             ELSE stage' = "PrefixHistory" /\ offset' = 0
          /\ UNCHANGED <<mode, fault, callVars, historyVars, blockVars, commandVars, cache, start,
                         prefixHistory, scratch, fast, memberVars, fresh, formatVars>>
     ELSE \E segment \in 1 .. prefix - offset :
            LET n == Lesser(Lesser(segment, copy), Space)
                s == [i \in 1 .. n |-> PrefixByte(offset + i - 1)]
                h == IF Linear THEN [History(Overlaid(slice, flushed, s)) EXCEPT !.pos = @ + n]
                     ELSE WriteRing(History(GrowRing(ring, window, position + n)), s, Delivers)
            IN  /\ n > 0
                /\ \/ NoMemory(position + n)
                   \/ /\ Store(Flush(h, Delivers)) /\ Spend(n)
                      /\ copy' = copy - n /\ offset' = offset + n
                      /\ UNCHANGED <<mode, fault, stage, literals, implicit, distance, code, cache,
                                     start, prefixHistory, scratch, fast, memberVars, fresh,
                                     formatVars>>

-----------------------------------------------------------------------------
(* The fast command loop.  Decoded bytes wait in the history, from flushed  *)
(* to position, until the ring's end is reached or the loop leaves.         *)

EnterFast ==
  /\ \/ In("Command") /\ remaining > 0 /\ fast' = "command"
     \/ In("Literals") /\ literals > 0 /\ Space > 0 /\ fast' = "literals"
  /\ UNCHANGED <<mode, fault, callVars, historyVars, stage, blockVars, commandVars, cache,
                 copyVars, memberVars, fresh, formatVars>>

InFast(place) == mode = "run" /\ fast = place

(* leave!: deliver what is pending. *)
Leave(h) == Store(Flush(h, Delivers)) /\ fast' = "no"

(* pause!: leave a stage to resume from. *)
Pause(s) ==
  /\ Leave(History(View)) /\ stage' = s
  /\ UNCHANGED <<mode, fault, callVars, blockVars, memberVars, fresh>>

(* check!: an error also delivers what was decoded before it.  The command  *)
(* is not needed any more; c is the cache as the loop had it.               *)
FastFail(error, c) ==
  /\ Leave(History(View)) /\ mode' = "failed" /\ fault' = error /\ cache' = c
  /\ UNCHANGED <<callVars, stage, blockVars, commandVars, copyVars, memberVars, fresh,
                 formatVars>>

(* The loop's command: nothing left, no whole word of input, or a symbol. *)
FastCommand ==
  /\ InFast("command")
  /\ \/ Pause("Command") /\ UNCHANGED <<commandVars, cache, copyVars, formatVars>>
     \/ /\ remaining > 0
        /\ \E n \in Inserts :
             IF n > remaining THEN FastFail("data", cache)
             ELSE /\ literals' = n /\ implicit' \in BOOLEAN
                  /\ \/ Pause("CopyExtra") /\ copy' = 0
                     \/ /\ copy' \in Copies
                        /\ fast' = "literals"
                        /\ UNCHANGED <<mode, fault, callVars, historyVars, stage, blockVars,
                                       memberVars, fresh>>
                  /\ UNCHANGED <<distance, code, cache, copyVars, formatVars>>

(* reach!: once per call the ring grows for all the call may still produce. *)
Unreached(end) == ~Linear /\ Growing(ring, window, end)
Reached(end) ==
  IF Unreached(end) THEN GrowRing(ring, window, position + Lesser(remaining, Space)) ELSE View
ReachFails(end, c) ==
  /\ Unreached(end) /\ Unreached(position + Lesser(remaining, Space))
  /\ FastFail("memory", c)

(* A run of literals up to the room, the block switch or the ring's end. *)
FastLiterals ==
  /\ InFast("literals") /\ literals > 0
  /\ \/ ReachFails(position + literals, cache)
     \/ LET bytes == Reached(position + literals)
            index == Index(bytes, position)
            run   == Lesser(Lesser(literals, Space),
                            Len(bytes) - index)
        IN  \E done \in 0 .. run :
              LET s == [i \in 1 .. done |-> Literal(position + i - 1)]
                  w == [History(Overlaid(bytes, index, s))
                          EXCEPT !.pos = @ + done]
                  h == IF ~Linear /\ index + done = Len(bytes) THEN Flush(w, Delivers) ELSE w
              IN  /\ literals' = literals - done
                  /\ Spend(done)
                  /\ text' = text \o s
                  /\ \/ literals' > 0 /\ Leave(h) /\ stage' = "Literals"
                     \/ done > 0 /\ Store(h) /\ UNCHANGED <<fast, stage>>
                  /\ UNCHANGED <<mode, fault, copy, implicit, distance, code, cache, copyVars,
                                 memberVars, fresh, recents>>

(* The end of the insert run: of the meta-block, or input for a distance. *)
FastLiteralsDone ==
  /\ InFast("literals") /\ literals = 0
  /\ IF remaining = 0 THEN Pause("Command") /\ UNCHANGED <<commandVars, cache, copyVars, formatVars>>
     ELSE \/ ~implicit /\ Pause("Distance") /\ UNCHANGED <<commandVars, cache, copyVars, formatVars>>
          \/ /\ fast' = "distance"
             /\ UNCHANGED <<mode, fault, callVars, historyVars, stage, blockVars, commandVars,
                            cache, copyVars, memberVars, fresh, formatVars>>

(* The loop goes on with history h after n bytes. *)
Continue(h, n) ==
  /\ Store(h) /\ Spend(n) /\ fast' = "command"
  /\ UNCHANGED <<mode, fault, stage, memberVars, fresh>>

(* Mutant: the popped distance is not put back. *)
RestoredNever(c, d, popped) == popped

(* The cache after a reference that leaves it alone. *)
Restored(c, d, popped) == IF c = 0 THEN Push(popped, d) ELSE popped

(* A reference beyond the history: the prefix is left to the stages, a word *)
(* is written at once if it fits.  The cache is whole again.                *)
FastBeyond(c, d, popped) ==
  /\ cache' = Restored(c, d, popped)
  /\ UNCHANGED <<literals, copy, implicit, offset, start, prefixHistory, recents>>
  /\ distance' = d /\ code' = c
  /\ IF d - Available <= prefix THEN Pause("Resolve") /\ UNCHANGED <<scratch, text>>
     ELSE \E n \in Words :
            /\ ~WordRefused(n, d)
            /\ text' = text \o Word(n)
            /\ IF n > Space THEN Pause("Dictionary") /\ scratch' = Word(n)
               ELSE /\ Continue(WriteRing(History(Reached(position + n)), Word(n), Delivers), n)
                    /\ UNCHANGED scratch

(* A copy: the distance re-enters the slot it was popped from or takes a    *)
(* new one; the copy is done at once, or left to Stage::Copy.               *)
FastCopy(c, d, popped) ==
  LET end   == position + copy
      bytes == Reached(end)
      grown == RepeatGrown(end)
  IN  /\ cache' = Push(popped, d)
      /\ Reference(d, c, copy)
      /\ distance' = d /\ code' = c
      /\ UNCHANGED <<literals, copy, implicit, copyVars>>
      /\ IF copy > Space THEN Pause("Copy")
         ELSE Continue(IF Repeating(d, end)
                       THEN IF end = Len(grown.bytes) THEN Flush(grown, Delivers) ELSE grown
                       ELSE CopyFast(History(bytes), d, copy, Linear, Delivers), copy)

(* The conditions under which the loop's reference is an error. *)
FastReferenceFails(c, d, popped) ==
  IF d > Available
  THEN /\ d - Available > prefix
       /\ \/ FastFail("data", Restored(c, d, popped))
          \/ \E n \in Words :
               /\ ~WordRefused(n, d) /\ n <= Space
               /\ ReachFails(position + n, Restored(c, d, popped))
  ELSE \/ copy > remaining /\ FastFail("data", popped)
       \/ /\ copy <= Lesser(remaining, Space)
          /\ \/ ReachFails(position + copy, Push(popped, d))
             \/ /\ Linear /\ position + copy > Len(View)
                /\ FastFail("internal", Push(popped, d))

FastDistance ==
  /\ InFast("distance")
  /\ \E c \in IF implicit THEN {0} ELSE Codes :
       \/ /\ c = 16 /\ code' = c
          /\ Pause("DistanceExtra")
          /\ UNCHANGED <<literals, copy, implicit, distance, cache, copyVars, formatVars>>
       \/ Resolved(c) = {} /\ FastFail("data", cache)
       \/ \E d \in Resolved(c) :
            LET popped == IF c = 0 THEN Pop(cache) ELSE cache
            IN  \/ FastReferenceFails(c, d, popped)
                \/ d > Available /\ FastBeyond(c, d, popped)
                \/ /\ d <= Available /\ copy <= remaining
                   /\ Linear => copy > Space \/ position + copy <= Len(View)
                   /\ FastCopy(c, d, popped)

-----------------------------------------------------------------------------
DecoderInit ==
  /\ mode = "done" /\ fault = "none" /\ delivery = "slice" /\ cap = 0 /\ allow = 0
  /\ slice = <<>> /\ stage = "Window" /\ ring = <<>> /\ position = 0 /\ flushed = 0
  /\ out = <<>> /\ window = 2 * Chunk /\ remaining = 0 /\ last = FALSE
  /\ literals = 0 /\ copy = 0 /\ implicit = FALSE /\ distance = 0 /\ code = 0
  /\ cache = CacheDefault /\ offset = 0 /\ start = 0 /\ prefixHistory = <<>> /\ scratch = <<>>
  /\ fast = "no" /\ prefix = 0 /\ single = TRUE /\ fresh = FALSE /\ member = 0
  /\ text = <<>> /\ recents = <<4, 11, 15, 16>>

Headers  == ReadWindow \/ ReadMeta \/ SkipMetadata \/ ReadTables \/ BlockDone \/ EndBlock
Commands == \/ ReadCommand \/ ReadInsert \/ ReadCopy \/ LiteralsDone \/ ReadDistance
            \/ ReadDistanceExtra \/ ResolvePrefix \/ ResolveWord \/ ResolveCopy
Bytes    == \/ RawByte \/ RawRun \/ LiteralByte \/ WordByte \/ PrefixHistoryByte
            \/ CopyRun \/ PrefixRun \/ CopyDone
FastLoop == EnterFast \/ FastCommand \/ FastLiterals \/ FastLiteralsDone \/ FastDistance

DecoderNext ==
  \/ Start \/ Call \/ OutputStop \/ NeedsInput \/ InputFails \/ EndMember
  \/ Headers \/ Commands \/ Bytes \/ FastLoop

DecoderSpec == DecoderInit /\ [][DecoderNext]_decoderVars

-----------------------------------------------------------------------------
(* Every variable has its type; in particular no subtraction from the room, *)
(* the policy or the meta-block's length wraps (emit, Output::fast_end).     *)
DecoderTypeOK ==
  /\ mode \in {"idle", "run", "failed", "over", "done"}
  /\ fault \in {"none", "data", "limit", "memory", "internal"}
  /\ delivery \in {"slice", "collect", "linear"}
  /\ cap \in Nat /\ allow \in Nat /\ remaining \in Nat /\ literals \in Nat /\ copy \in Nat
  /\ stage \in Stages /\ fast \in {"no", "command", "literals", "distance"}
  /\ position \in 0 .. MaxText /\ flushed \in 0 .. position
  /\ Len(ring) = 0 \/ PowerOfTwo(Len(ring))
  /\ {last, implicit, single, fresh} \subseteq BOOLEAN

(* What the caller has been given of this member. *)
Seen == CASE delivery = "linear"  -> SubSeq(slice, 1, flushed)
          [] delivery = "collect" -> SubSeq(ring, 1, flushed)
          [] OTHER -> out

(* The caller is given exactly the text the format defines, wherever calls  *)
(* stop, whichever path decodes and however the ring wraps (run_stages,     *)
(* fast, copy_ring): nothing decoded is withheld outside the fast loop, and *)
(* a member that ends has delivered all of it.                              *)
DeliveredIsText ==
  /\ Len(Seen) = flushed /\ IsPrefix(Seen, text)
  /\ fast = "no" => flushed = position
  /\ In("End") => Seen = text

(* Every byte a later reference may address is in the history, also after   *)
(* the speculative tails of copy16 and copy32 and with stale bytes of an    *)
(* earlier member in the ring.                                              *)
HistoryIntact ==
  \A p \in position - Available .. position - 1 :
    At(IF Linear THEN slice ELSE ring, p) = text[p + 1]

(* Until an error the cache holds the distances of the last copies, whatever *)
(* mix of stages and fast loop decoded them (Cache::pop, Cache::push).       *)
CacheIsRecent ==
  mode # "failed" => \A i \in 0 .. 3 : Recent(cache, i) = recents[i + 1]

(* A linear call that succeeds leaves the rest of the caller's slice alone  *)
(* (decompress_to_slice), and never meets its internal check.               *)
SuffixUntouched ==
  /\ fault # "internal"
  /\ mode = "done" /\ Linear => \A i \in flushed + 1 .. Len(slice) : slice[i] = Untouched

(* The caller's bytes are the text and nothing but the text: what a call      *)
(* delivers, and what it must leave alone.                                    *)
OutputIsTheText == DeliveredIsText /\ SuffixUntouched

(* The history can be read wherever a reference may lead, and no room,        *)
(* position or length that addresses it has wrapped.                          *)
HistoryHolds == DecoderTypeOK /\ HistoryIntact
=============================================================================
