---------------------------- MODULE EncoderIOProofs ---------------------------
(***************************************************************************)
(* The encoder session under every kind of caller and the Write and Read   *)
(* adapters over it, proved for every block size, chunking, output room,   *)
(* buffer size and number of sessions: what the encoder emits arrives once *)
(* and in order, what the caller offers ends up in the blocks once and in  *)
(* order, answers are true, and through short writes and reads, failures   *)
(* and retries nothing is lost, repeated or reported that did not happen.  *)
(***************************************************************************)
EXTENDS MCEncoderIO, TLAPS

Operations == {"Process", "Flush", "Finish"}
Units == Nat \X Nat
Coded == [bytes : Seq(Nat), op : Operations, restart : BOOLEAN]

-----------------------------------------------------------------------------
(* Sequences. *)

(* The elements from a + 1 to b of a sequence. *)
LEMMA PartOfSeq ==
  ASSUME NEW S, NEW s \in Seq(S), NEW a \in Nat, NEW b \in Nat, b <= Len(s)
  PROVE  /\ SubSeq(s, a + 1, b) \in Seq(S)
         /\ Len(SubSeq(s, a + 1, b)) = IF a <= b THEN b - a ELSE 0
         /\ \A i \in 1 .. b - a : SubSeq(s, a + 1, b)[i] = s[a + i]
OBVIOUS

(* One sequence after another. *)
LEMMA JoinedSeq ==
  ASSUME NEW S, NEW s \in Seq(S), NEW t \in Seq(S)
  PROVE  /\ s \o t \in Seq(S) /\ Len(s \o t) = Len(s) + Len(t)
         /\ \A i \in 1 .. Len(s) : (s \o t)[i] = s[i]
         /\ \A i \in 1 .. Len(t) : (s \o t)[Len(s) + i] = t[i]
OBVIOUS

-----------------------------------------------------------------------------
(* The inductive invariant of the session. *)

FlagTypes ==
  /\ active \in BOOLEAN /\ workspace \in BOOLEAN /\ flint \in BOOLEAN
  /\ flint => TRUE \in Offsets

DataTypes ==
  /\ staging \in Seq(Nat) /\ input \in Seq(Nat)
  /\ pending \in Seq(Units) /\ delivered \in Seq(Units)
  /\ blocks \in Seq(Coded)
  /\ served \in 0 .. Len(pending) /\ consumed \in 0 .. Len(input)
  /\ session \in Nat /\ room \in Nat /\ pos \in Nat /\ offered \in Nat /\ emitted \in Nat
  /\ open \in {"open", "closed", "leaked"} /\ hint \in {"open", "settled"}
  /\ phase \in {"Open", "Flushed", "Finished", "Failed"}
  /\ pc \in {"idle", "drain", "turn"} /\ op \in Operations

StreamTypes == FlagTypes /\ DataTypes

(* A call runs over a live session and its encoder, on the bytes that follow
   those of the calls before. *)
InCall ==
  /\ open = "open" /\ phase # "Failed" => active /\ workspace
  /\ pc # "idle" =>
       /\ open = "open" /\ phase # "Failed"
       /\ \A i \in 1 .. Len(input) : input[i] = pos + i
       /\ phase # "Finished" => pos + Len(input) <= offered
  /\ pc = "turn" => pending = <<>> /\ served = 0

(* Units move from the encoder through pending to the caller. *)
Queued ==
  open = "open" /\ active =>
    /\ Len(delivered) + (Len(pending) - served) = emitted
    /\ \A n \in 1 .. Len(delivered) : delivered[n] = <<session, n>>
    /\ \A n \in served + 1 .. Len(pending) : pending[n] = <<session, Len(delivered) + (n - served)>>

(* A flushed or finished session has nothing staged behind the block that
   flushed or finished it. *)
Settled ==
  open = "open" /\ active /\ phase \in {"Flushed", "Finished"} =>
    /\ staging = <<>> /\ blocks # <<>>
    /\ blocks[Len(blocks)].op = IF phase = "Flushed" THEN "Flush" ELSE "Finish"

(* Bytes of the caller's data the session has taken, and those in blocks. *)
Accepted == pos + (IF pc = "idle" THEN 0 ELSE consumed)
Encoded  == Accepted - Len(staging)

Ends(b) == {0} \cup {b[k].bytes[Len(b[k].bytes)] : k \in {k \in 1 .. Len(b) : b[k].bytes # <<>>}}

(* The blocks' bytes follow one another up to the staged ones. *)
Consecutive ==
  open = "open" /\ active /\ phase # "Failed" =>
    /\ Encoded \in Nat
    /\ \A j \in 1 .. Len(staging) : staging[j] = Encoded + j
    /\ Encoded \in Ends(blocks) /\ \A e \in Ends(blocks) : e \in Nat /\ e <= Encoded
    /\ \A k \in 1 .. Len(blocks) : \A j \in 1 .. Len(blocks[k].bytes) :
         blocks[k].bytes[j] = blocks[k].bytes[1] + j - 1
    /\ \A k \in 1 .. Len(blocks) : blocks[k].bytes # <<>> =>
         /\ blocks[k].bytes[1] - 1 \in Ends(blocks)
         /\ \A l \in k + 1 .. Len(blocks) :
              blocks[l].bytes # <<>> => blocks[l].bytes[1] > blocks[k].bytes[1]

(* The cut into blocks. *)
Cut ==
  /\ open = "open" => Len(staging) <= BlockLimit
  /\ \A k \in 1 .. Len(blocks) :
       /\ blocks[k].op = "Process" => Len(blocks[k].bytes) = Limit
       /\ blocks[k].restart => Len(blocks[k].bytes) = 2 /\ blocks[k].op = "Flush"
       /\ Len(blocks[k].bytes) <= Limit

(* Behind the finishing block there is none, and an empty one follows a full
   block only when the caller withdrew bytes it had offered. *)
Finishes ==
  /\ \A k \in 1 .. Len(blocks) : blocks[k].op = "Finish" =>
       k = Len(blocks) /\ phase \in {"Finished", "Failed"}
  /\ open = "open" /\ phase \in {"Open", "Flushed"} /\ blocks # <<>> /\ staging = <<>>
       /\ blocks[Len(blocks)].op = "Process" => offered > Accepted
  /\ \A k \in 2 .. Len(blocks) :
       blocks[k].op = "Finish" /\ blocks[k].bytes = <<>> /\ blocks[k-1].op # "Flush" =>
         offered > Accepted

(* While the size hint is open no byte is in a block, nor can the call in
   progress put one there. *)
HintOpen ==
  open = "open" /\ hint = "open" =>
    /\ \A k \in 1 .. Len(blocks) : blocks[k].bytes = <<>>
    /\ pc # "idle" =>
         LET known == Len(staging) + (Len(input) - consumed)
         IN known = 0 \/ (op = "Process" /\ known < BlockLimit)

StreamInv ==
  /\ StreamTypes /\ InCall /\ Queued /\ Settled /\ Consecutive /\ Cut /\ Finishes /\ HintOpen
  /\ AnswersAreTrue


-----------------------------------------------------------------------------
(* Whoever calls it, the session takes its own steps. *)

AdapterTypes == writing \in Nat /\ want \in Nat /\ taken \in Nat /\ buffered \in Seq(Nat)

CallOf3(n, r, o) == Call(n, r, o) \/ CallRejected(n) \/ CallFails(n, o)

SessionStep ==
  \/ LifeStep \/ Drain \/ Turn \/ EncodeFails
  \/ \E n \in Nat, r \in Nat, o \in Operations : CallOf3(n, r, o)
  \/ UNCHANGED streamVars

(* The lengths the callers may use. *)
LEMMA CallLengths ==
  Chunks \subseteq Nat /\ Rooms \subseteq Nat /\ Ops \subseteq Operations /\ Pull \in Nat /\ MaxInput \in Nat
  /\ Sizes \subseteq Nat /\ Limit \in Nat \ {0} /\ Offsets \subseteq BOOLEAN /\ (TRUE \in Offsets => Limit >= 2)
BY StreamAssumption, PullAssumption DEF Operations

(* A writer's step leaves the session alone or is one call of it. *)
LEMMA WriterSession ==
  ASSUME AdapterTypes, WriterCall \/ WriterRuns
  PROVE  SessionStep /\ writing' \in Nat
<1>1. CASE Pump
  <2>1. PICK n \in Nat, o \in Operations : PumpArgs[1] = n /\ PumpArgs[2] = o
    <3>1. CASE wpc = "write.pump"
      BY <3>1 DEF PumpArgs, AdapterTypes, Operations
    <3>2. CASE wpc = "flush.pump"
      BY <3>2 DEF PumpArgs, Operations
    <3>3. CASE wpc = "finish.pump"
      BY <3>3 DEF PumpArgs, Operations
    <3> QED
      BY <1>1, <3>1, <3>2, <3>3 DEF Pump
  <2>2. CallOf3(n, Pull, o)
    BY <1>1, <2>1 DEF Pump, CallOf3
  <2> QED
    BY <1>1, <2>2, CallLengths DEF SessionStep, Pump, AdapterTypes
<1>2. CASE ~ Pump
  <2>1. UNCHANGED streamVars
    BY <1>2 DEF WriterCall, WriterRuns, Write, Flush, TryFinish, SinkAccepts, SinkFails, Delivered, Sync, Pumped
  <2>2. writing' \in Nat
    BY <1>2, CallLengths DEF WriterCall, WriterRuns, Write, Flush, TryFinish, SinkAccepts, SinkFails, Delivered,
       Sync, Pumped, AdapterTypes
  <2> QED
    BY <2>1, <2>2 DEF SessionStep
<1> QED
  BY <1>1, <1>2

(* So does a reader's. *)
LEMMA ReaderSession ==
  ASSUME AdapterTypes, consumed \in Nat, ReaderCall \/ ReaderRuns
  PROVE  SessionStep /\ want' \in Nat /\ taken' \in Nat /\ buffered' \in Seq(Nat)
<1>1. CASE Process
  <2>1. Len(buffered) \in Nat
    BY DEF AdapterTypes
  <2>2. CallOf3(Len(buffered), want, IF eof THEN "Finish" ELSE "Process")
    BY <1>1 DEF Process, CallOf3
  <2>3. (IF eof THEN "Finish" ELSE "Process") \in Operations
    BY DEF Operations
  <2>4. SessionStep
    BY <2>1, <2>2, <2>3 DEF SessionStep, AdapterTypes
  <2> QED
    BY <1>1, <2>4 DEF Process, AdapterTypes
<1>2. CASE ~ Process
  <2>1. UNCHANGED streamVars
    BY <1>2 DEF ReaderCall, ReaderRuns, Read, SourceReads, SourceFails, NoFill, Processed
  <2>2. want' \in Nat
    BY <1>2, CallLengths DEF ReaderCall, ReaderRuns, Read, SourceReads, SourceFails, NoFill, Processed, AdapterTypes
  <2>3. CASE SourceReads
    <3>1. PICK k \in 0 .. Least(Fill, MaxInput - taken) :
            buffered' = [i \in 1 .. k |-> taken + i] /\ taken' = taken + k
      BY <2>3 DEF SourceReads
    <3>2. k \in Nat
      BY CallLengths, FillAssumption DEF Least, AdapterTypes
    <3>3. buffered' \in Seq(Nat) /\ taken' \in Nat
      BY <3>1, <3>2 DEF AdapterTypes
    <3> QED
      BY <2>1, <2>2, <3>3 DEF SessionStep
  <2>4. CASE Processed
    <3>1. buffered' = buffered \/ buffered' = SubSeq(buffered, consumed + 1, Len(buffered))
      BY <2>4 DEF Processed
    <3>2. buffered' \in Seq(Nat)
      <4>1. buffered \in Seq(Nat) /\ Len(buffered) \in Nat
        BY DEF AdapterTypes
      <4>2. SubSeq(buffered, consumed + 1, Len(buffered)) \in Seq(Nat)
        BY <4>1, PartOfSeq
      <4> QED
        BY <3>1, <4>1, <4>2
    <3> QED
      BY <2>1, <2>2, <2>4, <3>2 DEF SessionStep, Processed, AdapterTypes
  <2>5. CASE ~ SourceReads /\ ~ Processed
    BY <1>2, <2>1, <2>2, <2>5 DEF ReaderCall, ReaderRuns, Read, SourceFails, NoFill, AdapterTypes, SessionStep
  <2> QED
    BY <2>3, <2>4, <2>5
<1> QED
  BY <1>1, <1>2


-----------------------------------------------------------------------------
(* Steps that encode nothing. *)

(* Initially there is no session. *)
LEMMA StreamStart == StreamInit => StreamInv
<1> SUFFICES ASSUME StreamInit PROVE StreamInv
  OBVIOUS
<1>1. StreamTypes
  <2>1. FlagTypes
    BY DEF StreamInit, FlagTypes
  <2>2. DataTypes
    BY DEF StreamInit, DataTypes, Operations
  <2> QED
    BY <2>1, <2>2 DEF StreamTypes
<1>2. InCall /\ Queued /\ Settled /\ Consecutive /\ Cut /\ Finishes /\ HintOpen
  BY DEF StreamInit, InCall, Queued, Settled, Consecutive, Cut, Finishes, HintOpen
<1>3. AnswersAreTrue
  BY DEF StreamInit, AnswersAreTrue, PromiseKept, StatusIsHonest, EncoderPresent
<1> QED
  BY <1>1, <1>2, <1>3 DEF StreamInv

(* A session begins with empty buffers and no history. *)
LEMMA FreshStep ==
  ASSUME StreamInv, Begin \/ Reinit
  PROVE  StreamInv'
<1>1. /\ pc = "idle" /\ pc' = pc /\ UNCHANGED callVars /\ Fresh /\ open' = "open" /\ session' = session + 1
  BY DEF Begin, Reinit, Fresh, StreamInv, InCall
<1>2. /\ active' = TRUE /\ workspace' = TRUE /\ staging' = <<>> /\ pending' = <<>> /\ served' = 0
      /\ phase' = "Open" /\ status' = "none" /\ pos' = 0 /\ offered' = 0 /\ blocks' = <<>>
      /\ emitted' = 0 /\ delivered' = <<>> /\ flint' \in Offsets /\ hint' \in {"open", "settled"}
  BY <1>1 DEF Fresh, Cleared
<1>3. BlockLimit' \in Nat
  BY CallLengths DEF BlockLimit
<1>4. StreamTypes'
  <2>1. FlagTypes'
    BY <1>2, CallLengths DEF FlagTypes
  <2>2. DataTypes'
    BY <1>1, <1>2 DEF StreamInv, StreamTypes, DataTypes, callVars
  <2> QED
    BY <2>1, <2>2 DEF StreamTypes
<1>5. InCall' /\ Queued' /\ Settled' /\ Finishes' /\ HintOpen'
  BY <1>1, <1>2 DEF InCall, Queued, Settled, Finishes, HintOpen
<1>6. Consecutive' /\ Cut'
  <2>1. Accepted' = 0 /\ Encoded' = 0 /\ Ends(blocks') = {0}
    <3>1. Ends(<<>>) = {0}
      BY DEF Ends
    <3>2. Ends(blocks') = {0}
      BY <1>2, <3>1, Zenon
    <3>3. Accepted' = 0
      BY <1>1, <1>2 DEF Accepted
    <3>4. Encoded' = 0
      <4>1. Encoded' = Accepted' - Len(staging')
        BY DEF Encoded
      <4>2. Len(<<>>) = 0
        OBVIOUS
      <4>3. Encoded' = 0 - 0
        BY <1>2, <3>3, <4>1, <4>2, Zenon
      <4> QED
        BY <4>3
    <3> QED
      BY <3>2, <3>3, <3>4, Zenon
  <2> QED
    BY <1>2, <1>3, <2>1 DEF Consecutive, Cut
<1>7. AnswersAreTrue'
  BY <1>2 DEF AnswersAreTrue, PromiseKept, StatusIsHonest, EncoderPresent
<1> QED
  BY <1>4, <1>5, <1>6, <1>7 DEF StreamInv

(* A session ends, is leaked or is poisoned: its history stays as it was. *)
LEMMA EndStep ==
  ASSUME StreamInv,
         Release \/ Leak \/ Recover \/ Reconfigure \/ Trim \/ OneShot \/ ReinitFails
  PROVE  StreamInv'
<1>1. /\ UNCHANGED <<session, flint, hint, callVars, pc, pos, historyVars>>
      /\ open' # "open" \/ (open' = "open" /\ phase' = "Failed" /\ active' = FALSE)
      /\ phase' = phase \/ phase' = "Failed"
      /\ pc = "idle" /\ status' \in {status, "BeginError"}
      /\ open' # "open" \/ (status' = "BeginError" /\ staging' = <<>>)
      /\ open' \in {"open", "closed", "leaked"} /\ (open' = "open" => open = "open")
  BY DEF Release, Leak, Recover, Reconfigure, Trim, OneShot, ReinitFails, StreamInv, StreamTypes, FlagTypes, DataTypes, InCall,
     sessionVars, Cleared
<1>2. /\ active' \in BOOLEAN /\ workspace' \in BOOLEAN
      /\ \/ staging' = <<>> /\ pending' = <<>> /\ served' = 0
         \/ UNCHANGED <<staging, pending, served>>
  BY DEF Release, Leak, Recover, Reconfigure, Trim, OneShot, ReinitFails, Released, Cleared, compressorVars,
     StreamInv, StreamTypes, FlagTypes, DataTypes
<1>3. StreamTypes'
  <2>1. FlagTypes'
    BY <1>1, <1>2 DEF StreamInv, StreamTypes, FlagTypes
  <2>2. DataTypes'
    <3>1. /\ staging' \in Seq(Nat) /\ pending' \in Seq(Units) /\ served' \in 0 .. Len(pending')
      <4>1. CASE staging' = <<>> /\ pending' = <<>> /\ served' = 0
        BY <4>1
      <4>2. CASE UNCHANGED <<staging, pending, served>>
        BY <4>2 DEF StreamInv, StreamTypes, DataTypes
      <4> QED
        BY <1>2, <4>1, <4>2
    <3> QED
      BY <1>1, <3>1 DEF StreamInv, StreamTypes, DataTypes, callVars, historyVars
  <2> QED
    BY <2>1, <2>2 DEF StreamTypes
<1>4. InCall' /\ Queued' /\ Settled' /\ Consecutive' /\ HintOpen'
  <2>1. InCall'
    BY <1>1, <1>2 DEF InCall
  <2> QED
    BY <1>1, <2>1 DEF Queued, Settled, Consecutive, HintOpen, historyVars, StreamInv
<1>5. Cut'
  <2>1. open' = "open" => Len(staging') <= BlockLimit'
    BY <1>1, CallLengths DEF BlockLimit
  <2> QED
    BY <1>1, <2>1 DEF StreamInv, Cut, historyVars
<1>6. Finishes'
  <2>1. Accepted' = Accepted
    BY <1>1 DEF Accepted
  <2> QED
    BY <1>1, <2>1 DEF StreamInv, Finishes, historyVars
<1>7. AnswersAreTrue'
  BY <1>1 DEF AnswersAreTrue, PromiseKept, StatusIsHonest, EncoderPresent, StreamInv
<1> QED
  BY <1>3, <1>4, <1>5, <1>6, <1>7 DEF StreamInv

(* A call that is turned away, or fails before the stream is touched. *)
LEMMA TurnedAwayStep ==
  ASSUME StreamInv, NEW n \in Nat, NEW o \in Operations, CallRejected(n) \/ CallFails(n, o)
  PROVE  StreamInv'
<1>1. /\ UNCHANGED <<compressorVars, session, open, flint, callVars, pc, pos, historyVars>>
      /\ pc = "idle" /\ status' \notin {"NeedsInput", "NeedsOutput", "Finished", "InternalInvariant"}
      /\ \/ phase' = phase /\ hint' = hint
         \/ phase' = "Failed" /\ hint' = "settled"
  BY DEF CallRejected, CallFails, sessionVars
<1>2. StreamTypes'
  BY <1>1 DEF StreamInv, StreamTypes, FlagTypes, DataTypes, compressorVars, callVars, historyVars
<1>3. Accepted' = Accepted /\ Encoded' = Encoded /\ BlockLimit' = BlockLimit
  BY <1>1 DEF Accepted, Encoded, BlockLimit, compressorVars, callVars
<1>4. InCall' /\ Queued' /\ Settled' /\ HintOpen'
  BY <1>1 DEF InCall, Queued, Settled, HintOpen, StreamInv, compressorVars, callVars, historyVars
<1>5. Consecutive' /\ Cut' /\ Finishes'
  BY <1>1, <1>3 DEF Consecutive, Cut, Finishes, StreamInv, compressorVars, historyVars
<1>6. AnswersAreTrue'
  BY <1>1 DEF AnswersAreTrue, PromiseKept, StatusIsHonest, EncoderPresent
<1> QED
  BY <1>2, <1>4, <1>5, <1>6 DEF StreamInv

(* A call begins: its input follows the bytes already taken. *)
LEMMA CallStarts ==
  ASSUME StreamInv, NEW n \in Nat, NEW r \in Nat, NEW o \in Operations, Call(n, r, o)
  PROVE  StreamInv'
<1>1. /\ UNCHANGED <<compressorVars, session, open, flint, pos, blocks, emitted, delivered, phase>>
      /\ open = "open" /\ pc = "idle" /\ phase # "Failed" /\ pc' = "drain" /\ status' = "none"
      /\ hint' = Inferred(n, o) /\ op' = o /\ input' = [i \in 1 .. n |-> pos + i] /\ consumed' = 0 /\ room' = r
      /\ offered' = IF phase = "Finished" \/ offered >= pos + n THEN offered ELSE pos + n
  BY DEF Call, StreamInv, InCall
<1>2. /\ pos \in Nat /\ offered \in Nat /\ Len(input') = n /\ input' \in Seq(Nat) /\ offered' \in Nat
      /\ offered <= offered' /\ (phase # "Finished" => pos + n <= offered')
      /\ \A i \in 1 .. Len(input') : input'[i] = pos + i
  BY <1>1 DEF StreamInv, StreamTypes, FlagTypes, DataTypes
<1>3. Accepted' = Accepted /\ Encoded' = Encoded /\ BlockLimit' = BlockLimit /\ Accepted \in Nat
  BY <1>1, <1>2 DEF Accepted, Encoded, BlockLimit, compressorVars
<1>4. StreamTypes'
  <2>1. FlagTypes'
    BY <1>1 DEF StreamInv, StreamTypes, FlagTypes, compressorVars
  <2>2. DataTypes'
    BY <1>1, <1>2 DEF StreamInv, StreamTypes, DataTypes, compressorVars, Inferred
  <2> QED
    BY <2>1, <2>2 DEF StreamTypes
<1>5. InCall' /\ Queued' /\ Settled'
  BY <1>1, <1>2 DEF InCall, Queued, Settled, StreamInv, compressorVars
<1>6. Consecutive' /\ Cut'
  BY <1>1, <1>3 DEF Consecutive, Cut, StreamInv, compressorVars
<1>7. Finishes'
  BY <1>1, <1>2, <1>3 DEF Finishes, StreamInv, compressorVars
<1>8. HintOpen'
  <2> SUFFICES ASSUME hint' = "open"
               PROVE  /\ hint = "open"
                      /\ \/ Len(staging) + n = 0
                         \/ o = "Process" /\ Len(staging) + n < BlockLimit
    BY <1>1, <1>2, <1>3 DEF HintOpen, StreamInv, compressorVars
  <2>1. Len(staging) + n \in Nat /\ BlockLimit \in Nat
    BY CallLengths DEF StreamInv, StreamTypes, FlagTypes, DataTypes, BlockLimit
  <2> QED
    BY <1>1, <2>1 DEF Inferred
<1>9. AnswersAreTrue'
  BY <1>1 DEF AnswersAreTrue, PromiseKept, StatusIsHonest, EncoderPresent
<1> QED
  BY <1>4, <1>5, <1>6, <1>7, <1>8, <1>9 DEF StreamInv


-----------------------------------------------------------------------------
(* Handing over. *)

InOrder(q, g) == \A n \in 1 .. Len(q) : q[n] = <<g, n>>
ToFollow(q, a, g, d) == \A n \in a + 1 .. Len(q) : q[n] = <<g, d + (n - a)>>

(* Units of a session that move from the head of a queue to the end of
   another keep their numbers. *)
Handed(D, P, a, k) == D \o SubSeq(P, a + 1, a + k)

LEMMA HandOver ==
  ASSUME NEW D \in Seq(Units), NEW P \in Seq(Units), NEW a \in 0 .. Len(P), NEW k \in 0 .. Len(P) - a, NEW g \in Nat,
         InOrder(D, g), ToFollow(P, a, g, Len(D))
  PROVE  /\ Handed(D, P, a, k) \in Seq(Units) /\ Len(Handed(D, P, a, k)) = Len(D) + k
         /\ InOrder(Handed(D, P, a, k), g) /\ ToFollow(P, a + k, g, Len(Handed(D, P, a, k)))
<1> DEFINE E == Handed(D, P, a, k)
<1> DEFINE Q == SubSeq(P, a + 1, a + k)
<1>1. Len(P) \in Nat /\ Len(D) \in Nat /\ a \in Nat /\ k \in Nat /\ a + k <= Len(P)
  OBVIOUS
<1>2. Q \in Seq(Units) /\ Len(Q) = k /\ \A i \in 1 .. k : Q[i] = P[a + i]
  <2>1. a + k \in Nat /\ a <= a + k /\ (a + k) - a = k
    BY <1>1
  <2>2. P \in Seq(Units) /\ a + k <= Len(P)
    BY <1>1
  <2>3. /\ Q \in Seq(Units)
        /\ Len(Q) = IF a <= a + k THEN (a + k) - a ELSE 0
        /\ \A i \in 1 .. (a + k) - a : Q[i] = P[a + i]
    <3> HIDE DEF Q
    <3>1. Q = SubSeq(P, a + 1, a + k)
      BY DEF Q
    <3>2. ASSUME NEW b \in Nat, b = a + k
          PROVE  /\ SubSeq(P, a + 1, b) \in Seq(Units)
                 /\ Len(SubSeq(P, a + 1, b)) = IF a <= b THEN b - a ELSE 0
                 /\ \A i \in 1 .. b - a : SubSeq(P, a + 1, b)[i] = P[a + i]
      BY <1>1, <2>2, <3>2, PartOfSeq
    <3> QED
      BY <2>1, <3>1, <3>2
  <2> QED
    BY <1>1, <2>1, <2>3
<1> HIDE DEF Q
<1>3. /\ E \in Seq(Units) /\ Len(E) = Len(D) + Len(Q)
      /\ \A i \in 1 .. Len(D) : E[i] = D[i]
      /\ \A i \in 1 .. Len(Q) : E[Len(D) + i] = Q[i]
  <2>1. D \in Seq(Units) /\ Q \in Seq(Units)
    BY <1>2
  <2>2. /\ D \o Q \in Seq(Units) /\ Len(D \o Q) = Len(D) + Len(Q)
        /\ \A i \in 1 .. Len(D) : (D \o Q)[i] = D[i]
        /\ \A i \in 1 .. Len(Q) : (D \o Q)[Len(D) + i] = Q[i]
    BY <2>1, JoinedSeq
  <2> QED
    BY <2>2 DEF Q, Handed
<1> HIDE DEF E
<1>4. Len(E) = Len(D) + k /\ \A i \in 1 .. k : E[Len(D) + i] = Q[i]
  BY <1>2, <1>3
<1>5. ASSUME NEW n \in 1 .. Len(E) PROVE E[n] = <<g, n>>
  <2>1. CASE n <= Len(D)
    BY <1>1, <1>3, <2>1 DEF InOrder
  <2>2. CASE ~ n <= Len(D)
    <3> DEFINE i == n - Len(D)
    <3>1. i \in 1 .. k /\ Len(D) + i = n
      BY <1>1, <1>4, <2>2
    <3>2. E[n] = P[a + i]
      BY <1>2, <1>4, <3>1
    <3>3. a + i \in a + 1 .. Len(P) /\ Len(D) + ((a + i) - a) = n
      BY <1>1, <3>1
    <3> QED
      BY <3>2, <3>3 DEF ToFollow
  <2> QED
    BY <2>1, <2>2
<1>6. ASSUME NEW n \in a + k + 1 .. Len(P) PROVE P[n] = <<g, Len(E) + (n - (a + k))>>
  <2>1. n \in a + 1 .. Len(P) /\ n \in Int
    BY <1>1
  <2>2. \A x, y, z \in Int : (x + k) + (z - (y + k)) = x + (z - y)
    BY <1>1
  <2>3. Len(D) + (n - a) = Len(E) + (n - (a + k))
    <3>1. Len(D) \in Int /\ a \in Int /\ k \in Int
      BY <1>1
    <3>2. (Len(D) + k) + (n - (a + k)) = Len(D) + (n - a)
      BY <2>1, <2>2, <3>1
    <3> QED
      BY <1>4, <3>2, Zenon
  <2>4. P[n] = <<g, Len(D) + (n - a)>>
    BY <2>1 DEF ToFollow
  <2> QED
    BY <2>3, <2>4, Zenon
<1> QED
  BY <1>3, <1>4, <1>5, <1>6 DEF E, InOrder, ToFollow

(* The top of the loop hands over what is pending. *)
LEMMA DrainStep ==
  ASSUME StreamInv, Drain
  PROVE  StreamInv'
<1> DEFINE k == Least(room, Len(pending) - served)
<1>1. /\ k \in 0 .. Len(pending) - served /\ k <= room /\ room \in Nat /\ Len(pending) \in Nat /\ served \in 0 .. Len(pending)
      /\ pending \in Seq(Units) /\ delivered \in Seq(Units) /\ session \in Nat /\ pos \in Nat /\ consumed \in Nat
      /\ (k < Len(pending) - served => k = room)
  BY DEF StreamInv, StreamTypes, DataTypes, Least
<1>2. /\ UNCHANGED <<active, workspace, staging, sessionVars, op, input, consumed, offered, blocks, emitted>>
      /\ delivered' = delivered \o SubSeq(pending, served + 1, served + k) /\ room' = room - k /\ pc = "drain"
  BY DEF Drain
<1>3. \/ /\ served + k < Len(pending) /\ served' = served + k /\ pending' = pending
         /\ pc' = "idle" /\ status' = "NeedsOutput" /\ pos' = pos + consumed
      \/ /\ served + k = Len(pending) /\ served' = 0 /\ pending' = <<>>
         /\ pc' = "turn" /\ status' = status /\ pos' = pos
  <2>1. CASE served + k < Len(pending)
    BY <2>1 DEF Drain, Return
  <2>2. CASE ~ served + k < Len(pending)
    <3>1. served + k = Len(pending)
      BY <1>1, <2>2
    <3> QED
      BY <2>2, <3>1 DEF Drain
  <2> QED
    BY <2>1, <2>2
<1>4. open = "open" /\ active /\ phase # "Failed"
  BY <1>2 DEF StreamInv, InCall
<1>5. /\ Len(delivered) + (Len(pending) - served) = emitted
      /\ \A n \in 1 .. Len(delivered) : delivered[n] = <<session, n>>
      /\ \A n \in served + 1 .. Len(pending) : pending[n] = <<session, Len(delivered) + (n - served)>>
  BY <1>4 DEF StreamInv, Queued
<1> HIDE DEF k
<1>6. /\ delivered' \in Seq(Units) /\ Len(delivered') = Len(delivered) + k
      /\ \A n \in 1 .. Len(delivered') : delivered'[n] = <<session, n>>
      /\ \A n \in served + k + 1 .. Len(pending) :
           pending[n] = <<session, Len(delivered') + (n - (served + k))>>
  <2>1. /\ delivered' = delivered \o SubSeq(pending, served + 1, served + k)
        /\ served \in 0 .. Len(pending) /\ k \in 0 .. Len(pending) - served
        /\ delivered \in Seq(Units) /\ pending \in Seq(Units) /\ session \in Nat
    BY <1>1, <1>2
  <2> QED
    <3>1. InOrder(delivered, session) /\ ToFollow(pending, served, session, Len(delivered))
      BY <1>5 DEF InOrder, ToFollow
    <3>2. delivered' = Handed(delivered, pending, served, k)
      BY <2>1 DEF Handed
    <3> DEFINE E == Handed(delivered, pending, served, k)
    <3>3. E \in Seq(Units) /\ Len(E) = Len(delivered) + k /\ InOrder(E, session) /\ ToFollow(pending, served + k, session, Len(E))
      BY <2>1, <3>1, HandOver, Zenon
    <3> HIDE DEF E
    <3>4. delivered' = E
      BY <3>2 DEF E
    <3> QED
      BY <3>3, <3>4 DEF InOrder, ToFollow
<1>13. Len(<<>>) = 0 /\ <<>> \in Seq(Units)
  OBVIOUS
<1>7. Accepted' = Accepted /\ Encoded' = Encoded /\ BlockLimit' = BlockLimit
  <2>1. Accepted' = Accepted
    BY <1>1, <1>2, <1>3 DEF Accepted
  <2> QED
    BY <1>2, <2>1 DEF Encoded, BlockLimit, sessionVars
<1>8. StreamTypes'
  <2>1. FlagTypes'
    BY <1>2 DEF StreamInv, StreamTypes, FlagTypes, sessionVars
  <2>2. served' \in 0 .. Len(pending') /\ pending' \in Seq(Units) /\ room' \in Nat /\ pos' \in Nat
        /\ pc' \in {"idle", "drain", "turn"}
    <3>1. CASE served' = served + k /\ pending' = pending
      BY <1>1, <1>2, <1>3, <3>1
    <3>2. CASE served' = 0 /\ pending' = <<>>
      BY <1>1, <1>2, <1>3, <3>2
    <3> QED
      BY <1>3, <3>1, <3>2
  <2>3. DataTypes'
    BY <1>2, <1>6, <2>2 DEF StreamInv, StreamTypes, DataTypes, sessionVars
  <2> QED
    BY <2>1, <2>3 DEF StreamTypes
<1>9. Queued'
  <2>1. Len(delivered') + (Len(pending') - served') = emitted'
    <3>1. Len(delivered) \in Nat /\ emitted' = emitted
      BY <1>1, <1>2
    <3>2. Len(pending') - served' = (Len(pending) - served) - k
      <4>1. CASE served' = served + k /\ pending' = pending
        BY <1>1, <4>1
      <4>2. CASE served' = 0 /\ pending' = <<>> /\ served + k = Len(pending)
        BY <1>1, <1>13, <4>2
      <4> QED
        BY <1>3, <4>1, <4>2
    <3> QED
      BY <1>1, <1>5, <1>6, <3>1, <3>2
  <2>2. \A n \in served' + 1 .. Len(pending') : pending'[n] = <<session, Len(delivered') + (n - served')>>
    <3>1. CASE served' = served + k /\ pending' = pending
      BY <1>6, <3>1
    <3>2. CASE served' = 0 /\ pending' = <<>>
      BY <3>2
    <3> QED
      BY <1>3, <3>1, <3>2
  <2> QED
    BY <1>2, <1>6, <2>1, <2>2 DEF Queued, sessionVars
<1>10. InCall' /\ Settled' /\ HintOpen'
  BY <1>2, <1>3, <1>7 DEF InCall, Settled, HintOpen, StreamInv, sessionVars
<1>11. Consecutive' /\ Cut' /\ Finishes'
  BY <1>2, <1>7 DEF Consecutive, Cut, Finishes, StreamInv, sessionVars
<1>12. AnswersAreTrue'
  <2>1. pc' = "idle" => status' = "NeedsOutput" /\ room' = 0 /\ served' < Len(pending')
    BY <1>1, <1>2, <1>3
  <2>2. EncoderPresent'
    BY <1>3 DEF StreamInv, AnswersAreTrue, EncoderPresent
  <2> QED
    BY <2>1, <2>2 DEF AnswersAreTrue, PromiseKept, StatusIsHonest
<1> QED
  BY <1>8, <1>9, <1>10, <1>11, <1>12 DEF StreamInv


-----------------------------------------------------------------------------
(* A turn of the loop. *)

(* Arithmetic of the part that is taken from the input. *)
Fits(t, L, s, c, n) ==
  /\ t \in Nat /\ c + t \in 0 .. n /\ s + t <= L
  /\ (c + t # n => s + t = L)
  /\ (s + (n - c) < L => c + t = n)
  /\ (s + (n - c) = 0 => t = 0 /\ c + t = n /\ s = 0)

LEMMA TakeBounds ==
  ASSUME NEW L \in Nat, NEW s \in Nat, NEW c \in Nat, NEW n \in Nat, s <= L, c <= n
  PROVE  Fits(Least(L - s, n - c), L, s, c, n)
BY DEF Least, Fits

(* What is staged and what is taken from the input, one after the other. *)
Held == staging \o Taken

(* In a turn the bytes staged and taken follow those in blocks, and are at
   most a block. *)
LEMMA TurnFacts ==
  ASSUME StreamInv, pc = "turn"
  PROVE  /\ open = "open" /\ active /\ workspace /\ phase # "Failed" /\ pending = <<>> /\ served = 0
         /\ Take \in Nat /\ consumed + Take \in 0 .. Len(input) /\ Len(input) \in Nat /\ consumed \in Nat
         /\ pos \in Nat /\ offered \in Nat /\ (phase # "Finished" => pos + Len(input) <= offered)
         /\ BlockLimit \in Nat /\ BlockLimit <= Limit /\ Limit \in Nat
         /\ Held \in Seq(Nat) /\ Len(Held) = Len(staging) + Take /\ Len(Held) <= BlockLimit
         /\ (~AtEnd => Len(Held) = BlockLimit)
         /\ (Len(staging) + (Len(input) - consumed) < BlockLimit => AtEnd)
         /\ (Len(staging) + (Len(input) - consumed) = 0 => AtEnd /\ Held = <<>>)
         /\ (Take = 0 => Held = staging) /\ (Held = <<>> => Take = 0 /\ staging = <<>>)
         /\ Encoded \in Nat /\ Accepted = pos + consumed /\ Accepted = Encoded + Len(staging)
         /\ \A j \in 1 .. Len(Held) : Held[j] = Encoded + j
<1>1. /\ open = "open" /\ active /\ workspace /\ phase # "Failed" /\ pending = <<>> /\ served = 0
      /\ (phase # "Finished" => pos + Len(input) <= offered)
      /\ \A i \in 1 .. Len(input) : input[i] = pos + i
  BY DEF StreamInv, InCall
<1>2. /\ staging \in Seq(Nat) /\ input \in Seq(Nat) /\ consumed \in 0 .. Len(input) /\ pos \in Nat /\ offered \in Nat
      /\ Len(staging) \in Nat /\ Len(input) \in Nat /\ consumed \in Nat
  BY DEF StreamInv, StreamTypes, DataTypes
<1>3. BlockLimit \in Nat /\ BlockLimit <= Limit /\ Limit \in Nat /\ Len(staging) <= BlockLimit
  <2>1. flint => Limit >= 2
    BY CallLengths DEF StreamInv, StreamTypes, FlagTypes
  <2>2. Len(staging) <= BlockLimit
    BY <1>1 DEF StreamInv, Cut
  <2> QED
    BY <2>1, <2>2, CallLengths DEF BlockLimit
<1>4. /\ Take \in Nat /\ consumed + Take \in 0 .. Len(input) /\ Len(staging) + Take <= BlockLimit
      /\ (~AtEnd => Len(staging) + Take = BlockLimit)
      /\ (Len(staging) + (Len(input) - consumed) < BlockLimit => AtEnd)
      /\ (Len(staging) + (Len(input) - consumed) = 0 => Take = 0 /\ AtEnd /\ Len(staging) = 0)
  <2>1. consumed <= Len(input)
    BY <1>2
  <2>2. Fits(Least(BlockLimit - Len(staging), Len(input) - consumed), BlockLimit, Len(staging), consumed, Len(input))
    BY <1>2, <1>3, <2>1, TakeBounds
  <2>3. Fits(Take, BlockLimit, Len(staging), consumed, Len(input))
    BY <2>2 DEF Take
  <2> QED
    BY <2>3 DEF Fits, AtEnd
<1>5. /\ Taken \in Seq(Nat) /\ Len(Taken) = Take
      /\ \A i \in 1 .. Take : Taken[i] = input[consumed + i]
  <2>1. consumed + Take \in Nat /\ consumed + Take <= Len(input) /\ consumed <= consumed + Take
        /\ (consumed + Take) - consumed = Take
    BY <1>2, <1>4
  <2>2. /\ SubSeq(input, consumed + 1, consumed + Take) \in Seq(Nat)
        /\ Len(SubSeq(input, consumed + 1, consumed + Take))
             = IF consumed <= consumed + Take THEN (consumed + Take) - consumed ELSE 0
        /\ \A i \in 1 .. (consumed + Take) - consumed :
             SubSeq(input, consumed + 1, consumed + Take)[i] = input[consumed + i]
    BY <1>2, <2>1, PartOfSeq
  <2> QED
    BY <2>1, <2>2 DEF Taken
<1>6. /\ Held \in Seq(Nat) /\ Len(Held) = Len(staging) + Len(Taken)
      /\ \A i \in 1 .. Len(staging) : Held[i] = staging[i]
      /\ \A i \in 1 .. Len(Taken) : Held[Len(staging) + i] = Taken[i]
  <2>1. staging \in Seq(Nat) /\ Taken \in Seq(Nat)
    BY <1>2, <1>5
  <2>2. /\ staging \o Taken \in Seq(Nat) /\ Len(staging \o Taken) = Len(staging) + Len(Taken)
        /\ \A i \in 1 .. Len(staging) : (staging \o Taken)[i] = staging[i]
        /\ \A i \in 1 .. Len(Taken) : (staging \o Taken)[Len(staging) + i] = Taken[i]
    BY <2>1, JoinedSeq
  <2> QED
    BY <2>2 DEF Held
<1>7. /\ Encoded \in Nat /\ Accepted = pos + consumed /\ Accepted = Encoded + Len(staging)
      /\ \A j \in 1 .. Len(staging) : staging[j] = Encoded + j
  <2>1. Accepted = pos + consumed
    BY DEF Accepted
  <2>2. Encoded = Accepted - Len(staging)
    BY DEF Encoded
  <2>3. Encoded \in Nat /\ \A j \in 1 .. Len(staging) : staging[j] = Encoded + j
    BY <1>1 DEF StreamInv, Consecutive
  <2> QED
    BY <1>2, <2>1, <2>2, <2>3
<1>8. ASSUME NEW j \in 1 .. Len(Held) PROVE Held[j] = Encoded + j
  <2>1. CASE j <= Len(staging)
    BY <1>2, <1>6, <1>7, <2>1
  <2>2. CASE ~ j <= Len(staging)
    <3>1. j - Len(staging) \in 1 .. Take /\ Len(staging) + (j - Len(staging)) = j
      BY <1>2, <1>4, <1>5, <1>6, <2>2
    <3>2. Held[j] = input[consumed + (j - Len(staging))]
      BY <1>5, <1>6, <3>1
    <3>3. consumed + (j - Len(staging)) \in 1 .. Len(input)
      BY <1>2, <1>4, <3>1
    <3>4. Held[j] = pos + (consumed + (j - Len(staging)))
      BY <1>1, <3>2, <3>3
    <3>5. \A p, c, e, s, i \in Int : p + c = e + s => p + (c + (i - s)) = e + i
      OBVIOUS
    <3>6. /\ pos + consumed = Encoded + Len(staging)
          /\ pos \in Int /\ consumed \in Int /\ Encoded \in Int /\ Len(staging) \in Int /\ j \in Int
      <4>1. pos + consumed = Encoded + Len(staging)
        BY <1>7, Zenon
      <4>2. Encoded \in Nat
        BY <1>7, Zenon
      <4>3. j \in Int
        BY <1>6
      <4> QED
        BY <1>2, <4>1, <4>2, <4>3
    <3>7. pos + (consumed + (j - Len(staging))) = Encoded + j
      BY <3>5, <3>6
    <3> QED
      BY <3>4, <3>7, Zenon
  <2> QED
    BY <2>1, <2>2
<1>9. /\ (Len(staging) = 0 /\ Take = 0 => Held = <<>>)
      /\ (Take = 0 => Held = staging) /\ (Held = <<>> => Take = 0 /\ staging = <<>>)
  <2>1. CASE Take = 0
    <3>1. Taken = <<>>
      BY <1>5, <2>1
    <3> QED
      BY <1>2, <2>1, <3>1 DEF Held
  <2>2. CASE Take # 0
    <3>1. Len(Held) # 0 /\ Len(<<>>) = 0
      BY <1>2, <1>4, <1>5, <1>6, <2>2
    <3> QED
      BY <2>2, <3>1
  <2> QED
    BY <2>1, <2>2
<1> QED
  BY <1>1, <1>2, <1>3, <1>4, <1>5, <1>6, <1>7, <1>8, <1>9

(* A turn that answers changes nothing but the end of the call. *)
LEMMA AnswerStep ==
  ASSUME StreamInv, Answer
  PROVE  StreamInv'
<1>1. /\ UNCHANGED <<compressorVars, sessionVars, callVars, historyVars>>
      /\ pc = "turn" /\ pc' = "idle" /\ pos' = pos + consumed
      /\ \/ phase = "Finished" /\ status' = "Finished"
         \/ phase = "Flushed" /\ op = "Flush" /\ consumed = Len(input) /\ status' = "NeedsInput"
  BY DEF Answer, Return, FlushIsDone
<1>2. /\ open = "open" /\ active /\ pending = <<>> /\ served = 0 /\ pos \in Nat /\ consumed \in Nat /\ Accepted = pos + consumed
  BY <1>1, TurnFacts
<1>3. Accepted' = Accepted /\ Encoded' = Encoded /\ BlockLimit' = BlockLimit
  <2>1. Accepted' = Accepted
    BY <1>1, <1>2 DEF Accepted
  <2> QED
    BY <1>1, <2>1 DEF Encoded, BlockLimit, sessionVars, compressorVars
<1>4. StreamTypes'
  <2>1. FlagTypes'
    BY <1>1 DEF StreamInv, StreamTypes, FlagTypes, sessionVars, compressorVars
  <2>2. DataTypes'
    BY <1>1, <1>2 DEF StreamInv, StreamTypes, DataTypes, sessionVars, compressorVars, callVars, historyVars
  <2> QED
    BY <2>1, <2>2 DEF StreamTypes
<1>5. InCall' /\ Queued' /\ Settled' /\ HintOpen'
  BY <1>1 DEF InCall, Queued, Settled, HintOpen, StreamInv, sessionVars, compressorVars, callVars, historyVars
<1>6. Consecutive' /\ Cut' /\ Finishes'
  BY <1>1, <1>3 DEF Consecutive, Cut, Finishes, StreamInv, sessionVars, compressorVars, historyVars
<1>7. AnswersAreTrue'
  <2>1. phase \in {"Flushed", "Finished"} => staging = <<>> /\ blocks # <<>>
          /\ blocks[Len(blocks)].op = IF phase = "Flushed" THEN "Flush" ELSE "Finish"
    BY <1>2 DEF StreamInv, Settled
  <2> QED
    BY <1>1, <1>2, <2>1 DEF AnswersAreTrue, PromiseKept, StatusIsHonest, EncoderPresent, sessionVars, compressorVars,
       callVars, historyVars
<1> QED
  BY <1>4, <1>5, <1>6, <1>7 DEF StreamInv

(* A turn that keeps the tail staged. *)
LEMMA HoldStep ==
  ASSUME StreamInv, Hold
  PROVE  StreamInv'
<1>1. /\ UNCHANGED <<active, workspace, pending, served, session, open, flint, hint, op, input, room, historyVars>>
      /\ pc = "turn" /\ pc' = "idle" /\ pos' = pos + consumed + Take /\ consumed' = consumed + Take /\ status' = "NeedsInput"
      /\ staging' = Held /\ phase' = (IF Take # 0 THEN "Open" ELSE phase) /\ op = "Process" /\ consumed + Take = Len(input)
      /\ phase # "Finished"
  BY DEF Hold, Encoding, Return, AtEnd, Held
<1>2. /\ open = "open" /\ active /\ workspace /\ phase # "Failed" /\ pending = <<>> /\ served = 0
      /\ Take \in Nat /\ consumed \in Nat /\ pos \in Nat
      /\ Held \in Seq(Nat) /\ Len(Held) = Len(staging) + Take /\ Len(Held) <= BlockLimit
      /\ (Take = 0 => Held = staging) /\ (Held = <<>> => Take = 0 /\ staging = <<>>)
      /\ Encoded \in Nat /\ Accepted = pos + consumed /\ Accepted = Encoded + Len(staging)
      /\ \A j \in 1 .. Len(Held) : Held[j] = Encoded + j
  BY <1>1, TurnFacts
<1>3. Accepted' = Accepted + Take /\ Encoded' = Encoded /\ BlockLimit' = BlockLimit
  <2>1. Accepted' = Accepted + Take
    BY <1>1, <1>2 DEF Accepted
  <2>2. Len(staging) \in Nat
    BY DEF StreamInv, StreamTypes, DataTypes
  <2>3. Encoded' = Accepted' - Len(staging')
    BY DEF Encoded
  <2>4. Encoded' = Encoded
    BY <1>1, <1>2, <2>1, <2>2, <2>3
  <2> QED
    BY <1>1, <2>1, <2>4 DEF BlockLimit
<1>4. StreamTypes'
  <2>1. FlagTypes'
    BY <1>1 DEF StreamInv, StreamTypes, FlagTypes
  <2>2. DataTypes'
    BY <1>1, <1>2 DEF StreamInv, StreamTypes, DataTypes, historyVars
  <2> QED
    BY <2>1, <2>2 DEF StreamTypes
<1>5. InCall' /\ Queued' /\ HintOpen'
  BY <1>1, <1>2 DEF InCall, Queued, HintOpen, StreamInv, historyVars
<1>6. Settled'
  BY <1>1, <1>2 DEF Settled, StreamInv, historyVars
<1>7. Consecutive' /\ Cut'
  BY <1>1, <1>2, <1>3 DEF Consecutive, Cut, StreamInv, historyVars
<1>8. Finishes'
  <2>1. Take = 0 => Accepted' = Accepted
    BY <1>2, <1>3
  <2>2. \A k \in 1 .. Len(blocks) : blocks[k].op # "Finish"
    BY <1>1, <1>2 DEF StreamInv, Finishes
  <2> QED
    BY <1>1, <1>2, <2>1, <2>2 DEF Finishes, StreamInv, historyVars
<1>9. AnswersAreTrue'
  BY <1>1, <1>2 DEF AnswersAreTrue, PromiseKept, StatusIsHonest, EncoderPresent
<1> QED
  BY <1>4, <1>5, <1>6, <1>7, <1>8, <1>9 DEF StreamInv


(* The block encoder reports an error: the session has failed. *)
LEMMA EncodeFailsStep ==
  ASSUME StreamInv, EncodeFails
  PROVE  StreamInv'
<1>1. /\ UNCHANGED <<active, workspace, pending, served, session, open, flint, hint, callVars, pos, historyVars>>
      /\ pc = "turn" /\ pc' = "idle" /\ phase' = "Failed" /\ status' = "EncodeError" /\ phase # "Finished"
      /\ staging' = IF staging = <<>> THEN <<>> ELSE Held
  BY DEF EncodeFails, Encoding, Return, Held
<1>2. /\ open = "open" /\ active /\ phase # "Failed" /\ pending = <<>> /\ served = 0
      /\ pos \in Nat /\ consumed \in Nat /\ Accepted = pos + consumed /\ BlockLimit \in Nat
      /\ Held \in Seq(Nat) /\ Len(Held) <= BlockLimit
  BY <1>1, TurnFacts
<1>3. staging' \in Seq(Nat) /\ Len(staging') <= BlockLimit' /\ BlockLimit' = BlockLimit
  <2>1. Len(<<>>) = 0 /\ <<>> \in Seq(Nat)
    OBVIOUS
  <2>2. BlockLimit' = BlockLimit
    BY <1>1 DEF BlockLimit
  <2> QED
    BY <1>1, <1>2, <2>1, <2>2
<1>4. StreamTypes'
  <2>1. FlagTypes'
    BY <1>1 DEF StreamInv, StreamTypes, FlagTypes
  <2>2. DataTypes'
    BY <1>1, <1>3 DEF StreamInv, StreamTypes, DataTypes, callVars, historyVars
  <2> QED
    BY <2>1, <2>2 DEF StreamTypes
<1>5. InCall' /\ Queued' /\ Settled' /\ Consecutive' /\ HintOpen'
  BY <1>1, <1>2 DEF InCall, Queued, Settled, Consecutive, HintOpen, StreamInv, historyVars
<1>6. Cut'
  BY <1>1, <1>3 DEF Cut, StreamInv, historyVars
<1>7. Finishes'
  <2>1. \A k \in 1 .. Len(blocks) : blocks[k].op # "Finish"
    BY <1>1, <1>2 DEF StreamInv, Finishes
  <2> QED
    BY <1>1, <2>1 DEF Finishes, historyVars
<1>8. AnswersAreTrue'
  BY <1>1 DEF AnswersAreTrue, PromiseKept, StatusIsHonest, EncoderPresent
<1> QED
  BY <1>4, <1>5, <1>6, <1>7, <1>8 DEF StreamInv

-----------------------------------------------------------------------------
(* A block. *)

(* One more element. *)
LEMMA OneMore ==
  ASSUME NEW S, NEW s \in Seq(S), NEW x \in S
  PROVE  /\ Append(s, x) \in Seq(S) /\ Len(Append(s, x)) = Len(s) + 1
         /\ \A i \in 1 .. Len(s) : Append(s, x)[i] = s[i]
         /\ Append(s, x)[Len(s) + 1] = x
OBVIOUS

(* The bytes of the blocks follow one another up to byte e. *)
Chained(b, e) ==
  /\ e \in Ends(b) /\ \A f \in Ends(b) : f \in Nat /\ f <= e
  /\ \A k \in 1 .. Len(b) : \A j \in 1 .. Len(b[k].bytes) : b[k].bytes[j] = b[k].bytes[1] + j - 1
  /\ \A k \in 1 .. Len(b) : b[k].bytes # <<>> =>
       /\ b[k].bytes[1] - 1 \in Ends(b)
       /\ \A l \in k + 1 .. Len(b) : b[l].bytes # <<>> => b[l].bytes[1] > b[k].bytes[1]

(* So they do with a block of the bytes after e. *)
LEMMA ChainedAppend ==
  ASSUME NEW b \in Seq(Coded), NEW x \in Coded, NEW e \in Nat, Chained(b, e),
         \A j \in 1 .. Len(x.bytes) : x.bytes[j] = e + j
  PROVE  Chained(Append(b, x), e + Len(x.bytes))
<1> DEFINE c == Append(b, x)
           n == Len(b)
           m == Len(x.bytes)
<1>1. n \in Nat /\ m \in Nat /\ x.bytes \in Seq(Nat)
  <2>1. x.bytes \in Seq(Nat)
    BY DEF Coded
  <2>2. \A s \in Seq(Nat) : Len(s) \in Nat
    OBVIOUS
  <2>3. Len(b) \in Nat
    OBVIOUS
  <2> QED
    BY <2>1, <2>2, <2>3
<1>2. /\ c \in Seq(Coded) /\ Len(c) = n + 1 /\ c[n + 1] = x
      /\ \A i \in 1 .. n : c[i] = b[i]
  BY OneMore
<1>3. \A k \in 1 .. n : b[k] \in Coded /\ b[k].bytes \in Seq(Nat) /\ Len(b[k].bytes) \in Nat
  <2>1. \A k \in 1 .. n : b[k] \in Coded
    OBVIOUS
  <2>2. \A y \in Coded : y.bytes \in Seq(Nat)
    BY DEF Coded
  <2>3. \A s \in Seq(Nat) : Len(s) \in Nat
    OBVIOUS
  <2> QED
    BY <2>1, <2>2, <2>3
<1> HIDE DEF c
<1>4. \A k \in 1 .. n + 1 : k \in 1 .. n \/ k = n + 1
  BY <1>1
<1>5. Ends(c) = Ends(b) \cup (IF x.bytes = <<>> THEN {} ELSE {x.bytes[m]})
  <2> DEFINE E == Ends(b) \cup (IF x.bytes = <<>> THEN {} ELSE {x.bytes[m]})
  <2>1. ASSUME NEW f \in Ends(c) PROVE f \in E
    <3>1. CASE f = 0
      BY <3>1 DEF Ends
    <3>2. CASE f # 0
      <4>1. PICK k \in 1 .. Len(c) : c[k].bytes # <<>> /\ f = c[k].bytes[Len(c[k].bytes)]
        BY <3>2 DEF Ends
      <4>2. CASE k \in 1 .. n
        BY <1>2, <4>1, <4>2 DEF Ends
      <4>3. CASE k = n + 1
        BY <1>2, <4>1, <4>3
      <4> QED
        BY <1>2, <1>4, <4>2, <4>3
    <3> QED
      BY <3>1, <3>2
  <2>2. ASSUME NEW f \in E PROVE f \in Ends(c)
    <3>1. CASE f \in Ends(b)
      <4>1. CASE f = 0
        BY <4>1 DEF Ends
      <4>2. CASE f # 0
        <5>1. PICK k \in 1 .. Len(b) : b[k].bytes # <<>> /\ f = b[k].bytes[Len(b[k].bytes)]
          BY <3>1, <4>2 DEF Ends
        <5>2. k \in 1 .. Len(c) /\ c[k] = b[k]
          BY <1>1, <1>2
        <5> QED
          BY <5>1, <5>2 DEF Ends
      <4> QED
        BY <4>1, <4>2
    <3>2. CASE x.bytes # <<>> /\ f = x.bytes[m]
      <4>1. n + 1 \in 1 .. Len(c)
        BY <1>1, <1>2
      <4> QED
        BY <1>2, <3>2, <4>1 DEF Ends
    <3> QED
      BY <3>1, <3>2
  <2> QED
    BY <2>1, <2>2
<1>6. x.bytes # <<>> => m \in 1 .. m /\ x.bytes[m] = e + m /\ x.bytes[1] = e + 1 /\ m > 0
  <2>1. x.bytes # <<>> => m > 0
    BY <1>1
  <2> QED
    BY <1>1, <2>1
<1>7. x.bytes = <<>> => m = 0 /\ e + m = e
  <2>1. Len(<<>>) = 0
    OBVIOUS
  <2> QED
    BY <1>1, <2>1
<1>8. /\ e \in Ends(b) /\ \A f \in Ends(b) : f \in Nat /\ f <= e
      /\ \A k \in 1 .. n : \A j \in 1 .. Len(b[k].bytes) : b[k].bytes[j] = b[k].bytes[1] + j - 1
      /\ \A k \in 1 .. n : b[k].bytes # <<>> =>
           /\ b[k].bytes[1] - 1 \in Ends(b)
           /\ \A l \in k + 1 .. n : b[l].bytes # <<>> => b[l].bytes[1] > b[k].bytes[1]
  BY DEF Chained
<1>9. e + m \in Ends(c) /\ \A f \in Ends(c) : f \in Nat /\ f <= e + m
  <2>1. e + m \in Ends(c)
    BY <1>5, <1>6, <1>7, <1>8
  <2>2. ASSUME NEW f \in Ends(c) PROVE f \in Nat /\ f <= e + m
    <3>1. CASE f \in Ends(b)
      <4>1. f \in Nat /\ f <= e
        BY <1>8, <3>1
      <4> QED
        BY <1>1, <4>1
    <3>2. CASE x.bytes # <<>> /\ f = x.bytes[m]
      BY <1>1, <1>6, <3>2
    <3> QED
      BY <1>5, <3>1, <3>2
  <2> QED
    BY <2>1, <2>2
<1>10. ASSUME NEW k \in 1 .. n + 1, NEW j \in 1 .. Len(c[k].bytes)
       PROVE  c[k].bytes[j] = c[k].bytes[1] + j - 1
  <2>1. CASE k \in 1 .. n
    BY <1>2, <1>8, <2>1
  <2>2. CASE k = n + 1
    <3>1. j \in 1 .. m /\ c[k].bytes = x.bytes
      BY <1>2, <2>2
    <3>2. m > 0 /\ 1 \in 1 .. m /\ j \in Int
      BY <1>1, <3>1
    <3>3. x.bytes[j] = e + j /\ x.bytes[1] = e + 1
      BY <3>1, <3>2
    <3>4. \A p, q \in Int : p + q = (p + 1) + q - 1
      OBVIOUS
    <3>5. e + j = (e + 1) + j - 1
      BY <3>2, <3>4
    <3> QED
      BY <3>1, <3>3, <3>5
  <2> QED
    BY <1>4, <2>1, <2>2
<1>11. ASSUME NEW k \in 1 .. n + 1, c[k].bytes # <<>>
       PROVE  /\ c[k].bytes[1] - 1 \in Ends(c)
              /\ \A l \in k + 1 .. n + 1 : c[l].bytes # <<>> => c[l].bytes[1] > c[k].bytes[1]
  <2>1. CASE k \in 1 .. n
    <3>1. c[k] = b[k] /\ b[k].bytes # <<>>
      BY <1>2, <1>11, <2>1
    <3>2. c[k].bytes[1] - 1 \in Ends(c)
      BY <1>5, <1>8, <2>1, <3>1
    <3>3. ASSUME NEW l \in k + 1 .. n + 1, c[l].bytes # <<>>
          PROVE  c[l].bytes[1] > c[k].bytes[1]
      <4>1. CASE l \in 1 .. n
        <5>1. l \in k + 1 .. n /\ c[l] = b[l]
          BY <1>1, <1>2, <4>1
        <5> QED
          BY <1>8, <2>1, <3>1, <3>3, <5>1
      <4>2. CASE l = n + 1
        <5>1. c[l].bytes[1] = e + 1
          BY <1>2, <1>6, <3>3, <4>2
        <5>2. b[k].bytes[1] \in Nat /\ b[k].bytes[1] <= e
          <6> DEFINE s == b[k].bytes
          <6>1. s \in Seq(Nat) /\ s # <<>>
            BY <1>3, <2>1, <3>1
          <6> HIDE DEF s
          <6>2. Len(s) \in Nat /\ Len(s) > 0 /\ s[1] \in Nat /\ s[Len(s)] \in Nat
            BY <6>1
          <6>3. s[Len(s)] = s[1] + Len(s) - 1
            <7>1. Len(s) \in 1 .. Len(s)
              BY <6>2
            <7> QED
              BY <1>8, <2>1, <7>1 DEF s
          <6>4. s[Len(s)] \in Ends(b)
            BY <2>1, <3>1 DEF s, Ends
          <6>5. s[Len(s)] <= e
            BY <1>8, <6>4
          <6>6. s[1] <= e
            BY <6>2, <6>3, <6>5
          <6> QED
            BY <6>2, <6>6 DEF s
        <5> QED
          BY <3>1, <5>1, <5>2
      <4> QED
        BY <1>1, <1>4, <4>1, <4>2
    <3> QED
      BY <3>2, <3>3
  <2>2. CASE k = n + 1
    <3>1. c[k].bytes[1] = e + 1 /\ (e + 1) - 1 = e
      BY <1>2, <1>6, <1>11, <2>2
    <3>2. ~ \E l \in k + 1 .. n + 1 : TRUE
      BY <1>1, <2>2
    <3> QED
      BY <1>5, <1>8, <3>1, <3>2
  <2> QED
    BY <1>4, <2>1, <2>2
<1> QED
  BY <1>2, <1>9, <1>10, <1>11 DEF Chained, c


(* Where a block is cut. *)
LEMMA BlockCut ==
  ASSUME StreamInv, Encoding, ~(AtEnd /\ op = "Process" /\ ~Restart)
  PROVE  /\ BlockOp \in Operations /\ Restart \in BOOLEAN
         /\ (BlockOp = "Process" => Len(Held) = Limit /\ ~AtEnd)
         /\ (Restart => Len(Held) = 2 /\ BlockOp = "Flush")
         /\ Len(Held) <= Limit
         /\ (hint = "open" => Held = <<>> /\ Len(input) - (consumed + Take) = 0)
<1>1. /\ open = "open" /\ Take \in Nat /\ consumed + Take \in 0 .. Len(input) /\ Len(input) \in Nat
      /\ BlockLimit \in Nat /\ BlockLimit <= Limit /\ Limit \in Nat
      /\ Len(Held) = Len(staging) + Take /\ Len(Held) <= BlockLimit
      /\ (~AtEnd => Len(Held) = BlockLimit)
      /\ (Len(staging) + (Len(input) - consumed) < BlockLimit => AtEnd)
      /\ (Len(staging) + (Len(input) - consumed) = 0 => AtEnd /\ Held = <<>>)
  BY TurnFacts DEF Encoding
<1>2. flint \in BOOLEAN /\ op \in Operations /\ (flint => BlockLimit = 2)
  BY DEF StreamInv, StreamTypes, FlagTypes, DataTypes, BlockLimit
<1>3. BlockOp \in Operations
  BY <1>2 DEF BlockOp, Operations
<1>4. Restart \in BOOLEAN
  BY <1>2 DEF Restart
<1>5. Restart => Len(Held) = 2 /\ BlockOp = "Flush"
  BY <1>1 DEF Restart, BlockOp
<1>6. BlockOp = "Process" => Len(Held) = Limit /\ ~AtEnd
  <2> SUFFICES ASSUME BlockOp = "Process" PROVE Len(Held) = Limit /\ ~AtEnd
    OBVIOUS
  <2>1. ~Restart /\ ~AtEnd
    BY DEF BlockOp
  <2>2. ~flint
    BY <1>1, <1>2, <2>1 DEF Restart
  <2> QED
    BY <1>1, <2>1, <2>2 DEF BlockLimit
<1>7. hint = "open" => Held = <<>> /\ Len(input) - (consumed + Take) = 0
  <2> SUFFICES ASSUME hint = "open" PROVE Held = <<>> /\ Len(input) - (consumed + Take) = 0
    OBVIOUS
  <2> DEFINE known == Len(staging) + (Len(input) - consumed)
  <2>1. known = 0 \/ (op = "Process" /\ known < BlockLimit)
    BY <1>1 DEF StreamInv, HintOpen, Encoding
  <2>2. AtEnd
    BY <1>1, <2>1
  <2>3. ~ (op = "Process" /\ known < BlockLimit)
    <3> SUFFICES ASSUME op = "Process", known < BlockLimit PROVE FALSE
      OBVIOUS
    <3>1. flint /\ Len(staging) + Take = 2
      BY <2>2 DEF Restart
    <3>2. consumed \in Nat /\ Len(staging) \in Nat
      BY DEF StreamInv, StreamTypes, DataTypes
    <3>3. known = 2
      BY <1>1, <2>2, <3>1, <3>2 DEF AtEnd
    <3> QED
      BY <1>2, <3>1, <3>3
  <2>4. Len(input) - (consumed + Take) = 0
    BY <1>1, <2>2 DEF AtEnd
  <2> QED
    BY <1>1, <2>1, <2>3, <2>4
<1> QED
  BY <1>1, <1>3, <1>4, <1>5, <1>6, <1>7

Split(D, u, d, m, g) ==
  LET E == D \o SubSeq(u, 1, d)
      R == SubSeq(u, d + 1, m)
  IN /\ E \in Seq(Units) /\ R \in Seq(Units) /\ Len(E) + (Len(R) - 0) = Len(D) + m
     /\ InOrder(E, g) /\ ToFollow(R, 0, g, Len(E))

(* A block's units are split between the room that is left and pending. *)
LEMMA SplitUnits ==
  ASSUME NEW D \in Seq(Units), NEW g \in Nat, NEW m \in Nat, InOrder(D, g),
         NEW u \in Seq(Units), Len(u) = m, ToFollow(u, 0, g, Len(D)), NEW d \in 0 .. m
  PROVE  Split(D, u, d, m, g)
<1>1. u \in Seq(Units) /\ Len(u) = m /\ d \in 0 .. m /\ Len(D) \in Nat
  OBVIOUS
<1>2. d \in Nat /\ m \in Nat /\ d <= Len(u) /\ m <= Len(u) /\ 0 \in 0 .. Len(u) /\ d \in 0 .. Len(u) - 0
  BY <1>1
<1> DEFINE E == D \o SubSeq(u, 0 + 1, 0 + d)
           R == SubSeq(u, d + 1, m)
<1>3. /\ E \in Seq(Units) /\ Len(E) = Len(D) + d /\ InOrder(E, g) /\ ToFollow(u, 0 + d, g, Len(E))
  <2>1. /\ Handed(D, u, 0, d) \in Seq(Units) /\ Len(Handed(D, u, 0, d)) = Len(D) + d
        /\ InOrder(Handed(D, u, 0, d), g) /\ ToFollow(u, 0 + d, g, Len(Handed(D, u, 0, d)))
    BY <1>1, <1>2, HandOver, Zenon
  <2> QED
    BY <2>1 DEF Handed
<1>4. R \in Seq(Units) /\ Len(R) = m - d /\ \A i \in 1 .. m - d : R[i] = u[d + i]
  <2>1. /\ SubSeq(u, d + 1, m) \in Seq(Units)
        /\ Len(SubSeq(u, d + 1, m)) = IF d <= m THEN m - d ELSE 0
        /\ \A i \in 1 .. m - d : SubSeq(u, d + 1, m)[i] = u[d + i]
    BY <1>1, <1>2, PartOfSeq
  <2> QED
    BY <1>1, <2>1
<1>5. D \o SubSeq(u, 1, d) = E
  <2>1. 0 + 1 = 1 /\ 0 + d = d
    BY <1>2
  <2> QED
    BY <2>1
<1> HIDE DEF E, R
<1>6. ToFollow(R, 0, g, Len(E))
  <2> SUFFICES ASSUME NEW i \in 0 + 1 .. Len(R) PROVE R[i] = <<g, Len(E) + (i - 0)>>
    BY DEF ToFollow
  <2>1. i \in 1 .. m - d /\ i - 0 = i /\ d + i \in 1 .. m
    BY <1>1, <1>4
  <2>2. u[d + i] = <<g, Len(D) + (d + i)>>
    BY <2>1 DEF ToFollow
  <2>3. Len(D) + (d + i) = Len(E) + (i - 0)
    BY <1>1, <1>3, <2>1
  <2> QED
    BY <1>4, <2>1, <2>2, <2>3
<1> QED
  <2>1. Len(E) + (Len(R) - 0) = Len(D) + m
    BY <1>1, <1>3, <1>4
  <2>2. R = SubSeq(u, d + 1, m)
    BY DEF R
  <2> QED
    BY <1>3, <1>4, <1>5, <1>6, <2>1, <2>2, Zenon DEF Split


(* The bytes staged and taken become a block, and its units are delivered or
   wait in pending. *)
LEMMA BlockStep ==
  ASSUME StreamInv, NEW m \in Nat, EncodeBlock(m)
  PROVE  StreamInv'
<1> DEFINE x == [bytes |-> Held, op |-> BlockOp, restart |-> Restart]
           n == Len(blocks)
<1>1. /\ Encoding /\ ~(AtEnd /\ op = "Process" /\ ~Restart) /\ pc = "turn" /\ phase # "Finished"
      /\ pc' = "drain" /\ staging' = <<>> /\ served' = 0 /\ emitted' = emitted + m
      /\ consumed' = consumed + Take /\ flint' = (flint /\ ~Restart) /\ blocks' = Append(blocks, x)
      /\ UNCHANGED <<active, workspace, session, open, hint, op, input, status, pos, offered>>
  BY DEF EncodeBlock, Encoding, Held
<1>2. phase' = CASE BlockOp = "Finish" -> "Finished"
                 [] BlockOp = "Flush" /\ ~Restart -> "Flushed"
                 [] OTHER -> "Open"
  BY DEF EncodeBlock
<1>3. /\ open = "open" /\ active /\ workspace /\ phase # "Failed" /\ pending = <<>> /\ served = 0
      /\ Take \in Nat /\ consumed + Take \in 0 .. Len(input) /\ Len(input) \in Nat /\ consumed \in Nat
      /\ pos \in Nat /\ offered \in Nat /\ pos + Len(input) <= offered
      /\ Held \in Seq(Nat) /\ Len(Held) = Len(staging) + Take
      /\ (Held = <<>> => Take = 0 /\ staging = <<>>)
      /\ Encoded \in Nat /\ Accepted = pos + consumed /\ Accepted = Encoded + Len(staging)
      /\ \A j \in 1 .. Len(Held) : Held[j] = Encoded + j
  BY <1>1, TurnFacts
<1>4. /\ BlockOp \in Operations /\ Restart \in BOOLEAN
      /\ (BlockOp = "Process" => Len(Held) = Limit /\ ~AtEnd)
      /\ (Restart => Len(Held) = 2 /\ BlockOp = "Flush")
      /\ Len(Held) <= Limit
      /\ (hint = "open" => Held = <<>> /\ Len(input) - (consumed + Take) = 0)
  BY <1>1, BlockCut
<1>5. x \in Coded /\ x.bytes = Held /\ x.op = BlockOp /\ x.restart = Restart
  BY <1>3, <1>4 DEF Coded
<1>6. blocks \in Seq(Coded) /\ n \in Nat /\ Len(staging) \in Nat
  BY DEF StreamInv, StreamTypes, DataTypes
<1> HIDE DEF x
<1>7. /\ blocks' \in Seq(Coded) /\ Len(blocks') = n + 1 /\ blocks'[n + 1] = x
      /\ \A k \in 1 .. n : blocks'[k] = blocks[k]
  BY <1>1, <1>5, <1>6, OneMore
<1>8. \A k \in 1 .. n + 1 : k \in 1 .. n \/ k = n + 1
  BY <1>6
<1>9. \A k \in 1 .. n : blocks[k].op # "Finish"
  BY <1>1, <1>3 DEF StreamInv, Finishes
<1>10. phase' \in {"Open", "Flushed", "Finished"} /\ (phase' = "Finished" <=> BlockOp = "Finish")
       /\ (phase' = "Flushed" => BlockOp = "Flush")
  BY <1>2, <1>4 DEF Operations
<1>11. Accepted' = Accepted + Take /\ Encoded' = Encoded + Len(Held) /\ Accepted' = pos + (consumed + Take)
  <2>1. Accepted' = pos' + consumed'
    BY <1>1 DEF Accepted
  <2>2. Accepted' = pos + (consumed + Take) /\ Accepted' = Accepted + Take
    BY <1>1, <1>3, <2>1
  <2>3. Encoded' = Accepted' - Len(staging')
    BY DEF Encoded
  <2>4. Len(<<>>) = 0
    OBVIOUS
  <2>5. Encoded' = Accepted' - 0
    BY <1>1, <2>3, <2>4, Zenon
  <2>6. Encoded' = Encoded + Len(Held)
    BY <1>3, <1>6, <2>2, <2>5
  <2> QED
    BY <2>2, <2>6
<1>12. BlockLimit' \in Nat
  BY CallLengths DEF BlockLimit
<1>13. /\ delivered' \in Seq(Units) /\ pending' \in Seq(Units) /\ room' \in Nat
       /\ Len(delivered') + (Len(pending') - 0) = emitted + m
       /\ InOrder(delivered', session) /\ ToFollow(pending', 0, session, Len(delivered'))
  <2> DEFINE u == [j \in 1 .. m |-> <<session, emitted + j>>]
             d == Least(room, m)
  <2>1. delivered' = delivered \o SubSeq(u, 1, d) /\ pending' = SubSeq(u, d + 1, m) /\ room' = room - d
    BY DEF EncodeBlock
  <2>2. delivered \in Seq(Units) /\ session \in Nat /\ emitted \in Nat /\ room \in Nat /\ Len(delivered) \in Nat
    BY DEF StreamInv, StreamTypes, DataTypes
  <2>3. Len(delivered) = emitted /\ InOrder(delivered, session)
    <3>1. Len(delivered) + (Len(pending) - served) = emitted /\ \A k \in 1 .. Len(delivered) : delivered[k] = <<session, k>>
      BY <1>3 DEF StreamInv, Queued
    <3>2. Len(<<>>) = 0
      OBVIOUS
    <3>3. Len(pending) - served = 0
      BY <1>3, <3>2
    <3> QED
      BY <2>2, <3>1, <3>3 DEF InOrder
  <2>4. u \in Seq(Units) /\ Len(u) = m /\ ToFollow(u, 0, session, Len(delivered))
    <3>1. u \in Seq(Units) /\ Len(u) = m
      BY <2>2 DEF Units
    <3>2. ASSUME NEW i \in 0 + 1 .. Len(u) PROVE u[i] = <<session, Len(delivered) + (i - 0)>>
      BY <2>2, <2>3, <3>1
    <3> HIDE DEF u
    <3>3. \A i \in 0 + 1 .. Len(u) : u[i] = <<session, Len(delivered) + (i - 0)>>
      BY <3>2
    <3> QED
      BY <3>1, <3>3 DEF ToFollow
  <2>5. room - d \in Nat
    BY <2>2 DEF Least
  <2>6. d \in 0 .. m
    BY <2>2 DEF Least
  <2> HIDE DEF u, d
  <2>7. Split(delivered, u, d, m, session)
    BY <2>2, <2>3, <2>4, <2>6, SplitUnits
  <2> QED
    BY <2>1, <2>3, <2>5, <2>7 DEF Split
<1>14. StreamTypes'
  <2>1. FlagTypes'
    BY <1>1, <1>4 DEF StreamInv, StreamTypes, FlagTypes
  <2>2. DataTypes'
    <3>1. emitted' \in Nat
      BY <1>1 DEF StreamInv, StreamTypes, DataTypes
    <3>2. served' \in 0 .. Len(pending') /\ consumed' \in 0 .. Len(input') /\ staging' \in Seq(Nat)
      <4>1. Len(pending') \in Nat
        BY <1>13
      <4> QED
        BY <1>1, <1>3, <4>1
    <3>3. phase' \in {"Open", "Flushed", "Finished", "Failed"} /\ pc' \in {"idle", "drain", "turn"}
      BY <1>1, <1>10
    <3>4. /\ input' \in Seq(Nat) /\ session' \in Nat /\ pos' \in Nat /\ offered' \in Nat
          /\ open' \in {"open", "closed", "leaked"} /\ hint' \in {"open", "settled"} /\ op' \in Operations
      BY <1>1 DEF StreamInv, StreamTypes, DataTypes
    <3> QED
      BY <1>7, <1>13, <3>1, <3>2, <3>3, <3>4 DEF DataTypes
  <2> QED
    BY <2>1, <2>2 DEF StreamTypes
<1>15. InCall'
  <2>1. \A i \in 1 .. Len(input') : input'[i] = pos' + i
    BY <1>1 DEF StreamInv, InCall
  <2> QED
    BY <1>1, <1>3, <1>10, <2>1 DEF InCall
<1>16. Queued'
  BY <1>1, <1>13 DEF Queued, InOrder, ToFollow
<1>17. Settled'
  <2>1. blocks' # <<>> /\ blocks'[Len(blocks')].op = BlockOp
    <3>1. Len(<<>>) = 0 /\ n + 1 # 0
      BY <1>6
    <3> QED
      BY <1>5, <1>7, <3>1
  <2> QED
    BY <1>1, <1>10, <2>1 DEF Settled
<1>18. Consecutive'
  <2>1. Chained(blocks, Encoded)
    BY <1>1, <1>3 DEF StreamInv, Consecutive, Chained
  <2>2. Chained(Append(blocks, x), Encoded + Len(x.bytes))
    BY <1>3, <1>5, <1>6, <2>1, ChainedAppend
  <2>3. Chained(blocks', Encoded')
    BY <1>1, <1>5, <1>11, <2>2, Zenon
  <2>4. Encoded' \in Nat
    <3>1. Len(Held) \in Nat
      BY <1>3
    <3> QED
      BY <1>3, <1>11, <3>1
  <2>5. \A j \in 1 .. Len(staging') : staging'[j] = Encoded' + j
    BY <1>1
  <2> QED
    BY <2>3, <2>4, <2>5 DEF Chained, Consecutive
<1>19. Cut'
  <2>1. open' = "open" => Len(staging') <= BlockLimit'
    BY <1>1, <1>12
  <2>2. ASSUME NEW k \in 1 .. n + 1
        PROVE  /\ blocks'[k].op = "Process" => Len(blocks'[k].bytes) = Limit
               /\ blocks'[k].restart => Len(blocks'[k].bytes) = 2 /\ blocks'[k].op = "Flush"
               /\ Len(blocks'[k].bytes) <= Limit
    <3>1. CASE k \in 1 .. n
      BY <1>7, <3>1 DEF StreamInv, Cut
    <3>2. CASE k = n + 1
      BY <1>4, <1>5, <1>7, <3>2
    <3> QED
      BY <1>8, <3>1, <3>2
  <2> QED
    BY <1>7, <2>1, <2>2 DEF Cut
<1>20. Finishes'
  <2>1. ASSUME NEW k \in 1 .. n + 1, blocks'[k].op = "Finish"
        PROVE  k = n + 1 /\ phase' = "Finished"
    <3>1. k = n + 1
      BY <1>7, <1>8, <1>9, <2>1
    <3> QED
      BY <1>5, <1>7, <1>10, <2>1, <3>1
  <2>2. blocks'[n + 1].op = "Process" => offered > Accepted'
    <3> SUFFICES ASSUME blocks'[n + 1].op = "Process" PROVE offered > Accepted'
      OBVIOUS
    <3>1. consumed + Take # Len(input)
      BY <1>4, <1>5, <1>7 DEF AtEnd
    <3> QED
      BY <1>3, <1>11, <3>1
  <2>3. ASSUME NEW k \in 2 .. n + 1, blocks'[k].op = "Finish", blocks'[k].bytes = <<>>, blocks'[k-1].op # "Flush"
        PROVE  offered > Accepted'
    <3>1. k \in 1 .. n + 1 /\ k = n + 1 /\ n \in 1 .. n /\ k - 1 = n
      <4>1. k \in 1 .. n + 1
        BY <1>6
      <4>2. k = n + 1
        BY <2>1, <2>3, <4>1
      <4> QED
        BY <1>6, <4>1, <4>2
    <3>2. Held = <<>> /\ staging = <<>> /\ Take = 0
      BY <1>3, <1>5, <1>7, <2>3, <3>1
    <3>3. blocks[n].op = "Process" /\ blocks # <<>>
      <4>1. blocks[n] \in Coded /\ blocks[n].op # "Flush" /\ blocks[n].op # "Finish"
        BY <1>6, <1>7, <1>9, <2>3, <3>1
      <4>2. \A y \in Coded : y.op \in Operations
        BY DEF Coded
      <4>3. blocks # <<>>
        <5>1. Len(<<>>) = 0 /\ n # 0
          BY <3>1
        <5> QED
          BY <5>1
      <4> QED
        BY <4>1, <4>2, <4>3 DEF Operations
    <3>4. phase \in {"Open", "Flushed"}
      BY <1>1, <1>3 DEF StreamInv, StreamTypes, DataTypes
    <3>5. offered > Accepted
      BY <1>3, <3>2, <3>3, <3>4 DEF StreamInv, Finishes
    <3>6. Accepted' = Accepted
      BY <1>3, <1>11, <3>2
    <3> QED
      BY <3>5, <3>6
  <2> QED
    BY <1>1, <1>7, <2>1, <2>2, <2>3 DEF Finishes
<1>21. HintOpen'
  <2> SUFFICES ASSUME hint = "open"
               PROVE  /\ \A k \in 1 .. n + 1 : blocks'[k].bytes = <<>>
                      /\ Len(staging') + (Len(input') - consumed') = 0
    BY <1>1, <1>7 DEF HintOpen
  <2>1. Held = <<>> /\ Len(input) - (consumed + Take) = 0
    BY <1>4
  <2>2. \A k \in 1 .. n : blocks[k].bytes = <<>>
    BY <1>3 DEF StreamInv, HintOpen
  <2>3. \A k \in 1 .. n + 1 : blocks'[k].bytes = <<>>
    BY <1>5, <1>7, <1>8, <2>1, <2>2
  <2>4. Len(staging') + (Len(input') - consumed') = 0
    BY <1>1, <2>1
  <2> QED
    BY <2>3, <2>4
<1>22. AnswersAreTrue'
  BY <1>1 DEF AnswersAreTrue, PromiseKept, StatusIsHonest, EncoderPresent, StreamInv
<1> QED
  BY <1>14, <1>15, <1>16, <1>17, <1>18, <1>19, <1>20, <1>21, <1>22 DEF StreamInv


-----------------------------------------------------------------------------
(* Every step of the session, whoever takes it. *)
LEMMA SessionKeeps ==
  ASSUME StreamInv, SessionStep
  PROVE  StreamInv'
<1>1. CASE LifeStep
  <2>1. CASE Begin \/ Reinit
    BY <2>1, FreshStep
  <2>2. CASE Release \/ Leak \/ Recover \/ Reconfigure \/ Trim \/ OneShot \/ ReinitFails
    BY <2>2, EndStep
  <2> QED
    BY <1>1, <2>1, <2>2 DEF LifeStep
<1>2. CASE Drain
  BY <1>2, DrainStep
<1>3. CASE Turn
  <2>1. CASE \E m \in Sizes : EncodeBlock(m)
    <3>1. PICK m \in Nat : EncodeBlock(m)
      BY <2>1, CallLengths
    <3> QED
      BY <3>1, BlockStep
  <2> QED
    BY <1>3, <2>1, AnswerStep, HoldStep DEF Turn
<1>4. CASE EncodeFails
  BY <1>4, EncodeFailsStep
<1>5. CASE \E n \in Nat, r \in Nat, o \in Operations : CallOf3(n, r, o)
  <2>1. PICK n \in Nat, r \in Nat, o \in Operations : Call(n, r, o) \/ CallRejected(n) \/ CallFails(n, o)
    BY <1>5 DEF CallOf3
  <2>2. CASE Call(n, r, o)
    BY <2>2, CallStarts
  <2>3. CASE CallRejected(n) \/ CallFails(n, o)
    BY <2>3, TurnedAwayStep
  <2> QED
    BY <2>1, <2>2, <2>3
<1>6. CASE UNCHANGED streamVars
  <2>1. /\ UNCHANGED <<active, workspace, staging, pending, served, session, open, phase, flint, hint, pc, op, input, consumed,
                       room, status, pos, offered, blocks, emitted, delivered>>
    BY <1>6 DEF streamVars, compressorVars, sessionVars, callVars, historyVars
  <2>2. StreamTypes' /\ InCall' /\ Queued' /\ Settled'
    BY <2>1 DEF StreamInv, StreamTypes, FlagTypes, DataTypes, InCall, Queued, Settled
  <2>3. Accepted' = Accepted /\ Encoded' = Encoded /\ BlockLimit' = BlockLimit
    BY <2>1 DEF Accepted, Encoded, BlockLimit
  <2>4. Consecutive' /\ Cut' /\ Finishes' /\ HintOpen'
    BY <2>1, <2>3 DEF StreamInv, Consecutive, Cut, Finishes, HintOpen
  <2>5. AnswersAreTrue'
    BY <2>1 DEF StreamInv, AnswersAreTrue, PromiseKept, StatusIsHonest, EncoderPresent
  <2> QED
    BY <2>2, <2>4, <2>5 DEF StreamInv
<1> QED
  BY <1>1, <1>2, <1>3, <1>4, <1>5, <1>6 DEF SessionStep

(* Under each of its callers the session takes such steps only. *)
LEMMA CallersStep ==
  ASSUME StreamInv, AdapterTypes, [Next]_vars
  PROVE  SessionStep /\ AdapterTypes'
<1>1. consumed \in Nat
  BY DEF StreamInv, StreamTypes, DataTypes
<1>2. CASE Open \/ Scheduler \/ SchedulerFails
  <2>1. SessionStep
    BY <1>2 DEF Open, Scheduler, SchedulerFails, SessionStep, LifeStep
  <2> QED
    BY <1>2, <2>1 DEF Open, Scheduler, SchedulerFails, adapterVars, writerVars, readerVars, AdapterTypes
<1>3. CASE WriterIsCalled \/ WriterIsRun
  <2>1. SessionStep /\ writing' \in Nat
    BY <1>3, WriterSession DEF WriterIsCalled, WriterIsRun
  <2> QED
    BY <1>3, <2>1 DEF WriterIsCalled, WriterIsRun, readerVars, AdapterTypes
<1>4. CASE ReaderIsCalled \/ ReaderIsRun
  <2>1. SessionStep /\ want' \in Nat /\ taken' \in Nat /\ buffered' \in Seq(Nat)
    BY <1>1, <1>4, ReaderSession DEF ReaderIsCalled, ReaderIsRun
  <2> QED
    BY <1>4, <2>1 DEF ReaderIsCalled, ReaderIsRun, writerVars, AdapterTypes
<1>5. CASE CallerAlone
  <2>1. AdapterTypes'
    BY <1>5 DEF CallerAlone, adapterVars, writerVars, readerVars, AdapterTypes
  <2>2. CASE CallStep
    <3>1. \E n \in Nat, r \in Nat, o \in Operations : CallOf3(n, r, o)
      BY <2>2, CallLengths DEF CallStep, CallOf3
    <3> QED
      BY <2>1, <3>1 DEF SessionStep
  <2>3. CASE LifeStep \/ Drain \/ Turn \/ EncodeFails
    BY <2>1, <2>3 DEF SessionStep
  <2> QED
    BY <1>5, <2>2, <2>3 DEF CallerAlone, StreamNext
<1>6. CASE UNCHANGED vars
  BY <1>6 DEF vars, writerVars, readerVars, AdapterTypes, SessionStep
<1> QED
  BY <1>2, <1>3, <1>4, <1>5, <1>6 DEF Next

(* The session's invariant, whoever calls it. *)
THEOREM SessionInvariant == Spec => [](StreamInv /\ AdapterTypes)
<1>1. Init => StreamInv /\ AdapterTypes
  BY StreamStart DEF Init, WriterInit, ReaderInit, AdapterTypes
<1>2. StreamInv /\ AdapterTypes /\ [Next]_vars => (StreamInv /\ AdapterTypes)'
  BY CallersStep, SessionKeeps
<1> QED
  BY <1>1, <1>2, PTL DEF Spec

-----------------------------------------------------------------------------
(* What the invariant promises. *)

(* The units delivered, followed by those pending, are those emitted. *)
LEMMA QueuedInOrder == StreamInv => DeliveredInOrder
<1> SUFFICES ASSUME StreamInv, open = "open", active
             PROVE  delivered \o SubSeq(pending, served + 1, Len(pending)) = [n \in 1 .. emitted |-> <<session, n>>]
  BY DEF DeliveredInOrder
<1> DEFINE k == Len(pending) - served
           E == Handed(delivered, pending, served, k)
<1>1. /\ delivered \in Seq(Units) /\ pending \in Seq(Units) /\ served \in 0 .. Len(pending) /\ session \in Nat
      /\ Len(pending) \in Nat /\ k \in 0 .. k /\ served + k = Len(pending)
  BY DEF StreamInv, StreamTypes, DataTypes
<1>2. InOrder(delivered, session) /\ ToFollow(pending, served, session, Len(delivered)) /\ Len(delivered) + k = emitted
  BY DEF StreamInv, Queued, InOrder, ToFollow
<1>3. E \in Seq(Units) /\ Len(E) = Len(delivered) + k /\ InOrder(E, session)
  BY <1>1, <1>2, HandOver, Zenon
<1>4. E = delivered \o SubSeq(pending, served + 1, Len(pending))
  BY <1>1 DEF Handed
<1> HIDE DEF E
<1>5. E = [n \in 1 .. emitted |-> <<session, n>>]
  <2>1. E = [n \in 1 .. Len(E) |-> E[n]]
    BY <1>3
  <2>2. \A n \in 1 .. Len(E) : E[n] = <<session, n>>
    BY <1>3 DEF InOrder
  <2>3. Len(E) = emitted
    BY <1>2, <1>3
  <2> QED
    BY <2>1, <2>2, <2>3
<1> QED
  BY <1>4, <1>5

(* What the blocks hold follows the caller's bytes. *)
LEMMA ConsecutiveInOrder == StreamInv => InputInOrder
<1> SUFFICES ASSUME StreamInv, open = "open", active, phase # "Failed"
             PROVE  InputInOrder
  BY DEF InputInOrder
<1> DEFINE encoded == CHOOSE e \in Ends(blocks) : \A f \in Ends(blocks) : f <= e
<1>1. /\ Encoded \in Nat
      /\ \A j \in 1 .. Len(staging) : staging[j] = Encoded + j
      /\ Encoded \in Ends(blocks) /\ \A e \in Ends(blocks) : e \in Nat /\ e <= Encoded
  BY DEF StreamInv, Consecutive
<1>2. encoded = Encoded
  <2>1. encoded \in Ends(blocks) /\ \A f \in Ends(blocks) : f <= encoded
    BY <1>1
  <2> HIDE DEF encoded
  <2> QED
    BY <1>1, <2>1
<1>3. staging \in Seq(Nat) /\ Len(staging) \in Nat /\ Accepted - Encoded = Len(staging)
  <2>1. staging \in Seq(Nat) /\ Len(staging) \in Nat /\ pos \in Nat /\ consumed \in Nat
    BY DEF StreamInv, StreamTypes, DataTypes
  <2>2. Accepted \in Nat
    BY <2>1 DEF Accepted
  <2>3. Encoded = Accepted - Len(staging)
    BY DEF Encoded
  <2> QED
    BY <2>1, <2>2, <2>3
<1>4. staging = [j \in 1 .. Accepted - encoded |-> encoded + j]
  <2> HIDE DEF encoded
  <2>1. staging = [j \in 1 .. Len(staging) |-> Encoded + j]
    BY <1>1, <1>3
  <2> QED
    BY <1>2, <1>3, <2>1
<1>5. /\ \A k \in 1 .. Len(blocks) : \A j \in 1 .. Len(blocks[k].bytes) :
           blocks[k].bytes[j] = blocks[k].bytes[1] + j - 1
      /\ \A k \in 1 .. Len(blocks) : blocks[k].bytes # <<>> =>
           /\ blocks[k].bytes[1] - 1 \in Ends(blocks)
           /\ \A l \in k + 1 .. Len(blocks) : blocks[l].bytes # <<>> => blocks[l].bytes[1] > blocks[k].bytes[1]
  BY DEF StreamInv, Consecutive
<1> QED
  BY <1>4, <1>5 DEF InputInOrder, Ends, Accepted

(* The cut, and the end behind a full block. *)
LEMMA CutIsFull == StreamInv => BlocksAreFull
<1> SUFFICES ASSUME StreamInv PROVE BlocksAreFull
  OBVIOUS
<1>1. ASSUME NEW k \in 1 .. Len(blocks), blocks[k].op = "Finish", blocks[k].bytes = <<>>, k > 1, blocks[k-1].op # "Flush"
      PROVE  offered > pos
  <2>1. k \in 2 .. Len(blocks)
    BY <1>1 DEF StreamInv, StreamTypes, DataTypes
  <2>2. offered > Accepted
    BY <1>1, <2>1 DEF StreamInv, Finishes
  <2>3. offered \in Nat /\ pos \in Nat /\ consumed \in Nat
    BY DEF StreamInv, StreamTypes, DataTypes
  <2> QED
    BY <2>2, <2>3 DEF Accepted
<1> QED
  BY <1>1 DEF StreamInv, Cut, BlocksAreFull

(* However a caller, a writer or a reader drives the session, and however
   many sessions went before: what the encoder emitted reaches the caller once
   and in order. *)
THEOREM UnitsArriveInOrder == Spec => []DeliveredInOrder
<1>1. StreamInv => DeliveredInOrder
  BY QueuedInOrder
<1> QED
  BY <1>1, SessionInvariant, PTL

(* The caller's bytes end up in the blocks once and in order, the cut into
   blocks is that of a single call, and the size hint is settled first. *)
THEOREM BytesArriveInOrder == Spec => []BlocksFollowTheInput
<1>1. StreamInv => BlocksFollowTheInput
  <2>1. StreamInv => HintBeforeInput
    BY DEF StreamInv, HintOpen, HintBeforeInput
  <2> QED
    BY <2>1, ConsecutiveInOrder, CutIsFull DEF BlocksFollowTheInput
<1> QED
  BY <1>1, SessionInvariant, PTL

(* What a call returns is true: an answered flush and a finished stream are
   complete, the status makes progress, the encoder is there. *)
THEOREM CallsAnswerTruly == Spec => []AnswersAreTrue
<1>1. StreamInv => AnswersAreTrue
  BY DEF StreamInv
<1> QED
  BY <1>1, SessionInvariant, PTL

-----------------------------------------------------------------------------
Success == {"NeedsInput", "NeedsOutput", "Finished"}

(* The last call of the session came back with a status. *)
Answered == pc = "idle" /\ status \in Success

-----------------------------------------------------------------------------
(* The writer. *)

Waits == {"write.wait", "flush.wait", "finish.wait"}
Pumps == {"write.pump", "flush.pump", "finish.pump"}
Deliveries == {"write.deliver", "write.accepted", "write.again", "flush.deliver", "flush.pumped",
               "finish.deliver", "finish.pumped"}
WriterPlaces == {"idle", "flush.sync", "finish.sync"} \cup Deliveries \cup Pumps \cup Waits

(* The operation a waiting writer asked for. *)
Asked == CASE wpc = "write.wait" -> "Process" [] wpc = "flush.wait" -> "Flush" [] OTHER -> "Finish"

WriterTypes ==
  /\ wpc \in WriterPlaces /\ wstate \in {"Open", "Finishing", "Finished"}
  /\ outbox \in Seq(Units) /\ sink \in Seq(Units)
  /\ wbase \in Nat /\ acked \in Nat /\ synced \in Nat

(* The session is there from the first call on, and works for the writer
   only while the writer waits for it. *)
WriterSessions ==
  /\ open \in {"open", "closed"} /\ (active <=> open = "open")
  /\ open = "closed" =>
       /\ wpc = "idle" /\ wstate = "Open" /\ wret = <<"none", "ok">> /\ outbox = <<>> /\ sink = <<>>
       /\ acked = 0 /\ delivered = <<>> /\ phase = "Open" /\ pc = "idle" /\ pos = 0
  /\ pc # "idle" => wpc \in Waits
  /\ wpc \in Waits /\ (pc # "idle" \/ Answered) => op = Asked /\ (wpc # "write.wait" => input = <<>>)
  /\ phase = "Failed" => status \notin Success
  /\ status # "ok"
  /\ wpc = "flush.pumped" => op = "Flush" /\ Answered

(* What is in the sink, and behind it in the outbox or still to be picked
   up, is what the session delivered. *)
Shipped ==
  phase # "Failed" =>
    /\ InOrder(sink, session)
    /\ wpc \notin Waits => ToFollow(outbox, 0, session, Len(sink)) /\ Len(sink) + Len(outbox) = Len(delivered)
    /\ wpc \in Pumps => outbox = <<>>
    /\ wpc \in Waits =>
         /\ outbox = <<>> /\ wbase = Len(sink) /\ wbase <= Len(delivered)
         /\ pc = "idle" /\ ~Answered => wbase = Len(delivered)

(* What write() has yet to report. *)
Acknowledged ==
  phase # "Failed" =>
    pos = acked + (IF wpc = "write.accepted" \/ (wpc = "write.wait" /\ Answered) THEN consumed ELSE 0)

(* A flush about to be synced, or synced. *)
FlushHolds ==
  wstate = "Open" /\ (wpc = "flush.sync" \/ (wpc = "idle" /\ wret = <<"flush", "ok">>)) =>
    /\ staging = <<>> /\ pending = <<>> /\ outbox = <<>> /\ Len(sink) = emitted
    /\ blocks # <<>> /\ blocks[Len(blocks)].op = "Flush"
    /\ wpc = "idle" => synced = emitted

(* Only finishing finishes the session, and then all of it is shipped. *)
FinishHolds ==
  /\ phase = "Finished" => wstate # "Open" \/ (wpc = "finish.wait" /\ (pc # "idle" \/ Answered))
  /\ wpc = "finish.sync" \/ wstate = "Finished" => phase = "Finished" /\ outbox = <<>> /\ Len(sink) = emitted
  /\ wstate = "Finished" => synced = emitted /\ wpc \in {"idle", "flush.sync"}

WriterInv == WriterTypes /\ WriterSessions /\ Shipped /\ Acknowledged /\ FlushHolds /\ FinishHolds

-----------------------------------------------------------------------------
(* The reader. *)

ReaderTypes ==
  /\ rpc \in {"idle", "loop", "process", "wait"} /\ eof \in BOOLEAN /\ finished \in BOOLEAN
  /\ got \in Seq(Units) /\ rbase \in Nat

ReaderSessions ==
  /\ open \in {"open", "closed"} /\ (active <=> open = "open")
  /\ open = "closed" =>
       /\ rpc = "idle" /\ ~eof /\ ~finished /\ want = 0 /\ got = <<>> /\ buffered = <<>> /\ taken = 0
       /\ delivered = <<>> /\ phase = "Open" /\ pc = "idle" /\ pos = 0
  /\ pc # "idle" => rpc = "wait"
  /\ rpc = "wait" /\ (pc # "idle" \/ Answered) =>
       op = (IF eof THEN "Finish" ELSE "Process") /\ Len(input) = Len(buffered)
  /\ phase = "Failed" => status \notin Success
  /\ status # "zero"

(* The bytes taken from the source are those the session consumed, followed
   by those buffered. *)
Accounted ==
  /\ Len(buffered) <= taken
  /\ \A i \in 1 .. Len(buffered) : buffered[i] = (taken - Len(buffered)) + i
  /\ phase # "Failed" => pos = (taken - Len(buffered)) + (IF rpc = "wait" /\ Answered THEN consumed ELSE 0)
  /\ eof => buffered = <<>>

(* What read() handed out is what the session delivered. *)
HandedOut ==
  phase # "Failed" =>
    /\ InOrder(got, session)
    /\ rpc # "wait" => Len(got) = Len(delivered)
    /\ rpc = "wait" => /\ Len(got) = rbase /\ rbase <= Len(delivered)
                       /\ pc = "idle" /\ ~Answered => rbase = Len(delivered)

EndHolds ==
  /\ phase = "Finished" => eof
  /\ finished => rpc = "idle" /\ phase = "Finished" /\ pending = <<>>
  /\ rpc = "idle" /\ rret = "zero" /\ want # 0 => finished

ReaderInv == ReaderTypes /\ ReaderSessions /\ Accounted /\ HandedOut /\ EndHolds

(* Each adapter as long as it is the caller. *)
AdapterInv == (role = "writer" => WriterInv) /\ (role = "reader" => ReaderInv)


-----------------------------------------------------------------------------
(* What the session does to its callers. *)

(* A queue after a part of another is joined to its end. *)
LEMMA PartsAreSeqs ==
  ASSUME NEW D \in Seq(Units), NEW u \in Seq(Units), NEW k \in 0 .. Len(u)
  PROVE  D \o SubSeq(u, 1, k) \in Seq(Units) /\ SubSeq(u, k + 1, Len(u)) \in Seq(Units)
<1>1. Len(u) \in Nat /\ k \in Nat /\ k <= Len(u) /\ 0 \in Nat
  OBVIOUS
<1>2. SubSeq(u, k + 1, Len(u)) \in Seq(Units)
  BY <1>1, PartOfSeq
<1>3. SubSeq(u, 0 + 1, k) \in Seq(Units)
  BY <1>1, PartOfSeq
<1>4. SubSeq(u, 1, k) \in Seq(Units)
  BY <1>3
<1> QED
  BY <1>2, <1>4, JoinedSeq

(* Inside a call. *)
InsideCall ==
  /\ pc # "idle" /\ UNCHANGED <<session, open, op, input, active>>
  /\ Len(delivered) <= Len(delivered')
  /\ phase' = "Finished" => phase = "Finished" \/ op = "Finish"
  /\ phase' # "Failed" \/ (phase' = "Failed" /\ pc' = "idle")
  /\ pc' # "idle" => pos' = pos
  /\ pc' = "idle" => \/ status' \in Success /\ phase' # "Failed" /\ pos' = pos + consumed'
                     \/ status' = "EncodeError" /\ phase' = "Failed"
  /\ status' \in Success \cup {"EncodeError", status}

LEMMA SchedulerSteps ==
  ASSUME StreamInv, Drain \/ Turn \/ EncodeFails
  PROVE  InsideCall
<1>1. /\ phase # "Failed" /\ pc # "idle" /\ room \in Nat /\ Len(pending) \in Nat /\ served \in 0 .. Len(pending)
      /\ delivered \in Seq(Units) /\ pending \in Seq(Units) /\ pos \in Nat /\ consumed \in Nat /\ Len(delivered) \in Nat
  <2>1. pc # "idle"
    BY DEF Turn, Answer, Hold, EncodeBlock, EncodeFails, Encoding, Drain
  <2>2. phase # "Failed"
    BY <2>1 DEF StreamInv, InCall
  <2> QED
    BY <2>1, <2>2 DEF StreamInv, StreamTypes, DataTypes
<1>2. CASE Drain
  <2> DEFINE k == Least(room, Len(pending) - served)
  <2>1. delivered' = delivered \o SubSeq(pending, served + 1, served + k)
    BY <1>2 DEF Drain
  <2>2. SubSeq(pending, served + 1, served + k) \in Seq(Units)
    <3>1. served + k \in Nat /\ served + k <= Len(pending) /\ served \in Nat
      BY <1>1 DEF Least
    <3> QED
      BY <1>1, <3>1, PartOfSeq
  <2> HIDE DEF k
  <2>3. Len(delivered') = Len(delivered) + Len(SubSeq(pending, served + 1, served + k))
    BY <1>1, <2>1, <2>2, JoinedSeq
  <2>4. Len(delivered) <= Len(delivered')
    BY <1>1, <2>2, <2>3
  <2> QED
    BY <1>1, <1>2, <2>4 DEF Drain, InsideCall, sessionVars, Return, Success
<1>3. CASE Answer
  <2>1. UNCHANGED <<session, open, op, input, active, phase, delivered, consumed>>
    BY <1>3 DEF Answer, sessionVars, compressorVars, callVars, historyVars
  <2> QED
    BY <1>1, <1>3, <2>1 DEF Answer, InsideCall, Return, Success
<1>4. CASE Hold
  <2>1. /\ UNCHANGED <<session, open, op, input, active, delivered>> /\ phase' \in {"Open", phase}
        /\ pos' = pos + consumed + Take /\ consumed' = consumed + Take /\ pc' = "idle" /\ status' = "NeedsInput"
    BY <1>4 DEF Hold, Return, historyVars
  <2>2. Take \in Nat
    BY <1>4, TurnFacts DEF Hold, Encoding
  <2> QED
    BY <1>1, <2>1, <2>2 DEF InsideCall, Success
<1>5. CASE \E m \in Sizes : EncodeBlock(m)
  <2>1. PICK m \in Nat : EncodeBlock(m)
    BY <1>5, CallLengths
  <2>2. /\ UNCHANGED <<session, open, op, input, active, pos, status>> /\ pc' = "drain"
        /\ phase' \in {"Open", "Flushed", "Finished"} /\ (phase' = "Finished" => BlockOp = "Finish")
    BY <2>1 DEF EncodeBlock
  <2>3. BlockOp = "Finish" => op = "Finish"
    BY DEF BlockOp
  <2>4. Len(delivered) <= Len(delivered')
    <3> DEFINE units == [j \in 1 .. m |-> <<session, emitted + j>>]
               direct == Least(room, m)
    <3>1. delivered' = delivered \o SubSeq(units, 1, direct)
      BY <2>1 DEF EncodeBlock
    <3>2. units \in Seq(Units) /\ Len(units) = m
      <4>1. session \in Nat /\ emitted \in Nat
        BY DEF StreamInv, StreamTypes, DataTypes
      <4> QED
        BY <4>1 DEF Units
    <3>3. direct \in Nat /\ direct <= Len(units)
      BY <1>1, <3>2 DEF Least
    <3> HIDE DEF units, direct
    <3>4. SubSeq(units, 0 + 1, direct) \in Seq(Units)
      BY <3>2, <3>3, PartOfSeq
    <3>5. SubSeq(units, 1, direct) \in Seq(Units)
      BY <3>4
    <3>6. Len(delivered') = Len(delivered) + Len(SubSeq(units, 1, direct))
      BY <1>1, <3>1, <3>5, JoinedSeq
    <3> QED
      BY <1>1, <3>5, <3>6
  <2> QED
    BY <1>1, <2>2, <2>3, <2>4 DEF InsideCall
<1>6. CASE EncodeFails
  <2>1. UNCHANGED <<session, open, op, input, active, delivered>> /\ phase' = "Failed" /\ pc' = "idle" /\ status' = "EncodeError"
    BY <1>6 DEF EncodeFails, Return, callVars, historyVars
  <2> QED
    BY <1>1, <2>1 DEF InsideCall
<1> QED
  BY <1>2, <1>3, <1>4, <1>5, <1>6 DEF Turn

(* A call that is made: it goes inside, or comes back with an error. *)
Calls(n, o) ==
  /\ pc = "idle" /\ open = "open"
  /\ UNCHANGED <<session, open, active, pos, delivered, pending, staging, blocks, emitted, served>>
  /\ \/ /\ phase # "Failed" /\ phase' = phase /\ pc' = "drain" /\ op' = o
        /\ input' = [i \in 1 .. n |-> pos + i] /\ status' = "none"
     \/ pc' = "idle" /\ phase' = "Failed" /\ status' = "EncodeError"
     \/ pc' = "idle" /\ phase' = phase /\ status' = "InvalidState" /\ phase = "Failed"
     \/ pc' = "idle" /\ phase' = phase /\ status' = "StreamPositionOverflow" /\ phase \notin {"Failed", "Finished"}

LEMMA CallsAreMade ==
  ASSUME StreamInv, NEW n \in Nat, NEW r \in Nat, NEW o \in Operations, CallOf3(n, r, o)
  PROVE  Calls(n, o)
<1>1. CASE Call(n, r, o)
  <2>1. workspace
    BY <1>1 DEF Call, StreamInv, InCall
  <2> QED
    BY <1>1, <2>1 DEF Call, Calls, compressorVars
<1>2. CASE CallRejected(n)
  BY <1>2 DEF CallRejected, Calls, compressorVars, sessionVars, historyVars
<1>3. CASE CallFails(n, o)
  BY <1>3 DEF CallFails, Calls, compressorVars, historyVars
<1> QED
  BY <1>1, <1>2, <1>3 DEF CallOf3


-----------------------------------------------------------------------------
(* The writer's steps. *)

(* The session changes inside a call only. *)
LEMMA WriterIdle ==
  ASSUME StreamInv, WriterInv, InsideCall
  PROVE  wpc \in Waits /\ open = "open"
BY DEF WriterInv, WriterSessions, InsideCall, StreamInv, InCall

LEMMA WriterWaits ==
  ASSUME StreamInv, StreamInv', WriterInv, InsideCall, UNCHANGED writerVars
  PROVE  WriterInv'
<1>1. /\ wpc \in Waits /\ open = "open" /\ open' = "open" /\ pc # "idle" /\ wpc # "write.accepted"
      /\ UNCHANGED <<session, open, op, input, active>>
      /\ UNCHANGED <<wpc, wstate, outbox, wbase, writing, wret, acked, sink, synced>>
  BY WriterIdle DEF InsideCall, writerVars, Waits
<1>2. /\ op = Asked /\ (wpc # "write.wait" => input = <<>>) /\ ~Answered
  BY <1>1 DEF WriterInv, WriterSessions, Answered
<1>3. WriterTypes'
  BY <1>1 DEF WriterInv, WriterTypes
<1>4. WriterSessions'
  BY <1>1, <1>2 DEF WriterInv, WriterSessions, Answered, InsideCall, Asked, Success, Waits
<1>5. Shipped'
  <2>1. phase' # "Failed" => phase # "Failed"
    BY <1>1 DEF StreamInv, InCall
  <2>2. phase' # "Failed" =>
          /\ InOrder(sink, session) /\ outbox = <<>> /\ wbase = Len(sink) /\ wbase <= Len(delivered)
    BY <1>1, <2>1 DEF WriterInv, Shipped
  <2>3. Len(delivered) \in Nat /\ Len(delivered') \in Nat /\ wbase \in Nat
    <3>1. delivered \in Seq(Units) /\ delivered' \in Seq(Units)
      BY DEF StreamInv, StreamTypes, DataTypes
    <3> QED
      BY <3>1 DEF WriterInv, WriterTypes
  <2>4. phase' # "Failed" => wbase <= Len(delivered')
    BY <2>2, <2>3 DEF InsideCall
  <2>5. phase' # "Failed" /\ pc' = "idle" => Answered'
    BY DEF InsideCall, Answered
  <2>6. wpc' \notin Pumps
    BY <1>1 DEF Pumps, Waits
  <2>7. InOrder(sink, session)' <=> InOrder(sink, session)
    BY <1>1 DEF InOrder
  <2> QED
    BY <1>1, <2>2, <2>4, <2>5, <2>6, <2>7 DEF Shipped
<1>6. Acknowledged'
  <2> SUFFICES ASSUME phase' # "Failed"
               PROVE  pos' = acked + (IF wpc = "write.wait" /\ Answered' THEN consumed' ELSE 0)
    BY <1>1 DEF Acknowledged
  <2>1. pos = acked /\ acked \in Nat
    BY <1>1, <1>2 DEF WriterInv, WriterTypes, Acknowledged, StreamInv, InCall
  <2>2. CASE pc' # "idle"
    BY <2>1, <2>2 DEF InsideCall, Answered
  <2>3. CASE pc' = "idle"
    <3>1. Answered' /\ pos' = pos + consumed'
      BY <2>3 DEF InsideCall, Answered
    <3>2. consumed' \in 0 .. Len(input)
      BY <1>1 DEF StreamInv, StreamTypes, DataTypes
    <3>3. wpc # "write.wait" => consumed' = 0 /\ pos + 0 = pos /\ acked + 0 = acked
      <4>1. Len(<<>>) = 0
        OBVIOUS
      <4> QED
        BY <1>2, <2>1, <3>2, <4>1
    <3>4. pos \in Nat /\ consumed' \in Nat
      BY DEF StreamInv, StreamTypes, DataTypes
    <3>5. CASE wpc = "write.wait"
      BY <2>1, <3>1, <3>5, Zenon
    <3>6. CASE wpc # "write.wait"
      BY <2>1, <3>1, <3>3, <3>6
    <3> QED
      BY <3>5, <3>6
  <2> QED
    BY <2>2, <2>3
<1>7. FlushHolds'
  BY <1>1 DEF FlushHolds, Waits
<1>8. FinishHolds'
  <2>1. phase' = "Finished" => wstate # "Open" \/ wpc = "finish.wait"
    BY <1>1, <1>2 DEF WriterInv, FinishHolds, InsideCall, Asked, Waits
  <2>2. phase' = "Finished" /\ pc' = "idle" => Answered'
    BY DEF InsideCall, Answered
  <2>3. wpc # "finish.sync" /\ wstate # "Finished"
    BY <1>1 DEF WriterInv, FinishHolds, Waits
  <2> QED
    BY <1>1, <2>1, <2>2, <2>3 DEF FinishHolds
<1> QED
  BY <1>3, <1>4, <1>5, <1>6, <1>7, <1>8 DEF WriterInv

(* The writer's session begins. *)
LEMMA WriterOpens ==
  ASSUME StreamInv, WriterInv, Begin, UNCHANGED writerVars
  PROVE  WriterInv'
<1>1. /\ UNCHANGED <<wpc, wstate, outbox, wbase, writing, wret, acked, sink, synced>>
      /\ open' = "open" /\ active' = TRUE /\ phase' = "Open" /\ status' = "none" /\ pos' = 0 /\ delivered' = <<>> /\ pc' = pc
  BY DEF Begin, Fresh, writerVars
<1>2. /\ wpc = "idle" /\ wstate = "Open" /\ wret = <<"none", "ok">> /\ outbox = <<>> /\ sink = <<>> /\ acked = 0 /\ pc = "idle"
  BY DEF Begin, WriterInv, WriterSessions
<1>3. WriterTypes'
  BY <1>1 DEF WriterInv, WriterTypes
<1>4. WriterSessions' /\ FlushHolds' /\ FinishHolds' /\ Acknowledged'
  BY <1>1, <1>2 DEF WriterSessions, FlushHolds, FinishHolds, Acknowledged, Waits, Success
<1>5. Shipped'
  BY <1>1, <1>2 DEF Shipped, InOrder, ToFollow, Waits, Pumps
<1> QED
  BY <1>3, <1>4, <1>5 DEF WriterInv

(* The writer calls the session. *)
LEMMA WriterPumps ==
  ASSUME StreamInv, StreamInv', AdapterTypes, WriterInv, Pump
  PROVE  WriterInv'
<1> DEFINE o == CASE wpc = "write.pump" -> "Process" [] wpc = "flush.pump" -> "Flush" [] OTHER -> "Finish"
           n == IF wpc = "write.pump" THEN writing ELSE 0
<1>1. /\ wpc \in Pumps /\ UNCHANGED <<wstate, outbox, writing, wret, acked, sink, synced>> /\ wbase' = Len(delivered)
      /\ wpc' = PumpArgs[3]
      /\ Call(PumpArgs[1], Pull, PumpArgs[2]) \/ CallRejected(PumpArgs[1]) \/ CallFails(PumpArgs[1], PumpArgs[2])
  BY DEF Pump, GoTo, Pumps
<1>2. open = "open" /\ pc = "idle"
  BY <1>1 DEF Call, CallRejected, CallFails
<1>3. /\ wpc' \in Waits /\ PumpArgs[1] = n /\ PumpArgs[2] = o /\ o = Asked' /\ o \in Operations
      /\ (wpc' # "write.wait" => n = 0) /\ n \in Nat
  BY <1>1 DEF PumpArgs, Pumps, Waits, Asked, Operations, AdapterTypes
<1> HIDE DEF o, n
<1>4. CallOf3(n, Pull, o)
  BY <1>1, <1>3, Zenon DEF CallOf3
<1>5. Calls(n, o)
  BY <1>3, <1>4, CallLengths, CallsAreMade
<1>6. /\ open' = "open" /\ active' = active /\ session' = session /\ pos' = pos /\ delivered' = delivered
      /\ (phase' = "Failed" \/ phase' = phase) /\ (phase' # "Failed" => phase # "Failed") /\ status' \notin Success /\ status' # "ok"
      /\ ~Answered' /\ (pc' # "idle" => op' = o /\ input' = [i \in 1 .. n |-> pos + i])
  BY <1>2, <1>5 DEF Calls, Answered, Success
<1>7. delivered \in Seq(Units) /\ Len(delivered) \in Nat
  BY DEF StreamInv, StreamTypes, DataTypes
<1>8. WriterTypes'
  <2>1. wpc' \in WriterPlaces
    BY <1>3 DEF WriterPlaces
  <2> QED
    BY <1>1, <1>7, <2>1 DEF WriterInv, WriterTypes
<1>9. WriterSessions'
  <2>1. wpc' # "write.wait" /\ pc' # "idle" => input' = <<>>
    BY <1>3, <1>6
  <2>2. wpc' # "flush.pumped" /\ wpc' # "idle"
    BY <1>3 DEF Waits
  <2>3. active
    BY <1>2 DEF WriterInv, WriterSessions
  <2> QED
    BY <1>3, <1>6, <2>1, <2>2, <2>3 DEF WriterSessions
<1>10. Shipped'
  <2> SUFFICES ASSUME phase' # "Failed"
               PROVE  /\ InOrder(sink, session) /\ outbox = <<>> /\ Len(delivered) = Len(sink)
    BY <1>1, <1>3, <1>6, <1>7 DEF Shipped, InOrder, Waits, Pumps
  <2>1. wpc \notin Waits
    BY <1>1 DEF Waits, Pumps
  <2>2. InOrder(sink, session) /\ outbox = <<>> /\ Len(sink) + Len(outbox) = Len(delivered)
    BY <1>1, <1>6, <2>1 DEF WriterInv, Shipped
  <2>3. Len(sink) \in Nat /\ Len(<<>>) = 0
    BY DEF WriterInv, WriterTypes
  <2> QED
    BY <1>7, <2>2, <2>3
<1>11. Acknowledged'
  <2>1. phase # "Failed" => pos = acked + 0
    BY <1>1 DEF WriterInv, Acknowledged, Pumps
  <2>2. wpc' # "write.accepted"
    BY <1>3 DEF Waits
  <2> QED
    BY <1>1, <1>6, <2>1, <2>2 DEF Acknowledged
<1>12. FlushHolds'
  BY <1>3 DEF FlushHolds, Waits
<1>13. FinishHolds'
  <2>1. phase = "Finished" => wstate # "Open"
    BY <1>1 DEF WriterInv, FinishHolds, Pumps
  <2>2. wstate # "Finished"
    BY <1>1 DEF WriterInv, FinishHolds, Pumps
  <2>3. wpc' # "finish.sync"
    BY <1>3 DEF Waits
  <2> QED
    BY <1>1, <1>6, <2>1, <2>2, <2>3 DEF FinishHolds
<1> QED
  BY <1>8, <1>9, <1>10, <1>11, <1>12, <1>13 DEF WriterInv

(* The writer delivers, waits for nothing, or reports: the session rests. *)
SessionRests ==
  UNCHANGED <<active, workspace, staging, pending, served, session, open, phase, flint, hint, pc, op, input, consumed,
              room, status, pos, offered, blocks, emitted, delivered>>

LEMMA SessionAtRest == UNCHANGED streamVars => SessionRests
BY DEF streamVars, compressorVars, sessionVars, callVars, historyVars, SessionRests

(* A call of the writer begins. *)
LEMMA WriterIsAsked ==
  ASSUME StreamInv, WriterInv, WriterCall
  PROVE  WriterInv'
<1>1. /\ open = "open" /\ wpc = "idle" /\ SessionRests
      /\ UNCHANGED <<wbase, wstate, outbox, acked, sink, synced>>
  BY SessionAtRest DEF WriterCall, Write, Flush, TryFinish, Ready
<1>2. \/ wpc' = "write.deliver" /\ wstate = "Open"
      \/ wpc' = "idle" /\ wret' # <<"flush", "ok">>
      \/ wpc' = "flush.deliver" /\ wstate = "Open"
      \/ wpc' = "flush.sync" /\ wstate # "Open"
      \/ wpc' = "finish.deliver" /\ wstate # "Finished"
  BY DEF WriterCall, Write, Flush, TryFinish, GoTo, WriterDone
<1>3. WriterTypes'
  BY <1>1, <1>2 DEF WriterInv, WriterTypes, WriterPlaces, Deliveries
<1>4. WriterSessions'
  BY <1>1, <1>2 DEF WriterInv, WriterSessions, SessionRests, Answered, Waits, Asked
<1>5. Shipped' /\ Acknowledged'
  BY <1>1, <1>2 DEF WriterInv, Shipped, Acknowledged, SessionRests, Answered, Waits, Pumps, InOrder, ToFollow
<1>6. FlushHolds' /\ FinishHolds'
  BY <1>1, <1>2 DEF WriterInv, FlushHolds, FinishHolds, SessionRests
<1> QED
  BY <1>3, <1>4, <1>5, <1>6 DEF WriterInv


(* The sink accepts a part of the outbox. *)
LEMMA WriterShips ==
  ASSUME StreamInv, WriterInv, SinkAccepts
  PROVE  WriterInv'
<1>1. PICK k \in 1 .. Len(outbox) :
        /\ sink' = sink \o SubSeq(outbox, 1, k)
        /\ outbox' = SubSeq(outbox, k + 1, Len(outbox))
  BY DEF SinkAccepts
<1>2. /\ wpc \in Deliveries /\ SessionRests /\ UNCHANGED <<wbase, wpc, wstate, wret, acked, synced>>
  BY SessionAtRest DEF SinkAccepts, Delivering, Deliveries
<1>3. /\ sink \in Seq(Units) /\ outbox \in Seq(Units) /\ Len(outbox) \in Nat /\ k \in 0 .. Len(outbox)
      /\ session \in Nat /\ Len(sink) \in Nat
  BY DEF WriterInv, WriterTypes, StreamInv, StreamTypes, DataTypes
<1>4. sink' \in Seq(Units) /\ outbox' \in Seq(Units)
  BY <1>1, <1>3, PartsAreSeqs
<1>5. WriterTypes'
  BY <1>2, <1>4 DEF WriterInv, WriterTypes
<1>6. WriterSessions'
  <2>1. open = "open"
    BY <1>2 DEF WriterInv, WriterSessions, Deliveries
  <2> QED
    BY <1>2, <2>1 DEF WriterInv, WriterSessions, SessionRests, Answered, Deliveries, Waits, Asked
<1>7. Shipped'
  <2> SUFFICES ASSUME phase # "Failed"
               PROVE  /\ InOrder(sink', session) /\ ToFollow(outbox', 0, session, Len(sink'))
                      /\ Len(sink') + Len(outbox') = Len(delivered)
    BY <1>2 DEF Shipped, SessionRests, Waits, Pumps, Deliveries, InOrder, ToFollow
  <2>1. /\ InOrder(sink, session) /\ ToFollow(outbox, 0, session, Len(sink)) /\ Len(sink) + Len(outbox) = Len(delivered)
    BY <1>2 DEF WriterInv, Shipped, Waits, Deliveries
  <2>2. Split(sink, outbox, k, Len(outbox), session)
    BY <1>3, <2>1, SplitUnits
  <2>3. /\ Len(sink') + (Len(outbox') - 0) = Len(sink) + Len(outbox)
        /\ InOrder(sink', session) /\ ToFollow(outbox', 0, session, Len(sink'))
    BY <1>1, <2>2, Zenon DEF Split
  <2>4. Len(outbox') - 0 = Len(outbox')
    BY <1>4
  <2> QED
    BY <2>1, <2>3, <2>4
<1>8. Acknowledged'
  BY <1>2 DEF WriterInv, Acknowledged, SessionRests, Answered
<1>9. FlushHolds' /\ FinishHolds'
  BY <1>2 DEF WriterInv, FlushHolds, FinishHolds, SessionRests, Deliveries, Answered
<1> QED
  BY <1>5, <1>6, <1>7, <1>8, <1>9 DEF WriterInv

(* A sink error is no success. *)
LEMMA NoFlushFails == \A c : <<c, "sink error">> # <<"flush", "ok">>
<1> SUFFICES ASSUME NEW c, <<c, "sink error">> = <<"flush", "ok">> PROVE FALSE
  OBVIOUS
<1>1. <<c, "sink error">>[2] = "sink error" /\ <<"flush", "ok">>[2] = "ok"
  OBVIOUS
<1> QED
  BY <1>1

(* The sink fails: the call reports it, but for bytes write() has taken. *)
LEMMA WriterIsLetDown ==
  ASSUME StreamInv, WriterInv, SinkFails
  PROVE  WriterInv'
<1>1. /\ wpc \in Deliveries /\ SessionRests /\ UNCHANGED <<wbase, wstate, outbox, writing, sink, synced>> /\ wpc' = "idle"
      /\ wret' # <<"flush", "ok">>
      /\ acked' = IF wpc = "write.accepted" THEN acked + consumed ELSE acked
  <2>1. /\ wpc \in Deliveries /\ SessionRests /\ UNCHANGED <<wbase, wstate, outbox, writing, sink, synced>> /\ wpc' = "idle"
        /\ acked' = IF wpc = "write.accepted" THEN acked + consumed ELSE acked
    BY SessionAtRest DEF SinkFails, Delivering, Deliveries, WriterDone
  <2>2. wret' = <<"write", "ok">> \/ wret' = <<CallOf(wpc), "sink error">>
    BY DEF SinkFails, WriterDone
  <2>3. wret' # <<"flush", "ok">>
    <3>1. <<"write", "ok">> # <<"flush", "ok">>
      OBVIOUS
    <3> QED
      BY <2>2, <3>1, NoFlushFails, Zenon
  <2> QED
    BY <2>1, <2>3
<1>2. open = "open" /\ consumed \in Nat /\ acked \in Nat
  BY <1>1 DEF WriterInv, WriterSessions, WriterTypes, Deliveries, StreamInv, StreamTypes, DataTypes
<1>3. WriterTypes'
  BY <1>1, <1>2 DEF WriterInv, WriterTypes, WriterPlaces
<1>4. WriterSessions'
  BY <1>1, <1>2 DEF WriterInv, WriterSessions, SessionRests, Answered, Deliveries, Waits, Asked
<1>5. Shipped'
  BY <1>1 DEF WriterInv, Shipped, SessionRests, Deliveries, Waits, Pumps, InOrder, ToFollow
<1>6. Acknowledged'
  BY <1>1, <1>2 DEF WriterInv, Acknowledged, SessionRests, Deliveries
<1>7. FlushHolds' /\ FinishHolds'
  BY <1>1 DEF WriterInv, FlushHolds, FinishHolds, SessionRests, Deliveries
<1> QED
  BY <1>3, <1>4, <1>5, <1>6, <1>7 DEF WriterInv

(* The outbox is empty: the call goes on, or is over. *)
LEMMA WriterGoesOn ==
  ASSUME StreamInv, WriterInv, Delivered
  PROVE  WriterInv'
<1>1. /\ wpc \in Deliveries /\ SessionRests /\ outbox = <<>> /\ UNCHANGED <<wbase, wstate, outbox, writing, sink, synced>>
  BY SessionAtRest DEF Delivered, Delivering, Deliveries
<1>2. \/ /\ wpc' = "idle" /\ wret' = <<"write", "ok">>
         /\ \/ wpc = "write.deliver" /\ acked' = acked
            \/ wpc = "write.accepted" /\ acked' = acked + consumed
      \/ acked' = acked /\ wpc' = "write.pump" /\ wpc \in {"write.deliver", "write.again"}
      \/ acked' = acked /\ wpc' = "flush.pump" /\ wpc \in {"flush.deliver", "flush.pumped"}
      \/ acked' = acked /\ wpc' = "flush.sync" /\ wpc = "flush.pumped" /\ status # "NeedsOutput"
      \/ acked' = acked /\ wpc' = "finish.pump" /\ wpc \in {"finish.deliver", "finish.pumped"}
      \/ acked' = acked /\ wpc' = "finish.sync" /\ wpc \in {"finish.deliver", "finish.pumped"} /\ SessionFinished
  BY <1>1 DEF Delivered, Deliveries, WriterDone, GoTo
<1>3. open = "open" /\ active /\ consumed \in Nat /\ acked \in Nat /\ pc = "idle"
  BY <1>1 DEF WriterInv, WriterSessions, WriterTypes, Deliveries, Waits, StreamInv, StreamTypes, DataTypes
<1>4. WriterTypes'
  BY <1>1, <1>2, <1>3 DEF WriterInv, WriterTypes, WriterPlaces, Pumps
<1>5. WriterSessions'
  BY <1>1, <1>2, <1>3 DEF WriterInv, WriterSessions, SessionRests, Answered, Deliveries, Waits, Asked
<1>6. Shipped'
  BY <1>1, <1>2 DEF WriterInv, Shipped, SessionRests, Deliveries, Waits, Pumps, InOrder, ToFollow
<1>7. Acknowledged'
  BY <1>1, <1>2, <1>3 DEF WriterInv, Acknowledged, SessionRests, Deliveries
<1>8. phase # "Failed" /\ Len(pending) - served = 0 => Len(sink) = emitted
  <2> SUFFICES ASSUME phase # "Failed", Len(pending) - served = 0 PROVE Len(sink) = emitted
    OBVIOUS
  <2>1. Len(sink) + Len(outbox) = Len(delivered)
    BY <1>1 DEF WriterInv, Shipped, Deliveries, Waits
  <2>2. Len(delivered) + (Len(pending) - served) = emitted
    BY <1>3 DEF StreamInv, Queued
  <2>3. delivered \in Seq(Units) /\ sink \in Seq(Units) /\ Len(<<>>) = 0
    BY DEF StreamInv, StreamTypes, DataTypes, WriterInv, WriterTypes
  <2>4. Len(delivered) \in Nat /\ Len(sink) \in Nat
    BY <2>3
  <2> QED
    BY <1>1, <2>1, <2>2, <2>3, <2>4
<1>9. FlushHolds'
  <2> SUFFICES ASSUME wpc' = "flush.sync", wstate = "Open"
               PROVE  /\ staging = <<>> /\ pending = <<>> /\ Len(sink) = emitted
                      /\ blocks # <<>> /\ blocks[Len(blocks)].op = "Flush"
    BY <1>1, <1>2 DEF FlushHolds, SessionRests
  <2>1. wpc = "flush.pumped" /\ op = "Flush" /\ status \in {"NeedsInput", "Finished"} /\ phase # "Failed" /\ phase # "Finished"
    BY <1>2 DEF WriterInv, WriterSessions, FinishHolds, Answered, Success
  <2>2. status # "Finished"
    <3> SUFFICES ASSUME status = "Finished" PROVE FALSE
      OBVIOUS
    <3>1. blocks # <<>> /\ blocks[Len(blocks)].op = "Finish"
      BY <1>3 DEF StreamInv, AnswersAreTrue, PromiseKept
    <3>2. blocks \in Seq(Coded)
      BY DEF StreamInv, StreamTypes, DataTypes
    <3>3. Len(blocks) \in 1 .. Len(blocks)
      BY <3>1, <3>2
    <3>4. phase \in {"Finished", "Failed"}
      BY <3>1, <3>3 DEF StreamInv, Finishes
    <3> QED
      BY <2>1, <3>4
  <2>3. staging = <<>> /\ pending = <<>> /\ blocks # <<>> /\ blocks[Len(blocks)].op = "Flush"
    BY <1>3, <2>1, <2>2 DEF StreamInv, AnswersAreTrue, PromiseKept
  <2>4. Len(pending) - served = 0
    <3>1. served \in 0 .. Len(pending) /\ Len(<<>>) = 0
      BY DEF StreamInv, StreamTypes, DataTypes
    <3> QED
      BY <2>3, <3>1
  <2> QED
    BY <1>8, <2>1, <2>3, <2>4
<1>10. FinishHolds'
  <2>1. wpc' = "finish.sync" => phase = "Finished" /\ Len(sink) = emitted
    <3> SUFFICES ASSUME wpc' = "finish.sync" PROVE phase = "Finished" /\ Len(sink) = emitted
      OBVIOUS
    <3>1. phase = "Finished" /\ served >= Len(pending)
      BY <1>1, <1>2 DEF SessionFinished
    <3>2. served \in 0 .. Len(pending) /\ Len(pending) \in Nat
      BY DEF StreamInv, StreamTypes, DataTypes
    <3> QED
      BY <1>8, <3>1, <3>2
  <2>2. wstate # "Finished"
    BY <1>1 DEF WriterInv, FinishHolds, Deliveries
  <2>3. phase = "Finished" => wstate # "Open"
    BY <1>1 DEF WriterInv, FinishHolds, Deliveries
  <2> QED
    BY <1>1, <2>1, <2>2, <2>3 DEF FinishHolds, SessionRests
<1> QED
  BY <1>4, <1>5, <1>6, <1>7, <1>9, <1>10 DEF WriterInv

(* The sink is flushed. *)
LEMMA WriterSyncs ==
  ASSUME StreamInv, WriterInv, Sync
  PROVE  WriterInv'
<1>1. /\ wpc \in {"flush.sync", "finish.sync"} /\ SessionRests /\ UNCHANGED <<wbase, outbox, writing, acked, sink>>
      /\ wpc' = "idle"
      /\ \/ /\ synced' = Len(sink) /\ wstate' = (IF wpc = "finish.sync" THEN "Finished" ELSE wstate)
            /\ wret' = <<CallOf(wpc), "ok">>
         \/ UNCHANGED <<synced, wstate>> /\ wret' # <<"flush", "ok">>
  <2>1. /\ wpc \in {"flush.sync", "finish.sync"} /\ SessionRests /\ UNCHANGED <<wbase, outbox, writing, acked, sink>>
        /\ wpc' = "idle"
        /\ \/ /\ synced' = Len(sink) /\ wstate' = (IF wpc = "finish.sync" THEN "Finished" ELSE wstate)
              /\ wret' = <<CallOf(wpc), "ok">>
           \/ UNCHANGED <<synced, wstate>> /\ wret' = <<CallOf(wpc), "sink error">>
    BY SessionAtRest DEF Sync, WriterDone
  <2>2. wret' = <<CallOf(wpc), "sink error">> => wret' # <<"flush", "ok">>
    BY NoFlushFails, Zenon
  <2> QED
    BY <2>1, <2>2
<1>2. open = "open" /\ pc = "idle" /\ Len(sink) \in Nat
  <2>1. sink \in Seq(Units)
    BY DEF WriterInv, WriterTypes
  <2> QED
    BY <1>1, <2>1 DEF WriterInv, WriterSessions, Waits
<1>3. wret' = <<"flush", "ok">> => wpc = "flush.sync" /\ synced' = Len(sink) /\ wstate' = wstate
  BY <1>1 DEF CallOf
<1>4. WriterTypes'
  BY <1>1, <1>2 DEF WriterInv, WriterTypes, WriterPlaces
<1>5. WriterSessions'
  BY <1>1, <1>2 DEF WriterInv, WriterSessions, SessionRests, Answered, Waits, Asked
<1>6. Shipped' /\ Acknowledged'
  BY <1>1 DEF WriterInv, Shipped, Acknowledged, SessionRests, Waits, Pumps, InOrder, ToFollow
<1>7. FlushHolds'
  BY <1>1, <1>3 DEF WriterInv, FlushHolds, SessionRests
<1>8. FinishHolds'
  BY <1>1 DEF WriterInv, FinishHolds, SessionRests
<1> QED
  BY <1>4, <1>5, <1>6, <1>7, <1>8 DEF WriterInv

(* The session came back: its output is picked up. *)
LEMMA WriterIsServed ==
  ASSUME StreamInv, WriterInv, Pumped
  PROVE  WriterInv'
<1>1. /\ wpc \in Waits /\ pc = "idle" /\ SessionRests /\ UNCHANGED <<wbase, acked, sink, synced>>
  BY SessionAtRest DEF Pumped, Waits
<1>2. \/ /\ Answered /\ outbox' = SubSeq(delivered, wbase + 1, Len(delivered)) /\ wret' = wret
         /\ wstate' = (IF wpc = "finish.wait" THEN "Finishing" ELSE wstate)
         /\ \/ wpc = "write.wait" /\ consumed # 0 /\ wpc' = "write.accepted"
            \/ wpc = "write.wait" /\ consumed = 0 /\ wpc' = "write.again"
            \/ wpc = "flush.wait" /\ wpc' = "flush.pumped"
            \/ wpc = "finish.wait" /\ wpc' = "finish.pumped"
      \/ ~Answered /\ wpc' = "idle" /\ wret' = <<CallOf(wpc), status>> /\ UNCHANGED <<outbox, wstate>>
  BY <1>1 DEF Pumped, Answered, Success, Waits, GoTo, WriterDone
<1>3. open = "open" /\ session \in Nat /\ consumed \in Nat /\ delivered \in Seq(Units) /\ Len(delivered) \in Nat
      /\ wbase \in Nat /\ sink \in Seq(Units) /\ Len(sink) \in Nat
  BY <1>1 DEF WriterInv, WriterTypes, WriterSessions, Waits, StreamInv, StreamTypes, DataTypes
<1>4. /\ SubSeq(delivered, wbase + 1, Len(delivered)) \in Seq(Units)
      /\ Len(SubSeq(delivered, wbase + 1, Len(delivered))) = IF wbase <= Len(delivered) THEN Len(delivered) - wbase ELSE 0
      /\ \A i \in 1 .. Len(delivered) - wbase : SubSeq(delivered, wbase + 1, Len(delivered))[i] = delivered[wbase + i]
  BY <1>3, PartOfSeq
<1>5. WriterTypes'
  BY <1>1, <1>2, <1>4 DEF WriterInv, WriterTypes, WriterPlaces, Deliveries
<1>6. WriterSessions'
  BY <1>1, <1>2, <1>3 DEF WriterInv, WriterSessions, SessionRests, Answered, Waits, Asked
<1>7. Shipped'
  <2> SUFFICES ASSUME phase # "Failed"
               PROVE  /\ InOrder(sink, session) /\ ToFollow(outbox', 0, session, Len(sink))
                      /\ Len(sink) + Len(outbox') = Len(delivered)
    BY <1>1, <1>2 DEF Shipped, SessionRests, Waits, Pumps, InOrder, ToFollow
  <2>1. /\ InOrder(sink, session) /\ outbox = <<>> /\ wbase = Len(sink) /\ wbase <= Len(delivered)
        /\ (~Answered => wbase = Len(delivered))
    BY <1>1 DEF WriterInv, Shipped
  <2>2. CASE Answered
    <3>1. outbox' = SubSeq(delivered, wbase + 1, Len(delivered))
      BY <1>2, <2>2
    <3>2. Len(outbox') = Len(delivered) - wbase /\ \A i \in 1 .. Len(delivered) - wbase : outbox'[i] = delivered[wbase + i]
      BY <1>4, <2>1, <3>1
    <3>3. \A n \in 1 .. Len(delivered) : delivered[n] = <<session, n>>
      <4>1. active
        BY <1>3 DEF WriterInv, WriterSessions
      <4> QED
        BY <1>3, <4>1 DEF StreamInv, Queued
    <3>4. ASSUME NEW i \in 0 + 1 .. Len(outbox') PROVE outbox'[i] = <<session, Len(sink) + (i - 0)>>
      <4>1. i \in 1 .. Len(delivered) - wbase /\ wbase + i \in 1 .. Len(delivered) /\ wbase + i = Len(sink) + (i - 0)
        BY <1>3, <2>1, <3>2
      <4> QED
        BY <3>2, <3>3, <4>1
    <3>5. ToFollow(outbox', 0, session, Len(sink))
      BY <3>4 DEF ToFollow
    <3> QED
      BY <1>3, <2>1, <3>2, <3>5
  <2>3. CASE ~Answered
    <3>1. outbox' = <<>> /\ Len(<<>>) = 0
      BY <1>2, <2>1, <2>3
    <3>2. ToFollow(outbox', 0, session, Len(sink))
      BY <3>1 DEF ToFollow
    <3> QED
      BY <1>3, <2>1, <2>3, <3>1, <3>2
  <2> QED
    BY <2>2, <2>3
<1>8. Acknowledged'
  <2> SUFFICES ASSUME phase # "Failed"
               PROVE  pos = acked + (IF wpc' = "write.accepted" THEN consumed ELSE 0)
    BY <1>1, <1>2 DEF Acknowledged, SessionRests
  <2>1. pos = acked + (IF wpc = "write.wait" /\ Answered THEN consumed ELSE 0)
    BY <1>1 DEF WriterInv, Acknowledged, Waits
  <2> QED
    BY <1>2, <2>1
<1>9. FlushHolds'
  <2>1. wpc' # "flush.sync" /\ (wpc' = "idle" => wret' # <<"flush", "ok">>)
    <3>1. status # "ok"
      BY DEF WriterInv, WriterSessions
    <3> QED
      BY <1>2, <3>1
  <2> QED
    BY <2>1 DEF FlushHolds
<1>10. FinishHolds'
  <2>1. wstate # "Finished" /\ (phase = "Finished" => wstate # "Open" \/ (wpc = "finish.wait" /\ Answered))
    BY <1>1 DEF WriterInv, FinishHolds, Waits
  <2> QED
    BY <1>1, <1>2, <2>1 DEF FinishHolds, SessionRests
<1> QED
  BY <1>5, <1>6, <1>7, <1>8, <1>9, <1>10 DEF WriterInv


-----------------------------------------------------------------------------
(* The reader's steps. *)

(* The session works for the reader only inside read(). *)
LEMMA ReaderWaits ==
  ASSUME StreamInv, StreamInv', AdapterTypes, ReaderInv, InsideCall, UNCHANGED readerVars
  PROVE  ReaderInv'
<1>1. /\ rpc = "wait" /\ open = "open" /\ open' = "open" /\ pc # "idle"
      /\ UNCHANGED <<session, open, op, input, active>>
      /\ UNCHANGED <<rpc, buffered, eof, finished, want, rbase, rret, taken, got>>
  BY DEF InsideCall, readerVars, ReaderInv, ReaderSessions, StreamInv, InCall
<1>2. op = (IF eof THEN "Finish" ELSE "Process") /\ Len(input) = Len(buffered) /\ ~Answered
  BY <1>1 DEF ReaderInv, ReaderSessions, Answered
<1>3. ReaderTypes'
  BY <1>1 DEF ReaderInv, ReaderTypes
<1>4. ReaderSessions'
  BY <1>1, <1>2 DEF ReaderInv, ReaderSessions, Answered, InsideCall, Success
<1>5. Accounted'
  <2> SUFFICES ASSUME phase' # "Failed"
               PROVE  pos' = (taken - Len(buffered)) + (IF Answered' THEN consumed' ELSE 0)
    BY <1>1 DEF ReaderInv, Accounted
  <2>1. pos = (taken - Len(buffered)) + 0 /\ taken \in Nat /\ Len(buffered) \in Nat
    <3>1. buffered \in Seq(Nat)
      BY DEF AdapterTypes
    <3> QED
      BY <1>1, <1>2, <3>1 DEF ReaderInv, Accounted, StreamInv, InCall, AdapterTypes
  <2>2. pos = taken - Len(buffered)
    BY <2>1
  <2>3. CASE pc' # "idle"
    BY <2>1, <2>3 DEF InsideCall, Answered
  <2>4. CASE pc' = "idle"
    BY <2>2, <2>4 DEF InsideCall, Answered
  <2> QED
    BY <2>3, <2>4
<1>6. HandedOut'
  <2>1. phase' # "Failed" => InOrder(got, session) /\ Len(got) = rbase /\ rbase <= Len(delivered)
    BY <1>1 DEF ReaderInv, HandedOut, StreamInv, InCall
  <2>2. Len(delivered) \in Nat /\ Len(delivered') \in Nat /\ rbase \in Nat
    <3>1. delivered \in Seq(Units) /\ delivered' \in Seq(Units)
      BY DEF StreamInv, StreamTypes, DataTypes
    <3> QED
      BY <3>1 DEF ReaderInv, ReaderTypes
  <2>3. phase' # "Failed" => rbase <= Len(delivered')
    BY <2>1, <2>2 DEF InsideCall
  <2>4. phase' # "Failed" /\ pc' = "idle" => Answered'
    BY DEF InsideCall, Answered
  <2>5. InOrder(got, session)' <=> InOrder(got, session)
    BY <1>1 DEF InOrder
  <2> QED
    BY <1>1, <2>1, <2>3, <2>4, <2>5 DEF HandedOut
<1>7. EndHolds'
  <2>1. phase' = "Finished" => eof
    BY <1>2 DEF InsideCall, ReaderInv, EndHolds
  <2>2. ~finished
    BY <1>1 DEF ReaderInv, EndHolds
  <2> QED
    BY <1>1, <2>1, <2>2 DEF EndHolds
<1> QED
  BY <1>3, <1>4, <1>5, <1>6, <1>7 DEF ReaderInv

(* The reader's session begins. *)
LEMMA ReaderOpens ==
  ASSUME StreamInv, ReaderInv, Begin, UNCHANGED readerVars
  PROVE  ReaderInv'
<1>1. /\ UNCHANGED <<rpc, buffered, eof, finished, want, rbase, rret, taken, got>>
      /\ open' = "open" /\ active' = TRUE /\ phase' = "Open" /\ status' = "none" /\ pos' = 0 /\ delivered' = <<>> /\ pc' = pc
  BY DEF Begin, Fresh, readerVars
<1>2. /\ rpc = "idle" /\ ~eof /\ ~finished /\ want = 0 /\ got = <<>> /\ buffered = <<>> /\ taken = 0 /\ pc = "idle"
  BY DEF Begin, ReaderInv, ReaderSessions
<1>3. ReaderTypes'
  BY <1>1 DEF ReaderInv, ReaderTypes
<1>4. ReaderSessions' /\ EndHolds'
  BY <1>1, <1>2 DEF ReaderSessions, EndHolds, Success
<1>5. Accounted' /\ HandedOut'
  <2>1. Len(<<>>) = 0 /\ (0 - 0) + 0 = 0
    OBVIOUS
  <2>2. ~Answered'
    BY <1>1 DEF Answered, Success
  <2>3. Accounted'
    <3>1. Len(buffered') = 0 /\ taken' = 0 /\ pos' = 0 /\ ~eof'
      BY <1>1, <1>2, <2>1
    <3>2. \A i \in 1 .. Len(buffered') : buffered'[i] = (taken' - Len(buffered')) + i
      BY <3>1
    <3>3. pos' = (taken' - Len(buffered')) + 0
      BY <3>1, <2>1, Zenon
    <3>4. Len(buffered') <= taken'
      BY <3>1
    <3> QED
      BY <2>2, <3>1, <3>2, <3>3, <3>4, Zenon DEF Accounted
  <2>4. HandedOut'
    BY <1>1, <1>2, <2>1 DEF HandedOut, InOrder
  <2> QED
    BY <2>3, <2>4
<1> QED
  BY <1>3, <1>4, <1>5 DEF ReaderInv

(* The reader calls the session. *)
LEMMA ReaderCalls ==
  ASSUME StreamInv, StreamInv', AdapterTypes, ReaderInv, Process
  PROVE  ReaderInv'
<1> DEFINE n == Len(buffered)
           o == IF eof THEN "Finish" ELSE "Process"
<1>1. /\ rpc = "process" /\ rpc' = "wait" /\ rbase' = Len(delivered)
      /\ UNCHANGED <<buffered, eof, finished, want, rret, taken, got>>
      /\ CallOf3(n, want, o)
  BY DEF Process, CallOf3
<1>2. n \in Nat /\ want \in Nat /\ o \in Operations /\ buffered \in Seq(Nat)
  BY DEF AdapterTypes, Operations
<1> HIDE DEF o
<1>3. Calls(n, o)
  BY <1>1, <1>2, CallsAreMade
<1>4. /\ open' = "open" /\ active' = active /\ session' = session /\ pos' = pos /\ delivered' = delivered /\ open = "open"
      /\ (phase' = "Failed" \/ phase' = phase) /\ (phase' # "Failed" => phase # "Failed") /\ status' \notin Success
      /\ status' # "zero" /\ ~Answered' /\ (pc' # "idle" => op' = o /\ input' = [i \in 1 .. n |-> pos + i])
  BY <1>3 DEF Calls, Answered, Success
<1>5. pc' # "idle" => Len(input') = n
  BY <1>2, <1>4
<1>6. delivered \in Seq(Units) /\ Len(delivered) \in Nat
  BY DEF StreamInv, StreamTypes, DataTypes
<1>7. ReaderTypes'
  BY <1>1, <1>6 DEF ReaderInv, ReaderTypes
<1>8. ReaderSessions'
  BY <1>1, <1>4, <1>5 DEF ReaderInv, ReaderSessions, o
<1>9. Accounted'
  BY <1>1, <1>4 DEF ReaderInv, Accounted
<1>10. HandedOut'
  <2> SUFFICES ASSUME phase' # "Failed" PROVE InOrder(got, session) /\ Len(got) = Len(delivered)
    BY <1>1, <1>4, <1>6 DEF HandedOut, InOrder
  <2> QED
    BY <1>1, <1>4 DEF ReaderInv, HandedOut
<1>11. EndHolds'
  BY <1>1, <1>4 DEF ReaderInv, EndHolds
<1> QED
  BY <1>7, <1>8, <1>9, <1>10, <1>11 DEF ReaderInv

(* read() begins, the source answers or fails: the session rests. *)
LEMMA ReaderFills ==
  ASSUME StreamInv, AdapterTypes, ReaderInv, ReaderCall \/ SourceReads \/ SourceFails \/ NoFill
  PROVE  ReaderInv'
<1>1. SessionRests /\ UNCHANGED <<rbase, got, finished>> /\ open = "open" /\ rpc \in {"idle", "loop"}
      /\ rpc' \in {"idle", "loop", "process"}
  BY SessionAtRest DEF ReaderCall, Read, SourceReads, SourceFails, NoFill, ReaderDone, ReaderInv, ReaderSessions
<1>2. \/ UNCHANGED <<buffered, eof, taken>>
      \/ /\ buffered = <<>> /\ ~eof /\ rpc' = "process"
         /\ \E k \in Nat : buffered' = [i \in 1 .. k |-> taken + i] /\ taken' = taken + k /\ eof' = (k = 0)
  <2>1. CASE SourceReads
    <3>1. PICK k \in 0 .. Least(Fill, MaxInput - taken) :
            buffered' = [i \in 1 .. k |-> taken + i] /\ taken' = taken + k /\ eof' = (k = 0)
      BY <2>1 DEF SourceReads
    <3>2. k \in Nat
      BY CallLengths, FillAssumption DEF Least, AdapterTypes
    <3> QED
      BY <2>1, <3>1, <3>2 DEF SourceReads, NeedsFill
  <2>2. CASE ~SourceReads
    BY <2>2 DEF ReaderCall, Read, SourceFails, NoFill
  <2> QED
    BY <2>1, <2>2
<1>3. rpc' = "idle" /\ rret' = "zero" /\ want' # 0 => finished
  BY <1>1 DEF ReaderCall, Read, SourceReads, SourceFails, NoFill, ReaderDone, ReaderInv, EndHolds
<1>4. finished => rpc = "idle" /\ rpc' = "idle" /\ UNCHANGED <<buffered, eof, taken>>
  BY <1>1 DEF ReaderCall, Read, SourceReads, SourceFails, NoFill, ReaderDone, ReaderInv, EndHolds
<1>5. ReaderTypes'
  BY <1>1, <1>2 DEF ReaderInv, ReaderTypes
<1>6. ReaderSessions'
  BY <1>1 DEF ReaderInv, ReaderSessions, SessionRests, Answered
<1>7. HandedOut'
  BY <1>1 DEF ReaderInv, HandedOut, SessionRests, InOrder
<1>8. Accounted'
  <2>1. CASE UNCHANGED <<buffered, eof, taken>>
    BY <1>1, <2>1 DEF ReaderInv, Accounted, SessionRests
  <2>2. CASE buffered = <<>> /\ \E k \in Nat : buffered' = [i \in 1 .. k |-> taken + i] /\ taken' = taken + k /\ eof' = (k = 0)
    <3>1. PICK k \in Nat : buffered' = [i \in 1 .. k |-> taken + i] /\ taken' = taken + k /\ eof' = (k = 0)
      BY <2>2
    <3>2. taken \in Nat
      BY DEF AdapterTypes
    <3>3. Len(buffered') = k /\ \A i \in 1 .. k : buffered'[i] = taken + i
      BY <3>1
    <3>4. Len(buffered') <= taken' /\ taken' - Len(buffered') = taken
      BY <3>1, <3>2, <3>3
    <3>5. phase # "Failed" => pos = taken
      <4>1. Len(<<>>) = 0
        OBVIOUS
      <4>2. phase # "Failed" => pos = (taken - 0) + 0
        BY <1>1, <2>2, <4>1 DEF ReaderInv, Accounted
      <4> QED
        BY <3>2, <4>2
    <3>6. eof' => buffered' = <<>>
      <4>1. \A s \in Seq(Nat) : Len(s) = 0 => s = <<>>
        OBVIOUS
      <4>2. buffered' \in Seq(Nat)
        BY <3>1, <3>2
      <4> QED
        BY <3>1, <3>3, <4>1, <4>2
    <3>7. \A i \in 1 .. Len(buffered') : buffered'[i] = (taken' - Len(buffered')) + i
      BY <3>3, <3>4
    <3>8. phase' # "Failed" => pos' = (taken' - Len(buffered')) + 0
      BY <1>1, <3>2, <3>4, <3>5 DEF SessionRests
    <3> QED
      BY <1>1, <3>4, <3>6, <3>7, <3>8 DEF Accounted
  <2> QED
    BY <1>2, <2>1, <2>2
<1>9. EndHolds'
  BY <1>1, <1>2, <1>3, <1>4 DEF ReaderInv, EndHolds, SessionRests
<1> QED
  BY <1>5, <1>6, <1>7, <1>8, <1>9 DEF ReaderInv

(* The session came back: its output is the caller's. *)
LEMMA ReaderIsServed ==
  ASSUME StreamInv, AdapterTypes, ReaderInv, Processed
  PROVE  ReaderInv'
<1> DEFINE produced == SubSeq(delivered, rbase + 1, Len(delivered))
<1>1. rpc = "wait" /\ pc = "idle" /\ SessionRests /\ UNCHANGED <<eof, want, rbase, taken>> /\ open = "open" /\ active
  BY SessionAtRest DEF Processed, ReaderInv, ReaderSessions
<1>2. CASE ~Answered
  <2>1. rpc' = "idle" /\ rret' = status /\ UNCHANGED <<buffered, finished, got>>
    BY <1>1, <1>2 DEF Processed, Answered, Success, ReaderDone
  <2>2. ReaderTypes' /\ ReaderSessions' /\ Accounted' /\ HandedOut' /\ EndHolds'
    BY <1>1, <1>2, <2>1 DEF ReaderInv, ReaderTypes, ReaderSessions, Accounted, HandedOut, EndHolds, SessionRests, InOrder, Answered
  <2> QED
    BY <2>2 DEF ReaderInv
<1>3. CASE Answered
  <2>1. /\ buffered' = SubSeq(buffered, consumed + 1, Len(buffered))
        /\ finished' = (finished \/ status = "Finished")
        /\ \/ produced # <<>> /\ rpc' = "idle" /\ rret' = "some" /\ got' = got \o produced
           \/ produced = <<>> /\ got' = got /\ finished' /\ rpc' = "idle" /\ rret' = "zero"
           \/ produced = <<>> /\ got' = got /\ ~finished' /\ rpc' = "loop" /\ rret' = rret
    BY <1>1, <1>3 DEF Processed, Answered, Success, ReaderDone
  <2>2. /\ phase # "Failed" /\ InOrder(got, session) /\ Len(got) = rbase /\ rbase <= Len(delivered)
        /\ Len(input) = Len(buffered) /\ ~finished
    BY <1>1, <1>3 DEF Answered, ReaderInv, ReaderSessions, HandedOut, EndHolds
  <2>3. /\ delivered \in Seq(Units) /\ Len(delivered) \in Nat /\ rbase \in Nat /\ got \in Seq(Units) /\ session \in Nat
        /\ buffered \in Seq(Nat) /\ Len(buffered) \in Nat /\ taken \in Nat /\ consumed \in 0 .. Len(buffered) /\ consumed \in Nat
    BY <2>2 DEF StreamInv, StreamTypes, DataTypes, ReaderInv, ReaderTypes, AdapterTypes
  <2>4. /\ produced \in Seq(Units)
        /\ Len(produced) = IF rbase <= Len(delivered) THEN Len(delivered) - rbase ELSE 0
        /\ \A i \in 1 .. Len(delivered) - rbase : produced[i] = delivered[rbase + i]
    BY <2>3, PartOfSeq
  <2> HIDE DEF produced
  <2>5. got' \in Seq(Units) /\ Len(got') = Len(delivered) /\ InOrder(got', session)
    <3>1. CASE produced = <<>>
      <4>1. Len(<<>>) = 0
        OBVIOUS
      <4>2. Len(delivered) - rbase = 0 /\ got' = got
        BY <2>1, <2>2, <2>3, <2>4, <3>1, <4>1
      <4>3. rbase = Len(delivered)
        BY <2>3, <4>2
      <4> QED
        BY <2>2, <2>3, <4>2, <4>3
    <3>2. CASE produced # <<>>
      <4>1. got' = got \o produced
        BY <2>1, <3>2
      <4>2. /\ got \o produced \in Seq(Units) /\ Len(got \o produced) = Len(got) + Len(produced)
            /\ \A i \in 1 .. Len(got) : (got \o produced)[i] = got[i]
            /\ \A i \in 1 .. Len(produced) : (got \o produced)[Len(got) + i] = produced[i]
        <5>1. got \in Seq(Units) /\ produced \in Seq(Units)
          BY <2>3, <2>4
        <5> QED
          BY <5>1, JoinedSeq
      <4> DEFINE g == got \o produced
      <4>3. g \in Seq(Units) /\ Len(g) = Len(delivered)
        BY <2>2, <2>3, <2>4, <4>2
      <4>4. \A n \in 1 .. Len(delivered) : delivered[n] = <<session, n>>
        BY <1>1 DEF StreamInv, Queued
      <4> HIDE DEF g
      <4>5. ASSUME NEW n \in 1 .. Len(g) PROVE g[n] = <<session, n>>
        <5>1. CASE n <= rbase
          <6>1. n \in 1 .. Len(got) /\ g[n] = got[n]
            BY <2>2, <2>3, <4>2, <5>1 DEF g
          <6> QED
            BY <2>2, <6>1 DEF InOrder
        <5>2. CASE ~ n <= rbase
          <6> DEFINE i == n - rbase
          <6>1. i \in 1 .. Len(delivered) - rbase /\ rbase + i = n /\ i \in 1 .. Len(produced) /\ n \in 1 .. Len(delivered)
            BY <2>2, <2>3, <2>4, <4>3, <5>2
          <6>2. g[n] = produced[i]
            BY <2>2, <4>2, <6>1 DEF g
          <6>3. produced[i] = delivered[n]
            BY <2>4, <6>1
          <6> QED
            BY <4>4, <6>1, <6>2, <6>3
        <5> QED
          BY <5>1, <5>2
      <4>6. InOrder(g, session)
        BY <4>5 DEF InOrder
      <4>7. got' = g
        BY <4>1 DEF g
      <4> QED
        BY <4>3, <4>6, <4>7 DEF InOrder
    <3> QED
      BY <3>1, <3>2
  <2>6. /\ buffered' \in Seq(Nat) /\ Len(buffered') = Len(buffered) - consumed
        /\ \A i \in 1 .. Len(buffered) - consumed : buffered'[i] = buffered[consumed + i]
    <3>1. /\ SubSeq(buffered, consumed + 1, Len(buffered)) \in Seq(Nat)
          /\ Len(SubSeq(buffered, consumed + 1, Len(buffered)))
               = IF consumed <= Len(buffered) THEN Len(buffered) - consumed ELSE 0
          /\ \A i \in 1 .. Len(buffered) - consumed : SubSeq(buffered, consumed + 1, Len(buffered))[i] = buffered[consumed + i]
      BY <2>3, PartOfSeq
    <3> QED
      BY <2>1, <2>3, <3>1
  <2>7. ReaderTypes'
    <3>1. finished' \in BOOLEAN
      BY <2>1, <2>2
    <3>2. rpc' \in {"idle", "loop", "process", "wait"}
      BY <2>1
    <3> QED
      BY <1>1, <2>5, <3>1, <3>2 DEF ReaderInv, ReaderTypes
  <2>8. ReaderSessions'
    BY <1>1, <2>1 DEF ReaderInv, ReaderSessions, SessionRests, Answered
  <2>9. Accounted'
    <3>1. /\ Len(buffered) <= taken
          /\ \A i \in 1 .. Len(buffered) : buffered[i] = (taken - Len(buffered)) + i
          /\ pos = (taken - Len(buffered)) + consumed
          /\ (eof => buffered = <<>>)
      BY <1>1, <1>3, <2>2 DEF ReaderInv, Accounted
    <3>2. Len(buffered') <= taken /\ pos = taken - Len(buffered')
      BY <2>3, <2>6, <3>1
    <3>3. ASSUME NEW i \in 1 .. Len(buffered') PROVE buffered'[i] = (taken - Len(buffered')) + i
      <4>1. i \in 1 .. Len(buffered) - consumed /\ consumed + i \in 1 .. Len(buffered)
        BY <2>3, <2>6
      <4>2. buffered'[i] = (taken - Len(buffered)) + (consumed + i)
        BY <2>6, <3>1, <4>1
      <4>3. \A t, l, c, j \in Int : (t - l) + (c + j) = (t - (l - c)) + j
        OBVIOUS
      <4>4. i \in Int /\ taken \in Int /\ Len(buffered) \in Int /\ consumed \in Int /\ Len(buffered') = Len(buffered) - consumed
        <5>1. i \in Int
          BY <4>1
        <5>2. taken \in Int /\ consumed \in Int
          BY <2>3
        <5>3. Len(buffered) \in Int
          BY <2>3
        <5>4. Len(buffered') = Len(buffered) - consumed
          BY <2>6, Zenon
        <5> QED
          BY <5>1, <5>2, <5>3, <5>4
      <4>5. (taken - Len(buffered)) + (consumed + i) = (taken - (Len(buffered) - consumed)) + i
        BY <4>3, <4>4
      <4> QED
        BY <4>2, <4>4, <4>5, Zenon
    <3>4. eof => buffered' = <<>>
      <4> SUFFICES ASSUME eof PROVE buffered' = <<>>
        OBVIOUS
      <4>1. Len(buffered) = 0
        BY <3>1
      <4>2. Len(buffered') = Len(buffered) - consumed /\ buffered' \in Seq(Nat)
        BY <2>6, Zenon
      <4>3. consumed \in Nat /\ consumed <= Len(buffered)
        BY <2>3
      <4>4. consumed = 0
        BY <4>1, <4>3
      <4>5. Len(buffered') = 0 - 0
        BY <4>1, <4>2, <4>4
      <4> QED
        BY <4>2, <4>5
    <3>5. pos = (taken - Len(buffered')) + 0
      BY <2>3, <2>6, <3>2
    <3> QED
      BY <1>1, <2>1, <3>2, <3>3, <3>4, <3>5 DEF Accounted, SessionRests
  <2>10. HandedOut'
    BY <1>1, <2>1, <2>5 DEF HandedOut, SessionRests, InOrder
  <2>11. EndHolds'
    <3>1. finished' => phase = "Finished" /\ pending = <<>> /\ rpc' = "idle"
      <4> SUFFICES ASSUME finished' PROVE phase = "Finished" /\ pending = <<>> /\ rpc' = "idle"
        OBVIOUS
      <4>1. status = "Finished"
        BY <2>1, <2>2
      <4>2. pending = <<>> /\ blocks # <<>> /\ blocks[Len(blocks)].op = "Finish"
        BY <1>1, <4>1 DEF StreamInv, AnswersAreTrue, PromiseKept
      <4>3. blocks \in Seq(Coded)
        BY DEF StreamInv, StreamTypes, DataTypes
      <4>4. Len(blocks) \in 1 .. Len(blocks)
        BY <4>2, <4>3
      <4>5. phase \in {"Finished", "Failed"}
        BY <4>2, <4>4 DEF StreamInv, Finishes
      <4> QED
        BY <2>1, <2>2, <4>2, <4>5
    <3> QED
      BY <1>1, <2>1, <2>2, <3>1 DEF ReaderInv, EndHolds, SessionRests
  <2> QED
    BY <2>7, <2>8, <2>9, <2>10, <2>11 DEF ReaderInv
<1> QED
  BY <1>2, <1>3


-----------------------------------------------------------------------------
(* Every step keeps what the adapters keep. *)
LEMMA AdaptersKeep ==
  ASSUME StreamInv, StreamInv', AdapterTypes, AdapterInv, [Next]_vars
  PROVE  AdapterInv'
<1>1. role' = role
  BY DEF Next, Open, Scheduler, SchedulerFails, WriterIsCalled, WriterIsRun, ReaderIsCalled, ReaderIsRun, CallerAlone, vars
<1>2. CASE role = "writer"
  <2>1. WriterInv
    BY <1>2 DEF AdapterInv
  <2>2. WriterInv'
    <3>1. CASE Open
      BY <2>1, <3>1, WriterOpens DEF Open, adapterVars
    <3>2. CASE Scheduler \/ SchedulerFails
      <4>1. InsideCall /\ UNCHANGED writerVars
        BY <3>2, SchedulerSteps DEF Scheduler, SchedulerFails, adapterVars
      <4> QED
        BY <2>1, <4>1, WriterWaits
    <3>3. CASE WriterIsCalled
      BY <2>1, <3>3, WriterIsAsked DEF WriterIsCalled
    <3>4. CASE WriterIsRun
      <4>1. WriterRuns
        BY <3>4 DEF WriterIsRun
      <4> QED
        BY <2>1, <4>1, WriterShips, WriterIsLetDown, WriterGoesOn, WriterSyncs, WriterPumps, WriterIsServed DEF WriterRuns
    <3>5. CASE UNCHANGED vars
      <4>1. SessionRests /\ UNCHANGED <<wpc, wstate, outbox, wbase, writing, wret, acked, sink, synced>>
        BY <3>5, SessionAtRest DEF vars, writerVars
      <4>2. WriterTypes' /\ WriterSessions' /\ Acknowledged' /\ FlushHolds' /\ FinishHolds'
        BY <2>1, <4>1 DEF WriterInv, WriterTypes, WriterSessions, Acknowledged, FlushHolds, FinishHolds, SessionRests, Answered, Asked
      <4>3. Shipped'
        BY <2>1, <4>1 DEF WriterInv, Shipped, SessionRests, Answered, InOrder, ToFollow
      <4> QED
        BY <4>2, <4>3 DEF WriterInv
    <3> QED
      BY <1>2, <3>1, <3>2, <3>3, <3>4, <3>5 DEF Next, ReaderIsCalled, ReaderIsRun, CallerAlone
  <2> QED
    BY <1>1, <1>2, <2>2 DEF AdapterInv
<1>3. CASE role = "reader"
  <2>1. ReaderInv
    BY <1>3 DEF AdapterInv
  <2>2. ReaderInv'
    <3>1. CASE Open
      BY <2>1, <3>1, ReaderOpens DEF Open, adapterVars
    <3>2. CASE Scheduler \/ SchedulerFails
      <4>1. InsideCall /\ UNCHANGED readerVars
        BY <3>2, SchedulerSteps DEF Scheduler, SchedulerFails, adapterVars
      <4> QED
        BY <2>1, <4>1, ReaderWaits
    <3>3. CASE ReaderIsCalled
      BY <2>1, <3>3, ReaderFills DEF ReaderIsCalled
    <3>4. CASE ReaderIsRun
      <4>1. ReaderRuns
        BY <3>4 DEF ReaderIsRun
      <4> QED
        BY <2>1, <4>1, ReaderFills, ReaderCalls, ReaderIsServed DEF ReaderRuns
    <3>5. CASE UNCHANGED vars
      <4>1. SessionRests /\ UNCHANGED <<rpc, buffered, eof, finished, want, rbase, rret, taken, got>>
        BY <3>5, SessionAtRest DEF vars, readerVars
      <4>2. ReaderTypes' /\ ReaderSessions' /\ Accounted' /\ EndHolds'
        BY <2>1, <4>1 DEF ReaderInv, ReaderTypes, ReaderSessions, Accounted, EndHolds, SessionRests, Answered
      <4>3. HandedOut'
        BY <2>1, <4>1 DEF ReaderInv, HandedOut, SessionRests, Answered, InOrder
      <4> QED
        BY <4>2, <4>3 DEF ReaderInv
    <3> QED
      BY <1>3, <3>1, <3>2, <3>3, <3>4, <3>5 DEF Next, WriterIsCalled, WriterIsRun, CallerAlone
  <2> QED
    BY <1>1, <1>3, <2>2 DEF AdapterInv
<1>4. CASE role \notin {"writer", "reader"}
  BY <1>1, <1>4 DEF AdapterInv
<1> QED
  BY <1>2, <1>3, <1>4

LEMMA AdaptersStart == Init => AdapterInv
<1> SUFFICES ASSUME Init PROVE WriterInv /\ ReaderInv
  BY DEF AdapterInv
<1>1. Len(<<>>) = 0 /\ (0 - 0) + 0 = 0
  OBVIOUS
<1>2. WriterTypes /\ ReaderTypes
  <2>1. <<>> \in Seq(Units)
    OBVIOUS
  <2>2. WriterTypes
    BY <2>1 DEF Init, WriterInit, WriterTypes, WriterPlaces
  <2>3. eof \in BOOLEAN /\ finished \in BOOLEAN
    BY Zenon DEF Init, ReaderInit
  <2>4. rpc \in {"idle", "loop", "process", "wait"} /\ got \in Seq(Units) /\ rbase \in Nat
    BY <2>1 DEF Init, ReaderInit
  <2> QED
    BY <2>2, <2>3, <2>4 DEF ReaderTypes
<1>3. WriterSessions /\ Acknowledged /\ FlushHolds /\ FinishHolds
  BY DEF Init, StreamInit, WriterInit, WriterSessions, Acknowledged, FlushHolds, FinishHolds, Success, Waits
<1>4. Shipped
  BY <1>1 DEF Init, StreamInit, WriterInit, Shipped, InOrder, ToFollow, Waits
<1>5. ReaderSessions /\ EndHolds
  BY DEF Init, StreamInit, ReaderInit, ReaderSessions, EndHolds, Success
<1>6. Accounted /\ HandedOut
  <2>1. Len(buffered) = 0 /\ taken = 0 /\ pos = 0 /\ ~eof /\ rpc = "idle"
    BY <1>1 DEF Init, StreamInit, ReaderInit
  <2>2. \A i \in 1 .. Len(buffered) : buffered[i] = (taken - Len(buffered)) + i
    BY <2>1
  <2>3. pos = (taken - Len(buffered)) + 0
    BY <2>1, <1>1, Zenon
  <2>4. Len(buffered) <= taken
    BY <2>1
  <2>5. Accounted
    BY <2>1, <2>2, <2>3, <2>4 DEF Accounted
  <2>6. HandedOut
    BY <1>1 DEF Init, StreamInit, ReaderInit, HandedOut, InOrder
  <2> QED
    BY <2>5, <2>6
<1> QED
  BY <1>2, <1>3, <1>4, <1>5, <1>6 DEF WriterInv, ReaderInv

(* What a writer promises. *)
LEMMA WriterPromise ==
  ASSUME StreamInv, WriterInv
  PROVE  SinkGetsTheStream /\ AckedIsAccepted /\ FlushReachesTheSink /\ FinishedIsWhole
<1>1. SinkGetsTheStream
  <2> SUFFICES ASSUME phase # "Failed", wpc \notin Waits PROVE sink \o outbox = delivered
    BY DEF SinkGetsTheStream, Waits
  <2>1. /\ InOrder(sink, session) /\ ToFollow(outbox, 0, session, Len(sink)) /\ Len(sink) + Len(outbox) = Len(delivered)
    BY DEF WriterInv, Shipped
  <2>2. sink \in Seq(Units) /\ outbox \in Seq(Units) /\ delivered \in Seq(Units)
    BY DEF WriterInv, WriterTypes, StreamInv, StreamTypes, DataTypes
  <2>3. Len(sink) \in Nat /\ Len(outbox) \in Nat
    BY <2>2
  <2>4. CASE open = "closed"
    <3>1. sink = <<>> /\ outbox = <<>> /\ delivered = <<>>
      BY <2>4 DEF WriterInv, WriterSessions
    <3> QED
      BY <3>1
  <2>5. CASE open = "open"
    <3> DEFINE E == sink \o outbox
    <3>1. /\ E \in Seq(Units) /\ Len(E) = Len(sink) + Len(outbox)
          /\ \A i \in 1 .. Len(sink) : E[i] = sink[i]
          /\ \A i \in 1 .. Len(outbox) : E[Len(sink) + i] = outbox[i]
      BY <2>2, JoinedSeq
    <3> HIDE DEF E
    <3>2. \A n \in 1 .. Len(delivered) : delivered[n] = <<session, n>>
      BY <2>5 DEF WriterInv, WriterSessions, StreamInv, Queued
    <3>3. ASSUME NEW n \in 1 .. Len(E) PROVE E[n] = delivered[n]
      <4>1. n \in 1 .. Len(delivered) /\ delivered[n] = <<session, n>>
        BY <2>1, <3>1, <3>2
      <4>2. CASE n <= Len(sink)
        <5>1. n \in 1 .. Len(sink)
          BY <2>3, <3>1, <4>2
        <5> QED
          BY <2>1, <3>1, <4>1, <5>1 DEF InOrder
      <4>3. CASE ~ n <= Len(sink)
        <5> DEFINE i == n - Len(sink)
        <5>1. i \in 1 .. Len(outbox) /\ i \in 0 + 1 .. Len(outbox) /\ Len(sink) + i = n /\ i - 0 = i
          BY <2>3, <3>1, <4>3
        <5> HIDE DEF i
        <5>2. E[n] = outbox[i]
          BY <3>1, <5>1
        <5>3. outbox[i] = <<session, Len(sink) + (i - 0)>>
          BY <2>1, <5>1 DEF ToFollow
        <5> QED
          BY <4>1, <5>1, <5>2, <5>3
      <4> QED
        BY <4>2, <4>3
    <3>4. Len(E) = Len(delivered)
      BY <2>1, <3>1
    <3>5. E = delivered
      BY <2>2, <3>1, <3>3, <3>4
    <3> QED
      BY <3>5 DEF E
  <2> QED
    BY <2>4, <2>5 DEF WriterInv, WriterSessions
<1>2. AckedIsAccepted
  <2> SUFFICES ASSUME wpc = "idle", phase # "Failed" PROVE acked = pos
    BY DEF AckedIsAccepted
  <2>1. pos = acked + 0 /\ acked \in Nat
    BY DEF WriterInv, WriterTypes, Acknowledged
  <2> QED
    BY <2>1
<1>3. FlushReachesTheSink
  BY DEF WriterInv, FlushHolds, FlushReachesTheSink
<1>4. FinishedIsWhole
  <2> SUFFICES ASSUME wstate = "Finished" PROVE FinishedIsWhole
    BY DEF FinishedIsWhole
  <2>1. phase = "Finished" /\ Len(sink) = emitted /\ synced = emitted
    BY DEF WriterInv, FinishHolds
  <2>2. open = "open" /\ active
    BY <2>1 DEF WriterInv, WriterSessions
  <2> QED
    BY <2>1, <2>2 DEF FinishedIsWhole, StreamInv, Settled
<1> QED
  BY <1>1, <1>2, <1>3, <1>4

(* What a reader promises. *)
LEMMA ReaderPromise ==
  ASSUME StreamInv, AdapterTypes, ReaderInv
  PROVE  SourceIsAccountedFor /\ ReaderGetsTheStream /\ ZeroIsTheEnd
<1>1. SourceIsAccountedFor
  <2> SUFFICES ASSUME rpc # "wait", phase # "Failed" PROVE buffered = [i \in 1 .. taken - pos |-> pos + i]
    BY DEF SourceIsAccountedFor
  <2>1. buffered \in Seq(Nat) /\ taken \in Nat
    BY DEF AdapterTypes
  <2>2. Len(buffered) \in Nat
    BY <2>1
  <2>3. /\ pos = (taken - Len(buffered)) + 0
        /\ \A i \in 1 .. Len(buffered) : buffered[i] = (taken - Len(buffered)) + i
    BY DEF ReaderInv, Accounted
  <2>4. taken - pos = Len(buffered) /\ taken - Len(buffered) = pos
    BY <2>1, <2>2, <2>3
  <2>5. buffered = [i \in 1 .. Len(buffered) |-> pos + i]
    BY <2>1, <2>3, <2>4
  <2> QED
    BY <2>4, <2>5
<1>2. ReaderGetsTheStream
  <2> SUFFICES ASSUME rpc # "wait", phase # "Failed" PROVE got = delivered
    BY DEF ReaderGetsTheStream
  <2>1. InOrder(got, session) /\ Len(got) = Len(delivered)
    BY DEF ReaderInv, HandedOut
  <2>2. got \in Seq(Units) /\ delivered \in Seq(Units)
    BY DEF ReaderInv, ReaderTypes, StreamInv, StreamTypes, DataTypes
  <2>3. CASE open = "closed"
    BY <2>3 DEF ReaderInv, ReaderSessions
  <2>4. CASE open = "open"
    <3>1. \A n \in 1 .. Len(delivered) : delivered[n] = <<session, n>>
      BY <2>4 DEF ReaderInv, ReaderSessions, StreamInv, Queued
    <3>2. \A n \in 1 .. Len(got) : got[n] = delivered[n]
      BY <2>1, <3>1 DEF InOrder
    <3> QED
      BY <2>1, <2>2, <3>2
  <2> QED
    BY <2>3, <2>4 DEF ReaderInv, ReaderSessions
<1>3. ZeroIsTheEnd
  <2> SUFFICES ASSUME rpc = "idle", rret = "zero", want # 0
               PROVE  /\ eof /\ buffered = <<>> /\ staging = <<>>
                      /\ blocks # <<>> /\ blocks[Len(blocks)].op = "Finish" /\ Len(got) = emitted
    BY DEF ZeroIsTheEnd
  <2>1. phase = "Finished" /\ pending = <<>> /\ eof /\ buffered = <<>>
    BY DEF ReaderInv, EndHolds, Accounted
  <2>2. open = "open" /\ active
    BY DEF ReaderInv, ReaderSessions
  <2>3. staging = <<>> /\ blocks # <<>> /\ blocks[Len(blocks)].op = "Finish"
    BY <2>1, <2>2 DEF StreamInv, Settled
  <2>4. Len(got) = Len(delivered)
    BY <2>1 DEF ReaderInv, HandedOut
  <2>5. Len(delivered) + (Len(pending) - served) = emitted
    BY <2>2 DEF StreamInv, Queued
  <2>6. delivered \in Seq(Units) /\ served \in 0 .. Len(pending) /\ Len(<<>>) = 0
    BY DEF StreamInv, StreamTypes, DataTypes
  <2>7. Len(delivered) \in Nat /\ Len(pending) - served = 0
    BY <2>1, <2>6
  <2> QED
    BY <2>1, <2>3, <2>4, <2>5, <2>7
<1> QED
  BY <1>1, <1>2, <1>3

(* A writer's sink gets the stream once and in order, write() reports what
   was taken, flush() and finish() are complete; a reader loses no byte of
   its source, hands the stream out once and in order, and zero is its end:
   through short reads and writes, failures and calls repeated after them. *)
THEOREM AdaptersAreFaithful == Spec => []AdaptersKeepTheirWord
<1> DEFINE Inv == StreamInv /\ AdapterTypes /\ AdapterInv
<1>1. Init => Inv
  <2>1. Init => StreamInv /\ AdapterTypes
    BY StreamStart DEF Init, WriterInit, ReaderInit, AdapterTypes
  <2> QED
    BY <2>1, AdaptersStart
<1>2. Inv /\ [Next]_vars => Inv'
  BY CallersStep, SessionKeeps, AdaptersKeep
<1>3. Inv => AdaptersKeepTheirWord
  BY WriterPromise, ReaderPromise DEF AdapterInv, AdaptersKeepTheirWord, WriterKeepsItsWord, ReaderKeepsItsWord
<1> QED
  BY <1>1, <1>2, <1>3, PTL DEF Spec

=============================================================================
