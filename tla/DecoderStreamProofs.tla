------------------------- MODULE DecoderStreamProofs -------------------------
(***************************************************************************)
(* The decoder's state machine, proved for every window, text, ring, code, *)
(* distance, prefix, slice and budget, for every mix of stages and fast    *)
(* loop and wherever calls stop: the cache of recent distances holds those *)
(* of the last four copies, the history holds every byte a reference may   *)
(* address, and the caller is given the text the format defines.           *)
(***************************************************************************)
EXTENDS DecoderHistoryProofs

-----------------------------------------------------------------------------
(* The cache by itself: what a push and a pop do to its four slots, for    *)
(* every state of the rotating index.                                      *)

Caches == [slots : [1 .. 4 -> Nat \ {0}], index : 0 .. 3]

(* The newest distance first. *)
Listed(c) == <<Recent(c, 0), Recent(c, 1), Recent(c, 2), Recent(c, 3)>>

(* The index turns. *)
LEMMA Turns ==
  ASSUME NEW k \in -4 .. 7
  PROVE  k % 4 = IF k < 0 THEN k + 4 ELSE IF k < 4 THEN k ELSE k - 4
<1>1. k < 0 => k % 4 = k + 4
  OBVIOUS
<1>2. 0 <= k /\ k < 4 => k % 4 = k
  OBVIOUS
<1>3. 4 <= k => k % 4 = k - 4
  OBVIOUS
<1> QED
  BY <1>1, <1>2, <1>3

LEMMA RecentIs ==
  ASSUME NEW c \in Caches
  PROVE  /\ c.index = 0 => Listed(c) = <<c.slots[4], c.slots[3], c.slots[2], c.slots[1]>>
         /\ c.index = 1 => Listed(c) = <<c.slots[1], c.slots[4], c.slots[3], c.slots[2]>>
         /\ c.index = 2 => Listed(c) = <<c.slots[2], c.slots[1], c.slots[4], c.slots[3]>>
         /\ c.index = 3 => Listed(c) = <<c.slots[3], c.slots[2], c.slots[1], c.slots[4]>>
<1>1. ASSUME NEW i \in 0 .. 3
      PROVE  Recent(c, i) = c.slots[IF c.index - 1 - i < 0 THEN c.index + 4 - i ELSE c.index - i]
  <2>1. c.index \in 0 .. 3 /\ c.index - 1 - i \in -4 .. 7
    BY DEF Caches
  <2>2. (c.index - 1 - i) % 4 = IF c.index - 1 - i < 0 THEN c.index - 1 - i + 4 ELSE c.index - 1 - i
    BY <2>1, Turns
  <2>3. ((c.index - 1 - i) % 4) + 1 = IF c.index - 1 - i < 0 THEN c.index + 4 - i ELSE c.index - i
    BY <2>1, <2>2
  <2> QED
    BY <2>3 DEF Recent
<1>2. ASSUME c.index = 0 PROVE Listed(c) = <<c.slots[4], c.slots[3], c.slots[2], c.slots[1]>>
  BY <1>1, <1>2 DEF Listed
<1>3. ASSUME c.index = 1 PROVE Listed(c) = <<c.slots[1], c.slots[4], c.slots[3], c.slots[2]>>
  BY <1>1, <1>3 DEF Listed
<1>4. ASSUME c.index = 2 PROVE Listed(c) = <<c.slots[2], c.slots[1], c.slots[4], c.slots[3]>>
  BY <1>1, <1>4 DEF Listed
<1>5. ASSUME c.index = 3 PROVE Listed(c) = <<c.slots[3], c.slots[2], c.slots[1], c.slots[4]>>
  BY <1>1, <1>5 DEF Listed
<1> QED
  BY <1>2, <1>3, <1>4, <1>5

LEMMA RecentTypes == ASSUME NEW c \in Caches, NEW i \in 0 .. 3 PROVE Recent(c, i) \in Nat \ {0}
<1>1. (c.index - 1 - i) % 4 \in 0 .. 3
  BY DEF Caches
<1> QED
  BY <1>1 DEF Recent, Caches

(* A push puts a distance in front and forgets the oldest. *)
LEMMA PushLists ==
  ASSUME NEW c \in Caches, NEW d \in Nat \ {0}
  PROVE  /\ Push(c, d) \in Caches
         /\ Listed(Push(c, d)) = <<d, Recent(c, 0), Recent(c, 1), Recent(c, 2)>>
<1>1. c.index \in {0, 1, 2, 3} /\ DOMAIN c.slots = 1 .. 4
  BY DEF Caches
<1>2. c.index % 4 = c.index /\ (c.index + 1) % 4 = IF c.index = 3 THEN 0 ELSE c.index + 1
  <2>1. c.index \in -4 .. 7 /\ c.index + 1 \in -4 .. 7
    BY <1>1
  <2> QED
    BY <1>1, <2>1, Turns
<1>3. Push(c, d) = [slots |-> [c.slots EXCEPT ![c.index + 1] = d], index |-> (c.index + 1) % 4]
  BY <1>1, <1>2 DEF Push
<1>4. Push(c, d) \in Caches
  BY <1>1, <1>2, <1>3 DEF Caches
<1>5. /\ Push(c, d).slots = [c.slots EXCEPT ![c.index + 1] = d]
      /\ Push(c, d).index = (c.index + 1) % 4
  BY <1>3
<1>6. Listed(c) = <<Recent(c, 0), Recent(c, 1), Recent(c, 2), Recent(c, 3)>>
  BY DEF Listed
<1>7. CASE c.index = 0
  BY <1>1, <1>2, <1>4, <1>5, <1>6, <1>7, RecentIs
<1>8. CASE c.index = 1
  BY <1>1, <1>2, <1>4, <1>5, <1>6, <1>8, RecentIs
<1>9. CASE c.index = 2
  BY <1>1, <1>2, <1>4, <1>5, <1>6, <1>9, RecentIs
<1>10. CASE c.index = 3
  BY <1>1, <1>2, <1>4, <1>5, <1>6, <1>10, RecentIs
<1> QED
  BY <1>1, <1>4, <1>7, <1>8, <1>9, <1>10

(* Popping the last distance and pushing it again is no change. *)
LEMMA PopPushes ==
  ASSUME NEW c \in Caches
  PROVE  Pop(c) \in Caches /\ Push(Pop(c), Recent(c, 0)) = c
<1>1. c.index \in {0, 1, 2, 3} /\ DOMAIN c.slots = 1 .. 4
  BY DEF Caches
<1> DEFINE j == (c.index - 1) % 4
<1>2. j = IF c.index = 0 THEN 3 ELSE c.index - 1
  <2>1. c.index - 1 \in -4 .. 7
    BY <1>1
  <2> QED
    BY <1>1, <2>1, Turns
<1>3. j \in 0 .. 3 /\ j % 4 = j /\ (j + 1) % 4 = c.index
  <2>1. j \in 0 .. 3
    BY <1>1, <1>2
  <2>2. j \in -4 .. 7 /\ j + 1 \in -4 .. 7
    BY <2>1
  <2>3. j % 4 = j /\ (j + 1) % 4 = IF j + 1 < 4 THEN j + 1 ELSE j + 1 - 4
    BY <2>1, <2>2, Turns
  <2> QED
    BY <1>1, <1>2, <2>1, <2>3
<1>4. Pop(c) = [slots |-> c.slots, index |-> j]
  BY DEF Pop, Caches
<1>5. Pop(c) \in Caches
  BY <1>3, <1>4 DEF Caches
<1>6. (c.index - 1 - 0) % 4 = j
  BY <1>1
<1>7. Recent(c, 0) = c.slots[j + 1]
  BY <1>6 DEF Recent
<1> HIDE DEF j
<1>8. Push(Pop(c), Recent(c, 0)) = [slots |-> [c.slots EXCEPT ![j + 1] = c.slots[j + 1]], index |-> c.index]
  BY <1>3, <1>4, <1>7 DEF Push
<1>9. [c.slots EXCEPT ![j + 1] = c.slots[j + 1]] = c.slots
  BY <1>1, <1>3 DEF Caches
<1>10. c = [slots |-> c.slots, index |-> c.index]
  BY DEF Caches
<1> QED
  BY <1>5, <1>8, <1>9, <1>10


-----------------------------------------------------------------------------
(* The invariant. *)

CacheInv ==
  /\ cache \in Caches /\ recents \in Seq(Int) /\ Len(recents) = 4
  /\ distance \in Int /\ code \in 0 .. 16
  /\ mode # "failed" => Listed(cache) = recents
  /\ stage = "Resolve" => distance > 0

(* What a step may do with the cache: nothing, or nothing that matters any
   more, or begin a stream, or take one copy as the format does. *)
Kept    == UNCHANGED <<cache, recents>> /\ (mode' = "failed" \/ mode # "failed")
Spoiled == mode' = "failed" /\ cache' \in Caches /\ recents' = recents
Begun   == cache' = CacheDefault /\ recents' = <<4, 11, 15, 16>>
Taken   ==
  /\ mode # "failed" /\ mode' = mode
  /\ \E d \in Nat \ {0}, c \in 0 .. 16 :
       /\ recents' = (IF c = 0 THEN recents ELSE <<d>> \o SubSeq(recents, 1, 3))
       /\ cache' = (IF c = 0 THEN cache ELSE Push(cache, d))

CacheStep == Kept \/ Spoiled \/ Begun \/ Taken

(* The symbol in hand. *)
SymbolStep == distance' \in Int /\ code' \in 0 .. 16 /\ (stage' = "Resolve" => distance' > 0)

LEMMA StartsListed == CacheDefault \in Caches /\ Listed(CacheDefault) = <<4, 11, 15, 16>>
<1>1. CacheDefault \in Caches
  BY DEF CacheDefault, Caches
<1>2. CacheDefault.index = 0 /\ CacheDefault.slots = <<16, 15, 11, 4>>
  BY DEF CacheDefault
<1> QED
  BY <1>1, <1>2, RecentIs

(* Four distances, one put in front of three of them. *)
LEMMA Fronted ==
  ASSUME NEW r \in Seq(Int), Len(r) = 4, NEW d \in Int
  PROVE  /\ <<d>> \o SubSeq(r, 1, 3) \in Seq(Int) /\ Len(<<d>> \o SubSeq(r, 1, 3)) = 4
         /\ <<d>> \o SubSeq(r, 1, 3) = <<d, r[1], r[2], r[3]>>
<1> DEFINE t == SubSeq(r, 1, 3)
           f == <<d>> \o t
           e == <<d, r[1], r[2], r[3]>>
<1>1. r[1] \in Int /\ r[2] \in Int /\ r[3] \in Int
  <2>1. 1 \in 1 .. Len(r) /\ 2 \in 1 .. Len(r) /\ 3 \in 1 .. Len(r)
    OBVIOUS
  <2> QED
    BY <2>1, ElementOfSeq
<1>2. \A i \in 1 .. 3 : r[i] \in Int
  BY <1>1
<1>3. /\ t \in Seq(Int) /\ Len(t) = IF 1 <= 3 THEN 3 - 1 + 1 ELSE 0
      /\ \A i \in 1 .. 3 - 1 + 1 : t[i] = r[1 + i - 1]
  <2>1. 1 \in Int /\ 3 \in Int /\ \A i \in 1 .. 3 : r[i] \in Int
    BY <1>2
  <2>2. /\ SubSeq(r, 1, 3) \in Seq(Int) /\ Len(SubSeq(r, 1, 3)) = IF 1 <= 3 THEN 3 - 1 + 1 ELSE 0
        /\ \A i \in 1 .. 3 - 1 + 1 : SubSeq(r, 1, 3)[i] = r[1 + i - 1]
    BY <2>1, SubSeqProperties
  <2> QED
    BY <2>2
<1> HIDE DEF t
<1>4. Len(t) = 3 /\ t[1] = r[1] /\ t[2] = r[2] /\ t[3] = r[3]
  BY <1>3
<1>5. <<d>> \in Seq(Int) /\ Len(<<d>>) = 1 /\ <<d>>[1] = d
  OBVIOUS
<1>6. /\ f \in Seq(Int) /\ Len(f) = Len(<<d>>) + Len(t)
      /\ \A i \in 1 .. Len(<<d>>) + Len(t) :
           f[i] = IF i <= Len(<<d>>) THEN <<d>>[i] ELSE t[i - Len(<<d>>)]
  BY <1>3, <1>5, ConcatProperties, ZenonT(60)
<1> HIDE DEF f
<1>7. Len(f) = 4 /\ \A i \in 1 .. 4 : f[i] = IF i <= 1 THEN <<d>>[i] ELSE t[i - 1]
  BY <1>4, <1>5, <1>6
<1>8. f[1] = d /\ f[2] = r[1] /\ f[3] = r[2] /\ f[4] = r[3]
  BY <1>4, <1>5, <1>7
<1>9. e \in Seq(Int) /\ Len(e) = 4 /\ e[1] = d /\ e[2] = r[1] /\ e[3] = r[2] /\ e[4] = r[3]
  BY <1>1
<1> HIDE DEF e
<1>10. Len(f) = Len(e) /\ \A i \in 1 .. Len(f) : f[i] = e[i]
  BY <1>7, <1>8, <1>9
<1>11. f = e
  BY <1>6, <1>9, <1>10, SeqEqual
<1> QED
  BY <1>6, <1>7, <1>11 DEF f, e, t

LEMMA CacheStepHolds == ASSUME CacheInv, CacheStep, SymbolStep PROVE CacheInv'
<1>1. CASE Kept
  BY <1>1 DEF CacheInv, SymbolStep, Kept, Listed
<1>2. CASE Spoiled
  BY <1>2 DEF CacheInv, SymbolStep, Spoiled
<1>3. CASE Begun
  <2>1. recents' \in Seq(Int) /\ Len(recents') = 4
    BY <1>3 DEF Begun
  <2>2. cache' \in Caches /\ Listed(cache)' = recents'
    BY <1>3, StartsListed DEF Begun, Listed
  <2> QED
    BY <2>1, <2>2 DEF CacheInv, SymbolStep
<1>4. CASE Taken
  <2>1. PICK d \in Nat \ {0}, c \in 0 .. 16 :
          /\ recents' = (IF c = 0 THEN recents ELSE <<d>> \o SubSeq(recents, 1, 3))
          /\ cache' = (IF c = 0 THEN cache ELSE Push(cache, d))
    BY <1>4 DEF Taken
  <2>2. cache \in Caches /\ recents \in Seq(Int) /\ Len(recents) = 4 /\ Listed(cache) = recents
    BY <1>4 DEF CacheInv, Taken
  <2>3. CASE c = 0
    BY <2>1, <2>2, <2>3 DEF CacheInv, SymbolStep, Listed
  <2>4. CASE c # 0
    <3>1. cache' = Push(cache, d) /\ recents' = <<d>> \o SubSeq(recents, 1, 3)
      BY <2>1, <2>4
    <3>2. recents' \in Seq(Int) /\ Len(recents') = 4 /\ recents' = <<d, recents[1], recents[2], recents[3]>>
      BY <2>2, <3>1, Fronted
    <3>3. /\ Push(cache, d) \in Caches
          /\ Listed(Push(cache, d)) = <<d, Recent(cache, 0), Recent(cache, 1), Recent(cache, 2)>>
      BY <2>2, PushLists
    <3>4. recents[1] = Recent(cache, 0) /\ recents[2] = Recent(cache, 1) /\ recents[3] = Recent(cache, 2)
      BY <2>2 DEF Listed
    <3>5. Listed(cache)' = Listed(Push(cache, d))
      BY <3>1 DEF Listed
    <3> QED
      BY <3>1, <3>2, <3>3, <3>4, <3>5 DEF CacheInv, SymbolStep
  <2> QED
    BY <2>3, <2>4, SMTT(30)
<1> QED
  BY <1>1, <1>2, <1>3, <1>4 DEF CacheStep


-----------------------------------------------------------------------------
(* What each action does with the cache. *)

(* The cache, the recent distances and the symbol stay as they are. *)
Stays ==
  /\ UNCHANGED <<cache, recents, distance, code>> /\ (mode' = "failed" \/ mode # "failed")
  /\ stage' = "Resolve" => stage = "Resolve"

LEMMA StaysSteps == ASSUME CacheInv, Stays PROVE CacheStep /\ SymbolStep
  BY DEF CacheInv, Stays, CacheStep, Kept, SymbolStep

LEMMA FailStays == ASSUME NEW e, Fail(e) PROVE Stays
  BY DEF Fail, Stays, commandVars, formatVars

(* Calls and operations: a member's start begins a cache, every other keeps it. *)
LEMMA CallSteps ==
  ASSUME CacheInv, Start \/ Call \/ OutputStop \/ NeedsInput \/ InputFails \/ EndMember
  PROVE  CacheStep /\ SymbolStep
<1>1. ASSUME ResetMember PROVE CacheStep /\ SymbolStep
  BY <1>1 DEF CacheInv, ResetMember, commandVars, CacheStep, Begun, SymbolStep
<1>2. ASSUME NEW i \in BOOLEAN, mode = "run", Stop(i) PROVE Stays
  BY <1>2 DEF Stop, Stays, commandVars, formatVars
<1>3. CASE Start
  BY <1>1, <1>3 DEF Start
<1>4. CASE Call
  <2>1. Stays
    BY <1>4 DEF Call, Stays, commandVars, formatVars
  <2> QED
    BY <2>1, StaysSteps
<1>5. CASE OutputStop
  <2>1. Stays
    BY <1>2, <1>5, FailStays DEF OutputStop
  <2> QED
    BY <2>1, StaysSteps
<1>6. CASE NeedsInput
  <2>1. Stays
    BY <1>2, <1>6 DEF NeedsInput, AtInput
  <2> QED
    BY <2>1, StaysSteps
<1>7. CASE InputFails
  <2>1. Stays
    BY <1>7, FailStays DEF InputFails
  <2> QED
    BY <2>1, StaysSteps
<1>8. CASE EndMember
  <2>1. CASE ResetMember
    BY <1>1, <2>1
  <2>2. CASE UNCHANGED <<commandVars, cache, formatVars>>
    <3>1. Stays
      BY <1>8, <2>2 DEF EndMember, ResetMember, In, Stays, commandVars, formatVars
    <3> QED
      BY <3>1, StaysSteps
  <2> QED
    BY <1>8, <2>1, <2>2 DEF EndMember
<1> QED
  BY <1>3, <1>4, <1>5, <1>6, <1>7, <1>8

LEMMA GotoStays == ASSUME NEW s, s # "Resolve", mode = "run", Goto(s) PROVE Stays
  BY DEF Goto, Stays, commandVars, formatVars

(* Headers keep it. *)
LEMMA HeaderSteps == ASSUME CacheInv, Headers PROVE CacheStep /\ SymbolStep
<1>1. ASSUME ReadWindow PROVE Stays
  BY <1>1 DEF ReadWindow, In, Stays, commandVars, formatVars
<1>2. ASSUME ReadMeta PROVE Stays
  BY <1>2 DEF ReadMeta, In, Stays, commandVars, formatVars
<1>3. ASSUME SkipMetadata PROVE Stays
  BY <1>3 DEF SkipMetadata, In, Stays, commandVars, formatVars
<1>4. ASSUME ReadTables PROVE Stays
  BY <1>4, GotoStays, FailStays DEF ReadTables, In
<1>5. ASSUME BlockDone PROVE Stays
  BY <1>5, GotoStays DEF BlockDone, In
<1>6. ASSUME EndBlock PROVE Stays
  BY <1>6, GotoStays DEF EndBlock, In
<1>7. Stays
  BY <1>1, <1>2, <1>3, <1>4, <1>5, <1>6 DEF Headers
<1> QED
  BY <1>7, StaysSteps


(* Bytes keep it. *)
LEMMA ByteSteps == ASSUME CacheInv, Bytes PROVE CacheStep /\ SymbolStep
<1>1. ASSUME NEW e, NoMemory(e) PROVE Stays
  BY <1>1, FailStays DEF NoMemory
<1>2. ASSUME NEW b, mode = "run", Emit(b), UNCHANGED <<stage, distance, code>> PROVE Stays
  BY <1>2 DEF Emit, Stays
<1>3. ASSUME RawByte PROVE Stays
  BY <1>1, <1>2, <1>3 DEF RawByte, In, commandVars
<1>4. ASSUME RawRun PROVE Stays
  BY <1>1, <1>4 DEF RawRun, In, Stays, commandVars
<1>5. ASSUME LiteralByte PROVE Stays
  BY <1>1, <1>2, <1>5 DEF LiteralByte, In
<1>6. ASSUME WordByte PROVE Stays
  BY <1>1, <1>2, <1>6 DEF WordByte, In, commandVars
<1>7. ASSUME PrefixHistoryByte PROVE Stays
  <2>1. CASE offset = Len(prefixHistory)
    BY <1>7, <2>1 DEF PrefixHistoryByte, In, Stays, commandVars, formatVars
  <2>2. CASE offset # Len(prefixHistory)
    BY <1>1, <1>2, <1>7, <2>2 DEF PrefixHistoryByte, In
  <2> QED
    BY <2>1, <2>2
<1>8. ASSUME CopyRun PROVE Stays
  BY <1>1, <1>8 DEF CopyRun, In, Stays, formatVars
<1>9. ASSUME PrefixRun PROVE Stays
  <2>1. CASE offset = prefix
    BY <1>9, <2>1 DEF PrefixRun, In, Stays, commandVars, formatVars
  <2>2. CASE offset # prefix
    BY <1>1, <1>9, <2>2 DEF PrefixRun, In, Stays, formatVars
  <2> QED
    BY <2>1, <2>2
<1>10. ASSUME CopyDone PROVE Stays
  BY <1>10, GotoStays DEF CopyDone, In
<1>11. Stays
  BY <1>3, <1>4, <1>5, <1>6, <1>7, <1>8, <1>9, <1>10 DEF Bytes
<1> QED
  BY <1>11, StaysSteps

(* What a code resolves to; code 0 is the last distance itself. *)
LEMMA ResolvedTypes ==
  ASSUME CacheInv, NEW c \in 0 .. 16, NEW d \in Resolved(c)
  PROVE  d \in Nat \ {0} /\ (c = 0 => d = Recent(cache, 0))
<1>1. CASE c = 16
  BY <1>1, DecoderAssumption DEF Resolved
<1>2. CASE c # 16
  <2>1. c + 1 \in 1 .. 16 /\ d = Recent(cache, ShortIndex[c + 1]) + ShortOffset[c + 1]
    BY <1>2 DEF Resolved, Short
  <2>2. \A k \in 1 .. 16 : ShortIndex[k] \in 0 .. 3 /\ ShortOffset[k] \in Int
    BY DEF ShortIndex, ShortOffset
  <2>3. Recent(cache, ShortIndex[c + 1]) \in Int
    <3>1. ShortIndex[c + 1] \in 0 .. 3 /\ cache \in Caches
      BY <2>1, <2>2 DEF CacheInv
    <3>2. Recent(cache, ShortIndex[c + 1]) \in Nat \ {0}
      BY <3>1, RecentTypes
    <3> QED
      BY <3>2
  <2>4. ShortIndex[1] = 0 /\ ShortOffset[1] = 0
    BY DEF ShortIndex, ShortOffset
  <2>5. d \in Nat \ {0}
    <3>1. d > 0
      BY <1>2 DEF Resolved
    <3> QED
      BY <2>1, <2>2, <2>3, <3>1
  <2>6. ASSUME c = 0 PROVE d = Recent(cache, 0)
    BY <2>1, <2>3, <2>4, <2>6
  <2> QED
    BY <2>5, <2>6
<1> QED
  BY <1>1, <1>2

(* The stages: a copy from the history or the prefix is taken, a word and    *)
(* everything else leave the cache alone.                                    *)
LEMMA CommandSteps == ASSUME CacheInv, Commands PROVE CacheStep /\ SymbolStep
<1>1. ASSUME ReadCommand \/ ReadInsert \/ ReadCopy \/ LiteralsDone PROVE Stays
  <2>1. ASSUME ReadCommand PROVE Stays
    BY <2>1 DEF ReadCommand, In, Stays, formatVars
  <2>2. ASSUME ReadInsert PROVE Stays
    BY <2>2, FailStays DEF ReadInsert, In, Stays, formatVars
  <2>3. ASSUME ReadCopy PROVE Stays
    BY <2>3 DEF ReadCopy, In, Stays, formatVars
  <2>4. ASSUME LiteralsDone PROVE Stays
    BY <2>4, GotoStays DEF LiteralsDone, In
  <2> QED
    BY <1>1, <2>1, <2>2, <2>3, <2>4
<1>2. CASE ReadDistance
  <2>1. CacheStep
    BY <1>2 DEF ReadDistance, In, CacheStep, Kept, formatVars
  <2>2. Recent(cache, 0) \in Nat \ {0}
    BY RecentTypes DEF CacheInv
  <2>3. SymbolStep
    <3>1. \/ code' = 0 /\ distance' = Recent(cache, 0)
          \/ code' \in Codes /\ distance' = distance /\ stage' = "DistanceExtra"
      BY <1>2, Zenon DEF ReadDistance
    <3>2. distance \in Int /\ 0 \in 0 .. 16
      BY DEF CacheInv
    <3>3. Codes \subseteq 0 .. 16
      BY DecoderAssumption, Zenon DEF DecoderAssumption
    <3>4. code' \in 0 .. 16
      BY <3>1, <3>2, <3>3
    <3>5. distance' \in Int
      BY <2>2, <3>1, <3>2
    <3>6. stage' = "Resolve" => distance' > 0
      BY <2>2, <3>1
    <3> QED
      BY <3>4, <3>5, <3>6 DEF SymbolStep
  <2> QED
    BY <2>1, <2>3
<1>3. CASE ReadDistanceExtra
  <2>1. CASE Resolved(code) = {}
    BY <1>3, <2>1, FailStays, StaysSteps DEF ReadDistanceExtra
  <2>2. CASE Resolved(code) # {}
    <3>1. distance' \in Resolved(code) /\ code' = code
      BY <1>3, <2>2 DEF ReadDistanceExtra
    <3>2. SymbolStep
      BY <3>1, ResolvedTypes, SMTT(30) DEF CacheInv, SymbolStep
    <3>3. CacheStep
      BY <1>3, <2>2 DEF ReadDistanceExtra, In, CacheStep, Kept, formatVars
    <3> QED
      BY <3>2, <3>3
  <2> QED
    BY <2>1, <2>2
<1>4. ASSUME In("Resolve"), Reference(distance, code, copy),
             cache' = (IF code # 0 THEN Push(cache, distance) ELSE cache),
             UNCHANGED <<mode, commandVars>>
      PROVE  CacheStep /\ SymbolStep
  <2>1. distance \in Nat \ {0} /\ code \in 0 .. 16 /\ mode # "failed"
    BY <1>4 DEF CacheInv, In
  <2>2. Taken
    BY <1>4, <2>1 DEF Reference, Taken
  <2>3. SymbolStep
    BY <1>4, <2>1 DEF commandVars, SymbolStep
  <2> QED
    BY <2>2, <2>3 DEF CacheStep
<1>5. CASE ResolvePrefix
  <2>1. CASE Fail("data") \/ Fail("memory")
    BY <2>1, FailStays, StaysSteps
  <2>2. CASE ~(Fail("data") \/ Fail("memory"))
    BY <1>4, <1>5, <2>2 DEF ResolvePrefix, In
  <2> QED
    BY <2>1, <2>2
<1>6. CASE ResolveWord
  <2>1. Stays
    BY <1>6, FailStays DEF ResolveWord, In, Stays, commandVars
  <2> QED
    BY <2>1, StaysSteps
<1>7. CASE ResolveCopy
  <2>1. CASE Fail("data")
    BY <2>1, FailStays, StaysSteps
  <2>2. CASE ~Fail("data")
    BY <1>4, <1>7, <2>2 DEF ResolveCopy, In
  <2> QED
    BY <2>1, <2>2
<1> QED
  BY <1>1, <1>2, <1>3, <1>5, <1>6, <1>7, StaysSteps DEF Commands


(* An error in the fast loop may leave the cache in any state. *)
LEMMA FastFailSteps ==
  ASSUME CacheInv, NEW e, NEW c \in Caches, FastFail(e, c)
  PROVE  CacheStep /\ SymbolStep
<1>1. /\ mode' = "failed" /\ cache' = c /\ recents' = recents
      /\ distance' = distance /\ code' = code /\ stage' = stage
  BY DEF FastFail, commandVars, formatVars
<1>2. Spoiled
  BY <1>1 DEF Spoiled
<1> QED
  BY <1>1, <1>2 DEF CacheInv, CacheStep, SymbolStep

LEMMA PauseKeeps == ASSUME NEW s, Pause(s) PROVE mode' = mode /\ stage' = s
  BY DEF Pause

LEMMA ContinueKeeps == ASSUME NEW h, NEW n, Continue(h, n) PROVE mode' = mode /\ stage' = stage
  BY DEF Continue

(* A word, or a reference left to the stages: a distance that was popped is  *)
(* pushed again, so the cache is what it was.                                *)
LEMMA FastBeyondSteps ==
  ASSUME CacheInv, mode = "run", NEW c \in 0 .. 16, NEW d \in Resolved(c),
         FastBeyond(c, d, IF c = 0 THEN Pop(cache) ELSE cache)
  PROVE  CacheStep /\ SymbolStep
<1>1. d \in Nat \ {0} /\ (c = 0 => d = Recent(cache, 0))
  BY ResolvedTypes
<1>2. /\ cache' = Restored(c, d, IF c = 0 THEN Pop(cache) ELSE cache)
      /\ recents' = recents /\ distance' = d /\ code' = c
  BY DEF FastBeyond
<1>3. cache' = cache
  <2>1. CASE c = 0
    <3>1. cache' = Push(Pop(cache), Recent(cache, 0))
      BY <1>1, <1>2, <2>1 DEF Restored
    <3> QED
      BY <3>1, PopPushes DEF CacheInv
  <2>2. CASE c # 0
    BY <1>2, <2>2 DEF Restored
  <2> QED
    BY <2>1, <2>2
<1>4. mode' = mode
  <2>1. CASE d - Available <= prefix
    BY <2>1, PauseKeeps DEF FastBeyond
  <2>2. CASE ~(d - Available <= prefix)
    <3>1. PICK n \in Words : IF n > Space THEN Pause("Dictionary")
                             ELSE Continue(WriteRing(History(Reached(position + n)), Word(n), Delivers), n)
      BY <2>2, Zenon DEF FastBeyond
    <3> QED
      BY <3>1, PauseKeeps, ContinueKeeps, Zenon
  <2> QED
    BY <2>1, <2>2
<1>5. CacheStep
  BY <1>2, <1>3, <1>4 DEF CacheStep, Kept
<1>6. SymbolStep
  BY <1>1, <1>2 DEF SymbolStep
<1> QED
  BY <1>5, <1>6

(* A copy: the distance takes the slot it was popped from, or a new one. *)
LEMMA FastCopySteps ==
  ASSUME CacheInv, mode = "run", NEW c \in 0 .. 16, NEW d \in Resolved(c),
         FastCopy(c, d, IF c = 0 THEN Pop(cache) ELSE cache)
  PROVE  CacheStep /\ SymbolStep
<1>1. d \in Nat \ {0} /\ (c = 0 => d = Recent(cache, 0))
  BY ResolvedTypes
<1>2. /\ cache' = Push(IF c = 0 THEN Pop(cache) ELSE cache, d)
      /\ recents' = (IF c = 0 THEN recents ELSE <<d>> \o SubSeq(recents, 1, 3))
      /\ distance' = d /\ code' = c
  BY DEF FastCopy, Reference
<1>3. cache' = IF c = 0 THEN cache ELSE Push(cache, d)
  <2>1. CASE c = 0
    <3>1. cache' = Push(Pop(cache), Recent(cache, 0))
      BY <1>1, <1>2, <2>1
    <3> QED
      BY <2>1, <3>1, PopPushes DEF CacheInv
  <2>2. CASE c # 0
    BY <1>2, <2>2
  <2> QED
    BY <2>1, <2>2
<1>4. mode' = mode
  <2>1. CASE copy > Space
    BY <2>1, PauseKeeps DEF FastCopy
  <2>2. CASE ~(copy > Space)
    <3>1. \E h : Continue(h, copy)
      BY <2>2, Zenon DEF FastCopy
    <3> QED
      BY <3>1, ContinueKeeps
  <2> QED
    BY <2>1, <2>2
<1>5. Taken
  BY <1>1, <1>2, <1>3, <1>4 DEF Taken
<1>6. SymbolStep
  BY <1>1, <1>2 DEF SymbolStep
<1> QED
  BY <1>5, <1>6 DEF CacheStep

LEMMA FastReferenceFailsSteps ==
  ASSUME CacheInv, NEW c \in 0 .. 16, NEW d \in Resolved(c),
         FastReferenceFails(c, d, IF c = 0 THEN Pop(cache) ELSE cache)
  PROVE  CacheStep /\ SymbolStep
<1> DEFINE popped == IF c = 0 THEN Pop(cache) ELSE cache
<1>1. popped \in Caches
  BY PopPushes DEF CacheInv
<1>2. d \in Nat \ {0}
  BY ResolvedTypes
<1>3. FastReferenceFails(c, d, popped)
  OBVIOUS
<1> HIDE DEF popped
<1>4. Push(popped, d) \in Caches
  BY <1>1, <1>2, PushLists
<1>5. Restored(c, d, popped) \in Caches
  BY <1>1, <1>4 DEF Restored
<1>6. \E e, x : x \in {popped, Push(popped, d), Restored(c, d, popped)} /\ FastFail(e, x)
  BY <1>3, Zenon DEF FastReferenceFails, ReachFails
<1> QED
  BY <1>1, <1>4, <1>5, <1>6, FastFailSteps

LEMMA FastSteps == ASSUME CacheInv, FastLoop PROVE CacheStep /\ SymbolStep
<1> USE DEF InFast
<1>1. cache \in Caches
  BY DEF CacheInv
<1>2. ASSUME NEW s, s # "Resolve", mode = "run", Pause(s), UNCHANGED <<cache, recents, distance, code>>
      PROVE  CacheStep /\ SymbolStep
  <2>1. Stays
    BY <1>2, PauseKeeps DEF Stays
  <2> QED
    BY <2>1, StaysSteps
<1>3. CASE EnterFast
  <2>1. Stays
    BY <1>3 DEF EnterFast, In, Stays, commandVars, formatVars
  <2> QED
    BY <2>1, StaysSteps
<1>4. CASE FastCommand
  <2>1. CASE Pause("Command") /\ UNCHANGED <<commandVars, cache, copyVars, formatVars>>
    BY <1>2, <1>4, <2>1 DEF FastCommand, commandVars, formatVars
  <2>2. CASE FastFail("data", cache)
    BY <1>1, <2>2, FastFailSteps
  <2>3. CASE UNCHANGED <<distance, code, cache, copyVars, formatVars>> /\ Pause("CopyExtra")
    BY <1>2, <1>4, <2>3 DEF FastCommand, formatVars
  <2>4. CASE UNCHANGED <<distance, code, cache, copyVars, formatVars>> /\ mode' = mode /\ stage' = stage
    <3>1. Stays
      BY <1>4, <2>4 DEF FastCommand, Stays, formatVars
    <3> QED
      BY <3>1, StaysSteps
  <2> QED
    BY <1>4, <2>1, <2>2, <2>3, <2>4 DEF FastCommand
<1>5. CASE FastLiterals
  <2>1. CASE ReachFails(position + literals, cache)
    BY <1>1, <2>1, FastFailSteps DEF ReachFails
  <2>2. CASE UNCHANGED <<mode, distance, code, cache, recents>> /\ stage' \in {stage, "Literals"}
    <3>1. Stays
      BY <1>5, <2>2 DEF FastLiterals, Stays
    <3> QED
      BY <3>1, StaysSteps
  <2> QED
    BY <1>5, <2>1, <2>2 DEF FastLiterals
<1>6. CASE FastLiteralsDone
  <2>1. CASE \E s \in {"Command", "Distance"} : Pause(s) /\ UNCHANGED <<commandVars, cache, copyVars, formatVars>>
    BY <1>2, <1>6, <2>1 DEF FastLiteralsDone, commandVars, formatVars
  <2>2. CASE UNCHANGED <<mode, stage, commandVars, cache, formatVars>>
    <3>1. Stays
      BY <1>6, <2>2 DEF FastLiteralsDone, Stays, commandVars, formatVars
    <3> QED
      BY <3>1, StaysSteps
  <2> QED
    BY <1>6, <2>1, <2>2 DEF FastLiteralsDone
<1>7. CASE FastDistance
  <2>1. PICK c \in IF implicit THEN {0} ELSE Codes :
          \/ c = 16 /\ code' = c /\ Pause("DistanceExtra") /\ UNCHANGED <<distance, cache, formatVars>>
          \/ FastFail("data", cache)
          \/ \E d \in Resolved(c) :
               LET popped == IF c = 0 THEN Pop(cache) ELSE cache
               IN  \/ FastReferenceFails(c, d, popped)
                   \/ FastBeyond(c, d, popped)
                   \/ FastCopy(c, d, popped)
    BY <1>7, Zenon DEF FastDistance
  <2>2. c \in 0 .. 16 /\ mode = "run"
    BY <1>7, DecoderAssumption DEF FastDistance
  <2>3. ASSUME c = 16, code' = c, Pause("DistanceExtra"), UNCHANGED <<distance, cache, formatVars>>
        PROVE  CacheStep /\ SymbolStep
    <3>1. CacheStep
      BY <2>2, <2>3, PauseKeeps DEF CacheStep, Kept, formatVars
    <3>2. SymbolStep
      BY <2>2, <2>3, PauseKeeps DEF SymbolStep, CacheInv
    <3> QED
      BY <3>1, <3>2
  <2> QED
    BY <1>1, <2>1, <2>2, <2>3, FastFailSteps, FastReferenceFailsSteps, FastBeyondSteps, FastCopySteps
<1> QED
  BY <1>3, <1>4, <1>5, <1>6, <1>7 DEF FastLoop

-----------------------------------------------------------------------------
(* The theorem. *)

LEMMA CacheInvInit == ASSUME DecoderInit PROVE CacheInv
<1>1. cache = CacheDefault /\ recents = <<4, 11, 15, 16>> /\ distance = 0 /\ code = 0 /\ stage = "Window"
  BY DEF DecoderInit
<1>2. recents \in Seq(Int) /\ Len(recents) = 4
  BY <1>1
<1> QED
  BY <1>1, <1>2, StartsListed DEF CacheInv

LEMMA CacheInvNext == ASSUME CacheInv, [DecoderNext]_decoderVars PROVE CacheInv'
<1>1. CASE DecoderNext
  BY <1>1, CallSteps, HeaderSteps, ByteSteps, CommandSteps, FastSteps, CacheStepHolds
     DEF DecoderNext
<1>2. CASE UNCHANGED decoderVars
  BY <1>2 DEF decoderVars, commandVars, formatVars, CacheInv, Listed
<1> QED
  BY <1>1, <1>2

LEMMA CacheInvListed == ASSUME CacheInv PROVE CacheIsRecent
<1>1. CASE mode = "failed"
  BY <1>1 DEF CacheIsRecent
<1>2. CASE mode # "failed"
  <2>1. /\ recents[1] = Recent(cache, 0) /\ recents[2] = Recent(cache, 1)
        /\ recents[3] = Recent(cache, 2) /\ recents[4] = Recent(cache, 3)
    BY <1>2 DEF CacheInv, Listed
  <2> QED
    BY <2>1 DEF CacheIsRecent
<1> QED
  BY <1>1, <1>2

(* Whatever stages and fast loop decode, in whatever mixture and wherever    *)
(* calls stop, the cache of a decoder that has not failed holds the          *)
(* distances of the last four copies, the newest first: the fast loop's pop  *)
(* before a reference is made good by every way it leaves (Cache::pop and    *)
(* Cache::push in stream.rs).                                                *)
THEOREM CacheHoldsTheLastCopies == DecoderSpec => []CacheIsRecent
<1>1. DecoderInit => CacheInv
  BY CacheInvInit
<1>2. CacheInv /\ [DecoderNext]_decoderVars => CacheInv'
  BY CacheInvNext
<1>3. CacheInv => CacheIsRecent
  BY CacheInvListed
<1> QED
  BY <1>1, <1>2, <1>3, PTL DEF DecoderSpec

-----------------------------------------------------------------------------
(* What the stages, the fast loop and the calls keep.  HistoryInv says what *)
(* the buffer holds; the parts below say which stages may hold text that is *)
(* not written yet, and what of it.                                         *)

StreamTypes ==
  /\ mode \in {"idle", "run", "failed", "over", "done"}
  /\ fault \in {"none", "data", "limit", "memory"}
  /\ literals \in Nat /\ copy \in Nat /\ offset \in Nat /\ start \in Nat /\ prefix \in Nat
  /\ member \in Nat /\ stage \in Stages /\ fast \in {"no", "command", "literals", "distance"}
  /\ {last, implicit, single, fresh} \subseteq BOOLEAN
  /\ scratch \in Seq(Int) /\ prefixHistory \in Seq(Int)

(* Which states of the call, the stages and the fast loop meet. *)
PlaceInv ==
  /\ fresh => mode = "idle" /\ stage = "Window"
  /\ mode = "idle" => delivery = "slice"
  /\ fast # "no" => stage \in {"Command", "Literals"} /\ mode = "run"
  /\ fast = "no" => flushed = position
  /\ IF stage = "Window" THEN position = 0 /\ text = <<>> /\ delivery # "collect"
     ELSE window \in Windows
  /\ mode = "done" /\ Linear => stage = "End"

(* The lengths in hand never exceed what the meta-block owes. *)
BoundInv ==
  /\ stage \in {"CopyExtra", "Literals"} \/ fast = "literals" => literals <= remaining
  /\ stage \in {"Copy", "Prefix", "PrefixHistory"} => copy <= remaining
  /\ stage = "Dictionary" => Len(scratch) <= remaining
  /\ stage \in {"Literals", "Distance", "DistanceExtra", "Resolve"} \/ fast \in {"literals", "distance"}
       => copy > 0
  /\ fast = "distance" => literals = 0

(* What the text holds beyond the position: what the stage is writing. *)
CopyInv ==
  stage = "Copy" =>
    /\ Len(text) = position + copy
    /\ copy > 0 => 1 <= distance /\ distance <= Available /\ Recurs(text, position, distance, copy)

Cycles(j) == Cyclic(text, position, distance, copy, start, prefix, prefixHistory, j)

Leads == LeadsFrom(text, position, distance, copy, prefix, offset)

PrefixInv ==
  /\ stage \in {"Prefix", "PrefixHistory"} =>
       /\ Len(text) = position + copy /\ start <= prefix /\ distance >= 1
       /\ prefix - start <= distance
  /\ stage = "Prefix" =>
       /\ start <= offset /\ offset <= prefix
       /\ IF distance <= MaxBackward THEN Leads ELSE Cycles(offset - start)
  /\ stage = "PrefixHistory" =>
       /\ distance > MaxBackward /\ offset <= Len(prefixHistory)
       /\ Cycles((prefix - start) + offset)

PendingInv ==
  /\ stage = "Dictionary" => scratch = SubSeq(text, position + 1, Len(text))
  /\ stage \notin {"Dictionary", "Copy", "Prefix", "PrefixHistory"} => Len(text) = position

StageInv == CopyInv /\ PrefixInv /\ PendingInv

StreamInv == HistoryInv /\ StreamTypes /\ PlaceInv /\ BoundInv /\ StageInv

-----------------------------------------------------------------------------
(* Frames. *)

(* The stages that write what the text already holds. *)
Writing == {"Dictionary", "Copy", "Prefix", "PrefixHistory"}

(* At the other stages the text ends at the position. *)
LEMMA PlainStage == ASSUME stage' \notin Writing, Len(text') = position' PROVE StageInv'
  BY DEF StageInv, CopyInv, PrefixInv, PendingInv, Writing

LEMMA PlainText == ASSUME StreamInv, stage \notin Writing PROVE Len(text) = position
  BY DEF StreamInv, StageInv, PendingInv, Writing

LEMMA StageStands ==
  ASSUME StageInv, UNCHANGED <<stage, text, position, copy, distance, offset, start, prefix,
                               prefixHistory, scratch, window>>
  PROVE  StageInv'
<1>1. MaxBackward' = MaxBackward
  BY DEF MaxBackward
<1>2. Available' = Available
  BY <1>1 DEF Available
<1>3. Leads' <=> Leads
  BY Zenon DEF Leads, LeadsFrom, PrefixByte
<1>4. Cycles(offset - start)' <=> Cycles(offset - start)
  BY Zenon DEF Cycles, Cyclic, CycledAt, PrefixByte
<1>5. Cycles((prefix - start) + offset)' <=> Cycles((prefix - start) + offset)
  BY Zenon DEF Cycles, Cyclic, CycledAt, PrefixByte
<1>6. CopyInv'
  BY <1>2 DEF StageInv, CopyInv, Recurs
<1>7. PrefixInv'
  BY <1>1, <1>3, <1>4, <1>5 DEF StageInv, PrefixInv
<1>8. PendingInv'
  BY DEF StageInv, PendingInv
<1> QED
  BY <1>6, <1>7, <1>8 DEF StageInv

(* The window serves every stage but the first. *)
LEMMA WindowServes ==
  ASSUME StreamInv, stage # "Window"
  PROVE  window \in Nat /\ window > Chunk /\ PowerOfTwo(window)
<1>1. window \in Windows
  BY DEF StreamInv, PlaceInv
<1> QED
  BY <1>1, DecoderAssumption, Zenon DEF DecoderAssumption

(* An error ends the call and changes nothing else. *)
LEMMA FailHolds ==
  ASSUME StreamInv, mode = "run", fast = "no", NEW e \in {"data", "limit", "memory"}, Fail(e)
  PROVE  StreamInv'
<1>0. HistoryInv /\ StreamTypes /\ PlaceInv /\ BoundInv /\ StageInv
  BY DEF StreamInv
<1>1. /\ mode' = "failed" /\ fault' = e
      /\ UNCHANGED <<delivery, cap, allow, slice, ring, position, flushed, out, stage, remaining, last,
                     literals, copy, implicit, distance, code, cache, offset, start, prefixHistory,
                     scratch, fast, window, prefix, single, member, fresh, text, recents>>
  BY DEF Fail, callVars, historyVars, blockVars, commandVars, copyVars, memberVars, formatVars
<1>2. HistoryInv'
  <2>1. remaining \in Nat
    BY <1>0, HistoryTypes
  <2> QED
    BY <1>0, <1>1, <2>1, HistoryStays DEF callVars, historyVars
<1>3. StageInv'
  BY <1>0, <1>1, StageStands
<1>4. StreamTypes'
  BY <1>0, <1>1 DEF StreamTypes
<1>5. PlaceInv'
  BY <1>0, <1>1 DEF PlaceInv, Linear
<1>6. BoundInv'
  BY <1>0, <1>1 DEF BoundInv
<1> QED
  BY <1>2, <1>3, <1>4, <1>5, <1>6 DEF StreamInv

(* Nothing decoded yet: any buffer will do. *)
LEMMA FreshGood ==
  ASSUME NEW b \in Seq(Int), NEW t \in Seq(Int), NEW w \in Nat, w > Chunk, NEW whole \in BOOLEAN,
         NEW delivers \in BOOLEAN, whole => ~delivers, NEW o \in Seq(Int), delivers => o = <<>>,
         NEW h, h = [bytes |-> b, pos |-> 0, flushed |-> 0, out |-> o]
  PROVE  Good(h, t, w, whole, delivers, o) /\ Lapped(h, whole)
<1>1. h.bytes = b /\ h.pos = 0 /\ h.flushed = 0 /\ h.out = o /\ h \in Histories
  BY DEF Histories
<1>2. Len(b) \in Nat /\ Len(t) \in Nat
  BY LenProperties
<1>3. Roomy(h, h.pos, w, whole)
  BY <1>1, <1>2 DEF Roomy
<1>4. Holds(h, t, w, whole)
  <2>1. 0 .. h.pos - 1 = {}
    BY <1>1
  <2> QED
    BY <2>1 DEF Holds
<1>5. Contiguous(h, whole) /\ Lapped(h, whole)
  BY <1>1 DEF Contiguous, Lapped
<1>6. Delivered(h, t, delivers, o)
  <2>1. SubSeq(t, 1, 0) = <<>>
    <3>1. SubSeq(t, 1, 0) \in Seq(Int) /\ Len(SubSeq(t, 1, 0)) = 0 + 1 - 1
      BY <1>2, PartOf
    <3> QED
      BY <3>1, EmptySeq
  <2> QED
    BY <1>1, <2>1 DEF Delivered
<1>7. h.flushed <= h.pos /\ h.pos <= Len(t)
  BY <1>1, <1>2
<1> QED
  BY <1>1, <1>3, <1>4, <1>5, <1>6, <1>7 DEF Good

-----------------------------------------------------------------------------
(* Calls and operations. *)

(* A member begins with whatever ring there is. *)
LEMMA BeginsFresh ==
  ASSUME HistoryInv, delivery' = "slice", position' = 0, flushed' = 0, out' = <<>>, text' = <<>>,
         stage' = "Window", window' = window, remaining' = remaining, cap' \in Nat, allow' \in Nat,
         slice' \in Seq(Int), ring' \in {ring, <<>>}
  PROVE  HistoryInv'
<1>1. ~Linear' /\ ~Whole' /\ Delivers'
  BY DEF Linear, Whole, Delivers
<1>2. <<>> \in Seq(Int) /\ Len(<<>>) = 0 /\ window \in Nat /\ window > Chunk /\ remaining \in Nat
  BY EmptySeq, HistoryTypes
<1>3. ring' \in Seq(Int) /\ (Len(ring') = 0 \/ PowerOfTwo(Len(ring')))
  BY <1>2 DEF HistoryInv
<1>4. Buffer' = ring'
  BY <1>1 DEF Buffer
<1>5. History(Buffer)' = [bytes |-> ring', pos |-> 0, flushed |-> 0, out |-> <<>>]
  BY <1>4 DEF History
<1>6. Whole' = FALSE /\ Delivers' = TRUE
  BY DEF Whole, Delivers
<1>7. /\ Good([bytes |-> ring', pos |-> 0, flushed |-> 0, out |-> <<>>], <<>>, window, FALSE, TRUE, <<>>)
      /\ Lapped([bytes |-> ring', pos |-> 0, flushed |-> 0, out |-> <<>>], FALSE)
  BY <1>2, <1>3, FreshGood
<1>8. Good(History(Buffer)', text', window', Whole', Delivers', out') /\ Lapped(History(Buffer)', Whole')
  BY <1>5, <1>6, <1>7
<1>9. Owed' = 0
  BY DEF Owed, Settled
<1>10. position' + Owed' <= MaxText
  <2>1. MaxText \in Nat
    BY DecoderAssumption
  <2> QED
    BY <1>9, <2>1
<1> QED
  BY <1>1, <1>2, <1>3, <1>8, <1>10 DEF HistoryInv

LEMMA StartHolds == ASSUME StreamInv, Start PROVE StreamInv'
<1>0. HistoryInv /\ StreamTypes /\ PlaceInv /\ BoundInv /\ StageInv
  BY DEF StreamInv
<1>1. /\ mode \in {"idle", "failed", "over", "done"} /\ member' = member + 1 /\ mode' = "idle"
      /\ fault' = "none" /\ delivery' = "slice" /\ cap' = 0 /\ slice' = <<>>
      /\ allow' \in Nat /\ prefix' \in Nat /\ single' \in BOOLEAN /\ fresh' = TRUE
      /\ ring' \in {ring, <<>>}
  <2>1. Limits \subseteq Nat /\ PrefixLens \subseteq Nat /\ Singles \subseteq BOOLEAN
    BY DecoderAssumption, Zenon DEF DecoderAssumption
  <2> QED
    BY <2>1 DEF Start
<1>2. /\ stage' = "Window" /\ position' = 0 /\ flushed' = 0 /\ out' = <<>> /\ prefixHistory' = <<>>
      /\ text' = <<>>
      /\ UNCHANGED <<window, remaining, last, literals, copy, implicit, offset, start, scratch, fast>>
  BY DEF Start, ResetMember, blockVars, commandVars
<1>3. <<>> \in Seq(Int) /\ Len(<<>>) = 0
  BY EmptySeq
<1>4. HistoryInv'
  BY <1>0, <1>1, <1>2, <1>3, BeginsFresh
<1>5. StageInv'
  BY <1>2, <1>3, PlainStage DEF Writing
<1>6. fast = "no"
  BY <1>0, <1>1 DEF PlaceInv
<1>7. StreamTypes'
  BY <1>0, <1>1, <1>2, <1>3 DEF StreamTypes, Stages, Reading
<1>8. PlaceInv'
  BY <1>1, <1>2, <1>6 DEF PlaceInv
<1>9. BoundInv'
  BY <1>2, <1>6 DEF BoundInv
<1> QED
  BY <1>4, <1>5, <1>7, <1>8, <1>9 DEF StreamInv

LEMMA EndMemberHolds == ASSUME StreamInv, EndMember PROVE StreamInv'
<1>0. HistoryInv /\ StreamTypes /\ PlaceInv /\ BoundInv /\ StageInv
  BY DEF StreamInv
<1>1. mode = "run" /\ fast = "no" /\ stage = "End"
  BY DEF EndMember, In
<1>2. fresh = FALSE
  BY <1>0, <1>1 DEF PlaceInv, StreamTypes
<1>3. ASSUME mode' = "done", UNCHANGED <<fault, callVars, historyVars, stage, blockVars, commandVars, cache,
                                         copyVars, fast, memberVars, fresh, formatVars>>
      PROVE  StreamInv'
  <2>1. UNCHANGED <<fault, delivery, cap, allow, slice, ring, position, flushed, out, stage, remaining, last,
                    literals, copy, implicit, distance, offset, start, prefixHistory,
                    scratch, fast, window, prefix, single, member, fresh, text>>
    BY <1>3 DEF callVars, historyVars, blockVars, commandVars, copyVars, memberVars, formatVars
  <2>2. HistoryInv'
    <3>1. remaining \in Nat
      BY <1>0, HistoryTypes
    <3> QED
      BY <1>0, <1>1, <2>1, <3>1, HistoryStays DEF callVars, historyVars, Settled
  <2>3. StageInv'
    BY <1>0, <2>1, StageStands
  <2>4. StreamTypes'
    BY <1>0, <1>3, <2>1 DEF StreamTypes
  <2>5. PlaceInv'
    BY <1>0, <1>1, <1>2, <1>3, <2>1 DEF PlaceInv, Linear
  <2>6. BoundInv'
    BY <1>0, <2>1 DEF BoundInv
  <2> QED
    BY <2>2, <2>3, <2>4, <2>5, <2>6 DEF StreamInv
<1>4. ASSUME member' = member + 1, mode' \in {"run", "idle"}, delivery' = "slice", ResetMember,
             UNCHANGED <<fault, cap, allow, slice, ring, prefix, single, fresh>>
      PROVE  StreamInv'
  <2>1. /\ stage' = "Window" /\ position' = 0 /\ flushed' = 0 /\ out' = <<>> /\ prefixHistory' = <<>>
        /\ text' = <<>>
        /\ UNCHANGED <<window, remaining, last, literals, copy, implicit, offset, start, scratch, fast>>
    BY <1>4 DEF ResetMember, blockVars, commandVars
  <2>2. <<>> \in Seq(Int) /\ Len(<<>>) = 0
    BY EmptySeq
  <2>3. cap \in Nat /\ allow \in Nat /\ slice \in Seq(Int)
    BY <1>0, HistoryTypes
  <2>4. HistoryInv'
    BY <1>0, <1>4, <2>1, <2>3, BeginsFresh
  <2>5. StageInv'
    BY <2>1, <2>2, PlainStage DEF Writing
  <2>6. StreamTypes'
    BY <1>0, <1>4, <2>1, <2>2 DEF StreamTypes, Stages, Reading
  <2>7. PlaceInv'
    BY <1>1, <1>2, <1>4, <2>1 DEF PlaceInv
  <2>8. BoundInv'
    BY <1>1, <2>1 DEF BoundInv
  <2> QED
    BY <2>4, <2>5, <2>6, <2>7, <2>8 DEF StreamInv
<1> QED
  BY <1>3, <1>4 DEF EndMember

LEMMA CallHolds == ASSUME StreamInv, Call PROVE StreamInv'
<1>0. HistoryInv /\ StreamTypes /\ PlaceInv /\ BoundInv /\ StageInv
  BY DEF StreamInv
<1>1. /\ mode = "idle" /\ mode' = "run" /\ fresh' = FALSE
      /\ UNCHANGED <<fault, allow, ring, position, flushed, out, stage, remaining, last, literals, copy,
                     implicit, distance, offset, start, prefixHistory, scratch, fast, window, prefix,
                     single, member, text>>
  BY DEF Call, blockVars, commandVars, copyVars, memberVars, formatVars
<1>2. /\ fast = "no" /\ flushed = position /\ delivery = "slice"
      /\ stage # "Window" => window \in Windows
      /\ fresh => stage = "Window"
      /\ stage = "Window" => position = 0 /\ text = <<>>
  BY <1>0, <1>1 DEF PlaceInv
<1>3. /\ text \in Seq(Int) /\ ring \in Seq(Int) /\ out \in Seq(Int) /\ position \in Nat
      /\ window \in Nat /\ window > Chunk /\ allow \in Nat /\ remaining \in Nat
  BY <1>0, HistoryTypes
<1>4. <<>> \in Seq(Int) /\ Len(<<>>) = 0 /\ Rooms \subseteq Nat
  BY EmptySeq, DecoderAssumption, Zenon DEF DecoderAssumption
<1>5. Owed' = Owed /\ position + Owed <= MaxText
  BY <1>0, <1>1 DEF Owed, HistoryInv
<1>6. PICK e : e = Owed
  OBVIOUS
<1>7. Owed' = e /\ position' + Owed' <= MaxText
  BY <1>1, <1>5, <1>6
<1>8. Len(ring) = 0 \/ PowerOfTwo(Len(ring))
  BY <1>0 DEF HistoryInv
<1>9. ASSUME delivery' = "slice", cap' \in Rooms, slice' = <<>>
      PROVE  HistoryInv' /\ PlaceInv'
  <2>1. ~Linear /\ ~Linear' /\ Whole' = Whole /\ Delivers' = Delivers
    BY <1>2, <1>9 DEF Linear, Whole, Delivers
  <2>2. History(Buffer)' = History(Buffer)
    BY <1>1, <2>1 DEF History, Buffer
  <2>3. /\ Good(History(Buffer)', text', window', Whole', Delivers', out') /\ Lapped(History(Buffer)', Whole')
    BY <1>0, <1>1, <2>1, <2>2 DEF HistoryInv
  <2>4. HistoryInv'
    BY <1>1, <1>3, <1>4, <1>7, <1>8, <1>9, <2>1, <2>3 DEF HistoryInv
  <2>5. PlaceInv'
    BY <1>0, <1>1, <1>2, <1>9 DEF PlaceInv
  <2> QED
    BY <2>4, <2>5
<1>10. ASSUME position = 0, ring = <<>>, stage # "Window",
              delivery' = "collect", cap' = window, slice' = <<>>
       PROVE  HistoryInv' /\ PlaceInv'
  <2>1. Linear' = FALSE /\ Whole' = TRUE /\ Delivers' = FALSE
    BY <1>10 DEF Linear, Whole, Delivers
  <2>2. History(Buffer)' = [bytes |-> ring, pos |-> 0, flushed |-> 0, out |-> out]
    BY <1>1, <1>2, <1>10, <2>1 DEF History, Buffer
  <2>3. /\ Good([bytes |-> ring, pos |-> 0, flushed |-> 0, out |-> out], text, window, TRUE, FALSE, out)
        /\ Lapped([bytes |-> ring, pos |-> 0, flushed |-> 0, out |-> out], TRUE)
    BY <1>3, FreshGood
  <2>4. /\ Good(History(Buffer)', text', window', Whole', Delivers', out') /\ Lapped(History(Buffer)', Whole')
    BY <1>1, <2>1, <2>2, <2>3
  <2>5. HistoryInv'
    BY <1>1, <1>3, <1>4, <1>7, <1>8, <1>10, <2>1, <2>4 DEF HistoryInv
  <2>6. PlaceInv'
    BY <1>0, <1>1, <1>2, <1>10 DEF PlaceInv
  <2> QED
    BY <2>5, <2>6
<1>11. ASSUME fresh, delivery' = "linear", cap' \in Rooms, slice' = [i \in 1 .. cap' |-> Untouched]
       PROVE  HistoryInv' /\ PlaceInv'
  <2>1. Linear' = TRUE /\ Whole' = TRUE /\ Delivers' = FALSE
    BY <1>11 DEF Linear, Whole, Delivers
  <2>2. cap' \in Nat /\ slice' \in Seq(Int) /\ Len(slice') = cap'
    <3>1. cap' \in Nat
      BY <1>4, <1>11
    <3>2. PICK c : c = cap'
      OBVIOUS
    <3>3. slice' = [i \in 1 .. c |-> Untouched] /\ c \in Nat
      BY <1>11, <3>1, <3>2
    <3>4. [i \in 1 .. c |-> Untouched] \in [1 .. c -> Int]
      BY DEF Untouched
    <3>5. [i \in 1 .. c |-> Untouched] \in Seq(Int) /\ Len([i \in 1 .. c |-> Untouched]) = c
      BY <3>3, <3>4, TableIsSeq
    <3> QED
      BY <3>1, <3>2, <3>3, <3>5
  <2>3. position = 0 /\ flushed = 0 /\ stage = "Window"
    BY <1>2, <1>11
  <2>4. History(Buffer)' = [bytes |-> slice', pos |-> 0, flushed |-> 0, out |-> out]
    BY <1>1, <2>1, <2>3 DEF History, Buffer
  <2>5. /\ Good([bytes |-> slice', pos |-> 0, flushed |-> 0, out |-> out], text, window, TRUE, FALSE, out)
        /\ Lapped([bytes |-> slice', pos |-> 0, flushed |-> 0, out |-> out], TRUE)
    BY <1>3, <2>2, FreshGood
  <2>6. /\ Good(History(Buffer)', text', window', Whole', Delivers', out') /\ Lapped(History(Buffer)', Whole')
    BY <1>1, <2>1, <2>4, <2>5
  <2>7. cap' + position' = Len(slice')
    <3>1. position' = 0
      BY <1>1, <2>3
    <3>2. PICK c : c = cap'
      OBVIOUS
    <3>3. c \in Nat /\ Len(slice') = c
      BY <2>2, <3>2
    <3>4. c + 0 = c
      BY <3>3
    <3> QED
      BY <3>1, <3>2, <3>3, <3>4
  <2>8. \A i \in position' + Owed' + 1 .. Len(slice') : slice'[i] = Untouched
    <3>1. Owed' = 0
      BY <1>1, <2>3 DEF Owed, Settled
    <3>2. position' + Owed' + 1 = 1
      BY <1>1, <2>3, <3>1
    <3> QED
      BY <1>11, <2>2, <3>2
  <2>9. HistoryInv'
    BY <1>1, <1>3, <1>7, <1>8, <1>11, <2>1, <2>2, <2>6, <2>7, <2>8 DEF HistoryInv
  <2>10. PlaceInv'
    BY <1>0, <1>1, <1>2, <1>11 DEF PlaceInv
  <2> QED
    BY <2>9, <2>10
<1>12. StageInv'
  BY <1>0, <1>1, StageStands
<1>13. StreamTypes'
  BY <1>0, <1>1 DEF StreamTypes
<1>14. BoundInv'
  BY <1>0, <1>1 DEF BoundInv
<1>15. HistoryInv' /\ PlaceInv'
  BY <1>9, <1>10, <1>11 DEF Call
<1> QED
  BY <1>12, <1>13, <1>14, <1>15 DEF StreamInv

(* The first bytes of the buffer are the text. *)
LEMMA WholeIsText ==
  ASSUME HistoryInv, Whole, NEW n \in 0 .. position
  PROVE  SubSeq(Buffer, 1, n) = SubSeq(text, 1, n) /\ n <= Len(Buffer)
<1>1. /\ position \in Nat /\ text \in Seq(Int) /\ position <= Len(text) /\ Len(text) \in Nat
      /\ Buffer \in Seq(Int) /\ Len(Buffer) \in Nat
  BY HistoryTypes DEF Buffer
<1>2. Good(History(Buffer), text, window, Whole, Delivers, out)
  BY DEF HistoryInv
<1>3. History(Buffer).pos = position /\ History(Buffer).bytes = Buffer
  BY HistoryFields
<1>4. position <= Len(Buffer) /\ \A p \in 0 .. position - 1 : At(Buffer, p) = text[p + 1]
  BY <1>2, <1>3 DEF Good, Roomy, Holds
<1>5. ASSUME NEW i \in 1 .. n PROVE Buffer[i] = text[i]
  <2>1. i - 1 \in 0 .. position - 1 /\ (i - 1) + 1 = i /\ Len(Buffer) \in Nat \ {0}
        /\ i - 1 \in 0 .. Len(Buffer) - 1 /\ i - 1 \in Int
    BY <1>1, <1>4
  <2>2. (i - 1) % Len(Buffer) = i - 1
    BY <2>1, ModSmall
  <2>3. At(Buffer, i - 1) = Buffer[((i - 1) % Len(Buffer)) + 1]
    BY <1>1, <2>1, AtIs
  <2> QED
    BY <1>4, <2>1, <2>2, <2>3
<1>6. 1 \in Nat \ {0} /\ 1 <= n + 1 /\ n <= Len(Buffer) /\ n <= Len(text) /\ n \in Nat /\ n + 1 - 1 = n
  BY <1>1, <1>4
<1>7. SubSeq(Buffer, 1, n) \in Seq(Int) /\ Len(SubSeq(Buffer, 1, n)) = n
      /\ \A i \in 1 .. n : SubSeq(Buffer, 1, n)[i] = Buffer[1 + i - 1]
  BY <1>1, <1>6, PartOf, SMTT(30)
<1>8. SubSeq(text, 1, n) \in Seq(Int) /\ Len(SubSeq(text, 1, n)) = n
      /\ \A i \in 1 .. n : SubSeq(text, 1, n)[i] = text[1 + i - 1]
  BY <1>1, <1>6, PartOf
<1>9. \A i \in 1 .. n : SubSeq(Buffer, 1, n)[i] = SubSeq(text, 1, n)[i]
  BY <1>5, <1>7, <1>8
<1> QED
  BY <1>6, <1>7, <1>8, <1>9, SeqEqual

(* No change of what the history's invariant speaks of. *)
LEMMA HistoryRests ==
  ASSUME HistoryInv, UNCHANGED <<callVars, historyVars, window, text, stage, remaining>>
  PROVE  HistoryInv'
<1>1. remaining \in Nat
  BY HistoryTypes
<1>2. CASE stage \in Settled
  BY <1>1, <1>2, HistoryStays
<1>3. CASE stage \notin Settled
  BY <1>3, HistoryStays
<1> QED
  BY <1>2, <1>3

(* A collecting call that is full hands its bytes over. *)
LEMMA HandsOver ==
  ASSUME HistoryInv, flushed = position, delivery = "collect", delivery' = "slice",
         out' = SubSeq(ring, 1, position),
         UNCHANGED <<cap, allow, slice, ring, position, flushed, window, text, stage, remaining>>
  PROVE  HistoryInv'
<1>1. Whole /\ ~Linear /\ ~Linear' /\ Whole' = FALSE /\ Delivers' = TRUE
  BY DEF Whole, Linear, Delivers
<1>2. Buffer = ring /\ Buffer' = ring
  BY <1>1 DEF Buffer
<1>3. /\ position \in Nat /\ text \in Seq(Int) /\ position <= Len(text) /\ window \in Nat /\ window > Chunk
      /\ ring \in Seq(Int)
  BY HistoryTypes
<1> DEFINE h == History(Buffer)
           u == SubSeq(text, 1, position)
           g == [bytes |-> ring, pos |-> position, flushed |-> position, out |-> u]
<1>4. SubSeq(ring, 1, position) = u /\ position <= Len(ring)
  <2>1. position \in 0 .. position
    BY <1>3
  <2> QED
    BY <1>1, <1>2, <2>1, WholeIsText
<1>5. Good(h, text, window, Whole, Delivers, out)
  BY DEF HistoryInv
<1>6. h.pos = position /\ h.bytes = ring /\ g.pos = position /\ g.bytes = ring /\ g.flushed = position /\ g.out = u
  BY <1>2, HistoryFields
<1>7. History(Buffer)' = g
  BY <1>2, <1>4 DEF History
<1>8. u \in Seq(Int)
  <2>1. 1 \in Nat \ {0} /\ 1 <= position + 1
    BY <1>3
  <2> QED
    BY <1>3, <2>1, PartOf
<1>9. g \in Histories
  BY <1>3, <1>8 DEF Histories
<1> HIDE DEF g, h, u
<1>10. Holds(g, text, window, FALSE)
  BY <1>1, <1>5, <1>6 DEF Good, Holds
<1>11. Roomy(g, g.pos, window, FALSE) /\ Contiguous(g, FALSE) /\ Lapped(g, FALSE)
  BY <1>4, <1>6 DEF Roomy, Contiguous, Lapped
<1>12. Delivered(g, text, TRUE, out')
  BY <1>6 DEF Delivered, u
<1>13. Good(g, text, window, FALSE, TRUE, out')
  <2>1. g.flushed <= g.pos /\ g.pos <= Len(text)
    BY <1>3, <1>6
  <2>2. FALSE \in BOOLEAN /\ TRUE \in BOOLEAN /\ ~FALSE
    OBVIOUS
  <2> QED
    BY <1>3, <1>9, <1>10, <1>11, <1>12, <2>1, <2>2, Zenon DEF Good
<1>14. Good(History(Buffer)', text', window', Whole', Delivers', out') /\ Lapped(History(Buffer)', Whole')
  BY <1>1, <1>7, <1>11, <1>13
<1>15. Owed' = Owed
  BY DEF Owed
<1>16. position' + Owed' <= MaxText
  BY <1>15 DEF HistoryInv
<1> QED
  BY <1>1, <1>14, <1>16 DEF HistoryInv

LEMMA StopHolds ==
  ASSUME StreamInv, mode = "run", fast = "no", NEW input \in BOOLEAN, Stop(input)
  PROVE  StreamInv'
<1>0. HistoryInv /\ StreamTypes /\ PlaceInv /\ BoundInv /\ StageInv
  BY DEF StreamInv
<1>1. /\ mode' = IF Linear \/ (input /\ delivery = "collect") THEN "over" ELSE "idle"
      /\ IF delivery = "collect" /\ ~input
         THEN out' = SubSeq(ring, 1, position) /\ delivery' = "slice"
         ELSE UNCHANGED <<out, delivery>>
      /\ UNCHANGED <<fault, cap, allow, slice, ring, position, flushed, stage, remaining, last,
                     literals, copy, implicit, distance, code, cache, offset, start, prefixHistory,
                     scratch, fast, window, prefix, single, member, fresh, text, recents>>
  BY DEF Stop, blockVars, commandVars, copyVars, memberVars, formatVars
<1>2. flushed = position /\ fresh = FALSE
  BY <1>0 DEF PlaceInv, StreamTypes
<1>3. HistoryInv'
  <2>1. CASE delivery = "collect" /\ ~input
    BY <1>0, <1>1, <1>2, <2>1, HandsOver
  <2>2. CASE ~(delivery = "collect" /\ ~input)
    <3>1. remaining \in Nat
      BY <1>0, HistoryTypes
    <3>2. UNCHANGED <<callVars, historyVars, window, text>> /\ stage' = stage /\ remaining' = remaining
      BY <1>1, <2>2 DEF callVars, historyVars
    <3> QED
      BY <1>0, <3>1, <3>2, HistoryRests
  <2> QED
    BY <2>1, <2>2
<1>4. StageInv'
  BY <1>0, <1>1, StageStands
<1>5. StreamTypes'
  BY <1>0, <1>1 DEF StreamTypes
<1>6. PlaceInv'
  <2>1. delivery \in {"slice", "collect", "linear"}
    BY <1>0 DEF HistoryInv
  <2> QED
    BY <1>0, <1>1, <1>2, <2>1 DEF PlaceInv, Linear
<1>7. BoundInv'
  BY <1>0, <1>1 DEF BoundInv
<1> QED
  BY <1>3, <1>4, <1>5, <1>6, <1>7 DEF StreamInv

LEMMA CallEnds == ASSUME StreamInv, OutputStop \/ NeedsInput \/ InputFails PROVE StreamInv'
<1>1. CASE OutputStop
  <2>1. mode = "run" /\ fast = "no" /\ (Fail("limit") \/ Stop(FALSE))
    BY <1>1 DEF OutputStop
  <2> QED
    BY <2>1, FailHolds, StopHolds
<1>2. CASE NeedsInput
  <2>1. mode = "run" /\ fast = "no" /\ Stop(TRUE)
    BY <1>2, Zenon DEF NeedsInput, AtInput
  <2> QED
    BY <2>1, StopHolds
<1>3. CASE InputFails
  <2>1. mode = "run" /\ fast = "no" /\ Fail("data")
    BY <1>3, Zenon DEF InputFails, AtInput, In
  <2> QED
    BY <2>1, FailHolds
<1> QED
  BY <1>1, <1>2, <1>3

-----------------------------------------------------------------------------
(* Headers and the stages that write nothing. *)

(* A step to a stage that writes nothing, after one that has written all. *)
LEMMA PlainStep ==
  ASSUME StreamInv, Len(text) = position, stage' \notin Writing,
         UNCHANGED <<callVars, historyVars, window, text>>,
         \/ stage' \in Settled /\ (stage \in Settled \/ remaining = 0) /\ remaining' \in Nat
         \/ stage \notin Settled /\ stage' \notin Settled /\ remaining' = remaining
  PROVE  HistoryInv' /\ StageInv'
<1>1. HistoryInv'
  BY HistoryStays DEF StreamInv
<1>2. Len(text') = position'
  BY DEF historyVars
<1> QED
  BY <1>1, <1>2, PlainStage

(* What every step of a running call outside the fast loop meets. *)
LEMMA Running ==
  ASSUME StreamInv, mode = "run", fast = "no"
  PROVE  /\ HistoryInv /\ StreamTypes /\ PlaceInv /\ BoundInv /\ StageInv
         /\ fresh = FALSE /\ flushed = position /\ remaining \in Nat
  BY HistoryTypes DEF StreamInv, PlaceInv, StreamTypes

LEMMA GotoHolds ==
  ASSUME StreamInv, mode = "run", fast = "no", Len(text) = position,
         NEW s \in {"Command", "EndBlock", "End", "Meta", "Distance"}, Goto(s),
         s = "Distance" => copy > 0,
         s \in Settled => stage \in Settled \/ remaining = 0,
         s \notin Settled => stage \notin Settled,
         stage # "Window"
  PROVE  StreamInv'
<1>0. /\ HistoryInv /\ StreamTypes /\ PlaceInv /\ BoundInv /\ StageInv
      /\ fresh = FALSE /\ flushed = position /\ remaining \in Nat
  BY Running
<1>1. /\ stage' = s
      /\ UNCHANGED <<mode, fault, delivery, cap, allow, slice, ring, position, flushed, out, remaining, last,
                     literals, copy, implicit, distance, code, cache, offset, start, prefixHistory,
                     scratch, fast, window, prefix, single, member, fresh, text, recents>>
  BY DEF Goto, callVars, historyVars, blockVars, commandVars, copyVars, memberVars, formatVars
<1>2. HistoryInv' /\ StageInv'
  <2>1. stage' \notin Writing
    BY <1>1 DEF Writing
  <2>2. UNCHANGED <<callVars, historyVars, window, text>>
    BY <1>1 DEF callVars, historyVars
  <2>3. \/ stage' \in Settled /\ (stage \in Settled \/ remaining = 0) /\ remaining' \in Nat
        \/ stage \notin Settled /\ stage' \notin Settled /\ remaining' = remaining
    BY <1>0, <1>1
  <2> QED
    BY <2>1, <2>2, <2>3, PlainStep
<1>3. StreamTypes'
  BY <1>0, <1>1 DEF StreamTypes, Stages, Reading
<1>4. PlaceInv'
  BY <1>0, <1>1 DEF PlaceInv, Linear
<1>5. BoundInv'
  BY <1>0, <1>1 DEF BoundInv
<1> QED
  BY <1>2, <1>3, <1>4, <1>5 DEF StreamInv

LEMMA ReadWindowHolds == ASSUME StreamInv, ReadWindow PROVE StreamInv'
<1>0. /\ mode = "run" /\ fast = "no" /\ stage = "Window" /\ stage' = "Meta" /\ window' \in Windows
      /\ UNCHANGED <<mode, fault, delivery, cap, allow, slice, ring, position, flushed, out, remaining, last,
                     literals, copy, implicit, distance, code, cache, offset, start, prefixHistory,
                     scratch, fast, prefix, single, member, fresh, text, recents>>
  BY DEF ReadWindow, In, callVars, historyVars, blockVars, commandVars, copyVars, formatVars
<1>1. /\ HistoryInv /\ StreamTypes /\ PlaceInv /\ BoundInv /\ StageInv
      /\ fresh = FALSE /\ flushed = position /\ remaining \in Nat
  BY <1>0, Running
<1>2. position = 0 /\ flushed = 0 /\ text = <<>> /\ delivery # "collect"
  BY <1>0, <1>1 DEF PlaceInv
<1>3. window' \in Nat /\ window' > Chunk
  BY <1>0, DecoderAssumption, Zenon DEF DecoderAssumption
<1>4. /\ Buffer \in Seq(Int) /\ text \in Seq(Int) /\ Whole \in BOOLEAN /\ Delivers \in BOOLEAN
      /\ (Whole => ~Delivers) /\ out \in Seq(Int)
  BY <1>1, HistoryTypes DEF Buffer
<1>5. Delivers => out = <<>>
  <2>1. Good(History(Buffer), text, window, Whole, Delivers, out) /\ History(Buffer).flushed = 0
        /\ History(Buffer).out = out
    BY <1>1, <1>2, HistoryFields DEF HistoryInv
  <2>2. Delivers => out = SubSeq(text, 1, 0)
    BY <2>1 DEF Good, Delivered
  <2>3. SubSeq(<<>>, 1, 0) = <<>>
    OBVIOUS
  <2> QED
    BY <1>2, <2>2, <2>3
<1>6. /\ Good([bytes |-> Buffer, pos |-> 0, flushed |-> 0, out |-> out], text, window', Whole, Delivers, out)
      /\ Lapped([bytes |-> Buffer, pos |-> 0, flushed |-> 0, out |-> out], Whole)
  BY <1>3, <1>4, <1>5, FreshGood
<1>7. Linear' = Linear /\ Whole' = Whole /\ Delivers' = Delivers
  BY <1>0 DEF Linear, Whole, Delivers
<1>8. Buffer' = Buffer
  BY <1>0, <1>7 DEF Buffer
<1>9. History(Buffer)' = [bytes |-> Buffer, pos |-> 0, flushed |-> 0, out |-> out]
  BY <1>0, <1>2, <1>8 DEF History
<1>10. Good(History(Buffer)', text', window', Whole', Delivers', out') /\ Lapped(History(Buffer)', Whole')
  BY <1>0, <1>6, <1>7, <1>9
<1>11. Owed' = Owed
  BY <1>0 DEF Owed, Settled
<1>12. position' + Owed' <= MaxText
  BY <1>0, <1>1, <1>11 DEF HistoryInv
<1>13. Linear' => \A i \in position' + Owed' + 1 .. Len(slice') : slice'[i] = Untouched
  BY <1>0, <1>1, <1>7, <1>11 DEF HistoryInv
<1>14. HistoryInv'
  BY <1>0, <1>1, <1>2, <1>7, <1>10, <1>12, <1>13 DEF HistoryInv
<1>15. StageInv'
  <2>1. Len(text') = position'
    BY <1>0, <1>2, EmptySeq
  <2> QED
    BY <1>0, <2>1, PlainStage DEF Writing
<1>16. StreamTypes'
  BY <1>0, <1>1 DEF StreamTypes, Stages, Reading
<1>17. PlaceInv'
  BY <1>0, <1>1 DEF PlaceInv, Linear
<1>18. BoundInv'
  BY <1>0, <1>1 DEF BoundInv
<1> QED
  BY <1>14, <1>15, <1>16, <1>17, <1>18 DEF StreamInv

LEMMA ReadMetaHolds == ASSUME StreamInv, ReadMeta PROVE StreamInv'
<1>0. /\ mode = "run" /\ fast = "no" /\ stage = "Meta"
      /\ UNCHANGED <<mode, fault, delivery, cap, allow, slice, ring, position, flushed, out,
                     literals, copy, implicit, distance, code, cache, offset, start, prefixHistory,
                     scratch, fast, window, prefix, single, member, fresh, text, recents>>
  BY DEF ReadMeta, In, callVars, historyVars, commandVars, copyVars, memberVars, formatVars
<1>1. /\ HistoryInv /\ StreamTypes /\ PlaceInv /\ BoundInv /\ StageInv
      /\ fresh = FALSE /\ flushed = position /\ remaining \in Nat
  BY <1>0, Running
<1>2. Lengths \subseteq Nat
  BY DecoderAssumption, Zenon DEF DecoderAssumption
<1>3. \/ stage' \in {"End", "Metadata"} /\ remaining' \in Nat
      \/ stage' \in {"Raw", "Tables"} /\ remaining' \in Nat /\ position + remaining' <= MaxText
  <2>1. \/ stage' = "End" /\ remaining' = remaining
        \/ stage' = "Metadata" /\ remaining' \in {0, 1}
        \/ remaining' \in {n \in Lengths : position + n <= MaxText} /\ stage' \in {"Raw", "Tables"}
    BY DEF ReadMeta, blockVars
  <2>2. CASE remaining' \in {n \in Lengths : position + n <= MaxText} /\ stage' \in {"Raw", "Tables"}
    <3>1. remaining' \in Lengths /\ position + remaining' <= MaxText
      BY <2>2
    <3> QED
      BY <1>2, <2>2, <3>1
  <2> QED
    BY <1>1, <2>1, <2>2
<1>4. last' \in BOOLEAN
  BY <1>1 DEF ReadMeta, blockVars, StreamTypes
<1>5. Len(text) = position
  BY <1>0, PlainText DEF Writing
<1>6. UNCHANGED <<callVars, historyVars, window, text>> /\ stage' \notin Writing
  BY <1>0, <1>3 DEF callVars, historyVars, Writing
<1>7. HistoryInv'
  <2>1. CASE stage' \in {"End", "Metadata"} /\ remaining' \in Nat
    <3>1. stage' \in Settled /\ stage \in Settled
      BY <1>0, <2>1 DEF Settled
    <3> QED
      BY <1>1, <1>6, <2>1, <3>1, HistoryStays
  <2>2. CASE stage' \in {"Raw", "Tables"} /\ remaining' \in Nat /\ position + remaining' <= MaxText
    <3>1. PICK e : e = remaining'
      OBVIOUS
    <3>2. Owed' = e
      BY <2>2, <3>1 DEF Owed, Settled
    <3>3. Owed = 0 /\ e \in Nat /\ position + e <= MaxText
      BY <1>0, <2>2, <3>1 DEF Owed, Settled
    <3>4. Owed <= e
      BY <3>3
    <3>5. Extends(text, text')
      BY <1>0, <1>1, ExtendsItself, HistoryTypes
    <3>6. UNCHANGED <<callVars, historyVars, window>>
      BY <1>6
    <3> QED
      BY <1>1, <2>2, <3>2, <3>3, <3>4, <3>5, <3>6, HistoryStands
  <2> QED
    BY <1>3, <2>1, <2>2
<1>8. StageInv'
  BY <1>0, <1>5, <1>6, PlainStage
<1>9. StreamTypes'
  BY <1>0, <1>1, <1>3, <1>4 DEF StreamTypes, Stages, Reading
<1>10. PlaceInv'
  BY <1>0, <1>1, <1>3 DEF PlaceInv, Linear
<1>11. BoundInv'
  BY <1>0, <1>3 DEF BoundInv
<1> QED
  BY <1>7, <1>8, <1>9, <1>10, <1>11 DEF StreamInv

LEMMA HeadersHold == ASSUME StreamInv, Headers PROVE StreamInv'
<1>1. CASE ReadWindow
  BY <1>1, ReadWindowHolds
<1>2. CASE ReadMeta
  BY <1>2, ReadMetaHolds
<1>3. CASE SkipMetadata
  <2>0. /\ mode = "run" /\ fast = "no" /\ stage = "Metadata" /\ remaining' \in 0 .. remaining - 1
        /\ UNCHANGED <<mode, fault, delivery, cap, allow, slice, ring, position, flushed, out, stage, last,
                       literals, copy, implicit, distance, code, cache, offset, start, prefixHistory,
                       scratch, fast, window, prefix, single, member, fresh, text, recents>>
    BY <1>3 DEF SkipMetadata, In, callVars, historyVars, commandVars, copyVars, memberVars, formatVars
  <2>1. /\ HistoryInv /\ StreamTypes /\ PlaceInv /\ BoundInv /\ StageInv
        /\ fresh = FALSE /\ flushed = position /\ remaining \in Nat
    BY <2>0, Running
  <2>2. HistoryInv' /\ StageInv'
    <3>1. Len(text) = position
      BY <2>0, PlainText DEF Writing
    <3>2. UNCHANGED <<callVars, historyVars, window, text>> /\ stage' \notin Writing
      BY <2>0 DEF callVars, historyVars, Writing
    <3>3. stage' \in Settled /\ stage \in Settled /\ remaining' \in Nat
      BY <2>0, <2>1 DEF Settled
    <3> QED
      BY <3>1, <3>2, <3>3, PlainStep
  <2>3. StreamTypes'
    BY <2>0, <2>1 DEF StreamTypes
  <2>4. PlaceInv'
    BY <2>0, <2>1 DEF PlaceInv, Linear
  <2>5. BoundInv'
    BY <2>0 DEF BoundInv
  <2> QED
    BY <2>2, <2>3, <2>4, <2>5 DEF StreamInv
<1>4. CASE ReadTables
  <2>1. mode = "run" /\ fast = "no" /\ stage = "Tables" /\ (Goto("Command") \/ Fail("memory"))
    BY <1>4 DEF ReadTables, In
  <2>2. Len(text) = position
    BY <2>1, PlainText DEF Writing
  <2>3. stage \notin Settled /\ "Command" \notin Settled
    BY <2>1 DEF Settled
  <2> QED
    BY <2>1, <2>2, <2>3, GotoHolds, FailHolds
<1>5. CASE BlockDone
  <2>1. mode = "run" /\ fast = "no" /\ stage \in {"Metadata", "Raw", "Command", "Literals"}
        /\ remaining = 0 /\ Goto("EndBlock")
    BY <1>5 DEF BlockDone, In
  <2>2. Len(text) = position
    BY <2>1, PlainText DEF Writing
  <2>3. "EndBlock" \in Settled
    BY DEF Settled
  <2> QED
    BY <2>1, <2>2, <2>3, GotoHolds
<1>6. CASE EndBlock
  <2>1. mode = "run" /\ fast = "no" /\ stage = "EndBlock" /\ (Goto("End") \/ Goto("Meta"))
    BY <1>6 DEF EndBlock, In
  <2>2. Len(text) = position
    BY <2>1, PlainText DEF Writing
  <2>3. "End" \in Settled /\ "Meta" \in Settled /\ stage \in Settled
    BY <2>1 DEF Settled
  <2> QED
    BY <2>1, <2>2, <2>3, GotoHolds
<1> QED
  BY <1>1, <1>2, <1>3, <1>4, <1>5, <1>6 DEF Headers

-----------------------------------------------------------------------------
(* Commands. *)

(* What a command's stage leaves alone. *)
Untold ==
  UNCHANGED <<mode, fault, delivery, cap, allow, slice, ring, position, flushed, out, remaining, last,
              fast, window, prefix, single, member, fresh>>

LEMMA ReadCommandHolds ==
  ASSUME StreamInv, ReadCommand \/ ReadInsert \/ ReadCopy
  PROVE  StreamInv'
<1> DEFINE Rest == UNCHANGED <<distance, offset, start, prefixHistory, scratch, text>>
<1>1. Inserts \subseteq Nat /\ Copies \subseteq Nat \ {0, 1}
  BY DecoderAssumption, Zenon DEF DecoderAssumption
<1>2. /\ mode = "run" /\ fast = "no" /\ stage \in {"Command", "InsertExtra", "CopyExtra"}
      /\ \/ Fail("data")
         \/ Untold /\ Rest /\ UNCHANGED <<literals, copy>> /\ implicit' \in BOOLEAN /\ stage' = "InsertExtra"
         \/ /\ Untold /\ Rest /\ UNCHANGED <<copy, implicit>> /\ stage' = "CopyExtra"
            /\ literals' \in Nat /\ literals' <= remaining
         \/ /\ Untold /\ Rest /\ UNCHANGED <<literals, implicit>> /\ stage = "CopyExtra" /\ stage' = "Literals"
            /\ copy' \in Nat /\ copy' > 0
  <2>0. StreamInv => remaining \in Nat
    BY HistoryTypes DEF StreamInv
  <2>1. CASE ReadCommand
    BY <2>1 DEF ReadCommand, In, Untold, callVars, historyVars, blockVars, copyVars, memberVars, formatVars
  <2>2. CASE ReadInsert
    <3>1. mode = "run" /\ fast = "no" /\ stage = "InsertExtra"
      BY <2>2 DEF ReadInsert, In
    <3>2. PICK n \in Inserts :
            \/ n > remaining /\ Fail("data")
            \/ /\ ~(n > remaining) /\ literals' = n /\ stage' = "CopyExtra"
               /\ UNCHANGED <<mode, fault, callVars, historyVars, blockVars, copy, implicit,
                              distance, code, cache, copyVars, fast, memberVars, fresh, formatVars>>
      BY <2>2, Zenon DEF ReadInsert
    <3>3. CASE n > remaining /\ Fail("data")
      BY <3>1, <3>3
    <3>4. CASE /\ ~(n > remaining) /\ literals' = n /\ stage' = "CopyExtra"
               /\ UNCHANGED <<mode, fault, callVars, historyVars, blockVars, copy, implicit,
                              distance, code, cache, copyVars, fast, memberVars, fresh, formatVars>>
      <4>1. literals' \in Nat /\ literals' <= remaining
        BY <1>1, <2>0, <3>4
      <4> QED
        BY <3>1, <3>4, <4>1 DEF Untold, callVars, historyVars, blockVars, copyVars, memberVars, formatVars
    <3> QED
      BY <3>2, <3>3, <3>4
  <2>3. CASE ReadCopy
    <3>1. copy' \in Nat /\ copy' > 0
      BY <1>1, <2>3 DEF ReadCopy
    <3> QED
      BY <2>3, <3>1 DEF ReadCopy, In, Untold, callVars, historyVars, blockVars, copyVars, memberVars, formatVars
  <2> QED
    BY <2>1, <2>2, <2>3
<1>3. /\ HistoryInv /\ StreamTypes /\ PlaceInv /\ BoundInv /\ StageInv
      /\ fresh = FALSE /\ flushed = position /\ remaining \in Nat
  BY <1>2, Running
<1>4. CASE Fail("data")
  BY <1>2, <1>4, FailHolds
<1>5. ASSUME Untold, Rest, stage' \in {"InsertExtra", "CopyExtra", "Literals"},
             literals' \in Nat, copy' \in Nat, implicit' \in BOOLEAN,
             stage' \in {"CopyExtra", "Literals"} => literals' <= remaining,
             stage' = "Literals" => copy' > 0
      PROVE  StreamInv'
  <2>1. HistoryInv' /\ StageInv'
    <3>1. Len(text) = position
      BY <1>2, PlainText DEF Writing
    <3>2. UNCHANGED <<callVars, historyVars, window, text>> /\ stage' \notin Writing
      BY <1>5 DEF Untold, callVars, historyVars, Writing
    <3>3. stage' \notin Settled /\ stage \notin Settled /\ remaining' = remaining
      BY <1>2, <1>5 DEF Settled, Untold
    <3> QED
      BY <3>1, <3>2, <3>3, PlainStep
  <2>2. StreamTypes'
    BY <1>3, <1>5 DEF StreamTypes, Untold, Stages, Reading
  <2>3. PlaceInv'
    BY <1>2, <1>3, <1>5 DEF PlaceInv, Untold, Linear
  <2>4. BoundInv'
    BY <1>2, <1>5 DEF BoundInv, Untold
  <2> QED
    BY <2>1, <2>2, <2>3, <2>4 DEF StreamInv
<1>6. literals \in Nat /\ copy \in Nat /\ implicit \in BOOLEAN
  BY <1>3 DEF StreamTypes
<1>7. stage = "CopyExtra" => literals <= remaining
  BY <1>3 DEF BoundInv
<1> HIDE DEF Rest
<1> QED
  BY <1>2, <1>4, <1>5, <1>6, <1>7

LEMMA ReadDistanceHolds ==
  ASSUME StreamInv, LiteralsDone \/ ReadDistance \/ ReadDistanceExtra
  PROVE  StreamInv'
<1> DEFINE Rest == UNCHANGED <<literals, copy, implicit, offset, start, prefixHistory, scratch, text>>
<1>1. /\ mode = "run" /\ fast = "no" /\ stage \in {"Literals", "Distance", "DistanceExtra"}
      /\ \/ Fail("data") \/ Goto("Distance")
         \/ Untold /\ Rest /\ stage' \in {"DistanceExtra", "Resolve"}
  <2>1. CASE LiteralsDone
    BY <2>1 DEF LiteralsDone, In
  <2>2. CASE ReadDistance
    BY <2>2 DEF ReadDistance, In, Untold, callVars, historyVars, blockVars, copyVars, memberVars, formatVars
  <2>3. CASE ReadDistanceExtra
    BY <2>3 DEF ReadDistanceExtra, In, Untold, callVars, historyVars, blockVars, copyVars, memberVars, formatVars
  <2> QED
    BY <2>1, <2>2, <2>3
<1>2. /\ HistoryInv /\ StreamTypes /\ PlaceInv /\ BoundInv /\ StageInv
      /\ fresh = FALSE /\ flushed = position /\ remaining \in Nat
  BY <1>1, Running
<1>3. Len(text) = position
  BY <1>1, PlainText DEF Writing
<1>4. copy > 0
  BY <1>1, <1>2 DEF BoundInv
<1>5. CASE Fail("data")
  BY <1>1, <1>5, FailHolds
<1>6. CASE Goto("Distance")
  <2>1. stage \notin Settled /\ "Distance" \notin Settled
    BY <1>1 DEF Settled
  <2> QED
    BY <1>1, <1>3, <1>4, <1>6, <2>1, GotoHolds
<1>7. CASE Untold /\ Rest /\ stage' \in {"DistanceExtra", "Resolve"}
  <2>1. HistoryInv' /\ StageInv'
    <3>2. UNCHANGED <<callVars, historyVars, window, text>> /\ stage' \notin Writing
      BY <1>7 DEF Untold, callVars, historyVars, Writing
    <3>3. stage' \notin Settled /\ stage \notin Settled /\ remaining' = remaining
      BY <1>1, <1>7 DEF Settled, Untold
    <3> QED
      BY <1>3, <3>2, <3>3, PlainStep
  <2>2. StreamTypes'
    BY <1>2, <1>7 DEF StreamTypes, Untold, Stages, Reading
  <2>3. PlaceInv'
    BY <1>1, <1>2, <1>7 DEF PlaceInv, Untold, Linear
  <2>4. BoundInv'
    BY <1>1, <1>4, <1>7 DEF BoundInv, Untold
  <2> QED
    BY <2>1, <2>2, <2>3, <2>4 DEF StreamInv
<1> HIDE DEF Rest
<1> QED
  BY <1>1, <1>5, <1>6, <1>7

(* A reference adds to the text what its stage is going to write. *)
LEMMA ResolveKeeps ==
  ASSUME StreamInv, mode = "run", fast = "no", stage = "Resolve",
         UNCHANGED <<mode, fault, callVars, historyVars, blockVars, commandVars, fast, memberVars, fresh>>,
         Extends(text, text'), stage' \in {"Copy", "Prefix", "Dictionary"},
         offset' \in Nat, start' \in Nat, prefixHistory' \in Seq(Int), scratch' \in Seq(Int),
         stage' \in {"Copy", "Prefix"} => copy <= remaining,
         stage' = "Dictionary" => Len(scratch') <= remaining
  PROVE  HistoryInv' /\ StreamTypes' /\ PlaceInv' /\ BoundInv'
<1>0. UNCHANGED <<mode, fault, delivery, cap, allow, slice, ring, position, flushed, out, remaining, last,
                  literals, copy, implicit, distance, code, fast, window, prefix, single, member, fresh>>
  BY DEF callVars, historyVars, blockVars, commandVars, memberVars
<1>1. /\ HistoryInv /\ StreamTypes /\ PlaceInv /\ BoundInv /\ StageInv
      /\ fresh = FALSE /\ flushed = position /\ remaining \in Nat
  BY Running
<1>2. HistoryInv'
  <2>1. Owed' = remaining
    BY <1>0 DEF Owed, Settled
  <2>2. Owed = remaining /\ position + Owed <= MaxText
    BY <1>1 DEF Owed, Settled, HistoryInv
  <2>3. Owed <= remaining /\ position + remaining <= MaxText /\ remaining' \in Nat
    BY <1>0, <1>1, <2>2
  <2>4. UNCHANGED <<callVars, historyVars, window>>
    BY <1>0 DEF callVars, historyVars
  <2> QED
    BY <1>1, <2>1, <2>3, <2>4, HistoryStands
<1>3. StreamTypes'
  BY <1>0, <1>1 DEF StreamTypes, Stages, Reading
<1>4. PlaceInv'
  BY <1>0, <1>1 DEF PlaceInv, Linear
<1>5. BoundInv'
  <2>1. stage' = "Dictionary" => Len(scratch') <= remaining'
    BY <1>0
  <2>2. stage' \in {"Copy", "Prefix"} => copy' <= remaining'
    BY <1>0
  <2> QED
    BY <1>0, <2>1, <2>2 DEF BoundInv
<1> QED
  BY <1>2, <1>3, <1>4, <1>5

(* At Resolve there is a distance, and nothing is being written. *)
LEMMA AtResolve ==
  ASSUME CacheInv, StreamInv, In("Resolve")
  PROVE  /\ mode = "run" /\ fast = "no" /\ stage = "Resolve" /\ distance \in Nat \ {0}
         /\ HistoryInv /\ StreamTypes /\ Len(text) = position /\ copy \in Nat /\ copy > 0 /\ prefix \in Nat
         /\ position \in Nat /\ Available \in Nat /\ MaxBackward \in Nat /\ remaining \in Nat
         /\ offset \in Nat /\ start \in Nat /\ scratch \in Seq(Int) /\ prefixHistory \in Seq(Int)
<1>1. mode = "run" /\ fast = "no" /\ stage = "Resolve"
  BY DEF In
<1>2. distance \in Nat \ {0}
  BY <1>1 DEF CacheInv
<1>3. HistoryInv /\ StreamTypes /\ BoundInv
  BY DEF StreamInv
<1>4. Len(text) = position
  BY <1>1, PlainText DEF Writing
<1>5. copy > 0
  BY <1>1, <1>3 DEF BoundInv
<1>6. position \in Nat /\ remaining \in Nat
  BY <1>3, HistoryTypes
<1>7. Available \in Nat /\ MaxBackward \in Nat
  BY <1>3, Measures
<1> QED
  BY <1>1, <1>2, <1>3, <1>4, <1>5, <1>6, <1>7 DEF StreamTypes

LEMMA ResolveCopyHolds == ASSUME CacheInv, StreamInv, ResolveCopy PROVE StreamInv'
<1>1. /\ mode = "run" /\ fast = "no" /\ stage = "Resolve" /\ distance \in Nat \ {0}
      /\ HistoryInv /\ StreamTypes /\ Len(text) = position /\ copy \in Nat /\ copy > 0 /\ prefix \in Nat
      /\ position \in Nat /\ Available \in Nat /\ MaxBackward \in Nat /\ remaining \in Nat
      /\ offset \in Nat /\ start \in Nat /\ scratch \in Seq(Int) /\ prefixHistory \in Seq(Int)
  BY AtResolve DEF ResolveCopy
<1>2. CASE copy > remaining
  <2>1. Fail("data")
    BY <1>2 DEF ResolveCopy
  <2> QED
    BY <1>1, <2>1, FailHolds
<1>3. CASE ~(copy > remaining)
  <2>1. /\ distance <= Available /\ text' = text \o Copied(distance, copy) /\ stage' = "Copy"
        /\ UNCHANGED <<mode, fault, callVars, historyVars, blockVars, commandVars, copyVars,
                       fast, memberVars, fresh>>
    BY <1>3 DEF ResolveCopy, Reference
  <2>2. Extends(text, text') /\ Len(text') = position + copy /\ Recurs(text', position, distance, copy)
    BY <1>1, <2>1, CopyRecurs
  <2>3. UNCHANGED <<position, window, copy, distance, offset, start, prefixHistory, scratch>>
    BY <2>1 DEF historyVars, memberVars, commandVars, copyVars
  <2>4. HistoryInv' /\ StreamTypes' /\ PlaceInv' /\ BoundInv'
    <3>1. offset' \in Nat /\ start' \in Nat /\ prefixHistory' \in Seq(Int) /\ scratch' \in Seq(Int)
      BY <1>1, <2>3
    <3>2. copy <= remaining
      BY <1>1, <1>3
    <3> QED
      BY <1>1, <2>1, <2>2, <3>1, <3>2, ResolveKeeps
  <2>5. Available' = Available
    BY <2>3 DEF Available, MaxBackward
  <2>6. CopyInv'
    <3>1. 1 <= distance
      BY <1>1
    <3>2. Len(text') = position' + copy' /\ 1 <= distance' /\ distance' <= Available'
          /\ Recurs(text', position', distance', copy')
      BY <2>1, <2>2, <2>3, <2>5, <3>1
    <3> QED
      BY <3>2 DEF CopyInv
  <2>7. PrefixInv' /\ PendingInv'
    BY <2>1 DEF PrefixInv, PendingInv
  <2> QED
    BY <2>4, <2>6, <2>7 DEF StreamInv, StageInv
<1> QED
  BY <1>2, <1>3

(* A word of n bytes. *)
LEMMA WordIs ==
  ASSUME HistoryInv, StreamTypes, NEW n \in Nat
  PROVE  Lengthened(Word(n), n)
<1>1. position \in Nat /\ member \in Nat /\ MaxText \in Nat
  BY HistoryTypes, DecoderAssumption DEF StreamTypes
<1>2. ASSUME NEW i \in 1 .. n PROVE Literal(position + i - 1) \in Int
  BY <1>1 DEF Literal
<1>3. Word(n) \in [1 .. n -> Int]
  BY <1>2 DEF Word
<1> QED
  BY <1>3, TableIsSeq DEF Lengthened

(* What follows the position in a text that grew. *)
LEMMA EnlargedTail ==
  ASSUME HistoryInv, NEW t, NEW s, NEW n, Lengthened(s, n), Enlarged(t, s, n)
  PROVE  s = SubSeq(t, position + 1, Len(t))
<1>1. /\ t \in Seq(Int) /\ Len(t) = position + n /\ n \in Nat /\ s \in Seq(Int) /\ Len(s) = n
      /\ \A k \in 1 .. n : t[position + k] = s[k]
  BY DEF Enlarged, Lengthened
<1>2. position \in Nat
  BY HistoryTypes
<1>3. position + 1 \in Nat \ {0} /\ position + n \in Nat /\ position + 1 <= (position + n) + 1
      /\ (position + n) + 1 - (position + 1) = n
  BY <1>1, <1>2
<1>4. /\ SubSeq(t, position + 1, position + n) \in Seq(Int)
      /\ Len(SubSeq(t, position + 1, position + n)) = n
      /\ \A i \in 1 .. n : SubSeq(t, position + 1, position + n)[i] = t[(position + 1) + i - 1]
  <2>1. /\ SubSeq(t, position + 1, position + n) \in Seq(Int)
        /\ Len(SubSeq(t, position + 1, position + n)) = (position + n) + 1 - (position + 1)
        /\ \A i \in 1 .. (position + n) + 1 - (position + 1) :
             SubSeq(t, position + 1, position + n)[i] = t[(position + 1) + i - 1]
    BY <1>1, <1>3, PartOf, SMTT(30)
  <2> QED
    BY <1>3, <2>1
<1>5. ASSUME NEW i \in 1 .. n PROVE s[i] = SubSeq(t, position + 1, position + n)[i]
  <2>1. (position + 1) + i - 1 = position + i
    BY <1>2
  <2> QED
    BY <1>1, <1>4, <2>1
<1>6. s = SubSeq(t, position + 1, position + n)
  BY <1>1, <1>4, <1>5, SeqEqual
<1> QED
  BY <1>1, <1>6

LEMMA ResolveWordHolds == ASSUME CacheInv, StreamInv, ResolveWord PROVE StreamInv'
<1>1. /\ mode = "run" /\ fast = "no" /\ stage = "Resolve" /\ distance \in Nat \ {0}
      /\ HistoryInv /\ StreamTypes /\ Len(text) = position /\ copy \in Nat /\ copy > 0 /\ prefix \in Nat
      /\ position \in Nat /\ Available \in Nat /\ MaxBackward \in Nat /\ remaining \in Nat
      /\ offset \in Nat /\ start \in Nat /\ scratch \in Seq(Int) /\ prefixHistory \in Seq(Int)
  BY AtResolve DEF ResolveWord
<1>2. CASE Fail("data")
  BY <1>1, <1>2, FailHolds
<1>3. ASSUME NEW n \in Words, ~WordRefused(n, distance), scratch' = Word(n), text' = text \o Word(n),
             stage' = "Dictionary",
             UNCHANGED <<mode, fault, callVars, historyVars, blockVars, commandVars, cache,
                         offset, start, prefixHistory, fast, memberVars, fresh, recents>>
      PROVE  StreamInv'
  <2>1. n \in Nat
    BY <1>3, DecoderAssumption, Zenon DEF DecoderAssumption
  <2>2. n <= remaining
    BY <1>1, <1>3, <2>1 DEF WordRefused
  <2>3. Lengthened(Word(n), n)
    BY <1>1, <2>1, WordIs
  <2>4. Enlarged(text', Word(n), n)
    BY <1>1, <1>3, <2>3, TextGrows
  <2>5. Word(n) \in Seq(Int) /\ Len(Word(n)) = n
    BY <2>3 DEF Lengthened
  <2>6. HistoryInv' /\ StreamTypes' /\ PlaceInv' /\ BoundInv'
    <3>1. offset' \in Nat /\ start' \in Nat /\ prefixHistory' \in Seq(Int) /\ scratch' \in Seq(Int)
          /\ Len(scratch') <= remaining
      BY <1>1, <1>3, <2>2, <2>5
    <3>2. Extends(text, text')
      BY <2>4 DEF Enlarged
    <3> QED
      BY <1>1, <1>3, <3>1, <3>2, ResolveKeeps
  <2>7. PICK t : t = text'
    OBVIOUS
  <2>8. Word(n) = SubSeq(t, position + 1, Len(t))
    BY <1>1, <2>3, <2>4, <2>7, EnlargedTail
  <2>9. scratch' = SubSeq(text', position' + 1, Len(text'))
    BY <1>3, <2>7, <2>8 DEF historyVars
  <2>10. CopyInv' /\ PrefixInv' /\ PendingInv'
    BY <1>3, <2>9 DEF CopyInv, PrefixInv, PendingInv
  <2> QED
    BY <2>6, <2>10 DEF StreamInv, StageInv
<1> QED
  BY <1>2, <1>3 DEF ResolveWord

LEMMA ResolvePrefixHolds == ASSUME CacheInv, StreamInv, ResolvePrefix PROVE StreamInv'
<1>1. /\ mode = "run" /\ fast = "no" /\ stage = "Resolve" /\ distance \in Nat \ {0}
      /\ HistoryInv /\ StreamTypes /\ Len(text) = position /\ copy \in Nat /\ copy > 0 /\ prefix \in Nat
      /\ position \in Nat /\ Available \in Nat /\ MaxBackward \in Nat /\ remaining \in Nat
      /\ offset \in Nat /\ start \in Nat /\ scratch \in Seq(Int) /\ prefixHistory \in Seq(Int)
  BY AtResolve DEF ResolvePrefix
<1>2. CASE Fail("data") \/ Fail("memory")
  BY <1>1, <1>2, FailHolds
<1> DEFINE o == prefix - (distance - Available)
           x == Greater(copy - (prefix - o), 0)
<1>3. ASSUME copy <= remaining, offset' = o, start' = o,
             prefixHistory' = IF distance > MaxBackward THEN Saved(x) ELSE prefixHistory,
             text' = text \o Copied(distance, copy), stage' = "Prefix",
             UNCHANGED <<mode, fault, callVars, historyVars, blockVars, commandVars, scratch,
                         fast, memberVars, fresh>>
      PROVE  StreamInv'
  <2>1. distance > Available /\ distance <= Available + prefix
    BY <1>1 DEF ResolvePrefix
  <2>2. UNCHANGED <<position, window, copy, distance, scratch, prefix>>
    BY <1>3 DEF historyVars, memberVars, commandVars
  <2>3. o \in Nat /\ o <= prefix /\ prefix - o <= distance
    BY <1>1, <2>1
  <2> DEFINE t == text \o Copied(distance, copy)
  <2>4. CASE distance <= MaxBackward
    <3> HIDE DEF o, x
    <3>1. o = prefix - (distance - Available)
      BY DEF o
    <3>2. Extends(text, t) /\ Len(t) = position + copy /\ LeadsFrom(t, position, distance, copy, prefix, o)
      BY <1>1, <2>1, <2>4, <3>1, CopyLeads
    <3>3. ~(distance > MaxBackward)
      BY <1>1, <2>4
    <3>4. prefixHistory' \in Seq(Int)
      BY <1>1, <1>3, <3>3
    <3>5. HistoryInv' /\ StreamTypes' /\ PlaceInv' /\ BoundInv'
      BY <1>1, <1>3, <2>2, <2>3, <3>2, <3>4, ResolveKeeps
    <3>6. Leads'
      BY <1>3, <2>2, <3>2 DEF Leads
    <3>7. distance' <= MaxBackward'
      BY <2>2, <2>4 DEF MaxBackward
    <3> HIDE DEF t
    <3>8. 1 <= distance
      BY <1>1
    <3>9. o <= o
      BY <2>3
    <3>10. PrefixInv'
      BY <1>3, <2>2, <2>3, <3>2, <3>6, <3>7, <3>8, <3>9 DEF PrefixInv, t
    <3>11. CopyInv' /\ PendingInv'
      BY <1>3 DEF CopyInv, PendingInv
    <3> QED
      BY <3>5, <3>10, <3>11 DEF StreamInv, StageInv
  <2>5. CASE ~(distance <= MaxBackward)
    <3>0. distance > MaxBackward
      BY <1>1, <2>5
    <3> HIDE DEF o, x
    <3>1. o = prefix - (distance - Available) /\ x = Greater(copy - (prefix - o), 0)
      BY DEF o, x
    <3>2. /\ Extends(text, t) /\ Len(t) = position + copy /\ Saved(x) \in Seq(Int)
          /\ Cyclic(t, position, distance, copy, o, prefix, Saved(x), 0)
      BY <1>1, <2>1, <3>1, CopyCycles
    <3>4. prefixHistory' = Saved(x) /\ prefixHistory' \in Seq(Int)
      BY <1>3, <3>0, <3>2
    <3>5. HistoryInv' /\ StreamTypes' /\ PlaceInv' /\ BoundInv'
      BY <1>1, <1>3, <2>2, <2>3, <3>2, <3>4, ResolveKeeps
    <3>6. Cycles(offset - start)'
      <4>1. o - o = 0
        BY <2>3
      <4>2. offset' - start' = 0
        BY <1>3, <4>1
      <4> QED
        BY <1>3, <2>2, <3>2, <3>4, <4>2 DEF Cycles
    <3>7. ~(distance' <= MaxBackward')
      BY <2>2, <2>5 DEF MaxBackward
    <3> HIDE DEF t
    <3>8. 1 <= distance
      BY <1>1
    <3>9. o <= o
      BY <2>3
    <3>10. PrefixInv'
      BY <1>3, <2>2, <2>3, <3>2, <3>6, <3>7, <3>8, <3>9 DEF PrefixInv, t
    <3>11. CopyInv' /\ PendingInv'
      BY <1>3 DEF CopyInv, PendingInv
    <3> QED
      BY <3>5, <3>10, <3>11 DEF StreamInv, StageInv
  <2> QED
    BY <2>4, <2>5
<1>4. copy > remaining \/ copy <= remaining
  BY <1>1
<1> HIDE DEF o, x
<1> QED
  BY <1>2, <1>3, <1>4, Zenon DEF ResolvePrefix, Reference, o, x

-----------------------------------------------------------------------------
(* Bytes. *)

(* The place of a step that writes and delivers what it wrote. *)
LEMMA WritingPlace ==
  ASSUME StreamInv, mode = "run", fast = "no", stage # "Window", stage' # "Window",
         UNCHANGED <<mode, fault, fast, memberVars, fresh, delivery>>, flushed' = position'
  PROVE  PlaceInv'
<1>1. fresh = FALSE /\ PlaceInv
  BY Running
<1>2. UNCHANGED <<window, prefix, single, member>>
  BY DEF memberVars
<1> QED
  BY <1>1, <1>2 DEF PlaceInv

(* A stage that writes has work, and nothing may stop it but its room. *)
LEMMA AtWriting ==
  ASSUME StreamInv, NEW s \in Stages \ Settled, In(s)
  PROVE  /\ mode = "run" /\ fast = "no" /\ stage = s /\ stage \notin Settled /\ stage # "Window"
         /\ HistoryInv /\ StreamTypes /\ PlaceInv /\ BoundInv /\ StageInv /\ flushed = position
         /\ PowerOfTwo(window) /\ window \in Nat /\ window > Chunk
         /\ position \in Nat /\ remaining \in Nat /\ text \in Seq(Int) /\ Len(text) \in Nat /\ MaxText \in Nat
         /\ Space \in Nat /\ literals \in Nat /\ copy \in Nat /\ offset \in Nat /\ start \in Nat /\ prefix \in Nat
         /\ scratch \in Seq(Int) /\ prefixHistory \in Seq(Int) /\ member \in Nat
<1>1. mode = "run" /\ fast = "no" /\ stage = s /\ stage \notin Settled /\ stage # "Window"
  BY DEF In, Settled
<1>2. HistoryInv /\ StreamTypes /\ PlaceInv /\ BoundInv /\ StageInv /\ flushed = position
  BY <1>1, Running
<1>3. PowerOfTwo(window) /\ window \in Nat /\ window > Chunk
  BY <1>1, WindowServes
<1>4. position \in Nat /\ remaining \in Nat /\ text \in Seq(Int) /\ Len(text) \in Nat
  BY <1>2, HistoryTypes
<1>5. Space \in Nat /\ MaxText \in Nat
  BY <1>2, Measures, DecoderAssumption
<1>6. /\ literals \in Nat /\ copy \in Nat /\ offset \in Nat /\ start \in Nat /\ prefix \in Nat
      /\ scratch \in Seq(Int) /\ prefixHistory \in Seq(Int) /\ member \in Nat
  BY <1>2 DEF StreamTypes
<1> QED
  BY <1>1, <1>2, <1>3, <1>4, <1>5, <1>6

LEMMA LiteralIs == ASSUME HistoryInv, StreamTypes, NEW p \in Nat PROVE Literal(p) \in Int
<1>1. member \in Nat /\ MaxText \in Nat
  BY DecoderAssumption DEF StreamTypes
<1> QED
  BY <1>1 DEF Literal

(* Another byte of text. *)
LEMMA TextAppended ==
  ASSUME HistoryInv, Len(text) = position, NEW x \in Int
  PROVE  /\ Extends(text, Append(text, x)) /\ Len(Append(text, x)) = position + 1
         /\ Append(text, x)[position + 1] = x
<1>1. text \in Seq(Int) /\ position \in Nat
  BY HistoryTypes
<1>2. /\ Append(text, x) \in Seq(Int) /\ Len(Append(text, x)) = Len(text) + 1
      /\ \A i \in 1 .. Len(text) : Append(text, x)[i] = text[i]
      /\ Append(text, x)[Len(text) + 1] = x
  BY <1>1, AppendProperties
<1> QED
  BY <1>1, <1>2 DEF Extends

(* What else a byte written by emit changes. *)
LEMMA EmitSpends ==
  ASSUME NEW x, Emit(x)
  PROVE  /\ remaining' = remaining - 1 /\ cap' = cap - 1 /\ allow' = allow - 1
         /\ UNCHANGED <<delivery, last, mode, fault, cache, fast, window, prefix, single, member, fresh, recents>>
         /\ UNCHANGED memberVars
  BY DEF Emit, Spend, memberVars

LEMMA RawByteHolds == ASSUME StreamInv, RawByte PROVE StreamInv'
<1>0. "Raw" \in Stages \ Settled /\ In("Raw")
  BY DEF Stages, Settled, RawByte
<1>1. /\ mode = "run" /\ fast = "no" /\ stage = "Raw" /\ stage \notin Settled /\ stage # "Window"
      /\ HistoryInv /\ StreamTypes /\ PlaceInv /\ BoundInv /\ StageInv /\ flushed = position
      /\ PowerOfTwo(window) /\ position \in Nat /\ Len(text) \in Nat
  BY <1>0, AtWriting
<1>2. CASE Fail("memory")
  BY <1>1, <1>2, FailHolds
<1>3. ASSUME Emit(Literal(position)), text' = Append(text, Literal(position)),
             UNCHANGED <<stage, commandVars, copyVars>>
      PROVE  StreamInv'
  <2>1. Literal(position) \in Int
    BY <1>1, LiteralIs
  <2>2. Len(text) = position
    BY <1>1, PlainText DEF Writing
  <2> DEFINE t == Append(text, Literal(position))
  <2>3. Extends(text, t) /\ Len(t) = position + 1 /\ t[position + 1] = Literal(position)
    BY <1>1, <2>1, <2>2, TextAppended
  <2>4. remaining > 0 /\ Space > 0
    BY DEF RawByte
  <2>5. stage' = stage /\ stage' \notin Settled
    BY <1>1, <1>3
  <2>6. HistoryInv' /\ position' = position + 1 /\ flushed' = position + 1
    <3>1. position + 1 <= Len(t)
      BY <1>1, <2>3
    <3> HIDE DEF t
    <3>2. text' = t
      BY <1>3 DEF t
    <3> QED
      BY <1>1, <1>3, <2>1, <2>3, <2>4, <2>5, <3>1, <3>2, EmitMakes
  <2>7. StageInv'
    BY <1>1, <1>3, <2>3, <2>6, PlainStage DEF Writing
  <2>8. UNCHANGED <<delivery, last, mode, fault, cache, fast, window, prefix, single, member, fresh, recents, memberVars>>
    BY <1>3, EmitSpends
  <2>9. UNCHANGED <<literals, copy, implicit, distance, offset, start, prefixHistory, scratch>>
    BY <1>3 DEF commandVars, copyVars
  <2>10. StreamTypes'
    BY <1>1, <2>5, <2>8, <2>9 DEF StreamTypes
  <2>11. PlaceInv'
    BY <1>1, <2>5, <2>6, <2>8, WritingPlace
  <2>12. BoundInv'
    BY <1>1, <2>5, <2>8, <2>9 DEF BoundInv
  <2> QED
    BY <2>6, <2>7, <2>10, <2>11, <2>12 DEF StreamInv
<1> QED
  BY <1>2, <1>3 DEF RawByte, NoMemory

LEMMA LiteralByteHolds == ASSUME StreamInv, LiteralByte PROVE StreamInv'
<1>0. "Literals" \in Stages \ Settled /\ In("Literals")
  BY DEF Stages, Settled, LiteralByte
<1>1. /\ mode = "run" /\ fast = "no" /\ stage = "Literals" /\ stage \notin Settled /\ stage # "Window"
      /\ HistoryInv /\ StreamTypes /\ PlaceInv /\ BoundInv /\ StageInv /\ flushed = position
      /\ PowerOfTwo(window) /\ position \in Nat /\ Len(text) \in Nat /\ remaining \in Nat /\ literals \in Nat
  BY <1>0, AtWriting
<1>2. CASE Fail("memory")
  BY <1>1, <1>2, FailHolds
<1>3. ASSUME Emit(Literal(position)), text' = Append(text, Literal(position)), literals' = literals - 1,
             UNCHANGED <<stage, copy, implicit, distance, code, copyVars>>
      PROVE  StreamInv'
  <2>1. Literal(position) \in Int
    BY <1>1, LiteralIs
  <2>2. Len(text) = position
    BY <1>1, PlainText DEF Writing
  <2> DEFINE t == Append(text, Literal(position))
  <2>3. Extends(text, t) /\ Len(t) = position + 1 /\ t[position + 1] = Literal(position)
    BY <1>1, <2>1, <2>2, TextAppended
  <2>4. literals > 0 /\ Space > 0
    BY DEF LiteralByte
  <2>5. stage' = stage /\ stage' \notin Settled
    BY <1>1, <1>3
  <2>6. literals <= remaining /\ copy > 0
    BY <1>1 DEF BoundInv
  <2>7. remaining > 0
    BY <1>1, <2>4, <2>6
  <2>8. HistoryInv' /\ position' = position + 1 /\ flushed' = position + 1
    <3>1. position + 1 <= Len(t)
      BY <1>1, <2>3
    <3> HIDE DEF t
    <3>2. text' = t
      BY <1>3 DEF t
    <3> QED
      BY <1>1, <1>3, <2>1, <2>3, <2>4, <2>5, <2>7, <3>1, <3>2, EmitMakes
  <2>9. StageInv'
    BY <1>1, <1>3, <2>3, <2>8, PlainStage DEF Writing
  <2>10. /\ UNCHANGED <<delivery, last, mode, fault, cache, fast, window, prefix, single, member, fresh, recents, memberVars>>
         /\ remaining' = remaining - 1
    BY <1>3, EmitSpends
  <2>11. UNCHANGED <<copy, implicit, distance, offset, start, prefixHistory, scratch>>
    BY <1>3 DEF copyVars
  <2>12. literals' \in Nat /\ literals' <= remaining'
    BY <1>1, <1>3, <2>4, <2>6, <2>10
  <2>13. StreamTypes'
    BY <1>1, <2>5, <2>10, <2>11, <2>12 DEF StreamTypes
  <2>14. PlaceInv'
    BY <1>1, <2>5, <2>8, <2>10, WritingPlace
  <2>15. BoundInv'
    BY <1>1, <2>5, <2>6, <2>10, <2>11, <2>12 DEF BoundInv
  <2> QED
    BY <2>8, <2>9, <2>13, <2>14, <2>15 DEF StreamInv
<1> QED
  BY <1>2, <1>3 DEF LiteralByte, NoMemory

LEMMA WordByteHolds == ASSUME StreamInv, WordByte PROVE StreamInv'
<1>0. "Dictionary" \in Stages \ Settled /\ In("Dictionary")
  BY DEF Stages, Settled, WordByte
<1>1. /\ mode = "run" /\ fast = "no" /\ stage = "Dictionary" /\ stage \notin Settled /\ stage # "Window"
      /\ HistoryInv /\ StreamTypes /\ PlaceInv /\ BoundInv /\ StageInv /\ flushed = position
      /\ PowerOfTwo(window) /\ position \in Nat /\ text \in Seq(Int) /\ Len(text) \in Nat
      /\ remaining \in Nat /\ scratch \in Seq(Int)
  BY <1>0, AtWriting
<1>2. CASE Fail("memory")
  BY <1>1, <1>2, FailHolds
<1>3. ASSUME Emit(Head(scratch)), scratch' = Tail(scratch),
             UNCHANGED <<stage, text, commandVars, offset, start, prefixHistory>>
      PROVE  StreamInv'
  <2>1. scratch = SubSeq(text, position + 1, Len(text)) /\ Len(scratch) <= remaining
    BY <1>1 DEF StageInv, PendingInv, BoundInv
  <2>2. scratch # <<>> /\ Space > 0
    BY DEF WordByte
  <2>3. /\ Head(scratch) \in Int /\ Tail(scratch) \in Seq(Int) /\ Len(Tail(scratch)) = Len(scratch) - 1
        /\ Len(scratch) \in Nat \ {0}
    BY <1>1, <2>2, HeadTailProperties, EmptySeq
  <2>4. position <= Len(text)
    BY <1>1, HistoryTypes
  <2>5. position + 1 <= Len(text)
    <3>1. /\ position + 1 \in Nat \ {0} /\ position + 1 <= Len(text) + 1 /\ Len(text) <= Len(text)
      BY <1>1, <2>4
    <3>2. Len(SubSeq(text, position + 1, Len(text))) = Len(text) + 1 - (position + 1)
      BY <1>1, <3>1, PartOf
    <3> QED
      BY <1>1, <2>1, <2>3, <2>4, <3>2
  <2>6. Head(scratch) = text[position + 1] /\ Tail(scratch) = SubSeq(text, (position + 1) + 1, Len(text))
    <3>1. position + 1 \in 1 .. Len(text) /\ Len(text) \in position + 1 .. Len(text)
      BY <1>1, <2>5
    <3>2. /\ Head(SubSeq(text, position + 1, Len(text))) = text[position + 1]
          /\ Tail(SubSeq(text, position + 1, Len(text))) = SubSeq(text, (position + 1) + 1, Len(text))
      BY <1>1, <3>1, HeadTailOfSubSeq
    <3> QED
      BY <2>1, <3>2
  <2>7. stage' = stage /\ stage' \notin Settled
    BY <1>1, <1>3
  <2>8. remaining > 0
    BY <1>1, <2>1, <2>3
  <2>9. HistoryInv' /\ position' = position + 1 /\ flushed' = position + 1
    <3>1. Extends(text, text)
      BY <1>1, ExtendsItself
    <3>2. text' = text
      BY <1>3
    <3> QED
      BY <1>1, <1>3, <2>2, <2>3, <2>5, <2>6, <2>7, <2>8, <3>1, <3>2, EmitMakes
  <2>10. /\ UNCHANGED <<delivery, last, mode, fault, cache, fast, window, prefix, single, member, fresh, recents, memberVars>>
         /\ remaining' = remaining - 1
    BY <1>3, EmitSpends
  <2>11. UNCHANGED <<text, literals, copy, implicit, distance, offset, start, prefixHistory>>
    BY <1>3 DEF commandVars
  <2>12. scratch' \in Seq(Int) /\ Len(scratch') <= remaining'
    BY <1>1, <1>3, <2>1, <2>3, <2>10, SMTT(30)
  <2>13. StageInv'
    <3>1. scratch' = SubSeq(text', position' + 1, Len(text'))
      BY <1>3, <2>6, <2>9, <2>11
    <3> QED
      BY <1>1, <2>7, <3>1 DEF StageInv, CopyInv, PrefixInv, PendingInv
  <2>14. StreamTypes'
    BY <1>1, <2>7, <2>10, <2>11, <2>12 DEF StreamTypes
  <2>15. PlaceInv'
    BY <1>1, <2>7, <2>9, <2>10, WritingPlace
  <2>16. BoundInv'
    BY <1>1, <2>7, <2>10, <2>12 DEF BoundInv
  <2> QED
    BY <2>9, <2>13, <2>14, <2>15, <2>16 DEF StreamInv
<1> QED
  BY <1>2, <1>3 DEF WordByte, NoMemory

LEMMA PrefixHistoryByteHolds == ASSUME CacheInv, StreamInv, PrefixHistoryByte PROVE StreamInv'
<1>0. "PrefixHistory" \in Stages \ Settled /\ In("PrefixHistory")
  BY DEF Stages, Settled, PrefixHistoryByte
<1>1. /\ mode = "run" /\ fast = "no" /\ stage = "PrefixHistory" /\ stage \notin Settled /\ stage # "Window"
      /\ HistoryInv /\ StreamTypes /\ PlaceInv /\ BoundInv /\ StageInv /\ flushed = position
      /\ PowerOfTwo(window) /\ position \in Nat /\ text \in Seq(Int) /\ Len(text) \in Nat
      /\ remaining \in Nat /\ copy \in Nat /\ offset \in Nat /\ start \in Nat /\ prefix \in Nat
      /\ prefixHistory \in Seq(Int)
  BY <1>0, AtWriting
<1>2. /\ Len(text) = position + copy /\ start <= prefix /\ distance >= 1 /\ prefix - start <= distance
      /\ distance > MaxBackward /\ offset <= Len(prefixHistory)
      /\ Cycles((prefix - start) + offset) /\ distance \in Nat \ {0}
  <2>1. distance \in Int
    BY DEF CacheInv
  <2> QED
    BY <1>1, <2>1 DEF StageInv, PrefixInv
<1> DEFINE j == (prefix - start) + offset
<1>3. Cyclic(text, position, distance, copy, start, prefix, prefixHistory, j)
  BY <1>2 DEF Cycles
<1>4. copy > 0 /\ copy <= remaining /\ Len(prefixHistory) \in Nat /\ j \in Nat
  BY <1>1, <1>2, LenProperties DEF PrefixHistoryByte, BoundInv
<1>5. CASE offset = Len(prefixHistory)
  <2>1. /\ stage' = "Prefix" /\ offset' = start
        /\ UNCHANGED <<mode, fault, callVars, historyVars, blockVars, commandVars, cache,
                       start, prefixHistory, scratch, fast, memberVars, fresh, formatVars>>
    BY <1>5 DEF PrefixHistoryByte
  <2>2. UNCHANGED <<mode, fault, delivery, cap, allow, slice, ring, position, flushed, out, remaining, last,
                    literals, copy, implicit, distance, code, cache, start, prefixHistory, scratch, fast,
                    window, prefix, single, member, fresh, text, recents>>
    BY <2>1 DEF callVars, historyVars, blockVars, commandVars, memberVars, formatVars
  <2>3. Cyclic(text, position, distance, copy, start, prefix, prefixHistory, 0)
    <3>1. j = (prefix - start) + Len(prefixHistory)
      BY <1>5
    <3> HIDE DEF j
    <3> QED
      BY <1>1, <1>2, <1>3, <1>4, <3>1, CyclicAgain
  <2>4. HistoryInv'
    <3>1. stage' \notin Settled /\ remaining' = remaining /\ UNCHANGED <<callVars, historyVars, window, text>>
      BY <2>1, <2>2 DEF Settled, callVars, historyVars
    <3> QED
      BY <1>1, <3>1, HistoryStays
  <2>5. StageInv'
    <3>1. offset' - start' = 0
      BY <1>1, <2>1
    <3>2. Cycles(offset - start)'
      BY <2>2, <2>3, <3>1 DEF Cycles
    <3>3. ~(distance' <= MaxBackward')
      <4>1. distance \in Int /\ MaxBackward \in Int
        BY <1>1, <1>2, Measures
      <4> QED
        BY <1>2, <2>2, <4>1 DEF MaxBackward
    <3>4. start <= start
      BY <1>1
    <3>5. PrefixInv'
      BY <1>2, <2>1, <2>2, <3>2, <3>3, <3>4 DEF PrefixInv
    <3>6. CopyInv' /\ PendingInv'
      BY <2>1 DEF CopyInv, PendingInv
    <3> QED
      BY <3>5, <3>6 DEF StageInv
  <2>6. StreamTypes'
    BY <1>1, <2>1, <2>2 DEF StreamTypes, Stages, Reading
  <2>7. PlaceInv'
    BY <1>1, <2>1, <2>2 DEF PlaceInv, Linear
  <2>8. BoundInv'
    BY <1>1, <1>4, <2>1, <2>2 DEF BoundInv
  <2> QED
    BY <2>4, <2>5, <2>6, <2>7, <2>8 DEF StreamInv
<1>6. CASE offset # Len(prefixHistory)
  <2>1. Space > 0
    BY <1>6 DEF PrefixHistoryByte
  <2>2. CASE Fail("memory")
    BY <1>1, <2>2, FailHolds
  <2>3. ASSUME Emit(prefixHistory[offset + 1]), copy' = copy - 1, offset' = offset + 1,
               UNCHANGED <<stage, text, literals, implicit, distance, code, start, prefixHistory, scratch>>
        PROVE  StreamInv'
    <3> DEFINE x == prefixHistory[offset + 1]
    <3>1. offset < Len(prefixHistory) /\ Len(prefixHistory) <= distance - (prefix - start)
      BY <1>1, <1>2, <1>3, <1>4, <1>6 DEF Cyclic
    <3>2. x \in Int
      <4>1. offset + 1 \in 1 .. Len(prefixHistory)
        BY <1>1, <1>4, <3>1
      <4> QED
        BY <1>1, <4>1, ElementOfSeq
    <3>3. j \in 0 .. distance - 1 /\ copy \in Nat \ {0} /\ j + 1 <= distance /\ start + j = prefix + offset
          /\ 1 \in 0 .. copy
      BY <1>1, <1>2, <1>4, <3>1, SMTT(30)
    <3>4. text[position + 1] = x
      <4>1. text[position + 1] = CycledAt(start, prefix, prefixHistory, j)
        <5>1. /\ position \in Nat /\ distance \in Nat \ {0} /\ copy \in Nat \ {0} /\ start \in Nat /\ prefix \in Nat
              /\ prefixHistory \in Seq(Int) /\ j \in 0 .. distance - 1
          BY <1>1, <1>2, <3>3
        <5> HIDE DEF j
        <5> QED
          BY <1>3, <5>1, CyclicByte, SMTT(30)
      <4>2. ~(start + j < prefix) /\ (start + j - prefix) + 1 = offset + 1
        <5> HIDE DEF j
        <5> QED
          BY <1>1, <3>3
      <4> HIDE DEF j
      <4> QED
        BY <4>1, <4>2 DEF CycledAt
    <3>5. Cyclic(text, position + 1, distance, copy - 1, start, prefix, prefixHistory, j + 1)
      <4> HIDE DEF j
      <4> QED
        BY <1>1, <1>2, <1>3, <1>4, <3>3, CyclicOn
    <3>6. j + 1 = (prefix - start) + (offset + 1)
      BY <1>1
    <3>7. position + 1 <= Len(text) /\ remaining > 0
      BY <1>1, <1>2, <1>4
    <3>8. stage' = stage /\ stage' \notin Settled
      BY <1>1, <2>3
    <3> HIDE DEF j, x
    <3>9. HistoryInv' /\ position' = position + 1 /\ flushed' = position + 1
      <4>1. Extends(text, text)
        BY <1>1, ExtendsItself
      <4>2. text' = text /\ Emit(x)
        BY <2>3 DEF x
      <4> QED
        BY <1>1, <2>1, <3>2, <3>4, <3>7, <3>8, <4>1, <4>2, EmitMakes
    <3>10. /\ UNCHANGED <<delivery, last, mode, fault, cache, fast, window, prefix, single, member, fresh, recents, memberVars>>
           /\ remaining' = remaining - 1
      BY <2>3, EmitSpends
    <3>11. StageInv'
      <4>1. Cycles((prefix - start) + offset)'
        BY <2>3, <3>5, <3>6, <3>9, <3>10 DEF Cycles
      <4>2. MaxBackward' = MaxBackward
        BY <3>10 DEF MaxBackward
      <4>3. offset + 1 <= Len(prefixHistory) /\ Len(text) = (position + 1) + (copy - 1)
        BY <1>1, <1>2, <1>4, <3>1
      <4>4. PrefixInv'
        BY <1>1, <1>2, <2>3, <3>9, <3>10, <4>1, <4>2, <4>3 DEF PrefixInv
      <4>5. CopyInv' /\ PendingInv'
        BY <1>1, <3>8 DEF CopyInv, PendingInv
      <4> QED
        BY <4>4, <4>5 DEF StageInv
    <3>12. copy' \in Nat /\ copy' <= remaining' /\ offset' \in Nat
      BY <1>1, <1>4, <2>3, <3>10
    <3>13. StreamTypes'
      BY <1>1, <2>3, <3>10, <3>12 DEF StreamTypes
    <3>14. PlaceInv'
      BY <1>1, <3>8, <3>9, <3>10, WritingPlace
    <3>15. BoundInv'
      BY <1>1, <3>8, <3>10, <3>12 DEF BoundInv
    <3> QED
      BY <3>9, <3>11, <3>13, <3>14, <3>15 DEF StreamInv
  <2> QED
    BY <1>6, <2>2, <2>3 DEF PrefixHistoryByte, NoMemory
<1> QED
  BY <1>5, <1>6

LEMMA CopyDoneHolds == ASSUME StreamInv, CopyDone PROVE StreamInv'
<1>1. /\ mode = "run" /\ fast = "no" /\ Goto("Command")
      /\ \/ copy = 0 /\ stage \in {"Copy", "Prefix", "PrefixHistory"}
         \/ stage = "Dictionary" /\ scratch = <<>>
  BY DEF CopyDone, In
<1>2. /\ HistoryInv /\ StreamTypes /\ PlaceInv /\ BoundInv /\ StageInv
  BY <1>1, Running
<1>3. position \in Nat /\ text \in Seq(Int) /\ Len(text) \in Nat /\ position <= Len(text)
  BY <1>2, HistoryTypes
<1>4. Len(text) = position
  <2>1. CASE stage \in {"Copy", "Prefix", "PrefixHistory"} /\ copy = 0
    <3>1. Len(text) = position + copy
      BY <1>2, <2>1 DEF StageInv, CopyInv, PrefixInv
    <3> QED
      BY <1>3, <2>1, <3>1
  <2>2. CASE stage = "Dictionary" /\ scratch = <<>>
    <3>1. SubSeq(text, position + 1, Len(text)) = <<>>
      BY <1>2, <2>2 DEF StageInv, PendingInv
    <3>2. position + 1 \in Nat \ {0} /\ position + 1 <= Len(text) + 1 /\ Len(text) <= Len(text)
      BY <1>3
    <3>3. Len(SubSeq(text, position + 1, Len(text))) = Len(text) + 1 - (position + 1)
      BY <1>3, <3>2, PartOf
    <3>4. Len(text) + 1 - (position + 1) = 0
      BY <3>1, <3>3, EmptySeq
    <3> QED
      BY <1>3, <3>4
  <2> QED
    BY <1>1, <2>1, <2>2
<1>5. stage \notin Settled /\ "Command" \notin Settled /\ stage # "Window"
  BY <1>1 DEF Settled
<1> QED
  BY <1>1, <1>4, <1>5, GotoHolds

(* What the room and the meta-block leave of a run. *)
LEMMA RunFits ==
  ASSUME HistoryInv, NEW m \in Nat \ {0}, m <= remaining, Space > 0, NEW n, n = Lesser(m, Space)
  PROVE  n \in 1 .. Lesser(remaining, Space) /\ n \in 0 .. m /\ n \in Nat \ {0}
<1>1. Space \in Nat /\ remaining \in Nat
  BY Measures, HistoryTypes
<1> QED
  BY <1>1 DEF Lesser

(* Literals in a row. *)
LEMMA LiteralsAre ==
  ASSUME HistoryInv, StreamTypes, NEW n \in Nat, NEW s, s = [i \in 1 .. n |-> Literal(position + i - 1)]
  PROVE  Lengthened(s, n)
<1>1. position \in Nat
  BY HistoryTypes
<1>2. ASSUME NEW i \in 1 .. n PROVE Literal(position + i - 1) \in Int
  <2>1. position + i - 1 \in Nat
    BY <1>1
  <2> QED
    BY <2>1, LiteralIs
<1>3. s \in [1 .. n -> Int]
  BY <1>2
<1> QED
  BY <1>3, TableIsSeq DEF Lengthened

(* Bytes that end the text are the ones a run writes. *)
LEMMA EnlargedRuns ==
  ASSUME HistoryInv, NEW s, NEW n \in 1 .. Lesser(remaining, Space), Lengthened(s, n), Len(text) = position
  PROVE  /\ Runs(text \o s, s, n) /\ Len(text \o s) = position + n /\ Extends(text, text \o s)
         /\ \A k \in 1 .. n : s[k] = (text \o s)[position + k]
<1> DEFINE t == text \o s
<1>1. Enlarged(t, s, n)
  BY TextGrows
<1> HIDE DEF t
<1>2. /\ Extends(text, t) /\ Len(t) = position + n /\ n \in Nat
      /\ \A k \in 1 .. n : t[position + k] = s[k]
  BY <1>1 DEF Enlarged
<1>3. position + n <= Len(t)
  BY <1>2, HistoryTypes
<1>4. Runs(t, s, n)
  BY <1>2, <1>3 DEF Runs, Lengthened
<1> QED
  BY <1>2, <1>4 DEF t

LEMMA RawRunHolds == ASSUME StreamInv, RawRun PROVE StreamInv'
<1>0. "Raw" \in Stages \ Settled /\ In("Raw")
  BY DEF Stages, Settled, RawRun
<1>1. /\ mode = "run" /\ fast = "no" /\ stage = "Raw" /\ stage \notin Settled /\ stage # "Window"
      /\ HistoryInv /\ StreamTypes /\ PlaceInv /\ BoundInv /\ StageInv /\ flushed = position
      /\ PowerOfTwo(window) /\ position \in Nat
  BY <1>0, AtWriting
<1>2. CASE Fail("memory")
  BY <1>1, <1>2, FailHolds
<1> DEFINE Byted(n) == [i \in 1 .. n |-> Literal(position + i - 1)]
           h(n) == IF Linear THEN SliceTaken(Byted(n), n) ELSE RawWritten(Byted(n))
           f(n) == [h(n) EXCEPT !.flushed = h(n).pos, !.out = IF Delivers THEN @ \o Byted(n) ELSE @]
<1>3. ASSUME NEW n \in 1 .. Lesser(remaining, Space), Store(f(n)), Spend(n), text' = text \o Byted(n),
             UNCHANGED <<mode, fault, stage, commandVars, cache, copyVars, fast, memberVars, fresh, recents>>
      PROVE  StreamInv'
  <2>1. n \in Nat
    BY <1>1, Measures
  <2>2. Lengthened(Byted(n), n)
    BY <1>1, <2>1, LiteralsAre
  <2>3. Len(text) = position
    BY <1>1, PlainText DEF Writing
  <2> DEFINE s == Byted(n)
             t == text \o s
             g == h(n)
  <2> HIDE DEF Byted
  <2>4. Runs(t, s, n) /\ Len(t) = position + n
    BY <1>1, <2>2, <2>3, EnlargedRuns
  <2>5. g = IF Linear THEN SliceTaken(s, n) ELSE RawWritten(s)
    OBVIOUS
  <2>6. Store([g EXCEPT !.flushed = g.pos, !.out = IF Delivers THEN @ \o s ELSE @])
    BY <1>3
  <2> DEFINE r == RawTaken(g, s)
  <2> HIDE DEF s, t, g, h, f
  <2>7. Made(r, t, n) /\ r.flushed = position + n
    <3>1. flushed = position /\ PowerOfTwo(window) /\ HistoryInv
      BY <1>1
    <3> QED
      BY <2>4, <2>5, <3>1, RawMakes
  <2>8. Store(r) /\ text' = t
    BY <1>3, <2>6 DEF t, s, RawTaken
  <2> HIDE DEF r
  <2>9. /\ UNCHANGED <<mode, fault, stage, literals, copy, implicit, distance, offset, start, prefixHistory,
                       scratch, fast, window, prefix, single, member, fresh, delivery, last, memberVars>>
        /\ remaining' = remaining - n /\ cap' = cap - n /\ allow' = allow - n
    BY <1>3 DEF commandVars, copyVars, memberVars, Spend
  <2>10. HistoryInv' /\ position' = position + n /\ flushed' = position + n
    BY <1>1, <2>7, <2>8, <2>9, Produces
  <2>11. StageInv'
    BY <1>1, <2>4, <2>8, <2>9, <2>10, PlainStage DEF Writing
  <2>12. StreamTypes'
    BY <1>1, <2>9 DEF StreamTypes
  <2>13. PlaceInv'
    BY <1>1, <2>9, <2>10, WritingPlace
  <2>14. BoundInv'
    BY <1>1, <2>9 DEF BoundInv
  <2> QED
    BY <2>10, <2>11, <2>12, <2>13, <2>14 DEF StreamInv
<1>4. PICK n \in 1 .. Lesser(remaining, Space) :
        \/ NoMemory(position + n)
        \/ /\ Store(f(n)) /\ Spend(n) /\ text' = text \o Byted(n)
           /\ UNCHANGED <<mode, fault, stage, commandVars, cache, copyVars, fast, memberVars, fresh, recents>>
  BY Zenon DEF RawRun, SliceTaken
<1> HIDE DEF f
<1> QED
  BY <1>2, <1>3, <1>4 DEF NoMemory

(* More history is in reach, never less. *)
LEMMA ReachGrows ==
  ASSUME HistoryInv, NEW n \in Nat, position' = position + n, window' = window, NEW d \in Int, d <= Available
  PROVE  d <= Available'
<1>1. position \in Nat /\ MaxBackward \in Nat
  BY HistoryTypes, Measures
<1>2. MaxBackward' = MaxBackward
  BY DEF MaxBackward
<1>3. Available' = Lesser(position + n, MaxBackward)
  BY <1>2 DEF Available
<1>4. d <= Lesser(position + n, MaxBackward)
  BY <1>1 DEF Available, Lesser
<1> QED
  BY <1>3, <1>4

LEMMA CopyRunHolds == ASSUME CacheInv, StreamInv, CopyRun PROVE StreamInv'
<1>0. "Copy" \in Stages \ Settled /\ In("Copy")
  BY DEF Stages, Settled, CopyRun
<1>1. /\ mode = "run" /\ fast = "no" /\ stage = "Copy" /\ stage \notin Settled /\ stage # "Window"
      /\ HistoryInv /\ StreamTypes /\ PlaceInv /\ BoundInv /\ StageInv /\ flushed = position
      /\ PowerOfTwo(window) /\ position \in Nat /\ copy \in Nat /\ text \in Seq(Int) /\ remaining \in Nat
  BY <1>0, AtWriting
<1>2. CASE Fail("memory")
  BY <1>1, <1>2, FailHolds
<1> DEFINE n == Lesser(copy, Space)
<1>3. copy > 0 /\ Space > 0 /\ copy <= remaining
  BY <1>1 DEF CopyRun, BoundInv
<1>4. n \in 1 .. Lesser(remaining, Space) /\ n \in 0 .. copy /\ n \in Nat \ {0}
  BY <1>1, <1>3, RunFits
<1>5. /\ Len(text) = position + copy /\ 1 <= distance /\ distance <= Available
      /\ Recurs(text, position, distance, copy) /\ distance \in Nat \ {0}
  <2>1. distance \in Int
    BY DEF CacheInv
  <2> QED
    BY <1>1, <1>3, <2>1 DEF StageInv, CopyInv
<1>6. ASSUME Store(Flush(CopiedBy(distance, n), Delivers)), Spend(n), copy' = copy - n,
             stage' = IF copy = n THEN "Command" ELSE "Copy",
             UNCHANGED <<mode, fault, literals, implicit, distance, code, cache, copyVars, fast,
                         memberVars, fresh, formatVars>>
      PROVE  StreamInv'
  <2> HIDE DEF n
  <2>1. Copyable(text, distance, n)
    <3>1. Extends(text, text) /\ position + n <= Len(text)
      BY <1>1, <1>4, <1>5, ExtendsItself
    <3>2. Recurs(text, position, distance, n)
      <4>1. n \in 0 .. copy /\ copy \in Nat /\ Recurs(text, position, distance, copy)
        BY <1>1, <1>4, <1>5
      <4> QED
        BY <4>1, RecursLess
    <3> QED
      BY <1>4, <1>5, <3>1, <3>2 DEF Copyable
  <2> DEFINE h == Flush(CopiedBy(distance, n), Delivers)
  <2>2. Made(h, text, n) /\ h.flushed = position + n
    BY <1>1, <2>1, CopyMakes
  <2>3. /\ UNCHANGED <<mode, fault, literals, implicit, distance, offset, start, prefixHistory, scratch, fast,
                       window, prefix, single, member, fresh, text, delivery, last, memberVars>>
        /\ remaining' = remaining - n /\ cap' = cap - n /\ allow' = allow - n
    BY <1>6 DEF copyVars, memberVars, formatVars, Spend
  <2>4. stage' \in {"Command", "Copy"} /\ stage' \notin Settled /\ stage' # "Window"
    BY <1>6 DEF Settled
  <2> HIDE DEF h
  <2>5. Store(h)
    BY <1>6 DEF h
  <2>6. HistoryInv' /\ position' = position + n /\ flushed' = position + n
    BY <1>1, <2>2, <2>3, <2>4, <2>5, Produces
  <2>7. copy' \in Nat /\ copy' <= remaining'
    BY <1>1, <1>3, <1>4, <1>6, <2>3
  <2>8. CASE copy = n
    <3>1. Len(text') = position'
      BY <1>5, <2>3, <2>6, <2>8
    <3>2. StageInv'
      BY <1>6, <2>8, <3>1, PlainStage DEF Writing
    <3>3. BoundInv'
      BY <1>1, <1>6, <2>3, <2>8 DEF BoundInv
    <3> QED
      BY <1>1, <2>3, <2>4, <2>6, <2>7, <3>2, <3>3, WritingPlace DEF StreamInv, StreamTypes, Stages, Reading
  <2>9. CASE copy # n
    <3>1. stage' = "Copy"
      BY <1>6, <2>9
    <3>2. Recurs(text, position + n, distance, copy - n)
      <4>1. /\ n \in 0 .. copy /\ copy \in Nat /\ Recurs(text, position, distance, copy)
            /\ position \in Nat /\ distance \in Int
        BY <1>1, <1>4, <1>5
      <4> QED
        BY <4>1, RecursOn
    <3>3. distance <= Available'
      BY <1>1, <1>4, <1>5, <2>3, <2>6, ReachGrows
    <3>4. Len(text) = (position + n) + (copy - n)
      BY <1>1, <1>4, <1>5
    <3>5. CopyInv'
      BY <1>5, <1>6, <2>3, <2>6, <3>2, <3>3, <3>4 DEF CopyInv
    <3>6. PrefixInv' /\ PendingInv'
      BY <3>1 DEF PrefixInv, PendingInv
    <3>7. BoundInv'
      BY <1>1, <2>3, <2>7, <3>1 DEF BoundInv
    <3> QED
      BY <1>1, <2>3, <2>4, <2>6, <2>7, <3>5, <3>6, <3>7, WritingPlace DEF StreamInv, StageInv, StreamTypes, Stages, Reading
  <2> QED
    BY <2>8, <2>9
<1> HIDE DEF n
<1>7. \/ NoMemory(position + n)
      \/ /\ Store(Flush(CopiedBy(distance, n), Delivers)) /\ Spend(n)
         /\ copy' = copy - n
         /\ stage' = IF copy = n THEN "Command" ELSE "Copy"
         /\ UNCHANGED <<mode, fault, literals, implicit, distance, code, cache, copyVars, fast,
                        memberVars, fresh, formatVars>>
  BY Zenon DEF CopyRun, CopiedBy, n
<1> QED
  BY <1>2, <1>6, <1>7 DEF NoMemory

(* The next bytes of a copy out of the prefix are the prefix's. *)
PrefixNext(t, P, o, n) == \A k \in 1 .. n : t[P + k] = PrefixByte(o + k - 1)

LEMMA LeadsBytes ==
  ASSUME NEW t, NEW P \in Nat, NEW d, NEW m \in Nat, NEW p \in Nat, NEW o \in Nat, LeadsFrom(t, P, d, m, p, o),
         NEW n \in 0 .. m, o + n <= p
  PROVE  PrefixNext(t, P, o, n)
<1>1. ASSUME NEW k \in 1 .. n PROVE t[P + k] = PrefixByte(o + k - 1)
  <2>1. k \in 1 .. m /\ o + k <= p
    OBVIOUS
  <2> QED
    BY <2>1 DEF LeadsFrom
<1> QED
  BY <1>1 DEF PrefixNext

LEMMA CyclicBytes ==
  ASSUME NEW t, NEW P \in Nat, NEW d \in Nat \ {0}, NEW m \in Nat, NEW s \in Nat, NEW p \in Nat,
         NEW h \in Seq(Int), NEW j \in Nat, Cyclic(t, P, d, m, s, p, h, j), NEW n \in 0 .. m, NEW o, o = s + j,
         o + n <= p, p - s <= d
  PROVE  PrefixNext(t, P, o, n)
<1>1. ASSUME NEW k \in 1 .. n PROVE t[P + k] = PrefixByte(o + k - 1)
  <2> DEFINE q == k - 1
  <2>1. /\ q \in Nat /\ q \in 0 .. m - 1 /\ q + 1 = k /\ j + q \in 0 .. d - 1
        /\ s + (j + q) < p /\ s + (j + q) = o + k - 1
    OBVIOUS
  <2> HIDE DEF q
  <2>2. (j + q) % d = j + q
    BY <2>1, ModSmall
  <2>3. t[P + (q + 1)] = CycledAt(s, p, h, (j + q) % d)
    BY <2>1 DEF Cyclic
  <2>4. t[P + k] = CycledAt(s, p, h, j + q)
    BY <2>1, <2>2, <2>3
  <2> QED
    BY <2>1, <2>4 DEF CycledAt
<1> QED
  BY <1>1 DEF PrefixNext

(* At stage Prefix. *)
LEMMA AtPrefix ==
  ASSUME CacheInv, StreamInv, In("Prefix"), copy > 0
  PROVE  /\ mode = "run" /\ fast = "no" /\ stage = "Prefix" /\ stage \notin Settled /\ stage # "Window"
         /\ HistoryInv /\ StreamTypes /\ PlaceInv /\ BoundInv /\ StageInv /\ flushed = position
         /\ PowerOfTwo(window) /\ position \in Nat /\ text \in Seq(Int)
         /\ remaining \in Nat /\ copy \in Nat \ {0} /\ offset \in Nat /\ start \in Nat /\ prefix \in Nat
         /\ prefixHistory \in Seq(Int) /\ copy <= remaining
         /\ Len(text) = position + copy /\ start <= prefix /\ prefix - start <= distance
         /\ start <= offset /\ offset <= prefix /\ distance \in Nat \ {0}
         /\ IF distance <= MaxBackward THEN Leads ELSE Cycles(offset - start)
<1>0. "Prefix" \in Stages \ Settled
  BY DEF Stages, Settled
<1>1. /\ mode = "run" /\ fast = "no" /\ stage = "Prefix" /\ stage \notin Settled /\ stage # "Window"
      /\ HistoryInv /\ StreamTypes /\ PlaceInv /\ BoundInv /\ StageInv /\ flushed = position
      /\ PowerOfTwo(window) /\ position \in Nat /\ text \in Seq(Int)
      /\ remaining \in Nat /\ copy \in Nat /\ offset \in Nat /\ start \in Nat /\ prefix \in Nat
      /\ prefixHistory \in Seq(Int)
  BY <1>0, AtWriting
<1>2. distance \in Int
  BY DEF CacheInv
<1>3. /\ Len(text) = position + copy /\ start <= prefix /\ prefix - start <= distance
      /\ start <= offset /\ offset <= prefix /\ distance \in Nat \ {0}
      /\ IF distance <= MaxBackward THEN Leads ELSE Cycles(offset - start)
  BY <1>1, <1>2 DEF StageInv, PrefixInv
<1>4. copy <= remaining /\ copy \in Nat \ {0}
  BY <1>1 DEF BoundInv
<1> QED
  BY <1>1, <1>3, <1>4

(* The prefix ends: the copy goes on in the history, or in what was saved. *)
LEMMA PrefixEndHolds ==
  ASSUME CacheInv, StreamInv, PrefixRun, offset = prefix
  PROVE  StreamInv'
<1>1. /\ mode = "run" /\ fast = "no" /\ stage = "Prefix" /\ stage \notin Settled /\ stage # "Window"
      /\ HistoryInv /\ StreamTypes /\ PlaceInv /\ BoundInv /\ StageInv /\ flushed = position
      /\ PowerOfTwo(window) /\ position \in Nat /\ text \in Seq(Int)
      /\ remaining \in Nat /\ copy \in Nat \ {0} /\ offset \in Nat /\ start \in Nat /\ prefix \in Nat
      /\ prefixHistory \in Seq(Int) /\ copy <= remaining
      /\ Len(text) = position + copy /\ start <= prefix /\ prefix - start <= distance
      /\ start <= offset /\ offset <= prefix /\ distance \in Nat \ {0}
      /\ IF distance <= MaxBackward THEN Leads ELSE Cycles(offset - start)
  BY AtPrefix DEF PrefixRun
<1>2. /\ IF distance <= MaxBackward THEN stage' = "Copy" /\ UNCHANGED offset
         ELSE stage' = "PrefixHistory" /\ offset' = 0
      /\ UNCHANGED <<mode, fault, delivery, cap, allow, slice, ring, position, flushed, out, remaining, last,
                     literals, copy, implicit, distance, code, cache, start, prefixHistory, scratch, fast,
                     window, prefix, single, member, fresh, text, recents>>
  BY DEF PrefixRun, callVars, historyVars, blockVars, commandVars, memberVars, formatVars
<1>3. HistoryInv'
  <2>1. stage' \notin Settled /\ remaining' = remaining /\ UNCHANGED <<callVars, historyVars, window, text>>
    BY <1>2 DEF Settled, callVars, historyVars
  <2> QED
    BY <1>1, <2>1, HistoryStays
<1>4. StreamTypes'
  BY <1>1, <1>2 DEF StreamTypes, Stages, Reading
<1>5. PlaceInv'
  BY <1>1, <1>2 DEF PlaceInv, Linear
<1>6. BoundInv'
  BY <1>1, <1>2 DEF BoundInv
<1>7. MaxBackward' = MaxBackward /\ MaxBackward \in Nat
  BY <1>1, <1>2, Measures DEF MaxBackward
<1>8. Available' = Available /\ Available \in Nat
  BY <1>1, <1>2, <1>7, Measures DEF Available
<1>9. StageInv'
  <2>1. CASE distance <= MaxBackward
    <3>1. LeadsFrom(text, position, distance, copy, prefix, prefix)
      BY <1>1, <2>1 DEF Leads
    <3>2. distance = position /\ Recurs(text, position, distance, copy)
      BY <1>1, <3>1, LeadsRecurs
    <3>3. Available = position
      BY <1>1, <2>1, <3>2, Measures
    <3>4. 1 <= distance /\ distance <= Available
      BY <1>1, <3>2, <3>3
    <3>5. stage' = "Copy"
      BY <1>2, <2>1
    <3>6. CopyInv'
      BY <1>1, <1>2, <1>8, <3>2, <3>4 DEF CopyInv
    <3>7. PrefixInv' /\ PendingInv'
      BY <3>5 DEF PrefixInv, PendingInv
    <3> QED
      BY <3>6, <3>7 DEF StageInv
  <2>2. CASE ~(distance <= MaxBackward)
    <3>1. Cyclic(text, position, distance, copy, start, prefix, prefixHistory, prefix - start)
      BY <1>1, <2>2 DEF Cycles
    <3>2. stage' = "PrefixHistory" /\ offset' = 0
      BY <1>2, <2>2
    <3>3. (prefix - start) + 0 = prefix - start
      BY <1>1
    <3>4. Cycles((prefix - start) + offset)'
      BY <1>2, <3>1, <3>2, <3>3 DEF Cycles
    <3>5. distance > MaxBackward /\ 0 <= Len(prefixHistory) /\ distance >= 1
      BY <1>1, <1>7, <2>2, LenProperties
    <3>6. PrefixInv'
      BY <1>1, <1>2, <1>7, <3>2, <3>4, <3>5 DEF PrefixInv
    <3>7. CopyInv' /\ PendingInv'
      BY <3>2 DEF CopyInv, PendingInv
    <3> QED
      BY <3>6, <3>7 DEF StageInv
  <2> QED
    BY <2>1, <2>2
<1> QED
  BY <1>3, <1>4, <1>5, <1>6, <1>9 DEF StreamInv

(* Bytes of the prefix. *)
PrefixBytes(n) == [i \in 1 .. n |-> PrefixByte(offset + i - 1)]

LEMMA PrefixWriteHolds ==
  ASSUME CacheInv, StreamInv, In("Prefix"), copy > 0, NEW n \in Nat \ {0}, n <= copy, n <= Space,
         offset + n <= prefix,
         Store(Flush(PrefixTaken(PrefixBytes(n), n), Delivers)), Spend(n),
         copy' = copy - n, offset' = offset + n,
         UNCHANGED <<mode, fault, stage, literals, implicit, distance, code, cache,
                     start, prefixHistory, scratch, fast, memberVars, fresh, formatVars>>
  PROVE  StreamInv'
<1>1. /\ mode = "run" /\ fast = "no" /\ stage = "Prefix" /\ stage \notin Settled /\ stage # "Window"
      /\ HistoryInv /\ StreamTypes /\ PlaceInv /\ BoundInv /\ StageInv /\ flushed = position
      /\ PowerOfTwo(window) /\ position \in Nat /\ text \in Seq(Int)
      /\ remaining \in Nat /\ copy \in Nat \ {0} /\ offset \in Nat /\ start \in Nat /\ prefix \in Nat
      /\ prefixHistory \in Seq(Int) /\ copy <= remaining
      /\ Len(text) = position + copy /\ start <= prefix /\ prefix - start <= distance
      /\ start <= offset /\ offset <= prefix /\ distance \in Nat \ {0}
      /\ IF distance <= MaxBackward THEN Leads ELSE Cycles(offset - start)
  BY AtPrefix
<1> DEFINE s == PrefixBytes(n)
<1>2. n \in 1 .. Lesser(remaining, Space) /\ n \in 0 .. copy
  <2>1. Space \in Nat
    BY <1>1, Measures
  <2> QED
    BY <1>1, <2>1 DEF Lesser
<1>3. s \in Seq(Int) /\ Len(s) = n
  <2>1. ASSUME NEW i \in 1 .. n PROVE PrefixByte(offset + i - 1) \in Int
    BY <1>1 DEF PrefixByte
  <2>2. s \in [1 .. n -> Int]
    BY <2>1 DEF PrefixBytes
  <2> QED
    BY <2>2, TableIsSeq
<1>4. PrefixNext(text, position, offset, n)
  <2>1. CASE distance <= MaxBackward
    <3>1. LeadsFrom(text, position, distance, copy, prefix, offset)
      BY <1>1, <2>1 DEF Leads
    <3>2. position \in Nat /\ copy \in Nat /\ prefix \in Nat /\ offset \in Nat
      BY <1>1
    <3> QED
      BY <1>2, <3>1, <3>2, LeadsBytes
  <2>2. CASE ~(distance <= MaxBackward)
    <3>1. Cyclic(text, position, distance, copy, start, prefix, prefixHistory, offset - start)
      BY <1>1, <2>2 DEF Cycles
    <3>2. /\ position \in Nat /\ copy \in Nat /\ prefix \in Nat /\ offset \in Nat /\ start \in Nat
          /\ offset - start \in Nat /\ offset = start + (offset - start) /\ distance \in Nat \ {0}
          /\ prefixHistory \in Seq(Int) /\ prefix - start <= distance
      BY <1>1
    <3> QED
      BY <1>2, <3>1, <3>2, CyclicBytes
  <2> QED
    BY <2>1, <2>2
<1>5. Runs(text, s, n)
  <2>1. Extends(text, text) /\ position + n <= Len(text)
    BY <1>1, ExtendsItself
  <2>2. \A k \in 1 .. n : s[k] = text[position + k]
    BY <1>4 DEF PrefixBytes, PrefixNext
  <2> HIDE DEF s
  <2> QED
    BY <1>2, <1>3, <2>1, <2>2 DEF Runs
<1> DEFINE h == Flush(PrefixTaken(s, n), Delivers)
<1>6. Made(h, text, n) /\ h.flushed = position + n
  <2> HIDE DEF s
  <2> QED
    BY <1>1, <1>5, PrefixMakes
<1> HIDE DEF s
<1>7. Store(h)
  BY DEF s
<1> HIDE DEF h
<1>8. /\ UNCHANGED <<mode, fault, stage, literals, implicit, distance, start, prefixHistory, scratch, fast,
                     window, prefix, single, member, fresh, text, delivery, last, memberVars>>
      /\ remaining' = remaining - n /\ cap' = cap - n /\ allow' = allow - n
  BY DEF memberVars, formatVars, Spend
<1>9. HistoryInv' /\ position' = position + n /\ flushed' = position + n
  BY <1>1, <1>6, <1>7, <1>8, Produces
<1>10. copy' \in Nat /\ copy' <= remaining' /\ offset' \in Nat
  BY <1>1, <1>8
<1>11. StreamTypes'
  BY <1>1, <1>8, <1>10 DEF StreamTypes
<1>12. PlaceInv'
  BY <1>1, <1>8, <1>9, WritingPlace
<1>13. BoundInv'
  BY <1>1, <1>8, <1>10 DEF BoundInv
<1>14. MaxBackward' = MaxBackward
  BY <1>8 DEF MaxBackward
<1>15. IF distance <= MaxBackward THEN Leads' ELSE Cycles(offset - start)'
  <2>1. CASE distance <= MaxBackward
    <3>1. LeadsFrom(text, position, distance, copy, prefix, offset)
      BY <1>1, <2>1 DEF Leads
    <3>2. position \in Nat /\ copy \in Nat /\ prefix \in Nat /\ offset \in Nat /\ distance \in Int
      BY <1>1
    <3>3. LeadsFrom(text, position + n, distance, copy - n, prefix, offset + n)
      BY <1>2, <3>1, <3>2, LeadsOn
    <3>4. Leads'
      BY <1>8, <1>9, <3>3 DEF Leads
    <3> QED
      BY <2>1, <3>4
  <2>2. CASE ~(distance <= MaxBackward)
    <3>1. Cyclic(text, position, distance, copy, start, prefix, prefixHistory, offset - start)
      BY <1>1, <2>2 DEF Cycles
    <3>2. /\ position \in Nat /\ copy \in Nat /\ prefix \in Nat /\ offset \in Nat /\ start \in Nat
          /\ offset - start \in Nat /\ distance \in Nat \ {0} /\ (offset - start) + n <= distance
          /\ prefixHistory \in Seq(Int)
      BY <1>1
    <3>3. Cyclic(text, position + n, distance, copy - n, start, prefix, prefixHistory, (offset - start) + n)
      BY <1>2, <3>1, <3>2, CyclicOn
    <3>4. (offset - start) + n = (offset + n) - start
      BY <1>1
    <3>5. Cycles(offset - start)'
      BY <1>8, <1>9, <3>3, <3>4 DEF Cycles
    <3> QED
      BY <2>2, <3>5
  <2> QED
    BY <2>1, <2>2
<1>16. StageInv'
  <2>1. Len(text) = (position + n) + (copy - n) /\ start <= offset + n
    BY <1>1
  <2>2. IF distance' <= MaxBackward' THEN Leads' ELSE Cycles(offset - start)'
    BY <1>8, <1>14, <1>15
  <2>3. distance >= 1
    BY <1>1
  <2>4. PrefixInv'
    BY <1>1, <1>8, <1>9, <2>1, <2>2, <2>3 DEF PrefixInv
  <2>5. CopyInv' /\ PendingInv'
    BY <1>1, <1>8 DEF CopyInv, PendingInv
  <2> QED
    BY <2>4, <2>5 DEF StageInv
<1> QED
  BY <1>9, <1>11, <1>12, <1>13, <1>16 DEF StreamInv

LEMMA PrefixRunHolds == ASSUME CacheInv, StreamInv, PrefixRun PROVE StreamInv'
<1>1. CASE offset = prefix
  BY <1>1, PrefixEndHolds
<1>2. CASE offset # prefix
  <2>1. In("Prefix") /\ copy > 0
    BY DEF PrefixRun
  <2>2. /\ mode = "run" /\ fast = "no" /\ copy \in Nat /\ offset \in Nat /\ prefix \in Nat /\ offset <= prefix
        /\ HistoryInv
    BY <2>1, AtPrefix
  <2>3. Space \in Nat
    BY <2>2, Measures
  <2>4. PICK segment \in 1 .. prefix - offset :
          LET n == Lesser(Lesser(segment, copy), Space)
          IN  /\ n > 0
              /\ \/ NoMemory(position + n)
                 \/ /\ Store(Flush(PrefixTaken(PrefixBytes(n), n), Delivers)) /\ Spend(n)
                    /\ copy' = copy - n /\ offset' = offset + n
                    /\ UNCHANGED <<mode, fault, stage, literals, implicit, distance, code, cache,
                                   start, prefixHistory, scratch, fast, memberVars, fresh, formatVars>>
    BY <1>2, Zenon DEF PrefixRun, PrefixTaken, PrefixBytes, SliceTaken
  <2> DEFINE n == Lesser(Lesser(segment, copy), Space)
  <2>5. n \in Nat \ {0} /\ n <= copy /\ n <= Space /\ offset + n <= prefix
    <3>1. n > 0
      BY <2>4
    <3> QED
      BY <2>2, <2>3, <3>1 DEF Lesser
  <2> HIDE DEF n
  <2>6. CASE NoMemory(position + n)
    BY <2>2, <2>6, FailHolds DEF NoMemory
  <2>7. ASSUME Store(Flush(PrefixTaken(PrefixBytes(n), n), Delivers)), Spend(n),
               copy' = copy - n, offset' = offset + n,
               UNCHANGED <<mode, fault, stage, literals, implicit, distance, code, cache,
                           start, prefixHistory, scratch, fast, memberVars, fresh, formatVars>>
        PROVE  StreamInv'
    BY <2>1, <2>5, <2>7, PrefixWriteHolds
  <2> QED
    BY <2>4, <2>6, <2>7 DEF n
<1> QED
  BY <1>1, <1>2

LEMMA BytesHold == ASSUME CacheInv, StreamInv, Bytes PROVE StreamInv'
  BY RawByteHolds, RawRunHolds, LiteralByteHolds, WordByteHolds, PrefixHistoryByteHolds, CopyRunHolds,
     PrefixRunHolds, CopyDoneHolds DEF Bytes

LEMMA CommandsHold == ASSUME CacheInv, StreamInv, Commands PROVE StreamInv'
  BY ReadCommandHolds, ReadDistanceHolds, ResolvePrefixHolds, ResolveWordHolds, ResolveCopyHolds
     DEF Commands

-----------------------------------------------------------------------------
(* The fast loop. *)

(* Where the loop runs, and what holds there. *)
LEMMA AtFast ==
  ASSUME StreamInv, mode = "run", fast # "no"
  PROVE  /\ stage \in {"Command", "Literals"} /\ stage \notin Settled /\ stage \notin Writing
         /\ stage # "Window" /\ HistoryInv /\ StreamTypes /\ PlaceInv /\ BoundInv /\ StageInv
         /\ Len(text) = position /\ fresh = FALSE
         /\ PowerOfTwo(window) /\ window \in Windows /\ position \in Nat /\ flushed \in Nat
         /\ remaining \in Nat /\ cap \in Nat /\ allow \in Nat
         /\ literals \in Nat /\ copy \in Nat /\ prefix \in Nat /\ Space \in Nat
<1>1. HistoryInv /\ StreamTypes /\ PlaceInv /\ BoundInv /\ StageInv
  BY DEF StreamInv
<1>2. stage \in {"Command", "Literals"} /\ fresh \in BOOLEAN
  BY <1>1 DEF PlaceInv, StreamTypes
<1>3. stage \notin Settled /\ stage \notin Writing /\ stage # "Window"
  BY <1>2 DEF Settled, Writing
<1>4. Len(text) = position
  BY <1>3, PlainText
<1>5. fresh = FALSE /\ window \in Windows
  BY <1>1, <1>2, <1>3 DEF PlaceInv
<1>6. PowerOfTwo(window)
  BY <1>3, WindowServes
<1>7. position \in Nat /\ flushed \in Nat /\ remaining \in Nat /\ cap \in Nat /\ allow \in Nat /\ Space \in Nat
  BY <1>1, HistoryTypes, Measures
<1>8. literals \in Nat /\ copy \in Nat /\ prefix \in Nat
  BY <1>1 DEF StreamTypes
<1> QED
  BY <1>1, <1>2, <1>3, <1>4, <1>5, <1>6, <1>7, <1>8

(* A step of the loop stays in it with the stage it has, or leaves it with   *)
(* everything delivered.                                                     *)
LEMMA FastPlace ==
  ASSUME StreamInv, mode = "run", fast # "no",
         UNCHANGED <<window, prefix, single, member, fresh, delivery>>,
         stage' # "Window",
         \/ fast' = "no" /\ mode' \in {"run", "failed"} /\ flushed' = position'
         \/ fast' # "no" /\ mode' = "run" /\ stage' \in {"Command", "Literals"}
  PROVE  PlaceInv'
<1>1. fresh = FALSE /\ window \in Windows
  BY AtFast
<1> QED
  BY <1>1 DEF PlaceInv

(* The history of n more bytes, wherever the loop goes on from it. *)
LEMMA FastMakes ==
  ASSUME StreamInv, mode = "run", fast # "no", NEW h, NEW t, NEW n, Made(h, t, n), Store(h), text' = t,
         remaining' = remaining - n, cap' = cap - n, allow' = allow - n,
         UNCHANGED <<window, prefix, single, member, fresh, delivery, last>>,
         stage' \in Stages \ Settled, fault' \in {"none", "data", "limit", "memory"},
         \/ fast' = "no" /\ mode' \in {"run", "failed"} /\ h.flushed = position + n
         \/ fast' \in {"command", "literals", "distance"} /\ mode' = "run" /\ stage' \in {"Command", "Literals"},
         literals' \in Nat, copy' \in Nat, implicit' \in BOOLEAN, offset' \in Nat, start' \in Nat,
         scratch' \in Seq(Int), prefixHistory' \in Seq(Int)
  PROVE  HistoryInv' /\ StreamTypes' /\ PlaceInv' /\ position' = position + n
<1>1. stage \notin Settled /\ HistoryInv /\ StreamTypes /\ stage' \notin Settled
  BY AtFast
<1>2. HistoryInv' /\ position' = position + n /\ flushed' = h.flushed
  BY <1>1, Produces
<1>3. stage' # "Window"
  BY DEF Settled
<1>4. PlaceInv'
  BY <1>2, <1>3, FastPlace
<1>5. prefix' \in Nat /\ member' \in Nat /\ {last', single', fresh'} \subseteq BOOLEAN
  BY <1>1 DEF StreamTypes
<1>6. StreamTypes'
  BY <1>5 DEF StreamTypes
<1> QED
  BY <1>2, <1>4, <1>6

(* Leaving the loop for a stage that may hold more of the text. *)
LEMMA PauseExtends ==
  ASSUME HistoryInv, NEW t, Extends(text, t), position <= Len(t)
  PROVE  /\ Made(Flush(History(View), Delivers), t, 0)
         /\ Flush(History(View), Delivers).flushed = position + 0
<1>1. Ready(View, 0) /\ 0 \in 0 .. Lesser(remaining, Space) /\ position + 0 <= Len(t)
  BY ViewReady, Measures, HistoryTypes
<1>2. Onward(View, t, 0)
  BY <1>1, ReadyOnward
<1>3. Good(History(View), t, window, Whole, Delivers, out) /\ Placed(View)
  BY <1>2 DEF Onward
<1>4. History(View).bytes = View /\ History(View).pos = position + 0
  BY HistoryFields, HistoryTypes
<1> QED
  BY <1>1, <1>3, <1>4, FlushMakes

LEMMA PauseKeepsTypes ==
  ASSUME StreamInv, mode = "run", fast # "no", NEW s \in Stages \ Settled, Pause(s), NEW t, text' = t,
         Extends(text, t), position <= Len(t),
         literals' \in Nat, copy' \in Nat, implicit' \in BOOLEAN, offset' \in Nat, start' \in Nat,
         scratch' \in Seq(Int), prefixHistory' \in Seq(Int)
  PROVE  /\ HistoryInv' /\ StreamTypes' /\ PlaceInv' /\ position' = position /\ stage' = s
         /\ remaining' = remaining /\ fast' = "no" /\ window' = window
<1>1. /\ HistoryInv /\ StreamTypes /\ position \in Nat /\ remaining \in Nat /\ cap \in Nat /\ allow \in Nat
  BY AtFast
<1> DEFINE h == Flush(History(View), Delivers)
<1>2. Made(h, t, 0) /\ h.flushed = position + 0
  BY <1>1, PauseExtends
<1>3. /\ Store(h) /\ fast' = "no" /\ stage' = s
      /\ UNCHANGED <<mode, fault, delivery, cap, allow, remaining, last, window, prefix, single, member, fresh>>
  BY DEF Pause, Leave, callVars, blockVars, memberVars
<1> HIDE DEF h
<1>4. remaining' = remaining - 0 /\ cap' = cap - 0 /\ allow' = allow - 0
  BY <1>1, <1>3
<1>5. fault' \in {"none", "data", "limit", "memory"}
  BY <1>1, <1>3 DEF StreamTypes
<1>6. HistoryInv' /\ StreamTypes' /\ PlaceInv' /\ position' = position + 0
  BY <1>2, <1>3, <1>4, <1>5, FastMakes
<1> QED
  BY <1>1, <1>3, <1>6

(* Leaving the loop for a stage that holds none. *)
LEMMA PauseHolds ==
  ASSUME StreamInv, mode = "run", fast # "no",
         NEW s \in {"Command", "CopyExtra", "Distance", "DistanceExtra", "Resolve"}, Pause(s),
         UNCHANGED <<text, offset, start, prefixHistory, scratch>>,
         literals' \in Nat, copy' \in Nat, implicit' \in BOOLEAN,
         s = "CopyExtra" => literals' <= remaining,
         s \in {"Distance", "DistanceExtra", "Resolve"} => copy' > 0
  PROVE  StreamInv'
<1>1. HistoryInv /\ StreamTypes /\ Len(text) = position /\ position \in Nat
  BY AtFast
<1>2. text \in Seq(Int) /\ Extends(text, text)
  BY <1>1, HistoryTypes, ExtendsItself
<1>3. offset' \in Nat /\ start' \in Nat /\ scratch' \in Seq(Int) /\ prefixHistory' \in Seq(Int)
  BY <1>1 DEF StreamTypes
<1>4. s \in Stages \ Settled /\ s \notin Writing
  BY DEF Stages, Reading, Settled, Writing
<1>5. /\ HistoryInv' /\ StreamTypes' /\ PlaceInv' /\ position' = position /\ stage' = s
      /\ remaining' = remaining /\ fast' = "no"
  <2>1. text' = text /\ position <= Len(text)
    BY <1>1
  <2> QED
    BY <1>2, <1>3, <1>4, <2>1, PauseKeepsTypes
<1>6. StageInv'
  BY <1>1, <1>4, <1>5, PlainStage
<1>7. BoundInv'
  BY <1>5 DEF BoundInv
<1> QED
  BY <1>5, <1>6, <1>7 DEF StreamInv

(* An error of the loop. *)
LEMMA FastFailHolds ==
  ASSUME StreamInv, mode = "run", fast # "no", NEW e \in {"data", "memory"}, NEW c, FastFail(e, c)
  PROVE  StreamInv'
<1>1. /\ HistoryInv /\ StreamTypes /\ BoundInv /\ position \in Nat /\ remaining \in Nat /\ cap \in Nat
      /\ allow \in Nat /\ Len(text) = position /\ stage \notin Settled /\ stage \notin Writing
      /\ stage \in {"Command", "Literals"}
  BY AtFast
<1> DEFINE h == Flush(History(View), Delivers)
<1>2. Made(h, text, 0) /\ h.flushed = position + 0
  BY <1>1, PauseMakes
<1>3. /\ Store(h) /\ fast' = "no" /\ mode' = "failed" /\ fault' = e
      /\ UNCHANGED <<delivery, cap, allow, stage, remaining, last, literals, copy, implicit, offset, start,
                     prefixHistory, scratch, window, prefix, single, member, fresh, text>>
  BY DEF FastFail, Leave, callVars, blockVars, commandVars, copyVars, memberVars, formatVars
<1> HIDE DEF h
<1>4. remaining' = remaining - 0 /\ cap' = cap - 0 /\ allow' = allow - 0
  BY <1>1, <1>3
<1>5. /\ stage' \in Stages \ Settled /\ literals' \in Nat /\ copy' \in Nat /\ implicit' \in BOOLEAN
      /\ offset' \in Nat /\ start' \in Nat /\ scratch' \in Seq(Int) /\ prefixHistory' \in Seq(Int)
  BY <1>1, <1>3 DEF StreamTypes
<1>6. HistoryInv' /\ StreamTypes' /\ PlaceInv' /\ position' = position + 0
  BY <1>2, <1>3, <1>4, <1>5, FastMakes
<1>7. StageInv'
  BY <1>1, <1>3, <1>6, PlainStage
<1>8. BoundInv'
  BY <1>1, <1>3 DEF BoundInv
<1> QED
  BY <1>6, <1>7, <1>8 DEF StreamInv

LEMMA ReachFailsHolds ==
  ASSUME StreamInv, mode = "run", fast # "no", NEW end, NEW c, ReachFails(end, c)
  PROVE  StreamInv'
  BY FastFailHolds DEF ReachFails

(* The loop is entered. *)
LEMMA EnterFastHolds == ASSUME StreamInv, EnterFast PROVE StreamInv'
<1>1. mode = "run" /\ fast = "no"
  BY DEF EnterFast, In
<1>2. /\ HistoryInv /\ StreamTypes /\ PlaceInv /\ BoundInv /\ StageInv
  BY <1>1, Running
<1>3. \/ stage = "Command" /\ fast' = "command"
      \/ stage = "Literals" /\ fast' = "literals"
  BY DEF EnterFast, In
<1>4. UNCHANGED <<mode, fault, callVars, historyVars, stage, blockVars, commandVars, cache,
                  copyVars, memberVars, fresh, formatVars>>
  BY DEF EnterFast
<1>5. /\ UNCHANGED <<mode, fault, delivery, cap, allow, slice, ring, position, flushed, out, stage, remaining, last,
                     literals, copy, implicit, distance, code, offset, start, prefixHistory, scratch,
                     window, prefix, single, member, fresh, text>>
  BY <1>4 DEF callVars, historyVars, blockVars, commandVars, copyVars, memberVars, formatVars
<1>6. HistoryInv'
  BY <1>2, <1>4, <1>5, HistoryRests
<1>7. StageInv'
  BY <1>2, <1>5, StageStands
<1>8. StreamTypes'
  BY <1>2, <1>3, <1>5 DEF StreamTypes
<1>9. PlaceInv'
  BY <1>1, <1>2, <1>3, <1>5 DEF PlaceInv
<1>10. BoundInv'
  BY <1>2, <1>3, <1>5 DEF BoundInv
<1> QED
  BY <1>6, <1>7, <1>8, <1>9, <1>10 DEF StreamInv

(* A step of the loop that leaves the history alone. *)
LEMMA FastStands ==
  ASSUME StreamInv, mode = "run", fast # "no",
         UNCHANGED <<mode, fault, delivery, cap, allow, slice, ring, position, flushed, out, stage, remaining, last,
                     offset, start, prefixHistory, scratch, window, prefix, single, member, fresh, text>>,
         fast' \in {"literals", "distance"}, literals' \in Nat, literals' <= remaining,
         copy' \in Nat, copy' > 0, implicit' \in BOOLEAN, fast' = "distance" => literals' = 0
  PROVE  StreamInv'
<1>1. /\ HistoryInv /\ StreamTypes /\ PlaceInv /\ BoundInv /\ stage \notin Writing /\ Len(text) = position
      /\ stage \in {"Command", "Literals"}
  BY AtFast
<1>2. HistoryInv'
  BY <1>1, HistoryRests DEF callVars, historyVars
<1>3. StageInv'
  BY <1>1, PlainStage
<1>4. StreamTypes'
  BY <1>1 DEF StreamTypes
<1>5. PlaceInv'
  BY <1>1 DEF PlaceInv
<1>6. BoundInv'
  BY <1>1 DEF BoundInv
<1> QED
  BY <1>2, <1>3, <1>4, <1>5, <1>6 DEF StreamInv

(* A command of the loop. *)
LEMMA FastCommandHolds == ASSUME StreamInv, FastCommand PROVE StreamInv'
<1>1. mode = "run" /\ fast = "command" /\ fast # "no"
  BY DEF FastCommand, InFast
<1>2. /\ literals \in Nat /\ copy \in Nat /\ remaining \in Nat /\ implicit \in BOOLEAN
  BY <1>1, AtFast DEF StreamTypes
<1>3. \/ Pause("Command") /\ UNCHANGED <<commandVars, cache, copyVars, formatVars>>
      \/ \E n \in Inserts :
             IF n > remaining THEN FastFail("data", cache)
             ELSE /\ literals' = n /\ implicit' \in BOOLEAN
                  /\ \/ Pause("CopyExtra") /\ copy' = 0
                     \/ /\ copy' \in Copies
                        /\ fast' = "literals"
                        /\ UNCHANGED <<mode, fault, callVars, historyVars, stage, blockVars,
                                       memberVars, fresh>>
                  /\ UNCHANGED <<distance, code, cache, copyVars, formatVars>>
  BY Zenon DEF FastCommand
<1>4. CASE Pause("Command") /\ UNCHANGED <<commandVars, cache, copyVars, formatVars>>
  <2>1. UNCHANGED <<text, offset, start, prefixHistory, scratch, literals, copy, implicit>>
    BY <1>4 DEF commandVars, copyVars, formatVars
  <2> QED
    BY <1>1, <1>2, <1>4, <2>1, PauseHolds
<1>5. ASSUME NEW n \in Inserts, n > remaining, FastFail("data", cache)
      PROVE  StreamInv'
  BY <1>1, <1>5, FastFailHolds
<1>6. ASSUME NEW n \in Inserts, ~(n > remaining), literals' = n, implicit' \in BOOLEAN,
             UNCHANGED <<distance, code, cache, copyVars, formatVars>>,
             Pause("CopyExtra"), copy' = 0
      PROVE  StreamInv'
  <2>1. UNCHANGED <<text, offset, start, prefixHistory, scratch>>
    BY <1>6 DEF copyVars, formatVars
  <2>2. n \in Nat
    BY DecoderAssumption
  <2>3. literals' \in Nat /\ literals' <= remaining /\ copy' \in Nat
    BY <1>2, <1>6, <2>2
  <2> QED
    BY <1>1, <1>6, <2>1, <2>3, PauseHolds
<1>7. ASSUME NEW n \in Inserts, ~(n > remaining), literals' = n, implicit' \in BOOLEAN,
             UNCHANGED <<distance, code, cache, copyVars, formatVars>>,
             copy' \in Copies, fast' = "literals",
             UNCHANGED <<mode, fault, callVars, historyVars, stage, blockVars, memberVars, fresh>>
      PROVE  StreamInv'
  <2>1. UNCHANGED <<mode, fault, delivery, cap, allow, slice, ring, position, flushed, out, stage, remaining, last,
                    offset, start, prefixHistory, scratch, window, prefix, single, member, fresh, text>>
    BY <1>7 DEF callVars, historyVars, blockVars, copyVars, memberVars, formatVars
  <2>2. n \in Nat /\ copy' \in Nat /\ copy' > 0
    BY <1>7, DecoderAssumption
  <2>3. literals' \in Nat /\ literals' <= remaining
    BY <1>2, <1>7, <2>2
  <2> QED
    BY <1>1, <1>7, <2>1, <2>2, <2>3, FastStands
<1> QED
  BY <1>3, <1>4, <1>5, <1>6, <1>7

(* The end of a run of literals. *)
LEMMA FastLiteralsDoneHolds == ASSUME StreamInv, FastLiteralsDone PROVE StreamInv'
<1>1. mode = "run" /\ fast = "literals" /\ fast # "no" /\ literals = 0
  BY DEF FastLiteralsDone, InFast
<1>2. /\ literals \in Nat /\ copy \in Nat /\ copy > 0 /\ remaining \in Nat /\ implicit \in BOOLEAN
  BY <1>1, AtFast DEF StreamTypes, BoundInv
<1>3. \/ \E s \in {"Command", "Distance"} : Pause(s) /\ UNCHANGED <<commandVars, cache, copyVars, formatVars>>
      \/ /\ fast' = "distance"
         /\ UNCHANGED <<mode, fault, callVars, historyVars, stage, blockVars, commandVars,
                        cache, copyVars, memberVars, fresh, formatVars>>
  BY DEF FastLiteralsDone
<1>4. ASSUME NEW s \in {"Command", "Distance"}, Pause(s), UNCHANGED <<commandVars, cache, copyVars, formatVars>>
      PROVE  StreamInv'
  <2>1. UNCHANGED <<text, offset, start, prefixHistory, scratch, literals, copy, implicit>>
    BY <1>4 DEF commandVars, copyVars, formatVars
  <2> QED
    BY <1>1, <1>2, <1>4, <2>1, PauseHolds
<1>5. ASSUME fast' = "distance",
             UNCHANGED <<mode, fault, callVars, historyVars, stage, blockVars, commandVars,
                         cache, copyVars, memberVars, fresh, formatVars>>
      PROVE  StreamInv'
  <2>1. UNCHANGED <<mode, fault, delivery, cap, allow, slice, ring, position, flushed, out, stage, remaining, last,
                    offset, start, prefixHistory, scratch, window, prefix, single, member, fresh, text,
                    literals, copy, implicit>>
    BY <1>5 DEF callVars, historyVars, blockVars, commandVars, copyVars, memberVars, formatVars
  <2> QED
    BY <1>1, <1>2, <1>5, <2>1, FastStands
<1> QED
  BY <1>3, <1>4, <1>5

(* The room left in the buffer reached is a number. *)
LEMMA ReachedTypes ==
  ASSUME StreamInv, mode = "run", fast # "no", NEW end \in Nat, position <= end
  PROVE  /\ Reached(end) \in Seq(Int) /\ Len(Reached(end)) \in Nat
         /\ Index(Reached(end), position) \in Int
<1> DEFINE b == Reached(end)
<1>1. HistoryInv /\ PowerOfTwo(window) /\ Len(text) = position /\ position \in Nat
  BY AtFast
<1>2. 0 \in 0 .. Lesser(remaining, Space) /\ position + 0 <= end /\ position + 0 <= Len(text)
  BY <1>1, Measures
<1>3. Ready(b, 0)
  BY <1>1, <1>2, ReachedReady
<1>4. Extends(text, text)
  BY <1>1, HistoryTypes, ExtendsItself
<1> HIDE DEF b
<1>5. Onward(b, text, 0)
  BY <1>2, <1>3, <1>4, ReadyOnward
<1>6. b \in Seq(Int) /\ Len(b) \in Nat
  BY <1>1, <1>5, OnwardTypes
<1>7. Index(b, position) \in Int
  <2>1. CASE b = <<>>
    BY <1>1, <2>1 DEF Index
  <2>2. CASE b # <<>>
    <3>1. Len(b) \in Nat \ {0}
      BY <1>6, <2>2, EmptySeq
    <3>2. position % Len(b) \in Int
      BY <1>1, <3>1, Divides
    <3> QED
      BY <2>2, <3>2 DEF Index
  <2> QED
    BY <2>1, <2>2
<1> QED
  BY <1>6, <1>7 DEF b

(* The lesser of two is below both. *)
LEMMA WithinBoth ==
  ASSUME NEW a \in Nat, NEW b \in Nat, NEW r \in Int, NEW n \in 0 .. Lesser(Lesser(a, b), r)
  PROVE  n \in Nat /\ n <= a /\ n <= b /\ n <= r
  BY DEF Lesser

(* A run of literals of the loop, as far as the buffer reached goes. *)
LEMMA FastRunMakes ==
  ASSUME StreamInv, mode = "run", fast # "no", NEW end \in Nat, NEW n \in Nat, n <= remaining, n <= Space,
         position + n <= end, NEW s, Lengthened(s, n),
         n <= Len(Reached(end)) - Index(Reached(end), position)
  PROVE  /\ Made(LiteralsTaken(Reached(end), s, n), text \o s, n)
         /\ Len(text \o s) = position + n
<1>1. HistoryInv /\ PowerOfTwo(window) /\ Len(text) = position /\ position \in Nat /\ remaining \in Nat /\ Space \in Nat
  BY AtFast
<1> DEFINE b == Reached(end)
           t == text \o s
<1>2. n \in 0 .. Lesser(remaining, Space)
  BY <1>1 DEF Lesser
<1>3. Ready(b, n) /\ (Linear => b = View)
  BY <1>1, <1>2, ReachedReady
<1>4. Enlarged(t, s, n)
  BY <1>1, TextGrows
<1>5. Extends(text, t) /\ Len(t) = position + n /\ \A k \in 1 .. n : s[k] = t[position + k]
  BY <1>4 DEF Enlarged
<1>6. s \in Seq(Int) /\ Len(s) = n
  BY DEF Lengthened
<1> HIDE DEF b, t
<1>7. Onward(b, t, n)
  <2>1. position + n <= Len(t)
    BY <1>1, <1>5
  <2> QED
    BY <1>2, <1>3, <1>5, <2>1, ReadyOnward
<1>8. Index(b, position) + n <= Len(b)
  <2>1. position <= end
    BY <1>1
  <2>2. Len(b) \in Nat /\ Index(b, position) \in Int
    BY <2>1, ReachedTypes DEF b
  <2>3. n <= Len(b) - Index(b, position)
    BY DEF b
  <2> QED
    BY <2>2, <2>3
<1>9. Made(LiteralsTaken(b, s, n), t, n)
  BY <1>1, <1>3, <1>5, <1>6, <1>7, <1>8, LiteralsMake
<1> QED
  BY <1>5, <1>9 DEF b, t

(* The literals of the loop. *)
LEMMA FastLiteralsHold == ASSUME StreamInv, FastLiterals PROVE StreamInv'
<1>1. mode = "run" /\ fast = "literals" /\ fast # "no" /\ literals > 0
  BY DEF FastLiterals, InFast
<1>2. /\ HistoryInv /\ StreamTypes /\ literals \in Nat /\ copy \in Nat /\ remaining \in Nat /\ implicit \in BOOLEAN
      /\ position \in Nat /\ Space \in Nat /\ stage \in {"Command", "Literals"} /\ BoundInv
  BY <1>1, AtFast DEF StreamTypes
<1>3. literals <= remaining /\ copy > 0
  BY <1>1, <1>2 DEF BoundInv
<1> DEFINE end == position + literals
           b == Reached(end)
           s(n) == [i \in 1 .. n |-> Literal(position + i - 1)]
           h(n) == LiteralsTaken(b, s(n), n)
<1>4. \/ ReachFails(end, cache)
      \/ \E n \in 0 .. Lesser(Lesser(literals, Space), Len(b) - Index(b, position)) :
           /\ literals' = literals - n
           /\ Spend(n)
           /\ text' = text \o s(n)
           /\ \/ literals' > 0 /\ Leave(h(n)) /\ stage' = "Literals"
              \/ n > 0 /\ Store(h(n)) /\ UNCHANGED <<fast, stage>>
           /\ UNCHANGED <<mode, fault, copy, implicit, distance, code, cache, copyVars,
                          memberVars, fresh, recents>>
  BY Zenon DEF FastLiterals, LiteralsTaken
<1>5. CASE ReachFails(end, cache)
  BY <1>1, <1>5, ReachFailsHolds
<1>6. ASSUME NEW n \in 0 .. Lesser(Lesser(literals, Space), Len(b) - Index(b, position)),
             literals' = literals - n, Spend(n), text' = text \o s(n),
             \/ literals' > 0 /\ Leave(h(n)) /\ stage' = "Literals"
             \/ n > 0 /\ Store(h(n)) /\ UNCHANGED <<fast, stage>>,
             UNCHANGED <<mode, fault, copy, implicit, distance, code, cache, copyVars,
                         memberVars, fresh, recents>>
      PROVE  StreamInv'
  <2> DEFINE r == Len(b) - Index(b, position)
             S == s(n)
             t == text \o S
  <2>1. Lengthened(S, n)
    BY <1>2, LiteralsAre
  <2> HIDE DEF S
  <2>2. end \in Nat
    BY <1>2
  <2> HIDE DEF b
  <2>3. n \in Nat /\ n <= literals /\ n <= Space /\ n <= r
    <3>1. position <= end
      BY <1>2
    <3>2. Len(b) \in Nat /\ Index(b, position) \in Int
      <4> HIDE DEF end
      <4> QED
        BY <1>1, <2>2, <3>1, ReachedTypes DEF b
    <3>3. r \in Int /\ n \in 0 .. Lesser(Lesser(literals, Space), r)
      BY <3>2
    <3> HIDE DEF r
    <3> QED
      BY <1>2, <3>3, WithinBoth
  <2>4. Made(LiteralsTaken(b, S, n), t, n) /\ Len(t) = position + n
    <3>1. n <= remaining /\ position + n <= end
      BY <1>2, <1>3, <2>3
    <3>2. n <= Len(Reached(end)) - Index(Reached(end), position)
      BY <2>3 DEF b
    <3> HIDE DEF end
    <3> QED
      BY <1>1, <2>1, <2>2, <2>3, <3>1, <3>2, FastRunMakes DEF b
  <2> DEFINE g == LiteralsTaken(b, S, n)
  <2>5. Made(Flush(g, Delivers), t, n) /\ Flush(g, Delivers).flushed = position + n
    BY <2>4, MadeFlushes
  <2>6. /\ UNCHANGED <<mode, fault, copy, implicit, offset, start, prefixHistory, scratch, window, prefix, single,
                       member, fresh, delivery, last>>
        /\ remaining' = remaining - n /\ cap' = cap - n /\ allow' = allow - n
    BY <1>6 DEF copyVars, memberVars, Spend
  <2>7. /\ offset' \in Nat /\ start' \in Nat /\ prefixHistory' \in Seq(Int) /\ scratch' \in Seq(Int)
        /\ literals' \in Nat /\ copy' \in Nat /\ implicit' \in BOOLEAN /\ literals' <= remaining' /\ copy' > 0
        /\ fault' \in {"none", "data", "limit", "memory"}
    BY <1>2, <1>3, <1>6, <2>3, <2>6 DEF StreamTypes
  <2>8. "Literals" \in Stages \ Settled /\ "Literals" \notin Writing /\ "Command" \in Stages \ Settled /\ "Command" \notin Writing
    BY DEF Stages, Reading, Settled, Writing
  <2>9. text' = t
    BY <1>6 DEF S
  <2>10. \/ Store(Flush(g, Delivers)) /\ fast' = "no" /\ stage' = "Literals"
         \/ Store(g) /\ fast' = "literals" /\ stage' = stage
    BY <1>1, <1>6 DEF S, Leave
  <2> HIDE DEF g, t
  <2>11. CASE Store(Flush(g, Delivers)) /\ fast' = "no" /\ stage' = "Literals"
    <3>1. HistoryInv' /\ StreamTypes' /\ PlaceInv' /\ position' = position + n
      BY <1>1, <2>5, <2>6, <2>7, <2>8, <2>9, <2>11, FastMakes
    <3>2. StageInv'
      BY <2>4, <2>8, <2>9, <2>11, <3>1, PlainStage DEF t
    <3>3. BoundInv'
      BY <2>7, <2>11 DEF BoundInv
    <3> QED
      BY <3>1, <3>2, <3>3 DEF StreamInv
  <2>12. CASE Store(g) /\ fast' = "literals" /\ stage' = stage
    <3>1. Made(g, t, n)
      BY <2>4 DEF g, t
    <3>2. HistoryInv' /\ StreamTypes' /\ PlaceInv' /\ position' = position + n
      <4>1. stage' \in Stages \ Settled /\ stage' \in {"Command", "Literals"}
        BY <1>2, <2>8, <2>12
      <4> QED
        BY <1>1, <2>6, <2>7, <2>9, <2>12, <3>1, <4>1, FastMakes
    <3>3. StageInv'
      BY <1>2, <2>4, <2>8, <2>9, <2>12, <3>2, PlainStage DEF t
    <3>4. BoundInv'
      BY <1>2, <2>7, <2>12 DEF BoundInv
    <3> QED
      BY <3>2, <3>3, <3>4 DEF StreamInv
  <2> QED
    BY <2>10, <2>11, <2>12
<1> QED
  BY <1>4, <1>5, <1>6

-----------------------------------------------------------------------------
(* The loop's references. *)

(* What the loop knows before a reference. *)
LEMMA AtReference ==
  ASSUME CacheInv, StreamInv, InFast("distance"), NEW c \in IF implicit THEN {0} ELSE Codes, NEW d \in Resolved(c)
  PROVE  /\ mode = "run" /\ fast = "distance" /\ fast # "no" /\ d \in Nat \ {0}
         /\ HistoryInv /\ StreamTypes /\ Len(text) = position /\ literals = 0 /\ copy \in Nat \ {0}
         /\ prefix \in Nat /\ position \in Nat /\ Available \in Nat /\ remaining \in Nat /\ Space \in Nat
         /\ stage \in {"Command", "Literals"} /\ PowerOfTwo(window) /\ implicit \in BOOLEAN
         /\ offset \in Nat /\ start \in Nat /\ scratch \in Seq(Int) /\ prefixHistory \in Seq(Int)
         /\ member \in Nat
<1>1. mode = "run" /\ fast = "distance" /\ fast # "no"
  BY DEF InFast
<1>2. /\ HistoryInv /\ StreamTypes /\ Len(text) = position /\ prefix \in Nat /\ position \in Nat
      /\ remaining \in Nat /\ Space \in Nat /\ stage \in {"Command", "Literals"} /\ PowerOfTwo(window)
      /\ BoundInv /\ copy \in Nat
  BY <1>1, AtFast
<1>3. literals = 0 /\ copy \in Nat \ {0}
  BY <1>1, <1>2 DEF BoundInv
<1>4. Available \in Nat
  BY <1>2, Measures
<1>5. /\ offset \in Nat /\ start \in Nat /\ scratch \in Seq(Int) /\ prefixHistory \in Seq(Int)
      /\ implicit \in BOOLEAN /\ member \in Nat
  BY <1>2 DEF StreamTypes
<1>6. d \in Nat \ {0}
  <2>1. c \in 0 .. 16
    BY DecoderAssumption
  <2> QED
    BY <2>1, ResolvedTypes
<1> QED
  BY <1>1, <1>2, <1>3, <1>4, <1>5, <1>6

(* A reference of the loop that is an error: never the internal one. *)
LEMMA FastReferenceFailsHolds ==
  ASSUME CacheInv, StreamInv, InFast("distance"), NEW c, NEW d, NEW popped, FastReferenceFails(c, d, popped)
  PROVE  StreamInv'
<1>1. mode = "run" /\ fast # "no"
  BY DEF InFast
<1>2. \/ \E e : FastFail("data", e)
      \/ \E e, end : ReachFails(end, e)
      \/ /\ copy <= Lesser(remaining, Space) /\ Linear /\ position + copy > Len(View)
  BY Zenon DEF FastReferenceFails
<1>3. ASSUME copy <= Lesser(remaining, Space), Linear, position + copy > Len(View)
      PROVE  FALSE
  <2>1. HistoryInv /\ position \in Nat /\ copy \in Nat
    BY <1>1, AtFast
  <2>2. Len(View) = position + Lesser(remaining, Space) /\ Lesser(remaining, Space) \in Nat
    BY <1>3, <2>1, ViewReady, Measures
  <2> QED
    BY <1>3, <2>1, <2>2
<1> QED
  BY <1>1, <1>2, <1>3, FastFailHolds, ReachFailsHolds

(* The loop goes on after n bytes of a reference. *)
LEMMA ContinueHolds ==
  ASSUME StreamInv, InFast("distance"), NEW h, NEW t, NEW n, Made(h, t, n), Len(t) = position + n, text' = t,
         Continue(h, n), UNCHANGED <<literals, copy, implicit, offset, start, prefixHistory, scratch>>
  PROVE  StreamInv'
<1>1. mode = "run" /\ fast = "distance" /\ fast # "no"
  BY DEF InFast
<1>2. /\ HistoryInv /\ StreamTypes /\ BoundInv /\ stage \in {"Command", "Literals"} /\ stage \notin Settled
      /\ stage \notin Writing /\ remaining \in Nat /\ copy \in Nat
  BY <1>1, AtFast
<1>3. literals = 0 /\ copy > 0
  BY <1>1, <1>2 DEF BoundInv
<1>4. /\ Store(h) /\ fast' = "command"
      /\ UNCHANGED <<mode, fault, stage, window, prefix, single, member, fresh, delivery, last>>
      /\ remaining' = remaining - n /\ cap' = cap - n /\ allow' = allow - n
  BY DEF Continue, Spend, memberVars
<1>5. /\ stage' \in Stages \ Settled /\ literals' \in Nat /\ copy' \in Nat /\ implicit' \in BOOLEAN
      /\ offset' \in Nat /\ start' \in Nat /\ scratch' \in Seq(Int) /\ prefixHistory' \in Seq(Int)
      /\ fault' \in {"none", "data", "limit", "memory"}
  BY <1>2, <1>4 DEF StreamTypes
<1>6. HistoryInv' /\ StreamTypes' /\ PlaceInv' /\ position' = position + n
  BY <1>1, <1>2, <1>4, <1>5, FastMakes
<1>7. StageInv'
  BY <1>2, <1>4, <1>6, PlainStage
<1>8. BoundInv'
  <2>1. literals' <= remaining' /\ copy' > 0
    <3>1. remaining' \in Nat
      BY <1>6 DEF HistoryInv
    <3> QED
      BY <1>3, <3>1
  <2> QED
    BY <1>2, <1>4, <2>1 DEF BoundInv
<1> QED
  BY <1>6, <1>7, <1>8 DEF StreamInv

(* A reference beyond the history. *)
LEMMA FastBeyondHolds ==
  ASSUME CacheInv, StreamInv, InFast("distance"), NEW c \in IF implicit THEN {0} ELSE Codes,
         NEW d \in Resolved(c), NEW popped, FastBeyond(c, d, popped)
  PROVE  StreamInv'
<1>1. /\ mode = "run" /\ fast # "no" /\ d \in Nat \ {0}
      /\ HistoryInv /\ StreamTypes /\ Len(text) = position /\ literals = 0 /\ copy \in Nat \ {0}
      /\ position \in Nat /\ remaining \in Nat /\ Space \in Nat /\ PowerOfTwo(window)
      /\ implicit \in BOOLEAN /\ stage \in {"Command", "Literals"}
      /\ offset \in Nat /\ start \in Nat /\ scratch \in Seq(Int) /\ prefixHistory \in Seq(Int)
  BY AtReference
<1>2. UNCHANGED <<literals, copy, implicit, offset, start, prefixHistory>>
  BY DEF FastBeyond
<1>3. \/ Pause("Resolve") /\ UNCHANGED <<scratch, text>>
      \/ \E n \in Words :
           /\ ~WordRefused(n, d) /\ text' = text \o Word(n)
           /\ \/ n > Space /\ Pause("Dictionary") /\ scratch' = Word(n)
              \/ /\ ~(n > Space)
                 /\ Continue(WriteRing(History(Reached(position + n)), Word(n), Delivers), n)
                 /\ UNCHANGED scratch
  BY Zenon DEF FastBeyond
<1>4. CASE Pause("Resolve") /\ UNCHANGED <<scratch, text>>
  <2>1. literals' \in Nat /\ copy' \in Nat /\ copy' > 0 /\ implicit' \in BOOLEAN
    BY <1>1, <1>2
  <2> QED
    BY <1>1, <1>2, <1>4, <2>1, PauseHolds
<1>5. ASSUME NEW n \in Words, ~WordRefused(n, d), text' = text \o Word(n)
      PROVE  /\ n \in Nat /\ n <= remaining /\ Lengthened(Word(n), n) /\ Enlarged(text \o Word(n), Word(n), n)
  <2>1. n \in Nat
    BY DecoderAssumption
  <2>2. n <= remaining
    BY <1>1, <1>5, <2>1 DEF WordRefused
  <2>3. Lengthened(Word(n), n)
    BY <1>1, <2>1, WordIs
  <2> QED
    BY <1>1, <2>1, <2>2, <2>3, TextGrows
<1>6. ASSUME NEW n \in Words, ~WordRefused(n, d), text' = text \o Word(n),
             Pause("Dictionary"), scratch' = Word(n)
      PROVE  StreamInv'
  <2> DEFINE S == Word(n)
             t == text \o S
  <2>1. n \in Nat /\ n <= remaining /\ Lengthened(S, n) /\ Enlarged(t, S, n)
    BY <1>5, <1>6
  <2>2. text' = t /\ scratch' = S
    BY <1>6
  <2> HIDE DEF S, t
  <2>3. Extends(text, t) /\ Len(t) = position + n /\ S \in Seq(Int) /\ Len(S) = n
    BY <2>1 DEF Enlarged, Lengthened
  <2>4. /\ position <= Len(t) /\ literals' \in Nat /\ copy' \in Nat /\ implicit' \in BOOLEAN /\ offset' \in Nat
        /\ start' \in Nat /\ scratch' \in Seq(Int) /\ prefixHistory' \in Seq(Int)
    BY <1>1, <1>2, <2>1, <2>2, <2>3
  <2>5. "Dictionary" \in Stages \ Settled
    BY DEF Stages, Settled
  <2>6. /\ HistoryInv' /\ StreamTypes' /\ PlaceInv' /\ position' = position /\ stage' = "Dictionary"
        /\ remaining' = remaining /\ fast' = "no"
    BY <1>1, <1>6, <2>2, <2>3, <2>4, <2>5, PauseKeepsTypes
  <2>7. S = SubSeq(t, position + 1, Len(t))
    BY <1>1, <2>1, EnlargedTail
  <2>8. scratch' = SubSeq(text', position' + 1, Len(text'))
    BY <2>2, <2>6, <2>7
  <2>9. StageInv'
    BY <2>6, <2>8 DEF StageInv, CopyInv, PrefixInv, PendingInv
  <2>10. BoundInv'
    BY <1>1, <1>2, <2>1, <2>2, <2>3, <2>6 DEF BoundInv
  <2> QED
    BY <2>6, <2>9, <2>10 DEF StreamInv
<1>7. ASSUME NEW n \in Words, ~WordRefused(n, d), text' = text \o Word(n), ~(n > Space),
             Continue(WriteRing(History(Reached(position + n)), Word(n), Delivers), n), UNCHANGED scratch
      PROVE  StreamInv'
  <2> DEFINE S == Word(n)
             t == text \o S
             b == Reached(position + n)
  <2>1. n \in Nat /\ n <= remaining /\ Lengthened(S, n) /\ Enlarged(t, S, n)
    BY <1>5, <1>7
  <2>2. text' = t /\ Continue(WriteRing(History(b), S, Delivers), n)
    BY <1>7
  <2> HIDE DEF S, t
  <2>3. /\ Extends(text, t) /\ Len(t) = position + n /\ S \in Seq(Int) /\ Len(S) = n
        /\ \A k \in 1 .. n : S[k] = t[position + k]
    BY <2>1 DEF Enlarged, Lengthened
  <2>4. n \in 0 .. Lesser(remaining, Space) /\ position + n \in Nat /\ position + n <= position + n
    BY <1>1, <1>7, <2>1 DEF Lesser
  <2>5. Ready(b, n) /\ (Linear => b = View)
    BY <1>1, <2>4, ReachedReady
  <2> HIDE DEF b
  <2>6. Onward(b, t, n)
    <3>1. position + n <= Len(t)
      BY <2>3, <2>4
    <3> QED
      BY <2>3, <2>4, <2>5, <3>1, ReadyOnward
  <2>7. Made(WriteRing(History(b), S, Delivers), t, n)
    BY <1>1, <2>3, <2>5, <2>6, RingWritten
  <2> QED
    BY <1>2, <1>7, <2>2, <2>3, <2>7, ContinueHolds
<1> QED
  BY <1>3, <1>4, <1>6, <1>7

(* A copy of the loop, done at once or left to its stage. *)
LEMMA FastCopyHolds ==
  ASSUME CacheInv, StreamInv, InFast("distance"), NEW c \in IF implicit THEN {0} ELSE Codes,
         NEW d \in Resolved(c), NEW popped, d <= Available, copy <= remaining, FastCopy(c, d, popped)
  PROVE  StreamInv'
<1>1. /\ mode = "run" /\ fast # "no" /\ d \in Nat \ {0}
      /\ HistoryInv /\ StreamTypes /\ Len(text) = position /\ literals = 0 /\ copy \in Nat \ {0} /\ prefix \in Nat
      /\ position \in Nat /\ remaining \in Nat /\ Space \in Nat /\ PowerOfTwo(window)
      /\ implicit \in BOOLEAN /\ stage \in {"Command", "Literals"} /\ Available \in Nat
      /\ offset \in Nat /\ start \in Nat /\ scratch \in Seq(Int) /\ prefixHistory \in Seq(Int)
  BY AtReference
<1> DEFINE t == text \o Copied(d, copy)
<1>2. /\ UNCHANGED <<literals, copy, implicit, offset, start, prefixHistory, scratch>>
      /\ text' = t /\ distance' = d
  BY DEF FastCopy, Reference, copyVars
<1>3. Extends(text, t) /\ t \in Seq(Int) /\ Len(t) = position + copy /\ Recurs(t, position, d, copy)
  BY <1>1, CopyRecurs
<1>4. \/ copy > Space /\ Pause("Copy")
      \/ ~(copy > Space) /\ Continue(FastCopied(d, copy), copy)
  BY Zenon DEF FastCopy, FastCopied
<1> HIDE DEF t
<1>5. CASE copy > Space /\ Pause("Copy")
  <2>1. /\ position <= Len(t) /\ literals' \in Nat /\ copy' \in Nat /\ implicit' \in BOOLEAN /\ offset' \in Nat
        /\ start' \in Nat /\ scratch' \in Seq(Int) /\ prefixHistory' \in Seq(Int)
    BY <1>1, <1>2, <1>3
  <2>2. "Copy" \in Stages \ Settled
    BY DEF Stages, Settled
  <2>3. /\ HistoryInv' /\ StreamTypes' /\ PlaceInv' /\ position' = position /\ stage' = "Copy"
        /\ remaining' = remaining /\ fast' = "no" /\ window' = window
    BY <1>1, <1>2, <1>3, <1>5, <2>1, <2>2, PauseKeepsTypes
  <2>4. Available' = Available
    BY <2>3 DEF Available, MaxBackward
  <2>5. CopyInv'
    BY <1>1, <1>2, <1>3, <2>3, <2>4 DEF CopyInv
  <2>6. StageInv'
    BY <2>3, <2>5 DEF StageInv, PrefixInv, PendingInv
  <2>7. BoundInv'
    BY <1>1, <1>2, <2>3 DEF BoundInv
  <2> QED
    BY <2>3, <2>6, <2>7 DEF StreamInv
<1>6. CASE ~(copy > Space) /\ Continue(FastCopied(d, copy), copy)
  <2>1. copy \in 1 .. Lesser(remaining, Space) /\ position + copy <= Len(t)
    BY <1>1, <1>3, <1>6 DEF Lesser
  <2>2. Copyable(t, d, copy)
    BY <1>1, <1>3, <2>1 DEF Copyable
  <2>3. Made(FastCopied(d, copy), t, copy)
    BY <1>1, <2>2, FastCopyMakes
  <2> QED
    BY <1>2, <1>3, <1>6, <2>3, ContinueHolds
<1> QED
  BY <1>4, <1>5, <1>6

(* The distances of the loop. *)
LEMMA FastDistanceHolds == ASSUME CacheInv, StreamInv, FastDistance PROVE StreamInv'
<1>1. InFast("distance") /\ mode = "run" /\ fast = "distance" /\ fast # "no"
  BY DEF FastDistance, InFast
<1>2. PICK c \in IF implicit THEN {0} ELSE Codes :
        \/ /\ c = 16 /\ code' = c
           /\ Pause("DistanceExtra")
           /\ UNCHANGED <<literals, copy, implicit, distance, cache, copyVars, formatVars>>
        \/ FastFail("data", cache)
        \/ \E d \in Resolved(c), popped \in {IF c = 0 THEN Pop(cache) ELSE cache} :
             \/ FastReferenceFails(c, d, popped)
             \/ FastBeyond(c, d, popped)
             \/ d <= Available /\ copy <= remaining /\ FastCopy(c, d, popped)
  BY Zenon DEF FastDistance
<1>3. ASSUME Pause("DistanceExtra"),
             UNCHANGED <<literals, copy, implicit, distance, cache, copyVars, formatVars>>
      PROVE  StreamInv'
  <2>1. UNCHANGED <<text, offset, start, prefixHistory, scratch, literals, copy, implicit>>
    BY <1>3 DEF copyVars, formatVars
  <2>2. literals \in Nat /\ copy \in Nat /\ copy > 0 /\ implicit \in BOOLEAN
    BY <1>1, AtFast DEF BoundInv, StreamTypes
  <2> QED
    BY <1>1, <1>3, <2>1, <2>2, PauseHolds
<1>4. CASE FastFail("data", cache)
  BY <1>1, <1>4, FastFailHolds
<1>5. ASSUME NEW d \in Resolved(c), NEW popped,
             \/ FastReferenceFails(c, d, popped)
             \/ FastBeyond(c, d, popped)
             \/ d <= Available /\ copy <= remaining /\ FastCopy(c, d, popped)
      PROVE  StreamInv'
  BY <1>1, <1>2, <1>5, FastReferenceFailsHolds, FastBeyondHolds, FastCopyHolds
<1> QED
  BY <1>2, <1>3, <1>4, <1>5

LEMMA FastHolds == ASSUME CacheInv, StreamInv, FastLoop PROVE StreamInv'
  BY EnterFastHolds, FastCommandHolds, FastLiteralsHold, FastLiteralsDoneHolds, FastDistanceHolds DEF FastLoop

-----------------------------------------------------------------------------
(* The theorems. *)

LEMMA StreamInvInit == ASSUME DecoderInit PROVE StreamInv
<1>1. /\ mode = "done" /\ fault = "none" /\ delivery = "slice" /\ cap = 0 /\ allow = 0
      /\ slice = <<>> /\ stage = "Window" /\ ring = <<>> /\ position = 0 /\ flushed = 0
      /\ out = <<>> /\ window = 2 * Chunk /\ remaining = 0 /\ last = FALSE
      /\ literals = 0 /\ copy = 0 /\ implicit = FALSE /\ offset = 0 /\ start = 0
      /\ prefixHistory = <<>> /\ scratch = <<>> /\ fast = "no" /\ prefix = 0 /\ single = TRUE
      /\ fresh = FALSE /\ member = 0 /\ text = <<>>
  BY DEF DecoderInit
<1>2. ~Linear /\ Delivers = TRUE /\ Whole = FALSE /\ Buffer = <<>>
  BY <1>1 DEF Linear, Delivers, Whole, Buffer
<1>3. <<>> \in Seq(Int) /\ Len(<<>>) = 0 /\ window \in Nat /\ window > Chunk
  BY <1>1, RingAssumption
<1>4. History(Buffer) = [bytes |-> <<>>, pos |-> 0, flushed |-> 0, out |-> <<>>]
  BY <1>1, <1>2 DEF History
<1>5. Good(History(Buffer), text, window, FALSE, TRUE, <<>>) /\ Lapped(History(Buffer), FALSE)
  BY <1>1, <1>3, <1>4, FreshGood
<1>6. Good(History(Buffer), text, window, Whole, Delivers, out) /\ Lapped(History(Buffer), Whole)
  BY <1>1, <1>2, <1>5
<1>7. position + Owed <= MaxText
  <2>1. Owed = 0
    BY <1>1 DEF Owed, Settled
  <2> QED
    BY <1>1, <2>1, DecoderAssumption
<1>8. HistoryInv
  BY <1>1, <1>2, <1>3, <1>6, <1>7 DEF HistoryInv
<1>9. StreamTypes
  BY <1>1, <1>3 DEF StreamTypes, Stages, Reading
<1>10. PlaceInv
  BY <1>1, <1>2 DEF PlaceInv
<1>11. BoundInv /\ StageInv
  BY <1>1, <1>3 DEF BoundInv, StageInv, CopyInv, PrefixInv, PendingInv
<1> QED
  BY <1>8, <1>9, <1>10, <1>11 DEF StreamInv

LEMMA StreamInvNext == ASSUME CacheInv, StreamInv, [DecoderNext]_decoderVars PROVE StreamInv'
<1>1. CASE DecoderNext
  BY <1>1, StartHolds, CallHolds, CallEnds, EndMemberHolds, HeadersHold, CommandsHold, BytesHold, FastHolds
     DEF DecoderNext
<1>2. CASE UNCHANGED decoderVars
  <2>1. /\ HistoryInv /\ StreamTypes /\ PlaceInv /\ BoundInv /\ StageInv
    BY DEF StreamInv
  <2>2. UNCHANGED <<mode, fault, delivery, cap, allow, slice, ring, position, flushed, out, stage, remaining, last,
                    literals, copy, implicit, distance, code, offset, start, prefixHistory, scratch, fast,
                    window, prefix, single, member, fresh, text, callVars, historyVars>>
    BY <1>2 DEF decoderVars, callVars, historyVars, blockVars, commandVars, copyVars, memberVars, formatVars
  <2>3. HistoryInv'
    BY <2>1, <2>2, HistoryRests
  <2>4. StageInv'
    BY <2>1, <2>2, StageStands
  <2>5. StreamTypes'
    BY <2>1, <2>2 DEF StreamTypes
  <2>6. PlaceInv'
    BY <2>1, <2>2 DEF PlaceInv, Linear
  <2>7. BoundInv'
    BY <2>1, <2>2 DEF BoundInv
  <2> QED
    BY <2>3, <2>4, <2>5, <2>6, <2>7 DEF StreamInv
<1> QED
  BY <1>1, <1>2

LEMMA StreamInvHistory == ASSUME StreamInv PROVE HistoryHolds
<1>1. HistoryInv /\ StreamTypes /\ PlaceInv
  BY DEF StreamInv
<1>2. /\ delivery \in {"slice", "collect", "linear"} /\ cap \in Nat /\ allow \in Nat /\ remaining \in Nat
      /\ position \in Nat /\ flushed \in Nat /\ flushed <= position
      /\ Available \in Nat /\ Available <= position /\ Owed \in Nat
  BY <1>1, HistoryTypes, Measures
<1>3. DecoderTypeOK
  <2>1. position \in 0 .. MaxText /\ flushed \in 0 .. position
    <3>1. position + Owed <= MaxText
      BY <1>1 DEF HistoryInv
    <3> QED
      BY <1>2, <3>1, DecoderAssumption
  <2>2. Len(ring) = 0 \/ PowerOfTwo(Len(ring))
    BY <1>1 DEF HistoryInv
  <2>3. fault \in {"none", "data", "limit", "memory", "internal"}
    BY <1>1 DEF StreamTypes
  <2> QED
    BY <1>1, <1>2, <2>1, <2>2, <2>3 DEF DecoderTypeOK, StreamTypes
<1>4. ASSUME NEW p \in position - Available .. position - 1
      PROVE  At(IF Linear THEN slice ELSE ring, p) = text[p + 1]
  <2> DEFINE i == p - (position - Available) + 1
  <2>1. /\ i \in 1 .. Available /\ position - Available + i - 1 = p
        /\ (position - Available) + i = p + 1
    BY <1>2
  <2> HIDE DEF i
  <2>2. At(Buffer, position - Available + i - 1) = text[(position - Available) + i]
    BY <1>1, <2>1, Addressed
  <2> QED
    BY <2>1, <2>2 DEF Buffer
<1> QED
  BY <1>3, <1>4 DEF HistoryHolds, HistoryIntact

(* What the caller has been given is the beginning of the text. *)
LEMMA SeenIs ==
  ASSUME HistoryInv
  PROVE  /\ Seen = SubSeq(text, 1, flushed) /\ Seen \in Seq(Int) /\ Len(Seen) = flushed
         /\ flushed \in Nat /\ flushed <= Len(text) /\ text \in Seq(Int)
<1>1. /\ position \in Nat /\ flushed \in Nat /\ flushed <= position /\ position <= Len(text)
      /\ text \in Seq(Int) /\ Len(text) \in Nat /\ delivery \in {"slice", "collect", "linear"}
  BY HistoryTypes
<1>2. Seen = SubSeq(text, 1, flushed)
  <2>1. CASE delivery = "slice"
    <3>1. Good(History(Buffer), text, window, Whole, Delivers, out)
      BY DEF HistoryInv
    <3>2. Delivers = TRUE /\ Seen = out
      BY <2>1 DEF Delivers, Seen
    <3>3. Delivered(History(Buffer), text, TRUE, out) /\ History(Buffer).flushed = flushed
          /\ History(Buffer).out = out
      BY <3>1, <3>2, HistoryFields DEF Good
    <3> QED
      BY <3>2, <3>3 DEF Delivered
  <2>2. CASE delivery \in {"collect", "linear"}
    <3>1. Whole
      BY <2>2 DEF Whole
    <3>2. Seen = SubSeq(Buffer, 1, flushed)
      BY <2>2 DEF Seen, Buffer, Linear
    <3>3. flushed \in 0 .. position
      BY <1>1
    <3> QED
      BY <3>1, <3>2, <3>3, WholeIsText
  <2> QED
    BY <1>1, <2>1, <2>2
<1>3. SubSeq(text, 1, flushed) \in Seq(Int) /\ Len(SubSeq(text, 1, flushed)) = flushed
  <2>1. 1 \in Nat \ {0} /\ 1 <= flushed + 1 /\ flushed <= Len(text) /\ flushed + 1 - 1 = flushed
    BY <1>1
  <2> QED
    BY <1>1, <2>1, PartOf, SMTT(30)
<1> QED
  BY <1>1, <1>2, <1>3

LEMMA StreamInvOutput == ASSUME StreamInv PROVE OutputIsTheText
<1>1. HistoryInv /\ StreamTypes /\ PlaceInv /\ StageInv
  BY DEF StreamInv
<1>2. /\ Seen = SubSeq(text, 1, flushed) /\ Seen \in Seq(Int) /\ Len(Seen) = flushed
      /\ flushed \in Nat /\ flushed <= Len(text) /\ text \in Seq(Int)
  BY <1>1, SeenIs
<1>3. IsPrefix(Seen, text)
  <2>1. SubSeq(Seen, 1, Len(Seen)) = Seen
    BY <1>2, SubSeqFull
  <2> QED
    BY <1>2, <2>1 DEF IsPrefix
<1>4. fast = "no" => flushed = position
  BY <1>1 DEF PlaceInv
<1>5. In("End") => Seen = text
  <2>1. SUFFICES ASSUME In("End") PROVE Seen = text
    OBVIOUS
  <2>2. fast = "no" /\ stage = "End"
    BY <2>1 DEF In
  <2>3. Len(text) = position
    BY <1>1, <2>2 DEF StageInv, PendingInv
  <2>4. SubSeq(text, 1, Len(text)) = text
    BY <1>2, SubSeqFull
  <2> QED
    BY <1>2, <1>4, <2>2, <2>3, <2>4
<1>6. DeliveredIsText
  BY <1>2, <1>3, <1>4, <1>5 DEF DeliveredIsText
<1>7. fault # "internal"
  BY <1>1 DEF StreamTypes
<1>8. ASSUME mode = "done", Linear, NEW i \in flushed + 1 .. Len(slice)
      PROVE  slice[i] = Untouched
  <2>1. stage = "End" /\ fast = "no"
    BY <1>1, <1>8 DEF PlaceInv
  <2>2. Owed = 0 /\ flushed = position /\ position \in Nat
    BY <1>1, <1>4, <2>1, HistoryTypes DEF Owed, Settled
  <2>3. \A j \in position + Owed + 1 .. Len(slice) : slice[j] = Untouched
    BY <1>1, <1>8 DEF HistoryInv
  <2>4. position + Owed + 1 = flushed + 1
    BY <2>2
  <2> QED
    BY <2>3, <2>4
<1>9. SuffixUntouched
  BY <1>7, <1>8 DEF SuffixUntouched
<1> QED
  BY <1>6, <1>9 DEF OutputIsTheText

(* Every byte a later reference may address is in the history, whatever      *)
(* stages and fast loop decoded it, however the ring grew, wrapped and was   *)
(* overrun by the speculative tails of copy16 and copy32, and no room,       *)
(* position or length has wrapped (grow_ring, write_ring and copy_ring in    *)
(* stream.rs).                                                               *)
THEOREM HistoryIsIntact == DecoderSpec => []HistoryHolds
<1>1. DecoderInit => CacheInv /\ StreamInv
  BY CacheInvInit, StreamInvInit
<1>2. (CacheInv /\ StreamInv) /\ [DecoderNext]_decoderVars => (CacheInv /\ StreamInv)'
  BY CacheInvNext, StreamInvNext
<1>3. CacheInv /\ StreamInv => HistoryHolds
  BY StreamInvHistory
<1> QED
  BY <1>1, <1>2, <1>3, PTL DEF DecoderSpec

(* The caller is given exactly the text the format defines, whether bytes    *)
(* are flushed out of the ring, collected in it or decoded in the caller's   *)
(* slice, and a linear call leaves the rest of that slice alone (run_stages, *)
(* fast and flush_ring in stream.rs, decompress_to_slice in decoder.rs).     *)
THEOREM OutputIsExact == DecoderSpec => []OutputIsTheText
<1>1. DecoderInit => CacheInv /\ StreamInv
  BY CacheInvInit, StreamInvInit
<1>2. (CacheInv /\ StreamInv) /\ [DecoderNext]_decoderVars => (CacheInv /\ StreamInv)'
  BY CacheInvNext, StreamInvNext
<1>3. CacheInv /\ StreamInv => OutputIsTheText
  BY StreamInvOutput
<1> QED
  BY <1>1, <1>2, <1>3, PTL DEF DecoderSpec
=============================================================================
