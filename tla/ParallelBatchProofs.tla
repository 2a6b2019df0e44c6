------------------------- MODULE ParallelBatchProofs -------------------------
(***************************************************************************)
(* How a batch joins its tasks and what it leaves behind, proved for every *)
(* number of tasks, batches, workers, segments and configurations: the     *)
(* state keeps its types, each completion is heard of exactly once,        *)
(* publishing never blocks, cancellation never hides its cause, the        *)
(* destination holds a prefix of one stream, a vector all of it or none,   *)
(* and the reservoir only workers the next batch may use.                  *)
(***************************************************************************)
EXTENDS ParallelBatch, TLAPS, FiniteSetTheorems, SequenceTheorems, WellFoundedInduction

-----------------------------------------------------------------------------
(* Type correctness.  TypeOK is not inductive: encoding needs the task to
   still own its worker, copying needs every artifact to be present, and the
   choice of the reported failure needs a first failure to exist. *)

Working == {"held", "queued", "check", "read", "encode", "commit"}

HasWorker == \A t \in Tasks : tpc[t] \in Working => worker[t] \in Workers

AssemblyMatches == pc = "assemble" => DescriptorsMatch

TInv == TypeOK /\ HasWorker /\ AssemblyMatches

(* A nonempty set of naturals has a least element. *)
LEMMA LeastNatural ==
  ASSUME NEW N, N \subseteq Nat, N # {}
  PROVE  \E n \in N : \A m \in N : n <= m
<1> DEFINE R == OpToRel(<, Nat)
<1>1. IsWellFoundedOn(R, Nat)
  BY NatLessThanWellFounded
<1>2. \A m, k \in Nat : m < k => <<m, k>> \in R
  BY DEF OpToRel
<1> HIDE DEF R
<1>3. \E n \in N : \A m \in N : ~ (<<m, n>> \in R)
  BY <1>1, WFMin, Zenon
<1>4. PICK n \in N : \A m \in N : ~ (<<m, n>> \in R)
  BY <1>3, Zenon
<1>5. ASSUME NEW m \in N PROVE n <= m
  <2>1. m \in Nat /\ n \in Nat
    OBVIOUS
  <2>2. ~ (m < n)
    BY <1>2, <1>4, <2>1
  <2> QED
    BY <2>1, <2>2
<1> QED
  BY <1>5

(* Ids are naturals, so a nonempty set of failures has a first one. *)
LEMMA FirstExists ==
  ASSUME NEW F \in SUBSET (Ids \X Errors), F # {}
  PROVE  First(F) \in F /\ \A g \in F : Precedes(First(F), g)
<1> DEFINE G == IF \E f \in F : f[2] # "Cancelled" THEN {f \in F : f[2] # "Cancelled"} ELSE F
           N == {f[1] : f \in G}
<1>1. N # {} /\ N \subseteq Nat
  BY BoundsAssumption DEF Ids
<1>2. PICK n \in N : \A m \in N : n <= m
  BY <1>1, LeastNatural
<1>4. PICK f \in G : f[1] = n
  OBVIOUS
<1>5. f \in F /\ \A g \in F : Precedes(f, g)
  BY <1>2, <1>4 DEF Precedes
<1> QED
  BY <1>5 DEF First

(* The initial state has the types. *)
LEMMA TypeInit == Init => TInv
<1> SUFFICES ASSUME Init PROVE TInv
  OBVIOUS
<1>1. ParentTypes
  BY BoundsAssumption DEF Init, ParentTypes
<1>2. plan \in [Batches -> Plans]
  BY BoundsAssumption DEF Init, NoPlan, Plans
<1>3. BatchTypes
  <2>1. cur \in 0 .. MaxBatches
    BY BoundsAssumption DEF Init
  <2> QED
    BY <1>2, <2>1 DEF Init, BatchTypes, AllCalls
<1>4. JoinTypes /\ SharedTypes
  BY DEF Init, JoinTypes, SharedTypes
<1>5. TaskTypes
  BY DEF Init, TaskTypes
<1>6. OutTypes
  BY DEF Init, OutTypes
<1>7. HasWorker /\ AssemblyMatches
  BY DEF Init, HasWorker, AssemblyMatches, Working
<1> QED
  BY <1>1, <1>3, <1>4, <1>5, <1>6, <1>7 DEF TypeOK, TInv

(* Every step of a task preserves the types. *)
LEMMA TaskTypeStep ==
  ASSUME TInv, NEW t \in Tasks, TaskStep(t)
  PROVE  TInv'
<1>1. UNCHANGED taskRest
  BY DEF TaskStep, Start, Abandon, CheckBeforeRead, ReadSource, Encode, Panic, Commit,
         StoreCancelled, FillSlot, Send, StoreAbandoned
<1>2. ParentTypes' /\ BatchTypes'
  BY <1>1 DEF TInv, TypeOK, ParentTypes, BatchTypes, taskRest, parentVars, sourceVars, batchVars
<1>3. JoinTypes' /\ OutTypes'
  BY <1>1 DEF TInv, TypeOK, JoinTypes, OutTypes, taskRest, joinVars, outVars
<1>4. AssemblyMatches'
  BY <1>1 DEF TInv, AssemblyMatches, DescriptorsMatch, taskRest, joinVars, batchVars
<1>5. t[1] \in Batches /\ t[2] \in Ids
  BY DEF Tasks
<1>6. SharedTypes /\ TaskTypes /\ HasWorker
  BY DEF TInv, TypeOK
<1>7. plan[t[1]] \in Plans /\ srcVer \in Nat
  BY <1>5 DEF TInv, TypeOK, BatchTypes, ParentTypes
<1>8. SharedTypes' /\ TaskTypes' /\ HasWorker'
  <2>1. CASE Start(t)
    BY <1>5, <1>6, <1>7, <2>1 DEF Start, Goto, Fail, SharedTypes, TaskTypes, HasWorker, Working, Errors, sharedVars, taskRest, sourceVars
  <2>2. CASE Abandon(t)
    BY <1>5, <1>6, <1>7, <2>2 DEF Abandon, Goto, Fail, SharedTypes, TaskTypes, HasWorker, Working, Errors, sharedVars, taskRest, sourceVars
  <2>3. CASE CheckBeforeRead(t)
    BY <1>5, <1>6, <1>7, <2>3 DEF CheckBeforeRead, Goto, Fail, SharedTypes, TaskTypes, HasWorker, Working, Errors, sharedVars, taskRest, sourceVars
  <2>4. CASE ReadSource(t)
    BY <1>5, <1>6, <1>7, <2>4 DEF ReadSource, Goto, Fail, SharedTypes, TaskTypes, HasWorker, Working, Errors, sharedVars, taskRest, sourceVars
  <2>5. CASE Encode(t)
    <3> DEFINE f == [seg |-> seg[t], ver |-> buffer[t], cfg |-> worker[t].cfg,
                     kind |-> IF plan[t[1]].serial THEN "stream" ELSE "part"]
    <3>1. f \in Fragments
      BY <1>6, <2>5 DEF Encode, Fragments, Workers, TaskTypes, HasWorker, Working
    <3> HIDE DEF f
    <3>2. Append(artifact[t], f) \in Seq(Fragments)
      BY <1>6, <3>1 DEF TaskTypes
    <3>3. artifact' \in [Tasks -> Seq(Fragments)]
      BY <1>6, <2>5, <3>2 DEF Encode, TaskTypes, f
    <3>4. seg' \in [Tasks -> Nat]
      BY <1>6, <2>5 DEF Encode, TaskTypes
    <3>5. TaskTypes' /\ HasWorker'
      BY <1>6, <2>5, <3>3, <3>4 DEF Encode, Goto, Fail, TaskTypes, HasWorker, Working, Errors
    <3>6. SharedTypes'
      BY <1>6, <2>5 DEF Encode, SharedTypes, sharedVars
    <3> QED
      BY <3>5, <3>6
  <2>6. CASE Panic(t)
    BY <1>5, <1>6, <1>7, <2>6 DEF Panic, Goto, Fail, SharedTypes, TaskTypes, HasWorker, Working, Errors, sharedVars, taskRest, sourceVars
  <2>7. CASE Commit(t)
    BY <1>5, <1>6, <1>7, <2>7 DEF Commit, Goto, Fail, SharedTypes, TaskTypes, HasWorker, Working, Errors, sharedVars, taskRest, sourceVars
  <2>8. CASE StoreCancelled(t)
    BY <1>5, <1>6, <1>7, <2>8 DEF StoreCancelled, Goto, Fail, SharedTypes, TaskTypes, HasWorker, Working, Errors, sharedVars, taskRest, sourceVars
  <2>9. CASE FillSlot(t)
    <3>1. Completion(t, result[t]) \in Completions
      BY <1>6 DEF Completion, Completions, TaskTypes
    <3>2. SharedTypes'
      BY <1>5, <1>6, <2>9, <3>1 DEF FillSlot, SharedTypes
    <3>3. TaskTypes' /\ HasWorker'
      BY <1>6, <2>9 DEF FillSlot, Goto, TaskTypes, HasWorker, Working
    <3> QED
      BY <3>2, <3>3
  <2>10. CASE Send(t)
    <3>1. Append(chan, t[2]) \in Seq(Ids)
      BY <1>5, <1>6 DEF SharedTypes
    <3>2. SharedTypes'
      BY <1>6, <2>10, <3>1 DEF Send, SharedTypes
    <3>3. TaskTypes' /\ HasWorker'
      BY <1>6, <2>10 DEF Send, Goto, TaskTypes, HasWorker, Working
    <3> QED
      BY <3>2, <3>3
  <2>11. CASE StoreAbandoned(t)
    BY <1>5, <1>6, <1>7, <2>11 DEF StoreAbandoned, Goto, Fail, SharedTypes, TaskTypes, HasWorker, Working, Errors, sharedVars, taskRest, sourceVars
  <2> QED
    BY <2>1, <2>2, <2>3, <2>4, <2>5, <2>6, <2>7, <2>8, <2>9, <2>10, <2>11 DEF TaskStep
<1> QED
  BY <1>2, <1>3, <1>4, <1>8 DEF TInv, TypeOK

(* Collecting a completion preserves the types of what it touches. *)
LEMMA CollectTypes ==
  ASSUME TypeOK, chan # <<>>, chan' = Tail(chan), pc # "idle",
         IF Acceptable(Head(chan)) THEN Collect(Head(chan))
         ELSE UNCHANGED <<workers, joinVars, cancelled, slot>>
  PROVE  workers' \in Seq(Workers) /\ JoinTypes' /\ SharedTypes'
<1> DEFINE id == Head(chan)
<1>1. chan' \in Seq(Ids) /\ id \in Ids
  BY DEF TypeOK, SharedTypes
<1>2. CASE ~ Acceptable(id)
  BY <1>1, <1>2 DEF TypeOK, ParentTypes, JoinTypes, SharedTypes, joinVars
<1>3. CASE Acceptable(id)
  <2> HIDE DEF id
  <2>1. slot[id] \in Completions /\ Collect(id) /\ cur \in Batches
    BY <1>1, <1>3 DEF Acceptable, TypeOK, SharedTypes, BatchTypes, id
  <2>2. /\ slot[id].worker \in Workers \cup {None}
        /\ slot[id].artifact \in Seq(Fragments)
        /\ slot[id].result # "Ok" => slot[id].result \in Errors
    BY <2>1 DEF Completions
  <2>3. workers' \in Seq(Workers)
    BY <2>1, <2>2 DEF Collect, TypeOK, ParentTypes
  <2>4. JoinTypes'
    <3>1. received' \subseteq Ids /\ completed' \in Nat /\ failure' \in (Ids \X Errors) \cup {None}
      BY <1>1, <2>1 DEF Collect, TypeOK, JoinTypes
    <3>2. artifacts' \in [Ids -> Seq(Fragments) \cup {None}]
      BY <1>1, <2>1, <2>2 DEF Collect, TypeOK, JoinTypes
    <3>3. failures' \subseteq Ids \X Errors
      BY <1>1, <2>1, <2>2 DEF Collect, TypeOK, JoinTypes
    <3> QED
      BY <3>1, <3>2, <3>3 DEF JoinTypes
  <2>5. SharedTypes'
    BY <1>1, <2>1 DEF Collect, TypeOK, SharedTypes
  <2> QED
    BY <2>3, <2>4, <2>5
<1> QED
  BY <1>2, <1>3

(* The retained part of the reservoir is a sequence of workers. *)
LEMMA TruncateType ==
  ASSUME workers \in Seq(Workers), NEW n \in Nat
  PROVE  /\ Truncate(n) \in Seq(Workers)
         /\ Len(Truncate(n)) <= n
         /\ \A k \in 1 .. Len(Truncate(n)) : k \in 1 .. Len(workers) /\ Truncate(n)[k] = workers[k]
BY DEF Truncate

(* The steps inside a call of the coordinator preserve the types. *)
LEMMA CallTypeStep ==
  ASSUME TInv, CoordinatorStep \/ TimeOut \/ ValidateFails \/ CopyFails, ~ Prepare
  PROVE  TInv'
<1>1. UNCHANGED callRest
  BY DEF CoordinatorStep, Receive, Pending, TimeOut, Ready, Validate, ValidateFails, CopyFragment, NextArtifact, CopyLast, CopyFails, Assembled, DropDrain, DropDone
<1>2. pc # "idle" /\ pc' \in {"idle", "open", "drain", "recv", "validate", "assemble", "drop", "dropping"}
  BY DEF CoordinatorStep, Return, TInv, TypeOK, BatchTypes, Receive, Pending, TimeOut, Ready, Validate, ValidateFails, CopyFragment, NextArtifact, CopyLast, CopyFails, Assembled, DropDrain, DropDone
<1>3. BatchTypes'
  BY <1>1, <1>2 DEF TInv, TypeOK, BatchTypes, callRest, coordRest
<1>4. TaskTypes' /\ HasWorker'
  BY <1>1 DEF TInv, TypeOK, TaskTypes, HasWorker, callRest, taskVars
<1>5. workers' \in Seq(Workers) => ParentTypes'
  BY <1>1 DEF TInv, TypeOK, ParentTypes, callRest, coordRest, sourceVars
<1>6. ParentTypes /\ JoinTypes /\ SharedTypes /\ OutTypes /\ TypeOK /\ AssemblyMatches /\ plan[cur] \in Plans
  BY <1>2 DEF TInv, TypeOK, BatchTypes
<1>7. UNCHANGED <<poolVars, outVars>> /\ pc' # "assemble" => TInv'
  BY <1>3, <1>4, <1>5, <1>6 DEF TInv, TypeOK, ParentTypes, JoinTypes, SharedTypes, OutTypes,
     AssemblyMatches, poolVars, joinVars, sharedVars, outVars
<1>8. CASE Receive
  <2>1. workers' \in Seq(Workers) /\ JoinTypes' /\ SharedTypes'
    <3>1. CASE chan # <<>> /\ Acceptable(Head(chan))
      BY <1>2, <1>6, <1>8, <3>1, CollectTypes DEF Receive
    <3>2. CASE chan # <<>> /\ ~ Acceptable(Head(chan))
      BY <1>2, <1>6, <1>8, <3>2, CollectTypes DEF Receive
    <3>3. CASE chan = <<>>
      BY <1>6, <1>8, <3>3 DEF Receive, ParentTypes, JoinTypes, SharedTypes, joinVars
    <3> QED
      BY <3>1, <3>2, <3>3
  <2>2. OutTypes' /\ pc' # "assemble"
    BY <1>6, <1>8 DEF Receive, Return, OutTypes, outVars
  <2> QED
    BY <1>3, <1>4, <1>5, <2>1, <2>2 DEF TInv, TypeOK, AssemblyMatches
<1>9. CASE Pending
  BY <1>7, <1>9 DEF Pending, Return
<1>10. CASE TimeOut
  BY <1>7, <1>10 DEF TimeOut, Return
<1>11. CASE Ready
  <2>1. JoinTypes'
    BY <1>6, <1>11, FirstExists DEF Ready, JoinTypes
  <2>2. SharedTypes' /\ OutTypes' /\ workers' = workers
    BY <1>6, <1>11 DEF Ready, SharedTypes, OutTypes, sharedVars, outVars
  <2>3. pc' # "assemble"
    BY <1>11 DEF Ready, Return
  <2> QED
    BY <1>3, <1>4, <1>5, <1>6, <2>1, <2>2, <2>3 DEF TInv, TypeOK, AssemblyMatches, ParentTypes
<1>12. CASE Validate
  <2>1. OutTypes'
    BY <1>6, <1>12 DEF Validate, OutTypes
  <2>2. JoinTypes' /\ SharedTypes' /\ workers' = workers
    BY <1>6, <1>12 DEF Validate, JoinTypes, SharedTypes, poolVars, joinVars, sharedVars
  <2>3. AssemblyMatches'
    BY <1>1, <1>6, <1>12 DEF Validate, Return, AssemblyMatches, DescriptorsMatch, poolVars,
       joinVars, callRest, coordRest
  <2> QED
    BY <1>3, <1>4, <1>5, <1>6, <2>1, <2>2, <2>3 DEF TInv, TypeOK, ParentTypes
<1>13. CASE ValidateFails
  BY <1>7, <1>13 DEF ValidateFails, Return
<1>14. CASE CopyFragment \/ NextArtifact \/ CopyLast
  <2>1. JoinTypes' /\ SharedTypes' /\ workers' = workers
    BY <1>6, <1>14 DEF CopyFragment, NextArtifact, CopyLast, JoinTypes, SharedTypes, poolVars,
       joinVars, sharedVars
  <2>2. AssemblyMatches'
    BY <1>1, <1>6, <1>14 DEF CopyFragment, NextArtifact, CopyLast, AssemblyMatches,
       DescriptorsMatch, poolVars, joinVars, callRest, coordRest
  <2>3. mark' \in 0 .. Len(dst) /\ next' \in Nat /\ copied' \in Nat
    BY <1>6, <1>14 DEF CopyFragment, NextArtifact, CopyLast, OutTypes
  <2>4. dst' \in Seq(Items) /\ Len(dst') >= Len(dst)
    <3>1. CASE CopyFragment
      <4>a. plan[cur].tasks \in 0 .. MaxTasks
        BY <1>6 DEF Plans
      <4>b. next \in Nat /\ next < plan[cur].tasks
        BY <1>6, <3>1 DEF CopyFragment, OutTypes
      <4>1. next \in 0 .. plan[cur].tasks - 1 /\ next \in Ids
        BY <4>a, <4>b, BoundsAssumption DEF Ids
      <4>2. artifacts[next] \in Seq(Fragments)
        BY <1>6, <3>1, <4>1 DEF CopyFragment, AssemblyMatches, DescriptorsMatch, JoinTypes
      <4>3. artifacts[next][copied + 1] \in Fragments
        BY <1>6, <3>1, <4>2 DEF CopyFragment, OutTypes
      <4>4. artifacts[next][copied + 1] \in Items
        BY <4>3 DEF Fragments, Items
      <4> QED
        BY <1>6, <3>1, <4>4 DEF CopyFragment, OutTypes
    <3>2. CASE NextArtifact
      BY <1>6, <3>2 DEF NextArtifact, OutTypes
    <3>3. CASE CopyLast
      <4>1. Whole("empty") \in Items /\ Whole("terminator") \in Items
        BY <1>6 DEF Whole, Items, ParentTypes
      <4> QED
        BY <1>6, <3>3, <4>1 DEF CopyLast, OutTypes
    <3> QED
      BY <1>14, <3>1, <3>2, <3>3
  <2> QED
    <3>1. OutTypes'
      BY <1>6, <2>3, <2>4 DEF OutTypes
    <3> QED
      BY <1>3, <1>4, <1>5, <1>6, <2>1, <2>2, <3>1 DEF TInv, TypeOK, ParentTypes
<1>15. CASE CopyFails
  <2>1. JoinTypes' /\ SharedTypes' /\ workers' = workers
    BY <1>6, <1>15 DEF CopyFails, JoinTypes, SharedTypes, poolVars, joinVars, sharedVars
  <2>2. dst' \in Seq(Items) /\ mark \in 0 .. Len(dst')
    <3>1. CASE call # "vec"
      BY <1>6, <1>15, <3>1 DEF CopyFails, OutTypes
    <3>2. CASE call = "vec"
      <4>1. dst' = SubSeq(dst, 1, mark) /\ \A i \in 1 .. mark : dst[i] \in Items
        BY <1>6, <1>15, <3>2 DEF CopyFails, OutTypes
      <4> QED
        BY <1>6, <4>1, SubSeqProperties DEF OutTypes
    <3> QED
      BY <3>1, <3>2
  <2>3. OutTypes'
    BY <1>6, <1>15, <2>2 DEF CopyFails, OutTypes
  <2>4. pc' # "assemble"
    BY <1>15 DEF CopyFails, Return
  <2> QED
    BY <1>3, <1>4, <1>5, <1>6, <2>1, <2>3, <2>4 DEF TInv, TypeOK, AssemblyMatches, ParentTypes
<1>16. CASE Assembled
  <2>1. workers' \in Seq(Workers)
    BY <1>6, <1>16, TruncateType DEF Assembled, Trimmed, ParentTypes
  <2>2. JoinTypes' /\ SharedTypes' /\ OutTypes'
    BY <1>6, <1>16 DEF Assembled, JoinTypes, SharedTypes, OutTypes, joinVars, sharedVars, outVars
  <2>3. pc' # "assemble"
    BY <1>16 DEF Assembled, Return
  <2> QED
    BY <1>3, <1>4, <1>5, <2>1, <2>2, <2>3 DEF TInv, TypeOK, AssemblyMatches
<1>17. CASE DropDrain
  <2>1. workers' \in Seq(Workers) /\ JoinTypes' /\ SharedTypes'
    BY <1>2, <1>6, <1>17, CollectTypes DEF DropDrain
  <2>2. OutTypes' /\ pc' # "assemble"
    BY <1>6, <1>17 DEF DropDrain, OutTypes, outVars
  <2> QED
    BY <1>3, <1>4, <1>5, <2>1, <2>2 DEF TInv, TypeOK, AssemblyMatches
<1>18. CASE DropDone
  <2>1. workers' \in Seq(Workers)
    BY <1>6, <1>18, TruncateType DEF DropDone, Trimmed, ParentTypes
  <2>2. JoinTypes'
    BY <1>18 DEF DropDone, JoinTypes
  <2>3. SharedTypes' /\ OutTypes' /\ pc' # "assemble"
    BY <1>6, <1>18 DEF DropDone, SharedTypes, OutTypes, outVars
  <2> QED
    BY <1>3, <1>4, <1>5, <2>1, <2>2, <2>3 DEF TInv, TypeOK, AssemblyMatches
<1> QED
  BY <1>8, <1>9, <1>10, <1>11, <1>12, <1>13, <1>14, <1>15, <1>16, <1>17, <1>18 DEF CoordinatorStep

(* What the owner of the source and of the compressor does outside a call,
   and the construction and the end of a batch, preserve the types. *)
LEMMA CallerTypeStep ==
  ASSUME TInv, CallerStep \/ Prepare \/ PrepareFails \/ ChangeSource
  PROVE  TInv'
<1>1. CASE ChangeSource
  <2>1. srcLen' \in Nat /\ srcVer' \in Nat
    BY <1>1, BoundsAssumption DEF ChangeSource, TInv, TypeOK, ParentTypes
  <2>2. ParentTypes' /\ BatchTypes' /\ AssemblyMatches'
    BY <1>1, <2>1 DEF ChangeSource, TInv, TypeOK, ParentTypes, BatchTypes, AssemblyMatches,
       DescriptorsMatch, parentVars, batchVars, joinVars
  <2>3. JoinTypes' /\ SharedTypes' /\ OutTypes'
    BY <1>1 DEF ChangeSource, TInv, TypeOK, JoinTypes, SharedTypes, OutTypes, joinVars, sharedVars, outVars
  <2>4. TaskTypes' /\ HasWorker'
    BY <1>1 DEF ChangeSource, TInv, TypeOK, TaskTypes, HasWorker, taskVars
  <2> QED
    BY <2>2, <2>3, <2>4 DEF TInv, TypeOK
<1>2. CASE \E c \in Configs : Reconfigure(c)
  BY <1>2 DEF Reconfigure, idleRest, DescriptorsMatch, TInv, TypeOK, ParentTypes, BatchTypes, JoinTypes, SharedTypes, TaskTypes, OutTypes, HasWorker, AssemblyMatches,
     parentVars, sourceVars, batchVars, joinVars, sharedVars, taskVars, outVars
<1>3. CASE \E n \in 0 .. MaxRetain : ReconfigureParallel(n) \/ Trim(n)
  <2>1. workers' \in Seq(Workers) /\ maxRetained' \in Nat
    <3>1. PICK n \in 0 .. MaxRetain : ReconfigureParallel(n) \/ Trim(n)
      BY <1>3
    <3>2. n \in Nat /\ maxRetained \in Nat /\ workers \in Seq(Workers)
      BY BoundsAssumption DEF TInv, TypeOK, ParentTypes
    <3>3. Truncate(n) \in Seq(Workers)
      BY <3>2, TruncateType
    <3> QED
      BY <3>1, <3>2, <3>3 DEF ReconfigureParallel, Trim
  <2> QED
    BY <1>3, <2>1 DEF ReconfigureParallel, Trim, idleRest, DescriptorsMatch, TInv, TypeOK, ParentTypes, BatchTypes, JoinTypes, SharedTypes, TaskTypes, OutTypes, HasWorker, AssemblyMatches,
       parentVars, sourceVars, batchVars, joinVars, sharedVars, taskVars, outVars
<1>4. CASE PrepareLen
  <2> DEFINE p == [len |-> srcLen, segs |-> Segments(srcLen, SegmentSize),
                   tasks |-> EffectiveTasks(srcLen, SegmentSize, TaskCount),
                   serial |-> IsSerial(srcLen, SegmentSize, MinParallel),
                   ident |-> 0]
  <2>1. srcLen \in Nat /\ TaskCount \in Nat
    BY BoundsAssumption DEF TInv, TypeOK, ParentTypes
  <2>2. /\ Segments(srcLen, SegmentSize) \in Nat
        /\ EffectiveTasks(srcLen, SegmentSize, TaskCount) \in 0 .. MaxTasks
    BY <2>1, SegmentsType, BoundsAssumption
  <2>3. p \in Plans
    BY <2>1, <2>2 DEF Plans, IsSerial
  <2>4. plan' = [plan EXCEPT ![cur + 1] = p]
    BY <1>4 DEF PrepareLen
  <2> HIDE DEF p
  <2>5. cur' \in Batches /\ plan' \in [Batches -> Plans]
    BY <1>4, <2>3, <2>4, BoundsAssumption DEF PrepareLen, Batches, TInv, TypeOK, BatchTypes
  <2>6. BatchTypes' /\ ParentTypes' /\ AssemblyMatches'
    BY <1>4, <2>5, BoundsAssumption DEF PrepareLen, Batches, TInv, TypeOK, BatchTypes, ParentTypes,
       AssemblyMatches, parentVars, sourceVars
  <2>7. JoinTypes' /\ SharedTypes' /\ OutTypes'
    BY <1>4 DEF PrepareLen, TInv, TypeOK, JoinTypes, SharedTypes, OutTypes, joinVars, sharedVars, outVars
  <2>8. TaskTypes' /\ HasWorker'
    BY <1>4 DEF PrepareLen, TInv, TypeOK, TaskTypes, HasWorker, taskVars
  <2> QED
    BY <2>6, <2>7, <2>8 DEF TInv, TypeOK
<1>5. CASE Prepare
  <2> DEFINE p == plan[cur]
             mine == {t \in Tasks : t[1] = cur /\ t[2] < p.tasks}
  <2>1. cur \in Batches /\ p \in Plans /\ p.tasks \in 0 .. MaxTasks /\ p.segs \in Nat
    BY <1>5 DEF Prepare, TInv, TypeOK, BatchTypes, Plans
  <2>2. plan' \in [Batches -> Plans]
    BY <1>5, <2>1 DEF Prepare, TInv, TypeOK, BatchTypes, ParentTypes, Plans
  <2>3. BatchTypes'
    BY <1>5, <2>1, <2>2 DEF Prepare, TInv, TypeOK, BatchTypes
  <2>4. workers' \in Seq(Workers)
    <3>1. Len(workers) \in Nat /\ Reused(p.tasks) \in 0 .. Len(workers)
      BY <2>1 DEF Reused, TInv, TypeOK, ParentTypes
    <3>2. \A i \in 1 .. Len(workers) - Reused(p.tasks) : workers[i] \in Workers
      BY <3>1 DEF TInv, TypeOK, ParentTypes
    <3> QED
      BY <1>5, <3>1, <3>2, SubSeqProperties DEF Prepare
  <2>5. ParentTypes'
    BY <1>5, <2>4 DEF Prepare, TInv, TypeOK, ParentTypes, sourceVars
  <2>6. JoinTypes' /\ SharedTypes' /\ OutTypes'
    BY <1>5 DEF Prepare, TInv, TypeOK, JoinTypes, SharedTypes, OutTypes, outVars
  <2>7. \A t \in mine : /\ t[2] \in 0 .. p.tasks - 1
                        /\ FirstSegment(p.segs, p.tasks, t[2]) \in Nat
                        /\ t[2] < Len(workers) => workers[Len(workers) - t[2]] \in Workers
    <3> SUFFICES ASSUME NEW t \in mine
                 PROVE  /\ t[2] \in 0 .. p.tasks - 1
                        /\ FirstSegment(p.segs, p.tasks, t[2]) \in Nat
                        /\ t[2] < Len(workers) => workers[Len(workers) - t[2]] \in Workers
      OBVIOUS
    <3>1. t[2] \in 0 .. p.tasks - 1 /\ p.tasks \in Nat \ {0}
      BY <2>1, BoundsAssumption DEF Tasks, Ids
    <3>2. FirstSegment(p.segs, p.tasks, t[2]) \in Nat
      BY <2>1, <3>1, TaskSegmentsType
    <3>3. t[2] < Len(workers) => Len(workers) - t[2] \in 1 .. Len(workers)
      BY <3>1 DEF TInv, TypeOK, ParentTypes
    <3> QED
      BY <3>1, <3>2, <3>3 DEF TInv, TypeOK, ParentTypes
  <2>8. Fresh \in Workers
    BY DEF Fresh, Workers, TInv, TypeOK, ParentTypes
  <2>9. /\ worker' \in [Tasks -> Workers \cup {None}]
        /\ \A t \in mine : worker'[t] \in Workers
        /\ \A t \in Tasks \ mine : worker'[t] = worker[t]
    BY <1>5, <2>7, <2>8 DEF Prepare, TInv, TypeOK, TaskTypes
  <2>10. seg' \in [Tasks -> Nat]
    BY <1>5, <2>7 DEF Prepare, TInv, TypeOK, TaskTypes
  <2>11. TaskTypes' /\ HasWorker'
    BY <1>5, <2>9, <2>10 DEF Prepare, TInv, TypeOK, TaskTypes, HasWorker
  <2> QED
    BY <1>5, <2>3, <2>5, <2>6, <2>11 DEF TInv, TypeOK, AssemblyMatches, Prepare
<1>6. CASE PrepareFails
  <2>1. workers \in Seq(Workers) /\ <<>> \in Seq(Workers)
    BY EmptySeq DEF TInv, TypeOK, ParentTypes
  <2>2. workers' = workers \/ workers' = <<>>
    BY <1>6 DEF PrepareFails
  <2>3. workers' \in Seq(Workers)
    BY <2>1, <2>2
  <2> QED
    BY <1>6, <2>3 DEF PrepareFails, TInv, TypeOK, ParentTypes, BatchTypes, JoinTypes, SharedTypes, TaskTypes, OutTypes, HasWorker, AssemblyMatches,
     parentVars, sourceVars, batchVars, joinVars, sharedVars, taskVars, outVars
<1>7. CASE TakeTasks
  <2>1. TaskTypes' /\ HasWorker'
    BY <1>7 DEF TakeTasks, TInv, TypeOK, TaskTypes, HasWorker, Working
  <2> QED
    BY <1>7, <2>1 DEF TakeTasks, TInv, TypeOK, ParentTypes, BatchTypes, JoinTypes, SharedTypes, TaskTypes, OutTypes, HasWorker, AssemblyMatches,
       parentVars, sourceVars, batchVars, joinVars, sharedVars, taskVars, outVars
<1>8. CASE Cancel
  BY <1>8 DEF Cancel, TInv, TypeOK, ParentTypes, BatchTypes, JoinTypes, SharedTypes, TaskTypes, OutTypes, HasWorker, AssemblyMatches,
     parentVars, sourceVars, batchVars, joinVars, sharedVars, taskVars, outVars
<1>9. CASE \E k \in Calls : Begin(k)
  <2>1. PICK k \in Calls : Begin(k)
    BY <1>9
  <2>2. k \in AllCalls
    BY BoundsAssumption
  <2>3. BatchTypes' /\ pc' # "assemble"
    BY <2>1, <2>2 DEF Begin, coordRest, TInv, TypeOK, BatchTypes
  <2>4. ParentTypes' /\ JoinTypes' /\ SharedTypes'
    BY <2>1 DEF Begin, coordRest, poolVars, joinVars, sharedVars, sourceVars, TInv, TypeOK, ParentTypes, JoinTypes, SharedTypes
  <2>5. TaskTypes' /\ HasWorker'
    BY <2>1 DEF Begin, taskVars, TInv, TypeOK, TaskTypes, HasWorker
  <2>6. OutTypes'
    BY <2>1 DEF Begin, TInv, TypeOK, OutTypes
  <2> QED
    BY <2>3, <2>4, <2>5, <2>6 DEF TInv, TypeOK, AssemblyMatches
<1>10. CASE DropBatch
  <2> DEFINE n == plan[cur].tasks
             mine == {t \in Tasks : t[1] = cur /\ t[2] < n}
  <2>1. cur \in Batches /\ n \in 0 .. MaxTasks
    BY <1>10 DEF DropBatch, TInv, TypeOK, BatchTypes, Plans
  <2>2. BatchTypes' /\ pc' # "assemble"
    BY <1>10, <2>1 DEF DropBatch, coordRest, TInv, TypeOK, BatchTypes
  <2>3. ParentTypes' /\ JoinTypes' /\ OutTypes'
    BY <1>10 DEF DropBatch, coordRest, joinVars, outVars, sourceVars, TInv, TypeOK, ParentTypes, JoinTypes, OutTypes
  <2>4. cancelled' \in [Batches -> BOOLEAN]
    BY <1>10, <2>1 DEF DropBatch, TInv, TypeOK, SharedTypes
  <2>5. CASE taken
    <3>1. SharedTypes'
      BY <1>10, <2>4, <2>5 DEF DropBatch, TInv, TypeOK, SharedTypes
    <3>2. TaskTypes' /\ HasWorker'
      BY <1>10, <2>5 DEF DropBatch, TInv, TypeOK, TaskTypes, HasWorker, taskVars
    <3> QED
      BY <2>2, <2>3, <3>1, <3>2 DEF TInv, TypeOK, AssemblyMatches
  <2>6. CASE ~ taken
    <3>1. \A i \in Ids : Completion(<<cur, i>>, "TaskAbandoned") \in Completions
      <4> SUFFICES ASSUME NEW i \in Ids PROVE Completion(<<cur, i>>, "TaskAbandoned") \in Completions
        OBVIOUS
      <4>1. worker[<<cur, i>>] \in Workers \cup {None} /\ <<>> \in Seq(Fragments)
        BY <2>1 DEF Tasks, TInv, TypeOK, TaskTypes
      <4> QED
        BY <4>1 DEF Completion, Completions, Errors
    <3>2. slot' \in [Ids -> Completions \cup {None}]
      BY <1>10, <2>6, <3>1 DEF DropBatch, TInv, TypeOK, SharedTypes
    <3>3. [k \in 1 .. n |-> k - 1] \in Seq(Ids)
      BY <2>1, BoundsAssumption DEF Ids
    <3>4. chan' \in Seq(Ids)
      <4>1. chan' = chan \o [k \in 1 .. n |-> k - 1] /\ chan \in Seq(Ids)
        BY <1>10, <2>6 DEF DropBatch, TInv, TypeOK, SharedTypes
      <4> HIDE DEF n
      <4> QED
        BY <3>3, <4>1, ConcatProperties
    <3>5. SharedTypes'
      BY <2>4, <3>2, <3>4 DEF SharedTypes
    <3>6. TaskTypes' /\ HasWorker'
      BY <1>10, <2>6 DEF DropBatch, TInv, TypeOK, TaskTypes, HasWorker, Working, Errors
    <3> QED
      BY <2>2, <2>3, <3>5, <3>6 DEF TInv, TypeOK, AssemblyMatches
  <2> QED
    BY <2>5, <2>6 
<1> QED
  BY <1>1, <1>2, <1>3, <1>4, <1>5, <1>6, <1>7, <1>8, <1>9, <1>10 DEF CallerStep

(* Every step preserves the types. *)
LEMMA TypeStep == TInv /\ [Next]_vars => TInv'
<1> SUFFICES ASSUME TInv, [Next]_vars PROVE TInv'
  OBVIOUS
<1>1. CASE \E t \in Tasks : TaskStep(t)
  BY <1>1, TaskTypeStep
<1>2. CASE CoordinatorStep \/ FaultStep \/ CallerStep
  BY <1>2, CallTypeStep, CallerTypeStep DEF FaultStep
<1>3. CASE UNCHANGED vars
  BY <1>3 DEF vars, DescriptorsMatch, TInv, TypeOK, ParentTypes, BatchTypes, JoinTypes, SharedTypes, TaskTypes, OutTypes, HasWorker, AssemblyMatches,
     parentVars, sourceVars, batchVars, joinVars, sharedVars, taskVars, outVars
<1> QED
  BY <1>1, <1>2, <1>3 DEF Next

(* Type correctness of parallel compression, for any number of tasks,
   batches, segments and configurations. *)
THEOREM TypeCorrect == Spec => []TypeOK
<1>1. TInv => TypeOK
  BY DEF TInv
<1> QED
  BY <1>1, TypeInit, TypeStep, PTL DEF Spec

-----------------------------------------------------------------------------
(* Facts about the channel, a sequence of task ids. *)

Occurs(s, i) == \E k \in 1 .. Len(s) : s[k] = i

Distinct(s) == \A j, k \in 1 .. Len(s) : s[j] = s[k] => j = k

(* Sending an id the channel does not hold keeps the ids distinct. *)
LEMMA OccursAppend ==
  ASSUME NEW s \in Seq(Ids), NEW j \in Ids
  PROVE  /\ \A i : Occurs(Append(s, j), i) <=> Occurs(s, i) \/ i = j
         /\ Distinct(s) /\ ~ Occurs(s, j) => Distinct(Append(s, j))
<1>1. /\ Len(Append(s, j)) = Len(s) + 1 /\ Len(s) \in Nat
      /\ \A k \in 1 .. Len(s) : Append(s, j)[k] = s[k]
      /\ Append(s, j)[Len(s) + 1] = j
  BY AppendProperties
<1>2. ASSUME NEW i PROVE Occurs(Append(s, j), i) <=> Occurs(s, i) \/ i = j
  BY <1>1 DEF Occurs
<1>3. Distinct(s) /\ ~ Occurs(s, j) => Distinct(Append(s, j))
  BY <1>1 DEF Occurs, Distinct
<1> QED
  BY <1>2, <1>3

(* Receiving takes one occurrence of the head, which was the only one. *)
LEMMA OccursTail ==
  ASSUME NEW s \in Seq(Ids), s # <<>>, Distinct(s)
  PROVE  /\ Head(s) \in Ids /\ Occurs(s, Head(s))
         /\ \A i : Occurs(Tail(s), i) <=> Occurs(s, i) /\ i # Head(s)
         /\ Distinct(Tail(s))
<1>1. /\ Len(Tail(s)) = Len(s) - 1 /\ Len(s) \in Nat \ {0}
      /\ Head(s) = s[1] /\ Head(s) \in Ids
      /\ \A k \in 1 .. Len(s) - 1 : Tail(s)[k] = s[k + 1]
  OBVIOUS
<1>2. ASSUME NEW i PROVE Occurs(Tail(s), i) <=> Occurs(s, i) /\ i # Head(s)
  <2>1. Occurs(Tail(s), i) => Occurs(s, i) /\ i # Head(s)
    BY <1>1 DEF Occurs, Distinct
  <2>2. ASSUME Occurs(s, i), i # Head(s) PROVE Occurs(Tail(s), i)
    <3>1. PICK k \in 1 .. Len(s) : s[k] = i
      BY <2>2 DEF Occurs
    <3>2. k # 1 /\ k - 1 \in 1 .. Len(s) - 1 /\ Tail(s)[k - 1] = s[k]
      BY <1>1, <2>2, <3>1
    <3> QED
      BY <1>1, <3>1, <3>2 DEF Occurs
  <2> QED
    BY <2>1, <2>2
<1>3. Distinct(Tail(s))
  BY <1>1 DEF Distinct
<1>4. Occurs(s, Head(s))
  BY <1>1 DEF Occurs
<1> QED
  BY <1>1, <1>2, <1>3, <1>4

(* The ids of n dropped tasks, sent in order into the empty channel. *)
LEMMA OccursIota ==
  ASSUME NEW n \in Nat
  PROVE  LET s == <<>> \o [k \in 1 .. n |-> k - 1]
         IN  Distinct(s) /\ \A i : Occurs(s, i) <=> i \in 0 .. n - 1
<1> DEFINE s == [k \in 1 .. n |-> k - 1]
<1>1. s \in Seq(Int) /\ Len(s) = n /\ \A k \in 1 .. n : s[k] = k - 1
  OBVIOUS
<1>2. <<>> \o s = s
  BY <1>1, ConcatEmptySeq
<1>3. Distinct(s)
  <2> HIDE DEF s
  <2> QED
    BY <1>1 DEF Distinct
<1>4. ASSUME NEW i PROVE Occurs(s, i) <=> i \in 0 .. n - 1
  <2> HIDE DEF s
  <2>1. Occurs(s, i) => i \in 0 .. n - 1
    BY <1>1 DEF Occurs
  <2>2. i \in 0 .. n - 1 => i + 1 \in 1 .. n /\ s[i + 1] = i
    BY <1>1
  <2>3. i \in 0 .. n - 1 => Occurs(s, i)
    BY <1>1, <2>2 DEF Occurs
  <2> QED
    BY <2>1, <2>3
<1> QED
  BY <1>2, <1>3, <1>4

-----------------------------------------------------------------------------
(* The join protocol. *)

(* The batch exists: prepare has returned it. *)
Joining == pc \notin {"idle", "prepare"}

(* Batch b has not been prepared. *)
Future(b) == b > cur \/ (pc = "prepare" /\ b = cur)

(* Where the completion of task i of the batch is: still with the task, in
   its slot, announced in the channel, or collected. *)
Published(i) ==
  /\ i < plan[cur].tasks <=> tpc[<<cur, i>>] # "none"
  /\ ~taken /\ pc # "dropping" => tpc[<<cur, i>>] \in {"none", "held"}
  /\ tpc[<<cur, i>>] \in Working \cup {"none", "fail", "publish"} =>
       i \notin received /\ ~ Occurs(chan, i) /\ slot[i] = None
  /\ tpc[<<cur, i>>] = "send" =>
       i \notin received /\ ~ Occurs(chan, i) /\ slot[i] # None
  /\ tpc[<<cur, i>>] \in {"abandoned", "done"} =>
       IF i \in received THEN ~ Occurs(chan, i) /\ slot[i] = None
       ELSE Occurs(chan, i) /\ slot[i] # None

FutureIdle == \A t \in Tasks : Future(t[1]) => tpc[t] = "none"

AllPublished == Joining => \A i \in Ids : Published(i)

Counted == completed = Cardinality(received)

RecvWaits == pc = "recv" => completed < plan[cur].tasks

JoinInv == FutureIdle /\ AllPublished /\ Distinct(chan) /\ Counted /\ RecvWaits

(* No batch exists initially, so nothing is published. *)
LEMMA JoinInit == Init => JoinInv
BY FS_EmptySet DEF Init, JoinInv, FutureIdle, AllPublished, Joining, Distinct, Counted, RecvWaits

(* The set of collected ids is finite. *)
LEMMA ReceivedFinite ==
  ASSUME TypeOK
  PROVE  IsFiniteSet(received)
<1>1. IsFiniteSet(Ids)
  BY FS_Interval, BoundsAssumption DEF Ids
<1> QED
  BY <1>1, FS_Subset DEF TypeOK, JoinTypes

(* A task's step preserves the join invariant. *)
LEMMA TaskJoinStep ==
  ASSUME TInv, JoinInv, NEW t \in Tasks, TaskStep(t)
  PROVE  JoinInv'
<1>1. UNCHANGED <<pc, cur, plan, taken, received, completed>>
  BY DEF TaskStep, Start, Abandon, CheckBeforeRead, ReadSource, Encode, Panic, Commit,
         StoreCancelled, FillSlot, Send, StoreAbandoned, taskRest, batchVars, joinVars
<1>2. PICK l \in {"check", "read", "encode", "commit", "fail", "publish", "send", "abandoned", "done"} :
        tpc' = [tpc EXCEPT ![t] = l]
  BY DEF TaskStep, Start, Abandon, CheckBeforeRead, ReadSource, Encode, Panic, Commit,
         StoreCancelled, FillSlot, Send, StoreAbandoned, Goto, Fail
<1>3. tpc[t] \notin {"none", "held"}
  BY DEF TaskStep, Start, Abandon, CheckBeforeRead, ReadSource, Encode, Panic, Commit,
         StoreCancelled, FillSlot, Send, StoreAbandoned
<1>4. tpc = [x \in Tasks |-> tpc[x]] /\ cur \in Int
  BY BoundsAssumption DEF TInv, TypeOK, TaskTypes, BatchTypes
<1>5. FutureIdle'
  BY <1>1, <1>2, <1>3, <1>4 DEF JoinInv, FutureIdle, Future
<1>6. Counted' /\ RecvWaits'
  BY <1>1 DEF JoinInv, Counted, RecvWaits
<1>7. CASE ~ (t[1] = cur /\ Joining)
  <2>1. ~ (t[1] = cur /\ Live)
    BY <1>3, <1>7 DEF JoinInv, FutureIdle, Future, Joining, Live
  <2>2. UNCHANGED <<slot, chan>>
    BY <2>1 DEF TaskStep, Start, Abandon, CheckBeforeRead, ReadSource, Encode, Panic, Commit,
         StoreCancelled, FillSlot, Send, StoreAbandoned, sharedVars
  <2>3. Joining' => Joining /\ t[1] # cur
    BY <1>1, <1>7 DEF Joining
  <2>4. Joining => \A i \in Ids : tpc'[<<cur, i>>] = tpc[<<cur, i>>]
    BY <1>2, <1>4, <1>7 DEF Tasks, TInv, TypeOK, BatchTypes, Joining
  <2>5. AllPublished'
    BY <1>1, <2>2, <2>3, <2>4 DEF JoinInv, AllPublished, Published
  <2> QED
    BY <1>5, <1>6, <2>2, <2>5 DEF JoinInv
<1>8. CASE t[1] = cur /\ Joining
  <2> DEFINE j == t[2]
  <2>1. t = <<cur, j>> /\ j \in Ids /\ Live
    BY <1>8 DEF Tasks, Live, Joining
  <2>2. \A i \in Ids : tpc'[<<cur, i>>] = IF i = j THEN l ELSE tpc[<<cur, i>>]
    BY <1>2, <1>4, <1>8, <2>1 DEF Tasks, TInv, TypeOK, BatchTypes, Joining
  <2>3. Published(j) /\ AllPublished /\ Distinct(chan) /\ j < plan[cur].tasks
    BY <1>3, <1>8, <2>1 DEF JoinInv, AllPublished, Published
  <2>4. taken \/ pc = "dropping"
    BY <1>3, <2>1, <2>3 DEF Published
  <2> HIDE DEF j
  <2>5. CASE FillSlot(t)
    <3>1. slot' = [slot EXCEPT ![j] = Completion(t, result[t])] /\ chan' = chan /\ l = "send"
      BY <1>2, <1>4, <1>8, <2>1, <2>5 DEF FillSlot, Goto, j
    <3>2. Completion(t, result[t]) # None
      <4>1. Completion(t, result[t]) \in Completions
        BY DEF Completion, Completions, TInv, TypeOK, TaskTypes
      <4> QED
        BY <4>1, NoneAssumption
    <3>3. \A i \in Ids : Published(i)'
      <4> SUFFICES ASSUME NEW i \in Ids PROVE Published(i)'
        OBVIOUS
      <4>1. CASE i # j
        BY <1>1, <1>8, <2>2, <2>3, <3>1, <4>1 DEF AllPublished, Published, TInv, TypeOK, SharedTypes
      <4>2. CASE i = j
        BY <1>1, <2>1, <2>2, <2>3, <2>4, <2>5, <3>1, <3>2, <4>2
        DEF Published, FillSlot, TInv, TypeOK, SharedTypes, Working
      <4> QED
        BY <4>1, <4>2
    <3> QED
      BY <1>5, <1>6, <2>3, <3>1, <3>3 DEF JoinInv, AllPublished
  <2>6. CASE Send(t)
    <3>1. slot' = slot /\ chan' = Append(chan, j) /\ l \in {"abandoned", "done"} /\ chan \in Seq(Ids)
      BY <1>2, <1>4, <1>8, <2>1, <2>6 DEF Send, Goto, j, TInv, TypeOK, SharedTypes
    <3>2. ~ Occurs(chan, j) /\ slot[j] # None /\ j \notin received
      BY <2>1, <2>3, <2>6 DEF Published, Send
    <3>3. Distinct(chan') /\ \A i : Occurs(chan', i) <=> Occurs(chan, i) \/ i = j
      BY <2>1, <2>3, <3>1, <3>2, OccursAppend
    <3>4. \A i \in Ids : Published(i)'
      <4> SUFFICES ASSUME NEW i \in Ids PROVE Published(i)'
        OBVIOUS
      <4>1. CASE i # j
        BY <1>1, <1>8, <2>2, <2>3, <3>1, <3>3, <4>1 DEF AllPublished, Published
      <4>2. CASE i = j
        BY <1>1, <2>1, <2>2, <2>3, <2>4, <3>1, <3>2, <3>3, <4>2 DEF Published, Working
      <4> QED
        BY <4>1, <4>2
    <3> QED
      BY <1>5, <1>6, <3>3, <3>4 DEF JoinInv, AllPublished
  <2>7. CASE StoreAbandoned(t)
    <3>1. UNCHANGED <<slot, chan>> /\ l = "done" /\ tpc[t] = "abandoned"
      BY <1>2, <1>4, <2>7 DEF StoreAbandoned, Goto
    <3>2. \A i \in Ids : Published(i)'
      BY <1>1, <1>8, <2>1, <2>2, <2>3, <2>4, <3>1 DEF AllPublished, Published, Working
    <3> QED
      BY <1>5, <1>6, <2>3, <3>1, <3>2 DEF JoinInv, AllPublished
  <2>8. CASE Start(t) \/ Abandon(t) \/ CheckBeforeRead(t) \/ ReadSource(t) \/ Encode(t)
             \/ Panic(t) \/ Commit(t) \/ StoreCancelled(t)
    <3>1. UNCHANGED <<slot, chan>> /\ tpc[t] \in Working \cup {"fail"}
      BY <2>8 DEF Start, Abandon, CheckBeforeRead, ReadSource, Encode, Panic, Commit,
         StoreCancelled, sharedVars, Working
    <3>2. l \in Working \cup {"fail", "publish"}
      BY <1>2, <1>4, <2>8 DEF Start, Abandon, CheckBeforeRead, ReadSource, Encode, Panic, Commit,
         StoreCancelled, Goto, Fail, Working
    <3>3. \A i \in Ids : Published(i)'
      BY <1>1, <1>8, <2>1, <2>2, <2>3, <2>4, <3>1, <3>2 DEF AllPublished, Published, Working
    <3> QED
      BY <1>5, <1>6, <2>3, <3>1, <3>3 DEF JoinInv, AllPublished
  <2> QED
    BY <2>5, <2>6, <2>7, <2>8 DEF TaskStep
<1> QED
  BY <1>7, <1>8

(* receive() always accepts the id it takes from the channel: it is known,
   was not collected before, and its slot is full. *)
LEMMA HeadAcceptable ==
  ASSUME TInv, JoinInv, Joining, chan # <<>>
  PROVE  Acceptable(Head(chan)) /\ Head(chan) \in Ids
<1>1. chan \in Seq(Ids)
  BY DEF TInv, TypeOK, SharedTypes
<1>2. Head(chan) \in Ids /\ Occurs(chan, Head(chan))
  BY <1>1, OccursTail DEF JoinInv
<1>3. Published(Head(chan))
  BY <1>2 DEF JoinInv, AllPublished
<1>4. <<cur, Head(chan)>> \in Tasks
  BY <1>2 DEF Tasks, TInv, TypeOK, BatchTypes, Joining
<1>5. tpc[<<cur, Head(chan)>>] \in Working \cup {"none", "fail", "publish", "send", "abandoned", "done"}
  BY <1>4 DEF TInv, TypeOK, TaskTypes, Working
<1> QED
  BY <1>2, <1>3, <1>5 DEF Published, Acceptable

(* Collecting the head of the channel preserves the join invariant. *)
LEMMA CollectJoin ==
  ASSUME TInv, JoinInv, Joining, chan # <<>>, chan' = Tail(chan),
         UNCHANGED <<cur, plan, taken, tpc>>,
         pc' \notin {"prepare", "recv"}, pc' # "dropping" => pc # "dropping",
         IF Acceptable(Head(chan)) THEN Collect(Head(chan))
         ELSE UNCHANGED <<workers, joinVars, cancelled, slot>>
  PROVE  JoinInv' /\ completed' = completed + 1
<1> DEFINE id == Head(chan)
<1>1. id \in Ids /\ Acceptable(id) /\ Collect(id)
  BY HeadAcceptable
<1>2. chan \in Seq(Ids) /\ slot = [i \in Ids |-> slot[i]]
  BY DEF TInv, TypeOK, SharedTypes
<1>3. Distinct(chan') /\ \A i : Occurs(chan', i) <=> Occurs(chan, i) /\ i # id
  BY <1>2, OccursTail DEF JoinInv
<1>4. Occurs(chan, id)
  BY <1>2, OccursTail DEF JoinInv
<1> HIDE DEF id
<1>5. Counted' /\ completed' = completed + 1
  BY <1>1, ReceivedFinite, FS_AddElement, FS_CardinalityType DEF Collect, Acceptable, JoinInv, Counted, TInv
<1>6. FutureIdle' /\ RecvWaits'
  BY DEF JoinInv, FutureIdle, Future, RecvWaits
<1>7. ASSUME NEW i \in Ids PROVE Published(i)'
  <2>1. Published(i)
    BY DEF JoinInv, AllPublished
  <2>2. CASE i # id
    <3>1. slot'[i] = slot[i] /\ (i \in received' <=> i \in received) /\ (Occurs(chan', i) <=> Occurs(chan, i))
      BY <1>1, <1>2, <1>3, <2>2 DEF Collect
    <3> QED
      BY <2>1, <3>1 DEF Published
  <2>3. CASE i = id
    <3>1. slot'[i] = None /\ i \in received' /\ ~ Occurs(chan', i)
      BY <1>1, <1>2, <1>3, <2>3 DEF Collect
    <3>2. tpc[<<cur, i>>] \notin Working \cup {"none", "fail", "publish", "send"}
      BY <1>4, <2>1, <2>3 DEF Published
    <3> QED
      BY <2>1, <3>1, <3>2 DEF Published, Working
  <2> QED
    BY <2>2, <2>3
<1> QED
  BY <1>3, <1>5, <1>6, <1>7 DEF JoinInv, AllPublished

(* The steps inside a call, and the destructor's, preserve the join
   invariant. *)
LEMMA CallJoinStep ==
  ASSUME TInv, JoinInv, CoordinatorStep \/ TimeOut \/ ValidateFails \/ CopyFails, ~ Prepare
  PROVE  JoinInv'
<1> USE DEF Return
<1>1. UNCHANGED <<cur, plan, taken, tpc>>
  BY DEF CoordinatorStep, Receive, Pending, TimeOut, Ready, Validate, ValidateFails, CopyFragment, NextArtifact, CopyLast, CopyFails, Assembled, DropDrain, DropDone, callRest, coordRest, taskVars
<1>2. /\ pc \in {"drain", "recv", "validate", "assemble", "dropping"}
      /\ pc' \in {"idle", "open", "drain", "recv", "validate", "assemble", "drop", "dropping"}
      /\ pc' # "idle" => (pc = "dropping" <=> pc' = "dropping")
  BY DEF CoordinatorStep, Receive, Pending, TimeOut, Ready, Validate, ValidateFails, CopyFragment, NextArtifact, CopyLast, CopyFails, Assembled, DropDrain, DropDone
<1>3. Joining /\ FutureIdle'
  BY <1>1, <1>2 DEF Joining, JoinInv, FutureIdle, Future
<1>4. ASSUME UNCHANGED <<received, completed, slot, chan>>, RecvWaits' PROVE JoinInv'
  BY <1>1, <1>2, <1>3, <1>4 DEF JoinInv, AllPublished, Joining, Published, Counted
<1>5. CASE Receive
  <2>1. CASE chan = <<>>
    BY <1>4, <1>5, <2>1 DEF Receive, joinVars, RecvWaits
  <2>2. CASE chan # <<>>
    BY <1>1, <1>2, <1>3, <1>5, <2>2, CollectJoin, HeadAcceptable DEF Receive
  <2> QED
    BY <2>1, <2>2
<1>6. CASE Pending
  BY <1>1, <1>4, <1>6 DEF Pending, poolVars, joinVars, sharedVars, RecvWaits
<1>7. CASE TimeOut \/ Ready \/ Validate \/ ValidateFails \/ CopyFragment \/ NextArtifact
           \/ CopyLast \/ CopyFails \/ Assembled
  <2>1. UNCHANGED <<received, completed, slot, chan>>
    BY <1>7 DEF TimeOut, Ready, Validate, ValidateFails, CopyFragment, NextArtifact, CopyLast,
       CopyFails, Assembled, poolVars, joinVars, sharedVars
  <2>2. pc' # "recv"
    BY <1>7 DEF TimeOut, Ready, Validate, ValidateFails, CopyFragment, NextArtifact, CopyLast,
       CopyFails, Assembled
  <2> QED
    BY <1>4, <2>1, <2>2 DEF RecvWaits
<1>8. CASE DropDrain
  BY <1>1, <1>2, <1>3, <1>8, CollectJoin DEF DropDrain
<1>9. CASE DropDone
  <2>1. ~ Joining' /\ received' = {} /\ completed' = 0 /\ chan' = chan /\ pc' # "recv"
    BY <1>9 DEF DropDone, Joining
  <2> QED
    BY <1>3, <2>1, FS_EmptySet DEF JoinInv, AllPublished, Counted, RecvWaits
<1> QED
  BY <1>5, <1>6, <1>7, <1>8, <1>9 DEF CoordinatorStep

(* So do the owner's steps outside a call. *)
LEMMA CallerJoinStep ==
  ASSUME TInv, JoinInv, CallerStep \/ Prepare \/ PrepareFails \/ ChangeSource
  PROVE  JoinInv'
<1>1. CASE ChangeSource \/ Cancel \/ (\E c \in Configs : Reconfigure(c))
           \/ (\E n \in 0 .. MaxRetain : ReconfigureParallel(n) \/ Trim(n))
  <2>1. UNCHANGED <<pc, cur, plan, taken, tpc, received, completed, slot, chan>>
    BY <1>1 DEF ChangeSource, Cancel, Reconfigure, ReconfigureParallel, Trim, idleRest,
       batchVars, joinVars, sharedVars, taskVars
  <2> QED
    BY <2>1 DEF JoinInv, FutureIdle, Future, AllPublished, Joining, Published, Counted, RecvWaits
<1>2. CASE PrepareLen \/ PrepareFails
  <2>1. UNCHANGED <<received, completed, chan, tpc>> /\ pc' \in {"idle", "prepare"}
    BY <1>2 DEF PrepareLen, PrepareFails, joinVars, sharedVars, taskVars
  <2>2. FutureIdle'
    <3>1. cur \in Int
      BY BoundsAssumption DEF TInv, TypeOK, BatchTypes
    <3>2. \A b \in Batches : Future(b)' => Future(b)
      BY <1>2, <3>1, BoundsAssumption DEF PrepareLen, PrepareFails, Future, Batches, batchVars
    <3> QED
      BY <2>1, <3>2 DEF JoinInv, FutureIdle, Tasks
  <2> QED
    BY <2>1, <2>2 DEF JoinInv, AllPublished, Joining, Counted, RecvWaits
<1>3. CASE Prepare
  <2>1. cur \in Batches /\ plan[cur].tasks \in 0 .. MaxTasks /\ Future(cur)
    BY <1>3 DEF Prepare, Future, TInv, TypeOK, BatchTypes, Plans
  <2>2. cur' = cur /\ plan'[cur].tasks = plan[cur].tasks
    BY <1>3, <2>1 DEF Prepare, TInv, TypeOK, BatchTypes, Plans
  <2>3. \A i \in Ids : tpc'[<<cur, i>>] = IF i < plan[cur].tasks THEN "held" ELSE "none"
    BY <1>3, <2>1 DEF Prepare, JoinInv, FutureIdle, Tasks
  <2>4. \A i \in Ids : ~ Occurs(<<>>, i)
    BY DEF Occurs
  <2>a. /\ received' = {} /\ chan' = <<>> /\ pc' = "open"
        /\ \A i \in Ids : slot'[i] = None
    BY <1>3 DEF Prepare
  <2>5. \A i \in Ids : Published(i)'
    BY <2>2, <2>3, <2>4, <2>a DEF Published, Working
  <2>6. FutureIdle'
    <3>1. \A t \in Tasks : t[1] # cur => tpc'[t] = tpc[t]
      BY <1>3 DEF Prepare
    <3>2. cur \in Int /\ ~ (cur > cur)
      BY <2>1 DEF Batches
    <3> QED
      BY <2>2, <2>a, <3>1, <3>2 DEF JoinInv, FutureIdle, Future
  <2>7. Distinct(chan') /\ Counted' /\ RecvWaits'
    BY <1>3, FS_EmptySet DEF Prepare, Distinct, Counted, RecvWaits
  <2> QED
    BY <2>5, <2>6, <2>7 DEF JoinInv, AllPublished
<1>4. CASE TakeTasks
  <2>1. UNCHANGED <<pc, cur, plan, received, completed, slot, chan>> /\ taken' /\ Joining
    BY <1>4 DEF TakeTasks, joinVars, sharedVars, Joining
  <2>2. \A t \in Tasks : tpc'[t] = IF t[1] = cur /\ tpc[t] = "held" THEN "queued" ELSE tpc[t]
    BY <1>4 DEF TakeTasks
  <2>3. \A i \in Ids : <<cur, i>> \in Tasks
    BY <2>1 DEF Joining, Tasks, TInv, TypeOK, BatchTypes
  <2>4. \A i \in Ids : Published(i)'
    BY <2>1, <2>2, <2>3 DEF JoinInv, AllPublished, Published, Working
  <2>5. FutureIdle'
    BY <2>1, <2>2 DEF JoinInv, FutureIdle, Future
  <2> QED
    BY <2>1, <2>4, <2>5 DEF JoinInv, AllPublished, Counted, RecvWaits
<1>5. CASE \E k \in Calls : Begin(k)
  <2>1. UNCHANGED <<cur, plan, taken, tpc, received, completed, slot, chan>>
    BY <1>5 DEF Begin, coordRest, poolVars, joinVars, sharedVars, taskVars
  <2>2. pc = "open" /\ pc' \in {"open", "drop", "drain"}
    BY <1>5 DEF Begin
  <2> QED
    BY <2>1, <2>2 DEF JoinInv, FutureIdle, Future, AllPublished, Joining, Published, Counted, RecvWaits
<1>6. CASE DropBatch
  <2>1. UNCHANGED <<cur, plan, taken, received, completed>> /\ Joining /\ pc' = "dropping"
    BY <1>6 DEF DropBatch, coordRest, joinVars, Joining
  <2>2. Counted' /\ RecvWaits'
    BY <2>1 DEF JoinInv, Counted, RecvWaits
  <2>3. CASE taken
    <3>1. UNCHANGED <<slot, chan, tpc>>
      BY <1>6, <2>3 DEF DropBatch, taskVars
    <3> QED
      BY <2>1, <2>2, <2>3, <3>1 DEF JoinInv, FutureIdle, Future, AllPublished, Joining, Published
  <2>4. CASE ~ taken
    <3> DEFINE n == plan[cur].tasks
    <3>1. n \in Nat /\ cur \in Batches /\ chan \in Seq(Ids)
      BY <2>1 DEF TInv, TypeOK, BatchTypes, SharedTypes, Joining, Plans
    <3>2. \A i \in Ids : Published(i) /\ tpc[<<cur, i>>] \in {"none", "held"}
      BY <1>6, <2>1, <2>4 DEF DropBatch, JoinInv, AllPublished, Published
    <3>3. \A i \in Ids : ~ Occurs(chan, i) /\ i \notin received
      BY <3>2 DEF Published, Working
    <3>4. chan = <<>>
      <4> SUFFICES ASSUME chan # <<>> PROVE FALSE
        OBVIOUS
      <4> QED
        BY <3>1, <3>3, OccursTail DEF JoinInv
    <3>5. Distinct(chan') /\ \A i : Occurs(chan', i) <=> i \in 0 .. n - 1
      <4>1. chan' = <<>> \o [k \in 1 .. n |-> k - 1]
        BY <1>6, <2>4, <3>4 DEF DropBatch
      <4> HIDE DEF n
      <4> QED
        BY <3>1, <4>1, OccursIota
    <3>6. \A t \in Tasks : tpc'[t] = IF t[1] = cur /\ t[2] < n THEN "done" ELSE tpc[t]
      BY <1>6, <2>4 DEF DropBatch
    <3>7. \A i \in Ids : slot'[i] # None <=> i < n
      <4>1. \A i \in Ids : Completion(<<cur, i>>, "TaskAbandoned") # None
        <5> SUFFICES ASSUME NEW i \in Ids PROVE Completion(<<cur, i>>, "TaskAbandoned") # None
          OBVIOUS
        <5>1. worker[<<cur, i>>] \in Workers \cup {None} /\ <<>> \in Seq(Fragments)
          BY <3>1 DEF Tasks, TInv, TypeOK, TaskTypes
        <5>2. Completion(<<cur, i>>, "TaskAbandoned") \in Completions
          BY <5>1 DEF Completion, Completions, Errors
        <5> QED
          BY <5>2, NoneAssumption
      <4>2. \A i \in Ids : slot'[i] = IF i < n THEN Completion(<<cur, i>>, "TaskAbandoned") ELSE slot[i]
        BY <1>6, <2>4 DEF DropBatch
      <4>3. \A i \in Ids : slot[i] = None
        BY <3>2 DEF Published, Working
      <4> QED
        BY <4>1, <4>2, <4>3
    <3>8. \A i \in Ids : <<cur, i>> \in Tasks /\ i \in Nat
      BY <3>1, BoundsAssumption DEF Tasks, Ids
    <3>9. \A i \in Ids : Published(i)'
      <4> SUFFICES ASSUME NEW i \in Ids PROVE Published(i)'
        OBVIOUS
      <4>1. i < n <=> tpc[<<cur, i>>] # "none"
        BY <3>2 DEF Published
      <4>2. tpc'[<<cur, i>>] = IF i < n THEN "done" ELSE "none"
        BY <3>6, <3>8, <4>1
      <4> QED
        BY <2>1, <3>1, <3>3, <3>5, <3>7, <3>8, <4>2 DEF Published, Working
    <3>10. FutureIdle'
      BY <2>1, <3>1, <3>6, BoundsAssumption DEF JoinInv, FutureIdle, Future, Batches
    <3> QED
      BY <2>2, <3>5, <3>9, <3>10 DEF JoinInv, AllPublished
  <2> QED
    BY <2>3, <2>4
<1> QED
  BY <1>1, <1>2, <1>3, <1>4, <1>5, <1>6 DEF CallerStep

(* Every step preserves the join invariant. *)
LEMMA JoinStep == TInv /\ JoinInv /\ [Next]_vars => JoinInv'
<1> SUFFICES ASSUME TInv, JoinInv, [Next]_vars PROVE JoinInv'
  OBVIOUS
<1>1. CASE \E t \in Tasks : TaskStep(t)
  BY <1>1, TaskJoinStep
<1>2. CASE CoordinatorStep \/ FaultStep \/ CallerStep
  BY <1>2, CallJoinStep, CallerJoinStep DEF FaultStep
<1>3. CASE UNCHANGED vars
  BY <1>3 DEF vars, batchVars, joinVars, sharedVars, taskVars, JoinInv, FutureIdle, Future,
     AllPublished, Joining, Published, Counted, RecvWaits
<1> QED
  BY <1>1, <1>2, <1>3 DEF Next

(* The ids of n tasks, and n positions of the channel. *)
LEMMA Interval ==
  ASSUME NEW n \in Nat
  PROVE  /\ IsFiniteSet(0 .. n - 1) /\ Cardinality(0 .. n - 1) = n
         /\ Cardinality(1 .. n) = n
<1>1. n - 1 \in Int /\ 0 \in Int /\ 1 \in Int /\ n \in Int
  OBVIOUS
<1>2. IsFiniteSet(0 .. n - 1) /\ Cardinality(0 .. n - 1) = IF 0 > n - 1 THEN 0 ELSE (n - 1) - 0 + 1
  BY <1>1, FS_Interval
<1>3. Cardinality(1 .. n) = IF 1 > n THEN 0 ELSE n - 1 + 1
  BY <1>1, FS_Interval
<1> QED
  BY <1>2, <1>3

(* The channel has room whenever a task of the batch is about to send: its
   ids are distinct ids of the batch's other tasks. *)
LEMMA RoomToSend ==
  ASSUME TInv, JoinInv
  PROVE  SendNeverBlocks
<1> SUFFICES ASSUME NEW t \in Tasks, tpc[t] = "send", t[1] = cur, Live
             PROVE  Len(chan) < Capacity(cur)
  BY DEF SendNeverBlocks
<1> DEFINE j == t[2]
           n == plan[cur].tasks
           T == (0 .. n - 1) \ {j}
<1>1. Joining /\ t = <<cur, j>> /\ j \in Ids /\ cur \in Batches
  BY DEF JoinInv, FutureIdle, Future, Joining, Live, Tasks
<1>2. n \in Nat /\ chan \in Seq(Ids) /\ j \in Nat
  BY <1>1, BoundsAssumption DEF TInv, TypeOK, BatchTypes, SharedTypes, Plans, Ids
<1>3. ~ Occurs(chan, j) /\ j < n
  BY <1>1 DEF JoinInv, AllPublished, Published
<1>4. \A k \in 1 .. Len(chan) : chan[k] \in T
  <2> SUFFICES ASSUME NEW k \in 1 .. Len(chan) PROVE chan[k] \in T
    OBVIOUS
  <2>1. chan[k] \in Ids /\ Occurs(chan, chan[k])
    BY <1>2 DEF Occurs
  <2>2. chan[k] # j
    BY <1>3 DEF Occurs
  <2>3. chan[k] < n
    BY <1>1, <2>1 DEF JoinInv, AllPublished, Published
  <2> QED
    BY <1>2, <2>1, <2>2, <2>3, BoundsAssumption DEF Ids
<1>5. IsFiniteSet(T) /\ Cardinality(T) = n - 1
  <2>1. IsFiniteSet(0 .. n - 1) /\ Cardinality(0 .. n - 1) = n /\ j \in 0 .. n - 1
    BY <1>2, <1>3, Interval
  <2> HIDE DEF n, j
  <2> QED
    BY <2>1, FS_RemoveElement
<1> HIDE DEF T
<1>6. Cardinality(1 .. Len(chan)) <= Cardinality(T)
  <2>1. chan \in [1 .. Len(chan) -> T] /\ DOMAIN chan = 1 .. Len(chan)
    BY <1>2, <1>4
  <2>2. chan \in Injection(1 .. Len(chan), T)
    BY <2>1 DEF Injection, IsInjective, JoinInv, Distinct
  <2> QED
    BY <1>5, <2>2, FS_Injection
<1>7. Len(chan) \in Nat
  BY <1>2
<1>8. Cardinality(1 .. Len(chan)) = Len(chan)
  BY <1>7, Interval
<1> QED
  BY <1>2, <1>3, <1>5, <1>6, <1>7, <1>8 DEF Capacity

(* Publishing never blocks: in every reachable state a task about to send
   finds room in the completion channel, whatever the coordinator does. *)
THEOREM PublishingNeverBlocks == Spec => []SendNeverBlocks
<1> QED
  BY TypeInit, TypeStep, JoinInit, JoinStep, RoomToSend, PTL DEF Spec

(* A batch that has heard of as many completions as it has tasks has heard
   of every task. *)
LEMMA AllCollected ==
  ASSUME TInv, JoinInv, Joining, completed >= plan[cur].tasks
  PROVE  received = 0 .. plan[cur].tasks - 1
<1> DEFINE n == plan[cur].tasks
<1>1. n \in Nat /\ IsFiniteSet(0 .. n - 1) /\ Cardinality(0 .. n - 1) = n
  <2>1. plan[cur] \in Plans
    BY DEF Joining, TInv, TypeOK, BatchTypes
  <2>2. n \in Nat
    BY <2>1, BoundsAssumption DEF Plans
  <2> HIDE DEF n
  <2> QED
    BY <2>2, Interval
<1>2. received \subseteq 0 .. n - 1
  <2> SUFFICES ASSUME NEW i \in received PROVE i \in 0 .. n - 1
    OBVIOUS
  <2>1. i \in Ids /\ Published(i)
    BY DEF TInv, TypeOK, JoinTypes, JoinInv, AllPublished
  <2>2. i < n
    BY <2>1 DEF Published
  <2> QED
    BY <1>1, <2>1, <2>2, BoundsAssumption DEF Ids
<1>3. Cardinality(received) <= n /\ Cardinality(received) >= n /\ Cardinality(received) \in Nat
  BY <1>1, <1>2, FS_Subset, ReceivedFinite, FS_CardinalityType DEF JoinInv, Counted, TInv
<1> QED
  <2> HIDE DEF n
  <2>1. Cardinality(received) = Cardinality(0 .. n - 1)
    BY <1>1, <1>3
  <2>2. received = 0 .. n - 1
    BY <1>1, <1>2, <2>1, FS_Subset
  <2> QED
    BY <2>2 DEF n

-----------------------------------------------------------------------------
(* The cause of a cancellation. *)

FutureClean == \A b \in Batches : Future(b) => ~ cancelled[b]

(* A task's result is "Ok" until it fails, and "Cancelled" only if it saw the
   flag. *)
Results ==
  \A t \in Tasks :
    /\ tpc[t] \in Working \cup {"none"} => result[t] = "Ok"
    /\ tpc[t] = "fail" => result[t] # "Ok"
    /\ tpc[t] = "abandoned" => result[t] = "TaskAbandoned"
    /\ result[t] = "Cancelled" => cancelled[t[1]]

(* The coordinator's records are the tasks' results. *)
Recorded ==
  Joining =>
    /\ \A i \in Ids :
         /\ slot[i] # None => slot[i].result = result[<<cur, i>>]
         /\ i \in received /\ result[<<cur, i>>] # "Ok" =>
              <<i, result[<<cur, i>>]>> \in failures \cup {failure}
    /\ \A f \in failures : f[1] \in received /\ f[2] = result[<<cur, f[1]>>]

(* Unless the caller cancelled, a set flag means that some task failed for a
   reason of its own. *)
HasCause ==
  Joining /\ pc # "dropping" /\ cancelled[cur] /\ ~ userCancelled =>
    \E i \in Ids : result[<<cur, i>>] \notin {"Ok", "Cancelled"}

Settled ==
  /\ ~ Joining => failure = None
  /\ failure # None => completed >= plan[cur].tasks
  /\ OriginatingError

CauseInv == FutureClean /\ Results /\ Recorded /\ HasCause /\ Settled

(* Initially nothing has failed and nothing is cancelled. *)
LEMMA CauseInit == Init => CauseInv
BY DEF Init, CauseInv, FutureClean, Results, Recorded, HasCause, Settled, OriginatingError,
   Joining, Working

(* A task's step keeps the cause of a cancellation on record. *)
LEMMA TaskCauseStep ==
  ASSUME TInv, JoinInv, CauseInv, NEW t \in Tasks, TaskStep(t)
  PROVE  CauseInv'
<1>1. UNCHANGED <<pc, cur, plan, received, completed, failures, failure, last, userCancelled>>
  BY DEF TaskStep, Start, Abandon, CheckBeforeRead, ReadSource, Encode, Panic, Commit,
         StoreCancelled, FillSlot, Send, StoreAbandoned, taskRest, batchVars, joinVars
<1>2. /\ tpc = [x \in Tasks |-> tpc[x]] /\ result = [x \in Tasks |-> result[x]]
      /\ cancelled \in [Batches -> BOOLEAN] /\ slot = [i \in Ids |-> slot[i]]
      /\ t[1] \in Batches /\ t[2] \in Ids /\ t = <<t[1], t[2]>>
  BY DEF TInv, TypeOK, TaskTypes, SharedTypes, Tasks
<1>3. \A x \in Tasks : x # t => tpc'[x] = tpc[x] /\ result'[x] = result[x]
  BY <1>2 DEF TaskStep, Start, Abandon, CheckBeforeRead, ReadSource, Encode, Panic, Commit,
         StoreCancelled, FillSlot, Send, StoreAbandoned, Goto, Fail
<1>4. tpc[t] \notin {"none", "held"}
  BY DEF TaskStep, Start, Abandon, CheckBeforeRead, ReadSource, Encode, Panic, Commit,
         StoreCancelled, FillSlot, Send, StoreAbandoned
<1>5. \/ result' = result
      \/ tpc[t] \in Working /\ (result'[t] = "Cancelled" => cancelled[t[1]])
  BY <1>2 DEF TaskStep, Start, Abandon, CheckBeforeRead, ReadSource, Encode, Panic, Commit,
         StoreCancelled, FillSlot, Send, StoreAbandoned, Fail, Working
<1>6. \/ cancelled' = cancelled
      \/ cancelled' = [cancelled EXCEPT ![t[1]] = TRUE] /\ tpc[t] \in {"fail", "abandoned"} /\ result' = result
  BY DEF TaskStep, Start, Abandon, CheckBeforeRead, ReadSource, Encode, Panic, Commit,
         StoreCancelled, FillSlot, Send, StoreAbandoned, sharedVars
<1>7. \A b \in Batches : cancelled[b] => cancelled'[b]
  BY <1>2, <1>6
<1>8. ~ Future(t[1])
  BY <1>4 DEF JoinInv, FutureIdle
<1>9. FutureClean'
  BY <1>1, <1>2, <1>6, <1>8 DEF CauseInv, FutureClean, Future
<1>10. Results'
  <2>1. /\ tpc'[t] \in Working => result'[t] = "Ok"
        /\ tpc'[t] # "none"
        /\ tpc'[t] = "fail" => result'[t] # "Ok"
        /\ tpc'[t] = "abandoned" => result'[t] = "TaskAbandoned"
    BY <1>2 DEF TaskStep, Start, Abandon, CheckBeforeRead, ReadSource, Encode, Panic, Commit,
         StoreCancelled, FillSlot, Send, StoreAbandoned, Goto, Fail, Working, CauseInv, Results
  <2>2. result'[t] = "Cancelled" => cancelled'[t[1]]
    BY <1>2, <1>5, <1>7 DEF CauseInv, Results
  <2>3. \A x \in Tasks : x[1] \in Batches
    BY DEF Tasks
  <2> QED
    BY <1>3, <1>7, <2>1, <2>2, <2>3 DEF CauseInv, Results
<1>11. ASSUME Joining, NEW i \in Ids, tpc[<<cur, i>>] \notin Working \cup {"none"}
       PROVE  result'[<<cur, i>>] = result[<<cur, i>>]
  <2>1. <<cur, i>> \in Tasks
    BY <1>11 DEF Joining, TInv, TypeOK, BatchTypes, Tasks
  <2> QED
    BY <1>3, <1>5, <1>11, <2>1
<1>12. Recorded'
  <2> SUFFICES ASSUME Joining PROVE Recorded'
    BY <1>1 DEF Recorded, Joining
  <2>1. \A i \in Ids : Published(i)
    BY DEF JoinInv, AllPublished
  <2>2. \A i \in received : i \in Ids /\ result'[<<cur, i>>] = result[<<cur, i>>]
    BY <1>11, <2>1 DEF Published, TInv, TypeOK, JoinTypes
  <2>3. ASSUME NEW i \in Ids, slot'[i] # None
        PROVE  slot'[i].result = result'[<<cur, i>>]
    <3>1. CASE slot'[i] = slot[i]
      <4>1. tpc[<<cur, i>>] \notin Working \cup {"none"}
        BY <2>1, <2>3, <3>1 DEF Published
      <4>2. result'[<<cur, i>>] = result[<<cur, i>>]
        BY <1>11, <4>1
      <4> QED
        BY <2>3, <3>1, <4>2 DEF CauseInv, Recorded
    <3>2. CASE slot'[i] # slot[i]
      <4>1. FillSlot(t) /\ t[1] = cur /\ t[2] = i
        BY <1>2, <3>2 DEF TaskStep, Start, Abandon, CheckBeforeRead, ReadSource, Encode, Panic, Commit,
         StoreCancelled, FillSlot, Send, StoreAbandoned, sharedVars
      <4>2. slot'[i] = Completion(t, result[t]) /\ result' = result
        BY <1>2, <3>2, <4>1 DEF FillSlot
      <4> QED
        BY <1>2, <4>1, <4>2 DEF Completion
    <3> QED
      BY <3>1, <3>2
  <2> QED
    BY <1>1, <2>2, <2>3 DEF CauseInv, Recorded
<1>13. HasCause'
  <2> SUFFICES ASSUME Joining, pc # "dropping", cancelled'[cur], ~ userCancelled
               PROVE  \E i \in Ids : result'[<<cur, i>>] \notin {"Ok", "Cancelled"}
    BY <1>1 DEF HasCause, Joining
  <2>1. \A i \in Ids : <<cur, i>> \in Tasks
    BY DEF Joining, TInv, TypeOK, BatchTypes, Tasks
  <2>2. CASE cancelled[cur]
    <3>1. PICK i \in Ids : result[<<cur, i>>] \notin {"Ok", "Cancelled"}
      BY <2>2 DEF CauseInv, HasCause
    <3>2. tpc[<<cur, i>>] \notin Working \cup {"none"}
      BY <2>1, <3>1 DEF CauseInv, Results
    <3> QED
      BY <1>11, <3>1, <3>2
  <2>3. CASE ~ cancelled[cur]
    <3>a. cur \in Batches /\ cancelled' # cancelled
      BY <2>3 DEF Joining, TInv, TypeOK, BatchTypes
    <3>b. cancelled' = [cancelled EXCEPT ![t[1]] = TRUE] /\ tpc[t] \in {"fail", "abandoned"} /\ result' = result
      BY <1>6, <3>a
    <3>c. t[1] # cur => cancelled'[cur] = cancelled[cur]
      BY <1>2, <3>a, <3>b
    <3>1. t[1] = cur /\ tpc[t] \in {"fail", "abandoned"} /\ result' = result
      BY <2>3, <3>b, <3>c
    <3>2. result[t] \notin {"Ok", "Cancelled"}
      BY <2>3, <3>1 DEF CauseInv, Results
    <3> QED
      BY <1>2, <3>1, <3>2
  <2> QED
    BY <2>2, <2>3
<1>14. Settled'
  BY <1>1 DEF CauseInv, Settled, OriginatingError, Joining, Precedes
<1> QED
  BY <1>9, <1>10, <1>12, <1>13, <1>14 DEF CauseInv

(* Collecting a completion keeps the records and the cause. *)
LEMMA CollectCause ==
  ASSUME TInv, JoinInv, CauseInv, Joining, chan # <<>>,
         UNCHANGED <<cur, plan, tpc, result, userCancelled, last>>,
         pc' \notin {"idle", "prepare"}, pc' # "dropping" => pc # "dropping",
         Collect(Head(chan))
  PROVE  CauseInv'
<1> DEFINE id == Head(chan)
<1>1. id \in Ids /\ Acceptable(id) /\ Collect(id)
  BY HeadAcceptable
<1> HIDE DEF id
<1>2. /\ slot = [i \in Ids |-> slot[i]] /\ cancelled \in [Batches -> BOOLEAN]
      /\ cur \in Batches /\ <<cur, id>> \in Tasks
  BY <1>1 DEF TInv, TypeOK, SharedTypes, BatchTypes, Joining, Tasks
<1>3. slot[id] # None /\ slot[id].result = result[<<cur, id>>]
  BY <1>1 DEF Acceptable, CauseInv, Recorded
<1>4. failure = None /\ failure' = None
  <2>1. failure # None => id \in received
    <3>1. failure # None => received = 0 .. plan[cur].tasks - 1
      BY AllCollected DEF CauseInv, Settled
    <3>2. tpc[<<cur, id>>] # "none"
      BY <1>1 DEF JoinInv, AllPublished, Published, Acceptable
    <3>3. id < plan[cur].tasks /\ id \in Nat /\ plan[cur] \in Plans
      BY <1>1, <1>2, <3>2, BoundsAssumption DEF JoinInv, AllPublished, Published, Ids, TInv, TypeOK, BatchTypes
    <3>4. plan[cur].tasks \in Nat
      BY <3>3, BoundsAssumption DEF Plans
    <3> QED
      BY <3>1, <3>3, <3>4
  <2> QED
    BY <1>1, <2>1 DEF Acceptable, Collect
<1>5. cancelled' = cancelled \/ (cancelled' = [cancelled EXCEPT ![cur] = TRUE] /\ result[<<cur, id>>] # "Ok")
  BY <1>1, <1>3 DEF Collect
<1>6. FutureClean'
  <2>1. ~ Future(cur)' /\ \A b \in Batches : Future(b)' => Future(b)
    BY <1>2, BoundsAssumption DEF Future, Joining, Batches
  <2> QED
    BY <1>2, <1>5, <2>1 DEF CauseInv, FutureClean
<1>7. Results'
  <2>1. \A b \in Batches : cancelled[b] => cancelled'[b]
    BY <1>2, <1>5
  <2>2. \A x \in Tasks : x[1] \in Batches
    BY DEF Tasks
  <2> QED
    BY <2>1, <2>2 DEF CauseInv, Results
<1>8. Recorded'
  <2>1. ASSUME NEW i \in Ids, slot'[i] # None PROVE slot'[i].result = result[<<cur, i>>]
    BY <1>1, <1>2, <2>1 DEF Collect, CauseInv, Recorded
  <2>2. ASSUME NEW i \in Ids, i \in received', result[<<cur, i>>] # "Ok"
        PROVE  <<i, result[<<cur, i>>]>> \in failures'
    <3>1. CASE i = id
      BY <1>1, <1>3, <2>2, <3>1 DEF Collect
    <3>2. CASE i # id
      <4>1. <<i, result[<<cur, i>>]>> \in failures \cup {failure}
        BY <1>1, <2>2, <3>2 DEF Collect, CauseInv, Recorded
      <4>2. result[<<cur, i>>] \in Errors
        BY <1>2, <2>2 DEF TInv, TypeOK, TaskTypes, Tasks
      <4>3. <<i, result[<<cur, i>>]>> # None
        BY <4>2, NoneAssumption
      <4> QED
        BY <1>1, <1>4, <4>1, <4>3 DEF Collect
    <3> QED
      BY <3>1, <3>2
  <2>3. ASSUME NEW f \in failures' PROVE f[1] \in received' /\ f[2] = result[<<cur, f[1]>>]
    BY <1>1, <1>3, <2>3 DEF Collect, CauseInv, Recorded
  <2> QED
    BY <2>1, <2>2, <2>3 DEF Recorded
<1>9. HasCause'
  <2> SUFFICES ASSUME pc # "dropping", cancelled'[cur], ~ userCancelled
               PROVE  \E i \in Ids : result[<<cur, i>>] \notin {"Ok", "Cancelled"}
    BY DEF HasCause
  <2>1. CASE cancelled[cur]
    BY <2>1 DEF CauseInv, HasCause
  <2>2. CASE ~ cancelled[cur]
    <3>1. result[<<cur, id>>] # "Ok"
      BY <1>5, <2>2
    <3>2. result[<<cur, id>>] # "Cancelled"
      BY <1>2, <2>2 DEF CauseInv, Results
    <3> QED
      BY <1>1, <3>1, <3>2
  <2> QED
    BY <2>1, <2>2
<1>10. Settled'
  BY <1>4 DEF CauseInv, Settled, OriginatingError, Joining
<1> QED
  BY <1>6, <1>7, <1>8, <1>9, <1>10 DEF CauseInv

(* ready(): the failure it settles on is the cause. *)
LEMMA ReadyCause ==
  ASSUME TInv, JoinInv, CauseInv, Ready
  PROVE  CauseInv'
<1>1. /\ UNCHANGED <<cur, plan, tpc, result, userCancelled, received, completed, slot, cancelled>>
      /\ Joining /\ pc # "dropping" /\ Joining' /\ pc' \notin {"dropping", "idle", "prepare"}
      /\ completed >= plan[cur].tasks
  BY DEF Ready, Return, Joining, callRest, coordRest, taskVars, sharedVars
<1>2. received = 0 .. plan[cur].tasks - 1
  BY <1>1, AllCollected
<1>3. \A i \in Ids : <<cur, i>> \in Tasks
  BY <1>1 DEF Joining, TInv, TypeOK, BatchTypes, Tasks
<1>4. ASSUME NEW i \in Ids, result[<<cur, i>>] # "Ok" PROVE i \in received
  <2>1. tpc[<<cur, i>>] # "none"
    BY <1>3, <1>4 DEF CauseInv, Results
  <2>2. i < plan[cur].tasks /\ i \in Nat
    BY <1>1, <2>1, BoundsAssumption DEF JoinInv, AllPublished, Published, Ids
  <2>3. plan[cur].tasks \in Nat
    <3>1. plan[cur] \in Plans
      BY <1>1 DEF TInv, TypeOK, BatchTypes, Joining
    <3> QED
      BY <3>1, BoundsAssumption DEF Plans
  <2> QED
    BY <1>2, <2>2, <2>3
<1>5. ASSUME failure = None, cancelled[cur], ~ userCancelled
      PROVE  \E f \in failures : f[2] # "Cancelled"
  <2>1. PICK i \in Ids : result[<<cur, i>>] \notin {"Ok", "Cancelled"}
    BY <1>1, <1>5 DEF CauseInv, HasCause
  <2>2. <<i, result[<<cur, i>>]>> \in failures \cup {failure}
    BY <1>1, <1>4, <2>1 DEF CauseInv, Recorded
  <2>3. <<i, result[<<cur, i>>]>> # None
    <3>1. result[<<cur, i>>] \in Errors
      BY <1>3, <2>1 DEF TInv, TypeOK, TaskTypes
    <3> QED
      BY <3>1, NoneAssumption
  <2> QED
    BY <1>5, <2>1, <2>2, <2>3
<1>6. ASSUME NEW f \in failures, f[2] = "Cancelled" PROVE cancelled[cur]
  <2>1. f[1] \in Ids /\ result[<<cur, f[1]>>] = "Cancelled"
    BY <1>1, <1>6 DEF CauseInv, Recorded, TInv, TypeOK, JoinTypes
  <2> QED
    BY <1>3, <2>1 DEF CauseInv, Results
<1>7. failures \subseteq Ids \X Errors /\ None \notin failures
  BY NoneAssumption DEF TInv, TypeOK, JoinTypes
<1>8. CASE failure = None /\ failures # {}
  <2> DEFINE f == First(failures)
  <2>1. f \in failures /\ \A g \in failures : Precedes(f, g)
    BY <1>7, <1>8, FirstExists
  <2>2. failure' = f /\ failures' = failures \ {f} /\ last' = "BatchFailed"
    BY <1>7, <1>8, <2>1 DEF Ready, Return
  <2> HIDE DEF f
  <2>3. f[2] = "Cancelled" => userCancelled
    BY <1>5, <1>6, <1>8, <2>1 DEF Precedes
  <2>4. OriginatingError'
    <3>1. \A g \in failures' : Precedes(f, g)
      BY <2>1, <2>2
    <3>2. userCancelled' = userCancelled
      BY <1>1
    <3> QED
      BY <2>2, <2>3, <3>1, <3>2 DEF OriginatingError, Precedes
  <2>5. Settled'
    BY <1>1, <2>4 DEF Settled
  <2>6. Recorded'
    <3>1. ASSUME NEW i \in Ids, i \in received, result[<<cur, i>>] # "Ok"
          PROVE  <<i, result[<<cur, i>>]>> \in failures' \cup {failure'}
      <4>1. result[<<cur, i>>] \in Errors
        BY <1>3, <3>1 DEF TInv, TypeOK, TaskTypes
      <4>2. <<i, result[<<cur, i>>]>> # None
        BY <4>1, NoneAssumption
      <4>3. <<i, result[<<cur, i>>]>> \in failures
        BY <1>1, <1>8, <3>1, <4>2 DEF CauseInv, Recorded
      <4> QED
        BY <2>2, <4>3
    <3>2. \A i \in Ids : slot[i] # None => slot[i].result = result[<<cur, i>>]
      BY <1>1 DEF CauseInv, Recorded
    <3>3. \A g \in failures' : g[1] \in received /\ g[2] = result[<<cur, g[1]>>]
      BY <1>1, <2>2 DEF CauseInv, Recorded
    <3> QED
      BY <1>1, <3>1, <3>2, <3>3 DEF Recorded
  <2>7. FutureClean' /\ Results' /\ HasCause'
    BY <1>1 DEF CauseInv, FutureClean, Future, Results, HasCause, Joining
  <2> QED
    BY <2>5, <2>6, <2>7 DEF CauseInv
<1>9. CASE ~ (failure = None /\ failures # {})
  <2>1. UNCHANGED <<failure, failures>>
    BY <1>9 DEF Ready
  <2>2. last' = "Cancelled" => userCancelled
    <3>1. failure # None => last' = "BatchFailed"
      BY <2>1 DEF Ready, Return
    <3>2. failure = None /\ cancelled[cur] => userCancelled
      BY <1>5, <1>9
    <3>3. failure = None /\ ~ cancelled[cur] => last' \in {"Ready", last}
      BY <2>1 DEF Ready, Return
    <3> QED
      BY <3>1, <3>2, <3>3 DEF CauseInv, Settled, OriginatingError
  <2>3. Settled'
    BY <1>1, <2>1, <2>2 DEF CauseInv, Settled, OriginatingError, Precedes
  <2>4. Recorded' /\ FutureClean' /\ Results' /\ HasCause'
    BY <1>1, <2>1 DEF CauseInv, Recorded, FutureClean, Future, Results, HasCause, Joining
  <2> QED
    BY <2>3, <2>4 DEF CauseInv
<1> QED
  BY <1>8, <1>9

(* The steps inside a call keep the records and the cause. *)
LEMMA CallCauseStep ==
  ASSUME TInv, JoinInv, CauseInv, CoordinatorStep \/ TimeOut \/ ValidateFails \/ CopyFails, ~ Prepare
  PROVE  CauseInv'
<1>1. UNCHANGED <<cur, plan, tpc, result, userCancelled>>
  BY DEF CoordinatorStep, Receive, Pending, TimeOut, Ready, Validate, ValidateFails, CopyFragment,
         NextArtifact, CopyLast, CopyFails, Assembled, DropDrain, DropDone, callRest, coordRest, taskVars
<1>2. /\ pc \in {"drain", "recv", "validate", "assemble", "dropping"}
      /\ pc' \in {"idle", "open", "drain", "recv", "validate", "assemble", "drop", "dropping"}
      /\ pc' # "idle" => (pc = "dropping" <=> pc' = "dropping")
  BY DEF CoordinatorStep, Receive, Pending, TimeOut, Ready, Validate, ValidateFails, CopyFragment,
         NextArtifact, CopyLast, CopyFails, Assembled, DropDrain, DropDone, Return
<1>3. ASSUME UNCHANGED <<received, completed, failures, failure, slot, cancelled>>, pc' # "idle",
             last' # "Cancelled" \/ last' = last
      PROVE  CauseInv'
  <2>1. Joining /\ Joining'
    BY <1>2, <1>3 DEF Joining
  <2>2. FutureClean' /\ Results' /\ Recorded' /\ HasCause'
    BY <1>1, <1>2, <1>3, <2>1 DEF CauseInv, FutureClean, Future, Results, Recorded, HasCause
  <2>3. Settled'
    BY <1>1, <1>3, <2>1 DEF CauseInv, Settled, OriginatingError, Precedes
  <2> QED
    BY <2>2, <2>3 DEF CauseInv
<1>4. Joining
  BY <1>2 DEF Joining
<1>5. CASE Receive
  <2>1. CASE chan = <<>>
    <3>1. UNCHANGED <<received, completed, failures, failure, slot, cancelled>> /\ pc' # "idle" /\ last' = "FragmentInvariant"
      BY <1>5, <2>1 DEF Receive, joinVars, Return
    <3> QED
      BY <1>3, <3>1
  <2>2. CASE chan # <<>>
    <3>1. Acceptable(Head(chan))
      BY <1>4, <2>2, HeadAcceptable
    <3>2. Collect(Head(chan)) /\ pc' = "drain" /\ last' = last /\ pc # "dropping"
      BY <1>5, <2>2, <3>1 DEF Receive
    <3> QED
      BY <1>1, <1>4, <2>2, <3>2, CollectCause
  <2> QED
    BY <2>1, <2>2
<1>6. CASE Ready
  BY <1>6, ReadyCause
<1>7. CASE Pending \/ TimeOut \/ Validate \/ ValidateFails \/ CopyFragment \/ NextArtifact
           \/ CopyLast \/ CopyFails \/ Assembled
  <2>1. UNCHANGED <<received, completed, failures, failure, slot, cancelled>>
    BY <1>7 DEF Pending, TimeOut, Validate, ValidateFails, CopyFragment, NextArtifact, CopyLast,
       CopyFails, Assembled, poolVars, joinVars, sharedVars
  <2>2. pc' # "idle" /\ (last' # "Cancelled" \/ last' = last)
    BY <1>7 DEF Pending, TimeOut, Validate, ValidateFails, CopyFragment, NextArtifact, CopyLast,
       CopyFails, Assembled, Return
  <2> QED
    BY <1>3, <2>1, <2>2
<1>8. CASE DropDrain
  <2>1. chan # <<>> /\ Collect(Head(chan)) /\ UNCHANGED <<pc, last>> /\ pc = "dropping"
    BY <1>4, <1>8, HeadAcceptable DEF DropDrain
  <2> QED
    BY <1>1, <1>4, <2>1, CollectCause
<1>9. CASE DropDone
  <2>1. ~ Joining' /\ failure' = None /\ pc' = "idle" /\ UNCHANGED <<cancelled, last>>
    BY <1>9 DEF DropDone, Joining
  <2>2. FutureClean' /\ Results' /\ Recorded' /\ HasCause'
    BY <1>1, <2>1 DEF CauseInv, FutureClean, Future, Results, Recorded, HasCause
  <2>3. Settled'
    BY <1>1, <2>1 DEF CauseInv, Settled, OriginatingError
  <2> QED
    BY <2>2, <2>3 DEF CauseInv
<1> QED
  BY <1>5, <1>6, <1>7, <1>8, <1>9 DEF CoordinatorStep

(* So do the owner's steps outside a call, where a new batch starts clean. *)
LEMMA CallerCauseStep ==
  ASSUME TInv, JoinInv, CauseInv, CallerStep \/ Prepare \/ PrepareFails \/ ChangeSource
  PROVE  CauseInv'
<1>0. cancelled \in [Batches -> BOOLEAN] /\ cur \in Int /\ result = [t \in Tasks |-> result[t]]
  BY BoundsAssumption DEF TInv, TypeOK, SharedTypes, BatchTypes, TaskTypes
<1>1. CASE ChangeSource \/ (\E c \in Configs : Reconfigure(c))
           \/ (\E n \in 0 .. MaxRetain : ReconfigureParallel(n) \/ Trim(n))
  <2>1. UNCHANGED <<pc, cur, plan, tpc, result, userCancelled, received, completed, failures, failure, slot, cancelled, last>>
    BY <1>1 DEF ChangeSource, Reconfigure, ReconfigureParallel, Trim, idleRest,
       batchVars, joinVars, sharedVars, taskVars
  <2> QED
    BY <2>1 DEF CauseInv, FutureClean, Future, Results, Recorded, HasCause, Settled, Joining,
       OriginatingError, Precedes
<1>2. CASE PrepareLen \/ PrepareFails
  <2>1. /\ UNCHANGED <<tpc, result, userCancelled, failure, cancelled>>
        /\ pc' \in {"idle", "prepare"} /\ last' \in {last, "Staging"}
        /\ pc \in {"idle", "prepare"}
    BY <1>2 DEF PrepareLen, PrepareFails, joinVars, sharedVars, taskVars
  <2>2. failure = None /\ ~ Joining'
    BY <2>1 DEF CauseInv, Settled, Joining
  <2>3. \A b \in Batches : Future(b)' => Future(b)
    BY <1>0, <1>2, BoundsAssumption DEF PrepareLen, PrepareFails, Future, Batches, batchVars
  <2>4. FutureClean' /\ Results'
    BY <2>1, <2>3 DEF CauseInv, FutureClean, Results
  <2>5. Settled'
    BY <2>1, <2>2 DEF CauseInv, Settled, OriginatingError
  <2> QED
    BY <2>2, <2>4, <2>5 DEF CauseInv, Recorded, HasCause
<1>3. CASE Prepare
  <2>1. cur \in Batches /\ Future(cur)
    BY <1>3 DEF Prepare, Future, TInv, TypeOK, BatchTypes
  <2>2. /\ UNCHANGED <<cur, cancelled, result>> /\ pc' = "open"
        /\ received' = {} /\ failures' = {} /\ failure' = None /\ last' = "none"
        /\ \A i \in Ids : slot'[i] = None
    BY <1>3 DEF Prepare
  <2>3. \A b \in Batches : Future(b)' => Future(b)
    BY <2>2 DEF Future
  <2>4. FutureClean' /\ ~ cancelled[cur]
    BY <2>1, <2>2, <2>3 DEF CauseInv, FutureClean
  <2>5. \A t \in Tasks : tpc'[t] = tpc[t] \/ (tpc[t] = "none" /\ tpc'[t] = "held")
    BY <1>3, <2>1 DEF Prepare, JoinInv, FutureIdle
  <2>6. Results'
    BY <2>2, <2>5 DEF CauseInv, Results, Working
  <2>7. Recorded' /\ HasCause' /\ Settled'
    BY <2>2, <2>4 DEF Recorded, HasCause, Settled, OriginatingError, Joining
  <2> QED
    BY <2>4, <2>6, <2>7 DEF CauseInv
<1>4. CASE TakeTasks
  <2>1. UNCHANGED <<pc, cur, plan, result, userCancelled, received, completed, failures, failure, slot, cancelled, last>>
    BY <1>4 DEF TakeTasks, joinVars, sharedVars
  <2>2. \A t \in Tasks : tpc'[t] = tpc[t] \/ (tpc[t] = "held" /\ tpc'[t] = "queued")
    BY <1>4 DEF TakeTasks
  <2>3. Results'
    BY <2>1, <2>2 DEF CauseInv, Results, Working
  <2> QED
    BY <2>1, <2>3 DEF CauseInv, FutureClean, Future, Recorded, HasCause, Settled, Joining,
       OriginatingError, Precedes
<1>5. CASE Cancel
  <2>1. /\ UNCHANGED <<pc, cur, plan, tpc, result, received, completed, failures, failure, slot, last>>
        /\ cancelled' = [cancelled EXCEPT ![cur] = TRUE] /\ userCancelled' = TRUE /\ pc = "open"
    BY <1>5 DEF Cancel, batchVars, joinVars, taskVars
  <2>2. FutureClean'
    BY <1>0, <2>1 DEF CauseInv, FutureClean, Future
  <2>3. Results'
    BY <1>0, <2>1 DEF CauseInv, Results, Tasks
  <2>4. Recorded' /\ HasCause' /\ Settled'
    BY <2>1 DEF CauseInv, Recorded, HasCause, Settled, Joining, OriginatingError, Precedes
  <2> QED
    BY <2>2, <2>3, <2>4 DEF CauseInv
<1>6. CASE \E k \in Calls : Begin(k)
  <2>1. /\ UNCHANGED <<cur, plan, tpc, result, userCancelled, received, completed, failures, failure, slot, cancelled>>
        /\ pc = "open" /\ pc' \in {"open", "drop", "drain"} /\ last' \in {"none", "NotReady"}
    BY <1>6 DEF Begin, coordRest, poolVars, joinVars, sharedVars, taskVars
  <2> QED
    BY <2>1 DEF CauseInv, FutureClean, Future, Results, Recorded, HasCause, Settled, Joining,
       OriginatingError, Precedes
<1>7. CASE DropBatch
  <2>1. /\ UNCHANGED <<cur, plan, userCancelled, received, completed, failures, failure, last>>
        /\ cancelled' = [cancelled EXCEPT ![cur] = TRUE]
        /\ Joining /\ pc # "dropping" /\ pc' = "dropping"
    BY <1>7 DEF DropBatch, coordRest, joinVars, Joining
  <2>2. FutureClean'
    BY <1>0, <2>1 DEF CauseInv, FutureClean, Future, Joining
  <2>3. HasCause' /\ Settled'
    BY <2>1 DEF CauseInv, HasCause, Settled, Joining, OriginatingError, Precedes
  <2>4. \A b \in Batches : cancelled[b] => cancelled'[b]
    BY <1>0, <2>1
  <2>5. CASE taken
    <3>1. UNCHANGED <<slot, tpc, result>>
      BY <1>7, <2>5 DEF DropBatch, taskVars
    <3>2. Results' /\ Recorded'
      BY <2>1, <2>4, <3>1 DEF CauseInv, Results, Recorded, Joining, Tasks
    <3> QED
      BY <2>2, <2>3, <3>2 DEF CauseInv
  <2>6. CASE ~ taken
    <3> DEFINE n == plan[cur].tasks
    <3>1. \A i \in Ids : i \notin received /\ slot[i] = None
      BY <2>1, <2>6 DEF JoinInv, AllPublished, Published, Working
    <3>2. received = {} /\ failures = {}
      BY <2>1, <3>1 DEF CauseInv, Recorded, TInv, TypeOK, JoinTypes
    <3>3. \A t \in Tasks : /\ tpc'[t] = IF t[1] = cur /\ t[2] < n THEN "done" ELSE tpc[t]
                           /\ result'[t] = IF t[1] = cur /\ t[2] < n THEN "TaskAbandoned" ELSE result[t]
      BY <1>7, <2>6 DEF DropBatch
    <3>4. Results'
      BY <2>4, <3>3 DEF CauseInv, Results, Tasks, Working
    <3>5. \A i \in Ids : <<cur, i>> \in Tasks
      BY <2>1 DEF Joining, TInv, TypeOK, BatchTypes, Tasks
    <3>6. ASSUME NEW i \in Ids, slot'[i] # None PROVE slot'[i].result = result'[<<cur, i>>]
      <4>1. slot'[i] = IF i < n THEN Completion(<<cur, i>>, "TaskAbandoned") ELSE slot[i]
        BY <1>7, <2>6 DEF DropBatch
      <4>2. i < n
        BY <3>1, <3>6, <4>1
      <4> QED
        BY <3>3, <3>5, <4>1, <4>2 DEF Completion
    <3>7. Recorded'
      BY <2>1, <3>2, <3>6 DEF Recorded
    <3> QED
      BY <2>2, <2>3, <3>4, <3>7 DEF CauseInv
  <2> QED
    BY <2>5, <2>6
<1> QED
  BY <1>1, <1>2, <1>3, <1>4, <1>5, <1>6, <1>7 DEF CallerStep

(* Every step preserves the cause invariant. *)
LEMMA CauseStep == TInv /\ JoinInv /\ CauseInv /\ [Next]_vars => CauseInv'
<1> SUFFICES ASSUME TInv, JoinInv, CauseInv, [Next]_vars PROVE CauseInv'
  OBVIOUS
<1>1. CASE \E t \in Tasks : TaskStep(t)
  BY <1>1, TaskCauseStep
<1>2. CASE CoordinatorStep \/ FaultStep \/ CallerStep
  BY <1>2, CallCauseStep, CallerCauseStep DEF FaultStep
<1>3. CASE UNCHANGED vars
  BY <1>3 DEF vars, batchVars, joinVars, sharedVars, taskVars, CauseInv, FutureClean, Future,
     Results, Recorded, HasCause, Settled, Joining, OriginatingError, Precedes
<1> QED
  BY <1>1, <1>2, <1>3 DEF Next

(* Cancellation fallout never hides its cause: a batch reports a cancelled
   task, or Cancelled, only if its caller cancelled it, and otherwise the
   first failure that is not mere cancellation. *)
THEOREM ReportsTheCause == Spec => []OriginatingError
<1>1. CauseInv => OriginatingError
  BY DEF CauseInv, Settled
<1> QED
  BY <1>1, TypeInit, TypeStep, JoinInit, JoinStep, CauseInit, CauseStep, PTL DEF Spec

(* Once ready() has settled on a failure, every later call on the batch
   reports the same one, until the batch is gone. *)
THEOREM FailureSettledOnce == Spec => FailureIsStable
<1>1. ASSUME TInv, JoinInv, CauseInv, [Next]_vars
      PROVE  [failure # None /\ pc' # "idle" => failure' = failure]_vars
  <2> SUFFICES ASSUME Next, failure # None, pc' # "idle" PROVE failure' = failure
    BY <1>1
  <2>1. Joining
    BY <1>1 DEF CauseInv, Settled
  <2>2. CASE \E t \in Tasks : TaskStep(t)
    BY <2>2 DEF TaskStep, Start, Abandon, CheckBeforeRead, ReadSource, Encode, Panic, Commit,
       StoreCancelled, FillSlot, Send, StoreAbandoned, taskRest, joinVars
  <2>3. CASE CallerStep \/ FaultStep
    BY <2>3 DEF CallerStep, FaultStep, PrepareLen, TakeTasks, Cancel, DropBatch, Begin, Reconfigure,
       ReconfigureParallel, Trim, PrepareFails, TimeOut, ValidateFails, CopyFails, ChangeSource,
       idleRest, joinVars, poolVars
  <2>4. CASE CoordinatorStep
    BY <2>1, <2>4 DEF CoordinatorStep, Prepare, Receive, Pending, Ready, Validate, CopyFragment,
       NextArtifact, CopyLast, Assembled, DropDrain, DropDone, Collect, Joining, joinVars, poolVars
  <2> QED
    BY <2>2, <2>3, <2>4 DEF Next
<1> QED
  BY <1>1, TypeInit, TypeStep, JoinInit, JoinStep, CauseInit, CauseStep, PTL DEF Spec, FailureIsStable

-----------------------------------------------------------------------------
(* Workers. *)

(* What a task may hold, and give back with its completion. *)
Lendable == {None, Fresh}

(* A task of a batch that is not prepared yet owns nothing. *)
FutureEmpty ==
  \A t \in Tasks : Future(t[1]) => worker[t] = None /\ artifact[t] = <<>>

(* The workers a batch lent are of the current configuration, wherever the
   lent worker is: with its task, in its completion, or given back. *)
LentSound ==
  Joining => \A i \in Ids :
    /\ worker[<<cur, i>>] \in Lendable
    /\ slot[i] # None => slot[i].worker \in Lendable

Idle == \A k \in 1 .. Len(workers) : workers[k] = Fresh

Retained == pc \in {"idle", "prepare"} => Len(workers) <= maxRetained

WorkerInv == FutureEmpty /\ LentSound /\ Idle /\ Retained

(* No worker exists initially. *)
LEMMA WorkerInit == Init => WorkerInv
BY DEF Init, WorkerInv, FutureEmpty, LentSound, Idle, Retained, Joining

(* A task's step moves its worker out, with its completion or for good. *)
LEMMA TaskWorkerStep ==
  ASSUME TInv, JoinInv, WorkerInv, NEW t \in Tasks, TaskStep(t)
  PROVE  WorkerInv'
<1>1. UNCHANGED <<pc, cur, encoder, maxRetained, workers>>
  BY DEF TaskStep, Start, Abandon, CheckBeforeRead, ReadSource, Encode, Panic, Commit,
         StoreCancelled, FillSlot, Send, StoreAbandoned, taskRest, parentVars, batchVars
<1>2. /\ worker = [x \in Tasks |-> worker[x]] /\ artifact = [x \in Tasks |-> artifact[x]]
      /\ slot = [i \in Ids |-> slot[i]]
      /\ t[1] \in Batches /\ t[2] \in Ids /\ t = <<t[1], t[2]>>
  BY DEF TInv, TypeOK, TaskTypes, SharedTypes, Tasks
<1>3. /\ \A x \in Tasks : x # t => worker'[x] = worker[x] /\ artifact'[x] = artifact[x]
      /\ worker'[t] \in {worker[t], None}
  BY <1>2 DEF TaskStep, Start, Abandon, CheckBeforeRead, ReadSource, Encode, Panic, Commit,
         StoreCancelled, FillSlot, Send, StoreAbandoned
<1>4. ~ Future(t[1])
  BY DEF TaskStep, Start, Abandon, CheckBeforeRead, ReadSource, Encode, Panic, Commit,
         StoreCancelled, FillSlot, Send, StoreAbandoned, JoinInv, FutureIdle
<1>5. FutureEmpty'
  BY <1>1, <1>3, <1>4 DEF WorkerInv, FutureEmpty, Future
<1>6. slot' = slot \/ (t[1] = cur /\ slot' = [slot EXCEPT ![t[2]] = Completion(t, result[t])])
  BY DEF TaskStep, Start, Abandon, CheckBeforeRead, ReadSource, Encode, Panic, Commit,
         StoreCancelled, FillSlot, Send, StoreAbandoned, sharedVars
<1>7. LentSound'
  <2> SUFFICES ASSUME Joining, NEW i \in Ids
               PROVE  /\ worker'[<<cur, i>>] \in Lendable
                      /\ slot'[i] # None => slot'[i].worker \in Lendable
    BY <1>1 DEF LentSound, Joining, Lendable, Fresh
  <2>1. <<cur, i>> \in Tasks
    BY DEF Joining, TInv, TypeOK, BatchTypes, Tasks
  <2>2. worker[<<cur, i>>] \in Lendable /\ (slot[i] # None => slot[i].worker \in Lendable)
    BY DEF WorkerInv, LentSound
  <2>3. worker'[<<cur, i>>] \in Lendable
    BY <1>3, <2>1, <2>2 DEF Lendable
  <2>4. CASE slot'[i] = slot[i]
    BY <2>2, <2>3, <2>4
  <2>5. CASE slot'[i] # slot[i]
    <3>1. slot'[i] = Completion(t, result[t]) /\ t = <<cur, i>>
      BY <1>2, <1>6, <2>5
    <3> QED
      BY <2>2, <2>3, <3>1 DEF Completion
  <2> QED
    BY <2>4, <2>5
<1>8. Idle' /\ Retained'
  BY <1>1 DEF WorkerInv, Idle, Retained, Fresh
<1> QED
  BY <1>5, <1>7, <1>8 DEF WorkerInv

(* Collecting a completion gives a sound worker back. *)
LEMMA CollectWorker ==
  ASSUME TInv, JoinInv, WorkerInv, Joining, chan # <<>>,
         UNCHANGED <<cur, encoder, maxRetained, worker, artifact>>,
         pc' \notin {"idle", "prepare"}, Collect(Head(chan))
  PROVE  WorkerInv'
<1> DEFINE id == Head(chan)
<1>1. id \in Ids /\ Acceptable(id) /\ Collect(id)
  BY HeadAcceptable
<1> HIDE DEF id
<1>2. slot = [i \in Ids |-> slot[i]] /\ workers \in Seq(Workers) /\ Fresh \in Workers
  BY DEF TInv, TypeOK, SharedTypes, ParentTypes, Fresh, Workers
<1>3. slot[id].worker \in Lendable
  BY <1>1 DEF Acceptable, WorkerInv, LentSound
<1>4. Idle'
  <2>1. \A k \in 1 .. Len(workers) : workers[k] = Fresh
    BY DEF WorkerInv, Idle
  <2>2. workers' = workers \/ workers' = Append(workers, Fresh)
    BY <1>1, <1>3 DEF Collect, Lendable
  <2>3. Fresh' = Fresh
    BY DEF Fresh
  <2> QED
    BY <1>2, <2>1, <2>2, <2>3 DEF Idle
<1>5. \A i \in Ids : slot'[i] = IF i = id THEN None ELSE slot[i]
  BY <1>1, <1>2 DEF Collect
<1>6. LentSound'
  BY <1>5 DEF WorkerInv, LentSound, Lendable, Fresh
<1>7. FutureEmpty' /\ Retained'
  BY DEF WorkerInv, FutureEmpty, Future, Retained, Joining
<1> QED
  BY <1>4, <1>6, <1>7 DEF WorkerInv

(* What the reservoir keeps after a cut was in it, and is no more than n. *)
LEMMA TruncateIdle ==
  ASSUME workers \in Seq(Workers), Idle, NEW n \in Nat, workers' = Truncate(n), UNCHANGED encoder
  PROVE  Idle' /\ Len(workers') <= n
BY TruncateType DEF Idle, Fresh

(* Inside a call, and in the destructor, workers only come back or are
   trimmed to the retained count. *)
LEMMA CallWorkerStep ==
  ASSUME TInv, JoinInv, WorkerInv, CoordinatorStep \/ TimeOut \/ ValidateFails \/ CopyFails, ~ Prepare
  PROVE  WorkerInv'
<1>1. UNCHANGED <<cur, encoder, maxRetained, worker, artifact>>
  BY DEF CoordinatorStep, Receive, Pending, TimeOut, Ready, Validate, ValidateFails, CopyFragment,
         NextArtifact, CopyLast, CopyFails, Assembled, DropDrain, DropDone, callRest, coordRest, taskVars
<1>2. /\ pc \in {"drain", "recv", "validate", "assemble", "dropping"}
      /\ pc' # "prepare" /\ (pc' = "idle" => DropDone)
  BY DEF CoordinatorStep, Receive, Pending, TimeOut, Ready, Validate, ValidateFails, CopyFragment,
         NextArtifact, CopyLast, CopyFails, Assembled, DropDrain, DropDone, Return
<1>3. Joining /\ FutureEmpty' /\ maxRetained \in Nat /\ workers \in Seq(Workers) /\ Idle
  BY <1>1, <1>2 DEF Joining, WorkerInv, FutureEmpty, Future, TInv, TypeOK, ParentTypes
<1>4. ASSUME UNCHANGED <<slot, workers>>, ~ DropDone PROVE WorkerInv'
  BY <1>1, <1>2, <1>3, <1>4 DEF WorkerInv, LentSound, Joining, Lendable, Fresh, Idle, Retained
<1>5. CASE Receive
  <2>1. CASE chan = <<>>
    <3>1. UNCHANGED <<slot, workers>>
      BY <1>5, <2>1 DEF Receive
    <3>2. ~ DropDone
      BY <1>5 DEF Receive, DropDone
    <3> QED
      BY <1>4, <3>1, <3>2
  <2>2. CASE chan # <<>>
    BY <1>1, <1>2, <1>3, <1>5, <2>2, CollectWorker, HeadAcceptable DEF Receive
  <2> QED
    BY <2>1, <2>2
<1>6. CASE Pending \/ TimeOut \/ Ready \/ Validate \/ ValidateFails \/ CopyFragment \/ NextArtifact
           \/ CopyLast \/ CopyFails
  <2>1. UNCHANGED <<slot, workers>>
    BY <1>6 DEF Pending, TimeOut, Ready, Validate, ValidateFails, CopyFragment, NextArtifact,
       CopyLast, CopyFails, poolVars, sharedVars
  <2>2. ~ DropDone
    BY <1>6 DEF Pending, TimeOut, Ready, Validate, ValidateFails, CopyFragment, NextArtifact,
       CopyLast, CopyFails, DropDone
  <2> QED
    BY <1>4, <2>1, <2>2
<1>7. CASE Assembled \/ DropDone
  <2>1. Idle' /\ Len(workers') <= maxRetained'
    BY <1>1, <1>3, <1>7, TruncateIdle DEF Assembled, DropDone, Trimmed
  <2>2. LentSound'
    BY <1>1, <1>3, <1>7 DEF Assembled, DropDone, WorkerInv, LentSound, Lendable, Fresh, sharedVars
  <2> QED
    BY <1>3, <2>1, <2>2 DEF WorkerInv, Retained
<1>8. CASE DropDrain
  <2>1. chan # <<>> /\ Collect(Head(chan)) /\ pc' = "dropping"
    BY <1>3, <1>8, HeadAcceptable DEF DropDrain
  <2> QED
    BY <1>1, <1>3, <2>1, CollectWorker
<1> QED
  BY <1>5, <1>6, <1>7, <1>8 DEF CoordinatorStep

(* Outside a call the owner may change the configuration or trim the
   reservoir, which a live batch forbids; a new batch borrows sound workers,
   or builds them. *)
LEMMA CallerWorkerStep ==
  ASSUME TInv, JoinInv, WorkerInv, CallerStep \/ Prepare \/ PrepareFails \/ ChangeSource
  PROVE  WorkerInv'
<1>0. /\ workers \in Seq(Workers) /\ maxRetained \in Nat /\ cur \in Int
      /\ worker = [t \in Tasks |-> worker[t]] /\ slot = [i \in Ids |-> slot[i]]
  BY BoundsAssumption DEF TInv, TypeOK, ParentTypes, BatchTypes, TaskTypes, SharedTypes
<1>1. CASE ChangeSource \/ TakeTasks \/ Cancel \/ (\E k \in Calls : Begin(k)) \/ (DropBatch /\ taken)
  <2>1. UNCHANGED <<cur, encoder, maxRetained, workers, worker, artifact, slot>>
    BY <1>1 DEF ChangeSource, TakeTasks, Cancel, Begin, DropBatch, parentVars, batchVars, coordRest,
       poolVars, joinVars, sharedVars, taskVars
  <2>2. pc' = pc \/ (pc \in {"open", "drop"} /\ pc' \in {"open", "drop", "drain", "dropping"})
    BY <1>1 DEF ChangeSource, TakeTasks, Cancel, Begin, DropBatch
  <2>3. FutureEmpty' /\ LentSound'
    BY <2>1, <2>2 DEF WorkerInv, FutureEmpty, Future, LentSound, Joining, Lendable, Fresh
  <2>4. Idle' /\ Retained'
    BY <2>1, <2>2 DEF WorkerInv, Idle, Retained, Fresh
  <2> QED
    BY <2>3, <2>4 DEF WorkerInv
<1>2. CASE (\E c \in Configs : Reconfigure(c)) \/ (\E n \in 0 .. MaxRetain : ReconfigureParallel(n) \/ Trim(n))
  <2>1. UNCHANGED <<pc, cur, worker, artifact>> /\ pc = "idle"
    BY <1>2 DEF Reconfigure, ReconfigureParallel, Trim, idleRest, batchVars, taskVars
  <2>2. FutureEmpty' /\ LentSound'
    BY <2>1 DEF WorkerInv, FutureEmpty, Future, LentSound, Joining
  <2>3. CASE \E c \in Configs : Reconfigure(c)
    <3>1. Len(workers') = 0 /\ UNCHANGED maxRetained
      BY <2>3 DEF Reconfigure
    <3>2. Idle' /\ Retained'
      BY <1>0, <3>1 DEF Idle, Retained
    <3> QED
      BY <2>2, <3>2 DEF WorkerInv
  <2>4. CASE \E n \in 0 .. MaxRetain : ReconfigureParallel(n) \/ Trim(n)
    <3>1. PICK n \in 0 .. MaxRetain : ReconfigureParallel(n) \/ Trim(n)
      BY <2>4
    <3>2. n \in Nat /\ workers' = Truncate(n) /\ encoder' = encoder
      BY <3>1, BoundsAssumption DEF ReconfigureParallel, Trim
    <3>3. Idle' /\ Len(workers') <= n
      BY <1>0, <3>2, TruncateIdle DEF WorkerInv
    <3>4. maxRetained' = n \/ (maxRetained' = maxRetained /\ n < Len(Trimmed) /\ Len(Trimmed) <= maxRetained)
      BY <1>0, <3>1, TruncateType DEF ReconfigureParallel, Trim, Trimmed
    <3>5. Len(Trimmed) \in Nat /\ Len(workers') \in Nat
      BY <1>0, <3>2, TruncateType DEF Trimmed
    <3>6. Len(workers') <= maxRetained'
      BY <1>0, <3>2, <3>3, <3>4, <3>5
    <3> QED
      BY <2>2, <3>3, <3>6 DEF WorkerInv, Retained
  <2> QED
    BY <1>2, <2>3, <2>4
<1>3. CASE PrepareLen \/ PrepareFails
  <2>1. /\ UNCHANGED <<encoder, maxRetained, worker, artifact>> /\ pc \in {"idle", "prepare"}
        /\ pc' \in {"idle", "prepare"} /\ (workers' = workers \/ workers' = <<>>)
    BY <1>3 DEF PrepareLen, PrepareFails, parentVars, taskVars
  <2>2. \A b \in Batches : Future(b)' => Future(b)
    BY <1>0, <1>3, BoundsAssumption DEF PrepareLen, PrepareFails, Future, Batches, batchVars
  <2>3. FutureEmpty' /\ LentSound'
    BY <2>1, <2>2 DEF WorkerInv, FutureEmpty, LentSound, Joining, Tasks
  <2>4. Idle' /\ Retained'
    <3>1. CASE workers' = workers
      BY <2>1, <3>1 DEF WorkerInv, Idle, Retained, Fresh
    <3>2. CASE workers' = <<>>
      <4>1. Len(workers') = 0
        BY <3>2
      <4> QED
        BY <1>0, <2>1, <4>1 DEF Idle, Retained
    <3> QED
      BY <2>1, <3>1, <3>2
  <2> QED
    BY <2>3, <2>4 DEF WorkerInv
<1>4. CASE Prepare
  <2> DEFINE p == plan[cur]
             m == Len(workers) - Reused(p.tasks)
  <2>1. /\ cur \in Batches /\ p.tasks \in Nat /\ Future(cur)
        /\ UNCHANGED <<cur, encoder, maxRetained, artifact>> /\ pc' = "open"
        /\ \A i \in Ids : slot'[i] = None
    BY <1>4, BoundsAssumption DEF Prepare, Future, TInv, TypeOK, BatchTypes, Plans
  <2>2. m \in 0 .. Len(workers) /\ workers' = SubSeq(workers, 1, m)
    BY <1>0, <1>4, <2>1 DEF Prepare, Reused
  <2>3. \A k \in 1 .. Len(workers) : workers[k] = Fresh
    BY DEF WorkerInv, Idle
  <2>4. Idle'
    <3>1. Len(workers') = m /\ \A k \in 1 .. m : workers'[k] = workers[k]
      <4> HIDE DEF m
      <4>1. m \in Nat /\ m <= Len(workers) /\ Len(workers) \in Nat
        BY <1>0, <2>2
      <4>2. Len(SubSeq(workers, 1, m)) = m /\ \A k \in 1 .. m : SubSeq(workers, 1, m)[k] = workers[k]
        BY <1>0, <4>1
      <4> QED
        BY <2>2, <4>2
    <3>2. \A k \in 1 .. m : workers[k] = Fresh
      <4>1. \A k \in 1 .. m : k \in 1 .. Len(workers)
        BY <1>0, <2>2
      <4> QED
        BY <2>3, <4>1
    <3> HIDE DEF m
    <3>3. Fresh' = Fresh
      BY <2>1 DEF Fresh
    <3> QED
      BY <3>1, <3>2, <3>3 DEF Idle
  <2>5. FutureEmpty'
    <3>1. \A t \in Tasks : t[1] # cur => worker'[t] = worker[t]
      BY <1>4 DEF Prepare
    <3>2. ~ (cur > cur)
      BY <1>0
    <3> QED
      BY <2>1, <3>1, <3>2 DEF WorkerInv, FutureEmpty, Future
  <2>6. LentSound'
    <3> SUFFICES ASSUME NEW i \in Ids PROVE worker'[<<cur, i>>] \in Lendable
      BY <2>1 DEF LentSound, Lendable, Fresh
    <3>1. <<cur, i>> \in Tasks /\ i \in Nat
      BY <2>1, BoundsAssumption DEF Tasks, Ids
    <3>2. worker[<<cur, i>>] = None
      BY <2>1, <3>1 DEF WorkerInv, FutureEmpty
    <3>3. worker'[<<cur, i>>] = IF ~ (i < p.tasks) THEN worker[<<cur, i>>]
                                ELSE IF i < Len(workers) THEN workers[Len(workers) - i]
                                ELSE Fresh
      BY <1>4, <3>1 DEF Prepare
    <3>4. i < Len(workers) => Len(workers) - i \in 1 .. Len(workers)
      BY <1>0, <3>1
    <3> QED
      BY <2>3, <3>2, <3>3, <3>4 DEF Lendable
  <2> QED
    BY <2>1, <2>4, <2>5, <2>6 DEF WorkerInv, Retained
<1>5. CASE DropBatch /\ ~ taken
  <2> DEFINE n == plan[cur].tasks
  <2>1. /\ UNCHANGED <<cur, encoder, maxRetained, workers, artifact>> /\ pc' = "dropping" /\ Joining
    BY <1>5 DEF DropBatch, coordRest, Joining
  <2>2. /\ \A t \in Tasks : worker'[t] = IF t[1] = cur /\ t[2] < n THEN None ELSE worker[t]
        /\ \A i \in Ids : slot'[i] = IF i < n THEN Completion(<<cur, i>>, "TaskAbandoned") ELSE slot[i]
    BY <1>5 DEF DropBatch
  <2>3. \A i \in Ids : <<cur, i>> \in Tasks
    BY <2>1 DEF Joining, TInv, TypeOK, BatchTypes, Tasks
  <2>4. LentSound'
    <3> SUFFICES ASSUME NEW i \in Ids
                 PROVE  /\ worker'[<<cur, i>>] \in Lendable
                        /\ slot'[i] # None => slot'[i].worker \in Lendable
      BY <2>1 DEF LentSound, Lendable, Fresh
    <3>1. worker[<<cur, i>>] \in Lendable /\ (slot[i] # None => slot[i].worker \in Lendable)
      BY <2>1 DEF WorkerInv, LentSound
    <3>2. Completion(<<cur, i>>, "TaskAbandoned").worker = worker[<<cur, i>>]
      BY DEF Completion
    <3>3. worker'[<<cur, i>>] \in {None, worker[<<cur, i>>]}
      BY <2>2, <2>3
    <3>4. None \in Lendable
      BY DEF Lendable
    <3> QED
      BY <2>2, <3>1, <3>2, <3>3, <3>4
  <2>5. FutureEmpty' /\ Idle' /\ Retained'
    BY <2>1, <2>2 DEF WorkerInv, FutureEmpty, Future, Joining, Idle, Retained, Fresh
  <2> QED
    BY <2>4, <2>5 DEF WorkerInv
<1> QED
  BY <1>1, <1>2, <1>3, <1>4, <1>5 DEF CallerStep

(* Every step keeps the workers sound. *)
LEMMA WorkerStep == TInv /\ JoinInv /\ WorkerInv /\ [Next]_vars => WorkerInv'
<1> SUFFICES ASSUME TInv, JoinInv, WorkerInv, [Next]_vars PROVE WorkerInv'
  OBVIOUS
<1>1. CASE \E t \in Tasks : TaskStep(t)
  BY <1>1, TaskWorkerStep
<1>2. CASE CoordinatorStep \/ FaultStep \/ CallerStep
  BY <1>2, CallWorkerStep, CallerWorkerStep DEF FaultStep
<1>3. CASE UNCHANGED vars
  BY <1>3 DEF vars, parentVars, batchVars, sharedVars, taskVars, WorkerInv, FutureEmpty, Future,
     LentSound, Joining, Lendable, Fresh, Idle, Retained
<1> QED
  BY <1>1, <1>2, <1>3 DEF Next

-----------------------------------------------------------------------------
(* Artifacts. *)

PlansSound ==
  \A b \in Batches :
    /\ plan[b].tasks <= plan[b].segs
    /\ plan[b].tasks = 0 => plan[b].segs = 0

(* What task i of the batch is to encode: its segments, the versions of the
   source it can have read, the configuration and the kind of fragment. *)
Job(i) ==
  [first |-> FirstSegment(plan[cur].segs, plan[cur].tasks, i),
   count |-> TaskSegments(plan[cur].segs, plan[cur].tasks, i),
   from  |-> plan[cur].ident, upto |-> srcVer, cfg |-> encoder,
   kind  |-> IF plan[cur].serial THEN "stream" ELSE "part"]

(* s holds the first fragments of job j, and all of them. *)
PartOf(s, j) ==
  \A k \in 1 .. Len(s) :
    /\ s[k].seg = j.first + k - 1
    /\ s[k].ver \in j.from .. j.upto
    /\ s[k].cfg = j.cfg
    /\ s[k].kind = j.kind

WholeOf(s, j) == Len(s) = j.count /\ PartOf(s, j)

(* The source's version only grows, and a slice has one version. *)
VersionsSound ==
  /\ Joining => plan[cur].ident <= srcVer
  /\ policy = "Slice" => srcVer = 0

(* How far a task has got shows in its artifact. *)
Progress(i) ==
  /\ PartOf(artifact[<<cur, i>>], Job(i))
  /\ tpc[<<cur, i>>] \in {"held", "queued"} =>
       artifact[<<cur, i>>] = <<>> /\ seg[<<cur, i>>] = Job(i).first
  /\ tpc[<<cur, i>>] \in {"check", "read", "encode"} =>
       /\ seg[<<cur, i>>] = Job(i).first + Len(artifact[<<cur, i>>])
       /\ Len(artifact[<<cur, i>>]) < Job(i).count
  /\ tpc[<<cur, i>>] = "encode" => buffer[<<cur, i>>] \in Job(i).from .. Job(i).upto
  /\ tpc[<<cur, i>>] = "commit" \/ (tpc[<<cur, i>>] = "publish" /\ result[<<cur, i>>] = "Ok") =>
       Len(artifact[<<cur, i>>]) = Job(i).count

InProgress == Joining => \A i \in Ids : i < plan[cur].tasks => Progress(i)

(* A published or kept artifact is whole, and a task that succeeded left
   one. *)
ArtifactsKept ==
  Joining => \A i \in Ids :
    /\ slot[i] # None /\ slot[i].result = "Ok" => WholeOf(slot[i].artifact, Job(i))
    /\ artifacts[i] # None => WholeOf(artifacts[i], Job(i))
    /\ i \in received /\ result[<<cur, i>>] = "Ok" => artifacts[i] # None

(* Validation begins when every task was heard of and none failed. *)
ValidateClean ==
  pc = "validate" => completed >= plan[cur].tasks /\ failures = {} /\ failure = None

ArtifactInv ==
  /\ PlansSound /\ VersionsSound /\ InProgress /\ ArtifactsKept /\ ValidateClean
  /\ NoBrokenInvariant

(* The empty artifact is the beginning of every job, and a fragment of the
   job's next segment extends it. *)
LEMMA PartEmpty == \A j : PartOf(<<>>, j)
BY DEF PartOf

LEMMA PartAppend ==
  ASSUME NEW s \in Seq(Fragments), NEW f \in Fragments, NEW j, PartOf(s, j),
         f.seg = j.first + Len(s), f.ver \in j.from .. j.upto, f.cfg = j.cfg, f.kind = j.kind,
         j.first \in Nat
  PROVE  PartOf(Append(s, f), j) /\ Len(Append(s, f)) = Len(s) + 1
<1>1. /\ Len(Append(s, f)) = Len(s) + 1 /\ Len(s) \in Nat
      /\ \A k \in 1 .. Len(s) : Append(s, f)[k] = s[k]
      /\ Append(s, f)[Len(s) + 1] = f
  BY AppendProperties
<1>2. ASSUME NEW k \in 1 .. Len(s) + 1
      PROVE  /\ Append(s, f)[k].seg = j.first + k - 1
             /\ Append(s, f)[k].ver \in j.from .. j.upto
             /\ Append(s, f)[k].cfg = j.cfg
             /\ Append(s, f)[k].kind = j.kind
  <2>1. CASE k \in 1 .. Len(s)
    BY <1>1, <2>1 DEF PartOf
  <2>2. CASE k = Len(s) + 1
    BY <1>1, <2>2
  <2>3. k \in 1 .. Len(s) \/ k = Len(s) + 1
    <3>1. \A n \in Nat : k \in 1 .. n + 1 => k \in 1 .. n \/ k = n + 1
      OBVIOUS
    <3> QED
      BY <1>1, <3>1
  <2> QED
    BY <2>1, <2>2, <2>3
<1> QED
  BY <1>1, <1>2 DEF PartOf

(* The plan of a batch that joins its tasks, and the job of each of them. *)
LEMMA JobType ==
  ASSUME TInv, ArtifactInv, Joining
  PROVE  /\ cur \in Batches /\ plan[cur] \in Plans
         /\ plan[cur].tasks \in Nat /\ plan[cur].segs \in Nat /\ plan[cur].ident \in Nat
         /\ \A i \in Ids : i < plan[cur].tasks =>
              /\ <<cur, i>> \in Tasks
              /\ Job(i).first \in Nat /\ Job(i).count \in Nat \ {0}
<1>1. cur \in Batches /\ plan[cur] \in Plans
  BY DEF Joining, TInv, TypeOK, BatchTypes
<1>2. plan[cur].tasks \in Nat /\ plan[cur].segs \in Nat /\ plan[cur].ident \in Nat
  BY <1>1, BoundsAssumption DEF Plans
<1>3. ASSUME NEW i \in Ids, i < plan[cur].tasks
      PROVE  <<cur, i>> \in Tasks /\ Job(i).first \in Nat /\ Job(i).count \in Nat \ {0}
  <2>1. i \in 0 .. plan[cur].tasks - 1 /\ plan[cur].tasks \in Nat \ {0}
    BY <1>2, <1>3, BoundsAssumption DEF Ids
  <2>2. plan[cur].tasks <= plan[cur].segs
    BY <1>1 DEF ArtifactInv, PlansSound
  <2>3. /\ FirstSegment(plan[cur].segs, plan[cur].tasks, i) \in Nat
        /\ TaskSegments(plan[cur].segs, plan[cur].tasks, i) \in Nat
        /\ TaskSegments(plan[cur].segs, plan[cur].tasks, i) >= 1
    BY <1>2, <2>1, <2>2, TaskSegmentsType
  <2>4. <<cur, i>> \in Tasks
    BY <1>1, <1>3 DEF Tasks
  <2> QED
    BY <2>3, <2>4 DEF Job
<1> QED
  BY <1>1, <1>2, <1>3

(* Initially there is no batch. *)
LEMMA ArtifactInit == Init => ArtifactInv
<1> SUFFICES ASSUME Init PROVE ArtifactInv
  OBVIOUS
<1>1. PlansSound
  BY DEF Init, PlansSound, NoPlan
<1> QED
  BY <1>1 DEF Init, ArtifactInv, VersionsSound, InProgress, ArtifactsKept, ValidateClean,
     NoBrokenInvariant, Joining

(* A task's step: its artifact grows by the segment it encoded, from what it
   has read, with its worker. *)
LEMMA TaskProgress ==
  ASSUME TInv, JoinInv, CauseInv, WorkerInv, ArtifactInv, Joining,
         NEW i \in Ids, i < plan[cur].tasks, TaskStep(<<cur, i>>)
  PROVE  Progress(i)'
<1> DEFINE t == <<cur, i>>
<1>0. t \in Tasks /\ t[1] = cur /\ t[2] = i
  BY JobType
<1>1. UNCHANGED <<encoder, srcVer, cur, plan, pc>>
  BY DEF TaskStep, Start, Abandon, CheckBeforeRead, ReadSource, Encode, Panic, Commit,
         StoreCancelled, FillSlot, Send, StoreAbandoned, taskRest, parentVars, sourceVars, batchVars
<1>2. Job(i)' = Job(i) /\ Job(i).first \in Nat /\ Job(i).count \in Nat \ {0}
  BY <1>1, JobType DEF Job
<1>3. Progress(i) /\ VersionsSound
  BY DEF ArtifactInv, InProgress
<1>4. /\ tpc[t] \in {"none", "held", "queued", "check", "read", "encode", "commit", "fail",
                     "publish", "send", "abandoned", "done"}
      /\ artifact[t] \in Seq(Fragments) /\ seg[t] \in Nat
      /\ tpc = [x \in Tasks |-> tpc[x]] /\ seg = [x \in Tasks |-> seg[x]]
      /\ artifact = [x \in Tasks |-> artifact[x]] /\ buffer = [x \in Tasks |-> buffer[x]]
      /\ result = [x \in Tasks |-> result[x]]
      /\ Len(artifact[t]) \in Nat
  BY <1>0 DEF TInv, TypeOK, TaskTypes
<1> USE DEF Progress
<1>5. CASE Start(t)
  <2>1. tpc'[t] = "check" /\ UNCHANGED <<artifact, seg, buffer, result>> /\ tpc[t] = "queued"
    BY <1>0, <1>4, <1>5 DEF Start, Goto
  <2> HIDE DEF t
  <2>2. Len(artifact[t]) = 0
    BY <1>3, <2>1 DEF t
  <2> QED
    BY <1>1, <1>2, <1>3, <2>1, <2>2 DEF t
<1>6. CASE Encode(t)
  <2> DEFINE f == [seg |-> seg[t], ver |-> buffer[t], cfg |-> worker[t].cfg,
                   kind |-> IF plan[t[1]].serial THEN "stream" ELSE "part"]
  <2>1. tpc[t] = "encode" /\ UNCHANGED buffer
    BY <1>6 DEF Encode
  <2>2. CASE artifact' = artifact
    <3>1. tpc'[t] = "fail"
      <4>1. artifact'[t] = Append(artifact[t], f) \/ tpc'[t] = "fail"
        BY <1>0, <1>4, <1>6 DEF Encode, Fail, Goto
      <4>2. Len(Append(artifact[t], f)) = Len(artifact[t]) + 1
        <5> HIDE DEF f
        <5> QED
          BY <1>4
      <4> HIDE DEF f
      <4>3. artifact'[t] # Append(artifact[t], f)
        BY <1>4, <2>2, <4>2
      <4> QED
        BY <4>1, <4>3
    <3> QED
      BY <1>1, <1>2, <1>3, <2>2, <3>1
  <2>3. CASE artifact' # artifact
    <3>1. /\ artifact'[t] = Append(artifact[t], f)
          /\ IF seg[t] = LastSegment(t) THEN tpc'[t] = "commit" /\ seg' = seg
             ELSE tpc'[t] = "check" /\ seg'[t] = seg[t] + 1
      BY <1>0, <1>4, <1>6, <2>3 DEF Encode, Goto
    <3>2. worker[t] = Fresh
      <4>1. worker[t] \in Workers
        BY <1>0, <2>1 DEF TInv, HasWorker, Working
      <4>2. worker[t] \in {None, Fresh}
        BY DEF WorkerInv, LentSound, Lendable
      <4> QED
        BY <4>1, <4>2, NoneAssumption
    <3>3. f.seg = Job(i).first + Len(artifact[t]) /\ f.ver \in Job(i).from .. Job(i).upto
      BY <1>3, <2>1
    <3>4. f.cfg = Job(i).cfg /\ f.kind = Job(i).kind
      BY <1>0, <3>2 DEF Fresh, Job
    <3>5. f \in Fragments
      <4>1. worker[t].cfg \in Configs /\ buffer[t] \in Nat
        BY <1>0, <3>2 DEF Fresh, TInv, TypeOK, ParentTypes, TaskTypes
      <4> QED
        BY <1>4, <4>1 DEF Fragments
    <3> HIDE DEF f
    <3>6. PartOf(artifact'[t], Job(i)) /\ Len(artifact'[t]) = Len(artifact[t]) + 1
      BY <1>2, <1>3, <1>4, <3>1, <3>3, <3>4, <3>5, PartAppend
    <3>7. LastSegment(t) = Job(i).first + Job(i).count - 1
      BY <1>0 DEF LastSegment, Job
    <3>8. seg[t] = Job(i).first + Len(artifact[t]) /\ Len(artifact[t]) < Job(i).count
      BY <1>3, <2>1
    <3> HIDE DEF t
    <3>9. CASE seg[t] = LastSegment(t)
      <4>1. Len(artifact'[t]) = Job(i).count /\ tpc'[t] = "commit"
        BY <1>2, <1>4, <3>1, <3>6, <3>7, <3>8, <3>9
      <4> QED
        BY <1>1, <1>2, <3>6, <4>1 DEF t
    <3>10. CASE seg[t] # LastSegment(t)
      <4>1. tpc'[t] = "check" /\ seg'[t] = seg[t] + 1
        BY <3>1, <3>10
      <4>2. \A a, c, l \in Int : l < c /\ a + l # a + c - 1 => a + l + 1 = a + (l + 1) /\ l + 1 < c
        OBVIOUS
      <4>3. Job(i).first \in Int /\ Job(i).count \in Int /\ Len(artifact[t]) \in Int
        BY <1>2, <1>4
      <4>4. seg'[t] = Job(i).first + Len(artifact'[t]) /\ Len(artifact'[t]) < Job(i).count
        BY <3>6, <3>7, <3>8, <3>10, <4>1, <4>2, <4>3
      <4> QED
        BY <1>1, <1>2, <3>6, <4>1, <4>4 DEF t
    <3> QED
      BY <3>9, <3>10
  <2> QED
    BY <2>2, <2>3
<1>7. CASE ReadSource(t)
  <2>1. /\ tpc[t] = "read" /\ UNCHANGED <<artifact, seg>>
        /\ tpc'[t] = "fail" \/ (tpc'[t] = "encode" /\ buffer'[t] = srcVer)
    BY <1>0, <1>4, <1>7 DEF ReadSource, Goto, Fail
  <2>2. srcVer \in Job(i).from .. Job(i).upto
    BY <1>3, JobType DEF VersionsSound, Job, TInv, TypeOK, ParentTypes
  <2> QED
    BY <1>1, <1>2, <1>3, <2>1, <2>2
<1>8. CASE CheckBeforeRead(t) \/ Commit(t)
  <2>1. /\ UNCHANGED <<artifact, seg, buffer>>
        /\ \/ tpc'[t] = "fail"
           \/ tpc[t] = "check" /\ tpc'[t] = "read"
           \/ tpc[t] = "commit" /\ tpc'[t] = "publish"
    BY <1>0, <1>4, <1>8 DEF CheckBeforeRead, Commit, Goto, Fail
  <2> QED
    BY <1>1, <1>2, <1>3, <2>1
<1>9. CASE Abandon(t) \/ Panic(t) \/ StoreCancelled(t)
  <2>1. /\ UNCHANGED <<artifact, seg, buffer>>
        /\ tpc'[t] = "fail" \/ (tpc'[t] = "publish" /\ result'[t] # "Ok")
    BY <1>0, <1>4, <1>9 DEF Abandon, Panic, StoreCancelled, Goto, Fail, CauseInv, Results
  <2> QED
    BY <1>1, <1>2, <1>3, <2>1
<1>10. CASE FillSlot(t) \/ Send(t) \/ StoreAbandoned(t)
  <2>1. /\ tpc'[t] \in {"send", "abandoned", "done"}
        /\ artifact'[t] = artifact[t] \/ artifact'[t] = <<>>
    BY <1>0, <1>4, <1>10 DEF FillSlot, Send, StoreAbandoned, Goto
  <2> QED
    BY <1>1, <1>2, <1>3, <2>1, PartEmpty
<1> QED
  BY <1>5, <1>6, <1>7, <1>8, <1>9, <1>10 DEF TaskStep

(* A task's step keeps the artifacts: only its own grows, and only the one
   it publishes reaches its slot. *)
LEMMA TaskArtifactStep ==
  ASSUME TInv, JoinInv, CauseInv, WorkerInv, ArtifactInv, NEW t \in Tasks, TaskStep(t)
  PROVE  ArtifactInv'
<1>1. UNCHANGED <<encoder, policy, srcVer, cur, plan, pc, received, completed, artifacts, failures, failure, last>>
  BY DEF TaskStep, Start, Abandon, CheckBeforeRead, ReadSource, Encode, Panic, Commit,
         StoreCancelled, FillSlot, Send, StoreAbandoned, taskRest, parentVars, sourceVars, batchVars, joinVars
<1>2. /\ tpc = [x \in Tasks |-> tpc[x]] /\ seg = [x \in Tasks |-> seg[x]]
      /\ artifact = [x \in Tasks |-> artifact[x]] /\ buffer = [x \in Tasks |-> buffer[x]]
      /\ result = [x \in Tasks |-> result[x]] /\ slot = [i \in Ids |-> slot[i]]
      /\ t[1] \in Batches /\ t[2] \in Ids /\ t = <<t[1], t[2]>>
  BY DEF TInv, TypeOK, TaskTypes, SharedTypes, Tasks
<1>3. \A x \in Tasks : x # t =>
        /\ tpc'[x] = tpc[x] /\ seg'[x] = seg[x] /\ artifact'[x] = artifact[x]
        /\ buffer'[x] = buffer[x] /\ result'[x] = result[x]
  BY <1>2 DEF TaskStep, Start, Abandon, CheckBeforeRead, ReadSource, Encode, Panic, Commit,
         StoreCancelled, FillSlot, Send, StoreAbandoned, Goto, Fail
<1>4. PlansSound' /\ VersionsSound' /\ ValidateClean' /\ NoBrokenInvariant'
  BY <1>1 DEF ArtifactInv, PlansSound, VersionsSound, ValidateClean, NoBrokenInvariant, Joining
<1>5. Joining' <=> Joining
  BY <1>1 DEF Joining
<1>6. \A i \in Ids : Job(i)' = Job(i)
  BY <1>1 DEF Job
<1>7. InProgress'
  <2> SUFFICES ASSUME Joining, NEW i \in Ids, i < plan[cur].tasks PROVE Progress(i)'
    BY <1>1, <1>5 DEF InProgress
  <2>1. CASE t = <<cur, i>>
    BY <2>1, TaskProgress
  <2>2. CASE t # <<cur, i>>
    <3>1. <<cur, i>> \in Tasks
      BY JobType
    <3>2. Progress(i)
      BY DEF ArtifactInv, InProgress
    <3> QED
      BY <1>1, <1>3, <1>6, <2>2, <3>1, <3>2 DEF Progress
  <2> QED
    BY <2>1, <2>2
<1>8. ArtifactsKept'
  <2> SUFFICES ASSUME Joining, NEW i \in Ids
               PROVE  /\ slot'[i] # None /\ slot'[i].result = "Ok" => WholeOf(slot'[i].artifact, Job(i))
                      /\ artifacts[i] # None => WholeOf(artifacts[i], Job(i))
                      /\ i \in received /\ result'[<<cur, i>>] = "Ok" => artifacts[i] # None
    BY <1>1, <1>5, <1>6 DEF ArtifactsKept
  <2>1. /\ slot[i] # None /\ slot[i].result = "Ok" => WholeOf(slot[i].artifact, Job(i))
        /\ artifacts[i] # None => WholeOf(artifacts[i], Job(i))
        /\ i \in received /\ result[<<cur, i>>] = "Ok" => artifacts[i] # None
    BY DEF ArtifactInv, ArtifactsKept
  <2>2. <<cur, i>> \in Tasks
    BY DEF Joining, TInv, TypeOK, BatchTypes, Tasks
  <2>3. ASSUME i \in received PROVE result'[<<cur, i>>] = result[<<cur, i>>]
    <3>1. tpc[<<cur, i>>] \notin Working \cup {"none", "fail", "publish"}
      BY <2>3 DEF JoinInv, AllPublished, Published
    <3>2. tpc[t] \notin Working \cup {"none", "fail", "publish"} => result' = result
      BY DEF TaskStep, Start, Abandon, CheckBeforeRead, ReadSource, Encode, Panic, Commit,
         StoreCancelled, FillSlot, Send, StoreAbandoned, Working
    <3> QED
      BY <1>3, <2>2, <3>1, <3>2
  <2>4. ASSUME slot'[i] # slot[i], slot'[i].result = "Ok" PROVE WholeOf(slot'[i].artifact, Job(i))
    <3>1. FillSlot(t) /\ slot' = [slot EXCEPT ![t[2]] = Completion(t, result[t])] /\ t[1] = cur
      BY <2>4 DEF TaskStep, Start, Abandon, CheckBeforeRead, ReadSource, Encode, Panic, Commit,
         StoreCancelled, FillSlot, Send, StoreAbandoned, sharedVars
    <3>2. slot'[i] = Completion(t, result[t]) /\ t = <<cur, i>>
      BY <1>2, <2>4, <3>1
    <3>3. tpc[t] = "publish" /\ result[t] = "Ok" /\ slot'[i].artifact = artifact[t]
      BY <2>4, <3>1, <3>2 DEF FillSlot, Completion
    <3>4. i < plan[cur].tasks
      BY <3>2, <3>3 DEF JoinInv, AllPublished, Published
    <3>5. Progress(i)
      BY <3>4 DEF ArtifactInv, InProgress
    <3> QED
      BY <3>2, <3>3, <3>5 DEF Progress, WholeOf
  <2> QED
    BY <2>1, <2>3, <2>4
<1> QED
  BY <1>4, <1>7, <1>8 DEF ArtifactInv

(* Collecting a completion keeps the artifact of a task that succeeded. *)
LEMMA CollectArtifact ==
  ASSUME TInv, JoinInv, CauseInv, ArtifactInv, Joining, chan # <<>>,
         UNCHANGED <<encoder, policy, srcVer, cur, plan, taskVars, last>>,
         pc' \notin {"idle", "prepare", "validate"}, Collect(Head(chan))
  PROVE  ArtifactInv'
<1> DEFINE id == Head(chan)
<1>1. id \in Ids /\ Acceptable(id) /\ Collect(id)
  BY HeadAcceptable
<1> HIDE DEF id
<1>2. slot = [i \in Ids |-> slot[i]] /\ artifacts = [i \in Ids |-> artifacts[i]]
  BY DEF TInv, TypeOK, SharedTypes, JoinTypes
<1>3. slot[id] # None /\ slot[id].result = result[<<cur, id>>]
  BY <1>1 DEF Acceptable, CauseInv, Recorded
<1>4. PlansSound' /\ VersionsSound' /\ ValidateClean' /\ NoBrokenInvariant'
  BY DEF ArtifactInv, PlansSound, VersionsSound, ValidateClean, NoBrokenInvariant, Joining
<1>5. \A i \in Ids : Job(i)' = Job(i)
  BY DEF Job
<1>6. InProgress'
  <2>1. \A i \in Ids : Progress(i) => Progress(i)'
    BY <1>5 DEF Progress, taskVars
  <2> QED
    BY <2>1 DEF ArtifactInv, InProgress
<1>7. ArtifactsKept'
  <2> SUFFICES ASSUME NEW i \in Ids
               PROVE  /\ slot'[i] # None /\ slot'[i].result = "Ok" => WholeOf(slot'[i].artifact, Job(i))
                      /\ artifacts'[i] # None => WholeOf(artifacts'[i], Job(i))
                      /\ i \in received' /\ result[<<cur, i>>] = "Ok" => artifacts'[i] # None
    BY <1>5 DEF ArtifactsKept, taskVars
  <2>1. /\ slot[i] # None /\ slot[i].result = "Ok" => WholeOf(slot[i].artifact, Job(i))
        /\ artifacts[i] # None => WholeOf(artifacts[i], Job(i))
        /\ i \in received /\ result[<<cur, i>>] = "Ok" => artifacts[i] # None
    BY DEF ArtifactInv, ArtifactsKept
  <2>2. CASE i # id
    <3>1. slot'[i] = slot[i] /\ artifacts'[i] = artifacts[i] /\ (i \in received' <=> i \in received)
      BY <1>1, <1>2, <2>2 DEF Collect
    <3> QED
      BY <2>1, <3>1
  <2>3. CASE i = id
    <3>1. slot'[i] = None
      BY <1>1, <1>2, <2>3 DEF Collect
    <3>2. CASE slot[id].result = "Ok"
      <4>1. artifacts'[i] = slot[i].artifact
        BY <1>1, <1>2, <2>3, <3>2 DEF Collect
      <4>2. slot[i].artifact # None
        <5>1. slot[i] \in Completions
          BY <1>3, <2>3 DEF TInv, TypeOK, SharedTypes
        <5> QED
          BY <5>1, NoneAssumption DEF Completions
      <4> QED
        BY <1>3, <2>1, <2>3, <3>1, <3>2, <4>1, <4>2
    <3>3. CASE slot[id].result # "Ok"
      <4>1. artifacts' = artifacts
        BY <1>1, <3>3 DEF Collect
      <4> QED
        BY <1>3, <2>1, <2>3, <3>1, <3>3, <4>1
    <3> QED
      BY <3>2, <3>3
  <2> QED
    BY <2>2, <2>3
<1> QED
  BY <1>4, <1>6, <1>7 DEF ArtifactInv

(* While completions are outstanding some task has not sent its id: the
   channel cannot be closed and empty. *)
LEMMA ChannelOpen ==
  ASSUME TInv, JoinInv, Joining, chan = <<>>, completed < plan[cur].tasks
  PROVE  ~ SendersGone
<1> SUFFICES ASSUME SendersGone PROVE FALSE
  OBVIOUS
<1>1. plan[cur].tasks \in Nat /\ plan[cur].tasks <= MaxTasks
  <2>1. plan[cur] \in Plans
    BY DEF Joining, TInv, TypeOK, BatchTypes
  <2> QED
    BY <2>1, BoundsAssumption DEF Plans
<1>2. \A i : ~ Occurs(chan, i)
  BY DEF Occurs
<1>3. 0 .. plan[cur].tasks - 1 \subseteq received
  <2> SUFFICES ASSUME NEW i \in 0 .. plan[cur].tasks - 1 PROVE i \in received
    OBVIOUS
  <2>1. i \in Ids
    BY <1>1, BoundsAssumption DEF Ids
  <2>2. tpc[<<cur, i>>] \in {"abandoned", "done"} /\ Published(i)
    BY <2>1 DEF SendersGone, JoinInv, AllPublished
  <2> QED
    BY <1>2, <2>2 DEF Published
<1>4. Cardinality(0 .. plan[cur].tasks - 1) <= Cardinality(received)
  BY <1>3, ReceivedFinite, FS_Subset DEF TInv
<1>5. Cardinality(0 .. plan[cur].tasks - 1) = plan[cur].tasks
  BY <1>1, Interval
<1>6. Cardinality(received) \in Nat /\ completed = Cardinality(received)
  BY ReceivedFinite, FS_CardinalityType DEF TInv, JoinInv, Counted
<1> QED
  BY <1>1, <1>4, <1>5, <1>6

(* What validation finds is what the plan asked for. *)
LEMMA ArtifactsMatch ==
  ASSUME TInv, JoinInv, CauseInv, ArtifactInv, pc = "validate"
  PROVE  DescriptorsMatch
<1>1. Joining /\ received = 0 .. plan[cur].tasks - 1 /\ failures = {} /\ failure = None
  BY AllCollected DEF Joining, ArtifactInv, ValidateClean
<1>2. plan[cur].tasks \in Nat /\ plan[cur].tasks <= MaxTasks
  <2>1. plan[cur] \in Plans
    BY <1>1, JobType
  <2> QED
    BY <2>1, BoundsAssumption DEF Plans
<1> SUFFICES ASSUME NEW i \in 0 .. plan[cur].tasks - 1
             PROVE  /\ artifacts[i] # None
                    /\ WholeOf(artifacts[i], Job(i))
  BY DEF DescriptorsMatch, WholeOf, PartOf, Job
<1>3. i \in Ids /\ i < plan[cur].tasks /\ i \in received
  BY <1>1, <1>2, BoundsAssumption DEF Ids
<1>4. result[<<cur, i>>] \in Errors \cup {"Ok"}
  BY <1>1, <1>3, JobType DEF TInv, TypeOK, TaskTypes
<1>5. result[<<cur, i>>] = "Ok"
  <2> SUFFICES ASSUME result[<<cur, i>>] # "Ok" PROVE FALSE
    BY <1>4
  <2>1. <<i, result[<<cur, i>>]>> \in {} \cup {None}
    BY <1>1, <1>3 DEF CauseInv, Recorded
  <2>2. <<i, result[<<cur, i>>]>> \in Ids \X Errors
    BY <1>3, <1>4
  <2> QED
    BY <2>1, <2>2, NoneAssumption
<1> QED
  BY <1>1, <1>3, <1>5 DEF ArtifactInv, ArtifactsKept

(* The steps inside a call keep the artifacts, and never find the batch's
   bookkeeping broken. *)
LEMMA CallArtifactStep ==
  ASSUME TInv, JoinInv, CauseInv, ArtifactInv,
         CoordinatorStep \/ TimeOut \/ ValidateFails \/ CopyFails, ~ Prepare
  PROVE  ArtifactInv'
<1>1. UNCHANGED <<encoder, policy, srcVer, cur, plan, taskVars>>
  BY DEF CoordinatorStep, Receive, Pending, TimeOut, Ready, Validate, ValidateFails, CopyFragment,
         NextArtifact, CopyLast, CopyFails, Assembled, DropDrain, DropDone, callRest, coordRest, sourceVars
<1>2. /\ pc \in {"drain", "recv", "validate", "assemble", "dropping"}
      /\ pc' \in {"idle", "open", "drain", "recv", "validate", "assemble", "drop", "dropping"}
      /\ pc' = "validate" => Ready
  BY DEF CoordinatorStep, Receive, Pending, TimeOut, Ready, Validate, ValidateFails, CopyFragment,
         NextArtifact, CopyLast, CopyFails, Assembled, DropDrain, DropDone, Return
<1>3. Joining /\ PlansSound' /\ VersionsSound'
  BY <1>1, <1>2 DEF Joining, ArtifactInv, PlansSound, VersionsSound
<1>4. \A i \in Ids : Job(i)' = Job(i)
  BY <1>1 DEF Job
<1>5. InProgress'
  <2>1. \A i \in Ids : Progress(i) => Progress(i)'
    BY <1>1, <1>4 DEF Progress, taskVars
  <2> QED
    BY <1>1, <1>3, <2>1 DEF ArtifactInv, InProgress
<1>6. ASSUME UNCHANGED <<received, artifacts, slot>>, ValidateClean', last' # "FragmentInvariant"
      PROVE  ArtifactInv'
  <2>1. ArtifactsKept'
    BY <1>1, <1>3, <1>4, <1>6 DEF ArtifactInv, ArtifactsKept, taskVars
  <2> QED
    BY <1>3, <1>5, <1>6, <2>1 DEF ArtifactInv, NoBrokenInvariant
<1>7. last # "FragmentInvariant"
  BY DEF ArtifactInv, NoBrokenInvariant
<1>8. CASE Receive
  <2>1. chan # <<>>
    <3> SUFFICES ASSUME chan = <<>> PROVE FALSE
      OBVIOUS
    <3>1. pc = "recv" /\ SendersGone
      BY <1>8 DEF Receive
    <3> QED
      BY <1>3, <3>1, ChannelOpen DEF JoinInv, RecvWaits
  <2>2. Acceptable(Head(chan))
    BY <1>3, <2>1, HeadAcceptable
  <2>3. Collect(Head(chan)) /\ pc' = "drain" /\ last' = last
    BY <1>8, <2>1, <2>2 DEF Receive
  <2> QED
    BY <1>1, <1>3, <2>1, <2>3, CollectArtifact
<1>9. CASE Pending
  <2>1. ~ SendersGone
    BY <1>3, <1>9, ChannelOpen DEF Pending
  <2>2. UNCHANGED <<received, artifacts, slot>> /\ last' # "FragmentInvariant"
    BY <1>7, <1>9, <2>1 DEF Pending, Return, poolVars, joinVars, sharedVars
  <2>3. ValidateClean'
    BY <1>2, <1>9 DEF Pending, Ready, Return, ValidateClean
  <2> QED
    BY <1>6, <2>2, <2>3
<1>10. CASE Ready
  <2>1. UNCHANGED <<received, artifacts, slot>> /\ last' # "FragmentInvariant"
    BY <1>7, <1>10 DEF Ready, Return, sharedVars
  <2>2. ASSUME pc' = "validate" PROVE completed' >= plan'[cur'].tasks /\ failures' = {} /\ failure' = None
    <3>1. failure' = None
      BY <1>10, <2>2 DEF Ready, Return
    <3>2. ~ (failure = None /\ failures # {})
      <4> SUFFICES ASSUME failure = None, failures # {} PROVE FALSE
        OBVIOUS
      <4>1. failure' = First(failures)
        BY <1>10 DEF Ready
      <4>2. failures \in SUBSET (Ids \X Errors)
        BY DEF TInv, TypeOK, JoinTypes
      <4>3. First(failures) \in Ids \X Errors
        BY <4>2, FirstExists
      <4> QED
        BY <3>1, <4>1, <4>3, NoneAssumption
    <3>3. failure' = failure /\ failures' = failures
      BY <1>10, <3>2 DEF Ready
    <3> QED
      BY <1>1, <1>10, <3>1, <3>2, <3>3 DEF Ready
  <2> QED
    BY <1>6, <2>1, <2>2 DEF ValidateClean
<1>11. CASE Validate
  <2>1. DescriptorsMatch
    BY <1>11, ArtifactsMatch DEF Validate
  <2>2. UNCHANGED <<received, artifacts, slot>> /\ last' # "FragmentInvariant" /\ pc' # "validate"
    BY <1>7, <1>11, <2>1 DEF Validate, Return, poolVars, joinVars, sharedVars
  <2> QED
    BY <1>6, <2>2 DEF ValidateClean
<1>12. CASE TimeOut \/ ValidateFails \/ CopyFragment \/ NextArtifact \/ CopyLast \/ CopyFails \/ Assembled
  <2>1. /\ UNCHANGED <<received, artifacts, slot>> /\ last' # "FragmentInvariant"
        /\ pc' # "validate"
    BY <1>7, <1>12 DEF TimeOut, ValidateFails, CopyFragment, NextArtifact, CopyLast, CopyFails,
       Assembled, Return, poolVars, joinVars, sharedVars
  <2> QED
    BY <1>6, <2>1 DEF ValidateClean
<1>13. CASE DropDrain
  <2>1. chan # <<>> /\ Collect(Head(chan)) /\ pc' = "dropping" /\ last' = last
    BY <1>3, <1>13, HeadAcceptable DEF DropDrain
  <2> QED
    BY <1>1, <1>3, <2>1, CollectArtifact
<1>14. CASE DropDone
  <2>1. ~ Joining' /\ last' = last /\ pc' = "idle"
    BY <1>14 DEF DropDone, Joining
  <2> QED
    BY <1>3, <1>5, <1>7, <2>1 DEF ArtifactInv, ArtifactsKept, ValidateClean, NoBrokenInvariant
<1> QED
  BY <1>8, <1>9, <1>10, <1>11, <1>12, <1>13, <1>14 DEF CoordinatorStep

(* Outside a call: a changed source only adds versions that tasks may read,
   and a new batch starts with empty artifacts at its first segments. *)
LEMMA CallerArtifactStep ==
  ASSUME TInv, JoinInv, CauseInv, ArtifactInv, WorkerInv,
         CallerStep \/ Prepare \/ PrepareFails \/ ChangeSource
  PROVE  ArtifactInv'
<1>0. last # "FragmentInvariant" /\ srcVer \in Nat /\ cur \in Int
  BY BoundsAssumption DEF ArtifactInv, NoBrokenInvariant, TInv, TypeOK, ParentTypes, BatchTypes
<1>1. CASE ChangeSource
  <2>1. /\ UNCHANGED <<encoder, policy, cur, plan, pc, received, completed, artifacts, failures, failure, slot, last>>
        /\ UNCHANGED <<tpc, seg, artifact, buffer, result>>
        /\ policy # "Slice" /\ srcVer' = srcVer + 1
    BY <1>1 DEF ChangeSource, parentVars, batchVars, joinVars, sharedVars, taskVars
  <2>2. ASSUME Joining, NEW i \in Ids, NEW s, PartOf(s, Job(i)) PROVE PartOf(s, Job(i)')
    <3>1. /\ Job(i)'.first = Job(i).first /\ Job(i)'.cfg = Job(i).cfg /\ Job(i)'.kind = Job(i).kind
          /\ Job(i)'.from = plan[cur].ident /\ Job(i).from = plan[cur].ident
          /\ Job(i).upto = srcVer /\ Job(i)'.upto = srcVer + 1
      BY <2>1 DEF Job
    <3>2. plan[cur].ident \in Nat
      BY <2>2, JobType
    <3>3. \A v : v \in plan[cur].ident .. srcVer => v \in plan[cur].ident .. srcVer + 1
      BY <1>0, <3>2
    <3> QED
      BY <2>2, <3>1, <3>3 DEF PartOf
  <2>3. \A i \in Ids : Job(i)'.first = Job(i).first /\ Job(i)'.count = Job(i).count
    BY <2>1 DEF Job
  <2>4. InProgress'
    <3> SUFFICES ASSUME Joining, NEW i \in Ids, i < plan[cur].tasks PROVE Progress(i)'
      BY <2>1 DEF InProgress, Joining
    <3>1. Progress(i)
      BY DEF ArtifactInv, InProgress
    <3>2. PartOf(artifact[<<cur, i>>], Job(i)')
      BY <2>2, <3>1 DEF Progress
    <3>3. \A v : v \in Job(i).from .. Job(i).upto => v \in Job(i)'.from .. Job(i)'.upto
      <4>1. plan[cur].ident \in Nat
        BY JobType
      <4>2. \A v : v \in plan[cur].ident .. srcVer => v \in plan[cur].ident .. srcVer + 1
        BY <1>0, <4>1
      <4> QED
        BY <2>1, <4>2 DEF Job
    <3> QED
      BY <2>1, <2>3, <3>1, <3>2, <3>3 DEF Progress
  <2>5. ArtifactsKept'
    BY <2>1, <2>2, <2>3 DEF ArtifactInv, ArtifactsKept, WholeOf, Joining
  <2>6. VersionsSound'
    <3>1. Joining => plan[cur].ident \in Nat
      BY JobType
    <3> QED
      BY <1>0, <2>1, <3>1 DEF ArtifactInv, VersionsSound, Joining
  <2> QED
    BY <2>1, <2>4, <2>5, <2>6 DEF ArtifactInv, PlansSound, ValidateClean, NoBrokenInvariant
<1>2. CASE (\E c \in Configs : Reconfigure(c)) \/ (\E n \in 0 .. MaxRetain : ReconfigureParallel(n) \/ Trim(n))
           \/ PrepareLen \/ PrepareFails
  <2>1. /\ UNCHANGED <<policy, srcVer>> /\ pc \in {"idle", "prepare"} /\ pc' \in {"idle", "prepare"}
        /\ last' \in {last, "Staging"}
    BY <1>2 DEF Reconfigure, ReconfigureParallel, Trim, PrepareLen, PrepareFails, idleRest, parentVars, sourceVars
  <2>2. PlansSound'
    <3>1. CASE PrepareLen
      <4> DEFINE s == Segments(srcLen, SegmentSize)
                 e == EffectiveTasks(srcLen, SegmentSize, TaskCount)
      <4>1. srcLen \in Nat /\ TaskCount \in Nat \ {0} /\ SegmentSize \in Nat \ {0} /\ plan \in [Batches -> Plans]
        BY BoundsAssumption DEF TInv, TypeOK, ParentTypes, BatchTypes
      <4>2. s \in Nat /\ e \in 0 .. TaskCount /\ e <= s
        BY <4>1, SegmentsType
      <4>3. e = 0 => s = 0
        BY <4>1, <4>2 DEF EffectiveTasks
      <4>4. \A b \in Batches : plan'[b] = plan[b] \/ (plan'[b].segs = s /\ plan'[b].tasks = e)
        BY <3>1, <4>1 DEF PrepareLen
      <4> HIDE DEF s, e
      <4> QED
        BY <4>2, <4>3, <4>4 DEF ArtifactInv, PlansSound
    <3>2. CASE ~ PrepareLen
      <4>1. plan' = plan
        BY <1>2, <3>2 DEF Reconfigure, ReconfigureParallel, Trim, PrepareFails, idleRest, batchVars
      <4> QED
        BY <4>1 DEF ArtifactInv, PlansSound
    <3> QED
      BY <3>1, <3>2
  <2> QED
    BY <1>0, <2>1, <2>2 DEF ArtifactInv, VersionsSound, InProgress, ArtifactsKept, ValidateClean,
       NoBrokenInvariant, Joining
<1>3. CASE Prepare
  <2>1. /\ cur \in Batches /\ plan \in [Batches -> Plans] /\ Future(cur) /\ plan[cur].tasks \in Nat
        /\ UNCHANGED <<policy, srcVer, cur, artifact, result>> /\ pc' = "open" /\ last' = "none"
        /\ received' = {} /\ \A i \in Ids : slot'[i] = None /\ artifacts'[i] = None
        /\ plan' = [plan EXCEPT ![cur].ident = srcVer]
    BY <1>3, BoundsAssumption DEF Prepare, Future, TInv, TypeOK, BatchTypes, Plans, sourceVars
  <2>2. /\ plan'[cur].segs = plan[cur].segs /\ plan'[cur].tasks = plan[cur].tasks
        /\ plan'[cur].ident = srcVer
    BY <2>1 DEF Plans
  <2>3. PlansSound'
    <3>1. \A b \in Batches : plan'[b].segs = plan[b].segs /\ plan'[b].tasks = plan[b].tasks
      BY <2>1 DEF Plans
    <3> QED
      BY <3>1 DEF ArtifactInv, PlansSound
  <2>4. VersionsSound'
    BY <1>0, <2>1, <2>2 DEF ArtifactInv, VersionsSound
  <2>5. InProgress'
    <3> SUFFICES ASSUME NEW i \in Ids, i < plan[cur].tasks PROVE Progress(i)'
      BY <2>1, <2>2 DEF InProgress
    <3>1. <<cur, i>> \in Tasks
      BY <2>1 DEF Tasks
    <3>2. artifact'[<<cur, i>>] = <<>>
      BY <2>1, <3>1 DEF WorkerInv, FutureEmpty
    <3>3. tpc'[<<cur, i>>] = "held" /\ seg'[<<cur, i>>] = Job(i)'.first
      BY <1>3, <2>1, <2>2, <3>1 DEF Prepare, Job
    <3> QED
      BY <2>1, <3>2, <3>3, PartEmpty DEF Progress
  <2> QED
    BY <1>0, <2>1, <2>3, <2>4, <2>5 DEF ArtifactInv, ArtifactsKept, ValidateClean, NoBrokenInvariant
<1>4. CASE TakeTasks \/ Cancel \/ (\E k \in Calls : Begin(k)) \/ (DropBatch /\ taken)
  <2>1. /\ UNCHANGED <<encoder, policy, srcVer, cur, plan, received, completed, artifacts, failures, failure, slot>>
        /\ UNCHANGED <<seg, artifact, buffer, result>>
        /\ Joining /\ pc' \notin {"idle", "prepare", "validate"} /\ last' \in {last, "none", "NotReady"}
    BY <1>4 DEF TakeTasks, Cancel, Begin, DropBatch, coordRest, poolVars, parentVars, sourceVars, batchVars,
       joinVars, sharedVars, taskVars, Joining
  <2>2. \A t \in Tasks : tpc'[t] = tpc[t] \/ (tpc[t] = "held" /\ tpc'[t] = "queued")
    BY <1>4 DEF TakeTasks, Cancel, Begin, DropBatch, taskVars
  <2>3. \A i \in Ids : Job(i)' = Job(i)
    BY <2>1 DEF Job
  <2>4. InProgress'
    <3> SUFFICES ASSUME NEW i \in Ids, i < plan[cur].tasks PROVE Progress(i)'
      BY <2>1 DEF InProgress
    <3>1. Progress(i) /\ <<cur, i>> \in Tasks
      BY <2>1, JobType DEF ArtifactInv, InProgress
    <3> QED
      BY <2>1, <2>2, <2>3, <3>1 DEF Progress
  <2>5. ArtifactsKept'
    BY <2>1, <2>3 DEF ArtifactInv, ArtifactsKept
  <2> QED
    BY <1>0, <2>1, <2>4, <2>5 DEF ArtifactInv, PlansSound, VersionsSound, ValidateClean, NoBrokenInvariant
<1>5. CASE DropBatch /\ ~ taken
  <2> DEFINE n == plan[cur].tasks
  <2>1. /\ UNCHANGED <<encoder, policy, srcVer, cur, plan, received, artifacts, artifact, last>>
        /\ Joining /\ pc' = "dropping" /\ pc # "dropping"
    BY <1>5 DEF DropBatch, coordRest, joinVars, sourceVars, Joining
  <2>2. /\ \A t \in Tasks : t[1] = cur /\ t[2] < n => tpc'[t] = "done"
        /\ \A i \in Ids : slot'[i] = IF i < n THEN Completion(<<cur, i>>, "TaskAbandoned") ELSE slot[i]
    BY <1>5 DEF DropBatch
  <2>3. \A i \in Ids : Job(i)' = Job(i)
    BY <2>1 DEF Job
  <2>4. InProgress'
    <3> SUFFICES ASSUME NEW i \in Ids, i < n PROVE Progress(i)'
      BY <2>1 DEF InProgress
    <3>1. Progress(i) /\ <<cur, i>> \in Tasks
      BY <2>1, JobType DEF ArtifactInv, InProgress
    <3>2. tpc'[<<cur, i>>] = "done"
      BY <2>2, <3>1
    <3> QED
      BY <2>1, <2>3, <3>1, <3>2 DEF Progress
  <2>5. ArtifactsKept'
    <3>1. \A i \in Ids : i \notin received
      BY <1>5, <2>1 DEF JoinInv, AllPublished, Published, Working
    <3>2. \A i \in Ids : Completion(<<cur, i>>, "TaskAbandoned").result = "TaskAbandoned"
      BY DEF Completion
    <3>3. \A i \in Ids : slot'[i] = slot[i] \/ slot'[i].result = "TaskAbandoned"
      BY <2>2, <3>2
    <3> QED
      BY <2>1, <2>3, <3>1, <3>3 DEF ArtifactInv, ArtifactsKept
  <2> QED
    BY <1>0, <2>1, <2>4, <2>5 DEF ArtifactInv, PlansSound, VersionsSound, ValidateClean, NoBrokenInvariant
<1> QED
  BY <1>1, <1>2, <1>3, <1>4, <1>5 DEF CallerStep

(* Every step keeps the artifacts. *)
LEMMA ArtifactStep ==
  TInv /\ JoinInv /\ CauseInv /\ WorkerInv /\ ArtifactInv /\ [Next]_vars => ArtifactInv'
<1> SUFFICES ASSUME TInv, JoinInv, CauseInv, WorkerInv, ArtifactInv, [Next]_vars PROVE ArtifactInv'
  OBVIOUS
<1>1. CASE \E t \in Tasks : TaskStep(t)
  BY <1>1, TaskArtifactStep
<1>2. CASE CoordinatorStep \/ FaultStep \/ CallerStep
  BY <1>2, CallArtifactStep, CallerArtifactStep DEF FaultStep
<1>3. CASE UNCHANGED vars
  <2>1. \A i \in Ids : Job(i)' = Job(i)
    BY <1>3 DEF vars, parentVars, sourceVars, batchVars, Job
  <2>2. \A i \in Ids : Progress(i) => Progress(i)'
    BY <1>3, <2>1 DEF vars, batchVars, taskVars, Progress
  <2> QED
    BY <1>3, <2>1, <2>2 DEF vars, parentVars, sourceVars, batchVars, joinVars, sharedVars, taskVars, ArtifactInv,
       PlansSound, VersionsSound, InProgress, ArtifactsKept, ValidateClean, NoBrokenInvariant, Joining
<1> QED
  BY <1>1, <1>2, <1>3 DEF Next

-----------------------------------------------------------------------------
(* Output. *)

(* Sources whose fragments all have one version once validated. *)
Unchanging == policy \in {"Slice", "VerifyLengthAndIdentity"}

(* item is the stream's item at position n. *)
Wanted(n, item) ==
  IF plan[cur].tasks = 0 THEN n = 0 /\ item = Whole("empty")
  ELSE IF n = plan[cur].segs THEN ~plan[cur].serial /\ item = Whole("terminator")
  ELSE item = [seg |-> n, ver |-> plan[cur].ident, cfg |-> encoder,
               kind |-> IF plan[cur].serial THEN "stream" ELSE "part"]

Streamed == \A k \in mark + 1 .. Len(dst) : Wanted(k - mark - 1, dst[k])

(* Validation established that every fragment was read from the version the
   batch was prepared on. *)
Sealed ==
  pc = "assemble" /\ Unchanging =>
    \A i \in 0 .. plan[cur].tasks - 1 :
      WholeOf(artifacts[i], [Job(i) EXCEPT !.upto = plan[cur].ident])

(* How far the assembly has got shows in the destination. *)
Placed ==
  IF next < plan[cur].tasks THEN Job(next).first + copied
  ELSE IF next = plan[cur].tasks THEN plan[cur].segs
  ELSE StreamItems

Assembling ==
  pc = "assemble" =>
    /\ next <= plan[cur].tasks + 1
    /\ next < plan[cur].tasks => copied <= Job(next).count
    /\ Len(dst) = mark + Placed

(* Before assembly the destination is what it was when the call began. *)
Untouched == pc \in {"drain", "recv", "validate"} => Len(dst) = mark

OnlyFinishing == pc \in {"validate", "assemble", "drop"} => Finishing

OutInv ==
  /\ Sealed /\ Assembling /\ Untouched /\ OnlyFinishing
  /\ OutputIsOneStream /\ VecIsTransactional

(* Initially there is no call. *)
LEMMA OutInit == Init => OutInv
BY DEF Init, OutInv, Sealed, Assembling, Untouched, OnlyFinishing, OutputIsOneStream, VecIsTransactional

(* The output invariant reads neither the tasks nor the join. *)
LEMMA OutFrame ==
  ASSUME OutInv, UNCHANGED <<encoder, policy, cur, plan, pc, call, last, outVars>>,
         pc = "assemble" => UNCHANGED artifacts
  PROVE  OutInv'
<1>1. \A i : [Job(i) EXCEPT !.upto = plan[cur].ident]' = [Job(i) EXCEPT !.upto = plan[cur].ident]
  BY DEF Job
<1>2. \A i : Job(i)'.first = Job(i).first /\ Job(i)'.count = Job(i).count
  BY DEF Job
<1>3. Sealed'
  BY <1>1 DEF OutInv, Sealed, Unchanging
<1>4. Assembling'
  <2>1. Placed' = Placed
    BY DEF Placed, StreamItems, Job, outVars
  <2> QED
    BY <1>2, <2>1 DEF OutInv, Assembling, outVars, Job
<1>5. Untouched' /\ OnlyFinishing' /\ OutputIsOneStream' /\ VecIsTransactional'
  BY DEF OutInv, Untouched, OnlyFinishing, Finishing, OutputIsOneStream, VecIsTransactional, StreamItems,
     Whole, outVars
<1> QED
  BY <1>3, <1>4, <1>5 DEF OutInv

(* The position of the next fragment is one of the stream's, and after the
   last task's fragments come all the segments. *)
LEMMA NextPosition ==
  ASSUME TInv, ArtifactInv, Joining, NEW i \in Nat, i < plan[cur].tasks
  PROVE  /\ Job(i).first \in Nat /\ Job(i).count \in Nat
         /\ Job(i).first + Job(i).count <= plan[cur].segs
         /\ i + 1 < plan[cur].tasks => Job(i + 1).first = Job(i).first + Job(i).count
         /\ i + 1 = plan[cur].tasks => plan[cur].segs = Job(i).first + Job(i).count
<1>1. plan[cur].segs \in Nat /\ plan[cur].tasks \in Nat \ {0} /\ i \in 0 .. plan[cur].tasks - 1
  BY JobType
<1>2. /\ FirstSegment(plan[cur].segs, plan[cur].tasks, i) \in Nat
      /\ TaskSegments(plan[cur].segs, plan[cur].tasks, i) \in Nat
  BY <1>1, TaskSegmentsType
<1>3. /\ FirstSegment(plan[cur].segs, plan[cur].tasks, plan[cur].tasks) = plan[cur].segs
      /\ FirstSegment(plan[cur].segs, plan[cur].tasks, i + 1)
           = FirstSegment(plan[cur].segs, plan[cur].tasks, i) + TaskSegments(plan[cur].segs, plan[cur].tasks, i)
      /\ FirstSegment(plan[cur].segs, plan[cur].tasks, i + 1) <= plan[cur].segs
  BY <1>1, TasksFollow
<1> QED
  BY <1>2, <1>3 DEF Job

(* The first position: an empty plan has no segments, any other starts with
   segment 0. *)
LEMMA FirstPosition ==
  ASSUME TInv, ArtifactInv, Joining
  PROVE  IF 0 < plan[cur].tasks THEN Job(0).first = 0 /\ Job(0).count \in Nat
         ELSE plan[cur].tasks = 0 /\ plan[cur].segs = 0
<1>1. plan[cur].segs \in Nat /\ plan[cur].tasks \in Nat /\ cur \in Batches
  BY JobType
<1>2. CASE 0 < plan[cur].tasks
  <2>1. FirstSegment(plan[cur].segs, plan[cur].tasks, 0) = 0
    BY <1>1, <1>2, TasksFollow
  <2>2. Job(0).count \in Nat
    BY <1>2, NextPosition
  <2> QED
    BY <1>2, <2>1, <2>2 DEF Job
<1>3. CASE ~ (0 < plan[cur].tasks)
  BY <1>1, <1>3 DEF ArtifactInv, PlansSound
<1> QED
  BY <1>2, <1>3

(* Validation seals the artifacts: what was read between the two looks at an
   unchanged source is one version. *)
LEMMA ValidateOut ==
  ASSUME TInv, JoinInv, CauseInv, ArtifactInv, OutInv, Validate
  PROVE  OutInv'
<1>1. /\ UNCHANGED <<encoder, policy, srcVer, cur, plan, call, artifacts, dst, mark>>
      /\ pc = "validate" /\ next' = 0 /\ copied' = 0 /\ Joining /\ Finishing
  BY DEF Validate, callRest, coordRest, sourceVars, poolVars, joinVars, Joining, OutInv, OnlyFinishing
<1>2. Len(dst) = mark /\ mark \in Nat
  BY <1>1 DEF OutInv, Untouched, TInv, TypeOK, OutTypes
<1>3. Finishing' /\ (\A k : ~ (k \in mark + 1 .. Len(dst)))
  BY <1>1, <1>2 DEF Finishing
<1>4. OutputIsOneStream' /\ OnlyFinishing'
  BY <1>1, <1>3 DEF OutputIsOneStream, OnlyFinishing
<1>5. CASE pc' = "assemble"
  <2>1. ~ SourceChanged
    BY <1>5 DEF Validate, Return
  <2>2. DescriptorsMatch
    BY <1>1, ArtifactsMatch
  <2>3. plan[cur].ident \in Nat /\ srcVer \in Nat /\ plan[cur].ident <= srcVer /\ plan[cur].tasks \in Nat
        /\ plan[cur].tasks <= MaxTasks
    BY <1>1, JobType, BoundsAssumption DEF ArtifactInv, VersionsSound, TInv, TypeOK, ParentTypes, Plans
  <2>4. Unchanging => srcVer = plan[cur].ident
    BY <2>1, <2>3 DEF Unchanging, SourceChanged, ArtifactInv, VersionsSound
  <2>5. ASSUME Unchanging, NEW i \in 0 .. plan[cur].tasks - 1
        PROVE  WholeOf(artifacts[i], [Job(i) EXCEPT !.upto = plan[cur].ident])
    <3>1. i \in Ids /\ artifacts[i] # None
      BY <2>2, <2>3, BoundsAssumption DEF Ids, DescriptorsMatch
    <3>2. WholeOf(artifacts[i], Job(i))
      BY <1>1, <3>1 DEF ArtifactInv, ArtifactsKept
    <3>3. [Job(i) EXCEPT !.upto = plan[cur].ident] = Job(i)
      BY <2>4, <2>5 DEF Job
    <3> QED
      BY <3>2, <3>3
  <2>6. Sealed'
    BY <1>1, <2>5 DEF Sealed, Unchanging, Job
  <2>7. Assembling'
    <3>1. CASE 0 < plan[cur].tasks
      BY <1>1, <1>2, <2>3, <3>1, FirstPosition DEF Assembling, Placed, Job
    <3>2. CASE ~ (0 < plan[cur].tasks)
      BY <1>1, <1>2, <2>3, <3>2, FirstPosition DEF Assembling, Placed
    <3> QED
      BY <3>1, <3>2
  <2> QED
    BY <1>4, <1>5, <2>6, <2>7 DEF OutInv, Untouched, VecIsTransactional
<1>6. CASE pc' # "assemble"
  <2>1. pc' = "drop" /\ last' # "Ok"
    BY <1>1, <1>6 DEF Validate, Return
  <2> QED
    BY <1>1, <1>2, <1>4, <2>1 DEF OutInv, Sealed, Assembling, Untouched, VecIsTransactional
<1> QED
  BY <1>5, <1>6

(* Each step of the assembly appends the stream's next item, or moves to the
   next artifact. *)
LEMMA CopyOut ==
  ASSUME TInv, JoinInv, ArtifactInv, OutInv, CopyFragment \/ NextArtifact \/ CopyLast
  PROVE  OutInv'
<1>1. /\ UNCHANGED <<encoder, policy, srcVer, cur, plan, call, artifacts, pc, last, mark>>
      /\ pc = "assemble" /\ Joining /\ Finishing
  BY DEF CopyFragment, NextArtifact, CopyLast, callRest, coordRest, sourceVars, poolVars, joinVars,
     Joining, OutInv, OnlyFinishing
<1>2. /\ mark \in Nat /\ next \in Nat /\ copied \in Nat /\ dst \in Seq(Items) /\ Len(dst) \in Nat
      /\ plan[cur].tasks \in Nat /\ plan[cur].segs \in Nat /\ cur \in Batches /\ plan[cur] \in Plans
      /\ plan[cur].tasks <= MaxTasks /\ plan[cur].ident \in Nat
  BY <1>1, JobType, BoundsAssumption DEF TInv, TypeOK, OutTypes, Plans
<1>3. /\ next <= plan[cur].tasks + 1
      /\ next < plan[cur].tasks => copied <= Job(next).count
      /\ Len(dst) = mark + Placed
  BY <1>1 DEF OutInv, Assembling
<1>4. Unchanging => Streamed
  BY <1>1 DEF OutInv, OutputIsOneStream, Streamed, Wanted, Unchanging
<1>5. (Unchanging => \A k \in mark + 1 .. Len(dst') : Wanted(k - mark - 1, dst'[k])) => OutputIsOneStream'
  BY <1>1 DEF OutputIsOneStream, Wanted, Unchanging, Whole
<1>6. Sealed' /\ Untouched' /\ OnlyFinishing' /\ VecIsTransactional'
  BY <1>1 DEF OutInv, Sealed, Unchanging, Job, Untouched, OnlyFinishing, Finishing, VecIsTransactional
<1>7. \A i : Job(i)' = Job(i)
  BY <1>1 DEF Job
<1>8. StreamItems' = StreamItems
  BY <1>1 DEF StreamItems
<1>9. ASSUME NEW item, dst' = Append(dst, item), Unchanging => Wanted(Len(dst) - mark, item)
      PROVE  OutputIsOneStream' /\ Len(dst') = Len(dst) + 1
  <2>1. Len(dst') = Len(dst) + 1 /\ (\A k \in 1 .. Len(dst) : dst'[k] = dst[k]) /\ dst'[Len(dst) + 1] = item
    BY <1>2, <1>9
  <2>2. ASSUME Unchanging, NEW k \in mark + 1 .. Len(dst) + 1 PROVE Wanted(k - mark - 1, dst'[k])
    <3>1. CASE k \in mark + 1 .. Len(dst)
      <4>1. k \in 1 .. Len(dst)
        BY <1>2, <3>1
      <4> QED
        BY <1>4, <2>1, <2>2, <3>1, <4>1 DEF Streamed
    <3>2. CASE k = Len(dst) + 1
      <4>1. k - mark - 1 = Len(dst) - mark
        BY <1>2, <3>2
      <4> QED
        BY <1>9, <2>1, <2>2, <3>2, <4>1
    <3> QED
      BY <1>2, <3>1, <3>2
  <2> QED
    BY <1>5, <2>1, <2>2
<1>10. CASE CopyFragment
  <2> DEFINE a == artifacts[next][copied + 1]
  <2>1. /\ dst' = Append(dst, a) /\ copied' = copied + 1 /\ next' = next
        /\ next < plan[cur].tasks /\ copied < Len(artifacts[next])
    BY <1>10 DEF CopyFragment
  <2>2. /\ Job(next).first \in Nat /\ Job(next).count \in Nat
        /\ Job(next).first + Job(next).count <= plan[cur].segs
    BY <1>1, <1>2, <2>1, NextPosition
  <2>3. Len(artifacts[next]) = Job(next).count /\ artifacts[next] \in Seq(Fragments)
    <3>1. next \in 0 .. plan[cur].tasks - 1 /\ next \in Ids
      BY <1>2, <2>1, BoundsAssumption DEF Ids
    <3>2. DescriptorsMatch
      BY <1>1 DEF TInv, AssemblyMatches
    <3> QED
      BY <3>1, <3>2 DEF DescriptorsMatch, Job, TInv, TypeOK, JoinTypes
  <2>4. Len(dst) = mark + (Job(next).first + copied)
    BY <1>3, <2>1 DEF Placed
  <2>0. \A f, c, l, d, m, n \in Int : f + l <= n /\ c < l =>
          f + (c + 1) - 1 = f + c /\ f + c < n /\ c + 1 <= l
          /\ (d = m + (f + c) => d + 1 = m + (f + (c + 1)))
    OBVIOUS
  <2>5. Unchanging => Wanted(Len(dst) - mark, a)
    <3> SUFFICES ASSUME Unchanging PROVE Wanted(Len(dst) - mark, a)
      OBVIOUS
    <3>1. next \in 0 .. plan[cur].tasks - 1
      BY <1>2, <2>1
    <3>2. WholeOf(artifacts[next], [Job(next) EXCEPT !.upto = plan[cur].ident])
      BY <1>1, <3>1 DEF OutInv, Sealed
    <3>3. copied + 1 \in 1 .. Len(artifacts[next])
      BY <1>2, <2>1, <2>3
    <3>4. /\ a.seg = Job(next).first + (copied + 1) - 1
          /\ a.ver \in Job(next).from .. plan[cur].ident
          /\ a.cfg = Job(next).cfg /\ a.kind = Job(next).kind
      BY <3>2, <3>3 DEF WholeOf, PartOf, Job
    <3>5. a \in Fragments
      BY <2>3, <3>3
    <3> HIDE DEF a
    <3>6. a.ver = plan[cur].ident /\ a.cfg = encoder
          /\ a.kind = IF plan[cur].serial THEN "stream" ELSE "part"
      BY <1>2, <3>4 DEF Job
    <3>7. a.seg = Len(dst) - mark /\ Len(dst) - mark < plan[cur].segs /\ plan[cur].tasks # 0
      <4>1. copied < Job(next).count
        BY <2>1, <2>3
      <4>2. Len(dst) - mark = Job(next).first + copied
        BY <1>2, <2>2, <2>4
      <4>3. Job(next).first + (copied + 1) - 1 = Job(next).first + copied
            /\ Job(next).first + copied < plan[cur].segs
        BY <1>2, <2>2, <4>1, <2>0
      <4>4. plan[cur].tasks # 0
        BY <1>2, <2>1
      <4> QED
        BY <3>4, <4>2, <4>3, <4>4
    <3>8. a = [seg |-> a.seg, ver |-> a.ver, cfg |-> a.cfg, kind |-> a.kind]
      BY <3>5 DEF Fragments
    <3>9. plan[cur].segs # Len(dst) - mark
      BY <1>2, <3>7
    <3> QED
      BY <3>6, <3>7, <3>8, <3>9 DEF Wanted
  <2> HIDE DEF a
  <2>6. OutputIsOneStream' /\ Len(dst') = Len(dst) + 1
    BY <1>9, <2>1, <2>5
  <2>7. Assembling'
    <3>1. copied' <= Job(next).count /\ Len(dst') = mark + (Job(next).first + copied')
      <4>1. copied < Job(next).count /\ copied' = copied + 1 /\ Len(dst') = Len(dst) + 1
        BY <2>1, <2>3, <2>6
      <4>2. copied \in Int /\ Job(next).first \in Int /\ Job(next).count \in Int /\ Len(dst) \in Int
            /\ mark \in Int /\ plan[cur].segs \in Int
        BY <1>2, <2>2
      <4> QED
        BY <2>2, <2>4, <2>0, <4>1, <4>2
    <3> QED
      BY <1>1, <1>2, <1>3, <1>7, <2>1, <3>1 DEF Assembling, Placed, Job
  <2> QED
    BY <1>6, <2>6, <2>7 DEF OutInv
<1>11. CASE NextArtifact
  <2>1. /\ dst' = dst /\ copied' = 0 /\ next' = next + 1
        /\ next < plan[cur].tasks /\ copied = Len(artifacts[next])
    BY <1>11 DEF NextArtifact
  <2>2. copied = Job(next).count
    <3>1. next \in 0 .. plan[cur].tasks - 1
      BY <1>2, <2>1
    <3>2. DescriptorsMatch
      BY <1>1 DEF TInv, AssemblyMatches
    <3> QED
      BY <2>1, <3>1, <3>2 DEF DescriptorsMatch, Job
  <2>3. Len(dst) = mark + (Job(next).first + Job(next).count)
    BY <1>3, <2>1, <2>2 DEF Placed
  <2>4. OutputIsOneStream'
    BY <1>1, <2>1 DEF OutInv, OutputIsOneStream, Finishing, Whole
  <2>5. CASE next + 1 < plan[cur].tasks
    <3>1. Job(next + 1).first = Job(next).first + Job(next).count /\ Job(next + 1).count \in Nat
      <4>1. next + 1 \in Nat
        BY <1>2
      <4> QED
        BY <1>1, <1>2, <2>1, <2>5, <4>1, NextPosition
    <3>2. Job(next + 1).first \in Nat
      <4>1. next + 1 \in Nat
        BY <1>2
      <4> QED
        BY <1>1, <2>5, <4>1, NextPosition
    <3>3. Assembling'
      BY <1>1, <1>2, <2>1, <2>3, <2>5, <3>1, <3>2 DEF Assembling, Placed, Job
    <3> QED
      BY <1>6, <2>4, <3>3 DEF OutInv
  <2>6. CASE ~ (next + 1 < plan[cur].tasks)
    <3>1. next + 1 = plan[cur].tasks
      BY <1>2, <2>1, <2>6
    <3>2. plan[cur].segs = Job(next).first + Job(next).count
      BY <1>1, <1>2, <2>1, <3>1, NextPosition
    <3>3. Assembling'
      BY <1>1, <1>2, <2>1, <2>3, <3>1, <3>2 DEF Assembling, Placed
    <3> QED
      BY <1>6, <2>4, <3>3 DEF OutInv
  <2> QED
    BY <2>5, <2>6
<1>12. CASE CopyLast
  <2>1. /\ next = plan[cur].tasks /\ next' = next + 1
        /\ dst' = IF plan[cur].tasks = 0 THEN Append(dst, Whole("empty"))
                  ELSE IF plan[cur].serial THEN dst
                  ELSE Append(dst, Whole("terminator"))
    BY <1>12 DEF CopyLast
  <2>2. Len(dst) - mark = plan[cur].segs
    BY <1>2, <1>3, <2>1 DEF Placed
  <2>3. OutputIsOneStream' /\ Len(dst') = mark + StreamItems
    <3>1. CASE plan[cur].tasks = 0
      <4>1. plan[cur].segs = 0
        BY <1>2, <3>1 DEF ArtifactInv, PlansSound
      <4>2. dst' = Append(dst, Whole("empty")) /\ Wanted(Len(dst) - mark, Whole("empty"))
        BY <2>1, <2>2, <3>1, <4>1 DEF Wanted
      <4>3. OutputIsOneStream' /\ Len(dst') = Len(dst) + 1
        BY <1>9, <4>2
      <4> QED
        BY <1>2, <2>2, <3>1, <4>1, <4>3 DEF StreamItems
    <3>2. CASE plan[cur].tasks # 0 /\ plan[cur].serial
      <4>1. dst' = dst
        BY <2>1, <3>2
      <4>2. OutputIsOneStream'
        BY <1>1, <4>1 DEF OutInv, OutputIsOneStream, Finishing, Whole
      <4> QED
        BY <1>2, <2>2, <3>2, <4>1, <4>2 DEF StreamItems
    <3>3. CASE plan[cur].tasks # 0 /\ ~ plan[cur].serial
      <4>1. dst' = Append(dst, Whole("terminator")) /\ Wanted(Len(dst) - mark, Whole("terminator"))
        BY <2>1, <2>2, <3>3 DEF Wanted
      <4>2. OutputIsOneStream' /\ Len(dst') = Len(dst) + 1
        BY <1>9, <4>1
      <4> QED
        BY <1>2, <2>2, <3>3, <4>2 DEF StreamItems
    <3> QED
      BY <3>1, <3>2, <3>3
  <2>4. Assembling'
    BY <1>1, <1>2, <1>8, <2>1, <2>3 DEF Assembling, Placed
  <2> QED
    BY <1>6, <2>3, <2>4 DEF OutInv
<1> QED
  BY <1>10, <1>11, <1>12


(* The coordinator outside the assembly: the destination is left alone, and a
   finishing call that returns before it reports no success. *)
LEMMA WaitOut ==
  ASSUME TInv, JoinInv, OutInv, Receive \/ Pending \/ TimeOut \/ Ready \/ ValidateFails
  PROVE  OutInv'
<1>1. /\ UNCHANGED <<encoder, policy, cur, plan, call, outVars>>
      /\ pc \in {"drain", "recv", "validate"}
      /\ pc' \in {"drain", "recv", "validate", "drop", "open"}
      /\ pc' \in {"validate", "drop"} => Finishing
      /\ pc' = "drop" => last' # "Ok"
  BY DEF Receive, Pending, TimeOut, Ready, ValidateFails, Return, callRest, coordRest, Finishing,
     OutInv, OnlyFinishing
<1>2. Len(dst) = mark /\ mark \in Nat
  BY <1>1 DEF OutInv, Untouched, TInv, TypeOK, OutTypes
<1>3. \A k : ~ (k \in mark + 1 .. Len(dst))
  BY <1>2
<1>4. OutputIsOneStream'
  BY <1>1, <1>3 DEF OutputIsOneStream, outVars
<1>5. VecIsTransactional'
  BY <1>1, <1>2 DEF VecIsTransactional, outVars
<1> QED
  BY <1>1, <1>2, <1>4, <1>5 DEF OutInv, Sealed, Assembling, Untouched, OnlyFinishing, Finishing, outVars

(* The assembly ends: with everything copied, or rolled back in a vector. *)
LEMMA EndOut ==
  ASSUME TInv, JoinInv, ArtifactInv, OutInv, CopyFails \/ Assembled
  PROVE  OutInv'
<1>1. /\ UNCHANGED <<encoder, policy, cur, plan, call, mark>>
      /\ pc = "assemble" /\ pc' = "drop" /\ Finishing /\ Joining
  BY DEF CopyFails, Assembled, Return, callRest, coordRest, OutInv, OnlyFinishing, outVars, Joining
<1>2. /\ mark \in Nat /\ next \in Nat /\ dst \in Seq(Items) /\ mark <= Len(dst) /\ Len(dst) \in Nat
      /\ plan[cur].tasks \in Nat
  BY <1>1, JobType DEF TInv, TypeOK, OutTypes
<1>3. Sealed' /\ Assembling' /\ Untouched' /\ OnlyFinishing'
  BY <1>1 DEF Sealed, Assembling, Untouched, OnlyFinishing, Finishing
<1>4. CASE Assembled
  <2>1. dst' = dst /\ next > plan[cur].tasks /\ last' = "Ok"
    BY <1>4 DEF Assembled, Complete, Return, outVars
  <2>2. ~ (next < plan[cur].tasks) /\ next # plan[cur].tasks
    BY <1>2, <2>1
  <2>3. Len(dst) = mark + StreamItems
    BY <1>1, <2>2 DEF OutInv, Assembling, Placed
  <2>4. OutputIsOneStream'
    BY <1>1, <2>1 DEF OutInv, OutputIsOneStream, Finishing, Whole
  <2> QED
    BY <1>1, <1>3, <2>1, <2>3, <2>4 DEF OutInv, VecIsTransactional, StreamItems
<1>5. CASE CopyFails
  <2>1. last' # "Ok" /\ dst' = IF call = "vec" THEN SubSeq(dst, 1, mark) ELSE dst
    BY <1>5 DEF CopyFails, Return
  <2>2. CASE call = "vec"
    <3>1. Len(dst') = mark
      BY <1>2, <2>1, <2>2
    <3>2. \A k : ~ (k \in mark' + 1 .. Len(dst'))
      BY <1>1, <1>2, <3>1
    <3>3. OutputIsOneStream'
      BY <3>2 DEF OutputIsOneStream
    <3>4. VecIsTransactional'
      BY <1>1, <1>2, <2>1, <3>1 DEF VecIsTransactional
    <3> QED
      BY <1>3, <3>3, <3>4 DEF OutInv
  <2>3. CASE call # "vec"
    <3>1. OutputIsOneStream'
      BY <1>1, <2>1, <2>3 DEF OutInv, OutputIsOneStream, Finishing, Whole
    <3> QED
      BY <1>1, <1>3, <2>3, <3>1 DEF OutInv, VecIsTransactional
  <2> QED
    BY <2>2, <2>3
<1> QED
  BY <1>4, <1>5

(* A coordinator's step keeps the output. *)
LEMMA CallOutStep ==
  ASSUME TInv, JoinInv, CauseInv, ArtifactInv, OutInv,
         CoordinatorStep \/ TimeOut \/ ValidateFails \/ CopyFails, ~ Prepare
  PROVE  OutInv'
<1>1. CASE Receive \/ Pending \/ TimeOut \/ Ready \/ ValidateFails
  BY <1>1, WaitOut
<1>2. CASE Validate
  BY <1>2, ValidateOut
<1>3. CASE CopyFragment \/ NextArtifact \/ CopyLast
  BY <1>3, CopyOut
<1>4. CASE CopyFails \/ Assembled
  BY <1>4, EndOut
<1>5. CASE DropDrain
  BY <1>5, OutFrame DEF DropDrain, callRest, coordRest
<1>6. CASE DropDone
  BY <1>6 DEF DropDone, OutInv, Sealed, Assembling, Untouched, OnlyFinishing, OutputIsOneStream,
     VecIsTransactional
<1> QED
  BY <1>1, <1>2, <1>3, <1>4, <1>5, <1>6 DEF CoordinatorStep

(* Preparing a batch, the caller's steps and the failures around them. *)
LEMMA CallerOutStep ==
  ASSUME TInv, JoinInv, OutInv, CallerStep \/ Prepare \/ PrepareFails \/ ChangeSource
  PROVE  OutInv'
<1>1. CASE (\E c \in Configs : Reconfigure(c)) \/ (\E n \in 0 .. MaxRetain : ReconfigureParallel(n) \/ Trim(n))
           \/ PrepareLen \/ Prepare \/ PrepareFails
  <2>1. pc' \in {"idle", "prepare", "open"}
    BY <1>1 DEF Reconfigure, ReconfigureParallel, Trim, PrepareLen, Prepare, PrepareFails, idleRest
  <2> QED
    BY <2>1 DEF OutInv, Sealed, Assembling, Untouched, OnlyFinishing, OutputIsOneStream, VecIsTransactional
<1>2. CASE ChangeSource
  BY <1>2, OutFrame DEF ChangeSource, parentVars, batchVars, joinVars
<1>3. CASE TakeTasks \/ Cancel
  <2>1. pc = "open" /\ pc' = "open"
    BY <1>3 DEF TakeTasks, Cancel
  <2> QED
    BY <2>1 DEF OutInv, Sealed, Assembling, Untouched, OnlyFinishing, OutputIsOneStream, VecIsTransactional
<1>4. CASE \E k \in Calls : Begin(k)
  <2>1. /\ mark' = Len(dst) /\ dst' = dst /\ pc' \in {"drain", "open", "drop"}
        /\ pc' = "drop" => Finishing' /\ last' # "Ok"
    BY <1>4 DEF Begin, Finishing
  <2>2. Len(dst') \in Nat /\ mark' = Len(dst')
    BY <2>1 DEF TInv, TypeOK, OutTypes
  <2>3. \A k : ~ (k \in mark' + 1 .. Len(dst'))
    BY <2>2
  <2>4. OutputIsOneStream' /\ VecIsTransactional'
    BY <2>1, <2>2, <2>3 DEF OutputIsOneStream, VecIsTransactional
  <2> QED
    BY <2>1, <2>2, <2>4 DEF OutInv, Sealed, Assembling, Untouched, OnlyFinishing
<1>5. CASE DropBatch
  <2>1. /\ UNCHANGED <<encoder, policy, cur, plan, last, outVars>> /\ pc' = "dropping"
        /\ \/ pc = "open" /\ call' = "drop"
           \/ pc = "drop" /\ call' = call
    BY <1>5 DEF DropBatch, coordRest
  <2>2. OutputIsOneStream' /\ VecIsTransactional'
    BY <2>1 DEF OutInv, OutputIsOneStream, VecIsTransactional, Finishing, StreamItems, Whole, outVars
  <2> QED
    BY <2>1, <2>2 DEF OutInv, Sealed, Assembling, Untouched, OnlyFinishing
<1> QED
  BY <1>1, <1>2, <1>3, <1>4, <1>5 DEF CallerStep

(* Every step keeps the output. *)
LEMMA OutStep ==
  TInv /\ JoinInv /\ CauseInv /\ ArtifactInv /\ OutInv /\ [Next]_vars => OutInv'
<1> SUFFICES ASSUME TInv, JoinInv, CauseInv, ArtifactInv, OutInv, [Next]_vars PROVE OutInv'
  OBVIOUS
<1>1. CASE \E t \in Tasks : TaskStep(t)
  <2>1. UNCHANGED taskRest
    BY <1>1 DEF TaskStep, Start, Abandon, CheckBeforeRead, ReadSource, Encode, Panic, Commit,
       StoreCancelled, FillSlot, Send, StoreAbandoned
  <2> QED
    BY <2>1, OutFrame DEF taskRest, parentVars, batchVars, joinVars
<1>2. CASE CoordinatorStep \/ FaultStep \/ CallerStep
  BY <1>2, CallOutStep, CallerOutStep DEF FaultStep
<1>3. CASE UNCHANGED vars
  BY <1>3, OutFrame DEF vars, parentVars, batchVars, joinVars
<1> QED
  BY <1>1, <1>2, <1>3 DEF Next

-----------------------------------------------------------------------------
(* In whatever order the tasks run, fail, panic or are dropped, and whatever
   the caller and the source's owner do meanwhile, a finishing call writes a
   prefix of the one stream of its batch, a vector ends with all of it or
   none, and no call fails over the batch's own bookkeeping. *)
THEOREM FinishingCallsAreWhole == Spec => []ResultIsWhole
<1>1. ArtifactInv /\ OutInv => ResultIsWhole
  BY DEF ArtifactInv, OutInv, ResultIsWhole
<1> QED
  BY <1>1, TypeInit, TypeStep, JoinInit, JoinStep, CauseInit, CauseStep, WorkerInit, WorkerStep,
     ArtifactInit, ArtifactStep, OutInit, OutStep, PTL DEF Spec

(* Batch after batch, the reservoir holds only unpoisoned workers of the
   current configuration, no more than are retained, and each batch writes
   its one stream. *)
THEOREM ReusedBatchesAreSound == Spec => []ReuseIsSound
<1>1. WorkerInv /\ OutInv => ReuseIsSound
  BY DEF WorkerInv, Idle, Retained, OutInv, ReuseIsSound, ReservoirSound
<1> QED
  BY <1>1, TypeInit, TypeStep, JoinInit, JoinStep, CauseInit, CauseStep, WorkerInit, WorkerStep,
     ArtifactInit, ArtifactStep, OutInit, OutStep, PTL DEF Spec

=============================================================================
