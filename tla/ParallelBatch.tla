---------------------------- MODULE ParallelBatch ----------------------------
(***************************************************************************)
(* Parallel compression: one coordinator (the owner of a batch), the tasks *)
(* it hands to the caller's executor, and the reservoir of workers that    *)
(* outlives batches.  One action per access to state that another thread   *)
(* can see: the cancellation flag, the input source, a completion slot,    *)
(* the completion channel.                                                 *)
(* Source: src/src/compressor/parallel/core/{batch,task,artifact,mod}.rs.  *)
(***************************************************************************)
EXTENDS Integers, Sequences, FiniteSets, ParallelPlan

LOCAL INSTANCE TLC

CONSTANTS
  Configs,        \* encoder configurations a caller may choose
  Lens,           \* input lengths a batch may be prepared for
  SegmentSize,    \* parallel.segment_size
  MinParallel,    \* parallel.minimum_parallel_size
  TaskCount,      \* config.task_count of every batch
  MaxTasks,       \* bound on task ids (>= TaskCount)
  MaxBatches,     \* bound: batches prepared in a behaviour
  MaxVersion,     \* bound: changes of the input source
  MaxRetain,      \* bound on max_retained_workers
  Policies,       \* source policies to choose from, or "Slice"
  Calls,          \* coordinator calls the caller makes
  Faults,         \* what may fail
  None            \* Rust's Option::None

Batches == 1 .. MaxBatches
Ids     == 0 .. MaxTasks - 1
Tasks   == Batches \X Ids

AllCalls  == {"poll", "wait", "timed", "vec", "writer"}
AllFaults == {"read", "encode", "panic", "abandon", "meta", "write", "timeout", "cancel"}
AllPolicies == {"Slice", "AssumeImmutable", "VerifyLength", "VerifyLengthAndIdentity"}

ASSUME BoundsAssumption ==
  /\ MaxTasks \in Nat \ {0}
  /\ TaskCount \in 1 .. MaxTasks
  /\ MaxBatches \in Nat
  /\ MaxVersion \in Nat
  /\ MaxRetain \in Nat
  /\ SegmentSize \in Nat \ {0}
  /\ MinParallel \in Nat
  /\ Lens \subseteq Nat
  /\ Policies \subseteq AllPolicies
  /\ Calls \subseteq AllCalls
  /\ Faults \subseteq AllFaults

(* A worker: the configuration its encoders were built for, and whether a
   panic may have left them half-updated. *)
Workers   == [cfg : Configs, poisoned : BOOLEAN]

(* A staged fragment: which segment, of which version of the source, under
   which configuration.  "part" needs the final terminator, "stream" not. *)
Fragments == [seg : Nat, ver : Nat, cfg : Configs, kind : {"part", "stream"}]

(* What is written: fragments, then the terminator, or an empty stream. *)
Items == [seg : Nat, ver : Nat, cfg : Configs,
          kind : {"part", "stream", "terminator", "empty"}]

Errors    == {"Cancelled", "SourceRead", "Encode", "TaskPanicked", "TaskAbandoned"}
Completions == [result : Errors \cup {"Ok"}, worker : Workers \cup {None},
                artifact : Seq(Fragments)]
Plans     == [len : Nat, segs : Nat, tasks : 0 .. MaxTasks, serial : BOOLEAN,
              ident : Nat]

ASSUME NoneAssumption ==
  /\ None \notin Workers
  /\ None \notin Completions
  /\ None \notin Seq(Fragments)
  /\ None \notin Ids \X Errors

VARIABLES
  \* the compressor that owns idle workers between batches
  encoder, maxRetained, workers, policy,
  \* the input source
  srcLen, srcVer,
  \* the current batch, private to the coordinator
  cur, pc, call, taken, received, completed, artifacts, failures, failure,
  last, dst, mark, next, copied,
  \* per batch, shared with its tasks
  plan, cancelled, slot, chan,
  \* per task
  tpc, seg, worker, artifact, buffer, result,
  \* history
  userCancelled

parentVars == <<encoder, maxRetained, workers, policy>>
sourceVars == <<srcLen, srcVer>>
batchVars  == <<cur, call, taken, plan>>
joinVars   == <<received, completed, artifacts, failures, failure>>
outVars    == <<dst, mark, next, copied>>
taskVars   == <<tpc, seg, worker, artifact, buffer, result>>
sharedVars == <<cancelled, slot, chan>>
vars == <<parentVars, sourceVars, batchVars, pc, joinVars, last, outVars,
          sharedVars, taskVars, userCancelled>>

NoPlan == [len |-> 0, segs |-> 0, tasks |-> 0, serial |-> TRUE, ident |-> 0]

(* The batch is alive: its receiver and its slots can still be read. *)
Live == pc # "idle"

Init ==
  /\ encoder \in Configs
  /\ maxRetained \in 0 .. MaxRetain
  /\ policy \in Policies
  /\ workers = <<>>
  /\ srcLen \in Lens
  /\ srcVer = 0
  /\ cur = 0 /\ pc = "idle" /\ call = "poll" /\ taken = FALSE
  /\ received = {} /\ completed = 0
  /\ artifacts = [i \in Ids |-> None]
  /\ failures = {} /\ failure = None
  /\ last = "none" /\ dst = <<>> /\ mark = 0 /\ next = 0 /\ copied = 0
  /\ plan = [b \in Batches |-> NoPlan]
  /\ cancelled = [b \in Batches |-> FALSE]
  /\ slot = [i \in Ids |-> None] /\ chan = <<>>
  /\ tpc = [t \in Tasks |-> "none"]
  /\ seg = [t \in Tasks |-> 0]
  /\ worker = [t \in Tasks |-> None]
  /\ artifact = [t \in Tasks |-> <<>>]
  /\ buffer = [t \in Tasks |-> 0]
  /\ result = [t \in Tasks |-> "Ok"]
  /\ userCancelled = FALSE

-----------------------------------------------------------------------------
(* The input source.  Its owner may change it at any time; a Slice input is
   borrowed and cannot change.  The identity it reports is its version. *)

ChangeSource ==
  /\ policy # "Slice"
  /\ srcVer < MaxVersion
  /\ srcVer' = srcVer + 1
  /\ srcLen' \in Lens
  /\ UNCHANGED <<parentVars, batchVars, pc, joinVars, last, outVars, sharedVars,
                 taskVars, userCancelled>>

-----------------------------------------------------------------------------
(* The compressor between batches.  A live batch borrows it exclusively. *)

idleRest == <<sourceVars, batchVars, pc, joinVars, last, outVars, sharedVars,
              taskVars, userCancelled>>

Truncate(n) == SubSeq(workers, 1, IF Len(workers) <= n THEN Len(workers) ELSE n)

(* trim(CurrentPlan) *)
Trimmed == Truncate(maxRetained)

Reconfigure(c) ==
  /\ pc = "idle"
  /\ c # encoder
  /\ encoder' = c
  /\ workers' = <<>>
  /\ UNCHANGED <<maxRetained, policy, idleRest>>

ReconfigureParallel(n) ==
  /\ pc = "idle"
  /\ n # maxRetained
  /\ maxRetained' = n
  /\ workers' = Truncate(n)
  /\ UNCHANGED <<encoder, policy, idleRest>>

(* trim(ReleaseAll) and trim(Bounded): after truncating to the plan, pop
   workers until the byte budget is met (n workers fit in it). *)
Trim(n) ==
  /\ pc = "idle"
  /\ n < Len(Trimmed)
  /\ workers' = Truncate(n)
  /\ UNCHANGED <<encoder, maxRetained, policy, idleRest>>

-----------------------------------------------------------------------------
(* prepare: read the length, plan; then read the identity, create the tasks
   and lend them the idle workers, last one first. *)

PrepareLen ==
  /\ pc = "idle"
  /\ cur < MaxBatches
  /\ cur' = cur + 1
  /\ LET segs == Segments(srcLen, SegmentSize) IN
       plan' = [plan EXCEPT ![cur + 1] =
                 [len |-> srcLen, segs |-> segs,
                  tasks |-> EffectiveTasks(srcLen, SegmentSize, TaskCount),
                  serial |-> IsSerial(srcLen, SegmentSize, MinParallel),
                  ident |-> 0]]
  /\ pc' = "prepare"
  /\ UNCHANGED <<parentVars, sourceVars, call, taken, joinVars, last, outVars,
                 sharedVars, taskVars, userCancelled>>

Reused(n) == IF Len(workers) <= n THEN Len(workers) ELSE n

Fresh == [cfg |-> encoder, poisoned |-> FALSE]

Prepare ==
  /\ pc = "prepare"
  /\ LET p == plan[cur]
         mine == {t \in Tasks : t[1] = cur /\ t[2] < p.tasks}
     IN
       /\ plan' = [plan EXCEPT ![cur].ident = srcVer]
       /\ worker' = [t \in Tasks |->
            IF t \notin mine THEN worker[t]
            ELSE IF t[2] < Len(workers) THEN workers[Len(workers) - t[2]]
            ELSE Fresh]
       /\ workers' = SubSeq(workers, 1, Len(workers) - Reused(p.tasks))
       /\ tpc' = [t \in Tasks |-> IF t \in mine THEN "held" ELSE tpc[t]]
       /\ seg' = [t \in Tasks |->
            IF t \in mine THEN FirstSegment(p.segs, p.tasks, t[2]) ELSE seg[t]]
  /\ pc' = "open"
  /\ taken' = FALSE
  /\ received' = {} /\ completed' = 0
  /\ artifacts' = [i \in Ids |-> None]
  /\ failures' = {} /\ failure' = None
  /\ slot' = [i \in Ids |-> None] /\ chan' = <<>>
  /\ last' = "none" /\ userCancelled' = FALSE
  /\ UNCHANGED <<encoder, maxRetained, policy, sourceVars, cur, call, outVars,
                 cancelled, artifact, buffer, result>>

(* A planning, allocation or staging failure of prepare: no worker was lent
   yet.  If building a new worker fails, the idle ones were lent already and
   go down with the tasks, their slots and their channel. *)
PrepareFails ==
  /\ pc = "prepare"
  /\ "meta" \in Faults
  /\ workers' \in {workers, <<>>}
  /\ pc' = "idle"
  /\ last' = "Staging"
  /\ UNCHANGED <<encoder, maxRetained, policy, sourceVars, batchVars, joinVars, outVars,
                 sharedVars, taskVars, userCancelled>>

(* take_tasks: the caller's executor now owns every task. *)
TakeTasks ==
  /\ pc = "open" /\ ~taken
  /\ taken' = TRUE
  /\ tpc' = [t \in Tasks |-> IF t[1] = cur /\ tpc[t] = "held" THEN "queued"
                             ELSE tpc[t]]
  /\ UNCHANGED <<parentVars, sourceVars, cur, call, plan, pc, joinVars, last,
                 outVars, sharedVars, seg, worker, artifact, buffer, result,
                 userCancelled>>

(* cancel() by the caller.  The batch is not Sync and its other calls borrow
   it mutably, so this never runs inside one of them. *)
Cancel ==
  /\ pc = "open"
  /\ "cancel" \in Faults
  /\ cancelled' = [cancelled EXCEPT ![cur] = TRUE]
  /\ userCancelled' = TRUE
  /\ UNCHANGED <<parentVars, sourceVars, batchVars, pc, joinVars, last, outVars,
                 slot, chan, taskVars>>

-----------------------------------------------------------------------------
(* A task.  Every step is one access to shared state, with the private work
   around it. *)

taskRest == <<parentVars, sourceVars, batchVars, pc, joinVars, last, outVars,
              userCancelled>>

Goto(t, l) == tpc' = [tpc EXCEPT ![t] = l]

Fail(t, e) ==
  /\ Goto(t, "fail")
  /\ result' = [result EXCEPT ![t] = e]

LastSegment(t) ==
  FirstSegment(plan[t[1]].segs, plan[t[1]].tasks, t[2])
    + TaskSegments(plan[t[1]].segs, plan[t[1]].tasks, t[2]) - 1

(* run() begins. *)
Start(t) ==
  /\ tpc[t] = "queued"
  /\ Goto(t, "check")
  /\ UNCHANGED <<taskRest, sharedVars, seg, worker, artifact, buffer, result>>

(* The load before a segment's read. *)
CheckBeforeRead(t) ==
  /\ tpc[t] = "check"
  /\ IF cancelled[t[1]] THEN Fail(t, "Cancelled")
     ELSE Goto(t, "read") /\ UNCHANGED result
  /\ UNCHANGED <<taskRest, sharedVars, seg, worker, artifact, buffer>>

(* read_exact_at: short when the source lost the bytes, or failing. *)
ReadSource(t) ==
  /\ tpc[t] = "read"
  /\ \/ /\ SourceEnd(plan[t[1]].len, SegmentSize, seg[t]) <= srcLen
        /\ buffer' = [buffer EXCEPT ![t] = srcVer]
        /\ Goto(t, "encode") /\ UNCHANGED result
     \/ /\ policy # "Slice"
        /\ "read" \in Faults \/ SourceEnd(plan[t[1]].len, SegmentSize, seg[t]) > srcLen
        /\ Fail(t, "SourceRead") /\ UNCHANGED buffer
  /\ UNCHANGED <<taskRest, sharedVars, seg, worker, artifact>>

(* The load before encoding, then the codec call, the append to the task's
   own artifact and its descriptor.  A panic discards the worker. *)
Encode(t) ==
  /\ tpc[t] = "encode"
  /\ \/ /\ cancelled[t[1]]
        /\ Fail(t, "Cancelled") /\ UNCHANGED <<seg, worker, artifact>>
     \/ /\ ~cancelled[t[1]]
        /\ artifact' = [artifact EXCEPT ![t] = Append(@,
             [seg |-> seg[t], ver |-> buffer[t], cfg |-> worker[t].cfg,
              kind |-> IF plan[t[1]].serial THEN "stream" ELSE "part"])]
        /\ IF seg[t] = LastSegment(t)
           THEN Goto(t, "commit") /\ UNCHANGED seg
           ELSE Goto(t, "check") /\ seg' = [seg EXCEPT ![t] = @ + 1]
        /\ UNCHANGED <<worker, result>>
     \/ /\ ~cancelled[t[1]]
        /\ "encode" \in Faults
        /\ Fail(t, "Encode") /\ UNCHANGED <<seg, worker, artifact>>
  /\ UNCHANGED <<taskRest, sharedVars, buffer>>

(* Mutant: the worker a panic interrupted is given back. *)
PanicKeepingWorker(t) ==
  /\ "panic" \in Faults
  /\ tpc[t] \in {"read", "encode"}
  /\ worker' = [worker EXCEPT ![t].poisoned = TRUE]
  /\ Fail(t, "TaskPanicked")
  /\ UNCHANGED <<taskRest, sharedVars, seg, artifact, buffer>>

(* catch_unwind around execute: a source or codec panic. *)
Panic(t) ==
  /\ "panic" \in Faults
  /\ tpc[t] \in {"read", "encode"}
  /\ worker' = [worker EXCEPT ![t] = None]
  /\ Fail(t, "TaskPanicked")
  /\ UNCHANGED <<taskRest, sharedVars, seg, artifact, buffer>>

(* The last load of execute, before the artifact is committed. *)
Commit(t) ==
  /\ tpc[t] = "commit"
  /\ IF cancelled[t[1]] THEN Fail(t, "Cancelled")
     ELSE Goto(t, "publish") /\ UNCHANGED result
  /\ UNCHANGED <<taskRest, sharedVars, seg, worker, artifact, buffer>>

(* run() saw an error: tell the other tasks before publishing it. *)
StoreCancelled(t) ==
  /\ tpc[t] = "fail"
  /\ cancelled' = [cancelled EXCEPT ![t[1]] = TRUE]
  /\ Goto(t, "publish")
  /\ UNCHANGED <<taskRest, slot, chan, seg, worker, artifact, buffer, result>>

(* The completion a task publishes: its worker moves out, its artifact only
   with success (otherwise it is dropped with the task). *)
Completion(t, r) ==
  [result |-> r, worker |-> worker[t],
   artifact |-> IF r = "Ok" THEN artifact[t] ELSE <<>>]

(* publish, first half: fill the slot.  The slot of a dropped batch is freed
   with the last reference to it. *)
FillSlot(t) ==
  /\ tpc[t] = "publish"
  /\ slot' = IF t[1] = cur /\ Live
             THEN [slot EXCEPT ![t[2]] = Completion(t, result[t])] ELSE slot
  /\ worker' = [worker EXCEPT ![t] = None]
  /\ artifact' = [artifact EXCEPT ![t] = <<>>]
  /\ Goto(t, "send")
  /\ UNCHANGED <<taskRest, cancelled, chan, seg, buffer, result>>

(* Mutant: a channel with room for a single id. *)
CapacityOne(b) == 1

(* Capacity of the completion channel. *)
Capacity(b) == IF plan[b].tasks = 0 THEN 1 ELSE plan[b].tasks

(* publish, second half: send the id, blocking while the channel is full,
   and drop the sender.  An abandoned task then stores the flag. *)
Send(t) ==
  /\ tpc[t] = "send"
  /\ \/ /\ t[1] = cur /\ Live
        /\ Len(chan) < Capacity(cur)
        /\ chan' = Append(chan, t[2])
     \/ /\ ~(t[1] = cur /\ Live)
        /\ UNCHANGED chan
  /\ Goto(t, IF result[t] = "TaskAbandoned" THEN "abandoned" ELSE "done")
  /\ UNCHANGED <<taskRest, cancelled, slot, seg, worker, artifact, buffer, result>>

(* Drop of a task the executor never ran: publish, then cancel the rest. *)
Abandon(t) ==
  /\ tpc[t] = "queued"
  /\ "abandon" \in Faults
  /\ result' = [result EXCEPT ![t] = "TaskAbandoned"]
  /\ Goto(t, "publish")
  /\ UNCHANGED <<taskRest, sharedVars, seg, worker, artifact, buffer>>

StoreAbandoned(t) ==
  /\ tpc[t] = "abandoned"
  /\ cancelled' = [cancelled EXCEPT ![t[1]] = TRUE]
  /\ Goto(t, "done")
  /\ UNCHANGED <<taskRest, slot, chan, seg, worker, artifact, buffer, result>>

TaskStep(t) ==
  \/ Start(t) \/ Abandon(t) \/ CheckBeforeRead(t) \/ ReadSource(t)
  \/ Encode(t) \/ Panic(t) \/ Commit(t) \/ StoreCancelled(t)
  \/ FillSlot(t) \/ Send(t) \/ StoreAbandoned(t)

-----------------------------------------------------------------------------
(* The coordinator collecting completions. *)

coordRest == <<encoder, maxRetained, policy, sourceVars, cur, plan, taken,
               userCancelled>>

callRest == <<coordRest, call, taskVars>>

(* What collecting a completion changes. *)
poolVars == <<workers, joinVars, sharedVars>>

Finishing == call \in {"vec", "writer"}

(* Return r to the caller; finish_into and finish_to_writer consume the
   batch, so its destructor follows. *)
Return(r) ==
  /\ last' = r
  /\ pc' = IF Finishing THEN "drop" ELSE "open"

(* The checks of receive(): a known id, not seen yet, whose slot is full. *)
Acceptable(id) == id \in Ids /\ id \notin received /\ slot[id] # None

(* receive(): take the completion, give the worker back, keep the artifact
   or record the failure and cancel the others. *)
Collect(id) ==
  /\ slot' = [slot EXCEPT ![id] = None]
  /\ received' = received \cup {id}
  /\ completed' = completed + 1
  /\ workers' = IF slot[id].worker = None THEN workers
                ELSE Append(workers, slot[id].worker)
  /\ IF slot[id].result = "Ok"
     THEN /\ artifacts' = [artifacts EXCEPT ![id] = slot[id].artifact]
          /\ UNCHANGED <<failures, cancelled>>
     ELSE /\ failures' = failures \cup {<<id, slot[id].result>>}
          /\ cancelled' = [cancelled EXCEPT ![cur] = TRUE]
          /\ UNCHANGED artifacts
  /\ UNCHANGED failure

(* A sender lives until its task has sent. *)
SendersGone ==
  \A i \in 0 .. plan[cur].tasks - 1 : tpc[<<cur, i>>] \in {"abandoned", "done"}

(* poll, wait, wait_timeout, finish_into or finish_to_writer is called. *)
Begin(k) ==
  /\ pc = "open"
  /\ call' = k
  /\ IF k # "poll" /\ ~taken /\ plan[cur].tasks > 0
     THEN /\ last' = "NotReady"
          /\ pc' = IF k \in {"vec", "writer"} THEN "drop" ELSE "open"
     ELSE /\ last' = "none"
          /\ pc' = "drain"
  /\ mark' = Len(dst)
  /\ UNCHANGED <<coordRest, poolVars, dst, next, copied, taskVars>>

(* try_recv in poll or recv in wait.  Anything but an acceptable id is
   reported as a broken invariant. *)
Receive ==
  /\ pc \in {"drain", "recv"}
  /\ chan # <<>> \/ (pc = "recv" /\ SendersGone)
  /\ chan' = IF chan = <<>> THEN chan ELSE Tail(chan)
  /\ IF chan # <<>> /\ Acceptable(Head(chan))
     THEN Collect(Head(chan)) /\ pc' = "drain" /\ UNCHANGED last
     ELSE /\ Return("FragmentInvariant")
          /\ UNCHANGED <<workers, joinVars, cancelled, slot>>
  /\ UNCHANGED <<callRest, outVars>>

(* Nothing to receive and tasks outstanding: Pending, or block in recv. *)
Pending ==
  /\ pc = "drain" /\ chan = <<>>
  /\ completed < plan[cur].tasks
  /\ IF SendersGone THEN Return("FragmentInvariant")
     ELSE IF call = "poll" THEN Return("Pending")
     ELSE pc' = "recv" /\ UNCHANGED last
  /\ UNCHANGED <<callRest, poolVars, outVars>>

(* recv_timeout expires.  Nothing is cancelled. *)
TimeOut ==
  /\ pc = "recv" /\ call = "timed"
  /\ "timeout" \in Faults
  /\ Return("TimedOut")
  /\ UNCHANGED <<callRest, poolVars, outVars>>

(* Mutant: failures are ranked by task id alone. *)
PrecedesById(f, g) == f[1] <= g[1]

(* The failure ready() reports: first by "was it cancelled", then by id. *)
Precedes(f, g) ==
  \/ f[2] # "Cancelled" /\ g[2] = "Cancelled"
  \/ (f[2] = "Cancelled" <=> g[2] = "Cancelled") /\ f[1] <= g[1]

First(F) == CHOOSE f \in F : \A g \in F : Precedes(f, g)

(* Mutant: every call picks the first of the remaining failures. *)
ReadyPicksAgain ==
  /\ pc = "drain" /\ chan = <<>>
  /\ completed >= plan[cur].tasks
  /\ IF failures # {}
     THEN failure' = First(failures) /\ failures' = failures \ {First(failures)}
     ELSE UNCHANGED <<failure, failures>>
  /\ Return(IF failure' # None THEN "BatchFailed" ELSE "Ready")
  /\ UNCHANGED <<callRest, workers, received, completed, artifacts, outVars,
                 sharedVars>>

(* Mutant: the batch waits for one completion too many. *)
ReadyOffByOne ==
  /\ pc = "drain" /\ chan = <<>>
  /\ completed > plan[cur].tasks
  /\ Return("Ready")
  /\ UNCHANGED <<callRest, workers, received, completed, artifacts, failures, failure,
                 outVars, sharedVars>>

(* ready() once every completion is in. *)
Ready ==
  /\ pc = "drain" /\ chan = <<>>
  /\ completed >= plan[cur].tasks
  /\ IF failure = None /\ failures # {}
     THEN failure' = First(failures) /\ failures' = failures \ {First(failures)}
     ELSE UNCHANGED <<failure, failures>>
  /\ IF failure' # None THEN Return("BatchFailed")
     ELSE IF cancelled[cur] THEN Return("Cancelled")
     ELSE IF ~Finishing THEN Return("Ready")
     ELSE pc' = "validate" /\ UNCHANGED last
  /\ UNCHANGED <<callRest, workers, received, completed, artifacts, outVars,
                 sharedVars>>

-----------------------------------------------------------------------------
(* Validation and assembly. *)

(* The second look at the source: its length, and its identity too. *)
SourceChanged ==
  \/ policy \in {"VerifyLength", "VerifyLengthAndIdentity"} /\ srcLen # plan[cur].len
  \/ policy = "VerifyLengthAndIdentity" /\ srcVer # plan[cur].ident

(* Every task left an artifact and the descriptors, taken in task order,
   are the plan's segments. *)
DescriptorsMatch ==
  \A i \in 0 .. plan[cur].tasks - 1 :
    /\ artifacts[i] # None
    /\ Len(artifacts[i]) = TaskSegments(plan[cur].segs, plan[cur].tasks, i)
    /\ \A k \in 1 .. Len(artifacts[i]) :
         artifacts[i][k].seg = FirstSegment(plan[cur].segs, plan[cur].tasks, i) + k - 1

Validate ==
  /\ pc = "validate"
  /\ IF SourceChanged THEN Return("SourceChanged")
     ELSE IF ~DescriptorsMatch THEN Return("FragmentInvariant")
     ELSE pc' = "assemble" /\ UNCHANGED last
  /\ next' = 0 /\ copied' = 0
  /\ UNCHANGED <<callRest, poolVars, dst, mark>>

(* The source's length, or the length of a spool, cannot be read. *)
ValidateFails ==
  /\ pc = "validate"
  /\ "meta" \in Faults
  /\ Return("SourceMetadata")
  /\ UNCHANGED <<callRest, poolVars, outVars>>

Whole(kind) == [seg |-> 0, ver |-> 0, cfg |-> encoder, kind |-> kind]

(* Assembly is over: every artifact and the last item were copied. *)
Complete == next > plan[cur].tasks

(* The next fragment of the next artifact. *)
CopyFragment ==
  /\ pc = "assemble" /\ next < plan[cur].tasks
  /\ copied < Len(artifacts[next])
  /\ dst' = Append(dst, artifacts[next][copied + 1])
  /\ copied' = copied + 1
  /\ UNCHANGED <<callRest, poolVars, pc, last, mark, next>>

(* The artifact is copied, on to the next task's. *)
NextArtifact ==
  /\ pc = "assemble" /\ next < plan[cur].tasks
  /\ copied = Len(artifacts[next])
  /\ next' = next + 1
  /\ copied' = 0
  /\ UNCHANGED <<callRest, poolVars, pc, last, dst, mark>>

(* The terminator after the fragments, nothing after a serial stream, or the
   empty stream made by prepare when there are no tasks. *)
CopyLast ==
  /\ pc = "assemble" /\ next = plan[cur].tasks
  /\ dst' = IF plan[cur].tasks = 0 THEN Append(dst, Whole("empty"))
            ELSE IF plan[cur].serial THEN dst
            ELSE Append(dst, Whole("terminator"))
  /\ next' = next + 1
  /\ UNCHANGED <<callRest, poolVars, pc, last, mark, copied>>

(* Mutant: the vector is not rolled back. *)
CopyFailsHalfway ==
  /\ pc = "assemble" /\ ~Complete
  /\ "write" \in Faults
  /\ Return("AssemblyIo")
  /\ UNCHANGED <<callRest, poolVars, dst, mark, next, copied>>

(* A spool read or the writer fails: the vector is truncated back, a writer
   keeps what it accepted. *)
CopyFails ==
  /\ pc = "assemble" /\ ~Complete
  /\ "write" \in Faults
  /\ dst' = IF call = "vec" THEN SubSeq(dst, 1, mark) ELSE dst
  /\ Return("AssemblyIo")
  /\ UNCHANGED <<callRest, poolVars, mark, next, copied>>

(* Everything is copied: trim the reservoir and return the statistics. *)
Assembled ==
  /\ pc = "assemble" /\ Complete
  /\ workers' = Trimmed
  /\ Return("Ok")
  /\ UNCHANGED <<callRest, joinVars, outVars, sharedVars>>

-----------------------------------------------------------------------------
(* Dropping the batch. *)

(* Cancel, then drop the tasks that were never taken: each publishes its own
   abandonment, in order, into the empty channel. *)
DropBatch ==
  /\ pc \in {"open", "drop"}
  /\ pc' = "dropping"
  /\ call' = IF pc = "open" THEN "drop" ELSE call
  /\ cancelled' = [cancelled EXCEPT ![cur] = TRUE]
  /\ IF taken THEN UNCHANGED <<slot, chan, taskVars>>
     ELSE LET n == plan[cur].tasks
              mine == {t \in Tasks : t[1] = cur /\ t[2] < n} IN
       /\ slot' = [i \in Ids |-> IF i < n THEN Completion(<<cur, i>>, "TaskAbandoned")
                                 ELSE slot[i]]
       /\ chan' = chan \o [k \in 1 .. n |-> k - 1]
       /\ tpc' = [t \in Tasks |-> IF t \in mine THEN "done" ELSE tpc[t]]
       /\ worker' = [t \in Tasks |-> IF t \in mine THEN None ELSE worker[t]]
       /\ result' = [t \in Tasks |-> IF t \in mine THEN "TaskAbandoned" ELSE result[t]]
       /\ UNCHANGED <<seg, artifact, buffer>>
  /\ UNCHANGED <<coordRest, workers, joinVars, last, outVars>>

(* Take what was already published, ignoring what receive() thinks of it. *)
DropDrain ==
  /\ pc = "dropping" /\ chan # <<>>
  /\ chan' = Tail(chan)
  /\ IF Acceptable(Head(chan)) THEN Collect(Head(chan))
     ELSE UNCHANGED <<workers, joinVars, cancelled, slot>>
  /\ UNCHANGED <<callRest, pc, last, outVars>>

(* Mutant: the destructor joins its tasks. *)
DropDoneJoining ==
  /\ pc = "dropping" /\ chan = <<>>
  /\ SendersGone
  /\ pc' = "idle"
  /\ workers' = Trimmed
  /\ received' = {} /\ completed' = 0
  /\ artifacts' = [i \in Ids |-> None]
  /\ failures' = {} /\ failure' = None
  /\ slot' = [i \in Ids |-> None]
  /\ UNCHANGED <<callRest, last, outVars, cancelled, chan>>

(* Trim and release; late completions of detached tasks are freed. *)
DropDone ==
  /\ pc = "dropping" /\ chan = <<>>
  /\ pc' = "idle"
  /\ workers' = Trimmed
  /\ received' = {} /\ completed' = 0
  /\ artifacts' = [i \in Ids |-> None]
  /\ failures' = {} /\ failure' = None
  /\ slot' = [i \in Ids |-> None]
  /\ UNCHANGED <<callRest, last, outVars, cancelled, chan>>

-----------------------------------------------------------------------------
CoordinatorStep ==
  \/ Prepare \/ Receive \/ Pending \/ Ready \/ Validate
  \/ CopyFragment \/ NextArtifact \/ CopyLast \/ Assembled \/ DropDrain \/ DropDone

CallerStep ==
  \/ PrepareLen \/ TakeTasks \/ Cancel \/ DropBatch
  \/ \E k \in Calls : Begin(k)
  \/ \E c \in Configs : Reconfigure(c)
  \/ \E n \in 0 .. MaxRetain : ReconfigureParallel(n) \/ Trim(n)

FaultStep == PrepareFails \/ TimeOut \/ ValidateFails \/ CopyFails \/ ChangeSource

Next ==
  \/ CallerStep \/ CoordinatorStep \/ FaultStep
  \/ \E t \in Tasks : TaskStep(t)

Spec == Init /\ [][Next]_vars

(* For TLC: no action tells one configuration from another. *)
ConfigSymmetry == Permutations(Configs)

(* Threads of the executor are scheduled, and the executor runs or drops
   every task it was given. *)
TaskFairness == \A t \in Tasks : WF_vars(TaskStep(t))

(* The coordinator's thread is scheduled inside a call and in the destructor
   that follows a finish; nothing obliges the caller to make the next call. *)
CoordinatorFairness ==
  WF_vars(CoordinatorStep) /\ WF_vars(pc = "drop" /\ DropBatch)
-----------------------------------------------------------------------------
ParentTypes ==
  /\ encoder \in Configs
  /\ maxRetained \in Nat
  /\ policy \in AllPolicies
  /\ workers \in Seq(Workers)
  /\ srcLen \in Nat /\ srcVer \in Nat

BatchTypes ==
  /\ cur \in 0 .. MaxBatches
  /\ pc \in {"idle", "prepare", "open", "drain", "recv", "validate", "assemble",
             "drop", "dropping"}
  /\ pc # "idle" => cur \in Batches
  /\ call \in AllCalls \cup {"drop"}
  /\ taken \in BOOLEAN
  /\ plan \in [Batches -> Plans]
  /\ userCancelled \in BOOLEAN

JoinTypes ==
  /\ received \subseteq Ids
  /\ completed \in Nat
  /\ artifacts \in [Ids -> Seq(Fragments) \cup {None}]
  /\ failures \subseteq Ids \X Errors
  /\ failure \in (Ids \X Errors) \cup {None}

SharedTypes ==
  /\ cancelled \in [Batches -> BOOLEAN]
  /\ slot \in [Ids -> Completions \cup {None}]
  /\ chan \in Seq(Ids)

TaskTypes ==
  /\ tpc \in [Tasks -> {"none", "held", "queued", "check", "read", "encode",
                        "commit", "fail", "publish", "send", "abandoned", "done"}]
  /\ seg \in [Tasks -> Nat]
  /\ worker \in [Tasks -> Workers \cup {None}]
  /\ artifact \in [Tasks -> Seq(Fragments)]
  /\ buffer \in [Tasks -> Nat]
  /\ result \in [Tasks -> Errors \cup {"Ok"}]

OutTypes ==
  /\ dst \in Seq(Items)
  /\ mark \in 0 .. Len(dst) /\ next \in Nat /\ copied \in Nat

(* Type correctness of every variable of the batch, its tasks and its
   parent. *)
TypeOK ==
  ParentTypes /\ BatchTypes /\ JoinTypes /\ SharedTypes /\ TaskTypes /\ OutTypes

(* Every "FragmentInvariant" branch of the coordinator is unreachable: each
   task is heard of exactly once, its slot is full when its id arrives, the
   channel never closes early and the artifacts match the plan, whatever the
   order in which tasks run, fail, panic or are dropped. *)
NoBrokenInvariant == last # "FragmentInvariant"

(* Cancellation fallout never hides its cause: a batch reports Cancelled only
   if the caller cancelled it, and otherwise the originating error with the
   lowest task id (ready in batch.rs). *)
OriginatingError ==
  /\ failure # None /\ failure[2] = "Cancelled" => userCancelled
  /\ last = "Cancelled" => userCancelled
  /\ failure # None => \A f \in failures : Precedes(failure, f)

(* What is written to the destination is at every moment a prefix of one
   stream: the segments in order, each encoded from the source version the
   batch was prepared on and under the batch's configuration, then the
   terminator.  The source can change at any time; the claim is made for
   inputs that cannot change and for the identity policy. *)
OutputIsOneStream ==
  pc \in {"assemble", "drop", "dropping"} /\ Finishing
  /\ policy \in {"Slice", "VerifyLengthAndIdentity"} =>
    \A k \in mark + 1 .. Len(dst) :
      LET item == dst[k]
          n    == k - mark - 1
      IN IF plan[cur].tasks = 0 THEN n = 0 /\ item = Whole("empty")
         ELSE IF n = plan[cur].segs THEN ~plan[cur].serial /\ item = Whole("terminator")
         ELSE item = [seg |-> n, ver |-> plan[cur].ident, cfg |-> encoder,
                      kind |-> IF plan[cur].serial THEN "stream" ELSE "part"]

(* Items of a whole stream. *)
StreamItems == IF plan[cur].tasks = 0 THEN 1
               ELSE plan[cur].segs + (IF plan[cur].serial THEN 0 ELSE 1)

(* finish_into is all or nothing: the vector holds the whole stream after
   success and its old contents after any error. *)
VecIsTransactional ==
  pc \in {"drop", "dropping"} /\ call = "vec" =>
    Len(dst) = mark + (IF last = "Ok" THEN StreamItems ELSE 0)

(* Between batches the reservoir holds at most the retained count of workers,
   all built for the current configuration and none that saw a panic, even
   while detached tasks of dropped batches still run with old workers. *)
ReservoirSound ==
  /\ \A k \in 1 .. Len(workers) : workers[k] = Fresh
  /\ pc = "idle" => Len(workers) <= maxRetained

(* A task's completion never waits for the coordinator: the channel has room
   for every task's id when the task sends. *)
SendNeverBlocks ==
  \A t \in Tasks : tpc[t] = "send" /\ t[1] = cur /\ Live => Len(chan) < Capacity(cur)

(* Dropping a batch never waits for detached work: the destructor ends even
   if no task ever takes another step. *)
DropNeverWaits == CoordinatorFairness => (pc = "dropping" ~> pc = "idle")

(* A task needs no coordinator: once the executor has it, it is done in the
   end even if the batch is never polled, waited for or dropped. *)
TasksFinish ==
  TaskFairness => \A t \in Tasks : (tpc[t] = "queued" ~> tpc[t] = "done")

(* Every call returns: with the tasks running, wait and the finishing calls
   come back, through failures, panics and abandoned tasks alike. *)
CallsReturn ==
  TaskFairness /\ CoordinatorFairness =>
    (pc \in {"drain", "recv"} ~> pc \in {"open", "idle"})

(* The reported failure is settled once: later polls and waits of the batch
   return the same error. *)
FailureIsStable == [][failure # None /\ pc' # "idle" => failure' = failure]_vars

(* What a finishing call gives its caller, in whatever order the tasks run,
   fail, panic or are dropped: a prefix of the one stream, all of it or none
   in a vector, and never an error about the batch's own bookkeeping. *)
ResultIsWhole == OutputIsOneStream /\ VecIsTransactional /\ NoBrokenInvariant

(* A batch that is reused yields one stream as before, and only sound workers
   of the current configuration are kept for the next. *)
ReuseIsSound == OutputIsOneStream /\ ReservoirSound

(* A batch that is used comes to an end, and so does one that is not. *)
CallsAndTasksEnd == CallsReturn /\ TasksFinish
=============================================================================
