--------------------------- MODULE ParallelPrepare ---------------------------
(***************************************************************************)
(* Planning a parallel batch in machine integers: plan() with its checked  *)
(* arithmetic and memory limits, then the loop of prepare() that creates   *)
(* one task after another with its own checked arithmetic.  Every constant *)
(* of the code is a parameter, so that the widths can be made small enough *)
(* for every overflow to be met.                                           *)
(* Source: src/src/compressor/parallel/core/{mod,batch,artifact}.rs.       *)
(***************************************************************************)
EXTENDS Integers, Sequences, ParallelPlan

CONSTANTS
  U64Max, UsizeMax,   \* largest u64 and usize
  PartOverhead,       \* 1024 bytes allowed per fragment
  DescriptorBytes,    \* size_of::<Descriptor>()
  WorkerBase, WorkerScale, TaskBytes, ScratchBytes,  \* workspace estimate
  Lens, SegmentSizes, TaskCounts, MinParallels, Limits, Retained \* requests

ASSUME WidthAssumption ==
  /\ U64Max \in Nat /\ UsizeMax \in 1 .. U64Max
  /\ PartOverhead \in Nat \ {0} /\ DescriptorBytes \in Nat \ {0}
  /\ {WorkerBase, WorkerScale, TaskBytes, ScratchBytes} \subseteq Nat
  /\ Lens \subseteq 0 .. U64Max
  /\ SegmentSizes \subseteq 1 .. UsizeMax
  /\ TaskCounts \subseteq 1 .. UsizeMax
  /\ MinParallels \subseteq 0 .. U64Max
  /\ Limits \subseteq 0 .. UsizeMax
  /\ Retained \subseteq 0 .. UsizeMax

VARIABLES
  req,      \* what the caller asks for
  pc,       \* "plan", "tasks", "ready" or "error"
  error,    \* the error returned
  plan,     \* the plan
  segment,  \* prepare's running segment counter
  tasks,    \* the tasks created so far
  reserved  \* staging bytes promised to them

vars == <<req, pc, error, plan, segment, tasks, reserved>>

(* checked_add and checked_mul: Overflow is absorbing. *)
Overflow == -1

Checked(x, max) == IF x > max THEN Overflow ELSE x

CheckedAdd(a, b, max) ==
  IF Overflow \in {a, b} THEN Overflow ELSE Checked(a + b, max)

CheckedMul(a, b, max) ==
  IF Overflow \in {a, b} THEN Overflow ELSE Checked(a * b, max)

(* usize::try_from, on a value that may already have overflowed *)
ToUsize(a) == IF a = Overflow THEN Overflow ELSE Checked(a, UsizeMax)

AtLeastOne(n) == IF n = 0 THEN 1 ELSE n

(* A memory limit of Overflow stands for "no limit" (directory staging, or
   no aggregate limit). *)
NoLimit == -1

Requests ==
  [len : Lens, size : SegmentSizes, count : TaskCounts, min : MinParallels,
   staging : Limits \cup {NoLimit}, aggregate : Limits \cup {NoLimit},
   retained : Retained]

NoPlan == [segs |-> 0, tasks |-> 0, serial |-> FALSE, staged |-> 0]

Init ==
  /\ req \in Requests
  /\ pc = "plan" /\ error = "none" /\ plan = NoPlan
  /\ segment = 0 /\ tasks = <<>> /\ reserved = 0

-----------------------------------------------------------------------------
(* Mutant: one fragment's overhead for the whole batch. *)
StagedOnePart(r) == CheckedAdd(CheckedMul(r.len, 2, U64Max), PartOverhead, U64Max)

(* Bytes all artifacts together may hold. *)
Staged(r) ==
  CheckedAdd(CheckedMul(r.len, 2, U64Max),
             CheckedMul(AtLeastOne(Segments(r.len, r.size)), PartOverhead, U64Max),
             U64Max)

Descriptors(r) == CheckedMul(Segments(r.len, r.size), DescriptorBytes, U64Max)

(* staging_memory_bound *)
StagingMemoryBound(r) == CheckedAdd(Staged(r), Descriptors(r), U64Max)

(* The conservative ceiling on the workspace of all tasks at once. *)
Active(r) ==
  LET perWorker == CheckedAdd(CheckedMul(r.size, WorkerScale, UsizeMax), WorkerBase, UsizeMax)
      n == EffectiveTasks(r.len, r.size, r.count)
      workersBytes == CheckedAdd(CheckedMul(perWorker, n, UsizeMax),
                                 ToUsize(Descriptors(r)), UsizeMax)
  IN CheckedAdd(CheckedAdd(workersBytes, CheckedMul(n, TaskBytes, UsizeMax), UsizeMax),
                ScratchBytes, UsizeMax)

Aggregate(r) ==
  CheckedAdd(CheckedAdd(Active(r), IF r.staging = NoLimit THEN 0 ELSE ToUsize(Staged(r)),
                        UsizeMax),
             r.retained, UsizeMax)

(* The result of plan(): its first error, in the order of the code. *)
PlanError(r) ==
  IF Overflow \in {Staged(r), Descriptors(r), Active(r)} THEN "SizeOverflow"
  ELSE IF r.staging # NoLimit /\ ToUsize(StagingMemoryBound(r)) = Overflow
    THEN "SizeOverflow"
  ELSE IF r.staging # NoLimit /\ StagingMemoryBound(r) > r.staging
    THEN "MemoryStagingLimit"
  ELSE IF Aggregate(r) = Overflow THEN "SizeOverflow"
  ELSE IF r.aggregate # NoLimit /\ Aggregate(r) > r.aggregate THEN "WorkerMemoryLimit"
  ELSE IF CheckedAdd(Staged(r), 1, U64Max) = Overflow THEN "SizeOverflow"
  ELSE "none"

MakePlan ==
  /\ pc = "plan"
  /\ error' = PlanError(req)
  /\ IF PlanError(req) = "none"
     THEN /\ pc' = "tasks"
          /\ plan' = [segs |-> Segments(req.len, req.size),
                      tasks |-> EffectiveTasks(req.len, req.size, req.count),
                      serial |-> IsSerial(req.len, req.size, req.min),
                      staged |-> Staged(req)]
     ELSE pc' = "error" /\ UNCHANGED plan
  /\ UNCHANGED <<req, segment, tasks, reserved>>

(* Plan::source_range: its start, and its error. *)
RangeStart(s) == CheckedMul(s, req.size, U64Max)
RangeError(s) ==
  IF RangeStart(s) = Overflow THEN "SizeOverflow"
  ELSE IF RangeStart(s) >= SourceEnd(req.len, req.size, s) THEN "FragmentInvariant"
  ELSE "none"

(* One turn of the loop: the segments of the next task, their source bytes
   and the bound of its artifact. *)
AddTask ==
  /\ pc = "tasks"
  /\ Len(tasks) < plan.tasks
  /\ LET count == TaskSegments(plan.segs, plan.tasks, Len(tasks))
         end   == CheckedAdd(segment, count, U64Max)
         first == RangeStart(segment)
         stop  == SourceEnd(req.len, req.size, end - 1)
         bound == CheckedAdd(CheckedMul(stop - first, 2, U64Max),
                             CheckedMul(count, PartOverhead, U64Max), U64Max)
         e == CASE end = Overflow -> "SizeOverflow"
                [] end # Overflow /\ RangeError(segment) # "none" -> RangeError(segment)
                [] end # Overflow /\ RangeError(segment) = "none"
                   /\ RangeError(end - 1) # "none" -> RangeError(end - 1)
                [] OTHER -> IF Overflow \in {bound, ToUsize(count)} THEN "SizeOverflow"
                            ELSE "none"
     IN IF e # "none"
        THEN /\ pc' = "error" /\ error' = e
             /\ UNCHANGED <<segment, tasks, reserved>>
        ELSE /\ tasks' = Append(tasks, [first |-> segment, end |-> end,
                                        start |-> first, stop |-> stop, bound |-> bound])
             /\ segment' = end
             /\ reserved' = reserved + bound
             /\ UNCHANGED <<pc, error>>
  /\ UNCHANGED <<req, plan>>

Prepared ==
  /\ pc = "tasks"
  /\ Len(tasks) = plan.tasks
  /\ pc' = "ready"
  /\ UNCHANGED <<req, error, plan, segment, tasks, reserved>>

Next == MakePlan \/ AddTask \/ Prepared

Spec == Init /\ [][Next]_vars
-----------------------------------------------------------------------------
(* Once plan() accepted a request, no checked operation of prepare() fails
   and no source range is empty: the late errors are unreachable. *)
PlanSuffices == pc = "error" => plan = NoPlan

(* The tasks created so far tile a prefix of the input: consecutive nonempty
   segment ranges starting where the closed form says, consecutive source
   ranges; a complete batch covers every segment and every byte once, and no
   task has more than one segment more than another. *)
TasksTile ==
  /\ \A i \in 1 .. Len(tasks) :
       /\ tasks[i].first = FirstSegment(plan.segs, plan.tasks, i - 1)
       /\ tasks[i].first < tasks[i].end
       /\ tasks[i].start = (IF i = 1 THEN 0 ELSE tasks[i-1].stop)
       /\ tasks[i].first = (IF i = 1 THEN 0 ELSE tasks[i-1].end)
  /\ \A i, j \in 1 .. Len(tasks) :
       tasks[i].end - tasks[i].first <= tasks[j].end - tasks[j].first + 1
  /\ pc = "ready" /\ req.len > 0 =>
       /\ tasks[Len(tasks)].end = plan.segs
       /\ tasks[Len(tasks)].stop = req.len

(* What the tasks may stage never exceeds what plan() accounted for, nor the
   memory limit the caller set, and the final stream (one byte more) still
   has a u64 length. *)
StagingWithinPlan ==
  pc \in {"tasks", "ready"} =>
    /\ reserved <= plan.staged
    /\ req.staging # NoLimit => reserved + plan.segs * DescriptorBytes <= req.staging
    /\ plan.staged + 1 <= U64Max

(* What plan() accepted is enough and is not exceeded: no late error, and the
   tasks stage no more than was accounted for. *)
PlanHolds == PlanSuffices /\ StagingWithinPlan
=============================================================================
