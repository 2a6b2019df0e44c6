------------------------ MODULE ParallelPrepareProofs ------------------------
(***************************************************************************)
(* A batch that plan() accepts is prepared without a late error, its tasks *)
(* tile the input, and they stage no more than was accounted for: proved   *)
(* for every integer width, overhead, limit and request.                   *)
(***************************************************************************)
EXTENDS ParallelPrepare

-----------------------------------------------------------------------------
(* Source ranges. *)

(* Source bytes of the first s segments. *)
Covered(len, z, s) == IF s * z <= len THEN s * z ELSE len

(* Every segment starts inside the input, every one but the last is whole,
   and the last ends with the input. *)
LEMMA SegmentsCover ==
  ASSUME NEW len \in Nat, NEW z \in Nat \ {0}
  PROVE  /\ Segments(len, z) \in Nat
         /\ Segments(len, z) = 0 <=> len = 0
         /\ \A s \in Nat : s < Segments(len, z) => s * z \in Nat /\ s * z < len
         /\ len <= Segments(len, z) * z
<1> DEFINE q == len \div z
           r == len % z
<1>1. q \in Nat /\ r \in 0 .. z - 1 /\ len = z * q + r
  OBVIOUS
<1>2. Segments(len, z) = q + (IF r = 0 THEN 0 ELSE 1)
  BY DEF Segments
<1> HIDE DEF q, r
<1>3. z * q = q * z /\ q * z \in Nat /\ (q + 1) * z = q * z + z
  BY <1>1
<1>4. q = 0 => q * z = 0
  BY <1>1
<1>5. q > 0 => q * z >= 1 * z
  BY <1>1, TimesMonotone
<1>6. ASSUME NEW s \in Nat, s < Segments(len, z) PROVE s * z \in Nat /\ s * z < len
  <2>1. s * z \in Nat /\ (s + 1) * z = s * z + z /\ s + 1 \in Nat
    OBVIOUS
  <2>2. CASE r = 0
    <3>1. s + 1 <= q
      BY <1>1, <1>2, <1>6, <2>2
    <3>2. (s + 1) * z <= q * z
      BY <1>1, <2>1, <3>1, TimesMonotone
    <3> QED
      BY <1>1, <1>3, <2>1, <2>2, <3>2
  <2>3. CASE r # 0
    <3>1. s <= q
      BY <1>1, <1>2, <1>6, <2>3
    <3>2. s * z <= q * z
      BY <1>1, <3>1, TimesMonotone
    <3> QED
      BY <1>1, <1>3, <2>1, <2>3, <3>2
  <2> QED
    BY <2>2, <2>3
<1>7. Segments(len, z) \in Nat /\ (Segments(len, z) = 0 <=> len = 0)
  <2>1. CASE q = 0
    BY <1>1, <1>2, <1>3, <1>4, <2>1
  <2>2. CASE q > 0
    BY <1>1, <1>2, <1>3, <1>5, <2>2
  <2> QED
    BY <1>1, <2>1, <2>2
<1>8. len <= Segments(len, z) * z
  BY <1>1, <1>2, <1>3
<1> QED
  BY <1>6, <1>7, <1>8

(* A segment ends where the first segments up to it do. *)
LEMMA EndIsCovered ==
  ASSUME NEW len \in Nat, NEW z \in Nat \ {0}, NEW s \in Nat \ {0}
  PROVE  /\ SourceEnd(len, z, s - 1) = Covered(len, z, s)
         /\ Covered(len, z, s) \in Nat /\ Covered(len, z, s) <= len
<1>1. (s - 1) * z + z = s * z /\ s * z \in Nat
  OBVIOUS
<1> QED
  BY <1>1 DEF SourceEnd, Covered

(* The first segments cover whole segments, all of them the input. *)
LEMMA CoveredRanges ==
  ASSUME NEW len \in Nat, NEW z \in Nat \ {0}, NEW s \in Nat
  PROVE  /\ s < Segments(len, z) => Covered(len, z, s) = s * z /\ s * z < len
         /\ s = Segments(len, z) => Covered(len, z, s) = len
         /\ Covered(len, z, s) \in Nat /\ Covered(len, z, s) <= len
<1>1. s * z \in Nat
  OBVIOUS
<1> QED
  BY <1>1, SegmentsCover DEF Covered

(* Further segments cover more. *)
LEMMA CoveredMonotone ==
  ASSUME NEW len \in Nat, NEW z \in Nat \ {0}, NEW s \in Nat, NEW t \in Nat, s <= t
  PROVE  Covered(len, z, s) <= Covered(len, z, t)
<1>1. s * z <= t * z /\ s * z \in Nat /\ t * z \in Nat
  BY TimesMonotone
<1> QED
  BY <1>1 DEF Covered

-----------------------------------------------------------------------------
(* Checked arithmetic. *)

MaybeNat == Nat \cup {Overflow}

(* A checked sum is the sum, if that fits. *)
LEMMA CheckedSum ==
  ASSUME NEW a \in MaybeNat, NEW b \in MaybeNat, NEW max \in Nat
  PROVE  /\ CheckedAdd(a, b, max) \in MaybeNat
         /\ CheckedAdd(a, b, max) # Overflow =>
              a \in Nat /\ b \in Nat /\ a + b <= max /\ CheckedAdd(a, b, max) = a + b
         /\ a \in Nat /\ b \in Nat /\ a + b <= max => CheckedAdd(a, b, max) = a + b
BY DEF CheckedAdd, Checked, Overflow, MaybeNat

(* A checked product is the product, if that fits. *)
LEMMA CheckedProduct ==
  ASSUME NEW a \in MaybeNat, NEW b \in MaybeNat, NEW max \in Nat
  PROVE  /\ CheckedMul(a, b, max) \in MaybeNat
         /\ CheckedMul(a, b, max) # Overflow =>
              a \in Nat /\ b \in Nat /\ a * b <= max /\ CheckedMul(a, b, max) = a * b
         /\ a \in Nat /\ b \in Nat /\ a * b <= max => CheckedMul(a, b, max) = a * b
<1>1. a \in Nat /\ b \in Nat => a * b \in Nat
  OBVIOUS
<1> QED
  BY <1>1 DEF CheckedMul, Checked, Overflow, MaybeNat


-----------------------------------------------------------------------------
(* The inductive invariant. *)

PrepareTypes ==
  /\ req \in Requests
  /\ pc \in {"plan", "tasks", "ready", "error"}
  /\ tasks \in Seq([first : Nat, end : Nat, start : Nat, stop : Nat, bound : Nat])
  /\ segment \in Nat /\ reserved \in Nat

(* No plan, no tasks. *)
Unplanned ==
  pc \in {"plan", "error"} => plan = NoPlan /\ tasks = <<>> /\ segment = 0 /\ reserved = 0

(* The plan is the one of an accepted request. *)
Accepted ==
  pc \in {"tasks", "ready"} =>
    /\ PlanError(req) = "none"
    /\ plan.segs = Segments(req.len, req.size)
    /\ plan.tasks = EffectiveTasks(req.len, req.size, req.count)
    /\ plan.staged = Staged(req)

(* The task at position i covers its segments and their source bytes. *)
Tile(i) ==
  LET first == FirstSegment(plan.segs, plan.tasks, i - 1)
      end   == FirstSegment(plan.segs, plan.tasks, i)
  IN /\ tasks[i].first = first /\ tasks[i].end = end
     /\ tasks[i].start = first * req.size
     /\ tasks[i].stop = Covered(req.len, req.size, end)

Tiled ==
  /\ Len(tasks) <= plan.tasks
  /\ pc = "ready" => Len(tasks) = plan.tasks
  /\ \A i \in 1 .. Len(tasks) : Tile(i)

(* The running counters of the loop, in closed form. *)
Running ==
  /\ segment = IF plan.tasks = 0 THEN 0 ELSE FirstSegment(plan.segs, plan.tasks, Len(tasks))
  /\ reserved = 2 * Covered(req.len, req.size, segment) + segment * PartOverhead

PrepareInv == PrepareTypes /\ Unplanned /\ Accepted /\ Tiled /\ Running


-----------------------------------------------------------------------------
(* What plan() accepts. *)

(* The ranges of what a caller may ask for. *)
LEMMA RequestRanges ==
  ASSUME req \in Requests
  PROVE  /\ req.len \in Nat /\ req.len <= U64Max
         /\ req.size \in Nat \ {0} /\ req.count \in Nat \ {0}
         /\ req.staging \in Nat \cup {NoLimit}
         /\ U64Max \in Nat /\ UsizeMax \in Nat /\ UsizeMax <= U64Max
         /\ PartOverhead \in Nat \ {0} /\ DescriptorBytes \in Nat \ {0}
<1>1. req.len \in Lens /\ req.size \in SegmentSizes /\ req.count \in TaskCounts
      /\ req.staging \in Limits \cup {NoLimit}
  BY DEF Requests
<1>2. /\ U64Max \in Nat /\ UsizeMax \in Nat /\ UsizeMax <= U64Max
      /\ PartOverhead \in Nat \ {0} /\ DescriptorBytes \in Nat \ {0}
  BY WidthAssumption
<1>3. /\ req.len \in 0 .. U64Max /\ req.size \in 1 .. UsizeMax /\ req.count \in 1 .. UsizeMax
      /\ req.staging \in 0 .. UsizeMax \/ req.staging = NoLimit
  BY <1>1, WidthAssumption
<1> QED
  BY <1>2, <1>3

(* An accepted request's bounds are the exact sums, within their widths and
   within the caller's limit on staging. *)
LEMMA PlanAdmits ==
  ASSUME req \in Requests, PlanError(req) = "none"
  PROVE  /\ Segments(req.len, req.size) <= UsizeMax
         /\ Staged(req) = req.len * 2 + AtLeastOne(Segments(req.len, req.size)) * PartOverhead
         /\ Staged(req) \in Nat /\ Staged(req) + 1 <= U64Max
         /\ req.staging # NoLimit =>
              Staged(req) + Segments(req.len, req.size) * DescriptorBytes <= req.staging
<1> DEFINE S == Segments(req.len, req.size)
<1>1. S \in Nat /\ AtLeastOne(S) \in Nat
  BY RequestRanges, SegmentsCover DEF AtLeastOne
<1> HIDE DEF S
<1>2. /\ Staged(req) # Overflow /\ Descriptors(req) # Overflow /\ Active(req) # Overflow
      /\ CheckedAdd(Staged(req), 1, U64Max) # Overflow
      /\ req.staging # NoLimit =>
           ToUsize(StagingMemoryBound(req)) # Overflow /\ ~ (StagingMemoryBound(req) > req.staging)
  BY DEF PlanError
<1>3. \A n \in Nat : n \in MaybeNat
  BY DEF MaybeNat
<1>4. Staged(req) = req.len * 2 + AtLeastOne(S) * PartOverhead /\ Staged(req) \in Nat
  <2> DEFINE a == CheckedMul(req.len, 2, U64Max)
             b == CheckedMul(AtLeastOne(S), PartOverhead, U64Max)
  <2>1. a \in MaybeNat /\ (a # Overflow => a = req.len * 2)
    BY <1>3, RequestRanges, CheckedProduct
  <2>2. b \in MaybeNat /\ (b # Overflow => b = AtLeastOne(S) * PartOverhead)
    BY <1>1, <1>3, RequestRanges, CheckedProduct
  <2>3. CheckedAdd(a, b, U64Max) # Overflow
    BY <1>2 DEF Staged, S
  <2> HIDE DEF a, b
  <2>4. a \in Nat /\ b \in Nat /\ CheckedAdd(a, b, U64Max) = a + b
    BY <2>1, <2>2, <2>3, RequestRanges, CheckedSum
  <2>5. a # Overflow /\ b # Overflow
    BY <2>4 DEF Overflow
  <2>6. a = req.len * 2 /\ b = AtLeastOne(S) * PartOverhead
    BY <2>1, <2>2, <2>5
  <2>7. Staged(req) = a + b
    BY <2>4 DEF Staged, S, a, b
  <2> QED
    BY <2>4, <2>6, <2>7
<1>5. Staged(req) + 1 <= U64Max
  BY <1>2, <1>3, <1>4, RequestRanges, CheckedSum
<1>6. Descriptors(req) = S * DescriptorBytes /\ Descriptors(req) \in Nat
  <2>1. Descriptors(req) = CheckedMul(S, DescriptorBytes, U64Max)
    BY DEF Descriptors, S
  <2>2. S * DescriptorBytes \in Nat
    BY <1>1, RequestRanges
  <2> QED
    BY <1>1, <1>2, <1>3, <2>1, <2>2, RequestRanges, CheckedProduct
<1>7. S <= UsizeMax
  <2>1. \A x, m : CheckedAdd(x, Overflow, m) = Overflow /\ CheckedAdd(Overflow, x, m) = Overflow
    BY DEF CheckedAdd
  <2>2. ToUsize(Descriptors(req)) # Overflow
    BY <1>2, <2>1 DEF Active
  <2>3. Descriptors(req) <= UsizeMax
    BY <1>6, <2>2, RequestRanges DEF ToUsize, Checked
  <2>4. 1 * S <= DescriptorBytes * S
    BY <1>1, RequestRanges, TimesMonotone
  <2>5. DescriptorBytes * S = S * DescriptorBytes /\ 1 * S = S
    BY <1>1, RequestRanges
  <2> QED
    BY <1>1, <1>6, <2>3, <2>4, <2>5, RequestRanges
<1>8. req.staging # NoLimit => Staged(req) + S * DescriptorBytes <= req.staging
  <2> SUFFICES ASSUME req.staging # NoLimit
               PROVE  Staged(req) + S * DescriptorBytes <= req.staging
    OBVIOUS
  <2>1. StagingMemoryBound(req) # Overflow /\ StagingMemoryBound(req) \in MaybeNat
    <3>1. StagingMemoryBound(req) \in MaybeNat
      BY <1>3, <1>4, <1>6, RequestRanges, CheckedSum DEF StagingMemoryBound
    <3> QED
      BY <1>2, <3>1 DEF ToUsize
  <2>2. StagingMemoryBound(req) = Staged(req) + Descriptors(req) /\ StagingMemoryBound(req) \in Nat
    <3>1. StagingMemoryBound(req) \in Nat
      BY <2>1 DEF MaybeNat
    <3> QED
      BY <1>3, <1>4, <1>6, <2>1, <3>1, RequestRanges, CheckedSum DEF StagingMemoryBound
  <2>3. req.staging \in Nat
    BY RequestRanges
  <2> QED
    BY <1>2, <1>4, <1>6, <2>2, <2>3
<1> QED
  BY <1>4, <1>5, <1>7, <1>8 DEF S


(* A plan's segment has a nonempty source range whose ends fit. *)
LEMMA RangeFits ==
  ASSUME req \in Requests, NEW s \in Nat, s < Segments(req.len, req.size)
  PROVE  /\ RangeStart(s) = s * req.size /\ s * req.size \in Nat /\ RangeError(s) = "none"
         /\ SourceEnd(req.len, req.size, s) = Covered(req.len, req.size, s + 1)
<1>1. s * req.size \in Nat /\ s * req.size < req.len
  BY RequestRanges, SegmentsCover
<1>2. s * req.size <= U64Max
  BY <1>1, RequestRanges
<1>3. RangeStart(s) = s * req.size
  BY <1>1, <1>2, RequestRanges, CheckedProduct DEF RangeStart, MaybeNat
<1>4. SourceEnd(req.len, req.size, s) = Covered(req.len, req.size, s + 1)
  <2>1. (s + 1) * req.size = s * req.size + req.size
    BY RequestRanges
  <2> QED
    BY <2>1 DEF SourceEnd, Covered
<1>5. s * req.size < SourceEnd(req.len, req.size, s)
  BY <1>1, RequestRanges DEF SourceEnd
<1>6. SourceEnd(req.len, req.size, s) \in Int
  BY <1>1, RequestRanges DEF SourceEnd
<1>7. RangeStart(s) # Overflow /\ ~ (RangeStart(s) >= SourceEnd(req.len, req.size, s))
  BY <1>1, <1>3, <1>5, <1>6 DEF Overflow
<1> QED
  BY <1>1, <1>3, <1>4, <1>7 DEF RangeError

(* The next task's segments, and their source bytes. *)
NextCount == TaskSegments(plan.segs, plan.tasks, Len(tasks))
NextBytes == Covered(req.len, req.size, segment + NextCount) - segment * req.size

(* The counts of an accepted plan. *)
LEMMA PlanCounts ==
  ASSUME PrepareInv, pc \in {"tasks", "ready"}
  PROVE  /\ plan.segs = Segments(req.len, req.size)
         /\ plan.segs \in Nat /\ plan.tasks \in Nat /\ plan.tasks <= plan.segs
         /\ req.len > 0 => plan.tasks # 0
         /\ req.len \in Nat /\ req.size \in Nat \ {0} /\ PartOverhead \in Nat /\ DescriptorBytes \in Nat
<1>1. /\ req \in Requests /\ plan.segs = Segments(req.len, req.size)
      /\ plan.tasks = EffectiveTasks(req.len, req.size, req.count)
  BY DEF PrepareInv, PrepareTypes, Accepted
<1>2. /\ req.len \in Nat /\ req.size \in Nat \ {0} /\ req.count \in Nat \ {0}
      /\ PartOverhead \in Nat /\ DescriptorBytes \in Nat
  BY <1>1, RequestRanges
<1>3. /\ Segments(req.len, req.size) \in Nat
      /\ EffectiveTasks(req.len, req.size, req.count) \in 0 .. req.count
      /\ EffectiveTasks(req.len, req.size, req.count) <= Segments(req.len, req.size)
  <2>1. req.count \in Nat
    BY <1>2
  <2> QED
    BY <1>2, <2>1, SegmentsType
<1>4. req.len # 0 => Segments(req.len, req.size) # 0
  BY <1>2, SegmentsCover
<1>5. EffectiveTasks(req.len, req.size, req.count) = 0 => Segments(req.len, req.size) = 0
  BY <1>2 DEF EffectiveTasks
<1> QED
  BY <1>1, <1>2, <1>3, <1>4, <1>5

(* What the plan's shape gives the loop: the next task's segments. *)
LEMMA NextSegments ==
  ASSUME PrepareInv, pc = "tasks", Len(tasks) < plan.tasks
  PROVE  /\ segment = FirstSegment(plan.segs, plan.tasks, Len(tasks))
         /\ FirstSegment(plan.segs, plan.tasks, Len(tasks) + 1)
              = segment + NextCount
         /\ NextCount \in Nat \ {0}
         /\ segment + NextCount <= plan.segs
         /\ segment \in Nat /\ plan.segs \in Nat /\ plan.tasks \in Nat /\ Len(tasks) \in Nat
<1>1. /\ plan.segs \in Nat /\ plan.tasks \in Nat /\ plan.tasks <= plan.segs
      /\ Len(tasks) \in Nat /\ segment \in Nat
  BY PlanCounts DEF PrepareInv, PrepareTypes
<1>2. plan.tasks \in Nat \ {0} /\ Len(tasks) \in 0 .. plan.tasks - 1
  BY <1>1
<1>3. segment = FirstSegment(plan.segs, plan.tasks, Len(tasks))
  BY <1>2 DEF PrepareInv, Running
<1>4. NextCount \in Nat \ {0}
  <2>1. NextCount \in Nat /\ (plan.tasks <= plan.segs => NextCount >= 1)
    BY <1>1, <1>2, TaskSegmentsType DEF NextCount
  <2> QED
    BY <1>1, <2>1
<1> QED
  BY <1>1, <1>2, <1>3, <1>4, TasksFollow DEF NextCount

(* No check of the loop fails for an accepted plan, so a turn of it adds the
   next task and its bytes. *)
LEMMA NextTask ==
  ASSUME PrepareInv, AddTask
  PROVE  /\ tasks' = Append(tasks,
              [first |-> segment, end |-> segment + NextCount, start |-> segment * req.size,
               stop |-> Covered(req.len, req.size, segment + NextCount),
               bound |-> NextBytes * 2 + NextCount * PartOverhead])
         /\ segment' = segment + NextCount
         /\ reserved' = reserved + (NextBytes * 2 + NextCount * PartOverhead)
         /\ NextBytes \in Nat /\ NextCount * PartOverhead \in Nat /\ segment * req.size \in Nat
         /\ UNCHANGED <<pc, error, req, plan>>
<1>0. req \in Requests
  BY DEF PrepareInv, PrepareTypes
<1>1. /\ pc = "tasks" /\ Len(tasks) < plan.tasks
      /\ plan.segs = Segments(req.len, req.size) /\ plan.staged = Staged(req)
      /\ PlanError(req) = "none"
  BY DEF AddTask, PrepareInv, PrepareTypes, Accepted
<1>2. /\ NextCount \in Nat \ {0} /\ segment \in Nat /\ plan.segs \in Nat /\ segment + NextCount <= plan.segs
      /\ segment < plan.segs /\ (segment + NextCount) - 1 \in Nat /\ (segment + NextCount) - 1 < plan.segs
  <2>1. NextCount \in Nat \ {0} /\ segment \in Nat /\ plan.segs \in Nat /\ segment + NextCount <= plan.segs
    BY <1>1, NextSegments
  <2> QED
    BY <2>1
<1>3. plan.segs <= UsizeMax /\ NextCount <= UsizeMax /\ segment + NextCount <= U64Max
  BY <1>0, <1>1, <1>2, PlanAdmits, RequestRanges
<1>4. /\ RangeStart(segment) = segment * req.size /\ segment * req.size \in Nat
      /\ RangeError(segment) = "none" /\ RangeError((segment + NextCount) - 1) = "none"
      /\ SourceEnd(req.len, req.size, (segment + NextCount) - 1) = Covered(req.len, req.size, segment + NextCount)
  <2>1. ((segment + NextCount) - 1) + 1 = segment + NextCount
    BY <1>2
  <2> QED
    BY <1>0, <1>1, <1>2, <2>1, RangeFits
<1>5. NextBytes \in Nat /\ NextBytes <= req.len
  <2>1. Covered(req.len, req.size, segment) = segment * req.size
    <3>1. segment < Segments(req.len, req.size)
      BY <1>1, <1>2
    <3> QED
      <4>1. segment \in Nat /\ req.len \in Nat /\ req.size \in Nat \ {0}
        BY <1>0, <1>2, RequestRanges
      <4> QED
        BY <3>1, <4>1, CoveredRanges
  <2>2. segment <= segment + NextCount /\ segment + NextCount \in Nat
    BY <1>2
  <2>3. Covered(req.len, req.size, segment) <= Covered(req.len, req.size, segment + NextCount)
    BY <1>2, <2>2, <1>0, RequestRanges, CoveredMonotone
  <2>4. /\ Covered(req.len, req.size, segment + NextCount) \in Nat
        /\ Covered(req.len, req.size, segment + NextCount) <= req.len
    BY <2>2, <1>0, RequestRanges, CoveredRanges
  <2> QED
    BY <1>4, <2>1, <2>3, <2>4, <1>0, RequestRanges DEF NextBytes
<1>6. NextCount * PartOverhead \in Nat /\ NextBytes * 2 \in Nat /\ NextBytes * 2 + NextCount * PartOverhead <= U64Max
  <2>1. NextCount * PartOverhead <= plan.segs * PartOverhead
    BY <1>2, <1>0, RequestRanges, TimesMonotone
  <2>2. AtLeastOne(plan.segs) = plan.segs
    BY <1>2 DEF AtLeastOne
  <2>3. Staged(req) = req.len * 2 + plan.segs * PartOverhead /\ Staged(req) + 1 <= U64Max
    BY <1>0, <1>1, <2>2, PlanAdmits
  <2>4. NextCount * PartOverhead \in Nat /\ plan.segs * PartOverhead \in Nat
    BY <1>2, <1>0, RequestRanges
  <2> QED
    BY <1>5, <2>1, <2>3, <2>4, <1>0, RequestRanges
<1>7. \A n \in Nat : n \in MaybeNat /\ n # Overflow
  BY DEF MaybeNat, Overflow
<1> DEFINE end == CheckedAdd(segment, NextCount, U64Max)
           bound == CheckedAdd(CheckedMul(SourceEnd(req.len, req.size, end - 1) - RangeStart(segment), 2, U64Max),
                               CheckedMul(NextCount, PartOverhead, U64Max), U64Max)
           e == CASE end = Overflow -> "SizeOverflow"
                  [] end # Overflow /\ RangeError(segment) # "none" -> RangeError(segment)
                  [] end # Overflow /\ RangeError(segment) = "none"
                     /\ RangeError(end - 1) # "none" -> RangeError(end - 1)
                  [] OTHER -> IF Overflow \in {bound, ToUsize(NextCount)} THEN "SizeOverflow"
                              ELSE "none"
<1>8. end = segment + NextCount
  BY <1>2, <1>3, <1>7, <1>0, RequestRanges, CheckedSum
<1>9. bound = NextBytes * 2 + NextCount * PartOverhead
  <2>1. CheckedMul(NextBytes, 2, U64Max) = NextBytes * 2
    <3>1. NextBytes * 2 <= U64Max
      BY <1>6, <1>0, RequestRanges
    <3> QED
      BY <1>5, <1>7, <3>1, <1>0, RequestRanges, CheckedProduct
  <2>2. CheckedMul(NextCount, PartOverhead, U64Max) = NextCount * PartOverhead
    <3>1. NextCount * PartOverhead <= U64Max
      BY <1>6, <1>0, RequestRanges
    <3> QED
      BY <1>2, <1>7, <3>1, <1>0, RequestRanges, CheckedProduct
  <2> HIDE DEF end
  <2>3. SourceEnd(req.len, req.size, end - 1) - RangeStart(segment) = NextBytes
    <3>1. SourceEnd(req.len, req.size, end - 1) = Covered(req.len, req.size, segment + NextCount)
      BY <1>4, <1>8
    <3> QED
      BY <1>4, <3>1 DEF NextBytes
  <2>4. bound = CheckedAdd(NextBytes * 2, NextCount * PartOverhead, U64Max)
    BY <2>1, <2>2, <2>3
  <2> HIDE DEF bound
  <2>5. U64Max \in Nat
    BY <1>0, RequestRanges
  <2> QED
    BY <1>6, <1>7, <2>4, <2>5, CheckedSum
<1>10. e = "none"
  <2>1. end # Overflow /\ RangeError(end - 1) = "none"
    BY <1>2, <1>4, <1>7, <1>8
  <2>2. bound # Overflow
    <3>1. NextBytes * 2 + NextCount * PartOverhead \in Nat
      BY <1>6
    <3> QED
      BY <1>7, <1>9, <3>1
  <2>3. ToUsize(NextCount) # Overflow
    BY <1>2, <1>3, <1>7, <1>0, RequestRanges DEF ToUsize, Checked
  <2> HIDE DEF end, bound
  <2> QED
    BY <1>4, <2>1, <2>2, <2>3
<1>11. /\ tasks' = Append(tasks,
            [first |-> segment, end |-> end, start |-> RangeStart(segment),
             stop |-> SourceEnd(req.len, req.size, end - 1), bound |-> bound])
       /\ segment' = end /\ reserved' = reserved + bound
       /\ UNCHANGED <<pc, error, req, plan>>
  BY <1>10 DEF AddTask, NextCount
<1> HIDE DEF end, bound, e
<1>12. SourceEnd(req.len, req.size, end - 1) = Covered(req.len, req.size, segment + NextCount)
  BY <1>4, <1>8
<1>13. RangeStart(segment) = segment * req.size
  BY <1>4
<1>14. NextBytes \in Nat /\ NextCount * PartOverhead \in Nat /\ segment * req.size \in Nat
  BY <1>4, <1>5, <1>6
<1> QED
  BY <1>8, <1>9, <1>11, <1>12, <1>13, <1>14, Zenon


-----------------------------------------------------------------------------
(* The invariant is inductive. *)

(* Before planning there is nothing to cover. *)
LEMMA PrepareInit == Init => PrepareInv
<1> SUFFICES ASSUME Init PROVE PrepareInv
  OBVIOUS
<1>1. req \in Requests /\ pc = "plan" /\ plan = NoPlan /\ segment = 0 /\ tasks = <<>> /\ reserved = 0
  BY DEF Init
<1>2. Covered(req.len, req.size, 0) = 0 /\ 0 * PartOverhead = 0
  BY <1>1, RequestRanges DEF Covered
<1>3. Len(tasks) = 0 /\ plan.tasks = 0
  BY <1>1 DEF NoPlan
<1>4. PrepareTypes /\ Unplanned /\ Accepted
  BY <1>1 DEF PrepareTypes, Unplanned, Accepted
<1>5. Tiled /\ Running
  BY <1>1, <1>2, <1>3 DEF Tiled, Running
<1> QED
  BY <1>4, <1>5 DEF PrepareInv

(* plan() starts the loop before the first segment, or refuses. *)
LEMMA MakePlanStep ==
  ASSUME PrepareInv, MakePlan
  PROVE  PrepareInv'
<1>1. /\ req \in Requests /\ plan = NoPlan /\ segment = 0 /\ tasks = <<>> /\ reserved = 0
      /\ UNCHANGED <<req, segment, tasks, reserved>>
  BY DEF MakePlan, PrepareInv, PrepareTypes, Unplanned
<1>2. /\ req.len \in Nat /\ req.size \in Nat \ {0} /\ req.count \in Nat
  BY <1>1, RequestRanges
<1>3. Len(tasks) = 0 /\ PrepareTypes'
  BY <1>1 DEF MakePlan, PrepareInv, PrepareTypes
<1>4. reserved = 2 * Covered(req.len, req.size, segment) + segment * PartOverhead
  BY DEF PrepareInv, Running
<1>5. CASE PlanError(req) = "none"
  <2>1. /\ pc' = "tasks" /\ plan'.segs = Segments(req.len, req.size)
        /\ plan'.tasks = EffectiveTasks(req.len, req.size, req.count) /\ plan'.staged = Staged(req)
    BY <1>5 DEF MakePlan
  <2>2. PlanError(req)' = "none" /\ Staged(req)' = Staged(req)
    BY <1>1, <1>5 DEF PlanError, Staged, Descriptors, Active, StagingMemoryBound, Aggregate
  <2>3. Unplanned' /\ Accepted'
    BY <1>1, <2>1, <2>2 DEF Unplanned, Accepted
  <2>4. plan'.segs \in Nat /\ plan'.tasks \in Nat
    BY <1>2, <2>1, SegmentsType
  <2>5. plan'.tasks # 0 => FirstSegment(plan'.segs, plan'.tasks, 0) = 0
    BY <2>4, TasksFollow
  <2>6. Tiled'
    BY <1>1, <1>3, <2>1, <2>4 DEF Tiled
  <2>7. Running'
    BY <1>1, <1>3, <1>4, <2>5 DEF Running
  <2> QED
    BY <1>3, <2>3, <2>6, <2>7 DEF PrepareInv
<1>6. CASE PlanError(req) # "none"
  <2>1. pc' = "error" /\ plan' = plan
    BY <1>6 DEF MakePlan
  <2>2. Unplanned' /\ Accepted' /\ Tiled'
    BY <1>1, <1>3, <2>1 DEF Unplanned, Accepted, Tiled, NoPlan
  <2>3. Running'
    BY <1>1, <2>1 DEF PrepareInv, Running
  <2> QED
    BY <1>3, <2>2, <2>3 DEF PrepareInv
<1> QED
  BY <1>5, <1>6

(* A turn of the loop adds the next tile. *)
LEMMA AddTaskStep ==
  ASSUME PrepareInv, AddTask
  PROVE  PrepareInv'
<1> DEFINE end == segment + NextCount
           new == [first |-> segment, end |-> end, start |-> segment * req.size,
                   stop |-> Covered(req.len, req.size, end),
                   bound |-> NextBytes * 2 + NextCount * PartOverhead]
<1>1. /\ tasks' = Append(tasks, new) /\ segment' = end
      /\ reserved' = reserved + (NextBytes * 2 + NextCount * PartOverhead)
      /\ NextBytes \in Nat /\ NextCount * PartOverhead \in Nat /\ segment * req.size \in Nat
      /\ UNCHANGED <<pc, error, req, plan>>
  BY NextTask
<1>2. pc = "tasks" /\ Len(tasks) < plan.tasks /\ req \in Requests
  BY DEF AddTask, PrepareInv, PrepareTypes
<1>3. /\ segment = FirstSegment(plan.segs, plan.tasks, Len(tasks))
      /\ FirstSegment(plan.segs, plan.tasks, Len(tasks) + 1) = end
      /\ NextCount \in Nat \ {0} /\ end <= plan.segs
      /\ segment \in Nat /\ plan.segs \in Nat /\ plan.tasks \in Nat /\ Len(tasks) \in Nat
  BY <1>2, NextSegments
<1>4. end \in Nat /\ req.len \in Nat /\ req.size \in Nat \ {0} /\ PartOverhead \in Nat
  BY <1>2, <1>3, RequestRanges
<1>5. Covered(req.len, req.size, end) \in Nat
  BY <1>4, CoveredRanges
<1>6. Covered(req.len, req.size, segment) = segment * req.size
  <2>1. segment < Segments(req.len, req.size)
    BY <1>2, <1>3 DEF PrepareInv, Accepted
  <2> QED
    <3>1. segment \in Nat /\ req.len \in Nat /\ req.size \in Nat \ {0}
      BY <1>3, <1>4
    <3> QED
      BY <2>1, <3>1, CoveredRanges
<1>7. /\ tasks \in Seq([first : Nat, end : Nat, start : Nat, stop : Nat, bound : Nat])
      /\ reserved \in Nat
      /\ reserved = 2 * Covered(req.len, req.size, segment) + segment * PartOverhead
  BY DEF PrepareInv, PrepareTypes, Running
<1>8. new \in [first : Nat, end : Nat, start : Nat, stop : Nat, bound : Nat]
  <2>1. /\ segment \in Nat /\ end \in Nat /\ segment * req.size \in Nat
        /\ Covered(req.len, req.size, end) \in Nat
        /\ NextBytes * 2 + NextCount * PartOverhead \in Nat
    <3>1. NextBytes * 2 + NextCount * PartOverhead \in Nat
      BY <1>1
    <3> QED
      BY <1>1, <1>3, <1>4, <1>5, <3>1, Zenon
  <2> HIDE DEF end
  <2> QED
    BY <2>1
<1>9. PrepareTypes'
  <2>1. tasks' \in Seq([first : Nat, end : Nat, start : Nat, stop : Nat, bound : Nat])
    BY <1>1, <1>7, <1>8
  <2>2. reserved' \in Nat
    BY <1>1, <1>7
  <2> QED
    BY <1>1, <1>2, <1>4, <2>1, <2>2 DEF PrepareTypes
<1>10. Unplanned' /\ Accepted'
  <2>1. PlanError(req)' = PlanError(req) /\ Staged(req)' = Staged(req)
    BY <1>1 DEF PlanError, Staged, Descriptors, Active, StagingMemoryBound, Aggregate
  <2> QED
    BY <1>1, <1>2, <2>1 DEF PrepareInv, Unplanned, Accepted
<1> HIDE DEF new
<1>11. Len(tasks') = Len(tasks) + 1 /\ tasks'[Len(tasks) + 1] = new
       /\ \A i \in 1 .. Len(tasks) : tasks'[i] = tasks[i]
  BY <1>1, <1>7
<1>12. Tiled'
  <2>1. ASSUME NEW i \in 1 .. Len(tasks') PROVE Tile(i)'
    <3>1. CASE i \in 1 .. Len(tasks)
      <4>1. Tile(i)
        BY <3>1 DEF PrepareInv, Tiled
      <4> QED
        BY <1>1, <1>11, <3>1, <4>1 DEF Tile
    <3>2. CASE i = Len(tasks) + 1
      <4>1. i - 1 = Len(tasks)
        BY <1>3, <3>2
      <4>2. tasks'[i] = new
        BY <1>11, <3>2
      <4>3. /\ new.first = segment /\ new.end = end /\ new.start = segment * req.size
            /\ new.stop = Covered(req.len, req.size, end)
        BY DEF new
      <4> HIDE DEF end
      <4> QED
        BY <1>1, <1>3, <3>2, <4>1, <4>2, <4>3 DEF Tile
    <3> QED
      BY <1>3, <1>11, <3>1, <3>2
  <2>2. Len(tasks') <= plan'.tasks
    BY <1>1, <1>2, <1>3, <1>11
  <2> QED
    BY <1>1, <1>2, <2>1, <2>2 DEF Tiled
<1>13. Running'
  <2>1. plan'.tasks # 0 /\ segment' = FirstSegment(plan'.segs, plan'.tasks, Len(tasks'))
    BY <1>1, <1>2, <1>3, <1>11
  <2>2. end * PartOverhead = segment * PartOverhead + NextCount * PartOverhead
    BY <1>3, <1>4
  <2>3. NextBytes = Covered(req.len, req.size, end) - Covered(req.len, req.size, segment)
    BY <1>6 DEF NextBytes
  <2>4. Covered(req.len, req.size, segment) \in Nat /\ segment * PartOverhead \in Nat
    BY <1>1, <1>3, <1>4, <1>6
  <2> HIDE DEF end
  <2>5. reserved' = 2 * Covered(req.len, req.size, end) + end * PartOverhead
    <3>1. \A c, d, a, b \in Int : (2 * c + a) + ((d - c) * 2 + b) = 2 * d + (a + b)
      OBVIOUS
    <3>2. reserved' = (2 * Covered(req.len, req.size, segment) + segment * PartOverhead)
                      + (NextBytes * 2 + NextCount * PartOverhead)
      BY <1>1, <1>7
    <3> QED
      <4>1. /\ Covered(req.len, req.size, segment) \in Int /\ Covered(req.len, req.size, end) \in Int
            /\ segment * PartOverhead \in Int /\ NextCount * PartOverhead \in Int
        BY <1>1, <1>5, <2>4
      <4>2. reserved' = (2 * Covered(req.len, req.size, segment) + segment * PartOverhead)
              + ((Covered(req.len, req.size, end) - Covered(req.len, req.size, segment)) * 2
                 + NextCount * PartOverhead)
        BY <2>3, <3>2, Zenon
      <4>3. reserved' = 2 * Covered(req.len, req.size, end)
                        + (segment * PartOverhead + NextCount * PartOverhead)
        BY <3>1, <4>1, <4>2
      <4> QED
        BY <2>2, <4>3, Zenon
  <2> QED
    BY <1>1, <2>1, <2>5 DEF Running
<1> QED
  BY <1>9, <1>10, <1>12, <1>13 DEF PrepareInv

(* Every step preserves the invariant. *)
LEMMA PrepareStep == PrepareInv /\ [Next]_vars => PrepareInv'
<1> SUFFICES ASSUME PrepareInv, [Next]_vars PROVE PrepareInv'
  OBVIOUS
<1>1. CASE MakePlan
  BY <1>1, MakePlanStep
<1>2. CASE AddTask
  BY <1>2, AddTaskStep
<1>3. CASE Prepared \/ UNCHANGED vars
  <2>1. /\ UNCHANGED <<req, plan, segment, tasks, reserved>>
        /\ pc' = pc \/ (pc = "tasks" /\ pc' = "ready" /\ Len(tasks) = plan.tasks)
    BY <1>3 DEF Prepared, vars
  <2>2. PlanError(req)' = PlanError(req) /\ Staged(req)' = Staged(req)
    BY <2>1 DEF PlanError, Staged, Descriptors, Active, StagingMemoryBound, Aggregate
  <2>3. PrepareTypes' /\ Unplanned' /\ Accepted'
    BY <2>1, <2>2 DEF PrepareInv, PrepareTypes, Unplanned, Accepted
  <2>4. \A i : Tile(i) => Tile(i)'
    BY <2>1 DEF Tile
  <2>5. Tiled' /\ Running'
    BY <2>1, <2>4 DEF PrepareInv, Tiled, Running
  <2> QED
    BY <2>3, <2>5 DEF PrepareInv
<1> QED
  BY <1>1, <1>2, <1>3 DEF Next


-----------------------------------------------------------------------------
(* Theorems. *)

(* What a tile says of its task: a nonempty run of the plan's segments, whose
   source bytes start where those of the earlier segments end. *)
LEMMA TileFacts ==
  ASSUME PrepareInv, NEW i \in 1 .. Len(tasks)
  PROVE  /\ plan.segs = Segments(req.len, req.size) /\ plan.tasks \in Nat \ {0}
         /\ FirstSegment(plan.segs, plan.tasks, i - 1) \in Nat
         /\ TaskSegments(plan.segs, plan.tasks, i - 1) \in Nat \ {0}
         /\ FirstSegment(plan.segs, plan.tasks, i)
              = FirstSegment(plan.segs, plan.tasks, i - 1) + TaskSegments(plan.segs, plan.tasks, i - 1)
         /\ tasks[i].first = FirstSegment(plan.segs, plan.tasks, i - 1)
         /\ tasks[i].end = FirstSegment(plan.segs, plan.tasks, i)
         /\ tasks[i].start = Covered(req.len, req.size, tasks[i].first)
         /\ tasks[i].stop = Covered(req.len, req.size, tasks[i].end)
<1>1. /\ req \in Requests /\ Len(tasks) \in Nat /\ i \in Nat /\ i - 1 \in Nat /\ (i - 1) + 1 = i
      /\ pc \in {"tasks", "ready"}
  <2>1. /\ tasks \in Seq([first : Nat, end : Nat, start : Nat, stop : Nat, bound : Nat])
        /\ req \in Requests /\ pc \in {"plan", "tasks", "ready", "error"}
    BY DEF PrepareInv, PrepareTypes
  <2>2. tasks # <<>>
    BY <2>1
  <2>3. pc \in {"tasks", "ready"}
    BY <2>1, <2>2 DEF PrepareInv, Unplanned
  <2> QED
    BY <2>1, <2>3
<1>2. plan.segs = Segments(req.len, req.size)
  BY <1>1, PlanCounts
<1>3. req.len \in Nat /\ req.size \in Nat \ {0}
  BY <1>1, PlanCounts
<1>4. plan.segs \in Nat /\ plan.tasks \in Nat /\ plan.tasks <= plan.segs
  BY <1>1, PlanCounts
<1>5. plan.tasks \in Nat \ {0} /\ i - 1 \in 0 .. plan.tasks - 1
  <2>1. Len(tasks) <= plan.tasks
    BY DEF PrepareInv, Tiled
  <2> QED
    BY <1>1, <1>4, <2>1
<1>6. /\ FirstSegment(plan.segs, plan.tasks, i - 1) \in Nat
      /\ TaskSegments(plan.segs, plan.tasks, i - 1) \in Nat \ {0}
  <2>1. /\ FirstSegment(plan.segs, plan.tasks, i - 1) \in Nat
        /\ TaskSegments(plan.segs, plan.tasks, i - 1) \in Nat
        /\ TaskSegments(plan.segs, plan.tasks, i - 1) >= 1
    BY <1>4, <1>5, TaskSegmentsType
  <2> QED
    BY <2>1
<1>7. /\ FirstSegment(plan.segs, plan.tasks, i)
           = FirstSegment(plan.segs, plan.tasks, i - 1) + TaskSegments(plan.segs, plan.tasks, i - 1)
      /\ FirstSegment(plan.segs, plan.tasks, i) <= plan.segs
  BY <1>1, <1>4, <1>5, TasksFollow
<1>8. Tile(i)
  BY DEF PrepareInv, Tiled
<1>9. FirstSegment(plan.segs, plan.tasks, i - 1) < Segments(req.len, req.size)
  BY <1>2, <1>4, <1>6, <1>7
<1>10. Covered(req.len, req.size, FirstSegment(plan.segs, plan.tasks, i - 1))
         = FirstSegment(plan.segs, plan.tasks, i - 1) * req.size
  BY <1>3, <1>6, <1>9, CoveredRanges
<1> QED
  BY <1>2, <1>5, <1>6, <1>7, <1>8, <1>10 DEF Tile

(* The tasks of a batch tile its input, in whatever way its length, segment
   size and task count divide: consecutive nonempty segment ranges from where
   the closed form says, consecutive source ranges, all of the input once the
   batch is ready, and shares that differ by one segment at most. *)
THEOREM TasksTileTheInput == Spec => []TasksTile
<1>1. ASSUME PrepareInv PROVE TasksTile
  <2>1. ASSUME NEW i \in 1 .. Len(tasks)
        PROVE  /\ tasks[i].first = FirstSegment(plan.segs, plan.tasks, i - 1)
               /\ tasks[i].first < tasks[i].end
               /\ tasks[i].start = (IF i = 1 THEN 0 ELSE tasks[i-1].stop)
               /\ tasks[i].first = (IF i = 1 THEN 0 ELSE tasks[i-1].end)
    <3>1. tasks[i].first = FirstSegment(plan.segs, plan.tasks, i - 1) /\ tasks[i].first < tasks[i].end
      BY <1>1, TileFacts
    <3>2. CASE i = 1
      <4>1. plan.segs \in Nat /\ plan.tasks \in Nat \ {0}
        <5>1. req.len \in Nat /\ req.size \in Nat \ {0}
          BY <1>1, RequestRanges DEF PrepareInv, PrepareTypes
        <5> QED
          BY <1>1, <5>1, TileFacts, SegmentsCover
      <4>2. tasks[i].first = 0
        BY <3>1, <3>2, <4>1, TasksFollow
      <4>3. Covered(req.len, req.size, 0) = 0
        <5>1. req.len \in Nat /\ req.size \in Nat
          BY <1>1, RequestRanges DEF PrepareInv, PrepareTypes
        <5> QED
          BY <5>1 DEF Covered
      <4>4. tasks[i].start = 0
        BY <1>1, <4>2, <4>3, TileFacts
      <4> QED
        BY <3>1, <3>2, <4>2, <4>4
    <3>3. CASE i # 1
      <4>1. i - 1 \in 1 .. Len(tasks)
        <5>1. Len(tasks) \in Nat
          BY <1>1 DEF PrepareInv, PrepareTypes
        <5> QED
          BY <3>3, <5>1
      <4>2. tasks[i - 1].end = tasks[i].first
        BY <1>1, <3>1, <4>1, TileFacts
      <4>3. tasks[i - 1].stop = Covered(req.len, req.size, tasks[i - 1].end)
        BY <1>1, <4>1, TileFacts
      <4>4. tasks[i].start = Covered(req.len, req.size, tasks[i].first)
        BY <1>1, TileFacts
      <4> QED
        BY <3>1, <3>3, <4>2, <4>3, <4>4
    <3> QED
      BY <3>2, <3>3
  <2>2. ASSUME NEW i \in 1 .. Len(tasks), NEW j \in 1 .. Len(tasks)
        PROVE  tasks[i].end - tasks[i].first <= tasks[j].end - tasks[j].first + 1
    <3>1. ASSUME NEW k \in 1 .. Len(tasks)
          PROVE  tasks[k].end - tasks[k].first = TaskSegments(plan.segs, plan.tasks, k - 1)
      <4>1. /\ tasks[k].first \in Nat /\ TaskSegments(plan.segs, plan.tasks, k - 1) \in Nat
            /\ tasks[k].end = tasks[k].first + TaskSegments(plan.segs, plan.tasks, k - 1)
        BY <1>1, TileFacts
      <4> QED
        BY <4>1
    <3>2. TaskSegments(plan.segs, plan.tasks, i - 1) \in Nat /\ TaskSegments(plan.segs, plan.tasks, j - 1) \in Nat
      BY <1>1, TileFacts
    <3>3. plan.segs \div plan.tasks \in Int
      <4>1. req.len \in Nat /\ req.size \in Nat \ {0}
        BY <1>1, RequestRanges DEF PrepareInv, PrepareTypes
      <4>2. plan.segs \in Nat /\ plan.tasks \in Nat \ {0}
        BY <1>1, <4>1, TileFacts, SegmentsCover
      <4> QED
        BY <4>2
    <3>4. TaskSegments(plan.segs, plan.tasks, i - 1) <= TaskSegments(plan.segs, plan.tasks, j - 1) + 1
      BY <3>3 DEF TaskSegments
    <3> QED
      BY <3>1, <3>4
  <2>3. ASSUME pc = "ready", req.len > 0
        PROVE  tasks[Len(tasks)].end = plan.segs /\ tasks[Len(tasks)].stop = req.len
    <3>1. Len(tasks) = plan.tasks
      BY <1>1, <2>3 DEF PrepareInv, Tiled
    <3>2. req.len \in Nat /\ req.size \in Nat \ {0}
      BY <1>1, <2>3, PlanCounts
    <3>3. plan.segs \in Nat /\ plan.tasks \in Nat /\ plan.tasks # 0
      BY <1>1, <2>3, PlanCounts
    <3>4. plan.segs = Segments(req.len, req.size)
      BY <1>1, <2>3, PlanCounts
    <3>5. Len(tasks) \in 1 .. Len(tasks) /\ plan.tasks \in Nat \ {0}
      BY <3>1, <3>3
    <3>6. tasks[Len(tasks)].end = FirstSegment(plan.segs, plan.tasks, plan.tasks)
          /\ tasks[Len(tasks)].stop = Covered(req.len, req.size, tasks[Len(tasks)].end)
      BY <1>1, <3>1, <3>5, TileFacts
    <3>7. tasks[Len(tasks)].end = plan.segs
      BY <3>3, <3>5, <3>6, TasksFollow
    <3>8. Covered(req.len, req.size, plan.segs) = req.len
      BY <3>2, <3>3, <3>4, CoveredRanges
    <3> QED
      BY <3>6, <3>7, <3>8
  <2> QED
    BY <2>1, <2>2, <2>3 DEF TasksTile
<1> QED
  BY <1>1, PrepareInit, PrepareStep, PTL DEF Spec

(* What plan() accepted is enough: no checked operation of prepare()'s loop
   fails afterwards, the tasks stage no more than was accounted for and the
   caller's limit allows, and the stream's length fits. *)
THEOREM AcceptedPlansHold == Spec => []PlanHolds
<1>1. ASSUME PrepareInv PROVE PlanHolds
  <2>1. PlanSuffices
    BY <1>1 DEF PrepareInv, Unplanned, PlanSuffices
  <2>2. ASSUME pc \in {"tasks", "ready"}
        PROVE  /\ reserved <= plan.staged
               /\ req.staging # NoLimit => reserved + plan.segs * DescriptorBytes <= req.staging
               /\ plan.staged + 1 <= U64Max
    <3>1. /\ req \in Requests /\ PlanError(req) = "none" /\ plan.segs = Segments(req.len, req.size)
          /\ plan.tasks = EffectiveTasks(req.len, req.size, req.count) /\ plan.staged = Staged(req)
          /\ segment \in Nat /\ reserved \in Nat /\ Len(tasks) \in Nat /\ Len(tasks) <= plan.tasks
          /\ segment = IF plan.tasks = 0 THEN 0 ELSE FirstSegment(plan.segs, plan.tasks, Len(tasks))
          /\ reserved = 2 * Covered(req.len, req.size, segment) + segment * PartOverhead
      BY <1>1, <2>2 DEF PrepareInv, PrepareTypes, Accepted, Tiled, Running
    <3>2. /\ req.len \in Nat /\ req.size \in Nat \ {0} /\ req.count \in Nat /\ PartOverhead \in Nat
          /\ DescriptorBytes \in Nat /\ req.staging \in Nat \cup {NoLimit}
      BY <3>1, RequestRanges
    <3>3. plan.segs \in Nat /\ plan.tasks \in Nat
      BY <1>1, <2>2, PlanCounts
    <3>4. segment <= plan.segs
      <4>1. CASE plan.tasks = 0
        BY <3>1, <3>3, <4>1
      <4>2. CASE Len(tasks) = 0 /\ plan.tasks # 0
        BY <3>1, <3>3, <4>2, TasksFollow
      <4>3. CASE Len(tasks) # 0
        <5>1. Len(tasks) - 1 \in 0 .. plan.tasks - 1 /\ (Len(tasks) - 1) + 1 = Len(tasks)
              /\ plan.tasks \in Nat \ {0}
          BY <3>1, <3>3, <4>3
        <5>2. FirstSegment(plan.segs, plan.tasks, Len(tasks)) <= plan.segs
          BY <3>3, <5>1, TasksFollow
        <5> QED
          BY <3>1, <5>1, <5>2
      <4> QED
        BY <4>1, <4>2, <4>3
    <3>5. /\ Covered(req.len, req.size, segment) \in Nat
          /\ Covered(req.len, req.size, segment) <= req.len
      BY <3>1, <3>2, CoveredRanges
    <3>6. /\ segment * PartOverhead <= plan.segs * PartOverhead
          /\ plan.segs * PartOverhead <= AtLeastOne(plan.segs) * PartOverhead
          /\ segment * PartOverhead \in Nat /\ plan.segs * PartOverhead \in Nat
          /\ AtLeastOne(plan.segs) * PartOverhead \in Nat
      <4>1. AtLeastOne(plan.segs) \in Nat /\ plan.segs <= AtLeastOne(plan.segs)
        BY <3>3 DEF AtLeastOne
      <4>2. segment \in Nat /\ segment * PartOverhead <= plan.segs * PartOverhead
        BY <3>1, <3>2, <3>3, <3>4, TimesMonotone
      <4>3. plan.segs * PartOverhead <= AtLeastOne(plan.segs) * PartOverhead
        BY <3>2, <3>3, <4>1, TimesMonotone
      <4>4. \A n \in Nat : n * PartOverhead \in Nat
        BY <3>2
      <4> QED
        BY <3>3, <4>1, <4>2, <4>3, <4>4
    <3>7. /\ plan.staged = req.len * 2 + AtLeastOne(plan.segs) * PartOverhead
          /\ plan.staged \in Nat /\ plan.staged + 1 <= U64Max
          /\ req.staging # NoLimit => plan.staged + plan.segs * DescriptorBytes <= req.staging
      BY <3>1, PlanAdmits
    <3>8. reserved <= plan.staged
      <4>1. \A c, l, s, n, m \in Int : c <= l /\ s <= n /\ n <= m => 2 * c + s <= l * 2 + m
        OBVIOUS
      <4>2. /\ Covered(req.len, req.size, segment) \in Int /\ req.len \in Int
            /\ segment * PartOverhead \in Int /\ plan.segs * PartOverhead \in Int
            /\ AtLeastOne(plan.segs) * PartOverhead \in Int
        BY <3>2, <3>5, <3>6
      <4>3. 2 * Covered(req.len, req.size, segment) + segment * PartOverhead
              <= req.len * 2 + AtLeastOne(plan.segs) * PartOverhead
        BY <3>5, <3>6, <4>1, <4>2
      <4> QED
        BY <3>1, <3>7, <4>3, Zenon
    <3>9. plan.segs * DescriptorBytes \in Nat
      BY <3>2, <3>3
    <3>10. req.staging # NoLimit => reserved + plan.segs * DescriptorBytes <= req.staging
      <4>1. \A r, s, d, l \in Int : r <= s /\ s + d <= l => r + d <= l
        OBVIOUS
      <4> QED
        BY <3>1, <3>2, <3>7, <3>8, <3>9, <4>1
    <3> QED
      BY <3>7, <3>8, <3>10
  <2> QED
    BY <2>1, <2>2 DEF PlanHolds, StagingWithinPlan
<1> QED
  BY <1>1, PrepareInit, PrepareStep, PTL DEF Spec
=============================================================================
