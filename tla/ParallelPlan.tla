---------------------------- MODULE ParallelPlan ----------------------------
(***************************************************************************)
(* The arithmetic by which parallel compression divides an input: how many *)
(* segments there are, how many tasks share them, which consecutive        *)
(* segments a task encodes and which source bytes a segment covers.        *)
(* Source: src/src/compressor/parallel/core/{mod,batch}.rs.                *)
(***************************************************************************)
EXTENDS Integers, TLAPS

(* Number of nonempty segments of size z of an input of len bytes. *)
Segments(len, z) == len \div z + (IF len % z = 0 THEN 0 ELSE 1)

(* Mutant: the requested task count is not a cap. *)
EffectiveTasksUncapped(len, z, count) == Segments(len, z)

(* Tasks the plan creates when the caller asks for count of them. *)
EffectiveTasks(len, z, count) ==
  IF Segments(len, z) <= count THEN Segments(len, z) ELSE count

(* The input is encoded as one ordinary stream instead of fragments. *)
IsSerial(len, z, min) == (len < min /\ len <= z) \/ len = 0

(* Segments task id encodes: the first segs % tasks tasks take one more. *)
TaskSegments(segs, tasks, id) ==
  segs \div tasks + (IF id < segs % tasks THEN 1 ELSE 0)

(* First segment of task id: what the running counter of prepare holds
   when it reaches id (closed form; ParallelPrepare shows they agree). *)
FirstSegment(segs, tasks, id) ==
  id * (segs \div tasks) + (IF id <= segs % tasks THEN id ELSE segs % tasks)

(* Mutant: the last segment is not cut at the end of the input. *)
SourceEndUncut(len, z, segment) == segment * z + z

(* End of the source range of a segment; its start is segment * z. *)
SourceEnd(len, z, segment) ==
  IF segment * z + z <= len THEN segment * z + z ELSE len

-----------------------------------------------------------------------------
(* Facts about the plan's arithmetic. *)

(* Segments is a count, and a plan never has more tasks than segments. *)
LEMMA SegmentsType ==
  ASSUME NEW len \in Nat, NEW z \in Nat \ {0}, NEW count \in Nat
  PROVE  /\ Segments(len, z) \in Nat
         /\ EffectiveTasks(len, z, count) \in 0 .. count
         /\ EffectiveTasks(len, z, count) <= Segments(len, z)
BY DEF Segments, EffectiveTasks

(* A task's first segment is a segment index, and it has at least one. *)
LEMMA TaskSegmentsType ==
  ASSUME NEW segs \in Nat, NEW tasks \in Nat \ {0}, NEW id \in 0 .. tasks - 1
  PROVE  /\ FirstSegment(segs, tasks, id) \in Nat
         /\ TaskSegments(segs, tasks, id) \in Nat
         /\ tasks <= segs => TaskSegments(segs, tasks, id) >= 1
<1>1. segs \div tasks \in Nat /\ segs % tasks \in Nat
  OBVIOUS
<1>2. id * (segs \div tasks) \in Nat
  BY <1>1
<1>3. tasks <= segs => segs \div tasks >= 1
  OBVIOUS
<1> QED
  BY <1>1, <1>2, <1>3 DEF FirstSegment, TaskSegments

(* Multiplication by a count is monotone. *)
LEMMA TimesMonotone ==
  ASSUME NEW a \in Nat, NEW b \in Nat, NEW q \in Nat, a <= b
  PROVE  a * q <= b * q
<1>1. PICK d \in Nat : b = a + d
  <2>1. b - a \in Nat /\ b = a + (b - a)
    OBVIOUS
  <2> QED
    BY <2>1
<1>2. b * q = a * q + d * q
  BY <1>1
<1>3. d * q \in Nat /\ a * q \in Nat
  OBVIOUS
<1> QED
  BY <1>2, <1>3

(* The tasks' segment ranges follow one another from the first segment to
   the last. *)
LEMMA TasksFollow ==
  ASSUME NEW segs \in Nat, NEW tasks \in Nat \ {0}
  PROVE  /\ FirstSegment(segs, tasks, 0) = 0
         /\ FirstSegment(segs, tasks, tasks) = segs
         /\ \A id \in 0 .. tasks - 1 :
              /\ FirstSegment(segs, tasks, id + 1)
                   = FirstSegment(segs, tasks, id) + TaskSegments(segs, tasks, id)
              /\ FirstSegment(segs, tasks, id + 1) <= segs
<1> DEFINE q == segs \div tasks
           r == segs % tasks
<1>1. q \in Nat /\ r \in 0 .. tasks - 1 /\ segs = tasks * q + r
  OBVIOUS
<1> HIDE DEF q, r
<1>2. \A id : FirstSegment(segs, tasks, id) = id * q + (IF id <= r THEN id ELSE r)
  BY DEF FirstSegment, q, r
<1>3. 0 * q = 0
  BY <1>1
<1>4. FirstSegment(segs, tasks, 0) = 0 /\ FirstSegment(segs, tasks, tasks) = segs
  BY <1>1, <1>2, <1>3
<1>5. ASSUME NEW id \in 0 .. tasks - 1
      PROVE  /\ FirstSegment(segs, tasks, id + 1)
                  = FirstSegment(segs, tasks, id) + TaskSegments(segs, tasks, id)
             /\ FirstSegment(segs, tasks, id + 1) <= segs
  <2>1. (id + 1) * q = id * q + q /\ id * q \in Nat
    BY <1>1
  <2>2. TaskSegments(segs, tasks, id) = q + (IF id < r THEN 1 ELSE 0)
    BY DEF TaskSegments, q, r
  <2>3. (id + 1) * q <= tasks * q
    BY <1>1, TimesMonotone
  <2>4. tasks * q \in Nat
    BY <1>1
  <2> QED
    BY <1>1, <1>2, <2>1, <2>2, <2>3, <2>4
<1> QED
  BY <1>4, <1>5
=============================================================================
