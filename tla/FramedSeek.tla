----------------------------- MODULE FramedSeek -----------------------------
(***************************************************************************)
(* Random access into a framed container: the index built from the footer, *)
(* the directory and the padding between chunks, the backward closure of   *)
(* what a resource depends on, and the sparse decoding of just that.  The  *)
(* source may fail at any read: the operation ends, the index stays.       *)
(* Sources: src/src/decompressor/framing/core/seek.rs, seek.rs.            *)
(***************************************************************************)
EXTENDS FramedDecoder

CONSTANTS
  SeekBuffer,     \* Operation::input and the discarded output
  MaxSeekFaults   \* bound: failures of the source in a behaviour

ASSUME SeekAssumption == SeekBuffer \in Nat \ {0} /\ MaxSeekFaults \in Nat

VARIABLES
  index,      \* Index
  task        \* Operation with its ResourceReader or metadata request

seekVars == <<index, task>>

NoIndex == [error |-> "none", open |-> FALSE, chunks |-> <<>>, resources |-> <<>>,
            owners |-> <<>>, cache |-> <<>>, faults |-> 0]
NoTask  == [what |-> "none", of |-> 0, footer |-> FALSE, from |-> 0, to |-> 0, plan |-> <<>>,
            next |-> 1, active |-> 0, held |-> 0, pc |-> "idle", room |-> 0,
            text |-> <<>>, ended |-> FALSE, error |-> "none"]
SeekInit == index = NoIndex /\ task = NoTask

-----------------------------------------------------------------------------
(* Index::padding: only padding lies between two listed chunks.            *)
OnlyPadding(chunks, from, to) ==
  \/ from = to
  \/ LET gap == {k \in DOMAIN chunks : chunks[k].at >= from /\ chunks[k].at < to}
     IN /\ \E k \in gap : chunks[k].at = from
        /\ \E k \in gap : EndOf(chunks[k]) = to
        /\ \A k \in gap : chunks[k].kind = "padding"

(* Index::structure: one pass over the listed chunks.                      *)
FirstOriginal(es, from, to) ==
  LET at == {k \in from .. to : es[k].kind \in {"metadata", "footerMeta"}}
  IN IF at = {} THEN 0 ELSE CHOOSE k \in at : \A m \in at : k <= m
NewPass == [error |-> "none", partial |-> FALSE, pending |-> 0, repeatStart |-> 0,
            originals |-> 0, repeats |-> 0, cursor |-> 1, resources |-> <<>>, owners |-> <<>>]
OutOfOrder(s, es, i) ==
  LET k == es[i].kind
      previous == IF i = 1 THEN "none" ELSE es[i - 1].kind
  IN \/ s.partial /\ k \notin {"middle", "last"}
     \/ s.pending # 0 /\ k \notin {"data", "first"}
     \/ s.repeatStart # 0 /\ k # "repeat"
     \/ k \in {"middle", "last"} /\ ~s.partial
     \/ k = "footerMeta" /\ previous \notin {"data", "last"}
BadKeep(es, i) ==
  /\ es[i].codec = "keep"
  /\ \/ i = 1
     \/ es[i - 1].codec = "raw"
     \/ es[i].kind = "repeat" /\ es[i - 1].kind # "repeat"
Listed(s, es, i) ==
  LET c == es[i]
      o == FirstOriginal(es, s.cursor, i - 1)
      n == Len(s.resources)
      opened == IF c.kind \in {"data", "first"}
                THEN Append(s.resources, [from |-> i, to |-> i, meta |-> s.pending, footer |-> 0])
                ELSE s.resources
      owner == IF c.kind \in DataKinds THEN Len(opened) ELSE 0
      owned == IF owner # 0 THEN [opened EXCEPT ![owner].to = i] ELSE opened
  IN [s EXCEPT
        !.pending = CASE c.kind = "metadata" -> i [] c.kind \in {"data", "first"} -> 0 [] OTHER -> @,
        !.originals = IF c.kind \in {"metadata", "footerMeta"} THEN @ + 1 ELSE @,
        !.partial = CASE c.kind = "first" -> TRUE [] c.kind \in {"data", "last"} -> FALSE [] OTHER -> @,
        !.resources = IF c.kind = "footerMeta" THEN [@ EXCEPT ![n].footer = i] ELSE owned,
        !.owners = Append(@, owner),
        !.repeatStart = IF c.kind = "repeat" /\ @ = 0 THEN c.at ELSE @,
        !.repeats = IF c.kind = "repeat" THEN @ + 1 ELSE @,
        !.cursor = IF c.kind = "repeat" THEN o + 1 ELSE @]
Pass(s, es, i) ==
  LET o == FirstOriginal(es, s.cursor, i - 1)
  IN CASE s.error # "none" -> s
       [] s.error = "none" /\ OutOfOrder(s, es, i) -> [s EXCEPT !.error = "InvalidOrder"]
       [] s.error = "none" /\ ~OutOfOrder(s, es, i) /\ BadKeep(es, i) -> [s EXCEPT !.error = "InvalidChunk"]
       [] OTHER -> IF es[i].kind = "repeat" /\ (o = 0 \/ es[o].kind # es[i].of)
                   THEN [s EXCEPT !.error = "InvalidMetadata"]
                   ELSE Listed(s, es, i)

(* Index::dependency: the listed chunks a reference stands for.            *)
SlotAt(es, at) == {k \in DOMAIN es : es[k].at = at}
Depends(s, es, i, ref) ==
  \E t \in SlotAt(es, ref.at) :
    /\ t < i
    /\ es[i].kind = "repeat" => es[t].kind = "repeat"
    /\ ref.to # "chunk" =>
         s.owners[t] # 0 /\ s.resources[s.owners[t]].from = t /\ s.resources[s.owners[t]].to < i
Dependency(ix, ref) ==
  LET t == CHOOSE k \in SlotAt(ix.chunks, ref.at) : TRUE
  IN IF ref.to = "chunk" THEN <<t, t>> ELSE <<t, ix.resources[ix.owners[t]].to>>

Structure(es, pointer) ==
  LET s == FoldLeft(LAMBDA p, i : Pass(p, es, i), NewPass, [i \in DOMAIN es |-> i])
      error == IF s.error # "none" THEN s.error
               ELSE IF s.partial \/ s.pending # 0 THEN "InvalidOrder"
               ELSE IF s.repeatStart # pointer \/ (s.repeats # 0 /\ s.repeats # s.originals) THEN "InvalidDirectory"
               ELSE IF \E i \in DOMAIN es : \E k \in DOMAIN es[i].refs : ~Depends(s, es, i, es[i].refs[k])
                 THEN "InvalidReference"
               ELSE "none"
  IN [s EXCEPT !.error = error]

(* Index::open, on a source that does not fail.                            *)
ListedInOrder(es, dir) ==
  \A i \in DOMAIN es :
    /\ es[i].at >= (IF i = 1 THEN Signature ELSE es[i - 1].at + es[i - 1].length)
    /\ es[i].at < dir /\ es[i].at + es[i].length <= dir
    /\ HasCodec(es[i])
GapsArePadding(chunks, es, d, footer) ==
  LET n == Len(es)
      start(i) == IF i = 1 THEN Signature ELSE es[i - 1].at + es[i - 1].length
  IN /\ \A i \in 1 .. n : OnlyPadding(chunks, start(i), es[i].at)
     /\ OnlyPadding(chunks, start(n + 1), d.at)
     /\ OnlyPadding(chunks, EndOf(d), footer.at)
OpenIndex(tp) ==
  LET footer == Last(tp.chunks)
      at == {k \in DOMAIN tp.chunks : tp.chunks[k].at = footer.dir}
      d == tp.chunks[CHOOSE k \in at : TRUE]
      s == Structure(d.entries, d.ptr)
      error == IF tp.raw THEN "InvalidSignature"
               ELSE IF ~tp.footer THEN "CentralDirectoryRequired"
               ELSE IF \/ tp.trailing # 0 \/ tp.chunks = <<>> \/ footer.kind # "footer"
                       \/ footer.size \notin {0, EndOf(footer)} THEN "InvalidFooter"
               ELSE IF footer.dir = 0 THEN "CentralDirectoryRequired"
               ELSE IF at = {} \/ d.kind # "directory" \/ EndOf(d) > footer.at THEN "InvalidDirectory"
               ELSE IF \/ ~ListedInOrder(d.entries, d.at)
                       \/ ~GapsArePadding(tp.chunks, d.entries, d, footer) THEN "InvalidDirectory"
               ELSE s.error
  IN IF error # "none" THEN [NoIndex EXCEPT !.error = error]
     ELSE [NoIndex EXCEPT !.open = TRUE, !.chunks = d.entries, !.resources = s.resources,
             !.owners = s.owners, !.cache = [i \in DOMAIN d.entries |-> None]]

(* FramedDecompressor::framed_seek_reader *)
SeekOpen(retain) ==
  /\ ~index.open /\ index.error = "none"
  /\ eng' = NewEngine(retain, [exact |-> -1])
  /\ index' = OpenIndex(tape)
  /\ UNCHANGED <<tape, got, heard, shelf, task>>

-----------------------------------------------------------------------------
(* Operation::new: every dependency points backwards, so one reverse pass  *)
(* closes the plan.                                                        *)
NotNeeded == [decode |-> FALSE, retain |-> FALSE, whole |-> FALSE]
(* Mutant: the chunk a decoder is kept from is not decoded. *)
NeedsOnlyReferences(plan, ix, i) ==
  LET refer(p, ref) == LET d == Dependency(ix, ref)
                       IN [p EXCEPT ![d[2]] = [decode |-> TRUE, retain |-> TRUE, whole |-> FALSE]]
  IN IF ~plan[i].decode THEN plan ELSE FoldLeft(refer, plan, ix.chunks[i].refs)
Needs(plan, ix, i) ==
  LET c == ix.chunks[i]
      own == [plan EXCEPT ![i].retain = @ \/ plan[i].whole]
      part == ix.owners[i] # 0 /\ i > ix.resources[ix.owners[i]].from
      earlier == IF part THEN [own EXCEPT ![i - 1].decode = TRUE, ![i - 1].whole = @ \/ plan[i].whole] ELSE own
      kept == IF c.codec = "keep" THEN [earlier EXCEPT ![i - 1].decode = TRUE] ELSE earlier
      refer(p, ref) == LET d == Dependency(ix, ref)
                       IN [p EXCEPT ![d[2]] = [decode |-> TRUE, retain |-> TRUE, whole |-> @.whole \/ d[1] < d[2]]]
  IN IF ~plan[i].decode THEN plan ELSE FoldLeft(refer, kept, c.refs)
Plan(ix, from, to) ==
  LET n == Len(ix.chunks)
      asked == [i \in 1 .. n |-> [NotNeeded EXCEPT !.decode = i \in from .. to]]
  IN FoldLeft(LAMBDA p, i : Needs(p, ix, i), asked, [k \in 1 .. n |-> n + 1 - k])
Refers(ix, plan) == \E i \in DOMAIN plan : plan[i].decode /\ ix.chunks[i].refs # <<>>

NewOperation(t, from, to) ==
  LET plan == Plan(index, from, to)
      planned == [t EXCEPT !.from = from, !.to = to, !.plan = plan]
  IN /\ task' = IF ~eng.retain /\ Refers(index, plan)
                THEN [planned EXCEPT !.error = "Disabled", !.ended = TRUE, !.pc = "idle"]
                ELSE planned
     /\ eng' = NewEngine(eng.retain, [exact |-> -1])

(* FramedSeekReader::resource *)
SeekResource(i) ==
  /\ index.open /\ task.what = "none"
  /\ i \in DOMAIN index.resources
  /\ NewOperation([NoTask EXCEPT !.what = "resource", !.of = i], index.resources[i].from, index.resources[i].to)
  /\ UNCHANGED <<tape, got, heard, shelf, index>>

(* FramedSeekReader::metadata: a chunk that is not cached is decoded, with *)
(* the output of what it depends on discarded.                             *)
MetaSlot(i, footer) == IF footer THEN index.resources[i].footer ELSE index.resources[i].meta
SeekMetadata(i, footer) ==
  /\ index.open /\ task.what = "none"
  /\ i \in DOMAIN index.resources
  /\ LET slot == MetaSlot(i, footer)
         t == [NoTask EXCEPT !.what = "metadata", !.of = i, !.footer = footer]
     IN IF slot = 0
        THEN task' = [t EXCEPT !.ended = TRUE] /\ eng' = eng
        ELSE IF index.cache[slot] # None
        THEN task' = [t EXCEPT !.ended = TRUE, !.text = index.cache[slot]] /\ eng' = eng
        ELSE NewOperation([t EXCEPT !.pc = "read", !.room = SeekBuffer], slot, slot)
  /\ UNCHANGED <<tape, got, heard, shelf, index>>

(* ResourceReader::read *)
SeekRead(room) ==
  /\ task.what = "resource" /\ task.pc = "idle" /\ ~task.ended /\ room > 0
  /\ task' = [task EXCEPT !.pc = "read", !.room = room]
  /\ UNCHANGED <<sessionVars, index>>

(* The operation or the reader is dropped; the owner's engine is cleared.  *)
SeekClose ==
  /\ task.what # "none" /\ (task.pc = "idle" \/ task.ended)
  /\ task' = NoTask
  /\ eng' = NewEngine(eng.retain, [exact |-> -1])
  /\ UNCHANGED <<tape, got, heard, shelf, index>>

SeekGivesUp(error, e) ==
  /\ task' = [task EXCEPT !.pc = "idle", !.ended = TRUE, !.error = error]
  /\ eng' = e
  /\ UNCHANGED <<tape, got, heard, shelf>>

(* Operation::begin: the chunk's header must be the one listed.            *)
NextNeeded == {i \in task.next .. Len(task.plan) : task.plan[i].decode}

Entering(i, c) ==
  LET starts == c.kind \in DataKinds /\ index.resources[index.owners[i]].from = i
      listed == [eng EXCEPT !.chunks = Append(@, c), !.pendingMeta = IF starts THEN 0 ELSE @]
      owned == IF ~starts THEN listed
               ELSE [AddResource(listed, c.at) EXCEPT !.resources[Len(eng.resources) + 1].index = index.owners[i]]
  IN [owned EXCEPT !.active = @ /\ c.codec = "keep", !.ended = @ /\ c.codec = "keep",
        !.previous = IF i = 1 THEN "none" ELSE index.chunks[i - 1].kind,
        !.left = Body(c), !.made = 0, !.start = Len(eng.cache), !.phase = "content"]
SeekBegin ==
  /\ task.pc = "read" /\ ~task.ended /\ task.active = 0
  /\ \E i \in NextNeeded :
       /\ \A m \in NextNeeded : i <= m
       /\ \E c \in {tape.chunks[k] : k \in DOMAIN tape.chunks} :
            /\ c.at = index.chunks[i].at
            /\ IF index.chunks[i] # Entry(c) THEN SeekGivesUp("DirectoryMismatch", eng)
               ELSE \E e \in {Entering(i, c)} :
                    \E r \in {Prepare([e |-> e, len |-> 0, room |-> 0, ahead |-> FALSE,
                                       used |-> 0, made |-> <<>>, tag |-> "run"])} :
                      IF r.tag # "run" THEN SeekGivesUp(r.tag, r.e)
                      ELSE /\ task' = [task EXCEPT !.next = i + 1, !.active = i, !.held = 0]
                           /\ eng' = r.e
                           /\ UNCHANGED <<tape, got, heard, shelf>>
  /\ index' = index

(* Operation::read: the active chunk's payload, kept only where the plan   *)
(* says so, delivered only from the requested resource.                    *)
SeekPayload(ahead) ==
  /\ task.pc = "read" /\ ~task.ended /\ task.active # 0 /\ eng.phase # "semantic"
  /\ LET i == task.active
         held == IF task.held = 0 THEN Least(eng.left, SeekBuffer) ELSE task.held
         delivers == i \in task.from .. task.to /\ index.chunks[i].kind \in DataKinds
     IN \E r \in {Payload([e |-> [eng EXCEPT !.retain = @ /\ task.plan[i].retain], len |-> held,
                           room |-> IF delivers THEN task.room ELSE SeekBuffer, ahead |-> ahead,
                           used |-> 0, made |-> <<>>, tag |-> "run"])} :
        IF r.tag \in Errors THEN SeekGivesUp(r.tag, [r.e EXCEPT !.retain = eng.retain])
        ELSE IF r.used = 0 /\ r.made = <<>> /\ r.tag = "Input" /\ r.e.phase # "semantic"
          THEN SeekGivesUp("UnexpectedEnd", [r.e EXCEPT !.retain = eng.retain])
        ELSE /\ task' = [task EXCEPT !.held = held - r.used,
                           !.text = IF delivers THEN @ \o r.made ELSE @,
                           !.pc = IF delivers /\ r.made # <<>> THEN "idle" ELSE @]
             /\ eng' = [r.e EXCEPT !.retain = eng.retain]
             /\ UNCHANGED <<tape, got, heard, shelf>>
  /\ index' = index

(* Operation::finish: the codec ends exactly where no chunk continues it.  *)
SeekFinish ==
  /\ task.pc = "read" /\ ~task.ended /\ task.active # 0 /\ eng.phase = "semantic"
  /\ LET i == task.active
         c == index.chunks[i]
         continues == i < Len(index.chunks) /\ index.chunks[i + 1].codec = "keep"
         kind == IF c.kind = "repeat" THEN c.of ELSE c.kind
         meta == [kind |-> kind, fields |-> eng.scratch, source |-> c.at, original |-> 0, scope |-> 0]
         n == Len(eng.resources)
         done == IF c.kind \in {"data", "last"} THEN [Register(eng, 0) EXCEPT !.resources[n].complete = TRUE]
                 ELSE IF c.kind \in DataKinds THEN Register(eng, 0)
                 ELSE Register([eng EXCEPT !.metadata = Append(@, meta), !.scratch = <<>>], Len(eng.metadata) + 1)
     IN IF eng.active /\ eng.ended = continues THEN SeekGivesUp("InvalidChunk", eng)
        ELSE IF c.kind \notin DataKinds /\ ~ValidFields(eng.scratch, kind) THEN SeekGivesUp("InvalidMetadata", eng)
        ELSE /\ task' = [task EXCEPT !.active = 0]
             /\ eng' = done
             /\ UNCHANGED <<tape, got, heard, shelf>>
  /\ index' = index

(* Nothing is left to decode: the resource ends, or the metadata is there. *)
SeekDone ==
  /\ task.pc = "read" /\ ~task.ended /\ task.active = 0 /\ NextNeeded = {}
  /\ LET slot == MetaSlot(task.of, task.footer)
         found == {k \in DOMAIN eng.metadata : eng.metadata[k].source = index.chunks[slot].at}
         fields == eng.metadata[CHOOSE k \in found : TRUE].fields
     IN IF task.what = "resource"
        THEN task' = [task EXCEPT !.pc = "idle", !.ended = TRUE] /\ index' = index
        ELSE /\ task' = [task EXCEPT !.pc = "idle", !.ended = TRUE, !.text = <<fields>>]
             /\ index' = [index EXCEPT !.cache[slot] = <<fields>>]
  /\ UNCHANGED sessionVars

(* A seek or a read of the source fails. *)
SeekFault ==
  /\ task.pc = "read" /\ ~task.ended /\ index.faults < MaxSeekFaults
  /\ \/ task.active = 0 /\ NextNeeded # {}
     \/ task.active # 0 /\ eng.phase # "semantic" /\ task.held = 0 /\ eng.left > 0
  /\ SeekGivesUp("Io", eng)
  /\ index' = [index EXCEPT !.faults = @ + 1]

SeekStep == SeekBegin \/ (\E ahead \in BOOLEAN : SeekPayload(ahead)) \/ SeekFinish \/ SeekDone \/ SeekFault
=============================================================================
