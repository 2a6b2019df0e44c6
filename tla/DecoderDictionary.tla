-------------------------- MODULE DecoderDictionary --------------------------
(***************************************************************************)
(* The decoder's dictionary: a second parser of the serialized form, which *)
(* keeps offsets into the source instead of lists                          *)
(* (src/src/shared/decode_serialized.rs), and the attachments a decoder    *)
(* owns within a budget (src/src/shared/decode_dictionary.rs).             *)
(*                                                                         *)
(* A refusal is {}, as on the encoder's side.                              *)
(***************************************************************************)
EXTENDS SharedDictionary

CONSTANTS
    DecoderMaxPrefix,   \* the decoder's ceiling on a prefix (2^62 - 16)
    LayoutBytes         \* bytes a word, transform and combination record takes

\* Cursor::varint: seven bits a byte, the ninth the last.
RECURSIVE VarintFrom(_, _, _, _)
VarintFrom(src, at, shift, value) ==
    IF shift = MaxVarintBytes \/ at >= Len(src) THEN {}
    ELSE LET next == value + (src[at + 1] % VarintBase) * VarintBase^shift
         IN IF src[at + 1] < VarintBase THEN {<<next, at + 1>>}
            ELSE VarintFrom(src, at + 1, shift + 1, next)

\* reserve: {} past the budget, else what is live with it.
Reserve(live, bytes, limit) == IF live + bytes > limit THEN {} ELSE {live + bytes}

\* WordLayout::parse: {<<layout, position>>}.
RECURSIVE WordOffsets(_, _, _, _, _)
WordOffsets(src, bits, length, at, offsets) ==
    IF length > MaxWord THEN {<<[bits |-> bits, offsets |-> offsets], at>>}
    ELSE IF bits[length] > MaxSizeBits THEN {}
    ELSE LET end == at + IF bits[length] = 0 THEN 0 ELSE length * 2^bits[length]
         IN IF end > Len(src) THEN {}
            ELSE WordOffsets(src, bits, length + 1, end, [offsets EXCEPT ![length] = at])
WordLayout(src, at) ==
    LET first == at + Cardinality(Lengths)
    IN IF first > Len(src) THEN {}
       ELSE WordOffsets(src, [l \in Lengths |-> src[at + 1 + l - MinWord]], MinWord, first,
                        [l \in Lengths |-> 0])

\* The stringlets of a block of size bytes from strings on, as offsets into it.
RECURSIVE LayoutStrings(_, _, _, _, _)
LayoutStrings(src, strings, size, position, offsets) ==
    IF position >= size \/ Len(offsets) = MaxStringlets THEN <<>>
    ELSE LET length == src[strings + position + 1]
         IN IF length # 0
            THEN LayoutStrings(src, strings, size, position + 1 + length, Append(offsets, position))
            ELSE IF position + 1 = size THEN Append(offsets, position) ELSE <<>>

\* TransformLayout::parse: {<<layout, position>>}.
TransformLayout(src, at) ==
    LET size == src[at + 1] + 256 * src[at + 2]
        offsets == LayoutStrings(src, at + 2, size, 0, <<>>)
        count == src[at + 2 + size + 1]
        triples == at + 3 + size
        all == Triples(src, triples, count)
        shifts == \E i \in DOMAIN all : all[i][2] >= ShiftFirst
        params == triples + 3 * count
        end == params + IF shifts THEN 2 * count ELSE 0
    IN IF at + 2 > Len(src) THEN {}
       ELSE IF at + 2 + size > Len(src) THEN {}
       ELSE IF offsets = <<>> \/ at + 3 + size > Len(src) THEN {}
       ELSE IF params > Len(src) THEN {}
       ELSE IF \E i \in DOMAIN all : \/ all[i][1] >= Len(offsets) \/ all[i][3] >= Len(offsets)
                                     \/ all[i][2] > ShiftAll THEN {}
       ELSE IF end > Len(src) THEN {}
       ELSE IF shifts /\ \E i \in DOMAIN all :
                all[i][2] < ShiftFirst /\ Bytes(src, params + 2 * (i - 1), 2) # <<0, 0>> THEN {}
       ELSE {<<[strings |-> at + 2, offsets |-> offsets, triples |-> triples, count |-> count,
                params |-> IF shifts THEN {params} ELSE {}], end>>}

\* A list of layouts: a count, room for them, then one after the other.
RECURSIVE Layouts(_, _, _, _)
Layouts(layout(_), at, n, found) ==
    IF n = 0 THEN {<<found, at>>}
    ELSE UNION {Layouts(layout, x[2], n - 1, Append(found, x[1])) : x \in layout(at)}
LayoutList(src, layout(_), at, live, each, limit) ==
    IF at >= Len(src) THEN {} ELSE IF src[at + 1] > MaxLists THEN {}
    ELSE UNION {{<<x[1], x[2], l>> : x \in Layouts(layout, at + 1, src[at + 1], <<>>)}
                : l \in Reserve(live, src[at + 1] * each, limit)}

\* Mutant: a context map is taken as it is.
ContextsUnchecked(map, n) == TRUE
ContextsFit(map, n) == \A i \in DOMAIN map : map[i] < n
\* The combinations and the context map, and a copy of the source up to there.
CustomPart(src, desc, at, live, limit) ==
    LET n == src[at + 1]
        combos == [i \in 1 .. n |-> Bytes(src, at + 1 + 2 * (i - 1), 2)]
        flag == at + 1 + 2 * n
        end == flag + 1 + IF src[flag + 1] = 1 THEN Contexts ELSE 0
        map == Bytes(src, flag + 1, end - flag - 1)
    IN IF at >= Len(src) THEN {}
       ELSE IF n = 0 \/ n > MaxLists \/ flag >= Len(src) THEN {}
       ELSE IF \E i \in 1 .. n : \/ combos[i][1] > Len(desc.words)
                                 \/ combos[i][2] > Len(desc.transforms) THEN {}
       ELSE IF src[flag + 1] > 1 \/ end > Len(src) THEN {}
       ELSE IF ~ContextsFit(map, n) THEN {}
       ELSE UNION {{<<[desc EXCEPT !.combos = combos, !.contexts = map, !.source = Bytes(src, 0, end)],
                      end, k>> : k \in Reserve(l, end, limit)}
                   : l \in Reserve(live, n * LayoutBytes.combos, limit)}

\* Description::parse: {[desc, prefix, end]}, prefix as <<position, bytes>>.
Custom(desc) == desc.words # <<>> \/ desc.transforms # <<>>
ParseDescription(src, existing, limit) ==
    LET WordsAt(at) == WordLayout(src, at)
        TransformsAt(at) == TransformLayout(src, at)
        prefixes == IF ~IsPrefix(Magic, src) THEN {}
                    ELSE {v \in VarintFrom(src, 2, 0, 0) : /\ v[1] <= DecoderMaxPrefix
                                                           /\ v[2] + v[1] <= Len(src)}
        WordLists(v) == LayoutList(src, WordsAt, v[2] + v[1], existing, LayoutBytes.words, limit)
        TransformLists(w) ==
            LayoutList(src, TransformsAt, w[2], w[3], LayoutBytes.transforms, limit)
        Bare(w, t) == [source |-> <<>>, words |-> w[1], transforms |-> t[1], combos |-> <<>>,
                       contexts |-> <<>>, retained |-> 0]
        Whole(w, t) == IF Custom(Bare(w, t)) THEN CustomPart(src, Bare(w, t), t[2], t[3], limit)
                       ELSE {<<Bare(w, t), t[2], t[3]>>}
    IN UNION {UNION {UNION {{[desc |-> [x[1] EXCEPT !.retained = x[3] - existing],
                              prefix |-> <<v[2], v[1]>>, end |-> x[2]]
                : x \in Whole(w, t)} : t \in TransformLists(w)} : w \in WordLists(v)} : v \in prefixes}

-----------------------------------------------------------------------------
(* The words of a description.                                             *)

\* TransformLayout::view and the word it is applied to.
ViewString(layout, src, id) ==
    Bytes(src, layout.strings + layout.offsets[id + 1] + 1,
          src[layout.strings + layout.offsets[id + 1] + 1])
ViewApply(layout, src, index, word) ==
    LET triple == Bytes(src, layout.triples + 3 * index, 3)
    IN Transformed(ViewString(layout, src, triple[1]), triple[2], ViewString(layout, src, triple[3]),
                   Total([p \in layout.params |-> src[p + 2 * index + 1] + 256 * src[p + 2 * index + 2]]),
                   word)

\* Description::resolve: {} or {the bytes an address of a length stands for}.
RECURSIVE ResolveIn(_, _, _, _)
ResolveIn(desc, order, address, length) ==
    IF order = <<>> THEN {}
    ELSE LET combo == desc.combos[Head(order) + 1]
             custom == combo[1] < Len(desc.words)
             shaped == combo[2] < Len(desc.transforms)
             bits == IF custom THEN desc.words[combo[1] + 1].bits[length]
                     ELSE BuiltinWords.bits[length]
             count == IF bits = 0 THEN 0 ELSE 2^bits
             of == IF shaped THEN desc.transforms[combo[2] + 1].count
                   ELSE Len(BuiltinTransforms.triples)
             from == IF custom THEN desc.words[combo[1] + 1].offsets[length]
                     ELSE WordBytesBelow(BuiltinWords.bits, length)
             word == Bytes(IF custom THEN desc.source ELSE BuiltinWords.data,
                           from + (address % count) * length, length)
         IN IF address >= count * of
            THEN ResolveIn(desc, Tail(order), address - count * of, length)
            ELSE {IF shaped
                  THEN ViewApply(desc.transforms[combo[2] + 1], desc.source, address \div 2^bits, word)
                  ELSE Apply(BuiltinTransforms, address \div 2^bits, word)}
Resolve(desc, address, length, context) ==
    IF length \notin Lengths THEN {}
    ELSE ResolveIn(desc, TryOrder(Len(desc.combos), Preferred(desc.contexts, context)), address, length)

-----------------------------------------------------------------------------
(* Prefixes: the segments a decoder owns, and one active description.      *)
(* peak is history: the most that was ever held at once.                   *)

NoPrefixes == [description |-> {}, segments |-> <<>>, retained |-> 0, peak |-> 0]
Larger(a, b) == IF a >= b THEN a ELSE b

\* attach: a copy of the bytes, in a slot of their own.
AttachSegment(p, bytes, held, limit) ==
    IF Len(p.segments) = MaxPrefixes \/ p.retained + Len(bytes) > limit THEN {}
    ELSE {[p EXCEPT !.segments = Append(@, bytes), !.retained = @ + Len(bytes),
                    !.peak = Larger(@, held + Len(bytes))]}

\* What the parts held take, apart from the code's own account of it.
DescriptionBytes(desc) ==
    Len(desc.source) + Len(desc.words) * LayoutBytes.words
        + Len(desc.transforms) * LayoutBytes.transforms + Len(desc.combos) * LayoutBytes.combos
Held(p) == PrefixTotal(p.segments) + Total([d \in p.description |-> DescriptionBytes(d)])

\* Mutant: only the new description is taken for live.
NewLive(p, desc) ==
    [p EXCEPT !.retained = @ + desc.retained - Total([d \in p.description |-> d.retained]),
              !.peak = Larger(@, Held(p) + DescriptionBytes(desc))]
BothLive(p, desc) ==
    [p EXCEPT !.retained = @ + desc.retained, !.peak = Larger(@, Held(p) + DescriptionBytes(desc))]
\* attach_serialized: a description that is not custom replaces a custom one.
AttachSerialized(p, src, limit) ==
    UNION {
        IF Custom(x.desc) /\ p.description # {} THEN {}
        ELSE LET both == BothLive(p, x.desc)
                 bytes == Bytes(src, x.prefix[1], x.prefix[2])
                 attached == IF bytes = <<>> THEN {both}
                             ELSE AttachSegment(both, bytes, Held(p) + DescriptionBytes(x.desc), limit)
             IN {[q EXCEPT !.retained = @ - Total([d \in p.description |-> d.retained]),
                           !.description = IF Custom(x.desc) THEN {x.desc} ELSE {}] : q \in attached}
        : x \in ParseDescription(src, p.retained, limit)}

\* run_from: the bytes from an address to the end of its segment.
RECURSIVE DecoderRunFrom(_, _)
DecoderRunFrom(segments, offset) ==
    IF segments = <<>> THEN <<>>
    ELSE IF offset < Len(Head(segments)) THEN SubSeq(Head(segments), offset + 1, Len(Head(segments)))
    ELSE DecoderRunFrom(Tail(segments), offset - Len(Head(segments)))

=============================================================================
