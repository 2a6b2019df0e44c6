--------------------------- MODULE SharedDictionary ---------------------------
(***************************************************************************)
(* The serialized shared dictionary of RFC 9841 on the encoder's side:     *)
(* the builders of word and transform lists, the bytes they are written    *)
(* as, the parser that reads them back (src/src/compressor/dictionary/     *)
(* serialized.rs, core/rfc9841/{serialized,words,transform,varint}.rs) and *)
(* the transforms both sides apply (src/src/shared/dictionary/             *)
(* transform.rs).                                                          *)
(*                                                                         *)
(* Bytes are numbers.  An operation that may refuse answers a set: {} is a *)
(* refusal, {x} the result x.  Positions count from 0, as in the code.     *)
(***************************************************************************)
EXTENDS Integers, FiniteSets, SequencesExt, Bitwise

CONSTANTS
    MinWord, MaxWord,        \* lengths of a word (4 and 31)
    MaxSizeBits,             \* MAX_SIZE_BITS (15)
    MaxLists,                \* MAX_LISTS (64)
    Contexts,                \* NUM_CONTEXTS (64)
    MaxStringlets,           \* MAX_STRINGLETS (256)
    MaxStringletBytes,       \* MAX_STRINGLET_BYTES (255)
    MaxTransforms,           \* MAX_TRANSFORMS (255)
    MaxCutOff,               \* MAX_CUT_OFF (9)
    MaxPrefix,               \* MAX_LZ77_DICTIONARY_LENGTH (2^30 - 16)
    VarintBase, MaxVarintBytes \* values per varint byte (128), its bytes (9)

Builtin == -1                \* ListRef::Builtin; Custom(i) is i
Magic == <<145, 0>>
Lengths == MinWord .. MaxWord
Bytes(src, at, n) == SubSeq(src, at + 1, at + n)
Total(f) == FoldFunction(LAMBDA a, b : a + b, 0, f)
SumLen(lists, len(_)) == Total([i \in DOMAIN lists |-> len(lists[i])])

-----------------------------------------------------------------------------
(* Words.                                                                  *)

\* offsets: where each length's words begin, and where they end.
WordBytesBelow(bits, length) ==
    Total([l \in MinWord .. length - 1 |-> IF bits[l] = 0 THEN 0 ELSE l * 2^bits[l]])
WordListOf(bits, data) ==
    IF (\A l \in Lengths : bits[l] <= MaxSizeBits) /\ Len(data) = WordBytesBelow(bits, MaxWord + 1)
    THEN {[bits |-> bits, data |-> data]} ELSE {}
WordCount(list, length) ==
    IF length \notin Lengths THEN 0 ELSE IF list.bits[length] = 0 THEN 0 ELSE 2^list.bits[length]
Word(list, length, index) ==
    IF index >= WordCount(list, length) THEN <<>>
    ELSE Bytes(list.data, WordBytesBelow(list.bits, length) + index * length, length)

\* ceil_log2: a group of one word still takes two slots.
CeilLog2(n) == IF n <= 2 THEN 1 ELSE CHOOSE b \in 1 .. n : 2^b >= n /\ 2^(b - 1) < n

\* WordListBuilder::build: groups by length, padded with their last word.
GroupOf(words, length) == SelectSeq(words, LAMBDA w : Len(w) = length)
Padded(group, slots) ==
    FlattenSeq([i \in 1 .. slots |-> IF i <= Len(group) THEN group[i] ELSE Last(group)])
SizeBits(words) ==
    [l \in Lengths |-> IF GroupOf(words, l) = <<>> THEN 0 ELSE CeilLog2(Len(GroupOf(words, l)))]
PaddedGroups(words, bits) ==
    FlattenSeq([k \in 1 .. MaxWord - MinWord + 1 |->
            IF bits[MinWord + k - 1] = 0 THEN <<>>
            ELSE Padded(GroupOf(words, MinWord + k - 1), 2^bits[MinWord + k - 1])])
BuildWordList(words) ==
    IF words = <<>> \/ \E i \in DOMAIN words : Len(words[i]) \notin Lengths THEN {}
    ELSE IF \E l \in Lengths : SizeBits(words)[l] > MaxSizeBits THEN {}
    ELSE WordListOf(SizeBits(words), PaddedGroups(words, SizeBits(words)))

-----------------------------------------------------------------------------
(* Transforms.  A list holds its stringlets' block, triples <<prefix,      *)
(* operation, suffix>>, and two parameter bytes a transform or none.       *)

FermentFirst == MaxCutOff + 1
FermentAll == MaxCutOff + 2
ShiftFirst == 2 * MaxCutOff + 3
ShiftAll == 2 * MaxCutOff + 4
Operations == 0 .. ShiftAll
Shifting(op) == op \in {ShiftFirst, ShiftAll}

\* index_stringlets: the offsets of the length-prefixed strings, <<>> if the
\* zero-length one is not the block's last byte.
RECURSIVE StringletsFrom(_, _, _)
StringletsFrom(block, offset, found) ==
    IF offset >= Len(block) THEN <<>>
    ELSE IF block[offset + 1] = 0
    THEN IF offset + 1 = Len(block) THEN Append(found, offset) ELSE <<>>
    ELSE IF Len(found) + 1 >= MaxStringlets \/ offset + 1 + block[offset + 1] >= Len(block) THEN <<>>
    ELSE StringletsFrom(block, offset + 1 + block[offset + 1], Append(found, offset))
Stringlets(block) == StringletsFrom(block, 0, <<>>)
StringletAt(block, offset) == Bytes(block, offset + 1, block[offset + 1])
Stringlet(list, id) == StringletAt(list.block, Stringlets(list.block)[id + 1])

Parameter(list, index) ==
    IF list.params = <<>> THEN 0 ELSE list.params[2 * index + 1] + 256 * list.params[2 * index + 2]

\* TransformList::from_parts.
TransformListOf(block, triples, params) ==
    LET strings == Stringlets(block)
        list == [block |-> block, triples |-> triples, params |-> params]
        shifts == \E i \in DOMAIN triples : Shifting(triples[i][2])
    IN IF /\ strings # <<>>
          /\ Len(triples) <= MaxTransforms
          /\ \A i \in DOMAIN triples : /\ triples[i][1] < Len(strings)
                                       /\ triples[i][3] < Len(strings)
                                       /\ triples[i][2] \in Operations
          /\ Len(params) = IF shifts THEN 2 * Len(triples) ELSE 0
          /\ \A i \in DOMAIN triples :
                ~Shifting(triples[i][2]) => Parameter(list, i - 1) = 0
       THEN {list} ELSE {}

\* compute_cutoffs: the first transform that only leaves cut bytes off.
CutOff(list, cut) ==
    LET plain == {i \in DOMAIN list.triples :
                    /\ list.triples[i][2] = cut
                    /\ Stringlet(list, list.triples[i][1]) = <<>>
                    /\ Stringlet(list, list.triples[i][3]) = <<>>}
    IN {i - 1 : i \in {j \in plain : \A k \in plain : j <= k}}

\* TransformListBuilder::build: strings interned in order of first use, the
\* empty one the terminator.  A pending transform is a record [p, op, s, v].
InternTable(pending) ==
    LET uses == FlattenSeq([i \in DOMAIN pending |-> <<pending[i].p, pending[i].s>>])
    IN FoldLeft(LAMBDA t, u : IF u = <<>> \/ u \in Range(t) THEN t ELSE Append(t, u), <<>>, uses)
StringletId(table, string) ==
    IF string = <<>> THEN Len(table) ELSE (CHOOSE i \in DOMAIN table : table[i] = string) - 1
BuildTransformList(pending) ==
    LET table == InternTable(pending)
        block == FlattenSeq([i \in DOMAIN table |-> <<Len(table[i])>> \o table[i]]) \o <<0>>
        triples == [i \in DOMAIN pending |->
            <<StringletId(table, pending[i].p), pending[i].op, StringletId(table, pending[i].s)>>]
        params == FlattenSeq([i \in DOMAIN pending |-> <<pending[i].v % 256, pending[i].v \div 256>>])
    IN IF \/ Len(pending) > MaxTransforms \/ Len(table) > MaxStringlets - 1
          \/ \E i \in DOMAIN table : Len(table[i]) > MaxStringletBytes
       THEN {}
       ELSE TransformListOf(block, triples,
                IF \E i \in DOMAIN pending : Shifting(pending[i].op) THEN params ELSE <<>>)

\* ferment: upper case of a leading character, or of all of them.
RECURSIVE Ferment(_, _, _)
Ferment(text, at, all) ==
    LET byte == text[at + 1]
        step == IF byte < 192 THEN 1 ELSE IF byte < 224 THEN 2 ELSE 3
        changed == CASE byte < 192 /\ byte \in 97 .. 122 -> [text EXCEPT ![at + 1] = @ ^^ 32]
                     [] byte \in 192 .. 223 /\ at + 2 <= Len(text) -> [text EXCEPT ![at + 2] = @ ^^ 32]
                     [] byte >= 224 /\ at + 3 <= Len(text) -> [text EXCEPT ![at + 3] = @ ^^ 5]
                     [] OTHER -> text
    IN IF at >= Len(text) THEN text
       ELSE IF all THEN Ferment(changed, at + step, all) ELSE changed

\* shift: the scalar of a leading character, or of each, moved by a parameter.
ScalarForm(first) ==
    CASE first <= 127 -> <<1, 128>> [] first \in 192 .. 223 -> <<2, 32>>
      [] first \in 224 .. 239 -> <<3, 16>> [] first \in 240 .. 247 -> <<4, 8>> [] OTHER -> <<0, 0>>
Scalar(chars, mask) ==
    FoldLeft(LAMBDA a, b : a * 64 + (b % 64), chars[1] % mask, Tail(chars))
WithScalar(chars, mask, scalar) ==
    [i \in DOMAIN chars |->
        IF i = 1 THEN (chars[1] - (chars[1] % mask)) + ((scalar \div 64^(Len(chars) - 1)) % mask)
        ELSE (chars[i] - (chars[i] % 64)) + ((scalar \div 64^(Len(chars) - i)) % 64)]
Overwrite(text, at, chars) ==
    [i \in DOMAIN text |-> IF i \in at + 1 .. at + Len(chars) THEN chars[i - at] ELSE text[i]]
RECURSIVE Shift(_, _, _, _)
Shift(text, at, v, all) ==
    IF at >= Len(text) THEN text
    ELSE LET form == ScalarForm(text[at + 1])
             moved == WithScalar(Bytes(text, at, form[1]), form[2],
                        Scalar(Bytes(text, at, form[1]), form[2]) + v
                            + IF v >= 32768 THEN 16711680 ELSE 0)
         IN IF form[1] = 0 THEN IF all THEN Shift(text, at + 1, v, all) ELSE text
            ELSE IF at + form[1] > Len(text) THEN text
            ELSE IF all THEN Shift(Overwrite(text, at, moved), at + form[1], v, all)
            ELSE Overwrite(text, at, moved)

\* Transform::apply: what the word becomes between prefix and suffix.
Transformed(prefix, op, suffix, v, word) ==
    LET body == CASE op <= MaxCutOff -> Bytes(word, 0, IF op > Len(word) THEN 0 ELSE Len(word) - op)
                  [] op = FermentFirst -> Ferment(word, 0, FALSE)
                  [] op = FermentAll -> Ferment(word, 0, TRUE)
                  [] op > FermentAll /\ op < ShiftFirst ->
                        SubSeq(word, op - FermentAll + 1, Len(word))
                  [] op = ShiftFirst -> Shift(word, 0, v, FALSE)
                  [] op = ShiftAll -> Shift(word, 0, v, TRUE)
    IN prefix \o body \o suffix

\* TransformList::apply, a word unchanged by an index past the list.
Apply(list, index, word) ==
    IF index >= Len(list.triples) THEN word
    ELSE Transformed(Stringlet(list, list.triples[index + 1][1]), list.triples[index + 1][2],
                     Stringlet(list, list.triples[index + 1][3]), Parameter(list, index), word)

-----------------------------------------------------------------------------
(* A dictionary, its bytes and the parser.  A dictionary is a record       *)
(* [prefix, words, transforms, combos, contexts]; prefix is {} or {bytes}, *)
(* a combination <<word list, transform list>>, contexts <<>> without map. *)

PrefixBytes(d) == IF d.prefix = {} THEN <<>> ELSE CHOOSE p \in d.prefix : TRUE
IsCustomStatic(d) == d.words # <<>> \/ d.transforms # <<>>
WordsLen(list) == Len(list.data)
TransformLen(list) == 3 + Len(list.block) + 3 * Len(list.triples) + Len(list.params)

\* check_reference: a custom list must exist.
CheckReference(ref, available) == ref = Builtin \/ ref < available

\* SerializedLimits, and assemble, which applies them and drops what only a
\* custom dictionary has.
Assemble(prefix, words, transforms, combos, contexts, limits) ==
    LET d == [prefix |-> prefix, words |-> words, transforms |-> transforms,
              combos |-> combos, contexts |-> contexts]
        plain == [d EXCEPT !.combos = <<>>, !.contexts = <<>>]
    IN IF /\ Len(words) <= MaxLists /\ Len(words) <= limits.words
          /\ Len(transforms) <= MaxLists /\ Len(transforms) <= limits.transforms
          /\ Len(combos) <= MaxLists /\ Len(combos) <= limits.combos
          /\ Len(PrefixBytes(d)) <= MaxPrefix /\ Len(PrefixBytes(d)) <= limits.prefix
          /\ SumLen(words, WordsLen) <= limits.wordBytes
          /\ SumLen(transforms, TransformLen) <= limits.transformBytes
          /\ IsCustomStatic(d) => combos # <<>>
          /\ \A i \in DOMAIN combos : /\ CheckReference(combos[i][1], Len(words))
                                      /\ CheckReference(combos[i][2], Len(transforms))
          /\ \A i \in DOMAIN contexts : contexts[i] < Len(combos)
       THEN {IF IsCustomStatic(d) THEN d ELSE plain} ELSE {}

\* SerializedDictionaryBuilder::build: one combination if none was named.
FirstList(lists) == IF lists = <<>> THEN Builtin ELSE 0
BuildDictionary(parts, limits) ==
    Assemble(parts.prefix, parts.words, parts.transforms,
        IF IsCustomStatic(parts) /\ parts.combos = <<>>
        THEN <<<<FirstList(parts.words), FirstList(parts.transforms)>>>> ELSE parts.combos,
        parts.contexts, limits)

\* varint::write.
RECURSIVE WriteVarint(_)
WriteVarint(value) ==
    IF value < VarintBase THEN <<value>>
    ELSE <<VarintBase + (value % VarintBase)>> \o WriteVarint(value \div VarintBase)

\* serialize: WordList's, TransformList's and the dictionary's.
SerializeWords(list) == [i \in 1 .. Cardinality(Lengths) |-> list.bits[MinWord + i - 1]] \o list.data
SerializeTransforms(list) ==
    <<Len(list.block) % 256, Len(list.block) \div 256>> \o list.block
        \o <<Len(list.triples)>> \o FlattenSeq(list.triples) \o list.params
Encode(ref, custom) == IF ref = Builtin THEN custom ELSE ref
SerializeCombos(d) ==
    <<Len(d.combos)>> \o FlattenSeq([i \in DOMAIN d.combos |->
            <<Encode(d.combos[i][1], Len(d.words)), Encode(d.combos[i][2], Len(d.transforms))>>])
        \o (IF d.contexts = <<>> THEN <<0>> ELSE <<1>> \o d.contexts)
Serialize(d) ==
    Magic \o WriteVarint(Len(PrefixBytes(d))) \o PrefixBytes(d)
        \o <<Len(d.words)>> \o FlattenSeq([i \in DOMAIN d.words |-> SerializeWords(d.words[i])])
        \o <<Len(d.transforms)>>
        \o FlattenSeq([i \in DOMAIN d.transforms |-> SerializeTransforms(d.transforms[i])])
        \o (IF IsCustomStatic(d) THEN SerializeCombos(d) ELSE <<>>)

\* wire_len.
RECURSIVE VarintLen(_)
VarintLen(value) == IF value < VarintBase THEN 1 ELSE 1 + VarintLen(value \div VarintBase)
WireLen(d) ==
    2 + VarintLen(Len(PrefixBytes(d))) + Len(PrefixBytes(d))
      + 1 + SumLen(d.words, WordsLen) + Len(d.words) * Cardinality(Lengths)
      + 1 + SumLen(d.transforms, TransformLen)
      + (IF IsCustomStatic(d)
         THEN 2 + 2 * Len(d.combos) + (IF d.contexts = <<>> THEN 0 ELSE Contexts) ELSE 0)

-----------------------------------------------------------------------------
(* parse.  A reader is a record [ok, at] and what was read so far; a read  *)
(* past the end fails it.                                                  *)

Has(src, r, n) == r.ok /\ r.at + n <= Len(src)
Next8(src, r) == src[r.at + 1]

\* varint::read: {<<value, bytes>>}, {} past nine bytes or past the end.
ReadVarint(src, at) ==
    LET ends == {n \in 1 .. MaxVarintBytes : /\ at + n <= Len(src)
                                             /\ src[at + n] < VarintBase
                                             /\ \A k \in 1 .. n - 1 : src[at + k] >= VarintBase}
    IN {<<Total([k \in 1 .. n |-> (src[at + k] % VarintBase) * VarintBase^(k - 1)]), n>> : n \in ends}

ReadPrefix(src, limits) ==
    LET fail == [ok |-> FALSE, at |-> 0, d |-> <<>>]
    IN IF Len(src) > limits.total \/ ~IsPrefix(Magic, src) \/ ReadVarint(src, 2) = {} THEN fail
       ELSE LET v == CHOOSE x \in ReadVarint(src, 2) : TRUE
            IN IF \/ v[1] > MaxPrefix \/ v[1] > limits.prefix
                  \/ 2 + v[2] + v[1] > Len(src) THEN fail
               ELSE [ok |-> TRUE, at |-> 2 + v[2] + v[1],
                     d |-> [prefix |-> IF v[1] = 0 THEN {} ELSE {Bytes(src, 2 + v[2], v[1])},
                            words |-> <<>>, transforms |-> <<>>, combos |-> <<>>, contexts |-> <<>>]]

\* A count byte, within the format's and the caller's limit.
Counted(src, r, limit) == Has(src, r, 1) /\ Next8(src, r) <= MaxLists /\ Next8(src, r) <= limit

\* word_data_len and a word list.
ReadWordList(src, r, limits) ==
    LET n == Cardinality(Lengths)
        bits == [l \in Lengths |-> src[r.at + 1 + l - MinWord]]
        size == WordBytesBelow(bits, MaxWord + 1)
        list == WordListOf(bits, Bytes(src, r.at + n, size))
    IN IF ~Has(src, r, n) \/ \E l \in Lengths : bits[l] > MaxSizeBits THEN [r EXCEPT !.ok = FALSE]
       ELSE IF SumLen(r.d.words, WordsLen) + size > limits.wordBytes \/ ~Has(src, r, n + size)
            THEN [r EXCEPT !.ok = FALSE]
       ELSE [r EXCEPT !.at = @ + n + size, !.d.words = @ \o SetToSeq(list), !.ok = list # {}]

\* parse_transform_list.
Triples(src, at, n) == [i \in 1 .. n |-> Bytes(src, at + 3 * (i - 1), 3)]
ReadTransformList(src, r, limits) ==
    LET size == src[r.at + 1] + 256 * src[r.at + 2]
        count == src[r.at + 2 + size + 1]
        after == r.at + 3 + size
        triples == Triples(src, after, count)
        extra == IF \E i \in DOMAIN triples : Shifting(triples[i][2]) THEN 2 * count ELSE 0
        list == TransformListOf(Bytes(src, r.at + 2, size), triples,
                                Bytes(src, after + 3 * count, extra))
        end == after + 3 * count + extra
    IN IF \/ ~Has(src, r, 2) \/ ~Has(src, r, 3 + size) \/ ~Has(src, r, 3 + size + 3 * count)
          \/ end > Len(src) \/ list = {}
          \/ SumLen(r.d.transforms \o SetToSeq(list), TransformLen) > limits.transformBytes
       THEN [r EXCEPT !.ok = FALSE]
       ELSE [r EXCEPT !.at = end, !.d.transforms = @ \o SetToSeq(list)]

\* The combinations and the context map of a custom dictionary.
Decode(byte, custom) == IF byte = custom THEN Builtin ELSE byte
ReadCombos(src, r, limits) ==
    LET n == Next8(src, r)
        at == r.at + 1
        words == Len(r.d.words)
        transforms == Len(r.d.transforms)
        map == src[at + 2 * n + 1] = 1
    IN IF \/ ~Counted(src, r, limits.combos) \/ n = 0 \/ at + 2 * n + 1 > Len(src)
          \/ \E i \in 1 .. n : src[at + 2 * i - 1] > words \/ src[at + 2 * i] > transforms
          \/ src[at + 2 * n + 1] \notin {0, 1}
          \/ map /\ at + 2 * n + 1 + Contexts > Len(src)
       THEN [r EXCEPT !.ok = FALSE]
       ELSE [r EXCEPT
             !.at = at + 2 * n + 1 + IF map THEN Contexts ELSE 0,
             !.d.combos = [i \in 1 .. n |-> <<Decode(src[at + 2 * i - 1], words),
                                              Decode(src[at + 2 * i], transforms)>>],
             !.d.contexts = IF map THEN Bytes(src, at + 2 * n + 1, Contexts) ELSE <<>>]

\* parse: {<<dictionary, bytes consumed>>} or {}.
Times(n, step(_), r) == FoldLeft(LAMBDA a, i : IF a.ok THEN step(a) ELSE a, r, [i \in 1 .. n |-> i])
ReadLists(src, r, limit, step(_)) ==
    IF Counted(src, r, limit) THEN Times(Next8(src, r), step, [r EXCEPT !.at = @ + 1])
    ELSE [r EXCEPT !.ok = FALSE]
ReadAll(src, limits) ==
    LET Words1(r) == ReadWordList(src, r, limits)
        Transforms1(r) == ReadTransformList(src, r, limits)
        lists == ReadLists(src, ReadLists(src, ReadPrefix(src, limits), limits.words, Words1),
                           limits.transforms, Transforms1)
    IN {IF r.ok /\ IsCustomStatic(r.d) THEN ReadCombos(src, r, limits) ELSE r : r \in {lists}}
Parse(src, limits) ==
    UNION {{<<d, r.at>> : d \in IF r.ok THEN Assemble(r.d.prefix, r.d.words, r.d.transforms,
                                                r.d.combos, r.d.contexts, limits) ELSE {}}
            : r \in ReadAll(src, limits)}

\* parse_exact: nothing may follow.
ParseExact(src, limits) == {x[1] : x \in {y \in Parse(src, limits) : y[2] = Len(src)}}

-----------------------------------------------------------------------------
(***************************************************************************)
(* A dictionary prepared for compression: its prefixes in the order they   *)
(* were attached (src/src/compressor/dictionary/mod.rs, core/rfc9841/      *)
(* {context,prefix}.rs), the index of everything its words and transforms  *)
(* spell (core/rfc9841/static_index.rs), the searches of it that find      *)
(* references, and the word such a dictionary gives a decoder.             *)
(*                                                                         *)
(* The hash of a word is a scaled sum; scores are the real ones.           *)
(***************************************************************************)

CONSTANTS
    BuiltinWords, BuiltinTransforms,  \* RFC 7932's lists
    MaxPrefixes,                      \* MAX_PREFIX_DICTIONARIES (15)
    Buckets, LongWord,                \* hash buckets; words of 8 bytes on are long
    CutOffStride, CutOffSpan          \* ids a cut-off transform may have (4, 64)

\* The lists a combination names.
Resolved(d, combo) ==
    [words |-> IF combo[1] = Builtin THEN BuiltinWords ELSE d.words[combo[1] + 1],
     transforms |-> IF combo[2] = Builtin THEN BuiltinTransforms ELSE d.transforms[combo[2] + 1]]

HeadOf(text) == IF Len(text) < MinWord THEN <<>> ELSE Bytes(text, 0, MinWord)
BucketOf(text) == Total([i \in DOMAIN HeadOf(text) |-> text[i]]) % Buckets

\* A cut-off a plain probe may use: each shorter one has its id in reach.
CutOffReachable(list, cut) ==
    \A n \in 0 .. cut :
        \E id \in CutOff(list, n) : id \in n * CutOffStride .. n * CutOffStride + CutOffSpan - 1

\* prepare: every transformed word of at least MinWord bytes, and for each
\* bucket and word class the first of its shortest words.
Slots(words) == UNION {{<<l, i>> : i \in 0 .. WordCount(words, l) - 1} : l \in Lengths}
EntryOf(c, slot, t, output) ==
    [head |-> HeadOf(output), bytes |-> output, code |-> slot[1],
     address |-> slot[2] + t * 2^c.words.bits[slot[1]],
     extended |-> ~\E cut \in 0 .. MaxCutOff :
                     t \in CutOff(c.transforms, cut) /\ CutOffReachable(c.transforms, cut)]
Entries(c) ==
    {e \in {EntryOf(c, slot, t, Apply(c.transforms, t, Word(c.words, slot[1], slot[2]))) :
              slot \in Slots(c.words), t \in 0 .. Len(c.transforms.triples) - 1} : Len(e.bytes) >= MinWord}
Shallow(c, bucket, short) ==
    LET here == {s \in Slots(c.words) : /\ BucketOf(Word(c.words, s[1], s[2])) = bucket
                                        /\ (s[1] < LongWord) = short}
    IN {s \in here : \A o \in here : s[1] < o[1] \/ (s[1] = o[1] /\ s[2] <= o[2])}
Indexed(c) ==
    [words |-> c.words, transforms |-> c.transforms, entries |-> Entries(c),
     shallow |-> [b \in (0 .. Buckets - 1) \X BOOLEAN |-> Shallow(c, b[1], b[2])]]

\* Two passes: the expansion is measured and refused before it is kept.
Prepare(d, limits) ==
    LET index == [i \in DOMAIN d.combos |-> Indexed(Resolved(d, d.combos[i]))]
        entries == Total([i \in DOMAIN index |-> Cardinality(index[i].entries)])
        bytes == Total([i \in DOMAIN index |->
                    Total([e \in index[i].entries |-> Len(e.bytes)])])
    IN IF entries > limits.entries \/ bytes > limits.transformed THEN {} ELSE {index}

-----------------------------------------------------------------------------
(* The searches.  Contexts choose the combination tried first.             *)

Preferred(contexts, context) == IF contexts = <<>> THEN 0 ELSE contexts[context + 1]
TryOrder(n, preferred) ==
    <<preferred>> \o SelectSeq([i \in 1 .. n |-> i - 1], LAMBDA i : i # preferred)

Log2(n) == CHOOSE k \in 0 .. n : 2^k <= n /\ n < 2^(k + 1)
ReferenceScore(len, distance) == 1920 + 135 * len - 30 * Log2(distance)
Spells(bytes, text) == IsPrefix(bytes, text)
Same(a, b) ==
    CHOOSE k \in 0 .. Len(a) : /\ \A j \in 1 .. k : j <= Len(b) /\ a[j] = b[j]
                               /\ k = Len(a) \/ k = Len(b) \/ a[k + 1] # b[k + 1]

\* probe: the bucket's word, its end cut off where the text departs from it.
Probe(c, text, base, furthest, short, out) ==
    LET slots == c.shallow[<<BucketOf(text), short>>]
        slot == CHOOSE s \in slots : TRUE
        matched == Same(Word(c.words, slot[1], slot[2]), text)
        cut == slot[1] - matched
        id == CHOOSE t \in CutOff(c.transforms, cut) : TRUE
        distance == base + 1 + slot[2] + id * 2^c.words.bits[slot[1]]
    IN IF slots = {} THEN out
       ELSE IF slot[1] > Len(text) \/ matched = 0 \/ cut > MaxCutOff THEN out
       ELSE IF ~CutOffReachable(c.transforms, cut) THEN out
       ELSE IF distance > furthest \/ ReferenceScore(matched, distance) < out.score THEN out
       ELSE [len |-> matched, dist |-> distance, score |-> ReferenceScore(matched, distance),
             code |-> slot[1]]

\* probe_extended: what no cut-off reaches, the best of all that spell the text.
Behind(base, e) == base + 1 + e.address
ProbeExtended(c, text, base, furthest, out) ==
    LET here == {e \in c.entries : /\ e.extended /\ Spells(e.bytes, text)
                                   /\ Behind(base, e) <= furthest}
        score(e) == ReferenceScore(Len(e.bytes), Behind(base, e))
        best == {e \in here : \A o \in here : score(e) >= score(o)}
        first == {e \in best : \A o \in best :
                    \/ Len(e.bytes) < Len(o.bytes)
                    \/ Len(e.bytes) = Len(o.bytes) /\ e.address < o.address
                    \/ Len(e.bytes) = Len(o.bytes) /\ e.address = o.address /\ e.code <= o.code}
    IN IF here = {} THEN out
       ELSE LET e == CHOOSE x \in first : TRUE
            IN IF score(e) > out.score
               THEN [len |-> Len(e.bytes), dist |-> Behind(base, e), score |-> score(e),
                     code |-> e.code]
               ELSE out

\* search_custom: long words, short words unless shallow, then the rest.
SearchCustom(index, contexts, context, text, base, furthest, shallow, out) ==
    LET c == index[Preferred(contexts, context) + 1]
        long == Probe(c, text, base, furthest, FALSE, out)
        short == IF shallow THEN long ELSE Probe(c, text, base, furthest, TRUE, long)
    IN ProbeExtended(c, text, base, furthest, short)

\* Mutant: a combination spans its words, not each as each transform spells it.
SpanOfWords(index, order, k, length) ==
    Total([i \in 1 .. k - 1 |-> WordCount(index[order[i] + 1].words, length)])
SpanBefore(index, order, k, length) ==
    Total([i \in 1 .. k - 1 |-> WordCount(index[order[i] + 1].words, length)
                                  * Len(index[order[i] + 1].transforms.triples)])
\* find_all: for each length the nearest reference, over every combination.
FindAll(index, contexts, context, text, base, furthest, least) ==
    LET order == TryOrder(Len(index), Preferred(contexts, context))
        found == UNION {{[len |-> Len(e.bytes), code |-> e.code,
                          dist |-> base + 1 + SpanBefore(index, order, k, e.code) + e.address] :
                            e \in {x \in index[order[k] + 1].entries :
                                     Len(x.bytes) >= least /\ Spells(x.bytes, text)}}
                        : k \in DOMAIN order}
        near == {m \in found : m.dist <= furthest}
    IN {m \in near : \A o \in near : o.len # m.len \/ m.dist < o.dist
                                       \/ (m.dist = o.dist /\ m.code <= o.code)}

\* decode_word: the word behind an address, for a prepared dictionary.
RECURSIVE WordBehind(_, _, _, _)
WordBehind(index, order, address, length) ==
    IF order = <<>> THEN {}
    ELSE LET c == index[Head(order) + 1]
             count == WordCount(c.words, length)
             span == count * Len(c.transforms.triples)
         IN IF address >= span THEN WordBehind(index, Tail(order), address - span, length)
            ELSE {Apply(c.transforms, address \div count, Word(c.words, length, address % count))}
DecodeWord(index, contexts, context, address, length) ==
    IF length \notin Lengths THEN {}
    ELSE WordBehind(index, TryOrder(Len(index), Preferred(contexts, context)), address, length)

-----------------------------------------------------------------------------
(* Attachments: a builder is a record [attachments, custom].               *)

AddPrefix(b, bytes) == [b EXCEPT !.attachments = Append(@, bytes)]
AddSerialized(b, d) ==
    [attachments |-> b.attachments \o SetToSeq(d.prefix),
     custom |-> IF IsCustomStatic(d) THEN {d} ELSE b.custom]

\* PrefixSources: one address space over all the segments, oldest first.
PrefixTotal(segments) == SumLen(segments, Len)
StartOf(segments, i) == Total([k \in 1 .. i - 1 |-> Len(segments[k])])
RunFrom(segments, logical) ==
    UNION {{SubSeq(segments[i], logical - StartOf(segments, i) + 1, Len(segments[i]))} :
             i \in {k \in DOMAIN segments : logical \in StartOf(segments, k)
                                                     .. StartOf(segments, k + 1) - 1}}
AddressOf(segments, distance, back) ==
    {PrefixTotal(segments) - (distance - back)} \cap
        {a \in 0 .. PrefixTotal(segments) - 1 : distance > back}
DistanceOf(segments, logical, back) ==
    IF logical >= PrefixTotal(segments) THEN {} ELSE {back + PrefixTotal(segments) - logical}

\* SharedContextInner::new: what the attachments may be.
Attachable(attachments, limits) ==
    /\ Len(attachments) <= MaxPrefixes /\ Len(attachments) <= limits.attachments
    /\ PrefixTotal(attachments) <= limits.prefix /\ PrefixTotal(attachments) <= limits.source

\* DictionaryBuilder::build: {} or {[segments, index, contexts]}.
CustomWithin(d, attachments, limits) ==
    /\ WireLen(d) <= limits.total
    /\ Len(d.words) <= limits.words /\ SumLen(d.words, WordsLen) <= limits.wordBytes
    /\ Len(d.transforms) <= limits.transforms
    /\ SumLen(d.transforms, TransformLen) <= limits.transformBytes
    /\ Len(d.combos) <= limits.combos
    /\ PrefixTotal(attachments) + SumLen(d.words, WordsLen) + SumLen(d.transforms, TransformLen)
         <= limits.source
BuildPrepared(b, limits) ==
    IF b.custom = {} /\ \A i \in DOMAIN b.attachments : b.attachments[i] = <<>> THEN {}
    ELSE IF ~Attachable(b.attachments, limits) THEN {}
    ELSE IF b.custom = {}
    THEN {[segments |-> b.attachments, index |-> <<>>, contexts |-> <<>>]}
    ELSE UNION {{[segments |-> b.attachments, index |-> index, contexts |-> d.contexts] :
                    index \in IF CustomWithin(d, b.attachments, limits) THEN Prepare(d, limits) ELSE {}}
                : d \in b.custom}

=============================================================================
