----------------------------- MODULE MCDictionary -----------------------------
(***************************************************************************)
(* A serialized dictionary from its builder to both codecs.  A caller      *)
(* describes one and gets its bytes; the bytes reach the two parsers as    *)
(* they are or damaged; or the dictionary is attached, among others, to a  *)
(* compressor's builder and to a decoder, and references found with the    *)
(* one are resolved with the other.                                        *)
(***************************************************************************)
EXTENDS DecoderDictionary

CONSTANTS
    WordInputs, TransformInputs,    \* what list builders are given
    Combos, ContextMaps, PrefixInputs, \* what a dictionary's builder is given
    Begun, MaxCalls,                \* the calls it begins with; those that follow
    Limits, Permissive,             \* the limits in force, and the widest
    Raws, Others, MaxAttached,      \* other attachments
    Damages,                        \* bytes put in the place of another
    Budget,                         \* the decoder's max_owned_bytes
    Texts, Base                     \* texts searched, where the dictionary begins

VARIABLES stage, parts, calls, limits, dict, wire, builder, decoder, prepared
vars == <<stage, parts, calls, limits, dict, wire, builder, decoder, prepared>>

Empty == [prefix |-> {}, words |-> <<>>, transforms |-> <<>>, combos |-> <<>>, contexts |-> <<>>]

Init ==
    /\ stage = "describing" /\ parts \in Begun /\ calls = 0 /\ limits \in Limits
    /\ dict = {} /\ wire = <<>>
    /\ builder = [attachments |-> <<>>, custom |-> {}]
    /\ decoder = {NoPrefixes} /\ prepared = {}

Describing == stage = "describing" /\ calls < MaxCalls /\ calls' = calls + 1
              /\ UNCHANGED <<stage, limits, dict, wire, builder, decoder, prepared>>

\* add_word_list and add_transform_list, of what their builders accept.
AddWordList ==
    Describing /\ \E input \in WordInputs : \E list \in BuildWordList(input) :
        parts' = [parts EXCEPT !.words = Append(@, list)]
AddTransformList ==
    Describing /\ \E input \in TransformInputs : \E list \in BuildTransformList(input) :
        parts' = [parts EXCEPT !.transforms = Append(@, list)]
AddCombination ==
    Describing /\ \E c \in Combos : parts' = [parts EXCEPT !.combos = Append(@, c)]
WithContextMap ==
    Describing /\ \E m \in ContextMaps : parts' = [parts EXCEPT !.contexts = m]
WithPrefix ==
    Describing /\ \E p \in PrefixInputs : parts' = [parts EXCEPT !.prefix = {p}]

\* build, and to_bytes of what it gives.
Build ==
    /\ stage = "describing"
    /\ dict' = BuildDictionary(parts, limits)
    /\ stage' = IF dict' = {} THEN "refused" ELSE "described"
    /\ wire' = IF dict' = {} THEN <<>> ELSE Serialize(CHOOSE d \in dict' : TRUE)
    /\ parts' = Empty /\ calls' = 0
    /\ UNCHANGED <<limits, builder, decoder, prepared>>

\* The bytes reach a parser cut short, changed in one place, or with a tail.
Damage ==
    /\ stage = "described" /\ limits = Permissive /\ builder.attachments = <<>> /\ builder.custom = {}
    /\ \/ \E n \in 0 .. Len(wire) - 1 : wire' = Bytes(wire, 0, n)
       \/ \E i \in DOMAIN wire, b \in Damages : wire' = [wire EXCEPT ![i] = b]
       \/ wire' = Append(wire, 0)
    /\ stage' = "damaged"
    /\ UNCHANGED <<parts, calls, limits, dict, builder, decoder, prepared>>

\* The same attachment on both sides.
Attaching ==
    /\ stage = "described" /\ calls < MaxAttached /\ calls' = calls + 1
    /\ UNCHANGED <<stage, parts, limits, dict, wire, prepared>>
AttachRaw ==
    /\ Attaching
    /\ \E bytes \in Raws :
        /\ builder' = AddPrefix(builder, bytes)
        /\ decoder' = UNION {AttachSegment(p, bytes, Held(p), Budget) : p \in decoder}
AttachDescription ==
    /\ Attaching
    /\ \E d \in dict \cup Others :
        /\ builder' = AddSerialized(builder, d)
        /\ decoder' = UNION {AttachSerialized(p, Serialize(d), Budget) : p \in decoder}

PrepareAll ==
    /\ stage = "described" /\ calls > 0
    /\ prepared' = BuildPrepared(builder, limits)
    /\ stage' = IF prepared' = {} THEN "unprepared" ELSE "prepared"
    /\ UNCHANGED <<parts, calls, limits, dict, wire, builder, decoder>>

Stopped == stage \notin {"describing", "described"} /\ UNCHANGED vars

Next == \/ AddWordList \/ AddTransformList \/ AddCombination \/ WithContextMap \/ WithPrefix
        \/ Build \/ Damage \/ AttachRaw \/ AttachDescription \/ PrepareAll \/ Stopped
Spec == Init /\ [][Next]_vars

-----------------------------------------------------------------------------
\* A list builder keeps every word it is given and spells each transform as it
\* was given, whatever it interns, groups and pads.
ListsKeepTheirInput ==
    /\ \A input \in WordInputs : \A list \in BuildWordList(input) : \A i \in DOMAIN input :
         \E k \in 0 .. Len(input) : Word(list, Len(input[i]), k) = input[i]
    /\ \A input \in TransformInputs : \A list \in BuildTransformList(input) :
         \A i \in DOMAIN input, word \in {<<97, 98, 98>>, <<195, 169, 97>>} :
            Apply(list, i - 1, word)
                = Transformed(input[i].p, input[i].op, input[i].s, input[i].v, word)

\* What a builder accepts is written in as many bytes as it says, and both
\* parsers read the same dictionary back: the encoder's within the limits it
\* was built under, lists, combinations, contexts and prefix all equal.
DictionaryRoundTrips ==
    /\ stage = "describing" /\ calls = 0 => ListsKeepTheirInput
    /\ stage = "described" => \A d \in dict :
         /\ Len(wire) = WireLen(d)
         /\ Len(wire) <= limits.total =>
                ParseExact(wire, limits) = {[d EXCEPT !.prefix = d.prefix \ {<<>>}]}
         /\ \A x \in ParseDescription(wire, 0, 1000) :
                x.end = Len(wire) /\ Bytes(wire, x.prefix[1], x.prefix[2]) = PrefixBytes(d)

\* Two parsers written apart take the same bytes for a dictionary: what the
\* encoder's reads the decoder's reads to the same byte, with the same prefix,
\* and the other way round but for prefixes past the encoder's ceiling.
Shape(d) == <<PrefixBytes(d), Len(d.words), Len(d.transforms), Len(d.combos), d.contexts>>
DecoderShape(x) ==
    <<Bytes(wire, x.prefix[1], x.prefix[2]), Len(x.desc.words), Len(x.desc.transforms),
      Len(x.desc.combos), x.desc.contexts>>
ParsersAgree ==
    stage \in {"described", "damaged"} /\ limits = Permissive =>
        {<<y[2], Shape(y[1])>> : y \in Parse(wire, Permissive)}
            = {<<x.end, DecoderShape(x)>> :
                 x \in {z \in ParseDescription(wire, 0, 1000) : z.prefix[2] <= MaxPrefix}}

\* A reference the encoder's searches find in a prepared dictionary names, on
\* both decoding sides, the very bytes it was found for; and the two sides give
\* every address the same word.
Found(p, context, text) ==
    FindAll(p.index, p.contexts, context, text, Base, Base + 1000, MinWord)
      \cup {SearchCustom(p.index, p.contexts, context, text, Base, Base + 1000, shallow,
                [len |-> 0, dist |-> 0, score |-> 2020, code |-> 0]) : shallow \in BOOLEAN}
ReferencesResolve ==
    \A p \in prepared, q \in decoder : \A desc \in q.description, context \in 0 .. Contexts - 1 :
        /\ \A text \in Texts : \A r \in Found(p, context, text) :
            r.len > 0 =>
                /\ Resolve(desc, r.dist - Base - 1, r.code, context) = {Bytes(text, 0, r.len)}
                /\ DecodeWord(p.index, p.contexts, context, r.dist - Base - 1, r.code)
                     = {Bytes(text, 0, r.len)}
        /\ \A length \in Lengths, address \in 0 .. 20 :
            Resolve(desc, address, length, context)
                = DecodeWord(p.index, p.contexts, context, address, length)

\* The two sides see one prefix: the same bytes at every distance, whichever
\* segment or description they came from; and a decoder accounts for exactly
\* what it holds, never holding more than its budget on the way.
AttachmentsAgree ==
    /\ \A q \in decoder : q.retained = Held(q) /\ q.peak <= Budget
    /\ \A p \in prepared, q \in decoder :
        /\ PrefixTotal(p.segments) = PrefixTotal(q.segments)
        /\ \A a \in 0 .. PrefixTotal(p.segments) - 1 :
            /\ RunFrom(p.segments, a) = {DecoderRunFrom(q.segments, a)}
            /\ \A d \in DistanceOf(p.segments, a, Base) : AddressOf(p.segments, d, Base) = {a}

-----------------------------------------------------------------------------
(* Values for the model checker.                                           *)

Plain(p, op, s) == [p |-> p, op |-> op, s |-> s, v |-> 0]
MCWordInputs == {<<<<97, 98>>, <<98, 97, 98>>, <<98, 98>>, <<97, 97>>>>, <<<<195, 169>>, <<97, 195>>>>}
MCTransformInputs ==
    {<<Plain(<<>>, 0, <<>>), Plain(<<>>, 1, <<>>)>>,
     <<Plain(<<98>>, 2, <<>>), Plain(<<>>, 4, <<97, 98>>)>>,
     <<[p |-> <<>>, op |-> 5, s |-> <<>>, v |-> 1], Plain(<<>>, 3, <<98>>),
       [p |-> <<97>>, op |-> 6, s |-> <<97>>, v |-> 65535]>>}
MCCombos == {<<0, 0>>, <<Builtin, 0>>, <<1, Builtin>>}
MCBegun == {Empty, [Empty EXCEPT !.combos = <<<<0, Builtin>>, <<Builtin, 0>>>>, !.contexts = <<1, 0>>]}
MCContextMaps == {<<0, 1>>, <<1, 0>>}
MCPrefixInputs == {<<97>>, <<97, 98, 97>>, <<98, 97, 98, 97>>}
MCPermissive == [total |-> 1000, prefix |-> 100, words |-> 2, transforms |-> 2, combos |-> 2,
                 wordBytes |-> 1000, transformBytes |-> 1000, source |-> 1000, attachments |-> 10,
                 entries |-> 1000, transformed |-> 1000]
MCLimits == {MCPermissive, [MCPermissive EXCEPT !.words = 1, !.wordBytes = 4, !.entries = 9]}
MCRaws == {<<97, 97>>}
MCOthers == {[prefix |-> {<<98, 98>>}, words |-> <<>>, transforms |-> <<>>, combos |-> <<>>,
              contexts |-> <<>>]}
MCDamages == {0, 3}
MCBuiltinWords == CHOOSE l \in BuildWordList(<<<<97, 98>>, <<98, 99>>, <<97, 98, 99>>>>) : TRUE
MCBuiltinTransforms ==
    CHOOSE l \in BuildTransformList(<<Plain(<<>>, 0, <<>>), Plain(<<>>, 1, <<>>)>>) : TRUE
MCLayoutBytes == [words |-> 2, transforms |-> 3, combos |-> 1]
MCTexts == {<<97, 98, 98, 98>>, <<98, 65, 98>>, <<98, 97, 97, 98>>, <<98, 98>>, <<195, 137, 98>>,
            <<98, 98, 97, 98>>}

\* What is written is read back the same by each of the two parsers, and what
\* is damaged is judged the same by both.
ParsersReadTheSame == DictionaryRoundTrips /\ ParsersAgree
=============================================================================
