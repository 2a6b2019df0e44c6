-------------------------- MODULE DictionaryMatches --------------------------
(***************************************************************************)
(* Every word of the built-in dictionary that spells the bytes at one      *)
(* position, as qualities 10 and 11 ask for it                             *)
(* (src/src/shared/dictionary/all_matches.rs), and what a decoder makes of *)
(* a word's number (src/src/shared/dictionary/transform.rs).               *)
(*                                                                         *)
(* Texts are strings.  A word's number is its index plus the transform     *)
(* times the number of words of its length.  The two bytes of UTF-8's      *)
(* no-break space are written ^~.                                          *)
(***************************************************************************)
EXTENDS Integers, Sequences, FiniteSets

CONSTANTS
    WordItems,     \* the lookup's entries: [word, idx, op], op 0, 10 or 11
    WordCountBits  \* size bits, the same for every length here

Lower == "abcdefghijklmnopqrstuvwxyz"
Upper == "ABCDEFGHIJKLMNOPQRSTUVWXYZ"
At(s, i) == IF i \in 1 .. Len(s) THEN SubSeq(s, i, i) ELSE ""
Raise(c) ==
    IF \E i \in 1 .. 26 : At(Lower, i) = c
    THEN At(Upper, CHOOSE i \in 1 .. 26 : At(Lower, i) = c) ELSE c
Behind(s, n) == SubSeq(s, n + 1, Len(s))
StartsWith(s, p) == Len(p) <= Len(s) /\ SubSeq(s, 1, Len(p)) = p

\* The bytes an entry stands for; op 10 raises the first letter, 11 all.
RaisedWord(w, n) ==
    LET raised[i \in 0 .. Len(w)] ==
            IF i = 0 THEN "" ELSE raised[i - 1] \o (IF i <= n THEN Raise(At(w, i)) ELSE At(w, i))
    IN raised[Len(w)]
Cased(w, op) ==
    CASE op = 10 -> RaisedWord(w, 1) [] op = 11 -> RaisedWord(w, Len(w)) [] OTHER -> w

CommonStart(a, b, max) ==
    LET most == CHOOSE n \in {Len(a), Len(b), max} : \A m \in {Len(a), Len(b), max} : n <= m
    IN CHOOSE k \in 0 .. most : SubSeq(a, 1, k) = SubSeq(b, 1, k) /\ (k = most \/ At(a, k + 1) # At(b, k + 1))

\* bucket_head and item: the entries sharing a hash, here the first byte.
Bucket(data) == {w \in WordItems : At(Cased(w.word, w.op), 1) = At(data, 1)}

IsMatch(w, data, max) ==
    Len(w.word) <= max /\ StartsWith(data, Cased(w.word, w.op))

\* add_match: a word of len bytes, coded as one of length code.
Entry(w, transform, len) ==
    [len |-> len, code |-> Len(w.word), id |-> w.idx + transform * 2^WordCountBits]

\* The tails a family of transforms spells behind a word, with their ids.
Tails(w, data, at, table) ==
    {Entry(w, t[2], at + Len(t[1])) : t \in {u \in table : StartsWith(Behind(data, at), u[1])}}

-----------------------------------------------------------------------------
(* The families, as tail and transform.                                    *)

\* Behind a word as it stands: from a space on, and what else.
SpacedTails ==
    {<<" ", 1>>, <<" a ", 28>>, <<" as ", 46>>, <<" at ", 60>>, <<" and ", 10>>,
     <<" by ", 38>>, <<" in ", 16>>, <<" is ", 47>>, <<" for ", 25>>, <<" from ", 37>>,
     <<" of ", 8>>, <<" on ", 45>>, <<" not ", 80>>, <<" the ", 5>>, <<" that ", 29>>,
     <<" to ", 17>>, <<" with ", 35>>}
JoinedTails ==
    {<<"\"", 19>>, <<"\">", 21>>, <<".", 20>>, <<". ", 31>>,
     <<". The ", 43>>, <<". This ", 75>>, <<",", 76>>, <<", ", 14>>, <<"\n", 22>>,
     <<"\n\t", 50>>, <<"]", 24>>, <<"'", 36>>, <<":", 51>>, <<"(", 57>>, <<"=\"", 70>>,
     <<"='", 86>>, <<"al ", 84>>, <<"ed ", 53>>, <<"er ", 82>>, <<"est ", 95>>,
     <<"ful ", 90>>, <<"ive ", 92>>, <<"ize ", 100>>, <<"less ", 93>>, <<"ly ", 61>>,
     <<"ous ", 106>>}
IdentityTails == SpacedTails \cup JoinedTails

\* With the first letter raised, and with all of them.
FirstTails ==
    {<<"", 9>>, <<" ", 4>>, <<"\"", 66>>, <<"\">", 69>>, <<".", 79>>, <<". ", 88>>, <<",", 99>>,
     <<", ", 58>>, <<"'", 74>>, <<"(", 78>>, <<"=\"", 104>>, <<"='", 108>>}
CapsTails ==
    {<<"", 44>>, <<" ", 68>>, <<"\"", 87>>, <<"\">", 97>>, <<".", 101>>, <<". ", 114>>,
     <<",", 112>>, <<", ", 107>>, <<"'", 94>>, <<"(", 113>>, <<"=\"", 105>>, <<"='", 116>>}

\* Behind a leading space or dot.
SpaceTails ==
    {<<"", 6>>, <<" ", 2>>, <<"(", 89>>, <<",", 103>>, <<", ", 33>>, <<".", 71>>, <<". ", 52>>,
     <<"=\"", 81>>, <<"='", 98>>}
DotTails == {<<"", 32>>, <<" ", 77>>, <<"(", 67>>}
SpaceFirstTails ==
    {<<"", 30>>, <<" ", 15>>, <<",", 109>>, <<", ", 65>>, <<".", 96>>, <<". ", 91>>,
     <<"=\"", 118>>, <<"='", 120>>}
SpaceCapsTails ==
    {<<"", 85>>, <<" ", 83>>, <<", ", 111>>, <<".", 115>>, <<". ", 117>>, <<"=\"", 110>>,
     <<"='", 119>>}

\* Only the bare word once less than that many bytes are left.
Short(table) == {t \in table : t[1] = ""}

\* CUTOFF_TRANSFORMS: bytes left off a word's end -> transform.
CutOffIds == <<12, 27, 23, 42, 63, 56, 48, 59, 64>>

-----------------------------------------------------------------------------
(* The four searches.                                                      *)

CutWords(w, data, min, max) ==
    LET l == Len(w.word)
        match == CommonStart(w.word, data, max)
        from == IF l > 9 /\ l - 9 > min THEN l - 9 ELSE min
    IN {Entry(w, CutOffIds[l - len], len) : len \in {n \in from .. match : n <= l - 2}}
       \cup (IF match + 1 < l THEN {}
             ELSE {Entry(w, 12, l - 1)}
                  \cup (IF l + 2 < max /\ StartsWith(Behind(data, l - 1), "ing ")
                        THEN {Entry(w, 49, l + 3)} ELSE {}))

Identity(w, data, min, max) ==
    LET l == Len(w.word)
    IN CutWords(w, data, min, max)
       \cup (IF ~IsMatch(w, data, max) THEN {}
             ELSE {Entry(w, 0, l)}
                  \cup (IF l + 6 >= max THEN {} ELSE Tails(w, data, l, IdentityTails)))

\* The family an entry of the lookup belongs to.
Table(w, plain, first, caps) == CASE w.op = 0 -> plain [] w.op = 10 -> first [] OTHER -> caps

\* A word at the at-th byte and the tails a family knows behind it.
WithTails(w, data, at, max, table) ==
    LET end == at + Len(w.word)
    IN IF ~IsMatch(w, Behind(data, at), max - at) THEN {}
       ELSE Tails(w, data, end, IF end + 1 >= max THEN Short(table) ELSE table)

PlainAndUppercase(data, min, max) ==
    UNION {IF w.op = 0 THEN Identity(w, data, min, max)
           ELSE WithTails(w, data, 0, max, Table(w, {}, FirstTails, CapsTails)) : w \in Bucket(data)}

SpaceOrDotPrefix(data, max) ==
    CASE max < 5 -> {}
      [] max >= 5 /\ At(data, 1) = " " ->
           UNION {WithTails(w, data, 1, max, Table(w, SpaceTails, SpaceFirstTails, SpaceCapsTails)) :
                  w \in Bucket(Behind(data, 1))}
      [] max >= 5 /\ At(data, 1) = "." ->
           UNION {WithTails(w, data, 1, max, Table(w, DotTails, {}, {})) : w \in Bucket(Behind(data, 1))}
      [] OTHER -> {}

TwoBytePrefix(data, max) ==
    LET head == SubSeq(data, 1, 2)
        ids == CASE head = "e " -> 18 [] head = "s " -> 7 [] OTHER -> 13
        words == {w \in Bucket(Behind(data, 2)) : w.op = 0 /\ IsMatch(w, Behind(data, 2), max - 2)}
    IN IF max < 6 \/ head \notin {"e ", "s ", ", ", "^~"} THEN {}
       ELSE IF head = "^~" THEN {Entry(w, 102, Len(w.word) + 2) : w \in words}
       ELSE {Entry(w, ids, Len(w.word) + 3) :
               w \in {v \in words : Len(v.word) + 2 < max /\ At(data, Len(v.word) + 3) = " "}}

LongTails(w, data, max) ==
    LET l == Len(w.word) + 5
    IN {Entry(w, 41, l)}
       \cup (IF l + 3 < max /\ StartsWith(Behind(data, l), " of ") THEN {Entry(w, 62, l + 4)} ELSE {})
       \cup (IF l + 7 < max /\ StartsWith(Behind(data, l), " of the ")
             THEN {Entry(w, 73, l + 8)} ELSE {})

LongPrefix(data, max) ==
    LET words == {w \in Bucket(Behind(data, 5)) : w.op = 0 /\ IsMatch(w, Behind(data, 5), max - 5)}
    IN IF max < 9 THEN {}
       ELSE IF StartsWith(data, " the ") THEN UNION {LongTails(w, data, max) : w \in words}
       ELSE IF StartsWith(data, ".com/") THEN {Entry(w, 72, Len(w.word) + 5) : w \in words}
       ELSE {}

\* find_all; of two words of one length the nearer stays, then the smaller code.
Spelled(data, min, max) ==
    PlainAndUppercase(data, min, max) \cup SpaceOrDotPrefix(data, max)
        \cup TwoBytePrefix(data, max) \cup LongPrefix(data, max)
FindAllWords(data, min, max) ==
    LET all == Spelled(data, min, max)
    IN {e \in all : \A f \in all : f.len = e.len => e.id < f.id \/ (e.id = f.id /\ e.code <= f.code)}

-----------------------------------------------------------------------------
(* The decoder's side.                                                     *)

\* Transform::builtin: prefix, operation, suffix.
BuiltinTransforms == <<
    <<"", 0, "">>, <<"", 0, " ">>, <<" ", 0, " ">>, <<"", 12, "">>, <<"", 10, " ">>,
    <<"", 0, " the ">>, <<" ", 0, "">>, <<"s ", 0, " ">>, <<"", 0, " of ">>, <<"", 10, "">>,
    <<"", 0, " and ">>, <<"", 13, "">>, <<"", 1, "">>, <<", ", 0, " ">>, <<"", 0, ", ">>,
    <<" ", 10, " ">>, <<"", 0, " in ">>, <<"", 0, " to ">>, <<"e ", 0, " ">>, <<"", 0, "\"">>,
    <<"", 0, ".">>, <<"", 0, "\">">>, <<"", 0, "\n">>, <<"", 3, "">>, <<"", 0, "]">>,
    <<"", 0, " for ">>, <<"", 14, "">>, <<"", 2, "">>, <<"", 0, " a ">>, <<"", 0, " that ">>,
    <<" ", 10, "">>, <<"", 0, ". ">>, <<".", 0, "">>, <<" ", 0, ", ">>, <<"", 15, "">>,
    <<"", 0, " with ">>, <<"", 0, "'">>, <<"", 0, " from ">>, <<"", 0, " by ">>, <<"", 16, "">>,
    <<"", 17, "">>, <<" the ", 0, "">>, <<"", 4, "">>, <<"", 0, ". The ">>, <<"", 11, "">>,
    <<"", 0, " on ">>, <<"", 0, " as ">>, <<"", 0, " is ">>, <<"", 7, "">>, <<"", 1, "ing ">>,
    <<"", 0, "\n\t">>, <<"", 0, ":">>, <<" ", 0, ". ">>, <<"", 0, "ed ">>, <<"", 20, "">>,
    <<"", 18, "">>, <<"", 6, "">>, <<"", 0, "(">>, <<"", 10, ", ">>, <<"", 8, "">>,
    <<"", 0, " at ">>, <<"", 0, "ly ">>, <<" the ", 0, " of ">>, <<"", 5, "">>, <<"", 9, "">>,
    <<" ", 10, ", ">>, <<"", 10, "\"">>, <<".", 0, "(">>, <<"", 11, " ">>, <<"", 10, "\">">>,
    <<"", 0, "=\"">>, <<" ", 0, ".">>, <<".com/", 0, "">>, <<" the ", 0, " of the ">>,
    <<"", 10, "'">>, <<"", 0, ". This ">>, <<"", 0, ",">>, <<".", 0, " ">>, <<"", 10, "(">>,
    <<"", 10, ".">>, <<"", 0, " not ">>, <<" ", 0, "=\"">>, <<"", 0, "er ">>, <<" ", 11, " ">>,
    <<"", 0, "al ">>, <<" ", 11, "">>, <<"", 0, "='">>, <<"", 11, "\"">>, <<"", 10, ". ">>,
    <<" ", 0, "(">>, <<"", 0, "ful ">>, <<" ", 10, ". ">>, <<"", 0, "ive ">>,
    <<"", 0, "less ">>, <<"", 11, "'">>, <<"", 0, "est ">>, <<" ", 10, ".">>, <<"", 11, "\">">>,
    <<" ", 0, "='">>, <<"", 10, ",">>, <<"", 0, "ize ">>, <<"", 11, ".">>, <<"^~", 0, "">>,
    <<" ", 0, ",">>, <<"", 10, "=\"">>, <<"", 11, "=\"">>, <<"", 0, "ous ">>, <<"", 11, ", ">>,
    <<"", 10, "='">>, <<" ", 10, ",">>, <<" ", 11, "=\"">>, <<" ", 11, ", ">>, <<"", 11, ",">>,
    <<"", 11, "(">>, <<"", 11, ". ">>, <<" ", 11, ".">>, <<"", 11, "='">>, <<" ", 11, ". ">>,
    <<" ", 10, "=\"">>, <<" ", 11, "='">>, <<" ", 10, "='">>>>

\* Transform::apply: operations 1 to 9 leave bytes off the end, 12 to 20 off
\* the beginning, 10 and 11 raise letters.
Body(word, op) ==
    CASE op \in 1 .. 9 -> SubSeq(word, 1, Len(word) - op)
      [] op \in 12 .. 20 -> Behind(word, op - 11)
      [] OTHER -> Cased(word, op)
Apply(t, word) == t[1] \o Body(word, t[2]) \o t[3]

\* The text a reference to word number id, coded with length code, stands for.
Meaning(id, code) ==
    LET w == CHOOSE v \in WordItems : Len(v.word) = code /\ v.idx = id % 2^WordCountBits
    IN Apply(BuiltinTransforms[(id \div 2^WordCountBits) + 1], w.word)
=============================================================================
