-------------------------------- MODULE MCHq ---------------------------------
(* HqEncoder on a window of 32 bytes inside a ring of 64.                  *)
EXTENDS HqEncoder

MCChars == "abcdefghijklmnopqrstuvwxyzABCDEFGHIJKLMNOPQRSTUVWXYZ .,\"'>(]:=\n\t/^~"

C(op, s) == [op |-> op, bytes |-> Numbered(s)]
J(quality, kind, prefix, streams) ==
    [quality |-> quality, kind |-> kind, prefix |-> prefix, streams |-> streams]
Rest(s, n) == SubSeq(s, n + 1, Len(s))

Alt == "abababababab"
Pal == "abbaabbcabbaab"
Odd == "baababbbaababbcc"
Far == "caebdfcaebgdfcaebd"
Runs == "aaaaaaaaaaaaaaaaaaaaaaaaaaaaaaab"
Texts == {Alt, Pal, Odd, Far}

Short(s) == <<C("last", s)>>
Halves(s) == <<C("block", SubSeq(s, 1, Len(s) \div 2)), C("last", Rest(s, Len(s) \div 2))>>
Pauses(s) == <<C("flush", ""), C("block", s), C("block", ""), C("flush", ""), C("flush", "ab"),
               C("block", s), C("last", "")>>
Trickle(s) == <<C("flush", "abcdyabcdaabcd"), C("flush", "zz"), C("block", s), C("last", "abcdabcdz")>>
Nothing == <<C("flush", ""), C("last", "")>>
Lapped(s) == [i \in 1 .. 8 |-> IF i = 8 THEN C("last", s) ELSE C("block", Runs)]
Piece(s) == <<C("prefix", "ab"), C("block", s), C("flush", s)>>

Spoken(t, tail) == Short(Dict!Apply(Dict!BuiltinTransforms[t], "time") \o tail)
CutShort == {"internatio of", "time international", "the times", "tim nation"}

MCJobs ==
    {J(q, "stream", p, <<Halves(s), Short(u)>>) : q \in {10, 11}, p \in BOOLEAN, s, u \in Texts}
    \cup {J(q, "stream", FALSE, <<Pauses(s), Short(Far)>>) : q \in {10, 11}, s \in {Pal, Odd}}
    \cup {J(q, "stream", FALSE, <<Trickle(s), Trickle(Far)>>) : q \in {10, 11}, s \in {Pal, Odd}}
    \cup {J(q, "stream", FALSE, <<Nothing, Short(Pal)>>) : q \in {10, 11}}
    \cup {J(q, "fragment", FALSE, <<Piece(s), Piece(s)>>) : q \in {10, 11}, s \in {Pal, Odd}}
    \cup {J(q, "stream", FALSE, <<Lapped(Odd), Short(Pal)>>) : q \in {10, 11}}
    \cup {J(10, "stream", FALSE, <<Spoken(t, tail)>>) : t \in 1 .. 121, tail \in {"", "abcdefg"}}
    \cup {J(11, "stream", FALSE, <<Short(s), Halves(s)>>) : s \in CutShort}

W(word, idx, op) == [word |-> word, idx |-> idx, op |-> op]
MCWordItems ==
    {W("time", 0, 0), W("time", 0, 10), W("time", 0, 11), W("nation", 1, 0),
     W("international", 2, 0)}

MCSegments == <<Numbered("caebbaab"), Numbered("bbaababc")>>
MCPatterns == {<<1>>, <<3, 5, 2>>, <<6, 1>>}
MCInitialCache == <<4, 11, 15, 16>>
=============================================================================
