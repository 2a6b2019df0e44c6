------------------------------ MODULE MCGreedy -------------------------------
(* GreedyEncoder on a window of sixteen bytes inside a ring of 32.         *)
EXTENDS GreedyEncoder

Alt == <<1, 2, 1, 2, 1, 2, 1, 2, 1, 2, 1, 2>>
Pal == <<1, 2, 2, 1, 1, 2, 2, 1, 1, 2, 2, 1, 1, 2, 3, 1>>
Odd == <<2, 1, 1, 2, 1, 2, 2, 2, 1, 1, 2, 1, 2, 2, 3, 3>>
Far == <<3, 1, 2, 3, 2, 1, 3, 3, 2, 2, 1, 1, 1, 3, 1, 2>>
Few == <<2, 2, 1, 1, 2, 2, 1, 1, 2>>

C(op, bytes) == [op |-> op, bytes |-> bytes]
S(hint, calls) == [hint |-> hint, calls |-> calls]
Cut(s, n) == SubSeq(s, n + 1, Len(s)) \o SubSeq(s, 1, n)

Head12(t) == SubSeq(t, 1, 12)
Short(t) == S(Len(t), <<C("last", t)>>)
Nothing == S(0, <<C("flush", <<>>), C("last", <<>>)>>)
Pauses == S(32, <<C("block", <<>>), C("block", Pal), C("block", <<>>), C("flush", <<>>),
                  C("flush", <<>>), C("flush", <<1, 2>>), C("block", Pal), C("last", <<>>)>>)
Many(hint, a, b) ==
    S(hint, <<C("block", a), C("flush", b), C("block", a), C("block", b), C("block", b),
              C("block", Cut(b, 5)), C("block", a), C("last", a)>>)
Piece(a, b) == S(32, <<C("prefix", <<2, 1>>), C("block", a), C("flush", b)>>)

\* A dictionary word that ends its block, and a next block that begins like a
\* copy from the last distance.
Wordy == <<1, 2, 2, 1, 1>>
AfterWord == <<2, 2, 1, 1, 2, 2, 1, 1, 3, 3, 1, 3>>

Blocks == {Alt, Pal, Odd, Far, Cut(Odd, 3), Cut(Pal, 5)}

Plans ==
    {[fam |-> "quick", sweep |-> s, extensive |-> FALSE] : s \in {1, 2, 4}}
        \cup {[fam |-> "bucket", tagged |-> t, extensive |-> ~t] : t \in BOOLEAN}
        \cup {[fam |-> "chain", last |-> l, hops |-> 3, extensive |-> FALSE] : l \in {4, 10}}

J(plan, kind, prefix, streams) ==
    [plan |-> plan, kind |-> kind, prefix |-> prefix, streams |-> streams]

MCJobs ==
    {J(p, "stream", FALSE, <<Short(a), Short(Few), Short(b)>>) : p \in Plans, a, b \in Blocks}
    \cup {J(p, "stream", FALSE, <<Many(h, a, b), Short(Few), Pauses>>) :
            p \in Plans, a, b \in Blocks, h \in {0, 32}}
    \cup {J(p, "stream", FALSE, <<S(0, <<C("block", Wordy), C("last", AfterWord)>>), Short(Alt)>>) :
            p \in Plans}
    \cup {J(p, "stream", FALSE, <<Nothing, Many(24, a, a), Short(Alt), Many(24, a, Alt)>>) :
            p \in Plans, a \in Blocks}
    \cup {J(p, "stream", FALSE, <<Short(Head12(a)), Short(Head12(b)), Short(Alt)>>) :
            p \in Plans, a, b \in Blocks}
    \cup {J(p, "stream", TRUE, s) : p \in {q \in Plans : q.fam # "quick"},
            s \in {<<Many(0, a, Far), Pauses>> : a \in Blocks}}
    \cup {J(p, "fragment", FALSE, <<Piece(a, b), Piece(b, b)>>) : p \in Plans, a, b \in Blocks}

MCWords ==
    (<<0, 0>> :> [word |-> <<1, 2, 2, 1, 1>>, idx |-> 1]) @@
    (<<0, 1>> :> [word |-> <<2, 1, 1, 2>>, idx |-> 0]) @@
    (<<1, 0>> :> [word |-> <<2, 1, 1, 1, 2, 1>>, idx |-> 0])
MCStaticWords ==
    4 :> (0 :> <<2, 1, 1, 2>>) @@
    5 :> (1 :> <<1, 2, 2, 1, 1>>) @@
    6 :> (0 :> <<2, 1, 1, 1, 2, 1>>)
MCCutOffs == <<0, 12, 27, 23, 42, 63, 56, 48, 59, 64>>
MCSegments == <<<<1, 2, 1, 2, 2>>, <<2, 1, 1, 2, 1, 2>>>>
MCInitialCache == <<4, 11, 15, 12>>
=============================================================================
