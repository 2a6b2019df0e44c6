------------------------------- MODULE MCCodes --------------------------------
(* The coders that write meta-blocks, one at a time: MetaBlockCodes on     *)
(* short texts of real bytes, with small blocks, and on prefix codes and   *)
(* distance alphabets of the real sizes; or FastEncoder on fragments of up *)
(* to a hundred bytes of a small alphabet, with block sizes, lengths and   *)
(* limits scaled down together.                                            *)
EXTENDS MetaBlockCodes, FastEncoder

FastIdle == order = <<>> /\ stage = "done" /\ arena = <<>> /\ s = <<>> /\ wire = <<>> /\ exact = <<>>
        /\ ahead = <<>> /\ text = <<>>
CodesIdle == job = <<>> /\ phase = "idle" /\ enc = <<>> /\ blk = <<>> /\ work = <<>>
             /\ slow = <<>> /\ fast = <<>>
Init == (MetaBlockInit /\ FastIdle) \/ (CodesIdle /\ FastInit)
Next ==
    \/ MetaBlockNext /\ UNCHANGED fastVars
    \/ FastNext /\ UNCHANGED vars
Spec == Init /\ [][Next]_<<vars, fastVars>>

-----------------------------------------------------------------------------

MCLengthBits == 4 :> 5 @@ 5 :> 6 @@ 6 :> 24

MCMaxTypes == 1 :> 3 @@ 2 :> 2 @@ 3 :> 2 @@ 13 :> 2
MCMinBlocks == "lit" :> 2 @@ "cmd" :> 2 @@ "dist" :> 2

C(lits, copy, back) == [lits |-> lits, copy |-> copy, back |-> back]

\* Blocks of commands.  The copies reach back into the block before.
Words == <<C(<<97, 66, 97, 32>>, 130, 4), C(<<195, 169>>, 3, 9), C(<<66>>, 2, 9), C(<<32, 97>>, 0, 0)>>
Again == <<C(<<97>>, 5, 4), C(<<195, 97>>, 4, 3), C(<<66, 32>>, 6, 6), C(<<>>, 112, 6)>>
One == <<C(<<97, 97, 66>>, 40, 1)>>
Plain == <<C(<<32, 195, 169, 66, 97>>, 0, 0)>>
Tiny == <<C(<<169, 66>>, 0, 0)>>
Long == <<C(<<97, 66, 32>>, 70, 3), C(<<>>, 2, 2), C(<<195>>, 9, 74)>>

B(kind, cmds, last, flush) ==
    [kind |-> kind, cmds |-> cmds, last |-> last, flush |-> flush, models |-> FALSE, hq |-> FALSE,
     long |-> FALSE, params |-> {}, modes |-> {2}]
Empty0(last, flush) == B("trivial", <<>>, last, flush)

CopyBytes(bytes, n, back) ==
    bytes \o [i \in 1 .. n |-> bytes[Len(bytes) - back + 1 + ((i - 1) % back)]]
Text(blocks) ==
    FoldLeft(LAMBDA t, b : FoldLeft(LAMBDA u, c : CopyBytes(u \o c.lits, c.copy, c.back), t, b.cmds),
             <<>>, blocks)
Spec1(c) == [ins |-> Len(c.lits), copy |-> c.copy, back |-> c.back]
Stream1(head, large, postfix, direct, blocks) ==
    [kind |-> "stream", head |-> head, large |-> large, postfix |-> postfix, direct |-> direct,
     text |-> Text(blocks),
     blocks |-> <<>> \o [i \in DOMAIN blocks |->
       [blocks[i] EXCEPT !.cmds = <<>> \o [k \in DOMAIN @ |-> Spec1(@[k])]]]]

\* Codes written quickly and plainly, one block over what the other left.
Quick ==
    {Stream1(h, l, 0, 0, <<B(k, Words, FALSE, FALSE), B(k, One, FALSE, FALSE), B(k, Again, FALSE, FALSE),
                           Empty0(TRUE, FALSE)>>) : h \in {1, 4}, l \in {FALSE}, k \in {"fast", "trivial"}}
    \cup {Stream1(7, FALSE, 0, 0, <<B(k, Plain, FALSE, TRUE), B(k, Tiny, FALSE, FALSE), B(k, Words, FALSE, TRUE),
                           Empty0(FALSE, TRUE), B(k, Long, FALSE, FALSE), B(k, Plain, TRUE, FALSE)>>)
            : k \in {"fast", "trivial"}}

G(cmds, last, hq, long) ==
    [B("greedy", cmds, last, FALSE) EXCEPT !.models = TRUE, !.hq = hq, !.long = long]
\* Literals, then commands and distances, in several blocks.
Spread3 == <<C(<<97, 66>>, 90, 2), C(<<>>, 5, 7), C(<<32>>, 4, 31), C(<<>>, 9, 2), C(<<66>>, 6, 31)>>
Greedy ==
    {Stream1(1, FALSE, 0, 0, <<G(Words, TRUE, FALSE, TRUE)>>),
     Stream1(1, FALSE, 2, 8, <<G(Spread3, FALSE, FALSE, FALSE), G(One, TRUE, TRUE, FALSE)>>)}

H(cmds, last, models, params, modes) ==
    [B("hq", cmds, last, FALSE) EXCEPT !.models = models, !.params = params, !.modes = modes]
\* Literals in up to five blocks; commands and distances in up to four each;
\* and blocks too short to be split, with other distance alphabets.
Letters == <<C(<<97, 66, 195, 169, 97>>, 130, 4), C(<<>>, 5, 4)>>
Reaches == <<C(<<97, 66, 32>>, 90, 2), C(<<>>, 5, 7), C(<<>>, 4, 31), C(<<>>, 9, 12)>>
Varied == <<C(<<195, 97, 66, 32>>, 130, 2)>>
Few == <<C(<<97, 66>>, 130, 2), C(<<>>, 7, 30), C(<<32>>, 9, 5)>>
Best ==
    {Stream1(4, FALSE, 0, 0, <<H(Letters, TRUE, FALSE, {}, {2})>>),
     Stream1(4, FALSE, 0, 0, <<H(Reaches, TRUE, FALSE, {}, {2})>>),
     Stream1(4, FALSE, 1, 4, <<H(One, FALSE, TRUE, {<<0, 15>>}, {2, 3}), H(Few, TRUE, TRUE, {<<2, 0>>}, {2})>>),
     Stream1(4, FALSE, 0, 0, <<H(Varied, TRUE, TRUE, {}, {3})>>)}
    \cup {Stream1(4, l, 0, 0, <<H(Few, FALSE, FALSE, {<<1, 2>>, <<3, 120>>}, {2}), H(One, TRUE, FALSE, {<<0, 3>>}, {2})>>)
            : l \in BOOLEAN}

\* Single codes.
Old == [sym \in {0, 3, 5, 17} |-> <<1, 1, 0>>]
K(hist, alphabet, quick, rounded) ==
    [kind |-> "code", head |-> 0, hist |-> hist, length |-> alphabet, alphabet |-> alphabet,
     quick |-> quick, rounded |-> rounded, old |-> Old]
Fib == <<1, 1, 2, 3, 5, 8, 13, 21, 34, 55, 89, 144, 233, 377, 610, 987, 1597, 2584, 4181>>
FibHist(n, gap) == [sym \in {gap * i : i \in 0 .. n - 1} |-> Fib[(sym \div gap) + 1]]
Flat(S) == [sym \in S |-> 1]
Waves(n) == [sym \in 0 .. n - 1 |-> 1 + ((sym * sym) % 7) + (IF sym \in 40 .. 55 THEN 30 ELSE 0)]
Gaps(n) == [sym \in {i \in 0 .. n : i % 9 # 4 /\ i \notin 20 .. 26} |-> 2 + (sym % 3)]
Codes ==
    {K(h, a, q, FALSE) : h \in {FibHist(19, 1), FibHist(17, 13), Flat({7}), Flat({0, 200}), Flat({3, 4, 5}),
                                FibHist(4, 60), Flat({1, 2, 5, 9}), Flat(0 .. 4), FibHist(6, 3)},
                         a \in {256, 704}, q \in BOOLEAN}
    \cup {K(h, 256, FALSE, TRUE) : h \in {Waves(72), Gaps(60), Waves(20), Gaps(24)}}
    \cup {K(h, a, FALSE, FALSE) : h \in {Flat({}), Flat({2, 6}), FibHist(7, 2)}, a \in {18, 26}}
    \cup {K(h, 256, FALSE, FALSE) : h \in {Waves(120), Flat(0 .. 255)}}
D(large, postfix, direct) ==
    [kind |-> "distances", head |-> 0, large |-> large, postfix |-> postfix, direct |-> direct]
Alphabets == {D(l, p, m * 2^p) : l \in BOOLEAN, p \in 0 .. 3, m \in 0 .. 15}

MCJobs == Quick \cup Greedy \cup Best \cup Codes \cup Alphabets

-----------------------------------------------------------------------------
(* Fragments.                                                              *)

MCLiterals == 97 .. 104

\* Texts are made of literals and of copies of what is in front.
TextOf(parts) == FoldLeft(LAMBDA t, p : CopyBytes(t \o p[1], p[2], p[3]), <<>>, parts)

\* Copies far and near, in and over the blocks.
Mixed == TextOf(<< <<<<97, 98, 99, 100, 101, 98>>, 14, 6>>, <<<<102, 97>>, 9, 8>>, <<<<103>>, 20, 7>>, <<<<97, 103>>, 24, 22>> >>)
\* Runs of literals with a match behind them.
Runs2 == TextOf(<< <<<<97, 99, 98, 100, 102, 101, 97, 103, 99, 104, 98, 98, 101, 100, 97, 97>>, 12, 14>>,
                <<<<104, 103, 102, 99, 101, 104, 98, 97, 103, 104, 99, 102>>, 16, 12>>, <<<<97>>, 6, 9>> >>)
\* One byte over and over, and matches one behind the other.
Same == TextOf(<< <<<<97>>, 60, 1>>, <<<<98, 97>>, 20, 30>> >>)
Chains == TextOf(<< <<<<97, 98, 99, 100, 101, 102, 103, 104, 97, 99>>, 8, 10>>, <<<<>>, 7, 9>>, <<<<>>, 6, 16>>,
                 <<<<98>>, 9, 24>>, <<<<104>>, 4, 40>>, <<<<97, 104>>, 8, 20>>, <<<<>>, 12, 31>>, <<<<104, 104>>, 10, 45>> >>)
Noise == <<97, 103, 98, 102, 104, 99, 101, 100, 97, 102, 98, 104, 103, 99, 100, 101, 97, 104, 98, 103, 102, 100, 99, 101,
           104, 97, 103, 102, 98, 101, 99, 97, 100, 104, 102, 103, 97, 101, 98, 100, 99, 104>>
Short == <<97, 98, 97>>

Part1(data, op) == [data |-> data, op |-> op]
Order1(quality, least, independent, ops) ==
    [quality |-> quality, min |-> least, independent |-> independent, head |-> 1, ops |-> ops]
Modes == {<<0, 5, FALSE>>, <<0, 5, TRUE>>, <<1, 4, FALSE>>, <<1, 4, TRUE>>, <<1, 6, FALSE>>, <<1, 6, TRUE>>}
Streams ==
    {<<Part1(Mixed, "more"), Part1(Chains, "last")>>,
     <<Part1(Short, "flush"), Part1(Same, "flush"), Part1(<<>>, "flush"), Part1(Short, "last")>>,
     <<Part1(Chains, "flush"), Part1(Runs2, "more"), Part1(<<>>, "last")>>,
     <<Part1(Noise, "more"), Part1(Mixed, "last")>>}
MCOrders == {Order1(k[1], k[2], k[3], ops) : k \in Modes, ops \in Streams}
=============================================================================
