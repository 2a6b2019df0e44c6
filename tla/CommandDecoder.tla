--------------------------- MODULE CommandDecoder ----------------------------
(***************************************************************************)
(* What a stream of meta-blocks means to a decoder: the reference the      *)
(* encoders are held against.  A decoder is a record of the text so far    *)
(* and the four distances it remembers; the wire is what the encoders      *)
(* write: symbols and extra bits, never the encoder's own numbers.         *)
(***************************************************************************)
EXTENDS EncoderCommand, SequencesExt

CONSTANTS
    MaxBackward,  \* the furthest a copy reaches back
    Direct, Postfix,
    StaticWord(_, _)  \* the word a reference past window and prefix spells, by
                      \* its number and the length it is coded with

\* The insert and copy codes behind a command symbol, by its cell of 64.
CellIns == <<0, 0, 0, 0, 8, 8, 0, 16, 8, 16, 16>>
CellCopy == <<0, 8, 0, 8, 0, 8, 16, 0, 16, 8, 16>>
InsCodeOf(sym) == CellIns[(sym \div 64) + 1] + ((sym \div 8) % 8)
CopyCodeOf(sym) == CellCopy[(sym \div 64) + 1] + (sym % 8)

InsLenOf(c) ==
    LET code == InsCodeOf(c.prefix) + 1
    IN InsBase[code] + (c.extra % 2^(InsExtra[code]))
CopyLenOf(c) ==
    LET code == CopyCodeOf(c.prefix) + 1
    IN CopyBase[code] + (c.extra \div 2^(InsExtra[InsCodeOf(c.prefix) + 1]))

\* Which remembered distance a short code starts from, and how far it is off.
ShortFrom == <<1, 2, 3, 4, 1, 1, 1, 1, 1, 1, 2, 2, 2, 2, 2, 2>>
ShortOff == <<0, 0, 0, 0, -1, 1, -2, 2, -3, 3, -1, 1, -2, 2, -3, 3>>

DistanceOf(d, dist) ==
    IF dist.sym < ShortCodes
    THEN d.cache[ShortFrom[dist.sym + 1]] + ShortOff[dist.sym + 1]
    ELSE IF dist.sym < ShortCodes + Direct THEN dist.sym - ShortCodes + 1
    ELSE LET code == dist.sym - Direct - ShortCodes
             hcode == code \div 2^Postfix
         IN ((2 + (hcode % 2)) * 2^(1 + (hcode \div 2)) - 4 + dist.extra) * 2^Postfix
              + (code % 2^Postfix) + Direct + 1

Reach(d) == IF Len(d.text) < MaxBackward THEN Len(d.text) ELSE MaxBackward

\* len bytes from distance back on; a copy may run into its own bytes.
CopyBack(text, back, len) ==
    [i \in 1 .. len |-> text[Len(text) - back + 1 + ((i - 1) % back)]]

Copied(d, back, len, prefix) ==
    CASE back <= Reach(d) -> CopyBack(d.text, back, len)
      [] back > Reach(d) /\ back <= Reach(d) + Len(prefix) ->
           SubSeq(prefix, Len(prefix) - (back - Reach(d)) + 1,
                          Len(prefix) - (back - Reach(d)) + len)
      [] OTHER -> StaticWord(back - Reach(d) - Len(prefix) - 1, len)

\* One command; nothing is copied once the meta-block is complete.
Obey(d, c, prefix, full) ==
    LET ins == InsLenOf(c)
        lits == [d EXCEPT !.text = @ \o SubSeq(d.lits, 1, ins), !.lits = SubSeq(@, ins + 1, Len(@))]
        dist == IF c.prefix < 128 THEN [sym |-> 0, nbits |-> 0, extra |-> 0] ELSE c.dist
        back == DistanceOf(d, dist)
    IN IF Len(lits.text) >= full THEN lits
       ELSE [lits EXCEPT !.text = @ \o Copied(lits, back, CopyLenOf(c), prefix),
                         !.cache = IF dist.sym = 0 \/ back > Reach(lits) + Len(prefix) THEN @
                                   ELSE <<back, @[1], @[2], @[3]>>]

DecodeMetaBlock(d, m, prefix) ==
    CASE m.kind = "raw" -> [d EXCEPT !.text = @ \o m.bytes]
      [] m.kind = "coded" ->
           FoldLeft(LAMBDA e, c : Obey(e, c, prefix, Len(d.text) + m.size),
                    [d EXCEPT !.lits = m.lits], m.cmds)
      [] OTHER -> d

Decode(d, blocks, prefix) ==
    FoldLeft(LAMBDA e, m : DecodeMetaBlock(e, m, prefix), d, blocks)

NewDecoder(text, cache) == [text |-> text, cache |-> cache, lits |-> <<>>]
=============================================================================
