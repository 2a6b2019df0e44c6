---------------------------- MODULE EncoderBlock -----------------------------
(***************************************************************************)
(* What the encoders of qualities 2 to 11 do alike around their searches   *)
(* (src/src/compressor/core/greedy/encoder.rs and core/hq/encoder.rs are   *)
(* twins here, extend_last_command of src/src/shared/command.rs is one):   *)
(* input goes into the window, a copy that ended with its block goes on in *)
(* the next, and pending commands become a meta-block.                     *)
(*                                                                         *)
(* e is an encoder: ring, input, done and flushed (the bytes taken in,     *)
(* searched, written), cmds, cache and saved (remembered distances, now    *)
(* and when last written), insert and literals, prepared.                  *)
(***************************************************************************)
EXTENDS EncoderRing, EncoderCommand, SequencesExt

CONSTANTS
    MaxBackward,    \* max_backward_limit()
    Direct, Postfix \* the distance alphabet

CopyInput(e, bytes) ==
    IF bytes = <<>> THEN e
    ELSE [e EXCEPT !.ring = ClearMargin(RingWrite(@, bytes)), !.input = @ + Len(bytes)]

-----------------------------------------------------------------------------
(* extend_last_command.                                                    *)

\* How far the bytes at position repeat those d before them.
GoesOn(e, position, d, bytes) ==
    CHOOSE k \in 0 .. bytes :
        /\ \A j \in 0 .. k - 1 : Byte(e.ring, Mask(position + j)) = Byte(e.ring, Mask(position + j - d))
        /\ k = bytes \/ Byte(e.ring, Mask(position + k)) # Byte(e.ring, Mask(position + k - d))

\* extend_into_prefix: the same, out of the attached prefix.
GoesOnInPrefix(e, prefix, position, reach, copied, bytes) ==
    LET address == Len(prefix) - reach + copied
        most == Smaller(bytes, Len(prefix) - address)
    IN IF reach > Len(prefix) \/ copied >= reach THEN 0
       ELSE CHOOSE k \in 0 .. most :
            /\ \A j \in 0 .. k - 1 : Byte(e.ring, Mask(position + j)) = prefix[address + j + 1]
            /\ k = most \/ Byte(e.ring, Mask(position + k)) # prefix[address + k + 1]

ExtendedBy(e, prefix, c, position, bytes) ==
    LET d == e.cache[1]
        code == RestoreDistanceCode(c, Direct, Postfix)
        reach == Smaller(e.done - c.copy, MaxBackward)
    IN IF code >= ShortCodes /\ code - (ShortCodes - 1) # d THEN -1
       ELSE IF d <= reach THEN GoesOn(e, position, d, bytes)
       ELSE GoesOnInPrefix(e, prefix, position, d - reach, c.copy, bytes)

\* The bytes the last command took over, -1 when it could not be asked.
Extension(e, prefix, bytes) ==
    IF e.cmds = <<>> \/ e.insert # 0 THEN -1
    ELSE ExtendedBy(e, prefix, Last(e.cmds), WrapPosition(e.done), bytes)

Extended(e, more) ==
    IF more < 0 THEN e
    ELSE [e EXCEPT !.cmds[Len(e.cmds)] = Relength(@, more)]

-----------------------------------------------------------------------------
(* The end of a block.                                                     *)

\* update_last_processed_pos: tables are prepared anew when positions wrap.
Processed(e) ==
    [e EXCEPT !.done = e.input,
              !.prepared = @ /\ WrapPosition(e.input) >= WrapPosition(e.done)]

\* The literals left at the end become a command of their own.
Closed(e) ==
    IF e.insert = 0 THEN e
    ELSE [e EXCEPT !.cmds = Append(@, InsertOnly(e.insert)),
                   !.literals = @ + e.insert, !.insert = 0]

\* The window's bytes from position p on.
FromRing(e, p, n) == [i \in 1 .. n |-> Byte(e.ring, Mask(WrapPosition(p) + i - 1))]

\* The writers go through window and commands together.
LiteralsOf(e, cmds, from) ==
    FoldLeft(LAMBDA s, c : [at |-> s.at + c.ins + c.copy,
                            lits |-> s.lits \o FromRing(e, s.at, c.ins)],
             [at |-> from, lits |-> <<>>], cmds).lits

MetaBlock(e, coded) ==
    LET size == e.input - e.flushed
    IN IF size = 0 THEN [kind |-> "empty"]
       ELSE IF coded
       THEN [kind |-> "coded", size |-> size, lits |-> LiteralsOf(e, e.cmds, e.flushed),
             cmds |-> [i \in DOMAIN e.cmds |->
                        [prefix |-> e.cmds[i].prefix, extra |-> ExtraBits(e.cmds[i]).bits,
                         dist |-> IF HasDistance(e.cmds[i]) THEN e.cmds[i].dist
                                  ELSE [sym |-> 0, nbits |-> 0, extra |-> 0]]]]
       ELSE [kind |-> "raw", bytes |-> FromRing(e, e.flushed, size)]

\* Mutant: the distances of a block stored raw stay remembered.
ForgottenNever(e, coded) == e

\* A block written as it is puts the distances of its commands out of memory.
Forgotten(e, coded) ==
    IF coded THEN e ELSE [e EXCEPT !.cache = e.saved \o SubSeq(@, 5, Len(@))]
=============================================================================
