------------------------------ MODULE FramedWire ------------------------------
(***************************************************************************)
(* The framed container (RFC 9841, section 8) as the framed encoder writes *)
(* it and the framed decoder and the seek reader read it: a five byte      *)
(* signature and a sequence of chunks.  What a chunk's bytes spell is left *)
(* out; how many there are, what they decode to, where they sit and what   *)
(* they refer to are kept.                                                 *)
(* Sources: src/src/compressor/framing/core.rs and                         *)
(* src/src/decompressor/framing/core/wire.rs.                              *)
(***************************************************************************)
EXTENDS Integers, SequencesExt

CONSTANT Radix      \* values of one varint byte (128 in the code)

ASSUME RadixAssumption == Radix \in Nat \ {0, 1}

Signature == 5      \* bytes in front of the first chunk

DataKinds == {"data", "first", "middle", "last"}
MetaKinds == {"metadata", "footerMeta", "global", "repeat"}

(* Bytes of a varint: as many as the value needs. *)
MaxWidth == 9
Width(v) == CHOOSE w \in 1 .. MaxWidth :
              /\ w = MaxWidth \/ v < Radix ^ w
              /\ w = 1 \/ ~ (v < Radix ^ (w - 1))

(* A chunk.  text is what its content decodes to, coded the bytes that     *)
(* takes, dict the dictionary it was coded with; extra bytes follow the    *)
(* end of a codec stream that ends inside the chunk.                       *)
Plain == [kind |-> "padding", codec |-> "none", text |-> <<>>, coded |-> 0,
          declared |-> 0, ends |-> FALSE, extra |-> 0, refs |-> <<>>,
          dict |-> <<>>, of |-> "none", ptr |-> 0, entries |-> <<>>,
          size |-> 0, dir |-> 0, at |-> 0]

HasCodec(c) == c.codec # "none"
Compressed(c) == c.codec \in {"keep", "brotli", "shared"}

SumOf(f(_), s) ==
  LET Sum[k \in 0 .. Len(s)] == IF k = 0 THEN 0 ELSE Sum[k - 1] + f(s[k])
  IN  Sum[Len(s)]

(* The elements of s that pass a test, in order. *)
Chosen(s, Test(_)) ==
  LET Pick[k \in 0 .. Len(s)] ==
        IF k = 0 THEN <<>>
        ELSE IF Test(s[k]) THEN Append(Pick[k - 1], s[k]) ELSE Pick[k - 1]
  IN  Pick[Len(s)]

(* A reference: its kind and the offset it points to. *)
PointerBytes(r) == 1 + Width(r.at)

(* Bytes of a chunk's header behind its length. *)
HeadBytes(c) ==
  1 + (IF HasCodec(c) THEN 1 ELSE 0)
    + (IF Compressed(c) THEN Width(c.declared) ELSE 0)
    + (IF c.codec = "shared" THEN 1 + SumOf(PointerBytes, c.refs) ELSE 0)
    + (IF c.kind \in DataKinds THEN 1 ELSE 0)
    + (IF c.kind = "repeat" THEN 1 ELSE 0)

(* An entry of the directory: the offset, the length and the bytes of a    *)
(* chunk's header.                                                         *)
EntryNumbers(d) == Width(d.at) + Width(d.header)
EntryBytes(d)   == EntryNumbers(d) + d.header

Body(c) ==
  CASE c.kind = "directory" -> Width(c.ptr) + SumOf(EntryBytes, c.entries)
    [] c.kind = "footer"    -> Width(c.size) + Width(c.dir)
    [] OTHER                -> c.coded

Header(c) == HeadBytes(c) + Width(HeadBytes(c) + Body(c))
Length(c) == Header(c) + Body(c)
EndOf(c)  == c.at + Length(c)

Entry(c) == [at |-> c.at, header |-> Header(c), length |-> Length(c), kind |-> c.kind,
             codec |-> c.codec, declared |-> c.declared, refs |-> c.refs, of |-> c.of]

WireEnd(chunks) == IF chunks = <<>> THEN Signature ELSE EndOf(Last(chunks))

(* The footer counts its own bytes: its size is a fix point.               *)
FooterChunk(at, size, dir) == [Plain EXCEPT !.kind = "footer", !.at = at, !.size = size, !.dir = dir]

(* Mutant: the size is computed once, with the width of the offset. *)
FooterSizeOnce(at, dir) == at + Length(FooterChunk(at, at, dir))

(* The footer's size: the loop starts at the offset and grows, so it ends  *)
(* at the least size that counts its own bytes.                            *)
FooterSize(at, dir) ==
  CHOOSE n \in at .. at + 3 * MaxWidth :
    /\ n = at + Length(FooterChunk(at, n, dir))
    /\ \A m \in at .. n - 1 : m # at + Length(FooterChunk(at, m, dir))

(* The texts a chunk's references stand for. *)
TextOf(chunks, ref) ==
  LET i == CHOOSE k \in DOMAIN chunks : chunks[k].at = ref.at
      n == CHOOSE k \in i .. Len(chunks) :
             /\ chunks[k].kind \in {"data", "last"}
             /\ \A j \in i .. k - 1 : chunks[j].kind \notin {"data", "last"}
  IN IF ref.to = "chunk" THEN chunks[i].text
     ELSE FlattenSeq([k \in 1 .. n - i + 1 |-> IF chunks[i + k - 1].kind \in DataKinds
                                               THEN chunks[i + k - 1].text ELSE <<>>])
DictionaryOf(chunks, refs) == [k \in DOMAIN refs |-> TextOf(chunks, refs[k])]

(* Fields of a metadata chunk: a reserved one names a resource, once.      *)
Field(code, value) == [code |-> code, value |-> value]
ValidFields(fields, kind) ==
  \A i \in DOMAIN fields :
    fields[i].code = "id" =>
      /\ kind = "metadata"
      /\ \A j \in 1 .. i - 1 : fields[j].code # "id"

(* The fields of one code, in order; the ones a repetition keeps. *)
OfCode(fields, code)   == Chosen(fields, LAMBDA f : f.code = code)
OfCodes(fields, codes) == Chosen(fields, LAMBDA f : f.code \in codes)
CodesOf(fields)        == {fields[i].code : i \in DOMAIN fields}
=============================================================================
