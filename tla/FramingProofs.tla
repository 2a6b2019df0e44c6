----------------------------- MODULE FramingProofs -----------------------------
(***************************************************************************)
(* The Write side of the framed encoder, proved for every chunk and        *)
(* transport size, script, cut of the writes and behaviour of the sink: it *)
(* gets what the session hands out, once and in order, and a container     *)
(* that is reported finished is there to its last byte.                    *)
(***************************************************************************)
EXTENDS MCFraming, TLAPS, WellFoundedInduction

-----------------------------------------------------------------------------
(* Recursive functions over 0 .. n. *)

LEMMA LeastNatural ==
  ASSUME NEW N, N \subseteq Nat, N # {}
  PROVE  \E n \in N : \A m \in N : n <= m
<1> DEFINE R == OpToRel(<, Nat)
<1>1. IsWellFoundedOn(R, Nat)
  BY NatLessThanWellFounded
<1>2. \A m, k \in Nat : m < k => <<m, k>> \in R
  BY DEF OpToRel
<1> HIDE DEF R
<1>3. \E n \in N : \A m \in N : ~ (<<m, n>> \in R)
  BY <1>1, WFMin, Zenon
<1>4. PICK n \in N : \A m \in N : ~ (<<m, n>> \in R)
  BY <1>3, Zenon
<1>5. ASSUME NEW m \in N PROVE n <= m
  <2>1. m \in Nat /\ n \in Nat
    OBVIOUS
  <2>2. ~ (m < n)
    BY <1>2, <1>4, <2>1
  <2> QED
    BY <2>1, <2>2
<1> QED
  BY <1>5

LEMMA Climb ==
  ASSUME NEW n \in Nat, NEW S, 0 \in S, \A k \in 0 .. n - 1 : k \in S => k + 1 \in S
  PROVE  \A k \in 0 .. n : k \in S
<1> DEFINE N == {k \in 0 .. n : k \notin S}
<1> SUFFICES ASSUME N # {} PROVE FALSE
  OBVIOUS
<1>1. N \subseteq Nat
  OBVIOUS
<1> HIDE DEF N
<1>2. PICK k \in N : \A j \in N : k <= j
  BY <1>1, LeastNatural
<1>3. k \in 0 .. n /\ k \notin S
  BY DEF N
<1>4. k # 0
  BY <1>3
<1>5. k - 1 \in 0 .. n - 1 /\ k - 1 \in 0 .. n /\ ~ (k <= k - 1) /\ (k - 1) + 1 = k
  BY <1>3, <1>4
<1>6. k - 1 \in S
  BY <1>2, <1>5 DEF N
<1> QED
  BY <1>3, <1>5, <1>6

(* Steps that stay in S have a function, and stay there. *)
Stepwise(n, S, a, step) ==
  \E f \in [0 .. n -> S] : f[0] = a /\ \A k \in 1 .. n : f[k] = step[<<k, f[k - 1]>>]

LEMMA Rounds ==
  ASSUME NEW n \in Nat, NEW S, NEW a \in S, NEW step \in [(1 .. n) \X S -> S]
  PROVE  Stepwise(n, S, a, step)
<1> DEFINE Is(f, m) == f \in [0 .. m -> S] /\ f[0] = a /\ \A k \in 1 .. m : f[k] = step[<<k, f[k - 1]>>]
           M == {m \in 0 .. n : \E f : Is(f, m)}
<1>1. 0 \in M
  <2>1. [k \in 0 .. 0 |-> a] \in [0 .. 0 -> S] /\ [k \in 0 .. 0 |-> a][0] = a /\ 1 .. 0 = {}
    OBVIOUS
  <2>2. Is([k \in 0 .. 0 |-> a], 0)
    BY <2>1
  <2>3. 0 \in 0 .. n
    OBVIOUS
  <2> HIDE DEF Is
  <2> QED
    BY <2>2, <2>3
<1>2. ASSUME NEW j \in 0 .. n - 1, j \in M PROVE j + 1 \in M
  <2>1. PICK f : Is(f, j)
    BY <1>2
  <2> DEFINE m == j + 1
             g == [k \in 0 .. m |-> IF k = m THEN step[<<m, f[j]>>] ELSE f[k]]
  <2>2. f[j] \in S /\ m \in 1 .. n /\ \A k \in 0 .. j : f[k] \in S
    BY <2>1
  <2>3. step[<<m, f[j]>>] \in S
    BY <2>2
  <2>4. g \in [0 .. m -> S]
    BY <2>2, <2>3
  <2>5. g[0] = a
    BY <2>1
  <2>6. ASSUME NEW k \in 1 .. m PROVE g[k] = step[<<k, g[k - 1]>>]
    <3>1. CASE k = m
      <4>1. k - 1 = j /\ j \in 0 .. m /\ j # m /\ m \in 0 .. m
        BY <3>1
      <4>2. g[k] = step[<<m, f[j]>>] /\ g[k - 1] = f[j]
        BY <3>1, <4>1
      <4> QED
        BY <3>1, <4>2
    <3>2. CASE k # m
      <4>1. k \in 1 .. j /\ k - 1 \in 0 .. m /\ k - 1 # m /\ k \in 0 .. m
        BY <3>2
      <4>2. g[k] = f[k] /\ g[k - 1] = f[k - 1]
        BY <3>2, <4>1
      <4> QED
        BY <2>1, <4>1, <4>2
    <3> QED
      BY <3>1, <3>2
  <2> HIDE DEF g
  <2>7. Is(g, m)
    BY <2>4, <2>5, <2>6
  <2>8. m \in 0 .. n
    OBVIOUS
  <2> HIDE DEF Is
  <2> QED
    BY <2>7, <2>8
<1>3. n \in M
  <2> HIDE DEF M
  <2>1. \A k \in 0 .. n : k \in M
    BY <1>1, <1>2, Climb
  <2> QED
    BY <2>1
<1> QED
  BY <1>3 DEF Stepwise

-----------------------------------------------------------------------------
(* The lengths of chunks. *)

LEMMA WidthIsNat == ASSUME NEW v PROVE Width(v) \in Nat
<1> DEFINE Enough(w) == w = MaxWidth \/ v < Radix ^ w
           W == {w \in 1 .. MaxWidth : Enough(w)}
<1>1. W \subseteq Nat /\ W # {}
  <2>1. MaxWidth \in 1 .. MaxWidth /\ 1 .. MaxWidth \subseteq Nat
    BY DEF MaxWidth
  <2> QED
    BY <2>1, Zenon
<1>2. PICK w \in W : \A u \in W : w <= u
  BY <1>1, LeastNatural
<1>3. w = 1 \/ ~ (v < Radix ^ (w - 1))
  <2> SUFFICES ASSUME w # 1, v < Radix ^ (w - 1) PROVE FALSE
    OBVIOUS
  <2>1. w - 1 \in 1 .. MaxWidth /\ ~ (w <= w - 1)
    BY DEF MaxWidth
  <2>2. w - 1 \in W
    BY <2>1, Zenon
  <2> QED
    BY <1>2, <2>1, <2>2
<1>4. \E x \in 1 .. MaxWidth : (x = MaxWidth \/ v < Radix ^ x) /\ (x = 1 \/ ~ (v < Radix ^ (x - 1)))
  BY <1>3, Zenon
<1>5. Width(v) \in 1 .. MaxWidth
  BY <1>4, Zenon DEF Width
<1> QED
  BY <1>5 DEF MaxWidth

(* f adds up the first values of v. *)
Sums(f, n, v) == f = [k \in 0 .. n |-> IF k = 0 THEN 0 ELSE f[k - 1] + v[k]]

LEMMA SumsExist ==
  ASSUME NEW n \in Nat, NEW v \in [1 .. n -> Nat]
  PROVE  /\ \E f : Sums(f, n, v)
         /\ \A f : Sums(f, n, v) => f[n] \in Nat
<1> DEFINE step == [x \in (1 .. n) \X Nat |-> x[2] + v[x[1]]]
<1>1. step \in [(1 .. n) \X Nat -> Nat]
  OBVIOUS
<1>2. \A k \in 1 .. n, x \in Nat : step[<<k, x>>] = x + v[k]
  OBVIOUS
<1> HIDE DEF step
<1>3. 0 \in Nat
  OBVIOUS
<1>4. PICK f \in [0 .. n -> Nat] : f[0] = 0 /\ \A k \in 1 .. n : f[k] = step[<<k, f[k - 1]>>]
  <2>1. Stepwise(n, Nat, 0, step)
    BY <1>1, <1>3, Rounds
  <2> QED
    BY <2>1 DEF Stepwise
<1>5. ASSUME NEW k \in 1 .. n PROVE f[k] = f[k - 1] + v[k]
  <2>1. k - 1 \in 0 .. n
    OBVIOUS
  <2>2. f[k - 1] \in Nat
    BY <2>1
  <2> QED
    BY <1>2, <1>4, <2>2
<1>6. Sums(f, n, v)
  BY <1>4, <1>5 DEF Sums
<1>7. ASSUME NEW W, Sums(W, n, v) PROVE W[n] \in Nat
  <2> DEFINE S == {k \in 0 .. n : W[k] \in Nat}
  <2>1. 0 \in 0 .. n
    OBVIOUS
  <2>2. W[0] = 0
    BY <1>7, <2>1 DEF Sums
  <2>3. ASSUME NEW k \in 0 .. n - 1, k \in S PROVE k + 1 \in S
    <3>1. k + 1 \in 0 .. n /\ k + 1 # 0 /\ (k + 1) - 1 = k /\ k + 1 \in 1 .. n
      OBVIOUS
    <3>2. W[k + 1] = W[k] + v[k + 1]
      BY <1>7, <3>1 DEF Sums
    <3>3. v[k + 1] \in Nat /\ W[k] \in Nat
      BY <2>3, <3>1
    <3> QED
      BY <3>1, <3>2, <3>3, SMTT(30)
  <2>4. 0 \in S
    BY <2>1, <2>2
  <2> HIDE DEF S
  <2>5. \A k \in 0 .. n : k \in S
    BY <2>3, <2>4, Climb
  <2> QED
    BY <2>5 DEF S
<1> QED
  BY <1>6, <1>7

LEMMA PointersSum ==
  ASSUME NEW refs, Len(refs) \in Nat
  PROVE  SumOf(PointerBytes, refs) \in Nat
<1> DEFINE n == Len(refs)
           v == [k \in 1 .. n |-> PointerBytes(refs[k])]
           Is(f) == f = [k \in 0 .. n |-> IF k = 0 THEN 0 ELSE f[k - 1] + PointerBytes(refs[k])]
           U == CHOOSE f : Is(f)
<1>1. v \in [1 .. n -> Nat]
  BY WidthIsNat DEF PointerBytes
<1>2. ASSUME NEW f PROVE Is(f) <=> Sums(f, n, v)
  BY SMTT(30) DEF Sums
<1>3. SumOf(PointerBytes, refs) = U[n]
  BY Zenon DEF SumOf
<1> HIDE DEF Is, v
<1>4. (\E f : Is(f)) /\ \A f : Is(f) => f[n] \in Nat
  BY <1>1, <1>2, SumsExist
<1>5. Is(U)
  BY <1>4, Zenon
<1> QED
  BY <1>3, <1>4, <1>5

LEMMA EntriesSum ==
  ASSUME NEW s, Len(s) \in Nat, \A k \in 1 .. Len(s) : s[k].header \in Nat
  PROVE  SumOf(EntryBytes, s) \in Nat
<1> DEFINE n == Len(s)
           v == [k \in 1 .. n |-> EntryBytes(s[k])]
           Is(f) == f = [k \in 0 .. n |-> IF k = 0 THEN 0 ELSE f[k - 1] + EntryBytes(s[k])]
           U == CHOOSE f : Is(f)
<1>1. v \in [1 .. n -> Nat]
  <2>1. ASSUME NEW k \in 1 .. n PROVE EntryBytes(s[k]) \in Nat
    <3>1. s[k].header \in Nat /\ Width(s[k].at) \in Nat /\ Width(s[k].header) \in Nat
      BY WidthIsNat
    <3> QED
      BY <3>1 DEF EntryBytes, EntryNumbers
  <2> QED
    BY <2>1
<1>2. ASSUME NEW f PROVE Is(f) <=> Sums(f, n, v)
  <2>1. \A k \in 0 .. n : k # 0 => v[k] = EntryBytes(s[k])
    OBVIOUS
  <2> HIDE DEF v
  <2>2. [k \in 0 .. n |-> IF k = 0 THEN 0 ELSE f[k - 1] + v[k]]
          = [k \in 0 .. n |-> IF k = 0 THEN 0 ELSE f[k - 1] + EntryBytes(s[k])]
    BY <2>1
  <2> QED
    BY <2>2 DEF Sums
<1>3. SumOf(EntryBytes, s) = U[n]
  BY Zenon DEF SumOf
<1> HIDE DEF Is, v
<1>4. (\E f : Is(f)) /\ \A f : Is(f) => f[n] \in Nat
  BY <1>1, <1>2, SumsExist
<1>5. Is(U)
  BY <1>4, Zenon
<1> QED
  BY <1>3, <1>4, <1>5

(* f collects the elements of s at the places in Z. *)
Picks(f, n, s, Z) ==
  f = [k \in 0 .. n |-> IF k = 0 THEN <<>> ELSE IF k \in Z THEN Append(f[k - 1], s[k]) ELSE f[k - 1]]

LEMMA PicksExist ==
  ASSUME NEW n \in Nat, NEW R, NEW s, \A k \in 1 .. n : s[k] \in R, NEW Z
  PROVE  /\ \E f : Picks(f, n, s, Z)
         /\ \A f : Picks(f, n, s, Z) => f[n] \in Seq(R)
<1> DEFINE Q == Seq(R)
           step == [x \in (1 .. n) \X Q |-> IF x[1] \in Z THEN Append(x[2], s[x[1]]) ELSE x[2]]
<1>1. ASSUME NEW k \in 1 .. n, NEW q \in Q PROVE Append(q, s[k]) \in Q
  <2>1. s[k] \in R
    OBVIOUS
  <2> QED
    BY <2>1
<1>2. <<>> \in Q
  OBVIOUS
<1> HIDE DEF Q
<1>3. step \in [(1 .. n) \X Q -> Q]
  BY <1>1
<1>4. \A k \in 1 .. n, q \in Q : step[<<k, q>>] = IF k \in Z THEN Append(q, s[k]) ELSE q
  OBVIOUS
<1> HIDE DEF step
<1>5. PICK f \in [0 .. n -> Q] : f[0] = <<>> /\ \A k \in 1 .. n : f[k] = step[<<k, f[k - 1]>>]
  <2>1. Stepwise(n, Q, <<>>, step)
    BY <1>2, <1>3, Rounds
  <2> QED
    BY <2>1 DEF Stepwise
<1>6. ASSUME NEW k \in 1 .. n PROVE f[k] = IF k \in Z THEN Append(f[k - 1], s[k]) ELSE f[k - 1]
  <2>1. k - 1 \in 0 .. n
    OBVIOUS
  <2>2. f[k - 1] \in Q
    BY <2>1
  <2> QED
    BY <1>4, <1>5, <2>2
<1>7. Picks(f, n, s, Z)
  <2>1. f = [k \in 0 .. n |-> f[k]]
    OBVIOUS
  <2> DEFINE e(k) == IF k = 0 THEN <<>> ELSE IF k \in Z THEN Append(f[k - 1], s[k]) ELSE f[k - 1]
  <2>2. ASSUME NEW k \in 0 .. n PROVE f[k] = e(k)
    <3>1. CASE k = 0
      BY <1>5, <3>1
    <3>2. CASE k # 0
      <4>1. k \in 1 .. n
        BY <3>2
      <4> QED
        BY <1>6, <3>2, <4>1, Zenon
    <3> QED
      BY <3>1, <3>2
  <2>3. Picks(f, n, s, Z) <=> f = [k \in 0 .. n |-> e(k)]
    BY Zenon DEF Picks
  <2> HIDE DEF e
  <2>4. f = [k \in 0 .. n |-> e(k)]
    BY <2>1, <2>2
  <2> QED
    BY <2>3, <2>4
<1>8. ASSUME NEW W, Picks(W, n, s, Z) PROVE W[n] \in Q
  <2> DEFINE S == {k \in 0 .. n : W[k] \in Q}
  <2>1. 0 \in 0 .. n
    OBVIOUS
  <2>2. W[0] = <<>>
    BY <1>8, <2>1 DEF Picks
  <2>3. ASSUME NEW k \in 0 .. n - 1, k \in S PROVE k + 1 \in S
    <3>1. k + 1 \in 0 .. n /\ k + 1 # 0 /\ (k + 1) - 1 = k /\ k + 1 \in 1 .. n
      OBVIOUS
    <3>2. W[k + 1] = IF k + 1 \in Z THEN Append(W[k], s[k + 1]) ELSE W[k]
      BY <1>8, <3>1 DEF Picks
    <3>3. W[k] \in Q
      BY <2>3
    <3>4. Append(W[k], s[k + 1]) \in Q
      BY <1>1, <3>1, <3>3
    <3> QED
      BY <3>1, <3>2, <3>3, <3>4
  <2>4. 0 \in S
    BY <1>2, <2>1, <2>2
  <2> HIDE DEF S
  <2>5. \A k \in 0 .. n : k \in S
    BY <2>3, <2>4, Climb
  <2> QED
    BY <2>5 DEF S
<1> QED
  BY <1>7, <1>8 DEF Q

(* The chunks that the directory lists, and the fields a repetition keeps. *)
LEMMA RecordsPick ==
  ASSUME NEW b, Len(b.wire) \in Nat, NEW R, \A k \in 1 .. Len(b.wire) : b.wire[k] \in R
  PROVE  Records(b) \in Seq(R)
<1> DEFINE s == b.wire
           n == Len(s)
           Z == {k \in 1 .. n : HasCodec(s[k])}
           Is(f) == f = [k \in 0 .. n |-> IF k = 0 THEN <<>>
                                          ELSE IF HasCodec(s[k]) THEN Append(f[k - 1], s[k]) ELSE f[k - 1]]
           U == CHOOSE f : Is(f)
<1>1. ASSUME NEW f PROVE Is(f) <=> Picks(f, n, s, Z)
  BY SMTT(30) DEF Picks
<1>2. Records(b) = U[n]
  BY Zenon DEF Records, Chosen
<1> HIDE DEF Is, Z
<1>3. (\E f : Is(f)) /\ \A f : Is(f) => f[n] \in Seq(R)
  BY <1>1, PicksExist
<1>4. Is(U)
  BY <1>3, Zenon
<1> QED
  BY <1>2, <1>3, <1>4

LEMMA FieldsPick ==
  ASSUME NEW s, Len(s) \in Nat, NEW codes
  PROVE  Len(OfCodes(s, codes)) \in Nat
<1> DEFINE n == Len(s)
           R == {s[k] : k \in 1 .. n}
           Z == {k \in 1 .. n : s[k].code \in codes}
           Is(f) == f = [k \in 0 .. n |-> IF k = 0 THEN <<>>
                                          ELSE IF s[k].code \in codes THEN Append(f[k - 1], s[k]) ELSE f[k - 1]]
           U == CHOOSE f : Is(f)
<1>1. ASSUME NEW f PROVE Is(f) <=> Picks(f, n, s, Z)
  BY DEF Picks
<1>2. OfCodes(s, codes) = U[n]
  BY Zenon DEF OfCodes, Chosen
<1>3. \A k \in 1 .. n : s[k] \in R
  OBVIOUS
<1> HIDE DEF Is, Z, R
<1>4. (\E f : Is(f)) /\ \A f : Is(f) => f[n] \in Seq(R)
  BY <1>1, <1>3, PicksExist
<1>5. Is(U)
  BY <1>4, Zenon
<1> QED
  BY <1>2, <1>4, <1>5

-----------------------------------------------------------------------------
(* Chunks and the box. *)

(* What holds of every chunk that is queued. *)
Chunk(c) ==
  /\ DOMAIN c = DOMAIN Plain
  /\ Len(c.refs) \in Nat /\ Len(c.text) \in Nat
  /\ Body(c) \in Nat

LEMMA LengthIsNat ==
  ASSUME NEW c, Chunk(c)
  PROVE  Header(c) \in Nat /\ Length(c) \in Nat
<1>1. SumOf(PointerBytes, c.refs) \in Nat
  BY PointersSum DEF Chunk
<1>2. Width(c.declared) \in Nat /\ Width(HeadBytes(c) + Body(c)) \in Nat
  BY WidthIsNat
<1>3. HeadBytes(c) \in Nat
  BY <1>1, <1>2 DEF HeadBytes
<1>4. Header(c) \in Nat
  BY <1>2, <1>3 DEF Header
<1> QED
  BY <1>4 DEF Length, Chunk

(* The length of a chunk does not depend on where it is. *)
LEMMA ChunkPlaced ==
  ASSUME NEW c, Chunk(c), NEW a
  PROVE  Chunk([c EXCEPT !.at = a])
<1> DEFINE q == [c EXCEPT !.at = a]
<1>1. DOMAIN q = DOMAIN Plain
  BY DEF Chunk
<1>2. /\ q.refs = c.refs /\ q.text = c.text /\ q.kind = c.kind /\ q.ptr = c.ptr
      /\ q.entries = c.entries /\ q.size = c.size /\ q.dir = c.dir /\ q.coded = c.coded
  BY DEF Chunk, Plain
<1> HIDE DEF q
<1>3. Body(q) = Body(c)
  BY <1>2 DEF Body
<1> QED
  BY <1>1, <1>2, <1>3 DEF Chunk, q

LEMMA OrdinaryChunk ==
  ASSUME NEW c, DOMAIN c = DOMAIN Plain, Len(c.refs) \in Nat, Len(c.text) \in Nat,
         c.kind \notin {"directory", "footer"}, c.coded \in Nat
  PROVE  Chunk(c)
  BY DEF Chunk, Body

LEMMA FooterIsChunk == ASSUME NEW at, NEW size, NEW dir PROVE Chunk(FooterChunk(at, size, dir))
<1> DEFINE c == FooterChunk(at, size, dir)
<1>1. DOMAIN c = DOMAIN Plain /\ c.kind = "footer" /\ c.refs = <<>> /\ c.text = <<>>
  BY DEF FooterChunk, Plain
<1> HIDE DEF c
<1>2. Body(c) = Width(c.size) + Width(c.dir)
  BY <1>1 DEF Body
<1>3. Body(c) \in Nat
  BY <1>2, WidthIsNat
<1> QED
  BY <1>1, <1>3 DEF Chunk, c

Wire(w) == w \in Seq({w[k] : k \in 1 .. Len(w)}) /\ \A k \in 1 .. Len(w) : Chunk(w[k])

LEMMA WireGrows ==
  ASSUME NEW w, Wire(w), NEW c, Chunk(c)
  PROVE  Wire(Append(w, c))
<1> DEFINE R == {w[k] : k \in 1 .. Len(w)}
           S == R \cup {c}
           v == Append(w, c)
           P == {v[k] : k \in 1 .. Len(v)}
<1>1. w \in Seq(S) /\ c \in S
  BY DEF Wire
<1> HIDE DEF S, R
<1>2. v \in Seq(S) /\ Len(v) = Len(w) + 1 /\ Len(w) \in Nat
  BY <1>1
<1>3. (\A k \in 1 .. Len(w) : v[k] = w[k]) /\ v[Len(w) + 1] = c
  BY <1>1
<1> HIDE DEF v
<1>4. \A k \in 1 .. Len(v) : Chunk(v[k])
  BY <1>2, <1>3 DEF Wire
<1>5. v \in Seq(P)
  <2>1. v \in [1 .. Len(v) -> P]
    BY <1>2
  <2> HIDE DEF P
  <2> QED
    BY <1>2, <2>1
<1> QED
  BY <1>4, <1>5 DEF Wire, v

BoxInv(b) ==
  /\ DOMAIN b = DOMAIN Empty
  /\ b.pending \in Nat /\ b.offset \in Nat /\ b.resources \in Nat /\ b.cursor \in Nat \ {0}
  /\ Wire(b.wire)

LEMMA QueueHolds ==
  ASSUME NEW b, BoxInv(b), NEW c, Chunk(c)
  PROVE  LET g == Queue(b, c)
         IN  /\ BoxInv(g) /\ g.offset = b.offset + g.pending
             /\ g.active = b.active /\ g.finished = b.finished
<1> DEFINE q == [c EXCEPT !.at = b.offset]
           g == Queue(b, c)
<1>1. Chunk(q)
  BY ChunkPlaced
<1>2. Length(q) \in Nat
  BY <1>1, LengthIsNat
<1>3. Wire(Append(b.wire, q))
  BY <1>1, WireGrows DEF BoxInv
<1> HIDE DEF q
<1>4. /\ g.wire = Append(b.wire, q) /\ g.offset = b.offset + Length(q) /\ g.pending = Length(q)
      /\ DOMAIN g = DOMAIN Empty /\ g.active = b.active /\ g.finished = b.finished
      /\ g.cursor = b.cursor /\ g.resources = b.resources
  BY DEF Queue, BoxInv, Empty, q
<1> HIDE DEF g
<1> QED
  BY <1>2, <1>3, <1>4 DEF BoxInv, g

LEMMA RecordsAre ==
  ASSUME NEW b, BoxInv(b)
  PROVE  /\ Len(Records(b)) \in Nat /\ DOMAIN Records(b) = 1 .. Len(Records(b))
         /\ \A i \in 1 .. Len(Records(b)) : Chunk(Records(b)[i])
<1> DEFINE w == b.wire
           R == {w[k] : k \in 1 .. Len(w)}
<1>1. Len(w) \in Nat
  BY DEF BoxInv, Wire
<1>2. \A k \in 1 .. Len(w) : w[k] \in R
  OBVIOUS
<1>3. \A x \in R : Chunk(x)
  BY DEF BoxInv, Wire
<1> HIDE DEF R
<1>4. Records(b) \in Seq(R)
  BY <1>1, <1>2, RecordsPick
<1> QED
  BY <1>3, <1>4

LEMMA CopyIsChunk ==
  ASSUME NEW b, BoxInv(b), NEW i \in 1 .. Len(Records(b))
  PROVE  Chunk(CopyOf(Records(b)[i], b))
<1> DEFINE r == Records(b)[i]
           kept == IF b.all THEN r.text ELSE OfCodes(r.text, b.codes)
           c == CopyOf(r, b)
<1>1. Len(r.text) \in Nat
  BY RecordsAre DEF Chunk
<1>2. Len(kept) \in Nat
  BY <1>1, FieldsPick
<1> HIDE DEF r
<1>3. c = [Plain EXCEPT !.kind = "repeat", !.codec = "raw", !.of = r.kind,
             !.text = kept, !.coded = Len(kept), !.declared = Len(kept)]
  BY DEF CopyOf
<1> HIDE DEF kept, c
<1>4. DOMAIN c = DOMAIN Plain /\ c.kind = "repeat" /\ c.refs = <<>> /\ c.text = kept /\ c.coded = Len(kept)
  BY <1>3 DEF Plain
<1>5. Len(c.refs) \in Nat
  BY <1>4
<1>6. Chunk(c)
  BY <1>2, <1>4, <1>5, OrdinaryChunk
<1> QED
  BY <1>6 DEF c, r

LEMMA DirectoryIsChunk ==
  ASSUME NEW b, BoxInv(b)
  PROVE  Chunk(DirectoryChunk(b))
<1> DEFINE s == Records(b)
           e == [i \in DOMAIN s |-> Entry(s[i])]
           c == DirectoryChunk(b)
           R == {e[i] : i \in 1 .. Len(s)}
<1>1. Len(s) \in Nat /\ DOMAIN s = 1 .. Len(s) /\ \A i \in 1 .. Len(s) : Chunk(s[i])
  BY RecordsAre
<1>2. \A i \in 1 .. Len(s) : e[i].header \in Nat
  <2>1. ASSUME NEW i \in 1 .. Len(s) PROVE Header(s[i]) \in Nat /\ e[i] = Entry(s[i])
    BY <1>1, LengthIsNat
  <2> QED
    BY <2>1 DEF Entry
<1>3. DOMAIN c = DOMAIN Plain /\ c.kind = "directory" /\ c.entries = e /\ c.refs = <<>> /\ c.text = <<>>
  BY DEF DirectoryChunk, Plain
<1> HIDE DEF s, c
<1>4. e \in [1 .. Len(s) -> R]
  BY <1>1
<1> HIDE DEF e, R
<1>5. Len(e) \in Nat /\ Len(e) = Len(s)
  BY <1>1, <1>4
<1>6. SumOf(EntryBytes, c.entries) \in Nat
  BY <1>2, <1>3, <1>5, EntriesSum
<1>7. Body(c) = Width(c.ptr) + SumOf(EntryBytes, c.entries)
  BY <1>3 DEF Body
<1>8. Body(c) \in Nat
  BY <1>6, <1>7, WidthIsNat
<1>9. Chunk(c)
  BY <1>3, <1>8 DEF Chunk
<1> QED
  BY <1>9 DEF c

(* A new box that goes on where the old one ended. *)
Extends(b, g) == BoxInv(g) /\ g.offset = b.offset + g.pending /\ g.active = b.active

(* Container::finish *)
LEMMA SuffixHolds ==
  ASSUME NEW b, BoxInv(b), b.pending = 0
  PROVE  Extends(b, Suffix(b))
<1>1. CASE ~setup.container
  <2>1. Suffix(b) = [b EXCEPT !.finished = TRUE]
    BY <1>1 DEF Suffix
  <2> QED
    BY <2>1 DEF Extends, BoxInv, Empty
<1>2. CASE setup.container /\ setup.repeat /\ Owed(b) # {}
  <2> DEFINE i == CHOOSE k \in Owed(b) : \A m \in Owed(b) : k <= m
             c == CopyOf(Records(b)[i], b)
             q == Queue(b, c)
  <2>1. Len(Records(b)) \in Nat /\ b.cursor \in Nat \ {0}
    BY RecordsAre DEF BoxInv
  <2>2. Owed(b) \subseteq Nat
    BY <2>1 DEF Owed
  <2>3. \E k \in Owed(b) : \A m \in Owed(b) : k <= m
    BY <1>2, <2>2, LeastNatural
  <2>4. i \in Owed(b)
    BY <2>3
  <2>5. i \in 1 .. Len(Records(b))
    BY <2>1, <2>4 DEF Owed
  <2>6. Suffix(b) = [q EXCEPT !.cursor = i + 1, !.repeatOffset = IF @ = 0 THEN b.offset ELSE @]
    BY <1>2 DEF Suffix
  <2> HIDE DEF i
  <2>7. Chunk(c)
    BY <2>5, CopyIsChunk
  <2> HIDE DEF c
  <2>8. BoxInv(q) /\ q.offset = b.offset + q.pending /\ q.active = b.active
    BY <2>7, QueueHolds
  <2> HIDE DEF q
  <2>9. i + 1 \in Nat \ {0}
    BY <2>1, <2>5
  <2> QED
    BY <2>6, <2>8, <2>9 DEF Extends, BoxInv, Empty
<1>3. CASE setup.container /\ ~(setup.repeat /\ Owed(b) # {}) /\ setup.directory /\ ~b.dirDone
  <2> DEFINE q == Queue(b, DirectoryChunk(b))
  <2>1. Suffix(b) = [q EXCEPT !.dirOffset = b.offset, !.dirDone = TRUE]
    BY <1>3 DEF Suffix
  <2>2. BoxInv(q) /\ q.offset = b.offset + q.pending /\ q.active = b.active
    BY DirectoryIsChunk, QueueHolds
  <2> HIDE DEF q
  <2> QED
    BY <2>1, <2>2 DEF Extends, BoxInv, Empty
<1>4. CASE setup.container /\ ~(setup.repeat /\ Owed(b) # {}) /\ ~(setup.directory /\ ~b.dirDone)
  <2> DEFINE q == Queue(b, FooterChunk(b.offset, FooterSize(b.offset, b.dirOffset), b.dirOffset))
  <2>1. Suffix(b) = [q EXCEPT !.finished = TRUE]
    BY <1>4 DEF Suffix
  <2>2. BoxInv(q) /\ q.offset = b.offset + q.pending /\ q.active = b.active
    BY FooterIsChunk, QueueHolds
  <2> HIDE DEF q
  <2> QED
    BY <2>1, <2>2 DEF Extends, BoxInv, Empty
<1> QED
  BY <1>1, <1>2, <1>3, <1>4

-----------------------------------------------------------------------------
(* The invariant of the writer.  What the container made is counted three   *)
(* times: what it queued, what the session handed out, what the sink took.  *)

JobInv ==
  /\ DOMAIN job = DOMAIN NoJob
  /\ job.held \in BOOLEAN /\ job.in \in Nat /\ Len(job.refs) \in Nat
  /\ job.input \in Seq(Nat \X Nat)

Outcomes == Statuses \cup {"none", "InvalidState", "Abandoned", "Invalid", "Limit"}
Calls ==
  [who : {"none", "engine", "resource"}, act : {"process", "flush", "finish"}, len : Nat,
   room : Nat, used : Nat, made : Nat, pc : {"output", "suffix", "pick"}]
EngineInv ==
  /\ op \in [failed : BOOLEAN, finishing : BOOLEAN, out : Nat]
  /\ call \in Calls
  /\ reply \in [status : Outcomes, used : Nat, made : Nat]

Operations == {"idle", "command", "flush", "finish", "write", "rflush", "rfinish"}
Requests == Commands \cup {[op |-> "select", codes |-> s.select] : s \in Scripts}
Asked    == Requests \cup {NoDoing.cmd}
Doings ==
  [what : Operations, cmd : Asked, len : Nat, pc : {"before", "called", "after"}, status : Outcomes]
Pipes ==
  [held : Nat, deferred : BOOLEAN, sunk : Nat, acked : Nat, faults : Nat, doing : Doings,
   ok : BOOLEAN, done : BOOLEAN]
PipeTypes == pipe \in Pipes

ClientTypes ==
  /\ script \in Scripts
  /\ todo \in [item : Nat \ {0}, pc : {"next", "asked", "resource", "stuck"}]

InCall == call.who # "none"
Called == pipe.doing.pc = "called"
What   == pipe.doing.what

(* Who calls whom. *)
Places ==
  /\ InCall => Called /\ call.made <= call.room
  /\ InCall /\ call.pc # "output" => box.pending = 0
  /\ call.who = "engine" => /\ What \in {"command", "flush", "finish"}
                            /\ What = "finish" => call.act = "finish"
  /\ call.who = "resource" => /\ What \in {"write", "rflush", "rfinish"} /\ job.held /\ call.used <= call.len
                              /\ What # "write" => call.len = 0
  /\ Called => pipe.held = 0 /\ ~ pipe.deferred /\ What # "idle"
  /\ What = "idle" => pipe.doing.pc = "before"
  /\ What = "command" => pipe.doing.cmd \in Requests
  /\ What \in {"command", "flush", "finish"} => ~ job.held

(* What the call in progress, or the last one, handed out and took. *)
OnTheWay == IF ~ Called THEN 0 ELSE IF InCall THEN call.made ELSE reply.made
Taken    == IF ~ Called THEN 0 ELSE IF InCall THEN call.used ELSE reply.used

(* Every byte is counted once. *)
Ledger ==
  /\ op.out + box.pending = box.offset
  /\ pipe.sunk + pipe.held + OnTheWay = op.out
  /\ job.held => pipe.acked + Taken = job.in
  /\ job.held /\ Called /\ ~ InCall /\ What # "write" => reply.used = 0

(* A finish that reports success is complete. *)
Whole(status) == status # "NeedsInput" /\ (status = "Finished" => IsFinished(box))
Answers ==
  /\ Called /\ ~ InCall /\ What = "finish" => Whole(reply.status)
  /\ pipe.doing.pc = "after" /\ ~ pipe.deferred =>
       /\ pipe.doing.status \in Statuses
       /\ What = "finish" => Whole(pipe.doing.status)

(* The client flushes and finishes after its last command, and then stops. *)
AtEnd == todo.pc = "next" /\ todo.item > Len(Orders)
Endings ==
  /\ What \in {"flush", "finish"} => AtEnd
  /\ pipe.done => AtEnd /\ What = "idle" /\ IsFinished(box) /\ pipe.held = 0

WriterInv ==
  /\ BoxInv(box) /\ JobInv /\ EngineInv /\ PipeTypes /\ ClientTypes
  /\ Places /\ Ledger /\ Answers /\ Endings

FrameInv == stage = "writer" => WriterInv

-----------------------------------------------------------------------------
(* The client. *)

LEMMA OrdersAreAsked ==
  ASSUME script \in Scripts
  PROVE  Len(Orders) \in Nat /\ \A i \in 1 .. Len(Orders) : Orders[i] \in Requests
<1>1. script.items \in Seq(Commands)
  BY ClientAssumption
<1>2. CASE script.select = {}
  <2>1. Orders = script.items
    BY <1>2 DEF Orders
  <2> QED
    BY <1>1, <2>1 DEF Requests
<1>3. CASE script.select # {}
  <2> DEFINE c == [op |-> "select", codes |-> script.select]
             s == script.items
  <2>1. Orders = <<c>> \o s
    BY <1>3 DEF Orders
  <2>2. c \in Requests /\ s \in Seq(Requests)
    BY <1>1 DEF Requests
  <2> HIDE DEF c, s
  <2>3. <<c>> \in Seq(Requests)
    BY <2>2
  <2>4. <<c>> \o s \in Seq(Requests)
    BY <2>2, <2>3
  <2> QED
    BY <2>1, <2>4
<1> QED
  BY <1>2, <1>3

LEMMA NoOneIsAsked ==
  /\ NoDoing \in Doings
  /\ \A what, cmd : [NoDoing EXCEPT !.what = what, !.cmd = cmd]
       = [what |-> what, cmd |-> cmd, len |-> 0, pc |-> "before", status |-> "none"]
  /\ \A what, len : [NoDoing EXCEPT !.what = what, !.len = len]
       = [what |-> what, cmd |-> NoDoing.cmd, len |-> len, pc |-> "before", status |-> "none"]
<1> DEFINE c == NoDoing.cmd
           d == NoDoing
<1>1. c \in Asked
  BY DEF Asked
<1>2. d = [what |-> "idle", cmd |-> c, len |-> 0, pc |-> "before", status |-> "none"]
  BY DEF NoDoing
<1>3. "idle" \in Operations
  BY DEF Operations
<1> HIDE DEF c, d
<1>4. d \in Doings
  BY <1>1, <1>2, <1>3 DEF Doings, Outcomes
<1>5. ASSUME NEW what, NEW cmd, NEW len
      PROVE  /\ [d EXCEPT !.what = what, !.cmd = cmd]
                  = [what |-> what, cmd |-> cmd, len |-> 0, pc |-> "before", status |-> "none"]
             /\ [d EXCEPT !.what = what, !.len = len]
                  = [what |-> what, cmd |-> c, len |-> len, pc |-> "before", status |-> "none"]
  <2> DEFINE e == [d EXCEPT !.what = what]
  <2>1. e = [what |-> what, cmd |-> c, len |-> 0, pc |-> "before", status |-> "none"]
    BY <1>2
  <2> HIDE DEF e
  <2>2. /\ [e EXCEPT !.cmd = cmd] = [what |-> what, cmd |-> cmd, len |-> 0, pc |-> "before", status |-> "none"]
        /\ [e EXCEPT !.len = len] = [what |-> what, cmd |-> c, len |-> len, pc |-> "before", status |-> "none"]
    BY <2>1
  <2> QED
    BY <2>2 DEF e
<1> QED
  BY <1>4, <1>5 DEF c, d

LEMMA FrameInit == Init /\ stage = "writer" => WriterInv
<1> SUFFICES ASSUME Init, stage = "writer" PROVE WriterInv
  OBVIOUS
<1>1. /\ script \in Scripts /\ todo = NoTodo /\ EncoderStart /\ WriterInit
  BY DEF Init
<1>2. BoxInv(box)
  <2>1. Wire(<<>>)
    BY DEF Wire
  <2>2. /\ DOMAIN box = DOMAIN Empty /\ box.pending = 5 /\ box.offset = 5 /\ box.resources = 0
        /\ box.cursor = 1 /\ box.wire = <<>>
    BY <1>1 DEF EncoderStart, Empty, Signature
  <2> QED
    BY <2>1, <2>2 DEF BoxInv
<1>3. JobInv /\ EngineInv
  <2>1. JobInv
    BY <1>1 DEF EncoderStart, JobInv, NoJob
  <2>2. EngineInv
    BY <1>1 DEF EncoderStart, EngineInv, Calls, NoCall, NoReply, Outcomes
  <2> QED
    BY <2>1, <2>2
<1>4. ClientTypes
  BY <1>1 DEF ClientTypes, NoTodo
<1>5. PipeTypes
  <2>1. NoDoing \in Doings
    BY NoOneIsAsked
  <2> QED
    BY <1>1, <2>1 DEF PipeTypes, Pipes, WriterInit
<1>6. /\ What = "idle" /\ pipe.doing.pc = "before" /\ call.who = "none" /\ ~ job.held /\ ~ pipe.done
      /\ pipe.sunk = 0 /\ pipe.held = 0 /\ op.out = 0 /\ box.pending = box.offset /\ box.offset = 5
  BY <1>1 DEF WriterInit, EncoderStart, NoDoing, NoCall, NoJob, Empty, Signature, What
<1>7. Places /\ Ledger
  BY <1>6 DEF Places, Ledger, InCall, Called, OnTheWay
<1>8. Answers /\ Endings
  BY <1>6 DEF Answers, Endings, Called
<1> QED
  BY <1>2, <1>3, <1>4, <1>5, <1>7, <1>8 DEF WriterInv

(* The client asks for an operation of the writer, or of the resource. *)
LEMMA Asking ==
  ASSUME WriterInv, UNCHANGED encoderVars, ClientTypes', Idling, call.who = "none",
         NEW d \in Doings, Doing(d), d.what # "idle", d.pc = "before",
         d.what = "command" => d.cmd \in Requests,
         d.what \in {"command", "flush", "finish"} => ~ job.held,
         d.what \in {"flush", "finish"} => AtEnd',
         ~ pipe.done
  PROVE  WriterInv'
<1>1. pipe' = [pipe EXCEPT !.doing = d]
  BY DEF Doing
<1>2. pipe.doing.pc = "before"
  BY DEF WriterInv, Places, Idling, What
<1>3. BoxInv(box') /\ JobInv' /\ EngineInv'
  BY DEF WriterInv, encoderVars, JobInv, EngineInv
<1>4. PipeTypes'
  BY <1>1 DEF WriterInv, PipeTypes, Pipes
<1>5. pipe'.doing.pc = "before" /\ What' = d.what /\ pipe'.held = pipe.held /\ pipe'.sunk = pipe.sunk
      /\ pipe'.acked = pipe.acked /\ pipe'.done = pipe.done /\ pipe'.doing.cmd = d.cmd
  BY <1>1 DEF WriterInv, PipeTypes, Pipes, What
<1>6. Places'
  BY <1>2, <1>5 DEF WriterInv, Places, InCall, Called, encoderVars, What
<1>7. Ledger'
  BY <1>2, <1>5 DEF WriterInv, Ledger, InCall, Called, OnTheWay, Taken, encoderVars
<1>8. Answers' /\ Endings'
  BY <1>5 DEF WriterInv, Answers, Endings, Called
<1> QED
  BY <1>3, <1>4, <1>6, <1>7, <1>8 DEF WriterInv

LEMMA CommandIsAsked ==
  ASSUME WriterInv, ClientCommands, script' = script
  PROVE  WriterInv'
<1> DEFINE d == [NoDoing EXCEPT !.what = "command", !.cmd = NextOrder]
<1>1. /\ todo.pc = "next" /\ todo.item <= Len(Orders) /\ todo' = [todo EXCEPT !.pc = "asked"]
      /\ Idling /\ ~ job.held /\ call.who = "none" /\ Doing(d) /\ UNCHANGED encoderVars
  BY DEF ClientCommands, WriterCalls
<1>2. todo.item \in Nat \ {0} /\ script \in Scripts /\ ClientTypes'
  BY <1>1 DEF WriterInv, ClientTypes
<1>3. Len(Orders) \in Nat /\ NextOrder \in Requests
  <2>1. Len(Orders) \in Nat
    BY <1>2, OrdersAreAsked
  <2>2. todo.item \in 1 .. Len(Orders)
    BY <1>1, <1>2, <2>1
  <2> QED
    BY <1>2, <2>1, <2>2, OrdersAreAsked DEF NextOrder
<1>4. d \in Doings /\ d.what = "command" /\ d.pc = "before" /\ d.cmd = NextOrder
  <2>1. d = [what |-> "command", cmd |-> NextOrder, len |-> 0, pc |-> "before", status |-> "none"]
    BY NoOneIsAsked
  <2> HIDE DEF d
  <2> QED
    BY <1>3, <2>1 DEF Doings, Operations, Asked, Outcomes
<1>5. ~ pipe.done
  BY <1>1, <1>2, <1>3 DEF WriterInv, Endings, AtEnd
<1> HIDE DEF d
<1> QED
  BY <1>1, <1>2, <1>3, <1>4, <1>5, Asking

LEMMA ClientMovesOn ==
  ASSUME ClientTypes, NEW i \in Nat \ {0}, todo' = [todo EXCEPT !.pc = "next", !.item = i], script' = script
  PROVE  ClientTypes'
<1> DEFINE e == [todo EXCEPT !.pc = "next"]
<1>1. e \in [item : Nat \ {0}, pc : {"next", "asked", "resource", "stuck"}]
  BY DEF ClientTypes
<1>2. todo' = [e EXCEPT !.item = i]
  OBVIOUS
<1> HIDE DEF e
<1>3. todo' \in [item : Nat \ {0}, pc : {"next", "asked", "resource", "stuck"}]
  BY <1>1, <1>2
<1> QED
  BY <1>3 DEF ClientTypes

LEMMA AnswerIsLearned ==
  ASSUME WriterInv, ClientLearns, script' = script
  PROVE  WriterInv'
<1>1. /\ todo.pc = "asked" /\ Idling /\ UNCHANGED <<encoderVars, pipe>>
  BY DEF ClientLearns
<1>2. ~ AtEnd
  BY <1>1 DEF AtEnd
<1>3. ClientTypes'
  <2>1. \/ todo' = [todo EXCEPT !.pc = "resource"]
        \/ todo' = [todo EXCEPT !.pc = "next", !.item = @ + 1]
        \/ todo' = [todo EXCEPT !.pc = "next"]
        \/ todo' = [todo EXCEPT !.pc = "stuck"]
    BY DEF ClientLearns
  <2>2. CASE todo' = [todo EXCEPT !.pc = "next", !.item = @ + 1]
    <3>1. todo' = [todo EXCEPT !.pc = "next", !.item = todo.item + 1]
      BY <2>2
    <3>2. todo.item + 1 \in Nat \ {0} /\ ClientTypes
      BY DEF WriterInv, ClientTypes
    <3> QED
      BY <3>1, <3>2, ClientMovesOn
  <2> QED
    BY <2>1, <2>2 DEF WriterInv, ClientTypes
<1>4. ~ pipe.done /\ What = "idle"
  BY <1>1, <1>2 DEF WriterInv, Endings, Idling, What
<1>5. BoxInv(box') /\ JobInv' /\ EngineInv' /\ PipeTypes'
  BY <1>1 DEF WriterInv, encoderVars, JobInv, EngineInv, PipeTypes
<1>6. Places' /\ Ledger' /\ Answers'
  BY <1>1 DEF WriterInv, encoderVars, Places, Ledger, Answers, InCall, Called, What, OnTheWay, Taken, Whole, IsFinished
<1>7. Endings'
  BY <1>1, <1>4 DEF Endings, What
<1> QED
  BY <1>3, <1>5, <1>6, <1>7 DEF WriterInv

LEMMA WriteIsAsked ==
  ASSUME WriterInv, ClientWrites, script' = script
  PROVE  WriterInv'
<1>1. todo.pc = "resource" /\ todo' = todo
  BY DEF ClientWrites
<1>2. PICK what \in {"write", "rflush", "rfinish"}, len \in Nat : ResourceWriterCalls(what, len)
  BY ClientAssumption DEF ClientWrites
<1> DEFINE d == [NoDoing EXCEPT !.what = what, !.len = len]
<1>3. Idling /\ call.who = "none" /\ Doing(d) /\ UNCHANGED encoderVars
  BY <1>2 DEF ResourceWriterCalls
<1>4. d \in Doings /\ d.what = what /\ d.pc = "before"
  <2>1. d = [what |-> what, cmd |-> NoDoing.cmd, len |-> len, pc |-> "before", status |-> "none"]
    BY NoOneIsAsked
  <2>2. NoDoing.cmd \in Asked
    BY DEF Asked
  <2> HIDE DEF d
  <2> QED
    BY <2>1, <2>2 DEF Doings, Operations, Outcomes
<1>5. ~ pipe.done /\ ClientTypes'
  BY <1>1 DEF WriterInv, Endings, AtEnd, ClientTypes
<1> HIDE DEF d
<1> QED
  BY <1>3, <1>4, <1>5, Asking

LEMMA FinishIsAsked ==
  ASSUME WriterInv, ClientFinishes, script' = script
  PROVE  WriterInv'
<1>1. AtEnd /\ todo' = todo /\ ~ pipe.done
  BY DEF ClientFinishes, AtEnd
<1>2. PICK what \in {"flush", "finish"} : WriterCalls(what, NoDoing.cmd)
  BY DEF ClientFinishes
<1> DEFINE d == [NoDoing EXCEPT !.what = what, !.cmd = NoDoing.cmd]
<1>3. Idling /\ ~ job.held /\ call.who = "none" /\ Doing(d) /\ UNCHANGED encoderVars
  BY <1>2 DEF WriterCalls
<1>4. d \in Doings /\ d.what = what /\ d.pc = "before"
  <2>1. d = [what |-> what, cmd |-> NoDoing.cmd, len |-> 0, pc |-> "before", status |-> "none"]
    BY NoOneIsAsked
  <2>2. NoDoing.cmd \in Asked
    BY DEF Asked
  <2> HIDE DEF d
  <2> QED
    BY <2>1, <2>2 DEF Doings, Operations, Outcomes
<1>5. ClientTypes' /\ AtEnd'
  BY <1>1 DEF WriterInv, AtEnd, ClientTypes, Orders
<1> HIDE DEF d
<1> QED
  BY <1>1, <1>3, <1>4, <1>5, Asking

LEMMA ResourceIsClosed ==
  ASSUME WriterInv, ClientCloses, script' = script
  PROVE  WriterInv'
<1>1. /\ todo.pc = "resource" /\ Idling /\ job' = NoJob /\ call.who = "none"
      /\ UNCHANGED <<setup, box, op, call, reply, pipe>>
      /\ todo' = [todo EXCEPT !.pc = "next", !.item = IF job.done THEN @ + 1 ELSE @]
  BY DEF ClientCloses, ResourceWriterDrops, DropResource
<1>2. ~ AtEnd /\ What = "idle" /\ ~ job'.held
  BY <1>1 DEF AtEnd, NoJob, Idling, What
<1>3. ~ pipe.done /\ ~ Called
  BY <1>2 DEF WriterInv, Endings, Places, Called
<1>4. BoxInv(box') /\ EngineInv' /\ PipeTypes'
  BY <1>1 DEF WriterInv, EngineInv, PipeTypes
<1>5. JobInv'
  BY <1>1 DEF JobInv, NoJob
<1>6. ClientTypes'
  <2>1. todo.item \in Nat \ {0} /\ todo.item + 1 \in Nat \ {0} /\ ClientTypes
    BY DEF WriterInv, ClientTypes
  <2>2. PICK i \in {todo.item, todo.item + 1} : todo' = [todo EXCEPT !.pc = "next", !.item = i]
    BY <1>1
  <2> QED
    BY <2>1, <2>2, ClientMovesOn
<1>7. What' = "idle" /\ ~ Called' /\ ~ InCall' /\ ~ pipe'.done /\ pipe'.doing.pc = "before"
  BY <1>1, <1>2, <1>3 DEF What, Called, InCall, WriterInv, Places
<1>8. Places'
  BY <1>1, <1>7 DEF WriterInv, Places, InCall
<1>9. Ledger'
  BY <1>1, <1>2, <1>3, <1>7 DEF WriterInv, Ledger, OnTheWay
<1>10. Answers' /\ Endings'
  BY <1>7 DEF Answers, Endings
<1> QED
  BY <1>4, <1>5, <1>6, <1>8, <1>9, <1>10 DEF WriterInv

-----------------------------------------------------------------------------
(* The transport. *)

(* An operation ends, with the transport p. *)
LEMMA OperationEnds ==
  ASSUME WriterInv, UNCHANGED <<script, todo, op, call, reply>>, call.who = "none",
         NEW p \in Pipes, NEW ok \in BOOLEAN, pipe' = End(p, ok),
         BoxInv(box'), JobInv', op.out + box'.pending = box'.offset,
         p.sunk + p.held = op.out, job'.held => p.acked = job'.in,
         p.done => AtEnd /\ IsFinished(box') /\ p.held = 0
  PROVE  WriterInv'
<1> DEFINE e == [p EXCEPT !.doing = NoDoing]
<1>1. NoDoing \in Doings /\ NoDoing.what = "idle" /\ NoDoing.pc = "before"
  BY NoOneIsAsked DEF NoDoing
<1>2. pipe' = [e EXCEPT !.ok = ok]
  BY DEF End
<1>3. /\ e \in Pipes /\ e.doing = NoDoing /\ e.held = p.held /\ e.sunk = p.sunk /\ e.acked = p.acked
      /\ e.done = p.done
  BY <1>1 DEF Pipes
<1> HIDE DEF e
<1>4. /\ pipe' \in Pipes /\ pipe'.doing = NoDoing /\ pipe'.held = p.held /\ pipe'.sunk = p.sunk
      /\ pipe'.acked = p.acked /\ pipe'.done = p.done
  BY <1>2, <1>3 DEF Pipes
<1>5. What' = "idle" /\ pipe'.doing.pc = "before" /\ ~ InCall' /\ ~ Called'
  BY <1>1, <1>4 DEF What, InCall, Called
<1>6. EngineInv' /\ ClientTypes' /\ PipeTypes'
  BY <1>4 DEF WriterInv, EngineInv, ClientTypes, PipeTypes
<1>7. Places'
  BY <1>5 DEF Places, InCall
<1>8. Ledger'
  BY <1>4, <1>5 DEF WriterInv, PipeTypes, Pipes, Ledger, OnTheWay, Taken, JobInv
<1>9. Answers' /\ Endings'
  BY <1>4, <1>5 DEF Answers, Endings, AtEnd, Orders, IsFinished
<1> QED
  BY <1>6, <1>7, <1>8, <1>9 DEF WriterInv

(* The same when the encoder is left alone. *)
LEMMA OperationStops ==
  ASSUME WriterInv, UNCHANGED <<script, todo, encoderVars>>, call.who = "none", ~ Idling,
         NEW p \in Pipes, NEW ok \in BOOLEAN, pipe' = End(p, ok),
         p.sunk + p.held = op.out, job.held => p.acked = job.in, p.done = pipe.done
  PROVE  WriterInv'
<1>1. ~ p.done
  BY DEF WriterInv, Endings, Idling, What
<1>2. BoxInv(box') /\ JobInv' /\ UNCHANGED <<op, call, reply>> /\ job' = job
  BY DEF WriterInv, encoderVars, JobInv
<1>3. op.out + box'.pending = box'.offset
  BY DEF WriterInv, Ledger, encoderVars
<1> QED
  BY <1>1, <1>2, <1>3, OperationEnds

(* Outside of a call of the session the transport has what was handed out. *)
LEMMA Between ==
  ASSUME WriterInv, ~ Called
  PROVE  call.who = "none" /\ pipe.sunk + pipe.held = op.out /\ (job.held => pipe.acked = job.in)
<1>1. pipe.sunk \in Nat /\ pipe.held \in Nat /\ pipe.acked \in Nat
  BY DEF WriterInv, PipeTypes, Pipes
<1> QED
  BY <1>1 DEF WriterInv, Places, Ledger, InCall, OnTheWay, Taken

LEMMA SinkIsServedOnce ==
  ASSUME WriterInv, UNCHANGED <<script, todo>>, NEW n \in Nat, SinkTakes(n)
  PROVE  WriterInv'
<1>1. /\ n \in 1 .. pipe.held /\ ~ Called /\ ~ Idling /\ UNCHANGED encoderVars
      /\ pipe' = [pipe EXCEPT !.held = pipe.held - n, !.sunk = pipe.sunk + n]
  BY DEF SinkTakes, Called
<1>2. pipe \in Pipes /\ pipe.held - n \in Nat /\ pipe.sunk + n \in Nat
  BY <1>1 DEF WriterInv, PipeTypes, Pipes
<1> DEFINE e == [pipe EXCEPT !.held = pipe.held - n]
<1>3. /\ e \in Pipes /\ e.held = pipe.held - n /\ e.sunk = pipe.sunk /\ e.acked = pipe.acked /\ e.done = pipe.done
      /\ e.doing = pipe.doing /\ e.deferred = pipe.deferred
  BY <1>2 DEF Pipes
<1>4. pipe' = [e EXCEPT !.sunk = pipe.sunk + n]
  BY <1>1
<1> HIDE DEF e
<1>5. /\ pipe' \in Pipes /\ pipe'.held = pipe.held - n /\ pipe'.sunk = pipe.sunk + n /\ pipe'.acked = pipe.acked
      /\ pipe'.done = pipe.done /\ pipe'.doing = pipe.doing /\ pipe'.deferred = pipe.deferred
  BY <1>2, <1>3, <1>4 DEF Pipes
<1>6. pipe.sunk + pipe.held = op.out /\ call.who = "none" /\ (job.held => pipe.acked = job.in) /\ ~ pipe.done
  BY <1>1, Between DEF WriterInv, Endings, Idling, What
<1>7. What' = What /\ ~ Called' /\ ~ InCall'
  BY <1>1, <1>5, <1>6 DEF What, Called, InCall, encoderVars
<1>8. BoxInv(box') /\ JobInv' /\ EngineInv' /\ ClientTypes' /\ PipeTypes'
  BY <1>1, <1>5 DEF WriterInv, encoderVars, JobInv, EngineInv, ClientTypes, PipeTypes
<1>9. Places'
  BY <1>1, <1>5, <1>7 DEF WriterInv, Places, InCall, encoderVars
<1>10. Ledger'
  BY <1>1, <1>2, <1>5, <1>6, <1>7 DEF WriterInv, PipeTypes, Pipes, Ledger, OnTheWay, Taken, encoderVars
<1>11. Answers'
  BY <1>1, <1>5, <1>7 DEF WriterInv, Answers, Whole, IsFinished, encoderVars
<1>12. Endings'
  BY <1>1, <1>5, <1>6, <1>7 DEF WriterInv, Endings, AtEnd, Orders
<1> QED
  BY <1>8, <1>9, <1>10, <1>11, <1>12 DEF WriterInv

LEMMA SinkMayFail ==
  ASSUME WriterInv, UNCHANGED <<script, todo>>, SinkFails \/ SinkFlushFails
  PROVE  WriterInv'
<1> DEFINE p == [pipe EXCEPT !.faults = pipe.faults + 1]
<1>1. ~ Called /\ ~ Idling /\ UNCHANGED encoderVars /\ pipe' = End(p, FALSE)
  BY DEF SinkFails, SinkFlushFails, Completed, Drained, Called
<1>2. p \in Pipes /\ p.sunk = pipe.sunk /\ p.held = pipe.held /\ p.acked = pipe.acked /\ p.done = pipe.done
  BY DEF WriterInv, PipeTypes, Pipes
<1> HIDE DEF p
<1> QED
  BY <1>1, <1>2, Between, OperationStops

LEMMA ErrorIsToldLater ==
  ASSUME WriterInv, UNCHANGED <<script, todo>>, Deferred
  PROVE  WriterInv'
<1> DEFINE p == [pipe EXCEPT !.deferred = FALSE]
<1>1. ~ Called /\ ~ Idling /\ UNCHANGED encoderVars /\ pipe' = End(p, FALSE)
  BY DEF Deferred, Called
<1>2. p \in Pipes /\ p.sunk = pipe.sunk /\ p.held = pipe.held /\ p.acked = pipe.acked /\ p.done = pipe.done
  BY DEF WriterInv, PipeTypes, Pipes
<1> HIDE DEF p
<1> QED
  BY <1>1, <1>2, Between, OperationStops

LEMMA SessionIsAskedAgain ==
  ASSUME WriterInv, UNCHANGED <<script, todo>>, PipeLoops
  PROVE  WriterInv'
<1> DEFINE d == [pipe.doing EXCEPT !.pc = "before"]
<1>1. /\ ~ Called /\ ~ Idling /\ UNCHANGED encoderVars /\ pipe' = [pipe EXCEPT !.doing = d]
      /\ pipe.doing.pc = "after"
  BY DEF PipeLoops, Drained, Doing, Called
<1>2. d \in Doings /\ d.what = What /\ d.pc = "before" /\ d.cmd = pipe.doing.cmd
  BY DEF WriterInv, PipeTypes, Pipes, Doings, What
<1> HIDE DEF d
<1>3. /\ pipe' \in Pipes /\ pipe'.held = pipe.held /\ pipe'.sunk = pipe.sunk /\ pipe'.acked = pipe.acked
      /\ pipe'.done = pipe.done /\ pipe'.doing = d
  BY <1>1, <1>2 DEF WriterInv, PipeTypes, Pipes
<1>4. call.who = "none" /\ pipe.sunk + pipe.held = op.out /\ (job.held => pipe.acked = job.in) /\ ~ pipe.done
  BY <1>1, Between DEF WriterInv, Endings, Idling, What
<1>5. What' = What /\ ~ Called' /\ ~ InCall' /\ pipe'.doing.pc = "before"
  BY <1>1, <1>2, <1>3, <1>4 DEF What, Called, InCall, encoderVars
<1>6. BoxInv(box') /\ JobInv' /\ EngineInv' /\ ClientTypes' /\ PipeTypes'
  BY <1>1, <1>3 DEF WriterInv, encoderVars, JobInv, EngineInv, ClientTypes, PipeTypes
<1>7. Places'
  BY <1>1, <1>2, <1>3, <1>5 DEF WriterInv, Places, encoderVars
<1>8. Ledger'
  BY <1>1, <1>3, <1>4, <1>5 DEF WriterInv, PipeTypes, Pipes, Ledger, OnTheWay, Taken, encoderVars
<1>9. Answers' /\ Endings'
  BY <1>1, <1>3, <1>4, <1>5 DEF WriterInv, Answers, Endings, AtEnd, Orders
<1> QED
  BY <1>6, <1>7, <1>8, <1>9 DEF WriterInv

(* The session has returned. *)
LEMMA AnswerIsKept ==
  ASSUME WriterInv, UNCHANGED <<script, todo>>, PipeReturns
  PROVE  WriterInv'
<1> DEFINE h == [pipe EXCEPT !.held = reply.made]
           failed == reply.status \notin Statuses
<1>1. Called /\ ~ InCall /\ ~ Idling /\ UNCHANGED encoderVars /\ call.who = "none"
  BY DEF PipeReturns, Called, InCall, WriterInv, Places, Idling, What
<1>2. /\ pipe \in Pipes /\ pipe.doing \in Doings /\ reply.made \in Nat /\ reply.used \in Nat
      /\ reply.status \in Outcomes /\ pipe.acked \in Nat
  BY DEF WriterInv, PipeTypes, Pipes, EngineInv
<1>3. /\ pipe.held = 0 /\ pipe.sunk + reply.made = op.out /\ ~ pipe.deferred /\ ~ pipe.done
      /\ job.held => pipe.acked + reply.used = job.in
      /\ job.held /\ What # "write" => reply.used = 0
  BY <1>1, <1>2 DEF WriterInv, Places, Ledger, Endings, OnTheWay, Taken, Idling, What, Pipes
<1>4. /\ h \in Pipes /\ h.held = reply.made /\ h.sunk = pipe.sunk /\ h.acked = pipe.acked
      /\ h.done = pipe.done /\ h.doing = pipe.doing /\ h.deferred = pipe.deferred
  BY <1>2 DEF Pipes
<1>5. failed \in BOOLEAN
  OBVIOUS
<1>6. pipe' = IF pipe.doing.what = "write"
              THEN IF reply.used > 0 THEN End([h EXCEPT !.acked = @ + reply.used, !.deferred = failed], TRUE)
                   ELSE IF failed THEN End(h, FALSE)
                   ELSE [h EXCEPT !.doing.pc = "before"]
              ELSE [h EXCEPT !.deferred = failed, !.doing.pc = "after", !.doing.status = reply.status]
  BY DEF PipeReturns
<1> HIDE DEF h, failed
<1>7. CASE What = "write" /\ reply.used > 0
  <2> DEFINE e == [h EXCEPT !.acked = h.acked + reply.used]
             p == [e EXCEPT !.deferred = failed]
  <2>1. pipe' = End(p, TRUE)
    BY <1>6, <1>7 DEF What
  <2>2. e \in Pipes /\ e.acked = h.acked + reply.used /\ e.sunk = h.sunk /\ e.held = h.held /\ e.done = h.done
    BY <1>2, <1>4 DEF Pipes
  <2> HIDE DEF e
  <2>3. p \in Pipes /\ p.acked = h.acked + reply.used /\ p.sunk = h.sunk /\ p.held = h.held /\ p.done = h.done
    BY <1>5, <2>2 DEF Pipes
  <2> HIDE DEF p
  <2> QED
    BY <1>1, <1>3, <1>4, <2>1, <2>3, OperationStops
<1>8. CASE What = "write" /\ ~ (reply.used > 0) /\ failed
  <2>1. pipe' = End(h, FALSE)
    BY <1>6, <1>8 DEF What
  <2>2. reply.used = 0
    BY <1>2, <1>8
  <2>3. h.sunk + h.held = op.out /\ (job.held => h.acked = job.in)
    BY <1>2, <1>3, <1>4, <2>2
  <2> QED
    BY <1>1, <1>4, <2>1, <2>3, OperationStops
<1>9. CASE (What = "write" /\ ~ (reply.used > 0) /\ ~ failed) \/ What # "write"
  <2>1. PICK d \in Doings, b \in BOOLEAN :
          /\ pipe' = [h EXCEPT !.deferred = b, !.doing = d]
          /\ d.what = What /\ d.cmd = pipe.doing.cmd /\ d.pc \in {"before", "after"}
          /\ d.pc = "after" => What # "write" /\ d.status = reply.status /\ b = failed
    <3>1. CASE What = "write" /\ ~ (reply.used > 0) /\ ~ failed
      <4> DEFINE d == [h.doing EXCEPT !.pc = "before"]
      <4>1. pipe' = [h EXCEPT !.doing = d]
        BY <1>6, <3>1 DEF What
      <4>2. d \in Doings /\ d.what = What /\ d.cmd = pipe.doing.cmd /\ d.pc = "before"
        BY <1>2, <1>4 DEF Doings, What
      <4> HIDE DEF d
      <4>3. pipe' = [h EXCEPT !.deferred = h.deferred, !.doing = d]
        BY <1>4, <4>1 DEF Pipes
      <4>4. h.deferred \in BOOLEAN
        BY <1>4 DEF Pipes
      <4> QED
        BY <4>2, <4>3, <4>4
    <3>2. CASE What # "write"
      <4> DEFINE e == [h EXCEPT !.deferred = failed]
                 d == [e.doing EXCEPT !.pc = "after"]
                 f == [d EXCEPT !.status = reply.status]
      <4>1. pipe' = [[e EXCEPT !.doing.pc = "after"] EXCEPT !.doing.status = reply.status]
        BY <1>6, <3>2 DEF What
      <4>2. e \in Pipes /\ e.doing = pipe.doing
        BY <1>4, <1>5 DEF Pipes
      <4> HIDE DEF e
      <4>3. d \in Doings /\ d.what = What /\ d.cmd = pipe.doing.cmd /\ d.pc = "after"
        BY <1>2, <4>2 DEF Doings, What
      <4>4. [e EXCEPT !.doing.pc = "after"] = [e EXCEPT !.doing = d]
        BY <4>2 DEF Pipes
      <4> HIDE DEF d
      <4>5. [[e EXCEPT !.doing = d] EXCEPT !.doing.status = reply.status] = [e EXCEPT !.doing = f]
        BY <4>2, <4>3 DEF Pipes, Doings
      <4>6. f \in Doings /\ f.what = What /\ f.cmd = pipe.doing.cmd /\ f.pc = "after" /\ f.status = reply.status
        BY <1>2, <4>3 DEF Doings
      <4> HIDE DEF f
      <4>7. pipe' = [h EXCEPT !.deferred = failed, !.doing = f]
        BY <4>1, <4>4, <4>5 DEF e
      <4> QED
        BY <1>5, <3>2, <4>6, <4>7
    <3> QED
      BY <1>9, <3>1, <3>2
  <2> DEFINE e == [h EXCEPT !.deferred = b]
  <2>2. e \in Pipes /\ e.held = h.held /\ e.sunk = h.sunk /\ e.acked = h.acked /\ e.done = h.done /\ e.deferred = b
    BY <1>4 DEF Pipes
  <2>3. pipe' = [e EXCEPT !.doing = d]
    BY <2>1
  <2> HIDE DEF e
  <2>4. /\ pipe' \in Pipes /\ pipe'.held = reply.made /\ pipe'.sunk = pipe.sunk /\ pipe'.acked = pipe.acked
        /\ ~ pipe'.done /\ pipe'.doing = d /\ pipe'.deferred = b
    BY <1>3, <1>4, <2>2, <2>3 DEF Pipes
  <2>5. What' = What /\ ~ Called' /\ ~ InCall' /\ pipe'.doing.pc = d.pc
    BY <1>1, <2>1, <2>4 DEF What, Called, InCall, encoderVars
  <2>6. BoxInv(box') /\ JobInv' /\ EngineInv' /\ ClientTypes' /\ PipeTypes'
    BY <1>1, <2>4 DEF WriterInv, encoderVars, JobInv, EngineInv, ClientTypes, PipeTypes
  <2>7. Places'
    BY <1>1, <2>1, <2>4, <2>5 DEF WriterInv, Places, encoderVars, Idling, What
  <2>8. Ledger'
    <3>1. job.held => pipe.acked = job.in
      BY <1>2, <1>3, <1>9
    <3> QED
      BY <1>1, <1>2, <1>3, <2>4, <2>5, <3>1 DEF WriterInv, Ledger, OnTheWay, Taken, encoderVars, JobInv, EngineInv
  <2>9. Answers'
    BY <1>1, <2>1, <2>4, <2>5 DEF WriterInv, Answers, Whole, IsFinished, encoderVars, failed
  <2>10. Endings'
    BY <1>1, <2>4, <2>5 DEF WriterInv, Endings, AtEnd, Orders
  <2> QED
    BY <2>6, <2>7, <2>8, <2>9, <2>10, SMTT(30) DEF WriterInv
<1> QED
  BY <1>7, <1>8, <1>9

-----------------------------------------------------------------------------
(* A command that is admitted. *)

LEMMA MetadataIsChunk ==
  ASSUME NEW cmd \in Commands, cmd.op = "metadata"
  PROVE  Chunk(MetadataChunk(cmd))
<1> DEFINE c == MetadataChunk(cmd)
           n == Len(cmd.fields) + (IF cmd.codec = "raw" THEN 0 ELSE 1)
<1>1. /\ cmd.kind \in {"metadata", "footerMeta", "global"} /\ Len(cmd.fields) \in Nat /\ Len(cmd.refs) \in Nat
  BY DEF Commands, Pointers
<1>2. n \in Nat
  <2>1. Len(cmd.fields) \in Nat /\ Len(cmd.fields) + 1 \in Nat
    BY <1>1
  <2>2. n \in {Len(cmd.fields) + 0, Len(cmd.fields) + 1}
    OBVIOUS
  <2> HIDE DEF n
  <2> QED
    BY <2>1, <2>2
<1>4. DOMAIN c = DOMAIN Plain /\ c.kind = cmd.kind /\ c.refs = cmd.refs /\ c.text = cmd.fields /\ c.coded = n
  BY DEF MetadataChunk, Plain
<1> HIDE DEF c, n
<1>5. Chunk(c)
  BY <1>1, <1>2, <1>4, OrdinaryChunk
<1> QED
  BY <1>5 DEF c

LEMMA PaddingIsChunk == ASSUME NEW n \in Nat PROVE Chunk([Plain EXCEPT !.coded = n])
<1> DEFINE c == [Plain EXCEPT !.coded = n]
<1>1. DOMAIN c = DOMAIN Plain /\ c.kind = "padding" /\ c.refs = <<>> /\ c.text = <<>> /\ c.coded = n
  BY DEF Plain
<1> HIDE DEF c
<1>2. Chunk(c)
  BY <1>1, OrdinaryChunk
<1> QED
  BY <1>2 DEF c

(* What a command leaves the box and the resource in. *)
LEMMA CommandHolds ==
  ASSUME BoxInv(box), JobInv, ~ job.held, op.out + box.pending = box.offset, op.out \in Nat,
         NEW cmd \in Requests, Execute(cmd)
  PROVE  /\ BoxInv(box') /\ JobInv' /\ UNCHANGED <<op, call, reply>>
         /\ op.out + box'.pending = box'.offset
         /\ job'.held => cmd.op = "resource" /\ job'.in = 0
<1>1. UNCHANGED <<op, call, reply>> /\ box.pending = 0 /\ box.offset = op.out
  BY DEF Execute, Can, Idle, BoxInv
<1>2. CASE cmd.op = "select"
  <2>1. box' = [box EXCEPT !.all = FALSE, !.codes = cmd.codes] /\ job' = job
    BY <1>2 DEF Execute
  <2>2. BoxInv(box') /\ box'.pending = box.pending /\ box'.offset = box.offset
    BY <2>1 DEF BoxInv, Empty
  <2> QED
    BY <1>1, <2>1, <2>2 DEF JobInv
<1>3. CASE cmd.op = "padding"
  <2> DEFINE c == [Plain EXCEPT !.coded = cmd.bytes]
  <2>1. box' = Queue(box, c) /\ job' = job /\ cmd.bytes \in Nat
    BY <1>3 DEF Execute, Requests, Commands
  <2>2. Chunk(c)
    BY <2>1, PaddingIsChunk
  <2> HIDE DEF c
  <2>3. BoxInv(box') /\ box'.offset = box.offset + box'.pending
    BY <2>1, <2>2, QueueHolds
  <2> QED
    BY <1>1, <2>1, <2>3 DEF JobInv
<1>4. CASE cmd.op = "metadata"
  <2> DEFINE q == Queue(box, MetadataChunk(cmd))
  <2>1. job' = job /\ box' = AfterMetadata(cmd) /\ cmd \in Commands
    BY <1>4 DEF Execute, Requests
  <2>2. box' = [q EXCEPT !.metaPending = (cmd.kind = "metadata"), !.after = FALSE]
    BY <2>1 DEF AfterMetadata
  <2>3. BoxInv(q) /\ q.offset = box.offset + q.pending
    BY <1>4, <2>1, MetadataIsChunk, QueueHolds
  <2> HIDE DEF q
  <2>4. BoxInv(box') /\ box'.pending = q.pending /\ box'.offset = q.offset
    BY <2>2, <2>3 DEF BoxInv, Empty
  <2> QED
    BY <1>1, <2>1, <2>3, <2>4 DEF JobInv
<1>5. CASE cmd.op = "resource"
  <2>1. box' = [box EXCEPT !.active = TRUE, !.after = FALSE, !.metaPending = FALSE] /\ job' = NewJob(cmd)
    BY <1>5 DEF Execute
  <2>2. BoxInv(box') /\ box'.pending = box.pending /\ box'.offset = box.offset
    BY <2>1 DEF BoxInv, Empty
  <2>3. Len(cmd.refs) \in Nat
    BY <1>5 DEF Requests, Commands, Pointers
  <2>4. DOMAIN job' = DOMAIN NoJob /\ job'.held /\ job'.in = 0 /\ job'.refs = cmd.refs /\ job'.input = <<>>
    BY <2>1 DEF NewJob, NoJob
  <2>5. JobInv'
    BY <2>3, <2>4 DEF JobInv
  <2> QED
    BY <1>1, <1>5, <2>2, <2>4, <2>5
<1> QED
  BY <1>2, <1>3, <1>4, <1>5 DEF Requests, Commands

LEMMA OperationIsDone ==
  ASSUME WriterInv, UNCHANGED <<script, todo>>, PipeDone
  PROVE  WriterInv'
<1> DEFINE admits == What = "command" /\ Can(pipe.doing.cmd)
           acked == IF What = "command" /\ pipe.doing.cmd.op = "resource" THEN 0 ELSE pipe.acked
           e == [pipe EXCEPT !.done = pipe.done \/ What = "finish"]
           p == [e EXCEPT !.acked = acked]
           ok == What = "command" => admits
<1>1. /\ ~ Called /\ ~ Idling /\ pipe.doing.pc = "after" /\ pipe.held = 0 /\ ~ pipe.deferred
      /\ pipe.doing.status # "NeedsOutput" /\ pipe' = End(p, ok)
      /\ IF admits THEN Execute(pipe.doing.cmd) ELSE UNCHANGED encoderVars
  BY DEF PipeDone, Completed, Drained, Called, What
<1>2. pipe \in Pipes /\ pipe.acked \in Nat /\ acked \in Nat /\ op.out \in Nat /\ pipe.done \in BOOLEAN
  BY DEF WriterInv, PipeTypes, Pipes, EngineInv
<1>3. /\ call.who = "none" /\ pipe.sunk + pipe.held = op.out /\ (job.held => pipe.acked = job.in) /\ ~ pipe.done
  BY <1>1, Between DEF WriterInv, Endings, Idling, What
<1>4. /\ e \in Pipes /\ e.sunk = pipe.sunk /\ e.held = pipe.held /\ e.done = (What = "finish")
  BY <1>2, <1>3 DEF Pipes
<1> HIDE DEF e
<1>5. /\ p \in Pipes /\ p.sunk = pipe.sunk /\ p.held = pipe.held /\ p.done = (What = "finish") /\ p.acked = acked
  BY <1>2, <1>4 DEF Pipes
<1> HIDE DEF p
<1>6. ok \in BOOLEAN
  OBVIOUS
<1> HIDE DEF ok
<1>7. CASE ~ admits
  <2>1. UNCHANGED encoderVars
    BY <1>1, <1>7
  <2>2. BoxInv(box') /\ JobInv' /\ UNCHANGED <<op, call, reply>> /\ job' = job /\ op.out + box'.pending = box'.offset
    BY <2>1 DEF WriterInv, encoderVars, JobInv, Ledger
  <2>3. job'.held => p.acked = job'.in
    BY <1>3, <1>5, <2>2 DEF WriterInv, Places
  <2>4. p.done => AtEnd /\ IsFinished(box') /\ p.held = 0
    BY <1>1, <1>5, <2>1 DEF WriterInv, Answers, Endings, Whole, Statuses, IsFinished, encoderVars
  <2> HIDE DEF admits
  <2> QED
    BY <1>1, <1>3, <1>5, <1>6, <2>2, <2>3, <2>4, OperationEnds
<1>8. CASE admits
  <2> DEFINE cmd == pipe.doing.cmd
  <2>1. Execute(cmd) /\ What = "command"
    BY <1>1, <1>8
  <2>2. cmd \in Requests /\ ~ job.held /\ BoxInv(box) /\ JobInv /\ op.out + box.pending = box.offset
    BY <2>1 DEF WriterInv, Places, Ledger
  <2>3. /\ BoxInv(box') /\ JobInv' /\ UNCHANGED <<op, call, reply>>
        /\ op.out + box'.pending = box'.offset
        /\ job'.held => cmd.op = "resource" /\ job'.in = 0
    BY <1>2, <2>1, <2>2, CommandHolds
  <2>4. job'.held => p.acked = job'.in
    BY <1>5, <2>1, <2>3
  <2>5. ~ p.done
    BY <1>5, <2>1
  <2> HIDE DEF admits, acked, cmd
  <2> QED
    BY <1>1, <1>3, <1>5, <1>6, <2>3, <2>4, <2>5, OperationEnds
<1> QED
  BY <1>7, <1>8

-----------------------------------------------------------------------------
(* The session is called. *)

(* A call that was made, or was answered at once, moves nothing. *)
LEMMA CallBegins ==
  ASSUME WriterInv, UNCHANGED <<script, todo, box>>, Drained, pipe.doing.pc = "before",
         pipe' = [pipe EXCEPT !.doing = [pipe.doing EXCEPT !.pc = "called"]],
         JobInv', EngineInv', op'.out = op.out, job'.held = job.held, job'.in = job.in,
         call'.used = 0, call'.made = 0, call'.pc = "output",
         ~ InCall' => reply'.used = 0 /\ reply'.made = 0 /\ (What = "finish" => Whole(reply'.status)),
         call'.who = "engine" => What \in {"command", "flush", "finish"} /\ (What = "finish" => call'.act = "finish"),
         call'.who = "resource" => /\ What \in {"write", "rflush", "rfinish"} /\ job.held
                                   /\ What # "write" => call'.len = 0
  PROVE  WriterInv'
<1> DEFINE d == [pipe.doing EXCEPT !.pc = "called"]
<1>1. /\ ~ Called /\ What # "idle" /\ pipe.held = 0 /\ ~ pipe.deferred
  BY DEF Drained, Idling, What, Called
<1>2. d \in Doings /\ d.what = What /\ d.pc = "called" /\ d.cmd = pipe.doing.cmd
  BY DEF WriterInv, PipeTypes, Pipes, Doings, What
<1>3. pipe' = [pipe EXCEPT !.doing = d]
  OBVIOUS
<1> HIDE DEF d
<1>4. /\ pipe' \in Pipes /\ pipe'.held = 0 /\ pipe'.sunk = pipe.sunk /\ pipe'.acked = pipe.acked
      /\ pipe'.done = pipe.done /\ ~ pipe'.deferred /\ pipe'.doing = d
  BY <1>1, <1>2, <1>3 DEF WriterInv, PipeTypes, Pipes
<1>5. pipe.sunk = op.out /\ (job.held => pipe.acked = job.in) /\ ~ pipe.done /\ pipe.sunk \in Nat /\ pipe.acked \in Nat
  BY <1>1, Between DEF WriterInv, Endings, PipeTypes, Pipes
<1>6. What' = What /\ Called' /\ pipe'.doing.pc = "called"
  BY <1>2, <1>4 DEF What, Called
<1>7. OnTheWay' = 0 /\ Taken' = 0
  BY <1>6 DEF OnTheWay, Taken
<1>8. BoxInv(box') /\ ClientTypes' /\ PipeTypes'
  BY <1>4 DEF WriterInv, ClientTypes, PipeTypes
<1>9. call'.room \in Nat /\ call'.len \in Nat /\ call'.who \in {"none", "engine", "resource"}
  BY DEF EngineInv, Calls
<1>10. Places'
  BY <1>1, <1>2, <1>4, <1>6, <1>9 DEF WriterInv, Places, InCall
<1>11. Ledger'
  BY <1>4, <1>5, <1>7 DEF WriterInv, Ledger
<1>12. Answers'
  BY <1>6 DEF Answers, Whole, IsFinished
<1>13. Endings'
  BY <1>4, <1>5, <1>6 DEF WriterInv, Endings, AtEnd, Orders
<1> QED
  BY <1>8, <1>10, <1>11, <1>12, <1>13 DEF WriterInv

(* A call before its first step, as the engine or a resource makes it. *)
OpenAs(c, who, act, len) ==
  \/ c = [NoCall EXCEPT !.who = who, !.act = act, !.len = len, !.room = PipeBytes]
  \/ c = [NoCall EXCEPT !.who = who, !.act = act, !.room = PipeBytes] /\ len = 0
Begun(c, who, act, len) ==
  /\ c \in Calls /\ c.who = who /\ c.act = act /\ c.len = len
  /\ c.used = 0 /\ c.made = 0 /\ c.pc = "output"

LEMMA CallIsOpen ==
  ASSUME NEW who \in {"engine", "resource"}, NEW act \in {"process", "flush", "finish"},
         NEW len \in Nat, NEW c, OpenAs(c, who, act, len)
  PROVE  Begun(c, who, act, len) /\ Begun([c EXCEPT !.who = "none"], "none", act, len)
<1> DEFINE Fresh(x) == x \in Calls /\ x.used = 0 /\ x.made = 0 /\ x.pc = "output"
           e == [NoCall EXCEPT !.who = who]
           f == [e EXCEPT !.act = act]
           g == [f EXCEPT !.len = len]
<1>1. Fresh(NoCall) /\ NoCall.len = 0
  BY DEF Calls, NoCall
<1>2. Fresh(e) /\ e.who = who /\ e.len = 0
  BY <1>1 DEF Calls
<1>3. c = [g EXCEPT !.room = PipeBytes] \/ (c = [f EXCEPT !.room = PipeBytes] /\ len = 0)
  BY DEF OpenAs
<1> HIDE DEF e
<1>4. Fresh(f) /\ f.who = who /\ f.act = act /\ f.len = 0
  BY <1>2 DEF Calls
<1> HIDE DEF f
<1>5. Fresh(g) /\ g.who = who /\ g.act = act /\ g.len = len
  BY <1>4 DEF Calls
<1> HIDE DEF g
<1>6. Fresh(c) /\ c.who = who /\ c.act = act /\ c.len = len
  BY <1>3, <1>4, <1>5, WriterAssumption DEF Calls
<1>7. LET n == [c EXCEPT !.who = "none"]
      IN  Fresh(n) /\ n.who = "none" /\ n.act = act /\ n.len = len
  BY <1>6 DEF Calls
<1> QED
  BY <1>6, <1>7 DEF Begun

LEMMA EngineIsCalled ==
  ASSUME WriterInv, UNCHANGED <<script, todo>>, Drained, pipe.doing.pc = "before", call.who = "none",
         pipe' = [pipe EXCEPT !.doing = [pipe.doing EXCEPT !.pc = "called"]],
         What \in {"command", "flush", "finish"},
         NEW act \in {"process", "finish"}, What = "finish" => act = "finish",
         EngineCall(act, PipeBytes)
  PROVE  WriterInv'
<1> DEFINE open == [NoCall EXCEPT !.who = "engine", !.act = act, !.room = PipeBytes]
           shut == [open EXCEPT !.who = "none"]
<1>1. UNCHANGED <<box, job>> /\ PipeBytes \in Nat
  BY WriterAssumption DEF EngineCall
<1>2. Begun(open, "engine", act, 0) /\ Begun(shut, "none", act, 0)
  <2> DEFINE c == open
  <2>1. shut = [c EXCEPT !.who = "none"]
    OBVIOUS
  <2>2. OpenAs(c, "engine", act, 0)
    BY DEF OpenAs
  <2> HIDE DEF c, shut
  <2>3. Begun(c, "engine", act, 0) /\ Begun([c EXCEPT !.who = "none"], "none", act, 0)
    BY <2>2, CallIsOpen
  <2> QED
    BY <2>1, <2>3 DEF c
<1>4. PICK status \in {"InvalidState", "Abandoned", "Finished", "open"} :
        /\ status = "open" => call' = open /\ reply' = reply
        /\ status # "open" => call' = shut /\ reply' = [status |-> status, used |-> call'.used, made |-> call'.made]
        /\ status = "Finished" => IsFinished(box)
  BY DEF EngineCall, Answer
<1>5. PICK failed \in BOOLEAN, finishing \in BOOLEAN :
        op' = op \/ op' = [op EXCEPT !.failed = failed] \/ op' = [op EXCEPT !.finishing = finishing]
  <2>1. op.finishing \in BOOLEAN
    BY DEF WriterInv, EngineInv
  <2>2. op' = op \/ op' = [op EXCEPT !.failed = TRUE] \/ op' = [op EXCEPT !.finishing = @ \/ act = "finish"]
    BY DEF EngineCall
  <2> DEFINE f == op.finishing \/ act = "finish"
  <2>3. op' = op \/ op' = [op EXCEPT !.failed = TRUE] \/ op' = [op EXCEPT !.finishing = f]
    BY <2>2
  <2>4. f \in BOOLEAN
    BY <2>1
  <2> HIDE DEF f
  <2> QED
    BY <2>3, <2>4
<1> HIDE DEF open, shut
<1>6. op' \in [failed : BOOLEAN, finishing : BOOLEAN, out : Nat] /\ op'.out = op.out
  BY <1>5 DEF WriterInv, EngineInv
<1>7. /\ call' \in Calls
      /\ call'.used = 0 /\ call'.made = 0 /\ call'.pc = "output" /\ call'.act = act /\ call'.who # "resource"
      /\ call'.who = "none" <=> status # "open"
  <2>1. CASE status = "open"
    BY <1>2, <1>4, <2>1 DEF Begun
  <2>2. CASE status # "open"
    BY <1>2, <1>4, <2>2 DEF Begun
  <2> QED
    BY <2>1, <2>2
<1>8. /\ reply' \in [status : Outcomes, used : Nat, made : Nat]
      /\ status # "open" => reply'.used = 0 /\ reply'.made = 0 /\ reply'.status = status
  <2>1. CASE status = "open"
    BY <1>4, <2>1 DEF WriterInv, EngineInv
  <2>2. CASE status # "open"
    BY <1>4, <1>7, <2>2 DEF Outcomes, Statuses
  <2> QED
    BY <2>1, <2>2
<1>9. EngineInv'
  BY <1>6, <1>7, <1>8 DEF EngineInv
<1>10. JobInv'
  BY <1>1 DEF WriterInv, JobInv
<1>11. ~ InCall' => reply'.used = 0 /\ reply'.made = 0 /\ Whole(reply'.status)
  BY <1>4, <1>7, <1>8 DEF InCall, Whole
<1> QED
  BY <1>1, <1>6, <1>7, <1>9, <1>10, <1>11, CallBegins

LEMMA ResourceIsCalled ==
  ASSUME WriterInv, UNCHANGED <<script, todo>>, Drained, pipe.doing.pc = "before", call.who = "none",
         pipe' = [pipe EXCEPT !.doing = [pipe.doing EXCEPT !.pc = "called"]],
         What \in {"write", "rflush", "rfinish"},
         NEW act \in {"process", "flush", "finish"}, NEW len \in Nat, What # "write" => len = 0,
         ResourceCall(len, PipeBytes, act)
  PROVE  WriterInv'
<1> DEFINE open == [NoCall EXCEPT !.who = "resource", !.act = act, !.len = len, !.room = PipeBytes]
           shut == [open EXCEPT !.who = "none"]
<1>1. UNCHANGED box /\ PipeBytes \in Nat /\ job.held
  BY WriterAssumption DEF ResourceCall
<1>2. Begun(open, "resource", act, len) /\ Begun(shut, "none", act, len)
  <2> DEFINE c == open
  <2>1. shut = [c EXCEPT !.who = "none"]
    OBVIOUS
  <2>2. OpenAs(c, "resource", act, len)
    BY DEF OpenAs
  <2> HIDE DEF c, shut
  <2>3. Begun(c, "resource", act, len) /\ Begun([c EXCEPT !.who = "none"], "none", act, len)
    BY <2>2, CallIsOpen
  <2> QED
    BY <2>1, <2>3 DEF c
<1>4. PICK status \in {"InvalidState", "Finished", "open"} :
        /\ status = "open" => call' = open /\ reply' = reply
        /\ status # "open" => call' = shut /\ reply' = [status |-> status, used |-> call'.used, made |-> call'.made]
  BY DEF ResourceCall, Answer
<1>5. op' = op \/ op' = [op EXCEPT !.failed = TRUE]
  BY DEF ResourceCall
<1>6. \E p : job' = job \/ job' = [job EXCEPT !.promise = p]
  <2> DEFINE q == IF act = "process" THEN job.promise ELSE <<act, job.in + len>>
  <2>1. job' = job \/ job' = [job EXCEPT !.promise = q]
    BY DEF ResourceCall
  <2> HIDE DEF q
  <2> QED
    BY <2>1
<1> HIDE DEF open, shut
<1>7. op' \in [failed : BOOLEAN, finishing : BOOLEAN, out : Nat] /\ op'.out = op.out
  BY <1>5 DEF WriterInv, EngineInv
<1>8. /\ call' \in Calls
      /\ call'.used = 0 /\ call'.made = 0 /\ call'.pc = "output" /\ call'.len = len /\ call'.who # "engine"
      /\ call'.who = "none" <=> status # "open"
  <2>1. CASE status = "open"
    BY <1>2, <1>4, <2>1 DEF Begun
  <2>2. CASE status # "open"
    BY <1>2, <1>4, <2>2 DEF Begun
  <2> QED
    BY <2>1, <2>2
<1>9. /\ reply' \in [status : Outcomes, used : Nat, made : Nat]
      /\ status # "open" => reply'.used = 0 /\ reply'.made = 0
  <2>1. CASE status = "open"
    BY <1>4, <2>1 DEF WriterInv, EngineInv
  <2>2. CASE status # "open"
    BY <1>4, <1>8, <2>2 DEF Outcomes, Statuses
  <2> QED
    BY <2>1, <2>2
<1>10. EngineInv'
  BY <1>7, <1>8, <1>9 DEF EngineInv
<1>11. JobInv' /\ job'.held = job.held /\ job'.in = job.in
  BY <1>6 DEF WriterInv, JobInv, NoJob
<1>12. ~ InCall' => reply'.used = 0 /\ reply'.made = 0
  BY <1>8, <1>9 DEF InCall
<1> QED
  BY <1>1, <1>7, <1>8, <1>10, <1>11, <1>12, CallBegins

LEMMA SessionIsCalled ==
  ASSUME WriterInv, UNCHANGED <<script, todo>>, PipeCalls
  PROVE  WriterInv'
<1>1. /\ Drained /\ pipe.doing.pc = "before" /\ call.who = "none"
      /\ pipe' = [pipe EXCEPT !.doing = [pipe.doing EXCEPT !.pc = "called"]]
  BY DEF PipeCalls, Doing
<1>2. What \in Operations \ {"idle"} /\ pipe.doing.len \in Nat
  BY <1>1 DEF WriterInv, PipeTypes, Pipes, Doings, Drained, Idling, What
<1>3. CASE What = "write"
  <2>1. ResourceCall(pipe.doing.len, PipeBytes, "process")
    BY <1>3 DEF PipeCalls, What
  <2> QED
    BY <1>1, <1>2, <1>3, <2>1, ResourceIsCalled
<1>4. CASE What = "rflush"
  <2>1. ResourceCall(0, PipeBytes, "flush")
    BY <1>4 DEF PipeCalls, What
  <2> QED
    BY <1>1, <1>2, <1>4, <2>1, ResourceIsCalled
<1>5. CASE What = "rfinish"
  <2>1. ResourceCall(0, PipeBytes, "finish")
    BY <1>5 DEF PipeCalls, What
  <2> QED
    BY <1>1, <1>2, <1>5, <2>1, ResourceIsCalled
<1>6. CASE What = "finish"
  <2>1. EngineCall("finish", PipeBytes)
    BY <1>6 DEF PipeCalls, What
  <2> QED
    BY <1>1, <1>6, <2>1, EngineIsCalled
<1>7. CASE What \in {"command", "flush"}
  <2>1. EngineCall("process", PipeBytes)
    BY <1>7 DEF PipeCalls, What
  <2> QED
    BY <1>1, <1>7, <2>1, EngineIsCalled
<1> QED
  BY <1>2, <1>3, <1>4, <1>5, <1>6, <1>7 DEF Operations

-----------------------------------------------------------------------------
(* The session works. *)

(* A step of a call that hands out n bytes and takes k. *)
LEMMA CallGoesOn ==
  ASSUME WriterInv, UNCHANGED <<script, todo, pipe>>, Called, InCall, NEW n \in Nat, NEW k \in Nat,
         BoxInv(box'), JobInv', EngineInv', job'.held = job.held,
         op'.out = op.out + n, op'.out + box'.pending = box'.offset, job.held => job'.in = job.in + k,
         InCall' => /\ call'.who = call.who /\ call'.act = call.act /\ call'.len = call.len
                    /\ call'.made = call.made + n /\ call'.used = call.used + k
                    /\ call'.made <= call'.room
                    /\ call.who = "resource" => call'.used <= call.len
                    /\ call'.pc # "output" => box'.pending = 0,
         ~ InCall' => /\ reply'.made = call.made + n /\ reply'.used = call.used /\ k = 0
                      /\ What = "finish" => Whole(reply.status)'
  PROVE  WriterInv'
<1>1. What' = What /\ Called'
  BY DEF What, Called
<1>2. pipe.held = 0 /\ pipe.sunk + call.made = op.out /\ (job.held => pipe.acked + call.used = job.in) /\ ~ pipe.done
  BY DEF WriterInv, Places, Ledger, Endings, OnTheWay, Taken, PipeTypes, Pipes, EngineInv, Calls
<1>3. /\ pipe.sunk \in Nat /\ pipe.acked \in Nat /\ op.out \in Nat /\ job.in \in Nat
      /\ call.made \in Nat /\ call.used \in Nat /\ call.len \in Nat
  BY DEF WriterInv, PipeTypes, Pipes, EngineInv, JobInv, Calls
<1>4. OnTheWay' = call.made + n /\ Taken' = call.used + k
  BY <1>1, <1>3 DEF OnTheWay, Taken
<1>5. ClientTypes' /\ PipeTypes'
  BY DEF WriterInv, ClientTypes, PipeTypes
<1>6. Places'
  BY <1>1 DEF WriterInv, Places, InCall
<1>7. job.held /\ What # "write" => call.used = 0
  BY <1>3 DEF WriterInv, Places, InCall, EngineInv, Calls
<1>8. Ledger'
  BY <1>1, <1>2, <1>3, <1>4, <1>7, SMTT(30) DEF Ledger
<1>9. Answers'
  BY <1>1 DEF Answers, Called
<1>10. Endings'
  BY <1>1, <1>2 DEF WriterInv, Endings, AtEnd, Orders
<1> QED
  BY <1>5, <1>6, <1>8, <1>9, <1>10 DEF WriterInv

(* Container::output hands out what there is room for. *)
LEMMA OutputFits ==
  ASSUME WriterInv, Called, InCall
  PROVE  /\ Handed \in Nat /\ Handed <= box.pending /\ call.made + Handed <= call.room
         /\ BoxInv([box EXCEPT !.pending = @ - Handed])
         /\ op.out + box.pending = box.offset /\ op.out \in Nat /\ call.made \in Nat /\ call.used \in Nat
<1>1. /\ box.pending \in Nat /\ call.made \in Nat /\ call.used \in Nat /\ call.room \in Nat
      /\ op.out \in Nat /\ call.made <= call.room
  BY DEF WriterInv, Places, BoxInv, EngineInv, Calls
<1>2. Handed \in Nat /\ Handed <= box.pending /\ call.made + Handed <= call.room
  BY <1>1 DEF Handed
<1>3. BoxInv([box EXCEPT !.pending = @ - Handed])
  BY <1>1, <1>2 DEF WriterInv, BoxInv, Empty
<1> QED
  BY <1>1, <1>2, <1>3 DEF WriterInv, Ledger

(* A call that goes on, or returns. *)
MadeTo(c, m, pc) == c = [call EXCEPT !.made = m, !.pc = pc]
UsedTo(c, u, pc) == c = [call EXCEPT !.used = u, !.pc = pc]
MadeLast(c, m)   == c = [call EXCEPT !.made = m, !.who = "none"]
OnAt(c, m, u, pc) ==
  /\ c \in Calls /\ c.who = call.who /\ c.act = call.act /\ c.len = call.len /\ c.room = call.room
  /\ c.used = u /\ c.made = m /\ c.pc = pc
OverAt(c, m) == c \in Calls /\ c.who = "none" /\ c.used = call.used /\ c.made = m

LEMMA CallIs ==
  ASSUME EngineInv, NEW pc \in {"output", "suffix", "pick"}, NEW m \in Nat, NEW c
  PROVE  /\ MadeTo(c, m, pc) => OnAt(c, m, call.used, pc)
         /\ UsedTo(c, m, pc) => OnAt(c, call.made, m, pc)
         /\ MadeLast(c, m) => OverAt(c, m)
<1> DEFINE e == [call EXCEPT !.made = m]
           f == [call EXCEPT !.used = m]
<1>1. /\ e \in Calls /\ e.who = call.who /\ e.act = call.act /\ e.len = call.len /\ e.room = call.room
      /\ e.used = call.used /\ e.made = m
  BY DEF EngineInv, Calls
<1>2. /\ f \in Calls /\ f.who = call.who /\ f.act = call.act /\ f.len = call.len /\ f.room = call.room
      /\ f.used = m /\ f.made = call.made
  BY DEF EngineInv, Calls
<1>3. /\ MadeTo(c, m, pc) => c = [e EXCEPT !.pc = pc]
      /\ UsedTo(c, m, pc) => c = [f EXCEPT !.pc = pc]
      /\ MadeLast(c, m) => c = [e EXCEPT !.who = "none"]
  BY DEF MadeTo, UsedTo, MadeLast
<1> HIDE DEF e, f
<1>4. MadeTo(c, m, pc) => OnAt(c, m, call.used, pc)
  BY <1>1, <1>3 DEF Calls, OnAt
<1>5. UsedTo(c, m, pc) => OnAt(c, call.made, m, pc)
  BY <1>2, <1>3 DEF Calls, OnAt
<1>6. MadeLast(c, m) => OverAt(c, m)
  BY <1>1, <1>3 DEF Calls, OverAt
<1> QED
  BY <1>4, <1>5, <1>6

LEMMA EngineHandsOut ==
  ASSUME WriterInv, UNCHANGED <<script, todo, pipe>>, Called, EngineOutput
  PROVE  WriterInv'
<1> DEFINE n == Handed
           b == [box EXCEPT !.pending = box.pending - n]
           m == call.made + n
<1>1. /\ call.who = "engine" /\ InCall /\ call.pc = "output" /\ job' = job
      /\ box' = b /\ op' = [op EXCEPT !.out = op.out + n]
  BY DEF EngineOutput, InCall
<1>2. /\ n \in Nat /\ n <= box.pending /\ m <= call.room /\ BoxInv(b) /\ m \in Nat
      /\ op.out + box.pending = box.offset /\ op.out \in Nat /\ call.used \in Nat /\ box.pending \in Nat
  BY <1>1, OutputFits DEF WriterInv, BoxInv
<1>3. b.pending = box.pending - n /\ b.offset = box.offset /\ b.finished = box.finished
  BY DEF WriterInv, BoxInv, Empty
<1>4. PICK status \in {"NeedsInput", "NeedsOutput", "Finished", "more"} :
        /\ status = "more" => b.pending = 0 /\ call' = [call EXCEPT !.made = m, !.pc = "suffix"] /\ reply' = reply
        /\ status # "more" => /\ call' = [call EXCEPT !.made = m, !.who = "none"]
                              /\ reply' = [status |-> status, used |-> call'.used, made |-> call'.made]
        /\ status = "NeedsInput" => call.act = "process"
        /\ status = "Finished" => IsFinished(b)
  BY <1>2, <1>3 DEF EngineOutput, Answer, IsFinished
<1> HIDE DEF n, b
<1>5. op' \in [failed : BOOLEAN, finishing : BOOLEAN, out : Nat] /\ op'.out = op.out + n
  BY <1>1, <1>2 DEF WriterInv, EngineInv
<1>6. JobInv' /\ job'.held = job.held /\ (job.held => job'.in = job.in + 0)
  BY <1>1 DEF WriterInv, JobInv
<1>7. op'.out + box'.pending = box'.offset /\ BoxInv(box')
  BY <1>1, <1>2, <1>3, <1>5
<1>8. What = "finish" => call.act = "finish"
  BY <1>1 DEF WriterInv, Places
<1> HIDE DEF m
<1>9. m = call.made + n
  BY DEF m
<1>10. CASE status = "more"
  <2>1. /\ call' \in Calls /\ call'.who = call.who /\ call'.act = call.act /\ call'.len = call.len
        /\ call'.room = call.room /\ call'.used = call.used /\ call'.made = m /\ call'.pc = "suffix"
    <3>1. MadeTo(call', m, "suffix")
      BY <1>4, <1>10 DEF MadeTo
    <3> QED
      BY <1>2, <3>1, CallIs DEF WriterInv, OnAt
  <2>2. EngineInv'
    BY <1>4, <1>5, <1>10, <2>1 DEF WriterInv, EngineInv
  <2>3. InCall'
    BY <1>1, <2>1 DEF InCall
  <2>4. call'.used = call.used + 0 /\ box'.pending = 0
    BY <1>1, <1>2, <1>4, <1>10, <2>1
  <2> QED
    BY <1>1, <1>2, <1>5, <1>6, <1>7, <1>9, <2>1, <2>2, <2>3, <2>4, CallGoesOn
<1>11. CASE status # "more"
  <2>1. status \in Outcomes
    BY <1>11 DEF Outcomes, Statuses
  <2>2. call' \in Calls /\ call'.who = "none" /\ call'.used = call.used /\ call'.made = m
    <3>1. MadeLast(call', m)
      BY <1>4, <1>11 DEF MadeLast
    <3> QED
      BY <1>2, <3>1, CallIs DEF WriterInv, OverAt
  <2>3. reply' = [status |-> status, used |-> call.used, made |-> m]
    BY <1>4, <1>11, <2>2
  <2>4. reply' \in [status : Outcomes, used : Nat, made : Nat]
    BY <1>2, <2>1, <2>3
  <2>5. EngineInv' /\ ~ InCall'
    BY <1>5, <2>2, <2>4 DEF EngineInv, InCall
  <2>6. What = "finish" => Whole(reply.status)'
    BY <1>1, <1>4, <1>8, <1>11, <2>3 DEF Whole
  <2>7. reply'.made = call.made + n /\ reply'.used = call.used
    BY <1>9, <2>3
  <2> QED
    BY <1>1, <1>2, <1>5, <1>6, <1>7, <2>5, <2>6, <2>7, CallGoesOn
<1> QED
  BY <1>10, <1>11

(* A call that fails says so, and hands out nothing. *)
LEMMA CallBreaks ==
  ASSUME WriterInv, UNCHANGED <<script, todo, pipe, box, job>>, Called, InCall,
         NEW error \in {"Invalid", "Limit"}, Break(error)
  PROVE  WriterInv'
<1>1. /\ call' = [call EXCEPT !.who = "none"] /\ op' = [op EXCEPT !.failed = TRUE]
      /\ reply' = [status |-> error, used |-> call'.used, made |-> call'.made]
  BY DEF Break, Return, Answer
<1>2. /\ call' \in Calls /\ call'.who = "none" /\ call'.used = call.used /\ call'.made = call.made
      /\ call.used \in Nat /\ call.made \in Nat
  BY <1>1 DEF WriterInv, EngineInv, Calls
<1>3. op' \in [failed : BOOLEAN, finishing : BOOLEAN, out : Nat] /\ op'.out = op.out /\ op.out \in Nat
  BY <1>1 DEF WriterInv, EngineInv
<1>4. reply' = [status |-> error, used |-> call.used, made |-> call.made]
  BY <1>1, <1>2
<1>5. reply' \in [status : Outcomes, used : Nat, made : Nat]
  BY <1>2, <1>4 DEF Outcomes
<1>6. EngineInv' /\ ~ InCall'
  BY <1>2, <1>3, <1>5 DEF EngineInv, InCall
<1>7. BoxInv(box') /\ JobInv' /\ op'.out + box'.pending = box'.offset /\ job.in \in Nat
  BY <1>3 DEF WriterInv, JobInv, Ledger
<1>8. What = "finish" => Whole(reply.status)'
  BY <1>4 DEF Whole
<1>9. /\ 0 \in Nat /\ op'.out = op.out + 0 /\ (job.held => job'.in = job.in + 0)
      /\ reply'.made = call.made + 0 /\ reply'.used = call.used
  BY <1>2, <1>3, <1>4, <1>7
<1> QED
  BY <1>6, <1>7, <1>8, <1>9, CallGoesOn

LEMMA EngineFinishes ==
  ASSUME WriterInv, UNCHANGED <<script, todo, pipe>>, Called, EngineSuffix
  PROVE  WriterInv'
<1> DEFINE b == [box EXCEPT !.finishing = TRUE]
<1>1. call.who = "engine" /\ InCall /\ call.pc = "suffix" /\ job' = job
  BY DEF EngineSuffix, InCall
<1>2. box.pending = 0 /\ BoxInv(box) /\ op.out + box.pending = box.offset /\ op.out \in Nat
  BY <1>1 DEF WriterInv, Places, Ledger, EngineInv
<1>3. \/ Break("Invalid") /\ box' = box
      \/ box' = Suffix(b) /\ call' = [call EXCEPT !.pc = "output"] /\ UNCHANGED <<op, reply>>
  BY DEF EngineSuffix
<1>4. CASE Break("Invalid") /\ box' = box
  BY <1>1, <1>4, CallBreaks
<1>5. CASE box' = Suffix(b) /\ call' = [call EXCEPT !.pc = "output"] /\ UNCHANGED <<op, reply>>
  <2>1. BoxInv(b) /\ b.pending = 0 /\ b.offset = box.offset
    BY <1>2 DEF BoxInv, Empty
  <2> HIDE DEF b
  <2>2. BoxInv(box') /\ box'.offset = box.offset + box'.pending
    BY <1>5, <2>1, SuffixHolds DEF Extends
  <2>3. box'.pending \in Nat
    BY <2>2 DEF BoxInv
  <2>4. /\ call' \in Calls /\ call'.who = call.who /\ call'.act = call.act /\ call'.len = call.len
        /\ call'.room = call.room /\ call'.used = call.used /\ call'.made = call.made /\ call'.pc = "output"
        /\ call.used \in Nat /\ call.made \in Nat /\ call.made <= call.room
    BY <1>1, <1>5 DEF WriterInv, EngineInv, Calls, Places
  <2>5. EngineInv' /\ JobInv' /\ InCall' /\ job'.in = job.in /\ job.in \in Nat
    BY <1>1, <1>5, <2>4 DEF WriterInv, EngineInv, JobInv, InCall
  <2>6. /\ 0 \in Nat /\ op'.out = op.out + 0 /\ op'.out + box'.pending = box'.offset
        /\ call'.made = call.made + 0 /\ call'.used = call.used + 0 /\ job'.in = job.in + 0
    BY <1>2, <1>5, <2>2, <2>3, <2>4, <2>5
  <2> QED
    BY <1>1, <2>2, <2>4, <2>5, <2>6, CallGoesOn
<1> QED
  BY <1>3, <1>4, <1>5

LEMMA ResourceHandsOut ==
  ASSUME WriterInv, UNCHANGED <<script, todo, pipe>>, Called, ResourceOutput
  PROVE  WriterInv'
<1> DEFINE n == Handed
           b == [box EXCEPT !.pending = box.pending - n]
           m == call.made + n
<1>1. /\ call.who = "resource" /\ InCall /\ call.pc = "output" /\ job' = job
      /\ box' = b /\ op' = [op EXCEPT !.out = op.out + n]
  BY DEF ResourceOutput, InCall
<1>2. /\ n \in Nat /\ n <= box.pending /\ m <= call.room /\ BoxInv(b) /\ m \in Nat
      /\ op.out + box.pending = box.offset /\ op.out \in Nat /\ call.used \in Nat /\ box.pending \in Nat
  BY <1>1, OutputFits DEF WriterInv, BoxInv
<1>3. b.pending = box.pending - n /\ b.offset = box.offset
  BY DEF WriterInv, BoxInv, Empty
<1>4. \/ /\ box.pending > n /\ call' = [call EXCEPT !.made = m, !.who = "none"]
         /\ reply' = [status |-> "NeedsOutput", used |-> call'.used, made |-> call'.made]
      \/ ~ (box.pending > n) /\ call' = [call EXCEPT !.made = m, !.pc = "pick"] /\ reply' = reply
  BY DEF ResourceOutput, Answer
<1> HIDE DEF n, b
<1>5. op' \in [failed : BOOLEAN, finishing : BOOLEAN, out : Nat] /\ op'.out = op.out + n
  BY <1>1, <1>2 DEF WriterInv, EngineInv
<1>6. JobInv' /\ job'.held = job.held /\ (job.held => job'.in = job.in + 0)
  BY <1>1 DEF WriterInv, JobInv
<1>7. op'.out + box'.pending = box'.offset /\ BoxInv(box')
  BY <1>1, <1>2, <1>3, <1>5
<1>8. What # "finish" /\ call.used <= call.len
  BY <1>1 DEF WriterInv, Places
<1> HIDE DEF m
<1>9. m = call.made + n
  BY DEF m
<1>10. CASE ~ (box.pending > n) /\ call' = [call EXCEPT !.made = m, !.pc = "pick"] /\ reply' = reply
  <2>1. /\ call' \in Calls /\ call'.who = call.who /\ call'.act = call.act /\ call'.len = call.len
        /\ call'.room = call.room /\ call'.used = call.used /\ call'.made = m /\ call'.pc = "pick"
    <3>1. MadeTo(call', m, "pick")
      BY <1>10 DEF MadeTo
    <3> QED
      BY <1>2, <3>1, CallIs DEF WriterInv, OnAt
  <2>2. EngineInv'
    BY <1>5, <1>10, <2>1 DEF WriterInv, EngineInv
  <2>3. InCall'
    BY <1>1, <2>1 DEF InCall
  <2>4. call'.used = call.used + 0 /\ box'.pending = 0 /\ 0 \in Nat
    BY <1>1, <1>2, <1>3, <1>10, <2>1
  <2> QED
    BY <1>1, <1>2, <1>5, <1>6, <1>7, <1>8, <1>9, <2>1, <2>2, <2>3, <2>4, CallGoesOn
<1>11. CASE /\ box.pending > n /\ call' = [call EXCEPT !.made = m, !.who = "none"]
            /\ reply' = [status |-> "NeedsOutput", used |-> call'.used, made |-> call'.made]
  <2>1. call' \in Calls /\ call'.who = "none" /\ call'.used = call.used /\ call'.made = m
    <3>1. MadeLast(call', m)
      BY <1>11 DEF MadeLast
    <3> QED
      BY <1>2, <3>1, CallIs DEF WriterInv, OverAt
  <2>2. reply' = [status |-> "NeedsOutput", used |-> call.used, made |-> m]
    BY <1>11, <2>1
  <2>3. reply' \in [status : Outcomes, used : Nat, made : Nat]
    BY <1>2, <2>2 DEF Outcomes, Statuses
  <2>4. EngineInv' /\ ~ InCall'
    BY <1>5, <2>1, <2>3 DEF EngineInv, InCall
  <2>5. reply'.made = call.made + n /\ reply'.used = call.used /\ 0 \in Nat
    BY <1>9, <2>2
  <2> QED
    BY <1>1, <1>2, <1>5, <1>6, <1>7, <1>8, <2>4, <2>5, CallGoesOn
<1> QED
  BY <1>4, <1>10, <1>11

(* A call for a resource that returns, with the box and the resource b and j. *)
LEMMA ResourceReturns ==
  ASSUME WriterInv, UNCHANGED <<script, todo, pipe, op>>, Called, call.who = "resource",
         NEW status \in {"Finished", "NeedsInput"}, Return(status),
         BoxInv(box'), box'.pending = box.pending, box'.offset = box.offset,
         JobInv', job'.held = job.held, job'.in = job.in
  PROVE  WriterInv'
<1>1. /\ call' = [call EXCEPT !.who = "none"]
      /\ reply' = [status |-> status, used |-> call'.used, made |-> call'.made]
  BY DEF Return, Answer
<1>2. /\ call' \in Calls /\ call'.who = "none" /\ call'.used = call.used /\ call'.made = call.made
      /\ call.used \in Nat /\ call.made \in Nat
  BY <1>1 DEF WriterInv, EngineInv, Calls
<1>3. reply' = [status |-> status, used |-> call.used, made |-> call.made]
  BY <1>1, <1>2
<1>4. reply' \in [status : Outcomes, used : Nat, made : Nat]
  BY <1>2, <1>3 DEF Outcomes, Statuses
<1>5. EngineInv' /\ ~ InCall' /\ InCall /\ op.out \in Nat
  BY <1>2, <1>4 DEF WriterInv, EngineInv, InCall
<1>6. What # "finish" /\ op.out + box.pending = box.offset /\ job.in \in Nat
  BY DEF WriterInv, Places, Ledger, JobInv
<1>7. /\ 0 \in Nat /\ op'.out = op.out + 0 /\ op'.out + box'.pending = box'.offset /\ job'.in = job.in + 0
      /\ reply'.made = call.made + 0 /\ reply'.used = call.used
  BY <1>2, <1>3, <1>5, <1>6
<1> QED
  BY <1>5, <1>6, <1>7, CallGoesOn

LEMMA ResourceFinishes ==
  ASSUME WriterInv, UNCHANGED <<script, todo, pipe>>, Called, ResourceDone
  PROVE  WriterInv'
<1>1. /\ call.who = "resource" /\ job' = [job EXCEPT !.done = TRUE] /\ Return("Finished") /\ op' = op
      /\ box' = [box EXCEPT !.active = FALSE, !.after = TRUE, !.resources = @ + 1]
  BY DEF ResourceDone
<1>2. JobInv' /\ job'.held = job.held /\ job'.in = job.in
  BY <1>1 DEF WriterInv, JobInv, NoJob
<1>3. BoxInv(box') /\ box'.pending = box.pending /\ box'.offset = box.offset
  BY <1>1 DEF WriterInv, BoxInv, Empty
<1> QED
  BY <1>1, <1>2, <1>3, ResourceReturns

LEMMA ResourceStops ==
  ASSUME WriterInv, UNCHANGED <<script, todo, pipe>>, Called, ResourceWaits
  PROVE  WriterInv'
<1> DEFINE q == IF call.act = "flush" THEN <<"none", 0>> ELSE job.promise
<1>1. /\ call.who = "resource" /\ job' = [job EXCEPT !.promise = q] /\ Return("NeedsInput") /\ op' = op /\ box' = box
  BY DEF ResourceWaits
<1> HIDE DEF q
<1>2. JobInv' /\ job'.held = job.held /\ job'.in = job.in
  BY <1>1 DEF WriterInv, JobInv, NoJob
<1> QED
  BY <1>1, <1>2, ResourceReturns DEF WriterInv

(* A step of a resource that goes on: it queues a part or takes k bytes. *)
LEMMA ResourceGoesOn ==
  ASSUME WriterInv, UNCHANGED <<script, todo, pipe, op, reply>>, Called, call.who = "resource",
         NEW k \in Nat, call.used + k <= call.len, UsedTo(call', call.used + k, "output"),
         BoxInv(box'), box'.offset = box.offset + (box'.pending - box.pending),
         JobInv', job'.held = job.held, job'.in = job.in + k
  PROVE  WriterInv'
<1>1. /\ call.used \in Nat /\ call.made \in Nat /\ call.made <= call.room /\ op.out \in Nat /\ InCall
      /\ box.pending \in Nat /\ box'.pending \in Nat /\ box.offset \in Nat /\ op.out + box.pending = box.offset
  BY DEF WriterInv, EngineInv, Calls, Places, InCall, BoxInv, Ledger
<1>2. /\ call' \in Calls /\ call'.who = call.who /\ call'.act = call.act /\ call'.len = call.len
      /\ call'.room = call.room /\ call'.used = call.used + k /\ call'.made = call.made /\ call'.pc = "output"
  BY <1>1, CallIs DEF WriterInv, OnAt
<1>3. EngineInv' /\ InCall'
  BY <1>1, <1>2 DEF WriterInv, EngineInv, InCall
<1>4. /\ 0 \in Nat /\ op'.out = op.out + 0 /\ op'.out + box'.pending = box'.offset /\ call'.made = call.made + 0
  BY <1>1, <1>2
<1> QED
  BY <1>1, <1>2, <1>3, <1>4, CallGoesOn

LEMMA ResourceTakes ==
  ASSUME WriterInv, UNCHANGED <<script, todo, pipe>>, Called, ResourceFill
  PROVE  WriterInv'
<1> DEFINE room == ChunkBytes - Len(job.input)
           n == IF call.len - call.used < room THEN call.len - call.used ELSE room
           s == Symbols(job.in, n)
           e == [job EXCEPT !.input = job.input \o s]
<1>1. /\ call.who = "resource" /\ UNCHANGED <<box, op, reply>>
      /\ call.used < call.len /\ Len(job.input) < ChunkBytes
      /\ job' = [e EXCEPT !.in = job.in + n] /\ UsedTo(call', call.used + n, "output")
  BY DEF ResourceFill, UsedTo
<1>2. /\ call.used \in Nat /\ call.len \in Nat /\ Len(job.input) \in Nat /\ job.in \in Nat
      /\ box.resources \in Nat /\ ChunkBytes \in Nat /\ job.input \in Seq(Nat \X Nat)
  BY EncoderAssumption DEF WriterInv, EngineInv, Calls, JobInv, BoxInv
<1>3. n \in Nat /\ call.used + n <= call.len
  BY <1>1, <1>2
<1> HIDE DEF n
<1>4. s \in Seq(Nat \X Nat)
  <2>1. s = [k \in 1 .. n |-> <<box.resources + 1, job.in + k>>]
    BY DEF Symbols
  <2>2. \A k \in 1 .. n : <<box.resources + 1, job.in + k>> \in Nat \X Nat
    BY <1>2, <1>3, SMTT(30)
  <2> DEFINE P == Nat \X Nat
  <2> HIDE DEF s, P
  <2>3. s \in [1 .. n -> P]
    BY <2>1, <2>2 DEF P
  <2>4. s \in Seq(P)
    BY <1>3, <2>3
  <2> QED
    BY <2>4 DEF P
<1> HIDE DEF s
<1>5. job.input \o s \in Seq(Nat \X Nat)
  <2> DEFINE P == Nat \X Nat
  <2>1. job.input \in Seq(P) /\ s \in Seq(P)
    BY <1>2, <1>4
  <2> HIDE DEF P
  <2>2. job.input \o s \in Seq(P)
    BY <2>1
  <2> QED
    BY <2>2 DEF P
<1>6. /\ DOMAIN e = DOMAIN NoJob /\ e.input = job.input \o s /\ e.held = job.held /\ e.in = job.in
      /\ e.refs = job.refs
  BY DEF WriterInv, JobInv, NoJob
<1> HIDE DEF e
<1>7. /\ DOMAIN job' = DOMAIN NoJob /\ job'.input = job.input \o s /\ job'.held = job.held
      /\ job'.in = job.in + n /\ job'.refs = job.refs
  BY <1>1, <1>6 DEF NoJob
<1>8. JobInv'
  BY <1>2, <1>3, <1>5, <1>7, SMTT(30) DEF WriterInv, JobInv
<1>9. box'.offset = box.offset + (box'.pending - box.pending) /\ BoxInv(box')
  BY <1>1 DEF WriterInv, BoxInv
<1> QED
  BY <1>1, <1>3, <1>7, <1>8, <1>9, ResourceGoesOn

LEMMA PartIsChunk ==
  ASSUME JobInv, NEW last \in BOOLEAN
  PROVE  Chunk(Part(last))
<1> DEFINE c == Part(last)
           n == Len(job.input) + (IF job.coding = "raw" THEN 0 ELSE 1)
           refs == IF job.first THEN job.refs ELSE <<>>
           kind == PartKind(job.first, last)
<1>1. Len(job.input) \in Nat /\ Len(refs) \in Nat
  BY DEF JobInv
<1>2. n \in Nat
  <2>1. n \in {Len(job.input) + 0, Len(job.input) + 1}
    OBVIOUS
  <2> HIDE DEF n
  <2> QED
    BY <1>1, <2>1
<1>3. kind \in {"data", "first", "last", "middle"}
  BY DEF PartKind
<1>4. DOMAIN c = DOMAIN Plain /\ c.kind = kind /\ c.refs = refs /\ c.text = job.input /\ c.coded = n
  BY DEF Part, Plain
<1> HIDE DEF c, n, refs, kind
<1>5. Chunk(c)
  BY <1>1, <1>2, <1>3, <1>4, OrdinaryChunk
<1> QED
  BY <1>5 DEF c

LEMMA ResourceQueues ==
  ASSUME WriterInv, UNCHANGED <<script, todo, pipe>>, Called, ResourceEmit
  PROVE  WriterInv'
<1>1. PICK last \in BOOLEAN : Emit(last)
  BY DEF ResourceEmit
<1>2. call.who = "resource" /\ call.pc = "pick" /\ InCall
  BY DEF ResourceEmit, InCall
<1>3. box.pending = 0 /\ BoxInv(box) /\ JobInv /\ box.offset \in Nat
  BY <1>2 DEF WriterInv, Places, BoxInv
<1>4. CASE ~ HasSlot(box)
  <2>1. Break("Limit") /\ UNCHANGED <<box, job>>
    BY <1>1, <1>4 DEF Emit
  <2> QED
    BY <1>2, <2>1, CallBreaks
<1>5. CASE HasSlot(box)
  <2> DEFINE c == Part(last)
             e == [job EXCEPT !.input = <<>>]
             f == [e EXCEPT !.first = FALSE]
  <2>1. /\ box' = Queue(box, c) /\ job' = [f EXCEPT !.queued = last]
        /\ call' = [call EXCEPT !.pc = "output"] /\ UNCHANGED <<op, reply>>
    BY <1>1, <1>5 DEF Emit
  <2>2. Chunk(c)
    BY <1>3, PartIsChunk
  <2> HIDE DEF c
  <2>3. BoxInv(box') /\ box'.offset = box.offset + box'.pending
    BY <1>3, <2>1, <2>2, QueueHolds
  <2>4. box'.pending \in Nat
    BY <2>3 DEF BoxInv
  <2>5. DOMAIN e = DOMAIN NoJob /\ e.input = <<>> /\ e.held = job.held /\ e.in = job.in /\ e.refs = job.refs
    BY <1>3 DEF JobInv, NoJob
  <2> HIDE DEF e
  <2>6. DOMAIN f = DOMAIN NoJob /\ f.input = <<>> /\ f.held = job.held /\ f.in = job.in /\ f.refs = job.refs
    BY <2>5 DEF NoJob
  <2> HIDE DEF f
  <2>7. /\ DOMAIN job' = DOMAIN NoJob /\ job'.input = <<>> /\ job'.held = job.held /\ job'.in = job.in
        /\ job'.refs = job.refs
    BY <2>1, <2>6 DEF NoJob
  <2>8. JobInv'
    BY <1>3, <2>7 DEF JobInv
  <2>9. call \in Calls /\ call.used \in Nat /\ call.used + 0 = call.used /\ call.used <= call.len /\ job.in \in Nat
    BY <1>2 DEF WriterInv, EngineInv, Calls, Places, JobInv
  <2>10. UsedTo(call', call.used + 0, "output")
    <3>1. call = [call EXCEPT !.used = call.used + 0]
      BY <2>9 DEF Calls
    <3> QED
      BY <2>1, <3>1 DEF UsedTo
  <2>11. /\ 0 \in Nat /\ box'.offset = box.offset + (box'.pending - box.pending) /\ job'.in = job.in + 0
         /\ call.used + 0 <= call.len
    BY <1>3, <2>3, <2>4, <2>7, <2>9
  <2> QED
    BY <1>2, <2>1, <2>3, <2>7, <2>8, <2>10, <2>11, ResourceGoesOn
<1> QED
  BY <1>4, <1>5

LEMMA SessionWorks ==
  ASSUME WriterInv, UNCHANGED <<script, todo>>, PipeSteps
  PROVE  WriterInv'
<1>1. Called /\ EncoderStep /\ UNCHANGED pipe
  BY DEF PipeSteps, Called
<1> QED
  BY <1>1, EngineHandsOut, EngineFinishes, ResourceHandsOut, ResourceFinishes, ResourceTakes, ResourceQueues,
     ResourceStops DEF EncoderStep

-----------------------------------------------------------------------------
(* The whole. *)

LEMMA FrameStep == FrameInv /\ [Next]_vars => FrameInv'
<1> SUFFICES ASSUME FrameInv, [Next]_vars, stage' = "writer" PROVE WriterInv'
  BY DEF FrameInv
<1>1. CASE UNCHANGED vars
  <2>1. stage = "writer" /\ UNCHANGED <<script, todo, pipe, box, job, op, call, reply>>
    BY <1>1 DEF vars, encoderVars
  <2>2. BoxInv(box') /\ JobInv' /\ EngineInv' /\ PipeTypes' /\ ClientTypes'
    BY <2>1 DEF FrameInv, WriterInv, JobInv, EngineInv, PipeTypes, ClientTypes
  <2>3. Places' /\ Ledger' /\ Answers' /\ Endings'
    BY <2>1 DEF FrameInv, WriterInv, Places, Ledger, Answers, Endings, InCall, Called, What, OnTheWay, Taken,
                Whole, IsFinished, AtEnd, Orders
  <2> QED
    BY <2>2, <2>3 DEF WriterInv
<1>2. CASE WriterStage
  <2>1. WriterInv /\ script' = script
    BY <1>2 DEF WriterStage, FrameInv
  <2>2. CASE ClientCommands \/ ClientLearns \/ ClientWrites \/ ClientCloses \/ ClientFinishes
    BY <2>1, <2>2, CommandIsAsked, AnswerIsLearned, WriteIsAsked, ResourceIsClosed, FinishIsAsked
  <2>3. CASE ~ Idling /\ WriterStep /\ todo' = todo
    <3>1. ~ ResourceWriterDrops
      BY <2>3 DEF ResourceWriterDrops
    <3>2. CASE \E n \in 1 .. PipeBytes : SinkTakes(n)
      <4>1. PICK n \in 1 .. PipeBytes : SinkTakes(n)
        BY <3>2
      <4>2. n \in Nat
        BY WriterAssumption
      <4> QED
        BY <2>1, <2>3, <4>1, <4>2, SinkIsServedOnce
    <3>3. CASE SinkFails \/ SinkFlushFails \/ Deferred \/ PipeReturns \/ PipeLoops
      BY <2>1, <2>3, <3>3, SinkMayFail, ErrorIsToldLater, AnswerIsKept, SessionIsAskedAgain
    <3>4. CASE PipeCalls \/ PipeSteps \/ PipeDone
      BY <2>1, <2>3, <3>4, SessionIsCalled, SessionWorks, OperationIsDone
    <3> QED
      BY <2>3, <3>1, <3>2, <3>3, <3>4 DEF WriterStep
  <2> QED
    BY <1>2, <2>2, <2>3 DEF WriterStage
<1>3. CASE DriverStage
  BY <1>3 DEF DriverStage
<1>4. CASE Handover
  BY <1>4 DEF Handover
<1>5. CASE DecodeStage
  BY <1>5 DEF DecodeStage
<1>6. CASE SeekStage
  BY <1>6 DEF SeekStage
<1>7. CASE PeerStage
  BY <1>7 DEF PeerStage
<1> QED
  BY <1>1, <1>2, <1>3, <1>4, <1>5, <1>6, <1>7 DEF Next

LEMMA FrameMeans == FrameInv => SinkGetsTheFrames
<1> SUFFICES ASSUME WriterInv, call.who = "none"
             PROVE  /\ pipe.doing.pc # "called" => pipe.sunk + pipe.held = op.out
                    /\ pipe.done => pipe.sunk = box.offset /\ IsFinished(box)
                    /\ job.held /\ pipe.doing.pc # "called" => pipe.acked = job.in
  BY DEF FrameInv, SinkGetsTheFrames
<1>1. ~ Called => pipe.sunk + pipe.held = op.out /\ (job.held => pipe.acked = job.in)
  BY Between
<1>2. ASSUME pipe.done PROVE pipe.sunk = box.offset /\ IsFinished(box)
  <2>1. ~ Called /\ pipe.held = 0 /\ IsFinished(box)
    BY <1>2 DEF WriterInv, Endings, Places, Called
  <2>2. pipe.sunk \in Nat /\ op.out \in Nat /\ box.pending = 0 /\ op.out + box.pending = box.offset
    BY <2>1 DEF WriterInv, PipeTypes, Pipes, EngineInv, IsFinished, Ledger
  <2> QED
    BY <1>1, <2>1, <2>2
<1> QED
  BY <1>1, <1>2 DEF Called

(* Through every cut of the writes and every failure of the sink, what the  *)
(* writer of src/src/compressor/framing/writer.rs sent to the sink and what *)
(* its transport holds is what the session handed out, the client was told  *)
(* of every byte a resource took, and a container reported finished is in   *)
(* the sink to its last byte.                                               *)
THEOREM FramesReachTheSink == Spec => []SinkGetsTheFrames
<1>1. Init => FrameInv
  BY FrameInit DEF FrameInv
<1>2. FrameInv /\ [Next]_vars => FrameInv'
  BY FrameStep
<1>3. FrameInv => SinkGetsTheFrames
  BY FrameMeans
<1> QED
  BY <1>1, <1>2, <1>3, PTL DEF Spec
=============================================================================
