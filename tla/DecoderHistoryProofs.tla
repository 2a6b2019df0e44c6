------------------------- MODULE DecoderHistoryProofs -------------------------
(***************************************************************************)
(* The decoder's history, proved for every ring, window, distance and      *)
(* length.  First the buffer by itself: Good says that it holds a text's   *)
(* bytes as far as they may still be addressed or delivered, and growth,   *)
(* flushes, writes and copies keep it, whatever their speculative tails    *)
(* overrun.  Power-of-two facts are read off divisors, and the pieces of   *)
(* write_ring and copy_ring are taken by induction on the bytes missing.   *)
(*                                                                         *)
(* Then what every operation that decodes makes of it: bytes emitted one   *)
(* at a time and in bulk, copies with their speculative tails, words,      *)
(* literals of the fast loop, each in the ring, in the ring of a           *)
(* collecting call and in the caller's slice.  Made(h, t, n) says that h   *)
(* is the history of the text t with n more bytes; Produces, that a step   *)
(* storing it keeps HistoryInv.                                            *)
(***************************************************************************)
EXTENDS DecoderStream, TLAPS, SequenceTheorems, WellFoundedInduction

-----------------------------------------------------------------------------
(* Numbers and sequences. *)

(* Division by a positive number. *)
LEMMA Divides ==
  ASSUME NEW a \in Int, NEW n \in Nat \ {0}
  PROVE  /\ a \div n \in Int /\ a % n \in 0 .. n - 1
         /\ a = n * (a \div n) + (a % n)
  OBVIOUS

(* The quotient and the remainder are unique. *)
LEMMA DivisionUnique ==
  ASSUME NEW n \in Nat \ {0}, NEW p \in Int, NEW q \in Int, NEW r \in 0 .. n - 1, NEW s \in 0 .. n - 1,
         n * p + r = n * q + s
  PROVE  p = q /\ r = s
<1>1. n * (p - q) = s - r
  OBVIOUS
<1>2. s - r < n /\ s - r > -n
  OBVIOUS
<1>3. CASE p = q
  BY <1>1, <1>3
<1>4. CASE p > q
  <2>1. n * (p - q) >= n
    BY <1>4
  <2> QED
    BY <1>1, <1>2, <2>1
<1>5. CASE p < q
  <2>1. n * (p - q) <= -n
    BY <1>5
  <2> QED
    BY <1>1, <1>2, <2>1
<1> QED
  BY <1>3, <1>4, <1>5

LEMMA ModSmall == ASSUME NEW n \in Nat \ {0}, NEW a \in 0 .. n - 1 PROVE a % n = a
<1>1. a = n * (a \div n) + (a % n) /\ a \div n \in Int /\ a % n \in 0 .. n - 1
  BY Divides
<1>2. n * 0 + a = n * (a \div n) + (a % n)
  BY <1>1
<1> QED
  BY <1>1, <1>2, DivisionUnique

(* Steps forward from a that stay before the end, or pass it once. *)
LEMMA ModForward ==
  ASSUME NEW n \in Nat \ {0}, NEW a \in Int, NEW k \in Int
  PROVE  /\ 0 <= (a % n) + k /\ (a % n) + k < n => (a + k) % n = (a % n) + k
         /\ n <= (a % n) + k /\ (a % n) + k < 2 * n => (a + k) % n = (a % n) + k - n
         /\ -n <= (a % n) + k /\ (a % n) + k < 0 => (a + k) % n = (a % n) + k + n
<1>1. a = n * (a \div n) + (a % n) /\ a \div n \in Int /\ a % n \in 0 .. n - 1
  BY Divides
<1>2. /\ a + k = n * ((a + k) \div n) + ((a + k) % n)
      /\ (a + k) \div n \in Int /\ (a + k) % n \in 0 .. n - 1
  <2>1. a + k \in Int
    OBVIOUS
  <2> QED
    BY <2>1, Divides
<1>3. ASSUME NEW j \in {-1, 0, 1}, 0 <= (a % n) + k - n * j, (a % n) + k - n * j < n
      PROVE  (a + k) % n = (a % n) + k - n * j
  <2>1. (a % n) + k - n * j \in 0 .. n - 1
    BY <1>1, <1>3
  <2>2. n * ((a \div n) + j) + ((a % n) + k - n * j) = n * ((a + k) \div n) + ((a + k) % n)
    BY <1>1, <1>2
  <2>3. (a \div n) + j \in Int
    BY <1>1
  <2> DEFINE u == (a \div n) + j
             v == (a % n) + k - n * j
             x == (a + k) \div n
             y == (a + k) % n
  <2>4. u \in Int /\ v \in 0 .. n - 1 /\ x \in Int /\ y \in 0 .. n - 1 /\ n * u + v = n * x + y
    BY <1>2, <2>1, <2>2, <2>3
  <2> HIDE DEF u, v, x, y
  <2>5. y = v
    BY <2>4, DivisionUnique
  <2> QED
    BY <2>5 DEF v, y
<1>4. ASSUME 0 <= (a % n) + k, (a % n) + k < n PROVE (a + k) % n = (a % n) + k
  <2>1. n * 0 = 0
    OBVIOUS
  <2> QED
    BY <1>1, <1>3, <1>4, <2>1
<1>5. ASSUME n <= (a % n) + k, (a % n) + k < 2 * n PROVE (a + k) % n = (a % n) + k - n
  <2>1. n * 1 = n
    OBVIOUS
  <2> QED
    BY <1>1, <1>3, <1>5, <2>1
<1>6. ASSUME -n <= (a % n) + k, (a % n) + k < 0 PROVE (a + k) % n = (a % n) + k + n
  <2>1. n * (-1) = -n
    OBVIOUS
  <2> QED
    BY <1>1, <1>3, <1>6, <2>1
<1> QED
  BY <1>4, <1>5, <1>6

-----------------------------------------------------------------------------
(* Powers of two. *)

(* A nonempty set of naturals has a least element. *)
LEMMA LeastNatural ==
  ASSUME NEW N, N \subseteq Nat, N # {}
  PROVE  \E n \in N : \A m \in N : n <= m
<1> DEFINE R == OpToRel(<, Nat)
<1>1. IsWellFoundedOn(R, Nat)
  BY NatLessThanWellFounded
<1>2. \A m, k \in Nat : m < k => <<m, k>> \in R
  BY DEF OpToRel
<1> HIDE DEF R
<1>3. \E n \in N : \A m \in N : ~ (<<m, n>> \in R)
  BY <1>1, WFMin, Zenon
<1>4. PICK n \in N : \A m \in N : ~ (<<m, n>> \in R)
  BY <1>3, Zenon
<1>5. ASSUME NEW m \in N PROVE n <= m
  <2>1. m \in Nat /\ n \in Nat
    OBVIOUS
  <2>2. ~ (m < n)
    BY <1>2, <1>4, <2>1
  <2> QED
    BY <2>1, <2>2
<1> QED
  BY <1>5

LEMMA Doubles == ASSUME NEW n \in Nat, PowerOfTwo(n) PROVE PowerOfTwo(2 * n)
<1> SUFFICES ASSUME NEW d \in 1 .. 2 * n, (2 * n) % d = 0, d % 2 # 0 PROVE d = 1
  BY DEF PowerOfTwo
<1> DEFINE q == n \div d
           r == n % d
           x == (2 * n) \div d
<1>1. d \in Nat \ {0} /\ n > 0
  BY DEF PowerOfTwo
<1>2. q \in Int /\ r \in 0 .. d - 1 /\ n = d * q + r
  BY <1>1, Divides
<1>3. x \in Int /\ 2 * n = d * x
  <2>1. 2 * n \in Int
    OBVIOUS
  <2>2. x \in Int /\ 2 * n = d * x + ((2 * n) % d)
    BY <1>1, <2>1, Divides
  <2> QED
    BY <1>1, <2>2
<1> HIDE DEF q, x
<1>4. CASE 2 * r < d
  <2> DEFINE u == 2 * q
             v == 2 * r
  <2>1. d * u + v = d * x + 0
    BY <1>1, <1>2, <1>3
  <2>2. u \in Int /\ v \in 0 .. d - 1 /\ 0 \in 0 .. d - 1
    BY <1>1, <1>2, <1>4
  <2> HIDE DEF u, v
  <2>3. v = 0
    BY <1>1, <1>3, <2>1, <2>2, DivisionUnique
  <2> USE DEF v
  <2>4. r = 0 /\ n = d * q
    BY <1>1, <1>2, <2>3
  <2>5. q >= 1
    BY <1>1, <1>2, <2>4
  <2>6. d <= n
    BY <1>1, <1>2, <2>4, <2>5
  <2>7. d \in 1 .. n /\ n % d = 0
    BY <1>1, <2>4, <2>6
  <2> QED
    BY <2>7 DEF PowerOfTwo
<1>5. CASE 2 * r >= d
  <2> DEFINE u == 2 * q + 1
             v == 2 * r - d
  <2>1. d * u + v = d * x + 0
    BY <1>1, <1>2, <1>3
  <2>2. u \in Int /\ v \in 0 .. d - 1 /\ 0 \in 0 .. d - 1
    BY <1>1, <1>2, <1>5
  <2> HIDE DEF u, v
  <2>3. v = 0
    BY <1>1, <1>3, <2>1, <2>2, DivisionUnique
  <2> USE DEF v
  <2>4. r \in Int /\ d = 2 * r
    BY <1>1, <1>2, <2>3
  <2> HIDE DEF r
  <2>5. d % 2 = 0
    BY <2>4
  <2> QED
    BY <2>5
<1> QED
  BY <1>1, <1>2, <1>4, <1>5

LEMMA PowerBetween ==
  ASSUME NEW n \in Nat \ {0}
  PROVE  \E m \in n .. 2 * n - 1 : PowerOfTwo(m)
<1> DEFINE Good(k) == \E m \in k .. 2 * k - 1 : PowerOfTwo(m)
           N == {k \in Nat \ {0} : ~ Good(k)}
<1>1. SUFFICES N = {}
  OBVIOUS
<1>2. SUFFICES ASSUME N # {} PROVE FALSE
  OBVIOUS
<1>3. N \subseteq Nat
  OBVIOUS
<1> HIDE DEF N
<1>4. PICK k \in N : \A j \in N : k <= j
  BY <1>2, <1>3, LeastNatural
<1>5. k \in Nat \ {0} /\ ~ Good(k)
  BY DEF N
<1>6. CASE k = 1
  <2>1. PowerOfTwo(1)
    BY DEF PowerOfTwo
  <2>2. 1 \in 1 .. 2 * 1 - 1
    OBVIOUS
  <2> QED
    BY <1>5, <1>6, <2>1, <2>2
<1>7. CASE k > 1
  <2> DEFINE j == (k + 1) \div 2
  <2>1. j \in Nat \ {0} /\ j < k /\ (2 * j = k \/ 2 * j = k + 1)
    BY <1>5, <1>7
  <2> HIDE DEF j
  <2>2. j \notin N
    BY <1>4, <1>5, <2>1
  <2>3. Good(j)
    BY <2>1, <2>2 DEF N
  <2>4. PICK m \in j .. 2 * j - 1 : PowerOfTwo(m)
    BY <2>3
  <2>5. m \in Nat
    BY <2>1
  <2>6. PowerOfTwo(2 * m)
    BY <2>4, <2>5, Doubles
  <2>7. 2 * m >= k /\ 2 * m <= 2 * k
    BY <1>5, <2>1, <2>4
  <2>8. CASE 2 * m < 2 * k
    <3>1. 2 * m \in k .. 2 * k - 1
      BY <1>5, <2>5, <2>7, <2>8
    <3> QED
      BY <1>5, <2>6, <3>1
  <2>9. CASE 2 * m = 2 * k
    <3>1. m = k /\ 2 * j = k + 1
      BY <1>5, <2>1, <2>4, <2>9
    <3>2. k \in k .. 2 * k - 1 /\ PowerOfTwo(k)
      BY <1>5, <2>4, <3>1
    <3> QED
      BY <1>5, <3>2
  <2> QED
    BY <1>5, <2>5, <2>7, <2>8, <2>9
<1> QED
  BY <1>5, <1>6, <1>7

LEMMA NextPowerIs ==
  ASSUME NEW n \in Nat \ {0}
  PROVE  NextPowerOfTwo(n) \in Nat /\ n <= NextPowerOfTwo(n) /\ PowerOfTwo(NextPowerOfTwo(n))
<1> DEFINE S == {m \in 1 .. 2 * n : PowerOfTwo(m) /\ m >= n}
<1>1. PICK m \in n .. 2 * n - 1 : PowerOfTwo(m)
  BY PowerBetween
<1>2. m \in S
  BY <1>1
<1>3. S \subseteq Nat
  OBVIOUS
<1> HIDE DEF S
<1>4. \E k \in S : \A j \in S : k <= j
  BY <1>2, <1>3, LeastNatural
<1>5. NextPowerOfTwo(n) = CHOOSE k \in S : \A j \in S : k <= j
  BY Zenon DEF NextPowerOfTwo, S
<1>6. NextPowerOfTwo(n) \in S
  BY <1>4, <1>5, Zenon
<1> QED
  BY <1>6 DEF S

(* Growth doubles at least, reaches the end or the window, and keeps the     *)
(* length a power of two.                                                    *)
LEMMA RingSizeIs ==
  ASSUME NEW len \in Nat, len = 0 \/ PowerOfTwo(len),
         NEW w \in Nat, PowerOfTwo(w), NEW end \in Nat \ {0}
  PROVE  /\ RingSize(len, w, end) \in Nat \ {0} /\ PowerOfTwo(RingSize(len, w, end))
         /\ Lesser(w, end) <= RingSize(len, w, end)
         /\ RingSize(len, w, end) <= w
<1> DEFINE p == NextPowerOfTwo(end)
           g == Greater(p, 2 * len)
           r == Greater(g, MinRing)
<1>1. p \in Nat /\ end <= p /\ PowerOfTwo(p)
  BY NextPowerIs
<1>2. 2 * len \in Nat /\ (2 * len = 0 \/ PowerOfTwo(2 * len))
  BY Doubles
<1> HIDE DEF p
<1>3. g \in Nat /\ g >= p /\ PowerOfTwo(g)
  BY <1>1, <1>2 DEF Greater
<1> HIDE DEF g
<1>4. r \in Nat /\ r >= g /\ PowerOfTwo(r)
  BY <1>3, RingAssumption DEF Greater
<1> HIDE DEF r
<1>5. RingSize(len, w, end) = Lesser(w, r)
  BY DEF RingSize, r, g, p
<1>6. Lesser(w, r) \in Nat \ {0} /\ PowerOfTwo(Lesser(w, r))
  <2>1. w > 0 /\ r > 0
    BY <1>4 DEF PowerOfTwo
  <2> QED
    BY <1>4, <2>1 DEF Lesser
<1> QED
  BY <1>1, <1>3, <1>4, <1>5, <1>6 DEF Lesser

-----------------------------------------------------------------------------
(* Sequences of bytes. *)

LEMMA TableIsSeq ==
  ASSUME NEW n \in Nat, NEW f \in [1 .. n -> Int]
  PROVE  f \in Seq(Int) /\ Len(f) = n
<1>1. f \in Seq(Int)
  BY SeqDef
<1>2. DOMAIN f = 1 .. Len(f) /\ Len(f) \in Nat
  BY <1>1, LenProperties
<1>3. 1 .. n = 1 .. Len(f)
  BY <1>2
<1> QED
  BY <1>1, <1>2, <1>3

LEMMA PartOf ==
  ASSUME NEW s \in Seq(Int), NEW m \in Nat \ {0}, NEW n \in Nat, m <= n + 1, n <= Len(s)
  PROVE  /\ SubSeq(s, m, n) \in Seq(Int) /\ Len(SubSeq(s, m, n)) = n + 1 - m
         /\ \A i \in 1 .. n + 1 - m : SubSeq(s, m, n)[i] = s[m + i - 1]
<1>1. Len(s) \in Nat
  BY LenProperties
<1>2. \A i \in m .. n : s[i] \in Int
  <2> TAKE i \in m .. n
  <2>1. i \in 1 .. Len(s)
    BY <1>1
  <2> QED
    BY <2>1, ElementOfSeq
<1>3. /\ SubSeq(s, m, n) \in Seq(Int)
      /\ Len(SubSeq(s, m, n)) = IF m <= n THEN n - m + 1 ELSE 0
      /\ \A i \in 1 .. n - m + 1 : SubSeq(s, m, n)[i] = s[m + i - 1]
  BY <1>2, SubSeqProperties, SMTT(30)
<1>4. n - m + 1 = n + 1 - m
  OBVIOUS
<1> QED
  BY <1>3, <1>4

(* A beginning of t, and the next bytes of t. *)
Continues(u, t, a, b) ==
  /\ t \in Seq(Int) /\ u \in Seq(Int) /\ a \in Nat /\ b \in Nat
  /\ a <= b /\ b <= Len(t) /\ Len(u) = b - a /\ \A i \in 1 .. b - a : u[i] = t[a + i]

LEMMA PartsJoin ==
  ASSUME NEW t, NEW a, NEW b, NEW u, Continues(u, t, a, b)
  PROVE  SubSeq(t, 1, a) \o u = SubSeq(t, 1, b)
<1> USE DEF Continues
<1> DEFINE x == SubSeq(t, 1, a)
           y == SubSeq(t, 1, b)
<1>0. Len(t) \in Nat
  BY LenProperties
<1>1. x \in Seq(Int) /\ Len(x) = a /\ \A i \in 1 .. a : x[i] = t[i]
  <2>1. a <= Len(t) /\ 1 <= a + 1
    BY <1>0
  <2>2. x \in Seq(Int) /\ Len(x) = a + 1 - 1 /\ \A i \in 1 .. a + 1 - 1 : x[i] = t[1 + i - 1]
    BY <2>1, PartOf
  <2> QED
    BY <2>2
<1>2. y \in Seq(Int) /\ Len(y) = b /\ \A i \in 1 .. b : y[i] = t[i]
  <2>1. y \in Seq(Int) /\ Len(y) = b + 1 - 1 /\ \A i \in 1 .. b + 1 - 1 : y[i] = t[1 + i - 1]
    BY PartOf
  <2> QED
    BY <2>1
<1> HIDE DEF x, y
<1>3. /\ x \o u \in Seq(Int) /\ Len(x \o u) = Len(x) + Len(u)
      /\ \A i \in 1 .. Len(x) + Len(u) : (x \o u)[i] = IF i <= Len(x) THEN x[i] ELSE u[i - Len(x)]
  BY <1>1, ConcatProperties, ZenonT(60)
<1>4. Len(x \o u) = Len(y)
  BY <1>1, <1>2, <1>3
<1>5. ASSUME NEW i \in 1 .. Len(x \o u) PROVE (x \o u)[i] = y[i]
  <2>0. i \in 1 .. b /\ i \in 1 .. Len(x) + Len(u)
    BY <1>1, <1>3
  <2>1. (x \o u)[i] = IF i <= a THEN x[i] ELSE u[i - a]
    BY <1>1, <1>3, <2>0
  <2>2. CASE i <= a
    <3>1. i \in 1 .. a
      BY <2>0, <2>2
    <3> QED
      BY <1>1, <1>2, <2>0, <2>1, <2>2, <3>1
  <2>3. CASE i > a
    <3>1. i - a \in 1 .. b - a
      BY <2>0, <2>3, SMTT(30)
    <3>2. u[i - a] = t[a + (i - a)]
      BY <3>1
    <3> QED
      BY <1>2, <2>0, <2>1, <2>3, <3>2, SMTT(30)
  <2> QED
    BY <2>1, <2>2, <2>3
<1>6. x \o u = y
  BY <1>2, <1>3, <1>4, <1>5, SeqEqual
<1> QED
  BY <1>6 DEF x, y

-----------------------------------------------------------------------------
(* Histories. *)

Histories == [bytes : Seq(Int), pos : Nat, flushed : Nat, out : Seq(Int)]

(* Positions below end fit the buffer; those of a ring as long as the window *)
(* may wrap.                                                                 *)
Roomy(h, end, w, whole) == end <= Len(h.bytes) \/ (~whole /\ w <= Len(h.bytes))

(* The bytes that must be in the buffer: all of them if it is whole, the     *)
(* addressable ones and the undelivered ones if it is a ring.                *)
Holds(h, t, w, whole) ==
  \A p \in 0 .. h.pos - 1 :
    whole \/ h.flushed <= p \/ h.pos - (w - Chunk) <= p => At(h.bytes, p) = t[p + 1]

(* The undelivered bytes are contiguous, and leave a gap before the end. *)
Contiguous(h, whole) ==
  whole \/ h.flushed = h.pos \/ (h.flushed % Len(h.bytes)) + (h.pos - h.flushed) <= Len(h.bytes)
Lapped(h, whole) ==
  whole \/ h.flushed = h.pos \/ (h.flushed % Len(h.bytes)) + (h.pos - h.flushed) < Len(h.bytes)

(* What was delivered. *)
Delivered(h, t, delivers, o) == h.out = IF delivers THEN SubSeq(t, 1, h.flushed) ELSE o

(* h is a history of the first bytes of t, for a window of w. *)
Good(h, t, w, whole, delivers, o) ==
  /\ t \in Seq(Int) /\ w \in Nat /\ w > Chunk /\ whole \in BOOLEAN /\ delivers \in BOOLEAN
  /\ whole => ~ delivers
  /\ h \in Histories /\ h.flushed <= h.pos /\ h.pos <= Len(t)
  /\ Roomy(h, h.pos, w, whole) /\ Holds(h, t, w, whole) /\ Contiguous(h, whole)
  /\ Delivered(h, t, delivers, o)

LEMMA GoodTypes ==
  ASSUME NEW t, NEW w, NEW whole, NEW delivers, NEW o, NEW h, Good(h, t, w, whole, delivers, o)
  PROVE  /\ t \in Seq(Int) /\ w \in Nat /\ w > Chunk /\ whole \in BOOLEAN /\ delivers \in BOOLEAN
         /\ whole => ~ delivers
         /\ h \in Histories /\ h.bytes \in Seq(Int) /\ h.pos \in Nat /\ h.flushed \in Nat
         /\ h.out \in Seq(Int) /\ Len(h.bytes) \in Nat /\ Len(t) \in Nat
         /\ h.flushed <= h.pos /\ h.pos <= Len(t)
  BY LenProperties DEF Good, Histories

LEMMA AtIs ==
  ASSUME NEW b \in Seq(Int), NEW L \in Nat \ {0}, Len(b) = L, NEW p \in Int
  PROVE  Index(b, p) = p % L /\ At(b, p) = b[(p % L) + 1]
<1>1. b # <<>>
  BY EmptySeq
<1> QED
  BY <1>1 DEF At, Index

(* The positions from a on, as long as they do not wrap. *)
LEMMA IndexForward ==
  ASSUME NEW L \in Nat \ {0}, NEW a \in Nat, NEW k \in Nat, (a % L) + k < L
  PROVE  (a + k) % L = (a % L) + k
<1>1. a % L \in 0 .. L - 1
  BY Divides
<1> DEFINE r == a % L
<1> HIDE DEF r
<1>2. r \in 0 .. L - 1 /\ r + k < L
  BY <1>1 DEF r
<1>3. 0 <= r + k
  BY <1>2
<1>4. a \in Int /\ k \in Int
  OBVIOUS
<1>5. 0 <= (a % L) + k /\ (a % L) + k < L => (a + k) % L = (a % L) + k
  BY <1>4, ModForward, ZenonT(60)
<1> QED
  BY <1>2, <1>3, <1>5 DEF r

(* What the buffer holds from index F % L on is the text from F on. *)
Waits(b, t, F, P, L) ==
  /\ b \in Seq(Int) /\ t \in Seq(Int) /\ F \in Nat /\ P \in Nat /\ L \in Nat \ {0}
  /\ Len(b) = L /\ F <= P /\ P <= Len(t) /\ (F % L) + (P - F) <= L
  /\ \A p \in F .. P - 1 : At(b, p) = t[p + 1]

Goes(b, t, F, P, L) ==
  /\ SubSeq(b, (F % L) + 1, (F % L) + (P - F)) \in Seq(Int)
  /\ SubSeq(t, 1, F) \o SubSeq(b, (F % L) + 1, (F % L) + (P - F)) = SubSeq(t, 1, P)

LEMMA Pending ==
  ASSUME NEW b, NEW t, NEW F, NEW P, NEW L, Waits(b, t, F, P, L)
  PROVE  Goes(b, t, F, P, L)
<1> DEFINE s == F % L
           n == P - F
           u == SubSeq(b, s + 1, s + n)
<1> USE DEF Waits
<1>0. F \in Int /\ L \in Int
  OBVIOUS
<1>1. s \in 0 .. L - 1 /\ s + n <= L
  BY <1>0, Divides
<1>2. n \in Nat
  OBVIOUS
<1>3. ASSUME NEW i \in 1 .. n PROVE b[s + i] = t[F + i]
  <2> DEFINE k == i - 1
  <2>1. k \in Nat /\ s + k < L /\ F + k \in F .. P - 1
    <3> HIDE DEF s
    <3> QED
      BY <1>1, <1>2
  <2>2. (F + k) % L = s + k
    BY <2>1, IndexForward
  <2>3. At(b, F + k) = b[((F + k) % L) + 1]
    <3>1. F + k \in Int
      BY <2>1
    <3> QED
      BY <3>1, AtIs
  <2> HIDE DEF s
  <2>4. At(b, F + k) = b[(s + k) + 1]
    BY <2>2, <2>3
  <2>5. (s + k) + 1 = s + i /\ (F + k) + 1 = F + i
    BY <1>1
  <2>6. At(b, F + k) = t[(F + k) + 1]
    BY <2>1
  <2> QED
    BY <2>4, <2>5, <2>6
<1> HIDE DEF s
<1>4. u \in Seq(Int) /\ Len(u) = n /\ \A i \in 1 .. n : u[i] = b[s + i]
  <2>1. s + 1 \in Nat \ {0} /\ s + n \in Nat /\ s + 1 <= (s + n) + 1 /\ s + n <= Len(b)
    BY <1>1, <1>2
  <2>2. /\ u \in Seq(Int) /\ Len(u) = (s + n) + 1 - (s + 1)
        /\ \A i \in 1 .. (s + n) + 1 - (s + 1) : u[i] = b[(s + 1) + i - 1]
    BY <2>1, PartOf, ZenonT(60)
  <2>3. (s + n) + 1 - (s + 1) = n /\ \A i \in 1 .. n : (s + 1) + i - 1 = s + i
    BY <1>1, <1>2
  <2> QED
    BY <2>2, <2>3
<1> HIDE DEF u
<1>5. Len(u) = P - F /\ \A i \in 1 .. P - F : u[i] = t[F + i]
  BY <1>3, <1>4
<1>6. SubSeq(t, 1, F) \o u = SubSeq(t, 1, P)
  <2>1. Continues(u, t, F, P)
    BY <1>4, <1>5 DEF Continues
  <2> QED
    BY <2>1, PartsJoin
<1> QED
  BY <1>4, <1>6 DEF u, s, Goes

(* g is h after its pending bytes were delivered. *)
Emptied(h, g, t, w, whole, delivers, o) ==
  /\ Good(g, t, w, whole, delivers, o) /\ Lapped(g, whole)
  /\ g.bytes = h.bytes /\ g.pos = h.pos /\ g.flushed = h.pos

(* Delivery of what is contiguous. *)
LEMMA Flushes ==
  ASSUME NEW t, NEW w, NEW whole, NEW delivers, NEW o, NEW h, Good(h, t, w, whole, delivers, o)
  PROVE  Emptied(h, Flush(h, delivers), t, w, whole, delivers, o)
<1> DEFINE P == h.pos
           F == h.flushed
           b == h.bytes
           L == Len(b)
           f == Flush(h, delivers)
<1>1. /\ h \in Histories /\ b \in Seq(Int) /\ P \in Nat /\ F \in Nat
      /\ F <= P /\ P <= Len(t) /\ L \in Nat /\ Len(t) \in Nat /\ h.out \in Seq(Int)
      /\ t \in Seq(Int) /\ w \in Nat /\ w > Chunk /\ whole \in BOOLEAN /\ delivers \in BOOLEAN
      /\ whole => ~ delivers
  BY GoodTypes
<1>2. CASE P - F = 0
  <2>1. f = h
    BY <1>2 DEF Flush
  <2> QED
    BY <1>1, <1>2, <2>1 DEF Lapped, Emptied
<1>3. CASE P - F # 0
  <2> DEFINE s == Index(b, F)
             u == SubSeq(b, s + 1, s + (P - F))
  <2>1. f = [h EXCEPT !.flushed = P, !.out = IF delivers THEN h.out \o u ELSE h.out]
    BY <1>3 DEF Flush
  <2>2. ASSUME delivers
        PROVE  h.out \o u \in Seq(Int) /\ h.out \o u = SubSeq(t, 1, P)
    <3>1. ~ whole /\ (P <= L \/ w <= L) /\ ((F % L) + (P - F) <= L)
      BY <1>1, <1>3, <2>2 DEF Good, Roomy, Contiguous
    <3>2. \A p \in F .. P - 1 : At(b, p) = t[p + 1]
      BY <1>1, SMTT(30) DEF Good, Holds
    <3>3. h.out = SubSeq(t, 1, F)
      BY <2>2 DEF Good, Delivered
    <3> HIDE DEF P, F, b, L
    <3>4. L \in Nat \ {0}
      <4>1. P >= 1 /\ (P <= L \/ w <= L)
        BY <1>1, <1>3, <3>1
      <4> QED
        BY <1>1, <4>1, RingAssumption
    <3>5. s = F % L
      <4>1. Len(b) = L /\ F \in Int /\ b \in Seq(Int)
        BY <1>1 DEF L
      <4> QED
        BY <3>4, <4>1, AtIs
    <3>6. Goes(b, t, F, P, L)
      <4>1. Len(b) = L /\ b \in Seq(Int) /\ t \in Seq(Int) /\ F \in Nat /\ P \in Nat /\ F <= P /\ P <= Len(t)
        BY <1>1 DEF L
      <4>2. (F % L) + (P - F) <= L
        BY <3>1
      <4>3. Waits(b, t, F, P, L)
        BY <3>2, <3>4, <4>1, <4>2 DEF Waits
      <4> QED
        BY <4>3, Pending
    <3> HIDE DEF s
    <3>7. u \in Seq(Int) /\ SubSeq(t, 1, F) \o u = SubSeq(t, 1, P)
      BY <3>5, <3>6 DEF Goes
    <3>8. h.out \o u \in Seq(Int)
      BY <1>1, <3>7, ConcatProperties
    <3> QED
      BY <3>3, <3>7, <3>8
  <2> HIDE DEF u
  <2>3. /\ f.bytes = h.bytes /\ f.pos = h.pos /\ f.flushed = h.pos
        /\ f.out = IF delivers THEN h.out \o u ELSE h.out
        /\ f \in Histories
    BY <1>1, <2>1, <2>2 DEF Histories
  <2> HIDE DEF f
  <2>4. Holds(f, t, w, whole)
    BY <1>1, <2>3 DEF Good, Holds
  <2>5. Delivered(f, t, delivers, o)
    BY <2>2, <2>3 DEF Good, Delivered
  <2>6. Roomy(f, f.pos, w, whole) /\ Contiguous(f, whole)
    BY <1>1, <2>3 DEF Good, Roomy, Contiguous
  <2>7. Good(f, t, w, whole, delivers, o)
    BY <1>1, <2>3, <2>4, <2>5, <2>6 DEF Good
  <2> QED
    BY <2>3, <2>7 DEF Lapped, f, Emptied
<1> QED
  BY <1>2, <1>3

(* From b to c the bytes from position P on are the next n of t, and nothing *)
(* but x bytes from there on has changed.                                    *)
Wrote(b, c, t, P, n, x) ==
  /\ b \in Seq(Int) /\ c \in Seq(Int) /\ t \in Seq(Int) /\ P \in Nat /\ n \in Nat \ {0} /\ x \in Nat
  /\ Len(b) \in Nat \ {0} /\ Len(c) = Len(b) /\ P + n <= Len(t)
  /\ n <= x /\ x < n + Chunk /\ (P % Len(b)) + x <= Len(b)
  /\ \A i \in 1 .. Len(b) : i <= P % Len(b) \/ i > (P % Len(b)) + x => c[i] = b[i]
  /\ \A k \in 1 .. n : c[(P % Len(b)) + k] = t[P + k]

(* Only the positions a lap behind what is written are lost. *)
Survivor(b, c, P, x, p) == p \in Nat /\ p < P /\ P + x <= p + Len(b) => At(c, p) = At(b, p)

LEMMA Survives ==
  ASSUME NEW b, NEW c, NEW t, NEW P, NEW n, NEW x, Wrote(b, c, t, P, n, x), NEW p
  PROVE  Survivor(b, c, P, x, p)
<1> SUFFICES ASSUME p \in Nat, p < P, P + x <= p + Len(b) PROVE At(c, p) = At(b, p)
  BY DEF Survivor
<1> DEFINE L == Len(b)
           k == P - p
           r == p % L
           d == P % L
<1>1. /\ b \in Seq(Int) /\ c \in Seq(Int) /\ P \in Nat /\ x \in Nat /\ n \in Nat \ {0} /\ n <= x
      /\ L \in Nat \ {0} /\ Len(c) = L /\ d + x <= L /\ p \in Int
      /\ \A i \in 1 .. L : i <= d \/ i > d + x => c[i] = b[i]
  BY DEF Wrote
<1>2. At(c, p) = c[r + 1] /\ At(b, p) = b[r + 1] /\ r \in 0 .. L - 1 /\ d \in 0 .. L - 1
  <2>1. P \in Int /\ Len(b) = L
    BY <1>1
  <2> HIDE DEF L
  <2>2. At(c, p) = c[(p % L) + 1] /\ At(b, p) = b[(p % L) + 1]
    BY <1>1, <2>1, AtIs
  <2>3. p % L \in 0 .. L - 1 /\ P % L \in 0 .. L - 1
    BY <1>1, <2>1, Divides
  <2> QED
    BY <2>2, <2>3
<1>3. k \in Int /\ k > 0 /\ k + x <= L /\ p + k = P
  <2> HIDE DEF d, r
  <2> QED
    BY <1>1, SMTT(60)
<1>4. /\ 0 <= r + k /\ r + k < L => d = r + k
      /\ L <= r + k /\ r + k < 2 * L => d = r + k - L
  <2> HIDE DEF k, L
  <2>1. /\ 0 <= (p % L) + k /\ (p % L) + k < L => (p + k) % L = (p % L) + k
        /\ L <= (p % L) + k /\ (p % L) + k < 2 * L => (p + k) % L = (p % L) + k - L
    BY <1>1, <1>3, ModForward, ZenonT(60)
  <2>2. p + k = P
    BY <1>3
  <2> QED
    BY <2>1, <2>2
<1> HIDE DEF d, r, k, L
<1>5. r + 1 \in 1 .. L /\ (r + 1 <= d \/ r + 1 > d + x)
  <2>1. x >= 1
    BY <1>1
  <2>2. CASE r + k < L
    <3>1. d = r + k
      BY <1>2, <1>3, <1>4, <2>2
    <3> QED
      BY <1>1, <1>2, <1>3, <3>1
  <2>3. CASE r + k >= L
    <3>1. r + k < 2 * L
      BY <1>1, <1>2, <1>3
    <3>2. d = r + k - L
      BY <1>1, <1>2, <1>3, <1>4, <2>3, <3>1
    <3> QED
      BY <1>1, <1>2, <1>3, <3>2
  <2> QED
    BY <1>1, <1>2, <1>3, <2>2, <2>3
<1>6. c[r + 1] = b[r + 1]
  BY <1>1, <1>5
<1> QED
  BY <1>2, <1>6

(* g is h with n more bytes of t. *)
Longer(h, g, t, w, whole, n, x) ==
  /\ Wrote(h.bytes, g.bytes, t, h.pos, n, x)
  /\ g \in Histories /\ g.pos = h.pos + n /\ g.flushed = h.flushed /\ g.out = h.out
  /\ Roomy(h, h.pos + n, w, whole) /\ Lapped(h, whole)

LEMMA Writes ==
  ASSUME NEW t, NEW w, NEW whole, NEW delivers, NEW o, NEW h, NEW g, NEW n, NEW x,
         Good(h, t, w, whole, delivers, o), Longer(h, g, t, w, whole, n, x)
  PROVE  /\ Good(g, t, w, whole, delivers, o)
         /\ (h.pos % Len(h.bytes)) + n < Len(h.bytes) => Lapped(g, whole)
<1> DEFINE P == h.pos
           F == h.flushed
           b == h.bytes
           c == g.bytes
           L == Len(b)
           d == P % L
           f == F % L
<1>1. /\ t \in Seq(Int) /\ w \in Nat /\ w > Chunk /\ whole \in BOOLEAN /\ delivers \in BOOLEAN
      /\ whole => ~ delivers
      /\ b \in Seq(Int) /\ P \in Nat /\ F \in Nat /\ F <= P /\ P <= Len(t) /\ Len(t) \in Nat
  BY GoodTypes
<1>2. Wrote(b, c, t, P, n, x)
  BY DEF Longer
<1>3. /\ g \in Histories /\ g.pos = P + n /\ g.flushed = F /\ g.out = h.out /\ g.bytes = c
  BY DEF Longer
<1>4. P + n <= L \/ (~whole /\ w <= L)
  BY DEF Longer, Roomy
<1>5. /\ c \in Seq(Int) /\ n \in Nat \ {0} /\ x \in Nat /\ L \in Nat \ {0} /\ Len(c) = L
      /\ P + n <= Len(t) /\ n <= x /\ x < n + Chunk /\ d + x <= L
      /\ \A k \in 1 .. n : c[d + k] = t[P + k]
  BY <1>2 DEF Wrote
<1>6. whole \/ F = P \/ f + (P - F) < L
  BY DEF Longer, Lapped
<1>7. d \in 0 .. L - 1 /\ f \in 0 .. L - 1
  <2>1. P \in Int /\ F \in Int
    BY <1>1
  <2> QED
    BY <1>5, <2>1, Divides
<1>8. whole \/ (d + F <= P + f /\ P + f <= d + F)
  <2>1. CASE F = P
    <3>1. d = f
      BY <2>1
    <3> HIDE DEF d, f
    <3> QED
      BY <1>1, <1>7, <2>1, <3>1
  <2>2. CASE f + (P - F) < L
    <3> DEFINE k == P - F
    <3>1. k \in Nat /\ F + k = P /\ f + k < L
      <4> HIDE DEF f, L
      <4> QED
        BY <1>1, <2>2
    <3> HIDE DEF k, L
    <3>2. (F + k) % L = f + k
      BY <1>1, <1>5, <3>1, IndexForward, SMTT(30)
    <3>3. d = f + k
      BY <3>1, <3>2
    <3> HIDE DEF d, f
    <3> QED
      BY <1>1, <1>7, <3>1, <3>3
  <2> QED
    BY <1>6, <2>1, <2>2
<1>9. ASSUME NEW p \in 0 .. (P + n) - 1, whole \/ F <= p \/ (P + n) - (w - Chunk) <= p
      PROVE  At(c, p) = t[p + 1]
  <2>1. CASE p < P
    <3>1. P + x <= p + L
      <4>1. CASE P + n <= L
        <5>1. P \in 0 .. L - 1
          <6> HIDE DEF L, P, d
          <6> QED
            BY <1>1, <1>5, <4>1
        <5>2. d = P
          BY <1>5, <5>1, ModSmall
        <5> HIDE DEF d, L, P
        <5> QED
          BY <1>1, <1>5, <5>1, <5>2
      <4>2. CASE ~ (P + n <= L)
        <5>1. ~ whole /\ w <= L
          BY <1>4, <4>2
        <5>2. d + F <= P + f /\ P + f <= d + F
          BY <1>8, <5>1
        <5>3. F <= p \/ (P + n) - (w - Chunk) <= p
          BY <1>9, <5>1
        <5> HIDE DEF d, f, L, P, F
        <5>4. CASE F <= p
          BY <1>1, <1>5, <1>7, <5>2, <5>4
        <5>5. CASE (P + n) - (w - Chunk) <= p
          BY <1>1, <1>5, <5>1, <5>5, RingAssumption
        <5> QED
          BY <5>3, <5>4, <5>5
      <4> QED
        BY <4>1, <4>2
    <3>2. p \in Nat /\ P + x <= p + Len(b)
      BY <3>1
    <3>3. At(c, p) = At(b, p)
      BY <1>2, <2>1, <3>2, Survives DEF Survivor
    <3>4. p \in 0 .. P - 1 /\ (whole \/ F <= p \/ P - (w - Chunk) <= p)
      <4> HIDE DEF P, F, L, d, f
      <4>1. CASE (P + n) - (w - Chunk) <= p
        BY <1>1, <1>5, <2>1, <4>1, RingAssumption
      <4> QED
        BY <1>1, <1>9, <2>1, <4>1
    <3>5. At(b, p) = t[p + 1]
      BY <3>4 DEF Good, Holds
    <3> QED
      BY <3>3, <3>5
  <2>2. CASE p >= P
    <3> DEFINE k == p - P
    <3>1. k \in Nat /\ k < n /\ P + k = p
      <4> HIDE DEF P, F, L, d, f
      <4> QED
        BY <1>1, <1>5, <2>2
    <3>2. d + k < L /\ k + 1 \in 1 .. n /\ p \in Int
      <4> HIDE DEF P, F, L, d, f, k
      <4> QED
        BY <1>5, <1>7, <3>1
    <3>3. (P + k) % L = d + k
      <4> HIDE DEF L, k
      <4> QED
        BY <1>1, <1>5, <3>1, <3>2, IndexForward, ZenonT(60)
    <3>4. At(c, p) = c[(p % L) + 1]
      <4> HIDE DEF L, k
      <4> QED
        BY <1>5, <3>2, AtIs
    <3>5. p % L = d + k
      BY <3>1, <3>3
    <3> HIDE DEF L, d, k, P
    <3>6. (d + k) + 1 = d + (k + 1) /\ p + 1 = P + (k + 1)
      BY <1>1, <1>7, <3>1
    <3>7. c[d + (k + 1)] = t[P + (k + 1)]
      BY <1>5, <3>2
    <3> QED
      BY <3>4, <3>5, <3>6, <3>7
  <2> QED
    BY <1>1, <2>1, <2>2
<1>10. Holds(g, t, w, whole)
  BY <1>3, <1>9 DEF Holds
<1>11. /\ whole \/ f + ((P + n) - F) <= L
       /\ d + n < L => whole \/ f + ((P + n) - F) < L
  <2> HIDE DEF d, f, L, P, F
  <2> QED
    BY <1>1, <1>5, <1>7, <1>8
<1>12. Contiguous(g, whole) /\ (d + n < L => Lapped(g, whole))
  BY <1>3, <1>5, <1>11 DEF Contiguous, Lapped
<1>13. Roomy(g, g.pos, w, whole)
  BY <1>3, <1>4, <1>5 DEF Roomy
<1>14. g.flushed <= g.pos /\ g.pos <= Len(t)
  <2> HIDE DEF P, F, L, d
  <2> QED
    BY <1>1, <1>3, <1>5
<1>15. Delivered(g, t, delivers, o)
  BY <1>3 DEF Good, Delivered
<1>16. Good(g, t, w, whole, delivers, o)
  BY <1>1, <1>3, <1>10, <1>12, <1>13, <1>14, <1>15 DEF Good
<1> QED
  BY <1>12, <1>16

(* g is h with n more bytes of t, and nothing pends that reaches the end. *)
Stored(h, g, t, w, whole, delivers, o, n) ==
  /\ Good(g, t, w, whole, delivers, o) /\ Lapped(g, whole)
  /\ g.pos = h.pos + n /\ Len(g.bytes) = Len(h.bytes)

(* A write, and a delivery at the end of the buffer. *)
LEMMA WritesOn ==
  ASSUME NEW t, NEW w, NEW whole, NEW delivers, NEW o, NEW h, NEW g, NEW n, NEW x,
         Good(h, t, w, whole, delivers, o), Longer(h, g, t, w, whole, n, x)
  PROVE  /\ Stored(h, Flush(g, delivers), t, w, whole, delivers, o, n)
         /\ (h.pos % Len(h.bytes)) + n # Len(h.bytes) => Stored(h, g, t, w, whole, delivers, o, n)
<1> DEFINE L == Len(h.bytes)
           d == h.pos % L
<1>1. Good(g, t, w, whole, delivers, o) /\ (d + n < L => Lapped(g, whole))
  BY Writes
<1>2. g.pos = h.pos + n /\ Len(g.bytes) = L
  BY DEF Longer, Wrote
<1>3. Emptied(g, Flush(g, delivers), t, w, whole, delivers, o)
  BY <1>1, Flushes
<1>4. Stored(h, Flush(g, delivers), t, w, whole, delivers, o, n)
  BY <1>2, <1>3 DEF Emptied, Stored
<1>5. ASSUME d + n # L PROVE Stored(h, g, t, w, whole, delivers, o, n)
  <2>1. h.pos \in Int /\ L \in Nat \ {0} /\ n \in Nat /\ x \in Nat /\ n <= x /\ d + x <= L
    BY DEF Longer, Wrote
  <2>2. d \in 0 .. L - 1
    BY <2>1, Divides
  <2>3. d + n < L
    <3> HIDE DEF d, L
    <3> QED
      BY <1>5, <2>1, <2>2
  <2> QED
    BY <1>1, <1>2, <2>3 DEF Stored
<1> QED
  BY <1>4, <1>5

(* One byte. *)
LEMMA Puts ==
  ASSUME NEW t, NEW w, NEW whole, NEW delivers, NEW o, NEW h,
         Good(h, t, w, whole, delivers, o), Lapped(h, whole), Roomy(h, h.pos + 1, w, whole),
         h.pos < Len(t)
  PROVE  Stored(h, Put(h, t[h.pos + 1], delivers), t, w, whole, delivers, o, 1)
<1> DEFINE P == h.pos
           b == h.bytes
           L == Len(b)
           d == P % L
           e == t[P + 1]
           c == [b EXCEPT ![d + 1] = e]
           g == [h EXCEPT !.bytes[Index(h.bytes, h.pos) + 1] = e, !.pos = @ + 1]
<1>1. /\ t \in Seq(Int) /\ w \in Nat /\ w > Chunk /\ whole \in BOOLEAN
      /\ h \in Histories /\ b \in Seq(Int) /\ P \in Nat /\ L \in Nat /\ Len(t) \in Nat
  BY GoodTypes
<1>2. L \in Nat \ {0}
  <2>1. P + 1 <= L \/ w <= L
    BY DEF Roomy
  <2> HIDE DEF P, L
  <2> QED
    BY <1>1, <2>1, RingAssumption
<1>3. d \in 0 .. L - 1 /\ Index(b, P) = d
  <2>1. P \in Int
    BY <1>1
  <2> QED
    BY <1>1, <1>2, <2>1, Divides, AtIs
<1>4. e \in Int
  <2>1. P + 1 \in 1 .. Len(t)
    <3> HIDE DEF P
    <3>1. P < Len(t)
      BY DEF P
    <3> QED
      BY <1>1, <3>1
  <2> QED
    BY <1>1, <2>1, ElementOfSeq
<1>5. d + 1 \in 1 .. L
  <2> HIDE DEF d, L
  <2> QED
    BY <1>2, <1>3
<1> HIDE DEF e
<1>6. /\ c \in Seq(Int) /\ Len(c) = L
      /\ \A j \in 1 .. L : c[j] = IF j = d + 1 THEN e ELSE b[j]
  <2> HIDE DEF d
  <2> QED
    BY <1>1, <1>4, <1>5, ExceptSeq, SMTT(30)
<1>7. g.bytes = c /\ g.pos = P + 1 /\ g.flushed = h.flushed /\ g.out = h.out /\ g \in Histories
  <2> HIDE DEF d, L, c
  <2>1. [b EXCEPT ![Index(b, P) + 1] = e] = c
    BY <1>3 DEF c
  <2>2. g = [h EXCEPT !.bytes = c, !.pos = P + 1]
    BY <1>1, <2>1 DEF Histories
  <2>3. c \in Seq(Int)
    BY <1>6
  <2>4. h.flushed \in Nat /\ h.out \in Seq(Int) /\ P + 1 \in Nat
    BY <1>1 DEF Histories
  <2> HIDE DEF b, g, P
  <2>5. g = [bytes |-> c, pos |-> P + 1, flushed |-> h.flushed, out |-> h.out]
    BY <1>1, <2>2 DEF Histories
  <2> QED
    BY <2>3, <2>4, <2>5 DEF Histories
<1> HIDE DEF g
<1>8. Wrote(b, c, t, P, 1, 1)
  <2> HIDE DEF c
  <2>1. 1 < 1 + Chunk /\ P + 1 <= Len(t)
    <3>1. P < Len(t)
      OBVIOUS
    <3> HIDE DEF P
    <3> QED
      BY <1>1, <3>1, RingAssumption
  <2>2. \A i \in 1 .. L : i <= d \/ i > d + 1 => c[i] = b[i]
    <3> HIDE DEF d, L
    <3> QED
      BY <1>2, <1>3, <1>6
  <2>3. \A k \in 1 .. 1 : c[d + k] = t[P + k]
    <3> HIDE DEF d, L
    <3>1. c[d + 1] = e
      BY <1>5, <1>6
    <3>2. c[d + 1] = t[P + 1]
      BY <3>1 DEF e
    <3> QED
      BY <3>2
  <2>4. d + 1 <= L
    BY <1>5
  <2> HIDE DEF P, b
  <2> QED
    BY <1>1, <1>2, <1>6, <2>1, <2>2, <2>3, <2>4 DEF Wrote
<1>9. Longer(h, g, t, w, whole, 1, 1)
  <2>1. Wrote(h.bytes, g.bytes, t, h.pos, 1, 1)
    BY <1>7, <1>8
  <2> HIDE DEF c
  <2> QED
    BY <1>7, <2>1 DEF Longer
<1>10. /\ Stored(h, Flush(g, delivers), t, w, whole, delivers, o, 1)
       /\ d + 1 # L => Stored(h, g, t, w, whole, delivers, o, 1)
  BY <1>9, WritesOn
<1>11. CASE g.pos % Len(g.bytes) = 0
  <2>1. Put(h, e, delivers) = Flush(g, delivers)
    BY <1>11 DEF Put, g
  <2> QED
    BY <1>10, <2>1 DEF e
<1>12. CASE g.pos % Len(g.bytes) # 0
  <2>1. Put(h, e, delivers) = g
    BY <1>12 DEF Put, g
  <2>2. (P + 1) % L # 0
    BY <1>6, <1>7, <1>12
  <2>3. d + 1 # L
    <3> SUFFICES ASSUME d + 1 = L PROVE FALSE
      OBVIOUS
    <3>1. L <= d + 1 /\ d + 1 < 2 * L => (P + 1) % L = d + 1 - L
      <4>1. P \in Int /\ 1 \in Int
        BY <1>1
      <4> HIDE DEF P, L
      <4> QED
        BY <1>2, <4>1, ModForward, ZenonT(60)
    <3> DEFINE m == (P + 1) % L
    <3>2. m # 0 /\ (L <= d + 1 /\ d + 1 < 2 * L => m = d + 1 - L)
      BY <2>2, <3>1
    <3>3. d + 1 = L
      OBVIOUS
    <3> HIDE DEF m, d, L
    <3> QED
      BY <1>2, <1>3, <3>2, <3>3
  <2> QED
    BY <1>10, <2>1, <2>3 DEF e
<1> QED
  BY <1>11, <1>12

-----------------------------------------------------------------------------
(* The loops: a recursive function over their rounds exists, and every round *)
(* stores what the text goes on with.                                        *)

LEMMA Climb ==
  ASSUME NEW n \in Nat, NEW S, 0 \in S, \A k \in 0 .. n - 1 : k \in S => k + 1 \in S
  PROVE  \A k \in 0 .. n : k \in S
<1> DEFINE N == {k \in 0 .. n : k \notin S}
<1> SUFFICES ASSUME N # {} PROVE FALSE
  OBVIOUS
<1>1. N \subseteq Nat
  OBVIOUS
<1> HIDE DEF N
<1>2. PICK k \in N : \A j \in N : k <= j
  BY <1>1, LeastNatural
<1>3. k \in 0 .. n /\ k \notin S
  BY DEF N
<1>4. k # 0
  BY <1>3
<1>5. k - 1 \in 0 .. n - 1 /\ k - 1 \in 0 .. n /\ ~ (k <= k - 1) /\ (k - 1) + 1 = k
  BY <1>3, <1>4
<1>6. k - 1 \in S
  BY <1>2, <1>5 DEF N
<1> QED
  BY <1>3, <1>5, <1>6

WritesInRounds(h, s, delivers) ==
  \E f : /\ WriteRing(h, s, delivers) = f[Len(s)] /\ f[0] = h
         /\ \A k \in 1 .. Len(s) : f[k] = Put(f[k - 1], s[k], delivers)

LEMMA WriteRingIs == ASSUME NEW h, NEW s, Len(s) \in Nat, NEW delivers PROVE WritesInRounds(h, s, delivers)
<1> DEFINE n == Len(s)
           Is(f, m) == f = [k \in 0 .. m |-> IF k = 0 THEN h ELSE Put(f[k - 1], s[k], delivers)]
           S == {m \in Nat : \E f : Is(f, m)}
<1>1. 0 \in S
  <2> DEFINE f == [k \in 0 .. 0 |-> h]
  <2>1. f = [k \in 0 .. 0 |-> IF k = 0 THEN h ELSE Put(f[k - 1], s[k], delivers)]
    OBVIOUS
  <2>2. Is(f, 0)
    BY <2>1
  <2> QED
    BY <2>2
<1>2. ASSUME NEW j \in 0 .. n - 1, j \in S PROVE j + 1 \in S
  <2>1. PICK f : Is(f, j)
    BY <1>2
  <2> DEFINE m == j + 1
             g == [k \in 0 .. m |-> IF k = m THEN Put(f[j], s[m], delivers) ELSE f[k]]
  <2>2. \A k \in 0 .. j : f[k] = IF k = 0 THEN h ELSE Put(f[k - 1], s[k], delivers)
    BY <2>1
  <2>3. ASSUME NEW k \in 0 .. m PROVE g[k] = IF k = 0 THEN h ELSE Put(g[k - 1], s[k], delivers)
    <3>1. CASE k = 0
      <4>1. 0 \in 0 .. j /\ g[k] = f[k]
        BY <3>1
      <4> QED
        BY <2>2, <3>1, <4>1
    <3>2. CASE k # 0 /\ k < m
      <4>1. k \in 0 .. j /\ k - 1 \in 0 .. m /\ k - 1 # m
        BY <3>2
      <4>2. g[k] = f[k] /\ g[k - 1] = f[k - 1]
        BY <3>2, <4>1
      <4> QED
        BY <2>2, <3>2, <4>1, <4>2
    <3>3. CASE k = m
      <4>1. k - 1 = j /\ j \in 0 .. m /\ j # m
        BY <3>3
      <4>2. g[k - 1] = f[j] /\ g[k] = Put(f[j], s[m], delivers)
        BY <3>3, <4>1
      <4> QED
        BY <3>3, <4>2
    <3> QED
      BY <3>1, <3>2, <3>3
  <2>4. Is(g, m)
    <3>1. g = [k \in 0 .. m |-> g[k]]
      OBVIOUS
    <3> HIDE DEF g
    <3> QED
      BY <2>3, <3>1
  <2>5. m \in Nat
    OBVIOUS
  <2> HIDE DEF Is, g, m
  <2>6. m \in S
    BY <2>4, <2>5
  <2> QED
    BY <2>6 DEF m
<1>3. \E f : Is(f, n)
  <2> HIDE DEF S
  <2>1. \A k \in 0 .. n : k \in S
    BY <1>1, <1>2, Climb
  <2>2. n \in 0 .. n
    OBVIOUS
  <2> QED
    BY <2>1, <2>2 DEF S
<1> DEFINE W == CHOOSE f : Is(f, n)
<1>4. Is(W, n)
  <2> HIDE DEF Is
  <2> QED
    BY <1>3, Zenon
<1>5. WriteRing(h, s, delivers) = W[n]
  BY Zenon DEF WriteRing
<1>6. W[0] = h /\ \A k \in 1 .. n : W[k] = Put(W[k - 1], s[k], delivers)
  <2> HIDE DEF W
  <2>1. \A k \in 0 .. n : W[k] = IF k = 0 THEN h ELSE Put(W[k - 1], s[k], delivers)
    BY <1>4
  <2>2. 0 \in 0 .. n /\ \A k \in 1 .. n : k \in 0 .. n /\ k # 0
    OBVIOUS
  <2> QED
    BY <2>1, <2>2
<1> QED
  BY <1>5, <1>6 DEF WritesInRounds

(* s is what the text goes on with. *)
Ahead(h, t, w, whole, s, n) ==
  /\ Len(s) = n /\ n \in Nat /\ h.pos + n <= Len(t) /\ Roomy(h, h.pos + n, w, whole)
  /\ \A k \in 1 .. n : s[k] = t[h.pos + k]

LEMMA WritesRing ==
  ASSUME NEW t, NEW w, NEW whole, NEW delivers, NEW o, NEW h, NEW s, NEW n,
         Good(h, t, w, whole, delivers, o), Lapped(h, whole), Ahead(h, t, w, whole, s, n)
  PROVE  Stored(h, WriteRing(h, s, delivers), t, w, whole, delivers, o, n)
<1>0. h.pos \in Nat /\ w \in Nat /\ Len(t) \in Nat /\ n \in Nat /\ Len(s) = n /\ Len(h.bytes) \in Nat
  BY GoodTypes DEF Ahead
<1>1. PICK f : /\ WriteRing(h, s, delivers) = f[n] /\ f[0] = h
               /\ \A k \in 1 .. n : f[k] = Put(f[k - 1], s[k], delivers)
  <2>1. Len(s) \in Nat
    BY <1>0
  <2>2. WritesInRounds(h, s, delivers)
    BY <2>1, WriteRingIs
  <2> QED
    BY <1>0, <2>2 DEF WritesInRounds
<1> DEFINE S == {k \in 0 .. n : Stored(h, f[k], t, w, whole, delivers, o, k)}
<1>2. 0 \in S
  <2>1. Stored(h, h, t, w, whole, delivers, o, 0)
    BY <1>0 DEF Stored
  <2> QED
    BY <1>0, <1>1, <2>1
<1>3. ASSUME NEW j \in 0 .. n - 1, j \in S PROVE j + 1 \in S
  <2> DEFINE g == f[j]
             k == j + 1
  <2>1. Good(g, t, w, whole, delivers, o) /\ Lapped(g, whole) /\ g.pos = h.pos + j /\ Len(g.bytes) = Len(h.bytes)
    BY <1>3 DEF Stored
  <2>2. k \in 1 .. n /\ k \in 0 .. n /\ k - 1 = j
    BY <1>0
  <2>3. f[k] = Put(g, s[k], delivers)
    BY <1>1, <2>2
  <2> HIDE DEF g
  <2>4. g.pos + 1 = h.pos + k /\ g.pos < Len(t)
    <3>1. h.pos + n <= Len(t)
      BY DEF Ahead
    <3> QED
      BY <1>0, <2>1, <2>2, <3>1
  <2>5. s[k] = t[g.pos + 1]
    BY <2>2, <2>4 DEF Ahead
  <2>6. Roomy(g, g.pos + 1, w, whole)
    <3>1. h.pos + n <= Len(h.bytes) \/ (~ whole /\ w <= Len(h.bytes))
      BY DEF Ahead, Roomy
    <3> QED
      BY <1>0, <2>1, <2>2, <2>4, <3>1, SMTT(30) DEF Roomy
  <2>7. Stored(g, Put(g, t[g.pos + 1], delivers), t, w, whole, delivers, o, 1)
    BY <2>1, <2>4, <2>6, Puts
  <2>8. Stored(h, f[k], t, w, whole, delivers, o, k)
    BY <2>1, <2>3, <2>4, <2>5, <2>7 DEF Stored
  <2> HIDE DEF k
  <2>9. k \in S
    BY <2>2, <2>8
  <2> QED
    BY <2>9 DEF k
<1>4. n \in S
  <2> HIDE DEF S
  <2>1. \A k \in 0 .. n : k \in S
    BY <1>0, <1>2, <1>3, Climb
  <2> QED
    BY <1>0, <2>1
<1> QED
  BY <1>1, <1>4

-----------------------------------------------------------------------------
(* Copies. *)

(* From position P on the next n bytes of t repeat those d before. *)
Recurs(t, P, d, n) == \A k \in 1 .. n : t[P + k] = t[(P + k) - d]

(* The j-th of them is one of the d. *)
Repeat(t, P, d, j) == t[P + (j + 1)] = t[(P - d) + ((j % d) + 1)]

LEMMA Repeats ==
  ASSUME NEW t, NEW P \in Nat, NEW d \in Nat \ {0}, NEW n \in Nat, Recurs(t, P, d, n), NEW j \in 0 .. n - 1
  PROVE  Repeat(t, P, d, j)
<1> USE DEF Repeat
<1> DEFINE Is(k) == t[P + (k + 1)] = t[(P - d) + ((k % d) + 1)]
           N == {k \in 0 .. n - 1 : ~ Is(k)}
<1> SUFFICES ASSUME N # {} PROVE FALSE
  OBVIOUS
<1>1. N \subseteq Nat
  OBVIOUS
<1> HIDE DEF N
<1>2. PICK k \in N : \A i \in N : k <= i
  BY <1>1, LeastNatural
<1>3. k \in 0 .. n - 1 /\ ~ Is(k)
  BY DEF N
<1>4. t[P + (k + 1)] = t[(P + (k + 1)) - d]
  BY <1>3 DEF Recurs
<1>5. CASE k < d
  <2>1. k \in 0 .. d - 1
    BY <1>3, <1>5
  <2>2. k % d = k
    BY <2>1, ModSmall
  <2>3. (P + (k + 1)) - d = (P - d) + (k + 1)
    BY <1>3
  <2> QED
    BY <1>3, <1>4, <2>2, <2>3
<1>6. CASE k >= d
  <2> DEFINE i == k - d
             r == k % d
  <2>1. i \in 0 .. n - 1 /\ ~ (k <= i) /\ (P + (k + 1)) - d = P + (i + 1) /\ i = k + -d
    BY <1>3, <1>6
  <2>2. Is(i)
    BY <1>2, <2>1 DEF N
  <2>3. k \in Int /\ -d \in Int
    BY <1>3
  <2>4. r \in 0 .. d - 1
    BY <2>3, Divides
  <2>5. -d <= r + -d /\ r + -d < 0 => (k + -d) % d = r + -d + d
    BY <2>3, ModForward
  <2>6. i % d = r
    <3> HIDE DEF r
    <3>1. (k + -d) % d = r
      BY <2>4, <2>5
    <3> QED
      BY <2>1, <3>1
  <2> HIDE DEF i, r
  <2>7. t[P + (i + 1)] = t[(P - d) + (r + 1)]
    BY <2>2, <2>6
  <2>8. t[P + (k + 1)] = t[(P - d) + (r + 1)]
    BY <1>4, <2>1, <2>7
  <2> QED
    BY <1>3, <2>8 DEF r
<1> QED
  BY <1>3, <1>5, <1>6

(* A copy of n bytes from distance d, out of a buffer b that holds them. *)
Sources(b, t, P, d, n) ==
  /\ b \in Seq(Int) /\ Len(b) \in Nat \ {0} /\ t \in Seq(Int) /\ P \in Nat
  /\ d \in Nat \ {0} /\ d <= P /\ n \in Nat \ {0} /\ P + n <= Len(t)
  /\ \A p \in P - d .. P - 1 : At(b, p) = t[p + 1]
  /\ Recurs(t, P, d, n)

(* The source of the copy's j-th byte, if that does not wrap. *)
Reads(b, t, P, d, j) ==
  j \in 0 .. d - 1 /\ ((P - d) % Len(b)) + j < Len(b)
    => b[((P - d) % Len(b)) + (j + 1)] = t[(P - d) + (j + 1)]

LEMMA SourceIs ==
  ASSUME NEW b, NEW t, NEW P, NEW d, NEW n, Sources(b, t, P, d, n), NEW j
  PROVE  Reads(b, t, P, d, j)
<1> DEFINE L == Len(b)
           a == P - d
           s == a % L
<1> SUFFICES ASSUME j \in 0 .. d - 1, s + j < L PROVE b[s + (j + 1)] = t[a + (j + 1)]
  BY DEF Reads
<1>1. /\ b \in Seq(Int) /\ L \in Nat \ {0} /\ P \in Nat /\ d \in Nat \ {0} /\ d <= P
      /\ \A p \in P - d .. P - 1 : At(b, p) = t[p + 1]
  BY DEF Sources
<1>2. a \in Nat /\ j \in Nat /\ a + j \in P - d .. P - 1 /\ a + j \in Int
  <2> HIDE DEF s, L
  <2> QED
    BY <1>1
<1> HIDE DEF a
<1>3. (a + j) % L = s + j
  <2> HIDE DEF L
  <2> QED
    BY <1>1, <1>2, IndexForward
<1>4. At(b, a + j) = b[((a + j) % L) + 1]
  <2>1. Len(b) = L
    OBVIOUS
  <2> HIDE DEF L
  <2> QED
    BY <1>1, <1>2, <2>1, AtIs
<1>5. At(b, a + j) = t[(a + j) + 1]
  BY <1>1, <1>2
<1>6. s \in 0 .. L - 1
  <2>1. a \in Int
    BY <1>2
  <2> QED
    BY <1>1, <2>1, Divides
<1> HIDE DEF s, L
<1>7. (s + j) + 1 = s + (j + 1) /\ (a + j) + 1 = a + (j + 1)
  BY <1>2, <1>6
<1> QED
  BY <1>3, <1>4, <1>5, <1>7

(* A snapshot of m bytes, of which n count. *)
Movable(b, t, P, d, n, m) ==
  /\ Sources(b, t, P, d, n) /\ n <= d /\ m \in Nat /\ n <= m /\ m < n + Chunk
  /\ ((P - d) % Len(b)) + m <= Len(b) /\ (P % Len(b)) + m <= Len(b)

LEMMA MovedWrites ==
  ASSUME NEW b, NEW t, NEW P, NEW d, NEW n, NEW m, Movable(b, t, P, d, n, m)
  PROVE  Wrote(b, Moved(b, (P - d) % Len(b), P % Len(b), m), t, P, n, m)
<1> DEFINE L == Len(b)
           src == (P - d) % L
           dst == P % L
           c == Moved(b, src, dst, m)
<1>1. /\ b \in Seq(Int) /\ L \in Nat \ {0} /\ t \in Seq(Int) /\ P \in Nat /\ d \in Nat \ {0} /\ d <= P
      /\ n \in Nat \ {0} /\ P + n <= Len(t) /\ n <= d /\ m \in Nat /\ n <= m /\ m < n + Chunk
      /\ src + m <= L /\ dst + m <= L /\ Recurs(t, P, d, n)
  BY DEF Movable, Sources
<1>2. src \in 0 .. L - 1 /\ dst \in 0 .. L - 1
  <2>1. P \in Int /\ P - d \in Int
    BY <1>1
  <2> QED
    BY <1>1, <2>1, Divides
<1>0. DOMAIN b = 1 .. L
  BY <1>1, LenProperties
<1>3. \A i \in 1 .. L : b[i] \in Int
  BY <1>1, ElementOfSeq
<1>4. ASSUME NEW j \in 0 .. n - 1 PROVE b[src + (j + 1)] = t[P + (j + 1)]
  <2>1. Reads(b, t, P, d, j)
    BY SourceIs DEF Movable
  <2>2. src + j < L /\ j \in 0 .. d - 1 /\ j + 1 \in 1 .. n
    <3> HIDE DEF src, dst, L
    <3> QED
      BY <1>1, <1>2
  <2>3. b[src + (j + 1)] = t[(P - d) + (j + 1)]
    BY <2>1, <2>2 DEF Reads
  <2>4. t[P + (j + 1)] = t[(P + (j + 1)) - d]
    BY <1>1, <2>2 DEF Recurs
  <2>5. (P + (j + 1)) - d = (P - d) + (j + 1)
    <3> HIDE DEF src, dst, L
    <3> QED
      BY <1>1
  <2> QED
    BY <2>3, <2>4, <2>5
<1> HIDE DEF src, dst, L
<1>5. c = [i \in 1 .. L |-> IF i - 1 \in dst .. dst + m - 1 THEN b[src + i - dst] ELSE b[i]]
  BY <1>0, Zenon DEF Moved
<1>6. ASSUME NEW i \in 1 .. L
      PROVE  /\ (IF i - 1 \in dst .. dst + m - 1 THEN b[src + i - dst] ELSE b[i]) \in Int
             /\ (i <= dst \/ i > dst + m) => ~ (i - 1 \in dst .. dst + m - 1)
  <2>1. CASE i - 1 \in dst .. dst + m - 1
    <3>1. src + i - dst \in 1 .. L
      BY <1>1, <1>2, <2>1
    <3>2. ~ (i <= dst \/ i > dst + m)
      BY <1>1, <1>2, <2>1
    <3> QED
      BY <1>3, <2>1, <3>1, <3>2
  <2>2. CASE ~ (i - 1 \in dst .. dst + m - 1)
    BY <1>3, <2>2
  <2> QED
    BY <2>1, <2>2
<1>7. c \in Seq(Int) /\ Len(c) = L
  <2>1. c \in [1 .. L -> Int]
    BY <1>5, <1>6
  <2> QED
    BY <1>1, <2>1, TableIsSeq
<1> HIDE DEF c
<1>8. \A i \in 1 .. L : i <= dst \/ i > dst + m => c[i] = b[i]
  BY <1>5, <1>6
<1>9. ASSUME NEW k \in 1 .. n PROVE c[dst + k] = t[P + k]
  <2>1. dst + k \in 1 .. L /\ (dst + k) - 1 \in dst .. dst + m - 1 /\ src + (dst + k) - dst = src + k
    BY <1>1, <1>2
  <2>2. c[dst + k] = b[src + k]
    BY <1>5, <2>1
  <2>3. k - 1 \in 0 .. n - 1 /\ (k - 1) + 1 = k
    BY <1>1
  <2> QED
    BY <1>4, <2>2, <2>3
<1> QED
  BY <1>1, <1>7, <1>8, <1>9 DEF Wrote, c, L, src, dst

(* Bytes that overlap their source. *)
Repeatable(b, t, P, d, n) ==
  /\ Sources(b, t, P, d, n)
  /\ ((P - d) % Len(b)) + n <= Len(b) /\ (P % Len(b)) + n <= Len(b)

LEMMA RepeatedWrites ==
  ASSUME NEW b, NEW t, NEW P, NEW d, NEW n, Repeatable(b, t, P, d, n)
  PROVE  Wrote(b, Repeated(b, (P - d) % Len(b), P % Len(b), n, d), t, P, n, n)
<1> DEFINE L == Len(b)
           src == (P - d) % L
           dst == P % L
           c == Repeated(b, src, dst, n, d)
<1>1. /\ b \in Seq(Int) /\ L \in Nat \ {0} /\ t \in Seq(Int) /\ P \in Nat /\ d \in Nat \ {0} /\ d <= P
      /\ n \in Nat \ {0} /\ P + n <= Len(t) /\ src + n <= L /\ dst + n <= L /\ Recurs(t, P, d, n)
  BY DEF Repeatable, Sources
<1>2. src \in 0 .. L - 1 /\ dst \in 0 .. L - 1
  <2>1. P \in Int /\ P - d \in Int
    BY <1>1
  <2> QED
    BY <1>1, <2>1, Divides
<1>0. DOMAIN b = 1 .. L
  BY <1>1, LenProperties
<1>3. \A i \in 1 .. L : b[i] \in Int
  BY <1>1, ElementOfSeq
<1>4. ASSUME NEW j \in 0 .. n - 1
      PROVE  /\ b[src + (j % d) + 1] = t[P + (j + 1)]
             /\ src + (j % d) + 1 \in 1 .. L
  <2> DEFINE r == j % d
  <2>1. r \in 0 .. d - 1 /\ r <= j
    <3>1. j \in Int
      OBVIOUS
    <3>2. r \in 0 .. d - 1
      BY <1>1, <3>1, Divides
    <3>3. CASE j < d
      <4>1. j \in 0 .. d - 1
        BY <3>1, <3>3, <1>1
      <4> QED
        <5>1. j % d = j
          BY <1>1, <4>1, ModSmall
        <5>2. r = j
          BY <5>1
        <5> HIDE DEF r
        <5> QED
          BY <3>1, <3>2, <5>2
    <3>4. CASE j >= d
      <4> HIDE DEF r
      <4> QED
        BY <1>1, <3>1, <3>2, <3>4
    <3> QED
      BY <1>1, <3>1, <3>2, <3>3, <3>4
  <2>2. Reads(b, t, P, d, r)
    BY SourceIs DEF Repeatable
  <2>3. t[P + (j + 1)] = t[(P - d) + (r + 1)]
    <3>1. n \in Nat /\ P \in Nat /\ d \in Nat \ {0} /\ Recurs(t, P, d, n)
      BY <1>1
    <3>2. Repeat(t, P, d, j)
      BY <3>1, Repeats
    <3> QED
      BY <3>2 DEF Repeat
  <2> HIDE DEF r
  <2>4. src + r < L /\ src + r + 1 \in 1 .. L /\ src + r + 1 = src + (r + 1)
    <3> HIDE DEF src, dst, L
    <3> QED
      BY <1>1, <1>2, <2>1
  <2>5. b[src + (r + 1)] = t[(P - d) + (r + 1)]
    BY <2>1, <2>2, <2>4 DEF Reads
  <2> QED
    BY <2>3, <2>4, <2>5 DEF r
<1> HIDE DEF src, dst, L
<1>5. c = [i \in 1 .. L |-> IF i - 1 \in dst .. dst + n - 1
                            THEN b[src + ((i - 1 - dst) % d) + 1] ELSE b[i]]
  BY <1>0, Zenon DEF Repeated
<1>6. ASSUME NEW i \in 1 .. L
      PROVE  /\ (IF i - 1 \in dst .. dst + n - 1 THEN b[src + ((i - 1 - dst) % d) + 1] ELSE b[i]) \in Int
             /\ (i <= dst \/ i > dst + n) => ~ (i - 1 \in dst .. dst + n - 1)
  <2>1. CASE i - 1 \in dst .. dst + n - 1
    <3>1. i - 1 - dst \in 0 .. n - 1
      BY <1>1, <1>2, <2>1
    <3>2. ~ (i <= dst \/ i > dst + n)
      BY <1>1, <1>2, <2>1
    <3>3. src + ((i - 1 - dst) % d) + 1 \in 1 .. L
      BY <1>4, <3>1
    <3> QED
      BY <1>3, <2>1, <3>2, <3>3
  <2>2. CASE ~ (i - 1 \in dst .. dst + n - 1)
    BY <1>3, <2>2
  <2> QED
    BY <2>1, <2>2
<1>7. c \in Seq(Int) /\ Len(c) = L
  <2>1. c \in [1 .. L -> Int]
    BY <1>5, <1>6
  <2> QED
    BY <1>1, <2>1, TableIsSeq
<1> HIDE DEF c
<1>8. \A i \in 1 .. L : i <= dst \/ i > dst + n => c[i] = b[i]
  BY <1>5, <1>6
<1>9. ASSUME NEW k \in 1 .. n PROVE c[dst + k] = t[P + k]
  <2>1. dst + k \in 1 .. L /\ (dst + k) - 1 \in dst .. dst + n - 1 /\ (dst + k) - 1 - dst = k - 1
    BY <1>1, <1>2
  <2>2. c[dst + k] = b[src + ((k - 1) % d) + 1]
    BY <1>5, <2>1
  <2>3. k - 1 \in 0 .. n - 1 /\ (k - 1) + 1 = k
    BY <1>1
  <2> QED
    BY <1>4, <2>2, <2>3
<1>10. n < n + Chunk
  BY <1>1, RingAssumption
<1> QED
  BY <1>1, <1>7, <1>8, <1>9, <1>10 DEF Wrote, c, L, src, dst

(* A piece of a copy: it wraps on neither side, and its distance is less than *)
(* the length of the buffer.                                                  *)
Pieced(b, t, P, d, n) == Repeatable(b, t, P, d, n) /\ d < Len(b)

Rewrote(b, c, t, P, n) == \E x : Wrote(b, c, t, P, n, x)

LEMMA PieceWrites ==
  ASSUME NEW b, NEW t, NEW P, NEW d, NEW n, Pieced(b, t, P, d, n)
  PROVE  Rewrote(b, Piece(b, (P - d) % Len(b), P % Len(b), n, d), t, P, n)
<1> DEFINE L == Len(b)
           src == (P - d) % L
           dst == P % L
           c == Piece(b, src, dst, n, d)
<1>1. /\ L \in Nat \ {0} /\ P \in Nat /\ d \in Nat \ {0} /\ d < L /\ n \in Nat \ {0}
      /\ src + n <= L /\ dst + n <= L /\ Sources(b, t, P, d, n)
  BY DEF Pieced, Repeatable, Sources
<1>2. src \in 0 .. L - 1 /\ dst \in 0 .. L - 1
  <2>1. P \in Int /\ P - d \in Int
    BY <1>1
  <2> QED
    BY <1>1, <2>1, Divides
<1>3. /\ 0 <= dst + -d /\ dst + -d < L => src = dst + -d
      /\ -L <= dst + -d /\ dst + -d < 0 => src = dst + -d + L
  <2>1. P \in Int /\ -d \in Int /\ P + -d = P - d
    BY <1>1
  <2> HIDE DEF L
  <2>2. /\ 0 <= (P % L) + -d /\ (P % L) + -d < L => (P + -d) % L = (P % L) + -d
        /\ -L <= (P % L) + -d /\ (P % L) + -d < 0 => (P + -d) % L = (P % L) + -d + L
    BY <1>1, <2>1, ModForward, ZenonT(60)
  <2> QED
    BY <2>1, <2>2
<1>4. CASE src < dst /\ d < n
  <2>1. c = Repeated(b, src, dst, n, d)
    <3> HIDE DEF src, dst
    <3> QED
      BY <1>4 DEF Piece
  <2>2. Wrote(b, c, t, P, n, n)
    BY <2>1, RepeatedWrites DEF Pieced
  <2> QED
    BY <2>2 DEF Rewrote
<1>5. CASE ~ (src < dst /\ d < n)
  <2>1. n <= d
    <3> HIDE DEF src, dst, L
    <3> QED
      BY <1>1, <1>2, <1>3, <1>5
  <2>2. CASE n <= Chunk /\ Fits(b, src, dst, Chunk)
    <3>1. c = Moved(b, src, dst, Chunk)
      <4> HIDE DEF src, dst
      <4> QED
        BY <1>5, <2>2 DEF Piece
    <3>2. n <= Chunk /\ src + Chunk <= L /\ dst + Chunk <= L
      BY <2>2 DEF Fits
    <3>3. Chunk \in Nat /\ Chunk < n + Chunk
      BY <1>1, RingAssumption
    <3>4. Movable(b, t, P, d, n, Chunk)
      BY <1>1, <2>1, <3>2, <3>3 DEF Movable
    <3>5. Wrote(b, c, t, P, n, Chunk)
      BY <3>1, <3>4, MovedWrites
    <3> QED
      BY <3>5 DEF Rewrote
  <2>3. CASE ~ (n <= Chunk /\ Fits(b, src, dst, Chunk))
    <3>1. c = Moved(b, src, dst, n)
      <4> HIDE DEF src, dst
      <4> QED
        BY <1>5, <2>3 DEF Piece
    <3>2. n \in Nat /\ n <= n /\ n < n + Chunk
      BY <1>1, RingAssumption
    <3>3. Movable(b, t, P, d, n, n)
      BY <1>1, <2>1, <3>2 DEF Movable
    <3>4. Wrote(b, c, t, P, n, n)
      BY <3>1, <3>3, MovedWrites
    <3> QED
      BY <3>4 DEF Rewrote
  <2> QED
    BY <2>2, <2>3
<1> QED
  BY <1>4, <1>5

(* A copy of n bytes from distance d may be made. *)
Copying(h, t, w, whole, d, n) ==
  /\ d \in Nat \ {0} /\ d <= h.pos /\ d <= w - Chunk
  /\ n \in Nat /\ h.pos + n <= Len(t) /\ Roomy(h, h.pos + n, w, whole)
  /\ Recurs(t, h.pos, d, n)

LEMMA CopySources ==
  ASSUME NEW t, NEW w, NEW whole, NEW delivers, NEW o, NEW h, NEW d, NEW n, n # 0,
         Good(h, t, w, whole, delivers, o), Copying(h, t, w, whole, d, n)
  PROVE  Sources(h.bytes, t, h.pos, d, n) /\ d < Len(h.bytes)
<1> DEFINE P == h.pos
           b == h.bytes
           L == Len(b)
<1>1. /\ t \in Seq(Int) /\ w \in Nat /\ w > Chunk /\ whole \in BOOLEAN
      /\ b \in Seq(Int) /\ P \in Nat /\ L \in Nat /\ Len(t) \in Nat
  BY GoodTypes
<1>2. /\ d \in Nat \ {0} /\ d <= P /\ d <= w - Chunk /\ n \in Nat \ {0} /\ P + n <= Len(t)
      /\ (P + n <= L \/ w <= L) /\ Recurs(t, P, d, n)
  BY DEF Copying, Roomy
<1>3. \A p \in P - d .. P - 1 : At(b, p) = t[p + 1]
  <2> TAKE p \in P - d .. P - 1
  <2>1. p \in 0 .. P - 1 /\ P - (w - Chunk) <= p
    <3>1. p \in P - d .. P - 1
      OBVIOUS
    <3> HIDE DEF P, L, b
    <3> QED
      BY <1>1, <1>2, <3>1, RingAssumption
  <2> QED
    BY <2>1 DEF Good, Holds
<1> HIDE DEF P, L, b
<1>4. d < L /\ L # 0
  BY <1>1, <1>2, RingAssumption, SMTT(30)
<1> QED
  BY <1>1, <1>2, <1>3, <1>4 DEF Sources, P, L, b

(* A round of copy_ring. *)
Moves(h, g, t, w, whole, delivers, o, n) ==
  \E m \in 0 .. n : Stored(h, g, t, w, whole, delivers, o, m) /\ (n # 0 => m # 0)

LEMMA PieceMoves ==
  ASSUME NEW t, NEW w, NEW whole, NEW delivers, NEW o, NEW h, NEW d, NEW n,
         Good(h, t, w, whole, delivers, o), Lapped(h, whole), Copying(h, t, w, whole, d, n)
  PROVE  Moves(h, PutPiece(h, d, h.pos + n, delivers), t, w, whole, delivers, o, n)
<1> DEFINE P == h.pos
           b == h.bytes
           L == Len(b)
           end == P + n
           src == (P - d) % L
           dst == P % L
           g == PutPiece(h, d, end, delivers)
<1>1. /\ t \in Seq(Int) /\ h \in Histories
      /\ b \in Seq(Int) /\ P \in Nat /\ L \in Nat /\ Len(t) \in Nat
  BY GoodTypes
<1>2. n \in Nat /\ d \in Nat \ {0} /\ d <= P /\ P + n <= Len(t) /\ Recurs(t, P, d, n)
  BY DEF Copying
<1>3. CASE n = 0
  <2>1. end = P
    BY <1>1, <1>2, <1>3
  <2>2. g = h
    BY <2>1 DEF PutPiece
  <2>3. Stored(h, h, t, w, whole, delivers, o, 0) /\ 0 \in 0 .. n
    BY <1>1, <1>2 DEF Stored
  <2> QED
    BY <1>3, <2>2, <2>3 DEF Moves
<1>4. CASE n # 0
  <2>1. Sources(b, t, P, d, n) /\ d < L
    BY <1>4, CopySources
  <2>2. L \in Nat \ {0} /\ P \in Int /\ P - d \in Int
    BY <1>1, <1>2, <2>1 DEF Sources
  <2>3. src \in 0 .. L - 1 /\ dst \in 0 .. L - 1
    BY <2>2, Divides
  <2>4. Index(b, P) = dst /\ Index(b, P - d) = src
    BY <1>1, <2>2, AtIs
  <2> DEFINE m == Lesser(end - P, Lesser(L - dst, L - src))
             c == Piece(b, src, dst, m, d)
             f == [h EXCEPT !.bytes = Piece(@, src, dst, m, d), !.pos = @ + m]
  <2>5. end - P = n /\ end # P
    BY <1>1, <1>2, <1>4, SMTT(30)
  <2>6. m \in 1 .. n /\ dst + m <= L /\ src + m <= L
    <3> HIDE DEF src, dst, L, end, P
    <3> QED
      BY <1>2, <1>4, <2>2, <2>3, <2>5 DEF Lesser
  <2>7. g = IF dst + m = L THEN Flush(f, delivers) ELSE f
    <3> HIDE DEF dst, src
    <3> QED
      BY <2>4, <2>5, Zenon DEF PutPiece
  <2> HIDE DEF m
  <2>8. Pieced(b, t, P, d, m)
    <3>1. P + m <= Len(t) /\ m \in Nat \ {0}
      <4> HIDE DEF src, dst, L, end, P
      <4> QED
        BY <1>1, <1>2, <2>6, SMTT(30)
    <3>2. Recurs(t, P, d, m)
      <4>1. \A k \in 1 .. m : k \in 1 .. n
        BY <1>2, <2>6
      <4> QED
        BY <1>2, <4>1 DEF Recurs
    <3>3. Sources(b, t, P, d, m)
      BY <2>1, <3>1, <3>2 DEF Sources
    <3> QED
      BY <2>1, <2>6, <3>3 DEF Pieced, Repeatable
  <2>9. PICK x : Wrote(b, c, t, P, m, x)
    BY <2>8, PieceWrites DEF Rewrote
  <2>10. c \in Seq(Int)
    BY <2>9 DEF Wrote
  <2> HIDE DEF c
  <2>11. f.bytes = c /\ f.pos = P + m /\ f.flushed = h.flushed /\ f.out = h.out /\ f \in Histories
    <3>1. f = [bytes |-> c, pos |-> P + m, flushed |-> h.flushed, out |-> h.out]
      <4>1. h = [bytes |-> b, pos |-> P, flushed |-> h.flushed, out |-> h.out]
        BY <1>1 DEF Histories
      <4>2. f = [h EXCEPT !.bytes = Piece(h.bytes, src, dst, m, d), !.pos = h.pos + m]
        OBVIOUS
      <4>3. f = [h EXCEPT !.bytes = c, !.pos = P + m]
        BY <4>2 DEF c
      <4> HIDE DEF b, P, f
      <4> QED
        BY <4>1, <4>3
    <3>2. h.flushed \in Nat /\ h.out \in Seq(Int) /\ P + m \in Nat
      BY <1>1, <2>6 DEF Histories
    <3> QED
      BY <2>10, <3>1, <3>2 DEF Histories
  <2>12. Roomy(h, P + m, w, whole)
    <3>1. P + n <= L \/ (~ whole /\ w <= L)
      BY DEF Copying, Roomy
    <3>2. P + m <= L \/ (~ whole /\ w <= L)
      <4> HIDE DEF src, dst, L, end, P
      <4> QED
        BY <1>1, <1>2, <2>6, <3>1
    <3> QED
      BY <3>2 DEF Roomy
  <2> HIDE DEF f
  <2>13. Longer(h, f, t, w, whole, m, x)
    BY <2>9, <2>11, <2>12 DEF Longer
  <2>14. /\ Stored(h, Flush(f, delivers), t, w, whole, delivers, o, m)
         /\ dst + m # L => Stored(h, f, t, w, whole, delivers, o, m)
    BY <2>13, WritesOn
  <2>15. Stored(h, g, t, w, whole, delivers, o, m)
    <3> HIDE DEF g, dst
    <3> QED
      BY <2>7, <2>14
  <2>16. m \in 0 .. n /\ m # 0
    BY <1>2, <2>6
  <2> HIDE DEF g
  <2> QED
    BY <2>15, <2>16 DEF Moves, g
<1> QED
  BY <1>3, <1>4

CopiesInRounds(h, d, n, delivers) ==
  \E f : /\ CopyRing(h, d, n, delivers) = f[n] /\ f[0] = h
         /\ \A k \in 1 .. n : f[k] = PutPiece(f[k - 1], d, h.pos + n, delivers)

LEMMA CopyRingIs == ASSUME NEW h, NEW d, NEW n \in Nat, NEW delivers PROVE CopiesInRounds(h, d, n, delivers)
<1> DEFINE end == h.pos + n
           Is(f, m) == f = [k \in 0 .. m |-> IF k = 0 THEN h ELSE PutPiece(f[k - 1], d, end, delivers)]
           S == {m \in Nat : \E f : Is(f, m)}
<1>1. 0 \in S
  <2> DEFINE f == [k \in 0 .. 0 |-> h]
  <2>1. f = [k \in 0 .. 0 |-> IF k = 0 THEN h ELSE PutPiece(f[k - 1], d, end, delivers)]
    OBVIOUS
  <2>2. Is(f, 0)
    BY <2>1
  <2> QED
    BY <2>2
<1>2. ASSUME NEW j \in 0 .. n - 1, j \in S PROVE j + 1 \in S
  <2>1. PICK f : Is(f, j)
    BY <1>2
  <2> DEFINE m == j + 1
             g == [k \in 0 .. m |-> IF k = m THEN PutPiece(f[j], d, end, delivers) ELSE f[k]]
  <2>2. \A k \in 0 .. j : f[k] = IF k = 0 THEN h ELSE PutPiece(f[k - 1], d, end, delivers)
    BY <2>1
  <2>3. ASSUME NEW k \in 0 .. m PROVE g[k] = IF k = 0 THEN h ELSE PutPiece(g[k - 1], d, end, delivers)
    <3>1. CASE k = 0
      <4>1. 0 \in 0 .. j /\ g[k] = f[k]
        BY <3>1
      <4> QED
        BY <2>2, <3>1, <4>1
    <3>2. CASE k # 0 /\ k < m
      <4>1. k \in 0 .. j /\ k - 1 \in 0 .. m /\ k - 1 # m
        BY <3>2
      <4>2. g[k] = f[k] /\ g[k - 1] = f[k - 1]
        BY <3>2, <4>1
      <4> QED
        BY <2>2, <3>2, <4>1, <4>2
    <3>3. CASE k = m
      <4>1. k - 1 = j /\ j \in 0 .. m /\ j # m
        BY <3>3
      <4>2. g[k - 1] = f[j] /\ g[k] = PutPiece(f[j], d, end, delivers)
        BY <3>3, <4>1
      <4> QED
        BY <3>3, <4>2
    <3> QED
      BY <3>1, <3>2, <3>3
  <2>4. Is(g, m)
    <3>1. g = [k \in 0 .. m |-> g[k]]
      OBVIOUS
    <3> HIDE DEF g
    <3> QED
      BY <2>3, <3>1
  <2>5. m \in Nat
    OBVIOUS
  <2> HIDE DEF Is, g, m
  <2>6. m \in S
    BY <2>4, <2>5
  <2> QED
    BY <2>6 DEF m
<1>3. \E f : Is(f, n)
  <2> HIDE DEF S
  <2>1. \A k \in 0 .. n : k \in S
    BY <1>1, <1>2, Climb
  <2>2. n \in 0 .. n
    OBVIOUS
  <2> QED
    BY <2>1, <2>2 DEF S
<1> DEFINE W == CHOOSE f : Is(f, n)
<1>4. Is(W, n)
  <2> HIDE DEF Is
  <2> QED
    BY <1>3, Zenon
<1>5. CopyRing(h, d, n, delivers) = W[n]
  BY Zenon DEF CopyRing
<1>6. W[0] = h /\ \A k \in 1 .. n : W[k] = PutPiece(W[k - 1], d, end, delivers)
  <2> HIDE DEF W
  <2>1. \A k \in 0 .. n : W[k] = IF k = 0 THEN h ELSE PutPiece(W[k - 1], d, end, delivers)
    BY <1>4
  <2>2. 0 \in 0 .. n /\ \A k \in 1 .. n : k \in 0 .. n /\ k # 0
    OBVIOUS
  <2> QED
    BY <2>1, <2>2
<1> QED
  BY <1>5, <1>6 DEF CopiesInRounds

(* After k rounds at least k bytes of the copy, or all, are stored. *)
Rounded(h, g, t, w, whole, delivers, o, k, n) ==
  \E m \in k .. n : Stored(h, g, t, w, whole, delivers, o, m)

LEMMA CopiesRing ==
  ASSUME NEW t, NEW w, NEW whole, NEW delivers, NEW o, NEW h, NEW d, NEW n,
         Good(h, t, w, whole, delivers, o), Lapped(h, whole), Copying(h, t, w, whole, d, n)
  PROVE  Stored(h, CopyRing(h, d, n, delivers), t, w, whole, delivers, o, n)
<1>0. /\ h.pos \in Nat /\ w \in Nat /\ Len(t) \in Nat /\ n \in Nat /\ Len(h.bytes) \in Nat
      /\ d \in Nat \ {0} /\ d <= h.pos /\ d <= w - Chunk /\ h.pos + n <= Len(t)
      /\ Recurs(t, h.pos, d, n) /\ Roomy(h, h.pos + n, w, whole)
  BY GoodTypes DEF Copying
<1>1. PICK f : /\ CopyRing(h, d, n, delivers) = f[n] /\ f[0] = h
               /\ \A k \in 1 .. n : f[k] = PutPiece(f[k - 1], d, h.pos + n, delivers)
  <2>1. CopiesInRounds(h, d, n, delivers)
    BY <1>0, CopyRingIs
  <2> QED
    BY <2>1 DEF CopiesInRounds
<1> DEFINE S == {k \in 0 .. n : Rounded(h, f[k], t, w, whole, delivers, o, k, n)}
<1>2. 0 \in S
  <2>1. Stored(h, h, t, w, whole, delivers, o, 0) /\ 0 \in 0 .. n
    BY <1>0 DEF Stored
  <2> QED
    BY <1>1, <2>1 DEF Rounded
<1>3. ASSUME NEW j \in 0 .. n - 1, j \in S PROVE j + 1 \in S
  <2> DEFINE g == f[j]
             k == j + 1
  <2>1. PICK m \in j .. n : Stored(h, g, t, w, whole, delivers, o, m)
    BY <1>3 DEF Rounded
  <2>2. k \in 1 .. n /\ k \in 0 .. n /\ k - 1 = j
    BY <1>0
  <2>3. f[k] = PutPiece(g, d, h.pos + n, delivers)
    BY <1>1, <2>2
  <2> HIDE DEF g
  <2>4. Good(g, t, w, whole, delivers, o) /\ Lapped(g, whole) /\ g.pos = h.pos + m /\ Len(g.bytes) = Len(h.bytes)
    BY <2>1 DEF Stored
  <2>5. m \in Nat /\ m <= n /\ n - m \in Nat /\ g.pos + (n - m) = h.pos + n
    BY <1>0, <2>1, <2>4
  <2>6. Copying(g, t, w, whole, d, n - m)
    <3>1. Recurs(t, g.pos, d, n - m)
      <4> SUFFICES ASSUME NEW i \in 1 .. n - m PROVE t[g.pos + i] = t[(g.pos + i) - d]
        BY DEF Recurs
      <4>1. m + i \in 1 .. n /\ g.pos + i = h.pos + (m + i)
        BY <1>0, <2>4, <2>5
      <4>2. t[h.pos + (m + i)] = t[(h.pos + (m + i)) - d]
        BY <1>0, <4>1 DEF Recurs
      <4> QED
        BY <4>1, <4>2
    <3>2. Roomy(g, g.pos + (n - m), w, whole)
      BY <1>0, <2>4, <2>5 DEF Roomy
    <3>3. d <= g.pos
      BY <1>0, <2>4, <2>5
    <3> QED
      BY <1>0, <2>5, <3>1, <3>2, <3>3 DEF Copying
  <2>7. Moves(g, PutPiece(g, d, g.pos + (n - m), delivers), t, w, whole, delivers, o, n - m)
    BY <2>4, <2>6, PieceMoves
  <2>8. Moves(g, f[k], t, w, whole, delivers, o, n - m)
    BY <2>3, <2>5, <2>7
  <2>9. PICK i \in 0 .. n - m : Stored(g, f[k], t, w, whole, delivers, o, i) /\ (n - m # 0 => i # 0)
    BY <2>8 DEF Moves
  <2>10. m + i \in k .. n
    BY <1>0, <2>1, <2>2, <2>5, <2>9, SMTT(30)
  <2>11. Stored(h, f[k], t, w, whole, delivers, o, m + i)
    <3>1. g.pos + i = h.pos + (m + i)
      BY <1>0, <2>4, <2>5, <2>9
    <3> QED
      BY <2>4, <2>9, <3>1 DEF Stored
  <2>12. Rounded(h, f[k], t, w, whole, delivers, o, k, n)
    BY <2>10, <2>11 DEF Rounded
  <2> HIDE DEF k
  <2>13. k \in S
    BY <2>2, <2>12
  <2> QED
    BY <2>13 DEF k
<1>4. n \in S
  <2> HIDE DEF S
  <2>1. \A k \in 0 .. n : k \in S
    BY <1>0, <1>2, <1>3, Climb
  <2> QED
    BY <1>0, <2>1
<1>5. PICK m \in n .. n : Stored(h, f[n], t, w, whole, delivers, o, m)
  BY <1>4 DEF Rounded
<1>6. m = n
  BY <1>0, <1>5
<1> QED
  BY <1>1, <1>5, <1>6

(* The next n bytes written at once. *)
Advances(h, g, t, w, whole, delivers, o, n) ==
  /\ Stored(h, Flush(g, delivers), t, w, whole, delivers, o, n)
  /\ whole \/ (h.pos % Len(h.bytes)) + n # Len(h.bytes) => Stored(h, g, t, w, whole, delivers, o, n)

LEMMA RewriteAdvances ==
  ASSUME NEW t, NEW w, NEW whole, NEW delivers, NEW o, NEW h, NEW c, NEW n,
         Good(h, t, w, whole, delivers, o), Lapped(h, whole), Roomy(h, h.pos + n, w, whole),
         Rewrote(h.bytes, c, t, h.pos, n)
  PROVE  Advances(h, [h EXCEPT !.bytes = c, !.pos = h.pos + n], t, w, whole, delivers, o, n)
<1> DEFINE g == [h EXCEPT !.bytes = c, !.pos = h.pos + n]
<1>1. PICK x : Wrote(h.bytes, c, t, h.pos, n, x)
  BY DEF Rewrote
<1>2. /\ g.bytes = c /\ g.pos = h.pos + n /\ g.flushed = h.flushed /\ g.out = h.out
      /\ g \in Histories
  <2>1. h \in Histories /\ c \in Seq(Int) /\ h.pos + n \in Nat
    <3>1. h \in Histories /\ h.pos \in Nat
      BY GoodTypes
    <3>2. c \in Seq(Int) /\ n \in Nat
      BY <1>1 DEF Wrote
    <3> QED
      BY <3>1, <3>2
  <2>2. h.flushed \in Nat /\ h.out \in Seq(Int)
    BY <2>1 DEF Histories
  <2>3. g = [bytes |-> c, pos |-> h.pos + n, flushed |-> h.flushed, out |-> h.out]
    <3> DEFINE q == h.pos + n
               b == h.bytes
               P == h.pos
               F == h.flushed
               u == h.out
    <3>1. h = [bytes |-> b, pos |-> P, flushed |-> F, out |-> u]
      BY <2>1 DEF Histories
    <3>2. g = [h EXCEPT !.bytes = c, !.pos = q]
      OBVIOUS
    <3> HIDE DEF g, q, b, P, F, u
    <3>3. g = [bytes |-> c, pos |-> q, flushed |-> F, out |-> u]
      BY <3>1, <3>2
    <3> QED
      BY <3>3 DEF q, F, u
  <2> HIDE DEF g
  <2> QED
    BY <2>1, <2>2, <2>3 DEF Histories
<1> HIDE DEF g
<1>3. Longer(h, g, t, w, whole, n, x)
  BY <1>1, <1>2 DEF Longer
<1>4. /\ Stored(h, Flush(g, delivers), t, w, whole, delivers, o, n)
      /\ (h.pos % Len(h.bytes)) + n # Len(h.bytes) => Stored(h, g, t, w, whole, delivers, o, n)
  BY <1>3, WritesOn
<1>5. ASSUME whole PROVE Stored(h, g, t, w, whole, delivers, o, n)
  <2>1. Good(g, t, w, whole, delivers, o)
    BY <1>3, Writes
  <2>2. Len(g.bytes) = Len(h.bytes)
    BY <1>1, <1>2 DEF Wrote
  <2> QED
    BY <1>2, <1>5, <2>1, <2>2 DEF Stored, Lapped
<1>6. Advances(h, g, t, w, whole, delivers, o, n)
  BY <1>4, <1>5 DEF Advances
<1> QED
  BY <1>6 DEF g

LEMMA CopiesFast ==
  ASSUME NEW t, NEW w, NEW whole, NEW delivers, NEW o, NEW h, NEW d, NEW n, NEW linear, n # 0,
         linear => whole,
         Good(h, t, w, whole, delivers, o), Lapped(h, whole), Copying(h, t, w, whole, d, n)
  PROVE  Stored(h, CopyFast(h, d, n, linear, delivers), t, w, whole, delivers, o, n)
<1> DEFINE P == h.pos
           b == h.bytes
           L == Len(b)
           src == (P - d) % L
           dst == P % L
           width == IF n <= Chunk THEN Chunk ELSE 2 * Chunk
           short == d >= n /\ n <= width /\ Fits(b, src, dst, width)
           c == IF short THEN Moved(b, src, dst, width)
                ELSE IF d >= n THEN Moved(b, src, dst, n)
                ELSE Repeated(b, src, dst, n, d)
           done == [h EXCEPT !.bytes = c, !.pos = h.pos + n]
           g == CopyFast(h, d, n, linear, delivers)
<1>1. /\ t \in Seq(Int) /\ h \in Histories
      /\ b \in Seq(Int) /\ P \in Nat /\ L \in Nat /\ Len(t) \in Nat
  BY GoodTypes
<1>2. /\ n \in Nat \ {0} /\ d \in Nat \ {0} /\ d <= P /\ P + n <= Len(t) /\ Recurs(t, P, d, n)
      /\ Roomy(h, P + n, w, whole)
  BY DEF Copying
<1>3. Sources(b, t, P, d, n) /\ d < L
  BY CopySources
<1>4. L \in Nat \ {0} /\ P \in Int /\ P - d \in Int
  BY <1>1, <1>2, <1>3 DEF Sources
<1>5. src \in 0 .. L - 1 /\ dst \in 0 .. L - 1
  BY <1>4, Divides
<1>6. Index(b, P) = dst /\ Index(b, P - d) = src
  BY <1>1, <1>4, AtIs
<1>7. g = IF short \/ Fits(b, src, dst, n)
          THEN IF ~linear /\ dst + n = L THEN Flush(done, delivers) ELSE done
          ELSE CopyRing(h, d, n, delivers)
  <2>1. done = [h EXCEPT !.pos = @ + n, !.bytes = c]
    BY <1>1 DEF Histories
  <2> HIDE DEF done, dst, src
  <2> QED
    BY <1>6, <2>1, Zenon DEF CopyFast
<1> HIDE DEF g
<1>8. CASE ~ (short \/ Fits(b, src, dst, n))
  <2>1. g = CopyRing(h, d, n, delivers)
    BY <1>7, <1>8
  <2>2. Stored(h, CopyRing(h, d, n, delivers), t, w, whole, delivers, o, n)
    BY CopiesRing
  <2> QED
    BY <2>1, <2>2 DEF g
<1>9. CASE short \/ Fits(b, src, dst, n)
  <2>1. Rewrote(b, c, t, P, n)
    <3>1. CASE short
      <4>1. width \in Nat /\ n <= width /\ width < n + Chunk /\ n <= d
        <5>1. d >= n /\ n <= width
          BY <3>1
        <5> HIDE DEF short
        <5> QED
          BY <1>2, <5>1, RingAssumption
      <4>2. src + width <= L /\ dst + width <= L
        BY <3>1 DEF Fits
      <4>3. c = Moved(b, src, dst, width)
        BY <3>1
      <4> HIDE DEF width, c, short
      <4>4. Movable(b, t, P, d, n, width)
        BY <1>3, <4>1, <4>2 DEF Movable
      <4>5. Wrote(b, c, t, P, n, width)
        BY <4>3, <4>4, MovedWrites
      <4> QED
        BY <4>5 DEF Rewrote
    <3>2. CASE ~short /\ d >= n
      <4>1. src + n <= L /\ dst + n <= L
        BY <1>9, <3>2 DEF Fits
      <4>2. c = Moved(b, src, dst, n)
        BY <3>2
      <4> HIDE DEF width, c, short
      <4>3. n \in Nat /\ n <= n /\ n < n + Chunk /\ n <= d
        BY <1>2, <3>2, RingAssumption
      <4>4. Movable(b, t, P, d, n, n)
        BY <1>3, <4>1, <4>3 DEF Movable
      <4>5. Wrote(b, c, t, P, n, n)
        BY <4>2, <4>4, MovedWrites
      <4> QED
        BY <4>5 DEF Rewrote
    <3>3. CASE ~short /\ ~ (d >= n)
      <4>1. src + n <= L /\ dst + n <= L
        BY <1>9, <3>3 DEF Fits
      <4>2. c = Repeated(b, src, dst, n, d)
        BY <3>3
      <4> HIDE DEF width, c, short
      <4>4. Repeatable(b, t, P, d, n)
        BY <1>3, <4>1 DEF Repeatable
      <4>5. Wrote(b, c, t, P, n, n)
        BY <4>2, <4>4, RepeatedWrites
      <4> QED
        BY <4>5 DEF Rewrote
    <3> HIDE DEF c, short
    <3> QED
      BY <3>1, <3>2, <3>3
  <2> HIDE DEF c
  <2>2. Advances(h, done, t, w, whole, delivers, o, n)
    BY <1>2, <2>1, RewriteAdvances
  <2> HIDE DEF done
  <2>3. /\ Stored(h, Flush(done, delivers), t, w, whole, delivers, o, n)
        /\ whole \/ dst + n # L => Stored(h, done, t, w, whole, delivers, o, n)
    BY <2>2 DEF Advances
  <2>4. g = IF ~linear /\ dst + n = L THEN Flush(done, delivers) ELSE done
    BY <1>7, <1>9
  <2>5. Stored(h, g, t, w, whole, delivers, o, n)
    <3> HIDE DEF dst, L
    <3> QED
      BY <2>3, <2>4
  <2> QED
    BY <2>5 DEF g
<1> QED
  BY <1>8, <1>9

-----------------------------------------------------------------------------
(* Growth, runs written where they belong, and more text. *)

(* The bytes of s written from index P % Len(b) on. *)
Overlays(b, t, P, s, n) ==
  /\ b \in Seq(Int) /\ Len(b) \in Nat \ {0} /\ t \in Seq(Int) /\ P \in Nat /\ n \in Nat \ {0}
  /\ s \in Seq(Int) /\ Len(s) = n /\ P + n <= Len(t) /\ (P % Len(b)) + n <= Len(b)
  /\ \A k \in 1 .. n : s[k] = t[P + k]

LEMMA OverlayWrites ==
  ASSUME NEW b, NEW t, NEW P, NEW s, NEW n, Overlays(b, t, P, s, n)
  PROVE  Wrote(b, Overlaid(b, P % Len(b), s), t, P, n, n)
<1> DEFINE L == Len(b)
           dst == P % L
           c == Overlaid(b, dst, s)
<1>1. /\ b \in Seq(Int) /\ L \in Nat \ {0} /\ t \in Seq(Int) /\ P \in Nat /\ n \in Nat \ {0}
      /\ s \in Seq(Int) /\ Len(s) = n /\ P + n <= Len(t) /\ dst + n <= L
      /\ \A k \in 1 .. n : s[k] = t[P + k]
  BY DEF Overlays
<1>2. dst \in 0 .. L - 1
  <2>1. P \in Int
    BY <1>1
  <2> QED
    BY <1>1, <2>1, Divides
<1>3. DOMAIN b = 1 .. L /\ DOMAIN s = 1 .. n /\ \A i \in 1 .. L : b[i] \in Int
  BY <1>1, LenProperties, ElementOfSeq
<1>4. \A i \in 1 .. n : s[i] \in Int
  BY <1>1, ElementOfSeq
<1> HIDE DEF dst, L
<1>5. c = [i \in 1 .. L |-> IF i - dst \in 1 .. n THEN s[i - dst] ELSE b[i]]
  <2>1. c = [i \in DOMAIN b |-> IF i - dst \in DOMAIN s THEN s[i - dst] ELSE b[i]]
    BY Zenon DEF Overlaid
  <2> HIDE DEF c
  <2> QED
    BY <1>3, <2>1
<1>6. c \in Seq(Int) /\ Len(c) = L
  <2>1. c \in [1 .. L -> Int]
    BY <1>3, <1>4, <1>5
  <2> QED
    BY <1>1, <2>1, TableIsSeq
<1> HIDE DEF c
<1>7. \A i \in 1 .. L : i <= dst \/ i > dst + n => c[i] = b[i]
  BY <1>1, <1>2, <1>5
<1>8. ASSUME NEW k \in 1 .. n PROVE c[dst + k] = t[P + k]
  <2>1. dst + k \in 1 .. L /\ (dst + k) - dst = k
    BY <1>1, <1>2
  <2>2. c[dst + k] = s[k]
    BY <1>5, <2>1
  <2> QED
    BY <1>1, <2>2
<1>9. n < n + Chunk /\ n <= n
  BY <1>1, RingAssumption
<1>10. /\ b \in Seq(Int) /\ c \in Seq(Int) /\ t \in Seq(Int) /\ P \in Nat /\ n \in Nat \ {0} /\ n \in Nat
       /\ L \in Nat \ {0} /\ Len(c) = L /\ P + n <= Len(t)
       /\ n <= n /\ n < n + Chunk /\ dst + n <= L
       /\ \A i \in 1 .. L : i <= dst \/ i > dst + n => c[i] = b[i]
       /\ \A k \in 1 .. n : c[dst + k] = t[P + k]
  BY <1>1, <1>6, <1>7, <1>8, <1>9
<1> QED
  BY <1>10, Zenon DEF Wrote, c, L, dst

(* More text. *)
Extends(t, u) == u \in Seq(Int) /\ Len(t) <= Len(u) /\ \A i \in 1 .. Len(t) : u[i] = t[i]

LEMMA AppendExtends ==
  ASSUME NEW t \in Seq(Int), NEW s \in Seq(Int)
  PROVE  /\ Extends(t, t \o s) /\ Len(t \o s) = Len(t) + Len(s)
         /\ \A k \in 1 .. Len(s) : (t \o s)[Len(t) + k] = s[k]
<1>1. /\ t \o s \in Seq(Int) /\ Len(t \o s) = Len(t) + Len(s)
      /\ \A i \in 1 .. Len(t) + Len(s) : (t \o s)[i] = IF i <= Len(t) THEN t[i] ELSE s[i - Len(t)]
  BY ConcatProperties
<1>2. Len(t) \in Nat /\ Len(s) \in Nat
  BY LenProperties
<1>3. \A i \in 1 .. Len(t) : (t \o s)[i] = t[i]
  BY <1>1, <1>2
<1>4. ASSUME NEW k \in 1 .. Len(s) PROVE (t \o s)[Len(t) + k] = s[k]
  <2>1. Len(t) + k \in 1 .. Len(t) + Len(s) /\ ~ (Len(t) + k <= Len(t)) /\ (Len(t) + k) - Len(t) = k
    BY <1>2
  <2> QED
    BY <1>1, <2>1
<1> QED
  BY <1>1, <1>2, <1>3, <1>4 DEF Extends

LEMMA ExtendsPart ==
  ASSUME NEW t \in Seq(Int), NEW u, Extends(t, u), NEW n \in Nat, n <= Len(t)
  PROVE  SubSeq(u, 1, n) = SubSeq(t, 1, n)
<1> DEFINE x == SubSeq(t, 1, n)
           y == SubSeq(u, 1, n)
<1>1. u \in Seq(Int) /\ Len(t) <= Len(u) /\ Len(t) \in Nat /\ Len(u) \in Nat
  BY LenProperties DEF Extends
<1>2. 1 <= n + 1 /\ n <= Len(u)
  BY <1>1
<1>3. x \in Seq(Int) /\ Len(x) = n + 1 - 1 /\ \A i \in 1 .. n + 1 - 1 : x[i] = t[1 + i - 1]
  BY <1>2, PartOf
<1>4. y \in Seq(Int) /\ Len(y) = n + 1 - 1 /\ \A i \in 1 .. n + 1 - 1 : y[i] = u[1 + i - 1]
  BY <1>1, <1>2, PartOf
<1> HIDE DEF x, y
<1>5. ASSUME NEW i \in 1 .. Len(x) PROVE x[i] = y[i]
  <2>1. i \in 1 .. n + 1 - 1 /\ i \in 1 .. Len(t) /\ 1 + i - 1 = i
    BY <1>1, <1>3, SMTT(30)
  <2> QED
    BY <1>3, <1>4, <2>1 DEF Extends
<1>6. x = y
  BY <1>3, <1>4, <1>5, SeqEqual
<1> QED
  BY <1>6 DEF x, y

LEMMA GoodLonger ==
  ASSUME NEW t, NEW w, NEW whole, NEW delivers, NEW o, NEW h, NEW u,
         Good(h, t, w, whole, delivers, o), Extends(t, u)
  PROVE  Good(h, u, w, whole, delivers, o)
<1>1. /\ t \in Seq(Int) /\ h.flushed <= h.pos /\ h.pos <= Len(t) /\ h.pos \in Nat /\ h.flushed \in Nat
      /\ Len(t) \in Nat
  BY GoodTypes
<1>2. u \in Seq(Int) /\ Len(t) <= Len(u) /\ Len(u) \in Nat /\ \A i \in 1 .. Len(t) : u[i] = t[i]
  BY LenProperties DEF Extends
<1>3. Holds(h, u, w, whole)
  <2> SUFFICES ASSUME NEW p \in 0 .. h.pos - 1, whole \/ h.flushed <= p \/ h.pos - (w - Chunk) <= p
               PROVE  At(h.bytes, p) = u[p + 1]
    BY DEF Holds
  <2>1. At(h.bytes, p) = t[p + 1]
    BY DEF Good, Holds
  <2>2. p + 1 \in 1 .. Len(t)
    BY <1>1
  <2> QED
    BY <1>2, <2>1, <2>2
<1>4. SubSeq(u, 1, h.flushed) = SubSeq(t, 1, h.flushed)
  <2>1. h.flushed <= Len(t)
    BY <1>1
  <2> QED
    BY <1>1, <2>1, ExtendsPart
<1>5. Delivered(h, u, delivers, o)
  BY <1>4 DEF Good, Delivered
<1>6. h.pos <= Len(u)
  BY <1>1, <1>2
<1> QED
  BY <1>2, <1>3, <1>5, <1>6 DEF Good

(* Another buffer with the same bytes below the position. *)
Rebased(h, g, c, whole) ==
  /\ c \in Seq(Int) /\ h.pos <= Len(h.bytes) /\ h.pos <= Len(c) /\ (whole \/ Len(h.bytes) <= Len(c))
  /\ \A i \in 1 .. h.pos : c[i] = h.bytes[i]
  /\ g = [bytes |-> c, pos |-> h.pos, flushed |-> h.flushed, out |-> h.out]

LEMMA Rebases ==
  ASSUME NEW t, NEW w, NEW whole, NEW delivers, NEW o, NEW h, NEW g, NEW c,
         Good(h, t, w, whole, delivers, o), Lapped(h, whole), Rebased(h, g, c, whole)
  PROVE  Good(g, t, w, whole, delivers, o) /\ Lapped(g, whole)
<1> DEFINE P == h.pos
           F == h.flushed
           b == h.bytes
           L == Len(b)
           M == Len(c)
<1>1. /\ t \in Seq(Int) /\ w \in Nat /\ w > Chunk /\ whole \in BOOLEAN /\ h.out \in Seq(Int)
      /\ b \in Seq(Int) /\ P \in Nat /\ F \in Nat /\ F <= P /\ P <= Len(t) /\ L \in Nat /\ Len(t) \in Nat
  BY GoodTypes
<1>2. /\ c \in Seq(Int) /\ P <= L /\ P <= M /\ (whole \/ L <= M) /\ M \in Nat
      /\ \A i \in 1 .. P : c[i] = b[i]
  BY LenProperties DEF Rebased
<1>3. g.bytes = c /\ g.pos = P /\ g.flushed = F /\ g.out = h.out /\ g \in Histories
  BY <1>1, <1>2 DEF Rebased, Histories
<1>4. Holds(g, t, w, whole)
  <2> SUFFICES ASSUME NEW p \in 0 .. P - 1, whole \/ F <= p \/ P - (w - Chunk) <= p
               PROVE  At(c, p) = t[p + 1]
    BY <1>3 DEF Holds
  <2>1. At(b, p) = t[p + 1]
    BY DEF Good, Holds
  <2> HIDE DEF P, F, b, L, M
  <2>2. p \in 0 .. L - 1 /\ p \in 0 .. M - 1 /\ L \in Nat \ {0} /\ M \in Nat \ {0} /\ p + 1 \in 1 .. P
        /\ p \in Int
    BY <1>1, <1>2, SMTT(60)
  <2>3. p % L = p /\ p % M = p
    BY <2>2, ModSmall
  <2>4. At(b, p) = b[(p % L) + 1]
    <3>1. Len(b) = L
      BY DEF L
    <3> QED
      BY <1>1, <2>2, <3>1, AtIs
  <2>5. At(c, p) = c[(p % M) + 1]
    <3>1. Len(c) = M
      BY DEF M
    <3> QED
      BY <1>2, <2>2, <3>1, AtIs
  <2>6. c[p + 1] = b[p + 1]
    BY <1>2, <2>2
  <2> QED
    BY <2>1, <2>3, <2>4, <2>5, <2>6
<1>5. ASSUME ~whole, F # P
      PROVE  F % L = F /\ F % M = F
  <2>1. F \in 0 .. L - 1 /\ F \in 0 .. M - 1 /\ L \in Nat \ {0} /\ M \in Nat \ {0}
    <3> HIDE DEF P, F, b, L, M
    <3> QED
      BY <1>1, <1>2, <1>5
  <2> HIDE DEF P, F, b, L, M
  <2> QED
    BY <2>1, ModSmall
<1>6. ASSUME ~whole, F # P PROVE P < M
  <2>1. (F % L) + (P - F) < L
    BY <1>6 DEF Lapped
  <2>2. F + (P - F) < L
    BY <1>5, <1>6, <2>1
  <2> HIDE DEF P, F, b, L, M
  <2> QED
    BY <1>1, <1>2, <1>6, <2>2
<1>7. Lapped(g, whole) /\ Contiguous(g, whole)
  <2> SUFFICES ASSUME ~whole, F # P PROVE (F % M) + (P - F) < M /\ (F % M) + (P - F) <= M
    BY <1>3 DEF Lapped, Contiguous
  <2>1. F % M = F /\ P < M
    BY <1>5, <1>6
  <2>2. F + (P - F) < M /\ F + (P - F) <= M
    <3> HIDE DEF P, F, b, L, M
    <3> QED
      BY <1>1, <1>2, <2>1
  <2> QED
    BY <2>1, <2>2
<1>8. Roomy(g, g.pos, w, whole)
  BY <1>2, <1>3 DEF Roomy
<1>9. Delivered(g, t, delivers, o)
  BY <1>3 DEF Good, Delivered
<1>10. whole => ~delivers
  BY DEF Good
<1>11. delivers \in BOOLEAN
  BY DEF Good
<1> QED
  BY <1>1, <1>3, <1>4, <1>7, <1>8, <1>9, <1>10, <1>11 DEF Good

(* A buffer that already holds the next n bytes of t. *)
Prewritten(h, g, c, t, whole, n) ==
  /\ Rebased(h, g, c, whole) /\ n \in Nat \ {0} /\ h.pos + n <= Len(t) /\ h.pos + n <= Len(c)
  /\ \A k \in 1 .. n : c[h.pos + k] = t[h.pos + k]

LEMMA PrewrittenAdvances ==
  ASSUME NEW t, NEW w, NEW whole, NEW delivers, NEW o, NEW h, NEW g, NEW c, NEW n,
         Good(h, t, w, whole, delivers, o), Lapped(h, whole), Prewritten(h, g, c, t, whole, n)
  PROVE  Advances(g, [g EXCEPT !.bytes = c, !.pos = g.pos + n], t, w, whole, delivers, o, n)
<1>1. Rebased(h, g, c, whole)
  BY DEF Prewritten
<1>2. Good(g, t, w, whole, delivers, o) /\ Lapped(g, whole)
  BY <1>1, Rebases
<1>3. g.bytes = c /\ g.pos = h.pos
  BY <1>1 DEF Rebased
<1> DEFINE P == h.pos
           M == Len(c)
<1>4. /\ c \in Seq(Int) /\ t \in Seq(Int) /\ P \in Nat /\ M \in Nat /\ n \in Nat \ {0}
      /\ P + n <= Len(t) /\ P + n <= M /\ \A k \in 1 .. n : c[P + k] = t[P + k]
  BY <1>1, GoodTypes, LenProperties DEF Prewritten, Rebased
<1>5. P % M = P /\ M \in Nat \ {0} /\ n < n + Chunk
  <2> HIDE DEF P, M
  <2>1. M \in Nat \ {0} /\ P \in 0 .. M - 1
    BY <1>4
  <2>2. P % M = P
    BY <2>1, ModSmall
  <2> QED
    BY <1>4, <2>1, <2>2, RingAssumption
<1>6. Wrote(c, c, t, P, n, n)
  <2> DEFINE d == P % M
  <2>1. d = P /\ d + n <= M
    <3>1. d = P
      BY <1>5
    <3> HIDE DEF d, P, M
    <3> QED
      BY <1>4, <3>1
  <2>2. \A i \in 1 .. M : i <= d \/ i > d + n => c[i] = c[i]
    OBVIOUS
  <2>3. \A k \in 1 .. n : c[d + k] = t[P + k]
    <3> HIDE DEF d, P, M
    <3> QED
      BY <1>4, <2>1
  <2>4. n \in Nat /\ n <= n
    BY <1>4
  <2> HIDE DEF P
  <2> QED
    BY <1>4, <1>5, <2>1, <2>2, <2>3, <2>4, Zenon DEF Wrote
<1>7. Rewrote(g.bytes, c, t, g.pos, n)
  BY <1>3, <1>6 DEF Rewrote
<1>8. Roomy(g, g.pos + n, w, whole)
  BY <1>3, <1>4 DEF Roomy
<1> QED
  BY <1>2, <1>7, <1>8, RewriteAdvances

(* The buffer grown for positions below end. *)
Grown(b, c, w, end, whole) ==
  /\ c \in Seq(Int) /\ Len(b) <= Len(c) /\ (Len(c) = 0 \/ PowerOfTwo(Len(c)))
  /\ \A i \in 1 .. Len(b) : c[i] = b[i]
  /\ end <= Len(c) \/ (~whole /\ w <= Len(c))
  /\ end <= w => end <= Len(c)

(* c is b and then only e. *)
Fill(b, c, n, e) ==
  /\ c \in Seq(Int) /\ Len(c) = n
  /\ \A i \in 1 .. Len(b) : c[i] = b[i]
  /\ \A i \in Len(b) + 1 .. n : c[i] = e

LEMMA Fills ==
  ASSUME NEW b \in Seq(Int), NEW n \in Nat, Len(b) <= n, NEW e \in Int
  PROVE  Fill(b, Filled(b, n, e), n, e)
<1> DEFINE m == n - Len(b)
           f == [i \in 1 .. m |-> e]
<1>1. Len(b) \in Nat /\ m \in Nat
  BY LenProperties
<1>2. f \in Seq(Int) /\ Len(f) = m
  <2>1. f \in [1 .. m -> Int]
    OBVIOUS
  <2> HIDE DEF f, m
  <2> QED
    BY <1>1, <2>1, TableIsSeq
<1>3. \A i \in 1 .. m : f[i] = e
  OBVIOUS
<1>4. Filled(b, n, e) = b \o f
  BY DEF Filled
<1> HIDE DEF f
<1>5. /\ b \o f \in Seq(Int) /\ Len(b \o f) = Len(b) + m
      /\ \A i \in 1 .. Len(b) + m : (b \o f)[i] = IF i <= Len(b) THEN b[i] ELSE f[i - Len(b)]
  BY <1>2, ConcatProperties, ZenonT(60)
<1>6. Len(b) + m = n
  BY <1>1
<1>7. \A i \in 1 .. Len(b) : (b \o f)[i] = b[i]
  BY <1>1, <1>5
<1>8. ASSUME NEW i \in Len(b) + 1 .. n PROVE (b \o f)[i] = e
  <2>1. i \in 1 .. Len(b) + m /\ ~ (i <= Len(b)) /\ i - Len(b) \in 1 .. m
    BY <1>1
  <2> QED
    BY <1>3, <1>5, <2>1
<1> QED
  BY <1>4, <1>5, <1>6, <1>7, <1>8 DEF Fill

LEMMA GrowRingIs ==
  ASSUME NEW b \in Seq(Int), Len(b) = 0 \/ PowerOfTwo(Len(b)), NEW w \in Nat, PowerOfTwo(w),
         NEW end \in Nat \ {0}, NEW whole \in BOOLEAN, whole => end <= w
  PROVE  Grown(b, GrowRing(b, w, end), w, end, whole)
<1> DEFINE L == Len(b)
           R == RingSize(L, w, end)
           c == GrowRing(b, w, end)
<1>0. L \in Nat
  BY LenProperties
<1>1. CASE Growing(b, w, end)
  <2>1. end > L /\ L < w /\ c = Filled(b, R, 0)
    BY <1>1 DEF Growing, GrowRing
  <2>2. R \in Nat \ {0} /\ PowerOfTwo(R) /\ Lesser(w, end) <= R /\ R <= w
    <3> HIDE DEF L
    <3>1. L = 0 \/ PowerOfTwo(L)
      BY DEF L
    <3> QED
      BY <1>0, <3>1, RingSizeIs
  <2>3. L <= R /\ (end <= R \/ w <= R) /\ (end <= w => end <= R)
    <3> HIDE DEF L, R
    <3> QED
      BY <1>0, <2>1, <2>2 DEF Lesser
  <2> HIDE DEF R, c
  <2>4. c \in Seq(Int) /\ Len(c) = R /\ \A i \in 1 .. L : c[i] = b[i]
    <3>1. R \in Nat /\ Len(b) <= R /\ 0 \in Int
      BY <2>2, <2>3
    <3>2. Fill(b, Filled(b, R, 0), R, 0)
      BY <3>1, Fills
    <3> QED
      BY <2>1, <3>2 DEF Fill
  <2> QED
    BY <2>2, <2>3, <2>4 DEF Grown, c
<1>2. CASE ~Growing(b, w, end)
  <2>1. c = b
    BY <1>2 DEF GrowRing
  <2>2. end <= L \/ w <= L
    BY <1>0, <1>2 DEF Growing
  <2> HIDE DEF c
  <2>3. end <= w => end <= L
    BY <1>0, <2>2
  <2> QED
    BY <1>0, <2>1, <2>2, <2>3 DEF Grown, c
<1> QED
  BY <1>1, <1>2

(* A history whose ring may grow for positions below end. *)
Growable(h, t, w, whole, delivers, o, end) ==
  /\ Good(h, t, w, whole, delivers, o) /\ Lapped(h, whole)
  /\ Len(h.bytes) = 0 \/ PowerOfTwo(Len(h.bytes))
  /\ PowerOfTwo(w) /\ end \in Nat \ {0} /\ (whole => end <= w)

(* A history in a grown ring. *)
LEMMA Grows ==
  ASSUME NEW t, NEW w, NEW whole, NEW delivers, NEW o, NEW h, NEW g, NEW end,
         Growable(h, t, w, whole, delivers, o, end),
         g = [bytes |-> GrowRing(h.bytes, w, end), pos |-> h.pos, flushed |-> h.flushed, out |-> h.out]
  PROVE  /\ Good(g, t, w, whole, delivers, o) /\ Lapped(g, whole) /\ Roomy(g, end, w, whole)
         /\ Len(g.bytes) = 0 \/ PowerOfTwo(Len(g.bytes))
<1>0. /\ Good(h, t, w, whole, delivers, o) /\ Lapped(h, whole)
      /\ Len(h.bytes) = 0 \/ PowerOfTwo(Len(h.bytes))
      /\ PowerOfTwo(w) /\ end \in Nat \ {0} /\ (whole => end <= w)
  BY DEF Growable
<1> DEFINE b == h.bytes
           c == GrowRing(b, w, end)
<1>1. /\ w \in Nat /\ whole \in BOOLEAN /\ h.pos \in Nat /\ h \in Histories
      /\ b \in Seq(Int) /\ Len(b) \in Nat
  BY <1>0, GoodTypes
<1>2. Grown(b, c, w, end, whole)
  BY <1>0, <1>1, GrowRingIs
<1>3. g.bytes = c
  OBVIOUS
<1>4. Roomy(g, end, w, whole) /\ (Len(g.bytes) = 0 \/ PowerOfTwo(Len(g.bytes)))
  <2> HIDE DEF c
  <2> QED
    BY <1>2, <1>3 DEF Grown, Roomy
<1>5. CASE h.pos <= Len(b)
  <2>1. Rebased(h, g, c, whole)
    <3>1. h.pos <= Len(c)
      BY <1>1, <1>2, <1>5, LenProperties DEF Grown
    <3>2. \A i \in 1 .. h.pos : c[i] = b[i]
      BY <1>1, <1>2, <1>5 DEF Grown
    <3> HIDE DEF c
    <3> QED
      BY <1>2, <1>3, <1>5, <3>1, <3>2 DEF Grown, Rebased, c
  <2> QED
    BY <1>0, <1>4, <2>1, Rebases
<1>6. CASE ~ (h.pos <= Len(b))
  <2>1. ~whole /\ w <= Len(b)
    BY <1>0, <1>6 DEF Good, Roomy
  <2>2. c = b
    BY <1>1, <2>1 DEF GrowRing, Growing
  <2>3. g = h
    BY <1>1, <2>2 DEF Histories
  <2> QED
    BY <1>0, <1>4, <2>3
<1> QED
  BY <1>5, <1>6

(* g is h with n more bytes of t, in a buffer of any length. *)
Stepped(h, g, t, w, whole, delivers, o, n) ==
  Good(g, t, w, whole, delivers, o) /\ Lapped(g, whole) /\ g.pos = h.pos + n

Steps(h, g, t, w, whole, delivers, o, n) ==
  /\ Stepped(h, Flush(g, delivers), t, w, whole, delivers, o, n)
  /\ whole \/ g.pos # Len(g.bytes) => Stepped(h, g, t, w, whole, delivers, o, n)

(* c holds what h does and the next n bytes of t. *)
Prefilled(h, c, t, whole, n) ==
  /\ c \in Seq(Int) /\ h.pos <= Len(h.bytes) /\ (whole \/ Len(h.bytes) <= Len(c))
  /\ n \in Nat \ {0} /\ h.pos + n <= Len(t) /\ h.pos + n <= Len(c)
  /\ \A i \in 1 .. h.pos : c[i] = h.bytes[i]
  /\ \A k \in 1 .. n : c[h.pos + k] = t[h.pos + k]

LEMMA PrefilledSteps ==
  ASSUME NEW t, NEW w, NEW whole, NEW delivers, NEW o, NEW h, NEW g, NEW c, NEW n,
         Good(h, t, w, whole, delivers, o), Lapped(h, whole), Prefilled(h, c, t, whole, n),
         g = [bytes |-> c, pos |-> h.pos + n, flushed |-> h.flushed, out |-> h.out]
  PROVE  Steps(h, g, t, w, whole, delivers, o, n)
<1> DEFINE f == [bytes |-> c, pos |-> h.pos, flushed |-> h.flushed, out |-> h.out]
           P == h.pos
           M == Len(c)
<1>1. Rebased(h, f, c, whole)
  <2>1. h.pos <= Len(c)
    BY GoodTypes, LenProperties DEF Prefilled
  <2> QED
    BY <2>1 DEF Prefilled, Rebased
<1>2. Prewritten(h, f, c, t, whole, n)
  BY <1>1 DEF Prefilled, Prewritten
<1>3. Advances(f, [f EXCEPT !.bytes = c, !.pos = f.pos + n], t, w, whole, delivers, o, n)
  BY <1>2, PrewrittenAdvances
<1>4. [f EXCEPT !.bytes = c, !.pos = f.pos + n] = g /\ f.pos = P /\ f.bytes = c /\ g.pos = P + n /\ g.bytes = c
  <2> DEFINE e == [f EXCEPT !.bytes = c, !.pos = f.pos + n]
             F == h.flushed
             u == h.out
  <2>0. f = [bytes |-> c, pos |-> P, flushed |-> F, out |-> u]
    OBVIOUS
  <2>1. f.pos = P /\ f.bytes = c
    OBVIOUS
  <2>2. g = [bytes |-> c, pos |-> P + n, flushed |-> F, out |-> u] /\ g.pos = P + n /\ g.bytes = c
    OBVIOUS
  <2> HIDE DEF f, P, F, u
  <2>3. e = [f EXCEPT !.bytes = c, !.pos = P + n]
    BY <2>1
  <2> HIDE DEF e
  <2>4. e = [bytes |-> c, pos |-> P + n, flushed |-> F, out |-> u]
    <3> DEFINE q == P + n
    <3>1. e = [f EXCEPT !.bytes = c, !.pos = q]
      BY <2>3
    <3> HIDE DEF q
    <3>2. e = [bytes |-> c, pos |-> q, flushed |-> F, out |-> u]
      BY <2>0, <3>1
    <3> QED
      BY <3>2 DEF q
  <2> QED
    BY <2>1, <2>2, <2>4 DEF e
<1> HIDE DEF f
<1>5. /\ Stored(f, Flush(g, delivers), t, w, whole, delivers, o, n)
      /\ whole \/ (P % M) + n # M => Stored(f, g, t, w, whole, delivers, o, n)
  BY <1>3, <1>4 DEF Advances
<1>6. P % M = P
  <2>1. P \in Nat /\ M \in Nat /\ n \in Nat \ {0} /\ P + n <= M
    BY GoodTypes, LenProperties DEF Prefilled
  <2> HIDE DEF P, M
  <2>2. M \in Nat \ {0} /\ P \in 0 .. M - 1
    BY <2>1
  <2> QED
    BY <2>2, ModSmall
<1>7. whole \/ P + n # M => Stored(f, g, t, w, whole, delivers, o, n)
  BY <1>5, <1>6
<1>8. Stepped(h, Flush(g, delivers), t, w, whole, delivers, o, n)
  BY <1>4, <1>5 DEF Stored, Stepped
<1>9. whole \/ g.pos # Len(g.bytes) => Stepped(h, g, t, w, whole, delivers, o, n)
  BY <1>4, <1>7 DEF Stored, Stepped
<1> QED
  BY <1>8, <1>9 DEF Steps

(* A copy of n bytes from distance 1 that the buffer is too short for. *)
Outgrowing(h, t, w, n) ==
  /\ 1 <= h.pos /\ n \in Nat /\ h.pos + n <= Len(t) /\ Recurs(t, h.pos, 1, n)
  /\ h.pos + n > Len(h.bytes) /\ h.pos + n <= w

(* A unit-distance copy whose growth is the fill. *)
LEMMA RepeatGrowSteps ==
  ASSUME NEW t, NEW w, NEW whole, NEW delivers, NEW o, NEW h, NEW g, NEW n,
         Good(h, t, w, whole, delivers, o), Lapped(h, whole), Outgrowing(h, t, w, n),
         Len(h.bytes) = 0 \/ PowerOfTwo(Len(h.bytes)), PowerOfTwo(w),
         g = [bytes |-> RepeatGrow(h.bytes, w, h.pos, h.bytes[h.pos], h.pos + n), pos |-> h.pos + n,
              flushed |-> h.flushed, out |-> h.out]
  PROVE  Steps(h, g, t, w, whole, delivers, o, n) /\ PowerOfTwo(Len(g.bytes))
<1> DEFINE P == h.pos
           b == h.bytes
           L == Len(b)
           R == RingSize(L, w, P + n)
           a == SubSeq(b, 1, P)
           c == RepeatGrow(b, w, P, b[P], P + n)
<1>1. /\ t \in Seq(Int) /\ w \in Nat /\ w > Chunk /\ whole \in BOOLEAN
      /\ b \in Seq(Int) /\ P \in Nat /\ L \in Nat /\ Len(t) \in Nat
  BY GoodTypes
<1>2. /\ 1 <= P /\ n \in Nat /\ P + n <= Len(t) /\ Recurs(t, P, 1, n)
      /\ P + n > L /\ P + n <= w
  BY DEF Outgrowing
<1>3. P <= L /\ P + n \in Nat \ {0} /\ n # 0 /\ L < w
  <2>1. P <= L \/ w <= L
    BY DEF Good, Roomy
  <2> HIDE DEF P, L
  <2> QED
    BY <1>1, <1>2, <2>1, SMTT(30)
<1>4. R \in Nat /\ PowerOfTwo(R) /\ P + n <= R /\ L <= R
  <2>1. R \in Nat \ {0} /\ PowerOfTwo(R) /\ Lesser(w, P + n) <= R /\ R <= w
    <3>1. L = 0 \/ PowerOfTwo(L)
      OBVIOUS
    <3> HIDE DEF P, L
    <3> QED
      BY <1>1, <1>3, <3>1, RingSizeIs
  <2> HIDE DEF P, L, R
  <2> QED
    BY <1>1, <1>2, <1>3, <2>1 DEF Lesser
<1>5. a \in Seq(Int) /\ Len(a) = P /\ \A i \in 1 .. P : a[i] = b[i]
  <2>1. 1 <= P + 1 /\ P <= Len(b)
    BY <1>1, <1>3
  <2>2. a \in Seq(Int) /\ Len(a) = P + 1 - 1 /\ \A i \in 1 .. P + 1 - 1 : a[i] = b[1 + i - 1]
    BY <1>1, <2>1, PartOf, SMTT(30)
  <2> HIDE DEF a, P
  <2> QED
    BY <1>1, <2>2
<1>6. b[P] \in Int /\ b[P] = t[P]
  <2>1. P \in 1 .. L /\ P - 1 \in 0 .. L - 1 /\ L \in Nat \ {0} /\ (P - 1) + 1 = P /\ P - 1 \in 0 .. P - 1
        /\ P - (w - Chunk) <= P - 1
    <3> HIDE DEF P, L
    <3> QED
      BY <1>1, <1>2, <1>3, RingAssumption
  <2>2. At(b, P - 1) = t[(P - 1) + 1]
    BY <2>1 DEF Good, Holds
  <2>3. b[P] \in Int
    BY <1>1, <2>1, ElementOfSeq
  <2> HIDE DEF P
  <2>4. (P - 1) % L = P - 1
    <3> HIDE DEF L
    <3> QED
      BY <2>1, ModSmall
  <2>5. At(b, P - 1) = b[((P - 1) % L) + 1]
    <3>1. Len(b) = L /\ P - 1 \in Int
      BY <1>1
    <3> HIDE DEF L, b
    <3> QED
      BY <1>1, <2>1, <3>1, AtIs
  <2> QED
    BY <2>1, <2>2, <2>3, <2>4, <2>5
<1>7. Fill(a, c, R, b[P])
  <2>1. c = Filled(a, R, b[P])
    BY DEF RepeatGrow
  <2>2. Len(a) <= R
    BY <1>1, <1>2, <1>4, <1>5
  <2> HIDE DEF a, R, c, P, b
  <2> QED
    BY <1>4, <1>5, <1>6, <2>1, <2>2, Fills
<1> HIDE DEF a, R, c
<1>8. c \in Seq(Int) /\ Len(c) = R /\ \A i \in 1 .. P : c[i] = b[i]
  BY <1>5, <1>7 DEF Fill
<1>9. ASSUME NEW k \in 1 .. n PROVE c[P + k] = t[P + k]
  <2>1. P + k \in P + 1 .. R /\ k - 1 \in 0 .. n - 1 /\ (k - 1) + 1 = k /\ (P - 1) + 1 = P
    <3> HIDE DEF P
    <3> QED
      BY <1>1, <1>2, <1>4
  <2>2. c[P + k] = b[P]
    BY <1>5, <1>7, <2>1 DEF Fill
  <2>3. Repeat(t, P, 1, k - 1)
    BY <1>1, <1>2, <2>1, Repeats
  <2>4. (k - 1) % 1 = 0
    OBVIOUS
  <2>5. t[P + k] = t[P]
    <3>1. t[P + ((k - 1) + 1)] = t[(P - 1) + (0 + 1)]
      BY <2>3, <2>4 DEF Repeat
    <3> HIDE DEF P
    <3> QED
      BY <2>1, <3>1
  <2> QED
    BY <1>6, <2>2, <2>5
<1>10. Prefilled(h, c, t, whole, n)
  BY <1>2, <1>3, <1>4, <1>8, <1>9 DEF Prefilled
<1>11. Steps(h, g, t, w, whole, delivers, o, n)
  BY <1>10, PrefilledSteps DEF c
<1> QED
  BY <1>4, <1>8, <1>11 DEF c

(* Delivery of everything, whatever it is copied from. *)
Poured(g, f, t, whole, delivers, o, u) ==
  /\ delivers \in BOOLEAN /\ (whole => ~delivers) /\ u \in Seq(Int)
  /\ u = IF delivers THEN SubSeq(t, 1, g.pos) ELSE o
  /\ f = [bytes |-> g.bytes, pos |-> g.pos, flushed |-> g.pos, out |-> u]

LEMMA Pours ==
  ASSUME NEW t, NEW w, NEW whole, NEW quiet, NEW q, NEW delivers, NEW o, NEW g, NEW f, NEW u,
         Good(g, t, w, whole, quiet, q), Poured(g, f, t, whole, delivers, o, u)
  PROVE  Good(f, t, w, whole, delivers, o) /\ Lapped(f, whole)
<1> USE DEF Poured
<1>1. f.bytes = g.bytes /\ f.pos = g.pos /\ f.flushed = g.pos /\ f.out = u
  OBVIOUS
<1>2. f \in Histories
  BY GoodTypes DEF Histories
<1>3. ASSUME NEW p \in 0 .. f.pos - 1, whole \/ f.flushed <= p \/ f.pos - (w - Chunk) <= p
      PROVE  At(f.bytes, p) = t[p + 1]
  <2>1. g.pos \in Nat /\ p \in 0 .. g.pos - 1 /\ ~(g.pos <= p)
    BY <1>1, GoodTypes
  <2>2. whole \/ g.flushed <= p \/ g.pos - (w - Chunk) <= p
    BY <1>1, <1>3, <2>1
  <2>3. Holds(g, t, w, whole)
    BY DEF Good
  <2> QED
    BY <1>1, <2>1, <2>2, <2>3 DEF Holds
<1>4. Roomy(f, f.pos, w, whole) /\ Contiguous(f, whole) /\ Lapped(f, whole)
  BY <1>1 DEF Good, Roomy, Contiguous, Lapped
<1>5. Delivered(f, t, delivers, o)
  BY <1>1 DEF Delivered
<1> QED
  BY <1>1, <1>2, <1>3, <1>4, <1>5, GoodTypes DEF Good, Holds

(* A history whose delivery is somebody else's. *)
LEMMA GoodQuiet ==
  ASSUME NEW t, NEW w, NEW whole, NEW delivers, NEW o, NEW h, Good(h, t, w, whole, delivers, o)
  PROVE  Good(h, t, w, whole, FALSE, h.out)
  BY DEF Good, Delivered

(* The text up to P and its next n bytes. *)
LEMMA TextGoesOn ==
  ASSUME NEW t \in Seq(Int), NEW P \in Nat, NEW s \in Seq(Int), P + Len(s) <= Len(t),
         \A k \in 1 .. Len(s) : s[k] = t[P + k]
  PROVE  SubSeq(t, 1, P) \o s = SubSeq(t, 1, P + Len(s))
<1> DEFINE n == Len(s)
           e == P + n
<1>1. n \in Nat /\ e - P = n /\ e \in Nat /\ P <= e
  BY LenProperties
<1>2. Continues(s, t, P, e)
  BY <1>1 DEF Continues
<1> QED
  BY <1>2, PartsJoin

-----------------------------------------------------------------------------
(* The history of the text. *)

(* The buffer the history is in, and whether it holds everything decoded. *)
Buffer == IF Linear THEN slice ELSE ring
Whole  == delivery # "slice"

(* Bytes the meta-block still owes. *)
Settled == {"Window", "Meta", "Metadata", "EndBlock", "End"}
Owed    == IF stage \in Settled THEN 0 ELSE remaining

(* The history is one of the text, in a buffer that has room for what is     *)
(* owed; nothing behind that is touched in a caller's slice.                 *)
HistoryInv ==
  /\ delivery \in {"slice", "collect", "linear"}
  /\ slice \in Seq(Int) /\ ring \in Seq(Int) /\ cap \in Nat /\ allow \in Nat /\ remaining \in Nat
  /\ Len(ring) = 0 \/ PowerOfTwo(Len(ring))
  /\ Good(History(Buffer), text, window, Whole, Delivers, out)
  /\ Lapped(History(Buffer), Whole)
  /\ position + Owed <= MaxText
  /\ Linear => cap + position = Len(slice)
  /\ delivery = "collect" => cap + position = window
  /\ Linear => \A i \in position + Owed + 1 .. Len(slice) : slice[i] = Untouched

-----------------------------------------------------------------------------
(* What the history's invariant says of the variables. *)
LEMMA HistoryTypes ==
  ASSUME HistoryInv
  PROVE  /\ delivery \in {"slice", "collect", "linear"} /\ Whole \in BOOLEAN /\ Delivers \in BOOLEAN
         /\ Linear \in BOOLEAN /\ (Linear => Whole /\ ~Delivers) /\ (Whole => ~Delivers)
         /\ slice \in Seq(Int) /\ Len(slice) \in Nat /\ ring \in Seq(Int) /\ Len(ring) \in Nat
         /\ cap \in Nat /\ allow \in Nat /\ remaining \in Nat
         /\ position \in Nat /\ flushed \in Nat /\ flushed <= position /\ out \in Seq(Int)
         /\ text \in Seq(Int) /\ Len(text) \in Nat /\ position <= Len(text)
         /\ window \in Nat /\ window > Chunk
<1>1. Good(History(Buffer), text, window, Whole, Delivers, out)
  BY DEF HistoryInv
<1>2. History(Buffer) = [bytes |-> Buffer, pos |-> position, flushed |-> flushed, out |-> out]
  BY DEF History
<1>3. Delivers \in BOOLEAN /\ Linear \in BOOLEAN /\ (Linear => Whole /\ ~Delivers) /\ (Whole => ~Delivers)
  BY DEF Delivers, Linear, Whole
<1>4. position \in Nat /\ flushed \in Nat /\ flushed <= position /\ out \in Seq(Int)
      /\ text \in Seq(Int) /\ Len(text) \in Nat /\ position <= Len(text)
      /\ window \in Nat /\ window > Chunk /\ Whole \in BOOLEAN
  BY <1>1, <1>2, GoodTypes
<1> QED
  BY <1>3, <1>4, LenProperties DEF HistoryInv

LEMMA OwnOut ==
  ASSUME NEW t, NEW w, NEW whole, NEW delivers, NEW o, NEW h, Good(h, t, w, whole, delivers, o)
  PROVE  Good(h, t, w, whole, delivers, h.out) /\ (~delivers => h.out = o)
  BY DEF Good, Delivered

LEMMA Measures ==
  ASSUME HistoryInv
  PROVE  /\ Space \in Nat /\ Space <= cap /\ Space <= allow
         /\ Lesser(remaining, Space) \in Nat /\ Lesser(remaining, Space) <= remaining
         /\ Lesser(remaining, Space) <= Space
         /\ MaxBackward \in Nat \ {0} /\ MaxBackward = window - Chunk /\ MaxBackward < window
         /\ Available \in Nat /\ Available <= position /\ Available <= MaxBackward
         /\ (position <= MaxBackward => Available = position)
         /\ Owed \in Nat /\ Owed <= remaining
<1> USE HistoryTypes, RingAssumption
<1>1. Space \in Nat /\ Space <= cap /\ Space <= allow
  BY DEF Space, Lesser
<1>2. /\ Lesser(remaining, Space) \in Nat /\ Lesser(remaining, Space) <= remaining
      /\ Lesser(remaining, Space) <= Space
  BY <1>1, SMTT(30) DEF Lesser
<1>3. MaxBackward \in Nat \ {0} /\ MaxBackward = window - Chunk /\ MaxBackward < window
  BY SMTT(30) DEF MaxBackward
<1>4. /\ Available \in Nat /\ Available <= position /\ Available <= MaxBackward
      /\ (position <= MaxBackward => Available = position)
  BY <1>3, SMTT(30) DEF Available, Lesser
<1>5. Owed \in Nat /\ Owed <= remaining
  BY DEF Owed
<1> QED
  BY <1>1, <1>2, <1>3, <1>4, <1>5

(* A buffer the history may be stored in. *)
Placed(b) ==
  IF Linear
  THEN Len(b) <= Len(slice) /\ \A i \in position + remaining + 1 .. Len(b) : b[i] = slice[i]
  ELSE Len(b) = 0 \/ PowerOfTwo(Len(b))

(* h is the history of t with n more bytes. *)
Made(h, t, n) ==
  /\ Good(h, t, window, Whole, Delivers, out) /\ Lapped(h, Whole) /\ Placed(h.bytes)
  /\ h.pos = position + n /\ n \in 0 .. Lesser(remaining, Space)

(* The bytes of a caller's slice after a history in its first ones. *)
LEMMA SliceKept ==
  ASSUME NEW b \in Seq(Int), NEW s \in Seq(Int), Len(b) <= Len(s)
  PROVE  /\ b \o SubSeq(s, Len(b) + 1, Len(s)) \in Seq(Int)
         /\ Len(b \o SubSeq(s, Len(b) + 1, Len(s))) = Len(s)
         /\ \A i \in 1 .. Len(b) : (b \o SubSeq(s, Len(b) + 1, Len(s)))[i] = b[i]
         /\ \A i \in Len(b) + 1 .. Len(s) : (b \o SubSeq(s, Len(b) + 1, Len(s)))[i] = s[i]
<1> DEFINE r == SubSeq(s, Len(b) + 1, Len(s))
           m == Len(b)
           l == Len(s)
<1>1. m \in Nat /\ l \in Nat /\ m <= l /\ m + 1 \in Nat \ {0} /\ m + 1 <= l + 1 /\ l <= Len(s)
  BY LenProperties
<1>2. r \in Seq(Int) /\ Len(r) = l + 1 - (m + 1) /\ \A i \in 1 .. l + 1 - (m + 1) : r[i] = s[(m + 1) + i - 1]
  BY <1>1, PartOf, ZenonT(60)
<1>3. b \o r \in Seq(Int) /\ Len(b \o r) = m + Len(r)
  BY <1>2, ConcatProperties
<1>4. \A i \in 1 .. m + Len(r) : (b \o r)[i] = IF i <= m THEN b[i] ELSE r[i - m]
  BY <1>2, ConcatProperties
<1> HIDE DEF r, m, l
<1>5. ASSUME NEW i \in 1 .. m PROVE (b \o r)[i] = b[i]
  <2>1. i \in 1 .. m + Len(r) /\ i <= m
    BY <1>1, <1>2
  <2> QED
    BY <1>4, <2>1
<1>6. ASSUME NEW i \in m + 1 .. l PROVE (b \o r)[i] = s[i]
  <2>1. i - m \in 1 .. l + 1 - (m + 1) /\ i \in 1 .. m + Len(r) /\ ~(i <= m) /\ (m + 1) + (i - m) - 1 = i
    BY <1>1, <1>2
  <2>2. (b \o r)[i] = r[i - m]
    BY <1>4, <2>1
  <2>3. r[i - m] = s[(m + 1) + (i - m) - 1]
    BY <1>2, <2>1
  <2> QED
    BY <2>1, <2>2, <2>3
<1>7. m + Len(r) = l
  BY <1>1, <1>2
<1> QED
  BY <1>3, <1>5, <1>6, <1>7 DEF r, m, l

LEMMA HistoryRecord ==
  ASSUME NEW h \in Histories
  PROVE  h = [bytes |-> h.bytes, pos |-> h.pos, flushed |-> h.flushed, out |-> h.out]
  BY DEF Histories

(* A step that stores h keeps the history's invariant. *)
LEMMA Produces ==
  ASSUME NEW h, NEW t, NEW n, HistoryInv, Made(h, t, n), text' = t, Store(h),
         stage \notin Settled, stage' \notin Settled,
         remaining' = remaining - n, cap' = cap - n, allow' = allow - n,
         delivery' = delivery, window' = window
  PROVE  HistoryInv' /\ position' = position + n /\ flushed' = h.flushed /\ text' = t
<1> DEFINE b == h.bytes
           c == IF Linear THEN b \o SubSeq(slice, Len(b) + 1, Len(slice)) ELSE b
           g == [bytes |-> c, pos |-> h.pos, flushed |-> h.flushed, out |-> h.out]
<1>1. /\ Good(h, t, window, Whole, Delivers, out) /\ Lapped(h, Whole) /\ Placed(b)
      /\ h.pos = position + n /\ n \in 0 .. Lesser(remaining, Space)
  BY DEF Made
<1>0. /\ cap \in Nat /\ allow \in Nat /\ remaining \in Nat /\ position \in Nat /\ Len(slice) \in Nat
      /\ slice \in Seq(Int) /\ ring \in Seq(Int)
  BY HistoryTypes
<1>2. n \in Nat /\ n <= remaining /\ n <= cap /\ n <= allow
  <2>1. /\ Space \in Nat /\ Space <= cap /\ Space <= allow
        /\ Lesser(remaining, Space) \in Nat /\ Lesser(remaining, Space) <= remaining
        /\ Lesser(remaining, Space) <= Space
    BY Measures
  <2> QED
    BY <1>0, <1>1, <2>1
<1>3. b \in Seq(Int) /\ Len(b) \in Nat /\ h \in Histories
  BY <1>1, GoodTypes
<1>4. Good(h, t, window, Whole, Delivers, h.out)
  BY <1>1, OwnOut
<1>5. ASSUME Linear
      PROVE  /\ Good(g, t, window, Whole, Delivers, h.out) /\ Lapped(g, Whole) /\ Len(c) = Len(slice)
             /\ c \in Seq(Int)
             /\ \A i \in position + remaining + 1 .. Len(slice) : c[i] = slice[i]
  <2>1. Len(b) <= Len(slice) /\ \A i \in position + remaining + 1 .. Len(b) : b[i] = slice[i]
    BY <1>1, <1>5 DEF Placed
  <2>2. c = b \o SubSeq(slice, Len(b) + 1, Len(slice))
    BY <1>5
  <2>3. /\ c \in Seq(Int) /\ Len(c) = Len(slice)
        /\ \A i \in 1 .. Len(b) : c[i] = b[i]
        /\ \A i \in Len(b) + 1 .. Len(slice) : c[i] = slice[i]
    <3>1. b \in Seq(Int) /\ slice \in Seq(Int)
      BY <1>3, HistoryTypes
    <3> HIDE DEF b, c
    <3> QED
      BY <2>1, <2>2, <3>1, SliceKept, SMTT(30)
  <2>4. Whole /\ h.pos <= Len(b)
    BY <1>1, <1>5, HistoryTypes DEF Good, Roomy
  <2>5. Rebased(h, g, c, Whole)
    <3>1. h.pos \in Nat /\ Len(slice) \in Nat
      BY <1>1, GoodTypes, HistoryTypes
    <3>2. h.pos <= Len(c) /\ \A i \in 1 .. h.pos : c[i] = b[i]
      <4> HIDE DEF c, b
      <4> QED
        BY <1>3, <2>1, <2>3, <2>4, <3>1
    <3> QED
      BY <2>3, <2>4, <3>2 DEF Rebased
  <2>6. Good(g, t, window, Whole, Delivers, h.out) /\ Lapped(g, Whole)
    <3> HIDE DEF g, c
    <3> QED
      BY <1>1, <1>4, <2>5, Rebases
  <2>7. ASSUME NEW i \in position + remaining + 1 .. Len(slice) PROVE c[i] = slice[i]
    <3>1. i \in Int /\ position + remaining + 1 <= i /\ 1 <= i /\ i <= Len(slice)
      BY <1>0
    <3> HIDE DEF c, b
    <3>2. CASE i <= Len(b)
      <4>1. i \in 1 .. Len(b) /\ i \in position + remaining + 1 .. Len(b)
        BY <1>0, <1>3, <3>1, <3>2
      <4> QED
        BY <2>1, <2>3, <4>1
    <3>3. CASE ~(i <= Len(b))
      <4>1. i \in Len(b) + 1 .. Len(slice)
        BY <1>0, <1>3, <3>1, <3>3
      <4> QED
        BY <2>3, <4>1
    <3> QED
      BY <3>2, <3>3
  <2> HIDE DEF g, c
  <2> QED
    BY <2>3, <2>6, <2>7
<1>6. ASSUME ~Linear
      PROVE  Good(g, t, window, Whole, Delivers, h.out) /\ Lapped(g, Whole) /\ c \in Seq(Int)
             /\ (Len(c) = 0 \/ PowerOfTwo(Len(c)))
  <2>1. c = b
    BY <1>6
  <2>2. g = h
    BY <1>3, <2>1, HistoryRecord
  <2> QED
    BY <1>1, <1>3, <1>4, <1>6, <2>1, <2>2 DEF Placed
<1>7. Good(g, t, window, Whole, Delivers, h.out) /\ Lapped(g, Whole) /\ c \in Seq(Int)
  BY <1>5, <1>6
<1>8. /\ position' = h.pos /\ flushed' = h.flushed /\ out' = h.out
      /\ IF Linear THEN slice' = c /\ ring' = ring ELSE ring' = c /\ slice' = slice
  BY DEF Store
<1>9. (Linear' <=> Linear) /\ (Whole' <=> Whole) /\ (Delivers' <=> Delivers)
  BY DEF Linear, Whole, Delivers
<1>10. Buffer' = c
  BY <1>8, <1>9 DEF Buffer
<1>11. History(Buffer)' = g
  <2>1. History(Buffer)' = [bytes |-> Buffer', pos |-> position', flushed |-> flushed', out |-> out']
    BY DEF History
  <2> QED
    BY <1>8, <1>10, <2>1
<1>12. Whole' = Whole /\ Delivers' = Delivers /\ Linear' = Linear
  BY <1>9 DEF Linear, Whole, Delivers
<1> HIDE DEF c, g
<1>13. Good(History(Buffer)', text', window', Whole', Delivers', out')
       /\ Lapped(History(Buffer)', Whole')
  BY <1>7, <1>8, <1>11, <1>12
<1>14. slice' \in Seq(Int) /\ ring' \in Seq(Int) /\ (Len(ring') = 0 \/ PowerOfTwo(Len(ring')))
  BY <1>6, <1>7, <1>8, HistoryTypes DEF HistoryInv
<1>15. delivery' \in {"slice", "collect", "linear"} /\ cap' \in Nat /\ allow' \in Nat /\ remaining' \in Nat
  <2>1. cap' \in Nat /\ allow' \in Nat /\ remaining' \in Nat
    BY <1>0, <1>2
  <2>2. delivery \in {"slice", "collect", "linear"}
    BY DEF HistoryInv
  <2> QED
    BY <2>1, <2>2
<1>16. Owed = remaining /\ Owed' = remaining' /\ position' + remaining' = position + remaining
       /\ position' = position + n
  BY <1>0, <1>1, <1>2, <1>8 DEF Owed
<1>17. position' + Owed' <= MaxText
  BY <1>16 DEF HistoryInv
<1>18. /\ Linear' => cap' + position' = Len(slice')
       /\ delivery' = "collect" => cap' + position' = window'
  <2>1. cap' + position' = cap + position
    BY <1>0, <1>2, <1>16
  <2>2. Linear => Len(slice') = Len(slice)
    BY <1>5, <1>8
  <2> QED
    BY <1>9, <2>1, <2>2 DEF HistoryInv
<1>19. Linear' => \A i \in position' + Owed' + 1 .. Len(slice') : slice'[i] = Untouched'
  <2> SUFFICES ASSUME Linear', NEW i \in position' + Owed' + 1 .. Len(slice')
               PROVE  slice'[i] = Untouched
    BY DEF Untouched
  <2>1. Linear /\ slice' = c /\ Len(c) = Len(slice)
    BY <1>5, <1>8, <1>9
  <2>2. i \in position + Owed + 1 .. Len(slice) /\ i \in position + remaining + 1 .. Len(slice)
    BY <1>16, <2>1
  <2>3. c[i] = slice[i]
    BY <1>5, <2>1, <2>2
  <2>4. slice[i] = Untouched
    BY <2>1, <2>2 DEF HistoryInv
  <2> QED
    BY <2>1, <2>3, <2>4
<1>20. HistoryInv'
  BY <1>13, <1>14, <1>15, <1>17, <1>18, <1>19 DEF HistoryInv
<1> QED
  BY <1>8, <1>16, <1>20

LEMMA ExtendsItself == ASSUME NEW t \in Seq(Int) PROVE Extends(t, t)
<1>1. Len(t) \in Nat
  BY LenProperties
<1> QED
  BY <1>1 DEF Extends

(* A step that decodes nothing may only extend the text and what is owed. *)
LEMMA HistoryStands ==
  ASSUME HistoryInv, UNCHANGED <<callVars, historyVars, window>>, Extends(text, text'),
         remaining' \in Nat, NEW e, Owed' = e, Owed <= e, position + e <= MaxText
  PROVE  HistoryInv'
<1>1. /\ delivery' = delivery /\ cap' = cap /\ allow' = allow /\ slice' = slice /\ ring' = ring
      /\ position' = position /\ flushed' = flushed /\ out' = out /\ window' = window
  BY DEF callVars, historyVars
<1>2. Whole' = Whole /\ Delivers' = Delivers /\ Linear' = Linear
  BY <1>1 DEF Linear, Whole, Delivers
<1>3. History(Buffer)' = History(Buffer)
  BY <1>1, <1>2 DEF History, Buffer
<1>4. Good(History(Buffer), text', window, Whole, Delivers, out)
  BY GoodLonger DEF HistoryInv
<1>5. Good(History(Buffer)', text', window', Whole', Delivers', out') /\ Lapped(History(Buffer)', Whole')
  BY <1>1, <1>2, <1>3, <1>4 DEF HistoryInv
<1>6. position' + Owed' <= MaxText
  BY <1>1
<1>7. Linear' => \A i \in position' + Owed' + 1 .. Len(slice') : slice'[i] = Untouched'
  <2> SUFFICES ASSUME Linear, NEW i \in position + e + 1 .. Len(slice) PROVE slice[i] = Untouched
    BY <1>1, <1>2 DEF Untouched
  <2>1. position \in Nat /\ Owed \in Nat /\ e \in Nat /\ Len(slice) \in Nat
    <3>1. Owed' \in Nat
      BY DEF Owed
    <3> QED
      BY <3>1, HistoryTypes, Measures
  <2>2. i \in position + Owed + 1 .. Len(slice)
    BY <2>1
  <2> QED
    BY <2>2 DEF HistoryInv
<1>8. /\ delivery' \in {"slice", "collect", "linear"} /\ cap' \in Nat /\ allow' \in Nat
      /\ slice' \in Seq(Int) /\ ring' \in Seq(Int)
      /\ (Len(ring') = 0 \/ PowerOfTwo(Len(ring')))
      /\ (Linear' => cap' + position' = Len(slice'))
      /\ (delivery' = "collect" => cap' + position' = window')
  BY <1>1, <1>2 DEF HistoryInv
<1> QED
  BY <1>5, <1>6, <1>7, <1>8 DEF HistoryInv

(* The same for what is owed when the text stays. *)
LEMMA HistoryStays ==
  ASSUME HistoryInv, UNCHANGED <<callVars, historyVars, window, text>>,
         \/ stage' \in Settled /\ (stage \in Settled \/ remaining = 0) /\ remaining' \in Nat
         \/ stage \notin Settled /\ stage' \notin Settled /\ remaining' = remaining
  PROVE  HistoryInv'
<1>1. Extends(text, text')
  <2>1. text' = text /\ Extends(text, text)
    BY HistoryTypes, ExtendsItself
  <2> QED
    BY <2>1
<1>0. \E x : x = Owed'
  OBVIOUS
<1>4. PICK e : e = Owed'
  BY <1>0
<1>2. remaining' \in Nat /\ Owed <= e /\ position + e <= MaxText
  <2>1. remaining \in Nat /\ Owed \in Nat /\ position + Owed <= MaxText
    BY HistoryTypes, Measures DEF HistoryInv
  <2>2. CASE stage' \in Settled /\ (stage \in Settled \/ remaining = 0) /\ remaining' \in Nat
    <3>1. Owed = 0 /\ e = 0
      BY <1>4, <2>2 DEF Owed
    <3> QED
      BY <2>1, <2>2, <3>1
  <2>3. CASE stage \notin Settled /\ stage' \notin Settled /\ remaining' = remaining
    <3>1. Owed = remaining /\ e = remaining
      BY <1>4, <2>3 DEF Owed
    <3> QED
      BY <2>1, <2>3, <3>1
  <2> QED
    BY <2>2, <2>3
<1>3. UNCHANGED <<callVars, historyVars, window>> /\ Owed' = e
  BY <1>4
<1> QED
  BY <1>1, <1>2, <1>3, HistoryStands

-----------------------------------------------------------------------------
(* The buffers the stages and the fast loop write to. *)

(* Buffer b holds the history and has room for n more bytes. *)
Ready(b, n) == Made(History(b), text, 0) /\ Roomy(History(b), position + n, window, Whole)

LEMMA HistoryFields ==
  ASSUME NEW b
  PROVE  /\ History(b) = [bytes |-> b, pos |-> position, flushed |-> flushed, out |-> out]
         /\ History(b).bytes = b /\ History(b).pos = position
         /\ History(b).flushed = flushed /\ History(b).out = out
  BY DEF History

(* A full collecting call has a whole window of room. *)
LEMMA CollectRoom ==
  ASSUME HistoryInv, Whole, ~Linear, NEW n \in 0 .. Lesser(remaining, Space)
  PROVE  position + n <= window
<1>1. delivery = "collect"
  BY HistoryTypes DEF Whole, Linear
<1>2. cap + position = window
  BY <1>1 DEF HistoryInv
<1>3. cap \in Nat /\ position \in Nat /\ Lesser(remaining, Space) \in Nat
      /\ Lesser(remaining, Space) <= Space /\ Space <= cap /\ Space \in Nat
  BY HistoryTypes, Measures
<1> QED
  BY <1>2, <1>3

LEMMA ViewReady ==
  ASSUME HistoryInv
  PROVE  /\ Ready(View, 0) /\ (Linear => Ready(View, Lesser(remaining, Space)))
         /\ (~Linear => View = ring)
         /\ (Linear => Len(View) = position + Lesser(remaining, Space))
<1> DEFINE m == Lesser(remaining, Space)
           h == History(Buffer)
           g == History(View)
<1>1. /\ m \in Nat /\ m <= remaining /\ m <= cap /\ position \in Nat /\ cap \in Nat /\ remaining \in Nat
      /\ slice \in Seq(Int) /\ Len(slice) \in Nat
  <2>1. /\ Lesser(remaining, Space) \in Nat /\ Lesser(remaining, Space) <= remaining
        /\ Lesser(remaining, Space) <= Space /\ Space <= cap /\ Space \in Nat
    BY Measures
  <2>2. position \in Nat /\ cap \in Nat /\ remaining \in Nat /\ slice \in Seq(Int) /\ Len(slice) \in Nat
    BY HistoryTypes
  <2> QED
    BY <2>1, <2>2
<1>2. Good(h, text, window, Whole, Delivers, out) /\ Lapped(h, Whole)
  BY DEF HistoryInv
<1>3. /\ h.bytes = Buffer /\ h.pos = position /\ h.flushed = flushed /\ h.out = out
      /\ g.bytes = View /\ g.pos = position
      /\ g = [bytes |-> View, pos |-> position, flushed |-> flushed, out |-> out]
  BY HistoryFields
<1>4. CASE ~Linear
  <2>1. View = ring /\ Buffer = ring
    BY <1>4 DEF View, Buffer
  <2>2. g = h
    BY <2>1
  <2>3. Placed(ring)
    BY <1>4 DEF Placed, HistoryInv
  <2>4. Made(g, text, 0)
    <3>1. position = position + 0 /\ 0 \in 0 .. Lesser(remaining, Space)
      BY <1>1
    <3> HIDE DEF g, h
    <3> QED
      BY <1>2, <1>3, <2>1, <2>2, <2>3, <3>1 DEF Made
  <2>5. Roomy(g, position + 0, window, Whole)
    <3>1. position + 0 = position /\ Roomy(h, h.pos, window, Whole)
      BY <1>1, <1>2 DEF Good
    <3> HIDE DEF g, h
    <3> QED
      BY <1>3, <2>2, <3>1
  <2> QED
    BY <1>4, <2>1, <2>4, <2>5 DEF Ready
<1>5. CASE Linear
  <2>1. View = SubSeq(slice, 1, position + m) /\ Buffer = slice
    BY <1>5 DEF View, Buffer
  <2>2. position + m <= Len(slice) /\ position <= position + m
    <3>1. cap + position = Len(slice)
      BY <1>5 DEF HistoryInv
    <3> HIDE DEF m
    <3> QED
      BY <1>1, <3>1
  <2>3. /\ View \in Seq(Int) /\ Len(View) = position + m
        /\ \A i \in 1 .. position + m : View[i] = slice[i]
    <3>1. 1 \in Nat \ {0} /\ position + m \in Nat /\ 1 <= (position + m) + 1 /\ (position + m) + 1 - 1 = position + m
      BY <1>1
    <3> HIDE DEF m
    <3>2. /\ SubSeq(slice, 1, position + m) \in Seq(Int) /\ Len(SubSeq(slice, 1, position + m)) = (position + m) + 1 - 1
          /\ \A i \in 1 .. (position + m) + 1 - 1 : SubSeq(slice, 1, position + m)[i] = slice[1 + i - 1]
      BY <1>1, <2>2, <3>1, PartOf
    <3> QED
      BY <1>1, <2>1, <3>1, <3>2
  <2>4. Whole
    BY <1>5, HistoryTypes
  <2>5. Rebased(h, g, View, Whole)
    <3>1. position <= Len(slice) /\ position <= Len(View) /\ \A i \in 1 .. position : View[i] = slice[i]
      <4> HIDE DEF m
      <4> QED
        BY <1>1, <2>2, <2>3, SMTT(30)
    <3> HIDE DEF m, h, g
    <3> QED
      BY <1>3, <2>1, <2>3, <2>4, <3>1 DEF Rebased
  <2>6. Good(g, text, window, Whole, Delivers, out) /\ Lapped(g, Whole)
    <3> HIDE DEF h, g
    <3> QED
      BY <1>2, <2>5, Rebases
  <2>7. Placed(View)
    <3>1. \A i \in position + remaining + 1 .. Len(View) : FALSE
      <4> HIDE DEF m
      <4> QED
        BY <1>1, <2>3
    <3> HIDE DEF m
    <3> QED
      BY <1>5, <2>2, <2>3, <3>1 DEF Placed
  <2>8. Made(g, text, 0)
    <3>1. position = position + 0 /\ 0 \in 0 .. Lesser(remaining, Space)
      BY <1>1
    <3> HIDE DEF g, h
    <3> QED
      BY <1>3, <2>6, <2>7, <3>1 DEF Made
  <2>9. Roomy(g, position + 0, window, Whole) /\ Roomy(g, position + m, window, Whole)
    <3>1. position + 0 <= Len(View) /\ position + m <= Len(View)
      <4> HIDE DEF m
      <4> QED
        BY <1>1, <2>3
    <3> HIDE DEF g, m
    <3> QED
      BY <1>3, <3>1 DEF Roomy
  <2> QED
    BY <1>5, <2>3, <2>8, <2>9 DEF Ready
<1> QED
  BY <1>4, <1>5

(* The ring grown for some of the bytes owed. *)
LEMMA GrownReady ==
  ASSUME HistoryInv, ~Linear, PowerOfTwo(window), NEW n \in 1 .. Lesser(remaining, Space)
  PROVE  Ready(GrowRing(ring, window, position + n), n)
<1> DEFINE e == position + n
           h == History(ring)
           g == History(GrowRing(ring, window, e))
<1>1. /\ Good(h, text, window, Whole, Delivers, out) /\ Lapped(h, Whole)
      /\ Len(ring) = 0 \/ PowerOfTwo(Len(ring))
  <2>1. Buffer = ring
    BY DEF Buffer
  <2> QED
    BY <2>1 DEF HistoryInv
<1>2. e \in Nat \ {0} /\ (Whole => e <= window)
  <2>1. position \in Nat /\ Lesser(remaining, Space) \in Nat
    BY HistoryTypes, Measures
  <2>2. n \in 0 .. Lesser(remaining, Space)
    BY <2>1
  <2> QED
    BY <2>1, <2>2, CollectRoom
<1>3. /\ h.bytes = ring /\ h.pos = position /\ h.flushed = flushed /\ h.out = out
      /\ g = [bytes |-> GrowRing(h.bytes, window, e), pos |-> h.pos, flushed |-> h.flushed, out |-> h.out]
      /\ g.pos = position /\ g.bytes = GrowRing(ring, window, e)
  BY HistoryFields
<1> HIDE DEF e, h, g
<1>4. /\ Good(g, text, window, Whole, Delivers, out) /\ Lapped(g, Whole) /\ Roomy(g, e, window, Whole)
      /\ Len(g.bytes) = 0 \/ PowerOfTwo(Len(g.bytes))
  <2>1. Len(h.bytes) = 0 \/ PowerOfTwo(Len(h.bytes))
    BY <1>1, <1>3
  <2>2. g = [bytes |-> GrowRing(h.bytes, window, e), pos |-> h.pos, flushed |-> h.flushed, out |-> h.out]
    BY <1>3
  <2>3. Growable(h, text, window, Whole, Delivers, out, e)
    BY <1>1, <1>2, <2>1 DEF Growable
  <2> QED
    BY <2>2, <2>3, Grows
<1>5. Placed(g.bytes)
  BY <1>4 DEF Placed
<1>6. position = position + 0 /\ 0 \in 0 .. Lesser(remaining, Space)
  BY HistoryTypes, Measures
<1>7. Made(g, text, 0)
  BY <1>3, <1>4, <1>5, <1>6 DEF Made
<1> QED
  BY <1>4, <1>7 DEF Ready, e, g

(* The buffer of the fast loop, for m bytes that end no later than end. *)
LEMMA ReachedReady ==
  ASSUME HistoryInv, PowerOfTwo(window), NEW m \in 0 .. Lesser(remaining, Space),
         NEW end \in Nat, position + m <= end
  PROVE  Ready(Reached(end), m) /\ (Linear => Reached(end) = View)
<1> DEFINE M == Lesser(remaining, Space)
<1>1. M \in Nat /\ position \in Nat /\ Len(ring) \in Nat /\ window \in Nat /\ m \in Nat /\ m <= M
      /\ position + M \in Nat
  <2>1. Lesser(remaining, Space) \in Nat
    BY Measures
  <2>2. position \in Nat /\ Len(ring) \in Nat /\ window \in Nat
    BY HistoryTypes
  <2> QED
    BY <2>1, <2>2
<1>2. Ready(View, 0) /\ (Linear => Ready(View, M)) /\ (~Linear => View = ring)
  BY ViewReady
<1>3. Linear => Reached(end) = View
  BY DEF Reached, Unreached
<1>4. ASSUME Linear PROVE Ready(View, m)
  <2>1. Made(History(View), text, 0) /\ Roomy(History(View), position + M, window, Whole) /\ Whole
    BY <1>2, <1>4, HistoryTypes DEF Ready
  <2>2. Len(View) \in Nat /\ History(View).bytes = View
    <3>1. History(View).bytes \in Seq(Int)
      BY <2>1, GoodTypes DEF Made
    <3> QED
      BY <3>1, HistoryFields, LenProperties
  <2>3. Roomy(History(View), position + m, window, Whole)
    <3> HIDE DEF M
    <3> QED
      BY <1>1, <2>1, <2>2 DEF Roomy
  <2> QED
    BY <2>1, <2>3 DEF Ready
<1>5. ASSUME ~Linear, ~Growing(ring, window, end) PROVE Ready(ring, m)
  <2>1. Made(History(ring), text, 0)
    BY <1>2, <1>5 DEF Ready
  <2>2. end <= Len(ring) \/ window <= Len(ring)
    BY <1>1, <1>5 DEF Growing
  <2>3. Whole => position + m <= window
    BY <1>5, CollectRoom
  <2>4. position + m <= Len(ring) \/ (~Whole /\ window <= Len(ring))
    <3>1. position + m \in Nat /\ Whole \in BOOLEAN
      BY <1>1, HistoryTypes
    <3> QED
      BY <1>1, <2>2, <2>3, <3>1
  <2>5. Roomy(History(ring), position + m, window, Whole)
    BY <2>4, HistoryFields DEF Roomy
  <2> QED
    BY <2>1, <2>5 DEF Ready
<1>6. ASSUME ~Linear, Growing(ring, window, end) PROVE Ready(GrowRing(ring, window, position + M), m)
  <2>1. CASE M \in 1 .. M
    <3>1. Ready(GrowRing(ring, window, position + M), M)
      BY <1>6, <2>1, GrownReady
    <3> DEFINE b == GrowRing(ring, window, position + M)
    <3>2. Made(History(b), text, 0) /\ Roomy(History(b), position + M, window, Whole)
      BY <3>1 DEF Ready
    <3>3. History(b).bytes \in Seq(Int) /\ History(b).bytes = b
      BY <3>2, GoodTypes, HistoryFields DEF Made
    <3> HIDE DEF b, M
    <3>4. Len(b) \in Nat
      BY <3>3, LenProperties
    <3>5. position + m <= Len(b) \/ (~Whole /\ window <= Len(b))
      BY <1>1, <3>2, <3>3, <3>4 DEF Roomy
    <3>6. Roomy(History(b), position + m, window, Whole)
      BY <3>3, <3>5 DEF Roomy
    <3>7. Ready(b, m)
      BY <3>2, <3>6 DEF Ready
    <3> QED
      BY <3>7 DEF b
  <2>2. CASE M \notin 1 .. M
    <3>1. M = 0 /\ m = 0 /\ position + M = position
      <4> HIDE DEF M
      <4> QED
        BY <1>1, <2>2
    <3>2. Ready(ring, 0)
      BY <1>2, <1>6
    <3>3. Roomy(History(ring), position, window, Whole) /\ Made(History(ring), text, 0)
      <4>1. position + 0 = position
        BY <1>1
      <4> QED
        BY <3>2, <4>1 DEF Ready
    <3>4. position <= Len(ring) \/ window <= Len(ring)
      BY <3>3, HistoryFields DEF Roomy
    <3>5. ~Growing(ring, window, position)
      BY <1>1, <3>4 DEF Growing
    <3>6. GrowRing(ring, window, position) = ring
      BY <3>5 DEF GrowRing
    <3> HIDE DEF M
    <3> QED
      BY <3>1, <3>2, <3>6
  <2> QED
    BY <2>1, <2>2
<1>7. CASE Linear
  BY <1>3, <1>4, <1>7
<1>8. CASE ~Linear
  <2>1. CASE Growing(ring, window, end)
    <3>1. Reached(end) = GrowRing(ring, window, position + M)
      BY <1>8, <2>1 DEF Reached, Unreached
    <3> HIDE DEF M
    <3> QED
      BY <1>6, <1>8, <2>1, <3>1
  <2>2. CASE ~Growing(ring, window, end)
    <3>1. Reached(end) = View /\ View = ring
      BY <1>2, <1>8, <2>2 DEF Reached, Unreached
    <3> QED
      BY <1>5, <1>8, <2>2, <3>1
  <2> QED
    BY <2>1, <2>2
<1> QED
  BY <1>7, <1>8

(* The caller's slice takes what the room and the meta-block allow. *)
LEMMA SliceReady ==
  ASSUME HistoryInv, Linear, NEW n \in 0 .. Lesser(remaining, Space)
  PROVE  Ready(slice, n)
<1>1. /\ n \in Nat /\ n <= cap /\ position \in Nat /\ cap \in Nat /\ remaining \in Nat
      /\ slice \in Seq(Int) /\ Len(slice) \in Nat
  <2>1. /\ Lesser(remaining, Space) \in Nat /\ Lesser(remaining, Space) <= remaining
        /\ Lesser(remaining, Space) <= Space /\ Space <= cap /\ Space \in Nat
    BY Measures
  <2>2. position \in Nat /\ cap \in Nat /\ remaining \in Nat /\ slice \in Seq(Int) /\ Len(slice) \in Nat
    BY HistoryTypes
  <2> QED
    BY <2>1, <2>2
<1>2. cap + position = Len(slice) /\ Buffer = slice
  BY DEF HistoryInv, Buffer
<1>3. position + n <= Len(slice)
  BY <1>1, <1>2
<1>4. Placed(slice)
  BY <1>1 DEF Placed
<1>5. Good(History(slice), text, window, Whole, Delivers, out) /\ Lapped(History(slice), Whole)
  BY <1>2 DEF HistoryInv
<1>6. position = position + 0 /\ 0 \in 0 .. Lesser(remaining, Space)
  BY HistoryTypes, Measures
<1>7. Made(History(slice), text, 0)
  BY <1>4, <1>5, <1>6, HistoryFields DEF Made
<1>8. Roomy(History(slice), position + n, window, Whole)
  BY <1>3, HistoryFields DEF Roomy
<1> QED
  BY <1>7, <1>8 DEF Ready

(* Buffer b holds the history of t and has room for its next n bytes. *)
Onward(b, t, n) ==
  /\ Good(History(b), t, window, Whole, Delivers, out) /\ Lapped(History(b), Whole)
  /\ Placed(b) /\ Roomy(History(b), position + n, window, Whole)
  /\ position + n <= Len(t) /\ n \in 0 .. Lesser(remaining, Space)

LEMMA ReadyOnward ==
  ASSUME NEW b, NEW n, NEW t, Ready(b, n), Extends(text, t), position + n <= Len(t),
         n \in 0 .. Lesser(remaining, Space)
  PROVE  Onward(b, t, n)
<1>1. /\ Good(History(b), text, window, Whole, Delivers, out) /\ Lapped(History(b), Whole) /\ Placed(b)
      /\ Roomy(History(b), position + n, window, Whole)
  BY HistoryFields DEF Ready, Made
<1>2. Good(History(b), t, window, Whole, Delivers, out)
  BY <1>1, GoodLonger
<1> QED
  BY <1>1, <1>2 DEF Onward

LEMMA OnwardTypes ==
  ASSUME HistoryInv, NEW b, NEW t, NEW n, Onward(b, t, n)
  PROVE  /\ b \in Seq(Int) /\ Len(b) \in Nat /\ t \in Seq(Int) /\ Len(t) \in Nat
         /\ n \in Nat /\ n <= remaining /\ n <= Space
         /\ position + n <= Len(b) \/ (~Whole /\ window <= Len(b))
         /\ n # 0 => Len(b) # 0
         /\ Linear => position + n <= Len(b)
<1>1. Good(History(b), t, window, Whole, Delivers, out) /\ Roomy(History(b), position + n, window, Whole)
      /\ n \in 0 .. Lesser(remaining, Space)
  BY DEF Onward
<1>2. History(b).bytes = b
  BY HistoryFields
<1>3. b \in Seq(Int) /\ Len(b) \in Nat /\ t \in Seq(Int) /\ Len(t) \in Nat
  BY <1>1, <1>2, GoodTypes
<1>4. n \in Nat /\ n <= remaining /\ n <= Space
  <2>1. /\ Lesser(remaining, Space) \in Nat /\ Lesser(remaining, Space) <= remaining
        /\ Lesser(remaining, Space) <= Space /\ remaining \in Nat /\ Space \in Nat
    BY Measures, HistoryTypes
  <2> QED
    BY <1>1, <2>1
<1>5. position + n <= Len(b) \/ (~Whole /\ window <= Len(b))
  BY <1>1, <1>2 DEF Roomy
<1>6. n # 0 => Len(b) # 0
  <2>1. position \in Nat /\ window \in Nat /\ window # 0
    BY HistoryTypes, RingAssumption
  <2> QED
    BY <1>3, <1>4, <1>5, <2>1
<1>7. Linear => Whole
  BY HistoryTypes
<1> QED
  BY <1>3, <1>4, <1>5, <1>6, <1>7

(* The bytes s written over those at the position. *)
Overlaying(b, c, t, s, n) ==
  /\ Onward(b, t, n) /\ n # 0 /\ s \in Seq(Int) /\ Len(s) = n
  /\ (position % Len(b)) + n <= Len(b) /\ \A k \in 1 .. n : s[k] = t[position + k]
  /\ c = Overlaid(b, position % Len(b), s)

LEMMA OverlayMakes ==
  ASSUME HistoryInv, NEW b, NEW c, NEW t, NEW s, NEW n, NEW g, Overlaying(b, c, t, s, n),
         g = [bytes |-> c, pos |-> position + n, flushed |-> flushed, out |-> out]
  PROVE  /\ Longer(History(b), g, t, window, Whole, n, n) /\ Placed(c)
         /\ Good(g, t, window, Whole, Delivers, out)
<1>1. /\ b \in Seq(Int) /\ Len(b) \in Nat \ {0} /\ t \in Seq(Int) /\ n \in Nat \ {0} /\ n <= remaining
      /\ position + n <= Len(t) /\ position \in Nat
  <2>1. Onward(b, t, n) /\ n # 0 /\ position + n <= Len(t)
    BY DEF Overlaying, Onward
  <2>2. b \in Seq(Int) /\ Len(b) \in Nat /\ t \in Seq(Int) /\ n \in Nat /\ n <= remaining
        /\ (n # 0 => Len(b) # 0)
    BY <2>1, OnwardTypes
  <2>3. position \in Nat
    BY HistoryTypes
  <2> QED
    BY <2>1, <2>2, <2>3
<1>2. Overlays(b, t, position, s, n)
  BY <1>1 DEF Overlaying, Overlays
<1>3. Wrote(b, c, t, position, n, n)
  BY <1>2, OverlayWrites DEF Overlaying
<1>4. History(b).bytes = b /\ History(b).pos = position /\ History(b).flushed = flushed /\ History(b).out = out
  BY HistoryFields
<1>5. g \in Histories /\ g.bytes = c /\ g.pos = position + n /\ g.flushed = flushed /\ g.out = out
  <2>1. c \in Seq(Int) /\ flushed \in Nat /\ out \in Seq(Int) /\ position + n \in Nat
    BY <1>1, <1>3, HistoryTypes DEF Wrote
  <2> QED
    BY <2>1 DEF Histories
<1>6. Good(History(b), t, window, Whole, Delivers, out) /\ Lapped(History(b), Whole)
      /\ Roomy(History(b), position + n, window, Whole) /\ Placed(b)
  BY DEF Overlaying, Onward
<1>7. Longer(History(b), g, t, window, Whole, n, n)
  BY <1>3, <1>4, <1>5, <1>6 DEF Longer
<1>8. Good(g, t, window, Whole, Delivers, out)
  BY <1>6, <1>7, Writes
<1>9. Placed(c)
  <2>1. Len(c) = Len(b)
    BY <1>3 DEF Wrote
  <2>2. CASE ~Linear
    BY <1>6, <2>1, <2>2 DEF Placed
  <2>3. CASE Linear
    <3>1. Len(b) <= Len(slice) /\ \A i \in position + remaining + 1 .. Len(b) : b[i] = slice[i]
      BY <1>6, <2>3 DEF Placed
    <3> DEFINE r == position % Len(b)
    <3>2. r = position
      <4>1. position + n <= Len(b)
        BY <2>3, OnwardTypes DEF Overlaying
      <4>2. position \in 0 .. Len(b) - 1
        BY <1>1, <4>1
      <4> QED
        BY <1>1, <4>2, ModSmall
    <3>3. \A i \in 1 .. Len(b) : i <= r \/ i > r + n => c[i] = b[i]
      BY <1>3 DEF Wrote
    <3> HIDE DEF r
    <3>4. ASSUME NEW i \in position + remaining + 1 .. Len(c) PROVE c[i] = slice[i]
      <4>1. remaining \in Nat
        BY HistoryTypes
      <4>2. i \in 1 .. Len(b) /\ i > r + n /\ i \in position + remaining + 1 .. Len(b)
        BY <1>1, <2>1, <3>2, <4>1
      <4> QED
        BY <3>1, <3>3, <4>2
    <3> QED
      BY <2>1, <2>3, <3>1, <3>4 DEF Placed
  <2> QED
    BY <2>2, <2>3
<1> QED
  BY <1>7, <1>8, <1>9

(* Delivery of a history with n more bytes. *)
LEMMA FlushMakes ==
  ASSUME NEW g, NEW t, NEW n, Good(g, t, window, Whole, Delivers, out), Placed(g.bytes),
         g.pos = position + n, n \in 0 .. Lesser(remaining, Space)
  PROVE  /\ Made(Flush(g, Delivers), t, n)
         /\ Flush(g, Delivers).flushed = position + n /\ Flush(g, Delivers).bytes = g.bytes
<1>1. Emptied(g, Flush(g, Delivers), t, window, Whole, Delivers, out)
  BY Flushes
<1> QED
  BY <1>1 DEF Emptied, Made

(* The bytes s were delivered at once. *)
Pouring(g, f, t, s, n) ==
  /\ g.pos = position + n /\ Len(s) = n /\ n \in 0 .. Lesser(remaining, Space) /\ s \in Seq(Int)
  /\ flushed = position /\ \A k \in 1 .. n : s[k] = t[position + k]
  /\ Placed(g.bytes) /\ Extends(text, t)
  /\ f = [bytes |-> g.bytes, pos |-> g.pos, flushed |-> g.pos, out |-> IF Delivers THEN out \o s ELSE out]

LEMMA PourMakes ==
  ASSUME HistoryInv, NEW g, NEW f, NEW t, NEW s, NEW n, NEW quiet, NEW q, Good(g, t, window, Whole, quiet, q),
         Pouring(g, f, t, s, n)
  PROVE  Made(f, t, n) /\ f.flushed = position + n
<1> DEFINE u == IF Delivers THEN out \o s ELSE out
<1>1. /\ g.pos = position + n /\ Len(s) = n /\ n \in 0 .. Lesser(remaining, Space) /\ s \in Seq(Int)
      /\ flushed = position /\ \A k \in 1 .. n : s[k] = t[position + k]
      /\ Placed(g.bytes) /\ Extends(text, t)
      /\ f = [bytes |-> g.bytes, pos |-> g.pos, flushed |-> g.pos, out |-> u]
  BY DEF Pouring
<1>2. /\ t \in Seq(Int) /\ position \in Nat /\ n \in Nat /\ out \in Seq(Int) /\ position + n <= Len(t)
      /\ text \in Seq(Int) /\ position <= Len(text)
      /\ Delivers \in BOOLEAN /\ (Whole => ~Delivers)
  <2>1. Lesser(remaining, Space) \in Nat
    BY Measures
  <2>2. t \in Seq(Int) /\ g.pos <= Len(t)
    BY GoodTypes
  <2>3. position \in Nat /\ out \in Seq(Int) /\ text \in Seq(Int) /\ position <= Len(text)
        /\ Delivers \in BOOLEAN /\ (Whole => ~Delivers)
    BY HistoryTypes
  <2> QED
    BY <1>1, <2>1, <2>2, <2>3
<1>3. Delivers => out = SubSeq(t, 1, position)
  <2>1. Delivers => out = SubSeq(text, 1, flushed)
    <3>1. Good(History(Buffer), text, window, Whole, Delivers, out)
      BY DEF HistoryInv
    <3> QED
      BY <3>1, HistoryFields DEF Good, Delivered
  <2>2. SubSeq(t, 1, position) = SubSeq(text, 1, position)
    BY <1>1, <1>2, ExtendsPart
  <2> QED
    BY <1>1, <2>1, <2>2
<1>4. SubSeq(t, 1, position) \o s = SubSeq(t, 1, position + n)
  <2>1. position + Len(s) <= Len(t) /\ \A k \in 1 .. Len(s) : s[k] = t[position + k]
    BY <1>1, <1>2
  <2> QED
    BY <1>1, <1>2, <2>1, TextGoesOn, ZenonT(60)
<1>5. u = IF Delivers THEN SubSeq(t, 1, g.pos) ELSE out
  BY <1>1, <1>3, <1>4
<1>6. u \in Seq(Int)
  BY <1>1, <1>2, ConcatProperties
<1> HIDE DEF u
<1>7. Good(f, t, window, Whole, Delivers, out) /\ Lapped(f, Whole)
  <2>1. Poured(g, f, t, Whole, Delivers, out, u)
    BY <1>1, <1>2, <1>5, <1>6 DEF Poured
  <2> QED
    BY <2>1, Pours
<1>8. f.bytes = g.bytes /\ f.pos = position + n /\ f.flushed = position + n
  BY <1>1
<1> QED
  BY <1>1, <1>7, <1>8 DEF Made

(* One byte, as a run of one. *)
LEMMA OneByte ==
  ASSUME NEW b \in Seq(Int), NEW d \in Nat, NEW x \in Int
  PROVE  [b EXCEPT ![d + 1] = x] = Overlaid(b, d, <<x>>)
<1>1. b \in [1 .. Len(b) -> Int] /\ DOMAIN b = 1 .. Len(b) /\ Len(b) \in Nat
  BY LenProperties
<1>2. ASSUME NEW i \in DOMAIN b PROVE [b EXCEPT ![d + 1] = x][i] = Overlaid(b, d, <<x>>)[i]
  <2>1. i \in Int
    BY <1>1
  <2>2. DOMAIN <<x>> = 1 .. 1 /\ <<x>>[1] = x
    OBVIOUS
  <2>3. CASE i = d + 1
    <3>1. i - d = 1 /\ i - d \in DOMAIN <<x>>
      BY <2>1, <2>2, <2>3
    <3> QED
      BY <1>1, <2>2, <2>3, <3>1 DEF Overlaid
  <2>4. CASE i # d + 1
    <3>1. i - d \notin DOMAIN <<x>>
      BY <2>1, <2>2, <2>4
    <3> QED
      BY <1>1, <2>4, <3>1 DEF Overlaid
  <2> QED
    BY <2>3, <2>4
<1>3. DOMAIN [b EXCEPT ![d + 1] = x] = DOMAIN b /\ DOMAIN Overlaid(b, d, <<x>>) = DOMAIN b
  BY DEF Overlaid
<1> DEFINE f == [b EXCEPT ![d + 1] = x]
           g == Overlaid(b, d, <<x>>)
<1>4. f = [i \in DOMAIN b |-> f[i]] /\ g = [i \in DOMAIN b |-> g[i]]
  <2>1. f = [i \in DOMAIN f |-> f[i]]
    OBVIOUS
  <2>2. g = [i \in DOMAIN g |-> g[i]]
    BY DEF Overlaid
  <2> HIDE DEF f, g
  <2>3. DOMAIN f = DOMAIN b /\ DOMAIN g = DOMAIN b
    BY <1>3 DEF f, g
  <2> QED
    BY <2>1, <2>2, <2>3
<1>5. \A i \in DOMAIN b : f[i] = g[i]
  BY <1>2
<1> HIDE DEF f, g
<1>6. f = g
  BY <1>4, <1>5
<1> QED
  BY <1>6 DEF f, g

(* The length of the buffer's index for a byte that fits. *)
LEMMA IndexFits ==
  ASSUME HistoryInv, NEW b, NEW t, NEW n, Onward(b, t, n), n # 0
  PROVE  /\ Index(b, position) = position % Len(b) /\ position % Len(b) \in Nat
         /\ (position % Len(b)) + 1 <= Len(b) /\ Len(b) \in Nat \ {0}
         /\ Linear => position % Len(b) = position
         /\ position + n <= Len(b) => position % Len(b) = position
<1>1. b \in Seq(Int) /\ Len(b) \in Nat \ {0} /\ position \in Nat /\ n \in Nat \ {0}
      /\ (Linear => position + n <= Len(b))
  BY OnwardTypes, HistoryTypes
<1>2. position % Len(b) \in 0 .. Len(b) - 1
  <2>1. position \in Int
    BY <1>1
  <2> QED
    BY <1>1, <2>1, Divides
<1>3. Index(b, position) = position % Len(b)
  <2>1. position \in Int /\ b # <<>>
    BY <1>1
  <2> QED
    BY <2>1 DEF Index
<1>4. ASSUME position + n <= Len(b) PROVE position % Len(b) = position
  <2>1. position \in 0 .. Len(b) - 1
    BY <1>1, <1>4
  <2> QED
    BY <1>1, <2>1, ModSmall
<1> HIDE DEF Index
<1> DEFINE r == position % Len(b)
<1>5. r \in Nat /\ r + 1 <= Len(b)
  <2>1. r \in 0 .. Len(b) - 1
    BY <1>2
  <2> HIDE DEF r
  <2> QED
    BY <1>1, <2>1
<1> QED
  BY <1>1, <1>3, <1>4, <1>5

-----------------------------------------------------------------------------
(* The history after every action that decodes. *)

(* A byte that enters the history and the caller's slice (emit). *)
LEMMA EmitMakes ==
  ASSUME HistoryInv, PowerOfTwo(window), flushed = position, NEW t, NEW x \in Int, Extends(text, t),
         position + 1 <= Len(t), t[position + 1] = x, remaining > 0, Space > 0,
         text' = t, Emit(x), stage \notin Settled, stage' \notin Settled
  PROVE  HistoryInv' /\ position' = position + 1 /\ flushed' = position + 1
<1> DEFINE b == IF Linear THEN slice ELSE GrowRing(ring, window, position + 1)
           r == position % Len(b)
           c == Overlaid(b, r, <<x>>)
           g == [bytes |-> c, pos |-> position + 1, flushed |-> flushed, out |-> out]
           f == [bytes |-> c, pos |-> position + 1, flushed |-> position + 1,
                 out |-> IF Delivers THEN out \o <<x>> ELSE out]
<1>1. 1 \in 1 .. Lesser(remaining, Space) /\ 1 \in 0 .. Lesser(remaining, Space) /\ position \in Nat
      /\ out \in Seq(Int)
  <2>1. remaining \in Nat /\ position \in Nat /\ out \in Seq(Int)
    BY HistoryTypes
  <2>2. Space \in Nat
    BY Measures
  <2>3. Lesser(remaining, Space) \in Nat \ {0}
    BY <2>1, <2>2 DEF Lesser
  <2> QED
    BY <2>1, <2>3
<1>2. Ready(b, 1)
  <2>1. CASE Linear
    <3>1. b = slice
      BY <2>1
    <3> QED
      BY <1>1, <2>1, <3>1, SliceReady
  <2>2. CASE ~Linear
    <3>1. b = GrowRing(ring, window, position + 1)
      BY <2>2
    <3> QED
      BY <1>1, <2>2, <3>1, GrownReady
  <2> QED
    BY <2>1, <2>2
<1> HIDE DEF b
<1>3. Onward(b, t, 1)
  BY <1>1, <1>2, ReadyOnward
<1>4. /\ Index(b, position) = r /\ r \in Nat /\ r + 1 <= Len(b) /\ Len(b) \in Nat \ {0}
      /\ Linear => r = position
  BY <1>3, IndexFits
<1>5. b \in Seq(Int) /\ t \in Seq(Int)
  BY <1>3, OnwardTypes
<1>6. <<x>> \in Seq(Int) /\ Len(<<x>>) = 1 /\ \A k \in 1 .. 1 : <<x>>[k] = t[position + k]
  <2>1. \A k \in 1 .. 1 : <<x>>[k] = x /\ k = 1
    OBVIOUS
  <2> QED
    BY <2>1
<1>7. Overlaying(b, c, t, <<x>>, 1)
  <2>1. 1 # 0
    OBVIOUS
  <2> HIDE DEF r
  <2>2. c = Overlaid(b, r, <<x>>)
    OBVIOUS
  <2> HIDE DEF c
  <2> QED
    BY <1>3, <1>4, <1>6, <2>1, <2>2 DEF Overlaying, r
<1> HIDE DEF c, r
<1>8. Placed(c) /\ Good(g, t, window, Whole, Delivers, out)
  BY <1>7, OverlayMakes
<1>9. Pouring(g, f, t, <<x>>, 1)
  <2>1. g.bytes = c /\ g.pos = position + 1
    OBVIOUS
  <2>2. f = [bytes |-> g.bytes, pos |-> g.pos, flushed |-> g.pos, out |-> IF Delivers THEN out \o <<x>> ELSE out]
    BY <2>1
  <2> HIDE DEF g, f
  <2> QED
    BY <1>1, <1>6, <1>8, <2>1, <2>2 DEF Pouring
<1> HIDE DEF g
<1>10. Made(f, t, 1) /\ f.flushed = position + 1
  <2> HIDE DEF f
  <2> QED
    BY <1>8, <1>9, PourMakes
<1>11. Store(f)
  <2>1. (IF Linear THEN flushed ELSE Index(b, position)) = r
    BY <1>4
  <2>2. [b EXCEPT ![r + 1] = x] = c
    BY <1>4, <1>5, OneByte DEF c
  <2>3. Append(out, x) = out \o <<x>> /\ flushed + 1 = position + 1
    BY <1>1
  <2>4. Store([bytes |-> [b EXCEPT ![(IF Linear THEN flushed ELSE Index(b, position)) + 1] = x],
               pos |-> position + 1, flushed |-> flushed + 1,
               out |-> IF Delivers THEN Append(out, x) ELSE out])
    BY DEF Emit, b
  <2> QED
    BY <2>1, <2>2, <2>3, <2>4
<1> HIDE DEF f
<1>12. remaining' = remaining - 1 /\ cap' = cap - 1 /\ allow' = allow - 1 /\ delivery' = delivery
       /\ window' = window
  BY DEF Emit, Spend, memberVars
<1> QED
  BY <1>10, <1>11, <1>12, Produces

(* The n bytes s are what the text t goes on with. *)
Runs(t, s, n) ==
  /\ Extends(text, t) /\ position + n <= Len(t) /\ n \in 1 .. Lesser(remaining, Space)
  /\ s \in Seq(Int) /\ Len(s) = n /\ \A k \in 1 .. n : s[k] = t[position + k]

(* A run of bytes in a caller's slice. *)
SliceTaken(s, n) == [History(Overlaid(slice, flushed, s)) EXCEPT !.pos = @ + n]

LEMMA SliceRun ==
  ASSUME HistoryInv, Linear, NEW t, NEW s, NEW n, NEW g, Runs(t, s, n), flushed = position,
         g = SliceTaken(s, n)
  PROVE  /\ g.bytes = Overlaid(slice, flushed, s) /\ g.pos = position + n /\ g.out = out /\ g \in Histories
         /\ Good(g, t, window, Whole, Delivers, out) /\ Placed(g.bytes)
<1> DEFINE c == Overlaid(slice, flushed, s)
<1> USE DEF Runs
<1>1. n \in 0 .. Lesser(remaining, Space) /\ n # 0
  BY Measures
<1>2. Onward(slice, t, n)
  <2>1. Ready(slice, n)
    BY <1>1, SliceReady
  <2> QED
    BY <1>1, <2>1, ReadyOnward
<1>3. position % Len(slice) = position /\ position + n <= Len(slice)
  BY <1>1, <1>2, IndexFits, OnwardTypes
<1>4. Overlaying(slice, c, t, s, n)
  <2>1. c = Overlaid(slice, position % Len(slice), s) /\ (position % Len(slice)) + n <= Len(slice)
    BY <1>3
  <2> HIDE DEF c
  <2> QED
    BY <1>1, <1>2, <2>1 DEF Overlaying
<1>5. g = [bytes |-> c, pos |-> position + n, flushed |-> flushed, out |-> out]
  BY DEF History, SliceTaken
<1> HIDE DEF c
<1>6. Longer(History(slice), g, t, window, Whole, n, n) /\ Placed(c) /\ Good(g, t, window, Whole, Delivers, out)
  BY <1>4, <1>5, OverlayMakes
<1>7. g \in Histories
  BY <1>6 DEF Longer
<1> QED
  BY <1>5, <1>6, <1>7 DEF c

(* Growth that takes the bytes themselves for its initial value. *)
LEMMA RawGrows ==
  ASSUME HistoryInv, ~Linear, PowerOfTwo(window), NEW t, NEW s, NEW n, NEW g, Runs(t, s, n),
         position + n > Len(ring), position + n <= window,
         g = [bytes |-> Filled(SubSeq(ring, 1, position) \o s, RingSize(Len(ring), window, position + n), 0),
              pos |-> position + n, flushed |-> flushed, out |-> out]
  PROVE  Good(Flush(g, FALSE), t, window, Whole, FALSE, out) /\ Placed(g.bytes)
<1> DEFINE e == position + n
           R == RingSize(Len(ring), window, e)
           a == SubSeq(ring, 1, position)
           p == a \o s
           c == Filled(p, R, 0)
           h == History(ring)
<1> USE DEF Runs
<1>1. /\ position \in Nat /\ n \in Nat \ {0} /\ e \in Nat \ {0} /\ Len(ring) \in Nat /\ window \in Nat
      /\ ring \in Seq(Int) /\ n \in 0 .. Lesser(remaining, Space)
  <2>1. Lesser(remaining, Space) \in Nat
    BY Measures
  <2> QED
    BY <2>1, HistoryTypes, SMTT(30)
<1>2. Ready(ring, 0) /\ (Len(ring) = 0 \/ PowerOfTwo(Len(ring)))
  BY ViewReady DEF HistoryInv
<1>3. /\ Good(h, text, window, Whole, Delivers, out) /\ Lapped(h, Whole)
      /\ Roomy(h, position + 0, window, Whole)
  BY <1>2 DEF Ready, Made
<1>4. h.bytes = ring /\ h.pos = position /\ h.flushed = flushed /\ h.out = out
  BY HistoryFields
<1>5. position <= Len(ring)
  <2>1. position + 0 <= Len(ring) \/ window <= Len(ring)
    BY <1>3, <1>4 DEF Roomy
  <2> QED
    BY <1>1, <2>1
<1>6. R \in Nat /\ e <= R /\ PowerOfTwo(R)
  <2> HIDE DEF e
  <2>1. R \in Nat \ {0} /\ PowerOfTwo(R) /\ Lesser(window, e) <= R
    BY <1>1, <1>2, RingSizeIs
  <2>2. Lesser(window, e) = e
    BY <1>1 DEF e, Lesser
  <2> HIDE DEF R
  <2> QED
    BY <2>1, <2>2
<1>7. a \in Seq(Int) /\ Len(a) = position /\ \A i \in 1 .. position : a[i] = ring[i]
  <2>1. 1 \in Nat \ {0} /\ 1 <= position + 1 /\ position + 1 - 1 = position
    BY <1>1
  <2>2. a \in Seq(Int) /\ Len(a) = position + 1 - 1 /\ \A i \in 1 .. position + 1 - 1 : a[i] = ring[1 + i - 1]
    BY <1>1, <1>5, <2>1, PartOf, SMTT(30)
  <2> HIDE DEF a
  <2> QED
    BY <1>1, <2>1, <2>2, SMTT(30)
<1>8. p \in Seq(Int) /\ Len(p) = e /\ (\A i \in 1 .. position : p[i] = ring[i])
      /\ \A k \in 1 .. n : p[position + k] = t[position + k]
  <2> HIDE DEF a, e
  <2>1. p \in Seq(Int) /\ Len(p) = Len(a) + n
        /\ \A i \in 1 .. Len(a) + n : p[i] = IF i <= Len(a) THEN a[i] ELSE s[i - Len(a)]
    <3>1. a \in Seq(Int) /\ s \in Seq(Int) /\ Len(s) = n
      BY <1>7
    <3>2. a \o s \in Seq(Int) /\ Len(a \o s) = Len(a) + Len(s)
      BY <3>1, ConcatProperties
    <3>3. \A i \in 1 .. Len(a) + Len(s) : (a \o s)[i] = IF i <= Len(a) THEN a[i] ELSE s[i - Len(a)]
      BY <3>1, ConcatProperties
    <3> QED
      BY <3>1, <3>2, <3>3
  <2> HIDE DEF p
  <2>2. ASSUME NEW i \in 1 .. position PROVE p[i] = ring[i]
    <3>1. i \in 1 .. Len(a) + n /\ i <= Len(a)
      BY <1>1, <1>7
    <3>2. p[i] = a[i]
      BY <2>1, <3>1
    <3> QED
      BY <1>7, <3>2
  <2>3. ASSUME NEW k \in 1 .. n PROVE p[position + k] = t[position + k]
    <3>1. position + k \in 1 .. Len(a) + n /\ ~(position + k <= Len(a)) /\ (position + k) - Len(a) = k
      BY <1>1, <1>7
    <3>2. p[position + k] = s[(position + k) - Len(a)]
      BY <2>1, <3>1
    <3> QED
      BY <3>1, <3>2
  <2>4. Len(p) = e
    BY <1>7, <2>1 DEF e
  <2>5. p \in Seq(Int)
    BY <2>1
  <2> QED
    BY <2>2, <2>3, <2>4, <2>5
<1>9. Fill(p, c, R, 0)
  <2> HIDE DEF p, R, e
  <2> QED
    BY <1>1, <1>6, <1>8, Fills, SMTT(30)
<1>10. Prefilled(h, c, t, Whole, n)
  <2> HIDE DEF c, p, R, h
  <2>1. c \in Seq(Int) /\ Len(c) = R /\ (\A i \in 1 .. e : c[i] = p[i])
    BY <1>8, <1>9 DEF Fill
  <2>2. ASSUME NEW i \in 1 .. position PROVE c[i] = ring[i]
    <3>1. i \in 1 .. e
      BY <1>1
    <3> QED
      BY <1>8, <2>1, <3>1
  <2>3. ASSUME NEW k \in 1 .. n PROVE c[position + k] = t[position + k]
    <3>1. position + k \in 1 .. e
      BY <1>1
    <3> QED
      BY <1>8, <2>1, <3>1
  <2>4. Len(ring) <= Len(c) /\ position + n <= Len(c)
    BY <1>1, <1>6, <2>1
  <2> QED
    BY <1>1, <1>4, <1>5, <2>1, <2>2, <2>3, <2>4 DEF Prefilled
<1>11. Good(h, t, window, Whole, FALSE, out)
  <2>1. Good(h, text, window, Whole, FALSE, out)
    BY <1>3, <1>4, GoodQuiet
  <2> HIDE DEF h
  <2> QED
    BY <2>1, GoodLonger
<1>12. g = [bytes |-> c, pos |-> h.pos + n, flushed |-> h.flushed, out |-> h.out]
  BY <1>4
<1>13. Placed(c)
  <2>1. Len(c) = R
    BY <1>9 DEF Fill
  <2> QED
    BY <1>6, <2>1 DEF Placed
<1> HIDE DEF c, h
<1>14. Steps(h, g, t, window, Whole, FALSE, out, n)
  BY <1>3, <1>10, <1>11, <1>12, PrefilledSteps
<1>15. Good(Flush(g, FALSE), t, window, Whole, FALSE, out)
  BY <1>14 DEF Steps, Stepped
<1>16. g.bytes = c
  BY <1>12
<1> QED
  BY <1>13, <1>15, <1>16

LEMMA FlushRecord ==
  ASSUME NEW g \in Histories
  PROVE  Flush(g, FALSE).bytes = g.bytes /\ Flush(g, FALSE).pos = g.pos
  BY DEF Flush, Histories

LEMMA RecordDelivered ==
  ASSUME NEW h \in Histories, NEW u
  PROVE  [h EXCEPT !.flushed = h.pos, !.out = u]
           = [bytes |-> h.bytes, pos |-> h.pos, flushed |-> h.pos, out |-> u]
<1> DEFINE b == h.bytes
           P == h.pos
           F == h.flushed
           v == h.out
           g == [h EXCEPT !.flushed = P, !.out = u]
<1>1. h = [bytes |-> b, pos |-> P, flushed |-> F, out |-> v]
  BY HistoryRecord
<1>2. g = [h EXCEPT !.flushed = P, !.out = u]
  OBVIOUS
<1> HIDE DEF b, P, F, v, g
<1>3. g = [bytes |-> b, pos |-> P, flushed |-> P, out |-> u]
  BY <1>1, <1>2
<1> QED
  BY <1>3 DEF g, b, P

(* write_raw: some history holds the bytes; delivery takes the bytes themselves. *)
LEMMA RawWrites ==
  ASSUME HistoryInv, ~Linear, PowerOfTwo(window), NEW t, NEW s, NEW n, Runs(t, s, n)
  PROVE  \E g : /\ g.bytes = RawWritten(s).bytes /\ g.pos = RawWritten(s).pos
                /\ RawWritten(s) \in Histories /\ RawWritten(s).out = out
                /\ g.pos = position + n
                /\ Good(g, t, window, Whole, FALSE, out) /\ Placed(g.bytes)
<1> DEFINE e == position + Len(s)
           h == RawWritten(s)
           b == GrowRing(ring, window, e)
<1> USE DEF Runs
<1>1. e = position + n /\ n \in 0 .. Lesser(remaining, Space) /\ n # 0
  BY Measures
<1>2. CASE e > Len(ring) /\ e <= window
  <2> DEFINE c == Filled(SubSeq(ring, 1, position) \o s, RingSize(Len(ring), window, e), 0)
  <2>1. h = [bytes |-> c, pos |-> e, flushed |-> flushed, out |-> out]
    BY <1>2 DEF RawWritten, History
  <2>2. c = Filled(SubSeq(ring, 1, position) \o s, RingSize(Len(ring), window, position + n), 0)
    BY <1>1
  <2>3. position + n > Len(ring) /\ position + n <= window
    BY <1>1, <1>2
  <2> HIDE DEF h, c, e
  <2>4. h = [bytes |-> Filled(SubSeq(ring, 1, position) \o s, RingSize(Len(ring), window, position + n), 0),
             pos |-> position + n, flushed |-> flushed, out |-> out]
    BY <1>1, <2>1, <2>2
  <2>5. Good(Flush(h, FALSE), t, window, Whole, FALSE, out) /\ Placed(h.bytes)
    BY <2>3, <2>4, RawGrows
  <2>6. h.bytes = c /\ h.pos = position + n /\ h.flushed = flushed /\ h.out = out
    BY <1>1, <2>1
  <2>7. h \in Histories
    <3>1. Good(Flush(h, FALSE), t, window, Whole, FALSE, out)
      BY <2>5
    <3>2. position + n # flushed
      <4>1. flushed <= position /\ position \in Nat /\ flushed \in Nat /\ n \in Nat \ {0}
        BY <1>1, HistoryTypes, Measures
      <4> QED
        BY <4>1
    <3>3. Flush(h, FALSE).bytes = c
      BY <2>1 DEF Flush
    <3>4. c \in Seq(Int)
      BY <3>1, <3>3, GoodTypes
    <3>5. position + n \in Nat /\ flushed \in Nat /\ out \in Seq(Int)
      <4>1. n \in Nat /\ position \in Nat /\ flushed \in Nat /\ out \in Seq(Int)
        BY <1>1, HistoryTypes, Measures
      <4> QED
        BY <4>1
    <3> QED
      BY <1>1, <2>1, <3>4, <3>5 DEF Histories
  <2>8. Flush(h, FALSE).bytes = h.bytes /\ Flush(h, FALSE).pos = h.pos
    BY <2>7, FlushRecord
  <2>9. Placed(Flush(h, FALSE).bytes)
    BY <2>5, <2>8
  <2> QED
    BY <2>5, <2>6, <2>7, <2>8, <2>9 DEF h
<1>3. CASE ~(e > Len(ring) /\ e <= window)
  <2>1. h = WriteRing(History(b), s, FALSE)
    BY <1>3 DEF RawWritten
  <2>2. Ready(b, n)
    BY <1>1, GrownReady
  <2> HIDE DEF b, h, e
  <2>3. Onward(b, t, n)
    BY <1>1, <2>2, ReadyOnward
  <2>4. /\ Good(History(b), t, window, Whole, Delivers, out) /\ Lapped(History(b), Whole) /\ Placed(b)
        /\ Roomy(History(b), position + n, window, Whole)
    BY <2>3 DEF Onward
  <2>5. Good(History(b), t, window, Whole, FALSE, out)
    <3>1. History(b).out = out
      BY HistoryFields
    <3> QED
      BY <2>4, <3>1, GoodQuiet
  <2>6. Ahead(History(b), t, window, Whole, s, n)
    <3>1. n \in Nat /\ History(b).pos = position
      BY <2>3, OnwardTypes, HistoryFields
    <3> QED
      BY <2>4, <3>1 DEF Ahead
  <2>7. Stored(History(b), h, t, window, Whole, FALSE, out, n)
    BY <2>1, <2>4, <2>5, <2>6, WritesRing
  <2>8. Good(h, t, window, Whole, FALSE, out) /\ h.pos = position + n /\ Len(h.bytes) = Len(b)
    BY <2>7, HistoryFields DEF Stored
  <2>9. Placed(h.bytes)
    BY <2>4, <2>8 DEF Placed
  <2>10. h \in Histories /\ h.out = out
    BY <2>8, GoodTypes DEF Good, Delivered
  <2> QED
    BY <2>8, <2>9, <2>10 DEF h
<1> QED
  BY <1>2, <1>3

(* The raw bytes, stored and delivered. *)
RawTaken(h, s) == [h EXCEPT !.flushed = h.pos, !.out = IF Delivers THEN @ \o s ELSE @]

(* A run of raw bytes, which delivery takes from the input (write_raw). *)
LEMMA RawMakes ==
  ASSUME HistoryInv, PowerOfTwo(window), flushed = position, NEW t, NEW s, NEW n, NEW h, Runs(t, s, n),
         h = IF Linear THEN SliceTaken(s, n) ELSE RawWritten(s)
  PROVE  Made(RawTaken(h, s), t, n) /\ RawTaken(h, s).flushed = position + n
<1>1. n \in 0 .. Lesser(remaining, Space)
  BY Measures DEF Runs
<1>2. \E g, quiet : /\ h \in Histories /\ h.out = out /\ g.bytes = h.bytes /\ g.pos = h.pos
                    /\ g.pos = position + n /\ Good(g, t, window, Whole, quiet, out) /\ Placed(g.bytes)
  <2>1. CASE Linear
    <3>1. h = SliceTaken(s, n)
      BY <2>1
    <3>3. /\ h.pos = position + n /\ h.out = out /\ h \in Histories
          /\ Good(h, t, window, Whole, Delivers, out) /\ Placed(h.bytes)
      BY <2>1, <3>1, SliceRun
    <3> QED
      BY <3>3
  <2>2. CASE ~Linear
    <3>1. h = RawWritten(s)
      BY <2>2
    <3>2. PICK g : /\ g.bytes = RawWritten(s).bytes /\ g.pos = RawWritten(s).pos
                   /\ RawWritten(s) \in Histories /\ RawWritten(s).out = out
                   /\ g.pos = position + n
                   /\ Good(g, t, window, Whole, FALSE, out) /\ Placed(g.bytes)
      BY <2>2, RawWrites
    <3> QED
      BY <3>1, <3>2
  <2> QED
    BY <2>1, <2>2
<1>3. PICK g, quiet : /\ h \in Histories /\ h.out = out /\ g.bytes = h.bytes /\ g.pos = h.pos
                      /\ g.pos = position + n /\ Good(g, t, window, Whole, quiet, out) /\ Placed(g.bytes)
  BY <1>2
<1> DEFINE u == IF Delivers THEN out \o s ELSE out
           f == [h EXCEPT !.flushed = h.pos, !.out = IF Delivers THEN @ \o s ELSE @]
<1>4. f = [h EXCEPT !.flushed = h.pos, !.out = u]
  BY <1>3
<1>5. f = [bytes |-> g.bytes, pos |-> g.pos, flushed |-> g.pos, out |-> u]
  <2> HIDE DEF f, u
  <2>1. f = [bytes |-> h.bytes, pos |-> h.pos, flushed |-> h.pos, out |-> u]
    BY <1>3, <1>4, RecordDelivered
  <2> QED
    BY <1>3, <2>1
<1>6. Pouring(g, f, t, s, n)
  <2> HIDE DEF f
  <2> QED
    BY <1>1, <1>3, <1>5 DEF Pouring, Runs
<1>7. Made(f, t, n) /\ f.flushed = position + n
  <2> HIDE DEF f, u
  <2> QED
    BY <1>3, <1>6, PourMakes
<1>8. RawTaken(h, s) = f
  BY DEF RawTaken
<1> QED
  BY <1>7, <1>8

(* Copies. *)

(* The next n bytes of t repeat those d before the position. *)
Copyable(t, d, n) ==
  /\ d \in Nat \ {0} /\ d <= Available /\ n \in 1 .. Lesser(remaining, Space)
  /\ Extends(text, t) /\ position + n <= Len(t) /\ Recurs(t, position, d, n)

LEMMA CopyableNumbers ==
  ASSUME HistoryInv, NEW t, NEW d, NEW n, Copyable(t, d, n)
  PROVE  /\ n \in Nat \ {0} /\ n \in 0 .. Lesser(remaining, Space)
         /\ d <= position /\ d <= window - Chunk
         /\ position \in Nat /\ position + n \in Nat
<1>1. /\ d \in Nat \ {0} /\ d <= Available /\ n \in 1 .. Lesser(remaining, Space)
  BY DEF Copyable
<1>2. /\ Lesser(remaining, Space) \in Nat /\ Available \in Nat /\ Available <= position
      /\ Available <= MaxBackward /\ MaxBackward = window - Chunk /\ MaxBackward \in Nat
  BY Measures
<1>3. position \in Nat
  BY HistoryTypes
<1> QED
  BY <1>1, <1>2, <1>3

LEMMA CopyingOnward ==
  ASSUME HistoryInv, NEW b, NEW t, NEW d, NEW n, Onward(b, t, n), Copyable(t, d, n)
  PROVE  Copying(History(b), t, window, Whole, d, n)
<1>1. d <= position /\ d <= window - Chunk /\ n \in Nat
  BY CopyableNumbers
<1>2. History(b).pos = position
  BY HistoryFields
<1> QED
  BY <1>1, <1>2 DEF Onward, Copyable, Copying

(* A buffer as long as the one a copy starts from. *)
LEMMA SamePlace ==
  ASSUME HistoryInv, NEW b, NEW c, Placed(b), Linear => b = View, Len(c) = Len(b)
  PROVE  Placed(c)
<1>1. CASE ~Linear
  BY <1>1 DEF Placed
<1>2. CASE Linear
  <2>1. Len(b) = position + Lesser(remaining, Space) /\ Len(b) <= Len(slice)
    BY <1>2, ViewReady DEF Placed
  <2>2. /\ Lesser(remaining, Space) \in Nat /\ Lesser(remaining, Space) <= remaining
        /\ position \in Nat /\ remaining \in Nat
    BY Measures, HistoryTypes
  <2>3. \A i \in position + remaining + 1 .. Len(c) : FALSE
    BY <2>1, <2>2
  <2> QED
    BY <1>2, <2>1, <2>3 DEF Placed
<1> QED
  BY <1>1, <1>2

LEMMA RepeatMakes ==
  ASSUME HistoryInv, PowerOfTwo(window), NEW t, NEW d, NEW n, NEW g, Copyable(t, d, n),
         Repeating(d, position + n), g = RepeatGrown(position + n)
  PROVE  /\ Made(Flush(g, Delivers), t, n) /\ Flush(g, Delivers).flushed = position + n
         /\ position + n # Len(g.bytes) => Made(g, t, n)
<1> DEFINE e == position + n
           h == History(ring)
<1>1. ~Linear /\ d = 1 /\ e > Len(ring) /\ e <= window
  BY DEF Repeating
<1>2. n \in Nat \ {0} /\ n \in 0 .. Lesser(remaining, Space) /\ position \in Nat /\ d <= position
  BY CopyableNumbers
<1>3. Ready(ring, 0) /\ (Len(ring) = 0 \/ PowerOfTwo(Len(ring)))
  BY <1>1, ViewReady DEF HistoryInv
<1>4. Good(h, text, window, Whole, Delivers, out) /\ Lapped(h, Whole)
  BY <1>3 DEF Ready, Made
<1>5. h.bytes = ring /\ h.pos = position /\ h.flushed = flushed /\ h.out = out
  BY HistoryFields
<1>6. g = [bytes |-> RepeatGrow(h.bytes, window, h.pos, h.bytes[h.pos], h.pos + n), pos |-> h.pos + n,
           flushed |-> h.flushed, out |-> h.out]
  BY DEF RepeatGrown, History
<1>7. Outgrowing(h, t, window, n)
  <2> HIDE DEF h
  <2> QED
    BY <1>1, <1>2, <1>5 DEF Outgrowing, Copyable
<1>8. Good(h, t, window, Whole, Delivers, out)
  <2> HIDE DEF h
  <2> QED
    BY <1>4, GoodLonger DEF Copyable
<1>9. Len(h.bytes) = 0 \/ PowerOfTwo(Len(h.bytes))
  BY <1>3, <1>5
<1>10. g.pos = e
  BY <1>5, <1>6
<1> HIDE DEF h, e
<1>11. Steps(h, g, t, window, Whole, Delivers, out, n) /\ PowerOfTwo(Len(g.bytes))
  BY <1>4, <1>6, <1>7, <1>8, <1>9, RepeatGrowSteps
<1>12. /\ Good(Flush(g, Delivers), t, window, Whole, Delivers, out) /\ Lapped(Flush(g, Delivers), Whole)
       /\ Flush(g, Delivers).pos = position + n
       /\ g.pos # Len(g.bytes) => Good(g, t, window, Whole, Delivers, out) /\ Lapped(g, Whole)
  BY <1>5, <1>11 DEF Steps, Stepped
<1>13. Flush(g, Delivers).bytes = g.bytes /\ Flush(g, Delivers).flushed = g.pos
  <2> DEFINE b == g.bytes
             u == g.out
             f == Flush(g, Delivers)
  <2>1. g = [bytes |-> b, pos |-> e, flushed |-> flushed, out |-> u]
    BY <1>5, <1>6, <1>10
  <2>2. flushed # e
    <3>1. flushed \in Nat /\ flushed <= position
      BY HistoryTypes
    <3> QED
      BY <1>2, <3>1 DEF e
  <2>3. e - flushed # 0
    <3>1. flushed \in Nat /\ e \in Nat
      BY <1>2, HistoryTypes DEF e
    <3> QED
      BY <2>2, <3>1
  <2>4. f = [g EXCEPT !.flushed = g.pos,
                      !.out = IF Delivers THEN @ \o SubSeq(g.bytes, Index(g.bytes, g.flushed) + 1,
                                                           Index(g.bytes, g.flushed) + (g.pos - g.flushed)) ELSE @]
    <3>1. g.pos - g.flushed # 0
      BY <2>1, <2>3
    <3> QED
      BY <3>1 DEF Flush
  <2>5. f.bytes = g.bytes /\ f.flushed = g.pos
    <3> HIDE DEF f, b, u
    <3> QED
      BY <2>1, <2>4
  <2> QED
    BY <2>5
<1>14. Placed(g.bytes)
  BY <1>1, <1>11 DEF Placed
<1> QED
  BY <1>2, <1>10, <1>12, <1>13, <1>14 DEF Made, e

(* Stage::Copy, before its delivery. *)
CopiedBy(d, n) ==
  IF Repeating(d, position + n) THEN RepeatGrown(position + n)
  ELSE CopyRing(History(IF Linear THEN View ELSE GrowRing(ring, window, position + n)), d, n, Delivers)

LEMMA CopyMakes ==
  ASSUME HistoryInv, PowerOfTwo(window), NEW t, NEW d, NEW n, Copyable(t, d, n)
  PROVE  /\ Made(Flush(CopiedBy(d, n), Delivers), t, n)
         /\ Flush(CopiedBy(d, n), Delivers).flushed = position + n
<1>1. n \in Nat \ {0} /\ n \in 0 .. Lesser(remaining, Space) /\ position \in Nat /\ n \in 1 .. Lesser(remaining, Space)
      /\ Extends(text, t) /\ position + n <= Len(t)
  BY CopyableNumbers DEF Copyable
<1>2. CASE Repeating(d, position + n)
  BY <1>2, RepeatMakes DEF CopiedBy
<1>3. CASE ~Repeating(d, position + n)
  <2> DEFINE b == IF Linear THEN View ELSE GrowRing(ring, window, position + n)
             h == CopyRing(History(b), d, n, Delivers)
  <2>1. Ready(b, n)
    <3>1. CASE Linear
      <4>1. Ready(View, Lesser(remaining, Space)) /\ b = View
        BY <3>1, ViewReady
      <4>2. Ready(Reached(position + n), n) /\ Reached(position + n) = View
        <5>1. position + n \in Nat /\ position + n <= position + n
          BY <1>1
        <5> QED
          BY <1>1, <3>1, <5>1, ReachedReady
      <4> QED
        BY <4>1, <4>2
    <3>2. CASE ~Linear
      <4>1. b = GrowRing(ring, window, position + n)
        BY <3>2
      <4> QED
        BY <1>1, <3>2, <4>1, GrownReady
    <3> QED
      BY <3>1, <3>2
  <2>2. CopiedBy(d, n) = h
    BY <1>3 DEF CopiedBy
  <2>3. Linear => b = View
    OBVIOUS
  <2> HIDE DEF b
  <2>4. Onward(b, t, n)
    BY <1>1, <2>1, ReadyOnward
  <2>5. Copying(History(b), t, window, Whole, d, n)
    BY <2>4, CopyingOnward
  <2>6. Stored(History(b), h, t, window, Whole, Delivers, out, n)
    <3>1. Good(History(b), t, window, Whole, Delivers, out) /\ Lapped(History(b), Whole)
      BY <2>4 DEF Onward
    <3> QED
      BY <2>5, <3>1, CopiesRing
  <2> HIDE DEF h
  <2>7. Good(h, t, window, Whole, Delivers, out) /\ h.pos = position + n /\ Len(h.bytes) = Len(b)
    BY <2>6, HistoryFields DEF Stored
  <2>8. Placed(h.bytes)
    <3>1. Placed(b)
      BY <2>4 DEF Onward
    <3> QED
      BY <2>3, <2>7, <3>1, SamePlace
  <2>9. Made(Flush(h, Delivers), t, n) /\ Flush(h, Delivers).flushed = position + n
    BY <1>1, <2>7, <2>8, FlushMakes
  <2> QED
    BY <2>2, <2>9
<1> QED
  BY <1>2, <1>3

(* The copy of the command loop. *)
FastCopied(d, n) ==
  LET end   == position + n
      grown == RepeatGrown(end)
  IN  IF Repeating(d, end)
      THEN IF end = Len(grown.bytes) THEN Flush(grown, Delivers) ELSE grown
      ELSE CopyFast(History(Reached(end)), d, n, Linear, Delivers)

LEMMA FastCopyMakes ==
  ASSUME HistoryInv, PowerOfTwo(window), NEW t, NEW d, NEW n, Copyable(t, d, n)
  PROVE  Made(FastCopied(d, n), t, n)
<1>1. n \in Nat \ {0} /\ n \in 0 .. Lesser(remaining, Space) /\ position \in Nat /\ n \in 1 .. Lesser(remaining, Space)
      /\ Extends(text, t) /\ position + n <= Len(t) /\ n # 0
  BY CopyableNumbers DEF Copyable
<1>2. CASE Repeating(d, position + n)
  <2> DEFINE g == RepeatGrown(position + n)
  <2>1. FastCopied(d, n) = IF position + n = Len(g.bytes) THEN Flush(g, Delivers) ELSE g
    BY <1>2 DEF FastCopied
  <2>2. Made(Flush(g, Delivers), t, n) /\ (position + n # Len(g.bytes) => Made(g, t, n))
    BY <1>2, RepeatMakes
  <2> HIDE DEF g
  <2> QED
    BY <2>1, <2>2
<1>3. CASE ~Repeating(d, position + n)
  <2> DEFINE b == Reached(position + n)
             h == CopyFast(History(b), d, n, Linear, Delivers)
  <2>1. FastCopied(d, n) = h
    BY <1>3 DEF FastCopied
  <2>2. Ready(b, n) /\ (Linear => b = View)
    <3>1. position + n \in Nat /\ position + n <= position + n
      BY <1>1
    <3> QED
      BY <1>1, <3>1, ReachedReady
  <2> HIDE DEF b
  <2>3. Onward(b, t, n)
    BY <1>1, <2>2, ReadyOnward
  <2>4. Copying(History(b), t, window, Whole, d, n)
    BY <2>3, CopyingOnward
  <2>5. Stored(History(b), h, t, window, Whole, Delivers, out, n)
    <3>1. Good(History(b), t, window, Whole, Delivers, out) /\ Lapped(History(b), Whole) /\ (Linear => Whole)
      BY <2>3, HistoryTypes DEF Onward
    <3> QED
      BY <1>1, <2>4, <3>1, CopiesFast
  <2> HIDE DEF h
  <2>6. /\ Good(h, t, window, Whole, Delivers, out) /\ h.pos = position + n /\ Len(h.bytes) = Len(b)
        /\ Lapped(h, Whole)
    BY <2>5, HistoryFields DEF Stored
  <2>7. Placed(h.bytes)
    <3>1. Placed(b)
      BY <2>3 DEF Onward
    <3> QED
      BY <2>2, <2>6, <3>1, SamePlace
  <2> QED
    BY <1>1, <2>1, <2>6, <2>7 DEF Made
<1> QED
  BY <1>2, <1>3

(* Writes in the ring, or in the caller's slice. *)
LEMMA RingWritten ==
  ASSUME HistoryInv, NEW b, NEW t, NEW s, NEW n, Onward(b, t, n), Linear => b = View,
         s \in Seq(Int), Len(s) = n, \A k \in 1 .. n : s[k] = t[position + k]
  PROVE  Made(WriteRing(History(b), s, Delivers), t, n)
<1> DEFINE h == WriteRing(History(b), s, Delivers)
<1>1. /\ Good(History(b), t, window, Whole, Delivers, out) /\ Lapped(History(b), Whole) /\ Placed(b)
      /\ Roomy(History(b), position + n, window, Whole) /\ position + n <= Len(t)
      /\ n \in 0 .. Lesser(remaining, Space) /\ n \in Nat /\ History(b).pos = position
  BY OnwardTypes, HistoryFields DEF Onward
<1>2. Ahead(History(b), t, window, Whole, s, n)
  BY <1>1 DEF Ahead
<1>3. Stored(History(b), h, t, window, Whole, Delivers, out, n)
  BY <1>1, <1>2, WritesRing
<1> HIDE DEF h
<1>4. /\ Good(h, t, window, Whole, Delivers, out) /\ Lapped(h, Whole) /\ h.pos = position + n
      /\ Len(h.bytes) = Len(b)
  BY <1>3, HistoryFields DEF Stored
<1>5. Placed(h.bytes)
  BY <1>1, <1>4, SamePlace
<1>6. Made(h, t, n)
  BY <1>1, <1>4, <1>5 DEF Made
<1> QED
  BY <1>6 DEF h

(* A run of the prefix, before its delivery. *)
PrefixTaken(s, n) ==
  IF Linear THEN SliceTaken(s, n)
  ELSE WriteRing(History(GrowRing(ring, window, position + n)), s, Delivers)

LEMMA PrefixMakes ==
  ASSUME HistoryInv, PowerOfTwo(window), flushed = position, NEW t, NEW s, NEW n, Runs(t, s, n)
  PROVE  /\ Made(Flush(PrefixTaken(s, n), Delivers), t, n)
         /\ Flush(PrefixTaken(s, n), Delivers).flushed = position + n
<1> DEFINE h == PrefixTaken(s, n)
<1>1. /\ n \in 0 .. Lesser(remaining, Space) /\ Extends(text, t) /\ position + n <= Len(t)
      /\ n \in 1 .. Lesser(remaining, Space) /\ s \in Seq(Int) /\ Len(s) = n
      /\ \A k \in 1 .. n : s[k] = t[position + k]
  BY Measures DEF Runs
<1>2. Good(h, t, window, Whole, Delivers, out) /\ Placed(h.bytes) /\ h.pos = position + n
  <2>1. CASE Linear
    <3>1. h = SliceTaken(s, n)
      BY <2>1 DEF PrefixTaken
    <3> HIDE DEF h
    <3> QED
      BY <2>1, <3>1, SliceRun
  <2>2. CASE ~Linear
    <3> DEFINE b == GrowRing(ring, window, position + n)
    <3>1. h = WriteRing(History(b), s, Delivers)
      BY <2>2 DEF PrefixTaken
    <3>2. Ready(b, n)
      BY <1>1, <2>2, GrownReady
    <3> HIDE DEF b, h
    <3>3. Onward(b, t, n)
      BY <1>1, <3>2, ReadyOnward
    <3>4. Made(h, t, n)
      BY <1>1, <2>2, <3>1, <3>3, RingWritten
    <3> QED
      BY <3>4 DEF Made
  <2> QED
    BY <2>1, <2>2
<1> HIDE DEF h
<1>3. Made(Flush(h, Delivers), t, n) /\ Flush(h, Delivers).flushed = position + n
  BY <1>1, <1>2, FlushMakes
<1> QED
  BY <1>3 DEF h

(* A run of literals of the fast loop, in a buffer b that it does not wrap. *)
LiteralsTaken(b, s, n) ==
  LET w == [History(Overlaid(b, Index(b, position), s)) EXCEPT !.pos = @ + n]
  IN  IF ~Linear /\ Index(b, position) + n = Len(b) THEN Flush(w, Delivers) ELSE w

LEMMA LiteralsMake ==
  ASSUME HistoryInv, NEW b, NEW t, NEW s, NEW n, Onward(b, t, n), Linear => b = View,
         Index(b, position) + n <= Len(b),
         s \in Seq(Int), Len(s) = n, \A k \in 1 .. n : s[k] = t[position + k]
  PROVE  Made(LiteralsTaken(b, s, n), t, n)
<1> DEFINE x == Index(b, position)
           c == Overlaid(b, x, s)
           w == [History(c) EXCEPT !.pos = @ + n]
           h == LiteralsTaken(b, s, n)
<1>1. /\ Good(History(b), t, window, Whole, Delivers, out) /\ Lapped(History(b), Whole) /\ Placed(b)
      /\ Roomy(History(b), position + n, window, Whole) /\ position + n <= Len(t)
      /\ n \in 0 .. Lesser(remaining, Space) /\ n \in Nat /\ History(b).pos = position
      /\ b \in Seq(Int)
  BY OnwardTypes, HistoryFields DEF Onward
<1>2. h = IF ~Linear /\ x + n = Len(b) THEN Flush(w, Delivers) ELSE w
  BY DEF LiteralsTaken
<1>3. w = [bytes |-> c, pos |-> position + n, flushed |-> flushed, out |-> out]
  BY DEF History
<1>4. /\ Good(w, t, window, Whole, Delivers, out) /\ Placed(c)
      /\ ~(~Linear /\ x + n = Len(b)) => Lapped(w, Whole)
  <2>1. CASE n = 0
    <3>1. s = <<>>
      BY <2>1
    <3>2. c = b
      <4>1. \A i \in DOMAIN b : i - x \notin DOMAIN s
        BY <3>1
      <4>2. c = [i \in DOMAIN b |-> b[i]]
        <5> HIDE DEF x
        <5> QED
          BY <4>1 DEF Overlaid
      <4>3. b = [i \in DOMAIN b |-> b[i]]
        <5>1. b \in [1 .. Len(b) -> Int]
          BY <1>1, LenProperties
        <5> QED
          BY <5>1
      <4> QED
        BY <4>2, <4>3
    <3>3. position + n = position
      BY <2>1, HistoryTypes
    <3> HIDE DEF w, c, x
    <3>4. w = History(b)
      BY <1>3, <3>2, <3>3, HistoryFields
    <3> QED
      BY <1>1, <3>2, <3>4
  <2>2. CASE n # 0
    <3>1. x = position % Len(b) /\ (Linear => x = position)
      BY <2>2, IndexFits
    <3>2. Overlaying(b, c, t, s, n)
      <4>1. c = Overlaid(b, position % Len(b), s) /\ (position % Len(b)) + n <= Len(b)
        BY <3>1
      <4> HIDE DEF c, x
      <4> QED
        BY <2>2, <4>1 DEF Overlaying
    <3> HIDE DEF c, w
    <3>3. Longer(History(b), w, t, window, Whole, n, n) /\ Placed(c) /\ Good(w, t, window, Whole, Delivers, out)
      BY <1>3, <3>2, OverlayMakes
    <3>4. (position % Len(b)) + n # Len(b) => Lapped(w, Whole)
      <4>1. (History(b).pos % Len(History(b).bytes)) + n # Len(History(b).bytes)
               => Stored(History(b), w, t, window, Whole, Delivers, out, n)
        BY <1>1, <3>3, WritesOn
      <4>2. History(b).bytes = b
        BY HistoryFields
      <4> QED
        BY <1>1, <4>1, <4>2 DEF Stored
    <3>5. Linear => Lapped(w, Whole)
      BY HistoryTypes DEF Lapped
    <3> QED
      BY <3>1, <3>3, <3>4, <3>5
  <2> QED
    BY <2>1, <2>2
<1>5. w.bytes = c /\ w.pos = position + n
  BY <1>3
<1> HIDE DEF w, c, x, h
<1>6. Made(Flush(w, Delivers), t, n)
  BY <1>1, <1>4, <1>5, FlushMakes
<1>7. ~(~Linear /\ x + n = Len(b)) => Made(w, t, n)
  BY <1>1, <1>4, <1>5 DEF Made
<1>8. Made(h, t, n)
  BY <1>2, <1>6, <1>7
<1> QED
  BY <1>8 DEF h

(* Delivery of a history that may be stored. *)
LEMMA MadeFlushes ==
  ASSUME NEW h, NEW t, NEW n, Made(h, t, n)
  PROVE  Made(Flush(h, Delivers), t, n) /\ Flush(h, Delivers).flushed = position + n
  BY FlushMakes DEF Made

LEMMA PauseMakes ==
  ASSUME HistoryInv
  PROVE  /\ Made(Flush(History(View), Delivers), text, 0)
         /\ Flush(History(View), Delivers).flushed = position + 0
  BY ViewReady, MadeFlushes DEF Ready

-----------------------------------------------------------------------------
(* What a copy adds to the text. *)

(* The j-th byte of a copy out of the prefix p from s on and of the history *)
(* h saved for it.                                                           *)
CycledAt(s, p, h, j) == IF s + j < p THEN PrefixByte(s + j) ELSE h[(s + j - p) + 1]

(* From P on the next n bytes of t are the copy's from its j-th on, again    *)
(* and again, and what was saved is enough for them.                         *)
Cyclic(t, P, d, n, s, p, h, j) ==
  /\ j <= d /\ Len(h) <= d - (p - s)
  /\ \A k \in 0 .. n - 1 : t[P + (k + 1)] = CycledAt(s, p, h, (j + k) % d)
  /\ Len(h) = d - (p - s) \/ j + n <= (p - s) + Len(h)

(* A copy out of the prefix p from o on that goes on in the history. *)
LeadsFrom(t, P, d, n, p, o) ==
  /\ d = P + (p - o)
  /\ \A k \in 1 .. n :
       t[P + k] = IF o + k <= p THEN PrefixByte(o + k - 1) ELSE t[(P + k) - d]

(* The j-th byte of prefix and addressable history from o on. *)
Sourced(o, j) ==
  IF o + j < prefix THEN PrefixByte(o + j) ELSE text[(position - Available) + ((o + j - prefix) + 1)]

CopiedAs(d, n, o) ==
  /\ Copied(d, n) \in Seq(Int) /\ Len(Copied(d, n)) = n
  /\ \A k \in 1 .. n : Copied(d, n)[k] = Sourced(o, (k - 1) % d)

LEMMA CopiedIs ==
  ASSUME HistoryInv, prefix \in Nat, NEW d \in Nat \ {0}, d <= Available + prefix, NEW n \in Nat, NEW o,
         o = prefix - (d - Available)
  PROVE  CopiedAs(d, n, o) /\ o \in Nat
<1> DEFINE p == [i \in 1 .. prefix |-> PrefixByte(i - 1)]
           h == SubSeq(text, position - Available + 1, position)
           s == p \o h
           c == [k \in 1 .. n |-> s[Len(s) - d + 1 + ((k - 1) % d)]]
           A == position - Available
<1>1. /\ position \in Nat /\ text \in Seq(Int) /\ position <= Len(text) /\ Available \in Nat
      /\ Available <= position /\ A \in Nat /\ o \in Nat /\ o + d = prefix + Available
  <2>1. position \in Nat /\ text \in Seq(Int) /\ position <= Len(text)
    BY HistoryTypes
  <2>2. Available \in Nat /\ Available <= position
    BY Measures
  <2>3. A \in Nat
    BY <2>1, <2>2
  <2>4. o \in Nat /\ o + d = prefix + Available
    BY <2>2
  <2> QED
    BY <2>1, <2>2, <2>3, <2>4
<1>2. p \in Seq(Int) /\ Len(p) = prefix /\ \A i \in 1 .. prefix : p[i] = PrefixByte(i - 1)
  <2>1. p \in [1 .. prefix -> Int]
    BY DEF PrefixByte
  <2> QED
    BY <2>1, TableIsSeq
<1>3. h \in Seq(Int) /\ Len(h) = Available /\ \A i \in 1 .. Available : h[i] = text[A + i]
  <2>1. A + 1 \in Nat \ {0} /\ A + 1 <= position + 1 /\ position + 1 - (A + 1) = Available
    BY <1>1
  <2>2. /\ SubSeq(text, A + 1, position) \in Seq(Int)
        /\ Len(SubSeq(text, A + 1, position)) = position + 1 - (A + 1)
        /\ \A i \in 1 .. position + 1 - (A + 1) : SubSeq(text, A + 1, position)[i] = text[(A + 1) + i - 1]
    <3> HIDE DEF A
    <3> QED
      BY <1>1, <2>1, PartOf
  <2>3. h = SubSeq(text, A + 1, position)
    OBVIOUS
  <2> HIDE DEF h, A
  <2>4. \A i \in 1 .. Available : (A + 1) + i - 1 = A + i
    BY <1>1
  <2> QED
    BY <2>1, <2>2, <2>3, <2>4
<1> HIDE DEF p, h
<1>4. s \in Seq(Int) /\ Len(s) = prefix + Available
  BY <1>2, <1>3, ConcatProperties
<1>5. \A i \in 1 .. prefix + Available : s[i] = IF i <= prefix THEN p[i] ELSE h[i - prefix]
  <2>1. p \in Seq(Int) /\ h \in Seq(Int)
    BY <1>2, <1>3
  <2>2. \A i \in 1 .. Len(p) + Len(h) : s[i] = IF i <= Len(p) THEN p[i] ELSE h[i - Len(p)]
    BY <2>1, ConcatProperties
  <2>3. Len(p) = prefix /\ Len(h) = Available
    BY <1>2, <1>3
  <2> HIDE DEF s
  <2> QED
    BY <2>2, <2>3
<1> HIDE DEF s, A
<1>6. ASSUME NEW j \in 0 .. d - 1 PROVE s[(o + 1) + j] = Sourced(o, j) /\ s[(o + 1) + j] \in Int
  <2>1. (o + 1) + j \in 1 .. prefix + Available
    BY <1>1
  <2>2. CASE o + j < prefix
    <3>1. (o + 1) + j <= prefix /\ (o + 1) + j \in 1 .. prefix /\ (o + 1) + j - 1 = o + j
      BY <1>1, <2>2
    <3>2. s[(o + 1) + j] = PrefixByte((o + 1) + j - 1)
      BY <1>2, <1>5, <2>1, <3>1, SMTT(30)
    <3> QED
      BY <1>1, <2>2, <3>1, <3>2 DEF Sourced, PrefixByte
  <2>3. CASE ~(o + j < prefix)
    <3>1. ~((o + 1) + j <= prefix) /\ (o + 1) + j - prefix \in 1 .. Available
          /\ (o + 1) + j - prefix = (o + j - prefix) + 1
      BY <1>1, <2>1, <2>3
    <3>2. s[(o + 1) + j] = text[A + ((o + j - prefix) + 1)]
      <4> DEFINE x == (o + 1) + j - prefix
      <4>1. s[(o + 1) + j] = h[x]
        BY <1>5, <2>1, <3>1
      <4>2. x \in 1 .. Available /\ x = (o + j - prefix) + 1
        BY <3>1
      <4> HIDE DEF x
      <4>3. h[x] = text[A + x]
        BY <1>3, <4>2
      <4> QED
        BY <4>1, <4>2, <4>3
    <3>3. A + ((o + j - prefix) + 1) \in 1 .. Len(text)
      <4>1. A + Available = position /\ Len(text) \in Nat
        BY <1>1, HistoryTypes DEF A
      <4> QED
        BY <1>1, <3>1, <4>1
    <3>4. text[A + ((o + j - prefix) + 1)] \in Int
      BY <1>1, <3>3, ElementOfSeq
    <3> QED
      BY <2>3, <3>2, <3>4 DEF Sourced, A
  <2> QED
    BY <2>2, <2>3
<1>7. Copied(d, n) = c
  BY DEF Copied, s, p, h
<1>8. ASSUME NEW k \in 1 .. n PROVE c[k] = Sourced(o, (k - 1) % d) /\ c[k] \in Int
  <2> DEFINE r == (k - 1) % d
  <2>1. k - 1 \in Int
    OBVIOUS
  <2>2. r \in 0 .. d - 1
    BY <2>1, Divides
  <2>3. c[k] = s[Len(s) - d + 1 + r]
    OBVIOUS
  <2> HIDE DEF r, c
  <2>4. Len(s) - d + 1 + r = (o + 1) + r
    BY <1>1, <1>4, <2>2
  <2> QED
    BY <1>6, <2>2, <2>3, <2>4 DEF r
<1>9. c \in [1 .. n -> Int]
  <2>1. c = [k \in 1 .. n |-> c[k]]
    OBVIOUS
  <2> HIDE DEF c
  <2> QED
    BY <1>8, <2>1
<1>10. c \in Seq(Int) /\ Len(c) = n
  <2> HIDE DEF c
  <2> QED
    BY <1>9, TableIsSeq
<1> HIDE DEF c
<1> QED
  BY <1>1, <1>7, <1>8, <1>10 DEF CopiedAs

(* The text after n more bytes s. *)
Enlarged(t, s, n) ==
  /\ t \in Seq(Int) /\ Extends(text, t) /\ Len(t) = position + n /\ n \in Nat
  /\ \A k \in 1 .. n : t[position + k] = s[k]
  /\ \A i \in 1 .. position : t[i] = text[i]

Lengthened(s, n) == s \in Seq(Int) /\ Len(s) = n

LEMMA TextGrows ==
  ASSUME HistoryInv, Len(text) = position, NEW s, NEW n, Lengthened(s, n)
  PROVE  Enlarged(text \o s, s, n)
<1> DEFINE t == text \o s
<1>0. s \in Seq(Int) /\ Len(s) = n
  BY DEF Lengthened
<1>1. text \in Seq(Int) /\ position \in Nat
  BY HistoryTypes
<1>2. /\ Extends(text, text \o s) /\ Len(text \o s) = Len(text) + Len(s)
      /\ \A k \in 1 .. Len(s) : (text \o s)[Len(text) + k] = s[k]
  BY <1>0, <1>1, AppendExtends
<1>3. n \in Nat
  BY <1>0, LenProperties
<1>4. /\ Extends(text, t) /\ Len(t) = position + n
      /\ \A k \in 1 .. n : t[position + k] = s[k]
  BY <1>0, <1>2
<1> HIDE DEF t
<1>5. t \in Seq(Int) /\ \A i \in 1 .. position : t[i] = text[i]
  BY <1>4 DEF Extends
<1>6. Enlarged(t, s, n)
  BY <1>3, <1>4, <1>5 DEF Enlarged
<1> QED
  BY <1>6 DEF t

(* Remainders repeat. *)
LEMMA ModTurns ==
  ASSUME NEW d \in Nat \ {0}, NEW a \in Int
  PROVE  (a + d) % d = a % d
<1> DEFINE r == a % d
<1>0. d \in Int /\ a + d \in Int
  OBVIOUS
<1>1. r \in 0 .. d - 1
  BY Divides
<1>2. d <= r + d /\ r + d < 2 * d
  <2> HIDE DEF r
  <2> QED
    BY <1>1
<1>3. (a + d) % d = r + d - d
  BY <1>0, <1>2, ModForward, ZenonT(60)
<1>4. r + d - d = r
  <2> HIDE DEF r
  <2> QED
    BY <1>1
<1> QED
  BY <1>3, <1>4

(* A copy out of the history repeats its distance. *)
LEMMA CopyRecurs ==
  ASSUME HistoryInv, prefix \in Nat, Len(text) = position, NEW d \in Nat \ {0}, d <= Available,
         NEW n \in Nat, NEW t, t = text \o Copied(d, n)
  PROVE  Extends(text, t) /\ t \in Seq(Int) /\ Len(t) = position + n /\ Recurs(t, position, d, n)
<1> DEFINE o == prefix - (d - Available)
<1>1. position \in Nat /\ Available \in Nat /\ Available <= position /\ d <= Available + prefix
  <2>1. position \in Nat
    BY HistoryTypes
  <2>2. Available \in Nat /\ Available <= position
    BY Measures
  <2> QED
    BY <2>1, <2>2
<1>2. CopiedAs(d, n, o)
  <2> HIDE DEF o
  <2>1. o = prefix - (d - Available)
    BY DEF o
  <2> QED
    BY <1>1, <2>1, CopiedIs
<1>3. /\ Copied(d, n) \in Seq(Int) /\ Len(Copied(d, n)) = n
      /\ \A k \in 1 .. n : Copied(d, n)[k] = Sourced(o, (k - 1) % d)
  BY <1>2 DEF CopiedAs
<1>4. /\ t \in Seq(Int) /\ Extends(text, t) /\ Len(t) = position + n
      /\ \A k \in 1 .. n : t[position + k] = Copied(d, n)[k]
      /\ \A i \in 1 .. position : t[i] = text[i]
  <2>1. Lengthened(Copied(d, n), n)
    BY <1>3 DEF Lengthened
  <2>2. Enlarged(t, Copied(d, n), n)
    BY <2>1, TextGrows
  <2> QED
    BY <2>2 DEF Enlarged
<1>5. ASSUME NEW j \in 0 .. d - 1 PROVE Sourced(o, j) = text[((position - d) + j) + 1]
  <2>1. ~(o + j < prefix) /\ (position - Available) + ((o + j - prefix) + 1) = ((position - d) + j) + 1
    BY <1>1
  <2> QED
    BY <2>1 DEF Sourced
<1> HIDE DEF o
<1>6. ASSUME NEW k \in 1 .. n PROVE t[position + k] = t[(position + k) - d]
  <2> DEFINE r == (k - 1) % d
             q == ((k - 1) - d) % d
  <2>1. k - 1 \in Int /\ (k - 1) - d \in Int /\ ((k - 1) - d) + d = k - 1
    BY <1>1
  <2>2. r \in 0 .. d - 1 /\ q \in 0 .. d - 1
    BY <2>1, Divides
  <2>3. t[position + k] = text[((position - d) + r) + 1]
    <3>1. t[position + k] = Sourced(o, r)
      BY <1>3, <1>4
    <3> HIDE DEF r
    <3> QED
      BY <1>5, <2>2, <3>1
  <2>4. CASE k <= d
    <3>1. k - 1 \in 0 .. d - 1
      BY <2>4
    <3>2. r = k - 1
      BY <3>1, ModSmall
    <3> HIDE DEF r
    <3>3. ((position - d) + r) + 1 = (position + k) - d /\ (position + k) - d \in 1 .. position
      BY <1>1, <2>4, <3>2
    <3> QED
      BY <1>4, <2>3, <3>3
  <2>5. CASE k > d
    <3>1. k - d \in 1 .. n /\ (k - d) - 1 = (k - 1) - d /\ position + (k - d) = (position + k) - d
      BY <1>1, <2>5
    <3>2. t[position + (k - d)] = Sourced(o, ((k - d) - 1) % d)
      BY <1>3, <1>4, <3>1
    <3>3. (((k - 1) - d) + d) % d = q
      BY <2>1, ModTurns
    <3>4. r = q
      BY <2>1, <3>3
    <3>5. t[position + (k - d)] = Sourced(o, q)
      BY <3>1, <3>2
    <3> HIDE DEF r, q
    <3>6. t[position + (k - d)] = text[((position - d) + q) + 1]
      BY <1>5, <2>2, <3>5
    <3> QED
      BY <2>3, <3>1, <3>4, <3>6
  <2>6. k <= d \/ k > d
    <3> HIDE DEF r, q
    <3> QED
      BY <1>1
  <2> HIDE DEF r, q
  <2> QED
    BY <2>4, <2>5, <2>6
<1> QED
  BY <1>4, <1>6 DEF Recurs

(* A copy from the prefix that goes on in a history that is all in reach. *)
LEMMA CopyLeads ==
  ASSUME HistoryInv, prefix \in Nat, Len(text) = position, NEW d \in Nat \ {0}, d > Available,
         d <= Available + prefix, d <= MaxBackward, NEW n \in Nat, NEW o, o = prefix - (d - Available)
  PROVE  /\ Extends(text, text \o Copied(d, n)) /\ Len(text \o Copied(d, n)) = position + n
         /\ LeadsFrom(text \o Copied(d, n), position, d, n, prefix, o)
<1> DEFINE t == text \o Copied(d, n)
<1>1. position \in Nat /\ Available = position
  <2>1. position \in Nat /\ MaxBackward \in Nat
    BY HistoryTypes, Measures
  <2> QED
    BY <2>1 DEF Available, Lesser
<1>2. CopiedAs(d, n, o) /\ o \in Nat
  BY CopiedIs
<1>3. /\ Lengthened(Copied(d, n), n)
      /\ \A k \in 1 .. n : Copied(d, n)[k] = Sourced(o, (k - 1) % d)
  BY <1>2 DEF CopiedAs, Lengthened
<1>4. Enlarged(t, Copied(d, n), n)
  BY <1>3, TextGrows
<1> HIDE DEF t
<1>5. /\ Extends(text, t) /\ Len(t) = position + n
      /\ \A k \in 1 .. n : t[position + k] = Copied(d, n)[k]
      /\ \A i \in 1 .. position : t[i] = text[i]
  BY <1>4 DEF Enlarged
<1>6. o <= prefix /\ d = position + (prefix - o) /\ o \in Nat
  BY <1>1, <1>2
<1>7. ASSUME NEW j \in 0 .. d - 1
      PROVE  Sourced(o, j) = IF o + (j + 1) <= prefix THEN PrefixByte(o + (j + 1) - 1)
                             ELSE text[(position + (j + 1)) - d]
  <2>1. CASE o + j < prefix
    <3>1. o + (j + 1) <= prefix /\ o + (j + 1) - 1 = o + j
      BY <1>6, <2>1, SMTT(30)
    <3> QED
      BY <2>1, <3>1 DEF Sourced
  <2>2. CASE ~(o + j < prefix)
    <3>1. ~(o + (j + 1) <= prefix) /\ (position - Available) + ((o + j - prefix) + 1) = (position + (j + 1)) - d
      BY <1>1, <1>6, <2>2
    <3> QED
      BY <2>2, <3>1 DEF Sourced
  <2> QED
    BY <2>1, <2>2
<1>8. ASSUME NEW k \in 1 .. n
      PROVE  t[position + k] = IF o + k <= prefix THEN PrefixByte(o + k - 1) ELSE t[(position + k) - d]
  <2> DEFINE r == (k - 1) % d
             q == ((k - 1) - d) % d
  <2>1. k - 1 \in Int /\ (k - 1) - d \in Int /\ ((k - 1) - d) + d = k - 1
    BY <1>1
  <2>3. t[position + k] = Sourced(o, r)
    BY <1>3, <1>5
  <2>4. CASE k <= d
    <3>1. k - 1 \in 0 .. d - 1 /\ (k - 1) + 1 = k
      BY <2>4
    <3>2. r = k - 1
      BY <3>1, ModSmall
    <3> HIDE DEF r
    <3>3. Sourced(o, k - 1) = IF o + k <= prefix THEN PrefixByte(o + k - 1) ELSE text[(position + k) - d]
      BY <1>7, <3>1
    <3>4. ~(o + k <= prefix) => (position + k) - d \in 1 .. position
      BY <1>6, <2>4, SMTT(30)
    <3> QED
      BY <1>5, <2>3, <3>2, <3>3, <3>4
  <2>5. CASE k > d
    <3>1. k - d \in 1 .. n /\ (k - d) - 1 = (k - 1) - d /\ position + (k - d) = (position + k) - d
          /\ ~(o + k <= prefix)
      BY <1>1, <1>6, <2>5
    <3>2. t[position + (k - d)] = Sourced(o, ((k - d) - 1) % d)
      BY <1>3, <1>5, <3>1
    <3>3. (((k - 1) - d) + d) % d = q
      BY <2>1, ModTurns
    <3>4. r = q
      BY <2>1, <3>3
    <3>5. t[position + (k - d)] = Sourced(o, q)
      BY <3>1, <3>2
    <3> HIDE DEF r, q
    <3> QED
      BY <2>3, <3>1, <3>4, <3>5
  <2>6. k <= d \/ k > d
    <3> HIDE DEF r, q
    <3> QED
      BY <1>1
  <2> HIDE DEF r, q
  <2> QED
    BY <2>4, <2>5, <2>6
<1>9. LeadsFrom(t, position, d, n, prefix, o)
  BY <1>6, <1>8 DEF LeadsFrom
<1> QED
  BY <1>5, <1>9 DEF t

(* The addressable history is the text's. *)
LEMMA Addressed ==
  ASSUME HistoryInv, NEW i \in 1 .. Available
  PROVE  /\ At(Buffer, position - Available + i - 1) = text[(position - Available) + i]
         /\ text[(position - Available) + i] \in Int
<1>1. /\ position \in Nat /\ Available \in Nat /\ Available <= position /\ Available <= MaxBackward
      /\ MaxBackward = window - Chunk
  BY HistoryTypes, Measures
<1>2. Good(History(Buffer), text, window, Whole, Delivers, out)
  BY DEF HistoryInv
<1>3. Holds(History(Buffer), text, window, Whole)
  BY <1>2 DEF Good
<1>4. History(Buffer).pos = position /\ History(Buffer).bytes = Buffer
  BY HistoryFields
<1> DEFINE p == position - Available + i - 1
<1>5. p \in 0 .. position - 1 /\ position - (window - Chunk) <= p /\ p + 1 = (position - Available) + i
  <2>1. window \in Nat /\ Chunk \in Nat
    BY HistoryTypes, RingAssumption
  <2> QED
    BY <1>1, <2>1
<1> HIDE DEF p
<1>6. At(Buffer, p) = text[p + 1]
  BY <1>3, <1>4, <1>5 DEF Holds
<1>7. p + 1 \in 1 .. Len(text) /\ text \in Seq(Int)
  <2>1. position <= Len(text) /\ Len(text) \in Nat /\ text \in Seq(Int)
    BY HistoryTypes
  <2> QED
    BY <1>1, <1>5, <2>1
<1>8. text[p + 1] \in Int
  BY <1>7, ElementOfSeq
<1> QED
  BY <1>5, <1>6, <1>8 DEF p

(* What a copy that leaves the prefix for a history out of reach saves. *)
LEMMA SavedIs ==
  ASSUME HistoryInv, NEW x \in Nat
  PROVE  /\ Saved(x) \in Seq(Int) /\ Len(Saved(x)) = Lesser(x, Available)
         /\ \A i \in 1 .. Lesser(x, Available) : Saved(x)[i] = text[(position - Available) + i]
<1> DEFINE m == Lesser(x, Available)
<1>1. Available \in Nat
  BY Measures
<1>2. m \in Nat /\ m <= Available
  BY <1>1 DEF Lesser
<1>3. Saved(x) = [i \in 1 .. m |-> At(Buffer, position - Available + i - 1)]
  BY DEF Saved, Buffer
<1> HIDE DEF m
<1>4. ASSUME NEW i \in 1 .. m
      PROVE  Saved(x)[i] = text[(position - Available) + i] /\ Saved(x)[i] \in Int
  <2>1. i \in 1 .. Available
    BY <1>1, <1>2
  <2>2. Saved(x)[i] = At(Buffer, position - Available + i - 1)
    BY <1>3
  <2> QED
    BY <2>1, <2>2, Addressed
<1>5. Saved(x) \in [1 .. m -> Int]
  BY <1>3, <1>4
<1>6. Saved(x) \in Seq(Int) /\ Len(Saved(x)) = m
  BY <1>2, <1>5, TableIsSeq
<1> QED
  BY <1>4, <1>6 DEF m

(* A copy from the prefix that goes on in what was saved of the history. *)
LEMMA CopyCycles ==
  ASSUME HistoryInv, prefix \in Nat, Len(text) = position, NEW d \in Nat \ {0}, d > Available,
         d <= Available + prefix, NEW n \in Nat, NEW o, o = prefix - (d - Available),
         NEW x, x = Greater(n - (prefix - o), 0)
  PROVE  /\ Extends(text, text \o Copied(d, n)) /\ Len(text \o Copied(d, n)) = position + n
         /\ Saved(x) \in Seq(Int) /\ Cyclic(text \o Copied(d, n), position, d, n, o, prefix, Saved(x), 0)
         /\ o \in Nat /\ o <= prefix /\ prefix - o <= d
<1> DEFINE t == text \o Copied(d, n)
           s == Saved(x)
           m == Lesser(x, Available)
<1>1. position \in Nat /\ Available \in Nat
  BY HistoryTypes, Measures
<1>2. CopiedAs(d, n, o) /\ o \in Nat
  BY CopiedIs
<1>3. /\ Lengthened(Copied(d, n), n)
      /\ \A k \in 1 .. n : Copied(d, n)[k] = Sourced(o, (k - 1) % d)
  BY <1>2 DEF CopiedAs, Lengthened
<1>4. Enlarged(t, Copied(d, n), n)
  BY <1>3, TextGrows
<1> HIDE DEF t
<1>5. /\ Extends(text, t) /\ Len(t) = position + n
      /\ \A k \in 1 .. n : t[position + k] = Copied(d, n)[k]
  BY <1>4 DEF Enlarged
<1>6. o <= prefix /\ prefix - o <= d /\ o \in Nat /\ d - (prefix - o) = Available /\ x \in Nat
  BY <1>1, <1>2 DEF Greater
<1>7. /\ s \in Seq(Int) /\ Len(s) = m
      /\ \A i \in 1 .. m : s[i] = text[(position - Available) + i]
  BY <1>6, SavedIs
<1>8. /\ m \in Nat /\ m <= Available
      /\ m = Available \/ n <= (prefix - o) + m
  BY <1>1, <1>6 DEF Lesser, Greater
<1> HIDE DEF m, s
<1>9. ASSUME NEW j \in 0 .. d - 1, m = Available \/ j < (prefix - o) + m
      PROVE  Sourced(o, j) = CycledAt(o, prefix, s, j)
  <2>1. CASE o + j < prefix
    BY <2>1 DEF Sourced, CycledAt
  <2>2. CASE ~(o + j < prefix)
    <3>1. (o + j - prefix) + 1 \in 1 .. m
      BY <1>1, <1>6, <1>8, <1>9, <2>2
    <3>2. s[(o + j - prefix) + 1] = text[(position - Available) + ((o + j - prefix) + 1)]
      BY <1>7, <3>1
    <3> QED
      BY <2>2, <3>2 DEF Sourced, CycledAt
  <2> QED
    BY <2>1, <2>2
<1>10. ASSUME NEW k \in 0 .. n - 1
       PROVE  t[position + (k + 1)] = CycledAt(o, prefix, s, (0 + k) % d)
  <2> DEFINE r == k % d
  <2>1. k \in Int /\ k + 1 \in 1 .. n /\ (k + 1) - 1 = k /\ 0 + k = k
    OBVIOUS
  <2>2. t[position + (k + 1)] = Sourced(o, ((k + 1) - 1) % d)
    BY <1>3, <1>5, <2>1
  <2>3. r \in 0 .. d - 1
    BY <2>1, Divides
  <2>4. ((k + 1) - 1) % d = r /\ (0 + k) % d = r
    BY <2>1
  <2>5. m = Available \/ r < (prefix - o) + m
    <3>1. CASE n <= (prefix - o) + m /\ m # Available
      <4>1. k \in 0 .. d - 1 /\ k < (prefix - o) + m
        BY <1>1, <1>6, <1>8, <3>1
      <4>2. r = k
        BY <4>1, ModSmall
      <4> HIDE DEF r
      <4> QED
        BY <4>1, <4>2
    <3> HIDE DEF r
    <3> QED
      BY <1>8, <3>1
  <2> HIDE DEF r
  <2>6. Sourced(o, r) = CycledAt(o, prefix, s, r)
    BY <1>9, <2>3, <2>5
  <2> QED
    BY <2>2, <2>4, <2>6
<1>11. Cyclic(t, position, d, n, o, prefix, s, 0)
  <2>1. 0 <= d /\ Len(s) <= d - (prefix - o) /\ (Len(s) = d - (prefix - o) \/ 0 + n <= (prefix - o) + Len(s))
    BY <1>6, <1>7, <1>8
  <2> QED
    BY <1>10, <2>1 DEF Cyclic
<1> QED
  BY <1>5, <1>6, <1>7, <1>11 DEF t, s

-----------------------------------------------------------------------------
(* A copy goes on where it stopped. *)

LEMMA RecursOn ==
  ASSUME NEW t, NEW P \in Nat, NEW d \in Int, NEW n \in Nat, NEW m \in 0 .. n, Recurs(t, P, d, n)
  PROVE  Recurs(t, P + m, d, n - m)
<1>1. ASSUME NEW k \in 1 .. n - m PROVE t[(P + m) + k] = t[((P + m) + k) - d]
  <2>1. m + k \in 1 .. n /\ (P + m) + k = P + (m + k)
    OBVIOUS
  <2> QED
    BY <2>1 DEF Recurs
<1> QED
  BY <1>1 DEF Recurs

LEMMA RecursLess ==
  ASSUME NEW t, NEW P, NEW d, NEW n \in Nat, NEW m \in 0 .. n, Recurs(t, P, d, n)
  PROVE  Recurs(t, P, d, m)
<1>1. \A k \in 1 .. m : k \in 1 .. n
  OBVIOUS
<1> QED
  BY <1>1 DEF Recurs

LEMMA LeadsOn ==
  ASSUME NEW t, NEW P \in Nat, NEW d \in Int, NEW n \in Nat, NEW m \in 0 .. n, NEW p \in Nat, NEW o \in Nat,
         LeadsFrom(t, P, d, n, p, o)
  PROVE  LeadsFrom(t, P + m, d, n - m, p, o + m)
<1>1. d = (P + m) + (p - (o + m))
  BY DEF LeadsFrom
<1>2. ASSUME NEW k \in 1 .. n - m
      PROVE  t[(P + m) + k] = IF (o + m) + k <= p THEN PrefixByte((o + m) + k - 1) ELSE t[((P + m) + k) - d]
  <2>1. m + k \in 1 .. n /\ (P + m) + k = P + (m + k) /\ (o + m) + k = o + (m + k)
    OBVIOUS
  <2> QED
    BY <2>1 DEF LeadsFrom
<1> QED
  BY <1>1, <1>2 DEF LeadsFrom

(* The end of the prefix. *)
LEMMA LeadsRecurs ==
  ASSUME NEW t, NEW P \in Nat, NEW d \in Int, NEW n \in Nat, NEW p \in Nat, LeadsFrom(t, P, d, n, p, p)
  PROVE  d = P /\ Recurs(t, P, d, n)
<1>1. ASSUME NEW k \in 1 .. n PROVE t[P + k] = t[(P + k) - d]
  <2>1. ~(p + k <= p)
    OBVIOUS
  <2> QED
    BY <2>1 DEF LeadsFrom
<1> QED
  BY <1>1 DEF Recurs, LeadsFrom

LEMMA CyclicOn ==
  ASSUME NEW t, NEW P \in Nat, NEW d \in Nat \ {0}, NEW n \in Nat, NEW m \in 0 .. n, NEW s \in Nat, NEW p \in Nat,
         NEW h \in Seq(Int), NEW j \in Nat, j + m <= d, Cyclic(t, P, d, n, s, p, h, j)
  PROVE  Cyclic(t, P + m, d, n - m, s, p, h, j + m)
<1>1. ASSUME NEW k \in 0 .. (n - m) - 1
      PROVE  t[(P + m) + (k + 1)] = CycledAt(s, p, h, ((j + m) + k) % d)
  <2>1. m + k \in 0 .. n - 1 /\ (P + m) + (k + 1) = P + ((m + k) + 1) /\ (j + m) + k = j + (m + k)
    OBVIOUS
  <2>2. t[P + ((m + k) + 1)] = CycledAt(s, p, h, (j + (m + k)) % d)
    BY <2>1 DEF Cyclic
  <2> QED
    BY <2>1, <2>2
<1>2. Len(h) <= d - (p - s) /\ (Len(h) = d - (p - s) \/ (j + m) + (n - m) <= (p - s) + Len(h))
  <2>1. Len(h) <= d - (p - s) /\ (Len(h) = d - (p - s) \/ j + n <= (p - s) + Len(h))
    BY DEF Cyclic
  <2>2. (j + m) + (n - m) = j + n
    OBVIOUS
  <2> QED
    BY <2>1, <2>2
<1> QED
  BY <1>1, <1>2 DEF Cyclic

(* The end of what was saved: the copy begins again. *)
LEMMA CyclicAgain ==
  ASSUME NEW t, NEW P \in Nat, NEW d \in Nat \ {0}, NEW n \in Nat, NEW s \in Nat, NEW p \in Nat,
         NEW h \in Seq(Int), NEW j, j = (p - s) + Len(h), n > 0, Cyclic(t, P, d, n, s, p, h, j)
  PROVE  Cyclic(t, P, d, n, s, p, h, 0)
<1>1. Len(h) \in Nat
  BY LenProperties
<1>2. Len(h) = d - (p - s) /\ j = d
  <2>1. Len(h) = d - (p - s) \/ j + n <= (p - s) + Len(h)
    BY DEF Cyclic
  <2> QED
    BY <1>1, <2>1
<1>3. ASSUME NEW k \in 0 .. n - 1 PROVE t[P + (k + 1)] = CycledAt(s, p, h, (0 + k) % d)
  <2>1. t[P + (k + 1)] = CycledAt(s, p, h, (j + k) % d)
    BY DEF Cyclic
  <2>2. k \in Int /\ j + k = k + d /\ 0 + k = k
    BY <1>2
  <2>3. (k + d) % d = k % d
    BY <2>2, ModTurns
  <2> QED
    BY <2>1, <2>2, <2>3
<1> QED
  BY <1>2, <1>3 DEF Cyclic

(* The next byte of the copy. *)
LEMMA CyclicByte ==
  ASSUME NEW t, NEW P \in Nat, NEW d \in Nat \ {0}, NEW n \in Nat \ {0}, NEW s \in Nat, NEW p \in Nat,
         NEW h \in Seq(Int), NEW j \in 0 .. d - 1, Cyclic(t, P, d, n, s, p, h, j)
  PROVE  t[P + 1] = CycledAt(s, p, h, j)
<1>1. 0 \in 0 .. n - 1 /\ P + (0 + 1) = P + 1 /\ j + 0 = j
  OBVIOUS
<1>2. t[P + (0 + 1)] = CycledAt(s, p, h, (j + 0) % d)
  BY <1>1 DEF Cyclic
<1>3. j % d = j
  BY ModSmall
<1> QED
  BY <1>1, <1>2, <1>3
=============================================================================
