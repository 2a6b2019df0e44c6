------------------------- MODULE DecoderSessionProofs -------------------------
(***************************************************************************)
(* The bit reservoir of a decoding session, proved for every byte and word *)
(* size, every stream, policy, client and slicing: it always holds the     *)
(* bits of the stream that follow the decoder's position, each once; and   *)
(* the accounts its Read and Write adapters keep over it.                  *)
(***************************************************************************)
EXTENDS MCDecoderSession, TLAPS

-----------------------------------------------------------------------------
(* Bytes and bits. *)

LEMMA Distribute ==
  ASSUME NEW a \in Int, NEW b \in Int
  PROVE  /\ a * ByteBits \in Int
         /\ (a + b) * ByteBits = a * ByteBits + b * ByteBits
         /\ (a - b) * ByteBits = a * ByteBits - b * ByteBits
         /\ a <= b => a * ByteBits <= b * ByteBits
         /\ a < b => a * ByteBits + ByteBits <= b * ByteBits
<1>1. ByteBits \in Nat /\ ByteBits > 1
  BY BitsAssumption
<1>2. /\ a * ByteBits \in Int
      /\ (a + b) * ByteBits = a * ByteBits + b * ByteBits
      /\ (a - b) * ByteBits = a * ByteBits - b * ByteBits
  BY <1>1
<1>3. a <= b => a * ByteBits <= b * ByteBits
  BY <1>1
<1>4. a < b => a * ByteBits + ByteBits <= b * ByteBits
  <2> SUFFICES ASSUME a < b PROVE a * ByteBits + ByteBits <= b * ByteBits
    OBVIOUS
  <2>1. (a + 1) * ByteBits = a * ByteBits + ByteBits
    BY <1>1
  <2>2. a + 1 <= b
    OBVIOUS
  <2>3. (a + 1) * ByteBits <= b * ByteBits
    BY <1>1, <2>2
  <2> QED
    BY <2>1, <2>3
<1> QED
  BY <1>2, <1>3, <1>4

LEMMA Division ==
  ASSUME NEW c \in Nat, NEW z \in Nat \ {0}
  PROVE  c \div z \in Nat /\ c % z \in 0 .. z - 1 /\ c = z * (c \div z) + (c % z)
  OBVIOUS

(* A bit count is its whole bytes and the rest. *)
LEMMA WholeBytes ==
  ASSUME NEW c \in Nat
  PROVE  /\ c \div ByteBits \in Nat /\ c % ByteBits \in 0 .. ByteBits - 1
         /\ c = (c \div ByteBits) * ByteBits + (c % ByteBits)
<1>1. ByteBits \in Nat /\ ByteBits > 1
  BY BitsAssumption
<1>2. /\ c \div ByteBits \in Nat /\ c % ByteBits \in 0 .. ByteBits - 1
      /\ c = ByteBits * (c \div ByteBits) + (c % ByteBits)
  <2>1. ByteBits \in Nat \ {0}
    BY <1>1
  <2> QED
    BY <2>1, Division
<1>3. ByteBits * (c \div ByteBits) = (c \div ByteBits) * ByteBits
  BY <1>1, <1>2
<1> QED
  BY <1>2, <1>3

(* Bytes that hold n bits hold no byte more. *)
LEMMA BytesHold ==
  ASSUME NEW n \in Nat
  PROVE  Bytes(n) \in Nat /\ n <= Bytes(n) * ByteBits /\ Bytes(n) * ByteBits < n + ByteBits
<1>1. ByteBits \in Nat /\ ByteBits > 1
  BY BitsAssumption
<1> DEFINE c == n + ByteBits - 1
<1>2. c \in Nat /\ Bytes(n) = c \div ByteBits
  BY <1>1 DEF Bytes
<1> HIDE DEF c
<1>3. /\ c \div ByteBits \in Nat /\ c % ByteBits \in 0 .. ByteBits - 1
      /\ c = (c \div ByteBits) * ByteBits + (c % ByteBits)
  BY <1>2, WholeBytes
<1>4. c = n + ByteBits - 1
  BY DEF c
<1>5. (c \div ByteBits) * ByteBits \in Int
  BY <1>3, Distribute
<1> QED
  BY <1>1, <1>2, <1>3, <1>4, <1>5

(* The byte boundary before which a reservoir that ends on a byte has its
   bits in progress. *)
LEMMA PaddingEnds ==
  ASSUME NEW p \in Nat, NEW c \in Nat, NEW k \in Nat, p + c = k * ByteBits
  PROVE  Bytes(p) * ByteBits = p + (c % ByteBits)
<1>1. ByteBits \in Nat /\ ByteBits > 1
  BY BitsAssumption
<1> DEFINE q == c \div ByteBits
           r == c % ByteBits
           b == Bytes(p)
<1>2. q \in Nat /\ r \in 0 .. ByteBits - 1 /\ c = q * ByteBits + r
  BY WholeBytes
<1>3. b \in Nat /\ p <= b * ByteBits /\ b * ByteBits < p + ByteBits
  BY BytesHold
<1> HIDE DEF q, r, b
<1>4. (k - q) * ByteBits = k * ByteBits - q * ByteBits /\ k * ByteBits \in Int /\ q * ByteBits \in Int /\ b * ByteBits \in Int
  BY <1>2, <1>3, Distribute
<1>5. p + r = (k - q) * ByteBits
  <2> DEFINE kb == k * ByteBits
             qb == q * ByteBits
  <2>1. kb \in Int /\ qb \in Int /\ p + c = kb /\ c = qb + r /\ r \in Int /\ (k - q) * ByteBits = kb - qb
    BY <1>1, <1>2, <1>4
  <2> HIDE DEF kb, qb
  <2>2. p + r = kb - qb
    BY <2>1
  <2> QED
    BY <2>1, <2>2
<1>6. k - q \in Int /\ b \in Int
  BY <1>2, <1>3
<1>7. ~ b < k - q
  <2> SUFFICES ASSUME b < k - q PROVE FALSE
    OBVIOUS
  <2>1. b * ByteBits + ByteBits <= (k - q) * ByteBits
    BY <1>6, Distribute
  <2> QED
    BY <1>1, <1>2, <1>3, <1>4, <1>5, <2>1
<1>8. ~ k - q < b
  <2> SUFFICES ASSUME k - q < b PROVE FALSE
    OBVIOUS
  <2>1. (k - q) * ByteBits + ByteBits <= b * ByteBits
    BY <1>6, Distribute
  <2> QED
    BY <1>1, <1>2, <1>3, <1>4, <1>5, <2>1
<1>9. b = k - q
  BY <1>6, <1>7, <1>8
<1>10. b * ByteBits = p + r
  BY <1>5, <1>9
<1> QED
  BY <1>10 DEF b, r

(* The word has room for three bytes. *)
LEMMA WordHolds == Word \in Nat /\ 3 * ByteBits <= Word /\ MAX_PEEK = Word - ByteBits
<1>1. ByteBits \in Nat /\ WordBytes \in Nat /\ 3 <= WordBytes
  BY BitsAssumption
<1>2. 3 * ByteBits <= WordBytes * ByteBits
  <2>1. 3 \in Int /\ WordBytes \in Int
    BY <1>1
  <2> QED
    BY <1>1, <2>1, Distribute
<1>3. WordBytes * ByteBits \in Nat
  BY <1>1
<1> QED
  BY <1>2, <1>3 DEF Word, MAX_PEEK

-----------------------------------------------------------------------------
(* The reservoir. *)

Bits == [value : [Places -> SUBSET Int], count : 0 .. Word - 1]

(* Its bits are those of the stream from position p on, and above them are
   only bits that belong there. *)
Holds(b, p) ==
  \A i \in Places : IF i < b.count THEN b.value[i] = {p + i} ELSE b.value[i] \subseteq {p + i}

(* Nothing is above them. *)
Clean(b) == \A i \in Places : i < b.count \/ b.value[i] = {}

LEMMA EmptyHolds ==
  ASSUME NEW p \in Nat
  PROVE  Empty \in Bits /\ Empty.count = 0 /\ Holds(Empty, p) /\ Clean(Empty)
<1>1. Empty.count = 0 /\ Empty.value = [i \in Places |-> {}] /\ 0 \in 0 .. Word - 1
  BY WordHolds, BitsAssumption DEF Empty
<1>2. Empty \in Bits
  BY <1>1 DEF Empty, Bits
<1>3. \A i \in Places : Empty.value[i] = {} /\ ~ i < Empty.count
  BY <1>1, WordHolds DEF Places
<1> QED
  BY <1>1, <1>2, <1>3 DEF Holds, Clean

(* Bits that are read leave from below. *)
LEMMA DropHolds ==
  ASSUME NEW b \in Bits, NEW p \in Nat, Holds(b, p), NEW n \in 0 .. b.count
  PROVE  /\ Drop(b, n) \in Bits /\ Drop(b, n).count = b.count - n
         /\ Holds(Drop(b, n), p + n)
         /\ Clean(b) => Clean(Drop(b, n))
<1>1. b.count \in 0 .. Word - 1 /\ b.value \in [Places -> SUBSET Int] /\ Word \in Nat /\ n \in Nat /\ n <= b.count
  BY WordHolds DEF Bits
<1> DEFINE v == [i \in Places |-> IF i + n < Word THEN b.value[i + n] ELSE {}]
           d == Drop(b, n)
<1>2. d = [value |-> v, count |-> b.count - n]
  BY DEF Drop
<1>3. d.value = v /\ d.count = b.count - n
  BY <1>2
<1>4. \A i \in Places : i + n < Word => i + n \in Places
  BY <1>1 DEF Places
<1>5. v \in [Places -> SUBSET Int]
  BY <1>1, <1>4
<1>6. b.count - n \in 0 .. Word - 1
  BY <1>1
<1>7. d \in Bits
  BY <1>2, <1>5, <1>6 DEF Bits
<1>8. ASSUME NEW i \in Places
      PROVE  /\ IF i < d.count THEN d.value[i] = {(p + n) + i} ELSE d.value[i] \subseteq {(p + n) + i}
             /\ Clean(b) => i < d.count \/ d.value[i] = {}
  <2>1. i \in Nat /\ i < Word
    BY <1>1 DEF Places
  <2>2. CASE i + n < Word
    <3>1. d.value[i] = b.value[i + n] /\ i + n \in Places /\ p + (i + n) = (p + n) + i
      BY <1>1, <1>3, <1>4, <2>1, <2>2
    <3>2. i + n < b.count <=> i < d.count
      BY <1>1, <1>3, <2>1
    <3>3. IF i + n < b.count THEN b.value[i + n] = {p + (i + n)} ELSE b.value[i + n] \subseteq {p + (i + n)}
      BY <3>1 DEF Holds
    <3>4. Clean(b) => i + n < b.count \/ b.value[i + n] = {}
      BY <3>1 DEF Clean
    <3> QED
      BY <3>1, <3>2, <3>3, <3>4
  <2>3. CASE ~ i + n < Word
    <3>1. d.value[i] = {}
      BY <1>3, <2>3
    <3>2. ~ i < d.count
      BY <1>1, <1>3, <2>1, <2>3
    <3> QED
      BY <3>1, <3>2
  <2> QED
    BY <2>2, <2>3
<1> HIDE DEF d, v
<1>9. Holds(d, p + n) /\ (Clean(b) => Clean(d))
  BY <1>8 DEF Holds, Clean
<1> QED
  BY <1>3, <1>7, <1>9 DEF d

(* Bytes that are loaded follow the bits that are there. *)
LEMMA OredHolds ==
  ASSUME NEW b \in Bits, NEW p \in Nat, Holds(b, p), NEW byte \in Nat, byte * ByteBits = p + b.count,
         NEW end \in Nat, NEW n \in b.count .. Word - 1, n <= end
  PROVE  LET o == [value |-> Ored(b.value, byte, b.count, end), count |-> n]
         IN  o \in Bits /\ Holds(o, p)
<1> DEFINE v == Ored(b.value, byte, b.count, end)
           o == [value |-> v, count |-> n]
<1>1. b.count \in 0 .. Word - 1 /\ b.value \in [Places -> SUBSET Int] /\ Word \in Nat /\ n \in 0 .. Word - 1
  BY WordHolds DEF Bits
<1>2. o.value = v /\ o.count = n
  OBVIOUS
<1>3. ASSUME NEW i \in Places
      PROVE  v[i] = b.value[i] \cup (IF i \in b.count .. end - 1 THEN {p + i} ELSE {})
  <2>1. i \in Nat
    BY <1>1 DEF Places
  <2>2. v[i] = b.value[i] \cup (IF i \in b.count .. end - 1 THEN {byte * ByteBits + i - b.count} ELSE {})
    BY DEF Ored
  <2>3. (p + b.count) + i - b.count = p + i
    BY <1>1, <2>1
  <2> QED
    BY <2>2, <2>3
<1>4. v \in [Places -> SUBSET Int]
  <2>1. v = [i \in Places |-> v[i]]
    BY DEF Ored
  <2>2. ASSUME NEW i \in Places PROVE v[i] \in SUBSET Int
    <3>1. b.value[i] \in SUBSET Int /\ p + i \in Int
      BY <1>1 DEF Places
    <3> QED
      BY <1>3, <3>1
  <2> HIDE DEF v
  <2> QED
    BY <2>1, <2>2
<1>5. ASSUME NEW i \in Places
      PROVE  IF i < n THEN v[i] = {p + i} ELSE v[i] \subseteq {p + i}
  <2>1. i \in Nat
    BY <1>1 DEF Places
  <2>2. IF i < b.count THEN b.value[i] = {p + i} ELSE b.value[i] \subseteq {p + i}
    BY DEF Holds
  <2> HIDE DEF v
  <2>3. CASE i < b.count
    <3>1. v[i] = {p + i} /\ i < n
      BY <1>1, <1>3, <2>1, <2>2, <2>3
    <3> QED
      BY <3>1
  <2>4. CASE ~ i < b.count
    <3>1. v[i] \subseteq {p + i}
      BY <1>3, <2>2, <2>4
    <3>2. i < n => i \in b.count .. end - 1
      BY <1>1, <2>1, <2>4
    <3>3. i < n => v[i] = {p + i}
      BY <1>3, <2>2, <2>4, <3>2
    <3> QED
      BY <3>1, <3>3
  <2> QED
    BY <2>3, <2>4
<1> HIDE DEF v
<1>6. o \in Bits
  BY <1>1, <1>4 DEF Bits
<1>7. Holds(o, p)
  BY <1>2, <1>5 DEF Holds
<1> QED
  BY <1>6, <1>7 DEF v

LEMMA LoadHolds ==
  ASSUME NEW b \in Bits, NEW p \in Nat, Holds(b, p), NEW byte \in Nat, byte * ByteBits = p + b.count,
         NEW k \in Nat, b.count + k * ByteBits < Word
  PROVE  /\ Load(b, byte, k) \in Bits /\ Load(b, byte, k).count = b.count + k * ByteBits
         /\ Holds(Load(b, byte, k), p)
<1> DEFINE n == b.count + k * ByteBits
<1>1. b.count \in Nat /\ Word \in Nat /\ k * ByteBits \in Nat
  BY WordHolds, BitsAssumption DEF Bits
<1>2. n \in Nat /\ n \in b.count .. Word - 1 /\ n <= n
  BY <1>1
<1>3. Load(b, byte, k) = [value |-> Ored(b.value, byte, b.count, n), count |-> n]
  BY DEF Load
<1> HIDE DEF n
<1>4. [value |-> Ored(b.value, byte, b.count, n), count |-> n] \in Bits
      /\ Holds([value |-> Ored(b.value, byte, b.count, n), count |-> n], p)
  BY <1>2, OredHolds
<1>5. Load(b, byte, k).count = n
  BY <1>3
<1> QED
  BY <1>3, <1>4, <1>5 DEF n

(* A refill counts whole bytes of the word, and never fills it. *)
LEMMA AcceptedFits ==
  ASSUME NEW b \in Bits
  PROVE  Accepted(b) \in Nat /\ b.count + Accepted(b) * ByteBits < Word /\ Accepted(b) <= WordBytes
<1>1. b.count \in 0 .. Word - 1 /\ Word \in Nat /\ ByteBits \in Nat \ {0} /\ WordBytes \in Nat
  BY WordHolds, BitsAssumption DEF Bits
<1> DEFINE c == Word - 1 - b.count
           a == c \div ByteBits
<1>2. c \in Nat /\ b.count + c = Word - 1
  BY <1>1
<1>3. Accepted(b) = a
  BY DEF Accepted
<1> HIDE DEF c
<1>4. a \in Nat /\ c % ByteBits \in Nat /\ c = a * ByteBits + (c % ByteBits)
  BY <1>2, WholeBytes
<1> HIDE DEF a
<1>5. a * ByteBits \in Int
  BY <1>4, Distribute
<1>6. a * ByteBits <= c
  BY <1>2, <1>4, <1>5
<1>7. b.count + a * ByteBits < Word
  BY <1>1, <1>2, <1>5, <1>6
<1>8. ~ WordBytes < a
  <2> SUFFICES ASSUME WordBytes < a PROVE FALSE
    OBVIOUS
  <2>1. WordBytes * ByteBits + ByteBits <= a * ByteBits /\ WordBytes * ByteBits = Word
    BY <1>1, <1>4, Distribute DEF Word
  <2> QED
    BY <1>1, <1>5, <1>7, <2>1
<1> QED
  BY <1>1, <1>3, <1>4, <1>7, <1>8

LEMMA RefillHolds ==
  ASSUME NEW b \in Bits, NEW p \in Nat, Holds(b, p), NEW byte \in Nat, byte * ByteBits = p + b.count
  PROVE  /\ Refill(b, byte) \in Bits /\ Refill(b, byte).count = b.count + Accepted(b) * ByteBits
         /\ Holds(Refill(b, byte), p)
<1> DEFINE n == b.count + Accepted(b) * ByteBits
<1>1. Accepted(b) \in Nat /\ n < Word
  BY AcceptedFits
<1>2. b.count \in Nat /\ Word \in Nat /\ Accepted(b) * ByteBits \in Nat
  BY <1>1, WordHolds, BitsAssumption DEF Bits
<1>3. n \in b.count .. Word - 1 /\ n <= Word
  BY <1>1, <1>2
<1>4. Refill(b, byte) = [value |-> Ored(b.value, byte, b.count, Word), count |-> n]
  BY DEF Refill
<1> HIDE DEF n
<1>5. [value |-> Ored(b.value, byte, b.count, Word), count |-> n] \in Bits
      /\ Holds([value |-> Ored(b.value, byte, b.count, Word), count |-> n], p)
  BY <1>2, <1>3, OredHolds
<1>6. Refill(b, byte).count = n
  BY <1>4
<1> QED
  BY <1>4, <1>5, <1>6 DEF n

(* Bits above the count are cleared. *)
LEMMA MaskHolds ==
  ASSUME NEW b \in Bits, NEW p \in Nat, Holds(b, p), NEW n \in 0 .. b.count
  PROVE  LET m == [value |-> Masked(b.value, n), count |-> n]
         IN  m \in Bits /\ Holds(m, p) /\ Clean(m)
<1> DEFINE v == Masked(b.value, n)
           m == [value |-> v, count |-> n]
<1>1. b.count \in 0 .. Word - 1 /\ b.value \in [Places -> SUBSET Int] /\ Word \in Nat /\ n \in 0 .. Word - 1
  BY WordHolds DEF Bits
<1>2. m.value = v /\ m.count = n
  OBVIOUS
<1>3. \A i \in Places : v[i] = IF i < n THEN b.value[i] ELSE {}
  BY DEF Masked
<1>4. v \in [Places -> SUBSET Int]
  BY <1>1 DEF Masked
<1>5. ASSUME NEW i \in Places
      PROVE  /\ IF i < n THEN v[i] = {p + i} ELSE v[i] \subseteq {p + i}
             /\ i < n \/ v[i] = {}
  <2>1. i < n => i < b.count
    BY <1>1 DEF Places
  <2>2. IF i < b.count THEN b.value[i] = {p + i} ELSE b.value[i] \subseteq {p + i}
    BY DEF Holds
  <2> HIDE DEF v
  <2> QED
    BY <1>3, <2>1, <2>2
<1> HIDE DEF v
<1>6. m \in Bits
  BY <1>1, <1>4 DEF Bits
<1>7. Holds(m, p) /\ Clean(m)
  BY <1>2, <1>5 DEF Holds, Clean
<1> QED
  BY <1>6, <1>7 DEF v

LEMMA SettleHolds ==
  ASSUME NEW b \in Bits, NEW p \in Nat, Holds(b, p)
  PROVE  Settle(b) \in Bits /\ Settle(b).count = b.count /\ Holds(Settle(b), p) /\ Clean(Settle(b))
<1>1. b.count \in 0 .. b.count
  BY WordHolds DEF Bits
<1>2. Settle(b) = [value |-> Masked(b.value, b.count), count |-> b.count]
  BY DEF Settle, Bits
<1>3. LET m == [value |-> Masked(b.value, b.count), count |-> b.count]
      IN  m \in Bits /\ Holds(m, p) /\ Clean(m)
  BY <1>1, MaskHolds
<1>4. Settle(b).count = b.count
  BY <1>2
<1> QED
  BY <1>2, <1>3, <1>4

(* Whole bytes of this call that are not needed go back: all of them, or all
   that the call accepted. *)
LEMMA UnreadBytes ==
  ASSUME NEW b \in Bits, NEW n \in Nat
  PROVE  LET u == Unread(b, n)
         IN  /\ u \in Nat /\ u <= n /\ u * ByteBits <= b.count
             /\ u = n \/ b.count - u * ByteBits < ByteBits
<1>1. b.count \in 0 .. Word - 1 /\ Word \in Nat /\ ByteBits \in Nat /\ WordBytes \in Nat
  BY WordHolds, BitsAssumption DEF Bits
<1> DEFINE w == b.count \div ByteBits
           u == Unread(b, n)
           r == b.count % ByteBits
<1>2. w \in Nat /\ r \in 0 .. ByteBits - 1 /\ b.count = w * ByteBits + r
  BY <1>1, WholeBytes
<1>3. u = Least(w, Least(n, WordBytes))
  BY DEF Unread
<1> HIDE DEF w, u, r
<1>4. w * ByteBits \in Int
  BY <1>2, Distribute
<1>5. w < WordBytes
  <2> SUFFICES ASSUME WordBytes <= w PROVE FALSE
    BY <1>1, <1>2
  <2>1. WordBytes * ByteBits <= w * ByteBits /\ WordBytes * ByteBits = Word
    BY <1>1, <1>2, Distribute DEF Word
  <2> QED
    BY <1>1, <1>2, <1>4, <2>1
<1>6. u \in Nat /\ u <= n /\ u <= w /\ (u = n \/ u = w)
  BY <1>1, <1>2, <1>3, <1>5 DEF Least
<1>7. u * ByteBits <= w * ByteBits /\ u * ByteBits \in Int
  <2>1. u \in Int /\ w \in Int /\ u <= w
    BY <1>2, <1>6
  <2> QED
    BY <2>1, Distribute
<1>8. u * ByteBits <= b.count
  BY <1>1, <1>2, <1>4, <1>7
<1>9. u = w => b.count - u * ByteBits < ByteBits
  BY <1>1, <1>2, <1>4
<1> QED
  BY <1>6, <1>8, <1>9 DEF u

LEMMA ReturnedHolds ==
  ASSUME NEW b \in Bits, NEW p \in Nat, Holds(b, p), NEW n \in Nat, n * ByteBits <= b.count
  PROVE  /\ Returned(b, n) \in Bits /\ Returned(b, n).count = b.count - n * ByteBits
         /\ Holds(Returned(b, n), p) /\ Clean(Returned(b, n))
<1> DEFINE c == b.count - n * ByteBits
<1>1. b.count \in 0 .. Word - 1 /\ Word \in Nat /\ n * ByteBits \in Nat
  BY WordHolds, BitsAssumption DEF Bits
<1>2. c \in 0 .. b.count /\ c < Word
  BY <1>1
<1>3. Returned(b, n) = [value |-> Masked(b.value, c), count |-> c]
  BY <1>2 DEF Returned
<1> HIDE DEF c
<1>4. LET m == [value |-> Masked(b.value, c), count |-> c]
      IN  m \in Bits /\ Holds(m, p) /\ Clean(m)
  BY <1>2, MaskHolds
<1>5. Returned(b, n).count = c
  BY <1>3
<1> QED
  BY <1>3, <1>4, <1>5 DEF c

-----------------------------------------------------------------------------
(* The session.  ReservoirIsTheStream is not inductive: a byte run may bypass
   the reservoir because no bit is in it, a new member may empty it for the
   same reason, and that reason is where the bits in it came from.           *)

Totals == [in : Nat, out : Nat, members : Nat, finalEnd : Nat, finishing : BOOLEAN,
           boundary : BOOLEAN, finished : BOOLEAN, failed : BOOLEAN]
Calls  == [len : Nat, consumed : Nat, room : Nat, produced : Nat]

SessionTypes ==
  /\ pc \in {"idle", "run"} /\ op \in Totals /\ call \in Calls /\ call.consumed <= call.len
  /\ open => /\ wire \in Wires /\ limit \in Nat /\ exact \in Nat /\ bits \in Bits
             /\ member \in Nat /\ item \in Nat /\ left \in Nat /\ pos \in Nat

(* Without a session nothing is left of one but the workspace; a call runs
   in a sound one. *)
Lifetimes ==
  /\ ~open => pc = "idle" /\ op = NewOperation
  /\ pc = "run" => ~op.failed

(* Bytes of the call in progress, which the totals do not count yet. *)
Fresh == IF pc = "run" THEN call.consumed ELSE 0

Position == pos + bits.count = (op.in + Fresh) * ByteBits

Contents == Holds(bits, pos) /\ (pc = "idle" \/ op.boundary => Clean(bits))

(* What stands before a run of bytes, and at a member's end. *)
OnByte ==
  /\ Current.op \in {"raw", "skip"} => \E k \in Nat : bits.count = k * ByteBits
  /\ op.boundary => bits.count = 0

(* Earlier calls left bits only of an item that lacks some, or of the byte
   in progress: whatever else is buffered was accepted by this call, which
   can hand it back. *)
Carried(k) == k < ByteBits \/ (~op.boundary /\ Current.op \in Bitwise /\ k < Current.n)
Carry == ~op.failed => Carried(bits.count - Fresh * ByteBits)

SessionInv ==
  /\ SessionTypes /\ Lifetimes
  /\ open => Position /\ Contents /\ OnByte /\ Carry

-----------------------------------------------------------------------------
(* Items. *)

LEMMA ElementOf ==
  ASSUME NEW S, NEW s \in Seq(S), NEW i \in DOMAIN s
  PROVE  s[i] \in S
  OBVIOUS

LEMMA ItemTypes ==
  ASSUME wire \in Wires, NEW m, NEW i
  PROVE  /\ ItemAt(m, i) = End \/ ItemAt(m, i) \in [op : Ops, n : 0 .. MAX_PEEK]
         /\ ItemAt(m, i).n \in 0 .. MAX_PEEK
         /\ ItemAt(m, i).op \in Ops \cup {"end"}
<1>1. MAX_PEEK \in Nat
  BY WordHolds, BitsAssumption
<1>2. End.n = 0 /\ End.op = "end"
  BY DEF End, Item
<1>3. CASE m \in DOMAIN wire /\ i \in DOMAIN wire[m]
  <2>1. wire \in Seq(Seq([op : Ops, n : 0 .. MAX_PEEK]))
    BY SessionAssumption
  <2>2. wire[m] \in Seq([op : Ops, n : 0 .. MAX_PEEK])
    BY <1>3, <2>1, ElementOf
  <2>3. wire[m][i] \in [op : Ops, n : 0 .. MAX_PEEK]
    BY <1>3, <2>2, ElementOf
  <2>4. ItemAt(m, i) = wire[m][i]
    BY <1>3 DEF ItemAt
  <2> QED
    BY <2>3, <2>4
<1>4. CASE ~ (m \in DOMAIN wire /\ i \in DOMAIN wire[m])
  <2>1. ItemAt(m, i) = End
    BY <1>4, Zenon DEF ItemAt
  <2> QED
    BY <1>1, <1>2, <2>1
<1> QED
  BY <1>3, <1>4

(* A run of bytes comes after padding. *)
LEMMA RunsAreAligned ==
  ASSUME wire \in Wires, NEW m, NEW i \in Nat
  PROVE  /\ ItemAt(m, i + 1).op \in {"raw", "skip"} => ItemAt(m, i).op = "align"
         /\ ItemAt(m, 1).op \notin {"raw", "skip"}
<1>1. wire \in Seq(Seq([op : Ops, n : 0 .. MAX_PEEK]))
  BY SessionAssumption
<1>2. ASSUME NEW j \in Int, ItemAt(m, j).op \in {"raw", "skip"}
      PROVE  j > 1 /\ ItemAt(m, j - 1).op = "align"
  <2>1. m \in DOMAIN wire /\ j \in DOMAIN wire[m] /\ ItemAt(m, j) = wire[m][j]
    BY <1>2 DEF ItemAt, End, Item
  <2>2. j > 1 /\ wire[m][j - 1].op = "align"
    BY <1>2, <2>1, SessionAssumption
  <2>3. wire[m] \in Seq([op : Ops, n : 0 .. MAX_PEEK])
    BY <1>1, <2>1
  <2>4. DOMAIN wire[m] = 1 .. Len(wire[m]) /\ Len(wire[m]) \in Nat
    BY <2>3
  <2>5. j - 1 \in DOMAIN wire[m]
    BY <2>1, <2>2, <2>4
  <2>6. ItemAt(m, j - 1) = wire[m][j - 1]
    BY <2>1, <2>5 DEF ItemAt
  <2> QED
    BY <2>2, <2>6
<1>3. ItemAt(m, i + 1).op \in {"raw", "skip"} => ItemAt(m, i).op = "align"
  <2>1. i + 1 \in Int /\ (i + 1) - 1 = i
    OBVIOUS
  <2> QED
    BY <1>2, <2>1
<1>4. ItemAt(m, 1).op \notin {"raw", "skip"}
  BY <1>2
<1> QED
  BY <1>3, <1>4

(* The byte after those the session has accepted. *)
LEMMA NextByte ==
  ASSUME SessionInv, open, pc = "run"
  PROVE  /\ op.in + call.consumed \in Nat
         /\ (op.in + call.consumed) * ByteBits = pos + bits.count
         /\ Have \in Nat /\ Have = call.len - call.consumed
         /\ FastEnd(op.in + call.consumed, Have, limit) \in 0 .. Have
<1>1. op.in \in Nat /\ call.consumed \in Nat /\ call.len \in Nat /\ call.consumed <= call.len /\ limit \in Nat
  BY DEF SessionInv, SessionTypes, Totals, Calls
<1>2. (op.in + call.consumed) * ByteBits = pos + bits.count
  BY DEF SessionInv, Position, Fresh
<1>3. Have \in Nat /\ Have = call.len - call.consumed
  BY <1>1 DEF Have
<1>4. FastEnd(op.in + call.consumed, Have, limit) \in 0 .. Have
  BY <1>1, <1>3 DEF FastEnd, Least
<1> QED
  BY <1>1, <1>2, <1>3, <1>4

(* peek: the bytes a field of n bits needs, as far as they are there. *)
LEMMA PeekHolds ==
  ASSUME SessionInv, open, pc = "run", NEW n \in 0 .. MAX_PEEK
  PROVE  /\ Loaded(n) \in Nat /\ Loaded(n) <= Have
         /\ Peeked(n) \in Bits /\ Peeked(n).count = bits.count + Loaded(n) * ByteBits
         /\ Holds(Peeked(n), pos)
         /\ IF Loaded(n) < Missing(n) THEN Peeked(n).count < n ELSE n <= Peeked(n).count
<1> DEFINE k == Loaded(n)
           m == Missing(n)
           c == bits.count
           byte == op.in + call.consumed
<1>1. /\ bits \in Bits /\ c \in Nat /\ c < Word /\ pos \in Nat /\ Holds(bits, pos)
      /\ ByteBits \in Nat /\ n \in Nat /\ n <= Word - ByteBits /\ Word \in Nat
  BY WordHolds, BitsAssumption DEF SessionInv, SessionTypes, Contents, Bits
<1>2. byte \in Nat /\ byte * ByteBits = pos + c /\ Have \in Nat /\ FastEnd(byte, Have, limit) \in 0 .. Have
  BY NextByte
<1>3. m \in Nat /\ (n <= c => m = 0) /\ (c < n => n - c <= m * ByteBits /\ m * ByteBits < (n - c) + ByteBits)
  <2>1. CASE n <= c
    BY <1>1, <2>1 DEF Missing
  <2>2. CASE c < n
    <3>1. n - c \in Nat /\ m = Bytes(n - c)
      BY <1>1, <2>2 DEF Missing
    <3> QED
      BY <2>2, <3>1, <1>1, BytesHold
  <2> QED
    BY <1>1, <2>1, <2>2
<1>4. k = Least(m, FastEnd(byte, Have, limit))
  BY DEF Loaded
<1>5. Peeked(n) = Load(bits, byte, k)
  BY DEF Peeked
<1> HIDE DEF k, m, c, byte
<1>6. k \in Nat /\ k <= Have /\ k <= m /\ (~ k < m => k = m)
  BY <1>2, <1>3, <1>4 DEF Least
<1>7. k * ByteBits \in Int /\ m * ByteBits \in Int /\ k * ByteBits <= m * ByteBits
      /\ (k < m => k * ByteBits + ByteBits <= m * ByteBits)
  <2>1. k \in Int /\ m \in Int
    BY <1>3, <1>6
  <2> QED
    BY <1>6, <2>1, Distribute
<1>8. n <= c => k = 0 /\ k * ByteBits = 0
  BY <1>1, <1>3, <1>6
<1>9. c + k * ByteBits < Word
  <2>1. CASE n <= c
    BY <1>1, <1>8, <2>1
  <2>2. CASE c < n
    BY <1>1, <1>3, <1>7, <2>2
  <2> QED
    BY <1>1, <2>1, <2>2
<1>10. k < m => c + k * ByteBits < n
  <2> SUFFICES ASSUME k < m PROVE c + k * ByteBits < n
    OBVIOUS
  <2>1. c < n
    BY <1>1, <1>3, <1>6
  <2> QED
    BY <1>1, <1>3, <1>7, <2>1
<1>11. ~ k < m => n <= c + k * ByteBits
  <2> SUFFICES ASSUME ~ k < m PROVE n <= c + k * ByteBits
    OBVIOUS
  <2>1. k = m
    BY <1>6
  <2> QED
    BY <1>1, <1>3, <1>7, <1>8, <2>1
<1>12. /\ Load(bits, byte, k) \in Bits /\ Load(bits, byte, k).count = c + k * ByteBits
       /\ Holds(Load(bits, byte, k), pos)
  BY <1>1, <1>2, <1>6, <1>9, LoadHolds DEF c
<1> QED
  BY <1>5, <1>6, <1>10, <1>11, <1>12 DEF k, m, c, byte

-----------------------------------------------------------------------------
(* Steps of a call. *)

(* A call returns with reservoir b and progress c. *)
LEMMA Returns ==
  ASSUME SessionInv, open, pc = "run", NEW status, NEW o \in Totals, NEW c \in Calls, NEW b \in Bits,
         bits' = b, Return(status, o, c), UNCHANGED policyVars, UNCHANGED stageVars,
         o.in = op.in, o.boundary = op.boundary, c.consumed <= c.len,
         Holds(b, pos), Clean(b), pos + b.count = (op.in + c.consumed) * ByteBits,
         Current.op \in {"raw", "skip"} => \E k \in Nat : b.count = k * ByteBits,
         op.boundary => b.count = 0,
         status \in {"NeedsInput", "NeedsOutput", "Finished"} => Carried(b.count)
  PROVE  SessionInv'
<1>1. /\ pc' = "idle" /\ call' = c
      /\ op' = [o EXCEPT !.in = @ + c.consumed, !.out = @ + c.produced,
                         !.failed = status \notin {"NeedsInput", "NeedsOutput", "Finished"}]
  BY DEF Return
<1>2. UNCHANGED <<wire, limit, exact, open, member, item, left, pos>>
  BY DEF policyVars, stageVars
<1>3. /\ o.in + c.consumed \in Nat /\ o.out + c.produced \in Nat
      /\ (status \notin {"NeedsInput", "NeedsOutput", "Finished"}) \in BOOLEAN
  BY DEF Totals, Calls
<1>4. /\ op' \in Totals /\ op'.in = op.in + c.consumed /\ op'.boundary = op.boundary
      /\ op'.failed = (status \notin {"NeedsInput", "NeedsOutput", "Finished"})
  BY <1>1, <1>3 DEF Totals
<1>5. SessionTypes'
  BY <1>1, <1>2, <1>4 DEF SessionInv, SessionTypes
<1>6. Lifetimes'
  BY <1>1, <1>2 DEF Lifetimes
<1>7. Fresh' = 0 /\ Current' = Current
  BY <1>1, <1>2 DEF Fresh, Current, ItemAt
<1>8. Position'
  <2>1. (op'.in + 0) = op.in + c.consumed
    BY <1>4 DEF SessionInv, SessionTypes, Totals, Calls
  <2> QED
    BY <1>2, <1>7, <2>1 DEF Position
<1>9. Contents'
  <2>1. Holds(b, pos)' /\ Clean(b)'
    BY <1>2 DEF Holds, Clean
  <2> QED
    BY <1>2, <2>1 DEF Contents, Holds, Clean
<1>10. OnByte'
  BY <1>4, <1>7 DEF OnByte
<1>11. Carry'
  <2>1. b.count - 0 * ByteBits = b.count
    BY BitsAssumption, WordHolds DEF Bits
  <2>2. ~op'.failed => Carried(b.count)
    BY <1>4, Zenon
  <2>3. ~op'.failed => Carried(b.count)'
    BY <1>4, <1>7, <2>2 DEF Carried
  <2> QED
    BY <1>7, <2>1, <2>3 DEF Carry, Carried
<1> QED
  BY <1>2, <1>5, <1>6, <1>8, <1>9, <1>10, <1>11 DEF SessionInv

(* A call goes on. *)
LEMMA Moves ==
  ASSUME SessionInv, open, pc = "run", ~op.boundary, UNCHANGED policyVars, pc' = pc, op' = op,
         bits' \in Bits, call' \in Calls, call'.consumed <= call'.len,
         pos' \in Nat, member' \in Nat, item' \in Nat, left' \in Nat,
         Holds(bits', pos'), pos' + bits'.count = (op.in + call'.consumed) * ByteBits,
         Current'.op \in {"raw", "skip"} => \E k \in Nat : bits'.count = k * ByteBits,
         \/ bits'.count - call'.consumed * ByteBits < ByteBits
         \/ Current'.op \in Bitwise /\ bits'.count - call'.consumed * ByteBits < Current'.n
  PROVE  SessionInv'
<1>1. UNCHANGED <<wire, limit, exact, open>>
  BY DEF policyVars
<1>2. SessionTypes'
  BY <1>1 DEF SessionInv, SessionTypes
<1>3. Lifetimes'
  BY <1>1 DEF SessionInv, Lifetimes
<1>4. Fresh' = call'.consumed
  BY DEF Fresh
<1>5. Position'
  BY <1>4 DEF Position
<1>6. Contents'
  BY DEF Contents, Holds
<1>7. OnByte'
  BY DEF OnByte
<1>8. Carry'
  BY <1>4 DEF Carry, Carried
<1> QED
  BY <1>1, <1>2, <1>3, <1>5, <1>6, <1>7, <1>8 DEF SessionInv

(* The facts of a call in progress. *)
LEMMA InCall ==
  ASSUME SessionInv, pc = "run"
  PROVE  /\ open /\ ~op.failed /\ op \in Totals /\ call \in Calls /\ call.consumed <= call.len
         /\ wire \in Wires /\ limit \in Nat /\ exact \in Nat /\ bits \in Bits
         /\ member \in Nat /\ item \in Nat /\ left \in Nat /\ pos \in Nat
         /\ pos + bits.count = (op.in + call.consumed) * ByteBits
         /\ Holds(bits, pos) /\ (op.boundary => Clean(bits))
         /\ OnByte /\ Carried(bits.count - call.consumed * ByteBits)
         /\ bits.count \in Nat /\ call.consumed * ByteBits \in Nat /\ op.in \in Nat /\ call.consumed \in Nat
<1>1. open /\ ~op.failed
  BY DEF SessionInv, Lifetimes
<1>2. SessionTypes /\ Position /\ Contents /\ OnByte /\ Carry /\ Fresh = call.consumed
  BY <1>1 DEF SessionInv, Fresh
<1>3. op.in \in Nat /\ call.consumed \in Nat /\ bits.count \in Nat
  BY <1>1, <1>2, WordHolds DEF SessionTypes, Totals, Calls, Bits
<1>4. call.consumed * ByteBits \in Nat
  BY <1>3, BitsAssumption
<1> QED
  BY <1>1, <1>2, <1>3, <1>4 DEF SessionTypes, Position, Contents, Carry

(* k more bytes of the call's slice. *)
LEMMA AcceptingBytes ==
  ASSUME SessionInv, pc = "run", NEW k \in Nat, k <= Have
  PROVE  /\ Accepting(k) \in Calls /\ Accepting(k).consumed = call.consumed + k
         /\ Accepting(k).len = call.len /\ Accepting(k).produced = call.produced
         /\ Accepting(k).consumed <= Accepting(k).len
         /\ (op.in + (call.consumed + k)) * ByteBits = (op.in + call.consumed) * ByteBits + k * ByteBits
         /\ (call.consumed + k) * ByteBits = call.consumed * ByteBits + k * ByteBits
         /\ k * ByteBits \in Nat
<1>1. call \in Calls /\ op.in \in Nat /\ call.consumed \in Nat /\ call.len \in Nat /\ Have = call.len - call.consumed
  BY InCall DEF Calls, Have
<1>2. call.consumed + k \in Nat /\ call.consumed + k <= call.len
  BY <1>1
<1>3. Accepting(k) = [call EXCEPT !.consumed = call.consumed + k]
  BY DEF Accepting
<1>4. /\ Accepting(k) \in Calls /\ Accepting(k).consumed = call.consumed + k
      /\ Accepting(k).len = call.len /\ Accepting(k).produced = call.produced
  BY <1>1, <1>2, <1>3 DEF Calls
<1>5. k \in Int /\ call.consumed \in Int /\ op.in + call.consumed \in Int /\ k * ByteBits \in Nat
  BY <1>1, BitsAssumption
<1>6. /\ (call.consumed + k) * ByteBits = call.consumed * ByteBits + k * ByteBits
      /\ ((op.in + call.consumed) + k) * ByteBits = (op.in + call.consumed) * ByteBits + k * ByteBits
  BY <1>5, Distribute
<1>7. (op.in + call.consumed) + k = op.in + (call.consumed + k)
  BY <1>1
<1> QED
  BY <1>2, <1>4, <1>5, <1>6, <1>7

(* peek did not get its bits. *)
LEMMA ShortStops ==
  ASSUME SessionInv, pc = "run", ~op.boundary, NEW n \in 0 .. MAX_PEEK, Loaded(n) < Missing(n), ShortOf(n),
         \/ n = ByteBits /\ Current.op \in {"raw", "skip"}
         \/ Current.op \in Bitwise /\ n = Current.n
  PROVE  SessionInv'
<1> DEFINE k == Loaded(n)
           b == Settle(Peeked(n))
           c == Accepting(Loaded(n))
<1>1. /\ k \in Nat /\ k <= Have /\ Peeked(n) \in Bits /\ Peeked(n).count = bits.count + k * ByteBits
      /\ Holds(Peeked(n), pos) /\ Peeked(n).count < n
  BY InCall, PeekHolds
<1>2. /\ c \in Calls /\ c.consumed = call.consumed + k /\ c.consumed <= c.len
      /\ (op.in + (call.consumed + k)) * ByteBits = (op.in + call.consumed) * ByteBits + k * ByteBits
      /\ k * ByteBits \in Nat
  BY <1>1, AcceptingBytes
<1>3. pos \in Nat /\ bits.count \in Nat /\ pos + bits.count = (op.in + call.consumed) * ByteBits /\ op \in Totals
      /\ OnByte /\ open
  BY InCall
<1>4. b \in Bits /\ b.count = bits.count + k * ByteBits /\ Holds(b, pos) /\ Clean(b)
  BY <1>1, <1>3, SettleHolds
<1>5. \E st : bits' = b /\ Return(st, op, c) /\ UNCHANGED policyVars /\ UNCHANGED stageVars
  BY DEF ShortOf, StopInput, Fail
<1> HIDE DEF b, c
<1>6. PICK st : bits' = b /\ Return(st, op, c) /\ UNCHANGED policyVars /\ UNCHANGED stageVars
  BY <1>5
<1>7. pos + b.count = (op.in + c.consumed) * ByteBits
  BY <1>2, <1>3, <1>4
<1>8. Current.op \in {"raw", "skip"} => \E j \in Nat : b.count = j * ByteBits
  <2> SUFFICES ASSUME Current.op \in {"raw", "skip"} PROVE \E j \in Nat : b.count = j * ByteBits
    OBVIOUS
  <2>1. PICK j \in Nat : bits.count = j * ByteBits
    BY <1>3 DEF OnByte
  <2>2. (j + k) * ByteBits = j * ByteBits + k * ByteBits /\ j + k \in Nat
    <3>1. j \in Int /\ k \in Int /\ j + k \in Nat
      BY <1>1
    <3> QED
      BY <3>1, Distribute
  <2> QED
    BY <1>4, <2>1, <2>2
<1>9. Carried(b.count)
  BY <1>1, <1>4 DEF Carried
<1> QED
  BY <1>2, <1>3, <1>4, <1>6, <1>7, <1>8, <1>9, Returns

(* peek got n bits, and they are taken. *)
LEMMA TakesBits ==
  ASSUME SessionInv, pc = "run", ~op.boundary, NEW n \in 0 .. MAX_PEEK, ~ Loaded(n) < Missing(n),
         Current.op \in Bitwise => n = Current.n
  PROVE  LET d == Drop(Peeked(n), n)
             k == Loaded(n)
         IN  /\ k \in Nat /\ k <= Have /\ k * ByteBits \in Nat
             /\ d \in Bits /\ Holds(d, pos + n)
             /\ d.count = (bits.count + k * ByteBits) - n
             /\ (pos + n) + d.count = (op.in + (call.consumed + k)) * ByteBits
             /\ d.count - (call.consumed + k) * ByteBits < ByteBits
<1> DEFINE d == Drop(Peeked(n), n)
           k == Loaded(n)
<1>1. /\ k \in Nat /\ k <= Have /\ Peeked(n) \in Bits /\ Peeked(n).count = bits.count + k * ByteBits
      /\ Holds(Peeked(n), pos) /\ n <= Peeked(n).count
  BY InCall, PeekHolds
<1>2. /\ (op.in + (call.consumed + k)) * ByteBits = (op.in + call.consumed) * ByteBits + k * ByteBits
      /\ (call.consumed + k) * ByteBits = call.consumed * ByteBits + k * ByteBits
      /\ k * ByteBits \in Nat
  BY <1>1, AcceptingBytes
<1>3. /\ pos \in Nat /\ bits.count \in Nat /\ pos + bits.count = (op.in + call.consumed) * ByteBits
      /\ Carried(bits.count - call.consumed * ByteBits) /\ call.consumed * ByteBits \in Nat
  BY InCall
<1>4. n \in 0 .. Peeked(n).count /\ n \in Nat
  BY <1>1, WordHolds DEF Bits
<1>5. d \in Bits /\ d.count = Peeked(n).count - n /\ Holds(d, pos + n)
  BY <1>1, <1>3, <1>4, DropHolds
<1> HIDE DEF d, k
<1>6. d.count = (bits.count + k * ByteBits) - n
  BY <1>1, <1>5
<1>7. (pos + n) + d.count = (op.in + (call.consumed + k)) * ByteBits
  BY <1>2, <1>3, <1>4, <1>6
<1>8. ByteBits \in Nat /\ ByteBits > 1
  BY BitsAssumption
<1>9. bits.count - call.consumed * ByteBits < ByteBits \/ bits.count - call.consumed * ByteBits < n
  BY <1>3 DEF Carried
<1>10. d.count - (call.consumed + k) * ByteBits < ByteBits
  <2>1. d.count - (call.consumed + k) * ByteBits = (bits.count - call.consumed * ByteBits) - n
    BY <1>2, <1>3, <1>4, <1>6
  <2>2. bits.count - call.consumed * ByteBits \in Int
    BY <1>3
  <2> QED
    BY <1>4, <1>8, <1>9, <2>1, <2>2
<1> QED
  BY <1>1, <1>2, <1>5, <1>6, <1>7, <1>10 DEF d, k

(* What follows an item that is no padding is no run of bytes. *)
LEMMA AdvanceTypes ==
  ASSUME SessionInv, pc = "run", item' = item + 1, left' = ItemAt(member, item + 1).n, member' = member,
         UNCHANGED policyVars
  PROVE  /\ item' \in Nat /\ left' \in Nat /\ member' \in Nat
         /\ Current.op # "align" => Current'.op \notin {"raw", "skip"}
<1>1. wire \in Wires /\ item \in Nat /\ member \in Nat /\ wire' = wire
  BY InCall DEF policyVars
<1>2. MAX_PEEK \in Nat
  BY WordHolds, BitsAssumption
<1>3. left' \in Nat
  BY <1>1, <1>2, ItemTypes
<1>4. Current' = ItemAt(member, item + 1)
  BY <1>1 DEF Current, ItemAt
<1>5. Current = ItemAt(member, item)
  BY DEF Current
<1>6. ItemAt(member, item + 1).op \in {"raw", "skip"} => ItemAt(member, item).op = "align"
  BY <1>1, RunsAreAligned
<1> QED
  BY <1>1, <1>3, <1>4, <1>5, <1>6

LEMMA CurrentTypes ==
  ASSUME SessionInv, pc = "run"
  PROVE  Current.n \in 0 .. MAX_PEEK /\ Current.n \in Nat /\ Current.op \in Ops \cup {"end"}
<1>1. Current = ItemAt(member, item) /\ wire \in Wires
  BY InCall DEF Current
<1>2. MAX_PEEK \in Nat
  BY WordHolds, BitsAssumption
<1> QED
  BY <1>1, <1>2, ItemTypes

LEMMA FieldStep == ASSUME SessionInv, ReadBits \/ Literal PROVE SessionInv'
<1> DEFINE n == Current.n
<1>1. pc = "run" /\ ~op.boundary /\ Current.op \in Bitwise
  BY DEF ReadBits, Literal, At, Bitwise
<1>2. n \in 0 .. MAX_PEEK /\ n \in Nat
  BY <1>1, CurrentTypes
<1>3. CASE Loaded(n) < Missing(n)
  <2>1. ShortOf(n)
    BY <1>3 DEF ReadBits, Literal
  <2> QED
    BY <1>1, <1>2, <1>3, <2>1, ShortStops
<1>4. CASE ~ Loaded(n) < Missing(n)
  <2> DEFINE d == Drop(Peeked(n), n)
             k == Loaded(n)
             a == Accepting(k)
  <2>1. /\ bits' = d /\ Advance /\ UNCHANGED policyVars /\ pc' = pc /\ op' = op
        /\ call' = a \/ call' = [a EXCEPT !.produced = @ + 1]
    BY <1>4 DEF ReadBits, Literal
  <2>2. /\ k \in Nat /\ k <= Have /\ d \in Bits /\ Holds(d, pos + n)
        /\ (pos + n) + d.count = (op.in + (call.consumed + k)) * ByteBits
        /\ d.count - (call.consumed + k) * ByteBits < ByteBits
    BY <1>1, <1>2, <1>4, TakesBits
  <2>3. a \in Calls /\ a.consumed = call.consumed + k /\ a.consumed <= a.len
    BY <1>1, <2>2, AcceptingBytes
  <2> HIDE DEF d, a
  <2>4. call' \in Calls /\ call'.consumed = call.consumed + k /\ call'.consumed <= call'.len
    BY <2>1, <2>3 DEF Calls
  <2>5. pos' = pos + n /\ item' = item + 1 /\ left' = ItemAt(member, item + 1).n /\ member' = member
    <3>1. After(pos, Current) = pos + n
      BY <1>1 DEF After, Bitwise
    <3> QED
      BY <2>1, <3>1 DEF Advance
  <2>6. /\ item' \in Nat /\ left' \in Nat /\ member' \in Nat /\ Current'.op \notin {"raw", "skip"}
    BY <1>1, <2>1, <2>5, AdvanceTypes DEF Bitwise
  <2>7. pos' \in Nat /\ open
    BY <1>1, <1>2, <2>5, InCall
  <2> QED
    BY <1>1, <2>1, <2>2, <2>4, <2>5, <2>6, <2>7, Moves
<1> QED
  BY <1>3, <1>4

LEMMA ReadAheadStep == ASSUME SessionInv, ReadAhead PROVE SessionInv'
<1> DEFINE k == Accepted(bits)
           byte == op.in + call.consumed
           r == Refill(bits, byte)
<1>1. /\ pc = "run" /\ ~op.boundary /\ Current.op \in Fast /\ WordFits
      /\ bits' = r /\ call' = Accepting(k) /\ UNCHANGED policyVars /\ pc' = pc /\ op' = op /\ UNCHANGED stageVars
  BY DEF ReadAhead, At
<1>2. open /\ bits \in Bits /\ pos \in Nat /\ Holds(bits, pos)
  BY <1>1, InCall
<1>3. byte \in Nat /\ byte * ByteBits = pos + bits.count /\ FastEnd(byte, Have, limit) \in 0 .. Have /\ Have \in Nat
  BY <1>1, <1>2, NextByte
<1>4. k \in Nat /\ k <= WordBytes /\ WordBytes \in Nat
  BY <1>2, AcceptedFits, BitsAssumption
<1>5. k <= Have
  BY <1>1, <1>3, <1>4 DEF WordFits
<1>6. r \in Bits /\ r.count = bits.count + k * ByteBits /\ Holds(r, pos)
  BY <1>2, <1>3, RefillHolds
<1>7. /\ Accepting(k) \in Calls /\ Accepting(k).consumed = call.consumed + k
      /\ Accepting(k).consumed <= Accepting(k).len
      /\ (op.in + (call.consumed + k)) * ByteBits = (op.in + call.consumed) * ByteBits + k * ByteBits
      /\ (call.consumed + k) * ByteBits = call.consumed * ByteBits + k * ByteBits
      /\ k * ByteBits \in Nat
  BY <1>1, <1>4, <1>5, AcceptingBytes
<1> HIDE DEF k, byte, r
<1>8. /\ bits.count \in Nat /\ pos + bits.count = (op.in + call.consumed) * ByteBits
      /\ Carried(bits.count - call.consumed * ByteBits) /\ call.consumed * ByteBits \in Nat
      /\ member \in Nat /\ item \in Nat /\ left \in Nat
  BY <1>1, InCall
<1>9. UNCHANGED <<member, item, left, pos>> /\ Current' = Current
  BY <1>1 DEF stageVars, policyVars, Current, ItemAt
<1>10. pos' + bits'.count = (op.in + call'.consumed) * ByteBits
  BY <1>1, <1>2, <1>6, <1>7, <1>8, <1>9
<1>11. bits'.count - call'.consumed * ByteBits = bits.count - call.consumed * ByteBits
  BY <1>1, <1>6, <1>7, <1>8
<1>12. \/ bits'.count - call'.consumed * ByteBits < ByteBits
       \/ Current'.op \in Bitwise /\ bits'.count - call'.consumed * ByteBits < Current'.n
  BY <1>8, <1>9, <1>11 DEF Carried
<1>13. Current'.op \notin {"raw", "skip"}
  BY <1>1, <1>9 DEF Fast
<1> QED
  BY <1>1, <1>2, <1>6, <1>7, <1>8, <1>9, <1>10, <1>12, <1>13, Moves

(* Steps that leave the reservoir and the slice's input alone. *)
LEMMA OutputMoves ==
  ASSUME SessionInv, pc = "run", ~op.boundary, Current.op \notin Bitwise,
         UNCHANGED policyVars, pc' = pc, op' = op, bits' = bits, pos' = pos, member' = member,
         call' \in Calls, call'.consumed = call.consumed, call'.len = call.len,
         item' \in Nat, left' \in Nat, item' = item \/ Current'.op \notin {"raw", "skip"}
  PROVE  SessionInv'
<1>1. /\ open /\ bits \in Bits /\ pos \in Nat /\ member \in Nat /\ Holds(bits, pos)
      /\ pos + bits.count = (op.in + call.consumed) * ByteBits /\ OnByte
      /\ Carried(bits.count - call.consumed * ByteBits) /\ call.consumed <= call.len
  BY InCall
<1>2. bits.count - call.consumed * ByteBits < ByteBits
  BY <1>1 DEF Carried
<1>3. Current'.op \in {"raw", "skip"} => \E k \in Nat : bits'.count = k * ByteBits
  <2>1. CASE item' = item
    <3>1. Current' = Current
      BY <2>1 DEF Current, ItemAt, policyVars
    <3> QED
      BY <1>1, <3>1 DEF OnByte
  <2>2. CASE Current'.op \notin {"raw", "skip"}
    BY <2>2
  <2> QED
    BY <2>1, <2>2
<1>4. /\ bits' \in Bits /\ call'.consumed <= call'.len /\ pos' \in Nat /\ member' \in Nat /\ Holds(bits', pos')
      /\ pos' + bits'.count = (op.in + call'.consumed) * ByteBits
      /\ bits'.count - call'.consumed * ByteBits < ByteBits
  BY <1>1, <1>2
<1> QED
  BY <1>1, <1>3, <1>4, Moves

LEMMA CopyStep == ASSUME SessionInv, Copy PROVE SessionInv'
<1> DEFINE n == Least(left, Room)
<1>1. /\ pc = "run" /\ ~op.boundary /\ Current.op = "copy" /\ Ready
      /\ left' = left - n /\ call' = [call EXCEPT !.produced = @ + n]
      /\ UNCHANGED policyVars /\ pc' = pc /\ op' = op /\ bits' = bits /\ pos' = pos /\ member' = member /\ item' = item
  BY DEF Copy, At
<1>2. left \in Nat /\ exact \in Nat /\ op \in Totals /\ call \in Calls /\ item \in Nat
  BY <1>1, InCall
<1>3. op.out \in Nat /\ call.room \in Nat /\ call.produced \in Nat
  BY <1>2 DEF Totals, Calls
<1>4. Room \in Nat
  BY <1>1, <1>2, <1>3 DEF Ready, TooLong, Full, Room, Least
<1>5. n \in Nat /\ n <= left
  BY <1>2, <1>4 DEF Least
<1> HIDE DEF n
<1>6. left' \in Nat
  BY <1>1, <1>2, <1>5
<1>7. call' \in Calls /\ call'.consumed = call.consumed /\ call'.len = call.len
  BY <1>1, <1>2, <1>3, <1>5 DEF Calls
<1> QED
  BY <1>1, <1>2, <1>6, <1>7, OutputMoves DEF Bitwise

LEMMA ItemDoneStep == ASSUME SessionInv, ItemDone PROVE SessionInv'
<1>1. /\ pc = "run" /\ ~op.boundary /\ Current.op \in {"copy", "raw", "skip"}
      /\ item' = item + 1 /\ left' = ItemAt(member, item + 1).n /\ call' = call
      /\ UNCHANGED policyVars /\ pc' = pc /\ op' = op /\ bits' = bits /\ pos' = pos /\ member' = member
  BY DEF ItemDone, At
<1>2. item' \in Nat /\ left' \in Nat /\ Current'.op \notin {"raw", "skip"}
  BY <1>1, AdvanceTypes
<1>3. call' \in Calls /\ call'.consumed = call.consumed /\ call'.len = call.len
  BY <1>1, InCall
<1>4. Current.op \notin Bitwise
  BY <1>1 DEF Bitwise
<1> QED
  BY <1>1, <1>2, <1>3, <1>4, OutputMoves

(* Padding is dropped: the reservoir then holds whole bytes. *)
LEMMA AlignedHolds ==
  ASSUME SessionInv, pc = "run", Current.op \notin Bitwise
  PROVE  LET a == Aligned(bits)
             p == Bytes(pos) * ByteBits
         IN  /\ a \in Bits /\ p \in Nat /\ Holds(a, p) /\ p + a.count = (op.in + call.consumed) * ByteBits
             /\ a.count = (bits.count \div ByteBits) * ByteBits /\ bits.count \div ByteBits \in Nat
             /\ a.count - call.consumed * ByteBits < ByteBits
<1> DEFINE r == bits.count % ByteBits
           q == bits.count \div ByteBits
           a == Aligned(bits)
           p == Bytes(pos) * ByteBits
<1>1. /\ bits \in Bits /\ pos \in Nat /\ bits.count \in Nat /\ Holds(bits, pos)
      /\ pos + bits.count = (op.in + call.consumed) * ByteBits /\ op.in \in Nat /\ call.consumed \in Nat
      /\ Carried(bits.count - call.consumed * ByteBits) /\ call.consumed * ByteBits \in Nat
  BY InCall
<1>2. r \in 0 .. ByteBits - 1 /\ q \in Nat /\ bits.count = q * ByteBits + r /\ ByteBits \in Nat
  BY <1>1, WholeBytes, BitsAssumption
<1>3. op.in + call.consumed \in Nat
  BY <1>1
<1>4. p = pos + r
  BY <1>1, <1>3, PaddingEnds
<1>5. a = Drop(bits, r)
  BY DEF Aligned
<1>6. q * ByteBits \in Nat
  BY <1>2
<1> HIDE DEF r, q, a, p
<1>7. r \in 0 .. bits.count /\ r \in Nat
  BY <1>2, <1>6
<1>8. a \in Bits /\ a.count = bits.count - r /\ Holds(a, pos + r)
  BY <1>1, <1>5, <1>7, DropHolds
<1>9. a.count = q * ByteBits
  BY <1>2, <1>6, <1>7, <1>8
<1>10. p + a.count = (op.in + call.consumed) * ByteBits /\ p \in Nat /\ Holds(a, p)
  BY <1>1, <1>4, <1>7, <1>8
<1>11. a.count - call.consumed * ByteBits < ByteBits
  <2>1. bits.count - call.consumed * ByteBits < ByteBits
    BY <1>1 DEF Carried
  <2> QED
    BY <1>1, <1>2, <1>7, <1>8, <2>1
<1> QED
  BY <1>2, <1>8, <1>9, <1>10, <1>11 DEF q, a, p

LEMMA AlignStep == ASSUME SessionInv, Align PROVE SessionInv'
<1>1. /\ pc = "run" /\ ~op.boundary /\ Current.op = "align" /\ bits' = Aligned(bits) /\ Advance
      /\ UNCHANGED policyVars /\ pc' = pc /\ op' = op /\ call' = call
  BY DEF Align, At
<1>2. /\ Aligned(bits) \in Bits /\ Bytes(pos) * ByteBits \in Nat /\ Holds(Aligned(bits), Bytes(pos) * ByteBits)
      /\ Bytes(pos) * ByteBits + Aligned(bits).count = (op.in + call.consumed) * ByteBits
      /\ Aligned(bits).count = (bits.count \div ByteBits) * ByteBits /\ bits.count \div ByteBits \in Nat
      /\ Aligned(bits).count - call.consumed * ByteBits < ByteBits
  BY <1>1, AlignedHolds DEF Bitwise
<1>3. pos' = Bytes(pos) * ByteBits
  <2>1. After(pos, Current) = Bytes(pos) * ByteBits
    BY <1>1 DEF After, Bitwise
  <2> QED
    BY <1>1, <2>1 DEF Advance
<1>4. item' = item + 1 /\ left' = ItemAt(member, item + 1).n /\ member' = member
  BY <1>1 DEF Advance
<1>5. item' \in Nat /\ left' \in Nat /\ member' \in Nat
  BY <1>1, <1>4, AdvanceTypes
<1>6. call \in Calls /\ call.consumed <= call.len /\ open
  BY <1>1, InCall
<1>7. \E k \in Nat : bits'.count = k * ByteBits
  BY <1>1, <1>2
<1>8. /\ bits' \in Bits /\ pos' \in Nat /\ Holds(bits', pos')
      /\ pos' + bits'.count = (op.in + call'.consumed) * ByteBits
      /\ bits'.count - call'.consumed * ByteBits < ByteBits
      /\ call' \in Calls /\ call'.consumed <= call'.len
  BY <1>1, <1>2, <1>3, <1>6
<1> QED
  BY <1>1, <1>5, <1>6, <1>7, <1>8, Moves

(* A byte of a run, out of the reservoir. *)
LEMMA ThroughBitsStep ==
  ASSUME SessionInv, pc = "run", ~op.boundary, Current.op \in {"raw", "skip"}, left > 0,
         NEW y \in Nat, ThroughBits(y)
  PROVE  SessionInv'
<1> DEFINE n == ByteBits
<1>1. n \in 0 .. MAX_PEEK /\ n \in Nat
  BY WordHolds, BitsAssumption
<1>2. CASE Loaded(n) < Missing(n)
  <2>1. ShortOf(n)
    BY <1>2 DEF ThroughBits
  <2> QED
    BY <1>1, <1>2, <2>1, ShortStops
<1>3. CASE ~ Loaded(n) < Missing(n)
  <2> DEFINE d == Drop(Peeked(n), n)
             k == Loaded(n)
             a == Accepting(k)
  <2>1. /\ bits' = d /\ call' = [a EXCEPT !.produced = @ + y] /\ left' = left - 1 /\ pos' = pos + n
        /\ UNCHANGED policyVars /\ pc' = pc /\ op' = op /\ member' = member /\ item' = item
    BY <1>3 DEF ThroughBits
  <2>2. /\ k \in Nat /\ k <= Have /\ d \in Bits /\ Holds(d, pos + n)
        /\ d.count = (bits.count + k * ByteBits) - n
        /\ (pos + n) + d.count = (op.in + (call.consumed + k)) * ByteBits
        /\ d.count - (call.consumed + k) * ByteBits < ByteBits
    BY <1>1, <1>3, TakesBits DEF Bitwise
  <2>3. a \in Calls /\ a.consumed = call.consumed + k /\ a.consumed <= a.len
    BY <2>2, AcceptingBytes
  <2>4. /\ left \in Nat /\ item \in Nat /\ member \in Nat /\ pos \in Nat /\ open /\ OnByte /\ d.count \in Nat
    BY <2>2, InCall, WordHolds DEF Bits
  <2>5. \E j \in Nat : d.count = j * ByteBits
    <3>1. PICK j \in Nat : bits.count = j * ByteBits
      BY <2>4 DEF OnByte
    <3>2. /\ (j + k) * ByteBits = j * ByteBits + k * ByteBits
          /\ ((j + k) - 1) * ByteBits = (j + k) * ByteBits - 1 * ByteBits
          /\ j * ByteBits \in Int /\ k * ByteBits \in Int /\ (j + k) \in Int
      <4>1. j \in Int /\ k \in Int /\ j + k \in Int /\ 1 \in Int
        BY <2>2
      <4> QED
        BY <4>1, Distribute
    <3>3. d.count = ((j + k) - 1) * ByteBits
      BY <1>1, <2>2, <3>1, <3>2
    <3>4. j + k >= 1
      <4>1. ~ (j + k < 0 + 1)
        <5> SUFFICES ASSUME j + k < 1 PROVE FALSE
          BY <3>2
        <5>1. j + k = 0
          BY <2>2
        <5>2. (0 - 1) * ByteBits = 0 - ByteBits
          BY <1>1
        <5>3. d.count = 0 - ByteBits
          BY <3>3, <5>1, <5>2
        <5> QED
          BY <2>4, <5>3, BitsAssumption
      <4> QED
        BY <2>2, <4>1
    <3> QED
      BY <2>2, <3>3, <3>4
  <2> HIDE DEF d, a
  <2>6. call' \in Calls /\ call'.consumed = call.consumed + k /\ call'.consumed <= call'.len
    <3>1. a.produced \in Nat /\ a.produced + y \in Nat
      BY <2>3 DEF Calls
    <3> QED
      BY <2>1, <2>3, <3>1 DEF Calls
  <2>7. left' \in Nat /\ item' \in Nat /\ member' \in Nat /\ pos' \in Nat
    BY <1>1, <2>1, <2>4
  <2>8. /\ bits' \in Bits /\ Holds(bits', pos')
        /\ pos' + bits'.count = (op.in + call'.consumed) * ByteBits
        /\ bits'.count - call'.consumed * ByteBits < ByteBits
        /\ \E j \in Nat : bits'.count = j * ByteBits
    BY <2>1, <2>2, <2>5, <2>6
  <2> QED
    BY <2>1, <2>4, <2>6, <2>7, <2>8, Moves
<1> QED
  BY <1>2, <1>3

(* A run past an empty reservoir. *)
LEMMA BypassStep ==
  ASSUME SessionInv, pc = "run", ~op.boundary, Current.op \in {"raw", "skip"},
         bits.count < ByteBits, NEW n \in Nat, n <= Have, n <= left, NEW y \in Nat, Bypass(n, y)
  PROVE  SessionInv'
<1> DEFINE a == Accepting(n)
           s == Settle(bits)
<1>1. /\ bits' = s /\ call' = [a EXCEPT !.produced = @ + y] /\ left' = left - n /\ pos' = pos + n * ByteBits
      /\ UNCHANGED policyVars /\ pc' = pc /\ op' = op /\ member' = member /\ item' = item
  BY DEF Bypass
<1>2. /\ bits \in Bits /\ pos \in Nat /\ bits.count \in Nat /\ Holds(bits, pos) /\ open /\ OnByte
      /\ pos + bits.count = (op.in + call.consumed) * ByteBits
      /\ left \in Nat /\ item \in Nat /\ member \in Nat /\ op.in \in Nat /\ call.consumed \in Nat
  BY InCall
<1>3. bits.count = 0
  <2>1. PICK j \in Nat : bits.count = j * ByteBits
    BY <1>2 DEF OnByte
  <2>2. ~ 0 < j
    <3> SUFFICES ASSUME 0 < j PROVE FALSE
      OBVIOUS
    <3>1. 0 * ByteBits + ByteBits <= j * ByteBits
      BY Distribute
    <3> QED
      BY <1>2, <2>1, <3>1, BitsAssumption
  <2>3. j = 0
    BY <2>2
  <2> QED
    BY <2>1, <2>3, BitsAssumption
<1>4. s \in Bits /\ s.count = 0 /\ Holds(s, pos) /\ Clean(s)
  BY <1>2, <1>3, SettleHolds
<1>5. /\ a \in Calls /\ a.consumed = call.consumed + n /\ a.consumed <= a.len
      /\ (op.in + (call.consumed + n)) * ByteBits = (op.in + call.consumed) * ByteBits + n * ByteBits
      /\ n * ByteBits \in Nat
  BY AcceptingBytes
<1> HIDE DEF s, a
<1>6. Holds(s, pos + n * ByteBits)
  <2>1. ASSUME NEW i \in Places PROVE ~ i < s.count /\ s.value[i] = {}
    <3>1. ~ i < s.count
      BY <1>4, WordHolds DEF Places
    <3> QED
      BY <1>4, <3>1 DEF Clean
  <2> QED
    BY <2>1 DEF Holds
<1>7. call' \in Calls /\ call'.consumed = call.consumed + n /\ call'.consumed <= call'.len
  <2>1. a.produced \in Nat /\ a.produced + y \in Nat
    BY <1>5 DEF Calls
  <2> QED
    BY <1>1, <1>5, <2>1 DEF Calls
<1>8. left' \in Nat /\ item' \in Nat /\ member' \in Nat /\ pos' \in Nat
  BY <1>1, <1>2, <1>5
<1>9. pos' + bits'.count = (op.in + call'.consumed) * ByteBits
  BY <1>1, <1>2, <1>3, <1>4, <1>5, <1>7
<1>10. bits'.count - call'.consumed * ByteBits < ByteBits
  <2>1. call'.consumed \in Nat /\ call'.consumed * ByteBits \in Nat /\ ByteBits \in Nat /\ ByteBits > 0
    BY <1>2, <1>7, BitsAssumption
  <2> QED
    BY <1>1, <1>4, <2>1
<1>11. 0 \in Nat /\ bits'.count = 0 * ByteBits
  BY <1>1, <1>4, BitsAssumption
<1>12. bits' \in Bits /\ Holds(bits', pos')
  BY <1>1, <1>4, <1>6
<1> QED
  BY <1>1, <1>2, <1>7, <1>8, <1>9, <1>10, <1>11, <1>12, Moves

LEMMA RunStep == ASSUME SessionInv, Raw \/ Skip PROVE SessionInv'
<1>1. pc = "run" /\ ~op.boundary /\ Current.op \in {"raw", "skip"} /\ left > 0
  BY DEF Raw, Skip, At, Ready
<1>2. /\ left \in Nat /\ exact \in Nat /\ op \in Totals /\ call \in Calls /\ open
      /\ bits.count \in Nat
  BY <1>1, InCall
<1>3. Have \in Nat /\ FastEnd(op.in + call.consumed, Have, limit) \in 0 .. Have
  BY <1>1, <1>2, NextByte
<1>4. ASSUME NEW m \in Nat, m <= left PROVE InRun(m) \in Nat /\ InRun(m) <= Have /\ InRun(m) <= left
  BY <1>2, <1>3, <1>4 DEF InRun, Least
<1>5. CASE Raw
  <2>1. op.out \in Nat /\ call.room \in Nat /\ call.produced \in Nat
    BY <1>2 DEF Totals, Calls
  <2>2. Room \in Nat
    BY <1>2, <1>5, <2>1 DEF Raw, Ready, TooLong, Full, Room, Least
  <2>3. Least(left, Room) \in Nat /\ Least(left, Room) <= left
    BY <1>2, <2>2 DEF Least
  <2> DEFINE n == InRun(Least(left, Room))
  <2>4. n \in Nat /\ n <= Have /\ n <= left
    BY <1>4, <2>3
  <2>5. IF bits.count >= ByteBits \/ n = 0 THEN ThroughBits(1) ELSE Bypass(n, n)
    BY <1>5 DEF Raw
  <2> HIDE DEF n
  <2>6. CASE bits.count >= ByteBits \/ n = 0
    <3>1. ThroughBits(1) /\ 1 \in Nat
      BY <2>5, <2>6
    <3> QED
      BY <1>1, <3>1, ThroughBitsStep
  <2>7. CASE ~ (bits.count >= ByteBits \/ n = 0)
    <3>1. Bypass(n, n) /\ bits.count < ByteBits
      BY <1>2, <2>5, <2>7, BitsAssumption
    <3> QED
      BY <1>1, <2>4, <3>1, BypassStep
  <2> QED
    BY <2>6, <2>7
<1>6. CASE Skip
  <2> DEFINE n == InRun(left)
  <2>1. n \in Nat /\ n <= Have /\ n <= left
    BY <1>2, <1>4
  <2>2. IF bits.count >= ByteBits \/ n = 0 THEN ThroughBits(0) ELSE Bypass(n, 0)
    BY <1>6 DEF Skip
  <2> HIDE DEF n
  <2>3. CASE bits.count >= ByteBits \/ n = 0
    <3>1. ThroughBits(0) /\ 0 \in Nat
      BY <2>2, <2>3
    <3> QED
      BY <1>1, <3>1, ThroughBitsStep
  <2>4. CASE ~ (bits.count >= ByteBits \/ n = 0)
    <3>1. Bypass(n, 0) /\ bits.count < ByteBits /\ 0 \in Nat
      BY <1>2, <2>2, <2>4, BitsAssumption
    <3> QED
      BY <1>1, <2>1, <3>1, BypassStep
  <2> QED
    BY <2>3, <2>4
<1> QED
  BY <1>5, <1>6

(* Whole bytes go back to the caller. *)
LEMMA GivenBack ==
  ASSUME SessionInv, pc = "run", NEW b \in Bits, NEW p \in Nat, Holds(b, p),
         p + b.count = (op.in + call.consumed) * ByteBits
  PROVE  LET u == UnreadCall(b, call)
             r == b.count - call.consumed * ByteBits
         IN  /\ u.bits \in Bits /\ Holds(u.bits, p) /\ Clean(u.bits)
             /\ u.call \in Calls /\ u.call.consumed <= u.call.len
             /\ p + u.bits.count = (op.in + u.call.consumed) * ByteBits
             /\ u.bits.count < ByteBits \/ u.bits.count = r
             /\ u.bits.count - u.call.consumed * ByteBits = r
             /\ \A q \in Nat : b.count = q * ByteBits => \E j \in Nat : u.bits.count = j * ByteBits
<1> DEFINE n == Unread(b, call.consumed)
           v == Returned(b, n)
           c == [call EXCEPT !.consumed = @ - n]
           k == call.consumed
<1>1. call \in Calls /\ k \in Nat /\ op.in \in Nat /\ k <= call.len /\ call.len \in Nat /\ k * ByteBits \in Nat
  BY InCall DEF Calls
<1>2. n \in Nat /\ n <= k /\ n * ByteBits <= b.count /\ (n = k \/ b.count - n * ByteBits < ByteBits)
  BY <1>1, UnreadBytes
<1>3. v \in Bits /\ v.count = b.count - n * ByteBits /\ Holds(v, p) /\ Clean(v)
  BY <1>2, ReturnedHolds
<1>4. UnreadCall(b, call) = [bits |-> v, call |-> c]
  BY DEF UnreadCall
<1> HIDE DEF n, v
<1>5. k - n \in Nat /\ k - n <= call.len
  BY <1>1, <1>2
<1>6. c \in Calls /\ c.consumed = k - n /\ c.len = call.len
  BY <1>1, <1>5 DEF Calls
<1> HIDE DEF c
<1>7. /\ n * ByteBits \in Int /\ (k - n) * ByteBits = k * ByteBits - n * ByteBits
      /\ ((op.in + k) - n) * ByteBits = (op.in + k) * ByteBits - n * ByteBits
      /\ (op.in + k) * ByteBits \in Int
  <2>1. n \in Int /\ k \in Int /\ op.in + k \in Int
    BY <1>1, <1>2
  <2> HIDE DEF k
  <2> QED
    BY <2>1, Distribute
<1>8. (op.in + k) - n = op.in + (k - n)
  BY <1>1, <1>2
<1>9. b.count \in Nat
  BY WordHolds DEF Bits
<1>10. p + v.count = (op.in + c.consumed) * ByteBits
  BY <1>3, <1>6, <1>7, <1>8, <1>9
<1>11. v.count - c.consumed * ByteBits = b.count - k * ByteBits
  BY <1>1, <1>3, <1>6, <1>7, <1>9
<1>12. v.count < ByteBits \/ v.count = b.count - k * ByteBits
  BY <1>2, <1>3
<1>13. ASSUME NEW q \in Nat, b.count = q * ByteBits PROVE \E j \in Nat : v.count = j * ByteBits
  <2>1. n \in Int /\ q \in Int
    BY <1>2
  <2>2. (q - n) * ByteBits = q * ByteBits - n * ByteBits /\ (q < n => q * ByteBits + ByteBits <= n * ByteBits)
    BY <2>1, Distribute
  <2>3. ~ q < n
    BY <1>2, <1>7, <1>9, <1>13, <2>2, BitsAssumption
  <2>4. q - n \in Nat /\ v.count = (q - n) * ByteBits
    BY <1>3, <1>13, <2>1, <2>2, <2>3
  <2> QED
    BY <2>4
<1> QED
  BY <1>3, <1>4, <1>5, <1>6, <1>10, <1>11, <1>12, <1>13

LEMMA NoRoomStep == ASSUME SessionInv, NoRoom PROVE SessionInv'
<1>1. pc = "run" /\ ~op.boundary
  BY DEF NoRoom, At
<1>2. /\ open /\ bits \in Bits /\ pos \in Nat /\ Holds(bits, pos) /\ op \in Totals /\ call \in Calls
      /\ call.consumed <= call.len /\ OnByte /\ bits.count \in Nat
      /\ pos + bits.count = (op.in + call.consumed) * ByteBits
      /\ Carried(bits.count - call.consumed * ByteBits)
  BY <1>1, InCall
<1>3. CASE Fail("OutputSizeMismatch", bits, call)
  <2> DEFINE b == Settle(bits)
  <2>1. b \in Bits /\ b.count = bits.count /\ Holds(b, pos) /\ Clean(b)
    BY <1>2, SettleHolds
  <2>2. bits' = b /\ Return("OutputSizeMismatch", op, call) /\ UNCHANGED policyVars /\ UNCHANGED stageVars
    BY <1>3 DEF Fail
  <2> HIDE DEF b
  <2>3. Current.op \in {"raw", "skip"} => \E k \in Nat : b.count = k * ByteBits
    BY <1>2, <2>1 DEF OnByte
  <2> QED
    BY <1>1, <1>2, <2>1, <2>2, <2>3, Returns
<1>4. CASE StopOutput
  <2> DEFINE u == UnreadCall(bits, call)
             b == u.bits
             c == u.call
  <2>1. /\ b \in Bits /\ Holds(b, pos) /\ Clean(b) /\ c \in Calls /\ c.consumed <= c.len
        /\ pos + b.count = (op.in + c.consumed) * ByteBits
        /\ b.count < ByteBits \/ b.count = bits.count - call.consumed * ByteBits
        /\ \A q \in Nat : bits.count = q * ByteBits => \E j \in Nat : b.count = j * ByteBits
    BY <1>1, <1>2, GivenBack
  <2>2. bits' = b /\ Return("NeedsOutput", op, c) /\ UNCHANGED policyVars /\ UNCHANGED stageVars
    BY <1>4 DEF StopOutput
  <2> HIDE DEF b, c
  <2>3. Current.op \in {"raw", "skip"} => \E k \in Nat : b.count = k * ByteBits
    BY <1>2, <2>1 DEF OnByte
  <2>4. Carried(b.count)
    BY <1>2, <2>1 DEF Carried
  <2> QED
    BY <1>1, <1>2, <2>1, <2>2, <2>3, <2>4, Returns
<1> QED
  BY <1>3, <1>4 DEF NoRoom

LEMMA BadStep == ASSUME SessionInv, Bad PROVE SessionInv'
<1> DEFINE b == Settle(bits)
<1>1. pc = "run" /\ ~op.boundary /\ Current.op = "bad"
      /\ bits' = b /\ Return("InvalidData", op, call) /\ UNCHANGED policyVars /\ UNCHANGED stageVars
  BY DEF Bad, At, Fail
<1>2. /\ open /\ bits \in Bits /\ pos \in Nat /\ Holds(bits, pos) /\ op \in Totals /\ call \in Calls
      /\ call.consumed <= call.len
      /\ pos + bits.count = (op.in + call.consumed) * ByteBits
  BY <1>1, InCall
<1>3. b \in Bits /\ b.count = bits.count /\ Holds(b, pos) /\ Clean(b)
  BY <1>2, SettleHolds
<1> HIDE DEF b
<1> QED
  BY <1>1, <1>2, <1>3, Returns

(* A member ends on its byte: the reservoir is empty, because only bytes of
   this call were left in it. *)
LEMMA EndMemberStep == ASSUME SessionInv, EndMember PROVE SessionInv'
<1> DEFINE a == Aligned(bits)
           p == Bytes(pos) * ByteBits
           u == UnreadCall(a, call)
<1>1. /\ pc = "run" /\ ~op.boundary /\ Current = End /\ bits' = u.bits /\ call' = u.call /\ pos' = After(pos, End)
      /\ op' = [op EXCEPT !.members = @ + 1, !.boundary = TRUE]
      /\ UNCHANGED policyVars /\ pc' = pc /\ UNCHANGED <<member, item, left>>
  BY DEF EndMember
<1>2. Current.op = "end"
  BY <1>1 DEF End, Item
<1>3. /\ a \in Bits /\ p \in Nat /\ Holds(a, p) /\ p + a.count = (op.in + call.consumed) * ByteBits
      /\ a.count = (bits.count \div ByteBits) * ByteBits /\ bits.count \div ByteBits \in Nat
      /\ a.count - call.consumed * ByteBits < ByteBits
  BY <1>1, <1>2, AlignedHolds DEF Bitwise
<1>4. pos' = p
  BY <1>1 DEF After, End, Item, Bitwise
<1> DEFINE b == u.bits
           c == u.call
<1> HIDE DEF a, p
<1>5. /\ b \in Bits /\ Holds(b, p) /\ Clean(b) /\ c \in Calls /\ c.consumed <= c.len
      /\ p + b.count = (op.in + c.consumed) * ByteBits
      /\ b.count < ByteBits \/ b.count = a.count - call.consumed * ByteBits
      /\ b.count - c.consumed * ByteBits = a.count - call.consumed * ByteBits
      /\ \A q \in Nat : a.count = q * ByteBits => \E j \in Nat : b.count = j * ByteBits
  BY <1>1, <1>3, GivenBack
<1> HIDE DEF b, c, u
<1>6. b.count = 0
  <2>1. b.count < ByteBits
    BY <1>3, <1>5
  <2>2. PICK j \in Nat : b.count = j * ByteBits
    BY <1>3, <1>5
  <2>3. 0 < j => 0 * ByteBits + ByteBits <= j * ByteBits
    BY Distribute
  <2>4. ~ 0 < j
    BY <2>1, <2>2, <2>3, BitsAssumption
  <2>5. j = 0
    BY <2>4
  <2> QED
    BY <2>2, <2>5, BitsAssumption
<1>7. /\ open /\ ~op.failed /\ op \in Totals /\ op.members \in Nat
      /\ wire \in Wires /\ limit \in Nat /\ exact \in Nat /\ member \in Nat /\ item \in Nat /\ left \in Nat
  BY <1>1, InCall DEF Totals
<1>8. op' \in Totals /\ op'.in = op.in /\ op'.failed = op.failed /\ op'.boundary = TRUE
  <2>1. op.members + 1 \in Nat /\ op' = [op EXCEPT !.members = op.members + 1, !.boundary = TRUE]
    BY <1>1, <1>7
  <2> QED
    BY <1>7, <2>1 DEF Totals
<1>9. UNCHANGED <<wire, limit, exact, open>>
  BY <1>1 DEF policyVars
<1>10. bits' = b /\ call' = c
  BY <1>1 DEF b, c
<1>11. SessionTypes'
  BY <1>1, <1>3, <1>4, <1>5, <1>7, <1>8, <1>9, <1>10 DEF SessionInv, SessionTypes
<1>12. Lifetimes'
  BY <1>1, <1>7, <1>8, <1>9 DEF Lifetimes
<1>13. Fresh' = c.consumed
  BY <1>1, <1>10 DEF Fresh
<1>14. Position'
  BY <1>4, <1>5, <1>8, <1>10, <1>13 DEF Position
<1>15. Contents'
  BY <1>4, <1>5, <1>10 DEF Contents, Holds, Clean
<1>16. OnByte'
  <2>1. 0 \in Nat /\ 0 = 0 * ByteBits
    BY BitsAssumption
  <2> QED
    BY <1>6, <1>10, <2>1 DEF OnByte
<1>17. Carry'
  <2>1. b.count - c.consumed * ByteBits < ByteBits
    BY <1>3, <1>5
  <2> QED
    BY <1>10, <1>13, <2>1 DEF Carry, Carried
<1> QED
  BY <1>9, <1>11, <1>12, <1>14, <1>15, <1>16, <1>17 DEF SessionInv

(* The loop's own test at a member's end. *)
LEMMA BoundaryStep == ASSUME SessionInv, Finish \/ BoundaryInput PROVE SessionInv'
<1>1. pc = "run" /\ op.boundary /\ bits' = bits /\ UNCHANGED policyVars /\ UNCHANGED stageVars
  BY DEF Finish, BoundaryInput, AtBoundary
<1>2. /\ open /\ bits \in Bits /\ pos \in Nat /\ Holds(bits, pos) /\ Clean(bits) /\ op \in Totals /\ call \in Calls
      /\ call.consumed <= call.len /\ OnByte
      /\ pos + bits.count = (op.in + call.consumed) * ByteBits
  BY <1>1, InCall
<1>3. bits.count = 0
  BY <1>1, <1>2 DEF OnByte
<1>4. Carried(bits.count)
  BY <1>3, BitsAssumption DEF Carried
<1>5. 0 \in Nat /\ bits.count = 0 * ByteBits
  BY <1>3, BitsAssumption
<1>6. CASE \E st : Return(st, op, call)
  <2>1. PICK st : Return(st, op, call)
    BY <1>6
  <2> QED
    BY <1>1, <1>2, <1>3, <1>4, <1>5, <2>1, Returns
<1>7. CASE Return("Finished", [op EXCEPT !.finished = TRUE], call)
  <2> DEFINE o == [op EXCEPT !.finished = TRUE]
  <2>1. o \in Totals /\ o.in = op.in /\ o.boundary = op.boundary
    BY <1>2 DEF Totals
  <2> HIDE DEF o
  <2>2. Return("Finished", o, call)
    BY <1>7 DEF o
  <2> QED
    BY <1>1, <1>2, <1>3, <1>4, <1>5, <2>1, <2>2, Returns
<1> QED
  BY <1>6, <1>7 DEF Finish, BoundaryInput

(* The next member starts with an empty reservoir, which it was. *)
LEMMA NextMemberStep == ASSUME SessionInv, NextMember PROVE SessionInv'
<1>1. /\ pc = "run" /\ op.boundary /\ op' = [op EXCEPT !.boundary = FALSE] /\ bits' = Empty
      /\ member' = member + 1 /\ item' = 1 /\ left' = ItemAt(member + 1, 1).n
      /\ UNCHANGED policyVars /\ pc' = pc /\ call' = call /\ pos' = pos
  BY DEF NextMember, AtBoundary
<1>2. /\ open /\ ~op.failed /\ op \in Totals /\ call \in Calls /\ call.consumed <= call.len
      /\ wire \in Wires /\ limit \in Nat /\ exact \in Nat /\ member \in Nat /\ pos \in Nat /\ OnByte
      /\ pos + bits.count = (op.in + call.consumed) * ByteBits /\ call.consumed * ByteBits \in Nat
  BY <1>1, InCall
<1>3. Empty \in Bits /\ Empty.count = 0 /\ Holds(Empty, pos) /\ Clean(Empty)
  BY <1>2, EmptyHolds
<1>4. /\ op' \in Totals /\ op'.in = op.in /\ op'.failed = op.failed
  BY <1>1, <1>2 DEF Totals
<1>5. ~op'.boundary
  BY <1>1, <1>2 DEF Totals
<1>6. UNCHANGED <<wire, limit, exact, open>>
  BY <1>1 DEF policyVars
<1>7. left' \in Nat /\ item' \in Nat /\ member' \in Nat
  <2>1. ItemAt(member + 1, 1).n \in 0 .. MAX_PEEK /\ MAX_PEEK \in Nat
    BY <1>2, ItemTypes, WordHolds, BitsAssumption
  <2> QED
    BY <1>1, <1>2, <2>1
<1>8. Current' = ItemAt(member + 1, 1)
  BY <1>1, <1>6 DEF Current, ItemAt
<1>9. Current'.op \notin {"raw", "skip"}
  <2>1. 0 \in Nat /\ ItemAt(member + 1, 1).op \notin {"raw", "skip"}
    BY <1>2, RunsAreAligned
  <2> QED
    BY <1>8, <2>1
<1>10. SessionTypes'
  BY <1>1, <1>2, <1>3, <1>4, <1>6, <1>7 DEF SessionInv, SessionTypes
<1>11. Lifetimes'
  BY <1>1, <1>2, <1>4, <1>6 DEF Lifetimes
<1>12. Fresh' = call.consumed /\ Fresh = call.consumed
  BY <1>1 DEF Fresh
<1>13. Position'
  <2>1. bits.count = 0
    BY <1>1, <1>2 DEF OnByte
  <2> QED
    BY <1>1, <1>2, <1>3, <1>4, <1>12, <2>1 DEF Position
<1>14. Contents'
  BY <1>1, <1>3 DEF Contents, Holds, Clean
<1>15. OnByte'
  BY <1>5, <1>9 DEF OnByte
<1>16. Carry'
  <2>1. 0 - call.consumed * ByteBits < ByteBits
    BY <1>2, BitsAssumption
  <2> QED
    BY <1>1, <1>3, <1>12, <2>1 DEF Carry, Carried
<1> QED
  BY <1>6, <1>10, <1>11, <1>13, <1>14, <1>15, <1>16 DEF SessionInv

LEMMA RunPreserves == ASSUME SessionInv, Run PROVE SessionInv'
  BY EndMemberStep, BoundaryStep, NextMemberStep, FieldStep, NoRoomStep, ReadAheadStep, CopyStep,
     ItemDoneStep, AlignStep, RunStep, BadStep DEF Run

-----------------------------------------------------------------------------
(* Lifecycle. *)

LEMMA FirstItem ==
  wire \in Wires => ItemAt(1, 1).n \in 0 .. MAX_PEEK /\ ItemAt(1, 1).op \notin {"raw", "skip"}
<1>1. 0 \in Nat
  OBVIOUS
<1> QED
  BY <1>1, ItemTypes, RunsAreAligned

LEMMA FirstItemNext ==
  (wire \in Wires => ItemAt(1, 1).n \in 0 .. MAX_PEEK /\ ItemAt(1, 1).op \notin {"raw", "skip"})'
  BY FirstItem, PTL

LEMMA StartStep == ASSUME SessionInv, Start PROVE SessionInv'
<1>1. /\ ~open /\ open' /\ bits' = Empty /\ member' = 1 /\ item' = 1 /\ pos' = 0
      /\ wire' \in Wires /\ limit' \in Nat /\ exact' \in Nat /\ left' = ItemAt(1, 1)'.n
      /\ pc' = pc /\ call' = call /\ op' = op
  BY SessionAssumption DEF Start, ResetWorkspace
<1>2. pc = "idle" /\ op = NewOperation /\ op \in Totals /\ call \in Calls /\ call.consumed <= call.len
  BY <1>1 DEF SessionInv, SessionTypes, Lifetimes
<1>3. op.in = 0 /\ op.boundary = FALSE /\ op.failed = FALSE
  BY <1>2 DEF NewOperation
<1>4. Empty \in Bits /\ Empty.count = 0 /\ Holds(Empty, 0) /\ Clean(Empty)
  BY EmptyHolds
<1>5. ItemAt(1, 1)'.n \in 0 .. MAX_PEEK /\ ItemAt(1, 1)'.op \notin {"raw", "skip"}
  BY <1>1, FirstItemNext
<1>6. Current' = ItemAt(1, 1)'
  BY <1>1 DEF Current, ItemAt
<1>7. left' \in Nat
  BY <1>1, <1>5, WordHolds, BitsAssumption
<1>8. SessionTypes'
  BY <1>1, <1>2, <1>4, <1>7 DEF SessionTypes
<1>9. Lifetimes'
  BY <1>1, <1>2 DEF Lifetimes
<1>10. Fresh' = 0
  BY <1>1, <1>2 DEF Fresh
<1>11. Position'
  <2>1. 0 + 0 = (0 + 0) * ByteBits
    BY BitsAssumption
  <2> QED
    BY <1>1, <1>2, <1>3, <1>4, <1>10, <2>1 DEF Position
<1>12. Contents'
  BY <1>1, <1>4 DEF Contents, Holds, Clean
<1>13. OnByte'
  BY <1>1, <1>2, <1>3, <1>5, <1>6 DEF OnByte
<1>14. Carry'
  <2>1. 0 - 0 * ByteBits < ByteBits
    BY BitsAssumption
  <2> QED
    BY <1>1, <1>4, <1>10, <2>1 DEF Carry, Carried
<1> QED
  BY <1>8, <1>9, <1>11, <1>12, <1>13, <1>14 DEF SessionInv

LEMMA EndStep == ASSUME SessionInv, EndSession PROVE SessionInv'
<1>1. ~open' /\ pc' = "idle" /\ op' = NewOperation /\ call' = NoCall
  BY DEF EndSession
<1>2. NewOperation \in Totals /\ NoCall \in Calls /\ NoCall.consumed <= NoCall.len
  BY DEF NewOperation, NoCall, Totals, Calls
<1> QED
  BY <1>1, <1>2 DEF SessionInv, SessionTypes, Lifetimes

LEMMA RecoverStep == ASSUME SessionInv, Recover PROVE SessionInv'
<1>1. ~open /\ open' = open /\ pc' = pc /\ call' = call /\ op' = op
  BY DEF Recover
<1> QED
  BY <1>1 DEF SessionInv, SessionTypes, Lifetimes

LEMMA StutterStep == ASSUME SessionInv, UNCHANGED sessionVars PROVE SessionInv'
<1>1. UNCHANGED <<wire, limit, exact, open, pc, call, bits, member, item, left, op, pos>>
  BY DEF sessionVars
<1>2. Current' = Current /\ Fresh' = Fresh
  BY <1>1 DEF Current, ItemAt, Fresh
<1>3. SessionTypes' /\ Lifetimes'
  BY <1>1 DEF SessionInv, SessionTypes, Lifetimes
<1>4. open => Position' /\ Contents' /\ OnByte' /\ Carry'
  <2> SUFFICES ASSUME open PROVE Position' /\ Contents' /\ OnByte' /\ Carry'
    OBVIOUS
  <2>1. Position'
    BY <1>1, <1>2 DEF SessionInv, Position
  <2>2. Contents'
    BY <1>1 DEF SessionInv, Contents, Holds, Clean
  <2>3. OnByte'
    BY <1>1, <1>2 DEF SessionInv, OnByte
  <2>4. Carry'
    BY <1>1, <1>2 DEF SessionInv, Carry, Carried
  <2> QED
    BY <2>1, <2>2, <2>3, <2>4
<1> QED
  BY <1>1, <1>3, <1>4 DEF SessionInv

(* A call begins, or is refused. *)
LEMMA ProcessStep ==
  ASSUME SessionInv, NEW n, NEW room, NEW finish, Process(n, room, finish)
  PROVE  SessionInv'
<1>1. /\ open /\ pc = "idle" /\ n \in Nat /\ room \in Nat
      /\ call' = [len |-> n, consumed |-> 0, room |-> room, produced |-> 0]
      /\ UNCHANGED policyVars /\ bits' = bits /\ UNCHANGED stageVars
  BY DEF Process
<1>2. op \in Totals /\ op.in \in Nat /\ SessionTypes /\ Position /\ Contents /\ OnByte /\ Carry
  BY <1>1 DEF SessionInv, SessionTypes, Totals
<1>3. /\ op' \in Totals /\ op'.in = op.in /\ op'.boundary = op.boundary
      /\ (~op'.failed => ~op.failed) /\ pc' \in {"idle", "run"} /\ (pc' = "run" => ~op'.failed)
  <2>1. CASE op.failed
    <3>1. pc' = pc /\ op' = op
      BY <2>1 DEF Process
    <3> QED
      BY <1>1, <1>2, <2>1, <3>1
  <2>2. CASE ~op.failed /\ op.finished
    <3>1. pc' = pc /\ op' = op
      BY <2>2 DEF Process
    <3> QED
      BY <1>1, <1>2, <2>2, <3>1
  <2>3. CASE ~op.failed /\ ~op.finished
    <3>1. IF BreaksPromise(n, finish)
          THEN op' = [op EXCEPT !.failed = TRUE] /\ pc' = pc
          ELSE /\ pc' = "run"
               /\ op' = IF finish /\ ~op.finishing
                        THEN [op EXCEPT !.finishing = TRUE, !.finalEnd = op.in + n]
                        ELSE op
      BY <2>3 DEF Process
    <3>2. CASE BreaksPromise(n, finish)
      <4>1. op' = [op EXCEPT !.failed = TRUE] /\ pc' = pc
        BY <3>1, <3>2
      <4> QED
        BY <1>1, <1>2, <2>3, <4>1 DEF Totals
    <3>3. CASE ~BreaksPromise(n, finish)
      <4>1. pc' = "run" /\ (op' = op \/ op' = [op EXCEPT !.finishing = TRUE, !.finalEnd = op.in + n])
        BY <3>1, <3>3
      <4>2. op.in + n \in Nat
        BY <1>1, <1>2
      <4> QED
        BY <1>2, <2>3, <4>1, <4>2 DEF Totals
    <3> QED
      BY <3>2, <3>3
  <2> QED
    BY <2>1, <2>2, <2>3
<1>4. UNCHANGED <<wire, limit, exact, open, member, item, left, pos>>
  BY <1>1 DEF policyVars, stageVars
<1>5. call' \in Calls /\ call'.consumed = 0 /\ call'.consumed <= call'.len
  BY <1>1 DEF Calls
<1>6. Fresh' = 0 /\ Fresh = 0 /\ Current' = Current
  BY <1>1, <1>4, <1>5 DEF Fresh, Current, ItemAt
<1>7. SessionTypes'
  BY <1>1, <1>2, <1>3, <1>4, <1>5 DEF SessionTypes
<1>8. Lifetimes'
  BY <1>1, <1>3, <1>4 DEF Lifetimes
<1>9. Position'
  BY <1>1, <1>2, <1>3, <1>4, <1>6 DEF Position
<1>10. Contents'
  BY <1>1, <1>2, <1>4 DEF Contents, Holds, Clean
<1>11. OnByte'
  BY <1>1, <1>2, <1>3, <1>6 DEF OnByte
<1>12. Carry'
  BY <1>1, <1>2, <1>3, <1>6 DEF Carry, Carried
<1> QED
  BY <1>1, <1>4, <1>7, <1>8, <1>9, <1>10, <1>11, <1>12 DEF SessionInv

-----------------------------------------------------------------------------
(* Clients. *)

(* What any client does to the session. *)
SessionAction ==
  \/ Start \/ EndSession \/ Recover \/ Run \/ UNCHANGED sessionVars
  \/ \E n, room, finish : Process(n, room, finish)

LEMMA CallerActs == ASSUME CallerNext PROVE SessionAction
  BY DEF CallerNext, SessionAction, DropSession, Forget

LEMMA WriterActs == ASSUME WriterNext PROVE SessionAction
<1>1. ASSUME Pump PROVE SessionAction
  <2>1. Process(wr.input, Outbox, wr.goal = "finish")
    BY <1>1 DEF Pump
  <2> QED
    BY <2>1 DEF SessionAction
<1>2. ASSUME WriterStart PROVE SessionAction
  BY <1>2 DEF WriterStart, SessionAction
<1>3. ASSUME DropSession \/ Run PROVE SessionAction
  BY <1>3 DEF DropSession, SessionAction
<1>4. ASSUME Write \/ Flush \/ TryFinish \/ Drain \/ Checked \/ PumpAnswer \/ Pumped \/ FlushSink
      PROVE  UNCHANGED sessionVars
  BY <1>4 DEF Write, Flush, TryFinish, Entered, Drain, Checked, PumpAnswer, Pumped, FlushSink
<1> QED
  BY <1>1, <1>2, <1>3, <1>4 DEF WriterNext, SessionAction

LEMMA ReaderActs == ASSUME ReaderNext PROVE SessionAction
<1>1. ASSUME ReaderProcess PROVE SessionAction
  BY <1>1 DEF ReaderProcess, SessionAction
<1>2. ASSUME ReaderStart PROVE SessionAction
  BY <1>2 DEF ReaderStart, SessionAction
<1>3. ASSUME DropSession \/ Run PROVE SessionAction
  BY <1>3 DEF DropSession, SessionAction
<1>4. ASSUME Read \/ ReaderAnswer \/ Source PROVE UNCHANGED sessionVars
  BY <1>4 DEF Read, ReaderAnswer, Source
<1> QED
  BY <1>1, <1>2, <1>3, <1>4 DEF ReaderNext, SessionAction

LEMMA ShotActs == ASSUME ShotNext PROVE SessionAction
<1>1. ASSUME ShotCall PROVE SessionAction
  BY <1>1 DEF ShotCall, SessionAction
<1>2. ASSUME ShotStart PROVE SessionAction
  BY <1>2 DEF ShotStart, SessionAction
<1>3. ASSUME DropSession \/ Run PROVE SessionAction
  BY <1>3 DEF DropSession, SessionAction
<1>4. ASSUME Borrow \/ ShotFails \/ ShotFinished \/ ShotGrows PROVE UNCHANGED sessionVars
  BY <1>4 DEF Borrow, ShotFails, ShotFinished, ShotGrows
<1> QED
  BY <1>1, <1>2, <1>3, <1>4 DEF ShotNext, SessionAction

LEMMA SessionActs == ASSUME SessionInv, SessionAction PROVE SessionInv'
  BY StartStep, EndStep, RecoverStep, RunPreserves, StutterStep, ProcessStep DEF SessionAction

LEMMA SessionStarts == SessionInit => SessionInv
<1>1. NewOperation \in Totals /\ NoCall \in Calls /\ NoCall.consumed <= NoCall.len
  BY DEF NewOperation, NoCall, Totals, Calls
<1> QED
  BY <1>1 DEF SessionInit, SessionInv, SessionTypes, Lifetimes

(* Whatever its client does, the session keeps its invariant. *)
THEOREM DecodingInvariant == Spec => []SessionInv
<1>1. Init => SessionInv
  BY SessionStarts DEF Init
<1>2. SessionInv /\ [Next]_vars => SessionInv'
  <2> SUFFICES ASSUME SessionInv, [Next]_vars PROVE SessionInv'
    OBVIOUS
  <2>1. Next => SessionAction
    BY CallerActs, ReaderActs, WriterActs, ShotActs DEF Next
  <2>2. UNCHANGED vars => UNCHANGED sessionVars
    BY DEF vars
  <2> QED
    BY <2>1, <2>2, SessionActs DEF SessionAction
<1> QED
  BY <1>1, <1>2, PTL DEF Spec

(* Between its input and its items the session loses, repeats and mixes no
   bit, whatever the client, the path (byte-exact, read-ahead or past the
   reservoir) and the slices: Bits::peek, refill, settle, unread and the
   bypass of the raw and metadata stages. *)
THEOREM ReservoirIsFaithful == Spec => []ReservoirIsTheStream
<1>1. SessionInv => ReservoirIsTheStream
  <2> SUFFICES ASSUME SessionInv, open PROVE
        /\ pos + bits.count = (op.in + IF pc = "run" THEN call.consumed ELSE 0) * ByteBits
        /\ \A i \in Places :
             IF i < bits.count THEN bits.value[i] = {pos + i}
             ELSE bits.value[i] \subseteq (IF pc = "run" THEN {pos + i} ELSE {})
    BY DEF ReservoirIsTheStream
  <2>1. pos + bits.count = (op.in + IF pc = "run" THEN call.consumed ELSE 0) * ByteBits
    BY DEF SessionInv, Position, Fresh
  <2>2. Contents /\ pc \in {"idle", "run"}
    BY DEF SessionInv, SessionTypes
  <2>3. ASSUME NEW i \in Places
        PROVE  IF i < bits.count THEN bits.value[i] = {pos + i}
               ELSE bits.value[i] \subseteq (IF pc = "run" THEN {pos + i} ELSE {})
    BY <2>2 DEF Contents, Holds, Clean
  <2> QED
    BY <2>1, <2>3
<1> QED
  BY <1>1, DecodingInvariant, PTL

-----------------------------------------------------------------------------
(* The adapters.  An adapter's accounts are only balanced between its calls of
   the session; in between they are off by what the last answer says, and that
   answer is worth something because a call that asks for input took all it was
   offered, and one that asks for room filled what it had.                    *)

Statuses == {"none", "NeedsInput", "NeedsOutput", "Finished", "InvalidState", "UnexpectedEnd",
             "InputLimit", "OutputSizeMismatch", "InvalidData"}

(* The last answer of the session. *)
AnswerInv ==
  /\ reply.status \in Statuses /\ reply.consumed \in Nat /\ reply.produced \in Nat
  /\ pc = "run" => reply = NoReply /\ ~op.finished
  /\ op.finished => op.boundary
  /\ reply.status = "Finished" => op.finished
  /\ reply.consumed <= call.len
  /\ reply.status = "NeedsInput" => reply.consumed = call.len
  /\ reply.status = "NeedsOutput" => reply.produced >= call.room

Readers == [pc : {"none", "idle", "process", "wait", "source"}, cursor : Nat, filled : Nat,
            eof : BOOLEAN, pending : Statuses, failed : BOOLEAN]

(* What the buffer still holds, and the answer rd has not looked at yet. *)
ReaderOpen ==
  /\ rd.cursor <= rd.filled
  /\ rd.pc # "wait" =>
       /\ pc = "idle" /\ src.read = op.in + (rd.filled - rd.cursor) /\ got.bytes = op.out
  /\ rd.pc = "wait" =>
       /\ call.len = rd.filled - rd.cursor /\ call.room > 0
       /\ src.read = op.in - reply.consumed + (rd.filled - rd.cursor)
       /\ got.bytes = op.out - reply.produced
  /\ rd.pc = "source" => rd.cursor = rd.filled
  /\ rd.pc = "idle" /\ got.last = "end" => op.finished

ReaderInv ==
  /\ rd \in Readers /\ "read" \in DOMAIN src /\ src.read \in Nat /\ got.bytes \in Nat
  /\ (rd.pc = "none") = ~open
  /\ open => ReaderOpen

Writers == [pc : {"none", "idle", "drain", "checked", "pump", "wait", "pumped", "flush"},
            goal : {"none", "write", "flush", "finish"}, cursor : Nat, filled : Nat,
            lifecycle : {"Accepting", "Finishing", "Finished", "Failed"},
            pending : Statuses \cup {"sink"}, input : Nat, pumped : BOOLEAN]

Emptied == wr.filled = 0 /\ wr.cursor = 0

(* The session answered, and the operation has not acknowledged it yet. *)
Unacknowledged == wr.pc = "wait" \/ (wr.pumped /\ wr.pc \in {"drain", "pumped"})

(* Bytes are accounted for, the outbox's and the acknowledged ones. *)
WriterBalance ==
  /\ wr.cursor <= wr.filled
  /\ sink + (wr.filled - wr.cursor) = op.out - (IF wr.pc = "wait" THEN reply.produced ELSE 0)
  /\ acked = op.in - (IF Unacknowledged THEN reply.consumed ELSE 0)

(* What an operation passed before it got to its place. *)
WriterPlaces ==
  /\ wr.pc # "wait" => pc = "idle"
  /\ wr.pc = "wait" => call.len = wr.input
  /\ wr.goal # "write" => wr.input = 0
  /\ Unacknowledged /\ wr.goal # "write" => reply.consumed = 0
  /\ wr.pc \in {"checked", "pump", "wait", "flush"} => Emptied
  /\ wr.pc = "pumped" => wr.pumped /\ (Emptied \/ (wr.goal = "write" /\ reply.consumed > 0))
  /\ wr.pc = "flush" => wr.goal # "write" /\ (wr.goal = "finish" => op.finished)
  /\ wr.pc = "idle" /\ wr.goal # "write" /\ outcome = "ok" => wr.filled = wr.cursor

(* A deferred error belongs to a write that took bytes; a finished writer
   has nothing left to do. *)
WriterEnds ==
  /\ wr.pending # "none" =>
       wr.pc = "idle" \/ (wr.pc = "pumped" /\ wr.goal = "write" /\ reply.consumed > 0)
  /\ wr.lifecycle = "Finished" =>
       /\ op.finished /\ Emptied /\ wr.pending = "none"
       /\ wr.pc \in {"idle", "drain", "checked", "flush"} /\ (wr.pc = "drain" => ~wr.pumped)

WriterInv ==
  /\ wr \in Writers /\ sink \in Nat /\ acked \in Nat
  /\ (wr.pc = "none") = ~open
  /\ open => WriterBalance /\ WriterPlaces /\ WriterEnds

ClientInv ==
  /\ AnswerInv
  /\ IF client = "reader" THEN ReaderInv ELSE rd.pc = "none"
  /\ IF client = "writer" THEN WriterInv ELSE wr.pc = "none"

(* A call that was answered. *)
LEMMA Answers ==
  ASSUME SessionInv', AnswerInv, pc = "run", op \in Totals, NEW status, NEW o \in Totals, NEW c \in Calls,
         Return(status, o, c), o.in = op.in, o.out = op.out, o.boundary = op.boundary,
         o.finished => status = "Finished", status = "Finished" => o.finished /\ op.boundary,
         status \in Statuses, c.len = call.len, c.room = call.room,
         status = "NeedsInput" => c.consumed = c.len, status = "NeedsOutput" => c.produced >= c.room
  PROVE  /\ AnswerInv' /\ call'.len = call.len /\ call'.room = call.room
         /\ op'.in - reply'.consumed = op.in /\ op'.out - reply'.produced = op.out
<1>1. /\ pc' = "idle" /\ call' = c
      /\ reply' = [status |-> status, consumed |-> c.consumed, produced |-> c.produced]
      /\ op' = [o EXCEPT !.in = @ + c.consumed, !.out = @ + c.produced,
                         !.failed = status \notin {"NeedsInput", "NeedsOutput", "Finished"}]
  BY DEF Return
<1>2. /\ op'.in = op.in + c.consumed /\ op'.out = op.out + c.produced
      /\ op'.finished = o.finished /\ op'.boundary = op.boundary
  BY <1>1 DEF Totals
<1>3. /\ op.in \in Nat /\ op.out \in Nat
      /\ c.consumed \in Nat /\ c.produced \in Nat /\ c.len \in Nat /\ c.room \in Nat
  BY DEF Totals, Calls
<1>4. call'.consumed <= call'.len
  BY DEF SessionInv, SessionTypes
<1>5. AnswerInv'
  BY <1>1, <1>2, <1>3, <1>4 DEF AnswerInv
<1>6. op'.in - reply'.consumed = op.in /\ op'.out - reply'.produced = op.out
  BY <1>1, <1>2, <1>3
<1> QED
  BY <1>1, <1>5, <1>6

(* A call that goes on. *)
LEMMA GoesOn ==
  ASSUME SessionInv', AnswerInv, pc = "run", op \in Totals, pc' = pc, reply' = reply,
         op'.in = op.in, op'.out = op.out, op'.finished = op.finished,
         call'.len = call.len, call'.room = call.room
  PROVE  /\ AnswerInv' /\ call'.len = call.len /\ call'.room = call.room
         /\ op'.in - reply'.consumed = op.in /\ op'.out - reply'.produced = op.out
<1>1. reply' = NoReply /\ ~op'.finished
  BY DEF AnswerInv
<1>2. /\ NoReply.status = "none" /\ NoReply.consumed = 0 /\ NoReply.produced = 0
      /\ op.in \in Nat /\ op.out \in Nat
  BY DEF NoReply, Totals
<1>3. call' \in Calls /\ 0 <= call'.len
  BY DEF SessionInv, SessionTypes, Calls
<1>4. AnswerInv'
  BY <1>1, <1>2, <1>3 DEF AnswerInv, Statuses
<1> QED
  BY <1>1, <1>2, <1>4

(* A call that lacks input took all there was, or met its limit. *)
LEMMA ShortAnswers ==
  ASSUME SessionInv, SessionInv', AnswerInv, pc = "run", NEW n \in Nat, ShortOf(n)
  PROVE  /\ AnswerInv' /\ call'.len = call.len /\ call'.room = call.room
         /\ op'.in - reply'.consumed = op.in /\ op'.out - reply'.produced = op.out
<1>1. call \in Calls /\ op \in Totals /\ ~op.finished
  BY InCall DEF AnswerInv
<1>2. /\ Accepting(Loaded(n)).len = call.len /\ Accepting(Loaded(n)).room = call.room
      /\ Accepting(Loaded(n)).consumed = call.consumed + Loaded(n)
  BY <1>1 DEF Accepting, Calls
<1>3. call' = Accepting(Loaded(n)) /\ Accepting(Loaded(n)) \in Calls
  <2>1. call' = Accepting(Loaded(n))
    BY DEF ShortOf, StopInput, Fail, Return
  <2>2. call' \in Calls
    BY DEF SessionInv, SessionTypes
  <2> QED
    BY <2>1, <2>2
<1>4. CASE Loaded(n) = Have
  <2>1. call.consumed + Loaded(n) = call.len
    BY <1>1, <1>4 DEF Have, Calls
  <2>2. Return(IF op.finishing THEN "UnexpectedEnd" ELSE "NeedsInput", op, Accepting(Loaded(n)))
    BY <1>4 DEF ShortOf, StopInput
  <2>3. (IF op.finishing THEN "UnexpectedEnd" ELSE "NeedsInput") \in {"UnexpectedEnd", "NeedsInput"}
    OBVIOUS
  <2>4. PICK status \in {"UnexpectedEnd", "NeedsInput"} : Return(status, op, Accepting(Loaded(n)))
    BY <2>2, <2>3
  <2> QED
    BY <1>1, <1>2, <1>3, <2>1, <2>4, Answers DEF Statuses
<1>5. CASE Loaded(n) # Have
  <2>1. Return("InputLimit", op, Accepting(Loaded(n)))
    BY <1>5 DEF ShortOf, Fail
  <2> QED
    BY <1>1, <1>2, <1>3, <2>1, Answers DEF Statuses
<1> QED
  BY <1>4, <1>5

(* What a step of a call changes that its client can see. *)
Seen ==
  /\ AnswerInv' /\ call'.len = call.len /\ call'.room = call.room
  /\ op'.in - reply'.consumed = op.in /\ op'.out - reply'.produced = op.out

LEMMA StagesAnswer ==
  ASSUME SessionInv, SessionInv', AnswerInv, ReadBits \/ Literal \/ ReadAhead \/ Copy \/ ItemDone \/ Align
  PROVE  Seen
<1>1. pc = "run" /\ ~op.finished /\ op \in Totals /\ call \in Calls
  <2>1. pc = "run"
    BY DEF ReadBits, Literal, ReadAhead, Copy, ItemDone, Align, At
  <2> QED
    BY <2>1, InCall DEF AnswerInv
<1>2. CASE ReadBits \/ Literal
  <2>1. CASE Loaded(Current.n) < Missing(Current.n)
    <3>1. ShortOf(Current.n) /\ Current.n \in Nat
      <4>1. Current.n \in Nat
        BY <1>1, InCall, CurrentTypes DEF SessionInv
      <4> QED
        BY <1>2, <2>1, <4>1 DEF ReadBits, Literal
    <3> QED
      BY <1>1, <3>1, ShortAnswers DEF Seen
  <2>2. CASE ~(Loaded(Current.n) < Missing(Current.n))
    <3>1. /\ \/ call' = Accepting(Loaded(Current.n))
             \/ call' = [Accepting(Loaded(Current.n)) EXCEPT !.produced = @ + 1]
          /\ UNCHANGED <<pc, op, reply>>
      BY <1>2, <2>2 DEF ReadBits, Literal
    <3>2. call'.len = call.len /\ call'.room = call.room
      BY <1>1, <3>1 DEF Accepting, Calls
    <3> QED
      BY <1>1, <3>1, <3>2, GoesOn DEF Seen
  <2> QED
    BY <2>1, <2>2
<1>3. CASE ReadAhead \/ Copy \/ ItemDone \/ Align
  <2>1. /\ UNCHANGED <<pc, op, reply>>
        /\ \/ call' = Accepting(Accepted(bits)) \/ call' = call
           \/ \E n : call' = [call EXCEPT !.produced = @ + n]
    BY <1>3 DEF ReadAhead, Copy, ItemDone, Align
  <2>2. call'.len = call.len /\ call'.room = call.room
    BY <1>1, <2>1 DEF Accepting, Calls
  <2> QED
    BY <1>1, <2>1, <2>2, GoesOn DEF Seen
<1> QED
  BY <1>2, <1>3

LEMMA RunsAnswer == ASSUME SessionInv, SessionInv', AnswerInv, Raw \/ Skip PROVE Seen
<1>1. pc = "run" /\ ~op.finished /\ op \in Totals /\ call \in Calls /\ ByteBits \in Nat
  <2>1. pc = "run"
    BY DEF Raw, Skip, At
  <2> QED
    BY <2>1, InCall, BitsAssumption DEF AnswerInv
<1>2. \/ \E y : ThroughBits(y)
      \/ \E n, y : Bypass(n, y)
  BY DEF Raw, Skip
<1>3. ASSUME NEW y, ThroughBits(y) PROVE Seen
  <2>1. CASE Loaded(ByteBits) < Missing(ByteBits)
    <3>1. ShortOf(ByteBits)
      BY <1>3, <2>1 DEF ThroughBits
    <3> QED
      BY <1>1, <3>1, ShortAnswers DEF Seen
  <2>2. CASE ~(Loaded(ByteBits) < Missing(ByteBits))
    <3>1. /\ call' = [Accepting(Loaded(ByteBits)) EXCEPT !.produced = @ + y]
          /\ UNCHANGED <<pc, op, reply>>
      BY <1>3, <2>2 DEF ThroughBits
    <3>2. call'.len = call.len /\ call'.room = call.room
      BY <1>1, <3>1 DEF Accepting, Calls
    <3> QED
      BY <1>1, <3>1, <3>2, GoesOn DEF Seen
  <2> QED
    BY <2>1, <2>2
<1>4. ASSUME NEW n, NEW y, Bypass(n, y) PROVE Seen
  <2>1. call' = [Accepting(n) EXCEPT !.produced = @ + y] /\ UNCHANGED <<pc, op, reply>>
    BY <1>4 DEF Bypass
  <2>2. call'.len = call.len /\ call'.room = call.room
    BY <1>1, <2>1 DEF Accepting, Calls
  <2> QED
    BY <1>1, <2>1, <2>2, GoesOn DEF Seen
<1> QED
  BY <1>2, <1>3, <1>4

LEMMA StopsAnswer == ASSUME SessionInv, SessionInv', AnswerInv, NoRoom \/ Bad PROVE Seen
<1>1. pc = "run" /\ ~op.finished /\ op \in Totals /\ call \in Calls
  <2>1. pc = "run"
    BY DEF NoRoom, Bad, At
  <2> QED
    BY <2>1, InCall DEF AnswerInv
<1>2. CASE \E e \in {"OutputSizeMismatch", "InvalidData"} : Fail(e, bits, call)
  <2>1. PICK e \in {"OutputSizeMismatch", "InvalidData"} : Return(e, op, call)
    BY <1>2 DEF Fail
  <2> QED
    BY <1>1, <2>1, Answers DEF Statuses, Seen
<1>3. CASE Full /\ StopOutput
  <2> DEFINE c == UnreadCall(bits, call).call
  <2>1. Return("NeedsOutput", op, c)
    BY <1>3 DEF StopOutput
  <2>2. c.len = call.len /\ c.room = call.room /\ c.produced = call.produced
    BY <1>1 DEF UnreadCall, Calls
  <2>3. call' = c
    BY <2>1 DEF Return
  <2>4. c \in Calls
    BY <2>3 DEF SessionInv, SessionTypes
  <2>5. c.produced >= c.room
    BY <1>3, <2>2 DEF Full
  <2> HIDE DEF c
  <2> QED
    BY <1>1, <2>1, <2>2, <2>4, <2>5, Answers DEF Statuses, Seen
<1> QED
  BY <1>2, <1>3 DEF NoRoom, Bad

LEMMA EndsAnswer ==
  ASSUME SessionInv, SessionInv', AnswerInv, EndMember \/ Finish \/ BoundaryInput \/ NextMember PROVE Seen
<1>1. pc = "run" /\ ~op.finished /\ op \in Totals /\ call \in Calls
  <2>1. pc = "run"
    BY DEF EndMember, Finish, BoundaryInput, NextMember, AtBoundary
  <2> QED
    BY <2>1, InCall DEF AnswerInv
<1>2. CASE EndMember
  <2>1. /\ call' = UnreadCall(Aligned(bits), call).call /\ UNCHANGED <<pc, reply>>
        /\ op' = [op EXCEPT !.members = @ + 1, !.boundary = TRUE]
    BY <1>2 DEF EndMember
  <2>2. call'.len = call.len /\ call'.room = call.room
    BY <1>1, <2>1 DEF UnreadCall, Calls
  <2>3. op'.in = op.in /\ op'.out = op.out /\ op'.finished = op.finished
    BY <1>1, <2>1 DEF Totals
  <2> QED
    BY <1>1, <2>1, <2>2, <2>3, GoesOn DEF Seen
<1>3. CASE NextMember
  <2>1. op' = [op EXCEPT !.boundary = FALSE] /\ UNCHANGED <<pc, call, reply>>
    BY <1>3 DEF NextMember
  <2>2. op'.in = op.in /\ op'.out = op.out /\ op'.finished = op.finished
    BY <1>1, <2>1 DEF Totals
  <2> QED
    BY <1>1, <2>1, <2>2, GoesOn DEF Seen
<1>4. CASE BoundaryInput
  <2>1. Return("NeedsInput", op, call) /\ call.consumed = call.len
    BY <1>4 DEF BoundaryInput
  <2> QED
    BY <1>1, <2>1, Answers DEF Statuses, Seen
<1>5. CASE Finish
  <2>1. op.boundary
    BY <1>5 DEF Finish, AtBoundary
  <2>2. CASE SizeWrong
    <3>1. Return("OutputSizeMismatch", op, call)
      BY <1>5, <2>2 DEF Finish
    <3> QED
      BY <1>1, <3>1, Answers DEF Statuses, Seen
  <2>3. CASE ~SizeWrong
    <3> DEFINE o == [op EXCEPT !.finished = TRUE]
    <3>1. Return("Finished", o, call)
      BY <1>5, <2>3 DEF Finish
    <3>2. o \in Totals /\ o.in = op.in /\ o.out = op.out /\ o.boundary = op.boundary /\ o.finished
      BY <1>1 DEF Totals
    <3> HIDE DEF o
    <3> QED
      BY <1>1, <2>1, <3>1, <3>2, Answers DEF Statuses, Seen
  <2> QED
    BY <2>2, <2>3
<1> QED
  BY <1>2, <1>3, <1>4, <1>5

LEMMA RunAnswers ==
  ASSUME SessionInv, AnswerInv, Run
  PROVE  Seen /\ pc = "run" /\ open /\ open' = open
<1>1. SessionInv'
  BY RunPreserves
<1>2. Seen
  BY <1>1, StagesAnswer, RunsAnswer, StopsAnswer, EndsAnswer DEF Run
<1>3. pc = "run"
  BY DEF Run, EndMember, Finish, BoundaryInput, NextMember, AtBoundary, ReadBits, NoRoom, Literal,
         ReadAhead, Copy, ItemDone, Align, Raw, Skip, Bad, At
<1>4. open' = open
  BY DEF Run, EndMember, Finish, BoundaryInput, NextMember, ReadBits, NoRoom, Literal, ReadAhead, Copy,
         ItemDone, Align, Raw, Skip, Bad, ShortOf, StopInput, StopOutput, Fail, ThroughBits, Bypass,
         policyVars
<1> QED
  BY <1>2, <1>3, <1>4, InCall

(* A call begins: nothing has moved yet. *)
LEMMA ProcessAnswers ==
  ASSUME SessionInv, AnswerInv, NEW n, NEW room, NEW finish, Process(n, room, finish)
  PROVE  /\ AnswerInv' /\ open /\ open' = open /\ n \in Nat /\ call'.len = n /\ call'.room = room
         /\ op'.in = op.in /\ op'.out = op.out /\ op'.finished = op.finished
         /\ reply'.consumed = 0 /\ reply'.produced = 0
<1>1. /\ open /\ pc = "idle" /\ n \in Nat /\ room \in Nat /\ open' = open
      /\ call' = [len |-> n, consumed |-> 0, room |-> room, produced |-> 0]
  BY DEF Process, policyVars
<1>2. op \in Totals /\ op.in \in Nat /\ op.out \in Nat
  BY DEF SessionInv, SessionTypes, Totals
<1>3. call'.len = n /\ call'.room = room
  BY <1>1
<1>4. /\ op'.in = op.in /\ op'.out = op.out /\ op'.finished = op.finished /\ op'.boundary = op.boundary
      /\ \/ reply' = Refused /\ pc' = "idle"
         \/ reply' = [Refused EXCEPT !.status = "Finished"] /\ op.finished /\ pc' = "idle"
         \/ reply' = NoReply /\ ~op.finished
  <2>1. CASE op.failed
    <3>1. reply' = Refused /\ pc' = pc /\ op' = op
      BY <2>1 DEF Process
    <3> QED
      BY <1>1, <3>1
  <2>2. CASE ~op.failed /\ op.finished
    <3>1. reply' = [Refused EXCEPT !.status = "Finished"] /\ pc' = pc /\ op' = op
      BY <2>2 DEF Process
    <3> QED
      BY <1>1, <2>2, <3>1
  <2>3. CASE ~op.failed /\ ~op.finished
    <3>1. IF BreaksPromise(n, finish)
          THEN reply' = Refused /\ op' = [op EXCEPT !.failed = TRUE] /\ pc' = pc
          ELSE /\ reply' = NoReply
               /\ op' = IF finish /\ ~op.finishing
                        THEN [op EXCEPT !.finishing = TRUE, !.finalEnd = op.in + n]
                        ELSE op
      BY <2>3 DEF Process
    <3>2. CASE BreaksPromise(n, finish)
      BY <1>1, <1>2, <3>1, <3>2 DEF Totals
    <3>3. CASE ~BreaksPromise(n, finish)
      <4>1. reply' = NoReply
        BY <3>1, <3>3
      <4>2. op' = op \/ op' = [op EXCEPT !.finishing = TRUE, !.finalEnd = op.in + n]
        BY <3>1, <3>3
      <4> QED
        BY <1>2, <2>3, <4>1, <4>2 DEF Totals
    <3> QED
      BY <3>2, <3>3
  <2> QED
    BY <2>1, <2>2, <2>3
<1>5. reply'.consumed = 0 /\ reply'.produced = 0 /\ reply'.status \in {"none", "InvalidState", "Finished"}
      /\ (reply'.status = "Finished" => op.finished)
  BY <1>4 DEF Refused, NoReply
<1>6. AnswerInv'
  BY <1>1, <1>3, <1>4, <1>5 DEF AnswerInv, Statuses
<1> QED
  BY <1>1, <1>3, <1>4, <1>5, <1>6

(* Sessions come and go between calls. *)
LEMMA StartAnswers ==
  ASSUME SessionInv, AnswerInv, Start
  PROVE  AnswerInv' /\ ~open /\ open' /\ pc' = "idle" /\ op'.in = 0 /\ op'.out = 0 /\ ~op'.finished
<1>1. ~open /\ open' /\ UNCHANGED <<pc, call, op, reply>>
  BY DEF Start
<1>2. pc = "idle" /\ op = NewOperation
  BY <1>1 DEF SessionInv, Lifetimes
<1> QED
  BY <1>1, <1>2 DEF AnswerInv, NewOperation

LEMMA EndAnswers == ASSUME AnswerInv, EndSession PROVE AnswerInv' /\ open /\ ~open' /\ pc' = "idle"
  BY DEF EndSession, AnswerInv, NoReply, NoCall, NewOperation, Statuses

LEMMA SameAnswer ==
  ASSUME SessionInv, AnswerInv, Recover \/ UNCHANGED sessionVars
  PROVE  AnswerInv' /\ UNCHANGED <<open, pc, call, op, reply>>
<1>1. UNCHANGED <<open, pc, call, op, reply>>
  BY DEF Recover, sessionVars
<1> QED
  BY <1>1 DEF AnswerInv

LEMMA ActionAnswers == ASSUME SessionInv, AnswerInv, SessionAction PROVE AnswerInv'
  BY RunAnswers, ProcessAnswers, StartAnswers, EndAnswers, SameAnswer DEF SessionAction, Seen

(* The Read adapter. *)

LEMMA ReaderStarts == ASSUME SessionInv, AnswerInv, ReaderStart PROVE ReaderInv'
<1>1. /\ rd' = NewReader /\ got' = NoBytes /\ "read" \in DOMAIN src' /\ src'.read = 0
      /\ Start
  BY DEF ReaderStart
<1>2. open' /\ pc' = "idle" /\ op'.in = 0 /\ op'.out = 0
  BY <1>1, StartAnswers
<1>3. rd' \in Readers /\ rd'.pc = "idle" /\ rd'.cursor = 0 /\ rd'.filled = 0
  BY <1>1 DEF NewReader, Readers, Statuses
<1>4. got'.bytes = 0 /\ got'.last = "none"
  BY <1>1 DEF NoBytes
<1> QED
  BY <1>1, <1>2, <1>3, <1>4 DEF ReaderInv, ReaderOpen

LEMMA ReaderReads == ASSUME SessionInv, AnswerInv, ReaderInv, Read PROVE ReaderInv'
<1>1. /\ open /\ rd.pc = "idle" /\ UNCHANGED sessionVars /\ src' = src
      /\ rd \in Readers /\ ReaderOpen /\ got.bytes \in Nat /\ op \in Totals
  BY DEF Read, ReaderInv, SessionInv, SessionTypes
<1>2. UNCHANGED <<open, pc, call, op, reply>>
  BY <1>1 DEF sessionVars
<1>3. /\ rd' \in Readers /\ rd'.cursor = rd.cursor /\ rd'.filled = rd.filled
      /\ rd'.pc \in {"idle", "process"}
  BY <1>1 DEF Read, Readers, Statuses
<1>4. got'.bytes = got.bytes /\ got'.last # "end"
  <2>1. rd.pending # "end"
    BY <1>1 DEF Readers, Statuses
  <2>2. \E what : what # "end" /\ Result(0, what)
    BY <2>1 DEF Read
  <2> QED
    BY <1>1, <2>2 DEF Result
<1> QED
  BY <1>1, <1>2, <1>3, <1>4 DEF ReaderInv, ReaderOpen

LEMMA ReaderCalls == ASSUME SessionInv, AnswerInv, ReaderInv, ReaderProcess PROVE ReaderInv'
<1>1. /\ rd.pc = "process" /\ rd' = [rd EXCEPT !.pc = "wait"] /\ src' = src /\ got' = got
      /\ \E room \in ReadRooms : Process(rd.filled - rd.cursor, room, rd.eof)
  BY DEF ReaderProcess
<1>2. PICK room \in ReadRooms : Process(rd.filled - rd.cursor, room, rd.eof)
  BY <1>1
<1>3. room \in Nat /\ room > 0
  BY ReaderAssumption
<1>4. /\ open /\ open' = open /\ call'.len = rd.filled - rd.cursor /\ call'.room = room
      /\ op'.in = op.in /\ op'.out = op.out /\ reply'.consumed = 0 /\ reply'.produced = 0
  BY <1>2, ProcessAnswers
<1>5. rd \in Readers /\ ReaderOpen /\ got.bytes \in Nat /\ src.read \in Nat /\ "read" \in DOMAIN src
  BY <1>4 DEF ReaderInv
<1>6. /\ rd' \in Readers /\ rd'.pc = "wait" /\ rd'.cursor = rd.cursor /\ rd'.filled = rd.filled
  BY <1>1, <1>5 DEF Readers
<1>7. op.in \in Nat /\ op.out \in Nat
  BY DEF SessionInv, SessionTypes, Totals
<1>8. /\ rd.cursor <= rd.filled /\ src.read = op.in + (rd.filled - rd.cursor) /\ got.bytes = op.out
  BY <1>1, <1>5 DEF ReaderOpen
<1>9. ReaderOpen'
  BY <1>1, <1>3, <1>4, <1>6, <1>7, <1>8 DEF ReaderOpen
<1> QED
  BY <1>1, <1>4, <1>5, <1>6, <1>9 DEF ReaderInv

LEMMA ReaderAnswers == ASSUME SessionInv, AnswerInv, ReaderInv, ReaderAnswer PROVE ReaderInv'
<1>1. /\ rd.pc = "wait" /\ pc = "idle" /\ UNCHANGED sessionVars /\ src' = src
      /\ rd \in Readers /\ open = (rd.pc # "none") /\ op \in Totals /\ call \in Calls
  BY DEF ReaderAnswer, ReaderInv, SessionInv, SessionTypes
<1>2. UNCHANGED <<open, pc, call, op, reply>> /\ open
  BY <1>1 DEF sessionVars
<1>3. /\ rd.cursor <= rd.filled /\ call.len = rd.filled - rd.cursor /\ call.room > 0
      /\ src.read = op.in - reply.consumed + (rd.filled - rd.cursor) /\ got.bytes = op.out - reply.produced
      /\ src.read \in Nat /\ got.bytes \in Nat /\ "read" \in DOMAIN src
  BY <1>1, <1>2 DEF ReaderInv, ReaderOpen
<1>4. /\ reply.consumed \in Nat /\ reply.produced \in Nat /\ reply.status \in Statuses
      /\ reply.consumed <= call.len
  BY DEF AnswerInv
<1>5. op.in \in Nat /\ op.out \in Nat /\ rd.cursor \in Nat /\ rd.filled \in Nat
  BY <1>1 DEF Totals, Readers
<1>6. /\ rd.cursor + reply.consumed \in Nat /\ rd.cursor + reply.consumed <= rd.filled
      /\ src.read = op.in + (rd.filled - (rd.cursor + reply.consumed))
      /\ got.bytes + reply.produced = op.out
  BY <1>3, <1>4, <1>5
<1>7. Answered \in Readers /\ Answered.cursor = rd.cursor + reply.consumed /\ Answered.filled = rd.filled
  BY <1>1, <1>6 DEF Answered, Readers
<1>8. /\ rd' \in Readers /\ rd'.cursor = rd.cursor + reply.consumed /\ rd'.filled = rd.filled
      /\ rd'.pc \in {"idle", "source"}
      /\ got'.bytes = got.bytes + reply.produced
      /\ (rd'.pc = "source" => ~Failure /\ reply.produced = 0 /\ reply.status # "Finished")
      /\ (got'.last = "end" => reply.status = "Finished")
  <2>1. CASE Failure /\ reply.produced = 0
    <3>1. Result(0, reply.status) /\ rd' = [Answered EXCEPT !.pc = "idle", !.failed = TRUE]
      BY <2>1 DEF ReaderAnswer, Failure
    <3>2. got'.bytes = got.bytes + 0 /\ got'.last = reply.status /\ reply.status # "end"
      BY <1>4, <3>1 DEF Result, Statuses
    <3> QED
      BY <1>7, <2>1, <3>1, <3>2 DEF Readers
  <2>2. CASE Failure /\ reply.produced > 0
    <3>1. /\ Result(reply.produced, "ok")
          /\ rd' = [Answered EXCEPT !.pc = "idle", !.failed = TRUE, !.pending = reply.status]
      BY <2>2 DEF ReaderAnswer, Failure
    <3>2. got'.bytes = got.bytes + reply.produced /\ got'.last # "end"
      BY <3>1 DEF Result
    <3> QED
      BY <1>4, <1>7, <2>2, <3>1, <3>2 DEF Readers
  <2>3. CASE ~Failure /\ (reply.produced > 0 \/ reply.status = "Finished")
    <3>1. /\ Result(reply.produced, IF reply.produced > 0 THEN "ok" ELSE "end")
          /\ rd' = [Answered EXCEPT !.pc = "idle"]
      BY <2>3 DEF ReaderAnswer, Failure
    <3>2. got'.bytes = got.bytes + reply.produced /\ (got'.last = "end" => ~(reply.produced > 0))
      BY <3>1 DEF Result
    <3> QED
      BY <1>7, <2>3, <3>1, <3>2 DEF Readers
  <2>4. CASE ~Failure /\ reply.produced = 0 /\ reply.status # "Finished"
    <3>1. Result(0, "none") /\ rd' = [Answered EXCEPT !.pc = "source"]
      BY <2>4 DEF ReaderAnswer, Failure
    <3>2. got'.bytes = got.bytes + 0 /\ got'.last # "end"
      BY <3>1 DEF Result
    <3> QED
      BY <1>7, <2>4, <3>1, <3>2 DEF Readers
  <2> QED
    BY <1>4, <2>1, <2>2, <2>3, <2>4
<1>9. ASSUME rd'.pc = "source" PROVE rd'.cursor = rd'.filled
  <2>1. reply.status = "NeedsInput" \/ reply.status = "NeedsOutput"
    BY <1>8, <1>9 DEF Failure
  <2>2. reply.status = "NeedsOutput" => reply.produced >= call.room
    BY DEF AnswerInv
  <2>3. reply.status # "NeedsOutput"
    BY <1>1, <1>3, <1>4, <1>8, <1>9, <2>2 DEF Calls
  <2>4. reply.consumed = call.len
    BY <2>1, <2>3 DEF AnswerInv
  <2> QED
    BY <1>3, <1>5, <1>8, <2>4
<1>10. got'.last = "end" => op'.finished
  BY <1>2, <1>8 DEF AnswerInv
<1>11. got'.bytes \in Nat /\ got'.bytes = op'.out
  BY <1>2, <1>5, <1>6, <1>8
<1>12. ReaderOpen'
  BY <1>1, <1>2, <1>6, <1>8, <1>9, <1>10, <1>11 DEF ReaderOpen
<1> QED
  BY <1>1, <1>2, <1>3, <1>8, <1>11, <1>12 DEF ReaderInv

(* The source is asked only when nothing of the buffer is left. *)
LEMMA SourceReads == ASSUME SessionInv, AnswerInv, ReaderInv, Source PROVE ReaderInv'
<1>1. /\ rd.pc = "source" /\ UNCHANGED sessionVars
      /\ rd \in Readers /\ open = (rd.pc # "none") /\ op \in Totals
      /\ "read" \in DOMAIN src /\ src.read \in Nat /\ got.bytes \in Nat
  BY DEF Source, ReaderInv, SessionInv, SessionTypes
<1>2. UNCHANGED <<open, pc, call, op, reply>> /\ open
  BY <1>1 DEF sessionVars
<1>3. /\ pc = "idle" /\ rd.cursor = rd.filled /\ got.bytes = op.out
      /\ src.read = op.in + (rd.filled - rd.cursor)
  BY <1>1, <1>2 DEF ReaderInv, ReaderOpen
<1>4. op.in \in Nat /\ op.out \in Nat /\ rd.filled \in Nat
  BY <1>1 DEF Totals, Readers
<1>5. CASE rd' = [rd EXCEPT !.pc = "idle"] /\ Result(0, "io") /\ src' = src
  <2>1. rd' \in Readers /\ rd'.pc = "idle" /\ rd'.cursor = rd.cursor /\ rd'.filled = rd.filled
    BY <1>1, <1>5 DEF Readers
  <2>2. got'.bytes = got.bytes /\ got'.last = "io"
    BY <1>1, <1>5 DEF Result
  <2>3. ReaderOpen'
    BY <1>2, <1>3, <1>4, <1>5, <2>1, <2>2 DEF ReaderOpen
  <2> QED
    BY <1>1, <1>2, <1>5, <2>1, <2>2, <2>3 DEF ReaderInv
<1>6. ASSUME NEW n \in 0 .. Least(Buffer, src.len - src.read),
             rd' = [rd EXCEPT !.pc = "process", !.cursor = 0, !.filled = n, !.eof = n = 0],
             src' = [src EXCEPT !.read = @ + n], got' = got
      PROVE  ReaderInv'
  <2>1. n \in Nat /\ (n = 0) \in BOOLEAN
    OBVIOUS
  <2>2. rd' \in Readers /\ rd'.pc = "process" /\ rd'.cursor = 0 /\ rd'.filled = n
    BY <1>1, <1>6, <2>1 DEF Readers
  <2>3. "read" \in DOMAIN src' /\ src'.read = src.read + n
    BY <1>1, <1>6
  <2>4. src'.read = op.in + (n - 0) /\ src'.read \in Nat
    BY <1>3, <1>4, <2>1, <2>3
  <2>5. ReaderOpen'
    BY <1>2, <1>3, <1>4, <1>6, <2>1, <2>2, <2>4 DEF ReaderOpen
  <2> QED
    BY <1>1, <1>2, <1>6, <2>2, <2>3, <2>4, <2>5 DEF ReaderInv
<1> QED
  BY <1>5, <1>6 DEF Source

LEMMA ReaderRuns ==
  ASSUME SessionInv, AnswerInv, ReaderInv, rd.pc = "wait", Run, UNCHANGED readerVars
  PROVE  ReaderInv'
<1>1. /\ Seen /\ pc = "run" /\ open /\ open' = open /\ UNCHANGED <<rd, src, got>>
  BY RunAnswers DEF readerVars
<1>2. /\ reply.consumed = 0 /\ reply.produced = 0
  BY <1>1 DEF AnswerInv, NoReply
<1>3. /\ rd \in Readers /\ rd.cursor <= rd.filled /\ call.len = rd.filled - rd.cursor /\ call.room > 0
      /\ src.read = op.in - reply.consumed + (rd.filled - rd.cursor) /\ got.bytes = op.out - reply.produced
  BY <1>1 DEF ReaderInv, ReaderOpen
<1>4. op.in \in Nat /\ op.out \in Nat
  BY DEF SessionInv, SessionTypes, Totals
<1>5. /\ call'.len = call.len /\ call'.room = call.room
      /\ op'.in - reply'.consumed = op.in /\ op'.out - reply'.produced = op.out
  BY <1>1 DEF Seen
<1>6. src.read = op.in + (rd.filled - rd.cursor) /\ got.bytes = op.out
  BY <1>2, <1>3, <1>4
<1>7. ReaderOpen'
  BY <1>1, <1>3, <1>5, <1>6 DEF ReaderOpen
<1> QED
  BY <1>1, <1>7 DEF ReaderInv

LEMMA ReaderKeeps == ASSUME SessionInv, AnswerInv, ReaderInv, ReaderNext PROVE ReaderInv'
<1>1. ASSUME DropSession, rd' = NoReader, src' = NoSource, got' = NoBytes PROVE ReaderInv'
  <2>1. ~open'
    BY <1>1, EndAnswers DEF DropSession
  <2>2. /\ rd' \in Readers /\ rd'.pc = "none" /\ "read" \in DOMAIN src' /\ src'.read = 0 /\ got'.bytes = 0
    BY <1>1 DEF NoReader, NewReader, NoSource, NoBytes, Readers, Statuses
  <2> QED
    BY <2>1, <2>2 DEF ReaderInv
<1> QED
  BY <1>1, ReaderStarts, ReaderReads, ReaderCalls, ReaderAnswers, SourceReads, ReaderRuns DEF ReaderNext

LEMMA ReaderSame == ASSUME ReaderInv, UNCHANGED sessionVars, UNCHANGED readerVars PROVE ReaderInv'
  BY DEF ReaderInv, ReaderOpen, sessionVars, readerVars

(* What the invariant says at a return. *)
LEMMA ReaderTrue == ASSUME SessionInv, AnswerInv, ReaderInv PROVE ReaderAccounts
<1> SUFFICES ASSUME open, rd.pc = "idle"
             PROVE  /\ src.read = op.in + (rd.filled - rd.cursor) /\ got.bytes = op.out
                    /\ (op.finished /\ ~rd.failed) => Bytes(pos) = op.in
                    /\ got.last = "end" => op.finished
  BY DEF ReaderAccounts
<1>1. /\ pc = "idle" /\ src.read = op.in + (rd.filled - rd.cursor) /\ got.bytes = op.out
      /\ got.last = "end" => op.finished
  BY DEF ReaderInv, ReaderOpen
<1>2. ASSUME op.finished PROVE Bytes(pos) = op.in
  <2>1. bits.count = 0 /\ pos + bits.count = (op.in + 0) * ByteBits /\ pos \in Nat /\ op.in \in Nat
    BY <1>1, <1>2 DEF AnswerInv, SessionInv, OnByte, Position, Fresh, SessionTypes, Totals
  <2>2. pos = op.in * ByteBits
    BY <2>1, BitsAssumption
  <2>3. /\ Bytes(pos) \in Nat /\ pos <= Bytes(pos) * ByteBits /\ Bytes(pos) * ByteBits < pos + ByteBits
    BY <2>1, BytesHold
  <2>4. Bytes(pos) \in Int /\ op.in \in Int /\ ByteBits \in Nat
    BY <2>1, <2>3, BitsAssumption
  <2>5. /\ Bytes(pos) * ByteBits \in Int /\ op.in * ByteBits \in Int
        /\ Bytes(pos) < op.in => Bytes(pos) * ByteBits + ByteBits <= op.in * ByteBits
        /\ op.in < Bytes(pos) => op.in * ByteBits + ByteBits <= Bytes(pos) * ByteBits
    BY <2>4, Distribute
  <2>6. ByteBits > 1
    BY BitsAssumption
  <2> QED
    BY <2>2, <2>3, <2>4, <2>5, <2>6
<1> QED
  BY <1>1, <1>2

-----------------------------------------------------------------------------
(* The Write adapter. *)

LEMMA WriterStarts == ASSUME SessionInv, AnswerInv, WriterStart PROVE WriterInv'
<1>1. wr' = NewWriter /\ sink' = 0 /\ acked' = 0 /\ outcome' = "none" /\ Start
  BY DEF WriterStart
<1>2. open' /\ pc' = "idle" /\ op'.in = 0 /\ op'.out = 0
  BY <1>1, StartAnswers
<1>3. /\ wr' \in Writers /\ wr'.pc = "idle" /\ wr'.cursor = 0 /\ wr'.filled = 0 /\ wr'.input = 0
      /\ wr'.pending = "none" /\ wr'.lifecycle = "Accepting" /\ wr'.goal = "none"
  BY <1>1 DEF NewWriter, Writers, Statuses
<1>4. WriterBalance'
  BY <1>1, <1>2, <1>3 DEF WriterBalance, Unacknowledged
<1>5. WriterPlaces'
  BY <1>1, <1>2, <1>3 DEF WriterPlaces, Unacknowledged
<1>6. WriterEnds'
  BY <1>3 DEF WriterEnds
<1> QED
  BY <1>1, <1>2, <1>3, <1>4, <1>5, <1>6 DEF WriterInv

(* The facts of an operation in progress. *)
LEMMA Writing ==
  ASSUME SessionInv, AnswerInv, WriterInv, wr.pc # "none"
  PROVE  /\ open /\ wr \in Writers /\ sink \in Nat /\ acked \in Nat
         /\ wr.cursor \in Nat /\ wr.filled \in Nat /\ op.in \in Nat /\ op.out \in Nat
         /\ reply.consumed \in Nat /\ reply.produced \in Nat /\ reply.status \in Statuses
         /\ WriterBalance /\ WriterPlaces /\ WriterEnds
<1>1. open
  BY DEF WriterInv
<1> QED
  BY <1>1 DEF WriterInv, AnswerInv, SessionInv, SessionTypes, Totals, Writers

(* Entering an operation. *)
LEMMA WriterEnters ==
  ASSUME SessionInv, AnswerInv, WriterInv, NEW goal \in {"write", "flush", "finish"}, NEW n \in Nat,
         goal # "write" => n = 0, goal = "finish" => wr.lifecycle # "Finished", Entered(goal, n)
  PROVE  WriterInv'
<1>1. open /\ pc = "idle" /\ wr.pc = "idle" /\ UNCHANGED sessionVars /\ sink' = sink
  BY DEF Entered
<1>2. UNCHANGED <<open, pc, call, op, reply>>
  BY <1>1 DEF sessionVars
<1>3. /\ wr \in Writers /\ sink \in Nat /\ acked \in Nat /\ wr.cursor \in Nat /\ wr.filled \in Nat
      /\ op.in \in Nat /\ op.out \in Nat /\ WriterBalance /\ WriterPlaces /\ WriterEnds
  BY <1>1, Writing
<1> DEFINE w == [wr EXCEPT !.goal = goal, !.input = n, !.pumped = FALSE,
                   !.lifecycle = IF goal = "finish" /\ @ = "Accepting" THEN "Finishing" ELSE @]
<1>4. /\ w \in Writers /\ w.goal = goal /\ w.input = n /\ ~w.pumped /\ w.pc = "idle"
      /\ w.cursor = wr.cursor /\ w.filled = wr.filled /\ w.pending = wr.pending
      /\ (w.lifecycle = "Finished" => wr.lifecycle = "Finished")
  BY <1>1, <1>3 DEF Writers
<1>5. IF w.pending # "none"
      THEN Ended([w EXCEPT !.pending = "none"], w.pending, 0)
      ELSE wr' = [w EXCEPT !.pc = "drain"] /\ outcome' = "none" /\ acked' = acked
  BY DEF Entered
<1> HIDE DEF w
<1>6. /\ wr' \in Writers /\ wr'.goal = goal /\ wr'.input = n /\ ~wr'.pumped /\ wr'.pc \in {"idle", "drain"}
      /\ wr'.cursor = wr.cursor /\ wr'.filled = wr.filled /\ wr'.pending = "none"
      /\ wr'.lifecycle = w.lifecycle /\ acked' = acked /\ outcome' # "ok"
  <2>1. CASE w.pending # "none"
    <3>1. Ended([w EXCEPT !.pending = "none"], w.pending, 0)
      BY <1>5, <2>1
    <3>2. /\ wr' = [[w EXCEPT !.pending = "none"] EXCEPT !.pc = "idle"]
          /\ outcome' = w.pending /\ acked' = acked + 0
      BY <3>1 DEF Ended
    <3>3. wr' \in Writers /\ w.pending # "ok"
      BY <1>4, <3>2 DEF Writers, Statuses
    <3> QED
      BY <1>3, <1>4, <3>2, <3>3 DEF Writers
  <2>2. CASE w.pending = "none"
    <3>1. wr' = [w EXCEPT !.pc = "drain"] /\ outcome' = "none" /\ acked' = acked
      BY <1>5, <2>2
    <3> QED
      BY <1>4, <2>2, <3>1 DEF Writers
  <2> QED
    BY <2>1, <2>2
<1>7. WriterBalance'
  BY <1>1, <1>2, <1>3, <1>6 DEF WriterBalance, Unacknowledged
<1>8. WriterPlaces'
  BY <1>1, <1>2, <1>6 DEF WriterPlaces, Unacknowledged
<1>9. WriterEnds'
  <2>1. wr'.lifecycle = "Finished" => op.finished /\ Emptied
    BY <1>3, <1>4, <1>6 DEF WriterEnds
  <2>2. wr'.lifecycle = "Finished" => op'.finished /\ Emptied'
    BY <1>2, <1>6, <2>1 DEF Emptied
  <2> QED
    BY <1>6, <2>2 DEF WriterEnds
<1> QED
  BY <1>1, <1>2, <1>3, <1>6, <1>7, <1>8, <1>9 DEF WriterInv

(* The end of an operation that returns anything but ok. *)
LEMMA WriterFails ==
  ASSUME SessionInv, AnswerInv, WriterInv, UNCHANGED sessionVars, sink' = sink,
         wr.pc \in {"drain", "checked", "pumped", "flush"}, wr.pending = "none",
         NEW r, r # "ok", Ended(wr, r, 0), Unacknowledged => reply.consumed = 0
  PROVE  WriterInv'
<1>1. /\ wr' = [wr EXCEPT !.pc = "idle"] /\ outcome' = r /\ acked' = acked + 0
      /\ UNCHANGED <<open, pc, call, op, reply>>
  BY DEF Ended, sessionVars
<1>2. /\ open /\ wr \in Writers /\ sink \in Nat /\ acked \in Nat /\ wr.cursor \in Nat /\ wr.filled \in Nat
      /\ op.in \in Nat /\ op.out \in Nat /\ WriterBalance /\ WriterPlaces /\ WriterEnds
  BY Writing
<1>3. /\ wr' \in Writers /\ wr'.pc = "idle" /\ wr'.goal = wr.goal /\ wr'.input = wr.input
      /\ wr'.pumped = wr.pumped
      /\ wr'.cursor = wr.cursor /\ wr'.filled = wr.filled /\ wr'.pending = wr.pending
      /\ wr'.lifecycle = wr.lifecycle
  BY <1>1, <1>2 DEF Writers
<1>4. acked = op.in /\ sink + (wr.filled - wr.cursor) = op.out /\ wr.cursor <= wr.filled /\ pc = "idle"
  BY <1>2 DEF WriterBalance, WriterPlaces
<1>5. WriterBalance'
  BY <1>1, <1>2, <1>3, <1>4 DEF WriterBalance, Unacknowledged
<1>6. WriterPlaces'
  BY <1>1, <1>2, <1>3, <1>4 DEF WriterPlaces, Unacknowledged
<1>7. WriterEnds'
  BY <1>1, <1>2, <1>3 DEF WriterEnds, Emptied
<1> QED
  BY <1>1, <1>2, <1>3, <1>5, <1>6, <1>7 DEF WriterInv

LEMMA WriterDrains == ASSUME SessionInv, AnswerInv, WriterInv, Drain PROVE WriterInv'
<1>1. wr.pc = "drain" /\ UNCHANGED sessionVars
  BY DEF Drain
<1>2. UNCHANGED <<open, pc, call, op, reply>>
  BY <1>1 DEF sessionVars
<1>3. /\ open /\ wr \in Writers /\ sink \in Nat /\ acked \in Nat /\ wr.cursor \in Nat /\ wr.filled \in Nat
      /\ op.in \in Nat /\ op.out \in Nat /\ WriterBalance /\ WriterPlaces /\ WriterEnds
      /\ reply.consumed \in Nat
  BY <1>1, Writing
<1>4. wr.pending = "none" /\ wr.cursor <= wr.filled /\ pc = "idle"
      /\ sink + (wr.filled - wr.cursor) = op.out
      /\ Unacknowledged = wr.pumped /\ acked = op.in - (IF wr.pumped THEN reply.consumed ELSE 0)
      /\ (wr.goal # "write" => wr.input = 0)
      /\ (wr.pumped /\ wr.goal # "write" => reply.consumed = 0)
      /\ (wr.lifecycle = "Finished" => op.finished /\ wr.filled = 0 /\ wr.cursor = 0 /\ ~wr.pumped)
  BY <1>1, <1>3 DEF WriterEnds, WriterPlaces, WriterBalance, Unacknowledged, Emptied, Writers
<1>5. CASE Bytes2Go > 0 /\ SinkFails /\ sink' = sink
  <2>1. CASE wr.pumped /\ reply.consumed > 0
    <3>1. wr' = [wr EXCEPT !.pending = "sink", !.pc = "pumped"] /\ UNCHANGED <<outcome, acked>>
      BY <1>5, <2>1 DEF SinkFails
    <3>2. /\ wr' \in Writers /\ wr'.pc = "pumped" /\ wr'.goal = wr.goal /\ wr'.input = wr.input
          /\ wr'.pumped = wr.pumped /\ wr'.cursor = wr.cursor /\ wr'.filled = wr.filled
          /\ wr'.pending = "sink" /\ wr'.lifecycle = wr.lifecycle
      BY <1>3, <3>1 DEF Writers, Statuses
    <3>3. wr.goal = "write" /\ wr.lifecycle # "Finished"
      BY <1>3, <1>4, <2>1
    <3>4. WriterBalance'
      BY <1>2, <1>3, <1>4, <1>5, <2>1, <3>1, <3>2 DEF WriterBalance, Unacknowledged
    <3>5. WriterPlaces'
      BY <1>2, <1>4, <2>1, <3>2, <3>3 DEF WriterPlaces, Unacknowledged
    <3>6. WriterEnds'
      BY <1>2, <2>1, <3>2, <3>3 DEF WriterEnds
    <3> QED
      BY <1>2, <1>3, <1>5, <3>1, <3>2, <3>4, <3>5, <3>6 DEF WriterInv
  <2>2. CASE ~(wr.pumped /\ reply.consumed > 0)
    <3>1. Ended(wr, "sink", 0)
      BY <1>5, <2>2 DEF SinkFails
    <3>2. Unacknowledged => reply.consumed = 0
      BY <1>3, <1>4, <2>2
    <3> QED
      BY <1>1, <1>4, <1>5, <3>1, <3>2, WriterFails
  <2> QED
    BY <2>1, <2>2
<1>6. ASSUME Bytes2Go > 0, NEW n \in 1 .. Bytes2Go, sink' = sink + n, wr' = [wr EXCEPT !.cursor = @ + n],
             UNCHANGED <<outcome, acked>>
      PROVE  WriterInv'
  <2>1. Bytes2Go = wr.filled - wr.cursor /\ n \in Nat /\ n <= wr.filled - wr.cursor /\ n >= 1
    BY <1>3, <1>6 DEF Bytes2Go
  <2>2. /\ wr' \in Writers /\ wr'.pc = "drain" /\ wr'.goal = wr.goal /\ wr'.input = wr.input
        /\ wr'.pumped = wr.pumped /\ wr'.cursor = wr.cursor + n /\ wr'.filled = wr.filled
        /\ wr'.pending = wr.pending /\ wr'.lifecycle = wr.lifecycle
    BY <1>1, <1>3, <1>6, <2>1 DEF Writers
  <2>3. wr.lifecycle # "Finished"
    BY <1>4, <2>1
  <2>4. sink' \in Nat /\ wr'.cursor <= wr'.filled /\ sink' + (wr'.filled - wr'.cursor) = op.out
    BY <1>3, <1>4, <1>6, <2>1, <2>2
  <2>5. WriterBalance'
    <3>1. Unacknowledged' = wr.pumped
      BY <1>3, <2>2 DEF Unacknowledged, Writers
    <3>2. acked' = op'.in - (IF Unacknowledged' THEN reply'.consumed ELSE 0)
      BY <1>2, <1>4, <1>6, <3>1, Zenon
    <3> QED
      BY <1>1, <1>2, <1>3, <2>2, <2>4, <3>2 DEF WriterBalance
  <2>6. WriterPlaces'
    BY <1>2, <1>4, <2>2 DEF WriterPlaces, Unacknowledged
  <2>7. WriterEnds'
    BY <1>4, <2>2, <2>3 DEF WriterEnds
  <2> QED
    BY <1>2, <1>3, <1>6, <2>2, <2>4, <2>5, <2>6, <2>7 DEF WriterInv
<1>7. CASE Bytes2Go = 0 /\ UNCHANGED <<sink, outcome, acked>>
           /\ wr' = [wr EXCEPT !.cursor = 0, !.filled = 0,
                               !.pc = IF wr.pumped THEN "pumped" ELSE "checked"]
  <2>1. wr.filled - wr.cursor = 0
    BY <1>7 DEF Bytes2Go
  <2>2. /\ wr' \in Writers /\ wr'.pc = (IF wr.pumped THEN "pumped" ELSE "checked")
        /\ wr'.goal = wr.goal /\ wr'.input = wr.input
        /\ wr'.pumped = wr.pumped /\ wr'.cursor = 0 /\ wr'.filled = 0
        /\ wr'.pending = wr.pending /\ wr'.lifecycle = wr.lifecycle
    BY <1>3, <1>7 DEF Writers
  <2>3. sink' + (0 - 0) = op.out
    BY <1>3, <1>4, <1>7, <2>1
  <2>4. WriterBalance'
    <3>1. Unacknowledged' = wr.pumped
      BY <1>3, <2>2 DEF Unacknowledged, Writers
    <3>2. acked' = op'.in - (IF Unacknowledged' THEN reply'.consumed ELSE 0)
      BY <1>2, <1>4, <1>7, <3>1, Zenon
    <3>3. wr'.pc # "wait" /\ op'.out \in Nat
      BY <1>2, <1>3, <2>2
    <3> QED
      BY <1>2, <2>2, <2>3, <3>2, <3>3 DEF WriterBalance
  <2>5. WriterPlaces'
    BY <1>2, <1>4, <2>2 DEF WriterPlaces, Unacknowledged, Emptied
  <2>6. WriterEnds'
    BY <1>2, <1>4, <2>2 DEF WriterEnds, Emptied
  <2> QED
    BY <1>2, <1>3, <1>7, <2>2, <2>4, <2>5, <2>6 DEF WriterInv
<1> QED
  BY <1>5, <1>6, <1>7 DEF Drain

(* An operation goes on, or ends with ok, after a step that moves no byte. *)
LEMMA WriterMoves ==
  ASSUME SessionInv, AnswerInv, WriterInv, UNCHANGED sessionVars, sink' = sink,
         wr.pc \in {"checked", "pumped", "flush"}, wr.pending = "none", Emptied,
         wr' \in Writers, wr'.cursor = wr.cursor, wr'.filled = wr.filled, wr'.input = wr.input,
         wr'.pending = "none", wr'.pc \in {"idle", "pump", "flush"},
         acked' = op.in, wr'.goal # "write" => wr.goal # "write",
         wr'.pc = "flush" => wr'.goal # "write" /\ (wr'.goal = "finish" => op.finished),
         wr'.lifecycle = "Finished" => op.finished /\ wr'.pc # "pump"
  PROVE  WriterInv'
<1>1. UNCHANGED <<open, pc, call, op, reply>>
  BY DEF sessionVars
<1>2. /\ open /\ sink \in Nat /\ op.in \in Nat /\ op.out \in Nat
      /\ WriterBalance /\ WriterPlaces /\ WriterEnds
  BY Writing
<1>3. wr'.cursor = 0 /\ wr'.filled = 0 /\ Emptied' /\ ~Unacknowledged'
  BY DEF Emptied, Unacknowledged
<1>4. WriterBalance'
  BY <1>1, <1>2, <1>3 DEF WriterBalance, Emptied
<1>5. WriterPlaces'
  BY <1>1, <1>2, <1>3 DEF WriterPlaces
<1>6. WriterEnds'
  BY <1>1, <1>3 DEF WriterEnds
<1> QED
  BY <1>1, <1>2, <1>4, <1>5, <1>6 DEF WriterInv

LEMMA WriterChecks == ASSUME SessionInv, AnswerInv, WriterInv, Checked PROVE WriterInv'
<1>1. wr.pc = "checked" /\ UNCHANGED sessionVars /\ sink' = sink
  BY DEF Checked
<1>2. /\ wr \in Writers /\ acked \in Nat /\ op.in \in Nat /\ WriterBalance /\ WriterPlaces /\ WriterEnds
  BY <1>1, Writing
<1>3. /\ wr.pending = "none" /\ Emptied /\ ~Unacknowledged /\ acked = op.in
      /\ (wr.lifecycle = "Finished" => op.finished)
  BY <1>1, <1>2 DEF WriterBalance, WriterPlaces, WriterEnds, Unacknowledged
<1>4. ASSUME NEW r \in {"InvalidState", "TrailingData"}, Ended(wr, r, 0) PROVE WriterInv'
  BY <1>1, <1>3, <1>4, WriterFails
<1>5. CASE /\ wr.lifecycle # "Failed"
           /\ wr.goal = "write" => wr.lifecycle = "Accepting" /\ ~op.finished
           /\ wr' = [wr EXCEPT !.pc = IF op.finished THEN "flush" ELSE "pump",
                               !.goal = IF wr.lifecycle = "Finishing" THEN "finish" ELSE @]
           /\ UNCHANGED <<outcome, acked>>
  <2>1. /\ wr' \in Writers /\ wr'.cursor = wr.cursor /\ wr'.filled = wr.filled /\ wr'.input = wr.input
        /\ wr'.pending = wr.pending /\ wr'.lifecycle = wr.lifecycle
        /\ wr'.pc = (IF op.finished THEN "flush" ELSE "pump")
        /\ wr'.goal = (IF wr.lifecycle = "Finishing" THEN "finish" ELSE wr.goal)
    BY <1>2, <1>5 DEF Writers
  <2>2. wr'.goal # "write" => wr.goal # "write"
    BY <1>5, <2>1
  <2>3. wr'.pc = "flush" => wr'.goal # "write" /\ op.finished
    BY <1>5, <2>1
  <2> QED
    BY <1>1, <1>3, <1>5, <2>1, <2>2, <2>3, WriterMoves
<1> QED
  BY <1>4, <1>5 DEF Checked

LEMMA WriterPumps == ASSUME SessionInv, AnswerInv, WriterInv, Pump PROVE WriterInv'
<1>1. /\ wr.pc = "pump" /\ wr' = [wr EXCEPT !.pc = "wait"] /\ sink' = sink /\ acked' = acked
      /\ outcome' = outcome /\ Process(wr.input, Outbox, wr.goal = "finish")
  BY DEF Pump
<1>2. /\ AnswerInv' /\ open /\ open' = open /\ call'.len = wr.input
      /\ op'.in = op.in /\ op'.out = op.out /\ reply'.consumed = 0 /\ reply'.produced = 0
  BY <1>1, ProcessAnswers
<1>3. /\ wr \in Writers /\ sink \in Nat /\ acked \in Nat /\ op.in \in Nat /\ op.out \in Nat
      /\ WriterBalance /\ WriterPlaces /\ WriterEnds
  BY <1>1, Writing
<1>4. /\ wr' \in Writers /\ wr'.pc = "wait" /\ wr'.goal = wr.goal /\ wr'.input = wr.input
      /\ wr'.cursor = wr.cursor /\ wr'.filled = wr.filled
      /\ wr'.pending = wr.pending /\ wr'.lifecycle = wr.lifecycle
  BY <1>1, <1>3 DEF Writers
<1>5. /\ Emptied /\ ~Unacknowledged /\ acked = op.in /\ sink + (wr.filled - wr.cursor) = op.out
      /\ (wr.goal # "write" => wr.input = 0) /\ wr.pending = "none" /\ wr.lifecycle # "Finished"
      /\ wr.cursor <= wr.filled
  BY <1>1, <1>3 DEF WriterBalance, WriterPlaces, WriterEnds, Unacknowledged
<1>6. WriterBalance'
  BY <1>1, <1>2, <1>3, <1>4, <1>5 DEF WriterBalance
<1>7. WriterPlaces'
  BY <1>2, <1>4, <1>5 DEF WriterPlaces, Emptied
<1>8. WriterEnds'
  BY <1>4, <1>5 DEF WriterEnds
<1> QED
  BY <1>1, <1>2, <1>3, <1>4, <1>6, <1>7, <1>8 DEF WriterInv

LEMMA WriterRuns ==
  ASSUME SessionInv, AnswerInv, WriterInv, wr.pc = "wait", Run, UNCHANGED writerVars
  PROVE  WriterInv'
<1>1. Seen /\ pc = "run" /\ open /\ open' = open /\ UNCHANGED <<wr, sink, acked, outcome>>
  BY RunAnswers DEF writerVars
<1>2. /\ wr \in Writers /\ sink \in Nat /\ acked \in Nat /\ op.in \in Nat /\ op.out \in Nat
      /\ WriterBalance /\ WriterPlaces /\ WriterEnds
  BY Writing
<1>3. reply.consumed = 0 /\ reply.produced = 0
  BY <1>1 DEF AnswerInv, NoReply
<1>4. /\ AnswerInv' /\ call'.len = call.len
      /\ op'.in - reply'.consumed = op.in /\ op'.out - reply'.produced = op.out
  BY <1>1 DEF Seen
<1>5. /\ Emptied /\ acked = op.in - 0 /\ sink + (wr.filled - wr.cursor) = op.out - 0
      /\ (wr.goal # "write" => wr.input = 0) /\ wr.pending = "none" /\ wr.lifecycle # "Finished"
      /\ wr.cursor <= wr.filled /\ call.len = wr.input
  BY <1>2, <1>3 DEF WriterBalance, WriterPlaces, WriterEnds, Unacknowledged
<1>6. WriterBalance'
  BY <1>1, <1>2, <1>4, <1>5 DEF WriterBalance, Unacknowledged
<1>7. wr.goal # "write" => reply'.consumed = 0
  <2>1. reply'.consumed \in Nat /\ reply'.consumed <= call'.len
    BY <1>4 DEF AnswerInv
  <2> QED
    BY <1>4, <1>5, <2>1
<1>8. WriterPlaces'
  BY <1>1, <1>4, <1>5, <1>7 DEF WriterPlaces, Emptied
<1>9. WriterEnds'
  BY <1>1, <1>5 DEF WriterEnds
<1> QED
  BY <1>1, <1>2, <1>6, <1>8, <1>9 DEF WriterInv

LEMMA WriterAnswered == ASSUME SessionInv, AnswerInv, WriterInv, PumpAnswer PROVE WriterInv'
<1>1. wr.pc = "wait" /\ pc = "idle" /\ UNCHANGED sessionVars /\ sink' = sink
  BY DEF PumpAnswer
<1>2. UNCHANGED <<open, pc, call, op, reply>>
  BY <1>1 DEF sessionVars
<1>3. /\ open /\ wr \in Writers /\ sink \in Nat /\ acked \in Nat /\ op.in \in Nat /\ op.out \in Nat
      /\ reply.consumed \in Nat /\ reply.produced \in Nat /\ reply.status \in Statuses
      /\ WriterBalance /\ WriterPlaces /\ WriterEnds
  BY <1>1, Writing
<1>4. /\ wr.filled = 0 /\ wr.cursor = 0 /\ acked = op.in - reply.consumed
      /\ sink + (wr.filled - wr.cursor) = op.out - reply.produced
      /\ (wr.goal # "write" => wr.input = 0 /\ reply.consumed = 0)
      /\ wr.pending = "none" /\ wr.lifecycle # "Finished"
  BY <1>1, <1>3 DEF WriterBalance, WriterPlaces, WriterEnds, Unacknowledged, Emptied
<1> DEFINE w == [wr EXCEPT !.filled = reply.produced, !.pumped = TRUE]
           f == [w EXCEPT !.lifecycle = "Failed"]
<1>5. /\ wr' \in Writers /\ wr'.goal = wr.goal /\ wr'.input = wr.input /\ wr'.pumped
      /\ wr'.cursor = 0 /\ wr'.filled = reply.produced /\ wr'.lifecycle # "Finished"
      /\ \/ wr'.pc = "drain" /\ wr'.pending = "none" /\ acked' = acked /\ outcome' = outcome
         \/ /\ wr'.pc = "pumped" /\ reply.consumed > 0 /\ acked' = acked /\ outcome' = outcome
         \/ /\ wr'.pc = "idle" /\ wr'.pending = "none" /\ reply.consumed = 0 /\ acked' = acked + 0
            /\ outcome' = reply.status
  <2>1. CASE wr' = [w EXCEPT !.pc = "drain"] /\ UNCHANGED <<outcome, acked>>
    BY <1>3, <1>4, <2>1 DEF Writers
  <2>2. CASE /\ reply.consumed > 0 /\ wr' = [f EXCEPT !.pending = reply.status, !.pc = "pumped"]
             /\ UNCHANGED <<outcome, acked>>
    BY <1>3, <1>4, <2>2 DEF Writers
  <2>3. CASE reply.consumed = 0 /\ Ended(f, reply.status, 0)
    BY <1>3, <1>4, <2>3 DEF Writers, Ended
  <2> QED
    BY <2>1, <2>2, <2>3 DEF PumpAnswer
<1>6. sink + (reply.produced - 0) = op.out /\ reply.status # "ok"
  BY <1>3, <1>4 DEF Statuses
<1>7. WriterBalance'
  BY <1>1, <1>2, <1>3, <1>4, <1>5, <1>6 DEF WriterBalance, Unacknowledged
<1>8. WriterPlaces'
  BY <1>1, <1>2, <1>3, <1>4, <1>5, <1>6 DEF WriterPlaces, Unacknowledged
<1>9. WriterEnds'
  BY <1>2, <1>3, <1>4, <1>5 DEF WriterEnds
<1>10. acked' \in Nat
  BY <1>3, <1>5
<1> QED
  BY <1>1, <1>2, <1>3, <1>5, <1>7, <1>8, <1>9, <1>10 DEF WriterInv

LEMMA WriterLoops == ASSUME SessionInv, AnswerInv, WriterInv, Pumped PROVE WriterInv'
<1>1. wr.pc = "pumped" /\ UNCHANGED sessionVars /\ sink' = sink
  BY DEF Pumped
<1>2. UNCHANGED <<open, pc, call, op, reply>>
  BY <1>1 DEF sessionVars
<1>3. /\ open /\ wr \in Writers /\ sink \in Nat /\ acked \in Nat /\ op.in \in Nat /\ op.out \in Nat
      /\ reply.consumed \in Nat /\ WriterBalance /\ WriterPlaces /\ WriterEnds
  BY <1>1, Writing
<1>4. /\ wr.pumped /\ pc = "idle" /\ acked = op.in - reply.consumed /\ wr.lifecycle # "Finished"
      /\ sink + (wr.filled - wr.cursor) = op.out /\ wr.cursor <= wr.filled
      /\ (wr.goal # "write" => wr.input = 0 /\ reply.consumed = 0)
      /\ (reply.consumed = 0 => Emptied /\ wr.pending = "none")
  BY <1>1, <1>3 DEF WriterBalance, WriterPlaces, WriterEnds, Unacknowledged
<1>5. CASE wr.goal = "write" /\ reply.consumed > 0 /\ Ended(wr, "ok", reply.consumed)
  <2>1. wr' = [wr EXCEPT !.pc = "idle"] /\ acked' = acked + reply.consumed
    BY <1>5 DEF Ended
  <2>2. /\ wr' \in Writers /\ wr'.pc = "idle" /\ wr'.goal = "write" /\ wr'.lifecycle = wr.lifecycle
        /\ wr'.cursor = wr.cursor /\ wr'.filled = wr.filled
    BY <1>3, <1>5, <2>1 DEF Writers
  <2>3. acked' = op.in
    BY <1>3, <1>4, <2>1
  <2>4. WriterBalance'
    BY <1>1, <1>2, <1>3, <1>4, <2>2, <2>3 DEF WriterBalance, Unacknowledged
  <2>5. WriterPlaces'
    BY <1>2, <1>4, <2>2 DEF WriterPlaces, Unacknowledged
  <2>6. WriterEnds'
    BY <1>4, <2>2 DEF WriterEnds
  <2> QED
    BY <1>1, <1>2, <1>3, <2>2, <2>3, <2>4, <2>5, <2>6 DEF WriterInv
<1>6. CASE wr.goal = "write" /\ reply.consumed = 0 /\ Ended(wr, "TrailingData", 0)
  BY <1>1, <1>4, <1>6, WriterFails
<1>7. ASSUME reply.consumed = 0, NEW p \in {"pump", "flush"}, wr' = [wr EXCEPT !.pc = p],
             p = "flush" => wr.goal # "write" /\ (wr.goal = "finish" => op.finished),
             UNCHANGED <<outcome, acked>>
      PROVE  WriterInv'
  <2>1. /\ wr' \in Writers /\ wr'.pc = p /\ wr'.goal = wr.goal /\ wr'.lifecycle = wr.lifecycle
        /\ wr'.cursor = wr.cursor /\ wr'.filled = wr.filled /\ wr'.input = wr.input
        /\ wr'.pending = wr.pending
    BY <1>3, <1>7 DEF Writers
  <2>2. acked' = op.in
    BY <1>3, <1>4, <1>7
  <2> QED
    BY <1>1, <1>4, <1>7, <2>1, <2>2, WriterMoves
<1>8. CASE /\ wr.goal = "write" /\ reply.consumed = 0 /\ wr' = [wr EXCEPT !.pc = "pump"]
           /\ UNCHANGED <<outcome, acked>>
  BY <1>7, <1>8
<1>9. CASE /\ wr.goal # "write" /\ UNCHANGED <<outcome, acked>>
           /\ LET over == op.finished \/ (wr.goal = "flush" /\ reply.status = "NeedsInput")
              IN  wr' = [wr EXCEPT !.pc = IF over THEN "flush" ELSE "pump"]
  <2>1. \/ wr' = [wr EXCEPT !.pc = "pump"]
        \/ wr' = [wr EXCEPT !.pc = "flush"] /\ (wr.goal = "finish" => op.finished)
    BY <1>9
  <2> QED
    BY <1>4, <1>7, <1>9, <2>1
<1> QED
  BY <1>5, <1>6, <1>8, <1>9 DEF Pumped

LEMMA WriterFlushes == ASSUME SessionInv, AnswerInv, WriterInv, FlushSink PROVE WriterInv'
<1>1. wr.pc = "flush" /\ UNCHANGED sessionVars /\ sink' = sink
  BY DEF FlushSink
<1>2. /\ wr \in Writers /\ acked \in Nat /\ op.in \in Nat /\ WriterBalance /\ WriterPlaces /\ WriterEnds
  BY <1>1, Writing
<1>3. /\ wr.pending = "none" /\ Emptied /\ ~Unacknowledged /\ acked = op.in
      /\ wr.goal # "write" /\ (wr.goal = "finish" => op.finished)
      /\ (wr.lifecycle = "Finished" => op.finished)
  BY <1>1, <1>2 DEF WriterBalance, WriterPlaces, WriterEnds, Unacknowledged
<1>4. CASE Ended(wr, "sink", 0)
  BY <1>1, <1>3, <1>4, WriterFails
<1>5. CASE Ended([wr EXCEPT !.lifecycle = IF wr.goal = "finish" THEN "Finished" ELSE @], "ok", 0)
  <2>1. /\ wr' = [[wr EXCEPT !.lifecycle = IF wr.goal = "finish" THEN "Finished" ELSE @] EXCEPT !.pc = "idle"]
        /\ acked' = acked + 0
    BY <1>5 DEF Ended
  <2>2. /\ wr' \in Writers /\ wr'.pc = "idle" /\ wr'.goal = wr.goal
        /\ wr'.lifecycle = (IF wr.goal = "finish" THEN "Finished" ELSE wr.lifecycle)
        /\ wr'.cursor = wr.cursor /\ wr'.filled = wr.filled /\ wr'.input = wr.input
        /\ wr'.pending = wr.pending
    BY <1>2, <2>1 DEF Writers
  <2>3. acked' = op.in
    BY <1>2, <1>3, <2>1
  <2>4. wr'.lifecycle = "Finished" => op.finished
    BY <1>3, <2>2
  <2> QED
    BY <1>1, <1>3, <2>2, <2>3, <2>4, WriterMoves
<1> QED
  BY <1>4, <1>5 DEF FlushSink

LEMMA WriterKeeps ==
  ASSUME SessionInv, AnswerInv, WriterInv, WriterNext
  PROVE  WriterInv'
<1>1. ASSUME DropSession, wr' = NoWriter, sink' = 0, acked' = 0, outcome' = "none" PROVE WriterInv'
  <2>1. ~open'
    BY <1>1, EndAnswers DEF DropSession
  <2>2. wr' \in Writers /\ wr'.pc = "none"
    BY <1>1 DEF NoWriter, NewWriter, Writers, Statuses
  <2> QED
    BY <1>1, <2>1, <2>2 DEF WriterInv
<1>2. ASSUME Write PROVE WriterInv'
  <2>1. PICK n \in WriteLens : n <= Unread0 /\ Entered("write", n)
    BY <1>2 DEF Write
  <2>2. n \in Nat
    BY WriterAssumption
  <2> QED
    BY <2>1, <2>2, WriterEnters
<1>3. ASSUME Flush \/ TryFinish PROVE WriterInv'
  <2>1. Entered("flush", 0) \/ (Entered("finish", 0) /\ wr.lifecycle # "Finished")
    BY <1>3 DEF Flush, TryFinish
  <2> QED
    BY <2>1, WriterEnters
<1> QED
  BY <1>1, <1>2, <1>3, WriterStarts, WriterDrains, WriterChecks, WriterPumps, WriterAnswered,
     WriterLoops, WriterFlushes, WriterRuns
  DEF WriterNext

LEMMA WriterSame == ASSUME WriterInv, UNCHANGED sessionVars, UNCHANGED writerVars PROVE WriterInv'
  BY DEF WriterInv, WriterBalance, WriterPlaces, WriterEnds, Emptied, Unacknowledged, sessionVars, writerVars

LEMMA WriterTrue == ASSUME SessionInv, AnswerInv, WriterInv PROVE WriterDelivers
<1> SUFFICES ASSUME open, wr.pc = "idle"
             PROVE  /\ acked = op.in
                    /\ sink + wr.filled - wr.cursor = op.out
                    /\ (wr.goal # "write" /\ outcome = "ok") => sink = op.out
                    /\ wr.lifecycle = "Finished" => op.finished /\ sink = op.out /\ wr.pending = "none"
  BY DEF WriterDelivers
<1>1. /\ sink \in Nat /\ acked \in Nat /\ wr.cursor \in Nat /\ wr.filled \in Nat /\ op.in \in Nat /\ op.out \in Nat
      /\ WriterBalance /\ WriterPlaces /\ WriterEnds
  BY Writing
<1>2. acked = op.in /\ sink + (wr.filled - wr.cursor) = op.out
  BY <1>1 DEF WriterBalance, Unacknowledged
<1>3. (wr.goal # "write" /\ outcome = "ok") => wr.filled = wr.cursor
  BY <1>1 DEF WriterPlaces
<1>4. wr.lifecycle = "Finished" => op.finished /\ wr.filled = 0 /\ wr.cursor = 0 /\ wr.pending = "none"
  BY <1>1 DEF WriterEnds, Emptied
<1> QED
  BY <1>1, <1>2, <1>3, <1>4

-----------------------------------------------------------------------------
(* Behind every client. *)

LEMMA ClientsStart == Init => ClientInv
<1> SUFFICES ASSUME Init PROVE ClientInv
  OBVIOUS
<1>1. SessionInit /\ ReaderInit /\ WriterInit
  BY DEF Init
<1>2. AnswerInv /\ ~open
  BY <1>1 DEF SessionInit, AnswerInv, NoReply, NoCall, NewOperation, Statuses
<1>3. rd.pc = "none" /\ ReaderInv
  <2>1. /\ rd \in Readers /\ rd.pc = "none" /\ "read" \in DOMAIN src /\ src.read = 0 /\ got.bytes = 0
    BY <1>1 DEF ReaderInit, NoReader, NewReader, NoSource, NoBytes, Readers, Statuses
  <2> QED
    BY <1>2, <2>1 DEF ReaderInv
<1>4. wr.pc = "none" /\ WriterInv
  <2>1. wr \in Writers /\ wr.pc = "none" /\ sink = 0 /\ acked = 0
    BY <1>1 DEF WriterInit, NoWriter, NewWriter, Writers, Statuses
  <2> QED
    BY <1>2, <2>1 DEF WriterInv
<1> QED
  BY <1>2, <1>3, <1>4 DEF ClientInv

LEMMA ClientsKeep == ASSUME SessionInv, ClientInv, [Next]_vars PROVE ClientInv'
<1>1. AnswerInv'
  <2>1. Next => SessionAction
    BY CallerActs, ReaderActs, WriterActs, ShotActs DEF Next
  <2>2. UNCHANGED vars => SessionAction
    BY DEF vars, SessionAction
  <2> QED
    BY <2>1, <2>2, ActionAnswers DEF ClientInv
<1>2. client' = client
  BY DEF Next, vars
<1>3. CASE client = "reader"
  <2>1. ReaderInv /\ AnswerInv /\ wr.pc = "none"
    BY <1>3 DEF ClientInv
  <2>2. \/ ReaderNext /\ UNCHANGED writerVars
        \/ UNCHANGED <<sessionVars, readerVars, writerVars>>
    BY <1>3 DEF Next, vars
  <2>3. wr' = wr /\ ReaderInv'
    BY <2>1, <2>2, ReaderKeeps, ReaderSame DEF writerVars
  <2> QED
    BY <1>1, <1>2, <1>3, <2>1, <2>3 DEF ClientInv
<1>4. CASE client = "writer"
  <2>1. WriterInv /\ AnswerInv /\ rd.pc = "none"
    BY <1>4 DEF ClientInv
  <2>2. \/ WriterNext /\ UNCHANGED readerVars
        \/ UNCHANGED <<sessionVars, readerVars, writerVars>>
    BY <1>4 DEF Next, vars
  <2>3. rd' = rd /\ WriterInv'
    BY <2>1, <2>2, WriterKeeps, WriterSame DEF readerVars
  <2> QED
    BY <1>1, <1>2, <1>4, <2>1, <2>3 DEF ClientInv
<1>5. CASE client \notin {"reader", "writer"}
  <2>1. rd.pc = "none" /\ wr.pc = "none"
    BY <1>5 DEF ClientInv
  <2>2. rd' = rd /\ wr' = wr
    BY <1>5 DEF Next, vars, readerVars, writerVars
  <2> QED
    BY <1>1, <1>2, <1>5, <2>1, <2>2 DEF ClientInv
<1> QED
  BY <1>3, <1>4, <1>5

(* Through short reads and writes, failures and repeated calls the decoding
   adapters keep their accounts: every source byte is accepted by the session
   or handed back by into_parts, write() acknowledges what the session took,
   what was decoded is in the sink, the outbox or the caller's slices, a
   successful flush leaves nothing behind, and zero bytes or a finished writer
   mean the end of the stream (DecoderReader::read, DecoderWriter::write,
   flush, try_finish). *)
THEOREM DecodingAdaptersAreFaithful == Spec => [](ReaderAccounts /\ WriterDelivers)
<1>1. Init => ClientInv
  BY ClientsStart
<1>2. SessionInv /\ ClientInv /\ [Next]_vars => ClientInv'
  BY ClientsKeep
<1>3. SessionInv /\ ClientInv => ReaderAccounts /\ WriterDelivers
  <2> SUFFICES ASSUME SessionInv, ClientInv PROVE ReaderAccounts /\ WriterDelivers
    OBVIOUS
  <2>1. AnswerInv
    BY DEF ClientInv
  <2>2. ReaderAccounts
    BY <2>1, ReaderTrue DEF ClientInv, ReaderAccounts
  <2>3. WriterDelivers
    BY <2>1, WriterTrue DEF ClientInv, WriterDelivers
  <2> QED
    BY <2>2, <2>3
<1> QED
  BY <1>1, <1>2, <1>3, DecodingInvariant, PTL DEF Spec
=============================================================================
