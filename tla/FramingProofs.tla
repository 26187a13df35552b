---------------------------- MODULE FramingProofs ----------------------------
(***************************************************************************)
(* Whatever is sent, and however the streams are cut, it is delivered as    *)
(* it was sent, and no buffer is written behind its end.                    *)
(***************************************************************************)
EXTENDS Framing, SequenceLemmas

-----------------------------------------------------------------------------
(* Integers.                                                               *)

LEMMA Division ==
  ASSUME NEW m \in Nat, m >= 2, NEW n \in Nat
  PROVE  /\ n \div m \in Nat /\ n % m \in 0..(m - 1) /\ n = m * (n \div m) + (n % m)
         /\ \A k \in Nat : n < m * k => n \div m < k
<1>1. n \div m \in Nat /\ n % m \in 0..(m - 1) /\ n = m * (n \div m) + (n % m)
  OBVIOUS
<1>2. ASSUME NEW k \in Nat, n < m * k, ~(n \div m < k) PROVE FALSE
  <2> DEFINE q == n \div m
  <2>1. q \in Nat /\ k <= q /\ m * q <= n
    BY <1>1, <1>2
  <2> HIDE DEF q
  <2>2. m * k <= m * q
    BY <2>1
  <2>3. m * k \in Nat /\ m * q \in Nat
    BY <2>1
  <2> QED BY <1>2, <2>1, <2>2, <2>3
<1> QED BY <1>1, <1>2

LEMMA HalfIs == Base \in Nat /\ Base >= 2 /\ Half \in Nat /\ Half >= 2 /\ Half = Base * Base
<1>1. Base \in Nat /\ Base >= 2
  BY BaseAssumption
<1>2. Base * Base \in Nat /\ Base * Base >= 2
  BY <1>1
<1> QED BY <1>1, <1>2 DEF Half

LEMMA UInt16RoundTrip ==
  ASSUME NEW n \in UInt16
  PROVE  /\ EncodedUInt16(n) \in Seq(Byte) /\ Len(EncodedUInt16(n)) = 2
         /\ \A b, at : ByteAt(b, at) = EncodedUInt16(n)[1] /\ ByteAt(b, at + 1) = EncodedUInt16(n)[2]
              => DecodedUInt16(b, at) = n
<1>1. n \in Nat /\ n < Base * Base /\ Base \in Nat /\ Base >= 2
  BY HalfIs DEF UInt16
<1> DEFINE q == n \div Base
           r == n % Base
<1>2. q \in 0..(Base - 1) /\ r \in 0..(Base - 1) /\ n = Base * q + r
  <2>1. q \in Nat /\ q < Base /\ r \in 0..(Base - 1) /\ n = Base * q + r
    BY <1>1, Division
  <2> HIDE DEF q, r
  <2> QED BY <1>1, <2>1
<1>3. q % Base = q
  BY <1>1, <1>2
<1>4. EncodedUInt16(n) = <<q, r>>
  BY <1>3 DEF EncodedUInt16
<1> HIDE DEF q, r
<1>5. q \in Byte /\ r \in Byte
  BY <1>2 DEF Byte
<1>6. <<q, r>> \in Seq(Byte) /\ Len(<<q, r>>) = 2 /\ <<q, r>>[1] = q /\ <<q, r>>[2] = r
  BY <1>5
<1> QED BY <1>2, <1>4, <1>6 DEF DecodedUInt16

LEMMA Int32RoundTrip ==
  ASSUME NEW n \in UInt32
  PROVE  /\ EncodedInt32(n) \in Seq(Byte) /\ Len(EncodedInt32(n)) = 4
         /\ \A b, at : /\ at \in Nat
                      /\ ByteAt(b, at) = EncodedInt32(n)[1] /\ ByteAt(b, at + 1) = EncodedInt32(n)[2]
                      /\ ByteAt(b, at + 2) = EncodedInt32(n)[3] /\ ByteAt(b, at + 3) = EncodedInt32(n)[4]
                      => DecodedInt32(b, at) = n
<1>1. n \in Nat /\ n < Half * Half /\ Half \in Nat /\ Half >= 2
  <2>1. Half \in Nat /\ Half >= 2
    BY HalfIs
  <2>2. Half * Half \in Nat
    BY <2>1
  <2> QED BY <2>1, <2>2 DEF UInt32
<1> DEFINE q == n \div Half
           r == n % Half
<1>2. q \in UInt16 /\ r \in UInt16 /\ n = Half * q + r
  <2>1. q \in Nat /\ q < Half /\ r \in 0..(Half - 1) /\ n = Half * q + r
    BY <1>1, Division
  <2> QED BY <1>1, <2>1 DEF UInt16
<1> DEFINE s == EncodedUInt16(q)
           u == EncodedUInt16(r)
<1>3. /\ s \in Seq(Byte) /\ Len(s) = 2 /\ u \in Seq(Byte) /\ Len(u) = 2
      /\ \A b, at : ByteAt(b, at) = s[1] /\ ByteAt(b, at + 1) = s[2] => DecodedUInt16(b, at) = q
      /\ \A b, at : ByteAt(b, at) = u[1] /\ ByteAt(b, at + 1) = u[2] => DecodedUInt16(b, at) = r
  <2> HIDE DEF q, r
  <2> QED BY <1>2, UInt16RoundTrip
<1>4. EncodedInt32(n) = s \o u
  BY DEF EncodedInt32
<1> HIDE DEF s, u, q, r
<1>5. /\ s \o u \in Seq(Byte) /\ Len(s \o u) = 4
      /\ (s \o u)[1] = s[1] /\ (s \o u)[2] = s[2] /\ (s \o u)[3] = u[1] /\ (s \o u)[4] = u[2]
  <2>1. /\ s \o u \in Seq(Byte) /\ Len(s \o u) = Len(s) + Len(u)
        /\ \A i \in 1..(Len(s) + Len(u)) : (s \o u)[i] = IF i <= Len(s) THEN s[i] ELSE u[i - Len(s)]
    BY <1>3, ConcatProperties
  <2>2. Len(s \o u) = 4 /\ \A i \in 1..4 : (s \o u)[i] = IF i <= 2 THEN s[i] ELSE u[i - 2]
    BY <1>3, <2>1
  <2>3. /\ 1 \in 1..4 /\ 2 \in 1..4 /\ 3 \in 1..4 /\ 4 \in 1..4
        /\ 1 <= 2 /\ 2 <= 2 /\ ~(3 <= 2) /\ ~(4 <= 2) /\ 3 - 2 = 1 /\ 4 - 2 = 2
    OBVIOUS
  <2> QED BY <2>1, <2>2, <2>3
<1>6. ASSUME NEW b, NEW at \in Nat,
             ByteAt(b, at) = s[1], ByteAt(b, at + 1) = s[2],
             ByteAt(b, at + 2) = u[1], ByteAt(b, at + 3) = u[2]
      PROVE  DecodedInt32(b, at) = n
  <2>1. at + 2 + 1 = at + 3
    OBVIOUS
  <2>2. DecodedUInt16(b, at) = q /\ DecodedUInt16(b, at + 2) = r
    BY <1>3, <1>6, <2>1
  <2> QED BY <1>2, <2>2 DEF DecodedInt32
<1> QED BY <1>4, <1>5, <1>6

-----------------------------------------------------------------------------
(* Bytes in buffers and in sequences.                                       *)

\* The bytes s are in the buffer b from at on.
InBuf(b, at, s) == \A k \in 1..Len(s) : ByteAt(b, at + k - 1) = s[k]

LEMMA TextIs ==
  ASSUME NEW s \in Text
  PROVE  Len(s) \in Nat /\ s \in Seq(Byte) /\ \A k \in 1..Len(s) : s[k] \in Byte /\ s[k] # 0
<1>1. s \in Seq(Byte \ {0})
  BY DEF Text
<1>2. Len(s) \in Nat /\ \A k \in 1..Len(s) : s[k] \in Byte \ {0}
  BY <1>1, LenProperties, ElementOfSeq
<1>3. s = [k \in 1..Len(s) |-> s[k]]
  BY <1>1
<1> QED BY <1>2, <1>3

LEMMA SliceIs ==
  ASSUME NEW b, NEW at \in Nat, NEW s \in Seq(Byte), InBuf(b, at, s)
  PROVE  Slice(b, at, Len(s)) = s
<1>1. Len(s) \in Nat /\ s = [k \in 1..Len(s) |-> s[k]]
  BY LenProperties
<1>2. \A k \in 1..Len(s) : ByteAt(b, at + k - 1) = s[k]
  BY DEF InBuf
<1> QED BY <1>1, <1>2 DEF Slice

LEMMA StrAtIs ==
  ASSUME NEW N \in Nat, NEW b, DOMAIN b = 0..(N - 1), NEW at \in Nat, NEW s \in Text,
         at + Len(s) < N, InBuf(b, at, s), b[at + Len(s)] = 0
  PROVE  StrAt(b, at) = s
<1>1. /\ Len(s) \in Nat /\ s \in Seq(Byte) /\ \A k \in 1..Len(s) : s[k] # 0
  BY TextIs
<1>2. Max(DOMAIN b) = N - 1
  <2>1. N - 1 \in DOMAIN b /\ \A x \in DOMAIN b : x \in Int /\ N - 1 >= x
    BY <1>1
  <2>2. \A x \in DOMAIN b : x # N - 1 => ~(x >= N - 1)
    BY <2>1
  <2> QED BY <2>1, <2>2 DEF Max
<1>3. N - 1 + 1 = N
  OBVIOUS
<1> DEFINE ends == {k \in at..N : k \in DOMAIN b => b[k] = 0}
           e == at + Len(s)
<1>4. e \in ends /\ \A k \in ends : k \in Int /\ e <= k
  <2>1. e \in ends
    BY <1>1
  <2>2. ASSUME NEW k \in ends, ~(e <= k) PROVE FALSE
    <3>1. k \in Nat /\ at <= k /\ k < e /\ k \in DOMAIN b
      BY <1>1, <2>2
    <3>2. b[k] = 0
      BY <3>1
    <3>3. k - at + 1 \in 1..Len(s) /\ at + (k - at + 1) - 1 = k
      BY <1>1, <3>1
    <3>4. ByteAt(b, k) = s[k - at + 1]
      BY <3>3 DEF InBuf
    <3>5. ByteAt(b, k) = 0
      BY <3>1, <3>2 DEF ByteAt
    <3> QED BY <1>1, <3>3, <3>4, <3>5
  <2>3. \A k \in ends : k \in Int
    OBVIOUS
  <2> QED BY <2>1, <2>2, <2>3
<1>5. StrAt(b, at) = Slice(b, at, IF ends = {} THEN 0 ELSE Min(ends) - at)
  BY <1>2, <1>3 DEF StrAt
<1>6. e \in Int /\ e - at = Len(s)
  BY <1>1
<1> HIDE DEF ends, e
<1>7. Min(ends) = e
  <2>1. \A k \in ends : k # e => ~(k <= e)
    BY <1>4, <1>6
  <2> QED BY <1>4, <2>1 DEF Min
<1>8. ends # {}
  BY <1>4
<1>9. StrAt(b, at) = Slice(b, at, Len(s))
  BY <1>5, <1>6, <1>7, <1>8
<1> QED BY <1>1, <1>9, SliceIs

\* A string in a field of a header.
LEMMA FieldIs ==
  ASSUME NEW s \in Text, Len(s) < TopicMax
  PROVE  LET f == Copied(Zeros(TopicMax), 0, s)
         IN  /\ f \in [0..(TopicMax - 1) -> Byte]
             /\ f[TopicMax - 1] = 0
             /\ StrAt(f, 0) = s
             /\ \A h : h = Zeros(TopicMax) => Copied(h, 0, s) = f
<1> DEFINE f == Copied(Zeros(TopicMax), 0, s)
<1>1. /\ Len(s) \in Nat /\ \A k \in 1..Len(s) : s[k] \in Byte
      /\ TopicMax \in Nat \ {0} /\ 0 \in Byte
  BY TextIs, BaseAssumption DEF Byte
<1>2. f = [k \in 0..(TopicMax - 1) |-> IF k >= 0 /\ k < 0 + Len(s) THEN s[k - 0 + 1] ELSE 0]
  BY DEF Copied, Zeros
<1>3. ASSUME NEW k \in 0..(TopicMax - 1)
      PROVE  f[k] = (IF k < Len(s) THEN s[k + 1] ELSE 0) /\ f[k] \in Byte
  <2>1. k >= 0 /\ k - 0 + 1 = k + 1 /\ 0 + Len(s) = Len(s)
    BY <1>1
  <2>2. f[k] = IF k < Len(s) THEN s[k + 1] ELSE 0
    BY <1>2, <2>1
  <2>3. k < Len(s) => k + 1 \in 1..Len(s)
    BY <1>1
  <2> QED BY <1>1, <2>2, <2>3
<1>4. DOMAIN f = 0..(TopicMax - 1)
  BY <1>2
<1>5. f \in [0..(TopicMax - 1) -> Byte]
  BY <1>2, <1>3
<1> HIDE DEF f
<1>6. f[TopicMax - 1] = 0 /\ f[Len(s)] = 0
  <2>1. /\ TopicMax - 1 \in 0..(TopicMax - 1) /\ ~(TopicMax - 1 < Len(s))
        /\ Len(s) \in 0..(TopicMax - 1) /\ ~(Len(s) < Len(s))
    BY <1>1
  <2> QED BY <1>3, <2>1
<1>7. InBuf(f, 0, s)
  <2> SUFFICES ASSUME NEW k \in 1..Len(s) PROVE ByteAt(f, 0 + k - 1) = s[k]
    BY DEF InBuf
  <2>1. k - 1 \in 0..(TopicMax - 1) /\ k - 1 < Len(s) /\ k - 1 + 1 = k /\ 0 + k - 1 = k - 1
    BY <1>1
  <2>2. f[k - 1] = s[k]
    BY <1>3, <2>1
  <2> QED BY <1>4, <2>1, <2>2 DEF ByteAt
<1>8. StrAt(f, 0) = s
  <2>1. 0 + Len(s) = Len(s) /\ 0 \in Nat
    BY <1>1
  <2> QED BY <1>1, <1>4, <1>6, <1>7, <2>1, StrAtIs
<1> QED BY <1>5, <1>6, <1>8 DEF f

LEMMA TruncatedIs ==
  ASSUME NEW s \in Text
  PROVE  Truncated(s) \in Text /\ Len(Truncated(s)) \in Nat /\ Len(Truncated(s)) < TopicMax
<1>1. /\ Len(s) \in Nat /\ TopicMax \in Nat \ {0}
      /\ \A k \in 1..Len(s) : s[k] \in Byte \ {0}
  BY TextIs, BaseAssumption
<1> DEFINE n == IF Len(s) < TopicMax THEN Len(s) ELSE TopicMax - 1
<1>2. n \in Nat /\ n <= Len(s) /\ n < TopicMax
  BY <1>1
<1>3. Truncated(s) = SubSeq(s, 1, n)
  BY DEF Truncated
<1> HIDE DEF n
<1>4. \A k \in 1..n : s[k] \in Byte \ {0}
  BY <1>1, <1>2
<1>5. /\ SubSeq(s, 1, n) \in Seq(Byte \ {0})
      /\ Len(SubSeq(s, 1, n)) = IF 1 <= n THEN n - 1 + 1 ELSE 0
  BY <1>2, <1>4, SubSeqProperties
<1> QED BY <1>2, <1>3, <1>5 DEF Text

-----------------------------------------------------------------------------
(* The bytes of a header.                                                   *)

\* P has the bytes s behind its first at ones.
Has(P, at, s) == at + Len(s) <= Len(P) /\ \A k \in 1..Len(s) : P[at + k] = s[k]

LEMMA HasParts ==
  ASSUME NEW p \in Seq(Byte), NEW s \in Seq(Byte)
  PROVE  /\ p \o s \in Seq(Byte) /\ Len(p \o s) = Len(p) + Len(s)
         /\ Has(p \o s, 0, p) /\ Has(p \o s, Len(p), s)
         /\ \A at \in Nat, u \in Seq(Byte) : Has(p, at, u) => Has(p \o s, at, u)
<1>1. /\ p \o s \in Seq(Byte) /\ Len(p \o s) = Len(p) + Len(s)
      /\ \A i \in 1..(Len(p) + Len(s)) : (p \o s)[i] = IF i <= Len(p) THEN p[i] ELSE s[i - Len(p)]
      /\ Len(p) \in Nat /\ Len(s) \in Nat
  BY ConcatProperties, LenProperties
<1>2. ASSUME NEW at \in Nat, NEW u \in Seq(Byte), Has(p, at, u) PROVE Has(p \o s, at, u)
  <2>1. Len(u) \in Nat /\ at + Len(u) <= Len(p) /\ \A k \in 1..Len(u) : p[at + k] = u[k]
    BY <1>2, LenProperties DEF Has
  <2>2. at + Len(u) <= Len(p) + Len(s)
    BY <1>1, <2>1
  <2>3. ASSUME NEW k \in 1..Len(u) PROVE (p \o s)[at + k] = u[k]
    <3>1. at + k \in 1..(Len(p) + Len(s)) /\ at + k <= Len(p)
      BY <1>1, <2>1
    <3> QED BY <1>1, <2>1, <3>1
  <2> QED BY <1>1, <2>2, <2>3 DEF Has
<1>3. Has(p \o s, Len(p), s)
  <2>1. ASSUME NEW k \in 1..Len(s) PROVE (p \o s)[Len(p) + k] = s[k]
    <3>1. /\ Len(p) + k \in 1..(Len(p) + Len(s)) /\ ~(Len(p) + k <= Len(p))
          /\ Len(p) + k - Len(p) = k
      BY <1>1
    <3> QED BY <1>1, <3>1
  <2>2. Len(p) + Len(s) <= Len(p \o s)
    BY <1>1
  <2> QED BY <2>1, <2>2 DEF Has
<1>4. Has(p, 0, p)
  <2>1. 0 + Len(p) <= Len(p) /\ \A k \in 1..Len(p) : 0 + k = k
    BY <1>1
  <2> QED BY <2>1 DEF Has
<1>5. Has(p \o s, 0, p)
  BY <1>2, <1>4
<1> QED BY <1>1, <1>2, <1>3, <1>5

\* A string behind its length.
LEMMA HasString ==
  ASSUME NEW P \in Seq(Byte), NEW at \in Nat, NEW s \in Text, Len(s) \in UInt32,
         Has(P, at, EncodedString(s))
  PROVE  Has(P, at, EncodedInt32(Len(s))) /\ Has(P, at + 4, s)
<1> DEFINE n == EncodedInt32(Len(s))
<1>1. /\ n \in Seq(Byte) /\ Len(n) = 4 /\ s \in Seq(Byte) /\ Len(s) \in Nat
      /\ EncodedString(s) = n \o s
  BY Int32RoundTrip, TextIs DEF EncodedString
<1> HIDE DEF n
<1>2. /\ Len(n \o s) = 4 + Len(s)
      /\ \A i \in 1..(4 + Len(s)) : (n \o s)[i] = IF i <= 4 THEN n[i] ELSE s[i - 4]
  <2>1. /\ Len(n \o s) = Len(n) + Len(s)
        /\ \A i \in 1..(Len(n) + Len(s)) :
             (n \o s)[i] = IF i <= Len(n) THEN n[i] ELSE s[i - Len(n)]
    BY <1>1, ConcatProperties
  <2> QED BY <1>1, <2>1
<1>3. at + (4 + Len(s)) <= Len(P) /\ \A k \in 1..(4 + Len(s)) : P[at + k] = (n \o s)[k]
  BY <1>1, <1>2 DEF Has
<1>4. Has(P, at, n)
  <2>1. at + 4 <= Len(P)
    BY <1>1, <1>3, LenProperties
  <2>2. ASSUME NEW k \in 1..4 PROVE P[at + k] = n[k]
    <3>1. k \in 1..(4 + Len(s)) /\ k <= 4
      BY <1>1
    <3> QED BY <1>2, <1>3, <3>1
  <2> QED BY <1>1, <2>1, <2>2 DEF Has
<1>5. Has(P, at + 4, s)
  <2>1. at + 4 + Len(s) = at + (4 + Len(s))
    BY <1>1
  <2>2. ASSUME NEW k \in 1..Len(s) PROVE P[at + 4 + k] = s[k]
    <3>1. /\ 4 + k \in 1..(4 + Len(s)) /\ ~(4 + k <= 4) /\ 4 + k - 4 = k
          /\ at + 4 + k = at + (4 + k)
      BY <1>1
    <3>2. (n \o s)[4 + k] = s[4 + k - 4]
      BY <1>2, <3>1
    <3>3. P[at + (4 + k)] = (n \o s)[4 + k]
      BY <1>3, <3>1
    <3> QED BY <3>1, <3>2, <3>3
  <2> QED BY <1>3, <2>1, <2>2 DEF Has
<1> QED BY <1>4, <1>5 DEF n

Keeps(p, q) == \A at \in Nat, u \in Seq(Byte) : Has(p, at, u) => Has(q, at, u)

LEMMA Extended ==
  ASSUME NEW p \in Seq(Byte), NEW s \in Seq(Byte)
  PROVE  /\ p \o s \in Seq(Byte) /\ Len(p \o s) = Len(p) + Len(s)
         /\ Has(p \o s, Len(p), s) /\ Keeps(p, p \o s)
BY HasParts DEF Keeps

LEMMA Associative ==
  ASSUME NEW s \in Seq(Byte), NEW t \in Seq(Byte), NEW u \in Seq(Byte)
  PROVE  (s \o t) \o u = s \o (t \o u)
BY ConcatAssociative


\* Where the bytes of a header with these strings are.
Layout(P, h, tp, rp) ==
  /\ Has(P, 2, EncodedUInt16(FixedSize + Len(tp) + Len(rp)))
  /\ Has(P, 4, EncodedInt32(h.sequence_number))
  /\ Has(P, 8, EncodedInt32(h.flags))
  /\ Has(P, 12, EncodedInt32(h.control_data))
  /\ Has(P, 16, EncodedInt32(h.payload_length))
  /\ Has(P, 20, EncodedInt32(Len(tp))) /\ Has(P, 24, tp)
  /\ Has(P, 24 + Len(tp), EncodedInt32(Len(rp))) /\ Has(P, 28 + Len(tp), rp)

\* The values of a header fit into its fields.
Fits(h, tp, rp) ==
  /\ h.sequence_number \in UInt32 /\ h.flags \in UInt32
  /\ h.control_data \in UInt32 /\ h.payload_length \in UInt32
  /\ tp \in Text /\ rp \in Text /\ Len(tp) < TopicMax /\ Len(rp) < TopicMax

LEMMA HeaderSizes ==
  ASSUME NEW h, NEW tp, NEW rp, Fits(h, tp, rp)
  PROVE  /\ Len(tp) \in Nat /\ Len(rp) \in Nat /\ Len(tp) \in UInt32 /\ Len(rp) \in UInt32
         /\ FixedSize + Len(tp) + Len(rp) \in UInt16 /\ 1 \in UInt16
         /\ \A n \in UInt16 : n \in UInt32
<1>1. Len(tp) \in Nat /\ Len(rp) \in Nat /\ Len(tp) < TopicMax /\ Len(rp) < TopicMax
  BY TextIs DEF Fits
<1>2. Half \in Nat /\ Half >= 2 /\ TopicMax \in Nat \ {0}
  BY HalfIs, BaseAssumption
<1>3. FixedSize + 2 * (TopicMax - 1) \in Nat /\ FixedSize + 2 * (TopicMax - 1) <= Half - 1
  BY <1>2, HeaderAssumption DEF UInt16
<1>4. Half <= Half * Half /\ Half * Half \in Nat
  BY <1>2
<1>5. \A n \in UInt16 : n \in UInt32
  BY <1>2, <1>4 DEF UInt16, UInt32
<1>6. FixedSize = 28
  BY DEF FixedSize
<1>7. FixedSize + Len(tp) + Len(rp) \in UInt16 /\ Len(tp) \in UInt16 /\ Len(rp) \in UInt16
  BY <1>1, <1>2, <1>3, <1>6 DEF UInt16
<1> QED BY <1>1, <1>2, <1>5, <1>7 DEF UInt16

LEMMA EncodeIs ==
  ASSUME NEW h, NEW tp, NEW rp, Fits(h, tp, rp),
         StrAt(h.topic, 0) = tp, StrAt(h.reply_topic, 0) = rp
  PROVE  /\ Encode(h) \in Seq(Byte) /\ Len(Encode(h)) = FixedSize + Len(tp) + Len(rp)
         /\ Layout(Encode(h), h, tp, rp)
<1> DEFINE L == FixedSize + Len(tp) + Len(rp)
           f1 == EncodedUInt16(1)
           f2 == EncodedUInt16(L)
           f3 == EncodedInt32(h.sequence_number)
           f4 == EncodedInt32(h.flags)
           f5 == EncodedInt32(h.control_data)
           f6 == EncodedInt32(h.payload_length)
           f7 == EncodedString(tp)
           f8 == EncodedString(rp)
           p2 == f1 \o f2
           p3 == p2 \o f3
           p4 == p3 \o f4
           p5 == p4 \o f5
           p6 == p5 \o f6
           p7 == p6 \o f7
           p8 == p7 \o f8
<1>1. /\ Len(tp) \in Nat /\ Len(rp) \in Nat /\ Len(tp) \in UInt32 /\ Len(rp) \in UInt32
      /\ L \in UInt16 /\ 1 \in UInt16 /\ tp \in Text /\ rp \in Text
      /\ h.sequence_number \in UInt32 /\ h.flags \in UInt32
      /\ h.control_data \in UInt32 /\ h.payload_length \in UInt32
  BY HeaderSizes DEF Fits
<1>2. Encode(h) = p8
  BY DEF Encode, HeaderLength
<1>3. /\ f1 \in Seq(Byte) /\ Len(f1) = 2 /\ f2 \in Seq(Byte) /\ Len(f2) = 2
  BY <1>1, UInt16RoundTrip
<1>4. /\ f3 \in Seq(Byte) /\ Len(f3) = 4 /\ f4 \in Seq(Byte) /\ Len(f4) = 4
      /\ f5 \in Seq(Byte) /\ Len(f5) = 4 /\ f6 \in Seq(Byte) /\ Len(f6) = 4
  BY <1>1, Int32RoundTrip
<1>5. ASSUME NEW s \in Text, Len(s) \in UInt32
      PROVE  EncodedString(s) \in Seq(Byte) /\ Len(EncodedString(s)) = 4 + Len(s)
  <2> DEFINE n == EncodedInt32(Len(s))
  <2>1. n \in Seq(Byte) /\ Len(n) = 4 /\ s \in Seq(Byte)
    BY <1>5, Int32RoundTrip, TextIs
  <2> HIDE DEF n
  <2>2. n \o s \in Seq(Byte) /\ Len(n \o s) = Len(n) + Len(s)
    BY <2>1, ConcatProperties
  <2> QED BY <2>1, <2>2 DEF EncodedString, n
<1>6. /\ f7 \in Seq(Byte) /\ Len(f7) = 4 + Len(tp) /\ f8 \in Seq(Byte) /\ Len(f8) = 4 + Len(rp)
  BY <1>1, <1>5
<1>7. FixedSize = 28
  BY DEF FixedSize
<1> HIDE DEF L, f1, f2, f3, f4, f5, f6, f7, f8, p2, p3, p4, p5, p6, p7, p8
<1>12. p2 \in Seq(Byte) /\ Len(p2) = 4 /\ Has(p2, 2, f2) /\ Keeps(f1, p2)
  <2>1. /\ f1 \o f2 \in Seq(Byte) /\ Len(f1 \o f2) = Len(f1) + Len(f2)
        /\ Has(f1 \o f2, Len(f1), f2) /\ Keeps(f1, f1 \o f2)
    BY <1>3, Extended
  <2>2. Len(f1) = 2 /\ Len(f1) + Len(f2) = 4
    BY <1>3
  <2> QED BY <2>1, <2>2 DEF p2
<1>13. p3 \in Seq(Byte) /\ Len(p3) = 8 /\ Has(p3, 4, f3) /\ Keeps(p2, p3)
  <2>1. /\ p2 \o f3 \in Seq(Byte) /\ Len(p2 \o f3) = Len(p2) + Len(f3)
        /\ Has(p2 \o f3, Len(p2), f3) /\ Keeps(p2, p2 \o f3)
    BY <1>4, <1>12, Extended
  <2>2. Len(p2) = 4 /\ Len(p2) + Len(f3) = 8
    BY <1>4, <1>12
  <2> QED BY <2>1, <2>2 DEF p3
<1>14. p4 \in Seq(Byte) /\ Len(p4) = 12 /\ Has(p4, 8, f4) /\ Keeps(p3, p4)
  <2>1. /\ p3 \o f4 \in Seq(Byte) /\ Len(p3 \o f4) = Len(p3) + Len(f4)
        /\ Has(p3 \o f4, Len(p3), f4) /\ Keeps(p3, p3 \o f4)
    BY <1>4, <1>13, Extended
  <2>2. Len(p3) = 8 /\ Len(p3) + Len(f4) = 12
    BY <1>4, <1>13
  <2> QED BY <2>1, <2>2 DEF p4
<1>15. p5 \in Seq(Byte) /\ Len(p5) = 16 /\ Has(p5, 12, f5) /\ Keeps(p4, p5)
  <2>1. /\ p4 \o f5 \in Seq(Byte) /\ Len(p4 \o f5) = Len(p4) + Len(f5)
        /\ Has(p4 \o f5, Len(p4), f5) /\ Keeps(p4, p4 \o f5)
    BY <1>4, <1>14, Extended
  <2>2. Len(p4) = 12 /\ Len(p4) + Len(f5) = 16
    BY <1>4, <1>14
  <2> QED BY <2>1, <2>2 DEF p5
<1>16. p6 \in Seq(Byte) /\ Len(p6) = 20 /\ Has(p6, 16, f6) /\ Keeps(p5, p6)
  <2>1. /\ p5 \o f6 \in Seq(Byte) /\ Len(p5 \o f6) = Len(p5) + Len(f6)
        /\ Has(p5 \o f6, Len(p5), f6) /\ Keeps(p5, p5 \o f6)
    BY <1>4, <1>15, Extended
  <2>2. Len(p5) = 16 /\ Len(p5) + Len(f6) = 20
    BY <1>4, <1>15
  <2> QED BY <2>1, <2>2 DEF p6
<1>17. p7 \in Seq(Byte) /\ Len(p7) = 24 + Len(tp) /\ Has(p7, 20, f7) /\ Keeps(p6, p7)
  <2>1. /\ p6 \o f7 \in Seq(Byte) /\ Len(p6 \o f7) = Len(p6) + Len(f7)
        /\ Has(p6 \o f7, Len(p6), f7) /\ Keeps(p6, p6 \o f7)
    BY <1>6, <1>16, Extended
  <2>2. Len(p6) = 20 /\ Len(p6) + Len(f7) = 24 + Len(tp)
    BY <1>6, <1>16, <1>1
  <2> QED BY <2>1, <2>2 DEF p7
<1>18. p8 \in Seq(Byte) /\ Len(p8) = L /\ Has(p8, 24 + Len(tp), f8) /\ Keeps(p7, p8)
  <2>1. /\ p7 \o f8 \in Seq(Byte) /\ Len(p7 \o f8) = Len(p7) + Len(f8)
        /\ Has(p7 \o f8, Len(p7), f8) /\ Keeps(p7, p7 \o f8)
    BY <1>6, <1>17, Extended
  <2>2. Len(p7) = 24 + Len(tp) /\ Len(p7) + Len(f8) = L
    BY <1>6, <1>17, <1>1, <1>7 DEF L
  <2> QED BY <2>1, <2>2 DEF p8
<1>19. Has(p8, 2, f2)
  <2>1. Has(p3, 2, f2)
    BY <1>3, <1>12, <1>13 DEF Keeps
  <2>2. Has(p4, 2, f2)
    BY <1>3, <1>14, <2>1 DEF Keeps
  <2>3. Has(p5, 2, f2)
    BY <1>3, <1>15, <2>2 DEF Keeps
  <2>4. Has(p6, 2, f2)
    BY <1>3, <1>16, <2>3 DEF Keeps
  <2>5. Has(p7, 2, f2)
    BY <1>3, <1>17, <2>4 DEF Keeps
  <2> QED BY <1>3, <1>18, <2>5 DEF Keeps
<1>20. Has(p8, 4, f3)
  <2>1. Has(p5, 4, f3)
    BY <1>4, <1>13, <1>14, <1>15 DEF Keeps
  <2>2. Has(p7, 4, f3)
    BY <1>4, <1>16, <1>17, <2>1 DEF Keeps
  <2> QED BY <1>4, <1>18, <2>2 DEF Keeps
<1>21. Has(p8, 8, f4)
  <2>1. Has(p6, 8, f4)
    BY <1>4, <1>14, <1>15, <1>16 DEF Keeps
  <2> QED BY <1>4, <1>17, <1>18, <2>1 DEF Keeps
<1>22. Has(p8, 12, f5)
  <2>1. Has(p6, 12, f5)
    BY <1>4, <1>15, <1>16 DEF Keeps
  <2> QED BY <1>4, <1>17, <1>18, <2>1 DEF Keeps
<1>23. Has(p8, 16, f6) /\ Has(p8, 20, f7)
  BY <1>4, <1>6, <1>16, <1>17, <1>18 DEF Keeps
<1>24. Has(p8, 20, EncodedInt32(Len(tp))) /\ Has(p8, 20 + 4, tp)
  BY <1>1, <1>18, <1>23, HasString DEF f7
<1>25. Has(p8, 24 + Len(tp), EncodedInt32(Len(rp))) /\ Has(p8, 24 + Len(tp) + 4, rp)
  BY <1>1, <1>18, HasString DEF f8
<1>26. 20 + 4 = 24 /\ 24 + Len(tp) + 4 = 28 + Len(tp)
  BY <1>1
<1> QED BY <1>2, <1>18, <1>19, <1>20, <1>21, <1>22, <1>23, <1>24, <1>25, <1>26
        DEF Layout, L, f2, f3, f4, f5, f6

-----------------------------------------------------------------------------
(* Frames.                                                                  *)

HeadSize(m) == FixedSize + Len(Truncated(m.topic)) + Len(Truncated(m.reply))
FrameSize(m) == HeadSize(m) + Len(m.payload)

Field(s) == Copied(Zeros(TopicMax), 0, Truncated(s))

HeaderOf(m, n, cd) ==
  [header_length |-> HeadSize(m), sequence_number |-> n, flags |-> m.flags,
   control_data |-> cd, payload_length |-> Len(m.payload),
   topic |-> Field(m.topic), reply_topic |-> Field(m.reply)]

\* The bytes of the n-th message with cd as control data.
Frame(m, n, cd) == Encode(HeaderOf(m, n, cd)) \o m.payload

Strings(P, m, n, cd) ==
  Layout(P, HeaderOf(m, n, cd), Truncated(m.topic), Truncated(m.reply))

LEMMA MessageIs ==
  ASSUME NEW m \in Messages
  PROVE  /\ m.topic \in Text /\ m.reply \in Text /\ m.payload \in Text /\ m.flags \in UInt32
         /\ m.payload \in Seq(Byte) /\ Len(m.payload) \in UInt32
         /\ Len(m.payload) \in Nat /\ Len(m.payload) >= 1
<1>1. /\ m.topic \in Text /\ m.reply \in Text /\ m.payload \in Text /\ m.flags \in UInt32
      /\ m.payload # <<>> /\ Len(m.payload) \in UInt32
  BY MessagesAssumption
<1>2. m.payload \in Seq(Byte) /\ Len(m.payload) \in Nat
  BY <1>1, TextIs
<1>3. Len(m.payload) # 0
  BY <1>1, <1>2, EmptySeq
<1> QED BY <1>1, <1>2, <1>3

LEMMA HeaderFits ==
  ASSUME NEW m \in Messages, NEW n \in UInt32, NEW cd \in UInt32
  PROVE  /\ Fits(HeaderOf(m, n, cd), Truncated(m.topic), Truncated(m.reply))
         /\ StrAt(HeaderOf(m, n, cd).topic, 0) = Truncated(m.topic)
         /\ StrAt(HeaderOf(m, n, cd).reply_topic, 0) = Truncated(m.reply)
         /\ HeadSize(m) \in Nat /\ HeadSize(m) >= 28 /\ HeadSize(m) \in UInt16
         /\ Len(Truncated(m.topic)) \in Nat /\ Len(Truncated(m.reply)) \in Nat
         /\ HeadSize(m) = 28 + Len(Truncated(m.topic)) + Len(Truncated(m.reply))
<1> DEFINE tp == Truncated(m.topic)
           rp == Truncated(m.reply)
           h == HeaderOf(m, n, cd)
<1>1. /\ tp \in Text /\ Len(tp) < TopicMax /\ rp \in Text /\ Len(rp) < TopicMax
  BY MessageIs, TruncatedIs
<1>2. /\ h.sequence_number = n /\ h.flags = m.flags /\ h.control_data = cd
      /\ h.payload_length = Len(m.payload)
      /\ h.topic = Copied(Zeros(TopicMax), 0, tp)
      /\ h.reply_topic = Copied(Zeros(TopicMax), 0, rp)
  BY DEF HeaderOf, Field
<1> HIDE DEF tp, rp, h
<1>3. StrAt(h.topic, 0) = tp /\ StrAt(h.reply_topic, 0) = rp
  BY <1>1, <1>2, FieldIs
<1>4. Fits(h, tp, rp)
  BY <1>1, <1>2, MessageIs DEF Fits
<1>5. Len(tp) \in Nat /\ Len(rp) \in Nat /\ FixedSize + Len(tp) + Len(rp) \in UInt16
  BY <1>4, HeaderSizes
<1>6. FixedSize + Len(tp) + Len(rp) = 28 + Len(tp) + Len(rp)
  BY DEF FixedSize
<1>7. HeadSize(m) = FixedSize + Len(tp) + Len(rp)
  BY DEF HeadSize, tp, rp
<1>8. HeadSize(m) \in Nat /\ HeadSize(m) >= 28
  BY <1>5, <1>6, <1>7
<1> QED BY <1>3, <1>4, <1>5, <1>6, <1>7, <1>8 DEF tp, rp, h

LEMMA FrameIs ==
  ASSUME NEW m \in Messages, NEW n \in UInt32, NEW cd \in UInt32
  PROVE  /\ Frame(m, n, cd) \in Seq(Byte) /\ Len(Frame(m, n, cd)) = FrameSize(m)
         /\ FrameSize(m) \in Nat /\ FrameSize(m) > HeadSize(m)
         /\ Strings(Frame(m, n, cd), m, n, cd)
         /\ Has(Frame(m, n, cd), HeadSize(m), m.payload)
<1> DEFINE tp == Truncated(m.topic)
           rp == Truncated(m.reply)
           h == HeaderOf(m, n, cd)
           e == Encode(h)
           F == e \o m.payload
<1>1. /\ m.payload \in Seq(Byte) /\ Len(m.payload) \in Nat /\ Len(m.payload) >= 1
      /\ HeadSize(m) \in Nat
  BY MessageIs, HeaderFits
<1>2. e \in Seq(Byte) /\ Len(e) = FixedSize + Len(tp) + Len(rp) /\ Layout(e, h, tp, rp)
  BY HeaderFits, EncodeIs
<1>3. Len(e) = HeadSize(m)
  BY <1>2 DEF HeadSize
<1>4. tp \in Seq(Byte) /\ rp \in Seq(Byte)
  BY MessageIs, TruncatedIs, TextIs
<1>5. /\ Len(tp) \in UInt32 /\ Len(rp) \in UInt32 /\ Len(tp) \in Nat /\ Len(rp) \in Nat
      /\ FixedSize + Len(tp) + Len(rp) \in UInt16
      /\ h.sequence_number \in UInt32 /\ h.flags \in UInt32
      /\ h.control_data \in UInt32 /\ h.payload_length \in UInt32
  BY HeaderFits, HeaderSizes DEF Fits
<1> HIDE DEF e, h, tp, rp
<1>6. /\ F \in Seq(Byte) /\ Len(F) = Len(e) + Len(m.payload)
      /\ Has(F, Len(e), m.payload) /\ Keeps(e, F)
  BY <1>1, <1>2, Extended
<1> HIDE DEF F
<1>7. Layout(F, h, tp, rp)
  <2>1. \A at \in Nat, k \in UInt32 : Has(e, at, EncodedInt32(k)) => Has(F, at, EncodedInt32(k))
    BY <1>6, Int32RoundTrip DEF Keeps
  <2>2. \A k \in UInt16 : Has(e, 2, EncodedUInt16(k)) => Has(F, 2, EncodedUInt16(k))
    BY <1>6, UInt16RoundTrip DEF Keeps
  <2>3. 24 + Len(tp) \in Nat /\ 28 + Len(tp) \in Nat
    BY <1>5
  <2>4. /\ Has(F, 24, tp) /\ Has(F, 28 + Len(tp), rp)
    BY <1>2, <1>4, <1>6, <2>3 DEF Keeps, Layout
  <2>5. /\ Has(F, 4, EncodedInt32(h.sequence_number)) /\ Has(F, 8, EncodedInt32(h.flags))
        /\ Has(F, 12, EncodedInt32(h.control_data)) /\ Has(F, 16, EncodedInt32(h.payload_length))
    BY <1>2, <1>5, <2>1 DEF Layout
  <2>6. Has(F, 20, EncodedInt32(Len(tp))) /\ Has(F, 24 + Len(tp), EncodedInt32(Len(rp)))
    BY <1>2, <1>5, <2>1, <2>3 DEF Layout
  <2>7. Has(F, 2, EncodedUInt16(FixedSize + Len(tp) + Len(rp)))
    BY <1>2, <1>5, <2>2 DEF Layout
  <2> QED BY <2>4, <2>5, <2>6, <2>7 DEF Layout
<1>8. FrameSize(m) = HeadSize(m) + Len(m.payload)
  BY DEF FrameSize
<1>9. FrameSize(m) \in Nat /\ FrameSize(m) > HeadSize(m) /\ Len(F) = FrameSize(m)
  BY <1>1, <1>3, <1>6, <1>8
<1> QED BY <1>3, <1>6, <1>7, <1>9 DEF F, e, h, tp, rp, Frame, Strings

\* What SendInternal puts on the stream.
LEMMA SentIs ==
  ASSUME NEW m \in Messages, NEW n \in UInt32
  PROVE  Encode([InitHeader EXCEPT
                   !.payload_length  = Len(m.payload),
                   !.topic           = Copied(@, 0, Truncated(m.topic)),
                   !.reply_topic     = Copied(@, 0, Truncated(m.reply)),
                   !.sequence_number = n,
                   !.flags           = m.flags]) = Encode(HeaderOf(m, n, 0))
<1> DEFINE h == [InitHeader EXCEPT
                   !.payload_length  = Len(m.payload),
                   !.topic           = Copied(@, 0, Truncated(m.topic)),
                   !.reply_topic     = Copied(@, 0, Truncated(m.reply)),
                   !.sequence_number = n,
                   !.flags           = m.flags]
           g == HeaderOf(m, n, 0)
<1>1. /\ h.payload_length = g.payload_length /\ h.topic = g.topic
      /\ h.reply_topic = g.reply_topic /\ h.sequence_number = g.sequence_number
      /\ h.flags = g.flags /\ h.control_data = g.control_data
  BY DEF InitHeader, HeaderOf, Field
<1> HIDE DEF h, g
<1>2. Encode(h) = Encode(g)
  BY <1>1 DEF Encode, HeaderLength
<1> QED BY <1>2 DEF h, g

-----------------------------------------------------------------------------
(* Reading a frame.                                                         *)

\* The first x bytes of F are in the buffer.
First(b, F, x) == \A k \in 1..x : ByteAt(b, k - 1) = F[k]

LEMMA FirstHas ==
  ASSUME NEW b, NEW F, NEW x \in Nat, First(b, F, x),
         NEW at \in Nat, NEW s \in Seq(Byte), Has(F, at, s), at + Len(s) <= x
  PROVE  InBuf(b, at, s)
<1> SUFFICES ASSUME NEW k \in 1..Len(s) PROVE ByteAt(b, at + k - 1) = s[k]
  BY DEF InBuf
<1>1. Len(s) \in Nat
  OBVIOUS
<1>2. at + k \in 1..x
  BY <1>1
<1>3. ByteAt(b, at + k - 1) = F[at + k]
  BY <1>2 DEF First
<1> QED BY <1>3 DEF Has

LEMMA ReadInt32 ==
  ASSUME NEW b, NEW at \in Nat, NEW n \in UInt32, InBuf(b, at, EncodedInt32(n))
  PROVE  DecodedInt32(b, at) = n
<1> DEFINE s == EncodedInt32(n)
<1>1. Len(s) = 4
  BY Int32RoundTrip
<1>2. \A k \in 1..4 : ByteAt(b, at + k - 1) = s[k]
  BY <1>1 DEF InBuf
<1> HIDE DEF s
<1>3. /\ ByteAt(b, at) = s[1] /\ ByteAt(b, at + 1) = s[2]
      /\ ByteAt(b, at + 2) = s[3] /\ ByteAt(b, at + 3) = s[4]
  <2>1. at + 1 - 1 = at /\ at + 2 - 1 = at + 1 /\ at + 3 - 1 = at + 2 /\ at + 4 - 1 = at + 3
    OBVIOUS
  <2>2. 1 \in 1..4 /\ 2 \in 1..4 /\ 3 \in 1..4 /\ 4 \in 1..4
    OBVIOUS
  <2>3. /\ ByteAt(b, at + 1 - 1) = s[1] /\ ByteAt(b, at + 2 - 1) = s[2]
        /\ ByteAt(b, at + 3 - 1) = s[3] /\ ByteAt(b, at + 4 - 1) = s[4]
    BY <1>2, <2>2
  <2> QED BY <2>1, <2>3
<1> QED BY <1>3, Int32RoundTrip DEF s

LEMMA ReadUInt16 ==
  ASSUME NEW b, NEW at \in Nat, NEW n \in UInt16, InBuf(b, at, EncodedUInt16(n))
  PROVE  DecodedUInt16(b, at) = n
<1> DEFINE s == EncodedUInt16(n)
<1>1. Len(s) = 2
  BY UInt16RoundTrip
<1>2. \A k \in 1..2 : ByteAt(b, at + k - 1) = s[k]
  BY <1>1 DEF InBuf
<1> HIDE DEF s
<1>3. /\ ByteAt(b, at) = s[1] /\ ByteAt(b, at + 1) = s[2]
  <2>1. at + 1 - 1 = at /\ at + 2 - 1 = at + 1 /\ 1 \in 1..2 /\ 2 \in 1..2
    OBVIOUS
  <2>2. /\ ByteAt(b, at + 1 - 1) = s[1] /\ ByteAt(b, at + 2 - 1) = s[2]
    BY <1>2, <2>1
  <2> QED BY <2>1, <2>2
<1> QED BY <1>3, UInt16RoundTrip DEF s

\* The length of the header is known when the first four bytes are read.
LEMMA PreambleIs ==
  ASSUME NEW m \in Messages, NEW n \in UInt32, NEW cd \in UInt32,
         NEW b, NEW x \in Nat, x >= 4, First(b, Frame(m, n, cd), x)
  PROVE  DecodedUInt16(b, 2) = HeadSize(m)
<1> DEFINE F == Frame(m, n, cd)
<1>1. HeadSize(m) \in UInt16
  BY HeaderFits
<1>2. Has(F, 2, EncodedUInt16(HeadSize(m)))
  BY FrameIs DEF Strings, Layout, HeadSize
<1>3. /\ EncodedUInt16(HeadSize(m)) \in Seq(Byte) /\ Len(EncodedUInt16(HeadSize(m))) = 2
  BY <1>1, UInt16RoundTrip
<1>4. 2 + Len(EncodedUInt16(HeadSize(m))) <= x
  BY <1>3
<1> HIDE DEF F
<1>5. InBuf(b, 2, EncodedUInt16(HeadSize(m)))
  <2>1. First(b, F, x)
    BY DEF F
  <2> QED BY <1>2, <1>3, <1>4, <2>1, FirstHas
<1> QED BY <1>1, <1>5, ReadUInt16

\* A header that is read over an initialized one is the header that was sent.
LEMMA DecodeIs ==
  ASSUME NEW m \in Messages, NEW n \in UInt32, NEW cd \in UInt32,
         NEW b, NEW x \in Nat, x >= HeadSize(m), First(b, Frame(m, n, cd), x),
         NEW h, h.topic = Zeros(TopicMax), h.reply_topic = Zeros(TopicMax)
  PROVE  /\ Decode(h, b) = HeaderOf(m, n, cd)
         /\ DecodedInt32(b, 16) = Len(m.payload)
<1> DEFINE F == Frame(m, n, cd)
           g == HeaderOf(m, n, cd)
           tp == Truncated(m.topic)
           rp == Truncated(m.reply)
<1>1. Fits(g, tp, rp)
  BY HeaderFits
<1>2. /\ Len(tp) \in Nat /\ Len(rp) \in Nat /\ Len(tp) \in UInt32 /\ Len(rp) \in UInt32
      /\ HeadSize(m) = 28 + Len(tp) + Len(rp)
      /\ tp \in Seq(Byte) /\ rp \in Seq(Byte)
  BY <1>1, HeaderSizes, HeaderFits, TextIs DEF Fits
<1>3. Layout(F, g, tp, rp)
  BY FrameIs DEF Strings
<1>4. First(b, F, x)
  OBVIOUS
<1>5. /\ g.sequence_number = n /\ g.flags = m.flags /\ g.control_data = cd
      /\ g.payload_length = Len(m.payload)
      /\ g.flags \in UInt32 /\ g.payload_length \in UInt32
  BY <1>1 DEF HeaderOf, Fits
<1>6. g = [header_length |-> HeadSize(m), sequence_number |-> n, flags |-> m.flags,
           control_data |-> cd, payload_length |-> Len(m.payload),
           topic |-> Copied(Zeros(TopicMax), 0, tp),
           reply_topic |-> Copied(Zeros(TopicMax), 0, rp)]
  BY DEF HeaderOf, Field
<1> HIDE DEF F, g, tp, rp
<1>7. ASSUME NEW at \in Nat, NEW k \in UInt32, Has(F, at, EncodedInt32(k)), at + 4 <= x
      PROVE  DecodedInt32(b, at) = k
  <2>1. EncodedInt32(k) \in Seq(Byte) /\ Len(EncodedInt32(k)) = 4
    BY Int32RoundTrip
  <2>2. InBuf(b, at, EncodedInt32(k))
    BY <1>4, <1>7, <2>1, FirstHas
  <2> QED BY <2>2, ReadInt32
<1>8. /\ 4 + 4 <= x /\ 8 + 4 <= x /\ 12 + 4 <= x /\ 16 + 4 <= x /\ 20 + 4 <= x
      /\ 24 + Len(tp) + 4 <= x /\ 24 + Len(tp) <= x /\ 28 + Len(tp) + Len(rp) <= x
      /\ 24 + Len(tp) \in Nat /\ 28 + Len(tp) \in Nat /\ 24 + Len(tp) + 4 = 28 + Len(tp)
  BY <1>2
<1>9. /\ DecodedInt32(b, 4) = n /\ DecodedInt32(b, 8) = m.flags /\ DecodedInt32(b, 12) = cd
      /\ DecodedInt32(b, 16) = Len(m.payload)
  BY <1>3, <1>5, <1>7, <1>8 DEF Layout
<1>10. DecodedInt32(b, 20) = Len(tp) /\ DecodedInt32(b, 24 + Len(tp)) = Len(rp)
  BY <1>2, <1>3, <1>7, <1>8 DEF Layout
<1>11. Slice(b, 24, Len(tp)) = tp
  <2>1. InBuf(b, 24, tp)
    BY <1>2, <1>3, <1>4, <1>8, FirstHas DEF Layout
  <2> QED BY <1>2, <2>1, SliceIs
<1>12. Slice(b, 24 + Len(tp) + 4, Len(rp)) = rp
  <2>1. InBuf(b, 28 + Len(tp), rp)
    BY <1>2, <1>3, <1>4, <1>8, FirstHas DEF Layout
  <2> QED BY <1>2, <1>8, <2>1, SliceIs
<1>13. DecodedUInt16(b, 2) = HeadSize(m)
  <2>1. x >= 4
    BY <1>2
  <2> QED BY <1>4, <2>1, PreambleIs DEF F
<1>14. Decode(h, b) = g
  <2>1. Decode(h, b) =
          [header_length   |-> DecodedUInt16(b, 2),
           sequence_number |-> DecodedInt32(b, 4),
           flags           |-> DecodedInt32(b, 8),
           control_data    |-> DecodedInt32(b, 12),
           payload_length  |-> DecodedInt32(b, 16),
           topic           |-> Copied(h.topic, 0, Slice(b, 24, DecodedInt32(b, 20))),
           reply_topic     |->
             Copied(h.reply_topic, 0,
                    Slice(b, 24 + DecodedInt32(b, 20) + 4,
                          DecodedInt32(b, 24 + DecodedInt32(b, 20))))]
    BY DEF Decode
  <2>2. Slice(b, 24, DecodedInt32(b, 20)) = tp
    BY <1>10, <1>11
  <2>3. Slice(b, 24 + DecodedInt32(b, 20) + 4, DecodedInt32(b, 24 + DecodedInt32(b, 20))) = rp
    BY <1>10, <1>12
  <2> QED BY <1>6, <1>9, <1>13, <2>1, <2>2, <2>3
<1> QED BY <1>9, <1>14 DEF g

LEMMA PayloadIs ==
  ASSUME NEW m \in Messages, NEW n \in UInt32, NEW cd \in UInt32,
         NEW b, NEW x \in Nat, x >= FrameSize(m), First(b, Frame(m, n, cd), x)
  PROVE  InBuf(b, HeadSize(m), m.payload)
<1>1. /\ HeadSize(m) \in Nat /\ m.payload \in Seq(Byte)
      /\ Has(Frame(m, n, cd), HeadSize(m), m.payload)
  BY FrameIs, HeaderFits, MessageIs
<1>2. HeadSize(m) + Len(m.payload) <= x
  BY DEF FrameSize
<1> QED BY <1>1, <1>2, FirstHas

\* What is forwarded is the frame, with the id of the subscription.
LEMMA ForwardedIs ==
  ASSUME NEW m \in Messages, NEW n \in UInt32,
         NEW b, NEW x \in Nat, x >= FrameSize(m), First(b, Frame(m, n, 0), x)
  PROVE  Forwarded(HeaderOf(m, n, 0), b) = Frame(m, n, SubId)
<1> DEFINE h == HeaderOf(m, n, 0)
           new == [h EXCEPT !.control_data = SubId,
                       !.topic        = Copied(Zeros(TopicMax), 0, StrAt(h.topic, 0)),
                       !.reply_topic  = Copied(Zeros(TopicMax), 0, StrAt(h.reply_topic, 0))]
<1>1. 0 \in UInt32
  BY HalfIs, HeaderSizes, SentAssumption DEF UInt32
<1>2. StrAt(h.topic, 0) = Truncated(m.topic) /\ StrAt(h.reply_topic, 0) = Truncated(m.reply)
  BY <1>1, HeaderFits
<1> DEFINE g == HeaderOf(m, n, SubId)
<1>3. Encode(new) = Encode(g)
  <2>1. /\ new.payload_length = h.payload_length /\ new.sequence_number = h.sequence_number
        /\ new.flags = h.flags /\ new.control_data = SubId
        /\ new.topic = Copied(Zeros(TopicMax), 0, StrAt(h.topic, 0))
        /\ new.reply_topic = Copied(Zeros(TopicMax), 0, StrAt(h.reply_topic, 0))
    BY DEF HeaderOf
  <2>2. /\ new.payload_length = g.payload_length /\ new.topic = g.topic
        /\ new.reply_topic = g.reply_topic /\ new.sequence_number = g.sequence_number
        /\ new.flags = g.flags /\ new.control_data = g.control_data
    BY <1>2, <2>1 DEF HeaderOf, Field
  <2> HIDE DEF new, g
  <2> QED BY <2>2 DEF Encode, HeaderLength
<1>4. Slice(b, HeadSize(m), Len(m.payload)) = m.payload
  <2>1. /\ HeadSize(m) \in Nat /\ m.payload \in Seq(Byte)
    BY <1>1, HeaderFits, MessageIs
  <2>2. InBuf(b, HeadSize(m), m.payload)
    BY <1>1, PayloadIs
  <2> QED BY <2>1, <2>2, SliceIs
<1>5. h.header_length = HeadSize(m) /\ h.payload_length = Len(m.payload)
  BY DEF HeaderOf
<1>6. Forwarded(h, b) = Encode(new) \o Slice(b, h.header_length, h.payload_length)
  BY DEF Forwarded
<1> QED BY <1>3, <1>4, <1>5, <1>6 DEF Frame

\* The 0 behind the payload ends it.
LEMMA TerminatedIs ==
  ASSUME NEW m \in Messages, NEW n \in UInt32, NEW cd \in UInt32, FrameSize(m) < BufSize,
         NEW b \in [0..(BufSize - 1) -> Byte], First(b, Frame(m, n, cd), FrameSize(m))
  PROVE  /\ Copied(b, FrameSize(m), <<0>>) \in [0..(BufSize - 1) -> Byte]
         /\ StrAt(Copied(b, FrameSize(m), <<0>>), HeadSize(m)) = m.payload
<1> DEFINE c == Copied(b, FrameSize(m), <<0>>)
           H == HeadSize(m)
           z == FrameSize(m)
<1>1. /\ H \in Nat /\ z \in Nat /\ BufSize \in Nat /\ m.payload \in Text
      /\ Len(m.payload) \in Nat /\ z = H + Len(m.payload) /\ 0 \in Byte
  BY HeaderFits, FrameIs, MessageIs, BaseAssumption DEF FrameSize, Byte
<1>2. InBuf(b, H, m.payload)
  BY <1>1, PayloadIs
<1>3. /\ DOMAIN c = 0..(BufSize - 1)
      /\ \A k \in 0..(BufSize - 1) : c[k] = IF k >= z /\ k < z + 1 THEN <<0>>[k - z + 1] ELSE b[k]
  BY DEF Copied
<1> HIDE DEF H
<1>4. ASSUME NEW k \in 0..(BufSize - 1)
      PROVE  c[k] \in Byte /\ (k = z => c[k] = 0) /\ (k < z => c[k] = b[k])
  <2>1. CASE k = z
    <3>1. k >= z /\ k < z + 1 /\ k - z + 1 = 1
      BY <1>1, <2>1
    <3>2. c[k] = 0
      BY <1>3, <3>1
    <3> QED BY <1>1, <2>1, <3>2
  <2>2. CASE k # z
    <3>1. ~(k >= z /\ k < z + 1)
      BY <1>1, <2>2
    <3>2. c[k] = b[k]
      BY <1>3, <3>1
    <3> QED BY <2>2, <3>2
  <2> QED BY <2>1, <2>2
<1>5. c \in [0..(BufSize - 1) -> Byte]
  <2>1. c = [k \in DOMAIN b |-> IF k >= z /\ k < z + Len(<<0>>) THEN <<0>>[k - z + 1] ELSE b[k]]
    BY DEF Copied
  <2> QED BY <1>3, <1>4, <2>1
<1> HIDE DEF c, z
<1>6. InBuf(c, H, m.payload)
  <2> SUFFICES ASSUME NEW k \in 1..Len(m.payload) PROVE ByteAt(c, H + k - 1) = m.payload[k]
    BY DEF InBuf
  <2>1. H + k - 1 \in 0..(BufSize - 1) /\ H + k - 1 < z
    BY <1>1 DEF z
  <2>2. c[H + k - 1] = b[H + k - 1]
    BY <1>4, <2>1
  <2>3. ByteAt(b, H + k - 1) = m.payload[k]
    BY <1>2 DEF InBuf
  <2> QED BY <1>3, <2>1, <2>2, <2>3 DEF ByteAt
<1>7. H + Len(m.payload) < BufSize /\ c[H + Len(m.payload)] = 0
  <2>1. z \in 0..(BufSize - 1)
    BY <1>1 DEF z
  <2> QED BY <1>1, <1>4, <2>1
<1>8. StrAt(c, H) = m.payload
  BY <1>1, <1>3, <1>6, <1>7, StrAtIs
<1> QED BY <1>5, <1>8 DEF c, H, z

-----------------------------------------------------------------------------
(* Streams.                                                                 *)

\* P is the stream of the first N of the messages s; behind at[n] bytes of it
\* the n-th frame begins.
IsStream(P, at, N, s, cd) ==
  /\ P \in Seq(Byte)
  /\ at \in [1..(N + 1) -> Nat] /\ at[1] = 0 /\ at[N + 1] = Len(P)
  /\ \A n \in 1..N : /\ at[n + 1] = at[n] + FrameSize(s[n]) /\ at[n + 1] <= Len(P)
                     /\ Has(P, at[n], Frame(s[n], n, cd))

\* Of the stream behind its first off bytes, x are in the buffer, the others on
\* their way.
Pending(P, off, b, x, rest) ==
  /\ rest \in Seq(Byte) /\ Len(P) = off + x + Len(rest)
  /\ \A k \in 1..x : ByteAt(b, k - 1) = P[off + k]
  /\ \A k \in 1..Len(rest) : rest[k] = P[off + x + k]

\* What is pending belongs to the frame behind the first r, if there is one.
NextIs(P, at, N, s, cd, r, b, x, rest) ==
  /\ rest \in Seq(Byte) /\ Len(rest) \in Nat
  /\ r = N => x = 0 /\ rest = <<>>
  /\ r < N => /\ r + 1 \in 1..N /\ r + 1 \in UInt32 /\ s[r + 1] \in Messages
              /\ FrameSize(s[r + 1]) \in Nat
              /\ FrameSize(s[r + 1]) <= x + Len(rest)
              /\ x <= FrameSize(s[r + 1]) => First(b, Frame(s[r + 1], r + 1, cd), x)
              /\ x = FrameSize(s[r + 1]) => \A c : Pending(P, at[r + 1 + 1], c, 0, rest)

LEMMA PendingIs ==
  ASSUME NEW N \in Nat, NEW s, \A n \in 1..N : s[n] \in Messages,
         N \in UInt32, NEW cd \in UInt32, NEW P, NEW at, IsStream(P, at, N, s, cd),
         NEW r \in 0..N, NEW b, NEW x \in Nat, NEW rest, Pending(P, at[r + 1], b, x, rest)
  PROVE  NextIs(P, at, N, s, cd, r, b, x, rest)
<1> DEFINE o == at[r + 1]
<1>1. /\ P \in Seq(Byte) /\ at \in [1..(N + 1) -> Nat] /\ at[N + 1] = Len(P)
      /\ \A n \in 1..N : /\ at[n + 1] = at[n] + FrameSize(s[n]) /\ at[n + 1] <= Len(P)
                         /\ Has(P, at[n], Frame(s[n], n, cd))
  BY DEF IsStream
<1>2. /\ rest \in Seq(Byte) /\ Len(rest) \in Nat /\ Len(P) \in Nat
      /\ Len(P) = o + x + Len(rest)
      /\ \A k \in 1..x : ByteAt(b, k - 1) = P[o + k]
      /\ \A k \in 1..Len(rest) : rest[k] = P[o + x + k]
  BY <1>1 DEF Pending
<1>3. o \in Nat
  <2>1. r + 1 \in 1..(N + 1)
    OBVIOUS
  <2> QED BY <1>1, <2>1
<1>4. r = N => o = Len(P)
  BY <1>1
<1> HIDE DEF o
<1>5. r = N => x = 0 /\ rest = <<>>
  <2>1. r = N => x = 0 /\ Len(rest) = 0
    BY <1>2, <1>3, <1>4
  <2> QED BY <1>2, <2>1, EmptySeq
<1>6. ASSUME r < N
      PROVE  /\ r + 1 \in 1..N /\ r + 1 \in UInt32 /\ s[r + 1] \in Messages
             /\ FrameSize(s[r + 1]) \in Nat
             /\ FrameSize(s[r + 1]) <= x + Len(rest)
             /\ x <= FrameSize(s[r + 1]) => First(b, Frame(s[r + 1], r + 1, cd), x)
             /\ x = FrameSize(s[r + 1]) =>
                  \A c : Pending(P, at[r + 1 + 1], c, 0, rest)
  <2> DEFINE n == r + 1
             F == Frame(s[n], n, cd)
             z == FrameSize(s[n])
             e == at[n + 1]
  <2>1. n \in 1..N
    BY <1>6
  <2>2. n \in UInt32
    BY <2>1, HalfIs DEF UInt32
  <2>3. s[n] \in Messages
    BY <2>1
  <2>4. z \in Nat /\ Len(F) = z
    BY <2>2, <2>3, FrameIs
  <2>5. e = o + z /\ e <= Len(P) /\ Has(P, o, F)
    BY <1>1, <2>1 DEF o
  <2> HIDE DEF F, z, e
  <2>6. z <= x + Len(rest)
    BY <1>2, <1>3, <2>4, <2>5
  <2>7. ASSUME x <= z PROVE First(b, F, x)
    <3> SUFFICES ASSUME NEW k \in 1..x PROVE ByteAt(b, k - 1) = F[k]
      BY DEF First
    <3>1. k \in 1..Len(F)
      BY <2>4, <2>7
    <3> QED BY <1>2, <2>5, <3>1 DEF Has
  <2>8. ASSUME x = z, NEW c PROVE Pending(P, e, c, 0, rest)
    <3>1. Len(P) = e + 0 + Len(rest)
      BY <1>2, <1>3, <2>4, <2>5, <2>8
    <3>2. \A k \in 1..Len(rest) : o + x + k = e + 0 + k
      BY <1>2, <1>3, <2>4, <2>5, <2>8
    <3>3. \A k \in 1..Len(rest) : rest[k] = P[e + 0 + k]
      BY <1>2, <3>2
    <3>4. \A k \in 1..0 : ByteAt(c, k - 1) = P[e + k]
      OBVIOUS
    <3> QED BY <1>2, <3>1, <3>3, <3>4 DEF Pending
  <2> QED BY <2>1, <2>2, <2>3, <2>4, <2>6, <2>7, <2>8 DEF F, z, e
<1> QED BY <1>2, <1>5, <1>6 DEF NextIs

\* recv() of n bytes.
LEMMA TakenIs ==
  ASSUME NEW P, NEW off \in Nat, NEW b \in [0..(BufSize - 1) -> Byte], NEW x \in Nat,
         NEW rest, Pending(P, off, b, x, rest), NEW n \in 1..Len(rest), x + n <= BufSize
  PROVE  /\ Copied(b, x, SubSeq(rest, 1, n)) \in [0..(BufSize - 1) -> Byte]
         /\ Pending(P, off, Copied(b, x, SubSeq(rest, 1, n)), x + n,
                    SubSeq(rest, n + 1, Len(rest)))
<1> DEFINE u == SubSeq(rest, 1, n)
           v == SubSeq(rest, n + 1, Len(rest))
           c == Copied(b, x, u)
<1>1. /\ rest \in Seq(Byte) /\ Len(rest) \in Nat /\ BufSize \in Nat
      /\ Len(P) = off + x + Len(rest)
      /\ \A k \in 1..x : ByteAt(b, k - 1) = P[off + k]
      /\ \A k \in 1..Len(rest) : rest[k] = P[off + x + k]
      /\ \A k \in 1..Len(rest) : rest[k] \in Byte
  BY BaseAssumption DEF Pending
<1>2. Len(u) = n /\ \A k \in 1..n : u[k] = rest[k]
  <2>1. 1 <= n
    BY <1>1
  <2>2. \A k \in 1..n : rest[k] \in Byte
    BY <1>1
  <2>3. /\ Len(u) = IF 1 <= n THEN n - 1 + 1 ELSE 0
        /\ \A k \in 1..(n - 1 + 1) : u[k] = rest[1 + k - 1]
    BY <1>1, <2>2, SubSeqProperties
  <2> QED BY <1>1, <2>1, <2>3
<1>3. v \in Seq(Byte) /\ Len(v) = Len(rest) - n /\ \A k \in 1..(Len(rest) - n) : v[k] = rest[n + k]
  <2>1. /\ n + 1 \in Nat /\ n + 1 \in 1..(Len(rest) + 1)
        /\ \A k \in (n + 1)..Len(rest) : rest[k] \in Byte
    BY <1>1
  <2>2. /\ v \in Seq(Byte)
        /\ Len(v) = IF n + 1 <= Len(rest) THEN Len(rest) - (n + 1) + 1 ELSE 0
        /\ \A k \in 1..(Len(rest) - (n + 1) + 1) : v[k] = rest[n + 1 + k - 1]
    BY <1>1, <2>1, SubSeqProperties
  <2>3. \A k \in 1..(Len(rest) - n) : n + 1 + k - 1 = n + k /\ k \in 1..(Len(rest) - (n + 1) + 1)
    BY <1>1
  <2> QED BY <1>1, <2>2, <2>3
<1> HIDE DEF u, v
<1>4. c = [k \in 0..(BufSize - 1) |-> IF k >= x /\ k < x + n THEN u[k - x + 1] ELSE b[k]]
  BY <1>2 DEF Copied
<1>5. ASSUME NEW k \in 0..(BufSize - 1)
      PROVE  /\ c[k] \in Byte
             /\ k < x => c[k] = b[k]
             /\ k >= x /\ k < x + n => k - x + 1 \in 1..n /\ c[k] = rest[k - x + 1]
  <2>1. CASE k >= x /\ k < x + n
    <3>1. k - x + 1 \in 1..n /\ k - x + 1 \in 1..Len(rest) /\ ~(k < x)
      BY <1>1, <2>1
    <3>2. c[k] = u[k - x + 1]
      BY <1>4, <2>1
    <3> QED BY <1>1, <1>2, <3>1, <3>2
  <2>2. CASE ~(k >= x /\ k < x + n)
    <3>1. c[k] = b[k]
      BY <1>4, <2>2
    <3> QED BY <2>2, <3>1
  <2> QED BY <2>1, <2>2
<1>6. c \in [0..(BufSize - 1) -> Byte]
  BY <1>4, <1>5
<1> HIDE DEF c
<1>7. \A k \in 1..(x + n) : ByteAt(c, k - 1) = P[off + k]
  <2> SUFFICES ASSUME NEW k \in 1..(x + n) PROVE ByteAt(c, k - 1) = P[off + k]
    OBVIOUS
  <2>1. k - 1 \in 0..(BufSize - 1) /\ k \in Nat
    BY <1>1
  <2>2. ByteAt(c, k - 1) = c[k - 1]
    BY <1>6, <2>1 DEF ByteAt
  <2>3. CASE k <= x
    <3>1. k - 1 < x /\ k \in 1..x
      BY <1>1, <2>3
    <3>2. ByteAt(b, k - 1) = b[k - 1]
      BY <2>1 DEF ByteAt
    <3> QED BY <1>1, <1>5, <2>1, <2>2, <3>1, <3>2
  <2>4. CASE k > x
    <3>1. k - 1 >= x /\ k - 1 < x + n /\ k - 1 - x + 1 = k - x
      BY <1>1, <2>1, <2>4
    <3>2. k - x \in 1..n /\ c[k - 1] = rest[k - x]
      BY <1>5, <2>1, <3>1
    <3>3. k - x \in 1..Len(rest) /\ off + x + (k - x) = off + k
      BY <1>1, <2>1, <3>2
    <3>4. rest[k - x] = P[off + x + (k - x)]
      BY <1>1, <3>3
    <3> QED BY <2>2, <3>2, <3>3, <3>4
  <2> QED BY <1>1, <2>1, <2>3, <2>4
<1>8. \A k \in 1..Len(v) : v[k] = P[off + (x + n) + k]
  <2> SUFFICES ASSUME NEW k \in 1..Len(v) PROVE v[k] = P[off + (x + n) + k]
    OBVIOUS
  <2>1. /\ k \in 1..(Len(rest) - n) /\ n + k \in 1..Len(rest)
        /\ off + x + (n + k) = off + (x + n) + k
    BY <1>1, <1>3
  <2>2. v[k] = rest[n + k]
    BY <1>3, <2>1
  <2>3. rest[n + k] = P[off + x + (n + k)]
    BY <1>1, <2>1
  <2> QED BY <2>1, <2>2, <2>3
<1>9. Len(P) = off + (x + n) + Len(v)
  BY <1>1, <1>3
<1>10. Pending(P, off, c, x + n, v)
  BY <1>3, <1>7, <1>8, <1>9 DEF Pending
<1> QED BY <1>6, <1>10 DEF c, u, v

\* send() of a frame.
Longer(P, at, F, N, t, cd) ==
  /\ \E to : /\ IsStream(P \o F, to, N + 1, t, cd)
             /\ \A n \in 1..(N + 1) : to[n] = at[n]
  /\ \A off \in Nat, x \in Nat : \A b, rest :
       Pending(P, off, b, x, rest) => Pending(P \o F, off, b, x, rest \o F)

LEMMA AppendedIs ==
  ASSUME NEW N \in Nat, N + 1 \in UInt32, NEW cd \in UInt32,
         NEW s, NEW t, \A n \in 1..N : t[n] = s[n] /\ s[n] \in Messages,
         t[N + 1] \in Messages, NEW P, NEW at, IsStream(P, at, N, s, cd)
  PROVE  Longer(P, at, Frame(t[N + 1], N + 1, cd), N, t, cd)
<1> DEFINE M == t[N + 1]
           F == Frame(M, N + 1, cd)
           z == FrameSize(M)
           Q == P \o F
           to == [n \in 1..(N + 1 + 1) |-> IF n <= N + 1 THEN at[n] ELSE Len(P) + z]
<1>1. F \in Seq(Byte) /\ Len(F) = z /\ z \in Nat
  BY FrameIs
<1>2. /\ P \in Seq(Byte) /\ at \in [1..(N + 1) -> Nat] /\ at[1] = 0 /\ at[N + 1] = Len(P)
      /\ \A n \in 1..N : /\ at[n + 1] = at[n] + FrameSize(s[n]) /\ at[n + 1] <= Len(P)
                         /\ Has(P, at[n], Frame(s[n], n, cd))
  BY DEF IsStream
<1> HIDE DEF F, z
<1>3. Q \in Seq(Byte) /\ Len(Q) = Len(P) + z /\ Has(Q, Len(P), F) /\ Keeps(P, Q)
  <2>1. Q \in Seq(Byte) /\ Len(Q) = Len(P) + Len(F) /\ Has(Q, Len(P), F) /\ Keeps(P, Q)
    BY <1>1, <1>2, Extended
  <2> QED BY <1>1, <2>1
<1>4. \A k \in 1..(Len(P) + z) : Q[k] = IF k <= Len(P) THEN P[k] ELSE F[k - Len(P)]
  <2>1. \A k \in 1..(Len(P) + Len(F)) : Q[k] = IF k <= Len(P) THEN P[k] ELSE F[k - Len(P)]
    BY <1>1, <1>2, ConcatProperties
  <2> QED BY <1>1, <2>1
<1>5. Len(P) \in Nat
  BY <1>2
<1> HIDE DEF Q
<1>6. /\ to \in [1..(N + 1 + 1) -> Nat]
      /\ \A n \in 1..(N + 1) : to[n] = at[n]
      /\ to[N + 1 + 1] = Len(P) + z
  BY <1>1, <1>2, <1>5
<1> HIDE DEF to
<1>7. ASSUME NEW n \in 1..(N + 1)
      PROVE  /\ to[n + 1] = to[n] + FrameSize(t[n]) /\ to[n + 1] <= Len(Q)
             /\ Has(Q, to[n], Frame(t[n], n, cd))
  <2>1. CASE n \in 1..N
    <3>1. n + 1 \in 1..(N + 1) /\ n \in UInt32 /\ s[n] \in Messages
      BY <2>1, HalfIs DEF UInt32
    <3>2. to[n] = at[n] /\ to[n + 1] = at[n + 1] /\ t[n] = s[n]
      BY <1>6, <2>1, <3>1
    <3>3. /\ at[n + 1] = at[n] + FrameSize(s[n]) /\ at[n + 1] <= Len(P)
          /\ Has(P, at[n], Frame(s[n], n, cd))
      BY <1>2, <2>1
    <3>4. at[n + 1] \in Nat /\ at[n] \in Nat
      BY <1>2, <3>1
    <3>5. Frame(s[n], n, cd) \in Seq(Byte)
      BY <3>1, FrameIs
    <3>6. Has(Q, at[n], Frame(s[n], n, cd))
      BY <1>3, <3>3, <3>4, <3>5 DEF Keeps
    <3>7. at[n + 1] <= Len(Q)
      BY <1>1, <1>3, <1>5, <3>3, <3>4
    <3> QED BY <3>2, <3>3, <3>6, <3>7
  <2>2. CASE n = N + 1
    <3>1. to[n] = Len(P) /\ to[n + 1] = Len(P) + z
      BY <1>2, <1>6, <2>2
    <3>2. Has(Q, Len(P), Frame(t[n], n, cd))
      BY <1>3, <2>2 DEF F
    <3>3. z = FrameSize(t[n])
      BY <2>2 DEF z
    <3>4. Len(P) + z <= Len(Q)
      BY <1>1, <1>3, <1>5
    <3> QED BY <3>1, <3>2, <3>3, <3>4
  <2> QED BY <2>1, <2>2
<1>8. to[1] = 0
  <2>1. 1 \in 1..(N + 1)
    OBVIOUS
  <2> QED BY <1>2, <1>6, <2>1
<1>9. IsStream(Q, to, N + 1, t, cd)
  BY <1>3, <1>6, <1>7, <1>8 DEF IsStream
<1>10. ASSUME NEW off \in Nat, NEW b, NEW x \in Nat, NEW rest, Pending(P, off, b, x, rest)
       PROVE  Pending(Q, off, b, x, rest \o F)
  <2>1. /\ rest \in Seq(Byte) /\ Len(rest) \in Nat /\ Len(P) = off + x + Len(rest)
        /\ \A k \in 1..x : ByteAt(b, k - 1) = P[off + k]
        /\ \A k \in 1..Len(rest) : rest[k] = P[off + x + k]
    BY <1>10 DEF Pending
  <2> DEFINE w == rest \o F
  <2>2. /\ w \in Seq(Byte) /\ Len(w) = Len(rest) + z
        /\ \A k \in 1..(Len(rest) + z) : w[k] = IF k <= Len(rest) THEN rest[k] ELSE F[k - Len(rest)]
    <3>1. /\ w \in Seq(Byte) /\ Len(w) = Len(rest) + Len(F)
          /\ \A k \in 1..(Len(rest) + Len(F)) :
               w[k] = IF k <= Len(rest) THEN rest[k] ELSE F[k - Len(rest)]
      <4>1. rest \in Seq(Byte) /\ F \in Seq(Byte)
        BY <1>1, <2>1
      <4> QED BY <4>1, ConcatProperties
    <3> QED BY <1>1, <3>1
  <2> HIDE DEF w
  <2>3. Len(Q) = off + x + Len(w)
    BY <1>1, <1>3, <2>1, <2>2
  <2>4. ASSUME NEW k \in 1..x PROVE ByteAt(b, k - 1) = Q[off + k]
    <3>1. off + k \in 1..(Len(P) + z) /\ off + k <= Len(P)
      BY <1>1, <2>1
    <3> QED BY <1>4, <2>1, <3>1
  <2>5. ASSUME NEW k \in 1..Len(w) PROVE w[k] = Q[off + x + k]
    <3>0. k \in 1..(Len(rest) + z) /\ off + x + k \in 1..(Len(P) + z)
      BY <1>1, <2>1, <2>2
    <3>1. CASE k <= Len(rest)
      <4>1. off + x + k <= Len(P) /\ k \in 1..Len(rest)
        BY <2>1, <3>0, <3>1
      <4> QED BY <1>4, <2>1, <2>2, <3>0, <3>1, <4>1
    <3>2. CASE ~(k <= Len(rest))
      <4>1. ~(off + x + k <= Len(P)) /\ off + x + k - Len(P) = k - Len(rest)
        BY <2>1, <3>0, <3>2
      <4>2. w[k] = F[k - Len(rest)]
        BY <2>2, <3>0, <3>2
      <4>3. Q[off + x + k] = F[off + x + k - Len(P)]
        BY <1>4, <3>0, <4>1
      <4> QED BY <4>1, <4>2, <4>3
    <3> QED BY <3>1, <3>2
  <2>6. Pending(Q, off, b, x, w)
    BY <2>2, <2>3, <2>4, <2>5 DEF Pending
  <2> QED BY <2>6 DEF w
<1> QED BY <1>6, <1>9, <1>10 DEF Q, F, Longer

-----------------------------------------------------------------------------
(* The invariant.                                                           *)

\* The router's buffer has room for every frame, the receiver's also for the 0.
Room == BufSize > FixedSize /\ \A m \in Messages : FrameSize(m) < BufSize

Report(m, n) ==
  [topic |-> Truncated(m.topic), reply |-> Truncated(m.reply), flags |-> m.flags,
   sequence_number |-> n, control_data |-> SubId, payload |-> m.payload]

Reports == {Report(m, n) : m \in Messages, n \in Nat}

Kept ==
  /\ sent \in Seq(Messages) /\ Len(sent) <= MaxSent
  /\ read_buffer \in [0..(BufSize - 1) -> Byte]
  /\ recv_buffer \in [0..(BufSize - 1) -> Byte]

\* The router has forwarded r messages and reads the next.
RouterAt(r) ==
  /\ r \in 0..Len(sent) /\ bytes_read \in Nat /\ bytes_to_read \in Nat
  /\ bytes_read < bytes_to_read
  /\ \/ state = "preamble" /\ bytes_to_read = 4 /\ header = InitHeader
     \/ /\ state = "header" /\ r < Len(sent) /\ bytes_to_read = HeadSize(sent[r + 1])
        /\ header = InitHeader
     \/ /\ state = "payload" /\ r < Len(sent) /\ bytes_to_read = FrameSize(sent[r + 1])
        /\ header = HeaderOf(sent[r + 1], r + 1, 0)

\* The receiver reads one of r messages.
ReceiverAt(r) ==
  LET d == Len(delivered) IN
  /\ delivered \in Seq(Reports) /\ d <= r
  /\ \A n \in 1..d : delivered[n] = Report(sent[n], n)
  /\ got \in Nat /\ got < PartSize
  /\ \/ phase = "preamble" /\ hdr = InitHeader
     \/ /\ phase = "header" /\ d < r
        /\ hdr = [InitHeader EXCEPT !.header_length = HeadSize(sent[d + 1])]
     \/ phase = "payload" /\ d < r /\ hdr = HeaderOf(sent[d + 1], d + 1, SubId)

UpIs(r, P, at) ==
  /\ RouterAt(r)
  /\ IsStream(P, at, Len(sent), sent, 0)
  /\ Pending(P, at[r + 1], read_buffer, bytes_read, up)

DownIs(r, Q, bt) ==
  /\ ReceiverAt(r)
  /\ IsStream(Q, bt, r, sent, SubId)
  /\ Pending(Q, bt[Len(delivered) + 1], recv_buffer, PartAt + got, down)

Inv == Kept /\ \E r, P, at, Q, bt : UpIs(r, P, at) /\ DownIs(r, Q, bt)

LEMMA PartIs ==
  /\ phase = "preamble" => PartAt = 0 /\ PartSize = 4
  /\ phase = "header"   => PartAt = 4 /\ PartSize = hdr.header_length - 4
  /\ phase = "payload"  => PartAt = hdr.header_length /\ PartSize = hdr.payload_length
BY DEF PartAt, PartSize

LEMMA MinIs ==
  ASSUME NEW a \in Nat, NEW b \in Nat
  PROVE  Min({a, b}) \in Nat /\ Min({a, b}) <= a /\ Min({a, b}) <= b
<1>1. CASE a <= b
  <2>1. \A x \in {a, b} : (\A y \in {a, b} : x <= y) => x = a
    BY <1>1
  <2>2. a \in {a, b} /\ \A y \in {a, b} : a <= y
    BY <1>1
  <2>3. Min({a, b}) = a
    BY <2>1, <2>2 DEF Min
  <2> QED BY <1>1, <2>3
<1>2. CASE b <= a
  <2>1. \A x \in {a, b} : (\A y \in {a, b} : x <= y) => x = b
    BY <1>2
  <2>2. b \in {a, b} /\ \A y \in {a, b} : b <= y
    BY <1>2
  <2>3. Min({a, b}) = b
    BY <2>1, <2>2 DEF Min
  <2> QED BY <1>2, <2>3
<1> QED BY <1>1, <1>2

LEMMA InitHeaderIs ==
  /\ InitHeader.topic = Zeros(TopicMax) /\ InitHeader.reply_topic = Zeros(TopicMax)
  /\ \A n : /\ [InitHeader EXCEPT !.header_length = n].topic = Zeros(TopicMax)
            /\ [InitHeader EXCEPT !.header_length = n].reply_topic = Zeros(TopicMax)
            /\ [InitHeader EXCEPT !.header_length = n].header_length = n
BY DEF InitHeader

LEMMA SizesIs ==
  ASSUME NEW m \in Messages
  PROVE  /\ HeadSize(m) \in Nat /\ HeadSize(m) >= 28 /\ Len(m.payload) \in Nat
         /\ Len(m.payload) >= 1 /\ FrameSize(m) = HeadSize(m) + Len(m.payload)
         /\ FrameSize(m) \in Nat /\ 0 \in UInt32 /\ SubId \in UInt32
<1>1. 0 \in UInt32 /\ SubId \in UInt32
  BY HalfIs, SentAssumption DEF UInt32
<1> QED BY <1>1, FrameIs, HeaderFits, MessageIs DEF FrameSize

\* What is known of the messages when Kept holds.
LEMMA SentAre ==
  ASSUME Kept
  PROVE  /\ Len(sent) \in Nat /\ Len(sent) \in UInt32
         /\ \A n \in 1..Len(sent) : sent[n] \in Messages /\ n \in UInt32
         /\ \A r \in 0..Len(sent) : r \in UInt32
<1>1. Len(sent) \in Nat /\ \A n \in 1..Len(sent) : sent[n] \in Messages
  BY ElementOfSeq DEF Kept
<1>2. \A r \in 0..Len(sent) : r \in UInt32
  BY <1>1, HalfIs, SentAssumption DEF Kept, UInt32
<1> QED BY <1>1, <1>2

\* The router never asks for more than the frame.
LEMMA AskedIs ==
  ASSUME Kept, NEW r, RouterAt(r), r < Len(sent)
  PROVE  bytes_to_read <= FrameSize(sent[r + 1])
<1>1. r + 1 \in 1..Len(sent) /\ sent[r + 1] \in Messages
  BY SentAre DEF RouterAt
<1> DEFINE m == sent[r + 1]
<1>2. bytes_to_read = 4 \/ bytes_to_read = HeadSize(m) \/ bytes_to_read = FrameSize(m)
  BY DEF RouterAt
<1> HIDE DEF m
<1> QED BY <1>1, <1>2, SizesIs DEF m

LEMMA PartAskedIs ==
  ASSUME Kept, NEW r \in 0..Len(sent), ReceiverAt(r)
  PROVE  /\ Len(delivered) \in Nat /\ PartAt \in Nat /\ PartSize \in Nat /\ PartAt + got \in Nat
         /\ Len(delivered) < r => /\ PartAt + PartSize <= FrameSize(sent[Len(delivered) + 1])
                                  /\ Len(delivered) + 1 \in 1..Len(sent)
<1> DEFINE d == Len(delivered)
           m == sent[d + 1]
<1>1. d \in Nat /\ got \in Nat /\ Len(sent) \in Nat /\ d <= r
  BY SentAre DEF ReceiverAt
<1>2. d < r => d + 1 \in 1..Len(sent)
  BY <1>1
<1>3. d < r => m \in Messages
  BY <1>2, SentAre
<1>4. \/ phase = "preamble"
      \/ phase = "header" /\ d < r /\ hdr.header_length = HeadSize(m)
      \/ phase = "payload" /\ d < r /\ hdr.header_length = HeadSize(m)
           /\ hdr.payload_length = Len(m.payload)
  <2>1. \/ phase = "preamble"
        \/ phase = "header" /\ d < r /\ hdr = [InitHeader EXCEPT !.header_length = HeadSize(m)]
        \/ phase = "payload" /\ d < r /\ hdr = HeaderOf(m, d + 1, SubId)
    BY DEF ReceiverAt
  <2> HIDE DEF d, m
  <2>2. [InitHeader EXCEPT !.header_length = HeadSize(m)].header_length = HeadSize(m)
    BY InitHeaderIs
  <2>3. /\ HeaderOf(m, d + 1, SubId).header_length = HeadSize(m)
        /\ HeaderOf(m, d + 1, SubId).payload_length = Len(m.payload)
    BY DEF HeaderOf
  <2> QED BY <2>1, <2>2, <2>3
<1> HIDE DEF d, m
<1>5. CASE phase = "preamble"
  <2>1. PartAt = 0 /\ PartSize = 4
    BY <1>5, PartIs
  <2> QED BY <1>1, <1>2, <1>3, <2>1, SizesIs DEF d, m
<1>6. CASE phase = "header" /\ d < r /\ hdr.header_length = HeadSize(m)
  <2>1. PartAt = 4 /\ PartSize = HeadSize(m) - 4
    BY <1>6, PartIs
  <2>2. /\ HeadSize(m) \in Nat /\ HeadSize(m) >= 28 /\ Len(m.payload) \in Nat
        /\ FrameSize(m) = HeadSize(m) + Len(m.payload)
    BY <1>3, <1>6, SizesIs
  <2>3. /\ PartAt \in Nat /\ PartSize \in Nat /\ PartAt + got \in Nat
        /\ PartAt + PartSize <= FrameSize(m)
    BY <1>1, <2>1, <2>2
  <2> QED BY <1>1, <1>2, <2>3 DEF d, m
<1>7. CASE phase = "payload" /\ d < r /\ hdr.header_length = HeadSize(m)
             /\ hdr.payload_length = Len(m.payload)
  <2>1. PartAt = HeadSize(m) /\ PartSize = Len(m.payload)
    BY <1>7, PartIs
  <2>2. /\ HeadSize(m) \in Nat /\ Len(m.payload) \in Nat
        /\ FrameSize(m) = HeadSize(m) + Len(m.payload)
    BY <1>3, <1>7, SizesIs
  <2>3. /\ PartAt \in Nat /\ PartSize \in Nat /\ PartAt + got \in Nat
        /\ PartAt + PartSize <= FrameSize(m)
    BY <1>1, <2>1, <2>2
  <2> QED BY <1>1, <1>2, <2>3 DEF d, m
<1> QED BY <1>4, <1>5, <1>6, <1>7

LEMMA NothingIs ==
  ASSUME NEW s, NEW cd
  PROVE  \E at : /\ IsStream(<<>>, at, 0, s, cd)
                 /\ \A b : Pending(<<>>, at[0 + 1], b, 0, <<>>)
<1> DEFINE at == [n \in 1..(0 + 1) |-> 0]
<1>1. /\ <<>> \in Seq(Byte) /\ Len(<<>>) = 0 /\ 1..0 = {}
      /\ at \in [1..(0 + 1) -> Nat] /\ at[1] = 0 /\ at[0 + 1] = 0
  OBVIOUS
<1> HIDE DEF at
<1>2. IsStream(<<>>, at, 0, s, cd)
  BY <1>1 DEF IsStream
<1>3. \A b : Pending(<<>>, at[0 + 1], b, 0, <<>>)
  BY <1>1 DEF Pending
<1> QED BY <1>2, <1>3

LEMMA InitInv == Init => Inv
<1> SUFFICES ASSUME Init PROVE Inv
  OBVIOUS
<1>1. /\ sent = <<>> /\ up = <<>> /\ down = <<>> /\ delivered = <<>>
      /\ state = "preamble" /\ bytes_read = 0 /\ bytes_to_read = 4 /\ header = InitHeader
      /\ phase = "preamble" /\ got = 0 /\ hdr = InitHeader
      /\ read_buffer = Zeros(BufSize) /\ recv_buffer = Zeros(BufSize)
  BY DEF Init
<1>2. Kept
  <2>1. 0 \in Byte /\ MaxSent \in Nat
    BY BaseAssumption, SentAssumption, HalfIs DEF Byte, UInt32
  <2>2. Zeros(BufSize) \in [0..(BufSize - 1) -> Byte]
    BY <2>1 DEF Zeros
  <2>3. <<>> \in Seq(Messages) /\ Len(<<>>) = 0 /\ 0 <= MaxSent
    BY <2>1
  <2> QED BY <1>1, <2>2, <2>3 DEF Kept
<1>3. PICK at : /\ IsStream(<<>>, at, 0, sent, 0)
                /\ \A b : Pending(<<>>, at[0 + 1], b, 0, <<>>)
  BY NothingIs
<1>4. PICK bt : /\ IsStream(<<>>, bt, 0, sent, SubId)
                /\ \A b : Pending(<<>>, bt[0 + 1], b, 0, <<>>)
  BY NothingIs
<1>5. Len(sent) = 0 /\ Len(delivered) = 0 /\ PartAt = 0 /\ PartSize = 4 /\ PartAt + got = 0
  BY <1>1, PartIs
<1>6. RouterAt(0)
  BY <1>1, <1>5 DEF RouterAt
<1>7. ReceiverAt(0)
  <2>1. delivered \in Seq(Reports)
    BY <1>1
  <2> QED BY <1>1, <1>5, <2>1 DEF ReceiverAt
<1>8. UpIs(0, <<>>, at)
  BY <1>1, <1>3, <1>5, <1>6 DEF UpIs
<1>9. DownIs(0, <<>>, bt)
  BY <1>1, <1>4, <1>5, <1>7 DEF DownIs
<1> QED BY <1>2, <1>8, <1>9 DEF Inv

LEMMA SendKeeps ==
  ASSUME Inv, SendInternal PROVE Inv'
<1>1. PICK r, P, at, Q, bt : UpIs(r, P, at) /\ DownIs(r, Q, bt)
  BY DEF Inv
<1>2. Kept
  BY DEF Inv
<1> PICK N : N = Len(sent)
  OBVIOUS
<1>3. /\ N \in Nat /\ N < MaxSent /\ sent \in Seq(Messages)
      /\ \A n \in 1..N : sent[n] \in Messages
  BY <1>2, SentAre DEF SendInternal, Kept
<1>4. N + 1 \in UInt32 /\ 0 \in UInt32 /\ MaxSent \in Nat /\ N + 1 <= MaxSent
  BY <1>3, SentAssumption, HalfIs DEF UInt32
<1>5. PICK m \in Messages :
        /\ up' = up \o Encode(HeaderOf(m, N + 1, 0)) \o m.payload
        /\ sent' = Append(sent, m)
  BY <1>4, SentIs DEF SendInternal
<1>6. /\ UNCHANGED <<state, bytes_read, bytes_to_read, read_buffer, header>>
      /\ UNCHANGED <<down, phase, got, recv_buffer, hdr, delivered>>
  BY DEF SendInternal, routerVars, receiverVars
<1>7. /\ sent' \in Seq(Messages) /\ Len(sent') = N + 1
      /\ \A n \in 1..N : sent'[n] = sent[n]
      /\ sent'[N + 1] = m
  BY <1>3, <1>5, AppendProperties
<1> PICK F : F = Frame(m, N + 1, 0)
  OBVIOUS
<1>8. up \in Seq(Byte)
  BY <1>1 DEF UpIs, Pending
<1>9. up' = up \o F
  <2> DEFINE e == Encode(HeaderOf(m, N + 1, 0))
  <2>1. e \in Seq(Byte) /\ m.payload \in Seq(Byte)
    BY <1>4, HeaderFits, EncodeIs, MessageIs
  <2>2. up' = up \o e \o m.payload /\ F = e \o m.payload
    BY <1>5 DEF Frame
  <2> HIDE DEF e
  <2>3. (up \o e) \o m.payload = up \o (e \o m.payload)
    BY <1>8, <2>1, Associative
  <2> QED BY <2>2, <2>3
<1>10. Kept'
  BY <1>2, <1>4, <1>6, <1>7 DEF Kept
<1>11. /\ IsStream(P, at, N, sent, 0) /\ Pending(P, at[r + 1], read_buffer, bytes_read, up)
       /\ RouterAt(r) /\ r \in 0..N
  BY <1>1 DEF UpIs, RouterAt
<1>12. Longer(P, at, F, N, sent', 0)
  <2>1. \A n \in 1..N : sent'[n] = sent[n] /\ sent[n] \in Messages
    BY <1>3, <1>7
  <2>2. N \in Nat /\ sent'[N + 1] \in Messages /\ F = Frame(sent'[N + 1], N + 1, 0)
    BY <1>3, <1>7
  <2> QED BY <1>4, <1>11, <2>1, <2>2, AppendedIs
<1>13. PICK to : /\ IsStream(P \o F, to, N + 1, sent', 0)
                 /\ \A n \in 1..(N + 1) : to[n] = at[n]
  BY <1>12 DEF Longer
<1>14. Pending(P \o F, to[r + 1], read_buffer', bytes_read', up')
  <2>1. r + 1 \in 1..(N + 1) /\ bytes_read \in Nat
    BY <1>3, <1>11 DEF RouterAt
  <2>2. at[r + 1] \in Nat /\ to[r + 1] = at[r + 1]
    BY <1>11, <1>13, <2>1 DEF IsStream
  <2>3. Pending(P \o F, at[r + 1], read_buffer, bytes_read, up \o F)
    BY <1>11, <1>12, <2>1, <2>2 DEF Longer
  <2> QED BY <1>6, <1>9, <2>2, <2>3
<1>15. r < N => r + 1 \in 1..N /\ sent'[r + 1] = sent[r + 1]
  BY <1>3, <1>7, <1>11
<1>16. RouterAt(r)'
  <2>1. r \in 0..Len(sent')
    BY <1>3, <1>7, <1>11
  <2>2. r < Len(sent) => r < Len(sent') /\ sent'[r + 1] = sent[r + 1]
    BY <1>3, <1>7, <1>11, <1>15
  <2> QED BY <1>6, <1>11, <2>1, <2>2 DEF RouterAt
<1>17. UpIs(r, P \o F, to)'
  BY <1>7, <1>13, <1>14, <1>16 DEF UpIs
<1>18. DownIs(r, Q, bt)'
  <2>1. /\ ReceiverAt(r) /\ IsStream(Q, bt, r, sent, SubId)
        /\ Pending(Q, bt[Len(delivered) + 1], recv_buffer, PartAt + got, down)
    BY <1>1 DEF DownIs
  <2>2. PartAt' = PartAt /\ PartSize' = PartSize
    BY <1>6 DEF PartAt, PartSize
  <2>3. \A n \in 1..r : sent'[n] = sent[n]
    BY <1>3, <1>7, <1>11
  <2>4. IsStream(Q, bt, r, sent', SubId)
    BY <2>1, <2>3 DEF IsStream
  <2>5. Pending(Q, bt[Len(delivered') + 1], recv_buffer', PartAt' + got', down')
    BY <1>6, <2>1, <2>2
  <2>6. ReceiverAt(r)'
    <3> DEFINE d == Len(delivered)
    <3>1. d \in Nat /\ d <= r /\ r \in Nat
      BY <1>3, <1>11, <2>1 DEF ReceiverAt
    <3>2. (d < r => sent'[d + 1] = sent[d + 1]) /\ \A n \in 1..d : sent'[n] = sent[n]
      BY <2>3, <3>1
    <3>3. Len(delivered') = d
      BY <1>6
    <3> QED BY <1>6, <2>1, <2>2, <3>2, <3>3 DEF ReceiverAt
  <2> QED BY <2>4, <2>5, <2>6 DEF DownIs
<1> QED BY <1>10, <1>17, <1>18 DEF Inv

LEMMA ReadKeeps ==
  ASSUME Room, Inv, Read PROVE Inv'
<1>1. PICK r, P, at, Q, bt : UpIs(r, P, at) /\ DownIs(r, Q, bt)
  BY DEF Inv
<1>2. Kept
  BY DEF Inv
<1> PICK N : N = Len(sent)
  OBVIOUS
<1>3. /\ N \in Nat /\ N \in UInt32 /\ r \in 0..N /\ 0 \in UInt32 /\ BufSize \in Nat
      /\ \A n \in 1..N : sent[n] \in Messages /\ n \in UInt32
      /\ \A k \in 0..N : k \in UInt32
  <2>1. 0 \in UInt32
    BY SentAssumption, HalfIs DEF UInt32
  <2> QED BY <1>1, <1>2, <2>1, SentAre, BaseAssumption DEF UpIs, RouterAt
<1>4. /\ RouterAt(r) /\ IsStream(P, at, N, sent, 0)
      /\ Pending(P, at[r + 1], read_buffer, bytes_read, up)
      /\ bytes_read \in Nat /\ bytes_to_read \in Nat /\ bytes_read < bytes_to_read
  BY <1>1 DEF UpIs, RouterAt
<1>5. /\ ReceiverAt(r) /\ IsStream(Q, bt, r, sent, SubId)
      /\ Pending(Q, bt[Len(delivered) + 1], recv_buffer, PartAt + got, down)
      /\ Len(delivered) \in Nat /\ Len(delivered) <= r
      /\ PartAt + got \in Nat
  BY <1>1, <1>2, <1>3, PartAskedIs DEF DownIs, ReceiverAt
<1>6. /\ up \in Seq(Byte) /\ Len(up) \in Nat /\ (r = N => Len(up) = 0)
  <2>1. NextIs(P, at, N, sent, 0, r, read_buffer, bytes_read, up)
    BY <1>3, <1>4, PendingIs
  <2> QED BY <2>1 DEF NextIs
<1> DEFINE take == Min({Len(up), bytes_to_read - bytes_read})
<1>7. take \in Nat /\ take <= Len(up) /\ take <= bytes_to_read - bytes_read
  BY <1>4, <1>6, MinIs
<1>8. PICK n \in 1..take :
        LET b == Copied(read_buffer, bytes_read, SubSeq(up, 1, n)) IN
        /\ up' = SubSeq(up, n + 1, Len(up))
        /\ read_buffer' = b
        /\ IF bytes_read + n = bytes_to_read
           THEN /\ PartComplete(b)
                /\ state # "payload" => bytes_read' = bytes_read + n
           ELSE /\ bytes_read' = bytes_read + n
                /\ UNCHANGED <<state, bytes_to_read, header, down>>
        /\ UNCHANGED <<senderVars, receiverVars>>
  BY DEF Read
<1> HIDE DEF take
<1> PICK x : x = bytes_read + n
  OBVIOUS
<1> PICK b : b = Copied(read_buffer, bytes_read, SubSeq(up, 1, n))
  OBVIOUS
<1>9. /\ n \in 1..Len(up) /\ n \in Nat /\ x \in Nat /\ x <= bytes_to_read /\ r < N
  BY <1>3, <1>4, <1>6, <1>7
<1>10. /\ UNCHANGED <<sent, phase, got, recv_buffer, hdr, delivered>>
       /\ read_buffer' = b
  BY <1>8 DEF senderVars, receiverVars
<1> PICK m : m = sent[r + 1]
  OBVIOUS
<1>11. /\ m \in Messages /\ r + 1 \in 1..N /\ r + 1 \in UInt32
  BY <1>3, <1>9
<1>12. bytes_to_read <= FrameSize(m) /\ x <= FrameSize(m) /\ x <= BufSize /\ FrameSize(m) \in Nat
  <2>1. bytes_to_read <= FrameSize(m) /\ FrameSize(m) \in Nat
    BY <1>2, <1>4, <1>9, <1>11, AskedIs, SizesIs
  <2>2. FrameSize(m) < BufSize
    BY <1>11 DEF Room
  <2> QED BY <1>3, <1>4, <1>9, <2>1, <2>2
<1>13. /\ b \in [0..(BufSize - 1) -> Byte]
       /\ Pending(P, at[r + 1], b, x, up')
  <2>1. at[r + 1] \in Nat
    BY <1>3, <1>4 DEF IsStream
  <2>2. read_buffer \in [0..(BufSize - 1) -> Byte]
    BY <1>2 DEF Kept
  <2> QED BY <1>4, <1>8, <1>9, <1>12, <2>1, <2>2, TakenIs
<1>14. /\ First(b, Frame(m, r + 1, 0), x)
       /\ x = FrameSize(m) => \A c : Pending(P, at[r + 1 + 1], c, 0, up')
  <2>1. /\ x <= FrameSize(sent[r + 1]) => First(b, Frame(sent[r + 1], r + 1, 0), x)
        /\ x = FrameSize(sent[r + 1]) => \A c : Pending(P, at[r + 1 + 1], c, 0, up')
    <3>1. NextIs(P, at, N, sent, 0, r, b, x, up')
      BY <1>3, <1>4, <1>9, <1>13, PendingIs
    <3> QED BY <1>9, <3>1 DEF NextIs
  <2> QED BY <1>12, <2>1
<1>15. Kept'
  BY <1>2, <1>10, <1>13 DEF Kept
<1>16. ASSUME down' = down PROVE DownIs(r, Q, bt)'
  <2>1. PartAt' = PartAt /\ PartSize' = PartSize
    BY <1>10 DEF PartAt, PartSize
  <2>2. Pending(Q, bt[Len(delivered') + 1], recv_buffer', PartAt' + got', down')
    BY <1>5, <1>10, <1>16, <2>1
  <2>3. ReceiverAt(r)'
    BY <1>5, <1>10, <2>1 DEF ReceiverAt
  <2> QED BY <1>5, <1>10, <2>2, <2>3 DEF DownIs
<1>17. ASSUME bytes_read' = x, RouterAt(r)' PROVE UpIs(r, P, at)'
  BY <1>4, <1>10, <1>13, <1>17 DEF UpIs
<1>18. CASE x # bytes_to_read
  <2>1. bytes_read' = x /\ UNCHANGED <<state, bytes_to_read, header, down>>
    BY <1>8, <1>18
  <2>2. RouterAt(r)'
    BY <1>4, <1>9, <1>10, <1>18, <2>1 DEF RouterAt
  <2> QED BY <1>15, <1>16, <1>17, <2>1, <2>2 DEF Inv
<1>19. CASE x = bytes_to_read
  <2>1. PartComplete(b) /\ (state # "payload" => bytes_read' = x)
    BY <1>8, <1>19
  <2>2. /\ HeadSize(m) \in Nat /\ HeadSize(m) >= 28 /\ Len(m.payload) \in Nat
        /\ Len(m.payload) >= 1 /\ FrameSize(m) = HeadSize(m) + Len(m.payload)
    BY <1>11, SizesIs
  <2>3. CASE state = "preamble"
    <3>1. /\ state' = "header" /\ bytes_to_read' = bytes_to_read + DecodedUInt16(b, 2) - 4
          /\ header' = header /\ down' = down /\ bytes_read' = x
      BY <2>1, <2>3 DEF PartComplete
    <3>2. bytes_to_read = 4 /\ header = InitHeader
      BY <1>4, <2>3 DEF RouterAt
    <3>3. DecodedUInt16(b, 2) = HeadSize(m)
      BY <1>3, <1>9, <1>11, <1>14, <1>19, <3>2, PreambleIs
    <3>4. bytes_to_read' = HeadSize(m)
      BY <2>2, <3>1, <3>2, <3>3
    <3>5. RouterAt(r)'
      BY <1>3, <1>9, <1>10, <1>19, <2>2, <3>1, <3>2, <3>4 DEF RouterAt
    <3> QED BY <1>15, <1>16, <1>17, <3>1, <3>5 DEF Inv
  <2>4. CASE state = "header"
    <3>1. /\ state' = "payload" /\ bytes_to_read' = bytes_to_read + DecodedInt32(b, 16)
          /\ header' = Decode(header, b) /\ down' = down /\ bytes_read' = x
      BY <2>1, <2>4 DEF PartComplete
    <3>2. bytes_to_read = HeadSize(m) /\ header = InitHeader
      BY <1>4, <2>4 DEF RouterAt
    <3>3. Decode(header, b) = HeaderOf(m, r + 1, 0) /\ DecodedInt32(b, 16) = Len(m.payload)
      BY <1>3, <1>9, <1>11, <1>14, <1>19, <2>2, <3>2, DecodeIs, InitHeaderIs
    <3>4. bytes_to_read' = FrameSize(m)
      BY <2>2, <3>1, <3>2, <3>3
    <3>5. RouterAt(r)'
      BY <1>3, <1>9, <1>10, <1>12, <1>19, <2>2, <3>1, <3>2, <3>3, <3>4 DEF RouterAt
    <3> QED BY <1>15, <1>16, <1>17, <3>1, <3>5 DEF Inv
  <2>5. CASE state = "payload"
    <3>1. /\ state' = "preamble" /\ bytes_read' = 0 /\ bytes_to_read' = 4
          /\ header' = InitHeader /\ down' = down \o Forwarded(header, b)
      BY <2>1, <2>5 DEF PartComplete, NextFrame
    <3>2. bytes_to_read = FrameSize(m) /\ header = HeaderOf(m, r + 1, 0)
      BY <1>4, <2>5 DEF RouterAt
    <3> PICK F : F = Frame(m, r + 1, SubId)
      OBVIOUS
    <3>3. Forwarded(header, b) = F
      BY <1>9, <1>11, <1>12, <1>14, <1>19, <3>2, ForwardedIs
    <3>4. RouterAt(r + 1)'
      BY <1>3, <1>9, <1>10, <3>1 DEF RouterAt
    <3>5. UpIs(r + 1, P, at)'
      BY <1>4, <1>10, <1>14, <1>19, <3>1, <3>2, <3>4 DEF UpIs
    <3>6. Longer(Q, bt, F, r, sent, SubId)
      <4>1. \A k \in 1..r : sent[k] = sent[k] /\ sent[k] \in Messages
        BY <1>3
      <4>2. r \in Nat /\ sent[r + 1] \in Messages /\ F = Frame(sent[r + 1], r + 1, SubId)
        BY <1>3, <1>11
      <4> QED BY <1>5, <1>11, <4>1, <4>2, AppendedIs, SentAssumption
    <3>7. PICK to : /\ IsStream(Q \o F, to, r + 1, sent, SubId)
                    /\ \A k \in 1..(r + 1) : to[k] = bt[k]
      BY <3>6 DEF Longer
    <3>8. PartAt' = PartAt /\ PartSize' = PartSize
      BY <1>10 DEF PartAt, PartSize
    <3>9. Pending(Q \o F, to[Len(delivered') + 1], recv_buffer', PartAt' + got', down')
      <4>1. Len(delivered) + 1 \in 1..(r + 1)
        BY <1>3, <1>5
      <4>2. bt[Len(delivered) + 1] \in Nat /\ to[Len(delivered) + 1] = bt[Len(delivered) + 1]
        BY <1>5, <3>7, <4>1 DEF IsStream
      <4>3. Pending(Q \o F, bt[Len(delivered) + 1], recv_buffer, PartAt + got, down \o F)
        BY <1>5, <3>6, <4>2 DEF Longer
      <4> QED BY <1>10, <3>1, <3>3, <3>8, <4>2, <4>3
    <3>10. ReceiverAt(r + 1)'
      <4>1. Len(delivered) <= r + 1 /\ (Len(delivered) < r => Len(delivered) < r + 1)
        BY <1>3, <1>5
      <4> QED BY <1>5, <1>10, <3>8, <4>1 DEF ReceiverAt
    <3>11. DownIs(r + 1, Q \o F, to)'
      BY <1>10, <3>7, <3>9, <3>10 DEF DownIs
    <3> QED BY <1>15, <3>5, <3>11 DEF Inv
  <2> QED BY <1>4, <2>3, <2>4, <2>5 DEF RouterAt
<1> QED BY <1>18, <1>19

LEMMA ReceiveKeeps ==
  ASSUME Room, Inv, ReadUntil PROVE Inv'
<1>1. PICK r, P, at, Q, bt : UpIs(r, P, at) /\ DownIs(r, Q, bt)
  BY DEF Inv
<1>2. Kept
  BY DEF Inv
<1> PICK d : d = Len(delivered)
  OBVIOUS
<1> PICK a : a = PartAt
  OBVIOUS
<1> PICK z : z = PartSize
  OBVIOUS
<1>3. /\ r \in 0..Len(sent) /\ Len(sent) \in Nat /\ r \in Nat /\ r \in UInt32
      /\ SubId \in UInt32 /\ BufSize \in Nat
      /\ \A n \in 1..r : sent[n] \in Messages /\ n \in UInt32
  <2>1. r \in 0..Len(sent)
    BY <1>1 DEF UpIs, RouterAt
  <2>2. \A n \in 1..r : n \in 1..Len(sent)
    BY <1>2, <2>1, SentAre
  <2> QED BY <1>2, <2>1, <2>2, SentAre, SentAssumption, BaseAssumption
<1>4. /\ ReceiverAt(r) /\ IsStream(Q, bt, r, sent, SubId)
      /\ Pending(Q, bt[d + 1], recv_buffer, a + got, down)
      /\ d \in Nat /\ d \in 0..r /\ got \in Nat /\ got < z /\ a \in Nat /\ z \in Nat
      /\ d < r => a + z <= FrameSize(sent[d + 1])
      /\ delivered \in Seq(Reports)
  <2>1. ReceiverAt(r)
    BY <1>1 DEF DownIs
  <2> QED BY <1>1, <1>2, <1>3, <2>1, PartAskedIs DEF DownIs, ReceiverAt
<1>5. down \in Seq(Byte) /\ Len(down) \in Nat /\ (d = r => Len(down) = 0)
  <2>1. a + got \in Nat
    BY <1>4
  <2>2. NextIs(Q, bt, r, sent, SubId, d, recv_buffer, a + got, down)
    BY <1>3, <1>4, <2>1, PendingIs
  <2> QED BY <2>2 DEF NextIs
<1> DEFINE take == Min({Len(down), z - got})
<1>6. take \in Nat /\ take <= Len(down) /\ take <= z - got
  BY <1>4, <1>5, MinIs
<1>7. PICK n \in 1..take :
        LET b == Copied(recv_buffer, a + got, SubSeq(down, 1, n)) IN
        /\ down' = SubSeq(down, n + 1, Len(down))
        /\ IF got + n = z
           THEN got' = 0 /\ PartRead(b)
           ELSE got' = got + n /\ recv_buffer' = b /\ UNCHANGED <<phase, hdr, delivered>>
        /\ UNCHANGED <<senderVars, up, routerVars>>
  BY DEF ReadUntil
<1> HIDE DEF take
<1> PICK x : x = a + (got + n)
  OBVIOUS
<1> PICK b : b = Copied(recv_buffer, a + got, SubSeq(down, 1, n))
  OBVIOUS
<1>8. /\ n \in 1..Len(down) /\ n \in Nat /\ x \in Nat /\ got + n <= z /\ d < r
      /\ a + got \in Nat /\ x = a + got + n /\ x <= a + z
  <2>1. n \in Nat /\ n >= 1 /\ n <= Len(down) /\ n <= z - got
    BY <1>4, <1>5, <1>6
  <2>2. d # r
    BY <1>5, <2>1
  <2>3. d < r
    BY <1>3, <1>4, <2>2
  <2>4. n \in 1..Len(down)
    BY <1>5, <2>1
  <2> QED BY <1>4, <2>1, <2>3, <2>4
<1>9. /\ UNCHANGED <<sent, up, state, bytes_read, bytes_to_read, read_buffer, header>>
  BY <1>7 DEF senderVars, routerVars
<1> PICK m : m = sent[d + 1]
  OBVIOUS
<1>10. /\ m \in Messages /\ d + 1 \in 1..r /\ d + 1 \in UInt32
  BY <1>3, <1>4, <1>8
<1>11. /\ HeadSize(m) \in Nat /\ HeadSize(m) >= 28 /\ Len(m.payload) \in Nat
       /\ Len(m.payload) >= 1 /\ FrameSize(m) = HeadSize(m) + Len(m.payload)
       /\ FrameSize(m) \in Nat /\ FrameSize(m) < BufSize
  BY <1>10, SizesIs DEF Room
<1>12. x <= FrameSize(m) /\ x <= BufSize
  <2> PICK y : y = FrameSize(m)
    OBVIOUS
  <2>1. y \in Nat /\ y < BufSize /\ a + z <= y
    BY <1>4, <1>8, <1>11
  <2>2. BufSize \in Nat /\ a \in Nat /\ z \in Nat /\ x \in Nat /\ x <= a + z
    BY <1>3, <1>4, <1>8
  <2> QED BY <2>1, <2>2
<1>13. /\ b \in [0..(BufSize - 1) -> Byte]
       /\ Pending(Q, bt[d + 1], b, x, down')
  <2>1. bt[d + 1] \in Nat
    BY <1>3, <1>4 DEF IsStream
  <2>2. recv_buffer \in [0..(BufSize - 1) -> Byte]
    BY <1>2 DEF Kept
  <2>3. /\ a + got \in Nat /\ n \in 1..Len(down) /\ a + got + n <= BufSize
    BY <1>8, <1>12
  <2> PICK w : w = SubSeq(down, n + 1, Len(down))
    OBVIOUS
  <2> PICK y : y = a + got
    OBVIOUS
  <2>4. /\ b \in [0..(BufSize - 1) -> Byte]
        /\ Pending(Q, bt[d + 1], b, y + n, w)
    BY <1>4, <2>1, <2>2, <2>3, TakenIs
  <2> QED BY <1>7, <1>8, <2>4
<1>14. /\ First(b, Frame(m, d + 1, SubId), x)
       /\ x = FrameSize(m) => \A c : Pending(Q, bt[d + 1 + 1], c, 0, down')
  <2>1. NextIs(Q, bt, r, sent, SubId, d, b, x, down')
    BY <1>3, <1>4, <1>8, <1>13, PendingIs
  <2> QED BY <1>8, <1>12, <2>1 DEF NextIs
<1>15. ASSUME recv_buffer' \in [0..(BufSize - 1) -> Byte] PROVE Kept'
  BY <1>2, <1>9, <1>15 DEF Kept
<1>16. UpIs(r, P, at)'
  BY <1>1, <1>9 DEF UpIs, RouterAt
<1>17. ASSUME delivered' = delivered, recv_buffer' = b, PartAt' + got' = x, ReceiverAt(r)'
       PROVE  Inv'
  <2>1. DownIs(r, Q, bt)'
    BY <1>4, <1>9, <1>13, <1>17 DEF DownIs
  <2> QED BY <1>13, <1>15, <1>16, <1>17, <2>1 DEF Inv
<1>18. CASE got + n # z
  <2>1. got' = got + n /\ recv_buffer' = b /\ UNCHANGED <<phase, hdr, delivered>>
    BY <1>7, <1>18
  <2>2. PartAt' = a /\ PartSize' = z
    BY <2>1 DEF PartAt, PartSize
  <2>3. ReceiverAt(r)'
    <3>1. got + n \in Nat /\ got + n < z
      BY <1>4, <1>8, <1>18
    <3> QED BY <1>4, <1>9, <2>1, <2>2, <3>1 DEF ReceiverAt
  <2> QED BY <1>17, <2>1, <2>2, <2>3
<1>19. CASE got + n = z
  <2>1. got' = 0 /\ PartRead(b)
    BY <1>7, <1>19
  <2>2. CASE phase = "preamble"
    <3>1. /\ phase' = "header" /\ hdr' = [hdr EXCEPT !.header_length = DecodedUInt16(b, 2)]
          /\ recv_buffer' = b /\ delivered' = delivered
      BY <2>1, <2>2 DEF PartRead
    <3>2. hdr = InitHeader /\ a = 0 /\ z = 4 /\ x = 4
      BY <1>4, <1>19, <2>2, PartIs DEF ReceiverAt
    <3>3. DecodedUInt16(b, 2) = HeadSize(m)
      BY <1>3, <1>8, <1>10, <1>14, <3>2, PreambleIs
    <3>4. hdr' = [InitHeader EXCEPT !.header_length = HeadSize(m)] /\ hdr'.header_length = HeadSize(m)
      BY <3>1, <3>2, <3>3, InitHeaderIs
    <3>5. PartAt' = 4 /\ PartSize' = HeadSize(m) - 4
      BY <3>1, <3>4, PartIs DEF PartAt, PartSize
    <3>6. PartAt' + got' = x
      BY <2>1, <3>2, <3>5
    <3>7. ReceiverAt(r)'
      <4>1. got' \in Nat /\ got' < PartSize'
        BY <1>11, <2>1, <3>5
      <4> QED BY <1>4, <1>8, <1>9, <3>1, <3>4, <4>1 DEF ReceiverAt
    <3> QED BY <1>17, <3>1, <3>6, <3>7
  <2>3. CASE phase = "header"
    <3>1. /\ phase' = "payload" /\ hdr' = Decode(hdr, b)
          /\ recv_buffer' = b /\ delivered' = delivered
      BY <2>1, <2>3 DEF PartRead
    <3>2. hdr = [InitHeader EXCEPT !.header_length = HeadSize(m)]
      BY <1>4, <2>3 DEF ReceiverAt
    <3>3. hdr.topic = Zeros(TopicMax) /\ hdr.reply_topic = Zeros(TopicMax)
          /\ hdr.header_length = HeadSize(m)
      BY <3>2, InitHeaderIs
    <3>4. a = 4 /\ z = HeadSize(m) - 4 /\ x = HeadSize(m)
      BY <1>11, <1>19, <2>3, <3>3, PartIs
    <3>5. Decode(hdr, b) = HeaderOf(m, d + 1, SubId)
      <4>1. x >= HeadSize(m) /\ x \in Nat /\ First(b, Frame(m, d + 1, SubId), x)
        BY <1>8, <1>11, <1>14, <3>4
      <4>2. SubId \in UInt32 /\ d + 1 \in UInt32 /\ m \in Messages
        BY <1>3, <1>10
      <4>3. hdr.topic = Zeros(TopicMax) /\ hdr.reply_topic = Zeros(TopicMax)
        BY <3>3
      <4> QED BY <4>1, <4>2, <4>3, DecodeIs
    <3>6. /\ hdr' = HeaderOf(m, d + 1, SubId)
          /\ hdr'.header_length = HeadSize(m) /\ hdr'.payload_length = Len(m.payload)
      BY <3>1, <3>5 DEF HeaderOf
    <3>7. PartAt' = HeadSize(m) /\ PartSize' = Len(m.payload)
      BY <3>1, <3>6 DEF PartAt, PartSize
    <3>8. PartAt' + got' = x
      BY <1>11, <2>1, <3>4, <3>7
    <3>9. ReceiverAt(r)'
      <4>1. got' \in Nat /\ got' < PartSize'
        BY <1>11, <2>1, <3>7
      <4> QED BY <1>4, <1>8, <1>9, <3>1, <3>6, <4>1 DEF ReceiverAt
    <3> QED BY <1>17, <3>1, <3>8, <3>9
  <2>4. CASE phase = "payload"
    <3> PICK c : c = Terminated(b)
      OBVIOUS
    <3>1. /\ phase' = "preamble" /\ recv_buffer' = c /\ Callback(c) /\ hdr' = InitHeader
      BY <2>1, <2>4 DEF PartRead
    <3>2. hdr = HeaderOf(m, d + 1, SubId)
      BY <1>4, <2>4 DEF ReceiverAt
    <3>3. /\ hdr.header_length = HeadSize(m) /\ hdr.payload_length = Len(m.payload)
          /\ hdr.flags = m.flags /\ hdr.sequence_number = d + 1 /\ hdr.control_data = SubId
      BY <3>2 DEF HeaderOf
    <3>4. StrAt(hdr.topic, 0) = Truncated(m.topic) /\ StrAt(hdr.reply_topic, 0) = Truncated(m.reply)
      BY <1>3, <1>10, <3>2, HeaderFits
    <3>5. x = FrameSize(m)
      BY <1>11, <1>19, <2>4, <3>3, PartIs
    <3>6. c = Copied(b, FrameSize(m), <<0>>)
      BY <1>11, <3>3 DEF Terminated
    <3>7. c \in [0..(BufSize - 1) -> Byte] /\ StrAt(c, HeadSize(m)) = m.payload
      BY <1>3, <1>10, <1>11, <1>13, <1>14, <3>5, <3>6, TerminatedIs
    <3>8. delivered' = Append(delivered, Report(m, d + 1))
      BY <3>1, <3>3, <3>4, <3>7 DEF Callback, Report
    <3>9. /\ delivered' \in Seq(Reports) /\ Len(delivered') = d + 1
          /\ \A k \in 1..d : delivered'[k] = delivered[k]
          /\ delivered'[d + 1] = Report(m, d + 1)
      <4>1. Report(m, d + 1) \in Reports
        <5>1. d + 1 \in Nat
          BY <1>4
        <5> QED BY <1>10, <5>1 DEF Reports
      <4> QED BY <1>4, <3>8, <4>1, AppendProperties
    <3>10. PartAt' = 0 /\ PartSize' = 4
      BY <3>1 DEF PartAt, PartSize
    <3>11. ReceiverAt(r)'
      <4>1. \A k \in 1..(d + 1) : delivered'[k] = Report(sent[k], k)
        <5>1. \A k \in 1..d : delivered[k] = Report(sent[k], k)
          BY <1>4 DEF ReceiverAt
        <5>2. \A k \in 1..(d + 1) : k \in 1..d \/ k = d + 1
          BY <1>4
        <5> QED BY <3>9, <5>1, <5>2
      <4>2. got' \in Nat /\ got' < PartSize' /\ d + 1 <= r
        BY <1>3, <1>4, <1>8, <2>1, <3>10
      <4> QED BY <1>9, <3>1, <3>9, <4>1, <4>2 DEF ReceiverAt
    <3>12. PartAt' + got' = 0
      BY <2>1, <3>10
    <3>13. DownIs(r, Q, bt)'
      <4>1. Pending(Q, bt[d + 1 + 1], recv_buffer', 0, down')
        BY <1>14, <3>5
      <4>2. Pending(Q, bt[Len(delivered') + 1], recv_buffer', PartAt' + got', down')
        BY <3>9, <3>12, <4>1
      <4> QED BY <1>4, <1>9, <3>11, <4>2 DEF DownIs
    <3> QED BY <1>15, <1>16, <3>1, <3>7, <3>13 DEF Inv
  <2> QED BY <1>4, <2>2, <2>3, <2>4 DEF ReceiverAt
<1> QED BY <1>18, <1>19

LEMMA InductiveInv == Room => (Spec => []Inv)
<1> SUFFICES ASSUME Room PROVE Spec => []Inv
  OBVIOUS
<1>1. Init => Inv
  BY InitInv
<1>2. Inv /\ [Next]_vars => Inv'
  <2> SUFFICES ASSUME Inv, [Next]_vars PROVE Inv'
    OBVIOUS
  <2>1. CASE SendInternal
    BY <2>1, SendKeeps
  <2>2. CASE Read
    BY <2>2, ReadKeeps
  <2>3. CASE ReadUntil
    BY <2>3, ReceiveKeeps
  <2>4. CASE UNCHANGED vars
    <3>1. UNCHANGED <<sent, up, state, bytes_read, bytes_to_read, read_buffer, header, down,
                      phase, got, recv_buffer, hdr, delivered>>
      BY <2>4 DEF vars
    <3>2. PartAt' = PartAt /\ PartSize' = PartSize
      BY <3>1 DEF PartAt, PartSize
    <3>3. PICK r, P, at, Q, bt : UpIs(r, P, at) /\ DownIs(r, Q, bt)
      BY DEF Inv
    <3>4. Kept'
      BY <3>1 DEF Inv, Kept
    <3>5. UpIs(r, P, at)'
      BY <3>1, <3>3 DEF UpIs, RouterAt
    <3>6. ReceiverAt(r)'
      BY <3>1, <3>2, <3>3 DEF DownIs, ReceiverAt
    <3>7. DownIs(r, Q, bt)'
      BY <3>1, <3>2, <3>3, <3>6 DEF DownIs
    <3> QED BY <3>4, <3>5, <3>7 DEF Inv
  <2> QED BY <2>1, <2>2, <2>3, <2>4 DEF Next
<1> QED BY <1>1, <1>2, PTL DEF Spec

-----------------------------------------------------------------------------
(* What the application sees.                                               *)

\* However the streams are cut into recv() calls, and whatever frames were read
\* into the same buffers and headers before, the callback of the receiver is given
\* the messages that were sent, in order and as they were sent.
THEOREM Delivery ==
  ASSUME Room PROVE Spec => []DeliveredAsSent
<1>1. Inv => DeliveredAsSent
  <2> SUFFICES ASSUME Inv PROVE DeliveredAsSent
    OBVIOUS
  <2>1. PICK r, P, at, Q, bt : UpIs(r, P, at) /\ DownIs(r, Q, bt)
    BY DEF Inv
  <2>2. /\ Len(delivered) <= r /\ r \in 0..Len(sent) /\ Len(sent) \in Nat
        /\ \A n \in 1..Len(delivered) : delivered[n] = Report(sent[n], n)
        /\ Len(delivered) \in Nat
    BY <2>1, SentAre, PartAskedIs DEF Inv, UpIs, DownIs, RouterAt, ReceiverAt
  <2> QED BY <2>2 DEF DeliveredAsSent, AsDelivered, Report
<1> QED BY <1>1, InductiveInv, PTL

LEMMA HeaderIsOK ==
  ASSUME NEW m \in Messages, NEW n \in UInt32, NEW cd \in UInt32
  PROVE  /\ HeaderOK(HeaderOf(m, n, cd))
         /\ HeaderOf(m, n, cd).topic[TopicMax - 1] = 0
         /\ HeaderOf(m, n, cd).reply_topic[TopicMax - 1] = 0
<1> DEFINE h == HeaderOf(m, n, cd)
           tp == Truncated(m.topic)
           rp == Truncated(m.reply)
<1>1. /\ tp \in Text /\ Len(tp) < TopicMax /\ rp \in Text /\ Len(rp) < TopicMax
  BY MessageIs, TruncatedIs
<1>2. /\ h.header_length = HeadSize(m) /\ h.sequence_number = n /\ h.flags = m.flags
      /\ h.control_data = cd /\ h.payload_length = Len(m.payload)
      /\ h.topic = Copied(Zeros(TopicMax), 0, tp)
      /\ h.reply_topic = Copied(Zeros(TopicMax), 0, rp)
  BY DEF HeaderOf, Field
<1> HIDE DEF h, tp, rp
<1>3. /\ h.topic \in [0..(TopicMax - 1) -> Byte] /\ h.topic[TopicMax - 1] = 0
      /\ h.reply_topic \in [0..(TopicMax - 1) -> Byte] /\ h.reply_topic[TopicMax - 1] = 0
  BY <1>1, <1>2, FieldIs
<1>4. HeadSize(m) \in UInt16 /\ m.flags \in UInt32 /\ Len(m.payload) \in UInt32
  BY HeaderFits, MessageIs
<1> QED BY <1>2, <1>3, <1>4 DEF HeaderOK, h

LEMMA InitHeaderIsOK ==
  ASSUME NEW n \in UInt16
  PROVE  LET h == [InitHeader EXCEPT !.header_length = n]
         IN  HeaderOK(h) /\ h.topic[TopicMax - 1] = 0 /\ h.reply_topic[TopicMax - 1] = 0
<1>1. 0 \in Byte /\ 0 \in UInt32 /\ TopicMax \in Nat \ {0}
  BY BaseAssumption, HalfIs, SentAssumption DEF Byte, UInt32
<1>2. /\ Zeros(TopicMax) \in [0..(TopicMax - 1) -> Byte] /\ Zeros(TopicMax)[TopicMax - 1] = 0
  BY <1>1 DEF Zeros
<1> DEFINE h == [InitHeader EXCEPT !.header_length = n]
<1>3. /\ h.header_length = n /\ h.sequence_number = 0 /\ h.flags = 0 /\ h.control_data = 0
      /\ h.payload_length = 0 /\ h.topic = Zeros(TopicMax) /\ h.reply_topic = Zeros(TopicMax)
  BY DEF InitHeader
<1> HIDE DEF h
<1>4. HeaderOK(h) /\ h.topic[TopicMax - 1] = 0 /\ h.reply_topic[TopicMax - 1] = 0
  BY <1>1, <1>2, <1>3 DEF HeaderOK
<1> QED BY <1>4 DEF h

\* When every message leaves room for the 0 behind its payload, no recv() and no 0
\* is written behind a buffer, and a topic is never without its terminator.
THEOREM Memory ==
  ASSUME Room PROVE Spec => []BuffersHold
<1>1. Inv => BuffersHold
  <2> SUFFICES ASSUME Inv PROVE BuffersHold
    OBVIOUS
  <2>1. PICK r, P, at, Q, bt : UpIs(r, P, at) /\ DownIs(r, Q, bt)
    BY DEF Inv
  <2>2. /\ Kept /\ RouterAt(r) /\ ReceiverAt(r) /\ r \in 0..Len(sent) /\ Len(sent) \in Nat
        /\ up \in Seq(Byte) /\ down \in Seq(Byte) /\ sent \in Seq(Messages)
        /\ read_buffer \in [0..(BufSize - 1) -> Byte]
        /\ recv_buffer \in [0..(BufSize - 1) -> Byte]
    <3>1. Kept /\ RouterAt(r) /\ ReceiverAt(r)
      BY <2>1 DEF Inv, UpIs, DownIs
    <3>2. up \in Seq(Byte) /\ down \in Seq(Byte)
      BY <2>1 DEF UpIs, DownIs, Pending
    <3>3. r \in 0..Len(sent)
      BY <3>1 DEF RouterAt
    <3>4. Len(sent) \in Nat
      BY <3>1, SentAre
    <3> QED BY <3>1, <3>2, <3>3, <3>4 DEF Kept
  <2> PICK d : d = Len(delivered)
    OBVIOUS
  <2>3. d \in Nat /\ d <= r /\ PartSize \in Nat /\ got \in Nat /\ got < PartSize
    BY <2>2, PartAskedIs DEF ReceiverAt
  <2>4. /\ FixedSize = 28 /\ BufSize \in Nat /\ BufSize > 28 /\ 0 \in UInt32 /\ SubId \in UInt32
        /\ 0 \in UInt16
    BY BaseAssumption, SentAssumption, HalfIs DEF Room, FixedSize, UInt32, UInt16
  <2>5. ASSUME NEW k \in Nat, k < r \/ k < Len(sent)
        PROVE  /\ sent[k + 1] \in Messages /\ k + 1 \in UInt32
               /\ HeadSize(sent[k + 1]) \in Nat /\ HeadSize(sent[k + 1]) >= 28
               /\ FrameSize(sent[k + 1]) \in Nat /\ HeadSize(sent[k + 1]) < FrameSize(sent[k + 1])
               /\ FrameSize(sent[k + 1]) = HeadSize(sent[k + 1]) + Len(sent[k + 1].payload)
               /\ FrameSize(sent[k + 1]) < BufSize
               /\ HeadSize(sent[k + 1]) \in UInt16
               /\ Len(sent[k + 1].payload) \in Nat
    <3>1. k + 1 \in 1..Len(sent)
      BY <2>2, <2>5
    <3> PICK m : m = sent[k + 1]
      OBVIOUS
    <3>2. m \in Messages /\ k + 1 \in UInt32
      BY <2>2, <3>1, SentAre
    <3>3. FrameSize(m) < BufSize /\ HeadSize(m) \in UInt16
      BY <2>4, <3>2, HeaderFits DEF Room
    <3>4. /\ HeadSize(m) \in Nat /\ HeadSize(m) >= 28 /\ FrameSize(m) \in Nat
          /\ Len(m.payload) \in Nat /\ Len(m.payload) >= 1
          /\ FrameSize(m) = HeadSize(m) + Len(m.payload)
      BY <3>2, SizesIs
    <3>5. HeadSize(m) < FrameSize(m)
      BY <3>4
    <3> QED BY <3>2, <3>3, <3>4, <3>5
  <2>6. /\ HeaderOK(InitHeader)
        /\ InitHeader.topic[TopicMax - 1] = 0 /\ InitHeader.reply_topic[TopicMax - 1] = 0
    <3>1. [InitHeader EXCEPT !.header_length = 0] = InitHeader
      BY DEF InitHeader
    <3> QED BY <2>4, <3>1, InitHeaderIsOK
  <2>7. /\ HeaderOK(header) /\ header.topic[TopicMax - 1] = 0 /\ header.reply_topic[TopicMax - 1] = 0
        /\ bytes_read \in Nat /\ bytes_to_read \in Nat /\ bytes_read < bytes_to_read
        /\ bytes_to_read >= 4 /\ bytes_to_read < BufSize
        /\ state \in {"preamble", "header", "payload"}
    <3>0. r \in Nat /\ bytes_read \in Nat /\ bytes_to_read \in Nat /\ bytes_read < bytes_to_read
      BY <2>2 DEF RouterAt
    <3>1. CASE state = "preamble" /\ bytes_to_read = 4 /\ header = InitHeader
      BY <2>4, <2>6, <3>0, <3>1
    <3>2. CASE /\ state = "header" /\ r < Len(sent) /\ bytes_to_read = HeadSize(sent[r + 1])
               /\ header = InitHeader
      <4>1. bytes_to_read >= 4 /\ bytes_to_read < BufSize
        <5> PICK m : m = sent[r + 1]
          OBVIOUS
        <5>1. /\ HeadSize(m) \in Nat /\ HeadSize(m) >= 28 /\ HeadSize(m) < FrameSize(m)
              /\ FrameSize(m) < BufSize /\ FrameSize(m) \in Nat
          BY <2>5, <3>0, <3>2
        <5> QED BY <2>4, <3>2, <5>1
      <4> QED BY <2>6, <3>0, <3>2, <4>1
    <3>3. CASE /\ state = "payload" /\ r < Len(sent) /\ bytes_to_read = FrameSize(sent[r + 1])
               /\ header = HeaderOf(sent[r + 1], r + 1, 0)
      <4>1. /\ sent[r + 1] \in Messages /\ r + 1 \in UInt32
            /\ bytes_to_read >= 4 /\ bytes_to_read < BufSize
        BY <2>4, <2>5, <3>0, <3>3
      <4>2. /\ HeaderOK(HeaderOf(sent[r + 1], r + 1, 0))
            /\ HeaderOf(sent[r + 1], r + 1, 0).topic[TopicMax - 1] = 0
            /\ HeaderOf(sent[r + 1], r + 1, 0).reply_topic[TopicMax - 1] = 0
        BY <2>4, <4>1, HeaderIsOK
      <4> QED BY <3>0, <3>3, <4>1, <4>2
    <3> QED BY <2>2, <3>1, <3>2, <3>3 DEF RouterAt
  <2>8. /\ HeaderOK(hdr) /\ hdr.topic[TopicMax - 1] = 0 /\ hdr.reply_topic[TopicMax - 1] = 0
        /\ PartSize <= BufSize
        /\ phase = "payload" => hdr.header_length + hdr.payload_length < BufSize
        /\ phase \in {"preamble", "header", "payload"}
    <3>1. CASE phase = "preamble" /\ hdr = InitHeader
      BY <2>4, <2>6, <3>1, PartIs
    <3>2. CASE /\ phase = "header" /\ d < r
               /\ hdr = [InitHeader EXCEPT !.header_length = HeadSize(sent[d + 1])]
      <4> PICK n : n = HeadSize(sent[d + 1])
        OBVIOUS
      <4>1. n \in UInt16 /\ n \in Nat /\ n < BufSize
        BY <2>3, <2>4, <2>5, <3>2
      <4>2. hdr = [InitHeader EXCEPT !.header_length = n] /\ hdr.header_length = n
        BY <3>2, InitHeaderIs
      <4>3. HeaderOK(hdr) /\ hdr.topic[TopicMax - 1] = 0 /\ hdr.reply_topic[TopicMax - 1] = 0
        BY <4>1, <4>2, InitHeaderIsOK
      <4>4. PartSize = n - 4
        BY <3>2, <4>2, PartIs
      <4> QED BY <2>4, <3>2, <4>1, <4>3, <4>4
    <3>3. CASE phase = "payload" /\ d < r /\ hdr = HeaderOf(sent[d + 1], d + 1, SubId)
      <4> PICK m : m = sent[d + 1]
        OBVIOUS
      <4>1. /\ m \in Messages /\ d + 1 \in UInt32 /\ FrameSize(m) = HeadSize(m) + Len(m.payload)
            /\ FrameSize(m) < BufSize /\ HeadSize(m) \in Nat /\ Len(m.payload) \in Nat
        BY <2>3, <2>5, <3>3
      <4>2. hdr.header_length = HeadSize(m) /\ hdr.payload_length = Len(m.payload)
        BY <3>3 DEF HeaderOf
      <4>3. HeaderOK(hdr) /\ hdr.topic[TopicMax - 1] = 0 /\ hdr.reply_topic[TopicMax - 1] = 0
        BY <2>4, <3>3, <4>1, HeaderIsOK
      <4>4. PartSize = Len(m.payload)
        BY <3>3, <4>2, PartIs
      <4> QED BY <2>4, <3>3, <4>1, <4>2, <4>3, <4>4
    <3> QED BY <2>2, <3>1, <3>2, <3>3 DEF ReceiverAt
  <2>9. TypeOK
    <3>1. bytes_to_read \in 4..BufSize /\ bytes_read \in 0..bytes_to_read /\ got \in 0..BufSize
      BY <2>3, <2>4, <2>7, <2>8
    <3> QED BY <2>2, <2>7, <2>8, <3>1 DEF TypeOK
  <2> QED BY <2>7, <2>8, <2>9 DEF BuffersHold
<1> QED BY <1>1, InductiveInv, PTL

\* No end waits for bytes that never come or leaves bytes that have come: with
\* nothing on its way, everything sent has been delivered.
THEOREM NoWaiting ==
  ASSUME Room PROVE Spec => []NothingWaitedFor
<1>1. Inv => NothingWaitedFor
  <2> SUFFICES ASSUME Inv PROVE NothingWaitedFor
    OBVIOUS
  <2>1. PICK r, P, at, Q, bt : UpIs(r, P, at) /\ DownIs(r, Q, bt)
    BY DEF Inv
  <2> PICK d : d = Len(delivered)
    OBVIOUS
  <2> PICK N : N = Len(sent)
    OBVIOUS
  <2>2. /\ Kept /\ RouterAt(r) /\ ReceiverAt(r) /\ r \in 0..N /\ N \in Nat
        /\ IsStream(P, at, N, sent, 0) /\ Pending(P, at[r + 1], read_buffer, bytes_read, up)
        /\ IsStream(Q, bt, r, sent, SubId)
        /\ Pending(Q, bt[d + 1], recv_buffer, PartAt + got, down)
        /\ bytes_read \in Nat /\ bytes_to_read \in Nat /\ bytes_read < bytes_to_read
    BY <2>1, SentAre DEF Inv, UpIs, DownIs, RouterAt
  <2>3. /\ d \in 0..r /\ PartAt \in Nat /\ PartSize \in Nat /\ got \in Nat /\ got < PartSize
        /\ PartAt + got \in Nat
        /\ d < r => PartAt + PartSize <= FrameSize(sent[d + 1]) /\ d + 1 \in 1..N
    <3>1. r \in 0..Len(sent)
      BY <2>2
    <3> QED BY <2>2, <3>1, PartAskedIs DEF ReceiverAt
  <2>4. /\ \A n \in 1..N : sent[n] \in Messages
        /\ \A n \in 1..r : sent[n] \in Messages
        /\ N \in UInt32 /\ r \in UInt32 /\ 0 \in UInt32 /\ SubId \in UInt32
    <3>1. 0 \in UInt32
      BY SentAssumption, HalfIs DEF UInt32
    <3>2. \A n \in 1..r : n \in 1..N
      BY <2>2
    <3> QED BY <2>2, <3>1, <3>2, SentAre, SentAssumption
  <2>5. ASSUME up = <<>> PROVE r = N
    <3>1. NextIs(P, at, N, sent, 0, r, read_buffer, bytes_read, up)
      BY <2>2, <2>4, PendingIs
    <3>2. SUFFICES ASSUME r < N PROVE FALSE
      BY <2>2
    <3> PICK z : z = FrameSize(sent[r + 1])
      OBVIOUS
    <3>3. z \in Nat /\ z <= bytes_read + Len(up)
      BY <3>1, <3>2 DEF NextIs
    <3>4. bytes_to_read <= z
      BY <2>2, <3>2, AskedIs
    <3>5. Len(up) = 0
      BY <2>5
    <3> QED BY <2>2, <3>3, <3>4, <3>5
  <2>6. ASSUME down = <<>> PROVE d = r
    <3>1. NextIs(Q, bt, r, sent, SubId, d, recv_buffer, PartAt + got, down)
      <4>1. r \in Nat
        BY <2>2
      <4> QED BY <2>2, <2>3, <2>4, <4>1, PendingIs
    <3>2. SUFFICES ASSUME d < r PROVE FALSE
      BY <2>2, <2>3
    <3> PICK z : z = FrameSize(sent[d + 1])
      OBVIOUS
    <3>3. z \in Nat /\ z <= PartAt + got + Len(down)
      BY <3>1, <3>2 DEF NextIs
    <3>4. PartAt + PartSize <= z
      BY <2>3, <3>2
    <3>5. Len(down) = 0
      BY <2>6
    <3> QED BY <2>3, <3>3, <3>4, <3>5
  <2> QED BY <2>2, <2>3, <2>5, <2>6 DEF NothingWaitedFor
<1> QED BY <1>1, InductiveInv, PTL
=============================================================================
