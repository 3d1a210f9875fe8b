--------------------------- MODULE CanonicalProofs ---------------------------
(* The preimages are unambiguous, the two implementations agree, and an     *)
(* amount survives being written and read.                                  *)
EXTENDS Canonical, SequenceTheorems, TLAPS

LEMMA Concat ==
    ASSUME NEW s \in Seq(Byte), NEW t \in Seq(Byte)
    PROVE  s \o t \in Seq(Byte) /\ Len(s \o t) = Len(s) + Len(t)
  BY ConcatProperties, Zenon

LEMMA Regroup ==
    ASSUME NEW s \in Seq(Byte), NEW t \in Seq(Byte), NEW u \in Seq(Byte)
    PROVE  (s \o t) \o u = s \o (t \o u)
  BY SMT

LEMMA First ==
    ASSUME NEW s \in Seq(Byte), NEW t \in Seq(Byte), NEW k \in 1..Len(s)
    PROVE  (s \o t)[k] = s[k]
  BY ConcatProperties

\* Two concatenations whose first parts are of one length are equal part by part.
LEMMA Split ==
    ASSUME NEW s \in Seq(Byte), NEW t \in Seq(Byte), NEW u \in Seq(Byte), NEW v \in Seq(Byte),
           s \o t = u \o v, Len(s) = Len(u)
    PROVE  s = u /\ t = v
<1>1. Len(t) = Len(v)
  BY ConcatProperties
<1>2. ASSUME NEW i \in 1..Len(s) PROVE s[i] = u[i]
  BY ConcatProperties
<1>3. ASSUME NEW i \in 1..Len(t) PROVE t[i] = v[i]
  <2>0. Len(s) \in Nat /\ Len(t) \in Nat
    BY LenProperties
  <2> DEFINE j == i + Len(s)
  <2>1. j \in 1..Len(s) + Len(t) /\ ~(j <= Len(s)) /\ j - Len(s) = i
    BY <2>0, SMT
  <2>2. \A a, b \in Seq(Byte) : \A k \in 1..Len(a) + Len(b) :
            (a \o b)[k] = IF k <= Len(a) THEN a[k] ELSE b[k - Len(a)]
    BY ConcatProperties, Zenon
  <2> HIDE DEF j
  <2>3. (s \o t)[j] = t[i]
    BY <2>1, <2>2
  <2>4. (u \o v)[j] = v[i]
    BY <1>1, <2>1, <2>2
  <2> QED  BY <2>3, <2>4
<1>4. s = u  BY <1>2, SeqEqual
<1>5. t = v  BY <1>1, <1>3, SeqEqual
<1> QED  BY <1>4, <1>5

-----------------------------------------------------------------------------
(* Integers *)

LEMMA Product ==
    ASSUME NEW a \in Nat, a > 0, NEW b \in Nat, b > 0 PROVE a * b \in Nat /\ a * b > 0
  BY SMT

LEMMA Halves ==
    ASSUME NEW b \in Nat, b > 0, NEW n \in Nat, n < b * b
    PROVE  n \div b \in Nat /\ n \div b < b /\ n % b \in Nat /\ n % b < b
  BY SMT

LEMMA SameHalves ==
    ASSUME NEW b \in Nat, b > 0, NEW m \in Nat, NEW n \in Nat, m \div b = n \div b, m % b = n % b
    PROVE  m = n
  BY SMT

LEMMA Bases ==
    /\ Two8 \in Nat /\ Two8 > 0 /\ Two16 \in Nat /\ Two16 > 0 /\ Two32 \in Nat /\ Two32 > 0
    /\ Two64 \in Nat /\ Two64 > 0 /\ Two128 \in Nat /\ Two128 > 0
<1>0. Two8 \in Nat /\ Two8 > 0
  BY SMT DEF Two8
<1>1. Two16 \in Nat /\ Two16 > 0
  BY <1>0, Product DEF Two16
<1>2. Two32 \in Nat /\ Two32 > 0
  BY <1>1, Product DEF Two32
<1>3. Two64 \in Nat /\ Two64 > 0
  BY <1>2, Product DEF Two64
<1>4. Two128 \in Nat /\ Two128 > 0
  BY <1>3, Product DEF Two128
<1> QED  BY <1>0, <1>1, <1>2, <1>3, <1>4

LEMMA U16Unique ==
    ASSUME NEW m \in Nat, m < Two16
    PROVE  /\ U16(m) \in Seq(Byte) /\ Len(U16(m)) = 2
           /\ \A n \in Nat : n < Two16 /\ U16(m) = U16(n) => m = n
<1>1. m \div Two8 \in Byte /\ m % Two8 \in Byte
  <2>1. m \div Two8 \in Nat /\ m \div Two8 < Two8 /\ m % Two8 \in Nat /\ m % Two8 < Two8
    BY Bases, Halves DEF Two16
  <2> QED  BY <2>1, SMT DEF Byte, Two8
<1>2. ASSUME NEW n \in Nat, U16(m) = U16(n) PROVE m = n
  <2>1. m \div Two8 = n \div Two8 /\ m % Two8 = n % Two8
    BY <1>2, SMT DEF U16
  <2> QED  BY <2>1, Bases, SameHalves
<1>3. U16(m) \in Seq(Byte) /\ Len(U16(m)) = 2
  BY <1>1, SMT DEF U16
<1> QED  BY <1>2, <1>3

LEMMA U32Unique ==
    ASSUME NEW m \in Nat, m < Two32
    PROVE  /\ U32(m) \in Seq(Byte) /\ Len(U32(m)) = 4
           /\ \A n \in Nat : n < Two32 /\ U32(m) = U32(n) => m = n
<1>1. ASSUME NEW n \in Nat, n < Two32
      PROVE  /\ n \div Two16 \in Nat /\ n \div Two16 < Two16
             /\ n % Two16 \in Nat /\ n % Two16 < Two16
  BY <1>1, Bases, Halves DEF Two32
<1>2. ASSUME NEW n \in Nat, n < Two32
      PROVE  /\ U16(n \div Two16) \in Seq(Byte) /\ Len(U16(n \div Two16)) = 2
             /\ U16(n % Two16) \in Seq(Byte) /\ Len(U16(n % Two16)) = 2
  BY <1>1, <1>2, U16Unique
<1>3. ASSUME NEW n \in Nat, n < Two32, U32(m) = U32(n) PROVE m = n
  <2>1. U16(m \div Two16) = U16(n \div Two16) /\ U16(m % Two16) = U16(n % Two16)
    BY <1>2, <1>3, Split DEF U32
  <2>2. m \div Two16 = n \div Two16 /\ m % Two16 = n % Two16
    BY <1>1, <1>3, <2>1, U16Unique
  <2> QED  BY <2>2, Bases, SameHalves
<1>4. U32(m) \in Seq(Byte) /\ Len(U32(m)) = 2 + 2
  BY <1>2, Concat, Zenon DEF U32
<1> QED  BY <1>3, <1>4

LEMMA U64Unique ==
    ASSUME NEW m \in Nat, m < Two64
    PROVE  /\ U64(m) \in Seq(Byte) /\ Len(U64(m)) = 8
           /\ \A n \in Nat : n < Two64 /\ U64(m) = U64(n) => m = n
<1>1. ASSUME NEW n \in Nat, n < Two64
      PROVE  /\ n \div Two32 \in Nat /\ n \div Two32 < Two32
             /\ n % Two32 \in Nat /\ n % Two32 < Two32
  BY <1>1, Bases, Halves DEF Two64
<1>2. ASSUME NEW n \in Nat, n < Two64
      PROVE  /\ U32(n \div Two32) \in Seq(Byte) /\ Len(U32(n \div Two32)) = 4
             /\ U32(n % Two32) \in Seq(Byte) /\ Len(U32(n % Two32)) = 4
  BY <1>1, <1>2, U32Unique
<1>3. ASSUME NEW n \in Nat, n < Two64, U64(m) = U64(n) PROVE m = n
  <2>1. U32(m \div Two32) = U32(n \div Two32) /\ U32(m % Two32) = U32(n % Two32)
    BY <1>2, <1>3, Split DEF U64
  <2>2. m \div Two32 = n \div Two32 /\ m % Two32 = n % Two32
    BY <1>1, <1>3, <2>1, U32Unique
  <2> QED  BY <2>2, Bases, SameHalves
<1>4. U64(m) \in Seq(Byte) /\ Len(U64(m)) = 4 + 4
  BY <1>2, Concat, Zenon DEF U64
<1> QED  BY <1>3, <1>4

LEMMA U128Unique ==
    ASSUME NEW m \in Nat, m < Two128
    PROVE  /\ U128(m) \in Seq(Byte) /\ Len(U128(m)) = 16
           /\ \A n \in Nat : n < Two128 /\ U128(m) = U128(n) => m = n
<1>1. ASSUME NEW n \in Nat, n < Two128
      PROVE  /\ n \div Two64 \in Nat /\ n \div Two64 < Two64
             /\ n % Two64 \in Nat /\ n % Two64 < Two64
  BY <1>1, Bases, Halves DEF Two128
<1>2. ASSUME NEW n \in Nat, n < Two128
      PROVE  /\ U64(n \div Two64) \in Seq(Byte) /\ Len(U64(n \div Two64)) = 8
             /\ U64(n % Two64) \in Seq(Byte) /\ Len(U64(n % Two64)) = 8
  BY <1>1, <1>2, U64Unique
<1>3. ASSUME NEW n \in Nat, n < Two128, U128(m) = U128(n) PROVE m = n
  <2>1. U64(m \div Two64) = U64(n \div Two64) /\ U64(m % Two64) = U64(n % Two64)
    BY <1>2, <1>3, Split DEF U128
  <2>2. m \div Two64 = n \div Two64 /\ m % Two64 = n % Two64
    BY <1>1, <1>3, <2>1, U64Unique
  <2> QED  BY <2>2, Bases, SameHalves
<1>4. U128(m) \in Seq(Byte) /\ Len(U128(m)) = 8 + 8
  BY <1>2, Concat, Zenon DEF U128
<1> QED  BY <1>3, <1>4

LEMMA I128Unique ==
    ASSUME NEW v \in 1..MAX_I128
    PROVE  /\ I128(v) \in Seq(Byte) /\ Len(I128(v)) = 16
           /\ \A w \in 1..MAX_I128 : I128(v) = I128(w) => v = w
<1>1. ASSUME NEW w \in 1..MAX_I128 PROVE w \in Nat /\ w < Two128 /\ ~(w < 0)
  <2> DEFINE q == Two128 \div Two8
  <2>1. Two128 \in Nat /\ q \in Nat /\ 256 * q <= Two128
    BY Bases, SMT DEF Two8
  <2>2. w \in Nat /\ w < 128 * q
    BY <2>1, SMT DEF MAX_I128
  <2> HIDE DEF q
  <2> QED  BY <2>1, <2>2, SMT
<1>2. ASSUME NEW w \in 1..MAX_I128 PROVE I128(w) = U128(w)
  BY <1>1, Zenon DEF I128
<1> QED  BY <1>1, <1>2, U128Unique

-----------------------------------------------------------------------------
(* Strings, followed by whatever follows them. *)

LEMMA Str8Bytes ==
    ASSUME NEW s \in Seq(Byte), Len(s) < Two8
    PROVE  <<Len(s)>> \in Seq(Byte) /\ Str8(s) \in Seq(Byte)
<1>1. <<Len(s)>> \in Seq(Byte)
  <2>1. Len(s) \in Nat
    BY LenProperties
  <2>2. \A k \in Nat : k < Two8 => <<k>> \in Seq(Byte)
    BY SMT DEF Byte, Two8
  <2> QED  BY <2>1, <2>2
<1> QED  BY <1>1, Concat, Zenon DEF Str8

LEMMA Str8Cancel ==
    ASSUME NEW s \in Seq(Byte), NEW t \in Seq(Byte), NEW rest \in Seq(Byte), NEW tail \in Seq(Byte),
           Len(s) < Two8, Len(t) < Two8, Str8(s) \o rest = Str8(t) \o tail
    PROVE  s = t /\ rest = tail
<1>1. <<Len(s)>> \in Seq(Byte) /\ <<Len(t)>> \in Seq(Byte)
  BY Str8Bytes
<1>2. <<Len(s)>> \o (s \o rest) = <<Len(t)>> \o (t \o tail)
  <2>1. (<<Len(s)>> \o s) \o rest = <<Len(s)>> \o (s \o rest)
    BY <1>1, Regroup, ZenonT(60)
  <2>2. (<<Len(t)>> \o t) \o tail = <<Len(t)>> \o (t \o tail)
    BY <1>1, Regroup
  <2> QED  BY <2>1, <2>2, Zenon DEF Str8
<1>3. s \o rest \in Seq(Byte) /\ t \o tail \in Seq(Byte)
  BY Concat
<1>4. Len(<<Len(s)>>) = Len(<<Len(t)>>) /\ (<<Len(s)>> = <<Len(t)>> => Len(s) = Len(t))
  BY SMT
<1>5. Len(s) = Len(t) /\ s \o rest = t \o tail
  <2> DEFINE h == <<Len(s)>>  k == <<Len(t)>>  x == s \o rest  y == t \o tail
  <2>1. /\ h \in Seq(Byte) /\ k \in Seq(Byte) /\ x \in Seq(Byte) /\ y \in Seq(Byte)
        /\ Len(h) = Len(k) /\ h \o x = k \o y
    BY <1>1, <1>4, <1>2, <1>3, Zenon
  <2> HIDE DEF h, k, x, y
  <2>2. h = k /\ x = y
    BY <2>1, Split
  <2> QED  BY <2>2, <1>1, <1>4, Zenon DEF h, k, x, y
<1> QED  BY <1>5, Split

LEMMA Str16Bytes ==
    ASSUME NEW s \in Seq(Byte), Len(s) < Two16
    PROVE  /\ U16(Len(s)) \in Seq(Byte) /\ Len(U16(Len(s))) = 2 /\ Str16(s) \in Seq(Byte)
           /\ \A t \in Seq(Byte) : Len(t) < Two16 /\ U16(Len(s)) = U16(Len(t)) => Len(s) = Len(t)
<1>1. \A t \in Seq(Byte) : Len(t) \in Nat
  BY LenProperties
<1>2. /\ U16(Len(s)) \in Seq(Byte) /\ Len(U16(Len(s))) = 2
      /\ \A t \in Seq(Byte) : Len(t) < Two16 /\ U16(Len(s)) = U16(Len(t)) => Len(s) = Len(t)
  BY <1>1, U16Unique
<1> QED  BY <1>2, Concat, Zenon DEF Str16

LEMMA Str16Cancel ==
    ASSUME NEW s \in Seq(Byte), NEW t \in Seq(Byte), NEW rest \in Seq(Byte), NEW tail \in Seq(Byte),
           Len(s) < Two16, Len(t) < Two16, Str16(s) \o rest = Str16(t) \o tail
    PROVE  s = t /\ rest = tail
<1>1. /\ U16(Len(s)) \in Seq(Byte) /\ U16(Len(t)) \in Seq(Byte) /\ Len(U16(Len(s))) = Len(U16(Len(t)))
      /\ U16(Len(s)) = U16(Len(t)) => Len(s) = Len(t)
  BY Str16Bytes
<1>2. U16(Len(s)) \o (s \o rest) = U16(Len(t)) \o (t \o tail)
  <2> DEFINE h == U16(Len(s))  k == U16(Len(t))
  <2>0. h \in Seq(Byte) /\ k \in Seq(Byte)
    BY <1>1
  <2> HIDE DEF h, k
  <2>1. (h \o s) \o rest = h \o (s \o rest)
    BY <2>0, SMTT(30)
  <2>2. (k \o t) \o tail = k \o (t \o tail)
    BY <2>0, SMTT(30)
  <2> QED  BY <2>1, <2>2, Zenon DEF Str16, h, k
<1>3. s \o rest \in Seq(Byte) /\ t \o tail \in Seq(Byte)
  BY Concat
<1>4. Len(s) = Len(t) /\ s \o rest = t \o tail
  <2> DEFINE h == U16(Len(s))  k == U16(Len(t))  x == s \o rest  y == t \o tail
  <2>1. /\ h \in Seq(Byte) /\ k \in Seq(Byte) /\ x \in Seq(Byte) /\ y \in Seq(Byte)
        /\ Len(h) = Len(k) /\ h \o x = k \o y
    BY <1>1, <1>2, <1>3
  <2> HIDE DEF h, k, x, y
  <2>2. h = k /\ x = y
    BY <2>1, Split
  <2> QED  BY <2>2, <1>1, Zenon DEF h, k, x, y
<1> QED  BY <1>4, Split

-----------------------------------------------------------------------------
(* The preimages *)

\* The intent as it is encoded: every string in its normal form.
Text(i) ==
    [agentId |-> Nfc(i.agentId), serviceId |-> Nfc(i.serviceId), asset |-> Nfc(i.asset),
     amount |-> i.amount, purpose |-> Nfc(i.purpose), clientRef |-> Nfc(i.clientRef)]

\* Whatever else normalization does, it makes bytes.
IsText(i) ==
    /\ Nfc(i.agentId) \in Seq(Byte) /\ Nfc(i.serviceId) \in Seq(Byte) /\ Nfc(i.asset) \in Seq(Byte)
    /\ Nfc(i.purpose) \in Seq(Byte) /\ Nfc(i.clientRef) \in Seq(Byte)

LEMMA Domains == INTENT_DOMAIN \in Seq(Byte) /\ DECISION_DOMAIN \in Seq(Byte)
  BY SMT DEF INTENT_DOMAIN, DECISION_DOMAIN, Byte

\* What follows each field of an intent.
LEMMA Tails ==
    ASSUME NEW i, Encodable(i), IsText(i)
    PROVE  /\ Str8(Nfc(i.clientRef)) \in Seq(Byte)
           /\ Str16(Nfc(i.purpose)) \o Str8(Nfc(i.clientRef)) \in Seq(Byte)
           /\ I128(i.amount) \in Seq(Byte) /\ Len(I128(i.amount)) = 16
           /\ I128(i.amount) \o (Str16(Nfc(i.purpose)) \o Str8(Nfc(i.clientRef))) \in Seq(Byte)
           /\ Str8(Nfc(i.asset)) \o (I128(i.amount) \o (Str16(Nfc(i.purpose)) \o Str8(Nfc(i.clientRef)))) \in Seq(Byte)
           /\ Str8(Nfc(i.serviceId)) \o (Str8(Nfc(i.asset)) \o (I128(i.amount)
                   \o (Str16(Nfc(i.purpose)) \o Str8(Nfc(i.clientRef))))) \in Seq(Byte)
           /\ Str8(Nfc(i.agentId)) \o (Str8(Nfc(i.serviceId)) \o (Str8(Nfc(i.asset)) \o (I128(i.amount)
                   \o (Str16(Nfc(i.purpose)) \o Str8(Nfc(i.clientRef)))))) \in Seq(Byte)
<1>1. /\ Str8(Nfc(i.agentId)) \in Seq(Byte) /\ Str8(Nfc(i.serviceId)) \in Seq(Byte)
      /\ Str8(Nfc(i.asset)) \in Seq(Byte) /\ Str8(Nfc(i.clientRef)) \in Seq(Byte)
  BY Str8Bytes, Zenon DEF Encodable, IsText
<1>2. Str16(Nfc(i.purpose)) \in Seq(Byte)
  BY Str16Bytes, Zenon DEF Encodable, IsText
<1>3. I128(i.amount) \in Seq(Byte) /\ Len(I128(i.amount)) = 16
  BY I128Unique, Zenon DEF Encodable
<1>4. Str16(Nfc(i.purpose)) \o Str8(Nfc(i.clientRef)) \in Seq(Byte)
  BY <1>1, <1>2, Concat
<1>5. I128(i.amount) \o (Str16(Nfc(i.purpose)) \o Str8(Nfc(i.clientRef))) \in Seq(Byte)
  BY <1>3, <1>4, Concat
<1>6. Str8(Nfc(i.asset)) \o (I128(i.amount) \o (Str16(Nfc(i.purpose)) \o Str8(Nfc(i.clientRef)))) \in Seq(Byte)
  BY <1>1, <1>5, Concat
<1>7. Str8(Nfc(i.serviceId)) \o (Str8(Nfc(i.asset)) \o (I128(i.amount)
          \o (Str16(Nfc(i.purpose)) \o Str8(Nfc(i.clientRef))))) \in Seq(Byte)
  BY <1>1, <1>6, Concat
<1>8. Str8(Nfc(i.agentId)) \o (Str8(Nfc(i.serviceId)) \o (Str8(Nfc(i.asset)) \o (I128(i.amount)
          \o (Str16(Nfc(i.purpose)) \o Str8(Nfc(i.clientRef)))))) \in Seq(Byte)
  BY <1>1, <1>7, Concat
<1> QED  BY <1>1, <1>3, <1>4, <1>5, <1>6, <1>7, <1>8

\* Two intents that are encoded to the same bytes have the same text in every field and the same
\* amount: no byte of one field can be taken for a byte of the next (canonicalIntent).
THEOREM IntentIsUnambiguous ==
    ASSUME NEW i, NEW j, Encodable(i), Encodable(j), IsText(i), IsText(j),
           CanonicalIntent(i) = CanonicalIntent(j)
    PROVE  Text(i) = Text(j)
<1> DEFINE i5 == Str8(Nfc(i.clientRef))                  j5 == Str8(Nfc(j.clientRef))
           i4 == Str16(Nfc(i.purpose)) \o i5             j4 == Str16(Nfc(j.purpose)) \o j5
           i3 == I128(i.amount) \o i4                    j3 == I128(j.amount) \o j4
           i2 == Str8(Nfc(i.asset)) \o i3                j2 == Str8(Nfc(j.asset)) \o j3
           i1 == Str8(Nfc(i.serviceId)) \o i2            j1 == Str8(Nfc(j.serviceId)) \o j2
           i0 == Str8(Nfc(i.agentId)) \o i1              j0 == Str8(Nfc(j.agentId)) \o j1
<1>1. /\ i5 \in Seq(Byte) /\ i4 \in Seq(Byte) /\ i3 \in Seq(Byte) /\ i2 \in Seq(Byte)
      /\ i1 \in Seq(Byte) /\ i0 \in Seq(Byte)
      /\ I128(i.amount) \in Seq(Byte) /\ Len(I128(i.amount)) = 16
  BY Tails
<1>2. /\ j5 \in Seq(Byte) /\ j4 \in Seq(Byte) /\ j3 \in Seq(Byte) /\ j2 \in Seq(Byte)
      /\ j1 \in Seq(Byte) /\ j0 \in Seq(Byte)
      /\ I128(j.amount) \in Seq(Byte) /\ Len(I128(j.amount)) = 16
  BY Tails
<1>3. INTENT_DOMAIN \o i0 = INTENT_DOMAIN \o j0
  BY DEF CanonicalIntent
<1>4. i0 = j0
  <2>1. i0 \in Seq(Byte) /\ j0 \in Seq(Byte)
    BY <1>1, <1>2
  <2> HIDE DEF i0, j0
  <2> QED  BY <2>1, <1>3, Domains, Split
<1>5. /\ Len(Nfc(i.agentId)) < Two8 /\ Len(Nfc(i.serviceId)) < Two8 /\ Len(Nfc(i.asset)) < Two8
      /\ Len(Nfc(i.clientRef)) < Two8 /\ Len(Nfc(i.purpose)) < Two16 /\ i.amount \in 1..MAX_I128
  BY Zenon DEF Encodable
<1>6. /\ Len(Nfc(j.agentId)) < Two8 /\ Len(Nfc(j.serviceId)) < Two8 /\ Len(Nfc(j.asset)) < Two8
      /\ Len(Nfc(j.clientRef)) < Two8 /\ Len(Nfc(j.purpose)) < Two16 /\ j.amount \in 1..MAX_I128
  BY Zenon DEF Encodable
<1>7. Nfc(i.agentId) = Nfc(j.agentId) /\ i1 = j1
  <2> DEFINE p == Nfc(i.agentId)  q == Nfc(j.agentId)
  <2>1. p \in Seq(Byte) /\ q \in Seq(Byte) /\ Len(p) < Two8 /\ Len(q) < Two8
    BY <1>5, <1>6, Zenon DEF IsText
  <2>0. i1 \in Seq(Byte) /\ j1 \in Seq(Byte)
    BY <1>1, <1>2, Zenon
  <2>2. Str8(p) \o i1 = Str8(q) \o j1
    BY <1>4, Zenon
  <2> HIDE DEF p, q, i1, j1
  <2>3. p = q /\ i1 = j1
    BY <2>0, <2>1, <2>2, Str8Cancel
  <2> QED  BY <2>3 DEF p, q
<1>8. Nfc(i.serviceId) = Nfc(j.serviceId) /\ i2 = j2
  <2> DEFINE p == Nfc(i.serviceId)  q == Nfc(j.serviceId)
  <2>1. p \in Seq(Byte) /\ q \in Seq(Byte) /\ Len(p) < Two8 /\ Len(q) < Two8
    BY <1>5, <1>6, Zenon DEF IsText
  <2>0. i2 \in Seq(Byte) /\ j2 \in Seq(Byte)
    BY <1>1, <1>2, Zenon
  <2>2. Str8(p) \o i2 = Str8(q) \o j2
    BY <1>7, Zenon
  <2> HIDE DEF p, q, i2, j2
  <2>3. p = q /\ i2 = j2
    BY <2>0, <2>1, <2>2, Str8Cancel
  <2> QED  BY <2>3 DEF p, q
<1>9. Nfc(i.asset) = Nfc(j.asset) /\ i3 = j3
  <2> DEFINE p == Nfc(i.asset)  q == Nfc(j.asset)
  <2>1. p \in Seq(Byte) /\ q \in Seq(Byte) /\ Len(p) < Two8 /\ Len(q) < Two8
    BY <1>5, <1>6, Zenon DEF IsText
  <2>0. i3 \in Seq(Byte) /\ j3 \in Seq(Byte)
    BY <1>1, <1>2, Zenon
  <2>2. Str8(p) \o i3 = Str8(q) \o j3
    BY <1>8, Zenon
  <2> HIDE DEF p, q, i3, j3
  <2>3. p = q /\ i3 = j3
    BY <2>0, <2>1, <2>2, Str8Cancel
  <2> QED  BY <2>3 DEF p, q
<1>10. i.amount = j.amount /\ i4 = j4
  <2> HIDE DEF i4, j4
  <2>1. I128(i.amount) = I128(j.amount) /\ i4 = j4
    BY <1>1, <1>2, <1>9, Split, Zenon
  <2> QED  BY <2>1, <1>5, <1>6, I128Unique, Zenon
<1>11. Nfc(i.purpose) = Nfc(j.purpose) /\ i5 = j5
  <2> DEFINE p == Nfc(i.purpose)  q == Nfc(j.purpose)
  <2>1. p \in Seq(Byte) /\ q \in Seq(Byte) /\ Len(p) < Two16 /\ Len(q) < Two16
    BY <1>5, <1>6, Zenon DEF IsText
  <2>0. i5 \in Seq(Byte) /\ j5 \in Seq(Byte)
    BY <1>1, <1>2, Zenon
  <2>2. Str16(p) \o i5 = Str16(q) \o j5
    BY <1>10, Zenon
  <2> HIDE DEF p, q, i5, j5
  <2>3. p = q /\ i5 = j5
    BY <2>0, <2>1, <2>2, Str16Cancel
  <2> QED  BY <2>3 DEF p, q
<1>12. Nfc(i.clientRef) = Nfc(j.clientRef)
  <2> DEFINE p == Nfc(i.clientRef)  q == Nfc(j.clientRef)
  <2>1. p \in Seq(Byte) /\ q \in Seq(Byte) /\ Len(p) < Two8 /\ Len(q) < Two8
    BY <1>5, <1>6, Zenon DEF IsText
  <2>2. Str8(p) \o <<>> = Str8(q) \o <<>> /\ <<>> \in Seq(Byte)
    BY <1>11
  <2> HIDE DEF p, q
  <2>3. p = q
    BY <2>1, <2>2, Str8Cancel
  <2> QED  BY <2>3 DEF p, q
<1> QED  BY <1>7, <1>8, <1>9, <1>10, <1>11, <1>12 DEF Text

\* Two memo preimages with the same bytes are of the same intent, version and decision, without a
\* domain or lengths between the fields (memoHash).
THEOREM MemoIsUnambiguous ==
    ASSUME NEW h \in Bytes32, NEW v \in Nat, v < Two32, NEW d \in Bytes32,
           NEW g \in Bytes32, NEW w \in Nat, w < Two32, NEW e \in Bytes32,
           MemoPreimage(h, v, d) = MemoPreimage(g, w, e)
    PROVE  h = g /\ v = w /\ d = e
<1> DEFINE a == U32(v)  b == U32(w)
<1>1. /\ h \in Seq(Byte) /\ g \in Seq(Byte) /\ d \in Seq(Byte) /\ e \in Seq(Byte) /\ Len(h) = Len(g)
  BY Zenon DEF Bytes32
<1>2. a \in Seq(Byte) /\ b \in Seq(Byte) /\ Len(a) = Len(b) /\ (a = b => v = w)
  BY U32Unique
<1>3. h \o (a \o d) = g \o (b \o e)
  BY Zenon DEF MemoPreimage
<1> HIDE DEF a, b
<1>4. a \o d \in Seq(Byte) /\ b \o e \in Seq(Byte)
  BY <1>1, <1>2, Concat
<1>5. h = g /\ a \o d = b \o e
  BY <1>1, <1>3, <1>4, Split, Zenon
<1>6. a = b /\ d = e
  BY <1>1, <1>2, <1>5, Split, Zenon
<1> QED  BY <1>2, <1>5, <1>6

\* Two decisions are filed under the same preimage only if they are of the same intent under the
\* same policy version (decisionId).
THEOREM DecisionIsUnambiguous ==
    ASSUME NEW h \in Bytes32, NEW v \in Nat, v < Two32, NEW g \in Bytes32, NEW w \in Nat, w < Two32,
           DecisionPreimage(h, v) = DecisionPreimage(g, w)
    PROVE  h = g /\ v = w
<1> DEFINE a == U32(v)  b == U32(w)
<1>1. h \in Seq(Byte) /\ g \in Seq(Byte) /\ Len(h) = Len(g)
  BY Zenon DEF Bytes32
<1>2. a \in Seq(Byte) /\ b \in Seq(Byte) /\ (a = b => v = w)
  BY U32Unique
<1>3. DECISION_DOMAIN \o (h \o a) = DECISION_DOMAIN \o (g \o b)
  BY Zenon DEF DecisionPreimage
<1> HIDE DEF a, b
<1>4. h \o a \in Seq(Byte) /\ g \o b \in Seq(Byte)
  BY <1>1, <1>2, Concat
<1>5. h \o a = g \o b
  BY <1>3, <1>4, Domains, Split, Zenon
<1>6. h = g /\ a = b
  BY <1>1, <1>2, <1>5, Split, Zenon
<1> QED  BY <1>2, <1>6

\* A hash of one kind is never the hash of another kind's bytes: an intent's and a decision's
\* preimages differ in their domains, a memo's and a decision's in their length.
THEOREM PreimagesAreApart ==
    ASSUME NEW h \in Bytes32, NEW v \in Nat, v < Two32
    PROVE  /\ \A i : Encodable(i) /\ IsText(i) => CanonicalIntent(i) # DecisionPreimage(h, v)
           /\ \A g \in Bytes32, d \in Bytes32, w \in Nat :
                  w < Two32 => MemoPreimage(g, w, d) # DecisionPreimage(h, v)
<1> DEFINE a == U32(v)
<1>1. h \in Seq(Byte) /\ Len(h) = 32 /\ a \in Seq(Byte) /\ Len(a) = 4
  BY U32Unique, Zenon DEF Bytes32
<1>2. DecisionPreimage(h, v) = DECISION_DOMAIN \o (h \o a)
  BY Zenon DEF DecisionPreimage
<1>3. /\ Len(INTENT_DOMAIN) = 15 /\ INTENT_DOMAIN[7] = 73
      /\ Len(DECISION_DOMAIN) = 17 /\ DECISION_DOMAIN[7] = 68
  BY SMT DEF INTENT_DOMAIN, DECISION_DOMAIN
<1> HIDE DEF a
<1>4. h \o a \in Seq(Byte) /\ Len(h \o a) = 36
  <2>1. h \o a \in Seq(Byte) /\ Len(h \o a) = Len(h) + Len(a)
    BY <1>1, Concat, Zenon
  <2>2. 32 + 4 = 36
    BY SMT
  <2> QED  BY <2>1, <2>2, <1>1, Zenon
<1>5. 7 \in 1..Len(INTENT_DOMAIN) /\ 7 \in 1..Len(DECISION_DOMAIN)
  BY <1>3, SMT
<1>6. DecisionPreimage(h, v)[7] = 68
  <2>1. (DECISION_DOMAIN \o (h \o a))[7] = DECISION_DOMAIN[7]
    BY <1>4, <1>5, Domains, First, ZenonT(60)
  <2> QED  BY <2>1, <1>2, <1>3, Zenon
<1>7. ASSUME NEW i, Encodable(i), IsText(i) PROVE CanonicalIntent(i) # DecisionPreimage(h, v)
  <2>1. PICK tail \in Seq(Byte) : CanonicalIntent(i) = INTENT_DOMAIN \o tail
    BY <1>7, Tails, Zenon DEF CanonicalIntent
  <2>2. (INTENT_DOMAIN \o tail)[7] = INTENT_DOMAIN[7]
    BY <1>5, Domains, First, Zenon
  <2>3. CanonicalIntent(i)[7] = 73
    BY <2>1, <2>2, <1>3, Zenon
  <2> QED  BY <2>3, <1>6, SMT
<1>8. ASSUME NEW g \in Bytes32, NEW d \in Bytes32, NEW w \in Nat, w < Two32
      PROVE  MemoPreimage(g, w, d) # DecisionPreimage(h, v)
  <2> DEFINE b == U32(w)
  <2>1. /\ g \in Seq(Byte) /\ Len(g) = 32 /\ d \in Seq(Byte) /\ Len(d) = 32
        /\ b \in Seq(Byte) /\ Len(b) = 4
    BY <1>8, U32Unique, Zenon DEF Bytes32
  <2>2. MemoPreimage(g, w, d) = g \o (b \o d)
    BY Zenon DEF MemoPreimage
  <2> HIDE DEF b
  <2>3. b \o d \in Seq(Byte) /\ Len(b \o d) = Len(b) + Len(d)
    BY <2>1, Concat, Zenon
  <2>4. Len(g \o (b \o d)) = Len(g) + Len(b \o d)
    BY <2>1, <2>3, Concat, Zenon
  <2>5. Len(DECISION_DOMAIN \o (h \o a)) = Len(DECISION_DOMAIN) + Len(h \o a)
    BY <1>4, Domains, Concat, Zenon
  <2>6. 32 + (4 + 32) # 17 + 36
    BY SMT
  <2>7. Len(MemoPreimage(g, w, d)) = 32 + (4 + 32)
    BY <2>1, <2>2, <2>3, <2>4, Zenon
  <2>8. Len(DecisionPreimage(h, v)) = 17 + 36
    BY <1>2, <1>3, <1>4, <2>5, Zenon
  <2> QED  BY <2>6, <2>7, <2>8, Zenon
<1> QED  BY <1>7, <1>8

-----------------------------------------------------------------------------
(* The two implementations *)

\* Of an intent whose strings are normalized already, TypeScript (canonicalIntent) and Rust
\* (canonical_intent) accept the same and make the same bytes; and they and the contract (its
\* memo_hash view, derive_decision_id) make the same memo and decision preimages.
THEOREM ImplementationsAgree ==
    ASSUME NEW i, i.amount \in Int, i.amount <= MAX_I128, IsText(i), Text(i) = i
    PROVE  /\ RustAccepts(i) <=> Encodable(i)
           /\ Encodable(i) => RustCanonicalIntent(i) = CanonicalIntent(i)
           /\ \A h \in Bytes32, v \in Nat, d \in Bytes32 : v < Two32 =>
                  /\ RustMemoPreimage(h, v, d) = MemoPreimage(h, v, d)
                  /\ RustDecisionPreimage(h, v) = DecisionPreimage(h, v)
                  /\ ContractMemoPreimage([intent_hash |-> h, policy_version |-> v, decision_id |-> d])
                         = MemoPreimage(h, v, d)
                  /\ ContractDecisionPreimage(h, v) = DecisionPreimage(h, v)
<1>1. /\ Nfc(i.agentId) = i.agentId /\ Nfc(i.serviceId) = i.serviceId /\ Nfc(i.asset) = i.asset
      /\ Nfc(i.purpose) = i.purpose /\ Nfc(i.clientRef) = i.clientRef
  BY DEF Text
<1>2. MAX_I128 \in Int
  <2>1. Two128 \div Two8 \in Nat
    BY Bases, SMT
  <2> QED  BY <2>1, SMT DEF MAX_I128
<1>3. RustAccepts(i) <=> Encodable(i)
  <2>1. i.amount > 0 <=> i.amount \in 1..MAX_I128
    BY <1>2, SMT
  <2> QED  BY <1>1, <2>1, Zenon DEF RustAccepts, Encodable
<1>4. ASSUME Encodable(i) PROVE RustCanonicalIntent(i) = CanonicalIntent(i)
  <2> DEFINE a == Str8(i.agentId)  s == Str8(i.serviceId)  c == Str8(i.asset)  n == I128(i.amount)
             p == Str16(i.purpose)  r == Str8(i.clientRef)
  <2>1. /\ a \in Seq(Byte) /\ s \in Seq(Byte) /\ c \in Seq(Byte) /\ r \in Seq(Byte)
    BY <1>1, <1>4, Str8Bytes, Zenon DEF Encodable, IsText
  <2>2. n \in Seq(Byte) /\ p \in Seq(Byte)
    BY <1>1, <1>4, I128Unique, Str16Bytes, Zenon DEF Encodable, IsText
  <2>3. CanonicalIntent(i) = INTENT_DOMAIN \o (a \o (s \o (c \o (n \o (p \o r)))))
    BY <1>1, Zenon DEF CanonicalIntent
  <2>4. RustCanonicalIntent(i) = INTENT_DOMAIN \o a \o s \o c \o n \o p \o r
    BY Zenon DEF RustCanonicalIntent
  <2> HIDE DEF a, s, c, n, p, r
  <2> DEFINE pr == p \o r  npr == n \o pr  cnpr == c \o npr  scnpr == s \o cnpr
             x == INTENT_DOMAIN \o a  y == x \o s  z == y \o c  u == z \o n
  <2>5. /\ pr \in Seq(Byte) /\ npr \in Seq(Byte) /\ cnpr \in Seq(Byte) /\ scnpr \in Seq(Byte)
        /\ x \in Seq(Byte) /\ y \in Seq(Byte) /\ z \in Seq(Byte) /\ u \in Seq(Byte)
    BY <2>1, <2>2, Domains, Concat, Zenon
  <2>6. (u \o p) \o r = u \o pr
    <3>1. u \in Seq(Byte) /\ p \in Seq(Byte) /\ r \in Seq(Byte)
      BY <2>1, <2>2, <2>5, Zenon
    <3> HIDE DEF u
    <3> QED  BY <3>1, Regroup, Zenon
  <2>7. u \o pr = z \o npr
    <3>1. z \in Seq(Byte) /\ n \in Seq(Byte) /\ pr \in Seq(Byte)
      BY <2>1, <2>2, <2>5, Zenon
    <3> HIDE DEF z, pr
    <3> QED  BY <3>1, Regroup, Zenon
  <2>8. z \o npr = y \o cnpr
    <3>1. y \in Seq(Byte) /\ c \in Seq(Byte) /\ npr \in Seq(Byte)
      BY <2>1, <2>2, <2>5, Zenon
    <3> HIDE DEF y, npr
    <3> QED  BY <3>1, Regroup, Zenon
  <2>9. y \o cnpr = x \o scnpr
    <3>1. x \in Seq(Byte) /\ s \in Seq(Byte) /\ cnpr \in Seq(Byte)
      BY <2>1, <2>2, <2>5, Zenon
    <3> HIDE DEF x, cnpr
    <3> QED  BY <3>1, Regroup, Zenon
  <2>10. x \o scnpr = INTENT_DOMAIN \o (a \o scnpr)
    <3>1. INTENT_DOMAIN \in Seq(Byte) /\ a \in Seq(Byte) /\ scnpr \in Seq(Byte)
      BY <2>1, <2>2, <2>5, Domains, Zenon
    <3> HIDE DEF scnpr
    <3> QED  BY <3>1, Regroup, Zenon
  <2>11. /\ CanonicalIntent(i) = INTENT_DOMAIN \o (a \o scnpr)
         /\ RustCanonicalIntent(i) = (u \o p) \o r
    BY <2>3, <2>4, Zenon
  <2> HIDE DEF pr, npr, cnpr, scnpr, x, y, z, u
  <2> QED  BY <2>6, <2>7, <2>8, <2>9, <2>10, <2>11, Zenon
<1>5. ASSUME NEW h \in Bytes32, NEW v \in Nat, NEW d \in Bytes32, v < Two32
      PROVE  /\ RustMemoPreimage(h, v, d) = MemoPreimage(h, v, d)
             /\ RustDecisionPreimage(h, v) = DecisionPreimage(h, v)
             /\ ContractMemoPreimage([intent_hash |-> h, policy_version |-> v, decision_id |-> d])
                    = MemoPreimage(h, v, d)
             /\ ContractDecisionPreimage(h, v) = DecisionPreimage(h, v)
  <2>1. h \in Seq(Byte) /\ d \in Seq(Byte) /\ U32(v) \in Seq(Byte)
    BY <1>5, U32Unique, Zenon DEF Bytes32
  <2>2. h \o U32(v) \o d = h \o (U32(v) \o d) /\ DECISION_DOMAIN \o h \o U32(v) = DECISION_DOMAIN \o (h \o U32(v))
    BY <2>1, Domains, Regroup, ZenonT(60)
  <2>3. ContractMemoPreimage([intent_hash |-> h, policy_version |-> v, decision_id |-> d]) = h \o U32(v) \o d
    BY Zenon DEF ContractMemoPreimage
  <2> QED
    BY <2>2, <2>3, Zenon
    DEF RustMemoPreimage, MemoPreimage, RustDecisionPreimage, DecisionPreimage, ContractDecisionPreimage
<1> QED  BY <1>3, <1>4, <1>5

-----------------------------------------------------------------------------
(* Amounts *)

LEMMA Digits ==
    ASSUME NEW f \in Nat
    PROVE  /\ Padded(f) \in Seq(Nat) /\ Len(Padded(f)) = 7
           /\ Number(Padded(f)) = f
<1> DEFINE f6 == f \div 10  f5 == f6 \div 10  f4 == f5 \div 10
           f3 == f4 \div 10  f2 == f3 \div 10  f1 == f2 \div 10
<1>1. ASSUME NEW n \in Nat
      PROVE  n \div 10 \in Nat /\ n % 10 \in Nat /\ 10 * (n \div 10) + (n % 10) = n
  <2>1. ASSUME NEW b \in Nat, b > 0, NEW q, q = n \div b, NEW r, r = n % b
        PROVE  q \in Nat /\ r \in Nat /\ b * q + r = n
    BY <2>1, SMT
  <2>2. 10 \in Nat /\ 10 > 0
    BY SMT
  <2> QED  BY <2>1, <2>2, Zenon
<1>2. /\ f6 \in Nat /\ f % 10 \in Nat /\ 10 * f6 + (f % 10) = f
      /\ f5 \in Nat /\ f6 % 10 \in Nat /\ 10 * f5 + (f6 % 10) = f6
      /\ f4 \in Nat /\ f5 % 10 \in Nat /\ 10 * f4 + (f5 % 10) = f5
      /\ f3 \in Nat /\ f4 % 10 \in Nat /\ 10 * f3 + (f4 % 10) = f4
      /\ f2 \in Nat /\ f3 % 10 \in Nat /\ 10 * f2 + (f3 % 10) = f3
      /\ f1 \in Nat /\ f2 % 10 \in Nat /\ 10 * f1 + (f2 % 10) = f2
  BY <1>1, Zenon
<1>3. Padded(f) = <<f1, f2 % 10, f3 % 10, f4 % 10, f5 % 10, f6 % 10, f % 10>>
  BY Zenon DEF Padded
<1> HIDE DEF f1, f2, f3, f4, f5, f6
<1>4. Padded(f) \in Seq(Nat) /\ Len(Padded(f)) = 7
  BY <1>2, <1>3, SMT
<1>5. /\ Padded(f)[1] = f1 /\ Padded(f)[2] = f2 % 10 /\ Padded(f)[3] = f3 % 10 /\ Padded(f)[4] = f4 % 10
      /\ Padded(f)[5] = f5 % 10 /\ Padded(f)[6] = f6 % 10 /\ Padded(f)[7] = f % 10
  BY <1>3, SMT
<1>6. Number(Padded(f)) = f
  <2>1. Number(Padded(f)) =
            10 * (10 * (10 * (10 * (10 * (10 * f1 + (f2 % 10)) + (f3 % 10)) + (f4 % 10)) + (f5 % 10)) + (f6 % 10)) + (f % 10)
    BY <1>5, Zenon DEF Number
  <2>2. @ = 10 * (10 * (10 * (10 * (10 * f2 + (f3 % 10)) + (f4 % 10)) + (f5 % 10)) + (f6 % 10)) + (f % 10)
    BY <1>2, Zenon
  <2>3. @ = 10 * (10 * (10 * (10 * f3 + (f4 % 10)) + (f5 % 10)) + (f6 % 10)) + (f % 10)
    BY <1>2, Zenon
  <2>4. @ = 10 * (10 * (10 * f4 + (f5 % 10)) + (f6 % 10)) + (f % 10)
    BY <1>2, Zenon
  <2>5. @ = 10 * (10 * f5 + (f6 % 10)) + (f % 10)
    BY <1>2, Zenon
  <2>6. @ = 10 * f6 + (f % 10)
    BY <1>2, Zenon
  <2>7. @ = f
    BY <1>2, Zenon
  <2> QED  BY <2>1, <2>2, <2>3, <2>4, <2>5, <2>6, <2>7, Zenon
<1> QED  BY <1>4, <1>6

\* An amount that is written and read again is the same amount, to the last stroop: no digit is lost
\* with the zeros that formatAmount cuts off, and parseAmount accepts what it wrote.
THEOREM AmountsSurviveText ==
    ASSUME NEW n \in Nat
    PROVE  ParseAccepts(FormatAmount(n)) /\ ParseAmount(FormatAmount(n)) = n
<1> DEFINE f == n % STROOPS_PER_UNIT  d == Padded(f)  last == LastNonZero(d)
<1>1. STROOPS_PER_UNIT \in Nat /\ STROOPS_PER_UNIT > 0
  <2>1. 10 \in Nat /\ 10 > 0 /\ \A k \in Nat : k > 0 => 10 * k \in Nat /\ 10 * k > 0
    BY SMT
  <2> QED  BY <2>1, Zenon DEF STROOPS_PER_UNIT
<1> HIDE DEF STROOPS_PER_UNIT
<1>2. f \in Nat /\ n \div STROOPS_PER_UNIT \in Nat /\ (n \div STROOPS_PER_UNIT) * STROOPS_PER_UNIT + f = n
  <2>1. ASSUME NEW b \in Nat, b > 0, NEW q, q = n \div b, NEW r, r = n % b
        PROVE  q * b + r = n /\ q \in Nat /\ r \in Nat
    BY <2>1, SMT
  <2> QED  BY <1>1, <2>1
<1>3. d \in Seq(Nat) /\ Len(d) = 7 /\ Number(d) = f
  BY <1>2, Digits
<1> HIDE DEF f, d
<1>4. last \in 0..7 /\ \A k \in last+1..7 : d[k] = 0
  <2> DEFINE P(k) == (k > 0 => d[k] # 0) /\ \A j \in k+1..7 : d[j] = 0
  <2>1. \E k \in 0..7 : P(k)
    <3>0. \A k \in 1..7 : d[k] \in Nat
      BY <1>3, ElementOfSeq
    <3>1. d[1] \in Nat /\ d[2] \in Nat /\ d[3] \in Nat /\ d[4] \in Nat /\ d[5] \in Nat /\ d[6] \in Nat /\ d[7] \in Nat
      BY <3>0, SMT
    <3>2. P(7) \/ d[7] = 0
      BY SMT
    <3>3. d[7] = 0 => P(6) \/ d[6] = 0
      BY SMT
    <3>4. d[7] = 0 /\ d[6] = 0 => P(5) \/ d[5] = 0
      BY SMT
    <3>5. d[7] = 0 /\ d[6] = 0 /\ d[5] = 0 => P(4) \/ d[4] = 0
      BY SMT
    <3>6. d[7] = 0 /\ d[6] = 0 /\ d[5] = 0 /\ d[4] = 0 => P(3) \/ d[3] = 0
      BY SMT
    <3>7. d[7] = 0 /\ d[6] = 0 /\ d[5] = 0 /\ d[4] = 0 /\ d[3] = 0 => P(2) \/ d[2] = 0
      BY SMT
    <3>8. d[7] = 0 /\ d[6] = 0 /\ d[5] = 0 /\ d[4] = 0 /\ d[3] = 0 /\ d[2] = 0 => P(1) \/ P(0)
      BY SMT
    <3> HIDE DEF P
    <3> QED  BY <3>2, <3>3, <3>4, <3>5, <3>6, <3>7, <3>8, SMT
  <2>2. last = CHOOSE k \in 0..7 : P(k)
    BY Zenon DEF LastNonZero
  <2> HIDE DEF last, P
  <2>3. last \in 0..7 /\ P(last)
    BY <2>1, <2>2, Zenon
  <2> QED  BY <2>3 DEF P
<1> HIDE DEF last
<1>5. FormatAmount(n) = [negative |-> n < 0, whole |-> n \div STROOPS_PER_UNIT, frac |-> SubSeq(d, 1, last)]
  <2>1. ~(n < 0)
    BY SMT
  <2>2. (n % STROOPS_PER_UNIT) = f /\ Padded(f) = d /\ LastNonZero(d) = last
    BY Zenon DEF f, d, last
  <2>3. (IF n < 0 THEN -n ELSE n) = n
    BY <2>1, Zenon
  <2> QED  BY <2>2, <2>3, Zenon DEF FormatAmount
<1>6. /\ FormatAmount(n).negative = (n < 0) /\ FormatAmount(n).whole = n \div STROOPS_PER_UNIT
      /\ FormatAmount(n).frac = SubSeq(d, 1, last)
  <2> DEFINE r == [negative |-> n < 0, whole |-> n \div STROOPS_PER_UNIT, frac |-> SubSeq(d, 1, last)]
  <2>1. r.negative = (n < 0) /\ r.whole = n \div STROOPS_PER_UNIT /\ r.frac = SubSeq(d, 1, last)
    BY Zenon
  <2>2. FormatAmount(n) = r
    BY <1>5
  <2> HIDE DEF r
  <2> QED  BY <2>1, <2>2, Zenon
<1>7. Len(SubSeq(d, 1, last)) = last /\ \A k \in 1..last : SubSeq(d, 1, last)[k] = d[k]
  BY <1>3, <1>4, SMT
<1> DEFINE e == [k \in 1..7 |-> IF k <= Len(SubSeq(d, 1, last)) THEN SubSeq(d, 1, last)[k] ELSE 0]
<1>8. \A k \in 1..7 : e[k] = d[k]
  BY <1>4, <1>7, SMT
<1>9. Number(e) = f
  <2>1. 1 \in 1..7 /\ 2 \in 1..7 /\ 3 \in 1..7 /\ 4 \in 1..7 /\ 5 \in 1..7 /\ 6 \in 1..7 /\ 7 \in 1..7
    BY SMT
  <2> HIDE DEF e
  <2> QED  BY <1>3, <1>8, <2>1, Zenon DEF Number
<1>10. ParseAmount(FormatAmount(n)) = n
  <2>1. ParseAmount(FormatAmount(n)) = (n \div STROOPS_PER_UNIT) * STROOPS_PER_UNIT + Number(e)
    BY <1>6, Zenon DEF ParseAmount
  <2> QED  BY <1>2, <1>9, <2>1, Zenon
<1>11. ParseAccepts(FormatAmount(n))
  <2>1. Len(SubSeq(d, 1, last)) <= 7
    BY <1>4, <1>7, SMT
  <2>3. ~(n < 0)
    BY SMT
  <2> QED  BY <2>1, <1>6, <2>3, Zenon DEF ParseAccepts
<1> QED  BY <1>10, <1>11
=============================================================================
