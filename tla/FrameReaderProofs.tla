-------------------------- MODULE FrameReaderProofs --------------------------
(***************************************************************************)
(* Frames are read as they were sent, for every base and number of digits  *)
(* of the remaining length, every packet and every way to cut the stream.  *)
(***************************************************************************)
EXTENDS FrameReader, WellFoundedInduction, TLAPS

-----------------------------------------------------------------------------
(* The digits of a remaining length                                         *)

\* Numbers have a least one among any of them; induction in the form that
\* needs no operator for a parameter.
LEMMA LeastNumber ==
    ASSUME NEW T \in SUBSET Nat, T # {}
    PROVE  \E x \in T : \A y \in T : x <= y
  <1>1. PICK x \in T : \A y \in T : ~(<<y, x>> \in OpToRel(<, Nat))
    BY NatLessThanWellFounded, WFMin
  <1>2. \A y \in T : y \in Nat /\ x \in Nat /\ ~(y < x)
    BY <1>1 DEF OpToRel
  <1> QED
    BY <1>2

\* What encode_remaining_length divides a length by leaves fewer to encode.
LEMMA Division ==
    ASSUME NEW n \in Nat
    PROVE  /\ n \div Base \in Nat
           /\ n % Base \in 0 .. Base - 1
           /\ n = (n % Base) + Base * (n \div Base)
           /\ n >= Base => n \div Base < n
           /\ n < Base => n % Base = n
  <1>1. Base \in Nat /\ Base >= 2
    BY ConstantsAssumption
  <1>2. n \div Base \in Nat /\ n % Base \in 0 .. Base - 1
    BY <1>1, SMT
  <1>3. n = (n % Base) + Base * (n \div Base)
    BY <1>1, SMT
  <1>4. PICK q \in Nat, r \in 0 .. Base - 1 : q = n \div Base /\ r = n % Base /\ n = r + Base * q
    BY <1>2, <1>3
  <1>5. ASSUME n >= Base PROVE q < n
    <2>1. Base * q >= 2 * q
      BY <1>1, SMT
    <2> QED
      BY <1>1, <1>4, <1>5, <2>1
  <1>6. ASSUME n < Base PROVE n % Base = n
    BY <1>1, <1>6, SMT
  <1> QED
    BY <1>2, <1>3, <1>4, <1>5, <1>6

\* A digit with the MSB set, and without it.
LEMMA DigitValue ==
    ASSUME NEW d \in 0 .. Base - 1
    PROVE  d \in Byte /\ Base + d \in Byte /\ d % Base = d /\ (Base + d) % Base = d
  <1>1. Base \in Nat /\ Base >= 2
    BY ConstantsAssumption
  <1>2. d % Base = d /\ (Base + d) % Base = d
    BY <1>1, SMT
  <1> QED
    BY <1>1, <1>2 DEF Byte

\* One digit and the encoding of what is left.
Encoded(f, n) == IF n < Base THEN <<n>> ELSE <<Base + (n % Base)>> \o f[n \div Base]

LEMMA EncodedType ==
    ASSUME NEW n \in Nat, NEW f, n >= Base => f[n \div Base] \in Seq(Byte)
    PROVE  Encoded(f, n) \in Seq(Byte)
  <1>1. CASE n < Base
    <2>1. n \in 0 .. Base - 1
      BY <1>1, ConstantsAssumption
    <2>2. n \in Byte
      BY <2>1, DigitValue
    <2> QED
      BY <1>1, <2>2 DEF Encoded
  <1>2. CASE ~(n < Base)
    <2>1. n >= Base
      BY <1>2, ConstantsAssumption
    <2>2. Base + (n % Base) \in Byte
      BY Division, DigitValue
    <2>3. f[n \div Base] \in Seq(Byte)
      BY <2>1
    <2> QED
      BY <1>2, <2>2, <2>3 DEF Encoded
  <1> QED
    BY <1>1, <1>2

\* f encodes the numbers up to N.
EncodesUpTo(N, f) ==
    /\ f \in [0 .. N -> Seq(Byte)]
    /\ \A n \in 0 .. N : f[n] = Encoded(f, n)

LEMMA SomeEncodes ==
    ASSUME NEW N \in Nat
    PROVE  \E f : EncodesUpTo(N, f)
  <1> DEFINE Undefined == {k \in Nat : ~ \E f : EncodesUpTo(k, f)}
  <1>1. ASSUME NEW k \in Nat, NEW g, k = 0 \/ EncodesUpTo(k - 1, g)
        PROVE  \E f : EncodesUpTo(k, f)
    <2> DEFINE f == [n \in 0 .. k |-> IF n < k THEN g[n] ELSE Encoded(g, k)]
    <2>1. ASSUME NEW n \in 0 .. k, n >= Base
          PROVE  /\ n \div Base \in 0 .. k - 1
                 /\ f[n \div Base] = g[n \div Base]
                 /\ g[n \div Base] \in Seq(Byte)
      <3>1. n \in Nat /\ n # 0 /\ k # 0
        BY <2>1, ConstantsAssumption
      <3>2. n \div Base \in Nat /\ n \div Base < n
        BY <2>1, <3>1, Division
      <3>3. PICK q \in Nat : q = n \div Base /\ q \in 0 .. k - 1 /\ q < k
        BY <3>2
      <3>4. f[q] = g[q]
        BY <3>3
      <3>5. g[q] \in Seq(Byte)
        BY <1>1, <3>1, <3>3 DEF EncodesUpTo
      <3> QED
        BY <3>3, <3>4, <3>5
    <2>2. Encoded(g, k) \in Seq(Byte)
      <3>0. k \in 0 .. k
        OBVIOUS
      <3>1. k >= Base => g[k \div Base] \in Seq(Byte)
        <4> HIDE DEF f
        <4> QED
          BY <2>1, <3>0
      <3> QED
        BY <3>1, EncodedType
    <2>3. \A n \in 0 .. k : n < k => n \in 0 .. k - 1 /\ k # 0
      OBVIOUS
    <2>4. \A n \in 0 .. k : f[n] \in Seq(Byte)
      <3> TAKE n \in 0 .. k
      <3>1. CASE n < k
        <4>1. g[n] \in Seq(Byte)
          BY <1>1, <2>3, <3>1 DEF EncodesUpTo
        <4>2. f[n] = g[n]
          BY <3>1
        <4> QED
          BY <4>1, <4>2
      <3>2. CASE ~(n < k)
        <4>1. f[n] = Encoded(g, k)
          BY <3>2
        <4> QED
          BY <2>2, <4>1
      <3> QED
        BY <3>1, <3>2
    <2>5. \A n \in 0 .. k : Encoded(f, n) = Encoded(g, n)
      <3> TAKE n \in 0 .. k
      <3>1. CASE n < Base
        BY <3>1 DEF Encoded
      <3>2. CASE ~(n < Base)
        <4>1. n >= Base
          BY <3>2, ConstantsAssumption
        <4>2. f[n \div Base] = g[n \div Base]
          BY <2>1, <4>1
        <4> HIDE DEF f
        <4> QED
          BY <4>2 DEF Encoded
      <3> QED
        BY <3>1, <3>2
    <2>6. \A n \in 0 .. k : f[n] = Encoded(g, n)
      BY <1>1, <2>3 DEF EncodesUpTo
    <2>7. EncodesUpTo(k, f)
      BY <2>4, <2>5, <2>6 DEF EncodesUpTo
    <2> QED
      BY <2>7
  <1>2. ASSUME NEW k \in Undefined, \A j \in Undefined : k <= j
        PROVE  FALSE
    <2>1. CASE k = 0
      BY <1>1, <2>1
    <2>2. CASE k # 0
      <3>1. k - 1 \in Nat /\ k - 1 \notin Undefined
        BY <1>2, <2>2
      <3>2. PICK g : EncodesUpTo(k - 1, g)
        BY <3>1
      <3> QED
        BY <1>1, <3>2
    <2> QED
      BY <2>1, <2>2
  <1>3. Undefined = {}
    <2>1. Undefined \in SUBSET Nat
      OBVIOUS
    <2> HIDE DEF Undefined
    <2> QED
      BY <1>2, <2>1, LeastNumber
  <1> QED
    BY <1>3

\* There is but one way to encode a number.
LEMMA OneEncoding ==
    ASSUME NEW M \in Nat, NEW N \in Nat, NEW f, NEW g, EncodesUpTo(M, f), EncodesUpTo(N, g)
    PROVE  \A n \in (0 .. M) \cap (0 .. N) : f[n] = g[n]
  <1> DEFINE Other == {n \in (0 .. M) \cap (0 .. N) : f[n] # g[n]}
  <1>1. ASSUME NEW n \in Other, \A j \in Other : n <= j
        PROVE  FALSE
    <2>1. n \in Nat /\ n \in 0 .. M /\ n \in 0 .. N
      OBVIOUS
    <2>2. f[n] = Encoded(f, n) /\ g[n] = Encoded(g, n)
      BY <2>1 DEF EncodesUpTo
    <2>3. CASE n < Base
      BY <2>2, <2>3 DEF Encoded
    <2>4. CASE ~(n < Base)
      <3>1. n >= Base
        BY <2>4, ConstantsAssumption
      <3>2. n \div Base \in Nat /\ n \div Base < n
        BY <2>1, <3>1, Division
      <3>3. n \div Base \in (0 .. M) \cap (0 .. N)
        BY <2>1, <3>2
      <3>4. n \div Base \notin Other
        <4> HIDE DEF Other
        <4> QED
          BY <1>1, <2>1, <3>2
      <3>5. f[n \div Base] = g[n \div Base]
        BY <3>3, <3>4
      <3>6. f[n] = g[n]
        BY <2>2, <3>5 DEF Encoded
      <3> QED
        BY <3>6
    <2> QED
      BY <2>3, <2>4
  <1>2. Other = {}
    <2>1. Other \in SUBSET Nat
      OBVIOUS
    <2> HIDE DEF Other
    <2> QED
      BY <1>1, <2>1, LeastNumber
  <1> QED
    BY <1>2

\* encode_remaining_length is what its recursion says.
LEMMA EncodingDefined ==
    /\ \A n \in Nat : encode_remaining_length[n] = Encoded(encode_remaining_length, n)
    /\ \A n \in Nat : encode_remaining_length[n] \in Seq(Byte)
  <1> DEFINE upTo(n) == CHOOSE f : EncodesUpTo(n, f)
             F == [n \in Nat |-> upTo(n)[n]]
             E == encode_remaining_length
  <1>1. \A n \in Nat : EncodesUpTo(n, upTo(n))
    BY SomeEncodes
  <1>2. \A n \in Nat : F[n] = Encoded(F, n)
    <2> TAKE n \in Nat
    <2>1. F[n] = Encoded(upTo(n), n)
      <3>1. EncodesUpTo(n, upTo(n)) /\ n \in 0 .. n
        BY <1>1
      <3>2. F[n] = upTo(n)[n]
        OBVIOUS
      <3> HIDE DEF F, upTo
      <3> QED
        BY <3>1, <3>2 DEF EncodesUpTo
    <2>2. CASE n < Base
      BY <2>1, <2>2 DEF Encoded
    <2>3. CASE ~(n < Base)
      <3>1. n >= Base
        BY <2>3, ConstantsAssumption
      <3>2. PICK q \in Nat : q = n \div Base /\ q \in (0 .. n) \cap (0 .. q)
        BY <3>1, Division
      <3>3. EncodesUpTo(n, upTo(n)) /\ EncodesUpTo(q, upTo(q))
        BY <1>1
      <3>4. upTo(n)[q] = upTo(q)[q]
        <4> HIDE DEF upTo
        <4> QED
          BY <3>2, <3>3, OneEncoding
      <3>5. F[q] = upTo(n)[q]
        BY <3>4
      <3> HIDE DEF F, upTo
      <3> QED
        BY <2>1, <3>2, <3>5 DEF Encoded
    <2> QED
      BY <2>2, <2>3
  <1>3. F = [n \in Nat |-> Encoded(F, n)]
    BY <1>2
  <1>4. E = [n \in Nat |-> Encoded(E, n)]
    <2> HIDE DEF F
    <2> QED
      BY <1>3 DEF encode_remaining_length, Encoded
  <1>5. \A n \in Nat : E[n] = Encoded(E, n)
    BY <1>4
  <1> DEFINE Untyped == {n \in Nat : E[n] \notin Seq(Byte)}
  <1> HIDE DEF E
  <1>6. ASSUME NEW n \in Untyped, \A j \in Untyped : n <= j
        PROVE  FALSE
    <2>1. ASSUME n >= Base PROVE E[n \div Base] \in Seq(Byte)
      <3>1. n \div Base \in Nat /\ n \div Base < n
        BY <2>1, Division
      <3>2. n \div Base \notin Untyped
        <4>1. n \in Nat
          OBVIOUS
        <4> HIDE DEF Untyped
        <4> QED
          BY <1>6, <3>1, <4>1
      <3> QED
        BY <3>1, <3>2
    <2>2. Encoded(E, n) \in Seq(Byte)
      BY <2>1, EncodedType
    <2> QED
      BY <1>5, <2>2
  <1>7. Untyped = {}
    <2>1. Untyped \in SUBSET Nat
      OBVIOUS
    <2> HIDE DEF Untyped
    <2> QED
      BY <1>6, <2>1, LeastNumber
  <1> QED
    BY <1>5, <1>7 DEF E

\* s are the digits of n: all but the last with the MSB set, and v what the
\* digits from each one on stand for.
DigitsOf(s, n, v) ==
    /\ s \in Seq(Byte) /\ Len(s) >= 1
    /\ s[Len(s)] < Base
    /\ \A i \in 1 .. Len(s) - 1 : s[i] >= Base
    /\ v \in [1 .. Len(s) -> Nat]
    /\ v[1] = n
    /\ v[Len(s)] = s[Len(s)] % Base
    /\ \A i \in 1 .. Len(s) - 1 : v[i] = (s[i] % Base) + Base * v[i + 1]

\* encode_remaining_length returns the digits of the length it is given.
LEMMA Digits ==
    ASSUME NEW n \in Nat
    PROVE  \E v : DigitsOf(encode_remaining_length[n], n, v)
  <1> DEFINE E == encode_remaining_length
             Wrong == {k \in Nat : ~ \E v : DigitsOf(E[k], k, v)}
  <1>0. /\ \A k \in Nat : E[k] \in Seq(Byte)
        /\ \A k \in Nat : E[k] = IF k < Base THEN <<k>> ELSE <<Base + (k % Base)>> \o E[k \div Base]
    BY EncodingDefined DEF Encoded
  <1> HIDE DEF E
  <1>1. ASSUME NEW k \in Nat, k < Base
        PROVE  \E v : DigitsOf(E[k], k, v)
    <2>1. E[k] = <<k>> /\ k % Base = k /\ E[k] \in Seq(Byte)
      BY <1>0, <1>1, Division
    <2>2. DigitsOf(E[k], k, [i \in 1 .. 1 |-> k])
      BY <1>1, <2>1 DEF DigitsOf
    <2> QED
      BY <2>2
  <1>2. ASSUME NEW k \in Nat, k >= Base, NEW w, DigitsOf(E[k \div Base], k \div Base, w)
        PROVE  \E v : DigitsOf(E[k], k, v)
    <2>1. PICK d \in 0 .. Base - 1, q \in Nat : d = k % Base /\ q = k \div Base /\ k = d + Base * q
      BY Division
    <2>2. PICK t \in Seq(Byte) : t = E[q]
      BY <1>0
    <2>3. PICK c : c = Base + d /\ c \in Byte /\ c % Base = d
      BY DigitValue
    <2>4. E[k] = <<c>> \o t /\ E[k] \in Seq(Byte)
      <3>1. ~(k < Base)
        BY <1>2, ConstantsAssumption
      <3> QED
        BY <1>0, <2>1, <2>2, <2>3, <3>1
    <2>5. DigitsOf(t, q, w)
      BY <1>2, <2>1, <2>2
    <2>6. /\ Len(t) \in Nat /\ Len(t) >= 1
          /\ Len(<<c>> \o t) = Len(t) + 1
          /\ (<<c>> \o t)[1] = c
          /\ \A i \in 2 .. Len(t) + 1 : (<<c>> \o t)[i] = t[i - 1]
      BY <2>5, <2>3 DEF DigitsOf
    <2>7. PICK s \in Seq(Byte) : /\ s = <<c>> \o t /\ Len(s) = Len(t) + 1 /\ s[1] = c
                                 /\ \A i \in 2 .. Len(t) + 1 : s[i] = t[i - 1]
      BY <2>4, <2>6
    <2> DEFINE v == [i \in 1 .. Len(t) + 1 |-> IF i = 1 THEN k ELSE w[i - 1]]
    <2>8. v[1] = k /\ \A i \in 2 .. Len(t) + 1 : v[i] = w[i - 1]
      BY <2>6
    <2>9. v \in [1 .. Len(t) + 1 -> Nat]
      BY <2>5, <2>6 DEF DigitsOf
    <2> HIDE DEF v
    <2>10. s[Len(s)] < Base /\ v[Len(s)] = s[Len(s)] % Base
      <3>1. s[Len(s)] = t[Len(t)] /\ v[Len(s)] = w[Len(t)]
        BY <2>6, <2>7, <2>8
      <3> QED
        BY <2>5, <3>1 DEF DigitsOf
    <2>11. ASSUME NEW i \in 1 .. Len(s) - 1
           PROVE  s[i] >= Base /\ v[i] = (s[i] % Base) + Base * v[i + 1]
      <3>1. CASE i = 1
        <4>1. s[i] = c /\ v[i] = k /\ v[i + 1] = q
          BY <2>5, <2>6, <2>7, <2>8, <3>1 DEF DigitsOf
        <4>2. c >= Base
          BY <2>3, ConstantsAssumption
        <4> QED
          BY <2>1, <2>3, <4>1, <4>2
      <3>2. CASE i # 1
        <4>1. PICK j \in 1 .. Len(t) - 1 : j = i - 1
          BY <2>6, <2>7, <3>2
        <4>2. s[i] = t[j] /\ v[i] = w[j] /\ v[i + 1] = w[j + 1]
          <5>1. /\ i \in 2 .. Len(t) + 1 /\ i + 1 \in 2 .. Len(t) + 1
                /\ i - 1 = j /\ (i + 1) - 1 = j + 1
            BY <2>6, <2>7, <3>2, <4>1
          <5>2. s[i] = t[i - 1] /\ v[i] = w[i - 1] /\ v[i + 1] = w[(i + 1) - 1]
            BY <2>7, <2>8, <5>1
          <5> QED
            BY <5>1, <5>2
        <4>3. t[j] >= Base /\ w[j] = (t[j] % Base) + Base * w[j + 1]
          BY <2>5 DEF DigitsOf
        <4> QED
          BY <4>2, <4>3
      <3> QED
        BY <3>1, <3>2
    <2>12. DigitsOf(s, k, v)
      BY <2>6, <2>7, <2>8, <2>9, <2>10, <2>11 DEF DigitsOf
    <2> QED
      BY <2>4, <2>7, <2>12
  <1>3. ASSUME NEW k \in Wrong, \A j \in Wrong : k <= j
        PROVE  FALSE
    <2>1. k \in Nat /\ ~ \E v : DigitsOf(E[k], k, v)
      OBVIOUS
    <2>2. k >= Base
      BY <1>1, <2>1, ConstantsAssumption
    <2>3. k \div Base \in Nat /\ k \div Base < k
      BY <2>1, <2>2, Division
    <2>4. k \div Base \notin Wrong
      <3> HIDE DEF Wrong
      <3> QED
        BY <1>3, <2>1, <2>3
    <2>5. PICK w : DigitsOf(E[k \div Base], k \div Base, w)
      BY <2>3, <2>4
    <2> QED
      BY <1>2, <2>1, <2>2, <2>5
  <1>4. Wrong = {}
    <2>1. Wrong \in SUBSET Nat
      OBVIOUS
    <2> HIDE DEF Wrong
    <2> QED
      BY <1>3, <2>1, LeastNumber
  <1> QED
    BY <1>4 DEF E

-----------------------------------------------------------------------------
(* A packet and its bytes                                                   *)

\* A packet a client sends has a length that MQTT allows.
LEMMA PacketType ==
    ASSUME NEW p \in Packet
    PROVE  /\ p \in [type : Byte, body : Seq(Byte)]
           /\ Len(p.body) \in Nat
           /\ Len(encode_remaining_length[Len(p.body)]) <= MaxLengthBytes
           /\ p = [type |-> p.type, body |-> p.body]
           /\ p # NoFrame
  <1>1. PICK t \in Type, n \in BodyLength, b \in BodyByte :
            p = [type |-> t, body |-> [i \in 1 .. n |-> b]]
    BY DEF Packet
  <1>2. t \in Byte /\ n \in Nat /\ b \in Byte
    BY ConstantsAssumption
  <1>3. [i \in 1 .. n |-> b] \in Seq(Byte) /\ Len([i \in 1 .. n |-> b]) = n
    BY <1>2
  <1>4. p.type = t /\ p.body = [i \in 1 .. n |-> b]
    BY <1>1
  <1>5. p \in [type : Byte, body : Seq(Byte)]
    BY <1>1, <1>2, <1>3
  <1> QED
    BY <1>1, <1>2, <1>3, <1>4, <1>5, ConstantsAssumption

\* e is p as it is sent: its type, digits up to h, which stand for v, its body.
WholeFrame(p, e, h, v) ==
    /\ e \in Seq(Byte)
    /\ h \in 2 .. MaxLengthBytes + 1
    /\ Len(p.body) \in Nat /\ Len(e) = h + Len(p.body)
    /\ e[1] = p.type
    /\ e[h] < Base
    /\ \A i \in 2 .. h - 1 : e[i] >= Base
    /\ v \in [2 .. h -> Nat]
    /\ v[2] = Len(p.body)
    /\ \A i \in 2 .. h : v[i] = (e[i] % Base) + IF i = h THEN 0 ELSE Base * v[i + 1]
    /\ \A i \in 1 .. Len(p.body) : e[h + i] = p.body[i]

LEMMA EncodedPacket ==
    ASSUME NEW p \in Packet
    PROVE  \E h, v : WholeFrame(p, encode(p), h, v)
  <1>1. PICK t \in Byte, b \in Seq(Byte) : t = p.type /\ b = p.body
    BY PacketType
  <1>2. PICK s \in Seq(Byte) : s = encode_remaining_length[Len(b)] /\ \E w : DigitsOf(s, Len(b), w)
    BY <1>1, Digits, PacketType, EncodingDefined
  <1>2w. PICK w : DigitsOf(s, Len(b), w)
    BY <1>2
  <1>3. Len(s) \in 1 .. MaxLengthBytes
    BY <1>1, <1>2, <1>2w, PacketType, ConstantsAssumption DEF DigitsOf
  <1>4. PICK l \in Nat : l = Len(s)
    BY <1>3
  <1>5. PICK a \in Seq(Byte) : /\ a = <<t>> \o s
                               /\ Len(a) = l + 1
                               /\ a[1] = t
                               /\ \A i \in 2 .. l + 1 : a[i] = s[i - 1]
    <2>1. <<t>> \in Seq(Byte) /\ Len(<<t>>) = 1 /\ <<t>> \o s \in Seq(Byte)
      OBVIOUS
    <2>2. /\ Len(<<t>> \o s) = l + 1
          /\ (<<t>> \o s)[1] = t
          /\ \A i \in 2 .. l + 1 : (<<t>> \o s)[i] = s[i - 1]
      BY <1>4
    <2> QED
      BY <2>1, <2>2
  <1>6. encode(p) = a \o b
    BY <1>1, <1>2, <1>5 DEF encode
  <1>7. PICK e \in Seq(Byte) : /\ e = encode(p)
                               /\ Len(e) = l + 1 + Len(b)
                               /\ \A i \in 1 .. l + 1 : e[i] = a[i]
                               /\ \A i \in 1 .. Len(b) : e[l + 1 + i] = b[i]
    <2>1. a \o b \in Seq(Byte)
      OBVIOUS
    <2>2. /\ Len(a \o b) = l + 1 + Len(b)
          /\ \A i \in 1 .. l + 1 : (a \o b)[i] = a[i]
          /\ \A i \in 1 .. Len(b) : (a \o b)[l + 1 + i] = b[i]
      BY <1>4, <1>5
    <2> QED
      BY <1>6, <2>1, <2>2
  <1> DEFINE v == [i \in 2 .. l + 1 |-> w[i - 1]]
  <1>8. l >= 1 /\ l <= MaxLengthBytes /\ MaxLengthBytes \in Nat
    BY <1>3, <1>4, ConstantsAssumption
  <1>9. /\ v \in [2 .. l + 1 -> Nat]
        /\ \A i \in 2 .. l + 1 : v[i] = w[i - 1]
    BY <1>2w, <1>4, <1>8 DEF DigitsOf
  <1> HIDE DEF v
  <1>10. \A i \in 2 .. l + 1 : i \in 1 .. l + 1 /\ i - 1 \in 1 .. l /\ e[i] = s[i - 1]
    BY <1>5, <1>7
  <1>11. e[1] = t /\ v[2] = Len(b) /\ e[l + 1] = s[l] /\ v[l + 1] = w[l]
    BY <1>2w, <1>5, <1>7, <1>8, <1>9, <1>10 DEF DigitsOf
  <1>12. e[l + 1] < Base /\ v[l + 1] = (e[l + 1] % Base) + 0
    <2>1. s[l] < Base /\ w[l] = s[l] % Base /\ w[l] \in Nat
      BY <1>2w, <1>4, <1>8 DEF DigitsOf
    <2> QED
      BY <1>11, <2>1
  <1>13. ASSUME NEW i \in 2 .. (l + 1) - 1
         PROVE  e[i] >= Base /\ v[i] = (e[i] % Base) + Base * v[i + 1]
    <2>1. PICK j \in 1 .. l - 1 : j = i - 1
      BY <1>8
    <2>2. s[j] >= Base /\ w[j] = (s[j] % Base) + Base * w[j + 1]
      BY <1>2w, <1>4 DEF DigitsOf
    <2>3. i \in 2 .. l + 1 /\ i + 1 \in 2 .. l + 1 /\ (i + 1) - 1 = j + 1
      BY <1>8, <2>1
    <2>4. e[i] = s[j] /\ v[i] = w[j] /\ v[i + 1] = w[j + 1]
      BY <1>9, <1>10, <2>1, <2>3
    <2> QED
      BY <2>2, <2>4
  <1>14. \A i \in 2 .. l + 1 : v[i] = (e[i] % Base) + IF i = l + 1 THEN 0 ELSE Base * v[i + 1]
    <2> TAKE i \in 2 .. l + 1
    <2>1. CASE i = l + 1
      BY <1>12, <2>1
    <2>2. CASE i # l + 1
      <3>1. i \in 2 .. (l + 1) - 1
        BY <2>2, <1>8
      <3> QED
        BY <1>13, <2>2, <3>1
    <2> QED
      BY <2>1, <2>2
  <1>15. l + 1 \in 2 .. MaxLengthBytes + 1 /\ Len(b) \in Nat /\ Len(e) = (l + 1) + Len(b)
    BY <1>7, <1>8
  <1>16. WholeFrame(p, e, l + 1, v)
    BY <1>1, <1>7, <1>9, <1>11, <1>12, <1>13, <1>14, <1>15 DEF WholeFrame
  <1> QED
    BY <1>7, <1>16

\* bytes is what was read of e so far.
PrefixOf(bytes, e) ==
    /\ bytes \in Seq(Byte)
    /\ Len(bytes) \in 1 .. Len(e)
    /\ \A i \in 1 .. Len(bytes) : bytes[i] = e[i]

\* decode_remaining_length finds the digits' end, and the length they stand for.
LEMMA LengthDecoded ==
    ASSUME NEW p \in Packet, NEW e, NEW h, NEW v, WholeFrame(p, e, h, v),
           NEW bytes, PrefixOf(bytes, e), Len(bytes) >= h
    PROVE  /\ LastDigit(bytes) = {h}
           /\ decode_remaining_length(bytes) = [hlen |-> h, rlen |-> Len(p.body)]
  <1>1. /\ h \in Nat /\ h >= 2 /\ h \in 2 .. Len(bytes)
        /\ \A i \in 1 .. h : bytes[i] = e[i] /\ bytes[i] \in Byte /\ bytes[i] \in Nat
    <2>1. h \in Nat /\ h >= 2 /\ Len(bytes) \in Nat
      <3>1. MaxLengthBytes \in Nat
        BY ConstantsAssumption
      <3>2. h \in 2 .. MaxLengthBytes + 1
        BY DEF WholeFrame
      <3>3. bytes \in Seq(Byte)
        BY DEF PrefixOf
      <3> QED
        BY <3>1, <3>2, <3>3
    <2>2. ASSUME NEW i \in 1 .. h
          PROVE  bytes[i] = e[i] /\ bytes[i] \in Byte /\ bytes[i] \in Nat
      <3>1. i \in 1 .. Len(bytes) /\ bytes \in Seq(Byte)
        BY <2>1 DEF PrefixOf
      <3>2. bytes[i] \in Byte
        BY <3>1
      <3> QED
        BY <3>1, <3>2, ConstantsAssumption DEF PrefixOf, Byte
    <2> QED
      BY <2>1, <2>2
  <1>2. LastDigit(bytes) = {h}
    <2>1. h \in LastDigit(bytes)
      <3>1. bytes[h] < Base
        BY <1>1 DEF WholeFrame
      <3>2. \A j \in 2 .. h - 1 : j \in 1 .. h /\ e[j] >= Base
        BY <1>1 DEF WholeFrame
      <3>3. \A j \in 2 .. h - 1 : bytes[j] >= Base
        BY <1>1, <3>2
      <3> QED
        BY <1>1, <3>1, <3>3 DEF LastDigit
    <2>2. ASSUME NEW i \in LastDigit(bytes)
          PROVE  i = h
      <3>1. /\ i \in 2 .. Len(bytes) /\ bytes[i] < Base
            /\ \A j \in 2 .. i - 1 : bytes[j] >= Base
        BY DEF LastDigit
      <3>2. ~(i < h)
        <4>1. ASSUME i < h PROVE FALSE
          <5>1. i \in 2 .. h - 1 /\ i \in 1 .. h
            BY <1>1, <3>1, <4>1
          <5>2. bytes[i] >= Base /\ bytes[i] \in Nat /\ Base \in Nat
            BY <1>1, <5>1, ConstantsAssumption DEF WholeFrame
          <5> QED
            BY <3>1, <5>2
        <4> QED
          BY <4>1
      <3>3. ~(h < i)
        <4>1. ASSUME h < i PROVE FALSE
          <5>1. h \in 2 .. i - 1
            BY <1>1, <3>1, <4>1
          <5>2. bytes[h] >= Base /\ bytes[h] < Base /\ bytes[h] \in Nat /\ Base \in Nat
            BY <1>1, <3>1, <5>1, ConstantsAssumption DEF WholeFrame
          <5> QED
            BY <5>2
        <4> QED
          BY <4>1
      <3>4. i \in Nat
        BY <3>1
      <3> QED
        BY <1>1, <3>2, <3>3, <3>4
    <2> QED
      BY <2>1, <2>2
  <1>3. (CHOOSE i \in LastDigit(bytes) : TRUE) = h
    BY <1>2
  <1> DEFINE Value(f) == [i \in 2 .. h |-> (bytes[i] % Base) + IF i = h THEN 0 ELSE Base * f[i + 1]]
             value == CHOOSE f : f = Value(f)
  <1>4. decode_remaining_length(bytes) = [hlen |-> h, rlen |-> value[2]]
    BY <1>3 DEF decode_remaining_length
  <1>5. v = Value(v)
    <2>1. /\ v \in [2 .. h -> Nat]
          /\ \A i \in 2 .. h : v[i] = (e[i] % Base) + IF i = h THEN 0 ELSE Base * v[i + 1]
      BY DEF WholeFrame
    <2>2. \A i \in 2 .. h : bytes[i] = e[i]
      BY <1>1
    <2>3. \A i \in 2 .. h : v[i] = Value(v)[i]
      BY <2>1, <2>2
    <2> QED
      BY <2>1, <2>3
  <1>6. value = Value(value)
    <2> HIDE DEF Value
    <2> QED
      BY <1>5
  <1>7. value[2] = v[2]
    <2> DEFINE Other == {k \in 0 .. h - 2 : value[h - k] # v[h - k]}
    <2>1. ASSUME NEW k \in Other, \A j \in Other : k <= j
          PROVE  FALSE
      <3>1. PICK i \in 2 .. h : i = h - k
        BY <1>1
      <3>2. /\ value[i] = (bytes[i] % Base) + IF i = h THEN 0 ELSE Base * value[i + 1]
            /\ v[i] = (bytes[i] % Base) + IF i = h THEN 0 ELSE Base * v[i + 1]
        <4> HIDE DEF value
        <4>1. value[i] = Value(value)[i] /\ v[i] = Value(v)[i]
          <5> HIDE DEF Value
          <5> QED
            BY <1>5, <1>6
        <4> QED
          BY <4>1
      <3>3. value[i] # v[i]
        BY <3>1
      <3>4. i # h
        <4> HIDE DEF value
        <4> QED
          BY <3>2, <3>3
      <3>5. k - 1 \in 0 .. h - 2 /\ k - 1 \notin Other /\ h - (k - 1) = i + 1
        <4>1. k \in 0 .. h - 2 /\ k - 1 \in 0 .. h - 2 /\ h - (k - 1) = i + 1
          BY <1>1, <3>1, <3>4
        <4> HIDE DEF Other
        <4> QED
          BY <2>1, <4>1
      <3>6. value[i + 1] = v[i + 1]
        <4> HIDE DEF value
        <4> QED
          BY <3>5
      <3> HIDE DEF value
      <3> QED
        BY <3>2, <3>3, <3>4, <3>6
    <2>2. Other = {}
      <3>1. Other \in SUBSET Nat
        <4> HIDE DEF value
        <4> QED
          BY <1>1
      <3> HIDE DEF Other
      <3> QED
        BY <2>1, <3>1, LeastNumber
    <2>3. h - 2 \in 0 .. h - 2 /\ h - (h - 2) = 2
      BY <1>1
    <2> HIDE DEF value
    <2> QED
      BY <2>2, <2>3
  <1>8. v[2] = Len(p.body)
    BY DEF WholeFrame
  <1> QED
    BY <1>2, <1>4, <1>7, <1>8

\* As long as the digits' end has not been read, one byte more is asked for.
LEMMA LengthNotYetDecoded ==
    ASSUME NEW p \in Packet, NEW e, NEW h, NEW v, WholeFrame(p, e, h, v),
           NEW bytes, PrefixOf(bytes, e), Len(bytes) < h
    PROVE  LastDigit(bytes) = {}
  <1> SUFFICES ASSUME NEW i \in LastDigit(bytes)
               PROVE  FALSE
    OBVIOUS
  <1>1. i \in 2 .. Len(bytes) /\ bytes[i] < Base /\ Len(bytes) \in Nat /\ h \in Nat
    BY ConstantsAssumption DEF LastDigit, WholeFrame, PrefixOf
  <1>2. i \in 2 .. h - 1 /\ i \in 1 .. Len(bytes)
    BY <1>1
  <1>3. bytes[i] = e[i] /\ bytes[i] \in Byte /\ e[i] >= Base
    <2>1. bytes \in Seq(Byte)
      BY DEF PrefixOf
    <2>2. bytes[i] \in Byte
      BY <1>2, <2>1
    <2> QED
      BY <1>2, <2>2 DEF WholeFrame, PrefixOf
  <1>4. bytes[i] \in Nat /\ Base \in Nat
    BY <1>3, ConstantsAssumption DEF Byte
  <1> QED
    BY <1>1, <1>3, <1>4

\* frame_reader asks for no byte beyond the packet's end, takes it for no other
\* packet and for none with too many digits.
LEMMA PacketRead ==
    ASSUME NEW p \in Packet, NEW bytes, PrefixOf(bytes, encode(p))
    PROVE  /\ ~exceeds_maximum(bytes)
           /\ remaining(bytes) \in Nat
           /\ Len(bytes) + remaining(bytes) <= Len(encode(p))
           /\ remaining(bytes) = 0 => bytes = encode(p) /\ frame_of(bytes) = p
  <1>1. PICK e, h, v : e = encode(p) /\ WholeFrame(p, e, h, v)
    BY EncodedPacket
  <1>2. PrefixOf(bytes, e)
    BY <1>1
  <1>3. PICK L \in Nat, B \in Nat : L = Len(bytes) /\ B = Len(p.body)
    BY <1>1, <1>2 DEF PrefixOf, WholeFrame
  <1>4. /\ MaxLengthBytes \in Nat /\ h \in 2 .. MaxLengthBytes + 1
        /\ Len(e) = h + B /\ L \in 1 .. Len(e)
    BY <1>1, <1>2, <1>3, ConstantsAssumption DEF PrefixOf, WholeFrame
  <1>5. ~exceeds_maximum(bytes)
    <2>1. ASSUME exceeds_maximum(bytes)
          PROVE  FALSE
      <3>1. L > MaxLengthBytes + 1 /\ h \in 1 .. L
        BY <1>3, <1>4, <2>1 DEF exceeds_maximum
      <3>2. bytes[h] >= Base
        BY <1>4, <2>1 DEF exceeds_maximum
      <3>3. bytes[h] = e[h] /\ e[h] < Base /\ bytes[h] \in Byte
        BY <1>1, <1>2, <1>3, <3>1 DEF PrefixOf, WholeFrame
      <3>4. bytes[h] \in Nat /\ Base \in Nat
        BY <3>3, ConstantsAssumption DEF Byte
      <3> QED
        BY <3>2, <3>3, <3>4
    <2> QED
      BY <2>1
  <1>6. CASE L < h
    <2>1. remaining(bytes) = 1
      BY <1>1, <1>2, <1>3, <1>6, LengthNotYetDecoded DEF remaining
    <2> QED
      BY <1>1, <1>3, <1>4, <1>5, <1>6, <2>1
  <1>7. CASE ~(L < h)
    <2>1. L >= h
      BY <1>4, <1>7
    <2>2. /\ LastDigit(bytes) = {h}
          /\ decode_remaining_length(bytes) = [hlen |-> h, rlen |-> B]
      BY <1>1, <1>2, <1>3, <2>1, LengthDecoded
    <2>3. remaining(bytes) = h + B - L
      BY <1>3, <2>2 DEF remaining
    <2>4. ASSUME remaining(bytes) = 0
          PROVE  bytes = e /\ frame_of(bytes) = p
      <3>1. L = h + B
        BY <1>4, <2>3, <2>4
      <3>2. bytes = e
        <4>1. bytes \in Seq(Byte) /\ e \in Seq(Byte) /\ Len(bytes) = Len(e)
          BY <1>1, <1>2, <1>3, <1>4, <3>1 DEF PrefixOf, WholeFrame
        <4>2. \A i \in 1 .. Len(e) : bytes[i] = e[i]
          BY <1>2, <4>1 DEF PrefixOf
        <4> QED
          BY <4>1, <4>2
      <3>3. PICK b \in Seq(Byte) : b = p.body /\ Len(b) = B
        BY <1>3, PacketType
      <3>4. SubSeq(bytes, h + 1, Len(bytes)) = b
        <4>0. e \in Seq(Byte) /\ h \in Nat /\ Len(e) = h + B
          BY <1>1, <1>4 DEF WholeFrame
        <4>1. SubSeq(e, h + 1, h + B) \in Seq(Byte) /\ Len(SubSeq(e, h + 1, h + B)) = B
          BY <4>0
        <4>2. \A i \in 1 .. B : SubSeq(e, h + 1, h + B)[i] = e[h + i]
          BY <4>0
        <4>3. \A i \in 1 .. B : e[h + i] = b[i]
          BY <1>1, <1>3, <3>3 DEF WholeFrame
        <4>4. SubSeq(e, h + 1, h + B) = b
          <5>1. PICK q \in Seq(Byte) : q = SubSeq(e, h + 1, h + B)
            BY <4>1
          <5>2. Len(q) = Len(b) /\ \A i \in 1 .. Len(q) : q[i] = b[i]
            BY <3>3, <4>1, <4>2, <4>3, <5>1
          <5>3. q = b
            BY <5>2
          <5> QED
            BY <5>1, <5>3
        <4> QED
          BY <1>3, <3>1, <3>2, <4>4
      <3>5. frame_of(bytes) = [type |-> bytes[1], body |-> b]
        <4>1. decode_remaining_length(bytes).hlen = h
          BY <2>2
        <4> QED
          BY <3>4, <4>1 DEF frame_of
      <3>6. bytes[1] = p.type
        BY <1>1, <3>2 DEF WholeFrame
      <3> QED
        BY <3>2, <3>3, <3>5, <3>6, PacketType
    <2>5. remaining(bytes) \in Nat /\ L + remaining(bytes) <= Len(e)
      BY <1>4, <2>1, <2>3
    <2> QED
      BY <1>1, <1>3, <1>5, <2>4, <2>5
  <1> QED
    BY <1>6, <1>7

\* A length with one digit more than is allowed, and what comes before it.
overlong(t) == <<t>> \o [i \in 1 .. MaxLengthBytes + 1 |-> Base]

LEMMA OverlongType ==
    ASSUME NEW t \in Type
    PROVE  /\ overlong(t) \in Seq(Byte)
           /\ Len(overlong(t)) = MaxLengthBytes + 2
           /\ \A i \in 2 .. MaxLengthBytes + 2 : overlong(t)[i] = Base
  <1>1. t \in Byte /\ Base \in Byte /\ MaxLengthBytes + 1 \in Nat /\ MaxLengthBytes \in Nat
    BY ConstantsAssumption DEF Byte
  <1> DEFINE digits == [i \in 1 .. MaxLengthBytes + 1 |-> Base]
  <1>2. /\ digits \in Seq(Byte) /\ Len(digits) = MaxLengthBytes + 1
        /\ \A i \in 1 .. MaxLengthBytes + 1 : digits[i] = Base
    BY <1>1
  <1> HIDE DEF digits
  <1>3. /\ <<t>> \o digits \in Seq(Byte)
        /\ Len(<<t>> \o digits) = MaxLengthBytes + 2
        /\ \A i \in 2 .. MaxLengthBytes + 2 : (<<t>> \o digits)[i] = digits[i - 1]
    BY <1>1, <1>2
  <1>4. \A i \in 2 .. MaxLengthBytes + 2 : i - 1 \in 1 .. MaxLengthBytes + 1
    BY <1>1
  <1> QED
    BY <1>2, <1>3, <1>4 DEF overlong, digits

\* No frame is found in it.
LEMMA OverlongRead ==
    ASSUME NEW t \in Type, NEW bytes, PrefixOf(bytes, overlong(t))
    PROVE  remaining(bytes) = 1
  <1>1. ASSUME NEW i \in LastDigit(bytes)
        PROVE  FALSE
    <2>1. i \in 2 .. Len(bytes) /\ bytes[i] < Base /\ Len(bytes) \in Nat
      BY DEF LastDigit, PrefixOf
    <2>2. i \in 2 .. MaxLengthBytes + 2 /\ i \in 1 .. Len(bytes)
      BY <2>1, OverlongType, ConstantsAssumption DEF PrefixOf
    <2>3. bytes[i] = Base
      BY <2>2, OverlongType DEF PrefixOf
    <2> QED
      BY <2>1, <2>3, ConstantsAssumption
  <1>2. LastDigit(bytes) = {}
    BY <1>1
  <1> QED
    BY <1>2 DEF remaining

-----------------------------------------------------------------------------
(* The stream                                                               *)

\* w is what comes after n of the packets s, rest[i] what comes after i of
\* them; at the end, if b, the length that is too long.
Upcoming(w, n, s, b) ==
    \E rest \in [n .. Len(s) -> Seq(Byte)] :
        /\ rest[n] = w
        /\ \A i \in n .. Len(s) - 1 : rest[i] = encode(s[i + 1]) \o rest[i + 1]
        /\ b = FALSE => rest[Len(s)] = <<>>
        /\ b = TRUE => \E t \in Type : rest[Len(s)] = overlong(t)

LEMMA EncodeType ==
    ASSUME NEW p \in Packet
    PROVE  encode(p) \in Seq(Byte) /\ Len(encode(p)) \in Nat /\ Len(encode(p)) >= 2
  <1>1. PICK h, v : WholeFrame(p, encode(p), h, v)
    BY EncodedPacket
  <1>2. MaxLengthBytes \in Nat
    BY ConstantsAssumption
  <1> QED
    BY <1>1, <1>2 DEF WholeFrame

\* The client sends one more packet.
LEMMA UpcomingSends ==
    ASSUME NEW s \in Seq(Packet), NEW n \in 0 .. Len(s), NEW w, Upcoming(w, n, s, FALSE),
           NEW p \in Packet
    PROVE  Upcoming(w \o encode(p), n, Append(s, p), FALSE)
  <1>1. PICK N \in Nat, e \in Seq(Byte) : N = Len(s) /\ e = encode(p)
    BY EncodeType
  <1>2. PICK rest \in [n .. N -> Seq(Byte)] :
            /\ rest[n] = w
            /\ \A i \in n .. N - 1 : rest[i] = encode(s[i + 1]) \o rest[i + 1]
            /\ rest[N] = <<>>
    BY <1>1 DEF Upcoming
  <1>3. PICK a \in Seq(Packet) : /\ a = Append(s, p) /\ Len(a) = N + 1 /\ a[N + 1] = p
                                 /\ \A i \in 1 .. N : a[i] = s[i]
    <2>1. Append(s, p) \in Seq(Packet) /\ Len(Append(s, p)) = N + 1
      BY <1>1
    <2>2. Append(s, p)[N + 1] = p /\ \A i \in 1 .. N : Append(s, p)[i] = s[i]
      BY <1>1
    <2> QED
      BY <2>1, <2>2
  <1>4. n \in Nat /\ n <= N
    BY <1>1
  <1> DEFINE more == [i \in n .. N + 1 |-> IF i <= N THEN rest[i] \o e ELSE <<>>]
  <1>5. \A i \in n .. N : i \in n .. N + 1 /\ more[i] = rest[i] \o e /\ rest[i] \in Seq(Byte)
    BY <1>4
  <1>6. more[N + 1] = <<>>
    BY <1>4
  <1>7. more \in [n .. N + 1 -> Seq(Byte)]
    <2>1. \A i \in n .. N + 1 : more[i] \in Seq(Byte)
      <3> TAKE i \in n .. N + 1
      <3>1. CASE i \in n .. N
        <4>1. rest[i] \o e \in Seq(Byte)
          BY <3>1, <1>5
        <4> HIDE DEF more
        <4> QED
          BY <3>1, <4>1, <1>5
      <3>2. CASE i \notin n .. N
        <4>1. i = N + 1
          BY <3>2, <1>4
        <4> HIDE DEF more
        <4> QED
          BY <4>1, <1>6
      <3> QED
        BY <3>1, <3>2
    <2> QED
      BY <2>1
  <1> HIDE DEF more
  <1>8. ASSUME NEW i \in n .. N
        PROVE  more[i] = encode(a[i + 1]) \o more[i + 1]
    <2>1. CASE i = N
      <3>1. more[N] = rest[N] \o e /\ N \in n .. N
        BY <1>4, <1>5
      <3>2. <<>> \o e = e /\ e \o <<>> = e
        OBVIOUS
      <3>3. more[N] = e
        BY <1>2, <3>1, <3>2
      <3>4. encode(a[N + 1]) = e
        BY <1>1, <1>3
      <3> QED
        BY <1>6, <2>1, <3>2, <3>3, <3>4
    <2>2. CASE i # N
      <3>1. i \in n .. N - 1 /\ i + 1 \in n .. N /\ i + 1 \in 1 .. N
        BY <1>4, <2>2
      <3>2. PICK c \in Seq(Byte), r \in Seq(Byte) : c = encode(s[i + 1]) /\ r = rest[i + 1]
        <4>1. s[i + 1] \in Packet
          BY <1>1, <3>1
        <4> QED
          BY <3>1, <4>1, <1>5, EncodeType
      <3>3. more[i] = rest[i] \o e /\ more[i + 1] = r \o e /\ rest[i] = c \o r
        BY <1>2, <1>5, <3>1, <3>2
      <3>4. a[i + 1] = s[i + 1]
        BY <1>3, <3>1
      <3>5. (c \o r) \o e = c \o (r \o e)
        OBVIOUS
      <3> QED
        BY <3>2, <3>3, <3>4, <3>5
    <2> QED
      BY <2>1, <2>2
  <1>9. more[n] = w \o e
    <2>1. n \in n .. N
      BY <1>4
    <2>2. more[n] = rest[n] \o e
      BY <1>5, <2>1
    <2> QED
      BY <1>2, <2>2
  <1>10. \A i \in n .. Len(a) - 1 : more[i] = encode(a[i + 1]) \o more[i + 1]
    <2>1. Len(a) - 1 = N
      BY <1>3
    <2> QED
      BY <1>8, <2>1
  <1>11. Upcoming(w \o e, n, a, FALSE)
    BY <1>3, <1>6, <1>7, <1>9, <1>10 DEF Upcoming
  <1> QED
    BY <1>1, <1>3, <1>11

\* The client sends a length with too many digits, which is the last it sends.
LEMMA UpcomingBreaks ==
    ASSUME NEW s \in Seq(Packet), NEW n \in 0 .. Len(s), NEW w, Upcoming(w, n, s, FALSE),
           NEW t \in Type
    PROVE  Upcoming(w \o overlong(t), n, s, TRUE)
  <1>1. PICK N \in Nat, e \in Seq(Byte) : N = Len(s) /\ e = overlong(t)
    BY OverlongType
  <1>2. PICK rest \in [n .. N -> Seq(Byte)] :
            /\ rest[n] = w
            /\ \A i \in n .. N - 1 : rest[i] = encode(s[i + 1]) \o rest[i + 1]
            /\ rest[N] = <<>>
    BY <1>1 DEF Upcoming
  <1>3. n \in Nat /\ n <= N /\ n \in n .. N /\ N \in n .. N
    BY <1>1
  <1> DEFINE more == [i \in n .. N |-> rest[i] \o e]
  <1>4. \A i \in n .. N : more[i] = rest[i] \o e /\ rest[i] \in Seq(Byte)
    OBVIOUS
  <1>5. more \in [n .. N -> Seq(Byte)]
    OBVIOUS
  <1> HIDE DEF more
  <1>6. ASSUME NEW i \in n .. N - 1
        PROVE  more[i] = encode(s[i + 1]) \o more[i + 1]
    <2>1. i \in n .. N /\ i + 1 \in n .. N /\ i + 1 \in 1 .. N
      BY <1>3
    <2>2. PICK c \in Seq(Byte), r \in Seq(Byte) : c = encode(s[i + 1]) /\ r = rest[i + 1]
      <3>1. s[i + 1] \in Packet
        BY <1>1, <2>1
      <3> QED
        BY <2>1, <3>1, <1>4, EncodeType
    <2>3. more[i] = rest[i] \o e /\ more[i + 1] = r \o e /\ rest[i] = c \o r
      BY <1>2, <1>4, <2>1, <2>2
    <2>4. (c \o r) \o e = c \o (r \o e)
      OBVIOUS
    <2> QED
      BY <2>2, <2>3, <2>4
  <1>7. more[n] = w \o e /\ more[N] = e
    <2>1. more[n] = rest[n] \o e /\ more[N] = rest[N] \o e
      BY <1>3, <1>4
    <2>2. <<>> \o e = e
      OBVIOUS
    <2> QED
      BY <1>2, <2>1, <2>2
  <1>8. Upcoming(w \o e, n, s, TRUE)
    BY <1>1, <1>5, <1>6, <1>7 DEF Upcoming
  <1> QED
    BY <1>1, <1>8

\* The next packet is at the head of the stream.
LEMMA UpcomingNext ==
    ASSUME NEW s \in Seq(Packet), NEW n \in 0 .. Len(s) - 1, NEW w, NEW b, Upcoming(w, n, s, b)
    PROVE  \E r \in Seq(Byte) : w = encode(s[n + 1]) \o r /\ Upcoming(r, n + 1, s, b)
  <1>1. PICK N \in Nat : N = Len(s) /\ n \in Nat /\ n < N
    OBVIOUS
  <1>2. PICK rest \in [n .. N -> Seq(Byte)] :
            /\ rest[n] = w
            /\ \A i \in n .. N - 1 : rest[i] = encode(s[i + 1]) \o rest[i + 1]
            /\ b = FALSE => rest[N] = <<>>
            /\ b = TRUE => \E t \in Type : rest[N] = overlong(t)
    BY <1>1 DEF Upcoming
  <1> DEFINE less == [i \in n + 1 .. N |-> rest[i]]
  <1>3. less \in [n + 1 .. N -> Seq(Byte)] /\ \A i \in n + 1 .. N : less[i] = rest[i]
    BY <1>1
  <1> HIDE DEF less
  <1>4. N \in n + 1 .. N /\ n + 1 \in n + 1 .. N /\ n \in n .. N - 1
    BY <1>1
  <1>5. \A i \in n + 1 .. N - 1 : i \in n .. N - 1 /\ i \in n + 1 .. N /\ i + 1 \in n + 1 .. N
    BY <1>1
  <1>6. Upcoming(less[n + 1], n + 1, s, b)
    <2>1. \A i \in n + 1 .. N - 1 : less[i] = encode(s[i + 1]) \o less[i + 1]
      <3> TAKE i \in n + 1 .. N - 1
      <3>1. rest[i] = encode(s[i + 1]) \o rest[i + 1]
        BY <1>2, <1>5
      <3>2. less[i] = rest[i] /\ less[i + 1] = rest[i + 1]
        BY <1>3, <1>5
      <3> QED
        BY <3>1, <3>2
    <2>2. less[N] = rest[N]
      BY <1>3, <1>4
    <2>3. /\ b = FALSE => less[N] = <<>>
          /\ b = TRUE => \E t \in Type : less[N] = overlong(t)
      BY <1>2, <2>2
    <2> QED
      BY <1>1, <1>3, <2>1, <2>3 DEF Upcoming
  <1>7. w = encode(s[n + 1]) \o less[n + 1] /\ less[n + 1] \in Seq(Byte)
    BY <1>2, <1>3, <1>4
  <1> QED
    BY <1>6, <1>7

\* Behind the last packet there is nothing, or the length that is too long.
LEMMA UpcomingLast ==
    ASSUME NEW s \in Seq(Packet), NEW w, NEW b, Upcoming(w, Len(s), s, b)
    PROVE  /\ b = FALSE => w = <<>>
           /\ b = TRUE => \E t \in Type : w = overlong(t)
  BY DEF Upcoming

\* Sequences of bytes one after the other, and when two are the same.
LEMMA Concatenation ==
    ASSUME NEW s \in Seq(Byte), NEW u \in Seq(Byte)
    PROVE  /\ s \o u \in Seq(Byte)
           /\ Len(s) \in Nat /\ Len(u) \in Nat /\ Len(s \o u) = Len(s) + Len(u)
           /\ \A i \in 1 .. Len(s) : (s \o u)[i] = s[i]
           /\ \A i \in 1 .. Len(u) : (s \o u)[Len(s) + i] = u[i]
  OBVIOUS

LEMMA SameBytes ==
    ASSUME NEW s \in Seq(Byte), NEW u \in Seq(Byte), Len(s) = Len(u),
           \A i \in 1 .. Len(s) : s[i] = u[i]
    PROVE  s = u
  OBVIOUS

\* What was read and what is still under way, when n more bytes are transferred.
ReadWith(s, u, n) == s \o SubSeq(u, 1, n)

LeftOf(u, n) == SubSeq(u, n + 1, Len(u))

LEMMA Portion ==
    ASSUME NEW s \in Seq(Byte), NEW u \in Seq(Byte), NEW n \in 1 .. Len(u)
    PROVE  /\ ReadWith(s, u, n) \in Seq(Byte) /\ LeftOf(u, n) \in Seq(Byte)
           /\ Len(ReadWith(s, u, n)) = Len(s) + n
           /\ ReadWith(s, u, n) \o LeftOf(u, n) = s \o u
           /\ \A i \in 1 .. Len(ReadWith(s, u, n)) : ReadWith(s, u, n)[i] = (s \o u)[i]
  <1>1. PICK S \in Nat, U \in Nat : S = Len(s) /\ U = Len(u) /\ n \in 1 .. U
    OBVIOUS
  <1>2. PICK a \in Seq(Byte) : a = SubSeq(u, 1, n) /\ Len(a) = n /\ \A i \in 1 .. n : a[i] = u[i]
    <2>1. SubSeq(u, 1, n) \in Seq(Byte) /\ Len(SubSeq(u, 1, n)) = n
      BY <1>1
    <2>2. \A i \in 1 .. n : SubSeq(u, 1, n)[i] = u[i]
      BY <1>1
    <2> QED
      BY <2>1, <2>2
  <1>3. PICK r \in Seq(Byte) : /\ r = LeftOf(u, n)
                               /\ Len(r) = U - n
                               /\ \A i \in 1 .. U - n : r[i] = u[n + i]
    <2>1. /\ SubSeq(u, n + 1, Len(u)) \in Seq(Byte)
          /\ Len(SubSeq(u, n + 1, Len(u))) = U - n
      BY <1>1
    <2>2. \A i \in 1 .. U - n : SubSeq(u, n + 1, Len(u))[i] = u[n + i]
      BY <1>1
    <2> QED
      BY <2>1, <2>2 DEF LeftOf
  <1>4. PICK b \in Seq(Byte) : /\ b = ReadWith(s, u, n)
                               /\ Len(b) = S + n
                               /\ \A i \in 1 .. S : b[i] = s[i]
                               /\ \A i \in 1 .. n : b[S + i] = a[i]
    <2>1. ReadWith(s, u, n) = s \o a
      BY <1>2 DEF ReadWith
    <2>2. /\ s \o a \in Seq(Byte) /\ Len(s \o a) = S + n
          /\ \A i \in 1 .. S : (s \o a)[i] = s[i]
          /\ \A i \in 1 .. n : (s \o a)[S + i] = a[i]
      BY <1>1, <1>2, Concatenation
    <2> QED
      BY <2>1, <2>2
  <1>5. PICK w \in Seq(Byte) : /\ w = s \o u /\ Len(w) = S + U
                               /\ \A i \in 1 .. S : w[i] = s[i]
                               /\ \A i \in 1 .. U : w[S + i] = u[i]
    <2>1. s \o u \in Seq(Byte) /\ Len(s \o u) = S + U
      BY <1>1
    <2>2. (\A i \in 1 .. S : (s \o u)[i] = s[i]) /\ (\A i \in 1 .. U : (s \o u)[S + i] = u[i])
      BY <1>1
    <2> QED
      BY <2>1, <2>2
  <1>6. ASSUME NEW i \in 1 .. S + n
        PROVE  b[i] = w[i]
    <2>1. CASE i \in 1 .. S
      BY <1>4, <1>5, <2>1
    <2>2. CASE i \notin 1 .. S
      <3>1. PICK j \in 1 .. n : i = S + j
        <4>1. i - S \in 1 .. n /\ i = S + (i - S)
          BY <1>1, <2>2
        <4> QED
          BY <4>1
      <3>2. j \in 1 .. U
        BY <1>1
      <3> QED
        BY <1>2, <1>4, <1>5, <3>1, <3>2
    <2> QED
      BY <2>1, <2>2
  <1>7. b \o r = w
    <2>1. /\ b \o r \in Seq(Byte) /\ Len(b \o r) = S + U
          /\ \A i \in 1 .. S + n : (b \o r)[i] = b[i]
          /\ \A i \in 1 .. U - n : (b \o r)[S + n + i] = r[i]
      <3>1. Len(b) = S + n /\ Len(r) = U - n /\ S + n + (U - n) = S + U
        BY <1>1, <1>3, <1>4
      <3>2. /\ b \o r \in Seq(Byte) /\ Len(b \o r) = Len(b) + Len(r)
            /\ \A i \in 1 .. Len(b) : (b \o r)[i] = b[i]
            /\ \A i \in 1 .. Len(r) : (b \o r)[Len(b) + i] = r[i]
        BY <1>3, <1>4, Concatenation
      <3> QED
        BY <3>1, <3>2
    <2>2. ASSUME NEW i \in 1 .. S + U
          PROVE  (b \o r)[i] = w[i]
      <3>1. CASE i \in 1 .. S + n
        BY <1>6, <2>1, <3>1
      <3>2. CASE i \notin 1 .. S + n
        <4>1. PICK j \in 1 .. U - n : i = S + n + j
          <5>1. i - (S + n) \in 1 .. U - n /\ i = S + n + (i - (S + n))
            BY <1>1, <3>2
          <5> QED
            BY <5>1
        <4>2. n + j \in 1 .. U /\ S + n + j = S + (n + j)
          BY <1>1
        <4>3. (b \o r)[i] = u[n + j]
          BY <1>3, <2>1, <4>1
        <4> QED
          BY <1>5, <4>1, <4>2, <4>3
      <3> QED
        BY <3>1, <3>2
    <2>3. Len(b \o r) = Len(w) /\ Len(w) = S + U /\ b \o r \in Seq(Byte)
      BY <1>5, <2>1
    <2> QED
      BY <2>2, <2>3, SameBytes
  <1> QED
    BY <1>1, <1>3, <1>4, <1>5, <1>6, <1>7

\* Nothing is read beyond the first part of the stream, if no more than it is asked for.
LEMMA ReadOfFirst ==
    ASSUME NEW c \in Seq(Byte), NEW r \in Seq(Byte), NEW b \in Seq(Byte),
           Len(b) >= 1, Len(b) <= Len(c), \A i \in 1 .. Len(b) : b[i] = (c \o r)[i]
    PROVE  PrefixOf(b, c)
  <1>1. \A i \in 1 .. Len(c) : (c \o r)[i] = c[i]
    OBVIOUS
  <1>2. Len(b) \in 1 .. Len(c) /\ \A i \in 1 .. Len(b) : i \in 1 .. Len(c)
    OBVIOUS
  <1>3. \A i \in 1 .. Len(b) : b[i] = c[i]
    BY <1>1, <1>2
  <1> QED
    BY <1>2, <1>3 DEF PrefixOf

\* What is behind the same beginning is the same.
LEMMA SameRest ==
    ASSUME NEW c \in Seq(Byte), NEW u \in Seq(Byte), NEW r \in Seq(Byte), c \o u = c \o r
    PROVE  u = r
  <1>1. Len(u) \in Nat /\ Len(u) = Len(r)
    <2>1. Len(c) + Len(u) = Len(c) + Len(r)
      BY Concatenation
    <2>2. Len(c) \in Nat /\ Len(u) \in Nat /\ Len(r) \in Nat
      OBVIOUS
    <2> QED
      BY <2>1, <2>2
  <1>2. ASSUME NEW i \in 1 .. Len(u)
        PROVE  u[i] = r[i]
    <2>1. (c \o u)[Len(c) + i] = u[i] /\ (c \o r)[Len(c) + i] = r[i]
      BY <1>1, Concatenation
    <2> QED
      BY <2>1
  <1> QED
    BY <1>1, <1>2, SameBytes

-----------------------------------------------------------------------------
(* The invariant                                                            *)

\* A packet was sent and not handed over yet, and which one is next.
Behind == Len(delivered) < Len(sent)

NextPacket == sent[Len(delivered) + 1]

\* What was handed over is the beginning of what was sent, and what was read and
\* what is under way is all the rest.
StreamInv ==
    /\ Len(delivered) <= Len(sent)
    /\ \A i \in 1 .. Len(delivered) : delivered[i] = sent[i]
    /\ Upcoming(read_buffer \o unread, Len(delivered), sent, broken)

\* frame_reader never asks for a byte of the packet after next, a frame it has found
\* is the next packet, and it refuses only a length that is too long.
ReaderInv ==
    /\ phase = "reading" =>
           /\ frame = NoFrame
           /\ read_buffer = <<>> => requested = 1
           /\ Behind => Len(read_buffer) + requested <= Len(encode(NextPacket))
    /\ frame # NoFrame =>
           phase = "completed" /\ Behind /\ frame = NextPacket /\ read_buffer = encode(NextPacket)
    /\ phase = "malformed_mqtt_packet" => broken /\ ~Behind

FrameInv == TypeOK /\ StreamInv /\ ReaderInv

LEMMA InitFrameInv == Init => FrameInv
  <1> SUFFICES ASSUME Init
               PROVE  FrameInv
    OBVIOUS
  <1>1. /\ unread = <<>> /\ read_buffer = <<>> /\ requested = 1 /\ phase = "reading"
        /\ frame = NoFrame /\ sent = <<>> /\ broken = FALSE /\ delivered = <<>>
    BY DEF Init
  <1>2. TypeOK
    <2>1. <<>> \in Seq(Byte) /\ <<>> \in Seq(Packet) /\ Len(<<>>) = 0
      OBVIOUS
    <2>2. <<>> \in Seq([type : Byte, body : Seq(Byte)])
      OBVIOUS
    <2>3. Len(<<>>) <= ReadBufferSize
      BY <2>1, ConstantsAssumption
    <2>4. requested \in Nat \ {0} /\ phase \in {"reading"} /\ frame \in {NoFrame}
      BY <1>1
    <2>5. unread \in Seq(Byte) /\ read_buffer \in Seq(Byte) /\ Len(read_buffer) <= ReadBufferSize
      BY <1>1, <2>1, <2>3
    <2>6. sent \in Seq(Packet) /\ broken \in BOOLEAN
      BY <1>1, <2>1
    <2>7. delivered \in Seq([type : Byte, body : Seq(Byte)])
      BY <1>1, <2>2
    <2> QED
      BY <2>4, <2>5, <2>6, <2>7 DEF TypeOK
  <1>3. Upcoming(<<>>, 0, <<>>, FALSE)
    <2> DEFINE rest == [i \in 0 .. 0 |-> <<>>]
    <2>1. rest \in [0 .. 0 -> Seq(Byte)] /\ rest[0] = <<>>
      OBVIOUS
    <2> HIDE DEF rest
    <2>2. Len(<<>>) = 0
      OBVIOUS
    <2>3. \A i \in 0 .. 0 - 1 : FALSE
      OBVIOUS
    <2> QED
      BY <2>1, <2>2, <2>3 DEF Upcoming
  <1>4. <<>> \o <<>> = <<>> /\ Len(<<>>) = 0
    OBVIOUS
  <1>5. StreamInv
    <2>1. Upcoming(read_buffer \o unread, Len(delivered), sent, broken)
      BY <1>1, <1>3, <1>4
    <2>2. Len(delivered) = 0 /\ Len(sent) = 0
      BY <1>1, <1>4
    <2> QED
      BY <2>1, <2>2 DEF StreamInv
  <1>6. ReaderInv
    BY <1>1, <1>4 DEF ReaderInv, Behind
  <1> QED
    BY <1>2, <1>5, <1>6 DEF FrameInv

\* The lengths of the histories, and the packet that is next.
LEMMA Lengths ==
    ASSUME FrameInv
    PROVE  /\ Len(delivered) \in Nat /\ Len(sent) \in Nat /\ Len(delivered) \in 0 .. Len(sent)
           /\ Behind => /\ Len(delivered) \in 0 .. Len(sent) - 1
                        /\ NextPacket \in Packet
                        /\ encode(NextPacket) \in Seq(Byte)
                        /\ Len(encode(NextPacket)) \in Nat /\ Len(encode(NextPacket)) >= 2
           /\ ~Behind => Len(delivered) = Len(sent)
  <1>1. Len(delivered) \in Nat /\ Len(sent) \in Nat /\ Len(delivered) \in 0 .. Len(sent)
    BY DEF FrameInv, TypeOK, StreamInv
  <1>2. ASSUME Behind
        PROVE  Len(delivered) \in 0 .. Len(sent) - 1 /\ NextPacket \in Packet
    <2>1. Len(delivered) \in 0 .. Len(sent) - 1 /\ Len(delivered) + 1 \in 1 .. Len(sent)
      BY <1>1, <1>2 DEF Behind
    <2> QED
      BY <2>1 DEF FrameInv, TypeOK, NextPacket
  <1>3. ~Behind => Len(delivered) = Len(sent)
    BY <1>1 DEF Behind
  <1> QED
    BY <1>1, <1>2, <1>3, EncodeType

LEMMA SendsInv ==
    ASSUME FrameInv, client_sends
    PROVE  FrameInv' /\ Stream!Next
  <1>1. PICK p \in Packet : sent' = Append(sent, p) /\ unread' = unread \o encode(p)
    BY DEF client_sends
  <1>2. /\ broken = FALSE /\ broken' = FALSE
        /\ UNCHANGED <<read_buffer, requested, phase, frame, delivered>>
    BY DEF client_sends, FrameInv, TypeOK
  <1>3. PICK e \in Seq(Byte) : e = encode(p)
    BY EncodeType
  <1>4. TypeOK'
    <2>1. unread' \in Seq(Byte)
      BY <1>1, <1>3 DEF FrameInv, TypeOK
    <2>2. sent' \in Seq(Packet)
      BY <1>1 DEF FrameInv, TypeOK
    <2> QED
      BY <1>2, <2>1, <2>2 DEF FrameInv, TypeOK
  <1>5. /\ Len(sent') = Len(sent) + 1 /\ sent'[Len(sent) + 1] = p
        /\ \A i \in 1 .. Len(sent) : sent'[i] = sent[i]
    BY <1>1 DEF FrameInv, TypeOK
  <1>6. Upcoming((read_buffer \o unread)', Len(delivered)', sent', broken')
    <2>1. Upcoming(read_buffer \o unread, Len(delivered), sent, FALSE)
      BY <1>2 DEF FrameInv, StreamInv
    <2>2. Upcoming((read_buffer \o unread) \o e, Len(delivered), Append(sent, p), FALSE)
      BY <1>3, <2>1, UpcomingSends, Lengths DEF FrameInv, TypeOK
    <2>3. (read_buffer \o unread) \o e = read_buffer \o (unread \o e)
      BY DEF FrameInv, TypeOK
    <2> QED
      BY <1>1, <1>2, <1>3, <2>2, <2>3
  <1>7. StreamInv'
    <2>1. \A i \in 1 .. Len(delivered) : i \in 1 .. Len(sent) /\ delivered[i] = sent[i]
      BY Lengths DEF FrameInv, StreamInv
    <2> QED
      BY <1>2, <1>5, <1>6, <2>1, Lengths DEF StreamInv
  <1>8. Behind => Behind' /\ NextPacket' = NextPacket
    <2> SUFFICES ASSUME Behind
                 PROVE  Behind' /\ NextPacket' = NextPacket
      OBVIOUS
    <2>1. Len(delivered) + 1 \in 1 .. Len(sent)
      BY Lengths
    <2> QED
      BY <1>2, <1>5, <2>1, Lengths DEF Behind, NextPacket
  <1>9. ASSUME ~Behind, phase = "reading"
        PROVE  Len(read_buffer) + requested <= Len(encode(NextPacket)')
    <2>1. read_buffer \o unread = <<>>
      <3>1. Upcoming(read_buffer \o unread, Len(sent), sent, FALSE)
        BY <1>2, <1>9, Lengths DEF FrameInv, StreamInv
      <3> QED
        BY <3>1, UpcomingLast DEF FrameInv, TypeOK
    <2>2. Len(read_buffer) = 0 /\ read_buffer = <<>>
      <3>1. /\ Len(read_buffer \o unread) = Len(read_buffer) + Len(unread)
            /\ Len(read_buffer) \in Nat /\ Len(unread) \in Nat
        BY DEF FrameInv, TypeOK
      <3>2. Len(<<>>) = 0
        OBVIOUS
      <3>3. Len(read_buffer) = 0
        BY <2>1, <3>1, <3>2
      <3> QED
        BY <3>3 DEF FrameInv, TypeOK
    <2>3. requested = 1
      BY <1>9, <2>2 DEF FrameInv, ReaderInv
    <2>4. NextPacket' = p
      BY <1>2, <1>5, <1>9, Lengths DEF NextPacket
    <2>5. Len(encode(p)) \in Nat /\ Len(encode(p)) >= 2
      BY EncodeType
    <2>6. encode(NextPacket)' = encode(p)
      BY <2>4 DEF encode
    <2> QED
      BY <2>2, <2>3, <2>5, <2>6
  <1>10. ReaderInv'
    <2>1. Behind => encode(NextPacket)' = encode(NextPacket)
      BY <1>8 DEF encode
    <2>2. phase # "malformed_mqtt_packet"
      BY <1>2 DEF FrameInv, ReaderInv
    <2>3. phase = "reading" => Len(read_buffer) + requested <= Len(encode(NextPacket)')
      BY <1>9, <2>1 DEF FrameInv, ReaderInv
    <2> QED
      BY <1>2, <1>8, <2>1, <2>2, <2>3 DEF FrameInv, ReaderInv
  <1>11. Stream!Next
    BY <1>1, <1>2 DEF Stream!Next, Stream!send
  <1> QED
    BY <1>4, <1>7, <1>10, <1>11 DEF FrameInv

LEMMA BreaksInv ==
    ASSUME FrameInv, client_sends_overlong_length
    PROVE  FrameInv' /\ UNCHANGED Stream!vars
  <1>1. PICK t \in Type :
            unread' = unread \o <<t>> \o [i \in 1 .. MaxLengthBytes + 1 |-> Base]
    BY DEF client_sends_overlong_length
  <1>2. /\ broken = FALSE /\ broken' = TRUE
        /\ UNCHANGED <<read_buffer, requested, phase, frame, sent, delivered>>
    BY DEF client_sends_overlong_length, FrameInv, TypeOK
  <1>3. unread' = unread \o overlong(t) /\ unread' \in Seq(Byte)
    <2>1. PICK d \in Seq(Byte), a \in Seq(Byte) :
              d = [i \in 1 .. MaxLengthBytes + 1 |-> Base] /\ a = <<t>>
      <3>1. MaxLengthBytes + 1 \in Nat /\ Base \in Byte /\ t \in Byte
        BY ConstantsAssumption DEF Byte
      <3>2. [i \in 1 .. MaxLengthBytes + 1 |-> Base] \in Seq(Byte) /\ <<t>> \in Seq(Byte)
        BY <3>1
      <3> QED
        BY <3>2
    <2>2. unread \in Seq(Byte)
      BY DEF FrameInv, TypeOK
    <2>3. (unread \o a) \o d = unread \o (a \o d) /\ unread \o (a \o d) \in Seq(Byte)
      BY <2>2
    <2> QED
      BY <1>1, <2>1, <2>3 DEF overlong
  <1>4. TypeOK'
    BY <1>2, <1>3 DEF FrameInv, TypeOK
  <1>5. Upcoming((read_buffer \o unread)', Len(delivered)', sent', broken')
    <2>1. Upcoming(read_buffer \o unread, Len(delivered), sent, FALSE)
      BY <1>2 DEF FrameInv, StreamInv
    <2>2. Upcoming((read_buffer \o unread) \o overlong(t), Len(delivered), sent, TRUE)
      BY <2>1, UpcomingBreaks, Lengths DEF FrameInv, TypeOK
    <2>3. (read_buffer \o unread) \o overlong(t) = read_buffer \o (unread \o overlong(t))
      BY OverlongType DEF FrameInv, TypeOK
    <2> QED
      BY <1>2, <1>3, <2>2, <2>3
  <1>6. StreamInv'
    BY <1>2, <1>5 DEF FrameInv, StreamInv
  <1>7. Behind' = Behind /\ NextPacket' = NextPacket /\ encode(NextPacket)' = encode(NextPacket)
    BY <1>2 DEF Behind, NextPacket, encode
  <1>8. ReaderInv'
    BY <1>2, <1>7 DEF FrameInv, ReaderInv
  <1>9. UNCHANGED Stream!vars
    BY <1>2 DEF Stream!vars
  <1> QED
    BY <1>4, <1>6, <1>8, <1>9 DEF FrameInv

\* What a portion adds to is a part of the next packet, or of the length that is
\* too long behind the last one.
LEMMA PortionRead ==
    ASSUME FrameInv, phase = "reading", NEW n \in 1 .. Len(unread), n <= requested,
           NEW bytes, bytes = read_buffer \o SubSeq(unread, 1, n)
    PROVE  /\ Behind => PrefixOf(bytes, encode(NextPacket))
           /\ ~Behind => broken /\ \E t \in Type : PrefixOf(bytes, overlong(t))
  <1>1. read_buffer \in Seq(Byte) /\ unread \in Seq(Byte) /\ requested \in Nat
    BY DEF FrameInv, TypeOK
  <1>2. /\ bytes \in Seq(Byte) /\ Len(bytes) = Len(read_buffer) + n
        /\ \A i \in 1 .. Len(bytes) : bytes[i] = (read_buffer \o unread)[i]
    <2>1. bytes = ReadWith(read_buffer, unread, n)
      BY DEF ReadWith
    <2>2. /\ ReadWith(read_buffer, unread, n) \in Seq(Byte)
          /\ Len(ReadWith(read_buffer, unread, n)) = Len(read_buffer) + n
          /\ \A i \in 1 .. Len(ReadWith(read_buffer, unread, n)) :
                 ReadWith(read_buffer, unread, n)[i] = (read_buffer \o unread)[i]
      BY <1>1, Portion
    <2> QED
      BY <2>1, <2>2
  <1>3. /\ Len(read_buffer) \in Nat /\ Len(unread) \in Nat /\ n \in Nat /\ n >= 1
        /\ Len(bytes) \in Nat /\ Len(bytes) >= 1 /\ n <= Len(unread)
    BY <1>1, <1>2
  <1>4. Upcoming(read_buffer \o unread, Len(delivered), sent, broken) /\ sent \in Seq(Packet)
    BY DEF FrameInv, StreamInv, TypeOK
  <1>5. ASSUME Behind
        PROVE  PrefixOf(bytes, encode(NextPacket))
    <2>1. PICK r \in Seq(Byte) : read_buffer \o unread = encode(NextPacket) \o r
      <3>1. PICK d \in 0 .. Len(sent) - 1 : d = Len(delivered)
        BY <1>5, Lengths
      <3>2. \E r \in Seq(Byte) : /\ read_buffer \o unread = encode(sent[d + 1]) \o r
                                 /\ Upcoming(r, d + 1, sent, broken)
        BY <1>4, <3>1, UpcomingNext
      <3> QED
        BY <3>1, <3>2 DEF NextPacket
    <2>2. PICK c \in Seq(Byte) : c = encode(NextPacket)
      BY <1>5, Lengths
    <2>3. Len(read_buffer) + requested <= Len(c) /\ Len(c) \in Nat
      BY <1>5, <2>2 DEF FrameInv, ReaderInv
    <2>4. Len(bytes) <= Len(c)
      BY <1>1, <1>2, <1>3, <2>3
    <2>5. PrefixOf(bytes, c)
      BY <1>2, <1>3, <2>1, <2>2, <2>4, ReadOfFirst
    <2> QED
      BY <2>2, <2>5
  <1>6. ASSUME ~Behind
        PROVE  broken /\ \E t \in Type : PrefixOf(bytes, overlong(t))
    <2>1. Upcoming(read_buffer \o unread, Len(sent), sent, broken)
      BY <1>4, <1>6, Lengths
    <2>2. Len(read_buffer \o unread) = Len(read_buffer) + Len(unread)
      BY <1>1, Concatenation
    <2>3. broken = TRUE
      <3>0. broken \in BOOLEAN
        BY DEF FrameInv, TypeOK
      <3>1. ASSUME broken = FALSE
            PROVE  FALSE
        <4>1. read_buffer \o unread = <<>>
          BY <1>4, <2>1, <3>1, UpcomingLast
        <4>2. Len(<<>>) = 0
          OBVIOUS
        <4> QED
          BY <1>3, <2>2, <4>1, <4>2
      <3> QED
        BY <3>0, <3>1
    <2>4. PICK t \in Type : read_buffer \o unread = overlong(t)
      BY <1>4, <2>1, <2>3, UpcomingLast
    <2>5. Len(bytes) \in 1 .. Len(overlong(t))
      BY <1>2, <1>3, <2>2, <2>4
    <2>6. PrefixOf(bytes, overlong(t))
      BY <1>2, <2>4, <2>5 DEF PrefixOf
    <2> QED
      BY <2>3, <2>6
  <1> QED
    BY <1>5, <1>6

LEMMA ReadsInv ==
    ASSUME FrameInv, read_some
    PROVE  FrameInv' /\ UNCHANGED Stream!vars
  <1>0. \A n \in 1 .. Len(unread) : read_buffer \o SubSeq(unread, 1, n) \in Seq(Byte)
    <2>1. read_buffer \in Seq(Byte) /\ unread \in Seq(Byte)
      BY DEF FrameInv, TypeOK
    <2> QED
      BY <2>1, Portion DEF ReadWith
  <1>1. PICK n \in 1 .. Len(unread), bytes \in Seq(Byte) :
            /\ phase = "reading"
            /\ bytes = read_buffer \o SubSeq(unread, 1, n)
            /\ n <= requested
            /\ Len(bytes) <= ReadBufferSize
            /\ read_buffer' = bytes
            /\ unread' = SubSeq(unread, n + 1, Len(unread))
            /\ \/ /\ exceeds_maximum(bytes)
                  /\ phase' = "malformed_mqtt_packet"
                  /\ UNCHANGED <<requested, frame>>
               \/ /\ ~exceeds_maximum(bytes)
                  /\ remaining(bytes) = 0
                  /\ frame' = frame_of(bytes)
                  /\ phase' = "completed"
                  /\ UNCHANGED requested
               \/ /\ ~exceeds_maximum(bytes)
                  /\ remaining(bytes) # 0
                  /\ requested' = remaining(bytes)
                  /\ phase' = IF Len(bytes) = ReadBufferSize THEN "completed" ELSE phase
                  /\ UNCHANGED frame
    BY <1>0 DEF read_some
  <1>2. UNCHANGED <<sent, broken, delivered>>
    BY DEF read_some
  <1>3. read_buffer \in Seq(Byte) /\ unread \in Seq(Byte)
    BY DEF FrameInv, TypeOK
  <1>4. /\ bytes \in Seq(Byte) /\ unread' \in Seq(Byte)
        /\ bytes \o unread' = read_buffer \o unread
        /\ Len(bytes) \in Nat /\ Len(bytes) >= 1
    <2>1. /\ bytes \in Seq(Byte) /\ unread' \in Seq(Byte)
          /\ bytes \o unread' = read_buffer \o unread
          /\ Len(bytes) = Len(read_buffer) + n
      <3>1. bytes = ReadWith(read_buffer, unread, n) /\ unread' = LeftOf(unread, n)
        BY <1>1 DEF ReadWith, LeftOf
      <3>2. /\ ReadWith(read_buffer, unread, n) \in Seq(Byte) /\ LeftOf(unread, n) \in Seq(Byte)
            /\ ReadWith(read_buffer, unread, n) \o LeftOf(unread, n) = read_buffer \o unread
            /\ Len(ReadWith(read_buffer, unread, n)) = Len(read_buffer) + n
        BY <1>3, Portion
      <3> QED
        BY <3>1, <3>2
    <2>2. Len(read_buffer) \in Nat /\ n \in Nat /\ n >= 1
      BY <1>3
    <2> QED
      BY <2>1, <2>2
  <1>5. frame = NoFrame
    BY <1>1 DEF FrameInv, ReaderInv
  <1>6. Behind => /\ ~exceeds_maximum(bytes) /\ remaining(bytes) \in Nat
                  /\ Len(bytes) + remaining(bytes) <= Len(encode(NextPacket))
                  /\ remaining(bytes) = 0 =>
                        bytes = encode(NextPacket) /\ frame_of(bytes) = NextPacket
    BY <1>1, PortionRead, PacketRead, Lengths
  <1>7. ~Behind => broken /\ remaining(bytes) = 1
    BY <1>1, PortionRead, OverlongRead
  <1>8. Behind' = Behind /\ NextPacket' = NextPacket /\ encode(NextPacket)' = encode(NextPacket)
    BY <1>2 DEF Behind, NextPacket, encode
  <1>9. StreamInv'
    BY <1>1, <1>2, <1>4 DEF FrameInv, StreamInv
  <1>10. bytes # <<>>
    <2>1. Len(<<>>) = 0
      OBVIOUS
    <2> QED
      BY <1>4, <2>1
  <1>11. UNCHANGED Stream!vars
    BY <1>2 DEF Stream!vars
  <1>12. /\ unread' \in Seq(Byte) /\ read_buffer' \in Seq(Byte) /\ Len(read_buffer') <= ReadBufferSize
         /\ sent' \in Seq(Packet) /\ broken' \in BOOLEAN
         /\ delivered' \in Seq([type : Byte, body : Seq(Byte)])
    BY <1>1, <1>2, <1>4 DEF FrameInv, TypeOK
  <1>13. requested \in Nat \ {0}
    BY DEF FrameInv, TypeOK
  <1>14. CASE exceeds_maximum(bytes)
    <2>1. phase' = "malformed_mqtt_packet" /\ requested' = requested /\ frame' = NoFrame
      BY <1>1, <1>5, <1>14
    <2>2. ~Behind /\ broken
      BY <1>6, <1>7, <1>14
    <2>3. TypeOK'
      BY <1>12, <1>13, <2>1 DEF TypeOK
    <2>4. ReaderInv'
      BY <1>2, <1>8, <2>1, <2>2 DEF ReaderInv
    <2> QED
      BY <1>9, <1>11, <2>3, <2>4 DEF FrameInv
  <1>15. CASE ~exceeds_maximum(bytes) /\ remaining(bytes) = 0
    <2>1. Behind /\ frame' = NextPacket /\ bytes = encode(NextPacket)
      BY <1>1, <1>6, <1>7, <1>15
    <2>2. phase' = "completed" /\ requested' = requested
      BY <1>1, <1>15
    <2>3. frame' \in [type : Byte, body : Seq(Byte)]
      BY <2>1, Lengths, PacketType
    <2>4. TypeOK'
      BY <1>12, <1>13, <2>2, <2>3 DEF TypeOK
    <2>5. ReaderInv'
      BY <1>1, <1>8, <2>1, <2>2 DEF ReaderInv
    <2> QED
      BY <1>9, <1>11, <2>4, <2>5 DEF FrameInv
  <1>16. CASE ~exceeds_maximum(bytes) /\ remaining(bytes) # 0
    <2>1. /\ requested' = remaining(bytes) /\ frame' = NoFrame
          /\ phase' = IF Len(bytes) = ReadBufferSize THEN "completed" ELSE phase
      BY <1>1, <1>5, <1>16
    <2>2. phase' \in {"completed", "reading"}
      BY <1>1, <2>1
    <2>3. requested' \in Nat \ {0}
      BY <1>6, <1>7, <1>16, <2>1
    <2>4. TypeOK'
      BY <1>12, <2>1, <2>2, <2>3 DEF TypeOK
    <2>5. ReaderInv'
      BY <1>1, <1>6, <1>8, <1>10, <2>1, <2>2 DEF ReaderInv
    <2> QED
      BY <1>9, <1>11, <2>4, <2>5 DEF FrameInv
  <1> QED
    BY <1>14, <1>15, <1>16

LEMMA HandlesInv ==
    ASSUME FrameInv, on_frame_read
    PROVE  FrameInv' /\ [Stream!Next]_Stream!vars
  <1>1. phase = "completed" /\ UNCHANGED <<unread, sent, broken>>
    BY DEF on_frame_read
  <1>2. CASE frame # NoFrame
    <2>1. /\ delivered' = Append(delivered, frame) /\ frame' = NoFrame
          /\ read_buffer' = <<>> /\ requested' = 1 /\ phase' = "reading"
      BY <1>2 DEF on_frame_read
    <2>2. Behind /\ frame = NextPacket /\ read_buffer = encode(NextPacket)
      BY <1>2 DEF FrameInv, ReaderInv
    <2>3. PICK d \in Nat, s \in Nat : d = Len(delivered) /\ s = Len(sent) /\ d < s
      BY <2>2, Lengths DEF Behind
    <2>4. /\ delivered' \in Seq([type : Byte, body : Seq(Byte)])
          /\ Len(delivered') = d + 1 /\ delivered'[d + 1] = sent[d + 1]
          /\ \A i \in 1 .. d : delivered'[i] = delivered[i]
      <3>1. frame \in [type : Byte, body : Seq(Byte)]
        BY <2>2, Lengths, PacketType
      <3>2. delivered \in Seq([type : Byte, body : Seq(Byte)])
        BY DEF FrameInv, TypeOK
      <3> QED
        BY <2>1, <2>2, <2>3, <3>1, <3>2 DEF NextPacket
    <2>5. PICK r \in Seq(Byte) : /\ read_buffer \o unread = encode(NextPacket) \o r
                                 /\ Upcoming(r, d + 1, sent, broken)
      <3>1. Upcoming(read_buffer \o unread, Len(delivered), sent, broken) /\ sent \in Seq(Packet)
        BY DEF FrameInv, StreamInv, TypeOK
      <3> QED
        BY <2>2, <2>3, <3>1, Lengths, UpcomingNext DEF NextPacket
    <2>6. unread = r
      <3>1. PICK c \in Seq(Byte) : c = encode(NextPacket)
        BY <2>2, Lengths
      <3>2. unread \in Seq(Byte)
        BY DEF FrameInv, TypeOK
      <3>3. c \o unread = c \o r
        BY <2>2, <2>5, <3>1
      <3> QED
        BY <3>1, <3>2, <3>3, SameRest
    <2>7. TypeOK'
      <3>1. <<>> \in Seq(Byte) /\ Len(<<>>) = 0 /\ Len(<<>>) <= ReadBufferSize
        BY ConstantsAssumption
      <3>2. unread' \in Seq(Byte) /\ sent' \in Seq(Packet) /\ broken' \in BOOLEAN
        BY <1>1 DEF FrameInv, TypeOK
      <3>3. requested' \in Nat \ {0} /\ phase' \in {"reading"} /\ frame' \in {NoFrame}
        BY <2>1
      <3>4. read_buffer' \in Seq(Byte) /\ Len(read_buffer') <= ReadBufferSize
        BY <2>1, <3>1
      <3> QED
        BY <2>4, <3>2, <3>3, <3>4 DEF TypeOK
    <2>8. StreamInv'
      <3>1. <<>> \o r = r
        OBVIOUS
      <3>2. Upcoming((read_buffer \o unread)', Len(delivered)', sent', broken')
        BY <1>1, <2>1, <2>4, <2>5, <2>6, <3>1
      <3>3. \A i \in 1 .. d + 1 : delivered'[i] = sent'[i]
        <4> TAKE i \in 1 .. d + 1
        <4>1. CASE i \in 1 .. d
          BY <1>1, <2>3, <2>4, <4>1 DEF FrameInv, StreamInv
        <4>2. CASE i \notin 1 .. d
          <5>1. i = d + 1
            BY <4>2
          <5> QED
            BY <1>1, <2>4, <5>1
        <4> QED
          BY <4>1, <4>2
      <3>4. Len(delivered') <= Len(sent')
        BY <1>1, <2>3, <2>4
      <3> QED
        BY <2>4, <3>2, <3>3, <3>4 DEF StreamInv
    <2>9. ReaderInv'
      <3>1. Len(<<>>) = 0
        OBVIOUS
      <3>2. ASSUME Behind'
            PROVE  Len(encode(NextPacket)') \in Nat /\ Len(encode(NextPacket)') >= 2
        <4>1. d + 1 < s /\ NextPacket' = sent[d + 2]
          BY <1>1, <2>3, <2>4, <3>2 DEF Behind, NextPacket
        <4>2. sent \in Seq(Packet) /\ d + 2 \in 1 .. Len(sent)
          BY <2>3, <4>1 DEF FrameInv, TypeOK
        <4>3. PICK q \in Packet : q = sent[d + 2]
          BY <4>2
        <4>4. encode(NextPacket)' = encode(q)
          BY <4>1, <4>3 DEF encode
        <4> QED
          BY <4>4, EncodeType
      <3> QED
        BY <2>1, <3>1, <3>2 DEF ReaderInv
    <2>10. Stream!deliver
      BY <1>1, <2>1, <2>2, <2>3 DEF Stream!deliver, NextPacket
    <2> QED
      BY <2>7, <2>8, <2>9, <2>10 DEF FrameInv, Stream!Next
  <1>3. CASE frame = NoFrame
    <2>1. phase' = "assert_frame" /\ UNCHANGED <<read_buffer, requested, frame, delivered>>
      BY <1>3 DEF on_frame_read
    <2>2. TypeOK'
      BY <1>1, <2>1 DEF FrameInv, TypeOK
    <2>3. StreamInv'
      BY <1>1, <2>1 DEF FrameInv, StreamInv
    <2>4. ReaderInv'
      BY <1>3, <2>1 DEF ReaderInv
    <2>5. UNCHANGED Stream!vars
      BY <1>1, <2>1 DEF Stream!vars
    <2> QED
      BY <2>2, <2>3, <2>4, <2>5 DEF FrameInv
  <1> QED
    BY <1>2, <1>3

LEMMA NextFrameInv == FrameInv /\ [Next]_vars => FrameInv' /\ [Stream!Next]_Stream!vars
  <1> SUFFICES ASSUME FrameInv, [Next]_vars
               PROVE  FrameInv' /\ [Stream!Next]_Stream!vars
    OBVIOUS
  <1>1. CASE client_sends
    BY <1>1, SendsInv
  <1>2. CASE client_sends_overlong_length
    BY <1>2, BreaksInv
  <1>3. CASE read_some
    BY <1>3, ReadsInv
  <1>4. CASE on_frame_read
    BY <1>4, HandlesInv
  <1>5. CASE UNCHANGED vars
    <2>1. UNCHANGED <<unread, read_buffer, requested, phase, frame, sent, broken, delivered>>
      BY <1>5 DEF vars
    <2>2. TypeOK' /\ StreamInv'
      BY <2>1 DEF FrameInv, TypeOK, StreamInv
    <2>3. Behind' = Behind /\ NextPacket' = NextPacket /\ encode(NextPacket)' = encode(NextPacket)
      BY <2>1 DEF Behind, NextPacket, encode
    <2>4. ReaderInv'
      BY <2>1, <2>3 DEF FrameInv, ReaderInv
    <2>5. UNCHANGED Stream!vars
      BY <2>1 DEF Stream!vars
    <2> QED
      BY <2>2, <2>4, <2>5 DEF FrameInv
  <1> QED
    BY <1>1, <1>2, <1>3, <1>4, <1>5 DEF Next

-----------------------------------------------------------------------------
(* Theorems                                                                 *)

\* However the stream is cut, what frame_reader has read and what it asks for fit
\* the packets the client sent.
THEOREM StreamAgrees == Spec => []FrameInv
  BY InitFrameInv, NextFrameInv, PTL DEF Spec

\* Reading frames implements FrameStream: what mqtt_connection hands to the packet
\* decoder is what the client sent, whole, in order and once. Of
\* ImplementsFrameStream this is all but the liveness.
THEOREM RefinesFrameStream == Spec => Stream!Spec
  <1>1. Init => Stream!Init
    BY DEF Init, Stream!Init
  <1> QED
    BY <1>1, InitFrameInv, NextFrameInv, PTL DEF Spec, Stream!Spec

\* async_read and frame_reader keep their types: as long as a frame is not complete
\* there is something to ask for, and no more is transferred than read_buffer_ holds.
THEOREM TypeCorrect == Spec => []TypeOK
  <1>1. FrameInv => TypeOK
    BY DEF FrameInv
  <1> QED
    BY <1>1, StreamAgrees, PTL

\* frame_reader throws malformed_mqtt_packet only for a length of too many digits,
\* after all packets before it were handed over.
THEOREM OnlyOverlongRefused == Spec => []OnlyOverlongIsMalformed
  <1>1. FrameInv => OnlyOverlongIsMalformed
    <2> SUFFICES ASSUME FrameInv, phase = "malformed_mqtt_packet"
                 PROVE  broken /\ delivered = sent
      BY DEF OnlyOverlongIsMalformed
    <2>1. broken /\ ~Behind
      BY DEF FrameInv, ReaderInv
    <2>2. Len(delivered) = Len(sent) /\ Len(sent) \in Nat
      BY <2>1, Lengths
    <2>3. \A i \in 1 .. Len(delivered) : delivered[i] = sent[i]
      BY DEF FrameInv, StreamInv
    <2>4. /\ delivered = [i \in 1 .. Len(delivered) |-> delivered[i]]
          /\ sent = [i \in 1 .. Len(sent) |-> sent[i]]
      <3>1. \A S : \A s \in Seq(S) : s = [i \in 1 .. Len(s) |-> s[i]]
        OBVIOUS
      <3> QED
        BY <3>1 DEF FrameInv, TypeOK
    <2>5. delivered = sent
      BY <2>2, <2>3, <2>4
    <2> QED
      BY <2>1, <2>5
  <1> QED
    BY <1>1, StreamAgrees, PTL
=============================================================================
