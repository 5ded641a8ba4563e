--------------------------- MODULE ProtocolProofs ---------------------------
(***************************************************************************)
(* What protocol.rs writes is what it reads: for any format, any stream    *)
(* name and payload that fit, and however much of a packet has arrived.    *)
(***************************************************************************)
EXTENDS Protocol, MarkerProofs

-----------------------------------------------------------------------------
(* Recursion and concatenation.                                            *)

Recurses(f, V, L, v, F) ==
  f \in [0..L -> V] /\ f[0] = v /\ \A n \in 1..L : f[n] = F[<<f[n - 1], n>>]

\* A function that is given by its first value and by the step from one value to the
\* next exists.
LEMMA Recursion ==
  ASSUME NEW V, NEW L \in Nat, NEW v \in V, NEW F,
         \A x \in V, n \in 1..L : F[<<x, n>>] \in V
  PROVE  \E f : Recurses(f, V, L, v, F)
<1> DEFINE P == {m \in Nat : m <= L =>
                   \E f \in [0..m -> V] : f[0] = v /\ \A n \in 1..m : f[n] = F[<<f[n - 1], n>>]}
<1>1. 0 \in P
  <2> DEFINE f == [n \in 0..0 |-> v]
  <2>1. f \in [0..0 -> V] /\ f[0] = v /\ \A n \in 1..0 : f[n] = F[<<f[n - 1], n>>]
    OBVIOUS
  <2> HIDE DEF f
  <2> QED
    BY <2>1
<1>2. ASSUME NEW m \in Nat, m \in P PROVE m + 1 \in P
  <2> SUFFICES ASSUME m + 1 <= L
               PROVE  \E f \in [0..(m + 1) -> V] :
                        f[0] = v /\ \A n \in 1..(m + 1) : f[n] = F[<<f[n - 1], n>>]
    OBVIOUS
  <2>1. PICK f \in [0..m -> V] : f[0] = v /\ \A n \in 1..m : f[n] = F[<<f[n - 1], n>>]
    BY <1>2
  <2>2. f[m] \in V /\ F[<<f[m], m + 1>>] \in V
    OBVIOUS
  <2> DEFINE g == [n \in 0..(m + 1) |-> IF n = m + 1 THEN F[<<f[m], m + 1>>] ELSE f[n]]
  <2>3. g \in [0..(m + 1) -> V] /\ g[0] = v
    BY <2>1, <2>2
  <2>4. \A n \in 0..m : g[n] = f[n]
    OBVIOUS
  <2>5. g[m + 1] = F[<<f[m], m + 1>>]
    OBVIOUS
  <2> HIDE DEF g
  <2>6. ASSUME NEW n \in 1..(m + 1) PROVE g[n] = F[<<g[n - 1], n>>]
    <3>1. CASE n = m + 1
      BY <2>4, <2>5, <3>1
    <3>2. CASE n \in 1..m
      <4>1. n - 1 \in 0..m /\ n \in 0..m
        BY <3>2
      <4> QED
        BY <2>1, <2>4, <3>2, <4>1
    <3> QED
      BY <3>1, <3>2
  <2> QED
    BY <2>3, <2>6
<1> HIDE DEF P
<1>3. L \in P
  BY <1>1, <1>2, SetInduction
<1> QED
  BY <1>3 DEF P, Recurses

\* FlattenSeq goes through the texts one after the other.
LEMMA FlattenIs ==
  ASSUME NEW S, NEW seqs \in Seq(Seq(S))
  PROVE  \E f \in [0..Len(seqs) -> Seq(S)] :
           /\ f[0] = <<>> /\ \A n \in 1..Len(seqs) : f[n] = f[n - 1] \o seqs[n]
           /\ FlattenSeq(seqs) = f[Len(seqs)]
<1> DEFINE L == Len(seqs)
           Step(g, i) == IF i = 1 THEN seqs[i] ELSE g[i - 1] \o seqs[i]
           flatten == CHOOSE g : g = [i \in 1..L |-> Step(g, i)]
           F == [x \in Seq(S) \X (1..L) |-> x[1] \o seqs[x[2]]]
<1>1. L \in Nat /\ \A i \in 1..L : seqs[i] \in Seq(S)
  BY LenProperties, ElementOfSeq
<1>2. \A t \in Seq(S), i \in 1..L : F[<<t, i>>] = t \o seqs[i] /\ F[<<t, i>>] \in Seq(S)
  <2>1. \A t \in Seq(S), i \in 1..L : t \o seqs[i] \in Seq(S)
    BY <1>1, ConcatProperties
  <2> QED
    BY <2>1
<1>3. <<>> \in Seq(S)
  BY EmptySeq
<1>4. PICK f \in [0..L -> Seq(S)] : f[0] = <<>> /\ \A n \in 1..L : f[n] = F[<<f[n - 1], n>>]
  <2> DEFINE V == Seq(S)
  <2>1. L \in Nat /\ <<>> \in V /\ \A x \in V, n \in 1..L : F[<<x, n>>] \in V
    BY <1>1, <1>2, <1>3
  <2> HIDE DEF F, L, V
  <2>2. \E f : Recurses(f, V, L, <<>>, F)
    BY ONLY <2>1, Recursion
  <2> QED
    BY <2>2 DEF V, Recurses
<1>5. \A n \in 1..L : f[n - 1] \in Seq(S) /\ f[n] = f[n - 1] \o seqs[n]
  <2>1. \A n \in 1..L : n - 1 \in 0..L
    BY <1>1
  <2> QED
    BY <1>4, <2>1
<1> HIDE DEF F
<1>b. L # 0 => 1 \in 1..L /\ f[1] = f[0] \o seqs[1] /\ f[1] = seqs[1]
  <2> SUFFICES ASSUME L # 0 PROVE 1 \in 1..L /\ f[1] = f[0] \o seqs[1] /\ f[1] = seqs[1]
    OBVIOUS
  <2>1. 1 \in 1..L /\ 1 - 1 = 0
    BY <1>1
  <2>2. f[1] = f[1 - 1] \o seqs[1]
    BY ONLY <1>5, <2>1
  <2>3. f[1] = f[0] \o seqs[1]
    BY <2>1, <2>2
  <2>4. <<>> \o seqs[1] = seqs[1]
    BY <1>1, <2>1, ConcatEmptySeq
  <2> QED
    BY <1>4, <2>1, <2>3, <2>4
<1>6. CASE L = 0
  <2>1. seqs = <<>>
    BY <1>6, EmptySeq
  <2>2. FlattenSeq(seqs) = <<>>
    BY <1>6, <2>1 DEF FlattenSeq
  <2> QED
    BY <1>4, <1>5, <1>6, <2>2
<1>7. CASE L # 0
  <2> DEFINE g == [i \in 1..L |-> f[i]]
  <2>1. \A i \in 1..L : f[i] = Step(g, i)
    <3>1. ASSUME NEW i \in 1..L PROVE f[i] = Step(g, i)
      <4>1. CASE i = 1
        BY <1>7, <1>b, <4>1
      <4>2. CASE i # 1
        <5>1. i - 1 \in 1..L
          BY <1>1, <4>2
        <5> QED
          BY <1>5, <4>2, <5>1
      <4> QED
        BY <4>1, <4>2
    <3> QED
      BY <3>1
  <2>2. g = [i \in 1..L |-> Step(g, i)]
    BY <2>1
  <2> HIDE DEF g
  <2>3. flatten = [i \in 1..L |-> Step(flatten, i)]
    BY <2>2
  <2>4. FlattenSeq(seqs) = flatten[L]
    BY <1>7 DEF FlattenSeq
  <2>5. \A i \in 1..L : flatten[i] = Step(flatten, i)
    BY <2>3
  <2> HIDE DEF flatten
  <2> DEFINE P == {n \in Nat : n + 1 <= L => flatten[n + 1] = f[n + 1]}
  <2>6. 0 \in P
    <3>1. 1 \in 1..L /\ flatten[1] = seqs[1]
      BY <1>7, <1>b, <2>5
    <3> QED
      BY <1>7, <1>b, <3>1
  <2>7. ASSUME NEW n \in Nat, n \in P PROVE n + 1 \in P
    <3> SUFFICES ASSUME n + 2 <= L PROVE flatten[n + 2] = f[n + 2]
      OBVIOUS
    <3>1. n + 2 \in 1..L /\ n + 2 # 1 /\ (n + 2) - 1 = n + 1 /\ flatten[n + 1] = f[n + 1]
      BY <1>1, <2>7
    <3>2. f[n + 2] = f[n + 1] \o seqs[n + 2] /\ flatten[n + 2] = flatten[n + 1] \o seqs[n + 2]
      BY <1>5, <2>5, <3>1
    <3> QED
      BY <3>1, <3>2
  <2> HIDE DEF P
  <2>8. L - 1 \in P /\ L - 1 \in Nat
    <3>1. L - 1 \in Nat
      BY <1>1, <1>7
    <3>2. Nat \subseteq P
      BY ONLY <2>6, <2>7, SetInduction
    <3> QED
      BY <3>1, <3>2
  <2>9. flatten[L] = f[L]
    BY <1>1, <2>8 DEF P
  <2> QED
    BY <1>4, <1>5, <2>4, <2>9
<1> QED
  BY <1>6, <1>7
-----------------------------------------------------------------------------
(* Numbers.                                                                *)

LEMMA DivisionIs ==
  ASSUME NEW n \in Nat, NEW d \in Nat \ {0}
  PROVE  n \div d \in Nat /\ n % d \in 0..(d - 1) /\ n = d * (n \div d) + (n % d)
OBVIOUS

LEMMA DivisionUnique ==
  ASSUME NEW n \in Nat, NEW d \in Nat \ {0}, NEW q \in Nat, NEW r \in 0..(d - 1), n = d * q + r
  PROVE  n \div d = q /\ n % d = r
OBVIOUS

LEMMA DivisionTwice ==
  ASSUME NEW n \in Nat, NEW a \in Nat \ {0}, NEW b \in Nat \ {0}
  PROVE  n \div (a * b) = (n \div a) \div b
<1> DEFINE q == n \div a
<1>1. q \in Nat /\ n % a \in 0..(a - 1) /\ n = a * q + (n % a)
  BY DivisionIs
<1> HIDE DEF q
<1>2. q \div b \in Nat /\ q % b \in 0..(b - 1) /\ q = b * (q \div b) + (q % b)
  BY <1>1, DivisionIs
<1> DEFINE p == q \div b
           r == a * (q % b) + (n % a)
<1>3. n = (a * b) * p + r
  <2> DEFINE x == q % b
             y == n % a
  <2>1. x \in Nat /\ y \in Nat /\ p \in Nat /\ q = b * p + x /\ n = a * q + y
    BY <1>1, <1>2
  <2> HIDE DEF x, y, p
  <2>2. a * (b * p + x) = (a * b) * p + a * x
    BY <2>1
  <2>3. n = (a * b) * p + (a * x + y)
    BY <2>1, <2>2
  <2>4. QED
    BY <2>3 DEF x, y
<1>4. r \in 0..(a * b - 1)
  <2>1. a * (q % b) <= a * (b - 1) /\ a * (q % b) \in Nat /\ a * (b - 1) = a * b - a
    BY <1>2
  <2> DEFINE x == a * (q % b)
             y == n % a
             z == a * b
  <2>2. x \in Nat /\ z \in Nat /\ y \in 0..(a - 1) /\ x <= z - a /\ r = x + y
    BY <1>1, <2>1
  <2> HIDE DEF x, y, z, r
  <2>3. r \in 0..(z - 1)
    BY ONLY <2>2, a \in Nat
  <2>4. QED
    BY <2>3 DEF z
<1>5. a * b \in Nat \ {0}
  OBVIOUS
<1> HIDE DEF p, r
<1>6. QED
  BY <1>2, <1>3, <1>4, <1>5, DivisionUnique DEF p, q

\* The powers are the ones of the base.
LEMMA PowerIs ==
  /\ \A n \in 0..LengthDigits : Power[n] \in Nat \ {0}
  /\ Power[0] = 1
  /\ \A n \in 1..LengthDigits : Power[n] = Base * Power[n - 1]
<1> DEFINE L == LengthDigits
           V == Nat \ {0}
           F == [x \in V \X (1..L) |-> Base * x[1]]
           Step(g, n) == IF n = 0 THEN 1 ELSE Base * g[n - 1]
<1>1. L \in Nat /\ Base \in Nat \ {0}
  <2>1. Len(DigitSymbols) \in Nat
    BY ProtocolFormat, LenProperties DEF Text
  <2>2. QED
    BY <2>1, ProtocolFormat DEF Base
<1>2. \A x \in V, n \in 1..L : F[<<x, n>>] = Base * x /\ F[<<x, n>>] \in V
  BY <1>1
<1>3. PICK f : Recurses(f, V, L, 1, F)
  <2>1. 1 \in V /\ \A x \in V, n \in 1..L : F[<<x, n>>] \in V
    BY <1>2
  <2> HIDE DEF V, L, F
  <2>2. QED
    BY <1>1, <2>1, Recursion
<1>4. f \in [0..L -> V] /\ f[0] = 1 /\ \A n \in 1..L : f[n] = Base * f[n - 1]
  <2>1. \A n \in 1..L : n - 1 \in 0..L
    BY <1>1
  <2> HIDE DEF F, L, V
  <2>2. QED
    BY <1>2, <1>3, <2>1 DEF Recurses
<1>5. f = [n \in 0..L |-> Step(f, n)]
  <2>1. \A n \in 0..L : f[n] = Step(f, n)
    BY <1>1, <1>4
  <2>2. QED
    BY <1>4, <2>1
<1>6. Power = [n \in 0..L |-> Step(Power, n)]
  BY <1>5 DEF Power
<1>7. \A n \in 0..L : Power[n] = Step(Power, n)
  BY <1>6
<1> DEFINE P == {n \in Nat : n <= L => Power[n] \in V}
<1>8. 0 \in P
  BY <1>1, <1>7
<1>9. ASSUME NEW n \in Nat, n \in P PROVE n + 1 \in P
  <2> SUFFICES ASSUME n + 1 <= L PROVE Power[n + 1] \in V
    OBVIOUS
  <2>1. n + 1 \in 0..L /\ n + 1 # 0 /\ (n + 1) - 1 = n /\ Power[n] \in V
    BY <1>1, <1>9
  <2>2. Power[n + 1] = Base * Power[n]
    BY <1>7, <2>1
  <2>3. QED
    BY <1>1, <2>1, <2>2
<1> HIDE DEF P
<1>10. Nat \subseteq P
  BY <1>8, <1>9, SetInduction
<1>11. QED
  BY <1>1, <1>7, <1>10 DEF P
\* Every digit has its value.
LEMMA ValueIs ==
  /\ \A i \in 1..Base : DigitSymbols[i] \in STRING /\ ValueOf(DigitSymbols[i]) = i - 1
  /\ \A d \in Digits : ValueOf(d) \in 0..(Base - 1)
  /\ Base \in Nat \ {0, 1} /\ Digits = {DigitSymbols[i] : i \in 1..Base}
<1>1. /\ DOMAIN DigitSymbols = 1..Base /\ Base \in Nat \ {0, 1}
      /\ \A i \in 1..Base : DigitSymbols[i] \in STRING
  BY ProtocolFormat, LenProperties, ElementOfSeq DEF Text, Base
<1>2. ASSUME NEW i \in 1..Base PROVE ValueOf(DigitSymbols[i]) = i - 1
  <2> DEFINE c == CHOOSE j \in DOMAIN DigitSymbols : DigitSymbols[j] = DigitSymbols[i]
  <2>1. c \in DOMAIN DigitSymbols /\ DigitSymbols[c] = DigitSymbols[i]
    BY <1>1
  <2>2. c = i
    BY <1>1, <2>1, ProtocolFormat
  <2>3. QED
    BY <2>2 DEF ValueOf
<1>3. Digits = {DigitSymbols[i] : i \in 1..Base}
  BY <1>1 DEF Digits, ToSet
<1>4. QED
  BY <1>1, <1>2, <1>3

\* A number is read digit by digit.
Reads(t, f) ==
  /\ f \in [0..Len(t) -> Nat] /\ f[0] = 0 /\ NumberOf(t) = f[Len(t)]
  /\ \A n \in 1..Len(t) : f[n] = f[n - 1] * Base + ValueOf(t[n])

LEMMA NumberIs ==
  ASSUME NEW t \in Text, \A n \in 1..Len(t) : t[n] \in Digits
  PROVE  \E f : Reads(t, f)
<1> DEFINE L == Len(t)
           F == [x \in Nat \X (1..L) |-> x[1] * Base + ValueOf(t[x[2]])]
           Step(g, n) == IF n = 0 THEN 0 ELSE g[n - 1] * Base + ValueOf(t[n])
           First == CHOOSE g : g = [n \in 0..L |-> Step(g, n)]
<1>1. L \in Nat /\ Base \in Nat /\ \A n \in 1..L : ValueOf(t[n]) \in Nat
  BY ValueIs, LenProperties DEF Text
<1>2. \A x \in Nat, n \in 1..L : F[<<x, n>>] = x * Base + ValueOf(t[n]) /\ F[<<x, n>>] \in Nat
  BY <1>1
<1>3. PICK f : Recurses(f, Nat, L, 0, F)
  <2>1. 0 \in Nat /\ \A x \in Nat, n \in 1..L : F[<<x, n>>] \in Nat
    BY <1>2
  <2> HIDE DEF L, F
  <2>2. QED
    BY <1>1, <2>1, Recursion
<1>4. f \in [0..L -> Nat] /\ f[0] = 0 /\ \A n \in 1..L : f[n] = f[n - 1] * Base + ValueOf(t[n])
  <2>1. \A n \in 1..L : n - 1 \in 0..L
    BY <1>1
  <2> HIDE DEF F, L
  <2>2. QED
    BY <1>2, <1>3, <2>1 DEF Recurses
<1>5. f = [n \in 0..L |-> Step(f, n)]
  <2>1. \A n \in 0..L : f[n] = Step(f, n)
    BY <1>1, <1>4
  <2>2. QED
    BY <1>4, <2>1
<1>6. First = [n \in 0..L |-> Step(First, n)]
  BY <1>5
<1>7. \A n \in 0..L : First[n] = Step(First, n)
  BY <1>6
<1> DEFINE P == {n \in Nat : n <= L => First[n] = f[n]}
<1> HIDE DEF First
<1>8. 0 \in P
  BY <1>1, <1>4, <1>7
<1>9. ASSUME NEW n \in Nat, n \in P PROVE n + 1 \in P
  <2> SUFFICES ASSUME n + 1 <= L PROVE First[n + 1] = f[n + 1]
    OBVIOUS
  <2>1. n + 1 \in 1..L /\ n + 1 \in 0..L /\ n + 1 # 0 /\ (n + 1) - 1 = n /\ First[n] = f[n]
    BY <1>1, <1>9
  <2>2. First[n + 1] = First[n] * Base + ValueOf(t[n + 1])
    BY <1>7, <2>1
  <2>3. f[n + 1] = f[n] * Base + ValueOf(t[n + 1])
    BY <1>4, <2>1
  <2>4. QED
    BY <2>1, <2>2, <2>3
<1> HIDE DEF P
<1>10. L \in P
  BY <1>1, <1>8, <1>9, SetInduction
<1>11. NumberOf(t) = First[L]
  BY DEF NumberOf, First
<1>12. NumberOf(t) = f[L]
  BY <1>10, <1>11 DEF P
<1>13. QED
  BY <1>4, <1>12 DEF Reads

\* The length field of a packet reads as its length.
LEMMA LengthFieldIs ==
  ASSUME NEW n \in 0..MaxPacket
  PROVE  /\ LengthField(n) \in Text /\ Len(LengthField(n)) = LengthDigits
         /\ \A i \in 1..LengthDigits : LengthField(n)[i] \in Digits
         /\ NumberOf(LengthField(n)) = n
<1> DEFINE L == LengthDigits
           t == LengthField(n)
           q(i) == n \div Power[L - i]
<1>1. /\ L \in Nat \ {0} /\ Base \in Nat \ {0, 1} /\ n \in Nat /\ n < Power[L]
      /\ \A i \in 0..L : Power[L - i] \in Nat \ {0}
  <2>1. L \in Nat \ {0} /\ \A i \in 0..L : L - i \in 0..L
    BY ProtocolFormat
  <2>2. L \in 0..L
    BY <2>1
  <2>3. QED
    BY <2>1, <2>2, PowerIs, ValueIs DEF MaxPacket
<1>2. \A i \in 0..L : q(i) \in Nat /\ q(i) % Base \in 0..(Base - 1)
  BY <1>1, DivisionIs
<1>3. n <= MaxPacket
  BY <1>1 DEF MaxPacket
<1>4. t = [i \in 1..L |-> DigitSymbols[(q(i) % Base) + 1]]
  BY <1>3 DEF LengthField
<1> HIDE DEF t, q
<1>5. \A i \in 1..L : /\ (q(i) % Base) + 1 \in 1..Base /\ t[i] = DigitSymbols[(q(i) % Base) + 1]
                      /\ t[i] \in Digits /\ t[i] \in STRING /\ ValueOf(t[i]) = q(i) % Base
  <2> SUFFICES ASSUME NEW i \in 1..L
               PROVE  /\ (q(i) % Base) + 1 \in 1..Base /\ t[i] = DigitSymbols[(q(i) % Base) + 1]
                      /\ t[i] \in Digits /\ t[i] \in STRING /\ ValueOf(t[i]) = q(i) % Base
    OBVIOUS
  <2>1. i \in 0..L
    BY <1>1
  <2>2. (q(i) % Base) + 1 \in 1..Base
    BY <1>1, <1>2, <2>1
  <2>3. t[i] = DigitSymbols[(q(i) % Base) + 1]
    BY <1>4
  <2>4. ValueOf(t[i]) = ((q(i) % Base) + 1) - 1
    BY <2>2, <2>3, ValueIs
  <2>5. q(i) % Base \in Nat
    BY <1>2, <2>1
  <2>6. t[i] \in Digits /\ t[i] \in STRING
    BY <2>2, <2>3, ValueIs
  <2>7. QED
    BY <2>2, <2>3, <2>4, <2>5, <2>6
<1>6. t \in Text /\ Len(t) = L
  BY <1>1, <1>4, <1>5 DEF Text
<1>7. PICK f : Reads(t, f)
  BY <1>5, <1>6, NumberIs
<1>8. q(0) = 0 /\ q(L) = n
  <2>1. n \div Power[L] = 0
    <3> DEFINE p == Power[L]
    <3>1. p \in Nat \ {0} /\ n \in 0..(p - 1) /\ n \in Nat
      <4>1. L - 0 = L /\ 0 \in 0..L
        BY <1>1
      <4>2. QED
        BY <1>1, <4>1
    <3> HIDE DEF p
    <3>2. n = p * 0 + n
      BY <3>1
    <3>3. n \div p = 0
      BY ONLY <3>1, <3>2, DivisionUnique
    <3>4. QED
      BY <3>3 DEF p
  <2>2. n \div 1 = n
    BY <1>1
  <2>3. L - 0 = L /\ L - L = 0 /\ Power[0] = 1
    BY <1>1, PowerIs
  <2>4. QED
    BY <2>1, <2>2, <2>3 DEF q
<1>9. ASSUME NEW i \in Nat, i + 1 <= L
      PROVE  q(i + 1) = q(i) * Base + (q(i + 1) % Base)
  <2>1. L - i \in 1..L /\ (L - i) - 1 = L - (i + 1) /\ i + 1 \in 0..L
    BY <1>1, <1>9
  <2>2. Power[L - i] = Base * Power[L - (i + 1)]
    BY <2>1, PowerIs
  <2>3. Power[L - (i + 1)] \in Nat \ {0}
    BY <1>1, <2>1
  <2>4. Power[L - i] = Power[L - (i + 1)] * Base
    BY <1>1, <2>2, <2>3
  <2>5. q(i) = q(i + 1) \div Base
    BY <1>1, <2>3, <2>4, DivisionTwice DEF q
  <2>6. q(i + 1) \in Nat
    BY <1>2, <2>1
  <2>7. q(i + 1) = Base * (q(i + 1) \div Base) + (q(i + 1) % Base)
    BY <1>1, <2>6, DivisionIs
  <2>8. q(i) \in Nat
    <3>1. i \in 0..L
      BY <1>1, <1>9
    <3>2. QED
      BY <1>2, <3>1
  <2>9. QED
    BY <1>1, <2>5, <2>7, <2>8
<1> DEFINE P == {i \in Nat : i <= L => f[i] = q(i)}
<1>10. 0 \in P
  BY <1>1, <1>7, <1>8 DEF Reads
<1>11. ASSUME NEW i \in Nat, i \in P PROVE i + 1 \in P
  <2> SUFFICES ASSUME i + 1 <= L PROVE f[i + 1] = q(i + 1)
    OBVIOUS
  <2>1. i + 1 \in 1..L /\ (i + 1) - 1 = i /\ f[i] = q(i)
    BY <1>1, <1>11
  <2>2. f[i + 1] = f[i] * Base + ValueOf(t[i + 1])
    BY <1>6, <1>7, <2>1 DEF Reads
  <2>3. QED
    BY <1>5, <1>9, <2>1, <2>2
<1> HIDE DEF P
<1>12. L \in P
  BY <1>1, <1>10, <1>11, SetInduction
<1>13. NumberOf(t) = n
  BY <1>1, <1>6, <1>7, <1>8, <1>12 DEF P, Reads
<1>14. QED
  BY <1>5, <1>6, <1>13 DEF t
-----------------------------------------------------------------------------
(* Parts of texts.                                                         *)

\* A part of a text is known by its symbols.
LEMMA PartIs ==
  ASSUME NEW t \in Text, NEW a \in Nat \ {0}, NEW u \in Text, a + Len(u) - 1 <= Len(t),
         \A i \in 1..Len(u) : t[a + i - 1] = u[i]
  PROVE  SubSeq(t, a, a + Len(u) - 1) = u
<1> DEFINE b == a + Len(u) - 1
           s == SubSeq(t, a, b)
<1>1. Len(t) \in Nat /\ Len(u) \in Nat /\ t \in Seq(STRING) /\ u \in Seq(STRING)
  BY LenProperties DEF Text
<1>2. b \in Nat /\ b <= Len(t) /\ (IF a <= b THEN b - a + 1 ELSE 0) = Len(u)
  BY <1>1
<1>3. s = [i \in 1..Len(u) |-> t[a + i - 1]]
  BY <1>1, <1>2
<1>4. u = [i \in 1..Len(u) |-> u[i]]
  BY <1>1
<1> HIDE DEF s
<1>5. s = u
  BY <1>3, <1>4
<1>6. QED
  BY <1>5 DEF s, b

LEMMA PartsAre ==
  ASSUME NEW t \in Text, NEW a \in Nat \ {0}, NEW b \in Nat, b <= Len(t), a <= b + 1
  PROVE  /\ SubSeq(t, a, b) \in Text /\ Len(SubSeq(t, a, b)) = b + 1 - a
         /\ \A i \in 1..(b + 1 - a) : SubSeq(t, a, b)[i] = t[a + i - 1]
<1>1. Len(t) \in Nat /\ t \in Seq(STRING) /\ \A i \in 1..Len(t) : t[i] \in STRING
  BY LenProperties, ElementOfSeq DEF Text
<1>2. SubSeq(t, a, b) = [i \in 1..(b + 1 - a) |-> t[a + i - 1]]
  BY <1>1
<1>3. \A i \in 1..(b + 1 - a) : t[a + i - 1] \in STRING
  BY <1>1
<1> DEFINE s == [i \in 1..(b + 1 - a) |-> t[a + i - 1]]
<1>4. b + 1 - a \in Nat
  OBVIOUS
<1>5. s \in Text /\ Len(s) = b + 1 - a /\ \A i \in 1..(b + 1 - a) : s[i] = t[a + i - 1]
  BY <1>3, <1>4 DEF Text
<1>6. QED
  BY <1>2, <1>5

\* Where a symbol first occurs, or that it does not.
LEMMA FirstIs ==
  ASSUME NEW t \in Text, NEW x, NEW i \in 1..Len(t), t[i] = x, \A j \in 1..(i - 1) : t[j] # x
  PROVE  FirstOf(x, t) = i
<1> DEFINE at == {j \in DOMAIN t : t[j] = x}
<1>1. Len(t) \in Nat /\ DOMAIN t = 1..Len(t)
  BY LenProperties DEF Text
<1>2. i \in at /\ at \subseteq Nat /\ \A j \in at : i <= j
  BY <1>1
<1>3. FirstOf(x, t) = Min(at)
  BY <1>2 DEF FirstOf
<1> HIDE DEF at
<1>4. Min(at) \in at /\ \A j \in at : Min(at) <= j
  BY <1>2 DEF Min
<1> DEFINE m == Min(at)
<1>5. m \in Nat /\ i \in Nat /\ i <= m /\ m <= i /\ FirstOf(x, t) = m
  BY <1>2, <1>3, <1>4
<1> HIDE DEF m
<1>6. QED
  BY ONLY <1>5

LEMMA FirstNone ==
  ASSUME NEW t \in Text, NEW x, \A j \in 1..Len(t) : t[j] # x
  PROVE  FirstOf(x, t) = 0
<1>1. DOMAIN t = 1..Len(t)
  BY LenProperties DEF Text
<1>2. QED
  BY <1>1 DEF FirstOf

LEMMA FirstFound ==
  ASSUME NEW t \in Text, NEW x
  PROVE  /\ FirstOf(x, t) \in 0..Len(t)
         /\ FirstOf(x, t) # 0 => t[FirstOf(x, t)] = x /\ \A j \in 1..(FirstOf(x, t) - 1) : t[j] # x
         /\ FirstOf(x, t) = 0 => \A j \in 1..Len(t) : t[j] # x
<1> DEFINE at == {j \in DOMAIN t : t[j] = x}
<1>1. Len(t) \in Nat /\ DOMAIN t = 1..Len(t) /\ at \subseteq Nat
  BY LenProperties DEF Text
<1>2. CASE at = {}
  <2>1. FirstOf(x, t) = 0
    BY <1>2 DEF FirstOf
  <2>2. QED
    BY <1>1, <1>2, <2>1
<1>3. CASE at # {}
  <2>1. PICK n \in at : \A m \in at : n <= m
    <3> HIDE DEF at
    <3>1. QED
      BY <1>1, <1>3, LeastOf
  <2>2. FirstOf(x, t) = n
    BY <1>1, <2>1, FirstIs
  <2>3. QED
    BY <1>1, <2>1, <2>2
<1>4. QED
  BY <1>2, <1>3

\* One text after the other.
LEMMA JoinedIs ==
  ASSUME NEW s \in Text, NEW t \in Text
  PROVE  /\ s \o t \in Text /\ Len(s \o t) = Len(s) + Len(t)
         /\ \A i \in 1..Len(s) : (s \o t)[i] = s[i]
         /\ \A i \in 1..Len(t) : (s \o t)[Len(s) + i] = t[i]
<1>1. Len(s) \in Nat /\ Len(t) \in Nat /\ s \in Seq(STRING) /\ t \in Seq(STRING)
  BY LenProperties DEF Text
<1>2. s \o t \in Text /\ Len(s \o t) = Len(s) + Len(t)
      /\ \A i \in 1..(Len(s) + Len(t)) : (s \o t)[i] = IF i <= Len(s) THEN s[i] ELSE t[i - Len(s)]
  BY <1>1, ConcatProperties DEF Text
<1>3. ASSUME NEW i \in 1..Len(t) PROVE (s \o t)[Len(s) + i] = t[i]
  <2>1. Len(s) + i \in 1..(Len(s) + Len(t)) /\ ~(Len(s) + i <= Len(s)) /\ (Len(s) + i) - Len(s) = i
    BY <1>1
  <2>2. QED
    BY <1>2, <2>1
<1>4. QED
  BY <1>1, <1>2, <1>3

LEMMA OneSymbol ==
  ASSUME NEW x \in STRING
  PROVE  <<x>> \in Text /\ Len(<<x>>) = 1 /\ <<x>>[1] = x
<1>1. ASSUME NEW S, NEW y \in S PROVE <<y>> \in Seq(S)
  OBVIOUS
<1>2. <<x>> \in Seq(STRING)
  BY ONLY <1>1, x \in STRING
<1>3. QED
  BY <1>2 DEF Text
LEMMA LongerIs ==
  ASSUME NEW s \in Text, NEW x \in STRING
  PROVE  /\ s \o <<x>> \in Text /\ Len(s \o <<x>>) = Len(s) + 1 /\ (s \o <<x>>)[Len(s) + 1] = x
         /\ \A i \in 1..Len(s) : (s \o <<x>>)[i] = s[i]
<1> DEFINE t == <<x>>
<1>1. t \in Text /\ Len(t) = 1 /\ t[1] = x
  BY OneSymbol
<1> HIDE DEF t
<1>2. 1 \in 1..Len(t)
  BY <1>1
<1>3. /\ s \o t \in Text /\ Len(s \o t) = Len(s) + Len(t)
      /\ \A i \in 1..Len(s) : (s \o t)[i] = s[i]
      /\ \A i \in 1..Len(t) : (s \o t)[Len(s) + i] = t[i]
  BY <1>1, JoinedIs
<1>4. (s \o t)[Len(s) + 1] = t[1]
  BY ONLY <1>2, <1>3
<1>5. QED
  BY <1>1, <1>3, <1>4 DEF t

-----------------------------------------------------------------------------
(* Packets.                                                                *)

\* What stands where in a packet: the length field begins after `at` symbols, the body
\* after `start`, and the payload after `head`.
At1       == Len(ProtocolId) + Len(Version) + 1
Start     == At1 + LengthDigits
HeadLen(name) == Start + 1 + Len(name) + 1
Encoded(e, name, payload) ==
  /\ e \in Text /\ Len(e) = HeadLen(name) + Len(payload) + 1
  /\ \A j \in 1..Len(ProtocolId) : e[j] = ProtocolId[j]
  /\ \A j \in 1..Len(Version) : e[Len(ProtocolId) + j] = Version[j]
  /\ e[At1] = SEP
  /\ \A j \in 1..LengthDigits : e[At1 + j] = LengthField(Len(e))[j]
  /\ e[Start + 1] = SEP
  /\ \A j \in 1..Len(name) : e[Start + 1 + j] = name[j]
  /\ e[HeadLen(name)] = NL
  /\ \A j \in 1..Len(payload) : e[HeadLen(name) + j] = payload[j]
  /\ e[Len(e)] = NL

LEMMA EncodedIs ==
  ASSUME NEW name \in Text, NEW payload \in Text, Overhead(name) + Len(payload) <= MaxPacket
  PROVE  /\ Encoded(EncodeOne(name, payload), name, payload)
         /\ Len(EncodeOne(name, payload)) = Overhead(name) + Len(payload)
         /\ Len(EncodeOne(name, payload)) \in 0..MaxPacket
<1> DEFINE n == Overhead(name) + Len(payload)
           field == LengthField(n)
<1>1. /\ Len(ProtocolId) \in Nat /\ Len(Version) \in Nat /\ LengthDigits \in Nat
      /\ Len(name) \in Nat /\ Len(payload) \in Nat
      /\ ProtocolId \in Text /\ Version \in Text /\ SEP \in STRING /\ NL \in STRING
  BY LenProperties, ProtocolFormat DEF Text
<1>2. n = HeadLen(name) + Len(payload) + 1 /\ n \in Nat /\ MaxPacket \in Nat
  <2>1. LengthDigits \in 0..LengthDigits
    BY <1>1
  <2>2. QED
    BY <1>1, <2>1, PowerIs DEF Overhead, HeadLen, Start, At1, MaxPacket
<1>3. field \in Text /\ Len(field) = LengthDigits
  BY <1>2, LengthFieldIs
<1>4. <<SEP>> \in Text /\ Len(<<SEP>>) = 1 /\ <<SEP>>[1] = SEP
      /\ <<NL>> \in Text /\ Len(<<NL>>) = 1 /\ <<NL>>[1] = NL
  BY <1>1, OneSymbol
<1> DEFINE a == ProtocolId \o Version
           b == a \o <<SEP>>
           c == b \o field
           d == c \o <<SEP>>
           e == d \o name
           f == e \o <<NL>>
           g == f \o payload
           h == g \o <<NL>>
<1>5. EncodeOne(name, payload) = h
  BY DEF EncodeOne
<1> HIDE DEF n, field
<1>a. /\ a \in Text /\ Len(a) = Len(ProtocolId) + Len(Version)
      /\ \A j \in 1..Len(ProtocolId) : a[j] = ProtocolId[j]
      /\ \A j \in 1..Len(Version) : a[Len(ProtocolId) + j] = Version[j]
  BY <1>1, JoinedIs
<1> HIDE DEF a
<1>6. /\ At1 = Len(ProtocolId) + Len(Version) + 1 /\ At1 \in Nat /\ Start = At1 + LengthDigits
      /\ Start \in Nat /\ HeadLen(name) = Start + 1 + Len(name) + 1 /\ HeadLen(name) \in Nat
  BY <1>1 DEF At1, Start, HeadLen
<1>b. /\ b \in Text /\ Len(b) = At1 /\ b[At1] = SEP /\ \A j \in 1..Len(a) : b[j] = a[j]
  <2>1. Len(a) + 1 = At1
    BY <1>1, <1>6, <1>a
  <2>2. QED
    BY <1>1, <1>a, <2>1, LongerIs
<1> HIDE DEF b
<1>c. /\ c \in Text /\ Len(c) = Start /\ \A j \in 1..LengthDigits : c[At1 + j] = field[j]
      /\ \A j \in 1..At1 : c[j] = b[j]
  <2>1. Len(b) + Len(field) = Start
    BY <1>3, <1>6, <1>b
  <2>2. QED
    BY <1>3, <1>b, <2>1, JoinedIs
<1> HIDE DEF c
<1>d. /\ d \in Text /\ Len(d) = Start + 1 /\ d[Start + 1] = SEP /\ \A j \in 1..Start : d[j] = c[j]
  BY <1>1, <1>c, LongerIs
<1> HIDE DEF d
<1>e. /\ e \in Text /\ Len(e) = Start + 1 + Len(name)
      /\ \A j \in 1..Len(name) : e[Start + 1 + j] = name[j]
      /\ \A j \in 1..(Start + 1) : e[j] = d[j]
  <2>1. /\ d \o name \in Text /\ Len(d \o name) = Len(d) + Len(name)
        /\ \A i \in 1..Len(d) : (d \o name)[i] = d[i]
        /\ \A i \in 1..Len(name) : (d \o name)[Len(d) + i] = name[i]
    BY <1>d, JoinedIs
  <2>2. QED
    BY <1>d, <2>1
<1> HIDE DEF e
<1>f. /\ f \in Text /\ Len(f) = HeadLen(name) /\ f[HeadLen(name)] = NL
      /\ \A j \in 1..(Start + 1 + Len(name)) : f[j] = e[j]
  <2>1. Len(e) + 1 = HeadLen(name)
    BY <1>1, <1>6, <1>e
  <2>2. /\ f \in Text /\ Len(f) = Len(e) + 1 /\ f[Len(e) + 1] = NL
        /\ \A i \in 1..Len(e) : f[i] = e[i]
    BY <1>1, <1>e, LongerIs
  <2>3. QED
    BY <1>e, <2>1, <2>2
<1> HIDE DEF f
<1>g. /\ g \in Text /\ Len(g) = HeadLen(name) + Len(payload)
      /\ \A j \in 1..Len(payload) : g[HeadLen(name) + j] = payload[j]
      /\ \A j \in 1..HeadLen(name) : g[j] = f[j]
  <2>1. /\ f \o payload \in Text /\ Len(f \o payload) = Len(f) + Len(payload)
        /\ \A i \in 1..Len(f) : (f \o payload)[i] = f[i]
        /\ \A i \in 1..Len(payload) : (f \o payload)[Len(f) + i] = payload[i]
    BY <1>f, JoinedIs
  <2>2. QED
    BY <1>f, <2>1
<1> HIDE DEF g
<1>h. /\ h \in Text /\ Len(h) = n /\ h[n] = NL
      /\ \A j \in 1..(HeadLen(name) + Len(payload)) : h[j] = g[j]
  <2>1. Len(g) + 1 = n
    BY <1>2, <1>g
  <2>2. /\ h \in Text /\ Len(h) = Len(g) + 1 /\ h[Len(g) + 1] = NL
        /\ \A i \in 1..Len(g) : h[i] = g[i]
    BY <1>1, <1>g, LongerIs
  <2>3. QED
    BY <1>g, <2>1, <2>2
<1> HIDE DEF h
<1>7. \A j \in 1..HeadLen(name) : h[j] = f[j]
  BY <1>1, <1>6, <1>g, <1>h
<1>8. \A j \in 1..(Start + 1) : h[j] = d[j]
  BY <1>1, <1>6, <1>7, <1>f, <1>e
<1>9. \A j \in 1..Start : h[j] = c[j]
  BY <1>1, <1>6, <1>8, <1>d
<1>10. \A j \in 1..At1 : h[j] = b[j]
  BY <1>1, <1>6, <1>9, <1>c
<1>11. \A j \in 1..Len(a) : h[j] = a[j]
  BY <1>1, <1>6, <1>10, <1>a, <1>b
<1>12. (\A j \in 1..Len(ProtocolId) : h[j] = ProtocolId[j])
       /\ \A j \in 1..Len(Version) : h[Len(ProtocolId) + j] = Version[j]
  BY <1>1, <1>11, <1>a
<1>13. h[At1] = SEP /\ h[Start + 1] = SEP /\ h[HeadLen(name)] = NL
  <2>1. At1 \in 1..At1 /\ Start + 1 \in 1..(Start + 1) /\ HeadLen(name) \in 1..HeadLen(name)
    BY <1>1, <1>6
  <2>2. QED
    BY <2>1, <1>7, <1>8, <1>10, <1>b, <1>d, <1>f
<1>14. \A j \in 1..LengthDigits : h[At1 + j] = field[j]
  BY <1>1, <1>6, <1>9, <1>c
<1>15. \A j \in 1..Len(name) : h[Start + 1 + j] = name[j]
  <2>1. \A j \in 1..Len(name) : /\ Start + 1 + j \in 1..HeadLen(name)
                                /\ Start + 1 + j \in 1..(Start + 1 + Len(name))
    BY <1>1, <1>6
  <2>2. QED
    BY <2>1, <1>7, <1>e, <1>f
<1>16. \A j \in 1..Len(payload) : h[HeadLen(name) + j] = payload[j]
  BY <1>1, <1>6, <1>g, <1>h
<1>17. Encoded(h, name, payload)
  BY <1>2, <1>h, <1>12, <1>13, <1>14, <1>15, <1>16 DEF Encoded, field
<1>18. QED
  BY <1>2, <1>5, <1>17, <1>h DEF n
\* What has arrived of a packet and of what comes after it.
Comes(text, e) == \A j \in 1..Len(text) : j <= Len(e) => text[j] = e[j]

\* The version is read as itself, and its major number is a number.
LEMMA VersionIs ==
  MajorOf(Version) \in Nat
<1> DEFINE dot == FirstOf(Dot, Version)
           m   == SubSeq(Version, 1, dot - 1)
<1>1. Version \in Text /\ dot # 0 /\ IsNumber(m)
  BY ProtocolFormat DEF IsVersion
<1>2. dot \in 1..Len(Version) /\ Len(Version) \in Nat
  <2>1. Len(Version) \in Nat
    BY <1>1, LenProperties DEF Text
  <2> HIDE DEF m
  <2>2. QED
    BY <1>1, <2>1, FirstFound
<1>3. m \in Text /\ Len(m) = dot - 1
  <2> HIDE DEF dot
  <2>1. dot - 1 \in Nat /\ dot - 1 <= Len(Version) /\ 1 <= (dot - 1) + 1 /\ 1 \in Nat \ {0}
        /\ (dot - 1) + 1 - 1 = dot - 1
    BY <1>2
  <2>2. m \in Text /\ Len(m) = (dot - 1) + 1 - 1
    BY <1>1, <2>1, PartsAre
  <2>3. QED
    BY <2>1, <2>2
<1> HIDE DEF m
<1>4. \A n \in 1..Len(m) : m[n] \in Digits
  <2>1. DOMAIN m = 1..Len(m)
    BY <1>3, LenProperties DEF Text
  <2>2. QED
    BY <1>1, <2>1 DEF IsNumber, ToSet
<1>5. PICK f : Reads(m, f)
  BY <1>3, <1>4, NumberIs
<1>6. Len(m) \in 0..Len(m)
  BY <1>2, <1>3
<1>7. NumberOf(m) \in Nat
  BY <1>5, <1>6 DEF Reads
<1>8. QED
  BY <1>7 DEF MajorOf, m

\* The header up to the separator: it takes the whole of it.
LEMMA HeaderIs ==
  ASSUME NEW e, NEW name \in Text, NEW payload \in Text, Encoded(e, name, payload),
         NEW text \in Text, Comes(text, e), text # <<>>, NEW eof \in BOOLEAN
  PROVE  LET Short == IF eof THEN Bad ELSE Wait IN
         /\ Len(text) < At1 => ReadPacket(text, eof) = Short
         /\ Len(text) >= At1 => ReadPacket(text, eof) = Sized(text, At1, Short)
<1> DEFINE id    == Len(ProtocolId)
           v     == Len(Version)
           L     == Len(text)
           rest  == SubSeq(text, id + 1, L)
           sep   == FirstOf(SEP, rest)
           Short == IF eof THEN Bad ELSE Wait
<1>1. /\ id \in Nat \ {0} /\ v \in Nat /\ L \in Nat \ {0} /\ At1 = id + v + 1
      /\ Len(e) > At1 /\ Len(e) \in Nat /\ v <= MaxVersion /\ MaxVersion \in Nat
      /\ ProtocolId \in Text /\ Version \in Text
  <2>1. id \in Nat /\ v \in Nat /\ L \in Nat /\ ProtocolId \in Text /\ Version \in Text
        /\ Len(name) \in Nat /\ Len(payload) \in Nat
        /\ Len(e) = HeadLen(name) + Len(payload) + 1
    BY ProtocolFormat, LenProperties DEF Text, Encoded
  <2>2. id # 0 /\ L # 0
    <3>1. ProtocolId # <<>>
      BY ProtocolFormat
    <3>2. QED
      BY <2>1, <3>1, EmptySeq DEF Text
  <2>3. QED
    BY <2>1, <2>2, ProtocolFormat DEF HeadLen, Start, At1
<1>2. \A j \in 1..L : j <= Len(e) => text[j] = e[j]
  BY DEF Comes
<1>3. \A j \in 1..id : j <= L => text[j] = ProtocolId[j]
  BY <1>1, <1>2 DEF Encoded
<1>4. \A j \in 1..v : id + j <= L => text[id + j] = Version[j]
  BY <1>1, <1>2 DEF Encoded
<1>5. At1 <= L => text[At1] = SEP
  <2>1. At1 \in Nat \ {0} /\ e[At1] = SEP
    BY <1>1 DEF Encoded
  <2>2. QED
    BY <1>1, <1>2, <2>1
<1>6. text[1] = ProtocolId[1]
  BY <1>1, <1>3
<1>r. ReadPacket(text, eof) =
        IF text = <<>> THEN (IF eof THEN End ELSE Wait)
        ELSE IF text[1] # ProtocolId[1] THEN Bad
        ELSE IF L < id THEN Short
        ELSE IF SubSeq(text, 1, id) # ProtocolId THEN Bad
        ELSE IF sep > MaxVersion + 1 \/ (sep = 0 /\ Len(rest) > MaxVersion) THEN Bad
        ELSE IF sep = 0 THEN Short
        ELSE IF ~IsVersion(SubSeq(rest, 1, sep - 1)) THEN Bad
        ELSE IF MajorOf(SubSeq(rest, 1, sep - 1)) > MajorOf(Version) THEN Newer
        ELSE Sized(text, id + sep, Short)
  BY DEF ReadPacket
<1> HIDE DEF Short
<1>7. CASE L < id
  BY <1>1, <1>6, <1>7, <1>r DEF Short
<1>8. CASE id <= L
  <2> HIDE DEF id
  <2>a. text # <<>> /\ ~(L < id)
    BY <1>1, <1>8
  <2> USE DEF id
  <2>1. SubSeq(text, 1, id) = ProtocolId
    <3>1. 1 + id - 1 = id /\ \A j \in 1..id : text[1 + j - 1] = ProtocolId[j]
      BY <1>1, <1>3, <1>8
    <3>2. SubSeq(text, 1, 1 + id - 1) = ProtocolId
      BY <1>1, <1>8, <3>1, PartIs
    <3>3. QED
      BY <3>1, <3>2
  <2>2. rest \in Text /\ Len(rest) = L - id /\ \A j \in 1..(L - id) : rest[j] = text[id + j]
    <3>1. id + 1 \in Nat \ {0} /\ L \in Nat /\ L <= Len(text) /\ id + 1 <= L + 1
          /\ L + 1 - (id + 1) = L - id /\ \A j \in 1..(L - id) : id + 1 + j - 1 = id + j
      BY <1>1, <1>8
    <3>2. rest \in Text /\ Len(rest) = L + 1 - (id + 1)
          /\ \A j \in 1..(L + 1 - (id + 1)) : rest[j] = text[id + 1 + j - 1]
      BY <3>1, PartsAre
    <3>3. QED
      BY <3>1, <3>2
  <2>3. \A j \in 1..v : Version[j] # SEP
    <3>1. DOMAIN Version = 1..v
      BY <1>1, LenProperties DEF Text
    <3>2. QED
      BY <3>1, ProtocolFormat DEF ToSet
  <2> HIDE DEF rest
  <2>4. CASE L < At1
    <3>1. \A j \in 1..Len(rest) : rest[j] # SEP
      <4>1. \A j \in 1..(L - id) : j \in 1..v /\ id + j <= L
        BY <1>1, <2>4
      <4>2. QED
        BY <1>4, <2>2, <2>3, <4>1
    <3>2. sep = 0
      BY <2>2, <3>1, FirstNone
    <3>3. ~(Len(rest) > MaxVersion) /\ ~(0 > MaxVersion + 1)
      BY <1>1, <2>2, <2>4
    <3>4. ReadPacket(text, eof) = Short
      BY ONLY <1>6, <1>r, <2>a, <2>1, <3>2, <3>3
    <3>5. ~(L >= At1)
      BY <1>1, <2>4
    <3>6. QED
      BY <3>4, <3>5 DEF Short
  <2>5. CASE At1 <= L
    <3>1. sep = v + 1
      <4>1. v + 1 \in 1..Len(rest) /\ rest[v + 1] = SEP
        <5>1. v + 1 \in 1..(L - id) /\ id + (v + 1) = At1
          BY <1>1, <2>5
        <5>2. QED
          BY <1>5, <2>2, <2>5, <5>1
      <4>2. \A j \in 1..((v + 1) - 1) : rest[j] # SEP
        <5>1. \A j \in 1..((v + 1) - 1) : j \in 1..v /\ j \in 1..(L - id) /\ id + j <= L
          BY <1>1, <2>5
        <5>2. QED
          BY <1>4, <2>2, <2>3, <5>1
      <4>3. QED
        BY <2>2, <4>1, <4>2, FirstIs
    <3>2. SubSeq(rest, 1, sep - 1) = Version
      <4>1. 1 + v - 1 = sep - 1 /\ 1 + v - 1 <= Len(rest) /\ 1 \in Nat \ {0}
        BY <1>1, <2>2, <2>5, <3>1
      <4>2. \A j \in 1..v : rest[1 + j - 1] = Version[j]
        <5>1. \A j \in 1..v : j \in 1..(L - id) /\ id + j <= L /\ 1 + j - 1 = j
          BY <1>1, <2>5
        <5>2. QED
          BY <1>4, <2>2, <5>1
      <4>3. SubSeq(rest, 1, 1 + v - 1) = Version
        BY <1>1, <2>2, <4>1, <4>2, PartIs
      <4>4. QED
        BY <4>1, <4>3
    <3>3. /\ ~(sep > MaxVersion + 1) /\ sep # 0 /\ id + sep = At1 /\ IsVersion(Version)
          /\ ~(MajorOf(Version) > MajorOf(Version))
      BY <1>1, <3>1, ProtocolFormat, VersionIs
    <3> HIDE DEF sep
    <3>4. ReadPacket(text, eof) = Sized(text, At1, Short)
      BY ONLY <1>6, <1>r, <2>a, <2>1, <3>2, <3>3
    <3>5. ~(L < At1)
      BY <1>1, <2>5
    <3>6. QED
      BY <3>4, <3>5 DEF Short
  <2>6. At1 \in Nat
    BY <1>1
  <2>7. QED
    BY <1>1, <2>4, <2>5, <2>6
<1>9. QED
  BY <1>1, <1>7, <1>8 DEF Short
\* The body of a packet is taken apart into its name and its payload.
LEMMA BodyIs ==
  ASSUME NEW e, NEW name \in Text, NEW payload \in Text, Encoded(e, name, payload),
         NL \notin ToSet(name)
  PROVE  Body(SubSeq(e, Start + 1, Len(e)), Len(e)) = Packet(name, payload, Len(e))
<1> DEFINE b == SubSeq(e, Start + 1, Len(e))
           m == Len(name)
           p == Len(payload)
<1>1. /\ e \in Text /\ Start \in Nat /\ m \in Nat /\ p \in Nat /\ Len(e) = Start + m + p + 3
      /\ HeadLen(name) = Start + m + 2
  <2>1. m \in Nat /\ p \in Nat /\ e \in Text /\ Len(e) = HeadLen(name) + p + 1
        /\ Len(ProtocolId) \in Nat /\ Len(Version) \in Nat /\ LengthDigits \in Nat
    BY ProtocolFormat, LenProperties DEF Text, Encoded
  <2>2. QED
    BY <2>1 DEF HeadLen, Start, At1
<1>2. b \in Text /\ Len(b) = m + p + 3 /\ \A j \in 1..(m + p + 3) : b[j] = e[Start + j]
  <2>1. /\ Start + 1 \in Nat \ {0} /\ Len(e) \in Nat /\ Len(e) <= Len(e) /\ Start + 1 <= Len(e) + 1
        /\ Len(e) + 1 - (Start + 1) = m + p + 3 /\ \A j \in 1..(m + p + 3) : Start + 1 + j - 1 = Start + j
    BY <1>1
  <2>2. b \in Text /\ Len(b) = Len(e) + 1 - (Start + 1)
        /\ \A j \in 1..(Len(e) + 1 - (Start + 1)) : b[j] = e[Start + 1 + j - 1]
    BY <1>1, <2>1, PartsAre
  <2>3. QED
    BY <2>1, <2>2
<1> HIDE DEF b
<1>3. b[1] = SEP /\ b[m + 2] = NL /\ b[Len(b)] = NL
  <2>1. /\ 1 \in 1..(m + p + 3) /\ m + 2 \in 1..(m + p + 3) /\ m + p + 3 \in 1..(m + p + 3)
        /\ Start + (m + 2) = HeadLen(name) /\ Start + (m + p + 3) = Len(e)
    BY <1>1
  <2>2. QED
    BY <1>2, <2>1 DEF Encoded
<1>4. \A j \in 1..m : b[j + 1] = name[j]
  <2>1. \A j \in 1..m : j + 1 \in 1..(m + p + 3) /\ Start + (j + 1) = Start + 1 + j
    BY <1>1
  <2>2. QED
    BY <1>2, <2>1 DEF Encoded
<1>5. \A j \in 1..p : b[m + 2 + j] = payload[j]
  <2>1. \A j \in 1..p : m + 2 + j \in 1..(m + p + 3) /\ Start + (m + 2 + j) = HeadLen(name) + j
    BY <1>1
  <2>2. QED
    BY <1>2, <2>1 DEF Encoded
<1>6. FirstOf(NL, b) = m + 2
  <2>1. \A j \in 1..m : name[j] # NL
    <3>1. DOMAIN name = 1..m
      BY LenProperties DEF Text
    <3>2. QED
      BY <3>1 DEF ToSet
  <2>2. ASSUME NEW j \in 1..((m + 2) - 1) PROVE b[j] # NL
    <3>1. CASE j = 1
      BY <1>3, <3>1, ProtocolFormat
    <3>2. CASE j # 1
      <4>1. j - 1 \in 1..m /\ (j - 1) + 1 = j
        BY <1>1, <3>2
      <4>2. b[j] = name[j - 1]
        BY <1>4, <4>1
      <4>3. QED
        BY <2>1, <4>1, <4>2
    <3>3. QED
      BY <3>1, <3>2
  <2>3. m + 2 \in 1..Len(b)
    BY <1>1, <1>2
  <2>4. QED
    BY <1>2, <1>3, <2>2, <2>3, FirstIs
<1>7. SubSeq(b, 2, (m + 2) - 1) = name
  <2>1. 2 + m - 1 = (m + 2) - 1 /\ 2 + m - 1 <= Len(b) /\ \A j \in 1..m : 2 + j - 1 = j + 1
    BY <1>1, <1>2
  <2>2. 2 \in Nat \ {0} /\ \A j \in 1..m : b[2 + j - 1] = name[j]
    BY <1>4, <2>1
  <2>3. SubSeq(b, 2, 2 + m - 1) = name
    BY <1>2, <2>1, <2>2, PartIs
  <2>4. QED
    BY <2>1, <2>3
<1>8. SubSeq(b, (m + 2) + 1, Len(b) - 1) = payload
  <2>1. /\ (m + 3) + p - 1 = Len(b) - 1 /\ (m + 3) + p - 1 <= Len(b) /\ (m + 2) + 1 = m + 3
        /\ m + 3 \in Nat \ {0} /\ \A j \in 1..p : (m + 3) + j - 1 = m + 2 + j
    BY <1>1, <1>2
  <2>2. SubSeq(b, m + 3, (m + 3) + p - 1) = payload
    BY <1>2, <1>5, <2>1, PartIs
  <2>3. QED
    BY <2>1, <2>2
<1>9. m + 2 # 0 /\ m + 2 # Len(b)
  BY <1>1, <1>2
<1>10. Body(b, Len(e)) = Packet(name, payload, Len(e))
  BY <1>3, <1>6, <1>7, <1>8, <1>9 DEF Body
<1>11. QED
  BY <1>10 DEF b

\* What read_packet makes of a packet that encode_one wrote and that is coming in, and of
\* whatever follows it: nothing yet while a symbol is missing, and then just that packet.
THEOREM ReadEncoded ==
  ASSUME NEW name \in Text, NEW payload \in Text, NL \notin ToSet(name),
         Overhead(name) + Len(payload) <= MaxPacket, NEW e, e = EncodeOne(name, payload),
         NEW text \in Text, Comes(text, e), NEW eof \in BOOLEAN
  PROVE  /\ Len(text) >= Len(e) => ReadPacket(text, eof) = Packet(name, payload, Len(e))
         /\ Len(text) < Len(e) =>
              ReadPacket(text, eof) = IF ~eof THEN Wait ELSE IF text = <<>> THEN End ELSE Bad
<1> DEFINE L      == Len(text)
           Short  == IF eof THEN Bad ELSE Wait
           digits == SubSeq(text, At1 + 1, At1 + LengthDigits)
<1>1. Encoded(e, name, payload) /\ Len(e) \in 0..MaxPacket
  BY EncodedIs
<1>2. /\ L \in Nat /\ At1 \in Nat \ {0} /\ LengthDigits \in Nat \ {0} /\ Start = At1 + LengthDigits
      /\ Len(e) >= Start + 3 /\ Len(e) \in Nat /\ e \in Text
  <2>1. /\ Len(ProtocolId) \in Nat /\ Len(Version) \in Nat /\ LengthDigits \in Nat \ {0}
        /\ L \in Nat /\ Len(name) \in Nat /\ Len(payload) \in Nat
        /\ Len(e) = HeadLen(name) + Len(payload) + 1 /\ e \in Text
    BY <1>1, ProtocolFormat, LenProperties DEF Text, Encoded
  <2>2. QED
    BY <2>1 DEF HeadLen, Start, At1
<1>3. CASE text = <<>>
  <2>1. L = 0
    BY <1>3
  <2>2. ~(L >= Len(e))
    BY <1>2, <2>1
  <2>3. ReadPacket(text, eof) = IF eof THEN End ELSE Wait
    BY <1>3 DEF ReadPacket
  <2>4. QED
    BY <1>3, <2>2, <2>3
<1>4. CASE text # <<>>
  <2>1. /\ L < At1 => ReadPacket(text, eof) = Short
        /\ L >= At1 => ReadPacket(text, eof) = Sized(text, At1, Short)
    BY <1>1, <1>4, HeaderIs
  <2>2. CASE L < At1
    <3>1. ~(L >= Len(e))
      BY <1>2, <2>2 DEF Start
    <3>2. QED
      BY <1>4, <2>1, <2>2, <3>1
  <2>3. CASE L >= At1 /\ L < Start
    <3>1. ~(L >= Len(e)) /\ L < At1 + LengthDigits
      BY <1>2, <2>3
    <3>2. Sized(text, At1, Short) = Short
      BY <3>1 DEF Sized
    <3>3. QED
      BY <1>4, <2>1, <2>3, <3>1, <3>2
  <2>4. CASE L >= Start
    <3>1. digits = LengthField(Len(e))
      <4>1. LengthField(Len(e)) \in Text /\ Len(LengthField(Len(e))) = LengthDigits
        BY <1>1, LengthFieldIs
      <4>2. \A j \in 1..LengthDigits : (At1 + 1) + j - 1 = At1 + j /\ At1 + j \in 1..L /\ At1 + j <= Len(e)
        BY <1>2, <2>4
      <4>3. \A j \in 1..LengthDigits : text[At1 + j] = LengthField(Len(e))[j]
        BY <1>1, <4>2 DEF Comes, Encoded
      <4>4. At1 + 1 \in Nat \ {0} /\ (At1 + 1) + LengthDigits - 1 = At1 + LengthDigits
            /\ (At1 + 1) + LengthDigits - 1 <= L
        BY <1>2, <2>4
      <4> DEFINE f == LengthField(Len(e))
                 a == At1 + 1
      <4>5. /\ f \in Text /\ Len(f) = LengthDigits /\ a \in Nat \ {0} /\ a + Len(f) - 1 <= Len(text)
            /\ \A j \in 1..Len(f) : text[a + j - 1] = f[j]
        BY <4>1, <4>2, <4>3, <4>4
      <4> HIDE DEF f, a
      <4>6. SubSeq(text, a, a + Len(f) - 1) = f
        BY <4>5, PartIs
      <4>7. QED
        BY <4>4, <4>5, <4>6 DEF f, a
    <3>2. IsNumber(digits) /\ NumberOf(digits) = Len(e)
      <4> DEFINE f == LengthField(Len(e))
      <4>1. f \in Text /\ Len(f) = LengthDigits /\ NumberOf(f) = Len(e)
            /\ \A j \in 1..LengthDigits : f[j] \in Digits
        BY <1>1, LengthFieldIs
      <4> HIDE DEF f
      <4>2. f # <<>> /\ DOMAIN f = 1..LengthDigits
        BY <1>2, <4>1, LenProperties DEF Text
      <4>3. IsNumber(f)
        BY <4>1, <4>2 DEF IsNumber, ToSet
      <4>4. QED
        BY <3>1, <4>1, <4>3 DEF f
    <3>3. Sized(text, At1, Short) =
            IF L < Start THEN Short
            ELSE IF ~IsNumber(digits) \/ NumberOf(digits) < Start + 3 THEN Bad
            ELSE IF L < NumberOf(digits) THEN Short
            ELSE Body(SubSeq(text, Start + 1, NumberOf(digits)), NumberOf(digits))
      BY DEF Sized, Start
    <3> HIDE DEF digits, Short
    <3>4. Sized(text, At1, Short) = IF L < Len(e) THEN Short ELSE Body(SubSeq(text, Start + 1, Len(e)), Len(e))
      <4>1. ~(L < Start) /\ ~(Len(e) < Start + 3)
        BY <1>2, <2>4
      <4>2. QED
        BY ONLY <3>2, <3>3, <4>1
    <3>5. L >= At1
      BY <1>2, <2>4
    <3>6. CASE L < Len(e)
      <4>1. ~(L >= Len(e))
        BY <1>2, <3>6
      <4>2. QED
        BY <1>4, <2>1, <3>4, <3>5, <3>6, <4>1 DEF Short
    <3>7. CASE L >= Len(e)
      <4>1. ~(L < Len(e))
        BY <1>2, <3>7
      <4>2. SubSeq(text, Start + 1, Len(e)) = SubSeq(e, Start + 1, Len(e))
        <5> DEFINE u == SubSeq(e, Start + 1, Len(e))
                   a == Start + 1
        <5>1. /\ a \in Nat \ {0} /\ Len(e) \in Nat /\ Len(e) <= Len(e) /\ a <= Len(e) + 1
              /\ a + (Len(e) + 1 - a) - 1 = Len(e)
              /\ \A j \in 1..(Len(e) + 1 - a) : a + j - 1 \in 1..L /\ a + j - 1 <= Len(e)
          BY <1>2, <3>7
        <5> HIDE DEF a
        <5>2. u \in Text /\ Len(u) = Len(e) + 1 - a /\ \A j \in 1..(Len(e) + 1 - a) : u[j] = e[a + j - 1]
          BY <1>2, <5>1, PartsAre DEF a
        <5>3. \A j \in 1..Len(u) : text[a + j - 1] = u[j]
          BY <5>1, <5>2 DEF Comes
        <5> HIDE DEF u
        <5>4. a + Len(u) - 1 = Len(e)
          BY <5>1, <5>2
        <5>5. a + Len(u) - 1 <= Len(text)
          BY <5>4, <3>7, <1>2
        <5>6. SubSeq(text, a, a + Len(u) - 1) = u
          BY <5>1, <5>2, <5>3, <5>5, PartIs
        <5>7. QED
          BY <5>4, <5>6 DEF u, a
      <4>3. Body(SubSeq(e, Start + 1, Len(e)), Len(e)) = Packet(name, payload, Len(e))
        BY <1>1, BodyIs
      <4>4. QED
        BY <2>1, <3>4, <3>5, <4>1, <4>2, <4>3
    <3>8. QED
      BY <1>2, <3>6, <3>7
  <2>5. QED
    BY <1>2, <2>2, <2>3, <2>4
<1>5. QED
  BY <1>3, <1>4
\* Whatever is read, a packet that is found has arrived whole.
LEMMA ReadTyped ==
  ASSUME NEW text \in Text, NEW eof \in BOOLEAN
  PROVE  /\ ReadPacket(text, eof).kind \in {"wait", "end", "bad", "newer", "panic", "packet"}
         /\ ReadPacket(text, eof).kind = "packet" =>
              /\ ReadPacket(text, eof).size \in 1..Len(text)
              /\ ReadPacket(text, eof).stream \in Text /\ ReadPacket(text, eof).payload \in Text
<1> DEFINE Kinds == {"wait", "end", "bad", "newer", "panic"}
           Short == IF eof THEN Bad ELSE Wait
           Fine(r) == \/ r \in {Wait, End, Bad, Newer, Broken}
                      \/ \E s, p \in Text, n \in 1..Len(text) : r = Packet(s, p, n)
<1>1. Len(text) \in Nat /\ LengthDigits \in Nat /\ Len(ProtocolId) \in Nat
  BY LenProperties, ProtocolFormat DEF Text
<1>2. ASSUME NEW n \in Nat \ {0} PROVE SubSeq(text, n, Len(text)) \in Text
  BY <1>1 DEF Text
<1>3. ASSUME NEW b \in Text, NEW n \in 1..Len(text) PROVE Fine(Body(b, n))
  <2> DEFINE he == FirstOf(NL, b)
  <2>1. he \in 0..Len(b) /\ Len(b) \in Nat
    BY FirstFound, LenProperties DEF Text
  <2>2. SubSeq(b, 2, he - 1) \in Text /\ SubSeq(b, he + 1, Len(b) - 1) \in Text
    <3> HIDE DEF he
    <3>1. \A x, y \in Int : x \in Nat \ {0} /\ y <= Len(b) => SubSeq(b, x, y) \in Text
      BY <2>1 DEF Text
    <3>2. QED
      BY <2>1, <3>1
  <2> HIDE DEF he
  <2>3. Body(b, n) \in {Bad, Broken, Packet(SubSeq(b, 2, he - 1), SubSeq(b, he + 1, Len(b) - 1), n)}
    BY DEF Body, he
  <2>4. QED
    BY <2>2, <2>3
<1>4. ASSUME NEW at \in Nat PROVE Fine(Sized(text, at, Short))
  <2> DEFINE digits == SubSeq(text, at + 1, at + LengthDigits)
             start  == at + LengthDigits
             total  == NumberOf(digits)
  <2>1. Sized(text, at, Short) =
          IF Len(text) < start THEN Short
          ELSE IF ~IsNumber(digits) \/ total < start + 3 THEN Bad
          ELSE IF Len(text) < total THEN Short
          ELSE Body(SubSeq(text, start + 1, total), total)
    BY DEF Sized
  <2>2. Fine(Short)
    OBVIOUS
  <2>3. CASE Len(text) >= start /\ IsNumber(digits)
    <3>1. digits \in Text /\ Len(digits) = LengthDigits
      <4>1. at + 1 \in Nat \ {0} /\ start \in Nat /\ start <= Len(text) /\ at + 1 <= start + 1
            /\ start + 1 - (at + 1) = LengthDigits
        BY <1>1, <2>3
      <4>2. QED
        BY <4>1, PartsAre
    <3> HIDE DEF digits
    <3>2. \A n \in 1..Len(digits) : digits[n] \in Digits
      <4>1. DOMAIN digits = 1..Len(digits)
        BY <3>1, LenProperties DEF Text
      <4>2. QED
        BY <2>3, <4>1 DEF IsNumber, ToSet
    <3>3. total \in Nat
      <4>1. PICK f : Reads(digits, f)
        BY <3>1, <3>2, NumberIs
      <4>2. Len(digits) \in 0..Len(digits)
        BY <1>1, <3>1
      <4>3. QED
        BY <4>1, <4>2 DEF Reads
    <3> HIDE DEF total
    <3>4. CASE ~(total < start + 3) /\ ~(Len(text) < total)
      <4>1. total \in 1..Len(text) /\ start + 1 \in Nat \ {0} /\ total <= Len(text) /\ start + 1 <= total + 1
        BY <1>1, <3>3, <3>4
      <4>2. SubSeq(text, start + 1, total) \in Text
        BY <3>3, <4>1, PartsAre
      <4>3. Fine(Body(SubSeq(text, start + 1, total), total))
        BY <1>3, <4>1, <4>2
      <4>4. Sized(text, at, Short) = Body(SubSeq(text, start + 1, total), total)
        <5>1. ~(Len(text) < start)
          BY <1>1, <2>3
        <5>2. QED
          BY <2>1, <2>3, <3>4, <5>1
      <4>5. QED
        BY <4>3, <4>4
    <3>5. CASE total < start + 3 \/ Len(text) < total
      <4>1. Sized(text, at, Short) \in {Short, Bad}
        BY <2>1, <3>5
      <4>2. QED
        BY <2>2, <4>1
    <3>6. QED
      BY <3>4, <3>5
  <2>4. CASE ~(Len(text) >= start /\ IsNumber(digits))
    <3>1. start \in Nat
      BY <1>1
    <3> HIDE DEF digits, start
    <3>2. Len(text) < start \/ ~IsNumber(digits)
      BY <1>1, <2>4, <3>1
    <3>3. Sized(text, at, Short) \in {Short, Bad}
      BY <2>1, <3>2
    <3>4. QED
      BY <2>2, <3>3
  <2>5. QED
    BY <2>3, <2>4
<1> DEFINE rest == SubSeq(text, Len(ProtocolId) + 1, Len(text))
           sep  == FirstOf(SEP, rest)
<1>5. Len(ProtocolId) + sep \in Nat
  <2>1. rest \in Text
    BY <1>1, <1>2
  <2> HIDE DEF rest
  <2>2. Len(rest) \in Nat /\ sep \in 0..Len(rest)
    BY <2>1, FirstFound, LenProperties DEF Text
  <2>3. QED
    BY <1>1, <2>2
<1>6. Fine(Sized(text, Len(ProtocolId) + sep, Short))
  BY <1>4, <1>5
<1>7. ReadPacket(text, eof) \in {Wait, End, Bad, Newer, Sized(text, Len(ProtocolId) + sep, Short)}
  BY DEF ReadPacket
<1> HIDE DEF rest, sep, Short
<1>8. Fine(ReadPacket(text, eof))
  BY <1>6, <1>7
<1> DEFINE r == ReadPacket(text, eof)
<1> HIDE DEF r
<1>9. CASE r \in {Wait, End, Bad, Newer, Broken}
  <2>1. r.kind \in Kinds
    BY <1>9 DEF Wait, End, Bad, Newer, Broken
  <2>2. QED
    BY <2>1 DEF r
<1>10. ASSUME NEW s \in Text, NEW p \in Text, NEW n \in 1..Len(text), r = Packet(s, p, n)
       PROVE  r.kind = "packet" /\ r.size \in 1..Len(text) /\ r.stream \in Text /\ r.payload \in Text
  BY <1>10 DEF Packet
<1>11. QED
  BY <1>8, <1>9, <1>10 DEF r
-----------------------------------------------------------------------------
(* Texts that are written one after the other.                             *)

\* What has been written after so many of them.
Through(seqs, f) ==
  /\ f \in [0..Len(seqs) -> Text] /\ f[0] = <<>>
  /\ \A n \in 1..Len(seqs) : f[n] = f[n - 1] \o seqs[n]
  /\ FlattenSeq(seqs) = f[Len(seqs)]

\* It does not depend on what comes later.
LEMMA ThroughPrefix ==
  ASSUME NEW seqs \in Seq(Text), NEW f, Through(seqs, f),
         NEW n \in 0..Len(seqs), NEW first \in Seq(Text), Len(first) = n,
         \A i \in 1..n : first[i] = seqs[i]
  PROVE  FlattenSeq(first) = f[n]
<1>1. PICK g \in [0..Len(first) -> Seq(STRING)] :
        /\ g[0] = <<>> /\ \A i \in 1..Len(first) : g[i] = g[i - 1] \o first[i]
        /\ FlattenSeq(first) = g[Len(first)]
  BY FlattenIs DEF Text
<1>2. n \in Nat /\ n <= Len(seqs) /\ Len(seqs) \in Nat
  BY LenProperties
<1> DEFINE P == {i \in Nat : i <= n => g[i] = f[i]}
<1>3. 0 \in P
  BY <1>1 DEF Through
<1>4. ASSUME NEW i \in Nat, i \in P PROVE i + 1 \in P
  <2> SUFFICES ASSUME i + 1 <= n PROVE g[i + 1] = f[i + 1]
    OBVIOUS
  <2>1. i + 1 \in 1..n /\ i + 1 \in 1..Len(seqs) /\ i + 1 \in 1..Len(first) /\ (i + 1) - 1 = i /\ g[i] = f[i]
    BY <1>2, <1>4
  <2>2. g[i + 1] = g[i] \o first[i + 1]
    BY <1>1, <2>1
  <2>3. f[i + 1] = f[i] \o seqs[i + 1]
    BY <2>1 DEF Through
  <2>4. QED
    BY <2>1, <2>2, <2>3
<1> HIDE DEF P
<1>5. n \in P
  BY <1>2, <1>3, <1>4, SetInduction
<1>6. QED
  BY <1>1, <1>2, <1>5 DEF P

\* Where each of them stands in the whole.
LEMMA ThroughIs ==
  ASSUME NEW seqs \in Seq(Text)
  PROVE  \E f : /\ Through(seqs, f)
                /\ \A n \in 1..Len(seqs) : Len(f[n]) = Len(f[n - 1]) + Len(seqs[n])
                /\ \A n \in 0..Len(seqs) :
                     /\ Len(f[n]) <= Len(FlattenSeq(seqs))
                     /\ \A i \in 1..Len(f[n]) : FlattenSeq(seqs)[i] = f[n][i]
<1> DEFINE L == Len(seqs)
<1>1. PICK f \in [0..L -> Seq(STRING)] :
        /\ f[0] = <<>> /\ \A i \in 1..L : f[i] = f[i - 1] \o seqs[i]
        /\ FlattenSeq(seqs) = f[L]
  BY FlattenIs DEF Text
<1>2. L \in Nat /\ \A i \in 1..L : seqs[i] \in Text
  BY LenProperties, ElementOfSeq
<1>3. Through(seqs, f)
  BY <1>1 DEF Through, Text
<1>4. \A i \in 0..L : f[i] \in Text /\ Len(f[i]) \in Nat
  BY <1>1, LenProperties DEF Text
<1>5. ASSUME NEW i \in 1..L
      PROVE  Len(f[i]) = Len(f[i - 1]) + Len(seqs[i]) /\ \A j \in 1..Len(f[i - 1]) : f[i][j] = f[i - 1][j]
  <2>1. i - 1 \in 0..L
    BY <1>2
  <2> DEFINE a == f[i - 1]
             b == seqs[i]
             c == f[i]
  <2>2. a \in Text /\ b \in Text /\ c = a \o b
    BY <1>1, <1>2, <1>4, <2>1
  <2> HIDE DEF a, b, c
  <2>3. Len(c) = Len(a) + Len(b) /\ \A j \in 1..Len(a) : c[j] = a[j]
    BY <2>2, JoinedIs
  <2>4. QED
    BY <2>3 DEF a, b, c
<1> DEFINE Fits(n) == Len(f[n]) <= Len(f[L]) /\ \A j \in 1..Len(f[n]) : f[L][j] = f[n][j]
           P == {d \in Nat : d <= L => Fits(L - d)}
<1>6. 0 \in P
  BY <1>2, <1>4
<1>7. ASSUME NEW d \in Nat, d \in P PROVE d + 1 \in P
  <2> SUFFICES ASSUME d + 1 <= L PROVE Fits(L - (d + 1))
    OBVIOUS
  <2> DEFINE i == L - d
  <2>1. i \in 1..L /\ i - 1 = L - (d + 1) /\ i - 1 \in 0..L /\ i \in 0..L /\ L \in 0..L /\ Fits(i)
    BY <1>2, <1>7
  <2> HIDE DEF i
  <2>2. Len(f[i]) = Len(f[i - 1]) + Len(seqs[i]) /\ \A j \in 1..Len(f[i - 1]) : f[i][j] = f[i - 1][j]
    BY <1>5, <2>1
  <2>3. Len(f[i]) \in Nat /\ Len(f[i - 1]) \in Nat /\ Len(f[L]) \in Nat /\ Len(seqs[i]) \in Nat
    <3>1. seqs[i] \in Text
      BY <1>2, <2>1
    <3>2. Len(seqs[i]) \in Nat
      BY <3>1, LenProperties DEF Text
    <3>3. QED
      BY <1>4, <2>1, <3>2
  <2>4. Len(f[i - 1]) <= Len(f[i])
    <3> DEFINE x == Len(f[i])
               y == Len(f[i - 1])
               z == Len(seqs[i])
    <3>1. x \in Nat /\ y \in Nat /\ z \in Nat /\ x = y + z
      BY <2>2, <2>3
    <3> HIDE DEF x, y, z
    <3>2. y <= x
      BY ONLY <3>1
    <3>3. QED
      BY <3>2 DEF x, y
  <2>5. Len(f[i - 1]) <= Len(f[L])
    BY <2>1, <2>3, <2>4
  <2>6. \A j \in 1..Len(f[i - 1]) : j \in 1..Len(f[i])
    BY <2>3, <2>4
  <2>7. \A j \in 1..Len(f[i - 1]) : f[L][j] = f[i - 1][j]
    BY <2>1, <2>2, <2>6
  <2>8. Fits(i - 1)
    BY <2>5, <2>7
  <2>9. QED
    BY <2>1, <2>8
<1> HIDE DEF P
<1>8. Nat \subseteq P
  BY <1>6, <1>7, SetInduction
<1>9. ASSUME NEW n \in 0..L PROVE Fits(n)
  <2>1. L - n \in Nat /\ L - n <= L /\ L - (L - n) = n
    BY <1>2
  <2>2. L - n \in P
    BY <1>8, <2>1
  <2>3. QED
    BY <2>1, <2>2 DEF P
<1>10. QED
  BY <1>1, <1>3, <1>5, <1>9

\* The end of the stream is found only where nothing is left of it.
LEMMA EndIs ==
  ASSUME NEW text, NEW eof \in BOOLEAN, ReadPacket(text, eof).kind = "end"
  PROVE  text = <<>> /\ eof
<1> DEFINE Short == IF eof THEN Bad ELSE Wait
           id    == Len(ProtocolId)
           rest  == SubSeq(text, id + 1, Len(text))
           sep   == FirstOf(SEP, rest)
           r     == ReadPacket(text, eof)
<1>1. Short.kind # "end" /\ Bad.kind # "end" /\ Wait.kind # "end" /\ Newer.kind # "end"
      /\ Broken.kind # "end" /\ \A name, payload, size : Packet(name, payload, size).kind # "end"
  BY DEF Bad, Wait, Newer, Broken, Packet
<1>2. \A body, size : Body(body, size).kind # "end"
  BY <1>1 DEF Body
<1> HIDE DEF Short
<1>3. Sized(text, id + sep, Short).kind # "end"
  BY <1>1, <1>2 DEF Sized
<1>4. CASE text # <<>>
  <2>1. r \in {Bad, Short, Newer, Sized(text, id + sep, Short)}
    BY <1>4 DEF ReadPacket, Short
  <2> HIDE DEF r
  <2>2. QED
    BY <1>1, <1>3, <2>1 DEF r
<1>5. CASE text = <<>>
  BY <1>1, <1>5 DEF ReadPacket
<1>6. QED
  BY <1>4, <1>5

-----------------------------------------------------------------------------
(* Payloads in pieces.                                                     *)

LEMMA PiecesAre ==
  ASSUME NEW name \in Text, NEW payload \in Text, Overhead(name) < MaxPacket
  PROVE  LET pieces == Pieces(name, payload)
             c(k)   == CutAt(name, payload, k)
         IN /\ pieces \in Seq(Text) /\ Len(pieces) \in Nat \ {0}
            /\ c(0) = 0 /\ c(Len(pieces)) = Len(payload)
            /\ \A k \in 0..Len(pieces) : c(k) \in 0..Len(payload)
            /\ \A k \in 1..Len(pieces) :
                 /\ c(k - 1) <= c(k) /\ pieces[k] = SubSeq(payload, c(k - 1) + 1, c(k))
                 /\ pieces[k] \in Text /\ Len(pieces[k]) = c(k) - c(k - 1)
                 /\ Overhead(name) + Len(pieces[k]) <= MaxPacket
<1> DEFINE pieces == Pieces(name, payload)
           cap    == MaxPayload(name)
           n      == Len(payload)
           o      == Overhead(name)
           c(k)   == CutAt(name, payload, k)
<1>1. /\ n \in Nat /\ o \in Nat /\ MaxPacket \in Nat /\ cap \in Nat \ {0} /\ cap = MaxPacket - o
  <2>1. LengthDigits \in 0..LengthDigits /\ LengthDigits \in Nat
    BY ProtocolFormat
  <2>2. MaxPacket \in Nat
    BY <2>1, PowerIs DEF MaxPacket
  <2>3. Len(name) \in Nat /\ n \in Nat /\ Len(ProtocolId) \in Nat /\ Len(Version) \in Nat
    BY LenProperties, ProtocolFormat DEF Text
  <2>4. o \in Nat
    BY <2>1, <2>3 DEF Overhead
  <2>5. QED
    BY <2>2, <2>3, <2>4 DEF MaxPayload
<1>2. \A k \in Nat : c(k) = IF k * cap <= n THEN k * cap ELSE n
  BY DEF CutAt
<1>3. payload = <<>> => n = 0
  OBVIOUS
<1>4. payload # <<>> => n # 0
  BY EmptySeq DEF Text
<1>5. pieces = IF payload = <<>> THEN <<<<>>>>
               ELSE [k \in 1..((n + cap - 1) \div cap) |->
                       SubSeq(payload, (k - 1) * cap + 1, IF k * cap < n THEN k * cap ELSE n)]
  BY DEF Pieces
<1> HIDE DEF pieces, cap, n, o, c
<1>6. ASSUME NEW k \in Nat
      PROVE  /\ c(k) \in 0..n /\ c(k) <= c(k + 1) /\ c(k + 1) - c(k) <= cap
             /\ c(k + 1) = IF (k + 1) * cap < n THEN (k + 1) * cap ELSE n
             /\ k * cap <= n => c(k) = k * cap
  <2>1. (k + 1) * cap = k * cap + cap /\ k * cap \in Nat /\ k + 1 \in Nat
    BY <1>1
  <2>2. c(k) = (IF k * cap <= n THEN k * cap ELSE n) /\ c(k + 1) = IF (k + 1) * cap <= n THEN (k + 1) * cap ELSE n
    BY <1>2, <2>1
  <2> DEFINE x == k * cap
             y == (k + 1) * cap
  <2>3. x \in Nat /\ y = x + cap /\ c(k) = (IF x <= n THEN x ELSE n) /\ c(k + 1) = IF y <= n THEN y ELSE n
    BY <2>1, <2>2
  <2> HIDE DEF x, y
  <2>4. /\ c(k) \in 0..n /\ c(k) <= c(k + 1) /\ c(k + 1) - c(k) <= cap
        /\ c(k + 1) = (IF y < n THEN y ELSE n) /\ (x <= n => c(k) = x)
    BY <1>1, <2>3
  <2>5. QED
    BY <2>4 DEF x, y
<1>7. c(0) = 0
  <2>1. 0 * cap = 0
    BY <1>1
  <2>2. QED
    BY <1>1, <1>2, <2>1
<1>8. \A a \in Nat, b \in Nat : a <= b /\ b <= n =>
        SubSeq(payload, a + 1, b) \in Text /\ Len(SubSeq(payload, a + 1, b)) = b - a
  <2> SUFFICES ASSUME NEW a \in Nat, NEW b \in Nat, a <= b, b <= n
               PROVE  SubSeq(payload, a + 1, b) \in Text /\ Len(SubSeq(payload, a + 1, b)) = b - a
    OBVIOUS
  <2>1. a + 1 \in Nat \ {0} /\ b <= Len(payload) /\ a + 1 <= b + 1 /\ b + 1 - (a + 1) = b - a
    BY DEF n
  <2>2. QED
    BY <2>1, PartsAre
<1>9. /\ Len(pieces) \in Nat \ {0} /\ DOMAIN pieces = 1..Len(pieces) /\ c(Len(pieces)) = n
      /\ \A k \in 1..Len(pieces) : pieces[k] = SubSeq(payload, c(k - 1) + 1, c(k))
  <2>1. CASE payload = <<>>
    <3>1. n = 0 /\ pieces = <<<<>>>>
      BY <1>3, <1>5, <2>1
    <3>2. Len(pieces) = 1 /\ DOMAIN pieces = 1..1 /\ pieces[1] = <<>>
      BY <3>1
    <3>3. c(1) = 0 /\ 1 - 1 = 0
      BY <1>6, <3>1
    <3>4. SubSeq(payload, 0 + 1, 0) = <<>>
      BY <2>1
    <3>5. ASSUME NEW k \in 1..Len(pieces) PROVE pieces[k] = SubSeq(payload, c(k - 1) + 1, c(k))
      <4>1. k = 1
        BY <3>2
      <4>2. pieces[1] = SubSeq(payload, c(1 - 1) + 1, c(1))
        BY <1>7, <3>2, <3>3, <3>4
      <4>3. QED
        BY <4>1, <4>2
    <3>6. Len(pieces) \in Nat \ {0} /\ DOMAIN pieces = 1..Len(pieces) /\ c(Len(pieces)) = n
      BY <3>1, <3>2, <3>3
    <3>7. QED
      BY <3>5, <3>6
  <2>2. CASE payload # <<>>
    <3> DEFINE m == (n + cap - 1) \div cap
    <3>1. n + cap - 1 \in Nat /\ n # 0
      BY <1>1, <1>4, <2>2
    <3>2. m \in Nat /\ (n + cap - 1) % cap \in 0..(cap - 1)
          /\ n + cap - 1 = cap * m + ((n + cap - 1) % cap)
      BY <1>1, <3>1, DivisionIs
    <3>3. pieces = [k \in 1..m |-> SubSeq(payload, (k - 1) * cap + 1, IF k * cap < n THEN k * cap ELSE n)]
      BY <1>5, <2>2
    <3> HIDE DEF m
    <3> DEFINE x == cap * m
    <3>4. x \in Nat /\ n <= x /\ x <= n + cap - 1
      BY <1>1, <3>2
    <3>5. m # 0
      BY <1>1, <3>1, <3>4
    <3>6. m * cap = x
      BY <1>1, <3>2
    <3> HIDE DEF x
    <3>7. Len(pieces) = m /\ DOMAIN pieces = 1..m
      BY <3>2, <3>3
    <3>8. c(m) = n
      BY <1>1, <1>2, <3>2, <3>4, <3>6
    <3>9. ASSUME NEW k \in 1..m PROVE pieces[k] = SubSeq(payload, c(k - 1) + 1, c(k))
      <4>1. k - 1 \in Nat /\ (k - 1) + 1 = k /\ k \in Nat /\ m \in Nat /\ k <= m
        BY <3>2
      <4>2. (k - 1) * cap <= n
        <5>1. (k - 1) * cap <= (m - 1) * cap /\ (m - 1) * cap = m * cap - cap
          BY <1>1, <3>5, <4>1
        <5>2. m * cap - cap <= n - 1
          BY <1>1, <3>4, <3>6
        <5> DEFINE y == (k - 1) * cap
                   z == m * cap
        <5>3. y \in Nat /\ z \in Nat /\ y <= z - cap /\ z - cap <= n - 1
          BY <1>1, <4>1, <5>1, <5>2, <3>2
        <5> HIDE DEF y, z
        <5>4. y <= n
          BY <1>1, <5>3
        <5>5. QED
          BY <5>4 DEF y
      <4>3. c(k - 1) = (k - 1) * cap /\ c(k) = IF k * cap < n THEN k * cap ELSE n
        BY <1>6, <4>1, <4>2
      <4>4. QED
        BY <3>3, <4>3
    <3>10. QED
      BY <3>2, <3>5, <3>7, <3>8, <3>9
  <2>3. QED
    BY <2>1, <2>2
<1>10. ASSUME NEW k \in 1..Len(pieces)
       PROVE  /\ c(k - 1) <= c(k) /\ pieces[k] \in Text /\ Len(pieces[k]) = c(k) - c(k - 1)
              /\ o + Len(pieces[k]) <= MaxPacket
  <2>1. k - 1 \in Nat /\ (k - 1) + 1 = k /\ k \in Nat
    BY <1>9
  <2>2. c(k - 1) \in 0..n /\ c(k) \in 0..n /\ c(k - 1) <= c(k) /\ c(k) - c(k - 1) <= cap
    BY <1>6, <2>1
  <2>3. pieces[k] \in Text /\ Len(pieces[k]) = c(k) - c(k - 1)
    <3> DEFINE a == c(k - 1)
               b == c(k)
    <3>1. a \in Nat /\ b \in Nat /\ a <= b /\ b <= n /\ pieces[k] = SubSeq(payload, a + 1, b)
      BY <1>1, <1>9, <2>2
    <3> HIDE DEF a, b
    <3>2. pieces[k] \in Text /\ Len(pieces[k]) = b - a
      BY <1>8, <3>1
    <3>3. QED
      BY <3>2 DEF a, b
  <2>4. QED
    BY <1>1, <2>2, <2>3
<1>11. pieces \in Seq(Text)
  <2>1. pieces = [k \in 1..Len(pieces) |-> pieces[k]]
    <3>1. pieces = [k \in DOMAIN pieces |-> pieces[k]]
      BY <1>5
    <3>2. QED
      BY <1>9, <3>1
  <2>2. QED
    BY <1>9, <1>10, <2>1
<1>12. \A k \in 0..Len(pieces) : c(k) \in 0..n
  BY <1>6, <1>9
<1>13. QED
  BY <1>7, <1>9, <1>10, <1>11, <1>12 DEF pieces, c, n, o

\* What has been written begins what will have been written later.
LEMMA ThroughGrows ==
  ASSUME NEW seqs \in Seq(Text), NEW f, Through(seqs, f),
         NEW m \in 0..Len(seqs), NEW n \in m..Len(seqs)
  PROVE  Begins(f[m], f[n])
<1> DEFINE L == Len(seqs)
           P == {d \in Nat : m + d <= L => Begins(f[m], f[m + d])}
<1>1. /\ L \in Nat /\ m \in Nat /\ n \in Nat /\ m <= n /\ n <= L
      /\ \A i \in 1..L : seqs[i] \in Text
  BY LenProperties, ElementOfSeq
<1>2. \A i \in 0..L : f[i] \in Text /\ Len(f[i]) \in Nat
  BY LenProperties DEF Through, Text
<1>3. 0 \in P
  BY <1>1, <1>2 DEF Begins
<1>4. ASSUME NEW d \in Nat, d \in P PROVE d + 1 \in P
  <2> SUFFICES ASSUME m + (d + 1) <= L PROVE Begins(f[m], f[m + (d + 1)])
    OBVIOUS
  <2> DEFINE a == f[m]
             b == f[m + d]
             c == f[m + (d + 1)]
             e == seqs[m + (d + 1)]
  <2>1. /\ m + d \in 0..L /\ m \in 0..L /\ m + (d + 1) \in 0..L /\ m + (d + 1) \in 1..L
        /\ (m + (d + 1)) - 1 = m + d
    BY <1>1
  <2>2. a \in Text /\ b \in Text /\ c \in Text /\ e \in Text
    BY <1>1, <1>2, <2>1
  <2>3. c = b \o e
    BY <2>1 DEF Through
  <2>4. Begins(a, b)
    BY <1>1, <1>4, <2>1
  <2>5. Len(a) \in Nat /\ Len(b) \in Nat /\ Len(c) \in Nat /\ Len(e) \in Nat
    BY <2>2, LenProperties DEF Text
  <2> HIDE DEF a, b, c, e
  <2>6. Len(c) = Len(b) + Len(e) /\ \A j \in 1..Len(b) : c[j] = b[j]
    BY <2>2, <2>3, JoinedIs
  <2>7. Begins(a, c)
    BY <2>4, <2>5, <2>6 DEF Begins
  <2>8. QED
    BY <2>7 DEF a, c
<1> HIDE DEF P
<1>5. n - m \in Nat /\ n - m \in P
  BY <1>1, <1>3, <1>4, SetInduction
<1>6. m + (n - m) = n
  BY <1>1
<1>7. QED
  BY <1>1, <1>5, <1>6 DEF P

\* What is written for a payload: the packets of its pieces, one after the other.
LEMMA EncodeIs ==
  ASSUME NEW name \in Text, NEW payload \in Text, Overhead(name) < MaxPacket
  PROVE  LET whole  == Encode(name, payload)
             pieces == Pieces(name, payload)
             end(k) == EndAt(name, payload, k)
         IN /\ whole \in Text /\ Len(whole) = end(Len(pieces)) /\ end(0) = 0
            /\ \A k \in 0..Len(pieces) : end(k) \in 0..Len(whole)
            /\ \A k \in 1..Len(pieces) :
                 LET e == EncodeOne(name, pieces[k]) IN
                 /\ e \in Text /\ Len(e) \in Nat \ {0} /\ end(k) = end(k - 1) + Len(e)
                 /\ \A i \in 1..Len(e) : whole[end(k - 1) + i] = e[i]
<1> DEFINE whole  == Encode(name, payload)
           pieces == Pieces(name, payload)
           end(k) == EndAt(name, payload, k)
           c(k)   == CutAt(name, payload, k)
           ov     == Overhead(name)
           P      == Len(pieces)
           list   == [k \in DOMAIN pieces |-> EncodeOne(name, pieces[k])]
<1>1. /\ pieces \in Seq(Text) /\ P \in Nat \ {0} /\ DOMAIN pieces = 1..P
      /\ c(0) = 0 /\ c(P) = Len(payload)
      /\ \A k \in 0..P : c(k) \in 0..Len(payload)
      /\ \A k \in 1..P : /\ c(k - 1) <= c(k)
                         /\ pieces[k] \in Text /\ Len(pieces[k]) = c(k) - c(k - 1)
                         /\ ov + Len(pieces[k]) <= MaxPacket
  <2>1. /\ pieces \in Seq(Text) /\ P \in Nat \ {0} /\ c(0) = 0 /\ c(P) = Len(payload)
        /\ \A k \in 0..P : c(k) \in 0..Len(payload)
        /\ \A k \in 1..P :
             /\ c(k - 1) <= c(k) /\ pieces[k] = SubSeq(payload, c(k - 1) + 1, c(k))
             /\ pieces[k] \in Text /\ Len(pieces[k]) = c(k) - c(k - 1)
             /\ ov + Len(pieces[k]) <= MaxPacket
    BY PiecesAre
  <2> HIDE DEF pieces, c, ov
  <2>2. DOMAIN pieces = 1..P
    BY <2>1
  <2> HIDE DEF P
  <2>3. QED
    BY <2>1, <2>2
<1>2. Len(payload) \in Nat /\ ov \in Nat
  <2>1. Len(name) \in Nat /\ Len(payload) \in Nat /\ Len(ProtocolId) \in Nat /\ Len(Version) \in Nat
    BY LenProperties, ProtocolFormat DEF Text
  <2>2. QED
    BY <2>1, ProtocolFormat DEF Overhead
<1>3. \A k \in Nat : end(k) = k * ov + c(k)
  BY DEF EndAt
<1>4. whole = FlattenSeq(list)
  BY DEF Encode
<1> HIDE DEF end, c, pieces, whole, ov
<1>5. ASSUME NEW k \in 1..P
      PROVE  /\ list[k] = EncodeOne(name, pieces[k]) /\ list[k] \in Text
             /\ Len(list[k]) = ov + (c(k) - c(k - 1)) /\ Len(list[k]) \in Nat \ {0}
  <2>1. list[k] = EncodeOne(name, pieces[k])
    BY <1>1
  <2> DEFINE p == pieces[k]
             e == EncodeOne(name, p)
  <2>2. p \in Text /\ Len(p) = c(k) - c(k - 1) /\ ov + Len(p) <= MaxPacket
    BY <1>1
  <2> HIDE DEF p
  <2>3. Encoded(e, name, p) /\ Len(e) = Overhead(name) + Len(p)
    BY <2>2, EncodedIs DEF ov
  <2>4. e \in Text /\ Len(e) = ov + Len(p)
    BY <2>3 DEF Encoded, ov
  <2>5. Len(p) \in Nat /\ ov # 0 /\ Len(e) \in Nat
    <3>1. Len(name) \in Nat /\ Len(ProtocolId) \in Nat /\ Len(Version) \in Nat
      BY LenProperties, ProtocolFormat DEF Text
    <3>2. ov # 0
      BY <3>1, ProtocolFormat DEF Overhead, ov
    <3>3. QED
      BY <2>2, <2>4, <3>2, LenProperties DEF Text
  <2>6. e \in Text /\ Len(e) = ov + (c(k) - c(k - 1)) /\ Len(e) \in Nat \ {0}
    <3> DEFINE x == Len(e)
               y == Len(p)
               z == c(k) - c(k - 1)
    <3>1. x \in Nat /\ y \in Nat /\ x = ov + y /\ y = z /\ ov # 0
      BY <2>2, <2>4, <2>5
    <3> HIDE DEF x, y, z
    <3>2. x = ov + z /\ x # 0
      BY <1>2, <3>1
    <3>3. QED
      BY <2>4, <2>5, <3>2 DEF x, z
  <2>7. QED
    BY <2>1, <2>6 DEF p
<1>6. list \in Seq(Text) /\ Len(list) = P
  BY <1>1, <1>5
<1> HIDE DEF list
<1>7. PICK f : /\ Through(list, f)
               /\ \A n \in 1..Len(list) : Len(f[n]) = Len(f[n - 1]) + Len(list[n])
               /\ \A n \in 0..Len(list) :
                    /\ Len(f[n]) <= Len(FlattenSeq(list))
                    /\ \A i \in 1..Len(f[n]) : FlattenSeq(list)[i] = f[n][i]
  BY <1>6, ThroughIs
<1>8. /\ \A k \in 0..P : f[k] \in Text /\ Len(f[k]) \in Nat
      /\ f[0] = <<>> /\ whole = f[P] /\ \A k \in 1..P : f[k] = f[k - 1] \o list[k]
  BY <1>4, <1>6, <1>7, LenProperties DEF Through, Text
<1> DEFINE I == {k \in Nat : k <= P => Len(f[k]) = end(k)}
<1>9. end(0) = 0 /\ 0 \in I
  <2>1. 0 * ov = 0
    BY <1>2
  <2>2. end(0) = 0
    BY <1>1, <1>3, <2>1
  <2>3. Len(f[0]) = 0
    BY <1>8
  <2>4. QED
    BY <2>2, <2>3
<1>10. ASSUME NEW k \in 1..P PROVE end(k) = end(k - 1) + Len(list[k])
  <2>1. k \in Nat /\ k - 1 \in Nat /\ k - 1 \in 0..P /\ k \in 0..P
    BY <1>1
  <2>2. k * ov = (k - 1) * ov + ov /\ (k - 1) * ov \in Nat
    BY <1>2, <2>1
  <2> DEFINE x == (k - 1) * ov
             y == k * ov
             l == Len(list[k])
  <2>3. x \in Nat /\ y = x + ov /\ end(k) = y + c(k) /\ end(k - 1) = x + c(k - 1)
        /\ c(k) \in Nat /\ c(k - 1) \in Nat /\ l = ov + (c(k) - c(k - 1))
    <3>1. c(k) \in Nat /\ c(k - 1) \in Nat
      BY <1>1, <1>2, <2>1
    <3>2. end(k) = y + c(k) /\ end(k - 1) = x + c(k - 1)
      BY <1>3, <2>1
    <3>3. l = ov + (c(k) - c(k - 1))
      BY <1>5
    <3>4. QED
      BY <2>2, <3>1, <3>2, <3>3
  <2> HIDE DEF x, y, l
  <2>4. end(k) = end(k - 1) + l
    BY <1>2, <2>3
  <2>5. QED
    BY <2>4 DEF l
<1>11. ASSUME NEW k \in Nat, k \in I PROVE k + 1 \in I
  <2> SUFFICES ASSUME k + 1 <= P PROVE Len(f[k + 1]) = end(k + 1)
    OBVIOUS
  <2>1. k + 1 \in 1..P /\ (k + 1) - 1 = k /\ k <= P
    BY <1>1
  <2>2. Len(f[k + 1]) = Len(f[k]) + Len(list[k + 1]) /\ end(k + 1) = end(k) + Len(list[k + 1])
    BY <1>6, <1>7, <1>10, <2>1
  <2>3. QED
    BY <1>11, <2>1, <2>2
<1> HIDE DEF I
<1>12. \A k \in 0..P : Len(f[k]) = end(k)
  <2>1. Nat \subseteq I
    BY <1>9, <1>11, SetInduction
  <2>2. QED
    BY <1>1, <2>1 DEF I
<1>13. whole \in Text /\ Len(whole) = end(P)
  <2>1. P \in 0..P
    BY <1>1
  <2>2. QED
    BY <1>8, <1>12, <2>1
<1>14. \A k \in 0..P : end(k) \in 0..Len(whole)
  BY <1>4, <1>6, <1>7, <1>8, <1>12, <1>13
<1>15. ASSUME NEW k \in 1..P
       PROVE  LET e == EncodeOne(name, pieces[k]) IN
              /\ e \in Text /\ Len(e) \in Nat \ {0} /\ end(k) = end(k - 1) + Len(e)
              /\ \A i \in 1..Len(e) : whole[end(k - 1) + i] = e[i]
  <2> DEFINE e == EncodeOne(name, pieces[k])
             a == f[k - 1]
             b == f[k]
  <2>1. e \in Text /\ Len(e) \in Nat \ {0} /\ end(k) = end(k - 1) + Len(e) /\ e = list[k]
    BY <1>5, <1>10
  <2>2. k - 1 \in 0..P /\ k \in 0..P
    BY <1>1
  <2>3. a \in Text /\ b \in Text /\ b = a \o e /\ Len(a) = end(k - 1)
        /\ Len(a) \in Nat /\ Len(b) \in Nat
    BY <1>8, <1>12, <2>1, <2>2
  <2>4. \A i \in 1..Len(b) : whole[i] = b[i]
    BY <1>4, <1>6, <1>7, <2>2
  <2> HIDE DEF e, a, b
  <2>5. Len(a \o e) = Len(a) + Len(e) /\ \A i \in 1..Len(e) : (a \o e)[Len(a) + i] = e[i]
    BY <2>1, <2>3, JoinedIs
  <2> DEFINE n == Len(a)
             m == Len(e)
  <2>6. ASSUME NEW i \in 1..m PROVE whole[n + i] = e[i]
    <3>1. n \in Nat /\ m \in Nat /\ Len(b) = n + m /\ b[n + i] = e[i]
      BY <2>1, <2>3, <2>5
    <3> HIDE DEF n, m
    <3>2. n + i \in 1..Len(b)
      BY <3>1
    <3>3. QED
      BY <2>4, <3>1, <3>2
  <2>7. \A i \in 1..Len(e) : whole[end(k - 1) + i] = e[i]
    BY <2>3, <2>6
  <2>8. QED
    BY <2>1, <2>7 DEF e
<1> HIDE DEF P
<1>16. whole \in Text /\ Len(whole) = end(Len(pieces)) /\ end(0) = 0
  BY <1>9, <1>13 DEF P
<1>17. \A k \in 0..Len(pieces) : end(k) \in 0..Len(whole)
  BY <1>14 DEF P
<1>18. \A k \in 1..Len(pieces) :
         LET e == EncodeOne(name, pieces[k]) IN
         /\ e \in Text /\ Len(e) \in Nat \ {0} /\ end(k) = end(k - 1) + Len(e)
         /\ \A i \in 1..Len(e) : whole[end(k - 1) + i] = e[i]
  BY <1>15 DEF P
<1>19. QED
  BY <1>16, <1>17, <1>18 DEF whole, pieces, end
=============================================================================
