--------------------------- MODULE Tireal_proofs ----------------------------
(***************************************************************************)
(* Proofs about Tireal, for constants of any length.  First tireal_atof:   *)
(* what it keeps of a text (SignificandIs, AlignedIs) and that its double  *)
(* is an exponent and seven digits to the base 100, written (AtofIs).  Then *)
(* tireal_ftoa, which prints those digits, and that reading them again puts *)
(* them back (RereadDouble): that makes TirealInv inductive.  Then values: *)
(* that of a double is the digits of its mantissa (DoubleValueIs), the text *)
(* of a double and the text of a constant spell the same (TextOfDouble,    *)
(* EncodedValue).  Last the order: the first byte in which two doubles     *)
(* differ decides as their values do (LowerLess, ComparedRight).           *)
(***************************************************************************)
EXTENDS Tireal, Data_proofs, SequenceTheorems

(* The digit at place k, 0 behind the last. *)
At(s, k) == IF k \in DOMAIN s THEN s[k] ELSE 0

LEMMA FunctionSeq ==
  ASSUME NEW S, NEW n \in Nat, NEW f \in [1 .. n -> S]
  PROVE  f \in Seq(S) /\ Len(f) = n
OBVIOUS

LEMMA TailOfFunction ==
  ASSUME NEW S, NEW n \in Nat \ {0}, NEW f \in [1 .. n -> S]
  PROVE  /\ Tail(f) \in Seq(S) /\ Len(Tail(f)) = n - 1
         /\ \A i \in 1 .. n - 1 : Tail(f)[i] = f[i + 1]
<1>1. f \in Seq(S) /\ Len(f) = n /\ f # <<>>
  OBVIOUS
<1> QED BY <1>1, HeadTailProperties

LEMMA Least ==
  ASSUME NEW S \in SUBSET Int, NEW m \in S, \A k \in S : m <= k
  PROVE  Min(S) = m
<1>1. Min(S) \in S /\ \A k \in S : Min(S) <= k
  BY DEF Min
<1>2. m \in Int /\ Min(S) \in Int /\ m <= Min(S) /\ Min(S) <= m
  BY <1>1
<1> QED BY <1>2

LEMMA Concat2 ==
  ASSUME NEW S, NEW a \in S, NEW b \in S, NEW t \in Seq(S)
  PROVE  /\ <<a, b>> \o t \in Seq(S) /\ Len(<<a, b>> \o t) = Len(t) + 2
         /\ (<<a, b>> \o t)[1] = a /\ (<<a, b>> \o t)[2] = b
         /\ \A i \in 1 .. Len(t) : (<<a, b>> \o t)[i + 2] = t[i]
<1>1. <<a, b>> \in Seq(S) /\ Len(<<a, b>>) = 2 /\ <<a, b>>[1] = a /\ <<a, b>>[2] = b
  OBVIOUS
<1> QED BY <1>1, Joined, ConcatProperties

LEMMA OneAndOne ==
  ASSUME NEW S, NEW a \in S, NEW b \in S
  PROVE  <<a>> \o <<b>> = <<a, b>> /\ <<>> \o <<b>> = <<b>>
<1>1. /\ <<a>> \in Seq(S) /\ Len(<<a>>) = 1 /\ <<a>>[1] = a
      /\ <<b>> \in Seq(S) /\ Len(<<b>>) = 1 /\ <<b>>[1] = b
      /\ <<a, b>> \in Seq(S) /\ Len(<<a, b>>) = 2 /\ <<a, b>>[1] = a /\ <<a, b>>[2] = b
  OBVIOUS
<1>2. <<a>> \o <<b>> = Append(<<a>>, b)
  BY ONLY <1>1, b \in S, AppendIsConcat
<1>3. Append(<<a>>, b) = <<a, b>>
  <2> DEFINE p == Append(<<a>>, b)
             q == <<a, b>>
             one == <<a>>
  <2>1. one \in Seq(S) /\ Len(one) = 1 /\ one[1] = a
    BY <1>1
  <2> HIDE DEF one
  <2>2. /\ Append(one, b) \in Seq(S) /\ Len(Append(one, b)) = Len(one) + 1
        /\ \A i \in 1 .. Len(one) : Append(one, b)[i] = one[i]
        /\ Append(one, b)[Len(one) + 1] = b
    <3>1. one \in Seq(S)
      BY ONLY <2>1
    <3> QED BY ONLY <3>1, b \in S, AppendProperties
  <2>3. p = Append(one, b)
    BY DEF one
  <2>4. 1 \in 1 .. Len(one) /\ Len(one) + 1 = 2
    BY ONLY <2>1
  <2>5. p \in Seq(S) /\ Len(p) = 2 /\ p[1] = a /\ p[2] = b
    <3> HIDE DEF p
    <3> QED BY ONLY <2>1, <2>2, <2>3, <2>4
  <2>6. q \in Seq(S) /\ Len(q) = 2 /\ q[1] = a /\ q[2] = b
    BY <1>1
  <2> HIDE DEF p, q
  <2>7. Len(p) = Len(q) /\ \A i \in 1 .. Len(p) : p[i] = q[i]
    BY ONLY <2>5, <2>6
  <2>8. p = q
    BY ONLY <2>5, <2>6, <2>7, SeqEqual
  <2> QED BY <2>8 DEF p, q
<1>4. <<>> \o <<b>> = <<b>>
  BY ONLY <1>1, ConcatEmptySeq
<1> QED BY ONLY <1>2, <1>3, <1>4

LEMMA LeadingZeros ==
  ASSUME NEW s \in Seq(Digits)
  PROVE  \/ WithoutLeadingZeros(s) = <<>> /\ \A i \in 1 .. Len(s) : s[i] = 0
         \/ \E m \in 1 .. Len(s) :
              /\ s[m] # 0
              /\ \A i \in 1 .. m - 1 : s[i] = 0
              /\ WithoutLeadingZeros(s) = SubSeq(s, m, Len(s))
<1> DEFINE positive == {i \in DOMAIN s : s[i] > 0}
<1>1. positive \subseteq Nat /\ DOMAIN s = 1 .. Len(s) /\ Len(s) \in Nat
  OBVIOUS
<1>2. \A i \in 1 .. Len(s) : s[i] \in Digits
  OBVIOUS
<1>3. CASE positive = {}
  <2>1. \A i \in 1 .. Len(s) : s[i] = 0
    BY <1>1, <1>2, <1>3 DEF Digits
  <2> QED BY <1>3, <2>1 DEF WithoutLeadingZeros
<1>4. CASE positive # {}
  <2>1. PICK m \in positive : \A k \in positive : m <= k
    <3> HIDE DEF positive
    <3> QED BY <1>1, <1>4, LeastNumber
  <2>2. Min(positive) = m
    <3>1. positive \in SUBSET Int
      BY <1>1
    <3> HIDE DEF positive
    <3> QED BY ONLY <2>1, <3>1, m \in positive, Least
  <2>3. WithoutLeadingZeros(s) = SubSeq(s, m, Len(s))
    BY <1>4, <2>2 DEF WithoutLeadingZeros
  <2>4. m \in 1 .. Len(s) /\ s[m] # 0
    BY <1>1, <1>2, <2>1 DEF Digits
  <2>5. \A i \in 1 .. m - 1 : s[i] = 0
    BY <1>1, <1>2, <2>1, <2>4 DEF Digits
  <2> QED BY <2>3, <2>4, <2>5
<1> QED BY <1>3, <1>4

(* What the first byte of a double says, and seven digits to the base 100. *)
Exponents == {n \in Nat : n < 128}

Mantissas == [1 .. 7 -> {n \in Nat : n < 100}]

LEMMA HundredsOf ==
  ASSUME NEW h \in Mantissas
  PROVE  \A i \in 1 .. 7 : h[i] \in Nat /\ h[i] < 100
BY DEF Mantissas

(* The eight bytes of a double.                                            *)
LEMMA Written8 ==
  ASSUME NEW negative \in BOOLEAN, NEW exp \in Exponents, NEW h \in Mantissas,
         NEW w, w = Written(negative, exp, h)
  PROVE  /\ w \in Seq(Nat) /\ Len(w) = 8
         /\ w[1] = IF negative THEN 255 - exp ELSE exp
         /\ w[2] = IF negative /\ h[1] # 0 THEN 256 - h[1] ELSE h[1]
         /\ \A i \in 3 .. 8 : w[i] = h[i - 1]
<1>1. PICK n \in Nat : n = 7
  OBVIOUS
<1>2. Tail(h) \in Seq(Nat) /\ Len(Tail(h)) = 6 /\ \A i \in 1 .. n - 1 : Tail(h)[i] = h[i + 1]
  <2>1. n \in Nat \ {0} /\ h \in [1 .. n -> Nat] /\ n - 1 = 6
    BY <1>1 DEF Mantissas
  <2> QED BY ONLY <2>1, TailOfFunction
<1> DEFINE t == Tail(h)
           c1 == Char(IF negative THEN -(exp + 1) ELSE exp)
           c2 == Char(IF negative THEN -h[1] ELSE h[1])
<1>3. c1 = IF negative THEN 255 - exp ELSE exp
  BY DEF Char, Exponents
<1>4. h[1] \in Nat /\ h[1] < 100
  BY HundredsOf
<1>5. c2 = IF negative /\ h[1] # 0 THEN 256 - h[1] ELSE h[1]
  BY <1>4 DEF Char
<1>6. c1 \in Nat /\ c2 \in Nat
  BY <1>3, <1>4, <1>5 DEF Exponents
<1>7. Written(negative, exp, h) = <<c1, c2>> \o t
  BY DEF Written
<1>8. t \in Seq(Nat) /\ Len(t) = 6 /\ \A i \in 1 .. n - 1 : t[i] = h[i + 1]
  BY ONLY <1>2
<1> HIDE DEF t, c1, c2
<1> DEFINE d == <<c1, c2>> \o t
<1>9. d \in Seq(Nat) /\ Len(d) = 8 /\ d[1] = c1 /\ d[2] = c2 /\ \A i \in 3 .. 8 : d[i] = h[i - 1]
  <2>1. /\ d \in Seq(Nat) /\ Len(d) = Len(t) + 2 /\ d[1] = c1 /\ d[2] = c2
        /\ \A i \in 1 .. Len(t) : d[i + 2] = t[i]
    <3>1. t \in Seq(Nat)
      BY ONLY <1>8
    <3> QED BY ONLY <3>1, <1>6, Concat2
  <2>2. ASSUME NEW i \in 3 .. 8 PROVE d[i] = h[i - 1]
    <3>1. i - 2 \in 1 .. n - 1 /\ n - 1 = Len(t) /\ (i - 2) + 2 = i /\ (i - 2) + 1 = i - 1
      BY ONLY <1>1, <1>8, i \in 3 .. 8
    <3> HIDE DEF d
    <3> QED BY ONLY <1>8, <2>1, <3>1
  <2> HIDE DEF d
  <2>3. Len(d) = 8
    BY ONLY <1>8, <2>1
  <2>4. d \in Seq(Nat) /\ d[1] = c1 /\ d[2] = c2
    BY ONLY <2>1
  <2>5. \A i \in 3 .. 8 : d[i] = h[i - 1]
    BY ONLY <2>2
  <2> QED BY ONLY <2>3, <2>4, <2>5
<1>10. Written(negative, exp, h) = d
  BY ONLY <1>7
<1> HIDE DEF d
<1> QED BY ONLY <1>3, <1>5, <1>9, <1>10, w = Written(negative, exp, h)

(* Number as a function that starts at 0 and takes a digit at a time.      *)
LEMMA NumberSteps ==
  ASSUME NEW s \in Seq(Nat)
  PROVE  \E f \in [0 .. Len(s) -> Nat] :
           /\ f[0] = 0
           /\ \A n \in 1 .. Len(s) : f[n] = 10 * f[n - 1] + s[n]
           /\ Number(s) = f[Len(s)]
<1> DEFINE UpTo(f, n) ==
      f \in [0 .. n -> Nat] /\ f[0] = 0 /\ \A k \in 1 .. n : f[k] = 10 * f[k - 1] + s[k]
           T == {n \in Nat : n <= Len(s) => \E f : UpTo(f, n)}
<1>1. Len(s) \in Nat /\ \A n \in 1 .. Len(s) : s[n] \in Nat
  OBVIOUS
<1>2. 0 \in T
  <2>1. UpTo([k \in 0 .. 0 |-> 0], 0)
    OBVIOUS
  <2> HIDE DEF UpTo
  <2> QED BY <2>1
<1>3. ASSUME NEW n \in Nat, n \in T PROVE n + 1 \in T
  <2> SUFFICES ASSUME n + 1 <= Len(s) PROVE \E f : UpTo(f, n + 1)
    <3> HIDE DEF UpTo
    <3> QED OBVIOUS
  <2>1. PICK f : UpTo(f, n)
    <3> HIDE DEF UpTo
    <3> QED BY <1>1, <1>3
  <2> DEFINE h == [k \in 0 .. n + 1 |-> IF k = n + 1 THEN 10 * f[n] + s[n + 1] ELSE f[k]]
  <2>2. s[n + 1] \in Nat /\ f[n] \in Nat
    BY <1>1, <2>1
  <2>3. h \in [0 .. n + 1 -> Nat] /\ h[0] = 0
    <3>1. f \in [0 .. n -> Nat] /\ f[0] = 0 /\ 10 * f[n] + s[n + 1] \in Nat
      BY <2>1, <2>2
    <3>2. \A k \in 0 .. n + 1 : k # n + 1 => k \in 0 .. n
      OBVIOUS
    <3>3. 0 \in 0 .. n + 1 /\ 0 # n + 1
      OBVIOUS
    <3> QED BY ONLY <3>1, <3>2, <3>3
  <2>4. ASSUME NEW k \in 1 .. n + 1 PROVE h[k] = 10 * h[k - 1] + s[k]
    <3>1. k - 1 \in 0 .. n + 1 /\ k - 1 # n + 1 /\ k \in 0 .. n + 1
      OBVIOUS
    <3>2. h[k - 1] = f[k - 1]
      BY <3>1
    <3>3. CASE k = n + 1
      <4>1. h[k] = 10 * f[n] + s[n + 1] /\ k - 1 = n
        BY <3>1, <3>3
      <4> HIDE DEF h
      <4> QED BY <3>2, <3>3, <4>1
    <3>4. CASE k # n + 1
      <4>1. h[k] = f[k] /\ k \in 1 .. n
        BY <3>1, <3>4
      <4>2. f[k] = 10 * f[k - 1] + s[k]
        BY <2>1, <4>1
      <4> HIDE DEF h, UpTo
      <4> QED BY <3>2, <4>1, <4>2
    <3> QED BY <3>3, <3>4
  <2>5. UpTo(h, n + 1)
    BY <2>3, <2>4
  <2> HIDE DEF h, UpTo
  <2> QED BY <2>5
<1>4. \A n \in Nat : n \in T
  <2> HIDE DEF T
  <2> QED BY <1>2, <1>3, Induction
<1>5. PICK f : UpTo(f, Len(s))
  <2> HIDE DEF UpTo
  <2> QED BY <1>1, <1>4
<1> DEFINE Is(g) == g = [n \in 0 .. Len(s) |-> IF n = 0 THEN 0 ELSE 10 * g[n - 1] + s[n]]
           g == CHOOSE b : Is(b)
<1>6. Is(f)
  <2>1. \A n \in 0 .. Len(s) : f[n] = IF n = 0 THEN 0 ELSE 10 * f[n - 1] + s[n]
    BY <1>1, <1>5
  <2> QED BY <1>5, <2>1
<1>7. Is(g)
  <2> HIDE DEF Is
  <2> QED BY <1>6
<1>8. Number(s) = g[Len(s)]
  BY DEF Number
<1> DEFINE U == {n \in Nat : n <= Len(s) => g[n] \in Nat}
<1> HIDE DEF g
<1>9. 0 \in U
  BY <1>1, <1>7
<1>10. ASSUME NEW n \in Nat, n \in U PROVE n + 1 \in U
  <2> SUFFICES ASSUME n + 1 <= Len(s) PROVE g[n + 1] \in Nat
    OBVIOUS
  <2>1. g[n + 1] = 10 * g[n] + s[n + 1]
    BY <1>1, <1>7
  <2>2. g[n] \in Nat /\ s[n + 1] \in Nat
    BY <1>1, <1>10
  <2> QED BY <2>1, <2>2
<1>11. \A n \in Nat : n \in U
  <2> HIDE DEF U
  <2> QED BY <1>9, <1>10, Induction
<1>12. g \in [0 .. Len(s) -> Nat]
  <2>1. \A n \in 0 .. Len(s) : g[n] \in Nat
    BY <1>1, <1>11
  <2>2. g = [n \in 0 .. Len(s) |-> IF n = 0 THEN 0 ELSE 10 * g[n - 1] + s[n]]
    BY <1>7
  <2>3. g = [n \in 0 .. Len(s) |-> g[n]]
    BY ONLY <2>2
  <2> QED BY ONLY <2>1, <2>3
<1>13. g[0] = 0 /\ \A n \in 1 .. Len(s) : g[n] = 10 * g[n - 1] + s[n]
  <2>1. \A n \in 0 .. Len(s) : g[n] = IF n = 0 THEN 0 ELSE 10 * g[n - 1] + s[n]
    BY ONLY <1>7
  <2>2. 0 \in 0 .. Len(s) /\ \A n \in 1 .. Len(s) : n \in 0 .. Len(s) /\ n # 0
    BY ONLY <1>1
  <2> QED BY ONLY <2>1, <2>2
<1> HIDE DEF Is
<1> QED BY <1>8, <1>12, <1>13

LEMMA NumberNat == \A s \in Seq(Nat) : Number(s) \in Nat
<1> SUFFICES ASSUME NEW s \in Seq(Nat) PROVE Number(s) \in Nat
  OBVIOUS
<1>1. Len(s) \in 0 .. Len(s)
  OBVIOUS
<1> QED BY <1>1, NumberSteps

LEMMA NumberOfNone == Number(<<>>) = 0
<1>1. <<>> \in Seq(Nat) /\ Len(<<>>) = 0
  OBVIOUS
<1> QED BY <1>1, NumberSteps

LEMMA NumberOfOne == ASSUME NEW c \in Nat PROVE Number(<<c>>) = c
<1>1. PICK s \in Seq(Nat) : s = <<c>> /\ Len(s) = 1 /\ s[1] = c
  <2>1. <<c>> \in Seq(Nat)
    OBVIOUS
  <2>2. Len(<<c>>) = 1 /\ <<c>>[1] = c
    OBVIOUS
  <2> QED BY <2>1, <2>2
<1>2. PICK f \in [0 .. Len(s) -> Nat] :
        f[0] = 0 /\ (\A n \in 1 .. Len(s) : f[n] = 10 * f[n - 1] + s[n]) /\ Number(s) = f[Len(s)]
  BY NumberSteps
<1>3. f[1] = 10 * f[0] + s[1]
  BY <1>1, <1>2
<1> QED BY <1>1, <1>2, <1>3

LEMMA NumberOfTwo == ASSUME NEW c \in Nat, NEW d \in Nat PROVE Number(<<c, d>>) = 10 * c + d
<1>1. PICK s \in Seq(Nat) : s = <<c, d>> /\ Len(s) = 2 /\ s[1] = c /\ s[2] = d
  <2>1. <<c, d>> \in Seq(Nat)
    OBVIOUS
  <2>2. Len(<<c, d>>) = 2 /\ <<c, d>>[1] = c /\ <<c, d>>[2] = d
    OBVIOUS
  <2> QED BY <2>1, <2>2
<1>2. PICK f \in [0 .. Len(s) -> Nat] :
        f[0] = 0 /\ (\A n \in 1 .. Len(s) : f[n] = 10 * f[n - 1] + s[n]) /\ Number(s) = f[Len(s)]
  BY NumberSteps
<1>3. f[1] = 10 * f[0] + s[1] /\ f[2] = 10 * f[1] + s[2]
  BY <1>1, <1>2
<1> QED BY <1>1, <1>2, <1>3

-----------------------------------------------------------------------------
(* The first word of a double, taken apart. *)
Magnitude(word) == IF word < 0 THEN -word ELSE word

LEMMA FirstWordOfWritten ==
  ASSUME NEW negative \in BOOLEAN, NEW exp \in Exponents,
         NEW h \in Mantissas, NEW d, d = Written(negative, exp, h)
  PROVE  /\ FirstWord(d) \in Int
         /\ (FirstWord(d) < 0) <=> negative
         /\ Magnitude(FirstWord(d)) % 256 = h[1]
         /\ Magnitude(FirstWord(d)) \div 256 = IF negative /\ h[1] = 0 THEN exp + 1 ELSE exp
<1>1. /\ d[1] = IF negative THEN 255 - exp ELSE exp
      /\ d[2] = IF negative /\ h[1] # 0 THEN 256 - h[1] ELSE h[1]
  BY Written8
<1>2. h[1] \in Nat /\ h[1] < 100 /\ exp \in Nat /\ exp < 128
  BY HundredsOf DEF Exponents
<1>3. FirstWord(d) = IF ~negative THEN 256 * exp + h[1]
                     ELSE IF h[1] = 0 THEN -(256 * (exp + 1)) ELSE -(256 * exp + h[1])
  BY <1>1, <1>2 DEF FirstWord
<1>4. FirstWord(d) \in Int /\ ((FirstWord(d) < 0) <=> negative)
  BY <1>2, <1>3
<1>5. Magnitude(FirstWord(d)) = IF negative /\ h[1] = 0 THEN 256 * (exp + 1) + 0 ELSE 256 * exp + h[1]
  BY <1>2, <1>3 DEF Magnitude
<1>6. \A q, r \in Nat : r < 256 => (256 * q + r) % 256 = r /\ (256 * q + r) \div 256 = q
  OBVIOUS
<1>7. Magnitude(FirstWord(d)) % 256 = h[1]
  BY <1>2, <1>5, <1>6
<1>8. Magnitude(FirstWord(d)) \div 256 = IF negative /\ h[1] = 0 THEN exp + 1 ELSE exp
  BY <1>2, <1>5, <1>6
<1> QED BY <1>4, <1>7, <1>8

-----------------------------------------------------------------------------
(* The parts of tireal_atof. *)

LEMMA StripIs ==
  ASSUME NEW s \in Seq(Digits)
  PROVE  /\ WithoutLeadingZeros(s) \in Seq(Digits)
         /\ WithoutLeadingZeros(s) # <<>> =>
              Len(WithoutLeadingZeros(s)) > 0 /\ WithoutLeadingZeros(s)[1] # 0
<1>1. CASE WithoutLeadingZeros(s) = <<>>
  BY <1>1
<1>2. ASSUME NEW m \in 1 .. Len(s), s[m] # 0, WithoutLeadingZeros(s) = SubSeq(s, m, Len(s))
      PROVE  /\ WithoutLeadingZeros(s) \in Seq(Digits)
             /\ Len(WithoutLeadingZeros(s)) > 0 /\ WithoutLeadingZeros(s)[1] = s[m]
  <2>1. Len(s) \in Nat /\ m \in Int /\ Len(s) \in Int /\ m <= Len(s) /\ \A i \in m .. Len(s) : s[i] \in Digits
    BY LenProperties, ElementOfSeq
  <2>2. /\ SubSeq(s, m, Len(s)) \in Seq(Digits)
        /\ Len(SubSeq(s, m, Len(s))) = Len(s) - m + 1
        /\ \A i \in 1 .. Len(s) - m + 1 : SubSeq(s, m, Len(s))[i] = s[m + i - 1]
    BY ONLY <2>1, SubSeqProperties
  <2>3. 1 \in 1 .. Len(s) - m + 1 /\ m + 1 - 1 = m /\ Len(s) - m + 1 > 0
    BY <2>1
  <2> QED BY <1>2, <2>2, <2>3
<1> QED BY <1>1, <1>2, LeadingZeros

LEMMA StripNothing ==
  ASSUME NEW s \in Seq(Digits), Len(s) > 0, s[1] # 0
  PROVE  WithoutLeadingZeros(s) = s
<1>1. ~ \A i \in 1 .. Len(s) : s[i] = 0
  <2>1. 1 \in 1 .. Len(s)
    OBVIOUS
  <2> QED BY <2>1
<1>2. ASSUME NEW m \in 1 .. Len(s), \A i \in 1 .. m - 1 : s[i] = 0,
             WithoutLeadingZeros(s) = SubSeq(s, m, Len(s))
      PROVE  WithoutLeadingZeros(s) = s
  <2>1. m = 1
    <3>1. ~(1 \in 1 .. m - 1)
      BY <1>2
    <3> QED BY <3>1
  <2> QED BY <1>2, <2>1, SubSeqFull
<1> QED BY <1>1, <1>2, LeadingZeros

LEMMA StripAll ==
  ASSUME NEW s \in Seq(Digits), \A i \in 1 .. Len(s) : s[i] = 0
  PROVE  WithoutLeadingZeros(s) = <<>>
BY LeadingZeros

LEMMA TakeIs ==
  ASSUME NEW s \in Seq(Digits), NEW n \in Nat
  PROVE  /\ Take(s, n) \in Seq(Digits)
         /\ Len(Take(s, n)) = IF Len(s) < n THEN Len(s) ELSE n
         /\ \A i \in 1 .. Len(Take(s, n)) : Take(s, n)[i] = s[i]
         /\ Len(s) <= n => Take(s, n) = s
<1> DEFINE l == IF Len(s) < n THEN Len(s) ELSE n
<1>1. Len(s) \in Nat /\ l \in Nat /\ l <= Len(s)
  BY LenProperties
<1>2. Take(s, n) = SubSeq(s, 1, l)
  BY DEF Take
<1> HIDE DEF l
<1>3. l \in Int /\ 1 \in Int /\ \A i \in 1 .. l : s[i] \in Digits
  BY <1>1, ElementOfSeq
<1>4. /\ SubSeq(s, 1, l) \in Seq(Digits)
      /\ Len(SubSeq(s, 1, l)) = IF 1 <= l THEN l - 1 + 1 ELSE 0
      /\ \A i \in 1 .. l - 1 + 1 : SubSeq(s, 1, l)[i] = s[1 + i - 1]
  BY ONLY <1>3, SubSeqProperties
<1>5. /\ Len(SubSeq(s, 1, l)) = l
      /\ \A i \in 1 .. l : SubSeq(s, 1, l)[i] = s[i]
  <2>1. l - 1 + 1 = l /\ ((1 <= l) \/ l = 0) /\ \A i \in 1 .. l : 1 + i - 1 = i
    BY <1>1
  <2> QED BY <1>4, <2>1
<1>6. Len(s) <= n => Take(s, n) = s
  <2>1. Len(s) <= n => l = Len(s)
    BY <1>1 DEF l
  <2> QED BY <1>2, <2>1, SubSeqFull
<1> QED BY <1>2, <1>4, <1>5, <1>6 DEF l

(* What tireal_atof can do with a text. *)
HasDigits(text) ==
  text.negative \in BOOLEAN /\ text.whole \in Seq(Digits) /\ text.fraction \in Seq(Digits)

(* The digits that are kept: where they start, and what the first is.      *)
LEMMA SignificandIs ==
  ASSUME NEW text, HasDigits(text)
  PROVE  /\ Significand(text).digits \in Seq(Digits)
         /\ Len(Significand(text).digits) <= 14
         /\ Significand(text).digits # <<>> =>
              Len(Significand(text).digits) > 0 /\ Significand(text).digits[1] # 0
         /\ Significand(text).point \in Int
         /\ Significand(text).full \in BOOLEAN
<1> DEFINE whole == WithoutLeadingZeros(text.whole)
           fraction == IF whole = <<>> THEN WithoutLeadingZeros(text.fraction) ELSE text.fraction
           digits == whole \o fraction
<1>1. whole \in Seq(Digits) /\ (whole # <<>> => Len(whole) > 0 /\ whole[1] # 0)
  BY StripIs DEF HasDigits
<1>2. fraction \in Seq(Digits)
  BY StripIs DEF HasDigits
<1>3. whole = <<>> => (fraction # <<>> => Len(fraction) > 0 /\ fraction[1] # 0)
  BY StripIs DEF HasDigits
<1>4. /\ Significand(text).digits = Take(digits, 14)
      /\ Significand(text).point = Len(Take(whole, 14)) - (Len(text.fraction) - Len(fraction))
      /\ Significand(text).full = (Len(digits) > 14)
  BY DEF Significand, Places
<1> HIDE DEF whole, fraction
<1>5. digits \in Seq(Digits) /\ (digits # <<>> => Len(digits) > 0 /\ digits[1] # 0)
  <2>1. digits \in Seq(Digits) /\ Len(digits) = Len(whole) + Len(fraction)
    BY <1>1, <1>2, ConcatProperties
  <2>2. Len(whole) \in Nat /\ Len(fraction) \in Nat
    BY <1>1, <1>2
  <2>3. CASE whole = <<>>
    <3>1. digits = fraction
      BY <1>2, <2>3, ConcatEmptySeq
    <3> QED BY <1>2, <1>3, <2>3, <3>1
  <2>4. CASE whole # <<>>
    <3>1. 1 \in 1 .. Len(whole)
      BY <1>1, <2>2, <2>4
    <3>2. digits[1] = whole[1]
      BY <1>1, <1>2, <3>1, Joined
    <3> QED BY <1>1, <2>1, <2>2, <2>4, <3>2
  <2> QED BY <2>3, <2>4
<1> HIDE DEF digits
<1>6. /\ Take(digits, 14) \in Seq(Digits)
      /\ Len(Take(digits, 14)) = IF Len(digits) < 14 THEN Len(digits) ELSE 14
      /\ \A i \in 1 .. Len(Take(digits, 14)) : Take(digits, 14)[i] = digits[i]
      /\ Take(whole, 14) \in Seq(Digits)
  BY <1>1, <1>5, TakeIs
<1>7. Len(digits) \in Nat /\ Len(text.fraction) \in Nat /\ Len(fraction) \in Nat /\ Len(Take(whole, 14)) \in Nat
  BY <1>2, <1>5, <1>6 DEF HasDigits
<1>8. Take(digits, 14) # <<>> => Len(Take(digits, 14)) > 0 /\ Take(digits, 14)[1] # 0
  <2> SUFFICES ASSUME Take(digits, 14) # <<>> PROVE Len(Take(digits, 14)) > 0 /\ Take(digits, 14)[1] # 0
    OBVIOUS
  <2>1. Len(Take(digits, 14)) \in Nat \ {0}
    BY <1>6, EmptySeq
  <2>2. digits # <<>> /\ 1 \in 1 .. Len(Take(digits, 14))
    <3>1. Len(digits) # 0
      BY ONLY <1>6, <1>7, <2>1
    <3>2. digits # <<>>
      BY ONLY <1>5, <3>1, EmptySeq
    <3>3. 1 \in 1 .. Len(Take(digits, 14))
      BY ONLY <2>1
    <3> QED BY ONLY <3>2, <3>3
  <2> QED BY <1>5, <1>6, <2>1, <2>2
<1>9. Len(Take(digits, 14)) <= 14
  BY ONLY <1>6, <1>7
<1>10. Significand(text).point \in Int /\ Significand(text).full \in BOOLEAN
  BY ONLY <1>4, <1>7
<1>11. Significand(text).digits = Take(digits, 14) /\ Take(digits, 14) \in Seq(Digits)
  BY ONLY <1>4, <1>6
<1> QED BY ONLY <1>8, <1>9, <1>10, <1>11

(* v, digit by digit.                                                      *)
LEMMA AlignedIs ==
  ASSUME NEW digits \in Seq(Digits), Len(digits) <= 14, NEW odd \in BOOLEAN, NEW v, v = Aligned(digits, odd)
  PROVE  /\ v \in [1 .. 14 -> Digits]
         /\ \A i \in 1 .. 14 : v[i] = At(digits, IF odd THEN i - 1 ELSE i)
<1> DEFINE shifted == (IF odd THEN <<0>> ELSE <<>>) \o digits
<1>1. v = [i \in 1 .. 14 |-> IF i \in DOMAIN shifted THEN shifted[i] ELSE 0]
  BY DEF Aligned, Places
<1>2. Len(digits) \in Nat /\ 0 \in Digits /\ DOMAIN digits = 1 .. Len(digits)
  BY DEF Digits
<1>3. \A i \in 1 .. 14 : (IF i \in DOMAIN shifted THEN shifted[i] ELSE 0) = At(digits, IF odd THEN i - 1 ELSE i)
  <2>1. CASE odd
    <3>1. shifted = <<0>> \o digits
      BY <2>1
    <3>2. <<0>> \in Seq(Digits) /\ Len(<<0>>) = 1 /\ <<0>>[1] = 0
      BY <1>2
    <3>3. /\ <<0>> \o digits \in Seq(Digits) /\ Len(<<0>> \o digits) = 1 + Len(digits)
          /\ \A i \in 1 .. 1 + Len(digits) : (<<0>> \o digits)[i] = IF i <= 1 THEN 0 ELSE digits[i - 1]
      BY <3>2, ConcatProperties
    <3> HIDE DEF shifted
    <3>4. DOMAIN shifted = 1 .. 1 + Len(digits)
      BY <3>1, <3>3
    <3> QED BY <1>2, <2>1, <3>1, <3>3, <3>4 DEF At
  <2>2. CASE ~odd
    <3>1. shifted = digits
      BY <2>2, ConcatEmptySeq
    <3> HIDE DEF shifted
    <3> QED BY <2>2, <3>1 DEF At
  <2> QED BY <2>1, <2>2
<1>4. \A k \in Int : At(digits, k) \in Digits
  BY <1>2, ElementOfSeq DEF At
<1> HIDE DEF shifted
<1>5. \A i \in 1 .. 14 : v[i] = At(digits, IF odd THEN i - 1 ELSE i)
  BY <1>1, <1>3
<1>6. \A i \in 1 .. 14 : v[i] \in Digits
  BY <1>4, <1>5
<1> QED BY <1>1, <1>5, <1>6

(* A mantissa does not start with 0, but for zero itself. *)
Normal(exp, h) ==
  /\ exp \in Exponents
  /\ h \in Mantissas
  /\ h[1] # 0 \/ (exp = 0 /\ \A i \in 1 .. 7 : h[i] = 0)

IsDouble(d) ==
  \E negative \in BOOLEAN : \E exp \in Exponents : \E h \in Mantissas :
    Normal(exp, h) /\ d = Written(negative, exp, h)

Hundreds(v) == [i \in 1 .. 7 |-> 10 * v[2 * i - 1] + v[2 * i]]

LEMMA HundredsAre ==
  ASSUME NEW v \in [1 .. 14 -> Digits]
  PROVE  Hundreds(v) \in Mantissas /\ \A i \in 1 .. 7 : Hundreds(v)[i] = 10 * v[2 * i - 1] + v[2 * i]
<1>1. ASSUME NEW i \in 1 .. 7
      PROVE  10 * v[2 * i - 1] + v[2 * i] \in {n \in Nat : n < 100}
  <2>1. 2 * i - 1 \in 1 .. 14 /\ 2 * i \in 1 .. 14
    OBVIOUS
  <2>2. v[2 * i - 1] \in Digits /\ v[2 * i] \in Digits
    BY <2>1
  <2>3. \A x, y \in Digits : 10 * x + y \in {n \in Nat : n < 100}
    BY DEF Digits
  <2> QED BY <2>2, <2>3
<1> QED BY <1>1 DEF Hundreds, Mantissas

LEMMA HundredZero ==
  \A x, y \in Digits : (10 * x + y = 0) <=> (x = 0 /\ y = 0)
BY DEF Digits

LEMMA Base100Is == \A dp \in Int : Base100(dp) \in Int
BY DEF Base100, Half

(* tireal_atof writes an exponent and a mantissa that is zero only if the  *)
(* exponent is; which ones, is in terms of what it read.                   *)
LEMMA AtofIs ==
  ASSUME NEW text, HasDigits(text), Point(text) \in Int, InRange(text)
  PROVE  /\ IsDouble(tireal_atof(text))
         /\ \E exp \in Exponents : \E h \in Mantissas :
              /\ Normal(exp, h)
              /\ tireal_atof(text) = Written(text.negative, exp, h)
              /\ exp = IF Significand(text).digits = <<>> THEN 0 ELSE Base100(Point(text))
              /\ h = Hundreds(Aligned(Significand(text).digits,
                                      Significand(text).digits # <<>> /\ Point(text) % 2 = 1))
<1> DEFINE digits == Significand(text).digits
           odd == digits # <<>> /\ Point(text) % 2 = 1
           v == Aligned(digits, odd)
           exp == IF digits = <<>> THEN 0 ELSE Base100(Point(text))
           h == Hundreds(v)
<1>1. /\ digits \in Seq(Digits) /\ Len(digits) <= 14
      /\ digits # <<>> => Len(digits) > 0 /\ digits[1] # 0
  BY SignificandIs
<1>2. tireal_atof(text) = Written(text.negative, exp, h)
  BY DEF tireal_atof, Hundreds
<1>3. odd \in BOOLEAN
  OBVIOUS
<1>4. exp \in Exponents
  <2>1. CASE digits = <<>>
    BY <2>1 DEF Exponents
  <2>2. CASE digits # <<>>
    BY <2>2, Base100Is DEF Exponents, InRange
  <2> QED BY <2>1, <2>2
<1> HIDE DEF odd, digits, exp
<1>5. v \in [1 .. 14 -> Digits] /\ \A i \in 1 .. 14 : v[i] = At(digits, IF odd THEN i - 1 ELSE i)
  BY <1>1, <1>3, AlignedIs
<1> HIDE DEF v
<1>6. h \in Mantissas /\ \A i \in 1 .. 7 : h[i] = 10 * v[2 * i - 1] + v[2 * i]
  BY <1>5, HundredsAre
<1> HIDE DEF h
<1>7. h[1] # 0 \/ (exp = 0 /\ \A i \in 1 .. 7 : h[i] = 0)
  <2>1. CASE digits = <<>>
    <3>1. \A k \in Int : At(digits, k) = 0
      BY <2>1 DEF At
    <3>2. \A i \in 1 .. 14 : v[i] = 0
      BY <1>5, <3>1
    <3>3. \A i \in 1 .. 7 : 2 * i - 1 \in 1 .. 14 /\ 2 * i \in 1 .. 14
      OBVIOUS
    <3>4. \A i \in 1 .. 7 : h[i] = 0
      BY <1>6, <3>2, <3>3
    <3>5. exp = 0
      BY <2>1 DEF exp
    <3> QED BY <3>4, <3>5
  <2>2. CASE digits # <<>>
    <3>1. Len(digits) \in Nat /\ DOMAIN digits = 1 .. Len(digits)
      BY <1>1
    <3>2. At(digits, 1) # 0
      BY <1>1, <2>2, <3>1 DEF At
    <3>3. v[1] \in Digits /\ v[2] \in Digits
      BY <1>5
    <3>4. v[1] # 0 \/ v[2] # 0
      BY <1>5, <3>2
    <3>5. h[1] = 10 * v[1] + v[2]
      BY <1>6
    <3> QED BY <3>3, <3>4, <3>5, HundredZero
  <2> QED BY <2>1, <2>2
<1>8. Normal(exp, h)
  BY <1>4, <1>6, <1>7 DEF Normal
<1>9. text.negative \in BOOLEAN
  BY DEF HasDigits
<1>10. IsDouble(tireal_atof(text))
  BY <1>2, <1>4, <1>6, <1>8, <1>9 DEF IsDouble
<1>11. h = Hundreds(Aligned(digits, odd))
  BY DEF h, v
<1> QED BY <1>2, <1>4, <1>6, <1>8, <1>10, <1>11 DEF digits, odd, exp

-----------------------------------------------------------------------------
(* Exponents. *)

LEMMA ExponentOfDigits ==
  ASSUME NEW text, text.exponent \in Seq(Digits), text.sign \in {"plus", "minus", "none"}
  PROVE  /\ Number(text.exponent) \in Nat
         /\ Exponent(text) = IF text.sign = "plus" THEN 0
                             ELSE IF text.sign = "minus" THEN -Number(text.exponent)
                             ELSE Number(text.exponent)
<1> DEFINE s == text.exponent
           bad == {i \in DOMAIN s : s[i] > 9} \cup {Len(s) + 1}
<1>1. Len(s) \in Nat /\ \A i \in DOMAIN s : s[i] \in Digits
  OBVIOUS
<1>2. bad = {Len(s) + 1}
  BY <1>1 DEF Digits
<1>3. Min(bad) = Len(s) + 1
  <2>1. bad \in SUBSET Int /\ Len(s) + 1 \in bad /\ \A k \in bad : Len(s) + 1 <= k
    BY <1>1, <1>2
  <2> HIDE DEF bad
  <2> QED BY ONLY <2>1, Least
<1>4. SubSeq(s, 1, Min(bad) - 1) = s
  <2>1. Min(bad) - 1 = Len(s)
    BY <1>1, <1>3
  <2> QED BY <2>1, SubSeqFull
<1>5. Number(s) \in Nat
  <2>1. s \in Seq(Nat)
    BY SeqMonotonic DEF Digits
  <2> QED BY <2>1, NumberNat
<1>6. Exponent(text) = CASE text.sign = "plus" -> 0
                         [] text.sign = "minus" -> -Number(SubSeq(s, 1, Min(bad) - 1))
                         [] text.sign = "none" -> Number(SubSeq(s, 1, Min(bad) - 1))
  BY DEF Exponent
<1> HIDE DEF bad, s
<1>7. text.sign = "plus" \/ text.sign = "minus" \/ text.sign = "none"
  OBVIOUS
<1>8. Exponent(text) = IF text.sign = "plus" THEN 0
                       ELSE IF text.sign = "minus" THEN -Number(s) ELSE Number(s)
  BY ONLY <1>4, <1>6, <1>7
<1> QED BY <1>5, <1>8 DEF s

LEMMA PrintedExponent ==
  ASSUME NEW text, NEW e \in Nat, e < 129,
         text.exponent = ExponentCharacters(e), text.sign \in {"minus", "none"}
  PROVE  /\ Exponent(text) \in Int /\ -100 < Exponent(text) /\ Exponent(text) < 100
         /\ Len(text.exponent) = IF e = 0 THEN 0 ELSE IF e < 10 THEN 1 ELSE 2
         /\ e < 10 => Exponent(text) = IF text.sign = "minus" THEN -e ELSE e
<1> DEFINE c == e \div 10
<1>1. c \in Nat /\ c < 13
  OBVIOUS
<1>2. CASE e < 10
  <2>1. /\ text.exponent \in Seq(Digits)
        /\ Len(text.exponent) = IF e = 0 THEN 0 ELSE 1
        /\ Number(text.exponent) = e
    <3>1. CASE e = 0
      <4>1. text.exponent = <<>>
        BY <3>1 DEF ExponentCharacters
      <4>2. <<>> \in Seq(Digits) /\ Len(<<>>) = 0
        OBVIOUS
      <4> QED BY ONLY <3>1, <4>1, <4>2, NumberOfNone
    <3>2. CASE e # 0
      <4>1. e \in 1 .. 9 /\ e \in Digits
        BY <1>2, <3>2 DEF Digits
      <4>2. text.exponent = <<e>>
        BY <3>2, <4>1 DEF ExponentCharacters
      <4>3. <<e>> \in Seq(Digits) /\ Len(<<e>>) = 1
        BY <4>1
      <4> QED BY <3>2, <4>2, <4>3, NumberOfOne
    <3> QED BY <3>1, <3>2
  <2>2. Exponent(text) = IF text.sign = "minus" THEN -e ELSE e
    BY <2>1, ExponentOfDigits
  <2> QED BY <1>2, <2>1, <2>2
<1>3. CASE ~(e < 10)
  <2>1. e # 0 /\ e \notin 1 .. 9
    BY <1>3
  <2>2. text.exponent = <<c, c>>
    BY <2>1 DEF ExponentCharacters
  <2>3. Len(text.exponent) = 2
    BY <2>2
  <2> HIDE DEF c
  <2>4. CASE c < 10
    <3>1. c \in Digits
      BY <1>1, <2>4 DEF Digits
    <3>2. text.exponent \in Seq(Digits)
      BY <2>2, <3>1
    <3>3. Number(text.exponent) = 10 * c + c
      BY <1>1, <2>2, NumberOfTwo
    <3>4. Exponent(text) = IF text.sign = "minus" THEN -(10 * c + c) ELSE 10 * c + c
      BY <3>2, <3>3, ExponentOfDigits
    <3> QED BY <1>1, <1>3, <2>1, <2>3, <2>4, <3>4
  <2>5. CASE ~(c < 10)
    <3> DEFINE s == text.exponent
               bad == {i \in DOMAIN s : s[i] > 9} \cup {Len(s) + 1}
    <3>1. bad \in SUBSET Int /\ 1 \in bad /\ \A k \in bad : 1 <= k
      BY <1>1, <2>2, <2>3, <2>5
    <3>2. Min(bad) = 1
      <4> HIDE DEF bad
      <4> QED BY <3>1, Least
    <3>3. SubSeq(s, 1, Min(bad) - 1) = <<>>
      <4>1. Min(bad) - 1 = 0
        BY <3>2
      <4>2. SubSeq(s, 1, 0) = <<>>
        BY SubSeqEmpty
      <4> HIDE DEF bad, s
      <4> QED BY <4>1, <4>2
    <3>4. Exponent(text) = CASE text.sign = "plus" -> 0
                             [] text.sign = "minus" -> -Number(SubSeq(s, 1, Min(bad) - 1))
                             [] text.sign = "none" -> Number(SubSeq(s, 1, Min(bad) - 1))
      BY DEF Exponent
    <3> HIDE DEF bad, s
    <3>5. Number(SubSeq(s, 1, Min(bad) - 1)) = 0
      BY ONLY <3>3, NumberOfNone, Zenon
    <3>6. Number(SubSeq(s, 1, Min(bad) - 1)) \in Nat /\ Number(SubSeq(s, 1, Min(bad) - 1)) < 1
      BY ONLY <3>5
    <3>7. Exponent(text) \in Int /\ -100 < Exponent(text) /\ Exponent(text) < 100
      BY <3>4, <3>6
    <3> QED BY <1>3, <2>1, <2>3, <3>7
  <2> QED BY <2>4, <2>5
<1> QED BY <1>2, <1>3

-----------------------------------------------------------------------------
(* The text of a double. *)

(* The decimal digits of a mantissa. *)
Place(h, i) == IF i % 2 = 1 THEN h[(i + 1) \div 2] \div 10 ELSE h[(i + 1) \div 2] % 10

LEMMA PlaceIs ==
  ASSUME NEW h \in Mantissas
  PROVE  /\ \A i \in 1 .. 14 : Place(h, i) \in Digits
         /\ \A i \in 1 .. 7 : Place(h, 2 * i - 1) = h[i] \div 10 /\ Place(h, 2 * i) = h[i] % 10
         /\ \A i \in 1 .. 7 : 10 * Place(h, 2 * i - 1) + Place(h, 2 * i) = h[i]
<1>1. \A i \in 1 .. 14 : (i + 1) \div 2 \in 1 .. 7
  OBVIOUS
<1>2. \A n \in Nat : n < 100 => n \div 10 \in Digits /\ n % 10 \in Digits /\ 10 * (n \div 10) + (n % 10) = n
  BY DEF Digits
<1>3. \A i \in 1 .. 14 : Place(h, i) \in Digits
  BY <1>1, <1>2, HundredsOf DEF Place
<1>4. \A i \in 1 .. 7 : (2 * i - 1) % 2 = 1 /\ (2 * i - 1 + 1) \div 2 = i /\ (2 * i) % 2 = 0 /\ (2 * i + 1) \div 2 = i
  OBVIOUS
<1>5. \A i \in 1 .. 7 : Place(h, 2 * i - 1) = h[i] \div 10 /\ Place(h, 2 * i) = h[i] % 10
  BY <1>4 DEF Place
<1> QED BY <1>2, <1>3, <1>5, HundredsOf

(* How many digits stand before the point. *)
LeadLength(h) == IF h[1] > 9 THEN 2 ELSE 1

(* The text has the digits of the mantissa. *)
Spells(text, h) ==
  /\ text.whole = IF h[1] > 9 THEN <<Place(h, 1), Place(h, 2)>> ELSE <<Place(h, 2)>>
  /\ text.fraction = [i \in 1 .. 12 |-> Place(h, i + 2)]

(* What tireal_ftoa prints of a double: exponent x, for that of a negative *)
(* zero is one more.                                                       *)
LEMMA Printed ==
  ASSUME NEW negative \in BOOLEAN, NEW exp \in Exponents, NEW h \in Mantissas,
         NEW d, d = Written(negative, exp, h), NEW text, text = tireal_ftoa(d),
         NEW x, x = IF negative /\ h[1] = 0 THEN exp + 1 ELSE exp
  PROVE  /\ text.negative \in BOOLEAN /\ (text.negative <=> negative)
         /\ Spells(text, h)
         /\ text.sign = IF x < 64 THEN "minus" ELSE "none"
         /\ text.exponent = ExponentCharacters(IF x < 64 THEN 2 * (64 - x) ELSE 2 * (x - 64))
<1> DEFINE first == FirstWord(d)
           magnitude == Magnitude(first)
           lead == magnitude % 256
           e == 2 * ((magnitude \div 256) - 64)
           whole == (IF lead > 9 THEN <<lead \div 10>> ELSE <<>>) \o <<lead % 10>>
           fraction == [i \in 1 .. 12 |-> LET n == d[2 + (i + 1) \div 2]
                                          IN  IF i % 2 = 1 THEN n \div 10 ELSE n % 10]
<1>1. text = Text(first < 0, whole, fraction, IF e < 0 THEN "minus" ELSE "none",
                  ExponentCharacters(IF e < 0 THEN -e ELSE e))
  BY DEF tireal_ftoa, Magnitude
<1>2. first \in Int /\ ((first < 0) <=> negative) /\ lead = h[1] /\ magnitude \div 256 = x
  BY FirstWordOfWritten
<1>3. h[1] \in Nat /\ h[1] < 100 /\ x \in Nat /\ x < 129
  BY HundredsOf DEF Exponents
<1>4. Place(h, 1) = h[1] \div 10 /\ Place(h, 2) = h[1] % 10
  <2>1. 1 \in 1 .. 7 /\ 2 * 1 - 1 = 1 /\ 2 * 1 = 2
    OBVIOUS
  <2> QED BY <2>1, PlaceIs
<1>5. whole = IF h[1] > 9 THEN <<Place(h, 1), Place(h, 2)>> ELSE <<Place(h, 2)>>
  <2>1. \A a, b \in Digits : <<a>> \o <<b>> = <<a, b>> /\ <<>> \o <<b>> = <<b>>
    BY OneAndOne
  <2>3. Place(h, 1) \in Digits /\ Place(h, 2) \in Digits
    <3>1. 1 \in 1 .. 14 /\ 2 \in 1 .. 14
      OBVIOUS
    <3> QED BY <3>1, PlaceIs
  <2>2. whole = (IF h[1] > 9 THEN <<Place(h, 1)>> ELSE <<>>) \o <<Place(h, 2)>>
    BY <1>2, <1>4
  <2> HIDE DEF whole
  <2> QED BY ONLY <2>1, <2>2, <2>3
<1>6. fraction = [i \in 1 .. 12 |-> Place(h, i + 2)]
  <2> SUFFICES ASSUME NEW i \in 1 .. 12
               PROVE  (LET n == d[2 + (i + 1) \div 2] IN  IF i % 2 = 1 THEN n \div 10 ELSE n % 10) = Place(h, i + 2)
    OBVIOUS
  <2>1. /\ 2 + (i + 1) \div 2 \in 3 .. 8
        /\ 2 + (i + 1) \div 2 - 1 = (i + 2 + 1) \div 2
        /\ ((i + 2) % 2 = 1) <=> (i % 2 = 1)
    BY ONLY i \in 1 .. 12
  <2>3. \A j \in 3 .. 8 : d[j] = h[j - 1]
    <3>1. /\ d \in Seq(Nat) /\ Len(d) = 8
          /\ d[1] = IF negative THEN 255 - exp ELSE exp
          /\ d[2] = IF negative /\ h[1] # 0 THEN 256 - h[1] ELSE h[1]
          /\ \A j \in 3 .. 8 : d[j] = h[j - 1]
      BY ONLY negative \in BOOLEAN, exp \in Exponents, h \in Mantissas, d = Written(negative, exp, h), Written8
    <3> QED BY ONLY <3>1
  <2>2. d[2 + (i + 1) \div 2] = h[(i + 2 + 1) \div 2]
    BY <2>1, <2>3
  <2> QED BY <2>1, <2>2 DEF Place
<1> HIDE DEF first, magnitude, lead, whole, fraction
<1>7. (e < 0 <=> x < 64) /\ (e < 0 => -e = 2 * (64 - x)) /\ e = 2 * (x - 64)
  BY <1>2, <1>3
<1> HIDE DEF e
<1>8. /\ text.negative = (first < 0) /\ text.whole = whole /\ text.fraction = fraction
      /\ text.sign = IF e < 0 THEN "minus" ELSE "none"
      /\ text.exponent = ExponentCharacters(IF e < 0 THEN -e ELSE e)
  BY <1>1 DEF Text
<1>9. text.negative \in BOOLEAN /\ (text.negative <=> negative)
  BY <1>2, <1>8
<1>10. /\ text.sign = IF x < 64 THEN "minus" ELSE "none"
       /\ text.exponent = ExponentCharacters(IF x < 64 THEN 2 * (64 - x) ELSE 2 * (x - 64))
  BY <1>7, <1>8
<1>11. Spells(text, h)
  BY <1>5, <1>6, <1>8 DEF Spells
<1> QED BY <1>9, <1>10, <1>11

(* The digits of the text, one behind the other. *)
InSequence(whole, fraction, h, k) ==
  /\ whole \in Seq(Digits) /\ Len(whole) = k
  /\ \A i \in 1 .. k : whole[i] = Place(h, i + 2 - k)
  /\ fraction \in Seq(Digits) /\ Len(fraction) = 12
  /\ \A i \in 1 .. 12 : fraction[i] = Place(h, i + 2)
  /\ whole \o fraction \in Seq(Digits)
  /\ Len(whole \o fraction) = 12 + k
  /\ \A i \in 1 .. 12 + k : (whole \o fraction)[i] = Place(h, i + 2 - k)

(* The digits of the text, as one sequence.                                *)
LEMMA PrintedDigits ==
  ASSUME NEW h \in Mantissas, NEW text, Spells(text, h), NEW k, k = LeadLength(h)
  PROVE  InSequence(text.whole, text.fraction, h, k)
<1>1. \A i \in 1 .. 14 : Place(h, i) \in Digits
  BY PlaceIs
<1>2. /\ text.whole \in Seq(Digits) /\ Len(text.whole) = k
      /\ \A i \in 1 .. k : text.whole[i] = Place(h, i + 2 - k)
  <2>1. Place(h, 1) \in Digits /\ Place(h, 2) \in Digits
    BY <1>1
  <2>2. CASE h[1] > 9
    <3>1. text.whole = <<Place(h, 1), Place(h, 2)>> /\ k = 2
      BY <2>2 DEF Spells, LeadLength
    <3>2. \A i \in 1 .. k : i = 1 \/ i = 2
      BY <3>1
    <3>3. 1 + 2 - k = 1 /\ 2 + 2 - k = 2
      BY <3>1
    <3>4. text.whole[1] = Place(h, 1) /\ text.whole[2] = Place(h, 2)
      BY <3>1
    <3>5. \A i \in 1 .. k : text.whole[i] = Place(h, i + 2 - k)
      BY ONLY <3>2, <3>3, <3>4
    <3>6. text.whole \in Seq(Digits) /\ Len(text.whole) = 2
      BY <2>1, <3>1
    <3> QED BY ONLY <3>1, <3>5, <3>6
  <2>3. CASE ~(h[1] > 9)
    <3>1. text.whole = <<Place(h, 2)>> /\ k = 1
      BY <2>3 DEF Spells, LeadLength
    <3>2. \A i \in 1 .. k : i = 1
      BY <3>1
    <3>3. 1 + 2 - k = 2
      BY <3>1
    <3>4. text.whole[1] = Place(h, 2)
      BY <3>1
    <3>5. \A i \in 1 .. k : text.whole[i] = Place(h, i + 2 - k)
      BY ONLY <3>2, <3>3, <3>4
    <3>6. text.whole \in Seq(Digits) /\ Len(text.whole) = 1
      BY <2>1, <3>1
    <3> QED BY ONLY <3>1, <3>5, <3>6
  <2> QED BY <2>2, <2>3
<1>3. PICK n \in Nat : n = 12
  OBVIOUS
<1>4. text.fraction \in Seq(Digits) /\ Len(text.fraction) = n /\ \A i \in 1 .. n : text.fraction[i] = Place(h, i + 2)
  <2>1. \A i \in 1 .. 12 : i + 2 \in 1 .. 14
    OBVIOUS
  <2>2. text.fraction \in [1 .. n -> Digits] /\ \A i \in 1 .. n : text.fraction[i] = Place(h, i + 2)
    BY <1>1, <1>3, <2>1 DEF Spells
  <2> QED BY ONLY <2>2, n \in Nat, FunctionSeq
<1> DEFINE whole == text.whole
           fraction == text.fraction
           ds == whole \o fraction
<1> HIDE DEF whole, fraction
<1>5. /\ ds \in Seq(Digits) /\ Len(ds) = Len(whole) + Len(fraction)
      /\ \A i \in 1 .. Len(whole) + Len(fraction) :
           ds[i] = IF i <= Len(whole) THEN whole[i] ELSE fraction[i - Len(whole)]
  <2>1. whole \in Seq(Digits) /\ fraction \in Seq(Digits)
    BY ONLY <1>2, <1>4 DEF whole, fraction
  <2> QED BY ONLY <2>1, ConcatProperties
<1>6. Len(whole) = k /\ Len(fraction) = n /\ k \in Nat
  BY <1>2, <1>4 DEF whole, fraction, LeadLength
<1> HIDE DEF ds
<1>7. ASSUME NEW i \in 1 .. n + k PROVE ds[i] = Place(h, i + 2 - k)
  <2>0. i \in 1 .. Len(whole) + Len(fraction)
    BY <1>6
  <2>1. CASE i <= k
    <3>1. i \in 1 .. k
      BY <1>6, <2>1
    <3> QED BY <1>2, <1>5, <1>6, <2>0, <2>1, <3>1 DEF whole
  <2>2. CASE ~(i <= k)
    <3>1. i - k \in 1 .. n /\ i - k + 2 = i + 2 - k
      BY <1>6, <2>2
    <3>2. ds[i] = fraction[i - k]
      BY <1>5, <1>6, <2>0, <2>2
    <3> QED BY <1>4, <3>1, <3>2 DEF fraction
  <2> QED BY <2>1, <2>2
<1>8. Len(ds) = 12 + k /\ n + k = 12 + k
  BY <1>3, <1>5, <1>6
<1>9. \A i \in 1 .. 12 : fraction[i] = Place(h, i + 2)
  BY <1>3, <1>4 DEF fraction
<1>10. fraction \in Seq(Digits) /\ Len(fraction) = 12
  BY <1>3, <1>4 DEF fraction
<1>11. InSequence(whole, fraction, h, k)
  BY ONLY <1>2, <1>5, <1>7, <1>8, <1>9, <1>10 DEF InSequence, ds, whole
<1> QED BY <1>11 DEF whole, fraction

-----------------------------------------------------------------------------
(* Reading the text of a double. *)

LEMMA Base100Bounds ==
  \A k \in 1 .. 2 : \A e \in Int :
    -100 < e /\ e < 100 => Base100(k + e) \in Int /\ 0 <= Base100(k + e) /\ Base100(k + e) < 128
<1> SUFFICES ASSUME NEW dp \in Int, -100 < dp, dp < 102
             PROVE  Base100(dp) \in Int /\ 0 <= Base100(dp) /\ Base100(dp) < 128
  BY Z3
<1>1. Half(dp) \in Int /\ -51 < Half(dp) /\ Half(dp) < 52
  BY DEF Half
<1> QED BY <1>1 DEF Base100

(* The exponent of the text, to the base 10, gives that to the base 100.   *)
LEMMA Base100Again ==
  \A x \in Exponents : \A k \in 1 .. 2 :
    /\ Base100(k + 2 * (x - 64)) = x
    /\ ((k + 2 * (x - 64)) % 2 = 1) <=> (k = 1)
<1> SUFFICES ASSUME NEW x \in Exponents, NEW k \in 1 .. 2
             PROVE  /\ Base100(k + 2 * (x - 64)) = x
                    /\ ((k + 2 * (x - 64)) % 2 = 1) <=> (k = 1)
  OBVIOUS
<1>1. x \in Nat
  BY DEF Exponents
<1>2. CASE k = 1
  <2>1. (1 + 2 * (x - 64)) % 2 = 1
    BY <1>1
  <2>2. CASE x >= 64
    <3>1. 1 + 2 * (x - 64) > 0 /\ (1 + 2 * (x - 64)) \div 2 = x - 64
      BY <1>1, <2>2
    <3> QED BY <1>1, <1>2, <2>1, <3>1 DEF Base100, Half
  <2>3. CASE x < 64
    <3>1. 1 + 2 * (x - 64) < 0 /\ (-(1 + 2 * (x - 64))) \div 2 = 63 - x
      BY <1>1, <2>3
    <3> QED BY <1>1, <1>2, <2>1, <3>1 DEF Base100, Half
  <2> QED BY <1>1, <2>2, <2>3
<1>3. CASE k = 2
  <2>1. (2 + 2 * (x - 64)) % 2 = 0
    BY <1>1
  <2>2. CASE x >= 63
    <3>1. 2 + 2 * (x - 64) >= 0 /\ (2 + 2 * (x - 64)) \div 2 = x - 63
      BY <1>1, <2>2
    <3> QED BY <1>1, <1>3, <2>1, <3>1 DEF Base100, Half
  <2>3. CASE x < 63
    <3>1. 2 + 2 * (x - 64) < 0 /\ (-(2 + 2 * (x - 64))) \div 2 = 63 - x
      BY <1>1, <2>3
    <3> QED BY <1>1, <1>3, <2>1, <3>1 DEF Base100, Half
  <2> QED BY <1>1, <2>2, <2>3
<1> QED BY <1>2, <1>3

(* What is read of it. *)
LEMMA PrintedSignificand ==
  ASSUME NEW h \in Mantissas, h[1] # 0 \/ \A i \in 1 .. 7 : h[i] = 0, NEW text, text.negative \in BOOLEAN,
         Spells(text, h), NEW k, k = LeadLength(h)
  PROVE  /\ HasDigits(text)
         /\ Significand(text).digits = IF h[1] = 0 THEN <<>> ELSE text.whole \o text.fraction
         /\ h[1] # 0 => Significand(text).point = k /\ ~Significand(text).full
<1> DEFINE whole == text.whole
           fraction == text.fraction
<1>0. InSequence(whole, fraction, h, k)
  BY PrintedDigits
<1>1. /\ whole \in Seq(Digits) /\ Len(whole) = k
      /\ \A i \in 1 .. k : whole[i] = Place(h, i + 2 - k)
      /\ fraction \in Seq(Digits) /\ Len(fraction) = 12
      /\ \A i \in 1 .. 12 : fraction[i] = Place(h, i + 2)
      /\ whole \o fraction \in Seq(Digits)
      /\ Len(whole \o fraction) = 12 + k
  BY ONLY <1>0 DEF InSequence
<1>2. HasDigits(text)
  BY <1>1 DEF HasDigits
<1>3. k \in 1 .. 2 /\ h[1] \in Nat /\ h[1] < 100
  BY HundredsOf DEF LeadLength
<1>4. CASE h[1] # 0
  <2>1. whole[1] # 0
    <3>1. 1 \in 1 .. k /\ 1 \in 1 .. 7 /\ 2 * 1 - 1 = 1 /\ 2 * 1 = 2
      BY <1>3
    <3>2. Place(h, 1) = h[1] \div 10 /\ Place(h, 2) = h[1] % 10
      BY <3>1, PlaceIs
    <3>3. whole[1] = Place(h, 3 - k)
      <4>1. 1 + 2 - k = 3 - k
        BY <1>3
      <4> QED BY <1>1, <3>1, <4>1
    <3>4. \A n \in Nat : (n > 9 => n \div 10 # 0) /\ (n # 0 /\ ~(n > 9) => n % 10 # 0)
      OBVIOUS
    <3>5. h[1] > 9 => 3 - k = 1
      BY DEF LeadLength
    <3>6. ~(h[1] > 9) => 3 - k = 2
      BY DEF LeadLength
    <3> QED BY <1>3, <1>4, <3>2, <3>3, <3>4, <3>5, <3>6
  <2>2. WithoutLeadingZeros(whole) = whole /\ whole # <<>>
    <3>1. Len(whole) > 0
      BY <1>1, <1>3
    <3>2. whole \in Seq(Digits)
      BY <1>1
    <3>3. WithoutLeadingZeros(whole) = whole
      BY ONLY <2>1, <3>1, <3>2, StripNothing
    <3>4. whole # <<>>
      <4>1. Len(<<>>) = 0
        OBVIOUS
      <4> HIDE DEF whole
      <4> QED BY ONLY <3>1, <4>1
    <3> QED BY <3>3, <3>4
  <2>3. Take(whole \o fraction, 14) = whole \o fraction /\ Take(whole, 14) = whole /\ ~(Len(whole \o fraction) > 14)
    <3>1. Len(whole \o fraction) <= 14 /\ Len(whole) <= 14
      <4>1. Len(whole) = k /\ Len(whole \o fraction) = 12 + k
        BY <1>1
      <4> HIDE DEF whole, fraction
      <4> QED BY ONLY <1>3, <4>1
    <3> DEFINE ds == whole \o fraction
    <3>5. ds \in Seq(Digits) /\ Len(ds) <= 14 /\ whole \in Seq(Digits)
      BY <1>1, <3>1
    <3> HIDE DEF ds, whole, fraction
    <3>2. Take(whole \o fraction, 14) = whole \o fraction
      <4>1. Take(ds, 14) = ds
        BY ONLY <3>5, 14 \in Nat, TakeIs
      <4> QED BY <4>1 DEF ds
    <3>3. Take(whole, 14) = whole
      BY ONLY <3>1, <3>5, 14 \in Nat, TakeIs
    <3>4. ~(Len(whole \o fraction) > 14)
      BY ONLY <1>1, <1>3
    <3> QED BY ONLY <3>2, <3>3, <3>4
  <2>4. /\ Significand(text).digits = Take(whole \o fraction, 14)
        /\ Significand(text).point = Len(Take(whole, 14)) - (Len(fraction) - Len(fraction))
        /\ Significand(text).full = (Len(whole \o fraction) > 14)
    BY <2>2 DEF Significand, Places
  <2> HIDE DEF whole, fraction
  <2>5. Significand(text).point = k
    BY <1>1, <1>3, <2>3, <2>4
  <2> QED BY <1>2, <1>4, <2>3, <2>4, <2>5 DEF whole, fraction
<1>5. CASE h[1] = 0
  <2>1. \A i \in 1 .. 14 : Place(h, i) = 0
    <3>1. \A i \in 1 .. 14 : (i + 1) \div 2 \in 1 .. 7
      OBVIOUS
    <3>2. \A i \in 1 .. 7 : h[i] = 0
      BY <1>5
    <3> QED BY <3>1, <3>2 DEF Place
  <2>2. \A i \in 1 .. k : i + 2 - k \in 1 .. 14
    BY <1>3
  <2>3. \A i \in 1 .. Len(whole) : whole[i] = 0
    BY <1>1, <2>1, <2>2
  <2>4. \A i \in 1 .. Len(fraction) : fraction[i] = 0
    <3>1. \A i \in 1 .. 12 : i + 2 \in 1 .. 14
      OBVIOUS
    <3>2. Len(fraction) = 12 /\ \A i \in 1 .. 12 : fraction[i] = 0
      <4> HIDE DEF fraction
      <4> QED BY ONLY <1>1, <2>1, <3>1
    <3> HIDE DEF fraction
    <3> QED BY ONLY <3>2
  <2>5. WithoutLeadingZeros(whole) = <<>> /\ WithoutLeadingZeros(fraction) = <<>>
    BY <1>1, <2>3, <2>4, StripAll
  <2>6. Significand(text).digits = Take(<<>> \o <<>>, 14)
    BY <2>5 DEF Significand, Places
  <2>7. <<>> \o <<>> = <<>> /\ <<>> \in Seq(Digits) /\ Len(<<>>) <= 14
    OBVIOUS
  <2>8. Take(<<>>, 14) = <<>>
    BY <2>7, TakeIs
  <2> QED BY <1>2, <1>5, <2>6, <2>7, <2>8
<1> QED BY <1>4, <1>5

(* The digits of the text are put back where they were in the mantissa. *)
LEMMA SpelledBack ==
  ASSUME NEW h \in Mantissas, NEW text, Spells(text, h), NEW odd \in BOOLEAN, odd <=> (LeadLength(h) = 1)
  PROVE  Hundreds(Aligned(text.whole \o text.fraction, odd)) = h
<1> DEFINE k == LeadLength(h)
           ds == text.whole \o text.fraction
           v == Aligned(ds, odd)
<1>1. InSequence(text.whole, text.fraction, h, k)
  BY PrintedDigits
<1>2. ds \in Seq(Digits) /\ Len(ds) = 12 + k /\ \A i \in 1 .. 12 + k : ds[i] = Place(h, i + 2 - k)
  BY ONLY <1>1 DEF InSequence
<1>3. k \in 1 .. 2 /\ h[1] \in Nat /\ h[1] < 100 /\ (k = 1 <=> ~(h[1] > 9))
  BY HundredsOf DEF LeadLength
<1> HIDE DEF ds
<1>4. Len(ds) <= 14
  BY <1>2, <1>3
<1>5. v \in [1 .. 14 -> Digits] /\ \A i \in 1 .. 14 : v[i] = At(ds, IF odd THEN i - 1 ELSE i)
  BY ONLY <1>2, <1>4, odd \in BOOLEAN, AlignedIs
<1>6. DOMAIN ds = 1 .. 12 + k
  BY <1>2
<1> HIDE DEF v
<1>7. ASSUME NEW i \in 1 .. 14 PROVE v[i] = Place(h, i)
  <2>1. CASE odd /\ i = 1
    <3>1. 0 \notin DOMAIN ds
      BY <1>3, <1>6
    <3>2. v[i] = 0
      BY <1>5, <2>1, <3>1 DEF At
    <3>3. Place(h, 1) = h[1] \div 10
      <4>1. 1 \in 1 .. 7 /\ 2 * 1 - 1 = 1
        OBVIOUS
      <4> QED BY <4>1, PlaceIs
    <3>4. h[1] \div 10 = 0
      BY <1>3, <2>1
    <3> QED BY <2>1, <3>2, <3>3, <3>4
  <2>2. CASE odd /\ i # 1
    <3>1. k = 1 /\ i - 1 \in 1 .. 12 + k /\ i - 1 + 2 - k = i
      BY <2>2
    <3>2. v[i] = ds[i - 1]
      BY <1>5, <1>6, <2>2, <3>1 DEF At
    <3> QED BY <1>2, <3>1, <3>2
  <2>3. CASE ~odd
    <3>1. k = 2 /\ i \in 1 .. 12 + k /\ i + 2 - k = i
      BY <1>3, <2>3
    <3>2. v[i] = ds[i]
      BY <1>5, <1>6, <2>3, <3>1 DEF At
    <3> QED BY <1>2, <3>1, <3>2
  <2> QED BY <2>1, <2>2, <2>3
<1>8. Hundreds(v) \in Mantissas /\ \A i \in 1 .. 7 : Hundreds(v)[i] = 10 * v[2 * i - 1] + v[2 * i]
  BY <1>5, HundredsAre
<1>9. ASSUME NEW i \in 1 .. 7 PROVE Hundreds(v)[i] = h[i]
  <2>1. 2 * i - 1 \in 1 .. 14 /\ 2 * i \in 1 .. 14
    OBVIOUS
  <2>2. v[2 * i - 1] = Place(h, 2 * i - 1) /\ v[2 * i] = Place(h, 2 * i)
    BY <1>7, <2>1
  <2>3. 10 * Place(h, 2 * i - 1) + Place(h, 2 * i) = h[i]
    BY PlaceIs
  <2> QED BY <1>8, <2>2, <2>3
<1>10. Hundreds(v) = h
  BY <1>8, <1>9 DEF Mantissas
<1> QED BY <1>10 DEF v, ds

(* A double read and written again is a double, the same one if its        *)
(* exponent was printed right.                                             *)
LEMMA RereadDouble ==
  ASSUME NEW d, IsDouble(d)
  PROVE  /\ IsDouble(tireal_atof(tireal_ftoa(d)))
         /\ Printable(d) => tireal_atof(tireal_ftoa(d)) = d
<1>1. PICK negative \in BOOLEAN, exp \in Exponents, h \in Mantissas :
        Normal(exp, h) /\ d = Written(negative, exp, h)
  BY DEF IsDouble
<1> DEFINE text == tireal_ftoa(d)
           k == LeadLength(h)
           x == IF negative /\ h[1] = 0 THEN exp + 1 ELSE exp
           e == IF x < 64 THEN 2 * (64 - x) ELSE 2 * (x - 64)
           digits == Significand(text).digits
<1>2. /\ text.negative \in BOOLEAN /\ (text.negative <=> negative)
      /\ Spells(text, h)
      /\ text.sign = IF x < 64 THEN "minus" ELSE "none"
      /\ text.exponent = ExponentCharacters(e)
  BY <1>1, Printed
<1>3. /\ k \in 1 .. 2 /\ exp \in Nat /\ exp < 128 /\ x \in Nat /\ x < 129 /\ e \in Nat /\ e < 129
      /\ h[1] = 0 => exp = 0
      /\ h[1] # 0 \/ \A i \in 1 .. 7 : h[i] = 0
  BY <1>1 DEF LeadLength, Exponents, Normal
<1>4. /\ HasDigits(text)
      /\ digits = IF h[1] = 0 THEN <<>> ELSE text.whole \o text.fraction
      /\ h[1] # 0 => Significand(text).point = k /\ ~Significand(text).full
  BY <1>2, <1>3, PrintedSignificand
<1>5. text.sign \in {"minus", "none"}
  BY <1>2
<1>6. /\ Exponent(text) \in Int /\ -100 < Exponent(text) /\ Exponent(text) < 100
      /\ Len(text.exponent) = IF e = 0 THEN 0 ELSE IF e < 10 THEN 1 ELSE 2
      /\ e < 10 => Exponent(text) = IF text.sign = "minus" THEN -e ELSE e
  BY <1>2, <1>3, <1>5, PrintedExponent
<1> HIDE DEF text
<1>7. Point(text) \in Int /\ (h[1] # 0 => Point(text) = k + Exponent(text))
  <2>1. Significand(text).point \in Int
    BY <1>4, SignificandIs
  <2> QED BY <1>4, <1>6, <2>1 DEF Point
<1>8. InRange(text)
  <2>1. CASE h[1] = 0
    BY <1>4, <2>1 DEF InRange
  <2>2. CASE h[1] # 0
    <3>1. 0 <= Base100(k + Exponent(text)) /\ Base100(k + Exponent(text)) < 128
      BY <1>3, <1>6, Base100Bounds
    <3> QED BY <1>7, <2>2, <3>1 DEF InRange
  <2> QED BY <2>1, <2>2
<1>9. /\ IsDouble(tireal_atof(text))
      /\ tireal_atof(text) = Written(text.negative, IF digits = <<>> THEN 0 ELSE Base100(Point(text)),
                                     Hundreds(Aligned(digits, digits # <<>> /\ Point(text) % 2 = 1)))
  BY <1>4, <1>7, <1>8, AtofIs
<1>10. ASSUME Printable(d) PROVE tireal_atof(text) = d
  <2>1. e < 10
    BY <1>3, <1>6, <1>10 DEF Printable, text
  <2>2. h[1] # 0 /\ x = exp
    BY <1>3, <2>1
  <2>3. Exponent(text) = 2 * (exp - 64)
    <3>1. CASE exp < 64
      <4>1. text.sign = "minus" /\ e = 2 * (64 - exp)
        BY <1>2, <2>2, <3>1
      <4> QED BY <1>3, <1>6, <2>1, <4>1
    <3>2. CASE ~(exp < 64)
      <4>1. text.sign = "none" /\ e = 2 * (exp - 64)
        BY <1>2, <2>2, <3>2
      <4> QED BY <1>3, <1>6, <2>1, <4>1
    <3> QED BY <3>1, <3>2
  <2>4. Point(text) = k + 2 * (exp - 64)
    BY <1>7, <2>2, <2>3
  <2>5. Base100(Point(text)) = exp /\ ((Point(text) % 2 = 1) <=> (k = 1))
    BY <1>1, <1>3, <2>4, Base100Again
  <2>6. digits = text.whole \o text.fraction /\ digits # <<>>
    <3>1. InSequence(text.whole, text.fraction, h, k)
      BY <1>2, PrintedDigits
    <3>2. digits = text.whole \o text.fraction
      BY <1>4, <2>2
    <3>3. Len(text.whole \o text.fraction) = 12 + k
      BY ONLY <3>1 DEF InSequence
    <3>4. Len(<<>>) = 0
      OBVIOUS
    <3>5. Len(text.whole \o text.fraction) # 0
      BY ONLY <1>3, <3>3
    <3>6. text.whole \o text.fraction # <<>>
      BY ONLY <3>4, <3>5, Zenon
    <3> HIDE DEF digits
    <3> QED BY ONLY <3>2, <3>6, Zenon
  <2> DEFINE odd == digits # <<>> /\ Point(text) % 2 = 1
  <2>7. odd \in BOOLEAN /\ (odd <=> k = 1)
    BY <2>5, <2>6
  <2>8. Hundreds(Aligned(digits, odd)) = h
    <3> HIDE DEF odd
    <3>1. Hundreds(Aligned(text.whole \o text.fraction, odd)) = h
      BY <1>2, <2>7, SpelledBack
    <3> QED BY <2>6, <3>1
  <2>9. text.negative = negative
    BY <1>2
  <2>10. tireal_atof(text) = Written(negative, exp, h)
    <3> HIDE DEF digits
    <3> QED BY <1>9, <2>5, <2>6, <2>8, <2>9
  <2> QED BY <1>1, <2>10
<1> QED BY <1>9, <1>10 DEF text

-----------------------------------------------------------------------------
(* The constants. *)
(* A constant in range is encoded as a double.                             *)
LEMMA ConstantDouble ==
  ASSUME NEW text \in Texts, InRange(text)
  PROVE  HasDigits(text) /\ Point(text) \in Int /\ IsDouble(tireal_atof(text))
<1>1. /\ HasDigits(text) /\ text.exponent \in Seq(Digits)
      /\ text.sign \in {"plus", "minus", "none"}
  BY DEF Texts, HasDigits
<1>2. Number(text.exponent) \in Nat /\ Exponent(text) \in Int
  BY <1>1, ExponentOfDigits
<1>3. Significand(text).point \in Int
  BY <1>1, SignificandIs
<1>4. Point(text) \in Int
  BY <1>2, <1>3 DEF Point
<1> QED BY <1>1, <1>4, AtofIs

(* Doubles are eight bytes.                                                *)
LEMMA DoubleBytes ==
  ASSUME NEW d, IsDouble(d)
  PROVE  Len(d) = 8 /\ \A i \in 1 .. 8 : d[i] \in 0 .. 255
<1>1. PICK negative \in BOOLEAN, exp \in Exponents, h \in Mantissas : d = Written(negative, exp, h)
  BY DEF IsDouble
<1>2. /\ Len(d) = 8
      /\ d[1] = IF negative THEN 255 - exp ELSE exp
      /\ d[2] = IF negative /\ h[1] # 0 THEN 256 - h[1] ELSE h[1]
      /\ \A i \in 3 .. 8 : d[i] = h[i - 1]
  BY <1>1, Written8
<1>3. exp \in Nat /\ exp < 128 /\ \A i \in 1 .. 7 : h[i] \in Nat /\ h[i] < 100
  BY HundredsOf DEF Exponents
<1>4. ASSUME NEW i \in 1 .. 8 PROVE d[i] \in 0 .. 255
  <2>1. CASE i = 1
    BY <1>2, <1>3, <2>1
  <2>2. CASE i = 2
    BY <1>2, <1>3, <2>2
  <2>3. CASE i \in 3 .. 8
    <3>1. i - 1 \in 1 .. 7 /\ d[i] = h[i - 1]
      BY <1>2, <2>3
    <3> QED BY <1>3, <3>1
  <2> QED BY <2>1, <2>2, <2>3
<1> QED BY <1>2, <1>4

-----------------------------------------------------------------------------
(* The invariant: a double is always one tireal_atof can write; one whose  *)
(* text is printed right stays what it was when it was compiled; and an    *)
(* answer is of the doubles as they are, for nothing is read and written   *)
(* again once the program runs.                                            *)
Compiled ==
  /\ constants \in Constants
  /\ IF stage = "source" THEN doubles = <<>> ELSE DOMAIN doubles = 1 .. 2

Represented ==
  \A k \in DOMAIN doubles :
    /\ IsDouble(doubles[k])
    /\ Printable(Encoded(k)) => doubles[k] = Encoded(k)

Answered ==
  /\ stage = "compared" => answer = <<d_compare(doubles[1], doubles[2])>>
  /\ stage = "compared for equality" => answer = <<__eqdf2(doubles[1], doubles[2])>>
  /\ stage = "printed" => answer = <<tireal_ftoa(doubles[1])>>

TirealInv == Compiled /\ Represented /\ Answered

LEMMA EncodedIs ==
  ASSUME Compiled, NEW k \in 1 .. 2
  PROVE  constants[k] \in Texts /\ InRange(constants[k]) /\ IsDouble(Encoded(k))
<1>1. constants[k] \in Texts /\ InRange(constants[k])
  BY TirealAssumption DEF Compiled
<1> QED BY <1>1, ConstantDouble DEF Encoded

LEMMA TirealInit == Init => TirealInv
<1> SUFFICES ASSUME Init PROVE TirealInv
  OBVIOUS
<1>1. Compiled
  BY DEF Init, Compiled
<1>2. DOMAIN doubles = {}
  BY DEF Init
<1>3. Represented /\ Answered
  BY <1>2 DEF Init, Represented, Answered
<1> QED BY <1>1, <1>3 DEF TirealInv

LEMMA TirealCompile == TirealInv /\ Compile => TirealInv'
<1> SUFFICES ASSUME TirealInv, Compile PROVE TirealInv'
  OBVIOUS
<1>1. /\ stage' = "compiled" /\ constants' = constants
      /\ doubles' = [k \in 1 .. 2 |-> tireal_atof(constants[k])]
  BY DEF Compile
<1>2. Compiled'
  BY <1>1 DEF TirealInv, Compiled
<1>3. ASSUME NEW k \in 1 .. 2
      PROVE  doubles'[k] = Encoded(k) /\ Encoded(k)' = Encoded(k) /\ IsDouble(Encoded(k))
  <2>1. IsDouble(Encoded(k))
    BY EncodedIs DEF TirealInv
  <2> QED BY <1>1, <2>1 DEF Encoded
<1>4. DOMAIN doubles' = 1 .. 2
  BY <1>1
<1>5. Represented'
  BY <1>3, <1>4 DEF Represented
<1>6. Answered'
  BY <1>1 DEF Answered
<1> QED BY <1>2, <1>5, <1>6 DEF TirealInv

LEMMA TirealReread ==
  ASSUME TirealInv, NEW k \in 1 .. 2, Reread(k)
  PROVE  TirealInv'
<1>1. /\ stage = "compiled" /\ stage' = stage /\ constants' = constants
      /\ doubles' = [doubles EXCEPT ![k] = tireal_atof(tireal_ftoa(doubles[k]))]
  BY DEF Reread
<1>2. DOMAIN doubles = 1 .. 2 /\ DOMAIN doubles' = 1 .. 2
  BY <1>1 DEF TirealInv, Compiled
<1>3. Compiled'
  BY <1>1, <1>2 DEF TirealInv, Compiled
<1>4. ASSUME NEW j \in 1 .. 2
      PROVE  IsDouble(doubles'[j]) /\ (Printable(Encoded(j)') => doubles'[j] = Encoded(j)')
  <2>1. Encoded(j)' = Encoded(j)
    BY <1>1 DEF Encoded
  <2>2. IsDouble(doubles[j]) /\ (Printable(Encoded(j)) => doubles[j] = Encoded(j))
    BY <1>2 DEF TirealInv, Represented
  <2>3. CASE j = k
    <3>1. doubles'[j] = tireal_atof(tireal_ftoa(doubles[j]))
      BY <1>1, <1>2, <2>3
    <3> QED BY <2>1, <2>2, <3>1, RereadDouble
  <2>4. CASE j # k
    BY <1>1, <1>2, <2>1, <2>2, <2>4
  <2> QED BY <2>3, <2>4
<1>5. Represented'
  BY <1>2, <1>4 DEF Represented
<1>6. Answered'
  BY <1>1 DEF Answered
<1> QED BY <1>3, <1>5, <1>6 DEF TirealInv

(* The program leaves its doubles as they are.                             *)
LEMMA TirealRun ==
  ASSUME TirealInv, NEW did, NEW result, Run(did, result), did # "source"
  PROVE  Compiled' /\ Represented' /\ stage' = did /\ answer' = <<result>> /\ doubles' = doubles
<1>1. stage # "source" /\ stage' = did /\ answer' = <<result>> /\ constants' = constants /\ doubles' = doubles
  BY DEF Run
<1>2. Compiled'
  BY <1>1 DEF TirealInv, Compiled
<1>3. \A k : Encoded(k)' = Encoded(k)
  BY <1>1 DEF Encoded
<1>4. Represented'
  BY <1>1, <1>3 DEF TirealInv, Represented
<1> QED BY <1>1, <1>2, <1>4

LEMMA TirealNext == TirealInv /\ [Next]_vars => TirealInv'
<1> SUFFICES ASSUME TirealInv, [Next]_vars PROVE TirealInv'
  OBVIOUS
<1>1. CASE Compile
  BY <1>1, TirealCompile
<1>2. CASE \E k \in 1 .. 2 : Reread(k)
  BY <1>2, TirealReread
<1>3. CASE Compare
  <2>1. Run("compared", d_compare(doubles[1], doubles[2]))
    BY <1>3 DEF Compare
  <2>2. /\ Compiled' /\ Represented' /\ stage' = "compared" /\ doubles' = doubles
        /\ answer' = <<d_compare(doubles[1], doubles[2])>>
    BY <2>1, TirealRun
  <2>3. Answered'
    BY <2>2 DEF Answered
  <2> QED BY <2>2, <2>3 DEF TirealInv
<1>4. CASE CompareEqual
  <2>1. PICK r : r = __eqdf2(doubles[1], doubles[2])
    OBVIOUS
  <2>2. Run("compared for equality", r)
    BY <1>4, <2>1 DEF CompareEqual
  <2>3. /\ Compiled' /\ Represented' /\ stage' = "compared for equality" /\ doubles' = doubles
        /\ answer' = <<r>>
    <3>1. "compared for equality" # "source"
      OBVIOUS
    <3> QED BY ONLY <2>2, <3>1, TirealInv, TirealRun, Zenon
  <2>4. Answered'
    BY <2>1, <2>3 DEF Answered
  <2> QED BY <2>3, <2>4 DEF TirealInv
<1>5. CASE WriteOut
  <2>1. Run("printed", tireal_ftoa(doubles[1]))
    BY <1>5 DEF WriteOut
  <2>2. /\ Compiled' /\ Represented' /\ stage' = "printed" /\ doubles' = doubles
        /\ answer' = <<tireal_ftoa(doubles[1])>>
    BY <2>1, TirealRun
  <2>3. Answered'
    BY <2>2 DEF Answered
  <2> QED BY <2>2, <2>3 DEF TirealInv
<1>6. CASE UNCHANGED vars
  <2>1. \A k : Encoded(k)' = Encoded(k)
    BY <1>6 DEF vars, Encoded
  <2>2. Represented'
    BY <1>6, <2>1 DEF TirealInv, vars, Represented
  <2> QED BY <1>6, <2>2 DEF TirealInv, vars, Compiled, Answered
<1> QED BY <1>1, <1>2, <1>3, <1>4, <1>5, <1>6 DEF Next

LEMMA TirealInvariant == Spec => []TirealInv
BY TirealInit, TirealNext, PTL DEF Spec

(* Doubles are eight bytes, whatever the compiler reads and writes again.  *)
THEOREM DoublesAreBytes == Spec => []TypeOK
<1>1. TirealInv => TypeOK
  BY DoubleBytes DEF TirealInv, Represented, TypeOK
<1> QED BY <1>1, TirealInvariant, PTL

(* A constant does not drift, however often the compiler reads it back and *)
(* writes it again: for every constant in the range of the format whose    *)
(* exponent is printed right.                                              *)
THEOREM ConstantsKept == Spec => []NoDrift
<1>1. TirealInv => NoDrift
  BY DEF TirealInv, Represented, NoDrift
<1> QED BY <1>1, TirealInvariant, PTL

-----------------------------------------------------------------------------
(* The digits of a value. *)

LEMMA ReverseIs ==
  ASSUME NEW S, NEW s \in Seq(S)
  PROVE  /\ Reverse(s) \in Seq(S) /\ Len(Reverse(s)) = Len(s)
         /\ \A i \in 1 .. Len(s) : Reverse(s)[i] = s[Len(s) - i + 1]
<1>1. Len(s) \in Nat /\ \A i \in 1 .. Len(s) : s[i] \in S
  BY LenProperties, ElementOfSeq
<1>2. \A i \in 1 .. Len(s) : Len(s) - i + 1 \in 1 .. Len(s)
  BY <1>1
<1>3. /\ Reverse(s) \in [1 .. Len(s) -> S]
      /\ \A i \in 1 .. Len(s) : Reverse(s)[i] = s[Len(s) - i + 1]
  BY <1>1, <1>2 DEF Reverse
<1>4. Reverse(s) \in Seq(S) /\ Len(Reverse(s)) = Len(s)
  BY ONLY <1>1, <1>3, FunctionSeq
<1> QED BY <1>3, <1>4

LEMMA TrailingZeros ==
  ASSUME NEW s \in Seq(Digits)
  PROVE  /\ WithoutTrailingZeros(s) \in Seq(Digits)
         /\ \E m \in 0 .. Len(s) :
              /\ Len(WithoutTrailingZeros(s)) = m
              /\ \A i \in 1 .. m : WithoutTrailingZeros(s)[i] = s[i]
              /\ m # 0 => s[m] # 0
              /\ \A i \in m + 1 .. Len(s) : s[i] = 0
<1> DEFINE r == Reverse(s)
           w == WithoutLeadingZeros(r)
           l == Len(s)
<1>1. l \in Nat /\ r \in Seq(Digits) /\ Len(r) = l /\ \A i \in 1 .. l : r[i] = s[l - i + 1]
  BY ReverseIs
<1>2. WithoutTrailingZeros(s) = Reverse(w)
  BY DEF WithoutTrailingZeros
<1> HIDE DEF r, l
<1>3. w \in Seq(Digits)
  BY <1>1, StripIs
<1>4. /\ Reverse(w) \in Seq(Digits) /\ Len(Reverse(w)) = Len(w)
      /\ \A i \in 1 .. Len(w) : Reverse(w)[i] = w[Len(w) - i + 1]
  <2> HIDE DEF w
  <2> QED BY ONLY <1>3, ReverseIs
<1>5. CASE w = <<>> /\ \A i \in 1 .. l : r[i] = 0
  <2>1. Len(w) = 0
    BY <1>5
  <2>2. ASSUME NEW i \in 1 .. l PROVE s[i] = 0
    <3>1. l - i + 1 \in 1 .. l /\ l - (l - i + 1) + 1 = i
      BY <1>1
    <3>2. r[l - i + 1] = s[l - (l - i + 1) + 1]
      BY <1>1, <3>1
    <3> QED BY <1>5, <3>1, <3>2
  <2> HIDE DEF w
  <2>3. Len(Reverse(w)) = 0 /\ 0 \in 0 .. l /\ 0 + 1 = 1
    BY <1>1, <1>4, <2>1
  <2>4. \A i \in 1 .. 0 : Reverse(w)[i] = s[i]
    OBVIOUS
  <2>5. \A i \in 0 + 1 .. l : s[i] = 0
    BY <2>2
  <2> QED BY <1>2, <1>4, <2>3, <2>4, <2>5 DEF l
<1>6. ASSUME NEW p \in 1 .. l, r[p] # 0, \A i \in 1 .. p - 1 : r[i] = 0, w = SubSeq(r, p, l)
      PROVE  \E m \in 0 .. l :
               /\ Len(Reverse(w)) = m
               /\ \A i \in 1 .. m : Reverse(w)[i] = s[i]
               /\ m # 0 => s[m] # 0
               /\ \A i \in m + 1 .. l : s[i] = 0
  <2> DEFINE m == l - p + 1
  <2>1. m \in 0 .. l /\ m # 0 /\ m \in 1 .. l /\ l - p + 1 = m
    BY <1>1
  <2>2. p \in Int /\ l \in Int /\ p <= l /\ \A i \in p .. l : r[i] \in Digits
    BY <1>1, ElementOfSeq
  <2>3. Len(SubSeq(r, p, l)) = m /\ \A i \in 1 .. m : SubSeq(r, p, l)[i] = r[p + i - 1]
    BY <2>2, SubSeqProperties
  <2> HIDE DEF w, m
  <2>4. Len(w) = m /\ \A i \in 1 .. m : w[i] = r[p + i - 1]
    BY <1>6, <2>3
  <2>5. ASSUME NEW i \in 1 .. m PROVE Reverse(w)[i] = s[i]
    <3>1. Reverse(w)[i] = w[m - i + 1]
      BY <1>4, <2>4
    <3>2. m - i + 1 \in 1 .. m /\ p + (m - i + 1) - 1 = l - i + 1 /\ l - i + 1 \in 1 .. l /\ l - (l - i + 1) + 1 = i
      BY <1>1, <2>1
    <3>3. w[m - i + 1] = r[l - i + 1]
      BY <2>4, <3>2
    <3>4. r[l - i + 1] = s[i]
      BY <1>1, <3>2
    <3> QED BY <3>1, <3>3, <3>4
  <2>6. s[m] # 0
    BY <1>1, <1>6, <2>1
  <2>7. ASSUME NEW i \in m + 1 .. l PROVE s[i] = 0
    <3>1. l - i + 1 \in 1 .. p - 1 /\ l - i + 1 \in 1 .. l /\ l - (l - i + 1) + 1 = i
      BY <1>1, <2>1
    <3>2. r[l - i + 1] = s[i]
      BY <1>1, <3>1
    <3> QED BY <1>6, <3>1, <3>2
  <2>8. Len(Reverse(w)) = m
    BY <1>4, <2>4
  <2> QED BY <2>1, <2>5, <2>6, <2>7, <2>8
<1>7. \/ w = <<>> /\ \A i \in 1 .. l : r[i] = 0
      \/ \E p \in 1 .. l :
              /\ r[p] # 0
              /\ \A i \in 1 .. p - 1 : r[i] = 0
              /\ w = SubSeq(r, p, l)
  BY <1>1, LeadingZeros
<1> HIDE DEF w
<1> QED BY <1>2, <1>4, <1>5, <1>6, <1>7 DEF l

(* Cutting trailing zeros changes no digit. *)
LEMMA TrailingDigits ==
  ASSUME NEW s \in Seq(Digits)
  PROVE  \A i \in Nat \ {0} : At(WithoutTrailingZeros(s), i) = At(s, i)
<1> DEFINE t == WithoutTrailingZeros(s)
<1>1. PICK m \in 0 .. Len(s) :
        /\ Len(t) = m
        /\ \A i \in 1 .. m : t[i] = s[i]
        /\ m # 0 => s[m] # 0
        /\ \A i \in m + 1 .. Len(s) : s[i] = 0
  BY TrailingZeros
<1>2. Len(s) \in Nat /\ DOMAIN s = 1 .. Len(s) /\ t \in Seq(Digits)
  BY TrailingZeros, LenProperties
<1> HIDE DEF t
<1>3. DOMAIN t = 1 .. m
  BY <1>1, <1>2
<1>4. ASSUME NEW i \in Nat \ {0} PROVE At(t, i) = At(s, i)
  <2>1. CASE i <= m
    BY <1>1, <1>2, <1>3, <2>1 DEF At
  <2>2. CASE m < i /\ i <= Len(s)
    BY <1>1, <1>2, <1>3, <2>2 DEF At
  <2>3. CASE Len(s) < i
    BY <1>1, <1>2, <1>3, <2>3 DEF At
  <2> QED BY <1>1, <1>2, <2>1, <2>2, <2>3
<1> QED BY <1>4 DEF t

(* Two numbers with the same digits are written the same. *)
LEMMA SameDigits ==
  ASSUME NEW s \in Seq(Digits), NEW t \in Seq(Digits), \A i \in Nat \ {0} : At(s, i) = At(t, i)
  PROVE  WithoutTrailingZeros(s) = WithoutTrailingZeros(t)
<1> DEFINE a == WithoutTrailingZeros(s)
           b == WithoutTrailingZeros(t)
<1>1. PICK m \in 0 .. Len(s) :
        /\ Len(a) = m
        /\ \A i \in 1 .. m : a[i] = s[i]
        /\ m # 0 => s[m] # 0
        /\ \A i \in m + 1 .. Len(s) : s[i] = 0
  BY TrailingZeros
<1>2. PICK n \in 0 .. Len(t) :
        /\ Len(b) = n
        /\ \A i \in 1 .. n : b[i] = t[i]
        /\ n # 0 => t[n] # 0
        /\ \A i \in n + 1 .. Len(t) : t[i] = 0
  BY TrailingZeros
<1>3. /\ Len(s) \in Nat /\ DOMAIN s = 1 .. Len(s) /\ a \in Seq(Digits)
      /\ Len(t) \in Nat /\ DOMAIN t = 1 .. Len(t) /\ b \in Seq(Digits)
  BY TrailingZeros, LenProperties
<1> HIDE DEF a, b
<1>4. ~(m < n)
  <2> SUFFICES ASSUME m < n PROVE FALSE
    OBVIOUS
  <2>1. n \in Nat \ {0} /\ At(t, n) # 0
    BY <1>1, <1>2, <1>3 DEF At
  <2>2. At(s, n) = 0
    BY <1>1, <1>2, <1>3 DEF At
  <2> QED BY <2>1, <2>2
<1>5. ~(n < m)
  <2> SUFFICES ASSUME n < m PROVE FALSE
    OBVIOUS
  <2>1. m \in Nat \ {0} /\ At(s, m) # 0
    BY <1>1, <1>2, <1>3 DEF At
  <2>2. At(t, m) = 0
    BY <1>1, <1>2, <1>3 DEF At
  <2> QED BY <2>1, <2>2
<1>6. m = n
  BY <1>1, <1>2, <1>3, <1>4, <1>5
<1>7. ASSUME NEW i \in 1 .. m PROVE a[i] = b[i]
  <2>1. i \in Nat \ {0} /\ i \in 1 .. Len(s) /\ i \in 1 .. Len(t) /\ i \in 1 .. n
    BY <1>3, <1>6
  <2>2. At(s, i) = s[i] /\ At(t, i) = t[i]
    BY <1>3, <2>1 DEF At
  <2> QED BY <1>1, <1>2, <2>1, <2>2
<1>8. a = b
  <2>1. Len(a) = Len(b) /\ \A i \in 1 .. Len(a) : a[i] = b[i]
    BY <1>1, <1>2, <1>6, <1>7
  <2> QED BY ONLY <1>3, <2>1, SeqEqual
<1> QED BY <1>8 DEF a, b

LEMMA StripAt ==
  ASSUME NEW s \in Seq(Digits), NEW m \in 1 .. Len(s), s[m] # 0, \A i \in 1 .. m - 1 : s[i] = 0
  PROVE  WithoutLeadingZeros(s) = SubSeq(s, m, Len(s))
<1>1. Len(s) \in Nat
  BY LenProperties
<1>2. ~ \A i \in 1 .. Len(s) : s[i] = 0
  OBVIOUS
<1>3. ASSUME NEW p \in 1 .. Len(s), s[p] # 0, \A i \in 1 .. p - 1 : s[i] = 0
      PROVE  p = m
  <2>1. ~(m \in 1 .. p - 1) /\ ~(p \in 1 .. m - 1)
    BY <1>3
  <2> QED BY <1>1, <2>1
<1> QED BY <1>2, <1>3, LeadingZeros
-----------------------------------------------------------------------------
(* The value of a double. *)

Decimals(h) == [i \in 1 .. 14 |-> Place(h, i)]

LEMMA DecimalsAre ==
  ASSUME NEW h \in Mantissas
  PROVE  /\ Decimals(h) \in Seq(Digits) /\ Len(Decimals(h)) = 14
         /\ \A i \in 1 .. 14 : Decimals(h)[i] = Place(h, i)
<1>1. PICK n \in Nat : n = 14
  OBVIOUS
<1>2. Decimals(h) \in [1 .. n -> Digits]
  BY <1>1, PlaceIs DEF Decimals
<1>3. Decimals(h) \in Seq(Digits) /\ Len(Decimals(h)) = n
  BY ONLY <1>2, FunctionSeq
<1>4. \A i \in 1 .. 14 : Decimals(h)[i] = Place(h, i)
  BY DEF Decimals
<1> QED BY <1>1, <1>3, <1>4

LEMMA ValueOfNothing ==
  ASSUME NEW s \in Seq(Digits), \A i \in 1 .. Len(s) : s[i] = 0, NEW negative, NEW point
  PROVE  Value(negative, s, point) = [sign |-> 0, digits |-> <<>>, point |-> 0]
BY StripAll DEF Value

(* The value of a double is that of the fourteen digits of its mantissa.   *)
LEMMA DoubleValueIs ==
  ASSUME NEW negative \in BOOLEAN, NEW exp \in Exponents, NEW h \in Mantissas,
         Normal(exp, h), NEW d, d = Written(negative, exp, h)
  PROVE  DoubleValue(d) = Value(negative, Decimals(h), 2 * (exp - 63))
<1> DEFINE word == FirstWord(d)
           magnitude == Magnitude(word)
           lead == magnitude % 256
           hundreds == <<lead>> \o SubSeq(d, 3, 8)
           s == [i \in 1 .. 14 |-> LET n == hundreds[(i + 1) \div 2]
                                   IN  IF i % 2 = 1 THEN n \div 10 ELSE n % 10]
<1>1. /\ word \in Int /\ ((word < 0) <=> negative) /\ lead = h[1]
      /\ magnitude \div 256 = IF negative /\ h[1] = 0 THEN exp + 1 ELSE exp
  BY FirstWordOfWritten
<1>2. DoubleValue(d) = Value(word < 0, s, 2 * ((magnitude \div 256) - 63))
  BY DEF DoubleValue, Magnitude
<1>3. d \in Seq(Nat) /\ Len(d) = 8 /\ \A i \in 3 .. 8 : d[i] = h[i - 1]
  BY Written8
<1>4. ASSUME NEW i \in 1 .. 7 PROVE hundreds[i] = h[i]
  <2>1. /\ SubSeq(d, 3, 8) \in Seq(Nat) /\ Len(SubSeq(d, 3, 8)) = 6
        /\ \A j \in 1 .. 6 : SubSeq(d, 3, 8)[j] = d[j + 2]
    <3>1. PICK m \in Int, n \in Int : m = 3 /\ n = 8 /\ m <= n
      OBVIOUS
    <3>2. \A j \in m .. n : d[j] \in Nat
      <4>1. \A j \in m .. n : j \in 1 .. Len(d)
        BY ONLY <1>3, <3>1
      <4> QED BY ONLY <1>3, <4>1, ElementOfSeq
    <3>3. /\ SubSeq(d, m, n) \in Seq(Nat)
          /\ Len(SubSeq(d, m, n)) = n - m + 1
          /\ \A j \in 1 .. n - m + 1 : SubSeq(d, m, n)[j] = d[m + j - 1]
      BY ONLY <3>1, <3>2, SubSeqProperties
    <3>4. n - m + 1 = 6 /\ \A j \in Int : m + j - 1 = j + 2
      BY ONLY <3>1
    <3> QED BY ONLY <3>1, <3>3, <3>4
  <2> DEFINE t == SubSeq(d, 3, 8)
  <2>2. t \in Seq(Nat) /\ Len(t) = 6 /\ \A j \in 1 .. 6 : t[j] = d[j + 2]
    BY ONLY <2>1
  <2>3. lead \in Nat
    BY <1>1, HundredsOf
  <2> HIDE DEF t, lead
  <2>4. <<lead>> \in Seq(Nat) /\ Len(<<lead>>) = 1 /\ <<lead>>[1] = lead
    BY ONLY <2>3
  <2> DEFINE one == <<lead>>
  <2>5. one \in Seq(Nat) /\ Len(one) = 1 /\ one[1] = lead
    BY ONLY <2>4
  <2> HIDE DEF one
  <2>6. \A j \in 1 .. Len(one) + Len(t) : (one \o t)[j] = IF j <= Len(one) THEN one[j] ELSE t[j - Len(one)]
    <3>1. t \in Seq(Nat) /\ one \in Seq(Nat)
      BY ONLY <2>2, <2>5
    <3> QED BY ONLY <3>1, ConcatProperties
  <2>7. hundreds = one \o t
    BY DEF one, t
  <2> HIDE DEF hundreds
  <2>8. hundreds[i] = IF i <= 1 THEN lead ELSE t[i - 1]
    <3>1. i \in 1 .. Len(one) + Len(t) /\ (i <= Len(one) <=> i <= 1) /\ i - Len(one) = i - 1 /\ (i <= 1 => i = 1)
      BY ONLY <2>2, <2>5, i \in 1 .. 7
    <3>2. (one \o t)[i] = IF i <= Len(one) THEN one[i] ELSE t[i - Len(one)]
      BY ONLY <2>6, <3>1
    <3> QED BY ONLY <2>5, <2>7, <3>1, <3>2
  <2>9. i # 1 => t[i - 1] = h[i]
    <3>1. i # 1 => i - 1 \in 1 .. 6 /\ (i - 1) + 2 \in 3 .. 8 /\ (i - 1) + 2 - 1 = i
      OBVIOUS
    <3> QED BY <1>3, <2>2, <3>1
  <2> QED BY <1>1, <2>8, <2>9
<1> HIDE DEF hundreds
<1>5. s = Decimals(h)
  <2>1. \A i \in 1 .. 14 : (i + 1) \div 2 \in 1 .. 7
    OBVIOUS
  <2> QED BY <1>4, <2>1 DEF Decimals, Place
<1> HIDE DEF word, magnitude, lead, s
<1>6. CASE h[1] # 0
  <2>1. magnitude \div 256 = exp /\ (word < 0) = negative
    BY <1>1, <1>6
  <2> QED BY <1>2, <1>5, <2>1
<1>7. CASE h[1] = 0
  <2>1. \A i \in 1 .. 7 : h[i] = 0
    BY <1>7 DEF Normal
  <2>2. \A i \in 1 .. 14 : (i + 1) \div 2 \in 1 .. 7
    OBVIOUS
  <2>3. \A i \in 1 .. 14 : Place(h, i) = 0
    BY <2>1, <2>2 DEF Place
  <2>4. Decimals(h) \in Seq(Digits) /\ \A i \in 1 .. Len(Decimals(h)) : Decimals(h)[i] = 0
    BY <2>3, DecimalsAre
  <2>5. \A n, p : Value(n, Decimals(h), p) = [sign |-> 0, digits |-> <<>>, point |-> 0]
    BY <2>4, ValueOfNothing
  <2> QED BY <1>2, <1>5, <2>5
<1> QED BY <1>6, <1>7

LEMMA ValueIs ==
  ASSUME NEW s, NEW w, w = WithoutLeadingZeros(s), w # <<>>, NEW negative, NEW point
  PROVE  Value(negative, s, point) = [sign |-> IF negative THEN -1 ELSE 1,
                                      digits |-> WithoutTrailingZeros(w),
                                      point |-> point - (Len(s) - Len(w))]
<1>1. Value(negative, s, point) =
        IF w = <<>> THEN [sign |-> 0, digits |-> <<>>, point |-> 0]
        ELSE [sign |-> IF negative THEN -1 ELSE 1,
              digits |-> WithoutTrailingZeros(w),
              point |-> point - (Len(s) - Len(w))]
  BY Zenon DEF Value
<1> QED BY <1>1

(* The digits of the text are those of the mantissa that count. *)
LEMMA SpelledValue ==
  ASSUME NEW h \in Mantissas, h[1] # 0, NEW text, Spells(text, h), NEW k, k = LeadLength(h)
  PROVE  \A negative : \A e \in Int :
           Value(negative, text.whole \o text.fraction, k + e) = Value(negative, Decimals(h), e + 2)
<1> DEFINE ds == text.whole \o text.fraction
           s == Decimals(h)
<1>1. InSequence(text.whole, text.fraction, h, k)
  BY PrintedDigits
<1>2. ds \in Seq(Digits) /\ Len(ds) = 12 + k /\ \A i \in 1 .. 12 + k : ds[i] = Place(h, i + 2 - k)
  BY ONLY <1>1 DEF InSequence
<1>3. s \in Seq(Digits) /\ Len(s) = 14 /\ \A i \in 1 .. 14 : s[i] = Place(h, i)
  BY DecimalsAre
<1>4. /\ k \in 1 .. 2 /\ h[1] \in Nat /\ h[1] < 100
      /\ k = 1 => h[1] <= 9
      /\ k = 2 => h[1] > 9
  BY HundredsOf DEF LeadLength
<1>5. Place(h, 1) = h[1] \div 10 /\ Place(h, 2) = h[1] % 10
  <2>1. 1 \in 1 .. 7 /\ 2 * 1 - 1 = 1 /\ 2 * 1 = 2
    OBVIOUS
  <2> QED BY <2>1, PlaceIs
<1>6. Place(h, 3 - k) # 0 /\ (k = 1 => Place(h, 1) = 0)
  BY <1>4, <1>5
<1> DEFINE m == 3 - k
<1> HIDE DEF ds, s
<1>7. WithoutLeadingZeros(ds) = ds
  <2>1. 1 \in 1 .. 12 + k /\ 1 + 2 - k = 3 - k /\ Len(ds) > 0
    BY <1>2, <1>4
  <2>2. ds[1] # 0
    BY <1>2, <1>6, <2>1
  <2> QED BY ONLY <1>2, <2>1, <2>2, StripNothing
<1>8. WithoutLeadingZeros(s) = SubSeq(s, m, 14)
  <2>1. m \in 1 .. Len(s) /\ m \in 1 .. 14 /\ \A i \in 1 .. m - 1 : k = 1 /\ i = 1
    BY <1>3, <1>4
  <2>2. s[m] # 0
    BY <1>3, <1>6, <2>1
  <2>3. 1 \in 1 .. 14
    OBVIOUS
  <2>4. \A i \in 1 .. m - 1 : s[i] = 0
    BY ONLY <1>3, <1>6, <2>1, <2>3
  <2> HIDE DEF m
  <2>5. WithoutLeadingZeros(s) = SubSeq(s, m, Len(s))
    BY ONLY <1>3, <2>1, <2>2, <2>4, StripAt
  <2> QED BY <1>3, <2>5
<1>9. SubSeq(s, m, 14) = ds
  <2>1. PICK n \in Nat : n = 14
    OBVIOUS
  <2>2. m \in Int /\ n \in Int /\ m <= n /\ \A i \in m .. n : i \in 1 .. Len(s)
    <3>1. m \in 1 .. 2
      BY <1>4 DEF m
    <3>2. Len(s) = 14
      BY <1>3
    <3> HIDE DEF m
    <3> QED BY ONLY <3>1, <3>2, <2>1
  <2>3. \A i \in m .. n : s[i] \in Digits
    BY ONLY <1>3, <2>2, ElementOfSeq
  <2> HIDE DEF m
  <2>4. /\ SubSeq(s, m, n) \in Seq(Digits)
        /\ Len(SubSeq(s, m, n)) = n - m + 1
        /\ \A i \in 1 .. n - m + 1 : SubSeq(s, m, n)[i] = s[m + i - 1]
    BY ONLY <2>2, <2>3, SubSeqProperties
  <2>5. n - m + 1 = 12 + k
    BY <1>4, <2>1 DEF m
  <2>6. ASSUME NEW i \in 1 .. 12 + k PROVE s[m + i - 1] = ds[i]
    <3>1. m + i - 1 \in 1 .. 14 /\ m + i - 1 = i + 2 - k
      BY <1>4 DEF m
    <3> QED BY <1>2, <1>3, <3>1
  <2>7. Len(SubSeq(s, m, n)) = Len(ds) /\ \A i \in 1 .. Len(SubSeq(s, m, n)) : SubSeq(s, m, n)[i] = ds[i]
    BY ONLY <1>2, <2>4, <2>5, <2>6
  <2>8. SubSeq(s, m, n) = ds
    BY ONLY <1>2, <2>4, <2>7, SeqEqual
  <2> QED BY <2>1, <2>8
<1>10. ds # <<>>
  <2>1. Len(<<>>) = 0 /\ Len(ds) # 0
    BY <1>2, <1>4
  <2> QED BY <2>1
<1>11. ASSUME NEW negative, NEW e \in Int
       PROVE  Value(negative, ds, k + e) = Value(negative, s, e + 2)
  <2>1. (k + e) - (Len(ds) - Len(ds)) = (e + 2) - (Len(s) - Len(ds))
    <3>1. Len(ds) \in Int /\ Len(ds) = 12 + k /\ Len(s) = 14 /\ k \in Int
      BY ONLY <1>2, <1>3, <1>4
    <3> HIDE DEF ds, s
    <3> QED BY ONLY <3>1, e \in Int
  <2>2. WithoutLeadingZeros(s) = ds
    BY <1>8, <1>9
  <2>3. Value(negative, ds, k + e) = [sign |-> IF negative THEN -1 ELSE 1,
                                      digits |-> WithoutTrailingZeros(ds),
                                      point |-> (k + e) - (Len(ds) - Len(ds))]
    <3>1. ds = WithoutLeadingZeros(ds)
      BY <1>7
    <3>2. \A point : Value(negative, ds, point) = [sign |-> IF negative THEN -1 ELSE 1,
                                                   digits |-> WithoutTrailingZeros(ds),
                                                   point |-> point - (Len(ds) - Len(ds))]
      BY ONLY <1>10, <3>1, ValueIs, Zenon
    <3> QED BY <3>2
  <2>4. Value(negative, s, e + 2) = [sign |-> IF negative THEN -1 ELSE 1,
                                     digits |-> WithoutTrailingZeros(ds),
                                     point |-> (e + 2) - (Len(s) - Len(ds))]
    BY ONLY <1>10, <2>2, ValueIs
  <2> QED BY ONLY <2>1, <2>3, <2>4
<1> QED BY <1>11 DEF ds, s

(* The text of a double whose exponent has one digit has its value. *)
LEMMA TextOfDouble ==
  ASSUME NEW d, IsDouble(d), Printable(d)
  PROVE  TextValue(tireal_ftoa(d)) = DoubleValue(d)
<1>1. PICK negative \in BOOLEAN, exp \in Exponents, h \in Mantissas :
        Normal(exp, h) /\ d = Written(negative, exp, h)
  BY DEF IsDouble
<1> DEFINE text == tireal_ftoa(d)
           k == LeadLength(h)
           x == IF negative /\ h[1] = 0 THEN exp + 1 ELSE exp
           e == IF x < 64 THEN 2 * (64 - x) ELSE 2 * (x - 64)
           number == Number(text.exponent)
<1>2. /\ text.negative \in BOOLEAN /\ (text.negative <=> negative)
      /\ Spells(text, h)
      /\ text.sign = IF x < 64 THEN "minus" ELSE "none"
      /\ text.exponent = ExponentCharacters(e)
  BY <1>1, Printed
<1>3. /\ exp \in Nat /\ exp < 128 /\ x \in Nat /\ x < 129 /\ e \in Nat /\ e < 129
      /\ h[1] = 0 => exp = 0
  BY <1>1 DEF Exponents, Normal
<1>4. e < 10
  <2>1. text.sign \in {"minus", "none"}
    BY <1>2
  <2>2. Len(text.exponent) = IF e = 0 THEN 0 ELSE IF e < 10 THEN 1 ELSE 2
    <3>1. e \in Nat /\ e < 129 /\ text.exponent = ExponentCharacters(e)
      BY <1>2, <1>3
    <3> HIDE DEF e, x, text
    <3> QED BY ONLY <2>1, <3>1, PrintedExponent
  <2> QED BY <1>3, <2>2 DEF Printable
<1>5. h[1] # 0 /\ x = exp
  BY <1>3, <1>4
<1>6. number = e
  <2>1. CASE e = 0
    <3>1. text.exponent = <<>>
      BY <1>2, <2>1 DEF ExponentCharacters
    <3> HIDE DEF text, e
    <3> QED BY <2>1, <3>1, NumberOfNone
  <2>2. CASE e # 0
    <3>1. e \in 1 .. 9
      BY <1>3, <1>4, <2>2
    <3>2. text.exponent = <<e>>
      BY <1>2, <2>2, <3>1 DEF ExponentCharacters
    <3> HIDE DEF text, e
    <3> QED BY <1>3, <3>2, NumberOfOne
  <2> QED BY <2>1, <2>2
<1>7. (IF text.sign = "minus" THEN -number ELSE number) = 2 * (exp - 64)
  <2>1. CASE exp < 64
    <3>1. text.sign = "minus" /\ e = 2 * (64 - exp)
      BY <1>2, <1>5, <2>1
    <3> HIDE DEF text, e, number
    <3> QED BY <1>3, <1>6, <3>1
  <2>2. CASE ~(exp < 64)
    <3>1. text.sign = "none" /\ e = 2 * (exp - 64)
      BY <1>2, <1>5, <2>2
    <3> HIDE DEF text, e, number
    <3> QED BY <1>3, <1>6, <3>1
  <2> QED BY <2>1, <2>2
<1>8. Len(text.whole) = k
  <2>1. InSequence(text.whole, text.fraction, h, k)
    BY <1>2, PrintedDigits
  <2> QED BY ONLY <2>1 DEF InSequence
<1>9. TextValue(text) = Value(text.negative, text.whole \o text.fraction, k + 2 * (exp - 64))
  BY <1>7, <1>8 DEF TextValue
<1> HIDE DEF text, e, x, number
<1>10. text.negative = negative /\ 2 * (exp - 64) \in Int /\ 2 * (exp - 64) + 2 = 2 * (exp - 63)
  BY <1>2, <1>3
<1>11. Value(text.negative, text.whole \o text.fraction, k + 2 * (exp - 64))
         = Value(negative, Decimals(h), 2 * (exp - 63))
  <2>1. \A n : \A p \in Int : Value(n, text.whole \o text.fraction, k + p) = Value(n, Decimals(h), p + 2)
    BY <1>2, <1>5, SpelledValue
  <2> DEFINE p == 2 * (exp - 64)
  <2>2. p \in Int /\ p + 2 = 2 * (exp - 63)
    BY <1>10
  <2> HIDE DEF p
  <2>3. Value(negative, text.whole \o text.fraction, k + p) = Value(negative, Decimals(h), p + 2)
    BY ONLY <2>1, <2>2
  <2> QED BY <1>10, <2>2, <2>3 DEF p
<1>12. DoubleValue(d) = Value(negative, Decimals(h), 2 * (exp - 63))
  BY <1>1, DoubleValueIs
<1> QED BY <1>9, <1>11, <1>12 DEF text

(* What a program prints has the value it computed. *)
THEOREM PrintedRight == Spec => []PrintsValue
<1>1. TirealInv => PrintsValue
  <2> SUFFICES ASSUME TirealInv, stage = "printed", Printable(doubles[1])
               PROVE  TextValue(answer[1]) = DoubleValue(doubles[1])
    BY DEF PrintsValue
  <2>1. answer = <<tireal_ftoa(doubles[1])>>
    BY DEF TirealInv, Answered
  <2>2. 1 \in DOMAIN doubles
    BY DEF TirealInv, Compiled
  <2>3. IsDouble(doubles[1])
    BY <2>2 DEF TirealInv, Represented
  <2>4. answer[1] = tireal_ftoa(doubles[1])
    BY <2>1
  <2> QED BY <2>3, <2>4, TextOfDouble
<1> QED BY <1>1, TirealInvariant, PTL

-----------------------------------------------------------------------------
(* What tireal_atof keeps of a number. *)

(* Zeros in front of a number that is in two parts. *)
LEMMA StripConcat ==
  ASSUME NEW a \in Seq(Digits), NEW b \in Seq(Digits)
  PROVE  WithoutLeadingZeros(a \o b) =
           IF WithoutLeadingZeros(a) = <<>> THEN WithoutLeadingZeros(b)
                                            ELSE WithoutLeadingZeros(a) \o b
<1> DEFINE l == Len(a)
           n == Len(b)
           s == a \o b
<1>1. /\ l \in Nat /\ n \in Nat /\ s \in Seq(Digits) /\ Len(s) = l + n
      /\ \A i \in 1 .. l + n : s[i] = IF i <= l THEN a[i] ELSE b[i - l]
  BY LenProperties, ConcatProperties
<1> HIDE DEF s
<1>2. ASSUME \A i \in 1 .. l : a[i] = 0
      PROVE  WithoutLeadingZeros(s) = WithoutLeadingZeros(b)
  <2>1. CASE \A i \in 1 .. n : b[i] = 0
    <3>1. \A i \in 1 .. Len(s) : s[i] = 0
      <4> SUFFICES ASSUME NEW i \in 1 .. Len(s) PROVE s[i] = 0
        OBVIOUS
      <4>1. i \in 1 .. l + n /\ (i <= l => i \in 1 .. l) /\ (~(i <= l) => i - l \in 1 .. n)
        BY <1>1
      <4> HIDE DEF l, n
      <4> QED BY <1>1, <1>2, <2>1, <4>1
    <3>2. WithoutLeadingZeros(s) = <<>> /\ WithoutLeadingZeros(b) = <<>>
      BY <1>1, <2>1, <3>1, StripAll
    <3> QED BY <3>2
  <2>2. ASSUME NEW m \in 1 .. n, b[m] # 0, \A i \in 1 .. m - 1 : b[i] = 0,
               WithoutLeadingZeros(b) = SubSeq(b, m, n)
        PROVE  WithoutLeadingZeros(s) = WithoutLeadingZeros(b)
    <3> DEFINE p == l + m
    <3>1. p \in 1 .. Len(s) /\ p \in 1 .. l + n /\ ~(p <= l) /\ p - l = m
      BY <1>1
    <3>2. s[p] # 0
      BY <1>1, <2>2, <3>1
    <3>3. ASSUME NEW i \in 1 .. p - 1 PROVE s[i] = 0
      <4>1. i \in 1 .. l + n /\ (i <= l => i \in 1 .. l) /\ (~(i <= l) => i - l \in 1 .. m - 1)
        BY <1>1
      <4> HIDE DEF l, n, p
      <4> QED BY <1>1, <1>2, <2>2, <4>1
    <3> HIDE DEF p
    <3>4. WithoutLeadingZeros(s) = SubSeq(s, p, Len(s))
      BY ONLY <1>1, <3>1, <3>2, <3>3, StripAt
    <3>5. SubSeq(s, p, l + n) = SubSeq(b, p - l, l + n - l)
      <4>1. p \in l + 1 .. l + n /\ l + n \in l + 1 .. l + n
        BY <1>1 DEF p
      <4> QED BY <4>1, SubSeqOfConcat2 DEF s
    <3>6. l + n - l = n
      BY <1>1
    <3> QED BY <1>1, <2>2, <3>1, <3>4, <3>5, <3>6
  <2> QED BY <2>1, <2>2, LeadingZeros
<1>3. ASSUME NEW m \in 1 .. l, a[m] # 0, \A i \in 1 .. m - 1 : a[i] = 0,
             WithoutLeadingZeros(a) = SubSeq(a, m, l)
      PROVE  WithoutLeadingZeros(a) # <<>> /\ WithoutLeadingZeros(s) = WithoutLeadingZeros(a) \o b
  <2>1. m \in 1 .. Len(s) /\ m \in 1 .. l + n /\ m <= l
    BY <1>1
  <2>2. s[m] # 0
    BY <1>1, <1>3, <2>1
  <2>3. ASSUME NEW i \in 1 .. m - 1 PROVE s[i] = 0
    <3>1. i \in 1 .. l + n /\ i <= l
      BY <1>1
    <3> QED BY <1>1, <1>3, <3>1
  <2>4. WithoutLeadingZeros(s) = SubSeq(s, m, Len(s))
    BY ONLY <1>1, <2>1, <2>2, <2>3, StripAt
  <2> DEFINE w == SubSeq(a, m, l)
             r == SubSeq(s, m, l + n)
             wb == w \o b
  <2>5. /\ w \in Seq(Digits) /\ Len(w) = l - m + 1
        /\ \A i \in 1 .. l - m + 1 : w[i] = a[m + i - 1]
    <3>1. m \in Int /\ l \in Int /\ m <= l /\ \A i \in m .. l : i \in 1 .. l
      BY <1>1
    <3>2. \A i \in m .. l : a[i] \in Digits
      BY <3>1, ElementOfSeq
    <3> QED BY ONLY <3>1, <3>2, SubSeqProperties
  <2>6. /\ r \in Seq(Digits) /\ Len(r) = l + n - m + 1
        /\ \A i \in 1 .. l + n - m + 1 : r[i] = s[m + i - 1]
    <3> DEFINE k == l + n
    <3>1. m \in Int /\ k \in Int /\ m <= k /\ \A i \in m .. k : i \in 1 .. Len(s)
      BY <1>1
    <3>2. \A i \in m .. k : s[i] \in Digits
      BY ONLY <1>1, <3>1, ElementOfSeq
    <3> HIDE DEF k
    <3>3. /\ SubSeq(s, m, k) \in Seq(Digits) /\ Len(SubSeq(s, m, k)) = k - m + 1
          /\ \A i \in 1 .. k - m + 1 : SubSeq(s, m, k)[i] = s[m + i - 1]
      BY ONLY <3>1, <3>2, SubSeqProperties
    <3>4. k - m + 1 = l + n - m + 1
      BY DEF k
    <3> QED BY <3>3, <3>4 DEF k
  <2> HIDE DEF w, r
  <2>7. /\ wb \in Seq(Digits) /\ Len(wb) = Len(w) + Len(b)
        /\ \A i \in 1 .. Len(w) + Len(b) : wb[i] = IF i <= Len(w) THEN w[i] ELSE b[i - Len(w)]
    BY <2>5, ConcatProperties
  <2> HIDE DEF wb
  <2>8. Len(wb) = l + n - m + 1
    BY <1>1, <2>5, <2>7
  <2>9. ASSUME NEW i \in 1 .. l + n - m + 1 PROVE r[i] = wb[i]
    <3>1. /\ m + i - 1 \in 1 .. l + n
          /\ i \in 1 .. Len(w) + Len(b)
      BY <1>1, <2>5
    <3>2. CASE i <= l - m + 1
      <4>1. m + i - 1 <= l /\ i \in 1 .. l - m + 1
        BY <1>1, <3>2
      <4>2. s[m + i - 1] = a[m + i - 1]
        BY <1>1, <3>1, <4>1
      <4>3. r[i] = s[m + i - 1]
        BY <2>6
      <4>4. wb[i] = w[i] /\ w[i] = a[m + i - 1]
        BY <2>5, <2>7, <3>1, <3>2, <4>1
      <4> QED BY <4>2, <4>3, <4>4
    <3>3. CASE ~(i <= l - m + 1)
      <4>1. ~(m + i - 1 <= l) /\ m + i - 1 - l = i - (l - m + 1)
        BY <1>1, <3>3
      <4>2. s[m + i - 1] = b[m + i - 1 - l]
        BY <1>1, <3>1, <4>1
      <4>3. r[i] = s[m + i - 1]
        BY <2>6
      <4>4. wb[i] = b[i - (l - m + 1)]
        BY <2>5, <2>7, <3>1, <3>3
      <4> QED BY <4>1, <4>2, <4>3, <4>4
    <3> QED BY <3>2, <3>3
  <2>10. Len(r) = Len(wb) /\ \A i \in 1 .. Len(r) : r[i] = wb[i]
    BY ONLY <2>6, <2>8, <2>9
  <2>11. r = wb
    BY ONLY <2>6, <2>7, <2>10, SeqEqual
  <2>12. w # <<>>
    <3>1. Len(w) # 0 /\ Len(<<>>) = 0
      BY <1>1, <2>5
    <3> QED BY <3>1
  <2> QED BY <1>1, <1>3, <2>4, <2>11, <2>12 DEF w, r, wb
<1>4. \/ WithoutLeadingZeros(a) = <<>> /\ \A i \in 1 .. l : a[i] = 0
      \/ \E m \in 1 .. l :
              /\ a[m] # 0
              /\ \A i \in 1 .. m - 1 : a[i] = 0
              /\ WithoutLeadingZeros(a) = SubSeq(a, m, l)
  BY LeadingZeros
<1>5. CASE WithoutLeadingZeros(a) = <<>> /\ \A i \in 1 .. l : a[i] = 0
  <2> HIDE DEF l
  <2> QED BY <1>2, <1>5 DEF s
<1>6. CASE \E m \in 1 .. l : a[m] # 0 /\ (\A i \in 1 .. m - 1 : a[i] = 0)
                             /\ WithoutLeadingZeros(a) = SubSeq(a, m, l)
  <2> HIDE DEF l
  <2> QED BY <1>3, <1>6 DEF s
<1> QED BY <1>4, <1>5, <1>6

LEMMA TakenDigits ==
  ASSUME NEW s \in Seq(Digits), NEW n \in Nat
  PROVE  \A i \in Nat \ {0} : At(Take(s, n), i) = IF i <= n THEN At(s, i) ELSE 0
<1> DEFINE t == Take(s, n)
<1>1. /\ t \in Seq(Digits)
      /\ Len(t) = IF Len(s) < n THEN Len(s) ELSE n
      /\ \A i \in 1 .. Len(t) : t[i] = s[i]
  BY TakeIs
<1>2. Len(s) \in Nat /\ DOMAIN s = 1 .. Len(s)
  BY LenProperties
<1> HIDE DEF t
<1>3. DOMAIN t = 1 .. Len(t)
  BY <1>1
<1>4. ASSUME NEW i \in Nat \ {0} PROVE At(t, i) = IF i <= n THEN At(s, i) ELSE 0
  <2>1. CASE i <= n /\ i <= Len(s)
    BY <1>1, <1>2, <1>3, <2>1 DEF At
  <2>2. CASE ~(i <= n) \/ ~(i <= Len(s))
    BY <1>1, <1>2, <1>3, <2>2 DEF At
  <2> QED BY <2>1, <2>2
<1> QED BY <1>4 DEF t

LEMMA DecimalsOfHundreds ==
  ASSUME NEW v \in [1 .. 14 -> Digits]
  PROVE  Decimals(Hundreds(v)) = v
<1> DEFINE h == Hundreds(v)
<1>1. h \in Mantissas /\ \A i \in 1 .. 7 : h[i] = 10 * v[2 * i - 1] + v[2 * i]
  BY HundredsAre
<1> HIDE DEF h
<1>2. \A x, y \in Digits : (10 * x + y) \div 10 = x /\ (10 * x + y) % 10 = y
  BY DEF Digits
<1>3. ASSUME NEW i \in 1 .. 14 PROVE Place(h, i) = v[i]
  <2> DEFINE k == (i + 1) \div 2
  <2>1. k \in 1 .. 7 /\ 2 * k - 1 \in 1 .. 14 /\ 2 * k \in 1 .. 14
    OBVIOUS
  <2>2. i = IF i % 2 = 1 THEN 2 * k - 1 ELSE 2 * k
    OBVIOUS
  <2> HIDE DEF k
  <2>3. h[k] = 10 * v[2 * k - 1] + v[2 * k] /\ v[2 * k - 1] \in Digits /\ v[2 * k] \in Digits
    BY <1>1, <2>1
  <2>4. h[k] \div 10 = v[2 * k - 1] /\ h[k] % 10 = v[2 * k]
    BY <1>2, <2>3
  <2>5. Place(h, i) = IF i % 2 = 1 THEN h[k] \div 10 ELSE h[k] % 10
    BY DEF Place, k
  <2> QED BY <2>2, <2>4, <2>5
<1>4. Decimals(h) = v
  BY <1>3 DEF Decimals
<1> QED BY <1>4 DEF h

-----------------------------------------------------------------------------
(* Constants. *)

(* A constant as its digits that count. *)
LEMMA TextValueIs ==
  ASSUME NEW text \in Texts, Readable(text), PointSeen(text), NEW digits, digits = Significand(text).digits,
         NEW dp, dp = Point(text)
  PROVE  /\ dp \in Int
         /\ digits = <<>> => TextValue(text) = [sign |-> 0, digits |-> <<>>, point |-> 0]
         /\ digits # <<>> =>
              \E all \in Seq(Digits) :
                /\ digits = Take(all, 14)
                /\ TextValue(text) = [sign |-> IF text.negative THEN -1 ELSE 1,
                                      digits |-> WithoutTrailingZeros(all), point |-> dp]
<1> DEFINE W == text.whole
           F == text.fraction
           whole == WithoutLeadingZeros(W)
           fraction == IF whole = <<>> THEN WithoutLeadingZeros(F) ELSE F
           all == whole \o fraction
           number == Number(text.exponent)
           e == IF text.sign = "minus" THEN -number ELSE number
<1>1. /\ W \in Seq(Digits) /\ F \in Seq(Digits) /\ text.exponent \in Seq(Digits)
      /\ text.negative \in BOOLEAN /\ text.sign \in {"plus", "minus", "none"}
  BY DEF Texts
<1>2. number \in Nat /\ Exponent(text) = IF text.sign = "plus" THEN 0 ELSE e
  BY <1>1, ExponentOfDigits
<1>3. /\ Significand(text).digits = Take(all, 14)
      /\ Significand(text).point = Len(Take(whole, 14)) - (Len(F) - Len(fraction))
      /\ Significand(text).full = (Len(all) > 14)
  BY DEF Significand, Places
<1>4. whole \in Seq(Digits) /\ fraction \in Seq(Digits)
  BY <1>1, StripIs
<1>5. WithoutLeadingZeros(W \o F) = all /\ Len(W \o F) = Len(W) + Len(F)
  <2>1. WithoutLeadingZeros(W \o F) = IF whole = <<>> THEN WithoutLeadingZeros(F) ELSE whole \o F
    BY <1>1, StripConcat
  <2>2. whole = <<>> => all = WithoutLeadingZeros(F)
    <3> SUFFICES ASSUME whole = <<>> PROVE all = WithoutLeadingZeros(F)
      OBVIOUS
    <3>1. fraction = WithoutLeadingZeros(F)
      OBVIOUS
    <3> HIDE DEF whole, fraction
    <3>2. all = <<>> \o fraction
      OBVIOUS
    <3> QED BY <1>4, <3>1, <3>2, ConcatEmptySeq
  <2>3. whole # <<>> => all = whole \o F
    OBVIOUS
  <2>4. Len(W \o F) = Len(W) + Len(F)
    BY <1>1, ConcatProperties
  <2> HIDE DEF all, whole
  <2> QED BY <2>1, <2>2, <2>3, <2>4
<1>6. TextValue(text) = Value(text.negative, W \o F, Len(W) + e)
  BY DEF TextValue
<1>7. Len(whole) <= 14
  BY DEF PointSeen, Places
<1>8. number = 0 \/ (text.sign # "plus" /\ ~Significand(text).full)
  BY DEF Readable
<1> HIDE DEF W, F, whole, fraction, number
<1>9. all \in Seq(Digits) /\ Len(all) = Len(whole) + Len(fraction)
  BY <1>4, ConcatProperties
<1>10. /\ Len(W) \in Nat /\ Len(F) \in Nat /\ Len(whole) \in Nat /\ Len(fraction) \in Nat
  BY <1>1, <1>4, LenProperties
<1>11. e \in Int /\ (number = 0 => e = 0)
  <2>1. e \in Int
    BY <1>2
  <2>2. number = 0 => 0 <= e /\ e <= 0
    BY <1>2
  <2> QED BY <2>1, <2>2
<1>12. Take(whole, 14) = whole
  BY <1>4, <1>7, TakeIs
<1>13. Point(text) = Len(whole) - (Len(F) - Len(fraction)) + e
  <2>1. Significand(text).point = Len(whole) - (Len(F) - Len(fraction))
    BY <1>3, <1>12
  <2>2. Point(text) = Significand(text).point + IF Significand(text).full THEN 0 ELSE Exponent(text)
    BY DEF Point
  <2>3. (IF Significand(text).full THEN 0 ELSE Exponent(text)) = e
    <3>1. Exponent(text) = IF text.sign = "plus" THEN 0 ELSE e
      BY <1>2
    <3> HIDE DEF e
    <3> QED BY <1>8, <1>11, <3>1
  <2> HIDE DEF e
  <2> QED BY <2>1, <2>2, <2>3
<1> HIDE DEF e, all
<1>14. Point(text) = (Len(W) + e) - (Len(W \o F) - Len(all)) /\ Point(text) \in Int
  BY <1>5, <1>9, <1>10, <1>11, <1>13
<1>15. CASE digits = <<>>
  <2>1. all = <<>>
    <3>1. Len(Take(all, 14)) = IF Len(all) < 14 THEN Len(all) ELSE 14
      BY <1>9, TakeIs
    <3>2. Len(Take(all, 14)) = 0
      BY <1>3, <1>15
    <3>3. Len(all) = 0
      <4>1. Len(all) \in Nat
        BY <1>9, LenProperties
      <4>2. (IF Len(all) < 14 THEN Len(all) ELSE 14) = 0
        BY <3>1, <3>2
      <4> QED BY ONLY <4>1, <4>2
    <3> QED BY <1>9, <3>3, EmptySeq
  <2>2. WithoutLeadingZeros(W \o F) = <<>>
    BY <1>5, <2>1
  <2>3. TextValue(text) = [sign |-> 0, digits |-> <<>>, point |-> 0]
    BY <1>6, <2>2 DEF Value
  <2> QED BY <1>14, <1>15, <2>3
<1>16. CASE digits # <<>>
  <2>1. all # <<>>
    <3>1. Take(<<>>, 14) = <<>>
      <4>1. <<>> \in Seq(Digits) /\ Len(<<>>) <= 14
        OBVIOUS
      <4> QED BY ONLY <4>1, 14 \in Nat, TakeIs
    <3> QED BY <1>3, <1>16, <3>1
  <2>2. \A p : Value(text.negative, W \o F, p) = [sign |-> IF text.negative THEN -1 ELSE 1,
                                                  digits |-> WithoutTrailingZeros(all),
                                                  point |-> p - (Len(W \o F) - Len(all))]
    <3>1. all = WithoutLeadingZeros(W \o F)
      BY <1>5
    <3> QED BY ONLY <2>1, <3>1, ValueIs, Zenon
  <2>3. TextValue(text) = [sign |-> IF text.negative THEN -1 ELSE 1,
                           digits |-> WithoutTrailingZeros(all), point |-> dp]
    BY <1>6, <1>14, <2>2
  <2> QED BY <1>3, <1>9, <1>14, <1>16, <2>3
<1> QED BY <1>15, <1>16

LEMMA Base100Point ==
  \A dp \in Int :
    /\ 2 * (Base100(dp) - 63) - (IF dp % 2 = 1 THEN 1 ELSE 0) = dp
    /\ dp % 2 = 0 \/ dp % 2 = 1
<1> SUFFICES ASSUME NEW dp \in Int
             PROVE  /\ 2 * (Base100(dp) - 63) - (IF dp % 2 = 1 THEN 1 ELSE 0) = dp
                    /\ dp % 2 = 0 \/ dp % 2 = 1
  OBVIOUS
<1>1. CASE dp < 0
  <2>1. Half(dp) = -((-dp) \div 2) /\ Base100(dp) = 63 + Half(dp)
    BY <1>1 DEF Half, Base100
  <2> QED BY <1>1, <2>1
<1>2. CASE dp >= 0
  <2>1. Half(dp) = dp \div 2
    BY <1>2 DEF Half
  <2>2. Base100(dp) = 63 + Half(dp) + IF dp > 0 /\ dp % 2 = 1 THEN 1 ELSE 0
    BY DEF Base100
  <2> QED BY <1>2, <2>1, <2>2
<1> QED BY <1>1, <1>2

(* The double has the value of the text, cut to what it can hold. *)
LEMMA EncodedValue ==
  ASSUME NEW text \in Texts, InRange(text), Readable(text), PointSeen(text)
  PROVE  DoubleValue(tireal_atof(text)) = Cut(TextValue(text))
<1> DEFINE digits == Significand(text).digits
           dp == Point(text)
           odd == digits # <<>> /\ dp % 2 = 1
           v == Aligned(digits, odd)
           zero == [sign |-> 0, digits |-> <<>>, point |-> 0]
           value == TextValue(text)
<1>1. HasDigits(text) /\ dp \in Int /\ text.negative \in BOOLEAN
  BY ConstantDouble DEF Texts
<1>2. PICK exp \in Exponents, h \in Mantissas :
         /\ Normal(exp, h)
         /\ tireal_atof(text) = Written(text.negative, exp, h)
         /\ exp = IF digits = <<>> THEN 0 ELSE Base100(dp)
         /\ h = Hundreds(v)
  BY <1>1, AtofIs
<1>3. DoubleValue(tireal_atof(text)) = Value(text.negative, Decimals(h), 2 * (exp - 63))
  BY <1>1, <1>2, DoubleValueIs
<1>4. /\ digits \in Seq(Digits) /\ Len(digits) <= 14
      /\ digits # <<>> => Len(digits) > 0 /\ digits[1] # 0
  BY <1>1, SignificandIs
<1>5. /\ digits = <<>> => value = zero
      /\ digits # <<>> =>
           \E all \in Seq(Digits) :
                /\ digits = Take(all, 14)
                /\ value = [sign |-> IF text.negative THEN -1 ELSE 1,
                            digits |-> WithoutTrailingZeros(all), point |-> dp]
  BY TextValueIs
<1> HIDE DEF digits, dp, value
<1>6. v \in [1 .. 14 -> Digits] /\ \A i \in 1 .. 14 : v[i] = At(digits, IF odd THEN i - 1 ELSE i)
  <2>1. odd \in BOOLEAN
    OBVIOUS
  <2> HIDE DEF odd
  <2> QED BY <1>4, <2>1, AlignedIs
<1> HIDE DEF v
<1>7. Decimals(h) = v
  BY <1>2, <1>6, DecimalsOfHundreds
<1>8. v \in Seq(Digits) /\ Len(v) = 14
  BY <1>2, <1>7, DecimalsAre
<1>9. Cut(value) = [sign |-> value.sign,
                    digits |-> WithoutTrailingZeros(Take(value.digits, IF value.point % 2 = 0 THEN 14 ELSE 13)),
                    point |-> value.point]
      \/ digits = <<>>
  <2> SUFFICES ASSUME digits # <<>>
               PROVE  Cut(value) = [sign |-> value.sign,
                                    digits |-> WithoutTrailingZeros(Take(value.digits, IF value.point % 2 = 0 THEN 14 ELSE 13)),
                                    point |-> value.point]
    OBVIOUS
  <2>1. PICK w, q : value = [sign |-> q, digits |-> w, point |-> dp]
    BY <1>5
  <2> QED BY <2>1 DEF Cut
<1>10. CASE digits = <<>>
  <2>1. \A k \in Int : At(digits, k) = 0
    BY <1>10 DEF At
  <2>2. \A i \in 1 .. Len(v) : v[i] = 0
    BY <1>6, <1>8, <2>1
  <2>3. Value(text.negative, v, 2 * (exp - 63)) = zero
    BY <1>8, <2>2, ValueOfNothing
  <2>4. Cut(zero) = zero
    <3>1. <<>> \in Seq(Digits) /\ Len(<<>>) <= 14 /\ Len(<<>>) <= 13 /\ Len(<<>>) = 0
      OBVIOUS
    <3>2. Take(<<>>, 14) = <<>> /\ Take(<<>>, 13) = <<>>
      BY <3>1, TakeIs
    <3>3. WithoutTrailingZeros(<<>>) = <<>>
      <4>1. PICK s \in Seq(Digits) : s = <<>> /\ Len(s) = 0
        BY <3>1
      <4>2. WithoutTrailingZeros(s) \in Seq(Digits) /\ \E m \in 0 .. Len(s) : Len(WithoutTrailingZeros(s)) = m
        BY ONLY s \in Seq(Digits), TrailingZeros
      <4>3. Len(WithoutTrailingZeros(s)) = 0
        BY ONLY <4>1, <4>2
      <4>4. WithoutTrailingZeros(s) = <<>>
        BY ONLY <4>2, <4>3, EmptySeq
      <4> QED BY ONLY <4>1, <4>4, Zenon
    <3> QED BY <3>2, <3>3 DEF Cut
  <2> QED BY <1>3, <1>5, <1>7, <1>10, <2>3, <2>4 DEF value
<1>11. CASE digits # <<>>
  <2> DEFINE o == IF odd THEN 1 ELSE 0
             m == 1 + o
             n == 14
             w == SubSeq(v, m, n)
  <2>1. PICK all \in Seq(Digits) :
          /\ digits = Take(all, 14)
          /\ value = [sign |-> IF text.negative THEN -1 ELSE 1,
                      digits |-> WithoutTrailingZeros(all), point |-> dp]
    BY <1>5, <1>11
  <2>2. o \in 0 .. 1 /\ o = IF dp % 2 = 1 THEN 1 ELSE 0
    BY <1>11
  <2>3. ASSUME NEW i \in 1 .. 14 PROVE v[i] = At(digits, i - o)
    BY <1>6
  <2> HIDE DEF o, odd
  <2>4. v[m] # 0 /\ (\A i \in 1 .. m - 1 : v[i] = 0) /\ m \in 1 .. 14
    <3>1. DOMAIN digits = 1 .. Len(digits)
      BY <1>4
    <3>2. At(digits, 1) # 0 /\ At(digits, 0) = 0
      BY <1>4, <1>11, <3>1 DEF At
    <3>3. m \in 1 .. 14 /\ m - o = 1
      BY <2>2
    <3>4. v[m] = At(digits, m - o)
      BY <2>3, <3>3
    <3>5. ASSUME NEW i \in 1 .. m - 1 PROVE v[i] = 0
      <4>1. i = 1 /\ i - o = 0 /\ i \in 1 .. 14
        BY <2>2
      <4>2. v[i] = At(digits, i - o)
        BY <2>3, <4>1
      <4> QED BY <3>2, <4>1, <4>2
    <3> QED BY <3>2, <3>3, <3>4, <3>5
  <2> HIDE DEF m
  <2>5. WithoutLeadingZeros(v) = SubSeq(v, m, 14)
    <3>1. WithoutLeadingZeros(v) = SubSeq(v, m, Len(v))
      BY <1>8, <2>4, StripAt
    <3> QED BY <1>8, <3>1
  <2>6. /\ w \in Seq(Digits) /\ Len(w) = 14 - o
        /\ \A i \in 1 .. 14 - o : w[i] = v[i + o]
    <3>1. PICK l \in Int : l = 14 /\ m \in Int /\ m <= l /\ m = 1 + o
      BY <2>2, <2>4 DEF m
    <3>2. \A i \in m .. l : i \in 1 .. Len(v)
      BY <1>8, <2>4, <3>1
    <3>3. \A i \in m .. l : v[i] \in Digits
      BY ONLY <1>8, <3>2, ElementOfSeq
    <3>4. /\ SubSeq(v, m, l) \in Seq(Digits)
          /\ Len(SubSeq(v, m, l)) = l - m + 1
          /\ \A i \in 1 .. l - m + 1 : SubSeq(v, m, l)[i] = v[m + i - 1]
      BY ONLY <3>1, <3>3, SubSeqProperties
    <3>5. l - m + 1 = 14 - o
      BY <2>2, <3>1
    <3>6. w = SubSeq(v, m, l)
      BY <3>1
    <3> HIDE DEF w
    <3>7. ASSUME NEW i \in 1 .. 14 - o PROVE w[i] = v[i + o]
      <4>1. m + i - 1 = i + o /\ i \in 1 .. l - m + 1
        BY <2>2, <3>1
      <4> QED BY ONLY <3>4, <3>6, <4>1
    <3> QED BY ONLY <3>4, <3>5, <3>6, <3>7
  <2> HIDE DEF w
  <2>7. ASSUME NEW i \in Nat \ {0} PROVE At(w, i) = IF i <= 14 - o THEN At(all, i) ELSE 0
    <3>1. DOMAIN w = 1 .. 14 - o
      BY <2>6
    <3>2. CASE i <= 14 - o
      <4>1. i \in 1 .. 14 - o /\ i + o \in 1 .. 14 /\ i + o - o = i /\ i <= 14
        BY <2>2, <3>2
      <4>2. At(w, i) = v[i + o]
        BY <2>6, <3>1, <4>1 DEF At
      <4>3. v[i + o] = At(digits, i)
        <5>1. v[i + o] = At(digits, (i + o) - o) /\ (i + o) - o = i
          BY <2>2, <2>3, <4>1
        <5> QED BY <5>1
      <4>4. At(digits, i) = At(all, i)
        BY <2>1, <4>1, TakenDigits
      <4> QED BY <3>2, <4>2, <4>3, <4>4
    <3>3. CASE ~(i <= 14 - o)
      <4>1. i \notin 1 .. 14 - o
        BY <2>2, <3>3
      <4> QED BY <3>1, <3>3, <4>1 DEF At
    <3> QED BY <3>2, <3>3
  <2> DEFINE z == WithoutTrailingZeros(all)
             q == 14 - o
             u == Take(z, q)
  <2>8. z \in Seq(Digits) /\ \A i \in Nat \ {0} : At(z, i) = At(all, i)
    BY TrailingZeros, TrailingDigits
  <2>9. q \in Nat
    BY <2>2
  <2> HIDE DEF z, q
  <2>10. u \in Seq(Digits) /\ \A i \in Nat \ {0} : At(u, i) = IF i <= q THEN At(z, i) ELSE 0
    BY <2>8, <2>9, TakeIs, TakenDigits
  <2>11. WithoutTrailingZeros(w) = WithoutTrailingZeros(u)
    <3>1. \A i \in Nat \ {0} : At(w, i) = At(u, i)
      BY <2>7, <2>8, <2>10 DEF q
    <3> HIDE DEF u
    <3> QED BY ONLY <2>6, <2>10, <3>1, SameDigits
  <2> HIDE DEF u
  <2>12. (IF dp % 2 = 0 THEN 14 ELSE 13) = q
    BY <1>1, <2>2, Base100Point DEF q
  <2>13. Cut(value) = [sign |-> IF text.negative THEN -1 ELSE 1,
                       digits |-> WithoutTrailingZeros(u), point |-> dp]
    <3>1. value.sign = (IF text.negative THEN -1 ELSE 1) /\ value.digits = z /\ value.point = dp
      BY <2>1 DEF z
    <3> QED BY <1>9, <1>11, <2>12, <3>1 DEF u
  <2>14. w # <<>>
    <3>1. Len(w) # 0 /\ Len(<<>>) = 0
      BY <2>2, <2>6
    <3> QED BY <3>1
  <2>15. \A p : Value(text.negative, v, p) = [sign |-> IF text.negative THEN -1 ELSE 1,
                                              digits |-> WithoutTrailingZeros(w),
                                              point |-> p - (Len(v) - Len(w))]
    <3>1. w = WithoutLeadingZeros(v)
      BY <2>5 DEF w
    <3> QED BY ONLY <2>14, <3>1, ValueIs, Zenon
  <2>16. 2 * (exp - 63) - (Len(v) - Len(w)) = dp
    <3>1. exp = Base100(dp)
      BY <1>2, <1>11
    <3>2. Len(v) - Len(w) = IF dp % 2 = 1 THEN 1 ELSE 0
      BY <1>8, <2>2, <2>6
    <3> QED BY <1>1, <3>1, <3>2, Base100Point
  <2> QED BY <1>3, <1>7, <2>11, <2>13, <2>15, <2>16 DEF value
<1> QED BY <1>10, <1>11

(* Every constant a program may hold, if tireal_atof sees where its point  *)
(* is: the double the compiler writes has its value, to as many digits as  *)
(* a double holds.                                                         *)
THEOREM ConstantsEncoded ==
  ASSUME \A pair \in Constants : \A k \in 1 .. 2 : Readable(pair[k]) /\ PointSeen(pair[k])
  PROVE  Spec => []EncodesValue
<1>1. TirealInv => EncodesValue
  <2> SUFFICES ASSUME TirealInv, stage # "source", ~Drifted, NEW k \in 1 .. 2
               PROVE  DoubleValue(doubles[k]) = Meant(k)
    BY DEF EncodesValue
  <2>1. doubles[k] = Encoded(k)
    BY DEF TirealInv, Compiled, Drifted
  <2>2. constants[k] \in Texts /\ InRange(constants[k]) /\ Readable(constants[k]) /\ PointSeen(constants[k])
    BY EncodedIs DEF TirealInv, Compiled
  <2> QED BY <2>1, <2>2, EncodedValue DEF Encoded, Meant
<1> QED BY <1>1, TirealInvariant, PTL

-----------------------------------------------------------------------------
(* The order of doubles. *)

LEMMA BeforeIs ==
  \A a, b : Before(a, b) <=> \E i \in 1 .. 14 :
                               /\ At(a, i) < At(b, i)
                               /\ \A k \in 1 .. i - 1 : At(a, k) = At(b, k)
BY DEF Before, At

(* The value of a double that is not zero: o zeros stand in front. *)
Shape(value, h, p, o) ==
  /\ value.point = p - o
  /\ \A i \in 1 .. 14 : At(value.digits, i) = IF i + o <= 14 THEN Place(h, i + o) ELSE 0

(* The shape of the value of a double that is not zero.                    *)
LEMMA ValueOfMantissa ==
  ASSUME NEW h \in Mantissas, h[1] # 0, NEW negative \in BOOLEAN, NEW p \in Int,
         NEW value, value = Value(negative, Decimals(h), p),
         NEW o, o = IF h[1] < 10 THEN 1 ELSE 0
  PROVE  (value.sign = IF negative THEN -1 ELSE 1) /\ Shape(value, h, p, o)
<1> DEFINE v == Decimals(h)
           m == 1 + o
           w == SubSeq(v, m, 14)
<1>1. v \in Seq(Digits) /\ Len(v) = 14 /\ \A i \in 1 .. 14 : v[i] = Place(h, i)
  BY DecimalsAre
<1>2. /\ o \in 0 .. 1 /\ h[1] \in Nat /\ h[1] < 100
      /\ o = 1 <=> h[1] < 10
  BY HundredsOf
<1>3. Place(h, 1) = h[1] \div 10 /\ Place(h, 2) = h[1] % 10
  <2>1. 1 \in 1 .. 7 /\ 2 * 1 - 1 = 1 /\ 2 * 1 = 2
    OBVIOUS
  <2> QED BY <2>1, PlaceIs
<1>4. (o = 0 => Place(h, 1) # 0) /\ (o = 1 => Place(h, 1) = 0 /\ Place(h, 2) # 0)
  BY <1>2, <1>3
<1> HIDE DEF v
<1>5. v[m] # 0 /\ (\A i \in 1 .. m - 1 : v[i] = 0) /\ m \in 1 .. 14
  <2>1. m \in 1 .. 14 /\ 1 \in 1 .. 14 /\ 2 \in 1 .. 14
    BY <1>2
  <2>2. v[m] # 0
    BY <1>1, <1>2, <1>4, <2>1
  <2>3. ASSUME NEW i \in 1 .. m - 1 PROVE v[i] = 0
    <3>1. i = 1 /\ o = 1
      BY <1>2
    <3> QED BY <1>1, <1>4, <2>1, <3>1
  <2> QED BY <2>1, <2>2, <2>3
<1> HIDE DEF m
<1>6. WithoutLeadingZeros(v) = w
  <2>1. WithoutLeadingZeros(v) = SubSeq(v, m, Len(v))
    BY <1>1, <1>5, StripAt
  <2> QED BY <1>1, <2>1
<1>7. /\ w \in Seq(Digits) /\ Len(w) = 14 - o
      /\ \A i \in 1 .. 14 - o : w[i] = v[i + o]
  <2>1. PICK l \in Int : l = 14 /\ m \in Int /\ m <= l /\ m = 1 + o
    BY <1>2, <1>5 DEF m
  <2>2. \A i \in m .. l : i \in 1 .. Len(v)
    BY <1>1, <1>5, <2>1
  <2>3. \A i \in m .. l : v[i] \in Digits
    BY ONLY <1>1, <2>2, ElementOfSeq
  <2>4. /\ SubSeq(v, m, l) \in Seq(Digits)
        /\ Len(SubSeq(v, m, l)) = l - m + 1
        /\ \A i \in 1 .. l - m + 1 : SubSeq(v, m, l)[i] = v[m + i - 1]
    BY ONLY <2>1, <2>3, SubSeqProperties
  <2>5. l - m + 1 = 14 - o
    BY <1>2, <2>1
  <2>6. w = SubSeq(v, m, l)
    BY <2>1
  <2> HIDE DEF w
  <2>7. ASSUME NEW i \in 1 .. 14 - o PROVE w[i] = v[i + o]
    <3>1. m + i - 1 = i + o /\ i \in 1 .. l - m + 1
      BY <1>2, <2>1
    <3> QED BY ONLY <2>4, <2>6, <3>1
  <2> QED BY ONLY <2>4, <2>5, <2>6, <2>7
<1> HIDE DEF w
<1>8. w # <<>>
  <2>1. Len(w) # 0 /\ Len(<<>>) = 0
    BY <1>2, <1>7
  <2> QED BY <2>1
<1>9. value = [sign |-> IF negative THEN -1 ELSE 1,
               digits |-> WithoutTrailingZeros(w), point |-> p - (Len(v) - Len(w))]
  <2>1. w = WithoutLeadingZeros(v)
    BY <1>6
  <2>2. \A n, q : Value(n, v, q) = [sign |-> IF n THEN -1 ELSE 1,
                                    digits |-> WithoutTrailingZeros(w), point |-> q - (Len(v) - Len(w))]
    BY ONLY <1>8, <2>1, ValueIs, Zenon
  <2> QED BY <2>2 DEF v
<1>10. Len(v) - Len(w) = o
  BY <1>1, <1>2, <1>7
<1>11. ASSUME NEW i \in 1 .. 14
       PROVE  At(value.digits, i) = IF i + o <= 14 THEN Place(h, i + o) ELSE 0
  <2>1. At(value.digits, i) = At(w, i)
    BY <1>7, <1>9, TrailingDigits
  <2>2. DOMAIN w = 1 .. 14 - o
    <3>1. w \in Seq(Digits)
      BY <1>7
    <3>2. DOMAIN w = 1 .. Len(w)
      BY ONLY <3>1
    <3> QED BY <1>7, <3>2
  <2>3. CASE i + o <= 14
    <3>1. i \in 1 .. 14 - o /\ i + o \in 1 .. 14
      BY <1>2, <2>3
    <3>2. At(w, i) = Place(h, i + o)
      BY <1>1, <1>7, <2>2, <3>1 DEF At
    <3> QED BY <2>1, <2>3, <3>2
  <2>4. CASE ~(i + o <= 14)
    <3>1. i \notin 1 .. 14 - o
      BY <1>2, <2>4
    <3> QED BY <2>1, <2>2, <2>4, <3>1 DEF At
  <2> QED BY <2>3, <2>4
<1>12. Shape(value, h, p, o)
  <2>1. value.point = p - (Len(v) - Len(w))
    BY <1>9
  <2> QED BY <1>10, <1>11, <2>1 DEF Shape
<1> QED BY <1>9, <1>12

(* Exponents and mantissas in the order of their bytes. *)
Lower(exp, h, other, g) ==
  \/ exp < other
  \/ exp = other /\ \E j \in 1 .. 7 : h[j] < g[j] /\ \A q \in 1 .. j - 1 : h[q] = g[q]

LEMMA LowerOrNot ==
  ASSUME NEW exp \in Exponents, NEW h \in Mantissas, NEW other \in Exponents, NEW g \in Mantissas
  PROVE  Lower(exp, h, other, g) \/ Lower(other, g, exp, h) \/ (exp = other /\ h = g)
<1> SUFFICES ASSUME exp = other, h # g
             PROVE  Lower(exp, h, other, g) \/ Lower(other, g, exp, h)
  BY DEF Lower, Exponents
<1> DEFINE D == {j \in 1 .. 7 : h[j] # g[j]}
<1>1. D # {} /\ D \subseteq Nat
  BY DEF Mantissas
<1>2. PICK j \in D : \A q \in D : j <= q
  <2> HIDE DEF D
  <2> QED BY <1>1, LeastNumber
<1>3. j \in 1 .. 7 /\ h[j] # g[j] /\ \A q \in 1 .. j - 1 : h[q] = g[q]
  BY <1>2
<1>4. h[j] \in Nat /\ g[j] \in Nat
  BY <1>3, HundredsOf
<1>5. CASE h[j] < g[j]
  BY <1>3, <1>5 DEF Lower
<1>6. CASE g[j] < h[j]
  <2>1. \A q \in 1 .. j - 1 : g[q] = h[q]
    BY <1>3
  <2> QED BY <1>3, <1>6, <2>1 DEF Lower
<1> QED BY <1>3, <1>4, <1>5, <1>6

(* The first decimal digit that differs. *)
LEMMA FirstPlace ==
  ASSUME NEW h \in Mantissas, NEW g \in Mantissas, NEW j \in 1 .. 7, h[j] < g[j],
         \A q \in 1 .. j - 1 : h[q] = g[q]
  PROVE  \E p \in 1 .. 14 : Place(h, p) < Place(g, p) /\ \A q \in 1 .. p - 1 : Place(h, q) = Place(g, q)
<1>1. /\ Place(h, 2 * j - 1) = h[j] \div 10 /\ Place(h, 2 * j) = h[j] % 10
      /\ Place(g, 2 * j - 1) = g[j] \div 10 /\ Place(g, 2 * j) = g[j] % 10
  BY PlaceIs
<1>2. ASSUME NEW q \in 1 .. 2 * j - 2 PROVE Place(h, q) = Place(g, q)
  <2>1. (q + 1) \div 2 \in 1 .. j - 1
    OBVIOUS
  <2>2. h[(q + 1) \div 2] = g[(q + 1) \div 2]
    BY <2>1
  <2> QED BY <2>2 DEF Place
<1>3. h[j] \in Nat /\ g[j] \in Nat /\ h[j] < 100 /\ g[j] < 100
  BY HundredsOf
<1>4. CASE h[j] \div 10 < g[j] \div 10
  <2>1. 2 * j - 1 \in 1 .. 14 /\ \A q \in 1 .. 2 * j - 1 - 1 : q \in 1 .. 2 * j - 2
    OBVIOUS
  <2>2. Place(h, 2 * j - 1) < Place(g, 2 * j - 1)
    BY <1>1, <1>4
  <2> QED BY <1>2, <2>1, <2>2
<1>5. CASE h[j] \div 10 = g[j] \div 10
  <2>1. h[j] % 10 < g[j] % 10
    BY <1>3, <1>5
  <2>2. Place(h, 2 * j) < Place(g, 2 * j) /\ Place(h, 2 * j - 1) = Place(g, 2 * j - 1)
    BY <1>1, <1>5, <2>1
  <2>3. 2 * j \in 1 .. 14 /\ \A q \in 1 .. 2 * j - 1 : q \in 1 .. 2 * j - 2 \/ q = 2 * j - 1
    OBVIOUS
  <2> QED BY <1>2, <2>2, <2>3
<1>6. h[j] \div 10 < g[j] \div 10 \/ h[j] \div 10 = g[j] \div 10
  BY <1>3
<1> QED BY <1>4, <1>5, <1>6

(* Two values that are not zero. *)
LEMMA LessNonzero ==
  ASSUME NEW h \in Mantissas, NEW g \in Mantissas, NEW p \in Int, NEW r \in Int,
         NEW o, o = IF h[1] < 10 THEN 1 ELSE 0, NEW u, u = IF g[1] < 10 THEN 1 ELSE 0,
         NEW a, Shape(a, h, p, o), NEW b, Shape(b, g, r, u),
         \/ p + 2 <= r
         \/ p = r /\ \E j \in 1 .. 7 : h[j] < g[j] /\ \A q \in 1 .. j - 1 : h[q] = g[q]
  PROVE  MagnitudeLess(a, b) /\ ~MagnitudeLess(b, a)
<1>1. /\ \A i \in 1 .. 7 : h[i] \in Nat /\ h[i] < 100 /\ g[i] \in Nat /\ g[i] < 100
      /\ h[1] \in Nat /\ g[1] \in Nat
  BY HundredsOf
<1>2. o \in 0 .. 1 /\ u \in 0 .. 1
  OBVIOUS
<1>3. a.point = p - o /\ b.point = r - u
  BY DEF Shape
<1>4. \A i \in 1 .. 14 : /\ At(a.digits, i) = IF i + o <= 14 THEN Place(h, i + o) ELSE 0
                         /\ At(b.digits, i) = IF i + u <= 14 THEN Place(g, i + u) ELSE 0
  BY DEF Shape
<1>5. CASE p + 2 <= r
  <2>1. a.point < b.point /\ ~(b.point < a.point) /\ a.point # b.point
    BY ONLY <1>2, <1>3, <1>5, p \in Int, r \in Int
  <2> QED BY ONLY <2>1 DEF MagnitudeLess
<1>6. CASE p = r /\ \E j \in 1 .. 7 : h[j] < g[j] /\ \A q \in 1 .. j - 1 : h[q] = g[q]
  <2>1. PICK j \in 1 .. 7 : h[j] < g[j] /\ \A q \in 1 .. j - 1 : h[q] = g[q]
    BY <1>6
  <2>2. h[1] <= g[1]
    <3>1. CASE j = 1
      BY <1>1, <2>1, <3>1
    <3>2. CASE j # 1
      <4>1. 1 \in 1 .. j - 1
        BY <3>2
      <4> QED BY <1>1, <2>1, <4>1
    <3> QED BY <3>1, <3>2
  <2>3. u <= o
    BY <1>1, <2>2
  <2>4. CASE u # o
    <3>1. a.point < b.point /\ ~(b.point < a.point) /\ a.point # b.point
      BY ONLY <1>2, <1>3, <1>6, <2>3, <2>4, p \in Int, r \in Int
    <3> QED BY ONLY <3>1 DEF MagnitudeLess
  <2>5. CASE u = o
    <3>1. PICK n \in 1 .. 14 : Place(h, n) < Place(g, n) /\ \A q \in 1 .. n - 1 : Place(h, q) = Place(g, q)
      BY <2>1, FirstPlace
    <3>2. o = 1 => n # 1
      <4> SUFFICES ASSUME o = 1, n = 1 PROVE FALSE
        OBVIOUS
      <4>1. Place(h, 1) = h[1] \div 10 /\ Place(g, 1) = g[1] \div 10
        <5>1. 1 \in 1 .. 7 /\ 2 * 1 - 1 = 1
          OBVIOUS
        <5> QED BY <5>1, PlaceIs
      <4>2. h[1] < 10 /\ g[1] < 10
        BY <2>5
      <4>3. h[1] \div 10 = 0 /\ g[1] \div 10 = 0
        BY <1>1, <4>2
      <4> QED BY <3>1, <4>1, <4>3
    <3> DEFINE i == n - o
               x == a.digits
               y == b.digits
    <3>3. i \in 1 .. 14 /\ i + o = n /\ i + u = n /\ n <= 14
      BY <1>2, <2>5, <3>2
    <3> HIDE DEF i, x, y
    <3>4. At(x, i) < At(y, i)
      <4>1. At(x, i) = Place(h, i + o) /\ At(y, i) = Place(g, i + u)
        BY ONLY <1>4, <3>3 DEF x, y
      <4> QED BY ONLY <3>1, <3>3, <4>1
    <3>5. ASSUME NEW k \in 1 .. i - 1 PROVE At(x, k) = At(y, k)
      <4>1. k \in 1 .. 14 /\ k + o <= 14 /\ k + u <= 14 /\ k + o \in 1 .. n - 1 /\ k + u = k + o
        BY <1>2, <2>5, <3>3
      <4>2. At(x, k) = Place(h, k + o) /\ At(y, k) = Place(g, k + u)
        BY ONLY <1>4, <4>1 DEF x, y
      <4> QED BY ONLY <3>1, <4>1, <4>2
    <3>6. \A k \in 1 .. 14 : At(x, k) \in Int /\ At(y, k) \in Int
      <4> SUFFICES ASSUME NEW k \in 1 .. 14 PROVE At(x, k) \in Int /\ At(y, k) \in Int
        OBVIOUS
      <4>1. (k + o <= 14 => k + o \in 1 .. 14) /\ (k + u <= 14 => k + u \in 1 .. 14)
        BY <1>2
      <4>2. \A q \in 1 .. 14 : Place(h, q) \in Int /\ Place(g, q) \in Int
        BY PlaceIs DEF Digits
      <4>3. /\ At(x, k) = IF k + o <= 14 THEN Place(h, k + o) ELSE 0
            /\ At(y, k) = IF k + u <= 14 THEN Place(g, k + u) ELSE 0
        BY ONLY <1>4, k \in 1 .. 14 DEF x, y
      <4> QED BY ONLY <4>1, <4>2, <4>3
    <3>7. Before(x, y)
      BY ONLY <3>3, <3>4, <3>5, BeforeIs
    <3>8. ~Before(y, x)
      <4> SUFFICES ASSUME NEW l \in 1 .. 14, At(y, l) < At(x, l),
                          \A k \in 1 .. l - 1 : At(y, k) = At(x, k)
                   PROVE  FALSE
        BY BeforeIs
      <4>1. ~(l \in 1 .. i - 1)
        BY ONLY <3>5, <3>6, l \in 1 .. 14, At(y, l) < At(x, l)
      <4>2. ~(i \in 1 .. l - 1)
        BY ONLY <3>3, <3>4, <3>6, \A k \in 1 .. l - 1 : At(y, k) = At(x, k)
      <4>3. l = i
        BY ONLY <3>3, <4>1, <4>2, l \in 1 .. 14
      <4> QED BY ONLY <3>3, <3>4, <3>6, <4>3, At(y, l) < At(x, l)
    <3>9. a.point = b.point /\ ~(b.point < a.point)
      BY ONLY <1>2, <1>3, <1>6, <2>5, p \in Int, r \in Int
    <3> QED BY ONLY <3>7, <3>8, <3>9 DEF MagnitudeLess, x, y
  <2> QED BY <2>4, <2>5
<1> QED BY <1>5, <1>6

LEMMA LessIs ==
  ASSUME NEW a, NEW b, b.sign = 1
  PROVE  /\ a.sign = 0 => Less(a, b) /\ ~Less(b, a)
         /\ a.sign = 1 /\ MagnitudeLess(a, b) /\ ~MagnitudeLess(b, a) => Less(a, b) /\ ~Less(b, a)
<1>1. ASSUME a.sign = 0 PROVE Less(a, b) /\ ~Less(b, a)
  BY <1>1 DEF Less
<1>2. ASSUME a.sign = 1, MagnitudeLess(a, b), ~MagnitudeLess(b, a) PROVE Less(a, b) /\ ~Less(b, a)
  BY <1>2 DEF Less
<1> QED BY <1>1, <1>2

LEMMA ValueOfZero ==
  ASSUME NEW h \in Mantissas, \A i \in 1 .. 7 : h[i] = 0, NEW negative, NEW p
  PROVE  Value(negative, Decimals(h), p) = [sign |-> 0, digits |-> <<>>, point |-> 0]
<1>1. \A i \in 1 .. 14 : (i + 1) \div 2 \in 1 .. 7
  OBVIOUS
<1>2. \A i \in 1 .. 14 : Place(h, i) = 0
  BY <1>1 DEF Place
<1>3. Decimals(h) \in Seq(Digits) /\ \A i \in 1 .. Len(Decimals(h)) : Decimals(h)[i] = 0
  BY <1>2, DecimalsAre
<1> QED BY <1>3, ValueOfNothing

(* The order of the bytes is the order of the values. *)
LEMMA LowerLess ==
  ASSUME NEW exp \in Exponents, NEW h \in Mantissas, Normal(exp, h),
         NEW other \in Exponents, NEW g \in Mantissas, Normal(other, g),
         Lower(exp, h, other, g),
         NEW m \in BOOLEAN, ~m, NEW n \in BOOLEAN, ~n,
         NEW a, a = Value(m, Decimals(h), 2 * (exp - 63)),
         NEW b, b = Value(n, Decimals(g), 2 * (other - 63))
  PROVE  Less(a, b) /\ ~Less(b, a)
<1>1. /\ exp \in Nat /\ other \in Nat
      /\ \A i \in 1 .. 7 : h[i] \in Nat /\ h[i] < 100 /\ g[i] \in Nat /\ g[i] < 100
  BY HundredsOf DEF Exponents
<1>2. g[1] # 0
  <2> SUFFICES ASSUME g[1] = 0 PROVE FALSE
    OBVIOUS
  <2>1. other = 0 /\ \A i \in 1 .. 7 : g[i] = 0
    BY DEF Normal
  <2>2. ~(exp < other) /\ \A j \in 1 .. 7 : ~(h[j] < g[j])
    BY <1>1, <2>1
  <2> QED BY <2>2 DEF Lower
<1>3. PICK p \in Int, r \in Int : p = 2 * (exp - 63) /\ r = 2 * (other - 63)
  BY <1>1
<1>4. PICK o, u : o = (IF h[1] < 10 THEN 1 ELSE 0) /\ u = IF g[1] < 10 THEN 1 ELSE 0
  OBVIOUS
<1>5. a = Value(m, Decimals(h), p) /\ b = Value(n, Decimals(g), r)
  BY <1>3
<1>6. b.sign = 1 /\ Shape(b, g, r, u)
  <2>1. (b.sign = IF n THEN -1 ELSE 1) /\ Shape(b, g, r, u)
    BY ONLY <1>2, <1>4, <1>5, r \in Int, n \in BOOLEAN, g \in Mantissas, ValueOfMantissa
  <2> QED BY ONLY <2>1, ~n
<1>7. CASE h[1] = 0
  <2>1. \A i \in 1 .. 7 : h[i] = 0
    BY <1>7 DEF Normal
  <2>2. a = [sign |-> 0, digits |-> <<>>, point |-> 0]
    BY ONLY <1>5, <2>1, h \in Mantissas, ValueOfZero
  <2>3. a.sign = 0
    BY ONLY <2>2
  <2> QED BY ONLY <1>6, <2>3, LessIs
<1>8. CASE h[1] # 0
  <2>1. (a.sign = IF m THEN -1 ELSE 1) /\ Shape(a, h, p, o)
    BY ONLY <1>4, <1>5, <1>8, p \in Int, m \in BOOLEAN, h \in Mantissas, ValueOfMantissa
  <2>2. a.sign = 1
    BY ONLY <2>1, ~m
  <2>3. \/ p + 2 <= r
        \/ p = r /\ \E j \in 1 .. 7 : h[j] < g[j] /\ \A q \in 1 .. j - 1 : h[q] = g[q]
    <3>1. exp < other => p + 2 <= r
      BY ONLY <1>1, <1>3
    <3>2. exp = other => p = r
      BY ONLY <1>3
    <3> QED BY ONLY <3>1, <3>2, Lower(exp, h, other, g) DEF Lower
  <2>4. MagnitudeLess(a, b) /\ ~MagnitudeLess(b, a)
    BY ONLY <1>4, <1>6, <2>1, <2>3, p \in Int, r \in Int, h \in Mantissas, g \in Mantissas, LessNonzero
  <2> QED BY ONLY <1>6, <2>2, <2>4, LessIs
<1> QED BY <1>7, <1>8

(* What d_adj_neg_pos makes of a double. *)
LEMMA Adjusted ==
  ASSUME NEW negative \in BOOLEAN, NEW exp \in Exponents, NEW h \in Mantissas, negative => h[1] # 0,
         NEW d, d = Written(negative, exp, h), NEW p, p = d_adj_neg_pos(d)
  PROVE  /\ p.np = IF negative THEN -1 ELSE 1
         /\ \A i \in 1 .. 8 : p.magnitude[i] = IF i = 1 THEN exp ELSE h[i - 1]
<1>1. /\ d \in Seq(Nat) /\ Len(d) = 8
      /\ d[1] = IF negative THEN 255 - exp ELSE exp
      /\ d[2] = IF negative /\ h[1] # 0 THEN 256 - h[1] ELSE h[1]
      /\ \A i \in 3 .. 8 : d[i] = h[i - 1]
  BY Written8
<1>2. exp \in Nat /\ exp < 128 /\ h[1] \in Nat /\ h[1] < 100
  BY HundredsOf DEF Exponents
<1>3. DOMAIN d = 1 .. 8
  BY <1>1
<1>4. \A i \in 1 .. 8 : i = 1 \/ i = 2 \/ i \in 3 .. 8
  OBVIOUS
<1>5. CASE negative
  <2>1. Signed(d[1]) = -1 - exp /\ Signed(d[2]) = -h[1]
    BY <1>1, <1>2, <1>5 DEF Signed
  <2>2. Char((-Signed(d[1])) - 1) = exp /\ Char(-Signed(d[2])) = h[1]
    <3>1. (-Signed(d[1])) - 1 = exp /\ -Signed(d[2]) = h[1]
      BY ONLY <1>2, <2>1
    <3>2. exp % 256 = exp /\ h[1] % 256 = h[1]
      BY ONLY <1>2
    <3> QED BY ONLY <3>1, <3>2 DEF Char
  <2>3. p = [np |-> -1, magnitude |-> [d EXCEPT ![1] = exp, ![2] = h[1]]]
    BY <1>2, <2>1, <2>2 DEF d_adj_neg_pos
  <2>4. \A i \in 1 .. 8 : [d EXCEPT ![1] = exp, ![2] = h[1]][i] = IF i = 1 THEN exp ELSE h[i - 1]
    <3> SUFFICES ASSUME NEW i \in 1 .. 8
                 PROVE  [d EXCEPT ![1] = exp, ![2] = h[1]][i] = IF i = 1 THEN exp ELSE h[i - 1]
      OBVIOUS
    <3>1. CASE i = 1
      BY <1>3, <3>1
    <3>2. CASE i = 2
      BY <1>3, <3>2
    <3>3. CASE i \in 3 .. 8
      <4>1. i # 1 /\ i # 2 /\ i \in DOMAIN d
        BY <1>3, <3>3
      <4>2. [d EXCEPT ![1] = exp, ![2] = h[1]][i] = d[i]
        BY ONLY <4>1
      <4> QED BY <1>1, <3>3, <4>1, <4>2
    <3> QED BY <1>4, <3>1, <3>2, <3>3
  <2>5. p.np = -1 /\ p.magnitude = [d EXCEPT ![1] = exp, ![2] = h[1]]
    BY ONLY <2>3
  <2>6. p.np = IF negative THEN -1 ELSE 1
    BY ONLY <1>5, <2>5
  <2> QED BY ONLY <2>4, <2>5, <2>6
<1>6. CASE ~negative
  <2>1. ~(Signed(d[1]) < 0)
    BY <1>1, <1>2, <1>6 DEF Signed
  <2>2. p = [np |-> 1, magnitude |-> d]
    BY <2>1 DEF d_adj_neg_pos
  <2>3. ASSUME NEW i \in 1 .. 8 PROVE d[i] = IF i = 1 THEN exp ELSE h[i - 1]
    BY <1>1, <1>4, <1>6
  <2> QED BY <1>6, <2>2, <2>3
<1> QED BY <1>5, <1>6

(* The comparison, once the doubles are magnitudes. *)
LEMMA CompareIs ==
  ASSUME NEW a, NEW b, NEW p, p = d_adj_neg_pos(a), NEW q, q = d_adj_neg_pos(b),
         \A i \in 1 .. 8 : p.magnitude[i] \in Nat /\ p.magnitude[i] < 128
                           /\ q.magnitude[i] \in Nat /\ q.magnitude[i] < 128
  PROVE  /\ p.np = -1 /\ q.np = 1 => d_compare(a, b) = -1
         /\ p.np = 1 /\ q.np = -1 => d_compare(a, b) = 1
         /\ p.np = q.np /\ p.np \in Int /\ (\A i \in 1 .. 8 : p.magnitude[i] = q.magnitude[i])
              => d_compare(a, b) = 0
         /\ \A i \in 1 .. 8 :
              p.np = q.np /\ p.np \in Int /\ (\A k \in 1 .. i - 1 : p.magnitude[k] = q.magnitude[k]) =>
                /\ p.magnitude[i] < q.magnitude[i] => d_compare(a, b) = -1
                /\ q.magnitude[i] < p.magnitude[i] => d_compare(a, b) = 1
<1> DEFINE differ == {i \in 1 .. 8 : p.magnitude[i] # q.magnitude[i]}
           other == LET i == Min(differ)
                    IN  IF Signed(p.magnitude[i]) < Signed(q.magnitude[i]) THEN -1 ELSE 1
<1>1. d_compare(a, b) = CASE p.np < q.np -> -1
                          [] p.np > q.np -> 1
                          [] p.np = q.np /\ differ = {} -> 0
                          [] OTHER -> other
  BY DEF d_compare
<1> HIDE DEF other
<1>2. p.np = -1 /\ q.np = 1 => d_compare(a, b) = -1
  <2> HIDE DEF differ
  <2> QED BY ONLY <1>1
<1>3. p.np = 1 /\ q.np = -1 => d_compare(a, b) = 1
  <2> HIDE DEF differ
  <2> QED BY ONLY <1>1
<1>4. p.np = q.np /\ p.np \in Int /\ (\A i \in 1 .. 8 : p.magnitude[i] = q.magnitude[i]) => d_compare(a, b) = 0
  <2> SUFFICES ASSUME p.np = q.np, p.np \in Int, \A i \in 1 .. 8 : p.magnitude[i] = q.magnitude[i]
               PROVE  d_compare(a, b) = 0
    OBVIOUS
  <2>1. differ = {}
    OBVIOUS
  <2> HIDE DEF differ
  <2> QED BY ONLY <1>1, <2>1, p.np = q.np, p.np \in Int
<1>5. ASSUME NEW i \in 1 .. 8, p.np = q.np, p.np \in Int,
             \A k \in 1 .. i - 1 : p.magnitude[k] = q.magnitude[k],
             p.magnitude[i] # q.magnitude[i]
      PROVE  d_compare(a, b) = IF p.magnitude[i] < q.magnitude[i] THEN -1 ELSE 1
  <2>1. differ \in SUBSET Int /\ i \in differ
    BY <1>5
  <2>2. ASSUME NEW k \in differ PROVE i <= k
    <3>1. k \in 1 .. 8 /\ ~(k \in 1 .. i - 1)
      BY <1>5
    <3> QED BY <3>1
  <2> HIDE DEF differ
  <2>3. Min(differ) = i
    BY ONLY <2>1, <2>2, Least
  <2>4. Signed(p.magnitude[i]) = p.magnitude[i] /\ Signed(q.magnitude[i]) = q.magnitude[i]
    BY DEF Signed
  <2>5. other = IF p.magnitude[i] < q.magnitude[i] THEN -1 ELSE 1
    BY <2>3, <2>4 DEF other
  <2>6. differ # {}
    BY <2>1
  <2>7. d_compare(a, b) = other
    BY ONLY <1>1, <2>6, p.np = q.np, p.np \in Int
  <2> QED BY <2>5, <2>7
<1>6. ASSUME NEW i \in 1 .. 8, p.np = q.np, p.np \in Int,
             \A k \in 1 .. i - 1 : p.magnitude[k] = q.magnitude[k]
      PROVE  /\ p.magnitude[i] < q.magnitude[i] => d_compare(a, b) = -1
             /\ q.magnitude[i] < p.magnitude[i] => d_compare(a, b) = 1
  <2>1. p.magnitude[i] \in Nat /\ q.magnitude[i] \in Nat
    OBVIOUS
  <2>2. ASSUME p.magnitude[i] < q.magnitude[i] PROVE d_compare(a, b) = -1
    <3>1. p.magnitude[i] # q.magnitude[i]
      BY <2>1, <2>2
    <3>2. d_compare(a, b) = IF p.magnitude[i] < q.magnitude[i] THEN -1 ELSE 1
      BY ONLY <1>5, <1>6, <3>1, i \in 1 .. 8
    <3> QED BY ONLY <2>2, <3>2
  <2>3. ASSUME q.magnitude[i] < p.magnitude[i] PROVE d_compare(a, b) = 1
    <3>1. p.magnitude[i] # q.magnitude[i] /\ ~(p.magnitude[i] < q.magnitude[i])
      BY <2>1, <2>3
    <3>2. d_compare(a, b) = IF p.magnitude[i] < q.magnitude[i] THEN -1 ELSE 1
      BY ONLY <1>5, <1>6, <3>1, i \in 1 .. 8
    <3> QED BY ONLY <3>1, <3>2
  <2> QED BY <2>2, <2>3
<1> QED BY ONLY <1>2, <1>3, <1>4, <1>6

(* Two doubles that are not both negative, and no negative zero among them.*)
Comparable(negative, h, other, g) ==
  /\ ~(negative /\ other)
  /\ negative => h[1] # 0
  /\ other => g[1] # 0

(* The first byte that differs decides, as one of the mantissa or of the   *)
(* exponent.                                                               *)
LEMMA ComparedBytes ==
  ASSUME NEW m \in BOOLEAN, NEW exp \in Exponents, NEW h \in Mantissas,
         NEW n \in BOOLEAN, NEW other \in Exponents, NEW g \in Mantissas,
         m => h[1] # 0, n => g[1] # 0,
         NEW a, a = Written(m, exp, h), NEW b, b = Written(n, other, g)
  PROVE  /\ m /\ ~n => d_compare(a, b) = -1
         /\ n /\ ~m => d_compare(a, b) = 1
         /\ m = n /\ Lower(exp, h, other, g) => d_compare(a, b) = -1
         /\ m = n /\ Lower(other, g, exp, h) => d_compare(a, b) = 1
         /\ m = n /\ exp = other /\ h = g => d_compare(a, b) = 0
<1>1. PICK p, q : p = d_adj_neg_pos(a) /\ q = d_adj_neg_pos(b)
  OBVIOUS
<1>2. /\ p.np = IF m THEN -1 ELSE 1
      /\ \A i \in 1 .. 8 : p.magnitude[i] = IF i = 1 THEN exp ELSE h[i - 1]
  BY ONLY <1>1, m \in BOOLEAN, exp \in Exponents, h \in Mantissas, m => h[1] # 0,
     a = Written(m, exp, h), Adjusted
<1>3. /\ q.np = IF n THEN -1 ELSE 1
      /\ \A i \in 1 .. 8 : q.magnitude[i] = IF i = 1 THEN other ELSE g[i - 1]
  BY ONLY <1>1, n \in BOOLEAN, other \in Exponents, g \in Mantissas, n => g[1] # 0,
     b = Written(n, other, g), Adjusted
<1>4. /\ exp \in Nat /\ other \in Nat /\ exp < 128 /\ other < 128
      /\ \A i \in 1 .. 7 : h[i] \in Nat /\ h[i] < 100 /\ g[i] \in Nat /\ g[i] < 100
  BY HundredsOf DEF Exponents
<1>6. \A i \in 1 .. 8 : p.magnitude[i] \in Nat /\ p.magnitude[i] < 128
                        /\ q.magnitude[i] \in Nat /\ q.magnitude[i] < 128
  <2> SUFFICES ASSUME NEW i \in 1 .. 8
               PROVE  p.magnitude[i] \in Nat /\ p.magnitude[i] < 128
                      /\ q.magnitude[i] \in Nat /\ q.magnitude[i] < 128
    OBVIOUS
  <2>1. CASE i = 1
    BY <1>2, <1>3, <1>4, <2>1
  <2>2. CASE i # 1
    <3>1. i - 1 \in 1 .. 7
      BY <2>2
    <3> QED BY <1>2, <1>3, <1>4, <2>2, <3>1
  <2> QED BY <2>1, <2>2
<1>7. /\ p.np = -1 /\ q.np = 1 => d_compare(a, b) = -1
      /\ p.np = 1 /\ q.np = -1 => d_compare(a, b) = 1
      /\ p.np = q.np /\ p.np \in Int /\ (\A i \in 1 .. 8 : p.magnitude[i] = q.magnitude[i])
           => d_compare(a, b) = 0
      /\ \A i \in 1 .. 8 :
           p.np = q.np /\ p.np \in Int /\ (\A k \in 1 .. i - 1 : p.magnitude[k] = q.magnitude[k]) =>
             /\ p.magnitude[i] < q.magnitude[i] => d_compare(a, b) = -1
             /\ q.magnitude[i] < p.magnitude[i] => d_compare(a, b) = 1
  BY ONLY <1>1, <1>6, CompareIs
<1>8. (m /\ ~n => d_compare(a, b) = -1) /\ (n /\ ~m => d_compare(a, b) = 1)
  BY ONLY <1>2, <1>3, <1>7
<1>9. m = n => p.np = q.np /\ p.np \in Int
  BY ONLY <1>2, <1>3
<1>10. ASSUME m = n, exp = other, h = g PROVE d_compare(a, b) = 0
  <2>1. \A i \in 1 .. 8 : p.magnitude[i] = q.magnitude[i]
    BY ONLY <1>2, <1>3, <1>10
  <2> QED BY ONLY <1>7, <1>9, <1>10, <2>1
<1>11. ASSUME NEW j \in 1 .. 7, exp = other, \A k \in 1 .. j - 1 : h[k] = g[k]
       PROVE  \A k \in 1 .. j + 1 - 1 : p.magnitude[k] = q.magnitude[k]
  <2> SUFFICES ASSUME NEW k \in 1 .. j PROVE p.magnitude[k] = q.magnitude[k]
    OBVIOUS
  <2>1. k \in 1 .. 8 /\ (k # 1 => k - 1 \in 1 .. j - 1)
    OBVIOUS
  <2> QED BY ONLY <1>2, <1>3, <1>11, <2>1
<1>12. \A j \in 1 .. 7 : /\ j + 1 \in 1 .. 8
                         /\ p.magnitude[j + 1] = h[j] /\ q.magnitude[j + 1] = g[j]
  <2> SUFFICES ASSUME NEW j \in 1 .. 7
               PROVE  j + 1 \in 1 .. 8 /\ p.magnitude[j + 1] = h[j] /\ q.magnitude[j + 1] = g[j]
    OBVIOUS
  <2>1. j + 1 \in 1 .. 8 /\ j + 1 # 1 /\ (j + 1) - 1 = j
    OBVIOUS
  <2> QED BY ONLY <1>2, <1>3, <2>1
<1>13. 1 \in 1 .. 8 /\ p.magnitude[1] = exp /\ q.magnitude[1] = other /\ \A k \in 1 .. 1 - 1 : FALSE
  BY <1>2, <1>3
<1>14. ASSUME m = n, Lower(exp, h, other, g) PROVE d_compare(a, b) = -1
  <2>1. CASE exp < other
    BY ONLY <1>7, <1>9, <1>13, <1>14, <2>1
  <2>2. CASE exp = other /\ \E j \in 1 .. 7 : h[j] < g[j] /\ \A k \in 1 .. j - 1 : h[k] = g[k]
    <3>1. PICK j \in 1 .. 7 : h[j] < g[j] /\ \A k \in 1 .. j - 1 : h[k] = g[k]
      BY <2>2
    <3>2. \A k \in 1 .. (j + 1) - 1 : p.magnitude[k] = q.magnitude[k]
      BY <1>11, <2>2, <3>1
    <3>3. j + 1 \in 1 .. 8 /\ p.magnitude[j + 1] < q.magnitude[j + 1]
      BY ONLY <1>12, <3>1
    <3> QED BY ONLY <1>7, <1>9, <1>14, <3>2, <3>3
  <2> QED BY <1>14, <2>1, <2>2 DEF Lower
<1>15. ASSUME m = n, Lower(other, g, exp, h) PROVE d_compare(a, b) = 1
  <2>1. CASE other < exp
    BY ONLY <1>7, <1>9, <1>13, <1>15, <2>1
  <2>2. CASE other = exp /\ \E j \in 1 .. 7 : g[j] < h[j] /\ \A k \in 1 .. j - 1 : g[k] = h[k]
    <3>1. PICK j \in 1 .. 7 : g[j] < h[j] /\ \A k \in 1 .. j - 1 : g[k] = h[k]
      BY <2>2
    <3>2. \A k \in 1 .. (j + 1) - 1 : p.magnitude[k] = q.magnitude[k]
      <4>1. exp = other /\ \A k \in 1 .. j - 1 : h[k] = g[k]
        BY <2>2, <3>1
      <4> QED BY <1>11, <4>1
    <3>3. j + 1 \in 1 .. 8 /\ q.magnitude[j + 1] < p.magnitude[j + 1]
      BY ONLY <1>12, <3>1
    <3> QED BY ONLY <1>7, <1>9, <1>15, <3>2, <3>3
  <2> QED BY <1>15, <2>1, <2>2 DEF Lower
<1> QED BY ONLY <1>8, <1>10, <1>14, <1>15

LEMMA EqualBytes ==
  ASSUME NEW a \in Seq(Nat), Len(a) = 8, NEW b \in Seq(Nat), Len(b) = 8
  PROVE  (__eqdf2(a, b) = 0) <=> (a = b)
<1>1. ASSUME __eqdf2(a, b) = 0 PROVE a = b
  <2>1. \A i \in 1 .. 8 : a[i] = b[i]
    BY <1>1 DEF __eqdf2
  <2>2. Len(a) = Len(b) /\ \A i \in 1 .. Len(a) : a[i] = b[i]
    BY <2>1
  <2> QED BY ONLY <2>2, a \in Seq(Nat), b \in Seq(Nat), SeqEqual
<1>2. ASSUME a = b PROVE __eqdf2(a, b) = 0
  BY <1>2 DEF __eqdf2
<1> QED BY <1>1, <1>2

LEMMA OrderOf ==
  ASSUME NEW x, NEW y
  PROVE  /\ Less(x, y) /\ ~Less(y, x) => Order(x, y) = -1
         /\ ~Less(x, y) /\ Less(y, x) => Order(x, y) = 1
         /\ ~Less(x, y) /\ ~Less(y, x) => Order(x, y) = 0
BY DEF Order

LEMMA NegativeFirst ==
  ASSUME NEW x, NEW y, x.sign = -1, y.sign = 0 \/ y.sign = 1
  PROVE  Less(x, y) /\ ~Less(y, x) /\ x # y
<1>1. x.sign < y.sign /\ ~(y.sign < x.sign) /\ x.sign # 1 /\ y.sign # -1 /\ x # y
  OBVIOUS
<1> QED BY ONLY <1>1 DEF Less

LEMMA NotLessItself ==
  ASSUME NEW m \in BOOLEAN, NEW h \in Mantissas, NEW p \in Int, NEW x, x = Value(m, Decimals(h), p),
         ~m, h[1] # 0 \/ \A i \in 1 .. 7 : h[i] = 0
  PROVE  ~Less(x, x) /\ (x.sign = 0 \/ x.sign = 1)
<1>1. CASE \A i \in 1 .. 7 : h[i] = 0
  <2>1. x = [sign |-> 0, digits |-> <<>>, point |-> 0]
    BY <1>1, ValueOfZero
  <2>2. x.sign = 0
    BY ONLY <2>1
  <2> QED BY ONLY <2>2 DEF Less
<1>2. CASE h[1] # 0
  <2>1. PICK o : o = IF h[1] < 10 THEN 1 ELSE 0
    OBVIOUS
  <2>2. (x.sign = IF m THEN -1 ELSE 1) /\ Shape(x, h, p, o)
    BY ONLY <1>2, <2>1, m \in BOOLEAN, h \in Mantissas, p \in Int, x = Value(m, Decimals(h), p),
       ValueOfMantissa
  <2>3. x.sign = 1
    BY ONLY <2>2, ~m
  <2>4. x.point \in Int
    <3>1. o \in Int /\ x.point = p - o
      BY <2>1, <2>2 DEF Shape
    <3> QED BY ONLY <3>1, p \in Int
  <2>5. \A i \in 1 .. 14 : At(x.digits, i) \in Int
    <3>1. \A q \in 1 .. 14 : Place(h, q) \in Int
      BY PlaceIs DEF Digits
    <3>2. \A i \in 1 .. 14 : At(x.digits, i) = IF i + o <= 14 THEN Place(h, i + o) ELSE 0
      BY ONLY <2>2 DEF Shape
    <3>3. o \in 0 .. 1
      BY ONLY <2>1
    <3> QED BY ONLY <3>1, <3>2, <3>3
  <2>6. ~Before(x.digits, x.digits)
    BY ONLY <2>5, BeforeIs
  <2>7. ~MagnitudeLess(x, x)
    BY ONLY <2>4, <2>6 DEF MagnitudeLess
  <2> QED BY ONLY <2>3, <2>7 DEF Less
<1> QED BY <1>1, <1>2

(* The comparisons answer with the order of the values. *)
LEMMA ComparedRight ==
  ASSUME NEW m \in BOOLEAN, NEW exp \in Exponents, NEW h \in Mantissas, Normal(exp, h),
         NEW n \in BOOLEAN, NEW other \in Exponents, NEW g \in Mantissas, Normal(other, g),
         Comparable(m, h, n, g),
         NEW a, a = Written(m, exp, h), NEW b, b = Written(n, other, g),
         NEW x, x = DoubleValue(a), NEW y, y = DoubleValue(b)
  PROVE  d_compare(a, b) = Order(x, y) /\ ((__eqdf2(a, b) = 0) <=> (x = y))
<1>1. PICK p \in Int, r \in Int : p = 2 * (exp - 63) /\ r = 2 * (other - 63)
  BY DEF Exponents
<1>2. x = Value(m, Decimals(h), p) /\ y = Value(n, Decimals(g), r)
  BY <1>1, DoubleValueIs
<1>3. a \in Seq(Nat) /\ Len(a) = 8 /\ b \in Seq(Nat) /\ Len(b) = 8
  BY Written8
<1>4. (__eqdf2(a, b) = 0) <=> (a = b)
  BY ONLY <1>3, EqualBytes
<1>5. a = b => x = y
  OBVIOUS
<1>6. /\ m => d_compare(a, b) = -1
      /\ n => d_compare(a, b) = 1
      /\ ~m /\ ~n /\ Lower(exp, h, other, g) => d_compare(a, b) = -1
      /\ ~m /\ ~n /\ Lower(other, g, exp, h) => d_compare(a, b) = 1
      /\ ~m /\ ~n /\ exp = other /\ h = g => d_compare(a, b) = 0
  <2>1. /\ m => h[1] # 0
        /\ n => g[1] # 0
        /\ ~(m /\ n)
    BY DEF Comparable
  <2>2. /\ m /\ ~n => d_compare(a, b) = -1
        /\ n /\ ~m => d_compare(a, b) = 1
        /\ m = n /\ Lower(exp, h, other, g) => d_compare(a, b) = -1
        /\ m = n /\ Lower(other, g, exp, h) => d_compare(a, b) = 1
        /\ m = n /\ exp = other /\ h = g => d_compare(a, b) = 0
    BY <2>1, ComparedBytes
  <2> QED BY ONLY <2>1, <2>2, m \in BOOLEAN, n \in BOOLEAN
<1>7. /\ h[1] # 0 \/ \A i \in 1 .. 7 : h[i] = 0
      /\ g[1] # 0 \/ \A i \in 1 .. 7 : g[i] = 0
  BY DEF Normal
<1>8. /\ ~m => ~Less(x, x) /\ (x.sign = 0 \/ x.sign = 1)
      /\ ~n => ~Less(y, y) /\ (y.sign = 0 \/ y.sign = 1)
  BY ONLY <1>2, <1>7, m \in BOOLEAN, n \in BOOLEAN, h \in Mantissas, g \in Mantissas,
     p \in Int, r \in Int, NotLessItself
<1>9. CASE m
  <2>1. h[1] # 0 /\ ~n
    BY <1>9 DEF Comparable
  <2>2. x.sign = -1
    <3>1. PICK o : o = IF h[1] < 10 THEN 1 ELSE 0
      OBVIOUS
    <3>2. x.sign = IF m THEN -1 ELSE 1
      BY ONLY <1>2, <2>1, <3>1, m \in BOOLEAN, h \in Mantissas, p \in Int, ValueOfMantissa
    <3> QED BY ONLY <1>9, <3>2
  <2>3. Less(x, y) /\ ~Less(y, x) /\ x # y
    BY ONLY <1>8, <2>1, <2>2, NegativeFirst
  <2>4. Order(x, y) = -1
    BY ONLY <2>3, OrderOf
  <2> QED BY ONLY <1>4, <1>5, <1>6, <1>9, <2>3, <2>4
<1>10. CASE n
  <2>1. g[1] # 0 /\ ~m
    BY <1>10 DEF Comparable
  <2>2. y.sign = -1
    <3>1. PICK o : o = IF g[1] < 10 THEN 1 ELSE 0
      OBVIOUS
    <3>2. y.sign = IF n THEN -1 ELSE 1
      BY ONLY <1>2, <2>1, <3>1, n \in BOOLEAN, g \in Mantissas, r \in Int, ValueOfMantissa
    <3> QED BY ONLY <1>10, <3>2
  <2>3. Less(y, x) /\ ~Less(x, y) /\ y # x
    BY ONLY <1>8, <2>1, <2>2, NegativeFirst
  <2>4. Order(x, y) = 1
    BY ONLY <2>3, OrderOf
  <2> QED BY ONLY <1>4, <1>5, <1>6, <1>10, <2>3, <2>4
<1>11. CASE ~m /\ ~n
  <2>1. CASE Lower(exp, h, other, g)
    <3>1. Less(x, y) /\ ~Less(y, x)
      BY <1>1, <1>2, <1>11, <2>1, LowerLess
    <3>2. Order(x, y) = -1
      BY ONLY <3>1, OrderOf
    <3>3. x # y
      BY ONLY <3>1
    <3> QED BY ONLY <1>4, <1>5, <1>6, <1>11, <2>1, <3>2, <3>3
  <2>2. CASE Lower(other, g, exp, h)
    <3>1. Less(y, x) /\ ~Less(x, y)
      BY <1>1, <1>2, <1>11, <2>2, LowerLess
    <3>2. Order(x, y) = 1
      BY ONLY <3>1, OrderOf
    <3>3. x # y
      BY ONLY <3>1
    <3> QED BY ONLY <1>4, <1>5, <1>6, <1>11, <2>2, <3>2, <3>3
  <2>3. CASE exp = other /\ h = g
    <3>1. m = n
      BY <1>11
    <3>2. a = b
      BY <2>3, <3>1
    <3>3. x = y /\ ~Less(x, y) /\ ~Less(y, x)
      <4>1. x = y
        BY <3>2
      <4> QED BY ONLY <1>8, <1>11, <4>1, Zenon
    <3>4. Order(x, y) = 0
      BY ONLY <3>3, OrderOf
    <3> QED BY ONLY <1>4, <1>6, <1>11, <2>3, <3>2, <3>3, <3>4
  <2>4. Lower(exp, h, other, g) \/ Lower(other, g, exp, h) \/ (exp = other /\ h = g)
    BY LowerOrNot
  <2> QED BY <2>1, <2>2, <2>3, <2>4
<1> QED BY <1>9, <1>10, <1>11

(* A constant less than zero has a mantissa that is not zero.              *)
LEMMA NegativeMantissa ==
  ASSUME NEW text \in Texts, InRange(text), Readable(text), PointSeen(text), NotMinusZero(text),
         NEW exp, NEW h \in Mantissas, Normal(exp, h), tireal_atof(text) = Written(text.negative, exp, h)
  PROVE  text.negative => h[1] # 0
<1> SUFFICES ASSUME text.negative, h[1] = 0 PROVE FALSE
  OBVIOUS
<1>1. text.negative \in BOOLEAN /\ exp \in Exponents
  <2>1. text.negative \in BOOLEAN
    BY ONLY text \in Texts DEF Texts
  <2>2. exp \in Exponents
    BY ONLY Normal(exp, h) DEF Normal
  <2> QED BY ONLY <2>1, <2>2
<1>2. DoubleValue(tireal_atof(text)) = Value(text.negative, Decimals(h), 2 * (exp - 63))
  <2>1. PICK d : d = tireal_atof(text)
    OBVIOUS
  <2>2. d = Written(text.negative, exp, h)
    BY <2>1
  <2>3. DoubleValue(d) = Value(text.negative, Decimals(h), 2 * (exp - 63))
    BY ONLY <1>1, <2>2, h \in Mantissas, Normal(exp, h), DoubleValueIs
  <2> QED BY ONLY <2>1, <2>3
<1>3. \A i \in 1 .. 7 : h[i] = 0
  BY DEF Normal
<1>4. Cut(TextValue(text)) = [sign |-> 0, digits |-> <<>>, point |-> 0]
  BY <1>2, <1>3, EncodedValue, ValueOfZero
<1>5. Cut(TextValue(text)).sign = 0
  BY ONLY <1>4
<1>6. PICK s, w, q : TextValue(text) = [sign |-> s, digits |-> w, point |-> q]
  BY DEF TextValue, Value
<1>7. Cut(TextValue(text)).sign = s /\ TextValue(text).sign = s
  BY <1>6 DEF Cut
<1> QED BY <1>5, <1>7 DEF NotMinusZero

(* The comparisons of two encoded constants.                               *)
LEMMA EncodedOrder ==
  ASSUME NEW s \in Texts, InRange(s), Readable(s), PointSeen(s), NotMinusZero(s),
         NEW t \in Texts, InRange(t), Readable(t), PointSeen(t), NotMinusZero(t),
         ~(s.negative /\ t.negative),
         NEW a, a = tireal_atof(s), NEW b, b = tireal_atof(t),
         NEW x, x = Cut(TextValue(s)), NEW y, y = Cut(TextValue(t))
  PROVE  d_compare(a, b) = Order(x, y) /\ ((__eqdf2(a, b) = 0) <=> (x = y))
<1>1. /\ HasDigits(s) /\ Point(s) \in Int /\ s.negative \in BOOLEAN
      /\ HasDigits(t) /\ Point(t) \in Int /\ t.negative \in BOOLEAN
  BY ConstantDouble DEF Texts
<1>2. PICK exp \in Exponents, h \in Mantissas : Normal(exp, h) /\ a = Written(s.negative, exp, h)
  BY <1>1, AtofIs
<1>3. PICK other \in Exponents, g \in Mantissas : Normal(other, g) /\ b = Written(t.negative, other, g)
  BY <1>1, AtofIs
<1>4. Comparable(s.negative, h, t.negative, g)
  BY <1>2, <1>3, NegativeMantissa DEF Comparable
<1>5. x = DoubleValue(a) /\ y = DoubleValue(b)
  BY EncodedValue
<1> QED BY ONLY <1>1, <1>2, <1>3, <1>4, <1>5, ComparedRight

(* The sign changes nothing else in a value.                               *)
LEMMA ValueButSign ==
  ASSUME NEW h, NEW p, NEW m, NEW x, x = Value(m, Decimals(h), p),
         NEW n, NEW v, v = Value(n, Decimals(h), p)
  PROVE  x.digits = v.digits /\ x.point = v.point
BY DEF Value

LEMMA SignOfValue ==
  ASSUME NEW h \in Mantissas, h[1] # 0, NEW p \in Int,
         NEW m \in BOOLEAN, NEW x, x = Value(m, Decimals(h), p)
  PROVE  x.sign = IF m THEN -1 ELSE 1
<1>1. PICK o : o = IF h[1] < 10 THEN 1 ELSE 0
  OBVIOUS
<1> QED BY ONLY <1>1, m \in BOOLEAN, h \in Mantissas, h[1] # 0, p \in Int,
           x = Value(m, Decimals(h), p), ValueOfMantissa

(* Of two numbers below zero the one of the smaller magnitude is greater.  *)
LEMMA LessBelowZero ==
  ASSUME NEW x, NEW v, x.sign = -1, v.sign = 1, x.digits = v.digits, x.point = v.point,
         NEW y, NEW w, y.sign = -1, w.sign = 1, y.digits = w.digits, y.point = w.point
  PROVE  Less(y, x) <=> Less(v, w)
<1>1. Less(y, x) <=> MagnitudeLess(x, y)
  BY DEF Less
<1>2. Less(v, w) <=> MagnitudeLess(v, w)
  BY DEF Less
<1>3. MagnitudeLess(x, y) <=> MagnitudeLess(v, w)
  BY DEF MagnitudeLess
<1> QED BY ONLY <1>1, <1>2, <1>3

(* d_compare takes the signs off and then orders the magnitudes, so of two *)
(* negative constants it answers with the opposite order, for all of them  *)
(* that miss the other defects: never what d_compare.c:5 says unless they  *)
(* are equal.  The condition on signs in Pairs cannot be left out.         *)
THEOREM NegativesReversed ==
  ASSUME NEW s \in Texts, InRange(s), Readable(s), PointSeen(s), NotMinusZero(s), s.negative,
         NEW t \in Texts, InRange(t), Readable(t), PointSeen(t), NotMinusZero(t), t.negative
  PROVE  d_compare(tireal_atof(s), tireal_atof(t)) = Order(Cut(TextValue(t)), Cut(TextValue(s)))
<1>1. PICK a, b : a = tireal_atof(s) /\ b = tireal_atof(t)
  OBVIOUS
<1>2. PICK x, y : x = Cut(TextValue(s)) /\ y = Cut(TextValue(t))
  OBVIOUS
<1>3. /\ HasDigits(s) /\ Point(s) \in Int /\ s.negative \in BOOLEAN /\ s.negative = TRUE
      /\ HasDigits(t) /\ Point(t) \in Int /\ t.negative \in BOOLEAN /\ t.negative = TRUE
  BY ConstantDouble DEF Texts
<1>4. PICK exp \in Exponents, h \in Mantissas : Normal(exp, h) /\ a = Written(s.negative, exp, h)
  BY <1>1, <1>3, AtofIs
<1>5. PICK other \in Exponents, g \in Mantissas : Normal(other, g) /\ b = Written(t.negative, other, g)
  BY <1>1, <1>3, AtofIs
<1>6. h[1] # 0 /\ g[1] # 0
  BY <1>1, <1>3, <1>4, <1>5, NegativeMantissa
<1>7. a = Written(TRUE, exp, h) /\ b = Written(TRUE, other, g)
  BY ONLY <1>3, <1>4, <1>5
<1>8. x = DoubleValue(a) /\ y = DoubleValue(b)
  BY <1>1, <1>2, EncodedValue
<1>9. PICK p \in Int, r \in Int : p = 2 * (exp - 63) /\ r = 2 * (other - 63)
  BY DEF Exponents
<1>10. x = Value(TRUE, Decimals(h), p) /\ y = Value(TRUE, Decimals(g), r)
  BY <1>4, <1>5, <1>7, <1>8, <1>9, DoubleValueIs
<1>11. PICK v, w : v = Value(FALSE, Decimals(h), p) /\ w = Value(FALSE, Decimals(g), r)
  OBVIOUS
<1>12. /\ x.sign = -1 /\ v.sign = 1 /\ x.digits = v.digits /\ x.point = v.point
       /\ y.sign = -1 /\ w.sign = 1 /\ y.digits = w.digits /\ y.point = w.point
  <2>1. PICK m \in BOOLEAN, n \in BOOLEAN : m = TRUE /\ n = FALSE
    OBVIOUS
  <2>2. /\ x = Value(m, Decimals(h), p) /\ y = Value(m, Decimals(g), r)
        /\ v = Value(n, Decimals(h), p) /\ w = Value(n, Decimals(g), r)
    BY ONLY <1>10, <1>11, <2>1
  <2>3. /\ x.sign = (IF m THEN -1 ELSE 1) /\ y.sign = (IF m THEN -1 ELSE 1)
        /\ v.sign = (IF n THEN -1 ELSE 1) /\ w.sign = (IF n THEN -1 ELSE 1)
    BY ONLY <1>6, <2>2, m \in BOOLEAN, n \in BOOLEAN, h \in Mantissas, g \in Mantissas,
       p \in Int, r \in Int, SignOfValue
  <2>4. x.digits = v.digits /\ x.point = v.point /\ y.digits = w.digits /\ y.point = w.point
    BY ONLY <2>2, ValueButSign
  <2> QED BY ONLY <2>1, <2>3, <2>4
<1>13. (Less(y, x) <=> Less(v, w)) /\ (Less(x, y) <=> Less(w, v))
  BY ONLY <1>12, LessBelowZero
<1>14. /\ Lower(exp, h, other, g) => d_compare(a, b) = -1
       /\ Lower(other, g, exp, h) => d_compare(a, b) = 1
       /\ exp = other /\ h = g => d_compare(a, b) = 0
  <2>1. PICK m \in BOOLEAN, n \in BOOLEAN : m = n /\ a = Written(m, exp, h) /\ b = Written(n, other, g)
    BY ONLY <1>3, <1>4, <1>5
  <2> QED BY ONLY <1>6, <2>1, exp \in Exponents, h \in Mantissas,
             other \in Exponents, g \in Mantissas, ComparedBytes
<1>15. PICK m \in BOOLEAN, n \in BOOLEAN :
         ~m /\ ~n /\ v = Value(m, Decimals(h), 2 * (exp - 63)) /\ w = Value(n, Decimals(g), 2 * (other - 63))
  BY ONLY <1>9, <1>11
<1>16. CASE Lower(exp, h, other, g)
  <2>1. Less(v, w) /\ ~Less(w, v)
    BY <1>4, <1>5, <1>15, <1>16, LowerLess
  <2> QED BY ONLY <1>1, <1>2, <1>13, <1>14, <1>16, <2>1, OrderOf
<1>17. CASE Lower(other, g, exp, h)
  <2>1. Less(w, v) /\ ~Less(v, w)
    BY <1>4, <1>5, <1>15, <1>17, LowerLess
  <2> QED BY ONLY <1>1, <1>2, <1>13, <1>14, <1>17, <2>1, OrderOf
<1>18. CASE exp = other /\ h = g
  <2>1. p = r
    BY ONLY <1>9, <1>18
  <2>2. v = w
    BY ONLY <1>11, <1>18, <2>1
  <2>3. ~Less(v, v)
    <3>1. ~FALSE /\ FALSE \in BOOLEAN
      OBVIOUS
    <3> QED BY ONLY <1>6, <1>11, <3>1, h \in Mantissas, p \in Int, NotLessItself
  <2>4. ~Less(x, y) /\ ~Less(y, x)
    BY ONLY <1>13, <2>2, <2>3
  <2> QED BY ONLY <1>1, <1>2, <1>14, <1>18, <2>4, OrderOf
<1> QED BY <1>16, <1>17, <1>18, LowerOrNot

LEMMA OneAndTwo == 1 \in 1 .. 2 /\ 2 \in 1 .. 2
OBVIOUS

(* A comparison answers with the order of the constants of the source,     *)
(* however often the compiler has read and written them: for every two     *)
(* constants that miss the known defects.                                  *)
THEOREM ConstantsOrdered ==
  ASSUME \A pair \in Constants : Pairs(pair)
  PROVE  Spec => []OrderRight
<1>1. TirealInv => OrderRight
  <2> SUFFICES ASSUME TirealInv, ~Drifted, stage = "compared" \/ stage = "compared for equality"
               PROVE  /\ stage = "compared" => answer = <<Order(Meant(1), Meant(2))>>
                      /\ stage = "compared for equality" => (answer = <<0>>) = (Meant(1) = Meant(2))
    BY DEF OrderRight
  <2>1. stage # "source" /\ DOMAIN doubles = 1 .. 2
    BY DEF TirealInv, Compiled
  <2>2. doubles[1] = Encoded(1) /\ doubles[2] = Encoded(2)
    <3>1. \A k \in 1 .. 2 : doubles[k] = Encoded(k)
      BY <2>1 DEF Drifted
    <3> QED BY ONLY <3>1, OneAndTwo
  <2>3. /\ 1 \in 1 .. 2 /\ 2 \in 1 .. 2
        /\ constants[1] \in Texts /\ InRange(constants[1])
        /\ constants[2] \in Texts /\ InRange(constants[2])
    <3>1. Compiled
      BY DEF TirealInv
    <3>2. \A k \in 1 .. 2 : constants[k] \in Texts /\ InRange(constants[k])
      BY ONLY <3>1, EncodedIs
    <3> QED BY ONLY <3>2, OneAndTwo
  <2>4. Pairs(constants)
    BY DEF TirealInv, Compiled
  <2>5. /\ d_compare(doubles[1], doubles[2]) = Order(Meant(1), Meant(2))
        /\ (__eqdf2(doubles[1], doubles[2]) = 0) <=> (Meant(1) = Meant(2))
    <3>1. PICK c, d : c = constants[1] /\ d = constants[2]
      OBVIOUS
    <3>2. /\ c \in Texts /\ InRange(c) /\ Readable(c) /\ PointSeen(c) /\ NotMinusZero(c)
          /\ d \in Texts /\ InRange(d) /\ Readable(d) /\ PointSeen(d) /\ NotMinusZero(d)
          /\ ~(c.negative /\ d.negative)
      BY ONLY <2>3, <2>4, <3>1 DEF Pairs
    <3>3. PICK a, b : a = tireal_atof(c) /\ b = tireal_atof(d)
      OBVIOUS
    <3>4. PICK x, y : x = Cut(TextValue(c)) /\ y = Cut(TextValue(d))
      OBVIOUS
    <3>5. d_compare(a, b) = Order(x, y) /\ ((__eqdf2(a, b) = 0) <=> (x = y))
      BY ONLY <3>2, <3>3, <3>4, EncodedOrder
    <3>6. a = doubles[1] /\ b = doubles[2] /\ x = Meant(1) /\ y = Meant(2)
      BY ONLY <2>2, <3>1, <3>3, <3>4 DEF Encoded, Meant
    <3> QED BY ONLY <3>5, <3>6
  <2>6. ASSUME stage = "compared" PROVE answer = <<Order(Meant(1), Meant(2))>>
    BY <2>5, <2>6 DEF TirealInv, Answered
  <2>7. ASSUME stage = "compared for equality" PROVE (answer = <<0>>) = (Meant(1) = Meant(2))
    <3> DEFINE e == __eqdf2(doubles[1], doubles[2])
    <3>1. answer = <<e>>
      BY <2>7 DEF TirealInv, Answered
    <3> HIDE DEF e
    <3>2. (answer = <<0>>) <=> (e = 0)
      BY ONLY <3>1
    <3>3. (answer = <<0>>) <=> (Meant(1) = Meant(2))
      BY <2>5, <3>2 DEF e
    <3> QED BY ONLY <3>3, Zenon
  <2> QED BY <2>6, <2>7
<1> QED BY <1>1, TirealInvariant, PTL
=============================================================================
