----------------------------- MODULE Data_proofs ----------------------------
(***************************************************************************)
(* Facts about numbers and sequences that the other proofs use: induction  *)
(* over the natural numbers in a form that needs no operator as a          *)
(* parameter, and what follows for powers of two and for quotients and     *)
(* remainders by them; sequences of bytes and their parts.                 *)
(***************************************************************************)
EXTENDS Powers, Sequences, WellFoundedInduction, TLAPS

(* Every set of natural numbers that is not empty has a least member. *)
LEMMA LeastNumber ==
  ASSUME NEW T, T \subseteq Nat, T # {}
  PROVE  \E m \in T : \A k \in T : m <= k
<1> DEFINE R == {ss \in Nat \X Nat : ss[1] < ss[2]}
<1>1. IsWellFoundedOn(R, Nat)
  BY NatLessThanWellFounded DEF OpToRel
<1>2. PICK m \in T : \A k \in T : <<k, m>> \notin R
  <2> HIDE DEF R
  <2> QED BY <1>1, WFMin
<1>3. ASSUME NEW k \in T PROVE m <= k
  <2>1. <<k, m>> \in Nat \X Nat /\ <<k, m>>[1] = k /\ <<k, m>>[2] = m
    OBVIOUS
  <2>2. ~(k < m)
    BY <1>2, <2>1
  <2> QED BY <2>2
<1> QED BY <1>3

(* Induction: a set of which 0 and the successor of every member are       *)
(* members holds every natural number.                                     *)
LEMMA Induction ==
  ASSUME NEW T, 0 \in T, \A n \in Nat : n \in T => n + 1 \in T
  PROVE  \A n \in Nat : n \in T
<1> DEFINE U == Nat \ T
<1> SUFFICES ASSUME U # {} PROVE FALSE
  OBVIOUS
<1>1. PICK m \in U : \A k \in U : m <= k
  <2> HIDE DEF U
  <2>1. U \subseteq Nat
    BY DEF U
  <2> QED BY <2>1, LeastNumber
<1>2. m # 0 /\ m - 1 \in Nat /\ m - 1 \notin U
  BY <1>1
<1> QED BY <1>2

-----------------------------------------------------------------------------
(* The recursive definition of PowerOfTwo defines a function: it is built  *)
(* up to every n, and what is built up to n + 1 agrees below.              *)
LEMMA PowerOfTwoDefined ==
  PowerOfTwo = [n \in Nat |-> IF n = 0 THEN 1 ELSE 2 * PowerOfTwo[n - 1]]
<1> DEFINE UpTo(g, n) ==
      g \in [0 .. n -> Nat] /\ g[0] = 1 /\ \A k \in 1 .. n : g[k] = 2 * g[k - 1]
           T == {n \in Nat : \E g : UpTo(g, n)}
<1>1. 0 \in T
  <2>1. UpTo([k \in 0 .. 0 |-> 1], 0)
    OBVIOUS
  <2> QED BY <2>1
<1>2. ASSUME NEW n \in Nat, n \in T PROVE n + 1 \in T
  <2>1. PICK g : UpTo(g, n)
    BY <1>2
  <2> DEFINE h == [k \in 0 .. n + 1 |-> IF k = n + 1 THEN 2 * g[n] ELSE g[k]]
  <2>2. h \in [0 .. n + 1 -> Nat] /\ h[0] = 1
    BY <2>1
  <2>3. ASSUME NEW k \in 1 .. n + 1 PROVE h[k] = 2 * h[k - 1]
    BY <2>1
  <2>4. UpTo(h, n + 1)
    BY <2>2, <2>3
  <2> HIDE DEF h, UpTo
  <2> QED BY <2>4
<1>3. \A n \in Nat : n \in T
  <2> HIDE DEF T
  <2> QED BY <1>1, <1>2, Induction
<1> DEFINE G(n) == CHOOSE g : UpTo(g, n)
<1>4. \A n \in Nat : UpTo(G(n), n)
  BY <1>3
<1> HIDE DEF G
<1>5. ASSUME NEW n \in Nat PROVE G(n + 1)[n] = G(n)[n]
  <2> DEFINE U == {k \in Nat : k <= n => G(n + 1)[k] = G(n)[k]}
  <2>1. 0 \in U
    <3>1. UpTo(G(n), n)
      BY <1>4
    <3>2. UpTo(G(n + 1), n + 1)
      BY <1>4
    <3> HIDE DEF T
    <3> QED BY <3>1, <3>2
  <2>2. ASSUME NEW k \in Nat, k \in U PROVE k + 1 \in U
    <3>1. CASE k + 1 <= n
      <4>1. /\ G(n + 1)[k + 1] = 2 * G(n + 1)[(k + 1) - 1]
            /\ G(n)[k + 1] = 2 * G(n)[(k + 1) - 1]
        BY <1>4, <3>1
      <4> QED BY <4>1, <2>2, <3>1
    <3> QED BY <3>1
  <2>3. \A k \in Nat : k \in U
    <3> HIDE DEF U
    <3> QED BY <2>1, <2>2, Induction
  <2> QED BY <2>3
<1> DEFINE h == [n \in Nat |-> G(n)[n]]
<1>6. h = [n \in Nat |-> IF n = 0 THEN 1 ELSE 2 * h[n - 1]]
  <2>1. ASSUME NEW n \in Nat, n # 0 PROVE h[n] = 2 * h[n - 1]
    <3>1. G(n)[n] = 2 * G(n)[n - 1]
      BY <1>4, <2>1
    <3>2. G((n - 1) + 1)[n - 1] = G(n - 1)[n - 1]
      BY <1>5, <2>1
    <3> QED BY <2>1, <3>1, <3>2
  <2>2. h[0] = 1
    BY <1>4
  <2> QED BY <2>1, <2>2
<1> QED BY <1>6 DEF PowerOfTwo

LEMMA PowerOfZero == PowerOfTwo[0] = 1
BY PowerOfTwoDefined

LEMMA PowerOfNext == \A n \in Nat : PowerOfTwo[n + 1] = 2 * PowerOfTwo[n]
<1> SUFFICES ASSUME NEW n \in Nat PROVE PowerOfTwo[n + 1] = 2 * PowerOfTwo[n]
  OBVIOUS
<1>1. PowerOfTwo[n + 1] = 2 * PowerOfTwo[(n + 1) - 1]
  BY PowerOfTwoDefined
<1> QED BY <1>1

LEMMA PowerPositive == \A n \in Nat : PowerOfTwo[n] \in Nat \ {0}
<1> DEFINE T == {n \in Nat : PowerOfTwo[n] \in Nat \ {0}}
<1>1. 0 \in T
  BY PowerOfZero
<1>2. ASSUME NEW n \in Nat, n \in T PROVE n + 1 \in T
  BY <1>2, PowerOfNext
<1>3. \A n \in Nat : n \in T
  <2> HIDE DEF T
  <2> QED BY <1>1, <1>2, Induction
<1> QED BY <1>3

(* A power divides every greater one. *)
LEMMA PowersDivide ==
  \A m \in Nat, n \in Nat : \E c \in Nat \ {0} : PowerOfTwo[n + m] = c * PowerOfTwo[n]
<1> SUFFICES ASSUME NEW n \in Nat
             PROVE  \A m \in Nat : \E c \in Nat \ {0} : PowerOfTwo[n + m] = c * PowerOfTwo[n]
  OBVIOUS
<1> DEFINE T == {m \in Nat : \E c \in Nat \ {0} : PowerOfTwo[n + m] = c * PowerOfTwo[n]}
<1>1. 0 \in T
  <2>1. n + 0 = n /\ PowerOfTwo[n] = 1 * PowerOfTwo[n]
    BY PowerPositive
  <2> QED BY <2>1
<1>2. ASSUME NEW m \in Nat, m \in T PROVE m + 1 \in T
  <2>1. PICK c \in Nat \ {0} : PowerOfTwo[n + m] = c * PowerOfTwo[n]
    BY <1>2
  <2>2. n + (m + 1) = (n + m) + 1 /\ n + m \in Nat
    OBVIOUS
  <2>3. PowerOfTwo[n + (m + 1)] = 2 * PowerOfTwo[n + m]
    BY <2>2, PowerOfNext
  <2>4. 2 * (c * PowerOfTwo[n]) = (2 * c) * PowerOfTwo[n] /\ 2 * c \in Nat \ {0}
    BY PowerPositive
  <2> QED BY <2>1, <2>3, <2>4
<1>3. \A m \in Nat : m \in T
  <2> HIDE DEF T
  <2> QED BY <1>1, <1>2, Induction
<1> QED BY <1>3

LEMMA PowersGrow ==
  ASSUME NEW m \in Nat, NEW n \in Nat, m <= n
  PROVE  PowerOfTwo[m] <= PowerOfTwo[n]
<1>1. PICK c \in Nat \ {0} : PowerOfTwo[m + (n - m)] = c * PowerOfTwo[m]
  BY PowersDivide, n - m \in Nat
<1>2. m + (n - m) = n
  OBVIOUS
<1>3. PowerOfTwo[m] \in Nat \ {0}
  BY PowerPositive
<1> DEFINE p == PowerOfTwo[m]
<1>4. c * p >= p
  <2> HIDE DEF p
  <2>1. p \in Nat
    BY <1>3 DEF p
  <2> QED BY <2>1
<1> QED BY <1>1, <1>2, <1>4

-----------------------------------------------------------------------------
(* Quotients and remainders *)

LEMMA Division ==
  ASSUME NEW x \in Int, NEW d \in Nat \ {0}
  PROVE  /\ x \div d \in Int
         /\ x % d \in 0 .. d - 1
         /\ x = (x \div d) * d + (x % d)
OBVIOUS

LEMMA DivisionUnique ==
  ASSUME NEW d \in Nat \ {0}, NEW q \in Int, NEW r \in 0 .. d - 1
  PROVE  (q * d + r) \div d = q /\ (q * d + r) % d = r
<1> DEFINE x == q * d + r
           q2 == x \div d
           r2 == x % d
<1>1. x \in Int
  OBVIOUS
<1>2. q2 \in Int /\ r2 \in 0 .. d - 1 /\ x = q2 * d + r2
  BY <1>1, Division
<1>3. (q - q2) * d = r2 - r
  <2> HIDE DEF q2, r2
  <2> QED BY <1>2
<1>4. q = q2
  <2> HIDE DEF q2, r2, x
  <2>1. CASE q - q2 >= 1
    <3>1. (q - q2) * d >= d
      BY <1>2, <2>1
    <3> QED BY <1>2, <1>3, <3>1
  <2>2. CASE q - q2 <= -1
    <3>1. (q - q2) * d <= -d
      BY <1>2, <2>2
    <3> QED BY <1>2, <1>3, <3>1
  <2> QED BY <1>2, <2>1, <2>2
<1> QED BY <1>2, <1>3, <1>4

LEMMA Multiple ==
  ASSUME NEW d \in Nat \ {0}, NEW m \in Int
  PROVE  (m * d) \div d = m /\ (m * d) % d = 0
<1>1. 0 \in 0 .. d - 1
  OBVIOUS
<1>2. (m * d + 0) \div d = m /\ (m * d + 0) % d = 0
  BY ONLY <1>1, DivisionUnique, d \in Nat \ {0}, m \in Int
<1>3. m * d + 0 = m * d
  OBVIOUS
<1> QED BY ONLY <1>2, <1>3

LEMMA Below ==
  ASSUME NEW d \in Nat \ {0}, NEW x \in 0 .. d - 1
  PROVE  x \div d = 0 /\ x % d = x
<1>1. 0 \in Int
  OBVIOUS
<1>2. (0 * d + x) \div d = 0 /\ (0 * d + x) % d = x
  BY ONLY <1>1, DivisionUnique, d \in Nat \ {0}, x \in 0 .. d - 1
<1>3. 0 * d + x = x
  OBVIOUS
<1> QED BY ONLY <1>2, <1>3

LEMMA HalfOfQuotient ==
  ASSUME NEW x \in Int, NEW d \in Nat \ {0}
  PROVE  (x \div d) \div 2 = x \div (2 * d)
<1> DEFINE q == x \div d
           h == q \div 2
           r == (q % 2) * d + (x % d)
<1>1. q \in Int /\ x % d \in 0 .. d - 1 /\ x = q * d + (x % d)
  BY Division
<1>2. h \in Int /\ q % 2 \in 0 .. 1 /\ q = h * 2 + (q % 2)
  BY <1>1, Division
<1>3. x = h * (2 * d) + r /\ r \in 0 .. 2 * d - 1
  <2> DEFINE b == q % 2
             y == x % d
  <2>1. b \in {0, 1} /\ y \in 0 .. d - 1 /\ x = q * d + y /\ q = h * 2 + b /\ h \in Int
    BY <1>1, <1>2
  <2>2. r = b * d + y
    OBVIOUS
  <2> HIDE DEF b, y, h, q, r
  <2>3. q * d = h * (2 * d) + b * d
    BY <2>1
  <2>4. b * d \in Int /\ b * d \in {0, d}
    BY <2>1
  <2>5. h * (2 * d) \in Int
    BY <2>1
  <2> QED BY <2>1, <2>2, <2>3, <2>4, <2>5
<1> QED
  <2>1. 2 * d \in Nat \ {0}
    OBVIOUS
  <2>2. h \in Int /\ r \in 0 .. (2 * d) - 1 /\ x = h * (2 * d) + r
    BY <1>2, <1>3
  <2> HIDE DEF h, r
  <2>3. x \div (2 * d) = h
    BY <2>1, <2>2, DivisionUnique
  <2> QED BY <2>3 DEF h

(* One step of long division: x \div (2 * p) is q times d and r over, the  *)
(* next bit of x is taken.                                                 *)
LEMMA NextBit ==
  ASSUME NEW x \in Nat, NEW p \in Nat \ {0}, NEW d \in Nat \ {0},
         NEW q \in Nat, NEW r \in 0 .. d - 1,
         x \div (2 * p) = q * d + r
  PROVE  LET taken == 2 * r + ((x \div p) % 2)
         IN  /\ x \div p = (2 * q) * d + taken
             /\ taken \in 0 .. x
             /\ taken - d < d
             /\ 2 * q <= x \div p
             /\ taken >= d => /\ x \div p = (2 * q + 1) * d + (taken - d)
                              /\ 2 * q + 1 <= x \div p
             /\ \A k \in Nat : k <= x \div p => k * p <= x
<1> DEFINE n == x \div p
           b == n % 2
           taken == 2 * r + b
<1>1. n \in Nat /\ x % p \in 0 .. p - 1 /\ x = n * p + (x % p)
  <2>1. n \in Int /\ x % p \in 0 .. p - 1 /\ x = n * p + (x % p)
    BY Division
  <2>2. n >= 0
    <3> DEFINE y == x % p
    <3> HIDE DEF n, y
    <3>1. n \in Int /\ y \in 0 .. p - 1 /\ x = n * p + y
      BY <2>1 DEF y
    <3>2. n <= -1 => n * p <= -p
      BY <3>1
    <3> QED BY <3>1, <3>2
  <2> QED BY <2>1, <2>2
<1>2. b \in 0 .. 1 /\ n = (n \div 2) * 2 + b
  BY <1>1, Division
<1>3. n \div 2 = q * d + r
  BY HalfOfQuotient
<1> HIDE DEF n, b
<1>4. n = (2 * q) * d + taken
  <2>1. n = (q * d + r) * 2 + b
    BY <1>2, <1>3
  <2>2. (q * d + r) * 2 = (2 * q) * d + 2 * r
    OBVIOUS
  <2> QED BY <1>2, <2>1, <2>2
<1>5. \A k \in Nat : k <= n => k * p <= x
  <2> SUFFICES ASSUME NEW k \in Nat, k <= n PROVE k * p <= x
    OBVIOUS
  <2> DEFINE y == x % p
  <2>0. y \in Nat /\ x = n * p + y
    BY <1>1
  <2> HIDE DEF y
  <2>1. (n - k) * p >= 0
    BY <1>1
  <2>2. n * p = k * p + (n - k) * p
    BY <1>1
  <2> QED BY <1>1, <2>0, <2>1, <2>2
<1>6. taken \in 0 .. n
  <2>1. (2 * q) * d >= 0
    OBVIOUS
  <2> QED BY <1>1, <1>2, <1>4, <2>1
<1>7. n <= x
  <2>1. n * p <= x
    BY <1>1, <1>5
  <2>2. n <= n * p
    BY <1>1
  <2> QED BY <1>1, <2>1, <2>2
<1>8. \A k \in Nat : k <= k * d
  OBVIOUS
<1>9. 2 * q <= n
  <2>1. 2 * q <= (2 * q) * d
    BY <1>8
  <2> QED BY <1>1, <1>4, <1>6, <2>1
<1>10. ASSUME taken >= d
       PROVE  n = (2 * q + 1) * d + (taken - d) /\ 2 * q + 1 <= n
  <2>1. (2 * q + 1) * d = (2 * q) * d + d
    OBVIOUS
  <2>2. 2 * q + 1 <= (2 * q + 1) * d
    BY <1>8
  <2> QED BY <1>1, <1>4, <1>6, <1>10, <2>1, <2>2
<1> QED
  <2>1. taken \in 0 .. x /\ taken - d < d
    BY <1>1, <1>2, <1>6, <1>7
  <2> QED BY <1>4, <1>5, <1>9, <1>10, <2>1 DEF n, b

(***************************************************************************)
(* Sequences of bytes: parts of them, and one put after another.           *)
(***************************************************************************)
Byte == {x \in Nat : x < 256}

LEMMA Joined ==
    ASSUME NEW S, NEW s \in Seq(S), NEW t \in Seq(S)
    PROVE  /\ s \o t \in Seq(S) /\ Len(s \o t) = Len(s) + Len(t)
           /\ \A k \in 1 .. Len(s) : (s \o t)[k] = s[k]
           /\ \A k \in 1 .. Len(t) : (s \o t)[Len(s) + k] = t[k]
OBVIOUS

LEMMA Part ==
    ASSUME NEW S, NEW s \in Seq(S), NEW p \in Nat, NEW n \in Nat, p + n <= Len(s)
    PROVE  /\ SubSeq(s, p + 1, p + n) \in Seq(S) /\ Len(SubSeq(s, p + 1, p + n)) = n
           /\ \A k \in 1 .. n : SubSeq(s, p + 1, p + n)[k] = s[p + k]
<1>1. Len(s) \in Nat /\ \A k \in 1 .. Len(s) : s[k] \in S
    OBVIOUS
<1>2. SubSeq(s, p + 1, p + n) = [k \in 1 .. n |-> s[p + k]]
    <2>1. (p + n) - (p + 1) + 1 = n /\ \A k \in 1 .. n : k + (p + 1) - 1 = p + k
        OBVIOUS
    <2> QED BY <2>1
<1>3. \A k \in 1 .. n : p + k \in 1 .. Len(s)
    BY <1>1
<1> QED BY <1>1, <1>2, <1>3
=============================================================================
