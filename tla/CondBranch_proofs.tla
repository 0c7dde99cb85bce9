-------------------------- MODULE CondBranch_proofs --------------------------
(***************************************************************************)
(* Proofs about the branches the compiler emits, for every test: which of  *)
(* them the linker accepts (the code around a branch is laid out item by   *)
(* item, and the distance of final.c is compared with the displacement),   *)
(* that the jumps of output_branch, behind each compare pattern, go where  *)
(* the C condition says, and that the processor that executes this code,   *)
(* word by word as it is in memory, leaves it where the condition says.    *)
(***************************************************************************)
EXTENDS CondBranch, Data_proofs, Tms9900_proofs

-----------------------------------------------------------------------------
(* Programs and the addresses of their items.                              *)

Names == {"l0", "next", "JMP", "end"}

Item ==
  [kind : {"words"}, words : Seq(Int)]
  \cup [kind : {"jump", "branch"}, op : Int, label : Names]
  \cup [kind : {"label"}, label : Names]
  \cup [kind : {"skip"}, bytes : Int]

LEMMA SizeInt == ASSUME NEW item \in Item PROVE Size(item) \in Int
BY DEF Item, Size

LEMMA ItemsAre ==
  /\ \A l \in Names : Label(l) \in Item
  /\ \A ws \in Seq(Int) : Words(ws) \in Item
  /\ \A n \in Int : Skip(n) \in Item
  /\ \A op \in Int, l \in Names : [kind |-> "jump", op |-> op, label |-> l] \in Item
  /\ \A op \in Int, l \in Names : [kind |-> "branch", op |-> op, label |-> l] \in Item
<1>1. ASSUME NEW l \in Names PROVE Label(l) \in [kind : {"label"}, label : Names]
  BY DEF Label
<1>2. ASSUME NEW ws \in Seq(Int) PROVE Words(ws) \in [kind : {"words"}, words : Seq(Int)]
  BY DEF Words
<1>3. ASSUME NEW n \in Int PROVE Skip(n) \in [kind : {"skip"}, bytes : Int]
  BY DEF Skip
<1> QED BY <1>1, <1>2, <1>3 DEF Item

(* What the addresses of a program have to be, and that they are.          *)
Addresses(g, program, base) ==
  /\ g \in [1 .. Len(program) -> Int]
  /\ \A k \in 1 .. Len(program) :
        g[k] = IF k = 1 THEN base ELSE g[k - 1] + Size(program[k - 1])

LEMMA OneLayout ==
  ASSUME NEW program \in Seq(Item), NEW base, NEW g, NEW h,
         Addresses(g, program, base), Addresses(h, program, base)
  PROVE  g = h
<1>1. Len(program) \in Nat
  OBVIOUS
<1> DEFINE T == {n \in Nat : n + 1 \in 1 .. Len(program) => g[n + 1] = h[n + 1]}
<1>2. 0 \in T
  BY DEF Addresses
<1>3. ASSUME NEW n \in Nat, n \in T PROVE n + 1 \in T
  <2>1. ASSUME (n + 1) + 1 \in 1 .. Len(program) PROVE g[(n + 1) + 1] = h[(n + 1) + 1]
    <3>1. g[n + 1] = h[n + 1]
      BY <1>1, <1>3, <2>1
    <3>2. /\ (n + 1) + 1 # 1 /\ ((n + 1) + 1) - 1 = n + 1
      OBVIOUS
    <3>3. /\ g[(n + 1) + 1] = g[n + 1] + Size(program[n + 1])
          /\ h[(n + 1) + 1] = h[n + 1] + Size(program[n + 1])
      BY <2>1, <3>2 DEF Addresses
    <3> QED BY <3>1, <3>3
  <2> QED BY <2>1
<1>4. \A n \in Nat : n \in T
  <2> HIDE DEF T
  <2> QED BY <1>2, <1>3, Induction
<1>5. ASSUME NEW k \in 1 .. Len(program) PROVE g[k] = h[k]
  <2>1. k - 1 \in Nat /\ (k - 1) + 1 = k
    BY <1>1
  <2> QED BY <1>4, <2>1
<1>6. g \in [1 .. Len(program) -> Int] /\ h \in [1 .. Len(program) -> Int]
  BY DEF Addresses
<1> QED BY <1>5, <1>6

LEMMA LayoutOK ==
  ASSUME NEW program \in Seq(Item), NEW base \in Int
  PROVE  Addresses(Layout(program, base), program, base)
<1> DEFINE n == Len(program)
           UpTo(g, j) == /\ g \in [1 .. j -> Int]
                         /\ \A k \in 1 .. j :
                               g[k] = IF k = 1 THEN base ELSE g[k - 1] + Size(program[k - 1])
           T == {j \in Nat : j <= n => \E g : UpTo(g, j)}
<1>1. n \in Nat
  OBVIOUS
<1>2. 0 \in T
  <2>1. UpTo([k \in 1 .. 0 |-> base], 0)
    OBVIOUS
  <2> QED BY <2>1
<1>3. ASSUME NEW j \in Nat, j \in T PROVE j + 1 \in T
  <2> SUFFICES ASSUME j + 1 <= n PROVE \E g : UpTo(g, j + 1)
    OBVIOUS
  <2>1. PICK g : UpTo(g, j)
    BY <1>1, <1>3
  <2> DEFINE last == IF j = 0 THEN base ELSE g[j] + Size(program[j])
             h == [k \in 1 .. j + 1 |-> IF k = j + 1 THEN last ELSE g[k]]
  <2>2. last \in Int
    <3>1. CASE j # 0
      <4>1. program[j] \in Item /\ g[j] \in Int
        BY <1>1, <2>1, <3>1
      <4> QED BY <3>1, <4>1, SizeInt
    <3> QED BY <3>1
  <2>3. h \in [1 .. j + 1 -> Int]
    BY <2>1, <2>2
  <2>4. ASSUME NEW k \in 1 .. j + 1
        PROVE  h[k] = IF k = 1 THEN base ELSE h[k - 1] + Size(program[k - 1])
    <3>1. CASE k = j + 1
      BY <2>1, <3>1
    <3>2. CASE k # j + 1
      BY <2>1, <3>2
    <3> QED BY <3>1, <3>2
  <2> HIDE DEF h, last
  <2> QED BY <2>3, <2>4
<1>4. PICK g : UpTo(g, n)
  <2>1. \A j \in Nat : j \in T
    <3> HIDE DEF T
    <3> QED BY <1>2, <1>3, Induction
  <2>2. n \in T
    BY ONLY <1>1, <2>1
  <2>3. n <= n
    BY <1>1
  <2> HIDE DEF UpTo
  <2> QED BY ONLY <2>2, <2>3
<1> DEFINE Is(a) == a = [k \in 1 .. n |-> IF k = 1 THEN base ELSE a[k - 1] + Size(program[k - 1])]
<1>5. Is(g)
  BY <1>4
<1>6. Is(CHOOSE a : Is(a))
  BY <1>5
<1>7. PICK a : a = Layout(program, base)
  OBVIOUS
<1>8. Is(a)
  BY <1>6, <1>7 DEF Layout
<1>9. ASSUME NEW k \in 1 .. n PROVE a[k] = IF k = 1 THEN base ELSE a[k - 1] + Size(program[k - 1])
  BY <1>8
<1> DEFINE U == {j \in Nat : j + 1 \in 1 .. n => a[j + 1] = g[j + 1]}
<1>10. 0 \in U
  BY <1>4, <1>9
<1>11. ASSUME NEW j \in Nat, j \in U PROVE j + 1 \in U
  <2>1. ASSUME (j + 1) + 1 \in 1 .. n PROVE a[(j + 1) + 1] = g[(j + 1) + 1]
    <3>1. a[j + 1] = g[j + 1]
      BY <1>1, <1>11, <2>1
    <3>2. /\ (j + 1) + 1 # 1 /\ ((j + 1) + 1) - 1 = j + 1
      OBVIOUS
    <3>3. /\ a[(j + 1) + 1] = a[j + 1] + Size(program[j + 1])
          /\ g[(j + 1) + 1] = g[j + 1] + Size(program[j + 1])
      BY <1>4, <1>9, <2>1, <3>2
    <3> QED BY <3>1, <3>3
  <2> QED BY <2>1
<1>12. \A j \in Nat : j \in U
  <2> HIDE DEF U
  <2> QED BY <1>10, <1>11, Induction
<1>13. ASSUME NEW k \in 1 .. n PROVE a[k] = g[k]
  <2>1. k - 1 \in Nat /\ (k - 1) + 1 = k
    BY <1>1
  <2> QED BY <1>12, <2>1
<1>14. a \in [1 .. n -> Int]
  BY <1>4, <1>8, <1>13
<1> QED BY <1>7, <1>9, <1>14 DEF Addresses

LEMMA LayoutIs ==
  ASSUME NEW program \in Seq(Item), NEW base \in Int, NEW g, Addresses(g, program, base)
  PROVE  Layout(program, base) = g
BY LayoutOK, OneLayout

LEMMA FirstAndNext ==
  ASSUME NEW program \in Seq(Item), NEW base \in Int
  PROVE  /\ Layout(program, base) \in [1 .. Len(program) -> Int]
         /\ Len(program) > 0 => Layout(program, base)[1] = base
         /\ \A k \in 1 .. Len(program) - 1 :
               Layout(program, base)[k + 1] = Layout(program, base)[k] + Size(program[k])
<1>1. Addresses(Layout(program, base), program, base)
  BY LayoutOK
<1>2. Len(program) \in Nat
  OBVIOUS
<1>3. ASSUME NEW k \in 1 .. Len(program) - 1
      PROVE  Layout(program, base)[k + 1] = Layout(program, base)[k] + Size(program[k])
  <2>1. k + 1 \in 1 .. Len(program) /\ k + 1 # 1 /\ (k + 1) - 1 = k
    BY <1>2
  <2> QED BY <1>1, <2>1 DEF Addresses
<1> QED BY <1>1, <1>2, <1>3 DEF Addresses

(* The bytes of a program, and where the next would be.                    *)
LEMMA CodeSizeIs ==
  ASSUME NEW program \in Seq(Item)
  PROVE  /\ CodeSize(program) \in Int
         /\ Len(program) = 0 => CodeSize(program) = 0
         /\ Len(program) # 0 =>
               CodeSize(program) = Layout(program, 0)[Len(program)] + Size(program[Len(program)])
<1> DEFINE n == Len(program)
           whole == program \o <<Label("end")>>
           g == Layout(program, 0)
           last == IF n = 0 THEN 0 ELSE g[n] + Size(program[n])
           h == [k \in 1 .. n + 1 |-> IF k = n + 1 THEN last ELSE g[k]]
<1>1. n \in Nat /\ Label("end") \in Item
  <2>1. \A l \in Names : Label(l) \in Item
    BY ItemsAre
  <2>2. "end" \in Names
    BY DEF Names
  <2>3. Label("end") \in Item
    BY ONLY <2>1, <2>2
  <2> QED BY <2>3
<1>2. /\ whole \in Seq(Item) /\ Len(whole) = n + 1
      /\ \A k \in 1 .. n : whole[k] = program[k]
  BY <1>1
<1>3. Addresses(g, program, 0)
  BY LayoutOK
<1>4. last \in Int
  <2>1. ASSUME n # 0 PROVE g[n] \in Int /\ program[n] \in Item
    BY <1>1, <1>3, <2>1 DEF Addresses
  <2> QED BY <2>1, SizeInt
<1> HIDE DEF g
<1>5. Addresses(h, whole, 0)
  <2>1. h \in [1 .. n + 1 -> Int]
    BY <1>3, <1>4 DEF Addresses
  <2>2. ASSUME NEW k \in 1 .. n + 1
        PROVE  h[k] = IF k = 1 THEN 0 ELSE h[k - 1] + Size(whole[k - 1])
    <3>1. CASE k = n + 1
      BY <1>1, <1>2, <1>3, <3>1 DEF Addresses
    <3>2. CASE k # n + 1
      <4>1. k \in 1 .. n /\ (k # 1 => k - 1 \in 1 .. n)
        BY <1>1, <3>2
      <4>2. g[k] = IF k = 1 THEN 0 ELSE g[k - 1] + Size(program[k - 1])
        BY <1>3, <4>1 DEF Addresses
      <4> QED BY <1>1, <1>2, <4>1, <4>2
    <3> QED BY <3>1, <3>2
  <2> HIDE DEF h, whole
  <2> QED BY <1>2, <2>1, <2>2 DEF Addresses
<1>6. Layout(whole, 0) = h
  <2> HIDE DEF h, whole
  <2> QED BY <1>2, <1>5, LayoutIs
<1>7. CodeSize(program) = h[n + 1]
  BY <1>6 DEF CodeSize
<1>8. h[n + 1] = last
  BY <1>1
<1> HIDE DEF h, last
<1>9. CodeSize(program) = last
  BY <1>7, <1>8
<1> QED BY <1>4, <1>9 DEF last, g

(* Where a program starts moves all its items alike.                       *)
LEMMA LayoutMoves ==
  ASSUME NEW program \in Seq(Item), NEW base \in Int, NEW k \in 1 .. Len(program)
  PROVE  Layout(program, base)[k] = base + Layout(program, 0)[k]
<1> DEFINE g == Layout(program, 0)
           h == [j \in 1 .. Len(program) |-> base + g[j]]
<1>1. Addresses(g, program, 0)
  BY LayoutOK
<1> HIDE DEF g
<1>2. Addresses(h, program, base)
  <2>1. h \in [1 .. Len(program) -> Int]
    BY <1>1 DEF Addresses
  <2>2. ASSUME NEW j \in 1 .. Len(program)
        PROVE  h[j] = IF j = 1 THEN base ELSE h[j - 1] + Size(program[j - 1])
    <3>1. g[j] = IF j = 1 THEN 0 ELSE g[j - 1] + Size(program[j - 1])
      BY <1>1 DEF Addresses
    <3>2. CASE j = 1
      BY <3>1, <3>2
    <3>3. CASE j # 1
      <4>1. j - 1 \in 1 .. Len(program)
        BY <3>3
      <4>2. g[j - 1] \in Int /\ Size(program[j - 1]) \in Int
        <5>1. program[j - 1] \in Item
          BY <4>1
        <5> QED BY <1>1, <4>1, <5>1, SizeInt DEF Addresses
      <4> QED BY <3>1, <3>3, <4>1, <4>2
    <3> QED BY <3>2, <3>3
  <2> HIDE DEF h
  <2> QED BY <2>1, <2>2 DEF Addresses
<1>3. Layout(program, base) = h
  <2> HIDE DEF h
  <2> QED BY <1>2, LayoutIs
<1> QED BY <1>3 DEF g

(* One program behind another.                                             *)
LEMMA Behind ==
  ASSUME NEW p \in Seq(Item), NEW q \in Seq(Item)
  PROVE  /\ p \o q \in Seq(Item) /\ Len(p \o q) = Len(p) + Len(q)
         /\ \A k \in 1 .. Len(p) : (p \o q)[k] = p[k]
         /\ \A k \in 1 .. Len(q) : (p \o q)[Len(p) + k] = q[k]
BY Joined

LEMMA BothLaidOut ==
  ASSUME NEW p \in Seq(Item), NEW q \in Seq(Item), NEW base \in Int
  PROVE  /\ \A k \in 1 .. Len(p) : Layout(p \o q, base)[k] = Layout(p, base)[k]
         /\ \A k \in 1 .. Len(q) : Layout(p \o q, base)[Len(p) + k] = base + CodeSize(p) + Layout(q, 0)[k]
         /\ CodeSize(p \o q) = CodeSize(p) + CodeSize(q)
<1> DEFINE n == Len(p)
           m == Len(q)
           whole == p \o q
           size == CodeSize(p)
           g == Layout(p, base)
           f == Layout(q, 0)
           h == [k \in 1 .. n + m |-> IF k <= n THEN g[k] ELSE base + size + f[k - n]]
<1>1. n \in Nat /\ m \in Nat
  OBVIOUS
<1>2. /\ whole \in Seq(Item) /\ Len(whole) = n + m
      /\ \A k \in 1 .. n : whole[k] = p[k]
      /\ \A k \in 1 .. m : whole[n + k] = q[k]
  BY Behind
<1>3. Addresses(g, p, base) /\ Addresses(f, q, 0)
  BY LayoutOK
<1>4. /\ size \in Int
      /\ n = 0 => size = 0
      /\ n # 0 => base + size = g[n] + Size(p[n])
  <2>1. size \in Int /\ (n = 0 => size = 0)
    BY CodeSizeIs
  <2>2. ASSUME n # 0 PROVE base + size = g[n] + Size(p[n])
    <3>1. size = Layout(p, 0)[n] + Size(p[n])
      BY <2>2, CodeSizeIs
    <3>2. n \in 1 .. n
      BY <1>1, <2>2
    <3>3. g[n] = base + Layout(p, 0)[n]
      BY <3>2, LayoutMoves
    <3>4. Size(p[n]) \in Int /\ Layout(p, 0)[n] \in Int
      <4>1. p[n] \in Item
        BY <3>2
      <4>2. Addresses(Layout(p, 0), p, 0)
        BY LayoutOK
      <4> QED BY <3>2, <4>1, <4>2, SizeInt DEF Addresses
    <3> HIDE DEF g, size
    <3> QED BY <3>1, <3>3, <3>4
  <2> QED BY <2>1, <2>2
<1> HIDE DEF g, f, size, whole
<1>5. Addresses(h, whole, base)
  <2>1. h \in [1 .. n + m -> Int]
    <3>1. ASSUME NEW k \in 1 .. n + m PROVE h[k] \in Int
      <4>1. CASE k <= n
        BY <1>1, <1>3, <4>1 DEF Addresses
      <4>2. CASE ~(k <= n)
        <5>1. k - n \in 1 .. m
          BY <1>1, <4>2
        <5>2. f[k - n] \in Int
          BY <1>3, <5>1 DEF Addresses
        <5> QED BY <1>4, <4>2, <5>2
      <4> QED BY <4>1, <4>2
    <3> QED BY <3>1
  <2>2. ASSUME NEW k \in 1 .. n + m
        PROVE  h[k] = IF k = 1 THEN base ELSE h[k - 1] + Size(whole[k - 1])
    <3>1. CASE k <= n
      <4>1. k \in 1 .. n /\ (k # 1 => k - 1 \in 1 .. n)
        BY <1>1, <3>1
      <4>2. g[k] = IF k = 1 THEN base ELSE g[k - 1] + Size(p[k - 1])
        BY <1>3, <4>1 DEF Addresses
      <4> QED BY <1>1, <1>2, <4>1, <4>2
    <3>2. CASE k = n + 1
      <4>1. 1 \in 1 .. m /\ k - n = 1 /\ ~(k <= n)
        BY <1>1, <3>2
      <4>2. f[1] = 0
        BY <1>3, <4>1 DEF Addresses
      <4>3. h[k] = base + size
        BY <1>4, <4>1, <4>2
      <4>4. CASE n = 0
        BY <1>4, <3>2, <4>3, <4>4
      <4>5. CASE n # 0
        <5>1. k # 1 /\ k - 1 = n /\ n \in 1 .. n /\ n \in 1 .. n + m
          BY <1>1, <3>2, <4>5
        <5>2. h[k - 1] = g[n] /\ whole[k - 1] = p[n]
          BY <1>2, <5>1
        <5> QED BY <1>4, <4>3, <4>5, <5>1, <5>2
      <4> QED BY <4>4, <4>5
    <3>3. CASE k > n + 1
      <4>1. k - n \in 1 .. m /\ k - n # 1 /\ (k - n) - 1 \in 1 .. m /\ k - 1 \in 1 .. n + m
            /\ ~(k - 1 <= n) /\ ~(k <= n) /\ k # 1 /\ (k - n) - 1 = (k - 1) - n
            /\ n + ((k - n) - 1) = k - 1
        BY <1>1, <3>3
      <4>2. f[k - n] = f[(k - n) - 1] + Size(q[(k - n) - 1])
        BY <1>3, <4>1 DEF Addresses
      <4>3. whole[k - 1] = q[(k - n) - 1]
        <5>1. whole[n + ((k - n) - 1)] = q[(k - n) - 1]
          BY <1>2, <4>1
        <5> QED BY <4>1, <5>1
      <4>4. f[(k - n) - 1] \in Int /\ Size(q[(k - n) - 1]) \in Int
        <5>1. q[(k - n) - 1] \in Item
          BY <4>1
        <5> QED BY <1>3, <4>1, <5>1, SizeInt DEF Addresses
      <4>5. h[k] = base + size + f[k - n] /\ h[k - 1] = base + size + f[(k - n) - 1]
        BY <4>1
      <4> HIDE DEF h
      <4> QED BY <1>4, <4>1, <4>2, <4>3, <4>4, <4>5
    <3> QED BY <1>1, <3>1, <3>2, <3>3
  <2> HIDE DEF h
  <2> QED BY <1>2, <2>1, <2>2 DEF Addresses
<1>6. Layout(whole, base) = h
  <2> HIDE DEF h
  <2> QED BY <1>2, <1>5, LayoutIs
<1>7. \A k \in 1 .. n : h[k] = g[k]
  BY <1>1
<1>8. ASSUME NEW k \in 1 .. m PROVE h[n + k] = base + size + f[k]
  <2>1. n + k \in 1 .. n + m /\ ~(n + k <= n) /\ (n + k) - n = k
    BY <1>1
  <2> QED BY <2>1
<1>9. CodeSize(p \o q) = CodeSize(p) + CodeSize(q)
  <2>1. CASE m = 0
    <3>1. p \o q = p
      BY <1>1, <2>1
    <3>2. CodeSize(q) = 0 /\ CodeSize(p) \in Int
      BY <2>1, CodeSizeIs
    <3> QED BY <3>1, <3>2
  <2>2. CASE m # 0
    <3>1. CodeSize(q) = f[m] + Size(q[m])
      BY <2>2, CodeSizeIs DEF f
    <3>2. n + m # 0 /\ m \in 1 .. m
      BY <1>1, <2>2
    <3>3. CodeSize(whole) = Layout(whole, 0)[n + m] + Size(whole[n + m])
      BY <1>2, <3>2, CodeSizeIs
    <3>4. Layout(whole, base)[n + m] = base + Layout(whole, 0)[n + m]
      <4>1. n + m \in 1 .. Len(whole)
        BY <1>1, <1>2, <2>2
      <4> QED BY <1>2, <4>1, LayoutMoves
    <3>5. Layout(whole, base)[n + m] = base + size + f[m]
      BY <1>6, <1>8, <3>2
    <3>6. whole[n + m] = q[m]
      BY <1>2, <3>2
    <3>7. f[m] \in Int /\ Size(q[m]) \in Int /\ Layout(whole, 0)[n + m] \in Int
      <4>1. q[m] \in Item /\ n + m \in 1 .. Len(whole)
        BY <1>1, <1>2, <3>2
      <4>2. Addresses(Layout(whole, 0), whole, 0)
        BY <1>2, LayoutOK
      <4> QED BY <1>3, <3>2, <4>1, <4>2, SizeInt DEF Addresses
    <3>8. CodeSize(whole) = size + CodeSize(q)
      <4>1. PICK a \in Int, z \in Int, b \in Int : a = f[m] /\ z = Size(q[m]) /\ b = Layout(whole, 0)[n + m]
        BY <3>7
      <4>2. CodeSize(q) = a + z /\ CodeSize(whole) = b + z
        BY ONLY <3>1, <3>3, <3>6, <4>1
      <4>3. base + b = base + size + a
        BY ONLY <3>4, <3>5, <4>1
      <4>4. b = size + a
        BY ONLY <1>4, <4>3, base \in Int, a \in Int, b \in Int
      <4> QED BY ONLY <1>4, <4>2, <4>4, a \in Int, b \in Int, z \in Int
    <3> QED BY <3>8 DEF whole, size
  <2> QED BY <2>1, <2>2
<1> HIDE DEF h
<1> QED BY <1>6, <1>7, <1>8, <1>9 DEF whole, g, f, size

(* Where the jumps of a program at some address lead, and its labels.      *)
JumpsReach(p, at, targets) ==
  \A k \in 1 .. Len(p) :
    p[k].kind = "jump" => InRange(at + Layout(p, 0)[k], targets[p[k].label])

Without(p, l) == \A k \in 1 .. Len(p) : p[k] # Label(l)

Labelled(p, l, a) ==
  \E j \in 1 .. Len(p) :
    /\ p[j] = Label(l) /\ Layout(p, 0)[j] = a
    /\ \A k \in 1 .. Len(p) : p[k] = Label(l) => k = j

LEMMA JumpsOfBoth ==
  ASSUME NEW p \in Seq(Item), NEW q \in Seq(Item), NEW at \in Int, NEW targets
  PROVE  JumpsReach(p \o q, at, targets) <=>
           JumpsReach(p, at, targets) /\ JumpsReach(q, at + CodeSize(p), targets)
<1>1. /\ Len(p) \in Nat /\ Len(q) \in Nat /\ CodeSize(p) \in Int
      /\ Len(p \o q) = Len(p) + Len(q)
  BY CodeSizeIs, Behind
<1>2. \A k \in 1 .. Len(p) :
        /\ k \in 1 .. Len(p \o q)
        /\ (p \o q)[k] = p[k] /\ Layout(p \o q, 0)[k] = Layout(p, 0)[k]
  BY <1>1, Behind, BothLaidOut
<1>3. ASSUME NEW k \in 1 .. Len(q)
      PROVE  /\ Len(p) + k \in 1 .. Len(p \o q)
             /\ (p \o q)[Len(p) + k] = q[k]
             /\ at + Layout(p \o q, 0)[Len(p) + k] = (at + CodeSize(p)) + Layout(q, 0)[k]
  <2>1. Layout(p \o q, 0)[Len(p) + k] = 0 + CodeSize(p) + Layout(q, 0)[k]
    BY BothLaidOut
  <2>2. Layout(q, 0)[k] \in Int
    <3>1. Addresses(Layout(q, 0), q, 0)
      BY LayoutOK
    <3> QED BY <3>1 DEF Addresses
  <2>3. at + Layout(p \o q, 0)[Len(p) + k] = (at + CodeSize(p)) + Layout(q, 0)[k]
    BY ONLY <1>1, <2>1, <2>2, at \in Int
  <2>4. Len(p) + k \in 1 .. Len(p \o q)
    BY <1>1
  <2> QED BY <2>3, <2>4, Behind
<1>4. ASSUME NEW k \in 1 .. Len(p \o q)
      PROVE  k \in 1 .. Len(p) \/ \E j \in 1 .. Len(q) : k = Len(p) + j
  <2>1. CASE ~(k <= Len(p))
    <3>1. k - Len(p) \in 1 .. Len(q) /\ k = Len(p) + (k - Len(p))
      BY <1>1, <2>1
    <3> QED BY <3>1
  <2> QED BY <1>1, <2>1
<1>5. ASSUME JumpsReach(p, at, targets), JumpsReach(q, at + CodeSize(p), targets)
      PROVE  JumpsReach(p \o q, at, targets)
  <2> SUFFICES ASSUME NEW k \in 1 .. Len(p \o q), (p \o q)[k].kind = "jump"
               PROVE  InRange(at + Layout(p \o q, 0)[k], targets[(p \o q)[k].label])
    BY DEF JumpsReach
  <2>1. CASE k \in 1 .. Len(p)
    BY <1>2, <1>5, <2>1 DEF JumpsReach
  <2>2. ASSUME NEW j \in 1 .. Len(q), k = Len(p) + j
        PROVE  InRange(at + Layout(p \o q, 0)[k], targets[(p \o q)[k].label])
    BY <1>3, <1>5, <2>2 DEF JumpsReach
  <2> QED BY <1>4, <2>1, <2>2
<1>6. ASSUME JumpsReach(p \o q, at, targets)
      PROVE  JumpsReach(p, at, targets) /\ JumpsReach(q, at + CodeSize(p), targets)
  <2>1. JumpsReach(p, at, targets)
    BY <1>2, <1>6 DEF JumpsReach
  <2>2. ASSUME NEW j \in 1 .. Len(q), q[j].kind = "jump"
        PROVE  InRange((at + CodeSize(p)) + Layout(q, 0)[j], targets[q[j].label])
    BY <1>3, <1>6, <2>2 DEF JumpsReach
  <2> QED BY <2>1, <2>2 DEF JumpsReach
<1> QED BY <1>5, <1>6

LEMMA LabelOfBoth ==
  ASSUME NEW p \in Seq(Item), NEW q \in Seq(Item), NEW l, NEW a \in Int
  PROVE  /\ Without(p, l) /\ Without(q, l) => Without(p \o q, l)
         /\ Labelled(p, l, a) /\ Without(q, l) => Labelled(p \o q, l, a)
         /\ Without(p, l) /\ Labelled(q, l, a) => Labelled(p \o q, l, CodeSize(p) + a)
<1>1. /\ Len(p) \in Nat /\ Len(q) \in Nat /\ CodeSize(p) \in Int
      /\ Len(p \o q) = Len(p) + Len(q)
  BY CodeSizeIs, Behind
<1>2. \A k \in 1 .. Len(p) : (p \o q)[k] = p[k] /\ Layout(p \o q, 0)[k] = Layout(p, 0)[k]
  BY Behind, BothLaidOut
<1>3. ASSUME NEW k \in 1 .. Len(q)
      PROVE  (p \o q)[Len(p) + k] = q[k] /\ Layout(p \o q, 0)[Len(p) + k] = CodeSize(p) + Layout(q, 0)[k]
  <2>1. Layout(p \o q, 0)[Len(p) + k] = 0 + CodeSize(p) + Layout(q, 0)[k]
    BY BothLaidOut
  <2>2. 0 + CodeSize(p) + Layout(q, 0)[k] = CodeSize(p) + Layout(q, 0)[k]
    BY <1>1, LayoutOK DEF Addresses
  <2> QED BY <2>1, <2>2, Behind
<1>4. ASSUME NEW k \in 1 .. Len(p \o q)
      PROVE  k \in 1 .. Len(p) \/ \E j \in 1 .. Len(q) : k = Len(p) + j
  <2>1. CASE ~(k <= Len(p))
    <3>1. k - Len(p) \in 1 .. Len(q) /\ k = Len(p) + (k - Len(p))
      BY <1>1, <2>1
    <3> QED BY <3>1
  <2> QED BY <1>1, <2>1
<1>5. \A k \in 1 .. Len(q) : Len(p) + k \in 1 .. Len(p \o q)
  BY <1>1
<1>6. \A k \in 1 .. Len(p) : k \in 1 .. Len(p \o q)
  BY <1>1
<1>7. Without(p, l) /\ Without(q, l) => Without(p \o q, l)
  BY <1>2, <1>3, <1>4 DEF Without
<1>8. ASSUME Labelled(p, l, a), Without(q, l) PROVE Labelled(p \o q, l, a)
  <2>1. PICK j \in 1 .. Len(p) :
          /\ p[j] = Label(l) /\ Layout(p, 0)[j] = a
          /\ \A k \in 1 .. Len(p) : p[k] = Label(l) => k = j
    BY <1>8 DEF Labelled
  <2>2. ASSUME NEW k \in 1 .. Len(p \o q), (p \o q)[k] = Label(l) PROVE k = j
    <3>1. CASE k \in 1 .. Len(p)
      BY <1>2, <2>1, <2>2, <3>1
    <3>2. ASSUME NEW i \in 1 .. Len(q), k = Len(p) + i PROVE FALSE
      BY <1>3, <1>8, <2>2, <3>2 DEF Without
    <3> QED BY <1>4, <3>1, <3>2
  <2> QED BY <1>2, <1>6, <2>1, <2>2 DEF Labelled
<1>9. ASSUME Without(p, l), Labelled(q, l, a) PROVE Labelled(p \o q, l, CodeSize(p) + a)
  <2>1. PICK j \in 1 .. Len(q) :
          /\ q[j] = Label(l) /\ Layout(q, 0)[j] = a
          /\ \A k \in 1 .. Len(q) : q[k] = Label(l) => k = j
    BY <1>9 DEF Labelled
  <2>2. ASSUME NEW k \in 1 .. Len(p \o q), (p \o q)[k] = Label(l) PROVE k = Len(p) + j
    <3>1. CASE k \in 1 .. Len(p)
      BY <1>2, <1>9, <2>2, <3>1 DEF Without
    <3>2. ASSUME NEW i \in 1 .. Len(q), k = Len(p) + i PROVE k = Len(p) + j
      BY <1>3, <2>1, <2>2, <3>2
    <3> QED BY <1>4, <3>1, <3>2
  <2>3. /\ (p \o q)[Len(p) + j] = Label(l) /\ Layout(p \o q, 0)[Len(p) + j] = CodeSize(p) + a
        /\ Len(p) + j \in 1 .. Len(p \o q)
    BY <1>3, <1>5, <2>1
  <2> QED BY <2>2, <2>3 DEF Labelled
<1> QED BY <1>7, <1>8, <1>9

LEMMA LabelIs ==
  ASSUME NEW p \in Seq(Item), NEW l, NEW a \in Int, NEW base \in Int, Labelled(p, l, a)
  PROVE  LabelAddr(p, base, l) = base + a
<1>1. PICK j \in 1 .. Len(p) :
        /\ p[j] = Label(l) /\ Layout(p, 0)[j] = a
        /\ \A k \in 1 .. Len(p) : p[k] = Label(l) => k = j
  BY DEF Labelled
<1>2. (CHOOSE k \in 1 .. Len(p) : p[k] = Label(l)) = j
  BY <1>1
<1>3. LabelAddr(p, base, l) = Layout(p, base)[j]
  BY <1>2 DEF LabelAddr
<1>4. Layout(p, base)[j] = base + Layout(p, 0)[j]
  BY LayoutMoves
<1> QED BY <1>1, <1>3, <1>4
-----------------------------------------------------------------------------
(* The code that sets the flags, and the code around, has no jump and no   *)
(* label.                                                                  *)

Plain == [kind : {"words"}, words : Seq(Word)]

Spaced == Plain \cup [kind : {"skip"}, bytes : Int]

Operand == [bits : 0 .. 63, words : Seq(Word)]

Used ==
  { "a", "ab", "abs", "ai", "andi", "c", "cb", "ci", "dec", "dect", "inc", "inct",
    "inv", "mov", "movb", "neg", "ori", "s", "sb", "soc", "socb", "swpb", "szc",
    "szcb", "xor" }

OpcodeWords == {n \in Nat : n < 61441}

LEMMA Opcodes ==
  \A name \in DOMAIN instab : instab[name] \in OpcodeWords /\ instab[name] \in Int
<1>1. \A name \in DOMAIN instab : instab[name] \in OpcodeWords
  BY DEF instab, OpcodeWords
<1>2. OpcodeWords \subseteq Int
  BY DEF OpcodeWords
<1> QED BY <1>1, <1>2

LEMMA UsedAre == Used \subseteq DOMAIN instab
BY DEF instab, Used

LEMMA WordsAreInts == Word \subseteq Int /\ Seq(Word) \subseteq Seq(Int)
BY DEF Word

LEMMA PlainIs == Plain \subseteq Spaced /\ Spaced \subseteq Item
<1>1. Plain \subseteq [kind : {"words"}, words : Seq(Int)]
  BY WordsAreInts DEF Plain
<1> QED BY <1>1 DEF Spaced, Item

LEMMA Operands ==
  /\ \A n \in 0 .. 15 : R(n) \in Operand
  /\ \A n \in Word : At(n) \in Operand
<1>1. \A n \in Word : <<n>> \in Seq(Word) /\ <<>> \in Seq(Word)
  OBVIOUS
<1>2. <<>> \in Seq(Word)
  OBVIOUS
<1> QED BY <1>1, <1>2 DEF R, At, Operand

LEMMA PlainInsns ==
  ASSUME NEW name \in Used
  PROVE  /\ \A s \in Operand, d \in Operand : Two(name, s, d) \in Plain
         /\ \A d \in Operand : One(name, d) \in Plain
         /\ \A r \in 0 .. 15, v \in Int : RegImm(name, r, v) \in Plain
<1>1. PICK op \in OpcodeWords : op = instab[name]
  BY Opcodes, UsedAre
<1>2. ASSUME NEW ws \in Seq(Word) PROVE Words(ws) \in Plain
  BY DEF Words, Plain
<1>3. ASSUME NEW s \in Operand, NEW d \in Operand PROVE Two(name, s, d) \in Plain
  <2>1. /\ s.bits \in 0 .. 63 /\ s.words \in Seq(Word)
        /\ d.bits \in 0 .. 63 /\ d.words \in Seq(Word)
    BY DEF Operand
  <2>2. PICK first \in Word : first = op + s.bits + d.bits * 64
    <3>1. PICK i \in 0 .. 63, j \in 0 .. 63 : i = s.bits /\ j = d.bits
      BY <2>1
    <3>2. op + i + j * 64 \in Word
      BY ONLY op \in OpcodeWords, i \in 0 .. 63, j \in 0 .. 63, SMT DEF OpcodeWords, Word
    <3> QED BY <3>1, <3>2
  <2>3. <<first>> \in Seq(Word)
    OBVIOUS
  <2>4. <<first>> \o s.words \in Seq(Word)
    BY <2>1, <2>3, Joined
  <2>5. <<first>> \o s.words \o d.words \in Seq(Word)
    BY <2>1, <2>4, Joined
  <2> QED BY <1>1, <1>2, <2>2, <2>5 DEF Two
<1>4. ASSUME NEW d \in Operand PROVE One(name, d) \in Plain
  <2>1. R(0) \in Operand
    BY Operands
  <2> QED BY <1>3, <2>1 DEF One
<1>5. ASSUME NEW r \in 0 .. 15, NEW v \in Int PROVE RegImm(name, r, v) \in Plain
  <2>1. PICK m \in Word : m = v % 65536
    BY SMT DEF Word
  <2>2. op + r \in Word
    BY ONLY op \in OpcodeWords, r \in 0 .. 15, SMT DEF OpcodeWords, Word
  <2>3. <<op + r, m>> \in Seq(Word)
    BY <2>2
  <2>4. Words(<<op + r, m>>) \in Plain
    BY ONLY <1>2, <2>3
  <2> QED BY ONLY <1>1, <2>1, <2>4 DEF RegImm
<1> QED BY <1>3, <1>4, <1>5

LEMMA Short ==
  ASSUME NEW S, NEW a \in S, NEW b \in S, NEW c \in S
  PROVE  <<>> \in Seq(S) /\ <<a>> \in Seq(S) /\ <<a, b>> \in Seq(S) /\ <<a, b, c>> \in Seq(S)
OBVIOUS

LEMMA Registers012 == R(0) \in Operand /\ R(1) \in Operand /\ R(2) \in Operand
BY Operands

LEMMA WordIsInt == ASSUME NEW x \in Word PROVE x \in Int /\ HiByte(x) \in Int
BY DEF Word, HiByte

LEMMA ComparePlain ==
  ASSUME NEW how \in Comparisons, NEW rel, NEW y \in Word
  PROVE  Compare(how, rel, y) \in Plain
<1>1. \A name \in {"c", "ci", "mov", "cb", "movb"} : name \in Used
  BY DEF Used
<1>2. /\ Two("c", R(1), R(2)) \in Plain /\ Two("mov", R(1), R(0)) \in Plain
      /\ Two("cb", R(1), R(2)) \in Plain /\ Two("movb", R(1), R(0)) \in Plain
  BY <1>1, PlainInsns, Registers012
<1>3. y \in Int /\ (256 * HiByte(y) + IF rel \in UpperBound THEN 255 ELSE 0) \in Int
  BY WordIsInt
<1>4. \A v \in Int : RegImm("ci", 1, v) \in Plain
  BY <1>1, PlainInsns
<1>5. how \in {"cmphi_r", "cmphi_i", "tsthi", "cmpqi", "tstqi", "cmpqi_as_hi"}
  BY DEF Comparisons
<1> QED BY <1>2, <1>3, <1>4, <1>5 DEF Compare

GivesPlain(insn) == insn.code \in Seq(Plain)

LEMMA InsnPlain == \A w, v : \A c \in Seq(Plain) : GivesPlain(Insn(w, v, c))
BY DEF Insn, GivesPlain

LEMMA OneInsn == \A w, v : \A a \in Plain : GivesPlain(Insn(w, v, <<a>>))
BY Short, InsnPlain

LEMMA TwoInsns == \A w, v : \A a, b \in Plain : GivesPlain(Insn(w, v, <<a, b>>))
BY Short, InsnPlain

LEMMA ThreeInsns == \A w, v : \A a, b, c \in Plain : GivesPlain(Insn(w, v, <<a, b, c>>))
BY Short, InsnPlain

LEMMA MovPlain ==
  ASSUME NEW x \in Word, NEW y \in Word, NEW how \in {"movhi", "movqi", "movqi_truncate"}
  PROVE  GivesPlain(MovInsns(x, y)[how])
<1>1. \A name \in {"mov", "movb", "swpb"} : name \in Used
  BY DEF Used
<1>2. /\ Two("mov", R(2), R(1)) \in Plain /\ Two("movb", R(2), R(1)) \in Plain
      /\ One("swpb", R(1)) \in Plain
  BY <1>1, PlainInsns, Registers012
<1>3. /\ <<Two("mov", R(2), R(1))>> \in Seq(Plain) /\ <<Two("movb", R(2), R(1))>> \in Seq(Plain)
      /\ <<Two("mov", R(2), R(1)), One("swpb", R(1))>> \in Seq(Plain)
  BY <1>2, Short
<1>4. /\ GivesPlain(Insn("HI", y, <<Two("mov", R(2), R(1))>>))
      /\ GivesPlain(Insn("QI", HiByte(y), <<Two("movb", R(2), R(1))>>))
      /\ GivesPlain(Insn("QI", y % 256, <<Two("mov", R(2), R(1)), One("swpb", R(1))>>))
  BY <1>3, InsnPlain
<1> QED BY <1>4 DEF MovInsns

LEMMA AddConstantPlain == ASSUME NEW y \in Int PROVE AddConstant(y) \in Plain
<1>1. \A name \in {"inc", "inct", "dec", "dect", "ai"} : name \in Used
  BY DEF Used
<1>2. /\ One("inc", R(1)) \in Plain /\ One("inct", R(1)) \in Plain
      /\ One("dec", R(1)) \in Plain /\ One("dect", R(1)) \in Plain
      /\ RegImm("ai", 1, y) \in Plain
  BY <1>1, PlainInsns, Registers012
<1> QED BY <1>2 DEF AddConstant

LEMMA AndHiPlain ==
  ASSUME NEW x \in Word, NEW y \in Word,
         NEW how \in {"andhi3_r", "andhi3_i", "andnothi"}
  PROVE  GivesPlain(AndHiInsns(x, y)[how])
<1>1. \A name \in {"andi", "inv", "mov", "szc"} : name \in Used
  BY DEF Used
<1>2. y \in Int /\ 256 * HiByte(y) \in Int
  BY WordIsInt
<1>3. /\ Two("mov", R(2), R(0)) \in Plain
      /\ One("inv", R(0)) \in Plain
      /\ Two("szc", R(0), R(1)) \in Plain
      /\ RegImm("andi", 1, y) \in Plain
      /\ Two("szc", R(2), R(1)) \in Plain
  BY <1>1, <1>2, PlainInsns, Registers012
<1>4. GivesPlain(Insn("HI", BitAnd(x, y), <<Two("mov", R(2), R(0)), One("inv", R(0)), Two("szc", R(0), R(1))>>))
  BY ONLY <1>3, ThreeInsns, Zenon
<1>5. GivesPlain(Insn("HI", BitAnd(x, y), <<RegImm("andi", 1, y)>>))
  BY ONLY <1>3, OneInsn, Zenon
<1>6. GivesPlain(Insn("HI", BitAnd(x, BitNot(y)), <<Two("szc", R(2), R(1))>>))
  BY ONLY <1>3, OneInsn, Zenon
<1> QED BY <1>4, <1>5, <1>6 DEF AndHiInsns

LEMMA AndQiPlain ==
  ASSUME NEW x \in Word, NEW y \in Word,
         NEW how \in {"andqi3_r", "andqi3_i", "andnotqi"}
  PROVE  GivesPlain(AndQiInsns(x, y)[how])
<1>1. \A name \in {"andi", "inv", "movb", "szcb"} : name \in Used
  BY DEF Used
<1>2. y \in Int /\ 256 * HiByte(y) \in Int
  BY WordIsInt
<1>3. /\ Two("movb", R(2), R(0)) \in Plain
      /\ One("inv", R(0)) \in Plain
      /\ Two("szcb", R(0), R(1)) \in Plain
      /\ RegImm("andi", 1, 256 * HiByte(y)) \in Plain
      /\ Two("szcb", R(2), R(1)) \in Plain
  BY <1>1, <1>2, PlainInsns, Registers012
<1>4. GivesPlain(Insn("QI", BitAnd(HiByte(x), HiByte(y)), <<Two("movb", R(2), R(0)), One("inv", R(0)), Two("szcb", R(0), R(1))>>))
  BY ONLY <1>3, ThreeInsns, Zenon
<1>5. GivesPlain(Insn("QI", BitAnd(HiByte(x), HiByte(y)), <<RegImm("andi", 1, 256 * HiByte(y))>>))
  BY ONLY <1>3, OneInsn, Zenon
<1>6. GivesPlain(Insn("QI", BitAnd(HiByte(x), 255 - HiByte(y)), <<Two("szcb", R(2), R(1))>>))
  BY ONLY <1>3, OneInsn, Zenon
<1> QED BY <1>4, <1>5, <1>6 DEF AndQiInsns

LEMMA IorPlain ==
  ASSUME NEW x \in Word, NEW y \in Word,
         NEW how \in {"iorhi3_r", "iorhi3_i", "iorqi3_r", "iorqi3_i"}
  PROVE  GivesPlain(IorInsns(x, y)[how])
<1>1. \A name \in {"ori", "soc", "socb"} : name \in Used
  BY DEF Used
<1>2. y \in Int /\ 256 * HiByte(y) \in Int
  BY WordIsInt
<1>3. /\ Two("soc", R(2), R(1)) \in Plain
      /\ RegImm("ori", 1, y) \in Plain
      /\ Two("socb", R(2), R(1)) \in Plain
      /\ RegImm("ori", 1, 256 * HiByte(y)) \in Plain
  BY <1>1, <1>2, PlainInsns, Registers012
<1>4. /\ GivesPlain(Insn("HI", BitOr(x, y), <<Two("soc", R(2), R(1))>>))
      /\ GivesPlain(Insn("HI", BitOr(x, y), <<RegImm("ori", 1, y)>>))
      /\ GivesPlain(Insn("QI", BitOr(HiByte(x), HiByte(y)), <<Two("socb", R(2), R(1))>>))
      /\ GivesPlain(Insn("QI", BitOr(HiByte(x), HiByte(y)), <<RegImm("ori", 1, 256 * HiByte(y))>>))
  BY ONLY <1>3, OneInsn, Zenon
<1> QED BY <1>4 DEF IorInsns

LEMMA XorNotPlain ==
  ASSUME NEW x \in Word, NEW y \in Word,
         NEW how \in {"xorhi3", "xorqi3", "one_cmplhi2", "one_cmplqi2"}
  PROVE  GivesPlain(XorNotInsns(x, y)[how])
<1>1. \A name \in {"inv", "xor"} : name \in Used
  BY DEF Used
<1>2. y \in Int /\ 256 * HiByte(y) \in Int
  BY WordIsInt
<1>3. /\ Two("xor", R(2), R(1)) \in Plain
      /\ One("inv", R(1)) \in Plain
  BY <1>1, <1>2, PlainInsns, Registers012
<1>4. /\ GivesPlain(Insn("HI", BitXor(x, y), <<Two("xor", R(2), R(1))>>))
      /\ GivesPlain(Insn("QI", BitXor(HiByte(x), HiByte(y)), <<Two("xor", R(2), R(1))>>))
      /\ GivesPlain(Insn("HI", BitNot(x), <<One("inv", R(1))>>))
      /\ GivesPlain(Insn("QI", 255 - HiByte(x), <<One("inv", R(1))>>))
  BY ONLY <1>3, OneInsn, Zenon
<1> QED BY <1>4 DEF XorNotInsns

LEMMA AddPlain ==
  ASSUME NEW x \in Word, NEW y \in Word,
         NEW how \in {"addhi3_r", "addhi3_i", "addqi3"}
  PROVE  GivesPlain(AddInsns(x, y)[how])
<1>1. \A name \in {"a", "ab"} : name \in Used
  BY DEF Used
<1>2. y \in Int /\ 256 * HiByte(y) \in Int
  BY WordIsInt
<1>3. /\ Two("a", R(2), R(1)) \in Plain
      /\ AddConstant(y) \in Plain
      /\ Two("ab", R(2), R(1)) \in Plain
  BY <1>1, <1>2, PlainInsns, Registers012, AddConstantPlain
<1>4. /\ GivesPlain(Insn("HI", Wrap(x + y), <<Two("a", R(2), R(1))>>))
      /\ GivesPlain(Insn("HI", Wrap(x + y), <<AddConstant(y)>>))
      /\ GivesPlain(Insn("QI", (HiByte(x) + HiByte(y)) % 256, <<Two("ab", R(2), R(1))>>))
  BY ONLY <1>3, OneInsn, Zenon
<1> QED BY <1>4 DEF AddInsns

LEMMA SubPlain ==
  ASSUME NEW x \in Word, NEW y \in Word,
         NEW how \in {"subhi3", "rsubihi", "subqi3", "subqi3_from"}
  PROVE  GivesPlain(SubInsns(x, y)[how])
<1>1. \A name \in {"movb", "neg", "s", "sb"} : name \in Used
  BY DEF Used
<1>2. y \in Int /\ 256 * HiByte(y) \in Int
  BY WordIsInt
<1>3. /\ Two("s", R(2), R(1)) \in Plain
      /\ One("neg", R(1)) \in Plain
      /\ AddConstant(y) \in Plain
      /\ Two("sb", R(2), R(1)) \in Plain
      /\ Two("movb", R(2), R(0)) \in Plain
      /\ Two("sb", R(1), R(0)) \in Plain
      /\ Two("movb", R(0), R(1)) \in Plain
  BY <1>1, <1>2, PlainInsns, Registers012, AddConstantPlain
<1>4. GivesPlain(Insn("HI", Wrap(x - y), <<Two("s", R(2), R(1))>>))
  BY ONLY <1>3, OneInsn, Zenon
<1>5. GivesPlain(Insn("HI", Wrap(y - x), <<One("neg", R(1)), AddConstant(y)>>))
  BY ONLY <1>3, TwoInsns, Zenon
<1>6. GivesPlain(Insn("QI", (HiByte(x) - HiByte(y)) % 256, <<Two("sb", R(2), R(1))>>))
  BY ONLY <1>3, OneInsn, Zenon
<1>7. GivesPlain(Insn("QI", (HiByte(y) - HiByte(x)) % 256, <<Two("movb", R(2), R(0)), Two("sb", R(1), R(0)), Two("movb", R(0), R(1))>>))
  BY ONLY <1>3, ThreeInsns, Zenon
<1> QED BY <1>4, <1>5, <1>6, <1>7 DEF SubInsns

LEMMA NegAbsPlain ==
  ASSUME NEW x \in Word, NEW y \in Word,
         NEW how \in {"abshi2", "absqi2", "neghi2", "negqi2"}
  PROVE  GivesPlain(NegAbsInsns(x, y)[how])
<1>1. \A name \in {"abs", "andi", "neg"} : name \in Used
  BY DEF Used
<1>2. /\ One("abs", R(1)) \in Plain /\ One("neg", R(1)) \in Plain
      /\ \A n \in Int : RegImm("andi", 1, n) \in Plain
  BY <1>1, PlainInsns, Registers012
<1>3. ASSUME NEW n \in Int
      PROVE  <<RegImm("andi", 1, n), One("neg", R(1))>> \in Seq(Plain)
  BY <1>2, Short
<1>4. <<One("abs", R(1))>> \in Seq(Plain) /\ <<One("neg", R(1))>> \in Seq(Plain)
  BY <1>2, Short
<1>5. \A w, v : /\ GivesPlain(Insn(w, v, <<One("abs", R(1))>>))
               /\ GivesPlain(Insn(w, v, <<One("neg", R(1))>>))
  BY <1>4, InsnPlain
<1>6. \A w, v : \A n \in Int :
         GivesPlain(Insn(w, v, <<RegImm("andi", 1, n), One("neg", R(1))>>))
  BY <1>3, InsnPlain
<1> QED BY <1>5, <1>6, SMT DEF NegAbsInsns

LEMMA FlagsPlain ==
  ASSUME NEW t, IsTest(t)
  PROVE  Flags(t) \in Seq(Plain)
<1>1. /\ t.how \in Comparisons \cup WordSetters \cup ByteSetters
      /\ t.x \in Word /\ t.y \in Word
  BY DEF IsTest
<1>2. CASE t.how \in Comparisons
  <2>1. Compare(t.how, t.rel, t.y) \in Plain
    BY <1>1, <1>2, ComparePlain
  <2>2. <<Compare(t.how, t.rel, t.y)>> \in Seq(Plain)
    BY <2>1, Short
  <2> QED BY <1>2, <2>2 DEF Flags
<1>3. CASE t.how \notin Comparisons
  <2>1. t.how \in WordSetters \cup ByteSetters
    BY <1>1, <1>3
  <2>2. GivesPlain(Insns(t.how, t.x, t.y))
    <3>1. CASE t.how \in {"movhi", "movqi", "movqi_truncate"}
      BY <1>1, <3>1, MovPlain DEF Insns
    <3>2. CASE t.how \in {"andhi3_r", "andhi3_i", "andnothi"}
      BY <1>1, <3>2, AndHiPlain DEF Insns
    <3>3. CASE t.how \in {"andqi3_r", "andqi3_i", "andnotqi"}
      BY <1>1, <3>3, AndQiPlain DEF Insns
    <3>4. CASE t.how \in {"iorhi3_r", "iorhi3_i", "iorqi3_r", "iorqi3_i"}
      BY <1>1, <3>4, IorPlain DEF Insns
    <3>5. CASE t.how \in {"xorhi3", "xorqi3", "one_cmplhi2", "one_cmplqi2"}
      BY <1>1, <3>5, XorNotPlain DEF Insns
    <3>6. CASE t.how \in {"addhi3_r", "addhi3_i", "addqi3"}
      BY <1>1, <3>6, AddPlain DEF Insns
    <3>7. CASE t.how \in {"subhi3", "rsubihi", "subqi3", "subqi3_from"}
      BY <1>1, <3>7, SubPlain DEF Insns
    <3>8. CASE t.how \in {"abshi2", "absqi2", "neghi2", "negqi2"}
      BY <1>1, <3>8, NegAbsPlain DEF Insns
    <3> QED BY <2>1, <3>1, <3>2, <3>3, <3>4, <3>5, <3>6, <3>7, <3>8
            DEF WordSetters, ByteSetters
  <2> QED BY <1>3, <2>2 DEF Flags, SetsFlags, GivesPlain
<1> QED BY <1>2, <1>3

LEMMA AdditionsPlain ==
  ASSUME NEW adds \in Seq(DOMAIN Addhi3Alternatives)
  PROVE  Emitted(adds) \in Seq(Plain) /\ Counted(adds) \in Seq(Spaced)
<1>1. DOMAIN Addhi3Alternatives = {"a_memory", "inc_memory", "ai"}
  BY DEF Addhi3Alternatives
<1>2. ASSUME NEW a \in {"a_memory", "inc_memory", "ai"}
      PROVE  Addhi3Alternatives[a].insn \in Plain /\ Skip(Addhi3Alternatives[a].length) \in Spaced
  <2>1. (\A n \in Word : At(n) \in Operand) /\ (\A n \in Int : AddConstant(n) \in Plain)
    BY Operands, AddConstantPlain
  <2>2. \A name \in {"a", "inc"} : name \in Used
    BY DEF Used
  <2>3. \A n \in Word : Two("a", R(2), At(n)) \in Plain /\ One("inc", At(n)) \in Plain
    BY <2>1, <2>2, PlainInsns, Registers012
  <2>6. 33568 \in Word /\ 100 \in Int
    BY SMT DEF Word
  <2>4. Addhi3Alternatives[a].insn \in Plain
    BY <2>1, <2>3, <2>6, SMT DEF Addhi3Alternatives
  <2>5. Addhi3Alternatives[a].length \in Int
    BY SMT DEF Addhi3Alternatives
  <2> QED BY <2>4, <2>5 DEF Skip, Spaced
<1>3. \A k \in 1 .. Len(adds) : adds[k] \in {"a_memory", "inc_memory", "ai"}
  BY <1>1
<1>4. Emitted(adds) \in [1 .. Len(adds) -> Plain] /\ Counted(adds) \in [1 .. Len(adds) -> Spaced]
  BY <1>2, <1>3 DEF Emitted, Counted
<1>5. Len(adds) \in Nat
  OBVIOUS
<1>6. \A n \in Nat : [1 .. n -> Plain] \subseteq Seq(Plain) /\ [1 .. n -> Spaced] \subseteq Seq(Spaced)
  OBVIOUS
<1> QED BY ONLY <1>4, <1>5, <1>6

LEMMA PlainProgram ==
  ASSUME NEW p \in Seq(Spaced)
  PROVE  /\ p \in Seq(Item)
         /\ \A l : Without(p, l)
         /\ \A at, targets : JumpsReach(p, at, targets)
<1>1. p \in Seq(Item)
  BY PlainIs
<1>2. ASSUME NEW k \in 1 .. Len(p) PROVE p[k].kind \in {"words", "skip"}
  <2>1. p[k] \in Spaced
    OBVIOUS
  <2> QED BY <2>1 DEF Plain, Spaced
<1>3. \A l : Label(l).kind = "label"
  BY DEF Label
<1> QED BY <1>1, <1>2, <1>3 DEF Without, JumpsReach

LEMMA Alone ==
  ASSUME NEW p \in Seq(Item), Len(p) = 1
  PROVE  CodeSize(p) = Size(p[1]) /\ Layout(p, 0)[1] = 0
<1>1. Layout(p, 0)[1] = 0
  BY FirstAndNext
<1>2. CodeSize(p) = Layout(p, 0)[Len(p)] + Size(p[Len(p)])
  <2>1. Len(p) # 0
    OBVIOUS
  <2> QED BY <2>1, CodeSizeIs
<1>3. p[1] \in Item
  OBVIOUS
<1>4. Size(p[1]) \in Int
  BY <1>3, SizeInt
<1>5. CodeSize(p) = 0 + Size(p[1])
  BY ONLY <1>1, <1>2, Len(p) = 1
<1> QED BY <1>1, <1>4, <1>5

LEMMA OneItem ==
  ASSUME NEW item \in Item
  PROVE  /\ <<item>> \in Seq(Item) /\ CodeSize(<<item>>) = Size(item)
         /\ Layout(<<item>>, 0)[1] = 0
<1>1. <<item>> \in Seq(Item) /\ Len(<<item>>) = 1 /\ <<item>>[1] = item
  OBVIOUS
<1>2. PICK p \in Seq(Item) : p = <<item>> /\ Len(p) = 1 /\ p[1] = item
  BY ONLY <1>1, Zenon
<1>3. Len(p) = 1
  BY ONLY <1>2
<1>4. CodeSize(p) = Size(p[1]) /\ Layout(p, 0)[1] = 0
  BY ONLY <1>3, p \in Seq(Item), Alone
<1> QED BY ONLY <1>2, <1>4

LEMMA CodeOfSize ==
  ASSUME NEW n \in Int, NEW adds \in Seq(DOMAIN Addhi3Alternatives)
  PROVE  /\ CodeOf(n, adds) \in Seq(Spaced) /\ Miscounted(adds) \in Int
         /\ CodeSize(CodeOf(n, adds)) = n + Miscounted(adds)
<1>0. /\ Emitted(adds) \in Seq(Spaced) /\ Counted(adds) \in Seq(Spaced)
  BY AdditionsPlain, PlainIs
<1>1. /\ Emitted(adds) \in Seq(Spaced) /\ Emitted(adds) \in Seq(Item)
      /\ Counted(adds) \in Seq(Item)
  BY <1>0, PlainProgram
<1>2. CodeSize(Emitted(adds)) \in Int /\ CodeSize(Counted(adds)) \in Int
  BY <1>1, CodeSizeIs
<1> DEFINE rest == Skip(n - CodeSize(Counted(adds)))
<1>3. rest \in Spaced /\ Size(rest) = n - CodeSize(Counted(adds))
  BY <1>2 DEF Skip, Spaced, Size
<1> HIDE DEF rest
<1>4. <<rest>> \in Seq(Spaced)
  BY <1>3, Short
<1>5. Emitted(adds) \o <<rest>> \in Seq(Spaced)
  BY <1>1, <1>4, Joined
<1>6. rest \in Item
  BY <1>3, PlainIs
<1>7. <<rest>> \in Seq(Item) /\ CodeSize(<<rest>>) = Size(rest)
  BY <1>6, OneItem
<1>8. CodeSize(Emitted(adds) \o <<rest>>) = CodeSize(Emitted(adds)) + CodeSize(<<rest>>)
  BY <1>1, <1>7, BothLaidOut
<1>9. CodeOf(n, adds) = Emitted(adds) \o <<rest>>
  BY DEF CodeOf, rest
<1> QED BY <1>2, <1>3, <1>5, <1>7, <1>8, <1>9 DEF Miscounted

-----------------------------------------------------------------------------
(* The forms of a branch.                                                  *)

JumpItem(op, l) == [kind |-> "jump", op |-> op, label |-> l]

LongWay == BranchTo("b", "l0")

Form(t, i, j) ==
  \/ /\ ~TooFar(t.distance) /\ ~TwoJumps(t)
     /\ Branch(t) = <<JumpItem(i, "l0")>>
  \/ /\ ~TooFar(t.distance) /\ TwoJumps(t)
     /\ Branch(t) = <<JumpItem(i, "l0"), JumpItem(j, "l0")>>
  \/ /\ TooFar(t.distance)
     /\ Branch(t) = <<LongWay>>
  \/ /\ TooFar(t.distance)
     /\ Branch(t) = <<JumpItem(i, "JMP"), LongWay, Label("JMP")>>
  \/ /\ TooFar(t.distance)
     /\ Branch(t) = <<JumpItem(i, "JMP"), JumpItem(j, "JMP"), LongWay, Label("JMP")>>

OneJumpNames == {"jeq", "jne", "jl", "jhe", "jle", "jh"}

SignedJumpNames == {"jlt", "jgt"}

Lengths(p) ==
  \/ p.near = 2 /\ p.far = 6 /\ p.pos \in OneJumpNames /\ p.neg \in OneJumpNames
  \/ p.near = 2 /\ p.far = 8 /\ p.pos \in SignedJumpNames
  \/ p.near = 4 /\ p.far = 6 /\ p.neg \in SignedJumpNames

LEMMA LengthsOf ==
  /\ \A pos \in OneJumpNames, neg \in OneJumpNames : Lengths(Pattern(pos, neg, 6, 2))
  /\ \A two : \A one \in SignedJumpNames :
        Lengths(Pattern(one, two, 8, 2)) /\ Lengths(Pattern(two, one, 6, 4))
BY DEF Lengths, Pattern

LEMMA PatternLengths ==
  ASSUME NEW rel \in Relations, NEW reversed \in BOOLEAN
  PROVE  Lengths(BranchPattern(rel, reversed))
<1>1. /\ "jeq" \in OneJumpNames /\ "jne" \in OneJumpNames
      /\ "jl" \in OneJumpNames /\ "jhe" \in OneJumpNames
      /\ "jle" \in OneJumpNames /\ "jh" \in OneJumpNames
      /\ "jlt" \in SignedJumpNames /\ "jgt" \in SignedJumpNames
  BY DEF OneJumpNames, SignedJumpNames
<1>2. CASE rel \in {"eq", "ne"}
  <2>1. Lengths(Pattern("jeq", "jne", 6, 2)) /\ Lengths(Pattern("jne", "jeq", 6, 2))
    BY <1>1, LengthsOf
  <2>2. \A k \in {1, 2} : Lengths(EqualityPatterns[rel][k])
    BY <1>2, <2>1 DEF EqualityPatterns
  <2>3. /\ rel \in DOMAIN EqualityPatterns /\ rel \notin DOMAIN UnsignedPatterns
        /\ rel \notin DOMAIN SignedPatterns
    BY <1>2 DEF EqualityPatterns, UnsignedPatterns, SignedPatterns
  <2>4. BranchPattern(rel, reversed) = EqualityPatterns[rel][IF reversed THEN 2 ELSE 1]
    BY <2>3 DEF BranchPattern
  <2> QED BY <2>2, <2>4
<1>3. CASE rel \in {"ltu", "leu", "gtu", "geu"}
  <2>1. /\ Lengths(Pattern("jl", "jhe", 6, 2)) /\ Lengths(Pattern("jhe", "jl", 6, 2))
        /\ Lengths(Pattern("jle", "jh", 6, 2)) /\ Lengths(Pattern("jh", "jle", 6, 2))
    BY <1>1, LengthsOf
  <2>2. \A k \in {1, 2} : Lengths(UnsignedPatterns[rel][k])
    BY <1>3, <2>1 DEF UnsignedPatterns
  <2>3. /\ rel \notin DOMAIN EqualityPatterns /\ rel \in DOMAIN UnsignedPatterns
        /\ rel \notin DOMAIN SignedPatterns
    BY <1>3 DEF EqualityPatterns, UnsignedPatterns, SignedPatterns
  <2>4. BranchPattern(rel, reversed) = UnsignedPatterns[rel][IF reversed THEN 2 ELSE 1]
    BY <2>3 DEF BranchPattern
  <2> QED BY <2>2, <2>4
<1>4. CASE rel \in {"lt", "le", "gt", "ge"}
  BY <1>1, <1>4, LengthsOf
     DEF BranchPattern, EqualityPatterns, UnsignedPatterns, SignedPatterns
<1> QED BY <1>2, <1>3, <1>4 DEF Relations, Signed

LEMMA OutputIs ==
  ASSUME NEW p
  PROVE  /\ output_branch(p, 2) = <<JumpTo(p.pos, "l0")>>
         /\ output_branch(p, 4) = << JumpTo(IF p.pos = "LE" THEN "jlt" ELSE "jgt", "l0"),
                                     JumpTo("jeq", "l0") >>
         /\ output_branch(p, 6) = << JumpTo(p.neg, "JMP"), LongWay, Label("JMP") >>
         /\ output_branch(p, 8) = << JumpTo(IF p.neg = "LE" THEN "jlt" ELSE "jgt", "JMP"),
                                     JumpTo("jeq", "JMP"), LongWay, Label("JMP") >>
BY DEF output_branch, LongWay

LEMMA JumpOf ==
  ASSUME NEW name \in OneJumpNames \cup SignedJumpNames, NEW l
  PROVE  \E i \in Int : JumpTo(name, l) = JumpItem(i, l)
<1>1. name \in DOMAIN instab
  BY DEF OneJumpNames, SignedJumpNames, instab
<1> QED BY <1>1, Opcodes DEF JumpTo, JumpItem

LEMMA ConditionalForm ==
  ASSUME NEW t, IsTest(t), t.rel # "always"
  PROVE  \E i \in Int, j \in Int : Form(t, i, j)
<1>1. t.rel \in Relations /\ t.reversed \in BOOLEAN
  BY DEF IsTest
<1>2. PICK p : p = BranchPattern(t.rel, t.reversed)
  OBVIOUS
<1>3. Lengths(p)
  BY <1>1, <1>2, PatternLengths
<1>4. TwoJumps(t) <=> p.near = 4
  BY <1>2 DEF TwoJumps
<1>5. Branch(t) = output_branch(p, IF TooFar(t.distance) THEN p.far ELSE p.near)
  BY <1>2 DEF Branch
<1>6. /\ \A n : JumpTo(IF n = "LE" THEN "jlt" ELSE "jgt", "l0") \in {JumpTo("jlt", "l0"), JumpTo("jgt", "l0")}
      /\ \A n : JumpTo(IF n = "LE" THEN "jlt" ELSE "jgt", "JMP") \in {JumpTo("jlt", "JMP"), JumpTo("jgt", "JMP")}
  OBVIOUS
<1>7. /\ "jeq" \in OneJumpNames \cup SignedJumpNames
      /\ "jlt" \in OneJumpNames \cup SignedJumpNames
      /\ "jgt" \in OneJumpNames \cup SignedJumpNames
  BY DEF OneJumpNames, SignedJumpNames
<1>8. PICK two \in Int, eq \in Int, two2 \in Int, eq2 \in Int :
        /\ JumpTo(IF p.pos = "LE" THEN "jlt" ELSE "jgt", "l0") = JumpItem(two, "l0")
        /\ JumpTo("jeq", "l0") = JumpItem(eq, "l0")
        /\ JumpTo(IF p.neg = "LE" THEN "jlt" ELSE "jgt", "JMP") = JumpItem(two2, "JMP")
        /\ JumpTo("jeq", "JMP") = JumpItem(eq2, "JMP")
  BY <1>6, <1>7, JumpOf
<1>9. CASE TooFar(t.distance) /\ p.far = 6
  <2>1. p.neg \in OneJumpNames \cup SignedJumpNames
    BY <1>3, <1>9 DEF Lengths
  <2>2. PICK i \in Int : JumpTo(p.neg, "JMP") = JumpItem(i, "JMP")
    BY <2>1, JumpOf
  <2>3. Branch(t) = <<JumpItem(i, "JMP"), LongWay, Label("JMP")>>
    BY <1>5, <1>9, <2>2, OutputIs
  <2> QED BY <1>9, <2>3 DEF Form
<1>10. CASE TooFar(t.distance) /\ p.far = 8
  <2>1. Branch(t) = <<JumpItem(two2, "JMP"), JumpItem(eq2, "JMP"), LongWay, Label("JMP")>>
    BY <1>5, <1>8, <1>10, OutputIs
  <2> QED BY <1>10, <2>1 DEF Form
<1>11. CASE ~TooFar(t.distance) /\ p.near = 2
  <2>1. p.pos \in OneJumpNames \cup SignedJumpNames
    BY <1>3, <1>11 DEF Lengths
  <2>2. PICK i \in Int : JumpTo(p.pos, "l0") = JumpItem(i, "l0")
    BY <2>1, JumpOf
  <2>3. Branch(t) = <<JumpItem(i, "l0")>>
    BY <1>5, <1>11, <2>2, OutputIs
  <2> QED BY <1>4, <1>11, <2>3 DEF Form
<1>12. CASE ~TooFar(t.distance) /\ p.near = 4
  <2>1. Branch(t) = <<JumpItem(two, "l0"), JumpItem(eq, "l0")>>
    BY <1>5, <1>8, <1>12, OutputIs
  <2> QED BY <1>4, <1>12, <2>1 DEF Form
<1> QED BY <1>3, <1>9, <1>10, <1>11, <1>12 DEF Lengths

LEMMA EveryForm ==
  ASSUME NEW t, IsTest(t)
  PROVE  \E i \in Int, j \in Int : Form(t, i, j)
<1>1. CASE t.rel = "always"
  <2>1. "jmp" \in DOMAIN instab
    BY DEF instab
  <2>2. PICK i \in Int : JumpTo("jmp", "l0") = JumpItem(i, "l0")
    BY <2>1, Opcodes DEF JumpTo, JumpItem
  <2>3. Branch(t) = IF TooFar(t.distance) THEN <<LongWay>> ELSE <<JumpTo("jmp", "l0")>>
    BY <1>1 DEF Branch, output_jump, LongWay
  <2>4. ~TwoJumps(t)
    BY <1>1 DEF TwoJumps
  <2> QED BY <2>2, <2>3, <2>4 DEF Form
<1> QED BY <1>1, ConditionalForm

LEMMA Sizes ==
  /\ LongWay \in Item /\ Size(LongWay) = 4 /\ LongWay.kind = "branch"
  /\ \A i \in Int, l \in Names :
        JumpItem(i, l) \in Item /\ Size(JumpItem(i, l)) = 2 /\ JumpItem(i, l).kind = "jump" /\ JumpItem(i, l).label = l
  /\ \A l \in Names : Label(l) \in Item /\ Size(Label(l)) = 0 /\ Label(l).kind = "label"
  /\ \A l, m : l # m => Label(l) # Label(m)
<1>1. "l0" \in Names
  BY DEF Names
<1>2. PICK op \in Int : op = instab["b"] + 32
  <2>1. "b" \in DOMAIN instab
    BY DEF instab
  <2> QED BY <2>1, Opcodes
<1>3. LongWay = [kind |-> "branch", op |-> op, label |-> "l0"]
  BY <1>2 DEF LongWay, BranchTo
<1>4. /\ [kind |-> "branch", op |-> op, label |-> "l0"] \in Item
      /\ \A i \in Int, l \in Names : JumpItem(i, l) \in Item
      /\ \A l \in Names : Label(l) \in Item
  BY <1>1, ItemsAre DEF JumpItem
<1>5. LongWay.kind = "branch" /\ Size(LongWay) = 4
  BY <1>3 DEF Size
<1>6. \A i, l : JumpItem(i, l).kind = "jump" /\ JumpItem(i, l).label = l
  BY DEF JumpItem
<1>7. \A l : Label(l).kind = "label" /\ Label(l).label = l
  BY DEF Label
<1>8. \A item : item.kind = "jump" => Size(item) = 2
  BY DEF Size
<1>9. \A item : item.kind = "label" => Size(item) = 0
  BY DEF Size
<1> QED BY <1>3, <1>4, <1>5, <1>6, <1>7, <1>8, <1>9

LEMMA Offsets ==
  ASSUME NEW p \in Seq(Item)
  PROVE  /\ Len(p) >= 1 => Layout(p, 0)[1] = 0
         /\ Len(p) >= 2 => Layout(p, 0)[2] = Size(p[1])
         /\ Len(p) >= 3 => Layout(p, 0)[3] = Size(p[1]) + Size(p[2])
         /\ Len(p) >= 4 => Layout(p, 0)[4] = Size(p[1]) + Size(p[2]) + Size(p[3])
<1>1. \A k \in 1 .. Len(p) : Size(p[k]) \in Int
  BY SizeInt
<1>2. Len(p) \in Nat
  OBVIOUS
<1>3. Len(p) >= 1 => Layout(p, 0)[1] = 0
  BY <1>2, FirstAndNext
<1>4. \A k \in 1 .. Len(p) - 1 : Layout(p, 0)[k + 1] = Layout(p, 0)[k] + Size(p[k])
  BY FirstAndNext
<1>5. Len(p) >= 2 => Layout(p, 0)[2] = Size(p[1])
  BY <1>1, <1>2, <1>3, <1>4
<1>6. Len(p) >= 3 => Layout(p, 0)[3] = Size(p[1]) + Size(p[2])
  BY <1>2, <1>4, <1>5
<1>7. Len(p) >= 4 => Layout(p, 0)[4] = Size(p[1]) + Size(p[2]) + Size(p[3])
  BY <1>2, <1>4, <1>6
<1> QED BY <1>3, <1>5, <1>6, <1>7

(* One or two jumps to l0: what they have to reach.                        *)
LEMMA NearForm ==
  ASSUME NEW p \in Seq(Item), NEW i \in Int, NEW j \in Int, Len(p) \in {1, 2},
         p[1] = JumpItem(i, "l0"), Len(p) = 2 => p[2] = JumpItem(j, "l0")
  PROVE  /\ CodeSize(p) = 2 * Len(p)
         /\ \A l : Without(p, l)
         /\ \A targets : \A at \in Int :
               JumpsReach(p, at, targets) <=>
                 /\ InRange(at, targets["l0"])
                 /\ Len(p) = 2 => InRange(at + 2, targets["l0"])
<1>1. "l0" \in Names
  BY DEF Names
<1>2. \A k \in 1 .. Len(p) : p[k].kind = "jump" /\ p[k].label = "l0" /\ Size(p[k]) = 2
  BY <1>1, Sizes
<1>3. Layout(p, 0)[1] = 0 /\ (Len(p) = 2 => Layout(p, 0)[2] = 2)
  BY <1>2, Offsets
<1>4. CodeSize(p) = Layout(p, 0)[Len(p)] + Size(p[Len(p)])
  <2>1. Len(p) # 0
    OBVIOUS
  <2> QED BY <2>1, CodeSizeIs
<1>5. CodeSize(p) = 2 * Len(p)
  BY <1>2, <1>3, <1>4
<1>6. \A l : Without(p, l)
  <2>1. \A l : Label(l).kind = "label"
    BY DEF Label
  <2> QED BY <1>2, <2>1 DEF Without
<1>7. ASSUME NEW at \in Int, NEW targets
      PROVE  JumpsReach(p, at, targets) <=>
               /\ InRange(at, targets["l0"])
               /\ Len(p) = 2 => InRange(at + 2, targets["l0"])
  <2>1. at + 0 = at
    OBVIOUS
  <2>2. JumpsReach(p, at, targets) <=>
          \A k \in 1 .. Len(p) : InRange(at + Layout(p, 0)[k], targets["l0"])
    BY <1>2 DEF JumpsReach
  <2>3. CASE Len(p) = 1
    <3>1. \A k \in 1 .. Len(p) : k = 1
      BY <2>3
    <3> QED BY <1>3, <2>1, <2>2, <2>3, <3>1
  <2>4. CASE Len(p) = 2
    <3>1. 1 \in 1 .. Len(p) /\ 2 \in 1 .. Len(p) /\ \A k \in 1 .. Len(p) : k = 1 \/ k = 2
      BY <2>4
    <3> QED BY <1>3, <2>1, <2>2, <2>4, <3>1
  <2> QED BY <2>3, <2>4
<1> QED BY <1>5, <1>6, <1>7

(* The jumps around "b @l0" reach the label behind it.                     *)
LEMMA FarForm ==
  ASSUME NEW p \in Seq(Item), NEW i \in Int, NEW j \in Int, Len(p) \in {3, 4},
         p[1] = JumpItem(i, "JMP"), Len(p) = 4 => p[2] = JumpItem(j, "JMP"),
         p[Len(p) - 1] = LongWay, p[Len(p)] = Label("JMP")
  PROVE  /\ CodeSize(p) = 2 * Len(p)
         /\ \A l \in {"l0", "next"} : Without(p, l)
         /\ Labelled(p, "JMP", 2 * Len(p))
         /\ \A targets : \A at \in Int :
               targets["JMP"] = at + 2 * Len(p) => JumpsReach(p, at, targets)
<1> DEFINE n == Len(p)
           g == Layout(p, 0)
<1>1. "l0" \in Names /\ "next" \in Names /\ "JMP" \in Names
  BY DEF Names
<1>2. /\ LongWay.kind = "branch" /\ Size(LongWay) = 4
      /\ \A l \in Names : Label(l).kind = "label" /\ Size(Label(l)) = 0
      /\ \A k \in Int : JumpItem(k, "JMP").kind = "jump" /\ JumpItem(k, "JMP").label = "JMP"
                        /\ Size(JumpItem(k, "JMP")) = 2
      /\ \A l, m : l # m => Label(l) # Label(m)
  BY <1>1, Sizes
<1>3. \A k \in 1 .. n - 2 : p[k].kind = "jump" /\ p[k].label = "JMP" /\ Size(p[k]) = 2
  BY <1>2
<1>4. p[n - 1].kind = "branch" /\ Size(p[n - 1]) = 4 /\ p[n].kind = "label" /\ Size(p[n]) = 0
  BY <1>1, <1>2
<1>5. \A k \in 1 .. n : k \in 1 .. n - 2 \/ k = n - 1 \/ k = n
  OBVIOUS
<1>6. /\ \A k \in 1 .. n - 2 : g[k] = 2 * (k - 1)
      /\ g[n] = 2 * n
  <2>1. CASE n = 3
    <3>1. g[1] = 0 /\ g[3] = Size(p[1]) + Size(p[2])
      <4>1. n >= 1 /\ n >= 3
        BY ONLY <2>1
      <4> QED BY ONLY <4>1, p \in Seq(Item), Offsets
    <3>2. Size(p[1]) = 2 /\ Size(p[2]) = 4 /\ \A k \in 1 .. n - 2 : k = 1
      BY <1>3, <1>4, <2>1
    <3> HIDE DEF g, n
    <3> QED BY <2>1, <3>1, <3>2
  <2>2. CASE n = 4
    <3>1. g[1] = 0 /\ g[2] = Size(p[1]) /\ g[4] = Size(p[1]) + Size(p[2]) + Size(p[3])
      <4>1. n >= 1 /\ n >= 2 /\ n >= 4
        BY ONLY <2>2
      <4> QED BY ONLY <4>1, p \in Seq(Item), Offsets
    <3>2. /\ Size(p[1]) = 2 /\ Size(p[2]) = 2 /\ Size(p[3]) = 4
          /\ \A k \in 1 .. n - 2 : k = 1 \/ k = 2
      BY <1>3, <1>4, <2>2
    <3> HIDE DEF g, n
    <3> QED BY <2>2, <3>1, <3>2
  <2> QED BY <2>1, <2>2
<1>7. CodeSize(p) = 2 * n
  <2>1. n # 0
    OBVIOUS
  <2>2. CodeSize(p) = g[n] + Size(p[n])
    BY <2>1, CodeSizeIs
  <2>3. n \in Int
    OBVIOUS
  <2> HIDE DEF g, n
  <2> QED BY <1>4, <1>6, <2>2, <2>3
<1>8. ASSUME NEW l, l # "JMP" PROVE Without(p, l)
  <2>1. Label(l).kind = "label" /\ Label(l) # Label("JMP")
    BY <1>2, <1>8 DEF Label
  <2>2. \A k \in 1 .. n : p[k] # Label(l)
    BY <1>3, <1>4, <1>5, <2>1
  <2> QED BY <2>2 DEF Without
<1>9. Labelled(p, "JMP", 2 * n)
  <2>1. n \in 1 .. n /\ p[n] = Label("JMP")
    OBVIOUS
  <2>2. ASSUME NEW k \in 1 .. n, p[k] = Label("JMP") PROVE k = n
    BY <1>3, <1>4, <1>5, <2>1, <2>2
  <2> QED BY <1>6, <2>1, <2>2 DEF Labelled
<1>10. ASSUME NEW at \in Int, NEW targets, targets["JMP"] = at + 2 * n
       PROVE  JumpsReach(p, at, targets)
  <2> SUFFICES ASSUME NEW k \in 1 .. n, p[k].kind = "jump"
               PROVE  InRange(at + g[k], targets[p[k].label])
    BY DEF JumpsReach
  <2>1. k \in 1 .. n - 2
    BY <1>4, <1>5
  <2>2. g[k] = 2 * (k - 1) /\ p[k].label = "JMP"
    BY <1>3, <1>6, <2>1
  <2>3. (at + 2 * n) - (at + 2 * (k - 1)) - 2 \in 0 .. 255
    <3>1. n \in {3, 4} /\ k \in Int /\ 1 <= k /\ k <= n - 2
      BY <2>1
    <3> HIDE DEF n
    <3> QED BY ONLY <3>1, at \in Int
  <2>4. \A d \in 0 .. 255 : d \div 2 \in -128 .. 127
    OBVIOUS
  <2>5. InRange(at + 2 * (k - 1), at + 2 * n)
    BY ONLY <2>3, <2>4 DEF InRange
  <2> QED BY ONLY <1>10, <2>2, <2>5
<1> QED BY <1>7, <1>8, <1>9, <1>10

LEMMA InRangeIs ==
  ASSUME NEW from \in Int, NEW to \in Int
  PROVE  InRange(from, to) <=> to - from - 2 \in -256 .. 255
<1>1. PICK d \in Int : d = to - from - 2
  OBVIOUS
<1>2. d \div 2 \in -128 .. 127 <=> d \in -256 .. 255
  OBVIOUS
<1> QED BY <1>1, <1>2 DEF InRange

(* What the branch asks of its target.                                     *)
Reaches(t, at, target) ==
  \/ TooFar(t.distance)
  \/ /\ InRange(at, target)
     /\ TwoJumps(t) => InRange(at + 2, target)

LEMMA BranchFacts ==
  ASSUME NEW t, IsTest(t)
  PROVE  /\ Branch(t) \in Seq(Item)
         /\ Without(Branch(t), "l0") /\ Without(Branch(t), "next")
         /\ ~TooFar(t.distance) => CodeSize(Branch(t)) = IF TwoJumps(t) THEN 4 ELSE 2
         /\ \/ /\ Labelled(Branch(t), "JMP", CodeSize(Branch(t)))
               /\ \A targets : \A at \in Int :
                     targets["JMP"] = at + CodeSize(Branch(t)) =>
                       (JumpsReach(Branch(t), at, targets) <=> Reaches(t, at, targets["l0"]))
            \/ \A targets : \A at \in Int :
                  JumpsReach(Branch(t), at, targets) <=> Reaches(t, at, targets["l0"])
<1>1. PICK i \in Int, j \in Int : Form(t, i, j)
  BY EveryForm
<1>2. "l0" \in Names /\ "JMP" \in Names
  BY DEF Names
<1>3. PICK one \in Item, two \in Item, far1 \in Item, far2 \in Item, long \in Item, label \in Item :
        /\ one = JumpItem(i, "l0") /\ two = JumpItem(j, "l0")
        /\ far1 = JumpItem(i, "JMP") /\ far2 = JumpItem(j, "JMP")
        /\ long = LongWay /\ label = Label("JMP")
  BY <1>2, Sizes
<1>4. CASE /\ ~TooFar(t.distance) /\ ~TwoJumps(t)
           /\ Branch(t) = <<JumpItem(i, "l0")>>
  <2>1. PICK p \in Seq(Item) : p = <<one>> /\ Len(p) = 1 /\ p[1] = one
    <3>1. <<one>> \in Seq(Item) /\ Len(<<one>>) = 1 /\ <<one>>[1] = one
      OBVIOUS
    <3> QED BY ONLY <3>1, Zenon
  <2>2. p = Branch(t)
    BY ONLY <1>3, <1>4, <2>1
  <2>3. /\ CodeSize(p) = 2 * Len(p)
        /\ \A l : Without(p, l)
        /\ \A targets : \A at \in Int :
              JumpsReach(p, at, targets) <=>
                InRange(at, targets["l0"]) /\ (Len(p) = 2 => InRange(at + 2, targets["l0"]))
    BY ONLY <1>3, <2>1, i \in Int, j \in Int, NearForm
  <2> QED BY <1>4, <2>1, <2>2, <2>3 DEF Reaches
<1>5. CASE /\ ~TooFar(t.distance) /\ TwoJumps(t)
           /\ Branch(t) = <<JumpItem(i, "l0"), JumpItem(j, "l0")>>
  <2>1. PICK p \in Seq(Item) : p = <<one, two>> /\ Len(p) = 2 /\ p[1] = one /\ p[2] = two
    <3>1. /\ <<one, two>> \in Seq(Item) /\ Len(<<one, two>>) = 2
          /\ <<one, two>>[1] = one /\ <<one, two>>[2] = two
      OBVIOUS
    <3> QED BY ONLY <3>1, Zenon
  <2>2. p = Branch(t)
    BY ONLY <1>3, <1>5, <2>1
  <2>3. /\ CodeSize(p) = 2 * Len(p)
        /\ \A l : Without(p, l)
        /\ \A targets : \A at \in Int :
              JumpsReach(p, at, targets) <=>
                InRange(at, targets["l0"]) /\ (Len(p) = 2 => InRange(at + 2, targets["l0"]))
    BY ONLY <1>3, <2>1, i \in Int, j \in Int, NearForm
  <2> QED BY <1>5, <2>1, <2>2, <2>3 DEF Reaches
<1>6. CASE TooFar(t.distance) /\ Branch(t) = <<LongWay>>
  <2>1. PICK p \in Seq(Item) : p = <<long>> /\ Len(p) = 1 /\ p[1] = long
    <3>1. <<long>> \in Seq(Item) /\ Len(<<long>>) = 1 /\ <<long>>[1] = long
      OBVIOUS
    <3> QED BY ONLY <3>1, Zenon
  <2>2. p = Branch(t)
    BY ONLY <1>3, <1>6, <2>1
  <2>3. \A k \in 1 .. Len(p) : p[k].kind = "branch"
    BY <1>3, <2>1, Sizes
  <2>4. \A l : Label(l).kind = "label"
    BY DEF Label
  <2>5. Without(p, "l0") /\ Without(p, "next")
    BY <2>3, <2>4 DEF Without
  <2>6. \A at, targets : JumpsReach(p, at, targets)
    BY <2>3 DEF JumpsReach
  <2> QED BY <1>6, <2>2, <2>5, <2>6 DEF Reaches
<1>7. ASSUME NEW p \in Seq(Item), p = Branch(t), TooFar(t.distance), Len(p) \in {3, 4},
             p[1] = far1, Len(p) = 4 => p[2] = far2, p[Len(p) - 1] = long, p[Len(p)] = label
      PROVE  /\ Without(p, "l0") /\ Without(p, "next")
             /\ Labelled(p, "JMP", CodeSize(p))
             /\ \A targets : \A at \in Int :
                   targets["JMP"] = at + CodeSize(p) => JumpsReach(p, at, targets)
  <2>1. /\ CodeSize(p) = 2 * Len(p)
        /\ \A l \in {"l0", "next"} : Without(p, l)
        /\ Labelled(p, "JMP", 2 * Len(p))
        /\ \A targets : \A at \in Int :
              targets["JMP"] = at + 2 * Len(p) => JumpsReach(p, at, targets)
    BY ONLY <1>3, <1>7, i \in Int, j \in Int, FarForm
  <2> QED BY <2>1
<1>8. CASE TooFar(t.distance) /\ Branch(t) = <<JumpItem(i, "JMP"), LongWay, Label("JMP")>>
  <2>1. PICK p \in Seq(Item) : /\ p = <<far1, long, label>> /\ Len(p) = 3
                               /\ p[1] = far1 /\ p[2] = long /\ p[3] = label
    <3>1. /\ <<far1, long, label>> \in Seq(Item) /\ Len(<<far1, long, label>>) = 3
          /\ <<far1, long, label>>[1] = far1 /\ <<far1, long, label>>[2] = long
          /\ <<far1, long, label>>[3] = label
      OBVIOUS
    <3> QED BY ONLY <3>1, Zenon
  <2>2. p = Branch(t)
    BY ONLY <1>3, <1>8, <2>1
  <2>3. Len(p) - 1 = 2 /\ Len(p) = 3
    BY ONLY <2>1
  <2>4. p[Len(p) - 1] = long /\ p[Len(p)] = label
    BY ONLY <2>1, <2>3
  <2>5. Len(p) \in {3, 4} /\ p[1] = far1 /\ (Len(p) = 4 => p[2] = far2)
    BY ONLY <2>1
  <2>6. /\ Without(p, "l0") /\ Without(p, "next")
        /\ Labelled(p, "JMP", CodeSize(p))
        /\ \A targets : \A at \in Int :
              targets["JMP"] = at + CodeSize(p) => JumpsReach(p, at, targets)
    BY ONLY <1>7, <1>8, <2>2, <2>4, <2>5, p \in Seq(Item)
  <2> QED BY <1>8, <2>2, <2>6 DEF Reaches
<1>9. CASE /\ TooFar(t.distance)
           /\ Branch(t) = <<JumpItem(i, "JMP"), JumpItem(j, "JMP"), LongWay, Label("JMP")>>
  <2>1. PICK p \in Seq(Item) : /\ p = <<far1, far2, long, label>> /\ Len(p) = 4
                               /\ p[1] = far1 /\ p[2] = far2 /\ p[3] = long /\ p[4] = label
    <3>1. /\ <<far1, far2, long, label>> \in Seq(Item) /\ Len(<<far1, far2, long, label>>) = 4
          /\ <<far1, far2, long, label>>[1] = far1 /\ <<far1, far2, long, label>>[2] = far2
          /\ <<far1, far2, long, label>>[3] = long /\ <<far1, far2, long, label>>[4] = label
      OBVIOUS
    <3> QED BY ONLY <3>1, Zenon
  <2>2. p = Branch(t)
    BY ONLY <1>3, <1>9, <2>1
  <2>3. Len(p) - 1 = 3 /\ Len(p) = 4
    BY ONLY <2>1
  <2>4. p[Len(p) - 1] = long /\ p[Len(p)] = label
    BY ONLY <2>1, <2>3
  <2>5. Len(p) \in {3, 4} /\ p[1] = far1 /\ (Len(p) = 4 => p[2] = far2)
    BY ONLY <2>1
  <2>6. /\ Without(p, "l0") /\ Without(p, "next")
        /\ Labelled(p, "JMP", CodeSize(p))
        /\ \A targets : \A at \in Int :
              targets["JMP"] = at + CodeSize(p) => JumpsReach(p, at, targets)
    BY ONLY <1>7, <1>9, <2>2, <2>4, <2>5, p \in Seq(Item)
  <2> QED BY <1>9, <2>2, <2>6 DEF Reaches
<1> QED BY <1>1, <1>4, <1>5, <1>6, <1>8, <1>9 DEF Form

-----------------------------------------------------------------------------
(* The code around the branch.                                             *)

LEMMA StayFacts ==
  ASSUME NEW l \in {"l0", "next"}
  PROVE  /\ Stay(l) \in Seq(Item) /\ CodeSize(Stay(l)) = 2
         /\ Labelled(Stay(l), l, 0)
         /\ \A m : m # l => Without(Stay(l), m)
         /\ \A targets : \A at \in Int : targets[l] = at => JumpsReach(Stay(l), at, targets)
<1>1. l \in Names
  BY DEF Names
<1>2. PICK i \in Int : JumpTo("jmp", l) = JumpItem(i, l)
  <2>1. "jmp" \in DOMAIN instab
    BY DEF instab
  <2> QED BY <2>1, Opcodes DEF JumpTo, JumpItem
<1>3. PICK a \in Item, b \in Item :
        /\ a = Label(l) /\ a.kind = "label" /\ Size(a) = 0
        /\ b = JumpItem(i, l) /\ b.kind = "jump" /\ b.label = l /\ Size(b) = 2
  BY <1>1, Sizes
<1>4. PICK p \in Seq(Item) : p = <<a, b>> /\ Len(p) = 2 /\ p[1] = a /\ p[2] = b
  <2>1. /\ <<a, b>> \in Seq(Item) /\ Len(<<a, b>>) = 2
        /\ <<a, b>>[1] = a /\ <<a, b>>[2] = b
    OBVIOUS
  <2> QED BY ONLY <2>1, Zenon
<1>5. p = Stay(l)
  BY ONLY <1>2, <1>3, <1>4 DEF Stay
<1>6. 1 \in 1 .. Len(p) /\ 2 \in 1 .. Len(p) /\ \A k \in 1 .. Len(p) : k = 1 \/ k = 2
  BY <1>4
<1>7. Layout(p, 0)[1] = 0 /\ Layout(p, 0)[2] = 0
  <2>1. Len(p) >= 1 /\ Len(p) >= 2
    BY ONLY <1>4
  <2>2. Layout(p, 0)[1] = 0 /\ Layout(p, 0)[2] = Size(p[1])
    BY ONLY <2>1, p \in Seq(Item), Offsets
  <2> QED BY ONLY <1>3, <1>4, <2>2
<1>8. CodeSize(p) = 2
  <2>1. Len(p) # 0
    BY ONLY <1>4
  <2>2. CodeSize(p) = Layout(p, 0)[Len(p)] + Size(p[Len(p)])
    BY ONLY <2>1, p \in Seq(Item), CodeSizeIs
  <2> QED BY ONLY <1>3, <1>4, <1>7, <2>2
<1>9. Labelled(p, l, 0)
  BY <1>3, <1>4, <1>6, <1>7 DEF Labelled
<1>10. ASSUME NEW m, m # l PROVE Without(p, m)
  <2>1. Label(m).kind = "label" /\ Label(m) # Label(l)
    BY <1>10, Sizes DEF Label
  <2> QED BY <1>3, <1>4, <1>6, <2>1 DEF Without
<1>11. ASSUME NEW targets, NEW at \in Int, targets[l] = at PROVE JumpsReach(p, at, targets)
  <2>1. InRange(at + 0, at)
    <3>1. at + 0 \in Int /\ at - (at + 0) - 2 \in -256 .. 255
      OBVIOUS
    <3> QED BY <3>1, InRangeIs
  <2>2. ASSUME NEW k \in 1 .. Len(p), p[k].kind = "jump" PROVE k = 2
    BY <1>3, <1>4, <1>6, <2>2
  <2> QED BY <1>3, <1>4, <1>7, <1>11, <2>1, <2>2 DEF JumpsReach
<1> QED BY <1>5, <1>8, <1>9, <1>10, <1>11

LEMMA AdditionSizes ==
  /\ \A m \in Int : Size(Two("a", R(2), At(m))) = 4 /\ Size(One("inc", At(m))) = 4
  /\ Size(AddConstant(100)) = 4
<1>1. \A item : item.kind = "words" => Size(item) = 2 * Len(item.words)
  BY DEF Size
<1>2. ASSUME NEW ws, Len(ws) = 2 PROVE Size(Words(ws)) = 4
  <2>1. PICK item : item = Words(ws) /\ item.kind = "words" /\ item.words = ws
    <3>1. Words(ws).kind = "words" /\ Words(ws).words = ws
      BY DEF Words
    <3> QED BY ONLY <3>1, Zenon
  <2>2. Len(item.words) = 2
    BY ONLY <1>2, <2>1, Zenon
  <2>3. Size(item) = 2 * Len(item.words)
    BY <1>1, <2>1
  <2>4. Size(item) = 4
    BY ONLY <2>2, <2>3
  <2> QED BY ONLY <2>1, <2>4
<1>3. ASSUME NEW m \in Int PROVE Size(Two("a", R(2), At(m))) = 4
  <2>1. PICK ws : ws = <<instab["a"] + R(2).bits + At(m).bits * 64>> \o R(2).words \o At(m).words
    OBVIOUS
  <2>2. Len(ws) = 2
    BY <2>1 DEF R, At
  <2>3. Two("a", R(2), At(m)) = Words(ws)
    BY ONLY <2>1 DEF Two
  <2> QED BY ONLY <1>2, <2>2, <2>3
<1>4. ASSUME NEW m \in Int PROVE Size(One("inc", At(m))) = 4
  <2>1. PICK ws : ws = <<instab["inc"] + At(m).bits + R(0).bits * 64>> \o At(m).words \o R(0).words
    OBVIOUS
  <2>2. Len(ws) = 2
    BY <2>1 DEF R, At
  <2>3. One("inc", At(m)) = Words(ws)
    BY ONLY <2>1 DEF One, Two
  <2> QED BY ONLY <1>2, <2>2, <2>3
<1>5. Size(AddConstant(100)) = 4
  <2>1. \A op, v : Len(<<op, v>>) = 2
    OBVIOUS
  <2>2. \A v : \E ws : Len(ws) = 2 /\ RegImm("ai", 1, v) = Words(ws)
    BY <2>1, SMT DEF RegImm
  <2>3. AddConstant(100) = RegImm("ai", 1, 100)
    BY SMT DEF AddConstant
  <2> QED BY ONLY <1>2, <2>2, <2>3, SMT
<1> QED BY <1>3, <1>4, <1>5, SMT

(* The code of the additions is never shorter than what the attributes say.*)
LEMMA NeverShorter ==
  ASSUME NEW adds \in Seq(DOMAIN Addhi3Alternatives)
  PROVE  Miscounted(adds) >= 0
<1> DEFINE e == Emitted(adds)
           c == Counted(adds)
           n == Len(adds)
           g == Layout(e, 0)
           h == Layout(c, 0)
<1>1. /\ e \in Seq(Item) /\ c \in Seq(Item) /\ n \in Nat
      /\ Len(e) = n /\ Len(c) = n
  <2>1. e \in Seq(Item) /\ c \in Seq(Item)
    BY AdditionsPlain, PlainIs, PlainProgram
  <2>2. DOMAIN e = 1 .. n /\ DOMAIN c = 1 .. n /\ n \in Nat
    BY DEF Emitted, Counted
  <2>3. DOMAIN e = 1 .. Len(e) /\ DOMAIN c = 1 .. Len(c) /\ Len(e) \in Nat /\ Len(c) \in Nat
    BY <2>1
  <2> QED BY <2>1, <2>2, <2>3
<1>2. ASSUME NEW k \in 1 .. n
      PROVE  Size(e[k]) \in Int /\ Size(c[k]) \in Int /\ Size(e[k]) >= Size(c[k])
  <2>1. adds[k] \in {"a_memory", "inc_memory", "ai"}
    BY DEF Addhi3Alternatives
  <2>2. /\ e[k] = Addhi3Alternatives[adds[k]].insn
        /\ c[k] = Skip(Addhi3Alternatives[adds[k]].length)
    BY DEF Emitted, Counted
  <2>3. \A m \in Int : Size(Skip(m)) = m
    BY DEF Skip, Size
  <2>4. /\ \A m \in Int : Size(Two("a", R(2), At(m))) = 4 /\ Size(One("inc", At(m))) = 4
        /\ Size(AddConstant(100)) = 4
    BY AdditionSizes
  <2>8. CASE adds[k] = "a_memory"
    BY <2>2, <2>3, <2>4, <2>8, SMT DEF Addhi3Alternatives
  <2>9. CASE adds[k] = "inc_memory"
    BY <2>2, <2>3, <2>4, <2>9, SMT DEF Addhi3Alternatives
  <2>10. CASE adds[k] = "ai"
    BY <2>2, <2>3, <2>4, <2>10, SMT DEF Addhi3Alternatives
  <2> QED BY <2>1, <2>8, <2>9, <2>10
<1>3. /\ Addresses(g, e, 0) /\ Addresses(h, c, 0)
  BY <1>1, LayoutOK
<1> HIDE DEF e, c, g, h
<1> DEFINE T == {k \in Nat : k + 1 \in 1 .. n => g[k + 1] >= h[k + 1]}
<1>4. 0 \in T
  BY <1>1, <1>3 DEF Addresses
<1>5. ASSUME NEW k \in Nat, k \in T PROVE k + 1 \in T
  <2>1. ASSUME (k + 1) + 1 \in 1 .. n PROVE g[(k + 1) + 1] >= h[(k + 1) + 1]
    <3>1. k + 1 \in 1 .. n /\ (k + 1) + 1 # 1 /\ ((k + 1) + 1) - 1 = k + 1
      BY <1>1, <2>1
    <3>2. g[k + 1] >= h[k + 1]
      BY <1>5, <3>1
    <3>3. /\ g[(k + 1) + 1] = g[k + 1] + Size(e[k + 1])
          /\ h[(k + 1) + 1] = h[k + 1] + Size(c[k + 1])
          /\ g[k + 1] \in Int /\ h[k + 1] \in Int
      BY <1>1, <1>3, <2>1, <3>1 DEF Addresses
    <3>4. Size(e[k + 1]) \in Int /\ Size(c[k + 1]) \in Int /\ Size(e[k + 1]) >= Size(c[k + 1])
      BY <1>2, <3>1
    <3> QED BY ONLY <3>2, <3>3, <3>4
  <2> QED BY <2>1
<1>6. \A k \in Nat : k \in T
  <2> HIDE DEF T
  <2> QED BY <1>4, <1>5, Induction
<1>7. CASE n = 0
  <2>1. CodeSize(e) = 0 /\ CodeSize(c) = 0
    BY <1>1, <1>7, CodeSizeIs
  <2> QED BY <2>1 DEF Miscounted, e, c
<1>8. CASE n # 0
  <2>1. n - 1 \in Nat /\ (n - 1) + 1 = n /\ n \in 1 .. n
    BY <1>1, <1>8
  <2>2. n - 1 \in T
    BY <1>6, <2>1
  <2>3. g[n] >= h[n] /\ g[n] \in Int /\ h[n] \in Int
    BY <1>1, <1>3, <2>1, <2>2 DEF Addresses
  <2>4. CodeSize(e) = g[n] + Size(e[n]) /\ CodeSize(c) = h[n] + Size(c[n])
    BY <1>1, <1>8, CodeSizeIs DEF g, h
  <2>5. Size(e[n]) \in Int /\ Size(c[n]) \in Int /\ Size(e[n]) >= Size(c[n])
    BY <1>2, <2>1
  <2>6. CodeSize(e) - CodeSize(c) >= 0
    BY ONLY <2>3, <2>4, <2>5
  <2> QED BY <2>6 DEF Miscounted, e, c
<1> QED BY <1>7, <1>8

LEMMA Nothing ==
  /\ <<>> \in Seq(Item) /\ CodeSize(<<>>) = 0
  /\ \A l : Without(<<>>, l)
  /\ \A at, targets : JumpsReach(<<>>, at, targets)
<1>1. <<>> \in Seq(Spaced) /\ Len(<<>>) = 0
  OBVIOUS
<1>2. <<>> \in Seq(Item)
  BY <1>1, PlainProgram
<1>3. CodeSize(<<>>) = 0
  BY <1>1, <1>2, CodeSizeIs
<1> QED BY <1>1, <1>2, <1>3, PlainProgram

LEMMA TestTypes ==
  ASSUME NEW t, IsTest(t)
  PROVE  /\ t.distance \in Int /\ t.adds \in Seq(DOMAIN Addhi3Alternatives)
         /\ Miscounted(t.adds) \in Int /\ Miscounted(t.adds) >= 0
         /\ Flags(t) \in Seq(Plain) /\ Flags(t) \in Seq(Spaced) /\ Flags(t) \in Seq(Item) /\ CodeSize(Flags(t)) \in Int
         /\ CodeSize(Branch(t)) \in Int
<1>1. t.distance \in Int /\ t.adds \in Seq(DOMAIN Addhi3Alternatives)
  BY DEF IsTest
<1>2. Miscounted(t.adds) \in Int
  <2>1. 0 \in Int
    OBVIOUS
  <2> QED BY <1>1, <2>1, CodeOfSize
<1>3. Miscounted(t.adds) >= 0
  BY <1>1, NeverShorter
<1>4. Flags(t) \in Seq(Plain)
  BY FlagsPlain
<1>8. Flags(t) \in Seq(Spaced)
  BY <1>4, PlainIs
<1>5. Flags(t) \in Seq(Item)
  BY <1>8, PlainProgram
<1>6. CodeSize(Flags(t)) \in Int
  BY <1>5, CodeSizeIs
<1>7. CodeSize(Branch(t)) \in Int
  BY BranchFacts, CodeSizeIs
<1> QED BY <1>1, <1>2, <1>3, <1>4, <1>5, <1>6, <1>7, <1>8

LEMMA BeforeFacts ==
  ASSUME NEW t, IsTest(t)
  PROVE  /\ Before(t) \in Seq(Item)
         /\ Without(Before(t), "next") /\ Without(Before(t), "JMP")
         /\ t.distance > 0 => Without(Before(t), "l0") /\ CodeSize(Before(t)) = 0
         /\ t.distance <= 0 =>
              /\ Labelled(Before(t), "l0", 0)
              /\ CodeSize(Before(t)) = Miscounted(t.adds) - t.distance - CodeSize(Flags(t))
         /\ \A targets : \A at \in Int :
              (t.distance <= 0 => targets["l0"] = at) => JumpsReach(Before(t), at, targets)
<1>1. CASE t.distance > 0
  <2>1. Before(t) = <<>> /\ ~(t.distance <= 0)
    BY <1>1, TestTypes DEF Before
  <2> QED BY <1>1, <2>1, Nothing
<1>2. CASE ~(t.distance > 0)
  <2> DEFINE n == -t.distance - 2 - CodeSize(Flags(t))
  <2>1. n \in Int
    BY TestTypes
  <2>2. PICK c : c = CodeOf(n, t.adds)
    OBVIOUS
  <2> HIDE DEF n
  <2>3. c \in Seq(Spaced) /\ CodeSize(c) = n + Miscounted(t.adds)
    BY <2>1, <2>2, TestTypes, CodeOfSize
  <2>4. c \in Seq(Item) /\ (\A l : Without(c, l)) /\ \A at, targets : JumpsReach(c, at, targets)
    BY <2>3, PlainProgram
  <2>5. PICK s : s = Stay("l0")
    OBVIOUS
  <2>6. /\ s \in Seq(Item) /\ CodeSize(s) = 2
        /\ Labelled(s, "l0", 0)
        /\ Without(s, "next") /\ Without(s, "JMP")
        /\ \A targets : \A at \in Int : targets["l0"] = at => JumpsReach(s, at, targets)
    BY <2>5, StayFacts
  <2>7. Before(t) = s \o c
    BY ONLY <1>2, <2>2, <2>5 DEF Before, n
  <2>8. /\ s \o c \in Seq(Item)
        /\ CodeSize(s \o c) = CodeSize(s) + CodeSize(c)
    BY <2>4, <2>6, Behind, BothLaidOut, 0 \in Int
  <2>9. Without(s \o c, "next") /\ Without(s \o c, "JMP")
    BY <2>4, <2>6, LabelOfBoth, 0 \in Int
  <2>10. Labelled(s \o c, "l0", 0)
    BY <2>4, <2>6, LabelOfBoth, 0 \in Int
  <2>11. ASSUME NEW targets, NEW at \in Int, targets["l0"] = at PROVE JumpsReach(s \o c, at, targets)
    BY <2>4, <2>6, <2>11, JumpsOfBoth
  <2>12. CodeSize(s \o c) = Miscounted(t.adds) - t.distance - CodeSize(Flags(t))
    <3>1. PICK f \in Int : f = CodeSize(Flags(t))
      BY TestTypes
    <3>2. n = -t.distance - 2 - f
      BY ONLY <3>1 DEF n
    <3>3. CodeSize(s \o c) = 2 + (n + Miscounted(t.adds))
      BY ONLY <2>3, <2>6, <2>8
    <3>4. t.distance \in Int /\ Miscounted(t.adds) \in Int
      BY TestTypes
    <3> QED BY ONLY <3>1, <3>2, <3>3, <3>4
  <2>13. t.distance <= 0
    BY <1>2, TestTypes
  <2> QED BY <1>2, <2>7, <2>8, <2>9, <2>10, <2>11, <2>12, <2>13
<1> QED BY <1>1, <1>2

After(t) == IF t.distance > 0 THEN CodeOf(t.distance - 2, t.adds) \o Stay("l0") ELSE <<>>

LEMMA AfterFacts ==
  ASSUME NEW t, IsTest(t)
  PROVE  /\ After(t) \in Seq(Item)
         /\ Without(After(t), "next") /\ Without(After(t), "JMP")
         /\ t.distance <= 0 => Without(After(t), "l0")
         /\ t.distance > 0 => Labelled(After(t), "l0", t.distance - 2 + Miscounted(t.adds))
         /\ \A targets : \A at \in Int :
              (t.distance > 0 => targets["l0"] = at + (t.distance - 2 + Miscounted(t.adds)))
                => JumpsReach(After(t), at, targets)
<1>1. CASE ~(t.distance > 0)
  <2>1. After(t) = <<>>
    BY <1>1 DEF After
  <2> QED BY <1>1, <2>1, Nothing
<1>2. CASE t.distance > 0
  <2> DEFINE n == t.distance - 2
             z == n + Miscounted(t.adds)
  <2>1. n \in Int /\ z \in Int /\ z + 0 = z
    BY TestTypes
  <2>2. PICK c : c = CodeOf(n, t.adds)
    OBVIOUS
  <2> HIDE DEF n
  <2>3. c \in Seq(Spaced) /\ CodeSize(c) = z
    BY <2>1, <2>2, TestTypes, CodeOfSize
  <2> HIDE DEF z
  <2>4. c \in Seq(Item) /\ (\A l : Without(c, l)) /\ \A at, targets : JumpsReach(c, at, targets)
    BY <2>3, PlainProgram
  <2>5. PICK s : s = Stay("l0")
    OBVIOUS
  <2>6. /\ s \in Seq(Item)
        /\ Labelled(s, "l0", 0)
        /\ Without(s, "next") /\ Without(s, "JMP")
        /\ \A targets : \A at \in Int : targets["l0"] = at => JumpsReach(s, at, targets)
    BY <2>5, StayFacts
  <2>7. After(t) = c \o s
    BY ONLY <1>2, <2>2, <2>5 DEF After, n
  <2>8. c \o s \in Seq(Item)
    BY <2>4, <2>6, Behind
  <2>9. Without(c \o s, "next") /\ Without(c \o s, "JMP")
    BY <2>4, <2>6, LabelOfBoth, 0 \in Int
  <2>10. Labelled(c \o s, "l0", z)
    <3>1. Labelled(c \o s, "l0", CodeSize(c) + 0)
      BY <2>4, <2>6, LabelOfBoth, 0 \in Int
    <3> QED BY <2>1, <2>3, <3>1
  <2>11. ASSUME NEW targets, NEW at \in Int, targets["l0"] = at + z
         PROVE  JumpsReach(c \o s, at, targets)
    <3>1. at + CodeSize(c) \in Int /\ targets["l0"] = at + CodeSize(c)
      BY <2>1, <2>3, <2>11
    <3> QED BY <2>4, <2>6, <3>1, JumpsOfBoth
  <2>12. z = t.distance - 2 + Miscounted(t.adds) /\ ~(t.distance <= 0)
    BY <1>2, TestTypes DEF z, n
  <2> QED BY <1>2, <2>7, <2>8, <2>9, <2>10, <2>11, <2>12
<1> QED BY <1>1, <1>2

LEMMA ItemLabel ==
  ASSUME NEW item \in Item, item.kind = "jump"
  PROVE  item.label \in Names
BY DEF Item

LEMMA SizeOfBoth ==
  \A p \in Seq(Item), q \in Seq(Item) : CodeSize(p \o q) = CodeSize(p) + CodeSize(q)
BY BothLaidOut, 0 \in Int

LEMMA WithinRoom ==
  ASSUME NEW d \in Int, NEW m \in Nat
  PROVE  /\ d > 0 => /\ (d + m \in -256 .. 255 <=> m <= 255 - d)
                     /\ (d + m + 2 \in -256 .. 255 <=> m + 2 <= 255 - d)
         /\ d <= 0 => /\ (d - m - 2 \in -256 .. 255 <=> m <= d + 254)
                      /\ (d - m - 4 \in -256 .. 255 <=> m + 2 <= d + 254)
OBVIOUS

(* The parts of the code of a test, one behind the other.                  *)
CodeParts(t, p, q, r) ==
  /\ p = Before(t) \o Flags(t) /\ q = p \o Branch(t) /\ r = q \o Stay("next")
  /\ Code(t) = r \o After(t) /\ Code(t) \in Seq(Item)

LEMMA CodeIs ==
  ASSUME NEW t, IsTest(t), NEW a, NEW f, NEW b,
         a = CodeSize(Before(t)), f = CodeSize(Flags(t)), b = CodeSize(Branch(t))
  PROVE  \E p \in Seq(Item), q \in Seq(Item), r \in Seq(Item) :
           /\ CodeParts(t, p, q, r)
           /\ CodeSize(p) = a + f /\ CodeSize(q) = a + f + b /\ CodeSize(r) = a + f + b + 2
<1>3. PICK A \in Seq(Item) : A = Before(t)
  BY BeforeFacts
<1>4. PICK F \in Seq(Item) : F = Flags(t)
  BY TestTypes
<1>5. PICK B \in Seq(Item) : B = Branch(t)
  BY BranchFacts
<1>6. PICK S \in Seq(Item) : S = Stay("next")
  BY StayFacts
<1>7. PICK Z \in Seq(Item) : Z = After(t)
  BY AfterFacts
<1>8. a = CodeSize(A)
  BY <1>3
<1>9. CodeSize(F) = f /\ CodeSize(B) = b /\ CodeSize(S) = 2
  BY <1>4, <1>5, <1>6, StayFacts
<1>10. PICK p \in Seq(Item), q \in Seq(Item), r \in Seq(Item), code \in Seq(Item) :
         p = A \o F /\ q = p \o B /\ r = q \o S /\ code = r \o Z
  <2>1. A \o F \in Seq(Item)
    BY Behind
  <2>2. (A \o F) \o B \in Seq(Item)
    BY <2>1, Behind
  <2>3. ((A \o F) \o B) \o S \in Seq(Item)
    BY <2>2, Behind
  <2>4. (((A \o F) \o B) \o S) \o Z \in Seq(Item)
    BY <2>3, Behind
  <2> QED BY ONLY <2>1, <2>2, <2>3, <2>4, Zenon
<1>11. Code(t) = code
  BY ONLY <1>3, <1>4, <1>5, <1>6, <1>7, <1>10 DEF Code, After
<1>12. CodeSize(p) = a + f /\ CodeSize(q) = a + f + b /\ CodeSize(r) = a + f + b + 2
  <2>1. CodeSize(p) = a + f
    BY <1>8, <1>9, <1>10, BothLaidOut, 0 \in Int
  <2>2. CodeSize(q) = CodeSize(p) + CodeSize(B)
    BY <1>10, SizeOfBoth
  <2>3. CodeSize(r) = CodeSize(q) + CodeSize(S)
    BY <1>10, SizeOfBoth
  <2> QED BY ONLY <1>9, <2>1, <2>2, <2>3
<1>13. CodeParts(t, p, q, r)
  BY ONLY <1>3, <1>4, <1>5, <1>6, <1>7, <1>10, <1>11, Zenon DEF CodeParts
<1> QED BY ONLY <1>12, <1>13, Zenon

(* Where the labels are.                                                   *)
LEMMA LabelPlaces ==
  ASSUME NEW t, IsTest(t), NEW at, at = CodeSize(Before(t)) + CodeSize(Flags(t)) + CodeSize(Branch(t))
  PROVE  /\ LabelAddr(Code(t), CodeBase, "next") = CodeBase + at
         /\ Labelled(Branch(t), "JMP", CodeSize(Branch(t))) =>
              LabelAddr(Code(t), CodeBase, "JMP") = CodeBase + at
         /\ t.distance <= 0 => LabelAddr(Code(t), CodeBase, "l0") = CodeBase
         /\ t.distance > 0 =>
              LabelAddr(Code(t), CodeBase, "l0") = CodeBase + (at + t.distance + Miscounted(t.adds))
<1>1. CodeBase \in Int
  BY SMT DEF CodeBase
<1>2. PICK d \in Int, m \in Int, f \in Int, b \in Int :
        /\ d = t.distance /\ m = Miscounted(t.adds) /\ m >= 0
        /\ f = CodeSize(Flags(t)) /\ b = CodeSize(Branch(t))
  BY TestTypes
<1>3. PICK A \in Seq(Item) : A = Before(t)
  BY BeforeFacts
<1>4. PICK F \in Seq(Item) : F = Flags(t)
  BY TestTypes
<1>5. PICK B \in Seq(Item) : B = Branch(t)
  BY BranchFacts
<1>6. PICK S \in Seq(Item) : S = Stay("next")
  BY StayFacts
<1>7. PICK Z \in Seq(Item) : Z = After(t)
  BY AfterFacts
<1>8. PICK a \in Int : a = CodeSize(A)
  BY CodeSizeIs
<1>9. CodeSize(F) = f /\ CodeSize(B) = b /\ CodeSize(S) = 2
  BY <1>2, <1>4, <1>5, <1>6, StayFacts
<1>22. a = CodeSize(Before(t)) /\ f = CodeSize(Flags(t)) /\ b = CodeSize(Branch(t))
  BY <1>2, <1>3, <1>8
<1>23. PICK p \in Seq(Item), q \in Seq(Item), r \in Seq(Item) :
         /\ CodeParts(t, p, q, r)
         /\ CodeSize(p) = a + f /\ CodeSize(q) = a + f + b /\ CodeSize(r) = a + f + b + 2
  BY ONLY IsTest(t), <1>22, CodeIs
<1>10. PICK code \in Seq(Item) :
         p = A \o F /\ q = p \o B /\ r = q \o S /\ code = r \o Z
  <2>1. r \o Z \in Seq(Item) /\ p = A \o F /\ q = p \o B /\ r = q \o S
    BY ONLY <1>3, <1>4, <1>5, <1>6, <1>7, <1>23, Zenon DEF CodeParts
  <2> QED BY ONLY <2>1, Zenon
<1>11. Code(t) = code
  BY ONLY <1>7, <1>23, <1>10, Zenon DEF CodeParts
<1>12. CodeSize(p) = a + f /\ CodeSize(q) = a + f + b /\ CodeSize(r) = a + f + b + 2
  BY ONLY <1>23
<1> DEFINE targets == [l \in Names |-> LabelAddr(code, CodeBase, l)]
<1>13. targets["next"] = CodeBase + (a + f + b)
  <2>1. Without(A, "next") /\ Without(F, "next") /\ Without(B, "next") /\ Without(Z, "next")
    BY <1>3, <1>4, <1>5, <1>7, BeforeFacts, TestTypes, PlainProgram, BranchFacts, AfterFacts
  <2>2. Labelled(S, "next", 0)
    BY <1>6, StayFacts
  <2>3. Without(p, "next")
    BY <1>10, <2>1, LabelOfBoth, 0 \in Int
  <2>4. Without(q, "next")
    BY <1>10, <2>1, <2>3, LabelOfBoth, 0 \in Int
  <2>5. Labelled(r, "next", CodeSize(q) + 0)
    BY <1>10, <2>2, <2>4, LabelOfBoth, 0 \in Int
  <2>6. Labelled(r, "next", a + f + b)
    BY <1>12, <2>5
  <2>7. Labelled(code, "next", a + f + b)
    BY <1>10, <2>1, <2>6, LabelOfBoth, a + f + b \in Int
  <2>8. LabelAddr(code, CodeBase, "next") = CodeBase + (a + f + b)
    BY <1>1, <2>7, LabelIs, a + f + b \in Int
  <2> QED BY <2>8 DEF Names
<1>14. Labelled(B, "JMP", b) => targets["JMP"] = CodeBase + (a + f + b)
  <2> SUFFICES ASSUME Labelled(B, "JMP", b) PROVE targets["JMP"] = CodeBase + (a + f + b)
    OBVIOUS
  <2>1. Without(A, "JMP") /\ Without(F, "JMP") /\ Without(S, "JMP") /\ Without(Z, "JMP")
    BY <1>3, <1>4, <1>6, <1>7, BeforeFacts, TestTypes, PlainProgram, StayFacts, AfterFacts
  <2>2. Without(p, "JMP")
    BY <1>10, <2>1, LabelOfBoth, 0 \in Int
  <2>3. Labelled(q, "JMP", CodeSize(p) + b)
    BY <1>10, <2>2, LabelOfBoth
  <2>4. Labelled(q, "JMP", a + f + b)
    BY <1>12, <2>3
  <2>5. Labelled(r, "JMP", a + f + b)
    BY <1>10, <2>1, <2>4, LabelOfBoth, a + f + b \in Int
  <2>6. Labelled(code, "JMP", a + f + b)
    BY <1>10, <2>1, <2>5, LabelOfBoth, a + f + b \in Int
  <2>7. LabelAddr(code, CodeBase, "JMP") = CodeBase + (a + f + b)
    BY <1>1, <2>6, LabelIs, a + f + b \in Int
  <2> QED BY <2>7 DEF Names
<1>15. Without(F, "l0") /\ Without(B, "l0") /\ Without(S, "l0")
  BY <1>4, <1>5, <1>6, TestTypes, PlainProgram, BranchFacts, StayFacts
<1>16. d <= 0 => /\ targets["l0"] = CodeBase
                 /\ a + f = m - d
  <2> SUFFICES ASSUME d <= 0 PROVE targets["l0"] = CodeBase /\ a + f = m - d
    OBVIOUS
  <2>1. Labelled(A, "l0", 0) /\ Without(Z, "l0") /\ a = m - d - f
    BY <1>2, <1>3, <1>7, <1>8, BeforeFacts, AfterFacts
  <2>2. Labelled(p, "l0", 0)
    BY <1>10, <1>15, <2>1, LabelOfBoth, 0 \in Int
  <2>3. Labelled(q, "l0", 0)
    BY <1>10, <1>15, <2>2, LabelOfBoth, 0 \in Int
  <2>4. Labelled(r, "l0", 0)
    BY <1>10, <1>15, <2>3, LabelOfBoth, 0 \in Int
  <2>5. Labelled(code, "l0", 0)
    BY <1>10, <2>1, <2>4, LabelOfBoth, 0 \in Int
  <2>6. LabelAddr(code, CodeBase, "l0") = CodeBase + 0
    BY <1>1, <2>5, LabelIs, 0 \in Int
  <2>7. LabelAddr(code, CodeBase, "l0") = CodeBase
    BY <1>1, <2>6
  <2>8. a + f = m - d
    BY <2>1
  <2> QED BY <2>7, <2>8 DEF Names
<1>17. d > 0 => /\ targets["l0"] = CodeBase + (a + f + b + d + m)
                /\ a = 0
  <2> SUFFICES ASSUME d > 0 PROVE targets["l0"] = CodeBase + (a + f + b + d + m) /\ a = 0
    OBVIOUS
  <2>1. Without(A, "l0") /\ Labelled(Z, "l0", d - 2 + m) /\ a = 0
    BY <1>2, <1>3, <1>7, <1>8, BeforeFacts, AfterFacts
  <2>2. Without(p, "l0")
    BY <1>10, <1>15, <2>1, LabelOfBoth, 0 \in Int
  <2>3. Without(q, "l0")
    BY <1>10, <1>15, <2>2, LabelOfBoth, 0 \in Int
  <2>4. Without(r, "l0")
    BY <1>10, <1>15, <2>3, LabelOfBoth, 0 \in Int
  <2>5. Labelled(code, "l0", CodeSize(r) + (d - 2 + m))
    BY <1>10, <2>1, <2>4, LabelOfBoth, d - 2 + m \in Int
  <2>6. CodeSize(r) + (d - 2 + m) = a + f + b + d + m
    BY <1>12
  <2>7. LabelAddr(code, CodeBase, "l0") = CodeBase + (a + f + b + d + m)
    BY <1>1, <2>5, <2>6, LabelIs, a + f + b + d + m \in Int
  <2> QED BY <2>1, <2>7 DEF Names
<1>18. targets = [l \in Names |-> LabelAddr(Code(t), CodeBase, l)]
  BY <1>11
<1>19. "l0" \in Names /\ "next" \in Names /\ "JMP" \in Names
  BY DEF Names
<1>20. at = a + f + b /\ B = Branch(t) /\ b = CodeSize(B) /\ d = t.distance /\ m = Miscounted(t.adds)
  BY <1>2, <1>3, <1>5, <1>8, <1>9
<1> HIDE DEF targets
<1> QED BY ONLY <1>13, <1>14, <1>16, <1>17, <1>18, <1>19, <1>20, Zenon

LEMMA WhichFit ==
  ASSUME NEW t, IsTest(t)
  PROVE  JumpsInRange(Code(t), CodeBase) <=> Fits(t)
<1>1. CodeBase \in Int
  BY SMT DEF CodeBase
<1>2. PICK d \in Int, m \in Int, f \in Int, b \in Int :
        /\ d = t.distance /\ m = Miscounted(t.adds) /\ m >= 0
        /\ f = CodeSize(Flags(t)) /\ b = CodeSize(Branch(t))
  BY TestTypes
<1>3. PICK A \in Seq(Item) : A = Before(t)
  BY BeforeFacts
<1>4. PICK F \in Seq(Item) : F = Flags(t)
  BY TestTypes
<1>5. PICK B \in Seq(Item) : B = Branch(t)
  BY BranchFacts
<1>6. PICK S \in Seq(Item) : S = Stay("next")
  BY StayFacts
<1>7. PICK Z \in Seq(Item) : Z = After(t)
  BY AfterFacts
<1>8. PICK a \in Int : a = CodeSize(A)
  BY CodeSizeIs
<1>9. CodeSize(F) = f /\ CodeSize(B) = b /\ CodeSize(S) = 2
  BY <1>2, <1>4, <1>5, <1>6, StayFacts
<1>30. a = CodeSize(Before(t)) /\ f = CodeSize(Flags(t)) /\ b = CodeSize(Branch(t))
  BY <1>2, <1>3, <1>8
<1>23. PICK p \in Seq(Item), q \in Seq(Item), r \in Seq(Item) :
         /\ CodeParts(t, p, q, r)
         /\ CodeSize(p) = a + f /\ CodeSize(q) = a + f + b /\ CodeSize(r) = a + f + b + 2
  BY ONLY IsTest(t), <1>30, CodeIs
<1>10. PICK code \in Seq(Item) :
         p = A \o F /\ q = p \o B /\ r = q \o S /\ code = r \o Z
  <2>1. r \o Z \in Seq(Item) /\ p = A \o F /\ q = p \o B /\ r = q \o S
    BY ONLY <1>3, <1>4, <1>5, <1>6, <1>7, <1>23, Zenon DEF CodeParts
  <2> QED BY ONLY <2>1, Zenon
<1>11. Code(t) = code
  BY ONLY <1>7, <1>23, <1>10, Zenon DEF CodeParts
<1>12. CodeSize(p) = a + f /\ CodeSize(q) = a + f + b /\ CodeSize(r) = a + f + b + 2
  BY ONLY <1>23
<1> DEFINE targets == [l \in Names |-> LabelAddr(code, CodeBase, l)]
<1>24. "l0" \in Names /\ "next" \in Names /\ "JMP" \in Names
  BY DEF Names
<1>25. PICK past \in Int : past = a + f + b
  OBVIOUS
<1>26. /\ LabelAddr(Code(t), CodeBase, "next") = CodeBase + past
       /\ Labelled(B, "JMP", b) => LabelAddr(Code(t), CodeBase, "JMP") = CodeBase + past
       /\ d <= 0 => LabelAddr(Code(t), CodeBase, "l0") = CodeBase
       /\ d > 0 => LabelAddr(Code(t), CodeBase, "l0") = CodeBase + (past + d + m)
  BY <1>2, <1>3, <1>5, <1>8, <1>25, LabelPlaces
<1>13. targets["next"] = CodeBase + (a + f + b)
  BY <1>11, <1>24, <1>25, <1>26
<1>14. Labelled(B, "JMP", b) => targets["JMP"] = CodeBase + (a + f + b)
  BY <1>11, <1>24, <1>25, <1>26
<1>16. d <= 0 => targets["l0"] = CodeBase /\ a + f = m - d
  <2>1. d <= 0 => a = m - d - f
    BY <1>2, <1>3, <1>8, BeforeFacts
  <2>2. d <= 0 => targets["l0"] = CodeBase
    BY <1>11, <1>24, <1>26
  <2> HIDE DEF targets
  <2> QED BY ONLY <2>1, <2>2, a \in Int, f \in Int, m \in Int, d \in Int
<1>17. d > 0 => targets["l0"] = CodeBase + (a + f + b + d + m) /\ a = 0
  <2>1. d > 0 => a = 0
    BY <1>2, <1>3, <1>8, BeforeFacts
  <2>2. d > 0 => targets["l0"] = CodeBase + (past + d + m)
    BY <1>11, <1>24, <1>26
  <2> HIDE DEF targets
  <2> QED BY ONLY <1>25, <2>1, <2>2
<1>18. JumpsInRange(Code(t), CodeBase) <=> JumpsReach(code, CodeBase, targets)
  <2>1. \A k \in 1 .. Len(code) : Layout(code, CodeBase)[k] = CodeBase + Layout(code, 0)[k]
    BY <1>1, LayoutMoves
  <2>2. \A k \in 1 .. Len(code) : code[k].kind = "jump" => code[k].label \in Names
    BY ItemLabel
  <2>3. \A l \in Names : targets[l] = LabelAddr(code, CodeBase, l)
    OBVIOUS
  <2>4. DOMAIN code = 1 .. Len(code)
    OBVIOUS
  <2> HIDE DEF targets
  <2>5. ASSUME NEW k \in 1 .. Len(code), code[k].kind = "jump"
        PROVE  /\ Layout(code, CodeBase)[k] = CodeBase + Layout(code, 0)[k]
               /\ LabelAddr(code, CodeBase, code[k].label) = targets[code[k].label]
    BY ONLY <2>1, <2>2, <2>3, <2>5, Zenon
  <2>6. JumpsInRange(code, CodeBase) <=>
          \A k \in 1 .. Len(code) : code[k].kind = "jump" =>
            InRange(CodeBase + Layout(code, 0)[k], targets[code[k].label])
    BY ONLY <2>4, <2>5, Zenon DEF JumpsInRange
  <2> QED BY ONLY <1>11, <2>6, Zenon DEF JumpsReach
<1> HIDE DEF targets
<1>19. JumpsReach(code, CodeBase, targets) <=> JumpsReach(B, CodeBase + (a + f), targets)
  <2>1. JumpsReach(code, CodeBase, targets) <=>
          JumpsReach(r, CodeBase, targets) /\ JumpsReach(Z, CodeBase + CodeSize(r), targets)
    BY <1>1, <1>10, JumpsOfBoth
  <2>2. JumpsReach(r, CodeBase, targets) <=>
          JumpsReach(q, CodeBase, targets) /\ JumpsReach(S, CodeBase + CodeSize(q), targets)
    BY <1>1, <1>10, JumpsOfBoth
  <2>3. JumpsReach(q, CodeBase, targets) <=>
          JumpsReach(p, CodeBase, targets) /\ JumpsReach(B, CodeBase + CodeSize(p), targets)
    BY <1>1, <1>10, JumpsOfBoth
  <2>4. JumpsReach(p, CodeBase, targets) <=>
          JumpsReach(A, CodeBase, targets) /\ JumpsReach(F, CodeBase + CodeSize(A), targets)
    BY <1>1, <1>10, JumpsOfBoth
  <2>5. JumpsReach(A, CodeBase, targets)
    BY <1>1, <1>2, <1>3, <1>16, BeforeFacts
  <2>6. JumpsReach(F, CodeBase + CodeSize(A), targets)
    BY <1>4, TestTypes, PlainProgram
  <2>7. JumpsReach(S, CodeBase + CodeSize(q), targets)
    <3>1. CodeBase + CodeSize(q) \in Int /\ targets["next"] = CodeBase + CodeSize(q)
      BY <1>1, <1>12, <1>13
    <3> QED BY <1>6, <3>1, StayFacts
  <2>8. JumpsReach(Z, CodeBase + CodeSize(r), targets)
    <3>1. PICK at \in Int : at = CodeBase + CodeSize(r)
      BY <1>1, <1>12
    <3>2. d > 0 => targets["l0"] = at + (d - 2 + m)
      BY <1>1, <1>12, <1>17, <3>1
    <3> QED BY <1>2, <1>7, <3>1, <3>2, AfterFacts
  <2>9. CodeSize(p) = a + f
    BY <1>12
  <2> QED BY ONLY <2>1, <2>2, <2>3, <2>4, <2>5, <2>6, <2>7, <2>8, <2>9
<1>20. PICK at \in Int : at = CodeBase + (a + f)
  BY <1>1
<1>21. JumpsReach(B, at, targets) <=> Reaches(t, at, targets["l0"])
  <2>1. CodeBase + (a + f + b) = at + b
    BY <1>1, <1>20
  <2>2. \/ /\ Labelled(B, "JMP", b)
           /\ targets["JMP"] = at + b =>
                (JumpsReach(B, at, targets) <=> Reaches(t, at, targets["l0"]))
        \/ JumpsReach(B, at, targets) <=> Reaches(t, at, targets["l0"])
    BY <1>2, <1>5, BranchFacts
  <2> QED BY ONLY <1>14, <2>1, <2>2
<1>22. Reaches(t, at, targets["l0"]) <=> Fits(t)
  <2>1. CASE TooFar(t.distance)
    BY <2>1 DEF Reaches, Fits
  <2>2. CASE ~TooFar(t.distance)
    <3>1. b = IF TwoJumps(t) THEN 4 ELSE 2
      BY <1>2, <2>2, BranchFacts
    <3>2. PICK to \in Int : to = targets["l0"]
      BY <1>1, <1>16, <1>17
    <3>3. Fits(t) <=> m + (IF TwoJumps(t) THEN 2 ELSE 0) <= IF d > 0 THEN 255 - d ELSE d + 254
      BY <1>2, <2>2 DEF Fits, Room
    <3>4. PICK u \in Int, v \in Int :
            /\ u = to - at - 2 /\ v = to - (at + 2) - 2
            /\ Reaches(t, at, to) <=> u \in -256 .. 255 /\ (TwoJumps(t) => v \in -256 .. 255)
      <4>1. PICK u \in Int, v \in Int : u = to - at - 2 /\ v = to - (at + 2) - 2
        OBVIOUS
      <4>2. (InRange(at, to) <=> u \in -256 .. 255) /\ (InRange(at + 2, to) <=> v \in -256 .. 255)
        BY ONLY <4>1, InRangeIs, at \in Int, at + 2 \in Int, to \in Int
      <4> QED BY <2>2, <4>1, <4>2 DEF Reaches
    <3>8. u = to - at - 2 /\ v = to - (at + 2) - 2
      BY ONLY <3>4, Zenon
    <3>5. m \in Nat /\ (m + 2 <= 255 - d => m <= 255 - d) /\ (m + 2 <= d + 254 => m <= d + 254)
      <4>1. m >= 0
        BY ONLY <1>2
      <4> QED BY ONLY <4>1, m \in Int, d \in Int
    <3>6. CASE d > 0
      <4>1. /\ (d + m \in -256 .. 255 <=> m <= 255 - d)
            /\ (d + m + 2 \in -256 .. 255 <=> m + 2 <= 255 - d)
        BY ONLY <3>5, <3>6, d \in Int, WithinRoom
      <4>2. to - at = b + d + m
        BY ONLY <1>1, <1>17, <1>20, <3>2, <3>6, a \in Int, f \in Int, b \in Int, d \in Int, m \in Int
      <4>3. CASE TwoJumps(t)
        <5>1. b = 4
          BY ONLY <3>1, <4>3
        <5>2. u = d + m + 2 /\ v = d + m
          BY ONLY <3>8, <4>2, <5>1, to \in Int, at \in Int, d \in Int, m \in Int
        <5>3. Fits(t) <=> m + 2 <= 255 - d
          BY ONLY <3>3, <3>6, <4>3
        <5>4. u \in -256 .. 255 <=> m + 2 <= 255 - d
          BY ONLY <4>1, <5>2, Zenon
        <5>5. v \in -256 .. 255 <=> m <= 255 - d
          BY ONLY <4>1, <5>2, Zenon
        <5> QED BY ONLY <3>2, <3>4, <3>5, <4>3, <5>3, <5>4, <5>5, Zenon
      <4>4. CASE ~TwoJumps(t)
        <5>1. b = 2
          BY ONLY <3>1, <4>4
        <5>2. u = d + m
          BY ONLY <3>8, <4>2, <5>1, to \in Int, at \in Int, d \in Int, m \in Int
        <5>3. Fits(t) <=> m <= 255 - d
          BY ONLY <3>3, <3>6, <4>4, m \in Int
        <5>4. u \in -256 .. 255 <=> m <= 255 - d
          BY ONLY <4>1, <5>2, Zenon
        <5> QED BY ONLY <3>2, <3>4, <4>4, <5>3, <5>4, Zenon
      <4> QED BY <4>3, <4>4
    <3>7. CASE ~(d > 0)
      <4>1. d <= 0
        BY <3>7
      <4>2. /\ (d - m - 2 \in -256 .. 255 <=> m <= d + 254)
            /\ (d - m - 4 \in -256 .. 255 <=> m + 2 <= d + 254)
        BY ONLY <3>5, <4>1, d \in Int, WithinRoom
      <4>3. to - at = d - m
        <5>1. targets["l0"] = CodeBase /\ a + f = m - d
          BY ONLY <1>16, <4>1
        <5>2. to = CodeBase
          BY ONLY <3>2, <5>1
        <5>3. at = CodeBase + (m - d)
          BY ONLY <1>20, <5>1
        <5> QED BY ONLY <1>1, <5>2, <5>3, d \in Int, m \in Int
      <4>4. u = d - m - 2 /\ v = d - m - 4
        BY ONLY <3>8, <4>3, to \in Int, at \in Int, d \in Int, m \in Int
      <4>7. u \in -256 .. 255 <=> m <= d + 254
        BY ONLY <4>2, <4>4, Zenon
      <4>8. v \in -256 .. 255 <=> m + 2 <= d + 254
        BY ONLY <4>2, <4>4, Zenon
      <4>5. CASE TwoJumps(t)
        <5>1. Fits(t) <=> m + 2 <= d + 254
          BY ONLY <3>3, <3>7, <4>5
        <5> QED BY ONLY <3>2, <3>4, <3>5, <4>5, <4>7, <4>8, <5>1, Zenon
      <4>6. CASE ~TwoJumps(t)
        <5>1. Fits(t) <=> m <= d + 254
          BY ONLY <3>3, <3>7, <4>6, m \in Int
        <5> QED BY ONLY <3>2, <3>4, <4>6, <4>7, <5>1, Zenon
      <4> QED BY <4>5, <4>6
    <3> QED BY <3>6, <3>7
  <2> QED BY <2>1, <2>2
<1> QED BY ONLY <1>18, <1>19, <1>20, <1>21, <1>22

-----------------------------------------------------------------------------
(* Whatever instructions set the flags, whatever the distance and whatever *)
(* additions are in between: when the bytes the length attribute does not  *)
(* count fit into the room it leaves, every jump of the branch is within   *)
(* the reach the linker accepts (output_branch of tms9900.c and the length *)
(* attributes of tms9900.md).                                              *)
THEOREM BranchesLink == BranchSpec /\ (\A t \in Tests : Fits(t)) => []Linkable
<1> SUFFICES ASSUME \A t \in Tests : Fits(t) PROVE BranchSpec => []Linkable
  OBVIOUS
<1> DEFINE Given == test \in Tests
<1>1. BranchInit => Given
  BY DEF BranchInit
<1>2. Given /\ [BranchNext]_branchVars => Given'
  BY DEF BranchNext, branchVars
<1>3. Given => Linkable
  BY TestsAssumption, WhichFit DEF Linkable
<1> QED BY <1>1, <1>2, <1>3, PTL DEF BranchSpec

(* The condition is exact: the short form of a branch over code whose      *)
(* uncounted bytes (the second of two jumps, additions that the length     *)
(* attributes of tms9900.md take for shorter) do not fit into its room     *)
(* never links.                                                            *)
THEOREM OthersDoNotLink ==
  BranchSpec /\ (\A t \in Tests : ~Fits(t))
    => [](mode = "fetch" /\ cpu.pc = Entry(test) => ~Linkable)
<1> SUFFICES ASSUME \A t \in Tests : ~Fits(t)
             PROVE  BranchSpec => [](mode = "fetch" /\ cpu.pc = Entry(test) => ~Linkable)
  OBVIOUS
<1> DEFINE Given == test \in Tests
<1>1. BranchInit => Given
  BY DEF BranchInit
<1>2. Given /\ [BranchNext]_branchVars => Given'
  BY DEF BranchNext, branchVars
<1>3. Given => (mode = "fetch" /\ cpu.pc = Entry(test) => ~Linkable)
  BY TestsAssumption, WhichFit DEF Linkable
<1> QED BY <1>1, <1>2, <1>3, PTL DEF BranchSpec

-----------------------------------------------------------------------------
(* Which way a branch goes.                                                *)

(* The flags of a comparison are the upper three bits of the status        *)
(* register, a number from 0 to 7.                                         *)
Top(st) == st \div 8192

CompareFlags == {FLAG_EQ, FLAG_AGT, FLAG_LGT}

Carries(st, f) == (st \div f) % 2 = 1

Changed(st, f, on) ==
  IF on /\ ~Carries(st, f) THEN st + f ELSE IF ~on /\ Carries(st, f) THEN st - f ELSE st

LEMMA Quarters ==
  ASSUME NEW st \in Nat
  PROVE  /\ st \div 16384 = Top(st) \div 2
         /\ st \div 32768 = Top(st) \div 4
<1>1. PICK k, r : k = st \div 8192 /\ r = st % 8192
  OBVIOUS
<1>2. k \in Nat /\ r \in 0 .. 8191 /\ st = 8192 * k + r
  BY ONLY <1>1, st \in Nat, SMT
<1>3. PICK a \in Nat, b \in 0 .. 1 : k = 2 * a + b /\ a = k \div 2
  BY <1>2, SMT
<1>4. PICK c \in Nat, d \in 0 .. 1 : a = 2 * c + d /\ c = a \div 2
  BY SMT
<1>5. st \div 16384 = a
  BY ONLY <1>2, <1>3, SMT
<1>6. st \div 32768 = c /\ k \div 4 = c
  BY ONLY <1>2, <1>3, <1>4, SMT
<1> QED BY <1>1, <1>3, <1>5, <1>6 DEF Top

LEMMA TopFlags ==
  ASSUME NEW st \in Word
  PROVE  /\ Top(st) \in 0 .. 7
         /\ Carries(st, FLAG_EQ) <=> Top(st) \in {1, 3, 5, 7}
         /\ Carries(st, FLAG_AGT) <=> Top(st) \in {2, 3, 6, 7}
         /\ Carries(st, FLAG_LGT) <=> Top(st) \in {4, 5, 6, 7}
<1>1. st \in Nat /\ st < 65536
  BY SMT DEF Word
<1>2. PICK k \in 0 .. 7 : k = Top(st)
  BY <1>1, SMT DEF Top
<1>3. /\ (k % 2 = 1) <=> k \in {1, 3, 5, 7}
      /\ ((k \div 2) % 2 = 1) <=> k \in {2, 3, 6, 7}
      /\ ((k \div 4) % 2 = 1) <=> k \in {4, 5, 6, 7}
  BY SMT
<1>4. /\ Carries(st, FLAG_EQ) <=> k % 2 = 1
      /\ Carries(st, FLAG_AGT) <=> (k \div 2) % 2 = 1
      /\ Carries(st, FLAG_LGT) <=> (k \div 4) % 2 = 1
  BY <1>1, <1>2, Quarters DEF Carries, Top, FLAG_EQ, FLAG_AGT, FLAG_LGT
<1> QED BY <1>2, <1>3, <1>4

LEMMA TopMoves ==
  ASSUME NEW st \in Word, NEW k \in {1, 2, 4}
  PROVE  /\ Top(st + 8192 * k) = Top(st) + k
         /\ Top(st - 8192 * k) = Top(st) - k
         /\ Top(st) + k <= 7 => st + 8192 * k \in Word
         /\ Top(st) >= k => st - 8192 * k \in Word
<1>1. PICK a \in Int, b \in Int : a = st \div 8192 /\ st = 8192 * a + b /\ 0 <= b /\ b < 8192
  BY SMT DEF Word
<1>2. /\ (st + 8192 * k) \div 8192 = a + k
      /\ (st - 8192 * k) \div 8192 = a - k
  BY <1>1, SMT
<1>3. st \in Int /\ 0 <= st /\ st < 65536
  BY SMT DEF Word
<1> QED BY <1>1, <1>2, <1>3, SMT DEF Top, Word

LEMMA OneChanged ==
  ASSUME NEW st \in Word, NEW on \in BOOLEAN, NEW f \in CompareFlags
  PROVE  /\ Changed(st, f, on) \in Word
         /\ Carries(Changed(st, f, on), f) <=> on
         /\ \A g \in CompareFlags : g # f => (Carries(Changed(st, f, on), g) <=> Carries(st, g))
<1>1. Top(st) \in 0 .. 7
  BY TopFlags
<1>2. PICK v : v = Changed(st, f, on)
  OBVIOUS
<1>3. CASE f = FLAG_EQ
  <2>1. /\ v \in Word
        /\ Top(v) = IF on /\ Top(st) \notin {1, 3, 5, 7} THEN Top(st) + 1
                    ELSE IF ~on /\ Top(st) \in {1, 3, 5, 7} THEN Top(st) - 1 ELSE Top(st)
    <3>1. /\ Top(st + 8192) = Top(st) + 1 /\ Top(st - 8192) = Top(st) - 1
          /\ Top(st) + 1 <= 7 => st + 8192 \in Word
          /\ Top(st) >= 1 => st - 8192 \in Word
      BY TopMoves, SMT
    <3>2. v = IF on /\ Top(st) \notin {1, 3, 5, 7} THEN st + 8192
              ELSE IF ~on /\ Top(st) \in {1, 3, 5, 7} THEN st - 8192 ELSE st
      BY <1>2, <1>3, TopFlags, SMT DEF Changed, FLAG_EQ
    <3> QED BY <1>1, <3>1, <3>2, SMT
  <2>2. /\ Carries(v, FLAG_EQ) <=> Top(v) \in {1, 3, 5, 7}
        /\ Carries(v, FLAG_AGT) <=> Top(v) \in {2, 3, 6, 7}
        /\ Carries(v, FLAG_LGT) <=> Top(v) \in {4, 5, 6, 7}
    BY <2>1, TopFlags
  <2>3. /\ Carries(v, FLAG_EQ) <=> on
        /\ Carries(v, FLAG_AGT) <=> Carries(st, FLAG_AGT)
        /\ Carries(v, FLAG_LGT) <=> Carries(st, FLAG_LGT)
    BY <1>1, <2>1, <2>2, TopFlags
  <2> QED BY <1>2, <1>3, <2>1, <2>3 DEF CompareFlags
<1>4. CASE f = FLAG_AGT
  <2>1. /\ v \in Word
        /\ Top(v) = IF on /\ Top(st) \notin {2, 3, 6, 7} THEN Top(st) + 2
                    ELSE IF ~on /\ Top(st) \in {2, 3, 6, 7} THEN Top(st) - 2 ELSE Top(st)
    <3>1. /\ Top(st + 16384) = Top(st) + 2 /\ Top(st - 16384) = Top(st) - 2
          /\ Top(st) + 2 <= 7 => st + 16384 \in Word
          /\ Top(st) >= 2 => st - 16384 \in Word
      BY TopMoves, SMT
    <3>2. v = IF on /\ Top(st) \notin {2, 3, 6, 7} THEN st + 16384
              ELSE IF ~on /\ Top(st) \in {2, 3, 6, 7} THEN st - 16384 ELSE st
      BY <1>2, <1>4, TopFlags, SMT DEF Changed, FLAG_AGT
    <3> QED BY <1>1, <3>1, <3>2, SMT
  <2>2. /\ Carries(v, FLAG_EQ) <=> Top(v) \in {1, 3, 5, 7}
        /\ Carries(v, FLAG_AGT) <=> Top(v) \in {2, 3, 6, 7}
        /\ Carries(v, FLAG_LGT) <=> Top(v) \in {4, 5, 6, 7}
    BY <2>1, TopFlags
  <2>3. /\ Carries(v, FLAG_AGT) <=> on
        /\ Carries(v, FLAG_EQ) <=> Carries(st, FLAG_EQ)
        /\ Carries(v, FLAG_LGT) <=> Carries(st, FLAG_LGT)
    BY <1>1, <2>1, <2>2, TopFlags
  <2> QED BY <1>2, <1>4, <2>1, <2>3 DEF CompareFlags
<1>5. CASE f = FLAG_LGT
  <2>1. /\ v \in Word
        /\ Top(v) = IF on /\ Top(st) \notin {4, 5, 6, 7} THEN Top(st) + 4
                    ELSE IF ~on /\ Top(st) \in {4, 5, 6, 7} THEN Top(st) - 4 ELSE Top(st)
    <3>1. /\ Top(st + 32768) = Top(st) + 4 /\ Top(st - 32768) = Top(st) - 4
          /\ Top(st) + 4 <= 7 => st + 32768 \in Word
          /\ Top(st) >= 4 => st - 32768 \in Word
      BY TopMoves, SMT
    <3>2. v = IF on /\ Top(st) \notin {4, 5, 6, 7} THEN st + 32768
              ELSE IF ~on /\ Top(st) \in {4, 5, 6, 7} THEN st - 32768 ELSE st
      BY <1>2, <1>5, TopFlags, SMT DEF Changed, FLAG_LGT
    <3> QED BY <1>1, <3>1, <3>2, SMT
  <2>2. /\ Carries(v, FLAG_EQ) <=> Top(v) \in {1, 3, 5, 7}
        /\ Carries(v, FLAG_AGT) <=> Top(v) \in {2, 3, 6, 7}
        /\ Carries(v, FLAG_LGT) <=> Top(v) \in {4, 5, 6, 7}
    BY <2>1, TopFlags
  <2>3. /\ Carries(v, FLAG_LGT) <=> on
        /\ Carries(v, FLAG_EQ) <=> Carries(st, FLAG_EQ)
        /\ Carries(v, FLAG_AGT) <=> Carries(st, FLAG_AGT)
    BY <1>1, <2>1, <2>2, TopFlags
  <2> QED BY <1>2, <1>5, <2>1, <2>3 DEF CompareFlags
<1> QED BY <1>3, <1>4, <1>5 DEF CompareFlags

(* The parity flag is below those three. *)
LEMMA ParityBelow ==
  ASSUME NEW st \in Word, NEW on \in BOOLEAN
  PROVE  \A f \in CompareFlags : Carries(Changed(st, FLAG_OP, on), f) <=> Carries(st, f)
<1>1. st \in Nat /\ st < 65536
  BY SMT DEF Word
<1>2. PICK k \in Nat, b \in 0 .. 1023 : st = 1024 * k + b /\ k = st \div 1024
  BY <1>1, SMT
<1>8. k \in 0 .. 63
  BY <1>1, <1>2, SMT
<1>3. PICK j \in 0 .. 63 :
        j = IF on /\ k % 2 # 1 THEN k + 1 ELSE IF ~on /\ k % 2 = 1 THEN k - 1 ELSE k
  BY <1>8, SMT
<1>4. Changed(st, FLAG_OP, on) = 1024 * j + b
  BY <1>8, <1>2, <1>3, SMT DEF Changed, Carries, FLAG_OP
<1>5. j \div 8 = k \div 8
  BY <1>8, <1>3, SMT
<1>6. Top(1024 * j + b) = j \div 8 /\ Top(1024 * k + b) = k \div 8
  BY <1>8, SMT DEF Top
<1>7. 1024 * j + b \in Word /\ Top(1024 * j + b) = Top(st)
  BY <1>2, <1>5, <1>6, SMT DEF Word
<1> QED BY <1>4, <1>7, TopFlags DEF CompareFlags

LEMMA FlagSet ==
  ASSUME NEW m, IsMachine(m), NEW f \in StatusFlags, NEW on \in BOOLEAN
  PROVE  SetFlag(m, f, on).st = Changed(m.st, f, on)
BY DEF IsMachine, SetFlag, HasFlag, Changed, Carries

LEMMA FlagOf == \A m, f : HasFlag(m, f) <=> Carries(m.st, f)
BY DEF HasFlag, Carries

LEMMA OneFlag ==
  ASSUME NEW m, IsMachine(m), NEW f \in CompareFlags, NEW on \in BOOLEAN
  PROVE  /\ IsMachine(SetFlag(m, f, on))
         /\ HasFlag(SetFlag(m, f, on), f) <=> on
         /\ \A g \in CompareFlags : g # f => (HasFlag(SetFlag(m, f, on), g) <=> HasFlag(m, g))
<1>1. f \in StatusFlags
  BY DEF CompareFlags, StatusFlags
<1>2. m.st \in Word
  BY Parts
<1> QED BY <1>1, <1>2, SetFlagOK, FlagSet, FlagOf, OneChanged

LEMMA ThreeFlags ==
  ASSUME NEW m, IsMachine(m), NEW e \in BOOLEAN, NEW l \in BOOLEAN, NEW g \in BOOLEAN, NEW n,
         n = SetFlag(SetFlag(SetFlag(m, FLAG_EQ, e), FLAG_LGT, l), FLAG_AGT, g)
  PROVE  (HasFlag(n, FLAG_EQ) <=> e) /\ (HasFlag(n, FLAG_LGT) <=> l) /\ (HasFlag(n, FLAG_AGT) <=> g)
<1>1. /\ FLAG_EQ \in CompareFlags /\ FLAG_LGT \in CompareFlags /\ FLAG_AGT \in CompareFlags
      /\ FLAG_EQ # FLAG_LGT /\ FLAG_EQ # FLAG_AGT /\ FLAG_LGT # FLAG_AGT
  BY DEF CompareFlags, FLAG_EQ, FLAG_LGT, FLAG_AGT
<1>2. PICK m1 : m1 = SetFlag(m, FLAG_EQ, e)
  OBVIOUS
<1>3. PICK m2 : m2 = SetFlag(m1, FLAG_LGT, l)
  OBVIOUS
<1>4. IsMachine(m1) /\ (HasFlag(m1, FLAG_EQ) <=> e)
  BY <1>1, <1>2, OneFlag
<1>5. IsMachine(m2) /\ (HasFlag(m2, FLAG_LGT) <=> l) /\ (HasFlag(m2, FLAG_EQ) <=> e)
  BY <1>1, <1>3, <1>4, OneFlag
<1> QED BY <1>1, <1>2, <1>3, <1>5, OneFlag

(* What two values compare to: equal, larger, larger as signed ones.       *)
FlagsSay(n, x, y, width) ==
  /\ HasFlag(n, FLAG_EQ) <=> Holds("eq", x, y, width)
  /\ HasFlag(n, FLAG_LGT) <=> Holds("gtu", x, y, width)
  /\ HasFlag(n, FLAG_AGT) <=> Holds("gt", x, y, width)

LEMMA HoldsIs ==
  ASSUME NEW x, NEW y, NEW width
  PROVE  /\ Holds("eq", x, y, width) <=> x = y
         /\ Holds("gtu", x, y, width) <=> x > y
         /\ Holds("gt", x, y, "HI") <=> Signed16(x) > Signed16(y)
         /\ Holds("gt", x, y, "QI") <=> Signed8(x) > Signed8(y)
BY DEF Holds

LEMMA WordsCompared ==
  ASSUME NEW m, IsMachine(m), NEW x, NEW y
  PROVE  FlagsSay(CompareWord(m, x, y), x, y, "HI")
<1>1. PICK e \in BOOLEAN, l \in BOOLEAN, g \in BOOLEAN :
        /\ e = (x = y) /\ l = (x > y)
        /\ g = (Signed16(x) > Signed16(y))
  <2>1. (x = y) \in BOOLEAN /\ (x > y) \in BOOLEAN /\ (Signed16(x) > Signed16(y)) \in BOOLEAN
    OBVIOUS
  <2> QED BY <2>1, Zenon
<1>2. PICK n : n = CompareWord(m, x, y)
  OBVIOUS
<1>3. n = SetFlag(SetFlag(SetFlag(m, FLAG_EQ, e), FLAG_LGT, l), FLAG_AGT, g)
  BY <1>1, <1>2 DEF CompareWord
<1>4. (HasFlag(n, FLAG_EQ) <=> e) /\ (HasFlag(n, FLAG_LGT) <=> l) /\ (HasFlag(n, FLAG_AGT) <=> g)
  BY <1>3, ThreeFlags
<1>5. (Holds("eq", x, y, "HI") <=> e) /\ (Holds("gtu", x, y, "HI") <=> l) /\ (Holds("gt", x, y, "HI") <=> g)
  BY <1>1, HoldsIs
<1> QED BY <1>2, <1>4, <1>5 DEF FlagsSay

LEMMA BytesCompared ==
  ASSUME NEW m, IsMachine(m), NEW x, NEW y, NEW v
  PROVE  FlagsSay(Parity(CompareByte(m, x, y), v), x, y, "QI")
<1>1. PICK e \in BOOLEAN, l \in BOOLEAN, g \in BOOLEAN :
        /\ e = (x = y) /\ l = (x > y)
        /\ g = (Signed8(x) > Signed8(y))
  <2>1. (x = y) \in BOOLEAN /\ (x > y) \in BOOLEAN /\ (Signed8(x) > Signed8(y)) \in BOOLEAN
    OBVIOUS
  <2> QED BY <2>1, Zenon
<1>2. PICK n : n = CompareByte(m, x, y)
  OBVIOUS
<1>3. FlagsSay(n, x, y, "QI")
  <2>1. n = SetFlag(SetFlag(SetFlag(m, FLAG_EQ, e), FLAG_LGT, l), FLAG_AGT, g)
    BY <1>1, <1>2 DEF CompareByte
  <2>2. (HasFlag(n, FLAG_EQ) <=> e) /\ (HasFlag(n, FLAG_LGT) <=> l) /\ (HasFlag(n, FLAG_AGT) <=> g)
    BY <2>1, ThreeFlags
  <2>3. (Holds("eq", x, y, "QI") <=> e) /\ (Holds("gtu", x, y, "QI") <=> l) /\ (Holds("gt", x, y, "QI") <=> g)
    BY <1>1, HoldsIs
  <2> QED BY <2>2, <2>3 DEF FlagsSay
<1>4. \A f \in CompareFlags : HasFlag(Parity(n, v), f) <=> HasFlag(n, f)
  <2>1. IsMachine(n) /\ n.st \in Word
    BY <1>2, CompareOK, Parts
  <2>2. PICK on \in BOOLEAN : Parity(n, v) = SetFlag(n, FLAG_OP, on)
    BY DEF Parity
  <2>3. Parity(n, v).st = Changed(n.st, FLAG_OP, on)
    BY <2>1, <2>2, FlagSet DEF StatusFlags
  <2> QED BY <2>1, <2>3, ParityBelow, FlagOf
<1> QED BY <1>2, <1>3, <1>4 DEF FlagsSay, CompareFlags

(* Where a jump or branch of the code leads, if the processor gets there.  *)
Taken(n, item) == \E name \in DOMAIN JumpOps : JumpOps[name] = item.op /\ JumpTaken(n, name)

Goes(n, item) == item.kind = "branch" \/ (item.kind = "jump" /\ Taken(n, item))

(* The first jump that is taken, or the branch, is to l0.                  *)
Leads(n, code) ==
  \E k \in DOMAIN code :
    /\ Goes(n, code[k]) /\ code[k].label = "l0"
    /\ \A j \in 1 .. k - 1 : ~Goes(n, code[j])

JumpNames ==
  {"JMP", "JLT", "JLE", "JEQ", "JHE", "JGT", "JNE", "JNC", "JOC", "JNO", "JL", "JH", "SBO",
   "SBZ", "TB"}

LEMMA JumpCodes ==
  /\ DOMAIN JumpOps = JumpNames
  /\ JumpOps["JMP"] = 4096 /\ JumpOps["JLT"] = 4352 /\ JumpOps["JLE"] = 4608
  /\ JumpOps["JEQ"] = 4864 /\ JumpOps["JHE"] = 5120 /\ JumpOps["JGT"] = 5376
  /\ JumpOps["JNE"] = 5632 /\ JumpOps["JNC"] = 5888 /\ JumpOps["JOC"] = 6144
  /\ JumpOps["JNO"] = 6400 /\ JumpOps["JL"] = 6656 /\ JumpOps["JH"] = 6912
  /\ JumpOps["SBO"] = 7424 /\ JumpOps["SBZ"] = 7680 /\ JumpOps["TB"] = 7936
BY DEF JumpOps, JumpNames

LEMMA SameCode ==
  \A a, b \in JumpNames : JumpOps[a] = JumpOps[b] => a = b
BY JumpCodes, SMT DEF JumpNames

LEMMA AsmCodes ==
  /\ instab["jmp"] = JumpOps["JMP"] /\ instab["jlt"] = JumpOps["JLT"]
  /\ instab["jeq"] = JumpOps["JEQ"] /\ instab["jhe"] = JumpOps["JHE"]
  /\ instab["jgt"] = JumpOps["JGT"] /\ instab["jne"] = JumpOps["JNE"]
  /\ instab["jl"] = JumpOps["JL"] /\ instab["jh"] = JumpOps["JH"]
  /\ instab["jle"] = JumpOps["JLE"]
BY JumpCodes DEF instab

LEMMA TakenIs ==
  ASSUME NEW n, NEW asm, NEW name \in JumpNames, instab[asm] = JumpOps[name], NEW l
  PROVE  Taken(n, JumpTo(asm, l)) <=> JumpTaken(n, name)
<1>1. JumpTo(asm, l).op = JumpOps[name]
  BY DEF JumpTo
<1> QED BY <1>1, SameCode, JumpCodes DEF Taken

(* The condition of each jump. *)
Asks(asm, eq, lgt, agt) ==
  CASE asm = "jmp" -> TRUE
    [] asm = "jeq" -> eq
    [] asm = "jne" -> ~eq
    [] asm = "jl" -> ~lgt /\ ~eq
    [] asm = "jhe" -> lgt \/ eq
    [] asm = "jle" -> eq \/ ~lgt
    [] asm = "jh" -> lgt /\ ~eq
    [] asm = "jlt" -> ~agt /\ ~eq
    [] asm = "jgt" -> agt /\ ~eq

AsmJumps == {"jmp", "jeq", "jne", "jl", "jhe", "jle", "jh", "jlt", "jgt"}

LEMMA EachTaken ==
  ASSUME NEW n
  PROVE  /\ JumpTaken(n, "JMP")
         /\ JumpTaken(n, "JEQ") <=> HasFlag(n, FLAG_EQ)
         /\ JumpTaken(n, "JNE") <=> ~HasFlag(n, FLAG_EQ)
         /\ JumpTaken(n, "JL") <=> ~HasFlag(n, FLAG_LGT) /\ ~HasFlag(n, FLAG_EQ)
         /\ JumpTaken(n, "JHE") <=> HasFlag(n, FLAG_LGT) \/ HasFlag(n, FLAG_EQ)
         /\ JumpTaken(n, "JLE") <=> HasFlag(n, FLAG_EQ) \/ ~HasFlag(n, FLAG_LGT)
         /\ JumpTaken(n, "JH") <=> HasFlag(n, FLAG_LGT) /\ ~HasFlag(n, FLAG_EQ)
         /\ JumpTaken(n, "JLT") <=> ~HasFlag(n, FLAG_AGT) /\ ~HasFlag(n, FLAG_EQ)
         /\ JumpTaken(n, "JGT") <=> HasFlag(n, FLAG_AGT) /\ ~HasFlag(n, FLAG_EQ)
<1>1. JumpTaken(n, "JMP")
  BY DEF JumpTaken, JumpAnd
<1>2. JumpTaken(n, "JEQ") <=> HasFlag(n, FLAG_EQ)
  BY DEF JumpTaken, JumpAnd
<1>3. JumpTaken(n, "JNE") <=> ~HasFlag(n, FLAG_EQ)
  BY DEF JumpTaken, JumpAnd
<1>4. JumpTaken(n, "JL") <=> ~HasFlag(n, FLAG_LGT) /\ ~HasFlag(n, FLAG_EQ)
  BY DEF JumpTaken, JumpAnd
<1>5. JumpTaken(n, "JHE") <=> HasFlag(n, FLAG_LGT) \/ HasFlag(n, FLAG_EQ)
  BY DEF JumpTaken, JumpOr
<1>6. JumpTaken(n, "JLE") <=> HasFlag(n, FLAG_EQ) \/ ~HasFlag(n, FLAG_LGT)
  BY DEF JumpTaken, JumpOr
<1>7. JumpTaken(n, "JH") <=> HasFlag(n, FLAG_LGT) /\ ~HasFlag(n, FLAG_EQ)
  BY DEF JumpTaken, JumpAnd
<1>8. JumpTaken(n, "JLT") <=> ~HasFlag(n, FLAG_AGT) /\ ~HasFlag(n, FLAG_EQ)
  BY DEF JumpTaken, JumpAnd
<1>9. JumpTaken(n, "JGT") <=> HasFlag(n, FLAG_AGT) /\ ~HasFlag(n, FLAG_EQ)
  BY DEF JumpTaken, JumpAnd
<1> QED BY <1>1, <1>2, <1>3, <1>4, <1>5, <1>6, <1>7, <1>8, <1>9

LEMMA AsksIs ==
  ASSUME NEW e \in BOOLEAN, NEW l \in BOOLEAN, NEW a \in BOOLEAN
  PROVE  /\ Asks("jmp", e, l, a)
         /\ Asks("jeq", e, l, a) <=> e
         /\ Asks("jne", e, l, a) <=> ~e
         /\ Asks("jl", e, l, a) <=> ~l /\ ~e
         /\ Asks("jhe", e, l, a) <=> l \/ e
         /\ Asks("jle", e, l, a) <=> e \/ ~l
         /\ Asks("jh", e, l, a) <=> l /\ ~e
         /\ Asks("jlt", e, l, a) <=> ~a /\ ~e
         /\ Asks("jgt", e, l, a) <=> a /\ ~e
BY DEF Asks

FlagsAre(n, e, l, a) ==
  (HasFlag(n, FLAG_EQ) <=> e) /\ (HasFlag(n, FLAG_LGT) <=> l) /\ (HasFlag(n, FLAG_AGT) <=> a)

LEMMA AsmTaken ==
  ASSUME NEW n, NEW e \in BOOLEAN, NEW l \in BOOLEAN, NEW a \in BOOLEAN, FlagsAre(n, e, l, a),
         NEW asm \in AsmJumps, NEW label
  PROVE  Taken(n, JumpTo(asm, label)) <=> Asks(asm, e, l, a)
<1>1. CASE asm = "jmp"
  <2>1. Taken(n, JumpTo("jmp", label)) <=> JumpTaken(n, "JMP")
    BY AsmCodes, TakenIs DEF JumpNames
  <2>2. JumpTaken(n, "JMP") <=> Asks("jmp", e, l, a)
    BY EachTaken, AsksIs DEF FlagsAre
  <2> QED BY <1>1, <2>1, <2>2
<1>2. CASE asm = "jeq"
  <2>1. Taken(n, JumpTo("jeq", label)) <=> JumpTaken(n, "JEQ")
    BY AsmCodes, TakenIs DEF JumpNames
  <2>2. JumpTaken(n, "JEQ") <=> Asks("jeq", e, l, a)
    BY EachTaken, AsksIs DEF FlagsAre
  <2> QED BY <1>2, <2>1, <2>2
<1>3. CASE asm = "jne"
  <2>1. Taken(n, JumpTo("jne", label)) <=> JumpTaken(n, "JNE")
    BY AsmCodes, TakenIs DEF JumpNames
  <2>2. JumpTaken(n, "JNE") <=> Asks("jne", e, l, a)
    BY EachTaken, AsksIs DEF FlagsAre
  <2> QED BY <1>3, <2>1, <2>2
<1>4. CASE asm = "jl"
  <2>1. Taken(n, JumpTo("jl", label)) <=> JumpTaken(n, "JL")
    BY AsmCodes, TakenIs DEF JumpNames
  <2>2. JumpTaken(n, "JL") <=> Asks("jl", e, l, a)
    BY EachTaken, AsksIs DEF FlagsAre
  <2> QED BY <1>4, <2>1, <2>2
<1>5. CASE asm = "jhe"
  <2>1. Taken(n, JumpTo("jhe", label)) <=> JumpTaken(n, "JHE")
    BY AsmCodes, TakenIs DEF JumpNames
  <2>2. JumpTaken(n, "JHE") <=> Asks("jhe", e, l, a)
    BY EachTaken, AsksIs DEF FlagsAre
  <2> QED BY <1>5, <2>1, <2>2
<1>6. CASE asm = "jle"
  <2>1. Taken(n, JumpTo("jle", label)) <=> JumpTaken(n, "JLE")
    BY AsmCodes, TakenIs DEF JumpNames
  <2>2. JumpTaken(n, "JLE") <=> Asks("jle", e, l, a)
    BY EachTaken, AsksIs DEF FlagsAre
  <2> QED BY <1>6, <2>1, <2>2
<1>7. CASE asm = "jh"
  <2>1. Taken(n, JumpTo("jh", label)) <=> JumpTaken(n, "JH")
    BY AsmCodes, TakenIs DEF JumpNames
  <2>2. JumpTaken(n, "JH") <=> Asks("jh", e, l, a)
    BY EachTaken, AsksIs DEF FlagsAre
  <2> QED BY <1>7, <2>1, <2>2
<1>8. CASE asm = "jlt"
  <2>1. Taken(n, JumpTo("jlt", label)) <=> JumpTaken(n, "JLT")
    BY AsmCodes, TakenIs DEF JumpNames
  <2>2. JumpTaken(n, "JLT") <=> Asks("jlt", e, l, a)
    BY EachTaken, AsksIs DEF FlagsAre
  <2> QED BY <1>8, <2>1, <2>2
<1>9. CASE asm = "jgt"
  <2>1. Taken(n, JumpTo("jgt", label)) <=> JumpTaken(n, "JGT")
    BY AsmCodes, TakenIs DEF JumpNames
  <2>2. JumpTaken(n, "JGT") <=> Asks("jgt", e, l, a)
    BY EachTaken, AsksIs DEF FlagsAre
  <2> QED BY <1>9, <2>1, <2>2
<1> QED BY <1>1, <1>2, <1>3, <1>4, <1>5, <1>6, <1>7, <1>8, <1>9 DEF AsmJumps

LEMMA OneItemLeads ==
  ASSUME NEW n, NEW a, NEW name
  PROVE  /\ Leads(n, <<JumpTo(name, "l0")>>) <=> Taken(n, JumpTo(name, "l0"))
         /\ Leads(n, <<LongWay>>)
<1>1. /\ Goes(n, JumpTo(name, "l0")) <=> Taken(n, JumpTo(name, "l0"))
      /\ JumpTo(name, "l0").label = "l0"
      /\ Goes(n, LongWay) /\ LongWay.label = "l0"
  BY DEF Goes, JumpTo, LongWay, BranchTo
<1>2. ASSUME NEW item, item.label = "l0" PROVE Leads(n, <<item>>) <=> Goes(n, item)
  BY <1>2 DEF Leads
<1> QED BY <1>1, <1>2

LEMMA TwoItemsLead ==
  ASSUME NEW n, NEW a, NEW b, a.label = "l0", b.label = "l0"
  PROVE  Leads(n, <<a, b>>) <=> Goes(n, a) \/ Goes(n, b)
<1>1. ASSUME Goes(n, a) PROVE Leads(n, <<a, b>>)
  BY <1>1 DEF Leads
<1>2. ASSUME ~Goes(n, a), Goes(n, b) PROVE Leads(n, <<a, b>>)
  <2>1. \A j \in 1 .. 2 - 1 : ~Goes(n, <<a, b>>[j])
    BY <1>2
  <2> QED BY <1>2, <2>1 DEF Leads
<1>3. ASSUME Leads(n, <<a, b>>) PROVE Goes(n, a) \/ Goes(n, b)
  BY <1>3 DEF Leads
<1> QED BY <1>1, <1>2, <1>3

LEMMA LongItemsLead ==
  ASSUME NEW n, NEW a, NEW b, a.label = "JMP", b.label = "JMP"
  PROVE  /\ Leads(n, <<a, LongWay, Label("JMP")>>) <=> ~Goes(n, a)
         /\ Leads(n, <<a, b, LongWay, Label("JMP")>>) <=> ~Goes(n, a) /\ ~Goes(n, b)
<1>1. /\ Goes(n, LongWay) /\ LongWay.label = "l0"
      /\ ~Goes(n, Label("JMP"))
  BY DEF Goes, LongWay, BranchTo, Label
<1>2. PICK w, l : w = LongWay /\ l = Label("JMP")
  OBVIOUS
<1>3. Leads(n, <<a, w, l>>) <=> ~Goes(n, a)
  <2>1. ASSUME ~Goes(n, a) PROVE Leads(n, <<a, w, l>>)
    <3>1. \A j \in 1 .. 2 - 1 : ~Goes(n, <<a, w, l>>[j])
      BY <2>1
    <3> QED BY <1>1, <1>2, <3>1 DEF Leads
  <2>2. ASSUME Goes(n, a), Leads(n, <<a, w, l>>) PROVE FALSE
    <3>1. PICK k \in 1 .. 3 :
            /\ Goes(n, <<a, w, l>>[k]) /\ <<a, w, l>>[k].label = "l0"
            /\ \A j \in 1 .. k - 1 : ~Goes(n, <<a, w, l>>[j])
      BY <2>2 DEF Leads
    <3>2. k = 1
      <4>1. k # 1 => 1 \in 1 .. k - 1
        BY <3>1
      <4> QED BY <2>2, <3>1, <4>1
    <3> QED BY <3>1, <3>2
  <2> QED BY <2>1, <2>2
<1>4. Leads(n, <<a, b, w, l>>) <=> ~Goes(n, a) /\ ~Goes(n, b)
  <2>1. ASSUME ~Goes(n, a), ~Goes(n, b) PROVE Leads(n, <<a, b, w, l>>)
    <3>1. \A j \in 1 .. 3 - 1 : ~Goes(n, <<a, b, w, l>>[j])
      BY <2>1
    <3> QED BY <1>1, <1>2, <3>1 DEF Leads
  <2>2. ASSUME Goes(n, a) \/ Goes(n, b), Leads(n, <<a, b, w, l>>) PROVE FALSE
    <3>1. PICK k \in 1 .. 4 :
            /\ Goes(n, <<a, b, w, l>>[k]) /\ <<a, b, w, l>>[k].label = "l0"
            /\ \A j \in 1 .. k - 1 : ~Goes(n, <<a, b, w, l>>[j])
      BY <2>2 DEF Leads
    <3>2. k \in {1, 2}
      <4>1. k \notin {1, 2} => 1 \in 1 .. k - 1 /\ 2 \in 1 .. k - 1
        BY <3>1
      <4> QED BY <2>2, <3>1, <4>1
    <3> QED BY <3>1, <3>2
  <2> QED BY <2>1, <2>2
<1> QED BY <1>2, <1>3, <1>4

(* A pattern is right when each of its forms goes to l0 exactly on the     *)
(* condition wanted.                                                       *)
First(name) == IF name = "LE" THEN "jlt" ELSE "jgt"

Right(p, e, l, a, want) ==
  /\ p.near = 2 => p.pos \in AsmJumps /\ (Asks(p.pos, e, l, a) <=> want)
  /\ p.near = 4 => (Asks(First(p.pos), e, l, a) \/ e <=> want)
  /\ p.far = 6 => p.neg \in AsmJumps /\ (Asks(p.neg, e, l, a) <=> ~want)
  /\ p.far = 8 => (Asks(First(p.neg), e, l, a) \/ e <=> ~want)

(* What the flags of x and y say about them. *)
Says(rel, e, l, a) ==
  CASE rel = "eq" -> e
    [] rel = "ne" -> ~e
    [] rel = "ltu" -> ~l /\ ~e
    [] rel = "leu" -> ~l \/ e
    [] rel = "gtu" -> l /\ ~e
    [] rel = "geu" -> l \/ e
    [] rel = "lt" -> ~a /\ ~e
    [] rel = "le" -> ~a \/ e
    [] rel = "gt" -> a /\ ~e
    [] rel = "ge" -> a \/ e

LEMMA SaysIs ==
  ASSUME NEW e \in BOOLEAN, NEW l \in BOOLEAN, NEW a \in BOOLEAN
  PROVE  /\ Says("eq", e, l, a) <=> e
         /\ Says("ne", e, l, a) <=> ~e
         /\ Says("ltu", e, l, a) <=> ~l /\ ~e
         /\ Says("leu", e, l, a) <=> ~l \/ e
         /\ Says("gtu", e, l, a) <=> l /\ ~e
         /\ Says("geu", e, l, a) <=> l \/ e
         /\ Says("lt", e, l, a) <=> ~a /\ ~e
         /\ Says("le", e, l, a) <=> ~a \/ e
         /\ Says("gt", e, l, a) <=> a /\ ~e
         /\ Says("ge", e, l, a) <=> a \/ e
BY DEF Says

LEMMA RightSimple ==
  ASSUME NEW pos \in AsmJumps, NEW neg \in AsmJumps, NEW e, NEW l, NEW a, NEW want,
         Asks(pos, e, l, a) <=> want, Asks(neg, e, l, a) <=> ~want
  PROVE  Right(Pattern(pos, neg, 6, 2), e, l, a, want)
BY DEF Right, Pattern

LEMMA RightTwoNear ==
  ASSUME NEW pos, NEW neg \in AsmJumps, NEW e, NEW l, NEW a, NEW want,
         Asks(First(pos), e, l, a) \/ e <=> want, Asks(neg, e, l, a) <=> ~want
  PROVE  Right(Pattern(pos, neg, 6, 4), e, l, a, want)
BY DEF Right, Pattern

LEMMA RightTwoFar ==
  ASSUME NEW pos \in AsmJumps, NEW neg, NEW e, NEW l, NEW a, NEW want,
         Asks(pos, e, l, a) <=> want, Asks(First(neg), e, l, a) \/ e <=> ~want
  PROVE  Right(Pattern(pos, neg, 8, 2), e, l, a, want)
BY DEF Right, Pattern

LEMMA PatternsAre ==
  ASSUME NEW rel, NEW reversed
  PROVE  /\ rel \in {"eq", "ne"} =>
              BranchPattern(rel, reversed) = EqualityPatterns[rel][IF reversed THEN 2 ELSE 1]
         /\ rel \in {"ltu", "leu", "gtu", "geu"} =>
              BranchPattern(rel, reversed) = UnsignedPatterns[rel][IF reversed THEN 2 ELSE 1]
         /\ rel \in {"lt", "le", "gt", "ge"} =>
              BranchPattern(rel, reversed) = SignedPatterns[rel][IF reversed THEN 2 ELSE 1]
<1>1. /\ DOMAIN EqualityPatterns = {"eq", "ne"}
      /\ DOMAIN UnsignedPatterns = {"ltu", "leu", "gtu", "geu"}
      /\ DOMAIN SignedPatterns = {"lt", "le", "gt", "ge"}
  BY DEF EqualityPatterns, UnsignedPatterns, SignedPatterns
<1>2. ASSUME rel \in {"eq", "ne"}
      PROVE  BranchPattern(rel, reversed) = EqualityPatterns[rel][IF reversed THEN 2 ELSE 1]
  <2>1. rel \in DOMAIN EqualityPatterns /\ rel \notin DOMAIN UnsignedPatterns /\ rel \notin DOMAIN SignedPatterns
    BY <1>1, <1>2
  <2> QED BY <2>1 DEF BranchPattern
<1>3. ASSUME rel \in {"ltu", "leu", "gtu", "geu"}
      PROVE  BranchPattern(rel, reversed) = UnsignedPatterns[rel][IF reversed THEN 2 ELSE 1]
  <2>1. rel \notin DOMAIN EqualityPatterns /\ rel \in DOMAIN UnsignedPatterns /\ rel \notin DOMAIN SignedPatterns
    BY <1>1, <1>3
  <2> QED BY <2>1 DEF BranchPattern
<1>4. ASSUME rel \in {"lt", "le", "gt", "ge"}
      PROVE  BranchPattern(rel, reversed) = SignedPatterns[rel][IF reversed THEN 2 ELSE 1]
  <2>1. rel \notin DOMAIN EqualityPatterns /\ rel \notin DOMAIN UnsignedPatterns /\ rel \in DOMAIN SignedPatterns
    BY <1>1, <1>4
  <2> QED BY <2>1 DEF BranchPattern
<1> QED BY <1>2, <1>3, <1>4

LEMMA PatternOf ==
  ASSUME NEW rel, NEW reversed \in BOOLEAN, NEW p, NEW q
  PROVE  /\ rel \in {"eq", "ne"} /\ EqualityPatterns[rel] = <<p, q>> =>
              BranchPattern(rel, reversed) = IF reversed THEN q ELSE p
         /\ rel \in {"ltu", "leu", "gtu", "geu"} /\ UnsignedPatterns[rel] = <<p, q>> =>
              BranchPattern(rel, reversed) = IF reversed THEN q ELSE p
         /\ rel \in {"lt", "le", "gt", "ge"} /\ SignedPatterns[rel] = <<p, q>> =>
              BranchPattern(rel, reversed) = IF reversed THEN q ELSE p
<1>1. PICK k : k = IF reversed THEN 2 ELSE 1
  OBVIOUS
<1>2. <<p, q>>[k] = IF reversed THEN q ELSE p
  BY <1>1
<1>3. /\ rel \in {"eq", "ne"} => BranchPattern(rel, reversed) = EqualityPatterns[rel][k]
      /\ rel \in {"ltu", "leu", "gtu", "geu"} => BranchPattern(rel, reversed) = UnsignedPatterns[rel][k]
      /\ rel \in {"lt", "le", "gt", "ge"} => BranchPattern(rel, reversed) = SignedPatterns[rel][k]
  BY <1>1, PatternsAre
<1> QED BY ONLY <1>2, <1>3

LEMMA PatternRight ==
  ASSUME NEW rel \in Relations, NEW reversed \in BOOLEAN,
         NEW e \in BOOLEAN, NEW l \in BOOLEAN, NEW a \in BOOLEAN,
         NEW want \in BOOLEAN, want <=> (Says(rel, e, l, a) <=> ~reversed)
  PROVE  Right(BranchPattern(rel, reversed), e, l, a, want)
<1>1. /\ "jeq" \in AsmJumps /\ "jne" \in AsmJumps /\ "jl" \in AsmJumps /\ "jhe" \in AsmJumps
      /\ "jle" \in AsmJumps /\ "jh" \in AsmJumps /\ "jlt" \in AsmJumps /\ "jgt" \in AsmJumps
  BY DEF AsmJumps
<1>2. /\ Asks(First("LE"), e, l, a) <=> ~a /\ ~e
      /\ Asks(First("GE"), e, l, a) <=> a /\ ~e
  BY AsksIs DEF First
<1>3. CASE rel = "eq"
  <2>1. PICK p, q : p = Pattern("jeq", "jne", 6, 2) /\ q = Pattern("jne", "jeq", 6, 2)
    OBVIOUS
  <2>2. EqualityPatterns["eq"] = <<p, q>>
    BY <2>1 DEF EqualityPatterns
  <2>3. BranchPattern(rel, reversed) = IF reversed THEN q ELSE p
    BY <1>3, <2>2, PatternOf
  <2>4. want <=> ((e) <=> ~reversed)
    BY <1>3, SaysIs
  <2>5. CASE reversed
    <3>1. (Asks("jne", e, l, a) <=> want) /\ (Asks("jeq", e, l, a) <=> ~want)
      BY <1>2, <2>4, <2>5, AsksIs
    <3>2. Right(Pattern("jne", "jeq", 6, 2), e, l, a, want)
      BY <1>1, <3>1, RightSimple
    <3> QED BY <2>1, <2>3, <2>5, <3>2
  <2>6. CASE ~reversed
    <3>1. (Asks("jeq", e, l, a) <=> want) /\ (Asks("jne", e, l, a) <=> ~want)
      BY <1>2, <2>4, <2>6, AsksIs
    <3>2. Right(Pattern("jeq", "jne", 6, 2), e, l, a, want)
      BY <1>1, <3>1, RightSimple
    <3> QED BY <2>1, <2>3, <2>6, <3>2
  <2> QED BY <2>5, <2>6
<1>4. CASE rel = "ne"
  <2>1. PICK p, q : p = Pattern("jne", "jeq", 6, 2) /\ q = Pattern("jeq", "jne", 6, 2)
    OBVIOUS
  <2>2. EqualityPatterns["ne"] = <<p, q>>
    BY <2>1 DEF EqualityPatterns
  <2>3. BranchPattern(rel, reversed) = IF reversed THEN q ELSE p
    BY <1>4, <2>2, PatternOf
  <2>4. want <=> ((~e) <=> ~reversed)
    BY <1>4, SaysIs
  <2>5. CASE reversed
    <3>1. (Asks("jeq", e, l, a) <=> want) /\ (Asks("jne", e, l, a) <=> ~want)
      BY <1>2, <2>4, <2>5, AsksIs
    <3>2. Right(Pattern("jeq", "jne", 6, 2), e, l, a, want)
      BY <1>1, <3>1, RightSimple
    <3> QED BY <2>1, <2>3, <2>5, <3>2
  <2>6. CASE ~reversed
    <3>1. (Asks("jne", e, l, a) <=> want) /\ (Asks("jeq", e, l, a) <=> ~want)
      BY <1>2, <2>4, <2>6, AsksIs
    <3>2. Right(Pattern("jne", "jeq", 6, 2), e, l, a, want)
      BY <1>1, <3>1, RightSimple
    <3> QED BY <2>1, <2>3, <2>6, <3>2
  <2> QED BY <2>5, <2>6
<1>5. CASE rel = "ltu"
  <2>1. PICK p, q : p = Pattern("jl", "jhe", 6, 2) /\ q = Pattern("jhe", "jl", 6, 2)
    OBVIOUS
  <2>2. UnsignedPatterns["ltu"] = <<p, q>>
    BY <2>1 DEF UnsignedPatterns
  <2>3. BranchPattern(rel, reversed) = IF reversed THEN q ELSE p
    BY <1>5, <2>2, PatternOf
  <2>4. want <=> ((~l /\ ~e) <=> ~reversed)
    BY <1>5, SaysIs
  <2>5. CASE reversed
    <3>1. (Asks("jhe", e, l, a) <=> want) /\ (Asks("jl", e, l, a) <=> ~want)
      BY <1>2, <2>4, <2>5, AsksIs
    <3>2. Right(Pattern("jhe", "jl", 6, 2), e, l, a, want)
      BY <1>1, <3>1, RightSimple
    <3> QED BY <2>1, <2>3, <2>5, <3>2
  <2>6. CASE ~reversed
    <3>1. (Asks("jl", e, l, a) <=> want) /\ (Asks("jhe", e, l, a) <=> ~want)
      BY <1>2, <2>4, <2>6, AsksIs
    <3>2. Right(Pattern("jl", "jhe", 6, 2), e, l, a, want)
      BY <1>1, <3>1, RightSimple
    <3> QED BY <2>1, <2>3, <2>6, <3>2
  <2> QED BY <2>5, <2>6
<1>6. CASE rel = "leu"
  <2>1. PICK p, q : p = Pattern("jle", "jh", 6, 2) /\ q = Pattern("jh", "jle", 6, 2)
    OBVIOUS
  <2>2. UnsignedPatterns["leu"] = <<p, q>>
    BY <2>1 DEF UnsignedPatterns
  <2>3. BranchPattern(rel, reversed) = IF reversed THEN q ELSE p
    BY <1>6, <2>2, PatternOf
  <2>4. want <=> ((~l \/ e) <=> ~reversed)
    BY <1>6, SaysIs
  <2>5. CASE reversed
    <3>1. (Asks("jh", e, l, a) <=> want) /\ (Asks("jle", e, l, a) <=> ~want)
      BY <1>2, <2>4, <2>5, AsksIs
    <3>2. Right(Pattern("jh", "jle", 6, 2), e, l, a, want)
      BY <1>1, <3>1, RightSimple
    <3> QED BY <2>1, <2>3, <2>5, <3>2
  <2>6. CASE ~reversed
    <3>1. (Asks("jle", e, l, a) <=> want) /\ (Asks("jh", e, l, a) <=> ~want)
      BY <1>2, <2>4, <2>6, AsksIs
    <3>2. Right(Pattern("jle", "jh", 6, 2), e, l, a, want)
      BY <1>1, <3>1, RightSimple
    <3> QED BY <2>1, <2>3, <2>6, <3>2
  <2> QED BY <2>5, <2>6
<1>7. CASE rel = "gtu"
  <2>1. PICK p, q : p = Pattern("jh", "jle", 6, 2) /\ q = Pattern("jle", "jh", 6, 2)
    OBVIOUS
  <2>2. UnsignedPatterns["gtu"] = <<p, q>>
    BY <2>1 DEF UnsignedPatterns
  <2>3. BranchPattern(rel, reversed) = IF reversed THEN q ELSE p
    BY <1>7, <2>2, PatternOf
  <2>4. want <=> ((l /\ ~e) <=> ~reversed)
    BY <1>7, SaysIs
  <2>5. CASE reversed
    <3>1. (Asks("jle", e, l, a) <=> want) /\ (Asks("jh", e, l, a) <=> ~want)
      BY <1>2, <2>4, <2>5, AsksIs
    <3>2. Right(Pattern("jle", "jh", 6, 2), e, l, a, want)
      BY <1>1, <3>1, RightSimple
    <3> QED BY <2>1, <2>3, <2>5, <3>2
  <2>6. CASE ~reversed
    <3>1. (Asks("jh", e, l, a) <=> want) /\ (Asks("jle", e, l, a) <=> ~want)
      BY <1>2, <2>4, <2>6, AsksIs
    <3>2. Right(Pattern("jh", "jle", 6, 2), e, l, a, want)
      BY <1>1, <3>1, RightSimple
    <3> QED BY <2>1, <2>3, <2>6, <3>2
  <2> QED BY <2>5, <2>6
<1>8. CASE rel = "geu"
  <2>1. PICK p, q : p = Pattern("jhe", "jl", 6, 2) /\ q = Pattern("jl", "jhe", 6, 2)
    OBVIOUS
  <2>2. UnsignedPatterns["geu"] = <<p, q>>
    BY <2>1 DEF UnsignedPatterns
  <2>3. BranchPattern(rel, reversed) = IF reversed THEN q ELSE p
    BY <1>8, <2>2, PatternOf
  <2>4. want <=> ((l \/ e) <=> ~reversed)
    BY <1>8, SaysIs
  <2>5. CASE reversed
    <3>1. (Asks("jl", e, l, a) <=> want) /\ (Asks("jhe", e, l, a) <=> ~want)
      BY <1>2, <2>4, <2>5, AsksIs
    <3>2. Right(Pattern("jl", "jhe", 6, 2), e, l, a, want)
      BY <1>1, <3>1, RightSimple
    <3> QED BY <2>1, <2>3, <2>5, <3>2
  <2>6. CASE ~reversed
    <3>1. (Asks("jhe", e, l, a) <=> want) /\ (Asks("jl", e, l, a) <=> ~want)
      BY <1>2, <2>4, <2>6, AsksIs
    <3>2. Right(Pattern("jhe", "jl", 6, 2), e, l, a, want)
      BY <1>1, <3>1, RightSimple
    <3> QED BY <2>1, <2>3, <2>6, <3>2
  <2> QED BY <2>5, <2>6
<1>9. CASE rel = "lt"
  <2>1. PICK p, q : p = Pattern("jlt", "GE", 8, 2) /\ q = Pattern("GE", "jlt", 6, 4)
    OBVIOUS
  <2>2. SignedPatterns["lt"] = <<p, q>>
    BY <2>1 DEF SignedPatterns
  <2>3. BranchPattern(rel, reversed) = IF reversed THEN q ELSE p
    BY <1>9, <2>2, PatternOf
  <2>4. want <=> ((~a /\ ~e) <=> ~reversed)
    BY <1>9, SaysIs
  <2>5. CASE reversed
    <3>1. (Asks(First("GE"), e, l, a) \/ e <=> want) /\ (Asks("jlt", e, l, a) <=> ~want)
      BY <1>2, <2>4, <2>5, AsksIs
    <3>2. Right(Pattern("GE", "jlt", 6, 4), e, l, a, want)
      BY <1>1, <3>1, RightTwoNear
    <3> QED BY <2>1, <2>3, <2>5, <3>2
  <2>6. CASE ~reversed
    <3>1. (Asks("jlt", e, l, a) <=> want) /\ (Asks(First("GE"), e, l, a) \/ e <=> ~want)
      BY <1>2, <2>4, <2>6, AsksIs
    <3>2. Right(Pattern("jlt", "GE", 8, 2), e, l, a, want)
      BY <1>1, <3>1, RightTwoFar
    <3> QED BY <2>1, <2>3, <2>6, <3>2
  <2> QED BY <2>5, <2>6
<1>10. CASE rel = "le"
  <2>1. PICK p, q : p = Pattern("LE", "jgt", 6, 4) /\ q = Pattern("jgt", "LE", 8, 2)
    OBVIOUS
  <2>2. SignedPatterns["le"] = <<p, q>>
    BY <2>1 DEF SignedPatterns
  <2>3. BranchPattern(rel, reversed) = IF reversed THEN q ELSE p
    BY <1>10, <2>2, PatternOf
  <2>4. want <=> ((~a \/ e) <=> ~reversed)
    BY <1>10, SaysIs
  <2>5. CASE reversed
    <3>1. (Asks("jgt", e, l, a) <=> want) /\ (Asks(First("LE"), e, l, a) \/ e <=> ~want)
      BY <1>2, <2>4, <2>5, AsksIs
    <3>2. Right(Pattern("jgt", "LE", 8, 2), e, l, a, want)
      BY <1>1, <3>1, RightTwoFar
    <3> QED BY <2>1, <2>3, <2>5, <3>2
  <2>6. CASE ~reversed
    <3>1. (Asks(First("LE"), e, l, a) \/ e <=> want) /\ (Asks("jgt", e, l, a) <=> ~want)
      BY <1>2, <2>4, <2>6, AsksIs
    <3>2. Right(Pattern("LE", "jgt", 6, 4), e, l, a, want)
      BY <1>1, <3>1, RightTwoNear
    <3> QED BY <2>1, <2>3, <2>6, <3>2
  <2> QED BY <2>5, <2>6
<1>11. CASE rel = "gt"
  <2>1. PICK p, q : p = Pattern("jgt", "LE", 8, 2) /\ q = Pattern("LE", "jgt", 6, 4)
    OBVIOUS
  <2>2. SignedPatterns["gt"] = <<p, q>>
    BY <2>1 DEF SignedPatterns
  <2>3. BranchPattern(rel, reversed) = IF reversed THEN q ELSE p
    BY <1>11, <2>2, PatternOf
  <2>4. want <=> ((a /\ ~e) <=> ~reversed)
    BY <1>11, SaysIs
  <2>5. CASE reversed
    <3>1. (Asks(First("LE"), e, l, a) \/ e <=> want) /\ (Asks("jgt", e, l, a) <=> ~want)
      BY <1>2, <2>4, <2>5, AsksIs
    <3>2. Right(Pattern("LE", "jgt", 6, 4), e, l, a, want)
      BY <1>1, <3>1, RightTwoNear
    <3> QED BY <2>1, <2>3, <2>5, <3>2
  <2>6. CASE ~reversed
    <3>1. (Asks("jgt", e, l, a) <=> want) /\ (Asks(First("LE"), e, l, a) \/ e <=> ~want)
      BY <1>2, <2>4, <2>6, AsksIs
    <3>2. Right(Pattern("jgt", "LE", 8, 2), e, l, a, want)
      BY <1>1, <3>1, RightTwoFar
    <3> QED BY <2>1, <2>3, <2>6, <3>2
  <2> QED BY <2>5, <2>6
<1>12. CASE rel = "ge"
  <2>1. PICK p, q : p = Pattern("GE", "jlt", 6, 4) /\ q = Pattern("jlt", "GE", 8, 2)
    OBVIOUS
  <2>2. SignedPatterns["ge"] = <<p, q>>
    BY <2>1 DEF SignedPatterns
  <2>3. BranchPattern(rel, reversed) = IF reversed THEN q ELSE p
    BY <1>12, <2>2, PatternOf
  <2>4. want <=> ((a \/ e) <=> ~reversed)
    BY <1>12, SaysIs
  <2>5. CASE reversed
    <3>1. (Asks("jlt", e, l, a) <=> want) /\ (Asks(First("GE"), e, l, a) \/ e <=> ~want)
      BY <1>2, <2>4, <2>5, AsksIs
    <3>2. Right(Pattern("jlt", "GE", 8, 2), e, l, a, want)
      BY <1>1, <3>1, RightTwoFar
    <3> QED BY <2>1, <2>3, <2>5, <3>2
  <2>6. CASE ~reversed
    <3>1. (Asks(First("GE"), e, l, a) \/ e <=> want) /\ (Asks("jlt", e, l, a) <=> ~want)
      BY <1>2, <2>4, <2>6, AsksIs
    <3>2. Right(Pattern("GE", "jlt", 6, 4), e, l, a, want)
      BY <1>1, <3>1, RightTwoNear
    <3> QED BY <2>1, <2>3, <2>6, <3>2
  <2> QED BY <2>5, <2>6
<1> QED BY <1>3, <1>4, <1>5, <1>6, <1>7, <1>8, <1>9, <1>10, <1>11, <1>12 DEF Relations, Signed

(* Flags about x and y say everything a relation asks.                     *)
Fitting(x, y, width) ==
  \/ width = "HI" /\ x \in Word /\ y \in Word
  \/ width = "QI" /\ x \in 0 .. 255 /\ y \in 0 .. 255

Int16Or8(v, width) == IF width = "HI" THEN Signed16(v) ELSE Signed8(v)

LEMMA HoldsAre ==
  ASSUME NEW x, NEW y, NEW width
  PROVE  /\ Holds("eq", x, y, width) <=> x = y
         /\ Holds("ne", x, y, width) <=> x # y
         /\ Holds("ltu", x, y, width) <=> x < y
         /\ Holds("leu", x, y, width) <=> x <= y
         /\ Holds("gtu", x, y, width) <=> x > y
         /\ Holds("geu", x, y, width) <=> x >= y
         /\ Holds("lt", x, y, width) <=> Int16Or8(x, width) < Int16Or8(y, width)
         /\ Holds("le", x, y, width) <=> Int16Or8(x, width) <= Int16Or8(y, width)
         /\ Holds("gt", x, y, width) <=> Int16Or8(x, width) > Int16Or8(y, width)
         /\ Holds("ge", x, y, width) <=> Int16Or8(x, width) >= Int16Or8(y, width)
         /\ Holds("always", x, y, width)
<1>1. Holds("eq", x, y, width) <=> x = y
  BY DEF Holds
<1>2. Holds("ne", x, y, width) <=> x # y
  BY DEF Holds
<1>3. Holds("ltu", x, y, width) <=> x < y
  BY DEF Holds
<1>4. Holds("leu", x, y, width) <=> x <= y
  BY DEF Holds
<1>5. Holds("gtu", x, y, width) <=> x > y
  BY DEF Holds
<1>6. Holds("geu", x, y, width) <=> x >= y
  BY DEF Holds
<1>7. Holds("lt", x, y, width) <=> Int16Or8(x, width) < Int16Or8(y, width)
  BY DEF Holds, Int16Or8
<1>8. Holds("le", x, y, width) <=> Int16Or8(x, width) <= Int16Or8(y, width)
  BY DEF Holds, Int16Or8
<1>9. Holds("gt", x, y, width) <=> Int16Or8(x, width) > Int16Or8(y, width)
  BY DEF Holds, Int16Or8
<1>10. Holds("ge", x, y, width) <=> Int16Or8(x, width) >= Int16Or8(y, width)
  BY DEF Holds, Int16Or8
<1>11. Holds("always", x, y, width)
  BY DEF Holds
<1> QED BY <1>1, <1>2, <1>3, <1>4, <1>5, <1>6, <1>7, <1>8, <1>9, <1>10, <1>11

LEMMA HoldsBoolean ==
  ASSUME NEW rel \in Relations, NEW x, NEW y, NEW width
  PROVE  Holds(rel, x, y, width) \in BOOLEAN
<1>1. Holds("eq", x, y, width) \in BOOLEAN
  <2>1. Holds("eq", x, y, width) = (x = y)
    BY DEF Holds
  <2>2. (x = y) \in BOOLEAN
    OBVIOUS
  <2> QED BY <2>1, <2>2, Zenon
<1>2. Holds("ne", x, y, width) \in BOOLEAN
  <2>1. Holds("ne", x, y, width) = (x # y)
    BY DEF Holds
  <2>2. (x # y) \in BOOLEAN
    OBVIOUS
  <2> QED BY <2>1, <2>2, Zenon
<1>3. Holds("ltu", x, y, width) \in BOOLEAN
  <2>1. Holds("ltu", x, y, width) = (x < y)
    BY DEF Holds
  <2>2. (x < y) \in BOOLEAN
    OBVIOUS
  <2> QED BY <2>1, <2>2, Zenon
<1>4. Holds("leu", x, y, width) \in BOOLEAN
  <2>1. Holds("leu", x, y, width) = (x <= y)
    BY DEF Holds
  <2>2. (x <= y) \in BOOLEAN
    OBVIOUS
  <2> QED BY <2>1, <2>2, Zenon
<1>5. Holds("gtu", x, y, width) \in BOOLEAN
  <2>1. Holds("gtu", x, y, width) = (x > y)
    BY DEF Holds
  <2>2. (x > y) \in BOOLEAN
    OBVIOUS
  <2> QED BY <2>1, <2>2, Zenon
<1>6. Holds("geu", x, y, width) \in BOOLEAN
  <2>1. Holds("geu", x, y, width) = (x >= y)
    BY DEF Holds
  <2>2. (x >= y) \in BOOLEAN
    OBVIOUS
  <2> QED BY <2>1, <2>2, Zenon
<1>7. Holds("lt", x, y, width) \in BOOLEAN
  <2>1. Holds("lt", x, y, width) = (Int16Or8(x, width) < Int16Or8(y, width))
    BY DEF Holds, Int16Or8
  <2>2. (Int16Or8(x, width) < Int16Or8(y, width)) \in BOOLEAN
    OBVIOUS
  <2> QED BY <2>1, <2>2, Zenon
<1>8. Holds("le", x, y, width) \in BOOLEAN
  <2>1. Holds("le", x, y, width) = (Int16Or8(x, width) <= Int16Or8(y, width))
    BY DEF Holds, Int16Or8
  <2>2. (Int16Or8(x, width) <= Int16Or8(y, width)) \in BOOLEAN
    OBVIOUS
  <2> QED BY <2>1, <2>2, Zenon
<1>9. Holds("gt", x, y, width) \in BOOLEAN
  <2>1. Holds("gt", x, y, width) = (Int16Or8(x, width) > Int16Or8(y, width))
    BY DEF Holds, Int16Or8
  <2>2. (Int16Or8(x, width) > Int16Or8(y, width)) \in BOOLEAN
    OBVIOUS
  <2> QED BY <2>1, <2>2, Zenon
<1>10. Holds("ge", x, y, width) \in BOOLEAN
  <2>1. Holds("ge", x, y, width) = (Int16Or8(x, width) >= Int16Or8(y, width))
    BY DEF Holds, Int16Or8
  <2>2. (Int16Or8(x, width) >= Int16Or8(y, width)) \in BOOLEAN
    OBVIOUS
  <2> QED BY <2>1, <2>2, Zenon
<1> QED
  BY <1>1, <1>2, <1>3, <1>4, <1>5, <1>6, <1>7, <1>8, <1>9, <1>10 DEF Relations, Signed

LEMMA SameWhenSigned ==
  ASSUME NEW x, NEW y, NEW width, Fitting(x, y, width)
  PROVE  /\ x \in Int /\ y \in Int
         /\ Int16Or8(x, width) \in Int /\ Int16Or8(y, width) \in Int
         /\ Int16Or8(x, width) = Int16Or8(y, width) <=> x = y
<1>1. CASE width = "HI"
  <2>1. x \in Int /\ y \in Int /\ 0 <= x /\ x < 65536 /\ 0 <= y /\ y < 65536
    BY <1>1, SMT DEF Fitting, Word
  <2>2. Int16Or8(x, width) = Signed16(x) /\ Int16Or8(y, width) = Signed16(y)
    BY <1>1 DEF Int16Or8
  <2> QED BY <2>1, <2>2, SMT DEF Signed16
<1>2. CASE width = "QI"
  <2>1. x \in 0 .. 255 /\ y \in 0 .. 255
    BY <1>2 DEF Fitting
  <2>2. x % 256 = x /\ y % 256 = y
    BY <2>1
  <2>3. Int16Or8(x, width) = Signed8(x) /\ Int16Or8(y, width) = Signed8(y)
    BY <1>2 DEF Int16Or8
  <2> QED BY <2>1, <2>2, <2>3, SMT DEF Signed8
<1> QED BY <1>1, <1>2 DEF Fitting

LEMMA RelationSaid ==
  ASSUME NEW x, NEW y, NEW width, Fitting(x, y, width),
         NEW e \in BOOLEAN, NEW l \in BOOLEAN, NEW a \in BOOLEAN,
         e <=> Holds("eq", x, y, width), l <=> Holds("gtu", x, y, width),
         a <=> Holds("gt", x, y, width), NEW rel \in Relations
  PROVE  Holds(rel, x, y, width) <=> Says(rel, e, l, a)
<1>1. PICK i \in Int, j \in Int : i = Int16Or8(x, width) /\ j = Int16Or8(y, width)
  BY SameWhenSigned
<1>2. x \in Int /\ y \in Int /\ (i = j <=> x = y)
  BY <1>1, SameWhenSigned
<1>3. (e <=> x = y) /\ (l <=> x > y) /\ (a <=> i > j)
  BY <1>1, HoldsAre
<1>4. CASE rel = "eq"
  BY <1>3, <1>4, HoldsAre, SaysIs
<1>5. CASE rel = "ne"
  BY <1>3, <1>5, HoldsAre, SaysIs
<1>6. CASE rel = "ltu"
  <2>1. Holds("ltu", x, y, width) <=> x < y
    BY HoldsAre
  <2>2. x < y <=> ~(x > y) /\ x # y
    BY <1>2
  <2> QED BY <1>3, <1>6, <2>1, <2>2, SaysIs
<1>7. CASE rel = "leu"
  <2>1. Holds("leu", x, y, width) <=> x <= y
    BY HoldsAre
  <2>2. x <= y <=> ~(x > y) \/ x = y
    BY <1>2
  <2> QED BY <1>3, <1>7, <2>1, <2>2, SaysIs
<1>8. CASE rel = "gtu"
  <2>1. Holds("gtu", x, y, width) <=> x > y
    BY HoldsAre
  <2>2. x > y <=> x > y /\ x # y
    BY <1>2
  <2> QED BY <1>3, <1>8, <2>1, <2>2, SaysIs
<1>9. CASE rel = "geu"
  <2>1. Holds("geu", x, y, width) <=> x >= y
    BY HoldsAre
  <2>2. x >= y <=> x > y \/ x = y
    BY <1>2
  <2> QED BY <1>3, <1>9, <2>1, <2>2, SaysIs
<1>10. CASE rel = "lt"
  <2>1. Holds("lt", x, y, width) <=> i < j
    BY <1>1, HoldsAre
  <2>2. i < j <=> ~(i > j) /\ x # y
    BY <1>2
  <2> QED BY <1>3, <1>10, <2>1, <2>2, SaysIs
<1>11. CASE rel = "le"
  <2>1. Holds("le", x, y, width) <=> i <= j
    BY <1>1, HoldsAre
  <2>2. i <= j <=> ~(i > j) \/ x = y
    BY <1>2
  <2> QED BY <1>3, <1>11, <2>1, <2>2, SaysIs
<1>12. CASE rel = "gt"
  <2>1. Holds("gt", x, y, width) <=> i > j
    BY <1>1, HoldsAre
  <2>2. i > j <=> i > j /\ x # y
    BY <1>2
  <2> QED BY <1>3, <1>12, <2>1, <2>2, SaysIs
<1>13. CASE rel = "ge"
  <2>1. Holds("ge", x, y, width) <=> i >= j
    BY <1>1, HoldsAre
  <2>2. i >= j <=> i > j \/ x = y
    BY <1>2
  <2> QED BY <1>3, <1>13, <2>1, <2>2, SaysIs
<1> QED
  BY <1>4, <1>5, <1>6, <1>7, <1>8, <1>9, <1>10, <1>11, <1>12, <1>13 DEF Relations, Signed

(* The jumps of a branch go to l0 exactly when the relation holds of the   *)
(* values whose flags are set.                                             *)
LEMMA BranchLeads ==
  ASSUME NEW t, IsTest(t), t.rel # "always", NEW n, NEW x, NEW y, NEW width,
         Fitting(x, y, width), FlagsSay(n, x, y, width)
  PROVE  Leads(n, Branch(t)) <=> (Holds(t.rel, x, y, width) <=> ~t.reversed)
<1>1. t.rel \in Relations /\ t.reversed \in BOOLEAN
  BY DEF IsTest
<1>2. PICK e \in BOOLEAN, l \in BOOLEAN, a \in BOOLEAN :
        /\ e <=> Holds("eq", x, y, width)
        /\ l <=> Holds("gtu", x, y, width)
        /\ a <=> Holds("gt", x, y, width)
  <2>1. (Holds("eq", x, y, width) <=> TRUE) \/ (Holds("eq", x, y, width) <=> FALSE)
    OBVIOUS
  <2>2. (Holds("gtu", x, y, width) <=> TRUE) \/ (Holds("gtu", x, y, width) <=> FALSE)
    OBVIOUS
  <2>3. (Holds("gt", x, y, width) <=> TRUE) \/ (Holds("gt", x, y, width) <=> FALSE)
    OBVIOUS
  <2> QED BY <2>1, <2>2, <2>3
<1>3. FlagsAre(n, e, l, a)
  BY <1>2 DEF FlagsSay, FlagsAre
<1>4. Holds(t.rel, x, y, width) <=> Says(t.rel, e, l, a)
  BY <1>1, <1>2, RelationSaid
<1>5. PICK want \in BOOLEAN : want <=> (Says(t.rel, e, l, a) <=> ~t.reversed)
  OBVIOUS
<1>6. PICK p : p = BranchPattern(t.rel, t.reversed)
  OBVIOUS
<1>7. Right(p, e, l, a, want)
  BY <1>1, <1>5, <1>6, PatternRight
<1>8. Lengths(p)
  BY <1>1, <1>6, PatternLengths
<1>9. Branch(t) = output_branch(p, IF TooFar(t.distance) THEN p.far ELSE p.near)
  BY <1>6 DEF Branch
<1>10. \A name \in AsmJumps, label \in {"l0", "JMP"} :
         /\ Goes(n, JumpTo(name, label)) <=> Asks(name, e, l, a)
         /\ JumpTo(name, label).label = label
  <2>1. \A name \in AsmJumps, label \in {"l0", "JMP"} :
          Taken(n, JumpTo(name, label)) <=> Asks(name, e, l, a)
    BY <1>3, AsmTaken
  <2> QED BY <2>1 DEF Goes, JumpTo
<1>11. /\ First(p.pos) \in AsmJumps /\ First(p.neg) \in AsmJumps /\ "jeq" \in AsmJumps
       /\ Asks("jeq", e, l, a) <=> e
  BY AsksIs DEF First, AsmJumps
<1>12. CASE ~TooFar(t.distance) /\ p.near = 2
  <2>1. p.pos \in AsmJumps /\ (Asks(p.pos, e, l, a) <=> want)
    BY <1>7, <1>12 DEF Right
  <2>2. Branch(t) = <<JumpTo(p.pos, "l0")>>
    BY <1>9, <1>12, OutputIs
  <2>3. Leads(n, <<JumpTo(p.pos, "l0")>>) <=> Taken(n, JumpTo(p.pos, "l0"))
    BY OneItemLeads
  <2>4. Taken(n, JumpTo(p.pos, "l0")) <=> Asks(p.pos, e, l, a)
    BY <1>3, <2>1, AsmTaken
  <2> QED BY <1>4, <1>5, <2>1, <2>2, <2>3, <2>4
<1>13. CASE ~TooFar(t.distance) /\ p.near = 4
  <2>1. Asks(First(p.pos), e, l, a) \/ e <=> want
    BY <1>7, <1>13 DEF Right
  <2>2. Branch(t) = <<JumpTo(First(p.pos), "l0"), JumpTo("jeq", "l0")>>
    BY <1>9, <1>13, OutputIs DEF First
  <2>3. Leads(n, <<JumpTo(First(p.pos), "l0"), JumpTo("jeq", "l0")>>)
          <=> Goes(n, JumpTo(First(p.pos), "l0")) \/ Goes(n, JumpTo("jeq", "l0"))
    BY <1>10, <1>11, TwoItemsLead
  <2> QED BY <1>4, <1>5, <1>10, <1>11, <2>1, <2>2, <2>3
<1>14. CASE TooFar(t.distance) /\ p.far = 6
  <2>1. p.neg \in AsmJumps /\ (Asks(p.neg, e, l, a) <=> ~want)
    BY <1>7, <1>14 DEF Right
  <2>2. Branch(t) = <<JumpTo(p.neg, "JMP"), LongWay, Label("JMP")>>
    BY <1>9, <1>14, OutputIs
  <2>3. Leads(n, <<JumpTo(p.neg, "JMP"), LongWay, Label("JMP")>>) <=> ~Goes(n, JumpTo(p.neg, "JMP"))
    BY <1>10, <2>1, LongItemsLead
  <2> QED BY <1>4, <1>5, <1>10, <2>1, <2>2, <2>3
<1>15. CASE TooFar(t.distance) /\ p.far = 8
  <2>1. Asks(First(p.neg), e, l, a) \/ e <=> ~want
    BY <1>7, <1>15 DEF Right
  <2>2. Branch(t) = <<JumpTo(First(p.neg), "JMP"), JumpTo("jeq", "JMP"), LongWay, Label("JMP")>>
    BY <1>9, <1>15, OutputIs DEF First
  <2>3. Leads(n, <<JumpTo(First(p.neg), "JMP"), JumpTo("jeq", "JMP"), LongWay, Label("JMP")>>)
          <=> ~Goes(n, JumpTo(First(p.neg), "JMP")) /\ ~Goes(n, JumpTo("jeq", "JMP"))
    BY <1>10, <1>11, LongItemsLead
  <2> QED BY <1>4, <1>5, <1>10, <1>11, <2>1, <2>2, <2>3
<1> QED BY <1>8, <1>12, <1>13, <1>14, <1>15 DEF Lengths

(* The processor behind the compare instruction, with x in R1 and y in R2  *)
(* and, for the instructions with a constant, that constant next in code.  *)
Holding(t, m) ==
  /\ IsMachine(m) /\ m.wp % 2 = 0
  /\ Reg(m, 1) = t.x /\ Reg(m, 2) = t.y
  /\ t.how \in {"cmphi_i", "cmpqi_as_hi"} =>
       ReadW(m, m.pc) = Compare(t.how, t.rel, t.y).words[2]

Compared(t, m) ==
  LET w == Compare(t.how, t.rel, t.y).words[1]
  IN  CASE t.how = "cmphi_r" -> TwoOperands(m, "C", w)
        [] t.how = "tsthi" -> TwoOperands(m, "MOV", w)
        [] t.how = "cmpqi" -> TwoOperands(m, "CB", w)
        [] t.how = "tstqi" -> TwoOperands(m, "MOVB", w)
        [] t.how \in {"cmphi_i", "cmpqi_as_hi"} -> Immediate(m, "CI", SReg(w))

LEMMA CompareCodes ==
  ASSUME NEW rel, NEW y
  PROVE  /\ Compare("cmphi_r", rel, y).words[1] = 32897
         /\ Compare("tsthi", rel, y).words[1] = 49153
         /\ Compare("cmpqi", rel, y).words[1] = 36993
         /\ Compare("tstqi", rel, y).words[1] = 53249
         /\ Compare("cmphi_i", rel, y).words = <<641, y % 65536>>
         /\ Compare("cmpqi_as_hi", rel, y).words =
              <<641, (256 * HiByte(y) + IF rel \in UpperBound THEN 255 ELSE 0) % 65536>>
<1>1. /\ instab["c"] = 32768 /\ instab["mov"] = 49152 /\ instab["cb"] = 36864
      /\ instab["movb"] = 53248 /\ instab["ci"] = 640
  BY DEF instab
<1>2. /\ Compare("cmphi_r", rel, y) = Two("c", R(1), R(2))
      /\ Compare("tsthi", rel, y) = Two("mov", R(1), R(0))
      /\ Compare("cmpqi", rel, y) = Two("cb", R(1), R(2))
      /\ Compare("tstqi", rel, y) = Two("movb", R(1), R(0))
      /\ Compare("cmphi_i", rel, y) = RegImm("ci", 1, y)
      /\ Compare("cmpqi_as_hi", rel, y) =
           RegImm("ci", 1, 256 * HiByte(y) + IF rel \in UpperBound THEN 255 ELSE 0)
  BY DEF Compare
<1>3. \A name, s, d : Two(name, R(s), R(d)).words = <<instab[name] + s + d * 64>> \o <<>> \o <<>>
  BY DEF Two, Words, R
<1>4. \A name, v : RegImm(name, 1, v).words = <<instab[name] + 1, v % 65536>>
  BY DEF RegImm, Words
<1>5. \A w \in Int : (<<w>> \o <<>> \o <<>>)[1] = w
  OBVIOUS
<1>6. /\ Two("c", R(1), R(2)).words[1] = 32897
      /\ Two("mov", R(1), R(0)).words[1] = 49153
      /\ Two("cb", R(1), R(2)).words[1] = 36993
      /\ Two("movb", R(1), R(0)).words[1] = 53249
  BY <1>1, <1>3, <1>5, SMT
<1>7. \A v : RegImm("ci", 1, v).words = <<641, v % 65536>>
  BY <1>1, <1>4, SMT
<1> QED BY ONLY <1>2, <1>6, <1>7

LEMMA RegisterOperands ==
  ASSUME NEW m, NEW op, NEW w, SMode(w) = 0, DMode(w) = 0
  PROVE  /\ op \notin ByteOps => TwoOperands(m, op, w) =
              Dual2(m, op, Reg(m, SReg(w)), RegAddr(m, DReg(w)), Reg(m, DReg(w)))
         /\ op \in ByteOps => TwoOperands(m, op, w) =
              Dual2(m, op, ReadB(m, RegAddr(m, SReg(w))), RegAddr(m, DReg(w)),
                    ReadB(m, RegAddr(m, DReg(w))))
<1>1. \A n, r, size : OperandAddr(n, 0, r) = RegAddr(n, r) /\ OperandDone(n, 0, r, size) = n
  BY DEF OperandAddr, OperandDone
<1> QED BY <1>1 DEF TwoOperands, Reg

LEMMA ByteRegister ==
  ASSUME NEW m, IsMachine(m), m.wp % 2 = 0, NEW r \in Nat
  PROVE  ReadB(m, RegAddr(m, r)) = HiByte(Reg(m, r))
<1>1. m.wp \in Nat
  BY Parts DEF Word
<1>2. RegAddr(m, r) % 2 = 0
  BY <1>1, SMT DEF RegAddr, Wrap
<1> QED BY <1>2 DEF ReadB, HiByte, Reg

LEMMA CompareFields ==
  /\ SMode(32897) = 0 /\ DMode(32897) = 0 /\ SReg(32897) = 1 /\ DReg(32897) = 2
  /\ SMode(49153) = 0 /\ DMode(49153) = 0 /\ SReg(49153) = 1 /\ DReg(49153) = 0
  /\ SMode(36993) = 0 /\ DMode(36993) = 0 /\ SReg(36993) = 1 /\ DReg(36993) = 2
  /\ SMode(53249) = 0 /\ DMode(53249) = 0 /\ SReg(53249) = 1 /\ DReg(53249) = 0
  /\ SReg(641) = 1
BY SMT DEF SMode, DMode, SReg, DReg

(* A byte compares with a constant as its register does with the constant  *)
(* above 00 or, where the bound is to be included or passed, above FF.     *)
LEMMA PeepholeRight ==
  ASSUME NEW x \in Word, NEW y \in Word, NEW rel \in Relations \ {"eq", "ne"}, NEW c,
         c = 256 * HiByte(y) + IF rel \in UpperBound THEN 255 ELSE 0
  PROVE  /\ c \in Word /\ c % 65536 = c
         /\ Holds(rel, x, c, "HI") <=> Holds(rel, HiByte(x), HiByte(y), "QI")
<1>1. PICK i \in 0 .. 255, r \in 0 .. 255 : x = 256 * i + r /\ i = HiByte(x)
  <2>1. x \in Nat /\ x < 65536
    BY SMT DEF Word
  <2>2. PICK q, s : q = x \div 256 /\ s = x % 256
    OBVIOUS
  <2>3. q \in 0 .. 255 /\ s \in 0 .. 255 /\ x = 256 * q + s
    BY <2>1, <2>2, SMT
  <2>4. q = HiByte(x)
    BY <2>2 DEF HiByte
  <2> QED BY ONLY <2>3, <2>4, Zenon
<1>2. PICK j \in 0 .. 255 : j = HiByte(y)
  <2>1. y \in Nat /\ y < 65536
    BY SMT DEF Word
  <2> QED BY <2>1, SMT DEF HiByte
<1>3. PICK k \in {0, 255} : k = IF rel \in UpperBound THEN 255 ELSE 0
  OBVIOUS
<1>4. c = 256 * j + k
  BY <1>2, <1>3
<1>5. c \in Word /\ c % 65536 = c
  BY <1>4, SMT DEF Word
<1>6. PICK p \in Int, q \in Int : p = Signed8(i) /\ q = Signed8(j)
  BY SMT DEF Signed8
<1>7. Signed16(x) = 256 * p + r /\ Signed16(c) = 256 * q + k
  <2>1. i % 256 = i /\ j % 256 = j
    OBVIOUS
  <2>2. /\ p = IF i > 127 THEN i - 256 ELSE i
        /\ q = IF j > 127 THEN j - 256 ELSE j
    BY <1>6, <2>1, SMT DEF Signed8
  <2> QED BY <1>1, <1>4, <2>2, SMT DEF Signed16
<1>8. /\ Int16Or8(x, "HI") = 256 * p + r /\ Int16Or8(c, "HI") = 256 * q + k
      /\ Int16Or8(i, "QI") = p /\ Int16Or8(j, "QI") = q
  BY <1>6, <1>7 DEF Int16Or8
<1>9. CASE rel \in {"gtu", "leu", "gt", "le"}
  <2>1. k = 255
    BY <1>3, <1>9 DEF UpperBound
  <2>2. /\ x > c <=> i > j
        /\ x <= c <=> i <= j
        /\ 256 * p + r > 256 * q + k <=> p > q
        /\ 256 * p + r <= 256 * q + k <=> p <= q
    BY <1>1, <1>4, <2>1, SMT
  <2> QED BY <1>1, <1>2, <1>5, <1>8, <1>9, <2>2, HoldsAre
<1>10. CASE rel \in {"ltu", "geu", "lt", "ge"}
  <2>1. k = 0
    BY <1>3, <1>10 DEF UpperBound
  <2>2. /\ x < c <=> i < j
        /\ x >= c <=> i >= j
        /\ 256 * p + r < 256 * q + k <=> p < q
        /\ 256 * p + r >= 256 * q + k <=> p >= q
    BY <1>1, <1>4, <2>1, SMT
  <2> QED BY <1>1, <1>2, <1>5, <1>8, <1>10, <2>2, HoldsAre
<1> QED BY <1>9, <1>10 DEF Relations, Signed

LEMMA ComparedValues ==
  ASSUME NEW t, t.how \in Comparisons
  PROVE  /\ Width(t) = IF t.how \in {"cmphi_r", "cmphi_i", "tsthi"} THEN "HI" ELSE "QI"
         /\ Value(t) = IF Width(t) = "HI" THEN t.x ELSE HiByte(t.x)
         /\ Against(t) = IF t.how \in WithZero THEN 0
                         ELSE IF Width(t) = "HI" THEN t.y ELSE HiByte(t.y)
<1>1. Width(t) = IF t.how \in {"cmphi_r", "cmphi_i", "tsthi"} THEN "HI" ELSE "QI"
  <2>1. t.how \notin WordSetters
    BY DEF Comparisons, WordSetters
  <2> QED BY <2>1 DEF Width
<1>2. Value(t) = IF Width(t) = "HI" THEN t.x ELSE HiByte(t.x)
  BY DEF Value
<1>3. Against(t) = IF t.how \in WithZero THEN 0
                   ELSE IF Width(t) = "HI" THEN t.y ELSE HiByte(t.y)
  BY DEF Against
<1> QED BY <1>1, <1>2, <1>3

LEMMA FlagsBehind ==
  ASSUME NEW t, IsTest(t), t.how \in Comparisons, NEW m, Holding(t, m),
         t.how = "cmpqi_as_hi" => t.rel \in Relations \ {"eq", "ne"}
  PROVE  \E x, y, width :
           /\ Fitting(x, y, width) /\ FlagsSay(Compared(t, m), x, y, width)
           /\ t.rel \in Relations =>
                (Holds(t.rel, x, y, width) <=> Holds(t.rel, Value(t), Against(t), Width(t)))
<1>1. t.x \in Word /\ t.y \in Word /\ IsMachine(m) /\ m.wp % 2 = 0
  BY DEF IsTest, Holding
<1>2. Reg(m, 1) = t.x /\ Reg(m, 2) = t.y
  BY DEF Holding
<1>3. HiByte(t.x) \in 0 .. 255 /\ HiByte(t.y) \in 0 .. 255
  BY <1>1, BytesOfWord DEF HiByte
<1>4. 0 \in Word /\ 0 \in 0 .. 255
  BY SMT DEF Word
<1>5. RegAddr(m, 0) \in Word
  BY <1>1, RegAddrWord
<1>6. CASE t.how = "cmphi_r"
  <2>1. Compared(t, m) = CompareWord(m, t.x, t.y)
    <3>1. Compared(t, m) = TwoOperands(m, "C", 32897)
      BY <1>6, CompareCodes DEF Compared
    <3>2. TwoOperands(m, "C", 32897) = Dual2(m, "C", Reg(m, 1), RegAddr(m, 2), Reg(m, 2))
      BY RegisterOperands, CompareFields DEF ByteOps
    <3>3. Dual2(m, "C", t.x, RegAddr(m, 2), t.y) = CompareWord(m, t.x, t.y)
      BY DEF Dual2
    <3> QED BY <1>2, <3>1, <3>2, <3>3
  <2>2. Value(t) = t.x /\ Against(t) = t.y /\ Width(t) = "HI"
    BY <1>6, ComparedValues DEF WithZero
  <2>3. Fitting(t.x, t.y, "HI") /\ FlagsSay(Compared(t, m), t.x, t.y, "HI")
    BY <1>1, <2>1, WordsCompared DEF Fitting
  <2> QED BY <2>2, <2>3
<1>7. CASE t.how = "tsthi"
  <2>1. PICK n : IsMachine(n) /\ Compared(t, m) = CompareWord(n, t.x, 0)
    <3>1. Compared(t, m) = TwoOperands(m, "MOV", 49153)
      BY <1>7, CompareCodes DEF Compared
    <3>2. TwoOperands(m, "MOV", 49153) = Dual2(m, "MOV", Reg(m, 1), RegAddr(m, 0), Reg(m, 0))
      BY RegisterOperands, CompareFields DEF ByteOps
    <3>3. \A d : Dual2(m, "MOV", t.x, RegAddr(m, 0), d) =
            CompareWord(WriteW(m, RegAddr(m, 0), t.x), t.x, 0)
      BY DEF Dual2, Store
    <3>4. IsMachine(WriteW(m, RegAddr(m, 0), t.x))
      BY <1>1, <1>5, WriteWord
    <3> QED BY <1>2, <3>1, <3>2, <3>3, <3>4
  <2>2. Value(t) = t.x /\ Against(t) = 0 /\ Width(t) = "HI"
    BY <1>7, ComparedValues DEF WithZero
  <2>3. Fitting(t.x, 0, "HI") /\ FlagsSay(Compared(t, m), t.x, 0, "HI")
    BY <1>1, <1>4, <2>1, WordsCompared DEF Fitting
  <2> QED BY <2>2, <2>3
<1>8. CASE t.how = "cmpqi"
  <2>1. Compared(t, m) = Parity(CompareByte(m, HiByte(t.x), HiByte(t.y)), HiByte(t.x))
    <3>1. Compared(t, m) = TwoOperands(m, "CB", 36993)
      BY <1>8, CompareCodes DEF Compared
    <3>2. TwoOperands(m, "CB", 36993) =
            Dual2(m, "CB", ReadB(m, RegAddr(m, 1)), RegAddr(m, 2), ReadB(m, RegAddr(m, 2)))
      BY RegisterOperands, CompareFields DEF ByteOps
    <3>3. ReadB(m, RegAddr(m, 1)) = HiByte(t.x) /\ ReadB(m, RegAddr(m, 2)) = HiByte(t.y)
      BY <1>1, <1>2, ByteRegister
    <3>4. \A s, a, d : Dual2(m, "CB", s, a, d) = Parity(CompareByte(m, s, d), s)
      BY DEF Dual2
    <3> QED BY <3>1, <3>2, <3>3, <3>4
  <2>2. Value(t) = HiByte(t.x) /\ Against(t) = HiByte(t.y) /\ Width(t) = "QI"
    BY <1>8, ComparedValues DEF WithZero
  <2>3. /\ Fitting(HiByte(t.x), HiByte(t.y), "QI")
        /\ FlagsSay(Compared(t, m), HiByte(t.x), HiByte(t.y), "QI")
    BY <1>1, <1>3, <2>1, BytesCompared DEF Fitting
  <2> QED BY <2>2, <2>3
<1>9. CASE t.how = "tstqi"
  <2>1. PICK n : /\ IsMachine(n)
                 /\ Compared(t, m) = Parity(CompareByte(n, HiByte(t.x), 0), HiByte(t.x))
    <3>1. Compared(t, m) = TwoOperands(m, "MOVB", 53249)
      BY <1>9, CompareCodes DEF Compared
    <3>2. TwoOperands(m, "MOVB", 53249) =
            Dual2(m, "MOVB", ReadB(m, RegAddr(m, 1)), RegAddr(m, 0), ReadB(m, RegAddr(m, 0)))
      BY RegisterOperands, CompareFields DEF ByteOps
    <3>3. ReadB(m, RegAddr(m, 1)) = HiByte(t.x)
      BY <1>1, <1>2, ByteRegister
    <3>4. \A s, d : Dual2(m, "MOVB", s, RegAddr(m, 0), d) =
            Parity(CompareByte(WriteB(m, RegAddr(m, 0), s), s, 0), s)
      BY DEF Dual2, StoreB
    <3>5. IsMachine(WriteB(m, RegAddr(m, 0), HiByte(t.x)))
      BY <1>1, <1>3, <1>5, WriteByte
    <3> QED BY <3>1, <3>2, <3>3, <3>4, <3>5
  <2>2. Value(t) = HiByte(t.x) /\ Against(t) = 0 /\ Width(t) = "QI"
    BY <1>9, ComparedValues DEF WithZero
  <2>3. /\ Fitting(HiByte(t.x), 0, "QI")
        /\ FlagsSay(Compared(t, m), HiByte(t.x), 0, "QI")
    BY <1>3, <1>4, <2>1, BytesCompared DEF Fitting
  <2> QED BY <2>2, <2>3
<1>10. ASSUME t.how \in {"cmphi_i", "cmpqi_as_hi"}
       PROVE  \A c : Compare(t.how, t.rel, t.y).words = <<641, c>>
                => Compared(t, m) = CompareWord(Fetched(m), t.x, c)
  <2> SUFFICES ASSUME NEW c, Compare(t.how, t.rel, t.y).words = <<641, c>>
               PROVE  Compared(t, m) = CompareWord(Fetched(m), t.x, c)
    OBVIOUS
  <2>1. Compare(t.how, t.rel, t.y).words[1] = 641 /\ Compare(t.how, t.rel, t.y).words[2] = c
    OBVIOUS
  <2>2. Compared(t, m) = Immediate(m, "CI", 1)
    BY <1>10, <2>1, CompareFields DEF Compared
  <2>3. Immediate(m, "CI", 1) = CompareWord(Fetched(m), Reg(m, 1), ReadW(m, m.pc))
    BY DEF Immediate
  <2>4. ReadW(m, m.pc) = c
    BY <1>10, <2>1 DEF Holding
  <2> QED BY <1>2, <2>2, <2>3, <2>4
<1>11. IsMachine(Fetched(m))
  BY <1>1, FetchedOK
<1>12. CASE t.how = "cmphi_i"
  <2>1. t.y % 65536 = t.y
    BY <1>1, SMT DEF Word
  <2>2. Compared(t, m) = CompareWord(Fetched(m), t.x, t.y)
    BY <1>10, <1>12, <2>1, CompareCodes
  <2>3. Value(t) = t.x /\ Against(t) = t.y /\ Width(t) = "HI"
    BY <1>12, ComparedValues DEF WithZero
  <2>4. Fitting(t.x, t.y, "HI") /\ FlagsSay(Compared(t, m), t.x, t.y, "HI")
    BY <1>1, <1>11, <2>2, WordsCompared DEF Fitting
  <2> QED BY <2>3, <2>4
<1>13. CASE t.how = "cmpqi_as_hi"
  <2>1. PICK c : c = 256 * HiByte(t.y) + IF t.rel \in UpperBound THEN 255 ELSE 0
    OBVIOUS
  <2>2. /\ c \in Word /\ c % 65536 = c
        /\ Holds(t.rel, t.x, c, "HI") <=> Holds(t.rel, HiByte(t.x), HiByte(t.y), "QI")
    BY <1>1, <1>13, <2>1, PeepholeRight
  <2>3. Compared(t, m) = CompareWord(Fetched(m), t.x, c)
    BY <1>10, <1>13, <2>1, <2>2, CompareCodes
  <2>4. Value(t) = HiByte(t.x) /\ Against(t) = HiByte(t.y) /\ Width(t) = "QI"
    BY <1>13, ComparedValues DEF WithZero
  <2>5. Fitting(t.x, c, "HI") /\ FlagsSay(Compared(t, m), t.x, c, "HI")
    BY <1>1, <1>11, <2>2, <2>3, WordsCompared DEF Fitting
  <2> QED BY <2>2, <2>4, <2>5
<1> QED BY <1>6, <1>7, <1>8, <1>9, <1>12, <1>13 DEF Comparisons

(* For every relation, plain or reversed, near or far, every word and byte *)
(* and every compare pattern and peephole: behind the compare instruction  *)
(* the jumps of output_branch lead to the target exactly when the C        *)
(* condition holds.  The peepholes are not for eq and ne, and the pattern  *)
(* "jump" has no reversed form.                                            *)
THEOREM ComparisonsDecide ==
  \A t : IsTest(t) /\ t.how \in Comparisons
         /\ (t.rel = "always" => ~t.reversed)
         /\ (t.how = "cmpqi_as_hi" => t.rel \notin {"eq", "ne"})
    => \A m : Holding(t, m) => (Leads(Compared(t, m), Branch(t)) <=> Condition(t))
<1> SUFFICES ASSUME NEW t, IsTest(t), t.how \in Comparisons,
                    t.rel = "always" => ~t.reversed,
                    t.how = "cmpqi_as_hi" => t.rel \notin {"eq", "ne"},
                    NEW m, Holding(t, m)
             PROVE  Leads(Compared(t, m), Branch(t)) <=> Condition(t)
  OBVIOUS
<1>1. t.reversed \in BOOLEAN /\ t.rel \in Relations \cup {"always"}
  BY DEF IsTest
<1>2. CASE t.rel = "always"
  <2>1. Branch(t) = IF TooFar(t.distance) THEN <<LongWay>> ELSE <<JumpTo("jmp", "l0")>>
    BY <1>2 DEF Branch, output_jump, LongWay
  <2>2. \A n : Taken(n, JumpTo("jmp", "l0"))
    BY AsmCodes, TakenIs, EachTaken DEF JumpNames
  <2>3. Leads(Compared(t, m), Branch(t))
    BY <2>1, <2>2, OneItemLeads
  <2>4. Holds(t.rel, Value(t), Against(t), Width(t)) = TRUE
    BY <1>2 DEF Holds
  <2>5. Condition(t)
    BY <1>1, <1>2, <2>4 DEF Condition
  <2> QED BY <2>3, <2>5
<1>3. CASE t.rel # "always"
  <2>1. t.rel \in Relations
    BY <1>1, <1>3
  <2>2. PICK x, y, width :
          /\ Fitting(x, y, width) /\ FlagsSay(Compared(t, m), x, y, width)
          /\ Holds(t.rel, x, y, width) <=> Holds(t.rel, Value(t), Against(t), Width(t))
    BY <2>1, FlagsBehind
  <2>3. Leads(Compared(t, m), Branch(t)) <=> (Holds(t.rel, x, y, width) <=> ~t.reversed)
    BY <1>3, <2>2, BranchLeads
  <2>4. Condition(t) <=> (Holds(t.rel, Value(t), Against(t), Width(t)) <=> ~t.reversed)
    BY <1>1, <2>1, HoldsBoolean DEF Condition
  <2> QED BY <2>2, <2>3, <2>4
<1> QED BY <1>2, <1>3

-----------------------------------------------------------------------------
(* The code in memory: items of whole words, one behind the other.         *)

Evens == {n \in Nat : n % 2 = 0}

OpWords == {n \in Nat : n < 65281}

JumpItems == [kind : {"jump"}, op : OpWords, label : Names]

BranchItems == [kind : {"branch"}, op : OpWords, label : Names]

LabelItems == [kind : {"label"}, label : Names]

SkipItems == [kind : {"skip"}, bytes : Evens]

WordItem == Plain \cup JumpItems \cup BranchItems \cup LabelItems \cup SkipItems

LEMMA WordItemIs ==
  ASSUME NEW item \in WordItem
  PROVE  item \in Item /\ Size(item) \in Evens
<1>1. CASE item \in Plain
  <2>1. item.kind = "words" /\ item.words \in Seq(Word) /\ item \in [kind : {"words"}, words : Seq(Int)]
    BY <1>1 DEF Word, Plain
  <2>2. Size(item) = 2 * Len(item.words)
    BY <2>1 DEF Size
  <2>3. 2 * Len(item.words) \in Evens
    BY <2>1 DEF Evens
  <2> QED BY <2>1, <2>2, <2>3 DEF Item
<1>2. CASE item \in JumpItems \cup BranchItems
  <2>1. item.kind \in {"jump", "branch"}
    <3>1. item \in JumpItems => item.kind = "jump"
      BY DEF JumpItems
    <3>2. item \in BranchItems => item.kind = "branch"
      BY DEF BranchItems
    <3> QED BY <1>2, <3>1, <3>2
  <2>2. Size(item) \in {2, 4}
    BY <2>1 DEF Size
  <2>3. 2 \in Evens /\ 4 \in Evens
    BY DEF Evens
  <2>4. item \in [kind : {"jump", "branch"}, op : Int, label : Names]
    <3>0. OpWords \subseteq Int
      BY DEF OpWords
    <3>1. CASE item \in JumpItems
      BY <3>0, <3>1 DEF JumpItems
    <3>2. CASE item \in BranchItems
      BY <3>0, <3>2 DEF BranchItems
    <3> QED BY <1>2, <3>1, <3>2
  <2> QED BY <2>2, <2>3, <2>4 DEF Item
<1>3. CASE item \in LabelItems
  <2>1. item.kind = "label" /\ item \in [kind : {"label"}, label : Names]
    BY <1>3 DEF LabelItems
  <2>2. Size(item) = 0
    BY <2>1 DEF Size
  <2>3. 0 \in Evens
    BY DEF Evens
  <2> QED BY <2>1, <2>2, <2>3 DEF Item
<1>4. CASE item \in SkipItems
  <2>1. item.kind = "skip" /\ item.bytes \in Evens /\ item \in [kind : {"skip"}, bytes : Int]
    BY <1>4 DEF SkipItems, Evens
  <2>2. Size(item) = item.bytes
    BY <2>1 DEF Size
  <2> QED BY <2>1, <2>2 DEF Item
<1> QED BY <1>1, <1>2, <1>3, <1>4 DEF WordItem

LEMMA WordProgram ==
  ASSUME NEW p \in Seq(WordItem)
  PROVE  p \in Seq(Item) /\ \A k \in 1 .. Len(p) : Size(p[k]) \in Evens
BY WordItemIs

(* Items follow each other, at even distances.                             *)
LEMMA Following ==
  ASSUME NEW p \in Seq(WordItem), NEW base \in Int, NEW j \in 1 .. Len(p)
  PROVE  \A n \in Nat : j + n + 1 \in 1 .. Len(p) =>
           Layout(p, base)[j] + Size(p[j]) <= Layout(p, base)[j + n + 1]
<1> DEFINE g == Layout(p, base)
           T == {n \in Nat : j + n + 1 \in 1 .. Len(p) => g[j] + Size(p[j]) <= g[j + n + 1]}
<1>1. /\ p \in Seq(Item) /\ Len(p) \in Nat
      /\ \A k \in 1 .. Len(p) : Size(p[k]) \in Nat
  BY WordProgram DEF Evens
<1>2. /\ \A k \in 1 .. Len(p) : g[k] \in Int
      /\ \A k \in 1 .. Len(p) - 1 : g[k + 1] = g[k] + Size(p[k])
  BY <1>1, FirstAndNext
<1> HIDE DEF g
<1>3. 0 \in T
  <2>1. ASSUME j + 0 + 1 \in 1 .. Len(p) PROVE g[j + 1] = g[j] + Size(p[j])
    BY <1>1, <1>2, <2>1
  <2>2. j + 0 + 1 = j + 1
    OBVIOUS
  <2> QED BY <1>1, <1>2, <2>1, <2>2
<1>4. ASSUME NEW n \in Nat, n \in T PROVE n + 1 \in T
  <2> SUFFICES ASSUME j + (n + 1) + 1 \in 1 .. Len(p)
               PROVE  g[j] + Size(p[j]) <= g[j + (n + 1) + 1]
    OBVIOUS
  <2>1. PICK k \in 1 .. Len(p) - 1 : k = j + n + 1
    BY <1>1
  <2>2. g[j] + Size(p[j]) <= g[k]
    BY <1>4, <2>1
  <2>3. g[k + 1] = g[k] + Size(p[k]) /\ Size(p[k]) \in Nat /\ g[k] \in Int /\ g[j] \in Int
    BY <1>1, <1>2
  <2>4. j + (n + 1) + 1 = k + 1
    BY <2>1
  <2>5. g[j] + Size(p[j]) <= g[k + 1]
    BY ONLY <1>1, <2>2, <2>3
  <2> QED BY ONLY <2>4, <2>5
<1>5. \A n \in Nat : n \in T
  <2> HIDE DEF T
  <2> QED BY <1>3, <1>4, Induction
<1> QED BY <1>5 DEF g

LEMMA Ordered ==
  ASSUME NEW p \in Seq(WordItem), NEW base \in Int, NEW j \in 1 .. Len(p), NEW k \in 1 .. Len(p),
         j < k
  PROVE  Layout(p, base)[j] + Size(p[j]) <= Layout(p, base)[k]
<1>1. k - j - 1 \in Nat /\ j + (k - j - 1) + 1 = k
  OBVIOUS
<1> QED BY <1>1, Following

LEMMA WithinCode ==
  ASSUME NEW p \in Seq(WordItem), NEW base \in Int, NEW k \in 1 .. Len(p)
  PROVE  /\ Layout(p, base)[k] \in Int /\ base <= Layout(p, base)[k]
         /\ Layout(p, base)[k] + Size(p[k]) <= base + CodeSize(p)
<1> DEFINE g == Layout(p, base)
<1>1. /\ p \in Seq(Item) /\ Len(p) \in Nat /\ Len(p) > 0
      /\ \A i \in 1 .. Len(p) : Size(p[i]) \in Nat
  BY WordProgram DEF Evens
<1>2. g[1] = base /\ \A i \in 1 .. Len(p) : g[i] \in Int
  BY <1>1, FirstAndNext
<1>3. base <= g[k]
  <2>1. CASE k = 1
    BY <1>2, <2>1
  <2>2. CASE k # 1
    <3>1. 1 \in 1 .. Len(p) /\ 1 < k
      BY <1>1, <2>2
    <3>2. g[1] + Size(p[1]) <= g[k]
      BY <3>1, Ordered
    <3> HIDE DEF g
    <3> QED BY <1>1, <1>2, <3>1, <3>2
  <2> QED BY <2>1, <2>2
<1>4. PICK n \in 1 .. Len(p) : n = Len(p)
  BY <1>1
<1>5. g[n] + Size(p[n]) = base + CodeSize(p)
  <2>1. CodeSize(p) = Layout(p, 0)[n] + Size(p[n])
    BY <1>1, <1>4, CodeSizeIs
  <2>2. g[n] = base + Layout(p, 0)[n] /\ Layout(p, 0)[n] \in Int
    BY <1>1, LayoutMoves, FirstAndNext, 0 \in Int
  <2> HIDE DEF g
  <2> QED BY <1>1, <2>1, <2>2
<1>6. g[k] + Size(p[k]) <= g[n] + Size(p[n])
  <2>1. CASE k = n
    BY <1>1, <1>2, <2>1
  <2>2. CASE k # n
    <3>1. g[k] + Size(p[k]) <= g[n]
      BY <1>4, <2>2, Ordered
    <3> HIDE DEF g
    <3> QED BY <1>1, <1>2, <3>1
  <2> QED BY <2>1, <2>2
<1> QED BY <1>2, <1>3, <1>5, <1>6

IsEven(x) == x % 2 = 0

LEMMA EvenSum ==
  \A a, b \in Int : IsEven(a) /\ IsEven(b) => IsEven(a + b) /\ IsEven(a - b)
BY DEF IsEven

LEMMA EvensAre == \A n \in Evens : n \in Nat /\ n \in Int /\ IsEven(n)
BY DEF Evens, IsEven

LEMMA EvenPlaces ==
  ASSUME NEW p \in Seq(WordItem), NEW base \in Int, IsEven(base)
  PROVE  \A k \in 1 .. Len(p) : IsEven(Layout(p, base)[k])
<1> DEFINE g == Layout(p, base)
           T == {n \in Nat : n + 1 \in 1 .. Len(p) => IsEven(g[n + 1])}
<1>1. /\ p \in Seq(Item) /\ Len(p) \in Nat
      /\ \A k \in 1 .. Len(p) : Size(p[k]) \in Int /\ IsEven(Size(p[k]))
  BY WordProgram, EvensAre
<1>2. /\ Len(p) > 0 => g[1] = base
      /\ \A k \in 1 .. Len(p) : g[k] \in Int
      /\ \A k \in 1 .. Len(p) - 1 : g[k + 1] = g[k] + Size(p[k])
  BY <1>1, FirstAndNext
<1> HIDE DEF g
<1>3. 0 \in T
  BY <1>1, <1>2
<1>4. ASSUME NEW n \in Nat, n \in T PROVE n + 1 \in T
  <2> SUFFICES ASSUME (n + 1) + 1 \in 1 .. Len(p) PROVE IsEven(g[(n + 1) + 1])
    OBVIOUS
  <2>1. PICK k \in 1 .. Len(p) - 1 : k = n + 1
    BY <1>1
  <2>2. IsEven(g[k])
    BY <1>4, <2>1
  <2>3. IsEven(Size(p[k])) /\ Size(p[k]) \in Int /\ g[k] \in Int /\ g[k + 1] = g[k] + Size(p[k])
    BY <1>1, <1>2
  <2>4. IsEven(g[k + 1])
    BY ONLY <2>2, <2>3, EvenSum
  <2> QED BY <2>1, <2>4
<1>5. \A n \in Nat : n \in T
  <2> HIDE DEF T
  <2> QED BY <1>3, <1>4, Induction
<1>6. ASSUME NEW k \in 1 .. Len(p) PROVE IsEven(g[k])
  <2>1. k - 1 \in Nat /\ (k - 1) + 1 = k
    BY <1>1
  <2> QED BY <1>5, <2>1
<1> QED BY <1>6 DEF g

LEMMA EvenCode ==
  ASSUME NEW p \in Seq(WordItem)
  PROVE  CodeSize(p) \in Nat /\ IsEven(CodeSize(p))
<1>1. /\ p \in Seq(Item) /\ Len(p) \in Nat
      /\ \A k \in 1 .. Len(p) : Size(p[k]) \in Nat /\ IsEven(Size(p[k]))
  BY WordProgram, EvensAre
<1>2. IsEven(0)
  BY DEF IsEven
<1>3. CASE Len(p) = 0
  <2>1. CodeSize(p) = 0
    BY <1>1, <1>3, CodeSizeIs
  <2> QED BY <1>2, <2>1
<1>4. CASE Len(p) # 0
  <2>1. PICK n \in 1 .. Len(p) : n = Len(p)
    BY <1>1, <1>4
  <2>2. CodeSize(p) = Layout(p, 0)[n] + Size(p[n])
    BY <1>1, <1>4, <2>1, CodeSizeIs
  <2>3. IsEven(Layout(p, 0)[n])
    BY <1>2, EvenPlaces, 0 \in Int
  <2>4. Layout(p, 0)[n] \in Int /\ 0 <= Layout(p, 0)[n]
    BY WithinCode, 0 \in Int
  <2>5. PICK a \in Nat, s \in Nat : a = Layout(p, 0)[n] /\ s = Size(p[n])
    BY <1>1, <2>4
  <2>6. IsEven(a) /\ IsEven(s) /\ a \in Int /\ s \in Int
    BY <1>1, <2>3, <2>5
  <2>7. IsEven(a + s)
    BY ONLY <2>6, EvenSum
  <2> QED BY <2>2, <2>5, <2>7
<1> QED BY <1>3, <1>4

LEMMA Tuples ==
  /\ Len(<<>>) = 0 /\ DOMAIN <<>> = 1 .. 0
  /\ \A a : Len(<<a>>) = 1 /\ DOMAIN <<a>> = 1 .. 1
  /\ \A a, b : Len(<<a, b>>) = 2 /\ DOMAIN <<a, b>> = 1 .. 2
OBVIOUS

(* What an item becomes, at some address.                                  *)
LEMMA EmitIs ==
  ASSUME NEW item \in WordItem, NEW p, NEW base, NEW at
  PROVE  /\ item.kind = "words" => Emit(p, base, item, at) = item.words
         /\ item.kind \in {"label", "skip"} => Emit(p, base, item, at) = <<>>
         /\ item.kind = "branch" => Emit(p, base, item, at) = <<item.op, LabelAddr(p, base, item.label)>>
         /\ item.kind = "jump" =>
              Emit(p, base, item, at) = <<item.op + Displacement(at, LabelAddr(p, base, item.label))>>
BY DEF Emit

LEMMA KindsOf ==
  ASSUME NEW item \in WordItem
  PROVE  \/ item.kind = "words" /\ item.words \in Seq(Word)
         \/ item.kind \in {"jump", "branch"} /\ item.op \in OpWords
         \/ item.kind = "label"
         \/ item.kind = "skip" /\ item.bytes \in Evens
BY DEF WordItem, Plain, JumpItems, BranchItems, LabelItems, SkipItems

LEMMA SizeByKind ==
  ASSUME NEW item
  PROVE  /\ item.kind = "words" => Size(item) = 2 * Len(item.words)
         /\ item.kind = "jump" => Size(item) = 2
         /\ item.kind = "branch" => Size(item) = 4
         /\ item.kind = "label" => Size(item) = 0
         /\ item.kind = "skip" => Size(item) = item.bytes
BY DEF Size

LEMMA EmitLength ==
  ASSUME NEW item \in WordItem, NEW p, NEW base, NEW at
  PROVE  /\ Len(Emit(p, base, item, at)) \in Nat
         /\ DOMAIN Emit(p, base, item, at) = 1 .. Len(Emit(p, base, item, at))
         /\ 2 * Len(Emit(p, base, item, at)) <= Size(item)
<1>1. CASE item.kind = "words" /\ item.words \in Seq(Word)
  BY <1>1, EmitIs, SizeByKind
<1>2. CASE item.kind = "jump"
  <2>1. PICK a : Emit(p, base, item, at) = <<a>>
    BY <1>2, EmitIs
  <2>2. Size(item) = 2
    BY <1>2, SizeByKind
  <2> QED BY ONLY <2>1, <2>2, Tuples
<1>3. CASE item.kind = "branch"
  <2>1. PICK a, b : Emit(p, base, item, at) = <<a, b>>
    BY <1>3, EmitIs
  <2>2. Size(item) = 4
    BY <1>3, SizeByKind
  <2> QED BY ONLY <2>1, <2>2, Tuples
<1>4. CASE item.kind = "label"
  BY <1>4, EmitIs, SizeByKind
<1>5. CASE item.kind = "skip" /\ item.bytes \in Evens
  BY <1>5, EmitIs, SizeByKind DEF Evens
<1> QED BY <1>1, <1>2, <1>3, <1>4, <1>5, KindsOf

LEMMA OneWord == \A a \in Word : <<a>> \in Seq(Word)
OBVIOUS

LEMMA TwoWords == \A a, b \in Word : <<a, b>> \in Seq(Word)
OBVIOUS

LEMMA EmitWords ==
  ASSUME NEW item \in WordItem, NEW p, NEW base, NEW at \in Int,
         item.kind \in {"jump", "branch"} => LabelAddr(p, base, item.label) \in Word
  PROVE  Emit(p, base, item, at) \in Seq(Word)
<1>1. CASE item.kind = "words" /\ item.words \in Seq(Word)
  BY <1>1, EmitIs
<1>2. CASE item.kind = "jump" /\ item.op \in OpWords
  <2>1. PICK to \in Word : to = LabelAddr(p, base, item.label)
    BY <1>2
  <2>2. PICK d \in 0 .. 255 : d = Displacement(at, to)
    <3>1. to \in Int
      BY DEF Word
    <3> QED BY <3>1 DEF Displacement
  <2>3. PICK op \in OpWords : op = item.op
    BY <1>2
  <2>4. op + d \in Word
    BY ONLY op \in OpWords, d \in 0 .. 255, SMT DEF Word, OpWords
  <2>5. Emit(p, base, item, at) = <<op + d>>
    BY <1>2, <2>1, <2>2, <2>3, EmitIs
  <2> QED BY ONLY <2>4, <2>5, OneWord
<1>3. CASE item.kind = "branch" /\ item.op \in OpWords
  <2>1. item.op \in Word
    BY <1>3, SMT DEF OpWords, Word
  <2>2. LabelAddr(p, base, item.label) \in Word
    BY <1>3
  <2>3. Emit(p, base, item, at) = <<item.op, LabelAddr(p, base, item.label)>>
    BY <1>3, EmitIs
  <2> QED BY ONLY <2>1, <2>2, <2>3, TwoWords
<1>4. CASE item.kind \in {"label", "skip"}
  <2>1. Emit(p, base, item, at) = <<>>
    BY <1>4, EmitIs
  <2>2. <<>> \in Seq(Word)
    OBVIOUS
  <2> QED BY <2>1, <2>2
<1> QED BY <1>1, <1>2, <1>3, <1>4, KindsOf

(* No two items share an address.                                          *)
WordsAt(p, base, k) == Emit(p, base, p[k], Layout(p, base)[k])

Place(p, base, k, i) == Layout(p, base)[k] + 2 * (i - 1)

LEMMA EarlierPlace ==
  ASSUME NEW p \in Seq(WordItem), NEW base \in Int, NEW k \in 1 .. Len(p), NEW l \in 1 .. Len(p),
         NEW i \in DOMAIN WordsAt(p, base, k), NEW j \in DOMAIN WordsAt(p, base, l),
         k < l
  PROVE  Place(p, base, k, i) < Place(p, base, l, j)
<1>1. p[k] \in WordItem /\ p[l] \in WordItem
  OBVIOUS
<1>2. PICK a \in Int, b \in Int : a = Layout(p, base)[k] /\ b = Layout(p, base)[l]
  BY WithinCode
<1>3. PICK s \in Int : s = Size(p[k])
  BY <1>1, WordItemIs DEF Evens
<1>4. a + s <= b
  BY <1>2, <1>3, Ordered
<1>5. i \in Nat /\ 2 * i <= s
  <2>1. PICK n \in Nat : n = Len(WordsAt(p, base, k))
    BY <1>1, EmitLength DEF WordsAt
  <2>2. 2 * n <= s /\ i \in 1 .. n
    BY <1>1, <1>3, <2>1, EmitLength DEF WordsAt
  <2> QED BY <2>2
<1>6. j \in Int /\ 1 <= j
  BY <1>1, EmitLength DEF WordsAt
<1>7. a + 2 * (i - 1) < b + 2 * (j - 1)
  BY ONLY <1>4, <1>5, <1>6, a \in Int, b \in Int, s \in Int
<1> QED BY <1>2, <1>7 DEF Place

LEMMA OwnPlace ==
  ASSUME NEW p \in Seq(WordItem), NEW base \in Int, NEW k \in 1 .. Len(p), NEW l \in 1 .. Len(p),
         NEW i \in DOMAIN WordsAt(p, base, k), NEW j \in DOMAIN WordsAt(p, base, l),
         Place(p, base, k, i) = Place(p, base, l, j)
  PROVE  k = l
<1>1. k \in Int /\ l \in Int
  OBVIOUS
<1>2. PICK a \in Int, b \in Int : a = Place(p, base, k, i) /\ b = Place(p, base, l, j)
  <2>1. p[k] \in WordItem /\ p[l] \in WordItem
    OBVIOUS
  <2>2. Layout(p, base)[k] \in Int /\ Layout(p, base)[l] \in Int
    BY WithinCode
  <2>3. i \in Int /\ j \in Int
    BY <2>1, EmitLength DEF WordsAt
  <2> QED BY <2>2, <2>3 DEF Place
<1>3. k < l => a < b
  BY <1>2, EarlierPlace
<1>4. l < k => b < a
  BY <1>2, EarlierPlace
<1> QED BY <1>1, <1>2, <1>3, <1>4

LEMMA Assembled ==
  ASSUME NEW p \in Seq(WordItem), NEW base \in Int
  PROVE  /\ \A k \in 1 .. Len(p) : \A i \in DOMAIN WordsAt(p, base, k) :
              /\ Place(p, base, k, i) \in DOMAIN Assemble(p, base)
              /\ Assemble(p, base)[Place(p, base, k, i)] = WordsAt(p, base, k)[i]
         /\ \A a \in DOMAIN Assemble(p, base) :
              \E k \in 1 .. Len(p) : \E i \in DOMAIN WordsAt(p, base, k) : a = Place(p, base, k, i)
         /\ Assemble(p, base) = [a \in DOMAIN Assemble(p, base) |-> Assemble(p, base)[a]]
<1> DEFINE range(k) == Range([i \in DOMAIN WordsAt(p, base, k) |-> Place(p, base, k, i)])
           item == [a \in UNION {range(k) : k \in DOMAIN p} |-> CHOOSE k \in DOMAIN p : a \in range(k)]
           word(a) == WordsAt(p, base, item[a])[(a - Layout(p, base)[item[a]]) \div 2 + 1]
           places(k) == {Place(p, base, k, i) : i \in DOMAIN WordsAt(p, base, k)}
<1>1. Assemble(p, base) = [a \in DOMAIN item |-> word(a)]
  BY DEF Assemble, WordsAt, Place
<1>2. \A k : range(k) = places(k)
  BY DEF Range
<1>3. DOMAIN p = 1 .. Len(p)
  OBVIOUS
<1> DEFINE all == UNION {range(k) : k \in DOMAIN p}
<1>4. all = UNION {places(k) : k \in 1 .. Len(p)}
  <2> HIDE DEF range, places
  <2> QED BY <1>2, <1>3
<1>5. DOMAIN item = all /\ \A a \in all : item[a] = CHOOSE k \in DOMAIN p : a \in range(k)
  OBVIOUS
<1> HIDE DEF range, item
<1>6. ASSUME NEW k \in 1 .. Len(p), NEW i \in DOMAIN WordsAt(p, base, k)
      PROVE  /\ Place(p, base, k, i) \in all
             /\ word(Place(p, base, k, i)) = WordsAt(p, base, k)[i]
  <2> DEFINE here == Place(p, base, k, i)
  <2>1. here \in range(k) /\ here \in all
    BY <1>2, <1>3
  <2>2. PICK l \in 1 .. Len(p) : l = item[here] /\ here \in range(l)
    BY <1>3, <1>5, <2>1
  <2>3. l = k
    BY <1>2, <2>2, OwnPlace
  <2>4. (here - Layout(p, base)[k]) \div 2 + 1 = i
    <3>1. PICK a \in Int : a = Layout(p, base)[k]
      BY WithinCode
    <3>2. i \in Int
      <4>1. p[k] \in WordItem
        OBVIOUS
      <4> QED BY <4>1, EmitLength DEF WordsAt
    <3>3. PICK h \in Int : h = here /\ h = a + 2 * (i - 1)
      BY <3>1, <3>2 DEF Place
    <3>4. (h - a) \div 2 + 1 = i
      BY ONLY a \in Int, h \in Int, <3>2, <3>3
    <3> HIDE DEF here
    <3> QED BY ONLY <3>1, <3>3, <3>4
  <2> HIDE DEF here
  <2>5. word(here) = WordsAt(p, base, k)[i]
    BY ONLY <2>2, <2>3, <2>4, Zenon
  <2> QED BY <2>1, <2>5 DEF here
<1> HIDE DEF places, all, word
<1>7. DOMAIN Assemble(p, base) = all
  BY <1>1, <1>5
<1>8. \A a \in all : Assemble(p, base)[a] = word(a)
  BY <1>1, <1>5
<1>9. Assemble(p, base) = [a \in DOMAIN Assemble(p, base) |-> Assemble(p, base)[a]]
  BY <1>1
<1>10. \A k \in 1 .. Len(p) : \A i \in DOMAIN WordsAt(p, base, k) :
          /\ Place(p, base, k, i) \in DOMAIN Assemble(p, base)
          /\ Assemble(p, base)[Place(p, base, k, i)] = WordsAt(p, base, k)[i]
  BY <1>6, <1>7, <1>8
<1>11. \A a \in all :
         \E k \in 1 .. Len(p) : \E i \in DOMAIN WordsAt(p, base, k) : a = Place(p, base, k, i)
  BY <1>4 DEF places
<1> QED BY <1>7, <1>9, <1>10, <1>11

-----------------------------------------------------------------------------
(* The code of a test is made of whole words.                              *)

LEMMA WordParts ==
  /\ Plain \subseteq WordItem
  /\ \A l \in Names : Label(l) \in WordItem
  /\ \A l \in Names : \A name \in AsmJumps : JumpTo(name, l) \in WordItem
  /\ LongWay \in WordItem
  /\ \A n \in Evens : Skip(n) \in WordItem
<1>1. Plain \subseteq WordItem
  BY DEF WordItem
<1>2. \A l \in Names : Label(l) \in LabelItems
  BY DEF Label, LabelItems
<1>3. ASSUME NEW l \in Names, NEW name \in AsmJumps PROVE JumpTo(name, l) \in JumpItems
  <2>1. name \in DOMAIN instab
    BY DEF AsmJumps, instab
  <2>2. instab[name] \in OpcodeWords
    BY <2>1, Opcodes
  <2>3. OpcodeWords \subseteq OpWords
    BY SMT DEF OpcodeWords, OpWords
  <2> QED BY <2>2, <2>3 DEF JumpTo, JumpItems
<1>4. LongWay \in BranchItems
  <2>1. instab["b"] + 32 = 1120
    BY SMT DEF instab
  <2>2. 1120 \in OpWords /\ "l0" \in Names
    BY SMT DEF OpWords, Names
  <2> QED BY <2>1, <2>2 DEF LongWay, BranchTo, BranchItems
<1>5. \A n \in Evens : Skip(n) \in SkipItems
  BY DEF Skip, SkipItems
<1> QED BY <1>1, <1>2, <1>3, <1>4, <1>5 DEF WordItem

LEMMA WordStay ==
  ASSUME NEW l \in {"l0", "next"} PROVE Stay(l) \in Seq(WordItem)
<1>1. l \in Names /\ "jmp" \in AsmJumps
  BY DEF Names, AsmJumps
<1>2. PICK a \in WordItem, b \in WordItem : a = Label(l) /\ b = JumpTo("jmp", l)
  BY <1>1, WordParts
<1>3. <<a, b>> \in Seq(WordItem)
  BY Short
<1> QED BY <1>2, <1>3 DEF Stay

LEMMA WordFlags ==
  ASSUME NEW t, IsTest(t)
  PROVE  Flags(t) \in Seq(WordItem) /\ CodeSize(Flags(t)) \in Nat /\ IsEven(CodeSize(Flags(t)))
<1>1. Flags(t) \in Seq(WordItem)
  BY TestTypes, WordParts
<1> QED BY <1>1, EvenCode

LEMMA CountedEven ==
  ASSUME NEW adds \in Seq(DOMAIN Addhi3Alternatives)
  PROVE  /\ Emitted(adds) \in Seq(WordItem)
         /\ CodeSize(Counted(adds)) \in Nat /\ IsEven(CodeSize(Counted(adds)))
<1>1. Emitted(adds) \in Seq(WordItem)
  <2>1. Emitted(adds) \in Seq(Plain)
    BY AdditionsPlain
  <2> QED BY <2>1, WordParts
<1>2. ASSUME NEW k \in 1 .. Len(adds) PROVE Skip(Addhi3Alternatives[adds[k]].length) \in WordItem
  <2>1. adds[k] \in {"a_memory", "inc_memory", "ai"}
    BY DEF Addhi3Alternatives
  <2>2. Addhi3Alternatives[adds[k]].length \in {2, 4}
    BY <2>1, SMT DEF Addhi3Alternatives
  <2>3. 2 \in Evens /\ 4 \in Evens
    BY DEF Evens
  <2> QED BY <2>2, <2>3, WordParts
<1>3. Counted(adds) \in [1 .. Len(adds) -> WordItem] /\ Len(adds) \in Nat
  BY <1>2 DEF Counted
<1>4. \A n \in Nat : [1 .. n -> WordItem] \subseteq Seq(WordItem)
  OBVIOUS
<1>5. Counted(adds) \in Seq(WordItem)
  BY <1>3, <1>4
<1> QED BY <1>1, <1>5, EvenCode

LEMMA WordFill ==
  ASSUME NEW adds \in Seq(DOMAIN Addhi3Alternatives), NEW n \in Int, IsEven(n),
         CodeSize(Counted(adds)) <= n
  PROVE  CodeOf(n, adds) \in Seq(WordItem)
<1>1. PICK c \in Nat : c = CodeSize(Counted(adds)) /\ IsEven(c)
  BY CountedEven
<1>2. n - c \in Nat
  BY <1>1
<1>3. IsEven(n - c)
  BY <1>1, EvenSum
<1>4. n - c \in Evens
  BY <1>2, <1>3 DEF Evens, IsEven
<1>5. PICK s \in WordItem : s = Skip(n - c)
  BY <1>4, WordParts
<1>6. <<s>> \in Seq(WordItem)
  BY Short
<1>7. PICK e \in Seq(WordItem) : e = Emitted(adds)
  BY CountedEven
<1>8. e \o <<s>> \in Seq(WordItem)
  BY <1>6, Joined
<1> QED BY <1>1, <1>5, <1>7, <1>8 DEF CodeOf

(* What fills the distance before or behind a branch. *)
LEMMA FillBefore ==
  ASSUME NEW t, IsTest(t), Placed(t), ~(t.distance > 0)
  PROVE  \E c \in Seq(WordItem) : c \in Seq(Spaced) /\ Before(t) = Stay("l0") \o c
<1>1. PICK f \in Nat, d \in Int :
        f = CodeSize(Flags(t)) /\ d = t.distance /\ IsEven(f) /\ IsEven(d)
  BY WordFlags, TestTypes DEF Placed, IsEven
<1>2. PICK n \in Int : n = -d - 2 - f
  OBVIOUS
<1>3. IsEven(n)
  <2>1. IsEven(0) /\ IsEven(2) /\ 0 \in Int /\ 2 \in Int
    BY DEF IsEven
  <2>2. f \in Int /\ 0 - d \in Int /\ (0 - d) - 2 \in Int /\ n = ((0 - d) - 2) - f
    BY <1>2
  <2>3. IsEven(0 - d)
    BY ONLY <1>1, <2>1, d \in Int, EvenSum
  <2>4. IsEven((0 - d) - 2)
    BY ONLY <2>1, <2>2, <2>3, EvenSum
  <2> QED BY ONLY <1>1, <2>2, <2>4, EvenSum
<1>4. CodeSize(Counted(t.adds)) <= n
  BY <1>1, <1>2 DEF Placed
<1>5. PICK c \in Seq(WordItem) : c = CodeOf(n, t.adds)
  BY <1>3, <1>4, TestTypes, WordFill
<1>6. c \in Seq(Spaced)
  BY <1>5, TestTypes, CodeOfSize
<1>7. Before(t) = Stay("l0") \o c
  BY <1>1, <1>2, <1>5 DEF Before
<1> QED BY <1>6, <1>7

LEMMA FillBehind ==
  ASSUME NEW t, IsTest(t), Placed(t), t.distance > 0
  PROVE  \E c \in Seq(WordItem) : c \in Seq(Spaced) /\ After(t) = c \o Stay("l0")
<1>1. PICK d \in Int : d = t.distance /\ IsEven(d)
  BY TestTypes DEF Placed, IsEven
<1>2. PICK n \in Int : n = d - 2
  OBVIOUS
<1>3. IsEven(n)
  <2>1. IsEven(2) /\ 2 \in Int
    BY DEF IsEven
  <2> QED BY ONLY <1>1, <1>2, <2>1, d \in Int, EvenSum
<1>4. CodeSize(Counted(t.adds)) <= n
  BY <1>1, <1>2 DEF Placed
<1>5. PICK c \in Seq(WordItem) : c = CodeOf(n, t.adds)
  BY <1>3, <1>4, TestTypes, WordFill
<1>6. c \in Seq(Spaced)
  BY <1>5, TestTypes, CodeOfSize
<1>7. After(t) = c \o Stay("l0")
  BY <1>1, <1>2, <1>5 DEF After
<1> QED BY <1>6, <1>7

LEMMA WordBefore ==
  ASSUME NEW t, IsTest(t), Placed(t) PROVE Before(t) \in Seq(WordItem)
<1>1. CASE t.distance > 0
  <2>1. Before(t) = <<>> /\ <<>> \in Seq(WordItem)
    BY <1>1 DEF Before
  <2> QED BY <2>1
<1>2. CASE ~(t.distance > 0)
  <2>1. PICK c \in Seq(WordItem) : Before(t) = Stay("l0") \o c
    BY <1>2, FillBefore
  <2> QED BY <2>1, WordStay, Joined
<1> QED BY <1>1, <1>2

LEMMA WordAfter ==
  ASSUME NEW t, IsTest(t), Placed(t) PROVE After(t) \in Seq(WordItem)
<1>1. CASE ~(t.distance > 0)
  <2>1. After(t) = <<>> /\ <<>> \in Seq(WordItem)
    BY <1>1 DEF After
  <2> QED BY <2>1
<1>2. CASE t.distance > 0
  <2>1. PICK c \in Seq(WordItem) : After(t) = c \o Stay("l0")
    BY <1>2, FillBehind
  <2> QED BY <2>1, WordStay, Joined
<1> QED BY <1>1, <1>2

-----------------------------------------------------------------------------
(* The items of a branch.                                                  *)

LEMMA BranchShape ==
  ASSUME NEW t, IsTest(t)
  PROVE  \E name \in AsmJumps :
           \/ Branch(t) = <<JumpTo(name, "l0")>>
           \/ Branch(t) = <<JumpTo(name, "l0"), JumpTo("jeq", "l0")>>
           \/ Branch(t) = <<LongWay>>
           \/ Branch(t) = <<JumpTo(name, "JMP"), LongWay, Label("JMP")>>
           \/ Branch(t) = <<JumpTo(name, "JMP"), JumpTo("jeq", "JMP"), LongWay, Label("JMP")>>
<1>1. CASE t.rel = "always"
  <2>1. Branch(t) = IF TooFar(t.distance) THEN <<LongWay>> ELSE <<JumpTo("jmp", "l0")>>
    BY <1>1 DEF Branch, output_jump, LongWay
  <2>2. "jmp" \in AsmJumps
    BY DEF AsmJumps
  <2> QED BY <2>1, <2>2
<1>2. CASE t.rel # "always"
  <2>1. t.rel \in Relations /\ t.reversed \in BOOLEAN
    BY <1>2 DEF IsTest
  <2>2. PICK p : p = BranchPattern(t.rel, t.reversed)
    OBVIOUS
  <2>3. Lengths(p)
    BY <2>1, <2>2, PatternLengths
  <2>4. Branch(t) = output_branch(p, IF TooFar(t.distance) THEN p.far ELSE p.near)
    BY <1>2, <2>2 DEF Branch
  <2>5. First(p.pos) \in AsmJumps /\ First(p.neg) \in AsmJumps
    BY DEF First, AsmJumps
  <2>6. OneJumpNames \subseteq AsmJumps /\ SignedJumpNames \subseteq AsmJumps
    BY DEF OneJumpNames, SignedJumpNames, AsmJumps
  <2>7. CASE ~TooFar(t.distance) /\ p.near = 2
    <3>1. p.pos \in AsmJumps
      BY <2>3, <2>6, <2>7 DEF Lengths
    <3> QED BY <2>4, <2>7, <3>1, OutputIs
  <2>8. CASE ~TooFar(t.distance) /\ p.near = 4
    <3>1. Branch(t) = <<JumpTo(First(p.pos), "l0"), JumpTo("jeq", "l0")>>
      BY <2>4, <2>8, OutputIs DEF First
    <3> QED BY <2>5, <3>1
  <2>9. CASE TooFar(t.distance) /\ p.far = 6
    <3>1. p.neg \in AsmJumps
      BY <2>3, <2>6, <2>9 DEF Lengths
    <3> QED BY <2>4, <2>9, <3>1, OutputIs
  <2>10. CASE TooFar(t.distance) /\ p.far = 8
    <3>1. Branch(t) = <<JumpTo(First(p.neg), "JMP"), JumpTo("jeq", "JMP"), LongWay, Label("JMP")>>
      BY <2>4, <2>10, OutputIs DEF First
    <3> QED BY <2>5, <3>1
  <2> QED BY <2>3, <2>7, <2>8, <2>9, <2>10 DEF Lengths
<1> QED BY <1>1, <1>2

IsJump(item) == \E name \in AsmJumps, l \in {"l0", "JMP"} : item = JumpTo(name, l)

Shape(p) ==
  /\ p \in Seq(WordItem) /\ Len(p) > 0 /\ p[1] # Label("JMP")
  /\ \A k \in 1 .. Len(p) :
        \/ p[k] = LongWay
        \/ p[k] = Label("JMP") /\ k = Len(p)
        \/ /\ IsJump(p[k])
           /\ k < Len(p) => p[k + 1] # Label("JMP")
           /\ p[k].label = "JMP" => p[Len(p)] = Label("JMP")

LEMMA ItemKinds ==
  /\ LongWay.kind = "branch" /\ LongWay.label = "l0" /\ LongWay.op = 1120
  /\ \A l : Label(l).kind = "label"
  /\ \A name, l : JumpTo(name, l).kind = "jump" /\ JumpTo(name, l).label = l /\ JumpTo(name, l).op = instab[name]
<1>1. instab["b"] + 32 = 1120
  BY SMT DEF instab
<1>2. LongWay.kind = "branch" /\ LongWay.label = "l0" /\ LongWay.op = 1120
  BY <1>1 DEF LongWay, BranchTo
<1>3. \A l : Label(l).kind = "label"
  BY DEF Label
<1> QED BY <1>2, <1>3 DEF JumpTo

LEMMA Shapes ==
  ASSUME NEW t, IsTest(t)
  PROVE  Shape(Branch(t))
<1>1. PICK name \in AsmJumps :
        \/ Branch(t) = <<JumpTo(name, "l0")>>
        \/ Branch(t) = <<JumpTo(name, "l0"), JumpTo("jeq", "l0")>>
        \/ Branch(t) = <<LongWay>>
        \/ Branch(t) = <<JumpTo(name, "JMP"), LongWay, Label("JMP")>>
        \/ Branch(t) = <<JumpTo(name, "JMP"), JumpTo("jeq", "JMP"), LongWay, Label("JMP")>>
  BY BranchShape
<1>2. "l0" \in Names /\ "JMP" \in Names /\ "jeq" \in AsmJumps
  BY DEF Names, AsmJumps
<1>3. PICK a \in WordItem, b \in WordItem, c \in WordItem, d \in WordItem, w \in WordItem, l \in WordItem :
        /\ a = JumpTo(name, "l0") /\ b = JumpTo("jeq", "l0")
        /\ c = JumpTo(name, "JMP") /\ d = JumpTo("jeq", "JMP")
        /\ w = LongWay /\ l = Label("JMP")
  BY <1>2, WordParts
<1>4. /\ IsJump(a) /\ IsJump(b) /\ IsJump(c) /\ IsJump(d)
      /\ a.label = "l0" /\ b.label = "l0"
      /\ a # l /\ b # l /\ c # l /\ d # l /\ w # l
  <2>1. IsJump(a) /\ IsJump(b) /\ IsJump(c) /\ IsJump(d)
    BY <1>2, <1>3 DEF IsJump
  <2>2. /\ a.label = "l0" /\ b.label = "l0" /\ l.kind = "label" /\ w.kind = "branch"
        /\ a.kind = "jump" /\ b.kind = "jump" /\ c.kind = "jump" /\ d.kind = "jump"
    BY <1>3, ItemKinds
  <2> QED BY <2>1, <2>2
<1>5. ASSUME NEW p, p = <<a>> PROVE Shape(p)
  <2>1. p \in Seq(WordItem) /\ Len(p) = 1 /\ p[1] = a
    BY <1>5
  <2> QED BY <1>3, <1>4, <2>1 DEF Shape
<1>6. ASSUME NEW p, p = <<a, b>> PROVE Shape(p)
  <2>1. p \in Seq(WordItem) /\ Len(p) = 2 /\ p[1] = a /\ p[2] = b
    BY <1>6
  <2>2. \A k \in 1 .. 2 : k = 1 \/ k = 2
    OBVIOUS
  <2> QED BY <1>3, <1>4, <2>1, <2>2 DEF Shape
<1>7. ASSUME NEW p, p = <<w>> PROVE Shape(p)
  <2>1. p \in Seq(WordItem) /\ Len(p) = 1 /\ p[1] = w
    BY <1>7
  <2> QED BY <1>3, <1>4, <2>1 DEF Shape
<1>8. ASSUME NEW p, p = <<c, w, l>> PROVE Shape(p)
  <2>1. p \in Seq(WordItem) /\ Len(p) = 3 /\ p[1] = c /\ p[2] = w /\ p[3] = l
    BY <1>8
  <2>2. \A k \in 1 .. 3 : k = 1 \/ k = 2 \/ k = 3
    OBVIOUS
  <2> QED BY <1>3, <1>4, <2>1, <2>2 DEF Shape
<1>9. ASSUME NEW p, p = <<c, d, w, l>> PROVE Shape(p)
  <2>1. p \in Seq(WordItem) /\ Len(p) = 4 /\ p[1] = c /\ p[2] = d /\ p[3] = w /\ p[4] = l
    BY <1>9
  <2>2. \A k \in 1 .. 4 : k = 1 \/ k = 2 \/ k = 3 \/ k = 4
    OBVIOUS
  <2> QED BY <1>3, <1>4, <2>1, <2>2 DEF Shape
<1> QED BY <1>1, <1>3, <1>5, <1>6, <1>7, <1>8, <1>9

(* Behind the last item, and at the label JMP if there is one.             *)
LEMMA EndOfShape ==
  ASSUME NEW p, Shape(p)
  PROVE  /\ p \in Seq(Item) /\ CodeSize(p) \in Int /\ CodeSize(p) > 0
         /\ Layout(p, 0)[Len(p)] + Size(p[Len(p)]) = CodeSize(p)
         /\ p[Len(p)] = Label("JMP") => Labelled(p, "JMP", CodeSize(p))
         /\ \A k \in 1 .. Len(p) : p[k] # Label("JMP") => Layout(p, 0)[k] < CodeSize(p)
<1>1. p \in Seq(WordItem) /\ p \in Seq(Item) /\ Len(p) \in Nat /\ Len(p) > 0
  BY WordProgram DEF Shape
<1>2. PICK n \in 1 .. Len(p) : n = Len(p)
  BY <1>1
<1>3. CodeSize(p) \in Int /\ Layout(p, 0)[n] + Size(p[n]) = CodeSize(p)
  BY <1>1, <1>2, CodeSizeIs
<1>4. ASSUME NEW k \in 1 .. Len(p), p[k] # Label("JMP") PROVE Size(p[k]) > 0 /\ Size(p[k]) \in Int
  <2>1. p[k].kind \in {"branch", "jump"}
    BY <1>4, ItemKinds DEF Shape, IsJump
  <2> QED BY <2>1, SizeByKind
<1>5. ASSUME NEW k \in 1 .. Len(p), p[k] # Label("JMP") PROVE Layout(p, 0)[k] < CodeSize(p)
  <2>1. /\ Layout(p, 0)[k] \in Int
        /\ Layout(p, 0)[k] + Size(p[k]) <= 0 + CodeSize(p)
    BY <1>1, WithinCode, 0 \in Int
  <2> QED BY <1>3, <1>4, <1>5, <2>1
<1>6. CodeSize(p) > 0
  <2>1. 1 \in 1 .. Len(p) /\ p[1] # Label("JMP")
    BY <1>1 DEF Shape
  <2>2. 0 <= Layout(p, 0)[1] /\ Layout(p, 0)[1] \in Int
    BY <1>1, <2>1, WithinCode, 0 \in Int
  <2> QED BY <1>3, <1>5, <2>1, <2>2
<1>7. ASSUME p[n] = Label("JMP") PROVE Labelled(p, "JMP", CodeSize(p))
  <2>1. Size(p[n]) = 0
    BY <1>7, ItemKinds, SizeByKind
  <2>2. Layout(p, 0)[n] \in Int
    BY <1>1, WithinCode, 0 \in Int
  <2>3. Layout(p, 0)[n] = CodeSize(p)
    BY <1>3, <2>1, <2>2
  <2>4. \A k \in 1 .. Len(p) : p[k] = Label("JMP") => k = n
    BY <1>2, ItemKinds DEF Shape, IsJump
  <2> QED BY <1>7, <2>3, <2>4 DEF Labelled
<1> QED BY <1>1, <1>2, <1>3, <1>5, <1>6, <1>7

-----------------------------------------------------------------------------
(* Which item is at which address.                                         *)

Sits(code, item, addr) ==
  \E k \in 1 .. Len(code) : code[k] = item /\ Layout(code, CodeBase)[k] = addr

LEMMA CodeBaseIs == CodeBase = 24576 /\ CodeBase \in Int /\ IsEven(CodeBase)
BY SMT DEF CodeBase, IsEven

LEMMA SitsAlone ==
  ASSUME NEW p \in Seq(Item), NEW k \in 1 .. Len(p), NEW addr, addr = CodeBase + Layout(p, 0)[k]
  PROVE  Sits(p, p[k], addr)
BY CodeBaseIs, LayoutMoves DEF Sits

LEMMA SitsFirst ==
  ASSUME NEW p \in Seq(Item), NEW q \in Seq(Item), NEW item, NEW addr, Sits(p, item, addr)
  PROVE  Sits(p \o q, item, addr)
<1>1. PICK k \in 1 .. Len(p) : p[k] = item /\ Layout(p, CodeBase)[k] = addr
  BY DEF Sits
<1>2. (p \o q)[k] = item /\ Layout(p \o q, CodeBase)[k] = addr
  BY <1>1, Behind, BothLaidOut, CodeBaseIs
<1>3. k \in 1 .. Len(p \o q)
  <2>1. Len(p \o q) = Len(p) + Len(q) /\ Len(p) \in Nat /\ Len(q) \in Nat
    BY Behind
  <2> QED BY <2>1
<1> QED BY <1>2, <1>3 DEF Sits

LEMMA SitsSecond ==
  ASSUME NEW p \in Seq(Item), NEW q \in Seq(Item), NEW k \in 1 .. Len(q), NEW addr,
         addr = CodeBase + CodeSize(p) + Layout(q, 0)[k]
  PROVE  Sits(p \o q, q[k], addr)
<1>1. (p \o q)[Len(p) + k] = q[k] /\ Layout(p \o q, CodeBase)[Len(p) + k] = addr
  BY Behind, BothLaidOut, CodeBaseIs
<1>2. Len(p) + k \in 1 .. Len(p \o q)
  <2>1. Len(p \o q) = Len(p) + Len(q) /\ Len(p) \in Nat /\ Len(q) \in Nat
    BY Behind
  <2> QED BY <2>1
<1> QED BY <1>1, <1>2 DEF Sits

LEMMA StaySits ==
  ASSUME NEW l \in {"l0", "next"}
  PROVE  /\ Stay(l) \in Seq(Item) /\ Len(Stay(l)) = 2 /\ Stay(l)[2] = JumpTo("jmp", l)
         /\ Layout(Stay(l), 0)[2] = 0
<1>1. Stay(l) \in Seq(Item)
  BY StayFacts
<1>2. PICK s \in Seq(Item) : s = Stay(l)
  BY <1>1
<1>3. Len(s) = 2 /\ s[1] = Label(l) /\ s[2] = JumpTo("jmp", l)
  BY <1>2 DEF Stay
<1>4. Layout(s, 0)[2] = Size(s[1])
  <2>1. Len(s) >= 2
    BY ONLY <1>3
  <2> QED BY <2>1, Offsets
<1>5. Size(s[1]) = 0
  BY <1>3, ItemKinds, SizeByKind
<1> QED BY <1>2, <1>3, <1>4, <1>5

LEMMA FlagsSit ==
  ASSUME NEW t, IsTest(t), NEW k \in 1 .. Len(Flags(t))
  PROVE  Sits(Code(t), Flags(t)[k], Entry(t) + Layout(Flags(t), 0)[k])
<1>1. PICK p \in Seq(Item), q \in Seq(Item), r \in Seq(Item) : CodeParts(t, p, q, r)
  BY CodeIs
<1>2. PICK A \in Seq(Item) : A = Before(t)
  BY BeforeFacts
<1>3. PICK F \in Seq(Item) : F = Flags(t)
  BY TestTypes
<1>4. Sits(A \o F, F[k], Entry(t) + Layout(F, 0)[k])
  BY <1>2, <1>3, SitsSecond DEF Entry
<1>5. p = A \o F
  BY <1>1, <1>2, <1>3 DEF CodeParts
<1>6. Sits(q, F[k], Entry(t) + Layout(F, 0)[k])
  <2>1. PICK B \in Seq(Item) : B = Branch(t)
    BY BranchFacts
  <2>2. q = p \o B
    BY <1>1, <2>1 DEF CodeParts
  <2> QED BY <1>4, <1>5, <2>2, SitsFirst
<1>7. Sits(r, F[k], Entry(t) + Layout(F, 0)[k])
  <2>1. PICK S \in Seq(Item) : S = Stay("next")
    BY StayFacts
  <2>2. r = q \o S
    BY <1>1, <2>1 DEF CodeParts
  <2> QED BY <1>6, <2>2, SitsFirst
<1>8. PICK Z \in Seq(Item) : Z = After(t)
  BY AfterFacts
<1>9. Code(t) = r \o Z
  BY <1>1, <1>8 DEF CodeParts
<1> QED BY <1>3, <1>7, <1>9, SitsFirst

LEMMA BranchSits ==
  ASSUME NEW t, IsTest(t), NEW k \in 1 .. Len(Branch(t)), NEW addr,
         addr = Entry(t) + CodeSize(Flags(t)) + Layout(Branch(t), 0)[k]
  PROVE  Sits(Code(t), Branch(t)[k], addr)
<1>1. PICK a \in Int, f \in Int, b \in Int :
        a = CodeSize(Before(t)) /\ f = CodeSize(Flags(t)) /\ b = CodeSize(Branch(t))
  BY BeforeFacts, TestTypes, CodeSizeIs
<1>2. PICK p \in Seq(Item), q \in Seq(Item), r \in Seq(Item) : CodeParts(t, p, q, r) /\ CodeSize(p) = a + f
  BY <1>1, CodeIs
<1>3. PICK B \in Seq(Item) : B = Branch(t)
  BY BranchFacts
<1>4. Sits(p \o B, B[k], addr)
  <2>1. PICK g \in Int : g = Layout(B, 0)[k]
    BY <1>3, FirstAndNext, 0 \in Int
  <2>2. addr = CodeBase + CodeSize(p) + g
    BY <1>1, <1>2, <1>3, <2>1, CodeBaseIs DEF Entry
  <2> QED BY <1>3, <2>1, <2>2, SitsSecond
<1>6. q = p \o B
  BY <1>2, <1>3 DEF CodeParts
<1>7. Sits(r, B[k], addr)
  <2>1. PICK S \in Seq(Item) : S = Stay("next")
    BY StayFacts
  <2>2. r = q \o S
    BY <1>2, <2>1 DEF CodeParts
  <2> QED BY <1>4, <1>6, <2>2, SitsFirst
<1>8. PICK Z \in Seq(Item) : Z = After(t)
  BY AfterFacts
<1>9. Code(t) = r \o Z
  BY <1>2, <1>8 DEF CodeParts
<1> QED BY <1>3, <1>7, <1>9, SitsFirst

(* Each way out of the branch ends in a jump to itself.                    *)
LEMMA LoopsSit ==
  ASSUME NEW t, IsTest(t), NEW l \in {"l0", "next"}
  PROVE  Sits(Code(t), JumpTo("jmp", l), LabelAddr(Code(t), CodeBase, l))
<1>1. PICK a \in Int, f \in Int, b \in Int :
        a = CodeSize(Before(t)) /\ f = CodeSize(Flags(t)) /\ b = CodeSize(Branch(t))
  BY BeforeFacts, TestTypes, CodeSizeIs
<1>2. PICK p \in Seq(Item), q \in Seq(Item), r \in Seq(Item) :
        CodeParts(t, p, q, r) /\ CodeSize(q) = a + f + b /\ CodeSize(r) = a + f + b + 2
  BY <1>1, CodeIs
<1>3. PICK s \in Seq(Item) : s = Stay(l) /\ Len(s) = 2 /\ s[2] = JumpTo("jmp", l) /\ Layout(s, 0)[2] = 0
  BY StaySits
<1>4. PICK Z \in Seq(Item) : Z = After(t)
  BY AfterFacts
<1>5. Code(t) = r \o Z
  BY <1>2, <1>4 DEF CodeParts
<1>6. PICK at \in Int : at = a + f + b
  OBVIOUS
<1>7. 2 \in 1 .. Len(s)
  BY <1>3
<1>8. PICK d \in Int, m \in Int : d = t.distance /\ m = Miscounted(t.adds)
  BY TestTypes
<1>9. CASE l = "next"
  <2>1. LabelAddr(Code(t), CodeBase, l) = CodeBase + CodeSize(q) + 0
    BY <1>1, <1>2, <1>6, <1>9, LabelPlaces, CodeBaseIs
  <2>2. r = q \o s
    BY <1>2, <1>3, <1>9 DEF CodeParts
  <2>3. Sits(q \o s, s[2], CodeBase + CodeSize(q) + 0)
    BY <1>3, <1>7, SitsSecond
  <2> QED BY <1>3, <1>5, <2>1, <2>2, <2>3, SitsFirst
<1>10. CASE l = "l0" /\ d > 0
  <2>1. PICK n \in Int : n = d - 2
    OBVIOUS
  <2>2. PICK c : c = CodeOf(n, t.adds)
    OBVIOUS
  <2>3. c \in Seq(Spaced) /\ CodeSize(c) = n + m
    BY <1>8, <2>2, TestTypes, CodeOfSize
  <2>4. c \in Seq(Item)
    BY <2>3, PlainProgram
  <2>5. Z = c \o s
    BY <1>3, <1>4, <1>8, <1>10, <2>1, <2>2 DEF After
  <2>6. /\ Len(c) + 2 \in 1 .. Len(c \o s) /\ (c \o s)[Len(c) + 2] = s[2]
        /\ Layout(c \o s, 0)[Len(c) + 2] = 0 + CodeSize(c) + Layout(s, 0)[2]
    <3>1. Len(c \o s) = Len(c) + Len(s) /\ Len(c) \in Nat
      BY <2>4, Behind
    <3>2. Len(c) + 2 \in 1 .. Len(c \o s)
      BY ONLY <1>3, <3>1
    <3> QED BY <1>7, <2>4, <3>2, Behind, BothLaidOut, 0 \in Int
  <2>7. PICK k \in 1 .. Len(Z) : Z[k] = s[2] /\ Layout(Z, 0)[k] = n + m
    BY <1>3, <2>3, <2>5, <2>6
  <2>8. LabelAddr(Code(t), CodeBase, l) = CodeBase + (at + d + m)
    BY <1>1, <1>6, <1>8, <1>10, LabelPlaces
  <2>9. CodeBase + (at + d + m) = CodeBase + CodeSize(r) + Layout(Z, 0)[k]
    <3>1. CodeSize(r) = a + f + b + 2
      BY ONLY <1>2
    <3>2. Layout(Z, 0)[k] = n + m
      BY <2>7, Zenon
    <3>3. CodeBase \in Int
      BY CodeBaseIs
    <3> QED BY ONLY <1>6, <2>1, <3>1, <3>2, <3>3, a \in Int, f \in Int, b \in Int, d \in Int, m \in Int, n \in Int
  <2> QED BY <1>3, <1>5, <2>7, <2>8, <2>9, SitsSecond
<1>11. CASE l = "l0" /\ ~(d > 0)
  <2>1. PICK c : c = CodeOf(-d - 2 - f, t.adds)
    OBVIOUS
  <2>2. c \in Seq(Spaced)
    BY <2>1, TestTypes, CodeOfSize
  <2>3. c \in Seq(Item)
    BY <2>2, PlainProgram
  <2>4. Before(t) = s \o c
    BY <1>1, <1>3, <1>8, <1>11, <2>1 DEF Before
  <2>5. LabelAddr(Code(t), CodeBase, l) = CodeBase + 0
    <3>1. d <= 0 /\ CodeBase + 0 = CodeBase
      BY <1>11, CodeBaseIs
    <3> QED BY <1>1, <1>6, <1>8, <1>11, <3>1, LabelPlaces
  <2>6. Sits(s, s[2], CodeBase + 0)
    BY <1>3, <1>7, SitsAlone
  <2>7. Sits(s \o c, s[2], CodeBase + 0) /\ s \o c \in Seq(Item)
    BY <2>3, <2>6, SitsFirst, Behind
  <2>8. PICK F \in Seq(Item), B \in Seq(Item), S \in Seq(Item) : F = Flags(t) /\ B = Branch(t) /\ S = Stay("next")
    BY TestTypes, BranchFacts, StayFacts
  <2>9. p = (s \o c) \o F /\ q = p \o B /\ r = q \o S
    BY <1>2, <2>4, <2>8 DEF CodeParts
  <2>10. Sits(p, s[2], CodeBase + 0)
    BY <2>7, <2>9, SitsFirst
  <2>11. Sits(q, s[2], CodeBase + 0)
    BY <2>9, <2>10, SitsFirst
  <2>12. Sits(r, s[2], CodeBase + 0)
    BY <2>9, <2>11, SitsFirst
  <2> QED BY <1>3, <1>5, <2>5, <2>12, SitsFirst
<1> QED BY <1>9, <1>10, <1>11

-----------------------------------------------------------------------------
(* The code of a test lies between CodeBase and the registers.             *)

LEMMA WordCode ==
  ASSUME NEW t, IsTest(t), Placed(t)
  PROVE  Code(t) \in Seq(WordItem)
<1>1. PICK p \in Seq(Item), q \in Seq(Item), r \in Seq(Item) : CodeParts(t, p, q, r)
  BY CodeIs
<1>2. Before(t) \in Seq(WordItem) /\ Flags(t) \in Seq(WordItem) /\ After(t) \in Seq(WordItem)
  BY WordBefore, WordFlags, WordAfter
<1>3. Branch(t) \in Seq(WordItem)
  BY Shapes DEF Shape
<1>4. Stay("next") \in Seq(WordItem)
  BY WordStay
<1>5. p \in Seq(WordItem)
  BY <1>1, <1>2, Joined DEF CodeParts
<1>6. q \in Seq(WordItem)
  BY <1>1, <1>3, <1>5, Joined DEF CodeParts
<1>7. r \in Seq(WordItem)
  BY <1>1, <1>4, <1>6, Joined DEF CodeParts
<1> QED BY <1>1, <1>2, <1>7, Joined DEF CodeParts

LEMMA RegistersAre == Registers = 33536 /\ Registers \in Int /\ IsEven(Registers)
<1>1. Registers = 33536
  BY DEF Registers
<1>2. 33536 % 2 = 0
  OBVIOUS
<1> QED BY <1>1, <1>2 DEF IsEven

(* Where an item can be. *)
LEMMA Inside ==
  ASSUME NEW t, IsTest(t), Placed(t), NEW item, NEW addr, Sits(Code(t), item, addr)
  PROVE  /\ item \in WordItem
         /\ addr \in Int /\ IsEven(addr) /\ CodeBase <= addr /\ addr + Size(item) <= Registers
<1>1. Code(t) \in Seq(WordItem)
  BY WordCode
<1>2. PICK k \in 1 .. Len(Code(t)) : Code(t)[k] = item /\ Layout(Code(t), CodeBase)[k] = addr
  BY DEF Sits
<1>3. /\ addr \in Int /\ CodeBase <= addr
      /\ addr + Size(item) <= CodeBase + CodeSize(Code(t))
  BY <1>1, <1>2, WithinCode, CodeBaseIs
<1>4. IsEven(addr)
  BY <1>1, <1>2, EvenPlaces, CodeBaseIs
<1>5. item \in WordItem
  BY <1>1, <1>2
<1>6. CodeBase + CodeSize(Code(t)) <= Registers
  BY DEF Placed
<1>7. PICK s \in Int : s = Size(item)
  BY <1>5, WordItemIs DEF Evens
<1>8. PICK e \in Int : e = CodeBase + CodeSize(Code(t))
  BY <1>1, EvenCode, CodeBaseIs
<1>9. addr + s <= Registers
  BY ONLY <1>3, <1>6, <1>7, <1>8, RegistersAre
<1> QED BY <1>3, <1>4, <1>5, <1>7, <1>9

(* An address in the code, of a label or an instruction. *)
CodeAddress(a) == a \in Int /\ IsEven(a) /\ CodeBase <= a /\ a + 2 <= Registers

LEMMA CodeAddresses ==
  ASSUME NEW a, CodeAddress(a)
  PROVE  /\ a \in Word /\ a + 2 \in Word /\ Wrap(a) = a /\ Wrap(a + 2) = a + 2
         /\ Even(a) = a /\ a % 2 = 0 /\ a >= CodeBase /\ a < Registers
<1>1. a \in Int /\ a >= 24576 /\ a + 2 <= 33536 /\ a % 2 = 0
  BY CodeBaseIs, RegistersAre DEF CodeAddress, IsEven
<1> QED BY <1>1, CodeBaseIs, RegistersAre DEF Word, Wrap, Even

LEMMA LabelsInside ==
  ASSUME NEW t, IsTest(t), Placed(t), NEW l \in {"l0", "next"}
  PROVE  CodeAddress(LabelAddr(Code(t), CodeBase, l))
<1>1. Sits(Code(t), JumpTo("jmp", l), LabelAddr(Code(t), CodeBase, l))
  BY LoopsSit
<1>2. Size(JumpTo("jmp", l)) = 2
  BY ItemKinds, SizeByKind
<1> QED BY <1>1, <1>2, Inside DEF CodeAddress

(* What follows a branch, its label JMP included, is at "next". *)
LEMMA BehindBranch ==
  ASSUME NEW t, IsTest(t), Branch(t)[Len(Branch(t))] = Label("JMP")
  PROVE  LabelAddr(Code(t), CodeBase, "JMP") = LabelAddr(Code(t), CodeBase, "next")
<1>1. Labelled(Branch(t), "JMP", CodeSize(Branch(t)))
  BY Shapes, EndOfShape
<1> QED BY <1>1, LabelPlaces

Targets(p, S) ==
  \A k \in 1 .. Len(p) : p[k].kind \in {"jump", "branch"} => p[k].label \in S

LEMMA TargetsOfBoth ==
  ASSUME NEW p \in Seq(WordItem), NEW q \in Seq(WordItem), NEW S, Targets(p, S), Targets(q, S)
  PROVE  Targets(p \o q, S) /\ p \o q \in Seq(WordItem)
<1>1. /\ p \o q \in Seq(WordItem) /\ Len(p \o q) = Len(p) + Len(q)
      /\ \A k \in 1 .. Len(p) : (p \o q)[k] = p[k]
      /\ \A k \in 1 .. Len(q) : (p \o q)[Len(p) + k] = q[k]
  BY Joined
<1>2. ASSUME NEW k \in 1 .. Len(p \o q), (p \o q)[k].kind \in {"jump", "branch"}
      PROVE  (p \o q)[k].label \in S
  <2>1. CASE k <= Len(p)
    <3>1. k \in 1 .. Len(p)
      BY <2>1
    <3> QED BY <1>1, <1>2, <3>1 DEF Targets
  <2>2. CASE k > Len(p)
    <3>1. PICK j \in 1 .. Len(q) : k = Len(p) + j
      <4>1. k - Len(p) \in 1 .. Len(q) /\ k = Len(p) + (k - Len(p))
        BY <1>1, <2>2
      <4> QED BY <4>1
    <3> QED BY <1>1, <1>2, <3>1 DEF Targets
  <2> QED BY <2>1, <2>2
<1> QED BY <1>1, <1>2 DEF Targets

LEMMA NoTargets == ASSUME NEW p \in Seq(Spaced), NEW S PROVE Targets(p, S)
<1>1. ASSUME NEW k \in 1 .. Len(p) PROVE p[k].kind \in {"words", "skip"}
  <2>1. p[k] \in Spaced
    OBVIOUS
  <2>2. p[k] \in Plain => p[k].kind = "words"
    BY DEF Plain
  <2> QED BY <2>1, <2>2 DEF Spaced
<1> QED BY <1>1 DEF Targets

LEMMA StayTargets ==
  ASSUME NEW l \in {"l0", "next"}, NEW S, l \in S PROVE Targets(Stay(l), S)
<1>1. Stay(l) = <<Label(l), JumpTo("jmp", l)>>
  BY DEF Stay
<1>2. PICK a, b : a = Label(l) /\ b = JumpTo("jmp", l)
  OBVIOUS
<1>3. a.kind = "label" /\ b.label = l
  BY <1>2, ItemKinds
<1>4. Len(<<a, b>>) = 2 /\ <<a, b>>[1] = a /\ <<a, b>>[2] = b
  OBVIOUS
<1>5. ASSUME NEW k \in 1 .. 2, <<a, b>>[k].kind \in {"jump", "branch"}
      PROVE  <<a, b>>[k].label \in S
  BY <1>3, <1>4, <1>5
<1> QED BY <1>1, <1>2, <1>4, <1>5 DEF Targets

(* The labels the code of a test jumps to. *)
LEMMA CodeTargets ==
  ASSUME NEW t, IsTest(t), Placed(t)
  PROVE  Targets(Code(t), {l \in Names : CodeAddress(LabelAddr(Code(t), CodeBase, l))})
<1> DEFINE S == {l \in Names : CodeAddress(LabelAddr(Code(t), CodeBase, l))}
<1>1. "l0" \in S /\ "next" \in S
  BY LabelsInside DEF Names
<1>2. Branch(t)[Len(Branch(t))] = Label("JMP") => "JMP" \in S
  BY <1>1, BehindBranch DEF Names
<1> HIDE DEF S
<1>3. Targets(Branch(t), S)
  <2>1. ASSUME NEW k \in 1 .. Len(Branch(t)), Branch(t)[k].kind \in {"jump", "branch"}
        PROVE  Branch(t)[k].label \in S
    <3>1. Shape(Branch(t))
      BY Shapes
    <3>2. CASE Branch(t)[k] = LongWay
      BY <1>1, <3>2, ItemKinds
    <3>3. CASE Branch(t)[k] = Label("JMP")
      BY <2>1, <3>3, ItemKinds
    <3>4. CASE /\ IsJump(Branch(t)[k])
               /\ Branch(t)[k].label = "JMP" => Branch(t)[Len(Branch(t))] = Label("JMP")
      <4>1. Branch(t)[k].label \in {"l0", "JMP"}
        BY <3>4, ItemKinds DEF IsJump
      <4> QED BY <1>1, <1>2, <3>4, <4>1
    <3> QED BY <3>1, <3>2, <3>3, <3>4 DEF Shape
  <2> QED BY <2>1 DEF Targets
<1>4. PICK p \in Seq(Item), q \in Seq(Item), r \in Seq(Item) : CodeParts(t, p, q, r)
  BY CodeIs
<1>5. Before(t) \in Seq(WordItem) /\ Flags(t) \in Seq(WordItem) /\ After(t) \in Seq(WordItem)
  BY WordBefore, WordFlags, WordAfter
<1>6. Branch(t) \in Seq(WordItem)
  BY Shapes DEF Shape
<1>7. Targets(Flags(t), S)
  BY TestTypes, NoTargets
<1>8. /\ Stay("l0") \in Seq(WordItem) /\ Targets(Stay("l0"), S)
      /\ Stay("next") \in Seq(WordItem) /\ Targets(Stay("next"), S)
  BY <1>1, WordStay, StayTargets
<1>9. Targets(Before(t), S)
  <2>1. CASE t.distance > 0
    <3>1. Before(t) = <<>>
      BY <2>1 DEF Before
    <3>2. \A k : k \notin 1 .. Len(<<>>)
      BY Tuples
    <3> QED BY <3>1, <3>2 DEF Targets
  <2>2. CASE ~(t.distance > 0)
    <3>1. PICK c \in Seq(WordItem) : c \in Seq(Spaced) /\ Before(t) = Stay("l0") \o c
      BY <2>2, FillBefore
    <3>2. Targets(c, S)
      BY <3>1, NoTargets
    <3> QED BY <1>8, <3>1, <3>2, TargetsOfBoth
  <2> QED BY <2>1, <2>2
<1>10. Targets(After(t), S)
  <2>1. CASE ~(t.distance > 0)
    <3>1. After(t) = <<>>
      BY <2>1 DEF After
    <3>2. \A k : k \notin 1 .. Len(<<>>)
      BY Tuples
    <3> QED BY <3>1, <3>2 DEF Targets
  <2>2. CASE t.distance > 0
    <3>1. PICK c \in Seq(WordItem) : c \in Seq(Spaced) /\ After(t) = c \o Stay("l0")
      BY <2>2, FillBehind
    <3>2. Targets(c, S)
      BY <3>1, NoTargets
    <3> QED BY <1>8, <3>1, <3>2, TargetsOfBoth
  <2> QED BY <2>1, <2>2
<1>11. Targets(p, S) /\ p \in Seq(WordItem)
  BY <1>4, <1>5, <1>7, <1>9, TargetsOfBoth DEF CodeParts
<1>12. Targets(q, S) /\ q \in Seq(WordItem)
  BY <1>3, <1>4, <1>6, <1>11, TargetsOfBoth DEF CodeParts
<1>13. Targets(r, S) /\ r \in Seq(WordItem)
  BY <1>4, <1>8, <1>12, TargetsOfBoth DEF CodeParts
<1>14. Targets(Code(t), S)
  <2>1. Targets(r \o After(t), S)
    BY <1>5, <1>10, <1>13, TargetsOfBoth
  <2>2. Code(t) = r \o After(t)
    BY <1>4 DEF CodeParts
  <2> QED BY <2>1, <2>2
<1> QED BY <1>14 DEF S

(* The words of an item are in memory where it is. *)
Image(t) == Assemble(Code(t), CodeBase)

LEMMA Stored ==
  ASSUME NEW t, IsTest(t), Placed(t), NEW item, NEW addr, Sits(Code(t), item, addr),
         NEW i \in DOMAIN Emit(Code(t), CodeBase, item, addr)
  PROVE  /\ addr + 2 * (i - 1) \in DOMAIN Image(t)
         /\ Image(t)[addr + 2 * (i - 1)] = Emit(Code(t), CodeBase, item, addr)[i]
<1>1. PICK p \in Seq(WordItem) : p = Code(t)
  BY WordCode
<1>2. PICK k \in 1 .. Len(p) : p[k] = item /\ Layout(p, CodeBase)[k] = addr
  BY <1>1 DEF Sits
<1>3. WordsAt(p, CodeBase, k) = Emit(p, CodeBase, item, addr)
  BY <1>2 DEF WordsAt
<1>4. Place(p, CodeBase, k, i) = addr + 2 * (i - 1)
  BY <1>2 DEF Place
<1>5. i \in DOMAIN WordsAt(p, CodeBase, k)
  BY <1>1, <1>3
<1>6. /\ Place(p, CodeBase, k, i) \in DOMAIN Assemble(p, CodeBase)
      /\ Assemble(p, CodeBase)[Place(p, CodeBase, k, i)] = WordsAt(p, CodeBase, k)[i]
  <2>1. CodeBase \in Int
    BY CodeBaseIs
  <2> QED BY <1>5, <2>1, Assembled
<1> QED BY <1>1, <1>3, <1>4, <1>6 DEF Image

LEMMA ImageIs ==
  ASSUME NEW t, IsTest(t), Placed(t), NEW a \in DOMAIN Image(t)
  PROVE  CodeAddress(a) /\ Image(t)[a] \in Word
<1>1. PICK p \in Seq(WordItem) : p = Code(t)
  BY WordCode
<1>2. PICK k \in 1 .. Len(p) : \E i \in DOMAIN WordsAt(p, CodeBase, k) : a = Place(p, CodeBase, k, i)
  <2>1. a \in DOMAIN Assemble(p, CodeBase)
    BY <1>1 DEF Image
  <2> QED BY <2>1, Assembled, CodeBaseIs
<1> PICK i \in DOMAIN WordsAt(p, CodeBase, k) : a = Place(p, CodeBase, k, i)
  BY <1>2
<1>3. PICK item \in WordItem : item = p[k]
  OBVIOUS
<1>4. PICK at : at = Layout(p, CodeBase)[k]
  OBVIOUS
<1>5. Sits(Code(t), item, at)
  BY <1>1, <1>3, <1>4 DEF Sits
<1>6. at \in Int /\ IsEven(at) /\ CodeBase <= at /\ at + Size(item) <= Registers
  BY <1>5, Inside
<1>7. WordsAt(p, CodeBase, k) = Emit(p, CodeBase, item, at)
  BY <1>3, <1>4 DEF WordsAt
<1>8. PICK len \in Nat : /\ len = Len(Emit(p, CodeBase, item, at)) /\ i \in 1 .. len
                         /\ 2 * len <= Size(item)
  BY <1>2, <1>7, EmitLength
<1>9. a = at + 2 * (i - 1)
  BY <1>2, <1>4 DEF Place
<1>10. PICK s \in Int : s = Size(item)
  BY WordItemIs DEF Evens
<1>11. a \in Int /\ CodeBase <= a /\ a + 2 <= Registers
  BY ONLY <1>6, <1>8, <1>9, <1>10, CodeBaseIs, RegistersAre
<1>12. IsEven(a)
  <2>1. IsEven(2 * (i - 1)) /\ 2 * (i - 1) \in Int
    BY <1>8 DEF IsEven
  <2> QED BY <1>6, <1>9, <2>1, EvenSum
<1>13. Image(t)[a] = WordsAt(p, CodeBase, k)[i]
  BY <1>1, <1>2, Assembled, CodeBaseIs DEF Image
<1>14. item.kind \in {"jump", "branch"} => LabelAddr(p, CodeBase, item.label) \in Word
  BY <1>1, <1>3, CodeTargets, CodeAddresses DEF Targets
<1>15. Emit(p, CodeBase, item, at) \in Seq(Word)
  BY <1>6, <1>14, EmitWords
<1>16. WordsAt(p, CodeBase, k)[i] \in Word
  BY <1>7, <1>8, <1>15
<1> QED BY <1>11, <1>12, <1>13, <1>16 DEF CodeAddress

-----------------------------------------------------------------------------
(* The processor with the code of a test in memory.                        *)

Loaded(t, m) ==
  /\ IsMachine(m) /\ m.wp = Registers /\ Reg(m, 1) = t.x
  /\ \A a \in DOMAIN Image(t) : ReadW(m, a) = Image(t)[a]

LEMMA FetchFrom ==
  ASSUME NEW t, IsTest(t), Placed(t), NEW m, Loaded(t, m), NEW item, NEW addr, Sits(Code(t), item, addr),
         NEW i \in DOMAIN Emit(Code(t), CodeBase, item, addr)
  PROVE  ReadW(m, addr + 2 * (i - 1)) = Emit(Code(t), CodeBase, item, addr)[i]
BY Stored DEF Loaded

LEMMA SameMemory ==
  ASSUME NEW t, NEW m, Loaded(t, m), NEW n, IsMachine(n), n.mem = m.mem, n.wp = m.wp
  PROVE  Loaded(t, n)
<1>1. \A a : ReadW(n, a) = ReadW(m, a)
  BY DEF ReadW
<1>2. Reg(n, 1) = Reg(m, 1)
  BY <1>1 DEF Reg, RegAddr
<1> QED BY <1>1, <1>2 DEF Loaded

LEMMA WorkspaceRegisters ==
  ASSUME NEW m, m.wp = Registers
  PROVE  RegAddr(m, 0) = 33536 /\ RegAddr(m, 1) = 33538 /\ RegAddr(m, 2) = 33540
BY RegistersAre DEF RegAddr, Wrap

(* The compare instructions write no register but R0. *)
LEMMA WorkRegister ==
  ASSUME NEW t, IsTest(t), Placed(t), NEW m, Loaded(t, m), NEW v \in Word
  PROVE  Loaded(t, WriteW(m, RegAddr(m, 0), v))
<1>1. IsMachine(m) /\ m.wp = Registers
  BY DEF Loaded
<1>2. PICK n : n = WriteW(m, 33536, v)
  OBVIOUS
<1>3. WriteW(m, RegAddr(m, 0), v) = n
  BY <1>1, <1>2, WorkspaceRegisters
<1>4. 33536 \in Word /\ 33538 \in Word
  BY DEF Word
<1>5. IsMachine(n)
  BY <1>1, <1>2, <1>4, WriteWord
<1>6. n.wp = m.wp
  BY <1>1, <1>2 DEF WriteW, IsMachine
<1>7. \A b \in Word : Even(b) # 33536 => ReadW(n, b) = ReadW(m, b)
  <2>1. Even(33536) = 33536
    BY DEF Even
  <2> QED BY <1>1, <1>2, <1>4, <2>1, ReadAfterWrite
<1>8. Reg(n, 1) = t.x
  <2>1. Even(33538) = 33538
    BY DEF Even
  <2>2. ReadW(n, 33538) = ReadW(m, 33538)
    BY <1>4, <1>7, <2>1
  <2> QED BY <1>1, <1>6, <2>2, WorkspaceRegisters DEF Reg, Loaded
<1>9. ASSUME NEW a \in DOMAIN Image(t) PROVE ReadW(n, a) = Image(t)[a]
  <2>1. a \in Word /\ Even(a) = a /\ a < Registers
    BY ImageIs, CodeAddresses
  <2>2. a # 33536
    BY <2>1, RegistersAre
  <2>3. ReadW(n, a) = ReadW(m, a)
    BY <1>7, <2>1, <2>2
  <2> QED BY <2>3 DEF Loaded
<1> QED BY <1>1, <1>3, <1>5, <1>6, <1>8, <1>9 DEF Loaded

LEMMA CompareSits ==
  ASSUME NEW t, IsTest(t), Placed(t), t.how \in Comparisons
  PROVE  /\ Sits(Code(t), Compare(t.how, t.rel, t.y), Entry(t))
         /\ Compare(t.how, t.rel, t.y) \in Plain
         /\ CodeSize(Flags(t)) = Size(Compare(t.how, t.rel, t.y))
<1>1. PICK c : c = Compare(t.how, t.rel, t.y)
  OBVIOUS
<1>2. Flags(t) = <<c>>
  BY <1>1 DEF Flags
<1>3. c \in Plain
  BY <1>1, ComparePlain DEF IsTest
<1>4. c \in Item
  BY <1>3, PlainIs
<1>5. Layout(<<c>>, 0)[1] = 0 /\ CodeSize(<<c>>) = Size(c)
  BY <1>4, OneItem
<1>6. PICK e \in Int : e = Entry(t)
  BY BeforeFacts, CodeSizeIs, CodeBaseIs DEF Entry
<1>7. 1 \in 1 .. Len(Flags(t)) /\ Flags(t)[1] = c
  BY <1>2, Tuples
<1>8. Sits(Code(t), c, e + Layout(Flags(t), 0)[1])
  BY <1>6, <1>7, FlagsSit
<1>9. e + Layout(Flags(t), 0)[1] = e
  BY ONLY <1>2, <1>5, e \in Int
<1> QED BY <1>1, <1>2, <1>3, <1>5, <1>6, <1>8, <1>9

(* Where it starts. *)
LEMMA MachineIs ==
  ASSUME NEW t, IsTest(t), Placed(t), t.how \in Comparisons
  PROVE  /\ Loaded(t, Machine(t)) /\ Reg(Machine(t), 2) = t.y /\ Machine(t).pc = Entry(t)
         /\ Entry(t) \in Word
<1>1. PICK image : image = Image(t) /\ \A a \in DOMAIN image : CodeAddress(a) /\ image[a] \in Word
  BY ImageIs
<1>2. PICK u, v : u = Registers + 2 /\ v = Registers + 4
  OBVIOUS
<1>3. u = 33538 /\ v = 33540
  BY <1>2, RegistersAre
<1>4. PICK f : f = Machine(t).mem
  OBVIOUS
<1>5. /\ Machine(t) = [pc |-> Entry(t), wp |-> Registers, st |-> 0, mem |-> f]
      /\ f = [a \in DOMAIN image \cup {u, v} |->
                IF a \in DOMAIN image THEN image[a] ELSE IF a = u THEN t.x ELSE t.y]
  <2>1. DOMAIN [a \in {u, v} |-> IF a = u THEN t.x ELSE t.y] = {u, v}
    OBVIOUS
  <2>2. f = [a \in DOMAIN image \cup {u, v} |->
               IF a \in DOMAIN image THEN image[a]
                                     ELSE [b \in {u, v} |-> IF b = u THEN t.x ELSE t.y][a]]
    BY <1>1, <1>2, <1>4, <2>1 DEF Machine, Image
  <2>3. Machine(t) = [pc |-> Entry(t), wp |-> Registers, st |-> 0, mem |-> f]
    BY <1>4 DEF Machine
  <2> QED BY <2>2, <2>3
<1>6. \A a \in DOMAIN image : a \in Word /\ a % 2 = 0 /\ Even(a) = a /\ a < Registers
  BY <1>1, CodeAddresses
<1>7. t.x \in Word /\ t.y \in Word
  BY DEF IsTest
<1>8. u \notin DOMAIN image /\ v \notin DOMAIN image /\ u # v
  BY <1>3, <1>6, RegistersAre
<1>9. /\ u \in Word /\ u % 2 = 0 /\ Even(u) = u
      /\ v \in Word /\ v % 2 = 0 /\ Even(v) = v
      /\ Registers \in Word /\ 0 \in Word
  BY <1>3, RegistersAre DEF Word, Even
<1>10. f = [a \in DOMAIN f |-> f[a]]
  BY <1>5
<1>11. /\ \A a \in DOMAIN image : a \in DOMAIN f /\ f[a] = image[a]
       /\ u \in DOMAIN f /\ f[u] = t.x
       /\ v \in DOMAIN f /\ f[v] = t.y
       /\ DOMAIN f = DOMAIN image \cup {u, v}
  BY <1>5, <1>8
<1>12. IsMemory(f)
  BY <1>1, <1>6, <1>7, <1>9, <1>10, <1>11 DEF IsMemory
<1>13. Entry(t) \in Word
  <2>1. PICK c \in Plain : c = Compare(t.how, t.rel, t.y) /\ Sits(Code(t), c, Entry(t))
    BY CompareSits
  <2>2. Size(c) >= 0 /\ Size(c) \in Int
    <3>1. c \in WordItem
      BY WordParts
    <3> QED BY <3>1, WordItemIs DEF Evens
  <2>3. PICK e \in Int, s \in Nat : e = Entry(t) /\ s = Size(c) /\ CodeBase <= e /\ e + s <= Registers
    BY <2>1, <2>2, Inside
  <2> QED BY <2>3, CodeBaseIs, RegistersAre DEF Word
<1>14. IsMachine(Machine(t))
  <2>1. Machine(t) \in [pc : Word, wp : Word, st : Word, mem : {f}]
    BY <1>5, <1>9, <1>13
  <2> QED BY <1>4, <1>12, <2>1 DEF IsMachine
<1>15. Machine(t).wp = Registers /\ Machine(t).pc = Entry(t)
  BY <1>5
<1>16. Reg(Machine(t), 1) = t.x /\ Reg(Machine(t), 2) = t.y
  <2>1. RegAddr(Machine(t), 1) = u /\ RegAddr(Machine(t), 2) = v
    BY <1>3, <1>15, WorkspaceRegisters
  <2> QED BY <1>4, <1>9, <1>11, <2>1 DEF Reg, ReadW
<1>17. \A a \in DOMAIN image : ReadW(Machine(t), a) = image[a]
  BY <1>4, <1>6, <1>11 DEF ReadW
<1> QED BY <1>1, <1>13, <1>14, <1>15, <1>16, <1>17 DEF Loaded

-----------------------------------------------------------------------------
(* Decoding: the tables of opcodes share no code.                          *)

InBand(table, low, high) == \A n \in DOMAIN table : table[n] \in Int /\ low <= table[n] /\ table[n] < high

LEMMA ImmediateCodes ==
  /\ DOMAIN ImmediateOps = {"LI", "AI", "ANDI", "ORI", "CI", "STWP", "STST", "LWPI", "LIMI", "RTWP"}
  /\ InBand(ImmediateOps, 0, 1024)
  /\ ImmediateOps["CI"] = 640 /\ \A n \in DOMAIN ImmediateOps : ImmediateOps[n] = 640 => n = "CI"
BY DEF ImmediateOps, InBand

LEMMA SingleCodes ==
  /\ DOMAIN SingleOps = {"BLWP", "B", "X", "CLR", "NEG", "INV", "INC", "INCT", "DEC", "DECT", "BL",
                         "SWPB", "SETO", "ABS"}
  /\ InBand(SingleOps, 1024, 2048)
  /\ SingleOps["B"] = 1088 /\ \A n \in DOMAIN SingleOps : SingleOps[n] = 1088 => n = "B"
BY DEF SingleOps, InBand

LEMMA ShiftCodes ==
  /\ DOMAIN ShiftOps = {"SRA", "SRL", "SLA", "SRC"}
  /\ InBand(ShiftOps, 2048, 4096)
BY DEF ShiftOps, InBand

LEMMA JumpBand == InBand(JumpOps, 4096, 8192)
<1>1. \A n \in JumpNames : JumpOps[n] \in Int /\ 4096 <= JumpOps[n] /\ JumpOps[n] < 8192
  BY JumpCodes DEF JumpNames
<1> QED BY <1>1, JumpCodes DEF InBand

LEMMA Dual1Codes ==
  /\ DOMAIN Dual1Ops = {"COC", "CZC", "XOR", "XOP", "LDCR", "STCR", "MPY", "DIV"}
  /\ InBand(Dual1Ops, 8192, 16384)
BY DEF Dual1Ops, InBand

LEMMA Dual2Codes ==
  /\ DOMAIN Dual2Ops = {"SZC", "SZCB", "S", "SB", "C", "CB", "A", "AB", "MOV", "MOVB", "SOC", "SOCB"}
  /\ InBand(Dual2Ops, 16384, 65536)
  /\ Dual2Ops["C"] = 32768 /\ Dual2Ops["CB"] = 36864 /\ Dual2Ops["MOV"] = 49152 /\ Dual2Ops["MOVB"] = 53248
  /\ \A n \in DOMAIN Dual2Ops :
       /\ Dual2Ops[n] = 32768 => n = "C"
       /\ Dual2Ops[n] = 36864 => n = "CB"
       /\ Dual2Ops[n] = 49152 => n = "MOV"
       /\ Dual2Ops[n] = 53248 => n = "MOVB"
BY DEF Dual2Ops, InBand

(* An opcode that is in one table, under one name, has that name. *)
LEMMA OnlyName ==
  ASSUME NEW table \in OpcodeTables, NEW name \in DOMAIN table, NEW code, code = table[name],
         \A t \in OpcodeTables : \A n \in DOMAIN t : t[n] = code => n = name
  PROVE  code \in DOMAIN Mnemonic /\ Mnemonic[code] = name
<1> DEFINE names == UNION {DOMAIN t : t \in OpcodeTables}
           codes == UNION {{t[n] : n \in DOMAIN t} : t \in OpcodeTables}
           named(c, n) == \E t \in OpcodeTables : n \in DOMAIN t /\ t[n] = c
<1>1. Mnemonic = [c \in codes |-> CHOOSE n \in names : named(c, n)]
  BY DEF Mnemonic
<1>2. code \in codes /\ name \in names /\ named(code, name)
  OBVIOUS
<1>3. \A n : named(code, n) => n = name
  OBVIOUS
<1> HIDE DEF codes, names, named
<1>4. (CHOOSE n \in names : named(code, n)) = name
  BY <1>2, <1>3
<1> QED BY <1>1, <1>2, <1>4

LEMMA InOneBand ==
  ASSUME NEW code \in Int, NEW table \in OpcodeTables, NEW n \in DOMAIN table, table[n] = code
  PROVE  /\ code < 1024 => table = ImmediateOps
         /\ code >= 1024 /\ code < 2048 => table = SingleOps
         /\ code >= 4096 /\ code < 8192 => table = JumpOps
         /\ code >= 16384 => table = Dual2Ops
<1>1. \/ table = ImmediateOps /\ 0 <= code /\ code < 1024
      \/ table = SingleOps /\ 1024 <= code /\ code < 2048
      \/ table = ShiftOps /\ 2048 <= code /\ code < 4096
      \/ table = JumpOps /\ 4096 <= code /\ code < 8192
      \/ table = Dual1Ops /\ 8192 <= code /\ code < 16384
      \/ table = Dual2Ops /\ 16384 <= code /\ code < 65536
  BY ImmediateCodes, SingleCodes, ShiftCodes, JumpBand, Dual1Codes, Dual2Codes DEF OpcodeTables, InBand
<1> QED BY ONLY <1>1, code \in Int

LEMMA Tables ==
  /\ ImmediateOps \in OpcodeTables /\ SingleOps \in OpcodeTables /\ JumpOps \in OpcodeTables
  /\ Dual2Ops \in OpcodeTables
BY DEF OpcodeTables

LEMMA DecodedCodes ==
  /\ 640 \in DOMAIN Mnemonic /\ Mnemonic[640] = "CI"
  /\ 1088 \in DOMAIN Mnemonic /\ Mnemonic[1088] = "B"
  /\ \A name \in JumpNames : JumpOps[name] \in DOMAIN Mnemonic /\ Mnemonic[JumpOps[name]] = name
  /\ 32768 \in DOMAIN Mnemonic /\ Mnemonic[32768] = "C"
  /\ 36864 \in DOMAIN Mnemonic /\ Mnemonic[36864] = "CB"
  /\ 49152 \in DOMAIN Mnemonic /\ Mnemonic[49152] = "MOV"
  /\ 53248 \in DOMAIN Mnemonic /\ Mnemonic[53248] = "MOVB"
<1>1. 640 \in DOMAIN Mnemonic /\ Mnemonic[640] = "CI"
  <2>1. \A t \in OpcodeTables : \A n \in DOMAIN t : t[n] = 640 => n = "CI"
    BY InOneBand, ImmediateCodes
  <2> QED BY <2>1, Tables, ImmediateCodes, OnlyName
<1>2. 1088 \in DOMAIN Mnemonic /\ Mnemonic[1088] = "B"
  <2>1. \A t \in OpcodeTables : \A n \in DOMAIN t : t[n] = 1088 => n = "B"
    BY InOneBand, SingleCodes
  <2> QED BY <2>1, Tables, SingleCodes, OnlyName
<1>3. ASSUME NEW name \in JumpNames
      PROVE  JumpOps[name] \in DOMAIN Mnemonic /\ Mnemonic[JumpOps[name]] = name
  <2>1. PICK code \in Int : code = JumpOps[name] /\ code >= 4096 /\ code < 8192
    BY JumpBand, JumpCodes DEF InBand
  <2>2. \A t \in OpcodeTables : \A n \in DOMAIN t : t[n] = code => n = name
    BY <2>1, InOneBand, JumpCodes, SameCode
  <2>3. name \in DOMAIN JumpOps
    BY JumpCodes
  <2> QED BY <2>1, <2>2, <2>3, Tables, OnlyName
<1>4. ASSUME NEW name \in {"C", "CB", "MOV", "MOVB"}
      PROVE  Dual2Ops[name] \in DOMAIN Mnemonic /\ Mnemonic[Dual2Ops[name]] = name
  <2>1. PICK code \in Int : code = Dual2Ops[name] /\ code >= 16384
    BY Dual2Codes DEF InBand
  <2>2. \A t \in OpcodeTables : \A n \in DOMAIN t : t[n] = code => n = name
    BY <2>1, InOneBand, Dual2Codes
  <2>3. name \in DOMAIN Dual2Ops
    BY Dual2Codes
  <2> QED BY <2>1, <2>2, <2>3, Tables, OnlyName
<1> QED BY <1>1, <1>2, <1>3, <1>4, Dual2Codes

(* The instructions of a test, as execute() decodes them. *)
LEMMA DecodedCompares ==
  /\ Op(641) = "CI" /\ Op(32897) = "C" /\ Op(36993) = "CB" /\ Op(49153) = "MOV" /\ Op(53249) = "MOVB"
  /\ Op(1120) = "B"
<1>1. /\ OperandSpan(641) = 32 /\ OperandSpan(1120) = 64
      /\ OperandSpan(32897) = 4096 /\ OperandSpan(36993) = 4096
      /\ OperandSpan(49153) = 4096 /\ OperandSpan(53249) = 4096
  BY DEF OperandSpan
<1>2. /\ 641 - (641 % 32) = 640 /\ 1120 - (1120 % 64) = 1088
      /\ 32897 - (32897 % 4096) = 32768 /\ 36993 - (36993 % 4096) = 36864
      /\ 49153 - (49153 % 4096) = 49152 /\ 53249 - (53249 % 4096) = 53248
  OBVIOUS
<1> QED BY <1>1, <1>2, DecodedCodes DEF Op

Jumping == JumpNames \ {"SBO", "SBZ", "TB"}

LEMMA JumpPages ==
  \A name \in JumpNames : \E k \in 16 .. 31 : JumpOps[name] = 256 * k
<1>1. /\ 4096 = 256 * 16 /\ 4352 = 256 * 17 /\ 4608 = 256 * 18 /\ 4864 = 256 * 19 /\ 5120 = 256 * 20
      /\ 5376 = 256 * 21 /\ 5632 = 256 * 22 /\ 5888 = 256 * 23 /\ 6144 = 256 * 24 /\ 6400 = 256 * 25
      /\ 6656 = 256 * 26 /\ 6912 = 256 * 27 /\ 7424 = 256 * 29 /\ 7680 = 256 * 30 /\ 7936 = 256 * 31
  OBVIOUS
<1> QED BY <1>1, JumpCodes DEF JumpNames

LEMMA JumpWord ==
  ASSUME NEW name \in JumpNames, NEW d \in 0 .. 255, NEW w, w = JumpOps[name] + d
  PROVE  Op(w) = name /\ w \in Word /\ w % 256 = d
<1>1. PICK k \in 16 .. 31 : JumpOps[name] = 256 * k
  BY JumpPages
<1>2. PICK v \in Int : v = w /\ v = 256 * k + d
  BY <1>1
<1>3. v % 256 = d /\ v >= 4096 /\ v < 8192 /\ v - d = 256 * k
  BY ONLY <1>2, k \in 16 .. 31, d \in 0 .. 255
<1>4. v \in Word
  BY <1>3 DEF Word
<1>5. OperandSpan(v) = 256
  <2>1. /\ v >= 4096 /\ v < 8192 /\ ~(v < 1024) /\ ~(v >= 1024 /\ v < 2048)
        /\ ~(v >= 2048 /\ v < 3072) /\ ~(v >= 3072 /\ v < 4096)
        /\ ~(v >= 8192 /\ v < 16384) /\ ~(v >= 16384)
    BY ONLY <1>3, v \in Int
  <2> QED BY ONLY <2>1, v \in Int, SMTT(30) DEF OperandSpan
<1>6. Op(v) = name
  BY <1>1, <1>3, <1>5, DecodedCodes DEF Op
<1> QED BY <1>2, <1>3, <1>4, <1>6

(* A jump goes where the assembler meant it to. *)
LEMMA JumpLands ==
  ASSUME NEW from, CodeAddress(from), NEW to, CodeAddress(to), InRange(from, to),
         NEW name \in JumpNames, NEW w, w = JumpOps[name] + Displacement(from, to)
  PROVE  /\ Op(w) = name /\ w \in Word
         /\ Wrap((from + 2) + 2 * Offset(w)) = to
<1>1. PICK a \in Int : from = 2 * a
  <2>1. from \in Int /\ from % 2 = 0
    BY DEF CodeAddress, IsEven
  <2>2. from = 2 * (from \div 2) /\ from \div 2 \in Int
    BY ONLY <2>1
  <2> QED BY <2>2
<1>2. PICK b \in Int : to = 2 * b
  <2>1. to \in Int /\ to % 2 = 0
    BY DEF CodeAddress, IsEven
  <2>2. to = 2 * (to \div 2) /\ to \div 2 \in Int
    BY ONLY <2>1
  <2> QED BY <2>2
<1>3. PICK q \in -128 .. 127 : q = (to - from - 2) \div 2
  BY DEF InRange
<1>4. q = b - a - 1
  <2>1. (2 * b - 2 * a - 2) \div 2 = b - a - 1
    BY ONLY a \in Int, b \in Int
  <2> QED BY <1>1, <1>2, <1>3, <2>1
<1>5. PICK d \in 0 .. 255 : d = q % 256 /\ (IF d > 127 THEN d - 256 ELSE d) = q
  BY ONLY q \in -128 .. 127
<1>6. Displacement(from, to) = d
  BY <1>3, <1>5 DEF Displacement
<1>7. Op(w) = name /\ w \in Word /\ w % 256 = d
  BY <1>6, JumpWord
<1>8. Offset(w) = q
  BY <1>5, <1>7 DEF Offset, Signed8
<1>9. (2 * a + 2) + 2 * q = 2 * b
  BY ONLY <1>4, a \in Int, b \in Int, q \in -128 .. 127
<1>10. (from + 2) + 2 * Offset(w) = to
  BY <1>1, <1>2, <1>8, <1>9
<1> QED BY <1>7, <1>10, CodeAddresses

LEMMA AsmNames ==
  \A asm \in AsmJumps : \E name \in Jumping : instab[asm] = JumpOps[name]
BY AsmCodes DEF AsmJumps, Jumping, JumpNames

-----------------------------------------------------------------------------
(* What execute() does with the instructions of a test.                    *)

OtherNames == {"B", "CI", "C", "CB", "MOV", "MOVB"}

Known(w) == Op(w) \in Jumping \cup OtherNames

ResultOf(m, w) ==
  CASE Op(w) \in Jumping -> Jump(m, Op(w), Offset(w))
    [] Op(w) = "B" -> OneOperand(m, "B", w)
    [] Op(w) = "CI" -> Immediate(m, "CI", SReg(w))
    [] Op(w) \in {"C", "CB", "MOV", "MOVB"} -> TwoOperands(m, Op(w), w)

LEMMA Results ==
  ASSUME NEW m, NEW w
  PROVE  /\ Op(w) \in Jumping => ResultOf(m, w) = Jump(m, Op(w), Offset(w))
         /\ Op(w) = "B" => ResultOf(m, w) = OneOperand(m, "B", w)
         /\ Op(w) = "CI" => ResultOf(m, w) = Immediate(m, "CI", SReg(w))
         /\ Op(w) \in {"C", "CB", "MOV", "MOVB"} => ResultOf(m, w) = TwoOperands(m, Op(w), w)
<1>1. "B" \notin Jumping /\ "CI" \notin Jumping /\ \A n \in {"C", "CB", "MOV", "MOVB"} : n \notin Jumping
  BY DEF Jumping, JumpNames
<1> QED BY <1>1 DEF ResultOf

LEMMA Executes ==
  ASSUME mode = "execute", Run, Known(ir)
  PROVE  cpu' = ResultOf(cpu, ir) /\ mode' = "check" /\ UNCHANGED <<ir, frames>>
<1> PICK name : name = Op(ir)
  OBVIOUS
<1>1. name \in Jumping \cup OtherNames
  BY DEF Known
<1>2. name # "X" /\ name # "none" /\ name \notin DOMAIN ShiftOps /\ name \notin DOMAIN Dual1Ops
  BY <1>1, ShiftCodes, Dual1Codes DEF Jumping, JumpNames, OtherNames
<1>3. /\ name \in DOMAIN JumpOps => name \in Jumping
      /\ name \in DOMAIN SingleOps => name = "B"
      /\ name \in DOMAIN ImmediateOps => name = "CI"
      /\ name \in DOMAIN Dual2Ops => name \in {"C", "CB", "MOV", "MOVB"}
  BY <1>1, JumpCodes, SingleCodes, ImmediateCodes, Dual2Codes DEF Jumping, JumpNames, OtherNames
<1>4. CASE Fetch
  BY <1>4 DEF Fetch
<1>5. CASE ExecuteImmediate
  BY <1>3, <1>5, Results DEF ExecuteImmediate, Execute
<1>6. CASE ExecuteSingle
  BY <1>3, <1>6, Results DEF ExecuteSingle, Execute
<1>7. CASE ExecuteShift
  BY <1>2, <1>7 DEF ExecuteShift, Execute
<1>8. CASE ExecuteJump
  BY <1>3, <1>8, Results DEF ExecuteJump, Execute
<1>9. CASE ExecuteDual1
  BY <1>2, <1>9 DEF ExecuteDual1, Execute
<1>10. CASE ExecuteDual2
  BY <1>3, <1>10, Results DEF ExecuteDual2, Execute
<1>11. CASE ExecuteX
  BY <1>2, <1>11 DEF ExecuteX
<1>12. CASE Halt
  BY <1>2, <1>12 DEF Halt
<1>13. CASE NoInterrupt
  BY <1>13 DEF NoInterrupt
<1> QED BY <1>4, <1>5, <1>6, <1>7, <1>8, <1>9, <1>10, <1>11, <1>12, <1>13 DEF Run

-----------------------------------------------------------------------------
(* One instruction of the code.                                            *)

LEMMA SameGoes ==
  ASSUME NEW m, NEW n, n.st = m.st, NEW item, IsJump(item) \/ item = LongWay \/ item = Label("JMP")
  PROVE  /\ Goes(n, item) <=> Goes(m, item)
         /\ IsJump(item) => (Taken(n, item) <=> Taken(m, item)) /\ (Goes(m, item) <=> Taken(m, item))
<1>1. \A f : HasFlag(n, f) <=> HasFlag(m, f)
  BY DEF HasFlag
<1>2. CASE IsJump(item)
  <2>1. PICK asm \in AsmJumps, l \in {"l0", "JMP"} : item = JumpTo(asm, l)
    BY <1>2 DEF IsJump
  <2>2. PICK e \in BOOLEAN, g \in BOOLEAN, a \in BOOLEAN : FlagsAre(m, e, g, a)
    <3>1. /\ HasFlag(m, FLAG_EQ) \in BOOLEAN /\ HasFlag(m, FLAG_LGT) \in BOOLEAN
          /\ HasFlag(m, FLAG_AGT) \in BOOLEAN
      BY DEF HasFlag
    <3> QED BY <3>1, Zenon DEF FlagsAre
  <2>3. FlagsAre(n, e, g, a)
    BY <1>1, <2>2, Zenon DEF FlagsAre
  <2>4. Taken(n, item) <=> Taken(m, item)
    BY <2>1, <2>2, <2>3, AsmTaken
  <2>5. item.kind = "jump"
    BY <2>1, ItemKinds
  <2> QED BY <2>4, <2>5 DEF Goes
<1>3. CASE item = LongWay
  <2>1. item.kind = "branch"
    BY <1>3, ItemKinds
  <2>2. ~IsJump(item)
    BY <2>1, ItemKinds DEF IsJump
  <2> QED BY <2>1, <2>2 DEF Goes
<1>4. CASE item = Label("JMP")
  <2>1. item.kind = "label"
    BY <1>4, ItemKinds
  <2>2. ~IsJump(item)
    BY <2>1, ItemKinds DEF IsJump
  <2> QED BY <2>1, <2>2 DEF Goes
<1> QED BY <1>2, <1>3, <1>4

LEMMA SameLeads ==
  ASSUME NEW m, NEW n, n.st = m.st, NEW p, Shape(p)
  PROVE  /\ \A k \in 1 .. Len(p) : Goes(n, p[k]) <=> Goes(m, p[k])
         /\ Leads(n, p) <=> Leads(m, p)
<1>1. \A k \in 1 .. Len(p) : Goes(n, p[k]) <=> Goes(m, p[k])
  <2>1. ASSUME NEW k \in 1 .. Len(p) PROVE IsJump(p[k]) \/ p[k] = LongWay \/ p[k] = Label("JMP")
    BY DEF Shape
  <2> QED BY <2>1, SameGoes
<1>2. DOMAIN p = 1 .. Len(p) /\ Len(p) \in Nat
  BY DEF Shape
<1>3. \A k \in DOMAIN p : \A j \in 1 .. k - 1 : j \in 1 .. Len(p)
  BY <1>2
<1> QED BY <1>1, <1>2, <1>3 DEF Leads

(* Behind the first that goes, no other item matters. *)
LEMMA FirstGoes ==
  ASSUME NEW m, NEW p, Shape(p), NEW k \in 1 .. Len(p), Goes(m, p[k]),
         \A j \in 1 .. k - 1 : ~Goes(m, p[j])
  PROVE  Leads(m, p) <=> p[k].label = "l0"
<1>1. DOMAIN p = 1 .. Len(p) /\ Len(p) \in Nat
  BY DEF Shape
<1>2. ASSUME NEW i \in DOMAIN p, Goes(m, p[i]), \A j \in 1 .. i - 1 : ~Goes(m, p[j]) PROVE i = k
  <2>1. i \in Int /\ k \in Int /\ i >= 1 /\ k >= 1
    BY <1>1
  <2>2. ~(i < k)
    BY <1>2, <2>1
  <2>3. ~(k < i)
    BY <1>2, <2>1
  <2> QED BY <2>1, <2>2, <2>3
<1>3. k \in DOMAIN p
  BY <1>1
<1> QED BY <1>2, <1>3 DEF Leads

LEMMA FetchedIs ==
  ASSUME NEW t, IsTest(t), Placed(t), NEW m, Loaded(t, m), m.pc + 2 \in Word
  PROVE  /\ Loaded(t, Fetched(m)) /\ Fetched(m).pc = m.pc + 2 /\ Fetched(m).st = m.st
         /\ \A r : Reg(Fetched(m), r) = Reg(m, r)
         /\ \A a : ReadW(Fetched(m), a) = ReadW(m, a)
<1>1. IsMachine(m) /\ IsMachine(Fetched(m))
  BY FetchedOK DEF Loaded
<1>2. PICK f : f = Fetched(m)
  OBVIOUS
<1>3. f.mem = m.mem /\ f.wp = m.wp /\ f.st = m.st /\ f.pc = Wrap(m.pc + 2)
  BY <1>1, <1>2 DEF Fetched, IsMachine
<1>4. Wrap(m.pc + 2) = m.pc + 2
  BY DEF Wrap, Word
<1>5. \A a : ReadW(f, a) = ReadW(m, a)
  BY <1>3 DEF ReadW
<1>6. \A r : Reg(f, r) = Reg(m, r)
  BY <1>3, <1>5 DEF Reg, RegAddr
<1> QED BY <1>1, <1>2, <1>3, <1>4, <1>5, <1>6, SameMemory

LEMMA JumpStep ==
  ASSUME NEW t, IsTest(t), Placed(t), Fits(t), NEW m, Loaded(t, m), NEW asm \in AsmJumps, NEW l,
         Sits(Code(t), JumpTo(asm, l), m.pc), NEW to, to = LabelAddr(Code(t), CodeBase, l),
         CodeAddress(to)
  PROVE  LET w == ReadW(m, m.pc)
             n == ResultOf(Fetched(m), w)
         IN  /\ CodeAddress(m.pc) /\ Known(w) /\ Loaded(t, n) /\ n.st = m.st
             /\ n.pc = IF Taken(m, JumpTo(asm, l)) THEN to ELSE m.pc + 2
<1>1. PICK item : item = JumpTo(asm, l)
  OBVIOUS
<1>2. item.kind = "jump" /\ item.label = l /\ item.op = instab[asm] /\ Size(item) = 2
  BY <1>1, ItemKinds, SizeByKind
<1>3. item \in WordItem /\ CodeAddress(m.pc)
  BY <1>1, <1>2, Inside DEF CodeAddress
<1>4. PICK name \in Jumping : instab[asm] = JumpOps[name]
  BY AsmNames
<1>5. name \in JumpNames
  BY DEF Jumping
<1>6. PICK w : w = ReadW(m, m.pc)
  OBVIOUS
<1>7. w = JumpOps[name] + Displacement(m.pc, to)
  <2>1. PICK v : v = item.op + Displacement(m.pc, LabelAddr(Code(t), CodeBase, item.label))
    OBVIOUS
  <2>2. Emit(Code(t), CodeBase, item, m.pc) = <<v>>
    BY <1>2, <1>3, <2>1, EmitIs
  <2>3. 1 \in DOMAIN Emit(Code(t), CodeBase, item, m.pc) /\ Emit(Code(t), CodeBase, item, m.pc)[1] = v
    BY <2>2, Tuples
  <2>4. ReadW(m, m.pc + 2 * (1 - 1)) = v
    BY <1>1, <2>3, FetchFrom
  <2>5. m.pc + 2 * (1 - 1) = m.pc
    BY <1>3 DEF CodeAddress
  <2> QED BY <1>2, <1>4, <1>6, <2>1, <2>4, <2>5
<1>8. InRange(m.pc, to)
  <2>1. JumpsInRange(Code(t), CodeBase)
    BY WhichFit
  <2>2. PICK k \in 1 .. Len(Code(t)) : Code(t)[k] = item /\ Layout(Code(t), CodeBase)[k] = m.pc
    BY <1>1 DEF Sits
  <2>3. k \in DOMAIN Code(t)
    BY WordCode
  <2> QED BY <1>2, <2>1, <2>2, <2>3 DEF JumpsInRange
<1>9. /\ Op(w) = name /\ w \in Word
      /\ Wrap((m.pc + 2) + 2 * Offset(w)) = to
  BY <1>3, <1>5, <1>7, <1>8, JumpLands
<1>10. PICK f : f = Fetched(m)
  OBVIOUS
<1>11. Loaded(t, f) /\ f.pc = m.pc + 2 /\ f.st = m.st
  BY <1>3, <1>10, CodeAddresses, FetchedIs
<1>12. PICK n : n = ResultOf(f, w)
  OBVIOUS
<1>13. n = Jump(f, name, Offset(w))
  BY <1>9, <1>12, Results
<1>14. n = IF JumpTaken(f, name) THEN [f EXCEPT !.pc = Wrap(@ + 2 * Offset(w))] ELSE f
  <2>1. name \notin {"SBO", "SBZ"} /\ name # "TB"
    BY DEF Jumping
  <2> QED BY <1>13, <2>1 DEF Jump
<1>15. JumpTaken(f, name) <=> Taken(m, item)
  <2>1. Taken(f, item) <=> JumpTaken(f, name)
    BY <1>1, <1>4, <1>5, TakenIs
  <2>2. PICK e \in BOOLEAN, g \in BOOLEAN, a \in BOOLEAN : FlagsAre(m, e, g, a)
    <3>1. /\ HasFlag(m, FLAG_EQ) \in BOOLEAN /\ HasFlag(m, FLAG_LGT) \in BOOLEAN
          /\ HasFlag(m, FLAG_AGT) \in BOOLEAN
      BY DEF HasFlag
    <3> QED BY <3>1, Zenon DEF FlagsAre
  <2>3. \A h : HasFlag(f, h) <=> HasFlag(m, h)
    BY <1>11 DEF HasFlag
  <2>4. FlagsAre(f, e, g, a)
    BY <2>2, <2>3, Zenon DEF FlagsAre
  <2> QED BY <1>1, <2>1, <2>2, <2>4, AsmTaken
<1>16. IsMachine(f)
  BY <1>11 DEF Loaded
<1>17. IsMachine(n) /\ n.mem = f.mem /\ n.wp = f.wp /\ n.st = f.st
  <2>1. to \in Word
    BY CodeAddresses
  <2>2. IsMachine([f EXCEPT !.pc = to])
    BY <1>16, <2>1, Replace
  <2>3. n = f \/ n = [f EXCEPT !.pc = to]
    BY <1>9, <1>11, <1>14
  <2> QED BY <1>16, <2>2, <2>3 DEF IsMachine
<1>18. n.pc = IF Taken(m, item) THEN to ELSE m.pc + 2
  <2>1. CASE Taken(m, item)
    <3>1. n = [f EXCEPT !.pc = to]
      BY <1>9, <1>11, <1>14, <1>15, <2>1
    <3> QED BY <1>16, <2>1, <3>1 DEF IsMachine
  <2>2. CASE ~Taken(m, item)
    BY <1>11, <1>14, <1>15, <2>2
  <2> QED BY <2>1, <2>2
<1>19. Loaded(t, n)
  BY <1>11, <1>17, SameMemory
<1>20. Known(w)
  BY <1>9 DEF Known
<1> QED BY <1>1, <1>3, <1>6, <1>10, <1>11, <1>12, <1>17, <1>18, <1>19, <1>20

(* "b @l0" *)
LEMMA LongFields == SMode(1120) = 2 /\ SReg(1120) = 0
BY DEF SMode, SReg

LEMMA LongStep ==
  ASSUME NEW t, IsTest(t), Placed(t), NEW m, Loaded(t, m), Sits(Code(t), LongWay, m.pc),
         NEW to, to = LabelAddr(Code(t), CodeBase, "l0")
  PROVE  LET w == ReadW(m, m.pc)
             n == ResultOf(Fetched(m), w)
         IN  Known(w) /\ Loaded(t, n) /\ n.st = m.st /\ n.pc = to
<1>1. PICK item : item = LongWay
  OBVIOUS
<1>2. item.kind = "branch" /\ item.label = "l0" /\ item.op = 1120 /\ Size(item) = 4
  BY <1>1, ItemKinds, SizeByKind
<1>3. /\ item \in WordItem /\ m.pc \in Int /\ IsEven(m.pc) /\ CodeBase <= m.pc
      /\ m.pc + 4 <= Registers
  BY <1>1, <1>2, Inside
<1>4. CodeAddress(m.pc) /\ m.pc + 2 \in Int /\ m.pc + 4 \in Word
  BY <1>3, CodeBaseIs, RegistersAre DEF CodeAddress, Word
<1>5. CodeAddress(to)
  BY LabelsInside
<1>6. ReadW(m, m.pc) = 1120 /\ ReadW(m, m.pc + 2) = to
  <2>1. Emit(Code(t), CodeBase, item, m.pc) = <<1120, to>>
    BY <1>2, <1>3, EmitIs
  <2>2. /\ 1 \in DOMAIN Emit(Code(t), CodeBase, item, m.pc)
        /\ 2 \in DOMAIN Emit(Code(t), CodeBase, item, m.pc)
        /\ Emit(Code(t), CodeBase, item, m.pc)[1] = 1120
        /\ Emit(Code(t), CodeBase, item, m.pc)[2] = to
    BY <2>1, Tuples
  <2>3. ReadW(m, m.pc + 2 * (1 - 1)) = 1120 /\ ReadW(m, m.pc + 2 * (2 - 1)) = to
    BY <1>1, <2>2, FetchFrom
  <2>4. m.pc + 2 * (1 - 1) = m.pc /\ m.pc + 2 * (2 - 1) = m.pc + 2
    BY <1>3
  <2> QED BY <2>3, <2>4
<1>7. PICK f : f = Fetched(m)
  OBVIOUS
<1>8. /\ Loaded(t, f) /\ f.pc = m.pc + 2 /\ f.st = m.st
      /\ \A a : ReadW(f, a) = ReadW(m, a)
  BY <1>4, <1>7, CodeAddresses, FetchedIs
<1>9. PICK g : g = Fetched(f)
  OBVIOUS
<1>10. Loaded(t, g) /\ g.st = f.st
  <2>1. f.pc + 2 \in Word
    BY <1>3, <1>4, <1>8
  <2> QED BY <1>8, <1>9, <2>1, FetchedIs
<1>11. PICK n : n = ResultOf(f, 1120)
  OBVIOUS
<1>12. n = OneOperand(f, "B", 1120)
  BY <1>11, DecodedCompares, Results
<1>13. OperandAddr(f, 2, 0) = to
  <2>1. OperandAddr(f, 2, 0) = Wrap(ReadW(f, f.pc) + 0)
    BY DEF OperandAddr
  <2>2. ReadW(f, f.pc) = to
    BY <1>6, <1>8
  <2>3. to + 0 = to /\ Wrap(to) = to
    BY <1>5, CodeAddresses DEF CodeAddress
  <2> QED BY <2>1, <2>2, <2>3
<1>14. OperandDone(f, 2, 0, 2) = g
  BY <1>9 DEF OperandDone
<1>15. n = [g EXCEPT !.pc = to]
  BY <1>12, <1>13, <1>14, LongFields DEF OneOperand, Single
<1>16. IsMachine(g) /\ to \in Word
  BY <1>5, <1>10, CodeAddresses DEF Loaded
<1>17. IsMachine(n) /\ n.mem = g.mem /\ n.wp = g.wp /\ n.st = g.st /\ n.pc = to
  BY <1>15, <1>16, Replace DEF IsMachine
<1>18. Loaded(t, n)
  BY <1>10, <1>17, SameMemory
<1>19. Known(1120)
  BY DecodedCompares DEF Known, OtherNames
<1> QED BY <1>6, <1>7, <1>8, <1>10, <1>11, <1>17, <1>18, <1>19

(* A comparison changes nothing but flags. *)
OnlyFlags(m, n) == IsMachine(n) /\ n.mem = m.mem /\ n.wp = m.wp /\ n.pc = m.pc

LEMMA FlagOnly ==
  \A m, f, on : IsMachine(m) =>
    /\ SetFlag(m, f, on).mem = m.mem /\ SetFlag(m, f, on).wp = m.wp
    /\ SetFlag(m, f, on).pc = m.pc
BY DEF SetFlag, IsMachine

LEMMA CompareOnlyFlags ==
  ASSUME NEW m, IsMachine(m), NEW x, NEW y
  PROVE  OnlyFlags(m, CompareWord(m, x, y)) /\ OnlyFlags(m, CompareByte(m, x, y))
<1>1. ASSUME NEW e \in BOOLEAN, NEW l \in BOOLEAN, NEW g \in BOOLEAN
      PROVE  OnlyFlags(m, SetFlag(SetFlag(SetFlag(m, FLAG_EQ, e), FLAG_LGT, l), FLAG_AGT, g))
  <2>1. PICK a : a = SetFlag(m, FLAG_EQ, e)
    OBVIOUS
  <2>2. PICK b : b = SetFlag(a, FLAG_LGT, l)
    OBVIOUS
  <2>3. PICK c : c = SetFlag(b, FLAG_AGT, g)
    OBVIOUS
  <2>4. FLAG_EQ \in StatusFlags /\ FLAG_LGT \in StatusFlags /\ FLAG_AGT \in StatusFlags
    BY DEF StatusFlags
  <2>5. IsMachine(a) /\ IsMachine(b) /\ IsMachine(c)
    BY <2>1, <2>2, <2>3, <2>4, SetFlagOK
  <2> QED BY <2>1, <2>2, <2>3, <2>5, FlagOnly DEF OnlyFlags
<1>2. OnlyFlags(m, CompareWord(m, x, y))
  <2>1. (x = y) \in BOOLEAN /\ (x > y) \in BOOLEAN /\ (Signed16(x) > Signed16(y)) \in BOOLEAN
    OBVIOUS
  <2> QED BY <1>1, <2>1, Zenon DEF CompareWord
<1>3. OnlyFlags(m, CompareByte(m, x, y))
  <2>1. (x = y) \in BOOLEAN /\ (x > y) \in BOOLEAN /\ (Signed8(x) > Signed8(y)) \in BOOLEAN
    OBVIOUS
  <2> QED BY <1>1, <2>1, Zenon DEF CompareByte
<1> QED BY <1>2, <1>3

LEMMA ParityOnlyFlags ==
  ASSUME NEW m, IsMachine(m), NEW v PROVE OnlyFlags(m, Parity(m, v))
<1>1. IsMachine(Parity(m, v))
  BY ParityOK
<1> QED BY <1>1, FlagOnly DEF Parity, OnlyFlags

LEMMA FlagsKeep ==
  ASSUME NEW t, NEW m, Loaded(t, m), NEW n, OnlyFlags(m, n)
  PROVE  Loaded(t, n) /\ n.pc = m.pc
BY SameMemory DEF OnlyFlags

LEMMA WorkPc == \A m, a, v : WriteW(m, a, v).pc = m.pc \/ ~IsMachine(m)
BY DEF WriteW, IsMachine

(* The five instructions that compare. *)
LEMMA ComparesKeep ==
  ASSUME NEW t, IsTest(t), Placed(t), NEW f, Loaded(t, f)
  PROVE  /\ Loaded(t, TwoOperands(f, "C", 32897)) /\ TwoOperands(f, "C", 32897).pc = f.pc
         /\ Loaded(t, TwoOperands(f, "CB", 36993)) /\ TwoOperands(f, "CB", 36993).pc = f.pc
         /\ Loaded(t, TwoOperands(f, "MOV", 49153)) /\ TwoOperands(f, "MOV", 49153).pc = f.pc
         /\ Loaded(t, TwoOperands(f, "MOVB", 53249)) /\ TwoOperands(f, "MOVB", 53249).pc = f.pc
         /\ f.pc + 2 \in Word => /\ Loaded(t, Immediate(f, "CI", SReg(641)))
                                 /\ Immediate(f, "CI", SReg(641)).pc = f.pc + 2
<1>1. IsMachine(f) /\ f.wp = Registers
  BY DEF Loaded
<1>2. Loaded(t, TwoOperands(f, "C", 32897)) /\ TwoOperands(f, "C", 32897).pc = f.pc
  <2>1. "C" \notin ByteOps
    BY DEF ByteOps
  <2>2. TwoOperands(f, "C", 32897) = CompareWord(f, Reg(f, 1), Reg(f, 2))
    BY <2>1, RegisterOperands, CompareFields DEF Dual2
  <2> QED BY <1>1, <2>2, CompareOnlyFlags, FlagsKeep
<1>3. Loaded(t, TwoOperands(f, "CB", 36993)) /\ TwoOperands(f, "CB", 36993).pc = f.pc
  <2>1. "CB" \in ByteOps
    BY DEF ByteOps
  <2>2. PICK x, y : TwoOperands(f, "CB", 36993) = Parity(CompareByte(f, x, y), x)
    <3>1. TwoOperands(f, "CB", 36993) =
            Dual2(f, "CB", ReadB(f, RegAddr(f, 1)), RegAddr(f, 2), ReadB(f, RegAddr(f, 2)))
      BY <2>1, RegisterOperands, CompareFields
    <3> QED BY <3>1 DEF Dual2
  <2>3. PICK n : n = CompareByte(f, x, y)
    OBVIOUS
  <2>4. IsMachine(n) /\ Loaded(t, n) /\ n.pc = f.pc
    BY <1>1, <2>3, CompareOnlyFlags, FlagsKeep DEF OnlyFlags
  <2> QED BY <2>2, <2>3, <2>4, ParityOnlyFlags, FlagsKeep
<1>4. Loaded(t, TwoOperands(f, "MOV", 49153)) /\ TwoOperands(f, "MOV", 49153).pc = f.pc
  <2>1. "MOV" \notin ByteOps
    BY DEF ByteOps
  <2>2. TwoOperands(f, "MOV", 49153) = Store(f, RegAddr(f, 0), Reg(f, 1))
    BY <2>1, RegisterOperands, CompareFields DEF Dual2
  <2>3. PICK v \in Word : v = Reg(f, 1)
    BY <1>1, RegWord
  <2>4. PICK n : n = WriteW(f, RegAddr(f, 0), v)
    OBVIOUS
  <2>5. Loaded(t, n) /\ n.pc = f.pc
    BY <1>1, <2>4, WorkRegister, WorkPc
  <2>6. TwoOperands(f, "MOV", 49153) = CompareWord(n, v, 0)
    BY <2>2, <2>3, <2>4 DEF Store
  <2>7. IsMachine(n)
    BY <2>5 DEF Loaded
  <2> QED BY <2>5, <2>6, <2>7, CompareOnlyFlags, FlagsKeep
<1>5. Loaded(t, TwoOperands(f, "MOVB", 53249)) /\ TwoOperands(f, "MOVB", 53249).pc = f.pc
  <2>1. "MOVB" \in ByteOps
    BY DEF ByteOps
  <2>2. PICK v \in 0 .. 255 : v = ReadB(f, RegAddr(f, 1))
    BY <1>1, ReadByte
  <2>3. TwoOperands(f, "MOVB", 53249) = Parity(StoreB(f, RegAddr(f, 0), v), v)
    <3>1. TwoOperands(f, "MOVB", 53249) =
            Dual2(f, "MOVB", v, RegAddr(f, 0), ReadB(f, RegAddr(f, 0)))
      BY <2>1, <2>2, RegisterOperands, CompareFields
    <3> QED BY <3>1 DEF Dual2
  <2>4. PICK a : a = RegAddr(f, 0) /\ a % 2 = 0
    <3>1. 33536 % 2 = 0
      OBVIOUS
    <3> QED BY <1>1, <3>1, WorkspaceRegisters
  <2>5. PICK u \in Word : WriteB(f, a, v) = WriteW(f, a, u)
    <3>1. PICK z \in 0 .. 255 : z = ReadW(f, a) % 256
      BY <1>1, ReadWord, BytesOfWord
    <3>2. 256 * v + z \in Word
      BY DEF Word
    <3>3. WriteB(f, a, v) = WriteW(f, a, 256 * v + z)
      BY <2>4, <3>1 DEF WriteB
    <3> QED BY <3>2, <3>3
  <2>6. PICK n : n = WriteW(f, a, u)
    OBVIOUS
  <2>7. Loaded(t, n) /\ n.pc = f.pc
    BY <1>1, <2>4, <2>6, WorkRegister, WorkPc
  <2>8. PICK k : k = CompareByte(n, v, 0)
    OBVIOUS
  <2>9. StoreB(f, a, v) = k
    BY <2>5, <2>6, <2>8 DEF StoreB
  <2>10. IsMachine(n)
    BY <2>7 DEF Loaded
  <2>11. IsMachine(k) /\ Loaded(t, k) /\ k.pc = f.pc
    BY <2>7, <2>8, <2>10, CompareOnlyFlags, FlagsKeep DEF OnlyFlags
  <2> QED BY <2>3, <2>4, <2>9, <2>11, ParityOnlyFlags, FlagsKeep
<1>6. ASSUME f.pc + 2 \in Word
      PROVE  /\ Loaded(t, Immediate(f, "CI", SReg(641)))
             /\ Immediate(f, "CI", SReg(641)).pc = f.pc + 2
  <2>1. PICK g : g = Fetched(f)
    OBVIOUS
  <2>2. Loaded(t, g) /\ g.pc = f.pc + 2
    BY <1>6, <2>1, FetchedIs
  <2>3. PICK x, y : Immediate(f, "CI", SReg(641)) = CompareWord(g, x, y)
    BY <2>1 DEF Immediate
  <2>4. IsMachine(g)
    BY <2>2 DEF Loaded
  <2> QED BY <2>2, <2>3, <2>4, CompareOnlyFlags, FlagsKeep
<1> QED BY <1>2, <1>3, <1>4, <1>5, <1>6

LEMMA RegisterWords ==
  ASSUME NEW name, NEW a \in 0 .. 15, NEW b \in 0 .. 15
  PROVE  \E v : Two(name, R(a), R(b)).words = <<v>>
<1>1. PICK v : v = instab[name] + R(a).bits + R(b).bits * 64
  OBVIOUS
<1>2. R(a).words = <<>> /\ R(b).words = <<>>
  BY DEF R
<1>3. Two(name, R(a), R(b)).words = <<v>> \o <<>> \o <<>>
  BY <1>1, <1>2 DEF Two, Words
<1>4. <<v>> \o <<>> \o <<>> = <<v>>
  OBVIOUS
<1> QED BY <1>3, <1>4

Constant == {"cmphi_i", "cmpqi_as_hi"}

LEMMA CompareWords ==
  ASSUME NEW how \in Comparisons, NEW rel, NEW y
  PROVE  Len(Compare(how, rel, y).words) = IF how \in Constant THEN 2 ELSE 1
<1>1. CASE how \in Constant
  <2>1. PICK v : Compare(how, rel, y).words = <<641, v>>
    BY <1>1, CompareCodes DEF Constant
  <2> QED BY <1>1, <2>1, Tuples
<1>2. CASE how \notin Constant
  <2>1. how \in {"cmphi_r", "tsthi", "cmpqi", "tstqi"}
    BY <1>2 DEF Constant, Comparisons
  <2>2. 0 \in 0 .. 15 /\ 1 \in 0 .. 15 /\ 2 \in 0 .. 15
    OBVIOUS
  <2>3. PICK v : Compare(how, rel, y).words = <<v>>
    <3>1. CASE how = "cmphi_r"
      <4>1. PICK v : Two("c", R(1), R(2)).words = <<v>>
        BY <2>2, RegisterWords
      <4> QED BY <3>1, <4>1 DEF Compare
    <3>2. CASE how = "tsthi"
      <4>1. PICK v : Two("mov", R(1), R(0)).words = <<v>>
        BY <2>2, RegisterWords
      <4> QED BY <3>2, <4>1 DEF Compare
    <3>3. CASE how = "cmpqi"
      <4>1. PICK v : Two("cb", R(1), R(2)).words = <<v>>
        BY <2>2, RegisterWords
      <4> QED BY <3>3, <4>1 DEF Compare
    <3>4. CASE how = "tstqi"
      <4>1. PICK v : Two("movb", R(1), R(0)).words = <<v>>
        BY <2>2, RegisterWords
      <4> QED BY <3>4, <4>1 DEF Compare
    <3> QED BY <2>1, <3>1, <3>2, <3>3, <3>4
  <2> QED BY <1>2, <2>3, Tuples
<1> QED BY <1>1, <1>2

LEMMA ComparedIs ==
  ASSUME NEW t, NEW f
  PROVE  /\ t.how = "cmphi_r" => Compared(t, f) = TwoOperands(f, "C", 32897)
         /\ t.how = "tsthi" => Compared(t, f) = TwoOperands(f, "MOV", 49153)
         /\ t.how = "cmpqi" => Compared(t, f) = TwoOperands(f, "CB", 36993)
         /\ t.how = "tstqi" => Compared(t, f) = TwoOperands(f, "MOVB", 53249)
         /\ t.how \in Constant => Compared(t, f) = Immediate(f, "CI", SReg(641))
<1>1. /\ Compare("cmphi_r", t.rel, t.y).words[1] = 32897
      /\ Compare("tsthi", t.rel, t.y).words[1] = 49153
      /\ Compare("cmpqi", t.rel, t.y).words[1] = 36993
      /\ Compare("tstqi", t.rel, t.y).words[1] = 53249
  BY CompareCodes
<1>2. t.how \in Constant => Compare(t.how, t.rel, t.y).words[1] = 641
  <2>1. t.how \in Constant => \E v : Compare(t.how, t.rel, t.y).words = <<641, v>>
    BY CompareCodes DEF Constant
  <2> QED BY <2>1
<1>3. CASE t.how = "cmphi_r"
  BY <1>1, <1>3 DEF Compared, Constant
<1>4. CASE t.how = "tsthi"
  BY <1>1, <1>4 DEF Compared, Constant
<1>5. CASE t.how = "cmpqi"
  BY <1>1, <1>5 DEF Compared, Constant
<1>6. CASE t.how = "tstqi"
  BY <1>1, <1>6 DEF Compared, Constant
<1>7. CASE t.how \in Constant
  BY <1>2, <1>7 DEF Compared, Constant
<1>8. CASE t.how \notin {"cmphi_r", "tsthi", "cmpqi", "tstqi"} \cup Constant
  BY <1>8
<1> QED BY <1>3, <1>4, <1>5, <1>6, <1>7, <1>8

(* The pattern of a branch and the peephole or pattern that compares: what *)
(* the compiler pairs. *)
Compiled(t) ==
  /\ t.how \in Comparisons
  /\ t.rel = "always" => ~t.reversed
  /\ t.how = "cmpqi_as_hi" => t.rel \notin {"eq", "ne"}

LEMMA CompareStep ==
  ASSUME NEW t, IsTest(t), Placed(t), Compiled(t), NEW m, Loaded(t, m), Reg(m, 2) = t.y, m.pc = Entry(t)
  PROVE  LET w == ReadW(m, m.pc)
             n == ResultOf(Fetched(m), w)
         IN  /\ Known(w) /\ Loaded(t, n) /\ n.pc = Entry(t) + CodeSize(Flags(t))
             /\ Leads(n, Branch(t)) <=> Condition(t)
<1>1. PICK c \in Plain : c = Compare(t.how, t.rel, t.y)
  BY CompareSits DEF Compiled
<1>2. PICK ws \in Seq(Word) : ws = c.words /\ c.kind = "words"
  BY DEF Plain
<1>3. Len(ws) = IF t.how \in Constant THEN 2 ELSE 1
  BY <1>1, <1>2, CompareWords DEF Compiled
<1>4. Size(c) = 2 * Len(ws)
  BY <1>2, SizeByKind
<1>5. Sits(Code(t), c, m.pc) /\ CodeSize(Flags(t)) = Size(c)
  BY <1>1, CompareSits DEF Compiled
<1>6. /\ c \in WordItem /\ m.pc \in Int /\ IsEven(m.pc) /\ CodeBase <= m.pc
      /\ m.pc + Size(c) <= Registers
  BY <1>5, Inside
<1>7. /\ m.pc + 2 \in Word /\ m.pc + 2 <= Registers
      /\ t.how \in Constant => (m.pc + 2) + 2 \in Word
  BY <1>3, <1>4, <1>6, CodeBaseIs, RegistersAre DEF Word
<1>8. Emit(Code(t), CodeBase, c, m.pc) = ws
  BY <1>2, <1>6, EmitIs
<1>9. /\ ReadW(m, m.pc) = ws[1]
      /\ t.how \in Constant => ReadW(m, m.pc + 2) = ws[2]
  <2>1. 1 \in DOMAIN ws /\ (t.how \in Constant => 2 \in DOMAIN ws)
    BY <1>3
  <2>2. /\ ReadW(m, m.pc + 2 * (1 - 1)) = ws[1]
        /\ t.how \in Constant => ReadW(m, m.pc + 2 * (2 - 1)) = ws[2]
    BY <1>5, <1>8, <2>1, FetchFrom
  <2>3. m.pc + 2 * (1 - 1) = m.pc /\ m.pc + 2 * (2 - 1) = m.pc + 2
    BY <1>6
  <2> QED BY <2>2, <2>3
<1>10. PICK f : f = Fetched(m)
  OBVIOUS
<1>11. /\ Loaded(t, f) /\ f.pc = m.pc + 2
       /\ \A r : Reg(f, r) = Reg(m, r)
       /\ \A a : ReadW(f, a) = ReadW(m, a)
  BY <1>7, <1>10, FetchedIs
<1>12. Holding(t, f)
  <2>1. f.wp % 2 = 0
    BY <1>11, RegistersAre DEF Loaded, IsEven
  <2>2. Reg(f, 1) = t.x /\ Reg(f, 2) = t.y
    BY <1>11 DEF Loaded
  <2>3. t.how \in Constant => ReadW(f, f.pc) = c.words[2]
    BY <1>2, <1>9, <1>11
  <2> QED BY <1>1, <1>11, <2>1, <2>2, <2>3 DEF Holding, Loaded, Constant
<1>13. PICK n : n = ResultOf(f, ws[1])
  OBVIOUS
<1>14. Known(ws[1]) /\ n = Compared(t, f)
  <2>1. CASE t.how = "cmphi_r"
    <3>1. ws[1] = 32897
      BY <1>1, <1>2, <2>1, CompareCodes
    <3> QED BY <1>13, <2>1, <3>1, DecodedCompares, Results, ComparedIs DEF Known, OtherNames
  <2>2. CASE t.how = "tsthi"
    <3>1. ws[1] = 49153
      BY <1>1, <1>2, <2>2, CompareCodes
    <3> QED BY <1>13, <2>2, <3>1, DecodedCompares, Results, ComparedIs DEF Known, OtherNames
  <2>3. CASE t.how = "cmpqi"
    <3>1. ws[1] = 36993
      BY <1>1, <1>2, <2>3, CompareCodes
    <3> QED BY <1>13, <2>3, <3>1, DecodedCompares, Results, ComparedIs DEF Known, OtherNames
  <2>4. CASE t.how = "tstqi"
    <3>1. ws[1] = 53249
      BY <1>1, <1>2, <2>4, CompareCodes
    <3> QED BY <1>13, <2>4, <3>1, DecodedCompares, Results, ComparedIs DEF Known, OtherNames
  <2>5. CASE t.how \in Constant
    <3>1. ws[1] = 641
      <4>1. \E v : ws = <<641, v>>
        BY <1>1, <1>2, <2>5, CompareCodes DEF Constant
      <4> QED BY <4>1
    <3> QED BY <1>13, <2>5, <3>1, DecodedCompares, Results, ComparedIs DEF Known, OtherNames
  <2> QED BY <2>1, <2>2, <2>3, <2>4, <2>5 DEF Compiled, Comparisons, Constant
<1>15. Loaded(t, n) /\ n.pc = IF t.how \in Constant THEN f.pc + 2 ELSE f.pc
  <2>1. t.how \in Constant => Loaded(t, Compared(t, f)) /\ Compared(t, f).pc = f.pc + 2
    BY <1>7, <1>11, ComparedIs, ComparesKeep
  <2>2. t.how \in {"cmphi_r", "tsthi", "cmpqi", "tstqi"} =>
          Loaded(t, Compared(t, f)) /\ Compared(t, f).pc = f.pc
    BY <1>11, ComparedIs, ComparesKeep
  <2>3. t.how \in Constant \/ (t.how \in {"cmphi_r", "tsthi", "cmpqi", "tstqi"} /\ t.how \notin Constant)
    BY DEF Compiled, Comparisons, Constant
  <2> QED BY <1>14, <2>1, <2>2, <2>3
<1>16. n.pc = Entry(t) + CodeSize(Flags(t))
  <2>1. PICK e \in Int : e = m.pc /\ e = Entry(t)
    BY <1>6
  <2>2. CASE t.how \in Constant
    <3>1. CodeSize(Flags(t)) = 4 /\ n.pc = (e + 2) + 2
      BY <1>3, <1>4, <1>5, <1>11, <1>15, <2>1, <2>2
    <3> QED BY <2>1, <3>1
  <2>3. CASE t.how \notin Constant
    <3>1. CodeSize(Flags(t)) = 2 /\ n.pc = e + 2
      BY <1>3, <1>4, <1>5, <1>11, <1>15, <2>1, <2>3
    <3> QED BY <2>1, <3>1
  <2> QED BY <2>2, <2>3
<1>17. Leads(n, Branch(t)) <=> Condition(t)
  BY <1>12, <1>14, ComparisonsDecide DEF Compiled
<1> QED BY <1>9, <1>10, <1>13, <1>14, <1>15, <1>16, <1>17

-----------------------------------------------------------------------------
(* The way of a test through its code: at the compare instruction, at an   *)
(* item of the branch before which none went, or at one of the ways out.   *)

To(t, l) == LabelAddr(Code(t), CodeBase, l)

BranchStart(t) == Entry(t) + CodeSize(Flags(t))

Beginning(t, m) == Loaded(t, m) /\ Reg(m, 2) = t.y /\ m.pc = Entry(t)

Decided(t, m) == Loaded(t, m) /\ (Leads(m, Branch(t)) <=> Condition(t))

AtItem(t, m, k) ==
  /\ k \in 1 .. Len(Branch(t)) /\ Branch(t)[k] # Label("JMP")
  /\ m.pc = BranchStart(t) + Layout(Branch(t), 0)[k]
  /\ \A j \in 1 .. k - 1 : ~Goes(m, Branch(t)[j])

Arrived(t, m, l) == l \in {"l0", "next"} /\ m.pc = To(t, l) /\ (l = "l0" <=> Leads(m, Branch(t)))

OnTheWay(t, m) ==
  \/ Beginning(t, m)
  \/ Decided(t, m) /\ ((\E k : AtItem(t, m, k)) \/ (\E l : Arrived(t, m, l)))

LEMMA NextIs ==
  ASSUME NEW t, IsTest(t)
  PROVE  /\ BranchStart(t) \in Int
         /\ To(t, "next") = BranchStart(t) + CodeSize(Branch(t))
         /\ Entry(t) = CodeBase + CodeSize(Before(t)) /\ Entry(t) \in Int
<1>1. PICK a \in Int, f \in Int, b \in Int :
        a = CodeSize(Before(t)) /\ f = CodeSize(Flags(t)) /\ b = CodeSize(Branch(t))
  BY BeforeFacts, TestTypes, CodeSizeIs
<1>2. PICK c \in Int : c = CodeBase
  BY CodeBaseIs
<1>3. Entry(t) = c + a /\ BranchStart(t) = (c + a) + f
  BY <1>1, <1>2 DEF Entry, BranchStart
<1>4. PICK at : at = a + f + b
  OBVIOUS
<1>5. To(t, "next") = c + at
  BY <1>1, <1>2, <1>4, LabelPlaces DEF To
<1>6. c + at = ((c + a) + f) + b
  BY ONLY <1>4, a \in Int, b \in Int, c \in Int, f \in Int
<1> QED BY <1>1, <1>2, <1>3, <1>5, <1>6

LEMMA StillDecided ==
  ASSUME NEW t, IsTest(t), NEW m, Decided(t, m), NEW n, Loaded(t, n), n.st = m.st
  PROVE  Decided(t, n) /\ (Leads(n, Branch(t)) <=> Leads(m, Branch(t)))
BY Shapes, SameLeads DEF Decided

LEMMA ItemStep ==
  ASSUME NEW t, IsTest(t), Placed(t), Fits(t), NEW m, Decided(t, m), NEW k, AtItem(t, m, k)
  PROVE  LET w == ReadW(m, m.pc)
             n == ResultOf(Fetched(m), w)
         IN  Known(w) /\ OnTheWay(t, n)
<1>1. PICK p : p = Branch(t) /\ Shape(p)
  BY Shapes
<1>2. /\ k \in 1 .. Len(p) /\ p[k] # Label("JMP") /\ m.pc = BranchStart(t) + Layout(p, 0)[k]
      /\ \A j \in 1 .. k - 1 : ~Goes(m, p[j])
  BY <1>1 DEF AtItem
<1>3. Sits(Code(t), p[k], m.pc)
  BY <1>1, <1>2, BranchSits DEF BranchStart
<1>4. Loaded(t, m)
  BY DEF Decided
<1>5. PICK w : w = ReadW(m, m.pc)
  OBVIOUS
<1>6. PICK n : n = ResultOf(Fetched(m), w)
  OBVIOUS
<1>7. CASE p[k] = LongWay
  <2>1. Known(w) /\ Loaded(t, n) /\ n.st = m.st /\ n.pc = To(t, "l0")
    BY <1>3, <1>4, <1>5, <1>6, <1>7, LongStep DEF To
  <2>2. Goes(m, p[k]) /\ p[k].label = "l0"
    BY <1>7, ItemKinds DEF Goes
  <2>3. Leads(m, p)
    BY <1>1, <1>2, <2>2, FirstGoes
  <2>4. Decided(t, n) /\ Leads(n, Branch(t))
    BY <1>1, <2>1, <2>3, StillDecided
  <2>5. Arrived(t, n, "l0")
    BY <2>1, <2>4 DEF Arrived
  <2> QED BY <1>5, <1>6, <2>1, <2>4, <2>5 DEF OnTheWay
<1>8. CASE p[k] # LongWay
  <2>1. /\ IsJump(p[k])
        /\ k < Len(p) => p[k + 1] # Label("JMP")
        /\ p[k].label = "JMP" => p[Len(p)] = Label("JMP")
    BY <1>1, <1>2, <1>8 DEF Shape
  <2>2. PICK asm \in AsmJumps, l \in {"l0", "JMP"} : p[k] = JumpTo(asm, l)
    BY <2>1 DEF IsJump
  <2>3. p[k].label = l /\ p[k].kind = "jump" /\ Size(p[k]) = 2
    BY <2>2, ItemKinds, SizeByKind
  <2>4. PICK out \in {"l0", "next"} : To(t, l) = To(t, out) /\ (out = "l0" <=> l = "l0")
    <3>1. CASE l = "l0"
      BY <3>1
    <3>2. CASE l = "JMP"
      <4>1. To(t, "JMP") = To(t, "next")
        BY <1>1, <2>1, <2>3, <3>2, BehindBranch DEF To
      <4> QED BY <3>2, <4>1
    <3> QED BY <3>1, <3>2
  <2>5. CodeAddress(To(t, l))
    BY <2>4, LabelsInside DEF To
  <2>6. /\ CodeAddress(m.pc) /\ Known(w) /\ Loaded(t, n) /\ n.st = m.st
        /\ n.pc = IF Taken(m, p[k]) THEN To(t, l) ELSE m.pc + 2
    BY <1>3, <1>4, <1>5, <1>6, <2>2, <2>5, JumpStep DEF To
  <2>7. Goes(m, p[k]) <=> Taken(m, p[k])
    BY <2>1, SameGoes
  <2>8. Decided(t, n) /\ (Leads(n, p) <=> Leads(m, p))
    BY <1>1, <2>6, StillDecided
  <2>9. CASE Taken(m, p[k])
    <3>1. Leads(m, p) <=> l = "l0"
      BY <1>1, <1>2, <2>3, <2>7, <2>9, FirstGoes
    <3>2. Arrived(t, n, out)
      BY <1>1, <2>4, <2>6, <2>8, <2>9, <3>1 DEF Arrived
    <3> QED BY <1>5, <1>6, <2>6, <2>8, <3>2 DEF OnTheWay
  <2>10. CASE ~Taken(m, p[k])
    <3>1. p \in Seq(Item) /\ Len(p) \in Nat /\ k \in Nat
      BY <1>1, <1>2, EndOfShape
    <3>2. \A j \in 1 .. k : ~Goes(m, p[j])
      <4>1. \A j \in 1 .. k : j \in 1 .. k - 1 \/ j = k
        BY <3>1
      <4> QED BY <1>2, <2>7, <2>10, <4>1
    <3>3. \A j \in 1 .. k : ~Goes(n, p[j])
      <4>1. \A j \in 1 .. k : j \in 1 .. Len(p)
        BY <1>2, <3>1
      <4> QED BY <1>1, <2>6, <3>2, <4>1, SameLeads
    <3>4. PICK b \in Int, o \in Int : b = BranchStart(t) /\ o = Layout(p, 0)[k] /\ n.pc = b + o + 2
      <4>1. Layout(p, 0)[k] \in Int
        BY <1>2, <3>1, FirstAndNext, 0 \in Int
      <4>2. PICK b \in Int, o \in Int : b = BranchStart(t) /\ o = Layout(p, 0)[k] /\ m.pc = b + o
        BY <1>2, <4>1, NextIs
      <4>3. n.pc = b + o + 2
        BY <2>6, <2>10, <4>2
      <4> QED BY <4>2, <4>3
    <3>5. CASE k < Len(p)
      <4>1. k \in 1 .. Len(p) - 1 /\ k + 1 \in 1 .. Len(p) /\ k = (k + 1) - 1
        BY <1>2, <3>1, <3>5
      <4>2. Layout(p, 0)[k + 1] = o + 2
        BY <2>3, <3>1, <3>4, <4>1, FirstAndNext, 0 \in Int
      <4>3. n.pc = b + Layout(p, 0)[k + 1]
        BY <3>4, <4>2
      <4>4. \A j \in 1 .. (k + 1) - 1 : ~Goes(n, p[j])
        BY <3>3, <4>1
      <4>5. AtItem(t, n, k + 1)
        BY <1>1, <2>1, <3>4, <3>5, <4>1, <4>3, <4>4 DEF AtItem
      <4> QED BY <1>5, <1>6, <2>6, <2>8, <4>5 DEF OnTheWay
    <3>6. CASE k = Len(p)
      <4>1. CodeSize(p) = o + 2
        BY <1>1, <2>3, <3>4, <3>6, EndOfShape
      <4>2. To(t, "next") = b + (o + 2)
        BY <1>1, <3>4, <4>1, NextIs
      <4>3. n.pc = To(t, "next")
        BY <3>4, <4>2
      <4>4. ~Leads(n, p)
        BY <3>1, <3>3, <3>6 DEF Leads
      <4>5. Arrived(t, n, "next")
        BY <1>1, <4>3, <4>4 DEF Arrived
      <4> QED BY <1>5, <1>6, <2>6, <2>8, <4>5 DEF OnTheWay
    <3> QED BY <1>2, <3>1, <3>5, <3>6
  <2> QED BY <2>9, <2>10
<1> QED BY <1>7, <1>8

LEMMA ArrivedStep ==
  ASSUME NEW t, IsTest(t), Placed(t), Fits(t), NEW m, Decided(t, m), NEW l, Arrived(t, m, l)
  PROVE  LET w == ReadW(m, m.pc)
             n == ResultOf(Fetched(m), w)
         IN  Known(w) /\ OnTheWay(t, n)
<1>1. l \in {"l0", "next"} /\ m.pc = To(t, l) /\ (l = "l0" <=> Leads(m, Branch(t)))
  BY DEF Arrived
<1>2. Sits(Code(t), JumpTo("jmp", l), m.pc) /\ CodeAddress(To(t, l))
  BY <1>1, LoopsSit, LabelsInside DEF To
<1>3. PICK w : w = ReadW(m, m.pc)
  OBVIOUS
<1>4. PICK n : n = ResultOf(Fetched(m), w)
  OBVIOUS
<1>5. "jmp" \in AsmJumps
  BY DEF AsmJumps
<1>6. /\ Known(w) /\ Loaded(t, n) /\ n.st = m.st
      /\ n.pc = IF Taken(m, JumpTo("jmp", l)) THEN To(t, l) ELSE m.pc + 2
  BY <1>2, <1>3, <1>4, <1>5, JumpStep DEF To, Decided
<1>7. Taken(m, JumpTo("jmp", l))
  <2>1. PICK e \in BOOLEAN, g \in BOOLEAN, a \in BOOLEAN : FlagsAre(m, e, g, a)
    <3>1. /\ HasFlag(m, FLAG_EQ) \in BOOLEAN /\ HasFlag(m, FLAG_LGT) \in BOOLEAN
          /\ HasFlag(m, FLAG_AGT) \in BOOLEAN
      BY DEF HasFlag
    <3> QED BY <3>1, Zenon DEF FlagsAre
  <2> QED BY <1>5, <2>1, AsmTaken, AsksIs
<1>8. Decided(t, n) /\ (Leads(n, Branch(t)) <=> Leads(m, Branch(t)))
  BY <1>6, StillDecided
<1>9. Arrived(t, n, l)
  BY <1>1, <1>6, <1>7, <1>8 DEF Arrived
<1> QED BY <1>3, <1>4, <1>6, <1>8, <1>9 DEF OnTheWay

(* One instruction further along the way. *)
LEMMA OneStep ==
  ASSUME NEW t, IsTest(t), Placed(t), Fits(t), Compiled(t), NEW m, OnTheWay(t, m)
  PROVE  LET w == ReadW(m, m.pc)
         IN  Known(w) /\ OnTheWay(t, ResultOf(Fetched(m), w))
<1>1. CASE Beginning(t, m)
  <2>1. PICK w : w = ReadW(m, m.pc)
    OBVIOUS
  <2>2. PICK n : n = ResultOf(Fetched(m), w)
    OBVIOUS
  <2>3. /\ Known(w) /\ Loaded(t, n) /\ n.pc = BranchStart(t)
        /\ Leads(n, Branch(t)) <=> Condition(t)
    BY <1>1, <2>1, <2>2, CompareStep DEF Beginning, BranchStart
  <2>4. Decided(t, n)
    BY <2>3 DEF Decided
  <2>5. AtItem(t, n, 1)
    <3>1. PICK p : p = Branch(t) /\ Shape(p)
      BY Shapes
    <3>2. p \in Seq(Item) /\ Len(p) > 0 /\ p[1] # Label("JMP") /\ Len(p) \in Nat
      BY <3>1, EndOfShape DEF Shape
    <3>3. Layout(p, 0)[1] = 0
      BY <3>2, FirstAndNext, 0 \in Int
    <3>4. PICK b \in Int : b = BranchStart(t)
      BY NextIs
    <3>5. n.pc = b + Layout(p, 0)[1]
      BY <2>3, <3>3, <3>4
    <3> QED BY <3>1, <3>2, <3>4, <3>5 DEF AtItem
  <2> QED BY <2>1, <2>2, <2>3, <2>4, <2>5 DEF OnTheWay
<1> QED BY <1>1, ItemStep, ArrivedStep DEF OnTheWay

(* The ways out are at neither of these places, and not at the same one. *)
LEMMA Apart ==
  ASSUME NEW t, IsTest(t), Placed(t), Compiled(t)
  PROVE  \E e \in Int, s \in Int, l \in Int, n \in Int :
           /\ e = Entry(t) /\ s = BranchStart(t) /\ l = To(t, "l0") /\ n = To(t, "next")
           /\ e < s /\ s < n /\ (l < e \/ l > n)
           /\ \A k \in 1 .. Len(Branch(t)) : Branch(t)[k] # Label("JMP") =>
                \E o \in Int : o = Layout(Branch(t), 0)[k] /\ 0 <= o /\ s + o < n
<1>1. PICK c \in Int, a \in Int, f \in Int, b \in Int :
        c = CodeBase /\ a = CodeSize(Before(t)) /\ f = CodeSize(Flags(t)) /\ b = CodeSize(Branch(t))
  BY BeforeFacts, TestTypes, CodeSizeIs, CodeBaseIs
<1>2. PICK d \in Int, m \in Int : d = t.distance /\ m = Miscounted(t.adds) /\ m >= 0
  BY TestTypes
<1>3. PICK e \in Int, s \in Int : e = Entry(t) /\ s = BranchStart(t) /\ e = c + a /\ s = e + f
  BY <1>1, NextIs DEF BranchStart
<1>4. PICK n \in Int : n = To(t, "next") /\ n = s + b
  <2>1. PICK n \in Int : n = s + b
    OBVIOUS
  <2>2. To(t, "next") = BranchStart(t) + CodeSize(Branch(t))
    BY NextIs
  <2> QED BY <1>1, <1>3, <2>1, <2>2
<1>5. f > 0
  <2>1. PICK q \in Plain : q = Compare(t.how, t.rel, t.y) /\ f = Size(q)
    BY <1>1, CompareSits DEF Compiled
  <2>2. q.kind = "words" /\ q.words \in Seq(Word)
    BY <2>1 DEF Plain
  <2>3. PICK len \in {1, 2} : len = Len(q.words)
    BY <2>1, CompareWords DEF Compiled
  <2>4. Size(q) = 2 * Len(q.words)
    BY <2>2, SizeByKind
  <2>5. f = 2 * len
    BY <2>1, <2>3, <2>4
  <2> QED BY ONLY <2>5, len \in {1, 2}
<1>6. PICK p : p = Branch(t) /\ Shape(p)
  BY Shapes
<1>7. b > 0
  BY <1>1, <1>6, EndOfShape
<1>8. PICK l \in Int : l = To(t, "l0") /\ (l < e \/ l > n)
  <2>1. CASE d <= 0
    <3>1. To(t, "l0") = c
      BY <1>1, <1>2, <2>1, LabelPlaces DEF To
    <3>2. a = m - d - f
      BY <1>1, <1>2, <2>1, BeforeFacts
    <3>3. PICK r \in Nat : r = CodeSize(Counted(t.adds))
      BY TestTypes, CountedEven
    <3>4. r <= -d - 2 - f
      BY <1>1, <1>2, <2>1, <3>3 DEF Placed
    <3>5. c < e
      BY ONLY <1>2, <1>3, <3>2, <3>4, a \in Int, c \in Int, d \in Int, e \in Int, f \in Int, m \in Int, r \in Nat
    <3> QED BY <3>1, <3>5
  <2>2. CASE d > 0
    <3>1. PICK at \in Int : at = a + f + b
      OBVIOUS
    <3>2. To(t, "l0") = c + (at + d + m)
      BY <1>1, <1>2, <2>2, <3>1, LabelPlaces DEF To
    <3>3. c + (at + d + m) > n
      BY ONLY <1>2, <1>3, <1>4, <2>2, <3>1, a \in Int, b \in Int, c \in Int, d \in Int, e \in Int,
              f \in Int, m \in Int, n \in Int, s \in Int
    <3> QED BY <3>2, <3>3
  <2> QED BY <2>1, <2>2
<1>9. ASSUME NEW k \in 1 .. Len(p), p[k] # Label("JMP")
      PROVE  \E o \in Int : o = Layout(p, 0)[k] /\ 0 <= o /\ s + o < n
  <2>1. p \in Seq(WordItem)
    BY <1>6 DEF Shape
  <2>2. PICK o \in Int : o = Layout(p, 0)[k] /\ 0 <= o
    BY <2>1, WithinCode, 0 \in Int
  <2>3. o < b
    BY <1>1, <1>6, <1>9, <2>2, EndOfShape
  <2> QED BY <1>4, <2>2, <2>3
<1>10. e < s /\ s < n
  BY <1>3, <1>4, <1>5, <1>7
<1> QED BY <1>3, <1>4, <1>6, <1>8, <1>9, <1>10

LEMMA WaysOut ==
  ASSUME NEW t, IsTest(t), Placed(t), Compiled(t), NEW m, OnTheWay(t, m)
  PROVE  /\ m.pc = To(t, "l0") => Condition(t)
         /\ m.pc = To(t, "next") => ~Condition(t)
         /\ Reg(m, 1) = t.x
<1>1. PICK e \in Int, s \in Int, l \in Int, n \in Int :
        /\ e = Entry(t) /\ s = BranchStart(t) /\ l = To(t, "l0") /\ n = To(t, "next")
        /\ e < s /\ s < n /\ (l < e \/ l > n)
        /\ \A k \in 1 .. Len(Branch(t)) : Branch(t)[k] # Label("JMP") =>
             \E o \in Int : o = Layout(Branch(t), 0)[k] /\ 0 <= o /\ s + o < n
  BY Apart
<1>2. CASE Beginning(t, m)
  <2>1. m.pc = e /\ Reg(m, 1) = t.x
    BY <1>1, <1>2 DEF Beginning, Loaded
  <2>2. e # l /\ e # n
    BY ONLY <1>1
  <2> QED BY <1>1, <2>1, <2>2
<1>3. ASSUME Decided(t, m), NEW k, AtItem(t, m, k)
      PROVE  m.pc # l /\ m.pc # n
  <2>1. PICK o \in Int : o = Layout(Branch(t), 0)[k] /\ 0 <= o /\ s + o < n
    BY <1>1, <1>3 DEF AtItem
  <2>2. m.pc = s + o
    BY <1>1, <1>3, <2>1 DEF AtItem
  <2>3. s + o # l /\ s + o # n
    <3>1. e < s /\ s < n /\ (l < e \/ l > n)
      BY <1>1
    <3> QED BY ONLY <2>1, <3>1, e \in Int, l \in Int, n \in Int, o \in Int, s \in Int
  <2> QED BY <2>2, <2>3
<1>4. ASSUME Decided(t, m), NEW out, Arrived(t, m, out)
      PROVE  /\ m.pc = l => Condition(t)
             /\ m.pc = n => ~Condition(t)
  <2>1. l # n
    <3>1. e < s /\ s < n /\ (l < e \/ l > n)
      BY <1>1
    <3> QED BY ONLY <3>1, e \in Int, l \in Int, n \in Int, s \in Int
  <2>2. Leads(m, Branch(t)) <=> Condition(t)
    BY <1>4 DEF Decided
  <2>3. CASE out = "l0"
    BY <1>1, <1>4, <2>1, <2>2, <2>3 DEF Arrived
  <2>4. CASE out = "next"
    BY <1>1, <1>4, <2>1, <2>2, <2>4 DEF Arrived
  <2> QED BY <1>4, <2>3, <2>4 DEF Arrived
<1>5. Decided(t, m) => Reg(m, 1) = t.x
  BY DEF Decided, Loaded
<1> QED BY <1>1, <1>2, <1>3, <1>4, <1>5 DEF OnTheWay

-----------------------------------------------------------------------------
(* Whole runs.                                                             *)

(* A comparison whose code is laid out as the hypotheses of the theorems   *)
(* say: in memory, with room for what its distance spans.                  *)
Sound(t) == IsTest(t) /\ Placed(t) /\ Fits(t) /\ Compiled(t)

(* The inductive invariant: the processor is on the way of its test, or    *)
(* between the fetch and the execution of an instruction on that way.      *)
Underway ==
  /\ Sound(test)
  /\ labels = [l \in {"l0", "next"} |-> To(test, l)]
  /\ mode \in {"fetch", "execute", "check"}
  /\ mode # "execute" => OnTheWay(test, cpu)
  /\ mode = "execute" => \E m : OnTheWay(test, m) /\ ir = ReadW(m, m.pc) /\ cpu = Fetched(m)

LEMMA RunFollows ==
  ASSUME Underway, BranchNext PROVE Underway'
<1>1. Run /\ test' = test /\ labels' = labels
  BY DEF BranchNext
<1>2. Sound(test) /\ labels = [l \in {"l0", "next"} |-> To(test, l)]
  BY DEF Underway
<1>3. CASE mode = "fetch"
  <2>1. mode' = "execute" /\ ir' = ReadW(cpu, cpu.pc) /\ cpu' = Fetched(cpu)
    BY <1>1, <1>3 DEF Run, Fetch, ExecuteImmediate, ExecuteSingle, ExecuteShift, ExecuteJump,
      ExecuteDual1, ExecuteDual2, Execute, ExecuteX, Halt, NoInterrupt
  <2>2. OnTheWay(test, cpu)
    BY <1>3 DEF Underway
  <2> QED BY <1>1, <1>2, <2>1, <2>2 DEF Underway
<1>4. CASE mode = "execute"
  <2>1. PICK m : OnTheWay(test, m) /\ ir = ReadW(m, m.pc) /\ cpu = Fetched(m)
    BY <1>4 DEF Underway
  <2>2. Known(ir) /\ OnTheWay(test, ResultOf(cpu, ir))
    BY <1>2, <2>1, OneStep DEF Sound
  <2>3. cpu' = ResultOf(cpu, ir) /\ mode' = "check"
    BY <1>1, <1>4, <2>2, Executes
  <2> QED BY <1>1, <1>2, <2>2, <2>3 DEF Underway
<1>5. CASE mode = "check"
  <2>1. cpu' = cpu /\ mode' \in {"check", "fetch"}
    BY <1>1, <1>5 DEF Run, Fetch, ExecuteImmediate, ExecuteSingle, ExecuteShift, ExecuteJump,
      ExecuteDual1, ExecuteDual2, Execute, ExecuteX, Halt, NoInterrupt, ReturnFromExecute
  <2>2. OnTheWay(test, cpu)
    BY <1>5 DEF Underway
  <2> QED BY <1>1, <1>2, <2>1, <2>2 DEF Underway
<1> QED BY <1>3, <1>4, <1>5 DEF Underway

LEMMA RunStarts ==
  ASSUME BranchInit, Placed(test) /\ Fits(test) /\ Compiled(test) PROVE Underway
<1>1. test \in Tests /\ cpu = Machine(test) /\ mode = "fetch"
  BY DEF BranchInit, Start
<1>2. Sound(test)
  BY <1>1, TestsAssumption DEF Sound
<1>3. labels = [l \in {"l0", "next"} |-> To(test, l)]
  BY DEF BranchInit, To
<1>4. Beginning(test, cpu)
  BY <1>1, <1>2, MachineIs DEF Beginning, Sound, Compiled
<1> QED BY <1>1, <1>2, <1>3, <1>4 DEF Underway, OnTheWay

LEMMA UnderwayIs ==
  ASSUME Underway PROVE TakenIffHolds /\ ValueRight
<1>1. Sound(test) /\ labels["l0"] = To(test, "l0") /\ labels["next"] = To(test, "next")
  BY DEF Underway
<1>2. mode = "fetch" => OnTheWay(test, cpu)
  BY DEF Underway
<1>3. TakenIffHolds
  BY <1>1, <1>2, WaysOut DEF TakenIffHolds, Reached, Sound
<1>4. ValueRight
  <2>1. mode = "fetch" => Reg(cpu, 1) = test.x
    BY <1>1, <1>2, WaysOut DEF Sound
  <2>2. Value(test) = IF Width(test) = "HI" THEN test.x ELSE HiByte(test.x)
    BY <1>1, ComparedValues DEF Sound, Compiled
  <2> QED BY <2>1, <2>2 DEF ValueRight, Reached
<1> QED BY <1>3, <1>4

(* For every test that compares: executing the code output_branch gives    *)
(* the branch, from the compare instruction on, the processor arrives at   *)
(* the target of the branch only when the C condition holds, and behind    *)
(* the branch only when it does not -- whatever the operands, the          *)
(* relation, the form and the distance, as long as what the length         *)
(* attributes do not count fits and the code is in memory.                 *)
THEOREM ComparisonsBranch ==
  BranchSpec => [](Placed(test) /\ Fits(test) /\ Compiled(test) => TakenIffHolds)
<1> DEFINE Meant == Placed(test) /\ Fits(test) /\ Compiled(test)
<1> DEFINE Inv == Meant => Underway
<1>1. BranchInit => Inv
  BY RunStarts
<1>2. Inv /\ [BranchNext]_branchVars => Inv'
  <2>1. [BranchNext]_branchVars => test' = test
    BY DEF BranchNext, branchVars
  <2>2. [BranchNext]_branchVars /\ Meant' => Meant
    BY <2>1
  <2>3. Underway /\ [BranchNext]_branchVars => Underway'
    <3>1. Underway /\ UNCHANGED branchVars => Underway'
      BY DEF Underway, branchVars, vars
    <3> QED BY <3>1, RunFollows
  <2> QED BY <2>2, <2>3
<1>3. Inv => (Meant => TakenIffHolds)
  BY UnderwayIs
<1> QED BY <1>1, <1>2, <1>3, PTL DEF BranchSpec

(* On both ways out R1 still holds the value that was compared: no compare *)
(* pattern or peephole of tms9900.md, and no jump behind it, changes it.   *)
THEOREM ComparisonsKeepValue ==
  BranchSpec => [](Placed(test) /\ Fits(test) /\ Compiled(test) => ValueRight)
<1> DEFINE Meant == Placed(test) /\ Fits(test) /\ Compiled(test)
<1> DEFINE Inv == Meant => Underway
<1>1. BranchInit => Inv
  BY RunStarts
<1>2. Inv /\ [BranchNext]_branchVars => Inv'
  <2>1. [BranchNext]_branchVars => test' = test
    BY DEF BranchNext, branchVars
  <2>2. [BranchNext]_branchVars /\ Meant' => Meant
    BY <2>1
  <2>3. Underway /\ [BranchNext]_branchVars => Underway'
    <3>1. Underway /\ UNCHANGED branchVars => Underway'
      BY DEF Underway, branchVars, vars
    <3> QED BY <3>1, RunFollows
  <2> QED BY <2>2, <2>3
<1>3. Inv => (Meant => ValueRight)
  BY UnderwayIs
<1> QED BY <1>1, <1>2, <1>3, PTL DEF BranchSpec
=============================================================================
