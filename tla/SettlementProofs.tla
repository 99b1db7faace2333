-------------------------- MODULE SettlementProofs --------------------------
(***************************************************************************)
(* Lemmas about the amounts and the transfers of a settlement in closed    *)
(* form, for windows and lists of any length: the sums and subsequences    *)
(* the loops accumulate, what the pool and the matched energy add up to,   *)
(* and the transfers of the swap.                                          *)
(*                                                                         *)
(* A recursive function is the CHOOSE of a function that satisfies its     *)
(* equation.  That there is one, and what its values are, is shown by      *)
(* induction in first-order form: a set of naturals that holds 0 and is    *)
(* closed under successor holds every natural.                             *)
(***************************************************************************)
EXTENDS Settlement, FiniteSetTheorems, WellFoundedInduction, TLAPS

(* The order of the naturals, as a relation. *)
Less == {p \in Nat \X Nat : p[1] < p[2]}

(* A set of naturals that is not empty has a least element. *)
LEMMA Least ==
  ASSUME NEW T \in SUBSET Nat, T # {}
  PROVE  \E x \in T : \A y \in T : x <= y
<1>1. IsWellFoundedOn(Less, Nat)
  BY NatLessThanWellFounded DEF OpToRel, Less
<1> HIDE DEF Less
<1>2. PICK x \in T : \A y \in T : ~(<<y, x>> \in Less)
  BY <1>1, WFMin
<1>3. ASSUME NEW y \in T PROVE x <= y
  <2>1. x \in Nat /\ y \in Nat /\ <<y, x>> \in Nat \X Nat
    OBVIOUS
  <2>2. ~(y < x)
    <3>1. <<y, x>> \in Less <=> y < x
      BY <2>1 DEF Less
    <3> QED
      BY <1>2, <3>1
  <2> QED
    BY <2>1, <2>2
<1> QED
  BY <1>3

(* Induction. *)
LEMMA Inductive ==
  ASSUME NEW S, 0 \in S, \A n \in Nat : n \in S => n + 1 \in S
  PROVE  Nat \subseteq S
<1> SUFFICES ASSUME Nat \ S # {} PROVE FALSE
  OBVIOUS
<1>1. PICK x \in Nat \ S : \A y \in Nat \ S : x <= y
  BY Least
<1>2. x # 0 /\ x - 1 \in Nat /\ x - 1 \in S
  BY <1>1
<1> QED
  BY <1>1, <1>2

(* f unrolls the recursion with this base and step. *)
Unrolls(f, V, base, n, step) ==
  /\ f \in [0 .. n -> V]
  /\ f[0] = base
  /\ \A j \in 1 .. n : f[j] = step[<<f[j - 1], j>>]

(* A step that is defined everywhere can be repeated any number of times. *)
LEMMA Recursion ==
  ASSUME NEW V, NEW base \in V, NEW N \in Nat, NEW step \in [V \X (1 .. N) -> V]
  PROVE  \E f : Unrolls(f, V, base, N, step)
<1> DEFINE S == {n \in Nat : n <= N => \E f : Unrolls(f, V, base, n, step)}
<1>1. 0 \in S
  <2> DEFINE f == [j \in 0 .. 0 |-> base]
  <2>1. f \in [0 .. 0 -> V] /\ f[0] = base
    OBVIOUS
  <2>2. \A j \in 1 .. 0 : f[j] = step[<<f[j - 1], j>>]
    OBVIOUS
  <2> HIDE DEF f
  <2>3. Unrolls(f, V, base, 0, step)
    BY <2>1, <2>2 DEF Unrolls
  <2> QED
    BY <2>3
<1>2. ASSUME NEW n \in Nat, n \in S PROVE n + 1 \in S
  <2> SUFFICES ASSUME n + 1 <= N PROVE \E f : Unrolls(f, V, base, n + 1, step)
    OBVIOUS
  <2>1. PICK f : Unrolls(f, V, base, n, step)
    BY <1>2
  <2>2. /\ f \in [0 .. n -> V] /\ f[0] = base
        /\ \A j \in 1 .. n : f[j] = step[<<f[j - 1], j>>]
    BY <2>1 DEF Unrolls
  <2> DEFINE g == [j \in 0 .. n + 1 |-> IF j = n + 1 THEN step[<<f[n], n + 1>>] ELSE f[j]]
  <2>3. <<f[n], n + 1>> \in V \X (1 .. N)
    BY <2>2
  <2>4. g \in [0 .. n + 1 -> V] /\ g[0] = base
    BY <2>2, <2>3
  <2>5. ASSUME NEW j \in 1 .. n + 1 PROVE g[j] = step[<<g[j - 1], j>>]
    <3>1. CASE j = n + 1
      <4>1. g[j] = step[<<f[n], n + 1>>] /\ g[j - 1] = f[n]
        BY <3>1
      <4> QED
        BY <3>1, <4>1
    <3>2. CASE j # n + 1
      <4>1. j \in 1 .. n /\ g[j] = f[j] /\ g[j - 1] = f[j - 1]
        BY <3>2
      <4> QED
        BY <2>2, <4>1
    <3> QED
      BY <3>1, <3>2
  <2> HIDE DEF g
  <2>6. Unrolls(g, V, base, n + 1, step)
    BY <2>4, <2>5 DEF Unrolls
  <2> QED
    BY <2>6
<1> HIDE DEF S
<1>3. Nat \subseteq S
  BY <1>1, <1>2, Inductive
<1> QED
  BY <1>3 DEF S

-----------------------------------------------------------------------------
(* Sums. *)
LEMMA ElementIn ==
  ASSUME NEW S, NEW s \in Seq(S), NEW i \in DOMAIN s
  PROVE  s[i] \in S /\ i \in 1 .. Len(s)
  OBVIOUS

LEMMA IsSequence ==
  ASSUME NEW S, NEW n \in Nat, NEW f \in [1 .. n -> S]
  PROVE  f \in Seq(S) /\ Len(f) = n
  OBVIOUS

(* Division of naturals rounds down. *)
LEMMA Floor ==
  ASSUME NEW a \in Nat, NEW b \in Nat \ {0}
  PROVE  a \div b \in Nat /\ (a \div b) * b <= a
  OBVIOUS

LEMMA FloorBelow ==
  ASSUME NEW a \in Nat, NEW b \in Nat, NEW c \in Nat \ {0}, a <= b * c
  PROVE  a \div c <= b
  OBVIOUS

LEMMA ProductMonotone ==
  ASSUME NEW a \in Nat, NEW b \in Nat, NEW c \in Nat, a <= b
  PROVE  a * c <= b * c
  OBVIOUS

LEMMA Cancels ==
  ASSUME NEW a \in Nat, NEW b \in Nat, NEW c \in Nat \ {0}, a * c <= b * c
  PROVE  a <= b
  OBVIOUS

LEMMA Appended ==
  ASSUME NEW S, NEW s \in Seq(S), NEW e \in S
  PROVE  /\ Append(s, e) \in Seq(S)
         /\ Len(Append(s, e)) = Len(s) + 1
         /\ \A i \in DOMAIN s : Append(s, e)[i] = s[i]
         /\ Append(s, e)[Len(s) + 1] = e
         /\ \A i \in DOMAIN Append(s, e) : i \in DOMAIN s \/ i = Len(s) + 1
  OBVIOUS

LEMMA ProductNat ==
  ASSUME NEW a \in Nat, NEW b \in Nat
  PROVE  a * b \in Nat
  OBVIOUS

LEMMA UptoFacts ==
  ASSUME NEW s \in Seq(Nat)
  PROVE  /\ Upto(s, 0) = 0
         /\ \A j \in 1 .. Len(s) : Upto(s, j) = Upto(s, j - 1) + s[j]
         /\ \A j \in 0 .. Len(s) : Upto(s, j) \in Nat
<1> DEFINE F(f) == f = [j \in 0 .. Len(s) |-> IF j = 0 THEN 0 ELSE f[j - 1] + s[j]]
           sum == CHOOSE f : F(f)
           step == [p \in Nat \X (1 .. Len(s)) |-> p[1] + s[p[2]]]
<1>1. \A j : Upto(s, j) = sum[j]
  BY DEF Upto
<1>2. \E f : F(f)
  <2>1. step \in [Nat \X (1 .. Len(s)) -> Nat] /\ Len(s) \in Nat /\ 0 \in Nat
    OBVIOUS
  <2> HIDE DEF step
  <2>2. PICK f : Unrolls(f, Nat, 0, Len(s), step)
    BY <2>1, Recursion
  <2>3. ASSUME NEW j \in 1 .. Len(s) PROVE f[j] = f[j - 1] + s[j]
    <3>1. f[j - 1] \in Nat /\ f[j] = step[<<f[j - 1], j>>]
      BY <2>2 DEF Unrolls
    <3>2. <<f[j - 1], j>> \in Nat \X (1 .. Len(s))
      BY <3>1
    <3> QED
      BY <3>1, <3>2 DEF step
  <2>4. F(f)
    BY <2>2, <2>3 DEF Unrolls
  <2> QED
    BY <2>4
<1>3. F(sum)
  BY <1>2
<1> HIDE DEF sum
<1>4. sum[0] = 0 /\ \A j \in 1 .. Len(s) : sum[j] = sum[j - 1] + s[j]
  BY <1>3
<1>5. \A j \in 0 .. Len(s) : sum[j] \in Nat
  <2> DEFINE S == {j \in Nat : j <= Len(s) => sum[j] \in Nat}
  <2>1. 0 \in S
    BY <1>4
  <2>2. ASSUME NEW n \in Nat, n \in S PROVE n + 1 \in S
    <3> SUFFICES ASSUME n + 1 <= Len(s) PROVE sum[n + 1] \in Nat
      OBVIOUS
    <3> QED
      BY <1>4, <2>2
  <2> HIDE DEF S
  <2>3. Nat \subseteq S
    BY <2>1, <2>2, Inductive
  <2> QED
    BY <2>3 DEF S
<1> QED
  BY <1>1, <1>4, <1>5

(* Sums of natural numbers only grow. *)
LEMMA UptoStep ==
  ASSUME NEW s \in Seq(Nat), NEW n \in Nat, n + 1 <= Len(s)
  PROVE  /\ n + 1 \in 1 .. Len(s) /\ n \in 0 .. Len(s) /\ (n + 1) - 1 = n
         /\ Upto(s, n) \in Nat /\ s[n + 1] \in Nat
         /\ Upto(s, n + 1) = Upto(s, n) + s[n + 1]
<1>1. n + 1 \in 1 .. Len(s) /\ n \in 0 .. Len(s) /\ (n + 1) - 1 = n /\ s[n + 1] \in Nat
  OBVIOUS
<1>2. Upto(s, n + 1) = Upto(s, (n + 1) - 1) + s[n + 1] /\ Upto(s, n) \in Nat
  BY <1>1, UptoFacts, Zenon
<1> QED
  BY <1>1, <1>2

LEMMA UptoMonotone ==
  ASSUME NEW s \in Seq(Nat), NEW i \in 0 .. Len(s), NEW j \in 0 .. Len(s), i <= j
  PROVE  Upto(s, i) <= Upto(s, j)
<1> DEFINE S == {n \in Nat : i <= n /\ n <= Len(s) => Upto(s, i) <= Upto(s, n)}
<1>1. 0 \in S
  BY UptoFacts
<1>2. ASSUME NEW n \in Nat, n \in S PROVE n + 1 \in S
  <2> SUFFICES ASSUME i <= n + 1, n + 1 <= Len(s) PROVE Upto(s, i) <= Upto(s, n + 1)
    OBVIOUS
  <2>1. CASE i = n + 1
    BY <2>1, UptoFacts
  <2>2. CASE i # n + 1
    <3>1. Upto(s, i) <= Upto(s, n) /\ n + 1 \in 1 .. Len(s) /\ n \in 0 .. Len(s)
      BY <1>2, <2>2
    <3>2. Upto(s, n + 1) = Upto(s, n) + s[n + 1] /\ s[n + 1] \in Nat
      BY <3>1, UptoFacts
    <3>3. Upto(s, i) \in Nat /\ Upto(s, n) \in Nat
      BY <3>1, UptoFacts
    <3> QED
      BY <3>1, <3>2, <3>3
  <2> QED
    BY <2>1, <2>2
<1> HIDE DEF S
<1>3. Nat \subseteq S
  BY <1>1, <1>2, Inductive
<1> QED
  BY <1>3 DEF S

LEMMA TallyNat ==
  ASSUME NEW s \in Seq(Nat)
  PROVE  /\ Tally(s) \in Nat
         /\ \A i \in 0 .. Len(s) : Upto(s, i) <= Tally(s)
         /\ \A i \in DOMAIN s : s[i] <= Tally(s)
<1>1. Len(s) \in 0 .. Len(s) /\ Tally(s) = Upto(s, Len(s))
  BY DEF Tally
<1>2. Tally(s) \in Nat
  BY <1>1, UptoFacts
<1>3. \A i \in 0 .. Len(s) : Upto(s, i) <= Tally(s)
  BY <1>1, UptoMonotone
<1>4. ASSUME NEW i \in DOMAIN s PROVE s[i] <= Tally(s)
  <2>1. i \in 1 .. Len(s) /\ i - 1 \in 0 .. Len(s) /\ i \in 0 .. Len(s) /\ s[i] \in Nat
    OBVIOUS
  <2>2. Upto(s, i) = Upto(s, i - 1) + s[i] /\ Upto(s, i - 1) \in Nat
    BY <2>1, UptoFacts
  <2>3. Upto(s, i) <= Tally(s)
    BY <1>3, <2>1
  <2> QED
    BY <1>2, <2>1, <2>2, <2>3
<1> QED
  BY <1>2, <1>3, <1>4

LEMMA Distributes ==
  ASSUME NEW a \in Nat, NEW b \in Nat, NEW c \in Nat
  PROVE  (a + b) * c = a * c + b * c /\ c * (a + b) = c * a + c * b
  OBVIOUS

(* Parts that are each at most their share of a total are so together. *)
LEMMA Proportional ==
  ASSUME NEW s \in Seq(Nat), NEW t \in Seq(Nat), Len(t) = Len(s),
         NEW a \in Nat, NEW b \in Nat, \A i \in DOMAIN s : t[i] * b <= a * s[i]
  PROVE  \A i \in 0 .. Len(s) : Upto(t, i) * b <= a * Upto(s, i)
<1> DEFINE S == {n \in Nat : n <= Len(s) => Upto(t, n) * b <= a * Upto(s, n)}
<1>1. 0 \in S
  <2>1. Upto(t, 0) = 0 /\ Upto(s, 0) = 0
    BY UptoFacts
  <2> QED
    BY <2>1
<1>2. ASSUME NEW n \in Nat, n \in S PROVE n + 1 \in S
  <2> SUFFICES ASSUME n + 1 <= Len(s) PROVE Upto(t, n + 1) * b <= a * Upto(s, n + 1)
    OBVIOUS
  <2>1. n + 1 \in 1 .. Len(s) /\ n + 1 \in DOMAIN s /\ n \in 0 .. Len(s)
    OBVIOUS
  <2>2. /\ Upto(t, n) \in Nat /\ Upto(s, n) \in Nat /\ t[n + 1] \in Nat /\ s[n + 1] \in Nat
        /\ n + 1 <= Len(t)
    BY <2>1, UptoStep
  <2>3. /\ Upto(t, n + 1) = Upto(t, n) + t[n + 1]
        /\ Upto(s, n + 1) = Upto(s, n) + s[n + 1]
    BY <2>1, <2>2, UptoStep
  <2>4. Upto(t, n) * b <= a * Upto(s, n) /\ t[n + 1] * b <= a * s[n + 1]
    <3>1. Upto(t, n) * b <= a * Upto(s, n)
      BY <1>2, <2>1
    <3>2. t[n + 1] * b <= a * s[n + 1]
      BY <2>1, Zenon
    <3> QED
      BY <3>1, <3>2
  <2> DEFINE u == Upto(t, n)  v == Upto(s, n)  x == t[n + 1]  y == s[n + 1]
  <2>5. /\ u \in Nat /\ v \in Nat /\ x \in Nat /\ y \in Nat
        /\ u * b <= a * v /\ x * b <= a * y
    BY <2>2, <2>4
  <2> HIDE DEF u, v, x, y
  <2>6. (u + x) * b <= a * (v + y)
    <3>1. (u + x) * b = u * b + x * b /\ a * (v + y) = a * v + a * y
      BY <2>5, Distributes
    <3>2. u * b \in Nat /\ x * b \in Nat /\ a * v \in Nat /\ a * y \in Nat
      BY <2>5, ProductNat
    <3> QED
      BY <2>5, <3>1, <3>2
  <2> QED
    BY <2>3, <2>6 DEF u, v, x, y
<1> HIDE DEF S
<1>3. Nat \subseteq S
  BY <1>1, <1>2, Inductive
<1> QED
  BY <1>3 DEF S

-----------------------------------------------------------------------------
(* Subsequences. *)
LEMMA AmongFacts ==
  ASSUME NEW E, NEW s \in Seq(E), NEW T
  PROVE  /\ Among(s, T, 0) = <<>>
         /\ \A j \in 1 .. Len(s) :
              /\ s[j] \in T => Among(s, T, j) = Append(Among(s, T, j - 1), s[j])
              /\ s[j] \notin T => Among(s, T, j) = Among(s, T, j - 1)
         /\ \A j \in 0 .. Len(s) : Among(s, T, j) \in Seq(E \cap T)
<1> DEFINE F(f) == f = [j \in 0 .. Len(s) |->
                          IF j = 0 THEN <<>>
                          ELSE IF s[j] \in T THEN Append(f[j - 1], s[j]) ELSE f[j - 1]]
           found == CHOOSE f : F(f)
           V == Seq(E \cap T)
           step == [p \in V \X (1 .. Len(s)) |->
                      IF s[p[2]] \in T THEN Append(p[1], s[p[2]]) ELSE p[1]]
<1>1. \A j : Among(s, T, j) = found[j]
  BY DEF Among
<1>2. ASSUME NEW v \in V, NEW j \in 1 .. Len(s)
      PROVE  (IF s[j] \in T THEN Append(v, s[j]) ELSE v) \in V
  <2>1. CASE s[j] \in T
    <3>1. s[j] \in E \cap T
      BY <2>1
    <3> QED
      BY <2>1, <3>1
  <2>2. CASE s[j] \notin T
    BY <2>2
  <2> QED
    BY <2>1, <2>2
<1>3. \E f : F(f)
  <2>1. <<>> \in V /\ Len(s) \in Nat
    OBVIOUS
  <2>2. step \in [V \X (1 .. Len(s)) -> V]
    <3> HIDE DEF V
    <3> QED
      BY <1>2
  <2> HIDE DEF step, V
  <2>3. PICK f : Unrolls(f, V, <<>>, Len(s), step)
    BY <2>1, <2>2, Recursion
  <2>4. ASSUME NEW j \in 1 .. Len(s)
        PROVE  f[j] = IF s[j] \in T THEN Append(f[j - 1], s[j]) ELSE f[j - 1]
    <3>1. f[j - 1] \in V /\ f[j] = step[<<f[j - 1], j>>]
      BY <2>3 DEF Unrolls
    <3>2. <<f[j - 1], j>> \in V \X (1 .. Len(s))
      BY <3>1
    <3> QED
      BY <3>1, <3>2 DEF step
  <2>5. F(f)
    <3>1. f[0] = <<>> /\ DOMAIN f = 0 .. Len(s) /\ f = [j \in DOMAIN f |-> f[j]]
      BY <2>3 DEF Unrolls
    <3>2. \A j \in 0 .. Len(s) :
            f[j] = IF j = 0 THEN <<>>
                   ELSE IF s[j] \in T THEN Append(f[j - 1], s[j]) ELSE f[j - 1]
      <4>1. \A j \in 0 .. Len(s) : j = 0 \/ j \in 1 .. Len(s)
        OBVIOUS
      <4> QED
        BY <2>4, <3>1, <4>1
    <3> QED
      BY <3>1, <3>2
  <2> QED
    BY <2>5
<1>4. F(found)
  BY <1>3
<1> HIDE DEF found
<1>5. /\ found[0] = <<>>
      /\ \A j \in 1 .. Len(s) :
           found[j] = IF s[j] \in T THEN Append(found[j - 1], s[j]) ELSE found[j - 1]
  <2>1. \A j \in 0 .. Len(s) :
          found[j] = IF j = 0 THEN <<>>
                     ELSE IF s[j] \in T THEN Append(found[j - 1], s[j]) ELSE found[j - 1]
    BY <1>4, Zenon
  <2>2. 0 \in 0 .. Len(s) /\ \A j \in 1 .. Len(s) : j # 0 /\ j \in 0 .. Len(s)
    OBVIOUS
  <2> QED
    BY <2>1, <2>2
<1>6. \A j \in 0 .. Len(s) : found[j] \in V
  <2> DEFINE S == {j \in Nat : j <= Len(s) => found[j] \in V}
  <2>0. <<>> \in V
    OBVIOUS
  <2>1. 0 \in S
    <3> HIDE DEF V
    <3> QED
      BY <1>5, <2>0
  <2>2. ASSUME NEW n \in Nat, n \in S PROVE n + 1 \in S
    <3> SUFFICES ASSUME n + 1 <= Len(s) PROVE found[n + 1] \in V
      OBVIOUS
    <3>1. found[n] \in V /\ n + 1 \in 1 .. Len(s)
      BY <2>2
    <3> HIDE DEF V
    <3> QED
      BY <1>2, <1>5, <3>1
  <2> HIDE DEF S
  <2>3. Nat \subseteq S
    BY <2>1, <2>2, Inductive
  <2> QED
    BY <2>3 DEF S
<1> QED
  BY <1>1, <1>5, <1>6

LEMMA AmongStep ==
  ASSUME NEW E, NEW s \in Seq(E), NEW T, NEW j \in 1 .. Len(s)
  PROVE  /\ s[j] \in T => Among(s, T, j) = Append(Among(s, T, j - 1), s[j])
         /\ s[j] \notin T => Among(s, T, j) = Among(s, T, j - 1)
<1>1. /\ Among(s, T, 0) = <<>>
      /\ \A i \in 1 .. Len(s) :
           /\ s[i] \in T => Among(s, T, i) = Append(Among(s, T, i - 1), s[i])
           /\ s[i] \notin T => Among(s, T, i) = Among(s, T, i - 1)
      /\ \A i \in 0 .. Len(s) : Among(s, T, i) \in Seq(E \cap T)
  BY AmongFacts
<1> QED
  BY <1>1, Zenon

LEMMA AmongTyped ==
  ASSUME NEW E, NEW s \in Seq(E), NEW T
  PROVE  /\ Among(s, T, 0) = <<>>
         /\ \A j \in 0 .. Len(s) : Among(s, T, j) \in Seq(E \cap T)
         /\ Among(s, T, Len(s)) \in Seq(E \cap T)
<1>1. /\ Among(s, T, 0) = <<>>
      /\ \A i \in 1 .. Len(s) :
           /\ s[i] \in T => Among(s, T, i) = Append(Among(s, T, i - 1), s[i])
           /\ s[i] \notin T => Among(s, T, i) = Among(s, T, i - 1)
      /\ \A i \in 0 .. Len(s) : Among(s, T, i) \in Seq(E \cap T)
  BY AmongFacts
<1>2. Len(s) \in 0 .. Len(s)
  OBVIOUS
<1> QED
  BY <1>1, <1>2, Zenon

(* What was found stays where it was found. *)
LEMMA AmongPrefix ==
  ASSUME NEW E, NEW s \in Seq(E), NEW T, NEW i \in 0 .. Len(s), NEW j \in 0 .. Len(s), i <= j
  PROVE  /\ Len(Among(s, T, i)) <= Len(Among(s, T, j))
         /\ \A h \in DOMAIN Among(s, T, i) : Among(s, T, j)[h] = Among(s, T, i)[h]
<1> DEFINE A(n) == Among(s, T, n)
           P(n) == Len(A(i)) <= Len(A(n)) /\ \A h \in DOMAIN A(i) : A(n)[h] = A(i)[h]
           S == {n \in Nat : i <= n /\ n <= Len(s) => P(n)}
<1>0. \A n \in 0 .. Len(s) : A(n) \in Seq(E)
  <2>1. \A n \in 0 .. Len(s) : A(n) \in Seq(E \cap T)
    BY AmongTyped, Zenon
  <2>2. \A x \in Seq(E \cap T) : x \in Seq(E)
    OBVIOUS
  <2> QED
    BY <2>1, <2>2
<1>1. 0 \in S
  BY <1>0
<1>2. ASSUME NEW n \in Nat, n \in S PROVE n + 1 \in S
  <2> SUFFICES ASSUME i <= n + 1, n + 1 <= Len(s) PROVE P(n + 1)
    OBVIOUS
  <2>1. CASE i = n + 1
    BY <1>0, <2>1
  <2>2. CASE i # n + 1
    <3>1. P(n) /\ n + 1 \in 1 .. Len(s) /\ n \in 0 .. Len(s)
      BY <1>2, <2>2
    <3>2. A(n) \in Seq(E) /\ A(i) \in Seq(E) /\ s[n + 1] \in E
      BY <1>0, <3>1
    <3>3. A(n + 1) = Append(A(n), s[n + 1]) \/ A(n + 1) = A(n)
      <4>1. \A h \in 1 .. Len(s) : A(h) = Append(A(h - 1), s[h]) \/ A(h) = A(h - 1)
        BY AmongStep, Zenon
      <4>2. (n + 1) - 1 = n
        OBVIOUS
      <4> HIDE DEF A
      <4> QED
        BY <3>1, <4>1, <4>2
    <3> DEFINE old == A(i)  mid == A(n)  new == A(n + 1)  e == s[n + 1]
    <3>4. /\ mid \in Seq(E) /\ old \in Seq(E) /\ e \in E
          /\ Len(old) <= Len(mid) /\ \A h \in DOMAIN old : mid[h] = old[h]
          /\ new = Append(mid, e) \/ new = mid
      BY <3>1, <3>2, <3>3
    <3> HIDE DEF old, mid, new, e
    <3>5. Len(old) <= Len(new) /\ \A h \in DOMAIN old : new[h] = old[h]
      <4>1. CASE new = mid
        BY <3>4, <4>1
      <4>2. CASE new = Append(mid, e)
        <5>1. /\ Len(new) = Len(mid) + 1 /\ Len(mid) \in Nat /\ Len(old) \in Nat
              /\ \A h \in DOMAIN mid : new[h] = mid[h]
          BY <3>4, <4>2, Appended
        <5>2. \A h \in DOMAIN old : h \in DOMAIN mid
          BY <3>4
        <5> QED
          BY <3>4, <5>1, <5>2
      <4> QED
        BY <3>4, <4>1, <4>2
    <3> QED
      BY <3>5 DEF old, new
  <2> QED
    BY <2>1, <2>2
<1> HIDE DEF S, P
<1>3. Nat \subseteq S
  BY <1>1, <1>2, Inductive
<1>4. P(j)
  BY <1>3 DEF S
<1> QED
  BY <1>4 DEF P

-----------------------------------------------------------------------------
(* Transfers. *)
OneByOne(purse, legs) ==
  /\ Transferred(purse, legs, 0) = purse
  /\ \A j \in 1 .. Len(legs) :
       Transferred(purse, legs, j) = TransferFrom(Transferred(purse, legs, j - 1), legs[j])

LEMMA TransferredFacts ==
  ASSUME NEW purse, NEW legs, Len(legs) \in Nat
  PROVE  OneByOne(purse, legs)
<1> DEFINE F(f, n) == /\ DOMAIN f = 0 .. n /\ f[0] = purse
                      /\ \A j \in 1 .. n : f[j] = TransferFrom(f[j - 1], legs[j])
           G(f) == f = [j \in 0 .. Len(legs) |->
                          IF j = 0 THEN purse ELSE TransferFrom(f[j - 1], legs[j])]
           after == CHOOSE f : G(f)
           S == {n \in Nat : \E f : F(f, n)}
<1>1. \A j : Transferred(purse, legs, j) = after[j]
  BY DEF Transferred
<1>2. 0 \in S
  <2> DEFINE f == [j \in 0 .. 0 |-> purse]
  <2>1. F(f, 0)
    OBVIOUS
  <2> QED
    BY <2>1
<1>3. ASSUME NEW n \in Nat, n \in S PROVE n + 1 \in S
  <2>1. PICK f : F(f, n)
    BY <1>3
  <2> DEFINE g == [j \in 0 .. n + 1 |->
                     IF j = n + 1 THEN TransferFrom(f[n], legs[n + 1]) ELSE f[j]]
  <2>2. DOMAIN g = 0 .. n + 1 /\ g[0] = purse
    BY <2>1
  <2>3. ASSUME NEW j \in 1 .. n + 1 PROVE g[j] = TransferFrom(g[j - 1], legs[j])
    <3>1. CASE j = n + 1
      <4>1. g[j] = TransferFrom(f[n], legs[n + 1]) /\ g[j - 1] = f[n]
        BY <3>1
      <4> QED
        BY <3>1, <4>1
    <3>2. CASE j # n + 1
      <4>1. j \in 1 .. n /\ g[j] = f[j] /\ g[j - 1] = f[j - 1]
        BY <3>2
      <4> QED
        BY <2>1, <4>1
    <3> QED
      BY <3>1, <3>2
  <2> HIDE DEF g
  <2>4. F(g, n + 1)
    BY <2>2, <2>3
  <2> QED
    BY <2>4
<1> HIDE DEF S, F
<1>4. Len(legs) \in S
  BY <1>2, <1>3, Inductive
<1>5. \E f : G(f)
  <2>1. PICK f : F(f, Len(legs))
    BY <1>4 DEF S
  <2>2. /\ DOMAIN f = 0 .. Len(legs) /\ f[0] = purse
        /\ \A j \in 1 .. Len(legs) : f[j] = TransferFrom(f[j - 1], legs[j])
    BY <2>1 DEF F
  <2> DEFINE g == [j \in 0 .. Len(legs) |-> f[j]]
  <2>3. \A j \in 0 .. Len(legs) : g[j] = IF j = 0 THEN purse ELSE TransferFrom(g[j - 1], legs[j])
    BY <2>2
  <2>4. g = [j \in 0 .. Len(legs) |-> g[j]]
    OBVIOUS
  <2> HIDE DEF g
  <2>5. G(g)
    BY <2>3, <2>4
  <2> QED
    BY <2>5
<1>6. G(after)
  BY <1>5
<1> HIDE DEF after
<1>7. after[0] = purse /\ \A j \in 1 .. Len(legs) : after[j] = TransferFrom(after[j - 1], legs[j])
  BY <1>6
<1> QED
  BY <1>1, <1>7 DEF OneByOne

LEMMA TransferredStep ==
  ASSUME NEW purse, NEW legs, Len(legs) \in Nat, NEW j \in 1 .. Len(legs)
  PROVE  Transferred(purse, legs, j) = TransferFrom(Transferred(purse, legs, j - 1), legs[j])
<1>1. OneByOne(purse, legs)
  BY TransferredFacts
<1> QED
  BY <1>1, Zenon DEF OneByOne

(* Once the token has refused a transfer, the rest is refused. *)
LEMMA RefusedForGood ==
  ASSUME NEW purse, NEW legs, Len(legs) \in Nat, NEW i \in 0 .. Len(legs),
         ~Transferred(purse, legs, i).ok
  PROVE  ~Transferred(purse, legs, Len(legs)).ok
<1>0. \A j \in 1 .. Len(legs) :
        Transferred(purse, legs, j) = TransferFrom(Transferred(purse, legs, j - 1), legs[j])
  BY TransferredStep
<1> DEFINE S == {n \in Nat : i <= n /\ n <= Len(legs) => ~Transferred(purse, legs, n).ok}
<1>1. 0 \in S
  OBVIOUS
<1>2. ASSUME NEW n \in Nat, n \in S PROVE n + 1 \in S
  <2> SUFFICES ASSUME i <= n + 1, n + 1 <= Len(legs) PROVE ~Transferred(purse, legs, n + 1).ok
    OBVIOUS
  <2>1. CASE i = n + 1
    BY <2>1
  <2>2. CASE i # n + 1
    <3>1. ~Transferred(purse, legs, n).ok /\ n + 1 \in 1 .. Len(legs)
      BY <1>2, <2>2
    <3> DEFINE p == Transferred(purse, legs, n)
    <3>2. Transferred(purse, legs, n + 1) = TransferFrom(p, legs[n + 1])
      BY <1>0, <3>1
    <3>3. ~p.ok
      BY <3>1
    <3> HIDE DEF p
    <3>4. TransferFrom(p, legs[n + 1]) = [ok |-> FALSE, allow |-> p.allow, bal |-> p.bal]
      BY <3>3 DEF TransferFrom
    <3> QED
      BY <3>2, <3>4
  <2> QED
    BY <2>1, <2>2
<1> HIDE DEF S
<1>3. Len(legs) \in S
  BY <1>1, <1>2, Inductive
<1> QED
  BY <1>3 DEF S

-----------------------------------------------------------------------------
(* Cuts, by their rank: the number of cuts below. *)
LEMMA EndNat ==
  ASSUME NEW s \in Seq(Nat), NEW i \in DOMAIN s
  PROVE  /\ Upto(s, i) \in Nat /\ Upto(s, i - 1) \in Nat /\ s[i] \in Nat
         /\ Upto(s, i) = Upto(s, i - 1) + s[i]
         /\ Upto(s, i) <= Tally(s)
<1>1. i \in 1 .. Len(s) /\ i \in 0 .. Len(s) /\ i - 1 \in 0 .. Len(s) /\ s[i] \in Nat
  OBVIOUS
<1> QED
  BY <1>1, UptoFacts, TallyNat

LEMMA CutsFinite ==
  ASSUME NEW pay \in Seq(Nat), NEW net \in Seq(Nat)
  PROVE  /\ Cuts(pay, net) \in SUBSET Nat /\ IsFiniteSet(Cuts(pay, net))
         /\ 0 \in Cuts(pay, net)
         /\ \A x \in Cuts(pay, net) : x <= Tally(pay) \/ x <= Tally(net)
<1> DEFINE C == Cuts(pay, net)
<1>1. C \in SUBSET Nat
  BY EndNat DEF Cuts
<1>2. Tally(pay) \in Nat /\ Tally(net) \in Nat
  BY TallyNat
<1>3. 0 \in C
  BY DEF Cuts
<1>4. ASSUME NEW x \in C PROVE x <= Tally(pay) \/ x <= Tally(net)
  <2>1. CASE x = 0
    BY <1>2, <2>1
  <2>2. CASE \E i \in DOMAIN pay : x = Upto(pay, i)
    BY <2>2, EndNat
  <2>3. CASE \E j \in DOMAIN net : x = Upto(net, j)
    BY <2>3, EndNat
  <2> QED
    BY <2>1, <2>2, <2>3 DEF Cuts
<1>5. IsFiniteSet(C)
  <2> DEFINE top == Tally(pay) + Tally(net)
  <2>1. top \in Nat /\ \A x \in C : x <= top
    BY <1>1, <1>2, <1>4
  <2> HIDE DEF top, C
  <2> QED
    BY <1>1, <2>1, FS_BoundedSetOfNaturals
<1> QED
  BY <1>1, <1>3, <1>4, <1>5

LEMMA BelowFinite ==
  ASSUME NEW C \in SUBSET Nat, IsFiniteSet(C), NEW x \in C
  PROVE  /\ IsFiniteSet(Below(C, x)) /\ Cardinality(Below(C, x)) \in Nat
         /\ Cardinality(Below(C, x)) < Cardinality(C)
         /\ Cardinality(C) \in Nat
<1>1. Below(C, x) \in SUBSET C /\ x \notin Below(C, x)
  BY DEF Below
<1>2. /\ IsFiniteSet(Below(C, x)) /\ Cardinality(Below(C, x)) <= Cardinality(C)
      /\ Cardinality(C) = Cardinality(Below(C, x)) => C = Below(C, x)
  BY <1>1, FS_Subset
<1>3. Cardinality(Below(C, x)) \in Nat /\ Cardinality(C) \in Nat
  BY <1>2, FS_CardinalityType
<1> QED
  BY <1>1, <1>2, <1>3

LEMMA BelowGrows ==
  ASSUME NEW C \in SUBSET Nat, IsFiniteSet(C), NEW x \in C, NEW y \in C, x < y
  PROVE  Cardinality(Below(C, x)) < Cardinality(Below(C, y))
<1> DEFINE B == Below(C, y)
<1>1. /\ B \in SUBSET Nat /\ IsFiniteSet(B) /\ x \in B
      /\ Below(B, x) = Below(C, x)
  <2>1. IsFiniteSet(B)
    BY BelowFinite
  <2>2. B \in SUBSET Nat /\ x \in B
    BY DEF Below
  <2>3. \A z \in C : z < x => z < y
    OBVIOUS
  <2>4. Below(B, x) = Below(C, x)
    BY <2>3 DEF Below
  <2> QED
    BY <2>1, <2>2, <2>4
<1> HIDE DEF B
<1>2. Cardinality(Below(B, x)) < Cardinality(B)
  BY <1>1, BelowFinite
<1> QED
  BY <1>1, <1>2 DEF B

(* The cut of a rank is the only one. *)
LEMMA CutOfRank ==
  ASSUME NEW C \in SUBSET Nat, IsFiniteSet(C), NEW x \in C,
         NEW n, Cardinality(Below(C, x)) = n
  PROVE  Cut(C, n) = x
<1>1. Cut(C, n) \in C /\ Cardinality(Below(C, Cut(C, n))) = n
  BY DEF Cut
<1> DEFINE y == Cut(C, n)
<1>2. y \in C /\ Cardinality(Below(C, y)) = n
  BY <1>1
<1> HIDE DEF y
<1>3. ~(x < y) /\ ~(y < x)
  <2>1. ASSUME x < y PROVE FALSE
    <3>1. Cardinality(Below(C, x)) < Cardinality(Below(C, y))
      BY <1>2, <2>1, BelowGrows
    <3>2. Cardinality(Below(C, x)) \in Nat
      BY BelowFinite
    <3> QED
      BY <1>2, <3>1, <3>2
  <2>2. ASSUME y < x PROVE FALSE
    <3>1. Cardinality(Below(C, y)) < Cardinality(Below(C, x))
      BY <1>2, <2>2, BelowGrows
    <3>2. Cardinality(Below(C, x)) \in Nat
      BY BelowFinite
    <3> QED
      BY <1>2, <3>1, <3>2
  <2> QED
    BY <2>1, <2>2
<1>4. x \in Nat /\ y \in Nat
  BY <1>2
<1>5. x = y
  BY <1>3, <1>4
<1> QED
  BY <1>5 DEF y

(* Neighbouring cuts have neighbouring ranks. *)
LEMMA NextCut ==
  ASSUME NEW C \in SUBSET Nat, IsFiniteSet(C), NEW x \in C, NEW y \in C, x < y,
         \A z \in C : z <= x \/ y <= z
  PROVE  Cardinality(Below(C, y)) = Cardinality(Below(C, x)) + 1
<1>1. IsFiniteSet(Below(C, x)) /\ x \notin Below(C, x)
  BY BelowFinite DEF Below
<1>2. ASSUME NEW z \in C PROVE z < y <=> z < x \/ z = x
  BY <1>2
<1>3. Below(C, y) = Below(C, x) \cup {x}
  BY <1>2 DEF Below
<1> QED
  BY <1>1, <1>3, FS_AddElement

LEMMA TopCut ==
  ASSUME NEW C \in SUBSET Nat, IsFiniteSet(C), NEW x \in C, \A z \in C : z <= x
  PROVE  Cardinality(Below(C, x)) = Cardinality(C) - 1
<1>1. IsFiniteSet(Below(C, x)) /\ x \notin Below(C, x) /\ Cardinality(Below(C, x)) \in Nat
  BY BelowFinite DEF Below
<1>2. ASSUME NEW z \in C PROVE z < x \/ z = x
  BY <1>2
<1>3. C = Below(C, x) \cup {x}
  BY <1>2 DEF Below
<1>4. Cardinality(C) = Cardinality(Below(C, x)) + 1
  BY <1>1, <1>3, FS_AddElement
<1> QED
  BY <1>1, <1>4

(* There is a cut of every rank. *)
LEMMA RankedCut ==
  ASSUME NEW C \in SUBSET Nat, IsFiniteSet(C), 0 \in C, NEW n \in 0 .. Cardinality(C) - 1
  PROVE  Cut(C, n) \in C /\ Cardinality(Below(C, Cut(C, n))) = n
<1> DEFINE Has(i) == \E x \in C : Cardinality(Below(C, x)) = i
           S == {i \in Nat : i < Cardinality(C) => Has(i)}
<1>1. Cardinality(C) \in Nat
  BY FS_CardinalityType
<1>2. 0 \in S
  <2>1. Below(C, 0) = {}
    <3>1. \A z \in C : ~(z < 0)
      OBVIOUS
    <3> QED
      BY <3>1 DEF Below
  <2>2. Cardinality(Below(C, 0)) = 0
    BY <2>1, FS_EmptySet
  <2> QED
    BY <2>2
<1>3. ASSUME NEW i \in Nat, i \in S PROVE i + 1 \in S
  <2> SUFFICES ASSUME i + 1 < Cardinality(C) PROVE Has(i + 1)
    OBVIOUS
  <2>1. PICK x \in C : Cardinality(Below(C, x)) = i
    BY <1>1, <1>3
  <2> DEFINE U == {y \in C : x < y}
  <2>2. U # {}
    <3> SUFFICES ASSUME U = {} PROVE FALSE
      OBVIOUS
    <3>1. \A z \in C : z <= x
      OBVIOUS
    <3>2. Cardinality(Below(C, x)) = Cardinality(C) - 1
      BY <3>1, TopCut
    <3> QED
      BY <1>1, <2>1, <3>2
  <2>3. U \in SUBSET Nat
    OBVIOUS
  <2>4. PICK y \in U : \A z \in U : y <= z
    <3> HIDE DEF U
    <3> QED
      BY <2>2, <2>3, Least
  <2>5. y \in C /\ x < y /\ \A z \in C : z <= x \/ y <= z
    BY <2>4
  <2>6. Cardinality(Below(C, y)) = i + 1
    BY <2>1, <2>5, NextCut
  <2> QED
    BY <2>5, <2>6
<1> HIDE DEF S, Has
<1>4. n \in S /\ n < Cardinality(C)
  BY <1>1, <1>2, <1>3, Inductive
<1>5. PICK x \in C : Cardinality(Below(C, x)) = n
  BY <1>4 DEF S, Has
<1> QED
  BY <1>5, CutOfRank

LEMMA CutsRise ==
  ASSUME NEW C \in SUBSET Nat, IsFiniteSet(C), 0 \in C, NEW n \in 1 .. Cardinality(C) - 1
  PROVE  Cut(C, n) \in C /\ Cut(C, n) \in Nat /\ Cut(C, n - 1) \in Nat
         /\ Cut(C, n - 1) < Cut(C, n)
<1>1. Cardinality(C) \in Nat
  BY FS_CardinalityType
<1> DEFINE x == Cut(C, n - 1)  y == Cut(C, n)
<1>2. /\ x \in C /\ Cardinality(Below(C, x)) = n - 1
      /\ y \in C /\ Cardinality(Below(C, y)) = n
  <2>1. n - 1 \in 0 .. Cardinality(C) - 1 /\ n \in 0 .. Cardinality(C) - 1
    BY <1>1
  <2> QED
    BY <2>1, RankedCut
<1> HIDE DEF x, y
<1>3. x # y
  BY <1>2
<1>4. ~(y < x)
  <2> SUFFICES ASSUME y < x PROVE FALSE
    OBVIOUS
  <2>1. Cardinality(Below(C, y)) < Cardinality(Below(C, x))
    BY <1>2, BelowGrows
  <2> QED
    BY <1>2, <2>1
<1>5. x \in Nat /\ y \in Nat /\ x < y
  BY <1>2, <1>3, <1>4
<1> QED
  BY <1>2, <1>5 DEF x, y

(* An amount below the total is covered by exactly one of the parts. *)
LEMMA CoveredBy ==
  ASSUME NEW s \in Seq(Nat), NEW x \in Nat, NEW i \in DOMAIN s,
         Upto(s, i - 1) < x, x <= Upto(s, i)
  PROVE  Covering(s, x) = i
<1> DEFINE h == Covering(s, x)
<1>1. h \in DOMAIN s /\ Upto(s, h - 1) < x /\ x <= Upto(s, h)
  BY DEF Covering
<1> HIDE DEF h
<1>2. h \in 1 .. Len(s) /\ i \in 1 .. Len(s)
  BY <1>1
<1>3. /\ Upto(s, i) \in Nat /\ Upto(s, i - 1) \in Nat
      /\ Upto(s, h) \in Nat /\ Upto(s, h - 1) \in Nat
  BY <1>1, EndNat
<1>4. ~(h < i)
  <2> SUFFICES ASSUME h < i PROVE FALSE
    OBVIOUS
  <2>1. h \in 0 .. Len(s) /\ i - 1 \in 0 .. Len(s) /\ h <= i - 1
    BY <1>2
  <2>2. Upto(s, h) <= Upto(s, i - 1)
    BY <2>1, UptoMonotone
  <2> QED
    BY <1>1, <1>3, <2>2
<1>5. ~(i < h)
  <2> SUFFICES ASSUME i < h PROVE FALSE
    OBVIOUS
  <2>1. i \in 0 .. Len(s) /\ h - 1 \in 0 .. Len(s) /\ i <= h - 1
    BY <1>2
  <2>2. Upto(s, i) <= Upto(s, h - 1)
    BY <2>1, UptoMonotone
  <2> QED
    BY <1>1, <1>3, <2>2
<1>6. h = i
  BY <1>2, <1>4, <1>5
<1> QED
  BY <1>6 DEF h

LEMMA Covered ==
  ASSUME NEW s \in Seq(Nat), NEW x \in Nat \ {0}, x <= Tally(s)
  PROVE  /\ Covering(s, x) \in DOMAIN s
         /\ Upto(s, Covering(s, x) - 1) < x /\ x <= Upto(s, Covering(s, x))
<1> DEFINE R == {i \in 0 .. Len(s) : x <= Upto(s, i)}
<1>1. R \in SUBSET Nat /\ R # {}
  BY DEF Tally
<1>2. PICK i \in R : \A j \in R : i <= j
  <2> HIDE DEF R
  <2> QED
    BY <1>1, Least
<1>3. i \in 1 .. Len(s) /\ i \in DOMAIN s
  <2>1. i # 0
    BY <1>2, UptoFacts
  <2> QED
    BY <1>2, <2>1
<1>4. i - 1 \notin R /\ i - 1 \in 0 .. Len(s)
  BY <1>2, <1>3
<1>5. Upto(s, i - 1) < x
  <2>1. Upto(s, i - 1) \in Nat
    BY <1>3, EndNat
  <2> QED
    BY <1>4, <2>1
<1> QED
  BY <1>2, <1>3, <1>5, CoveredBy

-----------------------------------------------------------------------------
(* The amounts. *)

(* A window that lists meters of M. *)
Sound(w, M) ==
  /\ w.ids \in Seq(M) /\ w.net \in [M -> Int]
  /\ w.price \in Nat /\ w.fee_bps \in Nat /\ w.fee_bps <= BPS

LEMMA SidesFacts ==
  ASSUME NEW M, NEW w, Sound(w, M)
  PROVE  /\ Exporters(w) \in Seq(M) /\ Importers(w) \in Seq(M)
         /\ \A j \in DOMAIN Exporters(w) : w.net[Exporters(w)[j]] \in Int /\ w.net[Exporters(w)[j]] > 0
         /\ \A i \in DOMAIN Importers(w) : w.net[Importers(w)[i]] \in Int /\ w.net[Importers(w)[i]] < 0
<1>1. w.ids \in Seq(M) /\ w.net \in [M -> Int] /\ Len(w.ids) \in 0 .. Len(w.ids)
  BY DEF Sound
<1>2. /\ Exporters(w) \in Seq(M \cap InSurplus(w))
      /\ Importers(w) \in Seq(M \cap InDeficit(w))
  <2>1. \A T : Among(w.ids, T, Len(w.ids)) \in Seq(M \cap T)
    BY <1>1, AmongTyped, Zenon
  <2> QED
    BY <2>1 DEF Exporters, Importers
<1>3. ASSUME NEW T, NEW s \in Seq(M \cap T)
      PROVE  s \in Seq(M) /\ \A i \in DOMAIN s : s[i] \in M /\ s[i] \in T
  OBVIOUS
<1>4. /\ Exporters(w) \in Seq(M) /\ Importers(w) \in Seq(M)
      /\ \A j \in DOMAIN Exporters(w) : Exporters(w)[j] \in M /\ Exporters(w)[j] \in InSurplus(w)
      /\ \A i \in DOMAIN Importers(w) : Importers(w)[i] \in M /\ Importers(w)[i] \in InDeficit(w)
  BY <1>2, <1>3
<1>5. /\ \A m \in InSurplus(w) : w.net[m] > 0
      /\ \A m \in InDeficit(w) : w.net[m] < 0
      /\ \A m \in M : w.net[m] \in Int
  BY <1>1 DEF InSurplus, InDeficit
<1> QED
  BY <1>4, <1>5

(* The fields of the clearing, each from the ones before. *)
LEMMA ClearingFields ==
  ASSUME NEW w
  PROVE  LET c == Clearing(w)
         IN  /\ c.prod_wh = [j \in DOMAIN Exporters(w) |-> Size(w.net[Exporters(w)[j]])]
             /\ c.cons_wh = [i \in DOMAIN Importers(w) |-> Size(w.net[Importers(w)[i]])]
             /\ c.traded_wh = Lower(Tally(c.prod_wh), Tally(c.cons_wh))
             /\ c.drawn = [i \in DOMAIN c.cons_wh |-> c.drawn[i]]
             /\ c.pay = [i \in DOMAIN c.cons_wh |-> c.pay[i]]
             /\ \A i \in DOMAIN c.cons_wh :
                  /\ c.drawn[i] = Share(c.cons_wh[i], c.traded_wh, Tally(c.cons_wh))
                  /\ c.pay[i] = (c.drawn[i] * w.price) \div WhPerKwh
             /\ c.total_paid = Tally(c.pay)
             /\ c.pool = c.total_paid - (c.total_paid * w.fee_bps) \div BPS
             /\ c.matched = [j \in DOMAIN c.prod_wh |-> c.matched[j]]
             /\ c.net = [j \in DOMAIN c.prod_wh |-> c.net[j]]
             /\ \A j \in DOMAIN c.prod_wh :
                  /\ c.matched[j] = Share(c.prod_wh[j], c.traded_wh, Tally(c.prod_wh))
                  /\ Tally(c.matched) > 0 => c.net[j] = (c.pool * c.matched[j]) \div Tally(c.matched)
                  /\ ~(Tally(c.matched) > 0) => c.net[j] = 0
             /\ c.total_net = Tally(c.net)
<1> DEFINE prod_wh == [j \in DOMAIN Exporters(w) |-> Size(w.net[Exporters(w)[j]])]
           cons_wh == [i \in DOMAIN Importers(w) |-> Size(w.net[Importers(w)[i]])]
           traded  == Lower(Tally(prod_wh), Tally(cons_wh))
           drawn   == [i \in DOMAIN cons_wh |-> Share(cons_wh[i], traded, Tally(cons_wh))]
           pay     == [i \in DOMAIN cons_wh |-> (drawn[i] * w.price) \div WhPerKwh]
           paid    == Tally(pay)
           pool    == paid - (paid * w.fee_bps) \div BPS
           matched == [j \in DOMAIN prod_wh |-> Share(prod_wh[j], traded, Tally(prod_wh))]
           net     == [j \in DOMAIN prod_wh |->
                         IF Tally(matched) > 0
                           THEN (pool * matched[j]) \div Tally(matched) ELSE 0]
           total   == Tally(net)
<1>1. Clearing(w) = [prod_wh |-> prod_wh, cons_wh |-> cons_wh, traded_wh |-> traded,
                     drawn |-> drawn, pay |-> pay, total_paid |-> paid, pool |-> pool,
                     matched |-> matched, net |-> net, total_net |-> total]
  BY DEF Clearing
<1> HIDE DEF total
<1>2. total = Tally(net)
  BY DEF total
<1> HIDE DEF net
<1>3. net = [j \in DOMAIN prod_wh |->
               IF Tally(matched) > 0 THEN (pool * matched[j]) \div Tally(matched) ELSE 0]
  BY DEF net
<1> HIDE DEF matched
<1>4. matched = [j \in DOMAIN prod_wh |-> Share(prod_wh[j], traded, Tally(prod_wh))]
  BY DEF matched
<1> HIDE DEF pool
<1>5. pool = paid - (paid * w.fee_bps) \div BPS
  BY DEF pool
<1> HIDE DEF paid
<1>6. paid = Tally(pay)
  BY DEF paid
<1> HIDE DEF pay
<1>7. pay = [i \in DOMAIN cons_wh |-> (drawn[i] * w.price) \div WhPerKwh]
  BY DEF pay
<1> HIDE DEF drawn
<1>8. drawn = [i \in DOMAIN cons_wh |-> Share(cons_wh[i], traded, Tally(cons_wh))]
  BY DEF drawn
<1> HIDE DEF traded
<1>9. traded = Lower(Tally(prod_wh), Tally(cons_wh))
  BY DEF traded
<1> HIDE DEF prod_wh, cons_wh
<1>10. /\ prod_wh = [j \in DOMAIN Exporters(w) |-> Size(w.net[Exporters(w)[j]])]
       /\ cons_wh = [i \in DOMAIN Importers(w) |-> Size(w.net[Importers(w)[i]])]
  BY DEF prod_wh, cons_wh
<1> DEFINE c == Clearing(w)
<1>11. /\ c.prod_wh = prod_wh /\ c.cons_wh = cons_wh /\ c.traded_wh = traded
       /\ c.drawn = drawn /\ c.pay = pay /\ c.total_paid = paid /\ c.pool = pool
       /\ c.matched = matched /\ c.net = net /\ c.total_net = total
  BY <1>1
<1> HIDE DEF c
<1>12. /\ drawn = [i \in DOMAIN cons_wh |-> drawn[i]] /\ pay = [i \in DOMAIN cons_wh |-> pay[i]]
       /\ matched = [j \in DOMAIN prod_wh |-> matched[j]] /\ net = [j \in DOMAIN prod_wh |-> net[j]]
  BY <1>3, <1>4, <1>7, <1>8
<1>13. \A i \in DOMAIN cons_wh :
         /\ drawn[i] = Share(cons_wh[i], traded, Tally(cons_wh))
         /\ pay[i] = (drawn[i] * w.price) \div WhPerKwh
  BY <1>7, <1>8
<1>14. \A j \in DOMAIN prod_wh :
         /\ matched[j] = Share(prod_wh[j], traded, Tally(prod_wh))
         /\ Tally(matched) > 0 => net[j] = (pool * matched[j]) \div Tally(matched)
         /\ ~(Tally(matched) > 0) => net[j] = 0
  BY <1>3, <1>4
<1>15. /\ c.drawn = [i \in DOMAIN c.cons_wh |-> c.drawn[i]] /\ c.pay = [i \in DOMAIN c.cons_wh |-> c.pay[i]]
       /\ c.matched = [j \in DOMAIN c.prod_wh |-> c.matched[j]]
       /\ c.net = [j \in DOMAIN c.prod_wh |-> c.net[j]]
  BY <1>11, <1>12
<1>16. \A i \in DOMAIN c.cons_wh :
         /\ c.drawn[i] = Share(c.cons_wh[i], c.traded_wh, Tally(c.cons_wh))
         /\ c.pay[i] = (c.drawn[i] * w.price) \div WhPerKwh
  BY <1>11, <1>13
<1>17. \A j \in DOMAIN c.prod_wh :
         /\ c.matched[j] = Share(c.prod_wh[j], c.traded_wh, Tally(c.prod_wh))
         /\ Tally(c.matched) > 0 => c.net[j] = (c.pool * c.matched[j]) \div Tally(c.matched)
         /\ ~(Tally(c.matched) > 0) => c.net[j] = 0
  BY <1>11, <1>14
<1>18. /\ c.prod_wh = [j \in DOMAIN Exporters(w) |-> Size(w.net[Exporters(w)[j]])]
       /\ c.cons_wh = [i \in DOMAIN Importers(w) |-> Size(w.net[Importers(w)[i]])]
       /\ c.traded_wh = Lower(Tally(c.prod_wh), Tally(c.cons_wh))
       /\ c.total_paid = Tally(c.pay)
       /\ c.pool = c.total_paid - (c.total_paid * w.fee_bps) \div BPS
       /\ c.total_net = Tally(c.net)
  BY <1>2, <1>5, <1>6, <1>9, <1>10, <1>11
<1> QED
  BY <1>15, <1>16, <1>17, <1>18 DEF c

LEMMA ShareNat ==
  ASSUME NEW a \in Nat, NEW t \in Nat, NEW d \in Nat \ {0}
  PROVE  Share(a, t, d) \in Nat /\ Share(a, t, d) * d <= t * a
<1>1. a * t \in Nat /\ a * t = t * a
  BY ProductNat
<1> QED
  BY <1>1, Floor DEF Share

(* The sizes of the parties of one side. *)
LEMMA SizesNat ==
  ASSUME NEW s, NEW E, s \in Seq(E), NEW f, \A i \in DOMAIN s : f[s[i]] \in Int /\ f[s[i]] # 0,
         NEW wh, wh = [i \in DOMAIN s |-> Size(f[s[i]])]
  PROVE  /\ wh \in Seq(Nat) /\ Len(wh) = Len(s) /\ Len(s) \in Nat
         /\ DOMAIN wh = DOMAIN s
         /\ \A i \in DOMAIN wh : wh[i] \in Nat \ {0} /\ wh[i] = Size(f[s[i]])
         /\ \A i \in DOMAIN wh : Tally(wh) \in Nat \ {0}
<1>1. \A i \in DOMAIN s : Size(f[s[i]]) \in Nat \ {0}
  BY DEF Size
<1>2. DOMAIN s = 1 .. Len(s) /\ Len(s) \in Nat
  OBVIOUS
<1>3. wh \in [1 .. Len(s) -> Nat]
  BY <1>1, <1>2
<1>4. wh \in Seq(Nat) /\ Len(wh) = Len(s)
  BY <1>2, <1>3, IsSequence
<1>5. \A i \in DOMAIN wh : wh[i] \in Nat \ {0} /\ wh[i] = Size(f[s[i]])
  BY <1>1
<1>6. ASSUME NEW i \in DOMAIN wh PROVE Tally(wh) \in Nat \ {0}
  <2>1. Tally(wh) \in Nat /\ wh[i] <= Tally(wh) /\ wh[i] \in Nat \ {0}
    BY <1>4, <1>5, TallyNat
  <2> QED
    BY <2>1
<1> QED
  BY <1>2, <1>4, <1>5, <1>6

(* A fee of at most 10000 basis points leaves a pool that is not negative. *)
LEMMA FeeOff ==
  ASSUME NEW paid \in Nat, NEW fee_bps \in Nat, fee_bps <= BPS
  PROVE  /\ paid - (paid * fee_bps) \div BPS \in Nat
         /\ paid - (paid * fee_bps) \div BPS <= paid
<1>1. BPS \in Nat \ {0}
  BY DEF BPS
<1>2. fee_bps * paid <= BPS * paid
  BY <1>1, ProductMonotone
<1>3. paid * fee_bps \in Nat /\ paid * fee_bps <= paid * BPS
  <2>1. paid * fee_bps = fee_bps * paid /\ paid * BPS = BPS * paid
    BY <1>1
  <2> QED
    BY <1>2, <2>1, ProductNat
<1>4. (paid * fee_bps) \div BPS \in Nat /\ (paid * fee_bps) \div BPS <= paid
  BY <1>1, <1>3, Floor, FloorBelow
<1> QED
  BY <1>4

LEMMA ClearingTypes ==
  ASSUME NEW M, NEW w, Sound(w, M)
  PROVE  LET c == Clearing(w)
         IN  /\ c.prod_wh \in Seq(Nat) /\ Len(c.prod_wh) = Len(Exporters(w))
             /\ c.cons_wh \in Seq(Nat) /\ Len(c.cons_wh) = Len(Importers(w))
             /\ \A j \in DOMAIN c.prod_wh : c.prod_wh[j] = Size(w.net[Exporters(w)[j]])
             /\ \A i \in DOMAIN c.cons_wh : c.cons_wh[i] = Size(w.net[Importers(w)[i]])
             /\ \A j \in DOMAIN c.prod_wh : Tally(c.prod_wh) \in Nat \ {0}
             /\ \A i \in DOMAIN c.cons_wh : Tally(c.cons_wh) \in Nat \ {0}
             /\ c.traded_wh \in Nat
             /\ c.traded_wh <= Tally(c.prod_wh) /\ c.traded_wh <= Tally(c.cons_wh)
             /\ c.drawn \in Seq(Nat) /\ Len(c.drawn) = Len(Importers(w))
             /\ c.pay \in Seq(Nat) /\ Len(c.pay) = Len(Importers(w))
             /\ c.total_paid \in Nat
             /\ c.pool \in Nat /\ c.pool <= c.total_paid
             /\ c.matched \in Seq(Nat) /\ Len(c.matched) = Len(Exporters(w))
             /\ c.net \in Seq(Nat) /\ Len(c.net) = Len(Exporters(w))
             /\ c.total_net \in Nat
<1> DEFINE c == Clearing(w)
           E == Exporters(w)
           I == Importers(w)
           surplus == Tally(c.prod_wh)
           deficit == Tally(c.cons_wh)
<1>0. /\ c.prod_wh = [j \in DOMAIN E |-> Size(w.net[E[j]])]
      /\ c.cons_wh = [i \in DOMAIN I |-> Size(w.net[I[i]])]
      /\ c.traded_wh = Lower(surplus, deficit)
      /\ c.drawn = [i \in DOMAIN c.cons_wh |-> c.drawn[i]]
      /\ c.pay = [i \in DOMAIN c.cons_wh |-> c.pay[i]]
      /\ \A i \in DOMAIN c.cons_wh :
           /\ c.drawn[i] = Share(c.cons_wh[i], c.traded_wh, deficit)
           /\ c.pay[i] = (c.drawn[i] * w.price) \div WhPerKwh
      /\ c.total_paid = Tally(c.pay)
      /\ c.pool = c.total_paid - (c.total_paid * w.fee_bps) \div BPS
      /\ c.matched = [j \in DOMAIN c.prod_wh |-> c.matched[j]]
      /\ c.net = [j \in DOMAIN c.prod_wh |-> c.net[j]]
      /\ \A j \in DOMAIN c.prod_wh :
           /\ c.matched[j] = Share(c.prod_wh[j], c.traded_wh, surplus)
           /\ Tally(c.matched) > 0 => c.net[j] = (c.pool * c.matched[j]) \div Tally(c.matched)
           /\ ~(Tally(c.matched) > 0) => c.net[j] = 0
      /\ c.total_net = Tally(c.net)
  BY ClearingFields
<1>s. /\ E \in Seq(M) /\ I \in Seq(M)
      /\ \A j \in DOMAIN E : w.net[E[j]] \in Int /\ w.net[E[j]] > 0
      /\ \A i \in DOMAIN I : w.net[I[i]] \in Int /\ w.net[I[i]] < 0
  BY SidesFacts
<1>w. w.price \in Nat /\ w.fee_bps \in Nat /\ w.fee_bps <= BPS
  BY DEF Sound
<1> HIDE DEF c, E, I
<1>1. /\ c.prod_wh \in Seq(Nat) /\ Len(c.prod_wh) = Len(E) /\ Len(E) \in Nat
      /\ \A j \in DOMAIN c.prod_wh : c.prod_wh[j] \in Nat /\ c.prod_wh[j] = Size(w.net[E[j]])
      /\ \A j \in DOMAIN c.prod_wh : surplus \in Nat \ {0}
  <2>1. \A j \in DOMAIN E : w.net[E[j]] \in Int /\ w.net[E[j]] # 0
    BY <1>s
  <2> DEFINE wh == c.prod_wh  f == w.net
  <2>2. wh = [j \in DOMAIN E |-> Size(f[E[j]])] /\ \A j \in DOMAIN E : f[E[j]] \in Int /\ f[E[j]] # 0
    BY <1>0, <2>1
  <2> HIDE DEF wh, f
  <2>3. /\ wh \in Seq(Nat) /\ Len(wh) = Len(E) /\ Len(E) \in Nat
        /\ \A j \in DOMAIN wh : wh[j] \in Nat \ {0} /\ wh[j] = Size(f[E[j]])
        /\ \A j \in DOMAIN wh : Tally(wh) \in Nat \ {0}
    BY <1>s, <2>2, SizesNat
  <2> QED
    BY <2>3 DEF wh, f
<1>2. /\ c.cons_wh \in Seq(Nat) /\ Len(c.cons_wh) = Len(I) /\ Len(I) \in Nat
      /\ \A i \in DOMAIN c.cons_wh : c.cons_wh[i] \in Nat /\ c.cons_wh[i] = Size(w.net[I[i]])
      /\ \A i \in DOMAIN c.cons_wh : deficit \in Nat \ {0}
  <2>1. \A i \in DOMAIN I : w.net[I[i]] \in Int /\ w.net[I[i]] # 0
    BY <1>s
  <2> DEFINE wh == c.cons_wh  f == w.net
  <2>2. wh = [i \in DOMAIN I |-> Size(f[I[i]])] /\ \A i \in DOMAIN I : f[I[i]] \in Int /\ f[I[i]] # 0
    BY <1>0, <2>1
  <2> HIDE DEF wh, f
  <2>3. /\ wh \in Seq(Nat) /\ Len(wh) = Len(I) /\ Len(I) \in Nat
        /\ \A i \in DOMAIN wh : wh[i] \in Nat \ {0} /\ wh[i] = Size(f[I[i]])
        /\ \A i \in DOMAIN wh : Tally(wh) \in Nat \ {0}
    BY <1>s, <2>2, SizesNat
  <2> QED
    BY <2>3 DEF wh, f
<1>3. c.traded_wh \in Nat /\ c.traded_wh <= surplus /\ c.traded_wh <= deficit
  <2>1. surplus \in Nat /\ deficit \in Nat
    BY <1>1, <1>2, TallyNat
  <2> HIDE DEF surplus, deficit
  <2> QED
    BY <1>0, <2>1 DEF Lower
<1>4. ASSUME NEW i \in DOMAIN c.cons_wh PROVE c.drawn[i] \in Nat /\ c.pay[i] \in Nat
  <2>1. c.drawn[i] \in Nat
    <3>1. /\ c.drawn[i] = Share(c.cons_wh[i], c.traded_wh, deficit)
          /\ c.cons_wh[i] \in Nat /\ deficit \in Nat \ {0}
      BY <1>0, <1>2
    <3> HIDE DEF deficit
    <3> QED
      BY <1>3, <3>1, ShareNat
  <2>2. c.drawn[i] * w.price \in Nat /\ WhPerKwh \in Nat \ {0}
    BY <1>w, <2>1, ProductNat DEF WhPerKwh
  <2>3. (c.drawn[i] * w.price) \div WhPerKwh \in Nat
    BY <2>2, Floor
  <2> QED
    BY <1>0, <2>1, <2>3
<1>5. DOMAIN c.cons_wh = 1 .. Len(I) /\ DOMAIN c.prod_wh = 1 .. Len(E)
  BY <1>1, <1>2
<1>6. c.drawn \in [1 .. Len(I) -> Nat] /\ c.pay \in [1 .. Len(I) -> Nat]
  BY <1>0, <1>4, <1>5
<1>7. c.drawn \in Seq(Nat) /\ Len(c.drawn) = Len(I) /\ c.pay \in Seq(Nat) /\ Len(c.pay) = Len(I)
  BY <1>2, <1>6, IsSequence
<1>8. c.total_paid \in Nat
  BY <1>0, <1>7, TallyNat
<1>9. c.pool \in Nat /\ c.pool <= c.total_paid
  <2> DEFINE paid == c.total_paid  fee == w.fee_bps
  <2>1. paid \in Nat /\ fee \in Nat /\ fee <= BPS
    BY <1>8, <1>w
  <2>2. c.pool = paid - (paid * fee) \div BPS
    BY <1>0
  <2> HIDE DEF paid, fee
  <2>3. c.pool \in Nat /\ c.pool <= paid
    BY <2>1, <2>2, FeeOff
  <2> QED
    BY <2>3 DEF paid
<1>10. ASSUME NEW j \in DOMAIN c.prod_wh PROVE c.matched[j] \in Nat
  <2>1. /\ c.matched[j] = Share(c.prod_wh[j], c.traded_wh, surplus)
        /\ c.prod_wh[j] \in Nat /\ surplus \in Nat \ {0}
    BY <1>0, <1>1
  <2> HIDE DEF surplus
  <2> QED
    BY <1>3, <2>1, ShareNat
<1>11. c.matched \in [1 .. Len(E) -> Nat]
  BY <1>0, <1>5, <1>10
<1>12. c.matched \in Seq(Nat) /\ Len(c.matched) = Len(E)
  BY <1>1, <1>11, IsSequence
<1>13. ASSUME NEW j \in DOMAIN c.prod_wh PROVE c.net[j] \in Nat
  <2>1. Tally(c.matched) \in Nat /\ c.pool * c.matched[j] \in Nat
    BY <1>9, <1>10, <1>12, TallyNat, ProductNat
  <2>2. CASE Tally(c.matched) > 0
    <3>1. c.net[j] = (c.pool * c.matched[j]) \div Tally(c.matched)
      BY <1>0, <2>2
    <3> QED
      BY <2>1, <2>2, <3>1, Floor
  <2>3. CASE ~(Tally(c.matched) > 0)
    BY <1>0, <2>3
  <2> QED
    BY <2>2, <2>3
<1>14. c.net \in [1 .. Len(E) -> Nat]
  BY <1>0, <1>5, <1>13
<1>15. c.net \in Seq(Nat) /\ Len(c.net) = Len(E)
  BY <1>1, <1>14, IsSequence
<1>16. c.total_net \in Nat
  BY <1>0, <1>15, TallyNat
<1> QED
  BY <1>1, <1>2, <1>3, <1>7, <1>8, <1>9, <1>12, <1>15, <1>16 DEF c, E, I

(* Rounding never gives out more than there is: the matched energy is at   *)
(* most the traded energy, the nets together at most the pool.             *)
LEMMA ClearingTotals ==
  ASSUME NEW M, NEW w, Sound(w, M)
  PROVE  LET c == Clearing(w)
         IN  Tally(c.matched) <= c.traded_wh /\ c.total_net <= c.pool
<1> DEFINE c == Clearing(w)
           surplus == Tally(c.prod_wh)
<1>0. /\ \A j \in DOMAIN c.prod_wh :
           /\ c.matched[j] = Share(c.prod_wh[j], c.traded_wh, surplus)
           /\ Tally(c.matched) > 0 => c.net[j] = (c.pool * c.matched[j]) \div Tally(c.matched)
           /\ ~(Tally(c.matched) > 0) => c.net[j] = 0
      /\ c.total_net = Tally(c.net)
  BY ClearingFields
<1>1. /\ c.prod_wh \in Seq(Nat) /\ c.matched \in Seq(Nat) /\ c.net \in Seq(Nat)
      /\ Len(c.prod_wh) = Len(c.matched) /\ Len(c.matched) = Len(c.net)
      /\ c.traded_wh \in Nat /\ c.pool \in Nat /\ c.total_net \in Nat
      /\ \A j \in DOMAIN c.prod_wh : surplus \in Nat \ {0}
  BY ClearingTypes
<1> HIDE DEF c
<1> DEFINE n == Len(c.matched)  total == Tally(c.matched)  traded == c.traded_wh  pool == c.pool
<1>2. /\ n \in 0 .. n /\ total = Upto(c.matched, n) /\ surplus = Upto(c.prod_wh, n)
      /\ c.total_net = Upto(c.net, n)
      /\ DOMAIN c.prod_wh = 1 .. n /\ DOMAIN c.matched = 1 .. n /\ n \in Nat
  BY <1>0, <1>1 DEF Tally
<1>3. total \in Nat /\ surplus \in Nat
  BY <1>1, TallyNat
<1>4. total <= traded
  <2>1. CASE n = 0
    <3>1. total = 0
      BY <1>1, <1>2, <2>1, UptoFacts
    <3> QED
      BY <1>1, <3>1
  <2>2. CASE n # 0
    <3>1. surplus \in Nat \ {0}
      <4>1. 1 \in DOMAIN c.prod_wh
        BY <1>2, <2>2
      <4> QED
        BY <1>1, <4>1
    <3>2. \A j \in DOMAIN c.prod_wh : c.matched[j] * surplus <= traded * c.prod_wh[j]
      <4>1. \A j \in DOMAIN c.prod_wh : c.prod_wh[j] \in Nat
        BY <1>1, ElementIn
      <4> HIDE DEF surplus
      <4> QED
        BY <1>0, <1>1, <3>1, <4>1, ShareNat
    <3> DEFINE s == c.prod_wh  t == c.matched
    <3>3. /\ s \in Seq(Nat) /\ t \in Seq(Nat) /\ Len(t) = Len(s) /\ traded \in Nat
          /\ surplus \in Nat /\ \A j \in DOMAIN s : t[j] * surplus <= traded * s[j]
      BY <1>1, <1>3, <3>2
    <3> HIDE DEF s, t, surplus, traded
    <3>4. \A i \in 0 .. Len(s) : Upto(t, i) * surplus <= traded * Upto(s, i)
      BY <3>3, Proportional
    <3>5. total * surplus <= traded * surplus
      BY <1>1, <1>2, <3>4 DEF s, t
    <3> QED
      BY <1>3, <3>1, <3>3, <3>5, Cancels
  <2> QED
    BY <2>1, <2>2
<1>5. c.total_net <= pool
  <2>1. CASE total > 0
    <3>1. \A j \in DOMAIN c.matched : c.net[j] * total <= pool * c.matched[j]
      <4> SUFFICES ASSUME NEW j \in DOMAIN c.matched PROVE c.net[j] * total <= pool * c.matched[j]
        OBVIOUS
      <4>1. c.matched[j] \in Nat /\ j \in DOMAIN c.prod_wh
        BY <1>1, <1>2, ElementIn
      <4>2. pool * c.matched[j] \in Nat
        BY <1>1, <4>1, ProductNat
      <4>3. c.net[j] = (pool * c.matched[j]) \div total
        BY <1>0, <2>1, <4>1
      <4> QED
        BY <1>3, <2>1, <4>2, <4>3, Floor
    <3> DEFINE s == c.matched  t == c.net
    <3>2. /\ s \in Seq(Nat) /\ t \in Seq(Nat) /\ Len(t) = Len(s) /\ pool \in Nat
          /\ total \in Nat \ {0} /\ \A j \in DOMAIN s : t[j] * total <= pool * s[j]
      BY <1>1, <1>3, <2>1, <3>1
    <3> HIDE DEF s, t, pool, total
    <3>3. \A i \in 0 .. Len(s) : Upto(t, i) * total <= pool * Upto(s, i)
      BY <3>2, Proportional
    <3>4. c.total_net * total <= pool * total
      BY <1>2, <3>3 DEF s, t
    <3> QED
      BY <1>1, <3>2, <3>4, Cancels DEF pool
  <2>2. CASE ~(total > 0)
    <3>1. \A j \in DOMAIN c.matched : c.net[j] * 1 <= 0 * c.matched[j]
      <4> SUFFICES ASSUME NEW j \in DOMAIN c.matched PROVE c.net[j] * 1 <= 0 * c.matched[j]
        OBVIOUS
      <4>1. c.matched[j] \in Nat /\ j \in DOMAIN c.prod_wh
        BY <1>1, <1>2, ElementIn
      <4>2. c.net[j] = 0
        BY <1>0, <2>2, <4>1
      <4> QED
        BY <4>1, <4>2
    <3> DEFINE s == c.matched  t == c.net  a == 0  b == 1
    <3>2. /\ s \in Seq(Nat) /\ t \in Seq(Nat) /\ Len(t) = Len(s) /\ a \in Nat /\ b \in Nat
          /\ \A j \in DOMAIN s : t[j] * b <= a * s[j]
      BY <1>1, <3>1
    <3> HIDE DEF s, t, a, b
    <3>3. \A i \in 0 .. Len(s) : Upto(t, i) * b <= a * Upto(s, i)
      BY <3>2, Proportional
    <3>4. c.total_net * 1 <= 0 * total
      BY <1>2, <3>3 DEF s, t, a, b
    <3> QED
      BY <1>1, <1>3, <3>4
  <2> QED
    BY <2>1, <2>2
<1> QED
  BY <1>4, <1>5 DEF c

-----------------------------------------------------------------------------
(* The transfers, from the cuts. *)
CutsOf(w) == Cuts(Clearing(w).pay, Clearing(w).net)

LEMMA CutsOfFinite ==
  ASSUME NEW M, NEW w, Sound(w, M)
  PROVE  /\ CutsOf(w) \in SUBSET Nat /\ IsFiniteSet(CutsOf(w)) /\ 0 \in CutsOf(w)
         /\ Cardinality(CutsOf(w)) \in Nat \ {0}
         /\ \A x \in CutsOf(w) : x <= Clearing(w).total_paid
<1> DEFINE pay == Clearing(w).pay  net == Clearing(w).net
<1>1. /\ pay \in Seq(Nat) /\ net \in Seq(Nat)
      /\ Clearing(w).total_paid = Tally(pay) /\ Clearing(w).total_net = Tally(net)
      /\ Clearing(w).total_net <= Clearing(w).total_paid
  <2>1. /\ pay \in Seq(Nat) /\ net \in Seq(Nat)
        /\ Clearing(w).pool \in Nat /\ Clearing(w).pool <= Clearing(w).total_paid
        /\ Clearing(w).total_net \in Nat /\ Clearing(w).total_paid \in Nat
    BY ClearingTypes
  <2>2. Clearing(w).total_net <= Clearing(w).pool
    BY ClearingTotals
  <2>3. Clearing(w).total_paid = Tally(pay) /\ Clearing(w).total_net = Tally(net)
    BY ClearingFields
  <2> QED
    BY <2>1, <2>2, <2>3
<1>2. CutsOf(w) = Cuts(pay, net)
  BY DEF CutsOf
<1> HIDE DEF pay, net
<1>3. /\ Cuts(pay, net) \in SUBSET Nat /\ IsFiniteSet(Cuts(pay, net)) /\ 0 \in Cuts(pay, net)
      /\ \A x \in Cuts(pay, net) : x <= Tally(pay) \/ x <= Tally(net)
  BY <1>1, CutsFinite
<1>4. Tally(pay) \in Nat /\ Tally(net) \in Nat
  BY <1>1, TallyNat
<1>5. Cardinality(Cuts(pay, net)) \in Nat \ {0}
  <2>1. Cardinality(Cuts(pay, net)) \in Nat
    BY <1>3, FS_CardinalityType
  <2>2. Cardinality(Cuts(pay, net)) # 0
    BY <1>3, FS_EmptySet
  <2> QED
    BY <2>1, <2>2
<1>6. \A x \in Cuts(pay, net) : x <= Clearing(w).total_paid
  BY <1>1, <1>3, <1>4
<1> QED
  BY <1>2, <1>3, <1>5, <1>6

LegTill(w, n) ==
  [from   |-> w.owner[Importers(w)[Covering(Clearing(w).pay, Cut(CutsOf(w), n))]],
   to     |-> IF Cut(CutsOf(w), n) <= Clearing(w).total_net
                THEN w.owner[Exporters(w)[Covering(Clearing(w).net, Cut(CutsOf(w), n))]] ELSE Admin,
   amount |-> Cut(CutsOf(w), n) - Cut(CutsOf(w), n - 1)]

LEMMA LegsAre ==
  ASSUME NEW M, NEW w, Sound(w, M)
  PROVE  /\ Legs(w, Clearing(w)) = [n \in 1 .. Cardinality(CutsOf(w)) - 1 |-> LegTill(w, n)]
         /\ Len(Legs(w, Clearing(w))) = Cardinality(CutsOf(w)) - 1
         /\ Cardinality(CutsOf(w)) - 1 \in Nat
<1> DEFINE c == Clearing(w)
<1>1. Legs(w, c) = [n \in 1 .. Cardinality(CutsOf(w)) - 1 |-> LegTill(w, n)]
  BY DEF Legs, LegTill, CutsOf
<1>2. Cardinality(CutsOf(w)) - 1 \in Nat
  BY CutsOfFinite
<1> DEFINE legs == Legs(w, c)  N == Cardinality(CutsOf(w)) - 1  V == {LegTill(w, n) : n \in 1 .. N}
<1>3. N \in Nat /\ legs \in [1 .. N -> V]
  BY <1>1, <1>2
<1> HIDE DEF legs, N, V
<1>4. Len(legs) = N
  BY <1>3, IsSequence
<1> QED
  BY <1>1, <1>2, <1>4 DEF legs, N

(* The transfer between two neighbouring cuts. *)
LEMMA LegBetween ==
  ASSUME NEW M, NEW w, Sound(w, M), NEW x \in CutsOf(w), NEW y \in CutsOf(w), x < y,
         \A z \in CutsOf(w) : z <= x \/ y <= z,
         NEW n, n = Cardinality(Below(CutsOf(w), x))
  PROVE  /\ n \in Nat /\ n + 1 \in 1 .. Len(Legs(w, Clearing(w)))
         /\ Cardinality(Below(CutsOf(w), y)) = n + 1
         /\ Legs(w, Clearing(w))[n + 1] =
              [from   |-> w.owner[Importers(w)[Covering(Clearing(w).pay, y)]],
               to     |-> IF y <= Clearing(w).total_net
                            THEN w.owner[Exporters(w)[Covering(Clearing(w).net, y)]] ELSE Admin,
               amount |-> y - x]
<1> DEFINE C == CutsOf(w)
<1>1. C \in SUBSET Nat /\ IsFiniteSet(C)
  BY CutsOfFinite
<1>2. /\ Len(Legs(w, Clearing(w))) = Cardinality(C) - 1
      /\ Legs(w, Clearing(w)) = [i \in 1 .. Cardinality(C) - 1 |-> LegTill(w, i)]
  BY LegsAre
<1>3. /\ x \in C /\ y \in C /\ \A z \in C : z <= x \/ y <= z
      /\ n = Cardinality(Below(C, x))
  OBVIOUS
<1>4. n \in Nat /\ Cardinality(C) \in Nat
  <2> HIDE DEF C
  <2> QED
    BY <1>1, <1>3, BelowFinite
<1>5. Cardinality(Below(C, y)) = n + 1
  <2> HIDE DEF C
  <2> QED
    BY <1>1, <1>3, NextCut
<1>6. n + 1 < Cardinality(C)
  <2> HIDE DEF C
  <2>1. Cardinality(Below(C, y)) < Cardinality(C)
    BY <1>1, <1>3, BelowFinite
  <2> QED
    BY <1>5, <2>1
<1>7. Cut(C, n + 1) = y /\ Cut(C, n) = x
  <2> HIDE DEF C
  <2> QED
    BY <1>1, <1>3, <1>5, CutOfRank
<1>8. n + 1 \in 1 .. Cardinality(C) - 1 /\ (n + 1) - 1 = n
  BY <1>4, <1>6
<1>9. Legs(w, Clearing(w))[n + 1] = LegTill(w, n + 1)
  BY <1>2, <1>8
<1>10. Cut(C, (n + 1) - 1) = x
  BY <1>7, <1>8
<1> QED
  BY <1>2, <1>4, <1>5, <1>7, <1>8, <1>9, <1>10 DEF LegTill

(* Every transfer is of a nonnegative amount, from an owner of a meter to  *)
(* an owner of a meter or to the admin.                                    *)
LEMMA LegsTyped ==
  ASSUME NEW M, NEW A, NEW w, Sound(w, M), w.owner \in [M -> A], Admin \in A,
         NEW n \in 1 .. Len(Legs(w, Clearing(w)))
  PROVE  /\ Legs(w, Clearing(w))[n].from \in A /\ Legs(w, Clearing(w))[n].to \in A
         /\ Legs(w, Clearing(w))[n].amount \in Nat
<1> DEFINE C == CutsOf(w)
           pay == Clearing(w).pay
           net == Clearing(w).net
           till == Cut(C, n)
<1>1. /\ C \in SUBSET Nat /\ IsFiniteSet(C) /\ 0 \in C
      /\ \A x \in C : x <= Clearing(w).total_paid
  BY CutsOfFinite
<1>2. Legs(w, Clearing(w))[n] = LegTill(w, n) /\ n \in 1 .. Cardinality(C) - 1
  BY LegsAre
<1>3. till \in C /\ till \in Nat /\ Cut(C, n - 1) \in Nat /\ Cut(C, n - 1) < till
  <2> HIDE DEF C
  <2> QED
    BY <1>1, <1>2, CutsRise
<1>4. /\ pay \in Seq(Nat) /\ net \in Seq(Nat)
      /\ Len(pay) = Len(Importers(w)) /\ Len(net) = Len(Exporters(w))
  BY ClearingTypes
<1>5. Clearing(w).total_paid = Tally(pay) /\ Clearing(w).total_net = Tally(net)
  BY ClearingFields
<1>6. Exporters(w) \in Seq(M) /\ Importers(w) \in Seq(M)
  BY SidesFacts
<1>7. till \in Nat \ {0} /\ till <= Tally(pay)
  BY <1>1, <1>3, <1>5
<1> HIDE DEF till, pay, net
<1>8. w.owner[Importers(w)[Covering(pay, till)]] \in A
  <2>1. Covering(pay, till) \in DOMAIN pay
    BY <1>4, <1>7, Covered
  <2>2. Covering(pay, till) \in DOMAIN Importers(w)
    BY <1>4, <1>6, <2>1
  <2>3. Importers(w)[Covering(pay, till)] \in M
    BY <1>6, <2>2, ElementIn
  <2> QED
    BY <2>3
<1>9. ASSUME till <= Tally(net) PROVE w.owner[Exporters(w)[Covering(net, till)]] \in A
  <2>1. Covering(net, till) \in DOMAIN net
    BY <1>4, <1>7, <1>9, Covered
  <2>2. Covering(net, till) \in DOMAIN Exporters(w)
    BY <1>4, <1>6, <2>1
  <2>3. Exporters(w)[Covering(net, till)] \in M
    BY <1>6, <2>2, ElementIn
  <2> QED
    BY <2>3
<1>10. /\ LegTill(w, n).from = w.owner[Importers(w)[Covering(pay, till)]]
       /\ LegTill(w, n).to = IF till <= Tally(net)
                               THEN w.owner[Exporters(w)[Covering(net, till)]] ELSE Admin
       /\ LegTill(w, n).amount = till - Cut(C, n - 1)
  BY <1>5 DEF LegTill, till, pay, net
<1>11. LegTill(w, n).amount \in Nat
  <2>1. \A a, b \in Nat : b < a => a - b \in Nat
    OBVIOUS
  <2>2. till - Cut(C, n - 1) \in Nat
    <3> HIDE DEF C
    <3> QED
      BY <1>3, <2>1 DEF till
  <2> QED
    BY <1>10, <2>2
<1> QED
  BY <1>2, <1>8, <1>9, <1>10, <1>11

(* What is not for the admin goes to the owner of a listed exporter.       *)
LEMMA LegTo ==
  ASSUME NEW M, NEW w, Sound(w, M), NEW n \in 1 .. Len(Legs(w, Clearing(w)))
  PROVE  \/ Legs(w, Clearing(w))[n].to = Admin
         \/ \E j \in DOMAIN Exporters(w) : Legs(w, Clearing(w))[n].to = w.owner[Exporters(w)[j]]
<1> DEFINE C == CutsOf(w)
           net == Clearing(w).net
           till == Cut(C, n)
<1>1. C \in SUBSET Nat /\ IsFiniteSet(C) /\ 0 \in C
  BY CutsOfFinite
<1>2. Legs(w, Clearing(w))[n] = LegTill(w, n) /\ n \in 1 .. Cardinality(C) - 1
  BY LegsAre
<1>3. till \in Nat \ {0}
  <2> HIDE DEF C
  <2>1. till \in Nat /\ Cut(C, n - 1) \in Nat /\ Cut(C, n - 1) < till
    BY <1>1, <1>2, CutsRise
  <2> QED
    BY <2>1
<1>4. net \in Seq(Nat) /\ Len(net) = Len(Exporters(w)) /\ Clearing(w).total_net = Tally(net)
  BY ClearingTypes, ClearingFields
<1>5. Exporters(w) \in Seq(M)
  BY SidesFacts
<1>6. LegTill(w, n).to = IF till <= Tally(net)
                           THEN w.owner[Exporters(w)[Covering(net, till)]] ELSE Admin
  BY <1>4 DEF LegTill
<1> HIDE DEF till, net
<1>7. ASSUME till <= Tally(net) PROVE Covering(net, till) \in DOMAIN Exporters(w)
  <2>1. Covering(net, till) \in DOMAIN net
    BY <1>3, <1>4, <1>7, Covered
  <2> QED
    BY <1>4, <1>5, <2>1
<1> QED
  BY <1>2, <1>6, <1>7

(* The token moves money between accounts of A and never below zero.       *)
LEMMA TransferTyped ==
  ASSUME NEW A, NEW purse, purse.bal \in [A -> Nat], purse.allow \in [A -> Nat],
         NEW leg, leg.from \in A, leg.to \in A, leg.amount \in Nat
  PROVE  /\ TransferFrom(purse, leg).bal \in [A -> Nat]
         /\ TransferFrom(purse, leg).allow \in [A -> Nat]
<1> DEFINE a == leg.amount
           allow == [purse.allow EXCEPT ![leg.from] = @ - a]
           paid == [purse.bal EXCEPT ![leg.from] = @ - a]
           bal == [paid EXCEPT ![leg.to] = @ + a]
<1>1. CASE purse.ok /\ CanMove(purse, leg)
  <2>1. purse.allow[leg.from] >= a /\ purse.bal[leg.from] >= a
    BY <1>1 DEF CanMove
  <2>2. purse.allow[leg.from] - a \in Nat /\ purse.bal[leg.from] - a \in Nat
    BY <2>1
  <2>3. allow \in [A -> Nat] /\ paid \in [A -> Nat]
    BY <2>2
  <2>4. bal \in [A -> Nat]
    <3> HIDE DEF paid
    <3>1. paid[leg.to] + a \in Nat
      BY <2>3
    <3> QED
      BY <2>3, <3>1
  <2>5. TransferFrom(purse, leg) = [ok |-> TRUE, allow |-> allow, bal |-> bal]
    BY <1>1 DEF TransferFrom
  <2> QED
    BY <2>3, <2>4, <2>5
<1>2. CASE ~(purse.ok /\ CanMove(purse, leg))
  BY <1>2 DEF TransferFrom
<1> QED
  BY <1>1, <1>2

(* A swap leaves every balance and every allowance at zero or above,       *)
(* whoever the owners are and whether or not it goes through.              *)
LEMMA SwapTyped ==
  ASSUME NEW M, NEW A, NEW w, Sound(w, M), w.owner \in [M -> A], Admin \in A,
         NEW purse, purse.bal \in [A -> Nat], purse.allow \in [A -> Nat]
  PROVE  /\ Swap(purse, w, Clearing(w)).bal \in [A -> Nat]
         /\ Swap(purse, w, Clearing(w)).allow \in [A -> Nat]
<1> DEFINE legs == Legs(w, Clearing(w))
           After(n) == Transferred(purse, legs, n)
           Typed(p) == p.bal \in [A -> Nat] /\ p.allow \in [A -> Nat]
           S == {n \in Nat : n <= Len(legs) => Typed(After(n))}
<1>1. Len(legs) \in Nat
  BY LegsAre
<1>2. \A n \in 1 .. Len(legs) :
        legs[n].from \in A /\ legs[n].to \in A /\ legs[n].amount \in Nat
  BY LegsTyped
<1> HIDE DEF legs
<1>3. After(0) = purse /\ \A j \in 1 .. Len(legs) : After(j) = TransferFrom(After(j - 1), legs[j])
  <2> HIDE DEF legs
  <2>1. OneByOne(purse, legs)
    BY <1>1, TransferredFacts
  <2> QED
    BY <2>1, Zenon DEF OneByOne
<1>4. 0 \in S
  BY <1>3
<1> HIDE DEF After
<1>5. ASSUME NEW n \in Nat, n \in S PROVE n + 1 \in S
  <2> SUFFICES ASSUME n + 1 <= Len(legs) PROVE Typed(After(n + 1))
    OBVIOUS
  <2>1. n + 1 \in 1 .. Len(legs) /\ (n + 1) - 1 = n /\ n <= Len(legs)
    BY <1>1
  <2>2. Typed(After(n)) /\ After(n + 1) = TransferFrom(After(n), legs[n + 1])
    BY <1>3, <1>5, <2>1
  <2>3. /\ legs[n + 1].from \in A /\ legs[n + 1].to \in A /\ legs[n + 1].amount \in Nat
    BY <1>2, <2>1
  <2> DEFINE p == After(n)  leg == legs[n + 1]
  <2>4. /\ p.bal \in [A -> Nat] /\ p.allow \in [A -> Nat]
        /\ leg.from \in A /\ leg.to \in A /\ leg.amount \in Nat
        /\ After(n + 1) = TransferFrom(p, leg)
    BY <2>2, <2>3
  <2> HIDE DEF p, leg
  <2>5. Typed(TransferFrom(p, leg))
    BY <2>4, TransferTyped
  <2> QED
    BY <2>4, <2>5
<1>6. Len(legs) \in S
  <2> HIDE DEF S
  <2> QED
    BY <1>1, <1>4, <1>5, Inductive
<1>7. Typed(After(Len(legs)))
  BY <1>1, <1>6
<1> QED
  BY <1>7 DEF After, legs, Swap

-----------------------------------------------------------------------------
(* Sums over a part of the meters. *)
LEMMA SumMonotone ==
  ASSUME NEW a \in Nat, NEW b \in Nat, NEW x \in Nat, NEW y \in Nat, a <= b, x <= y
  PROVE  a + x <= b + y
OBVIOUS

LEMMA UptoBelow ==
  ASSUME NEW s \in Seq(Nat), NEW t \in Seq(Nat), Len(t) = Len(s), NEW k \in 0 .. Len(s),
         \A i \in 1 .. k : s[i] <= t[i]
  PROVE  Upto(s, k) <= Upto(t, k)
<1> DEFINE S == {n \in Nat : n <= k => Upto(s, n) <= Upto(t, n)}
<1>1. 0 \in S
  <2>1. Upto(t, 0) = 0 /\ Upto(s, 0) = 0
    BY UptoFacts
  <2> QED
    BY <2>1
<1>2. ASSUME NEW n \in Nat, n \in S PROVE n + 1 \in S
  <2> SUFFICES ASSUME n + 1 <= k PROVE Upto(s, n + 1) <= Upto(t, n + 1)
    OBVIOUS
  <2>1. n + 1 \in 1 .. Len(s) /\ n \in 0 .. Len(s) /\ n + 1 \in 1 .. k /\ (n + 1) - 1 = n
    OBVIOUS
  <2>2. /\ Upto(t, n) \in Nat /\ Upto(s, n) \in Nat /\ t[n + 1] \in Nat /\ s[n + 1] \in Nat
        /\ Upto(t, n + 1) = Upto(t, n) + t[n + 1] /\ Upto(s, n + 1) = Upto(s, n) + s[n + 1]
    <3>1. n + 1 <= Len(s) /\ n + 1 <= Len(t)
      BY <2>1
    <3> QED
      BY <3>1, UptoStep
  <2>3. Upto(s, n) <= Upto(t, n) /\ s[n + 1] <= t[n + 1]
    BY <1>2, <2>1
  <2> QED
    BY <2>2, <2>3, SumMonotone
<1>3. k \in S
  <2> HIDE DEF S
  <2>1. Nat \subseteq S
    BY <1>1, <1>2, Inductive
  <2> QED
    BY <2>1
<1> QED
  BY <1>3

(* Leaving one amount out of a sum. *)
LEMMA TallyWithout ==
  ASSUME NEW s \in Seq(Nat), NEW m \in DOMAIN s
  PROVE  /\ [s EXCEPT ![m] = 0] \in Seq(Nat) /\ Len([s EXCEPT ![m] = 0]) = Len(s)
         /\ Tally([s EXCEPT ![m] = 0]) + s[m] = Tally(s)
<1> DEFINE t == [s EXCEPT ![m] = 0]
           Part(n) == IF m <= n THEN s[m] ELSE 0
           S == {n \in Nat : n <= Len(s) => Upto(t, n) + Part(n) = Upto(s, n)}
<1>1. /\ t \in Seq(Nat) /\ Len(t) = Len(s) /\ m \in 1 .. Len(s) /\ s[m] \in Nat
      /\ \A i \in 1 .. Len(s) : t[i] = IF i = m THEN 0 ELSE s[i]
  OBVIOUS
<1> HIDE DEF t
<1>2. 0 \in S
  <2>1. Upto(t, 0) = 0 /\ Upto(s, 0) = 0
    BY <1>1, UptoFacts
  <2> QED
    BY <1>1, <2>1
<1>3. ASSUME NEW n \in Nat, n \in S PROVE n + 1 \in S
  <2> SUFFICES ASSUME n + 1 <= Len(s) PROVE Upto(t, n + 1) + Part(n + 1) = Upto(s, n + 1)
    OBVIOUS
  <2>1. n + 1 \in 1 .. Len(s) /\ n \in 0 .. Len(s) /\ (n + 1) - 1 = n
    OBVIOUS
  <2>2. /\ Upto(t, n) \in Nat /\ Upto(s, n) \in Nat /\ t[n + 1] \in Nat /\ s[n + 1] \in Nat
        /\ Upto(t, n + 1) = Upto(t, n) + t[n + 1] /\ Upto(s, n + 1) = Upto(s, n) + s[n + 1]
    <3>1. n + 1 <= Len(s) /\ n + 1 <= Len(t) /\ t \in Seq(Nat)
      BY <1>1, <2>1
    <3> QED
      BY <3>1, UptoStep
  <2>3. Upto(t, n) + Part(n) = Upto(s, n)
    BY <1>3, <2>1
  <2>4. CASE n + 1 = m
    <3>1. Part(n) = 0 /\ Part(n + 1) = s[n + 1] /\ t[n + 1] = 0
      BY <1>1, <2>1, <2>4
    <3> QED
      BY <2>2, <2>3, <3>1
  <2>5. CASE n + 1 # m
    <3>1. Part(n) = Part(n + 1) /\ t[n + 1] = s[n + 1] /\ Part(n) \in Nat
      BY <1>1, <2>1, <2>5
    <3> HIDE DEF Part
    <3> QED
      BY <2>2, <2>3, <3>1
  <2> QED
    BY <2>4, <2>5
<1>4. Len(s) \in S
  <2> HIDE DEF S
  <2>1. Nat \subseteq S
    BY <1>2, <1>3, Inductive
  <2> QED
    BY <2>1
<1>5. Upto(t, Len(s)) + s[m] = Upto(s, Len(s))
  BY <1>1, <1>4
<1>6. Tally(t) + s[m] = Tally(s)
  BY <1>1, <1>5 DEF Tally
<1> QED
  BY <1>1, <1>6 DEF t

(* No element occurs twice. *)
Once(s) == \A i, j \in DOMAIN s : i # j => s[i] # s[j]

(* Amounts that are looked up once each are together at most all of them.  *)
LEMMA SumOnce ==
  ASSUME NEW N \in Nat, NEW s \in Seq(1 .. N), Once(s), NEW f \in Seq(Nat), Len(f) = N
  PROVE  /\ [i \in DOMAIN s |-> f[s[i]]] \in Seq(Nat)
         /\ Tally([i \in DOMAIN s |-> f[s[i]]]) <= Tally(f)
<1> DEFINE Of(g) == [i \in DOMAIN s |-> g[s[i]]]
           F == {g \in Seq(Nat) : Len(g) = N}
           S == {k \in Nat : k <= Len(s) => \A g \in F : Upto(Of(g), k) <= Tally(g)}
<1>1. ASSUME NEW g \in F
      PROVE  /\ Of(g) \in Seq(Nat) /\ Len(Of(g)) = Len(s) /\ Tally(g) \in Nat
             /\ \A i \in 1 .. Len(s) : Of(g)[i] = g[s[i]] /\ s[i] \in DOMAIN g
  <2>1. \A i \in 1 .. Len(s) : s[i] \in 1 .. N /\ g[s[i]] \in Nat
    OBVIOUS
  <2>2. Of(g) \in [1 .. Len(s) -> Nat] /\ Len(s) \in Nat
    BY <2>1
  <2>3. Of(g) \in Seq(Nat) /\ Len(Of(g)) = Len(s)
    <3> HIDE DEF Of
    <3> QED
      BY <2>2, IsSequence
  <2>4. \A i \in 1 .. Len(s) : Of(g)[i] = g[s[i]] /\ s[i] \in DOMAIN g
    BY <2>1
  <2> QED
    BY <2>3, <2>4, TallyNat
<1> HIDE DEF Of
<1>2. 0 \in S
  BY <1>1, UptoFacts
<1>3. ASSUME NEW k \in Nat, k \in S PROVE k + 1 \in S
  <2> SUFFICES ASSUME k + 1 <= Len(s), NEW g \in F PROVE Upto(Of(g), k + 1) <= Tally(g)
    OBVIOUS
  <2> DEFINE m == s[k + 1]
             h == [g EXCEPT ![m] = 0]
  <2>1. k + 1 \in 1 .. Len(s) /\ k \in 0 .. Len(s) /\ (k + 1) - 1 = k /\ k <= Len(s)
    OBVIOUS
  <2>2. m \in DOMAIN g /\ Of(g)[k + 1] = g[m] /\ g[m] \in Nat
    <3>1. Of(g)[k + 1] = g[m] /\ m \in DOMAIN g
      BY <1>1, <2>1, Zenon
    <3>2. g \in Seq(Nat)
      OBVIOUS
    <3> HIDE DEF m
    <3> QED
      BY <3>1, <3>2, ElementIn
  <2>3. h \in F /\ Tally(h) + g[m] = Tally(g)
    <3> HIDE DEF m
    <3> QED
      BY <2>2, TallyWithout
  <2>4. Upto(Of(h), k) <= Tally(h)
    <3> HIDE DEF h
    <3> QED
      BY <1>3, <2>1, <2>3
  <2>5. \A i \in 1 .. k : Of(g)[i] <= Of(h)[i]
    <3> SUFFICES ASSUME NEW i \in 1 .. k PROVE Of(g)[i] <= Of(h)[i]
      OBVIOUS
    <3>1. i \in 1 .. Len(s) /\ i \in DOMAIN s /\ k + 1 \in DOMAIN s /\ i # k + 1
      BY <2>1
    <3>2. s[i] # m
      BY <3>1 DEF Once
    <3>3. /\ Of(g)[i] = g[s[i]] /\ s[i] \in DOMAIN g
      BY <1>1, <3>1
    <3>4. Of(h)[i] = h[s[i]]
      <4> HIDE DEF h
      <4> QED
        BY <1>1, <2>3, <3>1
    <3>5. h[s[i]] = g[s[i]] /\ g[s[i]] \in Nat
      BY <3>2, <3>3
    <3> QED
      BY <3>3, <3>4, <3>5
  <2>6. Upto(Of(g), k) <= Upto(Of(h), k)
    <3> DEFINE a == Of(g)  b == Of(h)
    <3>1. /\ a \in Seq(Nat) /\ b \in Seq(Nat) /\ Len(a) = Len(b) /\ k \in 0 .. Len(a)
          /\ \A i \in 1 .. k : a[i] <= b[i]
      <4> HIDE DEF h
      <4> QED
        BY <1>1, <2>1, <2>3, <2>5
    <3> HIDE DEF a, b
    <3>2. Upto(a, k) <= Upto(b, k)
      BY <3>1, UptoBelow
    <3> QED
      BY <3>2 DEF a, b
  <2> HIDE DEF h, m
  <2>7. /\ Upto(Of(g), k + 1) = Upto(Of(g), k) + Of(g)[k + 1]
        /\ Upto(Of(g), k) \in Nat /\ Upto(Of(h), k) \in Nat /\ Tally(h) \in Nat
    BY <1>1, <2>1, <2>3, UptoFacts
  <2> QED
    BY <2>2, <2>3, <2>4, <2>6, <2>7
<1>4. Len(s) \in S
  <2> HIDE DEF S
  <2>1. Nat \subseteq S
    BY <1>2, <1>3, Inductive
  <2> QED
    BY <2>1
<1>5. f \in F
  OBVIOUS
<1>6. Tally(Of(f)) <= Tally(f)
  BY <1>1, <1>4, <1>5 DEF Tally
<1> QED
  BY <1>1, <1>5, <1>6 DEF Of

(* What is picked from a list without repetition has none. *)
LEMMA AmongOnce ==
  ASSUME NEW E, NEW s \in Seq(E), NEW T, Once(s)
  PROVE  Once(Among(s, T, Len(s)))
<1> DEFINE A(n) == Among(s, T, n)
           From(n) == \A h \in DOMAIN A(n) : \E g \in 1 .. n : A(n)[h] = s[g]
           S == {n \in Nat : n <= Len(s) => From(n) /\ Once(A(n))}
<1>1. /\ A(0) = <<>>
      /\ \A j \in 1 .. Len(s) : /\ s[j] \in T => A(j) = Append(A(j - 1), s[j])
                                /\ s[j] \notin T => A(j) = A(j - 1)
  <2>1. A(0) = <<>>
    BY AmongTyped, Zenon
  <2>2. \A j \in 1 .. Len(s) : /\ s[j] \in T => A(j) = Append(A(j - 1), s[j])
                               /\ s[j] \notin T => A(j) = A(j - 1)
    BY AmongStep, Zenon
  <2> QED
    BY <2>1, <2>2
<1>2. \A n \in 0 .. Len(s) : A(n) \in Seq(E)
  <2>1. \A n \in 0 .. Len(s) : A(n) \in Seq(E \cap T)
    BY AmongTyped, Zenon
  <2>2. \A x \in Seq(E \cap T) : x \in Seq(E)
    OBVIOUS
  <2> QED
    BY <2>1, <2>2
<1> HIDE DEF A
<1>3. 0 \in S
  BY <1>1 DEF Once
<1>4. ASSUME NEW n \in Nat, n \in S PROVE n + 1 \in S
  <2> SUFFICES ASSUME n + 1 <= Len(s) PROVE From(n + 1) /\ Once(A(n + 1))
    OBVIOUS
  <2> DEFINE a == A(n)  b == A(n + 1)  e == s[n + 1]
  <2>1. n + 1 \in 1 .. Len(s) /\ n \in 0 .. Len(s) /\ (n + 1) - 1 = n /\ n + 1 \in DOMAIN s
    OBVIOUS
  <2>2. /\ a \in Seq(E) /\ e \in E /\ (b = Append(a, e) \/ b = a)
        /\ Once(a) /\ \A h \in DOMAIN a : \E g \in 1 .. n : a[h] = s[g]
    BY <1>1, <1>2, <1>4, <2>1
  <2>3. \A g \in 1 .. n : s[g] # e
    <3>1. \A g \in 1 .. n : g \in DOMAIN s /\ g # n + 1
      BY <2>1
    <3> QED
      BY <2>1, <3>1 DEF Once
  <2> HIDE DEF a, b
  <2>4. CASE b = a
    <3>1. \A h \in DOMAIN b : \E g \in 1 .. n + 1 : b[h] = s[g]
      BY <2>2, <2>4
    <3> QED
      BY <2>2, <2>4, <3>1 DEF a, b
  <2>5. CASE b = Append(a, e)
    <3>1. /\ Len(b) = Len(a) + 1 /\ Len(a) \in Nat /\ b \in Seq(E)
          /\ \A i \in DOMAIN a : b[i] = a[i]
          /\ b[Len(a) + 1] = e
          /\ \A i \in DOMAIN b : i \in DOMAIN a \/ i = Len(a) + 1
      BY <2>2, <2>5, Appended
    <3>2. \A h \in DOMAIN b : \E g \in 1 .. n + 1 : b[h] = s[g]
      <4> SUFFICES ASSUME NEW h \in DOMAIN b PROVE \E g \in 1 .. n + 1 : b[h] = s[g]
        OBVIOUS
      <4>1. CASE h \in DOMAIN a
        BY <2>2, <3>1, <4>1
      <4>2. CASE h = Len(a) + 1
        BY <2>1, <3>1, <4>2
      <4> QED
        BY <3>1, <4>1, <4>2
    <3>3. \A h \in DOMAIN a : a[h] # e
      BY <2>2, <2>3
    <3>4. Once(b)
      <4> SUFFICES ASSUME NEW i \in DOMAIN b, NEW j \in DOMAIN b, i # j PROVE b[i] # b[j]
        BY DEF Once
      <4>1. CASE i \in DOMAIN a /\ j \in DOMAIN a
        BY <2>2, <3>1, <4>1 DEF Once
      <4>2. CASE i \in DOMAIN a /\ j = Len(a) + 1
        BY <3>1, <3>3, <4>2
      <4>3. CASE i = Len(a) + 1 /\ j \in DOMAIN a
        BY <3>1, <3>3, <4>3
      <4> QED
        BY <3>1, <4>1, <4>2, <4>3
    <3> QED
      BY <3>2, <3>4 DEF b
  <2> QED
    BY <2>2, <2>4, <2>5
<1>5. Len(s) \in S
  <2> HIDE DEF S
  <2>1. Nat \subseteq S
    BY <1>3, <1>4, Inductive
  <2> QED
    BY <2>1
<1> QED
  BY <1>5 DEF A

-----------------------------------------------------------------------------
(* What flows out of some accounts. *)

(* No cut lies between a cut and the one before it. *)
LEMMA NoneBetweenCuts ==
  ASSUME NEW C \in SUBSET Nat, IsFiniteSet(C), 0 \in C, NEW n \in 1 .. Cardinality(C) - 1,
         NEW z \in C, z < Cut(C, n)
  PROVE  z <= Cut(C, n - 1)
<1> DEFINE x == Cut(C, n - 1)  y == Cut(C, n)
<1>1. /\ x \in C /\ Cardinality(Below(C, x)) = n - 1
      /\ y \in C /\ Cardinality(Below(C, y)) = n
  <2>1. Cardinality(C) \in Nat
    BY FS_CardinalityType
  <2>2. n - 1 \in 0 .. Cardinality(C) - 1 /\ n \in 0 .. Cardinality(C) - 1
    BY <2>1
  <2> QED
    BY <2>2, RankedCut
<1> HIDE DEF x, y
<1>2. z < y
  BY DEF y
<1>3. ASSUME x < z PROVE FALSE
  <2>1. /\ Cardinality(Below(C, x)) < Cardinality(Below(C, z))
        /\ Cardinality(Below(C, z)) < Cardinality(Below(C, y))
    BY <1>1, <1>2, <1>3, BelowGrows
  <2>2. Cardinality(Below(C, z)) \in Nat
    BY BelowFinite
  <2> QED
    BY <1>1, <2>1, <2>2
<1>4. z <= x
  <2>1. x \in Nat /\ z \in Nat
    BY <1>1
  <2> QED
    BY <1>3, <2>1
<1> QED
  BY <1>4 DEF x

LEMMA FirstCut ==
  ASSUME NEW C \in SUBSET Nat, IsFiniteSet(C), 0 \in C
  PROVE  Cut(C, 0) = 0
<1>1. Below(C, 0) = {}
  <2>1. \A y \in C : ~(y < 0)
    OBVIOUS
  <2> QED
    BY <2>1, Zenon DEF Below
<1>2. Cardinality(Below(C, 0)) = 0
  <2>1. Cardinality({}) = 0
    BY FS_EmptySet, Zenon
  <2> QED
    BY <1>1, <2>1
<1> QED
  BY <1>2, CutOfRank

(* The payments of the consumers that some accounts own. *)
DuesOf(w, T) ==
  [i \in DOMAIN Clearing(w).pay |->
     IF w.owner[Importers(w)[i]] \in T THEN Clearing(w).pay[i] ELSE 0]

(* v(n) grows by no more than what the n-th transfer takes from T.         *)
Flows(v, w, T) ==
  /\ v \in [0 .. Len(Legs(w, Clearing(w))) -> Int] /\ v[0] <= 0
  /\ \A n \in 1 .. Len(Legs(w, Clearing(w))) :
       v[n] <= v[n - 1] + (IF Legs(w, Clearing(w))[n].from \in T
                             THEN Legs(w, Clearing(w))[n].amount ELSE 0)

LEMMA DuesNat ==
  ASSUME NEW M, NEW w, Sound(w, M), NEW T
  PROVE  /\ DuesOf(w, T) \in Seq(Nat) /\ Len(DuesOf(w, T)) = Len(Clearing(w).pay)
         /\ DOMAIN DuesOf(w, T) = DOMAIN Clearing(w).pay
         /\ Len(Clearing(w).pay) = Len(Importers(w)) /\ Clearing(w).pay \in Seq(Nat)
<1> DEFINE pay == Clearing(w).pay
<1>1. pay \in Seq(Nat) /\ Len(pay) = Len(Importers(w))
  BY ClearingTypes
<1>2. DuesOf(w, T) = [i \in DOMAIN pay |-> IF w.owner[Importers(w)[i]] \in T THEN pay[i] ELSE 0]
  BY DEF DuesOf
<1> HIDE DEF pay
<1>3. DOMAIN pay = 1 .. Len(pay) /\ Len(pay) \in Nat /\ \A i \in DOMAIN pay : pay[i] \in Nat
  BY <1>1
<1>4. DuesOf(w, T) \in [1 .. Len(pay) -> Nat]
  BY <1>2, <1>3
<1>5. DuesOf(w, T) \in Seq(Nat) /\ Len(DuesOf(w, T)) = Len(pay)
  BY <1>3, <1>4, IsSequence
<1> QED
  BY <1>1, <1>2, <1>5 DEF pay

(* Through any number of transfers, no more flows out of T than its own    *)
(* consumers owe: at a cut, what has flowed is laid against the payments   *)
(* of T that end below it and its part of the one that covers it.          *)
LEMMA FlowOut ==
  ASSUME NEW M, NEW w, Sound(w, M), NEW T, NEW v, Flows(v, w, T)
  PROVE  v[Len(Legs(w, Clearing(w)))] <= Tally(DuesOf(w, T))
<1> DEFINE C == CutsOf(w)
           pay == Clearing(w).pay
           own == DuesOf(w, T)
           N == Len(Legs(w, Clearing(w)))
           Mine(i) == w.owner[Importers(w)[i]] \in T
           Laid(i, x) == Upto(own, i - 1) + (IF Mine(i) THEN x - Upto(pay, i - 1) ELSE 0)
           P(n) == /\ v[n] <= Tally(own)
                   /\ \A i \in DOMAIN pay :
                        Upto(pay, i - 1) <= Cut(C, n) /\ Cut(C, n) <= Upto(pay, i)
                          => v[n] <= Laid(i, Cut(C, n))
           S == {n \in Nat : n <= N => P(n)}
<1>1. /\ C \in SUBSET Nat /\ IsFiniteSet(C) /\ 0 \in C /\ Cardinality(C) \in Nat \ {0}
      /\ \A x \in C : x <= Tally(pay)
  <2>1. Clearing(w).total_paid = Tally(pay)
    BY ClearingFields
  <2> QED
    BY <2>1, CutsOfFinite
<1>2. N = Cardinality(C) - 1 /\ N \in Nat
  BY LegsAre
<1>3. /\ pay \in Seq(Nat) /\ own \in Seq(Nat) /\ Len(own) = Len(pay)
      /\ DOMAIN pay = 1 .. Len(pay) /\ Len(pay) \in Nat
      /\ \A i \in DOMAIN pay : own[i] = IF Mine(i) THEN pay[i] ELSE 0
  <2>1. pay \in Seq(Nat) /\ own \in Seq(Nat) /\ Len(own) = Len(pay)
    BY DuesNat
  <2>2. \A i \in DOMAIN pay : own[i] = IF Mine(i) THEN pay[i] ELSE 0
    BY DEF DuesOf
  <2> HIDE DEF pay, own
  <2> QED
    BY <2>1, <2>2
<1>4. \A i \in DOMAIN pay : Upto(pay, i - 1) = 0 \/ Upto(pay, i - 1) \in C
  <2> SUFFICES ASSUME NEW i \in DOMAIN pay PROVE Upto(pay, i - 1) = 0 \/ Upto(pay, i - 1) \in C
    OBVIOUS
  <2>1. i = 1 \/ i - 1 \in DOMAIN pay
    BY <1>3
  <2>2. CASE i = 1
    BY <1>3, <2>2, UptoFacts
  <2>3. CASE i - 1 \in DOMAIN pay
    BY <2>3 DEF CutsOf, Cuts
  <2> QED
    BY <2>1, <2>2, <2>3
<1>5. /\ v \in [0 .. N -> Int] /\ v[0] <= 0
      /\ \A n \in 1 .. N : v[n] <= v[n - 1] + (IF LegTill(w, n).from \in T THEN LegTill(w, n).amount ELSE 0)
  <2>1. \A n \in 1 .. N : Legs(w, Clearing(w))[n] = LegTill(w, n)
    BY <1>2, LegsAre
  <2> QED
    BY <2>1 DEF Flows
<1>6. \A n \in 1 .. N :
        /\ LegTill(w, n).from \in T <=> Mine(Covering(pay, Cut(C, n)))
        /\ LegTill(w, n).amount = Cut(C, n) - Cut(C, n - 1)
  BY DEF LegTill
<1> HIDE DEF C, pay, own, N, Mine
<1>7. ASSUME NEW i \in DOMAIN pay
      PROVE  /\ Upto(pay, i) \in Nat /\ Upto(pay, i - 1) \in Nat /\ pay[i] \in Nat
             /\ Upto(pay, i) = Upto(pay, i - 1) + pay[i]
             /\ Upto(own, i) \in Nat /\ Upto(own, i - 1) \in Nat
             /\ Upto(own, i) = Upto(own, i - 1) + own[i]
             /\ Upto(own, i) <= Tally(own)
             /\ i \in 1 .. Len(pay) /\ i \in DOMAIN own
  BY <1>3, EndNat
<1>8. Tally(own) \in Nat
  BY <1>3, TallyNat
<1>9. 0 \in S
  <2>1. Cut(C, 0) = 0
    BY <1>1, FirstCut
  <2>2. v[0] <= Tally(own) /\ v[0] \in Int
    BY <1>2, <1>5, <1>8
  <2>3. ASSUME NEW i \in DOMAIN pay, Upto(pay, i - 1) <= 0 PROVE v[0] <= Laid(i, 0)
    BY <1>5, <1>7, <2>2, <2>3
  <2> QED
    BY <2>1, <2>2, <2>3
<1>10. ASSUME NEW n \in Nat, n \in S PROVE n + 1 \in S
  <2> SUFFICES ASSUME n + 1 <= N PROVE P(n + 1)
    OBVIOUS
  <2> DEFINE y == Cut(C, n + 1)  x == Cut(C, n)  c == Covering(pay, y)
  <2>1. n + 1 \in 1 .. N /\ n \in 0 .. N /\ n + 1 \in 0 .. N /\ (n + 1) - 1 = n /\ P(n)
    BY <1>2, <1>10
  <2>2. /\ y \in C /\ y \in Nat /\ x \in Nat /\ x < y
        /\ \A z \in C : z < y => z <= x
    <3>1. n + 1 \in 1 .. Cardinality(C) - 1
      BY <1>2, <2>1
    <3>2. Cut(C, (n + 1) - 1) = x
      BY <2>1
    <3>3. /\ y \in C /\ y \in Nat /\ Cut(C, (n + 1) - 1) \in Nat /\ Cut(C, (n + 1) - 1) < y
      BY <1>1, <3>1, CutsRise
    <3>4. \A z \in C : z < y => z <= Cut(C, (n + 1) - 1)
      BY <1>1, <3>1, NoneBetweenCuts
    <3> QED
      BY <3>2, <3>3, <3>4
  <2>3. /\ v[n + 1] <= v[n] + (IF Mine(c) THEN y - x ELSE 0)
        /\ v[n + 1] \in Int /\ v[n] \in Int
    <3>1. v[n + 1] <= v[n] + (IF LegTill(w, n + 1).from \in T THEN LegTill(w, n + 1).amount ELSE 0)
      BY <1>5, <2>1
    <3>2. (LegTill(w, n + 1).from \in T <=> Mine(c)) /\ LegTill(w, n + 1).amount = y - x
      BY <1>6, <2>1
    <3> QED
      BY <1>5, <2>1, <3>1, <3>2
  <2> HIDE DEF y, x
  <2>4. c \in DOMAIN pay /\ Upto(pay, c - 1) < y /\ y <= Upto(pay, c)
    BY <1>1, <1>3, <2>2, Covered
  <2> HIDE DEF c
  <2>5. Upto(pay, c - 1) <= x /\ x <= Upto(pay, c)
    BY <1>4, <1>7, <2>2, <2>4
  <2>6. v[n] <= Laid(c, x)
    BY <2>1, <2>4, <2>5 DEF x
  <2> DEFINE low == Upto(pay, c - 1)  high == Upto(pay, c)
             lent == Upto(own, c - 1)  owed == Upto(own, c)
  <2>7. /\ low \in Nat /\ high \in Nat /\ lent \in Nat /\ owed \in Nat
         /\ high = low + pay[c] /\ owed = lent + own[c] /\ pay[c] \in Nat
         /\ owed <= Tally(own) /\ own[c] = (IF Mine(c) THEN pay[c] ELSE 0)
         /\ low < y /\ y <= high
    BY <1>3, <1>7, <2>4
  <2>8. /\ Laid(c, y) = lent + (IF Mine(c) THEN y - low ELSE 0)
         /\ Laid(c, x) = lent + (IF Mine(c) THEN x - low ELSE 0)
    OBVIOUS
  <2> HIDE DEF Laid, low, high, lent, owed
  <2>9. v[n + 1] <= Laid(c, y) /\ Laid(c, y) \in Int
    BY <2>2, <2>3, <2>6, <2>7, <2>8
  <2>10. Laid(c, y) <= owed
    BY <2>2, <2>7, <2>8
  <2>11. v[n + 1] <= Tally(own)
    BY <1>8, <2>3, <2>9, <2>10, <2>7
  <2>12. ASSUME NEW i \in DOMAIN pay, Upto(pay, i - 1) <= y, y <= Upto(pay, i)
         PROVE  v[n + 1] <= Laid(i, y)
    <3>1. CASE i = c
      BY <2>9, <3>1
    <3>0. Upto(pay, i) \in Nat /\ Upto(pay, i - 1) \in Nat /\ Upto(own, i - 1) \in Nat
      BY <1>7
    <3>2. CASE i < c
      <4>1. Upto(pay, i) <= low
        <5>1. i \in 0 .. Len(pay) /\ c - 1 \in 0 .. Len(pay) /\ i <= c - 1
          BY <1>3, <2>4, <3>2
        <5> QED
          BY <1>3, <5>1, UptoMonotone DEF low
      <4> QED
        BY <2>2, <2>12, <2>7, <3>0, <4>1
    <3>3. CASE c < i
      <4>1. high <= Upto(pay, i - 1) /\ owed <= Upto(own, i - 1)
        <5>1. c \in 0 .. Len(pay) /\ i - 1 \in 0 .. Len(pay) /\ c <= i - 1
          BY <1>3, <2>4, <3>3
        <5> QED
          BY <1>3, <5>1, UptoMonotone DEF high, owed
      <4>2. Upto(pay, i - 1) = y
        BY <2>2, <2>12, <2>7, <3>0, <4>1
      <4>3. Laid(i, y) = Upto(own, i - 1)
        BY <2>2, <3>0, <4>2 DEF Laid
      <4> QED
        BY <2>3, <2>9, <2>10, <2>7, <3>0, <4>1, <4>3
    <3> QED
      BY <1>7, <2>4, <3>1, <3>2, <3>3
  <2> QED
    BY <2>11, <2>12 DEF y
<1>11. N \in S
  <2> HIDE DEF S
  <2> QED
    BY <1>2, <1>9, <1>10, Inductive
<1>12. v[N] <= Tally(own)
  BY <1>2, <1>11
<1> QED
  BY <1>12 DEF N, own

(* One transfer takes its amount from one account and gives it to one.     *)
LEMMA TransferMoves ==
  ASSUME NEW A, NEW purse, purse.bal \in [A -> Nat],
         NEW leg, leg.from \in A, leg.to \in A, leg.amount \in Nat, NEW a \in A
  PROVE  LET left == TransferFrom(purse, leg).bal[a]
         IN  /\ purse.bal[a] - left <= (IF leg.from \in {a} THEN leg.amount ELSE 0)
             /\ left - purse.bal[a] <= (IF leg.from \in A \ {a} THEN leg.amount ELSE 0)
             /\ leg.to # a => left <= purse.bal[a]
<1> DEFINE x == leg.amount  from == leg.from  to == leg.to  b == purse.bal
           paid == [b EXCEPT ![from] = @ - x]
           bal == [paid EXCEPT ![to] = @ + x]
           left == TransferFrom(purse, leg).bal
<1>1. left = b \/ (left = bal /\ b[from] >= x)
  <2>1. CASE purse.ok /\ CanMove(purse, leg)
    <3>1. TransferFrom(purse, leg)
            = [ok |-> TRUE, allow |-> [purse.allow EXCEPT ![from] = @ - x], bal |-> bal]
      BY <2>1 DEF TransferFrom
    <3> QED
      BY <2>1, <3>1 DEF CanMove
  <2>2. CASE ~(purse.ok /\ CanMove(purse, leg))
    BY <2>2 DEF TransferFrom
  <2> QED
    BY <2>1, <2>2
<1>2. x \in Nat /\ from \in A /\ to \in A /\ b \in [A -> Nat]
  OBVIOUS
<1> HIDE DEF left, x, from, to, b
<1>3. b[from] >= x => paid \in [A -> Nat]
  BY <1>2
<1>4. \A y \in A : bal[y] = (IF y = from THEN b[y] - x ELSE b[y]) + (IF y = to THEN x ELSE 0)
  BY <1>2
<1> HIDE DEF bal
<1>5. /\ b[a] - left[a] <= (IF from \in {a} THEN x ELSE 0)
      /\ left[a] - b[a] <= (IF from \in A \ {a} THEN x ELSE 0)
      /\ to # a => left[a] <= b[a]
  BY <1>1, <1>2, <1>4
<1> QED
  BY <1>5 DEF left, x, from, to, b

(* A swap costs an account at most what its consumers owe and brings it at *)
(* most what the consumers of the others owe; one that no transfer goes to *)
(* gains nothing.                                                          *)
LEMMA SwapMoves ==
  ASSUME NEW M, NEW A, NEW w, Sound(w, M), w.owner \in [M -> A], Admin \in A,
         NEW purse, purse.bal \in [A -> Nat], purse.allow \in [A -> Nat], NEW a \in A
  PROVE  LET bal == Swap(purse, w, Clearing(w)).bal
             legs == Legs(w, Clearing(w))
         IN  /\ purse.bal[a] - bal[a] <= Tally(DuesOf(w, {a}))
             /\ bal[a] - purse.bal[a] <= Tally(DuesOf(w, A \ {a}))
             /\ (\A n \in 1 .. Len(legs) : legs[n].to # a) => bal[a] <= purse.bal[a]
<1> DEFINE legs == Legs(w, Clearing(w))
           After(n) == Transferred(purse, legs, n)
           Typed(p) == p.bal \in [A -> Nat] /\ p.allow \in [A -> Nat]
           S == {n \in Nat : n <= Len(legs) => Typed(After(n))}
           loss == [n \in 0 .. Len(legs) |-> purse.bal[a] - After(n).bal[a]]
           gain == [n \in 0 .. Len(legs) |-> After(n).bal[a] - purse.bal[a]]
           Own(n, T) == IF legs[n].from \in T THEN legs[n].amount ELSE 0
<1>1. Len(legs) \in Nat
  BY LegsAre
<1>2. \A n \in 1 .. Len(legs) :
        legs[n].from \in A /\ legs[n].to \in A /\ legs[n].amount \in Nat
  BY LegsTyped
<1>3. After(0) = purse /\ \A j \in 1 .. Len(legs) : After(j) = TransferFrom(After(j - 1), legs[j])
  <2> HIDE DEF legs
  <2>1. OneByOne(purse, legs)
    BY <1>1, TransferredFacts
  <2> QED
    BY <2>1, Zenon DEF OneByOne
<1>4. \A T, v : /\ v \in [0 .. Len(legs) -> Int] /\ v[0] <= 0
                /\ \A n \in 1 .. Len(legs) : v[n] <= v[n - 1] + Own(n, T)
                => Flows(v, w, T)
  BY DEF Flows
<1>5. Swap(purse, w, Clearing(w)) = After(Len(legs))
  BY DEF Swap
<1>6. \A T, v : Flows(v, w, T) => v[Len(legs)] <= Tally(DuesOf(w, T))
  BY FlowOut
<1> HIDE DEF After, legs
<1>7. \A n \in 0 .. Len(legs) : Typed(After(n))
  <2>1. 0 \in S
    BY <1>3
  <2>2. ASSUME NEW n \in Nat, n \in S PROVE n + 1 \in S
    <3> SUFFICES ASSUME n + 1 <= Len(legs) PROVE Typed(After(n + 1))
      OBVIOUS
    <3>1. n + 1 \in 1 .. Len(legs) /\ (n + 1) - 1 = n /\ n <= Len(legs)
      BY <1>1
    <3>2. Typed(After(n)) /\ After(n + 1) = TransferFrom(After(n), legs[n + 1])
      BY <1>3, <2>2, <3>1
    <3>3. /\ legs[n + 1].from \in A /\ legs[n + 1].to \in A /\ legs[n + 1].amount \in Nat
      BY <1>2, <3>1
    <3> DEFINE p == After(n)  leg == legs[n + 1]
    <3>4. /\ p.bal \in [A -> Nat] /\ p.allow \in [A -> Nat]
          /\ leg.from \in A /\ leg.to \in A /\ leg.amount \in Nat
          /\ After(n + 1) = TransferFrom(p, leg)
      BY <3>2, <3>3
    <3> HIDE DEF p, leg
    <3>5. Typed(TransferFrom(p, leg))
      BY <3>4, TransferTyped
    <3> QED
      BY <3>4, <3>5
  <2>3. Nat \subseteq S
    <3> HIDE DEF S
    <3> QED
      BY <2>1, <2>2, Inductive
  <2> QED
    BY <1>1, <2>3
<1>8. ASSUME NEW n \in 1 .. Len(legs)
      PROVE  /\ n \in 0 .. Len(legs) /\ n - 1 \in 0 .. Len(legs)
             /\ After(n).bal[a] \in Nat /\ After(n - 1).bal[a] \in Nat
             /\ After(n - 1).bal[a] - After(n).bal[a] <= Own(n, {a})
             /\ After(n).bal[a] - After(n - 1).bal[a] <= Own(n, A \ {a})
             /\ legs[n].to # a => After(n).bal[a] <= After(n - 1).bal[a]
             /\ Own(n, {a}) \in Nat /\ Own(n, A \ {a}) \in Nat
  <2>1. n \in 0 .. Len(legs) /\ n - 1 \in 0 .. Len(legs)
    BY <1>1
  <2>2. Typed(After(n)) /\ Typed(After(n - 1)) /\ After(n) = TransferFrom(After(n - 1), legs[n])
    BY <1>3, <1>7, <2>1
  <2>3. legs[n].from \in A /\ legs[n].to \in A /\ legs[n].amount \in Nat
    BY <1>2
  <2> DEFINE p == After(n - 1)  leg == legs[n]
  <2>4. /\ p.bal \in [A -> Nat] /\ leg.from \in A /\ leg.to \in A /\ leg.amount \in Nat
        /\ After(n) = TransferFrom(p, leg)
    BY <2>2, <2>3
  <2> HIDE DEF p, leg
  <2>5. /\ p.bal[a] - TransferFrom(p, leg).bal[a] <= (IF leg.from \in {a} THEN leg.amount ELSE 0)
        /\ TransferFrom(p, leg).bal[a] - p.bal[a] <= (IF leg.from \in A \ {a} THEN leg.amount ELSE 0)
        /\ leg.to # a => TransferFrom(p, leg).bal[a] <= p.bal[a]
    BY <2>4, TransferMoves
  <2>6. /\ p.bal[a] - After(n).bal[a] <= Own(n, {a})
        /\ After(n).bal[a] - p.bal[a] <= Own(n, A \ {a})
        /\ legs[n].to # a => After(n).bal[a] <= p.bal[a]
    BY <2>4, <2>5 DEF leg
  <2> QED
    BY <2>1, <2>2, <2>3, <2>6 DEF p
<1>9. \A n \in 0 .. Len(legs) : After(n).bal[a] \in Nat
  BY <1>7
<1>10. purse.bal[a] \in Nat /\ After(0).bal[a] = purse.bal[a] /\ 0 \in 0 .. Len(legs)
       /\ Len(legs) \in 0 .. Len(legs)
  BY <1>1, <1>3
<1> HIDE DEF Own
<1>11. Flows(loss, w, {a})
  <2>1. loss \in [0 .. Len(legs) -> Int] /\ loss[0] <= 0
    BY <1>9, <1>10
  <2>2. ASSUME NEW n \in 1 .. Len(legs) PROVE loss[n] <= loss[n - 1] + Own(n, {a})
    <3>1. loss[n] = purse.bal[a] - After(n).bal[a] /\ loss[n - 1] = purse.bal[a] - After(n - 1).bal[a]
      BY <1>8
    <3> HIDE DEF loss
    <3> DEFINE p == After(n - 1).bal[a]  q == After(n).bal[a]  b == purse.bal[a]
    <3>2. /\ p \in Nat /\ q \in Nat /\ b \in Nat /\ Own(n, {a}) \in Nat
          /\ p - q <= Own(n, {a})
      BY <1>8, <1>10
    <3>3. loss[n] = b - q /\ loss[n - 1] = b - p
      BY <3>1
    <3> HIDE DEF p, q, b
    <3> QED
      BY <3>2, <3>3
  <2> HIDE DEF loss
  <2> QED
    BY <1>4, <2>1, <2>2
<1>12. Flows(gain, w, A \ {a})
  <2>1. gain \in [0 .. Len(legs) -> Int] /\ gain[0] <= 0
    BY <1>9, <1>10
  <2>2. ASSUME NEW n \in 1 .. Len(legs) PROVE gain[n] <= gain[n - 1] + Own(n, A \ {a})
    <3>1. gain[n] = After(n).bal[a] - purse.bal[a] /\ gain[n - 1] = After(n - 1).bal[a] - purse.bal[a]
      BY <1>8
    <3> HIDE DEF gain
    <3> DEFINE p == After(n - 1).bal[a]  q == After(n).bal[a]  b == purse.bal[a]
    <3>2. /\ p \in Nat /\ q \in Nat /\ b \in Nat /\ Own(n, A \ {a}) \in Nat
          /\ q - p <= Own(n, A \ {a})
      BY <1>8, <1>10
    <3>3. gain[n] = q - b /\ gain[n - 1] = p - b
      BY <3>1
    <3> HIDE DEF p, q, b
    <3> QED
      BY <3>2, <3>3
  <2> HIDE DEF gain
  <2> QED
    BY <1>4, <2>1, <2>2
<1>13. /\ loss[Len(legs)] <= Tally(DuesOf(w, {a}))
       /\ gain[Len(legs)] <= Tally(DuesOf(w, A \ {a}))
  <2> HIDE DEF loss, gain
  <2> QED
    BY <1>6, <1>11, <1>12
<1>14. /\ loss[Len(legs)] = purse.bal[a] - After(Len(legs)).bal[a]
       /\ gain[Len(legs)] = After(Len(legs)).bal[a] - purse.bal[a]
  BY <1>10
<1>15. ASSUME \A n \in 1 .. Len(legs) : legs[n].to # a
       PROVE  After(Len(legs)).bal[a] <= purse.bal[a]
  <2> DEFINE R == {n \in Nat : n <= Len(legs) => After(n).bal[a] <= purse.bal[a]}
  <2>1. 0 \in R
    BY <1>10
  <2>2. ASSUME NEW n \in Nat, n \in R PROVE n + 1 \in R
    <3> SUFFICES ASSUME n + 1 <= Len(legs) PROVE After(n + 1).bal[a] <= purse.bal[a]
      OBVIOUS
    <3>1. n + 1 \in 1 .. Len(legs) /\ (n + 1) - 1 = n
      BY <1>1
    <3>2. /\ After(n + 1).bal[a] <= After((n + 1) - 1).bal[a]
          /\ After(n + 1).bal[a] \in Nat /\ After((n + 1) - 1).bal[a] \in Nat
      BY <1>8, <1>15, <3>1
    <3>3. After(n).bal[a] <= purse.bal[a]
      BY <1>1, <2>2
    <3> QED
      BY <1>10, <3>1, <3>2, <3>3
  <2>3. Len(legs) \in R
    <3> HIDE DEF R
    <3> QED
      BY <1>1, <2>1, <2>2, Inductive
  <2> QED
    BY <1>1, <2>3
<1> QED
  BY <1>5, <1>13, <1>14, <1>15 DEF legs

(* The energy the consumers of T draw, of those listed.                    *)
DrawnBy(w, T) ==
  [i \in DOMAIN Importers(w) |->
     IF w.owner[Importers(w)[i]] \in T THEN Size(w.net[Importers(w)[i]]) ELSE 0]

(* They owe at most the tariff for it.                                     *)
LEMMA DuesAtTariff ==
  ASSUME NEW M, NEW w, Sound(w, M), NEW T
  PROVE  Tally(DuesOf(w, T)) * WhPerKwh <= w.price * Tally(DrawnBy(w, T))
<1> DEFINE c == Clearing(w)
           I == Importers(w)
           own == DuesOf(w, T)
           wh == DrawnBy(w, T)
           deficit == Tally(c.cons_wh)
<1>1. /\ c.cons_wh \in Seq(Nat) /\ Len(c.cons_wh) = Len(I) /\ I \in Seq(M)
      /\ \A i \in DOMAIN c.cons_wh : c.cons_wh[i] = Size(w.net[I[i]])
      /\ \A i \in DOMAIN c.cons_wh : deficit \in Nat \ {0}
      /\ c.traded_wh \in Nat /\ c.traded_wh <= deficit
      /\ c.pay \in Seq(Nat) /\ Len(c.pay) = Len(I)
      /\ w.price \in Nat
  BY ClearingTypes, SidesFacts DEF Sound
<1>2. \A i \in DOMAIN c.cons_wh :
        /\ c.drawn[i] = Share(c.cons_wh[i], c.traded_wh, deficit)
        /\ c.pay[i] = (c.drawn[i] * w.price) \div WhPerKwh
  BY ClearingFields
<1>3. own \in Seq(Nat) /\ Len(own) = Len(I) /\ DOMAIN own = DOMAIN c.pay
  BY DuesNat
<1>4. \A i \in DOMAIN c.pay : own[i] = IF w.owner[I[i]] \in T THEN c.pay[i] ELSE 0
  BY DEF DuesOf
<1>5. wh = [i \in DOMAIN I |-> IF w.owner[I[i]] \in T THEN Size(w.net[I[i]]) ELSE 0]
  BY DEF DrawnBy
<1> HIDE DEF c, I, own, wh, deficit
<1>6. /\ DOMAIN I = 1 .. Len(I) /\ Len(I) \in Nat /\ DOMAIN c.pay = 1 .. Len(I)
      /\ DOMAIN c.cons_wh = 1 .. Len(I)
  BY <1>1
<1>7. \A i \in 1 .. Len(I) : /\ c.cons_wh[i] \in Nat
                             /\ wh[i] = IF w.owner[I[i]] \in T THEN c.cons_wh[i] ELSE 0
  BY <1>1, <1>5, <1>6, ElementIn
<1>8. wh \in Seq(Nat) /\ Len(wh) = Len(I)
  <2>1. wh \in [1 .. Len(I) -> Nat]
    BY <1>5, <1>6, <1>7
  <2> QED
    BY <1>6, <2>1, IsSequence
<1>9. ASSUME NEW i \in 1 .. Len(I) PROVE c.pay[i] * WhPerKwh <= w.price * c.cons_wh[i]
  <2> DEFINE x == c.cons_wh[i]  t == c.traded_wh  d == c.drawn[i]  p == w.price
  <2>1. /\ x \in Nat /\ t \in Nat /\ deficit \in Nat \ {0} /\ t <= deficit /\ p \in Nat
        /\ d = Share(x, t, deficit) /\ c.pay[i] = (d * p) \div WhPerKwh
    BY <1>1, <1>2, <1>6, <1>7
  <2> HIDE DEF x, t, d, p
  <2>2. d \in Nat /\ d * deficit <= t * x
    BY <2>1, ShareNat
  <2>3. t * x <= deficit * x /\ deficit * x = x * deficit
    BY <2>1, ProductMonotone
  <2>4. d * deficit \in Nat /\ t * x \in Nat /\ x * deficit \in Nat
    BY <2>1, <2>2, ProductNat
  <2>5. d * deficit <= x * deficit
    BY <2>2, <2>3, <2>4
  <2>6. d <= x
    BY <2>1, <2>2, <2>5, Cancels
  <2>7. d * p <= x * p /\ d * p \in Nat /\ x * p \in Nat /\ x * p = p * x
    BY <2>1, <2>2, <2>6, ProductMonotone, ProductNat
  <2>8. c.pay[i] * WhPerKwh <= d * p /\ c.pay[i] \in Nat
    <3>1. WhPerKwh \in Nat \ {0}
      BY DEF WhPerKwh
    <3> QED
      BY <2>1, <2>7, <3>1, Floor
  <2>9. c.pay[i] * WhPerKwh \in Nat
    <3>1. WhPerKwh \in Nat
      BY DEF WhPerKwh
    <3> QED
      BY <2>8, <3>1, ProductNat
  <2>10. c.pay[i] * WhPerKwh <= p * x
    BY <2>7, <2>8, <2>9
  <2> QED
    BY <2>10 DEF p, x
<1>10. \A i \in DOMAIN wh : own[i] * WhPerKwh <= w.price * wh[i]
  <2> SUFFICES ASSUME NEW i \in 1 .. Len(I) PROVE own[i] * WhPerKwh <= w.price * wh[i]
    BY <1>8
  <2>1. CASE w.owner[I[i]] \in T
    <3>1. own[i] = c.pay[i] /\ wh[i] = c.cons_wh[i]
      BY <1>4, <1>6, <1>7, <2>1
    <3> QED
      BY <1>9, <3>1
  <2>2. CASE w.owner[I[i]] \notin T
    <3>1. own[i] = 0 /\ wh[i] = 0
      BY <1>4, <1>6, <1>7, <2>2
    <3>2. 0 * WhPerKwh = 0 /\ w.price * 0 = 0
      BY <1>1 DEF WhPerKwh
    <3> QED
      BY <3>1, <3>2
  <2> QED
    BY <2>1, <2>2
<1>11. \A i \in 0 .. Len(wh) : Upto(own, i) * WhPerKwh <= w.price * Upto(wh, i)
  <2> DEFINE b == WhPerKwh  p == w.price
  <2>1. /\ b \in Nat /\ p \in Nat /\ Len(own) = Len(wh)
        /\ \A i \in DOMAIN wh : own[i] * b <= p * wh[i]
    BY <1>1, <1>3, <1>8, <1>10 DEF WhPerKwh
  <2> HIDE DEF b, p
  <2>2. \A i \in 0 .. Len(wh) : Upto(own, i) * b <= p * Upto(wh, i)
    BY <1>3, <1>8, <2>1, Proportional
  <2> QED
    BY <2>2 DEF b, p
<1>12. Tally(own) * WhPerKwh <= w.price * Tally(wh)
  <2>1. Len(wh) \in 0 .. Len(wh) /\ Len(own) = Len(wh)
    BY <1>3, <1>6, <1>8
  <2> QED
    BY <1>11, <2>1 DEF Tally
<1> QED
  BY <1>12 DEF own, wh

=============================================================================
