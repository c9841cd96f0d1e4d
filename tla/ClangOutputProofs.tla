-------------------------- MODULE ClangOutputProofs --------------------------
(***************************************************************************)
(* Theorems about ClangOutput for any number of compilers, files and       *)
(* records, and any deaths of compilers.                                   *)
(***************************************************************************)
EXTENDS ClangOutput, FiniteSetTheorems, SequenceTheorems, WellFoundedInduction, TLAPS

-----------------------------------------------------------------------------
(* Induction over the numbers, with a set in the place of a predicate.     *)

NatLess == {ss \in Nat \X Nat : ss[1] < ss[2]}

LEMMA NatLessWF == IsWellFoundedOn(NatLess, Nat)
BY NatLessThanWellFounded DEF OpToRel, NatLess

(* A set of numbers that is not empty has a least element.                 *)
LEMMA LeastElement ==
    ASSUME NEW T \in SUBSET Nat, T # {}
    PROVE  \E x \in T : \A y \in T : x <= y
<1>1. PICK x \in T : \A y \in T : ~ (<<y, x>> \in NatLess)
  BY NatLessWF, WFMin
<1>2. \A y \in T : ~ (y < x)
  BY <1>1 DEF NatLess
<1> QED BY <1>2

LEMMA Induction ==
    ASSUME NEW T \in SUBSET Nat, 0 \in T, \A k \in T : k + 1 \in T
    PROVE  T = Nat
<1> SUFFICES ASSUME Nat \ T # {} PROVE FALSE
  OBVIOUS
<1>1. PICK x \in Nat \ T : \A y \in Nat \ T : x <= y
  BY LeastElement
<1>2. x # 0 /\ x - 1 \in Nat /\ x - 1 \notin Nat \ T
  BY <1>1
<1> QED BY <1>1, <1>2

-----------------------------------------------------------------------------
(* Sequences of lines.                                                     *)

Increasing(s) == \A i, j \in DOMAIN s : i < j => s[i] < s[j]

LEMMA ElementsOf ==
    ASSUME NEW s \in Seq(Nat)
    PROVE  /\ ToSet(s) \subseteq Nat
           /\ ToSet(s) = {s[i] : i \in 1 .. Len(s)}
           /\ Len(s) \in Nat /\ DOMAIN s = 1 .. Len(s)
BY LenProperties DEF ToSet

LEMMA Concatenation ==
    ASSUME NEW s \in Seq(Nat), NEW t \in Seq(Nat)
    PROVE  /\ s \o t \in Seq(Nat)
           /\ ToSet(s \o t) = ToSet(s) \cup ToSet(t)
           /\ (/\ Increasing(s) /\ Increasing(t)
               /\ \A x \in ToSet(s), y \in ToSet(t) : x < y) => Increasing(s \o t)
<1> DEFINE n == Len(s)
           m == Len(t)
           u == s \o t
<1>1. /\ n \in Nat /\ m \in Nat /\ u \in Seq(Nat) /\ Len(u) = n + m
      /\ \A i \in 1 .. n + m : u[i] = IF i <= n THEN s[i] ELSE t[i - n]
      /\ DOMAIN u = 1 .. n + m /\ DOMAIN s = 1 .. n /\ DOMAIN t = 1 .. m
      /\ s \in [1 .. n -> Nat] /\ t \in [1 .. m -> Nat]
  BY ConcatProperties, LenProperties
<1> HIDE DEF n, m, u
<1>2. ToSet(u) \subseteq ToSet(s) \cup ToSet(t)
  <2> SUFFICES ASSUME NEW i \in 1 .. n + m PROVE u[i] \in ToSet(s) \cup ToSet(t)
    BY <1>1 DEF ToSet
  <2>1. CASE i <= n
    <3>1. i \in 1 .. n /\ u[i] = s[i]
      BY <1>1, <2>1
    <3> QED BY <1>1, <3>1 DEF ToSet
  <2>2. CASE ~ (i <= n)
    <3>1. i - n \in 1 .. m /\ u[i] = t[i - n]
      BY <1>1, <2>2
    <3> QED BY <1>1, <3>1 DEF ToSet
  <2> QED BY <2>1, <2>2
<1>3. ToSet(s) \subseteq ToSet(u)
  <2> SUFFICES ASSUME NEW i \in 1 .. n PROVE s[i] \in ToSet(u)
    BY <1>1 DEF ToSet
  <2>1. i \in 1 .. n + m /\ u[i] = s[i]
    BY <1>1
  <2> QED BY <1>1, <2>1 DEF ToSet
<1>4. ToSet(t) \subseteq ToSet(u)
  <2> SUFFICES ASSUME NEW i \in 1 .. m PROVE t[i] \in ToSet(u)
    BY <1>1 DEF ToSet
  <2>1. n + i \in 1 .. n + m /\ ~ (n + i <= n) /\ (n + i) - n = i
    BY <1>1
  <2>2. u[n + i] = t[i]
    BY <1>1, <2>1
  <2> QED BY <1>1, <2>1, <2>2 DEF ToSet
<1>5. ASSUME Increasing(s), Increasing(t), \A x \in ToSet(s), y \in ToSet(t) : x < y
      PROVE  Increasing(u)
  <2> SUFFICES ASSUME NEW i \in 1 .. n + m, NEW j \in 1 .. n + m, i < j
               PROVE  u[i] < u[j]
    BY <1>1 DEF Increasing
  <2>1. CASE j <= n
    <3>1. i \in 1 .. n /\ j \in 1 .. n /\ u[i] = s[i] /\ u[j] = s[j]
      BY <1>1, <2>1
    <3> QED BY <1>1, <1>5, <3>1 DEF Increasing
  <2>2. CASE i <= n /\ ~ (j <= n)
    <3>1. i \in 1 .. n /\ j - n \in 1 .. m /\ u[i] = s[i] /\ u[j] = t[j - n]
      BY <1>1, <2>2
    <3>2. s[i] \in ToSet(s) /\ t[j - n] \in ToSet(t)
      BY <1>1, <3>1 DEF ToSet
    <3> QED BY <1>5, <3>1, <3>2
  <2>3. CASE ~ (i <= n)
    <3>1. i - n \in 1 .. m /\ j - n \in 1 .. m /\ u[i] = t[i - n] /\ u[j] = t[j - n] /\ i - n < j - n
      BY <1>1, <2>3
    <3> QED BY <1>1, <1>5, <3>1 DEF Increasing
  <2> QED BY <1>1, <2>1, <2>2, <2>3
<1> QED BY <1>1, <1>2, <1>3, <1>4, <1>5 DEF u

(* Sorting a finite set of lines: there is an increasing sequence of them, *)
(* the least one followed by the others in order.                          *)
LEMMA OrderExists ==
    \A k \in Nat : \A S \in SUBSET Nat : IsFiniteSet(S) /\ Cardinality(S) = k =>
        \E s \in [1 .. k -> S] : Increasing(s)
<1> DEFINE T == {k \in Nat : \A S \in SUBSET Nat : IsFiniteSet(S) /\ Cardinality(S) = k =>
                    \E s \in [1 .. k -> S] : Increasing(s)}
<1>1. 0 \in T
  <2> SUFFICES ASSUME NEW S \in SUBSET Nat PROVE \E s \in [1 .. 0 -> S] : Increasing(s)
    OBVIOUS
  <2> DEFINE s == [i \in {} |-> 0]
  <2>1. 1 .. 0 = {}
    OBVIOUS
  <2>2. s \in [{} -> S] /\ DOMAIN s = {}
    OBVIOUS
  <2>3. Increasing(s)
    BY <2>2 DEF Increasing
  <2> HIDE DEF s
  <2> QED BY <2>1, <2>2, <2>3
<1>2. ASSUME NEW k \in T PROVE k + 1 \in T
  <2>1. k \in Nat /\ \A S \in SUBSET Nat : IsFiniteSet(S) /\ Cardinality(S) = k =>
                        \E s \in [1 .. k -> S] : Increasing(s)
    BY <1>2
  <2> SUFFICES ASSUME NEW S \in SUBSET Nat, IsFiniteSet(S), Cardinality(S) = k + 1
               PROVE  \E s \in [1 .. k + 1 -> S] : Increasing(s)
    BY <2>1
  <2>2. S # {}
    BY <2>1, FS_EmptySet
  <2>3. PICK m \in S : \A y \in S : m <= y
    BY <2>2, LeastElement
  <2> DEFINE R == S \ {m}
  <2>4. IsFiniteSet(R) /\ Cardinality(R) = k /\ R \in SUBSET Nat
    BY <2>1, FS_RemoveElement
  <2>5. PICK r \in [1 .. k -> R] : Increasing(r)
    BY <2>1, <2>4
  <2>6. \A y \in R : y \in Nat /\ m \in Nat /\ m < y /\ y \in S
    BY <2>3
  <2> HIDE DEF R
  <2> DEFINE s == [i \in 1 .. k + 1 |-> IF i = 1 THEN m ELSE r[i - 1]]
  <2>7. ASSUME NEW i \in 1 .. k + 1, i # 1
        PROVE  i - 1 \in 1 .. k /\ s[i] = r[i - 1] /\ r[i - 1] \in R
    <3>1. i - 1 \in 1 .. k
      BY <2>1, <2>7
    <3> QED BY <2>5, <2>7, <3>1
  <2>8. 1 \in 1 .. k + 1 /\ s[1] = m
    BY <2>1
  <2>9. s \in [1 .. k + 1 -> S]
    <3>1. \A i \in 1 .. k + 1 : s[i] \in S
      BY <2>3, <2>6, <2>7, <2>8
    <3> QED BY <3>1
  <2>10. DOMAIN s = 1 .. k + 1
    OBVIOUS
  <2> HIDE DEF s
  <2>11. ASSUME NEW i \in 1 .. k + 1, NEW j \in 1 .. k + 1, i < j PROVE s[i] < s[j]
    <3>1. j # 1 /\ j - 1 \in 1 .. k /\ s[j] = r[j - 1] /\ s[j] \in R
      <4>1. j # 1
        BY <2>1, <2>11
      <4> QED BY <2>7, <4>1
    <3>2. CASE i = 1
      BY <2>6, <2>8, <3>1, <3>2
    <3>3. CASE i # 1
      <4>1. i - 1 \in 1 .. k /\ s[i] = r[i - 1] /\ i - 1 < j - 1
        BY <2>1, <2>7, <2>11, <3>1, <3>3
      <4> QED BY <2>5, <3>1, <4>1 DEF Increasing
    <3> QED BY <3>2, <3>3
  <2> QED BY <2>9, <2>10, <2>11 DEF Increasing
<1>3. T = Nat
  <2> HIDE DEF T
  <2>1. T \subseteq Nat
    BY DEF T
  <2> QED BY <1>1, <1>2, <2>1, Induction
<1> QED BY <1>3

LEMMA InOrderSorts ==
    ASSUME NEW S \in SUBSET Nat, IsFiniteSet(S)
    PROVE  InOrder(S) \in Seq(Nat) /\ ToSet(InOrder(S)) = S /\ Increasing(InOrder(S))
<1> DEFINE n == Cardinality(S)
           s == InOrder(S)
<1>1. n \in Nat
  BY FS_CardinalityType
<1>2. \E t \in [1 .. n -> S] : Increasing(t)
  BY <1>1, OrderExists
<1>3. s \in [1 .. n -> S] /\ Increasing(s)
  BY <1>2 DEF InOrder, Increasing
<1> HIDE DEF s, n
<1>4. s \in Injection(1 .. n, S)
  <2> SUFFICES ASSUME NEW i \in 1 .. n, NEW j \in 1 .. n, s[i] = s[j] PROVE i = j
    BY <1>3 DEF Injection, IsInjective
  <2>1. i \in Nat /\ j \in Nat /\ DOMAIN s = 1 .. n
    BY <1>1, <1>3
  <2>2. s[i] \in Nat /\ s[j] \in Nat
    BY <1>3
  <2>3. ~ (i < j) /\ ~ (j < i)
    BY <1>3, <2>1, <2>2 DEF Increasing
  <2> QED BY <2>1, <2>3
<1>5. IsFiniteSet(1 .. n) /\ Cardinality(1 .. n) = Cardinality(S)
  BY <1>1, FS_Interval DEF n
<1>6. s \in Surjection(1 .. n, S)
  BY <1>4, <1>5, FS_Injection
<1>7. ToSet(s) = S
  BY <1>3, <1>6 DEF Surjection, ToSet
<1>8. s \in Seq(Nat)
  <2>1. s = [i \in 1 .. n |-> s[i]] /\ \A i \in 1 .. n : s[i] \in Nat
    BY <1>3
  <2>2. [i \in 1 .. n |-> s[i]] \in Seq(Nat)
    BY <1>1, <2>1
  <2> QED BY <2>1, <2>2
<1> QED BY <1>3, <1>7, <1>8 DEF s

-----------------------------------------------------------------------------
(* FlattenSeq joins the pieces from left to right.                         *)

LEMMA InductionUpTo ==
    ASSUME NEW n \in Nat, NEW T \in SUBSET (1 .. n), n > 0 => 1 \in T,
           \A k \in T : k < n => k + 1 \in T
    PROVE  T = 1 .. n
<1> SUFFICES ASSUME (1 .. n) \ T # {} PROVE FALSE
  OBVIOUS
<1>1. (1 .. n) \ T \in SUBSET Nat
  OBVIOUS
<1>2. PICK x \in (1 .. n) \ T : \A y \in (1 .. n) \ T : x <= y
  BY <1>1, LeastElement
<1>3. x # 1 /\ x \in 1 .. n
  BY <1>2
<1>4. x - 1 \in 1 .. n /\ x - 1 \notin (1 .. n) \ T /\ (x - 1) + 1 = x /\ x - 1 < n
  BY <1>2, <1>3
<1> QED BY <1>2, <1>4

LEMMA JoinExists ==
    ASSUME NEW n \in Nat, NEW P \in [1 .. n -> Seq(Nat)]
    PROVE  \A k \in 1 .. n : \E g \in [1 .. k -> Seq(Nat)] :
               g[1] = P[1] /\ \A i \in 2 .. k : g[i] = g[i - 1] \o P[i]
<1> DEFINE Good(k) == \E g \in [1 .. k -> Seq(Nat)] :
                          g[1] = P[1] /\ \A i \in 2 .. k : g[i] = g[i - 1] \o P[i]
           T == {k \in 1 .. n : Good(k)}
<1>1. ASSUME n > 0 PROVE Good(1) /\ 1 \in 1 .. n
  <2> DEFINE g == [i \in 1 .. 1 |-> P[1]]
  <2>1. P[1] \in Seq(Nat) /\ 1 \in 1 .. 1 /\ 1 \in 1 .. n
    BY <1>1
  <2>2. g \in [1 .. 1 -> Seq(Nat)] /\ g[1] = P[1]
    BY <2>1
  <2> HIDE DEF g
  <2>3. Good(1)
    BY <2>2
  <2> QED BY <2>1, <2>3
<1>2. ASSUME NEW k \in 1 .. n, Good(k), k < n PROVE Good(k + 1)
  <2>1. PICK g \in [1 .. k -> Seq(Nat)] :
            g[1] = P[1] /\ \A i \in 2 .. k : g[i] = g[i - 1] \o P[i]
    BY <1>2
  <2>2. k \in Nat /\ k \in 1 .. k /\ 1 \in 1 .. k /\ k + 1 \in 1 .. n
    BY <1>2
  <2> DEFINE e == g[k] \o P[k + 1]
             h == [i \in 1 .. k + 1 |-> IF i \in 1 .. k THEN g[i] ELSE e]
  <2>3. g[k] \in Seq(Nat) /\ P[k + 1] \in Seq(Nat)
    BY <2>2
  <2>4. e \in Seq(Nat)
    BY <2>3, Concatenation
  <2> HIDE DEF e
  <2>5. h \in [1 .. k + 1 -> Seq(Nat)]
    BY <2>4
  <2>6. ASSUME NEW i \in 1 .. k PROVE h[i] = g[i]
    BY <2>2, <2>6
  <2>7. h[k + 1] = e
    BY <2>2
  <2> HIDE DEF h
  <2>8. ASSUME NEW i \in 2 .. k + 1 PROVE h[i] = h[i - 1] \o P[i]
    <3>1. CASE i \in 2 .. k
      <4>1. i \in 1 .. k /\ i - 1 \in 1 .. k
        BY <2>2, <3>1
      <4> QED BY <2>1, <2>6, <3>1, <4>1
    <3>2. CASE i \notin 2 .. k
      <4>1. i = k + 1 /\ i - 1 = k
        BY <2>2, <2>8, <3>2
      <4> QED BY <2>2, <2>6, <2>7, <4>1 DEF e
    <3> QED BY <3>1, <3>2
  <2>9. h[1] = P[1]
    BY <2>1, <2>2, <2>6
  <2> QED BY <2>5, <2>8, <2>9
<1>3. T = 1 .. n
  <2>1. n > 0 => 1 \in T
    BY <1>1
  <2>2. ASSUME NEW k \in T, k < n PROVE k + 1 \in T
    <3>1. k \in 1 .. n /\ Good(k)
      BY <2>2
    <3>2. k + 1 \in 1 .. n
      BY <2>2, <3>1
    <3> QED BY <1>2, <2>2, <3>1, <3>2
  <2>3. T \subseteq 1 .. n
    OBVIOUS
  <2> HIDE DEF T
  <2> QED BY <2>1, <2>2, <2>3, InductionUpTo
<1> QED BY <1>3

LEMMA FlattenJoins ==
    ASSUME NEW n \in Nat, n > 0, NEW P \in [1 .. n -> Seq(Nat)]
    PROVE  \E g \in [1 .. n -> Seq(Nat)] :
               /\ g[1] = P[1] /\ \A i \in 2 .. n : g[i] = g[i - 1] \o P[i]
               /\ FlattenSeq(P) = g[n]
<1>1. Len(P) = n /\ Len(P) # 0
  BY LenProperties
<1>2. n \in 1 .. n
  OBVIOUS
<1>3. PICK g \in [1 .. n -> Seq(Nat)] : g[1] = P[1] /\ \A i \in 2 .. n : g[i] = g[i - 1] \o P[i]
  BY <1>2, JoinExists
<1> DEFINE F(x) == [i \in 1 .. n |-> IF i = 1 THEN P[i] ELSE x[i - 1] \o P[i]]
           h == CHOOSE x : x = F(x)
<1>4. g = F(g)
  <2>1. ASSUME NEW i \in 1 .. n PROVE g[i] = IF i = 1 THEN P[i] ELSE g[i - 1] \o P[i]
    <3>1. CASE i = 1
      BY <1>3, <3>1
    <3>2. CASE i # 1
      <4>1. i \in 2 .. n
        BY <3>2
      <4> QED BY <1>3, <3>2, <4>1
    <3> QED BY <3>1, <3>2
  <2> QED BY <2>1
<1>5. h = F(h)
  <2> HIDE DEF F
  <2> QED BY <1>4
<1>6. FlattenSeq(P) = h[n]
  BY <1>1 DEF FlattenSeq
<1> HIDE DEF h
<1>7. \A i \in 1 .. n : h[i] = IF i = 1 THEN P[i] ELSE h[i - 1] \o P[i]
  BY <1>5
<1> HIDE DEF F
<1> DEFINE T == {k \in 1 .. n : h[k] = g[k]}
<1>8. 1 \in T
  BY <1>3, <1>7
<1>9. ASSUME NEW k \in T, k < n PROVE k + 1 \in T
  <2>1. k \in 1 .. n /\ h[k] = g[k]
    BY <1>9
  <2>2. k + 1 \in 1 .. n /\ k + 1 \in 2 .. n /\ k + 1 # 1 /\ (k + 1) - 1 = k
    BY <1>9, <2>1
  <2>3. g[k + 1] = g[k] \o P[k + 1]
    BY <1>3, <2>2
  <2>4. h[k + 1] = IF k + 1 = 1 THEN P[k + 1] ELSE h[(k + 1) - 1] \o P[k + 1]
    BY <1>7, <2>2
  <2> QED BY <2>1, <2>2, <2>3, <2>4
<1>10. T = 1 .. n
  <2>1. T \subseteq 1 .. n
    OBVIOUS
  <2> HIDE DEF T
  <2> QED BY <1>8, <1>9, <2>1, InductionUpTo
<1>11. h[n] = g[n]
  BY <1>2, <1>10
<1> QED BY <1>3, <1>6, <1>11

(* What the pieces hold; increasing pieces in increasing order make an     *)
(* increasing whole.                                                       *)
LEMMA FlattenKeeps ==
    ASSUME NEW n \in Nat, n > 0, NEW P \in [1 .. n -> Seq(Nat)]
    PROVE  /\ FlattenSeq(P) \in Seq(Nat)
           /\ ToSet(FlattenSeq(P)) = UNION {ToSet(P[i]) : i \in 1 .. n}
           /\ (/\ \A i \in 1 .. n : Increasing(P[i])
               /\ \A i, j \in 1 .. n : i < j => \A x \in ToSet(P[i]), y \in ToSet(P[j]) : x < y)
              => Increasing(FlattenSeq(P))
<1> DEFINE Upto(k) == UNION {ToSet(P[i]) : i \in 1 .. k}
           Ordered == /\ \A i \in 1 .. n : Increasing(P[i])
                      /\ \A i, j \in 1 .. n : i < j => \A x \in ToSet(P[i]), y \in ToSet(P[j]) : x < y
<1>1. PICK g \in [1 .. n -> Seq(Nat)] :
          /\ g[1] = P[1] /\ \A i \in 2 .. n : g[i] = g[i - 1] \o P[i]
          /\ FlattenSeq(P) = g[n]
  BY FlattenJoins
<1> DEFINE T == {k \in 1 .. n : ToSet(g[k]) = Upto(k) /\ (Ordered => Increasing(g[k]))}
<1>2. 1 \in 1 .. n /\ n \in 1 .. n
  OBVIOUS
<1>3. 1 \in T
  <2>1. Upto(1) = ToSet(P[1])
    OBVIOUS
  <2>2. Ordered => Increasing(P[1])
    BY <1>2
  <2> HIDE DEF Ordered, Upto
  <2> QED BY <1>1, <1>2, <2>1, <2>2
<1>4. ASSUME NEW k \in T, k < n PROVE k + 1 \in T
  <2>1. k \in 1 .. n /\ ToSet(g[k]) = Upto(k) /\ (Ordered => Increasing(g[k]))
    BY <1>4
  <2>2. /\ k + 1 \in 1 .. n /\ k + 1 \in 2 .. n /\ (k + 1) - 1 = k
        /\ \A i \in 1 .. k : i \in 1 .. n /\ i < k + 1
    BY <1>4, <2>1
  <2>3. 1 .. k + 1 = (1 .. k) \cup {k + 1}
    BY <2>1
  <2> HIDE DEF Ordered
  <2>4. g[k + 1] = g[k] \o P[k + 1] /\ g[k] \in Seq(Nat) /\ P[k + 1] \in Seq(Nat)
    BY <1>1, <2>1, <2>2
  <2>5. ToSet(g[k + 1]) = ToSet(g[k]) \cup ToSet(P[k + 1])
    BY <2>4, Concatenation
  <2>6. Upto(k + 1) = Upto(k) \cup ToSet(P[k + 1])
    BY <2>3
  <2>7. ASSUME Ordered PROVE Increasing(g[k + 1])
    <3>1. Increasing(P[k + 1])
      BY <2>2, <2>7 DEF Ordered
    <3>2. ASSUME NEW x \in ToSet(g[k]), NEW y \in ToSet(P[k + 1]) PROVE x < y
      <4>1. PICK i \in 1 .. k : x \in ToSet(P[i])
        BY <2>1, <3>2
      <4> QED BY <2>2, <2>7, <3>2, <4>1 DEF Ordered
    <3>3. Increasing(g[k])
      BY <2>1, <2>7
    <3> QED BY <2>4, <3>1, <3>2, <3>3, Concatenation
  <2> HIDE DEF Upto
  <2> QED BY <2>1, <2>2, <2>5, <2>6, <2>7
<1>5. T = 1 .. n
  <2>1. T \subseteq 1 .. n
    OBVIOUS
  <2> HIDE DEF T
  <2> QED BY <1>3, <1>4, <2>1, InductionUpTo
<1>6. n \in T
  BY <1>2, <1>5
<1> HIDE DEF Ordered, Upto
<1>7. ToSet(g[n]) = Upto(n) /\ (Ordered => Increasing(g[n])) /\ g[n] \in Seq(Nat)
  BY <1>2, <1>6
<1> QED BY <1>1, <1>7 DEF Ordered, Upto

-----------------------------------------------------------------------------
(* The merge: it loses no line and makes none up, whatever the old lines,  *)
(* and keeps the file increasing if it was.                                *)
LEMMA FewLines ==
    ASSUME NEW s \in Seq(Nat)
    PROVE  IsFiniteSet(ToSet(s))
<1> DEFINE n == Len(s)
<1>1. n \in Nat /\ s \in [1 .. n -> Nat]
  BY LenProperties
<1> HIDE DEF n
<1>2. s \in Surjection(1 .. n, ToSet(s))
  BY <1>1 DEF Surjection, ToSet
<1>3. IsFiniteSet(1 .. n)
  BY <1>1, FS_Interval
<1> QED BY <1>2, <1>3, FS_Surjection

LEMMA MergeMerges ==
    ASSUME NEW old \in Seq(Nat), NEW output \in Seq(Nat)
    PROVE  /\ Merge(old, output) \in Seq(Nat)
           /\ ToSet(Merge(old, output)) = ToSet(old) \cup ToSet(output)
           /\ Increasing(old) => Increasing(Merge(old, output))
<1> DEFINE n == Len(old)
           New(i) == NewBefore(old, output, i)
           Rest(i) == IF i \in DOMAIN old THEN <<old[i]>> ELSE <<>>
           P == [i \in 1 .. n + 1 |-> InOrder(New(i)) \o Rest(i)]
<1>1. n \in Nat /\ DOMAIN old = 1 .. n /\ \A i \in 1 .. n : old[i] \in Nat
  BY LenProperties
<1>2. ToSet(output) \subseteq Nat
  BY ElementsOf
<1>3. ASSUME NEW i \in 1 .. n + 1
      PROVE  /\ InOrder(New(i)) \in Seq(Nat) /\ ToSet(InOrder(New(i))) = New(i)
             /\ Increasing(InOrder(New(i)))
  <2>1. New(i) \in SUBSET ToSet(output)
    BY DEF NewBefore
  <2>2. IsFiniteSet(New(i))
    BY <2>1, FewLines, FS_Subset
  <2> HIDE DEF New
  <2> QED BY <1>2, <2>1, <2>2, InOrderSorts
<1>4. ASSUME NEW i \in 1 .. n + 1
      PROVE  /\ Rest(i) \in Seq(Nat) /\ Increasing(Rest(i))
             /\ ToSet(Rest(i)) = IF i \in 1 .. n THEN {old[i]} ELSE {}
  <2>1. CASE i \in 1 .. n
    <3>1. Rest(i) = <<old[i]>> /\ old[i] \in Nat
      BY <1>1, <2>1
    <3>2. <<old[i]>> \in Seq(Nat) /\ DOMAIN <<old[i]>> = 1 .. 1 /\ <<old[i]>>[1] = old[i]
      BY <3>1
    <3>3. ToSet(<<old[i]>>) = {old[i]}
      BY <3>2 DEF ToSet
    <3>4. Increasing(<<old[i]>>)
      BY <3>2 DEF Increasing
    <3> QED BY <2>1, <3>1, <3>2, <3>3, <3>4
  <2>2. CASE i \notin 1 .. n
    <3>1. Rest(i) = <<>>
      BY <1>1, <2>2
    <3>2. <<>> \in Seq(Nat) /\ DOMAIN <<>> = {}
      BY EmptySeq
    <3>3. ToSet(<<>>) = {}
      BY <3>2 DEF ToSet
    <3>4. Increasing(<<>>)
      BY <3>2 DEF Increasing
    <3> QED BY <2>2, <3>1, <3>2, <3>3, <3>4
  <2> QED BY <2>1, <2>2
<1>5. Merge(old, output) = FlattenSeq(P)
  BY DEF Merge
<1>6. ASSUME NEW i \in 1 .. n + 1, NEW l \in New(i)
      PROVE  /\ l \in ToSet(output) /\ l \in Nat
             /\ i \in 1 .. n => l < old[i]
             /\ \A j \in 1 .. i - 1 : l > old[j]
  BY <1>1, <1>2 DEF NewBefore
<1> HIDE DEF Rest
<1>7. ASSUME NEW i \in 1 .. n + 1
      PROVE  /\ P[i] \in Seq(Nat) /\ Increasing(P[i])
             /\ ToSet(P[i]) = New(i) \cup (IF i \in 1 .. n THEN {old[i]} ELSE {})
  <2>1. P[i] = InOrder(New(i)) \o Rest(i)
    OBVIOUS
  <2>2. ASSUME NEW x \in ToSet(InOrder(New(i))), NEW y \in ToSet(Rest(i)) PROVE x < y
    <3>1. i \in 1 .. n /\ y = old[i]
      BY <1>4, <2>2
    <3>2. x \in New(i)
      BY <1>3, <2>2
    <3> QED BY <1>6, <3>1, <3>2
  <2> HIDE DEF New, P
  <2> QED BY <1>3, <1>4, <2>1, <2>2, Concatenation
<1>8. P \in [1 .. n + 1 -> Seq(Nat)]
  BY <1>7
<1> HIDE DEF P
<1>9. n + 1 \in Nat /\ n + 1 > 0
  BY <1>1
<1>10. /\ FlattenSeq(P) \in Seq(Nat)
       /\ ToSet(FlattenSeq(P)) = UNION {ToSet(P[i]) : i \in 1 .. n + 1}
       /\ (/\ \A i \in 1 .. n + 1 : Increasing(P[i])
           /\ \A i, j \in 1 .. n + 1 : i < j => \A x \in ToSet(P[i]), y \in ToSet(P[j]) : x < y)
          => Increasing(FlattenSeq(P))
  <2> DEFINE m == n + 1
  <2>1. m \in Nat /\ m > 0 /\ P \in [1 .. m -> Seq(Nat)]
    BY <1>8, <1>9
  <2> HIDE DEF m
  <2>2. /\ FlattenSeq(P) \in Seq(Nat)
        /\ ToSet(FlattenSeq(P)) = UNION {ToSet(P[i]) : i \in 1 .. m}
        /\ (/\ \A i \in 1 .. m : Increasing(P[i])
            /\ \A i, j \in 1 .. m : i < j => \A x \in ToSet(P[i]), y \in ToSet(P[j]) : x < y)
           => Increasing(FlattenSeq(P))
    BY <2>1, FlattenKeeps
  <2> QED BY <2>2 DEF m
<1> HIDE DEF n, New
<1>11. ToSet(FlattenSeq(P)) \subseteq ToSet(old) \cup ToSet(output)
  <2> SUFFICES ASSUME NEW i \in 1 .. n + 1, NEW l \in ToSet(P[i])
               PROVE  l \in ToSet(old) \cup ToSet(output)
    BY <1>10
  <2>1. CASE l \in New(i)
    BY <1>6, <2>1
  <2>2. CASE l \notin New(i)
    <3>1. i \in 1 .. n /\ l = old[i]
      BY <1>7, <2>2
    <3> QED BY <1>1, <3>1 DEF ToSet
  <2> QED BY <2>1, <2>2
<1>12. ToSet(old) \subseteq ToSet(FlattenSeq(P))
  <2> SUFFICES ASSUME NEW i \in 1 .. n PROVE old[i] \in ToSet(FlattenSeq(P))
    BY <1>1 DEF ToSet
  <2>1. i \in 1 .. n + 1
    BY <1>1
  <2>2. old[i] \in ToSet(P[i])
    BY <1>7, <2>1
  <2> QED BY <1>10, <2>1, <2>2
<1>13. ASSUME NEW l \in ToSet(output) \ ToSet(old) PROVE l \in ToSet(FlattenSeq(P))
  <2> DEFINE T == {i \in 1 .. n + 1 : i = n + 1 \/ l < old[i]}
  <2>1. n + 1 \in T /\ T \in SUBSET Nat
    BY <1>1
  <2>2. PICK i \in T : \A j \in T : i <= j
    <3> HIDE DEF T
    <3> QED BY <2>1, LeastElement
  <2>3. i \in 1 .. n + 1 /\ l \in Nat
    BY <1>2
  <2>4. ASSUME NEW j \in 1 .. i - 1 PROVE l > old[j]
    <3>1. j \in 1 .. n /\ j \in 1 .. n + 1 /\ ~ (i <= j)
      BY <1>1, <2>3
    <3>2. ~ (l < old[j])
      BY <2>2, <3>1
    <3>3. l # old[j]
      BY <1>1, <3>1 DEF ToSet
    <3>4. old[j] \in Nat
      BY <1>1, <3>1
    <3> QED BY <2>3, <3>2, <3>3, <3>4
  <2>5. i \in 1 .. n => l < old[i]
    BY <1>1
  <2>6. l \in New(i)
    BY <1>1, <2>4, <2>5 DEF New, NewBefore
  <2>7. l \in ToSet(P[i])
    BY <1>7, <2>3, <2>6
  <2> QED BY <1>10, <2>3, <2>7
<1>14. ASSUME Increasing(old) PROVE Increasing(FlattenSeq(P))
  <2>1. ASSUME NEW i \in 1 .. n + 1, NEW j \in 1 .. n + 1, i < j,
               NEW x \in ToSet(P[i]), NEW y \in ToSet(P[j])
        PROVE  x < y
    <3>1. i \in 1 .. n /\ i \in 1 .. j - 1 /\ old[i] \in Nat
      BY <1>1, <2>1
    <3>2. x \in Nat /\ x <= old[i]
      <4>1. CASE x \in New(i)
        BY <1>6, <3>1, <4>1
      <4>2. CASE x \notin New(i)
        <5>1. x = old[i]
          BY <1>7, <3>1, <4>2
        <5> QED BY <3>1, <5>1
      <4> QED BY <4>1, <4>2
    <3>3. y \in Nat /\ old[i] < y
      <4>1. CASE y \in New(j)
        BY <1>6, <3>1, <4>1
      <4>2. CASE y \notin New(j)
        <5>1. j \in 1 .. n /\ y = old[j]
          BY <1>7, <4>2
        <5> QED BY <1>1, <1>14, <2>1, <3>1, <5>1 DEF Increasing
      <4> QED BY <4>1, <4>2
    <3> QED BY <3>1, <3>2, <3>3
  <2> QED BY <1>7, <1>10, <2>1
<1> QED BY <1>5, <1>10, <1>11, <1>12, <1>13, <1>14

-----------------------------------------------------------------------------
(* The inductive invariant, in three parts.                                *)

Holding == {"merge", "unlink", "rename"}

(* Types; who holds the lock of a file is exactly who works on it.         *)
Locks ==
    /\ pc \in [Procs -> {"next", "merge", "unlink", "rename", "dead"}]
    /\ pos \in [Procs -> Nat]
    /\ \A p \in Procs : pos[p] \in 1 .. Len(Work[p]) + 1
    /\ \A p \in Procs : pc[p] # "next" => pos[p] \in DOMAIN Work[p]
    /\ lock \in [Files -> Procs \cup {NoProc}]
    /\ \A f \in Files, p \in Procs :
           lock[f] = p <=> pc[p] \in Holding /\ Current(p) = f
    /\ file \in [Files -> Seq(Nat)]
    /\ tmp \in [Files -> [lines : Seq(Nat), torn : BOOLEAN]]
    /\ met \subseteq Faults

(* As long as nothing fails, the tmp file is there only for the compiler   *)
(* that is about to rename it, and is the merge of the file it read.       *)
Clean ==
    /\ \A f \in Files : ~ tmp[f].torn /\ Increasing(file[f]) /\ Increasing(tmp[f].lines)
    /\ \A f \in Files : tmp[f] # Empty =>
           \E p \in Procs : pc[p] \in {"unlink", "rename"} /\ Current(p) = f
    /\ \A p \in Procs : pc[p] = "unlink" =>
           tmp[Current(p)].lines = Merge(file[Current(p)], Output(p))

(* The deaths at a file pay for its lost lines and for the line that will  *)
(* be glued to a fragment; the lines its next holder owes are those that   *)
(* neither the file before its unlink nor the tmp file it wrote holds.     *)
DeadAt(f) == {p \in Procs : pc[p] = "dead" /\ Current(p) = f}
Torn(f)   == IF tmp[f].torn THEN 1 ELSE 0
Owed(p)   == (Finished(Current(p)) \cup ToSet(Output(p))) \ ToSet(tmp[Current(p)].lines)

FileDebt(f) == Cardinality(Missing(f)) + Torn(f) <= Cardinality(DeadAt(f))
OwnDebt(p)  == Cardinality(Owed(p)) + Torn(Current(p)) <= Cardinality(DeadAt(Current(p)))

Debts == /\ \A f \in Files : FileDebt(f)
         /\ \A p \in Procs : pc[p] \in {"unlink", "rename"} => OwnDebt(p)

DebtsInv == Locks /\ ("disk" \notin met => Debts)

-----------------------------------------------------------------------------
(* What the current item of a compiler is, and what appending does.        *)

LEMMA CurrentItem ==
    ASSUME NEW p \in Procs, Locks, pos[p] \in DOMAIN Work[p]
    PROVE  /\ Current(p) \in Files /\ Output(p) \in Seq(Nat)
           /\ DOMAIN Work[p] = 1 .. Len(Work[p]) /\ Len(Work[p]) \in Nat
<1> DEFINE R == [file : Files, lines : Seq(Nat)]
<1>1. Work[p] \in Seq(R)
  BY WorkAssumption
<1> HIDE DEF R
<1>2. DOMAIN Work[p] = 1 .. Len(Work[p]) /\ Len(Work[p]) \in Nat
  BY <1>1, LenProperties
<1>3. Work[p][pos[p]] \in R
  BY <1>1, <1>2, ElementOfSeq
<1> QED BY <1>2, <1>3 DEF R, Current, Output

TmpFile == [lines : Seq(Nat), torn : BOOLEAN]

(* Appending keeps what the tmp file has, and costs at most the one line   *)
(* that is glued to its fragment, which is then no fragment any more.      *)
LEMMA AppendKeeps ==
    ASSUME NEW t \in TmpFile, NEW s \in Seq(Nat), NEW torn \in BOOLEAN, NEW g \in Nat
    PROVE  LET a == Appended(t, s, torn, g)
           IN  /\ a \in TmpFile
               /\ ToSet(t.lines) \subseteq ToSet(a.lines)
               /\ ~ t.torn => a = [lines |-> t.lines \o s, torn |-> torn]
               /\ ~ t.torn => ToSet(s) \subseteq ToSet(a.lines)
               /\ ~ torn /\ t.torn /\ a.torn => ToSet(s) = {}
               /\ \E x : ToSet(s) \subseteq ToSet(a.lines) \cup {x}
<1> DEFINE a == Appended(t, s, torn, g)
<1>1. t.lines \in Seq(Nat) /\ t.torn \in BOOLEAN
  BY DEF TmpFile
<1>2. CASE t.torn /\ s # <<>>
  <2> DEFINE u == <<g>> \o Tail(s)
  <2>1. a = [lines |-> t.lines \o u, torn |-> torn]
    BY <1>1, <1>2 DEF Appended
  <2>2. Tail(s) \in Seq(Nat) /\ <<g>> \in Seq(Nat)
    BY <1>2
  <2>3. u \in Seq(Nat) /\ ToSet(Tail(s)) \subseteq ToSet(u)
    <3> HIDE DEF a
    <3> QED BY <2>2, Concatenation
  <2>4. ToSet(s) \subseteq {s[1]} \cup ToSet(Tail(s))
    <3>1. /\ Len(s) \in Nat /\ DOMAIN s = 1 .. Len(s)
          /\ Len(Tail(s)) = Len(s) - 1 /\ \A i \in 1 .. Len(s) - 1 : Tail(s)[i] = s[i + 1]
          /\ DOMAIN Tail(s) = 1 .. Len(s) - 1
      BY <1>2, HeadTailProperties, LenProperties, <2>2
    <3> SUFFICES ASSUME NEW i \in 1 .. Len(s), i # 1 PROVE s[i] \in ToSet(Tail(s))
      BY <3>1 DEF ToSet
    <3>2. i - 1 \in 1 .. Len(s) - 1 /\ (i - 1) + 1 = i
      BY <3>1
    <3>3. Tail(s)[i - 1] = s[i]
      BY <3>1, <3>2
    <3> QED BY <3>1, <3>2, <3>3 DEF ToSet
  <2> HIDE DEF u
  <2>5. t.lines \o u \in Seq(Nat) /\ ToSet(t.lines \o u) = ToSet(t.lines) \cup ToSet(u)
    BY <1>1, <2>3, Concatenation
  <2>6. a \in TmpFile /\ a.lines = t.lines \o u /\ a.torn = torn
    BY <2>1, <2>5 DEF TmpFile
  <2> HIDE DEF a
  <2>7. ToSet(s) \subseteq ToSet(a.lines) \cup {s[1]}
    BY <2>3, <2>4, <2>5, <2>6
  <2> QED BY <1>1, <1>2, <2>5, <2>6, <2>7 DEF a
<1>3. CASE ~ (t.torn /\ s # <<>>)
  <2>1. a = [lines |-> t.lines \o s, torn |-> torn \/ (t.torn /\ s = <<>>)]
    BY <1>3 DEF Appended
  <2>2. t.lines \o s \in Seq(Nat) /\ ToSet(t.lines \o s) = ToSet(t.lines) \cup ToSet(s)
    BY <1>1, Concatenation
  <2>3. a \in TmpFile /\ a.lines = t.lines \o s /\ a.torn = (torn \/ (t.torn /\ s = <<>>))
    BY <2>1, <2>2 DEF TmpFile
  <2>4. ~ t.torn => a = [lines |-> t.lines \o s, torn |-> torn]
    BY <2>1
  <2>5. s = <<>> => ToSet(s) = {}
    <3>1. DOMAIN <<>> = {}
      BY EmptySeq
    <3> QED BY <3>1 DEF ToSet
  <2> HIDE DEF a
  <2> QED BY <1>3, <2>2, <2>3, <2>4, <2>5 DEF a
<1> QED BY <1>2, <1>3

LEMMA PartTyped ==
    ASSUME NEW s \in Seq(Nat), NEW n \in 0 .. Len(s)
    PROVE  SubSeq(s, 1, n) \in Seq(Nat)
BY SubSeqProperties, LenProperties

-----------------------------------------------------------------------------
(* Types and locks.                                                        *)

LEMMA WrittenTyped ==
    ASSUME Locks, NEW p \in Procs, pc[p] = "merge", AllWritten(p) \/ PartlyWritten(p)
    PROVE  /\ Current(p) \in Files
           /\ \E t \in TmpFile : /\ tmp' = [tmp EXCEPT ![Current(p)] = t]
                                /\ ToSet(tmp[Current(p)].lines) \subseteq ToSet(t.lines)
           /\ tmp' \in [Files -> TmpFile]
<1> DEFINE f == Current(p)
           m == Merge(file[f], Output(p))
<1>1. f \in Files /\ Output(p) \in Seq(Nat)
  <2>1. pos[p] \in DOMAIN Work[p]
    BY DEF Locks
  <2> QED BY <2>1, CurrentItem
<1>2. m \in Seq(Nat)
  <2>1. file[f] \in Seq(Nat)
    BY <1>1 DEF Locks
  <2> HIDE DEF f
  <2> QED BY <1>1, <2>1, MergeMerges
<1>3. tmp[f] \in TmpFile /\ tmp \in [Files -> TmpFile]
  BY <1>1 DEF Locks, TmpFile
<1>4. \E t \in TmpFile : /\ tmp' = [tmp EXCEPT ![f] = t]
                         /\ ToSet(tmp[f].lines) \subseteq ToSet(t.lines)
  <2>1. CASE AllWritten(p)
    <3>1. PICK g \in Garbage : tmp' = [tmp EXCEPT ![f] = Appended(tmp[f], m, FALSE, g)]
      BY <2>1 DEF AllWritten, OpenTmp
    <3>2. g \in Nat
      BY WorkAssumption
    <3> HIDE DEF m, f
    <3>3. /\ Appended(tmp[f], m, FALSE, g) \in TmpFile
          /\ ToSet(tmp[f].lines) \subseteq ToSet(Appended(tmp[f], m, FALSE, g).lines)
      BY <1>2, <1>3, <3>2, AppendKeeps
    <3> QED BY <3>1, <3>3
  <2>2. CASE PartlyWritten(p)
    <3>1. PICK g \in Garbage, n \in 0 .. Len(m), torn \in BOOLEAN :
             tmp' = [tmp EXCEPT ![f] = Appended(tmp[f], SubSeq(m, 1, n), torn, g)]
      BY <2>2 DEF PartlyWritten, OpenTmp
    <3>2. g \in Nat
      BY WorkAssumption
    <3> HIDE DEF m, f
    <3>3. SubSeq(m, 1, n) \in Seq(Nat)
      BY <1>2, PartTyped
    <3>4. /\ Appended(tmp[f], SubSeq(m, 1, n), torn, g) \in TmpFile
          /\ ToSet(tmp[f].lines) \subseteq ToSet(Appended(tmp[f], SubSeq(m, 1, n), torn, g).lines)
      BY <1>3, <3>2, <3>3, AppendKeeps
    <3> QED BY <3>1, <3>4
  <2> QED BY <2>1, <2>2
<1> HIDE DEF m
<1> QED BY <1>1, <1>3, <1>4

LEMMA LocksInit == Init => Locks
<1> SUFFICES ASSUME Init PROVE Locks
  OBVIOUS
<1>1. \A p \in Procs : 1 \in 1 .. Len(Work[p]) + 1
  <2> SUFFICES ASSUME NEW p \in Procs PROVE 1 \in 1 .. Len(Work[p]) + 1
    OBVIOUS
  <2>1. Work[p] \in Seq([file : Files, lines : Seq(Nat)])
    BY WorkAssumption
  <2>2. Len(Work[p]) \in Nat
    BY <2>1, LenProperties
  <2> QED BY <2>2
<1>2. file \in [Files -> Seq(Nat)] /\ tmp \in [Files -> [lines : Seq(Nat), torn : BOOLEAN]]
  <2>1. <<>> \in Seq(Nat)
    OBVIOUS
  <2>2. Empty \in [lines : Seq(Nat), torn : BOOLEAN]
    BY <2>1 DEF Empty
  <2> QED BY <2>1, <2>2 DEF Init
<1>3. /\ pc \in [Procs -> {"next", "merge", "unlink", "rename", "dead"}]
      /\ pos \in [Procs -> Nat] /\ lock \in [Files -> Procs \cup {NoProc}] /\ met \subseteq Faults
      /\ \A p \in Procs : pc[p] = "next" /\ pos[p] = 1
  BY DEF Init
<1>4. \A f \in Files, p \in Procs : lock[f] # p
  BY WorkAssumption DEF Init
<1> QED BY <1>1, <1>2, <1>3, <1>4 DEF Locks, Holding

LEMMA LocksStep == Locks /\ [Next]_vars => Locks'
<1> SUFFICES ASSUME Locks, [Next]_vars PROVE Locks'
  OBVIOUS
<1>1. /\ pc \in [Procs -> {"next", "merge", "unlink", "rename", "dead"}]
      /\ pos \in [Procs -> Nat]
      /\ \A p \in Procs : pos[p] \in 1 .. Len(Work[p]) + 1
      /\ \A p \in Procs : pc[p] # "next" => pos[p] \in DOMAIN Work[p]
      /\ lock \in [Files -> Procs \cup {NoProc}]
      /\ file \in [Files -> Seq(Nat)]
      /\ tmp \in [Files -> TmpFile]
      /\ met \subseteq Faults
  BY DEF Locks, TmpFile
<1>2. \A f \in Files, p \in Procs :
          lock[f] = p <=> pc[p] \in Holding /\ Current(p) = f
  BY DEF Locks
<1>3. \A p \in Procs : NoProc # p
  BY WorkAssumption
<1>4. ASSUME NEW p \in Procs, pc[p] # "next"
      PROVE  Current(p) \in Files /\ pos[p] \in 1 .. Len(Work[p]) /\ Len(Work[p]) \in Nat
  <2>1. pos[p] \in DOMAIN Work[p]
    BY <1>1, <1>4
  <2> QED BY <2>1, CurrentItem
<1>5. ASSUME NEW p \in Procs, LockFile(p) PROVE Locks'
  <2>1. /\ pc[p] = "next" /\ pos[p] <= Len(Work[p]) /\ lock[Current(p)] = NoProc
        /\ lock' = [lock EXCEPT ![Current(p)] = p] /\ pc' = [pc EXCEPT ![p] = "merge"]
        /\ pos' = pos /\ file' = file /\ tmp' = tmp /\ met' = met
    BY <1>5 DEF LockFile, Available
  <2>2. Work[p] \in Seq([file : Files, lines : Seq(Nat)])
    BY WorkAssumption
  <2>3. DOMAIN Work[p] = 1 .. Len(Work[p]) /\ Len(Work[p]) \in Nat
    BY <2>2, LenProperties
  <2>4. pos[p] \in DOMAIN Work[p]
    BY <1>1, <2>1, <2>3
  <2>5. Current(p) \in Files
    BY <2>4, CurrentItem
  <2>6. \A q \in Procs : Current(q)' = Current(q)
    BY <2>1 DEF Current
  <2>7. ASSUME NEW f \in Files, NEW q \in Procs
        PROVE  lock'[f] = q <=> pc'[q] \in Holding /\ Current(q)' = f
    <3>1. lock'[f] = IF f = Current(p) THEN p ELSE lock[f]
      BY <1>1, <2>1
    <3>2. pc'[q] = IF q = p THEN "merge" ELSE pc[q]
      BY <1>1, <2>1
    <3> QED BY <1>2, <1>3, <2>1, <2>5, <2>6, <3>1, <3>2 DEF Holding
  <2>8. /\ pc' \in [Procs -> {"next", "merge", "unlink", "rename", "dead"}]
        /\ lock' \in [Files -> Procs \cup {NoProc}]
    BY <1>1, <2>1
  <2>9. \A q \in Procs : pc'[q] # "next" => pos'[q] \in DOMAIN Work[q]
    BY <1>1, <2>1, <2>4
  <2> QED BY <1>1, <2>1, <2>7, <2>8, <2>9 DEF Locks, TmpFile
<1>6. ASSUME NEW p \in Procs, NEW to \in Holding, pc[p] \in Holding,
             pc' = [pc EXCEPT ![p] = to], lock' = lock, pos' = pos,
             file' \in [Files -> Seq(Nat)], tmp' \in [Files -> TmpFile], met' \subseteq Faults
      PROVE  Locks'
  <2>1. \A q \in Procs : Current(q)' = Current(q)
    BY <1>6 DEF Current
  <2>2. \A q \in Procs : /\ pc'[q] \in Holding <=> pc[q] \in Holding
                         /\ pc'[q] # "next" <=> pc[q] # "next"
    BY <1>1, <1>6 DEF Holding
  <2>3. pc' \in [Procs -> {"next", "merge", "unlink", "rename", "dead"}]
    BY <1>1, <1>6 DEF Holding
  <2>4. \A f \in Files, q \in Procs :
            lock'[f] = q <=> pc'[q] \in Holding /\ Current(q)' = f
    BY <1>2, <1>6, <2>1, <2>2
  <2>5. \A q \in Procs : pc'[q] # "next" => pos'[q] \in DOMAIN Work[q]
    BY <1>1, <1>6, <2>2
  <2> QED BY <1>1, <1>6, <2>3, <2>4, <2>5 DEF Locks, TmpFile
<1>7. ASSUME NEW p \in Procs, WriteTmp(p) \/ LoseTail(p) PROVE Locks'
  <2>1. /\ pc[p] = "merge" /\ pc' = [pc EXCEPT ![p] = "unlink"]
        /\ lock' = lock /\ pos' = pos /\ file' = file /\ met' \subseteq Faults
        /\ AllWritten(p) \/ PartlyWritten(p)
    BY <1>1, <1>7, WorkAssumption DEF WriteTmp, LoseTail
  <2>2. tmp' \in [Files -> TmpFile]
    BY <2>1, WrittenTyped
  <2> QED BY <1>1, <1>6, <2>1, <2>2 DEF Holding
<1>8. ASSUME NEW p \in Procs, Unlink(p) PROVE Locks'
  <2>1. /\ pc[p] = "unlink" /\ pc' = [pc EXCEPT ![p] = "rename"]
        /\ lock' = lock /\ pos' = pos /\ tmp' = tmp /\ met' = met
        /\ file' = [file EXCEPT ![Current(p)] = <<>>]
    BY <1>8 DEF Unlink
  <2>2. file' \in [Files -> Seq(Nat)]
    <3>1. <<>> \in Seq(Nat)
      OBVIOUS
    <3> QED BY <1>1, <2>1, <3>1
  <2> QED BY <1>1, <1>6, <2>1, <2>2 DEF Holding
<1>9. ASSUME NEW p \in Procs, pc[p] \in Holding, NEW to \in {"next", "dead"},
             pc' = [pc EXCEPT ![p] = to], lock' = [lock EXCEPT ![Current(p)] = NoProc],
             \/ to = "dead" /\ pos' = pos
             \/ to = "next" /\ pos' = [pos EXCEPT ![p] = @ + 1],
             file' \in [Files -> Seq(Nat)], tmp' \in [Files -> TmpFile], met' \subseteq Faults
      PROVE  Locks'
  <2>1. pc[p] # "next"
    BY <1>9 DEF Holding
  <2>2. /\ Current(p) \in Files /\ pos[p] \in 1 .. Len(Work[p]) /\ Len(Work[p]) \in Nat
        /\ pos[p] \in DOMAIN Work[p]
    BY <1>1, <1>4, <2>1
  <2>3. /\ pc' \in [Procs -> {"next", "merge", "unlink", "rename", "dead"}]
        /\ lock' \in [Files -> Procs \cup {NoProc}]
    BY <1>1, <1>9
  <2>4. pos' \in [Procs -> Nat] /\ pos'[p] \in 1 .. Len(Work[p]) + 1
    BY <1>1, <1>9, <2>2
  <2>5. \A q \in Procs \ {p} : pos'[q] = pos[q] /\ pc'[q] = pc[q] /\ Current(q)' = Current(q)
    BY <1>1, <1>9 DEF Current
  <2>6. \A q \in Procs : pos'[q] \in 1 .. Len(Work[q]) + 1
    BY <1>1, <2>4, <2>5
  <2>7. pc'[p] = to /\ pc'[p] \notin Holding /\ (to = "dead" => pos'[p] = pos[p])
    BY <1>1, <1>9 DEF Holding
  <2>8. \A q \in Procs : pc'[q] # "next" => pos'[q] \in DOMAIN Work[q]
    BY <1>1, <1>9, <2>2, <2>5, <2>7
  <2>9. ASSUME NEW f \in Files, NEW q \in Procs
        PROVE  lock'[f] = q <=> pc'[q] \in Holding /\ Current(q)' = f
    <3>1. lock'[f] = IF f = Current(p) THEN NoProc ELSE lock[f]
      BY <1>1, <1>9
    <3>2. lock[Current(p)] = p
      BY <1>2, <1>9, <2>2
    <3>3. CASE q = p
      BY <1>2, <1>3, <1>9, <2>7, <3>1, <3>2, <3>3
    <3>4. CASE q # p
      BY <1>2, <1>3, <2>2, <2>5, <3>1, <3>2, <3>4
    <3> QED BY <3>3, <3>4
  <2> QED BY <1>9, <2>3, <2>4, <2>6, <2>8, <2>9 DEF Locks, TmpFile
<1>10. ASSUME NEW p \in Procs, Rename(p) PROVE Locks'
  <2> DEFINE f == Current(p)
  <2>1. /\ pc[p] = "rename" /\ tmp' = [tmp EXCEPT ![f] = Empty]
        /\ lock' = [lock EXCEPT ![f] = NoProc] /\ pos' = [pos EXCEPT ![p] = @ + 1]
        /\ pc' = [pc EXCEPT ![p] = "next"] /\ met' = met
    BY <1>10 DEF Rename, Unlocked
  <2>2. PICK g \in Garbage :
            file' = [file EXCEPT ![f] = tmp[f].lines \o (IF tmp[f].torn THEN <<g>> ELSE <<>>)]
    BY <1>10 DEF Rename
  <2>3. f \in Files
    BY <1>4, <2>1
  <2> HIDE DEF f
  <2>4. tmp[f].lines \in Seq(Nat)
    BY <1>1, <2>3 DEF TmpFile
  <2> DEFINE x == IF tmp[f].torn THEN <<g>> ELSE <<>>
  <2>5. x \in Seq(Nat)
    <3>1. g \in Nat
      BY WorkAssumption
    <3> QED BY <3>1
  <2>6. file' = [file EXCEPT ![f] = tmp[f].lines \o x]
    BY <2>2
  <2> HIDE DEF x
  <2>7. tmp[f].lines \o x \in Seq(Nat)
    BY <2>4, <2>5
  <2>8. file' \in [Files -> Seq(Nat)]
    BY <1>1, <2>6, <2>7
  <2>9. Empty \in TmpFile
    BY DEF Empty, TmpFile
  <2>10. tmp' \in [Files -> TmpFile]
    BY <1>1, <2>1, <2>9
  <2> QED BY <1>1, <1>9, <2>1, <2>8, <2>10 DEF Holding, f
<1>11. ASSUME NEW p \in Procs, Die(p) PROVE Locks'
  <2>1. /\ pc[p] \in Holding /\ lock' = [lock EXCEPT ![Current(p)] = NoProc]
        /\ pc' = [pc EXCEPT ![p] = "dead"] /\ met' \subseteq Faults /\ pos' = pos /\ file' = file
        /\ (pc[p] = "merge" /\ PartlyWritten(p)) \/ tmp' = tmp
    BY <1>1, <1>11, WorkAssumption DEF Die, Holding, Unlocked
  <2>2. tmp' \in [Files -> TmpFile]
    BY <1>1, <2>1, WrittenTyped
  <2> QED BY <1>1, <1>9, <2>1, <2>2
<1>12. ASSUME UNCHANGED vars PROVE Locks'
  <2>1. pc' = pc /\ pos' = pos /\ lock' = lock /\ file' = file /\ tmp' = tmp /\ met' = met
    BY <1>12 DEF vars
  <2>2. \A q \in Procs : Current(q)' = Current(q)
    BY <2>1 DEF Current
  <2> QED BY <1>1, <1>2, <2>1, <2>2 DEF Locks, TmpFile
<1> QED BY <1>5, <1>7, <1>8, <1>10, <1>11, <1>12 DEF Next, AllOver

(* Whatever fails, at most one compiler works on a file: the one that      *)
(* holds the flock of its source.                                          *)
LEMMA LocksHold == Spec => []Locks
<1> QED BY LocksInit, LocksStep, PTL DEF Spec

LEMMA TypesHold == Locks => TypeOK
BY DEF Locks, TypeOK, Holding

-----------------------------------------------------------------------------
(* As long as nothing fails.                                               *)

LEMMA FaultsStay == Locks /\ [Next]_vars => met \subseteq met'
BY DEF Next, AllOver, vars, LockFile, WriteTmp, LoseTail, Unlink, Rename, Die

(* Two compilers that hold locks hold those of different files.            *)
LEMMA OneHolder ==
    ASSUME Locks, NEW p \in Procs, NEW q \in Procs, p # q,
           pc[p] \in Holding, pc[q] \in Holding
    PROVE  Current(p) # Current(q)
<1>1. pos[p] \in DOMAIN Work[p]
  BY DEF Locks, Holding
<1>2. Current(p) \in Files
  BY <1>1, CurrentItem
<1> QED BY <1>2 DEF Locks

LEMMA CleanInit == Init => Clean
<1> SUFFICES ASSUME Init PROVE Clean
  OBVIOUS
<1>1. Increasing(<<>>)
  <2>1. DOMAIN <<>> = {}
    BY EmptySeq
  <2> QED BY <2>1 DEF Increasing
<1>2. \A f \in Files : file[f] = <<>> /\ tmp[f] = Empty
  BY DEF Init
<1>3. Empty.lines = <<>> /\ Empty.torn = FALSE
  BY DEF Empty
<1>4. \A p \in Procs : pc[p] = "next"
  BY DEF Init
<1> QED BY <1>1, <1>2, <1>3, <1>4 DEF Clean

LEMMA CleanStep ==
    ASSUME Locks, Clean, Next, met' = {}
    PROVE  Clean'
<1>1. /\ pc \in [Procs -> {"next", "merge", "unlink", "rename", "dead"}]
      /\ pos \in [Procs -> Nat]
      /\ \A p \in Procs : pc[p] # "next" => pos[p] \in DOMAIN Work[p]
      /\ file \in [Files -> Seq(Nat)]
      /\ tmp \in [Files -> TmpFile]
  BY DEF Locks, TmpFile
<1>2. /\ \A f \in Files : ~ tmp[f].torn /\ Increasing(file[f]) /\ Increasing(tmp[f].lines)
      /\ \A f \in Files : tmp[f] # Empty =>
             \E p \in Procs : pc[p] \in {"unlink", "rename"} /\ Current(p) = f
      /\ \A p \in Procs : pc[p] = "unlink" =>
             tmp[Current(p)].lines = Merge(file[Current(p)], Output(p))
  BY DEF Clean
<1>3. ASSUME NEW p \in Procs, pc[p] # "next"
      PROVE  Current(p) \in Files /\ Output(p) \in Seq(Nat)
  <2>1. pos[p] \in DOMAIN Work[p]
    BY <1>1, <1>3
  <2> QED BY <2>1, CurrentItem
<1>4. Increasing(<<>>) /\ Empty.lines = <<>> /\ Empty.torn = FALSE
  <2>1. DOMAIN <<>> = {}
    BY EmptySeq
  <2> QED BY <2>1 DEF Increasing, Empty
<1>5. ASSUME NEW p \in Procs, LockFile(p) PROVE Clean'
  <2>1. /\ pc[p] = "next" /\ pc' = [pc EXCEPT ![p] = "merge"]
        /\ pos' = pos /\ file' = file /\ tmp' = tmp
    BY <1>5 DEF LockFile
  <2>2. \A q \in Procs : /\ Current(q)' = Current(q) /\ Output(q)' = Output(q)
                         /\ pc[q] \in {"unlink", "rename"} => pc'[q] = pc[q]
                         /\ pc'[q] = "unlink" => pc[q] = "unlink"
    BY <1>1, <2>1 DEF Current, Output
  <2> QED BY <1>2, <2>1, <2>2 DEF Clean
<1>6. ASSUME NEW p \in Procs, WriteTmp(p) PROVE Clean'
  <2> DEFINE f == Current(p)
             m == Merge(file[f], Output(p))
  <2>1. /\ pc[p] = "merge" /\ pc' = [pc EXCEPT ![p] = "unlink"]
        /\ pos' = pos /\ file' = file
        /\ \E g \in Garbage : tmp' = [tmp EXCEPT ![f] = Appended(tmp[f], m, FALSE, g)]
    BY <1>6 DEF WriteTmp, AllWritten, OpenTmp
  <2>2. f \in Files /\ Output(p) \in Seq(Nat) /\ file[f] \in Seq(Nat)
    BY <1>1, <1>3, <2>1
  <2>3. tmp[f] = Empty
    <3>1. ASSUME NEW q \in Procs, pc[q] \in {"unlink", "rename"} PROVE Current(q) # f
      BY <2>1, <3>1, OneHolder DEF Holding
    <3> QED BY <1>2, <2>2, <3>1
  <2>4. \A q \in Procs : Current(q)' = Current(q) /\ Output(q)' = Output(q)
    BY <2>1 DEF Current, Output
  <2>5. \A q \in Procs \ {p} : pc'[q] = pc[q] /\ (pc[q] = "unlink" => Current(q) # f)
    BY <1>1, <2>1, OneHolder DEF Holding
  <2> HIDE DEF f
  <2>6. m \in Seq(Nat) /\ Increasing(m)
    BY <1>2, <2>2, MergeMerges
  <2> HIDE DEF m
  <2>7. tmp'[f].lines = m /\ tmp'[f].torn = FALSE
    <3>1. PICK g \in Garbage : tmp' = [tmp EXCEPT ![f] = Appended(tmp[f], m, FALSE, g)]
      BY <2>1
    <3>2. Appended(tmp[f], m, FALSE, g) = [lines |-> <<>> \o m, torn |-> FALSE]
      BY <1>4, <2>3 DEF Appended
    <3>3. <<>> \o m = m
      BY <2>6, ConcatEmptySeq
    <3>4. tmp'[f] = [lines |-> m, torn |-> FALSE]
      BY <1>1, <2>2, <3>1, <3>2, <3>3
    <3> QED BY <3>4
  <2>8. \A g \in Files \ {f} : tmp'[g] = tmp[g]
    BY <1>1, <2>1
  <2>9. \A g \in Files : ~ tmp'[g].torn /\ Increasing(file'[g]) /\ Increasing(tmp'[g].lines)
    BY <1>2, <2>1, <2>6, <2>7, <2>8
  <2>10. pc'[p] = "unlink"
    BY <1>1, <2>1
  <2>11. ASSUME NEW g \in Files, tmp'[g] # Empty
         PROVE  \E q \in Procs : pc'[q] \in {"unlink", "rename"} /\ Current(q)' = g
    <3>1. CASE g = f
      <4>1. Current(p)' = f
        BY <2>4 DEF f
      <4> QED BY <2>10, <3>1, <4>1
    <3>2. CASE g # f
      <4>1. PICK q \in Procs : pc[q] \in {"unlink", "rename"} /\ Current(q) = g
        BY <1>2, <2>8, <2>11, <3>2
      <4>2. q # p
        BY <2>1, <4>1
      <4>3. pc'[q] = pc[q]
        BY <2>5, <4>2
      <4> QED BY <2>4, <4>1, <4>3
    <3> QED BY <3>1, <3>2
  <2>12. ASSUME NEW q \in Procs, pc'[q] = "unlink"
         PROVE  tmp'[Current(q)'].lines = Merge(file'[Current(q)'], Output(q)')
    <3>1. CASE q = p
      <4>1. Current(q)' = f /\ Output(q)' = Output(p)
        BY <2>4, <3>1 DEF f
      <4> QED BY <2>1, <2>7, <4>1 DEF m
    <3>2. CASE q # p
      <4>1. pc[q] = "unlink" /\ Current(q) # f
        BY <2>5, <2>12, <3>2
      <4>2. Current(q) \in Files
        BY <1>3, <4>1
      <4>3. tmp'[Current(q)] = tmp[Current(q)]
        BY <2>8, <4>1, <4>2
      <4> QED BY <1>2, <2>1, <2>4, <4>1, <4>3
    <3> QED BY <3>1, <3>2
  <2> QED BY <2>9, <2>11, <2>12 DEF Clean
<1>7. ASSUME NEW p \in Procs, Unlink(p) PROVE Clean'
  <2> DEFINE f == Current(p)
  <2>1. /\ pc[p] = "unlink" /\ pc' = [pc EXCEPT ![p] = "rename"]
        /\ pos' = pos /\ tmp' = tmp /\ file' = [file EXCEPT ![f] = <<>>]
    BY <1>7 DEF Unlink
  <2>2. \A q \in Procs : Current(q)' = Current(q) /\ Output(q)' = Output(q)
    BY <2>1 DEF Current, Output
  <2>3. \A q \in Procs \ {p} : pc'[q] = pc[q] /\ (pc[q] = "unlink" => Current(q) # f)
    BY <1>1, <2>1, OneHolder DEF Holding
  <2> HIDE DEF f
  <2>4. pc'[p] = "rename"
    BY <1>1, <2>1
  <2>5. \A g \in Files : file'[g] = IF g = f THEN <<>> ELSE file[g]
    BY <1>1, <2>1
  <2>6. \A g \in Files : ~ tmp'[g].torn /\ Increasing(file'[g]) /\ Increasing(tmp'[g].lines)
    BY <1>2, <1>4, <2>1, <2>5
  <2>7. \A q \in Procs : pc[q] \in {"unlink", "rename"} => pc'[q] \in {"unlink", "rename"}
    BY <2>3, <2>4
  <2>8. ASSUME NEW q \in Procs, pc'[q] = "unlink"
        PROVE  tmp'[Current(q)'].lines = Merge(file'[Current(q)'], Output(q)')
    <3>1. q # p
      BY <2>4, <2>8
    <3>2. pc[q] = "unlink" /\ Current(q) # f
      BY <2>3, <2>8, <3>1
    <3>3. Current(q) \in Files
      BY <1>3, <3>2
    <3>4. file'[Current(q)] = file[Current(q)]
      BY <2>5, <3>2, <3>3
    <3> QED BY <1>2, <2>1, <2>2, <3>2, <3>4
  <2> QED BY <1>2, <2>1, <2>2, <2>6, <2>7, <2>8 DEF Clean
<1>8. ASSUME NEW p \in Procs, Rename(p) PROVE Clean'
  <2> DEFINE f == Current(p)
  <2>1. /\ pc[p] = "rename" /\ pc' = [pc EXCEPT ![p] = "next"]
        /\ pos' = [pos EXCEPT ![p] = @ + 1] /\ tmp' = [tmp EXCEPT ![f] = Empty]
        /\ \E g \in Garbage : file' = [file EXCEPT ![f] =
               tmp[f].lines \o (IF tmp[f].torn THEN <<g>> ELSE <<>>)]
    BY <1>8 DEF Rename
  <2>2. f \in Files
    BY <1>3, <2>1
  <2>3. \A q \in Procs \ {p} : /\ Current(q)' = Current(q) /\ Output(q)' = Output(q)
                               /\ pc'[q] = pc[q] /\ (pc[q] = "unlink" => Current(q) # f)
    BY <1>1, <2>1, OneHolder DEF Holding, Current, Output
  <2>4. \A q \in Procs : Current(q) # f /\ pc[q] \in {"unlink", "rename"} => q # p
    OBVIOUS
  <2> HIDE DEF f
  <2>5. pc'[p] = "next"
    BY <1>1, <2>1
  <2>6. tmp[f].lines \in Seq(Nat) /\ tmp[f].torn = FALSE
    BY <1>1, <1>2, <2>2 DEF TmpFile
  <2>7. tmp[f].lines \o <<>> = tmp[f].lines
    BY <2>6, ConcatEmptySeq
  <2>8. \A g \in Files : file'[g] = IF g = f THEN tmp[f].lines ELSE file[g]
    BY <1>1, <2>1, <2>6, <2>7
  <2>9. \A g \in Files : tmp'[g] = IF g = f THEN Empty ELSE tmp[g]
    BY <1>1, <2>1
  <2>10. \A g \in Files : ~ tmp'[g].torn /\ Increasing(file'[g]) /\ Increasing(tmp'[g].lines)
    BY <1>2, <1>4, <2>2, <2>8, <2>9
  <2>11. ASSUME NEW g \in Files, tmp'[g] # Empty
         PROVE  \E q \in Procs : pc'[q] \in {"unlink", "rename"} /\ Current(q)' = g
    <3>1. g # f /\ tmp[g] # Empty
      BY <2>9, <2>11
    <3>2. PICK q \in Procs : pc[q] \in {"unlink", "rename"} /\ Current(q) = g
      BY <1>2, <3>1
    <3>3. q # p
      BY <2>4, <3>1, <3>2
    <3> QED BY <2>3, <3>2, <3>3
  <2>12. ASSUME NEW q \in Procs, pc'[q] = "unlink"
         PROVE  tmp'[Current(q)'].lines = Merge(file'[Current(q)'], Output(q)')
    <3>1. q # p
      BY <2>5, <2>12
    <3>2. pc[q] = "unlink" /\ Current(q) # f /\ Current(q)' = Current(q) /\ Output(q)' = Output(q)
      BY <2>3, <2>12, <3>1
    <3>3. Current(q) \in Files
      BY <1>3, <3>2
    <3> QED BY <1>2, <2>8, <2>9, <3>2, <3>3
  <2> QED BY <2>10, <2>11, <2>12 DEF Clean
<1>9. ASSUME AllOver PROVE Clean'
  <2>1. pc' = pc /\ pos' = pos /\ file' = file /\ tmp' = tmp
    BY <1>9 DEF AllOver, vars
  <2>2. \A q \in Procs : Current(q)' = Current(q) /\ Output(q)' = Output(q)
    BY <2>1 DEF Current, Output
  <2> QED BY <1>2, <2>1, <2>2 DEF Clean
<1>10. \A p \in Procs : ~ LoseTail(p) /\ ~ Die(p)
  BY DEF LoseTail, Die
<1> QED BY <1>5, <1>6, <1>7, <1>8, <1>9, <1>10 DEF Next

CleanInv == Locks /\ (met = {} => Clean)

LEMMA CleanHolds == Spec => []CleanInv
<1>1. Init => CleanInv
  BY LocksInit, CleanInit DEF CleanInv
<1>2. CleanInv /\ [Next]_vars => CleanInv'
  <2> SUFFICES ASSUME CleanInv, [Next]_vars, met' = {} PROVE Clean'
    BY LocksStep DEF CleanInv
  <2>1. met = {}
    BY FaultsStay DEF CleanInv
  <2>2. CASE Next
    BY <2>1, <2>2, CleanStep DEF CleanInv
  <2>3. CASE UNCHANGED vars
    <3>1. pc' = pc /\ pos' = pos /\ file' = file /\ tmp' = tmp
      BY <2>3 DEF vars
    <3>2. \A q \in Procs : Current(q)' = Current(q) /\ Output(q)' = Output(q)
      BY <3>1 DEF Current, Output
    <3> QED BY <2>1, <3>1, <3>2 DEF Clean, CleanInv
  <2> QED BY <2>2, <2>3
<1> QED BY <1>1, <1>2, PTL DEF Spec

(* As long as nothing fails, every analysis file is strictly increasing.   *)
LEMMA CleanSorted == CleanInv => SortedWithoutFaults
BY DEF CleanInv, Clean, SortedWithoutFaults, Sorted, Increasing

-----------------------------------------------------------------------------
(* The refinement of AnalysisStore: the unlink is the instant at which a   *)
(* compiler's records are recorded.                                        *)

Pairs    == UNION {{p} \X DOMAIN Work[p] : p \in Procs}
Pending(w) == w[2] > pos[w[1]] \/ (w[2] = pos[w[1]] /\ pc[w[1]] # "rename")
Todo     == {w \in Pairs : Pending(w)}
Recorded == [f \in Files |-> ToSet(IF Writing(f) THEN tmp[f].lines ELSE file[f])]

LEMMA PairTyped ==
    ASSUME NEW w \in Pairs
    PROVE  /\ w[1] \in Procs /\ w[2] \in DOMAIN Work[w[1]] /\ w = <<w[1], w[2]>>
           /\ w[2] \in Nat /\ w[2] >= 1
<1>1. PICK p \in Procs : w \in {p} \X DOMAIN Work[p]
  BY DEF Pairs
<1>2. w[1] = p /\ w[2] \in DOMAIN Work[p] /\ w = <<w[1], w[2]>>
  BY <1>1
<1>3. Work[p] \in Seq([file : Files, lines : Seq(Nat)])
  BY WorkAssumption
<1>4. DOMAIN Work[p] = 1 .. Len(Work[p]) /\ Len(Work[p]) \in Nat
  BY <1>3, LenProperties
<1> QED BY <1>2, <1>4

LEMMA StoreInit == Init => Store!Init
<1> SUFFICES ASSUME Init PROVE Store!Init
  OBVIOUS
<1>1. /\ \A p \in Procs : pc[p] = "next" /\ pos[p] = 1
      /\ \A f \in Files : lock[f] = NoProc /\ file[f] = <<>>
  BY DEF Init
<1>2. ToSet(<<>>) = {}
  <2>1. DOMAIN <<>> = {}
    BY EmptySeq
  <2> QED BY <2>1 DEF ToSet
<1>3. Recorded = [f \in Files |-> {}]
  BY <1>1, <1>2 DEF Recorded, Writing
<1>4. ASSUME NEW w \in Pairs PROVE Pending(w)
  BY <1>1, PairTyped DEF Pending
<1>5. Todo = Pairs
  BY <1>4 DEF Todo
<1> QED BY <1>3, <1>5 DEF Store!Init, Recorded, Todo, Pending, Pairs

LEMMA StoreStutters ==
    ASSUME Recorded' = Recorded, Todo' = Todo
    PROVE  UNCHANGED Store!vars
BY DEF Store!vars, Recorded, Todo, Pending, Pairs

LEMMA StoreRecords ==
    ASSUME NEW p \in Procs, NEW i \in DOMAIN Work[p], <<p, i>> \in Todo,
           Todo' = Todo \ {<<p, i>>},
           Recorded' = [Recorded EXCEPT ![Work[p][i].file] = @ \cup ToSet(Work[p][i].lines)]
    PROVE  Store!Next
<1>1. ToSet(Work[p][i].lines) = Store!Range(Work[p][i].lines)
  BY DEF ToSet, Store!Range
<1>2. Store!Record(p, i)
  BY <1>1 DEF Store!Record, Recorded, Todo, Pending, Pairs
<1> QED BY <1>2 DEF Store!Next

(* What is being written is what a compiler is about to rename.            *)
LEMMA StoreStep ==
    ASSUME Locks, Clean, Next, met' = {}
    PROVE  Store!Next \/ UNCHANGED Store!vars
<1>1. /\ pc \in [Procs -> {"next", "merge", "unlink", "rename", "dead"}]
      /\ pos \in [Procs -> Nat]
      /\ \A p \in Procs : pc[p] # "next" => pos[p] \in DOMAIN Work[p]
      /\ lock \in [Files -> Procs \cup {NoProc}]
      /\ file \in [Files -> Seq(Nat)]
      /\ tmp \in [Files -> TmpFile]
  BY DEF Locks, TmpFile
<1>2. \A f \in Files, p \in Procs :
          lock[f] = p <=> pc[p] \in Holding /\ Current(p) = f
  BY DEF Locks
<1>3. ASSUME NEW p \in Procs, pc[p] # "next"
      PROVE  /\ Current(p) \in Files /\ Output(p) \in Seq(Nat)
             /\ pos[p] \in DOMAIN Work[p]
  <2>1. pos[p] \in DOMAIN Work[p]
    BY <1>1, <1>3
  <2> QED BY <2>1, CurrentItem
<1>4. NoProc \notin Procs
  BY WorkAssumption
<1>5. ASSUME NEW p \in Procs, LockFile(p) PROVE UNCHANGED Store!vars
  <2> DEFINE f == Current(p)
  <2>1. /\ pc[p] = "next" /\ pc' = [pc EXCEPT ![p] = "merge"] /\ lock[f] = NoProc
        /\ lock' = [lock EXCEPT ![f] = p] /\ pos' = pos /\ file' = file /\ tmp' = tmp
    BY <1>5 DEF LockFile, Available
  <2>2. \A q \in Procs : pc'[q] = "rename" <=> pc[q] = "rename"
    BY <1>1, <2>1
  <2> HIDE DEF f
  <2>3. ASSUME NEW g \in Files PROVE Writing(g)' <=> Writing(g)
    <3>1. lock'[g] = IF g = f THEN p ELSE lock[g]
      BY <1>1, <2>1
    <3>2. lock[g] # NoProc => lock[g] \in Procs
      BY <1>1
    <3>3. pc'[p] # "rename"
      BY <2>1, <2>2
    <3> QED BY <1>4, <2>1, <2>2, <3>1, <3>2, <3>3 DEF Writing
  <2>4. Recorded' = Recorded
    BY <2>1, <2>3 DEF Recorded
  <2>5. ASSUME NEW w \in Pairs PROVE Pending(w)' <=> Pending(w)
    BY <2>1, <2>2, PairTyped DEF Pending
  <2>6. Todo' = Todo
    BY <2>5 DEF Todo, Pairs
  <2> QED BY <2>4, <2>6, StoreStutters
<1>6. ASSUME NEW p \in Procs, WriteTmp(p) PROVE UNCHANGED Store!vars
  <2> DEFINE f == Current(p)
  <2>1. /\ pc[p] = "merge" /\ pc' = [pc EXCEPT ![p] = "unlink"]
        /\ lock' = lock /\ pos' = pos /\ file' = file
        /\ \E g \in Garbage :
             tmp' = [tmp EXCEPT ![f] = Appended(tmp[f], Merge(file[f], Output(p)), FALSE, g)]
    BY <1>6 DEF WriteTmp, AllWritten, OpenTmp
  <2>2. \A q \in Procs : pc'[q] = "rename" <=> pc[q] = "rename"
    BY <1>1, <2>1
  <2>3. f \in Files /\ lock[f] = p
    BY <1>2, <1>3, <2>1 DEF Holding
  <2> HIDE DEF f
  <2>4. \A g \in Files \ {f} : tmp'[g] = tmp[g]
    BY <1>1, <2>1
  <2>5. ASSUME NEW g \in Files
        PROVE  (Writing(g)' <=> Writing(g)) /\ (Writing(g) => tmp'[g] = tmp[g])
    <3>1. lock[g] # NoProc => lock[g] \in Procs
      BY <1>1
    <3>2. Writing(g)' <=> Writing(g)
      BY <2>1, <2>2, <3>1 DEF Writing
    <3>3. Writing(g) => g # f
      BY <2>1, <2>3 DEF Writing
    <3> QED BY <2>4, <3>2, <3>3
  <2>6. Recorded' = Recorded
    BY <2>1, <2>5 DEF Recorded
  <2>7. ASSUME NEW w \in Pairs PROVE Pending(w)' <=> Pending(w)
    BY <2>1, <2>2, PairTyped DEF Pending
  <2>8. Todo' = Todo
    BY <2>7 DEF Todo, Pairs
  <2> QED BY <2>6, <2>8, StoreStutters
<1>7. ASSUME NEW p \in Procs, Unlink(p) PROVE Store!Next
  <2>0. pc[p] = "unlink"
    BY <1>7 DEF Unlink
  <2> PICK f \in Files, i \in Nat : f = Current(p) /\ i = pos[p]
    BY <1>1, <1>3, <2>0
  <2>1. /\ pc[p] = "unlink" /\ pc' = [pc EXCEPT ![p] = "rename"]
        /\ lock' = lock /\ pos' = pos /\ tmp' = tmp /\ file' = [file EXCEPT ![f] = <<>>]
    BY <1>7 DEF Unlink
  <2>2. f \in Files /\ lock[f] = p /\ Output(p) \in Seq(Nat) /\ i \in DOMAIN Work[p]
    BY <1>2, <1>3, <2>1 DEF Holding
  <2>3. f = Work[p][i].file /\ Output(p) = Work[p][i].lines
    BY DEF Current, Output
  <2>4. tmp[f].lines = Merge(file[f], Output(p))
    BY <2>1 DEF Clean
  <2>5. ToSet(tmp[f].lines) = ToSet(file[f]) \cup ToSet(Output(p))
    <3>1. file[f] \in Seq(Nat)
      BY <1>1, <2>2
    <3> QED BY <2>2, <2>4, <3>1, MergeMerges
  <2>6. \A q \in Procs : pc'[q] = IF q = p THEN "rename" ELSE pc[q]
    BY <1>1, <2>1
  <2>7. Writing(f)' /\ ~ Writing(f)
    BY <1>4, <2>1, <2>2, <2>6 DEF Writing
  <2>8. ASSUME NEW g \in Files, g # f
        PROVE  (Writing(g)' <=> Writing(g)) /\ file'[g] = file[g]
    <3>1. lock[g] # NoProc => lock[g] \in Procs /\ lock[g] # p
      BY <1>1, <1>2, <2>2, <2>8
    <3>2. file'[g] = file[g]
      BY <1>1, <2>1, <2>8
    <3> QED BY <2>1, <2>6, <3>1, <3>2 DEF Writing
  <2>9. Recorded' = [Recorded EXCEPT ![f] = @ \cup ToSet(Output(p))]
    <3>1. Recorded' = [g \in Files |-> IF g = f THEN Recorded[f] \cup ToSet(Output(p)) ELSE Recorded[g]]
      <4>1. ASSUME NEW g \in Files
            PROVE  ToSet(IF Writing(g)' THEN tmp'[g].lines ELSE file'[g]) =
                     IF g = f THEN Recorded[f] \cup ToSet(Output(p)) ELSE Recorded[g]
        <5>1. /\ Recorded[g] = ToSet(IF Writing(g) THEN tmp[g].lines ELSE file[g])
              /\ Recorded[f] = ToSet(IF Writing(f) THEN tmp[f].lines ELSE file[f])
          BY DEF Recorded
        <5>2. CASE g = f
          <6>1. ToSet(IF Writing(g)' THEN tmp'[g].lines ELSE file'[g]) = ToSet(tmp[f].lines)
            BY <2>1, <2>7, <5>2
          <6>2. Recorded[f] = ToSet(file[f])
            BY <2>7, <5>1
          <6> QED BY <2>5, <5>2, <6>1, <6>2
        <5>3. CASE g # f
          BY <2>1, <2>8, <5>1, <5>3
        <5> QED BY <5>2, <5>3
      <4> QED BY <4>1 DEF Recorded
    <3>2. DOMAIN Recorded = Files
      BY DEF Recorded
    <3> HIDE DEF Recorded
    <3> QED BY <2>2, <3>1, <3>2 DEF Recorded
  <2>10. <<p, i>> \in Pairs
    BY <2>2 DEF Pairs
  <2>11. ASSUME NEW w \in Pairs PROVE Pending(w)' <=> Pending(w) /\ w # <<p, i>>
    <3>1. w[1] \in Procs /\ w = <<w[1], w[2]>>
      BY PairTyped
    <3>2. pos[p] = i /\ i \in Nat
      BY <1>1 
    <3>3. CASE w[1] = p
      BY <2>1, <2>6, <3>1, <3>2, <3>3 DEF Pending
    <3>4. CASE w[1] # p
      BY <2>1, <2>6, <3>1, <3>4 DEF Pending
    <3> QED BY <3>3, <3>4
  <2>12. Pending(<<p, i>>)
    BY <2>1 DEF Pending
  <2>13. Todo' = Todo \ {<<p, i>>} /\ <<p, i>> \in Todo
    <3>1. Todo' = {w \in Pairs : Pending(w)'}
      BY DEF Todo, Pairs
    <3> QED BY <2>10, <2>11, <2>12, <3>1 DEF Todo
  <2> QED BY <2>2, <2>3, <2>9, <2>13, StoreRecords
<1>8. ASSUME NEW p \in Procs, Rename(p) PROVE UNCHANGED Store!vars
  <2>0. pc[p] = "rename"
    BY <1>8 DEF Rename
  <2> PICK f \in Files : f = Current(p)
    BY <1>3, <2>0
  <2>1. /\ pc[p] = "rename" /\ pc' = [pc EXCEPT ![p] = "next"]
        /\ pos' = [pos EXCEPT ![p] = @ + 1] /\ tmp' = [tmp EXCEPT ![f] = Empty]
        /\ lock' = [lock EXCEPT ![f] = NoProc]
        /\ \E g \in Garbage : file' = [file EXCEPT ![f] =
               tmp[f].lines \o (IF tmp[f].torn THEN <<g>> ELSE <<>>)]
    BY <1>8 DEF Rename, Unlocked
  <2>2. f \in Files /\ lock[f] = p
    BY <1>2, <1>3, <2>1 DEF Holding
  <2>3. tmp[f].lines \in Seq(Nat) /\ tmp[f].torn = FALSE
    BY <1>1, <2>2 DEF TmpFile, Clean
  <2>4. tmp[f].lines \o <<>> = tmp[f].lines
    BY <2>3, ConcatEmptySeq
  <2>5. file'[f] = tmp[f].lines
    BY <1>1, <2>1, <2>2, <2>3, <2>4
  <2>6. \A q \in Procs : pc'[q] = IF q = p THEN "next" ELSE pc[q]
    BY <1>1, <2>1
  <2>7. ~ Writing(f)' /\ Writing(f)
    <3>1. lock'[f] = NoProc
      BY <1>1, <2>1, <2>2
    <3> QED BY <1>4, <2>1, <2>2, <3>1 DEF Writing
  <2>8. ASSUME NEW g \in Files, g # f
        PROVE  (Writing(g)' <=> Writing(g)) /\ file'[g] = file[g] /\ tmp'[g] = tmp[g]
    <3>1. lock[g] # NoProc => lock[g] \in Procs /\ lock[g] # p
      BY <1>1, <1>2, <2>2, <2>8
    <3>2. file'[g] = file[g] /\ tmp'[g] = tmp[g] /\ lock'[g] = lock[g]
      BY <1>1, <2>1, <2>8
    <3> QED BY <2>6, <3>1, <3>2 DEF Writing
  <2>9. ASSUME NEW g \in Files
        PROVE  ToSet(IF Writing(g)' THEN tmp'[g].lines ELSE file'[g]) = Recorded[g]
    BY <2>5, <2>7, <2>8 DEF Recorded
  <2>10. Recorded' = Recorded
    BY <2>9 DEF Recorded
  <2>11. ASSUME NEW w \in Pairs PROVE Pending(w)' <=> Pending(w)
    <3>1. w[1] \in Procs /\ w[2] \in Nat
      BY PairTyped
    <3>2. CASE w[1] = p
      <4>1. pos'[p] = pos[p] + 1 /\ pos[p] \in Nat
        BY <1>1, <2>1
      <4> QED BY <2>1, <2>6, <3>1, <3>2, <4>1 DEF Pending
    <3>3. CASE w[1] # p
      <4>1. pos'[w[1]] = pos[w[1]]
        BY <1>1, <2>1, <3>1, <3>3
      <4> QED BY <2>6, <3>1, <3>3, <4>1 DEF Pending
    <3> QED BY <3>2, <3>3
  <2>12. Todo' = Todo
    BY <2>11 DEF Todo, Pairs
  <2> QED BY <2>10, <2>12, StoreStutters
<1>9. ASSUME AllOver PROVE UNCHANGED Store!vars
  <2>1. pc' = pc /\ pos' = pos /\ file' = file /\ tmp' = tmp /\ lock' = lock
    BY <1>9 DEF AllOver, vars
  <2>2. Recorded' = Recorded /\ Todo' = Todo
    BY <2>1 DEF Recorded, Writing, Todo, Pending, Pairs
  <2> QED BY <2>2, StoreStutters
<1>10. \A p \in Procs : ~ LoseTail(p) /\ ~ Die(p)
  BY DEF LoseTail, Die
<1> QED BY <1>5, <1>6, <1>7, <1>8, <1>9, <1>10 DEF Next

(* Parallel compilers that do not fail merge each of their record sets     *)
(* into the analysis file once and at one instant, and lose none to        *)
(* another's read, merge and replacement of the same file                  *)
(* (MozsearchIndexer.cpp, HandleTranslationUnit).                          *)
THEOREM ClangImplementsStore == Spec => StoreSpec
<1>1. CleanInv /\ [Next]_vars => ((met' = {} => Store!Next) \/ UNCHANGED Store!vars)
  <2> SUFFICES ASSUME CleanInv, [Next]_vars, met' = {}
               PROVE  Store!Next \/ UNCHANGED Store!vars
    OBVIOUS
  <2>1. met = {} /\ Locks /\ Clean
    BY FaultsStay DEF CleanInv
  <2>2. CASE Next
    BY <2>1, <2>2, StoreStep
  <2>3. CASE UNCHANGED vars
    <3>1. pc' = pc /\ pos' = pos /\ file' = file /\ tmp' = tmp /\ lock' = lock
      BY <2>3 DEF vars
    <3>2. Recorded' = Recorded /\ Todo' = Todo
      BY <3>1 DEF Recorded, Writing, Todo, Pending, Pairs
    <3> QED BY <3>2, StoreStutters
  <2> QED BY <2>2, <2>3
<1> QED BY <1>1, StoreInit, CleanHolds, PTL DEF Spec, StoreSpec

-----------------------------------------------------------------------------
(* Whoever dies: the deaths at a file pay for the lines it lost.           *)

LEMMA FewImages ==
    ASSUME NEW S, IsFiniteSet(S), NEW h
    PROVE  IsFiniteSet({h[x] : x \in S})
<1> DEFINE T == {h[x] : x \in S}
           g == [x \in S |-> h[x]]
<1>1. g \in [S -> T] /\ \A y \in T : \E x \in S : g[x] = y
  OBVIOUS
<1>2. g \in Surjection(S, T)
  BY <1>1 DEF Surjection
<1> HIDE DEF g, T
<1>3. IsFiniteSet(T)
  BY <1>2, FS_Surjection
<1> QED BY <1>3 DEF T

LEMMA FewFinished ==
    ASSUME Locks, NEW f
    PROVE  IsFiniteSet(Finished(f))
<1> DEFINE Mine(p) == {k \in 1 .. pos[p] - 1 : Work[p][k].file = f}
           h == [p \in Procs |-> UNION {ToSet(Work[p][i].lines) : i \in Mine(p)}]
<1>1. ASSUME NEW p \in Procs PROVE IsFiniteSet(h[p])
  <2> DEFINE l == [i \in 1 .. pos[p] - 1 |-> ToSet(Work[p][i].lines)]
  <2>1. pos[p] \in Nat /\ pos[p] \in 1 .. Len(Work[p]) + 1
    BY DEF Locks
  <2>2. Work[p] \in Seq([file : Files, lines : Seq(Nat)])
    BY WorkAssumption
  <2>3. Len(Work[p]) \in Nat /\ DOMAIN Work[p] = 1 .. Len(Work[p])
    BY <2>2, LenProperties
  <2>4. IsFiniteSet(Mine(p)) /\ Mine(p) \subseteq 1 .. pos[p] - 1
    <3>1. IsFiniteSet(1 .. pos[p] - 1)
      BY <2>1, FS_Interval
    <3>2. Mine(p) \in SUBSET (1 .. pos[p] - 1)
      OBVIOUS
    <3> HIDE DEF Mine
    <3> QED BY <3>1, <3>2, FS_Subset
  <2>5. ASSUME NEW i \in Mine(p) PROVE IsFiniteSet(ToSet(Work[p][i].lines))
    <3>1. i \in 1 .. Len(Work[p])
      BY <2>1, <2>3, <2>4
    <3>2. Work[p][i] \in [file : Files, lines : Seq(Nat)]
      BY <2>2, <2>3, <3>1, ElementOfSeq
    <3>3. Work[p][i].lines \in Seq(Nat)
      BY <3>2
    <3> QED BY <3>3, FewLines
  <2> HIDE DEF Mine
  <2>6. \A i \in Mine(p) : l[i] = ToSet(Work[p][i].lines)
    BY <2>4
  <2>7. h[p] = UNION {l[i] : i \in Mine(p)}
    BY <2>6
  <2>8. \A i \in Mine(p) : IsFiniteSet(l[i])
    BY <2>5, <2>6
  <2> HIDE DEF l, h
  <2>9. IsFiniteSet({l[i] : i \in Mine(p)})
    BY <2>4, FewImages
  <2>10. IsFiniteSet(UNION {l[i] : i \in Mine(p)})
    <3> DEFINE D == {l[i] : i \in Mine(p)}
    <3>1. \A T \in D : IsFiniteSet(T)
      BY <2>8
    <3>2. IsFiniteSet(D)
      BY <2>9
    <3> HIDE DEF D
    <3>3. IsFiniteSet(UNION D)
      BY <3>1, <3>2, FS_UNION
    <3> QED BY <3>3 DEF D
  <2> QED BY <2>7, <2>10
<1>2. Finished(f) = UNION {h[p] : p \in Procs}
  BY DEF Finished
<1> HIDE DEF h
<1> DEFINE D == {h[p] : p \in Procs}
<1>3. \A T \in D : IsFiniteSet(T)
  BY <1>1
<1>4. IsFiniteSet(D)
  BY FewImages, WorkAssumption
<1>5. Finished(f) = UNION D
  BY <1>2
<1> HIDE DEF D
<1> QED BY <1>3, <1>4, <1>5, FS_UNION

LEMMA Smaller ==
    ASSUME NEW S, IsFiniteSet(S), NEW T, T \subseteq S
    PROVE  /\ IsFiniteSet(T) /\ Cardinality(T) \in Nat /\ Cardinality(S) \in Nat
           /\ Cardinality(T) <= Cardinality(S)
BY FS_Subset, FS_CardinalityType

(* The sets that Debts counts.                                             *)
LEMMA Counts ==
    ASSUME Locks
    PROVE  /\ \A f : /\ IsFiniteSet(Missing(f)) /\ Cardinality(Missing(f)) \in Nat
                     /\ IsFiniteSet(DeadAt(f)) /\ Cardinality(DeadAt(f)) \in Nat
                     /\ Torn(f) \in {0, 1}
           /\ \A p \in Procs : pos[p] \in DOMAIN Work[p] =>
                 IsFiniteSet(Owed(p)) /\ Cardinality(Owed(p)) \in Nat
<1>1. ASSUME NEW f
      PROVE  /\ IsFiniteSet(Missing(f)) /\ Cardinality(Missing(f)) \in Nat
             /\ IsFiniteSet(DeadAt(f)) /\ Cardinality(DeadAt(f)) \in Nat
             /\ Torn(f) \in {0, 1}
  <2>1. IsFiniteSet(Finished(f)) /\ Missing(f) \subseteq Finished(f)
    BY FewFinished DEF Missing
  <2>2. DeadAt(f) \subseteq Procs
    BY DEF DeadAt
  <2>3. Torn(f) \in {0, 1}
    BY DEF Torn
  <2> QED BY <2>1, <2>2, <2>3, Smaller, WorkAssumption
<1>2. ASSUME NEW p \in Procs, pos[p] \in DOMAIN Work[p]
      PROVE  IsFiniteSet(Owed(p)) /\ Cardinality(Owed(p)) \in Nat
  <2> DEFINE S == Finished(Current(p)) \cup ToSet(Output(p))
  <2>1. IsFiniteSet(Finished(Current(p)))
    BY FewFinished
  <2>2. Output(p) \in Seq(Nat)
    BY <1>2, CurrentItem
  <2>3. IsFiniteSet(ToSet(Output(p)))
    BY <2>2, FewLines
  <2>4. IsFiniteSet(S)
    BY <2>1, <2>3, FS_Union
  <2>5. Owed(p) \subseteq S
    BY DEF Owed
  <2> HIDE DEF S
  <2> QED BY <2>4, <2>5, Smaller
<1> QED BY <1>1, <1>2

LEMMA DebtsInit == Init => Debts
<1> SUFFICES ASSUME Init PROVE Debts
  OBVIOUS
<1>1. \A p \in Procs : pc[p] = "next" /\ pos[p] = 1
  BY DEF Init
<1>2. ASSUME NEW f \in Files PROVE Missing(f) = {} /\ DeadAt(f) = {} /\ Torn(f) = 0
  <2>1. \A p \in Procs : 1 .. pos[p] - 1 = {}
    BY <1>1
  <2>2. Finished(f) = {}
    BY <2>1 DEF Finished
  <2>3. tmp[f].torn = FALSE
    BY DEF Init, Empty
  <2> QED BY <1>1, <2>2, <2>3 DEF Missing, DeadAt, Torn
<1>3. Cardinality({}) = 0
  BY FS_EmptySet
<1>4. ASSUME NEW f \in Files PROVE FileDebt(f)
  BY <1>2, <1>3 DEF FileDebt
<1> QED BY <1>1, <1>4 DEF Debts

(* A step that touches no file.                                            *)
LEMMA DebtsSame ==
    ASSUME Debts, file' = file, tmp' = tmp, pos' = pos,
           \A q \in Procs : /\ pc'[q] = "dead" <=> pc[q] = "dead"
                            /\ pc'[q] \in {"unlink", "rename"} => pc[q] \in {"unlink", "rename"}
    PROVE  Debts'
<1>1. \A q \in Procs : Current(q)' = Current(q) /\ Output(q)' = Output(q)
  BY DEF Current, Output
<1>2. ASSUME NEW f PROVE FileDebt(f)' <=> FileDebt(f)
  <2>1. Finished(f)' = Finished(f)
    BY DEF Finished
  <2>2. Missing(f)' = Missing(f) /\ Torn(f)' = Torn(f) /\ DeadAt(f)' = DeadAt(f)
    BY <1>1, <2>1 DEF Missing, Torn, DeadAt
  <2> QED BY <2>2 DEF FileDebt
<1>3. ASSUME NEW p \in Procs PROVE OwnDebt(p)' <=> OwnDebt(p)
  <2> PICK f : f = Current(p)
    OBVIOUS
  <2>1. Current(p)' = f /\ Output(p)' = Output(p)
    BY <1>1
  <2>2. Finished(f)' = Finished(f)
    BY DEF Finished
  <2>3. Torn(f)' = Torn(f) /\ DeadAt(f)' = DeadAt(f)
    BY <1>1 DEF Torn, DeadAt
  <2>4. Owed(p)' = Owed(p)
    BY <2>1 DEF Owed, Finished
  <2>5. Torn(Current(p))' = Torn(f)' /\ DeadAt(Current(p))' = DeadAt(f)'
    BY <2>1 DEF Torn, DeadAt
  <2> QED BY <2>3, <2>4, <2>5 DEF OwnDebt
<1> QED BY <1>2, <1>3 DEF Debts

(* The step of the holder of file f: what it leaves to the other files and *)
(* to the other compilers.                                                 *)
LEMMA OtherDebts ==
    ASSUME Locks, Debts, NEW p \in Procs, pc[p] \in Holding, NEW f \in Files, f = Current(p),
           \A q \in Procs \ {p} : pc'[q] = pc[q] /\ pos'[q] = pos[q],
           pos'[p] = pos[p] \/ pos'[p] = pos[p] + 1,
           \A g \in Files \ {f} : file'[g] = file[g] /\ tmp'[g] = tmp[g]
    PROVE  /\ \A g \in Files \ {f} : FileDebt(g)'
           /\ \A q \in Procs \ {p} : pc'[q] \in {"unlink", "rename"} => OwnDebt(q)'
           /\ DeadAt(f) \subseteq DeadAt(f)' /\ DeadAt(f)' \subseteq Procs
           /\ \A g : Finished(g)' \subseteq Finished(g) \cup (IF g = f THEN ToSet(Output(p)) ELSE {})
           /\ pos'[p] = pos[p] => \A g : Finished(g)' = Finished(g)
<1>1. /\ pos[p] \in Nat /\ pos[p] \in DOMAIN Work[p] /\ pc[p] # "dead"
  BY DEF Locks, Holding
<1>2. \A q \in Procs \ {p} : Current(q)' = Current(q) /\ Output(q)' = Output(q)
  BY DEF Current, Output
<1>3. ASSUME NEW g PROVE DeadAt(g) \subseteq DeadAt(g)' /\ DeadAt(g)' \subseteq Procs
  BY <1>1, <1>2 DEF DeadAt
<1>4. ASSUME NEW g
      PROVE  Finished(g)' \subseteq Finished(g) \cup (IF g = f THEN ToSet(Output(p)) ELSE {})
  <2> SUFFICES ASSUME NEW l, NEW q \in Procs, NEW i \in 1 .. pos'[q] - 1,
                      Work[q][i].file = g, l \in ToSet(Work[q][i].lines)
               PROVE  l \in Finished(g) \/ (g = f /\ l \in ToSet(Output(p)))
    BY DEF Finished
  <2>1. CASE i \in 1 .. pos[q] - 1
    BY <2>1 DEF Finished
  <2>2. CASE i \notin 1 .. pos[q] - 1
    <3>1. q = p /\ i = pos[p]
      BY <1>1, <2>2
    <3> QED BY <3>1 DEF Current, Output
  <2> QED BY <2>1, <2>2
<1>5. ASSUME pos'[p] = pos[p], NEW g PROVE Finished(g)' = Finished(g)
  <2>1. \A q \in Procs : pos'[q] = pos[q]
    BY <1>5
  <2> QED BY <2>1 DEF Finished
<1>6. ASSUME NEW g \in Files \ {f} PROVE FileDebt(g)'
  <2>1. Missing(g)' \subseteq Missing(g) /\ Torn(g)' = Torn(g)
    BY <1>4 DEF Missing, Torn
  <2>2. Cardinality(Missing(g)') <= Cardinality(Missing(g)) /\ Cardinality(Missing(g)') \in Nat
    BY <2>1, Counts, Smaller
  <2>3. IsFiniteSet(DeadAt(g)')
    BY <1>3, Smaller, WorkAssumption
  <2>4. Cardinality(DeadAt(g)) <= Cardinality(DeadAt(g)') /\ Cardinality(DeadAt(g)') \in Nat
    BY <1>3, <2>3, Smaller
  <2>5. FileDebt(g)
    BY DEF Debts
  <2> QED BY <2>1, <2>2, <2>4, <2>5, Counts DEF FileDebt
<1>7. ASSUME NEW q \in Procs \ {p}, pc'[q] \in {"unlink", "rename"} PROVE OwnDebt(q)'
  <2>1. pc[q] \in {"unlink", "rename"} /\ pc[q] \in Holding /\ pos[q] \in DOMAIN Work[q]
    BY <1>7 DEF Locks, Holding
  <2> PICK g : g = Current(q)
    OBVIOUS
  <2>2. g # f /\ g \in Files
    BY <2>1, OneHolder, CurrentItem
  <2>3. Current(q)' = g /\ Output(q)' = Output(q)
    BY <1>2
  <2>4. Torn(Current(q))' = Torn(g) /\ DeadAt(Current(q))' = DeadAt(g)'
    BY <2>2, <2>3 DEF Torn, DeadAt
  <2>5. Finished(Current(q))' = Finished(g)'
    BY <2>3 DEF Finished
  <2>6. Finished(g)' \subseteq Finished(g)
    BY <1>4, <2>2
  <2>7. Owed(q) = (Finished(g) \cup ToSet(Output(q))) \ ToSet(tmp[g].lines)
    BY DEF Owed
  <2>8. Owed(q)' = (Finished(g)' \cup ToSet(Output(q))) \ ToSet(tmp[g].lines)
    BY <2>2, <2>3, <2>5 DEF Owed
  <2>9. Owed(q)' \subseteq Owed(q)
    BY <2>6, <2>7, <2>8
  <2>10. Cardinality(Owed(q)') <= Cardinality(Owed(q)) /\ Cardinality(Owed(q)') \in Nat
    BY <2>1, <2>9, Counts, Smaller
  <2>11. IsFiniteSet(DeadAt(g)')
    BY <1>3, Smaller, WorkAssumption
  <2>12. Cardinality(DeadAt(g)) <= Cardinality(DeadAt(g)') /\ Cardinality(DeadAt(g)') \in Nat
    BY <1>3, <2>11, Smaller
  <2>13. OwnDebt(q)
    BY <2>1 DEF Debts
  <2> QED BY <2>1, <2>4, <2>10, <2>12, <2>13, Counts DEF OwnDebt
<1> QED BY <1>3, <1>4, <1>5, <1>6, <1>7

(* A compiler's own debt, with the file in hand as a constant.             *)
LEMMA OwnDebtNext ==
    ASSUME NEW p \in Procs, NEW f, Current(p)' = f
    PROVE  /\ Owed(p)' = (Finished(f)' \cup ToSet(Output(p)')) \ ToSet(tmp'[f].lines)
           /\ OwnDebt(p)' <=> Cardinality(Owed(p)') + Torn(f)' <= Cardinality(DeadAt(f)')
<1>1. Torn(Current(p))' = Torn(f)' /\ DeadAt(Current(p))' = DeadAt(f)'
  BY DEF Torn, DeadAt
<1>2. Finished(Current(p))' = Finished(f)'
  BY DEF Finished
<1>3. Owed(p)' = (Finished(f)' \cup ToSet(Output(p)')) \ ToSet(tmp'[f].lines)
  BY <1>2 DEF Owed
<1> QED BY <1>1, <1>3 DEF OwnDebt

LEMMA DebtsStep ==
    ASSUME Locks, Debts, Next, "disk" \notin met'
    PROVE  Debts'
<1>1. /\ pc \in [Procs -> {"next", "merge", "unlink", "rename", "dead"}]
      /\ pos \in [Procs -> Nat]
      /\ \A p \in Procs : pc[p] # "next" => pos[p] \in DOMAIN Work[p]
      /\ file \in [Files -> Seq(Nat)]
      /\ tmp \in [Files -> TmpFile]
  BY DEF Locks, TmpFile
<1>2. ASSUME NEW p \in Procs, pc[p] # "next"
      PROVE  Current(p) \in Files /\ Output(p) \in Seq(Nat) /\ pos[p] \in DOMAIN Work[p]
  <2>1. pos[p] \in DOMAIN Work[p]
    BY <1>1, <1>2
  <2> QED BY <2>1, CurrentItem
<1>3. \A f : /\ Cardinality(Missing(f)) \in Nat /\ IsFiniteSet(Missing(f))
             /\ Cardinality(DeadAt(f)) \in Nat /\ IsFiniteSet(DeadAt(f))
             /\ Torn(f) \in {0, 1}
  BY Counts
<1>4. \A f \in Files : Cardinality(Missing(f)) + Torn(f) <= Cardinality(DeadAt(f))
  BY DEF Debts, FileDebt
<1>5. ASSUME NEW p \in Procs, LockFile(p) PROVE Debts'
  <2>1. /\ pc[p] = "next" /\ pc' = [pc EXCEPT ![p] = "merge"]
        /\ pos' = pos /\ file' = file /\ tmp' = tmp
    BY <1>5 DEF LockFile
  <2>2. \A q \in Procs : /\ pc'[q] = "dead" <=> pc[q] = "dead"
                         /\ pc'[q] \in {"unlink", "rename"} => pc[q] \in {"unlink", "rename"}
    BY <1>1, <2>1
  <2> QED BY <2>1, <2>2, DebtsSame
<1>6. ASSUME NEW p \in Procs, WriteTmp(p) PROVE Debts'
  <2>0. pc[p] = "merge" /\ pc[p] \in Holding
    BY <1>6 DEF WriteTmp, Holding
  <2> PICK f \in Files : f = Current(p)
    BY <1>2, <2>0
  <2> DEFINE m == Merge(file[f], Output(p))
             t == tmp[f]
  <2>1. /\ pc' = [pc EXCEPT ![p] = "unlink"] /\ pos' = pos /\ file' = file
        /\ \E g \in Garbage : tmp' = [tmp EXCEPT ![f] = Appended(t, m, FALSE, g)]
    BY <1>6 DEF WriteTmp, AllWritten, OpenTmp
  <2> PICK g \in Garbage : tmp' = [tmp EXCEPT ![f] = Appended(t, m, FALSE, g)]
    BY <2>1
  <2> DEFINE a == Appended(t, m, FALSE, g)
  <2>2. Output(p) \in Seq(Nat) /\ file[f] \in Seq(Nat) /\ g \in Nat /\ t \in TmpFile
    BY <1>1, <1>2, <2>0, WorkAssumption
  <2>3. m \in Seq(Nat) /\ ToSet(m) = ToSet(file[f]) \cup ToSet(Output(p))
    BY <2>2, MergeMerges
  <2>4. tmp'[f] = a
    BY <1>1
  <2> HIDE DEF m, t
  <2>5. /\ a \in TmpFile /\ ToSet(t.lines) \subseteq ToSet(a.lines)
        /\ ~ t.torn => a = [lines |-> t.lines \o m, torn |-> FALSE]
        /\ ~ t.torn => ToSet(m) \subseteq ToSet(a.lines)
        /\ t.torn /\ a.torn => ToSet(m) = {}
        /\ \E x : ToSet(m) \subseteq ToSet(a.lines) \cup {x}
    <3>1. a \in TmpFile /\ ToSet(t.lines) \subseteq ToSet(a.lines)
      BY <2>2, <2>3, AppendKeeps
    <3>4. ~ t.torn => a = [lines |-> t.lines \o m, torn |-> FALSE]
      BY DEF Appended
    <3>5. ~ t.torn => ToSet(m) \subseteq ToSet(a.lines)
      BY <2>2, <2>3, AppendKeeps
    <3>2. ~ FALSE /\ t.torn /\ a.torn => ToSet(m) = {}
      BY <2>2, <2>3, AppendKeeps
    <3>3. \E x : ToSet(m) \subseteq ToSet(a.lines) \cup {x}
      BY <2>2, <2>3, AppendKeeps, Zenon
    <3> QED BY <3>1, <3>2, <3>3, <3>4, <3>5
  <2> HIDE DEF a
  <2>6. a.torn \in BOOLEAN /\ t.torn \in BOOLEAN /\ (a.torn => t.torn)
    BY <2>2, <2>5 DEF TmpFile
  <2>7. \A h \in Files \ {f} : file'[h] = file[h] /\ tmp'[h] = tmp[h]
    BY <1>1, <2>1
  <2>8. \A q \in Procs \ {p} : pc'[q] = pc[q] /\ pos'[q] = pos[q]
    BY <1>1, <2>1
  <2>9. pos'[p] = pos[p]
    BY <2>1
  <2>10. /\ \A h \in Files \ {f} : FileDebt(h)'
         /\ \A q \in Procs \ {p} : pc'[q] \in {"unlink", "rename"} => OwnDebt(q)'
         /\ DeadAt(f) \subseteq DeadAt(f)' /\ DeadAt(f)' \subseteq Procs
         /\ Finished(f)' = Finished(f)
    BY <2>0, <2>7, <2>8, <2>9, OtherDebts
  <2>11. /\ Cardinality(DeadAt(f)') \in Nat
         /\ Cardinality(DeadAt(f)) <= Cardinality(DeadAt(f)')
    <3>1. IsFiniteSet(DeadAt(f)')
      BY <2>10, Smaller, WorkAssumption
    <3> QED BY <2>10, <3>1, Smaller
  <2>12. Torn(f)' = (IF a.torn THEN 1 ELSE 0) /\ Torn(f) = (IF t.torn THEN 1 ELSE 0)
    BY <2>4 DEF Torn, t
  <2>13. FileDebt(f)'
    <3>1. Missing(f)' \subseteq Missing(f)
      BY <2>1, <2>4, <2>5, <2>10 DEF Missing, t
    <3>2. Cardinality(Missing(f)') <= Cardinality(Missing(f)) /\ Cardinality(Missing(f)') \in Nat
      BY <1>3, <3>1, Smaller
    <3>3. Torn(f)' <= Torn(f) /\ Torn(f)' \in {0, 1}
      BY <2>6, <2>12
    <3> QED BY <1>3, <1>4, <2>11, <3>2, <3>3 DEF FileDebt
  <2>14. Current(p)' = f /\ Output(p)' = Output(p)
    BY <2>1 DEF Current, Output
  <2>15. OwnDebt(p)'
    <3>1. Owed(p)' = (Finished(f) \cup ToSet(Output(p))) \ ToSet(a.lines)
      BY <2>4, <2>10, <2>14, OwnDebtNext
    <3>2. PICK x : ToSet(m) \subseteq ToSet(a.lines) \cup {x}
      BY <2>5
    <3>3. ASSUME NEW y \in Owed(p)', y \notin Missing(f) PROVE y \in ToSet(m) /\ y \notin ToSet(a.lines)
      BY <2>3, <2>5, <3>1, <3>3 DEF Missing, t
    <3>4. CASE ~ t.torn \/ a.torn
      <4>1. ToSet(m) \subseteq ToSet(a.lines)
        BY <2>5, <2>6, <3>4
      <4>2. Owed(p)' \subseteq Missing(f)
        BY <3>3, <4>1
      <4>3. Cardinality(Owed(p)') <= Cardinality(Missing(f)) /\ Cardinality(Owed(p)') \in Nat
        BY <1>3, <4>2, Smaller
      <4>4. Torn(f)' <= Torn(f) /\ Torn(f)' \in {0, 1}
        BY <2>6, <2>12
      <4>5. Cardinality(Owed(p)') + Torn(f)' <= Cardinality(DeadAt(f)')
        BY <1>3, <1>4, <2>11, <4>3, <4>4
      <4> QED BY <2>14, <4>5, OwnDebtNext
    <3>5. CASE t.torn /\ ~ a.torn
      <4>1. Owed(p)' \subseteq Missing(f) \cup {x}
        BY <3>2, <3>3
      <4>2. /\ IsFiniteSet(Missing(f) \cup {x})
            /\ Cardinality(Missing(f) \cup {x}) <= Cardinality(Missing(f)) + 1
        <5>1. IsFiniteSet(Missing(f))
          BY <1>3
        <5>2. /\ IsFiniteSet(Missing(f) \cup {x})
              /\ Cardinality(Missing(f) \cup {x}) =
                    IF x \in Missing(f) THEN Cardinality(Missing(f)) ELSE Cardinality(Missing(f)) + 1
          BY <5>1, FS_AddElement
        <5> QED BY <1>3, <5>2
      <4>3. /\ Cardinality(Owed(p)') <= Cardinality(Missing(f) \cup {x})
            /\ Cardinality(Owed(p)') \in Nat /\ Cardinality(Missing(f) \cup {x}) \in Nat
        BY <4>1, <4>2, Smaller
      <4>4. Torn(f)' = 0 /\ Torn(f) = 1
        BY <2>12, <3>5
      <4>5. Cardinality(Owed(p)') + Torn(f)' <= Cardinality(DeadAt(f)')
        BY <1>3, <1>4, <2>11, <4>2, <4>3, <4>4
      <4> QED BY <2>14, <4>5, OwnDebtNext
    <3> QED BY <2>6, <3>4, <3>5
  <2> QED BY <2>10, <2>13, <2>15 DEF Debts
<1>7. ASSUME NEW p \in Procs, Unlink(p) PROVE Debts'
  <2>0. pc[p] = "unlink" /\ pc[p] \in Holding
    BY <1>7 DEF Unlink, Holding
  <2> PICK f \in Files : f = Current(p)
    BY <1>2, <2>0
  <2>1. /\ pc' = [pc EXCEPT ![p] = "rename"] /\ pos' = pos /\ tmp' = tmp
        /\ file' = [file EXCEPT ![f] = <<>>]
    BY <1>7 DEF Unlink
  <2>2. \A h \in Files \ {f} : file'[h] = file[h] /\ tmp'[h] = tmp[h]
    BY <1>1, <2>1
  <2>3. \A q \in Procs \ {p} : pc'[q] = pc[q] /\ pos'[q] = pos[q]
    BY <1>1, <2>1
  <2>4. pos'[p] = pos[p]
    BY <2>1
  <2>5. /\ \A h \in Files \ {f} : FileDebt(h)'
        /\ \A q \in Procs \ {p} : pc'[q] \in {"unlink", "rename"} => OwnDebt(q)'
        /\ DeadAt(f) \subseteq DeadAt(f)' /\ DeadAt(f)' \subseteq Procs
        /\ Finished(f)' = Finished(f)
    BY <2>0, <2>2, <2>3, <2>4, OtherDebts
  <2>6. /\ Cardinality(DeadAt(f)') \in Nat
        /\ Cardinality(DeadAt(f)) <= Cardinality(DeadAt(f)')
    <3>1. IsFiniteSet(DeadAt(f)')
      BY <2>5, Smaller, WorkAssumption
    <3> QED BY <2>5, <3>1, Smaller
  <2>7. Current(p)' = f /\ Output(p)' = Output(p) /\ Torn(f)' = Torn(f)
    BY <2>1 DEF Current, Output, Torn
  <2>8. Owed(p)' = Owed(p) /\ Missing(f)' \subseteq Owed(p)
    <3>1. Owed(p) = (Finished(f) \cup ToSet(Output(p))) \ ToSet(tmp[f].lines)
      BY DEF Owed
    <3>2. Owed(p)' = (Finished(f) \cup ToSet(Output(p))) \ ToSet(tmp[f].lines)
      BY <2>1, <2>5, <2>7, OwnDebtNext
    <3>3. Missing(f)' \subseteq Finished(f) \ ToSet(tmp[f].lines)
      BY <2>1, <2>5 DEF Missing
    <3> QED BY <3>1, <3>2, <3>3
  <2>9. IsFiniteSet(Owed(p)) /\ Cardinality(Owed(p)) \in Nat
    BY <1>2, <2>0, Counts
  <2>10. Cardinality(Missing(f)') <= Cardinality(Owed(p)) /\ Cardinality(Missing(f)') \in Nat
    BY <2>8, <2>9, Smaller
  <2>11. Cardinality(Owed(p)) + Torn(f) <= Cardinality(DeadAt(f))
    BY <2>0 DEF Debts, OwnDebt
  <2>12. FileDebt(f)'
    BY <1>3, <2>6, <2>7, <2>9, <2>10, <2>11 DEF FileDebt
  <2>13. OwnDebt(p)'
    <3>1. Cardinality(Owed(p)') + Torn(f)' <= Cardinality(DeadAt(f)')
      BY <1>3, <2>6, <2>7, <2>8, <2>9, <2>11
    <3> QED BY <2>7, <3>1, OwnDebtNext
  <2> QED BY <2>5, <2>12, <2>13 DEF Debts
<1>8. ASSUME NEW p \in Procs, Rename(p) PROVE Debts'
  <2>0. pc[p] = "rename" /\ pc[p] \in Holding
    BY <1>8 DEF Rename, Holding
  <2> PICK f \in Files : f = Current(p)
    BY <1>2, <2>0
  <2>1. /\ pc' = [pc EXCEPT ![p] = "next"] /\ pos' = [pos EXCEPT ![p] = @ + 1]
        /\ tmp' = [tmp EXCEPT ![f] = Empty]
        /\ \E g \in Garbage : file' = [file EXCEPT ![f] =
               tmp[f].lines \o (IF tmp[f].torn THEN <<g>> ELSE <<>>)]
    BY <1>8 DEF Rename
  <2>2. \A h \in Files \ {f} : file'[h] = file[h] /\ tmp'[h] = tmp[h]
    BY <1>1, <2>1
  <2>3. \A q \in Procs \ {p} : pc'[q] = pc[q] /\ pos'[q] = pos[q]
    BY <1>1, <2>1
  <2>4. pos'[p] = pos[p] + 1 /\ pc'[p] = "next"
    BY <1>1, <2>1
  <2>5. /\ \A h \in Files \ {f} : FileDebt(h)'
        /\ \A q \in Procs \ {p} : pc'[q] \in {"unlink", "rename"} => OwnDebt(q)'
        /\ DeadAt(f) \subseteq DeadAt(f)' /\ DeadAt(f)' \subseteq Procs
        /\ Finished(f)' \subseteq Finished(f) \cup ToSet(Output(p))
    BY <2>0, <2>2, <2>3, <2>4, OtherDebts
  <2>6. /\ Cardinality(DeadAt(f)') \in Nat
        /\ Cardinality(DeadAt(f)) <= Cardinality(DeadAt(f)')
    <3>1. IsFiniteSet(DeadAt(f)')
      BY <2>5, Smaller, WorkAssumption
    <3> QED BY <2>5, <3>1, Smaller
  <2>7. ToSet(tmp[f].lines) \subseteq ToSet(file'[f])
    <3>1. PICK g \in Garbage : file' = [file EXCEPT ![f] =
               tmp[f].lines \o (IF tmp[f].torn THEN <<g>> ELSE <<>>)]
      BY <2>1
    <3> DEFINE x == IF tmp[f].torn THEN <<g>> ELSE <<>>
    <3>2. x \in Seq(Nat)
      <4>1. g \in Nat
        BY WorkAssumption
      <4> QED BY <4>1
    <3>3. file'[f] = tmp[f].lines \o x
      BY <1>1, <3>1
    <3>4. tmp[f].lines \in Seq(Nat)
      BY <1>1 DEF TmpFile
    <3> HIDE DEF x
    <3> QED BY <3>2, <3>3, <3>4, Concatenation
  <2>8. Missing(f)' \subseteq Owed(p)
    BY <2>5, <2>7 DEF Missing, Owed
  <2>9. IsFiniteSet(Owed(p)) /\ Cardinality(Owed(p)) \in Nat
    BY <1>2, <2>0, Counts
  <2>10. Cardinality(Missing(f)') <= Cardinality(Owed(p)) /\ Cardinality(Missing(f)') \in Nat
    BY <2>8, <2>9, Smaller
  <2>11. Cardinality(Owed(p)) + Torn(f) <= Cardinality(DeadAt(f))
    BY <2>0 DEF Debts, OwnDebt
  <2>12. Torn(f)' = 0
    <3>1. tmp'[f] = Empty
      BY <1>1, <2>1
    <3> QED BY <3>1 DEF Torn, Empty
  <2>13. FileDebt(f)'
    BY <1>3, <2>6, <2>9, <2>10, <2>11, <2>12 DEF FileDebt
  <2> QED BY <2>4, <2>5, <2>13 DEF Debts
<1>9. ASSUME NEW p \in Procs, Die(p) PROVE Debts'
  <2>0. pc[p] \in Holding /\ pc[p] # "next" /\ pc[p] # "dead"
    BY <1>9 DEF Die, Holding
  <2> PICK f \in Files : f = Current(p)
    BY <1>2, <2>0
  <2>1. /\ pc' = [pc EXCEPT ![p] = "dead"] /\ pos' = pos /\ file' = file
        /\ (pc[p] = "merge" /\ PartlyWritten(p)) \/ tmp' = tmp
    BY <1>9 DEF Die
  <2>2. /\ \A h \in Files \ {f} : tmp'[h] = tmp[h]
        /\ ToSet(tmp[f].lines) \subseteq ToSet(tmp'[f].lines)
    <3>1. CASE pc[p] = "merge" /\ PartlyWritten(p)
      <4>1. PICK t \in TmpFile : /\ tmp' = [tmp EXCEPT ![f] = t]
                                 /\ ToSet(tmp[f].lines) \subseteq ToSet(t.lines)
        BY <3>1, WrittenTyped
      <4> QED BY <1>1, <4>1
    <3>2. CASE tmp' = tmp
      BY <3>2
    <3> QED BY <2>1, <3>1, <3>2
  <2>3. \A h \in Files \ {f} : file'[h] = file[h] /\ tmp'[h] = tmp[h]
    BY <2>1, <2>2
  <2>4. \A q \in Procs \ {p} : pc'[q] = pc[q] /\ pos'[q] = pos[q]
    BY <1>1, <2>1
  <2>5. pos'[p] = pos[p] /\ pc'[p] = "dead"
    BY <1>1, <2>1
  <2>6. /\ \A h \in Files \ {f} : FileDebt(h)'
        /\ \A q \in Procs \ {p} : pc'[q] \in {"unlink", "rename"} => OwnDebt(q)'
        /\ DeadAt(f) \subseteq DeadAt(f)' /\ DeadAt(f)' \subseteq Procs
        /\ Finished(f)' = Finished(f)
    BY <2>0, <2>3, <2>4, <2>5, OtherDebts
  <2>7. p \in DeadAt(f)' /\ p \notin DeadAt(f)
    <3>1. Current(p)' = f
      BY <2>1 DEF Current
    <3> QED BY <2>0, <2>5, <3>1 DEF DeadAt
  <2>8. /\ Cardinality(DeadAt(f)') \in Nat
        /\ Cardinality(DeadAt(f)) + 1 <= Cardinality(DeadAt(f)')
    <3>1. IsFiniteSet(DeadAt(f)')
      BY <2>6, Smaller, WorkAssumption
    <3>2. DeadAt(f) \cup {p} \subseteq DeadAt(f)'
      BY <2>6, <2>7
    <3>3. Cardinality(DeadAt(f) \cup {p}) = Cardinality(DeadAt(f)) + 1
      BY <1>3, <2>7, FS_AddElement
    <3>4. Cardinality(DeadAt(f) \cup {p}) <= Cardinality(DeadAt(f)') /\ Cardinality(DeadAt(f)') \in Nat
      BY <3>1, <3>2, Smaller
    <3> QED BY <3>3, <3>4
  <2>9. Missing(f)' \subseteq Missing(f)
    BY <2>1, <2>2, <2>6 DEF Missing
  <2>10. Cardinality(Missing(f)') <= Cardinality(Missing(f)) /\ Cardinality(Missing(f)') \in Nat
    BY <1>3, <2>9, Smaller
  <2>11. Torn(f)' \in {0, 1}
    BY DEF Torn
  <2>12. FileDebt(f)'
    BY <1>3, <1>4, <2>8, <2>10, <2>11 DEF FileDebt
  <2> QED BY <2>5, <2>6, <2>12 DEF Debts
<1>10. ASSUME AllOver PROVE Debts'
  <2>1. pc' = pc /\ pos' = pos /\ file' = file /\ tmp' = tmp
    BY <1>10 DEF AllOver, vars
  <2> QED BY <2>1, DebtsSame
<1>11. \A p \in Procs : ~ LoseTail(p)
  BY DEF LoseTail
<1> QED BY <1>5, <1>6, <1>7, <1>8, <1>9, <1>10, <1>11 DEF Next

LEMMA DebtsHold == Spec => []DebtsInv
<1>1. Init => DebtsInv
  BY LocksInit, DebtsInit DEF DebtsInv
<1>2. DebtsInv /\ [Next]_vars => DebtsInv'
  <2> SUFFICES ASSUME DebtsInv, [Next]_vars, "disk" \notin met' PROVE Debts'
    BY LocksStep DEF DebtsInv
  <2>1. Locks /\ Debts
    BY FaultsStay DEF DebtsInv
  <2>2. CASE Next
    BY <2>1, <2>2, DebtsStep
  <2>3. CASE UNCHANGED vars
    <3>1. pc' = pc /\ pos' = pos /\ file' = file /\ tmp' = tmp
      BY <2>3 DEF vars
    <3> QED BY <2>1, <3>1, DebtsSame
  <2> QED BY <2>2, <2>3
<1> QED BY <1>1, <1>2, PTL DEF Spec

LEMMA DebtsPaid == DebtsInv => OneLinePerDeath
<1> SUFFICES ASSUME DebtsInv, "disk" \notin met, NEW f \in Files
             PROVE  Cardinality(Missing(f)) <= Cardinality({p \in Procs : pc[p] = "dead"})
  BY DEF OneLinePerDeath
<1> DEFINE D == {p \in Procs : pc[p] = "dead"}
<1>1. Locks /\ Debts
  BY DEF DebtsInv
<1>2. IsFiniteSet(D)
  <2>1. D \subseteq Procs
    OBVIOUS
  <2> HIDE DEF D
  <2> QED BY <2>1, Smaller, WorkAssumption
<1>3. DeadAt(f) \subseteq D
  BY DEF DeadAt
<1> HIDE DEF D
<1>4. Cardinality(DeadAt(f)) <= Cardinality(D) /\ Cardinality(D) \in Nat
  BY <1>2, <1>3, Smaller
<1>5. Cardinality(Missing(f)) + Torn(f) <= Cardinality(DeadAt(f))
  BY <1>1 DEF Debts, FileDebt
<1>6. /\ Cardinality(Missing(f)) \in Nat /\ Torn(f) \in {0, 1} /\ Cardinality(DeadAt(f)) \in Nat
  BY <1>1, Counts
<1>7. Cardinality(Missing(f)) <= Cardinality(D)
  BY <1>4, <1>5, <1>6
<1> QED BY <1>7 DEF D

(* What parallel compilers leave of each file, for any number of compilers *)
(* and whatever befalls them: at most one works on a file at a time, an    *)
(* analysis file is strictly increasing as long as nothing fails, and as   *)
(* long as the disk does not fill up a file lacks at most one line for     *)
(* each compiler that died (MozsearchIndexer.cpp, HandleTranslationUnit;   *)
(* FileOperations.cpp, AutoLockFile).                                      *)
THEOREM FilesStayIntact == Spec => []FilesIntact
<1>1. CleanInv /\ DebtsInv => FilesIntact
  BY CleanSorted, DebtsPaid, TypesHold DEF FilesIntact, CleanInv
<1> QED BY <1>1, CleanHolds, DebtsHold, PTL
=============================================================================
