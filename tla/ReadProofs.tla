----------------------------- MODULE ReadProofs -----------------------------
(***************************************************************************)
(* Of CrossrefRead, for any files and any number of threads: the tables    *)
(* are what the files give one after the other.  The vector of a thread    *)
(* holds what a part of the list gives (Part); parts that follow each      *)
(* other make up a part (Joins); and a table that holds what a list of     *)
(* items says still does when the next items are added.  And when all      *)
(* records are linked, links can be followed from both ends.               *)
(***************************************************************************)
EXTENDS CrossrefRead, SequenceTheorems, WellFoundedInduction, TLAPS

NatLess == {ss \in Nat \X Nat : ss[1] < ss[2]}

LEMMA NatLessWF == IsWellFoundedOn(NatLess, Nat)
BY NatLessThanWellFounded DEF OpToRel, NatLess

LEMMA LeastElement ==
    ASSUME NEW T \in SUBSET Nat, T # {}
    PROVE  \E x \in T : \A y \in T : x <= y
<1>1. PICK x \in T : \A y \in T : ~ (<<y, x>> \in NatLess)
  BY NatLessWF, WFMin
<1>2. \A y \in T : ~ (y < x)
  BY <1>1 DEF NatLess
<1> QED BY <1>2

LEMMA GreatestElement ==
    ASSUME NEW n \in Nat, NEW T \in SUBSET (1 .. n), T # {}
    PROVE  \E x \in T : \A y \in T : y <= x
<1> DEFINE D == {n - y : y \in T}
<1>1. D \in SUBSET Nat /\ D # {}
  <2>1. \A y \in T : y \in 1 .. n /\ n - y \in Nat
    OBVIOUS
  <2> QED BY <2>1
<1>2. PICK d \in D : \A e \in D : d <= e
  BY <1>1, LeastElement
<1>3. PICK x \in T : d = n - x
  BY <1>2
<1>4. \A y \in T : n - x <= n - y
  BY <1>2, <1>3
<1> QED BY <1>4

LEMMA UpTo ==
    ASSUME NEW n \in Nat, NEW T \in SUBSET (0 .. n), 0 \in T,
           \A k \in T : k < n => k + 1 \in T
    PROVE  T = 0 .. n
<1> SUFFICES ASSUME (0 .. n) \ T # {} PROVE FALSE
  OBVIOUS
<1>1. (0 .. n) \ T \in SUBSET Nat
  OBVIOUS
<1>2. PICK x \in (0 .. n) \ T : \A y \in (0 .. n) \ T : x <= y
  BY <1>1, LeastElement
<1>3. x # 0 /\ x \in 0 .. n
  BY <1>2
<1>4. x - 1 \in 0 .. n /\ x - 1 \notin (0 .. n) \ T /\ (x - 1) + 1 = x /\ x - 1 < n
  BY <1>2, <1>3
<1> QED BY <1>2, <1>4
-----------------------------------------------------------------------------
(* Folds *)

\* The greatest member is the one Max chooses.
LEMMA MaxUpTo ==
    ASSUME NEW k \in Nat, k # 0
    PROVE  Max(1 .. k) = k
<1>1. k \in 1 .. k /\ \A y \in 1 .. k : k >= y
  OBVIOUS
<1>2. \A x \in 1 .. k : (\A y \in 1 .. k : x >= y) => x = k
  BY <1>1
<1> QED BY <1>1, <1>2 DEF Max

LEMMA LastOf ==
    ASSUME NEW m \in Nat, NEW s \in SUBSET (1 .. m + 1), ~(s \subseteq 1 .. m)
    PROVE  Max(s) = m + 1 /\ m + 1 \in s /\ s \ {m + 1} \subseteq 1 .. m
<1>1. m + 1 \in s /\ \A i \in s : i \in 1 .. m + 1
  OBVIOUS
<1>2. \A i \in s : m + 1 >= i
  BY <1>1
<1>3. \A z \in s : (\A i \in s : z >= i) => z = m + 1
  BY <1>1
<1>4. Max(s) = m + 1
  BY <1>1, <1>2, <1>3 DEF Max
<1>5. s \ {m + 1} \subseteq 1 .. m
  BY <1>1
<1> QED BY <1>1, <1>4, <1>5

LEMMA Segment ==
    ASSUME NEW n \in Nat, NEW k \in 1 .. n
    PROVE  /\ 1 .. k \in SUBSET (1 .. n) /\ 1 .. k # {} /\ Max(1 .. k) = k
           /\ (1 .. k) \ {k} = 1 .. k - 1 /\ k \in 0 .. n /\ k - 1 \in 0 .. n
<1>1. k \in 1 .. k /\ k \in Nat /\ k # 0 /\ k \in 0 .. n /\ k - 1 \in 0 .. n
  OBVIOUS
<1>2. \A i \in 1 .. k : i \in 1 .. n
  OBVIOUS
<1>3. (1 .. k) \ {k} = 1 .. k - 1
  OBVIOUS
<1> QED BY <1>1, <1>2, <1>3, MaxUpTo

-----------------------------------------------------------------------------
(* Lists *)

LEMMA ListLength ==
    ASSUME NEW s, IsList(s)
    PROVE  /\ Len(s) \in Nat /\ DOMAIN s = 1 .. Len(s) /\ s \in Seq(ToSet(s))
           /\ ToSet(s) = {s[i] : i \in 1 .. Len(s)}
<1>1. s \in Seq(ToSet(s))
  BY DEF IsList
<1>2. Len(s) \in Nat /\ DOMAIN s = 1 .. Len(s)
  BY <1>1, LenProperties
<1> QED BY <1>1, <1>2 DEF ToSet

\* A sequence over any set is a list.
LEMMA ListOf ==
    ASSUME NEW S, NEW s \in Seq(S)
    PROVE  IsList(s)
<1>1. Len(s) \in Nat /\ DOMAIN s = 1 .. Len(s) /\ s \in [1 .. Len(s) -> S]
  BY LenProperties
<1>2. s \in [1 .. Len(s) -> ToSet(s)]
  BY <1>1 DEF ToSet
<1> QED BY <1>1, <1>2 DEF IsList

\* A function on 1 .. n is a list.
LEMMA ListFrom ==
    ASSUME NEW n \in Nat, NEW s, DOMAIN s = 1 .. n, s = [i \in DOMAIN s |-> s[i]]
    PROVE  IsList(s) /\ Len(s) = n
<1>1. s \in [1 .. n -> ToSet(s)]
  BY DEF ToSet
<1>2. s \in Seq(ToSet(s))
  BY <1>1
<1> QED BY <1>1, <1>2, LenProperties DEF IsList

LEMMA EmptyList == IsList(<<>>) /\ Len(<<>>) = 0 /\ DOMAIN <<>> = {} /\ ToSet(<<>>) = {}
BY EmptySeq, LenProperties DEF IsList, ToSet

LEMMA SingleList == ASSUME NEW a PROVE IsList(<<a>>) /\ Len(<<a>>) = 1 /\ <<a>>[1] = a
<1>1. <<a>> \in Seq({a})
  OBVIOUS
<1> QED BY <1>1, ListOf

\* What is built element by element from a list is a list.
LEMMA BuiltList ==
    ASSUME NEW q, IsList(q), NEW s, DOMAIN s = DOMAIN q, s = [i \in DOMAIN s |-> s[i]]
    PROVE  IsList(s) /\ Len(s) = Len(q)
<1>1. Len(q) \in Nat /\ DOMAIN q = 1 .. Len(q)
  BY ListLength
<1> QED BY <1>1, ListFrom

\* Two lists are members of one set of sequences.
LEMMA InOne ==
    ASSUME NEW s, NEW t, IsList(s), IsList(t)
    PROVE  \E S : s \in Seq(S) /\ t \in Seq(S) /\ S = ToSet(s) \cup ToSet(t)
<1> DEFINE S == ToSet(s) \cup ToSet(t)
<1>1. s \in Seq(ToSet(s)) /\ t \in Seq(ToSet(t))
  BY DEF IsList
<1>2. s \in Seq(S) /\ t \in Seq(S)
  <2>1. Len(s) \in Nat /\ s \in [1 .. Len(s) -> ToSet(s)] /\ Len(t) \in Nat /\ t \in [1 .. Len(t) -> ToSet(t)]
    BY <1>1, LenProperties
  <2>2. s \in [1 .. Len(s) -> S] /\ t \in [1 .. Len(t) -> S]
    BY <2>1
  <2> HIDE DEF S
  <2> QED BY <2>1, <2>2
<1> QED BY <1>2

LEMMA JoinedList ==
    ASSUME NEW s, NEW t, IsList(s), IsList(t)
    PROVE  /\ IsList(s \o t) /\ Len(s \o t) = Len(s) + Len(t)
           /\ \A i \in 1 .. Len(s) : (s \o t)[i] = s[i]
           /\ \A i \in 1 .. Len(t) : (s \o t)[Len(s) + i] = t[i]
<1>1. PICK S : s \in Seq(S) /\ t \in Seq(S)
  BY InOne
<1>2. Len(s) \in Nat /\ Len(t) \in Nat
  BY ListLength
<1> DEFINE u == s \o t
<1>3. /\ u \in Seq(S) /\ Len(u) = Len(s) + Len(t)
      /\ \A i \in 1 .. Len(s) + Len(t) : u[i] = IF i <= Len(s) THEN s[i] ELSE t[i - Len(s)]
  BY <1>1, ConcatProperties
<1> HIDE DEF u
<1>4. IsList(u)
  BY <1>3, ListOf
<1>5. ASSUME NEW i \in 1 .. Len(s) PROVE u[i] = s[i]
  <2>1. i \in 1 .. Len(s) + Len(t) /\ i <= Len(s)
    BY <1>2
  <2> QED BY <1>3, <2>1
<1>6. ASSUME NEW i \in 1 .. Len(t) PROVE u[Len(s) + i] = t[i]
  <2>1. Len(s) + i \in 1 .. Len(s) + Len(t) /\ ~(Len(s) + i <= Len(s)) /\ (Len(s) + i) - Len(s) = i
    BY <1>2
  <2> QED BY <1>3, <2>1
<1> QED BY <1>3, <1>4, <1>5, <1>6 DEF u

\* Two lists are equal if they are element by element.
LEMMA SameList ==
    ASSUME NEW s, NEW t, IsList(s), IsList(t), Len(s) = Len(t), \A i \in 1 .. Len(s) : s[i] = t[i]
    PROVE  s = t
<1>1. PICK S : s \in Seq(S) /\ t \in Seq(S)
  BY InOne
<1>2. Len(s) \in Nat /\ s \in [1 .. Len(s) -> S] /\ t \in [1 .. Len(s) -> S]
  BY <1>1, LenProperties
<1> QED BY <1>2

LEMMA JoinedThree ==
    ASSUME NEW s, NEW t, NEW u, IsList(s), IsList(t), IsList(u)
    PROVE  (s \o t) \o u = s \o (t \o u)
<1> DEFINE l == (s \o t) \o u
           r == s \o (t \o u)
           a == Len(s)
           b == Len(t)
           c == Len(u)
<1>1. a \in Nat /\ b \in Nat /\ c \in Nat
  BY ListLength
<1>2. IsList(s \o t) /\ Len(s \o t) = a + b /\ IsList(t \o u) /\ Len(t \o u) = b + c
  BY JoinedList
<1>3. IsList(l) /\ IsList(r) /\ Len(l) = (a + b) + c /\ Len(r) = a + (b + c)
  BY <1>2, JoinedList
<1>4. ASSUME NEW i \in 1 .. (a + b) + c PROVE l[i] = r[i]
  <2>1. CASE i \in 1 .. a
    <3>1. i \in 1 .. a + b
      BY <1>1, <2>1
    <3>2. l[i] = (s \o t)[i] /\ (s \o t)[i] = s[i] /\ r[i] = s[i]
      BY <1>2, <2>1, <3>1, JoinedList
    <3> QED BY <3>2
  <2>2. CASE i \in a + 1 .. a + b
    <3> DEFINE j == i - a
    <3>1. j \in 1 .. b /\ i = a + j /\ i \in 1 .. a + b /\ j \in 1 .. b + c
      BY <1>1, <2>2
    <3> HIDE DEF j
    <3>2. l[i] = (s \o t)[i] /\ (s \o t)[a + j] = t[j]
      BY <1>2, <3>1, JoinedList
    <3>3. r[a + j] = (t \o u)[j] /\ (t \o u)[j] = t[j]
      BY <1>2, <3>1, JoinedList
    <3> QED BY <3>1, <3>2, <3>3
  <2>3. CASE i \in (a + b) + 1 .. (a + b) + c
    <3> DEFINE j == i - (a + b)
    <3>1. j \in 1 .. c /\ i = (a + b) + j /\ b + j \in 1 .. b + c /\ i = a + (b + j)
      BY <1>1, <2>3
    <3> HIDE DEF j
    <3>2. l[(a + b) + j] = u[j]
      BY <1>2, <3>1, JoinedList
    <3>3. r[a + (b + j)] = (t \o u)[b + j] /\ (t \o u)[b + j] = u[j]
      BY <1>2, <3>1, JoinedList
    <3> HIDE DEF l, r
    <3> QED BY <3>1, <3>2, <3>3
  <2> QED BY <1>1, <2>1, <2>2, <2>3
<1>5. (a + b) + c = a + (b + c)
  BY <1>1
<1> HIDE DEF l, r
<1>6. l = r
  BY <1>3, <1>4, <1>5, SameList
<1> QED BY <1>6 DEF l, r

LEMMA JoinedEmpty ==
    ASSUME NEW s, IsList(s)
    PROVE  s \o <<>> = s /\ <<>> \o s = s
BY DEF IsList

LEMMA AppendJoins == ASSUME NEW s, NEW x, IsList(s) PROVE Append(s, x) = s \o <<x>>
<1> DEFINE S == ToSet(s) \cup {x}
<1>1. s \in Seq(ToSet(s))
  BY DEF IsList
<1>2. Len(s) \in Nat /\ s \in [1 .. Len(s) -> ToSet(s)]
  BY <1>1, LenProperties
<1>3. s \in [1 .. Len(s) -> S] /\ x \in S
  BY <1>2
<1> HIDE DEF S
<1>4. s \in Seq(S)
  BY <1>2, <1>3
<1> QED BY <1>3, <1>4

\* A list and one more.
LEMMA OneMore ==
    ASSUME NEW s, NEW x, IsList(s)
    PROVE  LET t == s \o <<x>> IN
           /\ IsList(t) /\ Len(t) = Len(s) + 1 /\ Len(s) \in Nat
           /\ DOMAIN t = (DOMAIN s) \cup {Len(s) + 1} /\ DOMAIN s = 1 .. Len(s)
           /\ \A i \in DOMAIN s : t[i] = s[i]
           /\ t[Len(s) + 1] = x
           /\ ToSet(t) = ToSet(s) \cup {x}
<1> DEFINE t == s \o <<x>>
<1>1. Len(s) \in Nat /\ DOMAIN s = 1 .. Len(s)
  BY ListLength
<1>2. /\ IsList(t) /\ Len(t) = Len(s) + 1
      /\ \A i \in 1 .. Len(s) : t[i] = s[i]
      /\ \A i \in 1 .. 1 : t[Len(s) + i] = <<x>>[i]
  BY JoinedList, SingleList
<1> HIDE DEF t
<1>3. t[Len(s) + 1] = x
  BY <1>2, SingleList
<1>4. DOMAIN t = 1 .. Len(s) + 1
  BY <1>2, ListLength
<1>5. 1 .. Len(s) + 1 = (1 .. Len(s)) \cup {Len(s) + 1}
  BY <1>1
<1>6. ToSet(t) = {t[i] : i \in DOMAIN t} /\ ToSet(s) = {s[i] : i \in DOMAIN s}
  BY DEF ToSet
<1>7. ToSet(t) = ToSet(s) \cup {x}
  BY <1>1, <1>2, <1>3, <1>4, <1>5, <1>6
<1> QED BY <1>1, <1>2, <1>3, <1>4, <1>5, <1>7 DEF t

LEMMA JoinedSet ==
    ASSUME NEW s, NEW t, IsList(s), IsList(t)
    PROVE  ToSet(s \o t) = ToSet(s) \cup ToSet(t)
<1> DEFINE u == s \o t
           a == Len(s)
           b == Len(t)
<1>1. a \in Nat /\ b \in Nat /\ ToSet(s) = {s[i] : i \in 1 .. a} /\ ToSet(t) = {t[i] : i \in 1 .. b}
  BY ListLength
<1>2. /\ IsList(u) /\ Len(u) = a + b
      /\ \A i \in 1 .. a : u[i] = s[i]
      /\ \A i \in 1 .. b : u[a + i] = t[i]
  BY JoinedList
<1>3. ToSet(u) = {u[i] : i \in 1 .. a + b}
  BY <1>2, ListLength
<1> HIDE DEF u, a, b
<1>4. ASSUME NEW x \in ToSet(u) PROVE x \in ToSet(s) \cup ToSet(t)
  <2>1. PICK i \in 1 .. a + b : x = u[i]
    BY <1>3
  <2>2. CASE i \in 1 .. a
    BY <1>1, <1>2, <2>1, <2>2
  <2>3. CASE i \notin 1 .. a
    <3>1. i - a \in 1 .. b /\ a + (i - a) = i
      BY <1>1, <2>3
    <3>2. u[a + (i - a)] = t[i - a]
      BY <1>2, <3>1
    <3> QED BY <1>1, <2>1, <3>1, <3>2
  <2> QED BY <2>2, <2>3
<1>5. \A i \in 1 .. a : i \in 1 .. a + b
  BY <1>1
<1>6. \A i \in 1 .. b : a + i \in 1 .. a + b
  BY <1>1
<1>7. ToSet(s) \subseteq ToSet(u)
  BY <1>1, <1>2, <1>3, <1>5
<1>8. ToSet(t) \subseteq ToSet(u)
  BY <1>1, <1>2, <1>3, <1>6
<1> QED BY <1>4, <1>7, <1>8 DEF u

-----------------------------------------------------------------------------
(* Folds *)

\* AddHits adds one hit after the other.
LEMMA HitsFold ==
    ASSUME NEW base, NEW seq, IsList(seq)
    PROVE  \E f : /\ f[0] = base
                  /\ \A k \in 1 .. Len(seq) : f[k] = AddHit(f[k - 1], seq[k])
                  /\ AddHits(base, seq) = f[Len(seq)]
<1> DEFINE n == Len(seq)
           E(x, m) == [s \in SUBSET (1 .. m) |->
                         IF s = {} THEN base ELSE AddHit(x[s \ {Max(s)}], seq[Max(s)])]
           g == CHOOSE x : x = E(x, n)
           f == [k \in 0 .. n |-> g[1 .. k]]
           T == {m \in 0 .. n : \E x : x = E(x, m)}
<1>1. n \in Nat /\ DOMAIN seq = 1 .. n
  BY ListLength
<1>2. 0 \in T
  <2> DEFINE x == [s \in SUBSET (1 .. 0) |-> base]
  <2>1. 1 .. 0 = {} /\ 0 \in 0 .. n
    BY <1>1
  <2>2. x = E(x, 0)
    BY <2>1
  <2> HIDE DEF E, x
  <2> QED BY <2>1, <2>2
<1>3. ASSUME NEW m \in T, m < n PROVE m + 1 \in T
  <2>1. m \in Nat /\ m \in 0 .. n /\ m + 1 \in 0 .. n
    BY <1>1, <1>3
  <2>2. PICK x : x = E(x, m)
    BY <1>3
  <2> DEFINE y == [s \in SUBSET (1 .. m + 1) |->
                     IF s \subseteq 1 .. m THEN x[s] ELSE AddHit(x[s \ {m + 1}], seq[m + 1])]
             R(s) == IF s = {} THEN base ELSE AddHit(y[s \ {Max(s)}], seq[Max(s)])
             Q(s) == IF s = {} THEN base ELSE AddHit(x[s \ {Max(s)}], seq[Max(s)])
  <2>3. ASSUME NEW s \in SUBSET (1 .. m + 1) PROVE y[s] = R(s)
    <3>1. CASE s \subseteq 1 .. m
      <4>1. x[s] = Q(s)
        <5>1. E(x, m)[s] = Q(s)
          BY <3>1
        <5> HIDE DEF E, Q, y, R
        <5> QED BY <2>2, <5>1
      <4>2. y[s] = x[s] /\ y[s \ {Max(s)}] = x[s \ {Max(s)}]
        BY <3>1
      <4> HIDE DEF E, y
      <4> QED BY <4>1, <4>2
    <3>2. CASE ~(s \subseteq 1 .. m)
      <4>1. Max(s) = m + 1 /\ s # {} /\ s \ {m + 1} \in SUBSET (1 .. m)
        BY <2>1, <3>2, LastOf
      <4>2. y[s] = AddHit(x[s \ {m + 1}], seq[m + 1])
        BY <3>2
      <4>3. y[s \ {m + 1}] = x[s \ {m + 1}]
        BY <4>1
      <4> HIDE DEF E, y
      <4> QED BY <4>1, <4>2, <4>3
    <3> QED BY <3>1, <3>2
  <2>4. y = [s \in SUBSET (1 .. m + 1) |-> y[s]]
    OBVIOUS
  <2>5. y = [s \in SUBSET (1 .. m + 1) |-> R(s)]
    <3> HIDE DEF y, R, E
    <3> QED BY <2>3, <2>4
  <2>6. y = E(y, m + 1)
    BY <2>5
  <2> HIDE DEF E, y
  <2> QED BY <2>1, <2>6
<1>4. \E x : x = E(x, n)
  <2>1. T \in SUBSET (0 .. n) /\ n \in 0 .. n
    BY <1>1
  <2> HIDE DEF T, E, n
  <2>2. T = 0 .. n
    BY <1>1, <1>2, <1>3, <2>1, UpTo
  <2> QED BY <2>1, <2>2 DEF T
<1>5. g = E(g, n)
  <2> HIDE DEF E
  <2> QED BY <1>4
<1>6. AddHits(base, seq) = g[1 .. n]
  BY <1>1 DEF AddHits, FoldLeft, MapThenFoldSet
<1> HIDE DEF g
<1>7. \A s \in SUBSET (1 .. n) : g[s] = IF s = {} THEN base ELSE AddHit(g[s \ {Max(s)}], seq[Max(s)])
  BY <1>5
<1> HIDE DEF E, T, n
<1>8. f[0] = base
  <2>1. 1 .. 0 = {} /\ 0 \in 0 .. n
    BY <1>1
  <2> QED BY <1>7, <2>1
<1>9. ASSUME NEW k \in 1 .. n PROVE f[k] = AddHit(f[k - 1], seq[k])
  <2>1. /\ 1 .. k \in SUBSET (1 .. n) /\ 1 .. k # {} /\ Max(1 .. k) = k
        /\ (1 .. k) \ {k} = 1 .. k - 1 /\ k \in 0 .. n /\ k - 1 \in 0 .. n
    BY <1>1, Segment
  <2>2. f[k] = g[1 .. k] /\ f[k - 1] = g[1 .. k - 1]
    BY <2>1
  <2>3. g[1 .. k] = AddHit(g[(1 .. k) \ {Max(1 .. k)}], seq[Max(1 .. k)])
    BY <1>7, <2>1
  <2> HIDE DEF f
  <2> QED BY <2>1, <2>2, <2>3
<1>10. f[n] = g[1 .. n]
  BY <1>1
<1> HIDE DEF f
<1> QED BY <1>6, <1>8, <1>9, <1>10 DEF n

\* AddNames adds one name after the other.
LEMMA NamesFold ==
    ASSUME NEW base, NEW seq, IsList(seq)
    PROVE  \E f : /\ f[0] = base
                  /\ \A k \in 1 .. Len(seq) : f[k] = AddName(f[k - 1], seq[k])
                  /\ AddNames(base, seq) = f[Len(seq)]
<1> DEFINE n == Len(seq)
           E(x, m) == [s \in SUBSET (1 .. m) |->
                         IF s = {} THEN base ELSE AddName(x[s \ {Max(s)}], seq[Max(s)])]
           g == CHOOSE x : x = E(x, n)
           f == [k \in 0 .. n |-> g[1 .. k]]
           T == {m \in 0 .. n : \E x : x = E(x, m)}
<1>1. n \in Nat /\ DOMAIN seq = 1 .. n
  BY ListLength
<1>2. 0 \in T
  <2> DEFINE x == [s \in SUBSET (1 .. 0) |-> base]
  <2>1. 1 .. 0 = {} /\ 0 \in 0 .. n
    BY <1>1
  <2>2. x = E(x, 0)
    BY <2>1
  <2> HIDE DEF E, x
  <2> QED BY <2>1, <2>2
<1>3. ASSUME NEW m \in T, m < n PROVE m + 1 \in T
  <2>1. m \in Nat /\ m \in 0 .. n /\ m + 1 \in 0 .. n
    BY <1>1, <1>3
  <2>2. PICK x : x = E(x, m)
    BY <1>3
  <2> DEFINE y == [s \in SUBSET (1 .. m + 1) |->
                     IF s \subseteq 1 .. m THEN x[s] ELSE AddName(x[s \ {m + 1}], seq[m + 1])]
             R(s) == IF s = {} THEN base ELSE AddName(y[s \ {Max(s)}], seq[Max(s)])
             Q(s) == IF s = {} THEN base ELSE AddName(x[s \ {Max(s)}], seq[Max(s)])
  <2>3. ASSUME NEW s \in SUBSET (1 .. m + 1) PROVE y[s] = R(s)
    <3>1. CASE s \subseteq 1 .. m
      <4>1. x[s] = Q(s)
        <5>1. E(x, m)[s] = Q(s)
          BY <3>1
        <5> HIDE DEF E, Q, y, R
        <5> QED BY <2>2, <5>1
      <4>2. y[s] = x[s] /\ y[s \ {Max(s)}] = x[s \ {Max(s)}]
        BY <3>1
      <4> HIDE DEF E, y
      <4> QED BY <4>1, <4>2
    <3>2. CASE ~(s \subseteq 1 .. m)
      <4>1. Max(s) = m + 1 /\ s # {} /\ s \ {m + 1} \in SUBSET (1 .. m)
        BY <2>1, <3>2, LastOf
      <4>2. y[s] = AddName(x[s \ {m + 1}], seq[m + 1])
        BY <3>2
      <4>3. y[s \ {m + 1}] = x[s \ {m + 1}]
        BY <4>1
      <4> HIDE DEF E, y
      <4> QED BY <4>1, <4>2, <4>3
    <3> QED BY <3>1, <3>2
  <2>4. y = [s \in SUBSET (1 .. m + 1) |-> y[s]]
    OBVIOUS
  <2>5. y = [s \in SUBSET (1 .. m + 1) |-> R(s)]
    <3> HIDE DEF y, R, E
    <3> QED BY <2>3, <2>4
  <2>6. y = E(y, m + 1)
    BY <2>5
  <2> HIDE DEF E, y
  <2> QED BY <2>1, <2>6
<1>4. \E x : x = E(x, n)
  <2>1. T \in SUBSET (0 .. n) /\ n \in 0 .. n
    BY <1>1
  <2> HIDE DEF T, E, n
  <2>2. T = 0 .. n
    BY <1>1, <1>2, <1>3, <2>1, UpTo
  <2> QED BY <2>1, <2>2 DEF T
<1>5. g = E(g, n)
  <2> HIDE DEF E
  <2> QED BY <1>4
<1>6. AddNames(base, seq) = g[1 .. n]
  BY <1>1 DEF AddNames, FoldLeft, MapThenFoldSet
<1> HIDE DEF g
<1>7. \A s \in SUBSET (1 .. n) : g[s] = IF s = {} THEN base ELSE AddName(g[s \ {Max(s)}], seq[Max(s)])
  BY <1>5
<1> HIDE DEF E, T, n
<1>8. f[0] = base
  <2>1. 1 .. 0 = {} /\ 0 \in 0 .. n
    BY <1>1
  <2> QED BY <1>7, <2>1
<1>9. ASSUME NEW k \in 1 .. n PROVE f[k] = AddName(f[k - 1], seq[k])
  <2>1. /\ 1 .. k \in SUBSET (1 .. n) /\ 1 .. k # {} /\ Max(1 .. k) = k
        /\ (1 .. k) \ {k} = 1 .. k - 1 /\ k \in 0 .. n /\ k - 1 \in 0 .. n
    BY <1>1, Segment
  <2>2. f[k] = g[1 .. k] /\ f[k - 1] = g[1 .. k - 1]
    BY <2>1
  <2>3. g[1 .. k] = AddName(g[(1 .. k) \ {Max(1 .. k)}], seq[Max(1 .. k)])
    BY <1>7, <2>1
  <2> HIDE DEF f
  <2> QED BY <2>1, <2>2, <2>3
<1>10. f[n] = g[1 .. n]
  BY <1>1
<1> HIDE DEF f
<1> QED BY <1>6, <1>8, <1>9, <1>10 DEF n

\* AddCallees adds one call after the other.
LEMMA CalleesFold ==
    ASSUME NEW base, NEW seq, IsList(seq)
    PROVE  \E f : /\ f[0] = base
                  /\ \A k \in 1 .. Len(seq) : f[k] = AddCallee(f[k - 1], seq[k])
                  /\ AddCallees(base, seq) = f[Len(seq)]
<1> DEFINE n == Len(seq)
           E(x, m) == [s \in SUBSET (1 .. m) |->
                         IF s = {} THEN base ELSE AddCallee(x[s \ {Max(s)}], seq[Max(s)])]
           g == CHOOSE x : x = E(x, n)
           f == [k \in 0 .. n |-> g[1 .. k]]
           T == {m \in 0 .. n : \E x : x = E(x, m)}
<1>1. n \in Nat /\ DOMAIN seq = 1 .. n
  BY ListLength
<1>2. 0 \in T
  <2> DEFINE x == [s \in SUBSET (1 .. 0) |-> base]
  <2>1. 1 .. 0 = {} /\ 0 \in 0 .. n
    BY <1>1
  <2>2. x = E(x, 0)
    BY <2>1
  <2> HIDE DEF E, x
  <2> QED BY <2>1, <2>2
<1>3. ASSUME NEW m \in T, m < n PROVE m + 1 \in T
  <2>1. m \in Nat /\ m \in 0 .. n /\ m + 1 \in 0 .. n
    BY <1>1, <1>3
  <2>2. PICK x : x = E(x, m)
    BY <1>3
  <2> DEFINE y == [s \in SUBSET (1 .. m + 1) |->
                     IF s \subseteq 1 .. m THEN x[s] ELSE AddCallee(x[s \ {m + 1}], seq[m + 1])]
             R(s) == IF s = {} THEN base ELSE AddCallee(y[s \ {Max(s)}], seq[Max(s)])
             Q(s) == IF s = {} THEN base ELSE AddCallee(x[s \ {Max(s)}], seq[Max(s)])
  <2>3. ASSUME NEW s \in SUBSET (1 .. m + 1) PROVE y[s] = R(s)
    <3>1. CASE s \subseteq 1 .. m
      <4>1. x[s] = Q(s)
        <5>1. E(x, m)[s] = Q(s)
          BY <3>1
        <5> HIDE DEF E, Q, y, R
        <5> QED BY <2>2, <5>1
      <4>2. y[s] = x[s] /\ y[s \ {Max(s)}] = x[s \ {Max(s)}]
        BY <3>1
      <4> HIDE DEF E, y
      <4> QED BY <4>1, <4>2
    <3>2. CASE ~(s \subseteq 1 .. m)
      <4>1. Max(s) = m + 1 /\ s # {} /\ s \ {m + 1} \in SUBSET (1 .. m)
        BY <2>1, <3>2, LastOf
      <4>2. y[s] = AddCallee(x[s \ {m + 1}], seq[m + 1])
        BY <3>2
      <4>3. y[s \ {m + 1}] = x[s \ {m + 1}]
        BY <4>1
      <4> HIDE DEF E, y
      <4> QED BY <4>1, <4>2, <4>3
    <3> QED BY <3>1, <3>2
  <2>4. y = [s \in SUBSET (1 .. m + 1) |-> y[s]]
    OBVIOUS
  <2>5. y = [s \in SUBSET (1 .. m + 1) |-> R(s)]
    <3> HIDE DEF y, R, E
    <3> QED BY <2>3, <2>4
  <2>6. y = E(y, m + 1)
    BY <2>5
  <2> HIDE DEF E, y
  <2> QED BY <2>1, <2>6
<1>4. \E x : x = E(x, n)
  <2>1. T \in SUBSET (0 .. n) /\ n \in 0 .. n
    BY <1>1
  <2> HIDE DEF T, E, n
  <2>2. T = 0 .. n
    BY <1>1, <1>2, <1>3, <2>1, UpTo
  <2> QED BY <2>1, <2>2 DEF T
<1>5. g = E(g, n)
  <2> HIDE DEF E
  <2> QED BY <1>4
<1>6. AddCallees(base, seq) = g[1 .. n]
  BY <1>1 DEF AddCallees, FoldLeft, MapThenFoldSet
<1> HIDE DEF g
<1>7. \A s \in SUBSET (1 .. n) : g[s] = IF s = {} THEN base ELSE AddCallee(g[s \ {Max(s)}], seq[Max(s)])
  BY <1>5
<1> HIDE DEF E, T, n
<1>8. f[0] = base
  <2>1. 1 .. 0 = {} /\ 0 \in 0 .. n
    BY <1>1
  <2> QED BY <1>7, <2>1
<1>9. ASSUME NEW k \in 1 .. n PROVE f[k] = AddCallee(f[k - 1], seq[k])
  <2>1. /\ 1 .. k \in SUBSET (1 .. n) /\ 1 .. k # {} /\ Max(1 .. k) = k
        /\ (1 .. k) \ {k} = 1 .. k - 1 /\ k \in 0 .. n /\ k - 1 \in 0 .. n
    BY <1>1, Segment
  <2>2. f[k] = g[1 .. k] /\ f[k - 1] = g[1 .. k - 1]
    BY <2>1
  <2>3. g[1 .. k] = AddCallee(g[(1 .. k) \ {Max(1 .. k)}], seq[Max(1 .. k)])
    BY <1>7, <2>1
  <2> HIDE DEF f
  <2> QED BY <2>1, <2>2, <2>3
<1>10. f[n] = g[1 .. n]
  BY <1>1
<1> HIDE DEF f
<1> QED BY <1>6, <1>8, <1>9, <1>10 DEF n

\* MergeMeta adds one record after the other.
LEMMA MetaFold ==
    ASSUME NEW base, NEW seq, IsList(seq)
    PROVE  \E f : /\ f[0] = base
                  /\ \A k \in 1 .. Len(seq) : f[k] = AddRecord(f[k - 1], seq[k])
                  /\ MergeMeta(base, seq) = f[Len(seq)]
<1> DEFINE n == Len(seq)
           E(x, m) == [s \in SUBSET (1 .. m) |->
                         IF s = {} THEN base ELSE AddRecord(x[s \ {Max(s)}], seq[Max(s)])]
           g == CHOOSE x : x = E(x, n)
           f == [k \in 0 .. n |-> g[1 .. k]]
           T == {m \in 0 .. n : \E x : x = E(x, m)}
<1>1. n \in Nat /\ DOMAIN seq = 1 .. n
  BY ListLength
<1>2. 0 \in T
  <2> DEFINE x == [s \in SUBSET (1 .. 0) |-> base]
  <2>1. 1 .. 0 = {} /\ 0 \in 0 .. n
    BY <1>1
  <2>2. x = E(x, 0)
    BY <2>1
  <2> HIDE DEF E, x
  <2> QED BY <2>1, <2>2
<1>3. ASSUME NEW m \in T, m < n PROVE m + 1 \in T
  <2>1. m \in Nat /\ m \in 0 .. n /\ m + 1 \in 0 .. n
    BY <1>1, <1>3
  <2>2. PICK x : x = E(x, m)
    BY <1>3
  <2> DEFINE y == [s \in SUBSET (1 .. m + 1) |->
                     IF s \subseteq 1 .. m THEN x[s] ELSE AddRecord(x[s \ {m + 1}], seq[m + 1])]
             R(s) == IF s = {} THEN base ELSE AddRecord(y[s \ {Max(s)}], seq[Max(s)])
             Q(s) == IF s = {} THEN base ELSE AddRecord(x[s \ {Max(s)}], seq[Max(s)])
  <2>3. ASSUME NEW s \in SUBSET (1 .. m + 1) PROVE y[s] = R(s)
    <3>1. CASE s \subseteq 1 .. m
      <4>1. x[s] = Q(s)
        <5>1. E(x, m)[s] = Q(s)
          BY <3>1
        <5> HIDE DEF E, Q, y, R
        <5> QED BY <2>2, <5>1
      <4>2. y[s] = x[s] /\ y[s \ {Max(s)}] = x[s \ {Max(s)}]
        BY <3>1
      <4> HIDE DEF E, y
      <4> QED BY <4>1, <4>2
    <3>2. CASE ~(s \subseteq 1 .. m)
      <4>1. Max(s) = m + 1 /\ s # {} /\ s \ {m + 1} \in SUBSET (1 .. m)
        BY <2>1, <3>2, LastOf
      <4>2. y[s] = AddRecord(x[s \ {m + 1}], seq[m + 1])
        BY <3>2
      <4>3. y[s \ {m + 1}] = x[s \ {m + 1}]
        BY <4>1
      <4> HIDE DEF E, y
      <4> QED BY <4>1, <4>2, <4>3
    <3> QED BY <3>1, <3>2
  <2>4. y = [s \in SUBSET (1 .. m + 1) |-> y[s]]
    OBVIOUS
  <2>5. y = [s \in SUBSET (1 .. m + 1) |-> R(s)]
    <3> HIDE DEF y, R, E
    <3> QED BY <2>3, <2>4
  <2>6. y = E(y, m + 1)
    BY <2>5
  <2> HIDE DEF E, y
  <2> QED BY <2>1, <2>6
<1>4. \E x : x = E(x, n)
  <2>1. T \in SUBSET (0 .. n) /\ n \in 0 .. n
    BY <1>1
  <2> HIDE DEF T, E, n
  <2>2. T = 0 .. n
    BY <1>1, <1>2, <1>3, <2>1, UpTo
  <2> QED BY <2>1, <2>2 DEF T
<1>5. g = E(g, n)
  <2> HIDE DEF E
  <2> QED BY <1>4
<1>6. MergeMeta(base, seq) = g[1 .. n]
  BY <1>1 DEF MergeMeta, FoldLeft, MapThenFoldSet
<1> HIDE DEF g
<1>7. \A s \in SUBSET (1 .. n) : g[s] = IF s = {} THEN base ELSE AddRecord(g[s \ {Max(s)}], seq[Max(s)])
  BY <1>5
<1> HIDE DEF E, T, n
<1>8. f[0] = base
  <2>1. 1 .. 0 = {} /\ 0 \in 0 .. n
    BY <1>1
  <2> QED BY <1>7, <2>1
<1>9. ASSUME NEW k \in 1 .. n PROVE f[k] = AddRecord(f[k - 1], seq[k])
  <2>1. /\ 1 .. k \in SUBSET (1 .. n) /\ 1 .. k # {} /\ Max(1 .. k) = k
        /\ (1 .. k) \ {k} = 1 .. k - 1 /\ k \in 0 .. n /\ k - 1 \in 0 .. n
    BY <1>1, Segment
  <2>2. f[k] = g[1 .. k] /\ f[k - 1] = g[1 .. k - 1]
    BY <2>1
  <2>3. g[1 .. k] = AddRecord(g[(1 .. k) \ {Max(1 .. k)}], seq[Max(1 .. k)])
    BY <1>7, <2>1
  <2> HIDE DEF f
  <2> QED BY <2>1, <2>2, <2>3
<1>10. f[n] = g[1 .. n]
  BY <1>1
<1> HIDE DEF f
<1> QED BY <1>6, <1>8, <1>9, <1>10 DEF n

\* LinkSubclasses links one pair after the other.
LEMMA SubclassFold ==
    ASSUME NEW base, NEW seq, IsList(seq)
    PROVE  \E f : /\ f[0] = base
                  /\ \A k \in 1 .. Len(seq) : f[k] = AddSubclass(f[k - 1], seq[k])
                  /\ LinkSubclasses(base, seq) = f[Len(seq)]
<1> DEFINE n == Len(seq)
           E(x, m) == [s \in SUBSET (1 .. m) |->
                         IF s = {} THEN base ELSE AddSubclass(x[s \ {Max(s)}], seq[Max(s)])]
           g == CHOOSE x : x = E(x, n)
           f == [k \in 0 .. n |-> g[1 .. k]]
           T == {m \in 0 .. n : \E x : x = E(x, m)}
<1>1. n \in Nat /\ DOMAIN seq = 1 .. n
  BY ListLength
<1>2. 0 \in T
  <2> DEFINE x == [s \in SUBSET (1 .. 0) |-> base]
  <2>1. 1 .. 0 = {} /\ 0 \in 0 .. n
    BY <1>1
  <2>2. x = E(x, 0)
    BY <2>1
  <2> HIDE DEF E, x
  <2> QED BY <2>1, <2>2
<1>3. ASSUME NEW m \in T, m < n PROVE m + 1 \in T
  <2>1. m \in Nat /\ m \in 0 .. n /\ m + 1 \in 0 .. n
    BY <1>1, <1>3
  <2>2. PICK x : x = E(x, m)
    BY <1>3
  <2> DEFINE y == [s \in SUBSET (1 .. m + 1) |->
                     IF s \subseteq 1 .. m THEN x[s] ELSE AddSubclass(x[s \ {m + 1}], seq[m + 1])]
             R(s) == IF s = {} THEN base ELSE AddSubclass(y[s \ {Max(s)}], seq[Max(s)])
             Q(s) == IF s = {} THEN base ELSE AddSubclass(x[s \ {Max(s)}], seq[Max(s)])
  <2>3. ASSUME NEW s \in SUBSET (1 .. m + 1) PROVE y[s] = R(s)
    <3>1. CASE s \subseteq 1 .. m
      <4>1. x[s] = Q(s)
        <5>1. E(x, m)[s] = Q(s)
          BY <3>1
        <5> HIDE DEF E, Q, y, R
        <5> QED BY <2>2, <5>1
      <4>2. y[s] = x[s] /\ y[s \ {Max(s)}] = x[s \ {Max(s)}]
        BY <3>1
      <4> HIDE DEF E, y
      <4> QED BY <4>1, <4>2
    <3>2. CASE ~(s \subseteq 1 .. m)
      <4>1. Max(s) = m + 1 /\ s # {} /\ s \ {m + 1} \in SUBSET (1 .. m)
        BY <2>1, <3>2, LastOf
      <4>2. y[s] = AddSubclass(x[s \ {m + 1}], seq[m + 1])
        BY <3>2
      <4>3. y[s \ {m + 1}] = x[s \ {m + 1}]
        BY <4>1
      <4> HIDE DEF E, y
      <4> QED BY <4>1, <4>2, <4>3
    <3> QED BY <3>1, <3>2
  <2>4. y = [s \in SUBSET (1 .. m + 1) |-> y[s]]
    OBVIOUS
  <2>5. y = [s \in SUBSET (1 .. m + 1) |-> R(s)]
    <3> HIDE DEF y, R, E
    <3> QED BY <2>3, <2>4
  <2>6. y = E(y, m + 1)
    BY <2>5
  <2> HIDE DEF E, y
  <2> QED BY <2>1, <2>6
<1>4. \E x : x = E(x, n)
  <2>1. T \in SUBSET (0 .. n) /\ n \in 0 .. n
    BY <1>1
  <2> HIDE DEF T, E, n
  <2>2. T = 0 .. n
    BY <1>1, <1>2, <1>3, <2>1, UpTo
  <2> QED BY <2>1, <2>2 DEF T
<1>5. g = E(g, n)
  <2> HIDE DEF E
  <2> QED BY <1>4
<1>6. LinkSubclasses(base, seq) = g[1 .. n]
  BY <1>1 DEF LinkSubclasses, FoldLeft, MapThenFoldSet
<1> HIDE DEF g
<1>7. \A s \in SUBSET (1 .. n) : g[s] = IF s = {} THEN base ELSE AddSubclass(g[s \ {Max(s)}], seq[Max(s)])
  BY <1>5
<1> HIDE DEF E, T, n
<1>8. f[0] = base
  <2>1. 1 .. 0 = {} /\ 0 \in 0 .. n
    BY <1>1
  <2> QED BY <1>7, <2>1
<1>9. ASSUME NEW k \in 1 .. n PROVE f[k] = AddSubclass(f[k - 1], seq[k])
  <2>1. /\ 1 .. k \in SUBSET (1 .. n) /\ 1 .. k # {} /\ Max(1 .. k) = k
        /\ (1 .. k) \ {k} = 1 .. k - 1 /\ k \in 0 .. n /\ k - 1 \in 0 .. n
    BY <1>1, Segment
  <2>2. f[k] = g[1 .. k] /\ f[k - 1] = g[1 .. k - 1]
    BY <2>1
  <2>3. g[1 .. k] = AddSubclass(g[(1 .. k) \ {Max(1 .. k)}], seq[Max(1 .. k)])
    BY <1>7, <2>1
  <2> HIDE DEF f
  <2> QED BY <2>1, <2>2, <2>3
<1>10. f[n] = g[1 .. n]
  BY <1>1
<1> HIDE DEF f
<1> QED BY <1>6, <1>8, <1>9, <1>10 DEF n

\* LinkOverrides links one pair after the other.
LEMMA OverrideFold ==
    ASSUME NEW base, NEW seq, IsList(seq)
    PROVE  \E f : /\ f[0] = base
                  /\ \A k \in 1 .. Len(seq) : f[k] = AddOverride(f[k - 1], seq[k])
                  /\ LinkOverrides(base, seq) = f[Len(seq)]
<1> DEFINE n == Len(seq)
           E(x, m) == [s \in SUBSET (1 .. m) |->
                         IF s = {} THEN base ELSE AddOverride(x[s \ {Max(s)}], seq[Max(s)])]
           g == CHOOSE x : x = E(x, n)
           f == [k \in 0 .. n |-> g[1 .. k]]
           T == {m \in 0 .. n : \E x : x = E(x, m)}
<1>1. n \in Nat /\ DOMAIN seq = 1 .. n
  BY ListLength
<1>2. 0 \in T
  <2> DEFINE x == [s \in SUBSET (1 .. 0) |-> base]
  <2>1. 1 .. 0 = {} /\ 0 \in 0 .. n
    BY <1>1
  <2>2. x = E(x, 0)
    BY <2>1
  <2> HIDE DEF E, x
  <2> QED BY <2>1, <2>2
<1>3. ASSUME NEW m \in T, m < n PROVE m + 1 \in T
  <2>1. m \in Nat /\ m \in 0 .. n /\ m + 1 \in 0 .. n
    BY <1>1, <1>3
  <2>2. PICK x : x = E(x, m)
    BY <1>3
  <2> DEFINE y == [s \in SUBSET (1 .. m + 1) |->
                     IF s \subseteq 1 .. m THEN x[s] ELSE AddOverride(x[s \ {m + 1}], seq[m + 1])]
             R(s) == IF s = {} THEN base ELSE AddOverride(y[s \ {Max(s)}], seq[Max(s)])
             Q(s) == IF s = {} THEN base ELSE AddOverride(x[s \ {Max(s)}], seq[Max(s)])
  <2>3. ASSUME NEW s \in SUBSET (1 .. m + 1) PROVE y[s] = R(s)
    <3>1. CASE s \subseteq 1 .. m
      <4>1. x[s] = Q(s)
        <5>1. E(x, m)[s] = Q(s)
          BY <3>1
        <5> HIDE DEF E, Q, y, R
        <5> QED BY <2>2, <5>1
      <4>2. y[s] = x[s] /\ y[s \ {Max(s)}] = x[s \ {Max(s)}]
        BY <3>1
      <4> HIDE DEF E, y
      <4> QED BY <4>1, <4>2
    <3>2. CASE ~(s \subseteq 1 .. m)
      <4>1. Max(s) = m + 1 /\ s # {} /\ s \ {m + 1} \in SUBSET (1 .. m)
        BY <2>1, <3>2, LastOf
      <4>2. y[s] = AddOverride(x[s \ {m + 1}], seq[m + 1])
        BY <3>2
      <4>3. y[s \ {m + 1}] = x[s \ {m + 1}]
        BY <4>1
      <4> HIDE DEF E, y
      <4> QED BY <4>1, <4>2, <4>3
    <3> QED BY <3>1, <3>2
  <2>4. y = [s \in SUBSET (1 .. m + 1) |-> y[s]]
    OBVIOUS
  <2>5. y = [s \in SUBSET (1 .. m + 1) |-> R(s)]
    <3> HIDE DEF y, R, E
    <3> QED BY <2>3, <2>4
  <2>6. y = E(y, m + 1)
    BY <2>5
  <2> HIDE DEF E, y
  <2> QED BY <2>1, <2>6
<1>4. \E x : x = E(x, n)
  <2>1. T \in SUBSET (0 .. n) /\ n \in 0 .. n
    BY <1>1
  <2> HIDE DEF T, E, n
  <2>2. T = 0 .. n
    BY <1>1, <1>2, <1>3, <2>1, UpTo
  <2> QED BY <2>1, <2>2 DEF T
<1>5. g = E(g, n)
  <2> HIDE DEF E
  <2> QED BY <1>4
<1>6. LinkOverrides(base, seq) = g[1 .. n]
  BY <1>1 DEF LinkOverrides, FoldLeft, MapThenFoldSet
<1> HIDE DEF g
<1>7. \A s \in SUBSET (1 .. n) : g[s] = IF s = {} THEN base ELSE AddOverride(g[s \ {Max(s)}], seq[Max(s)])
  BY <1>5
<1> HIDE DEF E, T, n
<1>8. f[0] = base
  <2>1. 1 .. 0 = {} /\ 0 \in 0 .. n
    BY <1>1
  <2> QED BY <1>7, <2>1
<1>9. ASSUME NEW k \in 1 .. n PROVE f[k] = AddOverride(f[k - 1], seq[k])
  <2>1. /\ 1 .. k \in SUBSET (1 .. n) /\ 1 .. k # {} /\ Max(1 .. k) = k
        /\ (1 .. k) \ {k} = 1 .. k - 1 /\ k \in 0 .. n /\ k - 1 \in 0 .. n
    BY <1>1, Segment
  <2>2. f[k] = g[1 .. k] /\ f[k - 1] = g[1 .. k - 1]
    BY <2>1
  <2>3. g[1 .. k] = AddOverride(g[(1 .. k) \ {Max(1 .. k)}], seq[Max(1 .. k)])
    BY <1>7, <2>1
  <2> HIDE DEF f
  <2> QED BY <2>1, <2>2, <2>3
<1>10. f[n] = g[1 .. n]
  BY <1>1
<1> HIDE DEF f
<1> QED BY <1>6, <1>8, <1>9, <1>10 DEF n

\* LinkAll links one slot after the other.
LEMMA LinkFold ==
    ASSUME NEW base, NEW seq, IsList(seq)
    PROVE  \E f : /\ f[0] = base
                  /\ \A k \in 1 .. Len(seq) : f[k] = LinkSlot(f[k - 1], seq[k])
                  /\ LinkAll(base, seq) = f[Len(seq)]
<1> DEFINE n == Len(seq)
           E(x, m) == [s \in SUBSET (1 .. m) |->
                         IF s = {} THEN base ELSE LinkSlot(x[s \ {Max(s)}], seq[Max(s)])]
           g == CHOOSE x : x = E(x, n)
           f == [k \in 0 .. n |-> g[1 .. k]]
           T == {m \in 0 .. n : \E x : x = E(x, m)}
<1>1. n \in Nat /\ DOMAIN seq = 1 .. n
  BY ListLength
<1>2. 0 \in T
  <2> DEFINE x == [s \in SUBSET (1 .. 0) |-> base]
  <2>1. 1 .. 0 = {} /\ 0 \in 0 .. n
    BY <1>1
  <2>2. x = E(x, 0)
    BY <2>1
  <2> HIDE DEF E, x
  <2> QED BY <2>1, <2>2
<1>3. ASSUME NEW m \in T, m < n PROVE m + 1 \in T
  <2>1. m \in Nat /\ m \in 0 .. n /\ m + 1 \in 0 .. n
    BY <1>1, <1>3
  <2>2. PICK x : x = E(x, m)
    BY <1>3
  <2> DEFINE y == [s \in SUBSET (1 .. m + 1) |->
                     IF s \subseteq 1 .. m THEN x[s] ELSE LinkSlot(x[s \ {m + 1}], seq[m + 1])]
             R(s) == IF s = {} THEN base ELSE LinkSlot(y[s \ {Max(s)}], seq[Max(s)])
             Q(s) == IF s = {} THEN base ELSE LinkSlot(x[s \ {Max(s)}], seq[Max(s)])
  <2>3. ASSUME NEW s \in SUBSET (1 .. m + 1) PROVE y[s] = R(s)
    <3>1. CASE s \subseteq 1 .. m
      <4>1. x[s] = Q(s)
        <5>1. E(x, m)[s] = Q(s)
          BY <3>1
        <5> HIDE DEF E, Q, y, R
        <5> QED BY <2>2, <5>1
      <4>2. y[s] = x[s] /\ y[s \ {Max(s)}] = x[s \ {Max(s)}]
        BY <3>1
      <4> HIDE DEF E, y
      <4> QED BY <4>1, <4>2
    <3>2. CASE ~(s \subseteq 1 .. m)
      <4>1. Max(s) = m + 1 /\ s # {} /\ s \ {m + 1} \in SUBSET (1 .. m)
        BY <2>1, <3>2, LastOf
      <4>2. y[s] = LinkSlot(x[s \ {m + 1}], seq[m + 1])
        BY <3>2
      <4>3. y[s \ {m + 1}] = x[s \ {m + 1}]
        BY <4>1
      <4> HIDE DEF E, y
      <4> QED BY <4>1, <4>2, <4>3
    <3> QED BY <3>1, <3>2
  <2>4. y = [s \in SUBSET (1 .. m + 1) |-> y[s]]
    OBVIOUS
  <2>5. y = [s \in SUBSET (1 .. m + 1) |-> R(s)]
    <3> HIDE DEF y, R, E
    <3> QED BY <2>3, <2>4
  <2>6. y = E(y, m + 1)
    BY <2>5
  <2> HIDE DEF E, y
  <2> QED BY <2>1, <2>6
<1>4. \E x : x = E(x, n)
  <2>1. T \in SUBSET (0 .. n) /\ n \in 0 .. n
    BY <1>1
  <2> HIDE DEF T, E, n
  <2>2. T = 0 .. n
    BY <1>1, <1>2, <1>3, <2>1, UpTo
  <2> QED BY <2>1, <2>2 DEF T
<1>5. g = E(g, n)
  <2> HIDE DEF E
  <2> QED BY <1>4
<1>6. LinkAll(base, seq) = g[1 .. n]
  BY <1>1 DEF LinkAll, FoldLeft, MapThenFoldSet
<1> HIDE DEF g
<1>7. \A s \in SUBSET (1 .. n) : g[s] = IF s = {} THEN base ELSE LinkSlot(g[s \ {Max(s)}], seq[Max(s)])
  BY <1>5
<1> HIDE DEF E, T, n
<1>8. f[0] = base
  <2>1. 1 .. 0 = {} /\ 0 \in 0 .. n
    BY <1>1
  <2> QED BY <1>7, <2>1
<1>9. ASSUME NEW k \in 1 .. n PROVE f[k] = LinkSlot(f[k - 1], seq[k])
  <2>1. /\ 1 .. k \in SUBSET (1 .. n) /\ 1 .. k # {} /\ Max(1 .. k) = k
        /\ (1 .. k) \ {k} = 1 .. k - 1 /\ k \in 0 .. n /\ k - 1 \in 0 .. n
    BY <1>1, Segment
  <2>2. f[k] = g[1 .. k] /\ f[k - 1] = g[1 .. k - 1]
    BY <2>1
  <2>3. g[1 .. k] = LinkSlot(g[(1 .. k) \ {Max(1 .. k)}], seq[Max(1 .. k)])
    BY <1>7, <2>1
  <2> HIDE DEF f
  <2> QED BY <2>1, <2>2, <2>3
<1>10. f[n] = g[1 .. n]
  BY <1>1
<1> HIDE DEF f
<1> QED BY <1>6, <1>8, <1>9, <1>10 DEF n

-----------------------------------------------------------------------------
(* Lists of lists, one after the other *)

ListsOf(ss) == IsList(ss) /\ \A i \in DOMAIN ss : IsList(ss[i])

Joins(ss, f) ==
    /\ f[0] = <<>>
    /\ \A k \in 1 .. Len(ss) : f[k] = f[k - 1] \o ss[k]

LEMMA JoinsLists ==
    ASSUME NEW ss, ListsOf(ss), NEW f, Joins(ss, f)
    PROVE  \A k \in 0 .. Len(ss) : IsList(f[k])
<1> DEFINE n == Len(ss)
           T == {k \in 0 .. n : IsList(f[k])}
<1>1. n \in Nat /\ DOMAIN ss = 1 .. n
  BY ListLength DEF ListsOf
<1>2. 0 \in T
  BY <1>1, EmptyList DEF Joins
<1>3. ASSUME NEW k \in T, k < n PROVE k + 1 \in T
  <2>1. k + 1 \in 1 .. n /\ k + 1 \in 0 .. n /\ (k + 1) - 1 = k
    BY <1>1, <1>3
  <2>2. f[k + 1] = f[k] \o ss[k + 1] /\ IsList(ss[k + 1])
    BY <1>1, <2>1 DEF Joins, ListsOf
  <2>3. IsList(f[k + 1])
    BY <1>3, <2>2, JoinedList
  <2> QED BY <2>1, <2>3
<1>4. T \in SUBSET (0 .. n)
  OBVIOUS
<1> HIDE DEF T, n
<1>5. T = 0 .. n
  BY <1>1, <1>2, <1>3, <1>4, UpTo
<1> QED BY <1>5 DEF T, n

LEMMA Flattening ==
    ASSUME NEW ss, ListsOf(ss)
    PROVE  \E f : Joins(ss, f) /\ FlattenSeq(ss) = f[Len(ss)]
<1> DEFINE n == Len(ss)
<1>1. n \in Nat /\ DOMAIN ss = 1 .. n /\ \A i \in 1 .. n : IsList(ss[i])
  BY ListLength DEF ListsOf
<1>2. CASE n = 0
  <2>1. ss = <<>>
    <3>1. ss \in Seq(ToSet(ss))
      BY DEF ListsOf, IsList
    <3> QED BY <1>2, <3>1, EmptySeq
  <2> DEFINE f == [k \in {0} |-> <<>>]
  <2>2. f[0] = <<>> /\ 1 .. n = {}
    BY <1>2
  <2>3. FlattenSeq(ss) = <<>>
    BY <1>2, <2>1 DEF FlattenSeq
  <2> HIDE DEF f
  <2> QED BY <1>2, <2>2, <2>3 DEF Joins
<1>3. CASE n # 0
  <2> DEFINE F(x, m) == [i \in 1 .. m |-> IF i = 1 THEN ss[i] ELSE x[i - 1] \o ss[i]]
             h == CHOOSE x : x = F(x, n)
             T == {m \in 0 .. n : \E x : x = F(x, m)}
             f == [k \in 0 .. n |-> IF k = 0 THEN <<>> ELSE h[k]]
  <2>1. 0 \in T
    <3> DEFINE x == [i \in 1 .. 0 |-> <<>>]
    <3>1. 1 .. 0 = {} /\ 0 \in 0 .. n
      BY <1>1
    <3>2. x = F(x, 0)
      BY <3>1
    <3> HIDE DEF F, x
    <3> QED BY <3>1, <3>2
  <2>2. ASSUME NEW m \in T, m < n PROVE m + 1 \in T
    <3>1. m \in Nat /\ m + 1 \in 0 .. n
      BY <1>1, <2>2
    <3>2. PICK x : x = F(x, m)
      BY <2>2
    <3> DEFINE v == IF m = 0 THEN ss[m + 1] ELSE x[m] \o ss[m + 1]
               y == [i \in 1 .. m + 1 |-> IF i = m + 1 THEN v ELSE x[i]]
               R(i) == IF i = 1 THEN ss[i] ELSE y[i - 1] \o ss[i]
    <3>3. ASSUME NEW i \in 1 .. m + 1 PROVE y[i] = R(i)
      <4>1. CASE i = m + 1
        <5>1. i = 1 <=> m = 0
          BY <3>1, <4>1
        <5>2. m # 0 => m \in 1 .. m + 1 /\ m # m + 1 /\ y[m] = x[m] /\ i - 1 = m
          BY <3>1, <4>1
        <5>3. y[i] = v
          BY <4>1
        <5> HIDE DEF y, F
        <5> QED BY <4>1, <5>1, <5>2, <5>3
      <4>2. CASE i # m + 1
        <5>1. i \in 1 .. m /\ (i # 1 => i - 1 \in 1 .. m /\ i - 1 \in 1 .. m + 1 /\ i - 1 # m + 1)
          BY <3>1, <4>2
        <5>2. F(x, m)[i] = IF i = 1 THEN ss[i] ELSE x[i - 1] \o ss[i]
          BY <5>1
        <5>3. y[i] = x[i] /\ (i # 1 => y[i - 1] = x[i - 1])
          BY <4>2, <5>1
        <5> HIDE DEF F, y
        <5> QED BY <3>2, <5>2, <5>3
      <4> QED BY <4>1, <4>2
    <3>4. y = [i \in 1 .. m + 1 |-> y[i]]
      OBVIOUS
    <3>5. y = [i \in 1 .. m + 1 |-> R(i)]
      <4> HIDE DEF y, R, F
      <4> QED BY <3>3, <3>4
    <3>6. y = F(y, m + 1)
      BY <3>5
    <3> HIDE DEF F, y
    <3> QED BY <3>1, <3>6
  <2>3. \E x : x = F(x, n)
    <3> HIDE DEF F, h, f
    <3>1. T \in SUBSET (0 .. n) /\ n \in 0 .. n
      BY <1>1
    <3> HIDE DEF T, n
    <3>2. T = 0 .. n
      BY <1>1, <2>1, <2>2, <3>1, UpTo
    <3> QED BY <3>1, <3>2 DEF T
  <2>4. h = F(h, n)
    <3> HIDE DEF F
    <3> QED BY <2>3
  <2>5. FlattenSeq(ss) = h[n]
    BY <1>3 DEF FlattenSeq
  <2> HIDE DEF h
  <2>6. \A i \in 1 .. n : h[i] = IF i = 1 THEN ss[i] ELSE h[i - 1] \o ss[i]
    BY <2>4
  <2> HIDE DEF F, T
  <2>7. f[0] = <<>> /\ f[n] = h[n]
    BY <1>1, <1>3
  <2>8. ASSUME NEW k \in 1 .. n PROVE f[k] = f[k - 1] \o ss[k]
    <3>1. f[k] = h[k] /\ k \in 1 .. n
      BY <1>1
    <3>2. CASE k = 1
      <4>1. f[k - 1] = <<>>
        BY <1>1, <3>2
      <4>2. IsList(ss[k])
        BY <1>1
      <4> HIDE DEF f
      <4> QED BY <2>6, <3>1, <3>2, <4>1, <4>2, JoinedEmpty
    <3>3. CASE k # 1
      <4>1. k - 1 \in 0 .. n /\ k - 1 # 0
        BY <1>1, <3>3
      <4>2. f[k - 1] = h[k - 1]
        BY <4>1
      <4> HIDE DEF f
      <4> QED BY <2>6, <3>1, <3>3, <4>2
    <3> QED BY <3>2, <3>3
  <2> HIDE DEF f
  <2> QED BY <2>5, <2>7, <2>8 DEF Joins
<1> QED BY <1>2, <1>3

\* There is one way to join lists.
LEMMA JoinsAgree ==
    ASSUME NEW ss, NEW tt, NEW n \in Nat, NEW f, NEW g, Joins(ss, f), Joins(tt, g),
           Len(ss) \in Nat, Len(tt) \in Nat, n <= Len(ss), n <= Len(tt),
           \A i \in 1 .. n : ss[i] = tt[i]
    PROVE  f[n] = g[n]
<1> DEFINE T == {k \in 0 .. n : f[k] = g[k]}
<1>1. 0 \in T
  BY DEF Joins
<1>2. ASSUME NEW k \in T, k < n PROVE k + 1 \in T
  <2>1. k + 1 \in 1 .. n /\ k + 1 \in 0 .. n /\ (k + 1) - 1 = k /\ k + 1 \in 1 .. Len(ss) /\ k + 1 \in 1 .. Len(tt)
    BY <1>2
  <2>2. f[k + 1] = f[k] \o ss[k + 1] /\ g[k + 1] = g[k] \o tt[k + 1]
    BY <2>1 DEF Joins
  <2> QED BY <1>2, <2>1, <2>2
<1>3. T \in SUBSET (0 .. n) /\ n \in 0 .. n
  OBVIOUS
<1> HIDE DEF T
<1>4. T = 0 .. n
  BY <1>1, <1>2, <1>3, UpTo
<1> QED BY <1>3, <1>4 DEF T

LEMMA FlattenNone == FlattenSeq(<<>>) = <<>>
BY EmptyList DEF FlattenSeq

LEMMA FlattenList ==
    ASSUME NEW ss, ListsOf(ss)
    PROVE  IsList(FlattenSeq(ss))
<1>1. PICK f : Joins(ss, f) /\ FlattenSeq(ss) = f[Len(ss)]
  BY Flattening
<1>2. Len(ss) \in 0 .. Len(ss)
  BY ListLength DEF ListsOf
<1> QED BY <1>1, <1>2, JoinsLists

LEMMA FlattenOneMore ==
    ASSUME NEW ss, ListsOf(ss), NEW x, IsList(x)
    PROVE  ListsOf(ss \o <<x>>) /\ FlattenSeq(ss \o <<x>>) = FlattenSeq(ss) \o x
<1> DEFINE tt == ss \o <<x>>
           n == Len(ss)
<1>1. /\ IsList(tt) /\ Len(tt) = n + 1 /\ n \in Nat /\ DOMAIN ss = 1 .. n
      /\ DOMAIN tt = (DOMAIN ss) \cup {n + 1}
      /\ \A i \in 1 .. n : tt[i] = ss[i]
      /\ tt[n + 1] = x
  BY OneMore DEF ListsOf
<1> HIDE DEF tt, n
<1>2. ListsOf(tt)
  BY <1>1 DEF ListsOf
<1>3. PICK f : Joins(ss, f) /\ FlattenSeq(ss) = f[n]
  BY Flattening DEF n
<1>4. PICK g : Joins(tt, g) /\ FlattenSeq(tt) = g[n + 1]
  BY <1>1, <1>2, Flattening
<1>5. f[n] = g[n]
  <2>1. n <= Len(ss) /\ n <= Len(tt) /\ Len(ss) \in Nat /\ Len(tt) \in Nat
    BY <1>1 DEF n
  <2> QED BY <1>1, <1>3, <1>4, <2>1, JoinsAgree
<1>6. g[n + 1] = g[n] \o tt[n + 1]
  <2>1. n + 1 \in 1 .. Len(tt) /\ (n + 1) - 1 = n
    BY <1>1
  <2> QED BY <1>4, <2>1 DEF Joins
<1> QED BY <1>1, <1>2, <1>3, <1>4, <1>5, <1>6 DEF tt

\* A member of the joined list is a member of one of the lists.
LEMMA FlattenedSet ==
    ASSUME NEW ss, ListsOf(ss), NEW S, \A i \in DOMAIN ss : ToSet(ss[i]) \subseteq S
    PROVE  ToSet(FlattenSeq(ss)) \subseteq S
<1> DEFINE n == Len(ss)
<1>1. n \in Nat /\ DOMAIN ss = 1 .. n
  BY ListLength DEF ListsOf
<1>2. PICK f : Joins(ss, f) /\ FlattenSeq(ss) = f[n]
  BY Flattening
<1> DEFINE T == {k \in 0 .. n : ToSet(f[k]) \subseteq S}
<1>3. 0 \in T
  BY <1>1, <1>2, EmptyList DEF Joins
<1>4. ASSUME NEW k \in T, k < n PROVE k + 1 \in T
  <2>1. k + 1 \in 1 .. n /\ k + 1 \in 0 .. n /\ (k + 1) - 1 = k /\ k \in 0 .. n
    BY <1>1, <1>4
  <2>2. f[k + 1] = f[k] \o ss[k + 1] /\ IsList(ss[k + 1]) /\ IsList(f[k])
    BY <1>1, <1>2, <2>1, JoinsLists DEF Joins, ListsOf
  <2>3. ToSet(f[k + 1]) = ToSet(f[k]) \cup ToSet(ss[k + 1])
    BY <2>2, JoinedSet
  <2>4. ToSet(ss[k + 1]) \subseteq S
    BY <1>1, <2>1
  <2> QED BY <1>4, <2>1, <2>3, <2>4
<1>5. T \in SUBSET (0 .. n) /\ n \in 0 .. n
  BY <1>1
<1> HIDE DEF T, n
<1>6. T = 0 .. n
  BY <1>1, <1>3, <1>4, <1>5, UpTo
<1> QED BY <1>2, <1>5, <1>6 DEF T

-----------------------------------------------------------------------------
(* Items *)

LEMMA Columns ==
    /\ DOMAIN NoItems = {"hits", "tops", "prettys", "ids", "structured", "callees", "subclass", "override", "slots"}
    /\ \A k \in DOMAIN NoItems : NoItems[k] = <<>>
BY DEF NoItems

IsItems(x) == DOMAIN x = DOMAIN NoItems /\ x = [k \in DOMAIN x |-> x[k]]

ItemsTyped(x) ==
    /\ IsItems(x)
    /\ \A k \in DOMAIN NoItems : IsList(x[k])
    /\ \A r \in ToSet(x.structured) : Stated \subseteq DOMAIN r

LEMMA NoItemsTyped == ItemsTyped(NoItems)
<1>1. IsItems(NoItems) /\ NoItems.structured = <<>>
  BY DEF NoItems, IsItems
<1> QED BY <1>1, Columns, EmptyList DEF ItemsTyped

\* Items that are equal column by column are equal.
LEMMA SameItems ==
    ASSUME NEW x, NEW y, IsItems(x), IsItems(y), \A k \in DOMAIN NoItems : x[k] = y[k]
    PROVE  x = y
<1>1. x = [k \in DOMAIN NoItems |-> x[k]] /\ y = [k \in DOMAIN NoItems |-> y[k]]
  BY DEF IsItems
<1>2. [k \in DOMAIN NoItems |-> x[k]] = [k \in DOMAIN NoItems |-> y[k]]
  OBVIOUS
<1> QED BY <1>1, <1>2

LEMMA BothItems == ASSUME NEW x, NEW y PROVE IsItems(Both(x, y))
BY DEF Both, IsItems

LEMMA BothAt ==
    ASSUME NEW x, NEW y, NEW k \in DOMAIN NoItems
    PROVE  Both(x, y)[k] = x[k] \o y[k]
BY DEF Both

LEMMA BothTyped ==
    ASSUME NEW x, NEW y, ItemsTyped(x), ItemsTyped(y)
    PROVE  ItemsTyped(Both(x, y))
<1>1. \A k \in DOMAIN NoItems : IsList(x[k]) /\ IsList(y[k])
  BY DEF ItemsTyped
<1>2. ASSUME NEW k \in DOMAIN NoItems PROVE IsList(Both(x, y)[k])
  <2>1. Both(x, y)[k] = x[k] \o y[k]
    BY BothAt, Zenon
  <2>2. IsList(x[k] \o y[k])
    BY <1>1, JoinedList, Zenon
  <2> QED BY <2>1, <2>2, Zenon
<1>3. "structured" \in DOMAIN NoItems
  BY Columns
<1>4. Both(x, y).structured = x.structured \o y.structured
  BY <1>3, BothAt, Zenon
<1>5. ToSet(x.structured \o y.structured) = ToSet(x.structured) \cup ToSet(y.structured)
  BY <1>1, <1>3, JoinedSet, Zenon
<1>6. ASSUME NEW r \in ToSet(Both(x, y).structured) PROVE Stated \subseteq DOMAIN r
  <2>1. r \in ToSet(x.structured) \/ r \in ToSet(y.structured)
    BY <1>4, <1>5, Zenon
  <2> QED BY <2>1 DEF ItemsTyped
<1> HIDE DEF ItemsTyped
<1>7. IsItems(Both(x, y))
  BY BothItems
<1> QED BY <1>2, <1>6, <1>7, Zenon DEF ItemsTyped

LEMMA BothNone ==
    ASSUME NEW x, ItemsTyped(x)
    PROVE  Both(x, NoItems) = x /\ Both(NoItems, x) = x
<1>1. /\ IsItems(x)
      /\ \A k \in DOMAIN NoItems : IsList(x[k])
  BY DEF ItemsTyped
<1>2. ASSUME NEW k \in DOMAIN NoItems
      PROVE  Both(x, NoItems)[k] = x[k] /\ Both(NoItems, x)[k] = x[k]
  <2>1. Both(x, NoItems)[k] = x[k] \o NoItems[k] /\ Both(NoItems, x)[k] = NoItems[k] \o x[k]
    BY BothAt, Zenon
  <2>2. NoItems[k] = <<>>
    BY Columns, Zenon
  <2>3. x[k] \o <<>> = x[k] /\ <<>> \o x[k] = x[k]
    BY <1>1, JoinedEmpty, Zenon
  <2> QED BY <2>1, <2>2, <2>3, Zenon
<1> QED BY <1>1, <1>2, BothItems, SameItems, Zenon

LEMMA BothThree ==
    ASSUME NEW x, NEW y, NEW z, ItemsTyped(x), ItemsTyped(y), ItemsTyped(z)
    PROVE  Both(Both(x, y), z) = Both(x, Both(y, z))
<1>1. \A k \in DOMAIN NoItems : IsList(x[k]) /\ IsList(y[k]) /\ IsList(z[k])
  BY DEF ItemsTyped
<1>2. ASSUME NEW k \in DOMAIN NoItems PROVE Both(Both(x, y), z)[k] = Both(x, Both(y, z))[k]
  <2>1. Both(Both(x, y), z)[k] = Both(x, y)[k] \o z[k] /\ Both(x, y)[k] = x[k] \o y[k]
    BY BothAt, Zenon
  <2>2. Both(x, Both(y, z))[k] = x[k] \o Both(y, z)[k] /\ Both(y, z)[k] = y[k] \o z[k]
    BY BothAt, Zenon
  <2> DEFINE a == x[k]
             b == y[k]
             c == z[k]
  <2>3. IsList(a) /\ IsList(b) /\ IsList(c)
    BY <1>1
  <2> HIDE DEF a, b, c
  <2>4. (a \o b) \o c = a \o (b \o c)
    BY <2>3, JoinedThree
  <2> QED BY <2>1, <2>2, <2>4, Zenon DEF a, b, c
<1> DEFINE l == Both(Both(x, y), z)
           m == Both(x, Both(y, z))
<1>3. IsItems(l) /\ IsItems(m)
  BY BothItems
<1>4. \A k \in DOMAIN NoItems : l[k] = m[k]
  BY <1>2
<1> HIDE DEF l, m
<1>5. l = m
  BY <1>3, <1>4, SameItems
<1> QED BY <1>5 DEF l, m

-----------------------------------------------------------------------------
(* Items that follow each other *)

Column(cs, k) == [i \in DOMAIN cs |-> cs[i][k]]

Joining(cs) == [k \in DOMAIN NoItems |-> FlattenSeq(Column(cs, k))]

LEMMA JoiningAt ==
    ASSUME NEW cs
    PROVE  IsItems(Joining(cs)) /\ \A k \in DOMAIN NoItems : Joining(cs)[k] = FlattenSeq(Column(cs, k))
BY DEF Joining, IsItems

AllTyped(cs) == IsList(cs) /\ \A i \in DOMAIN cs : ItemsTyped(cs[i])

LEMMA ColumnLists ==
    ASSUME NEW cs, AllTyped(cs), NEW k \in DOMAIN NoItems
    PROVE  ListsOf(Column(cs, k)) /\ DOMAIN Column(cs, k) = DOMAIN cs /\ Len(Column(cs, k)) = Len(cs)
<1> DEFINE c == Column(cs, k)
<1>1. DOMAIN c = DOMAIN cs /\ c = [i \in DOMAIN c |-> c[i]] /\ \A i \in DOMAIN cs : c[i] = cs[i][k]
  BY DEF Column
<1> HIDE DEF c
<1>2. IsList(c) /\ Len(c) = Len(cs)
  BY <1>1, BuiltList DEF AllTyped
<1>3. \A i \in DOMAIN c : IsList(c[i])
  BY <1>1 DEF AllTyped, ItemsTyped
<1> QED BY <1>1, <1>2, <1>3 DEF ListsOf, c

LEMMA JoiningTyped ==
    ASSUME NEW cs, AllTyped(cs)
    PROVE  ItemsTyped(Joining(cs))
<1>1. \A k \in DOMAIN NoItems : IsList(Joining(cs)[k])
  BY ColumnLists, JoiningAt, FlattenList
<1>2. "structured" \in DOMAIN NoItems
  BY Columns
<1> DEFINE c == Column(cs, "structured")
           S == {r \in UNION {ToSet(c[i]) : i \in DOMAIN c} : Stated \subseteq DOMAIN r}
<1>3. ListsOf(c) /\ DOMAIN c = DOMAIN cs /\ \A i \in DOMAIN cs : c[i] = cs[i].structured
  BY <1>2, ColumnLists DEF Column
<1>4. Joining(cs).structured = FlattenSeq(c)
  BY <1>2, JoiningAt
<1> HIDE DEF c
<1>5. \A i \in DOMAIN cs : \A r \in ToSet(cs[i].structured) : Stated \subseteq DOMAIN r
  BY DEF AllTyped, ItemsTyped
<1>6. \A i \in DOMAIN c : ToSet(c[i]) \subseteq S
  BY <1>3, <1>5
<1>7. \A r \in S : Stated \subseteq DOMAIN r
  OBVIOUS
<1> HIDE DEF S
<1>8. ToSet(FlattenSeq(c)) \subseteq S
  BY <1>3, <1>6, FlattenedSet
<1> QED BY <1>1, <1>4, <1>7, <1>8, JoiningAt DEF ItemsTyped

LEMMA JoiningNone == Joining(<<>>) = NoItems
<1>1. \A k \in DOMAIN NoItems : Column(<<>>, k) = <<>>
  <2>1. \A k : Column(<<>>, k) = [i \in {} |-> <<>>[i][k]]
    BY EmptyList DEF Column
  <2>2. \A k : IsList(Column(<<>>, k)) /\ Len(Column(<<>>, k)) = 0
    <3> TAKE k
    <3>1. DOMAIN Column(<<>>, k) = DOMAIN <<>> /\ Column(<<>>, k) = [i \in DOMAIN Column(<<>>, k) |-> Column(<<>>, k)[i]]
      BY DEF Column
    <3> QED BY <3>1, EmptyList, BuiltList
  <2>3. \A k : Column(<<>>, k) \in Seq(ToSet(Column(<<>>, k)))
    BY <2>2 DEF IsList
  <2> QED BY <2>2, <2>3, EmptySeq
<1>2. \A k \in DOMAIN NoItems : Joining(<<>>)[k] = NoItems[k]
  BY <1>1, Columns, JoiningAt, FlattenNone
<1> QED BY <1>2, JoiningAt, NoItemsTyped, SameItems DEF ItemsTyped

LEMMA JoiningOneMore ==
    ASSUME NEW cs, AllTyped(cs), NEW c, ItemsTyped(c)
    PROVE  AllTyped(cs \o <<c>>) /\ Joining(cs \o <<c>>) = Both(Joining(cs), c)
<1> DEFINE ds == cs \o <<c>>
           n == Len(cs)
<1>1. /\ IsList(ds) /\ Len(ds) = n + 1 /\ n \in Nat
      /\ DOMAIN ds = (DOMAIN cs) \cup {n + 1} /\ DOMAIN cs = 1 .. n
      /\ \A i \in DOMAIN cs : ds[i] = cs[i]
      /\ ds[n + 1] = c
  BY OneMore DEF AllTyped
<1> HIDE DEF ds, n
<1>2. AllTyped(ds)
  BY <1>1 DEF AllTyped
<1>3. ASSUME NEW k \in DOMAIN NoItems PROVE Joining(ds)[k] = Both(Joining(cs), c)[k]
  <2> DEFINE p == Column(cs, k)
             q == Column(ds, k)
             x == c[k]
  <2>1. ListsOf(p) /\ DOMAIN p = 1 .. n /\ Len(p) = n /\ ListsOf(q) /\ DOMAIN q = DOMAIN ds /\ Len(q) = n + 1
    BY <1>1, <1>2, ColumnLists DEF n
  <2>2. IsList(x)
    BY DEF ItemsTyped
  <2>3. (\A i \in DOMAIN cs : p[i] = cs[i][k]) /\ (\A i \in DOMAIN ds : q[i] = ds[i][k])
    BY DEF Column
  <2>4. (\A i \in 1 .. n : q[i] = p[i]) /\ q[n + 1] = x
    BY <1>1, <2>3
  <2>5. Joining(ds)[k] = FlattenSeq(q) /\ Joining(cs)[k] = FlattenSeq(p)
    BY JoiningAt
  <2> HIDE DEF p, q, x
  <2>6. LET t == p \o <<x>> IN
           /\ IsList(t) /\ Len(t) = Len(p) + 1 /\ Len(p) \in Nat
           /\ DOMAIN t = (DOMAIN p) \cup {Len(p) + 1} /\ DOMAIN p = 1 .. Len(p)
           /\ \A i \in DOMAIN p : t[i] = p[i]
           /\ t[Len(p) + 1] = x
           /\ ToSet(t) = ToSet(p) \cup {x}
    BY <2>1, OneMore DEF ListsOf
  <2> DEFINE t == p \o <<x>>
  <2>7. IsList(t) /\ Len(t) = n + 1 /\ (\A i \in 1 .. n : t[i] = p[i]) /\ t[n + 1] = x
    BY <2>1, <2>6
  <2>8. \A i \in 1 .. n + 1 : i \in 1 .. n \/ i = n + 1
    BY <1>1
  <2>9. FlattenSeq(t) = FlattenSeq(p) \o x
    BY <2>1, <2>2, FlattenOneMore
  <2> HIDE DEF t
  <2>10. q = t
    BY <2>1, <2>4, <2>7, <2>8, SameList DEF ListsOf
  <2>11. Both(Joining(cs), c)[k] = Joining(cs)[k] \o x
    BY BothAt, Zenon DEF x
  <2> QED BY <2>5, <2>9, <2>10, <2>11, Zenon
<1> DEFINE l == Joining(ds)
           m == Both(Joining(cs), c)
<1>4. IsItems(l) /\ IsItems(m)
  BY JoiningAt, BothItems
<1>5. \A k \in DOMAIN NoItems : l[k] = m[k]
  BY <1>3
<1> HIDE DEF l, m
<1>6. l = m
  BY <1>4, <1>5, SameItems
<1> QED BY <1>2, <1>6 DEF ds, l, m

-----------------------------------------------------------------------------
(* What one file gives *)

\* What a file is, as the analyzers write it.
FileTyped(f) ==
    /\ IsList(f.targets) /\ IsList(f.structured)
    /\ \A t \in ToSet(f.targets) : IsList(t.pretty)
    /\ \A r \in ToSet(f.structured) :
          /\ Stated \subseteq DOMAIN r
          /\ IsList(r.supers) /\ IsList(r.overrides) /\ IsList(r.binding_slots) /\ IsList(r.slot_owner)

LEMMA FilesGiven ==
    ASSUME NEW fs \in Trees
    PROVE  IsList(fs) /\ \A f \in ToSet(fs) : FileTyped(f)
<1>1. FilesTyped(fs)
  BY ReadAssumption
<1> QED BY <1>1 DEF FilesTyped, FileTyped, Stated

LEMMA Members ==
    ASSUME NEW q, NEW i \in DOMAIN q
    PROVE  q[i] \in ToSet(q)
BY DEF ToSet

\* Items of which each column is a list.
LEMMA FilledTyped ==
    ASSUME NEW x, IsItems(x), IsList(x.hits), IsList(x.tops), IsList(x.prettys), IsList(x.ids),
           IsList(x.structured), IsList(x.callees), IsList(x.subclass), IsList(x.override),
           IsList(x.slots), \A r \in ToSet(x.structured) : Stated \subseteq DOMAIN r
    PROVE  ItemsTyped(x)
<1>1. \A k \in DOMAIN NoItems : IsList(x[k])
  BY Columns
<1> QED BY <1>1 DEF ItemsTyped

LEMMA FreshStated ==
    ASSUME NEW r, NEW subsystem, Stated \subseteq DOMAIN r
    PROVE  Stated \subseteq DOMAIN Fresh(r, subsystem)
BY DEF Fresh

LEMMA OneRecord ==
    ASSUME NEW r, Stated \subseteq DOMAIN r
    PROVE  IsList(<<r>>) /\ \A s \in ToSet(<<r>>) : Stated \subseteq DOMAIN s
<1>1. ToSet(<<r>>) = {r}
  BY DEF ToSet
<1> QED BY <1>1, SingleList

LEMMA FileItemsTyped ==
    ASSUME NEW f, NEW s
    PROVE  ItemsTyped(FileItems(f, s))
<1> DEFINE x == FileItems(f, s)
           r == Fresh(Record(s, <<f.path>>, "file"), f.subsystem)
<1>1. Stated \subseteq DOMAIN r
  <2>1. Stated \subseteq DOMAIN Record(s, <<f.path>>, "file")
    BY DEF Record, Stated
  <2> QED BY <2>1, FreshStated
<1>2. /\ IsItems(x) /\ x.structured = <<r>>
      /\ x.prettys = << <<s, <<f.path>> >> >> /\ x.ids = << << <<f.path>>, s>> >>
      /\ x.hits = <<>> /\ x.tops = <<>> /\ x.callees = <<>>
      /\ x.subclass = <<>> /\ x.override = <<>> /\ x.slots = <<>>
  <2> HIDE DEF r
  <2> QED BY DEF FileItems, NoItems, IsItems, r
<1> HIDE DEF x, r
<1>3. IsList(<<r>>) /\ \A t \in ToSet(<<r>>) : Stated \subseteq DOMAIN t
  BY <1>1, OneRecord
<1> QED BY <1>2, <1>3, SingleList, EmptyList, FilledTyped DEF x

LEMMA FileSymsList ==
    ASSUME NEW f, FileTyped(f)
    PROVE  IsList(FileSyms(f))
<1> DEFINE ss == [i \in DOMAIN f.targets |-> OwnSym(f.targets[i])]
<1>1. DOMAIN ss = DOMAIN f.targets /\ ss = [i \in DOMAIN ss |-> ss[i]]
  OBVIOUS
<1>2. \A i \in DOMAIN ss : IsList(ss[i])
  BY SingleList, EmptyList DEF OwnSym
<1>3. FileSyms(f) = IF FlattenSeq(ss) = <<>> THEN <<FileSym(f)>> ELSE FlattenSeq(ss)
  BY DEF FileSyms
<1> HIDE DEF ss
<1>4. ListsOf(ss)
  BY <1>1, <1>2, BuiltList DEF FileTyped, ListsOf
<1>5. IsList(FlattenSeq(ss))
  BY <1>4, FlattenList
<1> QED BY <1>3, <1>5, SingleList

LEMMA SubsystemTyped ==
    ASSUME NEW f, FileTyped(f)
    PROVE  ItemsTyped(MakeSubsystem(f))
<1>1. CASE ~f.info
  BY <1>1, NoItemsTyped DEF MakeSubsystem
<1>2. CASE f.info
  <2> DEFINE q == FileSyms(f)
             cs == [i \in DOMAIN q |-> FileItems(f, q[i])]
  <2>1. DOMAIN cs = DOMAIN q /\ cs = [i \in DOMAIN cs |-> cs[i]] /\ \A i \in DOMAIN q : cs[i] = FileItems(f, q[i])
    OBVIOUS
  <2>2. MakeSubsystem(f) = [k \in DOMAIN NoItems |-> FlattenSeq([i \in DOMAIN q |-> FileItems(f, q[i])[k]])]
    BY <1>2 DEF MakeSubsystem, Each
  <2> HIDE DEF cs, q
  <2>3. \A k : Column(cs, k) = [i \in DOMAIN q |-> FileItems(f, q[i])[k]]
    BY <2>1 DEF Column
  <2>4. MakeSubsystem(f) = Joining(cs)
    BY <2>2, <2>3 DEF Joining
  <2>5. AllTyped(cs)
    <3>1. IsList(q)
      BY FileSymsList DEF q
    <3> QED BY <2>1, <3>1, BuiltList, FileItemsTyped DEF AllTyped
  <2> QED BY <2>4, <2>5, JoiningTyped
<1> QED BY <1>1, <1>2

LEMMA ExternalTyped ==
    ASSUME NEW r
    PROVE  ItemsTyped(External(r))
<1> DEFINE x == External(r)
<1>1. CASE r.line # 0
  BY <1>1, NoItemsTyped DEF External
<1>2. CASE r.line = 0
  <2>1. /\ IsItems(x) /\ x.structured = <<>>
        /\ x.prettys = << <<r.sym, r.pretty>> >> /\ x.ids = << <<r.pretty, r.sym>> >>
        /\ x.hits = <<>> /\ x.tops = <<r.sym>> /\ x.callees = <<>>
        /\ x.subclass = <<>> /\ x.override = <<>> /\ x.slots = <<>>
    BY <1>2 DEF External, NoItems, IsItems
  <2> HIDE DEF x
  <2> QED BY <2>1, SingleList, EmptyList, FilledTyped DEF x
<1> QED BY <1>1, <1>2

LEMMA StructuredTyped ==
    ASSUME NEW f, FileTyped(f), NEW r \in ToSet(f.structured)
    PROVE  ItemsTyped(ProcessStructured(f, r))
<1> DEFINE x == ProcessStructured(f, r)
           subsystem == IF f.info THEN f.subsystem ELSE None
           plain == Unslotted(r)
           sub == [i \in DOMAIN r.supers |-> <<r.supers[i], r.sym>>]
           over == [i \in DOMAIN r.overrides |-> <<r.overrides[i], r.sym>>]
           own == [i \in DOMAIN r.binding_slots |->
                      <<r.sym, r.binding_slots[i].sym, r.binding_slots[i].props, subsystem>>]
           owned == [i \in DOMAIN r.slot_owner |->
                      <<r.slot_owner[i].sym, r.sym, r.slot_owner[i].props, subsystem>>]
<1>1. /\ Stated \subseteq DOMAIN r
      /\ IsList(r.supers) /\ IsList(r.overrides) /\ IsList(r.binding_slots) /\ IsList(r.slot_owner)
  BY DEF FileTyped
<1>2. x = [NoItems EXCEPT !.subclass = sub, !.override = over, !.slots = own \o owned,
                          !.structured = <<Fresh(plain, subsystem)>>]
  BY DEF ProcessStructured
<1>3. /\ DOMAIN sub = DOMAIN r.supers /\ sub = [i \in DOMAIN sub |-> sub[i]]
      /\ DOMAIN over = DOMAIN r.overrides /\ over = [i \in DOMAIN over |-> over[i]]
      /\ DOMAIN own = DOMAIN r.binding_slots /\ own = [i \in DOMAIN own |-> own[i]]
      /\ DOMAIN owned = DOMAIN r.slot_owner /\ owned = [i \in DOMAIN owned |-> owned[i]]
  OBVIOUS
<1>4. DOMAIN plain = DOMAIN r
  BY DEF Unslotted
<1> HIDE DEF x, sub, over, own, owned, plain, subsystem
<1>5. /\ IsItems(x) /\ x.structured = <<Fresh(plain, subsystem)>>
      /\ x.subclass = sub /\ x.override = over /\ x.slots = own \o owned
      /\ x.hits = <<>> /\ x.tops = <<>> /\ x.callees = <<>>
      /\ x.prettys = <<>> /\ x.ids = <<>>
  BY <1>2 DEF NoItems, IsItems
<1>6. IsList(sub)
  BY <1>1, <1>3, BuiltList
<1>7. IsList(over)
  BY <1>1, <1>3, BuiltList
<1>8. IsList(own)
  BY <1>1, <1>3, BuiltList
<1>9. IsList(owned)
  BY <1>1, <1>3, BuiltList
<1>10. IsList(own \o owned)
  BY <1>8, <1>9, JoinedList
<1>11. IsList(<<Fresh(plain, subsystem)>>) /\ \A s \in ToSet(<<Fresh(plain, subsystem)>>) : Stated \subseteq DOMAIN s
  BY <1>1, <1>4, FreshStated, OneRecord
<1> QED BY <1>5, <1>6, <1>7, <1>10, <1>11, EmptyList, FilledTyped DEF x

LEMMA TargetTyped ==
    ASSUME NEW f, FileTyped(f), NEW t \in ToSet(f.targets)
    PROVE  ItemsTyped(ProcessTarget(f, t))
<1> DEFINE x == ProcessTarget(f, t)
           context == ContextOf(f, t)
           known == t.pretty # <<>> /\ t.line \in 1 .. f.lines
           calls == IF t.kind = "use" /\ context # None THEN << <<context, t.sym, f.path, t.line>> >> ELSE <<>>
           hit == <<t.sym, t.kind, f.path, [line |-> t.line, context |-> context]>>
           named == [i \in DOMAIN t.pretty |-> <<PrettySuffixes(t.pretty)[i], t.sym>>]
           ids == IF t.sym \in Unsuited THEN <<>> ELSE named
<1>1. x = IF ~known THEN NoItems
          ELSE [NoItems EXCEPT !.prettys = << <<t.sym, t.pretty>> >>, !.callees = calls,
                               !.hits = <<hit>>, !.ids = ids]
  BY DEF ProcessTarget
<1>2. DOMAIN named = DOMAIN t.pretty /\ named = [i \in DOMAIN named |-> named[i]]
  OBVIOUS
<1>3. IsList(calls)
  BY SingleList, EmptyList
<1> HIDE DEF named
<1>4. IsList(named)
  BY <1>2, BuiltList DEF FileTyped
<1>5. IsList(ids)
  BY <1>4, EmptyList
<1> HIDE DEF x, calls, ids, hit, known
<1>6. CASE ~known
  BY <1>1, <1>6, NoItemsTyped DEF x
<1>7. CASE known
  <2>1. /\ IsItems(x) /\ x.structured = <<>> /\ x.prettys = << <<t.sym, t.pretty>> >>
        /\ x.callees = calls /\ x.hits = <<hit>> /\ x.ids = ids
        /\ x.tops = <<>> /\ x.subclass = <<>> /\ x.override = <<>> /\ x.slots = <<>>
    BY <1>1, <1>7 DEF NoItems, IsItems
  <2> QED BY <1>3, <1>5, <2>1, SingleList, EmptyList, FilledTyped DEF x
<1> QED BY <1>6, <1>7

LEMMA ReadItemsTyped ==
    ASSUME NEW f, FileTyped(f)
    PROVE  ItemsTyped(ReadItems(f))
<1> DEFINE q == f.structured
           cs == [i \in DOMAIN q |-> RecordItems(f, q[i])]
           u == f.targets
           ds == [i \in DOMAIN u |-> ProcessTarget(f, u[i])]
           rs == Each(LAMBDA r : RecordItems(f, r), f.structured)
           ts == Each(LAMBDA t : ProcessTarget(f, t), f.targets)
<1>1. ItemsTyped(rs)
  <2>1. DOMAIN cs = DOMAIN q /\ cs = [i \in DOMAIN cs |-> cs[i]] /\ \A i \in DOMAIN q : cs[i] = RecordItems(f, q[i])
    OBVIOUS
  <2>2. rs = [k \in DOMAIN NoItems |-> FlattenSeq([i \in DOMAIN q |-> RecordItems(f, q[i])[k]])]
    BY DEF Each
  <2> HIDE DEF cs, rs, ts, ds
  <2>3. \A k : Column(cs, k) = [i \in DOMAIN q |-> RecordItems(f, q[i])[k]]
    BY <2>1 DEF Column
  <2>4. rs = Joining(cs)
    BY <2>2, <2>3 DEF Joining
  <2>5. ASSUME NEW i \in DOMAIN q PROVE ItemsTyped(RecordItems(f, q[i]))
    <3>1. q[i] \in ToSet(f.structured)
      BY Members
    <3> QED BY <3>1, ExternalTyped, StructuredTyped, BothTyped DEF RecordItems
  <2>6. AllTyped(cs)
    BY <2>1, <2>5, BuiltList DEF AllTyped, FileTyped
  <2> QED BY <2>4, <2>6, JoiningTyped
<1>2. ItemsTyped(ts)
  <2>1. DOMAIN ds = DOMAIN u /\ ds = [i \in DOMAIN ds |-> ds[i]] /\ \A i \in DOMAIN u : ds[i] = ProcessTarget(f, u[i])
    OBVIOUS
  <2>2. ts = [k \in DOMAIN NoItems |-> FlattenSeq([i \in DOMAIN u |-> ProcessTarget(f, u[i])[k]])]
    BY DEF Each
  <2> HIDE DEF cs, rs, ts, ds
  <2>3. \A k : Column(ds, k) = [i \in DOMAIN u |-> ProcessTarget(f, u[i])[k]]
    BY <2>1 DEF Column
  <2>4. ts = Joining(ds)
    BY <2>2, <2>3 DEF Joining
  <2>5. ASSUME NEW i \in DOMAIN u PROVE ItemsTyped(ProcessTarget(f, u[i]))
    BY Members, TargetTyped
  <2>6. AllTyped(ds)
    BY <2>1, <2>5, BuiltList DEF AllTyped, FileTyped
  <2> QED BY <2>4, <2>6, JoiningTyped
<1>3. ReadItems(f) = Both(MakeSubsystem(f), Both(rs, ts))
  BY DEF ReadItems
<1> HIDE DEF rs, ts
<1> QED BY <1>1, <1>2, <1>3, SubsystemTyped, BothTyped

-----------------------------------------------------------------------------
(* Parts of a list of files *)

Gives(fs, a, b) == [i \in 1 .. b - a |-> ReadItems(fs[a + i])]

\* What the files after the first a, up to the b-th, give.
Part(fs, a, b) == Joining(Gives(fs, a, b))

LEMMA GivesTyped ==
    ASSUME NEW fs \in Trees, NEW a \in Nat, NEW b \in Nat, a <= b, b <= Len(fs)
    PROVE  /\ AllTyped(Gives(fs, a, b)) /\ Len(Gives(fs, a, b)) = b - a
           /\ ItemsTyped(Part(fs, a, b))
<1> DEFINE g == Gives(fs, a, b)
<1>1. DOMAIN g = 1 .. b - a /\ g = [i \in DOMAIN g |-> g[i]] /\ b - a \in Nat
  BY DEF Gives
<1>2. ASSUME NEW i \in 1 .. b - a PROVE ItemsTyped(g[i])
  <2>1. a + i \in 1 .. Len(fs)
    <3>1. Len(fs) \in Nat
      BY FilesGiven, ListLength
    <3> QED BY <3>1
  <2>2. a + i \in DOMAIN fs
    BY <2>1, FilesGiven, ListLength
  <2>3. FileTyped(fs[a + i])
    BY <2>2, FilesGiven, Members
  <2>4. g[i] = ReadItems(fs[a + i])
    BY DEF Gives
  <2> HIDE DEF g
  <2> QED BY <2>3, <2>4, ReadItemsTyped
<1> HIDE DEF g
<1>3. AllTyped(g) /\ Len(g) = b - a
  BY <1>1, <1>2, ListFrom DEF AllTyped
<1>4. ItemsTyped(Joining(g))
  BY <1>3, JoiningTyped
<1> QED BY <1>3, <1>4 DEF Part, g

LEMMA PartNone == ASSUME NEW fs, NEW a \in Nat PROVE Part(fs, a, a) = NoItems
<1>1. Gives(fs, a, a) = [i \in {} |-> ReadItems(fs[a + i])]
  <2>1. 1 .. a - a = {}
    OBVIOUS
  <2> QED BY <2>1 DEF Gives
<1>2. DOMAIN Gives(fs, a, a) = 1 .. 0
  <2>1. 1 .. 0 = {}
    OBVIOUS
  <2> QED BY <1>1, <2>1
<1>3. IsList(Gives(fs, a, a)) /\ Len(Gives(fs, a, a)) = 0
  BY <1>1, <1>2, ListFrom
<1>4. Gives(fs, a, a) = <<>>
  BY <1>3, EmptySeq DEF IsList
<1> QED BY <1>4, JoiningNone DEF Part

LEMMA PartMore ==
    ASSUME NEW fs \in Trees, NEW a \in Nat, NEW b \in Nat, a <= b, b < Len(fs)
    PROVE  Part(fs, a, b + 1) = Both(Part(fs, a, b), ReadItems(fs[b + 1]))
<1> DEFINE g == Gives(fs, a, b)
           h == Gives(fs, a, b + 1)
           c == ReadItems(fs[b + 1])
           t == g \o <<c>>
           n == b - a
<1>1. Len(fs) \in Nat /\ DOMAIN fs = 1 .. Len(fs)
  BY FilesGiven, ListLength
<1>2. /\ n \in Nat /\ (b + 1) - a = n + 1 /\ b + 1 \in Nat /\ a <= b + 1 /\ b <= Len(fs)
      /\ b + 1 <= Len(fs) /\ a + (n + 1) = b + 1 /\ b + 1 \in DOMAIN fs
  BY <1>1
<1>3. AllTyped(g) /\ Len(g) = n
  BY <1>2, GivesTyped
<1>4. AllTyped(h) /\ Len(h) = n + 1
  BY <1>2, GivesTyped
<1>5. ItemsTyped(c)
  BY <1>2, FilesGiven, Members, ReadItemsTyped
<1>6. (\A i \in 1 .. n : g[i] = ReadItems(fs[a + i])) /\ (\A i \in 1 .. n + 1 : h[i] = ReadItems(fs[a + i]))
  BY <1>2 DEF Gives
<1> HIDE DEF g, h, c
<1>7. LET u == g \o <<c>> IN
           /\ IsList(u) /\ Len(u) = Len(g) + 1 /\ Len(g) \in Nat
           /\ DOMAIN u = (DOMAIN g) \cup {Len(g) + 1} /\ DOMAIN g = 1 .. Len(g)
           /\ \A i \in DOMAIN g : u[i] = g[i]
           /\ u[Len(g) + 1] = c
           /\ ToSet(u) = ToSet(g) \cup {c}
  BY <1>3, OneMore DEF AllTyped
<1>8. IsList(t) /\ Len(t) = n + 1 /\ (\A i \in 1 .. n : t[i] = g[i]) /\ t[n + 1] = c
  BY <1>3, <1>7
<1>9. AllTyped(t) /\ Joining(t) = Both(Joining(g), c)
  BY <1>3, <1>5, JoiningOneMore
<1> HIDE DEF t
<1>10. \A i \in 1 .. n + 1 : t[i] = h[i]
  <2>1. \A i \in 1 .. n + 1 : i \in 1 .. n \/ i = n + 1
    BY <1>2
  <2>2. h[n + 1] = ReadItems(fs[b + 1])
    BY <1>2, <1>6
  <2> HIDE DEF n
  <2> QED BY <1>6, <1>8, <2>1, <2>2 DEF c
<1>11. t = h
  BY <1>4, <1>8, <1>10, SameList DEF AllTyped
<1> QED BY <1>9, <1>11 DEF Part, g, h, c

LEMMA PartsJoin ==
    ASSUME NEW fs \in Trees, NEW a \in Nat, NEW b \in Nat, NEW c \in Nat, a <= b, b <= c, c <= Len(fs)
    PROVE  Both(Part(fs, a, b), Part(fs, b, c)) = Part(fs, a, c)
<1> DEFINE n == c - b
           T == {d \in 0 .. n : Both(Part(fs, a, b), Part(fs, b, b + d)) = Part(fs, a, b + d)}
<1>1. Len(fs) \in Nat /\ n \in Nat /\ b + n = c /\ b <= Len(fs) /\ DOMAIN fs = 1 .. Len(fs)
  BY FilesGiven, ListLength
<1>2. ItemsTyped(Part(fs, a, b))
  BY <1>1, GivesTyped
<1>3. 0 \in T
  <2>1. b + 0 = b /\ 0 \in 0 .. n
    BY <1>1
  <2>2. Both(Part(fs, a, b), Part(fs, b, b)) = Part(fs, a, b)
    BY <1>2, PartNone, BothNone
  <2> QED BY <2>1, <2>2
<1>4. ASSUME NEW d \in T, d < n PROVE d + 1 \in T
  <2> DEFINE e == b + d
  <2>1. /\ d \in 0 .. n /\ d + 1 \in 0 .. n /\ b + (d + 1) = e + 1 /\ e \in Nat /\ b <= e /\ a <= e
        /\ e < Len(fs) /\ e <= Len(fs) /\ e + 1 \in DOMAIN fs
    BY <1>1, <1>4
  <2>2. Both(Part(fs, a, b), Part(fs, b, e)) = Part(fs, a, e)
    BY <1>4
  <2> HIDE DEF e
  <2> DEFINE x == ReadItems(fs[e + 1])
  <2>3. Part(fs, b, e + 1) = Both(Part(fs, b, e), x) /\ Part(fs, a, e + 1) = Both(Part(fs, a, e), x)
    BY <2>1, PartMore
  <2>4. ItemsTyped(x)
    BY <2>1, FilesGiven, Members, ReadItemsTyped
  <2>5. ItemsTyped(Part(fs, b, e))
    BY <2>1, GivesTyped
  <2> HIDE DEF x
  <2>6. Both(Both(Part(fs, a, b), Part(fs, b, e)), x) = Both(Part(fs, a, b), Both(Part(fs, b, e), x))
    BY <1>2, <2>4, <2>5, BothThree
  <2>7. Both(Part(fs, a, b), Part(fs, b, e + 1)) = Part(fs, a, e + 1)
    BY <2>2, <2>3, <2>6
  <2> QED BY <2>1, <2>7
<1>5. T \in SUBSET (0 .. n) /\ n \in 0 .. n
  BY <1>1
<1> HIDE DEF T, n
<1>6. T = 0 .. n
  BY <1>1, <1>3, <1>4, <1>5, UpTo
<1> QED BY <1>1, <1>5, <1>6 DEF T

LEMMA PartAll ==
    ASSUME NEW fs \in Trees
    PROVE  Part(fs, 0, Len(fs)) = Each(ReadItems, fs)
<1>1. Len(fs) \in Nat /\ DOMAIN fs = 1 .. Len(fs)
  BY FilesGiven, ListLength
<1>2. Gives(fs, 0, Len(fs)) = [i \in DOMAIN fs |-> ReadItems(fs[i])]
  <2>1. Len(fs) - 0 = Len(fs) /\ \A i \in 1 .. Len(fs) : 0 + i = i
    BY <1>1
  <2> QED BY <1>1, <2>1 DEF Gives
<1> DEFINE g == Gives(fs, 0, Len(fs))
<1>3. DOMAIN g = DOMAIN fs /\ \A i \in DOMAIN fs : g[i] = ReadItems(fs[i])
  BY <1>2
<1> HIDE DEF g
<1>4. \A k : Column(g, k) = [i \in DOMAIN fs |-> ReadItems(fs[i])[k]]
  BY <1>3 DEF Column
<1>5. Joining(g) = [k \in DOMAIN NoItems |-> FlattenSeq([i \in DOMAIN fs |-> ReadItems(fs[i])[k]])]
  BY <1>4 DEF Joining
<1> QED BY <1>5 DEF Each, Part, g

-----------------------------------------------------------------------------
(* The ranges of the threads *)

LEMMA Division ==
    ASSUME NEW a \in Nat, NEW b \in Nat, b # 0
    PROVE  (a \div b) \in Nat /\ (a \div b) * b <= a
OBVIOUS

LEMMA Products ==
    ASSUME NEW c \in Nat, NEW s \in Nat, NEW t \in Nat, s <= t
    PROVE  c * s \in Nat /\ c * t \in Nat /\ c * s <= c * t
<1>1. c * t = c * s + c * (t - s) /\ c * (t - s) \in Nat /\ c * s \in Nat
  OBVIOUS
<1> QED BY <1>1

\* Where the ranges of the threads before t end.
UpTill(t) == IF t = thread_count THEN total ELSE StartOf(t)

LEMMA Ranges ==
    ASSUME files \in Trees
    PROVE  /\ total \in Nat /\ thread_count \in Nat /\ thread_count # 0
           /\ UpTill(0) = 0 /\ UpTill(thread_count) = total
           /\ \A t \in Readers : /\ StartOf(t) \in Nat /\ EndOf(t) \in Nat
                                 /\ StartOf(t) <= EndOf(t) /\ EndOf(t) <= total
                                 /\ UpTill(t) = StartOf(t) /\ UpTill(t + 1) = EndOf(t)
<1> DEFINE n == thread_count
           c == chunk
<1>1. total \in Nat /\ n \in Nat /\ n # 0
  BY FilesGiven, ListLength, ReadAssumption DEF total, thread_count
<1>2. c \in Nat /\ c * n <= total
  BY <1>1, Division DEF chunk
<1>3. c * 0 = 0
  BY <1>2
<1>4. ASSUME NEW t \in 0 .. n - 1
      PROVE  /\ c * t \in Nat /\ c * (t + 1) \in Nat /\ c * t <= c * (t + 1) /\ c * (t + 1) <= total
             /\ (t = n - 1 => t + 1 = n) /\ (t # n - 1 => t + 1 # n) /\ t # n
             /\ c * t <= total
  <2>1. t \in Nat /\ t + 1 \in Nat /\ t <= t + 1 /\ t + 1 <= n
    BY <1>1
  <2>2. c * t \in Nat /\ c * (t + 1) \in Nat /\ c * t <= c * (t + 1)
    BY <1>2, <2>1, Products
  <2>3. c * (t + 1) <= c * n /\ c * n \in Nat
    BY <1>1, <1>2, <2>1, Products
  <2>4. c * (t + 1) <= total
    BY <1>1, <1>2, <2>2, <2>3
  <2>5. c * t <= total
    BY <1>1, <2>2, <2>4
  <2> HIDE DEF c
  <2> QED BY <1>1, <2>1, <2>2, <2>4, <2>5
<1> HIDE DEF n, c
<1>5. Readers = 0 .. n - 1 /\ thread_count = n /\ chunk = c
  BY DEF Readers, n, c
<1>6. UpTill(0) = 0 /\ UpTill(n) = total
  BY <1>1, <1>3, <1>5 DEF UpTill, StartOf
<1>7. ASSUME NEW t \in Readers
      PROVE  /\ StartOf(t) \in Nat /\ EndOf(t) \in Nat
             /\ StartOf(t) <= EndOf(t) /\ EndOf(t) <= total
             /\ UpTill(t) = StartOf(t) /\ UpTill(t + 1) = EndOf(t)
  <2>1. t \in 0 .. n - 1
    BY <1>5
  <2>2. StartOf(t) = c * t /\ StartOf(t + 1) = c * (t + 1)
    BY <1>5 DEF StartOf
  <2>3. EndOf(t) = IF t = n - 1 THEN total ELSE c * (t + 1)
    BY <1>5 DEF EndOf
  <2>4. UpTill(t) = StartOf(t)
    BY <1>4, <1>5, <2>1 DEF UpTill
  <2>5. UpTill(t + 1) = EndOf(t)
    BY <1>4, <1>5, <2>1, <2>2, <2>3 DEF UpTill
  <2> QED BY <1>1, <1>4, <2>1, <2>2, <2>3, <2>4, <2>5
<1> QED BY <1>1, <1>5, <1>6, <1>7

-----------------------------------------------------------------------------
(* What the tables hold *)

Until(b, k) == [i \in 1 .. k |-> b[i]]

LEMMA UntilList ==
    ASSUME NEW b, IsList(b), NEW k \in Nat, k <= Len(b)
    PROVE  IsList(Until(b, k)) /\ Len(Until(b, k)) = k /\ \A i \in 1 .. k : Until(b, k)[i] = b[i]
<1> DEFINE u == Until(b, k)
<1>1. DOMAIN u = 1 .. k /\ u = [i \in DOMAIN u |-> u[i]] /\ \A i \in 1 .. k : u[i] = b[i]
  BY DEF Until
<1> HIDE DEF u
<1>2. IsList(u) /\ Len(u) = k
  BY <1>1, ListFrom
<1> QED BY <1>1, <1>2 DEF u

LEMMA UntilMore ==
    ASSUME NEW b, IsList(b), NEW k \in Nat, k < Len(b)
    PROVE  Until(b, k + 1) = Until(b, k) \o <<b[k + 1]>>
<1> DEFINE u == Until(b, k + 1)
           v == Until(b, k)
           x == b[k + 1]
           t == v \o <<x>>
<1>1. Len(b) \in Nat /\ k + 1 \in Nat /\ k + 1 <= Len(b) /\ k <= Len(b)
  BY ListLength
<1>2. IsList(u) /\ Len(u) = k + 1 /\ \A i \in 1 .. k + 1 : u[i] = b[i]
  BY <1>1, UntilList
<1>3. IsList(v) /\ Len(v) = k /\ \A i \in 1 .. k : v[i] = b[i]
  BY <1>1, UntilList
<1> HIDE DEF u, v
<1>4. LET w == v \o <<x>> IN
         /\ IsList(w) /\ Len(w) = Len(v) + 1 /\ Len(v) \in Nat
         /\ DOMAIN w = (DOMAIN v) \cup {Len(v) + 1} /\ DOMAIN v = 1 .. Len(v)
         /\ \A i \in DOMAIN v : w[i] = v[i]
         /\ w[Len(v) + 1] = x
         /\ ToSet(w) = ToSet(v) \cup {x}
  BY <1>3, OneMore
<1>5. IsList(t) /\ Len(t) = k + 1 /\ (\A i \in 1 .. k : t[i] = v[i]) /\ t[k + 1] = x
  BY <1>3, <1>4
<1> HIDE DEF t
<1>6. \A i \in 1 .. k + 1 : i \in 1 .. k \/ i = k + 1
  OBVIOUS
<1>7. u = t
  BY <1>2, <1>3, <1>5, <1>6, SameList
<1> QED BY <1>7 DEF u, v, t

Grown(q, b, k) == q \o Until(b, k)

LEMMA GrownEnds ==
    ASSUME NEW q, IsList(q), NEW b, IsList(b)
    PROVE  Grown(q, b, 0) = q /\ Grown(q, b, Len(b)) = q \o b
<1>1. Len(b) \in Nat
  BY ListLength
<1>2. IsList(Until(b, 0)) /\ Len(Until(b, 0)) = 0
  BY <1>1, UntilList
<1>3. Until(b, 0) = <<>>
  BY <1>2, EmptySeq DEF IsList
<1>4. Until(b, Len(b)) = b
  BY <1>1, UntilList, SameList
<1>5. q \o <<>> = q
  BY JoinedEmpty
<1> QED BY <1>3, <1>4, <1>5 DEF Grown

LEMMA GrownMore ==
    ASSUME NEW q, IsList(q), NEW b, IsList(b), NEW k \in Nat, k < Len(b)
    PROVE  IsList(Grown(q, b, k)) /\ Grown(q, b, k + 1) = Grown(q, b, k) \o <<b[k + 1]>>
<1> DEFINE v == Until(b, k)
           c == <<b[k + 1]>>
<1>1. IsList(v) /\ Until(b, k + 1) = v \o c
  <2>1. k <= Len(b)
    BY ListLength
  <2> QED BY <2>1, UntilList, UntilMore
<1>2. IsList(c)
  BY SingleList
<1>3. Grown(q, b, k) = q \o v /\ Grown(q, b, k + 1) = q \o Until(b, k + 1)
  BY DEF Grown
<1> HIDE DEF v, c
<1>4. IsList(q \o v)
  BY <1>1, JoinedList
<1>5. (q \o v) \o c = q \o (v \o c)
  BY <1>1, <1>2, JoinedThree
<1> QED BY <1>1, <1>3, <1>4, <1>5 DEF c

LEMMA NameAdded ==
    ASSUME NEW table, NEW q, IsList(q), NamesOf(table, q), NEW p
    PROVE  NamesOf(AddName(table, p), q \o <<p>>)
<1> DEFINE t == q \o <<p>>
           n == Len(q)
           new == AddName(table, p)
<1>1. /\ IsList(t) /\ n \in Nat /\ DOMAIN q = 1 .. n /\ DOMAIN t = (DOMAIN q) \cup {n + 1}
      /\ \A i \in DOMAIN q : t[i] = q[i]
      /\ t[n + 1] = p /\ ToSet(t) = ToSet(q) \cup {p}
  BY OneMore
<1>2. DOMAIN new = DOMAIN table \cup {p[1]} /\ \A k \in DOMAIN new : new[k] = IF k = p[1] THEN p[2] ELSE table[k]
  BY DEF AddName, Put
<1>3. DOMAIN table = {x[1] : x \in ToSet(q)}
  BY DEF NamesOf
<1> HIDE DEF t, n, new
<1>4. DOMAIN new = {x[1] : x \in ToSet(t)}
  BY <1>1, <1>2, <1>3
<1>5. ASSUME NEW i \in DOMAIN t, \A j \in DOMAIN t : i < j => t[j][1] # t[i][1]
      PROVE  new[t[i][1]] = t[i][2]
  <2>1. CASE i = n + 1
    BY <1>1, <1>2, <2>1
  <2>2. CASE i # n + 1
    <3>1. i \in DOMAIN q /\ t[i] = q[i]
      BY <1>1, <2>2
    <3>2. i < n + 1 /\ n + 1 \in DOMAIN t
      BY <1>1, <3>1
    <3>3. p[1] # q[i][1]
      BY <1>1, <1>5, <3>1, <3>2
    <3>4. \A j \in DOMAIN q : i < j => q[j][1] # q[i][1]
      BY <1>1, <1>5, <3>1
    <3>5. table[q[i][1]] = q[i][2]
      BY <3>1, <3>4 DEF NamesOf
    <3>6. q[i] \in ToSet(q)
      BY <3>1, Members
    <3>7. q[i][1] \in DOMAIN new
      BY <1>2, <1>3, <3>6
    <3> QED BY <1>2, <3>1, <3>3, <3>5, <3>7
  <2> QED BY <2>1, <2>2
<1>6. NamesOf(new, t)
  BY <1>4, <1>5 DEF NamesOf
<1> QED BY <1>6 DEF new, t

LEMMA RecordAdded ==
    ASSUME NEW table, NEW q, IsList(q), RecordsOf(table, q), NEW r
    PROVE  RecordsOf(AddRecord(table, r), q \o <<r>>)
<1> DEFINE t == q \o <<r>>
           n == Len(q)
           new == AddRecord(table, r)
<1>1. /\ IsList(t) /\ n \in Nat /\ DOMAIN q = 1 .. n /\ DOMAIN t = (DOMAIN q) \cup {n + 1}
      /\ \A i \in DOMAIN q : t[i] = q[i]
      /\ t[n + 1] = r /\ ToSet(t) = ToSet(q) \cup {r}
  BY OneMore
<1>2. /\ DOMAIN new = DOMAIN table \cup {r.sym}
      /\ \A k \in DOMAIN table : new[k] = table[k]
      /\ r.sym \notin DOMAIN table => new[r.sym] = r
  BY DEF AddRecord, Put
<1>3. DOMAIN table = {x.sym : x \in ToSet(q)}
  BY DEF RecordsOf
<1> HIDE DEF t, n, new
<1>4. DOMAIN new = {x.sym : x \in ToSet(t)}
  BY <1>1, <1>2, <1>3
<1>5. ASSUME NEW i \in DOMAIN t, \A j \in DOMAIN t : j < i => t[j].sym # t[i].sym, NEW k \in Stated
      PROVE  new[t[i].sym][k] = t[i][k]
  <2>1. CASE i = n + 1
    <3>1. \A j \in DOMAIN q : q[j].sym # r.sym
      BY <1>1, <1>5, <2>1
    <3>2. r.sym \notin DOMAIN table
      BY <1>3, <3>1 DEF ToSet
    <3> QED BY <1>1, <1>2, <2>1, <3>2
  <2>2. CASE i # n + 1
    <3>1. i \in DOMAIN q /\ t[i] = q[i]
      BY <1>1, <2>2
    <3>2. \A j \in DOMAIN q : j < i => q[j].sym # q[i].sym
      BY <1>1, <1>5, <3>1
    <3>3. table[q[i].sym][k] = q[i][k]
      BY <3>1, <3>2 DEF RecordsOf
    <3>4. q[i] \in ToSet(q)
      BY <3>1, Members
    <3>5. q[i].sym \in DOMAIN table
      BY <1>3, <3>4
    <3> QED BY <1>2, <3>1, <3>3, <3>5
  <2> QED BY <2>1, <2>2
<1>6. RecordsOf(new, t)
  BY <1>4, <1>5 DEF RecordsOf
<1> QED BY <1>6 DEF new, t

HitParts(q, key) == [i \in DOMAIN q |-> IF HitKey(q[i]) = key THEN <<q[i][4]>> ELSE <<>>]

LEMMA HitPartsLists ==
    ASSUME NEW q, IsList(q), NEW key
    PROVE  ListsOf(HitParts(q, key)) /\ Len(HitParts(q, key)) = Len(q)
<1> DEFINE h == HitParts(q, key)
<1>1. DOMAIN h = DOMAIN q /\ h = [i \in DOMAIN h |-> h[i]]
  BY DEF HitParts
<1>2. \A i \in DOMAIN h : h[i] = <<q[i][4]>> \/ h[i] = <<>>
  BY DEF HitParts
<1> HIDE DEF h
<1>3. \A i \in DOMAIN h : IsList(h[i])
  BY <1>2, SingleList, EmptyList
<1> QED BY <1>1, <1>3, BuiltList DEF ListsOf, h

LEMMA HitsAtMore ==
    ASSUME NEW q, IsList(q), NEW h, NEW key
    PROVE  /\ IsList(HitsAt(q, key))
           /\ HitsAt(q \o <<h>>, key) = IF HitKey(h) = key THEN HitsAt(q, key) \o <<h[4]>> ELSE HitsAt(q, key)
<1> DEFINE t == q \o <<h>>
           n == Len(q)
           a == HitParts(q, key)
           b == HitParts(t, key)
           x == IF HitKey(h) = key THEN <<h[4]>> ELSE <<>>
           c == a \o <<x>>
<1>1. /\ IsList(t) /\ Len(t) = n + 1 /\ n \in Nat /\ DOMAIN q = 1 .. n /\ DOMAIN t = (DOMAIN q) \cup {n + 1}
      /\ \A i \in DOMAIN q : t[i] = q[i]
      /\ t[n + 1] = h
  BY OneMore
<1>2. HitsAt(q, key) = FlattenSeq(a) /\ HitsAt(t, key) = FlattenSeq(b)
  BY DEF HitsAt, HitParts
<1>3. ListsOf(a) /\ Len(a) = n /\ ListsOf(b) /\ Len(b) = n + 1
  BY <1>1, HitPartsLists
<1>4. (\A i \in DOMAIN q : a[i] = IF HitKey(q[i]) = key THEN <<q[i][4]>> ELSE <<>>)
      /\ (\A i \in DOMAIN t : b[i] = IF HitKey(t[i]) = key THEN <<t[i][4]>> ELSE <<>>)
  BY DEF HitParts
<1> HIDE DEF t, n, a, b
<1>5. (\A i \in 1 .. n : b[i] = a[i]) /\ b[n + 1] = x
  BY <1>1, <1>4
<1>6. IsList(x)
  BY SingleList, EmptyList
<1> HIDE DEF x
<1>7. LET u == a \o <<x>> IN
           /\ IsList(u) /\ Len(u) = Len(a) + 1 /\ Len(a) \in Nat
           /\ DOMAIN u = (DOMAIN a) \cup {Len(a) + 1} /\ DOMAIN a = 1 .. Len(a)
           /\ \A i \in DOMAIN a : u[i] = a[i]
           /\ u[Len(a) + 1] = x
           /\ ToSet(u) = ToSet(a) \cup {x}
  BY <1>3, OneMore DEF ListsOf
<1>8. IsList(c) /\ Len(c) = n + 1 /\ (\A i \in 1 .. n : c[i] = a[i]) /\ c[n + 1] = x
  BY <1>3, <1>7
<1>9. FlattenSeq(c) = FlattenSeq(a) \o x
  BY <1>3, <1>6, FlattenOneMore
<1> HIDE DEF c
<1>10. \A i \in 1 .. n + 1 : i \in 1 .. n \/ i = n + 1
  BY <1>1
<1>11. b = c
  BY <1>3, <1>5, <1>8, <1>10, SameList DEF ListsOf
<1>12. IsList(FlattenSeq(a))
  BY <1>3, FlattenList
<1>13. HitsAt(t, key) = FlattenSeq(a) \o x
  BY <1>2, <1>9, <1>11
<1>14. HitKey(h) # key => FlattenSeq(a) \o x = FlattenSeq(a)
  BY <1>12, JoinedEmpty DEF x
<1> QED BY <1>2, <1>12, <1>13, <1>14 DEF t, x

LEMMA NoHits ==
    ASSUME NEW q, IsList(q), NEW key, \A i \in DOMAIN q : HitKey(q[i]) # key
    PROVE  HitsAt(q, key) = <<>>
<1> DEFINE a == HitParts(q, key)
<1>1. ListsOf(a)
  BY HitPartsLists
<1>2. \A i \in DOMAIN a : a[i] = <<>>
  BY DEF HitParts
<1>3. HitsAt(q, key) = FlattenSeq(a)
  BY DEF HitsAt, HitParts
<1> HIDE DEF a
<1>4. ToSet(FlattenSeq(a)) \subseteq {}
  BY <1>1, <1>2, EmptyList, FlattenedSet
<1>5. IsList(FlattenSeq(a))
  BY <1>1, FlattenList
<1>6. FlattenSeq(a) = <<>>
  <2>1. Len(FlattenSeq(a)) = 0
    <3>1. Len(FlattenSeq(a)) \in Nat /\ ToSet(FlattenSeq(a)) = {FlattenSeq(a)[i] : i \in 1 .. Len(FlattenSeq(a))}
      BY <1>5, ListLength
    <3>2. Len(FlattenSeq(a)) # 0 => 1 \in 1 .. Len(FlattenSeq(a))
      BY <3>1
    <3> QED BY <1>4, <3>1, <3>2
  <2> QED BY <1>5, <2>1, EmptySeq DEF IsList
<1> QED BY <1>3, <1>6

LEMMA HitAdded ==
    ASSUME NEW table, NEW q, IsList(q), HitsOf(table, q), NEW h
    PROVE  HitsOf(AddHit(table, h), q \o <<h>>)
<1> DEFINE t == q \o <<h>>
           new == AddHit(table, h)
           key == HitKey(h)
<1>1. IsList(t) /\ ToSet(t) = ToSet(q) \cup {h}
  BY OneMore
<1>2. /\ DOMAIN new = DOMAIN table \cup {key}
      /\ \A k \in DOMAIN table : k # key => new[k] = table[k]
      /\ new[key] = IF key \in DOMAIN table THEN table[key] \o <<h[4]>> ELSE <<h[4]>>
  BY DEF AddHit, AddTo, Put
<1>3. DOMAIN table = {HitKey(x) : x \in ToSet(q)} /\ \A k \in DOMAIN table : table[k] = HitsAt(q, k)
  BY DEF HitsOf
<1>4. \A k : HitsAt(t, k) = IF key = k THEN HitsAt(q, k) \o <<h[4]>> ELSE HitsAt(q, k)
  BY HitsAtMore
<1> HIDE DEF t, new, key
<1>5. DOMAIN new = {HitKey(x) : x \in ToSet(t)}
  BY <1>1, <1>2, <1>3 DEF key
<1>6. ASSUME NEW k \in DOMAIN new PROVE new[k] = HitsAt(t, k)
  <2>1. CASE k # key
    BY <1>2, <1>3, <1>4, <2>1
  <2>2. CASE k = key /\ key \in DOMAIN table
    BY <1>2, <1>3, <1>4, <2>2
  <2>3. CASE k = key /\ key \notin DOMAIN table
    <3>1. \A i \in DOMAIN q : HitKey(q[i]) # key
      BY <1>3, <2>3, Members
    <3>2. HitsAt(q, key) = <<>>
      BY <3>1, NoHits
    <3>3. <<>> \o <<h[4]>> = <<h[4]>>
      BY SingleList, JoinedEmpty
    <3> QED BY <1>2, <1>4, <2>3, <3>2, <3>3
  <2> QED BY <2>1, <2>2, <2>3
<1>7. HitsOf(new, t)
  BY <1>5, <1>6 DEF HitsOf
<1> QED BY <1>7 DEF new, t

\* The lines of the calls like c, in the file of c.
CallLines(q, c) == {d[4] : d \in {e \in ToSet(q) : SameCall(e, c) /\ e[3] = c[3]}}

FirstCall(q, i) == \A j \in DOMAIN q : j < i => ~SameCall(q[j], q[i])

LEMMA CallAdded ==
    ASSUME NEW table, NEW q, IsList(q), CalleesOf(table, q), NEW c
    PROVE  CalleesOf(AddCallee(table, c), q \o <<c>>)
<1> DEFINE t == q \o <<c>>
           n == Len(q)
           new == AddCallee(table, c)
           key == <<c[1], c[2]>>
<1>1. /\ IsList(t) /\ n \in Nat /\ DOMAIN q = 1 .. n /\ DOMAIN t = (DOMAIN q) \cup {n + 1}
      /\ \A i \in DOMAIN q : t[i] = q[i]
      /\ t[n + 1] = c /\ ToSet(t) = ToSet(q) \cup {c}
  BY OneMore
<1>2. /\ DOMAIN table = {<<x[1], x[2]>> : x \in ToSet(q)}
      /\ \A i \in DOMAIN q : FirstCall(q, i) =>
            table[<<q[i][1], q[i][2]>>] = [path |-> q[i][3], lines |-> CallLines(q, q[i])]
  BY DEF CalleesOf, FirstCall, CallLines
<1>3. /\ DOMAIN new = DOMAIN table \cup {key}
      /\ \A k \in DOMAIN table : k # key => new[k] = table[k]
      /\ key \notin DOMAIN table => new[key] = [path |-> c[3], lines |-> {c[4]}]
      /\ key \in DOMAIN table =>
            new[key] = IF table[key].path = c[3] THEN [table[key] EXCEPT !.lines = @ \cup {c[4]}] ELSE table[key]
  BY DEF AddCallee, Put
<1>4. \A x, y : <<x[1], x[2]>> = <<y[1], y[2]>> <=> SameCall(x, y)
  BY DEF SameCall
<1> HIDE DEF t, n, new
<1>5. DOMAIN new = {<<x[1], x[2]>> : x \in ToSet(t)}
  BY <1>1, <1>2, <1>3
<1>6. ASSUME NEW i \in DOMAIN t, FirstCall(t, i)
      PROVE  new[<<t[i][1], t[i][2]>>] = [path |-> t[i][3], lines |-> CallLines(t, t[i])]
  <2>1. CASE i = n + 1
    <3>1. \A j \in DOMAIN q : ~SameCall(q[j], c)
      BY <1>1, <1>6, <2>1 DEF FirstCall
    <3>2. \A x \in ToSet(q) : ~SameCall(x, c)
      BY <3>1 DEF ToSet
    <3>3. key \notin DOMAIN table
      BY <1>2, <1>4, <3>2
    <3>4. CallLines(t, c) = {c[4]}
      BY <1>1, <3>2 DEF CallLines, SameCall
    <3> QED BY <1>1, <1>3, <2>1, <3>3, <3>4
  <2>2. CASE i # n + 1
    <3> DEFINE f == q[i]
               mine == <<f[1], f[2]>>
    <3>1. i \in DOMAIN q /\ t[i] = f
      BY <1>1, <2>2
    <3>2. FirstCall(q, i)
      BY <1>1, <1>6, <3>1 DEF FirstCall
    <3>3. table[mine] = [path |-> f[3], lines |-> CallLines(q, f)]
      BY <1>2, <3>1, <3>2
    <3>4. mine \in DOMAIN table
      BY <1>2, <3>1, Members
    <3> HIDE DEF f
    <3>5. CASE mine # key
      <4>1. ~SameCall(c, f)
        BY <1>4, <3>5
      <4>2. CallLines(t, f) = CallLines(q, f)
        BY <1>1, <4>1 DEF CallLines
      <4> QED BY <1>3, <3>1, <3>3, <3>4, <3>5, <4>2
    <3>6. CASE mine = key
      <4>1. SameCall(c, f)
        BY <1>4, <3>6
      <4>2. table[key].path = f[3] /\ table[key].lines = CallLines(q, f) /\ table[key] = table[mine]
        BY <3>3, <3>6
      <4>3. CASE c[3] = f[3]
        <5>1. CallLines(t, f) = CallLines(q, f) \cup {c[4]}
          BY <1>1, <4>1, <4>3 DEF CallLines
        <5>2. [table[key] EXCEPT !.lines = @ \cup {c[4]}] = [path |-> f[3], lines |-> CallLines(q, f) \cup {c[4]}]
          BY <3>3, <4>2
        <5>3. new[key] = [table[key] EXCEPT !.lines = @ \cup {c[4]}]
          BY <1>3, <3>4, <3>6, <4>2, <4>3
        <5> QED BY <3>1, <3>6, <5>1, <5>2, <5>3
      <4>4. CASE c[3] # f[3]
        <5>1. CallLines(t, f) = CallLines(q, f)
          BY <1>1, <4>4 DEF CallLines
        <5>2. new[key] = table[key]
          BY <1>3, <3>4, <3>6, <4>2, <4>4
        <5> QED BY <3>1, <3>3, <3>6, <5>1, <5>2
      <4> QED BY <4>3, <4>4
    <3> QED BY <3>5, <3>6
  <2> QED BY <2>1, <2>2
<1>7. CalleesOf(new, t)
  BY <1>5, <1>6 DEF CalleesOf, FirstCall, CallLines
<1> QED BY <1>7 DEF new, t

LEMMA HitsMerged ==
    ASSUME NEW table, NEW q, IsList(q), HitsOf(table, q), NEW b, IsList(b)
    PROVE  HitsOf(AddHits(table, b), q \o b)
<1>1. PICK f : /\ f[0] = table
               /\ \A k \in 1 .. Len(b) : f[k] = AddHit(f[k - 1], b[k])
               /\ AddHits(table, b) = f[Len(b)]
  BY HitsFold
<1> DEFINE n == Len(b)
           T == {k \in 0 .. n : HitsOf(f[k], Grown(q, b, k))}
<1>2. n \in Nat
  BY ListLength
<1>3. 0 \in T
  <2>1. 0 \in 0 .. n
    BY <1>2
  <2>2. HitsOf(f[0], Grown(q, b, 0))
    BY <1>1, GrownEnds
  <2> QED BY <2>1, <2>2
<1>4. ASSUME NEW k \in T, k < n PROVE k + 1 \in T
  <2>1. k \in 0 .. n /\ k + 1 \in 0 .. n /\ k + 1 \in 1 .. n /\ (k + 1) - 1 = k
    BY <1>2, <1>4
  <2>2. f[k + 1] = AddHit(f[k], b[k + 1])
    BY <1>1, <2>1
  <2>3. IsList(Grown(q, b, k)) /\ Grown(q, b, k + 1) = Grown(q, b, k) \o <<b[k + 1]>>
    <3>1. k \in Nat /\ k < Len(b)
      BY <1>2, <1>4
    <3> HIDE DEF n, T
    <3> QED BY <3>1, GrownMore
  <2>4. HitsOf(f[k], Grown(q, b, k))
    BY <1>4
  <2> HIDE DEF T, n
  <2>5. HitsOf(f[k + 1], Grown(q, b, k + 1))
    BY <2>2, <2>3, <2>4, HitAdded
  <2> QED BY <2>1, <2>5 DEF T
<1>5. T \in SUBSET (0 .. n) /\ n \in 0 .. n
  BY <1>2
<1> HIDE DEF T
<1>6. T = 0 .. n
  BY <1>2, <1>3, <1>4, <1>5, UpTo
<1>7. HitsOf(f[n], Grown(q, b, n))
  BY <1>5, <1>6 DEF T
<1>8. Grown(q, b, n) = q \o b
  BY GrownEnds
<1> QED BY <1>1, <1>7, <1>8

LEMMA NamesMerged ==
    ASSUME NEW table, NEW q, IsList(q), NamesOf(table, q), NEW b, IsList(b)
    PROVE  NamesOf(AddNames(table, b), q \o b)
<1>1. PICK f : /\ f[0] = table
               /\ \A k \in 1 .. Len(b) : f[k] = AddName(f[k - 1], b[k])
               /\ AddNames(table, b) = f[Len(b)]
  BY NamesFold
<1> DEFINE n == Len(b)
           T == {k \in 0 .. n : NamesOf(f[k], Grown(q, b, k))}
<1>2. n \in Nat
  BY ListLength
<1>3. 0 \in T
  <2>1. 0 \in 0 .. n
    BY <1>2
  <2>2. NamesOf(f[0], Grown(q, b, 0))
    BY <1>1, GrownEnds
  <2> QED BY <2>1, <2>2
<1>4. ASSUME NEW k \in T, k < n PROVE k + 1 \in T
  <2>1. k \in 0 .. n /\ k + 1 \in 0 .. n /\ k + 1 \in 1 .. n /\ (k + 1) - 1 = k
    BY <1>2, <1>4
  <2>2. f[k + 1] = AddName(f[k], b[k + 1])
    BY <1>1, <2>1
  <2>3. IsList(Grown(q, b, k)) /\ Grown(q, b, k + 1) = Grown(q, b, k) \o <<b[k + 1]>>
    <3>1. k \in Nat /\ k < Len(b)
      BY <1>2, <1>4
    <3> HIDE DEF n, T
    <3> QED BY <3>1, GrownMore
  <2>4. NamesOf(f[k], Grown(q, b, k))
    BY <1>4
  <2> HIDE DEF T, n
  <2>5. NamesOf(f[k + 1], Grown(q, b, k + 1))
    BY <2>2, <2>3, <2>4, NameAdded
  <2> QED BY <2>1, <2>5 DEF T
<1>5. T \in SUBSET (0 .. n) /\ n \in 0 .. n
  BY <1>2
<1> HIDE DEF T
<1>6. T = 0 .. n
  BY <1>2, <1>3, <1>4, <1>5, UpTo
<1>7. NamesOf(f[n], Grown(q, b, n))
  BY <1>5, <1>6 DEF T
<1>8. Grown(q, b, n) = q \o b
  BY GrownEnds
<1> QED BY <1>1, <1>7, <1>8

LEMMA CalleesMerged ==
    ASSUME NEW table, NEW q, IsList(q), CalleesOf(table, q), NEW b, IsList(b)
    PROVE  CalleesOf(AddCallees(table, b), q \o b)
<1>1. PICK f : /\ f[0] = table
               /\ \A k \in 1 .. Len(b) : f[k] = AddCallee(f[k - 1], b[k])
               /\ AddCallees(table, b) = f[Len(b)]
  BY CalleesFold
<1> DEFINE n == Len(b)
           T == {k \in 0 .. n : CalleesOf(f[k], Grown(q, b, k))}
<1>2. n \in Nat
  BY ListLength
<1>3. 0 \in T
  <2>1. 0 \in 0 .. n
    BY <1>2
  <2>2. CalleesOf(f[0], Grown(q, b, 0))
    BY <1>1, GrownEnds
  <2> QED BY <2>1, <2>2
<1>4. ASSUME NEW k \in T, k < n PROVE k + 1 \in T
  <2>1. k \in 0 .. n /\ k + 1 \in 0 .. n /\ k + 1 \in 1 .. n /\ (k + 1) - 1 = k
    BY <1>2, <1>4
  <2>2. f[k + 1] = AddCallee(f[k], b[k + 1])
    BY <1>1, <2>1
  <2>3. IsList(Grown(q, b, k)) /\ Grown(q, b, k + 1) = Grown(q, b, k) \o <<b[k + 1]>>
    <3>1. k \in Nat /\ k < Len(b)
      BY <1>2, <1>4
    <3> HIDE DEF n, T
    <3> QED BY <3>1, GrownMore
  <2>4. CalleesOf(f[k], Grown(q, b, k))
    BY <1>4
  <2> HIDE DEF T, n
  <2>5. CalleesOf(f[k + 1], Grown(q, b, k + 1))
    BY <2>2, <2>3, <2>4, CallAdded
  <2> QED BY <2>1, <2>5 DEF T
<1>5. T \in SUBSET (0 .. n) /\ n \in 0 .. n
  BY <1>2
<1> HIDE DEF T
<1>6. T = 0 .. n
  BY <1>2, <1>3, <1>4, <1>5, UpTo
<1>7. CalleesOf(f[n], Grown(q, b, n))
  BY <1>5, <1>6 DEF T
<1>8. Grown(q, b, n) = q \o b
  BY GrownEnds
<1> QED BY <1>1, <1>7, <1>8

LEMMA RecordsMerged ==
    ASSUME NEW table, NEW q, IsList(q), RecordsOf(table, q), NEW b, IsList(b)
    PROVE  RecordsOf(MergeMeta(table, b), q \o b)
<1>1. PICK f : /\ f[0] = table
               /\ \A k \in 1 .. Len(b) : f[k] = AddRecord(f[k - 1], b[k])
               /\ MergeMeta(table, b) = f[Len(b)]
  BY MetaFold
<1> DEFINE n == Len(b)
           T == {k \in 0 .. n : RecordsOf(f[k], Grown(q, b, k))}
<1>2. n \in Nat
  BY ListLength
<1>3. 0 \in T
  <2>1. 0 \in 0 .. n
    BY <1>2
  <2>2. RecordsOf(f[0], Grown(q, b, 0))
    BY <1>1, GrownEnds
  <2> QED BY <2>1, <2>2
<1>4. ASSUME NEW k \in T, k < n PROVE k + 1 \in T
  <2>1. k \in 0 .. n /\ k + 1 \in 0 .. n /\ k + 1 \in 1 .. n /\ (k + 1) - 1 = k
    BY <1>2, <1>4
  <2>2. f[k + 1] = AddRecord(f[k], b[k + 1])
    BY <1>1, <2>1
  <2>3. IsList(Grown(q, b, k)) /\ Grown(q, b, k + 1) = Grown(q, b, k) \o <<b[k + 1]>>
    <3>1. k \in Nat /\ k < Len(b)
      BY <1>2, <1>4
    <3> HIDE DEF n, T
    <3> QED BY <3>1, GrownMore
  <2>4. RecordsOf(f[k], Grown(q, b, k))
    BY <1>4
  <2> HIDE DEF T, n
  <2>5. RecordsOf(f[k + 1], Grown(q, b, k + 1))
    BY <2>2, <2>3, <2>4, RecordAdded
  <2> QED BY <2>1, <2>5 DEF T
<1>5. T \in SUBSET (0 .. n) /\ n \in 0 .. n
  BY <1>2
<1> HIDE DEF T
<1>6. T = 0 .. n
  BY <1>2, <1>3, <1>4, <1>5, UpTo
<1>7. RecordsOf(f[n], Grown(q, b, n))
  BY <1>5, <1>6 DEF T
<1>8. Grown(q, b, n) = q \o b
  BY GrownEnds
<1> QED BY <1>1, <1>7, <1>8

-----------------------------------------------------------------------------
(* Linking *)

HasStated(m) == \A s \in DOMAIN m : Stated \subseteq DOMAIN m[s]

\* What the records of m state is what those of n state.
Keeps(m, n) ==
    /\ DOMAIN n = DOMAIN m
    /\ \A s \in DOMAIN m : \A k \in Stated : n[s][k] = m[s][k]

LEMMA KeepsRecords ==
    ASSUME NEW m, NEW n, NEW q, Keeps(m, n), RecordsOf(m, q)
    PROVE  RecordsOf(n, q)
<1>1. DOMAIN m = {r.sym : r \in ToSet(q)}
  BY DEF RecordsOf
<1>2. \A i \in DOMAIN q : q[i].sym \in DOMAIN m
  BY <1>1, Members
<1>3. DOMAIN n = {r.sym : r \in ToSet(q)}
  BY <1>1 DEF Keeps
<1>4. ASSUME NEW i \in DOMAIN q, \A j \in DOMAIN q : j < i => q[j].sym # q[i].sym, NEW k \in Stated
      PROVE  n[q[i].sym][k] = q[i][k]
  <2>1. m[q[i].sym][k] = q[i][k]
    BY <1>4 DEF RecordsOf
  <2>2. n[q[i].sym][k] = m[q[i].sym][k]
    BY <1>2 DEF Keeps
  <2> QED BY <2>1, <2>2
<1> QED BY <1>3, <1>4 DEF RecordsOf

LEMMA StatedNames == "subclass_syms" \notin Stated /\ "overridden_by" \notin Stated
                     /\ "binding_slots" \notin Stated /\ "slot_owner" \notin Stated /\ "subsystem" \notin Stated
BY DEF Stated

LEMMA SubclassKeeps ==
    ASSUME NEW m, HasStated(m), NEW p
    PROVE  HasStated(AddSubclass(m, p)) /\ Keeps(m, AddSubclass(m, p))
<1> DEFINE n == AddSubclass(m, p)
<1>1. CASE p[1] \notin DOMAIN m
  BY <1>1 DEF AddSubclass, Keeps
<1>2. CASE p[1] \in DOMAIN m
  <2>1. n = [m EXCEPT ![p[1]].subclass_syms = Append(@, p[2])]
    BY <1>2 DEF AddSubclass
  <2>2. /\ DOMAIN n = DOMAIN m
        /\ \A s \in DOMAIN m : DOMAIN n[s] = DOMAIN m[s]
        /\ \A s \in DOMAIN m : \A k \in DOMAIN m[s] : k # "subclass_syms" => n[s][k] = m[s][k]
    BY <2>1
  <2> HIDE DEF n
  <2>3. HasStated(n) /\ Keeps(m, n)
    BY <2>2, StatedNames DEF HasStated, Keeps
  <2> QED BY <2>3 DEF n
<1> QED BY <1>1, <1>2

LEMMA OverrideKeeps ==
    ASSUME NEW m, HasStated(m), NEW p
    PROVE  HasStated(AddOverride(m, p)) /\ Keeps(m, AddOverride(m, p))
<1> DEFINE n == AddOverride(m, p)
<1>1. CASE p[1] \notin DOMAIN m
  BY <1>1 DEF AddOverride, Keeps
<1>2. CASE p[1] \in DOMAIN m
  <2>1. n = [m EXCEPT ![p[1]].overridden_by = Append(@, p[2])]
    BY <1>2 DEF AddOverride
  <2>2. /\ DOMAIN n = DOMAIN m
        /\ \A s \in DOMAIN m : DOMAIN n[s] = DOMAIN m[s]
        /\ \A s \in DOMAIN m : \A k \in DOMAIN m[s] : k # "overridden_by" => n[s][k] = m[s][k]
    BY <2>1
  <2> HIDE DEF n
  <2>3. HasStated(n) /\ Keeps(m, n)
    BY <2>2, StatedNames DEF HasStated, Keeps
  <2> QED BY <2>3 DEF n
<1> QED BY <1>1, <1>2

LEMMA SlotKeeps ==
    ASSUME NEW m, HasStated(m), NEW s
    PROVE  HasStated(LinkSlot(m, s)) /\ Keeps(m, LinkSlot(m, s))
<1> DEFINE o == IF s[1] \in DOMAIN m
                THEN [m EXCEPT ![s[1]].binding_slots = Append(@, [sym |-> s[2], props |-> s[3]]),
                               ![s[1]].subsystem = IF @ = None THEN s[4] ELSE @]
                ELSE m
           n == IF s[2] \in DOMAIN o
                THEN [o EXCEPT ![s[2]].slot_owner = <<[sym |-> s[1], props |-> s[3]]>>,
                               ![s[2]].subsystem = s[4]]
                ELSE o
<1>1. LinkSlot(m, s) = n
  BY DEF LinkSlot
<1>2. /\ DOMAIN o = DOMAIN m
      /\ \A x \in DOMAIN m : DOMAIN o[x] = DOMAIN m[x]
      /\ \A x \in DOMAIN m : \A k \in DOMAIN m[x] :
            k # "binding_slots" /\ k # "subsystem" => o[x][k] = m[x][k]
  OBVIOUS
<1> HIDE DEF o
<1>3. /\ DOMAIN n = DOMAIN o
      /\ \A x \in DOMAIN o : DOMAIN n[x] = DOMAIN o[x]
      /\ \A x \in DOMAIN o : \A k \in DOMAIN o[x] :
            k # "slot_owner" /\ k # "subsystem" => n[x][k] = o[x][k]
  OBVIOUS
<1> HIDE DEF n
<1>4. DOMAIN n = DOMAIN m /\ \A x \in DOMAIN m : DOMAIN n[x] = DOMAIN m[x]
  BY <1>2, <1>3
<1>5. \A x \in DOMAIN m : \A k \in Stated : n[x][k] = m[x][k]
  BY <1>2, <1>3, StatedNames DEF HasStated
<1> QED BY <1>1, <1>4, <1>5 DEF HasStated, Keeps

LEMMA SubclassesKeep ==
    ASSUME NEW m, HasStated(m), NEW b, IsList(b)
    PROVE  Keeps(m, LinkSubclasses(m, b)) /\ HasStated(LinkSubclasses(m, b))
<1>1. PICK f : /\ f[0] = m
               /\ \A k \in 1 .. Len(b) : f[k] = AddSubclass(f[k - 1], b[k])
               /\ LinkSubclasses(m, b) = f[Len(b)]
  BY SubclassFold
<1> DEFINE n == Len(b)
           T == {k \in 0 .. n : Keeps(m, f[k]) /\ HasStated(f[k])}
<1>2. n \in Nat
  BY ListLength
<1>3. 0 \in T
  BY <1>1, <1>2 DEF Keeps
<1>4. ASSUME NEW k \in T, k < n PROVE k + 1 \in T
  <2>1. k + 1 \in 0 .. n /\ k + 1 \in 1 .. n /\ (k + 1) - 1 = k
    BY <1>2, <1>4
  <2>2. f[k + 1] = AddSubclass(f[k], b[k + 1])
    BY <1>1, <2>1
  <2>3. HasStated(f[k + 1]) /\ Keeps(f[k], f[k + 1])
    BY <1>4, <2>2, SubclassKeeps
  <2>4. Keeps(m, f[k + 1])
    BY <1>4, <2>3 DEF Keeps
  <2> QED BY <2>1, <2>3, <2>4
<1>5. T \in SUBSET (0 .. n) /\ n \in 0 .. n
  BY <1>2
<1> HIDE DEF T
<1>6. T = 0 .. n
  BY <1>2, <1>3, <1>4, <1>5, UpTo
<1> QED BY <1>1, <1>5, <1>6 DEF T

LEMMA OverridesKeep ==
    ASSUME NEW m, HasStated(m), NEW b, IsList(b)
    PROVE  Keeps(m, LinkOverrides(m, b)) /\ HasStated(LinkOverrides(m, b))
<1>1. PICK f : /\ f[0] = m
               /\ \A k \in 1 .. Len(b) : f[k] = AddOverride(f[k - 1], b[k])
               /\ LinkOverrides(m, b) = f[Len(b)]
  BY OverrideFold
<1> DEFINE n == Len(b)
           T == {k \in 0 .. n : Keeps(m, f[k]) /\ HasStated(f[k])}
<1>2. n \in Nat
  BY ListLength
<1>3. 0 \in T
  BY <1>1, <1>2 DEF Keeps
<1>4. ASSUME NEW k \in T, k < n PROVE k + 1 \in T
  <2>1. k + 1 \in 0 .. n /\ k + 1 \in 1 .. n /\ (k + 1) - 1 = k
    BY <1>2, <1>4
  <2>2. f[k + 1] = AddOverride(f[k], b[k + 1])
    BY <1>1, <2>1
  <2>3. HasStated(f[k + 1]) /\ Keeps(f[k], f[k + 1])
    BY <1>4, <2>2, OverrideKeeps
  <2>4. Keeps(m, f[k + 1])
    BY <1>4, <2>3 DEF Keeps
  <2> QED BY <2>1, <2>3, <2>4
<1>5. T \in SUBSET (0 .. n) /\ n \in 0 .. n
  BY <1>2
<1> HIDE DEF T
<1>6. T = 0 .. n
  BY <1>2, <1>3, <1>4, <1>5, UpTo
<1> QED BY <1>1, <1>5, <1>6 DEF T

LEMMA SlotsKeep ==
    ASSUME NEW m, HasStated(m), NEW b, IsList(b)
    PROVE  Keeps(m, LinkAll(m, b)) /\ HasStated(LinkAll(m, b))
<1>1. PICK f : /\ f[0] = m
               /\ \A k \in 1 .. Len(b) : f[k] = LinkSlot(f[k - 1], b[k])
               /\ LinkAll(m, b) = f[Len(b)]
  BY LinkFold
<1> DEFINE n == Len(b)
           T == {k \in 0 .. n : Keeps(m, f[k]) /\ HasStated(f[k])}
<1>2. n \in Nat
  BY ListLength
<1>3. 0 \in T
  BY <1>1, <1>2 DEF Keeps
<1>4. ASSUME NEW k \in T, k < n PROVE k + 1 \in T
  <2>1. k + 1 \in 0 .. n /\ k + 1 \in 1 .. n /\ (k + 1) - 1 = k
    BY <1>2, <1>4
  <2>2. f[k + 1] = LinkSlot(f[k], b[k + 1])
    BY <1>1, <2>1
  <2>3. HasStated(f[k + 1]) /\ Keeps(f[k], f[k + 1])
    BY <1>4, <2>2, SlotKeeps
  <2>4. Keeps(m, f[k + 1])
    BY <1>4, <2>3 DEF Keeps
  <2> QED BY <2>1, <2>3, <2>4
<1>5. T \in SUBSET (0 .. n) /\ n \in 0 .. n
  BY <1>2
<1> HIDE DEF T
<1>6. T = 0 .. n
  BY <1>2, <1>3, <1>4, <1>5, UpTo
<1> QED BY <1>1, <1>5, <1>6 DEF T

-----------------------------------------------------------------------------
(* Merging *)

LEMMA RecordStated ==
    ASSUME NEW m, HasStated(m), NEW r, Stated \subseteq DOMAIN r
    PROVE  HasStated(AddRecord(m, r))
BY DEF HasStated, AddRecord, Put

LEMMA MergeStated ==
    ASSUME NEW m, HasStated(m), NEW b, IsList(b), \A r \in ToSet(b) : Stated \subseteq DOMAIN r
    PROVE  HasStated(MergeMeta(m, b))
<1>1. PICK f : /\ f[0] = m
               /\ \A k \in 1 .. Len(b) : f[k] = AddRecord(f[k - 1], b[k])
               /\ MergeMeta(m, b) = f[Len(b)]
  BY MetaFold
<1> DEFINE n == Len(b)
           T == {k \in 0 .. n : HasStated(f[k])}
<1>2. n \in Nat /\ DOMAIN b = 1 .. n
  BY ListLength
<1>3. 0 \in T
  BY <1>1, <1>2
<1>4. ASSUME NEW k \in T, k < n PROVE k + 1 \in T
  <2>1. k \in 0 .. n /\ k + 1 \in 0 .. n /\ k + 1 \in 1 .. n /\ (k + 1) - 1 = k
    BY <1>2, <1>4
  <2>2. f[k + 1] = AddRecord(f[k], b[k + 1])
    BY <1>1, <2>1
  <2>3. Stated \subseteq DOMAIN b[k + 1]
    BY <1>2, <2>1, Members
  <2>4. HasStated(f[k])
    BY <1>4
  <2>5. HasStated(f[k + 1])
    BY <2>2, <2>3, <2>4, RecordStated
  <2> QED BY <2>1, <2>5
<1>5. T \in SUBSET (0 .. n) /\ n \in 0 .. n
  BY <1>2
<1> HIDE DEF T
<1>6. T = 0 .. n
  BY <1>2, <1>3, <1>4, <1>5, UpTo
<1> QED BY <1>1, <1>5, <1>6 DEF T

\* What the tables t and the records m hold of the items q.
Holds(t, m, q) ==
    /\ HitsOf(t.hits, q.hits)
    /\ t.syms = {h[1] : h \in ToSet(q.hits)} \cup ToSet(q.tops)
    /\ NamesOf(t.prettys, q.prettys)
    /\ t.ids = ToSet(q.ids)
    /\ CalleesOf(t.callees, q.callees)
    /\ RecordsOf(m, q.structured)
    /\ HasStated(m)

LEMMA HoldsNothing == Holds(NoTables, <<>>, NoItems)
<1>1. DOMAIN <<>> = {} /\ ToSet(<<>>) = {}
  BY EmptyList
<1>2. /\ NoItems.hits = <<>> /\ NoItems.tops = <<>> /\ NoItems.prettys = <<>> /\ NoItems.ids = <<>>
      /\ NoItems.callees = <<>> /\ NoItems.structured = <<>>
  BY DEF NoItems
<1>3. NoTables.hits = <<>> /\ NoTables.syms = {} /\ NoTables.prettys = <<>> /\ NoTables.ids = {} /\ NoTables.callees = <<>>
  BY DEF NoTables
<1>4. HitsOf(<<>>, <<>>)
  BY <1>1 DEF HitsOf
<1>5. NamesOf(<<>>, <<>>)
  BY <1>1 DEF NamesOf
<1>6. CalleesOf(<<>>, <<>>)
  BY <1>1 DEF CalleesOf
<1>7. RecordsOf(<<>>, <<>>)
  BY <1>1 DEF RecordsOf
<1>8. HasStated(<<>>)
  BY <1>1 DEF HasStated
<1> QED BY <1>1, <1>2, <1>3, <1>4, <1>5, <1>6, <1>7, <1>8 DEF Holds

\* Merging the items b adds just what they say.
LEMMA HoldsMore ==
    ASSUME NEW t, NEW m, NEW q, NEW b, ItemsTyped(q), ItemsTyped(b), Holds(t, m, q)
    PROVE  Holds(MergeTables(t, b), MergeMeta(m, b.structured), Both(q, b))
<1> DEFINE new == MergeTables(t, b)
           all == Both(q, b)
<1>1. /\ IsList(q.hits) /\ IsList(q.tops) /\ IsList(q.prettys) /\ IsList(q.ids)
      /\ IsList(q.callees) /\ IsList(q.structured)
  BY Columns DEF ItemsTyped
<1>2. /\ IsList(b.hits) /\ IsList(b.tops) /\ IsList(b.prettys) /\ IsList(b.ids)
      /\ IsList(b.callees) /\ IsList(b.structured)
  BY Columns DEF ItemsTyped
<1>3. /\ all.hits = q.hits \o b.hits /\ all.tops = q.tops \o b.tops /\ all.prettys = q.prettys \o b.prettys
      /\ all.ids = q.ids \o b.ids /\ all.callees = q.callees \o b.callees
      /\ all.structured = q.structured \o b.structured
  BY DEF Both, NoItems
<1>4. /\ new.hits = AddHits(t.hits, b.hits)
      /\ new.syms = t.syms \cup {h[1] : h \in ToSet(b.hits)} \cup ToSet(b.tops)
      /\ new.prettys = AddNames(t.prettys, b.prettys)
      /\ new.ids = t.ids \cup ToSet(b.ids)
      /\ new.callees = AddCallees(t.callees, b.callees)
  BY DEF MergeTables
<1> HIDE DEF new, all
<1>5. HitsOf(new.hits, all.hits)
  <2>1. HitsOf(t.hits, q.hits)
    BY DEF Holds
  <2>2. HitsOf(AddHits(t.hits, b.hits), q.hits \o b.hits)
    BY <1>1, <1>2, <2>1, HitsMerged
  <2> QED BY <1>3, <1>4, <2>2
<1>6. new.syms = {h[1] : h \in ToSet(all.hits)} \cup ToSet(all.tops)
  <2>1. ToSet(q.hits \o b.hits) = ToSet(q.hits) \cup ToSet(b.hits)
    BY <1>1, <1>2, JoinedSet
  <2>2. ToSet(q.tops \o b.tops) = ToSet(q.tops) \cup ToSet(b.tops)
    BY <1>1, <1>2, JoinedSet
  <2>3. ToSet(all.hits) = ToSet(q.hits) \cup ToSet(b.hits)
    BY <1>3, <2>1
  <2>4. ToSet(all.tops) = ToSet(q.tops) \cup ToSet(b.tops)
    BY <1>3, <2>2
  <2>5. t.syms = {h[1] : h \in ToSet(q.hits)} \cup ToSet(q.tops)
    BY DEF Holds
  <2> DEFINE A == ToSet(q.hits)
             B == ToSet(b.hits)
  <2>6. {h[1] : h \in A \cup B} = {h[1] : h \in A} \cup {h[1] : h \in B}
    <3> HIDE DEF A, B
    <3> QED OBVIOUS
  <2>7. {h[1] : h \in ToSet(all.hits)} = {h[1] : h \in A} \cup {h[1] : h \in B}
    BY <2>3, <2>6
  <2> QED BY <1>4, <2>4, <2>5, <2>7
<1>7. NamesOf(new.prettys, all.prettys)
  <2>1. NamesOf(t.prettys, q.prettys)
    BY DEF Holds
  <2>2. NamesOf(AddNames(t.prettys, b.prettys), q.prettys \o b.prettys)
    BY <1>1, <1>2, <2>1, NamesMerged
  <2> QED BY <1>3, <1>4, <2>2
<1>8. new.ids = ToSet(all.ids)
  <2>1. ToSet(q.ids \o b.ids) = ToSet(q.ids) \cup ToSet(b.ids)
    BY <1>1, <1>2, JoinedSet
  <2>2. t.ids = ToSet(q.ids)
    BY DEF Holds
  <2> QED BY <1>3, <1>4, <2>1, <2>2
<1>9. CalleesOf(new.callees, all.callees)
  <2>1. CalleesOf(t.callees, q.callees)
    BY DEF Holds
  <2>2. CalleesOf(AddCallees(t.callees, b.callees), q.callees \o b.callees)
    BY <1>1, <1>2, <2>1, CalleesMerged
  <2> QED BY <1>3, <1>4, <2>2
<1>10. RecordsOf(MergeMeta(m, b.structured), all.structured)
  <2>1. RecordsOf(m, q.structured)
    BY DEF Holds
  <2>2. RecordsOf(MergeMeta(m, b.structured), q.structured \o b.structured)
    BY <1>1, <1>2, <2>1, RecordsMerged
  <2> QED BY <1>3, <2>2
<1>11. HasStated(MergeMeta(m, b.structured))
  <2>1. HasStated(m)
    BY DEF Holds
  <2>2. \A r \in ToSet(b.structured) : Stated \subseteq DOMAIN r
    BY DEF ItemsTyped
  <2> QED BY <1>2, <2>1, <2>2, MergeStated
<1>12. Holds(new, MergeMeta(m, b.structured), all)
  BY <1>5, <1>6, <1>7, <1>8, <1>9, <1>10, <1>11 DEF Holds
<1> QED BY <1>12 DEF new, all

\* Records that state the same hold the same.
LEMMA HoldsKept ==
    ASSUME NEW t, NEW m, NEW n, NEW q, Holds(t, m, q), Keeps(m, n), HasStated(n)
    PROVE  Holds(t, n, q)
<1>1. RecordsOf(n, q.structured)
  BY KeepsRecords DEF Holds
<1> QED BY <1>1 DEF Holds

-----------------------------------------------------------------------------
(* The steps *)

Holding(n) == Holds(tables, meta, Part(files, 0, n))

(* A thread has what the files of its range give, as far as it has come;   *)
(* and the tables hold what the ranges give that are merged.               *)
ReadInv ==
    /\ files \in Trees
    /\ phase \in {"read", "merge", "link", "slots", "fields"}
    /\ next \in [Readers -> Nat]
    /\ \A t \in Readers : StartOf(t) <= next[t] /\ next[t] <= EndOf(t)
    /\ out = [t \in Readers |-> Part(files, StartOf(t), next[t])]
    /\ phase # "read" => \A t \in Readers : next[t] = EndOf(t)
    /\ from \in 0 .. thread_count
    /\ phase = "read" => from = 0
    /\ phase \in {"read", "merge"} => Holding(UpTill(from))
    /\ Merged => Holding(total)

LEMMA FromFiles ==
    ASSUME files' = files
    PROVE  /\ Readers' = Readers /\ total' = total /\ thread_count' = thread_count
           /\ \A t : StartOf(t)' = StartOf(t) /\ EndOf(t)' = EndOf(t) /\ UpTill(t)' = UpTill(t)
<1>1. total' = total
  BY DEF total
<1>2. thread_count' = thread_count
  BY <1>1 DEF thread_count
<1>3. Readers' = Readers /\ chunk' = chunk
  BY <1>1, <1>2 DEF Readers, chunk
<1>4. \A t : StartOf(t)' = StartOf(t)
  BY <1>3 DEF StartOf
<1>5. \A t : EndOf(t)' = EndOf(t) /\ UpTill(t)' = UpTill(t)
  BY <1>1, <1>2, <1>3, <1>4 DEF EndOf, UpTill
<1> QED BY <1>1, <1>2, <1>3, <1>4, <1>5

LEMMA ReadInvInit == ReadInit => ReadInv
<1> SUFFICES ASSUME ReadInit PROVE ReadInv
  OBVIOUS
<1>1. /\ files \in Trees /\ phase = "read" /\ from = 0 /\ tables = NoTables /\ meta = <<>>
      /\ next = [t \in Readers |-> StartOf(t)] /\ out = [t \in Readers |-> NoItems]
  BY DEF ReadInit
<1>2. /\ thread_count \in Nat /\ UpTill(0) = 0
      /\ \A t \in Readers : StartOf(t) \in Nat /\ EndOf(t) \in Nat /\ StartOf(t) <= EndOf(t)
  BY <1>1, Ranges
<1>3. next \in [Readers -> Nat] /\ \A t \in Readers : StartOf(t) <= next[t] /\ next[t] <= EndOf(t)
  BY <1>1, <1>2
<1>4. \A t \in Readers : Part(files, StartOf(t), next[t]) = NoItems
  BY <1>1, <1>2, PartNone
<1>5. out = [t \in Readers |-> Part(files, StartOf(t), next[t])]
  BY <1>1, <1>4
<1>6. Holding(UpTill(from))
  <2>1. Part(files, 0, 0) = NoItems
    BY PartNone
  <2> QED BY <1>1, <1>2, <2>1, HoldsNothing DEF Holding
<1>7. from \in 0 .. thread_count /\ ~Merged
  BY <1>1, <1>2 DEF Merged
<1> QED BY <1>1, <1>3, <1>5, <1>6, <1>7 DEF ReadInv

LEMMA ReadFileStep == ASSUME ReadInv, NEW t \in Readers, ReadFile(t) PROVE ReadInv'
<1>1. /\ phase = "read" /\ next[t] < EndOf(t)
      /\ out' = [out EXCEPT ![t] = Both(@, ReadItems(files[next[t] + 1]))]
      /\ next' = [next EXCEPT ![t] = @ + 1]
      /\ files' = files /\ phase' = phase /\ from' = from /\ tables' = tables /\ meta' = meta
  BY DEF ReadFile
<1>2. /\ files \in Trees /\ next \in [Readers -> Nat] /\ from \in 0 .. thread_count /\ from = 0
      /\ \A u \in Readers : StartOf(u) <= next[u] /\ next[u] <= EndOf(u)
      /\ out = [u \in Readers |-> Part(files, StartOf(u), next[u])]
      /\ Holding(UpTill(from))
  BY <1>1 DEF ReadInv
<1>3. /\ Readers' = Readers /\ total' = total /\ thread_count' = thread_count
      /\ \A u : StartOf(u)' = StartOf(u) /\ EndOf(u)' = EndOf(u) /\ UpTill(u)' = UpTill(u)
  BY <1>1, FromFiles
<1>4. /\ StartOf(t) \in Nat /\ EndOf(t) \in Nat /\ EndOf(t) <= Len(files) /\ Len(files) \in Nat
  BY <1>2, Ranges DEF total
<1>5. next' \in [Readers -> Nat] /\ next'[t] = next[t] + 1 /\ \A u \in Readers : u # t => next'[u] = next[u]
  BY <1>1, <1>2
<1>6. \A u \in Readers : StartOf(u) <= next'[u] /\ next'[u] <= EndOf(u)
  BY <1>1, <1>2, <1>4, <1>5
<1>7. Part(files, StartOf(t), next[t] + 1) = Both(Part(files, StartOf(t), next[t]), ReadItems(files[next[t] + 1]))
  <2>1. next[t] \in Nat /\ StartOf(t) <= next[t] /\ next[t] < Len(files)
    BY <1>1, <1>2, <1>4
  <2> QED BY <1>2, <1>4, <2>1, PartMore
<1>8. out' = [u \in Readers |-> Part(files, StartOf(u), next'[u])]
  <2>1. out' = [u \in Readers |-> IF u = t THEN Both(out[t], ReadItems(files[next[t] + 1])) ELSE out[u]]
    BY <1>1, <1>2
  <2>2. out[t] = Part(files, StartOf(t), next[t])
    BY <1>2
  <2>3. \A u \in Readers : (IF u = t THEN Both(out[t], ReadItems(files[next[t] + 1])) ELSE out[u])
                               = Part(files, StartOf(u), next'[u])
    BY <1>2, <1>5, <1>7, <2>2
  <2> QED BY <2>1, <2>3
<1>9. Holding(UpTill(from))' <=> Holding(UpTill(from))
  BY <1>1, <1>3 DEF Holding
<1>10. out' = [u \in Readers |-> Part(files, StartOf(u), next[u])]'
  BY <1>1, <1>3, <1>8
<1>11. ~Merged'
  BY <1>1 DEF Merged
<1> QED BY <1>1, <1>2, <1>3, <1>5, <1>6, <1>9, <1>10, <1>11 DEF ReadInv

\* A step that changes at most the phase, the tables and the records.
LEMMA OutStays ==
    ASSUME ReadInv, files' = files, next' = next, out' = out
    PROVE  /\ (files \in Trees)' /\ (next \in [Readers -> Nat])'
           /\ (\A t \in Readers : StartOf(t) <= next[t] /\ next[t] <= EndOf(t))'
           /\ (out = [t \in Readers |-> Part(files, StartOf(t), next[t])])'
           /\ (\A t \in Readers : next[t] = EndOf(t))' <=> (\A t \in Readers : next[t] = EndOf(t))
<1>1. /\ Readers' = Readers /\ total' = total /\ thread_count' = thread_count
      /\ \A u : StartOf(u)' = StartOf(u) /\ EndOf(u)' = EndOf(u) /\ UpTill(u)' = UpTill(u)
  BY FromFiles
<1>2. [t \in Readers |-> Part(files, StartOf(t), next[t])]' = [t \in Readers |-> Part(files, StartOf(t), next[t])]
  BY <1>1
<1> QED BY <1>1, <1>2 DEF ReadInv

LEMMA ReadersJoinedStep == ReadInv /\ ReadersJoined => ReadInv'
<1> SUFFICES ASSUME ReadInv, ReadersJoined PROVE ReadInv'
  OBVIOUS
<1>1. /\ phase = "read" /\ \A t \in Readers : next[t] = EndOf(t)
      /\ phase' = "merge" /\ files' = files /\ next' = next /\ from' = from /\ out' = out
      /\ tables' = tables /\ meta' = meta
  BY DEF ReadersJoined
<1>2. thread_count' = thread_count /\ UpTill(from)' = UpTill(from)
  BY <1>1, FromFiles
<1>3. from \in 0 .. thread_count /\ Holding(UpTill(from))
  BY <1>1 DEF ReadInv
<1>4. Holding(UpTill(from))'
  BY <1>1, <1>2, <1>3 DEF Holding
<1>5. ~Merged' /\ phase' # "read" /\ phase' \in {"read", "merge", "link", "slots", "fields"}
  BY <1>1 DEF Merged
<1> QED BY <1>1, <1>2, <1>3, <1>4, <1>5, OutStays DEF ReadInv

LEMMA MergeOutStep == ReadInv /\ MergeOut => ReadInv'
<1> SUFFICES ASSUME ReadInv, MergeOut PROVE ReadInv'
  OBVIOUS
<1>1. phase = "merge" /\ files' = files /\ next' = next /\ out' = out
  BY DEF MergeOut
<1>2. /\ files \in Trees /\ from \in 0 .. thread_count /\ Holding(UpTill(from))
      /\ next \in [Readers -> Nat] /\ \A t \in Readers : next[t] = EndOf(t)
      /\ out = [t \in Readers |-> Part(files, StartOf(t), next[t])]
  BY <1>1 DEF ReadInv
<1>3. /\ total' = total /\ thread_count' = thread_count /\ \A u : UpTill(u)' = UpTill(u)
  BY <1>1, FromFiles
<1>4. /\ total \in Nat /\ thread_count \in Nat /\ UpTill(thread_count) = total
      /\ \A t \in Readers : /\ StartOf(t) \in Nat /\ EndOf(t) \in Nat
                            /\ StartOf(t) <= EndOf(t) /\ EndOf(t) <= total
                            /\ UpTill(t) = StartOf(t) /\ UpTill(t + 1) = EndOf(t)
  BY <1>2, Ranges
<1>5. CASE from < thread_count
  <2>1. /\ tables' = MergeTables(tables, out[from]) /\ meta' = MergeMeta(meta, out[from].structured)
        /\ from' = from + 1 /\ phase' = phase
    BY <1>5 DEF MergeOut
  <2>2. from \in Readers /\ from + 1 \in 0 .. thread_count
    BY <1>2, <1>4, <1>5 DEF Readers
  <2> DEFINE a == StartOf(from)
             b == EndOf(from)
             p == Part(files, 0, a)
             q == Part(files, a, b)
  <2>3. a \in Nat /\ b \in Nat /\ a <= b /\ b <= Len(files) /\ Len(files) \in Nat /\ UpTill(from) = a /\ UpTill(from + 1) = b
    BY <1>4, <2>2 DEF total
  <2>4. out[from] = q
    BY <1>2, <2>2
  <2> HIDE DEF a, b
  <2>5. ItemsTyped(p) /\ ItemsTyped(q)
    <3>1. 0 <= a /\ a <= Len(files) /\ 0 \in Nat
      BY <2>3
    <3> QED BY <1>2, <2>3, <3>1, GivesTyped
  <2>6. Both(p, q) = Part(files, 0, b)
    <3>1. 0 <= a /\ 0 \in Nat
      BY <2>3
    <3> QED BY <1>2, <2>3, <3>1, PartsJoin
  <2>7. Holds(tables, meta, p)
    BY <1>2, <2>3 DEF Holding
  <2> HIDE DEF p, q
  <2>8. Holds(MergeTables(tables, q), MergeMeta(meta, q.structured), Both(p, q))
    BY <2>5, <2>7, HoldsMore
  <2>9. Holds(tables', meta', Part(files', 0, UpTill(from + 1)))
    BY <1>1, <2>1, <2>3, <2>4, <2>6, <2>8
  <2>10. UpTill(from)' = UpTill(from + 1)
    <3>1. UpTill(from + 1) = IF from + 1 = thread_count THEN total ELSE chunk * (from + 1)
      BY DEF UpTill, StartOf
    <3>2. UpTill(from)' = IF from' = thread_count' THEN total' ELSE chunk' * from'
      BY DEF UpTill, StartOf
    <3>3. chunk' = chunk
      BY <1>3 DEF chunk
    <3> QED BY <1>3, <2>1, <3>1, <3>2, <3>3
  <2>11. Holding(UpTill(from))'
    BY <2>9, <2>10 DEF Holding
  <2>12. phase' = "merge" /\ ~Merged'
    BY <1>1, <2>1 DEF Merged
  <2>13. (from \in 0 .. thread_count)'
    BY <1>3, <2>1, <2>2
  <2> QED BY <1>1, <1>2, <2>11, <2>12, <2>13, OutStays DEF ReadInv
<1>6. CASE ~(from < thread_count)
  <2>1. phase' = "link" /\ from' = 0 /\ tables' = tables /\ meta' = meta
    BY <1>6 DEF MergeOut
  <2>2. from = thread_count
    BY <1>2, <1>4, <1>6
  <2>3. Holding(total)
    BY <1>2, <1>4, <2>2
  <2>4. Holding(total)'
    BY <1>1, <1>3, <2>1, <2>3 DEF Holding
  <2>5. (from \in 0 .. thread_count)'
    BY <1>3, <1>4, <2>1
  <2> QED BY <1>1, <1>2, <2>1, <2>4, <2>5, OutStays DEF ReadInv
<1> QED BY <1>5, <1>6

\* When the tables are complete, what the records state stays.
LEMMA LinkingStep ==
    ASSUME ReadInv, Merged, files' = files, next' = next, out' = out, tables' = tables,
           phase' \in {"link", "slots", "fields"}, from' \in 0 .. thread_count,
           Keeps(meta, meta'), HasStated(meta')
    PROVE  ReadInv'
<1>1. total' = total /\ thread_count' = thread_count
  BY FromFiles
<1>2. Holding(total)
  BY DEF ReadInv
<1>3. Holding(total)'
  <2>1. Holds(tables, meta', Part(files, 0, total))
    BY <1>2, HoldsKept DEF Holding
  <2> QED BY <1>1, <2>1 DEF Holding
<1>4. \A t \in Readers : next[t] = EndOf(t)
  BY DEF ReadInv, Merged
<1>5. phase' # "read" /\ phase' \notin {"read", "merge"} /\ phase' \in {"read", "merge", "link", "slots", "fields"}
  OBVIOUS
<1> QED BY <1>1, <1>3, <1>4, <1>5, OutStays DEF ReadInv

LEMMA KeepsItself == ASSUME NEW m PROVE Keeps(m, m)
BY DEF Keeps

LEMMA OutTyped ==
    ASSUME ReadInv, NEW t \in Readers
    PROVE  ItemsTyped(out[t])
<1>1. /\ files \in Trees /\ next \in [Readers -> Nat] /\ StartOf(t) <= next[t] /\ next[t] <= EndOf(t)
      /\ out[t] = Part(files, StartOf(t), next[t])
  BY DEF ReadInv
<1>2. StartOf(t) \in Nat /\ EndOf(t) \in Nat /\ EndOf(t) <= Len(files) /\ Len(files) \in Nat
  BY <1>1, Ranges DEF total
<1>3. next[t] \in Nat /\ next[t] <= Len(files)
  BY <1>1, <1>2
<1> QED BY <1>1, <1>2, <1>3, GivesTyped

LEMMA LinkOutStep == ReadInv /\ LinkOut => ReadInv'
<1> SUFFICES ASSUME ReadInv, LinkOut PROVE ReadInv'
  OBVIOUS
<1>1. phase = "link" /\ files' = files /\ next' = next /\ out' = out /\ tables' = tables
  BY DEF LinkOut
<1>2. Merged
  BY <1>1 DEF Merged
<1>3. files \in Trees /\ from \in 0 .. thread_count /\ HasStated(meta)
  BY <1>2 DEF ReadInv, Holding, Holds
<1>4. thread_count \in Nat
  BY <1>3, Ranges
<1>5. CASE from < thread_count
  <2>1. /\ meta' = LinkOverrides(LinkSubclasses(meta, out[from].subclass), out[from].override)
        /\ from' = from + 1 /\ phase' = phase
    BY <1>5 DEF LinkOut
  <2>2. from \in Readers /\ from + 1 \in 0 .. thread_count
    BY <1>3, <1>4, <1>5 DEF Readers
  <2>3. IsList(out[from].subclass) /\ IsList(out[from].override)
    BY <2>2, OutTyped, Columns DEF ItemsTyped
  <2> DEFINE m == LinkSubclasses(meta, out[from].subclass)
  <2>4. Keeps(meta, m) /\ HasStated(m)
    BY <1>3, <2>3, SubclassesKeep
  <2>5. meta' = LinkOverrides(m, out[from].override)
    BY <2>1
  <2> HIDE DEF m
  <2>6. Keeps(m, meta') /\ HasStated(meta')
    BY <2>3, <2>4, <2>5, OverridesKeep
  <2>7. Keeps(meta, meta')
    BY <2>4, <2>6 DEF Keeps
  <2> QED BY <1>1, <1>2, <2>1, <2>2, <2>6, <2>7, LinkingStep
<1>6. CASE ~(from < thread_count)
  <2>1. phase' = "slots" /\ meta' = meta /\ from' = from
    BY <1>6 DEF LinkOut
  <2> QED BY <1>1, <1>2, <1>3, <2>1, KeepsItself, LinkingStep
<1> QED BY <1>5, <1>6

LEMMA SlotsList == IsList(SlotsInOrder)
<1> DEFINE Row(i) == [j \in DOMAIN SymOrder |-> SlotAt(SymOrder[i], SymOrder[j])]
           rows == [i \in DOMAIN SymOrder |-> FlattenSeq(Row(i))]
<1>1. IsList(SymOrder)
  BY ReadAssumption
<1>2. ASSUME NEW i \in DOMAIN SymOrder PROVE IsList(FlattenSeq(Row(i)))
  <2> DEFINE r == Row(i)
  <2>1. DOMAIN r = DOMAIN SymOrder /\ r = [j \in DOMAIN r |-> r[j]] /\ \A j \in DOMAIN r : r[j] = SlotAt(SymOrder[i], SymOrder[j])
    OBVIOUS
  <2> HIDE DEF r
  <2>2. \A j \in DOMAIN r : IsList(r[j])
    BY <2>1, SingleList, EmptyList DEF SlotAt
  <2>3. ListsOf(r)
    BY <1>1, <2>1, <2>2, BuiltList DEF ListsOf
  <2>4. IsList(FlattenSeq(r))
    BY <2>3, FlattenList
  <2> QED BY <2>4 DEF r
<1>3. DOMAIN rows = DOMAIN SymOrder /\ rows = [i \in DOMAIN rows |-> rows[i]] /\ \A i \in DOMAIN rows : rows[i] = FlattenSeq(Row(i))
  OBVIOUS
<1>4. SlotsInOrder = FlattenSeq(rows)
  BY DEF SlotsInOrder
<1> HIDE DEF rows, Row
<1>5. \A i \in DOMAIN rows : IsList(rows[i])
  BY <1>2, <1>3
<1>6. ListsOf(rows)
  BY <1>1, <1>3, <1>5, BuiltList DEF ListsOf
<1> QED BY <1>4, <1>6, FlattenList

LEMMA LinkSlotsStep == ReadInv /\ LinkSlots => ReadInv'
<1> SUFFICES ASSUME ReadInv, LinkSlots PROVE ReadInv'
  OBVIOUS
<1>1. /\ phase = "slots" /\ phase' = "fields" /\ files' = files /\ next' = next /\ out' = out
      /\ tables' = tables /\ from' = from /\ meta' = LinkAll(meta, SlotsInOrder)
  BY DEF LinkSlots
<1>2. Merged
  BY <1>1 DEF Merged
<1>3. from \in 0 .. thread_count /\ HasStated(meta)
  BY <1>2 DEF ReadInv, Holding, Holds
<1>4. Keeps(meta, meta') /\ HasStated(meta')
  BY <1>1, <1>3, SlotsList, SlotsKeep
<1> QED BY <1>1, <1>2, <1>3, <1>4, LinkingStep

LEMMA ReadInvStep == ReadInv /\ [ReadNext]_readVars => ReadInv'
<1> SUFFICES ASSUME ReadInv, [ReadNext]_readVars PROVE ReadInv'
  OBVIOUS
<1>1. ASSUME NEW t \in Readers, ReadFile(t) PROVE ReadInv'
  BY <1>1, ReadFileStep
<1>2. CASE ReadersJoined
  BY <1>2, ReadersJoinedStep
<1>3. CASE MergeOut
  BY <1>3, MergeOutStep
<1>4. CASE LinkOut
  BY <1>4, LinkOutStep
<1>5. CASE LinkSlots
  BY <1>5, LinkSlotsStep
<1>6. CASE UNCHANGED readVars
  <2>1. /\ files' = files /\ phase' = phase /\ next' = next /\ from' = from /\ out' = out
        /\ tables' = tables /\ meta' = meta
    BY <1>6 DEF readVars
  <2>2. total' = total /\ thread_count' = thread_count /\ UpTill(from)' = UpTill(from)
    BY <2>1, FromFiles
  <2>3. Holding(total)' <=> Holding(total)
    BY <2>1, <2>2 DEF Holding
  <2>4. Holding(UpTill(from))' <=> Holding(UpTill(from))
    BY <2>1, <2>2 DEF Holding
  <2>5. Merged' <=> Merged
    BY <2>1 DEF Merged
  <2> QED BY <2>1, <2>2, <2>3, <2>4, <2>5, OutStays DEF ReadInv
<1> QED BY <1>1, <1>2, <1>3, <1>4, <1>5, <1>6 DEF ReadNext

LEMMA ReadInvSays == ReadInv => ThreadsDoNotMatter
<1> SUFFICES ASSUME ReadInv, Merged PROVE TablesOf(Each(ReadItems, files))
  BY DEF ThreadsDoNotMatter
<1>1. files \in Trees /\ Holding(total)
  BY DEF ReadInv
<1>2. Part(files, 0, total) = Each(ReadItems, files)
  BY <1>1, PartAll DEF total
<1>3. Holds(tables, meta, Each(ReadItems, files))
  BY <1>1, <1>2 DEF Holding
<1> QED BY <1>3 DEF Holds, TablesOf

(* However many threads read the files, and however they take turns, the   *)
(* tables and what the records state are what the files give one after the *)
(* other (read_analysis_files).                                            *)
THEOREM ThreadsMakeNoDifference == ReadSpec => []ThreadsDoNotMatter
<1>1. ReadInit => ReadInv
  BY ReadInvInit
<1>2. ReadInv /\ [ReadNext]_readVars => ReadInv'
  BY ReadInvStep
<1>3. ReadInv => ThreadsDoNotMatter
  BY ReadInvSays
<1> QED BY <1>1, <1>2, <1>3, PTL DEF ReadSpec

-----------------------------------------------------------------------------
(* Links to subclasses and overriders *)

LinkFields == {"subclass_syms", "overridden_by", "binding_slots", "slot_owner"}

Linkable(m) ==
    \A s \in DOMAIN m : LinkFields \subseteq DOMAIN m[s] /\ \A k \in LinkFields : IsList(m[s][k])

\* The pair p is linked: if its first symbol is known, that one's record names
\* the second.
Names(m, p, k) == p[1] \in DOMAIN m => p[2] \in ToSet(m[p[1]][k])

Followed(m, x) ==
    /\ \A p \in ToSet(x.subclass) : Names(m, p, "subclass_syms")
    /\ \A p \in ToSet(x.override) : Names(m, p, "overridden_by")

\* From m to n the lists k of the records grow, and nothing else changes.
OnlyGrows(m, n, k) ==
    /\ DOMAIN n = DOMAIN m
    /\ \A s \in DOMAIN m : /\ DOMAIN n[s] = DOMAIN m[s]
                           /\ \A l \in DOMAIN m[s] : l # k => n[s][l] = m[s][l]
                           /\ ToSet(m[s][k]) \subseteq ToSet(n[s][k])

Added(m, p, k) == IF p[1] \in DOMAIN m THEN [m EXCEPT ![p[1]][k] = Append(@, p[2])] ELSE m

LEMMA AppendedList ==
    ASSUME NEW s, NEW x, IsList(s)
    PROVE  IsList(Append(s, x)) /\ ToSet(s) \subseteq ToSet(Append(s, x)) /\ x \in ToSet(Append(s, x))
<1> DEFINE t == s \o <<x>>
<1>1. IsList(t) /\ ToSet(t) = ToSet(s) \cup {x}
  BY OneMore
<1>2. Append(s, x) = t
  BY AppendJoins
<1> HIDE DEF t
<1> QED BY <1>1, <1>2

LEMMA AddedGrows ==
    ASSUME NEW m, Linkable(m), NEW p, NEW k \in LinkFields
    PROVE  /\ Linkable(Added(m, p, k)) /\ OnlyGrows(m, Added(m, p, k), k)
           /\ Names(Added(m, p, k), p, k)
<1> DEFINE n == Added(m, p, k)
<1>1. CASE p[1] \notin DOMAIN m
  <2>1. n = m
    BY <1>1 DEF Added
  <2> HIDE DEF n
  <2>2. Linkable(n) /\ OnlyGrows(m, n, k) /\ Names(n, p, k)
    BY <1>1, <2>1 DEF OnlyGrows, Names
  <2> QED BY <2>2 DEF n
<1>2. CASE p[1] \in DOMAIN m
  <2> DEFINE a == p[1]
             l == Append(m[a][k], p[2])
  <2>1. k \in DOMAIN m[a] /\ IsList(m[a][k])
    BY <1>2 DEF Linkable
  <2>2. IsList(l) /\ ToSet(m[a][k]) \subseteq ToSet(l) /\ p[2] \in ToSet(l)
    BY <2>1, AppendedList
  <2>3. /\ DOMAIN n = DOMAIN m
        /\ \A s \in DOMAIN m : DOMAIN n[s] = DOMAIN m[s]
        /\ \A s \in DOMAIN m : \A x \in DOMAIN m[s] : n[s][x] = IF s = a /\ x = k THEN l ELSE m[s][x]
    BY <1>2, <2>1 DEF Added
  <2> HIDE DEF n, l
  <2>4. Linkable(n)
    BY <2>2, <2>3 DEF Linkable
  <2>5. OnlyGrows(m, n, k)
    <3>1. \A s \in DOMAIN m : k \in DOMAIN m[s]
      BY DEF Linkable
    <3> QED BY <2>2, <2>3, <3>1 DEF OnlyGrows
  <2>6. Names(n, p, k)
    BY <1>2, <2>1, <2>2, <2>3 DEF Names
  <2> QED BY <2>4, <2>5, <2>6 DEF n
<1> QED BY <1>1, <1>2

LEMMA GrowsOn ==
    ASSUME NEW m, NEW n, NEW o, NEW k, OnlyGrows(m, n, k), OnlyGrows(n, o, k)
    PROVE  OnlyGrows(m, o, k)
BY DEF OnlyGrows

LEMMA StillNames ==
    ASSUME NEW m, Linkable(m), NEW n, NEW k \in LinkFields, NEW l \in LinkFields, NEW p,
           OnlyGrows(m, n, k), Names(m, p, l)
    PROVE  Names(n, p, l)
BY DEF OnlyGrows, Names, Linkable

\* A list of pairs is linked one after the other.
LEMMA LinkingGrows ==
    ASSUME NEW m, Linkable(m), NEW b, IsList(b), NEW k \in LinkFields, NEW f, f[0] = m,
           \A i \in 1 .. Len(b) : f[i] = Added(f[i - 1], b[i], k)
    PROVE  /\ Linkable(f[Len(b)]) /\ OnlyGrows(m, f[Len(b)], k)
           /\ \A p \in ToSet(b) : Names(f[Len(b)], p, k)
<1> DEFINE n == Len(b)
           T == {i \in 0 .. n : /\ Linkable(f[i]) /\ OnlyGrows(m, f[i], k)
                                /\ \A j \in 1 .. i : Names(f[i], b[j], k)}
<1>1. n \in Nat /\ ToSet(b) = {b[i] : i \in 1 .. n}
  BY ListLength
<1>2. 0 \in T
  BY <1>1 DEF OnlyGrows
<1>3. ASSUME NEW i \in T, i < n PROVE i + 1 \in T
  <2>1. i + 1 \in 0 .. n /\ i + 1 \in 1 .. n /\ (i + 1) - 1 = i /\ \A j \in 1 .. i + 1 : j \in 1 .. i \/ j = i + 1
    BY <1>1, <1>3
  <2>2. f[i + 1] = Added(f[i], b[i + 1], k)
    BY <2>1
  <2>3. Linkable(f[i]) /\ OnlyGrows(m, f[i], k) /\ \A j \in 1 .. i : Names(f[i], b[j], k)
    BY <1>3
  <2>4. Linkable(f[i + 1]) /\ OnlyGrows(f[i], f[i + 1], k) /\ Names(f[i + 1], b[i + 1], k)
    BY <2>2, <2>3, AddedGrows
  <2>5. OnlyGrows(m, f[i + 1], k)
    BY <2>3, <2>4, GrowsOn
  <2>6. \A j \in 1 .. i : Names(f[i + 1], b[j], k)
    BY <2>3, <2>4, StillNames
  <2> QED BY <2>1, <2>4, <2>5, <2>6
<1>4. T \in SUBSET (0 .. n) /\ n \in 0 .. n
  BY <1>1
<1> HIDE DEF T, n
<1>5. T = 0 .. n
  BY <1>1, <1>2, <1>3, <1>4, UpTo
<1>6. Linkable(f[n]) /\ OnlyGrows(m, f[n], k) /\ \A j \in 1 .. n : Names(f[n], b[j], k)
  BY <1>4, <1>5 DEF T
<1> QED BY <1>1, <1>6 DEF n

LEMMA SubclassesLinked ==
    ASSUME NEW m, Linkable(m), NEW b, IsList(b)
    PROVE  /\ Linkable(LinkSubclasses(m, b)) /\ OnlyGrows(m, LinkSubclasses(m, b), "subclass_syms")
           /\ \A p \in ToSet(b) : Names(LinkSubclasses(m, b), p, "subclass_syms")
<1>1. PICK f : /\ f[0] = m
               /\ \A i \in 1 .. Len(b) : f[i] = AddSubclass(f[i - 1], b[i])
               /\ LinkSubclasses(m, b) = f[Len(b)]
  BY SubclassFold
<1>2. \A i \in 1 .. Len(b) : f[i] = Added(f[i - 1], b[i], "subclass_syms")
  BY <1>1 DEF AddSubclass, Added
<1>3. "subclass_syms" \in LinkFields
  BY DEF LinkFields
<1> QED BY <1>1, <1>2, <1>3, LinkingGrows

LEMMA OverridesLinked ==
    ASSUME NEW m, Linkable(m), NEW b, IsList(b)
    PROVE  /\ Linkable(LinkOverrides(m, b)) /\ OnlyGrows(m, LinkOverrides(m, b), "overridden_by")
           /\ \A p \in ToSet(b) : Names(LinkOverrides(m, b), p, "overridden_by")
<1>1. PICK f : /\ f[0] = m
               /\ \A i \in 1 .. Len(b) : f[i] = AddOverride(f[i - 1], b[i])
               /\ LinkOverrides(m, b) = f[Len(b)]
  BY OverrideFold
<1>2. \A i \in 1 .. Len(b) : f[i] = Added(f[i - 1], b[i], "overridden_by")
  BY <1>1 DEF AddOverride, Added
<1>3. "overridden_by" \in LinkFields
  BY DEF LinkFields
<1> QED BY <1>1, <1>2, <1>3, LinkingGrows

\* What one thread's vectors say is linked.
LEMMA PairsLinked ==
    ASSUME NEW m, Linkable(m), NEW x, IsList(x.subclass), IsList(x.override)
    PROVE  LET n == LinkOverrides(LinkSubclasses(m, x.subclass), x.override)
           IN  /\ Linkable(n) /\ DOMAIN n = DOMAIN m /\ Followed(n, x)
               /\ \A p : \A k \in LinkFields : Names(m, p, k) => Names(n, p, k)
               /\ \A s \in DOMAIN m : n[s].binding_slots = m[s].binding_slots /\ n[s].slot_owner = m[s].slot_owner
<1> DEFINE a == LinkSubclasses(m, x.subclass)
           n == LinkOverrides(a, x.override)
<1>1. /\ Linkable(a) /\ OnlyGrows(m, a, "subclass_syms")
      /\ \A p \in ToSet(x.subclass) : Names(a, p, "subclass_syms")
  BY SubclassesLinked
<1> HIDE DEF a
<1>2. /\ Linkable(n) /\ OnlyGrows(a, n, "overridden_by")
      /\ \A p \in ToSet(x.override) : Names(n, p, "overridden_by")
  BY <1>1, OverridesLinked
<1> HIDE DEF n
<1>3. "subclass_syms" \in LinkFields /\ "overridden_by" \in LinkFields
  BY DEF LinkFields
<1>4. \A p : \A k \in LinkFields : Names(m, p, k) => Names(n, p, k)
  BY <1>1, <1>2, <1>3, StillNames
<1>5. \A p \in ToSet(x.subclass) : Names(n, p, "subclass_syms")
  BY <1>1, <1>2, <1>3, StillNames
<1>6. DOMAIN n = DOMAIN m /\ \A s \in DOMAIN m : n[s].binding_slots = m[s].binding_slots /\ n[s].slot_owner = m[s].slot_owner
  BY <1>1, <1>2 DEF OnlyGrows, Linkable, LinkFields
<1> QED BY <1>2, <1>4, <1>5, <1>6 DEF Followed, n, a

-----------------------------------------------------------------------------
(* Links between owners and slots *)

SlotsUnlinked(m) == \A s \in DOMAIN m : m[s].binding_slots = <<>> /\ m[s].slot_owner = <<>>

OwnersHave(m) ==
    \A s \in DOMAIN m : \A o \in ToSet(m[s].slot_owner) :
        o.sym \in DOMAIN m => \E b \in ToSet(m[o.sym].binding_slots) : b.sym = s /\ b.props = o.props

SlotsOwned(m) ==
    \A s \in DOMAIN m : \A b \in ToSet(m[s].binding_slots) :
        b.sym \in DOMAIN m => m[b.sym].slot_owner # <<>>

SlotsOnce(m) ==
    \A s \in DOMAIN m : \A i, j \in DOMAIN m[s].binding_slots :
        m[s].binding_slots[i].sym = m[s].binding_slots[j].sym => i = j

\* The slots of a record come from the first k links.
SlotsFrom(m, q, k) ==
    \A s \in DOMAIN m : \A b \in ToSet(m[s].binding_slots) :
        \E i \in 1 .. k : q[i][1] = s /\ q[i][2] = b.sym

\* No two links have the same owner and the same slot.
KeysOnce(q) ==
    \A i, j \in DOMAIN q : q[i][1] = q[j][1] /\ q[i][2] = q[j][2] => i = j

SlotInv(m, q, k) ==
    Linkable(m) /\ OwnersHave(m) /\ SlotsOwned(m) /\ SlotsOnce(m) /\ SlotsFrom(m, q, k)

LEMMA AppendedAt ==
    ASSUME NEW s, NEW x, IsList(s)
    PROVE  /\ DOMAIN Append(s, x) = (DOMAIN s) \cup {Len(s) + 1} /\ Len(s) \in Nat /\ DOMAIN s = 1 .. Len(s)
           /\ \A i \in DOMAIN s : Append(s, x)[i] = s[i]
           /\ Append(s, x)[Len(s) + 1] = x
           /\ ToSet(Append(s, x)) = ToSet(s) \cup {x}
           /\ IsList(Append(s, x))
<1> DEFINE t == s \o <<x>>
<1>1. /\ IsList(t) /\ Len(t) = Len(s) + 1 /\ Len(s) \in Nat
      /\ DOMAIN t = (DOMAIN s) \cup {Len(s) + 1} /\ DOMAIN s = 1 .. Len(s)
      /\ \A i \in DOMAIN s : t[i] = s[i]
      /\ t[Len(s) + 1] = x
      /\ ToSet(t) = ToSet(s) \cup {x}
  BY OneMore
<1>2. Append(s, x) = t
  BY AppendJoins
<1> HIDE DEF t
<1> QED BY <1>1, <1>2

\* What one link changes.
Bound(s) == [sym |-> s[2], props |-> s[3]]
Owner(s) == [sym |-> s[1], props |-> s[3]]

LEMMA LinkSlotFields ==
    ASSUME NEW m, Linkable(m), NEW l
    PROVE  LET n == LinkSlot(m, l)
           IN  /\ DOMAIN n = DOMAIN m
               /\ \A s \in DOMAIN m :
                     /\ DOMAIN n[s] = DOMAIN m[s]
                     /\ \A k \in DOMAIN m[s] : k \notin {"binding_slots", "slot_owner", "subsystem"} => n[s][k] = m[s][k]
                     /\ n[s].binding_slots = IF s = l[1] THEN Append(m[s].binding_slots, Bound(l)) ELSE m[s].binding_slots
                     /\ n[s].slot_owner = IF s = l[2] THEN <<Owner(l)>> ELSE m[s].slot_owner
<1> DEFINE o == IF l[1] \in DOMAIN m
                THEN [m EXCEPT ![l[1]].binding_slots = Append(@, [sym |-> l[2], props |-> l[3]]),
                               ![l[1]].subsystem = IF @ = None THEN l[4] ELSE @]
                ELSE m
           n == IF l[2] \in DOMAIN o
                THEN [o EXCEPT ![l[2]].slot_owner = <<[sym |-> l[1], props |-> l[3]]>>,
                               ![l[2]].subsystem = l[4]]
                ELSE o
<1>1. LinkSlot(m, l) = n
  BY DEF LinkSlot
<1>2. \A s \in DOMAIN m : "binding_slots" \in DOMAIN m[s] /\ "slot_owner" \in DOMAIN m[s]
  BY DEF Linkable, LinkFields
<1>3. /\ DOMAIN o = DOMAIN m
      /\ \A s \in DOMAIN m : DOMAIN o[s] = DOMAIN m[s]
      /\ \A s \in DOMAIN m : \A k \in DOMAIN m[s] : k # "binding_slots" /\ k # "subsystem" => o[s][k] = m[s][k]
  OBVIOUS
<1>4. \A s \in DOMAIN m : o[s].binding_slots = IF s = l[1] THEN Append(m[s].binding_slots, [sym |-> l[2], props |-> l[3]]) ELSE m[s].binding_slots
  BY <1>2
<1> HIDE DEF o
<1>5. /\ DOMAIN n = DOMAIN o
      /\ \A s \in DOMAIN o : DOMAIN n[s] = DOMAIN o[s]
      /\ \A s \in DOMAIN o : \A k \in DOMAIN o[s] : k # "slot_owner" /\ k # "subsystem" => n[s][k] = o[s][k]
  OBVIOUS
<1>6. \A s \in DOMAIN o : n[s].slot_owner = IF s = l[2] THEN <<[sym |-> l[1], props |-> l[3]]>> ELSE o[s].slot_owner
  BY <1>2, <1>3
<1> HIDE DEF n
<1>7. DOMAIN n = DOMAIN m /\ \A s \in DOMAIN m : DOMAIN n[s] = DOMAIN m[s]
  BY <1>3, <1>5
<1>8. \A s \in DOMAIN m : n[s].binding_slots = IF s = l[1] THEN Append(m[s].binding_slots, Bound(l)) ELSE m[s].binding_slots
  BY <1>2, <1>3, <1>4, <1>5 DEF Bound
<1>9. \A s \in DOMAIN m : n[s].slot_owner = IF s = l[2] THEN <<Owner(l)>> ELSE m[s].slot_owner
  BY <1>2, <1>3, <1>6 DEF Owner
<1>10. \A s \in DOMAIN m : \A k \in DOMAIN m[s] : k \notin {"binding_slots", "slot_owner", "subsystem"} => n[s][k] = m[s][k]
  BY <1>3, <1>5
<1> QED BY <1>1, <1>7, <1>8, <1>9, <1>10

LEMMA LinkSlotLeaves ==
    ASSUME NEW m, Linkable(m), NEW l
    PROVE  /\ DOMAIN LinkSlot(m, l) = DOMAIN m
           /\ \A s \in DOMAIN m : /\ LinkSlot(m, l)[s].subclass_syms = m[s].subclass_syms
                                  /\ LinkSlot(m, l)[s].overridden_by = m[s].overridden_by
<1> DEFINE n == LinkSlot(m, l)
<1>1. /\ DOMAIN n = DOMAIN m
      /\ \A s \in DOMAIN m : /\ DOMAIN n[s] = DOMAIN m[s]
                             /\ \A f \in DOMAIN m[s] : f \notin {"binding_slots", "slot_owner", "subsystem"} => n[s][f] = m[s][f]
      /\ \A s \in DOMAIN m : n[s].binding_slots = IF s = l[1] THEN Append(m[s].binding_slots, Bound(l)) ELSE m[s].binding_slots
      /\ \A s \in DOMAIN m : n[s].slot_owner = IF s = l[2] THEN <<Owner(l)>> ELSE m[s].slot_owner
  BY LinkSlotFields
<1> HIDE DEF n
<1>2. \A s \in DOMAIN m : n[s].subclass_syms = m[s].subclass_syms /\ n[s].overridden_by = m[s].overridden_by
  BY <1>1 DEF Linkable, LinkFields
<1> QED BY <1>1, <1>2 DEF n

LEMMA SlotLinked ==
    ASSUME NEW m, NEW q, IsList(q), KeysOnce(q), NEW k \in Nat, k < Len(q), SlotInv(m, q, k)
    PROVE  SlotInv(LinkSlot(m, q[k + 1]), q, k + 1)
<1> DEFINE l == q[k + 1]
           n == LinkSlot(m, l)
<1>1. /\ DOMAIN n = DOMAIN m
      /\ \A s \in DOMAIN m : /\ DOMAIN n[s] = DOMAIN m[s]
                             /\ \A f \in DOMAIN m[s] : f \notin {"binding_slots", "slot_owner", "subsystem"} => n[s][f] = m[s][f]
      /\ \A s \in DOMAIN m : n[s].binding_slots = IF s = l[1] THEN Append(m[s].binding_slots, Bound(l)) ELSE m[s].binding_slots
      /\ \A s \in DOMAIN m : n[s].slot_owner = IF s = l[2] THEN <<Owner(l)>> ELSE m[s].slot_owner
  <2>1. Linkable(m)
    BY DEF SlotInv
  <2> HIDE DEF l
  <2> QED BY <2>1, LinkSlotFields
<1>2. /\ Bound(l).sym = l[2] /\ Bound(l).props = l[3] /\ Owner(l).sym = l[1] /\ Owner(l).props = l[3]
      /\ ToSet(<<Owner(l)>>) = {Owner(l)} /\ IsList(<<Owner(l)>>)
  <2>1. ToSet(<<Owner(l)>>) = {Owner(l)}
    BY DEF ToSet
  <2> QED BY <2>1, SingleList DEF Bound, Owner
<1>3. ASSUME NEW s \in DOMAIN m
      PROVE  LET b == m[s].binding_slots
                 c == Append(b, Bound(l))
             IN  /\ IsList(b) /\ IsList(c) /\ ToSet(c) = ToSet(b) \cup {Bound(l)}
                 /\ DOMAIN c = (DOMAIN b) \cup {Len(b) + 1}
                 /\ \A i \in DOMAIN b : c[i] = b[i]
                 /\ c[Len(b) + 1] = Bound(l)
  <2>1. IsList(m[s].binding_slots)
    BY DEF SlotInv, Linkable, LinkFields
  <2> HIDE DEF l
  <2> QED BY <2>1, AppendedAt
<1> HIDE DEF n, l
<1>4. k + 1 \in DOMAIN q /\ \A i \in 1 .. k : i \in DOMAIN q /\ i # k + 1 /\ i \in 1 .. k + 1
  <2>1. DOMAIN q = 1 .. Len(q) /\ Len(q) \in Nat
    BY ListLength
  <2> QED BY <2>1
<1>5. Linkable(n)
  <2>1. ASSUME NEW s \in DOMAIN m, NEW f \in LinkFields PROVE f \in DOMAIN n[s] /\ IsList(n[s][f])
    <3>1. f \in DOMAIN m[s] /\ IsList(m[s][f])
      BY DEF SlotInv, Linkable
    <3>2. CASE f \notin {"binding_slots", "slot_owner", "subsystem"}
      BY <1>1, <3>1, <3>2
    <3>3. CASE f = "binding_slots"
      BY <1>1, <1>3, <3>1, <3>3
    <3>4. CASE f = "slot_owner"
      BY <1>1, <1>2, <3>1, <3>4
    <3> QED BY <3>2, <3>3, <3>4 DEF LinkFields
  <2> QED BY <1>1, <2>1 DEF Linkable
<1>6. OwnersHave(n)
  <2>1. ASSUME NEW s \in DOMAIN m, NEW o \in ToSet(n[s].slot_owner), o.sym \in DOMAIN m
        PROVE  \E b \in ToSet(n[o.sym].binding_slots) : b.sym = s /\ b.props = o.props
    <3>1. CASE s = l[2]
      <4>1. o = Owner(l) /\ o.sym = l[1] /\ o.props = l[3]
        BY <1>1, <1>2, <3>1
      <4>2. Bound(l) \in ToSet(n[o.sym].binding_slots)
        BY <1>1, <1>3, <2>1, <4>1
      <4> QED BY <1>2, <3>1, <4>1, <4>2
    <3>2. CASE s # l[2]
      <4>1. o \in ToSet(m[s].slot_owner)
        BY <1>1, <3>2
      <4>2. PICK b \in ToSet(m[o.sym].binding_slots) : b.sym = s /\ b.props = o.props
        BY <2>1, <4>1 DEF SlotInv, OwnersHave
      <4>3. ToSet(m[o.sym].binding_slots) \subseteq ToSet(n[o.sym].binding_slots)
        BY <1>1, <1>3, <2>1
      <4> QED BY <4>2, <4>3
    <3> QED BY <3>1, <3>2
  <2> QED BY <1>1, <2>1 DEF OwnersHave
<1>7. \A s \in DOMAIN m : \A b \in ToSet(n[s].binding_slots) :
          b \in ToSet(m[s].binding_slots) \/ (s = l[1] /\ b = Bound(l))
  BY <1>1, <1>3
<1>8. SlotsOwned(n)
  <2>1. ASSUME NEW s \in DOMAIN m, NEW b \in ToSet(n[s].binding_slots), b.sym \in DOMAIN m
        PROVE  n[b.sym].slot_owner # <<>>
    <3>1. <<Owner(l)>> # <<>>
      OBVIOUS
    <3>2. CASE b.sym = l[2]
      BY <1>1, <2>1, <3>1, <3>2
    <3>3. CASE b.sym # l[2]
      <4>1. b \in ToSet(m[s].binding_slots)
        BY <1>2, <1>7, <3>3
      <4>2. m[b.sym].slot_owner # <<>>
        BY <2>1, <4>1 DEF SlotInv, SlotsOwned
      <4> QED BY <1>1, <2>1, <3>3, <4>2
    <3> QED BY <3>2, <3>3
  <2> QED BY <1>1, <2>1 DEF SlotsOwned
<1>9. SlotsFrom(n, q, k + 1)
  <2>1. ASSUME NEW s \in DOMAIN m, NEW b \in ToSet(n[s].binding_slots)
        PROVE  \E i \in 1 .. k + 1 : q[i][1] = s /\ q[i][2] = b.sym
    <3>1. CASE b \in ToSet(m[s].binding_slots)
      BY <1>4, <3>1 DEF SlotInv, SlotsFrom
    <3>2. CASE s = l[1] /\ b = Bound(l)
      <4>1. k + 1 \in 1 .. k + 1
        OBVIOUS
      <4> QED BY <1>2, <3>2, <4>1 DEF l
    <3> QED BY <1>7, <3>1, <3>2
  <2> QED BY <1>1, <2>1 DEF SlotsFrom
<1>10. SlotsOnce(n)
  <2>1. ASSUME NEW s \in DOMAIN m, NEW i \in DOMAIN n[s].binding_slots, NEW j \in DOMAIN n[s].binding_slots,
               n[s].binding_slots[i].sym = n[s].binding_slots[j].sym
        PROVE  i = j
    <3>1. CASE s # l[1]
      <4>1. n[s].binding_slots = m[s].binding_slots
        BY <1>1, <3>1
      <4> QED BY <2>1, <4>1 DEF SlotInv, SlotsOnce
    <3>2. CASE s = l[1]
      <4> DEFINE b == m[s].binding_slots
                 c == n[s].binding_slots
                 e == Len(b) + 1
      <4>1. /\ DOMAIN c = (DOMAIN b) \cup {e} /\ (\A x \in DOMAIN b : c[x] = b[x]) /\ c[e] = Bound(l)
        <5>1. c = Append(b, Bound(l))
          BY <1>1, <3>2
        <5> HIDE DEF c
        <5> QED BY <1>3, <5>1
      <4>2. \A x \in DOMAIN b : b[x].sym # l[2]
        <5>1. ASSUME NEW x \in DOMAIN b PROVE b[x].sym # l[2]
          <6>1. b[x] \in ToSet(b)
            BY Members
          <6>2. PICK y \in 1 .. k : q[y][1] = s /\ q[y][2] = b[x].sym
            BY <6>1 DEF SlotInv, SlotsFrom
          <6>3. y \in DOMAIN q /\ y # k + 1
            BY <1>4
          <6> QED BY <1>4, <3>2, <6>2, <6>3 DEF KeysOnce, l
        <5> QED BY <5>1
      <4>3. \A x, y \in DOMAIN b : b[x].sym = b[y].sym => x = y
        BY DEF SlotInv, SlotsOnce
      <4>4. i \in DOMAIN c /\ j \in DOMAIN c /\ c[i].sym = c[j].sym
        BY <2>1
      <4> HIDE DEF b, c, e
      <4> QED BY <1>2, <4>1, <4>2, <4>3, <4>4
    <3> QED BY <3>1, <3>2
  <2> QED BY <1>1, <2>1 DEF SlotsOnce
<1>11. SlotInv(n, q, k + 1)
  BY <1>5, <1>6, <1>8, <1>9, <1>10 DEF SlotInv
<1> QED BY <1>11 DEF n, l

\* Records whose slots are not linked become records whose slots are.
LEMMA SlotsLinked ==
    ASSUME NEW m, Linkable(m), SlotsUnlinked(m), NEW q, IsList(q), KeysOnce(q)
    PROVE  LET n == LinkAll(m, q)
           IN  /\ Linkable(n) /\ OwnersHave(n) /\ SlotsOwned(n) /\ SlotsOnce(n)
               /\ \A p : \A k \in {"subclass_syms", "overridden_by"} : Names(m, p, k) => Names(n, p, k)
<1>1. PICK f : /\ f[0] = m
               /\ \A k \in 1 .. Len(q) : f[k] = LinkSlot(f[k - 1], q[k])
               /\ LinkAll(m, q) = f[Len(q)]
  BY LinkFold
<1> DEFINE n == Len(q)
           Kept(x) == \A p : \A k \in {"subclass_syms", "overridden_by"} : Names(m, p, k) => Names(x, p, k)
           T == {k \in 0 .. n : SlotInv(f[k], q, k) /\ Kept(f[k])}
<1>2. n \in Nat
  BY ListLength
<1>3. 0 \in T
  <2>1. OwnersHave(m) /\ SlotsOwned(m) /\ SlotsOnce(m) /\ SlotsFrom(m, q, 0)
    BY EmptyList DEF SlotsUnlinked, OwnersHave, SlotsOwned, SlotsOnce, SlotsFrom
  <2>2. SlotInv(f[0], q, 0) /\ Kept(f[0])
    BY <1>1, <2>1 DEF SlotInv
  <2> QED BY <1>2, <2>2
<1>4. ASSUME NEW k \in T, k < n PROVE k + 1 \in T
  <2>1. k \in Nat /\ k + 1 \in 0 .. n /\ k + 1 \in 1 .. n /\ (k + 1) - 1 = k
    BY <1>2, <1>4
  <2>2. f[k + 1] = LinkSlot(f[k], q[k + 1])
    BY <1>1, <2>1
  <2>3. SlotInv(f[k], q, k) /\ Kept(f[k])
    BY <1>4
  <2>4. SlotInv(f[k + 1], q, k + 1)
    BY <1>4, <2>1, <2>2, <2>3, SlotLinked
  <2>5. Kept(f[k + 1])
    <3> DEFINE a == f[k]
               l == q[k + 1]
               b == LinkSlot(a, l)
    <3>1. Linkable(a) /\ Kept(a)
      BY <2>3 DEF SlotInv
    <3> HIDE DEF a, l
    <3>2. /\ DOMAIN b = DOMAIN a
          /\ \A s \in DOMAIN a : b[s].subclass_syms = a[s].subclass_syms /\ b[s].overridden_by = a[s].overridden_by
      BY <3>1, LinkSlotLeaves
    <3> HIDE DEF b
    <3>3. Kept(b)
      BY <3>1, <3>2 DEF Names
    <3> QED BY <2>2, <3>3 DEF a, b, l
  <2> QED BY <2>1, <2>4, <2>5
<1>5. T \in SUBSET (0 .. n) /\ n \in 0 .. n
  BY <1>2
<1> HIDE DEF T, n
<1>6. T = 0 .. n
  BY <1>2, <1>3, <1>4, <1>5, UpTo
<1>7. SlotInv(f[n], q, n) /\ Kept(f[n])
  BY <1>5, <1>6 DEF T
<1> QED BY <1>1, <1>7 DEF SlotInv, n

-----------------------------------------------------------------------------
(* The keys of slots *)

\* SlotLinks adds one slot after the other.
LEMMA SlotFold ==
    ASSUME NEW base, NEW seq, IsList(seq)
    PROVE  \E f : /\ f[0] = base
                  /\ \A k \in 1 .. Len(seq) : f[k] = AddSlot(f[k - 1], seq[k])
                  /\ SlotLinks(base, seq) = f[Len(seq)]
<1> DEFINE n == Len(seq)
           E(x, m) == [s \in SUBSET (1 .. m) |->
                         IF s = {} THEN base ELSE AddSlot(x[s \ {Max(s)}], seq[Max(s)])]
           g == CHOOSE x : x = E(x, n)
           f == [k \in 0 .. n |-> g[1 .. k]]
           T == {m \in 0 .. n : \E x : x = E(x, m)}
<1>1. n \in Nat /\ DOMAIN seq = 1 .. n
  BY ListLength
<1>2. 0 \in T
  <2> DEFINE x == [s \in SUBSET (1 .. 0) |-> base]
  <2>1. 1 .. 0 = {} /\ 0 \in 0 .. n
    BY <1>1
  <2>2. x = E(x, 0)
    BY <2>1
  <2> HIDE DEF E, x
  <2> QED BY <2>1, <2>2
<1>3. ASSUME NEW m \in T, m < n PROVE m + 1 \in T
  <2>1. m \in Nat /\ m \in 0 .. n /\ m + 1 \in 0 .. n
    BY <1>1, <1>3
  <2>2. PICK x : x = E(x, m)
    BY <1>3
  <2> DEFINE y == [s \in SUBSET (1 .. m + 1) |->
                     IF s \subseteq 1 .. m THEN x[s] ELSE AddSlot(x[s \ {m + 1}], seq[m + 1])]
             R(s) == IF s = {} THEN base ELSE AddSlot(y[s \ {Max(s)}], seq[Max(s)])
             Q(s) == IF s = {} THEN base ELSE AddSlot(x[s \ {Max(s)}], seq[Max(s)])
  <2>3. ASSUME NEW s \in SUBSET (1 .. m + 1) PROVE y[s] = R(s)
    <3>1. CASE s \subseteq 1 .. m
      <4>1. x[s] = Q(s)
        <5>1. E(x, m)[s] = Q(s)
          BY <3>1
        <5> HIDE DEF E, Q, y, R
        <5> QED BY <2>2, <5>1
      <4>2. y[s] = x[s] /\ y[s \ {Max(s)}] = x[s \ {Max(s)}]
        BY <3>1
      <4> HIDE DEF E, y
      <4> QED BY <4>1, <4>2
    <3>2. CASE ~(s \subseteq 1 .. m)
      <4>1. Max(s) = m + 1 /\ s # {} /\ s \ {m + 1} \in SUBSET (1 .. m)
        BY <2>1, <3>2, LastOf
      <4>2. y[s] = AddSlot(x[s \ {m + 1}], seq[m + 1])
        BY <3>2
      <4>3. y[s \ {m + 1}] = x[s \ {m + 1}]
        BY <4>1
      <4> HIDE DEF E, y
      <4> QED BY <4>1, <4>2, <4>3
    <3> QED BY <3>1, <3>2
  <2>4. y = [s \in SUBSET (1 .. m + 1) |-> y[s]]
    OBVIOUS
  <2>5. y = [s \in SUBSET (1 .. m + 1) |-> R(s)]
    <3> HIDE DEF y, R, E
    <3> QED BY <2>3, <2>4
  <2>6. y = E(y, m + 1)
    BY <2>5
  <2> HIDE DEF E, y
  <2> QED BY <2>1, <2>6
<1>4. \E x : x = E(x, n)
  <2>1. T \in SUBSET (0 .. n) /\ n \in 0 .. n
    BY <1>1
  <2> HIDE DEF T, E, n
  <2>2. T = 0 .. n
    BY <1>1, <1>2, <1>3, <2>1, UpTo
  <2> QED BY <2>1, <2>2 DEF T
<1>5. g = E(g, n)
  <2> HIDE DEF E
  <2> QED BY <1>4
<1>6. SlotLinks(base, seq) = g[1 .. n]
  BY <1>1 DEF SlotLinks, FoldLeft, MapThenFoldSet
<1> HIDE DEF g
<1>7. \A s \in SUBSET (1 .. n) : g[s] = IF s = {} THEN base ELSE AddSlot(g[s \ {Max(s)}], seq[Max(s)])
  BY <1>5
<1> HIDE DEF E, T, n
<1>8. f[0] = base
  <2>1. 1 .. 0 = {} /\ 0 \in 0 .. n
    BY <1>1
  <2> QED BY <1>7, <2>1
<1>9. ASSUME NEW k \in 1 .. n PROVE f[k] = AddSlot(f[k - 1], seq[k])
  <2>1. /\ 1 .. k \in SUBSET (1 .. n) /\ 1 .. k # {} /\ Max(1 .. k) = k
        /\ (1 .. k) \ {k} = 1 .. k - 1 /\ k \in 0 .. n /\ k - 1 \in 0 .. n
    BY <1>1, Segment
  <2>2. f[k] = g[1 .. k] /\ f[k - 1] = g[1 .. k - 1]
    BY <2>1
  <2>3. g[1 .. k] = AddSlot(g[(1 .. k) \ {Max(1 .. k)}], seq[Max(1 .. k)])
    BY <1>7, <2>1
  <2> HIDE DEF f
  <2> QED BY <2>1, <2>2, <2>3
<1>10. f[n] = g[1 .. n]
  BY <1>1
<1> HIDE DEF f
<1> QED BY <1>6, <1>8, <1>9, <1>10 DEF n

\* A slot is found under its owner and its symbol.
SlotsKeyed(all) ==
    \A a, b : <<a, b>> \in DOMAIN all => all[<<a, b>>][1] = a /\ all[<<a, b>>][2] = b

LEMMA SlotAdded ==
    ASSUME NEW all, SlotsKeyed(all), NEW s
    PROVE  SlotsKeyed(AddSlot(all, s))
<1> DEFINE key == <<s[1], s[2]>>
           new == AddSlot(all, s)
<1>1. /\ DOMAIN new = (DOMAIN all) \cup {key}
      /\ \A k \in DOMAIN new : new[k] = IF k = key THEN s ELSE all[k]
  BY DEF AddSlot, Put
<1> HIDE DEF new
<1>2. ASSUME NEW a, NEW b, <<a, b>> \in DOMAIN new
      PROVE  new[<<a, b>>][1] = a /\ new[<<a, b>>][2] = b
  <2>1. CASE <<a, b>> = key
    <3>1. a = s[1] /\ b = s[2]
      BY <2>1
    <3>2. new[<<a, b>>] = s
      BY <1>1, <1>2, <2>1
    <3> QED BY <3>1, <3>2
  <2>2. CASE <<a, b>> # key
    <3>1. <<a, b>> \in DOMAIN all /\ new[<<a, b>>] = all[<<a, b>>]
      BY <1>1, <1>2, <2>2
    <3> QED BY <3>1 DEF SlotsKeyed
  <2> QED BY <2>1, <2>2
<1> QED BY <1>2 DEF SlotsKeyed, new

LEMMA SlotsAdded ==
    ASSUME NEW all, SlotsKeyed(all), NEW b, IsList(b)
    PROVE  SlotsKeyed(SlotLinks(all, b))
<1>1. PICK f : /\ f[0] = all
               /\ \A k \in 1 .. Len(b) : f[k] = AddSlot(f[k - 1], b[k])
               /\ SlotLinks(all, b) = f[Len(b)]
  BY SlotFold
<1> DEFINE n == Len(b)
           T == {k \in 0 .. n : SlotsKeyed(f[k])}
<1>2. n \in Nat
  BY ListLength
<1>3. 0 \in T
  BY <1>1, <1>2
<1>4. ASSUME NEW k \in T, k < n PROVE k + 1 \in T
  <2>1. k + 1 \in 0 .. n /\ k + 1 \in 1 .. n /\ (k + 1) - 1 = k
    BY <1>2, <1>4
  <2>2. f[k + 1] = AddSlot(f[k], b[k + 1])
    BY <1>1, <2>1
  <2>3. SlotsKeyed(f[k])
    BY <1>4
  <2>4. SlotsKeyed(f[k + 1])
    BY <2>2, <2>3, SlotAdded
  <2> QED BY <2>1, <2>4
<1>5. T \in SUBSET (0 .. n) /\ n \in 0 .. n
  BY <1>2
<1> HIDE DEF T
<1>6. T = 0 .. n
  BY <1>2, <1>3, <1>4, <1>5, UpTo
<1> QED BY <1>1, <1>5, <1>6 DEF T

SameKey(x, y) == x[1] = y[1] /\ x[2] = y[2]

LEMMA JoinedKeys ==
    ASSUME NEW s, NEW t, IsList(s), IsList(t), KeysOnce(s), KeysOnce(t),
           \A x \in ToSet(s) : \A y \in ToSet(t) : ~SameKey(x, y)
    PROVE  KeysOnce(s \o t)
<1> DEFINE u == s \o t
           a == Len(s)
           b == Len(t)
<1>1. a \in Nat /\ b \in Nat /\ DOMAIN s = 1 .. a /\ DOMAIN t = 1 .. b
  BY ListLength
<1>2. /\ IsList(u) /\ Len(u) = a + b
      /\ \A i \in 1 .. a : u[i] = s[i]
      /\ \A i \in 1 .. b : u[a + i] = t[i]
  BY JoinedList
<1>3. DOMAIN u = 1 .. a + b
  BY <1>2, ListLength
<1> HIDE DEF u, a, b
<1>4. \A i \in 1 .. a + b : i \in 1 .. a \/ (i - a \in 1 .. b /\ a + (i - a) = i)
  BY <1>1
<1>5. ASSUME NEW i \in 1 .. a, NEW j \in 1 .. b PROVE ~SameKey(s[i], t[j])
  BY <1>1, Members
<1>6. ASSUME NEW i \in 1 .. a + b, NEW j \in 1 .. a + b, SameKey(u[i], u[j]) PROVE i = j
  <2>1. CASE i \in 1 .. a /\ j \in 1 .. a
    BY <1>1, <1>2, <1>6, <2>1 DEF KeysOnce, SameKey
  <2>2. CASE i \in 1 .. a /\ ~(j \in 1 .. a)
    <3>1. j - a \in 1 .. b /\ u[j] = t[j - a] /\ u[i] = s[i]
      BY <1>2, <1>4, <2>2
    <3> QED BY <1>5, <1>6, <2>2, <3>1
  <2>3. CASE ~(i \in 1 .. a) /\ j \in 1 .. a
    <3>1. i - a \in 1 .. b /\ u[i] = t[i - a] /\ u[j] = s[j]
      BY <1>2, <1>4, <2>3
    <3>2. ~SameKey(u[j], u[i])
      BY <1>5, <2>3, <3>1
    <3> QED BY <1>6, <3>2 DEF SameKey
  <2>4. CASE ~(i \in 1 .. a) /\ ~(j \in 1 .. a)
    <3>1. i - a \in 1 .. b /\ u[i] = t[i - a] /\ j - a \in 1 .. b /\ u[j] = t[j - a]
      BY <1>2, <1>4, <2>4
    <3>2. i - a = j - a
      BY <1>1, <1>6, <3>1 DEF KeysOnce, SameKey
    <3> QED BY <1>1, <3>2
  <2> QED BY <2>1, <2>2, <2>3, <2>4
<1>7. KeysOnce(u)
  BY <1>3, <1>6 DEF KeysOnce, SameKey
<1> QED BY <1>7 DEF u

\* Lists without a key twice, and without a key of another, are one such list.
LEMMA FlattenedKeys ==
    ASSUME NEW ss, ListsOf(ss), \A i \in DOMAIN ss : KeysOnce(ss[i]),
           \A i, j \in DOMAIN ss : i # j => \A x \in ToSet(ss[i]) : \A y \in ToSet(ss[j]) : ~SameKey(x, y)
    PROVE  KeysOnce(FlattenSeq(ss))
<1> DEFINE n == Len(ss)
<1>1. n \in Nat /\ DOMAIN ss = 1 .. n
  BY ListLength DEF ListsOf
<1>2. PICK f : Joins(ss, f) /\ FlattenSeq(ss) = f[n]
  BY Flattening
<1> DEFINE T == {k \in 0 .. n : /\ KeysOnce(f[k])
                                /\ \A x \in ToSet(f[k]) : \E i \in 1 .. k : x \in ToSet(ss[i])}
<1>3. 0 \in T
  BY <1>1, <1>2, EmptyList DEF Joins, KeysOnce
<1>4. ASSUME NEW k \in T, k < n PROVE k + 1 \in T
  <2>1. /\ k + 1 \in 1 .. n /\ k + 1 \in 0 .. n /\ (k + 1) - 1 = k /\ k \in 0 .. n /\ k + 1 \in 1 .. k + 1
        /\ \A i \in 1 .. k : i \in 1 .. n /\ i # k + 1 /\ i \in 1 .. k + 1
    BY <1>1, <1>4
  <2>2. f[k + 1] = f[k] \o ss[k + 1] /\ IsList(ss[k + 1]) /\ IsList(f[k])
    BY <1>1, <1>2, <2>1, JoinsLists DEF Joins, ListsOf
  <2>3. ToSet(f[k + 1]) = ToSet(f[k]) \cup ToSet(ss[k + 1])
    BY <2>2, JoinedSet
  <2>4. KeysOnce(f[k]) /\ \A x \in ToSet(f[k]) : \E i \in 1 .. k : x \in ToSet(ss[i])
    BY <1>4
  <2>5. \A x \in ToSet(f[k]) : \A y \in ToSet(ss[k + 1]) : ~SameKey(x, y)
    BY <1>1, <2>1, <2>4
  <2>6. KeysOnce(f[k + 1])
    BY <1>1, <2>1, <2>2, <2>4, <2>5, JoinedKeys
  <2>7. \A x \in ToSet(f[k + 1]) : \E i \in 1 .. k + 1 : x \in ToSet(ss[i])
    BY <2>1, <2>3, <2>4
  <2> QED BY <2>1, <2>6, <2>7
<1>5. T \in SUBSET (0 .. n) /\ n \in 0 .. n
  BY <1>1
<1> HIDE DEF T, n
<1>6. T = 0 .. n
  BY <1>1, <1>3, <1>4, <1>5, UpTo
<1> QED BY <1>2, <1>5, <1>6 DEF T

SlotRow(i) == [j \in DOMAIN SymOrder |-> SlotAt(SymOrder[i], SymOrder[j])]

LEMMA SlotRowKeys ==
    ASSUME SlotsKeyed(slots), NEW i \in DOMAIN SymOrder
    PROVE  /\ IsList(FlattenSeq(SlotRow(i))) /\ KeysOnce(FlattenSeq(SlotRow(i)))
           /\ \A x \in ToSet(FlattenSeq(SlotRow(i))) : x[1] = SymOrder[i]
<1> DEFINE r == SlotRow(i)
<1>1. DOMAIN r = DOMAIN SymOrder /\ r = [j \in DOMAIN r |-> r[j]] /\ \A j \in DOMAIN r : r[j] = SlotAt(SymOrder[i], SymOrder[j])
  BY DEF SlotRow
<1>2. IsList(SymOrder) /\ \A j, k \in DOMAIN SymOrder : SymOrder[j] = SymOrder[k] => j = k
  BY ReadAssumption
<1> HIDE DEF r
<1>3. ASSUME NEW j \in DOMAIN r
      PROVE  /\ IsList(r[j]) /\ KeysOnce(r[j])
             /\ \A x \in ToSet(r[j]) : x[1] = SymOrder[i] /\ x[2] = SymOrder[j]
  <2> DEFINE key == <<SymOrder[i], SymOrder[j]>>
             x == slots[key]
  <2>1. CASE key \notin DOMAIN slots
    <3>1. r[j] = <<>>
      BY <1>1, <2>1 DEF SlotAt
    <3> QED BY <3>1, EmptyList DEF KeysOnce
  <2>2. CASE key \in DOMAIN slots
    <3>1. r[j] = <<x>>
      BY <1>1, <2>2 DEF SlotAt
    <3>2. x[1] = SymOrder[i] /\ x[2] = SymOrder[j]
      BY <2>2 DEF SlotsKeyed
    <3> HIDE DEF x
    <3>3. IsList(<<x>>) /\ DOMAIN <<x>> = {1} /\ ToSet(<<x>>) = {x}
      BY SingleList DEF ToSet
    <3> QED BY <3>1, <3>2, <3>3 DEF KeysOnce
  <2> QED BY <2>1, <2>2
<1>4. ListsOf(r)
  BY <1>1, <1>2, <1>3, BuiltList DEF ListsOf
<1>5. \A j, k \in DOMAIN r : j # k => \A x \in ToSet(r[j]) : \A y \in ToSet(r[k]) : ~SameKey(x, y)
  <2> TAKE j, k \in DOMAIN r
  <2> HAVE j # k
  <2> TAKE x \in ToSet(r[j])
  <2> TAKE y \in ToSet(r[k])
  <2>1. x[2] = SymOrder[j] /\ y[2] = SymOrder[k] /\ SymOrder[j] # SymOrder[k]
    BY <1>1, <1>2, <1>3
  <2> QED BY <2>1 DEF SameKey
<1>6. KeysOnce(FlattenSeq(r))
  BY <1>3, <1>4, <1>5, FlattenedKeys
<1> DEFINE S == {x \in UNION {ToSet(r[j]) : j \in DOMAIN r} : x[1] = SymOrder[i]}
<1>7. \A j \in DOMAIN r : ToSet(r[j]) \subseteq S
  BY <1>3
<1>8. \A x \in S : x[1] = SymOrder[i]
  OBVIOUS
<1> HIDE DEF S
<1>9. ToSet(FlattenSeq(r)) \subseteq S
  BY <1>4, <1>7, FlattenedSet
<1> QED BY <1>4, <1>6, <1>8, <1>9, FlattenList DEF r

LEMMA SlotsInOrderOnce ==
    ASSUME SlotsKeyed(slots)
    PROVE  KeysOnce(SlotsInOrder)
<1> DEFINE rows == [i \in DOMAIN SymOrder |-> FlattenSeq(SlotRow(i))]
<1>1. DOMAIN rows = DOMAIN SymOrder /\ rows = [i \in DOMAIN rows |-> rows[i]] /\ \A i \in DOMAIN rows : rows[i] = FlattenSeq(SlotRow(i))
  OBVIOUS
<1>2. SlotsInOrder = FlattenSeq(rows)
  BY DEF SlotsInOrder, SlotRow
<1>3. IsList(SymOrder) /\ \A j, k \in DOMAIN SymOrder : SymOrder[j] = SymOrder[k] => j = k
  BY ReadAssumption
<1> HIDE DEF rows
<1>4. \A i \in DOMAIN rows : /\ IsList(rows[i]) /\ KeysOnce(rows[i])
                             /\ \A x \in ToSet(rows[i]) : x[1] = SymOrder[i]
  BY <1>1, SlotRowKeys
<1>5. ListsOf(rows)
  BY <1>1, <1>3, <1>4, BuiltList DEF ListsOf
<1>6. \A i, j \in DOMAIN rows : i # j => \A x \in ToSet(rows[i]) : \A y \in ToSet(rows[j]) : ~SameKey(x, y)
  BY <1>1, <1>3, <1>4 DEF SameKey
<1> QED BY <1>2, <1>4, <1>5, <1>6, FlattenedKeys

-----------------------------------------------------------------------------
(* What the records of a list of items say of each other *)

\* A record as the crossref run takes it over: nothing is linked to it yet.
Plain(r) == LinkFields \subseteq DOMAIN r /\ \A k \in LinkFields : r[k] = <<>>

\* What a record states, its items say too.
RecordSays(x, r) ==
    /\ Plain(r)
    /\ \A s \in ToSet(r.supers) : <<s, r.sym>> \in ToSet(x.subclass)
    /\ \A s \in ToSet(r.overrides) : <<s, r.sym>> \in ToSet(x.override)

Says(x) == \A r \in ToSet(x.structured) : RecordSays(x, r)

LEMMA SaysNothing ==
    ASSUME NEW x, x.structured = <<>>
    PROVE  Says(x)
BY EmptyList DEF Says

LEMMA SaysBoth ==
    ASSUME NEW x, NEW y, ItemsTyped(x), ItemsTyped(y), Says(x), Says(y)
    PROVE  Says(Both(x, y))
<1> DEFINE z == Both(x, y)
<1>1. /\ IsList(x.structured) /\ IsList(x.subclass) /\ IsList(x.override)
      /\ IsList(y.structured) /\ IsList(y.subclass) /\ IsList(y.override)
  BY Columns DEF ItemsTyped
<1>2. /\ z.structured = x.structured \o y.structured
      /\ z.subclass = x.subclass \o y.subclass
      /\ z.override = x.override \o y.override
  BY DEF Both, NoItems
<1> HIDE DEF z
<1>3. ToSet(z.structured) = ToSet(x.structured) \cup ToSet(y.structured)
  BY <1>1, <1>2, JoinedSet
<1>4. ToSet(z.subclass) = ToSet(x.subclass) \cup ToSet(y.subclass)
  BY <1>1, <1>2, JoinedSet
<1>5. ToSet(z.override) = ToSet(x.override) \cup ToSet(y.override)
  BY <1>1, <1>2, JoinedSet
<1>6. Says(z)
  BY <1>3, <1>4, <1>5 DEF Says, RecordSays
<1> QED BY <1>6 DEF z

LEMMA UntilEnds ==
    ASSUME NEW b, IsList(b)
    PROVE  Until(b, 0) = <<>> /\ Until(b, Len(b)) = b
<1>1. Len(b) \in Nat /\ 0 \in Nat /\ 0 <= Len(b) /\ Len(b) <= Len(b)
  BY ListLength
<1> DEFINE u == Until(b, 0)
           v == Until(b, Len(b))
<1>2. IsList(u) /\ Len(u) = 0
  BY <1>1, UntilList
<1>3. IsList(v) /\ Len(v) = Len(b) /\ \A i \in 1 .. Len(b) : v[i] = b[i]
  BY <1>1, UntilList
<1> HIDE DEF u, v
<1>4. u = <<>>
  BY <1>2, EmptySeq DEF IsList
<1>5. v = b
  BY <1>3, SameList
<1> QED BY <1>4, <1>5 DEF u, v

LEMMA SaysJoining ==
    ASSUME NEW cs, AllTyped(cs), \A i \in DOMAIN cs : Says(cs[i])
    PROVE  Says(Joining(cs))
<1> DEFINE n == Len(cs)
           T == {k \in 0 .. n : AllTyped(Until(cs, k)) /\ Says(Joining(Until(cs, k)))}
<1>1. IsList(cs) /\ n \in Nat /\ DOMAIN cs = 1 .. n
  BY ListLength DEF AllTyped
<1>2. 0 \in T
  <2>1. Until(cs, 0) = <<>>
    BY <1>1, UntilEnds
  <2>2. AllTyped(<<>>)
    BY EmptyList DEF AllTyped
  <2>3. Says(NoItems)
    BY SaysNothing DEF NoItems
  <2> QED BY <1>1, <2>1, <2>2, <2>3, JoiningNone
<1>3. ASSUME NEW k \in T, k < n PROVE k + 1 \in T
  <2>1. k \in Nat /\ k < Len(cs) /\ k + 1 \in 0 .. n /\ k + 1 \in DOMAIN cs
    BY <1>1, <1>3
  <2> DEFINE u == Until(cs, k)
             c == cs[k + 1]
             v == Until(cs, k + 1)
  <2>2. AllTyped(u) /\ Says(Joining(u))
    BY <1>3
  <2>3. ItemsTyped(c) /\ Says(c)
    BY <2>1 DEF AllTyped
  <2>4. v = u \o <<c>>
    BY <1>1, <2>1, UntilMore
  <2> HIDE DEF u, c, v
  <2>5. AllTyped(v) /\ Joining(v) = Both(Joining(u), c)
    BY <2>2, <2>3, <2>4, JoiningOneMore
  <2>6. Says(Joining(v))
    BY <2>2, <2>3, <2>5, JoiningTyped, SaysBoth
  <2> QED BY <2>1, <2>5, <2>6 DEF v
<1>4. T \in SUBSET (0 .. n) /\ n \in 0 .. n
  BY <1>1
<1> HIDE DEF T
<1>5. T = 0 .. n
  BY <1>1, <1>2, <1>3, <1>4, UpTo
<1>6. Says(Joining(Until(cs, n)))
  BY <1>4, <1>5 DEF T
<1> QED BY <1>1, <1>6, UntilEnds

LEMMA OneSaid ==
    ASSUME NEW x, NEW r, x.structured = <<r>>, RecordSays(x, r)
    PROVE  Says(x)
<1>1. ToSet(<<r>>) = {r}
  BY DEF ToSet
<1> QED BY <1>1 DEF Says

LEMMA FileItemsSay ==
    ASSUME NEW f, NEW s
    PROVE  Says(FileItems(f, s))
<1> DEFINE x == FileItems(f, s)
           q == Record(s, <<f.path>>, "file")
           r == Fresh(q, f.subsystem)
<1>1. /\ DOMAIN q = {"sym", "pretty", "kind", "parent", "supers", "overrides", "binding_slots", "slot_owner", "methods", "fields"}
      /\ q.supers = <<>> /\ q.overrides = <<>> /\ q.binding_slots = <<>> /\ q.slot_owner = <<>>
  BY DEF Record
<1>2. x.structured = <<r>>
  <2> HIDE DEF r
  <2> QED BY DEF FileItems, NoItems, r
<1> HIDE DEF x, q
<1>3. /\ LinkFields \subseteq DOMAIN r
      /\ r.supers = <<>> /\ r.overrides = <<>> /\ r.binding_slots = <<>> /\ r.slot_owner = <<>>
      /\ r.subclass_syms = <<>> /\ r.overridden_by = <<>>
  BY <1>1 DEF Fresh, LinkFields
<1> HIDE DEF r
<1>4. RecordSays(x, r)
  BY <1>3, EmptyList DEF RecordSays, Plain, LinkFields
<1> QED BY <1>2, <1>4, OneSaid DEF x

LEMMA SubsystemSays ==
    ASSUME NEW f, FileTyped(f)
    PROVE  Says(MakeSubsystem(f))
<1>1. CASE ~f.info
  BY <1>1, SaysNothing DEF MakeSubsystem, NoItems
<1>2. CASE f.info
  <2> DEFINE q == FileSyms(f)
             cs == [i \in DOMAIN q |-> FileItems(f, q[i])]
  <2>1. DOMAIN cs = DOMAIN q /\ cs = [i \in DOMAIN cs |-> cs[i]] /\ \A i \in DOMAIN q : cs[i] = FileItems(f, q[i])
    OBVIOUS
  <2>2. MakeSubsystem(f) = [k \in DOMAIN NoItems |-> FlattenSeq([i \in DOMAIN q |-> FileItems(f, q[i])[k]])]
    BY <1>2 DEF MakeSubsystem, Each
  <2> HIDE DEF cs, q
  <2>3. \A k : Column(cs, k) = [i \in DOMAIN q |-> FileItems(f, q[i])[k]]
    BY <2>1 DEF Column
  <2>4. MakeSubsystem(f) = Joining(cs)
    BY <2>2, <2>3 DEF Joining
  <2>5. AllTyped(cs)
    <3>1. IsList(q)
      BY FileSymsList DEF q
    <3> QED BY <2>1, <3>1, BuiltList, FileItemsTyped DEF AllTyped
  <2>6. \A i \in DOMAIN cs : Says(cs[i])
    BY <2>1, FileItemsSay
  <2> QED BY <2>4, <2>5, <2>6, SaysJoining
<1> QED BY <1>1, <1>2

\* A record of a file has the lists that are unlinked, and none that the
\* crossref run adds.
RecordGiven(r) ==
    /\ {"binding_slots", "slot_owner", "supers", "overrides", "sym"} \subseteq DOMAIN r
    /\ "subclass_syms" \notin DOMAIN r /\ "overridden_by" \notin DOMAIN r

LEMMA RecordsGiven ==
    ASSUME NEW fs \in Trees, NEW f \in ToSet(fs), NEW r \in ToSet(f.structured)
    PROVE  RecordGiven(r)
<1>1. FilesTyped(fs)
  BY ReadAssumption
<1>2. DOMAIN r = {"line", "sym", "pretty", "kind", "parent", "supers", "overrides",
                  "binding_slots", "slot_owner", "methods", "fields"}
  BY <1>1 DEF FilesTyped
<1> QED BY <1>2 DEF RecordGiven

LEMMA StructuredSays ==
    ASSUME NEW f, NEW r, RecordGiven(r)
    PROVE  Says(ProcessStructured(f, r))
<1> DEFINE x == ProcessStructured(f, r)
           subsystem == IF f.info THEN f.subsystem ELSE None
           plain == Unslotted(r)
           sub == [i \in DOMAIN r.supers |-> <<r.supers[i], r.sym>>]
           over == [i \in DOMAIN r.overrides |-> <<r.overrides[i], r.sym>>]
           own == [i \in DOMAIN r.binding_slots |->
                      <<r.sym, r.binding_slots[i].sym, r.binding_slots[i].props, subsystem>>]
           owned == [i \in DOMAIN r.slot_owner |->
                      <<r.slot_owner[i].sym, r.sym, r.slot_owner[i].props, subsystem>>]
           new == Fresh(plain, subsystem)
<1>1. x = [NoItems EXCEPT !.subclass = sub, !.override = over, !.slots = own \o owned, !.structured = <<new>>]
  BY DEF ProcessStructured
<1>2. /\ DOMAIN plain = DOMAIN r /\ plain.binding_slots = <<>> /\ plain.slot_owner = <<>>
      /\ plain.supers = r.supers /\ plain.overrides = r.overrides /\ plain.sym = r.sym
  BY DEF RecordGiven, Unslotted
<1>3. ASSUME NEW s \in ToSet(r.supers) PROVE <<s, r.sym>> \in ToSet(sub)
  BY <1>3 DEF ToSet
<1>4. ASSUME NEW s \in ToSet(r.overrides) PROVE <<s, r.sym>> \in ToSet(over)
  BY <1>4 DEF ToSet
<1> HIDE DEF x, sub, over, own, owned, plain, subsystem
<1>5. /\ LinkFields \subseteq DOMAIN new
      /\ new.supers = r.supers /\ new.overrides = r.overrides /\ new.sym = r.sym
      /\ new.binding_slots = <<>> /\ new.slot_owner = <<>>
      /\ new.subclass_syms = <<>> /\ new.overridden_by = <<>>
  BY <1>2 DEF Fresh, LinkFields, RecordGiven
<1> HIDE DEF new
<1>6. x.structured = <<new>> /\ x.subclass = sub /\ x.override = over
  BY <1>1 DEF NoItems
<1>7. RecordSays(x, new)
  BY <1>3, <1>4, <1>5, <1>6 DEF RecordSays, Plain, LinkFields
<1> QED BY <1>6, <1>7, OneSaid DEF x

LEMMA ReadItemsSay ==
    ASSUME NEW f, FileTyped(f), \A r \in ToSet(f.structured) : RecordGiven(r)
    PROVE  Says(ReadItems(f))
<1> DEFINE q == f.structured
           cs == [i \in DOMAIN q |-> RecordItems(f, q[i])]
           u == f.targets
           ds == [i \in DOMAIN u |-> ProcessTarget(f, u[i])]
           rs == Each(LAMBDA r : RecordItems(f, r), f.structured)
           ts == Each(LAMBDA t : ProcessTarget(f, t), f.targets)
<1>1. ItemsTyped(rs) /\ Says(rs)
  <2>1. DOMAIN cs = DOMAIN q /\ cs = [i \in DOMAIN cs |-> cs[i]] /\ \A i \in DOMAIN q : cs[i] = RecordItems(f, q[i])
    OBVIOUS
  <2>2. rs = [k \in DOMAIN NoItems |-> FlattenSeq([i \in DOMAIN q |-> RecordItems(f, q[i])[k]])]
    BY DEF Each
  <2> HIDE DEF cs, rs, ts, ds
  <2>3. \A k : Column(cs, k) = [i \in DOMAIN q |-> RecordItems(f, q[i])[k]]
    BY <2>1 DEF Column
  <2>4. rs = Joining(cs)
    BY <2>2, <2>3 DEF Joining
  <2>5. ASSUME NEW i \in DOMAIN q PROVE ItemsTyped(RecordItems(f, q[i])) /\ Says(RecordItems(f, q[i]))
    <3> DEFINE r == q[i]
               e == External(r)
               p == ProcessStructured(f, r)
    <3>1. r \in ToSet(f.structured)
      BY Members
    <3> HIDE DEF r
    <3>2. ItemsTyped(e) /\ ItemsTyped(p)
      BY <3>1, ExternalTyped, StructuredTyped
    <3>3. Says(p)
      BY <3>1, StructuredSays
    <3>4. e.structured = <<>>
      BY DEF External, NoItems
    <3> HIDE DEF e, p
    <3>5. Says(e)
      BY <3>4, SaysNothing
    <3>6. ItemsTyped(Both(e, p)) /\ Says(Both(e, p))
      BY <3>2, <3>3, <3>5, BothTyped, SaysBoth
    <3> QED BY <3>6 DEF RecordItems, e, p, r
  <2>6. AllTyped(cs)
    BY <2>1, <2>5, BuiltList DEF AllTyped, FileTyped
  <2>7. \A i \in DOMAIN cs : Says(cs[i])
    BY <2>1, <2>5
  <2> QED BY <2>4, <2>6, <2>7, JoiningTyped, SaysJoining
<1>2. ItemsTyped(ts) /\ Says(ts)
  <2>1. DOMAIN ds = DOMAIN u /\ ds = [i \in DOMAIN ds |-> ds[i]] /\ \A i \in DOMAIN u : ds[i] = ProcessTarget(f, u[i])
    OBVIOUS
  <2>2. ts = [k \in DOMAIN NoItems |-> FlattenSeq([i \in DOMAIN u |-> ProcessTarget(f, u[i])[k]])]
    BY DEF Each
  <2> HIDE DEF cs, rs, ts, ds
  <2>3. \A k : Column(ds, k) = [i \in DOMAIN u |-> ProcessTarget(f, u[i])[k]]
    BY <2>1 DEF Column
  <2>4. ts = Joining(ds)
    BY <2>2, <2>3 DEF Joining
  <2>5. ASSUME NEW i \in DOMAIN u PROVE ItemsTyped(ProcessTarget(f, u[i]))
    BY Members, TargetTyped
  <2>6. AllTyped(ds)
    BY <2>1, <2>5, BuiltList DEF AllTyped, FileTyped
  <2>7. ASSUME NEW i \in DOMAIN ds PROVE Says(ds[i])
    <3> DEFINE x == ProcessTarget(f, u[i])
    <3>1. ds[i] = x
      BY <2>1
    <3>2. x.structured = <<>>
      BY DEF ProcessTarget, NoItems
    <3> HIDE DEF x
    <3> QED BY <3>1, <3>2, SaysNothing
  <2> QED BY <2>4, <2>6, <2>7, JoiningTyped, SaysJoining
<1> DEFINE ms == MakeSubsystem(f)
<1>3. ReadItems(f) = Both(ms, Both(rs, ts))
  BY DEF ReadItems
<1>4. ItemsTyped(ms) /\ Says(ms)
  BY SubsystemTyped, SubsystemSays
<1> HIDE DEF rs, ts, ms
<1>5. ItemsTyped(Both(rs, ts)) /\ Says(Both(rs, ts))
  BY <1>1, <1>2, BothTyped, SaysBoth
<1> QED BY <1>3, <1>4, <1>5, SaysBoth

LEMMA PartSays ==
    ASSUME NEW fs \in Trees, NEW a \in Nat, NEW b \in Nat, a <= b, b <= Len(fs)
    PROVE  Says(Part(fs, a, b))
<1> DEFINE g == Gives(fs, a, b)
<1>1. AllTyped(g) /\ DOMAIN g = 1 .. b - a /\ \A i \in 1 .. b - a : g[i] = ReadItems(fs[a + i])
  <2>1. AllTyped(g)
    BY GivesTyped
  <2> QED BY <2>1 DEF Gives
<1>2. ASSUME NEW i \in 1 .. b - a PROVE Says(ReadItems(fs[a + i]))
  <2>1. Len(fs) \in Nat /\ DOMAIN fs = 1 .. Len(fs)
    BY FilesGiven, ListLength
  <2>2. a + i \in DOMAIN fs
    BY <2>1
  <2> DEFINE f == fs[a + i]
  <2>3. f \in ToSet(fs)
    BY <2>2, Members
  <2> HIDE DEF f
  <2>4. FileTyped(f) /\ \A r \in ToSet(f.structured) : RecordGiven(r)
    BY <2>3, FilesGiven, RecordsGiven
  <2>5. Says(ReadItems(f))
    BY <2>4, ReadItemsSay
  <2> QED BY <2>5 DEF f
<1> HIDE DEF g
<1>3. Says(Joining(g))
  BY <1>1, <1>2, SaysJoining
<1> QED BY <1>3 DEF Part, g

-----------------------------------------------------------------------------
(* The steps that link *)

AllPlain(m) == \A s \in DOMAIN m : Plain(m[s])

LEMMA PlainMerged ==
    ASSUME NEW m, AllPlain(m), NEW b, IsList(b), \A r \in ToSet(b) : Plain(r)
    PROVE  AllPlain(MergeMeta(m, b))
<1>1. PICK f : /\ f[0] = m
               /\ \A k \in 1 .. Len(b) : f[k] = AddRecord(f[k - 1], b[k])
               /\ MergeMeta(m, b) = f[Len(b)]
  BY MetaFold
<1> DEFINE n == Len(b)
           T == {k \in 0 .. n : AllPlain(f[k])}
<1>2. n \in Nat /\ DOMAIN b = 1 .. n
  BY ListLength
<1>3. 0 \in T
  BY <1>1, <1>2
<1>4. ASSUME NEW k \in T, k < n PROVE k + 1 \in T
  <2>1. k + 1 \in 0 .. n /\ k + 1 \in 1 .. n /\ (k + 1) - 1 = k
    BY <1>2, <1>4
  <2>2. f[k + 1] = AddRecord(f[k], b[k + 1])
    BY <1>1, <2>1
  <2>3. Plain(b[k + 1])
    BY <1>2, <2>1, Members
  <2>4. AllPlain(f[k])
    BY <1>4
  <2>5. AllPlain(f[k + 1])
    BY <2>2, <2>3, <2>4 DEF AllPlain, AddRecord, Put
  <2> QED BY <2>1, <2>5
<1>5. T \in SUBSET (0 .. n) /\ n \in 0 .. n
  BY <1>2
<1> HIDE DEF T
<1>6. T = 0 .. n
  BY <1>2, <1>3, <1>4, <1>5, UpTo
<1> QED BY <1>1, <1>5, <1>6 DEF T

LEMMA PlainLinkable ==
    ASSUME NEW m, AllPlain(m)
    PROVE  Linkable(m) /\ SlotsUnlinked(m)
<1>1. "binding_slots" \in LinkFields /\ "slot_owner" \in LinkFields
  BY DEF LinkFields
<1> QED BY <1>1, EmptyList DEF AllPlain, Plain, Linkable, SlotsUnlinked

LEMMA FollowedNone == ASSUME NEW m PROVE Followed(m, NoItems)
BY EmptyList DEF Followed, NoItems

LEMMA FollowedBoth ==
    ASSUME NEW m, NEW x, NEW y, ItemsTyped(x), ItemsTyped(y), Followed(m, x), Followed(m, y)
    PROVE  Followed(m, Both(x, y))
<1> DEFINE z == Both(x, y)
<1>1. IsList(x.subclass) /\ IsList(x.override) /\ IsList(y.subclass) /\ IsList(y.override)
  BY Columns DEF ItemsTyped
<1>2. z.subclass = x.subclass \o y.subclass /\ z.override = x.override \o y.override
  BY DEF Both, NoItems
<1> HIDE DEF z
<1>3. ToSet(z.subclass) = ToSet(x.subclass) \cup ToSet(y.subclass)
  BY <1>1, <1>2, JoinedSet
<1>4. ToSet(z.override) = ToSet(x.override) \cup ToSet(y.override)
  BY <1>1, <1>2, JoinedSet
<1>5. Followed(m, z)
  BY <1>3, <1>4 DEF Followed
<1> QED BY <1>5 DEF z

\* What is linked stays linked.
LEMMA StillFollowed ==
    ASSUME NEW m, NEW n, NEW x, Followed(m, x),
           \A p : \A k \in {"subclass_syms", "overridden_by"} : Names(m, p, k) => Names(n, p, k)
    PROVE  Followed(n, x)
BY DEF Followed

Following(n) == Followed(meta, Part(files, 0, n))

(* Until the records are linked they have no links; a link that a merged   *)
(* thread states has been followed since; the slots are keyed by their     *)
(* owner and symbol, so none of them is linked twice.                      *)
LinkInv ==
    /\ phase \in {"read", "merge"} => AllPlain(meta) /\ slots = <<>>
    /\ phase \in {"link", "slots"} => Linkable(meta) /\ SlotsUnlinked(meta) /\ SlotsKeyed(slots)
    /\ phase = "link" => Following(UpTill(from))
    /\ phase \in {"slots", "fields"} => Following(total)
    /\ phase = "fields" => OwnersHave(meta) /\ SlotsOwned(meta) /\ SlotsOnce(meta)

LEMMA LinkInvInit == ReadInit => LinkInv
<1> SUFFICES ASSUME ReadInit PROVE LinkInv
  OBVIOUS
<1>1. phase = "read" /\ meta = <<>> /\ slots = <<>>
  BY DEF ReadInit
<1>2. AllPlain(meta)
  BY <1>1, EmptyList DEF AllPlain
<1> QED BY <1>1, <1>2 DEF LinkInv

LEMMA OutSays ==
    ASSUME ReadInv, NEW t \in Readers
    PROVE  Says(out[t])
<1>1. /\ files \in Trees /\ next \in [Readers -> Nat] /\ StartOf(t) <= next[t] /\ next[t] <= EndOf(t)
      /\ out[t] = Part(files, StartOf(t), next[t])
  BY DEF ReadInv
<1>2. StartOf(t) \in Nat /\ EndOf(t) \in Nat /\ EndOf(t) <= Len(files) /\ Len(files) \in Nat
  BY <1>1, Ranges DEF total
<1>3. next[t] \in Nat /\ next[t] <= Len(files)
  BY <1>1, <1>2
<1> QED BY <1>1, <1>2, <1>3, PartSays

LEMMA MergeOutLinks == ReadInv /\ LinkInv /\ MergeOut => LinkInv'
<1> SUFFICES ASSUME ReadInv, LinkInv, MergeOut PROVE LinkInv'
  OBVIOUS
<1>1. phase = "merge" /\ files' = files /\ slots' = slots
  BY DEF MergeOut
<1>2. files \in Trees /\ from \in 0 .. thread_count /\ AllPlain(meta) /\ slots = <<>>
  BY <1>1 DEF ReadInv, LinkInv
<1>3. thread_count \in Nat /\ UpTill(0) = 0
  BY <1>2, Ranges
<1>4. CASE from < thread_count
  <2>1. meta' = MergeMeta(meta, out[from].structured) /\ phase' = phase
    BY <1>4 DEF MergeOut
  <2> DEFINE x == out[from]
  <2>2. from \in Readers
    BY <1>2, <1>3, <1>4 DEF Readers
  <2>3. IsList(x.structured) /\ Says(x)
    BY <2>2, OutTyped, OutSays, Columns DEF ItemsTyped
  <2>4. \A r \in ToSet(x.structured) : Plain(r)
    BY <2>3 DEF Says, RecordSays
  <2>5. AllPlain(MergeMeta(meta, x.structured))
    <3> HIDE DEF x
    <3> QED BY <1>2, <2>3, <2>4, PlainMerged
  <2>6. AllPlain(meta)'
    BY <2>1, <2>5 DEF AllPlain
  <2> QED BY <1>1, <1>2, <2>1, <2>6 DEF LinkInv
<1>5. CASE ~(from < thread_count)
  <2>1. phase' = "link" /\ from' = 0 /\ meta' = meta
    BY <1>5 DEF MergeOut
  <2>2. Linkable(meta) /\ SlotsUnlinked(meta)
    BY <1>2, PlainLinkable
  <2>3. SlotsKeyed(slots)
    BY <1>2, EmptyList DEF SlotsKeyed
  <2>4. Following(0)
    <3>1. Part(files, 0, 0) = NoItems
      BY PartNone
    <3> QED BY <3>1, FollowedNone DEF Following
  <2>5. UpTill(from)' = 0
    <3>1. UpTill(0) = IF 0 = thread_count THEN total ELSE chunk * 0
      BY DEF UpTill, StartOf
    <3>2. UpTill(from)' = IF from' = thread_count' THEN total' ELSE chunk' * from'
      BY DEF UpTill, StartOf
    <3>3. total' = total /\ thread_count' = thread_count
      BY <1>1, FromFiles
    <3>4. chunk' = chunk
      BY <3>3 DEF chunk
    <3> QED BY <1>3, <2>1, <3>1, <3>2, <3>3, <3>4
  <2>6. Following(UpTill(from))'
    BY <1>1, <2>1, <2>4, <2>5 DEF Following
  <2>7. Linkable(meta)' /\ SlotsUnlinked(meta)' /\ SlotsKeyed(slots)'
    BY <1>1, <2>1, <2>2, <2>3
  <2> QED BY <2>1, <2>6, <2>7 DEF LinkInv
<1> QED BY <1>4, <1>5

LEMMA LinkOutLinks == ReadInv /\ LinkInv /\ LinkOut => LinkInv'
<1> SUFFICES ASSUME ReadInv, LinkInv, LinkOut PROVE LinkInv'
  OBVIOUS
<1>1. phase = "link" /\ files' = files
  BY DEF LinkOut
<1>2. /\ files \in Trees /\ from \in 0 .. thread_count /\ next \in [Readers -> Nat]
      /\ Linkable(meta) /\ SlotsUnlinked(meta) /\ SlotsKeyed(slots) /\ Following(UpTill(from))
      /\ \A t \in Readers : next[t] = EndOf(t)
      /\ out = [t \in Readers |-> Part(files, StartOf(t), next[t])]
  BY <1>1 DEF ReadInv, LinkInv
<1>3. /\ total' = total /\ thread_count' = thread_count
  BY <1>1, FromFiles
<1>4. /\ total \in Nat /\ thread_count \in Nat /\ UpTill(thread_count) = total
      /\ \A t \in Readers : /\ StartOf(t) \in Nat /\ EndOf(t) \in Nat
                            /\ StartOf(t) <= EndOf(t) /\ EndOf(t) <= total
                            /\ UpTill(t) = StartOf(t) /\ UpTill(t + 1) = EndOf(t)
  BY <1>2, Ranges
<1>5. CASE from < thread_count
  <2>1. /\ meta' = LinkOverrides(LinkSubclasses(meta, out[from].subclass), out[from].override)
        /\ slots' = SlotLinks(slots, out[from].slots)
        /\ from' = from + 1 /\ phase' = phase
    BY <1>5 DEF LinkOut
  <2>2. from \in Readers
    BY <1>2, <1>4, <1>5 DEF Readers
  <2> DEFINE a == StartOf(from)
             b == EndOf(from)
             p == Part(files, 0, a)
             q == Part(files, a, b)
  <2>3. a \in Nat /\ b \in Nat /\ a <= b /\ b <= Len(files) /\ Len(files) \in Nat /\ UpTill(from) = a /\ UpTill(from + 1) = b
    BY <1>4, <2>2 DEF total
  <2>4. out[from] = q
    BY <1>2, <2>2
  <2> HIDE DEF a, b
  <2>5. ItemsTyped(p) /\ ItemsTyped(q)
    <3>1. 0 <= a /\ a <= Len(files) /\ 0 \in Nat
      BY <2>3
    <3> QED BY <1>2, <2>3, <3>1, GivesTyped
  <2>6. Both(p, q) = Part(files, 0, b)
    <3>1. 0 <= a /\ 0 \in Nat
      BY <2>3
    <3> QED BY <1>2, <2>3, <3>1, PartsJoin
  <2>7. Followed(meta, p)
    BY <1>2, <2>3 DEF Following
  <2> HIDE DEF p, q
  <2>8. IsList(q.subclass) /\ IsList(q.override) /\ IsList(q.slots)
    BY <2>5, Columns DEF ItemsTyped
  <2>9. meta' = LinkOverrides(LinkSubclasses(meta, q.subclass), q.override)
    BY <2>1, <2>4
  <2> DEFINE n == LinkOverrides(LinkSubclasses(meta, q.subclass), q.override)
  <2>10. /\ Linkable(n) /\ DOMAIN n = DOMAIN meta /\ Followed(n, q)
         /\ \A x : \A k \in LinkFields : Names(meta, x, k) => Names(n, x, k)
         /\ \A s \in DOMAIN meta : n[s].binding_slots = meta[s].binding_slots /\ n[s].slot_owner = meta[s].slot_owner
    BY <1>2, <2>8, PairsLinked
  <2> HIDE DEF n
  <2>11. \A x : \A k \in {"subclass_syms", "overridden_by"} : Names(meta, x, k) => Names(n, x, k)
    BY <2>10 DEF LinkFields
  <2>12. Followed(n, p)
    BY <2>7, <2>11, StillFollowed
  <2>13. Followed(n, Part(files, 0, b))
    BY <2>5, <2>6, <2>10, <2>12, FollowedBoth
  <2>14. SlotsUnlinked(n)
    BY <1>2, <2>10 DEF SlotsUnlinked
  <2>15. SlotsKeyed(SlotLinks(slots, q.slots))
    BY <1>2, <2>8, SlotsAdded
  <2>16. UpTill(from)' = UpTill(from + 1)
    <3>1. UpTill(from + 1) = IF from + 1 = thread_count THEN total ELSE chunk * (from + 1)
      BY DEF UpTill, StartOf
    <3>2. UpTill(from)' = IF from' = thread_count' THEN total' ELSE chunk' * from'
      BY DEF UpTill, StartOf
    <3>3. chunk' = chunk
      BY <1>3 DEF chunk
    <3> QED BY <1>3, <2>1, <3>1, <3>2, <3>3
  <2>17. meta' = n
    BY <2>9 DEF n
  <2>18. Following(UpTill(from))'
    BY <1>1, <2>3, <2>13, <2>16, <2>17 DEF Following
  <2>19. Linkable(meta)' /\ SlotsUnlinked(meta)' /\ SlotsKeyed(slots)'
    BY <2>1, <2>4, <2>10, <2>14, <2>15, <2>17
  <2>20. phase' = "link"
    BY <1>1, <2>1
  <2> QED BY <2>18, <2>19, <2>20 DEF LinkInv
<1>6. CASE ~(from < thread_count)
  <2>1. phase' = "slots" /\ meta' = meta /\ slots' = slots
    BY <1>6 DEF LinkOut
  <2>2. from = thread_count
    BY <1>2, <1>4, <1>6
  <2>3. Following(total)
    BY <1>2, <1>4, <2>2
  <2>4. Following(total)'
    BY <1>1, <1>3, <2>1, <2>3 DEF Following
  <2>5. Linkable(meta)' /\ SlotsUnlinked(meta)' /\ SlotsKeyed(slots)'
    BY <1>2, <2>1
  <2> QED BY <2>1, <2>4, <2>5 DEF LinkInv
<1> QED BY <1>5, <1>6

LEMMA LinkSlotsLinks == LinkInv /\ LinkSlots => LinkInv'
<1> SUFFICES ASSUME LinkInv, LinkSlots PROVE LinkInv'
  OBVIOUS
<1>1. phase = "slots" /\ phase' = "fields" /\ files' = files /\ meta' = LinkAll(meta, SlotsInOrder)
  BY DEF LinkSlots
<1>2. Linkable(meta) /\ SlotsUnlinked(meta) /\ SlotsKeyed(slots) /\ Following(total)
  BY <1>1 DEF LinkInv
<1>3. total' = total
  BY <1>1, FromFiles
<1> DEFINE q == SlotsInOrder
           n == LinkAll(meta, q)
<1>4. IsList(q) /\ KeysOnce(q)
  BY <1>2, SlotsList, SlotsInOrderOnce
<1>5. meta' = n
  BY <1>1
<1> HIDE DEF q
<1>6. /\ Linkable(n) /\ OwnersHave(n) /\ SlotsOwned(n) /\ SlotsOnce(n)
      /\ \A p : \A k \in {"subclass_syms", "overridden_by"} : Names(meta, p, k) => Names(n, p, k)
  BY <1>2, <1>4, SlotsLinked
<1> HIDE DEF n
<1>7. Followed(n, Part(files, 0, total))
  BY <1>2, <1>6, StillFollowed DEF Following
<1>8. Following(total)'
  BY <1>1, <1>3, <1>5, <1>7 DEF Following
<1>9. OwnersHave(meta)' /\ SlotsOwned(meta)' /\ SlotsOnce(meta)'
  BY <1>5, <1>6
<1> QED BY <1>1, <1>8, <1>9 DEF LinkInv

LEMMA LinkInvStep == ReadInv /\ LinkInv /\ [ReadNext]_readVars => LinkInv'
<1> SUFFICES ASSUME ReadInv, LinkInv, [ReadNext]_readVars PROVE LinkInv'
  OBVIOUS
<1>1. ASSUME NEW t \in Readers, ReadFile(t) PROVE LinkInv'
  <2>1. phase = "read" /\ phase' = phase /\ meta' = meta /\ slots' = slots
    BY <1>1 DEF ReadFile
  <2>2. AllPlain(meta)' <=> AllPlain(meta)
    BY <2>1 DEF AllPlain
  <2> QED BY <2>1, <2>2 DEF LinkInv
<1>2. CASE ReadersJoined
  <2>1. phase = "read" /\ phase' = "merge" /\ meta' = meta /\ slots' = slots
    BY <1>2 DEF ReadersJoined
  <2>2. AllPlain(meta)' <=> AllPlain(meta)
    BY <2>1 DEF AllPlain
  <2> QED BY <2>1, <2>2 DEF LinkInv
<1>3. CASE MergeOut
  BY <1>3, MergeOutLinks
<1>4. CASE LinkOut
  BY <1>4, LinkOutLinks
<1>5. CASE LinkSlots
  BY <1>5, LinkSlotsLinks
<1>6. CASE UNCHANGED readVars
  <2>1. files' = files /\ phase' = phase /\ from' = from /\ meta' = meta /\ slots' = slots
    BY <1>6 DEF readVars
  <2>2. total' = total /\ thread_count' = thread_count /\ UpTill(from)' = UpTill(from)
    BY <2>1, FromFiles
  <2>3. /\ Following(total)' <=> Following(total)
        /\ Following(UpTill(from))' <=> Following(UpTill(from))
    BY <2>1, <2>2 DEF Following
  <2>4. /\ AllPlain(meta)' <=> AllPlain(meta)
        /\ Linkable(meta)' <=> Linkable(meta)
        /\ SlotsUnlinked(meta)' <=> SlotsUnlinked(meta)
        /\ SlotsKeyed(slots)' <=> SlotsKeyed(slots)
        /\ OwnersHave(meta)' <=> OwnersHave(meta)
        /\ SlotsOwned(meta)' <=> SlotsOwned(meta)
        /\ SlotsOnce(meta)' <=> SlotsOnce(meta)
    BY <2>1 DEF AllPlain, Linkable, SlotsUnlinked, SlotsKeyed, OwnersHave, SlotsOwned, SlotsOnce
  <2> QED BY <2>1, <2>3, <2>4 DEF LinkInv
<1> QED BY <1>1, <1>2, <1>3, <1>4, <1>5, <1>6 DEF ReadNext

\* The record of a symbol is the first one that a file gives of it.
LEMMA FirstRecord ==
    ASSUME NEW m, NEW q, IsList(q), RecordsOf(m, q), NEW s \in DOMAIN m
    PROVE  \E r \in ToSet(q) : r.sym = s /\ \A k \in Stated : m[s][k] = r[k]
<1> DEFINE S == {i \in DOMAIN q : q[i].sym = s}
<1>1. DOMAIN q = 1 .. Len(q) /\ Len(q) \in Nat /\ ToSet(q) = {q[i] : i \in DOMAIN q}
  BY ListLength DEF ToSet
<1>2. S \in SUBSET Nat /\ S # {}
  BY <1>1 DEF RecordsOf
<1>3. PICK i \in S : \A j \in S : i <= j
  <2> HIDE DEF S
  <2> QED BY <1>2, LeastElement
<1>4. i \in DOMAIN q /\ q[i].sym = s /\ \A j \in DOMAIN q : j < i => q[j].sym # q[i].sym
  BY <1>1, <1>3
<1>5. \A k \in Stated : m[s][k] = q[i][k]
  BY <1>4 DEF RecordsOf
<1> QED BY <1>1, <1>4, <1>5

LEMMA LinkInvSays == ReadInv /\ LinkInv => LinksBothWays
<1> SUFFICES ASSUME ReadInv, LinkInv, Linked, NEW s \in DOMAIN meta
             PROVE  /\ \A p \in ToSet(meta[s].supers) \cap DOMAIN meta : meta[s].sym \in ToSet(meta[p].subclass_syms)
                    /\ \A p \in ToSet(meta[s].overrides) \cap DOMAIN meta : meta[s].sym \in ToSet(meta[p].overridden_by)
                    /\ \A o \in ToSet(meta[s].slot_owner) : o.sym \in DOMAIN meta =>
                          \E b \in ToSet(meta[o.sym].binding_slots) : b.sym = meta[s].sym /\ b.props = o.props
                    /\ \A b \in ToSet(meta[s].binding_slots) : b.sym \in DOMAIN meta => meta[b.sym].slot_owner # <<>>
                    /\ \A i, j \in DOMAIN meta[s].binding_slots :
                          meta[s].binding_slots[i].sym = meta[s].binding_slots[j].sym => i = j
  BY DEF LinksBothWays
<1>1. phase = "fields" /\ Merged
  BY DEF ReadInv, Linked, Merged
<1>2. files \in Trees /\ Holding(total) /\ Following(total) /\ OwnersHave(meta) /\ SlotsOwned(meta) /\ SlotsOnce(meta)
  BY <1>1 DEF ReadInv, LinkInv
<1> DEFINE q == Part(files, 0, total)
<1>3. ItemsTyped(q) /\ Says(q)
  <2>1. total \in Nat /\ 0 \in Nat /\ 0 <= total /\ total <= Len(files)
    BY <1>2, Ranges DEF total
  <2> QED BY <1>2, <2>1, GivesTyped, PartSays
<1>4. RecordsOf(meta, q.structured) /\ Followed(meta, q)
  BY <1>2 DEF Holding, Holds, Following
<1> HIDE DEF q
<1>5. IsList(q.structured)
  BY <1>3, Columns DEF ItemsTyped
<1>6. PICK r \in ToSet(q.structured) : r.sym = s /\ \A k \in Stated : meta[s][k] = r[k]
  BY <1>4, <1>5, FirstRecord
<1>7. meta[s].sym = s /\ meta[s].supers = r.supers /\ meta[s].overrides = r.overrides
  BY <1>6 DEF Stated
<1>8. RecordSays(q, r)
  BY <1>3 DEF Says
<1>9. ASSUME NEW p \in ToSet(meta[s].supers), p \in DOMAIN meta PROVE s \in ToSet(meta[p].subclass_syms)
  <2>1. <<p, s>> \in ToSet(q.subclass)
    BY <1>6, <1>7, <1>8 DEF RecordSays
  <2>2. Names(meta, <<p, s>>, "subclass_syms")
    BY <1>4, <2>1 DEF Followed
  <2> QED BY <1>9, <2>2 DEF Names
<1>10. ASSUME NEW p \in ToSet(meta[s].overrides), p \in DOMAIN meta PROVE s \in ToSet(meta[p].overridden_by)
  <2>1. <<p, s>> \in ToSet(q.override)
    BY <1>6, <1>7, <1>8 DEF RecordSays
  <2>2. Names(meta, <<p, s>>, "overridden_by")
    BY <1>4, <2>1 DEF Followed
  <2> QED BY <1>10, <2>2 DEF Names
<1>11. \A o \in ToSet(meta[s].slot_owner) : o.sym \in DOMAIN meta =>
          \E b \in ToSet(meta[o.sym].binding_slots) : b.sym = s /\ b.props = o.props
  BY <1>2 DEF OwnersHave
<1>12. \A b \in ToSet(meta[s].binding_slots) : b.sym \in DOMAIN meta => meta[b.sym].slot_owner # <<>>
  BY <1>2 DEF SlotsOwned
<1>13. \A i, j \in DOMAIN meta[s].binding_slots :
          meta[s].binding_slots[i].sym = meta[s].binding_slots[j].sym => i = j
  BY <1>2 DEF SlotsOnce
<1> QED BY <1>7, <1>9, <1>10, <1>11, <1>12, <1>13

(* In whatever order the threads read, when all records are linked, every  *)
(* link that a record states can be followed from both ends                *)
(* (read_analysis_files and the linking after it).                         *)
THEOREM LinksGoBothWays == ReadSpec => []LinksBothWays
<1>1. ReadInit => ReadInv /\ LinkInv
  BY ReadInvInit, LinkInvInit
<1>2. ReadInv /\ LinkInv /\ [ReadNext]_readVars => (ReadInv /\ LinkInv)'
  BY ReadInvStep, LinkInvStep
<1>3. ReadInv /\ LinkInv => LinksBothWays
  BY LinkInvSays
<1> QED BY <1>1, <1>2, <1>3, PTL DEF ReadSpec

=============================================================================
