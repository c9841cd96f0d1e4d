-------------------------- MODULE MergeExpandProofs --------------------------
(* Of the two programs that make one list out of many without losing or      *)
(* repeating anything.                                                       *)
(* MergePlatforms, for any platforms and any files: the source records that  *)
(* merge-analyses writes keep what the platforms' records say.  Reading      *)
(* collects every record; sorting makes those of one place and name          *)
(* neighbours; and a record in the making stands for a set of records, which *)
(* grows until it is all of them (Stands).                                   *)
(* Expand, for any database, any limits and any queries: every label of an   *)
(* expanded symbol is true, and what no limit left out is there.  What is    *)
(* expanded and what is still to be expanded form one list that only grows,  *)
(* at its end, by what the symbol in turn offers (Listing, ExpandInv).       *)
(* Neither uses the other; they share what is known of folds and of lists.   *)
EXTENDS MergePlatforms, Expand, FiniteSetTheorems, SequenceTheorems, WellFoundedInduction, TLAPS

NatLess == {ss \in Nat \X Nat : ss[1] < ss[2]}

LEMMA NatLessWF == IsWellFoundedOn(NatLess, Nat)
BY NatLessThanWellFounded DEF OpToRel, NatLess

LEMMA LeastElement ==
    ASSUME NEW T \in SUBSET Nat, T # {}
    PROVE  \E x \in T : \A y \in T : x <= y
<1>1. PICK x \in T : \A y \in T : ~ (<<y, x>> \in NatLess)
  BY NatLessWF, WFMin
<1>2. \A y \in T : ~ (y < x)
  BY <1>1 DEF NatLess
<1> QED BY <1>2

LEMMA GreatestElement ==
    ASSUME NEW n \in Nat, NEW T \in SUBSET (1 .. n), T # {}
    PROVE  \E x \in T : \A y \in T : y <= x
<1> DEFINE D == {n - y : y \in T}
<1>1. D \in SUBSET Nat /\ D # {}
  <2>1. \A y \in T : y \in 1 .. n /\ n - y \in Nat
    OBVIOUS
  <2> QED BY <2>1
<1>2. PICK d \in D : \A e \in D : d <= e
  BY <1>1, LeastElement
<1>3. PICK x \in T : d = n - x
  BY <1>2
<1>4. \A y \in T : n - x <= n - y
  BY <1>2, <1>3
<1> QED BY <1>4

LEMMA UpTo ==
    ASSUME NEW n \in Nat, NEW T \in SUBSET (0 .. n), 0 \in T,
           \A k \in T : k < n => k + 1 \in T
    PROVE  T = 0 .. n
<1> SUFFICES ASSUME (0 .. n) \ T # {} PROVE FALSE
  OBVIOUS
<1>1. (0 .. n) \ T \in SUBSET Nat
  OBVIOUS
<1>2. PICK x \in (0 .. n) \ T : \A y \in (0 .. n) \ T : x <= y
  BY <1>1, LeastElement
<1>3. x # 0 /\ x \in 0 .. n
  BY <1>2
<1>4. x - 1 \in 0 .. n /\ x - 1 \notin (0 .. n) \ T /\ (x - 1) + 1 = x /\ x - 1 < n
  BY <1>2, <1>3
<1> QED BY <1>2, <1>4
-----------------------------------------------------------------------------
(* Folds *)

\* The greatest member is the one Max chooses.
LEMMA MaxUpTo ==
    ASSUME NEW k \in Nat, k # 0
    PROVE  Max(1 .. k) = k
<1>1. k \in 1 .. k /\ \A y \in 1 .. k : k >= y
  OBVIOUS
<1>2. \A x \in 1 .. k : (\A y \in 1 .. k : x >= y) => x = k
  BY <1>1
<1> QED BY <1>1, <1>2 DEF Max

\* A fold of the function G over the sequence q, as a function of the set of
\* positions that are done.
FoldMap(h, G, a, n, q) ==
    h = [s \in SUBSET (1 .. n) |-> IF s = {} THEN a ELSE G[<<h[s \ {Max(s)}], q[Max(s)]>>]]

LEMMA FoldExists ==
    ASSUME NEW G, NEW a, NEW n \in Nat, NEW q
    PROVE  \E h : FoldMap(h, G, a, n, q)
<1> DEFINE F(x, m) == [s \in SUBSET (1 .. m) |->
                         IF s = {} THEN a ELSE G[<<x[s \ {Max(s)}], q[Max(s)]>>]]
           h == CHOOSE x : x = F(x, n)
           T == {m \in 0 .. n : \E x : x = F(x, m)}
<1>1. 0 \in T
  <2> DEFINE x == [s \in SUBSET (1 .. 0) |-> a]
  <2>1. 1 .. 0 = {}
    OBVIOUS
  <2>2. x = F(x, 0)
    BY <2>1
  <2> HIDE DEF F, x
  <2> QED BY <2>2
<1>2. ASSUME NEW m \in T, m < n PROVE m + 1 \in T
  <2>1. m \in 0 .. n /\ m + 1 \in 0 .. n
    BY <1>2
  <2>2. PICK x : x = F(x, m)
    BY <1>2
  <2> DEFINE y == [s \in SUBSET (1 .. m + 1) |->
                     IF s \subseteq 1 .. m THEN x[s]
                     ELSE G[<<x[s \ {m + 1}], q[m + 1]>>]]
  <2>3. ASSUME NEW s \in SUBSET (1 .. m + 1)
        PROVE  y[s] = IF s = {} THEN a ELSE G[<<y[s \ {Max(s)}], q[Max(s)]>>]
    <3>1. CASE s \subseteq 1 .. m
      <4>1. y[s] = x[s] /\ x[s] = IF s = {} THEN a ELSE G[<<x[s \ {Max(s)}], q[Max(s)]>>]
        <5>1. x[s] = F(x, m)[s]
          BY <2>2
        <5>2. F(x, m)[s] = IF s = {} THEN a ELSE G[<<x[s \ {Max(s)}], q[Max(s)]>>]
          BY <3>1
        <5>3. y[s] = x[s]
          BY <3>1
        <5> HIDE DEF F, y
        <5> QED BY <5>1, <5>2, <5>3
      <4>2. y[s \ {Max(s)}] = x[s \ {Max(s)}]
        BY <3>1
      <4> HIDE DEF F, y
      <4> QED BY <4>1, <4>2
    <3>2. CASE ~(s \subseteq 1 .. m)
      <4>1. m + 1 \in s /\ \A i \in s : i \in 1 .. m + 1
        BY <2>1, <3>2
      <4>2. Max(s) = m + 1
        <5>1. \A i \in s : m + 1 >= i
          BY <2>1, <4>1
        <5>2. \A z \in s : (\A i \in s : z >= i) => z = m + 1
          BY <2>1, <4>1
        <5> QED BY <4>1, <5>1, <5>2 DEF Max
      <4>3. s \ {m + 1} \subseteq 1 .. m /\ s # {}
        BY <2>1, <4>1
      <4>4. y[s] = G[<<x[s \ {m + 1}], q[m + 1]>>]
        BY <3>2
      <4>5. y[s \ {m + 1}] = x[s \ {m + 1}]
        BY <4>3
      <4> HIDE DEF F, y
      <4> QED BY <4>2, <4>3, <4>4, <4>5
    <3> QED BY <3>1, <3>2
  <2>4. y = F(y, m + 1)
    <3> DEFINE R(s) == IF s = {} THEN a ELSE G[<<y[s \ {Max(s)}], q[Max(s)]>>]
    <3>1. y = [s \in SUBSET (1 .. m + 1) |-> y[s]]
      OBVIOUS
    <3>2. \A s \in SUBSET (1 .. m + 1) : y[s] = R(s)
      BY <2>3
    <3> HIDE DEF y, R
    <3>3. [s \in SUBSET (1 .. m + 1) |-> y[s]] = [s \in SUBSET (1 .. m + 1) |-> R(s)]
      BY <3>2
    <3> QED BY <3>1, <3>3 DEF R
  <2> HIDE DEF F, y
  <2> QED BY <2>1, <2>4
<1>3. \E x : x = F(x, n)
  <2>1. T \in SUBSET (0 .. n) /\ n \in 0 .. n
    OBVIOUS
  <2> HIDE DEF T, F
  <2>2. T = 0 .. n
    BY <1>1, <1>2, <2>1, UpTo
  <2> QED BY <2>1, <2>2 DEF T
<1> QED BY <1>3 DEF FoldMap

LEMMA LastOf ==
    ASSUME NEW m \in Nat, NEW s \in SUBSET (1 .. m + 1), ~(s \subseteq 1 .. m)
    PROVE  Max(s) = m + 1 /\ m + 1 \in s /\ s \ {m + 1} \subseteq 1 .. m
<1>1. m + 1 \in s /\ \A i \in s : i \in 1 .. m + 1
  OBVIOUS
<1>2. \A i \in s : m + 1 >= i
  BY <1>1
<1>3. \A z \in s : (\A i \in s : z >= i) => z = m + 1
  BY <1>1
<1>4. Max(s) = m + 1
  BY <1>1, <1>2, <1>3 DEF Max
<1>5. s \ {m + 1} \subseteq 1 .. m
  BY <1>1
<1> QED BY <1>1, <1>4, <1>5

LEMMA Segment ==
    ASSUME NEW n \in Nat, NEW k \in 1 .. n
    PROVE  /\ 1 .. k \in SUBSET (1 .. n) /\ 1 .. k # {} /\ Max(1 .. k) = k
           /\ (1 .. k) \ {k} = 1 .. k - 1 /\ k \in 0 .. n /\ k - 1 \in 0 .. n
<1>1. k \in 1 .. k /\ k \in Nat /\ k # 0 /\ k \in 0 .. n /\ k - 1 \in 0 .. n
  OBVIOUS
<1>2. \A i \in 1 .. k : i \in 1 .. n
  OBVIOUS
<1>3. (1 .. k) \ {k} = 1 .. k - 1
  OBVIOUS
<1> QED BY <1>1, <1>2, <1>3, MaxUpTo

LEMMA FoldTyped ==
    ASSUME NEW A, NEW B, NEW G \in [A \X B -> A], NEW a \in A, NEW n \in Nat, NEW q \in [1 .. n -> B],
           NEW h, FoldMap(h, G, a, n, q)
    PROVE  \A s \in SUBSET (1 .. n) : h[s] \in A /\ (s # {} => q[Max(s)] \in B /\ h[s \ {Max(s)}] \in A)
<1> DEFINE T == {m \in 0 .. n : \A s \in SUBSET (1 .. m) :
                     h[s] \in A /\ (s # {} => q[Max(s)] \in B /\ h[s \ {Max(s)}] \in A)}
<1>1. \A s \in SUBSET (1 .. n) : h[s] = IF s = {} THEN a ELSE G[<<h[s \ {Max(s)}], q[Max(s)]>>]
  BY DEF FoldMap
<1>2. 0 \in T
  <2>1. 1 .. 0 = {} /\ 0 \in 0 .. n
    OBVIOUS
  <2>2. h[{}] = a
    BY <1>1
  <2> QED BY <2>1, <2>2
<1>3. ASSUME NEW m \in T, m < n PROVE m + 1 \in T
  <2>1. m \in Nat /\ m + 1 \in 0 .. n /\ m + 1 \in 1 .. n
    BY <1>3
  <2>2. ASSUME NEW s \in SUBSET (1 .. m + 1)
        PROVE  h[s] \in A /\ (s # {} => q[Max(s)] \in B /\ h[s \ {Max(s)}] \in A)
    <3>1. CASE s \subseteq 1 .. m
      BY <1>3, <3>1
    <3>2. CASE ~(s \subseteq 1 .. m)
      <4>1. Max(s) = m + 1 /\ s # {} /\ s \ {m + 1} \in SUBSET (1 .. m)
        BY <2>1, <3>2, LastOf
      <4>2. h[s \ {m + 1}] \in A /\ q[m + 1] \in B
        BY <1>3, <2>1, <4>1
      <4>3. \A i \in 1 .. m + 1 : i \in 1 .. n
        BY <2>1
      <4>4. s \in SUBSET (1 .. n)
        BY <4>3
      <4>5. h[s] = G[<<h[s \ {m + 1}], q[m + 1]>>]
        BY <1>1, <4>1, <4>4
      <4> QED BY <4>1, <4>2, <4>5
    <3> QED BY <3>1, <3>2
  <2> QED BY <2>1, <2>2
<1>4. T = 0 .. n
  <2>1. T \in SUBSET (0 .. n)
    OBVIOUS
  <2> HIDE DEF T
  <2> QED BY <1>2, <1>3, <2>1, UpTo
<1>5. n \in 0 .. n
  OBVIOUS
<1> QED BY <1>4, <1>5

\* What is collected one by one, and stays of a kind.
FirstOf(q, n) == {q[i] : i \in 1 .. n}

Collects(A, n, q, f) ==
    /\ f[0] \in A /\ ToSet(f[0]) = {}
    /\ \A k \in 1 .. n : f[k - 1] \in A => f[k] \in A /\ ToSet(f[k]) = ToSet(f[k - 1]) \cup {q[k]}

LEMMA Collecting ==
    ASSUME NEW A, NEW n \in Nat, NEW q, NEW f, Collects(A, n, q, f)
    PROVE  f[n] \in A /\ ToSet(f[n]) = FirstOf(q, n)
<1> DEFINE T == {k \in 0 .. n : f[k] \in A /\ ToSet(f[k]) = {q[i] : i \in 1 .. k}}
<1>1. 0 \in T
  <2>1. 1 .. 0 = {} /\ 0 \in 0 .. n
    OBVIOUS
  <2> QED BY <2>1 DEF Collects
<1>2. ASSUME NEW k \in T, k < n PROVE k + 1 \in T
  <2>1. k + 1 \in 1 .. n /\ k + 1 \in 0 .. n /\ (k + 1) - 1 = k /\ 1 .. k + 1 = (1 .. k) \cup {k + 1}
    BY <1>2
  <2>2. f[k + 1] \in A /\ ToSet(f[k + 1]) = ToSet(f[k]) \cup {q[k + 1]}
    BY <1>2, <2>1 DEF Collects
  <2>3. ToSet(f[k + 1]) = {q[i] : i \in 1 .. k + 1}
    BY <1>2, <2>1, <2>2
  <2> QED BY <2>1, <2>2, <2>3
<1>3. T = 0 .. n
  <2>1. T \in SUBSET (0 .. n)
    OBVIOUS
  <2> HIDE DEF T
  <2> QED BY <1>1, <1>2, <2>1, UpTo
<1>4. n \in 0 .. n
  OBVIOUS
<1> QED BY <1>3, <1>4 DEF FirstOf
-----------------------------------------------------------------------------
(* Symbols, each once *)

\* Unique adds one element after the other.
LEMMA UniqueFolds ==
    ASSUME NEW S, NEW seq \in Seq(S)
    PROVE  \E f : /\ f[0] = <<>>
                  /\ \A k \in 1 .. Len(seq) : f[k] = AddNew(f[k - 1], seq[k])
                  /\ Unique(seq) = f[Len(seq)]
<1> DEFINE n == Len(seq)
           A == Seq(S)
           B == S
           G == [p \in A \X B |-> AddNew(p[1], p[2])]
           E(x) == [s \in SUBSET (1 .. n) |->
                      IF s = {} THEN <<>> ELSE AddNew(x[s \ {Max(s)}], seq[Max(s)])]
           g == CHOOSE x : x = E(x)
           f == [k \in 0 .. n |-> g[1 .. k]]
<1>1. n \in Nat /\ DOMAIN seq = 1 .. n /\ seq \in [1 .. n -> B]
  BY LenProperties
<1>2. <<>> \in A
  BY EmptySeq
<1>3. \A x \in A, y \in B : AddNew(x, y) \in A
  BY AppendProperties DEF AddNew
<1> HIDE DEF A, B, n
<1>4. G \in [A \X B -> A]
  <2>1. \A p \in A \X B : p[1] \in A /\ p[2] \in B
    OBVIOUS
  <2> QED BY <1>3, <2>1
<1>5. \A x \in A, y \in B : G[<<x, y>>] = AddNew(x, y)
  OBVIOUS
<1> HIDE DEF G
<1>6. PICK h : FoldMap(h, G, <<>>, n, seq)
  BY <1>1, FoldExists
<1>7. h = E(h)
  <2> DEFINE R(s) == IF s = {} THEN <<>> ELSE AddNew(h[s \ {Max(s)}], seq[Max(s)])
             Q(s) == IF s = {} THEN <<>> ELSE G[<<h[s \ {Max(s)}], seq[Max(s)]>>]
  <2>1. \A s \in SUBSET (1 .. n) : s # {} => seq[Max(s)] \in B /\ h[s \ {Max(s)}] \in A
    BY <1>1, <1>2, <1>4, <1>6, FoldTyped
  <2>2. \A s \in SUBSET (1 .. n) : Q(s) = R(s)
    BY <1>5, <2>1
  <2>3. h = [s \in SUBSET (1 .. n) |-> Q(s)]
    BY <1>6 DEF FoldMap
  <2>4. h = [s \in SUBSET (1 .. n) |-> R(s)]
    <3> HIDE DEF Q, R
    <3> QED BY <2>2, <2>3
  <2> QED BY <2>4
<1>8. g = E(g)
  <2> HIDE DEF E
  <2> QED BY <1>7
<1>9. Unique(seq) = g[1 .. n]
  BY <1>1 DEF Unique, FoldLeft, MapThenFoldSet
<1> HIDE DEF g
<1>10. \A s \in SUBSET (1 .. n) : g[s] = IF s = {} THEN <<>> ELSE AddNew(g[s \ {Max(s)}], seq[Max(s)])
  BY <1>8
<1> HIDE DEF E
<1>11. f[0] = <<>>
  <2>1. 1 .. 0 = {} /\ 0 \in 0 .. n
    BY <1>1
  <2> QED BY <1>10, <2>1
<1>12. ASSUME NEW k \in 1 .. n PROVE f[k] = AddNew(f[k - 1], seq[k])
  <2>1. /\ 1 .. k \in SUBSET (1 .. n) /\ 1 .. k # {} /\ Max(1 .. k) = k
        /\ (1 .. k) \ {k} = 1 .. k - 1 /\ k \in 0 .. n /\ k - 1 \in 0 .. n
    BY <1>1, Segment
  <2>2. f[k] = g[1 .. k] /\ f[k - 1] = g[1 .. k - 1]
    BY <2>1
  <2>3. g[1 .. k] = AddNew(g[(1 .. k) \ {Max(1 .. k)}], seq[Max(1 .. k)])
    BY <1>10, <2>1
  <2> HIDE DEF f
  <2> QED BY <2>1, <2>2, <2>3
<1>13. f[n] = g[1 .. n]
  BY <1>1
<1> HIDE DEF f
<1> QED BY <1>9, <1>11, <1>12, <1>13 DEF n

LEMMA SetOf ==
    ASSUME NEW S, NEW s \in Seq(S)
    PROVE  ToSet(s) = {s[i] : i \in 1 .. Len(s)} /\ ToSet(s) \subseteq S
BY LenProperties DEF ToSet

LEMMA AppendedSet ==
    ASSUME NEW S, NEW s \in Seq(S), NEW e \in S
    PROVE  ToSet(Append(s, e)) = ToSet(s) \cup {e}
<1> DEFINE t == Append(s, e)
<1>1. /\ t \in Seq(S) /\ Len(t) = Len(s) + 1 /\ Len(s) \in Nat
      /\ \A i \in 1 .. Len(s) : t[i] = s[i]
      /\ t[Len(s) + 1] = e
  BY AppendProperties, LenProperties
<1> HIDE DEF t
<1>2. ToSet(t) = {t[i] : i \in 1 .. Len(s) + 1} /\ ToSet(s) = {s[i] : i \in 1 .. Len(s)}
  BY <1>1, SetOf
<1>3. 1 .. Len(s) + 1 = (1 .. Len(s)) \cup {Len(s) + 1}
  BY <1>1
<1>4. {t[i] : i \in 1 .. Len(s)} = {s[i] : i \in 1 .. Len(s)}
  BY <1>1
<1>5. {t[i] : i \in 1 .. Len(s) + 1} = {t[i] : i \in 1 .. Len(s)} \cup {t[Len(s) + 1]}
  BY <1>3
<1> QED BY <1>1, <1>2, <1>4, <1>5 DEF t

LEMMA UniqueKeeps ==
    ASSUME NEW S, NEW seq \in Seq(S)
    PROVE  Unique(seq) \in Seq(S) /\ ToSet(Unique(seq)) = ToSet(seq)
<1>1. PICK f : /\ f[0] = <<>>
               /\ \A k \in 1 .. Len(seq) : f[k] = AddNew(f[k - 1], seq[k])
               /\ Unique(seq) = f[Len(seq)]
  BY UniqueFolds
<1>2. Len(seq) \in Nat /\ seq \in [1 .. Len(seq) -> S]
  BY LenProperties
<1>3. <<>> \in Seq(S) /\ ToSet(<<>>) = {}
  BY EmptySeq DEF ToSet
<1>4. ASSUME NEW k \in 1 .. Len(seq), f[k - 1] \in Seq(S)
      PROVE  f[k] \in Seq(S) /\ ToSet(f[k]) = ToSet(f[k - 1]) \cup {seq[k]}
  <2>1. CASE Contains(f[k - 1], seq[k])
    <3>1. seq[k] \in ToSet(f[k - 1])
      BY <1>4, <2>1, SetOf DEF Contains
    <3> QED BY <1>1, <1>4, <2>1, <3>1 DEF AddNew
  <2>2. CASE ~Contains(f[k - 1], seq[k])
    <3>1. f[k] = Append(f[k - 1], seq[k]) /\ seq[k] \in S
      BY <1>1, <1>2, <2>2 DEF AddNew
    <3> QED BY <1>4, <3>1, AppendProperties, AppendedSet
  <2> QED BY <2>1, <2>2
<1>5. f[Len(seq)] \in Seq(S) /\ ToSet(f[Len(seq)]) = FirstOf(seq, Len(seq))
  <2> DEFINE A == Seq(S)
             n == Len(seq)
  <2>1. n \in Nat /\ f[0] \in A /\ ToSet(f[0]) = {}
    BY <1>1, <1>2, <1>3
  <2>2. \A k \in 1 .. n : f[k - 1] \in A => f[k] \in A /\ ToSet(f[k]) = ToSet(f[k - 1]) \cup {seq[k]}
    BY <1>4
  <2>3. Collects(A, n, seq, f)
    BY <2>1, <2>2 DEF Collects
  <2> HIDE DEF A, n
  <2>4. f[n] \in A /\ ToSet(f[n]) = FirstOf(seq, n)
    BY <2>1, <2>3, Collecting
  <2> QED BY <2>4 DEF A, n
<1> QED BY <1>1, <1>5, SetOf DEF FirstOf
-----------------------------------------------------------------------------
(* Sorting *)

Before(r, o) == NotAfter(r, o) /\ ~SamePlaceAndName(r, o)

Placed(K) == \A r \in K : r.loc \in Int /\ r.pretty \in Int

Ascending(s) == \A i, j \in DOMAIN s : i < j => NotAfter(s[i], s[j])

Sortings(K) == {s \in Seq(K) : Ascending(s)}

LEMMA Order ==
    ASSUME NEW K, Placed(K), NEW r \in K, NEW o \in K, NEW p \in K
    PROVE  /\ NotAfter(r, o) /\ NotAfter(o, p) => NotAfter(r, p)
           /\ NotAfter(r, o) \/ NotAfter(o, r)
           /\ Before(r, o) /\ NotAfter(o, p) => Before(r, p)
           /\ NotAfter(r, o) /\ Before(o, p) => Before(r, p)
BY DEF Placed, NotAfter, Before, SamePlaceAndName

LEMMA DownwardClosed ==
    ASSUME NEW n \in Nat, NEW T \in SUBSET (1 .. n),
           \A i \in T : \A j \in 1 .. n : j <= i => j \in T
    PROVE  \E m \in 0 .. n : T = 1 .. m
<1>1. CASE T = {}
  <2>1. 1 .. 0 = {} /\ 0 \in 0 .. n
    OBVIOUS
  <2> QED BY <1>1, <2>1
<1>2. CASE T # {}
  <2>1. PICK m \in T : \A i \in T : i <= m
    BY <1>2, GreatestElement
  <2>2. m \in 0 .. n /\ m \in 1 .. n
    OBVIOUS
  <2>3. \A j \in 1 .. m : j \in 1 .. n /\ j <= m
    BY <2>2
  <2>4. \A j \in 1 .. m : j \in T
    BY <2>3
  <2>5. \A i \in T : i \in 1 .. m
    BY <2>1
  <2>6. T = 1 .. m
    BY <2>4, <2>5
  <2> QED BY <2>2, <2>6
<1> QED BY <1>1, <1>2

\* Where a record is inserted, those before do not come after it, and it does
\* not come after those behind.
LEMMA Inserting ==
    ASSUME NEW K, Placed(K), NEW s \in Seq(K), Ascending(s), NEW r \in K
    PROVE  /\ Insert(s, r) \in Seq(K)
           /\ Ascending(Insert(s, r))
           /\ ToSet(Insert(s, r)) = ToSet(s) \cup {r}
<1> DEFINE n == Len(s)
           T == {i \in DOMAIN s : NotAfter(s[i], r)}
<1>1. n \in Nat /\ DOMAIN s = 1 .. n /\ \A i \in 1 .. n : s[i] \in K
  BY LenProperties
<1> HIDE DEF n
<1>2. T \in SUBSET (1 .. n)
  BY <1>1
<1>3. \A i \in T : \A j \in 1 .. n : j <= i => j \in T
  <2> SUFFICES ASSUME NEW i \in T, NEW j \in 1 .. n, j <= i PROVE j \in T
    OBVIOUS
  <2>1. i \in 1 .. n /\ NotAfter(s[i], r) /\ s[i] \in K /\ s[j] \in K
    BY <1>1
  <2>2. i = j \/ NotAfter(s[j], s[i])
    BY <1>1, <2>1 DEF Ascending
  <2>3. NotAfter(s[j], r)
    BY <2>1, <2>2, Order
  <2> QED BY <1>1, <2>3
<1>4. PICK m \in 0 .. n : T = 1 .. m
  <2> HIDE DEF T
  <2> QED BY <1>1, <1>2, <1>3, DownwardClosed
<1>5. Cardinality(T) = m /\ m \in Nat
  <2>1. m \in Nat /\ m - 1 + 1 = m /\ (1 > m => m = 0)
    BY <1>1
  <2>2. Cardinality(1 .. m) = IF 1 > m THEN 0 ELSE m - 1 + 1
    BY <2>1, FS_Interval
  <2> HIDE DEF T
  <2> QED BY <1>4, <2>1, <2>2
<1>6. (\A i \in 1 .. m : NotAfter(s[i], r)) /\ (\A i \in m + 1 .. n : NotAfter(r, s[i]))
  <2>1. \A i \in 1 .. m : NotAfter(s[i], r)
    BY <1>4
  <2>2. ASSUME NEW i \in m + 1 .. n PROVE NotAfter(r, s[i])
    <3>1. i \in 1 .. n /\ i \notin 1 .. m
      BY <1>1
    <3>2. ~NotAfter(s[i], r) /\ s[i] \in K
      BY <1>1, <1>4, <3>1
    <3> QED BY <3>2, Order
  <2> QED BY <2>1, <2>2
<1> DEFINE a == SubSeq(s, 1, m)
           b == SubSeq(s, m + 1, n)
           u == a \o <<r>>
           t == u \o b
<1>7. Insert(s, r) = t
  <2>1. (m + 1) - 1 = m
    BY <1>5
  <2>2. Insert(s, r) = InsertAt(s, m + 1, r)
    BY <1>5 DEF Insert
  <2>3. InsertAt(s, m + 1, r) = SubSeq(s, 1, (m + 1) - 1) \o <<r>> \o SubSeq(s, m + 1, n)
    BY DEF InsertAt, n
  <2> QED BY <2>1, <2>2, <2>3
<1>8. a \in Seq(K) /\ Len(a) = m /\ \A i \in 1 .. m : a[i] = s[i]
  <2>1. \A i \in 1 .. m : s[i] \in K
    BY <1>1
  <2>2. /\ a \in Seq(K) /\ Len(a) = IF 1 <= m THEN m - 1 + 1 ELSE 0
        /\ \A i \in 1 .. m - 1 + 1 : a[i] = s[1 + i - 1]
    BY <1>5, <2>1, SubSeqProperties
  <2> HIDE DEF a
  <2>3. m - 1 + 1 = m /\ \A i \in 1 .. m : 1 + i - 1 = i
    BY <1>5
  <2> QED BY <1>5, <2>2, <2>3
<1>9. b \in Seq(K) /\ Len(b) = n - m /\ \A i \in 1 .. n - m : b[i] = s[m + i]
  <2>1. \A i \in m + 1 .. n : s[i] \in K
    BY <1>1, <1>5
  <2>2. m + 1 \in Int /\ n \in Int
    BY <1>1, <1>5
  <2>3. /\ b \in Seq(K) /\ Len(b) = IF m + 1 <= n THEN n - (m + 1) + 1 ELSE 0
        /\ \A i \in 1 .. n - (m + 1) + 1 : b[i] = s[(m + 1) + i - 1]
    BY <2>1, <2>2, SubSeqProperties
  <2> HIDE DEF b
  <2>4. n - (m + 1) + 1 = n - m /\ \A i \in 1 .. n - m : (m + 1) + i - 1 = m + i
    BY <1>1, <1>5
  <2>5. Len(b) = n - m
    BY <1>1, <1>5, <2>3
  <2> QED BY <2>3, <2>4, <2>5
<1> HIDE DEF a, b
<1>10. u \in Seq(K) /\ Len(u) = m + 1 /\ \A i \in 1 .. m + 1 : u[i] = IF i <= m THEN s[i] ELSE r
  <2>1. <<r>> \in Seq(K) /\ Len(<<r>>) = 1 /\ <<r>>[1] = r
    OBVIOUS
  <2>2. /\ u \in Seq(K) /\ Len(u) = m + 1
        /\ \A i \in 1 .. m + 1 : u[i] = IF i <= m THEN a[i] ELSE <<r>>[i - m]
    <3>1. /\ u \in Seq(K) /\ Len(u) = Len(a) + Len(<<r>>)
          /\ \A i \in 1 .. Len(a) + Len(<<r>>) :
                u[i] = IF i <= Len(a) THEN a[i] ELSE <<r>>[i - Len(a)]
      BY <1>8, <2>1, ConcatProperties
    <3> HIDE DEF u
    <3> QED BY <1>8, <2>1, <3>1
  <2> HIDE DEF u
  <2>3. ASSUME NEW i \in 1 .. m + 1 PROVE u[i] = IF i <= m THEN s[i] ELSE r
    <3>1. CASE i <= m
      BY <1>5, <1>8, <2>2, <3>1
    <3>2. CASE ~(i <= m)
      <4>1. i - m = 1
        BY <1>5, <3>2
      <4> QED BY <2>1, <2>2, <3>2, <4>1
    <3> QED BY <3>1, <3>2
  <2> QED BY <2>2, <2>3
<1> HIDE DEF u
<1>11. /\ t \in Seq(K) /\ Len(t) = n + 1 /\ DOMAIN t = 1 .. n + 1
       /\ \A i \in 1 .. n + 1 : t[i] = IF i <= m THEN s[i] ELSE IF i = m + 1 THEN r ELSE s[i - 1]
  <2>1. /\ t \in Seq(K) /\ Len(t) = Len(u) + Len(b)
        /\ \A i \in 1 .. Len(u) + Len(b) : t[i] = IF i <= Len(u) THEN u[i] ELSE b[i - Len(u)]
    BY <1>9, <1>10, ConcatProperties
  <2> HIDE DEF t
  <2>2. (m + 1) + (n - m) = n + 1
    BY <1>1, <1>5
  <2>3. Len(t) = n + 1 /\ DOMAIN t = 1 .. n + 1
    BY <1>9, <1>10, <2>1, <2>2, LenProperties
  <2>4. ASSUME NEW i \in 1 .. n + 1
        PROVE  t[i] = IF i <= m THEN s[i] ELSE IF i = m + 1 THEN r ELSE s[i - 1]
    <3>1. t[i] = IF i <= m + 1 THEN u[i] ELSE b[i - (m + 1)]
      BY <1>9, <1>10, <2>1, <2>2
    <3>2. CASE i <= m + 1
      BY <1>5, <1>10, <3>1, <3>2
    <3>3. CASE ~(i <= m + 1)
      <4>1. i - (m + 1) \in 1 .. n - m /\ m + (i - (m + 1)) = i - 1
        BY <1>1, <1>5, <3>3
      <4>2. b[i - (m + 1)] = s[i - 1]
        BY <1>9, <4>1
      <4>3. ~(i <= m) /\ i # m + 1
        BY <1>5, <3>3
      <4> QED BY <3>1, <3>3, <4>2, <4>3
    <3> QED BY <3>2, <3>3
  <2> QED BY <2>1, <2>3, <2>4
<1> HIDE DEF t
<1>12. Ascending(t)
  <2> SUFFICES ASSUME NEW i \in 1 .. n + 1, NEW j \in 1 .. n + 1, i < j PROVE NotAfter(t[i], t[j])
    BY <1>11 DEF Ascending
  <2>1. CASE j <= m
    <3>1. i \in 1 .. n /\ j \in 1 .. n /\ i <= m
      BY <1>1, <1>5, <2>1
    <3> QED BY <1>1, <1>11, <2>1, <3>1 DEF Ascending
  <2>2. CASE j = m + 1
    <3>1. i \in 1 .. m /\ i <= m /\ ~(j <= m)
      BY <1>5, <2>2
    <3> QED BY <1>6, <1>11, <2>2, <3>1
  <2>3. CASE m + 1 < j
    <3>1. ~(j <= m) /\ j # m + 1 /\ j - 1 \in m + 1 .. n /\ j - 1 \in 1 .. n /\ t[j] = s[j - 1]
      BY <1>1, <1>5, <1>11, <2>3
    <3>2. CASE i = m + 1
      <4>1. t[i] = r
        BY <1>5, <1>11, <3>2
      <4> QED BY <1>6, <3>1, <4>1
    <3>3. CASE i <= m
      <4>1. i \in 1 .. n /\ i < j - 1 /\ t[i] = s[i]
        BY <1>1, <1>5, <1>11, <2>3, <3>3
      <4> QED BY <1>1, <3>1, <4>1 DEF Ascending
    <3>4. CASE m + 1 < i
      <4>1. ~(i <= m) /\ i # m + 1 /\ i - 1 \in 1 .. n /\ i - 1 < j - 1 /\ t[i] = s[i - 1]
        BY <1>1, <1>5, <1>11, <3>4
      <4> QED BY <1>1, <3>1, <4>1 DEF Ascending
    <3> QED BY <1>5, <3>2, <3>3, <3>4
  <2> QED BY <1>5, <2>1, <2>2, <2>3
<1>13. ToSet(t) = ToSet(s) \cup {r}
  <2>1. ToSet(t) = {t[i] : i \in 1 .. n + 1} /\ ToSet(s) = {s[i] : i \in 1 .. n}
    BY <1>1, <1>11 DEF ToSet
  <2>2. ASSUME NEW x \in ToSet(t) PROVE x \in ToSet(s) \cup {r}
    <3>1. PICK i \in 1 .. n + 1 : x = t[i]
      BY <2>1
    <3>2. CASE i <= m
      <4>1. i \in 1 .. n /\ x = s[i]
        BY <1>1, <1>5, <1>11, <3>1, <3>2
      <4> QED BY <2>1, <4>1
    <3>3. CASE i = m + 1
      BY <1>5, <1>11, <3>1, <3>3
    <3>4. CASE m + 1 < i
      <4>1. i - 1 \in 1 .. n /\ x = s[i - 1]
        BY <1>1, <1>5, <1>11, <3>1, <3>4
      <4> QED BY <2>1, <4>1
    <3> QED BY <1>5, <3>2, <3>3, <3>4
  <2>3. ASSUME NEW i \in 1 .. n PROVE s[i] \in ToSet(t)
    <3>1. CASE i <= m
      <4>1. i \in 1 .. n + 1 /\ t[i] = s[i]
        BY <1>1, <1>5, <1>11, <3>1
      <4> QED BY <2>1, <4>1
    <3>2. CASE ~(i <= m)
      <4>1. i + 1 \in 1 .. n + 1 /\ ~(i + 1 <= m) /\ i + 1 # m + 1 /\ (i + 1) - 1 = i
        BY <1>1, <1>5, <3>2
      <4>2. t[i + 1] = s[i]
        BY <1>11, <4>1
      <4> QED BY <2>1, <4>1, <4>2
    <3> QED BY <3>1, <3>2
  <2>4. r \in ToSet(t)
    <3>1. m + 1 \in 1 .. n + 1 /\ t[m + 1] = r
      BY <1>1, <1>5, <1>11
    <3> QED BY <2>1, <3>1
  <2> QED BY <2>1, <2>2, <2>3, <2>4
<1> QED BY <1>7, <1>11, <1>12, <1>13

\* The records are inserted one after the other.
LEMMA InPlacesFolds ==
    ASSUME NEW K, Placed(K), NEW seq \in Seq(K)
    PROVE  \E f : /\ f[0] = <<>>
                  /\ \A k \in 1 .. Len(seq) : f[k] = Insert(f[k - 1], seq[k])
                  /\ InPlaces(seq) = f[Len(seq)]
<1> DEFINE n == Len(seq)
           A == Sortings(K)
           B == K
           G == [p \in A \X B |-> Insert(p[1], p[2])]
           E(x) == [s \in SUBSET (1 .. n) |->
                      IF s = {} THEN <<>> ELSE Insert(x[s \ {Max(s)}], seq[Max(s)])]
           g == CHOOSE x : x = E(x)
           f == [k \in 0 .. n |-> g[1 .. k]]
<1>1. n \in Nat /\ DOMAIN seq = 1 .. n /\ seq \in [1 .. n -> B]
  BY LenProperties
<1>2. <<>> \in A
  BY EmptySeq DEF Sortings, Ascending
<1>3. \A x \in A, y \in B : Insert(x, y) \in A
  <2> SUFFICES ASSUME NEW x \in A, NEW y \in B PROVE Insert(x, y) \in A
    OBVIOUS
  <2>1. x \in Seq(K) /\ Ascending(x) /\ y \in K
    BY DEF Sortings
  <2> QED BY <2>1, Inserting DEF Sortings
<1> HIDE DEF A, B, n
<1>4. G \in [A \X B -> A]
  <2>1. \A p \in A \X B : p[1] \in A /\ p[2] \in B
    OBVIOUS
  <2> QED BY <1>3, <2>1
<1>5. \A x \in A, y \in B : G[<<x, y>>] = Insert(x, y)
  OBVIOUS
<1> HIDE DEF G
<1>6. PICK h : FoldMap(h, G, <<>>, n, seq)
  BY <1>1, FoldExists
<1>7. h = E(h)
  <2> DEFINE R(s) == IF s = {} THEN <<>> ELSE Insert(h[s \ {Max(s)}], seq[Max(s)])
             Q(s) == IF s = {} THEN <<>> ELSE G[<<h[s \ {Max(s)}], seq[Max(s)]>>]
  <2>1. \A s \in SUBSET (1 .. n) : s # {} => seq[Max(s)] \in B /\ h[s \ {Max(s)}] \in A
    BY <1>1, <1>2, <1>4, <1>6, FoldTyped
  <2>2. \A s \in SUBSET (1 .. n) : Q(s) = R(s)
    BY <1>5, <2>1
  <2>3. h = [s \in SUBSET (1 .. n) |-> Q(s)]
    BY <1>6 DEF FoldMap
  <2>4. h = [s \in SUBSET (1 .. n) |-> R(s)]
    <3> HIDE DEF Q, R
    <3> QED BY <2>2, <2>3
  <2> QED BY <2>4
<1>8. g = E(g)
  <2> HIDE DEF E
  <2> QED BY <1>7
<1>9. InPlaces(seq) = g[1 .. n]
  BY <1>1 DEF InPlaces, FoldLeft, MapThenFoldSet
<1> HIDE DEF g
<1>10. \A s \in SUBSET (1 .. n) : g[s] = IF s = {} THEN <<>> ELSE Insert(g[s \ {Max(s)}], seq[Max(s)])
  BY <1>8
<1> HIDE DEF E
<1>11. f[0] = <<>>
  <2>1. 1 .. 0 = {} /\ 0 \in 0 .. n
    BY <1>1
  <2> QED BY <1>10, <2>1
<1>12. ASSUME NEW k \in 1 .. n PROVE f[k] = Insert(f[k - 1], seq[k])
  <2>1. /\ 1 .. k \in SUBSET (1 .. n) /\ 1 .. k # {} /\ Max(1 .. k) = k
        /\ (1 .. k) \ {k} = 1 .. k - 1 /\ k \in 0 .. n /\ k - 1 \in 0 .. n
    BY <1>1, Segment
  <2>2. f[k] = g[1 .. k] /\ f[k - 1] = g[1 .. k - 1]
    BY <2>1
  <2>3. g[1 .. k] = Insert(g[(1 .. k) \ {Max(1 .. k)}], seq[Max(1 .. k)])
    BY <1>10, <2>1
  <2> HIDE DEF f
  <2> QED BY <2>1, <2>2, <2>3
<1>13. f[n] = g[1 .. n]
  BY <1>1
<1> HIDE DEF f
<1> QED BY <1>9, <1>11, <1>12, <1>13 DEF n

LEMMA InPlacesSorts ==
    ASSUME NEW K, Placed(K), NEW seq \in Seq(K)
    PROVE  /\ InPlaces(seq) \in Seq(K)
           /\ Ascending(InPlaces(seq))
           /\ ToSet(InPlaces(seq)) = ToSet(seq)
<1>1. PICK f : /\ f[0] = <<>>
               /\ \A k \in 1 .. Len(seq) : f[k] = Insert(f[k - 1], seq[k])
               /\ InPlaces(seq) = f[Len(seq)]
  BY InPlacesFolds
<1> DEFINE A == Sortings(K)
           n == Len(seq)
<1>2. n \in Nat /\ seq \in [1 .. n -> K]
  BY LenProperties
<1>3. <<>> \in A /\ ToSet(<<>>) = {}
  BY EmptySeq DEF ToSet, Sortings, Ascending
<1>4. ASSUME NEW k \in 1 .. n, f[k - 1] \in A
      PROVE  f[k] \in A /\ ToSet(f[k]) = ToSet(f[k - 1]) \cup {seq[k]}
  <2>1. f[k - 1] \in Seq(K) /\ Ascending(f[k - 1]) /\ seq[k] \in K
    BY <1>2, <1>4 DEF Sortings
  <2>2. f[k] = Insert(f[k - 1], seq[k])
    BY <1>1
  <2> QED BY <2>1, <2>2, Inserting DEF Sortings
<1>5. Collects(A, n, seq, f)
  BY <1>1, <1>3, <1>4 DEF Collects
<1> HIDE DEF A
<1>6. f[n] \in A /\ ToSet(f[n]) = FirstOf(seq, n)
  BY <1>2, <1>5, Collecting
<1> QED BY <1>1, <1>6, SetOf DEF FirstOf, A, Sortings
-----------------------------------------------------------------------------
(* Merging two records *)

LEMMA ListOf ==
    ASSUME NEW S, NEW s \in Seq(S)
    PROVE  IsList(s)
<1>1. Len(s) \in Nat /\ DOMAIN s = 1 .. Len(s) /\ s \in [1 .. Len(s) -> S]
  BY LenProperties
<1>2. s \in [1 .. Len(s) -> ToSet(s)]
  BY <1>1 DEF ToSet
<1> QED BY <1>1, <1>2 DEF IsList

LEMMA JoinedSet ==
    ASSUME NEW S, NEW s \in Seq(S), NEW t \in Seq(S)
    PROVE  s \o t \in Seq(S) /\ ToSet(s \o t) = ToSet(s) \cup ToSet(t)
<1> DEFINE u == s \o t
<1>1. /\ u \in Seq(S) /\ Len(u) = Len(s) + Len(t)
      /\ \A i \in 1 .. Len(s) + Len(t) : u[i] = IF i <= Len(s) THEN s[i] ELSE t[i - Len(s)]
  BY ConcatProperties
<1>2. Len(s) \in Nat /\ Len(t) \in Nat
  BY LenProperties
<1> HIDE DEF u
<1>3. ToSet(u) = {u[i] : i \in 1 .. Len(s) + Len(t)}
  BY <1>1, SetOf
<1>4. ToSet(s) = {s[i] : i \in 1 .. Len(s)} /\ ToSet(t) = {t[i] : i \in 1 .. Len(t)}
  BY SetOf
<1>5. ASSUME NEW x \in ToSet(u) PROVE x \in ToSet(s) \cup ToSet(t)
  <2>1. PICK i \in 1 .. Len(s) + Len(t) : x = u[i]
    BY <1>3
  <2>2. CASE i <= Len(s)
    <3>1. i \in 1 .. Len(s)
      BY <1>2, <2>2
    <3> QED BY <1>1, <1>4, <2>1, <2>2, <3>1
  <2>3. CASE ~(i <= Len(s))
    <3>1. i - Len(s) \in 1 .. Len(t)
      BY <1>2, <2>3
    <3> QED BY <1>1, <1>4, <2>1, <2>3, <3>1
  <2> QED BY <2>2, <2>3
<1>6. ASSUME NEW i \in 1 .. Len(s) PROVE s[i] \in ToSet(u)
  <2>1. i \in 1 .. Len(s) + Len(t) /\ i <= Len(s)
    BY <1>2
  <2> QED BY <1>1, <1>3, <2>1
<1>7. ASSUME NEW i \in 1 .. Len(t) PROVE t[i] \in ToSet(u)
  <2>1. Len(s) + i \in 1 .. Len(s) + Len(t) /\ ~(Len(s) + i <= Len(s)) /\ (Len(s) + i) - Len(s) = i
    BY <1>2
  <2> QED BY <1>1, <1>3, <2>1
<1> QED BY <1>1, <1>4, <1>5, <1>6, <1>7 DEF u

\* What MergeSource makes of each field that the merge is about.
LEMMA MergedFields ==
    ASSUME NEW e, NEW o, RecordTyped(e)
    PROVE  LET m == MergeSource(e, o) IN
           /\ DOMAIN m = DOMAIN e /\ m.loc = e.loc /\ m.pretty = e.pretty
           /\ m.noCrossref = (e.noCrossref /\ o.noCrossref)
           /\ m.syms = Unique(o.syms \o e.syms)
           /\ m.confidence = MergedConfidence(e, o, m.syms)
           /\ m.kind = IF e.kind = NoKind THEN o.kind ELSE e.kind
           /\ m.expansions = MergedExpansions(e, o)
BY DEF RecordTyped, MergeSource

LEMMA ConfidencesTyped ==
    ASSUME NEW r, RecordTyped(r)
    PROVE  /\ Confidences(r) \in Seq({Concrete, Heuristic})
           /\ Len(Confidences(r)) = Len(r.syms) /\ Len(r.syms) \in Nat
           /\ DOMAIN r.syms = 1 .. Len(r.syms)
           /\ r.confidence = <<>> => SureOf(r) = ToSet(r.syms)
<1>1. r.syms \in Seq(ToSet(r.syms))
  BY DEF RecordTyped, IsList
<1>2. Len(r.syms) \in Nat /\ DOMAIN r.syms = 1 .. Len(r.syms)
  BY <1>1, LenProperties
<1>3. Confidences(r) \in [1 .. Len(r.syms) -> {Concrete, Heuristic}]
  BY <1>2 DEF Confidences, RecordTyped
<1>4. Confidences(r) \in Seq({Concrete, Heuristic}) /\ Len(Confidences(r)) = Len(r.syms)
  BY <1>2, <1>3, LenProperties
<1>5. ASSUME r.confidence = <<>> PROVE SureOf(r) = ToSet(r.syms)
  BY <1>5 DEF SureOf, ToSet, Confidences
<1> QED BY <1>2, <1>4, <1>5

\* Symbols and confidences are chained in the same order: a symbol is sure in
\* the merged record if one of the two is sure of it.
LEMMA MergedSymbols ==
    ASSUME NEW e, NEW o, RecordTyped(e), RecordTyped(o)
    PROVE  LET m == MergeSource(e, o) IN
           /\ IsList(m.syms) /\ ToSet(m.syms) = ToSet(e.syms) \cup ToSet(o.syms)
           /\ m.confidence # <<>> =>
                 m.confidence = <<m.confidence[1]>>
                 /\ m.confidence[1] \in [DOMAIN m.syms -> {Concrete, Heuristic}]
           /\ SureOf(m) = SureOf(e) \cup SureOf(o)
<1> DEFINE m == MergeSource(e, o)
           S == ToSet(e.syms) \cup ToSet(o.syms)
           both == o.syms \o e.syms
           conf == Chained(e, o)
           k == Len(o.syms)
           l == Len(e.syms)
<1>1. /\ m.syms = Unique(both)
      /\ m.confidence = MergedConfidence(e, o, m.syms)
  BY MergedFields
<1>2. e.syms \in Seq(S) /\ o.syms \in Seq(S)
  <2>1. e.syms \in Seq(ToSet(e.syms)) /\ o.syms \in Seq(ToSet(o.syms))
    BY DEF RecordTyped, IsList
  <2> QED BY <2>1, SeqMonotonic
<1> HIDE DEF m
<1>3. /\ both \in Seq(S) /\ ToSet(both) = S
  <2> HIDE DEF S
  <2>1. both \in Seq(S) /\ ToSet(both) = ToSet(o.syms) \cup ToSet(e.syms)
    BY <1>2, JoinedSet
  <2> QED BY <2>1 DEF S
<1>4. m.syms \in Seq(S) /\ ToSet(m.syms) = S
  <2> HIDE DEF S, both
  <2> QED BY <1>1, <1>3, UniqueKeeps
<1>5. /\ k \in Nat /\ l \in Nat /\ DOMAIN both = 1 .. k + l
      /\ \A i \in 1 .. k + l : both[i] = IF i <= k THEN o.syms[i] ELSE e.syms[i - k]
  <2> HIDE DEF S
  <2>1. k \in Nat /\ l \in Nat
    BY <1>2, LenProperties
  <2>2. /\ Len(both) = k + l
        /\ \A i \in 1 .. k + l : both[i] = IF i <= k THEN o.syms[i] ELSE e.syms[i - k]
    BY <1>2, ConcatProperties
  <2> HIDE DEF both
  <2> QED BY <1>3, <2>1, <2>2, LenProperties
<1>6. \A i \in 1 .. k + l : conf[i] = IF i <= k THEN Confidences(o)[i] ELSE Confidences(e)[i - k]
  <2> DEFINE C == {Concrete, Heuristic}
             co == Confidences(o)
             ce == Confidences(e)
  <2>1. co \in Seq(C) /\ ce \in Seq(C) /\ Len(co) = k /\ Len(ce) = l
    BY ConfidencesTyped
  <2>2. conf = co \o ce
    BY DEF Chained
  <2> HIDE DEF C, co, ce, conf, k, l
  <2>3. \A i \in 1 .. Len(co) + Len(ce) : (co \o ce)[i] = IF i <= Len(co) THEN co[i] ELSE ce[i - Len(co)]
    BY <2>1, ConcatProperties
  <2> QED BY <2>1, <2>2, <2>3 DEF co, ce
<1> HIDE DEF both, conf
<1>7. /\ SureOf(o) = {o.syms[i] : i \in {j \in 1 .. k : Confidences(o)[j] = Concrete}}
      /\ SureOf(e) = {e.syms[i] : i \in {j \in 1 .. l : Confidences(e)[j] = Concrete}}
  <2>1. DOMAIN o.syms = 1 .. k /\ DOMAIN e.syms = 1 .. l
    BY ConfidencesTyped
  <2> QED BY <2>1 DEF SureOf
<1> HIDE DEF k, l
<1>8. \A x : (\E i \in 1 .. k + l : both[i] = x /\ conf[i] = Concrete) <=> x \in SureOf(e) \cup SureOf(o)
  <2>1. ASSUME NEW i \in 1 .. k + l, conf[i] = Concrete PROVE both[i] \in SureOf(e) \cup SureOf(o)
    <3>1. CASE i <= k
      <4>1. i \in 1 .. k
        BY <1>5, <3>1
      <4> QED BY <1>5, <1>6, <1>7, <2>1, <3>1, <4>1
    <3>2. CASE ~(i <= k)
      <4>1. i - k \in 1 .. l
        BY <1>5, <3>2
      <4> QED BY <1>5, <1>6, <1>7, <2>1, <3>2, <4>1
    <3> QED BY <3>1, <3>2
  <2>2. ASSUME NEW x \in SureOf(o) PROVE \E i \in 1 .. k + l : both[i] = x /\ conf[i] = Concrete
    <3>1. PICK i \in 1 .. k : x = o.syms[i] /\ Confidences(o)[i] = Concrete
      BY <1>7, <2>2
    <3>2. i \in 1 .. k + l /\ i <= k
      BY <1>5
    <3> QED BY <1>5, <1>6, <3>1, <3>2
  <2>3. ASSUME NEW x \in SureOf(e) PROVE \E i \in 1 .. k + l : both[i] = x /\ conf[i] = Concrete
    <3>1. PICK i \in 1 .. l : x = e.syms[i] /\ Confidences(e)[i] = Concrete
      BY <1>7, <2>3
    <3>2. k + i \in 1 .. k + l /\ ~(k + i <= k) /\ (k + i) - k = i
      BY <1>5
    <3> QED BY <1>5, <1>6, <3>1, <3>2
  <2> QED BY <2>1, <2>2, <2>3
<1>9. \A x : ConfidenceIn(e, o, x) \in {Concrete, Heuristic}
             /\ (ConfidenceIn(e, o, x) = Concrete <=> x \in SureOf(e) \cup SureOf(o))
  <2> SUFFICES ASSUME NEW x
               PROVE  /\ ConfidenceIn(e, o, x) \in {Concrete, Heuristic}
                      /\ ConfidenceIn(e, o, x) = Concrete <=> x \in SureOf(e) \cup SureOf(o)
    OBVIOUS
  <2>1. ConfidenceIn(e, o, x) = IF \E i \in 1 .. k + l : both[i] = x /\ conf[i] = Concrete
                                THEN Concrete ELSE Heuristic
    BY <1>5 DEF ConfidenceIn, both, conf
  <2>2. Concrete # Heuristic
    BY DEF Concrete, Heuristic
  <2> QED BY <1>8, <2>1, <2>2
<1>10. SureOf(e) \subseteq S /\ SureOf(o) \subseteq S
  BY DEF SureOf, ToSet
<1>11. CASE e.confidence = <<>> /\ o.confidence = <<>>
  <2>1. m.confidence = <<>>
    BY <1>1, <1>11 DEF MergedConfidence
  <2>2. SureOf(m) = ToSet(m.syms)
    BY <2>1 DEF SureOf, ToSet, Confidences
  <2>3. SureOf(e) = ToSet(e.syms) /\ SureOf(o) = ToSet(o.syms)
    BY <1>11, ConfidencesTyped
  <2>4. IsList(m.syms)
    BY <1>4, ListOf
  <2> QED BY <1>4, <2>1, <2>2, <2>3, <2>4 DEF m
<1>12. CASE ~(e.confidence = <<>> /\ o.confidence = <<>>)
  <2> DEFINE c == [i \in DOMAIN m.syms |-> ConfidenceIn(e, o, m.syms[i])]
  <2>1. m.confidence = <<c>>
    BY <1>1, <1>12 DEF MergedConfidence
  <2>2. c \in [DOMAIN m.syms -> {Concrete, Heuristic}]
    BY <1>9
  <2>3. SureOf(m) = {m.syms[i] : i \in {j \in DOMAIN m.syms : c[j] = Concrete}}
    <3>1. Confidences(m) = c
      BY <2>1 DEF Confidences
    <3> HIDE DEF c
    <3> QED BY <3>1 DEF SureOf
  <2>4. \A j \in DOMAIN m.syms : c[j] = Concrete <=> m.syms[j] \in SureOf(e) \cup SureOf(o)
    BY <1>9
  <2> HIDE DEF c
  <2>5. ToSet(m.syms) = {m.syms[i] : i \in DOMAIN m.syms}
    BY DEF ToSet
  <2>6. SureOf(m) = SureOf(e) \cup SureOf(o)
    BY <1>4, <1>10, <2>3, <2>4, <2>5
  <2>7. m.confidence[1] = c /\ m.confidence = <<m.confidence[1]>>
    BY <2>1
  <2>8. IsList(m.syms)
    BY <1>4, ListOf
  <2> QED BY <1>4, <2>2, <2>6, <2>7, <2>8 DEF m
<1> QED BY <1>11, <1>12
-----------------------------------------------------------------------------
(* What a merged record stands for *)

At(K, r) == {y \in K : SamePlaceAndName(y, r)}

AllTyped(K) == \A x \in K : RecordTyped(x)

SymsOf(X) == UNION {ToSet(x.syms) : x \in X}

SureIn(X) == UNION {SureOf(x) : x \in X}

\* r says what the records of X say, all of them of its place and name.
Stands(K, r, X) ==
    /\ X \subseteq At(K, r) /\ X # {}
    /\ ToSet(r.syms) = SymsOf(X)
    /\ SureOf(r) = SureIn(X)
    /\ r.noCrossref <=> \A x \in X : x.noCrossref
    /\ \A x \in X : x.kind # NoKind => r.kind = x.kind
    /\ \A x \in X : DOMAIN x.expansions \subseteq DOMAIN r.expansions
    /\ r.kind # "InExpansionAt" =>
          \A k \in DOMAIN r.expansions :
             \E x \in X : k \in DOMAIN x.expansions /\ r.expansions[k] = x.expansions[k]

LEMMA Kinds == NoKind # "ExpandsTo" /\ NoKind # "InExpansionAt"
BY Zenon DEF NoKind

LEMMA StandsAlone ==
    ASSUME NEW K, NEW o \in K
    PROVE  Stands(K, o, {o})
BY DEF Stands, At, SymsOf, SureIn, SamePlaceAndName

LEMMA MergedTyped ==
    ASSUME NEW e, NEW o, RecordTyped(e), RecordTyped(o)
    PROVE  RecordTyped(MergeSource(e, o))
<1> DEFINE m == MergeSource(e, o)
<1>1. /\ DOMAIN m = DOMAIN e /\ m.loc = e.loc /\ m.pretty = e.pretty
      /\ m.noCrossref = (e.noCrossref /\ o.noCrossref)
      /\ m.kind = IF e.kind = NoKind THEN o.kind ELSE e.kind
  BY MergedFields
<1>2. /\ IsList(m.syms)
      /\ m.confidence # <<>> =>
            m.confidence = <<m.confidence[1]>>
            /\ m.confidence[1] \in [DOMAIN m.syms -> {Concrete, Heuristic}]
  BY MergedSymbols
<1> HIDE DEF m
<1>3. m.noCrossref \in BOOLEAN
  BY <1>1
<1>4. /\ DOMAIN e = {"tag", "loc", "pretty", "noCrossref", "syntax", "syms", "confidence",
                   "range", "type", "kind", "expansions"}
      /\ e.loc \in Int /\ e.pretty \in Int
      /\ e.kind \in {NoKind, "ExpandsTo", "InExpansionAt"} /\ o.kind \in {NoKind, "ExpandsTo", "InExpansionAt"}
  BY DEF RecordTyped
<1>5. RecordTyped(m)
  BY <1>1, <1>2, <1>3, <1>4 DEF RecordTyped
<1> QED BY <1>5 DEF m

LEMMA Standing ==
    ASSUME NEW K, NEW e, NEW o \in K, NEW X, RecordTyped(e), RecordTyped(o),
           Stands(K, e, X), SamePlaceAndName(e, o), ~Mixed(e, o)
    PROVE  Stands(K, MergeSource(e, o), X \cup {o})
<1> DEFINE m == MergeSource(e, o)
           Y == X \cup {o}
<1>1. /\ m.loc = e.loc /\ m.pretty = e.pretty
      /\ m.noCrossref = (e.noCrossref /\ o.noCrossref)
      /\ m.kind = IF e.kind = NoKind THEN o.kind ELSE e.kind
      /\ m.expansions = MergedExpansions(e, o)
  BY MergedFields
<1>2. /\ ToSet(m.syms) = ToSet(e.syms) \cup ToSet(o.syms)
      /\ SureOf(m) = SureOf(e) \cup SureOf(o)
  BY MergedSymbols
<1> HIDE DEF m
<1>3. Y \subseteq At(K, m) /\ Y # {}
  BY <1>1 DEF Stands, At, SamePlaceAndName
<1>4. ToSet(m.syms) = SymsOf(Y)
  BY <1>2 DEF Stands, SymsOf
<1>5. SureOf(m) = SureIn(Y)
  BY <1>2 DEF Stands, SureIn
<1>6. m.noCrossref <=> \A x \in Y : x.noCrossref
  BY <1>1 DEF Stands
<1>7. e.kind \in {NoKind, "ExpandsTo", "InExpansionAt"} /\ o.kind \in {NoKind, "ExpandsTo", "InExpansionAt"}
  BY DEF RecordTyped
<1>8. e.kind # NoKind /\ o.kind # NoKind => e.kind = o.kind
  BY <1>7 DEF Mixed
<1>9. \A x \in Y : x.kind # NoKind => m.kind = x.kind
  BY <1>1, <1>8 DEF Stands
<1>10. DOMAIN m.expansions = DOMAIN e.expansions \cup DOMAIN o.expansions
  BY <1>1 DEF MergedExpansions
<1>11. \A x \in Y : DOMAIN x.expansions \subseteq DOMAIN m.expansions
  BY <1>10 DEF Stands
<1>12. ASSUME m.kind # "InExpansionAt", NEW k \in DOMAIN m.expansions
       PROVE  \E x \in Y : k \in DOMAIN x.expansions /\ m.expansions[k] = x.expansions[k]
  <2>1. e.kind # "InExpansionAt" /\ o.kind # "InExpansionAt"
    BY <1>1, <1>7, <1>8, <1>12, Kinds
  <2>2. CASE k \notin DOMAIN o.expansions
    <3>1. k \in DOMAIN e.expansions /\ m.expansions[k] = e.expansions[k]
      BY <1>1, <1>10, <1>12, <2>2 DEF MergedExpansions
    <3> QED BY <2>1, <3>1 DEF Stands
  <2>3. CASE k \in DOMAIN o.expansions
    <3>1. m.expansions[k] = o.expansions[k]
      BY <1>1, <1>10, <1>12, <2>1, <2>3 DEF MergedExpansions
    <3> QED BY <2>3, <3>1
  <2> QED BY <2>2, <2>3
<1>13. Stands(K, m, Y)
  <2> HIDE DEF Y
  <2> QED BY <1>3, <1>4, <1>5, <1>6, <1>9, <1>11, <1>12 DEF Stands
<1> QED BY <1>13 DEF m
-----------------------------------------------------------------------------
(* Taking the records in order *)

LEMMA TypedPlaced ==
    ASSUME NEW K, AllTyped(K)
    PROVE  Placed(K)
BY DEF AllTyped, RecordTyped, Placed

\* Some X that wr[i] stands for; what else is of its place and name, is still
\* to come.
Making(K, r, src) == \E X : Stands(K, r, X) /\ At(K, r) \subseteq X \cup ToSet(src)

\* The records wr are written, src is still to be taken.
Merging(K, wr, src) ==
    /\ src \in Seq(K) /\ Ascending(src)
    /\ IsList(wr)
    /\ \A i \in DOMAIN wr : RecordTyped(wr[i]) /\ Making(K, wr[i], src)
    /\ \A i, j \in DOMAIN wr : i < j => Before(wr[i], wr[j])
    /\ \A i \in DOMAIN wr, j \in DOMAIN src : NotAfter(wr[i], src[j])
    /\ \A y \in K : y \in ToSet(src) \/ \E i \in DOMAIN wr : SamePlaceAndName(wr[i], y)

LEMMA HeadAndTail ==
    ASSUME NEW K, NEW s \in Seq(K), s # <<>>, Ascending(s)
    PROVE  /\ Head(s) \in K /\ 1 \in DOMAIN s /\ Head(s) = s[1]
           /\ Tail(s) \in Seq(K) /\ Ascending(Tail(s))
           /\ ToSet(s) = {Head(s)} \cup ToSet(Tail(s))
           /\ \A j \in DOMAIN Tail(s) : j + 1 \in DOMAIN s /\ Tail(s)[j] = s[j + 1]
           /\ \A j \in DOMAIN Tail(s) : NotAfter(Head(s), Tail(s)[j])
<1> DEFINE t == Tail(s)
           n == Len(s)
<1>1. n \in Nat /\ DOMAIN s = 1 .. n /\ n # 0
  BY LenProperties, EmptySeq
<1>2. Head(s) \in K /\ t \in Seq(K) /\ Len(t) = n - 1 /\ \A i \in 1 .. Len(t) : t[i] = s[i + 1]
  BY HeadTailProperties
<1>3. Head(s) = s[1]
  OBVIOUS
<1>4. DOMAIN t = 1 .. n - 1
  BY <1>2, LenProperties
<1> HIDE DEF t, n
<1>5. \A j \in DOMAIN t : j + 1 \in DOMAIN s /\ t[j] = s[j + 1] /\ 1 < j + 1
  BY <1>1, <1>2, <1>4
<1>6. 1 \in DOMAIN s
  BY <1>1
<1>7. \A j \in DOMAIN t : NotAfter(Head(s), t[j])
  BY <1>3, <1>5, <1>6 DEF Ascending
<1>8. ASSUME NEW i \in DOMAIN t, NEW j \in DOMAIN t, i < j PROVE NotAfter(t[i], t[j])
  <2>1. i + 1 < j + 1
    BY <1>1, <1>4, <1>8
  <2> QED BY <1>5, <2>1 DEF Ascending
<1>9. ToSet(s) = {s[i] : i \in 1 .. n} /\ ToSet(t) = {t[i] : i \in 1 .. n - 1}
  BY <1>1, <1>4 DEF ToSet
<1>10. ASSUME NEW i \in 1 .. n PROVE s[i] \in {Head(s)} \cup ToSet(t)
  <2>1. CASE i = 1
    BY <1>3, <2>1
  <2>2. CASE i # 1
    <3>1. i - 1 \in 1 .. n - 1 /\ (i - 1) + 1 = i
      BY <1>1, <2>2
    <3>2. t[i - 1] = s[i]
      BY <1>4, <1>5, <3>1
    <3> QED BY <1>9, <3>1, <3>2
  <2> QED BY <2>1, <2>2
<1>11. \A x \in ToSet(t) : x \in ToSet(s)
  BY <1>1, <1>4, <1>5, <1>9
<1>12. Head(s) \in ToSet(s)
  BY <1>1, <1>3, <1>6, <1>9
<1>13. ToSet(s) = {Head(s)} \cup ToSet(t)
  BY <1>9, <1>10, <1>11, <1>12
<1> QED BY <1>2, <1>3, <1>5, <1>6, <1>7, <1>8, <1>13 DEF t, Ascending

\* What is written before the record that is taken stays as it is.
LEMMA Passing ==
    ASSUME NEW K, NEW src, NEW r, NEW o, NEW rest, Making(K, r, src), ~SamePlaceAndName(r, o),
           ToSet(src) = {o} \cup ToSet(rest)
    PROVE  Making(K, r, rest)
<1>1. PICK X : Stands(K, r, X) /\ At(K, r) \subseteq X \cup ToSet(src)
  BY DEF Making
<1>2. o \notin At(K, r)
  <2>1. \A y \in At(K, r) : SamePlaceAndName(y, r)
    BY DEF At
  <2> QED BY <2>1 DEF SamePlaceAndName
<1>3. At(K, r) \subseteq X \cup ToSet(rest)
  BY <1>1, <1>2
<1> QED BY <1>1, <1>3 DEF Making

LEMMA Opening ==
    ASSUME NEW K, AllTyped(K), NEW wr, NEW src, src # <<>>, Merging(K, wr, src),
           ~(wr # <<>> /\ SamePlaceAndName(Last(wr), Head(src)))
    PROVE  Merging(K, Append(wr, Head(src)), Tail(src))
<1> DEFINE o == Head(src)
           rest == Tail(src)
           n == Len(wr)
           w == Append(wr, o)
<1>1. /\ o \in K /\ 1 \in DOMAIN src /\ o = src[1]
      /\ rest \in Seq(K) /\ Ascending(rest)
      /\ ToSet(src) = {o} \cup ToSet(rest)
      /\ \A j \in DOMAIN rest : j + 1 \in DOMAIN src /\ rest[j] = src[j + 1]
      /\ \A j \in DOMAIN rest : NotAfter(o, rest[j])
  BY HeadAndTail DEF Merging
<1>2. wr \in Seq(ToSet(wr) \cup {o})
  <2> DEFINE S == ToSet(wr)
             T == S \cup {o}
  <2>1. wr \in Seq(S) /\ S \subseteq T
    BY DEF Merging, IsList
  <2> HIDE DEF S, T
  <2>2. wr \in Seq(T)
    BY <2>1, SeqMonotonic
  <2> QED BY <2>2 DEF S, T
<1>3. n \in Nat /\ DOMAIN wr = 1 .. n
  BY <1>2, LenProperties
<1>4. w \in Seq(ToSet(wr) \cup {o}) /\ Len(w) = n + 1 /\ w[n + 1] = o /\ \A i \in 1 .. n : w[i] = wr[i]
  <2> DEFINE T == ToSet(wr) \cup {o}
  <2>1. o \in T
    OBVIOUS
  <2> HIDE DEF T, o
  <2>2. w \in Seq(T) /\ Len(w) = n + 1 /\ w[n + 1] = o /\ \A i \in 1 .. n : w[i] = wr[i]
    BY <1>2, <2>1, AppendProperties DEF T
  <2> QED BY <2>2 DEF T
<1>5. DOMAIN w = 1 .. n + 1
  BY <1>4, LenProperties
<1>6. IsList(w)
  <2> HIDE DEF w, o
  <2> QED BY <1>4, ListOf
<1>7. AllTyped(K) /\ Placed(K)
  BY TypedPlaced
<1>8. n # 0 => n \in DOMAIN wr /\ Last(wr) = wr[n] /\ wr # <<>>
  BY <1>3 DEF Last
<1> HIDE DEF o, rest, n, w
<1>9. ASSUME NEW i \in DOMAIN wr PROVE Before(wr[i], o)
  <2>1. n # 0 /\ i \in 1 .. n
    BY <1>3
  <2>2. ~SamePlaceAndName(wr[n], o) /\ NotAfter(wr[n], o)
    BY <1>1, <1>8, <2>1 DEF o, Merging
  <2>3. CASE i = n
    BY <2>2, <2>3 DEF Before
  <2>4. CASE i # n
    <3>1. i < n
      BY <1>3, <2>1, <2>4
    <3>2. Before(wr[i], wr[n])
      BY <1>8, <2>1, <3>1 DEF Merging
    <3>3. \A x \in {wr[i], wr[n], o} : x.loc \in Int /\ x.pretty \in Int
      BY <1>1, <1>7, <1>8, <2>1 DEF Merging, RecordTyped, AllTyped
    <3>4. Placed({wr[i], wr[n], o})
      BY <3>3 DEF Placed
    <3> QED BY <2>2, <3>2, <3>4, Order
  <2> QED BY <2>3, <2>4
<1>10. ASSUME NEW i \in DOMAIN wr PROVE RecordTyped(wr[i]) /\ Making(K, wr[i], rest)
  <2>1. RecordTyped(wr[i]) /\ Making(K, wr[i], src)
    BY DEF Merging
  <2>2. ~SamePlaceAndName(wr[i], o)
    BY <1>9 DEF Before
  <2> QED BY <1>1, <2>1, <2>2, Passing
<1>11. RecordTyped(o) /\ Making(K, o, rest)
  <2>1. Stands(K, o, {o})
    BY <1>1, StandsAlone
  <2>2. ASSUME NEW y \in At(K, o) PROVE y \in {o} \cup ToSet(rest)
    <3>1. y \in K /\ SamePlaceAndName(y, o)
      BY DEF At
    <3>2. y \in ToSet(src) \/ \E i \in DOMAIN wr : SamePlaceAndName(wr[i], y)
      BY <3>1 DEF Merging
    <3>3. \A i \in DOMAIN wr : ~SamePlaceAndName(wr[i], y)
      BY <1>9, <3>1 DEF Before, SamePlaceAndName
    <3> QED BY <1>1, <3>2, <3>3
  <2> QED BY <1>1, <1>7, <2>1, <2>2 DEF Making, AllTyped
<1>12. \A i \in DOMAIN w : (i = n + 1 /\ w[i] = o) \/ (i \in DOMAIN wr /\ w[i] = wr[i])
  BY <1>3, <1>4, <1>5
<1>13. \A i \in DOMAIN w : RecordTyped(w[i]) /\ Making(K, w[i], rest)
  BY <1>10, <1>11, <1>12
<1>14. ASSUME NEW i \in DOMAIN w, NEW j \in DOMAIN w, i < j PROVE Before(w[i], w[j])
  <2>1. i \in DOMAIN wr /\ w[i] = wr[i]
    BY <1>3, <1>4, <1>5, <1>14
  <2>2. (j = n + 1 /\ w[j] = o) \/ (j \in DOMAIN wr /\ w[j] = wr[j])
    BY <1>12
  <2> QED BY <1>9, <1>14, <2>1, <2>2 DEF Merging
<1>15. ASSUME NEW i \in DOMAIN w, NEW j \in DOMAIN rest PROVE NotAfter(w[i], rest[j])
  <2>1. CASE i = n + 1 /\ w[i] = o
    BY <1>1, <2>1
  <2>2. CASE i \in DOMAIN wr /\ w[i] = wr[i]
    <3>1. j + 1 \in DOMAIN src /\ rest[j] = src[j + 1]
      BY <1>1
    <3>2. NotAfter(wr[i], src[j + 1])
      BY <2>2, <3>1 DEF Merging
    <3> QED BY <2>2, <3>1, <3>2
  <2> QED BY <1>12, <2>1, <2>2
<1>16. ASSUME NEW y \in K PROVE y \in ToSet(rest) \/ \E i \in DOMAIN w : SamePlaceAndName(w[i], y)
  <2>1. CASE y = o
    <3>1. n + 1 \in DOMAIN w
      BY <1>3, <1>5
    <3> QED BY <1>4, <2>1, <3>1 DEF SamePlaceAndName
  <2>2. CASE y \in ToSet(rest)
    BY <2>2
  <2>3. CASE \E i \in DOMAIN wr : SamePlaceAndName(wr[i], y)
    <3>1. PICK i \in DOMAIN wr : SamePlaceAndName(wr[i], y)
      BY <2>3
    <3>2. i \in DOMAIN w /\ w[i] = wr[i]
      BY <1>3, <1>4, <1>5
    <3> QED BY <3>1, <3>2
  <2> QED BY <1>1, <2>1, <2>2, <2>3 DEF Merging
<1>17. Merging(K, w, rest)
  BY <1>1, <1>6, <1>13, <1>14, <1>15, <1>16 DEF Merging
<1> QED BY <1>17 DEF o, rest, w

LEMMA Replacing ==
    ASSUME NEW S, NEW s \in Seq(S), s # <<>>, NEW m
    PROVE  LET w == Append(Front(s), m) IN
           /\ IsList(w) /\ Len(w) = Len(s) /\ DOMAIN w = DOMAIN s
           /\ Len(s) \in DOMAIN s /\ Last(s) = s[Len(s)] /\ w[Len(s)] = m
           /\ \A i \in DOMAIN s : i <= Len(s) /\ (i # Len(s) => i < Len(s) /\ w[i] = s[i])
<1> DEFINE T == S \cup {m}
           n == Len(s)
           f == Front(s)
           w == Append(f, m)
<1>1. n \in Nat /\ DOMAIN s = 1 .. n /\ n # 0 /\ \A i \in 1 .. n : s[i] \in S
  BY LenProperties, EmptySeq
<1>2. f = SubSeq(s, 1, n - 1)
  BY DEF Front
<1>3. f \in Seq(T) /\ Len(f) = n - 1 /\ \A i \in 1 .. n - 1 : f[i] = s[i]
  <2> HIDE DEF n, f
  <2>1. 1 \in Int /\ n - 1 \in Int /\ (\A i \in 1 .. n - 1 : i \in 1 .. n) /\ (1 <= n - 1 \/ n = 1)
    BY <1>1
  <2>2. \A i \in 1 .. n - 1 : s[i] \in T
    BY <1>1, <2>1
  <2> HIDE DEF T
  <2>3. /\ SubSeq(s, 1, n - 1) \in Seq(T)
        /\ Len(SubSeq(s, 1, n - 1)) = IF 1 <= n - 1 THEN (n - 1) - 1 + 1 ELSE 0
        /\ \A i \in 1 .. (n - 1) - 1 + 1 : SubSeq(s, 1, n - 1)[i] = s[1 + i - 1]
    BY <2>1, <2>2, SubSeqProperties
  <2>4. (n - 1) - 1 + 1 = n - 1 /\ \A i \in 1 .. n - 1 : 1 + i - 1 = i
    BY <1>1
  <2> QED BY <1>1, <1>2, <2>1, <2>3, <2>4
<1>4. m \in T
  OBVIOUS
<1> HIDE DEF f, T, n
<1>5. w \in Seq(T) /\ Len(w) = (n - 1) + 1 /\ w[(n - 1) + 1] = m /\ \A i \in 1 .. n - 1 : w[i] = s[i]
  <2>1. w \in Seq(T) /\ Len(w) = Len(f) + 1 /\ w[Len(f) + 1] = m /\ \A i \in 1 .. Len(f) : w[i] = f[i]
    BY <1>3, <1>4, AppendProperties
  <2> HIDE DEF w
  <2> QED BY <1>3, <2>1
<1> HIDE DEF w
<1>6. IsList(w) /\ DOMAIN w = 1 .. n /\ Len(w) = n
  <2>1. (n - 1) + 1 = n
    BY <1>1
  <2> QED BY <1>5, <2>1, ListOf, LenProperties
<1>7. w[n] = m /\ n \in 1 .. n
  BY <1>1, <1>5
<1>8. \A i \in 1 .. n : i <= n /\ (i # n => i < n /\ i \in 1 .. n - 1)
  BY <1>1
<1>9. Last(s) = s[n]
  BY DEF Last, n
<1>10. /\ IsList(w) /\ Len(w) = n /\ DOMAIN w = DOMAIN s
       /\ n \in DOMAIN s /\ Last(s) = s[n] /\ w[n] = m
       /\ \A i \in DOMAIN s : i <= n /\ (i # n => i < n /\ w[i] = s[i])
  BY <1>1, <1>5, <1>6, <1>7, <1>8, <1>9
<1> QED BY <1>10 DEF w, f, n

LEMMA Extending ==
    ASSUME NEW K, AllTyped(K), NEW wr, NEW src, src # <<>>, Merging(K, wr, src),
           wr # <<>>, SamePlaceAndName(Last(wr), Head(src)), ~Mixed(Last(wr), Head(src))
    PROVE  Merging(K, Append(Front(wr), MergeSource(Last(wr), Head(src))), Tail(src))
<1> DEFINE o == Head(src)
           rest == Tail(src)
           n == Len(wr)
           e == Last(wr)
           m == MergeSource(e, o)
           w == Append(Front(wr), m)
<1>1. /\ o \in K /\ 1 \in DOMAIN src /\ o = src[1]
      /\ rest \in Seq(K) /\ Ascending(rest)
      /\ ToSet(src) = {o} \cup ToSet(rest)
      /\ \A j \in DOMAIN rest : j + 1 \in DOMAIN src /\ rest[j] = src[j + 1]
      /\ \A j \in DOMAIN rest : NotAfter(o, rest[j])
  BY HeadAndTail DEF Merging
<1>2. /\ IsList(w) /\ DOMAIN w = DOMAIN wr
      /\ n \in DOMAIN wr /\ e = wr[n] /\ w[n] = m
      /\ \A i \in DOMAIN wr : i <= n /\ (i # n => i < n /\ w[i] = wr[i])
  <2> DEFINE S == ToSet(wr)
  <2>1. wr \in Seq(S)
    BY DEF Merging, IsList
  <2> HIDE DEF S, m
  <2>2. LET u == Append(Front(wr), m) IN
           /\ IsList(u) /\ Len(u) = Len(wr) /\ DOMAIN u = DOMAIN wr
           /\ Len(wr) \in DOMAIN wr /\ Last(wr) = wr[Len(wr)] /\ u[Len(wr)] = m
           /\ \A i \in DOMAIN wr : i <= Len(wr) /\ (i # Len(wr) => i < Len(wr) /\ u[i] = wr[i])
    BY <2>1, Replacing
  <2> QED BY <2>2
<1>3. RecordTyped(e) /\ RecordTyped(o) /\ SamePlaceAndName(e, o) /\ ~Mixed(e, o)
  BY <1>1, <1>2 DEF Merging, AllTyped
<1>4. RecordTyped(m) /\ m.loc = e.loc /\ m.pretty = e.pretty
  <2> HIDE DEF e, o
  <2> QED BY <1>3, MergedTyped, MergedFields
<1>5. Making(K, e, src)
  BY <1>2 DEF Merging
<1>6. Making(K, m, rest)
  <2>1. PICK X : Stands(K, e, X) /\ At(K, e) \subseteq X \cup ToSet(src)
    BY <1>5 DEF Making
  <2> HIDE DEF e, o
  <2>2. Stands(K, m, X \cup {o})
    BY <1>1, <1>3, <2>1, Standing
  <2>3. At(K, m) = At(K, e)
    <3> HIDE DEF m
    <3> QED BY <1>4 DEF At, SamePlaceAndName
  <2> HIDE DEF m
  <2>4. At(K, m) \subseteq (X \cup {o}) \cup ToSet(rest)
    BY <1>1, <2>1, <2>3
  <2> QED BY <2>2, <2>4 DEF Making
<1> HIDE DEF o, rest, n, m, w, e
<1>7. ASSUME NEW r PROVE /\ SamePlaceAndName(m, r) <=> SamePlaceAndName(e, r)
                         /\ NotAfter(m, r) <=> NotAfter(e, r)
                         /\ Before(r, m) <=> Before(r, e)
  BY <1>4 DEF SamePlaceAndName, NotAfter, Before
<1>8. ASSUME NEW i \in DOMAIN wr, i # n
      PROVE  Before(wr[i], e) /\ RecordTyped(wr[i]) /\ Making(K, wr[i], rest)
  <2>1. i < n
    BY <1>2, <1>8
  <2>2. Before(wr[i], e)
    BY <1>2, <2>1 DEF Merging
  <2>3. RecordTyped(wr[i]) /\ Making(K, wr[i], src)
    BY DEF Merging
  <2>4. ~SamePlaceAndName(wr[i], o)
    BY <1>3, <2>2 DEF Before, SamePlaceAndName
  <2> QED BY <1>1, <2>2, <2>3, <2>4, Passing
<1>9. \A i \in DOMAIN w : (i = n /\ w[i] = m) \/ (i # n /\ i < n /\ i \in DOMAIN wr /\ w[i] = wr[i])
  BY <1>2
<1>10. \A i \in DOMAIN w : RecordTyped(w[i]) /\ Making(K, w[i], rest)
  BY <1>4, <1>6, <1>8, <1>9
<1>11. ASSUME NEW i \in DOMAIN w, NEW j \in DOMAIN w, i < j PROVE Before(w[i], w[j])
  <2>1. i \in DOMAIN wr /\ w[i] = wr[i] /\ i # n
    <3>1. i \in DOMAIN wr /\ j \in DOMAIN wr /\ j <= n /\ wr \in Seq(ToSet(wr))
      BY <1>2 DEF Merging, IsList
    <3>2. i \in Nat /\ j \in Nat /\ n \in Nat
      BY <1>2, <3>1, LenProperties
    <3>3. i # n
      BY <1>11, <3>1, <3>2
    <3> QED BY <1>9, <3>1, <3>3
  <2>2. CASE j = n /\ w[j] = m
    BY <1>7, <1>8, <2>1, <2>2
  <2>3. CASE j \in DOMAIN wr /\ w[j] = wr[j]
    BY <1>11, <2>1, <2>3 DEF Merging
  <2> QED BY <1>9, <2>2, <2>3
<1>12. ASSUME NEW i \in DOMAIN w, NEW j \in DOMAIN rest PROVE NotAfter(w[i], rest[j])
  <2>1. j + 1 \in DOMAIN src /\ rest[j] = src[j + 1]
    BY <1>1
  <2>2. i \in DOMAIN wr /\ NotAfter(wr[i], src[j + 1])
    BY <1>2, <2>1 DEF Merging
  <2>3. CASE i = n /\ w[i] = m
    BY <1>2, <1>7, <2>1, <2>2, <2>3
  <2>4. CASE w[i] = wr[i]
    BY <2>1, <2>2, <2>4
  <2> QED BY <1>9, <2>3, <2>4
<1>13. ASSUME NEW y \in K PROVE y \in ToSet(rest) \/ \E i \in DOMAIN w : SamePlaceAndName(w[i], y)
  <2>1. CASE y = o
    <3>1. SamePlaceAndName(w[n], y) /\ n \in DOMAIN w
      BY <1>2, <1>3, <1>7, <2>1
    <3> QED BY <3>1
  <2>2. CASE y \in ToSet(rest)
    BY <2>2
  <2>3. CASE \E i \in DOMAIN wr : SamePlaceAndName(wr[i], y)
    <3>1. PICK i \in DOMAIN wr : SamePlaceAndName(wr[i], y)
      BY <2>3
    <3>2. SamePlaceAndName(w[i], y) /\ i \in DOMAIN w
      BY <1>2, <1>7, <1>9, <3>1
    <3> QED BY <3>2
  <2> QED BY <1>1, <2>1, <2>2, <2>3 DEF Merging
<1>14. Merging(K, w, rest)
  BY <1>1, <1>2, <1>10, <1>11, <1>12, <1>13 DEF Merging
<1> QED BY <1>14 DEF o, rest, w, m, e
-----------------------------------------------------------------------------
(* Reading the files *)

\* The record r of file i, as it is collected.
Owned(r, i) == [r EXCEPT !.expansions = OwnExpansions(@, Platforms[i])]

Given == UNION {{Owned(x, i) : x \in RecordsOf(i, "source")} : i \in DOMAIN files}

Reached(i, j) == i < place[1] \/ (i = place[1] /\ j < place[2])

ReadSoFar ==
    \A i \in DOMAIN files : \A j \in DOMAIN files[i] :
       Reached(i, j) /\ files[i][j].tag = "source" => Owned(files[i][j], i) \in ToSet(sources)

Collected == \A y \in Given : y \in ToSet(sources)

Places == (Nat \ {0}) \X (Nat \ {0})

MergeInv ==
    /\ FilesTyped(files)
    /\ mergePhase \in {"read", "sources", "structured", "merged", "panicked"}
    /\ place \in Places
    /\ mergePhase = "read" => sources \in Seq(Given) /\ written = <<>> /\ ReadSoFar
    /\ mergePhase = "sources" => Merging(Given, written, sources)
    /\ mergePhase \in {"structured", "merged"} => Merging(Given, written, <<>>)

LEMMA OwnedFields ==
    ASSUME NEW r, NEW i, RecordTyped(r)
    PROVE  /\ RecordTyped(Owned(r, i))
           /\ Owned(r, i).loc = r.loc /\ Owned(r, i).pretty = r.pretty
           /\ Owned(r, i).noCrossref = r.noCrossref /\ Owned(r, i).kind = r.kind
           /\ Owned(r, i).syms = r.syms /\ SureOf(Owned(r, i)) = SureOf(r)
           /\ Owned(r, i).expansions = OwnExpansions(r.expansions, Platforms[i])
<1> DEFINE m == Owned(r, i)
<1>1. DOMAIN r = {"tag", "loc", "pretty", "noCrossref", "syntax", "syms", "confidence",
                  "range", "type", "kind", "expansions"}
  BY DEF RecordTyped
<1>2. /\ DOMAIN m = DOMAIN r /\ m.loc = r.loc /\ m.pretty = r.pretty /\ m.noCrossref = r.noCrossref
      /\ m.kind = r.kind /\ m.syms = r.syms /\ m.confidence = r.confidence
      /\ m.expansions = OwnExpansions(r.expansions, Platforms[i])
  BY <1>1 DEF Owned
<1> HIDE DEF m
<1>3. Confidences(m) = Confidences(r)
  BY <1>2 DEF Confidences
<1>4. SureOf(m) = SureOf(r)
  BY <1>2, <1>3 DEF SureOf
<1>5. RecordTyped(m)
  BY <1>2 DEF RecordTyped
<1> QED BY <1>2, <1>4, <1>5 DEF m

LEMMA FileLines ==
    ASSUME FilesTyped(files)
    PROVE  /\ Len(files) \in Nat /\ DOMAIN files = 1 .. Len(files) /\ Len(files) <= Len(Platforms)
           /\ \A i \in DOMAIN files : Len(files[i]) \in Nat /\ DOMAIN files[i] = 1 .. Len(files[i])
           /\ \A i \in DOMAIN files : \A r \in RecordsOf(i, "source") : SourceTyped(r)
           /\ \A i \in DOMAIN files : \A j \in DOMAIN files[i] :
                 files[i][j].tag = "source" => files[i][j] \in RecordsOf(i, "source")
<1>1. files \in Seq(ToSet(files)) /\ Len(files) <= Len(Platforms)
  BY DEF FilesTyped, IsList
<1>2. Len(files) \in Nat /\ DOMAIN files = 1 .. Len(files)
  BY <1>1, LenProperties
<1>3. ASSUME NEW i \in DOMAIN files PROVE Len(files[i]) \in Nat /\ DOMAIN files[i] = 1 .. Len(files[i])
  <2>1. files[i] \in Seq(ToSet(files[i]))
    BY DEF FilesTyped, IsList
  <2> QED BY <2>1, LenProperties
<1>4. ASSUME NEW i \in DOMAIN files, NEW r \in RecordsOf(i, "source") PROVE SourceTyped(r)
  <2>1. PICK j \in DOMAIN files[i] : r = files[i][j] /\ r.tag = "source"
    BY DEF RecordsOf, ToSet
  <2> QED BY <2>1 DEF FilesTyped
<1>5. ASSUME NEW i \in DOMAIN files, NEW j \in DOMAIN files[i], files[i][j].tag = "source"
      PROVE  files[i][j] \in RecordsOf(i, "source")
  BY <1>5 DEF RecordsOf, ToSet
<1> QED BY <1>1, <1>2, <1>3, <1>4, <1>5

LEMMA GivenTyped ==
    ASSUME FilesTyped(files)
    PROVE  AllTyped(Given) /\ Placed(Given)
<1>1. ASSUME NEW y \in Given PROVE RecordTyped(y)
  <2>1. PICK i \in DOMAIN files : \E x \in RecordsOf(i, "source") : y = Owned(x, i)
    BY DEF Given
  <2>2. PICK x \in RecordsOf(i, "source") : y = Owned(x, i)
    BY <2>1
  <2>3. RecordTyped(x)
    BY FileLines DEF SourceTyped
  <2> QED BY <2>2, <2>3, OwnedFields
<1>2. AllTyped(Given)
  BY <1>1 DEF AllTyped
<1> QED BY <1>2, TypedPlaced

LEMMA GivenUnchanged ==
    ASSUME files' = files
    PROVE  Given' = Given /\ (FilesTyped(files) => FilesTyped(files)')
<1>1. \A i : RecordsOf(i, "source")' = RecordsOf(i, "source")
  BY DEF RecordsOf
<1> QED BY <1>1 DEF Given

LEMMA MergeInvInit == MergeInit(files) => MergeInv
<1> SUFFICES ASSUME MergeInit(files) PROVE MergeInv
  OBVIOUS
<1>1. /\ FilesTyped(files) /\ mergePhase = "read" /\ place = <<1, 1>>
      /\ sources = <<>> /\ written = <<>>
  BY DEF MergeInit
<1>2. <<>> \in Seq(Given)
  BY EmptySeq
<1>3. ReadSoFar
  <2> SUFFICES ASSUME NEW i \in DOMAIN files, NEW j \in DOMAIN files[i], Reached(i, j) PROVE FALSE
    BY DEF ReadSoFar
  <2>1. i \in Nat /\ j \in Nat /\ 1 <= i /\ 1 <= j
    BY <1>1, FileLines
  <2> QED BY <1>1, <2>1 DEF Reached
<1>4. place \in Places
  BY <1>1 DEF Places
<1> QED BY <1>1, <1>2, <1>3, <1>4 DEF MergeInv

LEMMA NextFileStep == MergeInv /\ NextFile => MergeInv'
<1> SUFFICES ASSUME MergeInv, NextFile PROVE MergeInv'
  OBVIOUS
<1>1. /\ mergePhase = "read" /\ mergePhase' = "read" /\ files' = files /\ sources' = sources /\ written' = written
      /\ place' = <<place[1] + 1, 1>> /\ ~AtEnd /\ ~LineLeft
  BY DEF NextFile
<1>2. FilesTyped(files) /\ sources \in Seq(Given) /\ written = <<>> /\ ReadSoFar /\ place \in Places
  BY <1>1 DEF MergeInv
<1>3. place' \in Places /\ place'[1] = place[1] + 1 /\ place'[2] = 1 /\ place[1] \in Nat /\ place[2] \in Nat
  BY <1>1, <1>2 DEF Places
<1>4. Given' = Given /\ FilesTyped(files)'
  BY <1>1, <1>2, GivenUnchanged
<1>5. ReadSoFar'
  <2> SUFFICES ASSUME NEW i \in DOMAIN files, NEW j \in DOMAIN files[i],
                      i < place[1] + 1 \/ (i = place[1] + 1 /\ j < 1), files[i][j].tag = "source"
               PROVE  Owned(files[i][j], i) \in ToSet(sources)
    BY <1>1, <1>3 DEF ReadSoFar, Reached, Owned
  <2>1. i \in Nat /\ j \in Nat /\ 1 <= j /\ j <= Len(files[i]) /\ Len(files[i]) \in Nat
    BY <1>2, FileLines
  <2>2. i < place[1] \/ i = place[1]
    BY <1>3, <2>1
  <2>3. i = place[1] => j < place[2]
    BY <1>1, <1>3, <2>1 DEF LineLeft, CurrentFile
  <2>4. Reached(i, j)
    BY <2>2, <2>3 DEF Reached
  <2> QED BY <1>2, <2>4 DEF ReadSoFar
<1> QED BY <1>1, <1>2, <1>3, <1>4, <1>5 DEF MergeInv

LEMMA ReadLineStep == MergeInv /\ ReadLine => MergeInv'
<1> SUFFICES ASSUME MergeInv, ReadLine PROVE MergeInv'
  OBVIOUS
<1>1. /\ mergePhase = "read" /\ mergePhase' = "read" /\ files' = files /\ written' = written
      /\ place' = [place EXCEPT ![2] = @ + 1] /\ LineLeft
      /\ \/ Line.tag # "source" /\ sources' = sources
         \/ Line.tag = "source" /\ sources' = Append(sources, OwnSource(Line))
  BY DEF ReadLine
<1>2. FilesTyped(files) /\ sources \in Seq(Given) /\ written = <<>> /\ ReadSoFar /\ place \in Places
  BY <1>1 DEF MergeInv
<1>3. place' \in Places /\ place'[1] = place[1] /\ place'[2] = place[2] + 1 /\ place[1] \in Nat /\ place[2] \in Nat
  BY <1>1, <1>2 DEF Places
<1>4. Given' = Given /\ FilesTyped(files)'
  BY <1>1, <1>2, GivenUnchanged
<1> DEFINE a == place[1]
           b == place[2]
<1>5. Line = files[a][b] /\ OwnSource(Line) = Owned(Line, a)
  BY DEF Line, CurrentFile, OwnSource, Owned
<1>6. Line.tag = "source" => Owned(Line, a) \in Given
  <2>1. a <= Len(files) /\ b <= Len(files[a])
    BY <1>1, <1>2, <1>3, FileLines DEF LineLeft, AtEnd, CurrentFile
  <2>2. 1 <= a /\ 1 <= b /\ a \in Nat /\ b \in Nat
    BY <1>2 DEF Places
  <2>3. a \in DOMAIN files
    BY <1>2, <2>1, <2>2, FileLines
  <2>4. b \in DOMAIN files[a]
    BY <1>2, <2>1, <2>2, <2>3, FileLines
  <2>5. Line.tag = "source" => Line \in RecordsOf(a, "source")
    BY <1>2, <1>5, <2>3, <2>4, FileLines
  <2> QED BY <2>3, <2>5 DEF Given
<1>7. sources' \in Seq(Given) /\ ToSet(sources) \subseteq ToSet(sources')
      /\ (Line.tag = "source" => Owned(Line, a) \in ToSet(sources'))
  <2>1. CASE Line.tag # "source" /\ sources' = sources
    BY <1>2, <2>1
  <2>2. CASE Line.tag = "source" /\ sources' = Append(sources, OwnSource(Line))
    BY <1>2, <1>5, <1>6, <2>2, AppendProperties, AppendedSet
  <2> QED BY <1>1, <2>1, <2>2
<1>8. ReadSoFar'
  <2> SUFFICES ASSUME NEW i \in DOMAIN files, NEW j \in DOMAIN files[i],
                      i < a \/ (i = a /\ j < b + 1), files[i][j].tag = "source"
               PROVE  Owned(files[i][j], i) \in ToSet(sources')
    BY <1>1, <1>3 DEF ReadSoFar, Reached, Owned
  <2>1. i \in Nat /\ j \in Nat
    BY <1>2, FileLines
  <2>2. Reached(i, j) \/ (i = a /\ j = b)
    BY <1>3, <2>1 DEF Reached
  <2>3. CASE Reached(i, j)
    BY <1>2, <1>7, <2>3 DEF ReadSoFar
  <2>4. CASE i = a /\ j = b
    BY <1>5, <1>7, <2>4
  <2> QED BY <2>2, <2>3, <2>4
<1> QED BY <1>1, <1>2, <1>3, <1>4, <1>7, <1>8 DEF MergeInv

LEMMA GroupedStep == MergeInv /\ Grouped => MergeInv'
<1> SUFFICES ASSUME MergeInv, Grouped PROVE MergeInv'
  OBVIOUS
<1>1. /\ mergePhase = "read" /\ AtEnd /\ mergePhase' = "sources" /\ files' = files /\ written' = written
      /\ sources' = InPlaces(sources) /\ place' = place
  BY DEF Grouped
<1>2. FilesTyped(files) /\ sources \in Seq(Given) /\ written = <<>> /\ ReadSoFar /\ place \in Places
  BY <1>1 DEF MergeInv
<1>3. Given' = Given /\ FilesTyped(files)'
  BY <1>1, <1>2, GivenUnchanged
<1>4. sources' \in Seq(Given) /\ Ascending(sources') /\ ToSet(sources') = ToSet(sources)
  BY <1>1, <1>2, GivenTyped, InPlacesSorts
<1>5. ASSUME NEW y \in Given PROVE y \in ToSet(sources)
  <2>1. PICK i \in DOMAIN files : \E x \in RecordsOf(i, "source") : y = Owned(x, i)
    BY DEF Given
  <2>2. PICK x \in RecordsOf(i, "source") : y = Owned(x, i)
    BY <2>1
  <2>3. PICK j \in DOMAIN files[i] : x = files[i][j] /\ x.tag = "source"
    BY DEF RecordsOf, ToSet
  <2>4. i < place[1]
    <3>1. place[1] \in Nat /\ place[1] > Len(files)
      BY <1>1, <1>2 DEF AtEnd, Places
    <3> QED BY <1>2, <3>1, FileLines
  <2>5. Reached(i, j)
    BY <2>4 DEF Reached
  <2> QED BY <1>2, <2>2, <2>3, <2>5 DEF ReadSoFar
<1>6. IsList(<<>>) /\ DOMAIN <<>> = {}
  BY EmptySeq DEF IsList
<1>7. Merging(Given, <<>>, sources')
  BY <1>4, <1>5, <1>6 DEF Merging
<1> QED BY <1>1, <1>2, <1>3, <1>7 DEF MergeInv

LEMMA TakeSourceStep == MergeInv /\ TakeSource => MergeInv'
<1> SUFFICES ASSUME MergeInv, TakeSource PROVE MergeInv'
  OBVIOUS
<1> DEFINE merges == written # <<>> /\ SamePlaceAndName(Last(written), Head(sources))
           clash == Mixed(Last(written), Head(sources))
<1>1. /\ mergePhase = "sources" /\ sources # <<>> /\ files' = files /\ place' = place
      /\ IF merges /\ clash
         THEN mergePhase' = "panicked"
         ELSE /\ written' = IF merges THEN Append(Front(written), MergeSource(Last(written), Head(sources)))
                                      ELSE Append(written, Head(sources))
              /\ sources' = Tail(sources)
              /\ mergePhase' = mergePhase
  BY DEF TakeSource
<1>2. FilesTyped(files) /\ Merging(Given, written, sources) /\ place \in Places
  BY <1>1 DEF MergeInv
<1>3. Given' = Given /\ FilesTyped(files)'
  BY <1>1, <1>2, GivenUnchanged
<1>4. AllTyped(Given)
  BY <1>2, GivenTyped
<1>5. CASE merges /\ clash
  BY <1>1, <1>2, <1>3, <1>5 DEF MergeInv
<1>6. CASE merges /\ ~clash
  <2>1. Merging(Given, written', sources')
    <3>1. Merging(Given, Append(Front(written), MergeSource(Last(written), Head(sources))), Tail(sources))
      BY <1>1, <1>2, <1>4, <1>6, Extending
    <3> QED BY <1>1, <1>6, <3>1
  <2>2. mergePhase' = "sources"
    BY <1>1, <1>6
  <2> HIDE DEF merges, clash
  <2> QED BY <1>1, <1>2, <1>3, <2>1, <2>2 DEF MergeInv
<1>7. CASE ~merges
  <2>1. Merging(Given, written', sources')
    <3>1. Merging(Given, Append(written, Head(sources)), Tail(sources))
      BY <1>1, <1>2, <1>4, <1>7, Opening
    <3> QED BY <1>1, <1>7, <3>1
  <2>2. mergePhase' = "sources"
    BY <1>1, <1>7
  <2> HIDE DEF merges, clash
  <2> QED BY <1>1, <1>2, <1>3, <2>1, <2>2 DEF MergeInv
<1> HIDE DEF merges, clash
<1> QED BY <1>5, <1>6, <1>7

LEMMA SourcesMergedStep == MergeInv /\ SourcesMerged => MergeInv'
<1> SUFFICES ASSUME MergeInv, SourcesMerged PROVE MergeInv'
  OBVIOUS
<1>1. /\ mergePhase = "sources" /\ sources = <<>> /\ mergePhase' = "structured"
      /\ files' = files /\ place' = place /\ sources' = sources /\ written' = written
  BY DEF SourcesMerged
<1>2. FilesTyped(files) /\ Merging(Given, written, <<>>) /\ place \in Places
  BY <1>1 DEF MergeInv
<1>3. Given' = Given /\ FilesTyped(files)'
  BY <1>1, <1>2, GivenUnchanged
<1> QED BY <1>1, <1>2, <1>3 DEF MergeInv

\* The structured records have no part in it.
LEMMA OtherSteps ==
    ASSUME MergeInv, files' = files, place' = place, written' = written, sources' = sources,
           mergePhase' = mergePhase \/ (mergePhase = "structured" /\ mergePhase' = "merged")
    PROVE  MergeInv'
<1>1. Given' = Given /\ FilesTyped(files)'
  BY GivenUnchanged DEF MergeInv
<1>2. ReadSoFar' = ReadSoFar
  BY DEF ReadSoFar, Reached, Owned
<1> QED BY <1>1, <1>2 DEF MergeInv

LEMMA MergeInvStep == MergeInv /\ [MergeNext]_mergeVars => MergeInv'
<1> SUFFICES ASSUME MergeInv, [MergeNext]_mergeVars PROVE MergeInv'
  OBVIOUS
<1>1. CASE NextFile
  BY <1>1, NextFileStep
<1>2. CASE ReadLine
  BY <1>2, ReadLineStep
<1>3. CASE Grouped
  BY <1>3, GroupedStep
<1>4. CASE TakeSource
  BY <1>4, TakeSourceStep
<1>5. CASE SourcesMerged
  BY <1>5, SourcesMergedStep
<1>6. CASE WriteStructured
  <2>1. UNCHANGED <<files, mergePhase, place, targets, sources, written, variants>>
    BY <1>6 DEF WriteStructured
  <2> QED BY <2>1, OtherSteps
<1>7. CASE StructuredWritten
  BY <1>7, OtherSteps DEF StructuredWritten
<1>8. CASE UNCHANGED mergeVars
  BY <1>8, OtherSteps DEF mergeVars
<1> QED BY <1>1, <1>2, <1>3, <1>4, <1>5, <1>6, <1>7, <1>8 DEF MergeNext
-----------------------------------------------------------------------------
(* What is written *)

OwnOf(r) == {x \in AllOf("source") : SamePlaceAndName(x, r)}

LEMMA FromFiles ==
    ASSUME FilesTyped(files), NEW r
    PROVE  /\ \A i \in DOMAIN files : \A x \in RecordsOf(i, "source") :
                 SamePlaceAndName(x, r) => x \in OwnOf(r) /\ Owned(x, i) \in At(Given, r)
           /\ \A y \in At(Given, r) : \E i \in DOMAIN files : \E x \in RecordsOf(i, "source") :
                 x \in OwnOf(r) /\ y = Owned(x, i)
           /\ \A x \in OwnOf(r) : \E i \in DOMAIN files :
                 x \in RecordsOf(i, "source") /\ Owned(x, i) \in At(Given, r)
<1>1. ASSUME NEW i \in DOMAIN files, NEW x \in RecordsOf(i, "source")
      PROVE  /\ x \in AllOf("source") /\ Owned(x, i) \in Given /\ RecordTyped(x)
             /\ SamePlaceAndName(Owned(x, i), r) <=> SamePlaceAndName(x, r)
  <2>1. RecordTyped(x)
    BY FileLines DEF SourceTyped
  <2>2. Owned(x, i).loc = x.loc /\ Owned(x, i).pretty = x.pretty
    BY <2>1, OwnedFields
  <2>3. SamePlaceAndName(Owned(x, i), r) <=> SamePlaceAndName(x, r)
    BY <2>2 DEF SamePlaceAndName
  <2>4. Owned(x, i) \in Given
    BY DEF Given
  <2>5. x \in AllOf("source")
    BY DEF AllOf
  <2> QED BY <2>1, <2>3, <2>4, <2>5
<1>2. ASSUME NEW i \in DOMAIN files, NEW x \in RecordsOf(i, "source"), SamePlaceAndName(x, r)
      PROVE  x \in OwnOf(r) /\ Owned(x, i) \in At(Given, r)
  BY <1>1, <1>2 DEF OwnOf, At
<1>3. ASSUME NEW y \in At(Given, r)
      PROVE  \E i \in DOMAIN files : \E x \in RecordsOf(i, "source") : x \in OwnOf(r) /\ y = Owned(x, i)
  <2>1. y \in Given /\ SamePlaceAndName(y, r)
    BY DEF At
  <2>2. PICK i \in DOMAIN files : \E x \in RecordsOf(i, "source") : y = Owned(x, i)
    BY <2>1 DEF Given
  <2>3. PICK x \in RecordsOf(i, "source") : y = Owned(x, i)
    BY <2>2
  <2> QED BY <1>1, <2>1, <2>3 DEF OwnOf
<1>4. ASSUME NEW x \in OwnOf(r)
      PROVE  \E i \in DOMAIN files : x \in RecordsOf(i, "source") /\ Owned(x, i) \in At(Given, r)
  <2>1. x \in AllOf("source") /\ SamePlaceAndName(x, r)
    BY DEF OwnOf
  <2>2. PICK i \in DOMAIN files : x \in RecordsOf(i, "source")
    BY <2>1 DEF AllOf
  <2> QED BY <1>2, <2>1, <2>2
<1> QED BY <1>2, <1>3, <1>4

\* A record that is written stands for all of its place and name.
LEMMA StandsForAll ==
    ASSUME Merging(Given, written, <<>>), NEW r \in ToSet(written)
    PROVE  Stands(Given, r, At(Given, r))
<1>1. PICK i \in DOMAIN written : r = written[i]
  BY DEF ToSet
<1>2. PICK X : Stands(Given, r, X) /\ At(Given, r) \subseteq X \cup ToSet(<<>>)
  BY <1>1 DEF Merging, Making
<1>3. ToSet(<<>>) = {}
  BY DEF ToSet
<1>4. X = At(Given, r)
  BY <1>2, <1>3 DEF Stands
<1> QED BY <1>2, <1>4

\* Which expansion is the platform's own: that without a platform.
LEMMA OwnKey ==
    ASSUME FilesTyped(files), NEW i \in DOMAIN files, NEW j \in DOMAIN files, NEW y \in RecordsOf(j, "source"),
           NEW k, <<k, Platforms[i]>> \in DOMAIN Owned(y, j).expansions
    PROVE  /\ i = j /\ <<k, NoPlatform>> \in DOMAIN y.expansions
           /\ Owned(y, j).expansions[<<k, Platforms[i]>>] = y.expansions[<<k, NoPlatform>>]
<1> DEFINE e == y.expansions
           p == Platforms[j]
           q == Platforms[i]
           keys == {x[1] : x \in {z \in DOMAIN e : z[2] = NoPlatform}}
           f == OwnExpansions(e, p)
<1>1. SourceTyped(y) /\ Owned(y, j).expansions = f
  BY FileLines, OwnedFields DEF SourceTyped
<1>2. /\ DOMAIN f = {x \in DOMAIN e : x[2] # NoPlatform} \cup {<<x, p>> : x \in keys}
      /\ \A x \in DOMAIN f : f[x] = IF x[2] = p /\ x[1] \in keys THEN e[<<x[1], NoPlatform>>] ELSE e[x]
  BY DEF OwnExpansions
<1>3. i \in DOMAIN Platforms /\ j \in DOMAIN Platforms /\ q \in ToSet(Platforms)
  <2>1. Platforms \in Seq(STRING \ {NoPlatform})
    BY PlatformsAssumption
  <2>2. Len(Platforms) \in Nat /\ DOMAIN Platforms = 1 .. Len(Platforms)
    BY <2>1, LenProperties
  <2>3. i \in DOMAIN Platforms /\ j \in DOMAIN Platforms
    BY <2>2, FileLines
  <2> QED BY <2>3 DEF ToSet
<1>4. <<k, q>> \in DOMAIN f
  BY <1>1
<1> HIDE DEF f, e
<1>5. <<k, q>> \notin DOMAIN e
  <2>1. \A x \in DOMAIN e : x[2] \notin ToSet(Platforms)
    BY <1>1 DEF SourceTyped, e
  <2>2. <<k, q>>[2] = q
    OBVIOUS
  <2> HIDE DEF q
  <2> QED BY <1>3, <2>1, <2>2
<1>6. PICK x \in keys : <<k, q>> = <<x, p>>
  BY <1>2, <1>4, <1>5
<1>7. k = x /\ q = p
  BY <1>6
<1>8. i = j
  BY <1>3, <1>7, PlatformsAssumption
<1>9. <<k, NoPlatform>> \in DOMAIN e
  <2>1. PICK z \in DOMAIN e : z[2] = NoPlatform /\ z[1] = x
    BY <1>6
  <2>2. z = <<z[1], z[2]>>
    BY <1>1, <2>1 DEF SourceTyped, e
  <2> QED BY <1>7, <2>1, <2>2
<1>10. f[<<k, q>>] = e[<<k, NoPlatform>>]
  <2>1. <<k, q>>[2] = p /\ <<k, q>>[1] = k /\ k \in keys
    BY <1>6, <1>7
  <2> HIDE DEF keys, p, q
  <2> QED BY <1>2, <1>4, <2>1
<1> QED BY <1>1, <1>8, <1>9, <1>10 DEF e

LEMMA Kept == MergeInv => SourcesKept
<1> SUFFICES ASSUME MergeInv, IsMerged PROVE SourcesKept
  BY DEF SourcesKept
<1>1. FilesTyped(files) /\ Merging(Given, written, <<>>)
  BY DEF MergeInv, IsMerged
<1>2. ASSUME NEW r \in ToSet(written) PROVE \E x \in AllOf("source") : x.loc = r.loc /\ x.pretty = r.pretty
  <2>1. Stands(Given, r, At(Given, r))
    BY <1>1, StandsForAll
  <2>2. PICK y : y \in At(Given, r)
    BY <2>1 DEF Stands
  <2>3. PICK x : x \in OwnOf(r)
    BY <1>1, <2>2, FromFiles
  <2> QED BY <2>3 DEF OwnOf, SamePlaceAndName
<1>3. ASSUME NEW x \in AllOf("source") PROVE \E r \in ToSet(written) : x.loc = r.loc /\ x.pretty = r.pretty
  <2>1. x \in OwnOf(x)
    BY DEF OwnOf, SamePlaceAndName
  <2>2. PICK y : y \in At(Given, x)
    BY <1>1, <2>1, FromFiles
  <2>3. y \in Given /\ SamePlaceAndName(y, x)
    BY <2>2 DEF At
  <2>4. PICK i \in DOMAIN written : SamePlaceAndName(written[i], y)
    BY <1>1, <2>3 DEF Merging, ToSet
  <2>5. written[i] \in ToSet(written)
    BY DEF ToSet
  <2> QED BY <2>3, <2>4, <2>5 DEF SamePlaceAndName
<1>4. {<<r.loc, r.pretty>> : r \in ToSet(written)} = {<<r.loc, r.pretty>> : r \in AllOf("source")}
  BY <1>2, <1>3
<1>5. ASSUME NEW i \in DOMAIN written, NEW j \in DOMAIN written, SamePlaceAndName(written[i], written[j])
      PROVE  i = j
  <2>1. written \in Seq(ToSet(written))
    BY <1>1 DEF Merging, IsList
  <2>2. i \in Nat /\ j \in Nat
    BY <2>1, LenProperties
  <2>3. ~(i < j) /\ ~(j < i)
    BY <1>1, <1>5 DEF Merging, Before, SamePlaceAndName
  <2> QED BY <2>2, <2>3
<1>6. ASSUME NEW r \in ToSet(written)
      PROVE  LET own == {x \in AllOf("source") : SamePlaceAndName(x, r)}
             IN  /\ ToSet(r.syms) = UNION {ToSet(x.syms) : x \in own}
                 /\ SureOf(r) = UNION {SureOf(x) : x \in own}
                 /\ r.noCrossref <=> \A x \in own : x.noCrossref
                 /\ \A i \in DOMAIN files : \A x \in own \cap RecordsOf(i, "source") :
                       x.kind = "ExpandsTo" =>
                          \A k \in DOMAIN x.expansions :
                             k[2] = NoPlatform => \E y \in own \cap RecordsOf(i, "source") :
                                k \in DOMAIN y.expansions /\ r.expansions[<<k[1], Platforms[i]>>] = y.expansions[k]
  <2> DEFINE own == OwnOf(r)
             X == At(Given, r)
  <2>1. Stands(Given, r, X)
    BY <1>1, StandsForAll
  <2>2. \A y \in X : \E i \in DOMAIN files : \E x \in RecordsOf(i, "source") : x \in own /\ y = Owned(x, i)
    BY <1>1, FromFiles
  <2>3. \A x \in own : \E i \in DOMAIN files : x \in RecordsOf(i, "source") /\ Owned(x, i) \in X
    BY <1>1, FromFiles
  <2>4. \A i \in DOMAIN files : \A x \in RecordsOf(i, "source") : x \in own => Owned(x, i) \in X
    <3>1. \A x \in own : SamePlaceAndName(x, r)
      BY DEF OwnOf
    <3> QED BY <1>1, <3>1, FromFiles
  <2>5. \A i \in DOMAIN files : \A x \in RecordsOf(i, "source") :
           /\ Owned(x, i).noCrossref = x.noCrossref /\ Owned(x, i).kind = x.kind
           /\ Owned(x, i).syms = x.syms /\ SureOf(Owned(x, i)) = SureOf(x)
           /\ Owned(x, i).expansions = OwnExpansions(x.expansions, Platforms[i])
    BY <1>1, FileLines, OwnedFields DEF SourceTyped
  <2> HIDE DEF own, X
  <2>6. ToSet(r.syms) = UNION {ToSet(x.syms) : x \in own}
    <3>1. ToSet(r.syms) = UNION {ToSet(y.syms) : y \in X}
      BY <2>1 DEF Stands, SymsOf
    <3>2. \A y \in X : \E x \in own : y.syms = x.syms
      BY <2>2, <2>5
    <3>3. \A x \in own : \E y \in X : y.syms = x.syms
      BY <2>3, <2>5
    <3> QED BY <3>1, <3>2, <3>3
  <2>7. SureOf(r) = UNION {SureOf(x) : x \in own}
    <3>1. SureOf(r) = UNION {SureOf(y) : y \in X}
      BY <2>1 DEF Stands, SureIn
    <3>2. \A y \in X : \E x \in own : SureOf(y) = SureOf(x)
      BY <2>2, <2>5
    <3>3. \A x \in own : \E y \in X : SureOf(y) = SureOf(x)
      BY <2>3, <2>5
    <3> QED BY <3>1, <3>2, <3>3
  <2>8. r.noCrossref <=> \A x \in own : x.noCrossref
    <3>1. r.noCrossref <=> \A y \in X : y.noCrossref
      BY <2>1 DEF Stands
    <3>2. \A y \in X : \E x \in own : y.noCrossref = x.noCrossref
      BY <2>2, <2>5
    <3>3. \A x \in own : \E y \in X : y.noCrossref = x.noCrossref
      BY <2>3, <2>5
    <3> QED BY <3>1, <3>2, <3>3
  <2>9. ASSUME NEW i \in DOMAIN files, NEW x \in own \cap RecordsOf(i, "source"), x.kind = "ExpandsTo",
               NEW k \in DOMAIN x.expansions, k[2] = NoPlatform
        PROVE  \E y \in own \cap RecordsOf(i, "source") :
                  k \in DOMAIN y.expansions /\ r.expansions[<<k[1], Platforms[i]>>] = y.expansions[k]
    <3> DEFINE key == <<k[1], Platforms[i]>>
               o == Owned(x, i)
    <3>1. o \in X /\ o.kind = "ExpandsTo" /\ o.expansions = OwnExpansions(x.expansions, Platforms[i])
      BY <2>4, <2>5, <2>9
    <3>2. key \in DOMAIN o.expansions
      BY <2>9, <3>1 DEF OwnExpansions
    <3> HIDE DEF o, key
    <3>3. r.kind = "ExpandsTo"
      BY <2>1, <3>1, Kinds DEF Stands
    <3>4. r.kind # "InExpansionAt"
      BY <3>3
    <3>5. key \in DOMAIN r.expansions
      BY <2>1, <3>1, <3>2 DEF Stands
    <3>6. PICK z \in X : key \in DOMAIN z.expansions /\ r.expansions[key] = z.expansions[key]
      BY <2>1, <3>4, <3>5 DEF Stands
    <3>7. PICK j \in DOMAIN files : \E y \in RecordsOf(j, "source") : y \in own /\ z = Owned(y, j)
      BY <2>2
    <3>8. PICK y \in RecordsOf(j, "source") : y \in own /\ z = Owned(y, j)
      BY <3>7
    <3>9. /\ i = j /\ <<k[1], NoPlatform>> \in DOMAIN y.expansions
          /\ z.expansions[key] = y.expansions[<<k[1], NoPlatform>>]
      BY <1>1, <3>6, <3>8, OwnKey DEF key
    <3>10. k = <<k[1], NoPlatform>>
      <4>1. SourceTyped(x)
        BY <1>1, <2>9, FileLines
      <4> QED BY <2>9, <4>1 DEF SourceTyped
    <3>11. y \in own \cap RecordsOf(i, "source") /\ k \in DOMAIN y.expansions /\ r.expansions[key] = y.expansions[k]
      BY <3>6, <3>8, <3>9, <3>10
    <3> QED BY <3>11 DEF key
  <2> QED BY <2>6, <2>7, <2>8, <2>9 DEF own, OwnOf
<1> QED BY <1>4, <1>5, <1>6 DEF SourcesKept

\* Whatever the platforms' files hold, what merge-analyses writes has one
\* record for each place and name of a source record, with every symbol that
\* some platform gave it, sure if some platform was; and what a macro expands
\* to on a platform is what that platform's file says.
THEOREM MergeKeepsSources == MergeSpec => []SourcesKept
<1>1. MergeInit(files) => MergeInv
  BY MergeInvInit
<1>2. MergeInv /\ [MergeNext]_mergeVars => MergeInv'
  BY MergeInvStep
<1>3. MergeInv => SourcesKept
  BY Kept
<1> QED BY <1>1, <1>2, <1>3, PTL DEF MergeSpec
-----------------------------------------------------------------------------
(* Expanding symbols: types *)

Labels == {"Queried", "SuperclassOf", "SubclassOf", "CousinClassOf", "OverriddenBy",
           "OverrideOf", "CousinOverrideOf"}

LimitNames == {"Overrides", "Subclasses"}

Entries == [sym : Known, label : Labels, root : Known, dist : Nat]

RuleSet == [field : {"overridenBy", "overrides", "subclasses", "supers"}, label : Labels,
            limit : LimitNames \cup {"none"}]

Progress == [work : Seq(Entries), met : SUBSET Known, tally : [LimitNames -> Nat],
             overloads : SUBSET LimitNames]

LEMMA Listings ==
    ASSUME MetaTyped, NEW field, NEW s \in Known
    PROVE  Listed(field, s) \in Seq(Known) /\ ToSet(Listed(field, s)) \subseteq Known
<1>1. Listed(field, s) \in Seq(Known)
  BY EmptySeq DEF MetaTyped, Listed
<1> QED BY <1>1, SetOf

LEMMA PushTyped ==
    ASSUME NEW v \in Entries, NEW rule \in RuleSet, NEW g \in Progress, NEW s \in Known
    PROVE  Push(v, rule, g, s) \in Progress
<1>1. Entry(v, rule, s) \in Entries
  BY DEF Entry, Entries, RuleSet
<1>2. CASE s \in g.met
  BY <1>2 DEF Push
<1>3. CASE s \notin g.met
  <2>1. Append(g.work, Entry(v, rule, s)) \in Seq(Entries)
    BY <1>1, AppendProperties DEF Progress
  <2>2. g.met \cup {s} \in SUBSET Known
    BY DEF Progress
  <2>3. Push(v, rule, g, s) = [g EXCEPT !.met = @ \cup {s}, !.work = Append(@, Entry(v, rule, s))]
    BY <1>3 DEF Push
  <2> QED BY <2>1, <2>2, <2>3 DEF Progress
<1> QED BY <1>2, <1>3

\* PushAll pushes one symbol after the other.
LEMMA PushAllFolds ==
    ASSUME MetaTyped, NEW v \in Entries, NEW rule \in RuleSet, NEW start \in Progress, NEW seq \in Seq(Known)
    PROVE  \E f : /\ f[0] = start
                  /\ \A k \in 1 .. Len(seq) : f[k] = Push(v, rule, f[k - 1], seq[k])
                  /\ PushAll(v, rule, start, seq) = f[Len(seq)]
<1> DEFINE n == Len(seq)
           A == Progress
           B == Known
           G == [p \in A \X B |-> Push(v, rule, p[1], p[2])]
           E(x) == [s \in SUBSET (1 .. n) |->
                      IF s = {} THEN start ELSE Push(v, rule, x[s \ {Max(s)}], seq[Max(s)])]
           g == CHOOSE x : x = E(x)
           f == [k \in 0 .. n |-> g[1 .. k]]
<1>1. n \in Nat /\ DOMAIN seq = 1 .. n /\ seq \in [1 .. n -> B]
  BY LenProperties
<1>2. start \in A
  OBVIOUS
<1>3. \A x \in A, y \in B : Push(v, rule, x, y) \in A
  BY PushTyped
<1> HIDE DEF A, B, n
<1>4. G \in [A \X B -> A]
  <2>1. \A p \in A \X B : p[1] \in A /\ p[2] \in B
    OBVIOUS
  <2> QED BY <1>3, <2>1
<1>5. \A x \in A, y \in B : G[<<x, y>>] = Push(v, rule, x, y)
  OBVIOUS
<1> HIDE DEF G
<1>6. PICK h : FoldMap(h, G, start, n, seq)
  BY <1>1, FoldExists
<1>7. h = E(h)
  <2> DEFINE R(s) == IF s = {} THEN start ELSE Push(v, rule, h[s \ {Max(s)}], seq[Max(s)])
             Q(s) == IF s = {} THEN start ELSE G[<<h[s \ {Max(s)}], seq[Max(s)]>>]
  <2>1. \A s \in SUBSET (1 .. n) : s # {} => seq[Max(s)] \in B /\ h[s \ {Max(s)}] \in A
    BY <1>1, <1>2, <1>4, <1>6, FoldTyped
  <2>2. \A s \in SUBSET (1 .. n) : Q(s) = R(s)
    BY <1>5, <2>1
  <2>3. h = [s \in SUBSET (1 .. n) |-> Q(s)]
    BY <1>6 DEF FoldMap
  <2>4. h = [s \in SUBSET (1 .. n) |-> R(s)]
    <3> HIDE DEF Q, R
    <3> QED BY <2>2, <2>3
  <2> QED BY <2>4
<1>8. g = E(g)
  <2> HIDE DEF E
  <2> QED BY <1>7
<1>9. PushAll(v, rule, start, seq) = g[1 .. n]
  BY <1>1 DEF PushAll, FoldLeft, MapThenFoldSet
<1> HIDE DEF g
<1>10. \A s \in SUBSET (1 .. n) : g[s] = IF s = {} THEN start ELSE Push(v, rule, g[s \ {Max(s)}], seq[Max(s)])
  BY <1>8
<1> HIDE DEF E
<1>11. f[0] = start
  <2>1. 1 .. 0 = {} /\ 0 \in 0 .. n
    BY <1>1
  <2> QED BY <1>10, <2>1
<1>12. ASSUME NEW k \in 1 .. n PROVE f[k] = Push(v, rule, f[k - 1], seq[k])
  <2>1. /\ 1 .. k \in SUBSET (1 .. n) /\ 1 .. k # {} /\ Max(1 .. k) = k
        /\ (1 .. k) \ {k} = 1 .. k - 1 /\ k \in 0 .. n /\ k - 1 \in 0 .. n
    BY <1>1, Segment
  <2>2. f[k] = g[1 .. k] /\ f[k - 1] = g[1 .. k - 1]
    BY <2>1
  <2>3. g[1 .. k] = Push(v, rule, g[(1 .. k) \ {Max(1 .. k)}], seq[Max(1 .. k)])
    BY <1>10, <2>1
  <2> HIDE DEF f
  <2> QED BY <2>1, <2>2, <2>3
<1>13. f[n] = g[1 .. n]
  BY <1>1
<1> HIDE DEF f
<1> QED BY <1>9, <1>11, <1>12, <1>13 DEF n


-----------------------------------------------------------------------------
(* What one symbol adds *)

\* The list of h is that of g, followed by entries of N for other symbols than
\* those met, each once; they have been met too.
Grown(g, h, N) ==
    /\ Len(g.work) <= Len(h.work)
    /\ \A i \in 1 .. Len(g.work) : h.work[i] = g.work[i]
    /\ \A i \in Len(g.work) + 1 .. Len(h.work) :
          h.work[i] \in N /\ h.work[i].sym \in h.met /\ h.work[i].sym \notin g.met
    /\ \A i, j \in Len(g.work) + 1 .. Len(h.work) : h.work[i].sym = h.work[j].sym => i = j
    /\ g.met \subseteq h.met
    /\ \A s \in h.met \ g.met : \E i \in Len(g.work) + 1 .. Len(h.work) : h.work[i].sym = s

SameOverloads(g, h) == g.overloads = h.overloads

LEMMA GrownAtFirst ==
    ASSUME NEW g \in Progress, NEW N
    PROVE  Grown(g, g, N)
<1>1. Len(g.work) \in Nat
  BY LenProperties DEF Progress
<1> QED BY <1>1 DEF Grown

LEMMA PushGrows ==
    ASSUME NEW N, NEW g \in Progress, NEW h \in Progress, Grown(g, h, N),
           NEW v \in Entries, NEW rule \in RuleSet, NEW s \in Known, Entry(v, rule, s) \in N
    PROVE  /\ Grown(g, Push(v, rule, h, s), N)
           /\ h.met \subseteq Push(v, rule, h, s).met /\ s \in Push(v, rule, h, s).met
           /\ SameOverloads(Push(v, rule, h, s), h)
<1>1. CASE s \in h.met
  BY <1>1 DEF Push, SameOverloads
<1>2. CASE s \notin h.met
  <2> DEFINE p == Push(v, rule, h, s)
             e == Entry(v, rule, s)
             n == Len(h.work)
             m == Len(g.work)
  <2>1. p = [h EXCEPT !.met = @ \cup {s}, !.work = Append(@, e)]
    BY <1>2 DEF Push
  <2>2. p.met = h.met \cup {s} /\ p.work = Append(h.work, e) /\ p.overloads = h.overloads
    BY <2>1 DEF Progress
  <2>3. n \in Nat /\ m \in Nat /\ m <= n
    BY LenProperties DEF Progress, Grown
  <2>4. e \in Entries /\ h.work \in Seq(Entries)
    BY DEF Entry, Entries, RuleSet, Progress
  <2>5. e.sym = s
    BY DEF Entry
  <2>6. /\ Len(p.work) = n + 1
        /\ \A i \in 1 .. n : p.work[i] = h.work[i]
        /\ p.work[n + 1] = e
    BY <2>2, <2>4, AppendProperties
  <2>7. \A i \in m + 1 .. n + 1 : i \in m + 1 .. n \/ i = n + 1
    BY <2>3
  <2>8. \A i \in m + 1 .. n : i \in 1 .. n /\ i \in m + 1 .. n + 1
    BY <2>3
  <2>9. n + 1 \in m + 1 .. n + 1 /\ \A i \in 1 .. m : i \in 1 .. n
    BY <2>3
  <2> HIDE DEF p, e
  <2>10. s \notin g.met
    BY <1>2 DEF Grown
  <2>11. \A i \in m + 1 .. n : p.work[i] \in N /\ p.work[i].sym \in h.met /\ p.work[i].sym \notin g.met
    BY <2>6, <2>8 DEF Grown
  <2>12. \A i \in m + 1 .. n + 1 : p.work[i] \in N /\ p.work[i].sym \in p.met /\ p.work[i].sym \notin g.met
    BY <2>2, <2>5, <2>6, <2>7, <2>10, <2>11 DEF e
  <2>13. \A i, j \in m + 1 .. n : p.work[i].sym = p.work[j].sym => i = j
    BY <2>6, <2>8 DEF Grown
  <2>14. \A i, j \in m + 1 .. n + 1 : p.work[i].sym = p.work[j].sym => i = j
    BY <1>2, <2>5, <2>6, <2>7, <2>11, <2>13
  <2>15. \A x \in p.met \ g.met : \E i \in m + 1 .. n + 1 : p.work[i].sym = x
    <3> SUFFICES ASSUME NEW x \in p.met \ g.met PROVE \E i \in m + 1 .. n + 1 : p.work[i].sym = x
      OBVIOUS
    <3>1. CASE x = s
      BY <2>5, <2>6, <2>9, <3>1
    <3>2. CASE x \in h.met
      <4>1. PICK i \in m + 1 .. n : h.work[i].sym = x
        BY <3>2 DEF Grown
      <4> QED BY <2>6, <2>8, <4>1
    <3> QED BY <2>2, <3>1, <3>2
  <2>16. /\ \A i \in 1 .. m : p.work[i] = g.work[i]
         /\ m <= n + 1 /\ g.met \subseteq p.met /\ h.met \cup {s} \subseteq p.met
    BY <2>2, <2>3, <2>6, <2>9 DEF Grown
  <2>17. Grown(g, p, N)
    BY <2>6, <2>12, <2>14, <2>15, <2>16 DEF Grown
  <2> QED BY <2>2, <2>16, <2>17 DEF p, SameOverloads
<1> QED BY <1>1, <1>2

\* What a rule finds is in N.
Allowed(v, rule, found, N) == \A s \in ToSet(found) : Entry(v, rule, s) \in N

LEMMA PushAllGrows ==
    ASSUME MetaTyped, NEW N, NEW g \in Progress, NEW h \in Progress, Grown(g, h, N),
           NEW v \in Entries, NEW rule \in RuleSet, NEW found \in Seq(Known),
           Allowed(v, rule, found, N)
    PROVE  /\ PushAll(v, rule, h, found) \in Progress
           /\ Grown(g, PushAll(v, rule, h, found), N)
           /\ h.met \subseteq PushAll(v, rule, h, found).met
           /\ ToSet(found) \subseteq PushAll(v, rule, h, found).met
           /\ SameOverloads(PushAll(v, rule, h, found), h)
<1> DEFINE n == Len(found)
<1>1. PICK f : /\ f[0] = h
               /\ \A k \in 1 .. n : f[k] = Push(v, rule, f[k - 1], found[k])
               /\ PushAll(v, rule, h, found) = f[n]
  BY PushAllFolds
<1>2. n \in Nat /\ ToSet(found) = {found[i] : i \in 1 .. n} /\ \A i \in 1 .. n : found[i] \in Known
  BY SetOf, LenProperties
<1> HIDE DEF n
<1> DEFINE Fine(k) == /\ f[k] \in Progress
                      /\ Grown(g, f[k], N)
                      /\ h.met \subseteq f[k].met
                      /\ \A i \in 1 .. k : found[i] \in f[k].met
                      /\ SameOverloads(f[k], h)
           T == {k \in 0 .. n : Fine(k)}
<1>3. 0 \in T
  BY <1>1, <1>2 DEF SameOverloads
<1>4. ASSUME NEW k \in T, k < n PROVE k + 1 \in T
  <2>1. k \in 0 .. n /\ Fine(k) /\ k + 1 \in 1 .. n /\ k + 1 \in 0 .. n /\ (k + 1) - 1 = k
    BY <1>2, <1>4
  <2>2. found[k + 1] \in Known /\ Entry(v, rule, found[k + 1]) \in N
    BY <1>2, <2>1 DEF Allowed
  <2>3. f[k + 1] = Push(v, rule, f[k], found[k + 1])
    BY <1>1, <2>1
  <2>4. f[k + 1] \in Progress
    BY <2>1, <2>2, <2>3, PushTyped
  <2>5. /\ Grown(g, f[k + 1], N)
        /\ f[k].met \cup {found[k + 1]} \subseteq f[k + 1].met
        /\ SameOverloads(f[k + 1], f[k])
    <3> DEFINE x == f[k]
               s == found[k + 1]
    <3>1. x \in Progress /\ Grown(g, x, N) /\ s \in Known /\ Entry(v, rule, s) \in N
      BY <2>1, <2>2
    <3> HIDE DEF x, s
    <3>2. /\ Grown(g, Push(v, rule, x, s), N)
          /\ x.met \subseteq Push(v, rule, x, s).met /\ s \in Push(v, rule, x, s).met
          /\ SameOverloads(Push(v, rule, x, s), x)
      BY Zenon, <3>1, PushGrows
    <3> QED BY <2>3, <3>2 DEF x, s
  <2>6. \A i \in 1 .. k + 1 : i \in 1 .. k \/ i = k + 1
    BY <2>1
  <2>7. \A i \in 1 .. k + 1 : found[i] \in f[k + 1].met
    BY <2>1, <2>5, <2>6
  <2>8. Fine(k + 1)
    BY <2>1, <2>4, <2>5, <2>7 DEF SameOverloads
  <2> QED BY <2>1, <2>8
<1>5. T = 0 .. n
  <2>1. T \in SUBSET (0 .. n)
    OBVIOUS
  <2> HIDE DEF T
  <2> QED BY <1>2, <1>3, <1>4, <2>1, UpTo
<1>6. Fine(n)
  BY <1>2, <1>5
<1> QED BY <1>1, <1>2, <1>6

LEMMA CountedTyped ==
    ASSUME NEW g \in Progress, NEW rule \in RuleSet, NEW n \in Nat
    PROVE  /\ Counted(g, rule, n) \in Progress
           /\ Counted(g, rule, n).work = g.work /\ Counted(g, rule, n).met = g.met
           /\ Counted(g, rule, n).overloads = g.overloads
<1>1. CASE rule.limit = "none"
  BY <1>1 DEF Counted
<1>2. CASE rule.limit # "none"
  <2> DEFINE t == [g.tally EXCEPT ![rule.limit] = @ + n]
  <2>1. rule.limit \in LimitNames /\ g.tally \in [LimitNames -> Nat]
    BY <1>2 DEF RuleSet, Progress
  <2>2. t \in [LimitNames -> Nat]
    BY <2>1
  <2> HIDE DEF t
  <2>3. Counted(g, rule, n) = [g EXCEPT !.tally = t]
    BY <1>2 DEF Counted, t
  <2> QED BY <2>2, <2>3 DEF Progress
<1> QED BY <1>1, <1>2

LEMMA ApplyRuleGrows ==
    ASSUME MetaTyped, NEW N, NEW g \in Progress, NEW h \in Progress, Grown(g, h, N),
           NEW v \in Entries, NEW rule \in RuleSet,
           Allowed(v, rule, Listed(rule.field, v.sym), N)
    PROVE  /\ ApplyRule(v, h, rule) \in Progress
           /\ Grown(g, ApplyRule(v, h, rule), N)
           /\ h.met \subseteq ApplyRule(v, h, rule).met
           /\ h.overloads \subseteq ApplyRule(v, h, rule).overloads
           /\ \/ ApplyRule(v, h, rule).overloads # {}
              \/ ToSet(Listed(rule.field, v.sym)) \subseteq ApplyRule(v, h, rule).met
<1> DEFINE found == Listed(rule.field, v.sym)
           c == Counted(h, rule, Len(found))
<1>1. found \in Seq(Known) /\ Len(found) \in Nat
  <2>1. v.sym \in Known
    BY DEF Entries
  <2> QED BY <2>1, Listings, LenProperties
<1>2. CASE TooMany(rule, Len(found), h.tally)
  <2>1. ApplyRule(v, h, rule) = [h EXCEPT !.overloads = @ \cup {rule.limit}]
    BY <1>2 DEF ApplyRule
  <2>2. rule.limit \in LimitNames
    BY <1>2 DEF TooMany, RuleSet
  <2>3. /\ ApplyRule(v, h, rule) \in Progress
        /\ ApplyRule(v, h, rule).work = h.work /\ ApplyRule(v, h, rule).met = h.met
        /\ ApplyRule(v, h, rule).overloads = h.overloads \cup {rule.limit}
    BY <2>1, <2>2 DEF Progress
  <2> QED BY <2>3 DEF Grown
<1>3. CASE ~TooMany(rule, Len(found), h.tally)
  <2>1. ApplyRule(v, h, rule) = PushAll(v, rule, c, found)
    BY <1>3 DEF ApplyRule
  <2>2. c \in Progress /\ c.work = h.work /\ c.met = h.met /\ c.overloads = h.overloads
    BY <1>1, CountedTyped
  <2> HIDE DEF c
  <2>3. Grown(g, c, N)
    BY <2>2 DEF Grown
  <2> HIDE DEF found
  <2>4. /\ PushAll(v, rule, c, found) \in Progress
        /\ Grown(g, PushAll(v, rule, c, found), N)
        /\ c.met \subseteq PushAll(v, rule, c, found).met
        /\ ToSet(found) \subseteq PushAll(v, rule, c, found).met
        /\ SameOverloads(PushAll(v, rule, c, found), c)
    <3>1. Allowed(v, rule, found, N)
      BY DEF found
    <3> QED BY Zenon, <1>1, <2>2, <2>3, <3>1, PushAllGrows
  <2> QED BY <2>1, <2>2, <2>4 DEF found, SameOverloads
<1> QED BY <1>2, <1>3

LEMMA ApplyRuleTyped ==
    ASSUME MetaTyped, NEW v \in Entries, NEW rule \in RuleSet, NEW g \in Progress
    PROVE  ApplyRule(v, g, rule) \in Progress
<1>1. Grown(g, g, Entries)
  BY GrownAtFirst
<1>2. Allowed(v, rule, Listed(rule.field, v.sym), Entries)
  <2>1. \A s \in Known : Entry(v, rule, s) \in Entries
    BY DEF Entry, Entries, RuleSet
  <2>2. v.sym \in Known
    BY DEF Entries
  <2> QED BY <2>1, <2>2, Listings DEF Allowed
<1> QED BY Zenon, <1>1, <1>2, ApplyRuleGrows

\* ApplyRules applies one rule after the other.
LEMMA ApplyRulesFolds ==
    ASSUME MetaTyped, NEW v \in Entries, NEW start \in Progress, NEW seq \in Seq(RuleSet)
    PROVE  \E f : /\ f[0] = start
                  /\ \A k \in 1 .. Len(seq) : f[k] = ApplyRule(v, f[k - 1], seq[k])
                  /\ ApplyRules(v, start, seq) = f[Len(seq)]
<1> DEFINE n == Len(seq)
           A == Progress
           B == RuleSet
           G == [p \in A \X B |-> ApplyRule(v, p[1], p[2])]
           E(x) == [s \in SUBSET (1 .. n) |->
                      IF s = {} THEN start ELSE ApplyRule(v, x[s \ {Max(s)}], seq[Max(s)])]
           g == CHOOSE x : x = E(x)
           f == [k \in 0 .. n |-> g[1 .. k]]
<1>1. n \in Nat /\ DOMAIN seq = 1 .. n /\ seq \in [1 .. n -> B]
  BY LenProperties
<1>2. start \in A
  OBVIOUS
<1>3. \A x \in A, y \in B : ApplyRule(v, x, y) \in A
  BY ApplyRuleTyped
<1> HIDE DEF A, B, n
<1>4. G \in [A \X B -> A]
  <2>1. \A p \in A \X B : p[1] \in A /\ p[2] \in B
    OBVIOUS
  <2> QED BY <1>3, <2>1
<1>5. \A x \in A, y \in B : G[<<x, y>>] = ApplyRule(v, x, y)
  OBVIOUS
<1> HIDE DEF G
<1>6. PICK h : FoldMap(h, G, start, n, seq)
  BY <1>1, FoldExists
<1>7. h = E(h)
  <2> DEFINE R(s) == IF s = {} THEN start ELSE ApplyRule(v, h[s \ {Max(s)}], seq[Max(s)])
             Q(s) == IF s = {} THEN start ELSE G[<<h[s \ {Max(s)}], seq[Max(s)]>>]
  <2>1. \A s \in SUBSET (1 .. n) : s # {} => seq[Max(s)] \in B /\ h[s \ {Max(s)}] \in A
    BY <1>1, <1>2, <1>4, <1>6, FoldTyped
  <2>2. \A s \in SUBSET (1 .. n) : Q(s) = R(s)
    BY <1>5, <2>1
  <2>3. h = [s \in SUBSET (1 .. n) |-> Q(s)]
    BY <1>6 DEF FoldMap
  <2>4. h = [s \in SUBSET (1 .. n) |-> R(s)]
    <3> HIDE DEF Q, R
    <3> QED BY <2>2, <2>3
  <2> QED BY <2>4
<1>8. g = E(g)
  <2> HIDE DEF E
  <2> QED BY <1>7
<1>9. ApplyRules(v, start, seq) = g[1 .. n]
  BY <1>1 DEF ApplyRules, FoldLeft, MapThenFoldSet
<1> HIDE DEF g
<1>10. \A s \in SUBSET (1 .. n) : g[s] = IF s = {} THEN start ELSE ApplyRule(v, g[s \ {Max(s)}], seq[Max(s)])
  BY <1>8
<1> HIDE DEF E
<1>11. f[0] = start
  <2>1. 1 .. 0 = {} /\ 0 \in 0 .. n
    BY <1>1
  <2> QED BY <1>10, <2>1
<1>12. ASSUME NEW k \in 1 .. n PROVE f[k] = ApplyRule(v, f[k - 1], seq[k])
  <2>1. /\ 1 .. k \in SUBSET (1 .. n) /\ 1 .. k # {} /\ Max(1 .. k) = k
        /\ (1 .. k) \ {k} = 1 .. k - 1 /\ k \in 0 .. n /\ k - 1 \in 0 .. n
    BY <1>1, Segment
  <2>2. f[k] = g[1 .. k] /\ f[k - 1] = g[1 .. k - 1]
    BY <2>1
  <2>3. g[1 .. k] = ApplyRule(v, g[(1 .. k) \ {Max(1 .. k)}], seq[Max(1 .. k)])
    BY <1>10, <2>1
  <2> HIDE DEF f
  <2> QED BY <2>1, <2>2, <2>3
<1>13. f[n] = g[1 .. n]
  BY <1>1
<1> HIDE DEF f
<1> QED BY <1>9, <1>11, <1>12, <1>13 DEF n



\* What a symbol offers under some rules.
Offers(v, rules) ==
    {e \in Entries : \E i \in DOMAIN rules : \E s \in ToSet(Listed(rules[i].field, v.sym)) :
                        e = Entry(v, rules[i], s)}

\* If no limit was met, everything that is offered has been met.
AllIn(v, rules, n, g) ==
    \/ g.overloads # {}
    \/ \A i \in 1 .. n : ToSet(Listed(rules[i].field, v.sym)) \subseteq g.met

LEMMA ApplyRulesGrows ==
    ASSUME MetaTyped, NEW g \in Progress, NEW v \in Entries, NEW rules \in Seq(RuleSet)
    PROVE  /\ ApplyRules(v, g, rules) \in Progress
           /\ Grown(g, ApplyRules(v, g, rules), Offers(v, rules))
           /\ AllIn(v, rules, Len(rules), ApplyRules(v, g, rules))
<1> DEFINE n == Len(rules)
           N == Offers(v, rules)
<1>1. PICK f : /\ f[0] = g
               /\ \A k \in 1 .. n : f[k] = ApplyRule(v, f[k - 1], rules[k])
               /\ ApplyRules(v, g, rules) = f[n]
  BY ApplyRulesFolds
<1>2. n \in Nat /\ DOMAIN rules = 1 .. n /\ \A i \in 1 .. n : rules[i] \in RuleSet
  BY LenProperties
<1>3. \A i \in 1 .. n : Allowed(v, rules[i], Listed(rules[i].field, v.sym), N)
  <2> SUFFICES ASSUME NEW i \in 1 .. n, NEW s \in ToSet(Listed(rules[i].field, v.sym))
               PROVE  Entry(v, rules[i], s) \in N
    BY DEF Allowed
  <2>1. v.sym \in Known
    BY DEF Entries
  <2>2. s \in Known
    BY <2>1, Listings
  <2>3. rules[i] \in RuleSet
    BY <1>2
  <2>4. Entry(v, rules[i], s) \in Entries
    BY <2>2, <2>3 DEF Entry, Entries, RuleSet
  <2> QED BY <1>2, <2>4 DEF Offers
<1> HIDE DEF n, N
<1> DEFINE Fine(k) == f[k] \in Progress /\ Grown(g, f[k], N) /\ AllIn(v, rules, k, f[k])
           T == {k \in 0 .. n : Fine(k)}
<1>4. 0 \in T
  BY <1>1, <1>2, GrownAtFirst DEF AllIn
<1>5. ASSUME NEW k \in T, k < n PROVE k + 1 \in T
  <2>1. k \in 0 .. n /\ Fine(k) /\ k + 1 \in 1 .. n /\ k + 1 \in 0 .. n /\ (k + 1) - 1 = k
    BY <1>2, <1>5
  <2>2. rules[k + 1] \in RuleSet
    BY <1>2, <2>1
  <2>3. f[k + 1] = ApplyRule(v, f[k], rules[k + 1])
    BY <1>1, <2>1
  <2>4. Allowed(v, rules[k + 1], Listed(rules[k + 1].field, v.sym), N)
    BY <1>3, <2>1
  <2>5. /\ f[k + 1] \in Progress
        /\ Grown(g, f[k + 1], N)
        /\ f[k].met \subseteq f[k + 1].met
        /\ f[k].overloads \subseteq f[k + 1].overloads
        /\ \/ f[k + 1].overloads # {}
           \/ ToSet(Listed(rules[k + 1].field, v.sym)) \subseteq f[k + 1].met
    <3> DEFINE x == f[k]
               r == rules[k + 1]
    <3>1. x \in Progress /\ Grown(g, x, N) /\ r \in RuleSet
      BY <2>1, <2>2
    <3>2. Allowed(v, r, Listed(r.field, v.sym), N)
      BY <2>4
    <3> HIDE DEF x, r
    <3>3. /\ ApplyRule(v, x, r) \in Progress
          /\ Grown(g, ApplyRule(v, x, r), N)
          /\ x.met \subseteq ApplyRule(v, x, r).met
          /\ x.overloads \subseteq ApplyRule(v, x, r).overloads
          /\ \/ ApplyRule(v, x, r).overloads # {}
             \/ ToSet(Listed(r.field, v.sym)) \subseteq ApplyRule(v, x, r).met
      BY Zenon, <3>1, <3>2, ApplyRuleGrows
    <3> QED BY <2>3, <3>3 DEF x, r
  <2>6. \A i \in 1 .. k + 1 : i \in 1 .. k \/ i = k + 1
    BY <2>1
  <2>7. AllIn(v, rules, k + 1, f[k + 1])
    BY <2>1, <2>5, <2>6 DEF AllIn
  <2>8. Fine(k + 1)
    BY <2>5, <2>7
  <2> QED BY <2>1, <2>8
<1>6. T = 0 .. n
  <2>1. T \in SUBSET (0 .. n)
    OBVIOUS
  <2> HIDE DEF T
  <2> QED BY <1>2, <1>4, <1>5, <2>1, UpTo
<1>7. Fine(n)
  BY <1>2, <1>6
<1> QED BY <1>1, <1>7 DEF n, N
-----------------------------------------------------------------------------
(* Walks *)

LEMMA BeyondTyped ==
    ASSUME NEW lists \in [Known -> Seq(Known)], NEW now \in SUBSET Known
    PROVE  Beyond(lists, now) \in SUBSET Known
<1>1. \A s \in now : ToSet(lists[s]) \subseteq Known
  BY SetOf
<1> QED BY <1>1 DEF Beyond

Indices(m) == [i \in 1 .. m |-> i]

OneByOne(lists, from, seq) == FoldLeft(LAMBDA now, i : Beyond(lists, now), from, seq)

\* A walk goes on step by step.
LEMMA WalkFolds ==
    ASSUME NEW lists \in [Known -> Seq(Known)], NEW from \in SUBSET Known, NEW seq \in Seq(Nat)
    PROVE  \E f : /\ f[0] = from
                  /\ \A k \in 1 .. Len(seq) : f[k] = Beyond(lists, f[k - 1])
                  /\ OneByOne(lists, from, seq) = f[Len(seq)]
<1> DEFINE n == Len(seq)
           A == SUBSET Known
           B == Nat
           G == [p \in A \X B |-> Beyond(lists, p[1])]
           E(x) == [s \in SUBSET (1 .. n) |->
                      IF s = {} THEN from ELSE Beyond(lists, x[s \ {Max(s)}])]
           g == CHOOSE x : x = E(x)
           f == [k \in 0 .. n |-> g[1 .. k]]
<1>1. n \in Nat /\ DOMAIN seq = 1 .. n /\ seq \in [1 .. n -> B]
  BY LenProperties
<1>2. from \in A
  OBVIOUS
<1>3. \A x \in A, y \in B : Beyond(lists, x) \in A
  BY BeyondTyped
<1> HIDE DEF A, B, n
<1>4. G \in [A \X B -> A]
  <2>1. \A p \in A \X B : p[1] \in A /\ p[2] \in B
    OBVIOUS
  <2> QED BY <1>3, <2>1
<1>5. \A x \in A, y \in B : G[<<x, y>>] = Beyond(lists, x)
  OBVIOUS
<1> HIDE DEF G
<1>6. PICK h : FoldMap(h, G, from, n, seq)
  BY <1>1, FoldExists
<1>7. h = E(h)
  <2> DEFINE R(s) == IF s = {} THEN from ELSE Beyond(lists, h[s \ {Max(s)}])
             Q(s) == IF s = {} THEN from ELSE G[<<h[s \ {Max(s)}], seq[Max(s)]>>]
  <2>1. \A s \in SUBSET (1 .. n) : s # {} => seq[Max(s)] \in B /\ h[s \ {Max(s)}] \in A
    BY <1>1, <1>2, <1>4, <1>6, FoldTyped
  <2>2. \A s \in SUBSET (1 .. n) : Q(s) = R(s)
    BY <1>5, <2>1
  <2>3. h = [s \in SUBSET (1 .. n) |-> Q(s)]
    BY <1>6 DEF FoldMap
  <2>4. h = [s \in SUBSET (1 .. n) |-> R(s)]
    <3> HIDE DEF Q, R
    <3> QED BY <2>2, <2>3
  <2> QED BY <2>4
<1>8. g = E(g)
  <2> HIDE DEF E
  <2> QED BY <1>7
<1>9. OneByOne(lists, from, seq) = g[1 .. n]
  BY <1>1 DEF OneByOne, FoldLeft, MapThenFoldSet
<1> HIDE DEF g
<1>10. \A s \in SUBSET (1 .. n) : g[s] = IF s = {} THEN from ELSE Beyond(lists, g[s \ {Max(s)}])
  BY <1>8
<1> HIDE DEF E
<1>11. f[0] = from
  <2>1. 1 .. 0 = {} /\ 0 \in 0 .. n
    BY <1>1
  <2> QED BY <1>10, <2>1
<1>12. ASSUME NEW k \in 1 .. n PROVE f[k] = Beyond(lists, f[k - 1])
  <2>1. /\ 1 .. k \in SUBSET (1 .. n) /\ 1 .. k # {} /\ Max(1 .. k) = k
        /\ (1 .. k) \ {k} = 1 .. k - 1 /\ k \in 0 .. n /\ k - 1 \in 0 .. n
    BY <1>1, Segment
  <2>2. f[k] = g[1 .. k] /\ f[k - 1] = g[1 .. k - 1]
    BY <2>1
  <2>3. g[1 .. k] = Beyond(lists, g[(1 .. k) \ {Max(1 .. k)}])
    BY <1>10, <2>1
  <2> HIDE DEF f
  <2> QED BY <2>1, <2>2, <2>3
<1>13. f[n] = g[1 .. n]
  BY <1>1
<1> HIDE DEF f
<1> QED BY <1>9, <1>11, <1>12, <1>13 DEF n



Walked(f, lists, from, n) ==
    /\ f[0] = from
    /\ \A k \in 1 .. n : f[k] = Beyond(lists, f[k - 1])
    /\ Walk(lists, from, n) = f[n]

LEMMA WalkSteps ==
    ASSUME NEW lists \in [Known -> Seq(Known)], NEW from \in SUBSET Known, NEW n \in Nat
    PROVE  \E f : Walked(f, lists, from, n)
<1> DEFINE seq == Indices(n)
<1>1. seq \in Seq(Nat) /\ Len(seq) = n
  BY DEF Indices
<1> HIDE DEF seq
<1>2. PICK f : /\ f[0] = from
               /\ \A k \in 1 .. Len(seq) : f[k] = Beyond(lists, f[k - 1])
               /\ OneByOne(lists, from, seq) = f[Len(seq)]
  BY <1>1, WalkFolds
<1>3. Walk(lists, from, n) = OneByOne(lists, from, seq)
  BY DEF Walk, OneByOne, Indices, seq
<1> QED BY <1>1, <1>2, <1>3 DEF Walked

LEMMA WalkNowhere ==
    ASSUME NEW lists \in [Known -> Seq(Known)], NEW from \in SUBSET Known
    PROVE  Walk(lists, from, 0) = from
<1>1. 0 \in Nat
  OBVIOUS
<1>2. PICK f : Walked(f, lists, from, 0)
  BY <1>1, WalkSteps
<1> QED BY <1>2 DEF Walked

LEMMA WalkOn ==
    ASSUME NEW lists \in [Known -> Seq(Known)], NEW from \in SUBSET Known, NEW n \in Nat
    PROVE  Walk(lists, from, n + 1) = Beyond(lists, Walk(lists, from, n))
<1>1. PICK f : Walked(f, lists, from, n)
  BY WalkSteps
<1>2. PICK h : Walked(h, lists, from, n + 1)
  <2>1. n + 1 \in Nat
    OBVIOUS
  <2> QED BY <2>1, WalkSteps
<1> DEFINE T == {k \in 0 .. n : f[k] = h[k]}
<1>3. 0 \in T
  BY <1>1, <1>2 DEF Walked
<1>4. ASSUME NEW k \in T, k < n PROVE k + 1 \in T
  <2>1. k + 1 \in 1 .. n /\ k + 1 \in 1 .. n + 1 /\ k + 1 \in 0 .. n /\ (k + 1) - 1 = k /\ f[k] = h[k]
    BY <1>4
  <2> QED BY <1>1, <1>2, <2>1 DEF Walked
<1>5. T = 0 .. n
  <2>1. T \in SUBSET (0 .. n)
    OBVIOUS
  <2> HIDE DEF T
  <2> QED BY <1>3, <1>4, <2>1, UpTo
<1>6. f[n] = h[n] /\ n + 1 \in 1 .. n + 1 /\ (n + 1) - 1 = n
  BY <1>5
<1> QED BY <1>1, <1>2, <1>6 DEF Walked

\* A set that contains what its members list is not left.
LEMMA WalkInside ==
    ASSUME NEW lists \in [Known -> Seq(Known)], NEW C \in SUBSET Known, NEW from \in SUBSET C,
           NEW n \in Nat, \A s \in C : ToSet(lists[s]) \subseteq C
    PROVE  Walk(lists, from, n) \subseteq C
<1> DEFINE T == {k \in 0 .. n : Walk(lists, from, k) \subseteq C}
<1>1. 0 \in T
  BY WalkNowhere
<1>2. ASSUME NEW k \in T, k < n PROVE k + 1 \in T
  <2>1. k \in Nat /\ Walk(lists, from, k) \subseteq C /\ k + 1 \in 0 .. n
    BY <1>2
  <2>2. Walk(lists, from, k + 1) = Beyond(lists, Walk(lists, from, k))
    BY <2>1, WalkOn
  <2>3. Beyond(lists, Walk(lists, from, k)) \subseteq C
    BY <2>1 DEF Beyond
  <2> QED BY <2>1, <2>2, <2>3
<1>3. T = 0 .. n
  <2>1. T \in SUBSET (0 .. n)
    OBVIOUS
  <2> HIDE DEF T
  <2> QED BY <1>1, <1>2, <2>1, UpTo
<1> QED BY <1>3

LEMMA WalkTyped ==
    ASSUME NEW lists \in [Known -> Seq(Known)], NEW from \in SUBSET Known, NEW n \in Nat
    PROVE  Walk(lists, from, n) \in SUBSET Known
<1>1. \A s \in Known : ToSet(lists[s]) \subseteq Known
  BY SetOf
<1> QED BY <1>1, WalkInside

LEMMA ListsTyped ==
    ASSUME MetaTyped, NEW field
    PROVE  /\ Lists(field) \in [Known -> Seq(Known)]
           /\ \A s \in Known : Lists(field)[s] = Listed(field, s)
BY Listings DEF Lists

\* A walk goes on to what its last symbols list.
LEMMA WalkFurther ==
    ASSUME MetaTyped, NEW field, NEW from \in SUBSET Known, NEW n \in Nat,
           NEW s \in Walk(Lists(field), from, n), NEW x \in ToSet(Listed(field, s))
    PROVE  x \in Walk(Lists(field), from, n + 1)
<1>1. Lists(field) \in [Known -> Seq(Known)]
  BY ListsTyped
<1>2. s \in Known
  BY <1>1, WalkTyped
<1>3. x \in ToSet(Lists(field)[s])
  BY <1>2, ListsTyped
<1>4. x \in Beyond(Lists(field), Walk(Lists(field), from, n))
  BY <1>3 DEF Beyond
<1> QED BY <1>1, <1>4, WalkOn
-----------------------------------------------------------------------------
(* The list of what is expanded and what is to be expanded *)

Done == [sym : Known, label : Labels, root : Known, dist : Nat, overloads : SUBSET LimitNames]

Item(done, todo, i) == IF i <= Len(done) THEN done[i] ELSE todo[i - Len(done)]

Size(done, todo) == Len(done) + Len(todo)

Alike(x, y) == x.sym = y.sym /\ x.label = y.label /\ x.root = y.root /\ x.dist = y.dist

\* The list goes on with entries of N for symbols that were not met, each once.
GoesOn(done, todo, seen, done2, todo2, seen2, N) ==
    LET n == Size(done, todo)
        n2 == Size(done2, todo2)
    IN  /\ n \in Nat /\ n2 \in Nat /\ n <= n2
        /\ \A i \in 1 .. n : Alike(Item(done2, todo2, i), Item(done, todo, i))
        /\ \A i \in n + 1 .. n2 : /\ Item(done2, todo2, i) \in N
                                  /\ Item(done2, todo2, i).sym \in seen2
                                  /\ Item(done2, todo2, i).sym \notin seen
        /\ \A i, j \in n + 1 .. n2 : Item(done2, todo2, i).sym = Item(done2, todo2, j).sym => i = j
        /\ seen \subseteq seen2
        /\ \A s \in seen2 \ seen : \E i \in n + 1 .. n2 : Item(done2, todo2, i).sym = s

LEMMA ListGoesOn ==
    ASSUME NEW done \in Seq(Done), NEW todo \in Seq(Entries), todo # <<>>, NEW seen, NEW N,
           NEW g \in Progress, g.work = Tail(todo), g.met = seen,
           NEW h \in Progress, Grown(g, h, N),
           NEW d \in Done, Alike(d, Head(todo))
    PROVE  GoesOn(done, todo, seen, Append(done, d), h.work, h.met, N)
<1> DEFINE n == Len(done)
           m == Len(todo)
           done2 == Append(done, d)
           p == Len(h.work)
<1>1. /\ n \in Nat /\ m \in Nat /\ m # 0 /\ p \in Nat
      /\ Len(g.work) = m - 1 /\ \A i \in 1 .. m - 1 : g.work[i] = todo[i + 1]
      /\ Head(todo) = todo[1]
  <2>1. n \in Nat /\ m \in Nat /\ m # 0
    BY EmptySeq, LenProperties
  <2>2. p \in Nat
    BY LenProperties DEF Progress
  <2>3. Len(Tail(todo)) = m - 1 /\ \A i \in 1 .. m - 1 : Tail(todo)[i] = todo[i + 1]
    BY HeadTailProperties
  <2>4. Head(todo) = todo[1]
    BY <2>1
  <2> QED BY <2>1, <2>2, <2>3, <2>4
<1>2. Len(done2) = n + 1 /\ done2[n + 1] = d /\ \A i \in 1 .. n : done2[i] = done[i]
  BY AppendProperties
<1>3. /\ m - 1 <= p
      /\ \A i \in 1 .. m - 1 : h.work[i] = g.work[i]
      /\ \A i \in m .. p : h.work[i] \in N /\ h.work[i].sym \in h.met /\ h.work[i].sym \notin seen
      /\ \A i, j \in m .. p : h.work[i].sym = h.work[j].sym => i = j
      /\ seen \subseteq h.met
      /\ \A s \in h.met \ seen : \E i \in m .. p : h.work[i].sym = s
  <2>1. Len(g.work) + 1 = m
    BY <1>1
  <2> QED BY <1>1, <2>1 DEF Grown
<1> HIDE DEF n, m, done2, p
<1>4. /\ Size(done, todo) = n + m /\ Size(done2, h.work) = n + 1 + p
      /\ n + m \in Nat /\ n + 1 + p \in Nat /\ n + m <= n + 1 + p
  <2>1. Size(done, todo) = n + m
    BY DEF Size, n, m
  <2>2. Size(done2, h.work) = n + 1 + p
    BY <1>2 DEF Size, p
  <2>3. n + m \in Nat /\ n + 1 + p \in Nat /\ n + m <= n + 1 + p
    BY <1>1, <1>3
  <2> QED BY <2>1, <2>2, <2>3
<1>5. ASSUME NEW i \in 1 .. n + m PROVE Alike(Item(done2, h.work, i), Item(done, todo, i))
  <2>1. CASE i <= n
    <3>1. i \in 1 .. n /\ i <= n + 1
      BY <1>1, <2>1
    <3>2. Item(done2, h.work, i) = done[i] /\ Item(done, todo, i) = done[i]
      BY <1>2, <2>1, <3>1 DEF Item, n
    <3> QED BY <3>2 DEF Alike
  <2>2. CASE i = n + 1
    <3>1. ~(i <= n) /\ i <= n + 1 /\ i - n = 1
      BY <1>1, <2>2
    <3>2. Item(done2, h.work, i) = d /\ Item(done, todo, i) = todo[1]
      BY <1>2, <2>2, <3>1 DEF Item, n
    <3> QED BY <1>1, <3>2
  <2>3. CASE i > n + 1
    <3>1. ~(i <= n) /\ ~(i <= n + 1) /\ i - (n + 1) \in 1 .. m - 1 /\ (i - (n + 1)) + 1 = i - n
      BY <1>1, <2>3
    <3>2. Item(done2, h.work, i) = h.work[i - (n + 1)] /\ Item(done, todo, i) = todo[i - n]
      BY <1>2, <3>1 DEF Item, n
    <3>3. h.work[i - (n + 1)] = todo[i - n]
      BY <1>1, <1>3, <3>1
    <3> QED BY <3>2, <3>3 DEF Alike
  <2> QED BY <1>1, <2>1, <2>2, <2>3
<1>6. ASSUME NEW i \in n + m + 1 .. n + 1 + p
      PROVE  i - (n + 1) \in m .. p /\ Item(done2, h.work, i) = h.work[i - (n + 1)]
  <2>1. ~(i <= n + 1) /\ i - (n + 1) \in m .. p
    BY <1>1, <1>3
  <2> QED BY <1>2, <2>1 DEF Item
<1>7. ASSUME NEW s \in h.met \ seen PROVE \E i \in n + m + 1 .. n + 1 + p : Item(done2, h.work, i).sym = s
  <2>1. PICK k \in m .. p : h.work[k].sym = s
    BY <1>3
  <2>2. k + n + 1 \in n + m + 1 .. n + 1 + p /\ (k + n + 1) - (n + 1) = k
    BY <1>1, <2>1
  <2> QED BY <1>6, <2>1, <2>2
<1>8. \A i \in n + m + 1 .. n + 1 + p : /\ Item(done2, h.work, i) \in N
                                        /\ Item(done2, h.work, i).sym \in h.met
                                        /\ Item(done2, h.work, i).sym \notin seen
  BY <1>3, <1>6
<1>9. ASSUME NEW i \in n + m + 1 .. n + 1 + p, NEW j \in n + m + 1 .. n + 1 + p,
             Item(done2, h.work, i).sym = Item(done2, h.work, j).sym
      PROVE  i = j
  <2>1. i - (n + 1) = j - (n + 1)
    BY <1>3, <1>6, <1>9
  <2> QED BY <1>1, <2>1
<1> QED BY <1>3, <1>4, <1>5, <1>7, <1>8, <1>9 DEF GoesOn, done2
-----------------------------------------------------------------------------
(* What a symbol may offer *)

LEMMA RulesTyped ==
    ASSUME NEW label \in Labels
    PROVE  Rules(label) \in Seq(RuleSet)
<1>1. \A f \in {"overridenBy", "overrides", "subclasses", "supers"}, l \in Labels,
         k \in LimitNames \cup {"none"} : Rule(f, l, k) \in RuleSet
  BY DEF Rule, RuleSet
<1> DEFINE two == {"OverrideOf", "CousinOverrideOf"}
<1>2. \A l \in Labels : Descendants(l) \in RuleSet
  BY <1>1 DEF Descendants, Labels, LimitNames
<1>3. CASE label = "Queried"
  <2>1. /\ Rule("overrides", "OverriddenBy", "none") \in RuleSet
        /\ Rule("supers", "SuperclassOf", "none") \in RuleSet
        /\ Descendants("OverrideOf") \in RuleSet /\ Descendants("SubclassOf") \in RuleSet
    BY <1>1, <1>2 DEF Labels
  <2> QED BY <1>3, <2>1 DEF Rules
<1>4. CASE label = "OverriddenBy"
  <2>1. /\ Rule("overrides", "OverriddenBy", "none") \in RuleSet
        /\ Descendants("CousinOverrideOf") \in RuleSet
    BY <1>1, <1>2 DEF Labels
  <2> QED BY <1>4, <2>1 DEF Rules
<1>5. CASE label = "SuperclassOf"
  <2>1. /\ Rule("supers", "SuperclassOf", "none") \in RuleSet
        /\ Descendants("CousinClassOf") \in RuleSet
    BY <1>1, <1>2 DEF Labels
  <2> QED BY <1>5, <2>1 DEF Rules
<1>6. CASE label \notin {"Queried", "OverriddenBy", "SuperclassOf"}
  BY <1>2, <1>6 DEF Rules
<1> QED BY <1>3, <1>4, <1>5, <1>6

\* How a symbol with the first label comes to one with the last.
Ways == {<<"Queried", "overrides", "OverriddenBy">>, <<"Queried", "subclasses", "SubclassOf">>,
         <<"Queried", "supers", "SuperclassOf">>, <<"OverriddenBy", "overrides", "OverriddenBy">>,
         <<"SuperclassOf", "supers", "SuperclassOf">>, <<"SuperclassOf", "subclasses", "CousinClassOf">>,
         <<"SubclassOf", "subclasses", "SubclassOf">>, <<"CousinClassOf", "subclasses", "CousinClassOf">>}

LEMMA RuleWays ==
    ASSUME NEW label \in Labels, NEW i \in DOMAIN Rules(label), Rules(label)[i].field # "overridenBy"
    PROVE  <<label, Rules(label)[i].field, Rules(label)[i].label>> \in Ways
<1>1. CASE label = "Queried"
  BY <1>1 DEF Rules, Descendants, Rule, Ways
<1>2. CASE label = "OverriddenBy"
  BY <1>2 DEF Rules, Descendants, Rule, Ways
<1>3. CASE label = "SuperclassOf"
  BY <1>3 DEF Rules, Descendants, Rule, Ways
<1>4. CASE label \in {"SubclassOf", "CousinClassOf"}
  BY <1>4 DEF Rules, Descendants, Rule, Ways
<1>5. CASE label \in {"OverrideOf", "CousinOverrideOf"}
  BY <1>5 DEF Rules, Descendants, Rule, Ways
<1> QED BY <1>1, <1>2, <1>3, <1>4, <1>5 DEF Labels

LEMMA NothingListed ==
    ASSUME MetaTyped, NEW s
    PROVE  ToSet(Listed("overridenBy", s)) = {}
BY DEF MetaTyped, Listed, ToSet

LEMMA Offered ==
    ASSUME MetaTyped, NEW v \in Entries, NEW e \in Offers(v, Rules(v.label))
    PROVE  \E f \in {"overrides", "subclasses", "supers"} :
              /\ e.sym \in ToSet(Listed(f, v.sym))
              /\ e.root = v.root /\ e.dist = v.dist + 1
              /\ <<v.label, f, e.label>> \in Ways
<1>1. PICK i \in DOMAIN Rules(v.label) : \E s \in ToSet(Listed(Rules(v.label)[i].field, v.sym)) :
                                            e = Entry(v, Rules(v.label)[i], s)
  BY DEF Offers
<1> DEFINE r == Rules(v.label)[i]
<1>2. PICK s \in ToSet(Listed(r.field, v.sym)) : e = Entry(v, r, s)
  BY <1>1
<1>3. r.field # "overridenBy"
  BY <1>2, NothingListed
<1>4. v.label \in Labels
  BY DEF Entries
<1>5. r \in RuleSet
  BY <1>4, RulesTyped
<1>6. <<v.label, r.field, r.label>> \in Ways
  BY <1>3, <1>4, RuleWays
<1>7. r.field \in {"overrides", "subclasses", "supers"}
  BY <1>3, <1>5 DEF RuleSet
<1>8. e.sym = s /\ e.label = r.label /\ e.root = v.root /\ e.dist = v.dist + 1
  BY <1>2 DEF Entry
<1> HIDE DEF r
<1> QED BY <1>2, <1>6, <1>7, <1>8

\* What a label says of how the symbol was found.
Sound(x, seen) ==
    /\ True(x)
    /\ x.label = "SuperclassOf" => x.dist >= 1
    /\ x.label \in {"SubclassOf", "CousinClassOf"} => \E q \in seen : x.sym \in ToSet(Listed("subclasses", q))
    /\ x.label = "OverriddenBy" => \E q \in Known : x.sym \in ToSet(Listed("overrides", q))

LEMMA SoundForMore ==
    ASSUME NEW x, NEW y, NEW seen, NEW seen2, seen \subseteq seen2, Alike(y, x), Sound(x, seen)
    PROVE  Sound(y, seen2)
<1>1. True(y)
  BY DEF Alike, Sound, True
<1> QED BY <1>1 DEF Alike, Sound

LEMMA OffersSound ==
    ASSUME MetaTyped, NEW seen \in SUBSET Known, NEW v \in Entries, v.sym \in seen, Sound(v, seen),
           NEW e \in Offers(v, Rules(v.label))
    PROVE  Sound(e, seen) /\ e.root = v.root
<1>1. PICK f \in {"overrides", "subclasses", "supers"} :
              /\ e.sym \in ToSet(Listed(f, v.sym))
              /\ e.root = v.root /\ e.dist = v.dist + 1
              /\ <<v.label, f, e.label>> \in Ways
  BY Offered
<1> DEFINE r == v.root
           d == v.dist
<1>2. r \in Known /\ {r} \in SUBSET Known /\ d \in Nat /\ v.sym \in Known
  BY DEF Entries
<1>3. \A field : Lists(field) \in [Known -> Seq(Known)] /\ Walk(Lists(field), {r}, 0) = {r}
  BY <1>2, ListsTyped, WalkNowhere
<1>4. True(v)
  BY DEF Sound
<1> HIDE DEF r, d
<1>5. CASE v.label = "Queried" /\ e.label = "OverriddenBy" /\ f = "overrides"
  <2>1. v.sym = r /\ d = 0
    BY <1>4, <1>5 DEF True, r, d
  <2>2. e.sym \in Walk(Lists("overrides"), {r}, 0 + 1)
    BY <1>1, <1>2, <1>3, <1>5, <2>1, WalkFurther
  <2>3. e.sym \in Walk(Lists("overrides"), {e.root}, e.dist)
    BY <1>1, <2>1, <2>2 DEF r, d
  <2> QED BY <1>1, <1>2, <1>5, <2>3 DEF Sound, True
<1>6. CASE v.label = "OverriddenBy" /\ e.label = "OverriddenBy" /\ f = "overrides"
  <2>1. v.sym \in Walk(Lists("overrides"), {r}, d)
    BY <1>4, <1>6 DEF True, r, d
  <2>2. e.sym \in Walk(Lists("overrides"), {r}, d + 1)
    BY <1>1, <1>2, <1>6, <2>1, WalkFurther
  <2>3. e.sym \in Walk(Lists("overrides"), {e.root}, e.dist)
    BY <1>1, <2>2 DEF r, d
  <2> QED BY <1>1, <1>2, <1>6, <2>3 DEF Sound, True
<1> DEFINE Up(n) == Walk(Lists("supers"), {r}, n)
           Down(n, m) == Walk(Lists("subclasses"), Up(n), m)
<1>7. \A n \in Nat : Up(n) \in SUBSET Known
  BY <1>2, <1>3, WalkTyped
<1>8. \A n \in Nat : Down(n, 0) = Up(n)
  BY <1>3, <1>7, WalkNowhere
<1>9. ASSUME NEW n \in Nat, NEW m \in Nat, v.sym \in Down(n, m), f = "subclasses"
      PROVE  e.sym \in Down(n, m + 1)
  BY <1>1, <1>7, <1>9, WalkFurther
<1>10. \A n, m : Via(r, n, m) = Down(n, m)
  BY DEF Via
<1>11. CASE f = "supers" /\ e.label = "SuperclassOf"
  <2>1. v.sym \in Up(d)
    <3>1. v.label \in {"Queried", "SuperclassOf"}
      BY <1>1, <1>11 DEF Ways
    <3>2. CASE v.label = "Queried"
      <4>1. v.sym = r /\ d = 0
        BY <1>4, <3>2 DEF True, r, d
      <4> QED BY <1>3, <4>1
    <3>3. CASE v.label = "SuperclassOf"
      <4>1. v.sym \in Via(r, d, 0)
        BY <1>4, <3>3 DEF True, r, d
      <4> QED BY <1>2, <1>8, <1>10, <4>1
    <3> QED BY <3>1, <3>2, <3>3
  <2>2. e.sym \in Up(d + 1)
    BY <1>1, <1>2, <1>11, <2>1, WalkFurther
  <2>3. e.sym \in Via(r, d + 1, 0)
    BY <1>2, <1>8, <1>10, <2>2
  <2>4. e.sym \in Via(e.root, e.dist, 0) /\ e.dist >= 1
    BY <1>1, <1>2, <2>3 DEF r, d
  <2> QED BY <1>1, <1>11, <2>4 DEF Sound, True
<1>12. CASE f = "subclasses" /\ e.label = "SubclassOf"
  <2>1. v.sym \in Down(0, d)
    <3>1. v.label \in {"Queried", "SubclassOf"}
      BY <1>1, <1>12 DEF Ways
    <3>2. CASE v.label = "Queried"
      <4>1. v.sym = r /\ d = 0
        BY <1>4, <3>2 DEF True, r, d
      <4> QED BY <1>3, <1>8, <4>1
    <3>3. CASE v.label = "SubclassOf"
      <4>1. v.sym \in Via(r, 0, d)
        BY <1>4, <3>3 DEF True, r, d
      <4> QED BY <1>10, <4>1
    <3> QED BY <3>1, <3>2, <3>3
  <2>2. e.sym \in Down(0, d + 1)
    BY <1>2, <1>9, <1>12, <2>1
  <2>3. e.sym \in Via(e.root, 0, e.dist)
    BY <1>1, <1>10, <2>2 DEF r, d
  <2> QED BY <1>1, <1>12, <2>3 DEF Sound, True
<1>13. CASE f = "subclasses" /\ e.label = "CousinClassOf"
  <2>1. PICK n \in 1 .. d, m \in Nat : n + m = d /\ v.sym \in Down(n, m)
    <3>1. v.label \in {"SuperclassOf", "CousinClassOf"}
      BY <1>1, <1>13 DEF Ways
    <3>2. CASE v.label = "SuperclassOf"
      <4>1. v.sym \in Via(r, d, 0) /\ d >= 1
        BY <1>4, <3>2 DEF True, Sound, r, d
      <4>2. d \in 1 .. d /\ 0 \in Nat /\ d + 0 = d
        BY <1>2, <4>1
      <4>3. v.sym \in Down(d, 0)
        BY <1>10, <4>1
      <4> HIDE DEF Down
      <4> QED BY <4>2, <4>3
    <3>3. CASE v.label = "CousinClassOf"
      <4>1. PICK n \in 1 .. d - 1 : v.sym \in Via(r, n, d - n)
        BY <1>4, <3>3 DEF True, r, d
      <4>2. n \in 1 .. d /\ d - n \in Nat /\ n + (d - n) = d
        BY <1>2
      <4>3. v.sym \in Down(n, d - n)
        BY <1>10, <4>1
      <4> HIDE DEF Down
      <4> QED BY <4>2, <4>3
    <3> QED BY <3>1, <3>2, <3>3
  <2>2. n \in Nat /\ n \in 1 .. (d + 1) - 1 /\ m + 1 = (d + 1) - n
    BY <1>2, <2>1
  <2>3. e.sym \in Down(n, m + 1)
    BY <1>9, <1>13, <2>1, <2>2
  <2>4. e.sym \in Via(r, n, (d + 1) - n)
    BY <1>10, <2>2, <2>3
  <2>5. \E up \in 1 .. e.dist - 1 : e.sym \in Via(e.root, up, e.dist - up)
    BY <1>1, <2>2, <2>4 DEF r, d
  <2> QED BY <1>1, <1>13, <2>5 DEF Sound, True
<1>14. \/ v.label = "Queried" /\ e.label = "OverriddenBy" /\ f = "overrides"
       \/ v.label = "OverriddenBy" /\ e.label = "OverriddenBy" /\ f = "overrides"
       \/ f = "supers" /\ e.label = "SuperclassOf"
       \/ f = "subclasses" /\ e.label = "SubclassOf"
       \/ f = "subclasses" /\ e.label = "CousinClassOf"
  BY <1>1 DEF Ways
<1>15. Sound(e, seen)
  BY <1>5, <1>6, <1>11, <1>12, <1>13, <1>14
<1> QED BY <1>1, <1>15
-----------------------------------------------------------------------------
(* The invariant *)

AllSound(done, todo, seen) == \A i \in 1 .. Size(done, todo) : Sound(Item(done, todo, i), seen)

RootsFirst(done, todo) ==
    \A i \in 1 .. Size(done, todo) : \E j \in 1 .. i :
        Item(done, todo, j).sym = Item(done, todo, i).root /\ Item(done, todo, j).label = "Queried"

OnceEach(done, todo) ==
    \A i, j \in 1 .. Size(done, todo) : Item(done, todo, i).sym = Item(done, todo, j).sym =>
        i = j \/ (Item(done, todo, i).label = "Queried" /\ Item(done, todo, j).label = "Queried")

AllListed(done, todo, seen) ==
    /\ \A i \in 1 .. Size(done, todo) : Item(done, todo, i).sym \in seen
    /\ \A s \in seen : \E i \in 1 .. Size(done, todo) : Item(done, todo, i).sym = s

Followed(x, seen) ==
    AllIn(x, Rules(x.label), Len(Rules(x.label)), [met |-> seen, overloads |-> x.overloads])

ListInv(done, todo, seen) ==
    /\ AllSound(done, todo, seen) /\ RootsFirst(done, todo) /\ OnceEach(done, todo)
    /\ AllListed(done, todo, seen)
    /\ \A i \in 1 .. Len(done) : Followed(done[i], seen)

ExpandTyped == work \in Seq(Entries) /\ met \in SUBSET Known /\ expanded \in Seq(Done)
               /\ tally \in [LimitNames -> Nat]

ExpandInv == MetaTyped /\ ExpandTyped /\ ListInv(expanded, work, met)

LEMMA SizeTyped ==
    ASSUME NEW done \in Seq(Done), NEW todo \in Seq(Entries)
    PROVE  /\ Size(done, todo) \in Nat /\ Len(done) \in Nat /\ Len(todo) \in Nat
           /\ \A i \in 1 .. Len(todo) : /\ i + Len(done) \in 1 .. Size(done, todo)
                                        /\ Item(done, todo, i + Len(done)) = todo[i]
                                        /\ todo[i] \in Entries
           /\ \A i \in 1 .. Len(done) : /\ i \in 1 .. Size(done, todo)
                                        /\ Item(done, todo, i) = done[i]
                                        /\ done[i] \in Done
<1>1. /\ Len(done) \in Nat /\ Len(todo) \in Nat
      /\ \A i \in 1 .. Len(todo) : todo[i] \in Entries
      /\ \A i \in 1 .. Len(done) : done[i] \in Done
  BY LenProperties
<1> DEFINE n == Len(done)
           m == Len(todo)
<1>2. n \in Nat /\ m \in Nat
  BY <1>1
<1> HIDE DEF n, m
<1>3. \A i \in 1 .. m : i + n \in 1 .. n + m /\ ~(i + n <= n) /\ (i + n) - n = i
  BY <1>2
<1>4. \A i \in 1 .. n : i \in 1 .. n + m /\ i <= n
  BY <1>2
<1> QED BY <1>1, <1>2, <1>3, <1>4 DEF Item, Size, n, m

LEMMA RootsStayFirst ==
    ASSUME NEW done, NEW todo, NEW seen, NEW done2, NEW todo2, NEW seen2, NEW N,
           GoesOn(done, todo, seen, done2, todo2, seen2, N), RootsFirst(done, todo),
           NEW k \in 1 .. Size(done, todo), \A e \in N : e.root = Item(done, todo, k).root
    PROVE  RootsFirst(done2, todo2)
<1> DEFINE n == Size(done, todo)
           n2 == Size(done2, todo2)
           A(i) == Item(done, todo, i)
           B(i) == Item(done2, todo2, i)
<1>1. /\ n \in Nat /\ n2 \in Nat /\ n <= n2
      /\ \A i \in 1 .. n : Alike(B(i), A(i))
      /\ \A i \in n + 1 .. n2 : B(i) \in N
  BY DEF GoesOn
<1>2. \A i \in 1 .. n : \E j \in 1 .. i : A(j).sym = A(i).root /\ A(j).label = "Queried"
  BY DEF RootsFirst
<1>3. \A e \in N : e.root = A(k).root
  OBVIOUS
<1>4. k \in 1 .. n
  OBVIOUS
<1> HIDE DEF n, n2, A, B
<1>5. ASSUME NEW i \in 1 .. n2 PROVE \E j \in 1 .. i : B(j).sym = B(i).root /\ B(j).label = "Queried"
  <2>1. CASE i \in 1 .. n
    <3>1. PICK j \in 1 .. i : A(j).sym = A(i).root /\ A(j).label = "Queried"
      BY <1>2, <2>1
    <3>2. j \in 1 .. n
      BY <1>1, <2>1
    <3> QED BY <1>1, <2>1, <3>1, <3>2 DEF Alike
  <2>2. CASE i \in n + 1 .. n2
    <3>1. PICK j \in 1 .. k : A(j).sym = A(k).root /\ A(j).label = "Queried"
      BY <1>2, <1>4
    <3>2. j \in 1 .. n /\ j \in 1 .. i
      BY <1>1, <1>4, <2>2
    <3>3. B(i).root = A(k).root
      BY <1>1, <1>3, <2>2
    <3> QED BY <1>1, <3>1, <3>2, <3>3 DEF Alike
  <2> QED BY <1>1, <2>1, <2>2
<1> QED BY <1>5 DEF RootsFirst, n2, B

LEMMA StillOnceEach ==
    ASSUME NEW done, NEW todo, NEW seen, NEW done2, NEW todo2, NEW seen2, NEW N,
           GoesOn(done, todo, seen, done2, todo2, seen2, N), OnceEach(done, todo),
           AllListed(done, todo, seen)
    PROVE  OnceEach(done2, todo2) /\ AllListed(done2, todo2, seen2)
<1> DEFINE n == Size(done, todo)
           n2 == Size(done2, todo2)
           A(i) == Item(done, todo, i)
           B(i) == Item(done2, todo2, i)
<1>1. /\ n \in Nat /\ n2 \in Nat /\ n <= n2
      /\ \A i \in 1 .. n : Alike(B(i), A(i))
      /\ \A i \in n + 1 .. n2 : B(i).sym \in seen2 /\ B(i).sym \notin seen
      /\ \A i, j \in n + 1 .. n2 : B(i).sym = B(j).sym => i = j
      /\ seen \subseteq seen2
      /\ \A s \in seen2 \ seen : \E i \in n + 1 .. n2 : B(i).sym = s
  BY DEF GoesOn
<1>2. \A i, j \in 1 .. n : A(i).sym = A(j).sym =>
        i = j \/ (A(i).label = "Queried" /\ A(j).label = "Queried")
  BY DEF OnceEach
<1>3. /\ \A i \in 1 .. n : A(i).sym \in seen
      /\ \A s \in seen : \E i \in 1 .. n : A(i).sym = s
  BY DEF AllListed
<1> HIDE DEF n, n2, A, B
<1>4. \A i \in 1 .. n2 : i \in 1 .. n \/ i \in n + 1 .. n2
  BY <1>1
<1>5. \A i \in 1 .. n : i \in 1 .. n2 /\ B(i).sym = A(i).sym /\ B(i).label = A(i).label /\ B(i).sym \in seen
  BY <1>1, <1>3 DEF Alike
<1>6. ASSUME NEW i \in 1 .. n2, NEW j \in 1 .. n2, B(i).sym = B(j).sym
      PROVE  i = j \/ (B(i).label = "Queried" /\ B(j).label = "Queried")
  <2>1. CASE i \in 1 .. n /\ j \in 1 .. n
    BY <1>2, <1>5, <1>6, <2>1
  <2>2. CASE i \in n + 1 .. n2 /\ j \in n + 1 .. n2
    BY <1>1, <1>6, <2>2
  <2>3. CASE (i \in 1 .. n /\ j \in n + 1 .. n2) \/ (i \in n + 1 .. n2 /\ j \in 1 .. n)
    BY <1>1, <1>5, <1>6, <2>3
  <2> QED BY <1>4, <2>1, <2>2, <2>3
<1>7. \A i \in 1 .. n2 : B(i).sym \in seen2
  BY <1>1, <1>4, <1>5
<1>8. ASSUME NEW s \in seen2 PROVE \E i \in 1 .. n2 : B(i).sym = s
  <2>1. CASE s \in seen
    BY <1>3, <1>5, <2>1
  <2>2. CASE s \notin seen
    <3>1. PICK i \in n + 1 .. n2 : B(i).sym = s
      BY <1>1, <2>2
    <3>2. i \in 1 .. n2
      BY <1>1
    <3> QED BY <3>1, <3>2
  <2> QED BY <2>1, <2>2
<1>9. OnceEach(done2, todo2)
  BY <1>6 DEF OnceEach, n2, B
<1>10. AllListed(done2, todo2, seen2)
  BY <1>7, <1>8 DEF AllListed, n2, B
<1> QED BY <1>9, <1>10

LEMMA StillSound ==
    ASSUME NEW done, NEW todo, NEW seen, NEW done2, NEW todo2, NEW seen2, NEW N,
           GoesOn(done, todo, seen, done2, todo2, seen2, N), AllSound(done, todo, seen),
           \A e \in N : Sound(e, seen)
    PROVE  AllSound(done2, todo2, seen2)
<1> DEFINE n == Size(done, todo)
           n2 == Size(done2, todo2)
           A(i) == Item(done, todo, i)
           B(i) == Item(done2, todo2, i)
<1>1. /\ n \in Nat /\ n2 \in Nat /\ n <= n2 /\ seen \subseteq seen2
      /\ \A i \in 1 .. n : Alike(B(i), A(i))
      /\ \A i \in n + 1 .. n2 : B(i) \in N
  BY DEF GoesOn
<1>2. \A i \in 1 .. n : Sound(A(i), seen)
  BY DEF AllSound
<1>3. \A e \in N : Sound(e, seen)
  OBVIOUS
<1> HIDE DEF n, n2, A, B
<1>4. ASSUME NEW i \in 1 .. n2 PROVE Sound(B(i), seen2)
  <2>1. CASE i \in 1 .. n
    <3>1. Alike(B(i), A(i)) /\ Sound(A(i), seen)
      BY <1>1, <1>2, <2>1
    <3> QED BY <1>1, <3>1, SoundForMore
  <2>2. CASE i \in n + 1 .. n2
    <3>1. Alike(B(i), B(i)) /\ Sound(B(i), seen)
      BY <1>1, <1>3, <2>2 DEF Alike
    <3> QED BY <1>1, <3>1, SoundForMore
  <2> QED BY <1>1, <2>1, <2>2
<1> QED BY <1>4 DEF AllSound, n2, B

LEMMA StillFollowed ==
    ASSUME NEW x, NEW seen, NEW seen2, seen \subseteq seen2, Followed(x, seen)
    PROVE  Followed(x, seen2)
BY DEF Followed, AllIn

\* The database stays as it is, and with it what its lists say of a list.
LEMMA SameDatabase ==
    ASSUME meta' = meta, ListInv(expanded', work', met')
    PROVE  ListInv(expanded, work, met)'
<1>1. \A s : /\ Listed("subclasses", s)' = Listed("subclasses", s)
             /\ Listed("overrides", s)' = Listed("overrides", s)
  BY DEF Listed
<1>2. /\ Lists("subclasses")' = Lists("subclasses") /\ Lists("supers")' = Lists("supers")
      /\ Lists("overrides")' = Lists("overrides")
  BY DEF Lists, Listed
<1>3. AllSound(expanded, work, met)'
  BY <1>1, <1>2 DEF ListInv, AllSound, Sound, True, Via
<1>4. \A i \in 1 .. Len(expanded') : Followed(expanded[i], met)'
  BY DEF ListInv, Followed, AllIn, Listed
<1>5. (\A i \in 1 .. Len(expanded) : Followed(expanded[i], met))'
  BY <1>4
<1>6. /\ RootsFirst(expanded, work)' /\ OnceEach(expanded, work)'
      /\ AllListed(expanded, work, met)'
  BY DEF ListInv
<1> QED BY <1>3, <1>5, <1>6 DEF ListInv

LEMMA TurnKeeps ==
    ASSUME ExpandInv, ExpandOne
    PROVE  ExpandInv'
<1> DEFINE v == Head(work)
           N == Offers(v, Rules(v.label))
           g == [work |-> Tail(work), met |-> met, tally |-> tally, overloads |-> {}]
           h == ApplyRules(v, g, Rules(v.label))
           d == [sym |-> v.sym, label |-> v.label, root |-> v.root, dist |-> v.dist, overloads |-> h.overloads]
<1>1. /\ MetaTyped /\ work \in Seq(Entries) /\ met \in SUBSET Known /\ expanded \in Seq(Done)
      /\ tally \in [LimitNames -> Nat] /\ ListInv(expanded, work, met)
  BY DEF ExpandInv, ExpandTyped
<1>2. /\ work # <<>> /\ work' = h.work /\ met' = h.met /\ tally' = h.tally
      /\ expanded' = Append(expanded, d) /\ meta' = meta
  BY DEF ExpandOne
<1>3. v \in Entries /\ v = work[1] /\ Tail(work) \in Seq(Entries) /\ 1 \in 1 .. Len(work)
  <2>1. Len(work) \in Nat /\ Len(work) # 0
    BY <1>1, <1>2, EmptySeq, LenProperties
  <2>2. Tail(work) \in Seq(Entries)
    BY <1>1, <1>2, HeadTailProperties
  <2> QED BY <1>1, <2>1, <2>2, LenProperties
<1>4. g \in Progress /\ g.work = Tail(work) /\ g.met = met
  BY <1>1, <1>3 DEF Progress
<1> HIDE DEF v, g
<1>5. v.label \in Labels /\ Rules(v.label) \in Seq(RuleSet)
  BY <1>3, RulesTyped DEF Entries
<1>6. h \in Progress /\ Grown(g, h, N) /\ AllIn(v, Rules(v.label), Len(Rules(v.label)), h)
  BY <1>1, <1>3, <1>4, <1>5, ApplyRulesGrows
<1> HIDE DEF h, N
<1>7. d \in Done /\ Alike(d, Head(work)) /\ d.overloads = h.overloads
  <2>1. h.overloads \in SUBSET LimitNames
    BY <1>6 DEF Progress
  <2> QED BY <1>3, <2>1 DEF Done, Entries, Alike, v
<1> HIDE DEF d
<1>8. GoesOn(expanded, work, met, Append(expanded, d), h.work, h.met, N)
  BY <1>1, <1>2, <1>4, <1>6, <1>7, ListGoesOn
<1> DEFINE k == 1 + Len(expanded)
<1>9. k \in 1 .. Size(expanded, work) /\ Item(expanded, work, k) = v
  BY <1>1, <1>3, SizeTyped
<1> HIDE DEF k
<1>10. Sound(v, met) /\ v.sym \in met
  BY <1>1, <1>9 DEF ListInv, AllSound, AllListed
<1>11. \A e \in N : Sound(e, met) /\ e.root = v.root
  BY <1>1, <1>3, <1>10, OffersSound DEF N
<1>12. AllSound(Append(expanded, d), h.work, h.met)
  BY <1>1, <1>8, <1>11, StillSound DEF ListInv
<1>13. RootsFirst(Append(expanded, d), h.work)
  BY <1>1, <1>8, <1>9, <1>11, RootsStayFirst DEF ListInv
<1>14. OnceEach(Append(expanded, d), h.work) /\ AllListed(Append(expanded, d), h.work, h.met)
  BY <1>1, <1>8, StillOnceEach DEF ListInv
<1>15. ASSUME NEW i \in 1 .. Len(Append(expanded, d)) PROVE Followed(Append(expanded, d)[i], h.met)
  <2>1. /\ Len(expanded) \in Nat /\ Len(Append(expanded, d)) = Len(expanded) + 1
        /\ \A j \in 1 .. Len(expanded) : Append(expanded, d)[j] = expanded[j]
        /\ Append(expanded, d)[Len(expanded) + 1] = d
    BY <1>1, <1>7, AppendProperties, LenProperties
  <2>2. met \subseteq h.met
    BY <1>4, <1>6 DEF Grown
  <2>3. CASE i \in 1 .. Len(expanded)
    <3>1. Followed(expanded[i], met)
      BY <1>1, <2>3 DEF ListInv
    <3>2. Followed(expanded[i], h.met)
      BY <2>2, <3>1, StillFollowed
    <3> QED BY <2>1, <2>3, <3>2
  <2>4. CASE i = Len(expanded) + 1
    <3>1. d.label = v.label /\ d.sym = v.sym /\ d.overloads = h.overloads
      BY <1>7 DEF Alike, v
    <3>2. Followed(d, h.met)
      BY <1>6, <3>1 DEF Followed, AllIn
    <3> QED BY <2>1, <2>4, <3>2
  <2> QED BY <2>1, <2>3, <2>4
<1>16. ListInv(expanded', work', met')
  BY <1>2, <1>12, <1>13, <1>14, <1>15 DEF ListInv
<1>17. ListInv(expanded, work, met)'
  BY <1>2, <1>16, SameDatabase
<1>18. ExpandTyped'
  BY <1>1, <1>2, <1>6, <1>7, AppendProperties DEF ExpandTyped, Progress
<1>19. MetaTyped'
  BY <1>1, <1>2 DEF MetaTyped, Listed
<1> QED BY <1>17, <1>18, <1>19 DEF ExpandInv

LEMMA StartKeeps ==
    ASSUME ExpandInv, NEW asked \in Seq(Known), ExpandStart(asked)
    PROVE  ExpandInv'
<1> DEFINE todo == [i \in DOMAIN asked |-> Queried(asked[i])]
           n == Len(asked)
<1>1. /\ MetaTyped /\ work' = todo /\ met' = ToSet(asked) /\ expanded' = <<>>
      /\ tally' = [l \in LimitNames |-> 0] /\ meta' = meta
  BY DEF ExpandInv, ExpandStart, LimitNames
<1>2. n \in Nat /\ DOMAIN asked = 1 .. n /\ \A i \in 1 .. n : asked[i] \in Known
  BY LenProperties
<1>3. \A s \in Known : Queried(s) \in Entries
  BY DEF Queried, Entries, Labels
<1>4. todo \in Seq(Entries) /\ Len(todo) = n /\ \A i \in 1 .. n : todo[i] = Queried(asked[i])
  BY <1>2, <1>3
<1>5. ToSet(asked) = {asked[i] : i \in 1 .. n} /\ ToSet(asked) \in SUBSET Known
  BY SetOf
<1>6. <<>> \in Seq(Done) /\ Len(<<>>) = 0
  BY EmptySeq
<1> HIDE DEF todo, n
<1>7. Size(<<>>, todo) = n /\ \A i \in 1 .. n : Item(<<>>, todo, i) = Queried(asked[i])
  <2>1. Size(<<>>, todo) = n
    BY <1>2, <1>4, <1>6 DEF Size
  <2>2. \A i \in 1 .. n : ~(i <= 0) /\ i - 0 = i
    BY <1>2
  <2> QED BY <1>4, <1>6, <2>1, <2>2 DEF Item
<1>8. ASSUME NEW s \in Known PROVE Sound(Queried(s), ToSet(asked))
  <2>1. Queried(s).label = "Queried" /\ Queried(s).sym = s /\ Queried(s).root = s /\ Queried(s).dist = 0
    BY DEF Queried
  <2> QED BY <2>1 DEF Sound, True
<1>9. AllSound(<<>>, todo, ToSet(asked))
  BY <1>2, <1>7, <1>8 DEF AllSound
<1>10. RootsFirst(<<>>, todo)
  <2>1. \A i \in 1 .. n : i \in 1 .. i
    BY <1>2
  <2> QED BY <1>7, <2>1 DEF RootsFirst, Queried
<1>11. OnceEach(<<>>, todo)
  BY <1>7 DEF OnceEach, Queried
<1>12. AllListed(<<>>, todo, ToSet(asked))
  BY <1>5, <1>7 DEF AllListed, Queried
<1>13. \A i \in 1 .. Len(<<>>) : Followed(<<>>[i], ToSet(asked))
  BY <1>6
<1>14. ListInv(expanded', work', met')
  BY <1>1, <1>9, <1>10, <1>11, <1>12, <1>13 DEF ListInv
<1>15. ListInv(expanded, work, met)'
  BY <1>1, <1>14, SameDatabase
<1>16. ExpandTyped'
  BY <1>1, <1>4, <1>5, <1>6 DEF ExpandTyped
<1>17. MetaTyped'
  BY <1>1 DEF MetaTyped, Listed
<1> QED BY <1>15, <1>16, <1>17 DEF ExpandInv
-----------------------------------------------------------------------------
(* What is expanded in the end *)

\* Without limits, what an expanded symbol's rules find is expanded.
LEMMA RuleFollowed ==
    ASSUME NEW x, NEW seen, x.overloads = {}, Followed(x, seen),
           NEW i \in 1 .. Len(Rules(x.label))
    PROVE  ToSet(Listed(Rules(x.label)[i].field, x.sym)) \subseteq seen
BY DEF Followed, AllIn

LEMMA SubclassesFollowed ==
    ASSUME MetaTyped, NEW x \in Done, NEW seen \in SUBSET Known, x.overloads = {},
           Followed(x, seen), Sound(x, seen)
    PROVE  ToSet(Listed("subclasses", x.sym)) \subseteq seen
<1>1. x.label \in {"Queried", "SuperclassOf", "SubclassOf", "CousinClassOf", "OverriddenBy"}
  BY DEF Sound, True
<1>2. CASE x.label = "Queried"
  <2>1. 3 \in 1 .. Len(Rules(x.label)) /\ Rules(x.label)[3].field = "subclasses"
    BY <1>2 DEF Rules, Descendants, Rule
  <2> QED BY <2>1, RuleFollowed
<1>3. CASE x.label = "SuperclassOf"
  <2>1. 2 \in 1 .. Len(Rules(x.label)) /\ Rules(x.label)[2].field = "subclasses"
    BY <1>3 DEF Rules, Descendants, Rule
  <2> QED BY <2>1, RuleFollowed
<1>4. CASE x.label \in {"SubclassOf", "CousinClassOf"}
  <2>1. 1 \in 1 .. Len(Rules(x.label)) /\ Rules(x.label)[1].field = "subclasses"
    BY <1>4 DEF Rules, Descendants, Rule
  <2> QED BY <2>1, RuleFollowed
<1>5. CASE x.label = "OverriddenBy"
  <2>1. PICK q \in Known : x.sym \in ToSet(Listed("overrides", q))
    BY <1>5 DEF Sound
  <2>2. x.sym \in Known
    BY DEF Done
  <2>3. Listed("subclasses", x.sym) = <<>>
    BY <2>1, <2>2 DEF MetaTyped
  <2> QED BY <2>3 DEF ToSet
<1> QED BY <1>1, <1>2, <1>3, <1>4, <1>5

LEMMA SupersFollowed ==
    ASSUME MetaTyped, NEW x \in Done, NEW seen \in SUBSET Known, x.overloads = {},
           Followed(x, seen), Sound(x, seen),
           Len(Listed("supers", x.sym)) <= 1
    PROVE  ToSet(Listed("supers", x.sym)) \subseteq seen
<1>1. x.label \in {"Queried", "SuperclassOf", "SubclassOf", "CousinClassOf", "OverriddenBy"}
  BY DEF Sound, True
<1>2. CASE x.label = "Queried"
  <2>1. 4 \in 1 .. Len(Rules(x.label)) /\ Rules(x.label)[4].field = "supers"
    BY <1>2 DEF Rules, Descendants, Rule
  <2> QED BY <2>1, RuleFollowed
<1>3. CASE x.label = "SuperclassOf"
  <2>1. 1 \in 1 .. Len(Rules(x.label)) /\ Rules(x.label)[1].field = "supers"
    BY <1>3 DEF Rules, Descendants, Rule
  <2> QED BY <2>1, RuleFollowed
<1>4. CASE x.label \in {"SubclassOf", "CousinClassOf"}
  <2>1. PICK q \in seen : x.sym \in ToSet(Listed("subclasses", q))
    BY <1>4 DEF Sound
  <2>2. x.sym \in Known /\ q \in Known
    BY DEF Done
  <2> DEFINE l == Listed("supers", x.sym)
  <2>3. l = <<>> \/ q \in ToSet(l)
    BY <2>1, <2>2 DEF MetaTyped
  <2>4. l \in Seq(Known) /\ Len(l) \in Nat /\ ToSet(l) = {l[i] : i \in 1 .. Len(l)}
    BY <2>2, Listings, SetOf, LenProperties
  <2>5. Len(l) <= 1 /\ (Len(l) = 0 \/ q \in ToSet(l))
    BY <2>3
  <2> HIDE DEF l
  <2>6. \A i \in 1 .. Len(l) : i = 1
    BY <2>4, <2>5
  <2>7. \A y \in ToSet(l) : y = q
    BY <2>4, <2>5, <2>6
  <2> QED BY <2>7 DEF l
<1>5. CASE x.label = "OverriddenBy"
  <2>1. PICK q \in Known : x.sym \in ToSet(Listed("overrides", q))
    BY <1>5 DEF Sound
  <2>2. x.sym \in Known
    BY DEF Done
  <2>3. Listed("supers", x.sym) = <<>>
    BY <2>1, <2>2 DEF MetaTyped
  <2> QED BY <2>3 DEF ToSet
<1> QED BY <1>1, <1>2, <1>3, <1>4, <1>5

LEMMA NothingMissing ==
    ASSUME MetaTyped, NEW seen \in SUBSET Known, NEW r \in seen, NEW up \in Nat, NEW down \in Nat,
           \A s \in seen : ToSet(Listed("subclasses", s)) \subseteq seen,
           up = 0 \/ \A s \in seen : ToSet(Listed("supers", s)) \subseteq seen
    PROVE  Via(r, up, down) \subseteq seen
<1> DEFINE top == Walk(Lists("supers"), {r}, up)
<1>1. Lists("supers") \in [Known -> Seq(Known)] /\ Lists("subclasses") \in [Known -> Seq(Known)]
  BY ListsTyped
<1>2. {r} \in SUBSET seen /\ {r} \in SUBSET Known
  OBVIOUS
<1>3. \A s \in seen : /\ Lists("supers")[s] = Listed("supers", s)
                      /\ Lists("subclasses")[s] = Listed("subclasses", s)
  BY ListsTyped
<1>4. top \in SUBSET seen
  <2>1. CASE up = 0
    BY <1>1, <1>2, <2>1, WalkNowhere
  <2>2. CASE \A s \in seen : ToSet(Listed("supers", s)) \subseteq seen
    <3>1. \A s \in seen : ToSet(Lists("supers")[s]) \subseteq seen
      BY <1>3, <2>2
    <3> QED BY <1>1, <1>2, <3>1, WalkInside
  <2> QED BY <2>1, <2>2
<1> HIDE DEF top
<1>5. \A s \in seen : ToSet(Lists("subclasses")[s]) \subseteq seen
  BY <1>3
<1>6. Walk(Lists("subclasses"), top, down) \subseteq seen
  BY <1>1, <1>4, <1>5, WalkInside
<1> QED BY <1>6 DEF Via, top

LEMMA InvLabelsTrue ==
    ASSUME ExpandInv
    PROVE  LabelsTrue
<1> SUFFICES ASSUME work = <<>>
             PROVE  /\ \A i \in DOMAIN expanded : LabelRight(i)
                    /\ NoLimitMet => Relatives \subseteq {x.sym : x \in ToSet(expanded)}
  BY DEF LabelsTrue, Expanded
<1> DEFINE n == Len(expanded)
<1>1. /\ MetaTyped /\ work \in Seq(Entries) /\ met \in SUBSET Known /\ expanded \in Seq(Done)
      /\ ListInv(expanded, work, met)
  BY DEF ExpandInv, ExpandTyped
<1>2. n \in Nat /\ DOMAIN expanded = 1 .. n /\ Len(work) = 0 /\ Size(expanded, work) = n
  BY <1>1, EmptySeq, LenProperties DEF Size
<1>3. \A i \in 1 .. n : Item(expanded, work, i) = expanded[i] /\ expanded[i] \in Done
  BY <1>1, SizeTyped
<1> HIDE DEF n
<1>4. \A i \in 1 .. n : Sound(expanded[i], met) /\ expanded[i].sym \in met
  BY <1>1, <1>2, <1>3 DEF ListInv, AllSound, AllListed
<1>5. \A i \in 1 .. n : True(expanded[i])
  BY <1>4 DEF Sound
<1>6. ASSUME NEW i \in 1 .. n
      PROVE  \E j \in 1 .. i : expanded[j].sym = expanded[i].root /\ expanded[j].label = "Queried"
  <2>1. PICK j \in 1 .. i : /\ Item(expanded, work, j).sym = Item(expanded, work, i).root
                            /\ Item(expanded, work, j).label = "Queried"
    BY <1>1, <1>2 DEF ListInv, RootsFirst
  <2>2. j \in 1 .. n
    BY <1>2
  <2> QED BY <1>3, <2>1, <2>2
<1>7. \A i, j \in 1 .. n : expanded[i].sym = expanded[j].sym =>
        i = j \/ (expanded[i].label = "Queried" /\ expanded[j].label = "Queried")
  BY <1>1, <1>2, <1>3 DEF ListInv, OnceEach
<1>8. ASSUME \A i \in 1 .. n : expanded[i].overloads = {},
             NEW r \in RootsOf, NEW up \in 0 .. Cardinality(Known), NEW down \in 0 .. Cardinality(Known),
             up = 0 \/ \A s \in Known : Len(Listed("supers", s)) <= 1
      PROVE  Via(r, up, down) \subseteq met
  <2>1. ASSUME NEW s \in met
        PROVE  \E i \in 1 .. n : expanded[i].sym = s /\ Followed(expanded[i], met) /\ expanded[i].overloads = {}
    <3>1. PICK i \in 1 .. n : Item(expanded, work, i).sym = s
      BY <1>1, <1>2 DEF ListInv, AllListed
    <3>2. Followed(expanded[i], met)
      BY <1>1, <3>1 DEF ListInv, n
    <3> QED BY <1>3, <1>8, <3>1, <3>2
  <2>2. ASSUME NEW s \in met PROVE ToSet(Listed("subclasses", s)) \subseteq met
    <3>1. PICK i \in 1 .. n : expanded[i].sym = s /\ Followed(expanded[i], met) /\ expanded[i].overloads = {}
      BY <2>1
    <3> QED BY <1>1, <1>3, <1>4, <3>1, SubclassesFollowed
  <2>3. ASSUME \A s \in Known : Len(Listed("supers", s)) <= 1, NEW s \in met
        PROVE  ToSet(Listed("supers", s)) \subseteq met
    <3>1. PICK i \in 1 .. n : expanded[i].sym = s /\ Followed(expanded[i], met) /\ expanded[i].overloads = {}
      BY <2>1
    <3>2. Len(Listed("supers", expanded[i].sym)) <= 1
      BY <1>1, <2>3, <3>1
    <3> QED BY <1>1, <1>3, <1>4, <3>1, <3>2, SupersFollowed
  <2>4. r \in met
    BY <1>1, <1>2, <1>4, SetOf DEF RootsOf, n
  <2>5. up \in Nat /\ down \in Nat
    <3>1. Cardinality(Known) \in Nat
      BY KnownAssumption, FS_CardinalityType
    <3> QED BY <3>1
  <2>6. up = 0 \/ \A s \in met : ToSet(Listed("supers", s)) \subseteq met
    BY <1>8, <2>3
  <2> QED BY <1>1, <2>2, <2>4, <2>5, <2>6, NothingMissing
<1>9. met \subseteq {x.sym : x \in ToSet(expanded)}
  <2>1. ASSUME NEW s \in met PROVE \E x \in ToSet(expanded) : x.sym = s
    <3>1. PICK i \in 1 .. n : Item(expanded, work, i).sym = s
      BY <1>1, <1>2 DEF ListInv, AllListed
    <3>2. expanded[i] \in ToSet(expanded)
      BY <1>1, SetOf DEF n
    <3> QED BY <1>3, <3>1, <3>2
  <2> QED BY <2>1
<1>10. ASSUME NoLimitMet
       PROVE  Relatives \subseteq {x.sym : x \in ToSet(expanded)}
  <2>1. \A i \in 1 .. n : expanded[i].overloads = {}
    BY <1>2, <1>10 DEF NoLimitMet
  <2>2. 0 \in 0 .. Cardinality(Known)
    <3>1. Cardinality(Known) \in Nat
      BY KnownAssumption, FS_CardinalityType
    <3> QED BY <3>1
  <2>3. \A up \in Heights : /\ up \in 0 .. Cardinality(Known)
                            /\ up = 0 \/ \A s \in Known : Len(Listed("supers", s)) <= 1
    BY <2>2 DEF Heights
  <2>4. \A r \in RootsOf, up \in Heights, down \in 0 .. Cardinality(Known) : Via(r, up, down) \subseteq met
    BY <1>8, <2>1, <2>3
  <2>5. Relatives \subseteq met
    BY <2>4 DEF Relatives
  <2> QED BY <1>9, <2>5
<1>11. \A i \in 1 .. n : LabelRight(i)
  BY <1>2, <1>5, <1>6, <1>7 DEF LabelRight
<1> QED BY <1>2, <1>10, <1>11

LEMMA ExpandInvInitially ==
    ASSUME ExpandIdle, MetaTyped
    PROVE  ExpandInv
<1>1. /\ work = <<>> /\ met = {} /\ expanded = <<>> /\ <<>> \in Seq(Entries) /\ <<>> \in Seq(Done)
      /\ tally \in [LimitNames -> Nat]
  BY EmptySeq DEF ExpandIdle, LimitNames
<1>2. Len(<<>>) = 0 /\ Size(<<>>, <<>>) = 0
  BY EmptySeq DEF Size
<1>3. ListInv(<<>>, <<>>, {})
  BY <1>2 DEF ListInv, AllSound, RootsFirst, OnceEach, AllListed
<1> QED BY <1>1, <1>3 DEF ExpandInv, ExpandTyped

LEMMA StutterKeeps ==
    ASSUME ExpandInv, UNCHANGED expandVars
    PROVE  ExpandInv'
<1>1. meta' = meta /\ work' = work /\ met' = met /\ expanded' = expanded /\ tally' = tally
  BY DEF expandVars
<1>2. ListInv(expanded', work', met')
  BY <1>1 DEF ExpandInv
<1>3. ListInv(expanded, work, met)'
  BY <1>1, <1>2, SameDatabase
<1>4. ExpandTyped'
  BY <1>1 DEF ExpandInv, ExpandTyped
<1>5. MetaTyped'
  BY <1>1 DEF ExpandInv, MetaTyped, Listed
<1> QED BY <1>3, <1>4, <1>5 DEF ExpandInv

\* Whatever the database holds, whatever is asked for and whatever the limits,
\* each label says truly how its symbol is related to the one it names, no symbol
\* is expanded twice that was not asked for twice, and where no limit was met
\* nothing is missing (cmd_crossref_expand.rs).
THEOREM ExpandLabelsTrue == ExpandSpec => []LabelsTrue
<1>1. ExpandIdle /\ MetaTyped => ExpandInv
  BY ExpandInvInitially
<1>2. ExpandInv /\ [ExpandOne \/ \E roots \in Seq(Known) : ExpandStart(roots)]_expandVars => ExpandInv'
  BY TurnKeeps, StartKeeps, StutterKeeps
<1>3. ExpandInv => LabelsTrue
  BY InvLabelsTrue
<1> QED BY <1>1, <1>2, <1>3, PTL DEF ExpandSpec
=============================================================================
