--------------------------- MODULE TraverseProofs ---------------------------
(* Of Traverse, for every database and every query: the edges of a call      *)
(* diagram point the way control flows.  The argument has three parts: what  *)
(* a symbol offers is the control flow at that symbol (the offers, one part  *)
(* after the other); what the offers add to the graph, one by one, is an     *)
(* edge between the nodes of just those two symbols (Taking); and a node     *)
(* keeps its symbol for good (the invariant).                                *)
EXTENDS Traverse, SequenceTheorems, WellFoundedInduction, TLAPS

NatLess == {ss \in Nat \X Nat : ss[1] < ss[2]}

LEMMA NatLessWF == IsWellFoundedOn(NatLess, Nat)
BY NatLessThanWellFounded DEF OpToRel, NatLess

LEMMA LeastElement ==
    ASSUME NEW T \in SUBSET Nat, T # {}
    PROVE  \E x \in T : \A y \in T : x <= y
<1>1. PICK x \in T : \A y \in T : ~ (<<y, x>> \in NatLess)
  BY NatLessWF, WFMin
<1>2. \A y \in T : ~ (y < x)
  BY <1>1 DEF NatLess
<1> QED BY <1>2

LEMMA GreatestElement ==
    ASSUME NEW n \in Nat, NEW T \in SUBSET (1 .. n), T # {}
    PROVE  \E x \in T : \A y \in T : y <= x
<1> DEFINE D == {n - y : y \in T}
<1>1. D \in SUBSET Nat /\ D # {}
  <2>1. \A y \in T : y \in 1 .. n /\ n - y \in Nat
    OBVIOUS
  <2> QED BY <2>1
<1>2. PICK d \in D : \A e \in D : d <= e
  BY <1>1, LeastElement
<1>3. PICK x \in T : d = n - x
  BY <1>2
<1>4. \A y \in T : n - x <= n - y
  BY <1>2, <1>3
<1> QED BY <1>4

LEMMA UpTo ==
    ASSUME NEW n \in Nat, NEW T \in SUBSET (0 .. n), 0 \in T,
           \A k \in T : k < n => k + 1 \in T
    PROVE  T = 0 .. n
<1> SUFFICES ASSUME (0 .. n) \ T # {} PROVE FALSE
  OBVIOUS
<1>1. (0 .. n) \ T \in SUBSET Nat
  OBVIOUS
<1>2. PICK x \in (0 .. n) \ T : \A y \in (0 .. n) \ T : x <= y
  BY <1>1, LeastElement
<1>3. x # 0 /\ x \in 0 .. n
  BY <1>2
<1>4. x - 1 \in 0 .. n /\ x - 1 \notin (0 .. n) \ T /\ (x - 1) + 1 = x /\ x - 1 < n
  BY <1>2, <1>3
<1> QED BY <1>2, <1>4
-----------------------------------------------------------------------------
(* Sequences *)

\* What is built element by element from a sequence is a sequence.
LEMMA Mapped ==
    ASSUME NEW S, NEW U, NEW seq \in Seq(S), NEW f, DOMAIN f = DOMAIN seq,
           f = [i \in DOMAIN f |-> f[i]], \A i \in DOMAIN seq : f[i] \in U
    PROVE  f \in Seq(U) /\ Len(f) = Len(seq)
<1>1. Len(seq) \in Nat /\ DOMAIN seq = 1 .. Len(seq)
  BY LenProperties
<1>2. f \in [1 .. Len(seq) -> U]
  BY <1>1
<1> QED BY <1>1, <1>2, LenProperties

\* A member of a sequence is one of its set.
LEMMA Members ==
    ASSUME NEW S, NEW seq \in Seq(S), NEW i \in DOMAIN seq
    PROVE  seq[i] \in S /\ seq[i] \in ToSet(seq)
<1>1. Len(seq) \in Nat /\ DOMAIN seq = 1 .. Len(seq)
  BY LenProperties
<1>2. seq[i] \in S
  BY <1>1, ElementOfSeq
<1> QED BY <1>2 DEF ToSet

LEMMA Joined ==
    ASSUME NEW S, NEW p \in Seq(S), NEW q \in Seq(S)
    PROVE  p \o q \in Seq(S)
BY ConcatProperties

\* Joining sequences over S, one after the other, gives a sequence over S.
LEMMA Flattened ==
    ASSUME NEW S, NEW ss \in Seq(Seq(S))
    PROVE  FlattenSeq(ss) \in Seq(S)
<1> DEFINE n == Len(ss)
<1>1. n \in Nat /\ DOMAIN ss = 1 .. n /\ \A i \in 1 .. n : ss[i] \in Seq(S)
  BY LenProperties, ElementOfSeq
<1>2. CASE n = 0
  <2>1. ss = <<>>
    BY <1>1, <1>2, EmptySeq
  <2> QED BY <1>2, <2>1 DEF FlattenSeq
<1>3. CASE n # 0
  <2> DEFINE F(x) == [i \in 1 .. n |-> IF i = 1 THEN ss[i] ELSE x[i - 1] \o ss[i]]
             h == CHOOSE x : x = F(x)
             Good(k) == \E g \in [1 .. k -> Seq(S)] :
                           \A i \in 1 .. k : g[i] = IF i = 1 THEN ss[i] ELSE g[i - 1] \o ss[i]
             T == {k \in 0 .. n : Good(k)}
  <2>1. 0 \in T
    <3>1. 1 .. 0 = {}
      OBVIOUS
    <3>2. [i \in 1 .. 0 |-> ss[i]] \in [1 .. 0 -> Seq(S)]
      BY <3>1
    <3>3. Good(0)
      BY <3>1, <3>2
    <3> HIDE DEF Good
    <3> QED BY <1>1, <3>3
  <2>2. ASSUME NEW k \in T, k < n PROVE k + 1 \in T
    <3>1. k \in 0 .. n /\ Good(k) /\ k + 1 \in 1 .. n
      BY <1>1, <2>2
    <3>2. PICK g \in [1 .. k -> Seq(S)] :
              \A i \in 1 .. k : g[i] = IF i = 1 THEN ss[i] ELSE g[i - 1] \o ss[i]
      BY <3>1
    <3> DEFINE v == IF k + 1 = 1 THEN ss[k + 1] ELSE g[k] \o ss[k + 1]
               e == [i \in 1 .. k + 1 |-> IF i = k + 1 THEN v ELSE g[i]]
    <3>3. v \in Seq(S)
      <4>1. CASE k = 0
        BY <1>1, <3>1, <4>1
      <4>2. CASE k # 0
        <5>1. k \in 1 .. k
          BY <3>1, <4>2
        <5> QED BY <1>1, <3>1, <3>2, <4>2, <5>1, Joined
      <4> QED BY <4>1, <4>2
    <3> HIDE DEF v
    <3>4. e \in [1 .. k + 1 -> Seq(S)]
      BY <3>1, <3>2, <3>3
    <3>5. ASSUME NEW i \in 1 .. k + 1
          PROVE  e[i] = IF i = 1 THEN ss[i] ELSE e[i - 1] \o ss[i]
      <4>1. CASE i = k + 1
        <5>1. k # 0 => k \in 1 .. k + 1 /\ e[k] = g[k] /\ (k + 1) - 1 = k
          BY <3>1
        <5>2. e[k + 1] = v
          BY <3>1
        <5> HIDE DEF e
        <5> QED BY <3>1, <4>1, <5>1, <5>2 DEF v
      <4>2. CASE i # k + 1
        <5>1. i \in 1 .. k /\ (i # 1 => i - 1 \in 1 .. k)
          BY <3>1, <4>2
        <5>2. e[i] = g[i] /\ (i # 1 => e[i - 1] = g[i - 1])
          BY <3>1, <5>1
        <5> HIDE DEF e
        <5> QED BY <3>2, <5>1, <5>2
      <4> QED BY <4>1, <4>2
    <3>6. Good(k + 1)
      <4> HIDE DEF e
      <4> QED BY <3>4, <3>5
    <3> HIDE DEF Good
    <3> QED BY <3>1, <3>6
  <2>3. Good(n)
    <3>1. T \in SUBSET (0 .. n)
      OBVIOUS
    <3>2. n \in 0 .. n
      BY <1>1
    <3> HIDE DEF Good, T, n
    <3>3. T = 0 .. n
      BY <1>1, <2>1, <2>2, <3>1, UpTo
    <3> QED BY <3>2, <3>3 DEF T
  <2>4. PICK g \in [1 .. n -> Seq(S)] :
            \A i \in 1 .. n : g[i] = IF i = 1 THEN ss[i] ELSE g[i - 1] \o ss[i]
    BY <2>3
  <2>5. g = F(g)
    BY <2>4
  <2>6. h = F(h)
    <3> HIDE DEF F
    <3> QED BY <2>5
  <2>7. FlattenSeq(ss) = h[n]
    BY <1>3 DEF FlattenSeq
  <2> HIDE DEF h
  <2>8. \A i \in 1 .. n : h[i] = IF i = 1 THEN ss[i] ELSE h[i - 1] \o ss[i]
    BY <2>6
  <2> HIDE DEF F
  <2> DEFINE R == {k \in 0 .. n : k # 0 => h[k] \in Seq(S)}
  <2>9. ASSUME NEW k \in R, k < n PROVE k + 1 \in R
    <3>1. k \in 0 .. n /\ k + 1 \in 1 .. n /\ (k + 1) - 1 = k /\ (k # 0 => h[k] \in Seq(S))
      BY <1>1, <2>9
    <3>2. h[k + 1] = IF k + 1 = 1 THEN ss[k + 1] ELSE h[(k + 1) - 1] \o ss[k + 1]
      BY <2>8, <3>1
    <3>3. h[k + 1] \in Seq(S)
      <4>1. CASE k = 0
        BY <1>1, <3>1, <3>2, <4>1
      <4>2. CASE k # 0
        <5>1. k + 1 # 1 /\ (k + 1) - 1 = k /\ ss[k + 1] \in Seq(S) /\ h[k] \in Seq(S)
          BY <1>1, <3>1, <4>2
        <5>2. h[k + 1] = h[(k + 1) - 1] \o ss[k + 1]
          BY <3>2, <5>1
        <5>3. h[k + 1] = h[k] \o ss[k + 1]
          BY <5>1, <5>2
        <5> QED BY <5>1, <5>3, Joined
      <4> QED BY <4>1, <4>2
    <3> QED BY <3>1, <3>3
  <2>10. R = 0 .. n
    <3>1. R \in SUBSET (0 .. n) /\ 0 \in R
      BY <1>1
    <3> HIDE DEF R, n
    <3> QED BY <1>1, <2>9, <3>1, UpTo
  <2> QED BY <1>1, <1>3, <2>7, <2>10
<1> QED BY <1>2, <1>3

\* The greatest member is the one Max chooses.
LEMMA MaxUpTo ==
    ASSUME NEW k \in Nat, k # 0
    PROVE  Max(1 .. k) = k
<1>1. k \in 1 .. k /\ \A y \in 1 .. k : k >= y
  OBVIOUS
<1>2. \A x \in 1 .. k : (\A y \in 1 .. k : x >= y) => x = k
  BY <1>1
<1> QED BY <1>1, <1>2 DEF Max

LEMMA MinChosen ==
    ASSUME NEW T \in SUBSET Nat, T # {}
    PROVE  Min(T) \in T
BY LeastElement DEF Min
-----------------------------------------------------------------------------
(* Taking the offers one after the other *)

\* f[k] is the graph when the first k offers are taken.
Steps(f, a, os, depth, n) ==
    /\ f[0] = a
    /\ \A k \in 1 .. n : f[k] = Take(f[k - 1], os[k], depth)
    /\ TakeAll(a, os, depth) = f[n]

LEMMA Folding ==
    ASSUME NEW a, NEW depth, NEW n \in Nat, NEW os, DOMAIN os = 1 .. n
    PROVE  \E f : Steps(f, a, os, depth, n)
<1> DEFINE F(x, m) == [s \in SUBSET (1 .. m) |->
                         IF s = {} THEN a ELSE Take(x[s \ {Max(s)}], os[Max(s)], depth)]
           h == CHOOSE x : x = F(x, n)
           T == {m \in 0 .. n : \E x : x = F(x, m)}
<1>1. 0 \in T
  <2> DEFINE x == [s \in SUBSET (1 .. 0) |-> a]
  <2>1. 1 .. 0 = {}
    OBVIOUS
  <2>2. x = F(x, 0)
    BY <2>1
  <2> HIDE DEF F, x
  <2> QED BY <2>2
<1>2. ASSUME NEW m \in T, m < n PROVE m + 1 \in T
  <2>1. m \in 0 .. n /\ m + 1 \in 0 .. n
    BY <1>2
  <2>2. PICK x : x = F(x, m)
    BY <1>2
  <2> DEFINE Within(s) == s \subseteq 1 .. m
             y == [s \in SUBSET (1 .. m + 1) |->
                     IF s \subseteq 1 .. m THEN x[s]
                     ELSE Take(x[s \ {m + 1}], os[m + 1], depth)]
  <2>3. ASSUME NEW s \in SUBSET (1 .. m + 1)
        PROVE  y[s] = IF s = {} THEN a ELSE Take(y[s \ {Max(s)}], os[Max(s)], depth)
    <3>1. CASE s \subseteq 1 .. m
      <4>1. y[s] = x[s] /\ x[s] = IF s = {} THEN a ELSE Take(x[s \ {Max(s)}], os[Max(s)], depth)
        <5>1. x[s] = F(x, m)[s]
          BY <2>2
        <5>2. F(x, m)[s] = IF s = {} THEN a ELSE Take(x[s \ {Max(s)}], os[Max(s)], depth)
          BY <3>1
        <5>3. y[s] = x[s]
          BY <3>1
        <5> HIDE DEF F, y
        <5> QED BY <5>1, <5>2, <5>3
      <4>2. y[s \ {Max(s)}] = x[s \ {Max(s)}]
        BY <3>1
      <4> HIDE DEF F, y
      <4> QED BY <4>1, <4>2
    <3>2. CASE ~(s \subseteq 1 .. m)
      <4>1. m + 1 \in s /\ \A i \in s : i \in 1 .. m + 1
        BY <2>1, <3>2
      <4>2. Max(s) = m + 1
        <5>1. \A i \in s : m + 1 >= i
          BY <2>1, <4>1
        <5>2. \A z \in s : (\A i \in s : z >= i) => z = m + 1
          BY <2>1, <4>1
        <5> QED BY <4>1, <5>1, <5>2 DEF Max
      <4>3. s \ {m + 1} \subseteq 1 .. m /\ s # {}
        BY <2>1, <4>1
      <4>4. y[s] = Take(x[s \ {m + 1}], os[m + 1], depth)
        BY <3>2
      <4>5. y[s \ {m + 1}] = x[s \ {m + 1}]
        BY <4>3
      <4> HIDE DEF F, y
      <4> QED BY <4>2, <4>3, <4>4, <4>5
    <3> QED BY <3>1, <3>2
  <2>4. y = F(y, m + 1)
    <3> DEFINE R(s) == IF s = {} THEN a ELSE Take(y[s \ {Max(s)}], os[Max(s)], depth)
    <3>1. y = [s \in SUBSET (1 .. m + 1) |-> y[s]]
      OBVIOUS
    <3>2. \A s \in SUBSET (1 .. m + 1) : y[s] = R(s)
      BY <2>3
    <3> HIDE DEF y, R
    <3>3. [s \in SUBSET (1 .. m + 1) |-> y[s]] = [s \in SUBSET (1 .. m + 1) |-> R(s)]
      BY <3>2
    <3> QED BY <3>1, <3>3 DEF R
  <2> HIDE DEF F, y
  <2> QED BY <2>1, <2>4
<1>3. \E x : x = F(x, n)
  <2>1. T \in SUBSET (0 .. n) /\ n \in 0 .. n
    OBVIOUS
  <2> HIDE DEF T, F
  <2>2. T = 0 .. n
    BY <1>1, <1>2, <2>1, UpTo
  <2> QED BY <2>1, <2>2 DEF T
<1>4. h = F(h, n)
  <2> HIDE DEF F
  <2> QED BY <1>3
<1>5. TakeAll(a, os, depth) = h[1 .. n]
  BY DEF TakeAll, FoldLeft, MapThenFoldSet
<1> HIDE DEF h
<1>6. \A s \in SUBSET (1 .. n) :
         h[s] = IF s = {} THEN a ELSE Take(h[s \ {Max(s)}], os[Max(s)], depth)
  BY <1>4
<1> HIDE DEF F
<1> DEFINE f == [k \in 0 .. n |-> h[1 .. k]]
<1>7. f[0] = a
  <2>1. 1 .. 0 = {} /\ 0 \in 0 .. n
    OBVIOUS
  <2> QED BY <1>6, <2>1
<1>8. ASSUME NEW k \in 1 .. n PROVE f[k] = Take(f[k - 1], os[k], depth)
  <2>1. /\ 1 .. k \in SUBSET (1 .. n) /\ 1 .. k # {}
        /\ k \in Nat /\ k # 0 /\ k \in 0 .. n /\ k - 1 \in 0 .. n
        /\ (1 .. k) \ {k} = 1 .. k - 1
    <3>1. k \in 1 .. k /\ k \in Nat /\ k # 0 /\ k \in 0 .. n /\ k - 1 \in 0 .. n
      OBVIOUS
    <3>2. \A i \in 1 .. k : i \in 1 .. n
      OBVIOUS
    <3>3. (1 .. k) \ {k} = 1 .. k - 1
      OBVIOUS
    <3> QED BY <3>1, <3>2, <3>3
  <2>2. Max(1 .. k) = k
    BY <2>1, MaxUpTo
  <2>3. h[1 .. k] = Take(h[(1 .. k) \ {Max(1 .. k)}], os[Max(1 .. k)], depth)
    BY <1>6, <2>1
  <2>4. f[k] = h[1 .. k] /\ f[k - 1] = h[1 .. k - 1]
    BY <2>1
  <2> HIDE DEF f
  <2> QED BY <2>1, <2>2, <2>3, <2>4
<1>9. f[n] = h[1 .. n]
  OBVIOUS
<1> HIDE DEF f
<1> QED BY <1>5, <1>7, <1>8, <1>9 DEF Steps
-----------------------------------------------------------------------------
(* The graph *)

NodeSet == Seq([sym : Symbols, depth : Nat])
ToVisit == Seq([sym : Symbols, depth : Nat, dirs : SUBSET Both])
Flow == Calls \cup Overriding \cup Crossings

\* What is known of the graph in the middle of a visit.
GraphSound(g) ==
    /\ g.nodes \in NodeSet
    /\ g.queue \in ToVisit
    /\ \A e \in g.edges : /\ e \in (DOMAIN g.nodes) \X (DOMAIN g.nodes)
                          /\ <<g.nodes[e[1]].sym, g.nodes[e[2]].sym>> \in Flow

\* An offer of s: control flow between s and the other end.
OffersOf(s) ==
    {o \in [to : Symbols, edges : SUBSET (Symbols \X Symbols), fresh : BOOLEAN,
            leaf : BOOLEAN, dirs : SUBSET Both] :
        \A e \in o.edges : e \in Flow /\ {e[1], e[2]} \subseteq {s, o.to}}

\* A known symbol is found under a node of its own.
LEMMA Finding ==
    ASSUME NEW ns \in NodeSet, NEW s, Known(ns, s)
    PROVE  IdIn(ns, s) \in DOMAIN ns /\ ns[IdIn(ns, s)].sym = s
<1> DEFINE T == {i \in DOMAIN ns : ns[i].sym = s}
<1>1. Len(ns) \in Nat /\ DOMAIN ns = 1 .. Len(ns)
  BY LenProperties DEF NodeSet
<1>2. T \in SUBSET (1 .. Len(ns)) /\ T # {}
  BY <1>1 DEF Known
<1>3. PICK x \in T : \A y \in T : y <= x
  BY <1>1, <1>2, GreatestElement
<1>4. \E i \in DOMAIN ns : ns[i].sym = s /\ \A j \in DOMAIN ns : ns[j].sym = s => j <= i
  BY <1>3
<1> QED BY <1>4 DEF IdIn

\* Looking a symbol up gives it a node and leaves the others theirs.
LEMMA Ensuring ==
    ASSUME NEW ns \in NodeSet, NEW s \in Symbols, NEW d \in Nat
    PROVE  /\ Ensure(ns, s, d) \in NodeSet
           /\ Known(Ensure(ns, s, d), s)
           /\ DOMAIN ns \subseteq DOMAIN Ensure(ns, s, d)
           /\ \A i \in DOMAIN ns : Ensure(ns, s, d)[i] = ns[i]
           /\ \A t : Known(ns, t) => Known(Ensure(ns, s, d), t)
<1>1. CASE Known(ns, s)
  BY <1>1 DEF Ensure
<1>2. CASE ~Known(ns, s)
  <2> DEFINE x == [sym |-> s, depth |-> d]
             m == Append(ns, x)
  <2>1. Ensure(ns, s, d) = m
    BY <1>2 DEF Ensure
  <2>2. x \in [sym : Symbols, depth : Nat] /\ x.sym = s
    OBVIOUS
  <2> HIDE DEF x
  <2>3. Len(ns) \in Nat /\ DOMAIN ns = 1 .. Len(ns)
    BY LenProperties DEF NodeSet
  <2>4. m \in NodeSet /\ Len(m) = Len(ns) + 1 /\ m[Len(ns) + 1] = x
        /\ \A i \in 1 .. Len(ns) : m[i] = ns[i]
    BY <2>2, AppendProperties DEF NodeSet
  <2>5. DOMAIN m = 1 .. Len(ns) + 1
    BY <2>4, LenProperties DEF NodeSet
  <2> HIDE DEF m
  <2>6. Len(ns) + 1 \in DOMAIN m /\ DOMAIN ns \subseteq DOMAIN m
    BY <2>3, <2>5
  <2>7. Known(m, s)
    BY <2>2, <2>4, <2>6 DEF Known
  <2>8. \A t : Known(ns, t) => Known(m, t)
    BY <2>3, <2>4, <2>6 DEF Known
  <2> QED BY <2>1, <2>3, <2>4, <2>6, <2>7, <2>8
<1> QED BY <1>1, <1>2

LEMMA Pairs ==
    ASSUME NEW A, NEW e
    PROVE  e \in A \X A <=> e = <<e[1], e[2]>> /\ e[1] \in A /\ e[2] \in A
OBVIOUS

\* An edge is drawn between the nodes of its own two symbols, and a node keeps
\* its symbol: taking an offer leaves the graph sound.
LEMMA Taking ==
    ASSUME NEW s \in Symbols, NEW g, GraphSound(g), Known(g.nodes, s),
           NEW o \in OffersOf(s), NEW depth \in Nat
    PROVE  GraphSound(Take(g, o, depth)) /\ Known(Take(g, o, depth).nodes, s)
<1> DEFINE ns == Ensure(g.nodes, o.to, depth + 1)
           t == Take(g, o, depth)
           item == [sym |-> o.to, depth |-> depth + 1, dirs |-> o.dirs]
<1>1. /\ o.to \in Symbols /\ o.dirs \in SUBSET Both /\ depth + 1 \in Nat
      /\ \A e \in o.edges : e \in Symbols \X Symbols /\ e \in Flow /\ {e[1], e[2]} \subseteq {s, o.to}
  BY DEF OffersOf
<1>2. /\ ns \in NodeSet /\ Known(ns, o.to) /\ Known(ns, s)
      /\ DOMAIN g.nodes \subseteq DOMAIN ns
      /\ \A i \in DOMAIN g.nodes : ns[i] = g.nodes[i]
  BY <1>1, Ensuring DEF GraphSound
<1> HIDE DEF ns
<1>3. /\ t.nodes = ns
      /\ t.edges \subseteq g.edges \cup {<<IdIn(ns, e[1]), IdIn(ns, e[2])>> : e \in o.edges}
      /\ t.queue = g.queue \/ t.queue = Append(g.queue, item)
  BY DEF Take, ns
<1> HIDE DEF t
<1>4. t.queue \in ToVisit
  <2>1. item \in [sym : Symbols, depth : Nat, dirs : SUBSET Both]
    BY <1>1
  <2> HIDE DEF item
  <2>2. Append(g.queue, item) \in ToVisit /\ g.queue \in ToVisit
    BY <2>1, AppendProperties DEF GraphSound, ToVisit
  <2> QED BY <1>3, <2>2
<1>5. ASSUME NEW e \in t.edges
      PROVE  e \in (DOMAIN ns) \X (DOMAIN ns) /\ <<ns[e[1]].sym, ns[e[2]].sym>> \in Flow
  <2>1. CASE e \in g.edges
    <3>1. e \in (DOMAIN g.nodes) \X (DOMAIN g.nodes)
          /\ <<g.nodes[e[1]].sym, g.nodes[e[2]].sym>> \in Flow
      BY <2>1 DEF GraphSound
    <3>2. /\ e[1] \in DOMAIN g.nodes /\ e[2] \in DOMAIN g.nodes
          /\ e \in (DOMAIN ns) \X (DOMAIN ns)
      BY <1>2, <3>1, Pairs
    <3>3. ns[e[1]] = g.nodes[e[1]] /\ ns[e[2]] = g.nodes[e[2]]
      BY <1>2, <3>2
    <3> QED BY <3>1, <3>2, <3>3
  <2>2. CASE e \notin g.edges
    <3>1. PICK x \in o.edges : e = <<IdIn(ns, x[1]), IdIn(ns, x[2])>>
      BY <1>3, <1>5, <2>2
    <3>2. x \in Symbols \X Symbols /\ x \in Flow /\ Known(ns, x[1]) /\ Known(ns, x[2])
      BY <1>1, <1>2, <3>1
    <3>3. /\ IdIn(ns, x[1]) \in DOMAIN ns /\ ns[IdIn(ns, x[1])].sym = x[1]
          /\ IdIn(ns, x[2]) \in DOMAIN ns /\ ns[IdIn(ns, x[2])].sym = x[2]
      BY <1>2, <3>2, Finding
    <3>4. x = <<x[1], x[2]>>
      BY <3>2
    <3>5. e[1] = IdIn(ns, x[1]) /\ e[2] = IdIn(ns, x[2])
      BY <3>1
    <3>6. <<ns[e[1]].sym, ns[e[2]].sym>> = x
      BY <3>3, <3>4, <3>5
    <3>7. e \in (DOMAIN ns) \X (DOMAIN ns)
      BY <3>1, <3>3, Pairs
    <3> QED BY <3>2, <3>6, <3>7
  <2> QED BY <2>1, <2>2
<1>6. GraphSound(t)
  BY <1>2, <1>3, <1>4, <1>5 DEF GraphSound
<1> QED BY <1>2, <1>3, <1>6 DEF t

\* So does taking all offers of a symbol.
LEMMA TakingAll ==
    ASSUME NEW s \in Symbols, NEW a, GraphSound(a), Known(a.nodes, s),
           NEW os \in Seq(OffersOf(s)), NEW depth \in Nat
    PROVE  GraphSound(TakeAll(a, os, depth))
<1> DEFINE n == Len(os)
<1>1. n \in Nat /\ DOMAIN os = 1 .. n /\ \A k \in 1 .. n : os[k] \in OffersOf(s)
  BY LenProperties, ElementOfSeq
<1> HIDE DEF n
<1>2. PICK f : Steps(f, a, os, depth, n)
  BY <1>1, Folding
<1> DEFINE T == {k \in 0 .. n : GraphSound(f[k]) /\ Known(f[k].nodes, s)}
<1>3. 0 \in T
  BY <1>1, <1>2 DEF Steps
<1>4. ASSUME NEW k \in T, k < n PROVE k + 1 \in T
  <2>1. k + 1 \in 1 .. n /\ k + 1 \in 0 .. n /\ (k + 1) - 1 = k
    BY <1>1, <1>4
  <2>2. GraphSound(f[k]) /\ Known(f[k].nodes, s)
    BY <1>4
  <2>3. f[k + 1] = Take(f[k], os[k + 1], depth) /\ os[k + 1] \in OffersOf(s)
    BY <1>1, <1>2, <2>1 DEF Steps
  <2>4. GraphSound(f[k + 1]) /\ Known(f[k + 1].nodes, s)
    BY <2>2, <2>3, Taking
  <2> QED BY <2>1, <2>4
<1>5. T = 0 .. n
  <2>1. T \in SUBSET (0 .. n)
    OBVIOUS
  <2> HIDE DEF T
  <2> QED BY <1>1, <1>3, <1>4, <2>1, UpTo
<1>6. GraphSound(f[n])
  <2>1. n \in 0 .. n
    BY <1>1
  <2> QED BY <1>5, <2>1
<1> QED BY <1>2, <1>6 DEF Steps
-----------------------------------------------------------------------------
(* The offers *)

CallDiagram == Mode({"uses", "callees"})

\* Offers of s that are well made.
LEMMA Offering ==
    ASSUME NEW s \in Symbols, NEW t \in Symbols, NEW e \in Flow, e = <<s, t>> \/ e = <<t, s>>
    PROVE  /\ Offer(t, {e}, Both) \in OffersOf(s)
           /\ Fresh(t, e) \in OffersOf(s)
<1>1. {e} \in SUBSET (Symbols \X Symbols) /\ \A x \in {e} : x \in Flow /\ {x[1], x[2]} \subseteq {s, t}
  OBVIOUS
<1> QED BY <1>1 DEF Offer, Fresh, OffersOf

LEMMA Leaving ==
    ASSUME NEW s \in Symbols, NEW t \in Symbols
    PROVE  Leaf(t, {}) \in OffersOf(s)
BY DEF Leaf, Offer, OffersOf

LEMMA Ignoring ==
    ASSUME NEW s \in Symbols, NEW o \in OffersOf(s)
    PROVE  Unless(query.ignore, o) \in OffersOf(s)
<1>1. o.to \in Symbols
  BY DEF OffersOf
<1> QED BY <1>1, Leaving DEF Unless

\* The members that pass a test, piece by piece.
LEMMA Passing ==
    ASSUME NEW S, NEW U, NEW seq \in Seq(S), NEW f, DOMAIN f = DOMAIN seq,
           f = [i \in DOMAIN f |-> f[i]],
           \A i \in DOMAIN seq : f[i] = <<>> \/ (seq[i] \in U /\ f[i] = <<seq[i]>>)
    PROVE  FlattenSeq(f) \in Seq(U)
<1>1. \A i \in DOMAIN seq : f[i] \in Seq(U)
  <2>1. ASSUME NEW i \in DOMAIN seq PROVE f[i] \in Seq(U)
    <3>1. CASE f[i] = <<>>
      BY <3>1, EmptySeq
    <3>2. CASE f[i] = <<seq[i]>> /\ seq[i] \in U
      BY <3>2
    <3> QED BY <2>1, <3>1, <3>2
  <2> QED BY <2>1
<1>2. f \in Seq(Seq(U))
  BY <1>1, Mapped
<1> QED BY <1>2, Flattened

\* Call diagrams show nothing of classes.
LEMMA NoClasses ==
    ASSUME CallDiagram, NEW s, NEW depth, NEW dirs
    PROVE  /\ FieldOffers(s) = <<>> /\ MemberUseOffers(s, depth) = <<>>
           /\ SubclassOffers(s, dirs) = <<>> /\ SuperOffers(s, dirs) = <<>>
<1>1. ~Mode({"class"}) /\ ~Mode({"class", "inheritance"})
  BY DEF CallDiagram, Mode
<1> QED BY <1>1 DEF FieldOffers, MemberUseOffers, ReadsMemberUses, SubclassOffers, SuperOffers

\* A callee is offered as called.
LEMMA CalleesFlow ==
    ASSUME CallDiagram, DatabaseTyped(db), NEW s \in Symbols
    PROVE  CalleeOffers(s) \in Seq(OffersOf(s))
<1>1. CASE ~Mode({"callees"})
  BY <1>1, EmptySeq DEF CalleeOffers
<1>2. CASE Mode({"callees"})
  <2>1. db.callees[s] \in Seq(Symbols)
    BY DEF DatabaseTyped
  <2>2. PICK f : f = [i \in DOMAIN db.callees[s] |->
                        Unless(query.ignore, OnlyCallable(db.callees[s][i],
                                  Offer(db.callees[s][i], {<<s, db.callees[s][i]>>}, Both)))]
    OBVIOUS
  <2>3. CalleeOffers(s) = f
    BY <1>2, <2>2 DEF CalleeOffers, MapOffers
  <2>4. ASSUME NEW i \in DOMAIN db.callees[s] PROVE f[i] \in OffersOf(s)
    <3>1. PICK t : t = db.callees[s][i]
      OBVIOUS
    <3>2. t \in Symbols /\ t \in ToSet(db.callees[s])
      BY <2>1, <3>1, ElementOfSeq DEF ToSet
    <3>3. CASE t \in db.callable
      <4>1. <<s, t>> \in Flow
        BY <1>2, <3>2, <3>3 DEF Flow, Calls, Other, Mode
      <4>2. OnlyCallable(t, Offer(t, {<<s, t>>}, Both)) \in OffersOf(s)
        BY <3>2, <3>3, <4>1, Offering DEF OnlyCallable
      <4> QED BY <2>2, <3>1, <4>2, Ignoring
    <3>4. CASE t \notin db.callable
      <4>1. OnlyCallable(t, Offer(t, {<<s, t>>}, Both)) \in OffersOf(s)
        BY <3>2, <3>4, Leaving DEF OnlyCallable
      <4> QED BY <2>2, <3>1, <4>1, Ignoring
    <3> QED BY <3>3, <3>4
  <2>5. DOMAIN f = DOMAIN db.callees[s] /\ f = [i \in DOMAIN f |-> f[i]]
    BY <2>2
  <2> QED BY <2>1, <2>3, <2>4, <2>5, Mapped
<1> QED BY <1>1, <1>2

\* A method that is overridden is above the one that overrides it.
LEMMA OverridesFlow ==
    ASSUME CallDiagram, DatabaseTyped(db), NEW s \in Symbols
    PROVE  OverrideOffers(s) \in Seq(OffersOf(s))
<1> DEFINE up == IF Mode({"inheritance", "uses"})
                 THEN MapOffers(db.overrides[s], LAMBDA t : Fresh(t, <<t, s>>)) ELSE <<>>
           down == IF Mode({"inheritance", "callees"})
                   THEN MapOffers(db.overriddenBy[s], LAMBDA t : Fresh(t, <<s, t>>)) ELSE <<>>
<1>1. up \in Seq(OffersOf(s))
  <2>1. db.overrides[s] \in Seq(Symbols)
    BY DEF DatabaseTyped
  <2>2. PICK f : f = [i \in DOMAIN db.overrides[s] |->
                        Unless(query.ignore, Fresh(db.overrides[s][i], <<db.overrides[s][i], s>>))]
    OBVIOUS
  <2>3. up = f \/ up = <<>>
    BY <2>2 DEF MapOffers
  <2>4. ASSUME NEW i \in DOMAIN db.overrides[s] PROVE f[i] \in OffersOf(s)
    <3>1. PICK t : t = db.overrides[s][i]
      OBVIOUS
    <3>2. t \in Symbols /\ t \in ToSet(db.overrides[s])
      BY <2>1, <3>1, ElementOfSeq DEF ToSet
    <3>3. <<t, s>> \in Flow
      BY <3>2 DEF Flow, Overriding
    <3>4. Fresh(t, <<t, s>>) \in OffersOf(s)
      BY <3>2, <3>3, Offering
    <3> QED BY <2>2, <3>1, <3>4, Ignoring
  <2>5. DOMAIN f = DOMAIN db.overrides[s] /\ f = [i \in DOMAIN f |-> f[i]]
    BY <2>2
  <2>6. f \in Seq(OffersOf(s))
    BY <2>1, <2>4, <2>5, Mapped
  <2> HIDE DEF up
  <2> QED BY <2>3, <2>6, EmptySeq
<1>2. down \in Seq(OffersOf(s))
  <2>1. db.overriddenBy[s] \in Seq(Symbols)
    BY DEF DatabaseTyped
  <2>2. PICK f : f = [i \in DOMAIN db.overriddenBy[s] |->
                        Unless(query.ignore, Fresh(db.overriddenBy[s][i], <<s, db.overriddenBy[s][i]>>))]
    OBVIOUS
  <2>3. down = f \/ down = <<>>
    BY <2>2 DEF MapOffers
  <2>4. ASSUME NEW i \in DOMAIN db.overriddenBy[s] PROVE f[i] \in OffersOf(s)
    <3>1. PICK t : t = db.overriddenBy[s][i]
      OBVIOUS
    <3>2. t \in Symbols /\ t \in ToSet(db.overriddenBy[s])
      BY <2>1, <3>1, ElementOfSeq DEF ToSet
    <3>3. <<s, t>> \in Flow
      BY <3>2 DEF Flow, Overriding
    <3>4. Fresh(t, <<s, t>>) \in OffersOf(s)
      BY <3>2, <3>3, Offering
    <3> QED BY <2>2, <3>1, <3>4, Ignoring
  <2>5. DOMAIN f = DOMAIN db.overriddenBy[s] /\ f = [i \in DOMAIN f |-> f[i]]
    BY <2>2
  <2>6. f \in Seq(OffersOf(s))
    BY <2>1, <2>4, <2>5, Mapped
  <2> HIDE DEF down
  <2> QED BY <2>3, <2>6, EmptySeq
<1>3. OverrideOffers(s) = up \o down
  BY DEF OverrideOffers
<1> HIDE DEF up, down
<1> QED BY <1>1, <1>2, <1>3, Joined

\* The hits that are read are hits the database lists.
LEMMA HitsRead ==
    ASSUME DatabaseTyped(db), NEW s \in Symbols
    PROVE  UsesRead(s) \in Seq(Seq({t \in Symbols : \E hits \in ToSet(db.uses[s]) : t \in ToSet(hits)}))
<1> DEFINE U == {t \in Symbols : \E hits \in ToSet(db.uses[s]) : t \in ToSet(hits)}
           u == db.uses[s]
<1>1. u \in Seq(Seq(Symbols)) /\ Len(u) \in Nat /\ DOMAIN u = 1 .. Len(u)
  <2>1. u \in Seq(Seq(Symbols))
    BY DEF DatabaseTyped
  <2> HIDE DEF u
  <2> QED BY <2>1, LenProperties
<1> HIDE DEF u
<1>2. ASSUME NEW i \in 1 .. Len(u) PROVE u[i] \in Seq(U)
  <2>1. u[i] \in Seq(Symbols) /\ u[i] \in ToSet(u)
    BY <1>1, ElementOfSeq DEF ToSet
  <2>2. \A j \in DOMAIN u[i] : u[i][j] \in Symbols /\ u[i][j] \in ToSet(u[i])
    BY <2>1, LenProperties, ElementOfSeq DEF ToSet
  <2>3. \A j \in DOMAIN u[i] : u[i][j] \in U
    BY <2>1, <2>2 DEF u
  <2>4. u[i] = [j \in DOMAIN u[i] |-> u[i][j]]
    BY <2>1
  <2> HIDE DEF U
  <2> QED BY <2>1, <2>3, <2>4, Mapped
<1> HIDE DEF U
<1>3. u \in Seq(Seq(U))
  <2>1. u = [i \in DOMAIN u |-> u[i]]
    BY <1>1
  <2> QED BY <1>1, <1>2, <2>1, Mapped
<1>4. PICK cut : cut = {k \in DOMAIN u : HitsUpTo(u, k) >= query.useLimit}
  OBVIOUS
<1>5. UsesRead(s) = <<>> \/ UsesRead(s) = u \/ (cut # {} /\ UsesRead(s) = SubSeq(u, 1, Min(cut) - 1))
  BY <1>4 DEF UsesRead, u
<1>6. ASSUME cut # {} PROVE SubSeq(u, 1, Min(cut) - 1) \in Seq(Seq(U))
  <2>1. cut \in SUBSET Nat /\ cut \subseteq DOMAIN u
    BY <1>1, <1>4
  <2>2. Min(cut) \in cut
    BY <1>6, <2>1, MinChosen
  <2>3. PICK c : c = Min(cut)
    OBVIOUS
  <2>4. c \in 1 .. Len(u)
    BY <1>1, <2>1, <2>2, <2>3
  <2>5. c - 1 \in 0 .. Len(u)
    BY <1>1, <2>4
  <2>6. SubSeq(u, 1, c - 1) \in Seq(Seq(U))
    BY <1>3, <2>5, SubSeqProperties
  <2> QED BY <2>3, <2>6
<1>7. UsesRead(s) \in Seq(Seq(U))
  BY <1>3, <1>5, <1>6, EmptySeq
<1> QED BY <1>7 DEF U, u

\* Whoever uses the symbol is offered as its caller.
LEMMA UsesFlow ==
    ASSUME CallDiagram, DatabaseTyped(db), NEW s \in Symbols
    PROVE  UseOffers(s) \in Seq(OffersOf(s))
<1> DEFINE U == {t \in Symbols : \E hits \in ToSet(db.uses[s]) : t \in ToSet(hits)}
<1>1. PICK h : h = FlattenSeq(UsesRead(s))
  OBVIOUS
<1>2. h \in Seq(U)
  <2>1. UsesRead(s) \in Seq(Seq(U))
    BY HitsRead
  <2> HIDE DEF U
  <2> QED BY <1>1, <2>1, Flattened
<1>3. PICK f : f = [i \in DOMAIN h |->
                      Unless(query.ignore, OnlyCallable(h[i], Offer(h[i], {<<h[i], s>>}, Both)))]
  OBVIOUS
<1>4. UseOffers(s) = f
  BY <1>1, <1>3 DEF UseOffers, MapOffers
<1>5. CASE ~Mode({"uses"})
  <2>1. UsesRead(s) = <<>>
    BY <1>5 DEF UsesRead
  <2>2. h = <<>>
    BY <1>1, <2>1 DEF FlattenSeq
  <2>3. f = <<>>
    BY <1>3, <2>2
  <2> QED BY <1>4, <2>3, EmptySeq
<1>6. CASE Mode({"uses"})
  <2>1. ASSUME NEW i \in DOMAIN h PROVE f[i] \in OffersOf(s)
    <3>1. PICK t : t = h[i]
      OBVIOUS
    <3>2. t \in U
      BY <1>2, <2>1, <3>1, LenProperties, ElementOfSeq
    <3>3. CASE t \in db.callable
      <4>1. <<t, s>> \in Flow
        BY <1>6, <3>2, <3>3 DEF Flow, Calls, Other, Mode
      <4>2. OnlyCallable(t, Offer(t, {<<t, s>>}, Both)) \in OffersOf(s)
        BY <3>2, <3>3, <4>1, Offering DEF OnlyCallable
      <4> QED BY <1>3, <2>1, <3>1, <4>2, Ignoring
    <3>4. CASE t \notin db.callable
      <4>1. OnlyCallable(t, Offer(t, {<<t, s>>}, Both)) \in OffersOf(s)
        BY <3>2, <3>4, Leaving DEF OnlyCallable
      <4> QED BY <1>3, <2>1, <3>1, <4>1, Ignoring
    <3> QED BY <3>3, <3>4
  <2>2. DOMAIN f = DOMAIN h /\ f = [i \in DOMAIN f |-> f[i]]
    BY <1>3
  <2> HIDE DEF U
  <2> QED BY <1>2, <1>4, <2>1, <2>2, Mapped
<1> QED BY <1>5, <1>6

\* A wrapper calls what it wraps.
LEMMA WrappersFlow ==
    ASSUME CallDiagram, DatabaseTyped(db), NEW s \in Symbols
    PROVE  WrapperOffers(s) \in Seq(OffersOf(s))
<1> DEFINE U == {b \in ToSet(db.slots[s]) : b.sym \in Symbols /\ b.lang # "Idl" /\ b.kind # "Class"}
<1>1. PICK w : w = Wrappers(s)
  OBVIOUS
<1>2. w \in Seq(U)
  <2>1. CASE ~Mode({"uses"})
    BY <1>1, <2>1, EmptySeq DEF Wrappers
  <2>2. CASE Mode({"uses"})
    <3>1. PICK seq : seq = db.slots[s]
      OBVIOUS
    <3>2. seq \in Seq(Slots)
      BY <3>1 DEF DatabaseTyped
    <3>3. PICK f : f = [i \in DOMAIN seq |-> IF seq[i].lang # "Idl" /\ seq[i].kind # "Class"
                                              THEN <<seq[i]>> ELSE <<>>]
      OBVIOUS
    <3>4. w = FlattenSeq(f)
      BY <1>1, <2>2, <3>1, <3>3 DEF Wrappers, Where
    <3>5. \A i \in DOMAIN seq : seq[i] \in ToSet(seq) /\ seq[i].sym \in Symbols
      <4>1. \A i \in DOMAIN seq : seq[i] \in ToSet(seq) /\ seq[i] \in Slots
        BY <3>2, Members
      <4> QED BY <4>1 DEF Slots
    <3>6. \A i \in DOMAIN seq : f[i] = <<>> \/ (seq[i] \in U /\ f[i] = <<seq[i]>>)
      BY <3>1, <3>3, <3>5
    <3>7. DOMAIN f = DOMAIN seq /\ f = [i \in DOMAIN f |-> f[i]]
      BY <3>3
    <3> HIDE DEF U
    <3> QED BY <3>2, <3>4, <3>6, <3>7, Passing
  <2> QED BY <2>1, <2>2
<1>3. PICK f : f = [i \in DOMAIN w |-> Unless(query.ignore, Offer(w[i].sym, {<<w[i].sym, s>>}, Both))]
  OBVIOUS
<1>4. WrapperOffers(s) = f
  BY <1>1, <1>3 DEF WrapperOffers, MapOffers
<1>5. ASSUME NEW i \in DOMAIN w PROVE f[i] \in OffersOf(s)
  <2>1. PICK b : b = w[i]
    OBVIOUS
  <2>2. b \in U
    BY <1>2, <1>5, <2>1, LenProperties, ElementOfSeq
  <2>3. <<b.sym, s>> \in Flow
    BY <2>2 DEF Flow, Crossings
  <2>4. Offer(b.sym, {<<b.sym, s>>}, Both) \in OffersOf(s)
    BY <2>2, <2>3, Offering
  <2> QED BY <1>3, <2>1, <2>4, Ignoring
<1>6. DOMAIN f = DOMAIN w /\ f = [i \in DOMAIN f |-> f[i]]
  BY <1>3
<1> HIDE DEF U
<1> QED BY <1>2, <1>4, <1>5, <1>6, Mapped

\* A constructor leads to the run method, from whichever the walk comes.
LEMMA ShortcutsFlow ==
    ASSUME CallDiagram, DatabaseTyped(db), NEW s \in Symbols
    PROVE  ShortcutOffers(s) \in Seq(OffersOf(s))
<1> DEFINE wanted == IF Mode({"uses"}) THEN "RunnableConstructor"
                     ELSE IF Mode({"callees"}) THEN "RunnableMethod" ELSE "none"
           U == {o \in ToSet(db.ontology[s]) : o.syms \in Seq(Symbols) /\ o.kind = wanted}
           out == Mode({"callees"})
<1>1. PICK w : w = Shortcuts(s)
  OBVIOUS
<1>2. w \in Seq(U)
  <2>1. PICK seq : seq = db.ontology[s]
    OBVIOUS
  <2>2. seq \in Seq([kind : STRING, syms : Seq(Symbols)])
    BY <2>1 DEF DatabaseTyped
  <2>3. PICK f : f = [i \in DOMAIN seq |-> IF seq[i].kind = wanted THEN <<seq[i]>> ELSE <<>>]
    OBVIOUS
  <2>4. w = FlattenSeq(f)
    BY <1>1, <2>1, <2>3 DEF Shortcuts, Where
  <2> HIDE DEF wanted
  <2>5. \A i \in DOMAIN seq : seq[i] \in ToSet(seq) /\ seq[i].syms \in Seq(Symbols)
    <3>1. \A i \in DOMAIN seq : seq[i] \in ToSet(seq) /\ seq[i] \in [kind : STRING, syms : Seq(Symbols)]
      BY <2>2, Members
    <3> QED BY <3>1
  <2>6. \A i \in DOMAIN seq : f[i] = <<>> \/ (seq[i] \in U /\ f[i] = <<seq[i]>>)
    BY <2>1, <2>3, <2>5
  <2>7. DOMAIN f = DOMAIN seq /\ f = [i \in DOMAIN f |-> f[i]]
    BY <2>3
  <2> HIDE DEF U
  <2> QED BY <2>2, <2>4, <2>6, <2>7, Passing
<1>3. ASSUME NEW o \in U, NEW t \in ToSet(o.syms)
      PROVE  t \in Symbols /\ Offer(t, Between(s, t, out), Both) \in OffersOf(s)
  <2>1. t \in Symbols
    BY <1>3, LenProperties, ElementOfSeq DEF ToSet
  <2>2. Mode({"uses"}) <=> ~out
    BY DEF CallDiagram, Mode
  <2>3. CASE out
    <3>1. <<s, t>> \in Flow
      BY <1>3, <2>1, <2>2, <2>3 DEF Flow, Crossings
    <3> QED BY <2>1, <2>3, <3>1, Offering DEF Between
  <2>4. CASE ~out
    <3>1. <<t, s>> \in Flow
      BY <1>3, <2>1, <2>2, <2>4 DEF Flow, Crossings
    <3> QED BY <2>1, <2>4, <3>1, Offering DEF Between
  <2> QED BY <2>1, <2>3, <2>4
<1>4. PICK ss : ss = [i \in DOMAIN w |-> [j \in DOMAIN w[i].syms |->
                        Unless(query.ignore, Offer(w[i].syms[j], Between(s, w[i].syms[j], out), Both))]]
  OBVIOUS
<1>5. ShortcutOffers(s) = FlattenSeq(ss)
  BY <1>1, <1>4 DEF ShortcutOffers, MapOffers
<1> HIDE DEF out, wanted
<1>6. ASSUME NEW i \in DOMAIN w PROVE ss[i] \in Seq(OffersOf(s))
  <2>1. PICK o : o = w[i]
    OBVIOUS
  <2>2. o \in U
    BY <1>2, <1>6, <2>1, LenProperties, ElementOfSeq
  <2>3. PICK f : f = [j \in DOMAIN o.syms |->
                        Unless(query.ignore, Offer(o.syms[j], Between(s, o.syms[j], out), Both))]
    OBVIOUS
  <2>4. ss[i] = f
    BY <1>4, <1>6, <2>1, <2>3
  <2>5. ASSUME NEW j \in DOMAIN o.syms PROVE f[j] \in OffersOf(s)
    <3>1. PICK t : t = o.syms[j]
      OBVIOUS
    <3>2. t \in ToSet(o.syms)
      BY <2>2, <3>1 DEF ToSet
    <3>3. Offer(t, Between(s, t, out), Both) \in OffersOf(s)
      BY <1>3, <2>2, <3>2
    <3> QED BY <2>3, <3>1, <3>3, Ignoring
  <2>6. DOMAIN f = DOMAIN o.syms /\ f = [j \in DOMAIN f |-> f[j]]
    BY <2>3
  <2>7. o.syms \in Seq(Symbols)
    BY <2>2
  <2> QED BY <2>4, <2>5, <2>6, <2>7, Mapped
<1>7. DOMAIN ss = DOMAIN w /\ ss = [i \in DOMAIN ss |-> ss[i]]
  BY <1>4
<1> HIDE DEF U
<1>8. ss \in Seq(Seq(OffersOf(s)))
  BY <1>2, <1>6, <1>7, Mapped
<1> QED BY <1>5, <1>8, Flattened

\* The slot of an owner: three kinds are followed, each its own way.
LEMMA Rules ==
    ASSUME CallDiagram, NEW slot \in Slots, OwnerRule(slot).follow
    PROVE  LET rule == OwnerRule(slot)
           IN  \/ /\ slot.kind = "Send" /\ Mode({"callees"})
                  /\ rule.via = "Recv" /\ rule.out = TRUE
               \/ /\ slot.kind = "Recv" /\ Mode({"uses"})
                  /\ rule.via = "Send" /\ rule.out = FALSE
               \/ /\ slot.lang = "Idl" /\ Implements(slot)
                  /\ rule.via = "none" /\ rule.out = FALSE
               \/ /\ slot.lang # "Idl" /\ slot.kind # "Class" /\ Implements(slot)
                  /\ rule.via = "none" /\ rule.out = TRUE
<1>1. slot.kind \notin {"EnablingPref", "EnablingFunc", "Const"}
  <2> SUFFICES ASSUME slot.kind \in {"EnablingPref", "EnablingFunc", "Const"} PROVE FALSE
    OBVIOUS
  <2>1. OwnerRule(slot) = [follow |-> FALSE, last |-> FALSE, via |-> "none", out |-> FALSE]
    BY DEF OwnerRule
  <2> QED BY <2>1
<1>2. CASE slot.kind = "Send"
  <2>1. OwnerRule(slot) = [follow |-> Mode({"callees"}), last |-> TRUE, via |-> "Recv", out |-> TRUE]
    BY <1>2 DEF OwnerRule
  <2> QED BY <1>2, <2>1
<1>3. CASE slot.kind = "Recv"
  <2>1. OwnerRule(slot) = [follow |-> Mode({"uses"}), last |-> TRUE, via |-> "Send", out |-> FALSE]
    BY <1>3 DEF OwnerRule
  <2> QED BY <1>3, <2>1
<1>4. CASE slot.kind \notin {"Send", "Recv"} /\ slot.lang = "Idl"
  BY <1>1, <1>4 DEF OwnerRule, Implements
<1>5. CASE slot.kind \notin {"Send", "Recv"} /\ slot.lang # "Idl"
  BY <1>1, <1>5 DEF OwnerRule, Implements
<1> QED BY <1>2, <1>3, <1>4, <1>5

\* The other ends of a message are slots of its owner.
LEMMA EndsFound ==
    ASSUME DatabaseTyped(db), NEW slot \in Slots
    PROVE  OtherEnds(slot) \in Seq({b \in ToSet(db.slots[slot.sym]) :
                                       b.sym \in Symbols /\ b.kind = OwnerRule(slot).via})
<1> DEFINE via == OwnerRule(slot).via
           U == {b \in ToSet(db.slots[slot.sym]) : b.sym \in Symbols /\ b.kind = via}
<1>1. PICK seq : seq = db.slots[slot.sym]
  OBVIOUS
<1>2. seq \in Seq(Slots)
  <2>1. slot.sym \in Symbols
    BY DEF Slots
  <2> QED BY <1>1, <2>1 DEF DatabaseTyped
<1>3. PICK f : f = [i \in DOMAIN seq |-> IF seq[i].kind = via THEN <<seq[i]>> ELSE <<>>]
  OBVIOUS
<1>4. OtherEnds(slot) = FlattenSeq(f)
  BY <1>1, <1>3 DEF OtherEnds, Where
<1> HIDE DEF via
<1>5. \A i \in DOMAIN seq : seq[i] \in ToSet(seq) /\ seq[i].sym \in Symbols
  <2>1. \A i \in DOMAIN seq : seq[i] \in ToSet(seq) /\ seq[i] \in Slots
    BY <1>2, Members
  <2> QED BY <2>1 DEF Slots
<1>6. \A i \in DOMAIN seq : f[i] = <<>> \/ (seq[i] \in U /\ f[i] = <<seq[i]>>)
  BY <1>1, <1>3, <1>5
<1>7. DOMAIN f = DOMAIN seq /\ f = [i \in DOMAIN f |-> f[i]]
  BY <1>3
<1> HIDE DEF U
<1>8. FlattenSeq(f) \in Seq(U)
  BY <1>2, <1>6, <1>7, Passing
<1> QED BY <1>4, <1>8 DEF U, via

\* So each slot is crossed from the end that has control to the one that gets it.
LEMMA SlotsFlow ==
    ASSUME CallDiagram, DatabaseTyped(db), NEW s \in Symbols, NEW slot \in ToSet(db.owner[s]), slot \in Slots
    PROVE  SlotOffers(s, slot) \in Seq(OffersOf(s))
<1> DEFINE rule == OwnerRule(slot)
           To(t) == Unless(query.ignore, Offer(t, Between(s, t, rule.out), Both))
           end == OtherEnds(slot)[1]
<1>1. SlotOffers(s, slot) = IF ~rule.follow THEN <<>>
                            ELSE IF rule.via = "none" THEN <<To(slot.sym)>>
                            ELSE IF OtherEnds(slot) = <<>> THEN <<Leaf(slot.sym, {})>>
                            ELSE <<Leaf(slot.sym, {}), To(end.sym)>>
  BY DEF SlotOffers
<1>2. slot.sym \in Symbols
  BY DEF Slots
<1>3. ASSUME NEW t \in Symbols,
             \/ <<s, t>> \in Flow /\ rule.out = TRUE
             \/ <<t, s>> \in Flow /\ rule.out = FALSE
      PROVE  To(t) \in OffersOf(s)
  <2>1. Offer(t, Between(s, t, rule.out), Both) \in OffersOf(s)
    <3>1. CASE <<s, t>> \in Flow /\ rule.out = TRUE
      BY <3>1, Offering DEF Between
    <3>2. CASE <<t, s>> \in Flow /\ rule.out = FALSE
      BY <3>2, Offering DEF Between
    <3> QED BY <1>3, <3>1, <3>2
  <2> QED BY <2>1, Ignoring
<1>4. Leaf(slot.sym, {}) \in OffersOf(s)
  BY <1>2, Leaving
<1>5. CASE ~rule.follow
  BY <1>1, <1>5, EmptySeq
<1>6. CASE rule.follow /\ rule.via = "none"
  <2>1. \/ slot.lang = "Idl" /\ Implements(slot) /\ rule.out = FALSE
        \/ slot.lang # "Idl" /\ slot.kind # "Class" /\ Implements(slot) /\ rule.out = TRUE
    BY <1>6, Rules
  <2>2. \/ <<s, slot.sym>> \in Flow /\ rule.out = TRUE
        \/ <<slot.sym, s>> \in Flow /\ rule.out = FALSE
    <3> HIDE DEF rule
    <3> QED BY <1>2, <2>1 DEF Flow, Crossings
  <2>3. To(slot.sym) \in OffersOf(s)
    BY <1>2, <1>3, <2>2
  <2> HIDE DEF To, rule
  <2>4. SlotOffers(s, slot) = <<To(slot.sym)>>
    BY <1>1, <1>6
  <2> QED BY <2>3, <2>4
<1>7. CASE rule.follow /\ rule.via # "none"
  <2>1. CASE OtherEnds(slot) = <<>>
    <3>1. SlotOffers(s, slot) = <<Leaf(slot.sym, {})>>
      BY <1>1, <1>7, <2>1
    <3> QED BY <1>4, <3>1
  <2>2. CASE OtherEnds(slot) # <<>>
    <3>1. end \in ToSet(db.slots[slot.sym]) /\ end.sym \in Symbols /\ end.kind = rule.via
      <4> DEFINE U == {b \in ToSet(db.slots[slot.sym]) : b.sym \in Symbols /\ b.kind = rule.via}
      <4>1. OtherEnds(slot) \in Seq(U)
        BY EndsFound
      <4> HIDE DEF U
      <4>2. 1 \in DOMAIN OtherEnds(slot)
        BY <2>2, <4>1, LenProperties, EmptySeq
      <4>3. end \in U
        BY <4>1, <4>2, Members
      <4> QED BY <4>3 DEF U
    <3>2. \/ slot.kind = "Send" /\ rule.via = "Recv" /\ rule.out = TRUE
          \/ slot.kind = "Recv" /\ rule.via = "Send" /\ rule.out = FALSE
      BY <1>7, Rules
    <3> HIDE DEF rule, end
    <3>3. Fills(s, slot.sym, slot.kind) /\ Fills(end.sym, slot.sym, rule.via)
      BY <3>1 DEF Fills
    <3>4. \/ <<s, end.sym>> \in Flow /\ rule.out = TRUE
          \/ <<end.sym, s>> \in Flow /\ rule.out = FALSE
      BY <1>2, <3>1, <3>2, <3>3 DEF Flow, Crossings
    <3>5. To(end.sym) \in OffersOf(s)
      BY <1>3, <3>1, <3>4
    <3> HIDE DEF To
    <3>6. SlotOffers(s, slot) = <<Leaf(slot.sym, {}), To(end.sym)>>
      BY <1>1, <1>7, <2>2
    <3> QED BY <1>4, <3>5, <3>6
  <2> QED BY <2>1, <2>2
<1> QED BY <1>5, <1>6, <1>7

LEMMA OwnersFlow ==
    ASSUME CallDiagram, DatabaseTyped(db), NEW s \in Symbols
    PROVE  OwnerOffers(s) \in Seq(OffersOf(s))
<1>1. PICK seq : seq = db.owner[s]
  OBVIOUS
<1>2. seq \in Seq(Slots)
  BY <1>1 DEF DatabaseTyped
<1>3. PICK ss : ss = [i \in DOMAIN seq |-> SlotOffers(s, seq[i])]
  OBVIOUS
<1>4. OwnerOffers(s) = FlattenSeq(ss)
  BY <1>1, <1>3 DEF OwnerOffers
<1>5. ASSUME NEW i \in DOMAIN seq PROVE ss[i] \in Seq(OffersOf(s))
  <2>1. seq[i] \in ToSet(db.owner[s]) /\ seq[i] \in Slots
    BY <1>1, <1>2, Members
  <2>2. SlotOffers(s, seq[i]) \in Seq(OffersOf(s))
    BY <2>1, SlotsFlow
  <2> QED BY <1>3, <2>2
<1>6. DOMAIN ss = DOMAIN seq /\ ss = [i \in DOMAIN ss |-> ss[i]]
  BY <1>3
<1>7. ss \in Seq(Seq(OffersOf(s)))
  BY <1>2, <1>5, <1>6, Mapped
<1> QED BY <1>4, <1>7, Flattened

\* All a symbol offers to a call diagram is control flow at that symbol.
LEMMA AllFlow ==
    ASSUME CallDiagram, DatabaseTyped(db), NEW s \in Symbols, NEW depth, NEW dirs
    PROVE  Offers(s, depth, dirs) \in Seq(OffersOf(s))
<1> DEFINE D == Direct(s, dirs)
           C == ShortcutOffers(s) \o IF Shortcuts(s) # <<>> THEN <<>> ELSE D
           W == WrapperOffers(s) \o IF Wrappers(s) # <<>> THEN <<>> ELSE C
           O == IF OwnerIsLast(s) THEN <<>> ELSE W
           X == Seq(OffersOf(s))
<1>1. <<>> \in X
  BY EmptySeq
<1>2. /\ FieldOffers(s) = <<>> /\ MemberUseOffers(s, depth) = <<>>
      /\ SubclassOffers(s, dirs) = <<>> /\ SuperOffers(s, dirs) = <<>>
  BY NoClasses
<1>3. /\ OverrideOffers(s) \in X /\ CalleeOffers(s) \in X /\ UseOffers(s) \in X
      /\ ShortcutOffers(s) \in X /\ WrapperOffers(s) \in X /\ OwnerOffers(s) \in X
  BY OverridesFlow, CalleesFlow, UsesFlow, ShortcutsFlow, WrappersFlow, OwnersFlow
<1>4. \A p, q \in X : p \o q \in X
  BY Joined
<1>5. D = (((SubclassOffers(s, dirs) \o SuperOffers(s, dirs)) \o OverrideOffers(s))
              \o CalleeOffers(s)) \o UseOffers(s)
  BY DEF Direct
<1>6. Offers(s, depth, dirs) = ((FieldOffers(s) \o MemberUseOffers(s, depth)) \o OwnerOffers(s)) \o O
  BY DEF Offers
<1> HIDE DEF X, D
<1>7. D \in X
  BY <1>1, <1>2, <1>3, <1>4, <1>5
<1>8. C \in X
  <2>1. (IF Shortcuts(s) # <<>> THEN <<>> ELSE D) \in X
    BY <1>1, <1>7
  <2> QED BY <1>3, <1>4, <2>1
<1> HIDE DEF C
<1>9. W \in X
  <2>1. (IF Wrappers(s) # <<>> THEN <<>> ELSE C) \in X
    BY <1>1, <1>8
  <2> QED BY <1>3, <1>4, <2>1
<1> HIDE DEF W
<1>10. O \in X
  BY <1>1, <1>9
<1> HIDE DEF O
<1>11. Offers(s, depth, dirs) \in X
  BY <1>1, <1>2, <1>3, <1>4, <1>6, <1>10
<1> QED BY <1>11 DEF X
-----------------------------------------------------------------------------
(* The invariant: whatever is queued or drawn is about symbols that have     *)
(* their node, and every edge is control flow.                               *)
Graph == [nodes |-> nodes, edges |-> edges, queue |-> queue]

TraverseInv ==
    /\ DatabaseTyped(db)
    /\ CallDiagram => GraphSound(Graph)

\* The roots are nodes, and those among them that are targets are queued.
LEMMA TraverseStarts ==
    ASSUME TraverseInit(db, query)
    PROVE  TraverseInv
<1> DEFINE Roots == [sym : Symbols, flags : SUBSET {"Source", "Target"}]
<1>1. PICK roots : roots = query.roots
  OBVIOUS
<1>2. roots \in Seq(Roots) /\ DatabaseTyped(db)
  BY <1>1 DEF TraverseInit, QueryTyped
<1>3. nodes \in NodeSet
  <2>1. nodes = [i \in DOMAIN roots |-> [sym |-> roots[i].sym, depth |-> 0]]
    BY <1>1 DEF TraverseInit
  <2>2. \A i \in DOMAIN roots : nodes[i] \in [sym : Symbols, depth : Nat]
    <3>1. \A i \in DOMAIN roots : roots[i] \in Roots
      BY <1>2, Members
    <3> QED BY <2>1, <3>1
  <2>3. DOMAIN nodes = DOMAIN roots /\ nodes = [i \in DOMAIN nodes |-> nodes[i]]
    BY <2>1
  <2> HIDE DEF Roots
  <2> QED BY <1>2, <2>2, <2>3, Mapped DEF NodeSet
<1>4. queue \in ToVisit
  <2>1. PICK f : f = [i \in DOMAIN roots |-> IF IsTarget(roots[i]) THEN <<roots[i]>> ELSE <<>>]
    OBVIOUS
  <2>2. PICK targets : targets = FlattenSeq(f)
    OBVIOUS
  <2>3. targets \in Seq(Roots)
    <3>1. \A i \in DOMAIN roots : roots[i] \in Roots
      BY <1>2, Members
    <3>2. \A i \in DOMAIN roots : f[i] = <<>> \/ (roots[i] \in Roots /\ f[i] = <<roots[i]>>)
      BY <2>1, <3>1
    <3>3. DOMAIN f = DOMAIN roots /\ f = [i \in DOMAIN f |-> f[i]]
      BY <2>1
    <3> HIDE DEF Roots
    <3> QED BY <1>2, <2>2, <3>2, <3>3, Passing
  <2>4. queue = [i \in DOMAIN targets |-> [sym |-> targets[i].sym, depth |-> 0, dirs |-> Both]]
    BY <1>1, <2>1, <2>2 DEF TraverseInit, RootQueue, Where
  <2>5. \A i \in DOMAIN targets : queue[i] \in [sym : Symbols, depth : Nat, dirs : SUBSET Both]
    <3>1. \A i \in DOMAIN targets : targets[i] \in Roots
      BY <2>3, Members
    <3> QED BY <2>4, <3>1
  <2>6. DOMAIN queue = DOMAIN targets /\ queue = [i \in DOMAIN queue |-> queue[i]]
    BY <2>4
  <2> DEFINE Q == [sym : Symbols, depth : Nat, dirs : SUBSET Both]
  <2>7. \A i \in DOMAIN targets : queue[i] \in Q
    BY <2>5
  <2> HIDE DEF Roots, Q
  <2>8. queue \in Seq(Q)
    BY <2>3, <2>6, <2>7, Mapped
  <2> QED BY <2>8 DEF ToVisit, Q
<1>5. edges = {}
  BY DEF TraverseInit
<1> QED BY <1>2, <1>3, <1>4, <1>5 DEF TraverseInv, GraphSound, Graph

\* A visit takes what the head of the queue offers.
LEMMA Visiting ==
    ASSUME TraverseInv, CallDiagram, Visit
    PROVE  GraphSound(Graph')
<1> DEFINE v == Head(queue)
           start == [nodes |-> Ensure(nodes, v.sym, v.depth), edges |-> edges,
                     considered |-> considered, queue |-> Tail(queue)]
           offers == IF Stops(v.sym, v.depth) THEN <<>> ELSE Offers(v.sym, v.depth, v.dirs)
           end == TakeAll(start, offers, v.depth)
<1>1. /\ queue # <<>> /\ nodes' = end.nodes /\ edges' = end.edges /\ queue' = end.queue
  BY DEF Visit
<1>2. nodes \in NodeSet /\ queue \in ToVisit /\ GraphSound(Graph) /\ DatabaseTyped(db)
  BY DEF TraverseInv, GraphSound, Graph
<1>3. v.sym \in Symbols /\ v.depth \in Nat /\ Tail(queue) \in ToVisit
  <2> DEFINE Q == [sym : Symbols, depth : Nat, dirs : SUBSET Both]
  <2>1. queue \in Seq(Q)
    BY <1>2 DEF ToVisit
  <2> HIDE DEF Q
  <2>2. v \in Q /\ Tail(queue) \in Seq(Q)
    BY <1>1, <2>1, HeadTailProperties
  <2> QED BY <2>2 DEF Q, ToVisit
<1> HIDE DEF v
<1>4. GraphSound(start) /\ Known(start.nodes, v.sym)
  <2> DEFINE ns == Ensure(nodes, v.sym, v.depth)
  <2>1. /\ ns \in NodeSet /\ Known(ns, v.sym) /\ DOMAIN nodes \subseteq DOMAIN ns
        /\ \A i \in DOMAIN nodes : ns[i] = nodes[i]
    BY <1>2, <1>3, Ensuring
  <2> HIDE DEF ns
  <2>2. ASSUME NEW e \in edges
        PROVE  e \in (DOMAIN ns) \X (DOMAIN ns) /\ <<ns[e[1]].sym, ns[e[2]].sym>> \in Flow
    <3>1. e \in (DOMAIN nodes) \X (DOMAIN nodes) /\ <<nodes[e[1]].sym, nodes[e[2]].sym>> \in Flow
      BY <1>2, <2>2 DEF GraphSound, Graph
    <3>2. /\ e[1] \in DOMAIN nodes /\ e[2] \in DOMAIN nodes
          /\ e \in (DOMAIN ns) \X (DOMAIN ns)
      BY <2>1, <3>1
    <3>3. ns[e[1]] = nodes[e[1]] /\ ns[e[2]] = nodes[e[2]]
      BY <2>1, <3>2
    <3> QED BY <3>1, <3>2, <3>3
  <2>3. start.nodes = ns /\ start.edges = edges /\ start.queue = Tail(queue)
    BY DEF ns
  <2> HIDE DEF start
  <2> QED BY <1>3, <2>1, <2>2, <2>3 DEF GraphSound
<1>5. offers \in Seq(OffersOf(v.sym))
  <2>1. Offers(v.sym, v.depth, v.dirs) \in Seq(OffersOf(v.sym))
    BY <1>2, <1>3, AllFlow
  <2> QED BY <2>1, EmptySeq
<1> HIDE DEF start, offers
<1>6. GraphSound(end)
  BY <1>3, <1>4, <1>5, TakingAll
<1>7. Graph'.nodes = end.nodes /\ Graph'.edges = end.edges /\ Graph'.queue = end.queue
  BY <1>1 DEF Graph
<1> HIDE DEF end
<1> QED BY <1>6, <1>7 DEF GraphSound

\* Only visits draw; the database and the query stay as they are.
LEMMA TraverseSteps ==
    ASSUME TraverseInv, [TraverseNext]_traverseVars
    PROVE  TraverseInv'
<1>1. db' = db /\ query' = query
  BY DEF TraverseNext, Visit, HitNodeLimit, Traversed, CopyPath, PathsCopied, traverseVars
<1>2. DatabaseTyped(db)'
  BY <1>1 DEF TraverseInv, DatabaseTyped, Slots
<1>3. Flow' = Flow /\ CallDiagram' = CallDiagram
  BY <1>1 DEF Flow, Calls, Overriding, Crossings, Fills, Implements, Other, CallDiagram, Mode
<1>4. ASSUME CallDiagram PROVE GraphSound(Graph')
  <2>1. GraphSound(Graph)
    BY <1>4 DEF TraverseInv
  <2>2. CASE Visit
    BY <1>4, <2>2, Visiting
  <2>3. CASE HitNodeLimit
    <3>1. nodes' = nodes /\ edges' = edges /\ queue' = <<>>
      BY <2>3 DEF HitNodeLimit
    <3>2. <<>> \in ToVisit
      BY EmptySeq DEF ToVisit
    <3> QED BY <2>1, <3>1, <3>2 DEF GraphSound, Graph
  <2>4. CASE Traversed \/ CopyPath \/ PathsCopied \/ UNCHANGED traverseVars
    <3>1. nodes' = nodes /\ edges' = edges /\ queue' = queue
      BY <2>4 DEF Traversed, CopyPath, PathsCopied, traverseVars
    <3> QED BY <2>1, <3>1 DEF GraphSound, Graph
  <2> QED BY <2>2, <2>3, <2>4 DEF TraverseNext
<1>5. ASSUME CallDiagram' PROVE GraphSound(Graph)'
  <2>1. GraphSound(Graph')
    BY <1>3, <1>4, <1>5
  <2> QED BY <1>3, <2>1 DEF GraphSound, NodeSet, ToVisit, Both
<1> QED BY <1>2, <1>5 DEF TraverseInv

\* The invariant says that every edge follows the control flow.
LEMMA TraverseShows ==
    ASSUME TraverseInv
    PROVE  EdgesFollowControl
<1> SUFFICES ASSUME CallDiagram, NEW e \in edges PROVE SymPair(e) \in Flow
  BY DEF EdgesFollowControl, SymEdges, Flow, CallDiagram
<1> QED BY DEF TraverseInv, GraphSound, Graph, SymPair

(* Whatever the database knows and whatever is asked of it, each edge of a   *)
(* call diagram points from a caller to what it calls, from a method to what *)
(* overrides it, or over a binding from the one side to the other, as the    *)
(* loop of TraverseCommand::execute walks up or down through any slot.       *)
THEOREM DiagramFollowsControl == TraverseSpec => []EdgesFollowControl
<1>1. TraverseInit(db, query) => TraverseInv
  BY TraverseStarts
<1>2. TraverseInv /\ [TraverseNext]_traverseVars => TraverseInv'
  BY TraverseSteps
<1>3. TraverseInv => EdgesFollowControl
  BY TraverseShows
<1> QED BY <1>1, <1>2, <1>3, PTL DEF TraverseSpec
=============================================================================
