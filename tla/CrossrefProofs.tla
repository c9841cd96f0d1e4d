--------------------------- MODULE CrossrefProofs ---------------------------
(***************************************************************************)
(* The crossref files, from the table of symbols to the answer of a        *)
(* server, for every table, every number of databases and threads, every   *)
(* length of a line and every threshold.  In three parts:                  *)
(*                                                                         *)
(*   a lookup in any well-formed file searches whole records, halves its   *)
(*   window at every probe and is exact;                                   *)
(*                                                                         *)
(*   Complete(f) is what file f of a table is to hold, as a sequence of    *)
(*   lines: its identifiers are sorted, its records touch, and the         *)
(*   references of a database file are to where the -extra file has them;  *)
(*                                                                         *)
(*   WInv, the inductive invariant of the writer: a chunk file holds the   *)
(*   share of its chunk of Complete(f), but for its references, which      *)
(*   count from the start of the chunk, and what has been copied is a      *)
(*   prefix of Complete(f), unless a line was cut.                         *)
(*                                                                         *)
(* With them, what a server opens after the indexer is well-formed, and    *)
(* has the symbols of the table.                                           *)
(***************************************************************************)
EXTENDS CrossrefDatabase, FiniteSetTheorems, SequenceTheorems, WellFoundedInduction, TLAPS

-----------------------------------------------------------------------------
(* Looking a symbol up.                                                    *)

(* A well-formed file is made of numbers.                                  *)
LEMMA FileFacts ==
    ASSUME NEW f, WellFormed(f)
    PROVE  /\ f.n \in Nat
           /\ \A i \in Records(f) : /\ i \in Nat /\ i + 1 \in 1 .. f.n + 1
                                    /\ i \in 1 .. f.n + 1
                                    /\ f.key[i] \in Nat
                                    /\ f.id_end[i] \in Nat
           /\ \A i \in 1 .. f.n + 1 : i \in Nat /\ f.start[i] \in Nat
           /\ 1 \in 1 .. f.n + 1 /\ f.n + 1 \in 1 .. f.n + 1
           /\ f.start[1] = 0
           /\ Size(f) \in Nat
<1>1. WellFormed(f)
  OBVIOUS
<1>2. f.n \in Nat
  BY <1>1 DEF WellFormed
<1>3. \A i \in Records(f) : i \in Nat /\ i + 1 \in 1 .. f.n + 1 /\ i \in 1 .. f.n + 1
  BY <1>2 DEF Records
<1>4. \A i \in Records(f) : f.key[i] \in Nat /\ f.id_end[i] \in Nat
  BY <1>1 DEF WellFormed
<1>5. \A i \in 1 .. f.n + 1 : i \in Nat /\ f.start[i] \in Nat
  <2>1. f.start \in [1 .. f.n + 1 -> Nat]
    BY <1>1 DEF WellFormed
  <2> QED
    BY <1>2, <2>1
<1>6. 1 \in 1 .. f.n + 1 /\ f.n + 1 \in 1 .. f.n + 1
  BY <1>2
<1>7. f.start[1] = 0
  BY <1>1 DEF WellFormed
<1>8. Size(f) \in Nat
  BY <1>5, <1>6 DEF Size
<1> QED
  BY <1>2, <1>3, <1>4, <1>5, <1>6, <1>7, <1>8

(* Offsets are ordered as the records are.                                 *)
LEMMA StartsOrdered ==
    ASSUME NEW f, WellFormed(f),
           NEW i \in 1 .. f.n + 1, NEW j \in 1 .. f.n + 1
    PROVE  /\ i < j => f.start[i] < f.start[j]
           /\ i <= j => f.start[i] <= f.start[j]
           /\ f.start[i] < f.start[j] => i < j
           /\ f.start[i] <= f.start[j] => i <= j
<1>1. \A k, l \in 1 .. f.n + 1 : k < l => f.start[k] < f.start[l]
  BY DEF WellFormed
<1>2. i \in Nat /\ j \in Nat /\ f.start[i] \in Nat /\ f.start[j] \in Nat
  BY FileFacts
<1> QED
  BY <1>1, <1>2

(* What is known of a lookup besides its window: TypeOK, but for where the *)
(* file came from.                                                         *)
Typed ==
    /\ WellFormed(file)
    /\ pc \in {"idle", "search", "found", "missed"}
    /\ sym \in Nat
    /\ first \in Nat /\ count \in Nat
    /\ result \in 0 .. file.n
    /\ pc = "found" => result \in Records(file)

(* get_id_line finds the record that covers an offset inside the file.     *)
LEMMA LineCovers ==
    ASSUME Typed, NEW p \in Nat, p < Size(file)
    PROVE  /\ LineAt(p) \in Records(file)
           /\ file.start[LineAt(p)] <= p
           /\ p < file.start[LineAt(p) + 1]
<1>1. Size(file) \in Nat
  BY FileFacts DEF Typed
<1>2. p \in 0 .. Size(file) - 1
  BY <1>1
<1>3. \E i \in Records(file) : file.start[i] <= p /\ p < file.start[i + 1]
  BY <1>2 DEF WellFormed, Typed
<1> QED
  BY <1>3 DEF LineAt

(* The window of a search: the records from a to b - 1.                    *)
Window(a, b) ==
    /\ a \in 1 .. file.n + 1 /\ b \in 1 .. file.n + 1
    /\ a <= b /\ first = file.start[a] /\ first + count = file.start[b]
    /\ \A i \in Records(file) : (i < a => file.key[i] < sym)
                             /\ (i >= b => file.key[i] > sym)

(* A probe hits a record of the window, and splits the window there.       *)
LEMMA ProbeHits ==
    ASSUME Typed, Searching, NEW a, NEW b, Window(a, b)
    PROVE  /\ step \in Nat /\ pos \in Nat /\ step < count /\ pos < Size(file)
           /\ LineAt(pos) \in Records(file)
           /\ a <= LineAt(pos) /\ LineAt(pos) < b
           /\ first <= file.start[LineAt(pos)]
           /\ file.start[LineAt(pos)] <= pos
           /\ pos < file.start[LineAt(pos) + 1]
           /\ file.start[LineAt(pos) + 1] <= first + count
<1> DEFINE l == LineAt(pos)
<1>1. first \in Nat /\ count \in Nat /\ count > 0 /\ WellFormed(file)
  BY DEF Typed, Searching
<1>2. step \in Nat /\ step < count
  BY <1>1 DEF step
<1>3. pos \in Nat /\ first <= pos /\ pos < first + count
  BY <1>1, <1>2 DEF pos
<1>4. b \in 1 .. file.n + 1 /\ a \in 1 .. file.n + 1 /\ file.start[b] <= Size(file)
  <2>1. b <= file.n + 1 /\ file.n + 1 \in 1 .. file.n + 1
    BY <1>1, FileFacts DEF Window
  <2> QED
    BY <1>1, <2>1, StartsOrdered DEF Window, Size
<1>5. pos < Size(file)
  <2>1. Size(file) \in Nat /\ file.start[b] \in Nat
    BY <1>1, <1>4, FileFacts
  <2> QED
    BY <1>1, <1>3, <1>4, <2>1 DEF Window
<1>6. l \in Records(file) /\ file.start[l] <= pos /\ pos < file.start[l + 1]
  BY <1>3, <1>5, LineCovers
<1> HIDE DEF l
<1>7. /\ l \in Nat /\ l \in 1 .. file.n + 1 /\ l + 1 \in 1 .. file.n + 1
      /\ file.start[l] \in Nat /\ file.start[l + 1] \in Nat
      /\ file.start[a] \in Nat /\ file.start[b] \in Nat
      /\ a \in Nat /\ b \in Nat
  BY <1>1, <1>4, <1>6, FileFacts
<1>8. file.start[l] < file.start[b] /\ file.start[a] < file.start[l + 1]
  BY <1>1, <1>3, <1>6, <1>7 DEF Window
<1>9. l < b /\ a < l + 1
  BY <1>1, <1>4, <1>7, <1>8, StartsOrdered
<1>10. a <= l /\ l + 1 <= b
  BY <1>7, <1>9
<1>11. file.start[a] <= file.start[l] /\ file.start[l + 1] <= file.start[b]
  BY <1>1, <1>4, <1>7, <1>10, StartsOrdered
<1> QED
  BY <1>2, <1>3, <1>5, <1>6, <1>9, <1>10, <1>11 DEF l, Window

-----------------------------------------------------------------------------
(* The inductive invariant.                                                *)
Inv == Typed /\ WindowOfRecords /\ Exact

LEMMA InitInv == ASSUME Init PROVE Inv
<1>1. WellFormed(file) /\ sym \in Nat
  BY LookupAssumption DEF Init
<1>2. file.n \in Nat
  BY <1>1, FileFacts
<1> QED
  BY <1>1, <1>2 DEF Init, Inv, Typed, WindowOfRecords, Exact

LEMMA AskKeepsInv == ASSUME Inv, Ask PROVE Inv'
<1>1. Typed'
  <2>1. sym' \in Nat /\ Size(file) \in Nat
    BY LookupAssumption, FileFacts DEF Inv, Ask, Typed
  <2> QED
    BY <2>1 DEF Inv, Ask, Typed
<1>2. WindowOfRecords'
  <2>1. /\ 1 \in 1 .. file.n + 1 /\ file.n + 1 \in 1 .. file.n + 1 /\ file.n \in Nat
        /\ file.start[1] = 0 /\ Size(file) \in Nat
        /\ Size(file) = file.start[file.n + 1]
    BY FileFacts DEF Inv, Typed, Size
  <2>2. file' = file /\ first' = 0 /\ count' = Size(file)
    BY DEF Ask
  <2>3. \A i \in Records(file) : ~ i < 1 /\ ~ i >= file.n + 1
    BY <2>1 DEF Records
  <2>4. 1 <= file.n + 1 /\ 0 + Size(file) = file.start[file.n + 1]
    BY <2>1
  <2> QED
    BY <2>1, <2>2, <2>3, <2>4 DEF WindowOfRecords, Records
<1>3. Exact'
  BY DEF Ask, Exact
<1> QED
  BY <1>1, <1>2, <1>3 DEF Inv

LEMMA EqualKeepsInv == ASSUME Inv, Equal PROVE Inv'
<1>1. PICK a \in 1 .. file.n + 1, b \in 1 .. file.n + 1 : Window(a, b)
  BY DEF Inv, WindowOfRecords, Equal, Searching, Window
<1>2. LineAt(pos) \in Records(file)
  BY <1>1, ProbeHits DEF Inv, Equal
<1>3. Typed'
  BY <1>2, FileFacts DEF Inv, Typed, Equal, Records
<1> QED
  BY <1>3 DEF Inv, Equal, WindowOfRecords, Exact

LEMMA LessKeepsInv == ASSUME Inv, Less PROVE Inv' /\ count' <= count \div 2
<1> DEFINE l == LineAt(pos)
<1>1. PICK a \in 1 .. file.n + 1, b \in 1 .. file.n + 1 : Window(a, b)
  BY DEF Inv, WindowOfRecords, Less, Searching, Window
<1>2. /\ l \in Records(file) /\ a <= l /\ l < b
      /\ pos < file.start[l + 1] /\ file.start[l + 1] <= first + count
  BY <1>1, ProbeHits DEF Inv, Less
<1>3. /\ first \in Nat /\ count \in Nat /\ WellFormed(file)
      /\ sym \in Nat /\ file.n \in Nat /\ a \in Nat /\ b \in Nat
  BY FileFacts DEF Inv, Typed
<1>4. l \in Nat /\ l + 1 \in 1 .. file.n + 1 /\ file.start[l + 1] \in Nat
  BY <1>2, <1>3, FileFacts
<1>5. /\ first' = file.start[l + 1]
      /\ count' = count - (file.start[l + 1] - first)
      /\ file.key[l] < sym
      /\ UNCHANGED <<file, pc, sym, result>>
  BY DEF Less, SkipRecord, CountFrom
<1> HIDE DEF l
<1>6. count' \in Nat /\ first' + count' = first + count /\ count' <= count \div 2
  <2>1. first + (count \div 2) < file.start[l + 1] /\ count \div 2 \in Nat
    BY <1>2, <1>3 DEF pos, step
  <2> DEFINE h == count \div 2
             s == file.start[l + 1]
  <2>2. /\ h \in Nat /\ count <= 2 * h + 1
        /\ s \in Nat /\ first + h < s /\ s <= first + count
        /\ first' = s /\ count' = count - (s - first)
    BY <1>2, <1>3, <1>4, <1>5, <2>1
  <2> HIDE DEF h, s
  <2>3. count' \in Nat /\ first' + count' = first + count /\ count' <= h
    BY <1>3, <2>2
  <2> QED
    BY <2>3 DEF h
<1>7. Typed'
  BY <1>4, <1>5, <1>6 DEF Inv, Typed
<1>8. \A i \in Records(file) : i < l + 1 => file.key[i] < sym
  <2> SUFFICES ASSUME NEW i \in Records(file), i < l + 1
               PROVE  file.key[i] < sym
    OBVIOUS
  <2>1. i \in Nat /\ file.key[i] \in Nat /\ file.key[l] \in Nat
    BY <1>2, <1>3, FileFacts
  <2>2. CASE i = l
    BY <2>2, <1>5
  <2>3. CASE i < l
    <3>1. file.key[i] < file.key[l]
      BY <1>2, <1>3, <2>3 DEF WellFormed
    <3> QED
      BY <3>1, <2>1, <1>3, <1>5
  <2> QED
    BY <2>1, <2>2, <2>3, <1>4
<1>9. WindowOfRecords'
  <2>1. l + 1 <= b
    BY <1>2, <1>3, <1>4
  <2>2. first' + count' = file.start[b]
    BY <1>1, <1>6 DEF Window
  <2>3. \A i \in Records(file) : i >= b => file.key[i] > sym
    BY <1>1 DEF Window
  <2> QED
    BY <1>4, <1>5, <1>8, <2>1, <2>2, <2>3 DEF WindowOfRecords, Records
<1>10. Exact'
  BY <1>5 DEF Less, Searching, Exact
<1> QED
  BY <1>6, <1>7, <1>9, <1>10 DEF Inv

LEMMA GreaterKeepsInv == ASSUME Inv, Greater PROVE Inv' /\ count' <= count \div 2
<1> DEFINE l == LineAt(pos)
<1>1. PICK a \in 1 .. file.n + 1, b \in 1 .. file.n + 1 : Window(a, b)
  BY DEF Inv, WindowOfRecords, Greater, Searching, Window
<1>2. /\ l \in Records(file) /\ a <= l /\ l < b
      /\ first <= file.start[l] /\ file.start[l] <= pos
  BY <1>1, ProbeHits DEF Inv, Greater
<1>3. /\ first \in Nat /\ count \in Nat /\ WellFormed(file)
      /\ sym \in Nat /\ file.n \in Nat /\ a \in Nat /\ b \in Nat
  BY FileFacts DEF Inv, Typed
<1>4. l \in Nat /\ l \in 1 .. file.n + 1 /\ file.start[l] \in Nat
  BY <1>2, <1>3, FileFacts
<1>5. /\ count' = step - (pos - file.start[l])
      /\ file.key[l] > sym
      /\ UNCHANGED <<file, pc, sym, first, result>>
  BY DEF Greater, CountBefore
<1> HIDE DEF l
<1>6. count' \in Nat /\ first' + count' = file.start[l] /\ count' <= count \div 2
  <2>1. pos = first + step /\ step = count \div 2 /\ step \in Nat
    BY <1>3 DEF pos, step
  <2>2. count' = file.start[l] - first
    BY <1>3, <1>4, <1>5, <2>1
  <2> QED
    BY <1>2, <1>3, <1>4, <1>5, <2>1, <2>2
<1>7. Typed'
  BY <1>5, <1>6 DEF Inv, Typed
<1>8. \A i \in Records(file) : i >= l => file.key[i] > sym
  <2> SUFFICES ASSUME NEW i \in Records(file), i >= l
               PROVE  file.key[i] > sym
    OBVIOUS
  <2>1. i \in Nat /\ file.key[i] \in Nat /\ file.key[l] \in Nat
    BY <1>2, <1>3, FileFacts
  <2>2. CASE i = l
    BY <2>2, <1>5
  <2>3. CASE l < i
    <3>1. file.key[l] < file.key[i]
      BY <1>2, <1>3, <2>3 DEF WellFormed
    <3> QED
      BY <3>1, <2>1, <1>3, <1>5
  <2> QED
    BY <2>1, <2>2, <2>3, <1>4
<1>9. WindowOfRecords'
  <2>1. first = file.start[a] /\ \A i \in Records(file) : i < a => file.key[i] < sym
    BY <1>1 DEF Window
  <2> QED
    BY <1>2, <1>4, <1>5, <1>6, <1>8, <2>1 DEF WindowOfRecords, Records
<1>10. Exact'
  BY <1>5 DEF Greater, Searching, Exact
<1> QED
  BY <1>6, <1>7, <1>9, <1>10 DEF Inv

LEMMA MissKeepsInv == ASSUME Inv, Miss PROVE Inv'
<1>1. PICK a \in 1 .. file.n + 1, b \in 1 .. file.n + 1 : Window(a, b)
  BY DEF Inv, WindowOfRecords, Miss, Window
<1>2. a \in Nat /\ b \in Nat /\ first \in Nat /\ WellFormed(file)
  BY FileFacts DEF Inv, Typed
<1>3. file.start[b] <= file.start[a]
  <2>1. first + count = first
    BY <1>2 DEF Miss
  <2>2. file.start[a] = file.start[b] /\ file.start[a] \in Nat
    BY <1>1, <1>2, <2>1, FileFacts DEF Window
  <2> QED
    BY <2>2
<1>4. b <= a
  BY <1>1, <1>2, <1>3, StartsOrdered DEF Window
<1>5. ASSUME NEW i \in Records(file) PROVE file.key[i] # sym
  <2>1. i \in Nat /\ file.key[i] \in Nat /\ sym \in Nat
    BY <1>2, FileFacts DEF Inv, Typed
  <2>2. i < a \/ i >= b
    BY <1>2, <1>4, <2>1
  <2> QED
    BY <1>1, <2>1, <2>2 DEF Window
<1>6. Typed'
  BY DEF Inv, Typed, Miss
<1> QED
  BY <1>5, <1>6 DEF Inv, Miss, WindowOfRecords, Exact, Records

LEMMA NextKeepsInv == ASSUME Inv, [Next]_vars PROVE Inv'
<1>1. CASE Ask
  BY <1>1, AskKeepsInv
<1>2. CASE Equal
  BY <1>2, EqualKeepsInv
<1>3. CASE Less
  BY <1>3, LessKeepsInv
<1>4. CASE Greater
  BY <1>4, GreaterKeepsInv
<1>5. CASE Miss
  BY <1>5, MissKeepsInv
<1>6. CASE UNCHANGED vars
  BY <1>6 DEF Inv, Typed, WindowOfRecords, Exact, Records, vars
<1> QED
  BY <1>1, <1>2, <1>3, <1>4, <1>5, <1>6 DEF Next, Search

-----------------------------------------------------------------------------
(* bisect_for_payload and get_id_line: the unsigned subtractions never     *)
(* underflow, the window is always a run of whole records that holds the   *)
(* symbol's record if there is one, and the answer is exact.               *)
THEOREM LookupCorrect == Spec => [](TypeOK /\ WindowOfRecords /\ Exact)
<1>1. Init => Inv /\ file \in CrossrefFiles /\ sym \in Symbols
  BY InitInv DEF Init
<1>2. Inv /\ [Next]_vars => Inv'
  BY NextKeepsInv
<1>3. file \in CrossrefFiles /\ sym \in Symbols /\ [Next]_vars
      => (file \in CrossrefFiles /\ sym \in Symbols)'
  BY DEF Next, Search, Ask, Equal, Less, Greater, Miss, vars
<1>4. Inv /\ file \in CrossrefFiles /\ sym \in Symbols => TypeOK /\ WindowOfRecords /\ Exact
  BY DEF Inv, Typed, TypeOK
<1> QED
  BY <1>1, <1>2, <1>3, <1>4, PTL DEF Spec

(* bisect_for_payload: every probe at least halves the byte window.        *)
THEOREM LookupHalves == Spec => Halves
<1>1. Init => Inv
  BY InitInv
<1>2. Inv /\ [Next]_vars => Inv'
  BY NextKeepsInv
<1>3. Inv /\ [Next]_vars => [pc = "search" /\ pc' = "search" => count' <= count \div 2]_vars
  <2> SUFFICES ASSUME Inv, [Next]_vars, pc = "search", pc' = "search", ~ UNCHANGED vars
               PROVE  count' <= count \div 2
    OBVIOUS
  <2>1. CASE Less
    BY <2>1, LessKeepsInv
  <2>2. CASE Greater
    BY <2>2, GreaterKeepsInv
  <2> QED
    BY <2>1, <2>2 DEF Next, Search, Ask, Equal, Miss
<1> QED
  BY <1>1, <1>2, <1>3, PTL DEF Spec, Halves
-----------------------------------------------------------------------------
(* Induction and iteration, with sets and functions in the place of        *)
(* predicates and operators.                                               *)

NatLess == {ss \in Nat \X Nat : ss[1] < ss[2]}

LEMMA NatLessWF == IsWellFoundedOn(NatLess, Nat)
BY NatLessThanWellFounded DEF OpToRel, NatLess

LEMMA LeastElement ==
    ASSUME NEW T \in SUBSET Nat, T # {}
    PROVE  \E x \in T : \A y \in T : x <= y
<1>1. PICK x \in T : \A y \in T : ~ (<<y, x>> \in NatLess)
  BY NatLessWF, WFMin
<1>2. \A y \in T : ~ (y < x)
  BY <1>1 DEF NatLess
<1> QED BY <1>2

LEMMA UpTo ==
    ASSUME NEW n \in Nat, NEW T \in SUBSET (0 .. n), 0 \in T,
           \A k \in T : k < n => k + 1 \in T
    PROVE  T = 0 .. n
<1> SUFFICES ASSUME (0 .. n) \ T # {} PROVE FALSE
  OBVIOUS
<1>1. (0 .. n) \ T \in SUBSET Nat
  OBVIOUS
<1>2. PICK x \in (0 .. n) \ T : \A y \in (0 .. n) \ T : x <= y
  BY <1>1, LeastElement
<1>3. x # 0 /\ x \in 0 .. n
  BY <1>2
<1>4. x - 1 \in 0 .. n /\ x - 1 \notin (0 .. n) \ T /\ (x - 1) + 1 = x /\ x - 1 < n
  BY <1>2, <1>3
<1> QED BY <1>2, <1>4

(* st gives the next value from the number of the step and the value       *)
(* before it.                                                              *)
Iterates(g, A, a, n, st) ==
    g \in [0 .. n -> A] /\ g[0] = a /\ \A i \in 1 .. n : g[i] = st[i][g[i - 1]]

LEMMA Iteration ==
    ASSUME NEW A, NEW a, a \in A, NEW n, n \in Nat, NEW st, st \in [1 .. n -> [A -> A]]
    PROVE  \E g : Iterates(g, A, a, n, st)
<1> DEFINE Good(k) == \E g \in [0 .. k -> A] :
                          g[0] = a /\ \A i \in 1 .. k : g[i] = st[i][g[i - 1]]
           T == {k \in 0 .. n : Good(k)}
<1>1. Good(0)
  <2> DEFINE g == [i \in 0 .. 0 |-> a]
  <2>1. 0 \in 0 .. 0 /\ 1 .. 0 = {}
    OBVIOUS
  <2>2. g \in [0 .. 0 -> A] /\ g[0] = a
    BY <2>1
  <2> HIDE DEF g
  <2> QED BY <2>1, <2>2
<1>2. ASSUME NEW k \in 0 .. n, Good(k), k < n PROVE Good(k + 1)
  <2>1. PICK g \in [0 .. k -> A] :
            g[0] = a /\ \A i \in 1 .. k : g[i] = st[i][g[i - 1]]
    BY <1>2
  <2>2. k \in Nat /\ k \in 0 .. k /\ 0 \in 0 .. k /\ k + 1 \in 1 .. n
    BY <1>2
  <2> DEFINE e == st[k + 1][g[k]]
             h == [i \in 0 .. k + 1 |-> IF i \in 0 .. k THEN g[i] ELSE e]
  <2>3. e \in A
    BY <2>2
  <2> HIDE DEF e
  <2>4. h \in [0 .. k + 1 -> A]
    BY <2>3
  <2>5. ASSUME NEW i \in 0 .. k PROVE h[i] = g[i]
    BY <2>2, <2>5
  <2>6. h[k + 1] = e
    BY <2>2
  <2> HIDE DEF h
  <2>7. ASSUME NEW i \in 1 .. k + 1 PROVE h[i] = st[i][h[i - 1]]
    <3>1. CASE i \in 1 .. k
      <4>1. i \in 0 .. k /\ i - 1 \in 0 .. k
        BY <2>2, <3>1
      <4> QED BY <2>1, <2>5, <3>1, <4>1
    <3>2. CASE i \notin 1 .. k
      <4>1. i = k + 1 /\ i - 1 = k
        BY <2>2, <2>7, <3>2
      <4> QED BY <2>2, <2>5, <2>6, <4>1 DEF e
    <3> QED BY <3>1, <3>2
  <2>8. h[0] = a
    BY <2>1, <2>2, <2>5
  <2> QED BY <2>4, <2>7, <2>8
<1>3. T = 0 .. n
  <2>1. 0 \in T
    BY <1>1
  <2>2. ASSUME NEW k \in T, k < n PROVE k + 1 \in T
    <3>1. k \in 0 .. n /\ Good(k)
      BY <2>2
    <3>2. k + 1 \in 0 .. n
      BY <2>2, <3>1
    <3> QED BY <1>2, <2>2, <3>1, <3>2
  <2>3. T \subseteq 0 .. n
    OBVIOUS
  <2> HIDE DEF T
  <2> QED BY <2>1, <2>2, <2>3, UpTo
<1>4. n \in 0 .. n
  OBVIOUS
<1>5. Good(n)
  BY <1>3, <1>4
<1> QED BY <1>5 DEF Iterates

-----------------------------------------------------------------------------
(* Offsets of lines.                                                       *)

Lines == [kind : {"id", "json"}, key : Nat, len : Nat]
         \cup [kind : {"@", "@!"}, offset : Nat, length : Nat, len : Nat]
         \cup [kind : {"cut"}, len : Nat]

LEMMA LineTypes ==
    /\ \A r \in Lines : r.len \in Nat
    /\ \A s \in Seq(Lines) : /\ Len(s) \in Nat /\ DOMAIN s = 1 .. Len(s)
                             /\ \A k \in 1 .. Len(s) : s[k] \in Lines /\ s[k].len \in Nat
<1>1. \A r \in Lines : r.len \in Nat
  BY DEF Lines
<1>2. ASSUME NEW s \in Seq(Lines)
      PROVE  /\ Len(s) \in Nat /\ DOMAIN s = 1 .. Len(s)
             /\ \A k \in 1 .. Len(s) : s[k] \in Lines
  BY LenProperties
<1> QED BY <1>1, <1>2

(* The sum over the lengths of the lines.                                  *)
LEMMA Sums ==
    ASSUME NEW s \in Seq(Lines)
    PROVE  \E g \in [0 .. Len(s) -> Nat] :
               /\ g[0] = 0 /\ \A k \in 1 .. Len(s) : g[k] = g[k - 1] + s[k].len
               /\ \A i \in 1 .. Len(s) + 1 : Offset(s, i) = g[i - 1]
<1> DEFINE n == Len(s)
           st == [k \in 1 .. n |-> [x \in Nat |-> x + s[k].len]]
           F(x) == [k \in 0 .. n |-> IF k = 0 THEN 0 ELSE x[k - 1] + s[k].len]
           h == CHOOSE x : x = F(x)
<1>1. n \in Nat /\ \A k \in 1 .. n : s[k].len \in Nat
  BY LineTypes
<1>2. \A i \in 1 .. n + 1 : Offset(s, i) = h[i - 1]
  BY DEF Offset
<1>3. st \in [1 .. n -> [Nat -> Nat]]
  BY <1>1
<1>4. \A p \in Nat, k \in 1 .. n : st[k][p] = p + s[k].len
  OBVIOUS
<1> HIDE DEF st, n, h
<1>5. PICK g \in [0 .. n -> Nat] : g[0] = 0 /\ \A i \in 1 .. n : g[i] = st[i][g[i - 1]]
  <2>1. \E g : Iterates(g, Nat, 0, n, st)
    BY <1>1, <1>3, Iteration
  <2> QED BY <2>1 DEF Iterates
<1>6. \A k \in 1 .. n : g[k] = g[k - 1] + s[k].len
  <2> SUFFICES ASSUME NEW k \in 1 .. n PROVE g[k] = g[k - 1] + s[k].len
    OBVIOUS
  <2>1. k - 1 \in 0 .. n
    BY <1>1
  <2> QED BY <1>4, <1>5, <2>1
<1>7. g = F(g)
  <2>1. ASSUME NEW k \in 0 .. n PROVE g[k] = IF k = 0 THEN 0 ELSE g[k - 1] + s[k].len
    <3>1. k # 0 => k \in 1 .. n
      BY <1>1
    <3> QED BY <1>5, <1>6, <3>1
  <2> QED BY <2>1
<1>8. h = F(h)
  <2> HIDE DEF F
  <2> QED BY <1>7 DEF h
<1>9. \A k \in 0 .. n : h[k] = IF k = 0 THEN 0 ELSE h[k - 1] + s[k].len
  BY <1>8
<1> HIDE DEF F
<1> DEFINE T == {k \in 0 .. n : h[k] = g[k]}
<1>10. T = 0 .. n
  <2>1. 0 \in T
    BY <1>1, <1>5, <1>9
  <2>2. ASSUME NEW k \in T, k < n PROVE k + 1 \in T
    <3>1. k \in 0 .. n /\ h[k] = g[k]
      BY <2>2
    <3>2. k + 1 \in 0 .. n /\ k + 1 \in 1 .. n /\ k + 1 # 0 /\ (k + 1) - 1 = k
      BY <1>1, <2>2, <3>1
    <3>3. h[k + 1] = h[(k + 1) - 1] + s[k + 1].len /\ g[k + 1] = g[(k + 1) - 1] + s[k + 1].len
      BY <1>6, <1>9, <3>2
    <3> QED BY <3>1, <3>2, <3>3
  <2>3. T \subseteq 0 .. n
    OBVIOUS
  <2> HIDE DEF T
  <2> QED BY <1>1, <2>1, <2>2, <2>3, UpTo
<1>11. \A i \in 1 .. n + 1 : Offset(s, i) = g[i - 1]
  <2> SUFFICES ASSUME NEW i \in 1 .. n + 1 PROVE Offset(s, i) = g[i - 1]
    OBVIOUS
  <2>1. i - 1 \in 0 .. n
    BY <1>1
  <2>2. h[i - 1] = g[i - 1]
    BY <1>10, <2>1
  <2> QED BY <1>2, <2>2
<1> QED BY <1>5, <1>6, <1>11 DEF n

LEMMA OffsetStep ==
    ASSUME NEW s \in Seq(Lines)
    PROVE  /\ Offset(s, 1) = 0
           /\ \A i \in 1 .. Len(s) + 1 : Offset(s, i) \in Nat
           /\ \A i \in 1 .. Len(s) : Offset(s, i + 1) = Offset(s, i) + s[i].len
           /\ Bytes(s) \in Nat
<1>1. PICK g \in [0 .. Len(s) -> Nat] :
          /\ g[0] = 0 /\ \A k \in 1 .. Len(s) : g[k] = g[k - 1] + s[k].len
          /\ \A i \in 1 .. Len(s) + 1 : Offset(s, i) = g[i - 1]
  BY Sums
<1>2. Len(s) \in Nat
  BY LineTypes
<1>3. ASSUME NEW i \in 1 .. Len(s) + 1 PROVE Offset(s, i) \in Nat
  <2>1. i - 1 \in 0 .. Len(s)
    BY <1>2
  <2> QED BY <1>1, <2>1
<1>4. ASSUME NEW i \in 1 .. Len(s) PROVE Offset(s, i + 1) = Offset(s, i) + s[i].len
  <2>1. i \in 1 .. Len(s) + 1 /\ i + 1 \in 1 .. Len(s) + 1 /\ (i + 1) - 1 = i
    BY <1>2
  <2>2. Offset(s, i + 1) = g[(i + 1) - 1] /\ Offset(s, i) = g[i - 1]
    BY <1>1, <2>1
  <2> QED BY <1>1, <2>1, <2>2
<1>5. 1 \in 1 .. Len(s) + 1 /\ Len(s) + 1 \in 1 .. Len(s) + 1 /\ 1 - 1 = 0
  BY <1>2
<1>6. Offset(s, 1) = 0
  BY <1>1, <1>5
<1> QED BY <1>3, <1>4, <1>5, <1>6 DEF Bytes

LEMMA Concatenated ==
    ASSUME NEW s \in Seq(Lines), NEW t \in Seq(Lines)
    PROVE  /\ s \o t \in Seq(Lines) /\ Len(s \o t) = Len(s) + Len(t)
           /\ Len(s) \in Nat /\ Len(t) \in Nat
           /\ \A i \in 1 .. Len(s) : (s \o t)[i] = s[i] /\ i \in 1 .. Len(s) + Len(t)
           /\ \A i \in 1 .. Len(t) : /\ (s \o t)[Len(s) + i] = t[i]
                                     /\ Len(s) + i \in 1 .. Len(s) + Len(t)
<1> DEFINE n == Len(s)
           m == Len(t)
           u == s \o t
<1>1. /\ n \in Nat /\ m \in Nat /\ u \in Seq(Lines) /\ Len(u) = n + m
      /\ \A i \in 1 .. n + m : u[i] = IF i <= n THEN s[i] ELSE t[i - n]
  BY ConcatProperties, LenProperties
<1> HIDE DEF n, m, u
<1>2. ASSUME NEW i \in 1 .. n PROVE u[i] = s[i] /\ i \in 1 .. n + m
  <2>1. i \in 1 .. n + m /\ i <= n
    BY <1>1
  <2> QED BY <1>1, <2>1
<1>3. ASSUME NEW i \in 1 .. m PROVE u[n + i] = t[i] /\ n + i \in 1 .. n + m
  <2>1. n + i \in 1 .. n + m /\ ~ (n + i <= n) /\ (n + i) - n = i
    BY <1>1
  <2> QED BY <1>1, <2>1
<1> QED BY <1>1, <1>2, <1>3 DEF n, m, u

LEMMA OffsetsJoin ==
    ASSUME NEW s \in Seq(Lines), NEW t \in Seq(Lines)
    PROVE  /\ \A i \in 0 .. Len(s) : Offset(s \o t, i + 1) = Offset(s, i + 1)
           /\ \A i \in 0 .. Len(t) : Offset(s \o t, Len(s) + i + 1) = Bytes(s) + Offset(t, i + 1)
           /\ Bytes(s \o t) = Bytes(s) + Bytes(t)
<1> DEFINE n == Len(s)
           m == Len(t)
           u == s \o t
           S == {i \in 0 .. n : Offset(u, i + 1) = Offset(s, i + 1)}
           T == {i \in 0 .. m : Offset(u, n + i + 1) = Bytes(s) + Offset(t, i + 1)}
<1>1. /\ n \in Nat /\ m \in Nat /\ u \in Seq(Lines) /\ Len(u) = n + m
      /\ \A i \in 1 .. n : u[i] = s[i] /\ i \in 1 .. n + m
      /\ \A i \in 1 .. m : u[n + i] = t[i] /\ n + i \in 1 .. n + m
  BY Concatenated
<1>2. /\ Offset(u, 1) = 0 /\ Offset(s, 1) = 0 /\ Offset(t, 1) = 0 /\ Bytes(s) \in Nat
      /\ \A i \in 1 .. n + m : Offset(u, i + 1) = Offset(u, i) + u[i].len
      /\ \A i \in 1 .. n : Offset(s, i + 1) = Offset(s, i) + s[i].len
      /\ \A i \in 1 .. m : Offset(t, i + 1) = Offset(t, i) + t[i].len
  BY <1>1, OffsetStep
<1>3. /\ \A i \in 1 .. m : Offset(t, i) \in Nat /\ t[i].len \in Nat
      /\ Bytes(s) = Offset(s, n + 1) /\ Bytes(t) = Offset(t, m + 1)
      /\ Bytes(u) = Offset(u, n + m + 1)
  <2>1. \A i \in 1 .. m : i \in 1 .. m + 1
    BY <1>1
  <2> QED BY <1>1, <2>1, OffsetStep, LineTypes DEF Bytes
<1> HIDE DEF n, m, u
<1>4. S = 0 .. n
  <2>1. 0 \in S
    BY <1>1, <1>2
  <2>2. ASSUME NEW k \in S, k < n PROVE k + 1 \in S
    <3>1. k + 1 \in 1 .. n /\ Offset(u, k + 1) = Offset(s, k + 1) /\ k + 1 \in 0 .. n
      BY <1>1, <2>2
    <3>2. Offset(u, k + 1 + 1) = Offset(s, k + 1 + 1)
      BY <1>1, <1>2, <3>1
    <3> QED BY <3>1, <3>2
  <2>3. S \subseteq 0 .. n
    OBVIOUS
  <2> HIDE DEF S
  <2> QED BY <1>1, <2>1, <2>2, <2>3, UpTo
<1>5. T = 0 .. m
  <2>1. 0 \in T
    <3>1. n \in 0 .. n /\ 0 \in 0 .. m
      BY <1>1
    <3>2. Offset(u, n + 1) = Offset(s, n + 1)
      BY <1>4, <3>1
    <3> QED BY <1>1, <1>2, <1>3, <3>1, <3>2
  <2>2. ASSUME NEW k \in T, k < m PROVE k + 1 \in T
    <3>1. k \in 0 .. m /\ k + 1 \in 1 .. m /\ Offset(u, n + k + 1) = Bytes(s) + Offset(t, k + 1)
      BY <1>1, <2>2
    <3>2. k + 1 \in 0 .. m /\ n + (k + 1) = n + k + 1
      BY <1>1, <3>1
    <3>3. Offset(u, n + k + 1 + 1) = Offset(u, n + k + 1) + u[n + k + 1].len
      BY <1>1, <1>2, <3>1, <3>2
    <3>4. u[n + k + 1] = t[k + 1]
      BY <1>1, <3>1, <3>2
    <3>5. Offset(t, k + 1 + 1) = Offset(t, k + 1) + t[k + 1].len
      BY <1>2, <3>1
    <3>6. Offset(t, k + 1) \in Nat /\ t[k + 1].len \in Nat
      BY <1>3, <3>1
    <3>7. Offset(u, n + (k + 1) + 1) = Bytes(s) + Offset(t, (k + 1) + 1)
      BY <1>2, <3>1, <3>2, <3>3, <3>4, <3>5, <3>6
    <3> QED BY <3>2, <3>7
  <2>3. T \subseteq 0 .. m
    OBVIOUS
  <2> HIDE DEF T
  <2> QED BY <1>1, <2>1, <2>2, <2>3, UpTo
<1>6. \A i \in 0 .. n : Offset(u, i + 1) = Offset(s, i + 1)
  BY <1>4
<1>7. \A i \in 0 .. m : Offset(u, n + i + 1) = Bytes(s) + Offset(t, i + 1)
  BY <1>5
<1>8. Bytes(u) = Bytes(s) + Bytes(t)
  <2>1. m \in 0 .. m
    BY <1>1
  <2> QED BY <1>3, <1>7, <2>1
<1> QED BY <1>6, <1>7, <1>8 DEF n, m, u

(* Lines that are not empty begin at different offsets.                    *)
LEMMA OffsetsGrow ==
    ASSUME NEW s \in Seq(Lines), \A k \in 1 .. Len(s) : s[k].len > 0
    PROVE  \A i, j \in 1 .. Len(s) + 1 : i < j => Offset(s, i) < Offset(s, j)
<1>1. Len(s) \in Nat
  BY LineTypes
<1> SUFFICES ASSUME NEW i \in 1 .. Len(s) + 1
             PROVE  \A j \in 1 .. Len(s) + 1 : i < j => Offset(s, i) < Offset(s, j)
  OBVIOUS
<1> DEFINE n == Len(s)
           T == {k \in 0 .. n : i < k + 1 => Offset(s, i) < Offset(s, k + 1)}
<1>2. T = 0 .. n
  <2>1. 0 \in T
    BY <1>1
  <2>2. ASSUME NEW k \in T, k < n PROVE k + 1 \in T
    <3>1. /\ k + 1 \in 1 .. n /\ k + 1 \in 0 .. n /\ k + 1 \in 1 .. n + 1 /\ k + 2 \in 1 .. n + 1
          /\ i < k + 1 => Offset(s, i) < Offset(s, k + 1)
          /\ k + 1 + 1 = k + 2
      BY <1>1, <2>2
    <3>2. /\ Offset(s, k + 2) = Offset(s, k + 1) + s[k + 1].len
          /\ Offset(s, i) \in Nat /\ Offset(s, k + 1) \in Nat /\ Offset(s, k + 2) \in Nat
          /\ s[k + 1].len \in Nat /\ s[k + 1].len > 0
      BY <3>1, OffsetStep, LineTypes
    <3>3. i < k + 2 => i = k + 1 \/ i < k + 1
      BY <1>1, <3>1
    <3>4. i < k + 2 => Offset(s, i) < Offset(s, k + 2)
      BY <3>1, <3>2, <3>3
    <3> QED BY <3>1, <3>4
  <2>3. T \subseteq 0 .. n
    OBVIOUS
  <2> HIDE DEF T
  <2> QED BY <1>1, <2>1, <2>2, <2>3, UpTo
<1>3. ASSUME NEW j \in 1 .. n + 1, i < j PROVE Offset(s, i) < Offset(s, j)
  <2>1. j - 1 \in 0 .. n /\ (j - 1) + 1 = j
    BY <1>1
  <2>2. j - 1 \in T
    BY <1>2, <2>1
  <2> QED BY <1>3, <2>1, <2>2
<1> QED BY <1>3
-----------------------------------------------------------------------------
(* What the files are to hold, for a table.                                *)

Uncut == [kind : {"id", "json"}, key : Nat, len : Nat \ {0}]
         \cup [kind : {"@", "@!"}, offset : Nat, length : Nat, len : Nat \ {0}]

LEMMA UncutLines ==
    /\ Uncut \subseteq Lines /\ Seq(Uncut) \subseteq Seq(Lines)
    /\ \A r \in Uncut : /\ r.kind # "cut" /\ r.kind \in {"id", "json", "@", "@!"}
                       /\ r.len \in Nat /\ r.len > 0
                       /\ r.kind = "@!" => r.offset \in Nat /\ r.length \in Nat
<1>1. Uncut \subseteq Lines
  BY DEF Uncut, Lines
<1>2. ASSUME NEW r \in Uncut
      PROVE  /\ r.kind # "cut" /\ r.kind \in {"id", "json", "@", "@!"}
             /\ r.len \in Nat /\ r.len > 0
             /\ r.kind = "@!" => r.offset \in Nat /\ r.length \in Nat
  BY DEF Uncut
<1>3. ASSUME NEW s \in Seq(Uncut) PROVE s \in Seq(Lines)
  <2>1. Len(s) \in Nat /\ s \in [1 .. Len(s) -> Uncut]
    BY LenProperties
  <2>2. s \in [1 .. Len(s) -> Lines]
    BY <1>1, <2>1
  <2> QED BY <2>1, <2>2, SeqDef
<1> QED BY <1>1, <1>2, <1>3

LEMMA TableFacts ==
    ASSUME NEW t \in Tables
    PROVE  /\ Len(t) \in Nat /\ DOMAIN t = 1 .. Len(t)
           /\ \A k \in 1 .. Len(t) : /\ t[k].key \in Nat /\ t[k].id_len \in Nat /\ t[k].id_len > 1
                                     /\ \A d \in Databases : t[k].len[d] \in Nat /\ t[k].len[d] > 2
           /\ \A i, j \in 1 .. Len(t) : i < j => t[i].key < t[j].key
<1>1. /\ t \in Seq([key : Nat, id_len : Nat, len : [Databases -> Nat]])
      /\ \A i \in DOMAIN t : t[i].id_len > 1 /\ \A d \in Databases : t[i].len[d] > 2
      /\ \A i, j \in DOMAIN t : i < j => t[i].key < t[j].key
  BY WriteAssumption
<1>2. /\ Len(t) \in Nat /\ DOMAIN t = 1 .. Len(t)
      /\ \A k \in 1 .. Len(t) : t[k] \in [key : Nat, id_len : Nat, len : [Databases -> Nat]]
  BY <1>1, LenProperties
<1>3. ASSUME NEW k \in 1 .. Len(t)
      PROVE  /\ t[k].key \in Nat /\ t[k].id_len \in Nat
             /\ \A d \in Databases : t[k].len[d] \in Nat
  BY <1>2
<1> QED BY <1>1, <1>2, <1>3

LEMMA LineKinds ==
    ASSUME NEW t \in Tables, NEW k \in 1 .. Len(t), NEW d \in Databases
    PROVE  /\ IdLine(t[k]) \in Uncut /\ IdLine(t[k]).kind = "id" /\ IdLine(t[k]).len = t[k].id_len
           /\ IdLine(t[k]).key = t[k].key
           /\ JsonLine(t[k], d) \in Uncut /\ JsonLine(t[k], d).kind = "json"
           /\ JsonLine(t[k], d).len = t[k].len[d] /\ JsonLine(t[k], d).key = t[k].key
           /\ \A o, l \in Nat : /\ RefLine("@", o, l) \in Uncut /\ RefLine("@!", o, l) \in Uncut
                                /\ RefLine("@", o, l).kind = "@" /\ RefLine("@!", o, l).kind = "@!"
                                /\ RefLine("@", o, l).len = RefLength
                                /\ RefLine("@", o, l).offset = o /\ RefLine("@", o, l).length = l
                                /\ RefLine("@!", o, l).offset = o /\ RefLine("@!", o, l).length = l
<1>1. /\ t[k].key \in Nat /\ t[k].id_len \in Nat \ {0} /\ t[k].len[d] \in Nat \ {0}
      /\ RefLength \in Nat \ {0}
  BY SMTT(30), TableFacts, WriteAssumption
<1> QED BY <1>1 DEF IdLine, JsonLine, RefLine, Uncut

(* What the first k records add to an -extra file.                         *)
Piece(r, d) == IF External(r, d) THEN <<IdLine(r), JsonLine(r, d)>> ELSE <<>>

IsExtras(g, t, d) ==
    /\ g \in [0 .. Len(t) -> Seq(Uncut)]
    /\ g[0] = <<>> /\ \A k \in 1 .. Len(t) : g[k] = g[k - 1] \o Piece(t[k], d)

Extras(t, d) == CHOOSE g : IsExtras(g, t, d)

LEMMA PieceType ==
    ASSUME NEW t \in Tables, NEW k \in 1 .. Len(t), NEW d \in Databases
    PROVE  /\ Piece(t[k], d) \in Seq(Uncut)
           /\ External(t[k], d) => /\ Len(Piece(t[k], d)) = 2
                                   /\ Piece(t[k], d)[1] = IdLine(t[k])
                                   /\ Piece(t[k], d)[2] = JsonLine(t[k], d)
           /\ ~ External(t[k], d) => Len(Piece(t[k], d)) = 0
<1> DEFINE a == IdLine(t[k])
           b == JsonLine(t[k], d)
<1>1. a \in Uncut /\ b \in Uncut
  BY LineKinds
<1> HIDE DEF a, b
<1>2. /\ <<a, b>> \in Seq(Uncut) /\ Len(<<a, b>>) = 2 /\ <<a, b>>[1] = a /\ <<a, b>>[2] = b
      /\ <<>> \in Seq(Uncut) /\ Len(<<>>) = 0
  BY <1>1
<1>3. Piece(t[k], d) = IF External(t[k], d) THEN <<a, b>> ELSE <<>>
  BY DEF Piece, a, b
<1> QED BY <1>2, <1>3 DEF a, b

LEMMA ExtrasExist ==
    ASSUME NEW t \in Tables, NEW d \in Databases
    PROVE  IsExtras(Extras(t, d), t, d)
<1> DEFINE n == Len(t)
           S == Seq(Uncut)
           st == [k \in 1 .. n |-> [x \in S |-> x \o Piece(t[k], d)]]
<1>1. n \in Nat /\ <<>> \in S
  BY TableFacts
<1>2. ASSUME NEW k \in 1 .. n, NEW x \in S PROVE x \o Piece(t[k], d) \in S
  BY PieceType, ConcatProperties
<1> HIDE DEF n, S
<1>3. st \in [1 .. n -> [S -> S]]
  BY <1>2
<1>4. \A k \in 1 .. n : \A x \in S : st[k][x] = x \o Piece(t[k], d)
  OBVIOUS
<1> HIDE DEF st
<1>5. PICK g : Iterates(g, S, <<>>, n, st)
  BY <1>1, <1>3, Iteration
<1>6. g \in [0 .. n -> S] /\ g[0] = <<>> /\ \A i \in 1 .. n : g[i] = st[i][g[i - 1]]
  BY <1>5 DEF Iterates
<1>7. ASSUME NEW k \in 1 .. n PROVE g[k] = g[k - 1] \o Piece(t[k], d)
  <2>1. k - 1 \in 0 .. n
    BY <1>1
  <2> QED BY <1>4, <1>6, <2>1
<1>8. IsExtras(g, t, d)
  BY <1>6, <1>7 DEF IsExtras, n, S
<1> QED BY <1>8 DEF Extras

(* The pieces are put one after the other, so that what was there stays.   *)
LEMMA ExtrasFacts ==
    ASSUME NEW t \in Tables, NEW d \in Databases
    PROVE  /\ \A k \in 0 .. Len(t) : /\ Extras(t, d)[k] \in Seq(Uncut) /\ Extras(t, d)[k] \in Seq(Lines)
                                     /\ Len(Extras(t, d)[k]) \in Nat /\ Bytes(Extras(t, d)[k]) \in Nat
           /\ Extras(t, d)[0] = <<>> /\ Len(Extras(t, d)[0]) = 0 /\ Bytes(Extras(t, d)[0]) = 0
           /\ \A k \in 1 .. Len(t) :
                /\ Extras(t, d)[k] = Extras(t, d)[k - 1] \o Piece(t[k], d)
                /\ External(t[k], d) =>
                      /\ Len(Extras(t, d)[k]) = Len(Extras(t, d)[k - 1]) + 2
                      /\ Bytes(Extras(t, d)[k]) = Bytes(Extras(t, d)[k - 1]) + t[k].id_len + t[k].len[d]
                /\ ~ External(t[k], d) =>
                      /\ Len(Extras(t, d)[k]) = Len(Extras(t, d)[k - 1])
                      /\ Bytes(Extras(t, d)[k]) = Bytes(Extras(t, d)[k - 1])
<1> DEFINE X == Extras(t, d)
           n == Len(t)
<1>1. /\ X \in [0 .. n -> Seq(Uncut)]
      /\ X[0] = <<>> /\ \A k \in 1 .. n : X[k] = X[k - 1] \o Piece(t[k], d)
  BY ExtrasExist DEF IsExtras
<1>2. n \in Nat
  BY TableFacts
<1> HIDE DEF X, n
<1>3. \A k \in 0 .. n : /\ X[k] \in Seq(Uncut) /\ X[k] \in Seq(Lines)
                        /\ Len(X[k]) \in Nat /\ Bytes(X[k]) \in Nat
  <2> SUFFICES ASSUME NEW k \in 0 .. n
               PROVE  /\ X[k] \in Seq(Uncut) /\ X[k] \in Seq(Lines)
                      /\ Len(X[k]) \in Nat /\ Bytes(X[k]) \in Nat
    OBVIOUS
  <2>1. X[k] \in Seq(Uncut) /\ X[k] \in Seq(Lines)
    BY <1>1, UncutLines
  <2> QED BY <2>1, OffsetStep, LineTypes
<1>4. Len(X[0]) = 0 /\ Bytes(X[0]) = 0
  <2>1. <<>> \in Seq(Lines) /\ Len(<<>>) = 0 /\ 0 + 1 = 1
    OBVIOUS
  <2>2. Offset(<<>>, 1) = 0
    BY <2>1, OffsetStep
  <2>3. Bytes(<<>>) = Offset(<<>>, 0 + 1)
    BY <2>1 DEF Bytes
  <2> QED BY <1>1, <2>1, <2>2, <2>3
<1>5. ASSUME NEW k \in 1 .. n
      PROVE  /\ External(t[k], d) => /\ Len(X[k]) = Len(X[k - 1]) + 2
                                     /\ Bytes(X[k]) = Bytes(X[k - 1]) + t[k].id_len + t[k].len[d]
             /\ ~ External(t[k], d) => /\ Len(X[k]) = Len(X[k - 1])
                                       /\ Bytes(X[k]) = Bytes(X[k - 1])
  <2> DEFINE p == Piece(t[k], d)
             x == X[k - 1]
  <2>1. k - 1 \in 0 .. n /\ k \in 1 .. Len(t)
    BY <1>2 DEF n
  <2>2. /\ p \in Seq(Uncut) /\ p \in Seq(Lines)
        /\ External(t[k], d) => Len(p) = 2 /\ p[1] = IdLine(t[k]) /\ p[2] = JsonLine(t[k], d)
        /\ ~ External(t[k], d) => Len(p) = 0
    BY <2>1, PieceType, UncutLines
  <2>3. x \in Seq(Lines) /\ Len(x) \in Nat /\ Bytes(x) \in Nat /\ X[k] = x \o p
    BY <1>1, <1>3, <2>1
  <2>4. /\ IdLine(t[k]).len = t[k].id_len /\ JsonLine(t[k], d).len = t[k].len[d]
        /\ t[k].id_len \in Nat /\ t[k].len[d] \in Nat
    BY SMTT(30), <2>1, LineKinds, TableFacts
  <2> HIDE DEF p, x
  <2>5. Len(X[k]) = Len(x) + Len(p) /\ Bytes(X[k]) = Bytes(x) + Bytes(p)
    BY <2>2, <2>3, Concatenated, OffsetsJoin
  <2>6. ASSUME External(t[k], d) PROVE Bytes(p) = t[k].id_len + t[k].len[d]
    <3>1. Len(p) = 2 /\ p[1].len = t[k].id_len /\ p[2].len = t[k].len[d]
      BY <2>2, <2>4, <2>6
    <3>2. 1 \in 1 .. Len(p) /\ 2 \in 1 .. Len(p) /\ 1 + 1 = 2 /\ 2 + 1 = 3
      BY <3>1
    <3>3. Offset(p, 1) = 0 /\ Offset(p, 2) = 0 + p[1].len /\ Offset(p, 3) = Offset(p, 2) + p[2].len
      BY <2>2, <3>2, OffsetStep
    <3>4. Bytes(p) = Offset(p, 3)
      BY <3>1, <3>2 DEF Bytes
    <3> QED BY <2>4, <3>1, <3>3, <3>4
  <2>7. ASSUME ~ External(t[k], d) PROVE Bytes(p) = 0
    <3>1. Bytes(p) = Offset(p, 1)
      BY <2>2, <2>7 DEF Bytes
    <3> QED BY <2>2, <3>1, OffsetStep
  <2>8. ASSUME External(t[k], d)
        PROVE  Len(X[k]) = Len(x) + 2 /\ Bytes(X[k]) = Bytes(x) + t[k].id_len + t[k].len[d]
    <3>1. Len(X[k]) = Len(x) + 2
      BY <2>2, <2>5, <2>8
    <3>2. Bytes(X[k]) = Bytes(x) + (t[k].id_len + t[k].len[d])
      BY <2>5, <2>6, <2>8
    <3>3. PICK a, b : a = t[k].id_len /\ b = t[k].len[d]
      OBVIOUS
    <3>4. Bytes(X[k]) = Bytes(x) + a + b
      BY <2>3, <2>4, <3>2, <3>3
    <3> QED BY <3>1, <3>3, <3>4
  <2>9. ASSUME ~ External(t[k], d)
        PROVE  Len(X[k]) = Len(x) /\ Bytes(X[k]) = Bytes(x)
    BY <2>2, <2>3, <2>5, <2>7, <2>9
  <2> QED BY <2>8, <2>9 DEF x
<1> QED BY <1>1, <1>3, <1>4, <1>5 DEF X, n

(* The whole -extra file starts with what the first k records add.         *)
LEMMA ExtrasStay ==
    ASSUME NEW t \in Tables, NEW d \in Databases, NEW k \in 0 .. Len(t)
    PROVE  /\ Len(Extras(t, d)[k]) <= Len(Extras(t, d)[Len(t)])
           /\ Bytes(Extras(t, d)[k]) <= Bytes(Extras(t, d)[Len(t)])
           /\ \A i \in 1 .. Len(Extras(t, d)[k]) : Extras(t, d)[Len(t)][i] = Extras(t, d)[k][i]
           /\ \A i \in 0 .. Len(Extras(t, d)[k]) :
                Offset(Extras(t, d)[Len(t)], i + 1) = Offset(Extras(t, d)[k], i + 1)
<1> DEFINE X == Extras(t, d)
           n == Len(t)
           Good(m) == /\ Len(X[k]) <= Len(X[k + m]) /\ Bytes(X[k]) <= Bytes(X[k + m])
                      /\ \A i \in 1 .. Len(X[k]) : X[k + m][i] = X[k][i]
                      /\ \A i \in 0 .. Len(X[k]) : Offset(X[k + m], i + 1) = Offset(X[k], i + 1)
           T == {m \in 0 .. n - k : Good(m)}
<1>1. /\ n \in Nat /\ k \in Nat /\ k <= n /\ n - k \in Nat
  BY TableFacts
<1>2. /\ \A m \in 0 .. n : X[m] \in Seq(Lines) /\ Len(X[m]) \in Nat /\ Bytes(X[m]) \in Nat
      /\ \A m \in 1 .. n : X[m] = X[m - 1] \o Piece(t[m], d)
  BY ExtrasFacts
<1>3. \A m \in 1 .. n : Piece(t[m], d) \in Seq(Lines)
  BY PieceType, UncutLines
<1> HIDE DEF X, n
<1>4. 0 \in T
  <2>1. k + 0 = k /\ 0 \in 0 .. n - k /\ k \in 0 .. n
    BY <1>1
  <2>2. Len(X[k]) <= Len(X[k]) /\ Bytes(X[k]) <= Bytes(X[k])
    BY <1>2, <2>1
  <2>3. Good(0)
    BY <2>1, <2>2
  <2> HIDE DEF Good
  <2> QED BY <2>1, <2>3
<1>5. ASSUME NEW m \in T, m < n - k PROVE m + 1 \in T
  <2> DEFINE p == Piece(t[k + m + 1], d)
  <2>1. /\ m \in 0 .. n - k /\ m + 1 \in 0 .. n - k /\ k + m \in 0 .. n /\ k + m + 1 \in 1 .. n
        /\ (k + m + 1) - 1 = k + m /\ k + (m + 1) = k + m + 1 /\ k \in 0 .. n /\ k + m + 1 \in 0 .. n
    BY <1>1, <1>5
  <2>2. Good(m)
    BY <1>5
  <2>3. /\ X[k + m] \in Seq(Lines) /\ p \in Seq(Lines) /\ X[k + m + 1] = X[k + m] \o p
        /\ Len(X[k]) \in Nat /\ Len(X[k + m]) \in Nat /\ Bytes(X[k]) \in Nat /\ Bytes(X[k + m]) \in Nat
    BY <1>2, <1>3, <2>1
  <2> HIDE DEF p
  <2>4. /\ Len(X[k + m + 1]) = Len(X[k + m]) + Len(p) /\ Len(p) \in Nat
        /\ \A i \in 1 .. Len(X[k + m]) : X[k + m + 1][i] = X[k + m][i]
        /\ \A i \in 0 .. Len(X[k + m]) : Offset(X[k + m + 1], i + 1) = Offset(X[k + m], i + 1)
        /\ Bytes(X[k + m + 1]) = Bytes(X[k + m]) + Bytes(p) /\ Bytes(p) \in Nat
    <3>1. PICK x, y : x = X[k + m] /\ y = X[k + m + 1]
      OBVIOUS
    <3>2. x \in Seq(Lines) /\ p \in Seq(Lines) /\ y = x \o p
      BY <2>3, <3>1
    <3>3. Len(y) = Len(x) + Len(p) /\ Len(p) \in Nat /\ \A i \in 1 .. Len(x) : y[i] = x[i]
      BY <3>2, Concatenated
    <3>4. /\ \A i \in 0 .. Len(x) : Offset(y, i + 1) = Offset(x, i + 1)
          /\ Bytes(y) = Bytes(x) + Bytes(p)
      BY <3>2, OffsetsJoin
    <3>5. Bytes(p) \in Nat
      BY <3>2, OffsetStep
    <3> QED BY <3>1, <3>3, <3>4, <3>5
  <2>5. Len(X[k]) <= Len(X[k + m + 1]) /\ Bytes(X[k]) <= Bytes(X[k + m + 1])
    BY SMTT(30), <2>2, <2>3, <2>4
  <2>6. /\ \A i \in 1 .. Len(X[k]) : i \in 1 .. Len(X[k + m])
        /\ \A i \in 0 .. Len(X[k]) : i \in 0 .. Len(X[k + m])
    <3>1. PICK a, b : a = Len(X[k]) /\ b = Len(X[k + m])
      OBVIOUS
    <3>2. a \in Nat /\ b \in Nat /\ a <= b
      BY <2>2, <2>3, <3>1
    <3>3. (\A i \in 1 .. a : i \in 1 .. b) /\ (\A i \in 0 .. a : i \in 0 .. b)
      BY <3>2
    <3> QED BY <3>1, <3>3
  <2>7. Good(m + 1)
    BY <2>1, <2>2, <2>4, <2>5, <2>6
  <2> HIDE DEF Good
  <2> QED BY <2>1, <2>7
<1>6. T = 0 .. n - k
  <2>1. T \subseteq 0 .. n - k
    OBVIOUS
  <2> HIDE DEF T
  <2> QED BY <1>1, <1>4, <1>5, <2>1, UpTo
<1>7. Good(n - k)
  <2>1. n - k \in 0 .. n - k
    BY <1>1
  <2> HIDE DEF Good
  <2> QED BY <1>6, <2>1
<1>8. k + (n - k) = n
  BY <1>1
<1> QED BY <1>7, <1>8 DEF X, n
(* Line i of a database file: the identifiers, and after each its JSON or  *)
(* where that is in the whole -extra file.                                 *)
PayloadOf(t, d, k) ==
    IF External(t[k], d)
    THEN RefLine("@", Bytes(Extras(t, d)[k - 1]) + t[k].id_len + 1, t[k].len[d] - 1)
    ELSE JsonLine(t[k], d)

Final(t, d, i) == IF i % 2 = 1 THEN IdLine(t[(i + 1) \div 2]) ELSE PayloadOf(t, d, (i + 1) \div 2)

FinalFile(t, d) == [i \in 1 .. 2 * Len(t) |-> Final(t, d, i)]

LEMMA Parity ==
    ASSUME NEW n \in Nat
    PROVE  /\ \A i \in 1 .. 2 * n : \E k \in 1 .. n : i = 2 * k - 1 \/ i = 2 * k
           /\ \A k \in 1 .. n : /\ 2 * k - 1 \in 1 .. 2 * n /\ 2 * k \in 1 .. 2 * n
                                /\ (2 * k - 1) % 2 = 1 /\ (2 * k) % 2 # 1
                                /\ ((2 * k - 1) + 1) \div 2 = k /\ (2 * k + 1) \div 2 = k
<1>1. ASSUME NEW i \in 1 .. 2 * n PROVE \E k \in 1 .. n : i = 2 * k - 1 \/ i = 2 * k
  <2>1. (i + 1) \div 2 \in 1 .. n
    OBVIOUS
  <2>2. i = 2 * ((i + 1) \div 2) - 1 \/ i = 2 * ((i + 1) \div 2)
    OBVIOUS
  <2> QED BY <2>1, <2>2
<1>2. ASSUME NEW k \in 1 .. n
      PROVE  /\ 2 * k - 1 \in 1 .. 2 * n /\ 2 * k \in 1 .. 2 * n
             /\ (2 * k - 1) % 2 = 1 /\ (2 * k) % 2 # 1
             /\ ((2 * k - 1) + 1) \div 2 = k /\ (2 * k + 1) \div 2 = k
  OBVIOUS
<1> QED BY <1>1, <1>2

LEMMA FinalLines ==
    ASSUME NEW t \in Tables, NEW d \in Databases
    PROVE  /\ \A k \in 1 .. Len(t) : /\ Final(t, d, 2 * k - 1) = IdLine(t[k])
                                     /\ Final(t, d, 2 * k) = PayloadOf(t, d, k)
                                     /\ PayloadOf(t, d, k) \in Uncut
                                     /\ PayloadOf(t, d, k).kind \in {"json", "@"}
                                     /\ PayloadOf(t, d, k).len > 2
           /\ \A i \in 1 .. 2 * Len(t) : Final(t, d, i) \in Uncut
           /\ FinalFile(t, d) \in Seq(Uncut) /\ FinalFile(t, d) \in Seq(Lines)
           /\ Len(FinalFile(t, d)) = 2 * Len(t)
<1> DEFINE n == Len(t)
<1>1. n \in Nat
  BY TableFacts
<1>2. ASSUME NEW k \in 1 .. n
      PROVE  Final(t, d, 2 * k - 1) = IdLine(t[k]) /\ Final(t, d, 2 * k) = PayloadOf(t, d, k)
  <2>1. /\ (2 * k - 1) % 2 = 1 /\ (2 * k) % 2 # 1
        /\ ((2 * k - 1) + 1) \div 2 = k /\ (2 * k + 1) \div 2 = k
    BY <1>1, Parity
  <2> QED BY <2>1 DEF Final
<1>3. ASSUME NEW k \in 1 .. n
      PROVE  /\ PayloadOf(t, d, k) \in Uncut /\ PayloadOf(t, d, k).kind \in {"json", "@"}
             /\ PayloadOf(t, d, k).len > 2
  <2>1. /\ k - 1 \in 0 .. n /\ t[k].id_len \in Nat /\ t[k].len[d] \in Nat /\ t[k].len[d] > 2
    BY <1>1, TableFacts
  <2>2. Bytes(Extras(t, d)[k - 1]) \in Nat
    BY <2>1, ExtrasFacts
  <2>3. PICK o, l : o = Bytes(Extras(t, d)[k - 1]) + t[k].id_len + 1 /\ l = t[k].len[d] - 1
    OBVIOUS
  <2>4. o \in Nat /\ l \in Nat
    <3>1. PICK a, b, c : a = Bytes(Extras(t, d)[k - 1]) /\ b = t[k].id_len /\ c = t[k].len[d]
      OBVIOUS
    <3>2. o = a + b + 1 /\ l = c - 1 /\ a \in Nat /\ b \in Nat /\ c \in Nat /\ c > 2
      BY <2>1, <2>2, <2>3, <3>1
    <3> QED BY <3>2
  <2>5. /\ RefLine("@", o, l) \in Uncut /\ RefLine("@", o, l).kind = "@"
        /\ RefLine("@", o, l).len = RefLength
        /\ JsonLine(t[k], d) \in Uncut /\ JsonLine(t[k], d).kind = "json"
        /\ JsonLine(t[k], d).len = t[k].len[d]
    BY <2>4, LineKinds
  <2>6. RefLength > 2
    BY WriteAssumption
  <2>7. PayloadOf(t, d, k) = IF External(t[k], d) THEN RefLine("@", o, l) ELSE JsonLine(t[k], d)
    BY <2>3 DEF PayloadOf
  <2> QED BY <2>1, <2>5, <2>6, <2>7
<1>4. ASSUME NEW i \in 1 .. 2 * n PROVE Final(t, d, i) \in Uncut
  <2>1. PICK k \in 1 .. n : i = 2 * k - 1 \/ i = 2 * k
    BY <1>1, Parity
  <2>2. IdLine(t[k]) \in Uncut
    BY LineKinds
  <2> QED BY <1>2, <1>3, <2>1, <2>2
<1>5. FinalFile(t, d) \in [1 .. 2 * n -> Uncut] /\ 2 * n \in Nat
  BY <1>1, <1>4 DEF FinalFile
<1>6. FinalFile(t, d) \in Seq(Uncut) /\ Len(FinalFile(t, d)) = 2 * n
  <2>1. PICK m, f : m = 2 * n /\ f = FinalFile(t, d)
    OBVIOUS
  <2>2. m \in Nat /\ f \in [1 .. m -> Uncut]
    BY <1>5, <2>1
  <2>3. f \in Seq(Uncut) /\ Len(f) = m
    BY <2>2, LenProperties, SeqDef
  <2> QED BY <2>1, <2>3
<1> QED BY <1>2, <1>3, <1>4, <1>6, UncutLines

(* The reference to an external JSON is where the -extra file has it.      *)
LEMMA ExternalPlace ==
    ASSUME NEW t \in Tables, NEW d \in Databases, NEW k \in 1 .. Len(t), External(t[k], d)
    PROVE  LET E == Extras(t, d)[Len(t)]
               j == Len(Extras(t, d)[k - 1])
           IN  /\ E \in Seq(Lines) /\ j \in Nat /\ j + 2 <= Len(E)
               /\ E[j + 1] = IdLine(t[k]) /\ E[j + 2] = JsonLine(t[k], d)
               /\ Offset(E, j + 2) = Bytes(Extras(t, d)[k - 1]) + t[k].id_len
<1> DEFINE X == Extras(t, d)
           n == Len(t)
           j == Len(X[k - 1])
           p == Piece(t[k], d)
<1>1. /\ n \in Nat /\ k - 1 \in 0 .. n /\ k \in 0 .. n /\ n \in 0 .. n
  BY TableFacts
<1>2. /\ X[n] \in Seq(Lines) /\ X[k] \in Seq(Lines) /\ X[k - 1] \in Seq(Lines)
      /\ j \in Nat /\ X[k] = X[k - 1] \o p /\ Len(X[k]) = j + 2
      /\ Bytes(X[k - 1]) \in Nat
  BY <1>1, ExtrasFacts
<1>3. p \in Seq(Lines) /\ Len(p) = 2 /\ p[1] = IdLine(t[k]) /\ p[2] = JsonLine(t[k], d)
  BY PieceType, UncutLines
<1>4. IdLine(t[k]).len = t[k].id_len /\ t[k].id_len \in Nat
  BY LineKinds, TableFacts
<1>5. /\ Len(X[k]) <= Len(X[n])
      /\ \A i \in 1 .. Len(X[k]) : X[n][i] = X[k][i]
      /\ \A i \in 0 .. Len(X[k]) : Offset(X[n], i + 1) = Offset(X[k], i + 1)
  BY <1>1, ExtrasStay
<1> HIDE DEF X, p
<1>6. PICK x, y, z : x = X[k - 1] /\ y = X[k] /\ z = X[n]
  OBVIOUS
<1>7. /\ \A i \in 1 .. Len(p) : y[Len(x) + i] = p[i]
      /\ \A i \in 0 .. Len(p) : Offset(y, Len(x) + i + 1) = Bytes(x) + Offset(p, i + 1)
  <2>1. x \in Seq(Lines) /\ p \in Seq(Lines) /\ y = x \o p
    BY <1>2, <1>3, <1>6
  <2>2. \A i \in 1 .. Len(p) : y[Len(x) + i] = p[i]
    BY <2>1, Concatenated
  <2>3. \A i \in 0 .. Len(p) : Offset(y, Len(x) + i + 1) = Bytes(x) + Offset(p, i + 1)
    BY <2>1, OffsetsJoin
  <2> QED BY <2>2, <2>3
<1>8. /\ 1 \in 1 .. Len(p) /\ 2 \in 1 .. Len(p) /\ 1 \in 0 .. Len(p) /\ Len(x) = j
      /\ j + 1 \in 1 .. Len(y) /\ j + 2 \in 1 .. Len(y) /\ j + 1 \in 0 .. Len(y) /\ j + 1 + 1 = j + 2
      /\ 1 + 1 = 2
  BY <1>2, <1>3, <1>6
<1>9. y[j + 1] = IdLine(t[k]) /\ y[j + 2] = JsonLine(t[k], d)
  BY <1>3, <1>7, <1>8
<1>10. Offset(y, j + 2) = Bytes(x) + t[k].id_len
  <2>1. Offset(y, j + 1 + 1) = Bytes(x) + Offset(p, 1 + 1)
    BY <1>7, <1>8
  <2>2. Offset(p, 1) = 0 /\ Offset(p, 1 + 1) = Offset(p, 1) + p[1].len
    BY <1>3, <1>8, OffsetStep
  <2> QED BY <1>3, <1>4, <1>8, <2>1, <2>2
<1>11. z[j + 1] = y[j + 1] /\ z[j + 2] = y[j + 2]
  BY <1>5, <1>6, <1>8
<1>12. Offset(z, j + 2) = Offset(y, j + 2)
  <2>1. Offset(z, (j + 1) + 1) = Offset(y, (j + 1) + 1)
    BY <1>5, <1>6, <1>8
  <2> QED BY <1>8, <2>1
<1>13. z \in Seq(Lines) /\ j \in Nat /\ j + 2 <= Len(z)
  <2>1. Len(z) \in Nat
    BY <1>2, <1>6, LineTypes
  <2> QED BY <1>2, <1>5, <1>6, <2>1
<1>14. /\ z[j + 1] = IdLine(t[k]) /\ z[j + 2] = JsonLine(t[k], d)
       /\ Offset(z, j + 2) = Bytes(x) + t[k].id_len
  BY <1>9, <1>10, <1>11, <1>12
<1> QED BY <1>6, <1>13, <1>14 DEF X

(* No line of an -extra file is empty.                                     *)
LEMMA ExtraLength ==
    ASSUME NEW t \in Tables, NEW d \in Databases
    PROVE  \A i \in 1 .. Len(Extras(t, d)[Len(t)]) : Extras(t, d)[Len(t)][i].len > 0
<1>1. Len(t) \in 0 .. Len(t)
  BY TableFacts
<1>2. PICK x : x = Extras(t, d)[Len(t)]
  OBVIOUS
<1>3. x \in Seq(Uncut)
  BY <1>1, <1>2, ExtrasFacts
<1>4. \A i \in 1 .. Len(x) : x[i] \in Uncut
  BY <1>3, LenProperties
<1>5. \A i \in 1 .. Len(x) : x[i].len > 0
  <2> SUFFICES ASSUME NEW i \in 1 .. Len(x) PROVE x[i].len > 0
    OBVIOUS
  <2>1. PICK r : r = x[i]
    OBVIOUS
  <2>2. r \in Uncut
    BY <1>4, <2>1
  <2>3. r.len > 0
    BY <2>2 DEF Uncut
  <2> QED BY <2>1, <2>3
<1> QED BY <1>2, <1>5
-----------------------------------------------------------------------------
(* What these files are worth to the reader.                               *)

LEMMA FinalResolves ==
    ASSUME table \in Tables, NEW d \in Databases,
           merged[d] = FinalFile(table, d), extra[d] = Extras(table, d)[Len(table)]
    PROVE  \A i \in DOMAIN table : Resolves(i, d)
<1> DEFINE n == Len(table)
           E == extra[d]
           M == merged[d]
<1>1. n \in Nat /\ DOMAIN table = 1 .. n
  BY TableFacts
<1> SUFFICES ASSUME NEW i \in 1 .. n PROVE Resolves(i, d)
  BY <1>1
<1>2. /\ M[2 * i - 1] = IdLine(table[i]) /\ M[2 * i] = PayloadOf(table, d, i)
      /\ Len(M) = 2 * n /\ 2 * i - 1 \in 1 .. Len(M) - 1 /\ (2 * i - 1) + 1 = 2 * i
  <2>1. Len(M) = 2 * n
    BY FinalLines
  <2>2. 2 * i - 1 \in 1 .. 2 * n /\ 2 * i \in 1 .. 2 * n
    BY <1>1, Parity
  <2>3. M[2 * i - 1] = Final(table, d, 2 * i - 1) /\ M[2 * i] = Final(table, d, 2 * i)
    BY <2>2 DEF FinalFile
  <2>4. 2 * i - 1 \in 1 .. 2 * n - 1 /\ (2 * i - 1) + 1 = 2 * i
    BY <1>1
  <2> QED BY <2>1, <2>3, <2>4, FinalLines
<1>3. Retrieved(PayloadOf(table, d, i), d) = {table[i].key}
  <2>1. CASE ~ External(table[i], d)
    <3>1. PayloadOf(table, d, i) = JsonLine(table[i], d)
      BY <2>1 DEF PayloadOf
    <3>2. JsonLine(table[i], d).kind = "json" /\ JsonLine(table[i], d).key = table[i].key
      BY LineKinds
    <3> QED BY <3>1, <3>2 DEF Retrieved
  <2>2. CASE External(table[i], d)
    <3> DEFINE B == Bytes(Extras(table, d)[i - 1])
               o == B + table[i].id_len + 1
               l == table[i].len[d] - 1
               j == Len(Extras(table, d)[i - 1]) + 2
               K == {k \in DOMAIN E : /\ E[k].kind = "json" /\ Offset(E, k) + 1 = o /\ E[k].len - 1 = l}
    <3>1. /\ table[i].id_len \in Nat /\ table[i].len[d] \in Nat /\ table[i].len[d] > 2 /\ i - 1 \in 0 .. n
      BY <1>1, TableFacts
    <3>2. B \in Nat
      BY <3>1, ExtrasFacts
    <3>3. o \in Nat /\ l \in Nat
      <4>1. PICK a, b : a = table[i].id_len /\ b = table[i].len[d]
        OBVIOUS
      <4> HIDE DEF B
      <4>2. o = B + a + 1 /\ l = b - 1 /\ a \in Nat /\ b \in Nat /\ b > 2
        BY <3>1, <4>1
      <4> HIDE DEF o, l
      <4> QED BY <3>2, <4>2
    <3>4. /\ E \in Seq(Lines) /\ Len(Extras(table, d)[i - 1]) \in Nat /\ j <= Len(E)
          /\ E[j] = JsonLine(table[i], d) /\ Offset(E, j) = B + table[i].id_len
      BY <2>2, ExternalPlace
    <3>5. Len(E) \in Nat /\ DOMAIN E = 1 .. Len(E) /\ j \in 1 .. Len(E)
      BY <3>4, LineTypes
    <3>6. \A a, b \in 1 .. Len(E) + 1 : a < b => Offset(E, a) < Offset(E, b)
      BY <3>4, ExtraLength, OffsetsGrow
    <3>7. \A a \in 1 .. Len(E) : Offset(E, a) \in Nat
      <4>1. \A a \in 1 .. Len(E) : a \in 1 .. Len(E) + 1
        BY <3>5
      <4> QED BY <3>4, <4>1, OffsetStep
    <3>8. /\ JsonLine(table[i], d).kind = "json" /\ JsonLine(table[i], d).key = table[i].key
          /\ JsonLine(table[i], d).len = table[i].len[d]
      BY LineKinds
    <3>9. j \in K
      <4>1. Offset(E, j) + 1 = o
        BY <3>4
      <4> HIDE DEF o, j
      <4>2. E[j].kind = "json" /\ E[j].len - 1 = l
        BY <3>4, <3>8
      <4> HIDE DEF l
      <4> QED BY <3>5, <4>1, <4>2
    <3>10. ASSUME NEW k \in K PROVE k = j
      <4>1. k \in 1 .. Len(E) /\ Offset(E, k) + 1 = o
        BY <3>5
      <4>2. Offset(E, j) + 1 = o
        BY <3>4
      <4> HIDE DEF K, o, j
      <4>3. Offset(E, k) = Offset(E, j)
        BY <3>5, <3>7, <4>1, <4>2
      <4>4. k \in 1 .. Len(E) + 1 /\ j \in 1 .. Len(E) + 1 /\ k \in Nat /\ j \in Nat
        BY <3>5, <4>1
      <4>5. ~ (k < j) /\ ~ (j < k)
        BY <3>5, <3>6, <3>7, <4>1, <4>3, <4>4
      <4> QED BY <4>4, <4>5
    <3>11. PayloadOf(table, d, i) = RefLine("@", o, l)
      BY <2>2 DEF PayloadOf
    <3> HIDE DEF o, l, j
    <3>12. /\ RefLine("@", o, l).kind = "@" /\ RefLine("@", o, l).offset = o
           /\ RefLine("@", o, l).length = l
      BY <3>3, LineKinds
    <3>13. Retrieved(RefLine("@", o, l), d) = {extra[d][k].key : k \in K}
      BY <3>12 DEF Retrieved
    <3> HIDE DEF K, E
    <3>14. {E[k].key : k \in K} = {table[i].key}
      BY <3>4, <3>8, <3>9, <3>10
    <3> QED BY <3>11, <3>13, <3>14 DEF E
  <2> QED BY <2>1, <2>2
<1> HIDE DEF M
<1>4. \E k \in 1 .. Len(M) - 1 : M[k] = IdLine(table[i]) /\ Retrieved(M[k + 1], d) = {table[i].key}
  <2>1. M[(2 * i - 1) + 1] = PayloadOf(table, d, i)
    BY <1>2
  <2> QED BY <1>2, <1>3, <2>1
<1> QED BY <1>4 DEF Resolves, M

(* The identifier lines are every other one.                               *)
LEMMA Alternate ==
    ASSUME NEW s, NEW n \in Nat, Len(s) = 2 * n,
           \A k \in 1 .. n : s[2 * k - 1].kind = "id" /\ s[2 * k].kind # "id"
    PROVE  LayoutOf(s) = [n      |-> n,
                          key    |-> [i \in 1 .. n |-> s[2 * i - 1].key],
                          start  |-> [i \in 1 .. n + 1 |-> IF i = n + 1 THEN Bytes(s) ELSE Offset(s, 2 * i - 1)],
                          id_end |-> [i \in 1 .. n |-> Offset(s, (2 * i - 1) + 1) - 1]]
<1> DEFINE S(m) == [i \in 1 .. m |-> 2 * i - 1]
           g == [k \in 0 .. 2 * n |-> S((k + 1) \div 2)]
           F(x) == [k \in 0 .. Len(s) |->
                      IF k = 0 THEN <<>>
                      ELSE x[k - 1] \o (IF s[k].kind = "id" THEN <<k>> ELSE <<>>)]
           h == CHOOSE x : x = F(x)
<1>1. ASSUME NEW m \in Nat PROVE S(m) \in Seq(Nat) /\ Len(S(m)) = m /\ \A i \in 1 .. m : S(m)[i] = 2 * i - 1
  <2>1. \A i \in 1 .. m : 2 * i - 1 \in Nat
    OBVIOUS
  <2> QED BY <2>1
<1>2. S(0) = <<>>
  <2>1. S(0) \in Seq(Nat) /\ Len(S(0)) = 0
    BY <1>1
  <2> HIDE DEF S
  <2> QED BY <2>1, EmptySeq
<1>3. ASSUME NEW m \in Nat PROVE S(m + 1) = S(m) \o <<2 * m + 1>>
  <2> DEFINE a == S(m + 1)
             b == S(m)
             c == <<2 * m + 1>>
             e == b \o c
  <2>1. /\ a \in Seq(Nat) /\ Len(a) = m + 1 /\ \A i \in 1 .. m + 1 : a[i] = 2 * i - 1
        /\ b \in Seq(Nat) /\ Len(b) = m /\ \A i \in 1 .. m : b[i] = 2 * i - 1
    <3>1. m + 1 \in Nat
      OBVIOUS
    <3> QED BY <1>1, <3>1
  <2>2. c \in Seq(Nat) /\ Len(c) = 1 /\ c[1] = 2 * m + 1
    OBVIOUS
  <2> HIDE DEF a, b, c
  <2>3. /\ e \in Seq(Nat) /\ Len(e) = m + 1
        /\ \A i \in 1 .. m + 1 : e[i] = IF i <= m THEN b[i] ELSE c[i - m]
    <3>1. e \in Seq(Nat) /\ Len(e) = Len(b) + Len(c)
      BY <2>1, <2>2, ConcatProperties
    <3>2. \A i \in 1 .. Len(b) + Len(c) : e[i] = IF i <= Len(b) THEN b[i] ELSE c[i - Len(b)]
      BY <2>1, <2>2, ConcatProperties
    <3> QED BY <2>1, <2>2, <3>1, <3>2
  <2> HIDE DEF e
  <2>4. ASSUME NEW i \in 1 .. m + 1 PROVE a[i] = e[i]
    <3>1. CASE i <= m
      <4>1. i \in 1 .. m
        BY <3>1
      <4> QED BY <2>1, <2>3, <3>1, <4>1
    <3>2. CASE ~ (i <= m)
      <4>1. i = m + 1 /\ i - m = 1
        BY <3>2
      <4>2. e[i] = 2 * m + 1 /\ a[i] = 2 * i - 1
        BY <2>1, <2>2, <2>3, <3>2, <4>1
      <4> QED BY <4>1, <4>2
    <3> QED BY <3>1, <3>2
  <2>5. a = e
    <3>1. a \in Seq(Nat) /\ e \in Seq(Nat) /\ Len(a) = Len(e)
      BY <2>1, <2>3
    <3>2. \A i \in 1 .. Len(a) : a[i] = e[i]
      BY <2>1, <2>4
    <3> QED BY <3>1, <3>2, SeqEqual
  <2> QED BY <2>5 DEF a, b, c, e
<1> HIDE DEF S
<1>4. /\ \A k \in 0 .. 2 * n : g[k] = S((k + 1) \div 2)
  OBVIOUS
<1>5. ASSUME NEW k \in 0 .. 2 * n
      PROVE  g[k] = IF k = 0 THEN <<>>
                    ELSE g[k - 1] \o (IF s[k].kind = "id" THEN <<k>> ELSE <<>>)
  <2>1. CASE k = 0
    <3>1. (0 + 1) \div 2 = 0
      OBVIOUS
    <3> QED BY <1>2, <1>4, <2>1, <3>1
  <2>2. CASE k # 0
    <3>1. k \in 1 .. 2 * n /\ k - 1 \in 0 .. 2 * n
      BY <2>2
    <3>2. PICK m \in 1 .. n : k = 2 * m - 1 \/ k = 2 * m
      BY <3>1, Parity
    <3>3. CASE k = 2 * m - 1
      <4>1. (k + 1) \div 2 = m /\ ((k - 1) + 1) \div 2 = m - 1 /\ m - 1 \in Nat /\ (m - 1) + 1 = m
            /\ 2 * (m - 1) + 1 = k
        BY <3>2, <3>3
      <4>2. g[k] = S(m) /\ g[k - 1] = S(m - 1)
        BY <1>4, <3>1, <4>1
      <4>3. S(m) = S(m - 1) \o <<k>>
        BY <1>3, <4>1
      <4>4. s[k].kind = "id"
        BY <3>3
      <4> QED BY <2>2, <4>2, <4>3, <4>4
    <3>4. CASE k = 2 * m
      <4>1. (k + 1) \div 2 = m /\ ((k - 1) + 1) \div 2 = m /\ m \in Nat
        BY <3>2, <3>4
      <4>2. g[k] = S(m) /\ g[k - 1] = S(m)
        BY <1>4, <3>1, <4>1
      <4>3. S(m) \o <<>> = S(m)
        BY <1>1, <4>1, ConcatEmptySeq
      <4>4. s[k].kind # "id"
        BY <3>4
      <4> QED BY <2>2, <4>2, <4>3, <4>4
    <3> QED BY <3>2, <3>3, <3>4
  <2> QED BY <2>1, <2>2
<1>6. g = F(g)
  <2> HIDE DEF S
  <2>1. F(g) = [k \in 0 .. 2 * n |-> IF k = 0 THEN <<>>
                    ELSE g[k - 1] \o (IF s[k].kind = "id" THEN <<k>> ELSE <<>>)]
    OBVIOUS
  <2>2. g = [k \in 0 .. 2 * n |-> g[k]]
    OBVIOUS
  <2> HIDE DEF g, F
  <2> QED BY <1>5, <2>1, <2>2
<1> HIDE DEF g
<1>7. h = F(h)
  <2> HIDE DEF F
  <2> QED BY <1>6
<1> HIDE DEF h
<1>8. \A k \in 0 .. 2 * n : h[k] = IF k = 0 THEN <<>>
                    ELSE h[k - 1] \o (IF s[k].kind = "id" THEN <<k>> ELSE <<>>)
  BY <1>7
<1> HIDE DEF F
<1> DEFINE T == {k \in 0 .. 2 * n : h[k] = g[k]}
<1>9. T = 0 .. 2 * n
  <2>1. 0 \in T
    <3>1. 0 \in 0 .. 2 * n
      OBVIOUS
    <3> QED BY <1>5, <1>8, <3>1
  <2>2. ASSUME NEW k \in T, k < 2 * n PROVE k + 1 \in T
    <3>1. k \in 0 .. 2 * n /\ h[k] = g[k]
      BY <2>2
    <3>2. k + 1 \in 0 .. 2 * n /\ k + 1 # 0 /\ (k + 1) - 1 = k
      BY <2>2, <3>1
    <3>3. h[k + 1] = g[k + 1]
      BY <1>5, <1>8, <3>1, <3>2
    <3> QED BY <3>2, <3>3
  <2>3. T \subseteq 0 .. 2 * n /\ 2 * n \in Nat
    OBVIOUS
  <2> HIDE DEF T
  <2> QED BY <2>1, <2>2, <2>3, UpTo
<1>10. h[2 * n] = S(n)
  <2>1. 2 * n \in 0 .. 2 * n /\ (2 * n + 1) \div 2 = n
    OBVIOUS
  <2>2. h[2 * n] = g[2 * n]
    BY <1>9, <2>1
  <2> QED BY <1>4, <2>1, <2>2
<1>11. Len(S(n)) = n /\ \A i \in 1 .. n : S(n)[i] = 2 * i - 1
  BY <1>1
<1>12. LayoutOf(s) = [n      |-> Len(h[Len(s)]),
                      key    |-> [i \in 1 .. Len(h[Len(s)]) |-> s[h[Len(s)][i]].key],
                      start  |-> [i \in 1 .. Len(h[Len(s)]) + 1 |->
                                    IF i = Len(h[Len(s)]) + 1 THEN Bytes(s) ELSE Offset(s, h[Len(s)][i])],
                      id_end |-> [i \in 1 .. Len(h[Len(s)]) |-> Offset(s, h[Len(s)][i] + 1) - 1]]
  BY DEF LayoutOf, h, F
<1>13. PICK ids : ids = S(n)
  OBVIOUS
<1>14. Len(ids) = n /\ h[Len(s)] = ids /\ \A i \in 1 .. n : ids[i] = 2 * i - 1
  BY <1>10, <1>11, <1>13
<1>15. LayoutOf(s) = [n      |-> n,
                      key    |-> [i \in 1 .. n |-> s[ids[i]].key],
                      start  |-> [i \in 1 .. n + 1 |->
                                    IF i = n + 1 THEN Bytes(s) ELSE Offset(s, ids[i])],
                      id_end |-> [i \in 1 .. n |-> Offset(s, ids[i] + 1) - 1]]
  BY <1>12, <1>14
<1>16. [i \in 1 .. n |-> s[ids[i]].key] = [i \in 1 .. n |-> s[2 * i - 1].key]
  BY <1>14
<1>17. [i \in 1 .. n + 1 |-> IF i = n + 1 THEN Bytes(s) ELSE Offset(s, ids[i])]
       = [i \in 1 .. n + 1 |-> IF i = n + 1 THEN Bytes(s) ELSE Offset(s, 2 * i - 1)]
  <2>1. \A i \in 1 .. n + 1 : i # n + 1 => i \in 1 .. n
    OBVIOUS
  <2> QED BY <1>14, <2>1
<1>18. [i \in 1 .. n |-> Offset(s, ids[i] + 1) - 1] = [i \in 1 .. n |-> Offset(s, (2 * i - 1) + 1) - 1]
  BY <1>14
<1> QED BY <1>15, <1>16, <1>17, <1>18
(* The identifiers are sorted, and the records touch.                      *)
LEMMA FinalSorted ==
    ASSUME NEW t \in Tables, NEW d \in Databases
    PROVE  /\ WellFormed(LayoutOf(FinalFile(t, d)))
           /\ LayoutOf(FinalFile(t, d)).n = Len(t)
           /\ \A i \in 1 .. Len(t) : LayoutOf(FinalFile(t, d)).key[i] = t[i].key
<1> DEFINE n == Len(t)
           s == FinalFile(t, d)
           L == LayoutOf(s)
           a(i) == Offset(s, 2 * i - 1)
<1>1. n \in Nat /\ s \in Seq(Lines) /\ Len(s) = 2 * n
  BY TableFacts, FinalLines
<1>2. ASSUME NEW k \in 1 .. n
      PROVE  /\ s[2 * k - 1] = IdLine(t[k]) /\ s[2 * k] = PayloadOf(t, d, k)
             /\ s[2 * k - 1].kind = "id" /\ s[2 * k].kind # "id"
             /\ s[2 * k - 1].key = t[k].key
             /\ s[2 * k - 1].len \in Nat /\ s[2 * k - 1].len > 1
             /\ s[2 * k].len \in Nat /\ s[2 * k].len > 2
             /\ 2 * k - 1 \in 1 .. 2 * n /\ 2 * k \in 1 .. 2 * n
  <2>1. 2 * k - 1 \in 1 .. 2 * n /\ 2 * k \in 1 .. 2 * n
    BY <1>1, Parity
  <2>2. s[2 * k - 1] = Final(t, d, 2 * k - 1) /\ s[2 * k] = Final(t, d, 2 * k)
    BY <2>1 DEF FinalFile
  <2>3. s[2 * k - 1] = IdLine(t[k]) /\ s[2 * k] = PayloadOf(t, d, k)
    BY <2>2, FinalLines
  <2>4. /\ IdLine(t[k]).kind = "id" /\ IdLine(t[k]).key = t[k].key
        /\ IdLine(t[k]).len = t[k].id_len /\ t[k].id_len > 1
    BY LineKinds, TableFacts
  <2>5. PayloadOf(t, d, k).kind \in {"json", "@"} /\ PayloadOf(t, d, k).len > 2
    BY FinalLines
  <2>6. s[2 * k - 1].len \in Nat /\ s[2 * k].len \in Nat
    BY <1>1, <2>1, LineTypes
  <2> QED BY <2>1, <2>3, <2>4, <2>5, <2>6
<1> HIDE DEF n, s
<1>3. ASSUME NEW k \in 1 .. n
      PROVE  /\ a(k) \in Nat /\ Offset(s, (2 * k - 1) + 1) = a(k) + s[2 * k - 1].len
             /\ a(k + 1) = a(k) + s[2 * k - 1].len + s[2 * k].len
  <2>1. /\ (2 * k - 1) + 1 = 2 * k /\ 2 * k + 1 = 2 * (k + 1) - 1
        /\ 2 * k - 1 \in 1 .. Len(s) /\ 2 * k \in 1 .. Len(s) /\ 2 * k - 1 \in 1 .. Len(s) + 1
    BY <1>1, <1>2
  <2>2. /\ Offset(s, 2 * k - 1) \in Nat
        /\ Offset(s, (2 * k - 1) + 1) = Offset(s, 2 * k - 1) + s[2 * k - 1].len
        /\ Offset(s, 2 * k + 1) = Offset(s, 2 * k) + s[2 * k].len
    BY <1>1, <2>1, OffsetStep
  <2> QED BY <2>1, <2>2
<1>4. a(n + 1) = Bytes(s) /\ Bytes(s) \in Nat
  <2>1. 2 * (n + 1) - 1 = Len(s) + 1
    BY <1>1
  <2> QED BY <1>1, <2>1, OffsetStep DEF Bytes
<1>5. a(1) = 0
  <2>1. 2 * 1 - 1 = 1
    OBVIOUS
  <2> QED BY <1>1, <2>1, OffsetStep
<1>6. \A i \in 1 .. n + 1 : a(i) \in Nat
  <2>1. \A i \in 1 .. n + 1 : i = n + 1 \/ i \in 1 .. n
    BY <1>1
  <2> QED BY <1>3, <1>4, <2>1
<1>7. L = [n      |-> n,
           key    |-> [i \in 1 .. n |-> s[2 * i - 1].key],
           start  |-> [i \in 1 .. n + 1 |-> IF i = n + 1 THEN Bytes(s) ELSE a(i)],
           id_end |-> [i \in 1 .. n |-> Offset(s, (2 * i - 1) + 1) - 1]]
  <2>1. \A k \in 1 .. n : s[2 * k - 1].kind = "id" /\ s[2 * k].kind # "id"
    BY <1>2
  <2> QED BY <1>1, <2>1, Alternate
<1> HIDE DEF a, L
<1>8. /\ L.n = n
      /\ L.key = [i \in 1 .. n |-> s[2 * i - 1].key]
      /\ L.start = [i \in 1 .. n + 1 |-> IF i = n + 1 THEN Bytes(s) ELSE a(i)]
      /\ L.id_end = [i \in 1 .. n |-> Offset(s, (2 * i - 1) + 1) - 1]
  BY <1>7
<1>9. \A i \in 1 .. n : L.key[i] = t[i].key /\ L.key[i] \in Nat
  <2>1. \A i \in 1 .. n : t[i].key \in Nat
    BY TableFacts DEF n
  <2> QED BY <1>2, <1>8, <2>1
<1>10. \A i \in 1 .. n + 1 : L.start[i] = a(i)
  BY <1>4, <1>8
<1>11. \A i \in 1 .. n : /\ L.id_end[i] = a(i) + s[2 * i - 1].len - 1 /\ L.id_end[i] \in Nat
                         /\ a(i) < L.id_end[i] /\ L.id_end[i] + 2 < a(i + 1)
                         /\ a(i) < a(i + 1) /\ i + 1 \in 1 .. n + 1 /\ i \in 1 .. n + 1
  <2> SUFFICES ASSUME NEW i \in 1 .. n
               PROVE  /\ L.id_end[i] = a(i) + s[2 * i - 1].len - 1 /\ L.id_end[i] \in Nat
                      /\ a(i) < L.id_end[i] /\ L.id_end[i] + 2 < a(i + 1)
                      /\ a(i) < a(i + 1) /\ i + 1 \in 1 .. n + 1 /\ i \in 1 .. n + 1
    OBVIOUS
  <2>1. L.id_end[i] = Offset(s, (2 * i - 1) + 1) - 1
    BY <1>8
  <2>2. PICK x, y : x = s[2 * i - 1].len /\ y = s[2 * i].len
    OBVIOUS
  <2>3. /\ x \in Nat /\ x > 1 /\ y \in Nat /\ y > 2 /\ a(i) \in Nat
        /\ L.id_end[i] = a(i) + x - 1 /\ a(i + 1) = a(i) + x + y
    BY <1>2, <1>3, <2>1, <2>2
  <2>4. i + 1 \in 1 .. n + 1 /\ i \in 1 .. n + 1
    BY <1>1
  <2> QED BY <2>2, <2>3, <2>4
<1>12. L.key \in [1 .. n -> Nat] /\ L.id_end \in [1 .. n -> Nat] /\ L.start \in [1 .. n + 1 -> Nat]
  <2>1. \A i \in 1 .. n : s[2 * i - 1].key \in Nat
    BY <1>8, <1>9
  <2>2. \A i \in 1 .. n : Offset(s, (2 * i - 1) + 1) - 1 \in Nat
    BY <1>8, <1>11
  <2>3. \A i \in 1 .. n + 1 : (IF i = n + 1 THEN Bytes(s) ELSE a(i)) \in Nat
    BY <1>4, <1>6
  <2> QED BY <1>8, <2>1, <2>2, <2>3
<1>13. \A i, j \in 1 .. n + 1 : i < j => a(i) < a(j)
  <2> SUFFICES ASSUME NEW i \in 1 .. n + 1
               PROVE  \A j \in 1 .. n + 1 : i < j => a(i) < a(j)
    OBVIOUS
  <2> DEFINE T == {k \in 0 .. n : i < k + 1 => a(i) < a(k + 1)}
  <2>1. 0 \in T
    BY <1>1
  <2>2. ASSUME NEW k \in T, k < n PROVE k + 1 \in T
    <3>1. /\ k + 1 \in 1 .. n /\ k + 1 \in 0 .. n /\ (i < k + 1 => a(i) < a(k + 1))
          /\ k + 1 + 1 \in 1 .. n + 1 /\ k + 1 \in 1 .. n + 1
      BY <1>1, <2>2
    <3>2. a(k + 1) < a(k + 1 + 1) /\ a(i) \in Nat /\ a(k + 1) \in Nat /\ a(k + 1 + 1) \in Nat
      BY <1>6, <1>11, <3>1
    <3>3. i < k + 1 + 1 => i < k + 1 \/ i = k + 1
      BY <1>1, <3>1
    <3>4. i < k + 1 + 1 => a(i) < a(k + 1 + 1)
      BY <3>1, <3>2, <3>3
    <3> QED BY <3>1, <3>4
  <2>3. T = 0 .. n
    <3>1. T \subseteq 0 .. n
      OBVIOUS
    <3> HIDE DEF T
    <3> QED BY <1>1, <2>1, <2>2, <3>1, UpTo
  <2>4. ASSUME NEW j \in 1 .. n + 1, i < j PROVE a(i) < a(j)
    <3>1. j - 1 \in 0 .. n /\ (j - 1) + 1 = j
      BY <1>1
    <3>2. i < (j - 1) + 1 => a(i) < a((j - 1) + 1)
      BY <2>3, <3>1
    <3> QED BY <2>4, <3>1, <3>2
  <2> QED BY <2>4
<1>14. \A pos_ \in 0 .. a(n + 1) - 1 : \E i \in 1 .. n : a(i) <= pos_ /\ pos_ < a(i + 1)
  <2> DEFINE Good(k) == \A p \in Nat : p < a(k + 1) => \E i \in 1 .. n : a(i) <= p /\ p < a(i + 1)
             T == {k \in 0 .. n : Good(k)}
  <2>1. Good(0)
    <3>1. 0 + 1 = 1
      OBVIOUS
    <3> QED BY <1>5, <3>1
  <2>2. ASSUME NEW k \in 0 .. n, Good(k), k < n PROVE Good(k + 1)
    <3>1. /\ k + 1 \in 1 .. n /\ k + 1 \in 1 .. n + 1 /\ k + 1 + 1 \in 1 .. n + 1
      BY <1>1, <2>2
    <3>2. a(k + 1) \in Nat /\ a(k + 1 + 1) \in Nat
      BY <1>6, <3>1
    <3> SUFFICES ASSUME NEW p \in Nat, p < a(k + 1 + 1)
                 PROVE  \E i \in 1 .. n : a(i) <= p /\ p < a(i + 1)
      OBVIOUS
    <3>3. CASE p < a(k + 1)
      BY <2>2, <3>3
    <3>4. CASE ~ (p < a(k + 1))
      <4>1. a(k + 1) <= p
        BY <3>2, <3>4
      <4> QED BY <3>1, <4>1
    <3> QED BY <3>3, <3>4
  <2>3. T = 0 .. n
    <3>1. 0 \in T
      BY <1>1, <2>1
    <3>2. ASSUME NEW k \in T, k < n PROVE k + 1 \in T
      <4>1. k \in 0 .. n /\ Good(k)
        BY <3>2
      <4>2. k + 1 \in 0 .. n
        BY <1>1, <3>2, <4>1
      <4> QED BY <2>2, <3>2, <4>1, <4>2
    <3>3. T \subseteq 0 .. n
      OBVIOUS
    <3> HIDE DEF T
    <3> QED BY <1>1, <3>1, <3>2, <3>3, UpTo
  <2>4. Good(n)
    <3>1. n \in 0 .. n
      BY <1>1
    <3> HIDE DEF Good
    <3> QED BY <2>3, <3>1
  <2>5. n + 1 \in 1 .. n + 1
    BY <1>1
  <2>6. a(n + 1) \in Nat
    BY <1>6, <2>5
  <2> QED BY <2>4, <2>6
<1>15. \A i, j \in 1 .. n : i < j => L.key[i] < L.key[j]
  <2>1. \A i, j \in 1 .. n : i < j => t[i].key < t[j].key
    BY TableFacts DEF n
  <2> QED BY <1>9, <2>1
<1>16. Size(L) = a(n + 1) /\ Records(L) = 1 .. n
  <2>1. n + 1 \in 1 .. n + 1
    BY <1>1
  <2> QED BY <1>8, <1>10, <2>1 DEF Size, Records
<1>17. L.start[1] = 0
  <2>1. 1 \in 1 .. n + 1
    BY <1>1
  <2> QED BY <1>5, <1>10, <2>1
<1>18. \A i \in 1 .. n : L.start[i] < L.id_end[i] /\ L.id_end[i] + 2 < L.start[i + 1]
  BY <1>10, <1>11
<1>19. \A i, j \in 1 .. n + 1 : i < j => L.start[i] < L.start[j]
  BY <1>10, <1>13
<1>20. \A p \in 0 .. Size(L) - 1 : \E i \in 1 .. n : L.start[i] <= p /\ p < L.start[i + 1]
  <2> SUFFICES ASSUME NEW p \in 0 .. a(n + 1) - 1
               PROVE  \E i \in 1 .. n : L.start[i] <= p /\ p < L.start[i + 1]
    BY <1>16
  <2>1. PICK i \in 1 .. n : a(i) <= p /\ p < a(i + 1)
    BY <1>14
  <2> QED BY <1>10, <1>11, <2>1
<1>21. WellFormed(L)
  BY <1>1, <1>8, <1>12, <1>15, <1>16, <1>17, <1>18, <1>19, <1>20 DEF WellFormed
<1> QED BY <1>8, <1>9, <1>21 DEF L, s, n
-----------------------------------------------------------------------------
(* The chunks of the table, and what the chunk files hold.                 *)

Begin(c) == IF c = thread_count THEN total ELSE StartOf(c)

LEMMA ChunkFacts ==
    ASSUME table \in Tables
    PROVE  /\ thread_count \in Nat \ {0} /\ total \in Nat /\ total = Len(table)
           /\ Chunks = 0 .. thread_count - 1 /\ 0 \in Chunks
           /\ \A c \in Chunks : /\ StartOf(c) \in Nat /\ EndOf(c) \in Nat
                                /\ StartOf(c) <= EndOf(c) /\ EndOf(c) <= total
                                /\ Begin(c) = StartOf(c) /\ Begin(c + 1) = EndOf(c)
                                /\ c \in Nat /\ c < thread_count /\ c # thread_count
                                /\ c + 1 \in 0 .. thread_count
           /\ StartOf(0) = 0 /\ Begin(0) = 0 /\ Begin(thread_count) = total
           /\ \A c \in 0 .. thread_count : Begin(c) \in 0 .. total
<1> DEFINE n == thread_count
           m == total
           q == chunk
<1>1. m \in Nat /\ m = Len(table) /\ n \in Nat \ {0}
  BY TableFacts, WriteAssumption DEF total, thread_count
<1>2. q \in Nat /\ q * n <= m
  <2>1. q = m \div n
    BY DEF chunk
  <2> HIDE DEF q, m, n
  <2> QED BY <1>1, <2>1
<1>3. Chunks = 0 .. n - 1 /\ 0 \in Chunks
  BY <1>1 DEF Chunks
<1>4. \A c \in Chunks : /\ StartOf(c) = q * c
                        /\ EndOf(c) = IF c = n - 1 THEN m ELSE q * (c + 1)
                        /\ Begin(c) = (IF c = n THEN m ELSE q * c)
                        /\ Begin(c + 1) = (IF c + 1 = n THEN m ELSE q * (c + 1))
  BY DEF StartOf, EndOf, Begin
<1>5. StartOf(0) = q * 0 /\ Begin(n) = m /\ Begin(0) = (IF 0 = n THEN m ELSE q * 0)
  BY DEF StartOf, Begin
<1> HIDE DEF n, m, q
<1>6. q * 0 = 0 /\ 0 # n
  BY <1>1, <1>2
<1>7. ASSUME NEW c \in Chunks
      PROVE  /\ StartOf(c) \in Nat /\ EndOf(c) \in Nat
             /\ StartOf(c) <= EndOf(c) /\ EndOf(c) <= m
             /\ Begin(c) = StartOf(c) /\ Begin(c + 1) = EndOf(c)
             /\ c \in Nat /\ c < n /\ c # n /\ c + 1 \in 0 .. n
  <2>1. c \in Nat /\ c < n /\ c # n /\ c + 1 \in 0 .. n /\ (c = n - 1 <=> c + 1 = n)
    BY <1>1, <1>3
  <2>2. q * c \in Nat /\ q * (c + 1) = q * c + q /\ q * (c + 1) <= q * n
    <3>1. PICK e \in Nat : n = c + 1 + e
      <4>1. n - (c + 1) \in Nat /\ n = c + 1 + (n - (c + 1))
        BY <1>1, <2>1
      <4> QED BY <4>1
    <3>2. q * n = q * (c + 1) + q * e /\ q * e \in Nat /\ q * (c + 1) \in Nat
      BY <1>2, <2>1, <3>1
    <3>3. q * c \in Nat /\ q * (c + 1) = q * c + q
      BY <1>2, <2>1
    <3> QED BY <3>2, <3>3
  <2>3. CASE c = n - 1
    <3>1. q * c <= q * n /\ q * n \in Nat
      BY <1>1, <1>2, <2>1, <2>2, <2>3
    <3> QED BY <1>1, <1>2, <1>4, <2>1, <2>2, <2>3, <3>1
  <2>4. CASE c # n - 1
    <3>1. PICK x, y, z : x = q * c /\ y = q * (c + 1) /\ z = q * n
      OBVIOUS
    <3>2. /\ x \in Nat /\ y = x + q /\ y <= z /\ z <= m
      BY <1>2, <2>2, <3>1
    <3>3. /\ StartOf(c) = x /\ EndOf(c) = y /\ Begin(c) = x /\ Begin(c + 1) = y
      BY <1>4, <2>1, <2>4, <3>1
    <3>4. y \in Nat /\ x <= y
      BY <1>2, <3>2
    <3>5. z \in Nat
      BY <1>1, <1>2, <3>1
    <3>6. y <= m
      BY <1>1, <3>2, <3>4, <3>5
    <3> QED BY <2>1, <3>2, <3>3, <3>4, <3>6
  <2> QED BY <2>3, <2>4
<1>8. \A c \in 0 .. n : Begin(c) \in 0 .. m
  <2> SUFFICES ASSUME NEW c \in 0 .. n PROVE Begin(c) \in 0 .. m
    OBVIOUS
  <2>1. CASE c = n
    BY <1>1, <1>5, <2>1
  <2>2. CASE c # n
    <3>1. c \in Chunks
      BY <1>1, <1>3, <2>2
    <3>2. PICK x, y : x = StartOf(c) /\ y = EndOf(c)
      OBVIOUS
    <3>3. Begin(c) = x /\ x \in Nat /\ y \in Nat /\ x <= y /\ y <= m
      BY <1>7, <3>1, <3>2
    <3> QED BY <1>1, <3>3
  <2> QED BY <2>1, <2>2
<1> QED BY <1>1, <1>3, <1>5, <1>6, <1>7, <1>8 DEF n, m

Files == Databases \X BOOLEAN

BytesTo(d, k) == Bytes(Extras(table, d)[k])

(* How many lines the first k records have in file f, what f is to hold,   *)
(* and what a line of chunk c looks like in it.                            *)
LenTo(f, k)         == IF f[2] THEN Len(Extras(table, f[1])[k]) ELSE 2 * k
Complete(f)         == IF f[2] THEN Extras(table, f[1])[total] ELSE FinalFile(table, f[1])
Adapted(f, c, line) ==
    IF ~ f[2] /\ c > 0 /\ line.kind = "@!"
    THEN RefLine("@", line.offset + BytesTo(f[1], StartOf(c)), line.length)
    ELSE line

ChunkHolds(f, c) ==
    /\ Len(Input(f)[c]) = LenTo(f, next[c]) - LenTo(f, StartOf(c))
    /\ \A i \in 1 .. Len(Input(f)[c]) :
           Adapted(f, c, Input(f)[c][i]) = Complete(f)[LenTo(f, StartOf(c)) + i]

LEMMA CompleteFacts ==
    ASSUME table \in Tables, NEW f \in Files
    PROVE  /\ Complete(f) \in Seq(Uncut) /\ Complete(f) \in Seq(Lines)
           /\ Len(Complete(f)) = LenTo(f, total) /\ LenTo(f, 0) = 0
           /\ \A k \in 0 .. total : LenTo(f, k) \in Nat /\ LenTo(f, k) <= LenTo(f, total)
<1>1. f[1] \in Databases /\ f[2] \in BOOLEAN
  BY DEF Files
<1>2. total = Len(table) /\ total \in Nat /\ total \in 0 .. total
  BY ChunkFacts
<1>3. CASE f[2]
  <2>1. /\ \A k \in 0 .. total : /\ Extras(table, f[1])[k] \in Seq(Uncut)
                                 /\ Len(Extras(table, f[1])[k]) \in Nat
                                 /\ Len(Extras(table, f[1])[k]) <= Len(Extras(table, f[1])[total])
        /\ Len(Extras(table, f[1])[0]) = 0
    BY <1>1, <1>2, ExtrasFacts, ExtrasStay
  <2>2. Complete(f) = Extras(table, f[1])[total]
    BY <1>3 DEF Complete
  <2>3. \A k \in 0 .. total : LenTo(f, k) = Len(Extras(table, f[1])[k])
    BY <1>3 DEF LenTo
  <2>4. Complete(f) \in Seq(Uncut)
    BY <1>2, <2>1, <2>2
  <2>5. 0 \in 0 .. total
    BY <1>2
  <2> QED BY <1>2, <2>1, <2>2, <2>3, <2>4, <2>5, UncutLines
<1>4. CASE ~ f[2]
  <2>1. \A k \in 0 .. total : LenTo(f, k) = 2 * k /\ 2 * k \in Nat /\ 2 * k <= 2 * total
    BY <1>2, <1>4 DEF LenTo
  <2>2. Complete(f) = FinalFile(table, f[1])
    BY <1>4 DEF Complete
  <2>3. /\ FinalFile(table, f[1]) \in Seq(Uncut) /\ FinalFile(table, f[1]) \in Seq(Lines)
        /\ Len(FinalFile(table, f[1])) = 2 * total
    BY <1>1, <1>2, FinalLines
  <2>4. 0 \in 0 .. total /\ 2 * 0 = 0
    BY <1>2
  <2> QED BY <1>2, <2>1, <2>2, <2>3, <2>4
<1> QED BY <1>1, <1>3, <1>4
-----------------------------------------------------------------------------
(* The inductive invariant of the writer.                                  *)

WriteTyped ==
    /\ table \in Tables
    /\ phase \in {"write", "merge", "done", "panicked"}
    /\ full \in BOOLEAN
    /\ next \in [Chunks -> Nat]
    /\ \A c \in Chunks : StartOf(c) <= next[c] /\ next[c] <= EndOf(c)
    /\ part \in [Databases -> [Chunks -> Seq(Uncut)]]
    /\ part_extra \in [Databases -> [Chunks -> Seq(Uncut)]]
    /\ ext_offset \in [Databases -> [Chunks -> Nat]]
    /\ merged \in [Databases -> Seq(Lines)]
    /\ extra \in [Databases -> Seq(Lines)]
    /\ at \in [Files -> (0 .. thread_count) \X (Nat \ {0})]

(* Nothing is merged before all is written.                                *)
Written ==
    /\ phase = "write" =>
          /\ \A f \in Files : Output(f) = <<>> /\ at[f] = <<0, 1>>
          /\ full = FALSE
    /\ phase = "merge" => \A c \in Chunks : next[c] = EndOf(c)

(* The writers count what they write, and all of it.                       *)
Counted ==
    phase \in {"write", "merge"} =>
        \A d \in Databases, c \in Chunks :
            ext_offset[d][c] + BytesTo(d, StartOf(c)) = BytesTo(d, next[c])

(* The chunk files that are still there hold their share.                  *)
Held ==
    phase \in {"write", "merge"} =>
        \A f \in Files, c \in Chunks : at[f][1] <= c => ChunkHolds(f, c)

NoCut(f)     == \A i \in 1 .. Len(Output(f)) : Output(f)[i].kind # "cut"
LinesDone(f) == LenTo(f, Begin(at[f][1])) + at[f][2] - 1

(* What is copied is what is to be there.                                  *)
Copied ==
    phase \in {"write", "merge"} =>
        \A f \in Files :
            /\ at[f][1] \in Chunks => at[f][2] <= Len(Input(f)[at[f][1]]) + 1
            /\ at[f][1] \notin Chunks => at[f][2] = 1
            /\ NoCut(f) => /\ Len(Output(f)) = LinesDone(f)
                           /\ \A i \in 1 .. Len(Output(f)) : Output(f)[i] = Complete(f)[i]

Ended == phase = "done" => \A f \in Files : NoCut(f) => Output(f) = Complete(f)

(* Before a disk that is not full can leave another hole, there is one     *)
(* fewer than there may be.                                                *)
Room ==
    /\ IsFiniteSet(Holes) /\ IsFiniteSet(Removed)
    /\ Cardinality(Holes) <= 1 + Cardinality(Removed)
    /\ ~ full => Cardinality(Holes) <= Cardinality(Removed)

WInv == WriteTyped /\ Written /\ OffsetsCounted /\ Counted /\ Held /\ Copied /\ Ended /\ Room

-----------------------------------------------------------------------------

LEMMA Steady ==
    ASSUME table' = table
    PROVE  /\ total' = total /\ thread_count' = thread_count /\ Chunks' = Chunks
           /\ \A c : StartOf(c)' = StartOf(c) /\ EndOf(c)' = EndOf(c) /\ Begin(c)' = Begin(c)
           /\ \A d, k : BytesTo(d, k)' = BytesTo(d, k)
           /\ \A f, k : LenTo(f, k)' = LenTo(f, k)
           /\ \A f : Complete(f)' = Complete(f)
           /\ \A f, c, line : Adapted(f, c, line)' = Adapted(f, c, line)
<1>1. /\ total' = total /\ thread_count' = thread_count /\ Chunks' = Chunks /\ chunk' = chunk
  BY DEF total, thread_count, Chunks, chunk
<1>2. \A c : StartOf(c)' = StartOf(c) /\ EndOf(c)' = EndOf(c) /\ Begin(c)' = Begin(c)
  BY <1>1 DEF StartOf, EndOf, Begin
<1>3. \A d, k : BytesTo(d, k)' = BytesTo(d, k)
  BY DEF BytesTo
<1>4. \A f, k : LenTo(f, k)' = LenTo(f, k)
  BY DEF LenTo
<1>5. \A f : Complete(f)' = Complete(f)
  BY <1>1 DEF Complete
<1>6. \A f, c, line : Adapted(f, c, line)' = Adapted(f, c, line)
  BY <1>2, <1>3 DEF Adapted
<1> QED BY <1>1, <1>2, <1>3, <1>4, <1>5, <1>6

LEMMA BytesToType ==
    ASSUME table \in Tables, NEW d \in Databases
    PROVE  BytesTo(d, 0) = 0 /\ \A k \in 0 .. total : BytesTo(d, k) \in Nat
BY ExtrasFacts, ChunkFacts DEF BytesTo

(* What a merging thread adds to the offsets of a chunk is what the chunks *)
(* before it have in the -extra file.                                      *)
LEMMA OffsetsAreBytes ==
    ASSUME table \in Tables, NEW d \in Databases, NEW c \in Chunks,
           \A i \in Chunks : ext_offset[d][i] + BytesTo(d, StartOf(i)) = BytesTo(d, EndOf(i)),
           \A i \in Chunks : ext_offset[d][i] \in Nat
    PROVE  ExtOffsets(d, c) = BytesTo(d, StartOf(c))
<1> DEFINE F(x) == [i \in 0 .. c |-> IF i = 0 THEN 0 ELSE x[i - 1] + ext_offset[d][i - 1]]
           h == CHOOSE x : x = F(x)
           g == [i \in 0 .. c |-> BytesTo(d, Begin(i))]
<1>1. /\ c \in Nat /\ c < thread_count /\ thread_count \in Nat /\ Chunks = 0 .. thread_count - 1
      /\ Begin(0) = 0 /\ Begin(c) = StartOf(c)
      /\ \A i \in Chunks : Begin(i) = StartOf(i) /\ Begin(i + 1) = EndOf(i)
      /\ BytesTo(d, 0) = 0
  BY ChunkFacts, BytesToType
<1>2. \A i \in 1 .. c : BytesTo(d, Begin(i)) = BytesTo(d, Begin(i - 1)) + ext_offset[d][i - 1]
  <2> SUFFICES ASSUME NEW i \in 1 .. c
               PROVE  BytesTo(d, Begin(i)) = BytesTo(d, Begin(i - 1)) + ext_offset[d][i - 1]
    OBVIOUS
  <2>1. i - 1 \in Chunks /\ (i - 1) + 1 = i
    BY <1>1
  <2>2. Begin(i - 1) = StartOf(i - 1) /\ Begin((i - 1) + 1) = EndOf(i - 1)
    BY <1>1, <2>1
  <2>3. ext_offset[d][i - 1] + BytesTo(d, StartOf(i - 1)) = BytesTo(d, EndOf(i - 1))
    BY <2>1
  <2>4. StartOf(i - 1) \in 0 .. total
    BY SMTT(30), <2>1, ChunkFacts
  <2>5. PICK a, b : a = ext_offset[d][i - 1] /\ b = BytesTo(d, StartOf(i - 1))
    OBVIOUS
  <2>6. a \in Nat /\ b \in Nat
    BY <2>1, <2>4, <2>5, BytesToType
  <2>7. a + b = b + a
    BY <2>6
  <2> QED BY <2>1, <2>2, <2>3, <2>5, <2>7
<1>3. h[c] = BytesTo(d, StartOf(c)) /\ ExtOffsets(d, c) = h[c]
  <2>1. ExtOffsets(d, c) = h[c]
    BY DEF ExtOffsets
  <2>2. \A i \in 0 .. c : g[i] = BytesTo(d, Begin(i))
    OBVIOUS
  <2> HIDE DEF h
  <2>3. g = F(g)
    <3>1. ASSUME NEW i \in 0 .. c PROVE g[i] = IF i = 0 THEN 0 ELSE g[i - 1] + ext_offset[d][i - 1]
      <4>1. CASE i = 0
        BY <1>1, <2>2, <4>1
      <4>2. CASE i # 0
        <5>1. i \in 1 .. c /\ i - 1 \in 0 .. c
          BY <1>1, <4>2
        <5> QED BY <1>2, <2>2, <4>2, <5>1
      <4> QED BY <4>1, <4>2
    <3> QED BY <3>1
  <2>4. h = F(h)
    <3> HIDE DEF F
    <3> QED BY <2>3 DEF h
  <2>5. \A i \in 0 .. c : h[i] = IF i = 0 THEN 0 ELSE h[i - 1] + ext_offset[d][i - 1]
    BY <2>4
  <2> HIDE DEF F, g
  <2> DEFINE T == {i \in 0 .. c : h[i] = g[i]}
  <2>6. 0 \in T
    BY <1>1, <2>2, <2>5
  <2>7. ASSUME NEW k \in T, k < c PROVE k + 1 \in T
    <3>1. k \in 0 .. c /\ h[k] = g[k]
      BY <2>7
    <3>2. k + 1 \in 0 .. c /\ k + 1 \in 1 .. c /\ k + 1 # 0 /\ (k + 1) - 1 = k
      BY <1>1, <2>7, <3>1
    <3>3. h[k + 1] = h[k] + ext_offset[d][k]
      BY <2>5, <3>2
    <3>4. g[k + 1] = g[k] + ext_offset[d][k]
      BY <1>2, <2>2, <3>1, <3>2
    <3> QED BY <3>1, <3>2, <3>3, <3>4
  <2>8. T = 0 .. c
    <3>1. T \subseteq 0 .. c
      OBVIOUS
    <3> HIDE DEF T
    <3> QED BY <1>1, <2>6, <2>7, <3>1, UpTo
  <2>9. c \in 0 .. c
    BY <1>1
  <2>10. h[c] = g[c]
    BY <2>8, <2>9
  <2> QED BY <1>1, <2>1, <2>2, <2>9, <2>10
<1> QED BY <1>3

LEMMA FileTypes ==
    ASSUME WriteTyped, NEW f \in Files
    PROVE  /\ f = <<f[1], f[2]>> /\ f[1] \in Databases /\ f[2] \in BOOLEAN
           /\ Input(f) \in [Chunks -> Seq(Uncut)]
           /\ \A c \in Chunks : /\ Input(f)[c] \in Seq(Uncut) /\ Input(f)[c] \in Seq(Lines)
                                /\ Len(Input(f)[c]) \in Nat
                                /\ \A i \in 1 .. Len(Input(f)[c]) : Input(f)[c][i] \in Uncut
           /\ Output(f) \in Seq(Lines) /\ Len(Output(f)) \in Nat
           /\ DOMAIN Output(f) = 1 .. Len(Output(f))
           /\ at[f] = <<at[f][1], at[f][2]>>
           /\ at[f][1] \in 0 .. thread_count /\ at[f][2] \in Nat /\ at[f][2] >= 1
           /\ thread_count \in Nat
           /\ at[f][1] \in Chunks <=> at[f][1] # thread_count
<1>1. f = <<f[1], f[2]>> /\ f[1] \in Databases /\ f[2] \in BOOLEAN
  BY DEF Files
<1>2. Input(f) \in [Chunks -> Seq(Uncut)]
  BY <1>1 DEF Input, WriteTyped
<1>3. Output(f) \in Seq(Lines)
  BY <1>1 DEF Output, WriteTyped
<1>4. at[f] \in (0 .. thread_count) \X (Nat \ {0})
  BY DEF WriteTyped
<1>5. at[f] = <<at[f][1], at[f][2]>> /\ at[f][1] \in 0 .. thread_count /\ at[f][2] \in Nat \ {0}
  BY <1>4
<1>6. thread_count \in Nat /\ (at[f][1] \in Chunks <=> at[f][1] # thread_count)
  <2>1. PICK x, n : x = at[f][1] /\ n = thread_count
    OBVIOUS
  <2>2. n \in Nat /\ Chunks = 0 .. n - 1
    BY <2>1, ChunkFacts DEF WriteTyped
  <2>3. x \in 0 .. n
    BY <1>5, <2>1
  <2>4. x \in Chunks <=> x # n
    BY <2>2, <2>3
  <2> QED BY <2>1, <2>2, <2>4
<1>7. ASSUME NEW c \in Chunks
      PROVE  /\ Input(f)[c] \in Seq(Uncut) /\ Input(f)[c] \in Seq(Lines)
             /\ Len(Input(f)[c]) \in Nat
             /\ \A i \in 1 .. Len(Input(f)[c]) : Input(f)[c][i] \in Uncut
  <2>1. Input(f)[c] \in Seq(Uncut) /\ Input(f)[c] \in Seq(Lines)
    BY <1>2, UncutLines
  <2> QED BY <2>1, LenProperties
<1>8. Len(Output(f)) \in Nat /\ DOMAIN Output(f) = 1 .. Len(Output(f))
  BY <1>3, LineTypes
<1> QED BY <1>1, <1>2, <1>3, <1>5, <1>6, <1>7, <1>8

(* All the chunks have been written, and no offsets have been lost.        *)
LEMMA Adjusts ==
    ASSUME WriteTyped, Written, Counted, phase = "merge", NEW f \in Files, NEW c \in Chunks,
           NEW line \in Uncut
    PROVE  /\ ~ f[2] => Adjusted(line, f[1], c) = Adapted(f, c, line)
           /\ Adapted(f, c, line) \in Uncut
<1>1. table \in Tables /\ f[1] \in Databases
  BY FileTypes DEF WriteTyped
<1>2. \A i \in Chunks : ext_offset[f[1]][i] \in Nat
  BY <1>1 DEF WriteTyped
<1>3. \A i \in Chunks : ext_offset[f[1]][i] + BytesTo(f[1], StartOf(i)) = BytesTo(f[1], EndOf(i))
  BY <1>1 DEF Written, Counted
<1>4. ExtOffsets(f[1], c) = BytesTo(f[1], StartOf(c))
  BY <1>1, <1>2, <1>3, OffsetsAreBytes
<1>5. ~ f[2] => Adjusted(line, f[1], c) = Adapted(f, c, line)
  BY <1>4 DEF Adjusted, Adapted
<1>6. ASSUME line.kind = "@!"
      PROVE  RefLine("@", line.offset + BytesTo(f[1], StartOf(c)), line.length) \in Uncut
  <2>1. line.offset \in Nat /\ line.length \in Nat
    BY <1>6 DEF Uncut
  <2>2. StartOf(c) \in 0 .. total
    BY <1>1, ChunkFacts
  <2>3. PICK a, b : a = line.offset /\ b = BytesTo(f[1], StartOf(c))
    OBVIOUS
  <2>4. a + b \in Nat
    <3>1. a \in Nat /\ b \in Nat
      BY <1>1, <2>1, <2>2, <2>3, BytesToType
    <3> QED BY <3>1
  <2>5. RefLength \in Nat \ {0}
    BY WriteAssumption
  <2> QED BY <2>1, <2>3, <2>4, <2>5 DEF RefLine, Uncut
<1>7. Adapted(f, c, line) \in Uncut
  BY <1>6 DEF Adapted
<1> QED BY <1>5, <1>7
-----------------------------------------------------------------------------

LEMMA BatchFacts ==
    ASSUME WriteTyped, Written, Counted, phase = "merge", NEW f \in Files, LineLeft(f)
    PROVE  /\ at[f][1] \in Chunks
           /\ Batch(f) \in Seq(Uncut) /\ Len(Batch(f)) \in Nat /\ Len(Batch(f)) > 0
           /\ at[f][2] + Len(Batch(f)) <= Len(Input(f)[at[f][1]]) + 1
           /\ \A j \in 1 .. Len(Batch(f)) :
                Batch(f)[j] = Adapted(f, at[f][1], Input(f)[at[f][1]][at[f][2] - 1 + j])
<1> DEFINE c == at[f][1]
           p == at[f][2]
           s == Input(f)[c]
           n == Len(s)
           rest == SubSeq(s, p, n)
           size == Min({Len(rest), Buffer})
<1>1. c \in Chunks /\ p <= n
  BY FileTypes DEF LineLeft, Merged
<1>2. /\ s \in Seq(Uncut) /\ n \in Nat /\ \A i \in 1 .. n : s[i] \in Uncut
      /\ p \in Nat /\ p >= 1
  BY <1>1, FileTypes
<1>3. Batch(f) = IF f[2] THEN SubSeq(rest, 1, size) ELSE <<Adjusted(rest[1], f[1], c)>>
  BY DEF Batch
<1>4. \A line \in Uncut : /\ ~ f[2] => Adjusted(line, f[1], c) = Adapted(f, c, line)
                          /\ Adapted(f, c, line) \in Uncut
  BY <1>1, Adjusts
<1> HIDE DEF c, p, s, n
<1>5. /\ rest \in Seq(Uncut) /\ Len(rest) = n - p + 1
      /\ \A i \in 1 .. n - p + 1 : rest[i] = s[p + i - 1]
  <2>1. \A i \in p .. n : s[i] \in Uncut
    BY <1>2
  <2>2. p \in Int /\ n \in Int
    BY <1>2
  <2>3. /\ SubSeq(s, p, n) \in Seq(Uncut)
        /\ Len(SubSeq(s, p, n)) = IF p <= n THEN n - p + 1 ELSE 0
        /\ \A i \in 1 .. n - p + 1 : SubSeq(s, p, n)[i] = s[p + i - 1]
    BY <2>1, <2>2, SubSeqProperties
  <2> QED BY <1>1, <2>3
<1>6. Len(rest) \in Nat /\ Len(rest) > 0
  BY <1>1, <1>2, <1>5
<1> HIDE DEF rest
<1>7. CASE f[2]
  <2>1. size \in 1 .. Len(rest)
    <3>1. Buffer \in Nat \ {0}
      BY WriteAssumption
    <3>2. \A y \in {Len(rest), Buffer} : y \in Nat /\ y > 0
      BY <1>6, <3>1
    <3>3. \E x \in {Len(rest), Buffer} : \A y \in {Len(rest), Buffer} : x <= y
      BY <1>6, <3>1
    <3>4. size \in {Len(rest), Buffer} /\ \A y \in {Len(rest), Buffer} : size <= y
      BY <3>3 DEF Min
    <3>5. size <= Len(rest) /\ size \in Nat /\ size > 0
      BY <3>2, <3>4
    <3> QED BY <1>6, <3>5
  <2> HIDE DEF size
  <2>2. \A i \in 1 .. size : rest[i] \in Uncut
    <3>1. \A i \in 1 .. size : i \in 1 .. Len(rest)
      BY <1>6, <2>1
    <3> QED BY <1>5, <3>1, LenProperties
  <2>3. /\ SubSeq(rest, 1, size) \in Seq(Uncut)
        /\ Len(SubSeq(rest, 1, size)) = IF 1 <= size THEN size - 1 + 1 ELSE 0
        /\ \A i \in 1 .. size - 1 + 1 : SubSeq(rest, 1, size)[i] = rest[1 + i - 1]
    <3>1. 1 \in Int /\ size \in Int
      BY <1>6, <2>1
    <3> QED BY <2>2, <3>1, SubSeqProperties
  <2>4. size \in Nat /\ size > 0 /\ size - 1 + 1 = size /\ 1 <= size
    BY <1>6, <2>1
  <2>5. Batch(f) = SubSeq(rest, 1, size)
    BY <1>3, <1>7
  <2>6. Len(Batch(f)) = size
    BY <2>3, <2>4, <2>5
  <2>7. p + size <= n + 1
    BY <1>1, <1>2, <1>5, <2>1
  <2>8. ASSUME NEW j \in 1 .. size PROVE Batch(f)[j] = Adapted(f, c, s[p - 1 + j])
    <3>1. j \in 1 .. n - p + 1 /\ 1 + j - 1 = j /\ p + j - 1 = p - 1 + j
      BY <1>1, <1>2, <1>5, <2>1
    <3>2. Batch(f)[j] = s[p - 1 + j]
      BY <1>5, <2>3, <2>4, <2>5, <3>1
    <3>3. Adapted(f, c, s[p - 1 + j]) = s[p - 1 + j]
      BY <1>7 DEF Adapted
    <3> QED BY <3>2, <3>3
  <2> QED BY <1>1, <2>3, <2>4, <2>5, <2>6, <2>7, <2>8 DEF c, p, s, n
<1>8. CASE ~ f[2]
  <2>1. 1 \in 1 .. n - p + 1 /\ p + 1 - 1 = p /\ p \in 1 .. n /\ p - 1 + 1 = p /\ p + 1 <= n + 1
    BY <1>1, <1>2
  <2>2. rest[1] = s[p] /\ s[p] \in Uncut
    BY <1>2, <1>5, <2>1
  <2>3. PICK a : a = Adapted(f, c, s[p])
    OBVIOUS
  <2>4. Batch(f) = <<a>> /\ a \in Uncut
    BY <1>3, <1>4, <1>8, <2>2, <2>3
  <2>5. Batch(f) \in Seq(Uncut) /\ Len(Batch(f)) = 1 /\ Batch(f)[1] = a
    BY <2>4
  <2>6. \A j \in 1 .. 1 : j = 1
    OBVIOUS
  <2>7. \A j \in 1 .. 1 : Batch(f)[j] = Adapted(f, c, s[p - 1 + j])
    BY <2>1, <2>3, <2>5, <2>6
  <2>8. p + 1 <= n + 1 /\ 1 \in Nat /\ 1 > 0
    BY <2>1
  <2> QED BY <1>1, <2>5, <2>7, <2>8 DEF c, p, s, n
<1> QED BY <1>7, <1>8

(* What a write leaves.                                                    *)
LEMMA PutFacts ==
    ASSUME WriteTyped, NEW f \in Files, NEW lines \in Seq(Lines), Put(f, lines),
           Len(Batch(f)) \in Nat
    PROVE  /\ merged' \in [Databases -> Seq(Lines)] /\ extra' \in [Databases -> Seq(Lines)]
           /\ Output(f)' = Output(f) \o lines
           /\ \A g \in Files : g # f => Output(g)' = Output(g) /\ at'[g] = at[g]
           /\ at'[f][1] = at[f][1] /\ at'[f][2] = at[f][2] + Len(Batch(f))
           /\ \A g \in Files : at'[g][1] = at[g][1]
           /\ at' \in [Files -> (0 .. thread_count) \X (Nat \ {0})]
<1>1. /\ merged' = IF f[2] THEN merged ELSE [merged EXCEPT ![f[1]] = @ \o lines]
      /\ extra'  = IF f[2] THEN [extra EXCEPT ![f[1]] = @ \o lines] ELSE extra
      /\ at' = [at EXCEPT ![f][2] = @ + Len(Batch(f))]
  BY DEF Put
<1>2. merged \in [Databases -> Seq(Lines)] /\ extra \in [Databases -> Seq(Lines)]
  BY DEF WriteTyped
<1>3. /\ f = <<f[1], f[2]>> /\ f[1] \in Databases /\ f[2] \in BOOLEAN
      /\ at[f] = <<at[f][1], at[f][2]>>
      /\ at[f][1] \in 0 .. thread_count /\ at[f][2] \in Nat /\ at[f][2] >= 1
  BY FileTypes
<1>4. \A s \in Seq(Lines) : s \o lines \in Seq(Lines)
  BY Concatenated
<1>5. merged' \in [Databases -> Seq(Lines)] /\ extra' \in [Databases -> Seq(Lines)]
  BY <1>1, <1>2, <1>3, <1>4
<1>6. Output(f)' = Output(f) \o lines
  BY <1>1, <1>2, <1>3 DEF Output
<1>7. ASSUME NEW g \in Files, g # f PROVE Output(g)' = Output(g)
  <2>1. g = <<g[1], g[2]>> /\ g[1] \in Databases /\ g[2] \in BOOLEAN
    BY FileTypes
  <2>2. g[2] = f[2] => g[1] # f[1]
    BY <1>3, <1>7, <2>1
  <2> QED BY <1>1, <1>2, <1>3, <2>1, <2>2 DEF Output
<1>8. at \in [Files -> (0 .. thread_count) \X (Nat \ {0})]
  BY DEF WriteTyped
<1>9. PICK x, y, m : x = at[f][1] /\ y = at[f][2] /\ m = Len(Batch(f))
  OBVIOUS
<1>10. at' = [at EXCEPT ![f] = <<x, y + m>>]
  <2>1. at' = [at EXCEPT ![f] = [at[f] EXCEPT ![2] = at[f][2] + Len(Batch(f))]]
    BY <1>1
  <2>2. at[f] = <<x, y>>
    BY <1>3, <1>9
  <2>3. [<<x, y>> EXCEPT ![2] = y + m] = <<x, y + m>>
    OBVIOUS
  <2> QED BY <1>9, <2>1, <2>2, <2>3
<1>11. <<x, y + m>> \in (0 .. thread_count) \X (Nat \ {0})
  <2>1. y \in Nat /\ y >= 1 /\ m \in Nat
    BY <1>3, <1>9
  <2>2. y + m \in Nat \ {0}
    BY <2>1
  <2>3. x \in 0 .. thread_count
    BY <1>3, <1>9
  <2> QED BY <2>2, <2>3
<1>12. at' \in [Files -> (0 .. thread_count) \X (Nat \ {0})]
  BY <1>8, <1>10, <1>11
<1>13. at'[f] = <<x, y + m>> /\ \A g \in Files : g # f => at'[g] = at[g]
  BY <1>8, <1>10
<1>14. at'[f][1] = x /\ at'[f][2] = y + m
  BY <1>13
<1> QED BY <1>5, <1>6, <1>7, <1>9, <1>12, <1>13, <1>14
-----------------------------------------------------------------------------
(* A record is written.                                                    *)

Added(r, f, c) == IF f[2] THEN Piece(r, f[1]) ELSE <<IdLine(r), Payload(r, f[1], c)>>

LEMMA PayloadAdapts ==
    ASSUME WriteTyped, Counted, phase = "write", NEW c \in Chunks, NEW d \in Databases,
           next[c] < EndOf(c)
    PROVE  /\ next[c] + 1 \in 1 .. total /\ next[c] \in 0 .. total
           /\ Payload(table[next[c] + 1], d, c) \in Uncut
           /\ Adapted(<<d, FALSE>>, c, Payload(table[next[c] + 1], d, c))
                = PayloadOf(table, d, next[c] + 1)
<1> DEFINE k == next[c] + 1
           r == table[k]
<1>1. /\ table \in Tables /\ next[c] \in Nat /\ ext_offset[d][c] \in Nat
      /\ total \in Nat /\ EndOf(c) \in Nat /\ EndOf(c) <= total /\ total = Len(table)
      /\ c \in Nat /\ StartOf(0) = 0 /\ StartOf(c) \in 0 .. total
  <2>1. table \in Tables /\ next[c] \in Nat /\ ext_offset[d][c] \in Nat
    BY DEF WriteTyped
  <2>2. /\ total \in Nat /\ EndOf(c) \in Nat /\ EndOf(c) <= total /\ total = Len(table)
        /\ c \in Nat /\ StartOf(0) = 0 /\ StartOf(c) = Begin(c) /\ c \in 0 .. thread_count
    BY <2>1, ChunkFacts
  <2>3. Begin(c) \in 0 .. total
    BY <2>1, <2>2, ChunkFacts
  <2> QED BY <2>1, <2>2, <2>3
<1>2. k \in 1 .. total /\ next[c] \in 0 .. total /\ k - 1 = next[c]
  <2>1. PICK x, y, z : x = next[c] /\ y = EndOf(c) /\ z = total
    OBVIOUS
  <2>2. x \in Nat /\ y \in Nat /\ z \in Nat /\ x < y /\ y <= z
    BY <1>1, <2>1
  <2>3. x + 1 \in 1 .. z /\ x \in 0 .. z /\ x + 1 - 1 = x
    BY <2>2
  <2> QED BY <2>1, <2>3
<1>3. ext_offset[d][c] + BytesTo(d, StartOf(c)) = Bytes(Extras(table, d)[k - 1])
  BY <1>2 DEF Counted, BytesTo
<1>4. /\ r.id_len \in Nat /\ r.len[d] \in Nat /\ r.len[d] > 2
      /\ JsonLine(r, d) \in Uncut /\ JsonLine(r, d).kind = "json"
  <2>1. k \in 1 .. Len(table)
    BY <1>1, <1>2
  <2> HIDE DEF k
  <2>2. r.id_len \in Nat /\ r.len[d] \in Nat /\ r.len[d] > 2
    BY <1>1, <2>1, TableFacts
  <2>3. JsonLine(r, d) \in Uncut /\ JsonLine(r, d).kind = "json"
    BY <1>1, <2>1, LineKinds
  <2> QED BY <2>2, <2>3
<1>5. BytesTo(d, StartOf(c)) \in Nat /\ (c = 0 => BytesTo(d, StartOf(c)) = 0)
  BY <1>1, BytesToType
<1> HIDE DEF k
<1>6. CASE ~ External(r, d)
  <2>1. Payload(r, d, c) = JsonLine(r, d) /\ PayloadOf(table, d, k) = JsonLine(r, d)
    BY <1>6 DEF Payload, PayloadOf
  <2>2. Adapted(<<d, FALSE>>, c, JsonLine(r, d)) = JsonLine(r, d)
    BY <1>4 DEF Adapted
  <2> QED BY <1>2, <1>4, <2>1, <2>2 DEF k
<1>7. CASE External(r, d)
  <2>1. PICK e, a, l, b : /\ e = ext_offset[d][c] /\ a = r.id_len /\ l = r.len[d]
                          /\ b = BytesTo(d, StartOf(c))
    OBVIOUS
  <2>2. e \in Nat /\ a \in Nat /\ l \in Nat /\ l > 2 /\ b \in Nat /\ (c = 0 => b = 0)
    BY <1>1, <1>4, <1>5, <2>1
  <2>3. /\ e + a + 1 \in Nat /\ l - 1 \in Nat
        /\ (e + a + 1) + b = (e + b) + a + 1 /\ (b = 0 => e + a + 1 = (e + b) + a + 1)
    BY <2>2
  <2>4. PICK o, m : o = e + a + 1 /\ m = l - 1
    OBVIOUS
  <2>5. /\ Payload(r, d, c) = RefLine(IF c = 0 THEN "@" ELSE "@!", o, m)
        /\ PayloadOf(table, d, k) = RefLine("@", (e + b) + a + 1, m)
    BY <1>3, <1>7, <2>1, <2>4 DEF Payload, PayloadOf
  <2>6. /\ o \in Nat /\ m \in Nat /\ o + b = (e + b) + a + 1 /\ (b = 0 => o = (e + b) + a + 1)
    BY <2>3, <2>4
  <2>7. /\ RefLine("@", o, m) \in Uncut /\ RefLine("@!", o, m) \in Uncut
        /\ RefLine("@", o, m).kind = "@" /\ RefLine("@!", o, m).kind = "@!"
        /\ RefLine("@!", o, m).offset = o /\ RefLine("@!", o, m).length = m
    BY SMTT(30), <1>1, <1>2, <2>6, LineKinds
  <2>8. CASE c = 0
    <3>1. Payload(r, d, c) = RefLine("@", o, m) /\ PayloadOf(table, d, k) = RefLine("@", o, m)
      BY <2>2, <2>5, <2>6, <2>8
    <3>2. Adapted(<<d, FALSE>>, c, RefLine("@", o, m)) = RefLine("@", o, m)
      BY <2>7 DEF Adapted
    <3> QED BY <1>2, <2>7, <3>1, <3>2 DEF k
  <2>9. CASE c # 0
    <3>1. c > 0
      BY <1>1, <2>9
    <3>2. Payload(r, d, c) = RefLine("@!", o, m)
      BY <2>5, <2>9
    <3>3. PICK q : q = RefLine("@!", o, m)
      OBVIOUS
    <3>4. q.kind = "@!" /\ q.offset = o /\ q.length = m
      BY <2>7, <3>3
    <3>5. Adapted(<<d, FALSE>>, c, q) = RefLine("@", o + b, m)
      BY <2>1, <3>1, <3>4 DEF Adapted
    <3> QED BY <1>2, <2>5, <2>6, <2>7, <3>2, <3>3, <3>5 DEF k
  <2> QED BY <2>8, <2>9
<1> QED BY <1>6, <1>7

LEMMA AddedFacts ==
    ASSUME WriteTyped, Counted, phase = "write", NEW c \in Chunks, NEW f \in Files,
           next[c] < EndOf(c)
    PROVE  LET k == next[c] + 1
               p == Added(table[k], f, c)
           IN  /\ p \in Seq(Uncut) /\ Len(p) \in Nat
               /\ LenTo(f, k) = LenTo(f, k - 1) + Len(p)
               /\ \A i \in 1 .. Len(p) : Adapted(f, c, p[i]) = Complete(f)[LenTo(f, k - 1) + i]
<1> DEFINE k == next[c] + 1
           d == f[1]
           p == Added(table[k], f, c)
<1>1. f = <<d, f[2]>> /\ d \in Databases /\ f[2] \in BOOLEAN /\ table \in Tables
  BY FileTypes DEF WriteTyped
<1>2. /\ k \in 1 .. total /\ total = Len(table) /\ total \in Nat /\ k - 1 \in 0 .. total
      /\ k \in Nat /\ k \in 0 .. total
  <2>1. k \in 1 .. total /\ next[c] \in 0 .. total
    BY <1>1, PayloadAdapts
  <2>2. total = Len(table) /\ total \in Nat
    BY <1>1, ChunkFacts
  <2> HIDE DEF k
  <2> QED BY <2>1, <2>2
<1> HIDE DEF k
<1>3. CASE f[2]
  <2>1. p = Piece(table[k], d)
    BY <1>3 DEF Added
  <2>2. p \in Seq(Uncut) /\ p \in Seq(Lines) /\ Len(p) \in Nat
    BY <1>1, <1>2, <2>1, PieceType, UncutLines, LenProperties
  <2> HIDE DEF p
  <2>3. PICK x, y : x = Extras(table, d)[k - 1] /\ y = Extras(table, d)[k]
    OBVIOUS
  <2>4. y = x \o p /\ x \in Seq(Lines) /\ y \in Seq(Lines)
    BY <1>1, <1>2, <2>1, <2>3, ExtrasFacts
  <2>5. /\ Len(y) = Len(x) + Len(p) /\ Len(x) \in Nat
        /\ \A i \in 1 .. Len(p) : y[Len(x) + i] = p[i] /\ Len(x) + i \in 1 .. Len(x) + Len(p)
    BY <2>2, <2>4, Concatenated
  <2>6. LenTo(f, k) = Len(y) /\ LenTo(f, k - 1) = Len(x)
    BY <1>3, <2>3 DEF LenTo
  <2>7. Complete(f) = Extras(table, d)[total]
    BY <1>3 DEF Complete
  <2>8. \A i \in 1 .. Len(y) : Complete(f)[i] = y[i]
    BY <1>1, <1>2, <2>3, <2>7, ExtrasStay
  <2>9. \A i \in 1 .. Len(p) : Complete(f)[Len(x) + i] = p[i]
    BY <2>5, <2>8
  <2>10. \A i \in 1 .. Len(p) : Adapted(f, c, p[i]) = p[i]
    BY <1>3 DEF Adapted
  <2> QED BY <2>2, <2>5, <2>6, <2>9, <2>10 DEF k, p
<1>4. CASE ~ f[2]
  <2>1. PICK a, b : a = IdLine(table[k]) /\ b = Payload(table[k], d, c)
    OBVIOUS
  <2>2. f = <<d, FALSE>>
    BY <1>1, <1>4
  <2>3. /\ a \in Uncut /\ b \in Uncut /\ a.kind = "id"
        /\ Adapted(f, c, b) = PayloadOf(table, d, k)
    <3>1. a \in Uncut /\ a.kind = "id"
      BY <1>1, <1>2, <2>1, LineKinds
    <3>2. b \in Uncut /\ Adapted(f, c, b) = PayloadOf(table, d, k)
      BY <1>1, <2>1, <2>2, PayloadAdapts DEF k
    <3> QED BY <3>1, <3>2
  <2>4. p = <<a, b>>
    BY <1>4, <2>1 DEF Added
  <2> HIDE DEF p
  <2>5. p \in Seq(Uncut) /\ Len(p) = 2 /\ p[1] = a /\ p[2] = b
    BY <2>3, <2>4
  <2>6. LenTo(f, k) = 2 * k /\ LenTo(f, k - 1) = 2 * (k - 1)
    BY <1>4 DEF LenTo
  <2>7. /\ 2 * k = 2 * (k - 1) + 2 /\ 2 * (k - 1) + 1 = 2 * k - 1 /\ 2 * (k - 1) + 2 = 2 * k
        /\ 2 * k - 1 \in 1 .. 2 * total /\ 2 * k \in 1 .. 2 * total
    BY <1>2
  <2>8. Complete(f) = FinalFile(table, d)
    BY <1>4 DEF Complete
  <2>9. Complete(f)[2 * k - 1] = IdLine(table[k]) /\ Complete(f)[2 * k] = PayloadOf(table, d, k)
    <3>1. Final(table, d, 2 * k - 1) = IdLine(table[k]) /\ Final(table, d, 2 * k) = PayloadOf(table, d, k)
      BY <1>1, <1>2, FinalLines
    <3>2. \A i \in 1 .. 2 * total : FinalFile(table, d)[i] = Final(table, d, i)
      BY <1>2 DEF FinalFile
    <3> QED BY <2>7, <2>8, <3>1, <3>2
  <2>10. Adapted(f, c, a) = a
    BY <2>3 DEF Adapted
  <2>11. ASSUME NEW i \in 1 .. 2 PROVE Adapted(f, c, p[i]) = Complete(f)[2 * (k - 1) + i]
    <3>1. i = 1 \/ i = 2
      OBVIOUS
    <3>2. CASE i = 1
      BY <2>1, <2>5, <2>7, <2>9, <2>10, <3>2
    <3>3. CASE i = 2
      BY <2>3, <2>5, <2>7, <2>9, <3>3
    <3> QED BY <3>1, <3>2, <3>3
  <2>12. 2 \in Nat
    OBVIOUS
  <2> QED BY <2>5, <2>6, <2>7, <2>11, <2>12 DEF k, p
<1> QED BY <1>1, <1>3, <1>4

LEMMA PieceBytes ==
    ASSUME NEW t \in Tables, NEW k \in 1 .. Len(t), NEW d \in Databases
    PROVE  Bytes(Piece(t[k], d)) = IF External(t[k], d) THEN t[k].id_len + t[k].len[d] ELSE 0
<1>1. Len(t) \in Nat /\ k - 1 \in 0 .. Len(t) /\ k \in 0 .. Len(t)
  BY TableFacts
<1>2. PICK x, y, p : x = Extras(t, d)[k - 1] /\ y = Extras(t, d)[k] /\ p = Piece(t[k], d)
  OBVIOUS
<1>3. x \in Seq(Lines) /\ p \in Seq(Lines) /\ y = x \o p
  BY <1>1, <1>2, ExtrasFacts, PieceType, UncutLines
<1>4. Bytes(y) = Bytes(x) + Bytes(p) /\ Bytes(x) \in Nat /\ Bytes(p) \in Nat
  BY <1>3, OffsetsJoin, OffsetStep
<1>5. PICK i, l : i = t[k].id_len /\ l = t[k].len[d]
  OBVIOUS
<1>6. i \in Nat /\ l \in Nat
  BY <1>5, TableFacts
<1>7. /\ External(t[k], d) => Bytes(y) = Bytes(x) + i + l
      /\ ~ External(t[k], d) => Bytes(y) = Bytes(x)
  BY <1>2, <1>5, ExtrasFacts
<1>8. /\ External(t[k], d) => Bytes(p) = i + l
      /\ ~ External(t[k], d) => Bytes(p) = 0
  BY <1>4, <1>6, <1>7
<1> QED BY <1>2, <1>5, <1>8

(* What a writer changes, seen file by file.                               *)
LEMMA RecordStep ==
    ASSUME WriteTyped, Counted, NEW c \in Chunks, WriteRecord(c)
    PROVE  /\ next[c] \in Nat /\ next[c] + 1 <= EndOf(c) /\ StartOf(c) <= next[c]
           /\ next'[c] = next[c] + 1 /\ next' \in [Chunks -> Nat]
           /\ \A b \in Chunks : b # c => next'[b] = next[b]
           /\ part' \in [Databases -> [Chunks -> Seq(Uncut)]]
           /\ part_extra' \in [Databases -> [Chunks -> Seq(Uncut)]]
           /\ \A f \in Files : /\ Input(f)'[c] = Input(f)[c] \o Added(table[next[c] + 1], f, c)
                               /\ \A b \in Chunks : b # c => Input(f)'[b] = Input(f)[b]
           /\ \A d \in Databases :
                /\ ext_offset'[d][c] = OffsetAfter(table[next[c] + 1], d, c)
                /\ \A b \in Chunks : b # c => ext_offset'[d][b] = ext_offset[d][b]
           /\ \A f \in Files : Output(f)' = Output(f)
<1> DEFINE k == next[c] + 1
           r == table[k]
<1>1. /\ phase = "write" /\ next[c] < EndOf(c)
      /\ part' = [d \in Databases |->
            [part[d] EXCEPT ![c] = @ \o <<IdLine(r), Payload(r, d, c)>>]]
      /\ part_extra' = [d \in Databases |->
            [part_extra[d] EXCEPT ![c] = IF External(r, d) THEN @ \o <<IdLine(r), JsonLine(r, d)>> ELSE @]]
      /\ ext_offset' = [d \in Databases |-> [ext_offset[d] EXCEPT ![c] = OffsetAfter(r, d, c)]]
      /\ next' = [next EXCEPT ![c] = @ + 1]
      /\ table' = table /\ merged' = merged /\ extra' = extra
  BY DEF WriteRecord
<1>2. /\ next \in [Chunks -> Nat] /\ StartOf(c) <= next[c]
      /\ part \in [Databases -> [Chunks -> Seq(Uncut)]]
      /\ part_extra \in [Databases -> [Chunks -> Seq(Uncut)]]
      /\ ext_offset \in [Databases -> [Chunks -> Nat]]
  BY DEF WriteTyped
<1>3. next[c] \in Nat /\ k \in Nat /\ EndOf(c) \in Nat
  BY SMTT(30), <1>2, ChunkFacts DEF WriteTyped
<1>4. k <= EndOf(c)
  <2>1. PICK x, y : x = next[c] /\ y = EndOf(c)
    OBVIOUS
  <2>2. x \in Nat /\ y \in Nat /\ x < y
    BY <1>1, <1>3, <2>1
  <2>3. x + 1 <= y
    BY <2>2
  <2> QED BY <2>1, <2>3
<1>5. /\ next'[c] = k /\ next' \in [Chunks -> Nat]
      /\ \A b \in Chunks : b # c => next'[b] = next[b]
  BY <1>1, <1>2, <1>3
<1>6. ASSUME NEW f \in Files
      PROVE  /\ Input(f)'[c] = Input(f)[c] \o Added(r, f, c)
             /\ \A b \in Chunks : b # c => Input(f)'[b] = Input(f)[b]
             /\ Added(r, f, c) \in Seq(Uncut)
  <2>1. f[1] \in Databases /\ Input(f)[c] \in Seq(Uncut)
    BY FileTypes
  <2>2. Added(r, f, c) \in Seq(Uncut)
    BY <1>1, AddedFacts
  <2>3. CASE f[2]
    <3>1. Input(f)' = part_extra'[f[1]] /\ Input(f) = part_extra[f[1]]
      BY <2>3 DEF Input
    <3>2. Added(r, f, c) = IF External(r, f[1]) THEN <<IdLine(r), JsonLine(r, f[1])>> ELSE <<>>
      BY <2>3 DEF Added, Piece
    <3>3. Input(f)[c] \o <<>> = Input(f)[c]
      BY <2>1, ConcatEmptySeq
    <3>4. Input(f)'[c] = IF External(r, f[1]) THEN Input(f)[c] \o <<IdLine(r), JsonLine(r, f[1])>>
                         ELSE Input(f)[c]
      BY <1>1, <1>2, <2>1, <3>1
    <3>5. Input(f)'[c] = Input(f)[c] \o Added(r, f, c)
      BY <3>2, <3>3, <3>4
    <3>6. \A b \in Chunks : b # c => Input(f)'[b] = Input(f)[b]
      BY <1>1, <1>2, <2>1, <3>1
    <3> QED BY <2>2, <3>5, <3>6
  <2>4. CASE ~ f[2]
    <3>1. Input(f)' = part'[f[1]] /\ Input(f) = part[f[1]]
      BY <2>4 DEF Input
    <3>2. Added(r, f, c) = <<IdLine(r), Payload(r, f[1], c)>>
      BY SMTT(30), <2>4 DEF Added
    <3>3. Input(f)'[c] = Input(f)[c] \o <<IdLine(r), Payload(r, f[1], c)>>
      BY <1>1, <1>2, <2>1, <3>1
    <3>4. \A b \in Chunks : b # c => Input(f)'[b] = Input(f)[b]
      BY <1>1, <1>2, <2>1, <3>1
    <3> QED BY <2>2, <3>2, <3>3, <3>4
  <2> QED BY <2>3, <2>4
<1>7. ASSUME NEW d \in Databases
      PROVE  /\ ext_offset'[d][c] = OffsetAfter(r, d, c)
             /\ \A b \in Chunks : b # c => ext_offset'[d][b] = ext_offset[d][b]
  BY <1>1, <1>2
<1>8. ASSUME NEW d \in Databases
      PROVE  part'[d] \in [Chunks -> Seq(Uncut)] /\ part_extra'[d] \in [Chunks -> Seq(Uncut)]
  <2>1. <<d, FALSE>> \in Files /\ <<d, TRUE>> \in Files
    BY DEF Files
  <2>2. /\ Input(<<d, FALSE>>)' = part'[d] /\ Input(<<d, TRUE>>)' = part_extra'[d]
    BY DEF Input
  <2>3. ASSUME NEW f \in Files, NEW b \in Chunks PROVE Input(f)'[b] \in Seq(Uncut)
    <3>1. Input(f)[b] \in Seq(Uncut) /\ Input(f)[c] \in Seq(Uncut)
      BY FileTypes
    <3>2. Input(f)[c] \o Added(r, f, c) \in Seq(Uncut)
      BY <1>6, <3>1, ConcatProperties
    <3> QED BY <1>6, <3>1, <3>2
  <2>4. \A b \in Chunks : part'[d][b] \in Seq(Uncut) /\ part_extra'[d][b] \in Seq(Uncut)
    BY <2>1, <2>2, <2>3
  <2>5. /\ part'[d] = [b \in Chunks |-> part'[d][b]]
        /\ part_extra'[d] = [b \in Chunks |-> part_extra'[d][b]]
    <3>1. DOMAIN part[d] = Chunks /\ DOMAIN part_extra[d] = Chunks
      BY <1>2
    <3> QED BY <1>1, <3>1
  <2> QED BY <2>4, <2>5
<1>9. /\ part' \in [Databases -> [Chunks -> Seq(Uncut)]]
      /\ part_extra' \in [Databases -> [Chunks -> Seq(Uncut)]]
  BY <1>1, <1>8
<1>10. \A f \in Files : Output(f)' = Output(f)
  BY <1>1 DEF Output
<1> QED BY <1>2, <1>3, <1>4, <1>5, <1>6, <1>7, <1>9, <1>10

LEMMA HoleFacts ==
    /\ \A h : h \in Holes <=> \E f \in Files : \E i \in DOMAIN Output(f) :
                                  h = <<f, i>> /\ Output(f)[i].kind = "cut"
    /\ \A h : h \in Holes' <=> \E f \in Files : \E i \in DOMAIN Output(f)' :
                                  h = <<f, i>> /\ (Output(f)')[i].kind = "cut"
    /\ \A h : h \in Removed <=> \E f \in Files : \E c \in 0 .. at[f][1] - 1 : h = <<f, c>>
    /\ \A h : h \in Removed' <=> \E f \in Files : \E c \in 0 .. at'[f][1] - 1 : h = <<f, c>>
<1>1. \A h : h \in Holes <=> \E f \in Files : \E i \in DOMAIN Output(f) :
                                  h = <<f, i>> /\ Output(f)[i].kind = "cut"
  BY DEF Holes, Files
<1>2. \A h : h \in Holes' <=> \E f \in Files : \E i \in DOMAIN Output(f)' :
                                  h = <<f, i>> /\ (Output(f)')[i].kind = "cut"
  BY DEF Holes, Files
<1>3. \A h : h \in Removed <=> \E f \in Files : \E c \in 0 .. at[f][1] - 1 : h = <<f, c>>
  BY DEF Removed, Files
<1>4. \A h : h \in Removed' <=> \E f \in Files : \E c \in 0 .. at'[f][1] - 1 : h = <<f, c>>
  BY DEF Removed, Files
<1> QED BY <1>1, <1>2, <1>3, <1>4

LEMMA RoomStays ==
    ASSUME Room, full' = full, \A f \in Files : Output(f)' = Output(f) /\ at'[f][1] = at[f][1]
    PROVE  Room'
<1>1. Holes' = Holes
  <2>1. \A h : h \in Holes <=> h \in Holes'
    BY HoleFacts
  <2> QED BY <2>1
<1>2. Removed' = Removed
  <2>1. \A h : h \in Removed <=> h \in Removed'
    BY HoleFacts
  <2> QED BY <2>1
<1> QED BY <1>1, <1>2 DEF Room

LEMMA RecordKeeps ==
    ASSUME WInv, NEW c \in Chunks, WriteRecord(c)
    PROVE  WInv'
<1> DEFINE k == next[c] + 1
           r == table[k]
<1>1. WriteTyped /\ Written /\ OffsetsCounted /\ Counted /\ Held /\ Copied /\ Room
  BY DEF WInv
<1>2. /\ phase = "write" /\ phase' = "write" /\ next[c] < EndOf(c) /\ table' = table /\ at' = at
      /\ full' = full /\ merged' = merged /\ extra' = extra
      /\ ext_offset' = [d \in Databases |-> [ext_offset[d] EXCEPT ![c] = OffsetAfter(r, d, c)]]
  BY DEF WriteRecord
<1>3. /\ total' = total /\ thread_count' = thread_count /\ Chunks' = Chunks
      /\ \A b : StartOf(b)' = StartOf(b) /\ EndOf(b)' = EndOf(b) /\ Begin(b)' = Begin(b)
      /\ \A d, n : BytesTo(d, n)' = BytesTo(d, n)
      /\ \A f, n : LenTo(f, n)' = LenTo(f, n)
      /\ \A f : Complete(f)' = Complete(f)
      /\ \A f, b, line : Adapted(f, b, line)' = Adapted(f, b, line)
  BY <1>2, Steady
<1>4. /\ next[c] \in Nat /\ k <= EndOf(c) /\ StartOf(c) <= next[c]
      /\ next'[c] = k /\ next' \in [Chunks -> Nat]
      /\ \A b \in Chunks : b # c => next'[b] = next[b]
      /\ part' \in [Databases -> [Chunks -> Seq(Uncut)]]
      /\ part_extra' \in [Databases -> [Chunks -> Seq(Uncut)]]
      /\ \A f \in Files : Output(f)' = Output(f)
  BY <1>1, RecordStep
<1>5. \A f \in Files : /\ Input(f)'[c] = Input(f)[c] \o Added(r, f, c)
                       /\ \A b \in Chunks : b # c => Input(f)'[b] = Input(f)[b]
  BY <1>1, RecordStep
<1>6. \A d \in Databases :
          /\ ext_offset'[d][c] = OffsetAfter(r, d, c)
          /\ \A b \in Chunks : b # c => ext_offset'[d][b] = ext_offset[d][b]
  BY <1>1, RecordStep
<1>7. k \in 1 .. total /\ next[c] \in 0 .. total /\ k - 1 = next[c] /\ total = Len(table)
  <2>1. EndOf(c) \in Nat /\ EndOf(c) <= total /\ total \in Nat /\ total = Len(table)
    BY <1>1, ChunkFacts DEF WriteTyped
  <2>2. PICK x, y, z : x = next[c] /\ y = EndOf(c) /\ z = total
    OBVIOUS
  <2>3. x \in Nat /\ y \in Nat /\ z \in Nat /\ x + 1 <= y /\ y <= z
    BY <1>4, <2>1, <2>2
  <2>4. x + 1 \in 1 .. z /\ x \in 0 .. z /\ x + 1 - 1 = x
    BY <2>3
  <2> QED BY <2>1, <2>2, <2>4
<1>8. ASSUME NEW d \in Databases
      PROVE  /\ IdLine(r).len = r.id_len
             /\ r.id_len \in Nat /\ r.len[d] \in Nat /\ ext_offset[d][c] \in Nat
             /\ ext_offset'[d][c] \in Nat
             /\ ext_offset'[d][c] =
                   IF External(r, d) THEN ext_offset[d][c] + (r.id_len + r.len[d]) ELSE ext_offset[d][c]
  <2>1. PICK e, i, l : e = ext_offset[d][c] /\ i = r.id_len /\ l = r.len[d]
    OBVIOUS
  <2>2. k \in 1 .. Len(table) /\ table \in Tables
    BY <1>1, <1>7 DEF WriteTyped
  <2>3. i \in Nat /\ l \in Nat /\ IdLine(r).len = i
    <3> HIDE DEF k
    <3> QED BY <2>1, <2>2, TableFacts, LineKinds
  <2>4. e \in Nat
    BY <1>1, <2>1 DEF WriteTyped
  <2>5. ext_offset'[d][c] = IF External(r, d) THEN e + i + l ELSE e
    BY <1>6, <2>1 DEF OffsetAfter
  <2>6. e + i + l = e + (i + l) /\ e + i + l \in Nat
    BY <2>3, <2>4
  <2> QED BY <2>1, <2>3, <2>4, <2>5, <2>6
<1>9. ext_offset' \in [Databases -> [Chunks -> Nat]]
  <2>1. ASSUME NEW d \in Databases PROVE ext_offset'[d] \in [Chunks -> Nat]
    <3>1. ext_offset[d] \in [Chunks -> Nat]
      BY <1>1 DEF WriteTyped
    <3>2. ext_offset'[d] = [ext_offset[d] EXCEPT ![c] = ext_offset'[d][c]]
      BY <1>2, <3>1
    <3> QED BY <1>8, <3>1, <3>2
  <2> QED BY <1>2, <2>1
<1>10. WriteTyped'
  <2>1. ASSUME NEW b \in Chunks PROVE StartOf(b) <= next'[b] /\ next'[b] <= EndOf(b)
    <3>1. CASE b = c
      <4>1. PICK x, y : x = next[c] /\ y = StartOf(c)
        OBVIOUS
      <4>2. x \in Nat /\ y \in Nat /\ y <= x
        BY <1>1, <1>4, <4>1, ChunkFacts DEF WriteTyped
      <4>3. y <= x + 1
        BY <4>2
      <4> QED BY <1>4, <3>1, <4>1, <4>3
    <3>2. CASE b # c
      BY <1>1, <1>4, <3>2 DEF WriteTyped
    <3> QED BY <3>1, <3>2
  <2> QED BY <1>1, <1>2, <1>3, <1>4, <1>9, <2>1 DEF WriteTyped
<1>11. Written'
  BY <1>1, <1>2, <1>4 DEF Written
<1>12. OffsetsCounted'
  <2> SUFFICES ASSUME NEW d \in Databases, NEW b \in Chunks
               PROVE  ext_offset'[d][b] = Bytes(part_extra'[d][b])
    BY <1>3 DEF OffsetsCounted
  <2> DEFINE f == <<d, TRUE>>
  <2>1. /\ f \in Files /\ Input(f) = part_extra[d] /\ Input(f)' = part_extra'[d]
        /\ \A q : Added(q, f, c) = Piece(q, d)
    BY DEF Files, Input, Added
  <2>2. ext_offset[d][b] = Bytes(part_extra[d][b]) /\ ext_offset[d][c] = Bytes(part_extra[d][c])
    BY <1>1, <1>2 DEF OffsetsCounted
  <2>3. CASE b = c
    <3>1. PICK x, p : x = part_extra[d][c] /\ p = Piece(r, d)
      OBVIOUS
    <3>2. part_extra'[d][c] = x \o p
      BY <1>5, <2>1, <3>1
    <3>3. k \in 1 .. Len(table) /\ table \in Tables
      BY <1>1, <1>7 DEF WriteTyped
    <3>4. p \in Seq(Lines) /\ Bytes(p) = IF External(r, d) THEN r.id_len + r.len[d] ELSE 0
      <4> HIDE DEF k
      <4> QED BY <3>1, <3>3, PieceType, PieceBytes, UncutLines
    <3>5. x \in Seq(Lines)
      BY <1>1, <2>1, <3>1, FileTypes
    <3>6. Bytes(x \o p) = Bytes(x) + Bytes(p) /\ Bytes(x) \in Nat
      BY <3>4, <3>5, OffsetsJoin, OffsetStep
    <3>7. ext_offset[d][c] = Bytes(x)
      BY <2>2, <3>1
    <3>8. CASE External(r, d)
      BY <1>8, <2>3, <3>2, <3>4, <3>6, <3>7, <3>8
    <3>9. CASE ~ External(r, d)
      <4>1. Bytes(x \o p) = Bytes(x)
        BY <3>4, <3>6, <3>9
      <4> QED BY <1>8, <2>3, <3>2, <3>7, <3>9, <4>1
    <3> QED BY <3>8, <3>9
  <2>4. CASE b # c
    BY <1>5, <1>6, <2>1, <2>2, <2>4
  <2> QED BY <2>3, <2>4
<1>13. Counted'
  <2> SUFFICES ASSUME NEW d \in Databases, NEW b \in Chunks
               PROVE  ext_offset'[d][b] + BytesTo(d, StartOf(b)) = BytesTo(d, next'[b])
    BY <1>3 DEF Counted
  <2>1. /\ ext_offset[d][b] + BytesTo(d, StartOf(b)) = BytesTo(d, next[b])
        /\ ext_offset[d][c] + BytesTo(d, StartOf(c)) = BytesTo(d, next[c])
    BY <1>1, <1>2 DEF Counted
  <2>2. CASE b = c
    <3>1. PICK e, s, i, l : /\ e = ext_offset[d][c] /\ s = BytesTo(d, StartOf(c))
                            /\ i = r.id_len /\ l = r.len[d]
      OBVIOUS
    <3>2. e + s = BytesTo(d, k - 1)
      BY <1>7, <2>1, <3>1
    <3>3. e \in Nat /\ i \in Nat /\ l \in Nat
      BY <1>8, <3>1
    <3>4. s \in Nat
      <4>1. StartOf(c) = Begin(c) /\ c \in 0 .. thread_count /\ table \in Tables
        <5>1. table \in Tables
          BY <1>1 DEF WriteTyped
        <5> QED BY <5>1, ChunkFacts
      <4>2. StartOf(c) \in 0 .. total
        BY <4>1, ChunkFacts
      <4> QED BY <3>1, <4>1, <4>2, BytesToType
    <3>5. /\ External(r, d) => BytesTo(d, k) = BytesTo(d, k - 1) + i + l
          /\ ~ External(r, d) => BytesTo(d, k) = BytesTo(d, k - 1)
      <4>1. k \in 1 .. Len(table) /\ table \in Tables
        BY <1>1, <1>7 DEF WriteTyped
      <4> HIDE DEF k
      <4> QED BY <3>1, <4>1, ExtrasFacts DEF BytesTo
    <3>6. /\ External(r, d) => ext_offset'[d][c] = e + (i + l)
          /\ ~ External(r, d) => ext_offset'[d][c] = e
      BY <1>8, <3>1
    <3>7. (e + (i + l)) + s = (e + s) + i + l
      BY <3>3, <3>4
    <3>8. next'[b] = k
      BY <1>4, <2>2
    <3>9. ext_offset'[d][c] + s = BytesTo(d, k)
      BY <3>2, <3>5, <3>6, <3>7
    <3> QED BY <2>2, <3>1, <3>8, <3>9
  <2>3. CASE b # c
    BY <1>4, <1>6, <2>1, <2>3
  <2> QED BY <2>2, <2>3
<1>14. Held'
  <2> SUFFICES ASSUME NEW f \in Files, NEW b \in Chunks PROVE ChunkHolds(f, b)'
    BY <1>3 DEF Held
  <2>1. ChunkHolds(f, b) /\ ChunkHolds(f, c)
    <3>1. at[f][1] = 0
      BY <1>1, <1>2 DEF Written
    <3>2. 0 <= b /\ 0 <= c
      BY <1>1, ChunkFacts DEF WriteTyped
    <3> QED BY <1>1, <1>2, <3>1, <3>2 DEF Held
  <2>2. CASE b # c
    <3>1. Input(f)'[b] = Input(f)[b] /\ next'[b] = next[b]
      BY <1>4, <1>5, <2>2
    <3> QED BY <1>3, <2>1, <3>1 DEF ChunkHolds
  <2>3. CASE b = c
    <3>1. PICK x, p, y : x = Input(f)[c] /\ p = Added(r, f, c) /\ y = Input(f)'[c]
      OBVIOUS
    <3>2. PICK u, v, w : u = LenTo(f, StartOf(c)) /\ v = LenTo(f, k - 1) /\ w = LenTo(f, k)
      OBVIOUS
    <3>3. y = x \o p /\ x \in Seq(Lines) /\ Len(x) \in Nat
      BY <1>1, <1>5, <3>1, FileTypes
    <3>4. p \in Seq(Uncut) /\ p \in Seq(Lines) /\ Len(p) \in Nat
      BY <1>1, <1>2, <3>1, AddedFacts, UncutLines
    <3>5. w = v + Len(p) /\ \A i \in 1 .. Len(p) : Adapted(f, c, p[i]) = Complete(f)[v + i]
      BY <1>1, <1>2, <1>7, <3>1, <3>2, AddedFacts
    <3>6. Len(x) = v - u /\ \A i \in 1 .. Len(x) : Adapted(f, c, x[i]) = Complete(f)[u + i]
      BY <1>7, <2>1, <3>1, <3>2 DEF ChunkHolds
    <3>7. u \in Nat /\ v \in Nat
      <4>1. table \in Tables
        BY <1>1 DEF WriteTyped
      <4>2. StartOf(c) = Begin(c) /\ c \in 0 .. thread_count
        BY <4>1, ChunkFacts
      <4>3. StartOf(c) \in 0 .. total /\ k - 1 \in 0 .. total
        BY <1>7, <4>1, <4>2, ChunkFacts
      <4> QED BY <3>2, <4>1, <4>3, CompleteFacts
    <3>8. Len(y) = Len(x) + Len(p)
      BY <3>3, <3>4, Concatenated
    <3>9. Len(y) = w - u
      BY <3>3, <3>4, <3>5, <3>6, <3>7, <3>8
    <3>10. ASSUME NEW i \in 1 .. Len(y) PROVE Adapted(f, c, y[i]) = Complete(f)[u + i]
      <4>1. CASE i <= Len(x)
        <5>1. i \in 1 .. Len(x)
          BY <3>3, <4>1
        <5>2. y[i] = x[i]
          BY <3>3, <3>4, <5>1, Concatenated
        <5> QED BY <3>6, <5>1, <5>2
      <4>2. CASE ~ (i <= Len(x))
        <5>1. PICK j : j = i - Len(x)
          OBVIOUS
        <5>2. j \in 1 .. Len(p) /\ Len(x) + j = i /\ v + j = u + i
          BY <3>3, <3>4, <3>6, <3>7, <3>8, <4>2, <5>1
        <5>3. y[i] = p[j]
          BY <3>3, <3>4, <5>2, Concatenated
        <5> QED BY <3>5, <5>2, <5>3
      <4> QED BY <4>1, <4>2
    <3>11. next'[b] = k
      BY <1>4, <2>3
    <3> QED BY <1>3, <2>3, <3>1, <3>2, <3>9, <3>10, <3>11 DEF ChunkHolds
  <2> QED BY <2>2, <2>3
<1>15. Copied'
  <2> SUFFICES ASSUME NEW f \in Files
               PROVE  /\ at[f][1] \in Chunks => at[f][2] <= Len(Input(f)'[at[f][1]]) + 1
                      /\ at[f][1] \notin Chunks => at[f][2] = 1
                      /\ Len(Output(f)) = LenTo(f, Begin(at[f][1])) + at[f][2] - 1
                      /\ \A i \in 1 .. Len(Output(f)) : Output(f)[i] = Complete(f)[i]
    BY <1>2, <1>3, <1>4 DEF Copied, LinesDone
  <2>1. at[f][1] = 0 /\ at[f][2] = 1 /\ Output(f) = <<>>
    BY <1>1, <1>2 DEF Written
  <2>2. 0 \in Chunks /\ Begin(0) = 0 /\ LenTo(f, 0) = 0 /\ Len(<<>>) = 0 /\ 0 = 0 + 1 - 1
    BY <1>1, ChunkFacts, CompleteFacts DEF WriteTyped
  <2>3. Len(Input(f)'[0]) \in Nat
    <3>1. Input(f)' \in [Chunks -> Seq(Uncut)]
      BY <1>4, FileTypes, <1>1 DEF Input
    <3>2. Input(f)'[0] \in Seq(Uncut)
      BY <2>2, <3>1
    <3> QED BY <3>2, LenProperties
  <2>4. 1 <= Len(Input(f)'[0]) + 1
    BY <2>3
  <2>5. 1 .. 0 = {}
    OBVIOUS
  <2> QED BY <2>1, <2>2, <2>4, <2>5
<1>16. Ended'
  BY <1>2 DEF Ended
<1>17. Room'
  BY <1>1, <1>2, <1>4, RoomStays
<1> QED BY <1>10, <1>11, <1>12, <1>13, <1>14, <1>15, <1>16, <1>17 DEF WInv

LEMMA HoldsStays ==
    ASSUME table' = table, NEW f, NEW c, Input(f)'[c] = Input(f)[c], next'[c] = next[c],
           ChunkHolds(f, c)
    PROVE  ChunkHolds(f, c)'
BY Steady DEF ChunkHolds

(* The scope joins the writers.                                            *)
LEMMA JoinKeeps ==
    ASSUME WInv, WritersJoined
    PROVE  WInv'
<1>1. WriteTyped /\ Written /\ OffsetsCounted /\ Counted /\ Held /\ Copied /\ Room
  BY DEF WInv
<1>2. /\ phase = "write" /\ \A c \in Chunks : next[c] = EndOf(c)
      /\ table' = table /\ next' = next /\ part' = part /\ part_extra' = part_extra
      /\ ext_offset' = ext_offset /\ at' = at /\ full' = full
  BY DEF WritersJoined
<1>3. /\ total' = total /\ thread_count' = thread_count /\ Chunks' = Chunks
      /\ \A b : StartOf(b)' = StartOf(b) /\ EndOf(b)' = EndOf(b) /\ Begin(b)' = Begin(b)
      /\ \A d, n : BytesTo(d, n)' = BytesTo(d, n)
      /\ \A f, n : LenTo(f, n)' = LenTo(f, n)
      /\ \A f : Complete(f)' = Complete(f)
      /\ \A f, b, line : Adapted(f, b, line)' = Adapted(f, b, line)
  BY <1>2, Steady
<1>4. table \in Tables
  BY <1>1 DEF WriteTyped
<1>5. CASE thread_count = 1
  <2>1. /\ phase' = "done" /\ merged' = [d \in Databases |-> part[d][0]]
        /\ extra' = [d \in Databases |-> part_extra[d][0]]
    BY <1>5 DEF WritersJoined
  <2>2. /\ 0 \in Chunks /\ StartOf(0) = 0 /\ Begin(0 + 1) = EndOf(0) /\ Begin(thread_count) = total
        /\ total \in Nat /\ total \in 0 .. total
    <3>1. 0 \in Chunks /\ total \in Nat
      BY <1>4, ChunkFacts
    <3> QED BY <1>4, <3>1, ChunkFacts
  <2>3. next[0] = total
    BY <1>2, <1>5, <2>2
  <2>4. ASSUME NEW f \in Files PROVE Output(f)' = Input(f)[0]
    <3>1. f[1] \in Databases /\ f[2] \in BOOLEAN
      BY <1>1, FileTypes
    <3> QED BY <2>1, <3>1 DEF Output, Input
  <2>5. ASSUME NEW f \in Files
        PROVE  /\ Input(f)[0] = Complete(f)
               /\ Input(f)[0] \in Seq(Lines) /\ Len(Input(f)[0]) \in Nat
               /\ \A i \in 1 .. Len(Input(f)[0]) : Input(f)[0][i].kind # "cut"
    <3>1. PICK x, y : x = Input(f)[0] /\ y = Complete(f)
      OBVIOUS
    <3>2. /\ x \in Seq(Lines) /\ Len(x) \in Nat /\ \A i \in 1 .. Len(x) : x[i] \in Uncut
      BY <1>1, <2>2, <3>1, FileTypes
    <3>3. y \in Seq(Lines) /\ Len(y) = LenTo(f, total) /\ LenTo(f, 0) = 0 /\ LenTo(f, total) \in Nat
      BY <1>4, <2>2, <3>1, CompleteFacts
    <3>4. ChunkHolds(f, 0)
      <4>1. at[f][1] = 0
        BY <1>1, <1>2 DEF Written
      <4>2. at[f][1] <= 0
        BY <4>1
      <4> QED BY <1>1, <1>2, <2>2, <4>2 DEF Held
    <3>5. Len(x) = LenTo(f, total) - 0 /\ \A i \in 1 .. Len(x) : Adapted(f, 0, x[i]) = y[0 + i]
      BY <2>2, <2>3, <3>1, <3>3, <3>4 DEF ChunkHolds
    <3>6. \A line : Adapted(f, 0, line) = line
      BY DEF Adapted
    <3>7. Len(x) = Len(y)
      BY <3>3, <3>5
    <3>8. \A i \in 1 .. Len(x) : x[i] = y[i]
      <4> SUFFICES ASSUME NEW i \in 1 .. Len(x) PROVE x[i] = y[i]
        OBVIOUS
      <4>1. 0 + i = i
        BY <3>2
      <4> QED BY <3>5, <3>6, <4>1
    <3>9. x = y
      BY <3>2, <3>3, <3>7, <3>8, SeqEqual
    <3>10. \A i \in 1 .. Len(x) : x[i].kind # "cut"
      BY <3>2 DEF Uncut
    <3> QED BY <3>1, <3>2, <3>9, <3>10
  <2>6. WriteTyped'
    <3>1. ASSUME NEW d \in Databases PROVE part[d][0] \in Seq(Lines) /\ part_extra[d][0] \in Seq(Lines)
      <4>1. part[d][0] \in Seq(Uncut) /\ part_extra[d][0] \in Seq(Uncut)
        BY <1>1, <2>2 DEF WriteTyped
      <4> QED BY <4>1, UncutLines
    <3>2. merged' \in [Databases -> Seq(Lines)] /\ extra' \in [Databases -> Seq(Lines)]
      BY <2>1, <3>1
    <3>3. phase' \in {"write", "merge", "done", "panicked"}
      BY <2>1
    <3> QED BY <1>1, <1>2, <1>3, <3>2, <3>3 DEF WriteTyped
  <2>7. Ended'
    BY <1>3, <2>4, <2>5 DEF Ended
  <2>8. Room'
    <3>1. Holes' = {}
      <4>1. \A f \in Files : DOMAIN Input(f)[0] = 1 .. Len(Input(f)[0])
        BY <2>5, LineTypes
      <4>2. \A h : ~ (h \in Holes')
        BY <2>4, <2>5, <4>1, HoleFacts
      <4> QED BY <4>2
    <3>2. Removed' = Removed
      <4>1. \A h : h \in Removed' <=> h \in Removed
        BY <1>2, HoleFacts
      <4> QED BY <4>1
    <3>3. IsFiniteSet(Removed) /\ Cardinality(Removed) \in Nat
      BY <1>1, FS_CardinalityType DEF Room
    <3>4. IsFiniteSet({}) /\ Cardinality({}) = 0
      BY FS_EmptySet
    <3>5. 0 <= 1 + Cardinality(Removed) /\ 0 <= Cardinality(Removed)
      BY <3>3
    <3> QED BY <3>1, <3>2, <3>3, <3>4, <3>5 DEF Room
  <2> QED BY <2>1, <2>6, <2>7, <2>8 DEF WInv, Written, OffsetsCounted, Counted, Held, Copied
<1>6. CASE thread_count # 1
  <2>1. phase' = "merge" /\ merged' = merged /\ extra' = extra
    BY <1>6 DEF WritersJoined
  <2>2. \A f \in Files : Output(f)' = Output(f) /\ Input(f)' = Input(f)
    BY <1>2, <2>1 DEF Output, Input
  <2>3. WriteTyped'
    BY <1>1, <1>2, <1>3, <2>1 DEF WriteTyped
  <2>4. Written'
    BY <1>2, <1>3, <2>1 DEF Written
  <2>5. Counted'
    BY <1>1, <1>2, <1>3, <2>1 DEF Counted
  <2>6. Held'
    <3> SUFFICES ASSUME NEW f \in Files, NEW c \in Chunks, at[f][1] <= c PROVE ChunkHolds(f, c)'
      BY <1>2, <1>3 DEF Held
    <3>1. ChunkHolds(f, c)
      BY <1>1, <1>2 DEF Held
    <3> QED BY <1>2, <2>2, <3>1, HoldsStays
  <2>7. Copied'
    BY <1>1, <1>2, <1>3, <2>2 DEF Copied, NoCut, LinesDone
  <2>8. Room'
    BY <1>1, <1>2, <2>2, RoomStays
  <2> QED BY <2>1, <2>3, <2>4, <2>5, <2>6, <2>7, <2>8 DEF WInv, OffsetsCounted, Ended
<1> QED BY <1>5, <1>6

-----------------------------------------------------------------------------
(* A merging thread writes.                                                *)
LEMMA GrowthKeeps ==
    ASSUME WInv, NEW f \in Files, NEW lines \in Seq(Lines), phase = "merge", LineLeft(f),
           Put(f, lines), UNCHANGED <<table, phase, next, part, part_extra, ext_offset>>,
           full' \in BOOLEAN,
           \/ lines = Batch(f)
           \/ \E i \in 1 .. Len(lines) : lines[i].kind = "cut"
    PROVE  /\ WriteTyped' /\ Written' /\ OffsetsCounted' /\ Counted' /\ Held' /\ Copied' /\ Ended'
           /\ \A h : h \in Holes' <=>
                  \/ h \in Holes
                  \/ \E j \in 1 .. Len(lines) :
                         lines[j].kind = "cut" /\ h = <<f, Len(Output(f)) + j>>
           /\ Removed' = Removed
<1>1. WriteTyped /\ Written /\ Counted /\ Held /\ Copied
  BY DEF WInv
<1>2. /\ total' = total /\ thread_count' = thread_count /\ Chunks' = Chunks
      /\ \A b : StartOf(b)' = StartOf(b) /\ EndOf(b)' = EndOf(b) /\ Begin(b)' = Begin(b)
      /\ \A d, n : BytesTo(d, n)' = BytesTo(d, n)
      /\ \A g, n : LenTo(g, n)' = LenTo(g, n)
      /\ \A g : Complete(g)' = Complete(g)
      /\ \A g, b, line : Adapted(g, b, line)' = Adapted(g, b, line)
  BY Steady
<1>3. /\ at[f][1] \in Chunks
      /\ Batch(f) \in Seq(Uncut) /\ Len(Batch(f)) \in Nat /\ Len(Batch(f)) > 0
      /\ at[f][2] + Len(Batch(f)) <= Len(Input(f)[at[f][1]]) + 1
      /\ \A j \in 1 .. Len(Batch(f)) :
           Batch(f)[j] = Adapted(f, at[f][1], Input(f)[at[f][1]][at[f][2] - 1 + j])
  BY <1>1, BatchFacts
<1>4. /\ merged' \in [Databases -> Seq(Lines)] /\ extra' \in [Databases -> Seq(Lines)]
      /\ Output(f)' = Output(f) \o lines
      /\ \A g \in Files : g # f => Output(g)' = Output(g) /\ at'[g] = at[g]
      /\ at'[f][1] = at[f][1] /\ at'[f][2] = at[f][2] + Len(Batch(f))
      /\ \A g \in Files : at'[g][1] = at[g][1]
      /\ at' \in [Files -> (0 .. thread_count) \X (Nat \ {0})]
  BY <1>1, <1>3, PutFacts
<1>5. \A g \in Files : Input(g)' = Input(g)
  BY DEF Input
<1>6. WriteTyped'
  BY <1>1, <1>2, <1>4 DEF WriteTyped
<1>7. Written'
  BY <1>1, <1>2 DEF Written
<1>8. Counted'
  BY <1>1, <1>2 DEF Counted
<1>9. Held'
  <2> SUFFICES ASSUME NEW g \in Files, NEW c \in Chunks, at[g][1] <= c PROVE ChunkHolds(g, c)'
    BY <1>2, <1>4 DEF Held
  <2>1. ChunkHolds(g, c)
    BY <1>1 DEF Held
  <2> QED BY <1>5, <2>1, HoldsStays
<1>10. /\ Output(f) \in Seq(Lines) /\ Len(Output(f)) \in Nat /\ Len(lines) \in Nat
       /\ Len(Output(f)') = Len(Output(f)) + Len(lines)
       /\ \A i \in 1 .. Len(Output(f)) : /\ (Output(f)')[i] = Output(f)[i]
                                         /\ i \in 1 .. Len(Output(f)')
       /\ \A i \in 1 .. Len(lines) : /\ (Output(f)')[Len(Output(f)) + i] = lines[i]
                                     /\ Len(Output(f)) + i \in 1 .. Len(Output(f)')
       /\ DOMAIN Output(f) = 1 .. Len(Output(f)) /\ DOMAIN Output(f)' = 1 .. Len(Output(f)')
  <2>1. PICK x, y : x = Output(f) /\ y = Output(f)'
    OBVIOUS
  <2>2. y = x \o lines /\ x \in Seq(Lines)
    BY <1>1, <1>4, <2>1, FileTypes
  <2>3. y \in Seq(Lines) /\ Len(y) = Len(x) + Len(lines) /\ Len(x) \in Nat /\ Len(lines) \in Nat
    BY <2>2, Concatenated
  <2>4. \A i \in 1 .. Len(x) : y[i] = x[i] /\ i \in 1 .. Len(y)
    BY <2>2, <2>3, Concatenated
  <2>5. \A i \in 1 .. Len(lines) : y[Len(x) + i] = lines[i] /\ Len(x) + i \in 1 .. Len(y)
    BY <2>2, <2>3, Concatenated
  <2>6. DOMAIN x = 1 .. Len(x) /\ DOMAIN y = 1 .. Len(y)
    BY <2>2, <2>3, LineTypes
  <2> QED BY <2>1, <2>2, <2>3, <2>4, <2>5, <2>6
<1>11. Copied'
  <2> SUFFICES ASSUME NEW g \in Files
               PROVE  /\ at'[g][1] \in Chunks => at'[g][2] <= Len(Input(g)[at'[g][1]]) + 1
                      /\ at'[g][1] \notin Chunks => at'[g][2] = 1
                      /\ NoCut(g)' => /\ Len(Output(g)') = LinesDone(g)'
                                      /\ \A i \in 1 .. Len(Output(g)') :
                                             (Output(g)')[i] = Complete(g)[i]
    BY <1>2, <1>5 DEF Copied
  <2>1. CASE g # f
    <3>1. Output(g)' = Output(g) /\ at'[g] = at[g]
      BY <1>4, <2>1
    <3> QED BY <1>1, <1>2, <3>1 DEF Copied, NoCut, LinesDone
  <2>2. CASE g = f
    <3>1. /\ at'[f][1] \in Chunks => at'[f][2] <= Len(Input(f)[at'[f][1]]) + 1
          /\ at'[f][1] \notin Chunks => at'[f][2] = 1
      BY <1>3, <1>4
    <3>2. ASSUME NoCut(f)'
          PROVE  /\ Len(Output(f)') = LinesDone(f)'
                 /\ \A i \in 1 .. Len(Output(f)') : (Output(f)')[i] = Complete(f)[i]
      <4>1. lines = Batch(f)
        <5>1. \A i \in 1 .. Len(lines) : lines[i].kind # "cut"
          BY <1>10, <3>2 DEF NoCut
        <5> QED BY <5>1
      <4>2. NoCut(f)
        BY <1>10, <3>2 DEF NoCut
      <4>3. /\ Len(Output(f)) = LinesDone(f)
            /\ \A i \in 1 .. Len(Output(f)) : Output(f)[i] = Complete(f)[i]
        BY <1>1, <4>2 DEF Copied
      <4>4. PICK n, m, p, u, c, s :
                /\ n = Len(Output(f)) /\ m = Len(lines) /\ p = at[f][2] /\ c = at[f][1]
                /\ u = LenTo(f, StartOf(c)) /\ s = Input(f)[c]
        OBVIOUS
      <4>5. table \in Tables /\ c \in Chunks
        BY <1>1, <1>3, <4>4 DEF WriteTyped
      <4>6. Begin(c) = StartOf(c) /\ StartOf(c) \in 0 .. total
        <5>1. Begin(c) = StartOf(c) /\ c \in 0 .. thread_count
          BY <4>5, ChunkFacts
        <5> QED BY <4>5, <5>1, ChunkFacts
      <4>7. n \in Nat /\ m \in Nat /\ p \in Nat /\ p >= 1 /\ u \in Nat /\ Len(s) \in Nat
        <5>1. u \in Nat
          BY <4>4, <4>5, <4>6, CompleteFacts
        <5>2. p \in Nat /\ p >= 1
          BY <1>1, <4>4, FileTypes
        <5>3. Len(s) \in Nat
          BY <1>1, <4>4, <4>5, FileTypes
        <5> QED BY <1>10, <4>4, <5>1, <5>2, <5>3
      <4>8. n = u + p - 1 /\ p + m <= Len(s) + 1
        BY <1>3, <4>1, <4>3, <4>4, <4>6 DEF LinesDone
      <4>9. Len(Output(f)') = n + m /\ LinesDone(f)' = u + (p + m) - 1
        <5>1. LinesDone(f)' = LenTo(f, Begin(at'[f][1])) + at'[f][2] - 1
          BY <1>2 DEF LinesDone
        <5> QED BY <1>4, <1>10, <4>1, <4>4, <4>6, <5>1
      <4>10. n + m = u + (p + m) - 1
        BY <4>7, <4>8
      <4>11. ASSUME NEW i \in 1 .. n + m PROVE (Output(f)')[i] = Complete(f)[i]
        <5>1. CASE i <= n
          <6>1. i \in 1 .. n
            BY <4>7, <5>1
          <6> QED BY <1>10, <4>3, <4>4, <6>1
        <5>2. CASE ~ (i <= n)
          <6>1. PICK j : j = i - n
            OBVIOUS
          <6>2. j \in 1 .. m /\ n + j = i /\ p - 1 + j \in 1 .. Len(s) /\ u + (p - 1 + j) = i
            BY <4>7, <4>8, <5>2, <6>1
          <6>3. (Output(f)')[i] = lines[j]
            BY <1>10, <4>4, <6>2
          <6>4. lines[j] = Adapted(f, c, s[p - 1 + j])
            BY <1>3, <4>1, <4>4, <6>2
          <6>5. ChunkHolds(f, c)
            <7>1. c <= c /\ at[f][1] <= c
              BY <4>4, <4>5, ChunkFacts
            <7> QED BY <1>1, <4>5, <7>1 DEF Held
          <6>6. Adapted(f, c, s[p - 1 + j]) = Complete(f)[u + (p - 1 + j)]
            BY <4>4, <6>2, <6>5 DEF ChunkHolds
          <6> QED BY <6>2, <6>3, <6>4, <6>6
        <5> QED BY <5>1, <5>2
      <4> QED BY <4>9, <4>10, <4>11
    <3> QED BY <2>2, <3>1, <3>2
  <2> QED BY <2>1, <2>2
<1>12. ASSUME NEW h
       PROVE  h \in Holes' <=>
                  \/ h \in Holes
                  \/ \E j \in 1 .. Len(lines) :
                         lines[j].kind = "cut" /\ h = <<f, Len(Output(f)) + j>>
  <2>1. ASSUME h \in Holes PROVE h \in Holes'
    <3>1. PICK g \in Files : \E i \in DOMAIN Output(g) : h = <<g, i>> /\ Output(g)[i].kind = "cut"
      BY <2>1, HoleFacts
    <3>2. PICK i \in DOMAIN Output(g) : h = <<g, i>> /\ Output(g)[i].kind = "cut"
      BY <3>1
    <3>3. i \in DOMAIN Output(g)' /\ (Output(g)')[i] = Output(g)[i]
      BY <1>4, <1>10, <3>2
    <3> QED BY <3>2, <3>3, HoleFacts
  <2>2. ASSUME NEW j \in 1 .. Len(lines), lines[j].kind = "cut", h = <<f, Len(Output(f)) + j>>
        PROVE  h \in Holes'
    <3>1. /\ Len(Output(f)) + j \in DOMAIN Output(f)'
          /\ (Output(f)')[Len(Output(f)) + j] = lines[j]
      BY <1>10
    <3> QED BY <2>2, <3>1, HoleFacts
  <2>3. ASSUME h \in Holes', h \notin Holes
        PROVE  \E j \in 1 .. Len(lines) :
                   lines[j].kind = "cut" /\ h = <<f, Len(Output(f)) + j>>
    <3>1. PICK g \in Files :
              \E i \in DOMAIN Output(g)' : h = <<g, i>> /\ (Output(g)')[i].kind = "cut"
      BY <2>3, HoleFacts
    <3>2. PICK i \in DOMAIN Output(g)' : h = <<g, i>> /\ (Output(g)')[i].kind = "cut"
      BY <3>1
    <3>3. g = f
      BY <1>4, <2>3, <3>2, HoleFacts
    <3>4. PICK n, m : n = Len(Output(f)) /\ m = Len(lines)
      OBVIOUS
    <3>5. n \in Nat /\ m \in Nat /\ i \in 1 .. n + m
      BY <1>10, <3>2, <3>3, <3>4
    <3>6. ~ (i <= n)
      <4> SUFFICES ASSUME i <= n PROVE FALSE
        OBVIOUS
      <4>1. i \in 1 .. n
        BY <3>5
      <4>2. i \in DOMAIN Output(f) /\ Output(f)[i].kind = "cut"
        BY <1>10, <3>2, <3>3, <3>4, <4>1
      <4> QED BY <2>3, <3>2, <3>3, <4>2, HoleFacts
    <3>7. PICK j : j = i - n
      OBVIOUS
    <3>8. j \in 1 .. m /\ n + j = i
      BY <3>5, <3>6, <3>7
    <3>9. (Output(f)')[n + j] = lines[j]
      BY <1>10, <3>4, <3>8
    <3> QED BY <3>2, <3>3, <3>4, <3>8, <3>9
  <2> QED BY <2>1, <2>2, <2>3
<1>13. Removed' = Removed
  <2>1. ASSUME NEW h PROVE h \in Removed' <=> h \in Removed
    <3>1. \A g \in Files : 0 .. at'[g][1] - 1 = 0 .. at[g][1] - 1
      BY <1>4
    <3>2. h \in Removed <=> \E g \in Files : \E b \in 0 .. at[g][1] - 1 : h = <<g, b>>
      BY HoleFacts
    <3>3. h \in Removed' <=> \E g \in Files : \E b \in 0 .. at'[g][1] - 1 : h = <<g, b>>
      BY HoleFacts
    <3> QED BY Zenon, <3>1, <3>2, <3>3
  <2> QED BY Zenon, <2>1
<1>14. OffsetsCounted' /\ Ended'
  BY DEF OffsetsCounted, Ended
<1> QED BY <1>6, <1>7, <1>8, <1>9, <1>11, <1>12, <1>13, <1>14

LEMMA MergeKeeps ==
    ASSUME WInv, NEW f \in Files, MergeLines(f)
    PROVE  WInv'
<1>1. /\ phase = "merge" /\ LineLeft(f) /\ Put(f, Batch(f)) /\ full' = full /\ full \in BOOLEAN
      /\ UNCHANGED <<table, phase, next, part, part_extra, ext_offset>>
  BY DEF MergeLines, WInv, WriteTyped
<1>2. Batch(f) \in Seq(Uncut) /\ Batch(f) \in Seq(Lines)
  BY <1>1, BatchFacts, UncutLines DEF WInv
<1>3. /\ WriteTyped' /\ Written' /\ OffsetsCounted' /\ Counted' /\ Held' /\ Copied' /\ Ended'
      /\ \A h : h \in Holes' <=>
             \/ h \in Holes
             \/ \E j \in 1 .. Len(Batch(f)) :
                    Batch(f)[j].kind = "cut" /\ h = <<f, Len(Output(f)) + j>>
      /\ Removed' = Removed
  <2>1. full' \in BOOLEAN
    BY <1>1
  <2> QED BY <1>1, <1>2, <2>1, GrowthKeeps
<1>4. \A j \in 1 .. Len(Batch(f)) : Batch(f)[j].kind # "cut"
  <2>1. \A j \in 1 .. Len(Batch(f)) : Batch(f)[j] \in Uncut
    BY <1>2, LenProperties
  <2> QED BY <2>1 DEF Uncut
<1>5. Holes' = Holes
  <2>1. \A h : h \in Holes' <=> h \in Holes
    BY <1>3, <1>4
  <2> QED BY <2>1
<1>6. Room'
  BY <1>1, <1>3, <1>5 DEF WInv, Room
<1> QED BY <1>3, <1>6 DEF WInv

LEMMA ShortKeeps ==
    ASSUME WInv, NEW f \in Files, ShortWrite(f)
    PROVE  WInv'
<1>1. /\ phase = "merge" /\ LineLeft(f) /\ ~ full /\ full' = TRUE
      /\ UNCHANGED <<table, phase, next, part, part_extra, ext_offset>>
  BY DEF ShortWrite, SpaceLeft
<1>2. PICK n \in 1 .. Len(Batch(f)) :
          Put(f, Append(SubSeq(Batch(f), 1, n - 1), [kind |-> "cut", len |-> Batch(f)[n].len - 1]))
  BY DEF ShortWrite
<1>3. PICK b : b = Batch(f)
  OBVIOUS
<1>4. /\ b \in Seq(Uncut) /\ Len(b) \in Nat /\ \A i \in 1 .. Len(b) : b[i] \in Uncut
  BY <1>1, <1>3, BatchFacts, LenProperties DEF WInv
<1> DEFINE hole  == [kind |-> "cut", len |-> b[n].len - 1]
           whole == SubSeq(b, 1, n - 1)
           lines == Append(whole, hole)
<1>5. hole \in Lines /\ hole.kind = "cut"
  <2>1. b[n] \in Uncut
    BY <1>3, <1>4
  <2>2. b[n].len \in Nat \ {0}
    BY <2>1 DEF Uncut
  <2>3. PICK l : l = b[n].len
    OBVIOUS
  <2>4. l - 1 \in Nat
    BY <2>2, <2>3
  <2> QED BY <2>3, <2>4 DEF Lines
<1>6. /\ whole \in Seq(Lines) /\ Len(whole) = n - 1
      /\ \A i \in 1 .. n - 1 : whole[i].kind # "cut"
  <2>1. n \in Nat /\ n >= 1 /\ n - 1 \in Int /\ 1 \in Int /\ \A i \in 1 .. n - 1 : i \in 1 .. Len(b)
    BY <1>3, <1>4
  <2>2. \A i \in 1 .. n - 1 : b[i] \in Uncut
    BY <1>4, <2>1
  <2>3. /\ whole \in Seq(Uncut)
        /\ Len(whole) = IF 1 <= n - 1 THEN (n - 1) - 1 + 1 ELSE 0
        /\ \A i \in 1 .. (n - 1) - 1 + 1 : whole[i] = b[1 + i - 1]
    BY <2>1, <2>2, SubSeqProperties
  <2>4. Len(whole) = n - 1
    BY <2>1, <2>3
  <2>5. \A i \in 1 .. n - 1 : i \in 1 .. (n - 1) - 1 + 1 /\ 1 + i - 1 = i
    BY <2>1
  <2>6. \A i \in 1 .. n - 1 : whole[i] = b[i]
    BY <2>3, <2>5
  <2>7. \A i \in 1 .. n - 1 : whole[i].kind # "cut"
    BY <2>2, <2>6 DEF Uncut
  <2> QED BY <2>3, <2>4, <2>7, UncutLines
<1> HIDE DEF hole, whole
<1>7. /\ lines \in Seq(Lines) /\ Len(lines) = n /\ lines[n] = hole
      /\ \A i \in 1 .. n - 1 : lines[i] = whole[i]
  <2>1. PICK m : m = n - 1
    OBVIOUS
  <2>2. m \in Nat /\ n = m + 1
    BY <1>3, <1>4, <2>1
  <2>3. /\ lines \in Seq(Lines) /\ Len(lines) = Len(whole) + 1
        /\ lines[Len(whole) + 1] = hole
        /\ \A i \in 1 .. Len(whole) : lines[i] = whole[i]
    BY <1>5, <1>6
  <2> QED BY <1>6, <2>1, <2>2, <2>3
<1>8. Put(f, lines)
  BY <1>2, <1>3 DEF hole, whole
<1> HIDE DEF lines
<1>9. n \in Nat /\ n \in 1 .. Len(lines)
  BY <1>3, <1>4, <1>7
<1>10. /\ WriteTyped' /\ Written' /\ OffsetsCounted' /\ Counted' /\ Held' /\ Copied' /\ Ended'
       /\ \A h : h \in Holes' <=>
              \/ h \in Holes
              \/ \E j \in 1 .. Len(lines) :
                     lines[j].kind = "cut" /\ h = <<f, Len(Output(f)) + j>>
       /\ Removed' = Removed
  <2>1. full' \in BOOLEAN
    BY <1>1
  <2>2. \E i \in 1 .. Len(lines) : lines[i].kind = "cut"
    BY <1>5, <1>7, <1>9
  <2> QED BY <1>1, <1>7, <1>8, <2>1, <2>2, GrowthKeeps
<1>11. PICK h : h = <<f, Len(Output(f)) + n>>
  OBVIOUS
<1>12. Holes' = Holes \cup {h}
  <2>1. ASSUME NEW j \in 1 .. Len(lines), lines[j].kind = "cut" PROVE j = n
    <3>1. j # n => j \in 1 .. n - 1
      BY <1>7, <1>9
    <3> QED BY <1>6, <1>7, <2>1, <3>1
  <2>2. \A x : x \in Holes' <=> x \in Holes \/ x = h
    BY <1>5, <1>7, <1>9, <1>10, <1>11, <2>1
  <2> QED BY <2>2
<1>13. /\ IsFiniteSet(Holes) /\ IsFiniteSet(Removed) /\ Cardinality(Holes) <= Cardinality(Removed)
  BY <1>1 DEF WInv, Room
<1>14. /\ IsFiniteSet(Holes') /\ Cardinality(Holes') <= Cardinality(Holes) + 1
       /\ Cardinality(Holes) \in Nat /\ Cardinality(Removed) \in Nat /\ Cardinality(Holes') \in Nat
  <2>1. /\ IsFiniteSet(Holes \cup {h})
        /\ Cardinality(Holes \cup {h}) = IF h \in Holes THEN Cardinality(Holes) ELSE Cardinality(Holes) + 1
    BY <1>13, FS_AddElement
  <2>2. Cardinality(Holes) \in Nat /\ Cardinality(Removed) \in Nat
    BY <1>13, FS_CardinalityType
  <2>3. PICK x, y : x = Cardinality(Holes) /\ y = Cardinality(Holes')
    OBVIOUS
  <2>4. x \in Nat /\ (y = x \/ y = x + 1)
    BY <1>12, <2>1, <2>2, <2>3
  <2>5. y \in Nat /\ y <= x + 1
    BY <2>4
  <2> QED BY <1>12, <2>1, <2>2, <2>3, <2>5
<1>15. Room'
  <2>1. PICK x, y, z : x = Cardinality(Holes) /\ y = Cardinality(Holes') /\ z = Cardinality(Removed)
    OBVIOUS
  <2>2. x \in Nat /\ y \in Nat /\ z \in Nat /\ x <= z /\ y <= x + 1
    BY <1>13, <1>14, <2>1
  <2>3. y <= 1 + z
    BY <2>2
  <2> QED BY <1>1, <1>10, <1>13, <1>14, <2>1, <2>3 DEF Room
<1> QED BY <1>10, <1>15 DEF WInv

(* A chunk file is removed.                                                *)
LEMMA NextChunkKeeps ==
    ASSUME WInv, NEW f \in Files, NextChunk(f)
    PROVE  WInv'
<1> DEFINE c == at[f][1]
<1>1. WriteTyped /\ Written /\ Counted /\ Held /\ Copied /\ Room
  BY DEF WInv
<1>2. /\ phase = "merge" /\ phase' = "merge" /\ c # thread_count /\ ~ (at[f][2] <= Len(Input(f)[c]))
      /\ at' = [at EXCEPT ![f] = <<c + 1, 1>>]
      /\ part' = (IF f[2] THEN part ELSE [part EXCEPT ![f[1]][c] = <<>>])
      /\ part_extra' = (IF f[2] THEN [part_extra EXCEPT ![f[1]][c] = <<>>] ELSE part_extra)
      /\ full' = FALSE /\ table' = table /\ next' = next /\ ext_offset' = ext_offset
      /\ merged' = merged /\ extra' = extra
  BY DEF NextChunk, LineLeft, Merged
<1>3. /\ total' = total /\ thread_count' = thread_count /\ Chunks' = Chunks
      /\ \A b : StartOf(b)' = StartOf(b) /\ EndOf(b)' = EndOf(b) /\ Begin(b)' = Begin(b)
      /\ \A d, n : BytesTo(d, n)' = BytesTo(d, n)
      /\ \A g, n : LenTo(g, n)' = LenTo(g, n)
      /\ \A g : Complete(g)' = Complete(g)
      /\ \A g, b, line : Adapted(g, b, line)' = Adapted(g, b, line)
  BY <1>2, Steady
<1>4. /\ table \in Tables /\ f = <<f[1], f[2]>> /\ f[1] \in Databases /\ f[2] \in BOOLEAN
      /\ c \in Chunks /\ Len(Input(f)[c]) \in Nat /\ at[f][2] \in Nat
  <2>1. c \in Chunks
    BY <1>1, <1>2, FileTypes
  <2> QED BY <1>1, <2>1, FileTypes DEF WriteTyped
<1>5. /\ c \in Nat /\ c + 1 \in 0 .. thread_count /\ Begin(c) = StartOf(c) /\ Begin(c + 1) = EndOf(c)
      /\ thread_count \in Nat /\ Chunks = 0 .. thread_count - 1
      /\ \A b \in Chunks : b \in Nat
  BY <1>4, ChunkFacts
<1>6. at'[f] = <<c + 1, 1>> /\ \A g \in Files : g # f => at'[g] = at[g]
  BY <1>1, <1>2 DEF WriteTyped
<1>7. at' \in [Files -> (0 .. thread_count) \X (Nat \ {0})]
  <2>1. <<c + 1, 1>> \in (0 .. thread_count) \X (Nat \ {0})
    BY <1>5
  <2>2. at \in [Files -> (0 .. thread_count) \X (Nat \ {0})]
    BY <1>1 DEF WriteTyped
  <2> HIDE DEF c
  <2> QED BY <1>2, <2>1, <2>2
<1>8. /\ part' \in [Databases -> [Chunks -> Seq(Uncut)]]
      /\ part_extra' \in [Databases -> [Chunks -> Seq(Uncut)]]
  <2>1. <<>> \in Seq(Uncut)
    OBVIOUS
  <2>2. /\ part \in [Databases -> [Chunks -> Seq(Uncut)]]
        /\ part_extra \in [Databases -> [Chunks -> Seq(Uncut)]]
    BY <1>1 DEF WriteTyped
  <2> HIDE DEF c
  <2> QED BY <1>2, <1>4, <2>1, <2>2
<1>9. ASSUME NEW g \in Files, NEW b \in Chunks, g # f \/ b # c
      PROVE  Input(g)'[b] = Input(g)[b]
  <2>1. g = <<g[1], g[2]>> /\ g[1] \in Databases /\ g[2] \in BOOLEAN
    BY <1>1, FileTypes
  <2>2. g # f /\ g[2] = f[2] => g[1] # f[1]
    BY <1>4, <2>1
  <2>3. /\ part \in [Databases -> [Chunks -> Seq(Uncut)]]
        /\ part_extra \in [Databases -> [Chunks -> Seq(Uncut)]]
    BY <1>1 DEF WriteTyped
  <2> HIDE DEF c
  <2>4. part'[g[1]][b] = part[g[1]][b] \/ (g[1] = f[1] /\ b = c /\ ~ f[2])
    BY <1>2, <1>4, <2>1, <2>3
  <2>5. part_extra'[g[1]][b] = part_extra[g[1]][b] \/ (g[1] = f[1] /\ b = c /\ f[2])
    BY <1>2, <1>4, <2>1, <2>3
  <2>6. CASE g[2]
    <3>1. Input(g)'[b] = part_extra'[g[1]][b] /\ Input(g)[b] = part_extra[g[1]][b]
      BY <2>6 DEF Input
    <3> QED BY <1>4, <1>9, <2>1, <2>2, <2>5, <2>6, <3>1
  <2>7. CASE ~ g[2]
    <3>1. Input(g)'[b] = part'[g[1]][b] /\ Input(g)[b] = part[g[1]][b]
      BY <2>7 DEF Input
    <3> QED BY <1>4, <1>9, <2>1, <2>2, <2>4, <2>7, <3>1
  <2> QED BY <2>6, <2>7
<1>10. \A g \in Files : Output(g)' = Output(g)
  BY <1>2 DEF Output
<1>11. WriteTyped'
  BY <1>1, <1>2, <1>3, <1>7, <1>8 DEF WriteTyped
<1>12. Written'
  BY <1>1, <1>2, <1>3 DEF Written
<1>13. OffsetsCounted' /\ Ended'
  BY <1>2 DEF OffsetsCounted, Ended
<1>14. Counted'
  BY <1>1, <1>2, <1>3 DEF Counted
<1>15. Held'
  <2> SUFFICES ASSUME NEW g \in Files, NEW b \in Chunks, at'[g][1] <= b PROVE ChunkHolds(g, b)'
    BY <1>3 DEF Held
  <2>1. at[g][1] <= b /\ (g # f \/ b # c)
    <3>1. CASE g = f
      <4>1. at'[f][1] = c + 1
        BY <1>6
      <4>2. PICK x, y : x = c /\ y = b
        OBVIOUS
      <4>3. x \in Nat /\ y \in Nat /\ x + 1 <= y
        BY <1>5, <3>1, <4>1, <4>2
      <4>4. x <= y /\ x # y
        BY <4>3
      <4> QED BY <3>1, <4>2, <4>4
    <3>2. CASE g # f
      BY <1>6, <3>2
    <3> QED BY <3>1, <3>2
  <2>2. ChunkHolds(g, b)
    BY <1>1, <1>2, <2>1 DEF Held
  <2>3. Input(g)'[b] = Input(g)[b]
    BY <1>9, <2>1
  <2> QED BY <1>2, <2>2, <2>3, HoldsStays
<1>16. Copied'
  <2> SUFFICES ASSUME NEW g \in Files
               PROVE  /\ at'[g][1] \in Chunks => at'[g][2] <= Len(Input(g)'[at'[g][1]]) + 1
                      /\ at'[g][1] \notin Chunks => at'[g][2] = 1
                      /\ NoCut(g) =>
                            /\ Len(Output(g)) = LenTo(g, Begin(at'[g][1])) + at'[g][2] - 1
                            /\ \A i \in 1 .. Len(Output(g)) : Output(g)[i] = Complete(g)[i]
    BY <1>3, <1>10 DEF Copied, LinesDone, NoCut
  <2>1. CASE g # f
    <3>1. at'[g] = at[g] /\ \A b \in Chunks : Input(g)'[b] = Input(g)[b]
      BY <1>6, <1>9, <2>1
    <3> QED BY SMTT(30), <1>1, <1>2, <3>1 DEF Copied, LinesDone
  <2>2. CASE g = f
    <3>1. at'[g][1] = c + 1 /\ at'[g][2] = 1
      BY <1>6, <2>2
    <3>2. ASSUME c + 1 \in Chunks PROVE 1 <= Len(Input(g)'[c + 1]) + 1
      <4>1. Input(g)'[c + 1] \in Seq(Uncut)
        <5>1. g[1] \in Databases
          BY <1>4, <2>2
        <5> HIDE DEF c
        <5> QED BY <1>8, <3>2, <5>1 DEF Input
      <4>2. Len(Input(g)'[c + 1]) \in Nat
        BY <4>1, LenProperties
      <4> QED BY <4>2
    <3>3. ASSUME NoCut(f)
          PROVE  /\ Len(Output(f)) = LenTo(f, Begin(c + 1)) + 1 - 1
                 /\ \A i \in 1 .. Len(Output(f)) : Output(f)[i] = Complete(f)[i]
      <4>1. /\ Len(Output(f)) = LenTo(f, StartOf(c)) + at[f][2] - 1
            /\ \A i \in 1 .. Len(Output(f)) : Output(f)[i] = Complete(f)[i]
            /\ at[f][2] <= Len(Input(f)[c]) + 1
        BY <1>1, <1>2, <1>4, <1>5, <3>3 DEF Copied, LinesDone
      <4>2. ChunkHolds(f, c)
        <5>1. at[f][1] <= c
          BY <1>5
        <5> QED BY <1>1, <1>2, <1>4, <5>1 DEF Held
      <4>3. Len(Input(f)[c]) = LenTo(f, EndOf(c)) - LenTo(f, StartOf(c))
        BY <1>1, <1>2, <1>4, <4>2 DEF ChunkHolds, Written
      <4>4. PICK n, m, p, u, v : /\ n = Len(Output(f)) /\ m = Len(Input(f)[c]) /\ p = at[f][2]
                                 /\ u = LenTo(f, StartOf(c)) /\ v = LenTo(f, EndOf(c))
        OBVIOUS
      <4>5. m \in Nat /\ p \in Nat /\ u \in Nat /\ v \in Nat
        <5>1. c \in 0 .. thread_count
          BY <1>5, <1>4
        <5>2. StartOf(c) \in 0 .. total /\ EndOf(c) \in 0 .. total
          <6> HIDE DEF c
          <6> QED BY <1>4, <1>5, <5>1, ChunkFacts
        <5> QED BY <1>4, <4>4, <5>2, CompleteFacts
      <4>6. n = u + p - 1 /\ p <= m + 1 /\ ~ (p <= m) /\ m = v - u
        BY <1>2, <4>1, <4>3, <4>4
      <4>7. n = v + 1 - 1
        BY <4>5, <4>6
      <4> QED BY <1>5, <4>1, <4>4, <4>7
    <3> QED BY <2>2, <3>1, <3>2, <3>3
  <2> QED BY <2>1, <2>2
<1>17. Room'
  <2>1. Holes' = Holes
    <3>1. \A h : h \in Holes <=> h \in Holes'
      BY <1>10, HoleFacts
    <3> QED BY <3>1
  <2>2. Removed' = Removed \cup {<<f, c>>} /\ <<f, c>> \notin Removed
    <3>1. ASSUME NEW b PROVE b \in 0 .. (c + 1) - 1 <=> b \in 0 .. c - 1 \/ b = c
      <4> HIDE DEF c
      <4> QED BY <1>5
    <3>2. at[f][1] = c /\ at'[f][1] = c + 1
      BY <1>6
    <3>3. c \notin 0 .. c - 1
      <4> HIDE DEF c
      <4> QED BY <1>5
    <3> HIDE DEF c
    <3>4. \A h : h \in Removed' <=> h \in Removed \/ h = <<f, c>>
      <4> TAKE h
      <4>1. ASSUME h \in Removed' PROVE h \in Removed \/ h = <<f, c>>
        <5>1. PICK g \in Files : \E b \in 0 .. at'[g][1] - 1 : h = <<g, b>>
          BY <4>1, HoleFacts
        <5>2. PICK b \in 0 .. at'[g][1] - 1 : h = <<g, b>>
          BY <5>1
        <5>3. CASE g = f
          BY <3>1, <3>2, <5>2, <5>3, HoleFacts
        <5>4. CASE g # f
          BY <1>6, <5>2, <5>4, HoleFacts
        <5> QED BY <5>3, <5>4
      <4>2. ASSUME h \in Removed PROVE h \in Removed'
        <5>1. PICK g \in Files : \E b \in 0 .. at[g][1] - 1 : h = <<g, b>>
          BY <4>2, HoleFacts
        <5>2. PICK b \in 0 .. at[g][1] - 1 : h = <<g, b>>
          BY <5>1
        <5>3. CASE g = f
          BY <3>1, <3>2, <5>2, <5>3, HoleFacts
        <5>4. CASE g # f
          BY <1>6, <5>2, <5>4, HoleFacts
        <5> QED BY <5>3, <5>4
      <4>3. <<f, c>> \in Removed'
        BY <3>1, <3>2, HoleFacts
      <4> QED BY <4>1, <4>2, <4>3
    <3>5. <<f, c>> \notin Removed
      <4> SUFFICES ASSUME <<f, c>> \in Removed PROVE FALSE
        OBVIOUS
      <4>1. PICK g \in Files : \E b \in 0 .. at[g][1] - 1 : <<f, c>> = <<g, b>>
        BY HoleFacts
      <4> QED BY <3>2, <3>3, <4>1
    <3> QED BY <3>4, <3>5
  <2>3. /\ IsFiniteSet(Holes) /\ IsFiniteSet(Removed)
        /\ Cardinality(Holes) <= 1 + Cardinality(Removed)
    BY <1>1 DEF Room
  <2>4. IsFiniteSet(Removed') /\ Cardinality(Removed') = Cardinality(Removed) + 1
    <3>1. /\ IsFiniteSet(Removed \cup {<<f, c>>})
          /\ Cardinality(Removed \cup {<<f, c>>}) =
                IF <<f, c>> \in Removed THEN Cardinality(Removed) ELSE Cardinality(Removed) + 1
      BY <2>3, FS_AddElement
    <3> QED BY <2>2, <3>1
  <2>5. PICK x, y, z : x = Cardinality(Holes) /\ y = Cardinality(Removed) /\ z = Cardinality(Removed')
    OBVIOUS
  <2>6. x \in Nat /\ y \in Nat /\ x <= 1 + y /\ z = y + 1
    BY <2>3, <2>4, <2>5, FS_CardinalityType
  <2>7. x <= 1 + z /\ x <= z
    BY <2>6
  <2> QED BY <2>1, <2>3, <2>4, <2>5, <2>7 DEF Room
<1> QED BY <1>11, <1>12, <1>13, <1>14, <1>15, <1>16, <1>17 DEF WInv

LEMMA AllMergedKeeps ==
    ASSUME WInv, AllMerged
    PROVE  WInv'
<1>1. WriteTyped /\ Written /\ Counted /\ Held /\ Copied /\ Room
  BY DEF WInv
<1>2. /\ phase = "merge" /\ phase' = "done"
      /\ table' = table /\ next' = next /\ part' = part /\ part_extra' = part_extra
      /\ ext_offset' = ext_offset /\ merged' = merged /\ extra' = extra /\ at' = at /\ full' = full
      /\ \A f \in DOMAIN at : at[f][1] = thread_count
  BY DEF AllMerged, Merged
<1>3. /\ total' = total /\ thread_count' = thread_count /\ Chunks' = Chunks
      /\ \A b : StartOf(b)' = StartOf(b) /\ EndOf(b)' = EndOf(b)
      /\ \A f : Complete(f)' = Complete(f)
  BY <1>2, Steady
<1>4. table \in Tables /\ DOMAIN at = Files
  BY <1>1 DEF WriteTyped
<1>5. \A f \in Files : Output(f)' = Output(f)
  BY <1>2 DEF Output
<1>6. WriteTyped'
  <2>1. phase' \in {"write", "merge", "done", "panicked"}
    BY <1>2
  <2> QED BY <1>1, <1>2, <1>3, <2>1 DEF WriteTyped
<1>7. Ended'
  <2> SUFFICES ASSUME NEW f \in Files, NoCut(f) PROVE Output(f) = Complete(f)
    BY <1>3, <1>5 DEF Ended, NoCut
  <2>1. at[f][1] = thread_count /\ at[f][1] \notin Chunks
    BY <1>1, <1>2, <1>4, FileTypes
  <2>2. /\ at[f][2] = 1
        /\ Len(Output(f)) = LenTo(f, Begin(thread_count)) + 1 - 1
        /\ \A i \in 1 .. Len(Output(f)) : Output(f)[i] = Complete(f)[i]
    BY <1>1, <1>2, <2>1 DEF Copied, LinesDone
  <2>3. Begin(thread_count) = total /\ total \in Nat /\ total \in 0 .. total
    <3>1. total \in Nat
      BY <1>4, ChunkFacts
    <3> QED BY <1>4, <3>1, ChunkFacts
  <2>4. PICK n, m, x, y : /\ n = Len(Output(f)) /\ m = LenTo(f, total)
                          /\ x = Output(f) /\ y = Complete(f)
    OBVIOUS
  <2>5. m \in Nat /\ Len(y) = m /\ y \in Seq(Lines) /\ x \in Seq(Lines)
    BY <1>1, <1>4, <2>3, <2>4, CompleteFacts, FileTypes
  <2>6. n = m
    BY <2>2, <2>3, <2>4, <2>5
  <2>7. x = y
    BY <2>2, <2>4, <2>5, <2>6, SeqEqual
  <2> QED BY <2>4, <2>7
<1>8. Room'
  BY <1>1, <1>2, <1>5, RoomStays
<1> QED BY <1>2, <1>6, <1>7, <1>8 DEF WInv, Written, OffsetsCounted, Counted, Held, Copied

LEMMA PanicKeeps ==
    ASSUME WInv, Panic
    PROVE  WInv'
<1>1. WriteTyped /\ Room
  BY DEF WInv
<1>2. /\ phase' = "panicked"
      /\ table' = table /\ next' = next /\ part' = part /\ part_extra' = part_extra
      /\ ext_offset' = ext_offset /\ merged' = merged /\ extra' = extra /\ at' = at /\ full' = full
  BY DEF Panic
<1>3. /\ total' = total /\ thread_count' = thread_count /\ Chunks' = Chunks
      /\ \A b : StartOf(b)' = StartOf(b) /\ EndOf(b)' = EndOf(b)
  BY <1>2, Steady
<1>4. \A f \in Files : Output(f)' = Output(f)
  BY <1>2 DEF Output
<1>5. WriteTyped'
  <2>1. phase' \in {"write", "merge", "done", "panicked"}
    BY <1>2
  <2> QED BY <1>1, <1>2, <1>3, <2>1 DEF WriteTyped
<1>6. Room'
  BY <1>1, <1>2, <1>4, RoomStays
<1> QED BY <1>2, <1>5, <1>6 DEF WInv, Written, OffsetsCounted, Counted, Held, Copied, Ended
-----------------------------------------------------------------------------

LEMMA WriteBegins ==
    ASSUME WriteInit
    PROVE  WInv
<1>1. /\ table \in Tables /\ phase = "write" /\ next = [c \in Chunks |-> StartOf(c)]
      /\ part = [d \in Databases |-> [c \in Chunks |-> <<>>]] /\ part_extra = part
      /\ ext_offset = [d \in Databases |-> [c \in Chunks |-> 0]]
      /\ merged = [d \in Databases |-> <<>>] /\ extra = merged
      /\ at = [f \in Files |-> <<0, 1>>] /\ full = FALSE
  BY DEF WriteInit, Files
<1>2. /\ \A c \in Chunks : StartOf(c) \in Nat /\ StartOf(c) <= StartOf(c) /\ StartOf(c) <= EndOf(c)
      /\ 0 \in 0 .. thread_count /\ thread_count \in Nat /\ 0 \in Chunks /\ Begin(0) = 0
  <2>1. thread_count \in Nat /\ 0 \in Chunks /\ Begin(0) = 0
    BY <1>1, ChunkFacts
  <2>2. 0 \in 0 .. thread_count
    BY <2>1
  <2>3. ASSUME NEW c \in Chunks
        PROVE  StartOf(c) \in Nat /\ StartOf(c) <= StartOf(c) /\ StartOf(c) <= EndOf(c)
    <3>1. StartOf(c) \in Nat /\ StartOf(c) <= EndOf(c)
      BY <1>1, ChunkFacts
    <3> QED BY <3>1
  <2> QED BY <2>1, <2>2, <2>3
<1>3. <<>> \in Seq(Uncut) /\ <<>> \in Seq(Lines) /\ Len(<<>>) = 0 /\ 0 \in Nat /\ 1 .. 0 = {}
  OBVIOUS
<1>4. WriteTyped
  <2>1. <<0, 1>> \in (0 .. thread_count) \X (Nat \ {0})
    BY <1>2
  <2>2. at \in [Files -> (0 .. thread_count) \X (Nat \ {0})]
    BY <1>1, <2>1
  <2>3. /\ part \in [Databases -> [Chunks -> Seq(Uncut)]]
        /\ part_extra \in [Databases -> [Chunks -> Seq(Uncut)]]
        /\ merged \in [Databases -> Seq(Lines)] /\ extra \in [Databases -> Seq(Lines)]
    BY <1>1, <1>3
  <2>4. next \in [Chunks -> Nat] /\ \A c \in Chunks : StartOf(c) <= next[c] /\ next[c] <= EndOf(c)
    BY <1>1, <1>2
  <2>5. ext_offset \in [Databases -> [Chunks -> Nat]] /\ full \in BOOLEAN
        /\ phase \in {"write", "merge", "done", "panicked"}
    BY <1>1
  <2> QED BY <1>1, <2>2, <2>3, <2>4, <2>5 DEF WriteTyped
<1>5. ASSUME NEW f \in Files
      PROVE  /\ Output(f) = <<>> /\ at[f] = <<0, 1>> /\ at[f][1] = 0 /\ at[f][2] = 1
             /\ \A c \in Chunks : Input(f)[c] = <<>>
  <2>1. f[1] \in Databases
    BY DEF Files
  <2> QED BY <1>1, <2>1 DEF Output, Input
<1>6. Written
  BY <1>1, <1>5 DEF Written
<1>7. Bytes(<<>>) = 0
  <2>1. Bytes(<<>>) = Offset(<<>>, 0 + 1) /\ 0 + 1 = 1
    BY <1>3 DEF Bytes
  <2> QED BY <1>3, <2>1, OffsetStep
<1>8. OffsetsCounted
  BY <1>1, <1>7 DEF OffsetsCounted
<1>9. Counted
  <2> SUFFICES ASSUME NEW d \in Databases, NEW c \in Chunks
               PROVE  0 + BytesTo(d, StartOf(c)) = BytesTo(d, StartOf(c))
    BY <1>1 DEF Counted
  <2>1. StartOf(c) = Begin(c) /\ c \in 0 .. thread_count
    BY <1>1, ChunkFacts
  <2>2. StartOf(c) \in 0 .. total
    BY <1>1, <2>1, ChunkFacts
  <2>3. BytesTo(d, StartOf(c)) \in Nat
    BY <1>1, <2>2, BytesToType
  <2> QED BY <2>3
<1>10. Held
  <2> SUFFICES ASSUME NEW f \in Files, NEW c \in Chunks PROVE ChunkHolds(f, c)
    BY DEF Held
  <2>1. StartOf(c) = Begin(c) /\ c \in 0 .. thread_count
    BY <1>1, ChunkFacts
  <2>2. StartOf(c) \in 0 .. total
    BY <1>1, <2>1, ChunkFacts
  <2>3. LenTo(f, StartOf(c)) \in Nat
    BY <1>1, <2>2, CompleteFacts
  <2>4. 0 = LenTo(f, StartOf(c)) - LenTo(f, StartOf(c))
    BY <2>3
  <2>5. next[c] = StartOf(c) /\ Input(f)[c] = <<>>
    BY <1>1, <1>5
  <2> QED BY <1>3, <2>4, <2>5 DEF ChunkHolds
<1>11. Copied
  <2> SUFFICES ASSUME NEW f \in Files
               PROVE  /\ at[f][1] \in Chunks => at[f][2] <= Len(Input(f)[at[f][1]]) + 1
                      /\ at[f][1] \notin Chunks => at[f][2] = 1
                      /\ Len(Output(f)) = LinesDone(f)
                      /\ \A i \in 1 .. Len(Output(f)) : Output(f)[i] = Complete(f)[i]
    BY DEF Copied
  <2>1. LinesDone(f) = 0 + 1 - 1
    BY <1>1, <1>2, <1>5, CompleteFacts DEF LinesDone
  <2>2. 0 = 0 + 1 - 1 /\ 1 <= 0 + 1
    OBVIOUS
  <2> QED BY <1>2, <1>3, <1>5, <2>1, <2>2
<1>12. Ended
  BY <1>1 DEF Ended
<1>13. Room
  <2>1. Holes = {}
    <3>1. \A h : h \notin Holes
      BY <1>3, <1>5, HoleFacts
    <3> QED BY <3>1
  <2>2. Removed = {}
    <3>1. 0 .. 0 - 1 = {}
      OBVIOUS
    <3>2. \A h : h \notin Removed
      BY <1>5, <3>1, HoleFacts
    <3> QED BY <3>2
  <2>3. IsFiniteSet({}) /\ Cardinality({}) = 0 /\ 0 <= 1 + 0 /\ 0 <= 0
    BY FS_EmptySet
  <2> QED BY <2>1, <2>2, <2>3 DEF Room
<1> QED BY <1>4, <1>6, <1>8, <1>9, <1>10, <1>11, <1>12, <1>13 DEF WInv

LEMMA WriteKeeps ==
    ASSUME WInv, [WriteNext]_writeVars
    PROVE  WInv'
<1>1. DOMAIN at = Files
  BY DEF WInv, WriteTyped
<1>2. ASSUME NEW c \in Chunks, WriteRecord(c) PROVE WInv'
  BY <1>2, RecordKeeps
<1>3. CASE WritersJoined
  BY <1>3, JoinKeeps
<1>4. ASSUME NEW f \in DOMAIN at, MergeLines(f) PROVE WInv'
  BY <1>1, <1>4, MergeKeeps
<1>5. ASSUME NEW f \in DOMAIN at, ShortWrite(f) PROVE WInv'
  BY <1>1, <1>5, ShortKeeps
<1>6. ASSUME NEW f \in DOMAIN at, NextChunk(f) PROVE WInv'
  BY <1>1, <1>6, NextChunkKeeps
<1>7. CASE AllMerged
  BY <1>7, AllMergedKeeps
<1>8. CASE Panic
  BY <1>8, PanicKeeps
<1>9. CASE UNCHANGED writeVars
  <2>1. /\ table' = table /\ phase' = phase /\ next' = next /\ part' = part
        /\ part_extra' = part_extra /\ ext_offset' = ext_offset /\ merged' = merged
        /\ extra' = extra /\ at' = at /\ full' = full
    BY <1>9 DEF writeVars
  <2>2. /\ total' = total /\ thread_count' = thread_count /\ Chunks' = Chunks
        /\ \A b : StartOf(b)' = StartOf(b) /\ EndOf(b)' = EndOf(b) /\ Begin(b)' = Begin(b)
        /\ \A d, n : BytesTo(d, n)' = BytesTo(d, n)
        /\ \A f, n : LenTo(f, n)' = LenTo(f, n)
        /\ \A f : Complete(f)' = Complete(f)
    BY <2>1, Steady
  <2>3. \A f \in Files : Output(f)' = Output(f) /\ Input(f)' = Input(f)
    BY <2>1 DEF Output, Input
  <2>4. WriteTyped'
    BY <2>1, <2>2 DEF WInv, WriteTyped
  <2>5. Written'
    BY <2>1, <2>2, <2>3 DEF WInv, Written
  <2>6. OffsetsCounted' /\ Counted'
    BY <2>1, <2>2 DEF WInv, OffsetsCounted, Counted
  <2>7. Held'
    <3> SUFFICES ASSUME phase \in {"write", "merge"}, NEW f \in Files, NEW c \in Chunks,
                        at[f][1] <= c
                 PROVE  ChunkHolds(f, c)'
      BY <2>1, <2>2 DEF Held
    <3>1. ChunkHolds(f, c)
      BY DEF WInv, Held
    <3> QED BY <2>1, <2>3, <3>1, HoldsStays
  <2>8. Copied'
    BY <2>1, <2>2, <2>3 DEF WInv, Copied, NoCut, LinesDone
  <2>9. Ended'
    BY <2>1, <2>2, <2>3 DEF WInv, Ended, NoCut
  <2>10. Room'
    BY <2>1, <2>3, RoomStays DEF WInv
  <2> QED BY <2>4, <2>5, <2>6, <2>7, <2>8, <2>9, <2>10 DEF WInv
<1> QED BY <1>2, <1>3, <1>4, <1>5, <1>6, <1>7, <1>8, <1>9 DEF WriteNext, Over

(* What is done and not cut is what it is to be.                           *)
LEMMA DoneIsComplete ==
    ASSUME WInv, NEW d \in Databases, Finished(d)
    PROVE  merged[d] = FinalFile(table, d) /\ extra[d] = Extras(table, d)[Len(table)]
<1>1. phase = "done" /\ \A hole \in Holes : hole[1][1] # d
  BY DEF Finished
<1>2. ASSUME NEW f \in Files, f[1] = d PROVE Output(f) = Complete(f)
  <2>1. NoCut(f)
    <3> SUFFICES ASSUME NEW i \in 1 .. Len(Output(f)), Output(f)[i].kind = "cut" PROVE FALSE
      BY DEF NoCut
    <3>1. i \in DOMAIN Output(f)
      BY FileTypes DEF WInv
    <3>2. <<f, i>> \in Holes
      BY <3>1, HoleFacts
    <3>3. <<f, i>>[1][1] = d
      BY <1>2
    <3> QED BY <1>1, <3>2, <3>3
  <2> QED BY <1>1, <2>1 DEF WInv, Ended
<1>3. <<d, TRUE>> \in Files /\ <<d, FALSE>> \in Files
  BY DEF Files
<1>4. Output(<<d, TRUE>>) = Complete(<<d, TRUE>>) /\ Output(<<d, FALSE>>) = Complete(<<d, FALSE>>)
  BY <1>2, <1>3
<1> QED BY <1>4 DEF Output, Complete, total

LEMMA WInvIsSound ==
    ASSUME WInv
    PROVE  FilesSound
<1>1. table \in Tables
  BY DEF WInv, WriteTyped
<1>2. OffsetsCounted
  BY DEF WInv
<1>3. EverySymbolResolves
  <2> SUFFICES ASSUME NEW d \in Databases, Finished(d)
               PROVE  \A i \in DOMAIN table : Resolves(i, d)
    BY DEF EverySymbolResolves
  <2>1. merged[d] = FinalFile(table, d) /\ extra[d] = Extras(table, d)[Len(table)]
    BY DoneIsComplete
  <2> QED BY <1>1, <2>1, FinalResolves
<1>4. Bisectable
  <2> SUFFICES ASSUME NEW d \in Databases, Finished(d) PROVE WellFormed(LayoutOf(merged[d]))
    BY DEF Bisectable
  <2>1. merged[d] = FinalFile(table, d)
    BY DoneIsComplete
  <2> QED BY <1>1, <2>1, FinalSorted
<1>5. FewHoles
  BY DEF WInv, Room, FewHoles
<1> QED BY <1>2, <1>3, <1>4, <1>5 DEF FilesSound
-----------------------------------------------------------------------------
(* The writer and the servers together.                                    *)

LEMMA EmptyLayout ==
    LET f == LayoutOf(<<>>) IN WellFormed(f) /\ f.n = 0
<1> DEFINE f == LayoutOf(<<>>)
           F == [k \in 0 .. Len(<<>>) |-> <<>>]
<1>1. Len(<<>>) = 0 /\ <<>> \in Seq(Lines)
  OBVIOUS
<1>2. Bytes(<<>>) = 0
  <2>1. Bytes(<<>>) = Offset(<<>>, 0 + 1) /\ 0 + 1 = 1
    BY <1>1 DEF Bytes
  <2> QED BY <1>1, <2>1, OffsetStep
<1>3. f = [n |-> 0, key |-> <<>>, start |-> [i \in 1 .. 1 |-> 0], id_end |-> <<>>]
  <2> DEFINE G(x) == [k \in 0 .. Len(<<>>) |->
                          IF k = 0 THEN <<>>
                          ELSE x[k - 1] \o (IF <<>>[k].kind = "id" THEN <<k>> ELSE <<>>)]
             found == CHOOSE x : x = G(x)
             ids == found[Len(<<>>)]
  <2>1. f = [n      |-> Len(ids),
             key    |-> [i \in 1 .. Len(ids) |-> <<>>[ids[i]].key],
             start  |-> [i \in 1 .. Len(ids) + 1 |->
                            IF i = Len(ids) + 1 THEN Bytes(<<>>) ELSE Offset(<<>>, ids[i])],
             id_end |-> [i \in 1 .. Len(ids) |-> Offset(<<>>, ids[i] + 1) - 1]]
    BY DEF LayoutOf
  <2>2. ids = <<>>
    <3>1. F = G(F)
      BY <1>1
    <3>2. found = G(found)
      <4> HIDE DEF F, G
      <4> QED BY <3>1
    <3>3. found[0] = <<>>
      <4> HIDE DEF found
      <4> QED BY <1>1, <3>2
    <3> QED BY <1>1, <3>3
  <2> HIDE DEF f, ids
  <2>3. 1 .. Len(ids) = {} /\ Len(ids) = 0 /\ 1 .. 0 = {} /\ 0 + 1 = 1
    BY <1>1, <2>2
  <2>4. /\ [i \in 1 .. Len(ids) |-> <<>>[ids[i]].key] = <<>>
        /\ [i \in 1 .. Len(ids) |-> Offset(<<>>, ids[i] + 1) - 1] = <<>>
    BY <2>3
  <2>5. [i \in 1 .. Len(ids) + 1 |->
             IF i = Len(ids) + 1 THEN Bytes(<<>>) ELSE Offset(<<>>, ids[i])] = [i \in 1 .. 1 |-> 0]
    BY <1>2, <2>3
  <2> QED BY <2>1, <2>3, <2>4, <2>5
<1> HIDE DEF f
<1>4. /\ f.n = 0 /\ f.key = <<>> /\ f.id_end = <<>> /\ f.start = [i \in 1 .. 1 |-> 0]
  BY <1>3
<1>5. WellFormed(f)
  <2>1. 1 .. 0 = {} /\ 0 + 1 = 1 /\ 0 .. 0 - 1 = {}
    OBVIOUS
  <2>2. Records(f) = {} /\ Size(f) = 0
    BY <1>4, <2>1 DEF Records, Size
  <2>3. <<>> \in [{} -> Nat]
    OBVIOUS
  <2>4. f.start \in [1 .. 1 -> Nat] /\ f.start[1] = 0
    BY <1>4
  <2>5. \A i, j \in 1 .. 1 : ~ (i < j)
    OBVIOUS
  <2> QED BY <1>4, <2>1, <2>2, <2>3, <2>4, <2>5 DEF WellFormed
<1> QED BY <1>4, <1>5 DEF f

LEMMA UnmappedIsFine == WellFormed(Unmapped) /\ Unmapped.n = 0
<1>1. /\ Unmapped.n = 0 /\ Unmapped.key = <<>> /\ Unmapped.id_end = <<>>
      /\ Unmapped.start = <<0>>
  BY DEF Unmapped
<1>2. 1 .. 0 = {} /\ 0 + 1 = 1 /\ 0 .. 0 - 1 = {} /\ <<0>>[1] = 0
  OBVIOUS
<1>3. Records(Unmapped) = {} /\ Size(Unmapped) = 0
  BY <1>1, <1>2 DEF Records, Size
<1>4. <<>> \in [{} -> Nat] /\ <<0>> \in [1 .. 1 -> Nat]
  OBVIOUS
<1>5. \A i, j \in 1 .. 1 : ~ (i < j)
  OBVIOUS
<1> QED BY <1>1, <1>2, <1>3, <1>4, <1>5 DEF WellFormed

(* A file that is there already leaves nothing to check.                   *)
LEMMA NothingIsSound ==
    ASSUME NothingToWrite
    PROVE  FilesSound
<1>1. /\ table = <<>> /\ phase = "done"
      /\ merged = [d \in Databases |-> <<>>] /\ extra = merged
      /\ at = [f \in Files |-> <<thread_count, 1>>]
  BY DEF NothingToWrite, Files
<1>2. thread_count \in Nat
  <2>1. Len(<<>>) = 0
    OBVIOUS
  <2> QED BY <1>1, <2>1, WriteAssumption DEF thread_count, total
<1>3. Holes = {}
  <2>1. \A f \in Files : Output(f) = <<>>
    BY <1>1 DEF Files, Output
  <2>2. DOMAIN <<>> = {}
    OBVIOUS
  <2>3. \A h : h \notin Holes
    BY <2>1, <2>2, HoleFacts
  <2> QED BY <2>3
<1>4. IsFiniteSet(Removed)
  <2>1. IsFiniteSet(Files)
    <3>1. IsFiniteSet(Databases) /\ IsFiniteSet(BOOLEAN)
      <4>1. IsFiniteSet({TRUE}) /\ {TRUE} \cup {FALSE} = BOOLEAN
        BY FS_Singleton
      <4>2. IsFiniteSet({TRUE} \cup {FALSE})
        BY <4>1, FS_AddElement
      <4> QED BY <4>1, <4>2, WriteAssumption
    <3> QED BY <3>1, FS_Product DEF Files
  <2>2. IsFiniteSet(0 .. thread_count - 1)
    <3>1. 0 \in Int /\ thread_count - 1 \in Int
      BY <1>2
    <3> QED BY <3>1, FS_Interval
  <2>3. IsFiniteSet(Files \X (0 .. thread_count - 1))
    BY <2>1, <2>2, FS_Product
  <2>4. Removed \in SUBSET (Files \X (0 .. thread_count - 1))
    <3>1. \A f \in Files : at[f][1] = thread_count
      BY <1>1
    <3>2. \A h : h \in Removed => h \in Files \X (0 .. thread_count - 1)
      BY <3>1, HoleFacts
    <3> QED BY <3>2
  <2> QED BY <2>3, <2>4, FS_Subset
<1>5. FewHoles
  <2>1. Cardinality(Removed) \in Nat /\ Cardinality({}) = 0
    BY <1>4, FS_CardinalityType, FS_EmptySet
  <2> QED BY <1>3, <2>1 DEF FewHoles
<1>6. EverySymbolResolves
  <2>1. DOMAIN table = {}
    BY <1>1
  <2> QED BY <2>1 DEF EverySymbolResolves
<1>7. Bisectable
  <2>1. \A d \in Databases : merged[d] = <<>>
    BY <1>1
  <2> QED BY <2>1, EmptyLayout DEF Bisectable
<1> QED BY <1>1, <1>5, <1>6, <1>7 DEF FilesSound, OffsetsCounted

(* What the servers have mapped is what the indexer wrote, or was there.   *)
Mapped ==
    /\ file = Unmapped => pc = "idle" /\ result = 0
    /\ file # Unmapped /\ table # <<>> =>
          file.n = Len(table) /\ \A i \in DOMAIN table : file.key[i] = table[i].key

DatabaseInv == (WInv \/ NothingToWrite) /\ Inv /\ Mapped

LEMMA DatabaseBegins ==
    ASSUME DatabaseInit
    PROVE  DatabaseInv
<1>1. WInv \/ NothingToWrite
  BY WriteBegins DEF DatabaseInit
<1>2. CASE NothingToFind
  <2>1. file = Unmapped /\ pc = "idle" /\ sym = 0 /\ first = 0 /\ count = 0 /\ result = 0
    BY <1>2 DEF NothingToFind
  <2>2. WellFormed(file) /\ file.n = 0 /\ 0 \in 0 .. 0 /\ 0 \in Nat
    BY <2>1, UnmappedIsFine
  <2> QED BY <1>1, <2>1, <2>2 DEF DatabaseInv, Inv, Typed, WindowOfRecords, Exact, Mapped
<1>3. CASE Init /\ NothingToWrite
  <2>1. Inv
    BY <1>3, InitInv
  <2>2. Mapped
    BY <1>3 DEF Mapped, Init, NothingToWrite
  <2> QED BY <1>1, <2>1, <2>2 DEF DatabaseInv
<1> QED BY <1>2, <1>3 DEF DatabaseInit

(* What is written stays good while anybody does anything.                 *)
LEMMA WriterGoesOn ==
    ASSUME WInv \/ NothingToWrite, [DatabaseNext]_<<vars, writeVars, identVars>>
    PROVE  (WInv \/ NothingToWrite)'
<1>1. [WriteNext]_writeVars
  BY DEF DatabaseNext, Open
<1>2. CASE WInv
  BY <1>1, <1>2, WriteKeeps
<1>3. CASE NothingToWrite
  <2>1. phase = "done"
    BY <1>3 DEF NothingToWrite
  <2>2. UNCHANGED writeVars
    BY <1>1, <2>1 DEF WriteNext, WriteRecord, WritersJoined, MergeLines, ShortWrite, NextChunk,
                      AllMerged, Panic, Over
  <2>3. NothingToWrite'
    <3>1. /\ table' = table /\ phase' = phase /\ next' = next /\ part' = part
          /\ part_extra' = part_extra /\ ext_offset' = ext_offset /\ merged' = merged
          /\ extra' = extra /\ at' = at /\ full' = full
      BY <2>2 DEF writeVars
    <3>2. thread_count' = thread_count
      BY SMTT(30), <3>1, Steady
    <3> QED BY <1>3, <3>1, <3>2 DEF NothingToWrite
  <2> QED BY <2>3
<1> QED BY <1>2, <1>3

LEMMA TableStays ==
    ASSUME [WriteNext]_writeVars
    PROVE  table' = table
BY DEF WriteNext, writeVars, WriteRecord, WritersJoined, MergeLines, ShortWrite, NextChunk,
       AllMerged, Panic, Over

LEMMA OpenKeeps ==
    ASSUME DatabaseInv, Open
    PROVE  Inv' /\ Mapped'
<1>1. /\ table # <<>> /\ Finished("crossref") /\ file = Unmapped
      /\ file' = LayoutOf(merged["crossref"])
      /\ pc' = pc /\ sym' = sym /\ first' = first /\ count' = count /\ result' = result
      /\ table' = table
  BY DEF Open, writeVars
<1>2. WInv /\ table \in Tables
  BY <1>1 DEF DatabaseInv, NothingToWrite, WInv, WriteTyped
<1>3. merged["crossref"] = FinalFile(table, "crossref")
  BY <1>1, <1>2, DoneIsComplete, DatabaseAssumption
<1>4. /\ WellFormed(file') /\ file'.n = Len(table) /\ Len(table) \in Nat
      /\ DOMAIN table = 1 .. Len(table)
      /\ \A i \in 1 .. Len(table) : file'.key[i] = table[i].key
  BY <1>1, <1>2, <1>3, FinalSorted, TableFacts, DatabaseAssumption
<1>5. pc = "idle" /\ result = 0
  BY <1>1 DEF DatabaseInv, Mapped
<1>6. Inv'
  <2>1. result' \in 0 .. file'.n
    BY <1>1, <1>4, <1>5
  <2>2. sym' \in Nat /\ first' \in Nat /\ count' \in Nat
    BY <1>1 DEF DatabaseInv, Inv, Typed
  <2> QED BY <1>1, <1>4, <1>5, <2>1, <2>2 DEF Inv, Typed, WindowOfRecords, Exact
<1>7. Mapped'
  BY <1>1, <1>4, <1>5 DEF Mapped
<1> QED BY <1>6, <1>7

LEMMA DatabaseKeeps ==
    ASSUME DatabaseInv, [DatabaseNext]_<<vars, writeVars, identVars>>
    PROVE  DatabaseInv'
<1>1. (WInv \/ NothingToWrite)'
  BY WriterGoesOn DEF DatabaseInv
<1>2. CASE Open
  BY <1>1, <1>2, OpenKeeps DEF DatabaseInv
<1>3. CASE [WriteNext]_writeVars /\ UNCHANGED vars
  <2>1. Inv'
    BY <1>3, NextKeepsInv DEF DatabaseInv
  <2>2. table' = table
    BY <1>3, TableStays
  <2>3. Mapped'
    BY <1>3, <2>2 DEF DatabaseInv, Mapped, vars
  <2> QED BY <1>1, <2>1, <2>3 DEF DatabaseInv
<1>4. CASE file # Unmapped /\ Next /\ UNCHANGED writeVars
  <2>1. Inv'
    BY <1>4, NextKeepsInv DEF DatabaseInv
  <2>2. table' = table /\ file' = file
    BY <1>4 DEF writeVars, Next, Search, Ask, Equal, Less, Greater, Miss
  <2>3. Mapped'
    BY <1>4, <2>2 DEF DatabaseInv, Mapped
  <2> QED BY <1>1, <2>1, <2>3 DEF DatabaseInv
<1> QED BY <1>2, <1>3, <1>4 DEF DatabaseNext

(* write_crossref_and_jumpref: however the symbols are cut into chunks,    *)
(* whatever lengths their JSONs have, and in whatever order the threads    *)
(* write, merge, fail and find the disk full, the offsets are counted      *)
(* right, and files that are done and have no hole hold the JSON of every  *)
(* symbol where the reader looks for it, and can be bisected; holes are    *)
(* few.                                                                    *)
THEOREM WrittenFilesSound == DatabaseSpec => []FilesSound
<1>1. DatabaseInit => DatabaseInv
  BY DatabaseBegins
<1>2. DatabaseInv /\ [DatabaseNext]_<<vars, writeVars, identVars>> => DatabaseInv'
  BY DatabaseKeeps
<1>3. DatabaseInv => FilesSound
  BY WInvIsSound, NothingIsSound DEF DatabaseInv
<1> QED BY <1>1, <1>2, <1>3, PTL DEF DatabaseSpec

(* CrossrefLookupMap over what write_crossref_and_jumpref wrote: the files *)
(* of the indexer are ones that the lookup is exact on, and the symbols    *)
(* found are those that were written.                                      *)
THEOREM WrittenLookupsExact == DatabaseSpec => []AnswersExact
<1>1. DatabaseInit => DatabaseInv
  BY DatabaseBegins
<1>2. DatabaseInv /\ [DatabaseNext]_<<vars, writeVars, identVars>> => DatabaseInv'
  BY DatabaseKeeps
<1>3. DatabaseInv => AnswersExact
  <2> SUFFICES ASSUME DatabaseInv PROVE AnswersExact
    OBVIOUS
  <2>1. Exact /\ Mapped /\ Typed
    BY DEF DatabaseInv, Inv
  <2> SUFFICES ASSUME file # Unmapped, table # <<>>
               PROVE  /\ pc = "found"  => table[result].key = sym
                      /\ pc = "missed" => \A i \in DOMAIN table : table[i].key # sym
    BY <2>1 DEF AnswersExact
  <2>2. table \in Tables
    BY DEF DatabaseInv, NothingToWrite, WInv, WriteTyped
  <2>3. /\ file.n = Len(table) /\ DOMAIN table = 1 .. Len(table)
        /\ \A i \in DOMAIN table : file.key[i] = table[i].key
    BY <2>1, <2>2, TableFacts DEF Mapped
  <2>4. ASSUME pc = "missed" PROVE \A i \in DOMAIN table : table[i].key # sym
    BY <2>1, <2>3, <2>4 DEF Exact, Records
  <2>5. ASSUME pc = "found" PROVE table[result].key = sym
    BY <2>1, <2>3, <2>5 DEF Exact, Typed, Records
  <2> QED BY <2>4, <2>5
<1> QED BY <1>1, <1>2, <1>3, PTL DEF DatabaseSpec

(* bisect_for_payload in the files of the indexer and in any other: every  *)
(* probe at least halves the window, and opening a file never meets a      *)
(* search that is under way.                                               *)
THEOREM DatabaseLookupsHalve == DatabaseSpec => Halves
<1>1. DatabaseInit => DatabaseInv
  BY DatabaseBegins
<1>2. DatabaseInv /\ [DatabaseNext]_<<vars, writeVars, identVars>> => DatabaseInv'
  BY DatabaseKeeps
<1>3. DatabaseInv /\ [DatabaseNext]_<<vars, writeVars, identVars>>
      => [pc = "search" /\ pc' = "search" => count' <= count \div 2]_vars
  <2> SUFFICES ASSUME DatabaseInv, [DatabaseNext]_<<vars, writeVars, identVars>>,
                      pc = "search", pc' = "search", ~ UNCHANGED vars
               PROVE  count' <= count \div 2
    OBVIOUS
  <2>1. ~ Open
    BY DEF DatabaseInv, Mapped, Open
  <2>2. Next
    BY <2>1 DEF DatabaseNext
  <2>3. Less \/ Greater
    BY <2>2 DEF Next, Search, Ask, Equal, Miss
  <2> QED BY <2>3, LessKeepsInv, GreaterKeepsInv DEF DatabaseInv
<1> QED BY <1>1, <1>2, <1>3, PTL DEF DatabaseSpec, Halves
=============================================================================
