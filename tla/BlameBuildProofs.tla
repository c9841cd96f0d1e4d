-------------------------- MODULE BlameBuildProofs --------------------------
(***************************************************************************)
(* Theorems about BlameBuild for every history, every number of compute    *)
(* threads, every buffer size and every combination of faults.             *)
(***************************************************************************)
EXTENDS BlameBuildProps, FiniteSetTheorems, SequenceTheorems, TLAPS

USE DEF NoEntry, OnDisk

LEMMA AncestorsAreRevs == \A r \in Revs : Ancestors[r] \in SUBSET Revs
BY DEF Ancestors

(* What a build can find is a set of revisions.                            *)
LEMMA RecordedAreRevs == TypeOK => Recorded \subseteq Revs
BY AncestorsAreRevs DEF TypeOK, Recorded, Reachable, MarkTable, Range

(* What starting a build computes has the right type.                      *)
LEMMA TodoIsFinite ==
    ASSUME TypeOK, NEW h \in Heads
    PROVE  Cardinality(Ancestors[h] \ Recorded) \in Nat
<1>1. IsFiniteSet(Ancestors[h] \ Recorded)
  BY RevsAssumption, AncestorsAreRevs, FS_Subset
<1> QED BY <1>1, FS_CardinalityType

LEMMA TruncateType ==
    ASSUME NEW s \in Seq(Revs), NEW limit \in Nat
    PROVE  /\ Truncate(s, limit) \in Seq(Revs)
           /\ Len(Truncate(s, limit)) <= Len(s)
           /\ \A i \in 1 .. Len(Truncate(s, limit)) : Truncate(s, limit)[i] = s[i]
BY SubSeqProperties DEF Truncate

LEMMA TableLength ==
    ASSUME NEW f, NEW k \in Nat, f \in [1 .. k -> Revs]
    PROVE  Cardinality(DOMAIN f) = k
<1>1. DOMAIN f = 1 .. k
  OBVIOUS
<1>2. Cardinality(1 .. k) = k
  BY FS_Interval
<1> QED BY <1>1, <1>2

(* Closing a commit writes one mark into the table.                        *)
LEMMA CloseCommitMarks ==
    ASSUME MarkTable(marks), mark_id \in Nat \ {0}, CurrentRev \in Revs, CloseCommit
    PROVE  /\ MarkTable(marks')
           /\ DOMAIN marks' = {mark_id} \cup DOMAIN marks
           /\ marks'[mark_id] = CurrentRev
           /\ \A n \in DOMAIN marks \ {mark_id} : marks'[n] = marks[n]
           /\ tip' = CurrentRev
<1> DEFINE D == DOMAIN marks \cup {mark_id}
<1>1. marks' = [k \in D |-> IF k = mark_id THEN CurrentRev ELSE marks[k]]
  BY DEF CloseCommit
<1>2. IsFiniteSet(D)
  BY FS_AddElement, FS_Union, FS_Singleton DEF MarkTable
<1>3. \A x \in D : marks'[x] \in Revs
  BY <1>1 DEF MarkTable
<1> QED BY <1>1, <1>2, <1>3 DEF MarkTable, CloseCommit

-----------------------------------------------------------------------------
LEMMA EmptyTable == MarkTable(<<>>)
BY FS_EmptySet DEF MarkTable

LEMMA ModIsThread == \A a \in Int : a % NumThreads \in Threads
BY ThreadsAssumption DEF Threads

LEMMA SendType ==
    ASSUME query \in [Threads -> Seq(Revs)], NEW t \in Threads, NEW r \in Revs, SendTo(t, r)
    PROVE  query' \in [Threads -> Seq(Revs)]
BY DEF SendTo

LEMMA CountersAreNat ==
    TypeOK => rev_count \in Nat /\ compute_index \in Nat /\ rev_done \in Nat
BY LenProperties DEF TypeOK, rev_count

LEMMA InTree ==
    ASSUME TypeOK, pc \in {"header", "tree"}
    PROVE  mark_id \in Nat \ {0} /\ CurrentRev \in Revs /\ rev_done \in 1 .. rev_count
BY ElementOfSeq DEF TypeOK, mark_id, CurrentRev, rev_count

LEMMA TypeOKInit == Init => TypeOK
<1> SUFFICES ASSUME Init PROVE TypeOK
  OBVIOUS
<1> USE DEF Init
<1>1. MarkTable(marks) /\ MarkTable(marks_file)
  BY EmptyTable
<1> QED BY <1>1, RevsAssumption, LimitsAssumption DEF TypeOK, rev_count

LEMMA StartType ==
    ASSUME TypeOK, NEW h \in Heads, NEW limit \in Limits, Start(h, limit)
    PROVE  TypeOK'
<1> DEFINE todo == Ancestors[h] \ Recorded
<1>1. PICK s \in [1 .. Cardinality(todo) -> todo] : revs_to_process' = Truncate(s, limit)
  BY DEF Start
<1>2. s \in Seq(Revs)
  <2>1. todo \subseteq Revs /\ Cardinality(todo) \in Nat
    BY TodoIsFinite, AncestorsAreRevs, RevsAssumption
  <2>2. s \in [1 .. Cardinality(todo) -> Revs]
    BY <1>1, <2>1
  <2>3. s = [i \in 1 .. Cardinality(todo) |-> s[i]]
    BY <2>2
  <2>4. \A i \in 1 .. Cardinality(todo) : s[i] \in Revs
    BY <2>2
  <2> HIDE DEF todo
  <2>5. [i \in 1 .. Cardinality(todo) |-> s[i]] \in Seq(Revs)
    BY <2>1, <2>4
  <2> QED BY <2>3, <2>5
<1>3. revs_to_process' \in Seq(Revs)
  BY <1>1, <1>2, TruncateType, LimitsAssumption
<1>4. prev_revs_done' \in Nat
  BY FS_CardinalityType DEF Start, TypeOK, MarkTable
<1>5. runs' \in 0 .. MaxRuns /\ commit_limit' \in Limits \cup {0}
  BY LimitsAssumption DEF Start, TypeOK
<1>6. blame_map' \in [Revs -> {NoEntry} \cup Nat]
  BY DEF Start
<1>7. /\ MarkTable(marks') /\ MarkTable(marks_file')
      /\ fi' = fi /\ tip' = tip /\ ref' = ref /\ partial' = partial
  BY DEF Start, TypeOK, importVars, durableVars
<1>8. /\ pc' = "fill" /\ compute_index' = 0 /\ rev_done' = 0
      /\ query' \in [Threads -> Seq(Revs)] /\ response' \in [Threads -> Seq(Revs)]
      /\ alive' \in [Threads -> BOOLEAN]
  BY DEF Start
<1> QED BY <1>3, <1>4, <1>5, <1>6, <1>7, <1>8 DEF TypeOK, rev_count

LEMMA TypeOKNext == TypeOK /\ [Next]_vars => TypeOK'
<1> SUFFICES ASSUME TypeOK, [Next]_vars PROVE TypeOK'
  OBVIOUS
<1> USE ThreadsAssumption, LimitsAssumption, RevsAssumption
<1>1. ASSUME NEW h \in Heads, NEW limit \in Limits, Start(h, limit) PROVE TypeOK'
  BY <1>1, StartType
<1>2. ASSUME NEW t \in Threads, Compute(t) PROVE TypeOK'
  <2>1. Head(query[t]) \in Revs /\ Tail(query[t]) \in Seq(Revs)
    BY <1>2, HeadTailProperties DEF Compute, TypeOK
  <2>2. /\ response' \in [Threads -> Seq(Revs)]
        /\ query' \in [Threads -> Seq(Revs)]
    BY <1>2, <2>1, AppendProperties DEF Compute, TypeOK
  <2> QED BY <1>2, <2>2 DEF Compute, TypeOK, mainVars, importVars, durableVars, rev_count
<1>3. ASSUME NEW t \in Threads, ThreadPanic(t) PROVE TypeOK'
  BY <1>3 DEF ThreadPanic, TypeOK, mainVars, importVars, durableVars, rev_count
<1>4. ASSUME FillBuffer PROVE TypeOK'
  <2>1. compute_index + 1 \in 1 .. rev_count
    BY <1>4 DEF FillBuffer, InitialRequests, TypeOK, rev_count
  <2>2. query' \in [Threads -> Seq(Revs)]
    <3>1. compute_index % NumThreads \in Threads
      BY ModIsThread, CountersAreNat
    <3>2. revs_to_process[compute_index + 1] \in Revs
      BY <2>1, ElementOfSeq DEF TypeOK, rev_count
    <3> QED BY <1>4, <3>1, <3>2, SendType DEF FillBuffer, TypeOK
  <2> QED BY <1>4, <2>1, <2>2 DEF FillBuffer, TypeOK, importVars, durableVars, rev_count
<1>5. ASSUME StartFastImport PROVE TypeOK'
  BY <1>5 DEF StartFastImport, TypeOK, threadVars, durableVars, rev_count
<1>6. ASSUME ReadResult PROVE TypeOK'
  <2> DEFINE t == rev_done % NumThreads
  <2>1. t \in Threads
    BY ModIsThread, CountersAreNat
  <2>2. response' \in [Threads -> Seq(Revs)]
    BY <1>6, <2>1, HeadTailProperties DEF ReadResult, TypeOK
  <2>3. /\ query' \in [Threads -> Seq(Revs)]
        /\ compute_index' \in 0 .. rev_count
        /\ rev_done' \in 1 .. compute_index'
    <3>1. CASE compute_index < rev_count
      <4>1. compute_index + 1 \in 1 .. rev_count
        BY <3>1, CountersAreNat
      <4>2. query' \in [Threads -> Seq(Revs)]
        BY <1>6, <2>1, <3>1, <4>1, SendType, ElementOfSeq DEF ReadResult, TypeOK, rev_count
      <4>3. compute_index' = compute_index + 1 /\ rev_done' = rev_done + 1
        BY <1>6, <3>1 DEF ReadResult
      <4> QED BY <4>1, <4>2, <4>3, CountersAreNat DEF TypeOK
    <3>2. CASE ~ (compute_index < rev_count)
      BY <1>6, <3>2, CountersAreNat DEF ReadResult, TypeOK
    <3> QED BY <3>1, <3>2
  <2>4. /\ pc' = "header"
        /\ UNCHANGED <<runs, commit_limit, blame_map, revs_to_process, prev_revs_done,
                       alive, importVars, durableVars>>
    BY <1>6 DEF ReadResult
  <2> QED BY <2>2, <2>3, <2>4, CountersAreNat DEF TypeOK, importVars, durableVars, rev_count
<1>7. ASSUME WriteHeader PROVE TypeOK'
  <2>1. mark_id \in Nat
    BY DEF TypeOK, mark_id
  <2>2. blame_map' \in [Revs -> {NoEntry} \cup Nat]
    BY <1>7, <2>1 DEF WriteHeader, TypeOK
  <2> QED BY <1>7, <2>2 DEF WriteHeader, TypeOK, threadVars, importVars, durableVars, rev_count
<1>8. ASSUME BuildBlameTree PROVE TypeOK'
  <2>1. MarkTable(marks') /\ tip' \in Revs /\ CurrentRev \in Revs
    BY <1>8, InTree, CloseCommitMarks DEF BuildBlameTree, TypeOK
  <2> QED BY <1>8, <2>1 DEF BuildBlameTree, TypeOK, threadVars, durableVars, rev_count
<1>9. ASSUME ShutDown PROVE TypeOK'
  BY <1>9 DEF ShutDown, TypeOK, threadVars, importVars, durableVars, rev_count
<1>10. ASSUME Exit PROVE TypeOK'
  BY <1>10, EmptyTable DEF Exit, TypeOK, threadVars, importVars, rev_count
<1>11. ASSUME Panic PROVE TypeOK'
  <2>1. MarkTable(marks') /\ tip' \in Revs \cup {NoRev} /\ partial' \subseteq Revs
    BY <1>11, InTree, CloseCommitMarks DEF Panic, TreePanic, TypeOK
  <2> QED BY <1>11, <2>1 DEF Panic, TypeOK, threadVars, durableVars, rev_count
<1>12. ASSUME Kill PROVE TypeOK'
  BY <1>12 DEF Kill, TypeOK, threadVars, durableVars, rev_count
<1>13. ASSUME ImportFails PROVE TypeOK'
  BY <1>13 DEF ImportFails, TypeOK, mainVars, threadVars, rev_count
<1>14. ASSUME EndOfInput PROVE TypeOK'
  BY <1>14 DEF EndOfInput, TypeOK, mainVars, threadVars, durableVars, rev_count
<1>15. ASSUME DumpBranches PROVE TypeOK'
  BY <1>15 DEF DumpBranches, TypeOK, mainVars, threadVars, rev_count
<1>16. ASSUME DumpMarks PROVE TypeOK'
  BY <1>16 DEF DumpMarks, TypeOK, mainVars, threadVars, rev_count
<1>17. ASSUME UNCHANGED vars PROVE TypeOK'
  BY <1>17 DEF TypeOK, vars, mainVars, threadVars, importVars, durableVars, rev_count
<1> QED
  BY <1>1, <1>2, <1>3, <1>4, <1>5, <1>6, <1>7, <1>8, <1>9, <1>10, <1>11, <1>12,
     <1>13, <1>14, <1>15, <1>16, <1>17 DEF Next, AllRunsOver

(* Every variable keeps its type, for all constants.                       *)
THEOREM TypeCorrect == Spec => []TypeOK
<1>1. Init => TypeOK
  BY TypeOKInit
<1>2. TypeOK /\ [Next]_vars => TypeOK'
  BY TypeOKNext
<1> QED BY <1>1, <1>2, PTL DEF Spec

-----------------------------------------------------------------------------
(* Arithmetic of turns.                                                    *)

LEMMA DivMod ==
    ASSUME NEW a \in Int
    PROVE  \E q \in Int : a = NumThreads * q + (a % NumThreads)
<1>1. a = NumThreads * (a \div NumThreads) + (a % NumThreads) /\ a \div NumThreads \in Int
  BY ThreadsAssumption
<1> QED BY <1>1

LEMMA ModUnique ==
    ASSUME NEW q \in Int, NEW r \in Threads
    PROVE  (NumThreads * q + r) % NumThreads = r
BY ThreadsAssumption DEF Threads

LEMMA FewerTurns ==
    ASSUME NEW d \in Int, NEW e \in Int, NEW a \in Nat, NEW b \in Nat,
           d + (a + b) * NumThreads <= e
    PROVE  d + (a + 0) * NumThreads <= e
<1>1. (a + b) * NumThreads = a * NumThreads + b * NumThreads
  BY ThreadsAssumption
<1>2. a * NumThreads \in Int /\ b * NumThreads \in Int /\ b * NumThreads >= 0
  BY ThreadsAssumption
<1>3. d + a * NumThreads <= e
  BY <1>1, <1>2
<1> QED BY <1>3

LEMMA DueBounds ==
    ASSUME NEW i \in Nat, NEW t \in Threads
    PROVE  Due(i, t) \in i .. i + NumThreads - 1
BY ModIsThread, ThreadsAssumption, t - i \in Int DEF Due, Threads

LEMMA DueNow == \A i \in Nat : Due(i, i % NumThreads) = i
<1> SUFFICES ASSUME NEW i \in Nat PROVE Due(i, i % NumThreads) = i
  OBVIOUS
<1> DEFINE t == i % NumThreads
<1>1. PICK q \in Int : i = NumThreads * q + t
  BY DivMod
<1>2. t - i = NumThreads * (0 - q) + 0 /\ t \in Int
  <2>1. NumThreads * (0 - q) = 0 - NumThreads * q /\ NumThreads * q \in Int
    BY ThreadsAssumption
  <2>2. t \in Int
    BY ModIsThread, ThreadsAssumption DEF Threads
  <2> HIDE DEF t
  <2> QED BY <1>1, <2>1, <2>2
<1>3. 0 \in Threads /\ 0 - q \in Int
  BY ThreadsAssumption DEF Threads
<1>4. (t - i) % NumThreads = 0
  BY <1>2, <1>3, ModUnique
<1> QED BY <1>4 DEF Due

LEMMA DueNext ==
    ASSUME NEW i \in Nat, NEW t \in Threads
    PROVE  Due(i + 1, t) = IF t = i % NumThreads THEN i + NumThreads ELSE Due(i, t)
<1> DEFINE d == (t - i) % NumThreads
<1>1. PICK q \in Int : t - i = NumThreads * q + d
  BY DivMod, t - i \in Int DEF Threads
<1>2. d \in Threads
  BY ModIsThread, t - i \in Int DEF Threads
<1>3. PICK p \in Int : i = NumThreads * p + (i % NumThreads)
  BY DivMod
<1>4. CASE d = 0
  <2>1. t - (i + 1) = NumThreads * (q - 1) + (NumThreads - 1)
    BY <1>1, <1>4, ThreadsAssumption DEF Threads
  <2>2. (t - (i + 1)) % NumThreads = NumThreads - 1
    BY <2>1, ModUnique, q - 1 \in Int, ThreadsAssumption DEF Threads
  <2>3. i = NumThreads * (0 - q) + t
    BY <1>1, <1>4, ThreadsAssumption DEF Threads
  <2>4. i % NumThreads = t
    BY <2>3, ModUnique, 0 - q \in Int
  <2> QED BY <2>2, <2>4, ThreadsAssumption DEF Due
<1>5. CASE d # 0
  <2>1. t - (i + 1) = NumThreads * q + (d - 1)
    BY <1>1, <1>2, ThreadsAssumption DEF Threads
  <2>2. (t - (i + 1)) % NumThreads = d - 1
    <3>1. d - 1 \in Threads
      BY <1>2, <1>5, ThreadsAssumption DEF Threads
    <3> QED BY <2>1, <3>1, ModUnique
  <2>3. t # i % NumThreads
    <3> SUFFICES ASSUME t = i % NumThreads PROVE FALSE
      OBVIOUS
    <3>1. t - i = NumThreads * (0 - p) + 0
      BY <1>3, ThreadsAssumption DEF Threads
    <3>2. 0 \in Threads /\ 0 - p \in Int
      BY ThreadsAssumption DEF Threads
    <3>3. (t - i) % NumThreads = 0
      BY <3>1, <3>2, ModUnique
    <3> QED BY <3>3, <1>5
  <2> QED BY <1>2, <2>2, <2>3, ThreadsAssumption DEF Due, Threads
<1> QED BY <1>4, <1>5

-----------------------------------------------------------------------------
(* The channels hold what the round robin says, whatever the threads' and  *)
(* fast-import's speeds and faults.                                        *)

LEMMA ChannelsSame ==
    ASSUME UNCHANGED <<revs_to_process, compute_index, rev_done, query, response, alive>>,
           NEW t \in Threads, Channels(t)
    PROVE  Channels(t)'
BY DEF Channels, Turns, Due

LEMMA PipelineInit == Init => Pipeline
BY DEF Init, Pipeline, Ahead, Running

LEMMA PipelineStart ==
    ASSUME TypeOK, TypeOK', NEW h \in Heads, NEW limit \in Limits, Start(h, limit)
    PROVE  Pipeline'
<1>1. ASSUME NEW t \in Threads PROVE Channels(t)'
  <2>1. Len(response'[t]) = 0 /\ Len(query'[t]) = 0
    BY <1>1 DEF Start
  <2>2. compute_index' = 0 /\ rev_done' = 0
    BY DEF Start
  <2>3. Due(0, t) \in Int /\ 0 * NumThreads = 0
    BY <1>1, DueBounds, ThreadsAssumption
  <2> QED BY <2>1, <2>2, <2>3 DEF Channels, Turns, Due
<1> QED BY <1>1 DEF Start, Pipeline, Ahead

LEMMA PipelineCompute ==
    ASSUME TypeOK, TypeOK', Pipeline, NEW t \in Threads, Compute(t)
    PROVE  Pipeline'
<1>1. ASSUME NEW u \in Threads PROVE Channels(u)'
  <2> DEFINE due == Due(rev_done, u)
  <2>0. Channels(u) /\ UNCHANGED <<revs_to_process, compute_index, rev_done, alive>>
    BY <1>1 DEF Pipeline, Compute, mainVars
  <2>1. CASE u # t
    <3>1. response'[u] = response[u] /\ query'[u] = query[u]
      BY <1>1, <2>1 DEF Compute, TypeOK
    <3> QED BY <2>0, <3>1 DEF Channels, Turns, Due
  <2>2. CASE u = t
    <3> DEFINE r == response[u]
               q == query[u]
    <3>1. r \in Seq(Revs) /\ q \in Seq(Revs) /\ q # <<>>
      BY <1>1, <2>2 DEF Compute, TypeOK
    <3>2. response'[u] = Append(r, Head(q)) /\ query'[u] = Tail(q)
      BY <1>1, <2>2 DEF Compute, TypeOK
    <3>3. /\ \A k \in 1 .. Len(r) : response'[u][k] = r[k]
          /\ response'[u][Len(r) + 1] = q[1]
          /\ \A k \in 1 .. Len(q) - 1 : query'[u][k] = q[k + 1]
      BY <3>1, <3>2, AppendProperties, HeadTailProperties
    <3>4. /\ Len(r) \in Nat /\ Len(q) \in Nat /\ Len(q) >= 1
          /\ Len(response'[u]) = Len(r) + 1 /\ Len(query'[u]) = Len(q) - 1
      BY <3>1, <3>2, LenProperties, EmptySeq, AppendProperties, HeadTailProperties
    <3> HIDE DEF r, q
    <3>5. Len(response'[u]) + Len(query'[u]) = Len(r) + Len(q)
      BY <3>4
    <3> USE DEF r, q
    <3>6. \A k \in 1 .. Len(response'[u]) :
             response'[u][k] = revs_to_process[due + (k - 1) * NumThreads + 1]
      <4>1. q[1] = revs_to_process[due + (Len(r) + 1 - 1) * NumThreads + 1]
        BY <2>0, <3>4 DEF Channels, Turns
      <4> SUFFICES ASSUME NEW k \in 1 .. Len(response'[u])
                   PROVE  response'[u][k] = revs_to_process[due + (k - 1) * NumThreads + 1]
        OBVIOUS
      <4>2. CASE k = Len(r) + 1
        BY <3>3, <4>1, <4>2
      <4>3. CASE k # Len(r) + 1
        <5>1. k \in 1 .. Len(r)
          BY <3>4, <4>3
        <5> QED BY <2>0, <3>3, <5>1 DEF Channels, Turns
      <4> QED BY <4>2, <4>3
    <3>7. \A k \in 1 .. Len(query'[u]) : query'[u][k] =
             revs_to_process[due + (Len(response'[u]) + k - 1) * NumThreads + 1]
      <4> SUFFICES ASSUME NEW k \in 1 .. Len(query'[u])
                   PROVE  query'[u][k] =
                     revs_to_process[due + (Len(response'[u]) + k - 1) * NumThreads + 1]
        OBVIOUS
      <4>1. k + 1 \in 1 .. Len(q) /\ query'[u][k] = q[k + 1]
        BY <3>3, <3>4
      <4>2. q[k + 1] = revs_to_process[due + (Len(r) + (k + 1) - 1) * NumThreads + 1]
        BY <2>0, <4>1 DEF Channels, Turns
      <4>3. Len(r) + (k + 1) - 1 = Len(response'[u]) + k - 1
        BY <3>3, <3>4
      <4> QED BY <4>1, <4>2, <4>3
    <3> QED BY <2>0, <3>5, <3>6, <3>7 DEF Channels, Turns, Due
  <2> QED BY <2>1, <2>2
<1>2. Ahead'
  BY DEF Compute, Pipeline, Ahead, mainVars, rev_count
<1> QED BY <1>1, <1>2 DEF Pipeline

LEMMA PipelineThreadPanic ==
    ASSUME TypeOK, TypeOK', Pipeline, NEW t \in Threads, ThreadPanic(t)
    PROVE  Pipeline'
<1>1. ASSUME NEW u \in Threads PROVE Channels(u)'
  <2>0. /\ Channels(u)
        /\ UNCHANGED <<revs_to_process, compute_index, rev_done, response>>
    BY <1>1 DEF Pipeline, ThreadPanic, mainVars
  <2>1. CASE u # t
    <3>1. alive'[u] = alive[u] /\ query'[u] = query[u]
      BY <1>1, <2>1 DEF ThreadPanic, TypeOK
    <3> QED BY <2>0, <3>1 DEF Channels, Turns, Due
  <2>2. CASE u = t
    <3>1. alive'[u] = FALSE /\ query'[u] = <<>> /\ Len(query'[u]) = 0
      BY <1>1, <2>2, EmptySeq DEF ThreadPanic, TypeOK
    <3>2. Len(response[u]) \in Nat /\ Len(query[u]) \in Nat
      BY <1>1, LenProperties DEF TypeOK
    <3>3. Due(rev_done, u) \in Int /\ Due(compute_index, u) \in Int
      BY <1>1, DueBounds, CountersAreNat
    <3>4. Due(rev_done, u) + (Len(response[u]) + Len(query[u])) * NumThreads
              <= Due(compute_index, u)
      BY <2>0 DEF Channels, Turns
    <3>5. Due(rev_done, u) + (Len(response[u]) + 0) * NumThreads <= Due(compute_index, u)
      BY <3>2, <3>3, <3>4, FewerTurns
    <3> QED BY <2>0, <3>1, <3>2, <3>5 DEF Channels, Turns, Due
  <2> QED BY <2>1, <2>2
<1>2. Ahead'
  BY DEF ThreadPanic, Pipeline, Ahead, mainVars, rev_count
<1> QED BY <1>1, <1>2 DEF Pipeline

(* Reading thread t's result moves t's turns on by one round...            *)
LEMMA TurnsRead ==
    ASSUME NEW i \in Nat, NEW j \in Nat, NEW r \in Seq(Revs), NEW q \in Seq(Revs),
           NEW live \in BOOLEAN, r # <<>>,
           Turns(i % NumThreads, i, j, r, q, live)
    PROVE  Turns(i % NumThreads, i + 1, j, Tail(r), q, live)
<1> DEFINE t == i % NumThreads
           n == Len(r)
           m == Len(q)
<1>1. /\ n \in Nat /\ m \in Nat /\ n >= 1
      /\ Tail(r) \in Seq(Revs) /\ Len(Tail(r)) = n - 1
  BY LenProperties, EmptySeq, HeadTailProperties
<1>2. \A k \in 1 .. n - 1 : Tail(r)[k] = r[k + 1]
  BY HeadTailProperties
<1>3. t \in Threads /\ Due(i, t) = i /\ Due(i + 1, t) = i + NumThreads /\ Due(j, t) \in Int
  <2>1. t \in Threads
    BY ModIsThread
  <2> QED BY <2>1, DueNow, DueNext, DueBounds
<1> HIDE DEF t, n, m
<1>4. i + NumThreads + (n - 1 + m) * NumThreads = i + (n + m) * NumThreads
  <2>1. (n + m) * NumThreads = (n - 1 + m) * NumThreads + NumThreads
    BY <1>1, ThreadsAssumption
  <2>2. (n - 1 + m) * NumThreads \in Int
    BY <1>1, ThreadsAssumption
  <2> QED BY <2>1, <2>2, ThreadsAssumption
<1>5. \A k \in Nat : i + NumThreads + k * NumThreads = i + (k + 1) * NumThreads
  <2> SUFFICES ASSUME NEW k \in Nat
               PROVE  i + NumThreads + k * NumThreads = i + (k + 1) * NumThreads
    OBVIOUS
  <2>1. (k + 1) * NumThreads = k * NumThreads + NumThreads /\ k * NumThreads \in Int
    BY ThreadsAssumption
  <2> QED BY <2>1, ThreadsAssumption
<1>6. Turns(t, i, j, r, q, live)
  BY DEF t
<1>7. ASSUME NEW k \in 1 .. n - 1
      PROVE  Tail(r)[k] = revs_to_process[i + NumThreads + (k - 1) * NumThreads + 1]
  <2>1. r[k + 1] = revs_to_process[i + ((k + 1) - 1) * NumThreads + 1]
    BY <1>1, <1>3, <1>6, <1>7 DEF Turns, n
  <2>2. i + NumThreads + (k - 1) * NumThreads = i + ((k + 1) - 1) * NumThreads
    BY <1>1, <1>5, <1>7
  <2> QED BY <1>2, <2>1, <2>2
<1>8. ASSUME NEW k \in 1 .. m
      PROVE  q[k] = revs_to_process[i + NumThreads + (n - 1 + k - 1) * NumThreads + 1]
  <2>1. q[k] = revs_to_process[i + (n + k - 1) * NumThreads + 1]
    BY <1>3, <1>6, <1>8 DEF Turns, n, m
  <2>2. n - 1 + k - 1 \in Nat /\ n + k - 1 = (n - 1 + k - 1) + 1
    BY <1>1
  <2> QED BY <1>5, <2>1, <2>2
<1> QED BY <1>1, <1>3, <1>4, <1>6, <1>7, <1>8 DEF Turns, t, n, m

(* ...sending thread t its next request, too...                            *)
LEMMA TurnsSend ==
    ASSUME NEW i \in Nat, NEW j \in Nat, NEW r \in Seq(Revs), NEW q \in Seq(Revs),
           NEW rev, rev = revs_to_process[j + 1],
           Turns(j % NumThreads, i, j, r, q, TRUE)
    PROVE  Turns(j % NumThreads, i, j + 1, r, Append(q, rev), TRUE)
<1> DEFINE t == j % NumThreads
           d == Due(i, t)
           n == Len(r)
           m == Len(q)
<1>1. /\ n \in Nat /\ m \in Nat
      /\ Len(Append(q, rev)) = m + 1 /\ Append(q, rev)[m + 1] = rev
      /\ \A k \in 1 .. m : Append(q, rev)[k] = q[k]
  OBVIOUS
<1>2. t \in Threads /\ Due(j, t) = j /\ Due(j + 1, t) = j + NumThreads /\ d \in Int
  <2>1. t \in Threads
    BY ModIsThread
  <2> QED BY <2>1, DueNow, DueNext, DueBounds
<1>3. Turns(t, i, j, r, q, TRUE)
  OBVIOUS
<1> HIDE DEF t, d, n, m
<1>4. d + (n + m) * NumThreads = j
  BY <1>2, <1>3 DEF Turns, n, m, d
<1>5. d + (n + (m + 1)) * NumThreads = j + NumThreads
  <2>1. (n + (m + 1)) * NumThreads = (n + m) * NumThreads + NumThreads
        /\ (n + m) * NumThreads \in Int
    BY <1>1, ThreadsAssumption
  <2> QED BY <1>2, <1>4, <2>1, ThreadsAssumption
<1>6. ASSUME NEW k \in 1 .. m + 1
      PROVE  Append(q, rev)[k] = revs_to_process[d + (n + k - 1) * NumThreads + 1]
  <2>1. CASE k = m + 1
    <3>1. n + k - 1 = n + m
      BY <1>1, <2>1
    <3> QED BY <1>1, <1>4, <2>1, <3>1
  <2>2. CASE k # m + 1
    <3>1. k \in 1 .. m
      BY <1>1, <1>6, <2>2
    <3> QED BY <1>1, <1>3, <3>1 DEF Turns, n, m, d
  <2> QED BY <2>1, <2>2
<1>7. \A k \in 1 .. n : r[k] = revs_to_process[d + (k - 1) * NumThreads + 1]
  BY <1>3 DEF Turns, n, d
<1>8. Due(i, t) = d /\ Len(r) = n /\ Len(Append(q, rev)) = m + 1
  BY <1>1 DEF d, n
<1>9. Turns(t, i, j + 1, r, Append(q, rev), TRUE)
  <2> DEFINE a == Append(q, rev)
  <2>1. Due(i, t) + (Len(r) + Len(a)) * NumThreads = Due(j + 1, t)
    BY <1>2, <1>5, <1>8
  <2>2. Due(j + 1, t) \in Int
    BY <1>2, ThreadsAssumption
  <2>3. \A k \in 1 .. Len(r) : r[k] = revs_to_process[Due(i, t) + (k - 1) * NumThreads + 1]
    BY <1>7, <1>8
  <2>4. \A k \in 1 .. Len(a) :
           a[k] = revs_to_process[Due(i, t) + (Len(r) + k - 1) * NumThreads + 1]
    BY <1>6, <1>8
  <2> HIDE DEF a
  <2>5. Turns(t, i, j + 1, r, a, TRUE)
    BY <2>1, <2>2, <2>3, <2>4 DEF Turns
  <2> QED BY <2>5 DEF a
<1> QED BY <1>9 DEF t

(* ...and neither touches another thread's turns.                          *)
LEMMA TurnsOther ==
    ASSUME NEW i \in Nat, NEW j \in Nat, NEW t \in Threads, NEW r, NEW q, NEW live,
           Turns(t, i, j, r, q, live)
    PROVE  /\ t # i % NumThreads => Turns(t, i + 1, j, r, q, live)
           /\ t # j % NumThreads => Turns(t, i, j + 1, r, q, live)
BY DueNext DEF Turns

LEMMA PipelineFill ==
    ASSUME TypeOK, TypeOK', Pipeline, FillBuffer
    PROVE  Pipeline'
<1> DEFINE t == compute_index % NumThreads
           rev == revs_to_process[compute_index + 1]
<1>1. /\ rev_done \in Nat /\ compute_index \in Nat /\ t \in Threads
      /\ compute_index' = compute_index + 1
      /\ UNCHANGED <<revs_to_process, rev_done, response, alive, pc>>
  BY CountersAreNat, ModIsThread DEF FillBuffer
<1>2. alive[t] = TRUE /\ query' = [query EXCEPT ![t] = Append(@, rev)]
  BY <1>1 DEF FillBuffer, SendTo, TypeOK
<1>3. ASSUME NEW u \in Threads PROVE Channels(u)'
  <2>1. Turns(u, rev_done, compute_index, response[u], query[u], alive[u])
    BY <1>3 DEF Pipeline, Running, Channels, FillBuffer
  <2>2. response[u] \in Seq(Revs) /\ query[u] \in Seq(Revs)
    BY <1>3 DEF TypeOK
  <2> HIDE DEF rev
  <2>3. Turns(u, rev_done, compute_index + 1, response[u], query'[u], alive[u])
    <3>1. CASE u = t
      <4>1. query'[u] = Append(query[u], rev)
        BY <1>2, <1>3, <3>1 DEF TypeOK
      <4> QED BY <1>1, <1>2, <2>1, <2>2, <3>1, <4>1, TurnsSend DEF rev
    <3>2. CASE u # t
      <4>1. query'[u] = query[u]
        BY <1>2, <1>3, <3>2 DEF TypeOK
      <4> QED BY <1>1, <2>1, <3>2, <4>1, TurnsOther
    <3> QED BY <3>1, <3>2
  <2> QED BY <1>1, <2>3 DEF Channels, Turns, Due
<1>4. Ahead'
  BY <1>1 DEF FillBuffer, Pipeline, Ahead
<1> QED BY <1>3, <1>4 DEF Pipeline

LEMMA PipelineStartImport ==
    ASSUME TypeOK, TypeOK', Pipeline, StartFastImport
    PROVE  Pipeline'
<1>1. UNCHANGED <<revs_to_process, compute_index, rev_done, query, response, alive>>
  BY DEF StartFastImport, threadVars
<1>2. pc = "fill" /\ pc' = "read" /\ rev_done = 0 /\ compute_index = InitialRequests
  BY DEF StartFastImport, Pipeline, Ahead
<1>3. Ahead'
  <2>1. compute_index = rev_count \/ compute_index = 0 + BufferSize * NumThreads
    <3>1. BufferSize * NumThreads \in Int
      BY ThreadsAssumption
    <3> QED BY <1>2, <3>1 DEF InitialRequests
  <2> QED BY <1>1, <1>2, <2>1 DEF Ahead, rev_count
<1>4. \A t \in Threads : Channels(t)'
  BY <1>1, <1>2, ChannelsSame DEF Pipeline, Running
<1> QED BY <1>3, <1>4 DEF Pipeline

LEMMA ModAdd ==
    ASSUME NEW a \in Int, NEW k \in Int
    PROVE  (a + k * NumThreads) % NumThreads = a % NumThreads
<1> DEFINE r == a % NumThreads
<1>1. PICK q \in Int : a = NumThreads * q + r
  BY DivMod
<1>2. r \in Threads
  BY ModIsThread
<1>3. a + k * NumThreads = NumThreads * (q + k) + r
  <2>1. NumThreads * (q + k) = NumThreads * q + k * NumThreads
    BY ThreadsAssumption
  <2>2. NumThreads * q \in Int /\ k * NumThreads \in Int /\ r \in Int
    BY <1>2, ThreadsAssumption DEF Threads
  <2> HIDE DEF r
  <2> QED BY <1>1, <2>1, <2>2
<1>4. q + k \in Int
  OBVIOUS
<1> HIDE DEF r
<1>5. (NumThreads * (q + k) + r) % NumThreads = r
  BY <1>2, <1>4, ModUnique
<1> QED BY <1>3, <1>5 DEF r

LEMMA PipelineRead ==
    ASSUME TypeOK, TypeOK', Pipeline, ReadResult
    PROVE  Pipeline'
<1> DEFINE t == rev_done % NumThreads
           rev == revs_to_process[compute_index + 1]
<1>1. /\ rev_done \in Nat /\ compute_index \in Nat /\ t \in Threads
      /\ rev_done' = rev_done + 1
      /\ UNCHANGED <<revs_to_process, alive>>
  BY CountersAreNat, ModIsThread DEF ReadResult
<1>2. response' = [response EXCEPT ![t] = Tail(@)] /\ response[t] # <<>>
  BY DEF ReadResult
<1>3. compute_index < rev_count =>
          /\ compute_index' = compute_index + 1
          /\ compute_index % NumThreads = t
          /\ alive[t] = TRUE
          /\ query' = [query EXCEPT ![t] = Append(@, rev)]
  <2> HAVE compute_index < rev_count
  <2>1. compute_index = rev_done + BufferSize * NumThreads
    BY <1>1 DEF Pipeline, Ahead, ReadResult
  <2>2. compute_index % NumThreads = t
    <3>1. rev_done \in Int /\ BufferSize \in Int
      BY <1>1, ThreadsAssumption
    <3>2. (rev_done + BufferSize * NumThreads) % NumThreads = rev_done % NumThreads
      BY <3>1, ModAdd
    <3> QED BY <2>1, <3>2
  <2> QED BY <1>1, <2>2 DEF ReadResult, SendTo, TypeOK
<1>4. compute_index = rev_count => UNCHANGED <<query, compute_index>>
  BY <1>1 DEF ReadResult
<1>5. compute_index < rev_count \/ compute_index = rev_count
  BY CountersAreNat DEF TypeOK, rev_count
<1> HIDE DEF t
<1>6. ASSUME NEW u \in Threads
      PROVE  Turns(u, rev_done + 1, compute_index, response'[u], query[u], alive[u])
  <2>1. Turns(u, rev_done, compute_index, response[u], query[u], alive[u])
    BY <1>6 DEF Pipeline, Running, Channels, ReadResult
  <2>2. response[u] \in Seq(Revs) /\ query[u] \in Seq(Revs) /\ alive[u] \in BOOLEAN
    BY <1>6 DEF TypeOK
  <2>3. CASE u = t
    <3>1. response'[u] = Tail(response[u])
      BY <1>2, <1>6, <2>3 DEF TypeOK
    <3> QED BY <1>1, <1>2, <2>1, <2>2, <2>3, <3>1, TurnsRead DEF t
  <2>4. CASE u # t
    <3>1. response'[u] = response[u]
      BY <1>2, <1>6, <2>4 DEF TypeOK
    <3> QED BY <1>1, <2>1, <2>4, <3>1, TurnsOther DEF t
  <2> QED BY <2>3, <2>4
<1>7. ASSUME NEW u \in Threads PROVE Channels(u)'
  <2>1. Turns(u, rev_done + 1, compute_index', response'[u], query'[u], alive[u])
    <3>1. CASE compute_index < rev_count /\ u = t
      <4>1. query'[u] = Append(query[u], rev)
        BY <1>3, <1>7, <3>1 DEF TypeOK
      <4>2. response'[u] \in Seq(Revs) /\ query[u] \in Seq(Revs)
        BY <1>7 DEF TypeOK
      <4>3. rev_done + 1 \in Nat /\ rev = revs_to_process[compute_index + 1]
        BY <1>1
      <4>4. compute_index % NumThreads = u /\ alive[u] = TRUE /\ compute_index' = compute_index + 1
        BY <1>3, <3>1
      <4>5. Turns(compute_index % NumThreads, rev_done + 1, compute_index,
                  response'[u], query[u], TRUE)
        BY <1>6, <1>7, <4>4
      <4> HIDE DEF rev
      <4>6. Turns(compute_index % NumThreads, rev_done + 1, compute_index + 1,
                  response'[u], Append(query[u], rev), TRUE)
        BY <1>1, <4>2, <4>3, <4>5, TurnsSend
      <4> QED BY <4>1, <4>4, <4>6
    <3>2. CASE compute_index < rev_count /\ u # t
      <4>1. query'[u] = query[u]
        BY <1>3, <1>7, <3>2 DEF TypeOK
      <4>2. rev_done + 1 \in Nat
        BY <1>1
      <4> HIDE DEF rev
      <4> QED BY <1>1, <1>3, <1>6, <1>7, <3>2, <4>1, <4>2, TurnsOther
    <3>3. CASE compute_index = rev_count
      BY <1>4, <1>6, <1>7, <3>3
    <3> QED BY <1>5, <3>1, <3>2, <3>3
  <2> QED BY <1>1, <2>1 DEF Channels, Turns, Due
<1>8. Ahead'
  <2>1. pc' = "header" /\ rev_count' = rev_count
    BY DEF ReadResult, rev_count
  <2>2. \/ compute_index = rev_done + BufferSize * NumThreads
        \/ compute_index = rev_count
    BY DEF Pipeline, Ahead, ReadResult
  <2>3. BufferSize * NumThreads \in Int
    BY ThreadsAssumption
  <2>4. \/ compute_index' = rev_done' + BufferSize * NumThreads
        \/ compute_index' = rev_count'
    <3>1. CASE compute_index < rev_count
      BY <1>1, <1>3, <2>2, <2>3, <3>1
    <3>2. CASE compute_index = rev_count
      BY <1>4, <2>1, <3>2
    <3> QED BY <1>5, <3>1, <3>2
  <2> QED BY <2>1, <2>4 DEF Ahead
<1> QED BY <1>7, <1>8 DEF Pipeline

LEMMA PipelineNext == TypeOK /\ TypeOK' /\ Pipeline /\ [Next]_vars => Pipeline'
<1> SUFFICES ASSUME TypeOK, TypeOK', Pipeline, [Next]_vars PROVE Pipeline'
  OBVIOUS
<1>1. ASSUME UNCHANGED <<revs_to_process, compute_index, rev_done, query, response, alive>>,
             \/ UNCHANGED pc
             \/ pc' = "down"
             \/ pc \in {"read", "header", "tree", "wait"}
                /\ pc' \in {"read", "header", "tree", "wait"}
      PROVE  Pipeline'
  <2>1. Ahead'
    BY <1>1 DEF Pipeline, Ahead, rev_count
  <2>2. Running' => \A t \in Threads : Channels(t)'
    BY <1>1, ChannelsSame DEF Pipeline, Running
  <2> QED BY <2>1, <2>2 DEF Pipeline
<1>2. ASSUME NEW h \in Heads, NEW limit \in Limits, Start(h, limit) PROVE Pipeline'
  BY <1>2, PipelineStart
<1>3. ASSUME NEW t \in Threads, Compute(t) PROVE Pipeline'
  BY <1>3, PipelineCompute
<1>4. ASSUME NEW t \in Threads, ThreadPanic(t) PROVE Pipeline'
  BY <1>4, PipelineThreadPanic
<1>5. CASE FillBuffer
  BY <1>5, PipelineFill
<1>6. CASE StartFastImport
  BY <1>6, PipelineStartImport
<1>7. CASE ReadResult
  BY <1>7, PipelineRead
<1>8. CASE WriteHeader
  BY <1>1, <1>8 DEF WriteHeader, threadVars
<1>9. CASE BuildBlameTree
  BY <1>1, <1>9 DEF BuildBlameTree, threadVars
<1>10. CASE ShutDown
  BY <1>1, <1>10 DEF ShutDown, threadVars
<1>11. CASE Exit
  BY <1>1, <1>11 DEF Exit, threadVars
<1>12. CASE Panic
  BY <1>1, <1>12 DEF Panic, threadVars
<1>13. CASE Kill
  BY <1>1, <1>13 DEF Kill, threadVars
<1>14. CASE EndOfInput \/ DumpBranches \/ DumpMarks \/ ImportFails
  BY <1>1, <1>14 DEF EndOfInput, DumpBranches, DumpMarks, ImportFails, threadVars, mainVars
<1>15. CASE AllRunsOver \/ UNCHANGED vars
  BY <1>1, <1>15 DEF AllRunsOver, vars, threadVars, mainVars
<1> QED BY <1>2, <1>3, <1>4, <1>5, <1>6, <1>7, <1>8, <1>9, <1>10, <1>11, <1>12,
           <1>13, <1>14, <1>15 DEF Next

(* The inductive invariant: in every running build each thread's channels  *)
(* hold exactly its turns, and requests lead results by whole rounds.      *)
THEOREM PipelineInvariant == Spec => []Pipeline
<1>1. Init => Pipeline
  BY PipelineInit
<1>2. TypeOK /\ TypeOK' /\ Pipeline /\ [Next]_vars => Pipeline'
  BY PipelineNext
<1> QED BY <1>1, <1>2, TypeCorrect, PTL DEF Spec

(* The main loop's assertion never fails: no speed of the threads and no   *)
(* fault puts another revision's result at the head of the channel that    *)
(* is read next.                                                           *)
THEOREM ResponsesInOrder == Spec => []ResponseInOrder
<1>1. TypeOK /\ Pipeline => ResponseInOrder
  <2> SUFFICES ASSUME TypeOK, Pipeline, pc = "read", rev_done < rev_count,
                      response[rev_done % NumThreads] # <<>>
               PROVE  Head(response[rev_done % NumThreads]) = revs_to_process[rev_done + 1]
    BY DEF ResponseInOrder
  <2> DEFINE t == rev_done % NumThreads
             r == response[t]
  <2>1. rev_done \in Nat /\ t \in Threads
    BY CountersAreNat, ModIsThread
  <2>2. r \in Seq(Revs) /\ Channels(t)
    BY <2>1 DEF TypeOK, Pipeline, Running
  <2>3. Due(rev_done, t) = rev_done
    BY <2>1, DueNow
  <2>4. 1 \in 1 .. Len(r) /\ Head(r) = r[1]
    BY <2>2, EmptySeq, LenProperties, HeadTailProperties
  <2>5. r[1] = revs_to_process[rev_done + (1 - 1) * NumThreads + 1]
    BY <2>2, <2>3, <2>4 DEF Channels, Turns
  <2>6. (1 - 1) * NumThreads = 0
    BY ThreadsAssumption
  <2> QED BY <2>1, <2>4, <2>5, <2>6
<1> QED BY <1>1, TypeCorrect, PipelineInvariant, PTL

-----------------------------------------------------------------------------
(* The marks.  Whatever happens, the marks file is numbered from 1 without *)
(* a gap; the table of a fast-import that is at work continues it, and its *)
(* next number is the one that the main thread gives out next.             *)

Numbered(f) == \E n \in Nat : DOMAIN f = 1 .. n

Continues(f, g) == \A n \in DOMAIN g : n \in DOMAIN f /\ f[n] = g[n]

(* How many commits this run has closed.                                   *)
Closed == IF pc \in {"header", "tree"} THEN rev_done - 1 ELSE rev_done

AtWork == fi \in {"up", "branches", "marks"}

MarksKept ==
    /\ Numbered(marks_file)
    /\ pc = "fill" => ~ AtWork /\ DOMAIN marks_file = 1 .. prev_revs_done
    /\ AtWork => Numbered(marks) /\ Continues(marks, marks_file)
    /\ AtWork /\ InputOpen => DOMAIN marks = 1 .. prev_revs_done + Closed

(* The entries that this run has written into blame_map are marks already  *)
(* given out, and the commit that is open has the last of them.            *)
EntriesKept ==
    Running => /\ \A r \in Revs : blame_map[r] > 0 =>
                      /\ pc # "fill"
                      /\ blame_map[r] <= prev_revs_done + Closed
                         \/ (pc = "tree" /\ r = CurrentRev)
               /\ pc = "tree" => blame_map[CurrentRev] = mark_id

(* A parent has an entry when the build starts, or comes earlier; what has *)
(* been read, and its header written, has its entry.                       *)
Entered == IF pc = "header" THEN rev_done - 1 ELSE rev_done

ParentsFirst ==
    Running =>
        /\ \A k \in 1 .. rev_count : \A p \in ParentsOf(revs_to_process[k]) :
               blame_map[p] # NoEntry \/ \E i \in 1 .. k - 1 : revs_to_process[i] = p
        /\ \A i \in 1 .. Entered : blame_map[revs_to_process[i]] # NoEntry

MapInv == MarksKept /\ EntriesKept /\ ParentsFirst /\ MarksResolve

LEMMA NumberedEmpty == Numbered(<<>>) /\ \A f : Continues(f, <<>>)
<1>1. DOMAIN <<>> = 1 .. 0
  OBVIOUS
<1> QED BY <1>1 DEF Numbered, Continues

LEMMA MarksInit == Init => MarksKept /\ EntriesKept /\ ParentsFirst /\ MarksResolve
BY NumberedEmpty DEF Init, MarksKept, AtWork, EntriesKept, ParentsFirst, MarksResolve,
   Running, InputOpen

(* Closing a commit adds the next number to the table.                     *)
LEMMA CloseContinues ==
    ASSUME TypeOK, MarksKept, pc = "tree", fi = "up", CloseCommit
    PROVE  /\ DOMAIN marks' = 1 .. mark_id /\ Numbered(marks')
           /\ Continues(marks', marks_file)
           /\ marks'[mark_id] = CurrentRev
           /\ \A n \in 1 .. mark_id - 1 : n \in DOMAIN marks /\ marks'[n] = marks[n]
<1>1. mark_id \in Nat \ {0} /\ CurrentRev \in Revs /\ MarkTable(marks)
  BY InTree DEF TypeOK
<1>2. mark_id = prev_revs_done + rev_done /\ prev_revs_done \in Nat /\ rev_done \in Nat
  BY CountersAreNat DEF mark_id, TypeOK
<1>3. DOMAIN marks = 1 .. mark_id - 1
  BY <1>1, <1>2 DEF MarksKept, AtWork, InputOpen, Closed
<1>4. /\ DOMAIN marks' = {mark_id} \cup DOMAIN marks
      /\ marks'[mark_id] = CurrentRev
      /\ \A n \in DOMAIN marks \ {mark_id} : marks'[n] = marks[n]
  BY <1>1, CloseCommitMarks
<1> HIDE DEF mark_id
<1>5. DOMAIN marks' = 1 .. mark_id /\ \A n \in 1 .. mark_id - 1 : marks'[n] = marks[n]
  BY <1>1, <1>3, <1>4
<1>6. Numbered(marks')
  BY <1>1, <1>5 DEF Numbered
<1>7. Continues(marks, marks_file)
  BY DEF MarksKept, AtWork
<1>8. Continues(marks', marks_file)
  BY <1>1, <1>3, <1>5, <1>7 DEF Continues
<1> QED BY <1>3, <1>4, <1>5, <1>6, <1>8

LEMMA StartMarks ==
    ASSUME TypeOK, MarksKept, NEW h \in Heads, NEW limit \in Limits, Start(h, limit)
    PROVE  MarksKept'
<1>1. /\ ~ AtWork /\ UNCHANGED <<fi, marks, marks_file>> /\ pc' = "fill"
      /\ prev_revs_done' = Cardinality(DOMAIN marks_file)
  BY DEF Start, AtWork, importVars, durableVars
<1>2. PICK n \in Nat : DOMAIN marks_file = 1 .. n
  BY DEF MarksKept, Numbered
<1>3. prev_revs_done' = n
  BY <1>1, <1>2, FS_Interval
<1> QED BY <1>1, <1>2, <1>3 DEF MarksKept, AtWork, InputOpen, Numbered

LEMMA MarksNext == TypeOK /\ Pipeline /\ MarksKept /\ [Next]_vars => MarksKept'
<1> SUFFICES ASSUME TypeOK, Pipeline, MarksKept, [Next]_vars PROVE MarksKept'
  OBVIOUS
<1>0. rev_done \in Nat /\ prev_revs_done \in Nat
  BY CountersAreNat DEF TypeOK
<1>1. ASSUME NEW h \in Heads, NEW limit \in Limits, Start(h, limit) PROVE MarksKept'
  BY <1>1, StartMarks
(* A step that leaves the tables and their numbers alone. *)
<1>2. ASSUME UNCHANGED <<marks, marks_file, prev_revs_done>>,
             pc' = "fill" => UNCHANGED <<pc, fi>>,
             AtWork' => AtWork,
             (AtWork /\ InputOpen)' => UNCHANGED Closed /\ InputOpen
      PROVE  MarksKept'
  <2>1. Numbered(marks_file') /\ (AtWork => Numbered(marks') /\ Continues(marks', marks_file'))
    BY <1>2 DEF MarksKept
  <2>2. (pc = "fill" => ~ AtWork /\ DOMAIN marks_file = 1 .. prev_revs_done)'
    BY <1>2 DEF MarksKept, AtWork
  <2>3. (AtWork /\ InputOpen => DOMAIN marks = 1 .. prev_revs_done + Closed)'
    BY <1>2 DEF MarksKept
  <2> QED BY <1>2, <2>1, <2>2, <2>3 DEF MarksKept, Numbered, Continues
<1>3. ASSUME NEW t \in Threads, Compute(t) \/ ThreadPanic(t) PROVE MarksKept'
  BY <1>2, <1>3 DEF Compute, ThreadPanic, mainVars, importVars, durableVars, AtWork, InputOpen, Closed
<1>4. CASE FillBuffer
  BY <1>2, <1>4 DEF FillBuffer, importVars, durableVars, AtWork, InputOpen, Closed
<1>5. CASE StartFastImport
  <2>1. /\ pc = "fill" /\ pc' = "read" /\ fi' = "up" /\ rev_done' = 0 /\ marks' = marks_file
        /\ UNCHANGED <<marks_file, prev_revs_done>>
    BY <1>5 DEF StartFastImport, durableVars, Pipeline, Ahead
  <2>2. DOMAIN marks_file = 1 .. prev_revs_done /\ Numbered(marks_file)
    BY <2>1 DEF MarksKept
  <2>3. prev_revs_done + 0 = prev_revs_done
    BY <1>0
  <2> QED BY <2>1, <2>2, <2>3 DEF MarksKept, AtWork, InputOpen, Closed, Numbered, Continues
<1>6. CASE ReadResult
  <2>1. pc = "read" /\ pc' = "header" /\ rev_done' = rev_done + 1
    BY <1>6 DEF ReadResult
  <2>2. Closed' = Closed
    BY <1>0, <2>1 DEF Closed
  <2> QED BY <1>2, <1>6, <2>1, <2>2 DEF ReadResult, importVars, durableVars, AtWork, InputOpen
<1>7. CASE WriteHeader
  BY <1>2, <1>7 DEF WriteHeader, importVars, durableVars, AtWork, InputOpen, Closed
<1>8. CASE BuildBlameTree
  <2>1. /\ pc = "tree" /\ fi = "up" /\ CloseCommit /\ pc' = "read" /\ AtWork'
        /\ UNCHANGED <<rev_done, prev_revs_done, marks_file>>
    BY <1>8 DEF BuildBlameTree, durableVars, AtWork
  <2>2. /\ DOMAIN marks' = 1 .. mark_id /\ Numbered(marks') /\ Continues(marks', marks_file)
    BY <2>1, CloseContinues
  <2>3. mark_id = prev_revs_done + rev_done
    BY <1>0 DEF mark_id
  <2> QED BY <2>1, <2>2, <2>3 DEF MarksKept, AtWork, InputOpen, Closed, Numbered, Continues
<1>9. CASE ShutDown
  BY <1>2, <1>9 DEF ShutDown, importVars, durableVars, AtWork, InputOpen
<1>10. CASE Exit
  BY <1>10, NumberedEmpty DEF Exit, MarksKept, importVars, AtWork, InputOpen, Numbered
<1>11. CASE Panic
  <2>1. pc' = "down" /\ UNCHANGED <<fi, prev_revs_done, marks_file>>
    BY <1>11 DEF Panic, durableVars
  <2>2. CASE UNCHANGED marks
    BY <1>2, <2>1, <2>2 DEF AtWork, InputOpen
  <2>3. CASE TreePanic /\ CloseCommit
    <3>1. Numbered(marks') /\ Continues(marks', marks_file)
      BY <2>3, CloseContinues DEF TreePanic
    <3> QED BY <2>1, <3>1 DEF MarksKept, AtWork, InputOpen, Numbered, Continues
  <2> QED BY <1>11, <2>2, <2>3 DEF Panic
<1>12. CASE Kill
  BY <1>2, <1>12 DEF Kill, durableVars, AtWork, InputOpen
<1>13. CASE EndOfInput \/ DumpBranches
  <2>1. UNCHANGED <<pc, rev_done, marks, marks_file, prev_revs_done>>
    BY <1>13 DEF EndOfInput, DumpBranches, mainVars, durableVars
  <2>2. AtWork /\ AtWork'
    BY <1>13 DEF EndOfInput, DumpBranches, AtWork
  <2>3. pc # "fill"
    BY <2>2 DEF MarksKept
  <2>4. UNCHANGED <<Closed, InputOpen>>
    BY <2>1 DEF Closed, InputOpen
  <2> QED BY <1>2, <2>1, <2>2, <2>3, <2>4
<1>14. CASE DumpMarks
  <2>1. /\ AtWork /\ marks_file' = marks /\ marks' = marks
        /\ UNCHANGED <<pc, rev_done, prev_revs_done>>
    BY <1>14 DEF DumpMarks, mainVars, AtWork
  <2>2. pc # "fill" /\ Numbered(marks)
    BY <2>1 DEF MarksKept
  <2>3. Closed' = Closed /\ InputOpen' = InputOpen
    BY <2>1 DEF Closed, InputOpen
  <2> QED BY <2>1, <2>2, <2>3 DEF MarksKept, Numbered, Continues
<1>15. CASE ImportFails
  <2>1. /\ AtWork /\ ~ AtWork' /\ UNCHANGED <<pc, prev_revs_done>>
        /\ marks_file' \in {marks_file, marks}
    BY <1>15 DEF ImportFails, mainVars, AtWork
  <2>2. pc # "fill" /\ Numbered(marks) /\ Numbered(marks_file)
    BY <2>1 DEF MarksKept
  <2> QED BY <2>1, <2>2 DEF MarksKept, Numbered
<1>16. CASE AllRunsOver \/ UNCHANGED vars
  BY <1>2, <1>16 DEF AllRunsOver, vars, mainVars, importVars, durableVars, AtWork, InputOpen, Closed
<1> QED BY <1>1, <1>3, <1>4, <1>5, <1>6, <1>7, <1>8, <1>9, <1>10, <1>11, <1>12, <1>13,
           <1>14, <1>15, <1>16 DEF Next

-----------------------------------------------------------------------------
(* What blame_map says of a revision is a mark already given to it, and    *)
(* the table of fast-import has it from the moment the commit is closed.   *)

LEMMA EntriesNext == TypeOK /\ EntriesKept /\ [Next]_vars => EntriesKept'
<1> SUFFICES ASSUME TypeOK, EntriesKept, [Next]_vars PROVE EntriesKept'
  OBVIOUS
<1>0. /\ rev_done \in Nat /\ prev_revs_done \in Nat
      /\ blame_map \in [Revs -> {NoEntry} \cup Nat]
  BY CountersAreNat DEF TypeOK
(* A step that leaves the entries and their numbers alone. *)
<1>1. ASSUME UNCHANGED <<blame_map, revs_to_process, rev_done, prev_revs_done>>,
             \/ UNCHANGED pc
             \/ pc' = "down"
             \/ pc = "fill" /\ pc' = "read"
             \/ pc = "read" /\ pc' = "wait"
      PROVE  EntriesKept'
  <2>1. CASE pc' = "down"
    BY <2>1 DEF EntriesKept, Running
  <2>2. CASE UNCHANGED pc
    BY <1>1, <2>2 DEF EntriesKept, Running, Closed, CurrentRev, mark_id
  <2>3. CASE pc = "fill" /\ pc' = "read"
    BY <1>1, <2>3 DEF EntriesKept, Running, Closed, CurrentRev, mark_id
  <2>4. CASE pc = "read" /\ pc' = "wait"
    BY <1>1, <2>4 DEF EntriesKept, Running, Closed, CurrentRev, mark_id
  <2> QED BY <1>1, <2>1, <2>2, <2>3, <2>4
<1>2. ASSUME NEW h \in Heads, NEW limit \in Limits, Start(h, limit) PROVE EntriesKept'
  BY <1>2 DEF Start, EntriesKept
<1>3. ASSUME NEW t \in Threads, Compute(t) \/ ThreadPanic(t) PROVE EntriesKept'
  BY <1>1, <1>3 DEF Compute, ThreadPanic, mainVars
<1>4. CASE FillBuffer \/ StartFastImport \/ ShutDown \/ Exit
  BY <1>1, <1>4 DEF FillBuffer, StartFastImport, ShutDown, Exit
<1>5. CASE ReadResult
  <2>1. /\ pc = "read" /\ pc' = "header" /\ rev_done' = rev_done + 1
        /\ UNCHANGED <<blame_map, prev_revs_done>>
    BY <1>5 DEF ReadResult
  <2>2. Closed' = Closed
    BY <1>0, <2>1 DEF Closed
  <2>3. ASSUME NEW r \in Revs, blame_map[r] > 0 PROVE blame_map[r] <= prev_revs_done + Closed
    BY <2>1, <2>3 DEF EntriesKept, Running
  <2> QED BY <2>1, <2>2, <2>3 DEF EntriesKept
<1>6. CASE WriteHeader
  <2>1. /\ pc = "header" /\ pc' = "tree" /\ UNCHANGED <<revs_to_process, rev_done, prev_revs_done>>
        /\ blame_map' = [blame_map EXCEPT ![CurrentRev] = mark_id]
    BY <1>6 DEF WriteHeader
  <2>2. UNCHANGED <<Closed, CurrentRev, mark_id>>
    BY <2>1 DEF Closed, CurrentRev, mark_id
  <2>3. CurrentRev \in Revs
    BY <2>1, InTree
  <2>4. blame_map'[CurrentRev] = mark_id
    BY <1>0, <2>1, <2>3
  <2>5. ASSUME NEW r \in Revs, blame_map'[r] > 0, r # CurrentRev
        PROVE  blame_map'[r] <= prev_revs_done + Closed
    <3>1. blame_map'[r] = blame_map[r]
      BY <1>0, <2>1, <2>5
    <3> QED BY <2>1, <2>5, <3>1 DEF EntriesKept, Running
  <2> QED BY <2>1, <2>2, <2>4, <2>5 DEF EntriesKept
<1>7. CASE BuildBlameTree
  <2>1. /\ pc = "tree" /\ pc' = "read"
        /\ UNCHANGED <<blame_map, revs_to_process, rev_done, prev_revs_done>>
    BY <1>7 DEF BuildBlameTree
  <2>2. Closed = rev_done - 1 /\ Closed' = rev_done /\ mark_id = prev_revs_done + rev_done
    BY <1>0, <2>1 DEF Closed, mark_id
  <2>3. ASSUME NEW r \in Revs, blame_map[r] > 0 PROVE blame_map[r] <= prev_revs_done + rev_done
    <3>1. blame_map[r] <= prev_revs_done + Closed \/ blame_map[r] = mark_id
      BY <2>1, <2>3 DEF EntriesKept, Running
    <3>2. blame_map[r] \in Int
      BY <1>0
    <3> QED BY <1>0, <2>2, <3>1, <3>2
  <2> QED BY <2>1, <2>2, <2>3 DEF EntriesKept
<1>8. CASE Panic \/ Kill
  BY <1>1, <1>8 DEF Panic, Kill
<1>9. CASE ImportFails \/ EndOfInput \/ DumpBranches \/ DumpMarks
  BY <1>1, <1>9 DEF ImportFails, EndOfInput, DumpBranches, DumpMarks, mainVars
<1>10. CASE AllRunsOver \/ UNCHANGED vars
  BY <1>1, <1>10 DEF AllRunsOver, vars, mainVars
<1> QED BY <1>2, <1>3, <1>4, <1>5, <1>6, <1>7, <1>8, <1>9, <1>10 DEF Next

LEMMA MarksResolveNext ==
    TypeOK /\ MarksKept /\ EntriesKept /\ MarksResolve /\ [Next]_vars => MarksResolve'
<1> SUFFICES ASSUME TypeOK, MarksKept, EntriesKept, MarksResolve, [Next]_vars
             PROVE  MarksResolve'
  OBVIOUS
<1>0. /\ rev_done \in Nat /\ prev_revs_done \in Nat
      /\ blame_map \in [Revs -> {NoEntry} \cup Nat]
  BY CountersAreNat DEF TypeOK
<1>1. ASSUME ~ InputOpen' PROVE MarksResolve'
  BY <1>1 DEF MarksResolve
(* A step that leaves entries and marks alone. *)
<1>2. ASSUME UNCHANGED <<blame_map, marks>>,
             \/ UNCHANGED <<pc, revs_to_process, rev_done>>
             \/ ~ InputOpen'
             \/ pc = "read" /\ pc' = "header"
      PROVE  MarksResolve'
  BY <1>2 DEF MarksResolve, InputOpen, CurrentRev
<1>3. ASSUME NEW h \in Heads, NEW limit \in Limits, Start(h, limit) PROVE MarksResolve'
  BY <1>1, <1>3 DEF Start, InputOpen
<1>4. ASSUME NEW t \in Threads, Compute(t) \/ ThreadPanic(t) PROVE MarksResolve'
  BY <1>2, <1>4 DEF Compute, ThreadPanic, mainVars, importVars
<1>5. CASE FillBuffer \/ ShutDown \/ Exit \/ Kill \/ Panic
  BY <1>1, <1>5 DEF FillBuffer, ShutDown, Exit, Kill, Panic, InputOpen
<1>6. CASE StartFastImport
  <2>1. pc = "fill" /\ UNCHANGED blame_map
    BY <1>6 DEF StartFastImport
  <2>2. \A r \in Revs : ~ (blame_map[r] > 0)
    BY <2>1 DEF EntriesKept, Running
  <2> QED BY <2>1, <2>2 DEF MarksResolve
<1>7. CASE ReadResult
  BY <1>2, <1>7 DEF ReadResult, importVars
<1>8. CASE WriteHeader
  <2>1. /\ pc = "header" /\ pc' = "tree" /\ UNCHANGED <<revs_to_process, rev_done, marks>>
        /\ blame_map' = [blame_map EXCEPT ![CurrentRev] = mark_id]
    BY <1>8 DEF WriteHeader, importVars
  <2>2. CurrentRev' = CurrentRev
    BY <2>1 DEF CurrentRev
  <2>3. ASSUME NEW r \in Revs, r # CurrentRev PROVE blame_map'[r] = blame_map[r]
    BY <1>0, <2>1, <2>3
  <2> QED BY <2>1, <2>2, <2>3 DEF MarksResolve, InputOpen
<1>9. CASE BuildBlameTree
  <2>1. /\ pc = "tree" /\ fi = "up" /\ CloseCommit /\ pc' = "read"
        /\ UNCHANGED <<blame_map, revs_to_process, rev_done, prev_revs_done>>
    BY <1>9 DEF BuildBlameTree
  <2>2. /\ DOMAIN marks' = 1 .. mark_id
        /\ marks'[mark_id] = CurrentRev
        /\ \A n \in 1 .. mark_id - 1 : n \in DOMAIN marks /\ marks'[n] = marks[n]
    BY <2>1, CloseContinues
  <2>3. mark_id = prev_revs_done + rev_done /\ Closed = rev_done - 1 /\ mark_id \in Nat \ {0}
    BY <1>0, <2>1, InTree DEF Closed, mark_id
  <2>4. ASSUME NEW r \in Revs, blame_map[r] > 0
        PROVE  blame_map[r] \in DOMAIN marks' /\ marks'[blame_map[r]] = r
    <3>1. CASE r = CurrentRev
      <4>1. blame_map[r] = mark_id
        BY <2>1, <3>1 DEF EntriesKept, Running
      <4> QED BY <2>2, <2>3, <3>1, <4>1
    <3>2. CASE r # CurrentRev
      <4>1. blame_map[r] <= prev_revs_done + Closed
        BY <2>1, <2>4, <3>2 DEF EntriesKept, Running
      <4>2. blame_map[r] \in Nat
        BY <1>0, <2>4
      <4>3. blame_map[r] \in 1 .. mark_id - 1
        BY <1>0, <2>3, <2>4, <4>1, <4>2
      <4>4. marks[blame_map[r]] = r
        BY <2>1, <2>4, <3>2 DEF MarksResolve, InputOpen
      <4> QED BY <2>2, <2>3, <4>3, <4>4
    <3> QED BY <3>1, <3>2
  <2> QED BY <2>1, <2>4 DEF MarksResolve
<1>10. CASE ImportFails \/ EndOfInput \/ DumpBranches \/ DumpMarks
  BY <1>2, <1>10 DEF ImportFails, EndOfInput, DumpBranches, DumpMarks, mainVars
<1>11. CASE AllRunsOver \/ UNCHANGED vars
  BY <1>2, <1>11 DEF AllRunsOver, vars, mainVars, importVars
<1> QED BY <1>3, <1>4, <1>5, <1>6, <1>7, <1>8, <1>9, <1>10, <1>11 DEF Next

-----------------------------------------------------------------------------
(* Parents come first.                                                     *)

LEMMA ParentsAreRevs == \A r \in Revs : ParentsOf(r) \subseteq Revs
<1> SUFFICES ASSUME NEW r \in Revs, NEW p \in ParentsOf(r) PROVE p \in Revs
  OBVIOUS
<1>1. Parents[r] \in Seq(Revs)
  BY RevsAssumption
<1>2. PICK i \in DOMAIN Parents[r] : Parents[r][i] = p
  BY DEF ParentsOf, Range
<1> QED BY <1>1, <1>2, ElementOfSeq, LenProperties

LEMMA AncestorsClosed ==
    ASSUME NEW r \in Revs, NEW a \in Ancestors[r]
    PROVE  a \in Revs /\ ParentsOf(a) \subseteq Ancestors[r]
<1>1. a \in Revs /\ ParentsOf(a) \subseteq Revs
  BY AncestorsAreRevs, ParentsAreRevs
<1>2. ASSUME NEW S \in SUBSET Revs, r \in S, \A x \in S : ParentsOf(x) \subseteq S
      PROVE  ParentsOf(a) \subseteq S
  BY <1>2 DEF Ancestors
<1> QED BY <1>1, <1>2 DEF Ancestors

(* In walk order, a parent that is in the list comes before its child.     *)
LEMMA WalkParents ==
    ASSUME NEW h \in Heads, NEW S \in SUBSET Ancestors[h], NEW s, InWalkOrder(s, S, h),
           DOMAIN s \subseteq Nat, NEW k \in DOMAIN s, NEW i \in DOMAIN s,
           s[i] \in ParentsOf(s[k])
    PROVE  i < k
<1> DEFINE W == Walk[h]
<1>1. /\ Range(W) = Ancestors[h] /\ W \in Seq(Revs)
      /\ \A x, y \in DOMAIN W : W[x] = W[y] => x = y
      /\ \A x \in DOMAIN W : \A p \in ParentsOf(W[x]) : \E y \in 1 .. x - 1 : W[y] = p
  BY WalkAssumption
<1>2. DOMAIN W = 1 .. Len(W) /\ Len(W) \in Nat
  BY <1>1, LenProperties
<1>3. s[k] \in Range(W) /\ i \in Nat /\ k \in Nat
  BY <1>1 DEF InWalkOrder, Range
<1>4. PICK m \in DOMAIN W : W[m] = s[k]
  BY <1>3 DEF Range
<1>5. PICK j \in 1 .. m - 1 : W[j] = s[i]
  BY <1>1, <1>4
<1>6. j \in DOMAIN W /\ j < m
  BY <1>2, <1>4, <1>5
<1>7. CASE i = k
  BY <1>1, <1>2, <1>4, <1>5, <1>6, <1>7
<1>8. CASE k < i
  <2>1. PICK x, y \in DOMAIN W : x < y /\ W[x] = s[k] /\ W[y] = s[i]
    BY <1>8 DEF InWalkOrder
  <2>2. x = m /\ y = j
    BY <1>1, <1>4, <1>5, <1>6, <2>1
  <2> QED BY <1>2, <1>6, <2>1, <2>2
<1> QED BY <1>3, <1>7, <1>8

LEMMA ParentsStart ==
    ASSUME TypeOK, NEW h \in Heads, NEW limit \in Limits, Start(h, limit)
    PROVE  ParentsFirst'
<1> DEFINE todo == Ancestors[h] \ Recorded
<1>1. PICK s \in [1 .. Cardinality(todo) -> todo] :
          InWalkOrder(s, todo, h) /\ revs_to_process' = Truncate(s, limit)
  BY DEF Start
<1>2. todo \subseteq Revs /\ Cardinality(todo) \in Nat /\ h \in Revs
  BY TodoIsFinite, AncestorsAreRevs, RevsAssumption
<1> DEFINE n == Cardinality(todo)
<1>3. s \in Seq(Revs) /\ DOMAIN s = 1 .. n /\ Len(s) = n
  <2>1. \A i \in 1 .. n : s[i] \in Revs
    BY <1>1, <1>2
  <2>2. s = [i \in 1 .. n |-> s[i]] /\ n \in Nat
    BY <1>1, <1>2
  <2> HIDE DEF n, todo
  <2>3. [i \in 1 .. n |-> s[i]] \in Seq(Revs)
    BY <2>1, <2>2
  <2>4. Len([i \in 1 .. n |-> s[i]]) = n
    BY <2>2
  <2> QED BY <2>2, <2>3, <2>4, LenProperties
<1>4. /\ rev_count' \in Nat /\ n \in Nat /\ rev_count' <= n
      /\ \A i \in 1 .. rev_count' : revs_to_process'[i] = s[i]
  BY <1>1, <1>2, <1>3, TruncateType, LenProperties, LimitsAssumption DEF rev_count
<1>5. /\ blame_map' = [r \in Revs |-> IF r \in Recorded THEN OnDisk ELSE NoEntry]
      /\ pc' = "fill" /\ rev_done' = 0
  BY DEF Start
<1>6. ASSUME NEW k \in 1 .. rev_count', NEW p \in ParentsOf(revs_to_process'[k])
      PROVE  \/ blame_map'[p] # NoEntry
             \/ \E i \in 1 .. k - 1 : revs_to_process'[i] = p
  <2>1. k \in 1 .. n /\ k \in Nat /\ revs_to_process'[k] = s[k]
    <3> HIDE DEF n
    <3>1. k \in Nat /\ 1 <= k /\ k <= rev_count' /\ rev_count' \in Nat
      BY <1>4, <1>6
    <3>2. n \in Nat /\ rev_count' <= n
      BY <1>4
    <3>3. k \in 1 .. n
      BY <3>1, <3>2
    <3>4. revs_to_process'[k] = s[k]
      BY <1>4, <1>6
    <3> QED BY <3>1, <3>3, <3>4
  <2>2. s[k] \in todo
    BY <1>1, <2>1
  <2>3. p \in Ancestors[h] /\ p \in Revs
    <3>1. s[k] \in Ancestors[h] /\ p \in ParentsOf(s[k])
      BY <1>6, <2>1, <2>2
    <3> QED BY <1>2, <3>1, AncestorsClosed, AncestorsAreRevs
  <2>4. CASE p \in Recorded
    BY <1>5, <2>3, <2>4
  <2>5. CASE p \in todo
    <3>0. Range(s) = todo
      BY <1>1 DEF InWalkOrder
    <3>1. PICK i \in DOMAIN s : s[i] = p
      <4> HIDE DEF todo
      <4> QED BY <2>5, <3>0 DEF Range
    <3>2. DOMAIN s \subseteq Nat /\ i \in DOMAIN s /\ k \in DOMAIN s
      BY <1>3, <2>1
    <3>3. s[i] \in ParentsOf(s[k]) /\ todo \in SUBSET Ancestors[h]
      BY <1>6, <2>1, <3>1
    <3> HIDE DEF todo
    <3>4. i < k
      BY <1>1, <3>2, <3>3, WalkParents
    <3>5. i \in 1 .. k - 1 /\ i \in 1 .. rev_count'
      BY <1>3, <1>4, <2>1, <3>2, <3>4
    <3> QED BY <1>4, <3>1, <3>5
  <2> QED BY <2>3, <2>4, <2>5
<1> HIDE DEF n
<1>7. Entered' = 0
  BY <1>5 DEF Entered
<1> QED BY <1>6, <1>7 DEF ParentsFirst

LEMMA ParentsNext == TypeOK /\ ParentsFirst /\ [Next]_vars => ParentsFirst'
<1> SUFFICES ASSUME TypeOK, ParentsFirst, [Next]_vars PROVE ParentsFirst'
  OBVIOUS
<1>0. /\ rev_done \in Nat /\ prev_revs_done \in Nat
      /\ blame_map \in [Revs -> {NoEntry} \cup Nat]
  BY CountersAreNat DEF TypeOK
(* A step after which at least the same revisions have entries. *)
<1>1. ASSUME Running' => Running, UNCHANGED revs_to_process,
             Running' => UNCHANGED <<blame_map, Entered>>
      PROVE  ParentsFirst'
  BY <1>1 DEF ParentsFirst, rev_count
<1>2. ASSUME NEW h \in Heads, NEW limit \in Limits, Start(h, limit) PROVE ParentsFirst'
  BY <1>2, ParentsStart
<1>3. ASSUME NEW t \in Threads, Compute(t) \/ ThreadPanic(t) PROVE ParentsFirst'
  BY <1>1, <1>3 DEF Compute, ThreadPanic, mainVars, Running, Entered
<1>4. CASE FillBuffer \/ StartFastImport \/ ShutDown \/ Exit
  BY <1>1, <1>4 DEF FillBuffer, StartFastImport, ShutDown, Exit, Running, Entered
<1>5. CASE ReadResult
  <2>1. /\ pc = "read" /\ pc' = "header" /\ rev_done' = rev_done + 1
        /\ UNCHANGED <<blame_map, revs_to_process>>
    BY <1>5 DEF ReadResult
  <2>2. Entered' = Entered
    BY <1>0, <2>1 DEF Entered
  <2> QED BY <1>1, <2>1, <2>2 DEF Running
<1>6. CASE WriteHeader
  <2>1. /\ pc = "header" /\ pc' = "tree" /\ UNCHANGED <<revs_to_process, rev_done>>
        /\ blame_map' = [blame_map EXCEPT ![CurrentRev] = mark_id]
    BY <1>6 DEF WriteHeader
  <2>2. mark_id \in Nat \ {0} /\ CurrentRev \in Revs
    BY <2>1, InTree
  <2>3. Entered = rev_done - 1 /\ Entered' = rev_done
    BY <2>1 DEF Entered
  <2>4. rev_count' = rev_count
    BY <2>1 DEF rev_count
  <2>5. blame_map'[CurrentRev] # NoEntry
    BY <1>0, <2>1, <2>2
  <2>6. ASSUME NEW p \in Revs, blame_map[p] # NoEntry PROVE blame_map'[p] # NoEntry
    BY <1>0, <2>1, <2>2, <2>6
  <2>7. ASSUME NEW k \in 1 .. rev_count PROVE revs_to_process[k] \in Revs
    BY <2>7, ElementOfSeq DEF TypeOK, rev_count
  <2>8. ASSUME NEW k \in 1 .. rev_count, NEW p \in ParentsOf(revs_to_process[k])
        PROVE  blame_map'[p] # NoEntry \/ \E i \in 1 .. k - 1 : revs_to_process[i] = p
    <3>1. p \in Revs
      BY <2>7, <2>8, ParentsAreRevs
    <3>2. blame_map[p] # NoEntry \/ \E i \in 1 .. k - 1 : revs_to_process[i] = p
      BY <2>1, <2>8 DEF ParentsFirst, Running
    <3> QED BY <2>6, <3>1, <3>2
  <2>9. ASSUME NEW i \in 1 .. rev_done PROVE blame_map'[revs_to_process[i]] # NoEntry
    <3>1. rev_done \in 1 .. rev_count
      BY <2>1, InTree
    <3>2. CASE i = rev_done
      BY <2>5, <3>2 DEF CurrentRev
    <3>3. CASE i # rev_done
      <4>1. i \in 1 .. Entered /\ revs_to_process[i] \in Revs
        BY <1>0, <2>3, <2>7, <2>9, <3>1, <3>3, CountersAreNat
      <4>2. blame_map[revs_to_process[i]] # NoEntry
        BY <2>1, <4>1 DEF ParentsFirst, Running
      <4> QED BY <2>6, <4>1, <4>2
    <3> QED BY <3>2, <3>3
  <2> QED BY <2>1, <2>3, <2>4, <2>8, <2>9 DEF ParentsFirst
<1>7. CASE BuildBlameTree
  BY <1>1, <1>7 DEF BuildBlameTree, Running, Entered
<1>8. CASE Panic \/ Kill
  BY <1>1, <1>8 DEF Panic, Kill, Running
<1>9. CASE ImportFails \/ EndOfInput \/ DumpBranches \/ DumpMarks
  BY <1>1, <1>9 DEF ImportFails, EndOfInput, DumpBranches, DumpMarks, mainVars, Running, Entered
<1>10. CASE AllRunsOver \/ UNCHANGED vars
  BY <1>1, <1>10 DEF AllRunsOver, vars, mainVars, Running, Entered
<1> QED BY <1>2, <1>3, <1>4, <1>5, <1>6, <1>7, <1>8, <1>9, <1>10 DEF Next

(* blame_map is complete and true, for every history, number of threads,   *)
(* limit, checkpoint interval and combination of faults, and however often *)
(* the build is started: no commit is written before its parents have an   *)
(* entry, and an entry that is a mark still names its revision's commit.   *)
THEOREM BlameMapIsTrue == Spec => []BlameMapTrue
<1>1. Init => MapInv
  BY MarksInit DEF MapInv
<1>2. TypeOK /\ Pipeline /\ MapInv /\ [Next]_vars => MapInv'
  BY MarksNext, EntriesNext, ParentsNext, MarksResolveNext DEF MapInv
<1>3. TypeOK /\ MapInv => BlameMapTrue
  <2> SUFFICES ASSUME TypeOK, MapInv, pc = "header", NEW p \in ParentsOf(CurrentRev)
               PROVE  blame_map[p] # NoEntry
    BY DEF BlameMapTrue, ParentsMapped, ParentsInMap, MapInv
  <2>1. rev_done \in 1 .. rev_count /\ rev_done \in Nat
    BY InTree, CountersAreNat
  <2>2. blame_map[p] # NoEntry \/ \E i \in 1 .. rev_done - 1 : revs_to_process[i] = p
    BY <2>1 DEF MapInv, ParentsFirst, Running, CurrentRev
  <2>3. \A i \in 1 .. rev_done - 1 : blame_map[revs_to_process[i]] # NoEntry
    BY DEF MapInv, ParentsFirst, Running, Entered
  <2> QED BY <2>2, <2>3
<1> QED BY <1>1, <1>2, <1>3, TypeCorrect, PipelineInvariant, PTL DEF Spec

(* No mark in the marks file is ever given to another revision, not by a   *)
(* checkpoint, by a fast-import that fails or by a later build.            *)
THEOREM MarksNotClobbered == Spec => NoMarkClobbered
<1> DEFINE Kept == \A n \in DOMAIN marks_file : n \in DOMAIN marks_file' =>
                       marks_file'[n] = marks_file[n]
<1>1. Init => MarksKept
  BY MarksInit
<1>2. TypeOK /\ Pipeline /\ MarksKept /\ [Next]_vars => MarksKept'
  BY MarksNext
<1>3. MarksKept /\ [Next]_vars => [Kept]_vars
  <2> SUFFICES ASSUME MarksKept, Next PROVE Kept
    BY DEF Kept
  <2>1. CASE marks_file' = marks_file \/ marks_file' = <<>>
    BY <2>1
  <2>2. CASE (DumpMarks \/ ImportFails) /\ marks_file' = marks
    <3>1. Continues(marks, marks_file)
      BY <2>2 DEF DumpMarks, ImportFails, MarksKept, AtWork
    <3> QED BY <2>2, <3>1 DEF Continues
  <2> QED BY <2>1, <2>2 DEF Next, Start, Compute, ThreadPanic, FillBuffer, StartFastImport,
        ReadResult, WriteHeader, BuildBlameTree, ShutDown, Exit, Panic, Kill, ImportFails,
        EndOfInput, DumpBranches, DumpMarks, AllRunsOver, vars, durableVars
<1> QED BY <1>1, <1>2, <1>3, TypeCorrect, PipelineInvariant, PTL DEF Spec, NoMarkClobbered

-----------------------------------------------------------------------------
(* The refinement of BlameStore.  The source branch only moves forward: of *)
(* two heads that builds see, one has the other's history, and what came   *)
(* since then is a chain on top of the older head.  The history below the  *)
(* oldest head may have any shape.                                         *)

FastForward(g, h) ==
    /\ Ancestors[g] \subseteq Ancestors[h]
    /\ \A r \in Ancestors[h] \ Ancestors[g] :
           /\ Ancestors[g] \subseteq Ancestors[r]
           /\ \A q \in Ancestors[h] \ Ancestors[g] : q \in Ancestors[r] \/ r \in Ancestors[q]

ForwardOnly == \A g, h \in Heads : FastForward(g, h) \/ FastForward(h, g)

(* fast-import and the machine do not fail: after a failed fast-import the *)
(* marks file is deleted all the same, and a machine that stops between    *)
(* the dumps of the branch and of the marks leaves a ref without marks,    *)
(* which the next build's checkpoints may point elsewhere.                 *)
MainThreadFaults == Faults \subseteq {"thread", "panic"}

Upstream == UNION {Ancestors[h] : h \in Heads}

ParentClosed(S) == \A r \in S : ParentsOf(r) \subseteq S

(* What the store knows: on disk, or in the table of a fast-import.        *)
KnownRevs == Recorded \cup (IF fi \in {"done", "dead"} THEN {} ELSE Range(marks))

(* Nothing in K descends from r but r itself.                              *)
Top(r, K) == r \in K /\ \A q \in K : r \in Ancestors[q] => q = r

HeadIn(S) == \E g \in Heads : g \in S

(* What the ref and the marks file have between them.  The ref is the last *)
(* commit that was made, and its history is in the marks too until a head  *)
(* is in it; from then on it has everything.                               *)
DiskInv ==
    /\ fi # "dead"
    /\ KnownRevs \subseteq Upstream /\ ParentClosed(KnownRevs) /\ ParentClosed(Recorded)
    /\ AtWork /\ tip # NoRev => Top(tip, KnownRevs)
    /\ AtWork /\ tip = NoRev => marks = marks_file
    /\ fi = "marks" /\ tip # NoRev => ref = tip
    /\ \/ HeadIn(Reachable(ref))
       \/ Reachable(ref) \subseteq Range(IF fi = "marks" THEN marks ELSE marks_file)
    /\ HeadIn(Recorded) => Recorded \subseteq Reachable(ref)

(* The revisions this build has still to commit.                           *)
Left == Closed + 1 .. rev_count

WorkInv ==
    Running =>
        /\ pc = "wait" => rev_done = rev_count
        /\ \A k \in Left : revs_to_process[k] \in Upstream \ KnownRevs
        /\ \A j, k \in Left : revs_to_process[j] = revs_to_process[k] => j = k
        /\ \A k \in Left : \A p \in ParentsOf(revs_to_process[k]) :
               p \in KnownRevs \/ \E i \in Left : i < k /\ revs_to_process[i] = p
        /\ commit_limit = 0 =>
               HeadIn(KnownRevs) \/ \E k \in Left : revs_to_process[k] \in Heads

LEMMA AncestorsLeast ==
    ASSUME NEW S \in SUBSET Revs, ParentClosed(S), NEW r \in S
    PROVE  Ancestors[r] \subseteq S
<1>1. r \in Revs /\ \A x \in S : ParentsOf(x) \subseteq S
  BY DEF ParentClosed
<1> QED BY <1>1 DEF Ancestors

LEMMA AncestorsOwn ==
    ASSUME NEW r \in Revs
    PROVE  r \in Ancestors[r] /\ ParentClosed(Ancestors[r]) /\ Ancestors[r] \subseteq Revs
<1>1. r \in Ancestors[r]
  BY DEF Ancestors
<1> QED BY <1>1, AncestorsClosed, AncestorsAreRevs DEF ParentClosed

LEMMA UpstreamRevs == Upstream \subseteq Revs
BY RevsAssumption, AncestorsAreRevs DEF Upstream

LEMMA ReachableClosed ==
    ASSUME NEW r \in Revs \cup {NoRev} PROVE ParentClosed(Reachable(r))
BY AncestorsOwn DEF Reachable, ParentClosed

(* Once a head is in a set that is closed under parents, the last commit   *)
(* made of it has all the others in its history.                           *)
LEMMA TopCovers ==
    ASSUME ForwardOnly, NEW K \in SUBSET Upstream, HeadIn(K), NEW r, Top(r, K)
    PROVE  K \subseteq Ancestors[r]
<1>1. PICK g \in Heads : g \in K
  BY DEF HeadIn
<1>2. r \in K /\ K \subseteq Revs /\ \A q \in K : r \in Ancestors[q] => q = r
  BY UpstreamRevs DEF Top
<1>3. ASSUME NEW x \in Upstream \ Ancestors[g] PROVE Ancestors[g] \subseteq Ancestors[x]
  <2>1. PICK h \in Heads : x \in Ancestors[h]
    BY <1>3 DEF Upstream
  <2>2. FastForward(g, h)
    BY <1>3, <2>1 DEF ForwardOnly, FastForward
  <2> QED BY <1>3, <2>1, <2>2 DEF FastForward
<1>4. ASSUME NEW x \in Upstream \ Ancestors[g], NEW y \in Upstream \ Ancestors[g]
      PROVE  x \in Ancestors[y] \/ y \in Ancestors[x]
  <2>1. PICK h1, h2 \in Heads : x \in Ancestors[h1] /\ y \in Ancestors[h2]
    BY <1>4 DEF Upstream
  <2>2. PICK h \in Heads : x \in Ancestors[h] /\ y \in Ancestors[h]
    BY <2>1 DEF ForwardOnly, FastForward
  <2>3. FastForward(g, h)
    BY <1>4, <2>2 DEF ForwardOnly, FastForward
  <2> QED BY <1>4, <2>2, <2>3 DEF FastForward
<1>5. r \in Ancestors[r] /\ g \in Ancestors[g]
  BY <1>1, <1>2, AncestorsOwn
<1> SUFFICES ASSUME NEW q \in K PROVE q \in Ancestors[r]
  OBVIOUS
<1>6. CASE r \in Ancestors[g]
  <2>1. g = r
    BY <1>1, <1>2, <1>6
  <2>2. CASE q \in Ancestors[g]
    BY <2>1, <2>2
  <2>3. CASE q \notin Ancestors[g]
    BY <1>2, <1>3, <1>5, <1>6, <2>3
  <2> QED BY <2>2, <2>3
<1>7. CASE r \notin Ancestors[g]
  <2>1. CASE q \in Ancestors[g]
    BY <1>2, <1>3, <1>7, <2>1
  <2>2. CASE q \notin Ancestors[g]
    BY <1>2, <1>4, <1>5, <1>7, <2>2
  <2> QED BY <2>1, <2>2
<1> QED BY <1>6, <1>7

LEMMA ContinuesRange ==
    ASSUME NEW f, NEW g, Continues(f, g) PROVE Range(g) \subseteq Range(f)
BY DEF Continues, Range

LEMMA StoreInit ==
    ASSUME InitialRef = NoRev, Init
    PROVE  DiskInv /\ WorkInv /\ KnownRevs = {} /\ Recorded = {}
<1>1. Recorded = {}
  BY DEF Init, Recorded, Reachable, Range
<1>2. KnownRevs = {}
  BY <1>1 DEF Init, KnownRevs
<1> QED BY <1>1, <1>2 DEF Init, DiskInv, WorkInv, AtWork, HeadIn, Reachable, ParentClosed, Running

(* What leaves fast-import, the ref and the marks alone.                   *)
LEMMA DiskSame ==
    ASSUME UNCHANGED <<fi, marks, tip, ref, marks_file>>
    PROVE  UNCHANGED <<DiskInv, KnownRevs, Recorded>>
BY DEF DiskInv, KnownRevs, Recorded, AtWork

(* The store after a step: the same, or more of it saved.                  *)
SavesMore == KnownRevs' = KnownRevs /\ Recorded \subseteq Recorded' /\ DiskInv'

LEMMA DiskFacts ==
    ASSUME TypeOK, MarksKept, DiskInv
    PROVE  /\ fi \in {"up", "branches", "marks", "done"}
           /\ fi = "done" => KnownRevs = Recorded
           /\ fi # "done" => AtWork /\ KnownRevs = Recorded \cup Range(marks)
                             /\ Range(marks_file) \subseteq Range(marks)
           /\ Recorded = Reachable(ref) \cup Range(marks_file)
           /\ Recorded \subseteq KnownRevs
           /\ KnownRevs \in SUBSET Upstream /\ KnownRevs \subseteq Revs
<1>1. fi \in {"up", "branches", "marks", "done"}
  BY DEF TypeOK, DiskInv
<1>2. fi # "done" => AtWork
  BY <1>1 DEF AtWork
<1>3. AtWork => Range(marks_file) \subseteq Range(marks)
  BY ContinuesRange DEF MarksKept
<1>4. KnownRevs \in SUBSET Upstream /\ KnownRevs \subseteq Revs
  BY UpstreamRevs DEF DiskInv
<1> QED BY <1>1, <1>2, <1>3, <1>4 DEF KnownRevs, Recorded

LEMMA DiskStartImport ==
    ASSUME TypeOK, MarksKept, DiskInv, StartFastImport
    PROVE  SavesMore
<1>1. /\ pc = "fill" /\ fi' = "up" /\ marks' = marks_file /\ tip' = NoRev
      /\ UNCHANGED <<ref, marks_file>>
  BY DEF StartFastImport, durableVars
<1>2. fi = "done"
  BY <1>1, DiskFacts DEF MarksKept
<1>3. Recorded' = Recorded
  BY <1>1 DEF Recorded
<1>4. KnownRevs = Recorded /\ KnownRevs' = Recorded
  BY <1>1, <1>2, <1>3 DEF KnownRevs, Recorded
<1>5. DiskInv'
  BY <1>1, <1>2, <1>3, <1>4 DEF DiskInv, AtWork
<1> QED BY <1>3, <1>4, <1>5 DEF SavesMore

LEMMA DiskEndOfInput ==
    ASSUME TypeOK, MarksKept, DiskInv, EndOfInput
    PROVE  SavesMore
<1>1. fi = "up" /\ fi' = "branches" /\ UNCHANGED <<marks, tip, ref, marks_file>>
  BY DEF EndOfInput, durableVars
<1>2. Recorded' = Recorded /\ KnownRevs' = KnownRevs
  BY <1>1 DEF KnownRevs, Recorded
<1>3. DiskInv'
  BY <1>1, <1>2 DEF DiskInv, AtWork
<1> QED BY <1>2, <1>3 DEF SavesMore

(* The ref moves to the last commit: it gains what is new, and loses only  *)
(* what the marks file has.                                                *)
LEMMA DiskDumpBranches ==
    ASSUME ForwardOnly, TypeOK, MarksKept, DiskInv, DumpBranches
    PROVE  SavesMore
<1>1. /\ fi = "branches" /\ fi' = "marks" /\ UNCHANGED <<marks, tip, marks_file>>
      /\ ref' = IF tip = NoRev THEN ref ELSE tip
  BY DEF DumpBranches
<1>2. /\ AtWork /\ KnownRevs = Recorded \cup Range(marks) /\ Range(marks_file) \subseteq Range(marks)
      /\ Recorded = Reachable(ref) \cup Range(marks_file)
      /\ KnownRevs \in SUBSET Upstream /\ KnownRevs \subseteq Revs
      /\ ParentClosed(KnownRevs) /\ ParentClosed(Recorded)
  BY <1>1, DiskFacts DEF DiskInv
<1>3. KnownRevs' = Recorded' \cup Range(marks) /\ Recorded' = Reachable(ref') \cup Range(marks_file)
  BY <1>1 DEF KnownRevs, Recorded
<1>4. AtWork' /\ fi' # "dead"
  BY <1>1 DEF AtWork
<1>5. CASE tip = NoRev
  <2>1. ref' = ref /\ marks = marks_file
    BY <1>1, <1>2, <1>5 DEF DiskInv
  <2>2. Recorded' = Recorded /\ KnownRevs' = KnownRevs
    BY <1>2, <1>3, <2>1
  <2>3. DiskInv'
    BY <1>1, <1>2, <1>4, <1>5, <2>1, <2>2 DEF DiskInv
  <2> QED BY <2>2, <2>3 DEF SavesMore
<1>6. CASE tip # NoRev
  <2>1. ref' = tip /\ Top(tip, KnownRevs) /\ tip \in KnownRevs /\ tip \in Revs
    BY <1>1, <1>2, <1>6 DEF DiskInv, Top
  <2>2. Reachable(ref') = Ancestors[tip] /\ Ancestors[tip] \subseteq KnownRevs
    BY <1>2, <1>6, <2>1, AncestorsLeast DEF Reachable
  <2>3. HeadIn(KnownRevs) => KnownRevs \subseteq Reachable(ref')
    BY <1>2, <2>1, <2>2, TopCovers
  <2>4. CASE HeadIn(KnownRevs)
    <3>1. Recorded' = KnownRevs /\ KnownRevs' = KnownRevs
      BY <1>2, <1>3, <2>2, <2>3, <2>4
    <3>2. Reachable(ref') = KnownRevs
      BY <2>2, <2>3, <2>4
    <3>3. DiskInv'
      BY <1>1, <1>2, <1>4, <2>1, <2>4, <3>1, <3>2 DEF DiskInv
    <3> QED BY <1>2, <3>1, <3>3 DEF SavesMore
  <2>5. CASE ~ HeadIn(KnownRevs)
    <3>1. Reachable(ref) \subseteq Range(marks_file)
      <4>1. ~ HeadIn(Reachable(ref))
        BY <1>2, <2>5 DEF HeadIn
      <4> QED BY <1>1, <4>1 DEF DiskInv
    <3>2. KnownRevs = Range(marks) /\ Recorded = Range(marks_file)
      BY <1>2, <3>1
    <3>3. KnownRevs' = KnownRevs /\ Recorded \subseteq Recorded' /\ Recorded' \subseteq KnownRevs
      BY <1>2, <1>3, <2>2, <3>2
    <3>4. ParentClosed(Recorded')
      <4>1. ParentClosed(Ancestors[tip])
        BY <2>1, AncestorsOwn
      <4> QED BY <1>2, <1>3, <2>2, <3>2, <4>1 DEF ParentClosed
    <3>5. ~ HeadIn(Recorded')
      BY <2>5, <3>3 DEF HeadIn
    <3>6. Reachable(ref') \subseteq Range(marks)
      BY <2>2, <3>2
    <3>7. DiskInv'
      BY <1>1, <1>2, <1>4, <2>1, <3>3, <3>4, <3>5, <3>6 DEF DiskInv
    <3> QED BY <3>3, <3>7 DEF SavesMore
  <2> QED BY <2>4, <2>5
<1> QED BY <1>5, <1>6

LEMMA DiskDumpMarks ==
    ASSUME ForwardOnly, TypeOK, MarksKept, DiskInv, DumpMarks
    PROVE  SavesMore
<1>1. /\ fi = "marks" /\ fi' \in {"up", "done"} /\ UNCHANGED <<marks, tip, ref>>
      /\ marks_file' = marks
  BY DEF DumpMarks
<1>2. /\ AtWork /\ KnownRevs = Recorded \cup Range(marks) /\ Range(marks_file) \subseteq Range(marks)
      /\ Recorded = Reachable(ref) \cup Range(marks_file)
      /\ KnownRevs \in SUBSET Upstream /\ KnownRevs \subseteq Revs
      /\ ParentClosed(KnownRevs) /\ ParentClosed(Recorded)
  BY <1>1, DiskFacts DEF DiskInv
<1>3. Recorded' = Reachable(ref) \cup Range(marks)
  BY <1>1 DEF Recorded
<1>4. KnownRevs' = Recorded'
  BY <1>1, <1>3 DEF KnownRevs
<1>5. Recorded' = KnownRevs
  BY <1>2, <1>3
<1>6. HeadIn(KnownRevs) => KnownRevs \subseteq Reachable(ref)
  <2>1. CASE tip = NoRev
    <3>1. KnownRevs = Recorded
      BY <1>2, <2>1 DEF DiskInv
    <3> QED BY <3>1 DEF DiskInv
  <2>2. CASE tip # NoRev
    <3>1. ref = tip /\ Top(tip, KnownRevs)
      BY <1>1, <1>2, <2>2 DEF DiskInv
    <3>2. Reachable(ref) = Ancestors[tip]
      BY <2>2, <3>1 DEF Reachable
    <3> QED BY <1>2, <3>1, <3>2, TopCovers
  <2> QED BY <2>1, <2>2
<1>7. HeadIn(Reachable(ref)) \/ Reachable(ref) \subseteq Range(marks)
  BY <1>1 DEF DiskInv
<1>8. DiskInv'
  BY <1>1, <1>2, <1>4, <1>5, <1>6, <1>7 DEF DiskInv, AtWork
<1> QED BY <1>2, <1>4, <1>5, <1>8 DEF SavesMore

(* A build without a limit deletes the marks file when it has committed    *)
(* its head: from then on the ref has everything.                          *)
LEMMA DiskExit ==
    ASSUME TypeOK, MarksKept, DiskInv, WorkInv, Exit
    PROVE  SavesMore
<1>1. /\ pc = "wait" /\ UNCHANGED <<fi, marks, tip, ref>>
      /\ marks_file' = IF commit_limit = 0 THEN <<>> ELSE marks_file
  BY DEF Exit, importVars
<1>2. fi = "done" /\ fi' = "done" /\ KnownRevs = Recorded
  BY <1>1, DiskFacts DEF Exit, DiskInv
<1>3. KnownRevs' = Recorded'
  BY <1>2 DEF KnownRevs
<1>4. CASE commit_limit # 0
  <2>1. UNCHANGED <<fi, marks, tip, ref, marks_file>>
    BY <1>1, <1>4
  <2> QED BY <2>1, DiskSame DEF SavesMore
<1>5. CASE commit_limit = 0
  <2>1. Left = {}
    BY <1>1, CountersAreNat DEF WorkInv, Running, Left, Closed
  <2>2. HeadIn(Recorded)
    BY <1>1, <1>2, <1>5, <2>1 DEF WorkInv, Running
  <2>3. Recorded \subseteq Reachable(ref)
    BY <2>2 DEF DiskInv
  <2>4. Recorded' = Reachable(ref)
    BY <1>1, <1>5 DEF Recorded, Range
  <2>5. Recorded' = Recorded
    BY <2>3, <2>4 DEF Recorded
  <2>6. HeadIn(Reachable(ref))
    BY <2>2, <2>4, <2>5
  <2>7. DiskInv'
    BY <1>1, <1>2, <1>3, <2>3, <2>5, <2>6 DEF DiskInv, AtWork
  <2> QED BY <1>2, <1>3, <2>5, <2>7 DEF SavesMore
<1> QED BY <1>4, <1>5

(* Closing a commit makes one more revision known, after its parents.      *)
LEMMA DiskClose ==
    ASSUME TypeOK, MarksKept, DiskInv, WorkInv, pc = "tree", fi = "up", CloseCommit,
           fi' \in {"up", "branches"}, UNCHANGED durableVars
    PROVE  /\ KnownRevs' = KnownRevs \cup {CurrentRev} /\ Recorded' = Recorded /\ DiskInv'
           /\ CurrentRev \in Revs \ KnownRevs /\ ParentsOf(CurrentRev) \subseteq KnownRevs
<1>1. rev_done \in Nat /\ rev_done \in 1 .. rev_count /\ Closed + 1 = rev_done /\ rev_count \in Nat
  BY InTree, CountersAreNat DEF Closed
<1>2. rev_done \in Left
  BY <1>1 DEF Left
<1>3. /\ CurrentRev \in Upstream \ KnownRevs
      /\ \A p \in ParentsOf(CurrentRev) :
             p \in KnownRevs \/ \E i \in Left : i < rev_done /\ revs_to_process[i] = p
  BY <1>2 DEF WorkInv, Running, CurrentRev
<1>4. ~ \E i \in Left : i < rev_done
  BY <1>1 DEF Left
<1>5. ParentsOf(CurrentRev) \subseteq KnownRevs
  BY <1>3, <1>4
<1>6. Range(marks') = Range(marks) \cup {CurrentRev}
  <2>1. mark_id \in Nat \ {0}
    BY InTree
  <2>2. /\ DOMAIN marks' = 1 .. mark_id
        /\ marks'[mark_id] = CurrentRev
        /\ \A n \in 1 .. mark_id - 1 : n \in DOMAIN marks /\ marks'[n] = marks[n]
    BY CloseContinues
  <2>3. DOMAIN marks = 1 .. mark_id - 1
    <3>1. DOMAIN marks = 1 .. prev_revs_done + Closed
      BY DEF MarksKept, AtWork, InputOpen
    <3>2. prev_revs_done + Closed = mark_id - 1
      BY <1>1 DEF mark_id, Closed, TypeOK
    <3> QED BY <3>1, <3>2
  <2> HIDE DEF mark_id
  <2>4. \A n \in 1 .. mark_id : n = mark_id \/ n \in 1 .. mark_id - 1
    BY <2>1
  <2>5. mark_id \in 1 .. mark_id /\ 1 .. mark_id - 1 \subseteq 1 .. mark_id
    BY <2>1
  <2> QED BY <2>2, <2>3, <2>4, <2>5 DEF Range
<1>7. /\ KnownRevs = Recorded \cup Range(marks) /\ KnownRevs \in SUBSET Revs
      /\ KnownRevs \subseteq Upstream /\ ParentClosed(KnownRevs) /\ ParentClosed(Recorded)
  BY DiskFacts DEF DiskInv
<1>8. Recorded' = Recorded /\ KnownRevs' = KnownRevs \cup {CurrentRev}
  BY <1>6, <1>7 DEF KnownRevs, Recorded, durableVars
<1>9. tip' = CurrentRev /\ CurrentRev \in Revs
  BY <1>3, UpstreamRevs DEF CloseCommit
<1>10. Top(CurrentRev, KnownRevs')
  <2> SUFFICES ASSUME NEW q \in KnownRevs, CurrentRev \in Ancestors[q] PROVE FALSE
    BY <1>8 DEF Top
  <2> QED BY <1>3, <1>7, AncestorsLeast
<1>11. ParentClosed(KnownRevs')
  BY <1>5, <1>7, <1>8 DEF ParentClosed
<1>12. UNCHANGED <<ref, marks_file>> /\ tip' # NoRev
  BY <1>9, RevsAssumption DEF durableVars
<1>13. HeadIn(Reachable(ref)) \/ Reachable(ref) \subseteq Range(marks_file)
  BY DEF DiskInv
<1>14. DiskInv'
  BY <1>3, <1>7, <1>8, <1>9, <1>10, <1>11, <1>12, <1>13 DEF DiskInv
<1> QED BY <1>3, <1>5, <1>8, <1>9, <1>14

LEMMA WorkStart ==
    ASSUME TypeOK, MarksKept, DiskInv, NEW h \in Heads, NEW limit \in Limits, Start(h, limit)
    PROVE  WorkInv'
<1> DEFINE todo == Ancestors[h] \ Recorded
           n == Cardinality(todo)
<1>1. PICK s \in [1 .. n -> todo] :
          InWalkOrder(s, todo, h) /\ revs_to_process' = Truncate(s, limit)
  BY DEF Start
<1>2. todo \subseteq Revs /\ n \in Nat /\ h \in Revs /\ todo \subseteq Upstream
  BY TodoIsFinite, AncestorsAreRevs, RevsAssumption DEF Upstream
<1>3. /\ pc' = "fill" /\ rev_done' = 0 /\ commit_limit' = limit
      /\ UNCHANGED <<fi, marks, tip, ref, marks_file>> /\ fi = "done"
  BY DiskFacts DEF Start, importVars, durableVars, DiskInv
<1>4. KnownRevs' = Recorded
  BY <1>3 DEF KnownRevs, Recorded
<1>5. s \in Seq(Revs) /\ DOMAIN s = 1 .. n /\ Len(s) = n /\ Range(s) = todo
  <2>1. \A i \in 1 .. n : s[i] \in Revs
    BY <1>1, <1>2
  <2>2. s = [i \in 1 .. n |-> s[i]] /\ n \in Nat /\ Range(s) = todo
    BY <1>1, <1>2 DEF InWalkOrder
  <2> HIDE DEF n, todo
  <2>3. [i \in 1 .. n |-> s[i]] \in Seq(Revs) /\ Len([i \in 1 .. n |-> s[i]]) = n
    BY <2>1, <2>2
  <2> QED BY <2>2, <2>3, LenProperties
<1>6. \A i \in 1 .. n : s[i] \in todo
  BY <1>1
<1>7. InWalkOrder(s, todo, h) /\ todo \in SUBSET Ancestors[h]
  BY <1>1
<1>8. /\ revs_to_process' = Truncate(s, limit) /\ limit \in Nat
      /\ \A p \in Ancestors[h] : p \in todo \/ p \in KnownRevs'
      /\ todo \subseteq Upstream \ KnownRevs'
  BY <1>1, <1>2, <1>4, LimitsAssumption
<1> HIDE DEF n, todo
<1>9. /\ rev_count' \in Nat /\ rev_count' <= n
      /\ \A i \in 1 .. rev_count' : revs_to_process'[i] = s[i]
  BY <1>5, <1>8, TruncateType, LenProperties DEF rev_count
<1>10. Left' = 1 .. rev_count'
  BY <1>3 DEF Left, Closed
<1>11. ASSUME NEW k \in 1 .. rev_count'
       PROVE  k \in Nat /\ k \in 1 .. n /\ revs_to_process'[k] = s[k] /\ s[k] \in todo
  <2>1. k \in Nat /\ 1 <= k /\ k <= rev_count' /\ rev_count' \in Nat
    BY <1>9, <1>11
  <2>2. n \in Nat /\ rev_count' <= n
    BY <1>2, <1>9
  <2>3. k \in 1 .. n
    BY <2>1, <2>2
  <2>4. revs_to_process'[k] = s[k]
    BY <1>9, <1>11
  <2> QED BY <1>6, <2>1, <2>3, <2>4
<1>12. ASSUME NEW i \in 1 .. n, NEW k \in 1 .. n, i < k PROVE s[i] # s[k]
  <2>1. PICK x, y \in DOMAIN Walk[h] : x < y /\ Walk[h][x] = s[i] /\ Walk[h][y] = s[k]
    BY <1>5, <1>7, <1>12 DEF InWalkOrder
  <2>2. Walk[h] \in Seq(Revs) /\ \A u, v \in DOMAIN Walk[h] : Walk[h][u] = Walk[h][v] => u = v
    BY WalkAssumption
  <2>3. x \in Nat /\ y \in Nat
    BY <2>1, <2>2, LenProperties
  <2>4. x # y
    BY <2>1, <2>3
  <2> QED BY <2>1, <2>2, <2>4
<1>13. ASSUME NEW j \in Left', NEW k \in Left', revs_to_process'[j] = revs_to_process'[k]
       PROVE  j = k
  <2>1. j \in 1 .. n /\ k \in 1 .. n /\ s[j] = s[k] /\ j \in Nat /\ k \in Nat
    BY <1>10, <1>11, <1>13
  <2>2. ~ (j < k) /\ ~ (k < j)
    BY <1>12, <2>1
  <2> QED BY <2>1, <2>2
<1>14. ASSUME NEW k \in Left', NEW p \in ParentsOf(revs_to_process'[k])
       PROVE  p \in KnownRevs' \/ \E i \in Left' : i < k /\ revs_to_process'[i] = p
  <2>1. k \in 1 .. n /\ revs_to_process'[k] = s[k] /\ s[k] \in todo /\ k \in Nat
        /\ k \in 1 .. rev_count'
    BY <1>10, <1>11, <1>14
  <2>2. p \in Ancestors[h]
    BY <1>2, <1>7, <1>14, <2>1, AncestorsClosed
  <2>3. CASE p \in KnownRevs'
    BY <2>3
  <2>4. CASE p \in todo
    <3>1. PICK i \in DOMAIN s : s[i] = p
      BY <1>5, <2>4 DEF Range
    <3>2. i < k
      BY <1>5, <1>7, <1>14, <2>1, <3>1, WalkParents
    <3>3. i \in 1 .. rev_count'
      BY <1>5, <1>9, <2>1, <3>1, <3>2
    <3> QED BY <1>10, <1>11, <3>1, <3>2, <3>3
  <2> QED BY <1>8, <2>2, <2>3, <2>4
<1>15. ASSUME limit = 0
       PROVE  HeadIn(KnownRevs') \/ \E k \in Left' : revs_to_process'[k] \in Heads
  <2>1. h \in Ancestors[h]
    BY <1>2, AncestorsOwn
  <2>2. CASE h \in KnownRevs'
    BY <2>2 DEF HeadIn
  <2>3. CASE h \in todo
    <3>1. PICK i \in DOMAIN s : s[i] = h
      BY <1>5, <2>3 DEF Range
    <3>2. revs_to_process' = s
      BY <1>8, <1>15 DEF Truncate
    <3>3. rev_count' = n
      BY <1>5, <3>2 DEF rev_count
    <3> QED BY <1>5, <1>10, <3>1, <3>2, <3>3
  <2> QED BY <1>8, <2>1, <2>2, <2>3
<1>16. \A k \in Left' : revs_to_process'[k] \in Upstream \ KnownRevs'
  BY <1>8, <1>10, <1>11
<1> QED BY <1>3, <1>13, <1>14, <1>15, <1>16 DEF WorkInv

(* A step that leaves this build's list and what is known alone.           *)
LEMMA WorkSame ==
    ASSUME WorkInv, UNCHANGED <<revs_to_process, Closed, commit_limit, KnownRevs>>,
           Running' => Running, pc' = "wait" => pc = "wait" /\ UNCHANGED rev_done
    PROVE  WorkInv'
<1>1. UNCHANGED <<Left, rev_count>>
  BY DEF Left, rev_count
<1> QED BY <1>1 DEF WorkInv

LEMMA WorkClose ==
    ASSUME TypeOK, WorkInv, BuildBlameTree, KnownRevs' = KnownRevs \cup {CurrentRev}
    PROVE  WorkInv'
<1>1. /\ pc = "tree" /\ pc' = "read"
      /\ UNCHANGED <<revs_to_process, rev_done, commit_limit>>
  BY DEF BuildBlameTree
<1>2. rev_done \in Nat /\ rev_done \in 1 .. rev_count /\ rev_count \in Nat
  BY <1>1, InTree, CountersAreNat
<1>3. Left = rev_done .. rev_count /\ Left' = rev_done + 1 .. rev_count
  BY <1>1, <1>2 DEF Left, Closed, rev_count
<1>4. Left = Left' \cup {rev_done} /\ rev_done \notin Left' /\ CurrentRev = revs_to_process[rev_done]
  BY <1>2, <1>3 DEF CurrentRev
<1>5. \A k \in Left' : revs_to_process[k] # CurrentRev
  BY <1>1, <1>4 DEF WorkInv, Running
<1> QED BY <1>1, <1>4, <1>5 DEF WorkInv, Running, HeadIn

(* What a step makes of the store.                                         *)
Commits == /\ KnownRevs' = KnownRevs \cup {CurrentRev} /\ Recorded' = Recorded
           /\ CurrentRev \in Revs \ KnownRevs /\ ParentsOf(CurrentRev) \subseteq KnownRevs

StoreInv == DiskInv /\ WorkInv

LEMMA StoreNext ==
    ASSUME ForwardOnly, MainThreadFaults, TypeOK, MarksKept, StoreInv, [Next]_vars
    PROVE  StoreInv' /\ (SavesMore \/ Commits)
<1> USE DEF StoreInv
<1>0. rev_done \in Nat
  BY CountersAreNat
<1>1. ASSUME UNCHANGED <<fi, marks, tip, ref, marks_file>>
      PROVE  SavesMore /\ DiskInv' /\ UNCHANGED KnownRevs
  <2>1. UNCHANGED <<DiskInv, KnownRevs, Recorded>>
    BY <1>1, DiskSame
  <2> QED BY <2>1 DEF SavesMore
<1>2. ASSUME NEW h \in Heads, NEW limit \in Limits, Start(h, limit)
      PROVE  StoreInv' /\ SavesMore
  <2>1. UNCHANGED <<fi, marks, tip, ref, marks_file>>
    BY <1>2 DEF Start, importVars, durableVars
  <2> QED BY <1>1, <1>2, <2>1, WorkStart
<1>3. ASSUME NEW t \in Threads, Compute(t) \/ ThreadPanic(t) PROVE StoreInv' /\ SavesMore
  <2>1. /\ UNCHANGED <<fi, marks, tip, ref, marks_file>>
        /\ UNCHANGED <<pc, revs_to_process, rev_done, commit_limit>>
    BY <1>3 DEF Compute, ThreadPanic, mainVars, importVars, durableVars
  <2> QED BY <1>1, <2>1, WorkSame DEF Closed, Running
<1>4. CASE FillBuffer
  <2>1. /\ UNCHANGED <<fi, marks, tip, ref, marks_file>>
        /\ UNCHANGED <<pc, revs_to_process, rev_done, commit_limit>>
    BY <1>4 DEF FillBuffer, importVars, durableVars
  <2> QED BY <1>1, <2>1, WorkSame DEF Closed, Running
<1>5. CASE StartFastImport
  <2>1. SavesMore
    BY <1>5, DiskStartImport
  <2>2. /\ pc = "fill" /\ pc' = "read"
        /\ UNCHANGED <<revs_to_process, rev_done, commit_limit>>
    BY <1>5 DEF StartFastImport
  <2>3. UNCHANGED <<Closed, KnownRevs>>
    BY <2>1, <2>2 DEF Closed, SavesMore
  <2> QED BY <2>1, <2>2, <2>3, WorkSame DEF Running, SavesMore
<1>6. CASE ReadResult
  <2>1. /\ pc = "read" /\ pc' = "header" /\ rev_done' = rev_done + 1
        /\ UNCHANGED <<fi, marks, tip, ref, marks_file>>
        /\ UNCHANGED <<revs_to_process, commit_limit>>
    BY <1>6 DEF ReadResult, importVars, durableVars
  <2>2. UNCHANGED Closed
    BY <1>0, <2>1 DEF Closed
  <2> QED BY <1>1, <2>1, <2>2, WorkSame DEF Running
<1>7. CASE WriteHeader
  <2>1. /\ pc = "header" /\ pc' = "tree"
        /\ UNCHANGED <<fi, marks, tip, ref, marks_file>>
        /\ UNCHANGED <<revs_to_process, rev_done, commit_limit>>
    BY <1>7 DEF WriteHeader, importVars, durableVars
  <2>2. UNCHANGED Closed
    BY <2>1 DEF Closed
  <2> QED BY <1>1, <2>1, <2>2, WorkSame DEF Running
<1>8. CASE BuildBlameTree
  <2>1. pc = "tree" /\ fi = "up" /\ CloseCommit /\ fi' \in {"up", "branches"} /\ UNCHANGED durableVars
    BY <1>8 DEF BuildBlameTree
  <2>2. Commits /\ DiskInv'
    BY <2>1, DiskClose DEF Commits
  <2>3. WorkInv'
    BY <1>8, <2>2, WorkClose DEF Commits
  <2> QED BY <2>2, <2>3
<1>9. CASE ShutDown
  <2>1. /\ pc = "read" /\ pc' = "wait" /\ rev_done = rev_count
        /\ UNCHANGED <<fi, marks, tip, ref, marks_file>>
        /\ UNCHANGED <<revs_to_process, rev_done, commit_limit>>
    BY <1>9 DEF ShutDown, importVars, durableVars
  <2>2. UNCHANGED <<KnownRevs, Left, rev_count>> /\ DiskInv' /\ SavesMore
    BY <1>1, <2>1 DEF Left, rev_count, Closed
  <2>3. WorkInv'
    BY <2>1, <2>2 DEF WorkInv, Running
  <2> QED BY <2>2, <2>3
<1>10. CASE Exit
  <2>1. SavesMore
    BY <1>10, DiskExit
  <2>2. ~ Running'
    BY <1>10 DEF Exit, Running
  <2> QED BY <2>1, <2>2 DEF WorkInv, SavesMore
<1>11. CASE Panic
  <2>1. ~ Running' /\ fi' = fi /\ UNCHANGED durableVars
    BY <1>11 DEF Panic, Running
  <2>2. CASE UNCHANGED <<marks, tip>>
    BY <1>1, <2>1, <2>2 DEF WorkInv, durableVars
  <2>3. CASE TreePanic /\ CloseCommit
    BY <2>1, <2>3, DiskClose DEF TreePanic, Commits, WorkInv
  <2> QED BY <1>11, <2>2, <2>3 DEF Panic
<1>12. CASE Kill \/ ImportFails
  BY <1>12 DEF Kill, ImportFails, MainThreadFaults
<1>13. ASSUME SavesMore, UNCHANGED mainVars PROVE StoreInv'
  BY <1>13, WorkSame DEF SavesMore, mainVars, Closed, Running
<1>14. CASE EndOfInput
  BY <1>13, <1>14, DiskEndOfInput DEF EndOfInput
<1>15. CASE DumpBranches
  BY <1>13, <1>15, DiskDumpBranches DEF DumpBranches
<1>16. CASE DumpMarks
  BY <1>13, <1>16, DiskDumpMarks DEF DumpMarks
<1>17. CASE AllRunsOver \/ UNCHANGED vars
  <2>1. UNCHANGED <<fi, marks, tip, ref, marks_file, mainVars>>
    BY <1>17 DEF AllRunsOver, vars, importVars, durableVars
  <2> QED BY <1>1, <1>13, <2>1
<1> QED BY <1>2, <1>3, <1>4, <1>5, <1>6, <1>7, <1>8, <1>9, <1>10, <1>11, <1>12, <1>14,
           <1>15, <1>16, <1>17 DEF Next

(* build-blame implements the BlameStore for every history, however many   *)
(* builds run, are limited, or end in a panic of a compute thread or of    *)
(* the main thread: each revision gets its blame commit once and after its *)
(* parents, what is on disk only grows, and it is closed under parents, so *)
(* that the next build resumes from it.  Assumed are an empty blame        *)
(* repository at the beginning and a source branch that moves forward.     *)
THEOREM BlameImplementsStore ==
    ASSUME InitialRef = NoRev, ForwardOnly, MainThreadFaults
    PROVE  Spec => StoreSpec
<1>1. Init => MarksKept /\ StoreInv /\ Store!Init
  BY MarksInit, StoreInit DEF StoreInv, Store!Init, KnownRevs
<1>2. TypeOK /\ Pipeline /\ MarksKept /\ StoreInv /\ [Next]_vars => MarksKept' /\ StoreInv'
  BY MarksNext, StoreNext
<1>3. TypeOK /\ MarksKept /\ StoreInv /\ [Next]_vars => [Store!Next]_(Store!vars)
  <2> SUFFICES ASSUME TypeOK, MarksKept, StoreInv, [Next]_vars
               PROVE  [Store!Next]_(Store!vars)
    OBVIOUS
  <2>1. StoreInv' /\ (SavesMore \/ Commits)
    BY StoreNext
  <2>0. \A r : Store!ParentsOf(r) = ParentsOf(r)
    BY DEF Store!ParentsOf, ParentsOf, Store!Range, Range
  <2>2. CASE SavesMore
    <3>1. /\ KnownRevs' = KnownRevs /\ Recorded \subseteq Recorded'
          /\ Recorded' \in SUBSET KnownRevs /\ ParentClosed(Recorded')
      BY <2>2 DEF SavesMore, DiskInv, KnownRevs
    <3>2. Store!Save(Recorded')
      BY <2>0, <3>1 DEF Store!Save, Store!ParentClosed, ParentClosed, KnownRevs
    <3> QED BY <3>1, <3>2 DEF Store!Next, KnownRevs
  <2>3. CASE Commits
    <3>1. Store!Transform(CurrentRev)
      BY <2>0, <2>3 DEF Commits, Store!Transform, KnownRevs
    <3> QED BY <2>3, <3>1 DEF Commits, Store!Next
  <2> QED BY <2>1, <2>2, <2>3
<1> QED BY <1>1, <1>2, <1>3, TypeCorrect, PipelineInvariant, PTL DEF Spec, StoreSpec, Store!Spec

=============================================================================
