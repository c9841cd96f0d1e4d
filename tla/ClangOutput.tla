---------------------------- MODULE ClangOutput ----------------------------
(***************************************************************************)
(* The clang plugin writes its analysis records: at the end of a           *)
(* translation unit (clang-plugin/MozsearchIndexer.cpp,                    *)
(* HandleTranslationUnit) each compiler process merges its sorted records  *)
(* for every interesting file into the analysis file, under a flock of the *)
(* source file, through a tmp file (clang-plugin/FileOperations.cpp).      *)
(*                                                                         *)
(* A line is a number, ordered as the strings are; an absent analysis file *)
(* is an empty one, which is how the code reads it.  A fragment of a line, *)
(* and whatever is later appended to the fragment, reads as a line of      *)
(* Garbage.                                                                *)
(***************************************************************************)
EXTENDS Naturals, Sequences, SequencesExt

CONSTANTS Procs,    \* compiler processes
          Files,    \* analysis files
          Work,     \* [Procs -> Seq([file : Files, lines : Seq(Nat)])], FileMap
          Garbage,  \* lines no record has
          Faults,   \* subset of {"die", "disk"}
          NoProc

ASSUME WorkAssumption ==
    /\ IsFiniteSet(Procs)
    /\ Work \in [Procs -> Seq([file : Files, lines : Seq(Nat)])]
    /\ Garbage \subseteq Nat /\ Garbage # {}
    /\ NoProc \notin Procs
    /\ Faults \subseteq {"die", "disk"}

VARIABLES pc,    \* what each process does next with its current file
          pos,   \* position of that file in Work
          lock,  \* which process holds the flock of the file's source
          file,  \* durable: the analysis file
          tmp,   \* durable: the file beside it, and does it end in a fragment?
          met    \* history: the faults met so far

vars == <<pc, pos, lock, file, tmp, met>>

Empty == [lines |-> <<>>, torn |-> FALSE]

Init == /\ pc = [p \in Procs |-> "next"]
        /\ pos = [p \in Procs |-> 1]
        /\ lock = [f \in Files |-> NoProc]
        /\ file = [f \in Files |-> <<>>]
        /\ tmp = [f \in Files |-> Empty]
        /\ met = {}

Done(p)    == pc[p] = "next" /\ pos[p] > Len(Work[p])
Current(p) == Work[p][pos[p]].file
Output(p)  == Work[p][pos[p]].lines

-----------------------------------------------------------------------------
(* The merge of the sorted new lines into the existing ones.               *)

(* The new lines that are written before the existing line i, or after all *)
(* of them: the smaller ones that are left, each once.                     *)
NewBefore(old, output, i) ==
    {l \in ToSet(output) : /\ i \in DOMAIN old => l < old[i]
                           /\ \A j \in 1 .. i - 1 : l > old[j]}

(* std::sort: the lines of S from the least to the greatest.                *)
InOrder(S) ==
    CHOOSE s \in [1 .. Cardinality(S) -> S] : \A i, j \in DOMAIN s : i < j => s[i] < s[j]

Merge(old, output) ==
    FlattenSeq([i \in 1 .. Len(old) + 1 |->
        InOrder(NewBefore(old, output, i))
        \o (IF i \in DOMAIN old THEN <<old[i]>> ELSE <<>>)])

-----------------------------------------------------------------------------
(* Mutants: the flock is on a file that nobody else locks; the tmp file is *)
(* truncated; the lock outlives its process.                               *)
NeverWaits(f)    == f \in Files
OpenTruncated(f) == Empty
StaleLock(p)     == IF pc[p] = "rename" THEN [lock EXCEPT ![Current(p)] = NoProc] ELSE lock

Available(f) == lock[f] = NoProc
Unlocked(p)  == [lock EXCEPT ![Current(p)] = NoProc]

(* openTmp appends: what a dead process left in the tmp file stays.        *)
OpenTmp(f) == tmp[f]

Appended(t, s, torn, g) ==
    [lines |-> t.lines \o (IF t.torn /\ s # <<>> THEN <<g>> \o Tail(s) ELSE s),
     torn  |-> torn \/ (t.torn /\ s = <<>>)]

(* The tmp file holds all of the merged lines...                           *)
AllWritten(p) ==
    \E g \in Garbage :
        tmp' = [tmp EXCEPT ![Current(p)] =
                  Appended(OpenTmp(Current(p)), Merge(file[Current(p)], Output(p)), FALSE, g)]

(* ...or the bytes that reached the disk: some lines, and perhaps a        *)
(* fragment of one more.                                                   *)
PartlyWritten(p) ==
    LET merged == Merge(file[Current(p)], Output(p))
    IN  \E g \in Garbage, n \in 0 .. Len(merged), torn \in BOOLEAN :
            /\ torn => n < Len(merged)
            /\ tmp' = [tmp EXCEPT ![Current(p)] =
                         Appended(OpenTmp(Current(p)), SubSeq(merged, 1, n), torn, g)]

-----------------------------------------------------------------------------
LockFile(p) ==
    /\ pc[p] = "next" /\ pos[p] <= Len(Work[p])
    /\ Available(Current(p))
    /\ lock' = [lock EXCEPT ![Current(p)] = p]
    /\ pc' = [pc EXCEPT ![p] = "merge"]
    /\ UNCHANGED <<pos, file, tmp, met>>

WriteTmp(p) ==
    /\ pc[p] = "merge"
    /\ AllWritten(p)
    /\ pc' = [pc EXCEPT ![p] = "unlink"]
    /\ UNCHANGED <<pos, lock, file, met>>

(* The disk is full when fclose flushes, and nobody looks at its result.   *)
LoseTail(p) ==
    /\ "disk" \in Faults
    /\ pc[p] = "merge"
    /\ PartlyWritten(p)
    /\ pc' = [pc EXCEPT ![p] = "unlink"]
    /\ met' = met \cup {"disk"}
    /\ UNCHANGED <<pos, lock, file>>

Unlink(p) ==
    /\ pc[p] = "unlink"
    /\ file' = [file EXCEPT ![Current(p)] = <<>>]
    /\ pc' = [pc EXCEPT ![p] = "rename"]
    /\ UNCHANGED <<pos, lock, tmp, met>>

(* rename, and the end of the lock's scope.                                *)
Rename(p) ==
    LET f == Current(p)
    IN  /\ pc[p] = "rename"
        /\ \E g \in Garbage :
               file' = [file EXCEPT ![f] =
                          tmp[f].lines \o (IF tmp[f].torn THEN <<g>> ELSE <<>>)]
        /\ tmp' = [tmp EXCEPT ![f] = Empty]
        /\ lock' = Unlocked(p)
        /\ pos' = [pos EXCEPT ![p] = @ + 1]
        /\ pc' = [pc EXCEPT ![p] = "next"]
        /\ UNCHANGED met

(* exit(1), a crash of the compiler or a kill; the system drops the flock. *)
Die(p) ==
    /\ "die" \in Faults
    /\ pc[p] \in {"merge", "unlink", "rename"}
    /\ \/ pc[p] = "merge" /\ PartlyWritten(p)
       \/ UNCHANGED tmp
    /\ lock' = Unlocked(p)
    /\ pc' = [pc EXCEPT ![p] = "dead"]
    /\ met' = met \cup {"die"}
    /\ UNCHANGED <<pos, file>>

(* Every compiler has ended.                                               *)
AllOver == /\ \A p \in Procs : Done(p) \/ pc[p] = "dead"
           /\ UNCHANGED vars

Step(p) == LockFile(p) \/ WriteTmp(p) \/ Unlink(p) \/ Rename(p)

Next == \/ \E p \in Procs : \/ LockFile(p) \/ WriteTmp(p) \/ Unlink(p) \/ Rename(p)
                            \/ LoseTail(p) \/ Die(p)
        \/ AllOver

Spec == Init /\ [][Next]_vars

(* Compilers run in parallel; nobody owes a fault.  flock wakes a waiter   *)
(* whenever the file stays unlocked.                                       *)
FairSpec == Spec /\ \A p \in Procs : WF_vars(Step(p))

-----------------------------------------------------------------------------
TypeOK ==
    /\ pc \in [Procs -> {"next", "merge", "unlink", "rename", "dead"}]
    /\ \A p \in Procs : pos[p] \in 1 .. Len(Work[p]) + 1
    /\ file \in [Files -> Seq(Nat)]
    /\ tmp \in [Files -> [lines : Seq(Nat), torn : BOOLEAN]]
    /\ met \subseteq Faults
    /\ \A f \in Files : lock[f] \in Procs \cup {NoProc}
    /\ \A f \in Files, p \in Procs :
           lock[f] = p <=> pc[p] \in {"merge", "unlink", "rename"} /\ Current(p) = f

(* "combining the new and old records in a single vector, sorting the      *)
(* vector [...], and removing duplicates": every analysis file is strictly *)
(* increasing, which is what the merge itself relies on.                   *)
Sorted ==
    \A f \in Files : \A i, j \in DOMAIN file[f] : i < j => file[f][i] < file[f][j]

(* The merge of parallel compilers keeps it so as long as nothing fails.   *)
(* (After a death it does NOT hold: the tmp file's stale lines come first.)*)
SortedWithoutFaults == met = {} => Sorted

(* As long as nothing fails, the compilers implement the AnalysisStore:    *)
(* each record set is merged at one instant (the unlink) and none is lost  *)
(* to a parallel compiler's read-merge-replace of the same header.         *)
Writing(f) == lock[f] # NoProc /\ pc[lock[f]] = "rename"
Store == INSTANCE AnalysisStore WITH
    recorded <- [f \in Files |-> ToSet(IF Writing(f) THEN tmp[f].lines ELSE file[f])],
    todo <- {w \in UNION {{p} \X DOMAIN Work[p] : p \in Procs} :
                w[2] > pos[w[1]] \/ (w[2] = pos[w[1]] /\ pc[w[1]] # "rename")}
StoreSpec == Store!Init /\ [][met' = {} => Store!Next]_(Store!vars)

(* The lines that compilers which got past file f have recorded there.     *)
Finished(f) ==
    UNION {UNION {ToSet(Work[p][i].lines) :
                    i \in {k \in 1 .. pos[p] - 1 : Work[p][k].file = f}} : p \in Procs}
Missing(f) == Finished(f) \ (ToSet(file[f]) \cup ToSet(tmp[f].lines))

(* "This ensures that header files that are included multiple times in     *)
(* different ways are analyzed completely": because the tmp file is        *)
(* appended to and never truncated, a compiler that dies half way, even    *)
(* between the unlink and the rename, costs the others at most the one     *)
(* line glued to the fragment it left.  (A full disk costs more.)          *)
OneLinePerDeath ==
    "disk" \notin met => \A f \in Files :
        Cardinality(Missing(f)) <= Cardinality({p \in Procs : pc[p] = "dead"})

(* The lock is the kernel's: whatever happens to the process that holds    *)
(* it, every other compiler gets past every file.                          *)
SurvivorsFinish == \A p \in Procs : <>(Done(p) \/ pc[p] = "dead")

(* What parallel compilers leave of each file, whatever befalls them.      *)
FilesIntact == TypeOK /\ SortedWithoutFaults /\ OneLinePerDeath
=============================================================================
