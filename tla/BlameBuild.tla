----------------------------- MODULE BlameBuild -----------------------------
(***************************************************************************)
(* build-blame (tools/src/bin/build-blame.rs): the main thread hands the   *)
(* revisions that have no blame yet to compute threads in round-robin      *)
(* order, reads the results back in the same order and streams one commit  *)
(* per revision to a git fast-import child.  What survives the process is  *)
(* the branch of the blame repository and the marks file.                  *)
(*                                                                         *)
(* A blame commit is named by the source revision it stands for: its       *)
(* author, date, message and parents are functions of that revision.       *)
(* fast-import handles a command when it is written: the main thread's     *)
(* next `ls` waits for all earlier ones, and what is volatile in the pipe  *)
(* is volatile in fast-import's memory too.                                *)
(***************************************************************************)
EXTENDS Integers, Sequences, FiniteSets, Functions

CONSTANTS Revs,            \* source revisions
          Parents,         \* [Revs -> Seq(Revs)], first parent first
          Heads,           \* revisions the source ref may name when a run starts
          Walk,            \* [Heads -> Seq(Revs)], the revwalk from a head
          NumThreads,      \* num_cpus::get() - 1
          BufferSize,      \* COMPUTE_BUFFER_SIZE
          CheckpointEvery, \* commits between two checkpoint commands
          Limits,          \* values of --commit-limit, 0 for none
          InitialRef,      \* tip of the blame ref before the first run
          Faults,          \* which of the faults below may happen
          MaxRuns,         \* bound: number of times build-blame is started
          NoRev            \* the ref does not exist

ASSUME ThreadsAssumption == NumThreads \in Nat \ {0} /\ BufferSize \in Nat \ {0}
ASSUME LimitsAssumption ==
    /\ CheckpointEvery \in Nat \ {0}
    /\ Limits \subseteq Nat
    /\ MaxRuns \in Nat
ASSUME RevsAssumption ==
    /\ IsFiniteSet(Revs) /\ NoRev \notin Revs
    /\ Heads \subseteq Revs
    /\ InitialRef \in Revs \cup {NoRev}
    /\ Parents \in [Revs -> Seq(Revs)]
ASSUME FaultsAssumption == Faults \subseteq {"thread", "panic", "import", "kill"}

ParentsOf(r) == Range(Parents[r])

(* For each revision, the smallest set that holds it and the parents of    *)
(* every member.                                                           *)
Ancestors == [r \in Revs |->
    {a \in Revs : \A S \in SUBSET Revs :
        (r \in S /\ \A x \in S : ParentsOf(x) \subseteq S) => a \in S}]

(* Sort::TOPOLOGICAL | Sort::REVERSE: every ancestor of the head once,     *)
(* parents first.                                                          *)
ASSUME WalkAssumption ==
    /\ Walk \in [Heads -> Seq(Revs)]
    /\ \A h \in Heads :
        /\ Range(Walk[h]) = Ancestors[h]
        /\ \A i, j \in DOMAIN Walk[h] : Walk[h][i] = Walk[h][j] => i = j
        /\ \A i \in DOMAIN Walk[h] : \A p \in ParentsOf(Walk[h][i]) :
               \E j \in 1 .. i - 1 : Walk[h][j] = p

VARIABLES
    pc,               \* what the main thread does next
    runs,             \* how often it was started
    commit_limit,
    blame_map,        \* [Revs -> NoEntry, OnDisk or a mark number]
    revs_to_process,
    compute_index,    \* how many of them have been requested
    rev_done,         \* how many results have been read
    prev_revs_done,   \* marks found in the marks file
    query,            \* each compute thread's request channel
    response,         \* each compute thread's result channel
    alive,            \* has the compute thread not panicked?
    fi,               \* what the fast-import child does next
    marks,            \* its mark table
    tip,              \* its idea of the branch
    ref,              \* durable: the branch of the blame repository
    marks_file,       \* durable: the marks file (absent = no marks)
    partial           \* revisions whose blame commit has a truncated tree

mainVars    == <<pc, runs, commit_limit, blame_map, revs_to_process,
                 compute_index, rev_done, prev_revs_done>>
threadVars  == <<query, response, alive>>
importVars  == <<fi, marks, tip, partial>>
durableVars == <<ref, marks_file>>
vars == <<mainVars, threadVars, importVars, durableVars>>

NoEntry == -1   \* blame_map has no key for the revision
OnDisk  == 0    \* BlameRepoCommit::Commit(oid)
                \* BlameRepoCommit::Mark(n) is the number n itself

Threads == 0 .. NumThreads - 1

rev_count == Len(revs_to_process)
Running   == pc # "down"
InputOpen == pc \in {"read", "header", "tree"}   \* fast-import's stdin

-----------------------------------------------------------------------------
(* What a starting build can find.                                         *)

Reachable(r) == IF r = NoRev THEN {} ELSE Ancestors[r]

(* Mutant: the marks file is not consulted.                                *)
RecordedByRef == Reachable(ref)

(* index_blame over the ref, augmented from the marks file.                *)
Recorded == Reachable(ref) \cup Range(marks_file)

(* The revisions of S in the order the revwalk from h visits them.         *)
InWalkOrder(s, S, h) ==
    /\ Range(s) = S
    /\ \A i, j \in DOMAIN s : i < j =>
           \E m, n \in DOMAIN Walk[h] :
               m < n /\ Walk[h][m] = s[i] /\ Walk[h][n] = s[j]

Truncate(s, limit) ==
    IF limit > 0 /\ limit < Len(s) THEN SubSeq(s, 1, limit) ELSE s

(* Mutant: one request too few.                                            *)
OneRequestLess ==
    IF rev_count < BufferSize * NumThreads THEN rev_count
                                           ELSE BufferSize * NumThreads - 1

InitialRequests ==
    IF rev_count < BufferSize * NumThreads THEN rev_count
                                           ELSE BufferSize * NumThreads

Init ==
    /\ pc = "down" /\ runs = 0 /\ commit_limit = 0
    /\ blame_map = [r \in Revs |-> NoEntry]
    /\ revs_to_process = <<>>
    /\ compute_index = 0 /\ rev_done = 0 /\ prev_revs_done = 0
    /\ query = [t \in Threads |-> <<>>]
    /\ response = [t \in Threads |-> <<>>]
    /\ alive = [t \in Threads |-> TRUE]
    /\ fi = "done" /\ marks = <<>> /\ tip = NoRev /\ partial = {}
    /\ ref = InitialRef
    /\ marks_file = <<>>

(* The main thread reads the ref and the marks file, walks the source      *)
(* history and starts the compute threads.                                 *)
Start(h, limit) ==
    /\ pc = "down" /\ fi \in {"done", "dead"}
    /\ runs < MaxRuns
    /\ pc' = "fill" /\ runs' = runs + 1 /\ commit_limit' = limit
    /\ blame_map' = [r \in Revs |-> IF r \in Recorded THEN OnDisk ELSE NoEntry]
    /\ prev_revs_done' = Cardinality(DOMAIN marks_file)
    /\ LET todo == Ancestors[h] \ Recorded
       IN  \E s \in [1 .. Cardinality(todo) -> todo] :
               /\ InWalkOrder(s, todo, h)
               /\ revs_to_process' = Truncate(s, limit)
    /\ compute_index' = 0 /\ rev_done' = 0
    /\ query' = [t \in Threads |-> <<>>]
    /\ response' = [t \in Threads |-> <<>>]
    /\ alive' = [t \in Threads |-> TRUE]
    /\ UNCHANGED <<importVars, durableVars>>

-----------------------------------------------------------------------------
(* The compute threads.                                                    *)

(* recv, compute_diff_data, send: the thread's own steps commute with      *)
(* everyone else's until the response is in the channel.                   *)
Compute(t) ==
    /\ Running /\ alive[t] /\ query[t] # <<>>
    /\ response' = [response EXCEPT ![t] = Append(@, Head(query[t]))]
    /\ query' = [query EXCEPT ![t] = Tail(@)]
    /\ UNCHANGED <<mainVars, alive, importVars, durableVars>>

(* The thread panics on a request: its ends of both channels are dropped,  *)
(* results already sent can still be received.                             *)
ThreadPanic(t) ==
    /\ "thread" \in Faults
    /\ Running /\ alive[t] /\ query[t] # <<>>
    /\ alive' = [alive EXCEPT ![t] = FALSE]
    /\ query' = [query EXCEPT ![t] = <<>>]
    /\ UNCHANGED <<mainVars, response, importVars, durableVars>>

-----------------------------------------------------------------------------
(* The main thread.                                                        *)

SendTo(t, r) == query' = [query EXCEPT ![t] = Append(@, r)]

(* Filling the compute buffer, one send at a time.                         *)
FillBuffer ==
    /\ pc = "fill" /\ compute_index < InitialRequests
    /\ LET t == compute_index % NumThreads
       IN  alive[t] /\ SendTo(t, revs_to_process[compute_index + 1])
    /\ compute_index' = compute_index + 1
    /\ UNCHANGED <<pc, runs, commit_limit, blame_map, revs_to_process, rev_done,
                   prev_revs_done, response, alive, importVars, durableVars>>

(* fast-import is spawned and imports the marks file if it exists.         *)
StartFastImport ==
    /\ pc = "fill" /\ compute_index = InitialRequests
    /\ pc' = "read"
    /\ fi' = "up" /\ marks' = marks_file /\ tip' = NoRev
    /\ UNCHANGED <<runs, commit_limit, blame_map, revs_to_process, compute_index,
                   rev_done, prev_revs_done, threadVars, partial, durableVars>>

(* One result is read from the thread whose turn it is, and that thread    *)
(* gets the next request.  The step needs the right revision: that the     *)
(* assertion never fails is ResponseInOrder.                               *)
ReadResult ==
    /\ pc = "read" /\ fi = "up" /\ rev_done < rev_count
    /\ LET t == rev_done % NumThreads
       IN  /\ response[t] # <<>>
           /\ Head(response[t]) = revs_to_process[rev_done + 1]
           /\ response' = [response EXCEPT ![t] = Tail(@)]
           /\ IF compute_index < rev_count
              THEN /\ alive[t]
                   /\ SendTo(t, revs_to_process[compute_index + 1])
                   /\ compute_index' = compute_index + 1
              ELSE UNCHANGED <<query, compute_index>>
    /\ rev_done' = rev_done + 1
    /\ pc' = "header"
    /\ UNCHANGED <<runs, commit_limit, blame_map, revs_to_process, prev_revs_done,
                   alive, importVars, durableVars>>

CurrentRev == revs_to_process[rev_done]

(* Mutants: marks counted from 0; imported marks not counted; marks        *)
(* numbered by the requests sent.                                          *)
MarkFromZero  == rev_done + prev_revs_done - 1
MarkOfThisRun == rev_done
MarkOfRequest == compute_index + prev_revs_done

mark_id    == rev_done + prev_revs_done

(* blame_map[&pid] panics for a parent that is not in the map: that it     *)
(* never does is ParentsMapped.                                            *)
ParentsInMap == \A p \in ParentsOf(CurrentRev) : blame_map[p] # NoEntry

(* The commit header, up to and including `deleteall`.                     *)
WriteHeader ==
    /\ pc = "header" /\ fi = "up" /\ ParentsInMap
    /\ blame_map' = [blame_map EXCEPT ![CurrentRev] = mark_id]
    /\ pc' = "tree"
    /\ UNCHANGED <<runs, commit_limit, revs_to_process, compute_index, rev_done,
                   prev_revs_done, threadVars, importVars, durableVars>>

(* fast-import closes the open commit and gives the mark to it.            *)
CloseCommit == /\ marks' = [k \in DOMAIN marks \cup {mark_id} |->
                                IF k = mark_id THEN CurrentRev ELSE marks[k]]
               /\ tip' = CurrentRev

(* build_blame_tree writes the whole tree; then perhaps a checkpoint.      *)
BuildBlameTree ==
    /\ pc = "tree" /\ fi = "up"
    /\ CloseCommit
    /\ partial' = partial \ {CurrentRev}
    /\ fi' = IF rev_done % CheckpointEvery = 0 THEN "branches" ELSE "up"
    /\ pc' = "read"
    /\ UNCHANGED <<runs, commit_limit, blame_map, revs_to_process, compute_index,
                   rev_done, prev_revs_done, threadVars, durableVars>>

(* wait() closes fast-import's input.                                      *)
ShutDown ==
    /\ pc = "read" /\ fi = "up" /\ rev_done = rev_count
    /\ pc' = "wait"
    /\ UNCHANGED <<runs, commit_limit, blame_map, revs_to_process, compute_index,
                   rev_done, prev_revs_done, threadVars, importVars, durableVars>>

(* The exit status is only logged; without a limit the marks file goes.    *)
Exit ==
    /\ pc = "wait" /\ fi \in {"done", "dead"}
    /\ pc' = "down"
    /\ marks_file' = IF commit_limit = 0 THEN <<>> ELSE marks_file
    /\ UNCHANGED <<runs, commit_limit, blame_map, revs_to_process, compute_index,
                   rev_done, prev_revs_done, threadVars, importVars, ref>>

-----------------------------------------------------------------------------
(* Panics of the main thread, and what fast-import makes of a closed pipe. *)

(* Mutant: the main thread keeps a sender of each response channel, so     *)
(* that receiving from a dead thread blocks.                               *)
OnlySendFails ==
    \/ /\ pc = "fill" /\ compute_index < InitialRequests
       /\ ~ alive[compute_index % NumThreads]
    \/ /\ pc = "read" /\ fi = "up" /\ rev_done < rev_count
       /\ LET t == rev_done % NumThreads
          IN  ~ alive[t] /\ response[t] # <<>> /\ compute_index < rev_count

(* The thread the main thread must talk to next is gone.                   *)
PeerGone ==
    \/ /\ pc = "fill" /\ compute_index < InitialRequests
       /\ ~ alive[compute_index % NumThreads]
    \/ /\ pc = "read" /\ fi = "up" /\ rev_done < rev_count
       /\ LET t == rev_done % NumThreads
          IN  ~ alive[t] /\ (response[t] = <<>> \/ compute_index < rev_count)

(* A write to, or a read from, a fast-import that died.                    *)
ImportGone == fi = "dead" /\ InputOpen

(* Anything unwrapped between the header and the end of the tree.          *)
TreePanic == "panic" \in Faults /\ pc = "tree" /\ fi = "up"

(* Unwinding closes fast-import's input.  In the middle of a tree,         *)
(* fast-import takes the end of input for the end of the commit, with the  *)
(* entries it has.                                                         *)
Panic ==
    /\ \/ (PeerGone \/ ImportGone) /\ UNCHANGED <<marks, tip, partial>>
       \/ /\ TreePanic /\ CloseCommit
          /\ partial' \in {partial \ {CurrentRev}, partial \cup {CurrentRev}}
    /\ pc' = "down"
    /\ UNCHANGED <<runs, commit_limit, blame_map, revs_to_process, compute_index,
                   rev_done, prev_revs_done, threadVars, fi, durableVars>>

(* The machine stops, or both processes are killed.                        *)
Kill ==
    /\ "kill" \in Faults
    /\ Running \/ fi \in {"up", "branches", "marks"}
    /\ pc' = "down" /\ fi' = "dead"
    /\ UNCHANGED <<runs, commit_limit, blame_map, revs_to_process, compute_index,
                   rev_done, prev_revs_done, threadVars, marks, tip, partial, durableVars>>

-----------------------------------------------------------------------------
(* git fast-import.                                                        *)

EndOfInput == /\ fi = "up" /\ pc \in {"wait", "down"}
              /\ fi' = "branches"
              /\ UNCHANGED <<mainVars, threadVars, marks, tip, partial, durableVars>>

(* --force: the branch is set even if its old tip is no ancestor.          *)
DumpBranches == /\ fi = "branches"
                /\ ref' = IF tip = NoRev THEN ref ELSE tip
                /\ fi' = "marks"
                /\ UNCHANGED <<mainVars, threadVars, marks, tip, partial, marks_file>>

DumpMarks == /\ fi = "marks"
             /\ marks_file' = marks
             /\ fi' = IF InputOpen THEN "up" ELSE "done"
             /\ UNCHANGED <<mainVars, threadVars, marks, tip, partial, ref>>

(* fast-import fails; on its own errors it still writes the marks.         *)
ImportFails == /\ "import" \in Faults
               /\ fi \in {"up", "branches", "marks"}
               /\ fi' = "dead"
               /\ marks_file' \in {marks_file, marks}
               /\ UNCHANGED <<mainVars, threadVars, marks, tip, partial, ref>>

-----------------------------------------------------------------------------
(* Nothing is left to run: the last build has ended.                       *)
AllRunsOver == /\ runs = MaxRuns /\ ~ Running /\ fi \in {"done", "dead"}
               /\ UNCHANGED vars

MainStep == FillBuffer \/ StartFastImport \/ ReadResult \/ WriteHeader
            \/ BuildBlameTree \/ ShutDown \/ Exit
ImportStep == EndOfInput \/ DumpBranches \/ DumpMarks

Next == \/ \E h \in Heads, limit \in Limits : Start(h, limit)
        \/ \E t \in Threads : Compute(t) \/ ThreadPanic(t)
        \/ FillBuffer \/ StartFastImport \/ ReadResult \/ WriteHeader
        \/ BuildBlameTree \/ ShutDown \/ Exit
        \/ Panic \/ Kill \/ ImportFails
        \/ EndOfInput \/ DumpBranches \/ DumpMarks
        \/ AllRunsOver

Spec == Init /\ [][Next]_vars

(* The operating system schedules every thread and both processes; nobody  *)
(* owes a build a start or a fault.  A panic of the main thread is only    *)
(* owed when it has nothing else to do.                                    *)
Fairness == /\ WF_vars(MainStep)
            /\ \A t \in Threads : WF_vars(Compute(t))
            /\ WF_vars(ImportStep)
            /\ WF_vars((PeerGone \/ ImportGone) /\ Panic)

FairSpec == Spec /\ Fairness
=============================================================================
