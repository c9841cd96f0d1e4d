-------------------------- MODULE BlameBuildProps --------------------------
(***************************************************************************)
(* What BlameBuild is checked against.                                     *)
(***************************************************************************)
EXTENDS BlameBuild

MarkTable(f) == /\ IsFiniteSet(DOMAIN f) /\ DOMAIN f \subseteq Nat \ {0}
                /\ f \in [DOMAIN f -> Revs]

TypeOK ==
    /\ pc \in {"down", "fill", "read", "header", "tree", "wait"}
    /\ runs \in 0 .. MaxRuns
    /\ commit_limit \in Limits \cup {0}
    /\ blame_map \in [Revs -> {NoEntry} \cup Nat]
    /\ revs_to_process \in Seq(Revs)
    /\ compute_index \in 0 .. rev_count
    /\ rev_done \in 0 .. compute_index
    /\ pc \in {"header", "tree"} => rev_done > 0
    /\ prev_revs_done \in Nat
    /\ query \in [Threads -> Seq(Revs)]
    /\ response \in [Threads -> Seq(Revs)]
    /\ alive \in [Threads -> BOOLEAN]
    /\ fi \in {"up", "branches", "marks", "done", "dead"}
    /\ MarkTable(marks) /\ MarkTable(marks_file)
    /\ tip \in Revs \cup {NoRev}
    /\ ref \in Revs \cup {NoRev}
    /\ partial \subseteq Revs

(* The assertion in the main loop: whatever the threads' speeds, the next  *)
(* result of the thread whose turn it is is the one of the next revision.  *)
ResponseInOrder ==
    (pc = "read" /\ rev_done < rev_count) =>
        LET t == rev_done % NumThreads
        IN  response[t] # <<>> => Head(response[t]) = revs_to_process[rev_done + 1]

(* Why: the first index not below i that is thread t's turn...             *)
Due(i, t) == i + ((t - i) % NumThreads)

(* ...and what t's result channel r and request channel q hold: one after  *)
(* the other, the revisions of t's turns from i on, and up to j while t is *)
(* alive.                                                                  *)
Turns(t, i, j, r, q, live) ==
    LET due == Due(i, t)
        sent == Len(r) + Len(q)
    IN  /\ due + sent * NumThreads <= Due(j, t)
        /\ live => due + sent * NumThreads = Due(j, t)
        /\ \A k \in 1 .. Len(r) : r[k] = revs_to_process[due + (k - 1) * NumThreads + 1]
        /\ \A k \in 1 .. Len(q) :
               q[k] = revs_to_process[due + (Len(r) + k - 1) * NumThreads + 1]

Channels(t) == Turns(t, rev_done, compute_index, response[t], query[t], alive[t])

(* Once the buffer is filled, requests run a multiple of NumThreads ahead  *)
(* of results, so the next request is for the thread just read.            *)
Ahead == /\ pc = "fill" => rev_done = 0
         /\ pc \in {"read", "header", "tree", "wait"} =>
                \/ compute_index = rev_done + BufferSize * NumThreads
                \/ compute_index = rev_count

Pipeline == Ahead /\ (Running => \A t \in Threads : Channels(t))

(* blame_map[&pid] never panics: when a commit header is written, every    *)
(* parent has a blame commit, from the ref, the marks file or this run,    *)
(* although the ref alone may cover one side of a merge only.              *)
ParentsMapped == pc = "header" => ParentsInMap

(* A mark kept in blame_map still names the blame commit of its revision   *)
(* in fast-import's table, so that `from`, `merge` and `ls` see the right  *)
(* commit.  The header's own mark exists once the commit is closed.        *)
MarksResolve ==
    InputOpen => \A r \in Revs :
        (blame_map[r] > 0 /\ ~ (pc = "tree" /\ r = CurrentRev)) =>
            blame_map[r] \in DOMAIN marks /\ marks[blame_map[r]] = r

(* Together: what blame_map says of a revision is true however its entry   *)
(* came about, from the ref, from the marks of earlier builds or from this *)
(* one, and it says enough when a commit is written.                       *)
BlameMapTrue == ParentsMapped /\ MarksResolve

(* "we need to add the count of imported marks so we don't clobber any     *)
(* existing ones": no mark is ever re-pointed from one version of the      *)
(* marks file to the next.                                                 *)
NoMarkClobbered ==
    [][\A n \in DOMAIN marks_file : n \in DOMAIN marks_file' =>
            marks_file'[n] = marks_file[n]]_vars

(* "so that the app crashes rather than hanging": every started build      *)
(* comes to an end, even when compute threads or fast-import die under it. *)
RunEnds == Running ~> ~ Running

(* A build that began in an empty blame repository is a BlameStore: each   *)
(* revision once, parents first, and an aborted build resumes from what    *)
(* the ref and the marks file together remember.                           *)
Store == INSTANCE BlameStore WITH
             known <- Recorded \cup (IF fi \in {"done", "dead"} THEN {} ELSE Range(marks)),
             saved <- Recorded

StoreSpec == Store!Spec

(* "The marks file will be deleted on success but left around on error."   *)
MarksLeftOnError == [][fi = "dead" => DOMAIN marks_file \subseteq DOMAIN marks_file']_vars

(* The blame repository "has exactly the same file structure as the        *)
(* original repository": no recorded commit has a truncated tree.  This    *)
(* does NOT hold after a panic in the middle of a tree.                    *)
TreesWhole == partial \cap Recorded = {}
=============================================================================
