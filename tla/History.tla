------------------------------ MODULE History ------------------------------
(***************************************************************************)
(* The repositories derived from the source repository, commit by commit:  *)
(* blame by build-blame, syntax by build-syntax-token-tree, and timeline,  *)
(* the blame of the syntax repository, by build-timeline-tree.             *)
(*                                                                         *)
(* Each program processes the revisions of its input that it does not know *)
(* yet, parents first, all of them or up to a limit, and git fast-import   *)
(* moves the ref of its repository to the last one when it ends.  What a   *)
(* run knows is what is reachable from that ref, and for build-blame also  *)
(* what is in its marks file, which a limited run leaves and an unlimited  *)
(* one removes.  The compute threads, the pipe to git fast-import and the  *)
(* marks are in BlameBuild; here a commit is derived in one step.          *)
(***************************************************************************)
EXTENDS SyntaxTree

CONSTANTS Limits,     \* the commit limits a run may be given; 0 is none
          MaxAborts

VARIABLES source,     \* the source history, commits in the order they were made
          jobs,       \* the programs that are called for this repository
          head,       \* the source revision the blame ref is at
          made,       \* for each program, the commits it has derived
          saved,      \* for each program, the revisions its next run will know
          marks,      \* the revisions in build-blame's marks file
          run,        \* the program that runs, what is left to do and its limit
          aborts,
          panicked    \* a program met an entry that has to be there and is not

vars == <<source, jobs, head, made, saved, marks, run, aborts, panicked>>

Programs == {"blame", "syntax", "timeline"}
NoRun == "none"

Ancestors(rev) ==
    LET anc[r \in DOMAIN source] == {r} \cup UNION {anc[p] : p \in Range(source[r].parents)}
    IN  anc[rev]

(* The tree of a revision in the repository that a program reads.          *)
InputTree(prog, rev) ==
    IF prog = "timeline" THEN GitTree(made.syntax[rev]) ELSE source[rev].tree

InputRevs(prog) == IF prog = "timeline" THEN saved.syntax ELSE Ancestors(head)

ParentTrees(prog, rev) ==
    [i \in DOMAIN source[rev].parents |-> InputTree(prog, source[rev].parents[i])]
DerivedParents(prog, rev) ==
    [i \in DOMAIN source[rev].parents |-> made[prog][source[rev].parents[i]]]

Init == /\ head = 1
        /\ made = [p \in Programs |-> [r \in {} |-> <<>>]]
        /\ saved = [p \in Programs |-> {}]
        /\ marks = {}
        /\ run = [prog |-> NoRun, left |-> {}, last |-> 0, limit |-> 0]
        /\ aborts = 0
        /\ panicked = FALSE

(* The source repository gets further commits.                             *)
Fetch == /\ run.prog = NoRun
         /\ \E h \in DOMAIN source : h # head /\ head \in Ancestors(h) /\ head' = h
         /\ UNCHANGED <<source, jobs, made, saved, marks, run, aborts, panicked>>

-----------------------------------------------------------------------------
ToDo(prog) == InputRevs(prog) \ saved[prog]

Truncated(todo, limit) ==
    {revs \in SUBSET todo :
        /\ \A r \in revs : Ancestors(r) \cap todo \subseteq revs
        /\ IF limit > 0 /\ limit < Cardinality(todo)
           THEN Cardinality(revs) = limit ELSE revs = todo}

(* A run with nothing to do changes nothing.                               *)
Start(prog, limit) ==
    /\ run.prog = NoRun /\ prog \in jobs
    /\ ToDo(prog) # {}
    /\ \E revs \in Truncated(ToDo(prog), limit) :
          run' = [prog |-> prog, left |-> revs, last |-> 0, limit |-> limit]
    /\ made' = [made EXCEPT ![prog] = Restrict(@, saved[prog])]
    /\ UNCHANGED <<source, jobs, head, saved, marks, aborts, panicked>>

NextRev(rev) == rev \in run.left /\ Range(source[rev].parents) \cap run.left = {}

Advance(rev) == run.prog # NoRun /\ NextRev(rev) /\ run' = [run EXCEPT !.left = @ \ {rev}, !.last = rev]

Derived(rev, commit) ==
    /\ made' = [made EXCEPT ![run.prog] = Over(@, [r \in {rev} |-> commit])]
    /\ Advance(rev)
    /\ UNCHANGED <<source, jobs, head, saved, marks, aborts>>

TransformBlame(rev) ==
    /\ run.prog = "blame"
    /\ NextRev(rev)
    /\ LET tree == InputTree("blame", rev)
           parents == ParentTrees("blame", rev)
           blame_parents == DerivedParents("blame", rev)
       IN  /\ \E movement \in file_movements(tree, parents) :
                 Derived(rev, build_blame_tree(rev, tree, parents, blame_parents, movement))
           /\ panicked' = (panicked \/ BlamePanics(tree, parents, blame_parents))

(* The fork of the code above does without the exceptions: everything that *)
(* is to be linked has to be there.                                        *)
TransformTimeline(rev) ==
    /\ run.prog = "timeline"
    /\ NextRev(rev)
    /\ LET tree == InputTree("timeline", rev)
           parents == ParentTrees("timeline", rev)
           blame_parents == DerivedParents("timeline", rev)
       IN  /\ \E movement \in file_movements(tree, parents) :
                 Derived(rev, build_blame_tree(rev, tree, parents, blame_parents, movement))
           /\ panicked' = (panicked \/ MissingLinks(tree, parents, blame_parents) # {})

TransformSyntax(rev) ==
    /\ run.prog = "syntax"
    /\ NextRev(rev)
    /\ Derived(rev, syntax_commit(source[rev].tree, ParentTrees("syntax", rev),
                                  DerivedParents("syntax", rev)))
    /\ UNCHANGED panicked

-----------------------------------------------------------------------------
(* What a later run finds from the ref; the walk follows all parents.      *)
IndexBlame(rev) == Ancestors(rev)

NoMarks == {}

MarksAfter == IF run.prog # "blame" THEN marks
              ELSE IF run.limit = 0 THEN {}
              ELSE marks \cup (DOMAIN made.blame \ saved.blame)

Finish ==
    /\ run.prog # NoRun
    /\ run.left = {}
    /\ marks' = MarksAfter
    /\ saved' = [saved EXCEPT ![run.prog] =
                    IndexBlame(run.last) \cup (IF run.prog = "blame" THEN MarksAfter ELSE {})]
    /\ run' = [run EXCEPT !.prog = NoRun]
    /\ UNCHANGED <<source, jobs, head, made, aborts, panicked>>

(* The program or the machine stops before the ref is moved.               *)
Abort ==
    /\ run.prog # NoRun
    /\ aborts < MaxAborts
    /\ aborts' = aborts + 1
    /\ run' = [run EXCEPT !.prog = NoRun, !.left = {}]
    /\ UNCHANGED <<source, jobs, head, made, saved, marks, panicked>>

Transform == \E r \in run.left : TransformBlame(r) \/ TransformTimeline(r) \/ TransformSyntax(r)

Next == \/ Fetch
        \/ \E prog \in Programs, limit \in Limits : Start(prog, limit)
        \/ Transform
        \/ Finish
        \/ Abort

(* The steps of Transform are those that advance the run.                  *)
Fairness == /\ WF_run(\E r \in run.left : Advance(r))
            /\ WF_vars(Finish)
            /\ \A prog \in Programs : WF_vars(\E limit \in Limits : Start(prog, limit))

-----------------------------------------------------------------------------
(***************************************************************************)
(* Properties.                                                             *)
(***************************************************************************)

(* A line of a blame tree names the revision, path and line it came from:  *)
(* that revision is an ancestor, it has the very same line there, and its  *)
(* own blame says that the line is its own.                                *)
LineTrue(prog, rev, p, n) ==
    LET entry == made[prog][rev][p].lines[n]
        path == IF entry.path = PathUnchanged THEN p ELSE entry.path
        there == InputTree(prog, entry.rev)
    IN  /\ entry.rev \in Ancestors(rev)
        /\ IsBlobAt(there, path)
        /\ entry.lineno \in DOMAIN there[path].lines
        /\ there[path].lines[entry.lineno] = InputTree(prog, rev)[p].lines[n]
        /\ made[prog][entry.rev][path].lines[entry.lineno]
             = [rev |-> entry.rev, path |-> PathUnchanged, lineno |-> entry.lineno]

BlameWhole(prog, rev) ==
    LET tree == InputTree(prog, rev)
        blame == made[prog][rev]
    IN  /\ DOMAIN blame = {p \in DOMAIN tree : tree[p].kind = "commit" => tree[p].id # EmptySha1}
        /\ \A p \in DOMAIN blame :
              IF IsBlobAt(tree, p)
              THEN /\ IsBlobAt(blame, p)
                   /\ Len(blame[p].lines) = Len(tree[p].lines)
                   /\ \A n \in DOMAIN tree[p].lines : LineTrue(prog, rev, p, n)
              ELSE blame[p] = tree[p]

(* The blame of a commit has an entry for all that the commit has, whether *)
(* taken from one of the parents or made anew, over merges, moves between  *)
(* files and submodules that are not commits, and every line of it is true.*)
BlameTrue == ~panicked /\ \A r \in DOMAIN made.blame : BlameWhole("blame", r)

(* The same for the blame of the syntax repository, whose symdex files the *)
(* commits change without having been in the commit.                       *)
TimelineTrue ==
    ~panicked /\ \A r \in DOMAIN made.timeline \cap DOMAIN made.syntax : BlameWhole("timeline", r)

(* The token and outline files of a commit are those of its source tree    *)
(* and nothing else, although most were taken over from a parent.          *)
SyntaxFollows ==
    \A r \in DOMAIN made.syntax :
        made.syntax[r].files =
            Tokenized([p \in {q \in DOMAIN source[r].tree : IsBlobAt(source[r].tree, q)
                                                           /\ LangOf(q) # Untokenized} |->
                        Outline(p, source[r].tree[p].lines)])

Linear(rev) == \A a \in Ancestors(rev) : Len(source[a].parents) <= 1
NeverRemoved(p, rev) ==
    \A a \in Ancestors(rev) : \A b \in Range(source[a].parents) :
        p \in DOMAIN source[b].tree => p \in DOMAIN source[a].tree

OfFile(records, p, pretty) == {i \in DOMAIN records : records[i] = [path |-> p, pretty |-> pretty]}

(* In a history without merges each row of each outline is found under its *)
(* symbol and under the symbol around it; and for a file that was never    *)
(* removed its symbol lists it as often as the file has it, neither an     *)
(* older version of the file nor another file's change leaving a trace.    *)
SymdexKnows ==
    \A r \in DOMAIN made.syntax : Linear(r) =>
        LET files == made.syntax[r].files
            symdex == made.syntax[r].symdex
            RecordsOf(symbol) == IF symbol \in DOMAIN symdex THEN symdex[symbol] ELSE <<>>
        IN  \A p \in DOMAIN files :
                LET lang == files[p].lang
                    rows(pretty) == {i \in DOMAIN files[p].structure : files[p].structure[i] = pretty}
                IN  /\ \A pretty \in Range(files[p].structure) : \A s \in RecordsOn(pretty) :
                          OfFile(RecordsOf(<<lang, s>>), p, pretty) # {}
                    /\ NeverRemoved(p, r) =>
                          \A symbol \in DOMAIN symdex : symbol[1] = lang =>
                              Cardinality(OfFile(symdex[symbol], p, symbol[2]))
                                = Cardinality(rows(symbol[2]))

CaughtUp(prog) == Ancestors(head) \subseteq saved[prog]

(* build-blame gets to the end of the history even if every run of it is   *)
(* limited; the other two, which keep no marks, do once no run is.         *)
CatchesUp == /\ "blame" \in jobs => <>[]CaughtUp("blame")
             /\ \A prog \in {"syntax", "timeline"} : {"syntax", prog} \subseteq jobs =>
                    (<>[](run.limit = 0) => <>[]CaughtUp(prog))
=============================================================================
