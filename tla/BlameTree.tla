----------------------------- MODULE BlameTree -----------------------------
(***************************************************************************)
(* The content of one commit of a blame repository: for each line of each  *)
(* file, the revision, path and line number it came from.  build-blame     *)
(* makes it for the source repository, build-timeline-tree, which has the  *)
(* same code, for the repository of syntax tokens.                         *)
(***************************************************************************)
EXTENDS Integers, FiniteSets, Sequences, SequencesExt

CONSTANTS Context,      \* lines around a change that a hunk shows; git has 3
          Diff(_, _),   \* Diff(new, old): the pairs of lines git says are the same
          EmptySha1     \* the id of the empty blob, met as a submodule's revision

-----------------------------------------------------------------------------
(***************************************************************************)
(* The tree of a commit, and the walk that the programs which derive one   *)
(* repository from another make through it beside those of its parents.    *)
(*                                                                         *)
(* A tree is a function from paths (sequences of names) to objects: a blob *)
(* is [kind |-> "blob", lines |-> a sequence of lines], a submodule is     *)
(* [kind |-> "commit", id |-> its revision].  Two entries have the same    *)
(* git object id when they have the same content.                          *)
(***************************************************************************)
Blob(lines) == [kind |-> "blob", lines |-> lines]
IsBlobAt(tree, p) == p \in DOMAIN tree /\ tree[p].kind = "blob"

(* What a tree has at and below a path; empty if it has nothing there.     *)
Entry(tree, q) == LET at == {p \in DOMAIN tree : IsPrefix(q, p)}
                  IN  [p \in at |-> tree[p]]

HasEntry(tree, q) == \E p \in DOMAIN tree : IsPrefix(q, p)
SameEntry(tree, other, q) == HasEntry(other, q) /\ Entry(tree, q) = Entry(other, q)

(***************************************************************************)
(* The walk of a commit's tree beside those of its parents.  At an entry   *)
(* that one of the parents has too the walk stops, with the first such     *)
(* parent; a different directory is entered.                               *)
(***************************************************************************)
LinkedTo(tree, parents, q) == {i \in DOMAIN parents : SameEntry(tree, parents[i], q)}

Links(tree, parents) ==
    {l \in UNION {{<<SubSeq(p, 1, k), i>> : k \in 1..Len(p), i \in DOMAIN parents}
                  : p \in DOMAIN tree} :
        /\ l[2] \in LinkedTo(tree, parents, l[1])
        /\ \A i \in LinkedTo(tree, parents, l[1]) : l[2] <= i
        /\ \A k \in 1..(Len(l[1]) - 1) : LinkedTo(tree, parents, SubSeq(l[1], 1, k)) = {}}

Modified(tree, parents) ==
    {p \in DOMAIN tree : \A k \in 1..Len(p) : LinkedTo(tree, parents, SubSeq(p, 1, k)) = {}}

-----------------------------------------------------------------------------
(***************************************************************************)
(* The patch between two versions: the lines in the order a diff shows     *)
(* them, of which only those near a change are in a hunk.                  *)
(***************************************************************************)
NoLine == 0

PatchLines(new, old, same) ==
    LET Upto(s, k) == IF k = 0 THEN <<0, 0>> ELSE s[k]
        ms == SetToSortSeq(same, LAMBDA a, b : a[1] < b[1]) \o <<<<Len(new) + 1, Len(old) + 1>>>>
        Between(a, b) ==
            [i \in 1..(b[2] - a[2] - 1) |-> [origin |-> "-", new |-> NoLine, old |-> a[2] + i]]
            \o [i \in 1..(b[1] - a[1] - 1) |-> [origin |-> "+", new |-> a[1] + i, old |-> NoLine]]
        Piece(k) == Between(Upto(ms, k - 1), ms[k])
                    \o (IF k = Len(ms) THEN <<>>
                        ELSE <<[origin |-> " ", new |-> ms[k][1], old |-> ms[k][2]]>>)
    IN  FlattenSeq([k \in 1..Len(ms) |-> Piece(k)])

HunkLines(patch) ==
    LET near == {i \in DOMAIN patch : \E j \in DOMAIN patch :
                    patch[j].origin # " " /\ i - j \in (-Context)..Context}
    IN  [n \in 1..Cardinality(near) |->
            patch[CHOOSE i \in near : Cardinality({j \in near : j <= i}) = n]]

(* Lines are numbered from 0 in the pairs and from 1 in the patch.         *)
PendingLines(s, upto) == {<<i, i + s.delta>> : i \in s.latest_line..(upto - 1)}

DeltaOf(line) == CASE line.origin = "+" -> -1
                   [] line.origin = "-" -> 1
                   [] OTHER -> 0

ReadPatchLine(s, line) ==
    LET pending == IF line.new = NoLine THEN {} ELSE PendingLines(s, line.new - 1)
        shown == IF line.origin = " " THEN {<<line.new - 1, line.old - 1>>} ELSE {}
    IN  [latest_line |-> IF line.new = NoLine THEN s.latest_line ELSE line.new,
         delta |-> s.delta + DeltaOf(line),
         unchanged |-> s.unchanged \cup pending \cup shown,
         agrees |-> s.agrees /\ (line.origin = " " => line.old = line.new + s.delta)]

ReadPatch(patch) ==
    FoldLeft(ReadPatchLine,
             [latest_line |-> 0, delta |-> 0, unchanged |-> {}, agrees |-> TRUE],
             HunkLines(patch))

AfterLastHunk(s, linecount) == PendingLines(s, linecount)

unmodified_lines(new, old, same) ==
    LET s == ReadPatch(PatchLines(new, old, same))
    IN  s.unchanged \cup AfterLastHunk(s, Len(new))

-----------------------------------------------------------------------------
(***************************************************************************)
(* Renames and copies, as git finds them for a commit with one parent: a   *)
(* path that is new, or whose content is, may come from a path that was    *)
(* removed or modified.  The code keys them by the new content, not by the *)
(* new path.                                                               *)
(***************************************************************************)
Similar(new, old) ==
    LET kept == {i \in DOMAIN new : \E j \in DOMAIN old : new[i] = old[j]}
    IN  kept # {} /\ 10 * Cardinality(kept) >= 3 * Len(new)

MovedFrom(tree, parent, p) ==
    {q \in DOMAIN parent \ {p} :
        /\ IsBlobAt(parent, q)
        /\ ~SameEntry(parent, tree, q)
        /\ Similar(tree[p].lines, parent[q].lines)}

MoveTargets(tree, parent) ==
    {p \in DOMAIN tree :
        /\ IsBlobAt(tree, p)
        /\ IsBlobAt(parent, p) => ~Similar(tree[p].lines, parent[p].lines)
        /\ MovedFrom(tree, parent, p) # {}}

file_movements(tree, parents) ==
    IF Len(parents) # 1 THEN {[b \in {} |-> <<>>]}
    ELSE LET to == MoveTargets(tree, parents[1])
             from(b) == UNION {MovedFrom(tree, parents[1], p) : p \in {t \in to : tree[t] = b}}
             all == [{tree[p] : p \in to} -> UNION {MovedFrom(tree, parents[1], p) : p \in to}]
         IN  {m \in all : \A b \in DOMAIN m : m[b] \in from(b)}

-----------------------------------------------------------------------------
(***************************************************************************)
(* The blame of one file.                                                  *)
(***************************************************************************)
PathUnchanged == <<"%">>

ParentPath(movement, blob, path) == IF blob \in DOMAIN movement THEN movement[blob] ELSE path

find_unmodified_lines(tree, parent, movement, path) ==
    LET from == ParentPath(movement, tree[path], path)
    IN  IF IsBlobAt(parent, from)
        THEN unmodified_lines(tree[path].lines, parent[from].lines,
                              Diff(tree[path].lines, parent[from].lines))
        ELSE {}

CarriedAsIs(entry, path, parent_path) == entry

Carried(entry, path, parent_path) ==
    IF path # parent_path /\ entry.path = PathUnchanged
    THEN [entry EXCEPT !.path = parent_path] ELSE entry

FromFirstParent(parents) == Reverse([i \in DOMAIN parents |-> i])

blame_for_path(rev, tree, parents, blame_parents, movement, path) ==
    LET from == ParentPath(movement, tree[path], path)
        Inherit(blame, i) ==
            LET same == find_unmodified_lines(tree, parents[i], movement, path)
                before(n) == {o \in DOMAIN blame_parents[i][from].lines : <<n - 1, o - 1>> \in same}
            IN  IF ~IsBlobAt(blame_parents[i], from) THEN blame
                ELSE [n \in DOMAIN blame |->
                        IF before(n) = {} THEN blame[n]
                        ELSE LET o == CHOOSE o \in before(n) : TRUE
                             IN  Carried(blame_parents[i][from].lines[o], path, from)]
    IN  FoldLeft(Inherit,
                 [n \in DOMAIN tree[path].lines |->
                    [rev |-> rev, path |-> PathUnchanged, lineno |-> n]],
                 FromFirstParent(parents))

-----------------------------------------------------------------------------
(***************************************************************************)
(* The tree of a blame commit: what a parent has too is linked from the    *)
(* parent's blame, the rest is written.  A submodule is passed through,    *)
(* except for one whose revision is not that of a commit.                  *)
(***************************************************************************)
Written(rev, tree, parents, blame_parents, movement) ==
    [p \in {q \in Modified(tree, parents) :
                tree[q].kind = "commit" => tree[q].id # EmptySha1} |->
        IF tree[p].kind = "commit" THEN tree[p]
        ELSE Blob(blame_for_path(rev, tree, parents, blame_parents, movement, p))]

LinkedEntries(tree, parents, blame_parents) ==
    LET from(p) == {l \in Links(tree, parents) :
                        IsPrefix(l[1], p) /\ p \in DOMAIN blame_parents[l[2]]}
        paths == {p \in UNION {DOMAIN blame_parents[i] : i \in DOMAIN blame_parents} : from(p) # {}}
    IN  [p \in paths |-> blame_parents[(CHOOSE l \in from(p) : TRUE)[2]][p]]

(* An entry that is to be linked and that the parent's blame does not have *)
(* is passed over if it is a directory or the submodule above, and ends    *)
(* the program otherwise.                                                  *)
MissingLinks(tree, parents, blame_parents) ==
    {l \in Links(tree, parents) : ~HasEntry(blame_parents[l[2]], l[1])}

BlamePanics(tree, parents, blame_parents) ==
    \E l \in MissingLinks(tree, parents, blame_parents) :
        /\ l[1] \in DOMAIN tree
        /\ tree[l[1]].kind = "commit" => tree[l[1]].id # EmptySha1

build_blame_tree(rev, tree, parents, blame_parents, movement) ==
    LET written == Written(rev, tree, parents, blame_parents, movement)
        linked == LinkedEntries(tree, parents, blame_parents)
    IN  [p \in DOMAIN written \cup DOMAIN linked |->
            IF p \in DOMAIN written THEN written[p] ELSE linked[p]]
=============================================================================
