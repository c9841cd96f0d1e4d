----------------------------- MODULE MCHistory -----------------------------
(***************************************************************************)
(* Small source histories: three commits in a line, or two       *)
(* branches and their merge, with trees in which a class gets methods,     *)
(* moves to another directory and back, and comes beside a binary file,    *)
(* a submodule and one that is not a commit.  Beside them, in states of    *)
(* their own, all patches between two short files.                         *)
(***************************************************************************)
EXTENDS History, TLC

VARIABLE patch    \* [new, old, same], or none

allvars == <<vars, patch>>

Open(name) == <<"open", name>>
Close == <<"close", "}">>
Class == <<Open("C"), Close>>
ClassWith(m) == <<Open("C"), Open(m), Close, Close>>
Both == <<Open("C"), Open("m"), Close, Open("n"), Close, Close>>
Text == <<<<"tok", "x">>>>

Sub(id) == [kind |-> "commit", id |-> id]
f == <<"f">>
g == <<"d", "g">>
png == <<"d", "png">>
txt == <<"d", "txt">>
sub == <<"e", "sub">>

First == g :> Blob(Class)
MCTrees ==
    {f :> Blob(ClassWith("m")) @@ png :> Blob(Text) @@ sub :> Sub("0"),
     f :> Blob(Class) @@ g :> Blob(ClassWith("m")) @@ png :> Blob(Text) @@ sub :> Sub("0"),
     f :> Blob(Both) @@ txt :> Blob(Text) @@ sub :> Sub("1")}

MCLangOf(p) == CASE Last(p) \in {"f", "g"} -> "cpp"
                 [] Last(p) = "txt" -> "none"
                 [] OTHER -> "untokenized"

MCRank(rec) == (IF rec.path = f THEN 0 ELSE 1) + 2 * Len(rec.pretty)
               + (IF Last(rec.pretty) = "n" THEN 10 ELSE 0)

(* Some common subsequence, as a diff gives.                               *)
MCDiff(new, old) ==
    LET Match(s, n) == LET o == {k \in DOMAIN old : k > s.last /\ old[k] = new[n]}
                           first == CHOOSE k \in o : \A j \in o : k <= j
                       IN  IF o = {} THEN s
                           ELSE [last |-> first, same |-> s.same \cup {<<n, first>>}]
    IN  FoldLeft(Match, [last |-> 0, same |-> {}], [n \in DOMAIN new |-> n]).same

Line == <<<<>>, <<1>>, <<2>>>>
Branches == <<<<>>, <<1>>, <<1>>, <<2, 3>>>>

NoPatch == [new |-> <<>>, old |-> <<>>, same |-> {}]

(* Which lines of the one are paired with which of the other.              *)
Matchings(new, old) ==
    UNION {{{<<SetToSortSeq(N, <)[i], SetToSortSeq(O, <)[i]>> : i \in 1..Cardinality(N)}
            : O \in kSubset(Cardinality(N), DOMAIN old)} : N \in SUBSET DOMAIN new}

FileOf(n) == [i \in 1..n |-> "x"]

MCInit ==
    /\ Init
    /\ \/ /\ \/ \E trees \in [1..3 -> MCTrees \cup {First}] :
                   source = [r \in 1..3 |-> [parents |-> Line[r], tree |-> trees[r]]]
             \/ \E trees \in [2..4 -> MCTrees] :
                   source = [r \in 1..4 |-> [parents |-> Branches[r],
                                              tree |-> IF r = 1 THEN First ELSE trees[r]]]
          /\ jobs \in {{"blame"}, {"syntax", "timeline"}}
          /\ patch = NoPatch
       \/ /\ source = <<[parents |-> <<>>, tree |-> f :> Blob(Class)]>>
          /\ \E k \in 0..5, l \in 0..5 : \E same \in Matchings(FileOf(k), FileOf(l)) :
                patch = [new |-> FileOf(k), old |-> FileOf(l), same |-> same]
          /\ jobs = {}

MCNext == patch = NoPatch /\ Next /\ UNCHANGED patch

MCSpec == MCInit /\ [][MCNext]_allvars /\ Fairness

(* The pairs of unmodified lines are those of the diff, whatever changes   *)
(* there are and however far they are apart.                               *)
PairsAligned ==
    LET read == ReadPatch(PatchLines(patch.new, patch.old, patch.same))
    IN  /\ read.agrees
        /\ unmodified_lines(patch.new, patch.old, patch.same)
             = {<<pair[1] - 1, pair[2] - 1>> : pair \in patch.same}

(* The blame of the source and of the tokens derived from it is true, line *)
(* by line and commit by commit, and so is what both rest on: the pairs    *)
(* taken from a patch (find_unmodified_lines, blame_for_path).             *)
LinesTrue == BlameTrue /\ TimelineTrue /\ PairsAligned
=============================================================================
