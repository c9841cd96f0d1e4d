--------------------------- MODULE AnalysisStore ---------------------------
(***************************************************************************)
(* What the clang plugin promises about the analysis files when compilers  *)
(* run in parallel (docs/analysis.md, "Multiple passes over a single       *)
(* file"): each compilation's records for a file are combined, once and at *)
(* one instant, with what the file already held.                           *)
(***************************************************************************)
EXTENDS Naturals, Sequences, Functions

CONSTANTS Procs, Files,
          Work     \* [Procs -> Seq([file : Files, lines : Seq(Nat)])]

VARIABLES recorded,   \* [Files -> SUBSET Nat]
          todo        \* contributions <<p, i>> still to be made

vars == <<recorded, todo>>

Init == /\ recorded = [f \in Files |-> {}]
        /\ todo = UNION {{p} \X DOMAIN Work[p] : p \in Procs}

Record(p, i) ==
    /\ <<p, i>> \in todo
    /\ todo' = todo \ {<<p, i>>}
    /\ recorded' = [recorded EXCEPT ![Work[p][i].file] = @ \cup Range(Work[p][i].lines)]

Next == \E p \in Procs : \E i \in DOMAIN Work[p] : Record(p, i)

Spec == Init /\ [][Next]_vars
=============================================================================
