------------------------------- MODULE Query -------------------------------
(* A query from its terms to what the page shows: the plan of its pipelines,  *)
(* run with the commands that answer a search: `crossref-expand` in the       *)
(* pipeline of the symbols, `compile-results` where the pipelines meet, and    *)
(* `augment-results` after it.                                                 *)
EXTENDS QueryPlan, Expand, Results

VARIABLE index      \* what the searches find: [found, pretty, crossref, files, texts], read-only

vars == <<planVars, expandVars, resultVars, index>>

Expands(pipe) == \E i \in DOMAIN groups[Head(pipe)].segments :
                    groups[Head(pipe)].segments[i].command = "crossref-expand"

\* The values of the inputs of `compile-results`, in the order of the plan.
Symbols ==
    [i \in DOMAIN expanded |->
        [type |-> "symbol", sym |-> expanded[i].sym, label |-> expanded[i].label,
         root |-> expanded[i].root, pretty |-> index.pretty[expanded[i].sym],
         quality |-> "ExplicitIdentifier", crossref |-> index.crossref[expanded[i].sym]]]

ValuesOf(kind) ==
    CASE kind = "Files" -> [i \in DOMAIN index.files |-> [type |-> "file", path |-> index.files[i]]]
      [] kind = "Crossrefs" -> Symbols
      [] kind = "Texts" -> [i \in DOMAIN index.texts |->
                              [type |-> "text", path |-> index.texts[i].path, lines |-> index.texts[i].lines]]
      [] OTHER -> <<>>

Pipes ==
    /\ StartPipes
    /\ IF \E i \in DOMAIN phases[at.phase].pipes : Expands(phases[at.phase].pipes[i])
       THEN ExpandStart(index.found)
       ELSE UNCHANGED expandVars
    /\ UNCHANGED <<resultVars, index>>

Junctions ==
    /\ StartJunctions
    /\ IF "compile" \in ToSet(phases[at.phase].junctions)
       THEN LET inputs == junctions["compile"].inputs
            IN  ResultsStart(FlattenSeq([i \in DOMAIN inputs |-> ValuesOf(Taken(inputs[i]).kind)]))
       ELSE UNCHANGED resultVars
    /\ UNCHANGED <<expandVars, index>>

Busy(name) == \E i \in DOMAIN tasks : tasks[i].name = name /\ tasks[i].state = "busy"

\* The steps of the commands, while the tasks they belong to run.
Expanding ==
    /\ Busy("semantic-search") /\ ExpandOne
    /\ UNCHANGED <<planVars, resultVars, index>>

Merging ==
    /\ Busy("compile")
    /\ IngestFiles \/ IngestSymbol \/ IngestText \/ Compile
    /\ UNCHANGED <<planVars, expandVars, index>>

Showing ==
    /\ Busy("display")
    /\ LET n == IF \E i \in DOMAIN groups["display"].segments :
                    "before" \in groups["display"].segments[i].args THEN 1 ELSE 0
       IN  Augment(n, n)
    /\ UNCHANGED <<planVars, expandVars, index>>

\* A task whose value cannot be made fails at once; the others end when their
\* command is through.
Through(i) ==
    tasks[i].value.kind # "error" =>
        CASE tasks[i].name = "semantic-search" -> work = <<>>
          [] tasks[i].name = "compile" -> stage \in {"compiled", "error"}
          [] tasks[i].name = "display" -> stage = "augmented"
          [] OTHER -> TRUE

TaskEnds ==
    /\ \E i \in DOMAIN tasks :
          /\ Through(i) /\ Finish(i)
          /\ tasks[i].name = "compile" /\ stage = "error" => tasks'[i].state = "failed"
    /\ UNCHANGED <<expandVars, resultVars, index>>

Planning == PlanStep /\ UNCHANGED <<expandVars, resultVars, index>>

QueryStep == Planning \/ Pipes \/ Junctions \/ Expanding \/ Merging \/ Showing \/ TaskEnds

QueryOver == outcome \in {"conflicts", "inconsistent", "unparsed", "failed", "answered"}

\* Every query comes to an end: each task does (the requests a command makes of
\* the index return or fail), and no task waits for another.
QueryEnds == outcome = "terms" ~> QueryOver
=============================================================================
