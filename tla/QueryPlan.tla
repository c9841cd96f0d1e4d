----------------------------- MODULE QueryPlan -----------------------------
(* How the text of a query becomes a plan of parallel pipelines              *)
(* (query/chew_query.rs, query/query_core.toml), and how the plan is run     *)
(* (cmd_pipeline/builder.rs, cmd_pipeline/interface.rs).                      *)
EXTENDS Integers, SequencesExt

VARIABLES
    asked,       \* the terms of the query, read-only
    query,       \* those that are still to be ingested
    todo,        \* terms_to_process: what the present term stands for
    processed,   \* terms_processed
    groups,      \* group -> [input, output, segments]
    junctions,   \* junction -> [inputs, output]
    unlinked,    \* [groups, junctions]: the queues of what has no output yet
    queued,      \* queued_groups
    roots,       \* root_groups
    consumers,   \* inputs_to_names: an output -> who takes it, in order
    next,        \* next_groups: [name, slot], slot 0 where a pipeline begins
    waiting,     \* pending_junctions: a junction -> how many inputs are missing
    seen,        \* the groups and junctions that are in a phase
    phases,      \* the plan: a sequence of [pipes, junctions]
    cur,         \* cur_phase
    named,       \* named_values: the outputs that nobody has taken yet
    tasks,       \* what runs in parallel, in the order in which it is joined
    at,          \* [phase, stage]: what the plan's run has come to
    outcome      \* "planning", "running", or how the query ended

termVars == <<asked, query, todo, processed>>
linkVars == <<groups, junctions, unlinked, queued, roots, consumers>>
phaseVars == <<next, waiting, seen, phases, cur>>
runVars == <<named, tasks, at>>
planVars == <<termVars, linkVars, phaseVars, runVars, outcome>>
-----------------------------------------------------------------------------
(* query_core.toml.  An argument "pos" is positional. *)

Use(command, args) == [command |-> command, args |-> args]

In(group, uses) == <<[group |-> group, uses |-> uses]>>

Term(uses) == [expand |-> <<>>, conflicts |-> {}, uses |-> uses]

Expansion(terms) == [expand |-> terms, conflicts |-> {}, uses |-> <<>>]

Looked(group, searchArgs, lookupArgs) ==
    In(group, <<Use("search-identifiers", {"pos", "exact-match"} \cup searchArgs),
                Use("crossref-lookup", {"exact-match"} \cup lookupArgs)>>)

Traversed(args) == In("graph-traverse", <<Use("traverse", args)>>)

Rendered(args) == In("graph-render", <<Use("graph", args)>>)

Formatted(args) == In("semantic-format", <<Use("format-symbols", args)>>)

Between == Traversed({"edge", "paths-between"})

TERM == [
    C |-> Expansion(<<"context">>),
    callsTo |-> Term(Looked("graph-symbols-default", {}, {}) \o Traversed({"edge"})),
    callsToSym |-> Term(In("graph-symbols-default", <<Use("crossref-lookup", {"pos"})>>)
                            \o Traversed({"edge"})),
    callsBetween |-> Term(Looked("graph-symbols-default", {}, {"methods"}) \o Between),
    callsBetweenSource |-> Term(Looked("graph-symbols-source", {}, {"methods"}) \o Between),
    callsBetweenTarget |-> Term(Looked("graph-symbols-target", {}, {"methods"}) \o Between),
    classDiagram |-> Term(Looked("graph-symbols-default", {"types-only"}, {}) \o Traversed({"edge"})),
    hier |-> Term(Rendered({"hier"})),
    depth |-> Term(Traversed({"max-depth"})),
    context |-> Term(In("display", <<Use("augment-results", {"before", "after"})>>)),
    fieldLayout |-> Term(Formatted({"mode"}) \o Looked("semantic-lookup", {}, {})),
    showCols |-> Term(Formatted({"show-cols"})),
    default |-> Expansion(<<"file", "idprefix", "text">>),
    file |-> Term(In("file-search", <<Use("search-files", {"pos"})>>)),
    id |-> [Term(Looked("semantic-search", {}, {})
                    \o In("semantic-search", <<Use("crossref-expand", {})>>))
                EXCEPT !.conflicts = {"idprefix"}],
    idprefix |-> Term(In("semantic-search", <<Use("search-identifiers", {"pos"}),
                                              Use("crossref-lookup", {}),
                                              Use("crossref-expand", {})>>)),
    path |-> Expansion(<<"pathre">>),
    pathre |-> Term(In("file-search", <<Use("search-files", {"pathre"})>>)
                        \o In("text-search", <<Use("search-text", {"pathre"})>>)),
    re |-> Term(In("text-search", <<Use("search-text", {"re"})>>)),
    symbol |-> Term(In("semantic-search", <<Use("search-identifiers", {"add-sym"}),
                                            Use("crossref-lookup", {}),
                                            Use("crossref-expand", {})>>)),
    text |-> Expansion(<<"re">>)]

Group(output, then, commands) == [output |-> output, then |-> then, commands |-> commands]

GROUP ==
    ("display" :> Group("result", "", <<Use("augment-results", {})>>)) @@
    ("file-search" :> Group("file-search", "compile", <<>>)) @@
    ("graph-render" :> Group("result", "", <<Use("graph", {"format"})>>)) @@
    ("graph-symbols-default" :> Group("default", "graph-fuse-symbols", <<>>)) @@
    ("graph-symbols-source" :> Group("source", "graph-fuse-symbols", <<>>)) @@
    ("graph-symbols-target" :> Group("target", "graph-fuse-symbols", <<>>)) @@
    ("graph-traverse" :> Group("graph", "graph-render", <<>>)) @@
    ("semantic-filter" :> Group("semantic-filter", "semantic-format", <<>>)) @@
    ("semantic-format" :> Group("result", "", <<>>)) @@
    ("semantic-lookup" :> Group("semantic-lookup", "semantic-filter", <<>>)) @@
    ("semantic-search" :> Group("semantic-search", "compile", <<>>)) @@
    ("text-search" :> Group("text-search", "compile", <<>>))

JUNCTION ==
    ("compile" :> [command |-> "compile-results", output |-> "compiled", then |-> "display"]) @@
    ("graph-fuse-symbols" :> [command |-> "fuse-crossrefs", output |-> "fused-symbols",
                              then |-> "graph-traverse"])

\* Groups are kept in a sorted map.
SortedTextFirst(gs) ==
    SelectSeq(<<"display", "file-search", "graph-render", "graph-symbols-default",
                "graph-symbols-source", "graph-symbols-target", "graph-traverse",
                "semantic-filter", "semantic-format", "semantic-lookup",
                "text-search", "semantic-search">>, LAMBDA g : g \in gs)

Sorted(gs) ==
    SelectSeq(<<"display", "file-search", "graph-render", "graph-symbols-default",
                "graph-symbols-source", "graph-symbols-target", "graph-traverse",
                "semantic-filter", "semantic-format", "semantic-lookup",
                "semantic-search", "text-search">>, LAMBDA g : g \in gs)
-----------------------------------------------------------------------------
(* 2: the terms *)

NewGroup == [input |-> "", output |-> "", segments |-> <<>>]

\* ensure_pipeline_step: a group has each command once, with the arguments of
\* every term that uses it.
Step(gs, group, use) ==
    LET g == IF group \in DOMAIN gs THEN gs[group] ELSE NewGroup
        here == {i \in DOMAIN g.segments : g.segments[i].command = use.command}
        Merge(i) == [g.segments EXCEPT ![i].args = @ \cup use.args,
                                       ![i].pos = @ + (IF "pos" \in use.args THEN 1 ELSE 0)]
        new == [command |-> use.command, args |-> use.args,
                pos |-> IF "pos" \in use.args THEN 1 ELSE 0]
    IN  (group :> [g EXCEPT !.segments = IF here = {} THEN Append(@, new) ELSE Merge(Max(here))]) @@ gs

Steps(gs, group, uses) == FoldLeft(LAMBDA acc, u : Step(acc, group, u), gs, uses)

TakeTerm ==
    /\ outcome = "terms" /\ todo = <<>> /\ query # <<>>
    /\ query' = Tail(query)
    /\ todo' = <<Head(query)>>
    /\ processed' = <<>>
    /\ UNCHANGED <<asked, linkVars, phaseVars, runVars, outcome>>

\* A conflict is looked for among what the same query term stands for.
ProcessTerm ==
    /\ outcome = "terms" /\ todo # <<>>
    /\ LET name == Head(todo)
           known == name \in DOMAIN TERM
       IN  IF known /\ TERM[name].conflicts \cap ToSet(processed) # {}
           THEN /\ outcome' = "conflicts"
                /\ UNCHANGED <<todo, processed, groups>>
           ELSE /\ todo' = Tail(todo) \o (IF known THEN TERM[name].expand ELSE <<>>)
                /\ processed' = Append(processed, name)
                /\ groups' = IF ~known THEN groups
                             ELSE FoldLeft(LAMBDA gs, e : Steps(gs, e.group, e.uses),
                                           groups, TERM[name].uses)
                /\ UNCHANGED outcome
    /\ UNCHANGED <<asked, query, junctions, unlinked, queued, roots, consumers, phaseVars, runVars>>

(* 3: the links *)

TermsDone ==
    /\ outcome = "terms" /\ todo = <<>> /\ query = <<>>
    /\ outcome' = "links"
    /\ unlinked' = [groups |-> Sorted(DOMAIN groups), junctions |-> <<>>]
    /\ queued' = DOMAIN groups
    /\ roots' = DOMAIN groups
    /\ UNCHANGED <<termVars, groups, junctions, consumers, phaseVars, runVars>>

Consumed(output, name) ==
    (output :> Append(IF output \in DOMAIN consumers THEN consumers[output] ELSE <<>>, name)) @@ consumers

\* The output of what was popped goes to the group `then`, which is made if need be.
FeedGroupKeepRoot(gs, output, then, rest) ==
    LET g == IF then \in DOMAIN gs THEN gs[then] ELSE NewGroup
    IN  /\ groups' = Steps((then :> [g EXCEPT !.input = output]) @@ gs, then, GROUP[then].commands)
        /\ roots' = roots
        /\ consumers' = Consumed(output, then)
        /\ queued' = queued \cup {then}
        /\ unlinked' = IF then \in queued THEN rest ELSE [rest EXCEPT !.groups = Append(@, then)]

FeedGroup(gs, output, then, rest) ==
    LET g == IF then \in DOMAIN gs THEN gs[then] ELSE NewGroup
    IN  /\ groups' = Steps((then :> [g EXCEPT !.input = output]) @@ gs, then, GROUP[then].commands)
        /\ roots' = roots \ {then}
        /\ consumers' = Consumed(output, then)
        /\ queued' = queued \cup {then}
        /\ unlinked' = IF then \in queued THEN rest ELSE [rest EXCEPT !.groups = Append(@, then)]

FeedJunction(output, then, rest) ==
    LET new == then \notin DOMAIN junctions
        j == IF new THEN [inputs |-> <<>>, output |-> ""] ELSE junctions[then]
    IN  /\ junctions' = (then :> [j EXCEPT !.inputs = Append(@, output)]) @@ junctions
        /\ consumers' = Consumed(output, then)
        /\ unlinked' = IF new THEN [rest EXCEPT !.junctions = Append(@, then)] ELSE rest

LinkGroup ==
    /\ outcome = "links" /\ unlinked.groups # <<>>
    /\ LET name == Head(unlinked.groups)
           conf == GROUP[name]
           rest == [unlinked EXCEPT !.groups = Tail(@)]
           gs == [groups EXCEPT ![name].output = conf.output]
       IN  \/ /\ conf.then \in DOMAIN GROUP
              /\ FeedGroup(gs, conf.output, conf.then, rest)
              /\ UNCHANGED junctions
           \/ /\ conf.then \in DOMAIN JUNCTION
              /\ FeedJunction(conf.output, conf.then, rest)
              /\ groups' = gs
              /\ UNCHANGED <<roots, queued>>
           \/ /\ conf.then = ""
              /\ groups' = gs
              /\ unlinked' = rest
              /\ UNCHANGED <<junctions, roots, queued, consumers>>
    /\ UNCHANGED <<termVars, phaseVars, runVars, outcome>>

LinkJunction ==
    /\ outcome = "links" /\ unlinked.groups = <<>> /\ unlinked.junctions # <<>>
    /\ LET name == Head(unlinked.junctions)
           conf == JUNCTION[name]
       IN  /\ FeedGroup(groups, conf.output, conf.then, [unlinked EXCEPT !.junctions = Tail(@)])
           /\ junctions' = [junctions EXCEPT ![name].output = conf.output]
    /\ UNCHANGED <<termVars, phaseVars, runVars, outcome>>

(* 4: the phases *)

EmptyPhase == [pipes |-> <<>>, junctions |-> <<>>]

LinksDone ==
    /\ outcome = "links" /\ unlinked = [groups |-> <<>>, junctions |-> <<>>]
    /\ outcome' = "phases"
    /\ next' = [i \in DOMAIN Sorted(roots) |-> [name |-> Sorted(roots)[i], slot |-> 0]]
    /\ UNCHANGED <<termVars, linkVars, waiting, seen, phases, cur, runVars>>

\* What is called with an output, or that nobody is.
Followers(output, slot) ==
    IF output \notin DOMAIN consumers THEN <<>>
    ELSE [i \in DOMAIN consumers[output] |-> [name |-> consumers[output][i], slot |-> slot]]

Dangling(output) == output # "result" /\ output \notin DOMAIN consumers

\* A group joins the pipeline it was reached by, or begins one of its own.
ArriveGroup ==
    /\ outcome = "phases" /\ next # <<>> /\ Head(next).name \in DOMAIN groups
    /\ LET name == Head(next).name
           slot == IF Head(next).slot = 0 THEN Len(cur.pipes) + 1 ELSE Head(next).slot
           output == groups[name].output
       IN  IF name \in seen \/ Dangling(output)
           THEN outcome' = "inconsistent" /\ UNCHANGED <<next, seen, cur>>
           ELSE /\ cur' = [cur EXCEPT !.pipes =
                              IF slot > Len(@) THEN Append(@, <<name>>)
                              ELSE [@ EXCEPT ![slot] = Append(@, name)]]
                /\ seen' = seen \cup {name}
                /\ next' = Tail(next) \o (IF output = "result" THEN <<>> ELSE Followers(output, slot))
                /\ UNCHANGED outcome
    /\ UNCHANGED <<termVars, linkVars, waiting, phases, runVars>>

\* A junction is run when as many have arrived as it has inputs.
ArriveJunction ==
    /\ outcome = "phases" /\ next # <<>> /\ Head(next).name \in DOMAIN junctions
    /\ LET name == Head(next).name
           missing == (IF name \in DOMAIN waiting THEN waiting[name]
                       ELSE Len(junctions[name].inputs)) - 1
       IN  /\ waiting' = IF missing = 0 THEN [j \in DOMAIN waiting \ {name} |-> waiting[j]]
                         ELSE (name :> missing) @@ waiting
           /\ cur' = IF missing = 0 THEN [cur EXCEPT !.junctions = Append(@, name)] ELSE cur
    /\ next' = Tail(next)
    /\ UNCHANGED <<termVars, linkVars, seen, phases, runVars, outcome>>

\* The phase is complete; the outputs of its junctions begin the next one.
EndPhase ==
    /\ outcome = "phases" /\ next = <<>> /\ cur # EmptyPhase
    /\ LET js == ToSet(cur.junctions)
       IN  IF js \cap seen # {} \/ \E j \in js : Dangling(junctions[j].output)
           THEN outcome' = "inconsistent" /\ UNCHANGED <<next, seen, phases, cur>>
           ELSE /\ seen' = seen \cup js
                /\ next' = FlattenSeq([i \in DOMAIN cur.junctions |->
                                          Followers(junctions[cur.junctions[i]].output, 0)])
                /\ phases' = Append(phases, cur)
                /\ cur' = EmptyPhase
                /\ UNCHANGED outcome
    /\ UNCHANGED <<termVars, linkVars, waiting, runVars>>

\* What the command line parser takes for each command.
Parses(segment) ==
    /\ "add-sym" \notin segment.args
    /\ segment.command \in {"search-files", "search-text"} => segment.pos <= 1

PhasesDone ==
    /\ outcome = "phases" /\ next = <<>> /\ cur = EmptyPhase
    /\ outcome' = IF \A g \in seen \cap DOMAIN groups : \A i \in DOMAIN groups[g].segments :
                        Parses(groups[g].segments[i])
                  THEN "running" ELSE "unparsed"
    /\ at' = [phase |-> 1, stage |-> "pipes"]
    /\ UNCHANGED <<termVars, linkVars, phaseVars, named, tasks>>
-----------------------------------------------------------------------------
(* The run *)

Void == [kind |-> "Void", from |-> {}]

Taken(name) == IF name \in DOMAIN named THEN named[name] ELSE Void

\* What a command makes of a value of some kind, "error" where it gives up.
Made(segment, kind) ==
    CASE segment.command = "search-files" -> "Files"
      [] segment.command = "search-text" -> IF "re" \in segment.args THEN "Texts" ELSE "error"
      [] segment.command = "search-identifiers" -> IF kind = "Void" THEN "Symbols" ELSE "Void"
      [] segment.command = "crossref-lookup" -> IF kind \in {"Void", "Symbols"} THEN "Crossrefs" ELSE "error"
      [] segment.command = "crossref-expand" -> IF kind = "Crossrefs" THEN "Crossrefs" ELSE "error"
      [] segment.command = "traverse" -> IF kind = "Crossrefs" THEN "Graph" ELSE "error"
      [] segment.command = "graph" -> IF kind = "Graph" THEN "Drawing" ELSE "Void"
      [] segment.command = "format-symbols" -> IF kind = "Crossrefs" THEN "Table" ELSE "error"
      [] segment.command = "augment-results" -> IF kind = "Results" THEN "Results" ELSE "error"

Joined(name, kinds) ==
    IF name = "compile"
    THEN IF kinds \subseteq {"Files", "Crossrefs", "Texts"} THEN "Results" ELSE "error"
    ELSE IF kinds \subseteq {"Crossrefs"} THEN "Crossrefs" ELSE "error"

RunPipe(pipe, value) ==
    LET segments == FlattenSeq([i \in DOMAIN pipe |-> groups[pipe[i]].segments])
        Cmd(kind, seg) == IF kind = "error" THEN kind ELSE Made(seg, kind)
    IN  [kind |-> FoldLeft(Cmd, value.kind, segments), from |-> value.from \cup {Head(pipe)}]

RunJunction(name, values) ==
    [kind |-> Joined(name, {v.kind : v \in ToSet(values)}), from |-> UNION {v.from : v \in ToSet(values)}]

Task(name, output, value) == [name |-> name, output |-> output, value |-> value, state |-> "busy"]

\* The pipelines of a phase are started; each takes its input away.
StartPipes ==
    /\ outcome = "running" /\ at.stage = "pipes" /\ at.phase <= Len(phases)
    /\ LET pipes == phases[at.phase].pipes
           InputOf(i) == groups[Head(pipes[i])].input
       IN  /\ tasks' = [i \in DOMAIN pipes |->
                           Task(Head(pipes[i]), groups[Last(pipes[i])].output,
                                RunPipe(pipes[i], Taken(InputOf(i))))]
           /\ named' = [n \in DOMAIN named \ {InputOf(i) : i \in DOMAIN pipes} |-> named[n]]
    /\ at' = [at EXCEPT !.stage = "piping"]
    /\ UNCHANGED <<termVars, linkVars, phaseVars, outcome>>

StartJunctions ==
    /\ outcome = "running" /\ at.stage = "junctions"
    /\ LET js == phases[at.phase].junctions
           Values(j) == [i \in DOMAIN junctions[j].inputs |-> Taken(junctions[j].inputs[i])]
       IN  /\ tasks' = [i \in DOMAIN js |->
                           Task(js[i], junctions[js[i]].output, RunJunction(js[i], Values(js[i])))]
           /\ named' = [n \in DOMAIN named \ UNION {ToSet(junctions[js[i]].inputs) : i \in DOMAIN js}
                            |-> named[n]]
    /\ at' = [at EXCEPT !.stage = "joining"]
    /\ UNCHANGED <<termVars, linkVars, phaseVars, outcome>>

\* A task ends, at any time; the index it asks may fail it.
Finish(i) ==
    /\ outcome = "running" /\ tasks[i].state = "busy"
    /\ \E s \in {"ok", "failed"} :
          /\ tasks[i].value.kind = "error" => s = "failed"
          /\ tasks' = [tasks EXCEPT ![i].state = s]
    /\ UNCHANGED <<termVars, linkVars, phaseVars, named, at, outcome>>

\* The tasks are joined in sequence, whatever the order in which they ended;
\* the first that failed ends the query.
Join ==
    /\ outcome = "running" /\ tasks # <<>> /\ Head(tasks).state # "busy"
    /\ IF Head(tasks).state = "failed"
       THEN outcome' = "failed" /\ tasks' = <<>> /\ UNCHANGED named
       ELSE /\ named' = (Head(tasks).output :> Head(tasks).value) @@ named
            /\ tasks' = Tail(tasks)
            /\ UNCHANGED outcome
    /\ UNCHANGED <<termVars, linkVars, phaseVars, at>>

AllJoinedAgain ==
    /\ outcome = "running" /\ tasks = <<>> /\ at.stage \in {"piping", "joining"}
    /\ at' = IF at.stage = "piping" THEN [at EXCEPT !.stage = "junctions"]
             ELSE [phase |-> at.phase, stage |-> "pipes"]
    /\ UNCHANGED <<termVars, linkVars, phaseVars, named, tasks, outcome>>

AllJoined ==
    /\ outcome = "running" /\ tasks = <<>> /\ at.stage \in {"piping", "joining"}
    /\ at' = IF at.stage = "piping" THEN [at EXCEPT !.stage = "junctions"]
             ELSE [phase |-> at.phase + 1, stage |-> "pipes"]
    /\ UNCHANGED <<termVars, linkVars, phaseVars, named, tasks, outcome>>

PlanRun ==
    /\ outcome = "running" /\ at.stage = "pipes" /\ at.phase > Len(phases)
    /\ outcome' = "answered"
    /\ UNCHANGED <<termVars, linkVars, phaseVars, runVars>>

PlanInit(q) ==
    /\ asked = q /\ query = q
    /\ todo = <<>> /\ processed = <<>>
    /\ groups = <<>> /\ junctions = <<>>
    /\ unlinked = [groups |-> <<>>, junctions |-> <<>>]
    /\ queued = {} /\ roots = {} /\ consumers = <<>>
    /\ next = <<>> /\ waiting = <<>> /\ seen = {} /\ phases = <<>> /\ cur = EmptyPhase
    /\ named = <<>> /\ tasks = <<>> /\ at = [phase |-> 1, stage |-> "pipes"]
    /\ outcome = "terms"

PlanStep ==
    \/ TakeTerm \/ ProcessTerm \/ TermsDone
    \/ LinkGroup \/ LinkJunction \/ LinksDone
    \/ ArriveGroup \/ ArriveJunction \/ EndPhase \/ PhasesDone
    \/ Join \/ AllJoined \/ PlanRun
-----------------------------------------------------------------------------
(* What a plan promises *)

Planned == outcome \in {"running", "answered", "failed"}

InPhases == UNION {UNION {ToSet(phases[n].pipes[i]) : i \in DOMAIN phases[n].pipes}
                     \cup ToSet(phases[n].junctions) : n \in DOMAIN phases}

Heads == {g \in DOMAIN groups : groups[g].input = ""}

\* Where a pipeline can begin: a search that has been told what to look for.
Begins(g) ==
    LET cmds == [i \in DOMAIN groups[g].segments |-> groups[g].segments[i].command]
        first == groups[g].segments[1]
    IN  CASE first.command = "search-text" -> "re" \in first.args
          [] first.command = "crossref-lookup" ->
                "pos" \in first.args /\ "search-identifiers" \notin ToSet(cmds)
          [] OTHER -> first.command \in {"search-files", "search-identifiers"}

\* The plan has every group and junction once and in an order in which whatever
\* one of them takes was put out before and has not been taken by another: no
\* plan of the configured terms is refused for a loop or for an output that
\* nobody consumes.  Where each pipeline begins with a search, nothing is given
\* a value of a kind it cannot take; and unless there are two final groups, the
\* answer was made from all that the query asked for.
PlanFlows ==
    /\ outcome # "inconsistent"
    /\ Planned => InPhases = DOMAIN groups \cup DOMAIN junctions
    /\ (outcome = "running" /\ at.phase <= Len(phases)) =>
          /\ at.stage = "pipes" =>
                \A i \in DOMAIN phases[at.phase].pipes :
                    LET g == Head(phases[at.phase].pipes[i])
                    IN  g \in Heads \/ groups[g].input \in DOMAIN named
          /\ at.stage = "junctions" =>
                \A i \in DOMAIN phases[at.phase].junctions :
                    LET j == phases[at.phase].junctions[i]
                    IN  /\ ToSet(junctions[j].inputs) \subseteq DOMAIN named
                        /\ Cardinality(ToSet(junctions[j].inputs)) = Len(junctions[j].inputs)
    /\ (\A g \in Heads : Begins(g)) => \A i \in DOMAIN tasks : tasks[i].value.kind \notin {"error", "Void"}
    /\ (outcome = "answered" /\ groups # <<>>) =>
          /\ DOMAIN named = {"result"}
          /\ Cardinality({g \in DOMAIN groups : groups[g].output = "result"}) = 1 =>
                Heads \subseteq named["result"].from

=============================================================================
