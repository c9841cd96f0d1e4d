# A formal model of mozsearch (Searchfox)

This directory holds TLA+ specifications of the parts of mozsearch in which
several actors work on shared data, survive crashes, or depend on exact offsets
and orders, and of the algorithms that decide what a page, a diagram or an
answer shows; TLC configurations that check them on small instances; and proofs,
checked by TLAPS, that hold for every instance. Paths are relative to the
repository. `PROJECT.json` maps each definition to the lines it was translated
from and lists the runs, the mutants that show that a property can fail, the
hazards and the theorems.

To check a run: `tlc -config ClangOutput.cfg MCClangOutput.tla`.
To check the proofs: `tlapm BlameBuildProofs.tla`, `tlapm ClangOutputProofs.tla`,
`tlapm CrossrefProofs.tla`, `tlapm DeployProofs.tla`, `tlapm MergeExpandProofs.tla`,
`tlapm ReadProofs.tla`, `tlapm TraverseProofs.tla`, `tlapm WebServingProofs.tla`.

## 1. Inventory

mozsearch indexes source trees off line and serves the index. An *indexer*
machine runs analyzers over each tree, links their records into a cross-reference
database, builds a blame repository and a text search index, and renders HTML.
A *web server* machine gets that index on a volume and runs a Python router, a
Rust web server, codesearch and a pipeline server behind nginx. Scripts start
the machines and hand over from an old web server to a new one.

| Component | State it keeps | Operations | Hard behaviour |
|---|---|---|---|
| **build-blame** (`tools/src/bin/build-blame.rs`) | branch of the blame repository, marks file; in memory: map of revisions to blame commits, request and result channels of the compute threads | read ref and marks, walk the source history, request diffs, read results, stream commits to `git fast-import`, checkpoint, finish | threads and bounded request lead, panics, an aborted build that a later one resumes, a history with merges of which the ref sees one side |
| **build-blame: contents of one revision** (same file) | blame file per source file | diff against each parent, follow moved files, copy or attribute lines, take over what did not change | line numbers off by one for ever after; merges; submodules |
| **history trees** (`build-syntax-token-tree.rs`, `build-timeline-tree.rs`) | derived repositories: tokens, outlines, symbol index, and the blame of the tokens | as build-blame, and the index of symbols | an index that gathers many files while only the changed ones are read; limited runs over merges |
| **clang plugin, output** (`clang-plugin/MozsearchIndexer.cpp`, `FileOperations.cpp`) | one analysis file per source file, a tmp file beside it, a flock on the source file | lock, merge sorted new lines into the file, unlink, rename, unlock | parallel compilers that share headers; compilers that die; a full disk |
| clang plugin, visitor | records of one translation unit | visit the AST | clang's semantics |
| other analyzers and scripts (`scripts/`, `rust-indexer.rs`, `scip-indexer.rs`, ...) | none of their own | translate one input to records | - |
| **merge-analyses** (`file_format/merger.rs`, `analysis.rs`) | none | merge the records of several platforms | which platform's data wins; lists zipped after a merge |
| **crossref, reading** (`tools/src/bin/crossref.rs`) | table of symbols, meta data, call edges, ontology | read analysis files in threads, merge per-thread tables, follow ontology rules, make subsystems | result depends on merge order; work lists without a visited set |
| **crossref, writing** (same file) | `crossref`, `crossref-extra`, `jumpref`, `jumpref-extra`, chunk files | write sorted symbols in chunks, concatenate, adjust offsets | offsets counted by hand, failed and short writes |
| **crossref lookup** (`file_format/crossref_lookup.rs`, `router/crossrefs.py`) | the mapped files | bisect bytes for a symbol | variable-length records, unsigned arithmetic |
| **identifiers** (`file_format/identifiers.rs`, `scripts/crossref.sh`; `router/identifiers.py`) | the mapped file | write, sort again, bisect for both ends of a prefix's range, filter | ends of the range, case folding, an order that another program makes, limits |
| router (`router/router.py`) | configuration, one child per request | fork, alarm, search, answer; collect and limit results | time-outs that race answers |
| codesearch client (`router/codesearch.py`) | ports and process handles | start, stop, wait, search, retry | a restarted server that is not ready |
| **pages** (`tools/src/format.rs`, `tokenize.rs`, `crossref_converter.rs`) | place in the text and in the records, open headings, SYM_INFO | cut into tokens, walk tokens and records, make lines, read and write a diff | lines counted by tokens; records that stand at no token; menus over several look-ups |
| web-server (`tools/src/bin/web-server.rs`) | index under one mutex | answer one request | - (start-up: see next row) |
| **server start-up** (`infrastructure/web-server-run.sh`, `with-auto-restart.sh`, `web-server-setup.sh`) | status file, supervisor and server processes | set up, kill old servers, start each under a supervisor, wait for readiness; restart up to ten times, mail | kills that race restarts, lines counted without their author |
| **query pipeline** (`query/chew_query.rs`, `cmd_pipeline/`) | plan of groups, junctions and phases; the tasks that run | read terms, link groups, order phases, run tasks in parallel, expand symbols, merge and show results | plans from any mix of terms; labels kept from the first way a symbol is met; suppression by order |
| **diagrams** (`cmd_traverse.rs`, `cmd_graph.rs`, `symbol_graph.rs`) | symbol graph, tree of segments | traverse relations within limits, find paths, place symbols and edges, choose shapes | direction of edges, limits on cycles, counts kept while the tree grows |
| **field layouts** (`cmd_format_symbols.rs`) | classes, fields per platform, columns | collect bases, find holes, group platforms | offsets that differ by platform |
| pipeline-server, searchfox-tool, `abstract_server/` | none between commands | hand commands to the index | - |
| **deployment of web servers** (`infrastructure/aws/trigger-web-server.py`) | machines, volumes, tags, targets | start, wait for readiness, switch the target, terminate older machines | overlapping triggers, triggers that die |
| **deployment of indexers** (`infrastructure/aws/trigger_common.py`, `main.sh`, `index.sh`, ...) | machines, the index volume | terminate earlier ones, launch, index, hand over, stop | two triggers in a row, failures, time-outs |
| front end (`static/js/`) | page state, one fetch in flight | type, fetch, show | answers that arrive late |

How they interact: the analyzers leave analysis files that crossref reads once
all have ended; crossref leaves files that the lookups map; build-blame leaves a
repository that the web server reads; the start-up scripts and servers meet in
the status file, processes and ports; the router and the web server share only
the index. The models are cut along these interfaces: what one module leaves
behind (`Bisectable`) is what another assumes (`LookupAssumption`).

### What makes each component correct

* build-blame: results are consumed in revision order; each revision's parents
  have blame commits when its commit is written; a mark always names its own
  revision; an aborted build loses nothing that was saved; a build ends even if
  its threads die.
* clang output: no record of a compiler that finished is lost to a parallel
  one; the file stays sorted, on which the merge itself relies; nobody is
  locked out by the dead.
* crossref: every symbol's JSON is found where the file says it is, however the
  table is cut; the file can be bisected; a lookup returns the symbol's own
  payload or nothing, in a logarithmic number of probes.
* serving: who is told that a machine is ready finds both servers reported; no
  old server comes back; a failing server runs again or is reported.
* deployment: a channel that is served stays served; after a deployment its machine is
  the only target and its predecessors are gone; no volume is stranded; no machine
  runs for ever.
* blame contents and history: every line names the revision, path and line it came
  from; what was taken over from a parent is what would be derived; every revision is
  reached in the end.
* crossref, reading: the tables do not depend on the number of threads; a link is there
  from both sides; rules reach exactly what they name, in any order, and end.
* merge-analyses: no symbol of any platform is lost, nor is one surer than a platform was.
* pages: the page is the text, line by line; a record at a token is shown there; headings
  nest; a menu has all that it leads to; a row of a diff has its own line and blame.
* query pipeline: every plan is coherent, whatever the terms; labels are true; every hit is
  shown once; a query ends.
* diagrams and layouts: edges point the way control flows; what is within the limits is
  there and nothing else; the drawing is the graph; each byte of a class is a field, a
  hole or padding, once.

## 2. Modules

| Module | What it is |
|---|---|
| `BlameBuild` | build-blame: main thread, compute threads, fast-import, ref and marks file over several runs |
| `BlameBuildProps` | what it is checked against |
| `BlameStore` | abstract: each revision once, parents first, an abort loses what is not saved |
| `BlameBuildProofs` | TLAPS: types, pipeline, order of results, blame map and marks, refinement of `BlameStore` |
| `MCBlameBuild` | a history with two roots and a merge |
| `ClangOutput` | the output of parallel compilers, with their faults |
| `AnalysisStore` | abstract: each record set is merged once, at one instant |
| `ClangOutputProofs` | TLAPS: mutual exclusion, what the merge keeps, lines lost to deaths, refinement of `AnalysisStore` |
| `MCClangOutput` | three compilers, two headers |
| `CrossrefLookup` | the bytes of a crossref file as its readers see them, and the bisection |
| `CrossrefWrite` | writing, cutting and merging the databases |
| `Identifiers` | the identifiers file, and the search by prefix in it |
| `CrossrefDatabase` | composes the three: what was written is opened and looked up in |
| `CrossrefProofs` | TLAPS: lookups, what is written, and that what is written is looked up rightly |
| `MCCrossrefDatabase` | all tables of a few JSON lengths, and all files of a few short and long records, all small sets of identifiers |
| `CrossrefRead` | reader threads, merge of their vectors, links between records |
| `ReadProofs` | TLAPS: the tables do not depend on the threads, links go both ways |
| `TypeParser` | the parser of the types of fields |
| `Ontology` | extends both: pointers of fields, rules with their work lists, IDL symbols |
| `MCCrossrefRead` | lists of files, hierarchies, types and slots |
| `MergePlatforms` | merge-analyses |
| `FieldLayout` | extends it: the table of a class's fields |
| `Traverse` | the traversal of the symbol graph, and paths in it |
| `TraverseProofs` | TLAPS: the edges of call diagrams |
| `Hierarchy` | extends it: the tree of a diagram, its shapes and its edges, as `graph` follows `traverse` |
| `MCDiagram` | call graphs, class hierarchies, names, and C++ classes on three platforms |
| `QueryPlan` | from terms to phases, and their run |
| `Expand` | `crossref-expand` |
| `MergeExpandProofs` | TLAPS: what merging keeps of the source records; the labels of expanded symbols are true and none is missing |
| `Results` | `compile-results` and `augment-results` |
| `Query` | composes the three: the pipelines' commands run as tasks of the plan |
| `MCQuery` | queries, hierarchies and hits |
| `Tokenize`, `TagLike` | the tokenizers of `tokenize.rs`, as operators |
| `SymInfo` | the digests that a page carries for its menus |
| `Pages` | extends them: `format_code`, `format_file_data` and `format_diff` |
| `MCPages` | short texts, a described file, small diffs |
| `BlameTree` | trees of commits, the walk beside their parents, and what a commit of a blame repository contains |
| `SyntaxTree` | extends it: what a commit of the syntax repository contains |
| `History` | composes them: three programs over a source history, run after run |
| `MCHistory` | three commits in a line, two branches and their merge; all short patches |
| `WebServing` | the start-up script, two supervisors and two servers |
| `WebServingProofs` | TLAPS: earlier routers are gone, readiness means both servers |
| `Deploy` | indexers and operators that start web server machines and retire old ones |
| `DeployProofs` | TLAPS: types, volumes, the service is kept, what a deployment leaves |
| `MCDeploy` | two triggers in a row and an operator |

### BlameBuild

State and code. `pc` is the point at which the main thread is: filling the
request buffer (`build-blame.rs:976-991`), about to read a result (995), writing a
commit header (1017-1122), building the tree (1124), waiting for fast-import
(1147), or `"down"`. `query` and `response` are the two `mpsc` channels of each
`ComputeThread`; `compute_index`, `rev_done` and `blame_map` are the locals of the
same names. `fi`, `marks` and `tip` are fast-import's place, mark table and branch;
`ref` and `marks_file` are durable. A blame commit is named by the source revision
it was made from. What fast-import has read but not dumped is volatile, like what
is still in the pipe, so a command is handled in the step that writes it; the
`ls` that starts each tree waits for all earlier commands anyway.

Actions. `Start` is everything up to the creation of the threads, `index_blame` and
the ingestion of the marks included. `ReadResult` receives, asserts the revision
and refills the same thread. `Exit` logs fast-import's status and removes the marks
file if there is no limit. `Panic` covers a dead thread met by `send` or `recv`, a
dead fast-import, and whatever unwraps inside `build_blame_tree`. The last closes
fast-import's input in the middle of a commit, which fast-import takes for its
end. `Kill` ends both processes; `ImportFails` is fast-import's `die()`.

External, modelled from their use here: fast-import (commit, checkpoint, branch and
marks dump, failure) and the revwalk, whose order is `WalkAssumption`. Left out:
what a tree contains, LFS and encodings.

### ClangOutput and AnalysisStore

One compiler process is at most in one critical section: `LockFile` (the flock of the
source file), `WriteTmp` (open the tmp file for appending, merge, close), `Unlink`,
`Rename`; both calls of `moveTmp` are separate steps because a process may die
between them. A line is a number. The merge is stated by what it writes: before
each existing line the new ones that are smaller and left, each once. `Die` is an
`exit(1)`, a crash or a kill, with whatever reached the tmp file; a fragment of a
line spoils the line appended to it (`Garbage`). `LoseTail` is the flush in `fclose`
that meets a full disk. `met` remembers which faults occurred.

### CrossrefLookup, CrossrefWrite, Identifiers, CrossrefDatabase

`CrossrefLookup` is `bisect_for_payload` in Rust and its Python twin, one action per
branch of the loop; the file is given by the offsets of its lines (`WellFormed`),
never by its characters, and `LineAt` is what `get_id_line` computes by scanning to
newlines. `CrossrefWrite` has one action per record written by a chunk's thread, the
join, one per write of a merging thread, the end of a chunk file, and the panics.
A reference line has one length: its hexadecimal digits are not counted.
`Retrieved` is what `lookup` decodes from a payload; `LayoutOf` turns the lines that
were written into the layout that the bisection assumes, which makes `Bisectable`
the link between the two. `CrossrefDatabase` puts them together: `Open` maps the file
that the writer left, unless the disk cut it short, and the lookup goes on from there;
beside that it has any other well-formed file from the start. `AnswersExact` speaks of both: in
any file what is found is there; in the indexer's, it is what the table had.

`Identifiers` writes `id_table` as the program does, case by case, sorts it as `crossref.sh`
does, and runs `IdentMap::lookup`: one action per probe of a bisection, then the filter over
the slice. Here the bytes are told apart, since the upper bound of a range is the needle
with a tilde; a byte stands for its neighbours in the order of ASCII. This file shares no
state with the databases, so `CrossrefDatabase` starts either in the one part or in the other.

### CrossrefRead, TypeParser, Ontology

`ReadFile` is one file read by one thread into its own vectors; `ReadersJoined` is the
end of the scope; `MergeOut` and `LinkOut` handle one thread's vectors each, and
`LinkSlots` all slots in the order of their keys. A record is known by the fields that are linked. `Ontology` goes on from
there: `ProcessClassFields` is one step, since it depends on no order; `PickRule` takes
the rules in any order, as a hash map gives them, and each turn of a work list is a step
(`ProcessMethod`, `WalkContaining`, `WalkFieldUses`). `TypeParser` is
`maybe_parse_type_as_pointer` as an operator, a fold over characters with the stack of
open templates; it is compared with the meaning of the type it was printed from
(`FieldsPointRight`, part of `OntologyTrue`).

### MergePlatforms, FieldLayout

`ReadLine` is one line of one platform's file, `TakeSource` and `WriteStructured` write one
record each; the files are read one after the other, then `Grouped` sorts what was read. `FieldLayout` visits a class with its bases
first, in the two ways of the code (`VisitNested` when records carry their bases'
layouts, `VisitClass` when each base is looked up), finds holes and paddings for each
platform and groups platforms with equal columns. What the table says is compared with
layouts computed by the rules of C++ for small classes (`MCDiagram`).

### Traverse, Hierarchy

`Visit` takes one symbol from the queue and makes all its *offers*: the edges and symbols
that each relation of the command gives, in the order of the code, with the limits that
cut them. `PathsCopied` keeps of the graph what lies on a path. In `Hierarchy`,
`PlaceSymbol` and `PlaceEdge` build the tree, one symbol or edge at a time; `Compile` and
`Render` choose the shapes and find the ends of edges. Its action `Graph` hands the symbols
of the graph over, as `cmd_graph.rs` does.

### QueryPlan, Expand, Results, Query

`TakeTerm` and `ProcessTerm` read terms against the tables `TERM`, `GROUP` and `JUNCTION`,
which are `query_core.toml`; `LinkGroup` and `LinkJunction` connect them;
`ArriveGroup`, `ArriveJunction` and `EndPhase` order them into phases. `StartPipes`, `TaskEnds`
and `Join` run a phase: tasks end in any order or fail. `ExpandOne` is one turn of
`crossref-expand`'s work list; `IngestFiles`, `IngestSymbol`, `IngestText` and `Compile` are the
junction that merges results, `Augment` the lines shown around them. `Query` runs these
commands as the tasks of the plan, and `MCQuery` also by themselves.

### Tokenize, TagLike, SymInfo, Pages

A text is a sequence of characters, where a word counts as one; a tokenizer is an operator
from a text to tokens, with one turn of its loop as the step of a fold. `Pages` reads a diff
row by row (`DiffRow`), cuts the text (`CutUp`), walks tokens (`Code`, `LineBreak`) with the
place `datum` in the analysis records, and writes lines or rows (`WriteLine`, `WriteRow`).
`SymInfo` is what `format_code` looks up for a symbol's menu, step by step.

### BlameTree, SyntaxTree, History

`BlameTree` is `build_blame_tree` with all it calls; what git says of two files
(`Diff`, moved files) is external and comes in as a constant or a choice. The lines of a
patch are made from the pairs that a diff finds (`PatchLines`) and read again as the code
reads them (`unmodified_lines`). `SyntaxTree` is a commit of tokens: files and outlines follow
the same walk, and the symbol index starts from the first parent's. `History` is
the three programs at the grain of a commit: `Start` reads what is known, `Transform`
derives one commit of what is left (in any order that has parents first), `Finish` moves
the ref and keeps or drops the marks, `Abort` loses the run. The pipe, the threads and the
marks' numbers are in `BlameBuild`, at the grain of a command.

### WebServing

A *service* is a server started by one run of the script. `SetUp` is the removal of
the document root with the status file; `KillRouter` is `pkill -f`, which matches the
supervisor's command line as well; `KillWebServer` is `pkill -x`, which does not. The
supervisor's three ways on after an exit are the disjuncts of `ServerExited`. `Load`
appends to the status file, `Bind` follows. Two readers look at the file: the script
(`WaitOver`, exactly two lines) and `trigger-web-server.py` (`Poll`, two lines at
least).

### Deploy

A *deployer* is an indexer machine or the shell of an operator who runs
`trigger-web-server.py` by hand; the volume it creates and the web server machine it
starts bear its name. `pc` is the call its script makes next, and stays there when
the script dies: it tells what the dead one had in hand. Each call that changes a
machine, a volume, a tag or the target group is an action. `old` and `kill` are the
script's local answers from `describe_target_health` and `describe_instances`, used a
step later, when they may be stale. A call that cannot succeed raises: its action
is not enabled, and `Stop` ends the script. `Stop` is also the crontab entry of
`main.sh`, so it may come at any time; a machine that another trigger terminates runs
its script on until it is gone.

External, modelled from their use: machines run and end, an end deletes the volumes
marked for it, and calls on a machine or volume in the wrong state raise. Left out:
ages of machines (on `release1` any machine may be young enough to be spared),
that a terminated target is dropped by the load balancer (it serves nobody, listed
or not), states between the others (`stopping` is `stopped`), and how a web server
gets its status file (`Serve`; that is `WebServing`).

`latest` and `orderly` are history variables: no action reads them.

## 3. Runs

| Run | Expectation | Question |
|---|---|---|
| `blame_faults` | pass | Two builds, every fault enabled, from a ref that covers one root of a merge: are results in order, what `blame_map` says true, marks never re-pointed? |
| `blame_resume` | pass | Three builds from nothing, with limits and panics: do they implement `BlameStore`, and does each end? |
| `blame_marks` | violation | Is the marks file left on error, as `build-blame.rs:944` says? Not when fast-import fails: its status is only logged. |
| `history` | pass | Is every blamed line true, in the source and in its tokens? Do tokens, outlines and symbol index follow the source? Is everything processed in the end? |
| `clang` | pass | Are parallel merges atomic and sorted, what does a death cost, and does every survivor finish? |
| `crossref_read` | pass | Do the tables not depend on the threads, are links mutual, do rules reach exactly what they name, and end? |
| `crossref_files` | pass | Is each JSON found, however the table is cut, is a full disk noticed, is the bisection exact on what was written and on every small file, and does a search by prefix find what it should? |
| `diagram` | pass | Do edges point the right way, is what a diagram selects exact and its drawing the graph? Beside it: is no record lost in a merge, and is a field layout what the compilers said? |
| `query` | pass | Is every plan coherent, every label true, every hit shown once, and does a query end? |
| `pages` | pass | Is the page the text, with its records, headings, menus and blame in their places? |
| `serving` | pass | Does readiness mean both servers, do old routers stay away, is no failure silent? |
| `deploy` | pass | Do deployments keep the channel served, clean up after dead ones, strand no volume, and stop? |

Some properties are conjunctions of named parts, each with its own comment: `BlameMapTrue`
(`ParentsMapped`, `MarksResolve`), `FilesIntact` (`TypeOK`, `SortedWithoutFaults`,
`OneLinePerDeath`), `FilesSound` (`OffsetsCounted`, `EverySymbolResolves`, `Bisectable`,
`FewHoles`), `StartedCleanly`, `ServersComeUp`, `DeploymentsEnd`, `SelectionExact`
(`NeighbourhoodExact`, `PathsExact`, `UpOrDown`), `DrawingTrue` (`TreeConsistent`,
`DrawnUnlessCollapsed`, `InnerClassesApart`), `LayoutTrue` (`FieldsAtTheirPlace`, `ColumnsTrue`,
`EveryByteCounted`), `ResultsTrue` (`ShownOnce`, `SpansApart`, `FacetsPartition`), `OntologyTrue`
(`CalleeLinesInOneFile`, `FieldsPointRight`, `RulesExact`, `IdlSymsAllOrNone`), `TextKept`
(`TokensInOrder`, `PageIsTheText`, `LinesKept`), `RowsInPlace` (`HeadingsNest`, `RowsRight`) and
`LinesTrue` (`BlameTrue`, `TimelineTrue`, `PairsAligned`).

Bounds, and why they are enough.

* blame: six revisions with two roots and a merge, so that the ref can know one
  parent of a merge and not the other; two threads and a buffer of one or two, so
  that requests wrap around and results can overtake; a checkpoint every two
  commits, so that ref and marks file differ; a limit of two, which cuts the
  history between the parents of the merge; two or three builds, since a third
  finds what the second made of the first one's leftovers.
* clang: three compilers, so that one merges between another's death and the next
  one's merge; two headers in opposite orders; lines in common and repeated ones.
* crossref_files: three records, whose identifier lines have 2, 3 or 12 bytes and payload
  lines 4 or 30: probes land in every part of a record, at its ends included, and seven
  symbols lie before, at, between and after the keys. One to four symbols are written by three
  threads with a remainder, tables at and above the one-thread limit, lengths below and at
  the threshold, a buffer that holds a part of an extra file. One database: the other one
  uses the same code, and the proofs have any number of them. Identifiers: up to `MaxIds` = 3 of nine names (in both cases, prefixes of
  one another, with a second component, a tilde, a character beyond ASCII), or one name with
  three symbols; six needles with every flag, without a limit and with one of two.
* crossref_read: every list of up to three files that disagree about symbols, read by one
  thread or two (one-thread lists have one file); every acyclic hierarchy of four methods
  below a runnable; inner classes two levels below the class of a rule, known or not; slots of
  up to three owners; templates nested three deep around pointers and references.
  `MaxJsIdl` is 2 for 4, so that the limit is met by three owners.
* diagram: every call graph of three symbols with at most one override, some of them no
  functions, the root among these, and of four without
  the edges that undo a path, at depths below, at and above the longest path, with limits
  that bite; hierarchies of four classes; two binding slots at a time; calls laid out under
  every grouping. Merging: two and three platforms. Layouts: seven hierarchies of up to four
  classes with members of five types on three platforms, one with smaller pointers.
* query: each term alone, all pairs of searching terms and of graph terms, and modifiers
  with each; expansion over all hierarchies of four classes, of one symbol, of two, and of one
  asked for twice; triples of hits in one file of
  five lines, and facets over six paths.
* pages: ten thousand texts of up to four fragments, chosen for each language so that what opens
  and what closes a token meet line breaks; a file with names on four lines, with records at
  tokens and beside them; diffs of up to three rows against one parent or two.
* history: three commits in a line over four trees, and two branches with their merge over
  three, in which a class gets methods, moves and comes back beside a binary file and a
  submodule; runs unlimited or of one commit, one abort. `Context` is 1 where git has 3, and
  patches have up to five lines, so that hunks join, stay apart, and end at both ends.
* serving: two runs of the script and one retry; exit code 137 stands for every
  failure, since the supervisor tells only 0 and 143 from the rest.
* deploy: three deployers, so that one serves, one dies anywhere, and one finds what both
  left; `Together` lets the first indexer deploy beside the second, or beside the operator
  (and any number of dead ones beside them). `Release1` is true: to spare a machine is then a choice, and
  not to spare one is what the other channels do. The proofs have none of these bounds.

Fairness. Threads and processes that can run are run by the system (weak fairness of
each thread's or process's steps); flock wakes a waiter when the lock stays free.
No fault, no start of a build and no run of a script is owed. A step that only
stays possible because of a fault (a panic on a dead peer) is owed as soon as the
main thread has nothing else to do. `RunEnds`, `SurvivorsFinish`, `Answers` and
`ServersComeUp` rest on this. A single program that computes is owed its next step
(`QueryEnds`; `RulesEnd`, where weak fairness is written out with `StepPossible`, which says
without quantifying over next states when a step is possible). In `Deploy` only EC2
(machines boot and end) and the crontab entry are owed, no step of a script: `IndexersStop`
says that nothing else is needed. In `History` the indexer calls each program again and
again, as cron does, so `Start` is owed too: `CatchesUp` is about what repeated runs reach.

Deadlock is checked in the blame and crossref file runs, where the end of the
program is an explicit stuttering action (`AllRunsOver`, `Over`). It is not in
`clang`, whose property `SurvivorsFinish` is stronger, in `serving`, which stops
after its last allowed run, in `deploy`, which does after its last deployer, and in the
other runs, whose programs end with their answer (`QueryEnds`, `RulesEnd` and `CatchesUp` say
that they do).

## 4. Proofs

`BlameBuildProofs`, for every history, number of threads, buffer size, checkpoint
period, limit and set of faults, from the assumptions in `BlameBuild`:

* `TypeCorrect`: `Spec => []TypeOK`. The counters' order (`rev_done <= compute_index
  <= rev_count`) is part of it and is what makes every index legal.
* `PipelineInvariant`: `Spec => []Pipeline`. That the next result belongs to the next
  revision is not inductive: it says nothing of what is further back in the
  channels. `Channels(t)` does: a thread's result channel followed by its request
  channel holds the revisions `Due(rev_done, t)`, one round apart, up to
  `Due(compute_index, t)` while the thread lives. `Ahead` adds that requests lead
  results by whole rounds, so that the request sent after reading thread t goes to
  t. The arithmetic of rounds (`Due` moves by `NumThreads` exactly for the thread
  whose turn it is) is in lemmas of its own.
* `ResponsesInOrder`: the assertion in the main loop never fails, a corollary.
* `BlameMapIsTrue`: `Spec => []BlameMapTrue`, whatever fails and however often the build is
  started. Three invariants carry it. `MarksKept`: the marks file is numbered without a
  gap, the table of a fast-import at work continues it, and its last number is what the
  marks imported and the commits closed add up to. `EntriesKept`: an entry of blame_map that
  is a mark is not beyond that number, but for the commit that is open. `ParentsFirst`:
  a parent is known when the build starts or comes earlier in the list (from the order of
  the revwalk, through `AncestorsClosed` and `WalkParents`), and what was read has its entry.
* `MarksNotClobbered`: `Spec => NoMarkClobbered`, from `MarksKept`.
* `BlameImplementsStore`: `Spec => StoreSpec`, every step a step of `BlameStore` or a stutter.
  `DiskInv` says what ref and marks file have between them: the ref is the last commit,
  which nothing recorded descends from, and its history is in the marks too until a head of
  the source is reached; from then on the ref alone has everything, so that the marks file
  may go. `WorkInv` says what the build has still to do: revisions not yet known, each once,
  their parents known or earlier, the head among them unless there is a limit. It is stated
  under three hypotheses. `InitialRef = NoRev` is the run's. `MainThreadFaults` leaves panics,
  and excludes a failing fast-import (`MarksLeftOnError` is false) and a machine that
  stops between the two dumps. `ForwardOnly` lets the history below the oldest head that a
  build sees have any shape, and asks that what comes later is a chain on top of it. The
  proof would not go through without the last one, and TLC shows why (section 5).

`ClangOutputProofs`, for every number of compilers, work lists, records and set of faults:

* About the operators: `MergeMerges`, that the merge of any two sequences of lines has exactly
  the lines of both, and is strictly increasing if the old one was; it rests on `FlattenKeeps`
  (what a concatenation of pieces holds and when it is increasing) and `InOrderSorts` (a
  finite set of lines has a sorted sequence, and it has each line once). `AppendKeeps`:
  appending to a tmp file loses nothing of it, and at most one line of what is appended.
* `FilesStayIntact`: `Spec => []FilesIntact`. Three invariants carry it. `Locks`: a file's lock
  is held by exactly the compiler whose place and current file say so, from which no two work
  on a file (`OneHolder`). `Clean`, while nothing has failed: a tmp file is there only for a
  compiler that is about to rename it, and is the merge of what it read. `Debts`, while the
  disk has not been full, whoever dies: that a file lacks at most one line per death is not
  inductive, since the line is lost later than the death, when the next compiler's first line
  is glued to the fragment, and missing only later still, when that compiler is past the file.
  So the deaths at a file pay for its missing lines and for a fragment in its tmp file
  (`FileDebt`), and a compiler that has written owes what neither the tmp file nor anything
  else will supply after its unlink (`OwnDebt`).
* `ClangImplementsStore`: `Spec => StoreSpec`. The unlink is the step that records: the tmp file
  stands for the analysis file from then to the rename, and by `Clean` it is the merge. All
  other steps leave what `AnalysisStore` sees as it is.

`CrossrefProofs`, for every table of symbols, set of databases, number of threads, threshold,
buffer, length of a line or of a reference, set of faults, and set of well-formed files:

* `LookupCorrect`: `Spec => [](TypeOK /\ WindowOfRecords /\ Exact)`, of the lookup alone. The
  window is a run of whole records whose outside has been ruled out; that is the
  strengthening from which both exactness and the absence of underflow follow.
* About the operators: a recursive function over the lines of a file is what its equation says
  (`Iteration`, by induction over a set in the place of a predicate), so that offsets are sums
  (`OffsetStep`), and the offsets of a concatenation are those of its parts (`OffsetsJoin`).
  From these, `FinalLines` says what line i of a complete file is, `FinalResolves` that the JSON
  of each symbol is where its line says, and nowhere else, and `FinalSorted` that the layout is
  `WellFormed` and has the keys of the table in their order.
* `WrittenFilesSound`: `DatabaseSpec => []FilesSound`. What is true at the end says nothing of the
  steps before it; `WInv` does. While the threads write, each file of a chunk is the share of
  the symbols it has had, and its count is the bytes of its -extra file (`Counted`). While they
  merge, a chunk file that is still there holds its whole share (`Held`), its references count
  from the start of the chunk, the sum of the counts before it is where the chunk begins
  (`OffsetsAreBytes`), and so each line that is copied, once adjusted, is the line of the
  complete file at that place (`Copied`, `Ended`), unless a line of it was cut. `Room` counts the
  holes: while the disk is not full there is one fewer than there may be.
* `WrittenLookupsExact`: `DatabaseSpec => []AnswersExact`. `LookupAssumption` asks for well-formed
  files; of those that the indexer wrote it is proved here (`OpenKeeps`), and so are their keys
  (`Mapped`).
* `DatabaseLookupsHalve`: `DatabaseSpec => Halves`: no file is opened during a search.

The assumptions are those of the modules: an identifier line has its newline and one byte more,
a JSON its colon, its newline and one byte more; the keys of a table increase, as those of a
`BTreeMap` do; and one of the databases is called crossref.

`DeployProofs`, for every schedule, number of operators and choice of scripts that overlap:

* `DeployTypes`: `Spec => []TypeOK`; that a target or a marked volume belongs to a tagged
  machine needs `TagsDone` (whoever got past `create_tags` has a tagged machine).
* `VolumesAccountedFor`: `Spec => []NoStrayVolume`, overlaps and deaths included. It is not
  inductive: the end of a machine frees its volume. `Attached` closes the gap: a machine
  has its script's volume or none, and that volume is marked, or its script was about
  to mark it.
* `ServiceIsKept`: `Spec => ServiceKept`. The invariant `SInv` says what a script that deploys
  alone knows at each place (`Knows`): from the end of the poll on its machine serves;
  `old` is the whole target group but for itself; then it is the only target, and not
  in `kill`. `NotStarted` keeps what has not begun from touching what serves; `ServiceStep`
  follows action by action.
* `OldMachinesGo`: `Spec => []ReplacedCleanly`. `ServiceIsKept` says that the old machines go
  only after the new one serves; this says that they do go. From `describe_instances` on,
  every live tagged machine but the script's own is among those that the script is to
  terminate, or is the one spare of release1 (`Replacing`, `Few`), and a machine without tags
  is one whose script stands, or died, at `create_tags` (`Untagged`).

`MergeExpandProofs`, of `Expand`, for every database, any limits and any sequence of queries:

* `ExpandLabelsTrue`: `ExpandSpec => []LabelsTrue`. The property speaks of the end, when the work
  list is empty. What has been looked up and what is still to be looked up form one list
  (`Item`), and a turn only appends to it what the symbol in turn offers (`GoesOn`); so the
  invariant is about that list (`ListInv`). Each entry is `Sound`: its label is true, and a class
  below another has been met from one that is there. Its root stands before it (`RootsFirst`);
  a symbol that was met is listed, and only a symbol that was asked for can be listed twice
  (`OnceEach`, `AllListed`). And what has been looked up without meeting a limit has all that
  its rules list among what was met (`Followed`): `SubclassesFollowed` and, with one super at
  most, `SupersFollowed` conclude that what was met is closed under these relations, and a walk
  from inside a closed set stays in it (`NothingMissing`). That labels are true is a walk
  prolonged by one step (`OffersSound`), where the table of rules allows no step but up after
  up, down after down, and down after up (`Ways`).
* What is assumed of the database is `MetaTyped`, which crossref's linking makes true: a subclass is
  listed by its supers because its own record lists them (`crossref.rs` adds it there; it may
  have no record), classes do not override and methods have neither supers nor subclasses, and
  no record has a field `overridenBy` (section 5). The set of symbols is finite.
* The attempt corrected the property. It said that no symbol is expanded twice, as
  `cmd_crossref_expand.rs:97` wants it; but the symbols of the query itself go to the work
  list whether or not they have been met (line 112), so one that is asked for twice is expanded
  twice. The property now excepts it, and the run has such a query.

`MergeExpandProofs`, of `MergePlatforms`, for any platforms and any files of theirs (the two share
a module for the lemmas on folds and lists that both need):

* `MergeKeepsSources`: `MergeSpec => []SourcesKept`. The property compares the end with the files;
  between them lie a reading, a sort and a merge of neighbours. While the files are read, every
  source record before `place` has been collected (`ReadSoFar`). The sort is stable insertion,
  a fold: `Inserting` shows that an insertion keeps the order and adds just its record,
  `InPlacesSorts` that the whole is in order and has the same records. While records are
  merged, each record in the making *stands for* a set of records of its place and name
  (`Stands`: the union of their symbols, of those they are sure of, ...), what else is of that
  place and name is still to come (`Making`), and since all is in order, what is before the
  last written record is closed for good (`Before` in `Merging`). `Standing` is the step from a
  set to that set and one record more; it rests on `MergedSymbols`: symbols and confidences of
  two records are chained in the same order, so a symbol is sure if one of the two is. An
  expansion goes under its platform's name, and `OwnKey` says that no other file's record can
  have that key.
* What is assumed: platforms differ and their names are not empty (they are directories'
  names), and of the records what `FilesTyped` says: a record has a confidence for each symbol
  or for none (`analysis.rs:817`), and no key of an expansion names a platform yet (the plugins
  know of none; without this, a record that came with another platform's name could take
  its place). `FilesTyped` is part of `MergeInit`, so the run checks that its files have it.

`ReadProofs`, for any files and any number of threads:

* `ThreadsMakeNoDifference`: `ReadSpec => []ThreadsDoNotMatter`, where `ReadSpec` is reading, merging and
  linking; the ontology's steps, which come later and add labels, pointers and slots to the
  records, are outside it, and the run checks that the property holds after them too. The
  property compares tables with files, and the threads stand between them. `ReadInv` says
  what they have at each moment: a thread's vectors are what the files from the start of
  its range to its position give (`Part`), and the tables hold what the first to the last
  merged range give. It rests on three facts. `Ranges`: a thread's range ends where
  the next begins, and the last one at the end of the list, whatever the remainder.
  `PartsJoin`: parts of the list that follow each other give what they give together, which is
  what lets a range be merged as a whole. `HoldsMore`: tables that hold what one list of items
  says hold, when the next items are merged, what both say; table by table, this is that the
  first record (`RecordsMerged`), the last name (`NamesMerged`), the hits in their order
  (`HitsMerged`) and the lines of the first path (`CalleesMerged`) are those of the longer list.
  That linking leaves what records state is `HoldsKept`, with `SubclassKeeps`,
  `OverrideKeeps` and `SlotKeeps` for one link each.
* `LinksGoBothWays`: `ReadSpec => []LinksBothWays`. The links come from three sources that meet only
  at the end: the lists of pairs of all threads, the map of slots, and the first record of each
  symbol. `LinkInv` beside `ReadInv` says how far they have come: until the last vector is merged
  no record has a link (`AllPlain`); while threads are linked, each pair of those behind
  has been followed (`Followed`) and the slots are keyed by owner and symbol (`SlotsKeyed`). From
  the keys follows that the slots, in order, name no pair of symbols twice
  (`SlotsInOrderOnce`), which is what keeps an owner from having a slot twice (`SlotLinked`). That a
  link is both stated and followed needs that what the first record of a symbol states is
  among the pairs, although other records of that symbol are dropped and theirs are not:
  `PartSays`, from what each file gives (`ReadItemsSay`), and `FirstRecord`. That the links are
  still mutual after the ontology's steps is checked by the run.
* What is assumed is `ReadAssumption`: there is a thread, the limit for one thread is a number,
  lists are lists, a record has its fields (`FilesTyped`), and `SymOrder` names no symbol twice.

`TraverseProofs`, for every database, query, set of limits and order of the queue:

* `DiagramFollowsControl`: `TraverseSpec => []EdgesFollowControl`. A visit works off a list of
  offers, so the argument has three layers. `AllFlow`: what a symbol offers in a call diagram,
  relation by relation and slot by slot (`CalleesFlow`, `UsesFlow`, `OverridesFlow`,
  `WrappersFlow`, `ShortcutsFlow`, `SlotsFlow`), are edges of `Flow` between that symbol and the
  other end. `Taking`: an edge is drawn between the nodes of its two symbols, because each has
  been looked up by then and a lookup finds a node of that symbol (`Finding`), and a node keeps
  its symbol (`Ensuring`). `Folding`: the fold over the offers is one taking after the other.
  The invariant `TraverseInv` adds that what is queued are symbols of the database.
* What is assumed is `DatabaseTyped` and `QueryTyped`, that lists are lists of symbols: not
  that a database is consistent. `callees` need not mirror `uses`, nor an owner its slots;
  `Flow` takes a relation from the end that states it.
* The attempt corrected the model three times. `Calls` asked that both ends are functions; the
  code looks only at the far end (`cmd_traverse.rs:1145`, :1281), so a call diagram of something
  else, say a class, has edges at it, and the run now has such a root. `Crossings` counted
  slots of preferences and the like, through which nothing flows. `OwnerRule` was a `CASE`
  whose arms overlap, which TLA+ leaves open; it now tries one kind of slot after the other.

`WebServingProofs`, for any number of runs of the script, of retries and any exit codes:

* `EarlierRoutersGone`: `Spec => [](TypeOK /\ RouterReplaced)`. The property speaks of a run that
  has its router; inductive is that every run past `KillRouter` has no earlier router's
  supervisor (`Replaced`), and that nothing is started before its turn (`Unstarted`).
* `ServersStartCleanly`: `Spec => []StartedCleanly` when the script is told to WAIT. Two lines say
  nothing of who wrote them; `OneLineEach` does: until a restart, what earlier runs
  started is quiet (it has nothing to load), and what this run started writes once.
  That earlier runs are quiet holds because WAIT ends only when both of a run's
  servers have reported. Without WAIT the next run may begin before that, and then
  the supervisor of the old web server, which `pkill -x` spares, may still start one.

`DeployAssumption` is about names (no deployer is called like a place), not about the
system.

Only model-checked: all liveness (fairness and ENABLED are outside the prover's
reach), the ontology rules and what fields and calls say (`OntologyTrue`), and everything about the
other modules. Much of those (tokenizers, type parser, layouts, patches) is what a fold over data computes, and facts
about that for every input need induction over an operator, which the installed provers
cannot instantiate; where a set can take the predicate's place (`InductionUpTo` in
`ClangOutputProofs` for concatenation, `UpTo` in other modules for folds) it is proved.
In the modules without theorems the arms of a `CASE` may overlap, as the conditions of the
code do; they are meant in the order in which they stand, which is how TLC evaluates them.

## 5. Known limits of the code that the models make visible

Besides `MarksLeftOnError`. Each was found by a property that does not hold as one would first
write it; the property as it stands names the exception.

Start-up, building and writing:

* A build that starts from a ref without a marks file and with `--commit-limit` may
  move the ref to the other side of a merge; what only the old ref covered is then
  found by no later build and is transformed again. The same happens from an empty
  repository: a build that ends well deletes the marks file, and when the next one meets a
  merge whose other side is new, a checkpoint or a panic on that side moves the ref there
  and saves marks of that side only. `build-blame.rs:205` describes this very case as
  solved by the marks file. With heads `a1` and a merge of `a1` and `c1`, one commit per
  checkpoint, TLC finds `StoreSpec` violated after 23 states (what is on disk shrinks); in
  the run, and in the theorem, the source moves forward by a chain (`ForwardOnly`).
* The readiness poll and the script count lines, whosever they are: a server that is
  restarted supplies both (`ReadyMeansBoth` holds until some server is restarted).
* A web-server supervisor that is between two tries is not reached by `pkill -x` and
  starts its server later; the router's is reached (`RouterReplaced`). Without WAIT its line is
  then counted for the next run (`web-serve.sh:117` passes no WAIT, but runs once on a machine).
* Deployments that overlap may take the channel down: each terminates the other's machine
  after it became the target (`ServiceKept` without `orderly` fails in 31 steps, with two
  triggers and no operator). They do overlap when the second trigger comes while the
  first one's machine is pending, which `trigger_common.py:124` does not look for.
* A script that dies between `run_instances` and `create_tags` leaves a machine that no
  deployment terminates (the exception in `ReplacedCleanly`); one that dies between
  detaching and marking leaves a volume (`NoStrayVolume`), which is only warned about.
* The spare that `release1` keeps may be a machine that is already terminated but still
  listed, and then the live one is not kept (`DescribeInstances`).
* A short write during the crossref merge is noticed only by the next write, if the
  disk is still full then. How many can stay unnoticed is no matter of one output file: a chunk
  file that is removed makes room for all, so that the holes of all files are at most one more
  than the chunk files removed by then (`FewHoles`). Counted for each file, as it was first
  stated, the bound holds with one database and fails with two.
* A flush that fails in the plugin's `fclose` truncates an analysis file in silence
  (`LoseTail`; `OneLinePerDeath` excludes it).
* A panic inside `build_blame_tree` closes fast-import's input in the middle of a commit;
  what fast-import has is recorded with a tree that is cut short, where `docs/blame.md:48`
  wants each tree whole (`TreesWhole` states it and is not checked).
* A compiler that dies leaves a tmp file, to which the next one appends
  (`FileOperations.cpp:120`): the file is then not sorted, as `docs/analysis.md:493` says it
  is. `SortedWithoutFaults` is about runs without a death.
* The start-up script waits for exactly two status lines (`web-server-run.sh:101`); with a third,
  from a restarted server, it waits for ever, although `web-server-run.sh:98` says it waits
  until both report. `WaitEndsWithoutRestarts` excludes restarts.

Reading and linking records:

* A constant pointer, printed `class A *const`, is said to point to a type called `const`
  (`ontology_mapping.rs:355`), although the comment at :212 promises the name of the
  pointee. A name with `*` directly before a comma is lost, and a type that is to count for
  nothing counts if it is the last of several arguments. `MCCrossrefRead` leaves these out.
* In a diamond of overrides a method is processed more than once; on a cycle the rules would
  never end. Structured records without a search result are not written.
* Field layouts: overlapping fields (unions), reused tail padding and a vptr before an
  over-aligned base give wrong paddings; a class on fewer platforms than its bases gets
  columns for the others; a column's alignment is that of its first platform; a platform in
  no canonical variant's hierarchy panics (`cmd_format_symbols.rs:492`).

Identifiers:

* The upper bound of a prefix search is the needle with a tilde: identifiers that go on with a
  tilde (destructors, `Foo::` not leading to `Foo::~Foo`) or with a character beyond ASCII lie
  above it and are not found (`Wanted`). A limit of 0 is no limit. A needle with a blank is
  compared with identifiers and symbols together; the queries of the model have none.

Queries and diagrams:

* `crossref-expand` reads a key `overridenBy` (`cmd_crossref_expand.rs:234`) where records have
  `overriddenBy` (`analysis.rs:609`): overrides of a queried method are never found, although
  `interface.rs:341` describes them. The model follows the code.
* Terms that contradict each other are not refused: `query_core.toml:215` says `id` and `idprefix`
  cannot be in one command, and nothing checks it. Two final groups overwrite each other's
  result; `path:` without a text fails; `symbol:` is a TODO in the configuration; limits given to
  `compile-results` are ignored; a facet's root values are dropped.
* When the context of a hit begins on the hit before it, that one's line is not marked as a key
  line (`interface.rs:764`; `WithContext`).
* A symbol that two identifiers of a query lead to is expanded twice, where
  `cmd_crossref_expand.rs:97` wants each symbol once; what it leads to is listed once.
* In a hierarchy with several supers a class met from above first is taken for a cousin, and
  its other supers are not followed (`LabelsTrue`).
* A tree node with one child and no edges of its own is collapsed even if an edge placed
  higher up ends at its symbol; that edge is then not drawn (`symbol_graph.rs:1448`;
  `DrawnUnlessCollapsed`).

Pages:

* Line breaks inside a token that the tokenizer does not split shift the lines behind it: in a
  raw string's delimiter (also Python's `R"`), in a class of a regular expression, behind
  Rust's `r#`, before the `>` of an empty tag, in a script with `src` and content or without
  an end (`Lost` in `Pages` lists them).
* An XBL tag inside a script element puts tokens out of order, and the assertion at
  `format.rs:128` panics. Two records on one line whose ranges start on different lines leave
  the containers of headings unbalanced (`OneStartPerLine`). `r#type` becomes plain text.
* A diff without a blame repository fails unless it only adds lines.

Derived histories:

* Limited runs of the syntax and timeline programs over diverging branches never reach the
  merge: they keep no marks file, so each run finds the other branch undone and moves the
  ref there (`build-syntax-token-tree.rs:738`; `CatchesUp` asks for unlimited runs).
* When a file changes, old rows are filtered only from its symbols' own entries
  (`record.pretty`), not from the entry of the symbol around them; a file that is removed
  keeps its records; a merge drops its second parent's. `syntax_symdex.rs` says "We filter out all
  `SymdexRecord` records for any files we have new records for". `SymdexKnows` is about lines
  of commits, and counts rows only of files never removed.

## 6. Not modelled

* What one translation unit or file yields: the AST visitor of the clang plugin, the analyzers
  and the scip, rust, css and ipdl indexers. They are single passes over the output of
  compilers that are not part of this repository; their results are the inputs of the models.
* Formats: JSON and other records are data; HTML, templates, diagrams' text and styles are
  wording. Where a conversion decides something (offsets, bytes of a record, lines of a
  token) it is modelled.
* The router's request handling and its search (`router.py`, `codesearch.py`, `identifiers.py`,
  the twin of what `Identifiers` models, which folds case by Unicode where `sort -f` does not):
  the results come from codesearch and from that bisection. Hazards there that nothing covers: the parent answers 504 for a child that was
  killed by the alarm or failed after it had answered (`router.py:788`); results are cut at a
  limit while they are collected (`router.py:235`); a restarted codesearch is searched before it
  is ready, and waiting for it gives up in silence (`codesearch.py:155`, :186).
* The front end; in `search.js:264` an answer that arrives late must not be shown over a later
  query.
* Limits of the machine that the configuration excludes: one CPU (`build-blame.rs:967`), a marks
  file shared by trees (:59), 0 threads for crossref (`crossref.rs:1413`), an empty extra file
  (`crossref_lookup.rs:49`), an identifiers file on a full disk (`crossref.rs:1588`).
* Of pages: binary files, looking a path up in git and its submodules, commit pages, panels,
  coverage, contents of macro expansions. Of layouts: order of rows, names of columns. Of
  queries: the parser of the text and the values of arguments.
* The AWS API beyond what the trigger scripts observe, and `channel-tool.py`.

## 7. What could come next

A proof of `Pages.MenusComplete`, which is about sets and needs no induction over data; that
an inheritance diagram shows no cousin (`Traverse.UpOrDown`), whose walk is what
`TraverseProofs` follows; the bisections of `Identifiers`.
