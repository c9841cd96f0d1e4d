------------------------------ MODULE MCQuery ------------------------------
(* Queries of up to three terms over a small index; the expansion of symbols *)
(* over every hierarchy of four classes and three families of methods; and    *)
(* the merging and showing of every pair of hits.                              *)
EXTENDS Query

CONSTANTS a, b, c, d

MCKnown == {a, b, c, d}

MCPathKindOf == ("top" :> "normal") @@ ("deep" :> "test") @@ ("side" :> "test")
                  @@ ("far" :> "test") @@ ("last" :> "test") @@ ("odd" :> "test")
MCDirs == ("top" :> <<>>) @@ ("deep" :> <<"x", "y", "z">>) @@ ("side" :> <<"x", "w", "z">>)
            @@ ("far" :> <<"x", "y", "v", "z">>) @@ ("last" :> <<"u", "t", "z">>) @@ ("odd" :> <<"x", "y", "r", "z">>)
MCLineCount == [p \in DOMAIN MCDirs |-> 5]

From(r, s) == SetToSeq({e[2] : e \in {x \in r : x[1] = s}})
Into(r, s) == SetToSeq({e[1] : e \in {x \in r : x[2] = s}})

Relations(inherits, overrides) ==
    [subclasses |-> [s \in MCKnown |-> From(inherits, s)],
     supers |-> [s \in MCKnown |-> Into(inherits, s)],
     overriddenBy |-> [s \in MCKnown |-> From(overrides, s)],
     overrides |-> [s \in MCKnown |-> Into(overrides, s)]]

Line(n) == [line |-> n, lo |-> n, hi |-> n]
Hit(kind, path, lines) == [kind |-> kind, path |-> path, lines |-> lines]

\* a overrides b; c and d are free functions, d without hits.
Index(found, texts) ==
    [found |-> found,
     pretty |-> (a :> "A") @@ (b :> "B") @@ (c :> "C") @@ (d :> "D"),
     crossref |-> (a :> <<Hit("defs", "deep", <<Line(2)>>), Hit("callees", "deep", <<Line(3)>>)>>)
                    @@ (b :> <<Hit("decls", "deep", <<Line(1), Line(2)>>)>>)
                    @@ (c :> <<Hit("uses", "top", <<[line |-> 2, lo |-> 1, hi |-> 3], Line(2)>>)>>)
                    @@ (d :> <<>>),
     files |-> <<"top", "deep">>,
     texts |-> texts]

Text(path, lines) == [path |-> path, lines |-> lines]

NoLimit == [l \in {"Overrides", "Subclasses"} |-> [local |-> 0, global |-> 0]]
Tight == [l \in {"Overrides", "Subclasses"} |-> [local |-> 1, global |-> 2]]

ResultsEmpty ==
    /\ incoming = <<>> /\ prettyOf = <<>> /\ hits = <<>> /\ facets = <<>> /\ fileNames = <<>>
    /\ suppressed = {} /\ stage = "none"

PlanEmpty == outcome = "none" /\ \E q \in {<<>>} :
    /\ asked = q /\ query = q /\ todo = q /\ processed = q /\ groups = q /\ junctions = q
    /\ unlinked = [groups |-> q, junctions |-> q] /\ queued = {} /\ roots = {} /\ consumers = q
    /\ next = q /\ waiting = q /\ seen = {} /\ phases = q /\ cur = EmptyPhase
    /\ named = q /\ tasks = q /\ at = [phase |-> 1, stage |-> "none"]

Modifiers == {"C", "depth", "hier", "showCols"}
Searching == {"default", "id", "idprefix", "path", "text", "symbol", "file"}
Graphs_ == {"callsTo", "callsToSym", "callsBetween", "callsBetweenSource", "callsBetweenTarget",
            "classDiagram", "fieldLayout"}

Queries ==
    {<<>>} \cup {<<t>> : t \in DOMAIN TERM \cup {"nosuchterm"}}
      \cup {<<s, t>> : s \in Searching, t \in Searching}
      \cup {<<s, t>> : s \in Graphs_, t \in Graphs_}
      \cup {<<m, s>> : m \in Modifiers, s \in Searching \cup Graphs_}
      \cup {<<"callsBetweenSource", "callsBetweenTarget", m>> : m \in Modifiers}
      \cup {<<"default", "callsTo">>, <<"id", "callsTo", "C">>}

QueryCase ==
    /\ \E q \in Queries : PlanInit(q)
    /\ meta = Relations({}, {<<b, a>>}) /\ limits = NoLimit /\ ExpandIdle /\ ResultsEmpty
    /\ index = Index(<<a, c>>, <<Text("deep", <<1, 3>>), Text("top", <<2>>)>>)

\* Other finds for a search with everything in it.
FindsCase ==
    /\ PlanInit(<<"C", "default">>)
    /\ meta = Relations({}, {<<b, a>>}) /\ limits = NoLimit /\ ExpandIdle /\ ResultsEmpty
    /\ \E found \in {<<a>>, <<b, a>>, <<c, a>>, <<c, d>>, <<>>} :
          \E deep, top \in SUBSET (1 .. 3) :
             index = Index(found, <<Text("deep", SetToSeq(deep)), Text("top", SetToSeq(top))>>)

Inheritance == {<<a, b>>, <<a, c>>, <<b, d>>, <<c, d>>, <<a, d>>, <<b, c>>}

ExpandCase ==
    /\ \E inherits \in SUBSET Inheritance, overrides \in {{}, {<<a, b>>}, {<<a, b>>, <<b, c>>, <<a, d>>}},
          asked_ \in {<<a>>, <<b>>, <<c>>, <<d>>, <<b, c>>, <<b, b>>}, k \in {NoLimit, Tight} :
          /\ inherits = {} \/ overrides = {}
          /\ meta = Relations(inherits, overrides) /\ limits = k /\ MetaTyped
          /\ work = [i \in DOMAIN asked_ |-> Queried(asked_[i])] /\ met = ToSet(asked_)
          /\ expanded = <<>> /\ tally = [l \in {"Overrides", "Subclasses"} |-> 0]
    /\ PlanEmpty /\ ResultsEmpty /\ index = Index(<<>>, <<>>)

\* Hits in the facets' directories, and pairs and triples of hits in one file.
Ranges == {[line |-> l, lo |-> l - u, hi |-> l] : l \in 2 .. 4, u \in 0 .. 1}

Unnested(x, y) == ~(x.lo < y.lo /\ y.hi < x.hi)

Symbol(crossref) ==
    [type |-> "symbol", sym |-> a, label |-> "Queried", root |-> a, pretty |-> "A",
     quality |-> "ExplicitIdentifier", crossref |-> crossref]

ResultsCase ==
    /\ PlanEmpty /\ ExpandIdle /\ meta = Relations({}, {}) /\ limits = NoLimit
    /\ index = Index(<<>>, <<>>)
    /\ prettyOf = <<>> /\ hits = <<>> /\ facets = <<>> /\ fileNames = <<>>
    /\ suppressed = {} /\ stage = "ingesting"
    /\ \/ \E x, y, z \in Ranges : incoming = <<Symbol(<<Hit("defs", "deep", <<x, y>>), Hit("defs", "deep", <<z>>)>>)>>
       \/ \E ps \in SUBSET DOMAIN MCDirs, often \in SUBSET {"deep", "side", "odd"} :
             LET paths == SetToSeq(ps) \o SetToSeq(ps \cap often) \o SetToSeq(ps \cap often)
             IN  incoming = <<Symbol([i \in DOMAIN paths |-> Hit("uses", paths[i], <<Line(2)>>)])>>

Init == QueryCase \/ FindsCase \/ ExpandCase \/ ResultsCase

\* The commands by themselves, as searchfox-tool runs them.
Alone ==
    /\ outcome = "none"
    /\ \/ ExpandOne /\ UNCHANGED resultVars
       \/ ResultsNext /\ UNCHANGED expandVars
    /\ UNCHANGED <<planVars, index>>

Next == QueryStep \/ Alone

Spec == Init /\ [][Next]_vars /\ WF_vars(QueryStep)
=============================================================================
