----------------------------- MODULE Hierarchy ------------------------------
(* The hierarchical diagram of a symbol graph (symbol_graph.rs): each symbol *)
(* is placed in a tree of segments, each edge at the tree node its ends      *)
(* share, and then every tree node is given a shape (compile) and the edges  *)
(* between shapes are drawn (render).                                        *)
(*                                                                           *)
(* A pretty name is a sequence of pieces; a segment is a nonempty sequence   *)
(* of pieces, because an inner class is merged with the class or function it *)
(* is in; a tree node is the sequence of segments that leads to it.          *)
(*                                                                           *)
(* At the end the `traverse` and `graph` commands of one pipeline are        *)
(* composed: when the traversal has ended, the graph it leaves is laid out   *)
(* (cmd_graph.rs).                                                           *)
EXTENDS Traverse

CONSTANT AllSymbols    \* symbols of the graph and the ones they are nested in

VARIABLES
    names,     \* what the crossref database says of each symbol, read-only:
               \* [pretty, kind, subsystem, path, found, grouping]
    stage,     \* "idle", "symbols", "edges", "compile", "render" or "drawn"
    toPlace,   \* symbols of the graph not yet placed
    toLink,    \* edges of the graph not yet placed
    segments,  \* sym_segments: the path of each placed symbol
    tree,      \* path -> [symbols, edges, below, height]
    shape,     \* path -> its layout action
    drawn      \* the edges of the drawing, pairs of shapes

hierarchyVars == <<names, stage, toPlace, toLink, segments, tree, shape, drawn>>

KindOf(s) == names.kind[s]
IsClass(s) == KindOf(s) = "class"
Standalone(s) == KindOf(s) \in {"class", "lambda"}
-----------------------------------------------------------------------------
(* Segments of a symbol (derive_hierarchical_graph) *)

\* The symbol a prefix of a pretty name stands for: the symbol itself for its
\* whole name, else the first one the identifier search finds.
Lookup(s, k) ==
    IF k = Len(names.pretty[s]) THEN {s}
    ELSE LET prefix == SubSeq(names.pretty[s], 1, k)
             hits == {t \in names.found : names.pretty[t] = prefix}
         IN  IF hits = {} THEN {} ELSE {CHOOSE t \in hits : TRUE}

\* The pieces, each with its symbol; a class or lambda takes in whatever stands
\* between it and the last namespace.
Merged(s) ==
    LET step(acc, k) ==
          LET piece == <<names.pretty[s][k]>>
              sym == Lookup(s, k)
              namespace == \E t \in sym : KindOf(t) = "namespace"
              outer == IF namespace THEN acc.known + 1 ELSE acc.outer
              inner == \E t \in sym : Standalone(t)
              kept == IF inner /\ outer < Len(acc.parts) THEN SubSeq(acc.parts, 1, outer) ELSE acc.parts
              taken == IF inner THEN SubSeq(acc.parts, outer + 1, Len(acc.parts)) ELSE <<>>
          IN  [known |-> IF sym = {} THEN acc.known ELSE acc.known + 1,
               outer |-> outer,
               parts |-> Append(kept, [seg |-> FlattenSeq([i \in DOMAIN taken |-> taken[i].seg]) \o piece,
                                       sym |-> sym])]
    IN  FoldLeftDomain(LAMBDA acc, k : step(acc, k),
                       [known |-> 0, outer |-> 0, parts |-> <<>>], names.pretty[s]).parts

\* The first part that is neither unknown nor a namespace.
FirstReal(parts) ==
    LET real == {k \in DOMAIN parts : \E t \in parts[k].sym : KindOf(t) # "namespace"}
    IN  IF real = {} THEN Len(parts) ELSE Min(real)

Plain(pieces) == [i \in DOMAIN pieces |-> [seg |-> <<pieces[i]>>, sym |-> {}]]

Placed(s) ==
    LET parts == Merged(s)
        rest == SubSeq(parts, FirstReal(parts), Len(parts))
        Of(attribute, k) == IF parts[k].sym = {} THEN <<"">>
                            ELSE attribute[CHOOSE t \in parts[k].sym : TRUE]
    IN  CASE names.grouping = "flatbadges" -> <<[seg |-> names.pretty[s], sym |-> {s}]>>
          [] names.grouping = "pretty" -> parts
          [] names.grouping = "subsystem" -> Plain(Of(names.subsystem, FirstReal(parts))) \o rest
          [] names.grouping = "file" -> Plain(Of(names.path, Len(parts))) \o rest
          [] names.grouping = "dir" -> Plain(Front(Of(names.path, Len(parts)))) \o rest

SegsOf(parts) == [i \in DOMAIN parts |-> parts[i].seg]
-----------------------------------------------------------------------------
(* Placing *)

NewNode == [symbols |-> <<>>, edges |-> {}, below |-> 0, height |-> 0]

IsAbove(p, q) == Len(p) < Len(q) /\ SubSeq(q, 1, Len(p)) = p

AtOrAbove(p, q) == p = q \/ IsAbove(p, q)

\* One symbol at the end of a path: the nodes on the way are created, and each
\* one is at least as high as the path below it is long.
PlaceSym(t, path, s) ==
    LET has(p) == p \in DOMAIN t
        old(p) == IF has(p) THEN t[p] ELSE NewNode
        on == {SubSeq(path, 1, k) : k \in 0 .. Len(path)}
    IN  [p \in DOMAIN t \cup on |->
           IF p \notin on THEN t[p]
           ELSE [old(p) EXCEPT
                   !.height = Max({@} \cup {old(q).height + Len(q) - Len(p) :
                                              q \in {x \in on : AtOrAbove(p, x)}}),
                   !.symbols = IF p = path /\ s \notin ToSet(@) THEN Append(@, s) ELSE @]]

\* All the ancestors of a symbol that are symbols are placed with it.
PlaceSymbol ==
    /\ stage = "symbols" /\ toPlace # <<>>
    /\ LET s == Head(toPlace)
           parts == Placed(s)
           path == SegsOf(parts)
           here == SelectSeq([k \in DOMAIN parts |-> k], LAMBDA k : parts[k].sym # {})
       IN  /\ tree' = FoldLeft(LAMBDA t, k : PlaceSym(t, SubSeq(path, 1, k),
                                                      CHOOSE x \in parts[k].sym : TRUE),
                               tree, here)
           /\ segments' = [segments EXCEPT ![s] = path]
    /\ toPlace' = Tail(toPlace)
    /\ UNCHANGED <<names, stage, toLink, shape, drawn>>

SymbolsPlaced ==
    /\ stage = "symbols" /\ toPlace = <<>>
    /\ stage' = "edges"
    /\ UNCHANGED <<names, toPlace, toLink, segments, tree, shape, drawn>>

\* Mutant: the deepest common node, be it one of the two.
CommonDeepest(p, q) ==
    SubSeq(p, 1, Max({n \in 0 .. Min({Len(p), Len(q)}) : SubSeq(p, 1, n) = SubSeq(q, 1, n)}))

\* Where an edge goes: the node both ends are under, and above the outer one
\* when one end is under the other.
Common(p, q) ==
    LET shared == Max({n \in 0 .. Min({Len(p), Len(q)}) : SubSeq(p, 1, n) = SubSeq(q, 1, n)})
    IN  SubSeq(p, 1, IF shared > 0 /\ shared \in {Len(p), Len(q)} THEN shared - 1 ELSE shared)

PlaceEdge ==
    /\ stage = "edges" /\ toLink # {}
    /\ LET e == CHOOSE x \in toLink : TRUE
           at == Common(segments[e[1]], segments[e[2]])
       IN  /\ toLink' = toLink \ {e}
           /\ tree' = [p \in DOMAIN tree |->
                         [tree[p] EXCEPT
                            !.edges = IF p = at THEN @ \cup {e} ELSE @,
                            !.below = IF IsAbove(p, at) THEN @ + 1 ELSE @]]
    /\ UNCHANGED <<names, stage, toPlace, segments, shape, drawn>>

EdgesPlaced ==
    /\ stage = "edges" /\ toLink = {}
    /\ stage' = "compile"
    /\ UNCHANGED <<names, toPlace, toLink, segments, tree, shape, drawn>>
-----------------------------------------------------------------------------
(* Shapes *)

Kids(p) == {q \in DOMAIN tree : Len(q) = Len(p) + 1 /\ IsAbove(p, q)}

ClassAt(p) == tree[p].symbols # <<>> /\ IsClass(tree[p].symbols[1])

\* Whether the node is a class or in one, as far as the walk down can tell.
ClassLine(p) == \E k \in 1 .. Len(p) : ClassAt(SubSeq(p, 1, k))

\* Whether an edge placed at the parent starts or ends here.
ParentTouches(p) ==
    \E e \in tree[Front(p)].edges : {e[1], e[2]} \cap ToSet(tree[p].symbols) # {}

MayCollapse(p) ==
    /\ p # <<>> /\ ~ClassLine(p)
    /\ Cardinality(Kids(p)) = 1 /\ tree[p].edges = {} /\ ~ParentTouches(p)
    /\ \A q \in Kids(p) : ~ClassAt(q)

TableEdges == 5

ShapeOf(p) ==
    IF p = <<>> THEN "flatten"
    ELSE IF MayCollapse(p) THEN "collapse"
    ELSE IF Kids(p) = {} THEN "node"
    ELSE IF tree[p].edges = {} /\ ClassLine(p) /\ tree[p].below < TableEdges /\ tree[p].height = 1
    THEN "table" ELSE "cluster"

\* A table has a height of one, and its children are its rows.
Shaped(p) == IF p # <<>> /\ ShapeOf(Front(p)) = "table" THEN "record" ELSE ShapeOf(p)

Compile ==
    /\ stage = "compile"
    /\ shape' = [p \in DOMAIN tree |-> Shaped(p)]
    /\ stage' = "render"
    /\ UNCHANGED <<names, toPlace, toLink, segments, tree, drawn>>

\* Where the edges of a symbol are drawn to: the last shape that registered it.
Registers(p) == shape[p] \in {"cluster", "table", "record", "node"}

HeldBy(s) == {p \in DOMAIN tree : Registers(p) /\ s \in ToSet(tree[p].symbols)}

\* The walk registers parents before children and children in their order.
Target(s) == CHOOSE p \in HeldBy(s) : \A q \in HeldBy(s) : ~IsAbove(p, q)

Drawable(e) == HeldBy(e[1]) # {} /\ HeldBy(e[2]) # {}

Render ==
    /\ stage = "render"
    /\ drawn' = UNION {{<<Target(e[1]), Target(e[2])>> : e \in {x \in tree[p].edges : Drawable(x)}} :
                          p \in DOMAIN tree}
    /\ stage' = "drawn"
    /\ UNCHANGED <<names, toPlace, toLink, segments, tree, shape>>
-----------------------------------------------------------------------------
EmptyTree == (<<>> :> NewNode)

HierarchyIdle ==
    /\ stage = "idle"
    /\ toPlace = <<>> /\ toLink = {}
    /\ segments = [s \in AllSymbols |-> <<>>]
    /\ tree = EmptyTree
    /\ shape = (<<>> :> "none")
    /\ drawn = {}

\* A graph with these symbols and edges is handed over.
Derive(syms, es) ==
    /\ stage = "idle"
    /\ stage' = "symbols"
    /\ toPlace' = syms
    /\ toLink' = es
    /\ UNCHANGED <<names, segments, tree, shape, drawn>>

HierarchyNext ==
    PlaceSymbol \/ SymbolsPlaced \/ PlaceEdge \/ EdgesPlaced \/ Compile \/ Render
-----------------------------------------------------------------------------
(* What the drawing promises *)

Under(p) == {q \in DOMAIN tree : IsAbove(p, q)}

\* Once the edges are placed, each one is at exactly one node of the tree, the
\* lowest that is above both its ends (above the outer one when one end is in
\* the other), and the heights and counts kept up on the way agree with the
\* tree: the shapes are chosen by them.
TreeConsistent ==
    stage \in {"compile", "render", "drawn"} =>
        /\ \A p \in DOMAIN tree :
              /\ \A e \in tree[p].edges :
                    LET above == {q \in DOMAIN tree : /\ IsAbove(q, segments[e[1]])
                                                      /\ IsAbove(q, segments[e[2]])}
                    IN  p \in above /\ \A q \in above : Len(q) <= Len(p)
              /\ tree[p].below = Cardinality(UNION {tree[q].edges : q \in Under(p)})
              /\ tree[p].height = Max({0} \cup {Len(q) - Len(p) : q \in Under(p)})
        /\ \A p, q \in DOMAIN tree : p # q => tree[p].edges \cap tree[q].edges = {}

GraphEdges == UNION {tree[p].edges : p \in DOMAIN tree}

\* Every edge of the graph is in the drawing, between the shapes that show its
\* ends, unless one of them was collapsed into its only child.  ("If the node has
\* only one child and no edges, we can collapse it": a collapsed node may have
\* edges that are placed higher up, and these are lost.)
DrawnUnlessCollapsed ==
    stage = "drawn" =>
        \A e \in GraphEdges :
            (\A i \in 1 .. 2 : shape[segments[e[i]]] # "collapse") =>
                \E x \in drawn : \A i \in 1 .. 2 : e[i] \in ToSet(tree[x[i]].symbols)

\* In a hierarchy of names, a class inside another class, function or method is
\* shown beside it and not in it, so that the outer one can still be a table.
InnerClassesApart ==
    (stage = "drawn" /\ names.grouping = "pretty") =>
        \A p \in DOMAIN tree : ClassAt(p) =>
            \A q \in DOMAIN tree : IsAbove(q, p) =>
                \A s \in ToSet(tree[q].symbols) : KindOf(s) = "namespace"

\* What is drawn is the graph: each edge in its place, from the placing of the
\* symbols to the choice of the shapes.
DrawingTrue == TreeConsistent /\ DrawnUnlessCollapsed /\ InnerClassesApart
-----------------------------------------------------------------------------
(* The graph command *)

diagramVars == <<traverseVars, hierarchyVars>>

\* The symbols of the graph handed over: of the paths, or the roots and
\* whatever an edge was added to, in the order they were met.
GraphSymbols ==
    IF query.between THEN SetToSeq(pathNodes)
    ELSE LET ends == UNION {{e[1], e[2]} : e \in edges}
             inGraph == {i \in DOMAIN nodes : i \in DOMAIN query.roots \/ i \in ends}
         IN  [k \in DOMAIN SetToSortSeq(inGraph, <) |-> nodes[SetToSortSeq(inGraph, <)[k]].sym]

GraphOfSymbols == IF query.between THEN pathEdges ELSE SymEdges

\* A flat graph is drawn as it is.
Graph ==
    /\ phase = "done" /\ names.grouping # "flat"
    /\ Derive(GraphSymbols, GraphOfSymbols)
    /\ UNCHANGED traverseVars

DiagramNext ==
    \/ TraverseNext /\ UNCHANGED hierarchyVars
    \/ Graph
    \/ HierarchyNext /\ UNCHANGED traverseVars
=============================================================================
