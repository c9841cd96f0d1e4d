------------------------------ MODULE Traverse ------------------------------
(* The `traverse` command of the query pipeline (cmd_traverse.rs) and the    *)
(* symbol graph it builds (symbol_graph.rs): from the symbols of a query it  *)
(* follows one kind of relation of the crossref database, breadth first,     *)
(* within a depth and a node limit, and then, when the query asks for the    *)
(* paths between two sets of symbols, keeps of the graph only those paths.   *)
(*                                                                           *)
(* A crossref database `db` is a record of the relations the command reads.  *)
(* A `query` holds the command's arguments and the fused list of roots.  A   *)
(* node of the graph is a position in `nodes`, as in SymbolGraphNodeSet.     *)
EXTENDS Integers, SequencesExt

CONSTANT Symbols     \* the symbols the database knows

VARIABLES
    db,          \* the crossref database, read-only
    query,       \* the arguments and the roots
    phase,       \* "traverse", "paths" or "done"
    nodes,       \* symbol_crossref_infos: a sequence of [sym, depth]
    edges,       \* pairs of positions in nodes
    considered,  \* symbols scheduled or ruled out
    queue,       \* to_traverse: a sequence of [sym, depth, dirs]
    overloads,   \* kinds of limits that were hit
    pathNodes,   \* symbols of the graph of paths
    pathEdges    \* its edges, pairs of symbols

traverseVars == <<db, query, phase, nodes, edges, considered, queue,
                  overloads, pathNodes, pathEdges>>

Both == {"Super", "Subclass"}
-----------------------------------------------------------------------------
(* The node set *)

\* A symbol that is listed twice has two nodes; lookups find the last one.
IdIn(ns, s) == CHOOSE i \in DOMAIN ns :
                  /\ ns[i].sym = s
                  /\ \A j \in DOMAIN ns : ns[j].sym = s => j <= i

Known(ns, s) == \E i \in DOMAIN ns : ns[i].sym = s

Ensure(ns, s, d) == IF Known(ns, s) THEN ns
                    ELSE Append(ns, [sym |-> s, depth |-> d])
-----------------------------------------------------------------------------
(* What a symbol offers to its traversal: the other end `to` is looked up,   *)
(* `edges` are added (only when `to` was not considered before, if `fresh`), *)
(* and `to` is scheduled in the directions `dirs` unless `leaf`.             *)

Offer(to, es, dirs) ==
    [to |-> to, edges |-> es, fresh |-> FALSE, leaf |-> FALSE, dirs |-> dirs]

Leaf(to, es) == [Offer(to, es, {}) EXCEPT !.leaf = TRUE]

\* An ignored symbol is looked up and then left alone.
Unless(ignored, o) == IF o.to \in ignored THEN Leaf(o.to, {}) ELSE o

MapOffers(seq, Op(_)) == [i \in DOMAIN seq |-> Unless(query.ignore, Op(seq[i]))]

Mode(ms) == query.edge \in ms

\* The members of a sequence that pass a test.
Where(seq, Test(_)) == FlattenSeq([i \in DOMAIN seq |-> IF Test(seq[i]) THEN <<seq[i]>> ELSE <<>>])

\* Fields of a class are shown whatever the depth; a field that has neither a
\* label nor a pointee is not.
FieldOffers(s) ==
    LET OfField(f) ==
          MapOffers(f.ptrs, LAMBDA p : Offer(p, {}, Both))
            \o IF f.labelled \/ f.ptrs # <<>>
               THEN <<Leaf(f.sym, {<<f.sym, p>> : p \in ToSet(f.ptrs) \ query.ignore})>>
               ELSE <<>>
    IN  IF Mode({"class"}) THEN FlattenSeq([i \in DOMAIN db.fields[s] |-> OfField(db.fields[s][i])])
                           ELSE <<>>

\* The classes that have a member of this type; their own visit adds the edge.
ReadsMemberUses(depth) ==
    Mode({"class"}) /\ depth <= query.fmuDepth /\ depth + 1 < query.maxDepth

TooManyMemberUses(s, depth) ==
    ReadsMemberUses(depth) /\ Len(db.memberUses[s]) >= query.fmuLimit

MemberUseOffers(s, depth) ==
    IF ReadsMemberUses(depth) /\ ~TooManyMemberUses(s, depth)
    THEN MapOffers(db.memberUses[s], LAMBDA c : Offer(c, {}, Both))
    ELSE <<>>

\* The slot that owns this symbol: which way the edge goes, through which other
\* slot of the owner, and whether the other relations are then left out.
OwnerRule(slot) ==
    LET None      == [follow |-> FALSE, last |-> FALSE, via |-> "none", out |-> FALSE]
        Sent      == [follow |-> Mode({"callees"}), last |-> TRUE, via |-> "Recv", out |-> TRUE]
        Received  == [follow |-> Mode({"uses"}), last |-> TRUE, via |-> "Send", out |-> FALSE]
        Interface == [None EXCEPT !.follow = TRUE]
        Wrapped   == [Sent EXCEPT !.via = "none"]
    IN  IF slot.kind \in {"EnablingPref", "EnablingFunc", "Const"} THEN None
        ELSE IF slot.kind = "Send" THEN Sent
        ELSE IF slot.kind = "Recv" THEN Received
        ELSE IF slot.lang = "Idl" THEN Interface
        ELSE IF slot.kind = "Class" THEN None
        ELSE Wrapped

\* Mutant: the other way.
BetweenBackwards(s, t, out) == IF out THEN {<<t, s>>} ELSE {<<s, t>>}
Between(s, t, out) == IF out THEN {<<s, t>>} ELSE {<<t, s>>}

\* The slots of the owner that are the other end of the message.
OtherEnds(slot) == Where(db.slots[slot.sym], LAMBDA b : b.kind = OwnerRule(slot).via)

SlotOffers(s, slot) ==
    LET rule == OwnerRule(slot)
        To(t) == Unless(query.ignore, Offer(t, Between(s, t, rule.out), Both))
    IN  IF ~rule.follow THEN <<>>
        ELSE IF rule.via = "none" THEN <<To(slot.sym)>>
        ELSE IF OtherEnds(slot) = <<>> THEN <<Leaf(slot.sym, {})>>
        ELSE <<Leaf(slot.sym, {}), To(OtherEnds(slot)[1].sym)>>

OwnerOffers(s) == FlattenSeq([i \in DOMAIN db.owner[s] |-> SlotOffers(s, db.owner[s][i])])

OwnerIsLast(s) ==
    \E slot \in ToSet(db.owner[s]) : OwnerRule(slot).follow /\ OwnerRule(slot).last

\* Wrappers of this symbol in other languages, when looking for its users.
Wrappers(s) ==
    IF Mode({"uses"})
    THEN Where(db.slots[s], LAMBDA b : b.lang # "Idl" /\ b.kind # "Class")
    ELSE <<>>

WrapperOffers(s) ==
    MapOffers(Wrappers(s), LAMBDA b : Offer(b.sym, {<<b.sym, s>>}, Both))

\* Shortcuts the ontology gives: from a runnable's run method to its constructor.
Shortcuts(s) ==
    LET wanted == IF Mode({"uses"}) THEN "RunnableConstructor"
                  ELSE IF Mode({"callees"}) THEN "RunnableMethod" ELSE "none"
    IN  Where(db.ontology[s], LAMBDA o : o.kind = wanted)

ShortcutOffers(s) ==
    FlattenSeq([i \in DOMAIN Shortcuts(s) |->
        MapOffers(Shortcuts(s)[i].syms,
                  LAMBDA t : Offer(t, Between(s, t, Mode({"callees"})), Both))])

SubclassOffers(s, dirs) ==
    IF Mode({"class", "inheritance"}) /\ "Subclass" \in dirs
    THEN MapOffers(db.subclasses[s], LAMBDA t : Offer(t, {<<s, t>>}, {"Subclass"}))
    ELSE <<>>

\* A super whose label asks for it becomes a badge of the class and no node's edge.
SuperOffers(s, dirs) ==
    IF Mode({"class", "inheritance"}) /\ "Super" \in dirs
    THEN MapOffers(db.supers[s], LAMBDA t : IF t \in db.elided THEN Leaf(t, {})
                                            ELSE Offer(t, {<<t, s>>}, {"Super"}))
    ELSE <<>>

Fresh(t, e) == [Offer(t, {e}, Both) EXCEPT !.fresh = TRUE]

OverrideOffers(s) ==
    (IF Mode({"inheritance", "uses"})
     THEN MapOffers(db.overrides[s], LAMBDA t : Fresh(t, <<t, s>>)) ELSE <<>>)
    \o (IF Mode({"inheritance", "callees"})
        THEN MapOffers(db.overriddenBy[s], LAMBDA t : Fresh(t, <<s, t>>)) ELSE <<>>)

OnlyCallable(t, o) == IF t \in db.callable THEN o ELSE Leaf(t, {})

CalleeOffers(s) ==
    IF Mode({"callees"})
    THEN MapOffers(db.callees[s], LAMBDA t : OnlyCallable(t, Offer(t, {<<s, t>>}, Both)))
    ELSE <<>>

\* `uses` lists, file by file, the symbols whose bodies the hits are in.  None
\* are read if there are too many files, and none from the first file on that
\* has too many hits or makes the total too large.
HitsUpTo(uses, k) == FoldLeft(LAMBDA n, hits : n + Len(hits), 0, SubSeq(uses, 1, k))

UsesRead(s) ==
    LET uses == db.uses[s]
        cut == {k \in DOMAIN uses : HitsUpTo(uses, k) >= query.useLimit}
    IN  IF ~Mode({"uses"}) \/ Len(uses) >= query.useLimit THEN <<>>
        ELSE IF cut = {} THEN uses ELSE SubSeq(uses, 1, Min(cut) - 1)

UseOffers(s) ==
    MapOffers(FlattenSeq(UsesRead(s)),
              LAMBDA t : OnlyCallable(t, Offer(t, {<<t, s>>}, Both)))

\* All a symbol offers, in the order of the code.  An owner or a wrapper or a
\* shortcut that is followed stands for everything after it.
Direct(s, dirs) ==
    SubclassOffers(s, dirs) \o SuperOffers(s, dirs) \o OverrideOffers(s)
        \o CalleeOffers(s) \o UseOffers(s)

ReachesUses(s) == ~OwnerIsLast(s) /\ Wrappers(s) = <<>> /\ Shortcuts(s) = <<>>

Stops(s, depth) == depth > 0 /\ s \in db.stop /\ ~Mode({"inheritance"})

Offers(s, depth, dirs) ==
    FieldOffers(s) \o MemberUseOffers(s, depth) \o OwnerOffers(s)
      \o IF OwnerIsLast(s) THEN <<>>
         ELSE WrapperOffers(s)
                \o IF Wrappers(s) # <<>> THEN <<>>
                   ELSE ShortcutOffers(s)
                          \o IF Shortcuts(s) # <<>> THEN <<>> ELSE Direct(s, dirs)

OverloadsOf(s, depth) ==
    {k \in {"FieldMemberUses", "Uses"} :
        \/ k = "FieldMemberUses" /\ TooManyMemberUses(s, depth)
        \/ k = "Uses" /\ Mode({"uses"}) /\ ReachesUses(s) /\ UsesRead(s) # db.uses[s]}
-----------------------------------------------------------------------------
(* One visit *)

\* g is what a visit changes: [nodes, edges, considered, queue].
\* Mutant: a symbol that was considered gets no more edges.
TakeNew(g, o, depth) ==
    LET looked == Ensure(g.nodes, o.to, depth + 1)
        new == o.to \notin g.considered
    IN  [nodes |-> looked,
         edges |-> IF new
                   THEN g.edges \cup {<<IdIn(looked, e[1]), IdIn(looked, e[2])>> : e \in o.edges}
                   ELSE g.edges,
         considered |-> IF new /\ ~o.leaf THEN g.considered \cup {o.to} ELSE g.considered,
         queue |-> IF new /\ ~o.leaf /\ depth + 1 < query.maxDepth
                   THEN Append(g.queue, [sym |-> o.to, depth |-> depth + 1, dirs |-> o.dirs])
                   ELSE g.queue]

Take(g, o, depth) ==
    LET looked == Ensure(g.nodes, o.to, depth + 1)
        new == o.to \notin g.considered
        drawn == ~o.fresh \/ new
    IN  [nodes |-> looked,
         edges |-> IF drawn THEN g.edges \cup {<<IdIn(looked, e[1]), IdIn(looked, e[2])>> : e \in o.edges}
                   ELSE g.edges,
         considered |-> IF new /\ ~o.leaf /\ (o.fresh \/ depth + 1 < query.maxDepth)
                        THEN g.considered \cup {o.to} ELSE g.considered,
         queue |-> IF new /\ ~o.leaf /\ depth + 1 < query.maxDepth
                   THEN Append(g.queue, [sym |-> o.to, depth |-> depth + 1, dirs |-> o.dirs])
                   ELSE g.queue]

TakeAll(start, offers, depth) == FoldLeft(LAMBDA g, o : Take(g, o, depth), start, offers)

NodeLimit == IF query.between THEN query.betweenLimit ELSE query.nodeLimit

\* The next symbol of the queue is visited.
Visit ==
    /\ phase = "traverse" /\ queue # <<>>
    /\ Len(nodes) < NodeLimit
    /\ LET v == Head(queue)
           start == [nodes |-> Ensure(nodes, v.sym, v.depth), edges |-> edges,
                     considered |-> considered, queue |-> Tail(queue)]
           stops == Stops(v.sym, v.depth)
           offers == IF stops THEN <<>> ELSE Offers(v.sym, v.depth, v.dirs)
           end == TakeAll(start, offers, v.depth)
       IN  /\ nodes' = end.nodes
           /\ edges' = end.edges
           /\ considered' = end.considered
           /\ queue' = end.queue
           /\ overloads' = overloads \cup (IF stops THEN {} ELSE OverloadsOf(v.sym, v.depth))
    /\ UNCHANGED <<db, query, phase, pathNodes, pathEdges>>

\* The graph is large enough: the symbols still queued are given up.
HitNodeLimit ==
    /\ phase = "traverse" /\ queue # <<>>
    /\ Len(nodes) >= NodeLimit
    /\ queue' = <<>>
    /\ overloads' = overloads \cup {"NodeLimit"}
    /\ UNCHANGED <<db, query, phase, nodes, edges, considered, pathNodes, pathEdges>>

Traversed ==
    /\ phase = "traverse" /\ queue = <<>>
    /\ phase' = IF query.between THEN "paths" ELSE "done"
    /\ UNCHANGED <<db, query, nodes, edges, considered, queue, overloads, pathNodes, pathEdges>>
-----------------------------------------------------------------------------
(* The paths between sources and targets (propagate_paths) *)

IsSource(root) == root.flags = {} \/ "Source" \in root.flags
IsTarget(root) == root.flags = {} \/ "Target" \in root.flags

\* Roots are added first, so a root's position among the roots is its node.
Sources == {i \in DOMAIN query.roots : IsSource(query.roots[i])}
Targets == {i \in DOMAIN query.roots : IsTarget(query.roots[i])}

\* petgraph's all_simple_paths between the two supernodes: at most `limit`
\* nodes lie between them.
SimplePaths(es, from, to, limit) ==
    LET grow[n \in 1 .. limit] ==
          IF n = 1 THEN {<<i>> : i \in from}
          ELSE LET shorter == {p \in grow[n - 1] : Len(p) = n - 1}
               IN  grow[n - 1] \cup
                     UNION {{Append(p, e[2]) : e \in {x \in es : x[1] = p[n - 1]
                                                         /\ x[2] \notin ToSet(p)}} : p \in shorter}
    IN  {p \in grow[limit] : Last(p) \in to}

StepsOf(p) == {<<p[k], p[k + 1]>> : k \in 1 .. Len(p) - 1}

SymPair(e) == <<nodes[e[1]].sym, nodes[e[2]].sym>>

Candidates == SimplePaths(edges, Sources, Targets, query.maxDepth)

\* One more path is copied, unless the new graph is large enough already.
CopyPath ==
    /\ phase = "paths" /\ Cardinality(pathNodes) < query.nodeLimit
    /\ \E p \in Candidates :
          LET new == {SymPair(e) : e \in StepsOf(p)}
          IN  /\ new \ pathEdges # {}
              /\ pathEdges' = pathEdges \cup new
              /\ pathNodes' = pathNodes \cup UNION {{e[1], e[2]} : e \in new}
    /\ UNCHANGED <<db, query, phase, nodes, edges, considered, queue, overloads>>

PathsCopied ==
    /\ phase = "paths"
    /\ \/ Cardinality(pathNodes) >= query.nodeLimit
       \/ \A p \in Candidates :
             {SymPair(e) : e \in StepsOf(p)} \subseteq pathEdges
    /\ phase' = "done"
    /\ overloads' = IF Cardinality(pathNodes) >= query.nodeLimit
                    THEN overloads \cup {"NodeLimit"} ELSE overloads
    /\ UNCHANGED <<db, query, nodes, edges, considered, queue, pathNodes, pathEdges>>
-----------------------------------------------------------------------------
RootQueue(roots) ==
    LET targets == Where(roots, IsTarget)
    IN  [i \in DOMAIN targets |-> [sym |-> targets[i].sym, depth |-> 0, dirs |-> Both]]

\* The relations of a database are lists of symbols it knows, and so are the
\* roots of a query.
Slots == [sym : Symbols, kind : STRING, lang : STRING]

DatabaseTyped(x) ==
    /\ \A r \in {x.callees, x.overrides, x.overriddenBy} : r \in [Symbols -> Seq(Symbols)]
    /\ x.uses \in [Symbols -> Seq(Seq(Symbols))]
    /\ \A r \in {x.owner, x.slots} : r \in [Symbols -> Seq(Slots)]
    /\ x.ontology \in [Symbols -> Seq([kind : STRING, syms : Seq(Symbols)])]

QueryTyped(q) == q.roots \in Seq([sym : Symbols, flags : SUBSET {"Source", "Target"}])

\* The command is called with the roots and the arguments q on the database x.
TraverseInit(x, q) ==
    /\ db = x /\ DatabaseTyped(db)
    /\ query = q /\ QueryTyped(query)
    /\ phase = "traverse"
    /\ nodes = [i \in DOMAIN query.roots |-> [sym |-> query.roots[i].sym, depth |-> 0]]
    /\ edges = {}
    /\ considered = {r.sym : r \in ToSet(query.roots)}
    /\ queue = RootQueue(query.roots)
    /\ overloads = {}
    /\ pathNodes = {}
    /\ pathEdges = {}

TraverseNext == Visit \/ HitNodeLimit \/ Traversed \/ CopyPath \/ PathsCopied

\* Any query of any database.
TraverseSpec == TraverseInit(db, query) /\ [][TraverseNext]_traverseVars
-----------------------------------------------------------------------------
(* What a diagram promises *)

SymEdges == {SymPair(e) : e \in edges}

Done == phase = "done" /\ overloads = {}

\* The end of an edge that the traversal comes from, and the one it looks at.
Pivot(e) == IF Mode({"uses"}) THEN e[2] ELSE e[1]
Other(e) == IF Mode({"uses"}) THEN e[1] ELSE e[2]

\* The control flow the database knows, from either end and whichever way it is
\* walked: a caller to its callee, a method to what overrides it, the sender of
\* a message to its receiver, a wrapper to the implementation in the other
\* language, and a runnable's constructor to its run method.  Only functions
\* are followed, from whatever is asked about.
Calls == {e \in Symbols \X Symbols :
            /\ Other(e) \in db.callable
            /\ \/ e[2] \in ToSet(db.callees[e[1]])
               \/ \E hits \in ToSet(db.uses[e[2]]) : e[1] \in ToSet(hits)}

Overriding == {e \in Symbols \X Symbols :
                 e[1] \in ToSet(db.overrides[e[2]]) \/ e[2] \in ToSet(db.overriddenBy[e[1]])}

\* That s fills a slot of the owner o.
Fills(s, o, kind) ==
    \/ \E slot \in ToSet(db.owner[s]) : slot.sym = o /\ slot.kind = kind
    \/ \E slot \in ToSet(db.slots[o]) : slot.sym = s /\ slot.kind = kind

\* Nothing flows through what merely supports a binding, and what flows through
\* an end of a message goes to its other end.
Implements(slot) == slot.kind \notin {"EnablingPref", "EnablingFunc", "Const", "Send", "Recv"}

\* A wrapper's owner is what it wraps; the owner of a method of an IDL is the
\* interface through which it is called.
Crossings ==
    {e \in Symbols \X Symbols :
        \/ \E o \in Symbols : Fills(e[1], o, "Send") /\ Fills(e[2], o, "Recv")
        \/ \E slot \in ToSet(db.owner[e[1]]) :
              slot.sym = e[2] /\ slot.lang # "Idl" /\ slot.kind # "Class" /\ Implements(slot)
        \/ \E slot \in ToSet(db.slots[e[2]]) :
              slot.sym = e[1] /\ slot.lang # "Idl" /\ slot.kind # "Class"
        \/ \E slot \in ToSet(db.owner[e[2]]) :
              slot.sym = e[1] /\ slot.lang = "Idl" /\ Implements(slot)
        \/ \E o \in ToSet(db.ontology[e[1]]) : o.kind = "RunnableMethod" /\ e[2] \in ToSet(o.syms)
        \/ \E o \in ToSet(db.ontology[e[2]]) : o.kind = "RunnableConstructor" /\ e[1] \in ToSet(o.syms)}

\* Every edge of a call diagram points the way control flows, whether the
\* traversal walked down (callees) or up (uses), and through whatever slot.
EdgesFollowControl ==
    Mode({"uses", "callees"}) => SymEdges \subseteq Calls \cup Overriding \cup Crossings

\* The symbols whose relations a traversal that meets no limit must show.
RootsNamed(Is(_)) == {r.sym : r \in {x \in ToSet(query.roots) : Is(x)}}

MustExpand ==
    LET from == RootsNamed(IsTarget)
        roots == RootsNamed(LAMBDA r : TRUE)
        flow == Calls \cup Overriding \cup Crossings
        Closed(s) == s \in db.stop /\ s \notin roots
        level[d \in 0 .. query.maxDepth - 1] ==
           IF d = 0 THEN from
           ELSE level[d - 1] \cup
                ({Other(e) : e \in {x \in flow : Pivot(x) \in level[d - 1] /\ ~Closed(Pivot(x))}}
                   \ (roots \cup query.ignore))
    IN  {s \in level[query.maxDepth - 1] : ~Closed(s)}

\* A call diagram that reports no limit shows every call to or from a symbol
\* within the depth, and no other call: neither the order in which the queue is
\* worked off nor a cycle hides one.
NeighbourhoodExact ==
    (Done /\ Mode({"uses", "callees"}) /\ Crossings = {}) =>
        SymEdges \cap Calls = {e \in Calls : /\ Pivot(e) \in MustExpand
                                             /\ Other(e) \notin query.ignore}

\* "Paths between" that reports no limit shows the calls on all simple paths
\* from a source to a target of at most maxDepth symbols, and no others.  A path
\* through another source is lost: a symbol that is only a source is never
\* visited.
PathsExact ==
    (Done /\ query.between /\ Crossings = {} /\ Overriding = {} /\ query.ignore = {}) =>
        LET sources == RootsNamed(IsSource)
            targets == RootsNamed(IsTarget)
            all == SimplePaths(Calls, sources, targets, query.maxDepth)
            kept == {p \in all : \A k \in 2 .. Len(p) : p[k] \in sources => p[k] \in targets}
        IN  pathEdges = UNION {StepsOf(p) : p \in kept}

\* An inheritance diagram of one class shows its ancestors and its descendants
\* and never a cousin: a walk that went up does not come down again.
Kin == LET up[n \in 0 .. Cardinality(Symbols)] ==
             IF n = 0 THEN {<<s, s>> : s \in Symbols}
             ELSE up[n - 1] \cup {e \in Symbols \X Symbols :
                                    \E m \in Symbols : /\ <<e[1], m>> \in up[n - 1]
                                                       /\ e[2] \in ToSet(db.supers[m])}
       IN  up[Cardinality(Symbols)]

UpOrDown ==
    (Mode({"inheritance"}) /\ Len(query.roots) = 1) =>
        \A i \in DOMAIN nodes :
            \/ <<query.roots[1].sym, nodes[i].sym>> \in Kin
            \/ <<nodes[i].sym, query.roots[1].sym>> \in Kin

\* What a diagram selects from the index: all that belongs to it, and no more.
SelectionExact == NeighbourhoodExact /\ PathsExact /\ UpOrDown
=============================================================================
