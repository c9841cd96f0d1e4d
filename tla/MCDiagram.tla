----------------------------- MODULE MCDiagram ------------------------------
(* The two displays that the query pipeline makes of symbols: diagrams and   *)
(* field layouts.                                                            *)
(*                                                                           *)
(* Databases, names and queries for diagrams: every relation of a database   *)
(* and its inverse are derived from one graph, as the crossref process       *)
(* derives them.                                                             *)
(*                                                                           *)
(* Classes for field layouts: each platform's compiler lays them out by the  *)
(* rules of C++, and merge-analyses merges what it found.                    *)
EXTENDS Hierarchy, FieldLayout

CONSTANTS a, b, c, d, k, n

MCSymbols == {a, b, c, d}

Pairs(S) == {e \in S \X S : e[1] # e[2]}

From(r, s) == SetToSeq({e[2] : e \in {x \in r : x[1] = s}})
Into(r, s) == SetToSeq({e[1] : e \in {x \in r : x[2] = s}})

None == [s \in MCSymbols |-> <<>>]

EmptyDb == [uses |-> None, callees |-> None, subclasses |-> None, supers |-> None,
            overrides |-> None, overriddenBy |-> None, fields |-> None, memberUses |-> None,
            owner |-> None, slots |-> None, ontology |-> None,
            callable |-> MCSymbols, stop |-> {}, elided |-> {}]

\* Each caller is in a file of its own.
CallsDb(calls, over) ==
    [EmptyDb EXCEPT
       !.callees = [s \in MCSymbols |-> From(calls, s)],
       !.uses = [s \in MCSymbols |-> LET us == Into(calls, s) IN [i \in DOMAIN us |-> <<us[i]>>]],
       !.overriddenBy = [s \in MCSymbols |-> From(over, s)],
       !.overrides = [s \in MCSymbols |-> Into(over, s)]]

Query(edge, roots, depth) ==
    [edge |-> edge, roots |-> roots, maxDepth |-> depth, between |-> FALSE,
     nodeLimit |-> 16, betweenLimit |-> 16, useLimit |-> 16,
     fmuDepth |-> -1, fmuLimit |-> 16, ignore |-> {}]

Root(s, flags) == [sym |-> s, flags |-> flags]

\* Call diagrams of one symbol: every call graph of three symbols, with at most
\* one override, symbols that are no functions, a label that stops, an ignored
\* symbol, and limits so low that they bite.
CallRuns ==
    \E calls \in SUBSET (Pairs({a, b, c}) \cup {<<b, b>>}),
       over \in {{}} \cup {{e} : e \in Pairs({a, b, c})},
       edge \in {"uses", "callees"},
       x \in {[data |-> {}, stop |-> {}, ignore |-> {}, nodes |-> 16, uses |-> 16, depth |-> 2],
              [data |-> {}, stop |-> {}, ignore |-> {}, nodes |-> 16, uses |-> 16, depth |-> 3],
              [data |-> {c}, stop |-> {b}, ignore |-> {}, nodes |-> 2, uses |-> 2, depth |-> 3],
              [data |-> {a, c}, stop |-> {}, ignore |-> {}, nodes |-> 16, uses |-> 16, depth |-> 3],
              [data |-> {}, stop |-> {b}, ignore |-> {c}, nodes |-> 16, uses |-> 2, depth |-> 3]} :
       TraverseInit([CallsDb(calls, over) EXCEPT !.callable = MCSymbols \ x.data, !.stop = x.stop],
                    [Query(edge, <<Root(a, {})>>, x.depth) EXCEPT
                       !.ignore = x.ignore, !.nodeLimit = x.nodes, !.useLimit = x.uses])

\* Paths between two sources and a target, or between all pairs of roots: call
\* graphs of four symbols.
PathRuns ==
    \E calls \in SUBSET (Pairs(MCSymbols) \ {<<d, a>>, <<c, a>>, <<d, c>>, <<d, b>>}),
       roots \in {<<Root(a, {"Source"}), Root(b, {"Source"}), Root(d, {"Target"})>>,
                  <<Root(a, {}), Root(d, {})>>},
       x \in {[depth |-> 2, limit |-> 16], [depth |-> 4, limit |-> 16], [depth |-> 3, limit |-> 3]} :
       TraverseInit(CallsDb(calls, {}),
                    [Query("uses", roots, x.depth) EXCEPT !.between = TRUE, !.nodeLimit = x.limit])

\* Class hierarchies of four classes.
ClassRuns ==
    \E inh \in SUBSET {<<a, b>>, <<a, c>>, <<b, d>>, <<c, d>>, <<a, d>>, <<b, c>>},
       r \in MCSymbols, edge \in {"inheritance", "class"},
       x \in {[depth |-> 2, elided |-> {}, fmus |-> 16], [depth |-> 3, elided |-> {a}, fmus |-> 1]} :
       TraverseInit([EmptyDb EXCEPT
                       !.subclasses = [s \in MCSymbols |-> From(inh, s)],
                       !.supers = [s \in MCSymbols |-> Into(inh, s)],
                       !.elided = x.elided,
                       !.fields = [None EXCEPT ![b] = <<[sym |-> c, labelled |-> FALSE, ptrs |-> <<d>>]>>],
                       !.memberUses = [None EXCEPT ![d] = <<b>>]],
                    [Query(edge, <<Root(r, {})>>, x.depth) EXCEPT !.fmuDepth = 1, !.fmuLimit = x.fmus])

\* Bindings: a sender and a receiver of one message; a wrapper in another
\* language; an interface method; a runnable.
Bind(sym, kind, lang) == [sym |-> sym, kind |-> kind, lang |-> lang]

Bindings(calls) ==
    LET base == CallsDb(calls, {})
    IN  {[base EXCEPT !.owner = [None EXCEPT ![a] = <<Bind(c, "Send", "Idl")>>,
                                             ![b] = <<Bind(c, "Recv", "Idl")>>],
                      !.slots = [None EXCEPT ![c] = <<Bind(a, "Send", "Idl"), Bind(b, "Recv", "Idl")>>]],
         [base EXCEPT !.owner = [None EXCEPT ![a] = <<Bind(b, "Method", "Jvm")>>],
                      !.slots = [None EXCEPT ![b] = <<Bind(a, "Method", "Jvm")>>]],
         [base EXCEPT !.owner = [None EXCEPT ![b] = <<Bind(a, "Method", "Idl")>>],
                      !.slots = [None EXCEPT ![a] = <<Bind(b, "Method", "Idl")>>]],
         [base EXCEPT !.owner = [None EXCEPT ![b] = <<Bind(a, "EnablingPref", "Idl")>>],
                      !.slots = [None EXCEPT ![a] = <<Bind(b, "EnablingPref", "Idl")>>]],
         [base EXCEPT !.ontology = [None EXCEPT
              ![a] = <<[kind |-> "RunnableMethod", syms |-> <<b>>]>>,
              ![b] = <<[kind |-> "RunnableConstructor", syms |-> <<a>>]>>]]}

BindingRuns ==
    \E calls \in SUBSET (Pairs({a, b, d})), edge \in {"uses", "callees"}, r \in {a, b} :
       \E x \in Bindings(calls) : TraverseInit(x, Query(edge, <<Root(r, {})>>, 3))

\* Ways the four symbols are named: methods of a class in a namespace; a
\* function in a function, in namespaces; classes in classes and in methods.
\* k and n are symbols around them.
MCAllSymbols == MCSymbols \cup {k, n}

Named(pretty, kinds) ==
    [pretty |-> pretty,
     kind |-> [s \in MCAllSymbols |-> IF s \in kinds THEN "class"
                                      ELSE IF s = n THEN "namespace" ELSE "function"],
     subsystem |-> [s \in MCAllSymbols |-> IF s \in {a, b} THEN <<"dom">> ELSE <<"js", "jit">>],
     path |-> [s \in MCAllSymbols |-> IF s = d THEN <<"js", "d.cpp">> ELSE <<"dom", "x.cpp">>],
     found |-> MCAllSymbols,
     grouping |-> "flat"]

Pretty(pa, pb, pc, pd, pk) ==
    [s \in MCAllSymbols |-> CASE s = a -> pa [] s = b -> pb [] s = c -> pc
                              [] s = d -> pd [] s = k -> pk [] s = n -> <<"n">>]

MCNames ==
    {Named(Pretty(<<"n", "K", "a">>, <<"n", "K", "b">>, <<"n", "f">>, <<"g">>, <<"n", "K">>), {k}),
     [Named(Pretty(<<"m", "a">>, <<"n", "b">>, <<"n", "b", "c">>, <<"d">>, <<"k">>), {}) EXCEPT !.found = {n}],
     Named(Pretty(<<"K", "a">>, <<"K", "a", "B">>, <<"K", "a", "B", "c">>, <<"K", "D">>, <<"K">>), {k, b, d})}

DrawnCalls == {<<a, b>>, <<b, a>>, <<b, c>>, <<a, c>>, <<a, d>>}

\* Call diagrams that are laid out, under every grouping; d calls itself.
DrawnRuns ==
    \E calls \in SUBSET DrawnCalls, x \in MCNames,
       grouping \in {"flatbadges", "pretty", "subsystem", "file", "dir"}, between \in BOOLEAN :
       /\ between => grouping \in {"pretty", "dir"}
       /\ TraverseInit(CallsDb(calls \cup {<<d, d>>}, {}),
                       [Query("callees", <<Root(a, {}), Root(d, {})>>, 3) EXCEPT !.between = between])
       /\ names = [x EXCEPT !.grouping = grouping]

-----------------------------------------------------------------------------
(* Classes *)

MCPlatforms == <<"android-armv7", "linux64", "win64">>

MCOrder == [p \in ToSet(MCPlatforms) \cup {AllPlatforms} |->
               CASE p = "win64" -> 0 [] p = "linux64" -> 5 [] p = "android-armv7" -> 7 [] OTHER -> 12]

PointerSize(i) == IF MCPlatforms[i] = "android-armv7" THEN 4 ELSE 8

SizeOf(type, i) == CASE type = "char" -> 1 [] type = "int" -> 4 [] type = "ptr" -> PointerSize(i)
                     [] type = "b3" -> 3 [] type = "b7" -> 7

IsBits(type) == type \in {"b3", "b7"}

Up(x, m) == ((x + m - 1) \div m) * m

\* The members of a class behind `start` bytes: an int holds the bits.
AddMember(acc, m, i) ==
    LET w    == SizeOf(m.type, i)
        bit  == IF (acc.pos % 32) + w > 32 THEN Up(acc.pos, 32) ELSE acc.pos
        at   == Up(acc.pos, 8 * w) \div 8
    IN  IF IsBits(m.type)
        THEN [fields |-> Append(acc.fields, [sym |-> m.sym, offset |-> bit \div 8, bits |-> <<bit % 8, w>>,
                                             size |-> 0, line |-> m.line]),
              pos |-> bit + w, align |-> IF acc.align < 4 THEN 4 ELSE acc.align]
        ELSE [fields |-> Append(acc.fields, [sym |-> m.sym, offset |-> at, bits |-> <<>>, size |-> w, line |-> m.line]),
              pos |-> 8 * (at + w), align |-> IF acc.align < w THEN w ELSE acc.align]

\* An empty base takes no room.
AddBase(acc, sym, data, withLayout) ==
    LET empty == data.fields = <<>> /\ data.supers = <<>> /\ data.vptr = 0
        at    == IF empty THEN 0 ELSE Up(acc.pos, data.align)
    IN  [supers |-> Append(acc.supers, [sym |-> sym, offset |-> at, layout |-> IF withLayout THEN <<data>> ELSE <<>>]),
         pos |-> IF empty THEN acc.pos ELSE at + data.size,
         align |-> IF data.align > acc.align THEN data.align ELSE acc.align]

\* A class declaration is [bases, members, virtual]: what it has on platform i
\* are the bases and members that are declared there.
RECURSIVE Polymorphic(_, _, _), CxxLayout(_, _, _, _)
Polymorphic(decl, sym, i) ==
    decl[sym].virtual \/ \E x \in ToSet(decl[sym].bases) : i \in x.on /\ Polymorphic(decl, x.sym, i)

CxxLayout(decl, sym, i, withLayout) ==
    LET bs    == SelectSeq(decl[sym].bases, LAMBDA x : i \in x.on)
        ms    == SelectSeq(decl[sym].members, LAMBDA x : i \in x.on)
        vptr  == IF decl[sym].virtual /\ ~\E x \in ToSet(bs) : Polymorphic(decl, x.sym, i) THEN PointerSize(i) ELSE 0
        based == FoldLeft(LAMBDA acc, x : AddBase(acc, x.sym, CxxLayout(decl, x.sym, i, withLayout), withLayout),
                          [supers |-> <<>>, pos |-> vptr, align |-> IF vptr = 0 THEN 1 ELSE vptr], bs)
        full  == FoldLeft(LAMBDA acc, m : AddMember(acc, m, i),
                          [fields |-> <<>>, pos |-> 8 * based.pos, align |-> based.align], ms)
        bytes == Up(full.pos, 8) \div 8
    IN  [struct |-> TRUE, size |-> Up(IF bytes = 0 THEN 1 ELSE bytes, full.align), align |-> full.align,
         vptr |-> vptr, supers |-> based.supers, fields |-> full.fields]

\* With a template among the bases the class carries their layouts, and the
\* bases have no records.
ClassFile(decl, syms, i, template) ==
    LET ss == IF template THEN SelectSeq(syms, LAMBDA s : s = a) ELSE syms
    IN  [j \in DOMAIN ss |-> [tag |-> "structured", sym |-> ss[j], data |-> CxxLayout(decl, ss[j], i, template)]]

Everywhere == DOMAIN MCPlatforms

Base(sym) == [sym |-> sym, on |-> Everywhere]

MemberNames == [s \in {a, b, c, d} |-> CASE s = a -> <<"a1", "a2">> [] s = b -> <<"b1", "b2">>
                                         [] s = c -> <<"c1", "c2">> [] s = d -> <<"d1", "d2">>]

Class(sym, bases, types, virtual) ==
    [bases |-> bases, virtual |-> virtual,
     members |-> [j \in DOMAIN types |-> [sym |-> MemberNames[sym][j], type |-> types[j], line |-> j, on |-> Everywhere]]]

OnlyOn(class, is) == [class EXCEPT !.members = [j \in DOMAIN @ |-> IF j = Len(@) THEN [@[j] EXCEPT !.on = is] ELSE @[j]]]

\* The bases of a class a, of b and of c, and the platforms that have a.
Hierarchies == {<< <<Base(b)>>, <<Base(d)>>, <<>>, Everywhere >>, << <<Base(b)>>, <<Base(d)>>, <<>>, {1, 2} >>,
                << <<Base(b), Base(c)>>, <<Base(d)>>, <<>>, Everywhere >>,
                << <<Base(b), Base(c)>>, <<Base(d)>>, <<Base(d)>>, Everywhere >>,
                << <<>>, <<>>, <<>>, Everywhere >>,
                << <<[sym |-> b, on |-> {1, 2}], [sym |-> c, on |-> {3}]>>, <<Base(d)>>, <<>>, Everywhere >>,
                << <<[sym |-> b, on |-> {1}], [sym |-> c, on |-> {2}]>>, <<Base(d)>>, <<>>, {1, 2} >>}

ClassChoices ==
    \E h \in Hierarchies, ta \in {<<>>, <<"char">>, <<"char", "ptr">>, <<"b3", "b7">>, <<"b7", "char">>},
       tbd \in {<<<<"int">>, <<"ptr">>>>, <<<<"ptr", "char">>, <<"int", "char">>>>}, tc \in {<<>>, <<"char">>},
       virtual \in {{}, {a}, {b}}, only \in {"none", "a", "d"}, template \in BOOLEAN :
       /\ template => only # "d"
       /\ LET Only(class, is, yes) == IF yes /\ class.members # <<>> THEN OnlyOn(class, is) ELSE class
              decl == [s \in {a, b, c, d} |->
                          CASE s = a -> Only(Class(a, h[1], ta, a \in virtual), {3}, only = "a")
                            [] s = b -> Class(b, h[2], tbd[1], b \in virtual)
                            [] s = c -> Class(c, h[3], tc, FALSE)
                            [] s = d -> Only(Class(d, <<>>, tbd[2], FALSE), {1, 3}, only = "d")]
              bases == (IF h[1] = <<>> THEN <<>> ELSE <<b, d>>) \o (IF Len(h[1]) = 2 THEN <<c>> ELSE <<>>)
          IN  MergeInit([i \in DOMAIN MCPlatforms |->
                            ClassFile(decl, (IF i \in h[4] THEN <<a>> ELSE <<>>) \o bases, i, template)])

\* Source records at one place, of one or two names, on two platforms.
Source(pretty, syms, confidence, extra) ==
    [tag |-> "source", loc |-> 1, pretty |-> pretty, noCrossref |-> extra.plain, syntax |-> {"use"}, syms |-> syms,
     confidence |-> confidence, range |-> <<0, 0>>, type |-> <<>>, kind |-> extra.kind, expansions |-> extra.to]

Extras == {[plain |-> FALSE, kind |-> "", to |-> NoSymbols],
           [plain |-> TRUE, kind |-> "ExpandsTo", to |-> (<<k, "">> :> <<1>>)],
           [plain |-> FALSE, kind |-> "ExpandsTo", to |-> (<<k, "">> :> <<2>>)],
           [plain |-> FALSE, kind |-> "InExpansionAt", to |-> (<<k, "">> :> <<3>>)]}

SourceRecords ==
    {Source(pretty, sc[1], sc[2], extra) :
        pretty \in {1, 2}, extra \in Extras,
        sc \in {<<<<a>>, <<>>>>, <<<<b, a>>, <<<<Concrete, Heuristic>>>>>>,
                <<<<a, c>>, <<<<Heuristic, Concrete>>>>>>}}

SourceChoices ==
    \E r, s \in SourceRecords : \E t \in {x \in SourceRecords : x.kind \in {"", r.kind} /\ x.pretty = 1 /\ x.syms = <<a>>} :
       MergeInit(<<<<r, t>>, <<[tag |-> "target", loc |-> 1, data |-> a], s>>,
                   <<[tag |-> "target", loc |-> 1, data |-> a]>>>>)

MergeIdle ==
    /\ files = <<>> /\ mergePhase = "idle" /\ place = <<1, 1>>
    /\ targets = <<>> /\ sources = <<>> /\ written = <<>>
    /\ variants = NoSymbols /\ structured = NoSymbols

NoDiagram ==
    /\ db = EmptyDb /\ query = Query("uses", <<>>, 0) /\ phase = "idle"
    /\ nodes = <<>> /\ edges = {} /\ considered = {} /\ queue = <<>>
    /\ overloads = {} /\ pathNodes = {} /\ pathEdges = {}
    /\ names = CHOOSE x \in MCNames : x.grouping = "flat"
    /\ HierarchyIdle

MCInit ==
    \/ /\ \/ /\ CallRuns \/ PathRuns \/ ClassRuns \/ BindingRuns
             /\ names = CHOOSE x \in MCNames : TRUE
          \/ DrawnRuns
       /\ stage = "idle"
       /\ HierarchyIdle
       /\ MergeIdle /\ LayoutIdle /\ root = a
    \/ /\ ClassChoices \/ SourceChoices
       /\ LayoutIdle /\ root = a
       /\ NoDiagram

MCNext == \/ DiagramNext /\ UNCHANGED <<mergeVars, layoutVars>>
          \/ MergeNext /\ UNCHANGED <<diagramVars, layoutVars>>
          \/ LayoutNext /\ UNCHANGED <<diagramVars, mergeVars>>

MCSpec == MCInit /\ [][MCNext]_<<diagramVars, mergeVars, layoutVars>>
=============================================================================
