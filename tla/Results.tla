------------------------------ MODULE Results ------------------------------
(* The `compile-results` junction (cmd_compile_results.rs), which merges what *)
(* the searches for files, symbols and text found into one list by kind of    *)
(* path, kind of hit and file, and the `augment-results` command               *)
(* (cmd_augment_results.rs, interface.rs), which shows each hit with the lines *)
(* around it.                                                                  *)
EXTENDS Integers, SequencesExt

CONSTANTS
    PathKindOf,      \* a path -> its kind
    Dirs,            \* a path -> the directories that lead to it
    LineCount        \* a path -> its number of lines

VARIABLES
    incoming,        \* what is still to be ingested: files, symbols and text matches
    prettyOf,        \* sym_to_pretty
    hits,            \* path_kind_groups: [pathKind, kind, quality, pretty] -> path -> spans
    facets,          \* path_facet and relation_facet: descriptor -> [paths, relations]
    fileNames,       \* file_names: path kind -> paths
    suppressed,      \* path_line_suppressions
    stage            \* "ingesting", "compiled", "augmented", or "error"

resultVars == <<incoming, prettyOf, hits, facets, fileNames, suppressed, stage>>

ClassRelations == {"SubclassOf", "SuperclassOf", "CousinClassOf"}

HitKinds == {"idl", "idlp", "defs", "decls", "assignments", "uses"}

Get(f, k, default) == IF k \in DOMAIN f THEN f[k] ELSE default

Span(line, lo, hi) == [key |-> line, lo |-> lo, hi |-> hi, shown |-> {line}]

\* rfind('/') drops the file, and then the last directory goes as well.
Pieces(path) == IF Dirs[path] = <<>> THEN <<>> ELSE Front(Dirs[path])

NoFacets == [paths |-> <<>>, relations |-> <<>>]

ResultsStart(values) ==
    /\ incoming' = values
    /\ prettyOf' = <<>> /\ hits' = <<>> /\ facets' = <<>> /\ fileNames' = <<>>
    /\ suppressed' = {}
    /\ stage' = "ingesting"

Ingesting(type) == stage = "ingesting" /\ incoming # <<>> /\ Head(incoming).type = type

IngestFiles ==
    /\ Ingesting("file")
    /\ LET k == PathKindOf[Head(incoming).path]
       IN  fileNames' = (k :> Append(Get(fileNames, k, <<>>), Head(incoming).path)) @@ fileNames
    /\ incoming' = Tail(incoming)
    /\ UNCHANGED <<prettyOf, hits, facets, suppressed, stage>>

\* One path of a symbol: c is [kind, path, lines], where a line is [line, lo, hi].
PathHits(g, info, pretty, c) ==
    LET desc == [pathKind |-> PathKindOf[c.path], kind |-> c.kind,
              quality |-> info.quality, pretty |-> pretty]
        byPath == Get(g.hits, desc, <<>>)
        spans == [i \in DOMAIN c.lines |-> Span(c.lines[i].line, c.lines[i].lo, c.lines[i].hi)]
        f == Get(g.facets, desc, NoFacets)
    IN  [hits |-> (desc :> ((c.path :> (Get(byPath, c.path, <<>>) \o spans)) @@ byPath)) @@ g.hits,
         facets |-> (desc :> [paths |-> Append(f.paths, [pieces |-> Pieces(c.path), value |-> Dirs[c.path]]),
                           relations |-> Append(f.relations, [pieces |-> <<info.label>>,
                                                              value |-> info.sym])]) @@ g.facets,
         suppressed |-> g.suppressed \cup {<<c.path, c.lines[i].line>> : i \in DOMAIN c.lines}]

\* A symbol is filed under the pretty name of the queried symbol it belongs to,
\* which has to have been ingested; relatives of classes contribute no lines.
IngestSymbol ==
    /\ Ingesting("symbol")
    /\ LET info == Head(incoming)
           known == (info.sym :> info.pretty) @@ prettyOf
           g == [hits |-> hits, facets |-> facets, suppressed |-> suppressed]
       IN  /\ prettyOf' = known
           /\ IF info.label \in ClassRelations
              THEN UNCHANGED <<hits, facets, suppressed, stage>>
              ELSE IF info.root \notin DOMAIN known
              THEN stage' = "error" /\ UNCHANGED <<hits, facets, suppressed>>
              ELSE LET end == FoldLeft(LAMBDA acc, c : PathHits(acc, info, known[info.root], c), g,
                                       SelectSeq(info.crossref, LAMBDA c : c.kind \in HitKinds))
                   IN  /\ hits' = end.hits
                       /\ facets' = end.facets
                       /\ suppressed' = end.suppressed
                       /\ UNCHANGED stage
    /\ incoming' = Tail(incoming)
    /\ UNCHANGED fileNames

TextDescriptor(path) ==
    [pathKind |-> PathKindOf[path], kind |-> "TextualOccurrences",
     quality |-> "ExplicitSymbol", pretty |-> ""]

\* The lines of a file that match a text, but for those that are shown already.
IngestText ==
    /\ Ingesting("text")
    /\ LET m == Head(incoming)
           desc == TextDescriptor(m.path)
           fresh == SelectSeq(m.lines, LAMBDA l : <<m.path, l>> \notin suppressed)
           byPath == Get(hits, desc, <<>>)
           spans == Get(byPath, m.path, <<>>)
                      \o [i \in DOMAIN fresh |-> Span(fresh[i], fresh[i], fresh[i])]
           f == Get(facets, desc, NoFacets)
       IN  /\ suppressed' = suppressed \cup {<<m.path, l>> : l \in ToSet(m.lines)}
           /\ IF spans = <<>>
              THEN /\ hits' = (desc :> byPath) @@ hits
                   /\ facets' = (desc :> f) @@ facets
              ELSE /\ hits' = (desc :> ((m.path :> spans) @@ byPath)) @@ hits
                   /\ facets' = (desc :> [f EXCEPT !.paths = Append(@, [pieces |-> Pieces(m.path),
                                                                     value |-> Dirs[m.path]])]) @@ facets
    /\ incoming' = Tail(incoming)
    /\ UNCHANGED <<prettyOf, fileNames, stage>>
-----------------------------------------------------------------------------
(* The spans of a file are sorted by their ranges; the limits on files and   *)
(* lines that the command takes are not applied.                              *)

RangeLeq(a, b) == a.lo < b.lo \/ (a.lo = b.lo /\ a.hi <= b.hi)

SortedSpans(spans) ==
    LET Insert(done, x) ==
          LET n == Cardinality({i \in DOMAIN done : RangeLeq(done[i], x)})
          IN  InsertAt(done, n + 1, x)
    IN  FoldLeft(Insert, <<>>, spans)

Compile ==
    /\ stage = "ingesting" /\ incoming = <<>>
    /\ hits' = [d \in DOMAIN hits |-> [p \in DOMAIN hits[d] |-> SortedSpans(hits[d][p])]]
    /\ stage' = "compiled"
    /\ UNCHANGED <<incoming, prettyOf, facets, fileNames, suppressed>>

\* The values of the groups of some names at a depth, and of all below them.
Flattened(items, names, depth) ==
    {x.value : x \in {y \in ToSet(items) : Len(y.pieces) > depth /\ y.pieces[depth + 1] \in names}}

\* How the items of a facet below a prefix of that many pieces are grouped: a
\* group is [values, nested, breadth].  Small groups are put into one other
\* group, or into their parent, and chains of sole groups into one.
RECURSIVE FacetGroup(_, _, _, _)
FacetGroup(items, depth, clump, other) ==
    LET Own == {items[i].value : i \in {j \in DOMAIN items : Len(items[j].pieces) <= depth}}
        deeper == SelectSeq(items, LAMBDA x : Len(x.pieces) > depth)
        names == {deeper[i].pieces[depth + 1] : i \in DOMAIN deeper}
        Below(n) == SelectSeq(deeper, LAMBDA x : x.pieces[depth + 1] = n)
        Sub(n) == FacetGroup(Below(n), depth + 1, clump, other)
        Flat(ns) == Flattened(items, ns, depth)
        big == {n \in names : Len(Below(n)) >= clump}
        small == names \ big
        wide == Cardinality(big) >= 2 \/ (big # {} /\ other)
        Leaf(values) == [values |-> values, nested |-> {}, breadth |-> 1]
        MaxOf(ns, least) == Max({least} \cup {Sub(n).breadth : n \in ns})
    IN  IF names = {} THEN Leaf(Own)
        ELSE IF Cardinality(names) = 1 THEN
             LET sole == Sub(CHOOSE n \in names : TRUE)
             IN  IF Own = {} THEN sole
                 ELSE IF sole.breadth > 1
                 THEN [values |-> Own, nested |-> {sole}, breadth |-> sole.breadth]
                 ELSE Leaf(Own \cup sole.values)
        ELSE IF ~wide THEN Leaf(Own \cup Flat(names))
        ELSE IF ~other \/ small = {}
        THEN [values |-> Own, nested |-> {Sub(n) : n \in names},
              breadth |-> MaxOf(names, Cardinality(names))]
        ELSE [values |-> Own, nested |-> {Sub(n) : n \in big} \cup {Leaf(Flat(small))},
              breadth |-> MaxOf(big, Cardinality(big) + 1)]

\* The groups of a facet, none where there is not enough variety.
FacetOf(items, clump, other) ==
    IF items = <<>> THEN {}
    ELSE LET g == FacetGroup(items, 0, clump, other)
         IN  IF g.breadth > 1 THEN g.nested ELSE {}

PathFacet(d) == FacetOf(facets[d].paths, 3, TRUE)

RelationFacet(d) == FacetOf(facets[d].relations, 0, FALSE)
-----------------------------------------------------------------------------
(* augment-results *)

\* expand_range_in_isolation
Reach(span, before, after) == [lo |-> Max({1, span.lo - before}), hi |-> span.hi + after]

\* The lines of all hits of a file are read from its page.  A line is kept when
\* the next one begins, so that the last line of the file never is.
Stored(p, before, after) ==
    LET Lines(s) == Reach(s, before, after).lo .. Reach(s, before, after).hi
        all == UNION {UNION {Lines(s) : s \in ToSet(hits[d][p])} : d \in {e \in DOMAIN hits : p \in DOMAIN hits[e]}}
    IN  all \cap 1 .. LineCount[p] - 1

\* A span takes lines of its own, after those of the one before it and up to
\* the next one.  Without lines the range's end wraps to one before its start.
WithContext(spans, stored, before, after) ==
    LET Give(acc, i) ==
          LET r == Reach(spans[i], before, after)
              lo == IF r.lo <= acc.highest THEN acc.highest + 1 ELSE r.lo
              hi == IF i < Len(spans) /\ r.hi >= spans[i + 1].lo THEN spans[i + 1].lo - 1 ELSE r.hi
              lines == lo .. hi \cap stored
          IN  [spans |-> Append(acc.spans, [key |-> spans[i].key, lo |-> lo,
                                            hi |-> lo + Cardinality(lines) - 1, shown |-> lines]),
               highest |-> hi]
    IN  FoldLeft(Give, [spans |-> <<>>, highest |-> 0], [i \in DOMAIN spans |-> i]).spans

Augment(before, after) ==
    /\ stage = "compiled"
    /\ hits' = [d \in DOMAIN hits |-> [p \in DOMAIN hits[d] |->
                    WithContext(hits[d][p], Stored(p, before, after), before, after)]]
    /\ stage' = "augmented"
    /\ UNCHANGED <<incoming, prettyOf, facets, fileNames, suppressed>>

ResultsNext ==
    \/ IngestFiles \/ IngestSymbol \/ IngestText
    \/ Compile
    \/ \E before, after \in 0 .. 1 : Augment(before, after)
-----------------------------------------------------------------------------
(* What a reader of the results can rely on *)

SpansOf(d, p) == ToSet(hits[d][p])

KeyLines(isText) ==
    UNION {UNION {{<<p, s.key>> : s \in SpansOf(d, p)} : p \in DOMAIN hits[d]} :
              d \in {e \in DOMAIN hits : (e.kind = "TextualOccurrences") = isText}}

\* Every line that was found is shown, and a line that is shown for a symbol is
\* not shown again for its text: this takes the order in which the inputs are
\* ingested, which nothing but the names of their groups decides.  No symbol
\* comes before the one it is filed under.
ShownOnce ==
    /\ stage # "error"
    /\ stage \in {"compiled", "augmented"} =>
          /\ KeyLines(TRUE) \cap KeyLines(FALSE) = {}
          /\ KeyLines(TRUE) \cup KeyLines(FALSE) = suppressed

\* The spans of a file never share a line and are in the order of the file,
\* and where no hit's range lies within another's, the line of each hit is in
\* the span of one of them; the last line of a file is never shown.
SpansApart ==
    stage = "augmented" =>
        \A d \in DOMAIN hits : \A p \in DOMAIN hits[d] :
            LET spans == hits[d][p]
            IN  /\ \A i, j \in DOMAIN spans : i < j => spans[i].hi < spans[j].lo
                /\ \A s \in ToSet(spans) :
                      /\ s.shown = s.lo .. s.hi
                      /\ s.key < LineCount[p] => \E t \in ToSet(spans) : s.key \in t.shown

RECURSIVE Everything(_)
Everything(g) == g.values \cup UNION {Everything(n) : n \in g.nested}

\* The groups of a path facet do not overlap, and every directory with a hit is
\* in one of them, but for the one that all hits have in common: the values of
\* the top group itself are not passed on.
FacetsPartition ==
    stage = "compiled" =>
        \A d \in DOMAIN hits :
            LET items == ToSet(facets[d].paths)
                covered == UNION {Everything(g) : g \in PathFacet(d)}
            IN  PathFacet(d) # {} =>
                  /\ \A g, h \in PathFacet(d) : g # h => Everything(g) \cap Everything(h) = {}
                  /\ covered \subseteq {x.value : x \in items}
                  /\ \A x \in items : x.value \notin covered =>
                        \A y \in items : IsPrefix(x.pieces, y.pieces)

\* What a query shows of what was found: everything, once, and in its place.
ResultsTrue == ShownOnce /\ SpansApart /\ FacetsPartition
=============================================================================
