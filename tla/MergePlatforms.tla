--------------------------- MODULE MergePlatforms ---------------------------
(* Merging the analysis files that the platforms made of one source file     *)
(* (merge-analyses: file_format/merger.rs and AnalysisSource::merge).        *)
(* Targets are passed on once; source records at one place with one name     *)
(* become one record; of a structured record that differs between platforms  *)
(* one variant is canonical and carries the others.                          *)
(*                                                                           *)
(* A record is [tag |-> "target", loc, data],                                *)
(*   [tag |-> "structured", sym, data], or a source                          *)
(*   [tag |-> "source", loc, pretty, noCrossref, syntax, syms, confidence,   *)
(*    range, type, kind, expansions]: places, names and points of a range    *)
(*   are numbers, in their order; `confidence` and `type` are empty or hold  *)
(*   one value; `expansions` maps <<key, platform>> to a sequence, where the *)
(*   platform "" is the file's own.                                          *)
EXTENDS Integers, SequencesExt

\* The platforms of the files, in the order of the file names: the shell's
\* wildcard gives them sorted.
CONSTANT Platforms

\* Of an expansion that is the file's own.
NoPlatform == ""

\* Of a source record that is neither of nor in a macro's expansion.
NoKind == ""

\* Each is named by the directory of its files.
ASSUME PlatformsAssumption ==
    /\ Platforms \in Seq(STRING \ {NoPlatform})
    /\ \A i, j \in DOMAIN Platforms : Platforms[i] = Platforms[j] => i = j

VARIABLES
    files,       \* the records of each platform's file, read-only
    mergePhase,  \* "idle", "read", "sources", "structured", "merged" or "panicked"
    place,       \* <<i_file, line>>
    targets,     \* targets written, in order
    sources,     \* source records read; then those still to be merged
    written,     \* source records written, the last of them still open
    variants,    \* structured_syms: symbol -> sequence of [data, platforms]
    structured   \* structured records written: symbol -> [data, platforms, variants]

mergeVars == <<files, mergePhase, place, targets, sources, written, variants, structured>>

Concrete  == "concrete"
Heuristic == "cppTemplateHeuristic"
-----------------------------------------------------------------------------
(* Reading, one file after the other *)

AtEnd == place[1] > Len(files)

CurrentFile == files[place[1]]

LineLeft == ~AtEnd /\ place[2] <= Len(CurrentFile)

Line == CurrentFile[place[2]]

\* A file that cannot be opened is skipped like an empty one.
NextFile ==
    /\ mergePhase = "read" /\ ~AtEnd /\ ~LineLeft
    /\ place' = <<place[1] + 1, 1>>
    /\ UNCHANGED <<files, mergePhase, targets, sources, written, variants, structured>>

\* Expansions without a platform are the file's: they take its name, over
\* others of that name.
OwnExpansions(e, p) ==
    LET keys == {k[1] : k \in {x \in DOMAIN e : x[2] = NoPlatform}}
    IN  [k \in {x \in DOMAIN e : x[2] # NoPlatform} \cup {<<x, p>> : x \in keys} |->
            IF k[2] = p /\ k[1] \in keys THEN e[<<k[1], NoPlatform>>] ELSE e[k]]

OwnSource(r) == [r EXCEPT !.expansions = OwnExpansions(@, Platforms[place[1]])]

\* The records of a symbol are told apart by the hash of their JSON.
Seen(vs, data) == {i \in DOMAIN vs : vs[i].data = data}

AddVariant(vs, data) ==
    IF Seen(vs, data) = {}
    THEN Append(vs, [data |-> data, platforms |-> <<place[1]>>])
    ELSE [i \in DOMAIN vs |-> IF i \in Seen(vs, data)
                              THEN [vs[i] EXCEPT !.platforms = Append(@, place[1])]
                              ELSE vs[i]]

VariantsOf(sym) == IF sym \in DOMAIN variants THEN variants[sym] ELSE <<>>

ReadLine ==
    /\ mergePhase = "read" /\ LineLeft
    /\ place' = [place EXCEPT ![2] = @ + 1]
    /\ \/ /\ Line.tag = "target"
          /\ targets' = IF Contains(targets, Line) THEN targets ELSE Append(targets, Line)
          /\ UNCHANGED <<sources, variants>>
       \/ /\ Line.tag = "source"
          /\ sources' = Append(sources, OwnSource(Line))
          /\ UNCHANGED <<targets, variants>>
       \/ /\ Line.tag = "structured"
          /\ variants' = [s \in DOMAIN variants \cup {Line.sym} |->
                             IF s = Line.sym THEN AddVariant(VariantsOf(s), Line.data) ELSE variants[s]]
          /\ UNCHANGED <<targets, sources>>
    /\ UNCHANGED <<files, mergePhase, written, structured>>

NotAfter(r, o) == r.loc < o.loc \/ (r.loc = o.loc /\ r.pretty <= o.pretty)

\* Stable insertion of r behind the records that do not come after it.
Insert(sorted, r) ==
    LET before == Cardinality({i \in DOMAIN sorted : NotAfter(sorted[i], r)})
    IN  InsertAt(sorted, before + 1, r)

InPlaces(seq) == FoldLeft(Insert, <<>>, seq)

\* Grouped by place; within a place, sorted by name.
Grouped ==
    /\ mergePhase = "read" /\ AtEnd
    /\ sources' = InPlaces(sources)
    /\ mergePhase' = "sources"
    /\ UNCHANGED <<files, place, targets, written, variants, structured>>
-----------------------------------------------------------------------------
(* Merging two source records *)

AddNew(acc, x) == IF Contains(acc, x) THEN acc ELSE Append(acc, x)

Unique(seq) == FoldLeft(AddNew, <<>>, seq)

\* Without confidences every symbol is concrete.
Confidences(r) == IF r.confidence = <<>> THEN [i \in DOMAIN r.syms |-> Concrete] ELSE r.confidence[1]

\* Mutant: the confidences are chained in the other order than the symbols.
Swapped(e, o) == Confidences(e) \o Confidences(o)

Chained(e, o) == Confidences(o) \o Confidences(e)

\* The greatest confidence that either record has in the symbol.
ConfidenceIn(e, o, sym) ==
    LET syms == o.syms \o e.syms
    IN  IF \E i \in DOMAIN syms : syms[i] = sym /\ Chained(e, o)[i] = Concrete
        THEN Concrete ELSE Heuristic

MergedConfidence(e, o, syms) ==
    IF e.confidence = <<>> /\ o.confidence = <<>> THEN <<>>
    ELSE <<[i \in DOMAIN syms |-> ConfidenceIn(e, o, syms[i])]>>

EmptyRange(r) == r[1] = 0

Union(r, o) ==
    CASE EmptyRange(o) -> r
      [] EmptyRange(r) /\ ~EmptyRange(o) -> o
      [] OTHER -> <<IF o[1] < r[1] THEN o[1] ELSE r[1], IF o[2] > r[2] THEN o[2] ELSE r[2]>>

\* Of what an expansion is for one platform the later record has the last
\* word; where an expanded symbol is found, the offsets are put together.
MergedExpansions(e, o) ==
    [k \in DOMAIN e.expansions \cup DOMAIN o.expansions |->
        IF k \notin DOMAIN o.expansions THEN e.expansions[k]
        ELSE IF k \in DOMAIN e.expansions /\ o.kind = "InExpansionAt"
        THEN e.expansions[k] \o o.expansions[k]
        ELSE o.expansions[k]]

Mixed(e, o) == {e.kind, o.kind} = {"ExpandsTo", "InExpansionAt"}

MergeSource(e, o) ==
    LET syms == Unique(o.syms \o e.syms)
    IN  [e EXCEPT !.noCrossref = @ /\ o.noCrossref,
                  !.syntax = @ \cup o.syntax,
                  !.syms = syms,
                  !.confidence = MergedConfidence(e, o, syms),
                  !.range = Union(@, o.range),
                  !.type = IF @ = <<>> THEN o.type ELSE @,
                  !.kind = IF @ = NoKind THEN o.kind ELSE @,
                  !.expansions = MergedExpansions(e, o)]

SamePlaceAndName(e, o) == e.loc = o.loc /\ e.pretty = o.pretty

TakeSource ==
    /\ mergePhase = "sources" /\ sources # <<>>
    /\ LET o == Head(sources)
           merges == written # <<>> /\ SamePlaceAndName(Last(written), o)
       IN  IF merges /\ Mixed(Last(written), o)
           THEN /\ mergePhase' = "panicked"
                /\ UNCHANGED <<sources, written>>
           ELSE /\ written' = IF merges THEN Append(Front(written), MergeSource(Last(written), o))
                                        ELSE Append(written, o)
                /\ sources' = Tail(sources)
                /\ UNCHANGED mergePhase
    /\ UNCHANGED <<files, place, targets, variants, structured>>

SourcesMerged ==
    /\ mergePhase = "sources" /\ sources = <<>>
    /\ mergePhase' = "structured"
    /\ UNCHANGED <<files, place, targets, sources, written, variants, structured>>
-----------------------------------------------------------------------------
(* Structured records *)

Highest(v) == CHOOSE i \in ToSet(v.platforms) : \A j \in ToSet(v.platforms) : j <= i

\* The variant of the last platform: 64-bit layouts are preferred, and 32-bit
\* android comes first.  A platform with two variants leaves the choice to the
\* order of a hash map.
Canonical(vs) == {i \in DOMAIN vs : \A j \in DOMAIN vs : Highest(vs[j]) <= Highest(vs[i])}

\* By the names of their platforms, joined.
NamesBefore(p, q) ==
    \/ IsStrictPrefix(p, q)
    \/ \E i \in DOMAIN p \cap DOMAIN q : p[i] < q[i] /\ \A j \in 1 .. i - 1 : p[j] = q[j]

InsertVariant(sorted, v) ==
    InsertAt(sorted, 1 + Cardinality({i \in DOMAIN sorted : ~NamesBefore(v.platforms, sorted[i].platforms)}), v)

Sorted(vs) == FoldLeft(InsertVariant, <<>>, vs)

WithNames(v) == [data |-> v.data, platforms |-> [i \in DOMAIN v.platforms |-> Platforms[v.platforms[i]]]]

\* A single variant is written as it was found, without its platforms.
WriteStructured ==
    /\ mergePhase = "structured"
    /\ \E s \in DOMAIN variants \ DOMAIN structured :
          LET vs == variants[s] IN
          \E c \in Canonical(vs) :
             structured' = [t \in DOMAIN structured \cup {s} |->
                IF t # s THEN structured[t]
                ELSE IF Len(vs) = 1 THEN [data |-> vs[1].data, platforms |-> <<>>, variants |-> <<>>]
                ELSE [data |-> vs[c].data, platforms |-> WithNames(vs[c]).platforms,
                      variants |-> LET others == Sorted(RemoveAt(vs, c))
                                   IN  [i \in DOMAIN others |-> WithNames(others[i])]]]
    /\ UNCHANGED <<files, mergePhase, place, targets, sources, written, variants>>

StructuredWritten ==
    /\ mergePhase = "structured" /\ DOMAIN structured = DOMAIN variants
    /\ mergePhase' = "merged"
    /\ UNCHANGED <<files, place, targets, sources, written, variants, structured>>
-----------------------------------------------------------------------------
NoSymbols == [s \in {} |-> <<>>]

IsList(s) == s \in Seq(ToSet(s))

\* A source record: each symbol has a confidence, or none of them has.
RecordTyped(r) ==
    /\ DOMAIN r = {"tag", "loc", "pretty", "noCrossref", "syntax", "syms", "confidence",
                   "range", "type", "kind", "expansions"}
    /\ r.loc \in Int /\ r.pretty \in Int /\ r.noCrossref \in BOOLEAN
    /\ IsList(r.syms)
    /\ r.confidence # <<>> =>
          /\ r.confidence = <<r.confidence[1]>>
          /\ r.confidence[1] \in [DOMAIN r.syms -> {Concrete, Heuristic}]
    /\ r.kind \in {NoKind, "ExpandsTo", "InExpansionAt"}

\* The plugins know nothing of the platforms.
SourceTyped(r) ==
    /\ RecordTyped(r)
    /\ \A k \in DOMAIN r.expansions : k = <<k[1], k[2]>> /\ k[2] \notin ToSet(Platforms)

FilesTyped(fs) ==
    /\ IsList(fs) /\ Len(fs) <= Len(Platforms)
    /\ \A i \in DOMAIN fs : /\ IsList(fs[i])
                            /\ \A j \in DOMAIN fs[i] : fs[i][j].tag = "source" => SourceTyped(fs[i][j])

MergeInit(fs) ==
    /\ files = fs
    /\ FilesTyped(files)
    /\ mergePhase = "read"
    /\ place = <<1, 1>>
    /\ targets = <<>> /\ sources = <<>> /\ written = <<>>
    /\ variants = NoSymbols /\ structured = NoSymbols

MergeNext == \/ NextFile \/ ReadLine \/ Grouped \/ TakeSource \/ SourcesMerged
             \/ WriteStructured \/ StructuredWritten

\* Any files of the platforms.
MergeSpec == MergeInit(files) /\ [][MergeNext]_mergeVars

\* What a reader of a structured record sees for each platform: pairs of a
\* platform, or of "" for all of them, and the data (per_platform).  A platform
\* that was seen is not seen again.
PerPlatform(r) ==
    IF r.platforms = <<>> THEN <<<<"", r.data>>>>
    ELSE LET main == [i \in DOMAIN r.platforms |-> <<r.platforms[i], r.data>>]
             AddName(acc, pair) == IF \E i \in DOMAIN acc : acc[i][1] = pair[1] THEN acc ELSE Append(acc, pair)
             OfVariant(v) == [i \in DOMAIN v.platforms |-> <<v.platforms[i], v.data>>]
         IN  FoldLeft(AddName, main, FlattenSeq([i \in DOMAIN r.variants |-> OfVariant(r.variants[i])]))
-----------------------------------------------------------------------------
IsMerged == mergePhase = "merged"

RecordsOf(i, tag) == {r \in ToSet(files[i]) : r.tag = tag}

AllOf(tag) == UNION {RecordsOf(i, tag) : i \in DOMAIN files}

SureOf(r) == {r.syms[i] : i \in {j \in DOMAIN r.syms : Confidences(r)[j] = Concrete}}

\* The merged source records: one for each place and name, that has every
\* symbol any platform gave it, concrete if some platform is sure of it, and
\* cross-referenced if some platform cross-references it; what a macro expands
\* to on a platform is what that platform's file says.
SourcesKept ==
    IsMerged =>
        /\ {<<r.loc, r.pretty>> : r \in ToSet(written)} = {<<r.loc, r.pretty>> : r \in AllOf("source")}
        /\ \A i, j \in DOMAIN written : SamePlaceAndName(written[i], written[j]) => i = j
        /\ \A r \in ToSet(written) :
              LET own == {x \in AllOf("source") : SamePlaceAndName(x, r)}
              IN  /\ ToSet(r.syms) = UNION {ToSet(x.syms) : x \in own}
                  /\ SureOf(r) = UNION {SureOf(x) : x \in own}
                  /\ r.noCrossref <=> \A x \in own : x.noCrossref
                  /\ \A i \in DOMAIN files : \A x \in own \cap RecordsOf(i, "source") :
                        x.kind = "ExpandsTo" =>
                           \A k \in DOMAIN x.expansions :
                              k[2] = NoPlatform => \E y \in own \cap RecordsOf(i, "source") :
                                 k \in DOMAIN y.expansions /\ r.expansions[<<k[1], Platforms[i]>>] = y.expansions[k]
=============================================================================
