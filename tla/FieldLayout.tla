----------------------------- MODULE FieldLayout -----------------------------
(* The field layout of a class (cmd_pipeline/cmd_format_symbols.rs): the     *)
(* fields of the class and of all its bases on every platform, with holes    *)
(* and paddings, platforms with equal layouts sharing a column.  It reads    *)
(* the structured records that merge-analyses wrote.                         *)
(*                                                                           *)
(* The data of a class is a record [struct, size, align, vptr, supers,       *)
(* fields]; a super is [sym, offset, layout], where `layout` is empty or     *)
(* holds the data of the base; a field is [sym, offset, bits, size, line],   *)
(* where `bits` is empty or <<begin, width>>.  A size, an alignment or a     *)
(* vptr of 0 is none.                                                        *)
EXTENDS MergePlatforms

CONSTANT Order       \* platform_name_to_order, ties broken by name

VARIABLES
    layoutPhase,   \* "idle", "platforms", "classes", "done" or "panicked"
    root,          \* root_class_id
    nested,        \* has_layout_field
    platformMap,   \* names of the platforms, in the order of their ids
    pending,       \* classes to visit: symbols, then [sym, offsets], or
                   \* classes_list: sequences of <<platform, class>>
    classes,       \* class_list: [sym, sizes], sizes of [align, size]
    fieldsOf,      \* fields_per_platform
    hasMI,         \* has_multiple_inheritance
    hasOffset,     \* has_non_zero_super_offset
    columns,       \* groups: [platforms, fields]
    table          \* the SymbolTreeTable

layoutVars == <<layoutPhase, root, nested, platformMap, pending, classes, fieldsOf,
                hasMI, hasOffset, columns, table>>

AllPlatforms == "All platforms"

IsStruct(sym) == sym \in DOMAIN structured /\ structured[sym].data.struct

Visits(sym) == PerPlatform(structured[sym])
-----------------------------------------------------------------------------
(* Fields *)

NewField(sym, tid, offset, size, f) ==
    [cls |-> sym, tid |-> tid, end |-> IF size = 0 THEN 0 ELSE offset + size,
     id |-> f.sym, offset |-> offset + f.offset, bits |-> f.bits, size |-> f.size, line |-> f.line,
     hole |-> 0, afterBase |-> FALSE, padding |-> 0]

VTable(data) == [sym |-> "vtable", offset |-> 0, bits |-> <<>>, size |-> data.vptr, line |-> 0]

\* The fields that a class at this offset adds to a platform.
OwnFields(sym, tid, offset, data) ==
    LET fs == (IF data.size # 0 /\ data.vptr # 0 THEN <<VTable(data)>> ELSE <<>>) \o data.fields
    IN  [i \in DOMAIN fs |-> NewField(sym, tid, offset, data.size, fs[i])]

\* By offset; two bit-fields of one byte by their first bit.
FieldAfter(f, g) ==
    \/ f.offset > g.offset
    \/ f.offset = g.offset /\ f.bits # <<>> /\ g.bits # <<>> /\ f.bits[1] > g.bits[1]

\* The stable sort of fields of which none is after a later one already.
InsertField(sorted, f) ==
    InsertAt(sorted, 1 + Cardinality({i \in DOMAIN sorted : ~FieldAfter(sorted[i], f)}), f)

SortedFields(fs) == FoldLeft(InsertField, <<>>, fs)

EndOfBits(f) == f.offset + ((f.bits[1] + f.bits[2] + 7) \div 8)

\* A base that ends in a padding has been left.
Leave(last, end) == IF last.end # 0 THEN last.end ELSE end

\* What the fields so far, and the last end offset, are after the next field.
AddHole(acc, f) ==
    LET fs     == acc.fields
        gap    == f.offset > acc.end
        left   == gap /\ fs # <<>> /\ Last(fs).tid # f.tid
        start  == IF left THEN Leave(Last(fs), acc.end) ELSE acc.end
        before == IF left /\ Last(fs).end > acc.end
                  THEN Append(Front(fs), [Last(fs) EXCEPT !.padding = Last(fs).end - acc.end])
                  ELSE fs
        hole   == IF gap /\ f.offset > start THEN f.offset - start ELSE 0
        end    == CASE f.bits # <<>> -> IF EndOfBits(f) > start THEN EndOfBits(f) ELSE start
                    [] f.bits = <<>> /\ f.size # 0 -> f.offset + f.size
                    [] OTHER -> start
    IN  [fields |-> Append(before, [f EXCEPT !.hole = hole, !.afterBase = left]), end |-> end]

WithHoles(fs) ==
    LET acc  == FoldLeft(AddHole, [fields |-> <<>>, end |-> 0], fs)
        last == Last(acc.fields)
    IN  IF fs # <<>> /\ last.end > acc.end
        THEN Append(Front(acc.fields), [last EXCEPT !.padding = last.end - acc.end])
        ELSE acc.fields
-----------------------------------------------------------------------------
(* The platforms *)

AddPlatform(names, p) == IF Contains(names, p) THEN names ELSE Append(names, p)

PlatformsOf(sym) == SelectSeq([i \in DOMAIN Visits(sym) |-> Visits(sym)[i][1]], LAMBDA p : p # "")

\* check_layout_field: every base of every variant carries its layout.
CarriesLayouts(sym) ==
    IsStruct(sym) /\ \A v \in ToSet(Visits(sym)) : \A s \in ToSet(v[2].supers) : s.layout # <<>>

StartLayout ==
    /\ layoutPhase = "idle" /\ IsMerged
    /\ layoutPhase' = "platforms"
    /\ nested' = CarriesLayouts(root)
    /\ pending' = <<root>>
    /\ UNCHANGED <<root, platformMap, classes, fieldsOf, hasMI, hasOffset, columns, table>>

\* Without layouts the bases are mapped too: those of the canonical variant.
BasesToMap(sym) ==
    LET supers == structured[sym].data.supers
    IN  IF nested THEN <<>> ELSE [i \in DOMAIN supers |-> supers[i].sym]

MapPlatforms ==
    /\ layoutPhase = "platforms" /\ pending # <<>>
    /\ LET sym == Head(pending)
       IN  IF ~IsStruct(sym)
           THEN /\ pending' = Tail(pending)
                /\ UNCHANGED platformMap
           ELSE /\ pending' = Tail(pending) \o BasesToMap(sym)
                /\ platformMap' = FoldLeft(AddPlatform, platformMap, PlatformsOf(sym))
    /\ UNCHANGED <<layoutPhase, root, nested, classes, fieldsOf, hasMI, hasOffset, columns, table>>
-----------------------------------------------------------------------------
(* The classes, when the root carries their layouts *)

ClassOf(sym, offset, data) == [sym |-> sym, offset |-> offset, data |-> data]

RECURSIVE BasesFirst(_, _)
BasesFirst(super, offset) ==
    LET data == super.layout[1]
        at   == super.offset + offset
    IN  FlattenSeq([i \in DOMAIN data.supers |-> BasesFirst(data.supers[i], at)])
          \o <<ClassOf(super.sym, at, data)>>

\* Each is pushed to the front: the root is the first, then the last base.
ClassesIn(data) ==
    Reverse(FlattenSeq([i \in DOMAIN data.supers |-> BasesFirst(data.supers[i], 0)])
              \o <<ClassOf(root, 0, data)>>)

ClassMap(ps) ==
    [p \in ToSet(ps) |->
        LET vs == SelectSeq(Visits(root), LAMBDA v : v[1] \in {p, ""})
        IN  FlattenSeq(Reverse([i \in DOMAIN vs |-> ClassesIn(vs[i][2])]))]

\* create_list: the lists are walked in step; a class that is not the one of
\* the first platform, whichever the hash map calls the first, stands alone.
ClassList(ps, first) ==
    LET lists  == ClassMap(ps)
        others == SelectSeq(ps, LAMBDA p : p # first)
        Alike(k) == SelectSeq(others, LAMBDA p : k <= Len(lists[p]) /\ lists[p][k].sym = lists[first][k].sym)
        Odd(k)   == SelectSeq(others, LAMBDA p : /\ k <= Len(lists[p])
                                                 /\ k > Len(lists[first]) \/ lists[p][k].sym # lists[first][k].sym)
        Of(some, k) == [i \in DOMAIN some |-> <<some[i], lists[some[i]][k]>>]
        longest == FoldLeft(LAMBDA m, p : IF Len(lists[p]) > m THEN Len(lists[p]) ELSE m, 0, ps)
    IN  [k \in DOMAIN lists[first] |-> Of(<<first>> \o Alike(k), k)]
          \o FlattenSeq([k \in 1 .. longest |-> [i \in DOMAIN Odd(k) |-> Of(<<Odd(k)[i]>>, k)]])

Sized(data) == [align |-> data.align, size |-> data.size]

AddFields(list, p) == [fieldsOf EXCEPT ![p] = @ \o list]

VisitNested ==
    /\ layoutPhase = "classes" /\ nested /\ pending # <<>>
    /\ LET parts == Head(pending)
           on    == {pt[1] : pt \in ToSet(parts)}
           part  == [p \in on |-> (CHOOSE pt \in ToSet(parts) : pt[1] = p)[2]]
           tid   == Len(classes) + 1
           sym   == parts[1][2].sym
       IN  /\ classes' = Append(classes, [sym |-> sym,
                                          sizes |-> [p \in {q \in on : part[q].data.size # 0} |-> Sized(part[p].data)]])
           /\ fieldsOf' = [p \in DOMAIN fieldsOf |->
                              IF p \in on THEN fieldsOf[p] \o OwnFields(sym, tid, part[p].offset, part[p].data)
                                          ELSE fieldsOf[p]]
           /\ hasOffset' = (hasOffset \/ \E p \in on : part[p].offset > 0)
    /\ pending' = Tail(pending)
    /\ UNCHANGED <<layoutPhase, root, nested, platformMap, hasMI, columns, table>>
-----------------------------------------------------------------------------
(* The classes, when each has to be looked up *)

Item(sym, offsets) == [sym |-> sym, offsets |-> offsets]

\* A record for all platforms is one for those that come this way.
Applies(v, item) == IF v[1] = "" THEN DOMAIN item.offsets ELSE {v[1]} \cap DOMAIN item.offsets

\* Mutant: the base is where the canonical variant has it.
CanonicalOffset(sup, v, item, p) ==
    LET ss == {s \in ToSet(structured[item.sym].data.supers) : s.sym = sup.sym}
    IN  item.offsets[p] + (IF ss = {} THEN 0 ELSE (CHOOSE s \in ss : TRUE).offset)

SuperOffset(sup, v, item, p) == item.offsets[p] + sup.offset

AddSuper(items, sup, v, item) ==
    LET here == [p \in Applies(v, item) |-> SuperOffset(sup, v, item, p)]
        same == {i \in DOMAIN items : items[i].sym = sup.sym}
    IN  CASE here = <<>> -> items
          [] here # <<>> /\ same = {} -> Append(items, Item(sup.sym, here))
          [] OTHER -> [i \in DOMAIN items |-> IF i \in same THEN [items[i] EXCEPT !.offsets = here @@ @] ELSE items[i]]

SupersOf(item, visits) ==
    FoldLeft(LAMBDA acc, v : FoldLeft(LAMBDA items, sup : AddSuper(items, sup, v, item), acc, v[2].supers),
             <<>>, visits)

\* A platform that nobody put into the map cannot be looked up in it.
Unknown(visits) == \E v \in ToSet(visits) : v[1] \notin ToSet(platformMap) \cup {""}

\* The records of the class that this platform reads here.
For(p, item) == SelectSeq(Visits(item.sym), LAMBDA v : p \in Applies(v, item))

SizesFor(item) ==
    [p \in {q \in DOMAIN item.offsets : \E v \in ToSet(For(q, item)) : v[2].size # 0} |-> Sized(Last(For(p, item))[2])]

FieldsFor(item, tid, p) ==
    IF p \notin DOMAIN item.offsets THEN <<>>
    ELSE FlattenSeq([i \in DOMAIN For(p, item) |-> OwnFields(item.sym, tid, item.offsets[p], For(p, item)[i][2])])

VisitClass ==
    /\ layoutPhase = "classes" /\ ~nested /\ pending # <<>>
    /\ LET item == Head(pending)
           visits == SelectSeq(Visits(item.sym), LAMBDA v : v[1] = "" \/ Applies(v, item) # {})
       IN  CASE ~IsStruct(item.sym) ->
                  /\ pending' = Tail(pending)
                  /\ UNCHANGED <<layoutPhase, classes, fieldsOf, hasMI, hasOffset>>
             [] IsStruct(item.sym) /\ Unknown(Visits(item.sym)) ->
                  /\ layoutPhase' = "panicked"
                  /\ UNCHANGED <<pending, classes, fieldsOf, hasMI, hasOffset>>
             [] OTHER ->
                  /\ classes' = Append(classes, [sym |-> item.sym, sizes |-> SizesFor(item)])
                  /\ fieldsOf' = [p \in DOMAIN fieldsOf |->
                                     fieldsOf[p] \o FieldsFor(item, Len(classes) + 1, p)]
                  /\ hasMI' = (hasMI \/ \E v \in ToSet(visits) : Len(v[2].supers) > 1)
                  /\ hasOffset' = (hasOffset \/ \E v \in ToSet(visits) : \E s \in ToSet(v[2].supers) : s.offset > 0)
                  /\ pending' = Reverse(SupersOf(item, visits)) \o Tail(pending)
                  /\ UNCHANGED layoutPhase
    /\ UNCHANGED <<root, nested, platformMap, columns, table>>
-----------------------------------------------------------------------------
(* From the map of platforms to the classes *)

\* Nobody told platforms apart: they are one.
Finished(names) == IF names = <<>> THEN <<AllPlatforms>> ELSE names

PlatformsMapped ==
    /\ layoutPhase = "platforms" /\ pending = <<>>
    /\ platformMap' = Finished(platformMap)
    /\ fieldsOf' = [p \in ToSet(platformMap') |-> <<>>]
    /\ layoutPhase' = "classes"
    /\ IF nested
       THEN /\ hasMI' = \E v \in ToSet(Visits(root)) : Len(v[2].supers) > 1
            /\ \E first \in ToSet(platformMap') : pending' = ClassList(platformMap', first)
       ELSE /\ pending' = <<Item(root, [p \in ToSet(platformMap') |-> 0])>>
            /\ UNCHANGED hasMI
    /\ UNCHANGED <<root, nested, classes, hasOffset, columns, table>>
-----------------------------------------------------------------------------
(* Grouping, and the table *)

\* Bases lie somewhere, but their offsets are not in the analysis.
Unsupported == hasMI /\ ~hasOffset

Complete(fs) == IF Unsupported THEN SortedFields(fs) ELSE WithHoles(SortedFields(fs))

InsertPlatform(sorted, p) ==
    InsertAt(sorted, 1 + Cardinality({i \in DOMAIN sorted : Order[sorted[i]] <= Order[p]}), p)

AddToColumns(cols, p, fs) ==
    LET same == {i \in DOMAIN cols : cols[i].fields = fs}
    IN  CASE fs = <<>> -> cols
          [] fs # <<>> /\ same = {} -> Append(cols, [platforms |-> <<p>>, fields |-> fs])
          [] OTHER -> [i \in DOMAIN cols |-> IF i \in same THEN [cols[i] EXCEPT !.platforms = Append(@, p)]
                                                           ELSE cols[i]]

ColumnsOf(complete) ==
    IF \A p \in DOMAIN complete : complete[p] = <<>>
    THEN <<[platforms |-> platformMap, fields |-> <<>>]>>
    ELSE FoldLeft(LAMBDA cols, p : AddToColumns(cols, p, complete[p]), <<>>,
                  FoldLeft(InsertPlatform, <<>>, platformMap))

ClassesVisited ==
    /\ layoutPhase = "classes" /\ pending = <<>> /\ columns = <<>>
    /\ columns' = ColumnsOf([p \in DOMAIN fieldsOf |-> Complete(fieldsOf[p])])
    /\ UNCHANGED <<layoutPhase, root, nested, platformMap, pending, classes, fieldsOf, hasMI, hasOffset, table>>

\* Fields of one class by that name in a column: the last one is kept.
Cell(tid, id, g) == SelectSeq(columns[g].fields, LAMBDA f : f.tid = tid /\ f.id = id)

\* What a field is in the columns that have it.
FieldVariants(tid, id) ==
    [g \in {c \in DOMAIN columns : Cell(tid, id, c) # <<>>} |-> Last(Cell(tid, id, g))]

\* The rows of a class, whose order in the table is left out.
RowsOf(tid) ==
    LET ids == {f.id : f \in {x \in UNION {ToSet(columns[g].fields) : g \in DOMAIN columns} : x.tid = tid}}
    IN  {[id |-> id, cells |-> FieldVariants(tid, id)] : id \in ids}

\* The size of the root stands above each column: that of its first platform.
SizesOf(i) ==
    IF classes[i].sym # root THEN <<>>
    ELSE [g \in DOMAIN columns |->
             LET p == columns[g].platforms[1]
             IN  IF p \in DOMAIN classes[i].sizes THEN classes[i].sizes[p] ELSE [align |-> 0, size |-> 0]]

TableFilled ==
    /\ layoutPhase = "classes" /\ columns # <<>>
    /\ table' = [i \in DOMAIN classes |-> [sym |-> classes[i].sym, sizes |-> SizesOf(i), rows |-> RowsOf(i),
                                           warning |-> Unsupported /\ classes[i].sym = root]]
    /\ layoutPhase' = "done"
    /\ UNCHANGED <<root, nested, platformMap, pending, classes, fieldsOf, hasMI, hasOffset, columns>>
-----------------------------------------------------------------------------
LayoutIdle ==
    /\ layoutPhase = "idle" /\ nested = FALSE
    /\ platformMap = <<>> /\ pending = <<>> /\ classes = <<>> /\ fieldsOf = <<>>
    /\ hasMI = FALSE /\ hasOffset = FALSE
    /\ columns = <<>> /\ table = <<>>

LayoutNext == \/ StartLayout \/ MapPlatforms \/ PlatformsMapped
              \/ VisitNested \/ VisitClass \/ ClassesVisited \/ TableFilled
-----------------------------------------------------------------------------
(* What the platforms say, each in its own file *)

Declared(i, sym) == {r.data : r \in {x \in RecordsOf(i, "structured") : x.sym = sym}}

DataOf(i, sup) == IF sup.layout # <<>> THEN {sup.layout[1]} ELSE Declared(i, sup.sym)

RECURSIVE PlacedIn(_, _, _, _)
PlacedIn(i, sym, data, offset) ==
    {<<sym, f.id, f.offset, f.bits, f.size>> : f \in ToSet(OwnFields(sym, 0, offset, data))}
      \cup UNION {UNION {PlacedIn(i, s.sym, d, offset + s.offset) : d \in DataOf(i, s)} : s \in ToSet(data.supers)}

\* Where the fields of the root are on a platform.
FieldsOn(i) == UNION {PlacedIn(i, root, d, 0) : d \in Declared(i, root)}

WithRoot == {i \in DOMAIN files : Declared(i, root) # {}}

NameOf(i) == IF platformMap = <<AllPlatforms>> THEN AllPlatforms ELSE Platforms[i]

ColumnsWith(i) == {g \in DOMAIN columns : Contains(columns[g].platforms, NameOf(i))}

CellsOf(g) == {<<t, row>> \in UNION {{t} \X table[t].rows : t \in DOMAIN table} : g \in DOMAIN row.cells}

LaidOut == layoutPhase = "done"

\* The fields that a column shows are, at
\* their absolute offsets and with their sizes, those that each platform of
\* the column has according to its own file: none is lost, and none invented,
\* when records are merged ("This should allow round-tripping", merger.rs:173),
\* bases are looked up and classes are matched.
FieldsAtTheirPlace ==
    LaidOut => \A i \in WithRoot : \A g \in ColumnsWith(i) :
        FieldsOn(i) = {LET f == tr[2].cells[g] IN <<table[tr[1]].sym, f.id, f.offset, f.bits, f.size>> :
                          tr \in CellsOf(g)}

\* A platform on which the class has fields is in one column; the size above
\* the column is its size, if the class has a field of its own.  The only
\* platforms that stop the program are those of a base that the canonical
\* variant of some class does not have.
ColumnsTrue ==
    /\ LaidOut => \A i \in WithRoot :
          /\ FieldsOn(i) # {} => Cardinality(ColumnsWith(i)) = 1
          /\ \A d \in Declared(i, root) : d.fields # <<>> =>
                \A g \in ColumnsWith(i) : table[1].sizes[g].size = d.size
    /\ layoutPhase = "panicked" =>
          \E s \in DOMAIN structured : \E v \in ToSet(structured[s].variants) :
              {x.sym : x \in ToSet(v.data.supers)} # {x.sym : x \in ToSet(structured[s].data.supers)}

\* Classes for which the arithmetic of holes is meant: every class has a field
\* of its own behind its bases, none of them in the tail padding of a base, and
\* nothing but a vptr lies before a base, right before it.
RECURSIVE Regular(_, _)
Regular(i, data) ==
    LET own == ToSet(OwnFields(root, 0, 0, data))
        Bytes(s, d) == s.offset .. s.offset + d.size - 1
    IN  /\ \/ data.fields # <<>>
           \/ data.supers = <<>> /\ own # {}
        /\ \A s \in ToSet(data.supers) : DataOf(i, s) # {} /\ \A d \in DataOf(i, s) :
              /\ Regular(i, d)
              /\ \A f \in own : \/ f.offset >= s.offset + d.size
                                \/ f.id = "vtable" /\ f.size = data.supers[1].offset
              /\ \A t \in ToSet(data.supers) \ {s} : \A e \in DataOf(i, t) : Bytes(s, d) \cap Bytes(t, e) = {}

FieldBytes(f) == f.offset .. (IF f.bits # <<>> THEN EndOfBits(f) ELSE f.offset + f.size) - 1
HoleBytes(f)  == f.offset - f.hole .. f.offset - 1
PadBytes(f)   == f.end - f.padding .. f.end - 1

\* Every byte of the class is shown once: it is in one field (or in bit-fields
\* that share it), in one hole or in one padding.
EveryByteCounted ==
    LaidOut /\ ~Unsupported => \A i \in WithRoot : \A g \in ColumnsWith(i) : \A d \in Declared(i, root) :
        Regular(i, d) =>
            LET fs == {<<tr[1], tr[2].cells[g]>> : tr \in CellsOf(g)}
                Covers(Piece(_), b) == {tf \in fs : b \in Piece(tf[2])}
                bitsAt(b) == {tf \in Covers(FieldBytes, b) : tf[2].bits # <<>>}
            IN  \A b \in 0 .. d.size :
                   Cardinality(Covers(FieldBytes, b) \ bitsAt(b)) + (IF bitsAt(b) # {} THEN 1 ELSE 0)
                     + Cardinality(Covers(HoleBytes, b)) + Cardinality(Covers(PadBytes, b))
                   = IF b < d.size THEN 1 ELSE 0

\* What a field layout shows is what the compilers said.
LayoutTrue == FieldsAtTheirPlace /\ ColumnsTrue /\ EveryByteCounted
=============================================================================
