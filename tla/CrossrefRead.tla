---------------------------- MODULE CrossrefRead ----------------------------
(***************************************************************************)
(* Reading the analysis files (tools/src/bin/crossref.rs): each thread     *)
(* reads a range of the list of files into vectors of its own; when the    *)
(* scope has joined them, one thread merges the vectors into the tables    *)
(* and links the records of symbols with each other, both ways.            *)
(*                                                                         *)
(* A file is a record                                                      *)
(*   [path, lines, info, subsystem, targets, structured]:                  *)
(* lines is the number of lines of its source (0: empty or missing), info  *)
(* whether the ingestion knows the path.  A pretty name is the sequence of *)
(* its components; a symbol is a string, None no symbol.                   *)
(***************************************************************************)
EXTENDS Integers, FiniteSets, Sequences, SequencesExt

CONSTANTS Trees,      \* the lists of analysis files
          Threads,    \* thread_count given by scripts/crossref.sh
          OneThread,  \* a list of at most this many is read by one thread
          SymOrder,   \* the symbols in the order of their strings
          FileNames,  \* symbols that start with "FILE_"
          Unsuited,   \* symbols that start with a digit or hold a space
          None

IsList(s) == s \in Seq(ToSet(s))

Put(f, key, value) == [k \in DOMAIN f \cup {key} |-> IF k = key THEN value ELSE f[k]]

(* What the analyzers write: lists are lists, and a record has its fields. *)
FilesTyped(fs) ==
    /\ IsList(fs)
    /\ \A f \in ToSet(fs) :
          /\ IsList(f.targets) /\ IsList(f.structured)
          /\ \A t \in ToSet(f.targets) : IsList(t.pretty)
          /\ \A r \in ToSet(f.structured) :
                /\ DOMAIN r = {"line", "sym", "pretty", "kind", "parent", "supers", "overrides",
                               "binding_slots", "slot_owner", "methods", "fields"}
                /\ \A l \in {r.supers, r.overrides, r.binding_slots, r.slot_owner} : IsList(l)

ASSUME ReadAssumption ==
    /\ Threads \in Nat \ {0} /\ OneThread \in Nat
    /\ IsList(SymOrder)
    /\ \A i, j \in DOMAIN SymOrder : SymOrder[i] = SymOrder[j] => i = j
    /\ \A fs \in Trees : FilesTyped(fs)

VARIABLES files,    \* analysis_relative_paths, with what they hold
          phase,    \* "read", "merge", "link", "slots" or "rules" and later
          next,     \* each thread's position in the list
          from,     \* the thread whose vectors are merged or linked next
          out,      \* out_list
          tables,   \* search_result_table, pretty_table, id_table, callees_table
          meta,     \* meta_table
          slots     \* xref_link_slots

readVars == <<files, phase, next, from, out, tables, meta, slots>>

total        == Len(files)
thread_count == IF total > OneThread THEN Threads ELSE 1
Readers      == 0 .. thread_count - 1
chunk        == total \div thread_count

(* Mutant: the last range is as long as the others.                        *)
EndForgetsRest(t) == chunk * (t + 1)

StartOf(t) == chunk * t
EndOf(t)   == IF t = thread_count - 1 THEN total ELSE chunk * (t + 1)

-----------------------------------------------------------------------------
(* What one file adds to the vectors of the thread that reads it.          *)

NoItems == [hits |-> <<>>, tops |-> <<>>, prettys |-> <<>>, ids |-> <<>>, structured |-> <<>>,
            callees |-> <<>>, subclass |-> <<>>, override |-> <<>>, slots |-> <<>>]

Both(a, b) == [k \in DOMAIN NoItems |-> a[k] \o b[k]]

Each(Op(_), seq) == [k \in DOMAIN NoItems |-> FlattenSeq([i \in DOMAIN seq |-> Op(seq[i])[k]])]

PrettySuffixes(pretty) == [i \in DOMAIN pretty |-> SubSeq(pretty, i, Len(pretty))]

FileSym(f) == "FILE_" \o f.path

ContextOf(f, t) == IF t.sym \in FileNames /\ t.context = None THEN FileSym(f) ELSE t.context

(* The symbols of the file itself, and a record of each.                   *)
OwnSym(t) == IF t.line = 1 /\ t.kind = "def" /\ t.sym \in FileNames THEN <<t.sym>> ELSE <<>>

FileSyms(f) ==
    LET own == FlattenSeq([i \in DOMAIN f.targets |-> OwnSym(f.targets[i])])
    IN  IF own = <<>> THEN <<FileSym(f)>> ELSE own

Record(sym, pretty, kind) ==
    [sym |-> sym, pretty |-> pretty, kind |-> kind, parent |-> None, supers |-> <<>>,
     overrides |-> <<>>, binding_slots |-> <<>>, slot_owner |-> <<>>, methods |-> <<>>, fields |-> <<>>]

(* What the crossref run adds to a record.                                 *)
Fresh(r, subsystem) ==
    LET more == [subsystem |-> subsystem, subclass_syms |-> <<>>, overridden_by |-> <<>>,
                 labels |-> {}, ontology_slots |-> <<>>]
    IN  [k \in DOMAIN r \cup DOMAIN more |-> IF k \in DOMAIN r THEN r[k] ELSE more[k]]

FileItems(f, s) ==
    [NoItems EXCEPT !.structured = <<Fresh(Record(s, <<f.path>>, "file"), f.subsystem)>>,
                    !.prettys = << <<s, <<f.path>> >> >>,
                    !.ids = << << <<f.path>>, s>> >>]

MakeSubsystem(f) ==
    IF f.info THEN Each(LAMBDA s : FileItems(f, s), FileSyms(f)) ELSE NoItems

(* Mutant: the slots of an owner stay in its record.                       *)
SlotsLeft(r) == [r EXCEPT !.slot_owner = <<>>]

(* The slots are taken out of the record, and come back from both sides    *)
(* when all records are linked.                                            *)
Unslotted(r) == [r EXCEPT !.binding_slots = <<>>, !.slot_owner = <<>>]

ProcessStructured(f, r) ==
    LET subsystem == IF f.info THEN f.subsystem ELSE None
    IN  [NoItems EXCEPT
           !.subclass = [i \in DOMAIN r.supers |-> <<r.supers[i], r.sym>>],
           !.override = [i \in DOMAIN r.overrides |-> <<r.overrides[i], r.sym>>],
           !.slots = [i \in DOMAIN r.binding_slots |->
                         <<r.sym, r.binding_slots[i].sym, r.binding_slots[i].props, subsystem>>]
                     \o [i \in DOMAIN r.slot_owner |->
                         <<r.slot_owner[i].sym, r.sym, r.slot_owner[i].props, subsystem>>],
           !.structured = <<Fresh(Unslotted(r), subsystem)>>]

(* A record without a place has no target that names it.                   *)
External(r) ==
    IF r.line # 0 THEN NoItems
    ELSE [NoItems EXCEPT !.prettys = << <<r.sym, r.pretty>> >>,
                         !.ids = << <<r.pretty, r.sym>> >>, !.tops = <<r.sym>>]

ProcessTarget(f, t) ==
    LET context == ContextOf(f, t)
        known   == t.pretty # <<>> /\ t.line \in 1 .. f.lines
    IN  IF ~ known THEN NoItems
        ELSE [NoItems EXCEPT
           !.prettys = << <<t.sym, t.pretty>> >>,
           !.callees = IF t.kind = "use" /\ context # None
                       THEN << <<context, t.sym, f.path, t.line>> >> ELSE <<>>,
           !.hits = << <<t.sym, t.kind, f.path, [line |-> t.line, context |-> context]>> >>,
           !.ids = IF t.sym \in Unsuited THEN <<>>
                   ELSE [i \in DOMAIN t.pretty |-> <<PrettySuffixes(t.pretty)[i], t.sym>>]]

RecordItems(f, r) == Both(External(r), ProcessStructured(f, r))

ReadItems(f) ==
    Both(MakeSubsystem(f),
         Both(Each(LAMBDA r : RecordItems(f, r), f.structured),
              Each(LAMBDA t : ProcessTarget(f, t), f.targets)))

-----------------------------------------------------------------------------
(* Merging the vectors of one thread into the tables.                      *)

NoTables == [hits |-> <<>>, syms |-> {}, prettys |-> <<>>, ids |-> {}, callees |-> <<>>]

AddTo(f, key, more) == Put(f, key, IF key \in DOMAIN f THEN f[key] \o more ELSE more)

(* Only the lines of the first path are kept.                              *)
AddCallee(callees, c) ==
    LET key == <<c[1], c[2]>>
    IN  IF key \notin DOMAIN callees THEN Put(callees, key, [path |-> c[3], lines |-> {c[4]}])
        ELSE IF callees[key].path = c[3] THEN [callees EXCEPT ![key].lines = @ \cup {c[4]}]
        ELSE callees

HitKey(h) == <<h[1], h[2], h[3]>>

AddHit(hits, h) == AddTo(hits, HitKey(h), <<h[4]>>)

AddName(names, p) == Put(names, p[1], p[2])

AddHits(t, hits) == FoldLeft(AddHit, t, hits)
AddNames(t, prettys) == FoldLeft(AddName, t, prettys)

AddCallees(t, callees) == FoldLeft(AddCallee, t, callees)

MergeTables(t, items) ==
    [hits    |-> AddHits(t.hits, items.hits),
     syms    |-> t.syms \cup {h[1] : h \in ToSet(items.hits)} \cup ToSet(items.tops),
     prettys |-> AddNames(t.prettys, items.prettys),
     ids     |-> t.ids \cup ToSet(items.ids),
     callees |-> AddCallees(t.callees, items.callees)]

(* The first record of a symbol stays.                                     *)
AddRecord(m, r) == IF r.sym \in DOMAIN m THEN m ELSE Put(m, r.sym, r)

MergeMeta(m, records) == FoldLeft(AddRecord, m, records)

-----------------------------------------------------------------------------
ReadInit ==
    /\ files \in Trees
    /\ phase = "read"
    /\ next = [t \in Readers |-> StartOf(t)]
    /\ from = 0
    /\ out = [t \in Readers |-> NoItems]
    /\ tables = NoTables
    /\ meta = <<>>
    /\ slots = <<>>

ReadFile(t) ==
    /\ phase = "read" /\ next[t] < EndOf(t)
    /\ out' = [out EXCEPT ![t] = Both(@, ReadItems(files[next[t] + 1]))]
    /\ next' = [next EXCEPT ![t] = @ + 1]
    /\ UNCHANGED <<files, phase, from, tables, meta, slots>>

ReadersJoined ==
    /\ phase = "read" /\ \A t \in Readers : next[t] = EndOf(t)
    /\ phase' = "merge"
    /\ UNCHANGED <<files, next, from, out, tables, meta, slots>>

MergeOut ==
    /\ phase = "merge"
    /\ IF from < thread_count
       THEN /\ tables' = MergeTables(tables, out[from])
            /\ meta' = MergeMeta(meta, out[from].structured)
            /\ from' = from + 1
            /\ UNCHANGED phase
       ELSE /\ phase' = "link"
            /\ from' = 0
            /\ UNCHANGED <<tables, meta>>
    /\ UNCHANGED <<files, next, out, slots>>

(* The second symbol is added to the record of the first, if there is one; *)
(* the same one may come twice.                                            *)
AddSubclass(m, p) ==
    IF p[1] \in DOMAIN m THEN [m EXCEPT ![p[1]].subclass_syms = Append(@, p[2])] ELSE m

AddOverride(m, p) ==
    IF p[1] \in DOMAIN m THEN [m EXCEPT ![p[1]].overridden_by = Append(@, p[2])] ELSE m

LinkSubclasses(m, pairs) == FoldLeft(AddSubclass, m, pairs)
LinkOverrides(m, pairs) == FoldLeft(AddOverride, m, pairs)

(* The last one of an owner and a slotted symbol stays.                    *)
AddSlot(all, s) == Put(all, <<s[1], s[2]>>, s)

SlotLinks(all, items) == FoldLeft(AddSlot, all, items)

LinkOut ==
    /\ phase = "link"
    /\ IF from < thread_count
       THEN /\ meta' = LinkOverrides(LinkSubclasses(meta, out[from].subclass), out[from].override)
            /\ slots' = SlotLinks(slots, out[from].slots)
            /\ from' = from + 1
            /\ UNCHANGED phase
       ELSE /\ phase' = "slots"
            /\ UNCHANGED <<meta, slots, from>>
    /\ UNCHANGED <<files, next, out, tables>>

LinkSlot(m, s) ==
    LET asOwner == IF s[1] \in DOMAIN m
                   THEN [m EXCEPT ![s[1]].binding_slots = Append(@, [sym |-> s[2], props |-> s[3]]),
                                  ![s[1]].subsystem = IF @ = None THEN s[4] ELSE @]
                   ELSE m
    IN  IF s[2] \in DOMAIN asOwner
        THEN [asOwner EXCEPT ![s[2]].slot_owner = <<[sym |-> s[1], props |-> s[3]]>>,
                             ![s[2]].subsystem = s[4]]
        ELSE asOwner

(* In the order of the keys, for stable results.                           *)
SlotAt(owner, slotted) ==
    IF <<owner, slotted>> \in DOMAIN slots THEN << slots[<<owner, slotted>>] >> ELSE <<>>

SlotsInOrder ==
    FlattenSeq([i \in DOMAIN SymOrder |->
                   FlattenSeq([j \in DOMAIN SymOrder |-> SlotAt(SymOrder[i], SymOrder[j])])])

LinkAll(m, links) == FoldLeft(LinkSlot, m, links)

LinkSlots ==
    /\ phase = "slots"
    /\ meta' = LinkAll(meta, SlotsInOrder)
    /\ phase' = "fields"
    /\ UNCHANGED <<files, next, from, out, tables, slots>>

ReadNext == (\E t \in Readers : ReadFile(t)) \/ ReadersJoined \/ MergeOut \/ LinkOut \/ LinkSlots

ReadSpec == ReadInit /\ [][ReadNext]_readVars

-----------------------------------------------------------------------------
Merged == phase \notin {"read", "merge"}
Linked == Merged /\ phase \notin {"link", "slots"}

(* What the tables hold of a list of items, first to last.                 *)
NamesOf(table, q) ==
    /\ DOMAIN table = {p[1] : p \in ToSet(q)}
    /\ \A i \in DOMAIN q :
          (\A j \in DOMAIN q : i < j => q[j][1] # q[i][1]) => table[q[i][1]] = q[i][2]

Stated == {"sym", "pretty", "kind", "supers", "overrides"}

RecordsOf(table, q) ==
    /\ DOMAIN table = {r.sym : r \in ToSet(q)}
    /\ \A i \in DOMAIN q :
          (\A j \in DOMAIN q : j < i => q[j].sym # q[i].sym) =>
              \A k \in Stated : table[q[i].sym][k] = q[i][k]

HitsAt(q, key) == FlattenSeq([i \in DOMAIN q |-> IF HitKey(q[i]) = key THEN <<q[i][4]>> ELSE <<>>])

HitsOf(table, q) ==
    /\ DOMAIN table = {HitKey(h) : h \in ToSet(q)}
    /\ \A key \in DOMAIN table : table[key] = HitsAt(q, key)

SameCall(c, d) == c[1] = d[1] /\ c[2] = d[2]

CalleesOf(table, q) ==
    /\ DOMAIN table = {<<c[1], c[2]>> : c \in ToSet(q)}
    /\ \A i \in DOMAIN q :
          (\A j \in DOMAIN q : j < i => ~SameCall(q[j], q[i])) =>
              table[<<q[i][1], q[i][2]>>] =
                  [path |-> q[i][3],
                   lines |-> {c[4] : c \in {d \in ToSet(q) : SameCall(d, q[i]) /\ d[3] = q[i][3]}}]

TablesOf(items) ==
    /\ HitsOf(tables.hits, items.hits)
    /\ tables.syms = {h[1] : h \in ToSet(items.hits)} \cup ToSet(items.tops)
    /\ NamesOf(tables.prettys, items.prettys)
    /\ tables.ids = ToSet(items.ids)
    /\ CalleesOf(tables.callees, items.callees)
    /\ RecordsOf(meta, items.structured)

(* How many threads read the files makes no difference: every table is     *)
(* what the first to the last file give one after the other, so the hits   *)
(* are in that order, and the first record of a symbol, the first path of  *)
(* a call and the last name of a symbol stay (read_analysis_files).        *)
ThreadsDoNotMatter == Merged => TablesOf(Each(ReadItems, files))

(* The lines that the edge of a diagram jumps to are the calls in one      *)
(* file, and all of them (callees_table).                                  *)
CalleeLinesInOneFile ==
    Merged => \A k \in DOMAIN tables.callees :
        LET c  == tables.callees[k]
            f  == CHOOSE g \in ToSet(files) : g.path = c.path
        IN  c.lines = {t.line : t \in {u \in ToSet(f.targets) :
                          /\ u.sym = k[2] /\ u.kind = "use" /\ u.pretty # <<>>
                          /\ ContextOf(f, u) = k[1] /\ u.line \in 1 .. f.lines}}

(* A link that a record states can be followed from both ends, if both are *)
(* known: a super knows its subclass, a method what overrides it, a slot   *)
(* its owner and the owner its slot, which it has only once.               *)
LinksBothWays ==
    Linked => \A r \in {meta[s] : s \in DOMAIN meta} :
        /\ \A s \in ToSet(r.supers) \cap DOMAIN meta : r.sym \in ToSet(meta[s].subclass_syms)
        /\ \A s \in ToSet(r.overrides) \cap DOMAIN meta : r.sym \in ToSet(meta[s].overridden_by)
        /\ \A o \in ToSet(r.slot_owner) : o.sym \in DOMAIN meta =>
              \E b \in ToSet(meta[o.sym].binding_slots) : b.sym = r.sym /\ b.props = o.props
        /\ \A b \in ToSet(r.binding_slots) : b.sym \in DOMAIN meta => meta[b.sym].slot_owner # <<>>
        /\ \A i, j \in DOMAIN r.binding_slots : r.binding_slots[i].sym = r.binding_slots[j].sym => i = j

=============================================================================
