------------------------------ MODULE Ontology ------------------------------
(***************************************************************************)
(* What the crossref run derives from the linked records before it writes  *)
(* them (tools/src/bin/crossref.rs): the classes that fields point to, the *)
(* slots and labels of the rules of ontology-mapping.toml, and the IDL     *)
(* symbols of a JS symbol.  Rules walk overrides and subclasses with a     *)
(* work list that does not remember what it has seen.                      *)
(*                                                                         *)
(* The rules come in the order of a hash map: any.  A field of a class has *)
(* the pointers that the parser of types finds in its type.                *)
(***************************************************************************)
EXTENDS CrossrefRead, TypeParser

CONSTANTS Rules,     \* [pretty, labels, runnable, containing, field_uses, owning]
          TypeSyms,  \* symbols that start with "T_"
          JvmSyms,   \* symbols that start with "S_jvm_"
          MaxJsIdl   \* MAX_JS_IDL_SYMS

VARIABLES todo,        \* the rules that are not processed yet
          rule,        \* the one that is
          step,        \* "pick", "runnable", "containing" or "field_uses"
          work,        \* pending_method_syms or investigate_class_syms
          field_uses,  \* field_member_use_table: <<pointee, class, field, kind>>
          js_idl       \* js_idl_table

ruleVars == <<todo, rule, step, work, field_uses, js_idl>>
vars     == <<readVars, ruleVars>>

Known == DOMAIN meta

Symbols(pretty) == {s \in ToSet(SymOrder) : <<pretty, s>> \in tables.ids}

InOrder(set) == SelectSeq(SymOrder, LAMBDA s : s \in set)

Gathered(syms, Of(_)) == FlattenSeq([i \in DOMAIN syms |-> IF syms[i] \in Known THEN Of(syms[i]) ELSE <<>>])

Overriding(s) == meta[s].overridden_by
Subclasses(s) == meta[s].subclass_syms

Init ==
    /\ ReadInit
    /\ todo = Rules
    /\ rule = None /\ step = "pick" /\ work = <<>>
    /\ field_uses = {} /\ js_idl = <<>>

-----------------------------------------------------------------------------
(* process_class_fields                                                    *)

Candidates(pretty) == Symbols(pretty) \cap TypeSyms

(* The type of a field as it is printed, and the pointers found in it.     *)
Parsed(f) == Parse(Printed(f.type))

(* Which of several types of a name a hash set gives first is not fixed.   *)
PointeeChoices ==
    LET fields == UNION {ToSet(meta[s].fields) : s \in Known}
        named  == UNION {{p[2] : p \in ToSet(Parsed(f).results)} : f \in fields}
        fixed  == {n \in named : Cardinality(Candidates(n)) <= 1}
        first  == [n \in fixed |-> IF Candidates(n) = {} THEN None ELSE CHOOSE s \in Candidates(n) : TRUE]
    IN  {c @@ first : c \in {d \in [named \ fixed -> TypeSyms] : \A n \in DOMAIN d : d[n] \in Candidates(n)}}

Pointers(results, choice) ==
    LET found == SelectSeq(results, LAMBDA p : choice[p[2]] # None)
    IN  [i \in DOMAIN found |-> <<found[i][1], choice[found[i][2]]>>]

OwningLabels(f) ==
    UNION {r.owning : r \in {q \in Rules : Printed(f.type) = <<"class", " ">> \o q.pretty}}

HasFields(r) == r.kind \in {"class", "struct"}
Typed(f)     == f.type_sym # None

ProcessClassFields ==
    /\ phase = "fields"
    /\ \E choice \in PointeeChoices :
         LET Field(f) == f @@ [pointer_info |-> IF Typed(f) THEN Pointers(Parsed(f).results, choice) ELSE <<>>, labels |-> {}]
             Class(r) == IF ~ HasFields(r) THEN r
                         ELSE [r EXCEPT
                           !.fields = [i \in DOMAIN r.fields |-> Field(r.fields[i])],
                           !.labels = @ \cup UNION {OwningLabels(f) \cup Parsed(f).labels :
                                                      f \in {g \in ToSet(r.fields) : Typed(g)}}]
         IN  /\ meta' = [s \in Known |-> Class(meta[s])]
             /\ field_uses' = UNION {UNION {
                    {<<p[2], s, f.pretty, p[1]>> : p \in ToSet(f.pointer_info)}
                        : f \in ToSet(meta'[s].fields)} : s \in {t \in Known : HasFields(meta[t])}}
    /\ phase' = "rules"
    /\ UNCHANGED <<files, next, from, out, tables, slots, todo, rule, step, work, js_idl>>

-----------------------------------------------------------------------------
(* process_ontology_rules                                                  *)

Labelled(m, syms, labels) ==
    [s \in DOMAIN m |-> IF s \in syms THEN [m[s] EXCEPT !.labels = @ \cup labels] ELSE m[s]]

PickRule ==
    /\ phase = "rules" /\ step = "pick"
    /\ \E r \in todo :
         /\ rule' = r
         /\ todo' = todo \ {r}
         /\ meta' = Labelled(meta, Symbols(r.pretty), r.labels)
         /\ work' = IF r.runnable = None THEN <<>> ELSE Gathered(InOrder(Symbols(r.pretty)), Overriding)
    /\ step' = "runnable"
    /\ UNCHANGED <<files, phase, next, from, out, tables, slots, field_uses, js_idl>>

IsJvm(r) == Symbols(r.pretty) \cap JvmSyms # {}

(* The constructors that the search knows, or the class itself.            *)
Linkage(r, class) ==
    IF r.runnable = "class" THEN <<class>>
    ELSE LET c    == meta[class]
             name == IF IsJvm(r) THEN "<init>" ELSE Last(c.pretty)
             cons == SelectSeq(c.methods, LAMBDA m :
                        m.pretty = Append(c.pretty, name) /\ m.sym \in tables.syms)
         IN  [i \in DOMAIN cons |-> cons[i].sym]

HasOwner(r, m) == meta[m].parent # None /\ (r.runnable = "class" \/ meta[m].parent \in Known)

WithSlot(m, sym, kind, syms) ==
    IF sym \in DOMAIN m
    THEN [m EXCEPT ![sym].ontology_slots = Append(@, [kind |-> kind, syms |-> syms])]
    ELSE m

Pushed(r, m) == IF m \in Known THEN Overriding(m) ELSE <<>>

ProcessMethod ==
    /\ phase = "rules" /\ step = "runnable" /\ work # <<>>
    /\ LET method == Last(work)
       IN  /\ work' = Front(work) \o Pushed(rule, method)
           /\ meta' = IF method \notin Known \/ ~ HasOwner(rule, method) THEN meta
                      ELSE LET cons   == Linkage(rule, meta[method].parent)
                               linked == FoldLeft(LAMBDA m, c : WithSlot(m, c, "RunnableMethod", <<method>>),
                                                  meta, cons)
                           IN  WithSlot(linked, method, "RunnableConstructor", cons)
    /\ UNCHANGED <<files, phase, next, from, out, tables, slots, todo, rule, step, field_uses, js_idl>>

(* Mutant: a rule that does not ask for a walk is never done with.         *)
ReadyIfWanted(before, wanted) == step = before /\ work = <<>> /\ wanted

(* The walk before is over.                                                *)
Ready(before, wanted) == step = before /\ work = <<>>

(* Both walks over classes start below the symbols of the rule.            *)
StartWalk(before, after, wanted) ==
    /\ phase = "rules" /\ Ready(before, wanted)
    /\ work' = IF wanted THEN Gathered(InOrder(Symbols(rule.pretty)), Subclasses) ELSE <<>>
    /\ step' = after
    /\ UNCHANGED <<files, phase, next, from, out, tables, meta, slots, todo, rule, field_uses, js_idl>>

StartContaining == StartWalk("runnable", "containing", rule.containing # {})
StartFieldUses  == StartWalk("containing", "field_uses", rule.field_uses # {})

(* A record has no reference to the class around it: its name has.         *)
Containing(class) == Symbols(Front(meta[class].pretty))

(* Mutant: classes that are not an inner class end the walk.               *)
SubclassesOfInner(class) == IF Containing(class) # {} THEN Subclasses(class) ELSE <<>>

WalkOn(class) == Subclasses(class)

WalkContaining ==
    /\ phase = "rules" /\ step = "containing" /\ work # <<>>
    /\ LET class == Last(work)
       IN  IF class \notin Known THEN work' = Front(work) /\ UNCHANGED meta
           ELSE /\ work' = Front(work) \o WalkOn(class)
                /\ meta' = Labelled(meta, Containing(class), rule.containing)
    /\ UNCHANGED <<files, phase, next, from, out, tables, slots, todo, rule, step, field_uses, js_idl>>

ContextsUsing(sym) ==
    UNION {{h.context : h \in ToSet(tables.hits[k])} :
              k \in {j \in DOMAIN tables.hits : j[1] = sym /\ j[2] = "use"}}

(* field_uses has <<symbols whose name ends with the suffix, label>>.      *)
UseLabels(r, sym) == {u[2] : u \in {v \in r.field_uses : v[1] \cap ContextsUsing(sym) # {}}}

FieldsLabelled(m, syms, r) ==
    [s \in DOMAIN m |->
        IF s \notin syms \/ ~ HasFields(m[s]) THEN m[s]
        ELSE [m[s] EXCEPT !.fields = [i \in DOMAIN @ |->
                 [@[i] EXCEPT !.labels = @ \cup UseLabels(r, m[s].fields[i].sym)]]]]

WalkFieldUses ==
    /\ phase = "rules" /\ step = "field_uses" /\ work # <<>>
    /\ LET class == Last(work)
       IN  IF class \notin Known THEN work' = Front(work) /\ UNCHANGED meta
           ELSE /\ work' = Front(work) \o WalkOn(class)
                /\ meta' = FieldsLabelled(meta, Containing(class), rule)
    /\ UNCHANGED <<files, phase, next, from, out, tables, slots, todo, rule, step, field_uses, js_idl>>

RuleDone ==
    /\ phase = "rules" /\ step = "field_uses" /\ work = <<>>
    /\ step' = "pick" /\ rule' = None
    /\ UNCHANGED <<files, phase, next, from, out, tables, meta, slots, todo, work, field_uses, js_idl>>

-----------------------------------------------------------------------------
(* create_js_idl_table                                                     *)

JsSlots(s) == SelectSeq(meta[s].binding_slots, LAMBDA b : b.props.lang = "js")

AddIdl(table, js, idl) ==
    IF js \in DOMAIN table /\ Len(table[js]) >= MaxJsIdl THEN table ELSE AddTo(table, js, <<idl>>)

CreateJsIdl ==
    /\ phase = "rules" /\ step = "pick" /\ todo = {}
    /\ js_idl' = FoldLeft(LAMBDA table, s :
                     FoldLeft(LAMBDA t, b : AddIdl(t, b.sym, s), table, JsSlots(s)),
                     <<>>, InOrder(Known))
    /\ phase' = "done"
    /\ UNCHANGED <<files, next, from, out, tables, meta, slots, todo, rule, step, work, field_uses>>

(* What the writer puts into the record of a JS symbol.                    *)
IdlSyms(js) == IF js \in DOMAIN js_idl /\ Len(js_idl[js]) < MaxJsIdl THEN js_idl[js] ELSE <<>>

RuleStep == PickRule \/ ProcessMethod \/ StartContaining \/ WalkContaining
            \/ StartFieldUses \/ WalkFieldUses \/ RuleDone

Next == \/ /\ ReadNext
           /\ UNCHANGED ruleVars
        \/ ProcessClassFields
        \/ RuleStep
        \/ CreateJsIdl

(* ENABLED Next, written out.                                              *)
StepPossible ==
    CASE phase = "read"  -> \/ \E t \in Readers : next[t] < EndOf(t)
                            \/ \A t \in Readers : next[t] = EndOf(t)
      [] phase = "rules" -> \/ step \in {"pick", "field_uses"} \/ work # <<>>
                            \/ Ready("runnable", rule.containing # {})
                            \/ Ready("containing", rule.field_uses # {})
      [] OTHER           -> phase # "done"

(* WF_vars(Next): the program runs until it ends.                          *)
Fairness == []<>~ StepPossible \/ []<><<Next>>_vars

Spec == Init /\ [][Next]_vars /\ Fairness

-----------------------------------------------------------------------------
(* What is reached from a set of symbols through links of known records.   *)
Reached(some, Of(_)) ==
    LET step1(set) == set \cup UNION {ToSet(Of(s)) : s \in set \cap Known}
    IN  FoldLeft(LAMBDA set, i : step1(set), some, SymOrder)

Below(r, Of(_)) == Reached(UNION {ToSet(Of(s)) : s \in Symbols(r.pretty) \cap Known}, Of)

Runnables(r) == IF r.runnable = None THEN {} ELSE {m \in Below(r, Overriding) \cap Known : HasOwner(r, m)}

LinkedTo(m, kind) == {ToSet(o.syms) : o \in {p \in ToSet(meta[m].ontology_slots) : p.kind = kind}}

(* In whatever order the rules are applied, each overriding method of a    *)
(* runnable, however far below it, is linked with the constructors of its  *)
(* class, and a known constructor with the method; and exactly the classes *)
(* around an inner class below the class of a rule have its labels         *)
(* (process_ontology_rules).                                               *)
RulesExact ==
    phase = "done" => \A s \in Known :
        /\ LinkedTo(s, "RunnableConstructor") =
              {ToSet(Linkage(r, meta[s].parent)) : r \in {q \in Rules : s \in Runnables(q)}}
        /\ UNION LinkedTo(s, "RunnableMethod") =
              UNION {{m \in Runnables(r) : s \in ToSet(Linkage(r, meta[m].parent))} : r \in Rules}
        /\ \A r \in Rules : \A l \in r.containing :
              l \in meta[s].labels <=>
                 \E c \in Below(r, Subclasses) \cap Known : s \in Containing(c)
        /\ \A f \in ToSet(meta[s].fields) : \A r \in Rules : \A u \in r.field_uses :
              HasFields(meta[s]) =>
                 (u[2] \in f.labels <=> /\ u[1] \cap ContextsUsing(f.sym) # {}
                                        /\ \E c \in Below(r, Subclasses) \cap Known : s \in Containing(c))

(* A field points to the types that its type means, however types are      *)
(* nested, and the types know of it (process_class_fields).                *)
FieldsPointRight ==
    phase = "rules" =>
        LET uses(s) == UNION {{<<p[2], s, f.pretty, p[1]>> : p \in ToSet(f.pointer_info)} :
                                 f \in ToSet(meta[s].fields)}
        IN  /\ \A s \in {t \in Known : HasFields(meta[t])} : \A f \in ToSet(meta[s].fields) :
                  LET meant == SelectSeq(Meaning(f.type), LAMBDA p : Candidates(p[2]) # {})
                  IN  /\ Len(f.pointer_info) = Len(meant)
                      /\ \A i \in DOMAIN meant : /\ f.pointer_info[i][1] = meant[i][1]
                                                /\ f.pointer_info[i][2] \in Candidates(meant[i][2])
            /\ field_uses = UNION {uses(s) : s \in {t \in Known : HasFields(meta[t])}}

(* The IDL symbols shown for a JS symbol are all there are: too many of    *)
(* them are not shown at all, never a part of them (MAX_JS_IDL_SYMS).      *)
IdlSymsAllOrNone ==
    phase = "done" => \A js \in DOMAIN js_idl :
        IdlSyms(js) # <<>> => ToSet(IdlSyms(js)) = {s \in Known : \E b \in ToSet(JsSlots(s)) : b.sym = js}

(* What is derived from the records is so, and all that is so: lines of    *)
(* calls, classes that fields point to, what rules add, and IDL symbols.   *)
OntologyTrue == CalleeLinesInOneFile /\ FieldsPointRight /\ RulesExact /\ IdlSymsAllOrNone

(* The work lists run empty and the tables are complete.                   *)
RulesEnd == <>(phase = "done")

=============================================================================
