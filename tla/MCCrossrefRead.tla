--------------------------- MODULE MCCrossrefRead ---------------------------
(* Every list of up to three small files that disagree about their symbols, *)
(* read by two threads; every hierarchy of four methods and of four classes *)
(* under the rules, acyclic as programs are; and slots of up to three        *)
(* owners.                                                                   *)
EXTENDS Ontology

MCSymOrder == <<"FILE_a", "FILE_b", "FILE_c", "T_A", "T_B", "T_C", "T_Outer", "c1", "c2", "f1",
                "i1", "i2", "i3", "js", "m1", "m2", "m3", "m4", "run">>
MCFileNames == {"FILE_a", "FILE_b", "FILE_c"}
MCTypeSyms == {"T_A", "T_B", "T_C", "T_Outer"}

Target(line, kind, sym, pretty, context) ==
    [line |-> line, kind |-> kind, sym |-> sym, pretty |-> pretty, context |-> context]

File(path, lines, info, structured, targets) ==
    [path |-> path, lines |-> lines, info |-> info, subsystem |-> IF path = "a" THEN "Core" ELSE None,
     targets |-> targets, structured |-> structured]

Rec(line, sym, pretty, kind) == [line |-> line] @@ Record(sym, pretty, kind)

-----------------------------------------------------------------------------
(* Files that disagree.                                                    *)

Templates(path) ==
    {File(path, 2, TRUE, <<Rec(1, "m1", <<"A", "go">>, "method")>>,
          <<Target(1, "def", "m1", <<"A", "go">>, None), Target(2, "use", "m2", <<"B", "run">>, "m1"),
            Target(1, "use", "m2", <<"B", "run">>, "m1")>>),
     File(path, 2, FALSE, <<[Rec(0, "m1", <<"A", "stop">>, "class") EXCEPT !.supers = <<"T_A", "T_A">>]>>,
          <<Target(1, "def", "FILE_a", <<"a">>, None), Target(2, "use", "m2", <<"B", "fly">>, "m1"),
            Target(3, "def", "m3", <<"late">>, None)>>),
     File(path, 0, TRUE, <<Rec(0, "T_A", <<"A">>, "class")>>, <<Target(1, "def", "m3", <<>>, None)>>)}

Paths == <<"a", "b", "c">>
Lists == UNION {{s \in [1 .. n -> UNION {Templates(Paths[i]) : i \in 1 .. n}] :
                    \A i \in 1 .. n : s[i].path = Paths[i]} : n \in 0 .. 3}

-----------------------------------------------------------------------------
(* Hierarchies.  "run" is the runnable; m1 belongs to nothing, m2 to a     *)
(* class that has no record, m3 and m4 to classes with constructors.       *)

Methods == <<"m1", "m2", "m3", "m4">>
Below4(i) == SUBSET ({"run"} \cup {Methods[j] : j \in 1 .. i - 1})

MethodTree(o) ==
    LET m(i, parent) == [Rec(1, Methods[i], <<"M", Methods[i]>>, "method")
                            EXCEPT !.parent = parent, !.overrides = SetToSeq(o[i])]
        class(s, name, con) == [Rec(1, s, <<name>>, "class")
                            EXCEPT !.methods = <<[sym |-> con, pretty |-> <<name, name>>],
                                                 [sym |-> "m4", pretty |-> <<name, "other">>]>>]
    IN  <<File("a", 2, TRUE,
            <<Rec(1, "run", <<"Runnable", "Run">>, "method"), m(1, None), m(2, "T_C"), m(3, "T_A"), m(4, "T_B"),
              class("T_A", "A", "c1"), class("T_B", "B", "c2"), Rec(1, "c1", <<"A", "A">>, "method")>>,
            <<Target(1, "def", "run", <<"Runnable", "Run">>, None),
              Target(1, "def", "c1", <<"A", "A">>, None)>>)>>

MethodTrees == {MethodTree(o) : o \in {p \in [1 .. 4 -> SUBSET ({"run", "m1", "m2", "m3"})] :
                                          \A i \in 1 .. 4 : p[i] \in Below4(i)}}

(* Types: three levels of templates around classes, of which "Value" and     *)
(* "Nothing" do not count.  No comma follows a name with a "*" or "&", and *)
(* "Nothing" is never the last of several: the parser takes them wrongly   *)
(* (a name is lost, or counts after all).                                  *)
MCTypes == (<<"Ref">> :> [kind |-> "pointer", ptr |-> "strong", arg |-> 1])
           @@ (<<"Map">> :> [kind |-> "pointer", ptr |-> "unique", arg |-> 2])
           @@ (<<"Array">> :> [kind |-> "container"]) @@ (<<"Value">> :> [kind |-> "value"])
           @@ (<<"Atomic">> :> [kind |-> "decorator", labels |-> {"atomic"}])
           @@ (<<"Nothing">> :> [kind |-> "nothing"])

Type(name, tag, suffix, args) == [name |-> <<name>>, tag |-> tag, suffix |-> suffix, args |-> args]
Plain(name) == Type(name, TRUE, "", <<>>)

Suffixes0 == {"", "*", "&"}
Leaves(suffixes) == {Type(n, TRUE, s, <<>>) : n \in {"A", "Value"}, s \in suffixes}
                    \cup {Type("C", FALSE, s, <<>>) : s \in suffixes}
Templates1(suffixes) ==
    {Type(n, TRUE, s, <<l>>) : n \in {"Ref", "Array", "Atomic", "C"}, s \in suffixes, l \in Leaves(Suffixes0)}
    \cup {Type(n, FALSE, s, <<k, l>>) : n \in {"Map", "Array"}, s \in suffixes,
             k \in Leaves({""}) \cup {Plain("Nothing")}, l \in Leaves({"", "*"})}
Around(t) ==
    <<t, Type("Ref", TRUE, "", <<t>>), Type("Array", TRUE, "", <<t>>), Type("C", TRUE, "*", <<t>>)>>
    \o IF t.suffix # "" /\ t.args = <<>> THEN <<>>
       ELSE <<Type("Map", TRUE, "", <<t, Plain("A")>>), Type("Array", TRUE, "", <<t, Plain("A")>>)>>

TypeTree(t) ==
    <<File("a", 2, TRUE,
        <<[Rec(0, "T_A", <<"A">>, "class") EXCEPT !.fields =
              [i \in DOMAIN Around(t) |->
                  [sym |-> "f1", pretty |-> <<"A", "f">>, type_sym |-> "t", type |-> Around(t)[i]]]],
          Rec(0, "T_C", <<"C">>, "class"), Rec(0, "T_B", <<"C">>, "class"), Rec(0, "T_Outer", <<"Ref">>, "class")>>,
        <<>>)>>

TypeTrees == {TypeTree(t) : t \in Leaves(Suffixes0) \cup Templates1(Suffixes0)}

(* T_A is the class of the rule; T_B and T_C are inner classes of T_Outer  *)
(* or of nothing, and may have no record.                                  *)
ClassTree(b, c, inB, inC, knownB, context) ==
    LET outer(in, name) == IF in THEN <<"Outer", name>> ELSE <<name>>
        field == [sym |-> "f1", pretty |-> <<"Outer", "f">>, type_sym |-> "t", type |-> Plain("A")]
    IN  <<File("a", 2, TRUE,
            <<Rec(1, "T_A", <<"A">>, "class"),
              [Rec(1, "T_Outer", <<"Outer">>, "class") EXCEPT !.fields = <<field>>],
              [Rec(1, "T_C", outer(inC, "In"), "class") EXCEPT !.supers = SetToSeq(c)]>>
            \o IF knownB THEN <<[Rec(1, "T_B", outer(inB, "In"), "class") EXCEPT !.supers = SetToSeq(b)]>> ELSE <<>>,
            <<Target(1, "def", "T_A", <<"A">>, None), Target(1, "def", "T_Outer", <<"Outer">>, None),
              Target(2, "def", "T_B", outer(inB, "In"), None), Target(2, "def", "T_C", outer(inC, "In"), None),
              Target(2, "use", "f1", <<"Outer", "f">>, context)>>)>>

ClassTrees == {ClassTree(b, c, inB, inC, knownB, context) :
                 b \in SUBSET {"T_A"}, c \in SUBSET {"T_A", "T_B"}, inB \in BOOLEAN, inC \in BOOLEAN,
                 knownB \in BOOLEAN, context \in {"m1", "m2", None}}

(* The slots of an IDL symbol, stated by the owner, the slotted symbol or  *)
(* both, in one file or two.                                               *)
SlotTree(owners, back, split) ==
    LET slot(s) == [sym |-> s, props |-> [lang |-> "js"]]
        idl(i)  == [Rec(0, i, <<i>>, "idl") EXCEPT
                      !.binding_slots = IF i \in owners THEN <<slot("js")>> ELSE <<>>]
        js      == [Rec(0, "js", <<"js">>, "prop") EXCEPT
                      !.slot_owner = IF back = None THEN <<>> ELSE <<slot(back)>>]
    IN  IF split THEN <<File("a", 1, TRUE, <<idl("i1"), idl("i2")>>, <<>>),
                        File("b", 1, TRUE, <<idl("i3"), js>>, <<>>),
                        File("c", 1, TRUE, <<js>>, <<>>)>>
        ELSE <<File("a", 1, TRUE, <<idl("i1"), idl("i2"), idl("i3"), js>>, <<>>)>>

SlotTrees == {SlotTree(o, b, s) : o \in SUBSET {"i1", "i2", "i3"}, b \in {None, "i1", "i3"}, s \in BOOLEAN}

MCTrees == Lists \cup MethodTrees \cup ClassTrees \cup SlotTrees \cup TypeTrees

Rule(pretty) == [pretty |-> pretty, labels |-> {}, runnable |-> None, containing |-> {},
                 field_uses |-> {}, owning |-> {}]

MCRules == {[Rule(<<"Runnable", "Run">>) EXCEPT !.runnable = "constructor", !.labels = {"runnable"}],
            [Rule(<<"M", "m2">>) EXCEPT !.runnable = "class"],
            [Rule(<<"A">>) EXCEPT !.containing = {"cc"}, !.field_uses = {<<{"m1"}, "traced">>},
                                  !.owning = {"owns"}]}

=============================================================================
