----------------------------- MODULE TypeParser -----------------------------
(***************************************************************************)
(* What the type of a field says about pointers (maybe_parse_type_as_      *)
(* pointer in tools/src/file_format/ontology_mapping.rs): a parser of one  *)
(* character at a time that keeps a stack of the types it is inside of and *)
(* reports the pointers it finds whenever a ">" closes one.                *)
(*                                                                         *)
(* A text is a sequence of characters: " ", "*", "&", "<", "," and ">",    *)
(* and words, each taken for one character of a token.                     *)
(***************************************************************************)
EXTENDS Integers, Sequences, SequencesExt

CONSTANTS Types,    \* config.types: what is known of some names
          Numbers   \* words that are numbers

(* A ShoddyType.                                                           *)
NoType == [pointer |-> FALSE, ref |-> FALSE, tag |-> FALSE, nothing |-> FALSE,
           identifier |-> <<>>, args |-> <<>>, consumed |-> FALSE]

Start == [state |-> "typish", stack |-> <<>>, cur |-> NoType, token |-> <<>>,
          results |-> <<>>, labels |-> {}, end |-> "none"]

KindOf(name) == IF name \in DOMAIN Types THEN Types[name].kind ELSE "unknown"

Named(p)    == [p EXCEPT !.cur.identifier = p.token, !.token = <<>>]
Returned(p) == [p EXCEPT !.end = "returned"]

Space(p) ==
    CASE p.token = <<>> -> p
      [] p.token = <<"const">> -> [p EXCEPT !.token = <<>>]
      [] p.token \in {<<"union">>, <<"enum">>} -> Returned(p)
      [] p.token \in {<<"class">>, <<"struct">>} -> [p EXCEPT !.cur.tag = TRUE, !.token = <<>>]
      [] p.token # <<>> /\ ToSet(p.token) \subseteq Numbers -> Returned(p)
      [] OTHER -> Named(p)

Open(p) ==
    LET q == Named(p)
    IN  [q EXCEPT !.stack = Append(@, q.cur), !.cur = NoType]

(* The current type goes to the one around it.                             *)
NextArgument(p) ==
    IF p.stack = <<>> THEN Returned(p)
    ELSE [p EXCEPT !.stack = Append(Front(@), [Last(@) EXCEPT !.args = Append(@, p.cur)]),
                   !.cur = NoType, !.state = "typish"]

Comma(p) ==
    LET q == Named(p)
    IN  NextArgument([q EXCEPT !.cur.nothing = KindOf(q.cur.identifier) = "nothing"])

(* What the arguments of a decorator, a container or a variant contain.    *)
Contained(args) ==
    LET counts(t) == /\ ~ t.consumed /\ ~ t.nothing
                     /\ t.pointer \/ t.ref \/ (t.tag /\ KindOf(t.identifier) # "value")
        found == SelectSeq(args, counts)
    IN  [i \in DOMAIN found |->
            <<IF found[i].pointer THEN "raw" ELSE IF found[i].ref THEN "ref" ELSE "contains",
              found[i].identifier>>]

(* A pointer is consumed with its argument.                                *)
Pointer(p, t, type) ==
    IF type.arg > Len(t.args) THEN p
    ELSE LET pointee == t.args[type.arg]
         IN  [p EXCEPT !.cur.consumed = TRUE,
                       !.results = IF pointee.tag /\ KindOf(pointee.identifier) # "value"
                                   THEN Append(@, <<type.ptr, pointee.identifier>>) ELSE @]

Evaluate(p) ==
    LET kind == KindOf(p.cur.identifier)
        type == Types[p.cur.identifier]
    IN  CASE kind = "pointer" -> Pointer(p, p.cur, type)
          [] kind = "nothing" -> [p EXCEPT !.cur.nothing = TRUE]
          [] kind = "decorator" -> [p EXCEPT !.labels = @ \cup type.labels,
                                             !.results = @ \o Contained(p.cur.args)]
          [] kind \in {"container", "variant"} -> [p EXCEPT !.results = @ \o Contained(p.cur.args)]
          [] OTHER -> p

Close(p) ==
    LET q == IF p.state = "typish" /\ p.token # <<>> THEN Named(p) ELSE p
    IN  IF q.stack = <<>> THEN Returned(q)
        ELSE [Evaluate([q EXCEPT !.stack = Front(@),
                                 !.cur = [Last(q.stack) EXCEPT !.args = Append(@, q.cur)]])
                 EXCEPT !.state = "closing"]

Typish(p, c) ==
    CASE c = " " -> Space(p)
      [] c = "*" -> [p EXCEPT !.cur.pointer = TRUE, !.token = <<>>]
      [] c = "&" -> [p EXCEPT !.cur.ref = TRUE]
      [] c = "<" -> Open(p)
      [] c = "," -> Comma(p)
      [] c = ">" -> Close(p)
      [] OTHER -> [p EXCEPT !.token = Append(@, c)]

(* After a ">", anything else is skipped.                                  *)
Closing(p, c) ==
    CASE c = "," -> NextArgument(p)
      [] c = "*" -> [p EXCEPT !.cur.pointer = TRUE]
      [] c = "&" -> [p EXCEPT !.cur.ref = TRUE]
      [] c = ">" -> Close(p)
      [] OTHER -> p

Character(p, c) ==
    IF p.end # "none" THEN p ELSE IF p.state = "typish" THEN Typish(p, c) ELSE Closing(p, c)

(* Without any pointer, the type itself may be one; a type that is still   *)
(* open after a ">" fails an assertion.                                    *)
AtEnd(p) ==
    LET q == IF p.token # <<>> THEN Named(p) ELSE p
        t == q.cur
    IN  CASE p.end # "none" -> p
          [] p.end = "none" /\ p.state = "closing" /\ p.stack # <<>> -> [p EXCEPT !.end = "panicked"]
          [] OTHER -> [q EXCEPT !.results =
                 IF @ # <<>> \/ t.consumed THEN @ ELSE Contained(<<[t EXCEPT !.nothing = FALSE]>>)]

Parse(text) == AtEnd(FoldLeft(Character, Start, text))

-----------------------------------------------------------------------------
(* Types as trees [name, tag, suffix, args], how a compiler prints them,   *)
(* and what they mean: the pointers of the innermost types come first.     *)

RECURSIVE Printed(_)
Printed(t) ==
    LET list == [i \in DOMAIN t.args |-> IF i = 1 THEN Printed(t.args[i]) ELSE <<",", " ">> \o Printed(t.args[i])]
    IN  (IF t.tag THEN <<"class", " ">> ELSE <<>>) \o t.name
          \o (IF t.args = <<>> THEN <<>> ELSE <<"<">> \o FlattenSeq(list) \o <<">">>)
          \o (CASE t.suffix = "" -> <<>> [] t.suffix = "*const" -> <<" ", "*", "const">>
                 [] OTHER -> <<" ", t.suffix>>)

RECURSIVE NamesIn(_)
NamesIn(t) == {t.name} \cup UNION {NamesIn(a) : a \in ToSet(t.args)}

Wraps(t)  == KindOf(t.name) \in {"decorator", "container", "variant"}
Points(t) == KindOf(t.name) = "pointer" /\ Types[t.name].arg \in DOMAIN t.args

(* What is said of a type that is not looked into.                         *)
Itself(t) ==
    IF Points(t) \/ KindOf(t.name) = "nothing" THEN <<>>
    ELSE IF t.suffix # "" THEN << <<IF t.suffix = "*" THEN "raw" ELSE "ref", t.name>> >>
    ELSE IF t.tag /\ KindOf(t.name) # "value" THEN << <<"contains", t.name>> >>
    ELSE <<>>

RECURSIVE Inside(_)
Inside(t) ==
    LET pointee == t.args[Types[t.name].arg]
    IN  FlattenSeq([i \in DOMAIN t.args |-> Inside(t.args[i])])
        \o (IF Points(t)
            THEN IF pointee.tag /\ KindOf(pointee.name) # "value"
                 THEN << <<Types[t.name].ptr, pointee.name>> >> ELSE <<>>
            ELSE IF Wraps(t) THEN FlattenSeq([i \in DOMAIN t.args |-> Itself(t.args[i])])
            ELSE <<>>)

Meaning(t) == IF Inside(t) # <<>> THEN Inside(t) ELSE Itself(t)

=============================================================================
