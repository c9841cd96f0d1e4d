------------------------------- MODULE Expand -------------------------------
(* The `crossref-expand` command (cmd_crossref_expand.rs): the symbols a     *)
(* query asked for are joined by the symbols they override or derive from,   *)
(* each with a label that says how it is related to which of them.           *)
EXTENDS Integers, SequencesExt

CONSTANT Known    \* the symbols of the crossref database

ASSUME KnownAssumption == IsFiniteSet(Known)

VARIABLES
    meta,        \* a field of "meta" -> symbol -> the symbols listed there, read-only
    limits,      \* "Overrides" and "Subclasses" -> [local, global], 0 for no limit
    work,        \* to_traverse: what is still to be looked up
    met,         \* considered
    expanded,    \* what was looked up: [sym, label, root, dist, overloads]
    tally        \* how many symbols each limit has let in

expandVars == <<meta, limits, work, met, expanded, tally>>

Queried(s) == [sym |-> s, label |-> "Queried", root |-> s, dist |-> 0]

\* Which fields are read for a symbol with this label, in order, how the symbols
\* found there are labelled, and which limit they count against.
Rule(field, label, limit) == [field |-> field, label |-> label, limit |-> limit]

Descendants(label) ==
    IF label \in {"OverrideOf", "CousinOverrideOf"}
    THEN Rule("overridenBy", label, "Overrides")
    ELSE Rule("subclasses", label, "Subclasses")

RulesForgetCousins(label) ==
    CASE label = "Queried" ->
            <<Descendants("OverrideOf"), Rule("overrides", "OverriddenBy", "none"),
              Descendants("SubclassOf"), Rule("supers", "SuperclassOf", "none")>>
      [] label = "OverriddenBy" ->
            <<Rule("overrides", "OverriddenBy", "none"), Descendants("OverrideOf")>>
      [] label = "SuperclassOf" ->
            <<Rule("supers", "SuperclassOf", "none"), Descendants("SubclassOf")>>
      [] OTHER -> <<Descendants(label)>>

Rules(label) ==
    CASE label = "Queried" ->
            <<Descendants("OverrideOf"), Rule("overrides", "OverriddenBy", "none"),
              Descendants("SubclassOf"), Rule("supers", "SuperclassOf", "none")>>
      [] label = "OverriddenBy" ->
            <<Rule("overrides", "OverriddenBy", "none"), Descendants("CousinOverrideOf")>>
      [] label = "SuperclassOf" ->
            <<Rule("supers", "SuperclassOf", "none"), Descendants("CousinClassOf")>>
      [] OTHER -> <<Descendants(label)>>

\* What the database lists under a field; a field it does not have is no error.
Listed(field, s) == IF field \in DOMAIN meta THEN meta[field][s] ELSE <<>>

\* A list that is too long by itself, or that makes the total too large, is
\* left out as a whole.
TooMany(rule, n, counts) ==
    /\ rule.limit # "none"
    /\ LET l == limits[rule.limit]
       IN  \/ l.local > 0 /\ n > l.local
           \/ l.global > 0 /\ counts[rule.limit] + n > l.global

Entry(v, rule, s) == [sym |-> s, label |-> rule.label, root |-> v.root, dist |-> v.dist + 1]

\* g is [work, met, tally, overloads].
Push(v, rule, g, s) ==
    IF s \in g.met THEN g
    ELSE [g EXCEPT !.met = @ \cup {s}, !.work = Append(@, Entry(v, rule, s))]

PushAll(v, rule, g, found) == FoldLeft(LAMBDA h, s : Push(v, rule, h, s), g, found)

Counted(g, rule, n) ==
    IF rule.limit = "none" THEN g
    ELSE [g EXCEPT !.tally[rule.limit] = @ + n]

ApplyRule(v, g, rule) ==
    LET found == Listed(rule.field, v.sym)
    IN  IF TooMany(rule, Len(found), g.tally)
        THEN [g EXCEPT !.overloads = @ \cup {rule.limit}]
        ELSE PushAll(v, rule, Counted(g, rule, Len(found)), found)

ApplyRules(v, g, rules) == FoldLeft(LAMBDA h, rule : ApplyRule(v, h, rule), g, rules)

\* The command is called with the symbols of a query.
ExpandStart(roots) ==
    /\ work' = [i \in DOMAIN roots |-> Queried(roots[i])]
    /\ met' = ToSet(roots)
    /\ expanded' = <<>>
    /\ tally' = [l \in {"Overrides", "Subclasses"} |-> 0]
    /\ UNCHANGED <<meta, limits>>

\* The next symbol is looked up and its relations are followed.
ExpandOne ==
    /\ work # <<>>
    /\ LET v == Head(work)
           start == [work |-> Tail(work), met |-> met, tally |-> tally, overloads |-> {}]
           end == ApplyRules(v, start, Rules(v.label))
       IN  /\ work' = end.work
           /\ met' = end.met
           /\ tally' = end.tally
           /\ expanded' = Append(expanded, [sym |-> v.sym, label |-> v.label, root |-> v.root,
                                            dist |-> v.dist, overloads |-> end.overloads])
    /\ UNCHANGED <<meta, limits>>

ExpandIdle ==
    /\ work = <<>> /\ met = {} /\ expanded = <<>>
    /\ tally = [l \in {"Overrides", "Subclasses"} |-> 0]

\* What crossref writes for a symbol: a subclass is listed by its supers because it
\* lists them (unless nothing was written for it), classes do not override, and
\* methods have neither supers nor subclasses.  There is no field "overridenBy".
MetaTyped ==
    /\ "overridenBy" \notin DOMAIN meta
    /\ \A f \in DOMAIN meta : meta[f] \in [Known -> Seq(Known)]
    /\ \A s, x \in Known : x \in ToSet(Listed("subclasses", s)) =>
          Listed("supers", x) = <<>> \/ s \in ToSet(Listed("supers", x))
    /\ \A s, x \in Known : x \in ToSet(Listed("overrides", s)) =>
          Listed("supers", x) = <<>> /\ Listed("subclasses", x) = <<>>

\* The command, called any number of times with any symbols.
ExpandSpec ==
    /\ ExpandIdle /\ MetaTyped
    /\ [][ExpandOne \/ \E roots \in Seq(Known) : ExpandStart(roots)]_expandVars

-----------------------------------------------------------------------------
(* What the labels promise *)

\* What each symbol lists under a field.
Lists(field) == [s \in Known |-> Listed(field, s)]

\* The symbols n steps away from some of a set.
Beyond(lists, now) == UNION {ToSet(lists[s]) : s \in now}

Walk(lists, from, n) == FoldLeft(LAMBDA now, i : Beyond(lists, now), from, [i \in 1 .. n |-> i])

\* What is up steps above a class and then down steps below that.
Via(root, up, down) == Walk(Lists("subclasses"), Walk(Lists("supers"), {root}, up), down)

True(x) ==
    CASE x.label = "Queried" -> x.root = x.sym /\ x.dist = 0
      [] x.label = "SuperclassOf" -> x.sym \in Via(x.root, x.dist, 0)
      [] x.label = "SubclassOf" -> x.sym \in Via(x.root, 0, x.dist)
      [] x.label = "CousinClassOf" ->
            \E up \in 1 .. x.dist - 1 : x.sym \in Via(x.root, up, x.dist - up)
      [] x.label = "OverriddenBy" -> x.sym \in Walk(Lists("overrides"), {x.root}, x.dist)
      [] OTHER -> FALSE

Expanded == work = <<>> /\ expanded # <<>>

RootsOf == {x.sym : x \in {y \in ToSet(expanded) : y.label = "Queried"}}

\* True, after the symbol it refers to, and of a symbol that is not listed twice,
\* unless it was asked for twice.
LabelRight(i) ==
    /\ True(expanded[i])
    /\ \E j \in 1 .. i : expanded[j].sym = expanded[i].root /\ expanded[j].label = "Queried"
    /\ \A j \in DOMAIN expanded : expanded[i].sym = expanded[j].sym =>
          i = j \/ (expanded[i].label = "Queried" /\ expanded[j].label = "Queried")

NoLimitMet == \A i \in DOMAIN expanded : expanded[i].overloads = {}

\* How far up relatives are looked for: with several supers a class can be met
\* from above first and is then taken for a cousin, whose other supers are not
\* followed.
Heights == IF \A s \in Known : Len(Listed("supers", s)) <= 1 THEN 0 .. Cardinality(Known) ELSE {0}

Relatives ==
    UNION {Via(r, up, down) : r \in RootsOf, up \in Heights, down \in 0 .. Cardinality(Known)}

\* Every label is right: there is a walk of just that length, up the hierarchy,
\* down it, or up and then down.  And unless a limit was reported no subclass of
\* a queried class is missing; under single inheritance, no superclass and no
\* cousin either.
LabelsTrue ==
    Expanded =>
        /\ \A i \in DOMAIN expanded : LabelRight(i)
        /\ NoLimitMet => Relatives \subseteq {x.sym : x \in ToSet(expanded)}
=============================================================================
