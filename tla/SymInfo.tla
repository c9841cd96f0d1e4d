------------------------------ MODULE SymInfo ------------------------------
(***************************************************************************)
(* SYM_INFO, the dictionary a page carries for its context menus: for a    *)
(* symbol of the page its digest from the jumpref file, and with it the    *)
(* digests of the symbols its menu leads to (crossref_converter.rs, and    *)
(* the loop of format_code that runs it).                                  *)
(***************************************************************************)
EXTENDS Naturals, Sequences, SequencesExt

CONSTANT Jumprefs   \* symbol -> [idl, owner, slots, over], what a lookup finds

JumprefSyms == DOMAIN Jumprefs

(* JumprefTraversals: a set of what is wanted, or was done, at a symbol.   *)
Traversals == {"normal", "receive", "overriddenBy"}
Want(sym, step) == [sym |-> sym, step |-> step]
Wants(syms, step) == [i \in DOMAIN syms |-> Want(syms[i], step)]

(* Overrides are followed only while there are no more than two.           *)
FewOverrides(j) == IF Len(j.over) <= 2 THEN Wants(j.over, {}) ELSE <<>>

(* determine_desired_extra_syms_from_jumpref.                              *)
Desired(j) ==
  LET Owner(o) == Want(o.sym, IF o.kind = "send" THEN {"receive"} ELSE {})
      Slot(s) == Want(s.sym, IF s.kind = "method" /\ s.lang = "cpp"
                             THEN {"overriddenBy"} ELSE {})
  IN  Wants(j.idl, {"normal"})
        \o [i \in DOMAIN j.owner |-> Owner(j.owner[i])]
        \o [i \in DOMAIN j.slots |-> Slot(j.slots[i])]
        \o FewOverrides(j)

(* extra_syms_next_step_lookups.                                           *)
NextStep(j, step) ==
  LET recv == SelectSeq(j.slots, LAMBDA s : s.kind = "recv")
  IN  (IF "receive" \in step
       THEN [i \in DOMAIN recv |-> Want(recv[i].sym, {})] ELSE <<>>)
        \o (IF "overriddenBy" \in step THEN FewOverrides(j) ELSE <<>>)

(* The dictionary: `known` are its symbols, `seen` those that were looked  *)
(* up, `done` what was traversed at them.                                  *)
Info(known, seen, done) == [known |-> known, seen |-> seen, done |-> done]

(* Mutant: a symbol that was looked up is never followed again.            *)
FollowOnce(w) ==
  LET x == Last(w.stack)
      rest == Front(w.stack)
  IN  IF x.sym \in w.seen \/ x.sym \notin JumprefSyms THEN [w EXCEPT !.stack = rest]
      ELSE [stack |-> rest \o NextStep(Jumprefs[x.sym], x.step),
            known |-> w.known \cup {x.sym}, seen |-> w.seen \cup {x.sym},
            done |-> w.done \cup ({x.sym} \X x.step)]

(* One symbol taken from the stack of those that are wanted.               *)
Follow(w) ==
  LET x == Last(w.stack)
      rest == Front(w.stack)
      seen == x.sym \in w.seen
      found == x.sym \in JumprefSyms
      follow == IF found THEN rest \o NextStep(Jumprefs[x.sym], x.step) ELSE rest
      step == {x.sym} \X x.step
  IN  CASE seen /\ step \subseteq w.done -> [w EXCEPT !.stack = rest]
        [] seen /\ ~(step \subseteq w.done) ->
             [w EXCEPT !.done = @ \cup step,
                       !.stack = IF x.sym \in w.known THEN follow ELSE rest]
        [] ~seen /\ found ->
             [stack |-> follow, known |-> w.known \cup {x.sym},
              seen |-> w.seen \cup {x.sym}, done |-> w.done \cup step]
        [] OTHER -> [w EXCEPT !.stack = rest]

(* The loop ends: a symbol is followed once for what it was not yet        *)
(* followed for, and asks for nothing more the second time.                *)
AllFollowed ==
  LET run[w \in [stack : Seq([sym : STRING, step : SUBSET Traversals]),
                 known : SUBSET STRING, seen : SUBSET STRING,
                 done : SUBSET (STRING \X Traversals)]] ==
        IF w.stack = <<>> THEN w ELSE run[Follow(w)]
  IN  run

(* A symbol of a source record.  What is in the dictionary already is left *)
(* alone; a local, which is not in the cross reference, brings its type.   *)
Shown(info, sym, crossref) ==
  LET w == AllFollowed[[stack |-> Desired(Jumprefs[sym]), known |-> info.known,
                        seen |-> info.seen \cup {sym},
                        done |-> info.done \cup {<<sym, "normal">>}]]
  IN  CASE sym \in info.known -> info
        [] sym \notin info.known /\ ~crossref ->
             [info EXCEPT !.known = @ \cup {sym}]
        [] sym \notin info.known /\ crossref ->
             IF sym \in JumprefSyms THEN Info(w.known \cup {sym}, w.seen, w.done)
             ELSE info

(* What the menu of a symbol leads to: what is wanted, and a step further. *)
MenuOf(sym) ==
  LET first == {Desired(Jumprefs[sym])[i] : i \in DOMAIN Desired(Jumprefs[sym])}
      Further(x) == LET n == NextStep(Jumprefs[x.sym], x.step)
                    IN  {n[i].sym : i \in DOMAIN n}
  IN  JumprefSyms \cap ({x.sym : x \in first}
        \cup UNION {Further(x) : x \in {y \in first : y.sym \in JumprefSyms}})
=============================================================================
