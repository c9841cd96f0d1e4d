------------------------------ MODULE MCPages ------------------------------
EXTENDS Pages, TLC

(* Texts of up to n fragments.                                             *)
Texts(frags, n) ==
  {FlattenSeq(s) : s \in UNION {[1..k -> frags] : k \in 0..n}}
File(format, t, analysis, blamed) ==
  [format |-> format, text |-> t, analysis |-> analysis, blamed |-> blamed,
   parents |-> 0, rows |-> <<>>]
Plainly(format, frags, n) == {File(format, t, <<>>, FALSE) : t \in Texts(frags, n)}

Cut_ ==
  Plainly("cpp", {<<"R", "\"">>, <<"a">>, <<"(">>, <<")", "\"">>, <<NL>>, <<"/", "/">>}, 4)
  \cup Plainly("cpp", {<<"#">>, <<"1", "'">>, <<" ">>, <<NL>>, <<"/", "*">>, <<"*", "/">>}, 3)
  \cup Plainly("js", {<<"tick">>, <<"a">>, <<"$", "{">>, <<"}">>, <<NL>>, <<"=", "/", "[">>, <<"]", "/">>}, 4)
  \cup Plainly("rust", {<<"r", "#">>, <<"'">>, <<"\"">>, <<NL>>, <<"/", "*">>, <<"*", "/">>}, 4)
  \cup Plainly("python", {<<"\"">>, <<"\"", "\"", "\"">>, <<"\\">>, <<NL>>, <<"#">>}, 4)
  \cup Plainly("xpidl", {<<"%{C++", NL>>, <<"%}", NL>>, <<NL>>, <<"a">>, <<"/", "*">>}, 4)
  \cup Plainly("tag", {<<"<", "script">>, <<" ", "src", "=">>, <<">">>, <<NL>>, <<"<", "/", "script">>,
                       <<"\"">>, <<"/">>}, 4)
  \cup Plainly("tag", {<<"<", "!", "-", "-">>, <<"-", "-", ">">>, <<"<", "!", "[", "CDATA", "[">>,
                       <<"]", "]", ">">>, <<NL>>, <<"<", "style", ">">>, <<"<", "/">>}, 3)
  \cup Plainly("css", {<<"a", ":">>, <<" ">>, <<NL>>, <<"/", "*">>, <<"*", "/">>}, 3)
  \cup Plainly("yaml", {<<"a">>, <<"-">>, <<NL>>, <<"'">>, <<"#">>, <<"\\">>}, 4)
  \cup Plainly("plain", {<<"a">>, <<NL>>}, 4)

(* A file with names on three of its lines, and records for them.          *)
Body == <<"a", " ", "a", NL, "{", NL, "a", "{", NL, "\"", "a", "\"", NL, "}", "}", NL>>
Rec(sym, start, end) ==
  [sym |-> sym, start |-> start, end |-> end, crossref |-> sym # "local",
   expands |-> FALSE]
Macro(sym) == [Rec(sym, 0, 0) EXCEPT !.expands = TRUE]
Ent(line, col, data) == [line |-> line, col |-> col, data |-> data]
None == <<>>
Described ==
  {File("cpp", Body, r1 \o r2 \o r3 \o r4, TRUE) :
     r1 \in {None, <<Ent(1, 0, <<Rec("send", 1, 5), Rec("idl", 0, 0)>>)>>,
             <<Ent(1, 0, <<Rec("base", 0, 0)>>)>>,
             <<Ent(1, 0, <<Rec("cpp", 1, 2)>>)>>, <<Ent(1, 1, <<Rec("cpp", 0, 0)>>)>>},
     r2 \in {None, <<Ent(1, 2, <<Rec("owner", 1, 5)>>)>>, <<Ent(1, 2, <<Rec("idl", 2, 5)>>)>>},
     r3 \in {None, <<Ent(3, 0, <<Rec("idl", 3, 5)>>)>>, <<Ent(3, 0, <<Rec("local", 3, 4), Rec("impl", 0, 0)>>)>>},
     r4 \in {None, <<Ent(4, 0, <<Macro("send"), Rec("cpp", 0, 0)>>)>>, <<Ent(4, 1, <<Macro("send"), Rec("cpp", 0, 0)>>)>>}}

(* An IPC send method with its owner and receiver, and an XPIDL method     *)
(* with its C++ declaration, which overrides a base, and implementation.   *)
NoJump == [idl |-> <<>>, owner |-> <<>>, slots |-> <<>>, over |-> <<>>]
Slot_(sym, kind, lang) == [sym |-> sym, kind |-> kind, lang |-> lang]
MCJumprefs ==
  [s \in {"FILE", "base", "send", "recv", "owner", "idl", "cpp", "impl"} |->
     CASE s = "base" -> [NoJump EXCEPT !.over = <<"cpp">>]
       [] s = "send" -> [NoJump EXCEPT !.owner = <<[sym |-> "owner", kind |-> "send"]>>]
       [] s = "recv" -> [NoJump EXCEPT !.owner = <<[sym |-> "owner", kind |-> "recv"]>>]
       [] s = "owner" -> [NoJump EXCEPT !.slots = <<Slot_("send", "send", "cpp"),
                                                    Slot_("recv", "recv", "cpp")>>]
       [] s = "idl" -> [NoJump EXCEPT !.slots = <<Slot_("cpp", "method", "cpp"),
                                                  Slot_("gone", "method", "js")>>]
       [] s = "cpp" -> [NoJump EXCEPT !.over = <<"impl">>,
                                      !.owner = <<[sym |-> "idl", kind |-> "method"]>>]
       [] s = "impl" -> [NoJump EXCEPT !.idl = <<"idl">>]
       [] OTHER -> NoJump]

(* Diffs of up to three rows against one parent or two.                    *)
DiffRows(n) ==
  {[has |-> h, new |-> b, text |-> t] :
     h \in SUBSET (1..n), b \in BOOLEAN, t \in {<<"a">>, <<"tick", "b">>, <<>>}}
Diffs ==
  UNION {{[format |-> f, text |-> <<>>, analysis |-> <<>>, blamed |-> b,
           parents |-> n, rows |-> rs] :
            f \in {"cpp", "js"}, b \in BOOLEAN,
            rs \in UNION {[1..k -> {r \in DiffRows(n) : r.new \/ r.has # {}}] : k \in 1..(4 - n)}} :
         n \in 1..2}

MCRequests == Cut_ \cup Described \cup Diffs
=============================================================================
