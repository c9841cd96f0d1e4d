------------------------------ MODULE TagLike ------------------------------
(***************************************************************************)
(* tokenize_tag_like: HTML and XML.  A first pass reads the text one       *)
(* character at a time with a tag state and cuts it into tokens; a second  *)
(* walks these tokens, keeps a stack of open tags, collects the text of    *)
(* scripts and styles and puts the tokens of their own languages in place. *)
(***************************************************************************)
EXTENDS Tokenize

Space == {" ", "\t", "\r", NL}
IsTagIdent(ch) == ch \in Letters \cup Digits \cup {".", "_", "-", ":"}

(* One character that is a token: punctuation, unless it breaks the line.  *)
Char(t, p) == Tok(p, p + 1, IF t[p] = NL THEN "newline" ELSE "punct")
Some(from, to, kind) == IF from < to THEN <<Tok(from, to, kind)>> ELSE <<>>

(* What a character does: the state after it and the tokens it ends; `at`  *)
(* is where that state's own token begins.                                 *)
To(s, at, toks) == [s |-> s, at |-> at, toks |-> toks]
Fail == To("fail", 0, <<>>)

InText(t, p, at, skip) ==
  LET plain == Some(at, p, "plain")
  IN  CASE t[p] = "<" /\ ~skip ->
             CASE IsAt(t, p + 1, <<"!", "-", "-">>) -> To("comment", p, plain)
               [] IsAt(t, p + 1, <<"!", "[", "CDATA", "[">>) ->
                    To("cdata", p + 5, plain \o <<Tok(p, p + 5, "punct")>>)
               [] IsAt(t, p + 1, <<"!", "DOCTYPE">>) ->
                    To("doctype", p, plain \o <<Tok(p, p + 1, "punct")>>)
               [] IsAt(t, p + 1, <<"?">>) -> To("pi", p, plain)
               [] OTHER -> To("start", p, plain)
        [] t[p] = NL -> To("none", p + 1, plain \o <<Break(p)>>)
        [] OTHER -> To("none", at, <<>>)

(* A name ends at the first character that is none of a name's.            *)
AfterName(t, p, at, kind, blank) ==
  LET name == Tok(at, p, kind)
  IN  CASE t[p] = "/" -> To("empty", p, <<name>>)
        [] t[p] = ">" -> To("none", p + 1, <<name, Char(t, p)>>)
        [] t[p] = "=" /\ kind = "attr" -> To("eq", 0, <<name, Char(t, p)>>)
        [] t[p] \in Space -> To(blank, 0, <<name, Char(t, p)>>)
        [] OTHER -> Fail

InTag(t, p, s) ==
  CASE t[p] = ">" -> To("none", p + 1, <<Char(t, p)>>)
    [] t[p] = "/" -> To("empty", p, <<>>)
    [] s = "after" /\ IsTagIdent(t[p]) -> To("attr", p, <<>>)
    [] s = "before" /\ t[p] = "=" -> To("eq", 0, <<Char(t, p)>>)
    [] t[p] \in Space -> To(s, 0, <<Char(t, p)>>)
    [] OTHER -> To(s, 0, <<>>)

(* A state in which line breaks alone cut a token of the given kind, until *)
(* its closing characters, which are part of it.                           *)
Until(t, p, at, s, kind, close) ==
  CASE IsAt(t, p, close) ->
         To("none", p + Len(close), <<Tok(at, p + Len(close), kind)>>)
    [] t[p] = NL -> To(s, p + 1, (IF kind = "plain" THEN Some(at, p, kind)
                                  ELSE <<Tok(at, p, kind)>>) \o <<Break(p)>>)
    [] OTHER -> To(s, at, <<>>)

Step(t, p, st, skip) ==
  LET ch == t[p]
      at == st.at
  IN  CASE st.s = "none" -> InText(t, p, at, skip)
        [] st.s = "start" ->
             CASE IsTagIdent(ch) -> To("id", p, <<Tok(at, p, "punct")>>)
               [] ch = "/" -> To("endId", p + 1, <<Tok(at, p + 1, "punct")>>)
               [] OTHER -> Fail
        [] st.s \in {"id", "attr"} ->
             IF IsTagIdent(ch) THEN st
             ELSE IF st.s = "id" THEN AfterName(t, p, at, "tag", "after")
             ELSE AfterName(t, p, at, "attr", "before")
        [] st.s \in {"after", "before"} -> InTag(t, p, st.s)
        [] st.s = "eq" ->
             CASE ch \in {"'", "\""} ->
                    To(IF ch = "'" THEN "single" ELSE "double", p + 1, <<Char(t, p)>>)
               [] ch \in Space -> To("eq", 0, <<Char(t, p)>>)
               [] OTHER -> To("bare", p, <<>>)
        [] st.s \in {"single", "double"} ->
             CASE ch = (IF st.s = "single" THEN "'" ELSE "\"") ->
                    To("after", 0, <<Tok(at, p, "string"), Char(t, p)>>)
               [] ch = NL -> To(st.s, p + 1, <<Tok(at, p, "string"), Break(p)>>)
               [] OTHER -> st
        [] st.s = "bare" ->
             LET value == Tok(at, p, "string")
             IN  CASE ch = ">" -> To("none", p + 1, <<value, Char(t, p)>>)
                   [] ch = "/" /\ At(t, p + 1) = ">" -> To("empty", p, <<value>>)
                   [] ch \in Space -> To("after", 0, <<value, Char(t, p)>>)
                   [] OTHER -> st
        [] st.s = "endId" ->
             LET name == <<Tok(at, p, "endTag"), Char(t, p)>>
             IN  CASE IsTagIdent(ch) -> st
                   [] ch = ">" -> To("none", p + 1, name)
                   [] ch \in Space -> To("endDone", 0, name)
                   [] OTHER -> Fail
        [] st.s = "endDone" ->
             CASE ch = ">" -> To("none", p + 1, <<Char(t, p)>>)
               [] ch \in Space -> To("endDone", 0, <<Char(t, p)>>)
               [] OTHER -> Fail
        [] st.s = "empty" ->
             IF ch = ">" THEN To("none", p + 1, <<Tok(at, p + 1, "punct")>>) ELSE st
        [] st.s = "cdata" -> Until(t, p, at, "cdata", "plain", <<"]", "]", ">">>)
        [] st.s = "comment" -> Until(t, p, at, "comment", "comment", <<"-", "-", ">">>)
        [] st.s = "pi" -> Until(t, p, at, "pi", "comment", <<">">>)
        [] st.s \in {"doctype", "bracket"} ->
             CASE ch = "[" /\ st.s = "doctype" -> To("bracket", 0, <<>>)
               [] ch = "]" /\ st.s = "bracket" -> To("doctype", 0, <<>>)
               [] ch = ">" /\ st.s = "doctype" -> To("none", p, <<>>)
               [] ch \in {"<", NL} -> To(st.s, 0, <<Char(t, p)>>)
               [] OTHER -> To(st.s, 0, <<>>)

(* The first pass.  `next` is the position after the characters that the   *)
(* state took with it; `raw` is the tag, script or style, whose content is *)
(* left alone up to its end tag.                                           *)
Raw(t, s, o) ==
  LET name == SubSeq(t, s.st.at, o.toks[1].to - 1)
  IN  CASE s.st.s = "id" /\ o.s # "id" ->
             IF name \in {<<"script">>, <<"style">>} THEN name[1] ELSE "none"
        [] s.st.s \in {"endId", "empty"} /\ o.toks # <<>> -> "none"
        [] OTHER -> s.raw

Read(t, s, p, o) ==
  IF o.s = "fail" THEN [s EXCEPT !.st = o]
  ELSE [st |-> [o EXCEPT !.toks = <<>>], raw |-> Raw(t, s, o),
        toks |-> s.toks \o o.toks,
        next |-> IF o.s # s.st.s /\ o.at > p THEN o.at ELSE p + 1]

AtEnd(t, s) ==
  CASE s.st.s = "fail" -> [failed |-> TRUE, toks |-> <<>>]
    [] s.st.s = "none" ->
         [failed |-> FALSE,
          toks |-> Append(s.toks, Tok(s.st.at, Len(t) + 1, "plain"))]
    [] OTHER -> [failed |-> FALSE, toks |-> s.toks]

Tags(t) ==
  LET Skip(s, p) == s.raw # "none" /\ ~IsAt(t, p + 1, <<"/", s.raw>>)
      Loop(s, p) == IF s.st.s = "fail" \/ p < s.next THEN s
                    ELSE Read(t, s, p, Step(t, p, s.st, Skip(s, p)))
  IN  AtEnd(t, FoldLeft(Loop, [st |-> To("none", 1, <<>>), raw |-> "none",
                               toks |-> <<>>, next |-> 1],
                        [i \in DOMAIN t |-> i]))

-----------------------------------------------------------------------------
(* The second pass.  `in` is the language being collected ("script",       *)
(* "style" or "none"), from position `begin`, and `body` its text; `src`   *)
(* is has_src_attr and `sourced` script_has_src; `as` is what the next     *)
(* attribute value is taken for.  "field" stands for every XBL element that *)
(* holds a script: constructor, handler, a method's body and the others.   *)
StartsScript(stack) ==
  LET top == IF stack = <<>> THEN "none" ELSE Last(stack)
  IN  top \in {"script", "field"}

Embedded(w) ==
  IF w.in = "style" THEN Shifted(Css(w.body), w.begin - 1)
  ELSE Shifted(CLike(w.body, JS), w.begin - 1)

Leave(w, tok) ==
  [w EXCEPT !.in = "none", !.body = <<>>,
            !.sourced = IF w.in = "script" THEN FALSE ELSE @,
            !.toks = @ \o (IF w.in = "script" /\ w.sourced THEN <<>>
                           ELSE Embedded(w)) \o <<tok>>]

Value(t, w, tok) ==
  LET text == SubSeq(t, tok.from, tok.to - 1)
      By(toks) == Shifted(toks, tok.from - 1)
      Put(toks, v) == [w EXCEPT !.toks = @ \o toks, !.as = @ \ {v}]
  IN  CASE "id" \in w.as -> Put(<<[tok EXCEPT !.kind = "ident"]>>, "id")
        [] "js" \in w.as /\ "id" \notin w.as -> Put(By(CLike(text, JS)), "js")
        [] w.as = {"css"} -> Put(By(Css(text)), "css")
        [] OTHER -> Put(<<tok>>, "none")

Punct(t, w0, tok) ==
  LET text == SubSeq(t, tok.from, tok.to - 1)
      w == IF text = <<"/", ">">> /\ w0.stack # <<>>
           THEN [w0 EXCEPT !.stack = Front(@)] ELSE w0
      Enter(lang) == [w EXCEPT !.in = lang, !.begin = tok.to,
                               !.toks = Append(@, tok),
                               !.sourced = IF lang = "script" THEN w.src ELSE @]
  IN  CASE text = <<">">> /\ StartsScript(w.stack) -> Enter("script")
        [] w.in = "script" /\ text = <<"<", "/">> -> Leave(w, tok)
        [] w.in = "script" -> [w EXCEPT !.body = @ \o text]
        [] text = <<">">> /\ w.stack # <<>> /\ Last(w.stack) = "style" ->
             Enter("style")
        [] w.in = "style" /\ text = <<"<", "/">> -> Leave(w, tok)
        [] w.in = "style" -> [w EXCEPT !.body = @ \o text]
        [] OTHER -> [w EXCEPT !.toks = Append(@, tok)]

(* A name token holds one word here, and the stack that word.              *)
Walk(t, w, tok) ==
  LET word == IF tok.from < tok.to THEN t[tok.from] ELSE "none"
      field == w.stack # <<>> /\ Last(w.stack) = "field"
  IN  CASE tok.kind = "tag" ->
             [w EXCEPT !.src = FALSE, !.stack = Append(@, word),
                       !.toks = Append(@, tok)]
        [] tok.kind = "endTag" ->
             [w EXCEPT !.src = FALSE, !.toks = Append(@, tok),
                       !.stack = IF @ = <<>> THEN @ ELSE Front(@)]
        [] tok.kind = "attr" ->
             [w EXCEPT !.src = @ \/ word = "src", !.toks = Append(@, tok),
                       !.as = @ \cup (IF field /\ word = "name" THEN {"id"} ELSE {})
                                \cup (IF word = "on" THEN {"js"} ELSE {})
                                \cup (IF word = "style" THEN {"css"} ELSE {})]
        [] tok.kind \in {"plain", "newline", "comment"} ->
             IF w.in = "none" THEN [w EXCEPT !.toks = Append(@, tok)]
             ELSE [w EXCEPT !.body = @ \o SubSeq(t, tok.from, tok.to - 1)]
        [] tok.kind = "string" -> Value(t, w, tok)
        [] tok.kind = "punct" -> Punct(t, w, tok)

(* At the end a style is tokenized, and of a script one that has a src.    *)
Closed(w) ==
  w.toks \o (IF w.in = "style" \/ (w.in = "script" /\ w.sourced)
             THEN Embedded(w) ELSE <<>>)
SecondPass(t, first) ==
  LET start == [toks |-> <<>>, stack |-> <<>>, in |-> "none", begin |-> 1,
                body |-> <<>>, src |-> FALSE, sourced |-> FALSE, as |-> {}]
  IN  IF first.failed THEN Plain(t)
      ELSE Closed(FoldLeft(LAMBDA w, tok : Walk(t, w, tok), start, first.toks))
TagLike(t) == SecondPass(t, Tags(t))
=============================================================================
