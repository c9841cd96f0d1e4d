------------------------------ MODULE Tokenize ------------------------------
(***************************************************************************)
(* The tokenizers of tokenize.rs: a text is a sequence of characters, a    *)
(* token a range [from, to) of it with a kind, and a line break is a token *)
(* of its own, because the pages count lines by these tokens.  A word of   *)
(* the language ("return", "script") counts as one character here; a tag   *)
(* file is in TagLike.  Positions start at 1, and the bytes of a character *)
(* are not told apart.  "tick" is the backtick.                            *)
(***************************************************************************)
EXTENDS Integers, Sequences, SequencesExt, FiniteSetsExt

NL == "\n"
Tok(from, to, kind) == [from |-> from, to |-> to, kind |-> kind]
Break(p) == Tok(p, p + 1, "newline")

At(t, p) == IF p \in 1..Len(t) THEN t[p] ELSE "!"
IsAt(t, p, s) == p + Len(s) <= Len(t) + 1 /\ SubSeq(t, p, p + Len(s) - 1) = s
First(t, p, Stop(_)) == Min({q \in p..Len(t) : Stop(q)} \cup {Len(t) + 1})

(* What a language has: the flags of LanguageSpec.                         *)
JS == {"hash_identifier", "c_style", "backtick", "regexp"}
CPP == {"c_style", "preprocessor", "digit_separators"}
IDL == {"c_style", "preprocessor"}
PYTHON == {"hash_comment", "triple_quote"}
RUST == {"hash_comment", "c_style", "rust"}
Reserved == {<<"return">>, <<"class">>, <<"#", "if">>}

Letters == {"a", "b", "r", "R", "return", "class", "if", "script", "style",
            "src", "on", "name", "field", "CDATA", "DOCTYPE"}
Digits == {"1"}
IsIdent(ch, spec) == \/ ch \in Letters \cup Digits \cup {"_"}
                     \/ ch = "#" /\ "hash_identifier" \in spec
Blank == {" ", "\t", "\r"}

(* push_newline, again and again: the tokens of a region that starts at    *)
(* `from`, cut at the given line breaks, without what follows the last.    *)
Cut(from, nls, kind) ==
  LET Upto(a, nl) == (IF a < nl THEN <<Tok(a, nl, kind)>> ELSE <<>>)
                       \o <<Break(nl)>>
      pieces[a \in Nat, left \in SUBSET nls] ==
        IF left = {} THEN <<>>
        ELSE Upto(a, Min(left)) \o pieces[Min(left) + 1, left \ {Min(left)}]
  IN  pieces[from, nls]
AfterCut(from, nls) == IF nls = {} THEN from ELSE Max(nls) + 1
Breaks(t, from, to) == {p \in from..(to - 1) : At(t, p) = NL}
Lines(t, from, to, kind) ==
  LET nls == Breaks(t, from, to)
      last == AfterCut(from, nls)
  IN  Cut(from, nls, kind)
        \o (IF last < to THEN <<Tok(last, to, kind)>> ELSE <<>>)

(* tokenize_plain.                                                         *)
Plain(t) == Lines(t, 1, Len(t) + 1, "plain")

-----------------------------------------------------------------------------
(* The tokens of one construct, the position after it, and whether a `/`   *)
(* that follows may begin a regular expression; `how` is "stop" where the  *)
(* tokenizer returns what it has, and "plain" where it starts afresh with  *)
(* tokenize_plain.  In `regexp`, "same" keeps the old answer.              *)
Out(toks, pos, regexp) ==
  [toks |-> toks, pos |-> pos, regexp |-> regexp, nest |-> "same", how |-> "go"]
One(from, to, kind, regexp) == Out(<<Tok(from, to, kind)>>, to, regexp)
Stop(toks) == [toks |-> toks, pos |-> 0, regexp |-> "same", nest |-> "same",
               how |-> "stop"]
AllPlain == [Stop(<<>>) EXCEPT !.how = "plain"]

(* A literal or comment with the line breaks seen in it.  One that is not  *)
(* terminated (end = 0) is given up to the last of them.                   *)
Literal(from, nls, end, kind, regexp) ==
  IF end = 0 THEN Stop(Cut(from, nls, kind))
  ELSE Out(Cut(from, nls, kind) \o <<Tok(AfterCut(from, nls), end, kind)>>,
           end, regexp)

(* Mutant: a literal is one token, whatever lines it holds.                *)
SpanningWhole(t, from, scan, end, kind, regexp) ==
  IF end = 0 THEN Stop(<<>>) ELSE One(from, end, kind, regexp)

(* A literal or comment in which every line break from `scan` on is seen.  *)
Spanning(t, from, scan, end, kind, regexp) ==
  Literal(from, Breaks(t, scan, IF end = 0 THEN Len(t) + 1 ELSE end), end,
          kind, regexp)

(* A backslash takes the next character with it, so that a character is    *)
(* escaped after an odd run of backslashes of the literal.                 *)
Escaped(t, from, p) ==
  LET run == {k \in 1..(p - from) : \A j \in 1..k : t[p - j] = "\\"}
  IN  Cardinality(run) % 2 = 1

RustRaw(t, start, p) ==
  LET q == First(t, p, LAMBDA x : t[x] # "#")
      hashes == q - p
      Closes(x) == t[x] = "\"" /\ \A k \in 1..hashes : At(t, x + k) = "#"
      end == First(t, q + 1, Closes)
  IN  IF At(t, q) # "\""
      THEN One(start, Min({q + 1, Len(t) + 1}), "plain", "same")
      ELSE Spanning(t, start, q,
                    IF end > Len(t) THEN 0 ELSE end + hashes + 1,
                    "string", "same")

(* R"delimiter( ... )delimiter".  The delimiter is read, and tried after a *)
(* closing parenthesis, without a look at line breaks.                     *)
CppRaw(t, start) ==
  LET paren == First(t, start + 2, LAMBDA x : t[x] = "(")
      delim == SubSeq(t, start + 2, paren - 1)
      Same(p) == First(t, p + 1, LAMBDA x : x - p > Len(delim)
                                            \/ delim[x - p] # t[x]) - 1
      scan[p \in 1..(Len(t) + 1), nls \in SUBSET (1..Len(t))] ==
        CASE p > Len(t) -> [end |-> 0, nls |-> nls]
          [] At(t, p) = NL -> scan[p + 1, nls \cup {p}]
          [] At(t, p) = ")" ->
               IF IsAt(t, p + 1, Append(delim, "\""))
               THEN [end |-> p + Len(delim) + 2, nls |-> nls]
               ELSE scan[Same(p) + 1, nls]
          [] OTHER -> scan[p + 1, nls]
      Raw(r) == Literal(start, r.nls, r.end, "string", "no")
  IN  IF paren > Len(t) THEN Stop(<<>>) ELSE Raw(scan[paren + 1, {}])

Word(t, start, spec) ==
  LET number == "digit_separators" \in spec /\ t[start] \in Digits
      end == First(t, start + 1, LAMBDA p : /\ ~IsIdent(t[p], spec)
                                            /\ ~(number /\ t[p] = "'"))
      word == SubSeq(t, start, end - 1)
  IN  One(start, end, IF word \in Reserved THEN "keyword" ELSE "ident",
          IF word = <<"return">> THEN "yes" ELSE "no")

Directive(t, start, spec) ==
  LET id == First(t, start + 1, LAMBDA p : t[p] \notin {" ", "\t"})
      end == First(t, id, LAMBDA p : ~IsIdent(t[p], spec))
  IN  One(start, end,
          IF <<"#">> \o SubSeq(t, id, end - 1) \in Reserved THEN "keyword"
          ELSE "ident", "no")

LineComment(t, start) ==
  LET nl == First(t, start, LAMBDA p : t[p] = NL)
  IN  IF nl > Len(t) THEN Stop(<<Tok(start, nl, "comment")>>)
      ELSE Out(<<Tok(start, nl, "comment"), Break(nl)>>, nl + 1, "same")

BlockComment(t, start, spec) ==
  LET end[p \in 1..(Len(t) + 2), n \in Nat] ==
        CASE p > Len(t) -> 0
          [] At(t, p) = "*" /\ At(t, p + 1) = "/" ->
               IF n = 1 THEN p + 2 ELSE end[p + 2, n - 1]
          [] "rust" \in spec /\ At(t, p) = "/" /\ At(t, p + 1) = "*" ->
               end[p + 2, n + 1]
          [] OTHER -> end[p + 1, n]
  IN  Spanning(t, start, start, end[start + 2, 1], "comment", "same")

(* In a class [...] nothing but the closing bracket counts.                *)
Regexp(t, start) ==
  LET end[p \in 1..(Len(t) + 2)] ==
        CASE p > Len(t) \/ At(t, p) = NL -> 0
          [] At(t, p) = "/" -> p + 1
          [] At(t, p) = "[" -> end[First(t, p + 1, LAMBDA x : t[x] = "]")]
          [] At(t, p) = "\\" /\ p < Len(t) /\ At(t, p + 1) # NL -> end[p + 2]
          [] OTHER -> end[p + 1]
      Upto(p) == IF p = 0 THEN AllPlain ELSE One(start, p, "regexp", "yes")
  IN  Upto(end[start + 1])

Slash(t, start, regexp, spec) ==
  CASE At(t, start + 1) = "*" -> BlockComment(t, start, spec)
    [] At(t, start + 1) = "/" -> LineComment(t, start)
    [] OTHER -> IF regexp /\ "regexp" \in spec THEN Regexp(t, start)
                ELSE One(start, start + 1, "punct", "yes")

(* From a backtick, or from the brace that ends a template's code, to the  *)
(* closing backtick or to the next ${, which opens code.                 *)
Backtick(t, start) ==
  LET Ends(p) == /\ ~Escaped(t, start + 1, p)
                 /\ t[p] = "tick" \/ (t[p] = "$" /\ At(t, p + 1) = "{")
      Upto(end, nest) == [Spanning(t, start, start, end, "string", "yes")
                          EXCEPT !.nest = nest]
      Ended(p) == CASE p > Len(t) -> Upto(0, "same")
                    [] At(t, p) = "tick" -> Upto(p + 1, "same")
                    [] OTHER -> Upto(p + 2, "push")
  IN  Ended(First(t, start + 1, Ends))

(* In Rust a quote may also begin a lifetime: then the quote is punctuation *)
(* and the name a token, even an empty one.                                *)
Quote(t, start, p, spec) ==
  LET q == t[p]
      triple == "triple_quote" \in spec /\ At(t, p + 1) = q /\ At(t, p + 2) = q
      body == IF triple THEN p + 3 ELSE p + 1
      Closes(x) == /\ t[x] = q /\ ~Escaped(t, body, x)
                   /\ triple => At(t, x + 1) = q /\ At(t, x + 2) = q
      end == First(t, body, Closes)
      name == First(t, p + 1, LAMBDA x : ~IsIdent(t[x], spec))
  IN  IF "rust" \in spec /\ q = "'" /\ At(t, p + 1) # "\\" /\ At(t, p + 2) # "'"
      THEN Out(<<Tok(start, start + 1, "punct"), Tok(start + 1, name, "ident")>>,
               name, "same")
      ELSE Spanning(t, start, start,
                    CASE end > Len(t) -> 0 [] triple -> end + 3
                      [] OTHER -> end + 1, "string", "no")

MayPrecedeRegexp ==
  {"=", "(", "[", "{", "}", ":", ";", "&", "|", "!", ",", "?", ">", "<"}

(* One turn of the token loop at position `start`; `resume` says that a    *)
(* brace at `start` ends the code of a template string.                    *)
Turn(t, start, regexp, resume, spec) ==
  LET byte == /\ "rust" \in spec /\ t[start] = "b"
              /\ \/ At(t, start + 1) \in {"'", "\""}
                 \/ At(t, start + 1) = "r" /\ At(t, start + 2) \in {"\"", "#"}
      p == IF byte THEN start + 1 ELSE start
      ch == t[p]
      next == At(t, p + 1)
  IN  CASE "rust" \in spec /\ ch = "r" /\ next \in {"#", "\""} ->
             RustRaw(t, start, p + 1)
        [] ch = "R" /\ next = "\"" -> CppRaw(t, start)
        [] IsIdent(ch, spec) -> Word(t, start, spec)
        [] ch = NL -> Out(<<Break(start)>>, start + 1, "same")
        [] ch \in Blank -> Out(<<>>, start + 1, "same")
        [] ch = "#" /\ "hash_comment" \in spec -> LineComment(t, start)
        [] ch = "#" /\ "preprocessor" \in spec -> Directive(t, start, spec)
        [] ch = "/" /\ "c_style" \in spec -> Slash(t, start, regexp, spec)
        [] resume \/ (ch = "tick" /\ "backtick" \in spec) -> Backtick(t, start)
        [] ch \in {"'", "\""} -> Quote(t, start, p, spec)
        [] OTHER -> One(start, start + 1, "punct",
                        IF ch \in MayPrecedeRegexp THEN "yes" ELSE "no")

(* tokenize_c_like: `nest` counts the open braces of every template whose  *)
(* code is being read, innermost last.                                     *)
CLike(t, spec) ==
  LET Braces(s) ==
        LET d == CASE t[s.pos] = "{" -> 1 [] t[s.pos] = "}" -> -1 [] OTHER -> 0
        IN  IF s.nest = <<>> THEN s.nest
            ELSE [s.nest EXCEPT ![Len(s.nest)] = @ + d]
      After(s, nest, o) ==
        [toks |-> IF o.how = "plain" THEN Plain(t) ELSE s.toks \o o.toks,
         pos |-> IF o.how = "go" THEN o.pos ELSE Len(t) + 1,
         regexp |-> IF o.regexp = "same" THEN s.regexp ELSE o.regexp = "yes",
         nest |-> IF o.nest = "push" THEN Append(nest, 1) ELSE nest]
      Loop(s, braces) ==
        LET resume == braces # <<>> /\ Last(braces) = 0
        IN  After(s, IF resume THEN Front(braces) ELSE braces,
                  Turn(t, s.pos, s.regexp, resume, spec))
      start == [toks |-> <<>>, pos |-> 1, regexp |-> TRUE, nest |-> <<>>]
  IN  FoldLeft(LAMBDA s, i : IF s.pos > Len(t) THEN s ELSE Loop(s, Braces(s)),
               start, [i \in DOMAIN t |-> i]).toks

Shifted(toks, by) ==
  [i \in DOMAIN toks |->
     [toks[i] EXCEPT !.from = @ + by, !.to = @ + by]]

(* tokenize_xpidl: C++ between the lines %{C++ and %}, IDL elsewhere.  The *)
(* end of the file just after one of the two lines leaves it without a     *)
(* token.                                                                  *)
Xpidl(t, spec, cdata) ==
  LET Find(p, mark) == First(t, p, LAMBDA x : IsAt(t, x, <<mark, NL>>))
      Part(p, q, s) == Shifted(CLike(SubSeq(t, p, q - 1), s), p - 1)
      Mark(q) == <<Tok(q, q + 1, "comment"), Break(q + 1)>>
      More(q) == q + 2 <= Len(t)
      toks[p \in 1..(Len(t) + 1), idl \in BOOLEAN] ==
        LET q == Find(p, IF idl THEN "%{C++" ELSE "%}")
        IN  Part(p, q, IF idl THEN spec ELSE cdata)
              \o (IF More(q) THEN Mark(q) \o toks[q + 2, ~idl] ELSE <<>>)
  IN  toks[1, TRUE]

-----------------------------------------------------------------------------
YamlWord == Letters \cup Digits \cup {"_", ".", "$", "*", "/"}

(* tokenize_yaml: nothing spans a line, a string ends at the line's end.   *)
YamlTurn(t, start) ==
  LET ch == t[start]
      Body(x) == t[x] \in {ch, NL, "\r"} /\ ~(t[x] = ch /\ Escaped(t, start + 1, x))
      close == First(t, start + 1, Body)
      commented == ch = "#" /\ (start = 1 \/ At(t, start - 1) \in Blank \cup {NL})
      end == CASE ch = NL -> start + 1
               [] ch \in {"'", "\""} -> IF At(t, close) = ch THEN close + 1
                                        ELSE close
               [] commented -> First(t, start + 1, LAMBDA x : t[x] = NL)
               [] ch \in YamlWord ->
                    First(t, start + 1, LAMBDA x : t[x] \notin YamlWord \cup {"-"})
               [] OTHER ->
                    First(t, start + 1,
                          LAMBDA x : t[x] \in YamlWord \cup {NL, "'", "\"", "#"})
  IN  Tok(start, end, CASE ch = NL -> "newline" [] ch \in {"'", "\""} -> "string"
                        [] commented -> "comment" [] ch \in YamlWord -> "ident"
                        [] OTHER -> "plain")
Yaml(t) ==
  FoldLeft(LAMBDA toks, i :
             IF toks # <<>> /\ i < Last(toks).to THEN toks
             ELSE Append(toks, YamlTurn(t, i)),
           <<>>, [i \in DOMAIN t |-> i])

(* External: what the CSS parser makes of a text.  A comment, a string     *)
(* that is closed on its line and a run of blanks are one token, any other *)
(* character is a token.                                                   *)
CssLexeme(t, p) ==
  LET comment == First(t, p + 2, LAMBDA x : IsAt(t, x, <<"*", "/">>))
      quote == First(t, p + 1, LAMBDA x : t[x] \in {t[p], NL})
  IN  CASE IsAt(t, p, <<"/", "*">>) -> [to |-> Min({comment + 2, Len(t) + 1}),
                                        kind |-> "comment"]
        [] t[p] \in {"'", "\""} /\ At(t, quote) = t[p] ->
             [to |-> quote + 1, kind |-> "string"]
        [] t[p] \in Blank \cup {NL} ->
             [to |-> First(t, p, LAMBDA x : t[x] \notin Blank \cup {NL}),
              kind |-> "plain"]
        [] t[p] \in Letters -> [to |-> p + 1, kind |-> "ident"]
        [] t[p] \in Digits -> [to |-> p + 1, kind |-> "plain"]
        [] OTHER -> [to |-> p + 1, kind |-> "punct"]

(* tokenize_css: every token of the parser, cut at the line breaks.  A     *)
(* name before a colon and a blank is a property.                          *)
Css(t) ==
  LET Step(toks, p) ==
        LET l == CssLexeme(t, p)
            property == /\ l.kind = "ident" /\ At(t, l.to) = ":"
                        /\ At(t, l.to + 1) \in Blank \cup {NL}
        IN  IF toks # <<>> /\ p < Last(toks).to THEN toks
            ELSE toks \o Lines(t, p, l.to,
                               IF property THEN "keyword" ELSE l.kind)
  IN  FoldLeft(Step, <<>>, [i \in DOMAIN t |-> i])
=============================================================================
