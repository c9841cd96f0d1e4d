------------------------------- MODULE Pages -------------------------------
(***************************************************************************)
(* format.rs: how a source file, or the diff of one, becomes a page.  A    *)
(* diff is read row by row first; the text is cut into tokens; format_code *)
(* walks the tokens and the analysis records of the file together, makes   *)
(* lines, opens and closes the containers of the sticky headings, and      *)
(* collects SYM_INFO; the lines are written with their blame at last.      *)
(***************************************************************************)
EXTENDS TagLike, SymInfo

CONSTANTS Requests   \* files and diffs asked for, as records
FileSym == "FILE"

VARIABLES
  req,       \* the request
  stage,     \* "diff", "read", "format", "write", "done" or "error"
  text,      \* the text that is formatted; of a diff the new lines so far
  rows,      \* of a diff: the rows read, with line number and blame
  oldLine,   \* of a diff: the next line of every parent
  toks,      \* the tokens still to come
  last,      \* the first position of the text that is not written yet
  out,       \* the pieces of the line that is being made
  lines,     \* the lines made
  lineStart, \* where the current line begins
  datum,     \* the first analysis record that is not passed
  nest,      \* the nesting ranges that are open, outermost first
  starts,    \* the symbols, at most one, whose range starts on this line
  info,      \* SYM_INFO
  page       \* the lines written

vars == <<req, stage, text, rows, oldLine, toks, last, out, lines, lineStart,
          datum, nest, starts, info, page>>
tokVars == <<toks, last, out, lines, lineStart, datum, nest, starts, info>>

curLine == Len(lines) + 1
newLine == Cardinality({k \in DOMAIN rows : rows[k].lno > 0}) + 1

(* External: the languages of files, and git, which tells for every row of *)
(* a diff which parents have the line and whether the new file has it; it  *)
(* writes a column per parent.                                             *)
SpecOf == [cpp |-> CPP, js |-> JS, rust |-> RUST, python |-> PYTHON]
Tokens(format, t) ==
  CASE format \in DOMAIN SpecOf -> CLike(t, SpecOf[format])
    [] format = "xpidl" -> Xpidl(t, IDL, CPP)
    [] format = "tag" -> TagLike(t)
    [] format = "css" -> Css(t)
    [] format = "yaml" -> Yaml(t)
    [] OTHER -> Plain(t)
Origin(row, i) ==
  IF row.new THEN (IF i \in row.has THEN " " ELSE "+")
  ELSE (IF i \in row.has THEN "-" ELSE " ")
InParent(i) == {k \in DOMAIN req.rows : i \in req.rows[k].has}
ParentBlame(i) == req.blamed /\ InParent(i) # {}

Init ==
  /\ req \in Requests
  /\ stage = IF req.rows = <<>> THEN "read" ELSE "diff"
  /\ text = IF req.rows = <<>> THEN req.text ELSE <<>>
  /\ rows = <<>> /\ oldLine = [i \in 1..req.parents |-> 1]
  /\ toks = <<>> /\ last = 1 /\ out = <<>> /\ lines = <<>> /\ lineStart = 1
  /\ datum = 1 /\ nest = <<>> /\ starts = <<>> /\ page = <<>>
  /\ info = LET file == {FileSym} \cap JumprefSyms IN Info(file, file, {})

-----------------------------------------------------------------------------
(* The parents that a row of the diff advances.                            *)
Minus(row) == \E i \in 1..req.parents : Origin(row, i) = "-"
Advanced(row) ==
  {i \in 1..req.parents : IF Minus(row) THEN Origin(row, i) = "-"
                          ELSE Origin(row, i) # "+"}

(* A row of format_diff: the blame of a line that is gone is that of the   *)
(* last parent that had it, the blame of another line its own.             *)
DiffRow ==
  /\ stage = "diff" /\ Len(rows) < Len(req.rows)
  /\ LET row == req.rows[Len(rows) + 1]
         adv == Advanced(row)
     IN  IF \E i \in adv : ~ParentBlame(i)
         THEN stage' = "error" /\ UNCHANGED <<rows, oldLine, text>>
         ELSE /\ rows' = Append(rows,
                   [lno |-> IF Minus(row) THEN -1 ELSE newLine,
                    blame |-> CASE ~Minus(row) ->
                                     IF req.blamed THEN <<0, newLine>> ELSE <<>>
                                [] Minus(row) -> <<Max(adv), oldLine[Max(adv)]>>])
              /\ oldLine' = [i \in DOMAIN oldLine |->
                               oldLine[i] + IF i \in adv THEN 1 ELSE 0]
              /\ text' = IF Minus(row) THEN text
                         ELSE text \o Append(row.text, NL)
              /\ UNCHANGED stage
  /\ UNCHANGED <<req, page, tokVars>>

DiffRead ==
  /\ stage = "diff" /\ Len(rows) = Len(req.rows)
  /\ stage' = "read"
  /\ UNCHANGED <<req, text, rows, oldLine, page, tokVars>>

CutUp ==
  /\ stage = "read"
  /\ stage' = "format"
  /\ toks' = Tokens(req.format, text)
  /\ UNCHANGED <<req, text, rows, oldLine, last, out, lines, lineStart, datum,
                 nest, starts, info, page>>

-----------------------------------------------------------------------------
(* Mutant: ranges are kept up to the line that ends them.                  *)
KeptToTheEnd == SubSeq(nest, 1, Max({k \in DOMAIN nest : nest[k].end > curLine}
                                      \cup {0}))

(* A line break ends the ranges whose last line is the next one, with all  *)
(* that were opened in them, and the line.                                 *)
Kept == LET keep == {k \in DOMAIN nest : nest[k].end - 1 > curLine}
        IN  SubSeq(nest, 1, Max(keep \cup {0}))
Piece(from, to, syms) == IF from < to THEN <<[from |-> from, to |-> to, syms |-> syms]>>
                         ELSE <<>>
Line(pieces, pops) == [pieces |-> pieces, opens |-> starts, pops |-> pops]

LineBreak ==
  /\ stage = "format" /\ toks # <<>> /\ Head(toks).kind = "newline"
  /\ LET tok == Head(toks) IN
     /\ lines' = Append(lines, Line(out \o Piece(last, tok.from, <<>>),
                                    Len(nest) - Len(Kept)))
     /\ lineStart' = tok.to /\ last' = tok.to
  /\ nest' = Kept /\ starts' = <<>> /\ out' = <<>> /\ toks' = Tail(toks)
  /\ UNCHANGED <<req, stage, text, rows, oldLine, datum, info, page>>

(* Mutant: a record of an earlier line is passed only if it also stands    *)
(* before the column.                                                      *)
PassedByColumn(tok) ==
  LET left == {k \in datum..Len(req.analysis) :
                 req.analysis[k].col >= tok.from - lineStart}
  IN  IF left = {} THEN Len(req.analysis) + 1 ELSE Min(left)

(* The records at the start of a token: those before it are passed.        *)
Passed(tok) ==
  LET Before(a) == \/ a.line < curLine
                   \/ a.line = curLine /\ a.col < tok.from - lineStart
      left == {k \in datum..Len(req.analysis) : ~Before(req.analysis[k])}
  IN  IF left = {} THEN Len(req.analysis) + 1 ELSE Min(left)
Hit(tok) == LET d == Passed(tok)
            IN  /\ d <= Len(req.analysis)
                /\ req.analysis[d].line = curLine
                /\ req.analysis[d].col = tok.from - lineStart
Data(tok) == IF Hit(tok) /\ tok.kind \in {"ident", "keyword", "string"}
             THEN req.analysis[Passed(tok)].data ELSE <<>>

(* A record opens its nesting range unless the innermost one began with    *)
(* it, or it would not outlast the next line.                              *)
Nests(stack, a) ==
  /\ a.start # 0
  /\ stack # <<>> => /\ a.start >= curLine
                     /\ a.start # Last(stack).start
                     /\ a.end > curLine + 1
Nested(s, a) == IF Nests(s.nest, a)
                THEN [nest |-> Append(s.nest, a), starts |-> <<a.sym>>] ELSE s

(* On a macro the symbols of the macro alone are shown, not those that its *)
(* expansion brings.                                                       *)
Visible(data) ==
  LET macros == SelectSeq(data, LAMBDA a : a.expands)
  IN  IF macros = <<>> THEN data ELSE macros

(* Styled tokens and tokens with symbols are written in a span, others     *)
(* stay with the text around them.                                         *)
Styled == {"keyword", "string", "comment", "regexp", "tag", "attr", "endTag"}

Code ==
  /\ stage = "format" /\ toks # <<>> /\ Head(toks).kind # "newline"
  /\ LET tok == Head(toks)
         data == Data(tok)
         opened == FoldLeft(Nested, [nest |-> nest, starts |-> starts], data)
         syms == [i \in DOMAIN Visible(data) |-> Visible(data)[i].sym]
         span == tok.kind \in Styled \/ data # <<>>
     IN  /\ datum' = Passed(tok) + (IF Hit(tok) THEN 1 ELSE 0)
         /\ nest' = opened.nest /\ starts' = opened.starts
         /\ info' = FoldLeft(LAMBDA d, a : Shown(d, a.sym, a.crossref),
                             info, data)
         /\ CASE tok.kind \in {"punct", "plain"} ->
                   /\ out' = out \o Piece(last, tok.to, <<>>)
                   /\ last' = tok.to
              [] tok.kind \notin {"punct", "plain"} /\ span ->
                   /\ out' = out \o Piece(last, tok.from, <<>>)
                                 \o Piece(tok.from, tok.to, syms)
                   /\ last' = tok.to
              [] tok.kind \notin {"punct", "plain"} /\ ~span ->
                   UNCHANGED <<out, last>>
  /\ toks' = Tail(toks)
  /\ UNCHANGED <<req, stage, text, rows, oldLine, lines, lineStart, page>>

(* What follows the last token is a line, unless nothing does.             *)
FinalLine ==
  /\ stage = "format" /\ toks = <<>>
  /\ LET rest == out \o Piece(last, Len(text) + 1, <<>>)
     IN  lines' = IF rest = <<>> THEN lines
                  ELSE Append(lines, Line(rest, Len(nest)))
  /\ stage' = "write" /\ out' = <<>> /\ last' = Len(text) + 1
  /\ UNCHANGED <<req, text, rows, oldLine, toks, lineStart, datum, nest, starts,
                 info, page>>

-----------------------------------------------------------------------------
TextOf(pieces) ==
  FlattenSeq([i \in DOMAIN pieces |->
                SubSeq(text, pieces[i].from, pieces[i].to - 1)])

(* format_file_data writes every line with the blame of its number, after  *)
(* the container it opens and before those it closes.                      *)
WriteLine ==
  /\ stage = "write" /\ rows = <<>> /\ Len(page) < Len(lines)
  /\ LET k == Len(page) + 1
         depth == IF page = <<>> THEN 0 ELSE Last(page).depth
     IN  page' = Append(page,
           [text |-> TextOf(lines[k].pieces),
            blame |-> IF req.blamed THEN <<0, k>> ELSE <<>>,
            depth |-> depth + Len(lines[k].opens) - lines[k].pops])
  /\ UNCHANGED <<req, stage, text, rows, oldLine, tokVars>>

(* format_diff writes its rows: a line of the new file as it was formatted,*)
(* as far as there are formatted lines, another as it stands in the diff.  *)
WriteRow ==
  /\ stage = "write" /\ Len(page) < Len(rows)
  /\ LET k == Len(page) + 1
         n == rows[k].lno
     IN  page' = Append(page,
           [text |-> IF n > 0 /\ n < Len(lines) + 1 THEN TextOf(lines[n].pieces)
                     ELSE req.rows[k].text,
            blame |-> rows[k].blame, depth |-> 0])
  /\ UNCHANGED <<req, stage, text, rows, oldLine, tokVars>>

Finish ==
  /\ stage = "write"
  /\ Len(page) = IF rows = <<>> THEN Len(lines) ELSE Len(rows)
  /\ stage' = "done"
  /\ UNCHANGED <<req, text, rows, oldLine, tokVars, page>>

Next == \/ DiffRow \/ DiffRead \/ CutUp \/ LineBreak \/ Code \/ FinalLine
        \/ WriteLine \/ WriteRow \/ Finish
Spec == Init /\ [][Next]_vars

-----------------------------------------------------------------------------
(* Where the text can break a line without a token of its own, all in the  *)
(* code as it is: in the delimiter of a C++ raw string, which is looked    *)
(* for in every language; in the class of a regular expression; after the  *)
(* hashes of what is no Rust raw string; between the slash and the end of  *)
(* an empty tag; and in a script that has a src or is never closed.        *)
Between(q, p, ch) == \E x \in q..p : text[x] = ch
InRawDelimiter(p) ==
  \E q \in 1..(p - 2) : /\ text[q] = "R" /\ text[q + 1] = "\""
                        /\ \/ ~Between(q, p, "(")
                           \/ \E x \in q..p : text[x] = NL /\ ~Between(q, x, "(")
InRegexpClass(p) ==
  \E q \in 1..p : text[q] = "/" /\ \E b \in q..p :
     text[b] = "[" /\ ~Between(b, p, "]")
AfterHashes(p) ==
  \E q \in 1..(p - 2) : text[q] = "r" /\ \A x \in (q + 1)..(p - 1) : text[x] = "#"
InEmptyTag(p) == \E q \in 1..p : text[q] = "/" /\ ~Between(q, p, ">")
InDroppedScript(p) ==
  \E q \in 1..p : /\ text[q] \in {"script", "field"}
                  /\ \/ Between(q, p, "src")
                     \/ \A x \in p..(Len(text) - 1) : ~IsAt(text, x, <<"<", "/">>)
Lost(p) ==
  CASE req.format = "rust" -> InRawDelimiter(p) \/ AfterHashes(p)
    [] req.format = "js" -> InRawDelimiter(p) \/ InRegexpClass(p)
    [] req.format \in {"cpp", "python", "xpidl"} -> InRawDelimiter(p)
    [] req.format = "tag" -> \/ InRawDelimiter(p) \/ InRegexpClass(p)
                             \/ InEmptyTag(p) \/ InDroppedScript(p)
    [] OTHER -> FALSE
Written == stage \in {"write", "done"}

(* The tokens come in the order of the text and do not overlap, which      *)
(* format_code asserts for every one.                                      *)
TokensInOrder ==
  \A i \in DOMAIN toks :
     /\ toks[i].from <= toks[i].to /\ toks[i].to <= Len(text) + 1
     /\ IF i = 1 THEN last <= toks[i].from ELSE toks[i - 1].to <= toks[i].from

(* Whatever the tokens are, the lines of a page together are the text of   *)
(* the file: nothing is dropped, written twice or moved.                   *)
PageIsTheText ==
  Written =>
    LET joined == FlattenSeq([k \in DOMAIN lines |->
                                Append(TextOf(lines[k].pieces), NL)])
    IN  joined \in {text, Append(text, NL)}

(* Line numbers are right: a line of the page holds one line of the file,  *)
(* except where a line break is lost as described above.                   *)
LinesKept ==
  Written =>
    \A k \in DOMAIN lines : \A i \in DOMAIN lines[k].pieces :
       LET x == lines[k].pieces[i]
       IN  \A p \in x.from..(x.to - 1) : text[p] = NL /\ p < Len(text) => Lost(p)

(* Every record that stands where a token of the given ones does.          *)
ShownAmong(ts) ==
  LET LineOf(j) == Cardinality({i \in 1..(j - 1) : ts[i].kind = "newline"}) + 1
      Begin(j) == Max({ts[i].to : i \in {h \in 1..(j - 1) :
                                           ts[h].kind = "newline"}} \cup {1})
  IN  \A j \in DOMAIN ts, k \in DOMAIN req.analysis :
        LET a == req.analysis[k]
        IN  /\ ts[j].kind \in {"ident", "keyword", "string"}
            /\ a.line = LineOf(j) /\ a.col = ts[j].from - Begin(j)
            => \E i \in DOMAIN lines[a.line].pieces :
                 /\ lines[a.line].pieces[i].from = ts[j].from
                 /\ \A x \in ToSet(a.data) :
                      \/ x.sym \in ToSet(lines[a.line].pieces[i].syms)
                      \/ ~x.expands /\ \E y \in ToSet(a.data) : y.expands

(* A record of the analysis that stands at the start of a name or string   *)
(* of its line is shown there, whatever records there are before it that   *)
(* stand at no token.                                                      *)
RecordsShown ==
  Written /\ rows = <<>> => ShownAmong(Tokens(req.format, text))

(* No line begins two ranges that differ in where they begin.              *)
OneStartPerLine ==
  \A j, k \in DOMAIN req.analysis :
    req.analysis[j].line = req.analysis[k].line =>
      \A a \in ToSet(req.analysis[j].data), b \in ToSet(req.analysis[k].data) :
         a.start # 0 /\ b.start # 0 => a.start = b.start

(* The containers of sticky headings are closed as often as they are       *)
(* opened, never before, and none covers the line that ends its range:     *)
(* what is open when a line begins ends on a later one.                    *)
HeadingsNest ==
  OneStartPerLine =>
    /\ stage = "format" /\ out = <<>> /\ starts = <<>> /\ last = lineStart =>
         \A k \in DOMAIN nest : nest[k].end > curLine
    /\ \A k \in DOMAIN page : page[k].depth >= 0
    /\ stage = "done" /\ page # <<>> => Last(page).depth = 0

(* The menu of a symbol is complete: when its digest is looked up for the  *)
(* page, the digests of all that its menu leads to are there as well, even *)
(* those that an earlier symbol had loaded but not followed.               *)
MenusComplete ==
  [][\A a \in ToSet(IF toks = <<>> THEN <<>> ELSE Data(Head(toks))) :
       /\ stage = "format" /\ a.crossref
       /\ a.sym \in JumprefSyms /\ a.sym \notin info.known
       => MenuOf(a.sym) \subseteq info'.known]_vars

(* A row of a diff shows its own line; a line that is gone has the blame   *)
(* of that line in the last parent that had it, another that of the new    *)
(* file; and a diff fails for want of blame only.                          *)
RowsRight ==
  /\ req.rows # <<>> =>
       \A k \in DOMAIN page :
          LET row == req.rows[k]
              Count(S) == Cardinality(S \cap 1..k)
              i == IF row.new THEN 0 ELSE Max(row.has)
              new == {j \in DOMAIN req.rows : req.rows[j].new}
          IN  /\ page[k].text = row.text
              /\ req.blamed => page[k].blame =
                   <<i, Count(IF i = 0 THEN new ELSE InParent(i))>>
  /\ stage = "error" => ~req.blamed

(* The page shows the file, line by line.                                  *)
TextKept == TokensInOrder /\ PageIsTheText /\ LinesKept

(* Each line of a page stands under its headings, each row of a diff has   *)
(* its number and its blame.                                               *)
RowsInPlace == HeadingsNest /\ RowsRight
=============================================================================
