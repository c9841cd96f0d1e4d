----------------------------- MODULE SyntaxTree -----------------------------
(***************************************************************************)
(* The content of one commit of the syntax repository, which build-syntax- *)
(* token-tree derives from a commit of the source repository:              *)
(*   files         the tokens of each file, each with the symbol it is in; *)
(*   files-struct  the language and the outline of each file;              *)
(*   symdex        for each symbol of a language, where it is declared.    *)
(* The first two follow the tree of the commit as blame does.  The third   *)
(* gathers records of many files, so it starts from the first parent's and *)
(* only the symbols of the files that changed are written again.           *)
(***************************************************************************)
EXTENDS BlameTree, Functions

CONSTANTS LangOf(_),        \* the language of a path, "none", or Untokenized
          Untokenized,
          RecordRank(_)     \* the order of the records in a symdex file

(***************************************************************************)
(* A source line opens a class or a method, closes it, or is one token.    *)
(* cst_tokenizer walks the syntax tree of the file with a stack of the     *)
(* names it is inside; every token is written with that stack, and every   *)
(* opened name gives a row of the outline.                                 *)
(***************************************************************************)
TokenizeLine(s, line) ==
    LET context == IF line[1] = "open" THEN Append(s.context, line[2]) ELSE s.context
    IN  [context |-> IF line[1] = "close" THEN Front(context) ELSE context,
         tokenized |-> Append(s.tokenized, <<context, line[2]>>),
         structure |-> IF line[1] = "open" THEN Append(s.structure, context) ELSE s.structure]

PlainLine(s, line) == [s EXCEPT !.tokenized = Append(@, <<<<>>, line[2]>>)]

Outline(path, lines) ==
    LET s == FoldLeft(LAMBDA a, line : IF LangOf(path) = "none" THEN PlainLine(a, line)
                                       ELSE TokenizeLine(a, line),
                      [context |-> <<>>, tokenized |-> <<>>, structure |-> <<>>], lines)
    IN  [lang |-> LangOf(path), tokenized |-> s.tokenized, structure |-> s.structure]

ModifiedFiles(tree, parents) == {p \in Modified(tree, parents) : IsBlobAt(tree, p)}

(* The files of the commit that changed and that have a tokenizer.         *)
process_modified_files(tree, parents) ==
    [p \in {q \in ModifiedFiles(tree, parents) : LangOf(q) # Untokenized} |->
        Outline(p, tree[p].lines)]

-----------------------------------------------------------------------------
(***************************************************************************)
(* files and files-struct.  They are removed as a whole at the start of    *)
(* each commit ("D files", "D files-struct"); what is as in a parent is    *)
(* taken over from the parent's, if that has it, the rest is written.      *)
(***************************************************************************)
NoFiles == [p \in {} |-> [tokens |-> <<>>, lang |-> "none", structure |-> <<>>]]

NotEmptied(files) == files
Emptied(files) == NoFiles

Propagated(tree, parents, syntax_parents) ==
    LET from(p) == {l \in Links(tree, parents) :
                        IsPrefix(l[1], p) /\ p \in DOMAIN syntax_parents[l[2]].files}
        paths == {p \in UNION {DOMAIN syntax_parents[i].files : i \in DOMAIN syntax_parents} :
                    from(p) # {}}
    IN  [p \in paths |-> syntax_parents[(CHOOSE l \in from(p) : TRUE)[2]].files[p]]

Tokenized(new) == [p \in DOMAIN new |->
                    [tokens |-> new[p].tokenized, lang |-> new[p].lang, structure |-> new[p].structure]]

Over(f, g) == [x \in DOMAIN f \cup DOMAIN g |-> IF x \in DOMAIN g THEN g[x] ELSE f[x]]

Files(tree, parents, syntax_parents, new) ==
    LET first == IF syntax_parents = <<>> THEN NoFiles ELSE syntax_parents[1].files
    IN  Over(Over(Emptied(first), Propagated(tree, parents, syntax_parents)), Tokenized(new))

-----------------------------------------------------------------------------
(***************************************************************************)
(* symdex.  A symbol is a language and the names it is nested in.  For a   *)
(* file that changed, the symbols of its old outlines have records to      *)
(* filter out, and those of its new outline, as well as the symbols these  *)
(* are in, get new records.                                                *)
(***************************************************************************)
FilterNothing(path, old) == {}
FilterFor(path, old) == {<<old.lang, pretty>> : pretty \in Range(old.structure)}

FilesToFilter(tree, parents, syntax_parents, symbol) ==
    {p \in ModifiedFiles(tree, parents) :
        \E i \in DOMAIN syntax_parents :
        /\ p \in DOMAIN syntax_parents[i].files
           /\ symbol \in FilterFor(p, syntax_parents[i].files[p])}

RecordsOn(pretty) == IF Len(pretty) > 1 THEN {Front(pretty), pretty} ELSE {pretty}

NewRecords(new, symbol) ==
    LET of(p) == SelectSeq(new[p].structure,
                           LAMBDA r : symbol \in {<<new[p].lang, s>> : s \in RecordsOn(r)})
        paths == SetToSeq(DOMAIN new)
    IN  FlattenSeq([i \in DOMAIN paths |->
                        [k \in DOMAIN of(paths[i]) |->
                            [path |-> paths[i], pretty |-> of(paths[i])[k]]]])

Noted(tree, parents, syntax_parents, new) ==
    UNION {{<<new[p].lang, s>> : s \in UNION {RecordsOn(r) : r \in Range(new[p].structure)}}
            : p \in DOMAIN new}
    \cup UNION {UNION {FilterFor(p, syntax_parents[i].files[p])
                        : p \in ModifiedFiles(tree, parents) \cap DOMAIN syntax_parents[i].files}
               : i \in DOMAIN syntax_parents}

(* Only the first parent that has the symbol is read.                      *)
ParentRecords(syntax_parents, symbol) ==
    LET having == {i \in DOMAIN syntax_parents : symbol \in DOMAIN syntax_parents[i].symdex}
    IN  IF having = {} THEN <<>>
        ELSE syntax_parents[CHOOSE i \in having : \A j \in having : i <= j].symdex[symbol]

process_symdex_tree(tree, parents, syntax_parents, new) ==
    LET kept(symbol) == LET gone == FilesToFilter(tree, parents, syntax_parents, symbol)
                        IN  SelectSeq(ParentRecords(syntax_parents, symbol),
                                      LAMBDA rec : rec.path \notin gone)
        records(symbol) == SortSeq(kept(symbol) \o NewRecords(new, symbol),
                                   LAMBDA a, b : RecordRank(a) < RecordRank(b))
        base == IF syntax_parents = <<>> THEN [s \in {} |-> <<>>] ELSE syntax_parents[1].symdex
        noted == Noted(tree, parents, syntax_parents, new)
        moot == {s \in noted : records(s) = <<>>}
    IN  [s \in (DOMAIN base \cup noted) \ moot |->
            IF s \in noted THEN records(s) ELSE base[s]]

-----------------------------------------------------------------------------
(* One commit of the syntax repository, and the tree it has in git.        *)
syntax_commit(tree, parents, syntax_parents) ==
    LET new == process_modified_files(tree, parents)
    IN  [files |-> Files(tree, parents, syntax_parents, new),
         symdex |-> process_symdex_tree(tree, parents, syntax_parents, new)]

FileLines(file) == [i \in DOMAIN file.tokens |-> <<"tok", file.tokens[i][1], file.tokens[i][2]>>]
StructLines(file) == <<<<"lang", file.lang>>>>
                     \o [i \in DOMAIN file.structure |-> <<"row", file.structure[i]>>]
SymdexLines(records) == <<<<"symdex">>>>
                        \o [i \in DOMAIN records |-> <<"rec", records[i].pretty, records[i].path>>]

SymdexPath(symbol) == <<"symdex", symbol[1]>> \o Front(symbol[2])
                      \o <<Last(symbol[2]) \o ".ndjson">>

GitTree(commit) ==
    LET files == {<<"files">> \o p : p \in DOMAIN commit.files}
        struct == {<<"files-struct">> \o p : p \in DOMAIN commit.files}
        symbols == DOMAIN commit.symdex
    IN  [q \in files \cup struct \cup {SymdexPath(s) : s \in symbols} |->
            CASE q \in files -> Blob(FileLines(commit.files[Tail(q)]))
              [] q \in struct -> Blob(StructLines(commit.files[Tail(q)]))
              [] OTHER -> Blob(SymdexLines(commit.symdex[CHOOSE s \in symbols : SymdexPath(s) = q]))]
=============================================================================
