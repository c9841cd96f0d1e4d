---------------------------- MODULE Identifiers ----------------------------
(***************************************************************************)
(* The identifiers file: written by crossref, sorted again by crossref.sh  *)
(* without regard to case, and searched for all identifiers that begin     *)
(* with a needle: two bisections over the bytes of the file, one for each  *)
(* end of the range, and a filter over the lines between (identifiers.rs). *)
(*                                                                         *)
(* A byte is a number, in the order of ASCII: the few below stand for      *)
(* their neighbours.  HIGH is a byte of a character beyond ASCII.          *)
(***************************************************************************)
EXTENDS Naturals, Sequences, SequencesExt, FiniteSetsExt

CONSTANTS IdTables,   \* id_table: the sets of [id, sym] that may be written
          Needles     \* the queries that may be asked

LF    == 0
SPACE == 1
DOT   == 2
COLON == 3
LOWER == {6, 7}   \* two letters, and 4 and 5 are their upper case
TILDE == 8
HIGH  == 9

VARIABLES id_table,
          mmap,        \* the lines of the file
          id_pc,       \* "off", "write", "sort", "ready", in the "lower" or "upper"
                       \* bisection, in the "filter", "answered" or "panicked"
          query,       \* the arguments of lookup
          id_first, id_count,
          id_start,    \* what the first bisection returned
          results

identVars == <<id_table, mmap, id_pc, query, id_first, id_count, id_start, results>>

uppercase(s) == [i \in DOMAIN s |-> IF s[i] \in LOWER THEN s[i] - 2 ELSE s[i]]

(* The order of strings, and that of sort -f.                              *)
Before(s, t) ==
    \E k \in DOMAIN t : /\ k <= Len(s) + 1 /\ SubSeq(s, 1, k - 1) = SubSeq(t, 1, k - 1)
                        /\ k = Len(s) + 1 \/ s[k] < t[k]
BeforeFolded(s, t) ==
    \/ Before(uppercase(s), uppercase(t))
    \/ uppercase(s) = uppercase(t) /\ Before(s, t)

IdentLine(e) == e.id \o <<SPACE>> \o e.sym
bytes == FlattenSeq([i \in DOMAIN mmap |-> Append(mmap[i], LF)])

IdentIdle == /\ mmap = <<>> /\ query = <<>>
             /\ id_first = 0 /\ id_count = 0 /\ id_start = 0 /\ results = <<>>
IdentOff  == id_table = {} /\ id_pc = "off" /\ IdentIdle
IdentInit == id_table \in IdTables /\ id_pc = "write" /\ IdentIdle

-----------------------------------------------------------------------------
(* write_identifiers, in the order of the table.                           *)
WriteIdentifiers ==
    /\ id_pc = "write"
    /\ id_pc' = "sort"
    /\ mmap' = SetToSortSeq({IdentLine(e) : e \in id_table}, Before)
    /\ UNCHANGED <<id_table, query, id_first, id_count, id_start, results>>

(* Mutant: crossref.sh leaves the file as it was written.                  *)
AsWritten(ls) == ls

(* LC_ALL=C sort -f.                                                       *)
Sorted(ls) == SortSeq(ls, BeforeFolded)
Sort ==
    /\ id_pc = "sort"
    /\ id_pc' = "ready"
    /\ mmap' = Sorted(mmap)
    /\ UNCHANGED <<id_table, query, id_first, id_count, id_start, results>>

(* An empty file cannot be mapped.                                         *)
Lookup ==
    /\ id_pc \in {"ready", "answered"} /\ mmap # <<>>
    /\ query' \in Needles
    /\ id_pc' = "lower" /\ results' = <<>> /\ id_start' = 0
    /\ id_first' = 0 /\ id_count' = Len(bytes)
    /\ UNCHANGED <<id_table, mmap>>

(* get_line: the line that the byte at offset p is in.  At a line break it *)
(* is the line before.                                                     *)
LineFrom(q) ==
    LET begin == Max({s \in 0 .. q : s = 0 \/ bytes[s] = LF})
        end   == Min({e \in q .. Len(bytes) - 1 : bytes[e + 1] = LF})
    IN  SubSeq(bytes, begin + 1, end)

get_line(p) == LineFrom(IF bytes[p + 1] = LF THEN p - 1 ELSE p)

bound == uppercase(query.needle) \o (IF id_pc = "upper" THEN <<TILDE>> ELSE <<>>)
half  == id_count \div 2

(* A line below the needle, or at its upper bound, is left behind.         *)
Passes(line) == Before(line, bound) \/ (id_pc = "upper" /\ line = bound)

Probe ==
    /\ id_pc \in {"lower", "upper"} /\ id_count > 0
    /\ IF Passes(uppercase(get_line(id_first + half)))
       THEN id_first' = id_first + half + 1 /\ id_count' = id_count - (half + 1)
       ELSE id_count' = half /\ UNCHANGED id_first
    /\ UNCHANGED <<id_table, mmap, id_pc, query, id_start, results>>

StartFound ==
    /\ id_pc = "lower" /\ id_count = 0
    /\ id_pc' = "upper" /\ id_start' = id_first
    /\ id_first' = 0 /\ id_count' = Len(bytes)
    /\ UNCHANGED <<id_table, mmap, query, results>>

(* A slice that ends before it starts panics.                              *)
EndFound ==
    /\ id_pc = "upper" /\ id_count = 0
    /\ id_pc' = IF id_start <= id_first THEN "filter" ELSE "panicked"
    /\ UNCHANGED <<id_table, mmap, query, id_first, id_count, id_start, results>>

(* The identifier of a line goes up to its last blank.                     *)
IdOf(line) ==
    LET blank == Max({i \in DOMAIN line : line[i] = SPACE})
    IN  [id |-> SubSeq(line, 1, blank - 1), sym |-> SubSeq(line, blank + 1, Len(line))]

Keeps(e) ==
    LET n == Len(query.needle)
        suffix == SubSeq(e.id, n + 1, Len(e.id))
    IN  /\ suffix # <<>> => /\ ~query.exact_match
                            /\ {COLON, DOT} \cap ToSet(suffix) = {}
        /\ query.ignore_case \/ SubSeq(e.id, 1, n) = query.needle

(* The lines of the slice, one by one; the limit is looked at after a      *)
(* result was added.                                                       *)
Filter ==
    LET slice == SubSeq(bytes, id_start + 1, id_first)
        breaks == SetToSortSeq({i \in DOMAIN slice : slice[i] = LF}, <)
        Line(i) == SubSeq(slice, IF i = 1 THEN 1 ELSE breaks[i - 1] + 1, breaks[i] - 1)
        full(r) == r # <<>> /\ Len(r) = query.max_results
        Add(r, i) == IF ~full(r) /\ SPACE \in ToSet(Line(i)) /\ Keeps(IdOf(Line(i)))
                     THEN Append(r, IdOf(Line(i))) ELSE r
    IN  /\ id_pc = "filter"
        /\ id_pc' = "answered"
        /\ results' = FoldLeft(Add, <<>>, [i \in DOMAIN breaks |-> i])
        /\ UNCHANGED <<id_table, mmap, query, id_first, id_count, id_start>>

IdentNext == \/ WriteIdentifiers \/ Sort \/ Lookup \/ Probe \/ StartFound \/ EndFound
             \/ Filter

-----------------------------------------------------------------------------
(* The answer to a query: of the identifiers that begin with the needle    *)
(* and go on, if they may, within the same component, those that come      *)
(* first.  One that goes on with a tilde, as a destructor does, or beyond  *)
(* ASCII lies above the upper bound and is not among them.                 *)
Wanted(e) ==
    LET n == Len(query.needle)
        begin == SubSeq(e.id, 1, n)
        rest  == SubSeq(e.id, n + 1, Len(e.id))
    IN  /\ Len(e.id) >= n
        /\ IF query.ignore_case THEN uppercase(begin) = uppercase(query.needle)
           ELSE begin = query.needle
        /\ query.exact_match => e.id = begin
        /\ rest # <<>> => rest[1] < TILDE
        /\ \A i \in DOMAIN rest : rest[i] \notin {COLON, DOT}

(* A search by prefix finds what there is to find, in order and up to the  *)
(* limit, nothing else, and never takes its range from its end to its      *)
(* start (identifiers.rs:148-152).                                         *)
PrefixSearch ==
    /\ id_pc # "panicked"
    /\ id_pc = "answered" =>
         LET found == {e \in id_table : Wanted(e)}
             Above(e) == {d \in found : BeforeFolded(IdentLine(d), IdentLine(e))}
             limit == IF query.max_results = 0 THEN Cardinality(found)
                      ELSE query.max_results
         IN  /\ ToSet(results) = {e \in found : Cardinality(Above(e)) < limit}
             /\ \A i, j \in DOMAIN results :
                  i < j => results[i] \in Above(results[j])
=============================================================================
