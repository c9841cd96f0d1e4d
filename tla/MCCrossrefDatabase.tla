------------------------- MODULE MCCrossrefDatabase -------------------------
(***************************************************************************)
(* Tables of up to MaxTotal symbols with every combination of JSON lengths *)
(* around the threshold (the jumpref JSON is another one), written and     *)
(* then looked up; and every file of up to MaxRecords records whose lines  *)
(* have one of a few lengths, short and long.  Symbols are asked for that  *)
(* come before, between and after the keys, which are even.                *)
(***************************************************************************)
EXTENDS CrossrefDatabase

CONSTANTS MinTotal, MaxTotal,   \* bounds
          MaxRecords,
          JsonLengths,          \* of ":" lines, newline included
          IdLengths,            \* of identifier lines, "!" and newline included
          PayloadLengths,       \* of payload lines, newline included
          MaxIds                \* of identifiers

mcTables ==
    {[i \in DOMAIN s |->
        [key    |-> 2 * i, id_len |-> 2 + (i % 2),
         len    |-> [d \in Databases |->
                        IF d = "crossref" THEN s[i] ELSE s[1 + Len(s) - i]]]] :
     s \in UNION {[1 .. n -> JsonLengths] : n \in MinTotal .. MaxTotal}}

(* The record lengths s, laid out one after the other.                     *)
LaidOut(s) ==
    LET n == Len(s)
        start[i \in 1 .. n + 1] == IF i = 1 THEN 0 ELSE start[i - 1] + s[i - 1][1] + s[i - 1][2]
    IN  [n      |-> n,
         key    |-> [i \in 1 .. n |-> 2 * i],
         start  |-> start,
         id_end |-> [i \in 1 .. n |-> start[i] + s[i][1] - 1]]

mcFiles   == {LaidOut(s) : s \in UNION {[1 .. n -> IdLengths \X PayloadLengths] : n \in 1 .. MaxRecords}}
mcSymbols == 1 .. 2 * MaxRecords + 1

(* Identifiers in both cases, with one another as prefixes, with a second  *)
(* component, a tilde and a byte beyond ASCII.                             *)
Names == {<<6>>, <<4>>, <<6, 7>>, <<4, 7>>, <<6, 5, 6>>, <<6, COLON, 7>>, <<6, TILDE, 7>>,
          <<6, HIGH>>, <<7>>}
mcIdTables == {{[id |-> n, sym |-> <<7, 6>>] : n \in N} :
                 N \in UNION {kSubset(k, Names) : k \in 0 .. MaxIds}}
                \cup {{[id |-> <<6>>, sym |-> s] : s \in {<<4>>, <<6>>, <<7>>}}}
mcNeedles == [needle : {<<>>, <<6>>, <<4>>, <<6, 7>>, <<6, COLON>>, <<7>>},
              exact_match : BOOLEAN, ignore_case : BOOLEAN, max_results : {0, 2}]
=============================================================================
