---------------------------- MODULE CrossrefWrite ----------------------------
(***************************************************************************)
(* Writing the crossref and jumpref databases (tools/src/bin/crossref.rs): *)
(* threads write a chunk of the sorted symbols each, into files of their   *)
(* own; then one thread per output file concatenates the chunks.  A long   *)
(* JSON goes to the -extra file, and the offset at which a later chunk     *)
(* refers to it is adjusted while the chunks are concatenated.             *)
(*                                                                         *)
(* A line is a record with its length in bytes; what a JSON says is the    *)
(* symbol it belongs to.                                                   *)
(***************************************************************************)
EXTENDS Naturals, Sequences, SequencesExt

CONSTANTS Tables,     \* search_result_lists: the records [key, id_len, len]
                      \* where len gives each database's inline_line.len()
          Databases,  \* "crossref" and "jumpref"
          Threshold,  \* EXTERNAL_STORAGE_THRESHOLD
          Threads,    \* thread_count given by scripts/crossref.sh
          OneThread,  \* a table of at most this many is written by one thread
          RefLength,  \* the length of an "@" line (its digits are abstracted)
          Buffer,     \* lines that BUF_SIZE bytes of an -extra file hold
          Faults      \* subset of {"panic", "short"}

(* An identifier line is "!", the identifier and a newline, a JSON line    *)
(* ":", the JSON and a newline, and an "@" line has a number or two.       *)
ASSUME WriteAssumption ==
    /\ Threads \in Nat \ {0} /\ OneThread \in Nat
    /\ Threshold \in Nat /\ RefLength \in Nat /\ RefLength > 2 /\ Buffer \in Nat \ {0}
    /\ IsFiniteSet(Databases)
    /\ \A t \in Tables :
           /\ t \in Seq([key : Nat, id_len : Nat, len : [Databases -> Nat]])
           /\ \A i \in DOMAIN t : t[i].id_len > 1 /\ \A d \in Databases : t[i].len[d] > 2
           /\ \A i, j \in DOMAIN t : i < j => t[i].key < t[j].key
    /\ Faults \subseteq {"panic", "short"}

VARIABLES table,       \* search_result_list
          phase,       \* "write", "merge", "done" or "panicked"
          next,        \* each writer's position in the table
          part,        \* [Databases -> [Chunks -> lines]]: the chunk files
          part_extra,  \* ... and those of the -extra files
          ext_offset,  \* the writers' count of the bytes in an -extra chunk
          merged,      \* [Databases -> lines]: the output files
          extra,       \* ... and the -extra files
          at,          \* where each merging thread is: <<chunk, line>>
          full         \* has the disk cut a write short, and is it full still?

writeVars == <<table, phase, next, part, part_extra, ext_offset, merged, extra, at, full>>

total        == Len(table)
thread_count == IF total > OneThread THEN Threads ELSE 1
Chunks       == 0 .. thread_count - 1
chunk        == total \div thread_count

StartOf(c) == chunk * c
EndOf(c)   == IF c = thread_count - 1 THEN total ELSE chunk * (c + 1)

WriteInit ==
    /\ table \in Tables
    /\ phase = "write"
    /\ next = [c \in Chunks |-> StartOf(c)]
    /\ part = [d \in Databases |-> [c \in Chunks |-> <<>>]]
    /\ part_extra = part
    /\ ext_offset = [d \in Databases |-> [c \in Chunks |-> 0]]
    /\ merged = [d \in Databases |-> <<>>]
    /\ extra = merged
    /\ at = [f \in Databases \X BOOLEAN |-> <<0, 1>>]
    /\ full = FALSE

IdLine(r)      == [kind |-> "id", key |-> r.key, len |-> r.id_len]
JsonLine(r, d) == [kind |-> "json", key |-> r.key, len |-> r.len[d]]
RefLine(kind, offset, length) ==
    [kind |-> kind, offset |-> offset, length |-> length, len |-> RefLength]

External(r, d) == r.len[d] >= Threshold

-----------------------------------------------------------------------------
(* The writers.                                                            *)

OffsetAfter(r, d, c) ==
    IF External(r, d) THEN ext_offset[d][c] + r.id_len + r.len[d] ELSE ext_offset[d][c]

(* The ":" is skipped, the newline is kept; "@!" marks an offset that      *)
(* still has to be adjusted.                                               *)
Payload(r, d, c) ==
    IF External(r, d)
    THEN RefLine(IF c = 0 THEN "@" ELSE "@!", ext_offset[d][c] + r.id_len + 1, r.len[d] - 1)
    ELSE JsonLine(r, d)

WriteRecord(c) ==
    LET r == table[next[c] + 1]
    IN  /\ phase = "write"
        /\ next[c] < EndOf(c)
        /\ part' = [d \in Databases |->
              [part[d] EXCEPT ![c] = @ \o <<IdLine(r), Payload(r, d, c)>>]]
        /\ part_extra' = [d \in Databases |->
              [part_extra[d] EXCEPT ![c] =
                  IF External(r, d) THEN @ \o <<IdLine(r), JsonLine(r, d)>> ELSE @]]
        /\ ext_offset' = [d \in Databases |->
              [ext_offset[d] EXCEPT ![c] = OffsetAfter(r, d, c)]]
        /\ next' = [next EXCEPT ![c] = @ + 1]
        /\ UNCHANGED <<table, phase, merged, extra, at, full>>

(* The scope joins the writers.  A single one has written the output files.*)
WritersJoined ==
    /\ phase = "write"
    /\ \A c \in Chunks : next[c] = EndOf(c)
    /\ IF thread_count = 1
       THEN /\ phase' = "done"
            /\ merged' = [d \in Databases |-> part[d][0]]
            /\ extra' = [d \in Databases |-> part_extra[d][0]]
       ELSE /\ phase' = "merge"
            /\ UNCHANGED <<merged, extra>>
    /\ UNCHANGED <<table, next, part, part_extra, ext_offset, at, full>>

-----------------------------------------------------------------------------
(* The merging threads: f is a database and whether it is the -extra file. *)

Input(f)  == IF f[2] THEN part_extra[f[1]] ELSE part[f[1]]
Merged(f) == at[f][1] = thread_count

(* Mutant: the sizes are summed up before they are pushed.                 *)
OffsetsAfter(d, c) ==
    LET sum[i \in 0 .. c + 1] == IF i = 0 THEN 0 ELSE sum[i - 1] + ext_offset[d][i - 1]
    IN  sum[c + 1]

ExtOffsets(d, c) ==
    LET sum[i \in 0 .. c] == IF i = 0 THEN 0 ELSE sum[i - 1] + ext_offset[d][i - 1]
    IN  sum[c]

Adjusted(line, d, c) ==
    IF c > 0 /\ line.kind = "@!"
    THEN RefLine("@", line.offset + ExtOffsets(d, c), line.length)
    ELSE line

LineLeft(f) == ~ Merged(f) /\ at[f][2] <= Len(Input(f)[at[f][1]])

(* What goes to the output in one write: a line, or a buffer of an -extra  *)
(* file.                                                                   *)
Batch(f) ==
    LET c     == at[f][1]
        lines == SubSeq(Input(f)[c], at[f][2], Len(Input(f)[c]))
    IN  IF f[2] THEN SubSeq(lines, 1, Min({Len(lines), Buffer})) ELSE <<Adjusted(lines[1], f[1], c)>>

Put(f, lines) ==
    /\ merged' = IF f[2] THEN merged ELSE [merged EXCEPT ![f[1]] = @ \o lines]
    /\ extra'  = IF f[2] THEN [extra EXCEPT ![f[1]] = @ \o lines] ELSE extra
    /\ at' = [at EXCEPT ![f][2] = @ + Len(Batch(f))]

(* What was cut short was short of space: the next write fails, unless a   *)
(* chunk file was removed meanwhile.                                       *)
SpaceLeft == ~ full

MergeLines(f) ==
    /\ phase = "merge" /\ LineLeft(f)
    /\ SpaceLeft
    /\ Put(f, Batch(f))
    /\ UNCHANGED <<table, phase, next, part, part_extra, ext_offset, full>>

(* write() may write less than it was given, and nobody looks at how much. *)
ShortWrite(f) ==
    /\ "short" \in Faults
    /\ phase = "merge" /\ LineLeft(f)
    /\ SpaceLeft
    /\ \E n \in 1 .. Len(Batch(f)) :
           Put(f, Append(SubSeq(Batch(f), 1, n - 1),
                         [kind |-> "cut", len |-> Batch(f)[n].len - 1]))
    /\ full' = TRUE
    /\ UNCHANGED <<table, phase, next, part, part_extra, ext_offset>>

(* The end of a chunk file, which is removed.                              *)
NextChunk(f) ==
    LET c == at[f][1]
    IN  /\ phase = "merge" /\ ~ Merged(f) /\ ~ LineLeft(f)
        /\ at' = [at EXCEPT ![f] = <<c + 1, 1>>]
        /\ part' = IF f[2] THEN part ELSE [part EXCEPT ![f[1]][c] = <<>>]
        /\ part_extra' = IF f[2] THEN [part_extra EXCEPT ![f[1]][c] = <<>>] ELSE part_extra
        /\ full' = FALSE
        /\ UNCHANGED <<table, phase, next, ext_offset, merged, extra>>

AllMerged ==
    /\ phase = "merge"
    /\ \A f \in DOMAIN at : Merged(f)
    /\ phase' = "done"
    /\ UNCHANGED <<table, next, part, part_extra, ext_offset, merged, extra, at, full>>

(* A thread panics on a failed write or read, and the scope with it.       *)
Panic ==
    /\ \/ "panic" \in Faults /\ phase \in {"write", "merge"}
       \/ phase = "merge" /\ ~ SpaceLeft /\ \E f \in DOMAIN at : LineLeft(f)
    /\ phase' = "panicked"
    /\ UNCHANGED <<table, next, part, part_extra, ext_offset, merged, extra, at, full>>

(* The program has ended.                                                  *)
Over == phase \in {"done", "panicked"} /\ UNCHANGED writeVars

WriteNext ==
        \/ \E c \in Chunks : WriteRecord(c)
        \/ WritersJoined
        \/ \E f \in DOMAIN at : MergeLines(f) \/ ShortWrite(f) \/ NextChunk(f)
        \/ AllMerged \/ Panic \/ Over

-----------------------------------------------------------------------------
(* What the reader makes of the files (crossref_lookup.rs, lookup).        *)

Offset(lines, i) ==
    LET sum[k \in 0 .. Len(lines)] == IF k = 0 THEN 0 ELSE sum[k - 1] + lines[k].len
    IN  sum[i - 1]

Bytes(lines) == Offset(lines, Len(lines) + 1)

(* The symbols whose JSON is what a payload line leads to: none if the     *)
(* payload, or what it refers to, is no JSON.                              *)
Retrieved(line, d) ==
    CASE line.kind = "json" -> {line.key}
      [] line.kind = "@" ->
           {extra[d][i].key : i \in {k \in DOMAIN extra[d] :
                /\ extra[d][k].kind = "json"
                /\ Offset(extra[d], k) + 1 = line.offset
                /\ extra[d][k].len - 1 = line.length}}
      [] OTHER -> {}

(* The layout that the bisection sees.                                     *)
LayoutOf(lines) ==
    LET found[k \in 0 .. Len(lines)] ==
            IF k = 0 THEN <<>>
            ELSE found[k - 1] \o (IF lines[k].kind = "id" THEN <<k>> ELSE <<>>)
        ids == found[Len(lines)]
        n   == Len(ids)
    IN  [n      |-> n,
         key    |-> [i \in 1 .. n |-> lines[ids[i]].key],
         start  |-> [i \in 1 .. n + 1 |->
                        IF i = n + 1 THEN Bytes(lines) ELSE Offset(lines, ids[i])],
         id_end |-> [i \in 1 .. n |-> Offset(lines, ids[i] + 1) - 1]]

Resolves(i, d) ==
    \E k \in 1 .. Len(merged[d]) - 1 :
        /\ merged[d][k] = IdLine(table[i])
        /\ Retrieved(merged[d][k + 1], d) = {table[i].key}

-----------------------------------------------------------------------------
(* The writers' own count of the -extra bytes is right ("relying on our    *)
(* tests to make sure we don't mess up").                                  *)
OffsetsCounted ==
    phase = "write" =>
        \A d \in Databases, c \in Chunks : ext_offset[d][c] = Bytes(part_extra[d][c])

Output(f) == IF f[2] THEN extra[f[1]] ELSE merged[f[1]]

(* Holes that short writes left in the output files, and the chunk files   *)
(* that were removed.                                                      *)
Holes   == UNION {{f} \X {i \in DOMAIN Output(f) : Output(f)[i].kind = "cut"} :
                  f \in Databases \X BOOLEAN}
Removed == UNION {{f} \X (0 .. at[f][1] - 1) : f \in Databases \X BOOLEAN}

Finished(d) == phase = "done" /\ \A hole \in Holes : hole[1][1] # d

(* docs/crossref.md: the JSON of every symbol is found, inline or at the   *)
(* offset and length given in hexadecimal, unless a write was cut short.   *)
EverySymbolResolves ==
    \A d \in Databases : Finished(d) => \A i \in DOMAIN table : Resolves(i, d)

(* A disk that fills up during the merge stops the program, or leaves no   *)
(* more holes than there were moments at which it could fill up again: a   *)
(* chunk file that is removed makes room for all.                          *)
FewHoles == Cardinality(Holes) <= 1 + Cardinality(Removed)
=============================================================================
