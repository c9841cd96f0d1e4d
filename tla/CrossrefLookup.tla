--------------------------- MODULE CrossrefLookup ---------------------------
(***************************************************************************)
(* Looking a symbol up in a crossref file: bisect_for_payload of           *)
(* tools/src/file_format/crossref_lookup.rs, and its twin in               *)
(* router/crossrefs.py, bisect the BYTES of a file whose records have any  *)
(* length, and must land on whole records.                                 *)
(***************************************************************************)
EXTENDS Naturals

(***************************************************************************)
(* The bytes of a crossref (or jumpref) file as far as its readers care:   *)
(* record i is an identifier line from the offset start[i] of its "!" to   *)
(* the newline at id_end[i], then a payload line whose newline is the last *)
(* byte before start[i + 1].  Identifiers are numbers, ordered as they are.*)
(***************************************************************************)
Records(f) == 1 .. f.n
Size(f)    == f.start[f.n + 1]

(* The file is sorted, its records touch, and no payload is empty.         *)
WellFormed(f) ==
    /\ f.n \in Nat
    /\ f.key \in [Records(f) -> Nat]
    /\ f.id_end \in [Records(f) -> Nat]
    /\ f.start \in [1 .. f.n + 1 -> Nat]
    /\ f.start[1] = 0
    /\ \A i \in Records(f) : /\ f.start[i] < f.id_end[i]
                             /\ f.id_end[i] + 2 < f.start[i + 1]
    /\ \A i, j \in 1 .. f.n + 1 : i < j => f.start[i] < f.start[j]
    /\ \A i, j \in Records(f) : i < j => f.key[i] < f.key[j]
    /\ \A p \in 0 .. Size(f) - 1 :
           \E i \in Records(f) : f.start[i] <= p /\ p < f.start[i + 1]
-----------------------------------------------------------------------------
CONSTANTS CrossrefFiles,   \* the files that may have been loaded
          Symbols          \* the symbols that may be asked for

ASSUME LookupAssumption ==
    /\ \A f \in CrossrefFiles : WellFormed(f)
    /\ Symbols \subseteq Nat

VARIABLES file,     \* inline_mm
          pc,       \* "idle", in the loop of a "search", "found" or "missed"
          sym,      \* search_sym
          first, count,
          result    \* the record whose payload line was returned last

vars == <<file, pc, sym, first, count, result>>

Init == /\ file \in CrossrefFiles
        /\ pc = "idle"
        /\ sym \in Symbols
        /\ first = 0 /\ count = 0
        /\ result = 0

step == count \div 2
pos  == first + step

(* get_id_line: the record whose identifier or payload line p is in.       *)
LineAt(p) == CHOOSE i \in Records(file) : file.start[i] <= p /\ p < file.start[i + 1]

(* Mutant: nothing is skipped.                                             *)
SkipNothing(i) == file.start[i]

(* Forward from pos to the newline of the payload line, and past it.       *)
SkipRecord(i) == file.start[i + 1]

(* Mutant: all of the identifier line is subtracted, wherever in the       *)
(* record pos is.                                                          *)
SubtractWholeLine(i) == LET length == file.id_end[i] - file.start[i]
                        IN  IF step > length THEN step - length ELSE 0

(* count = step - (pos - line_start)                                       *)
CountBefore(i) == step - (pos - file.start[i])

(* Mutant: what is skipped beyond pos is not subtracted.                   *)
CountFromPos(new) == count - step

(* count -= pos - first                                                    *)
CountFrom(new) == count - (new - first)

-----------------------------------------------------------------------------
Ask ==
    /\ pc # "search"
    /\ pc' = "search"
    /\ sym' \in Symbols
    /\ first' = 0 /\ count' = Size(file)
    /\ UNCHANGED <<file, result>>

Searching == pc = "search" /\ count > 0

Equal ==
    /\ Searching
    /\ file.key[LineAt(pos)] = sym
    /\ result' = LineAt(pos)
    /\ pc' = "found"
    /\ UNCHANGED <<file, sym, first, count>>

Less ==
    /\ Searching
    /\ file.key[LineAt(pos)] < sym
    /\ first' = SkipRecord(LineAt(pos))
    /\ count' = CountFrom(SkipRecord(LineAt(pos)))
    /\ UNCHANGED <<file, pc, sym, result>>

Greater ==
    /\ Searching
    /\ file.key[LineAt(pos)] > sym
    /\ count' = CountBefore(LineAt(pos))
    /\ UNCHANGED <<file, pc, sym, first, result>>

Miss ==
    /\ pc = "search" /\ count = 0
    /\ pc' = "missed"
    /\ UNCHANGED <<file, sym, first, count, result>>

Search == Equal \/ Less \/ Greater \/ Miss
Next   == Ask \/ Search

Spec == Init /\ [][Next]_vars

(* The loop runs in one thread until it returns; nobody owes a query.      *)
FairSpec == Spec /\ WF_vars(Search)

-----------------------------------------------------------------------------
(* usize: neither subtraction goes below zero.                             *)
TypeOK ==
    /\ file \in CrossrefFiles
    /\ pc \in {"idle", "search", "found", "missed"}
    /\ sym \in Symbols
    /\ first \in Nat /\ count \in Nat
    /\ result \in 0 .. file.n

(* "Because we take care to always adjust the byte-range window we are     *)
(* looking at to eliminate both the key and value lines": the window is a  *)
(* run of whole records, and all the records outside it have been ruled    *)
(* out, so that pos never falls into a line that was already looked at.    *)
WindowOfRecords ==
    pc = "search" =>
        \E a, b \in 1 .. file.n + 1 :
            /\ a <= b /\ first = file.start[a] /\ first + count = file.start[b]
            /\ \A i \in Records(file) : (i < a => file.key[i] < sym)
                                     /\ (i >= b => file.key[i] > sym)

(* The lookup is exact: what it returns belongs to the symbol, and nothing *)
(* is returned only when the file has no record of the symbol.             *)
Exact ==
    /\ pc = "found"  => file.key[result] = sym
    /\ pc = "missed" => \A i \in Records(file) : file.key[i] # sym

(* Every probe at least halves the window: a lookup faults a logarithmic   *)
(* number of pages.                                                        *)
Halves == [][pc = "search" /\ pc' = "search" => count' <= count \div 2]_vars

(* Every lookup ends.                                                      *)
Answers == pc = "search" ~> pc # "search"
=============================================================================
