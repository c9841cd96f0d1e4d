-------------------------- MODULE CrossrefDatabase --------------------------
(***************************************************************************)
(* The indexer writes the crossref file, the servers look symbols up in    *)
(* it: CrossrefWrite and CrossrefLookup put together.  A server opens what *)
(* the program wrote when it has ended well; or it has had any other       *)
(* well-formed file from the start.  The identifiers, which lead a query   *)
(* to the symbols, are a file of their own (Identifiers) that shares       *)
(* nothing with these, and is written and searched in behaviours of its    *)
(* own.                                                                    *)
(***************************************************************************)
EXTENDS CrossrefLookup, CrossrefWrite, Identifiers

ASSUME DatabaseAssumption == "crossref" \in Databases

Unmapped == [n |-> 0, key |-> <<>>, start |-> <<0>>, id_end |-> <<>>]

(* The writer of a file that is there already has nothing left to do.      *)
NothingToWrite ==
    /\ table = <<>> /\ phase = "done" /\ next = <<>> /\ full = FALSE
    /\ at = [f \in Databases \X BOOLEAN |-> <<thread_count, 1>>]
    /\ part = <<>> /\ part_extra = <<>> /\ ext_offset = <<>>
    /\ merged = [d \in Databases |-> <<>>] /\ extra = merged

NothingToFind == file = Unmapped /\ pc = "idle" /\ sym = 0 /\ first = 0 /\ count = 0 /\ result = 0

DatabaseInit == \/ WriteInit /\ NothingToFind /\ IdentOff
                \/ NothingToWrite /\ Init /\ IdentOff
                \/ NothingToWrite /\ NothingToFind /\ IdentInit

(* CrossrefLookupMap::new.  A disk that cut the file short is not followed.*)
Open ==
    /\ file = Unmapped /\ table # <<>> /\ Finished("crossref")
    /\ file' = LayoutOf(merged["crossref"])
    /\ UNCHANGED <<pc, sym, first, count, result, writeVars, identVars>>

DatabaseNext == \/ WriteNext /\ UNCHANGED <<vars, identVars>>
                \/ Open
                \/ file # Unmapped /\ Next /\ UNCHANGED <<writeVars, identVars>>
                \/ IdentNext /\ UNCHANGED <<vars, writeVars>>

DatabaseSpec == /\ DatabaseInit
                /\ [][DatabaseNext]_<<vars, writeVars, identVars>>
                /\ WF_vars(Search)

-----------------------------------------------------------------------------
(* docs/crossref.md, "The file is sorted": however the table was cut into  *)
(* chunks, the file is one that the lookup can bisect.                     *)
Bisectable ==
    \A d \in Databases : Finished(d) => WellFormed(LayoutOf(merged[d]))

(* What the indexer leaves is fit for the servers: counted right, complete *)
(* and sorted if it says that it is done and nothing was cut short, and    *)
(* with few holes otherwise.                                               *)
FilesSound == OffsetsCounted /\ EverySymbolResolves /\ Bisectable /\ FewHoles

(* What a server finds in any file is there, and what it does not find is  *)
(* not; and in the file that the indexer wrote, it finds just the symbols  *)
(* that the indexer was given: through the chunks, the bytes and the       *)
(* bisection, none is lost, taken for another or made up.                  *)
AnswersExact ==
    /\ Exact
    /\ file # Unmapped /\ table # <<>> =>
          /\ pc = "found"  => table[result].key = sym
          /\ pc = "missed" => \A i \in DOMAIN table : table[i].key # sym
=============================================================================
