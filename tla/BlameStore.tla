----------------------------- MODULE BlameStore -----------------------------
(***************************************************************************)
(* What build-blame promises about the blame repository, whatever threads, *)
(* channels, fast-import processes and aborts are below it.  Every source  *)
(* revision is transformed at most once, after all of its parents; work is *)
(* either volatile or saved; an abort loses only what was not saved, and   *)
(* what is saved never loses a parent it depends on.                       *)
(***************************************************************************)
EXTENDS FiniteSets, Functions

CONSTANTS Revs,     \* the revisions of the source repository
          Parents   \* [Revs -> Seq(Revs)]

VARIABLES known,    \* revisions that have a blame commit
          saved     \* those whose blame commit a restarted build will find

vars == <<known, saved>>

ParentsOf(r) == Range(Parents[r])

ParentClosed(S) == \A r \in S : ParentsOf(r) \subseteq S

Init == known = {} /\ saved = {}

(* One more revision gets its blame commit.                                *)
Transform(r) == /\ r \notin known
                /\ ParentsOf(r) \subseteq known
                /\ known' = known \cup {r}
                /\ UNCHANGED saved

(* A checkpoint, or the end of fast-import, makes more of it durable.      *)
Save(S) == /\ saved \subseteq S
           /\ ParentClosed(S)
           /\ saved' = S
           /\ UNCHANGED known

(* The build aborts; the next one starts from what was saved.              *)
Abort == known' = saved /\ UNCHANGED saved

Next == \/ \E r \in Revs : Transform(r)
        \/ \E S \in SUBSET known : Save(S)
        \/ Abort

Spec == Init /\ [][Next]_vars
=============================================================================
