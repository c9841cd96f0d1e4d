---- MODULE MCBlameBuild ----
(***************************************************************************)
(* A source history with two roots joined by a merge, in the order the     *)
(* revwalk delivers it: a1 <- a2, b1 <- b2, m = merge(a2, b2), n on m.     *)
(***************************************************************************)
EXTENDS BlameBuildProps, TLC

CONSTANTS a1, a2, b1, b2, m, n

mcRevs == {a1, a2, b1, b2, m, n}
mcParents == (a1 :> <<>>) @@ (a2 :> <<a1>>) @@ (b1 :> <<>>) @@ (b2 :> <<b1>>)
             @@ (m :> <<a2, b2>>) @@ (n :> <<m>>)
mcWalk == [h \in Heads |->
    CASE h = a1 -> <<a1>>
      [] h = m  -> <<a1, a2, b1, b2, m>>
      [] h = n  -> <<a1, a2, b1, b2, m, n>>]
====
