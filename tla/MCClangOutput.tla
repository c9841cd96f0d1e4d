---------------------------- MODULE MCClangOutput ----------------------------
(***************************************************************************)
(* Three compilers and the headers h and g, which two of them meet in      *)
(* opposite orders; they find common and different records, some twice.    *)
(***************************************************************************)
EXTENDS ClangOutput, TLC

CONSTANTS p1, p2, p3, h, g

Item(f, s) == [file |-> f, lines |-> s]

mcWork == (p1 :> <<Item(h, <<3, 1, 3>>), Item(g, <<1>>)>>)
       @@ (p2 :> <<Item(g, <<3>>), Item(h, <<5>>)>>)
       @@ (p3 :> <<Item(h, <<3>>)>>)
=============================================================================
