------------------------------- MODULE MCDeploy -------------------------------
(***************************************************************************)
(* Two triggers in a row, and an operator who may come at any time: enough *)
(* for one deployment to serve, one to die and one to clean up.  The first *)
(* may still deploy when the second, or the operator, begins.              *)
(***************************************************************************)
EXTENDS Deploy, Sequences

CONSTANTS i1, i2, o1

mcSchedule == <<i1, i2>>
mcTogether == {{i1}, {i2}, {o1}, {i1, i2}, {i1, o1}}
=============================================================================
