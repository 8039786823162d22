-------------------------- MODULE MCBuildController --------------------------
(***************************************************************************)
(* BuildController on small instances; the configurations choose them.     *)
(* Operators are model values: a liveness run may not use their symmetry.  *)
(***************************************************************************)
EXTENDS BuildController

(* Two pushes without failures, or up to one push with failures: more than *)
(* these together is beyond TLC's reach in one run.                        *)
Affordable == pushes' > 1 => faults' = 0
AffordableSpec == Init /\ [][Next /\ Affordable]_vars /\ Fairness
=============================================================================
