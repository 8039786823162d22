---------------------------- MODULE MCRuntimeSync -----------------------------
(***************************************************************************)
(* RuntimeSync on small instances: two specs over two atoms that differ in *)
(* every field but the raw Job, whose template Kubernetes does not let     *)
(* anybody edit.  The second has no Ingress, HTTPRoute, HPA or volume and   *)
(* as many variables as the first, none of them empty.                     *)
(***************************************************************************)
EXTENDS RuntimeSync

MCAtom == {"x", "y"}

First == [f \in SpecField |-> IF f = "blanks" THEN {"y"} ELSE {"x"}]
Second == [f \in SpecField |->
              CASE f \in {"ingress", "route", "hpa", "volumes", "blanks"} -> {}
                [] f = "vars" -> {"x", "y"}
                [] f = "job"  -> {"x"}
                [] OTHER      -> {"y"}]
MCSpecs == {First, Second}

(* Each instance has some of the objects, in EnsureRuntime's order. *)
MCOrders == {<<"deployment", "binding">>, <<"service", "ingress">>,
             <<"route", "hpa">>, <<"role", "job">>}
JobOrders == {<<"job">>}
=============================================================================
