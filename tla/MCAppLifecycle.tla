---------------------------- MODULE MCAppLifecycle ----------------------------
(***************************************************************************)
(* AppLifecycle on small instances; the configurations choose them.        *)
(***************************************************************************)
EXTENDS AppLifecycle
=============================================================================
