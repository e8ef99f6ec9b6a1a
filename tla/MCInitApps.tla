------------------------------ MODULE MCInitApps ------------------------------
(***************************************************************************)
(* Instances of InitApps for TLC: every command line of up to three        *)
(* applications.                                                           *)
(***************************************************************************)
EXTENDS InitApps

MCLists == UNION {[1..n -> Kinds] : n \in 1..3}
=============================================================================
