------------------------------ MODULE MCLoadAdd ------------------------------
(***************************************************************************)
(* Instances of LoadAdd for TLC.  Applications 0 and 2 of the table are    *)
(* installed without an external ADD.                                      *)
(***************************************************************************)
EXTENDS LoadAdd

MCExt == {1, 3, 4}
MCAcbPage == [a \in Apps |-> a \div 3]
=============================================================================
