------------------------------- MODULE MCTucp -------------------------------
(***************************************************************************)
(* Instances of Tucp for TLC.  The commands are COMM_DEV_INFO_REQ (whose   *)
(* byte reads as a retryable error and whose ACK takes more than one       *)
(* report), COMM_IDLE, and COMM_WRITE_ABS_ADDR (which changes the watch's  *)
(* memory and whose packet takes more than one report).                    *)
(***************************************************************************)
EXTENDS Tucp

MCCommands == {1, 5, 11}
MCReqReports == [c \in MCCommands |-> IF c = 11 THEN 2 ELSE 1]
MCAckReports == [c \in MCCommands |-> IF c = 1 THEN 2 ELSE 1]

\* writes; COMM_IDLE is the transport's own
MCWrites == {5, 11}
MCWriteReports == [c \in MCWrites |-> IF c = 11 THEN 2 ELSE 1]
MCWriteAcks == [c \in MCWrites |-> 1]
=============================================================================
