------------------------- MODULE MCBoostTcpConnection -------------------------
(* The application thread and a second thread send a few messages.         *)
EXTENDS BoostTcpConnection

MCThreads == {"application", "scheduler"}
MCSends == [t \in MCThreads |-> IF t = "application" THEN 2 ELSE 1]
=============================================================================
