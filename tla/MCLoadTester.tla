---------------------------- MODULE MCLoadTester ----------------------------
(* LoadTester with two test clients.                                        *)
EXTENDS LoadTester

CONSTANTS t1, t2

MCTesters == {t1, t2}
=============================================================================
