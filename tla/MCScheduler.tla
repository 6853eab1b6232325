----------------------------- MODULE MCScheduler -----------------------------
(* A periodic task, as the server's Persist, and a one-shot, as a timeout. *)
EXTENDS Scheduler

MCTasks == {"persist", "timeout"}
MCOnce == {"timeout"}
MCInterval == [t \in MCTasks |-> IF t = "timeout" THEN 1 ELSE 2]

=============================================================================
