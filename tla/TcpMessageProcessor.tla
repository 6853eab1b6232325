------------------------- MODULE TcpMessageProcessor -------------------------
(***************************************************************************)
(* TcpMessageProcessor and the application thread that runs it.  The I/O   *)
(* thread enqueues the messages of every connection, the application       *)
(* thread swaps the whole queue out and runs it, the main thread stops     *)
(* both at shutdown.  A condition variable with a predicate connects them; *)
(* notify_one and notify_all come after the mutex is released.             *)
(*                                                                         *)
(* An operator named X_Y is a mutant of X: the code with the mistake Y,    *)
(* used to show that a property can fail.                                  *)
(***************************************************************************)
EXTENDS Integers, Sequences, FiniteSets

CONSTANTS
  Connections,
  MaxArrivals   \* bound: messages that arrive on one connection

ASSUME ProcessorAssumption == MaxArrivals \in Nat

VARIABLES
  arrived,      \* per connection, how many messages have arrived
  io_pc,        \* the I/O thread is in Enqueue before notify_one
  tasks,
  buffer,       \* the application thread's local queue
  stopped,
  app_pc,       \* where the application thread is
  notified,     \* the waiting thread has been notified
  stop_token,   \* stop_requested of the application thread
  main_pc,      \* where the main thread is in Deinitialize
  accepted,     \* history: every message put into tasks_, in order
  handled       \* history: every message handled, in order

ioVars   == <<arrived, io_pc>>
mainVars == <<stopped, stop_token, main_pc>>
processorVars == <<ioVars, tasks, buffer, app_pc, notified, mainVars, accepted, handled>>

ProcessorInit ==
  /\ arrived = [c \in Connections |-> 0]
  /\ io_pc = "idle"
  /\ tasks = <<>> /\ buffer = <<>>
  /\ stopped = FALSE /\ stop_token = FALSE
  /\ app_pc = "loop"
  /\ notified = FALSE
  /\ main_pc = "running"
  /\ accepted = <<>> /\ handled = <<>>

-----------------------------------------------------------------------------
(* I/O thread.                                                             *)

(* A message arrives and Enqueue drops it: the envelope does not decode or *)
(* its type is not known.                                                  *)
Undecodable(c) ==
  /\ io_pc = "idle"
  /\ arrived[c] < MaxArrivals
  /\ arrived' = [arrived EXCEPT ![c] = @ + 1]
  /\ UNCHANGED <<io_pc, tasks, buffer, app_pc, notified, mainVars, accepted, handled>>

(* Enqueue up to the end of its critical section. *)
Enqueue(c) ==
  LET m == <<c, arrived[c] + 1>>
  IN  /\ io_pc = "idle"
      /\ arrived[c] < MaxArrivals
      /\ arrived' = [arrived EXCEPT ![c] = @ + 1]
      /\ \/ stopped /\ UNCHANGED <<io_pc, tasks, accepted>>
         \/ /\ ~ stopped
            /\ tasks' = Append(tasks, m)
            /\ accepted' = Append(accepted, m)
            /\ io_pc' = "notify"
      /\ UNCHANGED <<buffer, app_pc, notified, mainVars, handled>>

NotifyOne_Forgets ==
  /\ io_pc = "notify"
  /\ io_pc' = "idle"
  /\ UNCHANGED <<arrived, tasks, buffer, app_pc, notified, mainVars, accepted, handled>>

NotifyOne ==
  /\ io_pc = "notify"
  /\ io_pc' = "idle"
  /\ notified' = (notified \/ app_pc = "wait")
  /\ UNCHANGED <<arrived, tasks, buffer, app_pc, mainVars, accepted, handled>>

-----------------------------------------------------------------------------
(* Application thread.                                                     *)

(* The loop of the thread, and the first lines of ProcessBlocking: the     *)
(* predicate is evaluated under the mutex, and a thread that has to wait   *)
(* starts to wait before it is released.                                   *)
ProcessBlocking_TakesNewest ==
  /\ app_pc = "loop"
  /\ ~ stop_token
  /\ \/ stopped /\ UNCHANGED <<app_pc, tasks, buffer, notified>>
     \/ /\ ~ stopped /\ tasks = <<>>
        /\ app_pc' = "wait" /\ notified' = FALSE
        /\ UNCHANGED <<tasks, buffer>>
     \/ /\ ~ stopped /\ tasks # <<>>
        /\ app_pc' = "run"
        /\ buffer' = <<tasks[Len(tasks)]>> /\ tasks' = <<>>
        /\ UNCHANGED notified
  /\ UNCHANGED <<ioVars, mainVars, accepted, handled>>

ProcessBlocking ==
  /\ app_pc = "loop"
  /\ ~ stop_token
  /\ \/ stopped /\ UNCHANGED <<app_pc, tasks, buffer, notified>>
     \/ /\ ~ stopped /\ tasks = <<>>
        /\ app_pc' = "wait" /\ notified' = FALSE
        /\ UNCHANGED <<tasks, buffer>>
     \/ /\ ~ stopped /\ tasks # <<>>
        /\ app_pc' = "run"
        /\ buffer' = tasks /\ tasks' = <<>>
        /\ UNCHANGED notified
  /\ UNCHANGED <<ioVars, mainVars, accepted, handled>>

(* A wait ends when notified, or for no reason; the predicate is evaluated *)
(* again, which is what the top of ProcessBlocking does.                   *)
Wake ==
  /\ app_pc = "wait"
  /\ notified
  /\ app_pc' = "loop"
  /\ UNCHANGED <<ioVars, tasks, buffer, notified, mainVars, accepted, handled>>

SpuriousWake ==
  /\ app_pc = "wait"
  /\ ~ notified
  /\ notified' = TRUE
  /\ UNCHANGED <<ioVars, tasks, buffer, app_pc, mainVars, accepted, handled>>

RunTask ==
  /\ app_pc = "run"
  /\ buffer # <<>>
  /\ handled' = Append(handled, Head(buffer))
  /\ buffer' = Tail(buffer)
  /\ UNCHANGED <<ioVars, tasks, app_pc, notified, mainVars, accepted>>

BufferDone ==
  /\ app_pc = "run"
  /\ buffer = <<>>
  /\ app_pc' = "loop"
  /\ UNCHANGED <<ioVars, tasks, buffer, notified, mainVars, accepted, handled>>

ThreadExits ==
  /\ app_pc = "loop"
  /\ stop_token
  /\ app_pc' = "exited"
  /\ UNCHANGED <<ioVars, tasks, buffer, notified, mainVars, accepted, handled>>

-----------------------------------------------------------------------------
(* Main thread: ApplicationSystem::Deinitialize.                           *)

Stop_Silent ==
  /\ main_pc = "running"
  /\ stopped' = TRUE /\ main_pc' = "joining" /\ stop_token' = TRUE
  /\ UNCHANGED <<ioVars, tasks, buffer, app_pc, notified, accepted, handled>>

(* Stop: stopped_ under the mutex, then notify_all; then the assignment to *)
(* application_thread_ requests the stop and joins.                        *)
Stop ==
  \/ /\ main_pc = "running"
     /\ stopped' = TRUE /\ main_pc' = "notify"
     /\ UNCHANGED <<ioVars, tasks, buffer, app_pc, notified, stop_token, accepted, handled>>
  \/ /\ main_pc = "notify"
     /\ notified' = (notified \/ app_pc = "wait")
     /\ main_pc' = "request_stop"
     /\ UNCHANGED <<ioVars, tasks, buffer, app_pc, stopped, stop_token, accepted, handled>>
  \/ /\ main_pc = "request_stop"
     /\ stop_token' = TRUE /\ main_pc' = "joining"
     /\ UNCHANGED <<ioVars, tasks, buffer, app_pc, notified, stopped, accepted, handled>>

Join ==
  /\ main_pc = "joining"
  /\ app_pc = "exited"
  /\ main_pc' = "joined"
  /\ UNCHANGED <<ioVars, tasks, buffer, app_pc, notified, stopped, stop_token, accepted, handled>>

-----------------------------------------------------------------------------

AppNext == ProcessBlocking \/ Wake \/ RunTask \/ BufferDone \/ ThreadExits

ProcessorNext ==
  \/ \E c \in Connections : Undecodable(c) \/ Enqueue(c)
  \/ NotifyOne
  \/ AppNext
  \/ SpuriousWake
  \/ Stop
  \/ Join

ProcessorSpec == ProcessorInit /\ [][ProcessorNext]_processorVars

(* The threads run; nothing makes messages arrive or the server stop, but  *)
(* a stop that has begun goes on.                                          *)
Fairness ==
  /\ WF_processorVars(NotifyOne) /\ WF_processorVars(AppNext) /\ WF_processorVars(Join)
  /\ WF_processorVars(main_pc # "running" /\ Stop)

-----------------------------------------------------------------------------

SeqToSet(s) == {s[i] : i \in DOMAIN s}

(* Queues and histories hold messages that arrived. *)
ProcessorTypeOK ==
  /\ arrived \in [Connections -> 0 .. MaxArrivals]
  /\ io_pc \in {"idle", "notify"}
  /\ app_pc \in {"loop", "wait", "run", "exited"}
  /\ main_pc \in {"running", "notify", "request_stop", "joining", "joined"}
  /\ {stopped, stop_token, notified} \subseteq BOOLEAN
  /\ \A s \in {tasks, buffer, accepted, handled} :
       SeqToSet(s) \subseteq Connections \X (1 .. MaxArrivals)

(* README, Limitations: payloads are processed sequentially in the order   *)
(* of arrival.  At any time what was handled, what the application thread  *)
(* has swapped out and what is still queued are together, in this order,   *)
(* everything that was accepted: swapping the queue never loses, repeats   *)
(* or reorders a message, and a stop drops a tail only.                    *)
InOrderOfArrival == handled \o buffer \o tasks = accepted

(* A message that was accepted is handled, unless the server stops.        *)
EveryMessageHandled ==
  \A m \in Connections \X (1 .. MaxArrivals) :
    (m \in SeqToSet(accepted)) ~> (m \in SeqToSet(handled) \/ stopped)

(* Once stopped, the application thread ends and is joined: no wake-up is  *)
(* lost between the predicate and the wait.                                *)
StopCompletes == stopped ~> (main_pc = "joined")

=============================================================================
